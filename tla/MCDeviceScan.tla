----------------------------- MODULE MCDeviceScan -----------------------------
(***************************************************************************)
(* Devices for TLC.  What a record of fields leaves out reads as zeros.    *)
(***************************************************************************)
EXTENDS DeviceScan

Pci(hw) == [code |-> "pci_discovered", arg |-> "pci.0.0.0.0", tree |-> <<>>, hw |-> hw]
Cpu(hw) == [code |-> "cpu_discovered", arg |-> "cpu.0", tree |-> <<>>, hw |-> hw]

-----------------------------------------------------------------------------
(* The registers of the base addresses: memory of 32, 20 or 64 bits or of  *)
(* the reserved width, or I/O.                                             *)
BarHw(i, b) ==
  ("bar" \o ToString(i) \o ".type" :> IF b = 4 THEN 1 ELSE 0)
  @@ ("bar" \o ToString(i) \o ".width" :> IF b = 4 THEN 0 ELSE b)
BarDevices ==
  {Pci([hdrtype |-> 0] @@ BarHw(0, b) @@ BarHw(1, c) @@ BarHw(3, b) @@ BarHw(4, c)) :
     b \in 0..4, c \in {0, 2}}
  \cup {Pci([hdrtype |-> h] @@ BarHw(0, b) @@ BarHw(1, 2)) : h \in 1..3, b \in {0, 2, 4}}

(* A list of capabilities from 64 on, of these types; the last points to   *)
(* the block `back', or to none.                                           *)
Block(i) == 60 + 4 * i
Chain(ids, back) ==
  FoldLeft(LAMBDA f, i :
             f @@ ("id@" \o ToString(Block(i)) :> ids[i])
               @@ ("next@" \o ToString(Block(i)) :>
                     IF i < Len(ids) THEN Block(i + 1) ELSE back),
           [caps |-> 1, capptr |-> Block(1)], [i \in DOMAIN ids |-> i])
(* The same of extended capabilities.                                      *)
Far(i) == IF i = 1 THEN 256 ELSE 300 + 4 * i
Extended(ids, back) ==
  FoldLeft(LAMBDA f, i :
             f @@ ("id@" \o ToString(Far(i)) :> ids[i])
               @@ ("next@" \o ToString(Far(i)) :>
                     IF i < Len(ids) THEN Far(i + 1) ELSE back),
           [extended |-> 1] @@ ("header.100" :> 1), [i \in DOMAIN ids |-> i])

CapDevices ==
  {Pci(Chain(<<id>>, end)) : id \in 0..20, end \in {0, 255}}
  \cup {Pci([hdrtype |-> 1] @@ Chain(<<5, 1, 9, 5, 9, 9>>, 0)),
        Pci([hdrtype |-> 2] @@ Chain(<<1>>, 0)),
        Pci(Chain(<<1, 5, 16, 17>>, 0)),
        Pci(Chain(<<9>>, Block(1))),
        Pci(Chain(<<1, 9, 13>>, Block(2))),
        Pci(Chain(<<1, 20, 13>>, 0))}
MsiDevices ==
  {Pci([multi_msg_cap |-> n, mask_per_vec |-> m, cap64 |-> a] @@ Chain(<<5>>, 0)) :
     n \in {0, 2, 5, 6}, m \in 0..1, a \in 0..1}
  \cup {Pci([table_bir |-> t, pba_bir |-> p, table_size |-> n]
            @@ BarHw(0, 2) @@ Chain(<<17>>, 0)) :
          t \in {0, 1, 2, 7}, p \in {0, 1, 6}, n \in {0, 64}}
HtDevices ==
  {Pci([is_interface |-> s, subtype |-> t, num_dma |-> 2] @@ Chain(<<8>>, 0)) :
     s \in 0..1, t \in 0..31}
(* What a port of PCI Express and its slot may have, all, one, or none.    *)
PortBits ==
  {"data_link_active_report_cap", "link_bw_notify_cap", "attn_button",
   "power_controller", "mrl_sensor", "attn_indicator", "power_indicator",
   "hotplug_capable", "no_cmd_complete", "electromech_lock"}
PcieDevices ==
  {Pci([type |-> t, version |-> v, slot_impl |-> s] @@ [b \in PortBits |-> s]
       @@ Chain(<<16>>, 0) @@ Extended(<<1, 11, 3>>, 0)) :
     t \in 0..10, v \in 1..2, s \in 0..1}
  \cup {Pci([type |-> 4, slot_impl |-> 1] @@ (b :> 1) @@ Chain(<<16>>, 0)) : b \in PortBits}
  \cup {Pci([type |-> t, class |-> c] @@ Chain(<<16>>, 0)) : t \in {0, 8}, c \in 0..7}
  \cup {Pci(Chain(<<c>>, 0) @@ Extended(ids, 0)) :
          c \in {1, 7, 16}, ids \in {<<1>>, <<11, 2, 11>>, <<12>>}}
  \cup {Pci(Chain(<<16>>, 0) @@ Extended(<<11, 3>>, 4095)),
        Pci(Chain(<<16>>, 0) @@ Extended(<<11, 3>>, 256))}

-----------------------------------------------------------------------------
CacheHw ==
  [queries_needed |-> 2] @@ ("valid.eax" :> 1) @@ ("valid.edx" :> 1)
  @@ ("eax[1]" :> 1) @@ ("eax[3]" :> 1) @@ ("edx[4]" :> 1)
  @@ ("cache[0]" :> 1) @@ ("cache[1]" :> 1) @@ ("topo[0]" :> 1)
CpuDevices ==
  {Cpu([vendor |-> v, largest_std_fn |-> s, largest_ext_fn |-> x]) :
     v \in 0..2, s \in {0, 1, 2, 4, 6, 11}, x \in {0, 1, 4, 8, 26}}
  \cup {Cpu(CacheHw @@ [vendor |-> 1, largest_std_fn |-> 11, family |-> f, model |-> 6,
                        std_features |-> n, arch_perfmon_version |-> 2,
                        MtrrCapVCnt |-> n, Valid |-> n]) :
          f \in {6, 15}, n \in 0..2}

(* K8: a CPU of each revision with a last error of each sort, and a node   *)
(* with the revision of its CPU, or without a CPU.                         *)
Errors == {0, 16, 256, 2048}
K8Cpus ==
  {[Cpu([family |-> 15, largest_std_fn |-> 1, model |-> m, ADDRV |-> 1,
         ERR_CODE |-> e, ERR_CODE_CacheLevel |-> 2]) EXCEPT !.code = "k8_cpu"] :
     m \in {16, 33, 65}, e \in Errors}
NodeTree(rev) ==
  [cpu |-> [kind |-> "array", type |-> "alias", elems |-> <<AliasTo(<<"cpu.0">>)>>]]
  @@ ("cpu.0" :> [NewScope("cpu.0", 0, FALSE) EXCEPT
                    !.kids = [k8_rev |-> Field(RevKeys, RevKeys[rev], FALSE)]])
Node(tree, hw) == [code |-> "k8_pci", arg |-> 0, tree |-> tree, hw |-> hw]
K8Nodes ==
  {Node(NodeTree("unknown"), <<>>), Node(<<>>, <<>>)}
  \cup {Node(NodeTree(rev), [RE |-> 1, ErrorCode |-> e, ErrorCodeExt |-> 8]) :
          rev \in {"rev_e", "rev_f"}, e \in Errors}

MCDevices ==
  BarDevices \cup CapDevices \cup MsiDevices \cup HtDevices \cup PcieDevices
  \cup CpuDevices \cup K8Cpus \cup K8Nodes

(* CPUs with one feature each, for what FIELD_TEST("std_features", ...)    *)
(* tells of them.                                                          *)
HttCpus ==
  {Cpu([vendor |-> 1, largest_std_fn |-> 1, std_features |-> f]) :
     f \in {0, 1, 4, 2^28}}
===============================================================================
