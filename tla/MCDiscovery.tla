----------------------------- MODULE MCDiscovery -----------------------------
(***************************************************************************)
(* Discovery, on machines with two CPUs and up to five PCI functions: both *)
(* revisions of K8 in either order, a K8 too early to have a rule beside   *)
(* one of rev E, an AMD CPU of a later family, an Intel CPU whose extended *)
(* ids make it look like a K8; the four functions of a K8 northbridge with *)
(* a plain one behind them, a northbridge without its last function.       *)
(***************************************************************************)
EXTENDS Discovery

Cpu(vendor, family, extfamily, model, extmodel) ==
  [vendor |-> vendor, family |-> family, extfamily |-> extfamily,
   model |-> model, extmodel |-> extmodel, stepping |-> 2]

RevE  == Cpu(AMD, 15, 0, 9, 3)
RevF  == Cpu(AMD, 15, 0, 0, 4)
Early == Cpu(AMD, 15, 0, 15, 1)
Fam10 == Cpu(AMD, 15, 1, 2, 4)
Intel == Cpu(INTEL, 6, 9, 1, 4)

Pci(vendor, device) == [vendor |-> vendor, device |-> device]
Northbridge(n) == [f \in 1..n |-> Pci(4130, 4351 + f)]
Plain == Pci(4130, 28672)

MCMachine ==
  { [cpu |-> (0 :> RevF @@ 1 :> RevE), pci |-> Northbridge(4) @@ (8 :> Plain), allowed |-> {0, 1}],
    [cpu |-> (0 :> RevE @@ 1 :> Early), pci |-> Northbridge(3), allowed |-> {1}],
    [cpu |-> (0 :> Early @@ 1 :> RevE), pci |-> Northbridge(4), allowed |-> {0, 1}],
    [cpu |-> (0 :> Fam10 @@ 3 :> Intel), pci |-> (0 :> Plain @@ 7 :> Plain), allowed |-> {0, 3}] }

(* Requests of a program: one that k8.cc has already made, one of its own. *)
MCClientRule ==
  { [kind |-> "pci", vendor |-> 4130, device |-> 4353, callback |-> "client"],
    [kind |-> "pci", vendor |-> 65536 + 4130, device |-> 28672, callback |-> "client"] }
=============================================================================
