------------------------------ MODULE Discovery ------------------------------
(***************************************************************************)
(* Registration of discovery requests and do_discovery(): each driver      *)
(* enumerates its devices, identifies each, finds the request it matches   *)
(* and calls the request's callback, which defines the device in the tree  *)
(* (drivers.cc, cpu_driver.cc, pci_driver.cc, cpu.cc, pci.cc, k8.cc).      *)
(*                                                                         *)
(* Of the drivers that do_discovery() goes through only "cpu" and "pci"    *)
(* discover anything.  A system call may fail wherever the code looks at   *)
(* its result; the exception ends the discovery, and a caller may catch it *)
(* and discover again.  A PCI address is a number, in the order of         *)
(* PciAddress: the functions of one device follow each other.              *)
(***************************************************************************)
EXTENDS Naturals, Sequences, FiniteSets, SequencesExt, FiniteSetsExt, TLC

CONSTANTS
  Machine,     \* the machines: [cpu, pci, allowed]
  ClientRule,  \* the requests a program may register of its own
  MaxCalls     \* bound on the calls of do_discovery()

AMD   == "AuthenticAMD"
INTEL == "GenuineIntel"
NoOne == "NULL"   \* a callback that is NULL
All   == ""       \* what is asked for by do_discovery() without a name

(* What CPUID returns of a CPU, functions 0 and 1, and the ids of a PCI    *)
(* function.                                                               *)
CpuId == [vendor : STRING, family : 0..15, extfamily : 0..255,
          model : 0..15, extmodel : 0..15, stepping : 0..15]
PciId == [vendor : 0..(2^16 - 1), device : 0..(2^16 - 1)]

(* A directory lists finitely many devices; the process runs on some CPU.  *)
ASSUME MachineAssumption ==
  \A m \in Machine :
    /\ DOMAIN m.cpu \subseteq Nat /\ \A c \in DOMAIN m.cpu : m.cpu[c] \in CpuId
    /\ DOMAIN m.pci \subseteq Nat /\ \A f \in DOMAIN m.pci : m.pci[f] \in PciId
    /\ IsFiniteSet(DOMAIN m.cpu) /\ IsFiniteSet(DOMAIN m.pci)
    /\ m.allowed \subseteq DOMAIN m.cpu /\ m.allowed # {}

ASSUME ClientAssumption ==
  ClientRule \subseteq [kind : {"pci"}, vendor : Nat, device : Nat, callback : {"client"}]

VARIABLES
  machine,   \* the hardware, and the affinity the process started with
  unborn,    \* the static objects of devices/ not yet constructed
  requests,  \* m_callbacks of each driver
  catchall,  \* m_catchall of each driver
  asked,     \* the driver names that do_discovery() was called with
  results,   \* how those calls ended: "ok", or what threw
  todo,      \* the drivers the call has yet to run
  devices,   \* the addresses the driver at the head of todo has yet to handle
  pc,        \* what happens next to the first of devices
  leaf,      \* the CPUID function asked
  seen,      \* what was read of the device
  affinity,  \* the CPUs the process may run on
  saved,     \* orig_set
  callback,  \* the callback running
  part,      \* how many of its bound scopes it has defined
  base,      \* the scope that was current when do_discovery() was called
  scope,     \* the current scope, as a path
  tree,      \* the scopes of devices, by path
  cpus       \* the elements of the array cpu[] of each scope that has one

ruleVars     == <<machine, unborn, requests, catchall>>
loopVars     == <<asked, results, todo, devices, base>>
probeVars    == <<leaf, seen>>
affinityVars == <<affinity, saved>>
callbackVars == <<callback, part>>
treeVars     == <<scope, tree, cpus>>
vars == <<ruleVars, loopVars, pc, probeVars, affinityVars, callbackVars, treeVars>>

Driver == {"cpu", "pci"}

Init ==
  /\ machine \in Machine
  /\ unborn = {"k8", "cpu", "pci"}
  /\ requests = [d \in Driver |-> <<>>]
  /\ catchall = [d \in Driver |-> NoOne]
  /\ asked = <<>> /\ results = <<>> /\ todo = <<>> /\ devices = <<>>
  /\ pc = "idle" /\ leaf = 0 /\ seen = <<>>
  /\ affinity = machine.allowed /\ saved = {}
  /\ callback = NoOne /\ part = 0
  /\ base = <<>> /\ scope = <<>>
  /\ tree = <<>> /\ cpus = <<>>

-----------------------------------------------------------------------------
(* Registration.                                                           *)

(* register_discovery() without arguments: the catchall.  A second one is  *)
(* refused with an ArgsError.                                              *)
SetCatchall(d, function) ==
  /\ catchall[d] = NoOne
  /\ catchall' = [catchall EXCEPT ![d] = function]
  /\ UNCHANGED requests

(* With arguments: a request, whose ids are uint16_t for the PCI driver.   *)
AddRequest(r) ==
  /\ requests' = [requests EXCEPT !["pci"] =
       Append(@, [r EXCEPT !.vendor = @ % 2^16, !.device = @ % 2^16])]
  /\ UNCHANGED catchall

(* The requests of K8Discovery, in the order it makes them; 4130 is 0x1022. *)
K8Pci(device, function) ==
  [kind |-> "pci", vendor |-> 4130, device |-> device, callback |-> function]
K8Cpu(first, last) ==
  [kind |-> "cpu", vendor |-> AMD, family |-> 15..15, model |-> first..last,
   stepping |-> 0..255, callback |-> "k8_cpu"]

K8PciRules == << K8Pci(4352, "k8_pci"),                  \* 0x1100
                 K8Pci(4353, NoOne), K8Pci(4354, NoOne), K8Pci(4355, NoOne) >>
K8CpuRules == << K8Cpu(32, 57), K8Cpu(64, 255) >>        \* 0x20-0x39, 0x40-0xff

(* The static objects are constructed in the order of the linker.          *)
Construct(u) ==
  /\ u \in unborn
  /\ unborn' = unborn \ {u}
  /\ \/ /\ u = "k8"
        /\ requests' = [cpu |-> requests["cpu"] \o K8CpuRules,
                        pci |-> requests["pci"] \o K8PciRules]
        /\ UNCHANGED catchall
     \/ u = "cpu" /\ SetCatchall("cpu", "cpu_discovered")
     \/ u = "pci" /\ SetCatchall("pci", "pci_discovered")
  /\ UNCHANGED <<machine, loopVars, pc, probeVars, affinityVars, callbackVars, treeVars>>

(* A program registers a request before its first discovery.               *)
RegisterClient(r) ==
  /\ unborn = {} /\ asked = <<>> /\ r \in ClientRule
  /\ Len(requests["pci"]) = Len(K8PciRules)   \* one, to bound the list
  /\ AddRequest(r)
  /\ UNCHANGED <<machine, unborn, loopVars, pc, probeVars, affinityVars, callbackVars,
                 treeVars>>

-----------------------------------------------------------------------------
(* The loops of discovery.                                                 *)

(* (Mutation of Drivers: pci first.)                                       *)
DriversPciFirst(name) == IF name = All THEN <<"pci", "cpu">> ELSE <<name>>

(* One driver, or every driver in the order of the map, by name.           *)
Drivers(name) == IF name = All THEN <<"cpu", "pci">> ELSE <<name>>

Discover(name) ==
  /\ pc = "idle" /\ unborn = {} /\ Len(asked) < MaxCalls
  /\ asked' = Append(asked, name)
  /\ todo' = Drivers(name)
  /\ base' = scope
  /\ pc' = "enumerate"
  /\ UNCHANGED <<ruleVars, results, devices, probeVars, affinityVars, callbackVars,
                 treeVars>>

(* (Mutation of Listing: the addresses as the directory has them.)         *)
ListingUnsorted(S) == SetToSeqs(S)

(* The addresses found, sorted, whatever the order of the directory: there *)
(* is one such sequence.                                                   *)
Listing(S) ==
  {s \in [1..Cardinality(S) -> S] : \A i, j \in 1..Cardinality(S) : i < j => s[i] < s[j]}

(* discover(), up to its loop; do_discovery() returns when no driver is    *)
(* left.                                                                   *)
Enumerate ==
  /\ pc = "enumerate"
  /\ \/ /\ todo = <<>>
        /\ pc' = "idle"
        /\ results' = Append(results, "ok")
        /\ UNCHANGED devices
     \/ /\ todo # <<>>
        /\ devices' \in Listing(IF Head(todo) = "cpu" THEN DOMAIN machine.cpu
                                ELSE DOMAIN machine.pci)
        /\ pc' = "next"
        /\ UNCHANGED results
  /\ UNCHANGED <<ruleVars, asked, todo, base, probeVars, affinityVars, callbackVars,
                 treeVars>>

(* The head of the loop over the addresses.                                *)
NextDevice ==
  /\ pc = "next"
  /\ \/ /\ devices = <<>>
        /\ todo' = Tail(todo)
        /\ pc' = "enumerate"
     \/ /\ devices # <<>>
        /\ pc' = IF Head(todo) = "cpu" THEN "pin" ELSE "config"
        /\ UNCHANGED todo
  /\ leaf' = 0 /\ seen' = <<>>
  /\ UNCHANGED <<ruleVars, asked, results, devices, base, affinityVars, callbackVars,
                 treeVars>>

Device == Head(devices)

(* The callback has returned, or there was none to call.                   *)
Done ==
  /\ pc' = "next"
  /\ devices' = Tail(devices)
  /\ callback' = NoOne /\ part' = 0

(* An exception leaves every frame of do_discovery().                      *)
Abort(error) ==
  /\ pc' = "idle"
  /\ results' = Append(results, error)
  /\ todo' = <<>> /\ devices' = <<>>
  /\ callback' = NoOne /\ part' = 0
  /\ UNCHANGED <<asked, base>>

(* It leaves the context stack as it is.                                   *)
Throw(error) == Abort(error) /\ UNCHANGED treeVars

-----------------------------------------------------------------------------
(* Identification of a CPU: cpuid(), for function 0 and then 1.            *)

(* (Mutation of Pin: the affinity is saved too late.)                      *)
PinSavesLate ==
  /\ pc = "pin"
  /\ affinity' = {Device} /\ saved' = affinity' /\ pc' = "read"
  /\ UNCHANGED <<ruleVars, loopVars, probeVars, callbackVars, treeVars>>

(* (Mutation of Pin: the CPU is not asked for.)                            *)
PinLeftOut ==
  /\ pc = "pin"
  /\ saved' = affinity /\ pc' = "read"
  /\ UNCHANGED <<ruleVars, loopVars, probeVars, affinity, callbackVars, treeVars>>

(* The affinity is saved and the process bound to the CPU, which fails for *)
(* one that is offline.                                                    *)
Pin ==
  /\ pc = "pin"
  /\ \/ /\ affinity' = {Device} /\ saved' = affinity /\ pc' = "read"
        /\ UNCHANGED <<loopVars, callbackVars, treeVars>>
     \/ Throw("pin") /\ UNCHANGED affinityVars
  /\ UNCHANGED <<ruleVars, probeVars>>

(* The instruction, on a CPU that the process may run on.                  *)
ReadCpuid ==
  /\ pc = "read"
  /\ \E c \in affinity :
       LET id == machine.cpu[c]
       IN seen' = IF leaf = 0 THEN [vendor |-> id.vendor]
                  ELSE [id EXCEPT !.vendor = seen.vendor]
  /\ pc' = "restore"
  /\ UNCHANGED <<ruleVars, loopVars, leaf, affinityVars, callbackVars, treeVars>>

(* (Mutation of Restore: one function more is asked.)                      *)
RestoreAsksMore ==
  /\ pc = "restore"
  /\ affinity' = saved
  /\ pc' = IF leaf <= 1 THEN "pin" ELSE "match"
  /\ leaf' = leaf + 1
  /\ UNCHANGED <<ruleVars, loopVars, seen, saved, callbackVars, treeVars>>

(* The affinity is set back.                                               *)
Restore ==
  /\ pc = "restore"
  /\ \/ /\ affinity' = saved
        /\ pc' = IF leaf = 0 THEN "pin" ELSE "match"
        /\ leaf' = 1
        /\ UNCHANGED <<loopVars, callbackVars, treeVars>>
     \/ Throw("restore") /\ UNCHANGED <<leaf, affinity>>
  /\ UNCHANGED <<ruleVars, seen, saved>>

(* Family and model, as the vendors have them.                             *)
Extended(id) == id.vendor = INTEL \/ (id.vendor = AMD /\ id.family = 15)
Family(id) == IF Extended(id) THEN id.family + id.extfamily ELSE id.family
Model(id)  == IF Extended(id) THEN id.model + 16 * id.extmodel ELSE id.model

(* Identification of a PCI function; the config file may fail to open or   *)
(* to be read.                                                             *)
ReadConfig ==
  /\ pc = "config"
  /\ \/ /\ seen' = machine.pci[Device]
        /\ pc' = "match"
        /\ UNCHANGED <<loopVars, callbackVars, treeVars>>
     \/ Throw("config") /\ UNCHANGED seen
  /\ UNCHANGED <<ruleVars, leaf, affinityVars>>

-----------------------------------------------------------------------------
(* The choice of a callback.                                               *)

Matches(r, id) ==
  \/ /\ r.kind = "pci"
     /\ id.vendor = r.vendor /\ id.device = r.device
  \/ /\ r.kind = "cpu"
     /\ id.vendor = r.vendor
     /\ Family(id) \in r.family /\ Model(id) \in r.model /\ id.stepping \in r.stepping

(* (Mutation of Chosen: of several requests, the last.)                    *)
ChosenLast(d, id) ==
  LET rs == requests[d]
      n  == SelectLastInSeq(rs, LAMBDA r : Matches(r, id))
  IN IF n # 0 THEN rs[n].callback ELSE catchall[d]

(* find_discovery_request(), and the catchall if it finds none.            *)
Chosen(d, id) ==
  LET rs == requests[d]
      n  == SelectInSeq(rs, LAMBDA r : Matches(r, id))
  IN IF n # 0 THEN rs[n].callback ELSE catchall[d]

(* (Mutation of Match: a NULL callback ends the loop.)                     *)
MatchStops ==
  /\ pc = "match"
  /\ LET chosen == Chosen(Head(todo), seen)
     IN \/ chosen = NoOne /\ pc' = "next" /\ devices' = <<>> /\ UNCHANGED callbackVars
        \/ /\ chosen # NoOne
           /\ callback' = chosen /\ part' = 0 /\ pc' = "open"
           /\ UNCHANGED devices
  /\ UNCHANGED <<ruleVars, asked, results, todo, base, probeVars, affinityVars, treeVars>>

(* A NULL callback skips the device.                                       *)
Match ==
  /\ pc = "match"
  /\ LET chosen == Chosen(Head(todo), seen)
     IN \/ chosen = NoOne /\ Done
        \/ /\ chosen # NoOne
           /\ callback' = chosen /\ part' = 0 /\ pc' = "open"
           /\ UNCHANGED devices
  /\ UNCHANGED <<ruleVars, asked, results, todo, base, probeVars, affinityVars, treeVars>>

-----------------------------------------------------------------------------
(* The callbacks.  A device is a scope with bound scopes in it.            *)

Element == IF callback = "k8_pci"
           THEN <<"k8", Cardinality({p \in DOMAIN tree :
                          Len(p) = Len(scope) + 1 /\ Front(p) = scope /\ Last(p)[1] = "k8"})>>
           ELSE <<Head(todo), Device>>

(* The bound scopes that a callback defines in that of its device.         *)
Parts(function) ==
  CASE function = "k8_pci" -> <<"ht_config", "address_map", "dram_ctrl", "misc_ctrl">>
    [] function \in {"cpu_discovered", "k8_cpu"} -> <<"cpuid", "msr">>
    [] OTHER -> <<>>

(* The function f with v for x, be x in its domain or not.                 *)
Put(f, x, v) == [y \in DOMAIN f \cup {x} |-> IF y = x THEN v ELSE f[y]]

(* k8_rev of the CPU that /cpu[0] is an alias of.                          *)
RevOfCpu0 ==
  IF <<>> \in DOMAIN cpus /\ cpus[<<>>][1] \in DOMAIN tree
  THEN tree[cpus[<<>>][1]].rev ELSE "none"

(* OPEN_SCOPE of the device: a scope of that name is replaced.  That of a  *)
(* plain PCI function is bound itself, so that the driver may fail before. *)
(* In k8[], k8_rev is an alias of that of the first CPU: NotFoundError if  *)
(* there is none.                                                          *)
Open ==
  /\ pc = "open"
  /\ LET path == Append(scope, Element)
         rev  == IF callback = "k8_pci" THEN RevOfCpu0 ELSE "none"
     IN \/ /\ tree' = Put(tree, path, [by |-> callback, device |-> Device, rev |-> rev])
           /\ scope' = path
           /\ UNCHANGED cpus
           /\ \/ /\ callback # "k8_pci" \/ rev # "none"
                 /\ pc' = "part"
                 /\ UNCHANGED <<loopVars, callbackVars>>
              \/ callback = "k8_pci" /\ rev = "none" /\ Abort("no_rev")
        \/ Head(todo) = "pci" /\ callback # "k8_pci" /\ Throw("bind")
  /\ UNCHANGED <<ruleVars, probeVars, affinityVars>>

(* The next bound scope is opened; its driver fails if it has no device to *)
(* open, and may fail otherwise.                                           *)
OpenPart ==
  /\ pc = "part" /\ part < Len(Parts(callback))
  /\ \/ /\ callback = "k8_pci" => Device + part \in DOMAIN machine.pci
        /\ scope' = Append(scope, <<Parts(callback)[part + 1], Device>>)
        /\ pc' = "body"
        /\ UNCHANGED <<loopVars, callbackVars, tree, cpus>>
     \/ Throw("part")
  /\ UNCHANGED <<ruleVars, probeVars, affinityVars>>

(* A read of the device throws, from CpuidIo::read() possibly with the     *)
(* process bound to the CPU.                                               *)
FailReading ==
  \/ Throw("part") /\ UNCHANGED affinity
  \/ Head(todo) = "cpu" /\ Throw("read") /\ affinity' = {Device}

(* (Mutation of ClosePart: k8_msr() before k8_rev is defined.)             *)
ClosePartRevLast ==
  /\ pc = "body"
  /\ scope' = Front(scope)
  /\ part' = part + 1
  /\ pc' = IF callback = "k8_cpu" /\ part = 1 THEN "rev" ELSE "part"
  /\ UNCHANGED <<ruleVars, loopVars, probeVars, affinityVars, callback, tree, cpus>>

(* Its registers and fields are defined, for which the device is read, and *)
(* it is closed.                                                           *)
ClosePart ==
  /\ pc = "body"
  /\ \/ /\ scope' = Front(scope)
        /\ part' = part + 1
        /\ pc' = IF callback = "k8_cpu" /\ part = 0 THEN "rev" ELSE "part"
        /\ UNCHANGED <<loopVars, affinity, callback, tree, cpus>>
     \/ FailReading
  /\ UNCHANGED <<ruleVars, probeVars, saved>>

(* k8_cpu() defines k8_rev by family and model.                            *)
DefineRev ==
  /\ pc = "rev"
  /\ LET id == machine.cpu[Device]
     IN \/ /\ tree' = [tree EXCEPT ![scope].rev =
                         CASE Family(id) = 15 /\ Model(id) >= 64      -> "rev_f"
                           [] Family(id) = 15 /\ Model(id) \in 32..63 -> "rev_e"
                           [] OTHER                                   -> "unknown"]
           /\ pc' = "part"
           /\ UNCHANGED <<loopVars, affinity, callbackVars, scope, cpus>>
        \/ FailReading
  /\ UNCHANGED <<ruleVars, probeVars, saved>>

(* (Mutation of Close: the device's scope is left open.)                   *)
CloseForgotten ==
  /\ pc = "part" /\ part = Len(Parts(callback))
  /\ Done
  /\ UNCHANGED <<ruleVars, asked, results, todo, base, probeVars, affinityVars, treeVars>>

(* CLOSE_SCOPE of the device; that of a CPU goes into the array cpu[].  A  *)
(* plain PCI function is read before.                                      *)
Close ==
  /\ pc = "part" /\ part = Len(Parts(callback))
  /\ \/ /\ scope' = Front(scope)
        /\ cpus' = IF Head(todo) # "cpu" THEN cpus
                   ELSE Put(cpus, scope',
                            Append(IF scope' \in DOMAIN cpus THEN cpus[scope'] ELSE <<>>, scope))
        /\ Done
        /\ UNCHANGED <<asked, results, todo, base, tree>>
     \/ Head(todo) = "pci" /\ callback # "k8_pci" /\ Throw("part")
  /\ UNCHANGED <<ruleVars, probeVars, affinityVars>>

Next ==
  \/ \E u \in unborn : Construct(u)
  \/ \E r \in ClientRule : RegisterClient(r)
  \/ \E name \in {All} \cup Driver : Discover(name)
  \/ Enumerate \/ NextDevice
  \/ Pin \/ ReadCpuid \/ Restore
  \/ ReadConfig
  \/ Match \/ Open \/ OpenPart \/ ClosePart \/ DefineRev \/ Close

Spec == Init /\ [][Next]_vars

-----------------------------------------------------------------------------
Error    == {"pin", "restore", "config", "bind", "part", "read", "no_rev"}
Callback == {NoOne, "cpu_discovered", "pci_discovered", "k8_cpu", "k8_pci", "client"}
Rev      == {"none", "unknown", "rev_e", "rev_f"}

(* The shapes of the variables (cpu_driver.h, pci_driver.h, context.h).    *)
TypeOK ==
  /\ machine \in Machine /\ unborn \subseteq {"k8", "cpu", "pci"}
  /\ DOMAIN requests = Driver /\ catchall \in [Driver -> Callback]
  /\ asked \in Seq({All} \cup Driver) /\ results \in Seq({"ok"} \cup Error)
  /\ Len(asked) - Len(results) = IF pc = "idle" THEN 0 ELSE 1
  /\ todo \in Seq(Driver) /\ devices \in Seq(Nat)
  /\ pc \in {"idle", "enumerate", "next", "pin", "read", "restore", "config", "match",
             "open", "part", "body", "rev"}
  /\ leaf \in {0, 1} /\ {affinity, saved} \subseteq SUBSET DOMAIN machine.cpu
  /\ callback \in Callback /\ part \in 0..Len(Parts(callback))
  /\ \A p \in DOMAIN tree : tree[p].by \in Callback /\ tree[p].rev \in Rev
  /\ \A p \in DOMAIN cpus : Range(cpus[p]) \subseteq DOMAIN tree

(* The K8 revisions that have a rule, by the ids as CPUID returns them:    *)
(* family 15 unextended, models 0x20 to 0x39 and from 0x40.                *)
HasRev(id) ==
  /\ id.vendor = AMD /\ id.family = 15 /\ id.extfamily = 0
  /\ id.extmodel = 2 \/ (id.extmodel = 3 /\ id.model <= 9) \/ id.extmodel >= 4

RevOf(id) == IF id.extmodel >= 4 THEN "rev_f" ELSE "rev_e"

(* Who is to define a device: k8.cc what it knows, a program what k8.cc    *)
(* does not, the generic code the rest.                                    *)
Expected(d, x) ==
  IF d = "cpu" THEN IF HasRev(machine.cpu[x]) THEN "k8_cpu" ELSE "cpu_discovered"
  ELSE LET id == machine.pci[x]
       IN CASE id = [vendor |-> 4130, device |-> 4352] -> "k8_pci"
            [] id.vendor = 4130 /\ id.device \in 4353..4355 -> NoOne
            [] OTHER -> IF \E r \in Range(requests["pci"]) :
                             r.callback = "client" /\ r.vendor = id.vendor
                                                   /\ r.device = id.device
                        THEN "client" ELSE "pci_discovered"

Kind(p) == IF Last(p)[1] = "cpu" THEN "cpu" ELSE "pci"

Lowest == Min(DOMAIN machine.cpu)

(* Every device of the tree was defined by the code that is to define it,  *)
(* whatever CPUs the process may run on while it asks and in whatever      *)
(* order the requests were registered (driver.h:79-97).                    *)
ByRule ==
  \A p \in DOMAIN tree :
    /\ tree[p].by = Expected(Kind(p), tree[p].device)
    /\ Last(p)[1] # "k8" => Last(p)[2] = tree[p].device

(* A discovery that returns, also one after others that threw, has defined *)
(* every device that is not to be ignored, where it was called.            *)
Complete ==
  (pc = "idle" /\ results # <<>> /\ Last(results) = "ok") =>
    \A d \in Range(Drivers(Last(asked))) :
      \A x \in DOMAIN (IF d = "cpu" THEN machine.cpu ELSE machine.pci) :
        Expected(d, x) # NoOne =>
          \E p \in DOMAIN tree : /\ Len(p) = Len(base) + 1 /\ Front(p) = base
                                 /\ Kind(p) = d /\ tree[p].device = x

(* cpu[] holds the CPUs in the order of their numbers, without a gap, so   *)
(* that cpu[0] is the first (cpu.cc:25, k8.cc:3192).                       *)
CpusInOrder ==
  (Len(asked) = 1 /\ <<>> \in DOMAIN cpus) =>
    LET number(i) == Last(cpus[<<>>][i])[2]
        elements  == DOMAIN cpus[<<>>]
    IN \A i \in elements :
         /\ \A j \in elements : j < i => number(j) < number(i)
         /\ \A c \in DOMAIN machine.cpu :
              c < number(i) => \E j \in elements : j < i /\ number(j) = c

(* Where the CPUs were discovered, or are by the same call, k8_pci() finds *)
(* k8_rev, unless the first CPU has none (k8.cc:3136-3140).                *)
RevIsThere ==
  (/\ pc = "idle" /\ results # <<>> /\ Last(results) = "no_rev"
   /\ base = <<>>
   /\ Last(asked) = All \/ <<>> \in DOMAIN cpus)
  => ~HasRev(machine.cpu[Lowest])

(* Registers that depend on k8_rev are defined with the revision of their  *)
(* own CPU, and those of the northbridge with that of the first CPU        *)
(* (k8.cc:53, k8.cc:1320).                                                 *)
RevIsRight ==
  pc = "body" =>
    /\ callback = "k8_cpu" /\ part = 1 =>
         tree[Front(scope)].rev = RevOf(machine.cpu[Device])
    /\ callback = "k8_pci" =>
         tree[Front(scope)].rev = RevOf(machine.cpu[Lowest])

(* Between two devices the current scope is the one that do_discovery()    *)
(* was called in, also after an exception outside a callback.              *)
ScopesClosed ==
  scope # base => \/ pc \in {"part", "body", "rev"}
                  \/ /\ pc = "idle" /\ results # <<>>
                     /\ Last(results) \in {"part", "read", "no_rev"}

(* Asking a CPU leaves the process on the CPUs it was allowed to use,      *)
(* unless setting them back failed (cpu_driver.cc:166, 193).               *)
AffinityKept ==
  affinity # machine.allowed => \/ pc \in {"read", "restore"}
                                \/ Range(results) \cap {"restore", "read"} # {}
=============================================================================
