-------------------------- MODULE DiscoveryProofs ---------------------------
(***************************************************************************)
(* Discovery, for any machines, any request of a program and any number of *)
(* calls: its type invariant, where it may work (AffinityKept,             *)
(* ScopesClosed), and what it defines (ByRule, Complete, CpusInOrder,      *)
(* RevIsThere and RevIsRight).                                             *)
(*                                                                         *)
(* Core is the inductive invariant: how far the loops are and what that    *)
(* says of the variables (Control), the requests that were registered      *)
(* (Requests), what the list of devices still has (List), where the        *)
(* current scope is (Where).  A step is first put into one of a few kinds, *)
(* by what it does to the calls (Kinds), to the list (InsideKinds), to the *)
(* tree (TreeChange) or to the affinity (AffinityChange); each conjunct is *)
(* then kept by each kind.                                                 *)
(*                                                                         *)
(* On top of Core, in this order: what is known of the device at hand is   *)
(* what the device has (Identified), which gives its callback (ByRule);    *)
(* the elements of k8[] are numbered from 0 (Numbered), so that none       *)
(* replaces another, and what the loops are past stays defined (Covered);  *)
(* cpu[] has the CPUs the loop is past (Order) and the lowest one first    *)
(* (FirstCpu); a CPU has its own revision once it is defined (Revs).       *)
(***************************************************************************)
EXTENDS Discovery, SequenceTheorems, FiniteSetTheorems, TLAPS

(* The steps that have a device at hand: to identify it, to call for it.   *)
Running   == {"part", "body", "rev"}
Calling   == {"open"} \cup Running
HasDevice == {"pin", "read", "restore", "config", "match"} \cup Calling

(* The control is in the loop over the devices of a driver.                *)
Looping == pc \in HasDevice \cup {"next"}

(* Where the control may be.                                               *)
PCs == {"idle", "enumerate", "next"} \cup HasDevice

(* The paths of scopes.                                                    *)
ScopeName == {"cpu", "pci", "k8", "cpuid", "msr",
              "ht_config", "address_map", "dram_ctrl", "misc_ctrl"}
Path == Seq(ScopeName \X Nat)

(* The callbacks a driver may call, and the devices it lists.              *)
CallbackOf(d) == IF d = "cpu" THEN {"cpu_discovered", "k8_cpu"}
                 ELSE {"pci_discovered", "k8_pci", "client"}
Addresses(d)  == DOMAIN (IF d = "cpu" THEN machine.cpu ELSE machine.pci)

-----------------------------------------------------------------------------
(* Of the machine and of what is registered.                               *)
RulesOK ==
  /\ machine \in Machine /\ unborn \subseteq {"k8", "cpu", "pci"}
  /\ DOMAIN requests = Driver /\ catchall \in [Driver -> Callback]

(* Of the calls: each has one result, and they come after registration.    *)
CallsOK ==
  /\ asked \in Seq({All} \cup Driver) /\ results \in Seq({"ok"} \cup Error)
  /\ Len(asked) - Len(results) = IF pc = "idle" THEN 0 ELSE 1
  /\ asked # <<>> => unborn = {}
  /\ pc # "idle" => asked # <<>>

(* Of the control: what each step knows of the loops around it.            *)
Control ==
  /\ pc \in PCs
  /\ todo \in {<<>>, <<"cpu">>, <<"pci">>, <<"cpu", "pci">>}
  /\ pc = "idle" => todo = <<>>
  /\ pc \in {"idle", "enumerate"} => devices = <<>>
  /\ pc \in HasDevice \cup {"next"} => todo # <<>>
  /\ pc \in HasDevice => devices # <<>>
  /\ pc \in {"pin", "read", "restore", "rev"} => Head(todo) = "cpu"
  /\ pc = "config" => Head(todo) = "pci"
  /\ pc \in Calling <=> callback # NoOne
  /\ callback # NoOne => callback \in CallbackOf(Head(todo))
  /\ part \in 0..Len(Parts(callback))
  /\ pc \notin Running => part = 0
  /\ pc = "body" => part < Len(Parts(callback))
  /\ pc = "rev" => callback = "k8_cpu" /\ part = 1

(* Of what is asked of a CPU, and where.                                   *)
Probing == leaf \in {0, 1} /\ {affinity, saved} \subseteq SUBSET DOMAIN machine.cpu

(* Of the tree.                                                            *)
Shape ==
  /\ scope \in Path /\ base \in Path
  /\ DOMAIN tree \subseteq Path /\ IsFiniteSet(DOMAIN tree)
  /\ tree \in [DOMAIN tree -> [by : Callback, device : Nat, rev : Rev]]
  /\ DOMAIN cpus \subseteq Path
  /\ \A p \in DOMAIN cpus : cpus[p] \in Seq(DOMAIN tree)

(* The requests of k8.cc are in order, behind them at most one other.      *)
Requests ==
  /\ "cpu" \notin unborn => catchall["cpu"] = "cpu_discovered"
  /\ "pci" \notin unborn => catchall["pci"] = "pci_discovered"
  /\ "k8" \notin unborn =>
       /\ requests["cpu"] = K8CpuRules
       /\ \/ requests["pci"] = K8PciRules
          \/ \E r : /\ r.kind = "pci" /\ r.callback = "client"
                    /\ requests["pci"] = Append(K8PciRules, r)
  /\ "k8" \in unborn => requests = [d \in Driver |-> <<>>]

(* The scope of the device at hand.                                        *)
Own == IF pc = "body" THEN Front(scope) ELSE scope

(* It is a child of the base, and no other is open.                        *)
Where ==
  /\ pc \in Running =>
       /\ Own \in DOMAIN tree
       /\ Own = Append(base, Last(Own))
       /\ IF callback = "k8_pci" THEN Last(Own)[1] = "k8" ELSE Last(Own) = <<Head(todo), Device>>
       /\ tree[Own].device = Device /\ tree[Own].by = callback
  /\ pc \notin Running \cup {"idle"} => scope = base
  /\ asked = <<>> => scope = <<>> /\ DOMAIN tree = {} /\ DOMAIN cpus = {}
  /\ ScopesClosed

(* The list is in order, and what is not on it any more was before it.     *)
List ==
  Looping =>
    /\ devices \in Seq(Addresses(Head(todo)))
    /\ \A i, j \in 1..Len(devices) : i < j => devices[i] < devices[j]
    /\ \A x \in Addresses(Head(todo)) \ Range(devices), i \in 1..Len(devices) : x < devices[i]

(* The process is back on its CPUs, unless a call failed on the way.       *)
AffinityInv ==
  LET lost == Range(results) \cap {"restore", "read"} # {}
  IN /\ affinity # machine.allowed => pc \in {"read", "restore"} \/ lost
     /\ pc \in {"read", "restore"} => saved = machine.allowed \/ lost

(* The inductive invariant, as far as it does not depend on what is found. *)
Core ==
  /\ RulesOK /\ CallsOK /\ Control /\ Requests /\ List
  /\ Probing /\ Shape /\ Where /\ AffinityInv

-----------------------------------------------------------------------------

(* What Front, Last and Range make of a sequence that was appended to.     *)
LEMMA AppendFacts ==
  ASSUME NEW S, NEW s \in Seq(S), NEW e \in S
  PROVE  /\ Append(s, e) \in Seq(S)
         /\ Append(s, e) # <<>>
         /\ Len(Append(s, e)) = Len(s) + 1
         /\ Front(Append(s, e)) = s
         /\ Last(Append(s, e)) = e
         /\ Range(Append(s, e)) = Range(s) \cup {e}
<1> DEFINE t == Append(s, e)
<1>1. /\ t \in Seq(S) /\ t # <<>> /\ Len(t) = Len(s) + 1
      /\ \A i \in 1..Len(s) : t[i] = s[i]
      /\ t[Len(s) + 1] = e
  BY AppendProperties
<1>2. Len(s) \in Nat /\ DOMAIN s = 1..Len(s) /\ DOMAIN t = 1..Len(t)
  BY <1>1, LenProperties
<1> HIDE DEF t
<1>3. Last(t) = e
  BY <1>1, <1>2 DEF Last
<1>4. Front(t) = s
  <2>1. Len(t) - 1 = Len(s)
    BY <1>1, <1>2
  <2>2. \A i \in 1..Len(s) : s[i] \in S
    BY <1>2, ElementOfSeq
  <2>3. /\ SubSeq(t, 1, Len(s)) \in Seq(S)
        /\ Len(SubSeq(t, 1, Len(s))) = IF 1 <= Len(s) THEN Len(s) - 1 + 1 ELSE 0
        /\ \A i \in 1..(Len(s) - 1 + 1) : SubSeq(t, 1, Len(s))[i] = t[1 + i - 1]
    BY <1>1, <1>2, <2>2, SubSeqProperties
  <2>4. /\ Len(SubSeq(t, 1, Len(s))) = Len(s)
        /\ \A i \in 1..Len(s) : SubSeq(t, 1, Len(s))[i] = s[i]
    BY <1>1, <1>2, <2>3
  <2>5. SubSeq(t, 1, Len(s)) = s
    BY <2>3, <2>4, SeqEqual
  <2>6. QED BY <2>1, <2>5 DEF Front
<1>5. Range(t) = Range(s) \cup {e}
  BY <1>1, <1>2 DEF Range
<1>6. QED BY <1>1, <1>3, <1>4, <1>5 DEF t

(* Kinds of steps, by what they do to a call: it ends,                     *)
Exit(e) ==
  /\ pc # "idle" /\ pc' = "idle"
  /\ results' = Append(results, e)
  /\ todo' = <<>> /\ devices' = <<>>
  /\ callback' = NoOne /\ part' = 0
  /\ UNCHANGED <<ruleVars, asked, base>>
  /\ e = "ok" => pc = "enumerate" /\ todo = <<>> /\ UNCHANGED treeVars

(* it is not made yet,                                                     *)
Registering ==
  /\ pc = "idle" /\ asked = <<>>
  /\ UNCHANGED <<machine, loopVars, pc, probeVars, affinityVars, callbackVars, treeVars>>

(* it goes on.                                                             *)
Inside ==
  /\ pc # "idle" /\ pc' # "idle"
  /\ UNCHANGED <<ruleVars, asked, results, base>>

(* Every step is a call of do_discovery() or of one of these kinds.        *)
LEMMA Kinds ==
  ASSUME Control, CallsOK, [Next]_vars
  PROVE  \/ Registering
         \/ \E name \in {All} \cup Driver : Discover(name)
         \/ \E e \in {"ok"} \cup Error : Exit(e)
         \/ Inside
         \/ UNCHANGED vars
<1> USE DEF vars, ruleVars, loopVars, probeVars, affinityVars, callbackVars, treeVars,
            HasDevice, Calling, Running, NoOne, Error
<1> DEFINE G == \/ Registering
                \/ \E name \in {All} \cup Driver : Discover(name)
                \/ \E e \in {"ok"} \cup Error : Exit(e)
                \/ Inside
<1>0. (\E u \in unborn : Construct(u)) \/ (\E r \in ClientRule : RegisterClient(r)) => Registering
  BY DEF Registering, Construct, RegisterClient, Control, CallsOK, SetCatchall, AddRequest
<1>1. Enumerate => G
  BY DEF Exit, Inside, Enumerate, Control
<1>2. NextDevice \/ ReadCpuid \/ Match => G
  BY DEF Exit, Inside, NextDevice, ReadCpuid, Match, Done
<1>3. Pin \/ Restore \/ ReadConfig => G
  BY DEF Exit, Inside, Pin, Restore, ReadConfig, Throw, Abort
<1>4. Open => G
  BY DEF Exit, Inside, Open, Throw, Abort
<1>5. OpenPart \/ ClosePart => G
  BY DEF Exit, Inside, OpenPart, ClosePart, Throw, Abort, FailReading
<1>6. DefineRev \/ Close => G
  BY DEF Exit, Inside, DefineRev, Close, Throw, Abort, FailReading, Done
<1>7. QED BY <1>0, <1>1, <1>2, <1>3, <1>4, <1>5, <1>6 DEF Next

(* Each call has one result.                                               *)
LEMMA CallsStep ==
  ASSUME Control, CallsOK, [Next]_vars
  PROVE  CallsOK'
<1> USE DEF vars, ruleVars, loopVars
<1>1. CASE Registering
  BY <1>1 DEF Registering, CallsOK
<1>2. ASSUME NEW name \in {All} \cup Driver, Discover(name) PROVE CallsOK'
  <2>1. /\ asked' = Append(asked, name) /\ UNCHANGED <<results, unborn>>
        /\ pc = "idle" /\ pc' # "idle" /\ unborn = {}
    BY <1>2 DEF Discover
  <2>2. asked' \in Seq({All} \cup Driver) /\ Len(asked') = Len(asked) + 1 /\ asked' # <<>>
    BY <2>1, AppendFacts DEF CallsOK
  <2>3. Len(asked) \in Nat /\ Len(results) \in Nat
    BY LenProperties DEF CallsOK
  <2>4. Len(asked) = Len(results)
    BY <2>1, <2>3 DEF CallsOK
  <2>5. Len(asked') - Len(results) = 1
    BY <2>2, <2>3, <2>4
  <2>6. QED BY <2>1, <2>2, <2>5 DEF CallsOK
<1>3. ASSUME NEW e \in {"ok"} \cup Error, Exit(e) PROVE CallsOK'
  <2>1. results' \in Seq({"ok"} \cup Error) /\ Len(results') = Len(results) + 1
    BY <1>3, AppendFacts DEF CallsOK, Exit
  <2>2. Len(asked) \in Nat /\ Len(results) \in Nat
    BY LenProperties DEF CallsOK
  <2>3. Len(asked) - Len(results) = 1 /\ pc' = "idle" /\ UNCHANGED <<asked, unborn>>
    BY <1>3 DEF CallsOK, Exit
  <2>4. Len(asked') - Len(results') = 0
    BY <2>1, <2>2, <2>3
  <2>5. QED BY <2>1, <2>3, <2>4, <1>3 DEF CallsOK, Exit
<1>4. CASE Inside
  BY <1>4 DEF Inside, CallsOK
<1>5. CASE UNCHANGED vars
  BY <1>5 DEF CallsOK
<1>6. QED BY <1>1, <1>2, <1>3, <1>4, <1>5, Kinds

(* How many bound scopes each callback defines.                            *)
LEMMA PartsLength ==
  \A f : /\ f = "k8_pci" => Len(Parts(f)) = 4
         /\ f \in {"cpu_discovered", "k8_cpu"} => Len(Parts(f)) = 2
         /\ f \notin {"k8_pci", "cpu_discovered", "k8_cpu"} => Len(Parts(f)) = 0
<1> TAKE f
<1>1. CASE f = "k8_pci"
  BY <1>1 DEF Parts
<1>2. CASE f \in {"cpu_discovered", "k8_cpu"}
  BY <1>2 DEF Parts
<1>3. CASE f \notin {"k8_pci", "cpu_discovered", "k8_cpu"}
  BY <1>3 DEF Parts
<1>4. QED BY <1>1, <1>2, <1>3

(* They have names of scopes.                                              *)
LEMMA PartName ==
  ASSUME NEW f, NEW n \in Nat, n < Len(Parts(f))
  PROVE  Parts(f)[n + 1] \in ScopeName
<1>1. CASE f = "k8_pci"
  <2>0. Len(Parts(f)) = 4
    BY <1>1, PartsLength
  <2>1. n \in {0, 1, 2, 3}
    BY <2>0
  <2>2. QED BY <1>1, <2>1 DEF Parts, ScopeName
<1>2. CASE f \in {"cpu_discovered", "k8_cpu"}
  <2>0. Len(Parts(f)) = 2
    BY <1>2, PartsLength
  <2>1. n \in {0, 1}
    BY <2>0
  <2>2. QED BY <1>2, <2>1 DEF Parts, ScopeName
<1>3. CASE f \notin {"k8_pci", "cpu_discovered", "k8_cpu"}
  BY <1>3, PartsLength
<1>4. QED BY <1>1, <1>2, <1>3

(* The rules that k8.cc makes for a driver, and those of a program behind. *)
LEMMA RequestsAre ==
  ASSUME Requests, unborn = {}
  PROVE  /\ catchall["cpu"] = "cpu_discovered" /\ catchall["pci"] = "pci_discovered"
         /\ requests["cpu"] = K8CpuRules
         /\ \E n \in {4, 5} :
              /\ Len(requests["pci"]) = n
              /\ \A i \in 1..4 : requests["pci"][i] = K8PciRules[i]
              /\ n = 5 => requests["pci"][5].kind = "pci" /\ requests["pci"][5].callback = "client"
<1>1. Len(K8PciRules) = 4
  BY DEF K8PciRules
<1>2. CASE requests["pci"] = K8PciRules
  BY <1>1, <1>2 DEF Requests
<1>3. ASSUME NEW r, r.kind = "pci", r.callback = "client", requests["pci"] = Append(K8PciRules, r)
      PROVE  /\ Len(requests["pci"]) = 5
             /\ \A i \in 1..4 : requests["pci"][i] = K8PciRules[i]
             /\ requests["pci"][5].kind = "pci" /\ requests["pci"][5].callback = "client"
  BY <1>3 DEF K8PciRules
<1>4. QED BY <1>2, <1>3 DEF Requests

(* The least of a few positions.                                           *)
LEMMA SmallMin ==
  ASSUME NEW I \in SUBSET (1..5), I # {}
  PROVE  Min(I) \in I /\ \A i \in I : Min(I) <= i
<1>1. \E m \in I : \A i \in I : m <= i
  <2>1. CASE 1 \in I
    BY <2>1
  <2>2. CASE 1 \notin I /\ 2 \in I
    BY <2>2
  <2>3. CASE 1 \notin I /\ 2 \notin I /\ 3 \in I
    BY <2>3
  <2>4. CASE 1 \notin I /\ 2 \notin I /\ 3 \notin I /\ 4 \in I
    BY <2>4
  <2>5. CASE 1 \notin I /\ 2 \notin I /\ 3 \notin I /\ 4 \notin I
    <3>1. \A i \in I : i = 5
      BY <2>5
    <3>2. 5 \in I
      BY <3>1
    <3>3. QED BY <3>1, <3>2
  <2>6. QED BY <2>1, <2>2, <2>3, <2>4, <2>5
<1>2. QED BY <1>1 DEF Min

(* The request found is the first that matches.                            *)
LEMMA FirstMatch ==
  ASSUME NEW d, NEW id, Len(requests[d]) \in 0..5
  PROVE  \/ \E n \in 1..Len(requests[d]) :
              /\ Matches(requests[d][n], id)
              /\ \A i \in 1..(n - 1) : ~Matches(requests[d][i], id)
              /\ Chosen(d, id) = requests[d][n].callback
         \/ /\ \A i \in 1..Len(requests[d]) : ~Matches(requests[d][i], id)
            /\ Chosen(d, id) = catchall[d]
<1> DEFINE I == {i \in 1..Len(requests[d]) : Matches(requests[d][i], id)}
<1>1. Chosen(d, id) = LET n == IF I # {} THEN Min(I) ELSE 0
                      IN IF n # 0 THEN requests[d][n].callback ELSE catchall[d]
  BY DEF Chosen, SelectInSeq
<1>2. CASE I = {}
  BY <1>1, <1>2
<1>3. CASE I # {}
  <2>1. I \in SUBSET (1..5)
    OBVIOUS
  <2>2. Min(I) \in I /\ \A i \in I : Min(I) <= i
    BY <1>3, <2>1, SmallMin
  <2> DEFINE n == Min(I)
  <2>3. n \in 1..Len(requests[d]) /\ n \in Nat /\ n # 0 /\ Matches(requests[d][n], id)
    BY <2>2
  <2>4. Chosen(d, id) = requests[d][n].callback
    BY <1>1, <1>3, <2>3
  <2>5. \A i \in 1..(n - 1) : ~Matches(requests[d][i], id)
    <3>1. SUFFICES ASSUME NEW i \in 1..(n - 1), Matches(requests[d][i], id) PROVE FALSE
      OBVIOUS
    <3>2. i \in I
      BY <2>3, <3>1
    <3>3. n <= i
      BY <2>2, <3>2
    <3> HIDE DEF n
    <3>4. QED BY <2>3, <3>1, <3>3
  <2> HIDE DEF n
  <2>6. QED BY <2>3, <2>4, <2>5
<1>4. QED BY <1>2, <1>3

(* A driver calls its own callbacks only.                                  *)
LEMMA ChosenIsOfDriver ==
  ASSUME Requests, unborn = {}, NEW d \in Driver, NEW id
  PROVE  Chosen(d, id) \in {NoOne} \cup CallbackOf(d)
<1>1. CASE d = "cpu"
  <2>1. /\ Len(requests[d]) = 2
        /\ \A i \in 1..2 : requests[d][i].callback = "k8_cpu"
        /\ catchall[d] = "cpu_discovered"
    <3>1. \A m, n : K8Cpu(m, n).callback = "k8_cpu"
      BY DEF K8Cpu
    <3>2. QED BY <1>1, <3>1, RequestsAre DEF K8CpuRules
  <2>2. QED BY <1>1, <2>1, FirstMatch DEF CallbackOf
<1>2. CASE d = "pci"
  <2>1. /\ Len(requests[d]) \in {4, 5}
        /\ \A i \in 1..Len(requests[d]) : requests[d][i].callback \in {NoOne, "k8_pci", "client"}
        /\ catchall[d] = "pci_discovered"
    BY <1>2, RequestsAre DEF K8PciRules, K8Pci
  <2>2. QED BY <1>2, <2>1, FirstMatch DEF CallbackOf
<1>3. QED BY <1>1, <1>2 DEF Driver

(* A device at hand is one of "cpu" or of "pci".                           *)
LEMMA DriverOfCall ==
  ASSUME Control, pc \in HasDevice \cup {"next"}
  PROVE  Head(todo) \in Driver
<1>1. todo \in {<<"cpu">>, <<"pci">>, <<"cpu", "pci">>}
  BY DEF Control
<1>2. CASE todo = <<"cpu">>
  BY <1>2 DEF Driver
<1>3. CASE todo = <<"pci">>
  BY <1>3 DEF Driver
<1>4. CASE todo = <<"cpu", "pci">>
  BY <1>4 DEF Driver
<1>5. QED BY <1>1, <1>2, <1>3, <1>4

(* Control is kept.                                                        *)
LEMMA ControlStep ==
  ASSUME Control, CallsOK, Requests, [Next]_vars
  PROVE  Control'
<1> USE DEF vars, ruleVars, loopVars, probeVars, affinityVars, callbackVars, treeVars,
            PCs, HasDevice, Calling, Running, NoOne
<1>0. part \in Nat /\ Len(Parts(NoOne)) = 0
  BY PartsLength DEF Control
<1>1. CASE Registering
  BY <1>0, <1>1 DEF Registering, Control
<1>2. ASSUME NEW name \in {All} \cup Driver, Discover(name) PROVE Control'
  BY <1>0, <1>2 DEF Discover, Control, Drivers, Driver
<1>3. ASSUME NEW e \in {"ok"} \cup Error, Exit(e) PROVE Control'
  BY <1>0, <1>3 DEF Control, Exit
<1>4. ASSUME Inside, Enumerate PROVE Control'
  BY <1>0, <1>4 DEF Inside, Control, Enumerate
<1>5. ASSUME Inside, NextDevice PROVE Control'
  <2>1. ASSUME NEW t \in {<<"cpu">>, <<"pci">>, <<"cpu", "pci">>}
        PROVE  Tail(t) \in {<<>>, <<"pci">>}
    <3>1. CASE t = <<"cpu">>
      BY <3>1
    <3>2. CASE t = <<"pci">>
      BY <3>2
    <3>3. CASE t = <<"cpu", "pci">>
      BY <3>3
    <3>4. QED BY <3>1, <3>2, <3>3
  <2>2. /\ UNCHANGED <<devices, part, callback>> /\ callback = NoOne /\ part = 0
        /\ \/ devices = <<>> /\ todo' = Tail(todo) /\ pc' = "enumerate"
           \/ devices # <<>> /\ todo' = todo /\ pc' = IF Head(todo) = "cpu" THEN "pin" ELSE "config"
        /\ todo \in {<<"cpu">>, <<"pci">>, <<"cpu", "pci">>}
    BY <1>5 DEF NextDevice, Control
  <2>3. todo' \in {<<>>, <<"cpu">>, <<"pci">>, <<"cpu", "pci">>}
    BY <2>1, <2>2
  <2>4. pc' = "config" => Head(todo) = "pci"
    BY <2>2, DriverOfCall, <1>5 DEF Driver, NextDevice
  <2>5. QED BY <1>0, <2>2, <2>3, <2>4 DEF Control
<1>6. ASSUME Inside, Pin PROVE Control'
  BY <1>0, <1>6, PartsLength DEF Inside, Control, Pin, Throw, Abort, CallbackOf
<1>7. ASSUME Inside, ReadCpuid PROVE Control'
  BY <1>0, <1>7, PartsLength DEF Inside, Control, ReadCpuid, CallbackOf
<1>8. ASSUME Inside, Restore PROVE Control'
  BY <1>0, <1>8, PartsLength DEF Inside, Control, Restore, Throw, Abort, CallbackOf
<1>9. ASSUME Inside, ReadConfig PROVE Control'
  BY <1>0, <1>9, PartsLength DEF Inside, Control, ReadConfig, Throw, Abort, CallbackOf
<1>10. ASSUME Inside, Match PROVE Control'
  <2>1. Head(todo) \in Driver
    BY <1>10, DriverOfCall DEF Match
  <2>0. unborn = {}
    BY <1>10 DEF Inside, CallsOK
  <2>2. Chosen(Head(todo), seen) \in {NoOne} \cup CallbackOf(Head(todo))
    BY <2>0, <2>1, ChosenIsOfDriver
  <2>3. QED BY <1>0, <1>10, <2>2, PartsLength DEF Inside, Control, Match, Done
<1>11. ASSUME Inside, Open PROVE Control'
  BY <1>0, <1>11, PartsLength DEF Inside, Control, Open, Throw, Abort, CallbackOf
<1>12. ASSUME Inside, OpenPart PROVE Control'
  BY <1>0, <1>12, PartsLength DEF Inside, Control, OpenPart, Throw, Abort, CallbackOf
<1>13. ASSUME Inside, ClosePart PROVE Control'
  BY <1>0, <1>13, PartsLength DEF Inside, Control, ClosePart, Throw, Abort, FailReading, CallbackOf
<1>14. ASSUME Inside, DefineRev PROVE Control'
  BY <1>0, <1>14, PartsLength DEF Inside, Control, DefineRev, Throw, Abort, FailReading, CallbackOf
<1>15. ASSUME Inside, Close PROVE Control'
  BY <1>0, <1>15, PartsLength DEF Inside, Control, Close, Throw, Abort, Done, CallbackOf
<1>16. CASE UNCHANGED vars
  BY <1>0, <1>16 DEF Control
<1>17. CASE Inside
  <2>1. ~(\E u \in unborn : Construct(u)) /\ ~(\E r \in ClientRule : RegisterClient(r))
        /\ ~(\E name \in {All} \cup Driver : Discover(name))
    BY <1>17 DEF Inside, Construct, RegisterClient, Discover, CallsOK
  <2>2. QED BY <2>1, <1>4, <1>5, <1>6, <1>7, <1>8, <1>9, <1>10, <1>11, <1>12, <1>13, <1>14, <1>15, <1>16, <1>17 DEF Next
<1>18. QED BY <1>1, <1>2, <1>3, <1>16, <1>17, Kinds

(* Requests are added before the first call only.                          *)
LEMMA RulesChange ==
  ASSUME Control, CallsOK, [Next]_vars
  PROVE  \/ \E u \in unborn : Construct(u)
         \/ \E r \in ClientRule : RegisterClient(r)
         \/ UNCHANGED ruleVars
<1> USE DEF vars, ruleVars
<1>1. CASE ~Registering
  BY <1>1, Kinds DEF Discover, Exit, Inside
<1>2. CASE Registering
  <2>1. pc = "idle" /\ pc' = "idle"
    BY <1>2 DEF Registering
  <2>2. \A name : ~Discover(name)
    BY <2>1 DEF Discover
  <2>3. ~Enumerate /\ ~NextDevice /\ ~Pin /\ ~ReadCpuid /\ ~Restore /\ ~ReadConfig
        /\ ~Match /\ ~Open /\ ~OpenPart /\ ~ClosePart /\ ~DefineRev /\ ~Close
    BY <2>1 DEF Enumerate, NextDevice, Pin, ReadCpuid, Restore, ReadConfig,
                Match, Open, OpenPart, ClosePart, DefineRev, Close
  <2>4. QED BY <2>2, <2>3 DEF Next
<1>3. QED BY <1>1, <1>2

(* The requests of k8.cc stay in order, in whatever order the objects are  *)
(* made.                                                                   *)
LEMMA RulesStep ==
  ASSUME RulesOK, Requests, Control, CallsOK, [Next]_vars
  PROVE  RulesOK' /\ Requests'
<1> USE DEF RulesOK, Driver, Callback
<1>1. ASSUME NEW u \in unborn, Construct(u) PROVE RulesOK' /\ Requests'
  <2>1. u \in {"k8", "cpu", "pci"} /\ unborn' = unborn \ {u} /\ machine' = machine
    BY <1>1 DEF Construct
  <2>2. CASE u = "k8"
    <3>1. /\ requests' = [cpu |-> requests["cpu"] \o K8CpuRules, pci |-> requests["pci"] \o K8PciRules]
          /\ UNCHANGED catchall
      BY <1>1, <2>2 DEF Construct
    <3>2. requests["cpu"] = <<>> /\ requests["pci"] = <<>>
      BY <2>2 DEF Requests
    <3>3. requests' = [cpu |-> K8CpuRules, pci |-> K8PciRules]
      BY <3>1, <3>2 DEF K8CpuRules, K8PciRules
    <3>4. DOMAIN requests' = {"cpu", "pci"} /\ requests'["cpu"] = K8CpuRules /\ requests'["pci"] = K8PciRules
      BY <3>3
    <3>5. QED BY <2>1, <2>2, <3>1, <3>4 DEF Requests
  <2>3. CASE u \in {"cpu", "pci"}
    <3>1. /\ UNCHANGED requests
          /\ catchall' = [catchall EXCEPT ![u] = IF u = "cpu" THEN "cpu_discovered" ELSE "pci_discovered"]
      BY <1>1, <2>3 DEF Construct, SetCatchall
    <3>2. QED BY <2>1, <2>3, <3>1 DEF Requests
  <2>4. QED BY <2>1, <2>2, <2>3
<1>2. ASSUME NEW r \in ClientRule, RegisterClient(r) PROVE RulesOK' /\ Requests'
  <2>1. /\ unborn = {} /\ UNCHANGED <<machine, unborn, catchall>>
        /\ Len(requests["pci"]) = Len(K8PciRules)
    BY <1>2 DEF RegisterClient, AddRequest
  <2> DEFINE s == [r EXCEPT !.vendor = @ % 2^16, !.device = @ % 2^16]
  <2>2. requests' = [requests EXCEPT !["pci"] = Append(@, s)]
    BY <1>2 DEF RegisterClient, AddRequest
  <2>3. s.kind = "pci" /\ s.callback = "client"
    BY ClientAssumption
  <2>4. requests["pci"] = K8PciRules /\ requests["cpu"] = K8CpuRules
    <3>1. ASSUME NEW q PROVE Len(Append(K8PciRules, q)) # Len(K8PciRules)
      BY DEF K8PciRules
    <3>2. QED BY <2>1, <3>1 DEF Requests
  <2> HIDE DEF s
  <2>5. /\ DOMAIN requests' = {"cpu", "pci"}
        /\ requests'["pci"] = Append(K8PciRules, s) /\ requests'["cpu"] = K8CpuRules
    BY <2>2, <2>4
  <2>6. QED BY <2>1, <2>3, <2>5 DEF Requests
<1>3. CASE UNCHANGED ruleVars
  BY <1>3 DEF ruleVars, Requests
<1>4. QED BY <1>1, <1>2, <1>3, RulesChange

(* Kinds of steps inside a call, by what they do to the list of devices.   *)
Start    == pc = "enumerate" /\ todo # <<>> /\ Enumerate
NextOne  == pc = "next" /\ pc' = "enumerate" /\ devices = <<>> /\ todo' = Tail(todo) /\ devices' = devices
Advance  == pc \in {"match", "part"} /\ pc' = "next" /\ todo' = todo /\ devices' = Tail(devices)
Stay     == Looping /\ Looping' /\ todo' = todo /\ devices' = devices

(* There is no other.                                                      *)
LEMMA InsideKinds ==
  ASSUME Control, CallsOK, Inside, Next
  PROVE  (Start \/ NextOne \/ Advance \/ Stay) /\ machine' = machine
<1> USE DEF vars, ruleVars, loopVars, probeVars, affinityVars, callbackVars, treeVars,
            HasDevice, Calling, Running, Looping
<1> DEFINE G == Start \/ NextOne \/ Advance \/ Stay
<1>1. machine' = machine
  BY DEF Inside
<1>2. ~(\E u \in unborn : Construct(u)) /\ ~(\E r \in ClientRule : RegisterClient(r))
      /\ ~(\E name \in {All} \cup Driver : Discover(name))
  BY DEF Inside, Construct, RegisterClient, Discover, CallsOK
<1>3. Enumerate => G
  BY DEF Inside, Start, Enumerate
<1>4. NextDevice => G
  BY DEF Inside, NextOne, Stay, NextDevice
<1>5. Pin \/ ReadCpuid \/ Restore \/ ReadConfig => G
  BY DEF Inside, Stay, Pin, ReadCpuid, Restore, ReadConfig, Throw, Abort
<1>6. Match => G
  BY DEF Inside, Stay, Advance, Match, Done
<1>7. Open \/ OpenPart \/ ClosePart \/ DefineRev => G
  BY DEF Inside, Stay, Open, OpenPart, ClosePart, DefineRev, Throw, Abort, FailReading
<1>8. Close => G
  BY DEF Inside, Advance, Close, Done, Throw, Abort
<1>9. QED BY <1>1, <1>2, <1>3, <1>4, <1>5, <1>6, <1>7, <1>8 DEF Next

(* A listing has all the addresses, in order.                              *)
LEMMA ListingFacts ==
  ASSUME NEW S, IsFiniteSet(S), NEW s \in Listing(S), S \subseteq Nat
  PROVE  s \in Seq(S) /\ Range(s) = S /\ \A i, j \in 1..Len(s) : i < j => s[i] < s[j]
<1> DEFINE n == Cardinality(S)
<1>1. n \in Nat
  BY FS_CardinalityType
<1>2. s \in [1..n -> S] /\ \A i, j \in 1..n : i < j => s[i] < s[j]
  BY DEF Listing
<1> HIDE DEF n
<1>3. s \in Seq(S) /\ Len(s) = n
  BY <1>1, <1>2, SeqDef, LenProperties
<1>4. s \in Injection(1..n, S)
  <2>1. \A i, j \in 1..n : s[i] = s[j] => i = j
    <3>1. \A i \in 1..n : s[i] \in Nat
      BY <1>2
    <3>2. QED BY <1>1, <1>2, <3>1
  <2>2. QED BY <1>2, <2>1 DEF Injection, IsInjective
<1>5. Cardinality(1..n) = n
  BY <1>1, FS_Interval
<1>6. s \in Surjection(1..n, S)
  BY <1>4, <1>5, FS_Injection DEF n
<1>7. Range(s) = S
  BY <1>2, <1>6 DEF Surjection, Range
<1>8. QED BY <1>2, <1>3, <1>7

(* What is left of a sorted sequence.                                      *)
LEMMA TailSorted ==
  ASSUME NEW S \in SUBSET Nat, NEW s \in Seq(S), s # <<>>,
         \A i, j \in 1..Len(s) : i < j => s[i] < s[j]
  PROVE  /\ Tail(s) \in Seq(S)
         /\ \A i, j \in 1..Len(Tail(s)) : i < j => Tail(s)[i] < Tail(s)[j]
         /\ \A i \in 1..Len(Tail(s)) : Head(s) < Tail(s)[i]
         /\ \A i \in 1..Len(Tail(s)) : Tail(s)[i] = s[i + 1]
         /\ Len(Tail(s)) = Len(s) - 1 /\ Len(s) \in Nat /\ Len(s) > 0
         /\ Head(s) = s[1] /\ Head(s) \in S
         /\ Head(s) \notin Range(Tail(s))
         /\ Range(s) = Range(Tail(s)) \cup {Head(s)}
<1>1. /\ Tail(s) \in Seq(S) /\ Len(Tail(s)) = Len(s) - 1 /\ Head(s) \in S
      /\ \A i \in 1..Len(Tail(s)) : Tail(s)[i] = s[i + 1]
  BY HeadTailProperties
<1>2. Len(s) \in Nat /\ Len(s) > 0 /\ DOMAIN s = 1..Len(s) /\ DOMAIN Tail(s) = 1..(Len(s) - 1)
  BY <1>1, EmptySeq, LenProperties
<1>3. Head(s) = s[1]
  OBVIOUS
<1>4. \A i \in 1..Len(s) : s[i] \in Nat
  <2>1. \A i \in 1..Len(s) : s[i] \in S
    BY ElementOfSeq
  <2>2. QED BY <2>1
<1>5. \A i, j \in 1..Len(Tail(s)) : i < j => Tail(s)[i] < Tail(s)[j]
  BY <1>1, <1>2
<1>6. \A i \in 1..Len(Tail(s)) : Head(s) < Tail(s)[i]
  BY <1>1, <1>2, <1>3
<1>7. Head(s) \notin Range(Tail(s))
  BY <1>1, <1>2, <1>3, <1>4, <1>6 DEF Range
<1>8. Range(s) = Range(Tail(s)) \cup {Head(s)}
  <2>1. \A i \in 2..Len(s) : i - 1 \in 1..Len(Tail(s)) /\ s[i] = Tail(s)[i - 1]
    BY <1>1, <1>2
  <2>2. Range(s) \subseteq Range(Tail(s)) \cup {Head(s)}
    <3>1. SUFFICES ASSUME NEW i \in 1..Len(s), i # 1 PROVE s[i] \in Range(Tail(s))
      BY <1>2, <1>3 DEF Range
    <3>2. i \in 2..Len(s)
      BY <1>2, <3>1
    <3>3. QED BY <1>1, <1>2, <2>1, <3>2 DEF Range
  <2>3. Range(Tail(s)) \subseteq Range(s)
    BY <1>1, <1>2 DEF Range
  <2>4. QED BY <1>2, <1>3, <2>2, <2>3 DEF Range
<1>9. QED BY <1>1, <1>2, <1>3, <1>5, <1>6, <1>7, <1>8

(* The devices of a driver are finitely many numbers.                      *)
LEMMA AddressFacts ==
  ASSUME RulesOK, NEW d \in Driver
  PROVE  Addresses(d) \in SUBSET Nat /\ IsFiniteSet(Addresses(d))
  BY MachineAssumption DEF RulesOK, Addresses

(* What the loop has done is in front of what it has yet to do.            *)
LEMMA ListStep ==
  ASSUME List, Control, RulesOK, CallsOK, [Next]_vars
  PROVE  List'
<1> SUFFICES ASSUME Looping' PROVE List'
  BY DEF List
<1> USE DEF Looping, HasDevice, Calling, Running
<1>1. CASE Registering \/ (\E name \in {All} \cup Driver : Discover(name))
           \/ (\E e \in {"ok"} \cup Error : Exit(e))
  BY <1>1 DEF Registering, Discover, Exit
<1>2. CASE UNCHANGED vars
  BY <1>2 DEF vars, ruleVars, loopVars, List, Addresses
<1>3. CASE Inside /\ Next
  <2>1. machine' = machine
    BY <1>3, InsideKinds
  <2>2. CASE Start
    <3>1. todo' = todo /\ Head(todo) \in Driver
      BY <2>2 DEF Start, Enumerate, Control, Driver
    <3>2. devices' \in Listing(Addresses(Head(todo)))
      BY <2>2 DEF Start, Enumerate, Addresses
    <3>3. /\ devices' \in Seq(Addresses(Head(todo))) /\ Range(devices') = Addresses(Head(todo))
          /\ \A i, j \in 1..Len(devices') : i < j => devices'[i] < devices'[j]
      BY <3>1, <3>2, AddressFacts, ListingFacts
    <3>4. QED BY <2>1, <3>1, <3>3 DEF List, Addresses
  <2>3. CASE NextOne
    BY <2>3 DEF NextOne
  <2>4. CASE Advance
    <3>1. /\ devices # <<>> /\ todo' = todo /\ devices' = Tail(devices) /\ Looping
          /\ Head(todo) \in Driver
      BY <2>4, DriverOfCall DEF Advance, Control
    <3> DEFINE A == Addresses(Head(todo))
    <3>2. /\ A \in SUBSET Nat /\ devices \in Seq(A)
          /\ \A i, j \in 1..Len(devices) : i < j => devices[i] < devices[j]
          /\ \A x \in A \ Range(devices), i \in 1..Len(devices) : x < devices[i]
      BY <3>1, AddressFacts DEF List
    <3>3. Addresses(Head(todo))' = A
      BY <2>1, <3>1 DEF Addresses
    <3> HIDE DEF A
    <3>4. /\ devices' \in Seq(A)
          /\ \A i, j \in 1..Len(devices') : i < j => devices'[i] < devices'[j]
      BY <3>1, <3>2, TailSorted
    <3>5. \A x \in A \ Range(devices'), i \in 1..Len(devices') : x < devices'[i]
      <4>1. SUFFICES ASSUME NEW x \in A, x \notin Range(devices'), NEW i \in 1..Len(devices')
                     PROVE  x < devices'[i]
        OBVIOUS
      <4>2. CASE x = Head(devices)
        BY <3>1, <3>2, <4>2, TailSorted
      <4>3. CASE x # Head(devices)
        <5>1. x \notin Range(devices)
          BY <3>1, <3>2, <4>1, <4>3, TailSorted
        <5>2. devices'[i] = devices[i + 1] /\ i + 1 \in 1..Len(devices)
          BY <3>1, <3>2, TailSorted
        <5>3. QED BY <3>2, <5>1, <5>2
      <4>4. QED BY <4>2, <4>3
    <3>6. QED BY <3>3, <3>4, <3>5 DEF List
  <2>5. CASE Stay
    BY <2>1, <2>5 DEF Stay, List, Addresses
  <2>6. QED BY <1>3, <2>2, <2>3, <2>4, <2>5, InsideKinds
<1>4. QED BY <1>1, <1>2, <1>3, Kinds

(* The device at hand is one of its driver.                                *)
LEMMA DeviceIsListed ==
  ASSUME List, Control, RulesOK, pc \in HasDevice
  PROVE  /\ Head(todo) \in Driver /\ Device \in Addresses(Head(todo))
         /\ Device \in Nat /\ devices # <<>> /\ Device \in Range(devices)
<1> DEFINE A == Addresses(Head(todo))
<1>1. Head(todo) \in Driver
  BY DriverOfCall
<1>2. A \in SUBSET Nat
  BY <1>1, AddressFacts
<1>3. devices \in Seq(A) /\ devices # <<>>
  BY DEF List, Looping, Control
<1> HIDE DEF A
<1>4. Head(devices) \in A /\ Head(devices) = devices[1] /\ DOMAIN devices = 1..Len(devices)
      /\ Len(devices) \in Nat /\ Len(devices) # 0
  BY <1>3, HeadTailProperties, LenProperties, EmptySeq
<1>5. QED BY <1>1, <1>2, <1>3, <1>4 DEF A, Device, Range


(* What each step does to the affinity.                                    *)
LEMMA AffinityChange ==
  ASSUME Control, CallsOK, [Next]_vars
  PROVE  \/ /\ pc \notin {"read", "restore"} /\ pc' \notin {"read", "restore"}
            /\ UNCHANGED <<affinity, saved>>
         \/ pc = "pin" /\ pc' = "read" /\ affinity' = {Device} /\ saved' = affinity
         \/ pc = "read" /\ pc' = "restore" /\ UNCHANGED <<affinity, saved>>
         \/ pc = "restore" /\ affinity' = saved /\ UNCHANGED <<results, saved>> /\ pc' \in {"pin", "match"}
         \/ pc = "restore" /\ Exit("restore") /\ UNCHANGED <<affinity, saved>>
         \/ pc \in HasDevice /\ Head(todo) = "cpu" /\ Exit("read") /\ affinity' = {Device} /\ saved' = saved
         \/ UNCHANGED <<pc, affinity, saved>>
<1> USE DEF vars, ruleVars, loopVars, probeVars, affinityVars, callbackVars, treeVars,
            HasDevice, Calling, Running, NoOne
<1>1. CASE \/ \E u \in unborn : Construct(u)
           \/ \E r \in ClientRule : RegisterClient(r)
           \/ \E name \in {All} \cup Driver : Discover(name)
  BY <1>1 DEF Construct, RegisterClient, Discover
<1>2. CASE Enumerate \/ NextDevice \/ Match
  BY <1>2 DEF Enumerate, NextDevice, Match, Done
<1>3. CASE Pin \/ ReadCpuid
  BY <1>3 DEF Pin, ReadCpuid, Throw, Abort
<1>4. CASE Restore
  BY <1>4 DEF Restore, Throw, Abort, Exit
<1>5. CASE ReadConfig \/ Open \/ OpenPart \/ Close
  BY <1>5 DEF ReadConfig, Open, OpenPart, Close, Throw, Abort, Done
<1>6. CASE ClosePart
  BY <1>6 DEF ClosePart, FailReading, Throw, Abort, Exit
<1>7. CASE DefineRev
  BY <1>7 DEF DefineRev, FailReading, Throw, Abort, Exit
<1>8. CASE UNCHANGED vars
  BY <1>8
<1>9. QED BY <1>1, <1>2, <1>3, <1>4, <1>5, <1>6, <1>7, <1>8 DEF Next

(* A result stays.                                                         *)
LEMMA ResultsGrow ==
  ASSUME Control, CallsOK, [Next]_vars
  PROVE  Range(results) \subseteq Range(results')
<1>1. ASSUME NEW e \in {"ok"} \cup Error, Exit(e) PROVE Range(results) \subseteq Range(results')
  BY <1>1, AppendFacts DEF Exit, CallsOK
<1>2. CASE UNCHANGED results
  BY <1>2
<1>3. QED BY <1>1, <1>2, Kinds DEF Registering, Discover, Inside, vars, loopVars

(* AffinityInv is kept.                                                    *)
LEMMA AffinityStep ==
  ASSUME AffinityInv, Control, CallsOK, [Next]_vars
  PROVE  AffinityInv'
<1> DEFINE lost == Range(results) \cap {"restore", "read"} # {}
<1>1. lost => lost'
  BY ResultsGrow
<1>2. machine' = machine
  BY RulesChange DEF Construct, RegisterClient, ruleVars
<1>3. ASSUME NEW e \in {"restore", "read"}, Exit(e) PROVE lost'
  <2>1. e \in {"ok"} \cup Error /\ results \in Seq({"ok"} \cup Error) /\ results' = Append(results, e)
    BY <1>3 DEF Exit, CallsOK, Error
  <2>2. e \in Range(results')
    BY <2>1, AppendFacts
  <2>3. QED BY <2>2
<1>4. pc' \in {"read", "restore"} => pc' # "idle"
  OBVIOUS
<1> HIDE DEF lost
<1>5. QED BY <1>1, <1>2, <1>3, <1>4, AffinityChange DEF AffinityInv, lost, Exit

(* Probing is kept.                                                        *)
LEMMA ProbingStep ==
  ASSUME Probing, Control, RulesOK, CallsOK, List, [Next]_vars
  PROVE  Probing'
<1>1. machine' = machine
  BY RulesChange DEF Construct, RegisterClient, ruleVars
<1>2. pc \in HasDevice /\ Head(todo) = "cpu" => Device \in DOMAIN machine.cpu
  BY DeviceIsListed DEF Addresses
<1>3. pc = "pin" => pc \in HasDevice /\ Head(todo) = "cpu"
  BY DEF Control, HasDevice
<1>4. {affinity', saved'} \subseteq SUBSET DOMAIN machine.cpu
  BY <1>2, <1>3, AffinityChange DEF Probing
<1>5. leaf' \in {0, 1}
  BY DEF Probing, Next, Construct, RegisterClient, Discover, Enumerate, NextDevice, Pin, ReadCpuid,
         Restore, ReadConfig, Match, Open, OpenPart, ClosePart, DefineRev, Close, vars, probeVars
<1>6. QED BY <1>1, <1>4, <1>5 DEF Probing

(* A path and one more scope.                                              *)
LEMMA PathAppend ==
  ASSUME NEW p \in Path, NEW name \in ScopeName, NEW n \in Nat
  PROVE  /\ Append(p, <<name, n>>) \in Path
         /\ Append(p, <<name, n>>) # <<>>
         /\ Len(Append(p, <<name, n>>)) = Len(p) + 1
         /\ Front(Append(p, <<name, n>>)) = p
         /\ Last(Append(p, <<name, n>>)) = <<name, n>>
<1> DEFINE e == <<name, n>>
<1>1. e \in ScopeName \X Nat
  OBVIOUS
<1> HIDE DEF e
<1>2. /\ Append(p, e) \in Path /\ Append(p, e) # <<>> /\ Len(Append(p, e)) = Len(p) + 1
      /\ Front(Append(p, e)) = p /\ Last(Append(p, e)) = e
  BY <1>1, AppendFacts DEF Path
<1>3. QED BY <1>2 DEF e

(* A path and one scope less.                                              *)
LEMMA PathFront ==
  ASSUME NEW p \in Path
  PROVE  Front(p) \in Path
<1>1. CASE p = <<>>
  BY <1>1, SubSeqEmpty, EmptySeq DEF Front, Path
<1>2. CASE p # <<>>
  <2>1. PICK q \in Seq(ScopeName \X Nat), e \in ScopeName \X Nat : p = Append(q, e)
    BY <1>2, SequenceEmptyOrAppend DEF Path
  <2>2. Front(p) = q
    BY <2>1, AppendFacts
  <2>3. QED BY <2>1, <2>2 DEF Path
<1>3. QED BY <1>1, <1>2

(* The elements k8[] under a scope, which can be counted.                  *)
K8Under(s) == {p \in DOMAIN tree : Len(p) = Len(s) + 1 /\ Front(p) = s /\ Last(p)[1] = "k8"}

LEMMA K8Finite ==
  ASSUME Shape, NEW s
  PROVE  IsFiniteSet(K8Under(s)) /\ Cardinality(K8Under(s)) \in Nat
  BY FS_Subset, FS_CardinalityType DEF Shape, K8Under

(* Where Open puts a device.                                               *)
LEMMA ElementFacts ==
  ASSUME Shape, Control, RulesOK, List, pc = "open"
  PROVE  /\ Element = <<IF callback = "k8_pci" THEN "k8" ELSE Head(todo),
                        IF callback = "k8_pci" THEN Cardinality(K8Under(scope)) ELSE Device>>
         /\ Element[1] \in {"cpu", "pci", "k8"} /\ Element[2] \in Nat
         /\ Append(scope, Element) \in Path /\ Append(scope, Element) # <<>>
         /\ Len(Append(scope, Element)) = Len(scope) + 1
         /\ Front(Append(scope, Element)) = scope
         /\ Last(Append(scope, Element)) = Element
<1>1. Head(todo) \in {"cpu", "pci"} /\ Device \in Nat
  BY DeviceIsListed DEF HasDevice, Calling, Driver
<1>2. Element = <<IF callback = "k8_pci" THEN "k8" ELSE Head(todo),
                  IF callback = "k8_pci" THEN Cardinality(K8Under(scope)) ELSE Device>>
  BY DEF Element, K8Under
<1>3. Cardinality(K8Under(scope)) \in Nat
  BY K8Finite
<1>4. PICK name \in {"cpu", "pci", "k8"}, n \in Nat : Element = <<name, n>>
  BY <1>1, <1>2, <1>3
<1>5. name \in ScopeName /\ scope \in Path
  BY DEF ScopeName, Shape
<1>6. QED BY <1>2, <1>4, <1>5, PathAppend

(* What a step does to the tree, the array cpu[] and the current scope.    *)
Opening ==
  /\ pc = "open" /\ scope' = Append(scope, Element) /\ UNCHANGED <<cpus, machine, base>>
  /\ LET rev == IF callback = "k8_pci" THEN RevOfCpu0 ELSE "none"
     IN /\ tree' = Put(tree, Append(scope, Element),
                       [by |-> callback, device |-> Device, rev |-> rev])
        /\ \/ (callback # "k8_pci" \/ rev # "none") /\ pc' = "part"
              /\ UNCHANGED <<callback, part, devices, todo, asked, results>>
           \/ callback = "k8_pci" /\ rev = "none" /\ Exit("no_rev")
PartOpening ==
  /\ pc = "part" /\ pc' = "body" /\ part < Len(Parts(callback))
  /\ scope' = Append(scope, <<Parts(callback)[part + 1], Device>>)
  /\ UNCHANGED <<tree, cpus, devices, todo, callback, part, asked, results>>
PartClosing ==
  /\ pc = "body" /\ pc' = (IF callback = "k8_cpu" /\ part = 0 THEN "rev" ELSE "part")
  /\ scope' = Front(scope) /\ part' = part + 1
  /\ UNCHANGED <<tree, cpus, devices, todo, callback, asked, results>>
RevDefining ==
  /\ pc = "rev" /\ pc' = "part"
  /\ tree' = [tree EXCEPT ![scope].rev =
                 LET id == machine.cpu[Device]
                 IN CASE Family(id) = 15 /\ Model(id) >= 64      -> "rev_f"
                      [] Family(id) = 15 /\ Model(id) \in 32..63 -> "rev_e"
                      [] OTHER                                   -> "unknown"]
  /\ UNCHANGED <<scope, cpus, devices, todo, callback, part, asked, results>>
Closing ==
  /\ pc = "part" /\ pc' = "next" /\ part = Len(Parts(callback))
  /\ scope' = Front(scope) /\ tree' = tree
  /\ cpus' = IF Head(todo) # "cpu" THEN cpus
             ELSE Put(cpus, scope',
                      Append(IF scope' \in DOMAIN cpus THEN cpus[scope'] ELSE <<>>, scope))
  /\ devices' = Tail(devices)
  /\ UNCHANGED <<todo, asked, results>>

(* A step that does nothing to them.                                       *)
Still ==
  /\ UNCHANGED treeVars
  /\ \/ pc \notin Running /\ pc' \notin Running
     \/ \E e \in {"part", "read"} : Exit(e)
     \/ UNCHANGED <<pc, base, devices, todo, callback, part, results, asked>>

(* What Open does, one of the two.                                         *)
LEMMA OpenIs ==
  ASSUME Open
  PROVE  Opening \/ Still
<1> DEFINE path == Append(scope, Element)
           rev  == IF callback = "k8_pci" THEN RevOfCpu0 ELSE "none"
           entry == [by |-> callback, device |-> Device, rev |-> rev]
<1>1. CASE /\ tree' = Put(tree, path, entry)
           /\ scope' = path
           /\ UNCHANGED cpus
           /\ \/ /\ callback # "k8_pci" \/ rev # "none"
                 /\ pc' = "part"
                 /\ UNCHANGED <<loopVars, callbackVars>>
              \/ callback = "k8_pci" /\ rev = "none" /\ Abort("no_rev")
  BY <1>1 DEF Opening, Open, Abort, Exit, loopVars, callbackVars, ruleVars
<1>2. CASE Throw("bind")
  BY <1>2 DEF Throw, Abort, Open, Still, Running
<1>3. QED BY <1>1, <1>2 DEF Open

(* What Close does, one of the two.                                        *)
LEMMA CloseIs ==
  ASSUME Close
  PROVE  Closing \/ Still
<1>1. CASE Throw("part")
  BY <1>1 DEF Throw, Abort, Close, Still, Exit
<1>2. CASE ~Throw("part")
  BY <1>2 DEF Close, Closing, Done, callbackVars
<1>3. QED BY <1>1, <1>2

(* Every step is of one of these kinds.                                    *)
LEMMA TreeChange ==
  ASSUME [Next]_vars
  PROVE  Still \/ Opening \/ PartOpening \/ PartClosing \/ RevDefining \/ Closing
<1> USE DEF ruleVars, loopVars, treeVars, callbackVars, Still, Running
<1>1. OpenPart => PartOpening \/ Still
  BY DEF OpenPart, PartOpening, Throw, Abort, Exit
<1>2. ClosePart => PartClosing \/ Still
  BY DEF ClosePart, PartClosing, FailReading, Throw, Abort, Exit
<1>3. DefineRev => RevDefining \/ Still
  BY DEF DefineRev, RevDefining, FailReading, Throw, Abort, Exit
<1>4. Pin \/ Restore \/ ReadConfig => Still
  BY DEF Pin, Restore, ReadConfig, Throw, Abort
<1>5. Enumerate \/ NextDevice \/ ReadCpuid \/ Match \/ (\E name : Discover(name)) => Still
  BY DEF Enumerate, NextDevice, ReadCpuid, Match, Done, Discover
<1>6. (\E r : RegisterClient(r)) \/ (\E u : Construct(u)) => Still
  BY DEF RegisterClient, Construct
<1>7. UNCHANGED vars => Still
  BY DEF vars
<1>8. QED BY <1>1, <1>2, <1>3, <1>4, <1>5, <1>6, <1>7, OpenIs, CloseIs DEF Next

(* The scope of the device at hand is a child of the base.                 *)
LEMMA OwnFacts ==
  ASSUME Shape, Control, Where, pc \in Running
  PROVE  /\ Own \in DOMAIN tree /\ Own \in Path /\ Own # <<>> /\ Front(Own) = base
         /\ Len(Own) = Len(base) + 1
<1>1. Own \in DOMAIN tree /\ Own = Append(base, Last(Own))
  BY DEF Where
<1>2. Own \in Path
  BY <1>1 DEF Shape
<1> DEFINE e == Last(Own)
           S == (ScopeName \X Nat) \cup {e}
<1>3. base \in Seq(S) /\ e \in S
  BY SeqMonotonic DEF Shape, Path
<1> HIDE DEF S
<1>4. Append(base, e) # <<>> /\ Front(Append(base, e)) = base /\ Len(Append(base, e)) = Len(base) + 1
  BY <1>3, AppendFacts
<1>5. QED BY <1>1, <1>2, <1>4

(* Shape is kept.                                                          *)
LEMMA ShapeStep ==
  ASSUME Shape, Control, RulesOK, CallsOK, List, Where, [Next]_vars
  PROVE  Shape'
<1>1. base' \in Path
  BY Kinds DEF Registering, Discover, Exit, Inside, Shape, vars, loopVars
<1>2. CASE Still
  BY <1>1, <1>2 DEF Still, Shape, treeVars
<1>3. CASE Opening
  <2> DEFINE path == Append(scope, Element)
             rev  == IF callback = "k8_pci" THEN RevOfCpu0 ELSE "none"
             entry == [by |-> callback, device |-> Device, rev |-> rev]
  <2>1. path \in Path /\ scope' = path
    BY <1>3, ElementFacts DEF Opening
  <2>2. callback \in Callback /\ Device \in Nat
    BY <1>3, DeviceIsListed DEF Opening, HasDevice, Calling, Control, CallbackOf, Callback
  <2>3. rev \in Rev
    <3>1. <<>> \in DOMAIN cpus /\ cpus[<<>>][1] \in DOMAIN tree => tree[cpus[<<>>][1]].rev \in Rev
      BY DEF Shape
    <3>2. QED BY <3>1 DEF RevOfCpu0, Rev
  <2>4. tree' = Put(tree, path, entry) /\ cpus' = cpus
    BY <1>3 DEF Opening
  <2>5. entry \in [by : Callback, device : Nat, rev : Rev]
    BY <2>2, <2>3
  <2> HIDE DEF path, entry
  <2>6. DOMAIN tree' = DOMAIN tree \cup {path}
    BY <2>4 DEF Put
  <2>7. tree' \in [DOMAIN tree' -> [by : Callback, device : Nat, rev : Rev]]
    BY <2>4, <2>5 DEF Put, Shape
  <2>8. IsFiniteSet(DOMAIN tree')
    BY <2>6, FS_AddElement DEF Shape
  <2>9. \A p \in DOMAIN cpus : cpus[p] \in Seq(DOMAIN tree')
    BY <2>6, SeqMonotonic DEF Shape
  <2>10. QED BY <1>1, <2>1, <2>4, <2>6, <2>7, <2>8, <2>9 DEF Shape
<1>4. CASE PartOpening
  <2>1. Device \in Nat
    BY <1>4, DeviceIsListed DEF PartOpening, HasDevice, Calling, Running
  <2>2. Parts(callback)[part + 1] \in ScopeName
    BY <1>4, PartName DEF PartOpening, Control
  <2>3. scope' \in Path
    BY <1>4, <2>1, <2>2, PathAppend DEF PartOpening, Shape
  <2>4. QED BY <1>1, <1>4, <2>3 DEF PartOpening, Shape
<1>5. CASE PartClosing
  BY <1>1, <1>5, PathFront DEF PartClosing, Shape
<1>6. CASE RevDefining
  <2> DEFINE id == machine.cpu[Device]
             rev == CASE Family(id) = 15 /\ Model(id) >= 64      -> "rev_f"
                      [] Family(id) = 15 /\ Model(id) \in 32..63 -> "rev_e"
                      [] OTHER                                   -> "unknown"
  <2>1. rev \in Rev
    BY DEF Rev
  <2>2. tree' = [tree EXCEPT ![scope].rev = rev] /\ UNCHANGED <<scope, cpus>>
    BY <1>6 DEF RevDefining
  <2> HIDE DEF rev
  <2>3. tree' \in [DOMAIN tree -> [by : Callback, device : Nat, rev : Rev]]
    BY <2>1, <2>2 DEF Shape
  <2>4. QED BY <1>1, <2>2, <2>3 DEF Shape
<1>7. CASE Closing
  <2>1. Own = scope /\ scope \in DOMAIN tree
    BY <1>7, OwnFacts DEF Closing, Running, Own
  <2>2. scope' \in Path /\ tree' = tree
    BY <1>7, PathFront DEF Closing, Shape
  <2>3. CASE cpus' = cpus
    BY <1>1, <2>2, <2>3 DEF Shape
  <2> DEFINE old == IF scope' \in DOMAIN cpus THEN cpus[scope'] ELSE <<>>
  <2>4. CASE cpus' = Put(cpus, scope', Append(old, scope))
    <3>1. old \in Seq(DOMAIN tree)
      BY EmptySeq DEF Shape
    <3>2. Append(old, scope) \in Seq(DOMAIN tree)
      BY <2>1, <3>1, AppendProperties
    <3> HIDE DEF old
    <3>3. DOMAIN cpus' = DOMAIN cpus \cup {scope'}
          /\ \A p \in DOMAIN cpus' : cpus'[p] \in Seq(DOMAIN tree)
      BY <2>4, <3>2 DEF Put, Shape
    <3>4. QED BY <1>1, <2>2, <3>3 DEF Shape
  <2>5. QED BY <1>7, <2>3, <2>4 DEF Closing
<1>8. QED BY <1>2, <1>3, <1>4, <1>5, <1>6, <1>7, TreeChange

(* Between calls nothing is defined; a call starts at the current scope.   *)
LEMMA CallsGrow ==
  ASSUME Control, CallsOK, [Next]_vars
  PROVE  /\ asked' = <<>> => asked = <<>>
         /\ base' = base \/ (pc = "idle" /\ base' = scope)
         /\ pc = "idle" /\ pc' # "idle" => base' = scope
         /\ pc # "idle" => asked' = asked /\ base' = base
         /\ pc = "idle" /\ pc' = "idle" => UNCHANGED <<asked, results, base, scope, tree, cpus>>
<1>1. CASE Registering
  BY <1>1 DEF Registering, loopVars, treeVars
<1>2. ASSUME NEW name \in {All} \cup Driver, Discover(name) PROVE asked' # <<>>
  BY <1>2, AppendFacts DEF Discover, CallsOK
<1>3. ASSUME NEW name \in {All} \cup Driver, Discover(name) PROVE base' = scope /\ pc' # "idle" /\ pc = "idle"
  BY <1>3 DEF Discover
<1>4. CASE Inside \/ \E e \in {"ok"} \cup Error : Exit(e)
  BY <1>4 DEF Inside, Exit
<1>5. CASE UNCHANGED vars
  BY <1>5 DEF vars, loopVars, treeVars
<1>6. QED BY <1>1, <1>2, <1>3, <1>4, <1>5, Kinds

(* Where is kept.                                                          *)
LEMMA WhereStep ==
  ASSUME Shape, Control, RulesOK, CallsOK, List, Where, [Next]_vars
  PROVE  Where'
<1> USE DEF Running
<1>1. CASE Still
  <2>1. CASE pc \notin Running /\ pc' \notin Running
    <3>1. scope' # base' => pc' = "idle" /\ pc = "idle"
      BY <1>1, <2>1, CallsGrow DEF Where, Still, treeVars
    <3>2. ScopesClosed'
      BY <3>1, CallsGrow DEF Where, ScopesClosed
    <3>3. QED BY <1>1, <2>1, <3>1, <3>2, CallsGrow DEF Where, Still, treeVars
  <2>2. ASSUME NEW e \in {"part", "read"}, Exit(e) PROVE Where'
    <3>1. results' # <<>> /\ Last(results') = e
      BY <2>2, AppendFacts DEF Exit, CallsOK, Error
    <3>2. ScopesClosed'
      BY <2>2, <3>1 DEF Exit, ScopesClosed
    <3>3. QED BY <1>1, <2>2, <3>2 DEF Where, Still, treeVars, Exit
  <2>3. CASE UNCHANGED <<pc, base, devices, todo, callback, part, results, asked>>
    BY <1>1, <2>3 DEF Still, Where, treeVars, Own, Device, ScopesClosed
  <2>4. QED BY <1>1, <2>1, <2>2, <2>3 DEF Still
<1>2. pc \in {"open"} \cup Running => asked # <<>>
  BY DEF CallsOK
<1>3. CASE Opening
  <2> DEFINE path == Append(scope, Element)
  <2>1. /\ scope' = path /\ base' = base /\ scope = base /\ path \in DOMAIN tree'
        /\ tree'[path].by = callback /\ tree'[path].device = Device
    BY <1>3 DEF Opening, Put, Where
  <2>2. /\ path = Append(base, Last(path))
        /\ IF callback = "k8_pci" THEN Last(path)[1] = "k8" ELSE Last(path) = <<Head(todo), Device>>
    BY <1>3, <2>1, ElementFacts DEF Opening
  <2>3. CASE pc' = "part" /\ UNCHANGED <<callback, part, devices, todo, asked, results>>
    <3>1. Own' = path /\ Device' = Device /\ ScopesClosed'
      BY <2>1, <2>3 DEF Own, Device, ScopesClosed
    <3>2. QED BY <1>2, <1>3, <2>1, <2>2, <2>3, <3>1 DEF Where, Opening
  <2>4. CASE Exit("no_rev")
    <3>1. results' # <<>> /\ Last(results') = "no_rev"
      BY <2>4, AppendFacts DEF Exit, CallsOK, Error
    <3>2. ScopesClosed'
      BY <2>4, <3>1 DEF Exit, ScopesClosed
    <3>3. QED BY <1>2, <1>3, <2>4, <3>2 DEF Where, Exit, Opening
  <2>5. QED BY <1>3, <2>3, <2>4 DEF Opening
<1>4. CASE PartOpening
  <2>1. Device \in Nat /\ Parts(callback)[part + 1] \in ScopeName
    BY <1>4, DeviceIsListed, PartName DEF PartOpening, HasDevice, Calling, Control
  <2>2. Front(scope') = scope
    BY <1>4, <2>1, PathAppend DEF PartOpening, Shape
  <2>3. Own' = Own /\ Device' = Device /\ base' = base
    BY <1>4, <2>2, CallsGrow DEF Own, PartOpening, Device
  <2>4. ScopesClosed'
    BY <1>4 DEF ScopesClosed, PartOpening
  <2>5. QED BY <1>2, <1>4, <2>3, <2>4 DEF Where, PartOpening
<1>5. CASE PartClosing
  <2>1. Own' = Own /\ Device' = Device /\ base' = base
    BY <1>5, CallsGrow DEF Own, PartClosing, Device
  <2>2. ScopesClosed'
    BY <1>5 DEF ScopesClosed, PartClosing
  <2>3. QED BY <1>2, <1>5, <2>1, <2>2 DEF Where, PartClosing
<1>6. CASE RevDefining
  <2>1. Own' = Own /\ Own = scope /\ Device' = Device /\ base' = base
    BY <1>6, CallsGrow DEF Own, RevDefining, Device
  <2>2. ScopesClosed'
    BY <1>6 DEF ScopesClosed, RevDefining
  <2>3. DOMAIN tree' = DOMAIN tree /\ tree'[scope].by = tree[scope].by
        /\ tree'[scope].device = tree[scope].device /\ scope \in DOMAIN tree
    BY <1>6, <2>1, OwnFacts DEF RevDefining, Shape
  <2>4. QED BY <1>2, <1>6, <2>1, <2>2, <2>3 DEF Where, RevDefining
<1>7. CASE Closing
  <2>1. Own = scope /\ scope' = base /\ base' = base
    BY <1>7, OwnFacts, CallsGrow DEF Own, Closing
  <2>2. QED BY <1>2, <1>7, <2>1 DEF Where, Closing, ScopesClosed
<1>8. QED BY <1>1, <1>3, <1>4, <1>5, <1>6, <1>7, TreeChange

(* Core holds initially.                                                   *)
THEOREM InitCore == Init => Core
<1> SUFFICES ASSUME Init PROVE Core
  OBVIOUS
<1> USE DEF Init, NoOne
<1>1. RulesOK
  BY DEF RulesOK, Driver, Callback
<1>2. CallsOK
  BY EmptySeq DEF CallsOK
<1>3. Control
  BY PartsLength DEF Control, PCs, HasDevice, Calling, Running
<1>4. Requests
  BY DEF Requests
<1>5. List
  BY DEF List, Looping, HasDevice, Calling, Running
<1>6. Probing
  BY MachineAssumption DEF Probing
<1>7. Shape
  BY FS_EmptySet DEF Shape, Path
<1>8. Where
  BY DEF Where, ScopesClosed, Running
<1>9. AffinityInv
  BY DEF AffinityInv
<1>10. QED BY <1>1, <1>2, <1>3, <1>4, <1>5, <1>6, <1>7, <1>8, <1>9 DEF Core

(* Core is an invariant.                                                   *)
THEOREM CoreIsInvariant == Spec => []Core
<1>1. Core /\ [Next]_vars => Core'
  BY RulesStep, CallsStep, ControlStep, ListStep, ProbingStep, ShapeStep, WhereStep, AffinityStep DEF Core
<1>2. QED BY InitCore, <1>1, PTL DEF Spec

(* The shapes of the variables of drivers.cc and its drivers (TypeOK).     *)
THEOREM TypesCorrect == Spec => []TypeOK
<1>1. Core => TypeOK
  <2> SUFFICES ASSUME Core PROVE TypeOK
    OBVIOUS
  <2> USE DEF Core
  <2>1. callback \in Callback
    BY DEF Control, CallbackOf, Callback
  <2>2. devices \in Seq(Nat)
    <3>1. CASE Looping
      BY <3>1, DriverOfCall, AddressFacts, SeqMonotonic DEF List, Looping
    <3>2. CASE ~Looping
      BY <3>2, EmptySeq DEF Control, Looping, PCs
    <3>3. QED BY <3>1, <3>2
  <2>3. todo \in Seq(Driver)
    <3>1. <<"cpu">> \in Seq(Driver) /\ <<"pci">> \in Seq(Driver) /\ <<"cpu", "pci">> \in Seq(Driver)
      BY DEF Driver
    <3>2. QED BY <3>1, EmptySeq DEF Control
  <2>4. \A p \in DOMAIN cpus : Range(cpus[p]) \subseteq DOMAIN tree
    BY RangeOfSeq DEF Shape
  <2>5. \A p \in DOMAIN tree : tree[p].by \in Callback /\ tree[p].rev \in Rev
    BY DEF Shape
  <2>6. QED BY <2>1, <2>2, <2>3, <2>4, <2>5
            DEF TypeOK, RulesOK, CallsOK, Control, Probing, PCs, HasDevice, Calling, Running
<1>2. QED BY <1>1, CoreIsInvariant, PTL

(* AffinityKept: asking a CPU leaves the process on the CPUs it was        *)
(* allowed to use.                                                         *)
THEOREM AffinityIsKept == Spec => []AffinityKept
<1>1. Core => AffinityKept
  BY DEF Core, AffinityInv, AffinityKept
<1>2. QED BY <1>1, CoreIsInvariant, PTL

(* ScopesClosed: between two devices the scope of the call is the current  *)
(* one.                                                                    *)
THEOREM ScopesAreClosed == Spec => []ScopesClosed
<1>1. Core => ScopesClosed
  BY DEF Core, Where
<1>2. QED BY <1>1, CoreIsInvariant, PTL

-----------------------------------------------------------------------------
(* What a discovery defines.                                               *)

(* What is known of the device at hand is what the device has.             *)
Identified ==
  /\ pc = "read" => affinity = {Device}
  /\ (pc \in {"pin", "read"} /\ leaf = 1) \/ (pc = "restore" /\ leaf = 0)
       => seen = [vendor |-> machine.cpu[Device].vendor]
  /\ pc = "restore" /\ leaf = 1 => seen = machine.cpu[Device]
  /\ pc = "match" => seen = IF Head(todo) = "cpu" THEN machine.cpu[Device] ELSE machine.pci[Device]
  /\ pc \in Calling => callback = Expected(Head(todo), Device)

(* The elements of an array k8[] are numbered from 0.                      *)
Numbered == \A s \in Path : \A p \in K8Under(s) : Last(p)[2] < Cardinality(K8Under(s))

(* A device is defined under the base, or is to be ignored.                *)
Handled(d, x) ==
  Expected(d, x) # NoOne =>
     \E p \in DOMAIN tree : /\ Len(p) = Len(base) + 1 /\ Front(p) = base
                            /\ Kind(p) = d /\ tree[p].device = x

(* The devices that the loops are past are.                                *)
Covered ==
  /\ Looping => \A x \in Addresses(Head(todo)) \ Range(devices) : Handled(Head(todo), x)
  /\ pc # "idle" => /\ asked # <<>>
                    /\ \A d \in Range(Drivers(Last(asked))) \ Range(todo) :
                         \A x \in Addresses(d) : Handled(d, x)
  /\ Complete

(* The numbers of the CPUs in cpu[] of the root,                           *)
Numbers == IF <<>> \in DOMAIN cpus THEN {Last(p)[2] : p \in Range(cpus[<<>>])} ELSE {}

(* which in the first call are those that the loop is past.                *)
Order ==
  /\ Len(asked) = 1 => base = <<>>
  /\ Len(asked) = 1 /\ pc = "enumerate" /\ todo # <<>> /\ Head(todo) = "cpu" => Numbers = {}
  /\ Len(asked) = 1 /\ Looping /\ Head(todo) = "cpu" => Numbers = Addresses("cpu") \ Range(devices)
  /\ CpusInOrder

(* cpu[0] of the root is the lowest CPU, and is there when it is past.     *)
FirstCpu ==
  /\ <<>> \in DOMAIN cpus => cpus[<<>>] # <<>> /\ cpus[<<>>][1] = <<<<"cpu", Lowest>>>>
  /\ base = <<>> /\ Looping /\ Head(todo) = "cpu" /\ Range(devices) # Addresses("cpu")
       => <<>> \in DOMAIN cpus
  /\ base = <<>> /\ pc # "idle" /\ Last(asked) = All /\ "cpu" \notin Range(todo)
       => <<>> \in DOMAIN cpus

(* A revision is that of the CPU, and a K8 has one when it is defined.     *)
Revs ==
  /\ \A p \in DOMAIN tree : Kind(p) = "cpu" /\ tree[p].rev # "none"
       => tree[p].rev = RevOf(machine.cpu[tree[p].device])
  /\ pc \in {"part", "body"} /\ callback = "k8_cpu" /\ part >= 1 => tree[Own].rev # "none"
  /\ pc \in Running /\ callback = "k8_pci" => tree[Own].rev = RevOf(machine.cpu[Lowest])
  /\ (IF pc = "idle" THEN scope ELSE base) = <<>> =>
       \A p \in DOMAIN tree :
         Kind(p) = "cpu" /\ HasRev(machine.cpu[tree[p].device])
         => tree[p].rev # "none" \/ (pc \in Running /\ p = Own)

-----------------------------------------------------------------------------
(* The rules.                                                              *)

(* By family and model, a CPU has a rule when its raw ids say it is a K8   *)
(* of a known revision.                                                    *)
LEMMA CpuRules ==
  ASSUME NEW id \in CpuId
  PROVE  /\ Matches(K8Cpu(32, 57), id) \/ Matches(K8Cpu(64, 255), id) <=> HasRev(id)
         /\ HasRev(id) => /\ RevOf(id) = "rev_f" => Family(id) = 15 /\ Model(id) >= 64
                          /\ RevOf(id) # "rev_f" => Family(id) = 15 /\ Model(id) \in 32..63
<1>1. /\ id.family \in 0..15 /\ id.extfamily \in 0..255 /\ id.model \in 0..15
      /\ id.extmodel \in 0..15 /\ id.stepping \in 0..15
  BY DEF CpuId
<1>2. ASSUME NEW m, NEW n
      PROVE  Matches(K8Cpu(m, n), id) <=>
               id.vendor = AMD /\ Family(id) = 15 /\ Model(id) \in m..n
  <2>1. id.stepping \in 0..255 /\ \A f : f \in 15..15 <=> f = 15
    BY <1>1
  <2>2. QED BY <2>1 DEF Matches, K8Cpu
<1>3. id.vendor = AMD => /\ Family(id) = 15 <=> id.family = 15 /\ id.extfamily = 0
                         /\ id.family = 15 => Model(id) = id.model + 16 * id.extmodel
  BY <1>1 DEF Family, Model, Extended, AMD, INTEL
<1>4. QED BY <1>1, <1>2, <1>3 DEF HasRev, RevOf

(* The fifth of five comes after the first four.                           *)
LEMMA FourOrFive ==
  \A n \in {4, 5} : \A i \in 1..n : i \in 1..4 \/ (n = 5 /\ i = 5)
OBVIOUS

(* What one element more makes a sequence of one was empty.                *)
LEMMA LastOne ==
  ASSUME NEW S, NEW s \in Seq(S), NEW n, n = Len(s) + 1, n = 1
  PROVE  s = <<>>
<1>1. Len(s) \in Nat
  BY LenProperties
<1>2. Len(s) = 0
  BY <1>1
<1>3. QED BY <1>2, EmptySeq

(* The choice of a callback, by ids, is the one that is expected.          *)
LEMMA ChosenIsExpected ==
  ASSUME Requests, RulesOK, unborn = {}, NEW d \in Driver, NEW x \in Addresses(d)
  PROVE  Chosen(d, IF d = "cpu" THEN machine.cpu[x] ELSE machine.pci[x]) = Expected(d, x)
<1>1. CASE d = "cpu"
  <2> DEFINE id == machine.cpu[x]
  <2>1. id \in CpuId
    BY <1>1, MachineAssumption DEF RulesOK, Addresses
  <2> HIDE DEF id
  <2>2. Len(requests[d]) = 2 /\ requests[d][1] = K8Cpu(32, 57) /\ requests[d][2] = K8Cpu(64, 255)
        /\ catchall[d] = "cpu_discovered"
    BY <1>1, RequestsAre DEF K8CpuRules
  <2>3. \A i \in 1..2 : requests[d][i].callback = "k8_cpu"
    <3>1. \A m, n : K8Cpu(m, n).callback = "k8_cpu"
      BY DEF K8Cpu
    <3>2. QED BY <2>2, <3>1
  <2>4. Chosen(d, id) = IF HasRev(id) THEN "k8_cpu" ELSE "cpu_discovered"
    <3>1. CASE HasRev(id)
      <4>1. ~ \A i \in 1..Len(requests[d]) : ~Matches(requests[d][i], id)
        BY <2>1, <2>2, <3>1, CpuRules
      <4>2. QED BY <2>2, <2>3, <3>1, <4>1, FirstMatch
    <3>2. CASE ~HasRev(id)
      <4>1. \A i \in 1..Len(requests[d]) : ~Matches(requests[d][i], id)
        BY <2>1, <2>2, <3>2, CpuRules
      <4>2. QED BY <2>2, <3>2, <4>1, FirstMatch
    <3>3. QED BY <3>1, <3>2
  <2>5. QED BY <1>1, <2>4 DEF Expected, id
<1>2. CASE d = "pci"
  <2> DEFINE id == machine.pci[x]
             rs == requests["pci"]
  <2>1. id \in PciId /\ id = [vendor |-> id.vendor, device |-> id.device]
    BY <1>2, MachineAssumption DEF RulesOK, Addresses, PciId
  <2> HIDE DEF id
  <2>2. /\ Len(rs) \in {4, 5} /\ catchall[d] = "pci_discovered"
        /\ \A i \in 1..4 : rs[i] = K8PciRules[i]
        /\ Len(rs) = 5 => rs[5].kind = "pci" /\ rs[5].callback = "client"
    BY <1>2, RequestsAre
  <2>3. /\ \A i \in 1..4 : rs[i].kind = "pci" /\ rs[i].vendor = 4130 /\ rs[i].device = 4351 + i
        /\ rs[1].callback = "k8_pci" /\ \A i \in 2..4 : rs[i].callback = NoOne
    BY <2>2 DEF K8PciRules, K8Pci
  <2>4. \A i \in 1..Len(rs) : Matches(rs[i], id) <=> id.vendor = rs[i].vendor /\ id.device = rs[i].device
    <3>1. \A i \in 1..Len(rs) : i \in 1..4 \/ (Len(rs) = 5 /\ i = 5)
      <4> HIDE DEF rs
      <4>1. QED BY <2>2, FourOrFive
    <3>2. \A i \in 1..Len(rs) : rs[i].kind = "pci"
      BY <2>2, <2>3, <3>1
    <3>3. QED BY <3>2 DEF Matches
  <2>5. Range(rs) = {rs[i] : i \in 1..Len(rs)}
    BY <2>2 DEF Range
  <2>6. (\E r \in Range(rs) : r.callback = "client" /\ r.vendor = id.vendor /\ r.device = id.device)
        <=> Len(rs) = 5 /\ rs[5].vendor = id.vendor /\ rs[5].device = id.device
    <3>1. \A i \in 1..Len(rs) : rs[i].callback = "client" => i = 5
      <4>1. \A i \in 1..4 : rs[i].callback # "client"
        <5>1. \A i \in 1..4 : i = 1 \/ i \in 2..4
          OBVIOUS
        <5>2. QED BY <2>3, <5>1 DEF NoOne
      <4>2. \A i \in 1..Len(rs) : i \in 1..4 \/ i = 5
        <5> HIDE DEF rs
        <5>1. QED BY <2>2, FourOrFive
      <4>3. QED BY <4>1, <4>2
    <3>2. Len(rs) = 5 => rs[5] \in Range(rs)
      BY <2>5
    <3>3. \A r \in Range(rs) : r.callback = "client" => Len(rs) = 5 /\ r = rs[5]
      <4>1. ASSUME NEW i \in 1..Len(rs), rs[i].callback = "client"
            PROVE  Len(rs) = 5 /\ i = 5
        BY <2>2, <3>1, <4>1
      <4>2. QED BY <2>5, <4>1
    <3>4. QED BY <2>2, <3>2, <3>3
  <2>7. \/ \E n \in 1..Len(rs) :
              /\ Matches(rs[n], id)
              /\ \A i \in 1..(n - 1) : ~Matches(rs[i], id)
              /\ Chosen(d, id) = rs[n].callback
        \/ /\ \A i \in 1..Len(rs) : ~Matches(rs[i], id)
           /\ Chosen(d, id) = catchall[d]
    BY <1>2, <2>2, FirstMatch
  <2> DEFINE client == Len(rs) = 5 /\ rs[5].vendor = id.vendor /\ rs[5].device = id.device
  <2>8. Expected(d, x) = CASE id = [vendor |-> 4130, device |-> 4352] -> "k8_pci"
                           [] id.vendor = 4130 /\ id.device \in 4353..4355 -> NoOne
                           [] OTHER -> IF client THEN "client" ELSE "pci_discovered"
    BY <1>2, <2>6 DEF Expected, id
  <2> HIDE DEF rs, client
  <2>9. CASE id.vendor = 4130 /\ id.device = 4352
    <3>1. Expected(d, x) = "k8_pci"
      BY <2>1, <2>8, <2>9
    <3>2. Matches(rs[1], id)
      BY <2>2, <2>3, <2>4, <2>9
    <3>3. Chosen(d, id) = rs[1].callback
      BY <2>2, <2>3, <2>7, <3>2
    <3>4. QED BY <1>2, <2>3, <3>1, <3>3 DEF id
  <2>10. CASE id.vendor = 4130 /\ id.device \in 4353..4355
    <3>1. Expected(d, x) = NoOne
      BY <2>1, <2>8, <2>10
    <3>2. \A i \in 1..4 : Matches(rs[i], id) <=> id.device = 4351 + i
      BY <2>2, <2>3, <2>4, <2>10
    <3>3. PICK k \in 2..4 : id.device = 4351 + k
      BY <2>10
    <3>4. Matches(rs[k], id) /\ k \in 1..Len(rs)
      BY <2>2, <3>2, <3>3
    <3>5. \E n \in 1..Len(rs) : n <= k /\ Matches(rs[n], id) /\ Chosen(d, id) = rs[n].callback
      BY <2>2, <2>7, <3>4
    <3>6. Chosen(d, id) = rs[k].callback
      BY <2>2, <3>2, <3>3, <3>5
    <3>7. QED BY <1>2, <2>3, <3>1, <3>6 DEF id
  <2>11. CASE ~(id.vendor = 4130 /\ id.device \in 4352..4355)
    <3>1. Expected(d, x) = IF client THEN "client" ELSE "pci_discovered"
      BY <2>1, <2>8, <2>11
    <3>2. \A i \in 1..4 : ~Matches(rs[i], id)
      BY <2>2, <2>3, <2>4, <2>11
    <3>3. CASE client
      <4>1. Matches(rs[5], id) /\ 5 \in 1..Len(rs)
        BY <2>2, <2>4, <3>3 DEF client
      <4>2. Chosen(d, id) = rs[5].callback
        BY <2>2, <2>7, <3>2, <4>1
      <4>3. QED BY <1>2, <2>2, <3>1, <3>3, <4>2 DEF id, client
    <3>4. CASE ~client
      <4>1. \A i \in 1..Len(rs) : ~Matches(rs[i], id)
        BY <2>2, <2>4, <3>2, <3>4 DEF client
      <4>2. QED BY <1>2, <2>2, <2>7, <3>1, <3>4, <4>1 DEF id
    <3>5. QED BY <3>3, <3>4
  <2>12. id.device \in 0..(2^16 - 1)
    BY <2>1 DEF PciId
  <2>13. QED BY <2>9, <2>10, <2>11, <2>12
<1>3. QED BY <1>1, <1>2 DEF Driver

(* From the first call on, what is expected of a device stays,             *)
LEMMA Stable ==
  ASSUME Core, [Next]_vars, asked # <<>>
  PROVE  /\ UNCHANGED ruleVars
         /\ \A d, x : Expected(d, x)' = Expected(d, x)
         /\ \A d : Addresses(d)' = Addresses(d)
<1>1. UNCHANGED ruleVars
  BY RulesChange DEF Core, CallsOK, Construct, RegisterClient
<1>2. QED BY <1>1 DEF ruleVars, Expected, Addresses

(* in particular within a call.                                            *)
LEMMA Called ==
  ASSUME Core, [Next]_vars, pc # "idle"
  PROVE  /\ UNCHANGED <<machine, requests>> /\ asked # <<>>
         /\ \A d, x : Expected(d, x)' = Expected(d, x)
  BY Stable DEF Core, CallsOK, ruleVars

(* What is known of the device at each step of its identification.         *)
LEMMA IdentifiedStep ==
  ASSUME Core, Identified, [Next]_vars
  PROVE  Identified'
<1> USE DEF HasDevice, Calling, Running, ruleVars, loopVars, probeVars, affinityVars, callbackVars,
            treeVars, NoOne
<1>0. ASSUME pc' \notin HasDevice PROVE Identified'
  BY <1>0 DEF Identified
<1>1. ASSUME pc \in HasDevice
      PROVE  /\ machine' = machine /\ Head(todo) \in Driver /\ Device \in Addresses(Head(todo))
             /\ \A d, x : Expected(d, x)' = Expected(d, x)
  BY <1>1, Called, DeviceIsListed DEF Core
<1>2. CASE Enumerate \/ (\E name : Discover(name)) \/ (\E u : Construct(u)) \/ (\E r : RegisterClient(r))
  BY <1>0, <1>2 DEF Enumerate, Discover, Construct, RegisterClient, Core, Control, CallsOK
<1>3. CASE NextDevice
  BY <1>3 DEF NextDevice, Identified
<1>4. CASE Pin
  BY <1>0, <1>1, <1>4 DEF Pin, Identified, Throw, Abort, Device
<1>5. CASE ReadCpuid
  <2>1. Head(todo) = "cpu" /\ machine' = machine /\ UNCHANGED <<todo, devices, leaf>> /\ pc' = "restore"
    BY <1>1, <1>5 DEF ReadCpuid, Core, Control
  <2> DEFINE id == machine.cpu[Device]
  <2>2. id \in CpuId
    BY <1>1, <1>5, <2>1, MachineAssumption DEF ReadCpuid, Core, RulesOK, Addresses
  <2>3. affinity = {Device} /\ (leaf = 1 => seen = [vendor |-> id.vendor])
    BY <1>5 DEF ReadCpuid, Identified
  <2>4. seen' = IF leaf = 0 THEN [vendor |-> id.vendor] ELSE [id EXCEPT !.vendor = seen.vendor]
    BY <1>5, <2>3 DEF ReadCpuid
  <2>5. leaf = 1 => seen' = id
    BY <2>2, <2>3, <2>4 DEF CpuId
  <2>6. Device' = Device
    BY <2>1 DEF Device
  <2>7. QED BY <2>1, <2>4, <2>5, <2>6 DEF Identified
<1>6. CASE Restore
  <2>1. Head(todo) = "cpu"
    BY <1>6 DEF Restore, Core, Control
  <2>2. QED BY <1>0, <1>1, <1>6, <2>1 DEF Restore, Identified, Throw, Abort, Device, Core, Probing
<1>7. CASE ReadConfig
  <2>1. Head(todo) = "pci"
    BY <1>7 DEF ReadConfig, Core, Control
  <2>2. QED BY <1>0, <1>1, <1>7, <2>1 DEF ReadConfig, Identified, Throw, Abort, Device
<1>8. CASE Match
  <2>1. seen = IF Head(todo) = "cpu" THEN machine.cpu[Device] ELSE machine.pci[Device]
    BY <1>8 DEF Match, Identified
  <2>2. unborn = {}
    BY <1>8 DEF Match, Core, CallsOK
  <2>3. Chosen(Head(todo), seen) = Expected(Head(todo), Device)
    BY <1>1, <1>8, <2>1, <2>2, ChosenIsExpected DEF Match, Core
  <2>4. CASE pc' = "open"
    BY <1>1, <1>8, <2>3, <2>4 DEF Match, Identified, Device, Done
  <2>5. CASE pc' = "next"
    BY <1>0, <2>5
  <2>6. QED BY <1>8, <2>4, <2>5 DEF Match, Done
<1>9. CASE Open
  BY <1>0, <1>1, <1>9 DEF Open, Identified, Throw, Abort, Device
<1>10. CASE OpenPart \/ ClosePart \/ DefineRev
  BY <1>0, <1>1, <1>10 DEF OpenPart, ClosePart, DefineRev, Identified, Throw, Abort, FailReading, Device
<1>11. CASE Close
  BY <1>0, <1>11 DEF Close, Done, Throw, Abort
<1>12. CASE UNCHANGED vars
  <2>1. /\ UNCHANGED <<machine, pc, todo, devices, affinity, leaf, seen, callback>>
        /\ \A d, x : Expected(d, x)' = Expected(d, x)
    BY <1>12 DEF vars, Expected
  <2>2. QED BY <2>1 DEF Identified, Device
<1>13. QED BY <1>2, <1>3, <1>4, <1>5, <1>6, <1>7, <1>8, <1>9, <1>10, <1>11, <1>12 DEF Next

(* ByRule is kept: a scope is made by the callback of its device.          *)
LEMMA ByRuleStep ==
  ASSUME Core, Core', Identified, ByRule, [Next]_vars
  PROVE  ByRule'
<1>1. CASE asked = <<>>
  <2>1. DOMAIN tree = {} /\ pc = "idle"
    BY <1>1 DEF Core, Where, CallsOK
  <2>2. tree' = tree
    BY <2>1, TreeChange DEF Still, treeVars, Opening, PartOpening, PartClosing, RevDefining, Closing
  <2>3. QED BY <2>1, <2>2 DEF ByRule
<1>2. CASE asked # <<>>
  <2>1. machine' = machine /\ \A d, x : Expected(d, x)' = Expected(d, x)
    BY <1>2, Stable DEF ruleVars
  <2>2. CASE DOMAIN tree' = DOMAIN tree /\ \A p \in DOMAIN tree : /\ tree'[p].by = tree[p].by
                                                                /\ tree'[p].device = tree[p].device
    BY <2>1, <2>2 DEF ByRule, Kind
  <2>3. CASE Opening
    <3> DEFINE path == Append(scope, Element)
    <3>1. /\ DOMAIN tree' = DOMAIN tree \cup {path}
          /\ \A p \in DOMAIN tree : p # path => tree'[p] = tree[p]
          /\ tree'[path].by = callback /\ tree'[path].device = Device
      BY <2>3 DEF Opening, Put
    <3>2. /\ Last(path) = <<IF callback = "k8_pci" THEN "k8" ELSE Head(todo),
                            IF callback = "k8_pci" THEN Cardinality(K8Under(scope)) ELSE Device>>
      BY <2>3, ElementFacts DEF Opening, Core
    <3>3. Head(todo) \in {"cpu", "pci"} /\ (callback = "k8_pci" => Head(todo) = "pci")
      BY <2>3, DriverOfCall DEF Opening, Core, Driver, HasDevice, Calling, Control, CallbackOf, NoOne
    <3>4. callback = Expected(Head(todo), Device)
      BY <2>3 DEF Opening, Identified, Calling
    <3> HIDE DEF path
    <3>5. /\ Kind(path) = Head(todo)
          /\ Last(path)[1] # "k8" => Last(path)[2] = Device
      BY <3>2, <3>3 DEF Kind
    <3>6. QED BY <2>1, <3>1, <3>4, <3>5 DEF ByRule, Kind
  <2>4. CASE RevDefining
    <3>1. scope \in DOMAIN tree
      BY <2>4, OwnFacts DEF RevDefining, Own, Running, Core
    <3>2. DOMAIN tree' = DOMAIN tree /\ \A p \in DOMAIN tree : /\ tree'[p].by = tree[p].by
                                                            /\ tree'[p].device = tree[p].device
      BY <2>4, <3>1 DEF RevDefining, Core, Shape
    <3>3. QED BY <2>2, <3>2
  <2>5. CASE tree' = tree
    BY <2>2, <2>5
  <2>6. QED BY <2>3, <2>4, <2>5, TreeChange DEF Still, treeVars, PartOpening, PartClosing, Closing
<1>3. QED BY <1>1, <1>2

(* Each device is identified by its own ids, and defined accordingly.      *)
THEOREM DevicesAreIdentified == Spec => [](Identified /\ ByRule)
<1>1. Init => Identified /\ ByRule
  BY DEF Init, Identified, ByRule, HasDevice, Calling, Running
<1>2. Core /\ Core' /\ Identified /\ ByRule /\ [Next]_vars => Identified' /\ ByRule'
  BY IdentifiedStep, ByRuleStep
<1>3. QED BY <1>1, <1>2, CoreIsInvariant, PTL DEF Spec

(* ByRule: every device of the tree was defined by the code that is to.    *)
THEOREM DevicesAreByRule == Spec => []ByRule
  BY DevicesAreIdentified, PTL

-----------------------------------------------------------------------------
(* The elements of an array k8[] are numbered from 0.                      *)
LEMMA NumberedStep ==
  ASSUME Core, Core', Numbered, [Next]_vars
  PROVE  Numbered'
<1>1. CASE DOMAIN tree' = DOMAIN tree
  BY <1>1 DEF Numbered, K8Under
<1>2. CASE Opening
  <2> DEFINE path == Append(scope, Element)
  <2>1. DOMAIN tree' = DOMAIN tree \cup {path}
    BY <1>2 DEF Opening, Put
  <2>2. /\ Len(path) = Len(scope) + 1 /\ Front(path) = scope
        /\ Last(path)[1] = "k8" <=> callback = "k8_pci"
        /\ callback = "k8_pci" => Last(path)[2] = Cardinality(K8Under(scope))
    <3>1. Head(todo) \in {"cpu", "pci"}
      BY <1>2, DriverOfCall DEF Opening, Core, Driver, HasDevice, Calling
    <3>2. QED BY <1>2, <3>1, ElementFacts DEF Opening, Core
  <2> HIDE DEF path
  <2>3. SUFFICES ASSUME NEW s \in Path, NEW p \in K8Under(s)'
                 PROVE  Last(p)[2] < Cardinality(K8Under(s)')
    BY DEF Numbered
  <2>4. CASE callback = "k8_pci" /\ s = scope
    <3>1. K8Under(s)' = K8Under(s) \cup {path}
      BY <2>1, <2>2, <2>4 DEF K8Under
    <3>2. IsFiniteSet(K8Under(s)) /\ Cardinality(K8Under(s)) \in Nat
      BY K8Finite DEF Core
    <3>3. \A q \in K8Under(s) : Last(q)[2] < Cardinality(K8Under(s)) /\ Last(q)[2] \in Nat
      <4>1. ASSUME NEW q \in K8Under(s) PROVE Last(q)[2] \in Nat
        <5>1. q \in Path /\ q # <<>>
          BY EmptySeq, LenProperties DEF K8Under, Core, Shape, Path
        <5>2. PICK r \in Seq(ScopeName \X Nat), e \in ScopeName \X Nat : q = Append(r, e)
          BY <5>1, SequenceEmptyOrAppend DEF Path
        <5>3. Last(q) = e
          BY <5>2, AppendFacts
        <5>4. QED BY <5>3
      <4>2. QED BY <4>1 DEF Numbered
    <3>4. path \notin K8Under(s)
      BY <2>2, <2>4, <3>2, <3>3
    <3>5. Cardinality(K8Under(s)') = Cardinality(K8Under(s)) + 1
      BY <3>1, <3>2, <3>4, FS_AddElement
    <3>6. QED BY <2>2, <2>4, <3>1, <3>2, <3>3, <3>5
  <2>5. CASE ~(callback = "k8_pci" /\ s = scope)
    <3>1. K8Under(s)' = K8Under(s)
      BY <2>1, <2>2, <2>5 DEF K8Under
    <3>2. QED BY <3>1 DEF Numbered
  <2>6. QED BY <2>4, <2>5
<1>3. CASE RevDefining
  BY <1>1, <1>3 DEF RevDefining
<1>4. QED BY <1>1, <1>2, <1>3, TreeChange DEF Still, treeVars, PartOpening, PartClosing, Closing

(* A device once handled stays so until the call is over.                  *)
LEMMA HandledKept ==
  ASSUME Core, Core', Identified, ByRule, Numbered, [Next]_vars, pc # "idle"
  PROVE  \A d, x : Handled(d, x) => Handled(d, x)'
<1>1. base' = base /\ \A d, x : Expected(d, x)' = Expected(d, x)
  BY Called, CallsGrow DEF Core
<1>2. \A p \in DOMAIN tree : p \in DOMAIN tree' /\ tree'[p].device = tree[p].device
  <2>1. CASE tree' = tree
    BY <2>1
  <2>2. CASE RevDefining
    BY <2>2, OwnFacts DEF RevDefining, Own, Running, Core, Shape
  <2>3. CASE Opening
    <3> DEFINE path == Append(scope, Element)
    <3>1. /\ DOMAIN tree' = DOMAIN tree \cup {path}
          /\ \A p \in DOMAIN tree : p # path => tree'[p] = tree[p]
          /\ tree'[path].device = Device
      BY <2>3 DEF Opening, Put
    <3>2. /\ Last(path) = <<IF callback = "k8_pci" THEN "k8" ELSE Head(todo),
                            IF callback = "k8_pci" THEN Cardinality(K8Under(scope)) ELSE Device>>
          /\ Len(path) = Len(scope) + 1 /\ Front(path) = scope
      BY <2>3, ElementFacts DEF Opening, Core
    <3>3. Head(todo) \in {"cpu", "pci"}
      BY <2>3, DriverOfCall DEF Opening, Core, Driver, HasDevice, Calling
    <3> HIDE DEF path
    <3>4. CASE callback = "k8_pci"
      <4>1. Cardinality(K8Under(scope)) \in Nat /\ scope \in Path
        BY K8Finite DEF Core, Shape
      <4>2. path \notin K8Under(scope)
        BY <3>2, <3>4, <4>1 DEF Numbered
      <4>3. path \notin DOMAIN tree
        BY <3>2, <3>4, <4>2 DEF K8Under
      <4>4. QED BY <3>1, <4>3
    <3>5. CASE callback # "k8_pci"
      <4>1. path \in DOMAIN tree => tree[path].device = Device
        BY <3>2, <3>3, <3>5 DEF ByRule
      <4>2. QED BY <3>1, <4>1
    <3>6. QED BY <3>4, <3>5
  <2>4. QED BY <2>1, <2>2, <2>3, TreeChange DEF Still, treeVars, PartOpening, PartClosing, Closing
<1>3. QED BY <1>1, <1>2 DEF Handled, Kind

(* The device at hand is handled when the loop goes on to the next.        *)
LEMMA HandledNow ==
  ASSUME Core, Core', Identified, ByRule, Numbered, Next, Inside, Advance,
         NEW d, NEW x, d = Head(todo), x = Device
  PROVE  Handled(d, x)'
<1>0. [Next]_vars
  OBVIOUS
<1>1. Expected(d, x)' = Expected(d, x) /\ base' = base
  BY <1>0, Called, CallsGrow DEF Inside, Core
<1>2. CASE pc = "match"
  <2>1. Match
    BY <1>2 DEF Next, Inside, Construct, RegisterClient, Discover, Enumerate, NextDevice, Pin, ReadCpuid,
                Restore, ReadConfig, Open, OpenPart, ClosePart, DefineRev, Close, Core, CallsOK
  <2>2. Head(todo) \in Driver /\ Device \in Addresses(Head(todo)) /\ unborn = {}
    BY <1>2, DeviceIsListed DEF HasDevice, Core, CallsOK
  <2>3. Chosen(Head(todo), seen) = Expected(Head(todo), Device)
    BY <1>2, <2>2, ChosenIsExpected DEF Identified, Core
  <2>4. Expected(d, x) = NoOne
    BY <2>1, <2>3 DEF Match, Advance
  <2>5. QED BY <1>1, <2>4 DEF Handled
<1>3. CASE pc = "part"
  <2>1. tree' = tree
    BY <1>0, <1>3, TreeChange DEF Advance, Still, treeVars, Opening, PartOpening, PartClosing, RevDefining,
       Closing, Running, Exit
  <2>2. /\ scope \in DOMAIN tree /\ Front(scope) = base /\ Len(scope) = Len(base) + 1
        /\ tree[scope].device = x
        /\ IF callback = "k8_pci" THEN Last(scope)[1] = "k8" ELSE Last(scope) = <<d, x>>
    BY <1>3, OwnFacts DEF Core, Where, Own, Running
  <2>3. d \in {"cpu", "pci"} /\ (callback = "k8_pci" => d = "pci")
    BY <1>3, DriverOfCall DEF Core, Driver, HasDevice, Calling, Running, Control, CallbackOf, NoOne
  <2>4. Kind(scope) = d
    BY <2>2, <2>3 DEF Kind
  <2> DEFINE p == scope
  <2>5. p \in DOMAIN tree' /\ Len(p) = Len(base') + 1 /\ Front(p) = base' /\ tree'[p].device = x
        /\ (IF Last(p)[1] = "cpu" THEN "cpu" ELSE "pci") = d
    BY <1>1, <2>1, <2>2, <2>4 DEF Kind
  <2> HIDE DEF p
  <2>6. QED BY <2>5 DEF Handled, Kind
<1>4. QED BY <1>2, <1>3 DEF Advance

(* What the loops are past is handled.                                     *)
LEMMA CoveredStep ==
  ASSUME Core, Core', Identified, ByRule, Numbered, Covered, [Next]_vars
  PROVE  Covered'
<1> DEFINE All1 == Looping => \A x \in Addresses(Head(todo)) \ Range(devices) : Handled(Head(todo), x)
           All2 == pc # "idle" => \A d \in Range(Drivers(Last(asked))) \ Range(todo) :
                                    \A x \in Addresses(d) : Handled(d, x)
<1>0. Covered <=> /\ All1 /\ All2 /\ Complete /\ (pc # "idle" => asked # <<>>)
  BY DEF Covered
<1>1. CASE Registering
  <2>1. results = <<>>
    <3>1. Len(asked) = 0 /\ Len(results) \in Nat /\ Len(asked) - Len(results) = 0
      BY <1>1, LenProperties DEF Registering, Core, CallsOK
    <3>2. Len(results) = 0
      BY <3>1
    <3>3. QED BY <3>2, EmptySeq DEF Core, CallsOK
  <2>2. pc' = "idle" /\ results' = <<>>
    BY <1>1, <2>1 DEF Registering, loopVars
  <2>3. QED BY <2>2 DEF Covered, Complete, Looping, HasDevice, Calling, Running
<1>2. ASSUME NEW name \in {All} \cup Driver, Discover(name) PROVE Covered'
  <2>1. pc' = "enumerate" /\ Last(asked') = name /\ asked' # <<>> /\ todo' = Drivers(name)
    BY <1>2, AppendFacts DEF Discover, Core, CallsOK
  <2>2. QED BY <2>1 DEF Covered, Complete, Looping, HasDevice, Calling, Running
<1>3. ASSUME NEW e \in Error, Exit(e) PROVE Covered'
  <2>1. Last(results') = e /\ e # "ok"
    BY <1>3, AppendFacts DEF Exit, Core, CallsOK, Error
  <2>2. QED BY <1>3, <2>1 DEF Covered, Complete, Exit, Looping, HasDevice, Calling, Running
<1>4. CASE Exit("ok")
  <2>1. pc = "enumerate" /\ todo = <<>> /\ UNCHANGED <<machine, requests, tree, asked, base>> /\ pc' = "idle"
    BY <1>4 DEF Exit, treeVars, ruleVars
  <2>2. \A d \in Range(Drivers(Last(asked))) : \A x \in Addresses(d) : Handled(d, x)
    BY <2>1 DEF Covered, Range
  <2>3. Complete'
    BY <2>1, <2>2 DEF Complete, Handled, Addresses, Expected, Kind
  <2>4. QED BY <2>1, <2>3 DEF Covered, Looping, HasDevice, Calling, Running
<1>5. CASE Inside /\ Next
  <2>1. /\ pc # "idle" /\ pc' # "idle" /\ asked' = asked /\ asked # <<>>
        /\ \A d : Addresses(d)' = Addresses(d)
        /\ \A d, x : Handled(d, x) => Handled(d, x)'
    BY <1>5, Stable, HandledKept DEF Inside, Core, CallsOK
  <2>2. CASE Start
    <3>1. /\ todo' = todo /\ Head(todo) \in Driver /\ devices' \in Listing(Addresses(Head(todo)))
      BY <2>2 DEF Start, Enumerate, Addresses, Core, Control, Driver
    <3>2. Range(devices') = Addresses(Head(todo))
      BY <3>1, AddressFacts, ListingFacts DEF Core
    <3>3. QED BY <2>1, <3>1, <3>2 DEF Covered, Complete
  <2>3. CASE NextOne
    <3>1. todo # <<>> /\ todo \in Seq(Driver) /\ Looping
      BY <2>3 DEF NextOne, Core, Control, Driver, HasDevice, Looping
    <3>2. \A x \in Addresses(Head(todo)) : Handled(Head(todo), x)
      BY <2>3, <3>1 DEF NextOne, Covered, Range
    <3>3. Range(todo) = Range(todo') \cup {Head(todo)}
      <4>1. CASE todo = <<"cpu">>
        BY <4>1, <2>3 DEF NextOne, Range
      <4>2. CASE todo = <<"pci">>
        BY <4>2, <2>3 DEF NextOne, Range
      <4>3. CASE todo = <<"cpu", "pci">>
        BY <4>3, <2>3 DEF NextOne, Range
      <4>4. QED BY <4>1, <4>2, <4>3, <3>1 DEF Core, Control
    <3>4. QED BY <2>1, <2>3, <3>2, <3>3 DEF Covered, Complete, NextOne, Looping, HasDevice, Calling, Running
  <2>4. CASE Advance
    <3>1. Looping /\ todo' = todo /\ devices # <<>> /\ devices' = Tail(devices)
      BY <2>4 DEF Advance, Core, Control, HasDevice, Calling, Running, Looping
    <3>2. Range(devices) = Range(devices') \cup {Device}
      <4>1. Head(todo) \in Driver
        BY <2>4, DriverOfCall DEF Core, Advance, HasDevice, Calling, Running
      <4>2. QED BY <3>1, <4>1, AddressFacts, TailSorted DEF List, Core, Device
    <3>3. \A d, x : d = Head(todo) /\ x = Device => Handled(d, x)'
      BY <1>5, <2>4, HandledNow
    <3>4. \A d : d = Head(todo) => \A x \in Addresses(d) \ Range(devices') : Handled(d, x)'
      BY <2>1, <3>1, <3>2, <3>3 DEF Covered
    <3>5. (Looping => \A x \in Addresses(Head(todo)) \ Range(devices) : Handled(Head(todo), x))'
      <4>1. Head(todo)' = Head(todo)
        BY <3>1
      <4>2. QED BY <2>1, <3>4, <4>1
    <3>6. (\A d \in Range(Drivers(Last(asked))) \ Range(todo) : \A x \in Addresses(d) : Handled(d, x))'
      <4>1. \A d \in Range(Drivers(Last(asked))) \ Range(todo) : \A x \in Addresses(d) : Handled(d, x)
        BY <2>1 DEF Covered
      <4>2. QED BY <2>1, <3>1, <4>1
    <3>7. QED BY <2>1, <3>5, <3>6 DEF Covered, Complete
  <2>5. CASE Stay
    BY <2>1, <2>5 DEF Stay, Covered, Complete
  <2>6. QED BY <1>5, <2>2, <2>3, <2>4, <2>5, InsideKinds DEF Core
<1>6. CASE UNCHANGED vars
  BY <1>6 DEF vars, ruleVars, loopVars, treeVars, Covered, Complete, Looping, Handled, Addresses, Expected, Kind
<1>7. QED BY <1>1, <1>2, <1>3, <1>4, <1>5, <1>6, Kinds DEF Core

(* Complete: a discovery that returns has defined every device it is to    *)
(* define.                                                                 *)
THEOREM DiscoveryIsComplete == Spec => []Complete
<1>1. Init => Numbered /\ Covered
  BY DEF Init, Numbered, K8Under, Covered, Complete, Looping, HasDevice, Calling, Running
<1>2. Core /\ Core' /\ Identified /\ ByRule /\ Numbered /\ Covered /\ [Next]_vars => Numbered' /\ Covered'
  BY NumberedStep, CoveredStep
<1>3. Covered => Complete
  BY DEF Covered
<1>4. QED BY <1>1, <1>2, <1>3, CoreIsInvariant, DevicesAreIdentified, PTL DEF Spec

-----------------------------------------------------------------------------
(* The array cpu[].                                                        *)

(* A CPU is never ignored: the loop goes on when its scope is closed.      *)
LEMMA CpuCloses ==
  ASSUME Core, Identified, Next, Advance, Head(todo) = "cpu"
  PROVE  Closing
<1>1. CASE pc = "match"
  <2>1. Match
    BY <1>1 DEF Next, Construct, RegisterClient, Discover, Enumerate, NextDevice, Pin, ReadCpuid,
                Restore, ReadConfig, Open, OpenPart, ClosePart, DefineRev, Close, Core, CallsOK
  <2>2. Head(todo) \in Driver /\ Device \in Addresses(Head(todo)) /\ unborn = {}
    BY <1>1, DeviceIsListed DEF HasDevice, Core, CallsOK
  <2>3. Chosen(Head(todo), seen) = Expected(Head(todo), Device)
    BY <1>1, <2>2, ChosenIsExpected DEF Identified, Core
  <2>4. Expected("cpu", Device) # NoOne
    BY DEF Expected, NoOne
  <2>5. QED BY <2>1, <2>3, <2>4 DEF Match, Advance
<1>2. CASE pc = "part"
  BY <1>2, TreeChange DEF Advance, Still, Exit, Running, Opening, PartOpening, PartClosing, RevDefining
<1>3. QED BY <1>1, <1>2 DEF Advance

(* What closing the scope of a CPU does.                                   *)
LEMMA CpuClosed ==
  ASSUME Core, Closing, Head(todo) = "cpu"
  PROVE  /\ scope' = base /\ Last(scope) = <<"cpu", Device>> /\ scope = Append(base, <<"cpu", Device>>)
         /\ scope \in DOMAIN tree
         /\ DOMAIN cpus' = DOMAIN cpus \cup {base}
         /\ cpus'[base] = Append(IF base \in DOMAIN cpus THEN cpus[base] ELSE <<>>, scope)
         /\ \A p \in DOMAIN cpus : p # base => cpus'[p] = cpus[p]
         /\ Device \in Addresses("cpu") /\ Device \in Nat
         /\ devices \in Seq(Addresses("cpu")) /\ devices # <<>>
         /\ Range(devices) = Range(devices') \cup {Device} /\ Device \notin Range(devices')
         /\ \A x \in Addresses("cpu") \ Range(devices) : x < Device
         /\ \A x \in Range(devices) : Device <= x
<1>1. pc = "part" /\ pc \in HasDevice /\ pc \in Running /\ Looping
  BY DEF Closing, HasDevice, Calling, Running, Looping
<1>2. Own = scope /\ Own \in DOMAIN tree /\ Front(Own) = base /\ Own = Append(base, Last(Own))
  BY <1>1, OwnFacts DEF Core, Own, Where
<1>3. Last(Own) = <<"cpu", Device>>
  BY <1>1 DEF Core, Where, Control, CallbackOf, Closing, Calling, NoOne
<1>4. scope' = base
  BY <1>2 DEF Closing
<1>5. /\ DOMAIN cpus' = DOMAIN cpus \cup {base}
      /\ cpus'[base] = Append(IF base \in DOMAIN cpus THEN cpus[base] ELSE <<>>, scope)
      /\ \A p \in DOMAIN cpus : p # base => cpus'[p] = cpus[p]
  <2> DEFINE new == Append(IF base \in DOMAIN cpus THEN cpus[base] ELSE <<>>, scope)
  <2>1. cpus' = Put(cpus, base, new)
    BY <1>4 DEF Closing
  <2> HIDE DEF new
  <2>2. /\ DOMAIN cpus' = DOMAIN cpus \cup {base} /\ cpus'[base] = new
        /\ \A p \in DOMAIN cpus : p # base => cpus'[p] = cpus[p]
    BY <2>1 DEF Put
  <2>3. QED BY <2>2 DEF new
<1> DEFINE A == Addresses("cpu")
<1>6. /\ A \in SUBSET Nat /\ devices \in Seq(A) /\ devices # <<>> /\ Device \in A
      /\ \A i, j \in 1..Len(devices) : i < j => devices[i] < devices[j]
      /\ \A x \in A \ Range(devices), i \in 1..Len(devices) : x < devices[i]
  BY <1>1, AddressFacts, DeviceIsListed DEF Core, List, Driver
<1> HIDE DEF A
<1>7. /\ Range(devices) = Range(Tail(devices)) \cup {Device} /\ Device \notin Range(Tail(devices))
      /\ Device = devices[1] /\ 1 \in 1..Len(devices)
      /\ DOMAIN devices = 1..Len(devices) /\ Len(devices) \in Nat
  BY <1>6, TailSorted, LenProperties DEF Device
<1>8. \A i \in 1..Len(devices) : devices[i] \in Nat
  <2>1. \A i \in 1..Len(devices) : devices[i] \in A
    BY <1>6, ElementOfSeq
  <2>2. QED BY <1>6, <2>1
<1>9. \A x \in Range(devices) : Device <= x
  <2>1. \A i \in 1..Len(devices) : devices[1] <= devices[i]
    BY <1>6, <1>7, <1>8
  <2>2. QED BY <1>7, <2>1 DEF Range
<1>10. \A x \in A \ Range(devices) : x < Device
  BY <1>6, <1>7
<1>11. devices' = Tail(devices)
  BY DEF Closing
<1>12. QED BY <1>2, <1>3, <1>4, <1>5, <1>6, <1>7, <1>9, <1>10, <1>11 DEF A

(* cpu[] has the CPUs that the loop is past, in order.                     *)
LEMMA OrderStep ==
  ASSUME Core, Core', Identified, Order, [Next]_vars
  PROVE  Order'
<1> SUFFICES ASSUME Len(asked') = 1 PROVE Order'
  BY DEF Order, CpusInOrder
<1> USE DEF Looping, HasDevice, Calling, Running
<1>1. CASE Registering
  <2>1. asked' = <<>>
    BY <1>1 DEF Registering, loopVars
  <2>2. QED BY <2>1
<1>2. ASSUME NEW name \in {All} \cup Driver, Discover(name) PROVE Order'
  <2>1. asked \in Seq({All} \cup Driver) /\ Len(asked') = Len(asked) + 1
    BY <1>2, AppendFacts DEF Discover, Core, CallsOK
  <2>2. asked = <<>>
    BY <2>1, LastOne
  <2>3. scope = <<>> /\ DOMAIN cpus = {} /\ cpus' = cpus /\ base' = scope /\ pc' = "enumerate"
    BY <1>2, <2>2 DEF Core, Where, Discover, treeVars
  <2>4. QED BY <2>3 DEF Order, CpusInOrder, Numbers
<1>3. ASSUME NEW e \in {"ok"} \cup Error, Exit(e) PROVE Order'
  <2>1. cpus' = cpus
    BY <1>3, TreeChange DEF Exit, Still, treeVars, Opening, PartOpening, PartClosing, RevDefining, Closing
  <2>2. UNCHANGED <<machine, asked, base>> /\ pc' = "idle"
    BY <1>3 DEF Exit, ruleVars
  <2>3. QED BY <2>1, <2>2 DEF Order, CpusInOrder
<1>4. CASE Inside /\ Next
  <2>1. UNCHANGED <<machine, asked, base>> /\ base = <<>> /\ Len(asked) = 1
        /\ Addresses("cpu")' = Addresses("cpu")
    BY <1>4 DEF Inside, Order, ruleVars, Addresses
  <2>2. CASE cpus' = cpus /\ ~(Closing /\ Head(todo) = "cpu")
    <3>1. CpusInOrder' /\ Numbers' = Numbers
      BY <2>1, <2>2 DEF Order, CpusInOrder, Numbers
    <3>2. CASE Start
      <4>1. CASE Head(todo) = "cpu"
        <5>1. todo' = todo /\ devices' \in Listing(Addresses("cpu")) /\ Numbers = {}
          BY <2>1, <3>2, <4>1 DEF Start, Enumerate, Addresses, Order
        <5>2. Range(devices') = Addresses("cpu")
          BY <5>1, AddressFacts, ListingFacts DEF Core, Driver
        <5>3. QED BY <2>1, <3>1, <3>2, <5>1, <5>2 DEF Order, Start, Enumerate
      <4>2. CASE Head(todo) # "cpu"
        BY <2>1, <3>1, <3>2, <4>2 DEF Order, Start, Enumerate
      <4>3. QED BY <4>1, <4>2
    <3>3. CASE NextOne
      <4>1. todo' = <<>> \/ Head(todo') = "pci"
        BY <3>3 DEF NextOne, Core, Control
      <4>2. QED BY <2>1, <3>1, <3>3, <4>1 DEF Order, NextOne
    <3>4. CASE Advance
      <4>1. Head(todo) # "cpu"
        BY <1>4, <2>2, <3>4, CpuCloses
      <4>2. QED BY <2>1, <3>1, <3>4, <4>1 DEF Order, Advance
    <3>5. CASE Stay
      BY <2>1, <3>1, <3>5 DEF Order, Stay
    <3>6. QED BY <1>4, <3>2, <3>3, <3>4, <3>5, InsideKinds DEF Core
  <2>3. CASE Closing /\ Head(todo) = "cpu"
    <3> DEFINE old == IF <<>> \in DOMAIN cpus THEN cpus[<<>>] ELSE <<>>
               new == cpus'[<<>>]
               A   == Addresses("cpu")
    <3>1. /\ new = Append(old, scope) /\ <<>> \in DOMAIN cpus'
          /\ Last(scope)[2] = Device /\ scope \in DOMAIN tree /\ Device \in A /\ Device \in Nat
          /\ Range(devices) = Range(devices') \cup {Device} /\ Device \notin Range(devices')
          /\ \A x \in A \ Range(devices) : x < Device
          /\ \A x \in Range(devices) : Device <= x
      BY <2>1, <2>3, CpuClosed
    <3>2. old \in Seq(DOMAIN tree)
      BY EmptySeq DEF Core, Shape
    <3>3. {Last(p)[2] : p \in Range(old)} = A \ Range(devices)
      <4>1. Numbers = A \ Range(devices)
        BY <2>1, <2>3 DEF Order, Closing
      <4>2. Range(<<>>) = {}
        BY DEF Range
      <4>3. QED BY <4>1, <4>2 DEF Numbers
    <3>4. (<<>> \in DOMAIN cpus) => CpusInOrder
      BY DEF Order
    <3>5. /\ \A i, j \in DOMAIN old : j < i => Last(old[j])[2] < Last(old[i])[2]
          /\ \A i \in DOMAIN old : \A c \in DOMAIN machine.cpu :
                c < Last(old[i])[2] => \E j \in DOMAIN old : j < i /\ Last(old[j])[2] = c
      BY <2>1, <3>4 DEF CpusInOrder
    <3>6. A = DOMAIN machine.cpu /\ A \in SUBSET Nat
      BY AddressFacts DEF Addresses, Core, Driver
    <3>7. A = A' /\ UNCHANGED <<machine, asked, base, todo>> /\ pc' = "next"
      BY <2>1, <2>3 DEF Closing
    <3> HIDE DEF old, new, A
    <3>8. /\ Range(new) = Range(old) \cup {scope}
          /\ DOMAIN old = 1..Len(old) /\ DOMAIN new = 1..(Len(old) + 1) /\ Len(old) \in Nat
          /\ \A i \in 1..Len(old) : new[i] = old[i]
          /\ new[Len(old) + 1] = scope
      BY <3>1, <3>2, AppendFacts, AppendProperties, LenProperties
    <3>9. {Last(p)[2] : p \in Range(new)} = A \ Range(devices')
      <4>1. {Last(p)[2] : p \in Range(new)} = {Last(p)[2] : p \in Range(old)} \cup {Device}
        BY <3>1, <3>8
      <4>2. QED BY <3>1, <3>3, <4>1
    <3>10. \A i \in DOMAIN old : Last(old[i])[2] \in A \ Range(devices)
      <4>1. \A i \in DOMAIN old : old[i] \in Range(old)
        BY DEF Range
      <4>2. QED BY <3>3, <4>1
    <3>11. \A i, j \in DOMAIN new : j < i => Last(new[j])[2] < Last(new[i])[2]
      <4>1. SUFFICES ASSUME NEW i \in DOMAIN new, NEW j \in DOMAIN new, j < i
                     PROVE  Last(new[j])[2] < Last(new[i])[2]
        OBVIOUS
      <4>2. j \in DOMAIN old /\ new[j] = old[j]
        BY <3>8, <4>1
      <4>3. CASE i \in DOMAIN old
        BY <3>5, <3>8, <4>1, <4>2, <4>3
      <4>4. CASE i = Len(old) + 1
        <5>1. Last(new[i])[2] = Device
          BY <3>1, <3>8, <4>4
        <5>2. Last(new[j])[2] \in A \ Range(devices)
          BY <3>10, <4>2
        <5>3. QED BY <3>1, <5>1, <5>2
      <4>5. QED BY <3>8, <4>3, <4>4
    <3>12. ASSUME NEW i \in DOMAIN new, NEW c \in A, c < Last(new[i])[2]
           PROVE  \E j \in DOMAIN new : j < i /\ Last(new[j])[2] = c
      <4>1. CASE i \in DOMAIN old
        BY <3>5, <3>6, <3>8, <3>12, <4>1
      <4>2. CASE i = Len(old) + 1
        <5>1. c \in A \ Range(devices)
          BY <3>1, <3>6, <3>8, <3>12, <4>2
        <5>2. PICK p \in Range(old) : Last(p)[2] = c
          BY <3>3, <5>1
        <5>3. PICK j \in DOMAIN old : p = old[j]
          BY <5>2 DEF Range
        <5>4. QED BY <3>8, <4>2, <5>2, <5>3
      <4>3. QED BY <3>8, <4>1, <4>2
    <3>13. CpusInOrder'
      BY <3>6, <3>7, <3>11, <3>12 DEF CpusInOrder, new
    <3>14. Numbers' = Addresses("cpu")' \ Range(devices')
      BY <3>1, <3>7, <3>9 DEF Numbers, new, A
    <3>15. QED BY <2>1, <3>7, <3>13, <3>14 DEF Order
  <2>4. cpus' = cpus \/ (Closing /\ Head(todo) = "cpu")
    BY TreeChange DEF Still, treeVars, Opening, PartOpening, PartClosing, RevDefining, Closing
  <2>5. QED BY <2>2, <2>3, <2>4
<1>5. CASE UNCHANGED vars
  BY <1>5 DEF vars, ruleVars, loopVars, treeVars, Order, CpusInOrder, Numbers, Addresses
<1>6. QED BY <1>1, <1>2, <1>3, <1>4, <1>5, Kinds DEF Core

(* CpusInOrder: cpu[] has the CPUs in the order of their numbers, without  *)
(* a gap.                                                                  *)
THEOREM CpusAreInOrder == Spec => []CpusInOrder
<1>1. Init => Order
  BY DEF Init, Order, CpusInOrder, Looping, HasDevice, Calling, Running
<1>2. Core /\ Core' /\ Identified /\ Order /\ [Next]_vars => Order'
  BY OrderStep
<1>3. Order => CpusInOrder
  BY DEF Order
<1>4. QED BY <1>1, <1>2, <1>3, CoreIsInvariant, DevicesAreIdentified, PTL DEF Spec

(* cpu[0], once it is there, is the CPU of the lowest number.              *)
LEMMA FirstCpuStep ==
  ASSUME Core, Core', Identified, FirstCpu, [Next]_vars
  PROVE  FirstCpu'
<1> USE DEF Looping, HasDevice, Calling, Running
<1>0. machine' = machine /\ Lowest' = Lowest /\ Addresses("cpu")' = Addresses("cpu")
  <2>1. machine' = machine
    BY RulesChange DEF Core, Construct, RegisterClient, ruleVars
  <2>2. QED BY <2>1 DEF Lowest, Addresses
<1>1. CASE Closing /\ Head(todo) = "cpu"
  <2> DEFINE old == IF base \in DOMAIN cpus THEN cpus[base] ELSE <<>>
             A   == Addresses("cpu")
  <2>1. /\ scope = Append(base, <<"cpu", Device>>) /\ scope \in DOMAIN tree
        /\ DOMAIN cpus' = DOMAIN cpus \cup {base} /\ cpus'[base] = Append(old, scope)
        /\ \A p \in DOMAIN cpus : p # base => cpus'[p] = cpus[p]
        /\ Device \in A /\ \A x \in Range(devices) : Device <= x
    BY <1>1, CpuClosed
  <2>2. UNCHANGED <<base, todo, asked>> /\ pc # "idle"
    BY <1>1, CallsGrow DEF Closing, Core
  <2>3. CASE base # <<>>
    BY <1>0, <2>1, <2>2, <2>3 DEF FirstCpu
  <2>4. CASE base = <<>>
    <3>1. old \in Seq(DOMAIN tree)
      BY EmptySeq DEF Core, Shape
    <3> HIDE DEF old
    <3>2. cpus'[<<>>] # <<>> /\ (old # <<>> => cpus'[<<>>][1] = old[1]) /\ (old = <<>> => cpus'[<<>>][1] = scope)
      <4>1. /\ Append(old, scope) # <<>>
            /\ \A i \in 1..Len(old) : Append(old, scope)[i] = old[i]
            /\ Append(old, scope)[Len(old) + 1] = scope
        BY <2>1, <3>1, AppendProperties
      <4>2. old # <<>> => 1 \in 1..Len(old)
        BY <3>1, EmptySeq, LenProperties
      <4>3. old = <<>> => Len(old) + 1 = 1
        OBVIOUS
      <4>4. cpus'[<<>>] = Append(old, scope)
        BY <2>1, <2>4
      <4>5. ASSUME old # <<>> PROVE cpus'[<<>>][1] = old[1]
        BY <4>1, <4>2, <4>4, <4>5
      <4>6. ASSUME old = <<>> PROVE cpus'[<<>>][1] = scope
        BY <4>1, <4>3, <4>4, <4>6
      <4>7. QED BY <4>1, <4>4, <4>5, <4>6
    <3>3. CASE <<>> \in DOMAIN cpus
      <4>1. old # <<>> /\ old[1] = <<<<"cpu", Lowest>>>>
        BY <2>4, <3>3 DEF FirstCpu, old
      <4>2. QED BY <1>0, <2>1, <2>2, <2>4, <3>2, <4>1 DEF FirstCpu
    <3>4. CASE <<>> \notin DOMAIN cpus
      <4>1. Range(devices) = A
        BY <1>1, <2>4, <3>4 DEF FirstCpu, Closing
      <4>2. Device \in DOMAIN machine.cpu /\ \A x \in DOMAIN machine.cpu : Device <= x
        BY <2>1, <4>1 DEF Addresses
      <4>3. DOMAIN machine.cpu \subseteq Nat
        BY MachineAssumption DEF Core, RulesOK
      <4>4. Lowest = Device
        BY <4>2, <4>3 DEF Lowest, Min
      <4>5. scope = <<<<"cpu", Lowest>>>> /\ old = <<>>
        BY <2>1, <2>4, <3>4, <4>4 DEF old
      <4>6. QED BY <1>0, <2>1, <2>2, <2>4, <3>2, <4>5 DEF FirstCpu
    <3>5. QED BY <3>3, <3>4
  <2>5. QED BY <2>3, <2>4
<1>2. CASE cpus' = cpus /\ ~(Closing /\ Head(todo) = "cpu")
  <2>1. CASE pc' = "idle"
    BY <1>0, <1>2, <2>1 DEF FirstCpu
  <2>2. ASSUME NEW name \in {All} \cup Driver, Discover(name) PROVE FirstCpu'
    <3>1. pc' = "enumerate" /\ Last(asked') = name /\ todo' = Drivers(name)
      BY <2>2, AppendFacts DEF Discover, Core, CallsOK
    <3>2. name = All => "cpu" \in Range(todo')
      BY <3>1 DEF Drivers, Range
    <3>3. QED BY <1>0, <1>2, <3>1, <3>2 DEF FirstCpu
  <2>3. CASE Inside /\ Next
    <3>1. UNCHANGED <<asked, base>> /\ pc # "idle"
      BY <2>3 DEF Inside
    <3>2. CASE Start
      <4>1. todo' = todo /\ (Head(todo) = "cpu" => devices' \in Listing(Addresses("cpu")))
        BY <3>2 DEF Start, Enumerate, Addresses
      <4>2. Head(todo) = "cpu" => Range(devices') = Addresses("cpu")
        BY <4>1, AddressFacts, ListingFacts DEF Core, Driver
      <4>3. QED BY <1>0, <1>2, <3>1, <4>1, <4>2 DEF FirstCpu
    <3>3. CASE NextOne
      <4>1. base = <<>> /\ "cpu" \in Range(todo) /\ "cpu" \notin Range(todo') => <<>> \in DOMAIN cpus
        <5>1. todo = <<"pci">> => "cpu" \notin Range(todo)
          BY DEF Range
        <5>2. todo = <<"cpu">> \/ todo = <<"pci">> \/ todo = <<"cpu", "pci">>
          BY <3>3 DEF NextOne, Core, Control
        <5>3. Range(devices) # Addresses("cpu")
          <6>1. Range(devices) = {}
            BY <3>3 DEF NextOne, Range
          <6>2. Addresses("cpu") # {}
            BY MachineAssumption DEF Core, RulesOK, Addresses
          <6>3. QED BY <6>1, <6>2
        <5>4. QED BY <3>3, <5>1, <5>2, <5>3 DEF NextOne, FirstCpu
      <4>2. QED BY <1>0, <1>2, <3>1, <3>3, <4>1 DEF FirstCpu, NextOne
    <3>4. CASE Advance
      <4>1. Head(todo) # "cpu"
        BY <1>2, <2>3, <3>4, CpuCloses
      <4>2. QED BY <1>0, <1>2, <3>1, <3>4, <4>1 DEF FirstCpu, Advance
    <3>5. CASE Stay
      BY <1>0, <1>2, <3>1, <3>5 DEF FirstCpu, Stay
    <3>6. QED BY <2>3, <3>2, <3>3, <3>4, <3>5, InsideKinds DEF Core
  <2>4. CASE Registering
    <3>1. pc' = "idle"
      BY <2>4 DEF Registering
    <3>2. QED BY <2>1, <3>1
  <2>5. CASE UNCHANGED vars
    BY <1>0, <1>2, <2>5 DEF vars, loopVars, FirstCpu
  <2>6. ASSUME NEW e \in {"ok"} \cup Error, Exit(e) PROVE pc' = "idle"
    BY <2>6 DEF Exit
  <2>7. QED BY <2>1, <2>2, <2>3, <2>4, <2>5, <2>6, Kinds DEF Core
<1>3. cpus' = cpus \/ (Closing /\ Head(todo) = "cpu")
  BY TreeChange DEF Still, treeVars, Opening, PartOpening, PartClosing, RevDefining, Closing
<1>4. QED BY <1>1, <1>2, <1>3

(* The revision of each K8.                                                *)
LEMMA RevsStep ==
  ASSUME Core, Core', Identified, ByRule, FirstCpu, Revs, [Next]_vars
  PROVE  Revs'
<1> USE DEF Running
<1>0. machine' = machine /\ Lowest' = Lowest
  <2>1. machine' = machine
    BY RulesChange DEF Core, Construct, RegisterClient, ruleVars
  <2>2. QED BY <2>1 DEF Lowest
<1>1. /\ pc # "idle" => base' = base /\ (scope # base => pc \in Running)
      /\ pc = "idle" /\ pc' # "idle" => base' = scope
      /\ pc = "idle" /\ pc' = "idle" => UNCHANGED <<scope, tree, cpus>>
  BY CallsGrow DEF Core, Where
<1>2. CASE Still
  <2>0. scope' = scope /\ tree' = tree
    BY <1>2 DEF Still, treeVars
  <2>1. CASE pc \notin Running /\ pc' \notin Running
    BY <1>0, <1>1, <2>0, <2>1 DEF Revs, Kind
  <2>2. ASSUME NEW e \in {"part", "read"}, Exit(e), pc \in Running PROVE Revs'
    <3>1. scope # <<>>
      <4>1. CASE pc = "body"
        <5>1. Front(<<>>) = <<>>
          BY DEF Front
        <5>2. QED BY <2>2, <4>1, <5>1, OwnFacts DEF Core, Own
      <4>2. CASE pc # "body"
        BY <2>2, <4>2, OwnFacts DEF Core, Own
      <4>3. QED BY <4>1, <4>2
    <3>2. QED BY <1>0, <2>0, <2>2, <3>1 DEF Revs, Kind, Exit
  <2>3. CASE UNCHANGED <<pc, base, devices, todo, callback, part, results, asked>>
    <3>1. Own' = Own
      BY <2>0, <2>3 DEF Own
    <3>2. QED BY <1>0, <2>0, <2>3, <3>1 DEF Revs, Kind
  <2>4. ASSUME NEW e \in {"part", "read"}, Exit(e) PROVE pc' \notin Running
    BY <2>4 DEF Exit
  <2>5. QED BY <1>2, <2>1, <2>2, <2>3, <2>4 DEF Still
<1>3. CASE Opening
  <2> DEFINE path == Append(scope, Element)
             rev  == IF callback = "k8_pci" THEN RevOfCpu0 ELSE "none"
  <2>1. /\ DOMAIN tree' = DOMAIN tree \cup {path} /\ scope' = path /\ base' = base
        /\ \A p \in DOMAIN tree : p # path => tree'[p] = tree[p]
        /\ tree'[path].device = Device /\ tree'[path].rev = rev
    BY <1>3 DEF Opening, Put
  <2>2. /\ callback = "k8_pci" => Kind(path) = "pci"
        /\ path # <<>>
    BY <1>3, ElementFacts DEF Opening, Core, Kind
  <2>3. rev # "none" => callback = "k8_pci" /\ rev = RevOf(machine.cpu[Lowest])
    <3>1. SUFFICES ASSUME callback = "k8_pci", RevOfCpu0 # "none"
                   PROVE  RevOfCpu0 = RevOf(machine.cpu[Lowest])
      OBVIOUS
    <3> DEFINE p == cpus[<<>>][1]
    <3>2. <<>> \in DOMAIN cpus /\ p \in DOMAIN tree /\ RevOfCpu0 = tree[p].rev
      BY <3>1 DEF RevOfCpu0
    <3>3. p = <<<<"cpu", Lowest>>>>
      BY <3>2 DEF FirstCpu
    <3>4. Last(p) = <<"cpu", Lowest>>
      BY <3>3 DEF Last
    <3> HIDE DEF p
    <3>5. Kind(p) = "cpu" /\ tree[p].device = Lowest
      BY <3>2, <3>4 DEF Kind, ByRule
    <3>6. QED BY <3>1, <3>2, <3>5 DEF Revs
  <2>4. CASE pc' = "part" /\ UNCHANGED <<callback, part>> /\ (callback = "k8_pci" => rev # "none")
    <3>1. Own' = path /\ part = 0
      BY <1>3, <2>1, <2>4 DEF Own, Opening, Core, Control
    <3> HIDE DEF path, rev
    <3>2. \A p \in DOMAIN tree' : Kind(p) = "cpu" /\ tree'[p].rev # "none"
             => tree'[p].rev = RevOf(machine.cpu[tree'[p].device])
      BY <2>1, <2>2, <2>3 DEF Revs
    <3>3. pc = "open"
      BY <1>3 DEF Opening
    <3>4. base = <<>> => \A p \in DOMAIN tree' :
            Kind(p) = "cpu" /\ HasRev(machine.cpu[tree'[p].device]) => tree'[p].rev # "none" \/ p = path
      BY <2>1, <3>3 DEF Revs
    <3>5. QED BY <1>0, <2>1, <2>3, <2>4, <3>1, <3>2, <3>4 DEF Revs, Kind
  <2>5. CASE pc' = "idle"
    <3> HIDE DEF path, rev
    <3>1. \A p \in DOMAIN tree' : Kind(p) = "cpu" /\ tree'[p].rev # "none"
             => tree'[p].rev = RevOf(machine.cpu[tree'[p].device])
      BY <2>1, <2>2, <2>3 DEF Revs
    <3>2. QED BY <1>0, <2>1, <2>2, <2>5, <3>1 DEF Revs, Kind
  <2>6. QED BY <1>3, <2>4, <2>5 DEF Opening, Exit
<1>4. CASE PartOpening
  <2>1. Device \in Nat /\ Parts(callback)[part + 1] \in ScopeName
    BY <1>4, DeviceIsListed, PartName DEF PartOpening, HasDevice, Calling, Control, Core
  <2>2. Front(scope') = scope
    BY <1>4, <2>1, PathAppend DEF PartOpening, Shape, Core
  <2>3. Own' = Own
    BY <1>4, <2>2 DEF Own, PartOpening
  <2>4. QED BY <1>0, <1>1, <1>4, <2>3 DEF Revs, Kind, PartOpening
<1>5. CASE PartClosing
  <2>1. Own' = Own
    BY <1>5 DEF Own, PartClosing
  <2>2. part \in Nat
    BY <1>5, PartsLength DEF Core, Control
  <2>3. QED BY <1>0, <1>1, <1>5, <2>1, <2>2 DEF Revs, Kind, PartClosing
<1>6. CASE RevDefining
  <2> DEFINE id  == machine.cpu[Device]
             rev == CASE Family(id) = 15 /\ Model(id) >= 64      -> "rev_f"
                      [] Family(id) = 15 /\ Model(id) \in 32..63 -> "rev_e"
                      [] OTHER                                   -> "unknown"
  <2>1. Own' = Own /\ Own = scope /\ scope \in DOMAIN tree
    BY <1>6, OwnFacts DEF Own, RevDefining, Core
  <2>2. /\ DOMAIN tree' = DOMAIN tree /\ \A p \in DOMAIN tree : tree'[p].device = tree[p].device
        /\ tree'[scope].rev = rev /\ \A p \in DOMAIN tree : p # scope => tree'[p] = tree[p]
    BY <1>6, <2>1 DEF RevDefining, Core, Shape
  <2>3. Head(todo) = "cpu" /\ callback = "k8_cpu" /\ Device \in Addresses("cpu")
    BY <1>6, DeviceIsListed DEF RevDefining, Core, Control, HasDevice, Calling
  <2>4. HasRev(id)
    BY <1>6, <2>3 DEF Identified, RevDefining, Calling, Expected
  <2>5. id \in CpuId
    BY <2>3, MachineAssumption DEF Core, RulesOK, Addresses
  <2> HIDE DEF id
  <2>6. rev = RevOf(id) /\ rev # "none"
    <3>1. RevOf(id) = "rev_f" \/ RevOf(id) = "rev_e"
      BY DEF RevOf
    <3>2. Family(id) = 15 /\ (RevOf(id) = "rev_f" => Model(id) >= 64)
          /\ (RevOf(id) # "rev_f" => Model(id) \in 32..63)
      BY <2>4, <2>5, CpuRules
    <3>3. QED BY <3>1, <3>2
  <2>7. tree[scope].device = Device
    BY <1>6, <2>1 DEF Core, Where, RevDefining
  <2> HIDE DEF rev
  <2>8. QED BY <1>0, <1>1, <1>6, <2>1, <2>2, <2>3, <2>6, <2>7 DEF Revs, Kind, RevDefining, id
<1>7. CASE Closing
  <2>1. Own = scope /\ Own \in DOMAIN tree /\ tree[Own].by = callback /\ tree[Own].device = Device
    BY <1>7, OwnFacts DEF Own, Closing, Core, Where
  <2>2. Kind(Own) = "cpu" /\ HasRev(machine.cpu[Device]) => tree[Own].rev # "none"
    <3>1. SUFFICES ASSUME Kind(Own) = "cpu", HasRev(machine.cpu[Device]) PROVE tree[Own].rev # "none"
      OBVIOUS
    <3>2. callback = "k8_cpu"
      BY <2>1, <3>1 DEF ByRule, Expected
    <3>3. part = 2
      BY <1>7, <3>2, PartsLength DEF Closing
    <3>4. QED BY <1>7, <3>2, <3>3 DEF Revs, Closing
  <2>3. QED BY <1>0, <1>1, <1>7, <2>1, <2>2 DEF Revs, Kind, Closing
<1>8. QED BY <1>2, <1>3, <1>4, <1>5, <1>6, <1>7, TreeChange

(* RevIsThere is kept: where k8_rev is not found, the first CPU has none.  *)
LEMMA RevThere ==
  ASSUME Core, ByRule, FirstCpu, Revs, RevIsThere, [Next]_vars
  PROVE  RevIsThere'
<1>0. machine' = machine /\ Lowest' = Lowest
  <2>1. machine' = machine
    BY RulesChange DEF Core, Construct, RegisterClient, ruleVars
  <2>2. QED BY <2>1 DEF Lowest
<1> SUFFICES ASSUME pc' = "idle", results' # <<>>, Last(results') = "no_rev", base' = <<>>,
                    Last(asked') = All \/ <<>> \in DOMAIN cpus'
             PROVE  ~HasRev(machine.cpu[Lowest])
  BY <1>0 DEF RevIsThere
<1>1. CASE pc = "idle"
  <2>1. UNCHANGED <<asked, results, base, cpus>>
    BY <1>1, CallsGrow DEF Core
  <2>2. QED BY <1>1, <2>1 DEF RevIsThere
<1>2. CASE pc # "idle"
  <2>1. pc = "open" /\ callback = "k8_pci" /\ RevOfCpu0 = "none" /\ cpus' = cpus
    <3>1. \A e \in {"ok"} \cup Error : results' = Append(results, e) => e = "no_rev"
      BY AppendFacts DEF Core, CallsOK
    <3>2. ~Enumerate /\ ~NextDevice /\ ~ReadCpuid /\ ~Match
      BY <1>2, <3>1 DEF Enumerate, NextDevice, ReadCpuid, Match, Done, Error
    <3>3. ~Pin /\ ~Restore /\ ~ReadConfig /\ ~OpenPart
      BY <1>2, <3>1 DEF Pin, Restore, ReadConfig, OpenPart, Throw, Abort, Error
    <3>4. ~ClosePart /\ ~DefineRev /\ ~Close
      BY <1>2, <3>1 DEF ClosePart, DefineRev, FailReading, Close, Done, Throw, Abort, Error
    <3>5. /\ ~(\E u \in unborn : Construct(u)) /\ ~(\E r \in ClientRule : RegisterClient(r))
          /\ ~(\E name \in {All} \cup Driver : Discover(name)) /\ ~(UNCHANGED vars)
      BY <1>2 DEF Construct, RegisterClient, Discover, vars
    <3>6. Open
      BY <3>2, <3>3, <3>4, <3>5 DEF Next
    <3>7. QED BY <1>2, <3>1, <3>6 DEF Open, Throw, Abort, Error, treeVars
  <2>2. base = <<>> /\ (Last(asked) = All \/ <<>> \in DOMAIN cpus)
    BY <1>2, <2>1, CallsGrow DEF Core
  <2>3. <<>> \in DOMAIN cpus
    <3>1. todo = <<"pci">>
      BY <2>1 DEF Core, Control, HasDevice, Calling, CallbackOf, NoOne
    <3>2. "cpu" \notin Range(todo)
      BY <3>1 DEF Range
    <3>3. QED BY <1>2, <2>2, <3>2 DEF FirstCpu
  <2> DEFINE p == cpus[<<>>][1]
  <2>4. p \in DOMAIN tree
    <3>1. cpus[<<>>] \in Seq(DOMAIN tree) /\ cpus[<<>>] # <<>>
      BY <2>3 DEF Core, Shape, FirstCpu
    <3>2. QED BY <3>1, EmptySeq, LenProperties, ElementOfSeq
  <2>5. p = <<<<"cpu", Lowest>>>> /\ tree[p].rev = "none"
    BY <2>1, <2>3, <2>4 DEF FirstCpu, RevOfCpu0
  <2>6. Last(p) = <<"cpu", Lowest>>
    BY <2>5 DEF Last
  <2> HIDE DEF p
  <2>7. Kind(p) = "cpu" /\ tree[p].device = Lowest
    BY <2>4, <2>6 DEF Kind, ByRule
  <2>8. QED BY <2>1, <2>2, <2>4, <2>5, <2>7 DEF Revs, Running
<1>3. QED BY <1>1, <1>2

(* The first CPU is cpu[0], and its revision is found where it has one.    *)
THEOREM RevsAreDefined == Spec => [](FirstCpu /\ Revs /\ RevIsThere)
<1>1. Init => FirstCpu /\ Revs /\ RevIsThere
  BY DEF Init, FirstCpu, Revs, RevIsThere, Looping, HasDevice, Calling, Running
<1>2. Core /\ Core' /\ Identified /\ ByRule /\ FirstCpu /\ Revs /\ RevIsThere /\ [Next]_vars
      => FirstCpu' /\ Revs' /\ RevIsThere'
  BY FirstCpuStep, RevsStep, RevThere
<1>3. QED BY <1>1, <1>2, CoreIsInvariant, DevicesAreIdentified, PTL DEF Spec

(* RevIsThere: k8_pci() finds k8_rev unless the first CPU has none.        *)
THEOREM RevIsFound == Spec => []RevIsThere
  BY RevsAreDefined, PTL

(* RevIsRight: registers are defined with the revision of their CPU.       *)
THEOREM RevsAreRight == Spec => []RevIsRight
<1>1. Core /\ ByRule /\ Revs => RevIsRight
  <2>1. SUFFICES ASSUME Core, ByRule, Revs, pc = "body" PROVE RevIsRight
    BY DEF RevIsRight
  <2>2. /\ Own = Front(scope) /\ Own \in DOMAIN tree /\ tree[Own].device = Device
        /\ callback = "k8_cpu" => Last(Own) = <<Head(todo), Device>>
    BY <2>1 DEF Own, Core, Where, Running
  <2>3. callback = "k8_cpu" => Head(todo) = "cpu"
    BY <2>1, DriverOfCall DEF Core, Driver, HasDevice, Calling, Running, Control, CallbackOf, NoOne
  <2>4. callback = "k8_cpu" /\ part = 1 => tree[Own].rev = RevOf(machine.cpu[Device])
    BY <2>1, <2>2, <2>3 DEF Revs, Kind
  <2>5. QED BY <2>1, <2>2, <2>4 DEF Revs, RevIsRight, Running
<1>2. QED BY <1>1, CoreIsInvariant, DevicesAreIdentified, RevsAreDefined, PTL
=============================================================================
