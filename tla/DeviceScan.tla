------------------------------ MODULE DeviceScan ------------------------------
(***************************************************************************)
(* A device file at work: the callback that discovery has found for a      *)
(* device runs its statements one by one, and each looks up or adds        *)
(* dirents where the open scopes are.  What the registers of the device    *)
(* hold decides the way.                                                   *)
(*                                                                         *)
(* FIELDs that follow each other and differ in nothing that is looked up   *)
(* are one statement, as are REGs and types.  An error ends the callback   *)
(* and leaves the scopes as they are.                                      *)
(***************************************************************************)
EXTENDS PciCode, K8Code

CONSTANTS
  Devices,       \* the devices: [code, arg, tree, hw]
  MaxStatements  \* bound on the statements of one callback

VARIABLES
  dev,        \* the device
  frames,     \* the open scopes
  todo,       \* the statements to come
  err,        \* what was thrown
  redefined,  \* the names that were defined again (a WARN of each)
  count       \* statements run

vars == <<dev, frames, todo, err, redefined, count>>

RootTypes == GlobalTypes \cup PciTypes \cup CpuidTypes \cup MsrTypes

(* The statements of a function of the device files.                       *)
Body(fn, arg) ==
  CASE fn \in PciSections -> PciBody(fn, arg)
    [] fn \in CpuSections -> CpuBody(fn, arg)
    [] fn \in K8Sections  -> K8Body(fn, arg)

(* What the device answers for a field: zeros, unless it says otherwise.   *)
Hw(k) == IF k \in DOMAIN dev.hw THEN dev.hw[k] ELSE 0

(* An array has a list of dirents, of one kind.                            *)
Listed(elems) == Len(elems) \in Nat /\ elems = [i \in 1..Len(elems) |-> elems[i]]
Uniform(node) ==
  node.kind = "array" =>
    /\ Listed(node.elems)
    /\ \A i \in DOMAIN node.elems : node.elems[i].kind = node.type

(* The devices that discovery calls a device file for, and what is in the  *)
(* tree already.                                                           *)
ASSUME DevicesAssumption ==
  \A d \in Devices :
    /\ d.code \in {"pci_discovered", "cpu_discovered", "k8_cpu", "k8_pci"}
    /\ \A n \in DOMAIN d.tree : Uniform(d.tree[n])
ASSUME StatementsAssumption == MaxStatements \in Nat

Root(tree) == [NewScope("", 0, FALSE) EXCEPT !.types = RootTypes, !.kids = tree]

Init ==
  /\ dev \in Devices
  /\ frames = <<Root(dev.tree)>>
  /\ todo = <<Call(dev.code, dev.arg)>>
  /\ err = "" /\ redefined = {} /\ count = 0

-----------------------------------------------------------------------------
Now(op) ==
  /\ todo # <<>> /\ Head(todo).op = op
  /\ count < MaxStatements /\ count' = count + 1
  /\ UNCHANGED dev
This       == Head(todo)
Go         == todo' = Tail(todo) /\ UNCHANGED err
Into(body) == todo' = body \o Tail(todo) /\ UNCHANGED <<frames, err, redefined>>
Fail(e)    == todo' = <<>> /\ err' = e /\ UNCHANGED <<frames, redefined>>

(* The new dirent of one or several names; of name[] it is an element.     *)
Define(names, next, node) ==
  IF next
  THEN LET n == CHOOSE x \in names : TRUE
       IN IF Accepts(frames, n, node)
          THEN frames' = PutNext(frames, n, node) /\ UNCHANGED redefined /\ Go
          ELSE Fail("ConversionError")
  ELSE /\ frames' = Put(frames, names, node)
       /\ redefined' = redefined \cup
            {Append(Path(frames), n) : n \in {x \in names : Has(frames, x)}}
       /\ Go

(* (Mutation of Opened: the tree gets the scope only when it is closed.)   *)
OpenedOnly(s, scope) == Append(frames, scope)
(* fkl_open_scope(): the scope is in the tree before its first dirent.     *)
Opened(s, scope) ==
  Append(IF s.next THEN PutNext(frames, s.name, scope)
         ELSE Put(frames, {s.name}, scope), scope)
OpenScope ==
  /\ Now("open")
  /\ LET s == This
         i == IF s.next THEN Count(frames, s.name) + 1 ELSE 0
         scope == NewScope(s.name, i, s.bound)
     IN IF s.next /\ ~Accepts(frames, s.name, scope) THEN Fail("ConversionError")
        ELSE /\ frames' = Opened(s, scope)
             /\ redefined' = redefined \cup
                  (IF ~s.next /\ Has(frames, s.name)
                   THEN {Append(Path(frames), s.name)} ELSE {})
             /\ Go

CloseScope ==
  /\ Now("close")
  /\ frames' = Leave(frames) /\ UNCHANGED redefined /\ Go

AddBookmark ==
  /\ Now("bookmark")
  /\ frames' = [frames EXCEPT ![Len(frames)].marks = @ \cup {This.name}]
  /\ UNCHANGED redefined /\ Go

AddDatatypes ==
  /\ Now("type")
  /\ frames' = [frames EXCEPT ![Len(frames)].types = @ \cup This.names]
  /\ UNCHANGED redefined /\ Go

(* fkl_reg(): some scope down to here must have a binding.                 *)
AddRegisters ==
  /\ Now("reg")
  /\ IF HasBinding(frames) THEN Define(This.names, This.next, Register(This.width))
     ELSE Fail("no binding")

(* fkl_field(): the type and every register must be found.                 *)
AddFields ==
  LET s == This
      Checked(errors) ==
        IF errors # {} THEN Fail(CHOOSE e \in errors : TRUE)
        ELSE IF \E t \in s.types : ~HasType(frames, t) THEN Fail("NULL datatype")
        ELSE Define(s.names, s.next,
                    Field(s.keys, IF s.from = "" THEN s.val ELSE Hw(s.from),
                          s.regs # {}))
  IN Now("field") /\ Checked(RegErrors(frames, s.regs))

(* What the statement looks up, an error of which is thrown.               *)
With(r, Then(_)) == IF r.err # "" THEN Fail(r.err) ELSE Then(r.node)
FieldAt(path)    == GetKind(frames, path, "field")
\* evaluate() gives a name; that of no value, <!n!>, may not be in a path
Named(labels, Then(_)) ==
  IF labels = {} THEN Fail("InvalidError") ELSE Then(CHOOSE k \in labels : TRUE)

(* BITS(register, bit), where the bit is not a constant of the file.       *)
TakeBit ==
  LET InRange(node) == IF This.bit >= node.width THEN Fail("range_error")
                       ELSE UNCHANGED <<frames, redefined>> /\ Go
  IN Now("bit") /\ With(GetKind(frames, This.reg, "register"), InRange)

(* fkl_alias(): the path is looked up and kept.                            *)
Link(name, r) ==
  IF r.err # "" THEN Fail(r.err) ELSE Define({name}, This.next, AliasTo(r.at))
AddAlias ==
  /\ Now("alias") /\ This.label = <<>>
  /\ Link(This.name, GetDirent(frames, This.to))

(* ... under a name made from an enumerated value.                         *)
AddNamedAlias ==
  LET To(name)   == Link(This.name \o name, GetDirent(frames, This.to))
      Name(node) == Named(Labels(node), To)
  IN Now("alias") /\ This.label # <<>> /\ With(FieldAt(This.label), Name)

-----------------------------------------------------------------------------
(* if, else if and the conditions of a loop; && and || ask for the second  *)
(* operand only when the first one has not decided.                        *)
Branch ==
  LET Decide(a) == CASE a = "TRUE"  -> Into(This.then)
                     [] a = "FALSE" -> Into(This.else)
                     [] OTHER       -> Fail(a)
  IN Now("if") /\ This.cond.is \notin {"and", "or", "not"}
     /\ Decide(Ask(frames, This.cond, dev.hw))

BranchAgain ==
  LET c == This.cond
      Instead(statement) == Into(<<statement>>)
  IN /\ Now("if")
     /\ \/ /\ c.is = "and"
           /\ Instead(If(c.a, <<If(c.b, This.then, This.else)>>, This.else))
        \/ /\ c.is = "or"
           /\ Instead(If(c.a, This.then, <<If(c.b, This.then, This.else)>>))
        \/ /\ c.is = "not"
           /\ Instead(If(c.a, This.else, This.then))

Switch ==
  LET Choose(hit)  == Into(IF hit = {} THEN This.else
                           ELSE This.alts[CHOOSE k \in hit : TRUE])
      Select(node) == IF ~(DOMAIN This.alts \subseteq DOMAIN node.keys)
                      THEN Fail("Datatype::InvalidError")
                      ELSE Choose(DOMAIN This.alts \cap Labels(node))
  IN Now("case") /\ With(FieldAt(This.path), Select)

CallFunction ==
  /\ Now("call")
  /\ Into(Body(This.fn, This.arg))

(* READ() and what is done with the value; READ of a path made of a name.  *)
ReadValue ==
  LET Use(node) == IF node.val \in Nat THEN Into(<<Call(This.fn, node.val)>>)
                   ELSE Fail("not modelled")
  IN Now("callwith") /\ With(FieldAt(This.path), Use)

ReadDirent ==
  LET Ignore(node) == Into(<<>>)
      found        == OfKind(GetDirent(frames, This.path), {"field", "register"})
  IN Now("read") /\ With(found, Ignore)

ReadNamed ==
  LET Use(name)  == Into(<<Read(This.path \o <<name>> \o This.tail)>>)
      Name(node) == Named(Labels(node), Use)
  IN Now("readby") /\ With(FieldAt(This.label), Name)

(* The callback has returned or thrown; or the bound is reached.           *)
Done  == todo = <<>>
Ended == (Done \/ count = MaxStatements) /\ UNCHANGED vars

Next ==
  \/ OpenScope \/ CloseScope \/ AddBookmark \/ AddDatatypes \/ AddRegisters
  \/ AddFields \/ TakeBit \/ AddAlias \/ AddNamedAlias
  \/ Branch \/ BranchAgain \/ Switch \/ CallFunction
  \/ ReadValue \/ ReadDirent \/ ReadNamed
  \/ Ended

Spec     == Init /\ [][Next]_vars
(* The callback runs on until it returns: nothing else runs before, and    *)
(* no statement waits for anything.                                        *)
RunOn    == /\ todo # <<>> /\ count < MaxStatements
            /\ count' = count + 1
FairSpec == Spec /\ WF_count(RunOn)

-----------------------------------------------------------------------------
(* What the device is said to have, without its statements.                *)
Says(d, k) == IF k \in DOMAIN d.hw THEN d.hw[k] ELSE 0

(* The blocks of a list, up to the end of it or to one seen before.        *)
BlocksFrom(d, first, ends) ==
  LET Further(blocks, i) ==
        LET ptr == Says(d, "next@" \o ToString(Last(blocks)))
        IN IF ptr \in ends \/ ptr \in ToSet(blocks) THEN blocks ELSE Append(blocks, ptr)
  IN IF first \in ends THEN <<>>
     ELSE FoldLeft(Further, <<first>>, [i \in 1..Cardinality(DOMAIN d.hw) |-> i])
Closed(d, blocks, ends) ==
  blocks # <<>> => Says(d, "next@" \o ToString(Last(blocks))) \in ends
Ids(d, blocks) == [i \in DOMAIN blocks |-> Says(d, "id@" \o ToString(blocks[i]))]

IsPci(d)      == d.code = "pci_discovered"
HasHeader(d)  == Says(d, "hdrtype") \in {0, 1}    \* of a device or a bridge
CapBlocks(d)  == IF IsPci(d) /\ HasHeader(d) /\ Says(d, "caps") = 1
                 THEN BlocksFrom(d, Says(d, "capptr"), {0, 255}) ELSE <<>>
Caps(d)       == Ids(d, CapBlocks(d))
CapIds(d)     == ToSet(Caps(d))
ECapBlocks(d) == IF /\ CapIds(d) \cap {CapabilityKeys.pcix, CapabilityKeys.pcie} # {}
                    /\ Says(d, "extended") = 1 /\ Says(d, "header.100") = 1
                 THEN BlocksFrom(d, 256, {0, 4095}) ELSE <<>>
ECaps(d)      == Ids(d, ECapBlocks(d))
Endless(d)    == \/ ~Closed(d, CapBlocks(d), {0, 255})
                 \/ ~Closed(d, ECapBlocks(d), {0, 4095})

(* The BARs of a device: one at each base address register, but where the  *)
(* one before is of 64 bits.  A memory BAR of the width 3 is of no size    *)
(* that PCI knows.                                                         *)
IsMemory(d, i, width) == /\ Says(d, "bar" \o ToString(i) \o ".type") = 0
                         /\ Says(d, "bar" \o ToString(i) \o ".width") = width
BarRegisters(d) == IF Says(d, "hdrtype") = 0 THEN 0..5 ELSE 0..1
BarsOf(d) ==
  CHOOSE bars \in SUBSET BarRegisters(d) :
    \A r \in BarRegisters(d) : r \in bars <=> ~(r - 1 \in bars /\ IsMemory(d, r - 1, 2))

(* The devices that the code cannot describe.                              *)
Trouble(d) ==
  \/ \E id \in CapIds(d) : \A k \in DOMAIN CapabilityKeys : CapabilityKeys[k] # id
  \/ \E id \in ToSet(ECaps(d)) :
       \A k \in DOMAIN ExtCapabilityKeys : ExtCapabilityKeys[k] # id
  \/ /\ CapabilityKeys.msi \in CapIds(d)
     /\ Says(d, "mask_per_vec") = 1 /\ Says(d, "multi_msg_cap") > 5
  \/ /\ CapabilityKeys.msix \in CapIds(d)
     /\ ~({Says(d, "table_bir"), Says(d, "pba_bir")} \subseteq BarsOf(d))
  \/ /\ ExtCapabilityKeys.aer \in ToSet(ECaps(d))
     /\ CapabilityKeys.pcie \notin CapIds(d)
  \/ /\ d.code = "k8_pci"
     /\ LET rev == LookUp(<<Root(d.tree)>>, <<"cpu", "[0]", "k8_rev">>, TRUE)
        IN rev.err # "" \/ rev.node.val = RevKeys.unknown
  \/ /\ d.code \in {"cpu_discovered", "k8_cpu"}
     /\ Says(d, "vendor") = VendorKeys.amd
     /\ Says(d, "largest_std_fn") = 0 /\ Says(d, "largest_ext_fn") > 0

-----------------------------------------------------------------------------
(* Every open scope is in the scope around it, under its name, and an      *)
(* array has dirents of one kind.                                          *)
TypeOK ==
  /\ count \in 0..MaxStatements
  /\ todo # <<>> => err = ""
  /\ \A k \in DOMAIN frames :
       /\ frames[k].kind = "scope"
       /\ \A n \in DOMAIN frames[k].kids : Uniform(frames[k].kids[n])
       /\ k > 1 =>
            LET up == frames[k - 1].kids
            IN /\ frames[k].name \in DOMAIN up
               /\ IF frames[k].index = 0
                  THEN up[frames[k].name].kind = "scope"
                  ELSE frames[k].index \in DOMAIN up[frames[k].name].elems

(* A device is described to its end, unless it is one of those that the    *)
(* code cannot describe: nothing else is ever asked for that is not there; *)
(* and no dirent takes the place of another, of which there would be a     *)
(* WARN.                                                                   *)
DescribedToTheEnd ==
  /\ Done => (err # "" <=> Trouble(dev))
  /\ redefined = {}

(* The scopes are closed at the end, those of a callback that returns: the *)
(* dirents of the next device go to the root again.                        *)
LeavesClean == Done /\ err = "" => Len(frames) = 1

(* "capability.msi[0]" and the like lead to the block of that type, in the *)
(* order of the list, whatever was added to the array of blocks since: the *)
(* [-1] of their path was the last one only then.                          *)
At(fs, n, i)     == LookUp(fs, <<dev.arg, n, Subscript(i - 1)>>, TRUE)
IdAt(fs, n, i)   == LookUp(fs, <<dev.arg, n, Subscript(i - 1), "id">>, TRUE)
NamedByType(fs, name, ids, keys) ==
  /\ \A i \in DOMAIN ids : IdAt(fs, name, i).node.val = ids[i]
  /\ \A k \in DOMAIN keys :
       LET these == SelectSeq([i \in DOMAIN ids |-> i], LAMBDA i : ids[i] = keys[k])
       IN \A i \in DOMAIN these :
            At(fs, name \o "." \o k, i).node = At(fs, name, these[i]).node
CapabilitiesNamed ==
  (Done /\ err = "" /\ IsPci(dev)) =>
    /\ NamedByType(frames, "capability", Caps(dev), CapabilityKeys)
    /\ NamedByType(frames, "ecapability", ECaps(dev), ExtCapabilityKeys)

(* The BARs of a device are described so that every base address register  *)
(* is part of exactly one, as its only or lower half or, behind one that   *)
(* has a "%upper", as the upper.  One register is part of two, the one     *)
(* behind a memory BAR of the reserved width 3: BAR() takes it for an      *)
(* upper half (generic_device.cc:40-45), create_device() for a BAR of its  *)
(* own (1552).                                                             *)
BarsArePartitioned ==
  (Done /\ err = "" /\ IsPci(dev)) =>
    LET Described(i, tail) ==
          LookUp(frames, <<dev.arg, "bar" \o ToString(i)>> \o tail, TRUE).err = ""
        PartOf(r) == {i \in 0..5 : \/ i = r /\ Described(i, <<>>)
                                   \/ i + 1 = r /\ Described(i, <<"%upper">>)}
    IN \A r \in BarRegisters(dev) :
         IF r - 1 \in PartOf(r - 1) /\ IsMemory(dev, r - 1, 3)
         THEN PartOf(r) = {r - 1, r} ELSE Cardinality(PartOf(r)) = 1

(* The callback comes to its end, unless a list of capabilities leads back *)
(* into itself.                                                            *)
Terminates == Endless(dev) \/ <>Done

(* "Return true if the field partially matches the value", FIELD_TEST: the *)
(* count of a CPU's logical processors is that of the register if the CPU  *)
(* has the feature "htt".                                                  *)
HttDecides ==
  (Done /\ err = "" /\ dev.code = "cpu_discovered" /\ Says(dev, "largest_std_fn") > 0) =>
    LET procs == LookUp(frames, <<dev.arg, "cpuid", "logical_proc_count">>, TRUE)
    IN procs.node.backed <=> (Says(dev, "std_features") \div 2^FeatureKeys.htt) % 2 = 1
===============================================================================
