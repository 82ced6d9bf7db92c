---------------------------- MODULE BindingProofs ----------------------------
(***************************************************************************)
(* The invariants of Binding, for any sizes, widths, offsets and contents, *)
(* and that it keeps the promise of a binding.  The strengthening says     *)
(* what the steps of a call have established for the steps behind them:    *)
(* the checks were passed, the file is positioned or mapped at the         *)
(* register.                                                               *)
(***************************************************************************)
EXTENDS Binding, TLAPS

(* Past the checks, the register is one of the binding.                    *)
Checked ==
  pc \in {"reopen", "seek", "map", "access"} =>
    /\ Valid
    /\ call.name = "write" => asked
    /\ pc # "reopen" /\ call.name = "write" => mode = "rw"
    /\ pc = "reopen" => call.name = "write"
    /\ pc = "seek" => ~Mapped
    /\ pc = "map" => Mapped

(* Past seek() or mmap(), the access is where the register is.             *)
Positioned ==
  pc = "access" =>
    IF Mapped
    THEN /\ call.off + call.width <= binding.limit
         /\ map = Mapping(binding.base + call.off)
    ELSE open[fd].pos = binding.base + call.off

IInv == TypeOK /\ OneDescriptor /\ ReadOnlyUntilWrite /\ Checked /\ Positioned

-----------------------------------------------------------------------------
(* Where an address lies with respect to pages, and that a mapping of it   *)
(* is long enough.                                                         *)
LEMMA PageProperties ==
  ASSUME NEW addr \in Nat
  PROVE  /\ addr % Page \in Nat /\ addr % Page < Page
         /\ addr - (addr % Page) \in Nat
         /\ (addr - (addr % Page)) % Page = 0
  BY MemoryAssumption

LEMMA RoundUpProperties ==
  ASSUME NEW n \in Nat
  PROVE  RoundUp(n) \in Nat /\ n <= RoundUp(n)
  BY MemoryAssumption DEF RoundUp

(* A remainder by something greater. *)
LEMMA SmallRemainder ==
  ASSUME NEW n \in Nat, NEW m \in Nat, n < m
  PROVE  n % m = n
  OBVIOUS

(* base % top and size % top, as the address classes compute them, for a   *)
(* region that ends within the space.                                      *)
LEMMA RegionProperties ==
  ASSUME NEW base \in Nat, NEW size \in Nat, NEW top \in Nat,
         base < top, base + size <= top
  PROVE  /\ base % top = base
         /\ size % top \in Nat
         /\ size % top <= size
  <1>1. base % top = base
    BY SmallRemainder
  <1>2. CASE size = top
    <2>1. size % top = 0
      BY <1>2
    <2>. QED
      BY <1>1, <2>1
  <1>3. CASE size < top
    BY <1>1, <1>3, SmallRemainder
  <1>. QED
    BY <1>2, <1>3

(* What the steps of a call need to know of a binding.                     *)
BindingOK(b) ==
  /\ b.kind \in {"io", "pci", "msr", "mem"}
  /\ b.base \in Nat /\ b.limit \in Nat /\ b.bound \in Nat
  /\ b.size \in Nat /\ b.readable \in Nat /\ b.readable <= b.size
  /\ b.widths \subseteq 1..MaxWidth
  /\ b.cells \subseteq Nat
  /\ b.kind # "mem" => b.cells = 0..(b.size - 1) /\ b.bound = b.limit
  /\ b.kind \in {"io", "msr"} => b.base + b.limit <= b.size /\ b.readable = b.size
  /\ b.kind = "mem" => b.base + b.limit <= MemTop

(* Every binding that its driver makes is of this kind.                    *)
LEMMA BindingProperties ==
  ASSUME NEW b \in Bindings
  PROVE  BindingOK(b)
  <1>1. CASE \E p \in (0..PortSpace) \X (0..PortSpace) :
               IoAccepts(p[1], p[2]) /\ b = IoBinding(p[1], p[2])
    <2>1. PICK p \in (0..PortSpace) \X (0..PortSpace) :
                 IoAccepts(p[1], p[2]) /\ b = IoBinding(p[1], p[2])
      BY <1>1
    <2>2. PICK base, size : base = p[1] /\ size = p[2]
      OBVIOUS
    <2>3. /\ base \in Nat /\ size \in Nat /\ PortSpace \in Nat \ {0}
          /\ base < PortSpace /\ base + size <= PortSpace
      BY <2>1, <2>2, SizeAssumption DEF IoAccepts
    <2>4. base % PortSpace = base /\ size % PortSpace \in Nat
          /\ size % PortSpace <= size
      BY <2>3, RegionProperties
    <2>5. /\ b.kind = "io" /\ b.base = base /\ b.limit = size % PortSpace
          /\ b.bound = size % PortSpace /\ b.widths = Width
          /\ b.cells = 0..(PortSpace - 1)
          /\ b.size = PortSpace /\ b.readable = PortSpace
      BY <2>1, <2>2, <2>4 DEF IoBinding
    <2>. QED
      BY <2>3, <2>4, <2>5, CallAssumption DEF BindingOK
  <1>2. CASE \E f \in ConfigFile : b = PciBinding(f)
    <2>1. PICK f \in ConfigFile : b = PciBinding(f)
      BY <1>2
    <2>2. f[1] \in Nat /\ f[2] \in Nat /\ f[2] <= f[1]
      BY SizeAssumption
    <2>. QED
      BY <2>1, <2>2, SizeAssumption, CallAssumption DEF PciBinding, BindingOK
  <1>3. CASE b = MsrBinding
    BY <1>3, SizeAssumption, CallAssumption DEF MsrBinding, BindingOK
  <1>4. CASE \E r \in MemRegion : b = MemBinding(r[1], r[2])
    <2>1. PICK r \in MemRegion : b = MemBinding(r[1], r[2])
      BY <1>4
    <2>2. PICK base, size : base = r[1] /\ size = r[2]
      OBVIOUS
    <2>3. /\ base \in Nat /\ size \in Nat /\ MemTop \in Nat \ {0}
          /\ base < MemTop /\ base + size <= MemTop
      BY <2>2, MemoryAssumption
    <2>4. base % MemTop = base /\ size % MemTop \in Nat /\ size % MemTop <= size
      BY <2>3, RegionProperties
    <2>5. Memory \subseteq Nat
      BY MemoryAssumption
    <2>. QED
      BY <2>1, <2>2, <2>3, <2>4, <2>5, CallAssumption DEF MemBinding, BindingOK
  <1>. QED
    BY <1>1, <1>2, <1>3, <1>4 DEF Bindings

-----------------------------------------------------------------------------
(* The invariant holds of a binding that was just made. *)
LEMMA InitEstablishes == Init => IInv
  <1>. SUFFICES ASSUME Init PROVE IInv
    OBVIOUS
  <1>1. open \in [{fd} -> [mode : {"r", "rw"}, pos : Nat]] /\ open[fd].mode = "r"
    BY DEF Init
  <1>2. NoMap \in [from : Nat, length : Nat, at : Nat, prot : {"none", "r", "rw"}]
    BY DEF NoMap
  <1>3. DOMAIN open = {fd} /\ fd \in Descriptor
    BY DEF Init, Descriptor
  <1>4. TypeOK
    BY <1>1, <1>2, <1>3 DEF Init, TypeOK
  <1>. QED
    BY <1>1, <1>3, <1>4 DEF Init, IInv, OneDescriptor, ReadOnlyUntilWrite, Checked, Positioned

(* What a call in progress is. *)
LEMMA CallProperties ==
  ASSUME IInv, pc # "idle"
  PROVE  /\ call \in Requests
         /\ call.name \in {"read", "write"}
         /\ call.off \in Int
         /\ call.width \in Width /\ call.width \in 1..MaxWidth
         /\ call.data \in [0..(MaxWidth - 1) -> Byte]
         /\ Count \in 1..call.width
  <1>1. call \in Requests
    BY DEF IInv, TypeOK
  <1>2. /\ call.name \in {"read", "write"} /\ call.off \in Int
        /\ call.width \in Width /\ call.width \in 1..MaxWidth
        /\ call.data \in [0..(MaxWidth - 1) -> Byte]
    BY <1>1, CallAssumption DEF Requests
  <1>3. Count \in 1..call.width
    BY <1>2, CallAssumption DEF Count
  <1>. QED
    BY <1>1, <1>2, <1>3

(* ... and one that has passed the checks. *)
LEMMA CheckedCallProperties ==
  ASSUME IInv, pc \in {"reopen", "seek", "map", "access"}
  PROVE  /\ call.off \in Nat
         /\ binding.base + call.off \in Nat
         /\ call.off + call.width <= binding.bound
  <1>1. Valid /\ call.off \in Int
    BY CallProperties DEF IInv, Checked
  <1>2. BindingOK(binding)
    BY BindingProperties DEF IInv, TypeOK
  <1>. QED
    BY <1>1, <1>2 DEF Valid, BindingOK

(* An ended call leaves the invariant, if the files are still in order.    *)
LEMMA EndCallPreserves ==
  ASSUME IInv, NEW r, EndCall(r),
         binding' = binding, content' \in [binding.cells -> Byte],
         DOMAIN open' = {fd'}, fd' \in Descriptor,
         open'[fd'] \in [mode : {"r", "rw"}, pos : Nat],
         open'[fd'].mode = mode',
         mode' = "rw" => asked',
         asked' \in BOOLEAN
  PROVE  IInv'
  <1>1. pc' = "idle" /\ call' = NoCall /\ map' = NoMap
    BY DEF EndCall
  <1>2. NoMap \in [from : Nat, length : Nat, at : Nat, prot : {"none", "r", "rw"}]
    BY DEF NoMap
  <1>3. mode' \in {"r", "rw"}
    OBVIOUS
  <1>4. TypeOK'
    BY <1>1, <1>2, <1>3 DEF IInv, TypeOK, NoCall
  <1>5. OneDescriptor' /\ ReadOnlyUntilWrite'
    BY DEF OneDescriptor, ReadOnlyUntilWrite
  <1>6. Checked' /\ Positioned'
    BY <1>1 DEF Checked, Positioned
  <1>. QED
    BY <1>4, <1>5, <1>6 DEF IInv

(* A descriptor that is repositioned keeps the files in order.             *)
LEMMA MovePreserves ==
  ASSUME IInv, NEW n \in Nat
  PROVE  LET moved == [open EXCEPT ![fd].pos = n] IN
         /\ DOMAIN moved = {fd} /\ fd \in Descriptor
         /\ moved[fd] = [mode |-> mode, pos |-> n]
         /\ moved[fd] \in [mode : {"r", "rw"}, pos : Nat]
  <1>1. /\ DOMAIN open = {fd} /\ open[fd].mode = mode /\ fd \in Descriptor
        /\ open[fd] \in [mode : {"r", "rw"}, pos : Nat]
    BY DEF IInv, TypeOK, OneDescriptor
  <1>. QED
    BY <1>1

(* How much of an access a file has. *)
LEMMA GotProperties ==
  ASSUME IInv, pc # "idle", NEW pos \in Nat, NEW n \in Nat
  PROVE  Got(pos, n) \in Nat /\ Got(pos, n) <= Count
  <1>1. Count \in Nat
    BY CallProperties
  <1>. QED
    BY <1>1 DEF Got

LEMMA StepPreserves == IInv /\ [Next]_vars => IInv'
  <1>. SUFFICES ASSUME IInv, [Next]_vars PROVE IInv'
    OBVIOUS
  <1>. USE DEF Descriptor
  <1>1. /\ binding \in Bindings /\ content \in [binding.cells -> Byte]
        /\ DOMAIN open = {fd} /\ fd \in Descriptor /\ open[fd].mode = mode
        /\ open[fd] \in [mode : {"r", "rw"}, pos : Nat]
        /\ (mode = "rw" => asked) /\ asked \in BOOLEAN
    BY DEF IInv, TypeOK, OneDescriptor, ReadOnlyUntilWrite
  <1>2. BindingOK(binding)
    BY <1>1, BindingProperties
  <1>3. ASSUME NEW c \in Requests, Begin(c) PROVE IInv'
    <2>1. TypeOK'
      BY <1>3 DEF IInv, TypeOK, Begin
    <2>2. OneDescriptor' /\ ReadOnlyUntilWrite' /\ Checked' /\ Positioned'
      BY <1>1, <1>3 DEF Begin, OneDescriptor, ReadOnlyUntilWrite, Checked, Positioned
    <2>. QED
      BY <2>1, <2>2 DEF IInv
  <1>4. CASE Check
    <2>1. CASE Valid /\ UNCHANGED <<map, call, reply>>
               /\ asked' = (asked \/ call.name = "write")
               /\ pc' = IF call.name = "write" /\ mode = "r" THEN "reopen" ELSE Access
      <3>1. pc' \in {"reopen", "seek", "map"} /\ asked' \in BOOLEAN
        BY <2>1, <1>1 DEF Access
      <3>2. TypeOK'
        BY <1>4, <2>1, <3>1 DEF IInv, TypeOK, Check
      <3>3. OneDescriptor' /\ ReadOnlyUntilWrite' /\ Positioned'
        BY <1>1, <1>4, <2>1, <3>1
        DEF Check, OneDescriptor, ReadOnlyUntilWrite, Positioned
      <3>4. Checked'
        <4>1. Valid' /\ (call'.name = "write" => asked')
          BY <1>4, <2>1 DEF Check, Valid
        <4>2. pc' # "reopen" /\ call'.name = "write" => mode' = "rw"
          BY <1>1, <1>4, <2>1 DEF Check, IInv, TypeOK
        <4>3. /\ pc' = "reopen" => call'.name = "write"
              /\ pc' = "seek" => ~Mapped'
              /\ pc' = "map" => Mapped'
          BY <1>4, <2>1 DEF Check, Access, Mapped
        <4>. QED
          BY <4>1, <4>2, <4>3 DEF Checked
      <3>. QED
        BY <3>2, <3>3, <3>4 DEF IInv
    <2>2. CASE EndCall(Error) /\ UNCHANGED asked
      BY <1>1, <1>4, <2>2, EndCallPreserves DEF Check
    <2>. QED
      BY <1>4, <2>1, <2>2 DEF Check
  <1>5. CASE Reopen
    <2>1. PICK new \in Descriptor \ DOMAIN open :
                 /\ open' = [f \in (DOMAIN open \ {fd}) \cup {new} |->
                               IF f = new THEN [mode |-> "rw", pos |-> 0] ELSE open[f]]
                 /\ fd' = new
      BY <1>5 DEF Reopen
    <2>2. /\ DOMAIN open' = {fd'} /\ fd' \in Descriptor
          /\ open'[fd'] = [mode |-> "rw", pos |-> 0]
          /\ mode' = "rw" /\ UNCHANGED <<binding, content, asked>>
      BY <1>1, <1>5, <2>1 DEF Reopen
    <2>3. call.name = "write" /\ asked
      BY <1>5 DEF Reopen, IInv, Checked
    <2>4. CASE pc' = Access /\ UNCHANGED <<map, call, reply>>
      <3>1. TypeOK'
        BY <1>1, <2>2, <2>4, <1>5 DEF IInv, TypeOK, Access, Reopen
      <3>2. OneDescriptor' /\ ReadOnlyUntilWrite' /\ Positioned'
        BY <2>2, <2>3, <2>4 DEF OneDescriptor, ReadOnlyUntilWrite, Positioned, Access
      <3>3. Checked'
        <4>1. Valid
          BY <1>5 DEF Reopen, IInv, Checked
        <4>. QED
          BY <4>1, <2>2, <2>3, <2>4 DEF Checked, Valid, Access, Mapped
      <3>. QED
        BY <3>1, <3>2, <3>3 DEF IInv
    <2>5. CASE EndCall(Error)
      BY <1>1, <2>2, <2>3, <2>5, EndCallPreserves
    <2>. QED
      BY <1>5, <2>4, <2>5 DEF Reopen
  <1>6. CASE Seek
    <2>1. binding.base + call.off \in Nat
      BY <1>6, CheckedCallProperties DEF Seek
    <2>2. /\ DOMAIN open' = {fd'} /\ fd' \in Descriptor
          /\ open'[fd'] = [mode |-> mode, pos |-> binding.base + call.off]
          /\ open'[fd'] \in [mode : {"r", "rw"}, pos : Nat]
          /\ pc' = "access"
          /\ UNCHANGED <<binding, content, fd, mode, map, call, reply, asked>>
      BY <2>1, <1>6, MovePreserves DEF Seek
    <2>3. TypeOK'
      BY <1>1, <2>2, <1>6 DEF IInv, TypeOK, Seek
    <2>4. OneDescriptor' /\ ReadOnlyUntilWrite'
      BY <1>1, <2>2 DEF OneDescriptor, ReadOnlyUntilWrite
    <2>5. Checked' /\ Positioned'
      BY <2>2, <1>6 DEF Seek, IInv, Checked, Positioned, Valid, Mapped
    <2>. QED
      BY <2>3, <2>4, <2>5 DEF IInv
  <1>7. CASE Map
    <2>1. binding.base + call.off \in Nat /\ call.off \in Nat
          /\ call.width \in 1..MaxWidth /\ MaxWidth \in Nat
      BY <1>7, CheckedCallProperties, CallProperties, CallAssumption DEF Map
    <2>2. CASE /\ call.off + call.width <= binding.limit
               /\ map' = Mapping((binding.base + call.off) % MemTop)
               /\ pc' = "access"
               /\ UNCHANGED <<call, reply>>
      <3>1. Valid /\ Mapped /\ (call.name = "write" => asked /\ mode = "rw")
        BY <1>7 DEF Map, IInv, Checked
      <3>2. (binding.base + call.off) % MemTop = binding.base + call.off
        <4>1. binding.base + call.off < MemTop /\ MemTop \in Nat
          BY <1>2, <2>1, <2>2, <3>1, MemoryAssumption DEF BindingOK, Mapped
        <4>. QED
          BY <4>1, <2>1, SmallRemainder
      <3>3. map' = Mapping(binding.base + call.off)
        BY <2>2, <3>2
      <3>4. map' \in [from : Nat, length : Nat, at : Nat, prot : {"none", "r", "rw"}]
        <4>1. call.width \in Nat /\ Page \in Nat
          BY <2>1, MemoryAssumption
        <4>2. Page + RoundUp(call.width) \in Nat
          BY <4>1, RoundUpProperties
        <4>. QED
          BY <1>1, <2>1, <3>3, <4>2, PageProperties DEF Mapping
      <3>5. TypeOK'
        BY <1>7, <2>2, <3>4 DEF IInv, TypeOK, Map
      <3>6. OneDescriptor' /\ ReadOnlyUntilWrite'
        BY <1>1, <1>7 DEF Map, OneDescriptor, ReadOnlyUntilWrite
      <3>7. Checked' /\ Positioned'
        BY <1>7, <2>2, <3>1, <3>3
        DEF Map, Checked, Positioned, Valid, Mapped, Mapping, RoundUp
      <3>. QED
        BY <3>5, <3>6, <3>7 DEF IInv
    <2>3. CASE EndCall(Error)
      BY <1>1, <1>7, <2>3, EndCallPreserves DEF Map
    <2>. QED
      BY <1>7, <2>2, <2>3 DEF Map
  <1>8. CASE Read
    <2>1. PICK pos, got : /\ pos = open[fd].pos
                          /\ got \in 0..Got(pos, binding.readable)
                          /\ open' = [open EXCEPT ![fd].pos = pos + got]
                          /\ \E r : EndCall(r)
      BY <1>8 DEF Read, EndAccess
    <2>2. pos + got \in Nat
      BY <1>1, <1>2, <1>8, <2>1, GotProperties DEF Read, BindingOK
    <2>. QED
      BY <1>1, <1>8, <2>1, <2>2, MovePreserves, EndCallPreserves DEF Read
  <1>9. CASE Write
    <2>1. PICK pos, got : /\ pos = open[fd].pos
                          /\ got \in 0..Got(pos, binding.size)
                          /\ open' = [open EXCEPT ![fd].pos = pos + got]
                          /\ content' = [a \in DOMAIN content |->
                                           IF a \in pos..(pos + got - 1)
                                           THEN call.data[a - pos] ELSE content[a]]
                          /\ EndAccess(got, Done)
      BY <1>9 DEF Write
    <2>2. pos \in Nat /\ got \in Nat /\ got <= Count /\ pos + got \in Nat
      <3>1. pos \in Nat /\ binding.size \in Nat /\ Count \in Nat
        BY <1>1, <1>2, <1>9, <2>1, CallProperties DEF Write, BindingOK
      <3>2. Got(pos, binding.size) \in Nat /\ Got(pos, binding.size) <= Count
        BY <3>1, <1>9, GotProperties DEF Write
      <3>. QED
        BY <2>1, <3>1, <3>2
    <2>3. content' \in [binding.cells -> Byte]
      <3>1. call.data \in [0..(MaxWidth - 1) -> Byte] /\ Count \in 1..call.width
            /\ call.width \in 1..MaxWidth /\ MaxWidth \in Nat
        BY <1>9, CallProperties, CallAssumption DEF Write
      <3>2. ASSUME NEW a \in binding.cells, a \in pos..(pos + got - 1)
            PROVE  call.data[a - pos] \in Byte
        <4>1. Count <= MaxWidth /\ Count \in Nat /\ MaxWidth \in Nat
          BY <3>1
        <4>2. a - pos \in 0..(MaxWidth - 1)
          BY <2>2, <3>2, <4>1
        <4>. QED
          BY <3>1, <4>2
      <3>. QED
        BY <1>1, <2>1, <3>2
    <2>4. PICK r : EndCall(r)
      BY <2>1 DEF EndAccess
    <2>. QED
      BY <1>1, <1>9, <2>1, <2>2, <2>3, <2>4, MovePreserves, EndCallPreserves DEF Write
  <1>10. CASE Load
    <2>1. PICK r : EndCall(r)
      BY <1>10 DEF Load, EndMapped
    <2>. QED
      BY <1>1, <1>10, <2>1, EndCallPreserves DEF Load
  <1>11. CASE Store
    <2>1. content' \in [binding.cells -> Byte]
      <3>1. call.data \in [0..(MaxWidth - 1) -> Byte] /\ Count \in 1..call.width
            /\ call.width \in 1..MaxWidth /\ MaxWidth \in Nat
        BY <1>11, CallProperties, CallAssumption DEF Store
      <3>2. Pointer \in Nat
        BY DEF Pointer, IInv, TypeOK
      <3>3. ASSUME NEW a \in binding.cells, a \in Pointer..(Pointer + Count - 1)
            PROVE  call.data[a - Pointer] \in Byte
        <4>1. a - Pointer \in 0..(MaxWidth - 1)
          BY <3>1, <3>2, <3>3
        <4>. QED
          BY <3>1, <4>1
      <3>. QED
        BY <1>1, <1>11, <3>3 DEF Store
    <2>2. PICK r : EndCall(r)
      BY <1>11 DEF Store, EndMapped
    <2>. QED
      BY <1>1, <1>11, <2>1, <2>2, EndCallPreserves DEF Store
  <1>12. CASE Throw
    BY <1>1, <1>12, EndCallPreserves DEF Throw
  <1>13. CASE Device
    <2>1. PICK a \in DOMAIN content, v \in Byte : content' = [content EXCEPT ![a] = v]
      BY <1>13 DEF Device
    <2>2. content' \in [binding.cells -> Byte]
      BY <1>1, <2>1
    <2>3. TypeOK'
      BY <1>13, <2>2 DEF IInv, TypeOK, Device
    <2>4. OneDescriptor' /\ ReadOnlyUntilWrite'
      BY <1>1, <1>13 DEF Device, OneDescriptor, ReadOnlyUntilWrite
    <2>5. Checked' /\ Positioned'
      BY <1>13 DEF IInv, Device, Checked, Positioned, Valid, Mapped, Mapping, RoundUp
    <2>. QED
      BY <2>3, <2>4, <2>5 DEF IInv
  <1>14. CASE UNCHANGED vars
    <2>1. TypeOK' /\ OneDescriptor' /\ ReadOnlyUntilWrite'
      BY <1>14 DEF IInv, vars, TypeOK, OneDescriptor, ReadOnlyUntilWrite
    <2>2. Checked' /\ Positioned'
      BY <1>14 DEF IInv, vars, Checked, Positioned, Valid, Mapped, Mapping, RoundUp
    <2>. QED
      BY <2>1, <2>2 DEF IInv
  <1>. QED
    BY <1>3, <1>4, <1>5, <1>6, <1>7, <1>8, <1>9, <1>10, <1>11, <1>12, <1>13, <1>14 DEF Next

THEOREM BindingInvariant == Spec => []IInv
  BY InitEstablishes, StepPreserves, PTL DEF Spec

(* For any instance of the constants: the descriptor, the call and the     *)
(* mapping have their shapes.                                              *)
THEOREM BindingTypeCorrect == Spec => []TypeOK
  <1>1. IInv => TypeOK
    BY DEF IInv
  <1>. QED
    BY <1>1, BindingInvariant, PTL

(* However calls fail, one descriptor is open, the one used next.          *)
THEOREM NoDescriptorLeaks == Spec => []OneDescriptor
  <1>1. IInv => OneDescriptor
    BY DEF IInv
  <1>. QED
    BY <1>1, BindingInvariant, PTL

(* No device file is open for writing before a valid write was asked for.  *)
THEOREM ReadOnlyFirst == Spec => []ReadOnlyUntilWrite
  <1>1. IInv => ReadOnlyUntilWrite
    BY DEF IInv
  <1>. QED
    BY <1>1, BindingInvariant, PTL

(* Whatever the page size and the widths, an access lies in its mapping.   *)
THEOREM MappedAccessesDoNotFault == Spec => []NoFault
  <1>1. IInv => NoFault
    <2>. SUFFICES ASSUME IInv, pc = "access", Mapped PROVE NoFault
      BY DEF NoFault
    <2>1. map = Mapping(binding.base + call.off)
          /\ (call.name = "write" => mode = "rw")
      BY DEF IInv, Positioned, Checked
    <2>2. binding.base + call.off \in Nat /\ call.width \in 1..MaxWidth
          /\ MaxWidth \in Nat /\ Page \in Nat
      BY CheckedCallProperties, CallProperties, CallAssumption, MemoryAssumption
    <2>3. call.width <= RoundUp(call.width) /\ RoundUp(call.width) \in Nat
      BY <2>2, RoundUpProperties
    <2>4. map.from % Page = 0
      BY <2>1, <2>2, PageProperties DEF Mapping
    <2>5. map.at + call.width <= map.length
      <3>1. map.at \in Nat /\ map.at < Page
        BY <2>1, <2>2, PageProperties DEF Mapping
      <3>2. map.length = Page + RoundUp(call.width)
        BY <2>1 DEF Mapping
      <3>. QED
        BY <2>2, <2>3, <3>1, <3>2
    <2>6. call.name = "write" => map.prot = "rw"
      BY <2>1 DEF Mapping
    <2>. QED
      BY <2>4, <2>5, <2>6 DEF NoFault
  <1>. QED
    BY <1>1, BindingInvariant, PTL

-----------------------------------------------------------------------------
(* The refinement: the calls of a binding, seen from outside.              *)

(* A call that ends has returned what the abstract call returns. *)
LEMMA EndSeen ==
  ASSUME IInv, pc # "idle", NEW r, EndCall(r), binding' = binding
  PROVE  /\ Asked # Promise!NoCall
         /\ Asked' = Promise!NoCall
         /\ reply' = r
         /\ Asked = [name |-> call.name, off |-> call.off, data |-> call.data,
                     count |-> Count]
  <1>1. call.name \in {"read", "write"}
    BY CallProperties
  <1>2. Asked = [name |-> call.name, off |-> call.off, data |-> call.data,
                 count |-> Count]
    BY DEF Asked
  <1>3. Asked.name = call.name /\ Promise!NoCall.name = "none"
    BY <1>2 DEF Promise!NoCall
  <1>4. Asked' = Promise!NoCall
    BY DEF EndCall, Asked, NoCall, Promise!NoCall
  <1>. QED
    BY <1>1, <1>2, <1>3, <1>4 DEF EndCall

(* The space changes only with the contents. *)
LEMMA SpaceSeen ==
  ASSUME binding' = binding, content' = content
  PROVE  Space' = Space
  BY DEF Space

(* A call that fails before the access has done nothing. *)
LEMMA FailureSeen ==
  ASSUME IInv, pc # "idle", EndCall(Error), binding' = binding, content' = content
  PROVE  Promise!Fail
  BY EndSeen, SpaceSeen DEF Promise!Fail, Error, Promise!Error

(* A step within a call is none from outside. *)
LEMMA NothingSeen ==
  ASSUME pc # "idle", pc' # "idle", UNCHANGED <<binding, content, call, reply>>
  PROVE  UNCHANGED Promise!vars
  <1>1. Asked' = Asked
    BY DEF Asked, Count
  <1>. QED
    BY <1>1, SpaceSeen DEF Promise!vars

(* Where the access goes is where the register is. *)
LEMMA AccessProperties ==
  ASSUME IInv, pc = "access"
  PROVE  /\ ~Mapped => open[fd].pos = binding.base + call.off
         /\ Mapped => Pointer = binding.base + call.off
         /\ call.off \in Nat /\ Count \in 1..call.width /\ call.width \in Nat
         /\ call.off + call.width <= binding.limit
         /\ DOMAIN Space = 0..(binding.limit - 1)
         /\ \A k \in 0..(Count - 1) :
              /\ call.off + k \in DOMAIN Space
              /\ Space[call.off + k] =
                   IF binding.base + (call.off + k) \in DOMAIN content
                   THEN content[binding.base + (call.off + k)] ELSE Absent
  <1>1. BindingOK(binding)
    BY BindingProperties DEF IInv, TypeOK
  <1>2. call.off \in Nat /\ binding.base + call.off \in Nat
        /\ call.off + call.width <= binding.bound
    BY CheckedCallProperties
  <1>3. Count \in 1..call.width /\ call.width \in Nat
    BY CallProperties, CallAssumption
  <1>4. ASSUME Mapped PROVE Pointer = binding.base + call.off
    <2>1. map = Mapping(binding.base + call.off)
      BY <1>4 DEF IInv, Positioned
    <2>2. map.from = (binding.base + call.off) - ((binding.base + call.off) % Page)
          /\ map.at = (binding.base + call.off) % Page
      BY <2>1 DEF Mapping
    <2>. QED
      BY <1>2, <2>2, PageProperties DEF Pointer
  <1>5. call.off + call.width <= binding.limit
    BY <1>1, <1>2 DEF IInv, Positioned, Mapped, BindingOK
  <1>6. ~Mapped => open[fd].pos = binding.base + call.off
    BY DEF IInv, Positioned
  <1>7. DOMAIN Space = 0..(binding.limit - 1)
    BY DEF Space
  <1>8. ASSUME NEW k \in 0..(Count - 1)
        PROVE  /\ call.off + k \in DOMAIN Space
               /\ Space[call.off + k] =
                    IF binding.base + (call.off + k) \in DOMAIN content
                    THEN content[binding.base + (call.off + k)] ELSE Absent
    <2>1. k \in Nat /\ k < call.width
      BY <1>3
    <2>2. binding.limit \in Nat
      BY <1>1 DEF BindingOK
    <2>3. call.off + k \in 0..(binding.limit - 1)
      BY <1>2, <1>3, <1>5, <2>1, <2>2
    <2>. QED
      BY <1>7, <2>3 DEF Space
  <1>. QED
    BY <1>2, <1>3, <1>4, <1>5, <1>6, <1>7, <1>8

(* A call that is under way is for cells of the space.                     *)
LEMMA CellsInSpace ==
  ASSUME IInv, pc = "access", Asked.off = call.off, Asked.count = Count
  PROVE  Promise!Cells(Asked) \subseteq DOMAIN Space
  <1>1. /\ call.off \in Nat /\ Count \in 1..call.width /\ call.width \in Nat
        /\ \A k \in 0..(Count - 1) : call.off + k \in DOMAIN Space
    BY AccessProperties
  <1>2. ASSUME NEW a \in Promise!Cells(Asked) PROVE a \in DOMAIN Space
    <2>1. a \in call.off..(call.off + Count - 1)
      BY <1>2 DEF Promise!Cells
    <2>2. a - call.off \in 0..(Count - 1) /\ a = call.off + (a - call.off)
      BY <1>1, <2>1
    <2>. QED
      BY <1>1, <2>2
  <1>. QED
    BY <1>2

(* A write of some cells, with none from there up to the k-th, writes the  *)
(* first k of what was asked.                                              *)
LEMMA WrittenSeen ==
  ASSUME IInv, pc = "access", call.name = "write", NEW r, EndCall(r),
         binding' = binding,
         NEW at \in Nat, NEW got \in Nat, NEW n \in Nat, got <= n, n <= Count,
         at = binding.base + call.off,
         content' = [a \in DOMAIN content |->
                      IF a \in at..(at + got - 1) THEN call.data[a - at] ELSE content[a]],
         \A a \in DOMAIN content : a < at + n => a < at + got
  PROVE  Space' = Promise!Written(n)
  <1>1. /\ content \in [binding.cells -> Byte] /\ BindingOK(binding)
    BY BindingProperties DEF IInv, TypeOK
  <1>2. /\ call.off \in Nat /\ Count \in Nat /\ binding.base \in Nat
        /\ call.off + Count <= binding.limit /\ binding.limit \in Nat
        /\ DOMAIN content \subseteq Nat /\ DOMAIN content' = DOMAIN content
    <2>1. /\ call.off \in Nat /\ Count \in 1..call.width /\ call.width \in Nat
          /\ call.off + call.width <= binding.limit
      BY AccessProperties
    <2>2. binding.base \in Nat /\ binding.limit \in Nat /\ binding.cells \subseteq Nat
      BY <1>1 DEF BindingOK
    <2>3. DOMAIN content = binding.cells /\ DOMAIN content' = DOMAIN content
      BY <1>1
    <2>. QED
      BY <2>1, <2>2, <2>3
  <1>3. Asked.data = call.data /\ Asked.off = call.off
    BY EndSeen
  <1>4. DOMAIN Space = 0..(binding.limit - 1)
    BY DEF Space
  <1>5. ASSUME NEW a \in 0..(binding.limit - 1)
        PROVE  (IF binding.base + a \in DOMAIN content'
                THEN content'[binding.base + a] ELSE Absent)
                 = IF a \in call.off..(call.off + n - 1) /\ Space[a] # Absent
                   THEN call.data[a - call.off] ELSE Space[a]
    <2>1. PICK x \in Nat : x = binding.base + a
      BY <1>2
    <2>2. Space[a] = IF x \in DOMAIN content THEN content[x] ELSE Absent
      BY <2>1 DEF Space
    <2>3. CASE x \notin DOMAIN content
      BY <1>2, <2>1, <2>2, <2>3
    <2>4. CASE x \in DOMAIN content
      <3>1. Space[a] = content[x] /\ Space[a] # Absent
        BY <1>1, <2>2, <2>4, CellAssumption
      <3>2. content'[x] = IF x \in at..(at + got - 1) THEN call.data[x - at] ELSE content[x]
        BY <2>4
      <3>3. x - at = a - call.off
        BY <1>2, <2>1
      <3>4. x \in at..(at + got - 1) <=> a \in call.off..(call.off + n - 1)
        BY <1>2, <2>1, <2>4
      <3>. QED
        BY <1>2, <2>1, <2>4, <3>1, <3>2, <3>3, <3>4
    <2>. QED
      BY <2>3, <2>4
  <1>6. Space' = [a \in 0..(binding.limit - 1) |->
                    IF binding.base + a \in DOMAIN content'
                    THEN content'[binding.base + a] ELSE Absent]
    BY DEF Space
  <1>. QED
    BY <1>3, <1>4, <1>5, <1>6 DEF Promise!Written

(* ... which is all of it, or where a call that throws has come to.        *)
LEMMA WriteSeen ==
  ASSUME IInv, pc = "access", call.name = "write", binding' = binding,
         NEW at \in Nat, NEW got \in Nat, got <= Count,
         at = binding.base + call.off,
         content' = [a \in DOMAIN content |->
                      IF a \in at..(at + got - 1) THEN call.data[a - at] ELSE content[a]],
         \/ EndCall(Done) /\ \A a \in DOMAIN content : a < at + Count => a < at + got
         \/ EndCall(Error)
  PROVE  Promise!Write \/ Promise!Fail
  <1>1. PICK r : EndCall(r)
    OBVIOUS
  <1>2. /\ Asked # Promise!NoCall /\ Asked' = Promise!NoCall
        /\ Asked.name = "write" /\ Asked.off = call.off /\ Asked.count = Count
    BY <1>1, EndSeen
  <1>3. Promise!Cells(Asked) \subseteq DOMAIN Space
    BY <1>2, CellsInSpace
  <1>4. Count \in Nat
    BY CallProperties
  <1>5. CASE EndCall(Done) /\ \A a \in DOMAIN content : a < at + Count => a < at + got
    <2>1. Space' = Promise!Written(Asked.count)
      BY <1>2, <1>4, <1>5, WrittenSeen
    <2>2. reply' = Promise!Done
      BY <1>5 DEF EndCall, Done, Promise!Done
    <2>. QED
      BY <1>2, <1>3, <2>1, <2>2 DEF Promise!Write
  <1>6. CASE EndCall(Error)
    <2>1. reply' = Promise!Error
      BY <1>6 DEF EndCall, Error, Promise!Error
    <2>2. CASE got = 0
      <3>1. \A a \in DOMAIN content : a \notin at..(at + got - 1)
        BY <2>2
      <3>2. content' = [a \in DOMAIN content |-> content[a]]
        BY <3>1
      <3>3. content' = content
        BY <3>2 DEF IInv, TypeOK
      <3>. QED
        BY <1>6, <3>3, FailureSeen
    <2>3. CASE got \in 1..Count
      <3>1. Space' = Promise!Written(got)
        BY <1>1, <1>4, WrittenSeen
      <3>. QED
        BY <1>2, <1>3, <2>1, <2>3, <3>1 DEF Promise!Fail
    <2>. QED
      BY <1>4, <2>2, <2>3
  <1>. QED
    BY <1>5, <1>6

LEMMA StepRefines == IInv /\ [Next]_vars => [Promise!Next]_(Promise!vars)
  <1>. SUFFICES ASSUME IInv, [Next]_vars
                PROVE  Promise!Next \/ UNCHANGED Promise!vars
    OBVIOUS
  <1>1. /\ content \in [binding.cells -> Byte] /\ BindingOK(binding)
    BY BindingProperties DEF IInv, TypeOK
  <1>2. ASSUME NEW c \in Requests, Begin(c) PROVE Promise!Begin
    <2>1. Asked = Promise!NoCall
      BY <1>2 DEF Begin, Asked, NoCall, Promise!NoCall
    <2>2. Asked' # Promise!NoCall
      <3>1. c.name \in {"read", "write"}
        BY DEF Requests
      <3>2. Asked'.name = c.name /\ Promise!NoCall.name = "none"
        BY <1>2 DEF Begin, Asked, Promise!NoCall
      <3>. QED
        BY <3>1, <3>2
    <2>. QED
      BY <1>2, <2>1, <2>2, SpaceSeen DEF Begin, Promise!Begin, NoReply, Promise!NoReply
  <1>3. CASE Check
    BY <1>3, FailureSeen, NothingSeen DEF Check, Access, Promise!Next
  <1>4. CASE Reopen
    BY <1>4, FailureSeen, NothingSeen DEF Reopen, Access, Promise!Next
  <1>5. CASE Seek
    BY <1>5, NothingSeen DEF Seek
  <1>6. CASE Map
    BY <1>6, FailureSeen, NothingSeen DEF Map, Promise!Next
  <1>7. CASE Read
    <2>1. PICK pos, got :
                 /\ pos = open[fd].pos
                 /\ got \in 0..Got(pos, binding.readable)
                 /\ EndAccess(got, Data([k \in 0..(Count - 1) |->
                                           IF k < got THEN content[pos + k] ELSE Ones]))
      BY <1>7 DEF Read
    <2>2. /\ pos = binding.base + call.off /\ pos \in Nat /\ Count \in Nat
          /\ got \in Nat /\ got <= Count /\ got <= Got(pos, binding.readable)
          /\ Got(pos, binding.readable) \in Nat
      <3>1. pos = binding.base + call.off /\ pos \in Nat /\ Count \in Nat
        BY <1>7, <2>1, AccessProperties, CheckedCallProperties DEF Read
      <3>2. Got(pos, binding.readable) \in Nat /\ Got(pos, binding.readable) <= Count
        BY <1>1, <1>7, <3>1, GotProperties DEF Read, BindingOK
      <3>. QED
        BY <2>1, <3>1, <3>2
    <2>3. CASE EndCall(Error)
      BY <1>7, <2>3, FailureSeen DEF Read, Promise!Next
    <2>4. CASE ~Short(got) /\ ~EndCall(Error)
      <3>1. EndCall(Data([k \in 0..(Count - 1) |->
                            IF k < got THEN content[pos + k] ELSE Ones]))
        BY <2>1, <2>4 DEF EndAccess
      <3>2. ASSUME NEW k \in 0..(Count - 1)
            PROVE  Promise!Value(call.off + k) =
                     IF k < got THEN content[pos + k] ELSE Ones
        <4>1. binding.base + (call.off + k) = pos + k /\ pos + k \in Nat /\ k \in Nat
          <5>1. binding.base \in Nat /\ call.off \in Nat /\ k \in Nat
            BY <1>1, <1>7, <2>2, AccessProperties DEF Read, BindingOK
          <5>. QED
            BY <2>2, <5>1
        <4>2. Space[call.off + k] =
                IF pos + k \in DOMAIN content THEN content[pos + k] ELSE Absent
          BY <1>7, <4>1, AccessProperties DEF Read
        <4>3. DOMAIN content = 0..(binding.size - 1)
          BY <1>1, <1>7 DEF Read, Mapped, BindingOK
        <4>4. k < got => pos + k \in DOMAIN content
          BY <1>1, <2>1, <2>2, <4>1, <4>3 DEF Got, BindingOK
        <4>5. k >= got => pos + k \notin DOMAIN content
          <5>1. k >= got => got # Count
            BY <2>2, <4>1
          <5>2. k >= got => pos + got >= binding.size
            BY <2>1, <2>4, <5>1 DEF Short
          <5>. QED
            BY <1>1, <2>2, <4>1, <4>3, <5>2 DEF BindingOK
        <4>6. pos + k \in DOMAIN content => content[pos + k] # Absent
          BY <1>1, CellAssumption
        <4>. QED
          BY <2>2, <4>1, <4>2, <4>4, <4>5, <4>6 DEF Promise!Value
      <3>3. Asked.count = Count /\ Asked.off = call.off /\ Asked.name = "read"
        BY <1>7, EndSeen, <3>1 DEF Read
      <3>4. reply' = Promise!Data([k \in 0..(Asked.count - 1) |->
                                     Promise!Value(Asked.off + k)])
        BY <1>7, <3>1, <3>2, <3>3, EndSeen DEF Read, Data, Promise!Data
      <3>5. Promise!Cells(Asked) \subseteq DOMAIN Space
        <4>1. pc = "access" /\ Asked.off = call.off /\ Asked.count = Count
          BY <1>7, <3>3 DEF Read
        <4>. QED
          BY <4>1, CellsInSpace
      <3>6. /\ Asked # Promise!NoCall /\ Asked' = Promise!NoCall /\ Space' = Space
        BY <1>7, <3>1, EndSeen, SpaceSeen DEF Read
      <3>. QED
        BY <3>3, <3>4, <3>5, <3>6 DEF Promise!Read, Promise!Next
    <2>. QED
      BY <2>1, <2>3, <2>4 DEF EndAccess
  <1>8. CASE Write
    <2>1. PICK pos, got :
                 /\ pos = open[fd].pos
                 /\ got \in 0..Got(pos, binding.size)
                 /\ content' = [a \in DOMAIN content |->
                                  IF a \in pos..(pos + got - 1) THEN call.data[a - pos]
                                  ELSE content[a]]
                 /\ EndAccess(got, Done)
      BY <1>8 DEF Write
    <2>2. /\ pos = binding.base + call.off /\ pos \in Nat /\ Count \in Nat
          /\ got \in Nat /\ got <= Count
      <3>1. pos = binding.base + call.off /\ pos \in Nat /\ Count \in Nat
        BY <1>8, <2>1, AccessProperties, CheckedCallProperties DEF Write
      <3>2. Got(pos, binding.size) \in Nat /\ Got(pos, binding.size) <= Count
        BY <1>1, <1>8, <3>1, GotProperties DEF Write, BindingOK
      <3>. QED
        BY <2>1, <3>1, <3>2
    <2>3. DOMAIN content = 0..(binding.size - 1) /\ binding.size \in Nat
      BY <1>1, <1>8 DEF Write, Mapped, BindingOK
    <2>4. ~Short(got) => \A a \in DOMAIN content : a < pos + Count => a < pos + got
      <3>1. ~Short(got) => got = Count \/ pos + got >= binding.size
        BY <2>1 DEF Short
      <3>. QED
        BY <2>2, <2>3, <3>1
    <2>5. Promise!Write \/ Promise!Fail
      BY <1>8, <2>1, <2>2, <2>4, WriteSeen DEF Write, EndAccess
    <2>. QED
      BY <2>5 DEF Promise!Next
  <1>9. CASE Load
    <2>1. /\ Pointer = binding.base + call.off /\ Pointer \in Nat
          /\ call.off \in Nat /\ Count \in Nat
      BY <1>9, AccessProperties, CheckedCallProperties DEF Load
    <2>. SUFFICES ASSUME EndCall(Data([k \in 0..(Count - 1) |->
                                   IF Pointer + k \in DOMAIN content
                                   THEN content[Pointer + k] ELSE Ones]))
                  PROVE  Promise!Next
      BY <1>9, FailureSeen DEF Load, EndMapped, Promise!Next
    <2>2. EndCall(Data([k \in 0..(Count - 1) |->
                          IF Pointer + k \in DOMAIN content THEN content[Pointer + k]
                          ELSE Ones]))
      OBVIOUS
    <2>3. ASSUME NEW k \in 0..(Count - 1)
          PROVE  Promise!Value(call.off + k) =
                   IF Pointer + k \in DOMAIN content THEN content[Pointer + k] ELSE Ones
      <3>1. binding.base + (call.off + k) = Pointer + k
        BY <1>1, <2>1 DEF BindingOK
      <3>2. Space[call.off + k] =
              IF Pointer + k \in DOMAIN content THEN content[Pointer + k] ELSE Absent
        BY <1>9, <3>1, AccessProperties DEF Load
      <3>3. Pointer + k \in DOMAIN content => content[Pointer + k] # Absent
        BY <1>1, CellAssumption
      <3>. QED
        BY <3>2, <3>3 DEF Promise!Value
    <2>4. Asked.count = Count /\ Asked.off = call.off /\ Asked.name = "read"
      BY <1>9, <2>2, EndSeen DEF Load
    <2>5. reply' = Promise!Data([k \in 0..(Asked.count - 1) |->
                                   Promise!Value(Asked.off + k)])
      BY <1>9, <2>2, <2>3, <2>4, EndSeen DEF Load, Data, Promise!Data
    <2>6. Promise!Cells(Asked) \subseteq DOMAIN Space
      <3>1. pc = "access"
        BY <1>9 DEF Load
      <3>. QED
        BY <2>4, <3>1, CellsInSpace
    <2>7. Asked # Promise!NoCall /\ Asked' = Promise!NoCall /\ Space' = Space
      BY <1>9, <2>2, EndSeen, SpaceSeen DEF Load
    <2>. QED
      BY <2>4, <2>5, <2>6, <2>7 DEF Promise!Read, Promise!Next
  <1>10. CASE Store
    <2>1. /\ Pointer = binding.base + call.off /\ Pointer \in Nat /\ Count \in Nat
      BY <1>10, AccessProperties, CheckedCallProperties DEF Store
    <2>2. /\ content' = [a \in DOMAIN content |->
                           IF a \in Pointer..(Pointer + Count - 1)
                           THEN call.data[a - Pointer] ELSE content[a]]
          /\ EndCall(Done) \/ EndCall(Error)
          /\ pc = "access" /\ call.name = "write" /\ binding' = binding
      BY <1>10 DEF Store, EndMapped
    <2>3. Promise!Write \/ Promise!Fail
      <3>. HIDE DEF Pointer, Count, EndCall
      <3>1. Count <= Count
        BY <2>1
      <3>. QED
        BY <2>1, <2>2, <3>1, WriteSeen
    <2>. QED
      BY <2>3 DEF Promise!Next
  <1>11. CASE Throw
    BY <1>11, FailureSeen DEF Throw, Promise!Next
  <1>12. CASE Device
    <2>1. PICK x \in DOMAIN content, v \in Byte : content' = [content EXCEPT ![x] = v]
      BY <1>12 DEF Device
    <2>2. Asked' = Asked /\ reply' = reply
      BY <1>12 DEF Device, Asked, Count
    <2>3. CASE \E a \in 0..(binding.limit - 1) : binding.base + a = x
      <3>1. PICK a \in 0..(binding.limit - 1) : binding.base + a = x
        BY <2>3
      <3>2. Space[a] = content[x] /\ Space[a] # Absent
        BY <1>1, <2>1, <3>1, CellAssumption DEF Space
      <3>3. Space' = [Space EXCEPT ![a] = v]
        <4>1. ASSUME NEW b \in 0..(binding.limit - 1)
              PROVE  (IF binding.base + b \in DOMAIN content'
                      THEN content'[binding.base + b] ELSE Absent)
                       = IF b = a THEN v ELSE Space[b]
          <5>1. binding.base + b = x <=> b = a
            BY <1>1, <3>1 DEF BindingOK
          <5>. QED
            BY <2>1, <3>1, <5>1 DEF Space
        <4>2. Space' = [b \in 0..(binding.limit - 1) |->
                          IF binding.base + b \in DOMAIN content'
                          THEN content'[binding.base + b] ELSE Absent]
          BY <1>12 DEF Device, Space
        <4>3. DOMAIN Space = 0..(binding.limit - 1)
          BY DEF Space
        <4>. QED
          BY <4>1, <4>2, <4>3
      <3>4. a \in DOMAIN Space
        BY DEF Space
      <3>. QED
        BY <2>2, <3>2, <3>3, <3>4 DEF Promise!Change, Promise!Next
    <2>4. CASE ~\E a \in 0..(binding.limit - 1) : binding.base + a = x
      <3>1. Space' = Space
        BY <1>12, <2>1, <2>4 DEF Device, Space
      <3>. QED
        BY <2>2, <3>1 DEF Promise!vars
    <2>. QED
      BY <2>3, <2>4
  <1>13. CASE UNCHANGED vars
    <2>1. Asked' = Asked
      BY <1>13 DEF vars, Asked, Count
    <2>. QED
      BY <1>13, <2>1, SpaceSeen DEF vars, Promise!vars
  <1>. QED
    BY <1>2, <1>3, <1>4, <1>5, <1>6, <1>7, <1>8, <1>9, <1>10, <1>11, <1>12, <1>13
    DEF Next, Promise!Next

(* A binding promises what binding.h says, whatever class it is of: reads  *)
(* and writes of its registers and no others.  A call that throws, at any  *)
(* of its system calls, those behind the access included, has written the  *)
(* first so many cells of what it was to write, none or all of them among  *)
(* the possibilities, and nothing else.                                    *)
THEOREM BindingsKeepTheirPromise == Spec => KeepsPromise
  <1>1. Init => Promise!Init
    BY DEF Init, Promise!Init, Asked, NoCall, Promise!NoCall, NoReply, Promise!NoReply
  <1>. QED
    BY <1>1, BindingInvariant, StepRefines, PTL DEF Spec, KeepsPromise, Promise!Spec
=============================================================================
