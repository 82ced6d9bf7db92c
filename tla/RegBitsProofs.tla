---------------------------- MODULE RegBitsProofs ----------------------------
(***************************************************************************)
(* For any registers, widths, volatile bits and values: RegBits keeps to   *)
(* the bits it has, and a write() changes none but those it names, also    *)
(* when it throws half-way and while the device changes its own bits.      *)
(***************************************************************************)
EXTENDS RegBits, TLAPS

IInv == TypeOK /\ FetchedIsCurrent /\ Untouched

(* The values registers may hold, spelled out.                             *)
LEMMA ContentsIs ==
  ASSUME NEW v
  PROVE  v \in Contents <=>
           /\ v = [r \in Reg |-> v[r]]
           /\ \A r \in Reg : v[r] \subseteq BitsOf(r)
  BY DEF Contents

(* One register of several takes a new value.                              *)
LEMMA ContentsExcept ==
  ASSUME NEW v \in Contents, NEW r \in Reg, NEW s \in SUBSET BitsOf(r)
  PROVE  [v EXCEPT ![r] = s] \in Contents
  <1>. DEFINE w == [v EXCEPT ![r] = s]
  <1>1. v = [q \in Reg |-> v[q]] /\ \A q \in Reg : v[q] \subseteq BitsOf(q)
    BY ContentsIs
  <1>2. w = [q \in Reg |-> w[q]]
    BY <1>1
  <1>3. \A q \in Reg : w[q] = IF q = r THEN s ELSE v[q]
    BY <1>1
  <1>4. \A q \in Reg : w[q] \subseteq BitsOf(q)
    BY <1>1, <1>3
  <1>. QED
    BY <1>2, <1>4, ContentsIs

(* The bits of a range that init() accepts are those from lo to hi, and    *)
(* its register has them.                                                  *)
LEMMA SpanIsRange ==
  ASSUME NEW p \in Leaf, p.lo <= p.hi, p.hi < Width[p.reg]
  PROVE  /\ Span(p) = p.lo..p.hi
         /\ Span(p) \subseteq BitsOf(p.reg)
  <1>. /\ p.lo \in Nat /\ p.hi \in Nat /\ p.reg \in Reg
       /\ Width[p.reg] \in Nat \ {0}
    BY WidthAssumption DEF Leaf
  <1>1. ASSUME NEW b \in p.lo..p.hi PROVE b \in Span(p)
    <2>1. b - p.lo \in 0..(((p.hi - p.lo) + 1) - 1) /\ b = (b - p.lo) + p.lo
      BY <1>1
    <2>. QED
      BY <2>1 DEF Span, Shl, MASK, width
  <1>2. ASSUME NEW b \in Span(p) PROVE b \in p.lo..p.hi
    <2>1. PICK c \in 0..(((p.hi - p.lo) + 1) - 1) : b = c + p.lo
      BY <1>2 DEF Span, Shl, MASK, width
    <2>. QED
      BY <2>1
  <1>3. p.lo..p.hi \subseteq BitsOf(p.reg)
    BY DEF BitsOf
  <1>. QED
    BY <1>1, <1>2, <1>3

(* A leaf of the RegBits, spelled out.                                     *)
LEMMA LeafOfBits ==
  ASSUME TypeOK, NEW k \in 1..Len(bits)
  PROVE  /\ bits[k] \in Leaf
         /\ bits[k].reg \in Reg /\ bits[k].lo \in Nat /\ bits[k].hi \in Nat
         /\ bits[k].lo <= bits[k].hi /\ bits[k].hi < Width[bits[k].reg]
         /\ width(bits[k]) \in Nat
  <1>1. bits[k] \in Leaf
    BY DEF TypeOK
  <1>2. bits[k].reg \in Reg /\ bits[k].lo \in Nat /\ bits[k].hi \in Nat
    BY <1>1 DEF Leaf
  <1>3. bits[k].lo <= bits[k].hi /\ bits[k].hi < Width[bits[k].reg]
    BY DEF TypeOK
  <1>4. width(bits[k]) \in Nat
    BY <1>2, <1>3 DEF width
  <1>. QED
    BY <1>1, <1>2, <1>3, <1>4

(* The width of the first leaves is a number.                              *)
LEMMA EndIsNat ==
  ASSUME TypeOK, NEW k \in 0..Len(bits)
  PROVE  End(k) \in Nat
  BY LeafOfBits DEF End, Leaf

(* What write() of a range stores differs from what it has fetched only    *)
(* within the range, whatever the caller's value.                          *)
LEMMA MergeProperties ==
  ASSUME NEW p, NEW old, NEW v
  PROVE  /\ Merge(p, old, v) \subseteq old \cup Span(p)
         /\ \A b : b \notin Span(p) => (b \in Merge(p, old, v) <=> b \in old)
  <1>1. Shl(v \cap MASK(width(p)), p.lo) \subseteq Span(p)
    BY DEF Shl, Span
  <1>. QED
    BY <1>1 DEF Merge

(* Shifting right keeps the type of a value.                               *)
LEMMA ShrIsValue ==
  ASSUME NEW v \in SUBSET Nat, NEW n \in Nat
  PROVE  Shr(v, n) \subseteq Nat
  BY DEF Shr

(* So does shifting left.                                                  *)
LEMMA ShlIsValue ==
  ASSUME NEW v \in SUBSET Nat, NEW n \in Nat
  PROVE  Shl(v, n) \subseteq Nat
  BY DEF Shl

(* No call is under way at first.                                          *)
LEMMA InitIInv == Init => IInv
  <1>. SUFFICES ASSUME Init PROVE IInv
    OBVIOUS
  <1>1. Nothing \in Contents
    BY ContentsIs DEF Nothing
  <1>2. TypeOK
    BY <1>1 DEF Init, TypeOK
  <1>. QED
    BY <1>2 DEF Init, IInv, FetchedIsCurrent, Untouched

(* A call that ends, by returning or by an exception, leaves nothing over. *)
LEMMA EndCallKeepsIInv == IInv /\ EndCall => IInv'
  <1>. SUFFICES ASSUME IInv, EndCall PROVE IInv'
    OBVIOUS
  <1>1. Nothing \in Contents
    BY ContentsIs DEF Nothing
  <1>2. TypeOK'
    BY <1>1 DEF IInv, TypeOK, EndCall
  <1>. QED
    BY <1>2 DEF EndCall, IInv, FetchedIsCurrent, Untouched

(* The store of write() changes the leaf it is at and nothing else.        *)
LEMMA WriteStoreKeepsIInv == IInv /\ WriteStore => IInv'
  <1>. SUFFICES ASSUME IInv, WriteStore PROVE IInv'
    OBVIOUS
  <1>. DEFINE p == bits[i]
              new == Merge(p, tmp, myval)
  <1>1. /\ pc = "store" /\ i \in 1..Len(bits)
        /\ value' = [value EXCEPT ![p.reg] = new]
        /\ myval' = Shr(myval, width(p))
        /\ i' = i - 1 /\ pc' = "fetch"
        /\ UNCHANGED <<bits, tmp, result, before, asked>>
    BY DEF WriteStore, IInv, TypeOK
  <1>2. /\ p \in Leaf /\ p.lo <= p.hi /\ p.hi < Width[p.reg]
        /\ p.reg \in Reg /\ p.lo \in Nat /\ p.hi \in Nat
        /\ tmp \subseteq BitsOf(p.reg)
    BY <1>1, LeafOfBits DEF IInv, TypeOK
  <1>3. new \subseteq BitsOf(p.reg)
    BY <1>2, SpanIsRange, MergeProperties
  <1>4. TypeOK'
    <2>1. value' \in Contents
      BY <1>1, <1>2, <1>3, ContentsExcept DEF IInv, TypeOK
    <2>2. myval' \subseteq Nat
      <3>1. width(p) \in Nat
        BY <1>1, LeafOfBits DEF IInv
      <3>. QED
        BY <1>1, <3>1, ShrIsValue DEF IInv, TypeOK
    <2>. QED
      BY <1>1, <2>1, <2>2 DEF IInv, TypeOK
  <1>5. FetchedIsCurrent'
    BY <1>1 DEF FetchedIsCurrent
  <1>6. Untouched'
    <2>. SUFFICES ASSUME NEW r \in Reg, NEW b \in BitsOf(r) \ Volatile[r],
                         \A k \in (i' + 1)..Len(bits) : ~Names(k, r, b)
                  PROVE  b \in value'[r] <=> b \in before[r]
      BY <1>1 DEF Untouched, Names
    <2>1. i \in (i' + 1)..Len(bits) /\ \A k \in (i + 1)..Len(bits) : k \in (i' + 1)..Len(bits)
      BY <1>1
    <2>2. ~Names(i, r, b) /\ \A k \in (i + 1)..Len(bits) : ~Names(k, r, b)
      BY <2>1
    <2>3. b \in value[r] <=> b \in before[r]
      BY <1>1, <2>2 DEF IInv, Untouched
    <2>4. CASE r # p.reg
      <3>1. value'[r] = value[r]
        BY <1>1, <2>4, ContentsIs DEF IInv, TypeOK
      <3>. QED
        BY <2>3, <3>1
    <2>5. CASE r = p.reg
      <3>1. b \notin Span(p)
        BY <2>2, <2>5 DEF Names
      <3>2. value'[r] = new
        BY <1>1, <1>2, <2>5, ContentsIs DEF IInv, TypeOK
      <3>3. b \in new <=> b \in tmp
        BY <3>1, MergeProperties
      <3>4. b \in tmp <=> b \in value[r]
        BY <1>1, <2>5 DEF IInv, FetchedIsCurrent
      <3>. QED
        BY <2>3, <3>2, <3>3, <3>4
    <2>. QED
      BY <2>4, <2>5
  <1>. QED
    BY <1>4, <1>5, <1>6 DEF IInv

(* A change the device makes is none to the bits that are not its own.     *)
LEMMA DeviceKeepsIInv ==
  ASSUME NEW r \in Reg, NEW b \in BitsOf(r), IInv, Device(r, b)
  PROVE  IInv'
  <1>. DEFINE new == IF b \in value[r] THEN value[r] \ {b} ELSE value[r] \cup {b}
  <1>1. /\ b \in Volatile[r]
        /\ value' = [value EXCEPT ![r] = new]
        /\ UNCHANGED <<bits, pc, i, tmp, myval, result, before, asked>>
    BY DEF Device, call
  <1>2. value \in Contents /\ value[r] \subseteq BitsOf(r)
    BY ContentsIs DEF IInv, TypeOK
  <1>3. value' \in Contents
    BY <1>1, <1>2, ContentsExcept
  <1>4. \A q \in Reg : \A c \in BitsOf(q) \ Volatile[q] :
          c \in value'[q] <=> c \in value[q]
    <2>. SUFFICES ASSUME NEW q \in Reg, NEW c \in BitsOf(q) \ Volatile[q]
                  PROVE  c \in value'[q] <=> c \in value[q]
      OBVIOUS
    <2>1. value'[q] = IF q = r THEN new ELSE value[q]
      BY <1>1, <1>2, ContentsIs
    <2>2. q = r => c # b
      BY <1>1
    <2>. QED
      BY <2>1, <2>2
  <1>5. TypeOK'
    BY <1>1, <1>3 DEF IInv, TypeOK
  <1>6. FetchedIsCurrent'
    <2>. SUFFICES ASSUME pc = "store",
                         NEW c \in BitsOf(bits[i].reg) \ Volatile[bits[i].reg]
                  PROVE  c \in tmp <=> c \in value'[bits[i].reg]
      BY <1>1 DEF FetchedIsCurrent
    <2>1. i \in 1..Len(bits)
      BY DEF IInv, TypeOK
    <2>2. bits[i].reg \in Reg
      BY <2>1, LeafOfBits DEF IInv
    <2>. QED
      BY <1>4, <2>2 DEF IInv, FetchedIsCurrent
  <1>7. Untouched'
    BY <1>1, <1>4 DEF IInv, Untouched, Names
  <1>. QED
    BY <1>5, <1>6, <1>7 DEF IInv

(* Every step keeps the invariant.                                         *)
LEMMA NextIInv == IInv /\ [Next]_vars => IInv'
  <1>. SUFFICES ASSUME IInv, [Next]_vars PROVE IInv'
    OBVIOUS
  <1>1. ASSUME NEW r \in Reg, NEW hi \in 0..Width[r], NEW lo \in 0..Width[r],
               Join(r, hi, lo)
        PROVE  IInv'
    <2>. DEFINE p == NewLeaf(r, hi, lo)
    <2>1. /\ pc = "idle" /\ lo <= hi /\ hi < Width[r]
          /\ bits' = Append(bits, p)
          /\ UNCHANGED <<value, pc, i, tmp, myval, result, before, asked>>
      BY <1>1 DEF Join, call
    <2>2. p \in Leaf /\ p.lo = lo /\ p.hi = hi /\ p.reg = r
      <3>1. End(Len(bits)) \in Nat
        BY EndIsNat DEF IInv
      <3>. QED
        BY <2>1, <3>1, WidthAssumption DEF Leaf, NewLeaf
    <2>. HIDE DEF p
    <2>3. /\ bits' \in Seq(Leaf) /\ Len(bits') = Len(bits) + 1
          /\ \A k \in 1..Len(bits) : bits'[k] = bits[k]
          /\ bits'[Len(bits) + 1] = p
      BY <2>1, <2>2 DEF IInv, TypeOK
    <2>4. \A k \in 1..Len(bits') :
            bits'[k].lo <= bits'[k].hi /\ bits'[k].hi < Width[bits'[k].reg]
      <3>. SUFFICES ASSUME NEW k \in 1..Len(bits')
                    PROVE  bits'[k].lo <= bits'[k].hi /\ bits'[k].hi < Width[bits'[k].reg]
        OBVIOUS
      <3>1. CASE k \in 1..Len(bits)
        BY <2>3, <3>1 DEF IInv, TypeOK
      <3>2. CASE k = Len(bits) + 1
        BY <2>1, <2>2, <2>3, <3>2
      <3>. QED
        BY <2>3, <3>1, <3>2
    <2>5. TypeOK'
      BY <2>1, <2>3, <2>4 DEF IInv, TypeOK
    <2>. QED
      BY <2>1, <2>5 DEF IInv, FetchedIsCurrent, Untouched
  <1>2. CASE Drop
    <2>1. TypeOK'
      BY <1>2 DEF Drop, call, IInv, TypeOK
    <2>. QED
      BY <1>2, <2>1 DEF Drop, call, IInv, FetchedIsCurrent, Untouched
  <1>3. CASE ReadBegin
    <2>1. TypeOK'
      BY <1>3 DEF ReadBegin, IInv, TypeOK
    <2>. QED
      BY <1>3, <2>1 DEF ReadBegin, IInv, FetchedIsCurrent, Untouched
  <1>4. CASE ReadPiece
    <2>. DEFINE p == bits[i]
    <2>1. i \in 1..Len(bits)
      BY <1>4 DEF ReadPiece, IInv, TypeOK
    <2>2. width(p) \in Nat
      BY <2>1, LeafOfBits DEF IInv
    <2>3. Shl(result, width(p)) \subseteq Nat
      BY <2>2, ShlIsValue DEF IInv, TypeOK
    <2>4. Extract(p, value[p.reg]) \subseteq Nat
      BY <2>2 DEF Extract, MASK
    <2>5. result' \subseteq Nat
      BY <1>4, <2>3, <2>4 DEF ReadPiece
    <2>6. TypeOK'
      BY <1>4, <2>1, <2>5 DEF ReadPiece, IInv, TypeOK
    <2>. QED
      BY <1>4, <2>6 DEF ReadPiece, IInv, FetchedIsCurrent, Untouched
  <1>5. CASE ReadEnd
    BY <1>5, EndCallKeepsIInv DEF ReadEnd
  <1>6. ASSUME NEW v \in Written, WriteBegin(v) PROVE IInv'
    <2>1. /\ pc' = "fetch" /\ i' = Len(bits) /\ myval' = v /\ asked' = v
          /\ before' = value
          /\ UNCHANGED <<value, bits, tmp, result>>
      BY <1>6 DEF WriteBegin
    <2>2. TypeOK'
      BY <2>1, WrittenAssumption DEF IInv, TypeOK
    <2>. QED
      BY <2>1, <2>2 DEF IInv, FetchedIsCurrent, Untouched
  <1>7. CASE WriteFetch
    <2>1. /\ pc = "fetch" /\ i \in 1..Len(bits)
          /\ tmp' = value[bits[i].reg] /\ pc' = "store"
          /\ UNCHANGED <<value, bits, i, myval, result, before, asked>>
      BY <1>7 DEF WriteFetch, IInv, TypeOK
    <2>2. tmp' \subseteq BitsOf(bits[i].reg) /\ tmp' \subseteq Nat
      <3>1. bits[i].reg \in Reg
        BY <2>1, LeafOfBits DEF IInv
      <3>2. BitsOf(bits[i].reg) \subseteq Nat
        BY DEF BitsOf
      <3>. QED
        BY <2>1, <3>1, <3>2, ContentsIs DEF IInv, TypeOK
    <2>3. TypeOK'
      BY <2>1, <2>2 DEF IInv, TypeOK
    <2>4. FetchedIsCurrent'
      BY <2>1 DEF FetchedIsCurrent
    <2>5. Untouched'
      BY <2>1 DEF IInv, Untouched, Names
    <2>. QED
      BY <2>3, <2>4, <2>5 DEF IInv
  <1>8. CASE WriteStore
    BY <1>8, WriteStoreKeepsIInv
  <1>9. CASE WriteEnd
    BY <1>9, EndCallKeepsIInv DEF WriteEnd
  <1>10. CASE IoError
    BY <1>10, EndCallKeepsIInv DEF IoError
  <1>11. ASSUME NEW r \in Reg, NEW b \in BitsOf(r), Device(r, b) PROVE IInv'
    BY <1>11, DeviceKeepsIInv
  <1>12. CASE UNCHANGED vars
    BY <1>12 DEF vars, call, IInv, TypeOK, FetchedIsCurrent, Untouched, Names
  <1>. QED
    BY <1>1, <1>2, <1>3, <1>4, <1>5, <1>6, <1>7, <1>8, <1>9, <1>10, <1>11, <1>12 DEF Next

(* Every leaf of every RegBits lies within its register, and no access     *)
(* gives a register bits it does not have.                                 *)
THEOREM RegBitsTypeCorrect == Spec => []TypeOK
  <1>1. IInv => TypeOK
    BY DEF IInv
  <1>. QED
    BY InitIInv, NextIInv, <1>1, PTL DEF Spec

(* While a write() runs, and so also where it throws, every bit that no    *)
(* leaf already written names is as it was when the write() began.         *)
THEOREM WriteLeavesTheRestAlone == Spec => []Untouched
  <1>1. IInv => Untouched
    BY DEF IInv
  <1>. QED
    BY InitIInv, NextIInv, <1>1, PTL DEF Spec

(* Between the read and the write of a register, nothing but the device    *)
(* changes it: in one thread the read-modify-write loses no update of      *)
(* another leaf.                                                           *)
THEOREM ReadModifyWriteIsSafe == Spec => []FetchedIsCurrent
  <1>1. IInv => FetchedIsCurrent
    BY DEF IInv
  <1>. QED
    BY InitIInv, NextIInv, <1>1, PTL DEF Spec

-----------------------------------------------------------------------------
(* Where the leaves begin and end in a value.                              *)
Ends ==
  /\ \A k \in 1..Len(bits) : End(k) = End(k - 1) + width(bits[k])
  /\ \A k, n \in 0..Len(bits) : k <= n => End(k) <= End(n)

(* What is left of the value of write(): the bits above the leaves it is   *)
(* through with.                                                           *)
Remainder ==
  pc \in {"fetch", "store"} =>
    \A n \in Nat : n \in myval <=> n + Below(i, Len(bits)) \in asked

(* read() is at a leaf, or just past the last.                             *)
ReadWithinLeaves == pc = "read" => i <= Len(bits) + 1

Places ==
  Ends /\ ReadWithinLeaves /\ Remainder /\ ReadsConcatenation /\ WritesWhatIsAsked

(* There are no leaves at first, and nothing is read or written.           *)
LEMMA InitPlaces == Init => Places
  <1>. SUFFICES ASSUME Init PROVE Places
    OBVIOUS
  <1>1. bits = <<>> /\ Len(bits) = 0 /\ pc = "idle"
    BY DEF Init
  <1>2. Ends
    <2>1. End(0) = 0
      BY DEF End
    <2>. QED
      BY <1>1, <2>1 DEF Ends
  <1>. QED
    BY <1>1, <1>2
    DEF Places, ReadWithinLeaves, Remainder, ReadsConcatenation, WritesWhatIsAsked

(* Ends is about the leaves alone.                                         *)
LEMMA SameLeavesSameEnds ==
  ASSUME Ends, bits' = bits
  PROVE  Ends' /\ \A k : End(k)' = End(k)
  BY DEF Ends, End, width

(* Leaves further down end further down.                                   *)
LEMMA BelowIsNat ==
  ASSUME TypeOK, Ends, NEW k \in 0..Len(bits), NEW n \in 0..Len(bits), k <= n
  PROVE  Below(k, n) \in Nat
  <1>1. End(k) \in Nat /\ End(n) \in Nat
    BY EndIsNat
  <1>2. End(k) <= End(n)
    BY DEF Ends
  <1>. QED
    BY <1>1, <1>2 DEF Below

(* The bits of a shifted value, and of what is read from a leaf.           *)
LEMMA BitsOfShl ==
  ASSUME NEW v, NEW n, NEW b
  PROVE  b \in Shl(v, n) <=> \E c \in v : b = c + n
  BY DEF Shl

(* The bits of a value shifted right: none falls below bit 0.              *)
LEMMA BitsOfShr ==
  ASSUME NEW v \in SUBSET Nat, NEW n \in Nat, NEW b \in Int
  PROVE  b \in Shr(v, n) <=> b \in Nat /\ b + n \in v
  <1>1. b \in Shr(v, n) <=> \E c \in v : c >= n /\ b = c - n
    BY DEF Shr
  <1>2. ASSUME NEW c \in v, c >= n, b = c - n PROVE b \in Nat /\ b + n \in v
    BY <1>2
  <1>3. ASSUME b \in Nat, b + n \in v PROVE \E c \in v : c >= n /\ b = c - n
    BY <1>3
  <1>. QED
    BY <1>1, <1>2, <1>3

(* The bits of a register that a range names, as an inequality.            *)
LEMMA BitsOfSpan ==
  ASSUME NEW p \in Leaf, p.lo <= p.hi, NEW b
  PROVE  b \in Span(p) <=> b \in Nat /\ p.lo <= b /\ b - p.lo < width(p)
  <1>1. p.lo \in Nat /\ p.hi \in Nat /\ width(p) \in Nat
    BY DEF Leaf, width
  <1>2. b \in Span(p) <=> \E c \in 0..(width(p) - 1) : b = c + p.lo
    BY DEF Span, Shl, MASK
  <1>3. ASSUME b \in Nat, p.lo <= b, b - p.lo < width(p) PROVE b \in Span(p)
    <2>1. b - p.lo \in 0..(width(p) - 1) /\ b = (b - p.lo) + p.lo
      BY <1>1, <1>3
    <2>. QED
      BY <1>2, <2>1
  <1>. QED
    BY <1>1, <1>2, <1>3

(* A step of read(): what was read moves up by the width of the leaf, and  *)
(* the bits of the leaf take the room below.                               *)
LEMMA ReadPieceKeepsPlaces ==
  ASSUME IInv, Places, ReadPiece
  PROVE  ReadsConcatenation'
  <1>. DEFINE p == bits[i]
              w == width(p)
  <1>1. /\ pc = "read" /\ i \in 1..Len(bits) /\ pc' = "read" /\ i' = i + 1
        /\ result' = Shl(result, w) \cup Extract(p, value[p.reg])
        /\ UNCHANGED <<value, bits>>
    BY DEF ReadPiece, IInv, TypeOK
  <1>2. /\ p \in Leaf /\ p.lo \in Nat /\ p.hi \in Nat /\ p.reg \in Reg
        /\ p.lo <= p.hi /\ w \in Nat /\ w > 0
    <2>1. /\ p \in Leaf /\ p.lo \in Nat /\ p.hi \in Nat /\ p.reg \in Reg /\ p.lo <= p.hi
      BY <1>1, LeafOfBits DEF IInv
    <2>. QED
      BY <2>1 DEF width
  <1>3. value[p.reg] \subseteq Nat
    <2>1. value[p.reg] \subseteq BitsOf(p.reg)
      BY <1>2, ContentsIs DEF IInv, TypeOK
    <2>. QED
      BY <2>1 DEF BitsOf
  <1>4. End(i) = End(i - 1) + w /\ End(i - 1) \in Nat /\ End(0) = 0
    <2>1. End(i) = End(i - 1) + w
      BY <1>1 DEF Places, Ends
    <2>. QED
      BY <1>1, <2>1, EndIsNat DEF IInv, End
  <1>5. \A k : End(k)' = End(k)
    BY <1>1, SameLeavesSameEnds DEF Places
  <1>6. \A b \in Int : b \in Extract(p, value[p.reg]) <=>
          b \in Nat /\ b < w /\ b + p.lo \in value[p.reg]
    BY <1>2, <1>3, BitsOfShr DEF Extract, MASK
  <1>7. result \subseteq Nat /\ result \subseteq 0..(End(i - 1) - 1)
    BY <1>1, <1>4 DEF IInv, TypeOK, Places, ReadsConcatenation, MASK, Below
  <1>8. result' \subseteq 0..(End(i) - 1)
    <2>. SUFFICES ASSUME NEW b \in result' PROVE b \in 0..(End(i) - 1)
      OBVIOUS
    <2>1. CASE b \in Shl(result, w)
      <3>1. PICK c \in result : b = c + w
        BY <2>1, BitsOfShl
      <3>. QED
        BY <3>1, <1>2, <1>4, <1>7
    <2>2. CASE b \in Extract(p, value[p.reg])
      <3>1. b \in 0..(w - 1)
        BY <2>2 DEF Extract, MASK
      <3>. QED
        BY <3>1, <1>2, <1>4
    <2>. QED
      BY <1>1, <2>1, <2>2
  <1>9. ASSUME NEW x \in Nat
        PROVE  x + w \in result' <=> x \in result
    <2>1. x + w \notin Extract(p, value[p.reg])
      BY <1>2, <1>6
    <2>2. x + w \in Shl(result, w) <=> x \in result
      <3>1. ASSUME NEW c \in result, x + w = c + w PROVE x \in result
        <4>1. x = c
          BY <1>2, <1>7, <3>1
        <4>. QED
          BY <4>1
      <3>. QED
        BY <3>1, BitsOfShl
    <2>. QED
      BY <1>1, <2>1, <2>2
  <1>10. ASSUME NEW x \in 0..(w - 1)
         PROVE  x \in result' <=> x + p.lo \in value[p.reg]
    <2>1. x \notin Shl(result, w)
      <3>1. ASSUME NEW c \in result, x = c + w PROVE FALSE
        BY <1>2, <1>7, <3>1
      <3>. QED
        BY <3>1, BitsOfShl
    <2>. QED
      BY <1>1, <1>2, <1>6, <2>1
  <1>11. ASSUME NEW k \in 1..i, NEW b \in Span(bits[k]) \ Volatile[bits[k].reg]
         PROVE  b \in value[bits[k].reg] <=> (b - bits[k].lo) + (End(i) - End(k)) \in result'
    <2>1. k \in 1..Len(bits)
      BY <1>1
    <2>2. /\ bits[k] \in Leaf /\ bits[k].lo <= bits[k].hi /\ bits[k].lo \in Nat
          /\ width(bits[k]) \in Nat
      BY <2>1, LeafOfBits DEF IInv
    <2>3. b \in Nat /\ bits[k].lo <= b /\ b - bits[k].lo < width(bits[k])
      BY <2>2, BitsOfSpan
    <2>4. CASE k = i
      <3>1. b - p.lo \in 0..(w - 1) /\ (b - p.lo) + p.lo = b
        BY <2>2, <2>3, <2>4
      <3>2. (b - p.lo) + (End(i) - End(k)) = b - p.lo
        BY <2>3, <2>4, <1>2, <1>4
      <3>. QED
        BY <1>10, <2>4, <3>1, <3>2
    <2>5. CASE k < i
      <3>. DEFINE x == (b - bits[k].lo) + Below(k, i - 1)
      <3>1. k \in 1..(i - 1) /\ k \in 0..Len(bits) /\ i - 1 \in 0..Len(bits) /\ k <= i - 1
        BY <1>1, <2>1, <2>5
      <3>2. Below(k, i - 1) \in Nat
        BY <3>1, BelowIsNat DEF IInv, Places
      <3>3. x \in Nat
        BY <2>2, <2>3, <3>2
      <3>4. End(k) \in Nat
        BY <2>1, EndIsNat DEF IInv
      <3>5. (b - bits[k].lo) + (End(i) - End(k)) = x + w
        BY <1>2, <1>4, <2>2, <2>3, <3>4 DEF Below
      <3>6. b \in value[bits[k].reg] <=> x \in result
        BY <1>1, <3>1 DEF Places, ReadsConcatenation
      <3>. QED
        BY <1>9, <3>3, <3>5, <3>6
    <2>. QED
      BY <1>1, <2>4, <2>5
  <1>12. i' - 1 = i
    BY <1>1
  <1>13. result' \subseteq MASK(End(i) - End(0))
    <2>1. End(i) - End(0) = End(i)
      BY <1>2, <1>4
    <2>. QED
      BY <1>8, <2>1 DEF MASK
  <1>. QED
    BY <1>1, <1>5, <1>11, <1>12, <1>13 DEF ReadsConcatenation, Below, Span, MASK, Shl, width

(* A step of write(): the leaf gets its bits of the value, and they wait   *)
(* where the next one expects its own.                                     *)
LEMMA WriteStoreKeepsPlaces ==
  ASSUME IInv, Places, WriteStore
  PROVE  Remainder' /\ WritesWhatIsAsked'
  <1>. DEFINE p == bits[i]
              w == width(p)
              new == Merge(p, tmp, myval)
  <1>1. /\ pc = "store" /\ i \in 1..Len(bits)
        /\ value' = [value EXCEPT ![p.reg] = new]
        /\ myval' = Shr(myval, w)
        /\ i' = i - 1 /\ pc' = "fetch" /\ asked' = asked /\ bits' = bits
    BY DEF WriteStore, IInv, TypeOK
  <1>2. /\ p \in Leaf /\ p.lo \in Nat /\ p.hi \in Nat /\ p.reg \in Reg
        /\ p.lo <= p.hi /\ w \in Nat /\ myval \subseteq Nat
    BY <1>1, LeafOfBits DEF IInv, TypeOK
  <1>3. /\ End(i) = End(i - 1) + w /\ End(i - 1) \in Nat
        /\ End(Len(bits)) \in Nat /\ \A k : End(k)' = End(k)
    <2>1. End(i) = End(i - 1) + w /\ \A k : End(k)' = End(k)
      BY <1>1, SameLeavesSameEnds DEF Places, Ends
    <2>. QED
      BY <1>1, <2>1, EndIsNat DEF IInv
  <1>4. Below(i - 1, Len(bits)) = Below(i, Len(bits)) + w
        /\ Below(i, Len(bits)) \in Nat
    <2>1. Below(i, Len(bits)) \in Nat
      BY <1>1, BelowIsNat DEF IInv, Places
    <2>. QED
      BY <1>2, <1>3, <2>1 DEF Below
  <1>5. \A n \in Nat : n \in myval <=> n + Below(i, Len(bits)) \in asked
    BY <1>1 DEF Places, Remainder
  <1>6. Remainder'
    <2>. SUFFICES ASSUME NEW n \in Nat
                  PROVE  n \in Shr(myval, w) <=> n + Below(i - 1, Len(bits)) \in asked
      BY <1>1, <1>3 DEF Remainder, Below
    <2>1. n \in Shr(myval, w) <=> n + w \in myval
      BY <1>2, BitsOfShr
    <2>2. n + w \in myval <=> (n + w) + Below(i, Len(bits)) \in asked
      BY <1>2, <1>5
    <2>3. (n + w) + Below(i, Len(bits)) = n + Below(i - 1, Len(bits))
      BY <1>2, <1>4
    <2>. QED
      BY <2>1, <2>2, <2>3
  <1>7. ASSUME NEW b \in Span(p)
        PROVE  b \in new <=> (b - p.lo) + Below(i, Len(bits)) \in asked
    <2>1. b \in Nat /\ p.lo <= b /\ b - p.lo < w
      BY <1>2, BitsOfSpan
    <2>2. b \in new <=> b \in Shl(myval \cap MASK(w), p.lo)
      BY DEF Merge
    <2>3. b \in Shl(myval \cap MASK(w), p.lo) <=> b - p.lo \in myval
      <3>1. ASSUME NEW c \in myval \cap MASK(w), b = c + p.lo PROVE b - p.lo \in myval
        <4>1. c = b - p.lo
          BY <1>2, <2>1, <3>1
        <4>. QED
          BY <4>1
      <3>2. ASSUME b - p.lo \in myval
            PROVE  \E c \in myval \cap MASK(w) : b = c + p.lo
        <4>1. b - p.lo \in MASK(w) /\ b = (b - p.lo) + p.lo
          BY <1>2, <2>1 DEF MASK
        <4>. QED
          BY <3>2, <4>1
      <3>. QED
        BY <3>1, <3>2, BitsOfShl
    <2>4. b - p.lo \in Nat
      BY <1>2, <2>1
    <2>. QED
      BY <1>5, <2>2, <2>3, <2>4
  <1>8. ASSUME NEW r \in Reg, NEW b \in BitsOf(r) \ Volatile[r], ~Names(i, r, b)
        PROVE  b \in value'[r] <=> b \in value[r]
    <2>1. CASE r # p.reg
      BY <1>1, <2>1, ContentsIs DEF IInv, TypeOK
    <2>2. CASE r = p.reg
      <3>1. value'[r] = new
        BY <1>1, <1>2, <2>2, ContentsIs DEF IInv, TypeOK
      <3>2. b \in new <=> b \in tmp
        BY <1>8, <2>2, MergeProperties DEF Names
      <3>3. b \in tmp <=> b \in value[r]
        BY <1>1, <2>2 DEF IInv, FetchedIsCurrent
      <3>. QED
        BY <3>1, <3>2, <3>3
    <2>. QED
      BY <2>1, <2>2
  <1>9. WritesWhatIsAsked'
    <2>. SUFFICES ASSUME NEW r \in Reg, NEW b \in BitsOf(r) \ Volatile[r],
                         {k \in i..Len(bits) : Names(k, r, b)} # {}
                  PROVE  LET by == {k \in i..Len(bits) : Names(k, r, b)}
                         IN b \in value'[r] <=>
                              (b - bits[Min(by)].lo) + Below(Min(by), Len(bits)) \in asked
      <3>1. (i' + 1)..Len(bits') = i..Len(bits)
        BY <1>1
      <3>2. \A k, r, b : Names(k, r, b)' <=> Names(k, r, b)
        BY <1>1 DEF Names, Span, Shl, MASK, width
      <3>3. \A k, n : Below(k, n)' = Below(k, n)
        BY <1>3 DEF Below
      <3>. QED
        BY <1>1, <3>1, <3>2, <3>3 DEF WritesWhatIsAsked
    <2>. DEFINE by == {k \in i..Len(bits) : Names(k, r, b)}
    <2>1. CASE Names(i, r, b)
      <3>1. Min(by) = i
        <4>1. i \in by /\ \A k \in by : i <= k /\ k \in Int
          BY <1>1, <2>1
        <4>. QED
          BY <1>1, <4>1 DEF Min
      <3>2. r = p.reg /\ b \in Span(p)
        BY <2>1 DEF Names
      <3>3. value'[r] = new
        BY <1>1, <1>2, <3>2, ContentsIs DEF IInv, TypeOK
      <3>. QED
        BY <1>7, <3>1, <3>2, <3>3
    <2>2. CASE ~Names(i, r, b)
      <3>1. by = {k \in (i + 1)..Len(bits) : Names(k, r, b)}
        <4>1. \A k \in i..Len(bits) : k = i \/ k \in (i + 1)..Len(bits)
          BY <1>1
        <4>2. \A k \in (i + 1)..Len(bits) : k \in i..Len(bits)
          BY <1>1
        <4>. QED
          BY <2>2, <4>1, <4>2
      <3>2. b \in value[r] <=>
              (b - bits[Min(by)].lo) + Below(Min(by), Len(bits)) \in asked
        BY <1>1, <3>1 DEF Places, WritesWhatIsAsked
      <3>. QED
        BY <1>8, <2>2, <3>2
    <2>. QED
      BY <2>1, <2>2
  <1>. QED
    BY <1>6, <1>9

(* The device changes no bit that the two properties speak of.             *)
LEMMA DeviceKeepsPlaces ==
  ASSUME NEW r \in Reg, NEW b \in BitsOf(r), IInv, Places, Device(r, b)
  PROVE  Places'
  <1>1. /\ b \in Volatile[r]
        /\ value' = [value EXCEPT ![r] = IF b \in @ THEN @ \ {b} ELSE @ \cup {b}]
        /\ UNCHANGED <<bits, pc, i, myval, result, asked>>
    BY DEF Device, call
  <1>2. ASSUME NEW q \in Reg, NEW c \in Nat, c \notin Volatile[q]
        PROVE  c \in value'[q] <=> c \in value[q]
    <2>1. value = [x \in Reg |-> value[x]]
      BY ContentsIs DEF IInv, TypeOK
    <2>2. q = r => c # b
      BY <1>1, <1>2
    <2>. QED
      BY <1>1, <2>1, <2>2
  <1>3. Ends' /\ \A k : End(k)' = End(k)
    BY <1>1, SameLeavesSameEnds DEF Places
  <1>4. /\ \A k, q, c : Names(k, q, c)' <=> Names(k, q, c)
        /\ \A k, n : Below(k, n)' = Below(k, n)
    BY <1>1, <1>3 DEF Names, Span, Shl, MASK, width, Below
  <1>5. Remainder'
    BY <1>1, <1>4 DEF Places, Remainder
  <1>6. WritesWhatIsAsked'
    <2>1. \A q \in Reg : \A c \in BitsOf(q) \ Volatile[q] :
            c \in value'[q] <=> c \in value[q]
      BY <1>2 DEF BitsOf
    <2>. QED
      BY <1>1, <1>4, <2>1 DEF Places, WritesWhatIsAsked
  <1>7. ReadsConcatenation'
    <2>. SUFFICES ASSUME pc = "read"
                  PROVE  /\ result \subseteq MASK(Below(0, i - 1))
                         /\ \A k \in 1..(i - 1) :
                              \A c \in Span(bits[k]) \ Volatile[bits[k].reg] :
                                c \in value'[bits[k].reg] <=>
                                  (c - bits[k].lo) + Below(k, i - 1) \in result
      <3>1. \A k, n : Below(k, n)' = Below(k, n)
        BY <1>4
      <3>. QED
        BY <1>1, <3>1 DEF ReadsConcatenation, Span, Shl, MASK, width
    <2>1. ASSUME NEW k \in 1..(i - 1), NEW c \in Span(bits[k]) \ Volatile[bits[k].reg],
                 k \in 1..Len(bits)
          PROVE  c \in value'[bits[k].reg] <=> c \in value[bits[k].reg]
      <3>1. /\ bits[k] \in Leaf /\ bits[k].reg \in Reg
            /\ bits[k].lo <= bits[k].hi
        BY <2>1, LeafOfBits DEF IInv
      <3>2. c \in Nat
        BY <3>1, BitsOfSpan
      <3>. QED
        BY <1>2, <3>1, <3>2
    <2>2. \A k \in 1..(i - 1) : k \in 1..Len(bits)
      BY DEF Places, ReadWithinLeaves, IInv, TypeOK
    <2>. QED
      BY <2>1, <2>2 DEF Places, ReadsConcatenation
  <1>8. ReadWithinLeaves'
    BY <1>1 DEF Places, ReadWithinLeaves
  <1>. QED
    BY <1>3, <1>5, <1>6, <1>7, <1>8 DEF Places

(* A leaf is joined below all others, and begins where they ended.         *)
LEMMA JoinKeepsPlaces ==
  ASSUME NEW r \in Reg, NEW hi \in 0..Width[r], NEW lo \in 0..Width[r],
         IInv, IInv', Places, Join(r, hi, lo)
  PROVE  Places'
  <1>. DEFINE p == NewLeaf(r, hi, lo)
  <1>. PICK n \in Nat : n = Len(bits)
    BY DEF IInv, TypeOK
  <1>1. /\ pc = "idle" /\ pc' = "idle" /\ lo <= hi /\ hi < Width[r]
        /\ bits' = Append(bits, p)
    BY DEF Join, call
  <1>2. hi \in Nat /\ lo \in Nat /\ n \in Nat /\ bits \in Seq(Leaf)
    BY WidthAssumption DEF IInv, TypeOK
  <1>3. End(n) \in Nat /\ p.hi = hi /\ p.lo = lo /\ p.end = End(n) + (hi - lo) + 1
    BY <1>2, EndIsNat DEF IInv, NewLeaf
  <1>. HIDE DEF p
  <1>4. /\ Len(bits') = n + 1 /\ bits'[n + 1] = p
        /\ \A k \in 1..n : bits'[k] = bits[k]
    BY <1>1, <1>2
  <1>5. /\ \A k \in 0..n : End(k)' = End(k)
        /\ End(n + 1)' = End(n) + width(p)
    BY <1>2, <1>3, <1>4 DEF End, width
  <1>6. width(p) \in Nat
    BY <1>1, <1>2, <1>3 DEF width
  <1>7. \A k \in 1..(n + 1) : End(k)' = End(k - 1)' + width(bits'[k])
    <2>. SUFFICES ASSUME NEW k \in 1..(n + 1)
                  PROVE  End(k)' = End(k - 1)' + width(bits'[k])
      OBVIOUS
    <2>1. CASE k = n + 1
      <3>1. (n + 1) - 1 = n /\ n \in 0..n
        BY <1>2
      <3>. QED
        BY <2>1, <3>1, <1>4, <1>5
    <2>2. CASE k \in 1..n
      <3>1. k \in 0..n /\ k - 1 \in 0..n
        BY <1>2, <2>2
      <3>2. End(k) = End(k - 1) + width(bits[k])
        BY <2>2 DEF Places, Ends
      <3>. QED
        BY <2>2, <3>1, <3>2, <1>4, <1>5
    <2>. QED
      BY <1>2, <2>1, <2>2
  <1>8. ASSUME NEW k \in 0..(n + 1), NEW m \in 0..(n + 1), k <= m
        PROVE  End(k)' <= End(m)'
    <2>1. CASE m \in 0..n
      <3>1. k \in 0..n
        BY <1>2, <1>8, <2>1
      <3>. QED
        BY <1>5, <1>8, <2>1, <3>1 DEF Places, Ends
    <2>2. CASE k \in 0..n /\ m = n + 1
      <3>1. End(k) <= End(n) /\ End(k) \in Nat
        BY <1>2, <2>2, EndIsNat DEF IInv, Places, Ends
      <3>. QED
        BY <1>3, <1>5, <1>6, <2>2, <3>1
    <2>3. CASE k = n + 1 /\ m = n + 1
      BY <1>3, <1>5, <1>6, <2>3
    <2>. QED
      BY <1>2, <1>8, <2>1, <2>2, <2>3
  <1>9. Ends'
    BY <1>4, <1>7, <1>8 DEF Ends, width
  <1>. QED
    BY <1>1, <1>9
    DEF Places, ReadWithinLeaves, Remainder, ReadsConcatenation, WritesWhatIsAsked

(* Every step keeps the leaves and the bits of a value in their places.    *)
LEMMA NextPlaces == IInv /\ IInv' /\ Places /\ [Next]_vars => Places'
  <1>. SUFFICES ASSUME IInv, IInv', Places, [Next]_vars PROVE Places'
    OBVIOUS
  <1>1. ASSUME NEW r \in Reg, NEW hi \in 0..Width[r], NEW lo \in 0..Width[r],
               Join(r, hi, lo)
        PROVE  Places'
    BY <1>1, JoinKeepsPlaces
  <1>2. CASE Drop
    <2>1. bits' = <<>> /\ Len(bits') = 0 /\ pc = "idle" /\ pc' = "idle"
      BY <1>2 DEF Drop
    <2>2. Ends'
      <3>1. End(0)' = 0
        BY DEF End
      <3>. QED
        BY <2>1, <3>1 DEF Ends
    <2>. QED
      BY <2>1, <2>2
      DEF Places, ReadWithinLeaves, Remainder, ReadsConcatenation, WritesWhatIsAsked
  <1>3. ASSUME bits' = bits, pc' = "idle" PROVE Places'
    <2>1. Ends'
      BY <1>3, SameLeavesSameEnds DEF Places
    <2>. QED
      BY <1>3, <2>1
      DEF Places, ReadWithinLeaves, Remainder, ReadsConcatenation, WritesWhatIsAsked
  <1>4. CASE EndCall
    BY <1>3, <1>4 DEF EndCall
  <1>5. CASE ReadBegin
    <2>1. bits' = bits /\ pc' = "read" /\ i' = 1 /\ result' = {}
      BY <1>5 DEF ReadBegin
    <2>2. Ends'
      BY <2>1, SameLeavesSameEnds DEF Places
    <2>3. ReadsConcatenation'
      BY <2>1 DEF ReadsConcatenation
    <2>4. ReadWithinLeaves'
      BY <2>1 DEF ReadWithinLeaves, IInv, TypeOK
    <2>. QED
      BY <2>1, <2>2, <2>3, <2>4 DEF Places, Remainder, WritesWhatIsAsked
  <1>6. CASE ReadPiece
    <2>1. bits' = bits /\ pc' = "read"
      BY <1>6 DEF ReadPiece
    <2>2. Ends'
      BY <2>1, SameLeavesSameEnds DEF Places
    <2>3. ReadsConcatenation'
      BY <1>6, ReadPieceKeepsPlaces
    <2>4. ReadWithinLeaves'
      BY <1>6 DEF ReadPiece, ReadWithinLeaves, IInv, TypeOK
    <2>. QED
      BY <2>1, <2>2, <2>3, <2>4 DEF Places, Remainder, WritesWhatIsAsked
  <1>7. ASSUME NEW v \in Written, WriteBegin(v) PROVE Places'
    <2>1. bits' = bits /\ pc' = "fetch" /\ i' = Len(bits) /\ myval' = v /\ asked' = v
      BY <1>7 DEF WriteBegin
    <2>2. Ends' /\ \A k : End(k)' = End(k)
      BY <2>1, SameLeavesSameEnds DEF Places
    <2>3. Below(Len(bits), Len(bits)) = 0
      <3>1. End(Len(bits)) \in Nat
        BY EndIsNat DEF IInv, TypeOK
      <3>. QED
        BY <3>1 DEF Below
    <2>4. Remainder'
      <3>1. \A n \in Nat : n + 0 = n
        OBVIOUS
      <3>2. Below(i, Len(bits))' = 0
        BY <2>1, <2>3 DEF Below, End
      <3>. QED
        BY <2>1, <3>1, <3>2 DEF Remainder
    <2>5. WritesWhatIsAsked'
      <3>1. (i' + 1)..Len(bits') = {}
        BY <2>1 DEF IInv, TypeOK
      <3>. QED
        BY <3>1 DEF WritesWhatIsAsked
    <2>. QED
      BY <2>1, <2>2, <2>4, <2>5 DEF Places, ReadWithinLeaves, ReadsConcatenation
  <1>8. CASE WriteFetch
    <2>1. /\ pc = "fetch" /\ pc' = "store"
          /\ UNCHANGED <<value, bits, i, myval, asked>>
      BY <1>8 DEF WriteFetch
    <2>2. Ends' /\ \A k : End(k)' = End(k)
      BY <2>1, SameLeavesSameEnds DEF Places
    <2>3. /\ \A k, q, c : Names(k, q, c)' <=> Names(k, q, c)
          /\ \A k, n : Below(k, n)' = Below(k, n)
      BY <2>1, <2>2 DEF Names, Span, Shl, MASK, width, Below
    <2>4. Remainder' /\ WritesWhatIsAsked'
      BY <2>1, <2>3 DEF Places, Remainder, WritesWhatIsAsked
    <2>. QED
      BY <2>1, <2>2, <2>4 DEF Places, ReadWithinLeaves, ReadsConcatenation
  <1>9. CASE WriteStore
    <2>1. bits' = bits /\ pc' = "fetch"
      BY <1>9 DEF WriteStore
    <2>2. Ends'
      BY <2>1, SameLeavesSameEnds DEF Places
    <2>3. Remainder' /\ WritesWhatIsAsked'
      BY <1>9, WriteStoreKeepsPlaces
    <2>. QED
      BY <2>1, <2>2, <2>3 DEF Places, ReadWithinLeaves, ReadsConcatenation
  <1>10. ASSUME NEW r \in Reg, NEW b \in BitsOf(r), Device(r, b) PROVE Places'
    BY <1>10, DeviceKeepsPlaces
  <1>11. CASE UNCHANGED vars
    <2>1. UNCHANGED <<value, bits, pc, i, myval, result, asked>>
      BY <1>11 DEF vars, call
    <2>2. Ends' /\ \A k : End(k)' = End(k)
      BY <2>1, SameLeavesSameEnds DEF Places
    <2>3. /\ \A k, q, c : Names(k, q, c)' <=> Names(k, q, c)
          /\ \A k, n : Below(k, n)' = Below(k, n)
      BY <2>1, <2>2 DEF Names, Span, Shl, MASK, width, Below
    <2>4. Remainder' /\ WritesWhatIsAsked'
      BY <2>1, <2>3 DEF Places, Remainder, WritesWhatIsAsked
    <2>5. ReadsConcatenation'
      BY <2>1, <2>3 DEF Places, ReadsConcatenation, Span, Shl, MASK, width
    <2>. QED
      BY <2>1, <2>2, <2>4, <2>5 DEF Places, ReadWithinLeaves
  <1>. QED
    BY <1>1, <1>2, <1>4, <1>5, <1>6, <1>7, <1>8, <1>9, <1>10, <1>11
    DEF Next, ReadEnd, WriteEnd, IoError

(* Every bit a read() has fetched ends at the place that the comment of    *)
(* operator+ gives it (regbits.h:76-84), whatever ranges are joined and    *)
(* however the device changes its own bits.                                *)
THEOREM ReadIsTheConcatenation == Spec => []ReadsConcatenation
  <1>1. Places => ReadsConcatenation
    BY DEF Places
  <1>. QED
    BY InitIInv, NextIInv, InitPlaces, NextPlaces, <1>1, PTL DEF Spec

(* Every bit of every leaf that a write() is through with holds what was   *)
(* asked for, the most significant leaf winning where ranges overlap, and  *)
(* so also after an exception half-way (regbits.h:177-183).                *)
THEOREM WrittenIsWhatIsAsked == Spec => []WritesWhatIsAsked
  <1>1. Places => WritesWhatIsAsked
    BY DEF Places
  <1>. QED
    BY InitIInv, NextIInv, InitPlaces, NextPlaces, <1>1, PTL DEF Spec
=============================================================================
