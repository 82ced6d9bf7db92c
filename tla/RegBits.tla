------------------------------- MODULE RegBits -------------------------------
(***************************************************************************)
(* RegBits (regbits.h): a value put together from bit ranges of registers, *)
(* read from the most and written from the least significant range, one    *)
(* register access after another.  A value is the set of its 1 bits.       *)
(*                                                                         *)
(* The tree of m_sub_bits is flattened into the list of its leaves: read() *)
(* and write() visit the leaves in that order, and in the reverse, however *)
(* deep they lie.  A simple RegBits is a list of one.                      *)
(*                                                                         *)
(* A register is behind a binding and a driver: an access may throw        *)
(* IoError, and the device may change bits of its own at any moment.       *)
(***************************************************************************)
EXTENDS Integers, Sequences, FiniteSets, SequencesExt, FiniteSetsExt

CONSTANTS
  Reg,       \* the registers
  Width,     \* Register::width() of every register
  Volatile,  \* the bits of every register the device changes by itself
  Written,   \* the values callers write
  MaxPieces  \* bound on the ranges joined

ASSUME WidthAssumption == Width \in [Reg -> Nat \ {0}]
ASSUME VolatileAssumption == Volatile \in [Reg -> SUBSET Nat]
ASSUME WrittenAssumption == Written \subseteq SUBSET Nat
ASSUME MaxPiecesAssumption == MaxPieces \in Nat

VARIABLES
  value,   \* what every register holds
  bits,    \* the leaves of m_sub_bits, most significant first
  pc,      \* "idle" between two calls, else the access that is next: "read",
           \* or "fetch" and "store" in write()
  i,       \* the loop variable, the number of the leaf
  tmp,     \* the local tmp of the simple write()
  myval,   \* the local myval of the complex write()
  result,  \* the local result of read()
  before,  \* the registers when the call began (history)
  asked    \* the argument of the call of write() (history)

call == <<i, tmp, myval, result, before, asked>>
vars == <<value, bits, pc, call>>

BitsOf(r) == 0..(Width[r] - 1)

(* Whatever the registers may hold. *)
Contents == {v \in [Reg -> SUBSET UNION {BitsOf(r) : r \in Reg}] :
               \A r \in Reg : v[r] \subseteq BitsOf(r)}

Shl(v, n)  == {b + n : b \in v}
Shr(v, n)  == {b - n : b \in {c \in v : c >= n}}
MASK(n)    == 0..(n - 1)

width(p) == (p.hi - p.lo) + 1

(* RegBits::width(): of the first k leaves together.                       *)
End(k) == IF k = 0 THEN 0 ELSE bits[k].end

(* A leaf, and the width of the RegBits it is joined to, itself included.  *)
NewLeaf(r, hi, lo) ==
  [reg |-> r, hi |-> hi, lo |-> lo, end |-> End(Len(bits)) + (hi - lo) + 1]

(* m_mask << m_lo_bit: the bits of its register a leaf stands for.         *)
Span(p) == Shl(MASK(width(p)), p.lo)

(* Mutation of Merge: the mask is not shifted.                             *)
MergeUnshiftedMask(p, old, v) ==
  (old \ MASK(width(p))) \cup Shl(v \cap MASK(width(p)), p.lo)

(* The whole of read() of a leaf, given what its register holds, and what  *)
(* write() of a leaf stores, given what it has fetched.                    *)
Extract(p, v)    == Shr(v, p.lo) \cap MASK(width(p))
Merge(p, old, v) == (old \ Span(p)) \cup Shl(v \cap MASK(width(p)), p.lo)
-----------------------------------------------------------------------------
Nothing == [r \in Reg |-> {}]

(* A call ends, by returning or by throwing: its locals are gone. *)
EndCall ==
  /\ pc' = "idle"
  /\ i' = 0
  /\ tmp' = {} /\ myval' = {} /\ result' = {} /\ asked' = {}
  /\ before' = Nothing
  /\ UNCHANGED <<value, bits>>

Init ==
  /\ value \in Contents
  /\ bits = <<>>
  /\ pc = "idle"
  /\ i = 0
  /\ tmp = {} /\ myval = {} /\ result = {} /\ asked = {}
  /\ before = Nothing

(* Mutation of Join: a range may end just beyond the register.             *)
JoinBeyond(r, hi, lo) ==
  /\ pc = "idle"
  /\ Len(bits) < MaxPieces
  /\ lo <= hi /\ hi <= Width[r]
  /\ bits' = Append(bits, NewLeaf(r, hi, lo))
  /\ UNCHANGED <<value, pc, call>>

(* The constructor, which throws range_error for a range that is not       *)
(* within the register, and operator+ or operator+=, which join the new    *)
(* leaf at the least significant end.                                      *)
Join(r, hi, lo) ==
  /\ pc = "idle"
  /\ Len(bits) < MaxPieces
  /\ lo <= hi
  /\ hi < Width[r]
  /\ bits' = Append(bits, NewLeaf(r, hi, lo))
  /\ UNCHANGED <<value, pc, call>>

(* The caller drops the RegBits and starts with an empty one.              *)
Drop ==
  /\ pc = "idle"
  /\ bits' = <<>>
  /\ UNCHANGED <<value, pc, call>>

ReadBegin ==
  /\ pc = "idle"
  /\ pc' = "read"
  /\ i' = 1
  /\ result' = {}
  /\ before' = value
  /\ UNCHANGED <<value, bits, tmp, myval, asked>>

(* Mutation of ReadPiece: the leaf before is not moved out of the way.     *)
ReadPieceUnshifted ==
  /\ pc = "read"
  /\ i <= Len(bits)
  /\ result' = result \cup Extract(bits[i], value[bits[i].reg])
  /\ i' = i + 1
  /\ UNCHANGED <<value, bits, pc, tmp, myval, before, asked>>

ReadPiece ==
  /\ pc = "read"
  /\ i <= Len(bits)
  /\ result' = Shl(result, width(bits[i])) \cup Extract(bits[i], value[bits[i].reg])
  /\ i' = i + 1
  /\ UNCHANGED <<value, bits, pc, tmp, myval, before, asked>>

ReadEnd ==
  /\ pc = "read"
  /\ i > Len(bits)
  /\ EndCall

WriteBegin(v) ==
  /\ pc = "idle"
  /\ pc' = "fetch"
  /\ i' = Len(bits)
  /\ myval' = v
  /\ asked' = v
  /\ before' = value
  /\ UNCHANGED <<value, bits, tmp, result>>

(* write() of leaf i: the register is read ...                             *)
WriteFetch ==
  /\ pc = "fetch"
  /\ i >= 1
  /\ tmp' = value[bits[i].reg]
  /\ pc' = "store"
  /\ UNCHANGED <<value, bits, i, myval, result, before, asked>>

(* (Mutation of WriteStore: myval is not shifted for the next leaf.)       *)
WriteStoreUnshifted ==
  /\ pc = "store"
  /\ value' = [value EXCEPT ![bits[i].reg] = Merge(bits[i], tmp, myval)]
  /\ i' = i - 1
  /\ pc' = "fetch"
  /\ UNCHANGED <<bits, tmp, myval, result, before, asked>>

(* ... and written, with the bits of the leaf replaced.                    *)
WriteStore ==
  /\ pc = "store"
  /\ value' = [value EXCEPT ![bits[i].reg] = Merge(bits[i], tmp, myval)]
  /\ myval' = Shr(myval, width(bits[i]))
  /\ i' = i - 1
  /\ pc' = "fetch"
  /\ UNCHANGED <<bits, tmp, result, before, asked>>

WriteEnd ==
  /\ pc = "fetch"
  /\ i = 0
  /\ EndCall

(* The next register access throws: the call ends where it is.             *)
IoError ==
  /\ \/ pc = "read" /\ i <= Len(bits)
     \/ pc = "fetch" /\ i >= 1
     \/ pc = "store"
  /\ EndCall

(* The device changes a bit of its own, at any time.                       *)
Device(r, b) ==
  /\ b \in Volatile[r] \cap BitsOf(r)
  /\ value' = [value EXCEPT ![r] = IF b \in @ THEN @ \ {b} ELSE @ \cup {b}]
  /\ UNCHANGED <<bits, pc, call>>

Next ==
  \/ \E r \in Reg : \E hi, lo \in 0..Width[r] : Join(r, hi, lo)
  \/ Drop
  \/ ReadBegin \/ ReadPiece \/ ReadEnd
  \/ \E v \in Written : WriteBegin(v)
  \/ WriteFetch \/ WriteStore \/ WriteEnd
  \/ IoError
  \/ \E r \in Reg : \E b \in BitsOf(r) : Device(r, b)

Spec == Init /\ [][Next]_vars

-----------------------------------------------------------------------------
Leaf == [reg : Reg, hi : Nat, lo : Nat, end : Nat]

(* Types; every leaf lies within its register, as regbits.h:219-232 checks,*)
(* and no access writes bits a register does not have.                     *)
TypeOK ==
  /\ value \in Contents
  /\ before \in Contents
  /\ bits \in Seq(Leaf)
  /\ \A k \in 1..Len(bits) : bits[k].lo <= bits[k].hi /\ bits[k].hi < Width[bits[k].reg]
  /\ pc \in {"idle", "read", "fetch", "store"}
  /\ i \in Nat
  /\ pc \in {"fetch", "store"} => i <= Len(bits)
  /\ pc \in {"read", "store"} => i >= 1
  /\ pc = "store" => tmp \subseteq BitsOf(bits[i].reg)
  /\ tmp \subseteq Nat /\ myval \subseteq Nat /\ result \subseteq Nat
  /\ asked \subseteq Nat

(* Does leaf k stand for bit b of register r? *)
Names(k, r, b) == bits[k].reg = r /\ b \in Span(bits[k])

(* The width of the leaves after k, up to n: where leaf k begins in a value*)
(* read from the first n leaves.                                           *)
Below(k, n) == End(n) - End(k)

(* read() puts the ranges together as the comment of operator+ says        *)
(* (regbits.h:76-84, A = ((B << C.width()) | C)): every bit ends at its    *)
(* place and nothing else is set, whatever widths and registers are joined.*)
ReadsConcatenation ==
  pc = "read" =>
    /\ result \subseteq MASK(Below(0, i - 1))
    /\ \A k \in 1..(i - 1) : \A b \in Span(bits[k]) \ Volatile[bits[k].reg] :
         b \in value[bits[k].reg] <=> (b - bits[k].lo) + Below(k, i - 1) \in result

(* Every bit of every leaf write() is through with holds the bit asked for,*)
(* as a later read() would find it; where ranges overlap, the leaf written *)
(* last, the most significant, has won (regbits.h:177-183).                *)
WritesWhatIsAsked ==
  pc \in {"fetch", "store"} =>
    \A r \in Reg : \A b \in BitsOf(r) \ Volatile[r] :
      LET by == {k \in (i + 1)..Len(bits) : Names(k, r, b)}
      IN by # {} =>
           (b \in value[r] <=>
             (b - bits[Min(by)].lo) + Below(Min(by), Len(bits)) \in asked)

(* The read-modify-write of one range leaves the rest of its register and  *)
(* of all others alone, and a write() that throws half-way has changed     *)
(* nothing but the leaves it is through with (regbits.h:167-183).          *)
Untouched ==
  pc \in {"fetch", "store"} =>
    \A r \in Reg : \A b \in BitsOf(r) \ Volatile[r] :
      (\A k \in (i + 1)..Len(bits) : ~Names(k, r, b)) =>
        (b \in value[r] <=> b \in before[r])

(* What has been fetched is still there when it is merged and stored, but  *)
(* for the bits of the device.                                             *)
FetchedIsCurrent ==
  pc = "store" =>
    \A b \in BitsOf(bits[i].reg) \ Volatile[bits[i].reg] :
      b \in tmp <=> b \in value[bits[i].reg]
=============================================================================
