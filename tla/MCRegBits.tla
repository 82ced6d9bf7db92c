------------------------------ MODULE MCRegBits ------------------------------
(***************************************************************************)
(* RegBits with a register of three bits, the middle one the device's, and *)
(* one of a single bit.  Three ranges can overlap, be swapped, lie around  *)
(* the device's bit and around a range of the other register.              *)
(***************************************************************************)
EXTENDS RegBits

CONSTANTS r1, r2

MCReg      == {r1, r2}
MCWidth    == [r \in MCReg |-> IF r = r1 THEN 3 ELSE 1]
MCVolatile == [r \in MCReg |-> IF r = r1 THEN {1} ELSE {}]

(* No bit, every bit alone, and all of them, one beyond the widest RegBits *)
(* of distinct bits included.                                              *)
MCWritten == {{}, 0..4} \cup {{b} : b \in 0..4}
=============================================================================
