-------------------------------- MODULE Types --------------------------------
(***************************************************************************)
(* The types of the PP language (language/type.h, language/type.cc): a     *)
(* primitive, a constness, and for lists and tuples type arguments.        *)
(***************************************************************************)
EXTENDS Integers, Sequences

CONSTANT MaxNesting   \* bound on the nesting of types

ASSUME NestingAssumption == MaxNesting \in Nat \ {0}

Primitive == {"bool", "fldfmt", "func", "int", "list", "string", "tuple", "var"}

(* Type::Constness, and 0 for a type that is not const.                    *)
CONST   == 1
LITERAL == 2

(* The types that are nested n deep at most, and the types there are.      *)
Nested[n \in Nat] ==
  [primitive : Primitive, constness : {0, CONST, LITERAL},
   arguments : IF n = 0 THEN {<<>>} ELSE Seq(Nested[n - 1])]

AnyType == Nested[MaxNesting]

Type(primitive) == [primitive |-> primitive, constness |-> 0, arguments |-> <<>>]

set_const(t)     == [t EXCEPT !.constness = CONST]
Literally(t)     == [t EXCEPT !.constness = LITERAL]
WithArgs(t, as)  == [t EXCEPT !.arguments = @ \o as]

is_const(t)   == t.constness # 0
is_literal(t) == t.constness = LITERAL

(* A const type and a literal one are equal.                               *)
Equal[ab \in AnyType \X AnyType] ==
  LET a == ab[1]
      b == ab[2]
  IN /\ is_const(a) = is_const(b)
     /\ a.primitive = b.primitive
     /\ Len(a.arguments) = Len(b.arguments)
     /\ \A i \in DOMAIN a.arguments : Equal[<<a.arguments[i], b.arguments[i]>>]

is_equal_to(a, b) == Equal[<<a, b>>]

(* (Mutation of MayDiffer: of any tuple, not of a literal only.)           *)
MayDifferAlways(a, b) ==
  a.primitive = "tuple" /\ Len(a.arguments) > Len(b.arguments)

(* A tuple can be had from a literal that is a strict prefix of it.        *)
MayDiffer(a, b) ==
  a.primitive = "tuple" /\ Len(a.arguments) > Len(b.arguments) /\ is_literal(b)

(* is_assignable_from(): can an a be assigned a b, the constness of a and  *)
(* of its arguments apart if they are to be ignored?  What var is involved *)
(* in is left to be checked at runtime.  AllAssignable compares the        *)
(* arguments.                                                              *)
AllAssignable(assignable, a, b, ignore_const) ==
  IF a.primitive = "list" /\ b.primitive = "tuple"
  THEN \A i \in DOMAIN b.arguments :
         assignable[<<a.arguments[1], b.arguments[i], ignore_const>>]
  ELSE /\ a.primitive = b.primitive
       /\ Len(a.arguments) = Len(b.arguments) \/ MayDiffer(a, b)
       /\ \A i \in DOMAIN a.arguments \cap DOMAIN b.arguments :
            assignable[<<a.arguments[i], b.arguments[i], ignore_const>>]

Assigns(assignable, a, b, ignore_const) ==
  /\ ignore_const \/ ~is_const(a)
  /\ IF "var" \in {a.primitive, b.primitive} THEN TRUE
     ELSE IF a.primitive = "list" /\ a.arguments = <<>>
     THEN b.primitive \in {"list", "tuple"}
     ELSE IF a.primitive = "tuple" /\ a.arguments = <<>>
     THEN b.primitive = "tuple"
     ELSE AllAssignable(assignable, a, b, ignore_const)

Assignable[abi \in AnyType \X AnyType \X BOOLEAN] ==
  Assigns(Assignable, abi[1], abi[2], abi[3])

is_assignable_from(a, b, ignore_const) == Assignable[<<a, b, ignore_const>>]

is_initializable_from(a, b) == is_assignable_from(a, b, TRUE)

is_comparable_to(a, b) ==
  is_assignable_from(a, b, TRUE) \/ is_assignable_from(b, a, TRUE)
==============================================================================
