----------------------------- MODULE SyntaxTree -----------------------------
(***************************************************************************)
(* The syntax tree of the PP language (language/syntax_tree.h), as the     *)
(* grammar builds it, and the order in which validate() goes through it.   *)
(*                                                                         *)
(* validate() of a node validates its parts and then checks the node       *)
(* itself, given the types of the parts.  A node is therefore written as   *)
(* the list of these checks, those of the parts before that of the whole.  *)
(***************************************************************************)
EXTENDS Types, SequencesExt, FiniteSets

(* Expressions: the parts, and the check of the whole.                     *)
Expr(parts, check)   == Append(FlattenSeq(parts), check)
Literal(primitive)   == <<[op |-> "literal", type |-> Literally(Type(primitive))]>>
Ident(sym)           == <<[op |-> "use", sym |-> sym]>>
Tuple(es)            == Expr(es, [op |-> "tuple", n |-> Len(es)])
Subscript(e, index)  == Expr(<<e, index>>, [op |-> "subscript", n |-> 2])
Call(e, args)        == Expr(<<e>> \o args, [op |-> "call", n |-> Len(args) + 1])
Unary(o, e)          == Expr(<<e>>, [op |-> o, n |-> 1])
Binary(o, l, r)      == Expr(<<l, r>>, [op |-> o, n |-> 2])
Conditional(c, t, f) == Expr(<<c, t, f>>, [op |-> "conditional", n |-> 3])

(* The grammar has no node for && and ||.                                  *)
AndAnd(a, b) == Conditional(Binary("eq", a, Literal("bool")), b, Literal("bool"))
OrOr(a, b)   == Conditional(Binary("eq", a, Literal("bool")), Literal("bool"), b)

(* A function literal has a scope with args, and its body, a compound      *)
(* statement, one of its own within.  Its parameters come behind the body. *)
Function(params, body) ==
  <<[op |-> "new_scope"], [op |-> "args"]>> \o body
    \o [i \in DOMAIN params |-> [op |-> "param", sym |-> params[i]]]
    \o <<[op |-> "end_scope"], [op |-> "literal", type |-> Literally(Type("func"))]>>

(* Statements.  One with an expression has no use for its type; a sum of   *)
(* the warnings of parts is taken from left to right, as the compilers do. *)
Void(e)         == Append(e, [op |-> "drop"])
Compound(body)  == <<[op |-> "new_scope"]>> \o FlattenSeq(body) \o <<[op |-> "end_scope"]>>
Empty           == <<>>
Do(e)           == Void(e)
If(c, t)        == Void(c) \o t
IfElse(c, t, f) == Void(c) \o t \o f
Switch(c, body) == Void(c) \o body
Case(e, s)      == Void(e) \o s
Return(e)       == Void(e)
Goto            == <<>>

(* Loops come with statements around them that carry their labels.         *)
While(c, body)           == Compound(<<Void(c) \o body, Empty>>)
DoWhile(body, c)         == Compound(<<Goto, Void(c) \o body, Empty>>)
For(init, c, next, body) ==
  Compound(<<init, Void(c) \o Compound(<<body, Do(next)>>), Empty>>)

(* A DefinitionStatement of one variable, with or without initializer, the *)
(* `init' checks before; a function is a variable too.                     *)
Defn(type, sym) ==
  <<[op |-> "define", sym |-> sym, type |-> type, n |-> 0, init |-> 0]>>
DefnInit(type, sym, e) ==
  Append(e, [op |-> "define", sym |-> sym, type |-> type, n |-> 1, init |-> Len(e)])
FunctionDefn(sym, params, body) == DefnInit(Type("func"), sym, Function(params, body))

(* discover(...).                                                          *)
Discover(es) == FlattenSeq([i \in DOMAIN es |-> Void(es[i])])

-----------------------------------------------------------------------------
(* What holds of the checks of every statement the grammar can build.      *)
UnaryOps   == {"not", "increment", "negate"}
Arithmetic == {"add", "add_assign"}
BinaryOps  == {"eq", "assign", "less", "comma", "subscript"} \cup Arithmetic

Check ==
  [op : {"new_scope", "end_scope", "args", "drop"}]
    \cup [op : {"literal"}, type : AnyType]
    \cup [op : {"use", "param"}, sym : STRING]
    \cup [op : UnaryOps, n : {1}]
    \cup [op : BinaryOps, n : {2}]
    \cup [op : {"conditional"}, n : {3}]
    \cup [op : {"call", "tuple"}, n : Nat]
    \cup [op : {"define"}, sym : STRING, type : AnyType, n : {0, 1}, init : Nat]

(* The operands a check takes, and the results it leaves: one, if it is    *)
(* the check of an expression.                                             *)
Takes(check)  == IF check.op = "drop" THEN 1 ELSE IF "n" \in DOMAIN check THEN check.n ELSE 0
Leaves(check) ==
  IF check.op \in {"new_scope", "end_scope", "args", "param", "drop", "define"} THEN 0 ELSE 1

(* How many operands there are after the first k checks.                   *)
Operands(c) ==
  LET after[k \in 0..Len(c)] ==
        IF k = 0 THEN 0 ELSE after[k - 1] - Takes(c[k]) + Leaves(c[k])
  IN after

(* How many scopes checks j+1..k of c open more than they end.             *)
Depth(c, j, k) ==
  Cardinality({i \in (j + 1)..k : c[i].op = "new_scope"})
    - Cardinality({i \in (j + 1)..k : c[i].op = "end_scope"})

(* The operands of a check are there when it comes, and none are left at   *)
(* the end; scopes are ended as often as they are opened; a function has   *)
(* args at the start and its parameters at the end of its own; and an      *)
(* initializer is a whole expression.                                      *)
Statement ==
  {c \in Seq(Check) :
     /\ \A k \in 1..Len(c) : Operands(c)[k - 1] >= Takes(c[k])
     /\ Operands(c)[Len(c)] = 0
     /\ \A k \in 0..Len(c) : Depth(c, 0, k) >= 0
     /\ Depth(c, 0, Len(c)) = 0
     /\ \A k \in 1..Len(c) : c[k].op = "args" => k > 1 /\ c[k - 1].op = "new_scope"
     /\ \A k \in 1..Len(c) :
          c[k].op = "param" => k < Len(c) /\ c[k + 1].op \in {"param", "end_scope"}
     /\ \A k \in 1..Len(c) : c[k].op = "define" =>
          LET before == k - 1 - c[k].init
          IN before >= 0 /\ Operands(c)[before] = Operands(c)[k] /\ Depth(c, before, k) = 0}
=============================================================================
