---------------------------- MODULE MCValidation ----------------------------
(***************************************************************************)
(* Validation of files of one or two items: a variable x of any type and   *)
(* initializer, then a variable y or a function that uses it, and pairs of *)
(* files of functions with blocks, loops, definitions and args.            *)
(***************************************************************************)
EXTENDS Validation

bool == Type("bool")    int == Type("int")      string == Type("string")
var  == Type("var")     func == Type("func")
list == Type("list")    tuple == Type("tuple")
List(t)   == WithArgs(list, <<t>>)
Of(ts)    == WithArgs(tuple, ts)

True == Literal("bool")   One == Literal("int")   S == Literal("string")
X == Ident("x")   Y == Ident("y")   Z == Ident("z")   Args == Ident("args")

DefnTypes == <<var, bool, int, set_const(int), string, func, list, List(int), List(var),
               set_const(list), List(Of(<<int, string>>)), tuple, Of(<<int>>),
               Of(<<int, string>>), Of(<<Of(<<int, string>>)>>), set_const(tuple)>>

Inits == <<One, S, Tuple(<<>>), Tuple(<<One>>), Tuple(<<One, One>>), Tuple(<<One, S>>),
           Tuple(<<Tuple(<<One>>)>>), Tuple(<<Tuple(<<One, S>>), Tuple(<<One>>)>>)>>

Uses == <<X, Subscript(X, One), Tuple(<<X>>), Conditional(True, X, One),
          Subscript(Tuple(<<X>>), X)>>

(* Items of the first kind define x, of the second y.                      *)
XItems == [k \in 1..(16 * 9) |->
             LET t == DefnTypes[((k - 1) \div 9) + 1]
                 i == (k - 1) % 9
             IN IF i = 0 THEN Defn(t, "x") ELSE DefnInit(t, "x", Inits[i])]
YItems == [k \in 1..(16 * 5) |->
             DefnInit(DefnTypes[((k - 1) \div 5) + 1], "y", Uses[((k - 1) % 5) + 1])]

(* An x of every type an initializer can give it.                          *)
Typed == {Defn(t, "x") : t \in {var, int, set_const(int), string, List(int), List(var),
                                List(Of(<<int, string>>)), Of(<<Of(<<int, string>>)>>)}}
           \cup {DefnInit(tuple, "x", i) : i \in Range(SubSeq(Inits, 3, 8))}
           \cup {DefnInit(t, "x", Tuple(<<One, S>>)) :
                   t \in {list, set_const(list), Of(<<int, string>>), set_const(tuple)}}

With(params, name, stmts) == FunctionDefn(name, params, Compound(stmts))
F(name, stmts)            == With(<<>>, name, stmts)

(* What a function may do with x: every operator. *)
Operations == <<
  Binary("assign", X, One), Binary("assign", X, S), Binary("assign", X, Tuple(<<One>>)),
  Binary("assign", X, Tuple(<<One, S>>)), Binary("assign", Subscript(X, One), One),
  Binary("assign", Z, Binary("assign", X, Z)),
  Binary("add_assign", X, One), Binary("add", X, One), Binary("less", X, X),
  Binary("eq", X, Tuple(<<One>>)), Binary("comma", X, S), Unary("not", X),
  Unary("negate", X), Unary("increment", X), Subscript(X, X), Call(X, <<One, X>>),
  AndAnd(X, True), OrOr(X, X)>>
OItems == [k \in DOMAIN Operations |->
             F("f", <<Defn(var, "z"), Do(Operations[k])>>)]

(* Blocks, and what is defined in them. *)
Incr == Unary("increment", X)
BItems == <<
  F("f", <<Do(X), Defn(int, "x"), Do(X)>>),
  F("f", <<DefnInit(int, "x", X), Do(X)>>),
  F("f", <<Compound(<<Defn(int, "x")>>), Do(X)>>),
  F("f", <<Defn(string, "x"), Compound(<<Defn(int, "x"), Do(Incr)>>), Do(X)>>),
  F("f", <<If(True, Compound(<<Defn(int, "x")>>)), Do(X)>>),
  F("f", <<IfElse(X, Compound(<<Defn(int, "x")>>), Compound(<<Do(X)>>)), Do(X)>>),
  F("f", <<For(Defn(int, "x"), X, Incr, Compound(<<Defn(int, "z")>>)), Do(X), Do(Z)>>),
  F("f", <<While(X, Compound(<<Defn(int, "x"), Do(X)>>)), Return(X)>>),
  F("f", <<DoWhile(Compound(<<Defn(int, "x")>>), X)>>),
  F("f", <<Switch(X, Compound(<<Case(One, Defn(int, "x")), Case(X, Goto)>>))>>),
  F("f", <<Do(Args), Do(Args)>>),
  F("f", <<Do(Subscript(Args, One)), Defn(int, "args"), Do(Args)>>),
  F("f", <<Defn(int, "args"), Do(Args)>>),
  F("f", <<DefnInit(func, "z", Function(<<>>, Compound(<<Do(Args), Do(X)>>))), Do(Args)>>),
  F("f", <<Defn(int, "z"), DefnInit(int, "z", One)>>),
  F("x", <<Defn(int, "z"), DefnInit(string, "y", Z), Do(X)>>),
  With(<<"x">>, "f", <<Do(X)>>),
  With(<<"x", "f">>, "f", <<Do(Call(Ident("f"), <<X>>)), Defn(int, "x"), Do(X)>>),
  With(<<"y">>, "x", <<Defn(int, "x"), DefnInit(func, "z",
    Function(<<"x", "z">>, Compound(<<Do(X), Do(Y), Do(Z), Do(Args)>>))), Do(X)>>),
  Discover(<<X, Call(X, <<>>)>>),
  Defn(int, "x"), DefnInit(int, "y", X), Defn(int, "z"), DefnInit(var, "y", Args)>>

(* Values: of a scalar type, or the members of a list or tuple, with a     *)
(* mark on those written as a literal.                                     *)
Scalar     == {[is |-> p] : p \in {"bool", "int", "string", "func"}}
Members(V) == {[is |-> "members", literal |-> l, of |-> m] :
                 l \in BOOLEAN, m \in UNION {[1..n -> V] : n \in 0..2}}
MCValue    == Scalar \cup Members(Scalar)
                \cup {[is |-> "members", literal |-> l, of |-> <<v>>] :
                        l \in BOOLEAN, v \in Members(Scalar)}

(* Pairs of items in one file, and small files to be combined.             *)
MCFile ==
  {<<x, Defn(bool, "y")>> : x \in Range(XItems)}
    \cup {<<x, u>> : x \in Typed, u \in Range(YItems) \cup Range(OItems)}
    \cup {<<b>> : b \in Range(BItems)} \cup {<<b, c>> : b, c \in Range(BItems)}
=============================================================================
