----------------------------- MODULE Validation -----------------------------
(***************************************************************************)
(* The Environment of the PP language (language/environment.cc): files are *)
(* parsed, and validate() resolves their symbols and checks their types    *)
(* (language/syntax_tree.h) with a stack of symbol tables                  *)
(* (util/symbol_table.h), until the first SyntaxError.                     *)
(*                                                                         *)
(* A file is a list of items, each a definition or a discover() statement; *)
(* no file names a module or has public symbols.                           *)
(* One check of one node is one step.  That evaluate() is a stub shows in  *)
(* one place: the constant index of a tuple is always taken for 0.         *)
(***************************************************************************)
EXTENDS SyntaxTree, FiniteSetsExt

CONSTANTS
  File,       \* the files there are to parse: sequences of statements
  NameCount,  \* file names are 1..NameCount, in the order of their std::map
  Value,      \* values: scalars, and lists and tuples of values
  MaxItems, MaxValidates  \* bounds on the items parsed and the calls of validate()

ASSUME BoundsAssumption == {NameCount, MaxItems, MaxValidates} \subseteq Nat
ASSUME ValueAssumption ==
  Value \subseteq [is : Primitive \ {"list", "tuple", "var"}]
                    \cup [is : {"members"}, literal : BOOLEAN, of : Seq(Value)]
ASSUME FileAssumption == File \subseteq Seq(Statement)

VARIABLES
  objs,      \* every ParsedFile ever saved
  parsed,    \* m_parsed_files: the ParsedFile of a name, 0 for none
  marked,    \* of every ParsedFile, how many of its items have m_validated set
  symtab,    \* m_symtab: the stack of contexts, the current one last
  args_done, \* m_validated of the one definition of "args" there is
  status,    \* "idle", "running" in validate(), or "dead" of a null reference
  strict,    \* error_on_unresolved_symbols() of the call
  cur,       \* the item validate() is at: its ParsedFile, its number there
  pc,        \* the number of its check that is next
  vals,      \* of the parts checked: result_type() and is_constexpr()
  calls,     \* the calls of validate() so far
  text,      \* the items validated to their end, in order (history)
  failed,    \* has there been a SyntaxError? (history)
  last       \* what the last check has resolved or accepted (history)

env  == <<objs, parsed, marked, symtab, args_done>>
vars == <<env, status, strict, cur, pc, vals, calls, text, failed, last>>

None    == <<>>
NoDef   == <<0, 0, 0>>
ArgsDef == <<0, 0, 1>>   \* a definition is a ParsedFile, an item and a check
Nothing == [kind |-> "nothing"]

(* list<var> args: the definition every function literal adds.             *)
ArgsType == WithArgs(Type("list"), <<Type("var")>>)

code   == objs[cur[1]][cur[2]]
visit  == code[pc]

(* result_type() of the parts of a node, in order, and is_constexpr().     *)
Operand(i) == vals[Len(vals) - visit.n + i]
T(i)       == Operand(i).type
Constexpr  == \A i \in 1..visit.n : Operand(i).constexpr
-----------------------------------------------------------------------------
(* The symbol table.                                                       *)
Current == symtab[Len(symtab)]

(* (Mutation of lookup: the outermost context first.)                      *)
lookupOutermost(sym) ==
  LET in == {c \in DOMAIN symtab : sym \in DOMAIN symtab[c]}
  IN IF in = {} THEN None ELSE <<symtab[Min(in)][sym]>>

lookup(sym) ==
  LET in == {c \in DOMAIN symtab : sym \in DOMAIN symtab[c]}
  IN IF in = {} THEN None ELSE <<symtab[Max(in)][sym]>>

Adding(sym, def, type) ==
  [symtab EXCEPT ![Len(symtab)] =
     [s \in DOMAIN @ \cup {sym} |-> IF s = sym THEN [def |-> def, type |-> type] ELSE @[s]]]

-----------------------------------------------------------------------------
Init ==
  /\ objs = <<>>
  /\ parsed = [n \in 1..NameCount |-> 0]
  /\ marked = <<>>
  /\ symtab = <<<<>>>>
  /\ args_done \in BOOLEAN  \* another Environment may have used it before
  /\ status = "idle"
  /\ strict = FALSE /\ cur = <<0, 0>> /\ pc = 0 /\ vals = <<>>
  /\ calls = 0
  /\ text = <<>> /\ failed = FALSE /\ last = Nothing

(* The symbol that a statement defines at file scope, if it does.          *)
Defined(c) == IF c # <<>> /\ Last(c).op = "define" THEN <<Last(c).sym>> ELSE None

SumItems(fs) == Len(FlattenSeq(fs))

(* Environment::parse_file(): the parser throws if a symbol is defined     *)
(* twice at file scope.  A ParsedFile that had the name before has no      *)
(* owner any more, but its definitions stay in the symbol table.           *)
ParseFile(n, f) ==
  /\ status = "idle"
  /\ SumItems(objs) + Len(f) <= MaxItems
  /\ \A i, j \in DOMAIN f : i # j /\ Defined(f[i]) = Defined(f[j]) => Defined(f[i]) = None
  /\ objs' = Append(objs, f)
  /\ marked' = Append(marked, 0)
  /\ parsed' = [parsed EXCEPT ![n] = Len(objs')]
  /\ UNCHANGED <<symtab, args_done, status, strict, cur, pc, vals, calls,
                 text, failed, last>>

(* Environment::validate(): the files in the order of their names, and of  *)
(* each the items that are not marked yet.                                 *)
Validate(s) ==
  /\ status = "idle"
  /\ calls < MaxValidates
  /\ calls' = calls + 1
  /\ status' = "running"
  /\ strict' = s
  /\ UNCHANGED <<env, cur, pc, vals, text, failed, last>>

(* The files with items that validate() has still to come to.              *)
Unmarked == {n \in 1..NameCount : parsed[n] # 0 /\ marked[parsed[n]] < Len(objs[parsed[n]])}

(* validate_once() of an item: it is marked before it is validated.        *)
BeginItem ==
  /\ status = "running" /\ pc = 0
  /\ Unmarked # {}
  /\ LET o == parsed[Min(Unmarked)]
         k == marked[o] + 1
     IN /\ marked' = [marked EXCEPT ![o] = k]
        /\ cur' = <<o, k>>
  /\ pc' = 1
  /\ UNCHANGED <<objs, parsed, symtab, args_done, status, strict, vals, calls,
                 text, failed, last>>

EndItem ==
  /\ status = "running" /\ pc > 0
  /\ pc > Len(code)
  /\ text' = Append(text, cur)
  /\ pc' = 0 /\ last' = Nothing
  /\ UNCHANGED <<env, status, strict, cur, vals, calls, failed>>

EndValidate ==
  /\ status = "running" /\ pc = 0
  /\ Unmarked = {}
  /\ status' = "idle"
  /\ UNCHANGED <<env, strict, cur, pc, vals, calls, text, failed, last>>

At(op) == status = "running" /\ pc > 0 /\ pc <= Len(code) /\ visit.op = op

Go == pc' = pc + 1 /\ UNCHANGED <<status, failed>>

(* A SyntaxError leaves validate(); the symbol table stays as it is.       *)
SyntaxError ==
  /\ status' = "idle"
  /\ pc' = 0 /\ vals' = <<>>
  /\ failed' = TRUE /\ last' = Nothing
  /\ UNCHANGED symtab

(* What no check changes.                                                  *)
Keep == UNCHANGED <<objs, parsed, marked, strict, cur, calls, text>>

Pushed(type, constexpr) ==
  Append(SubSeq(vals, 1, Len(vals) - visit.n), [type |-> type, constexpr |-> constexpr])

NewScope ==
  /\ At("new_scope")
  /\ symtab' = Append(symtab, <<>>)
  /\ last' = Nothing
  /\ UNCHANGED <<args_done, vals>>
  /\ Go /\ Keep

(* (Mutation of PopContext: it stops one context early.)                   *)
PopContextEarly == IF Len(symtab) > 2 THEN Front(symtab) ELSE symtab

PopContext == IF Len(symtab) > 1 THEN Front(symtab) ELSE symtab

EndScope ==
  /\ At("end_scope")
  /\ symtab' = PopContext
  /\ last' = Nothing
  /\ UNCHANGED <<args_done, vals>>
  /\ Go /\ Keep

AddArgs ==
  /\ At("args")
  /\ symtab' = IF "args" \in DOMAIN Current THEN symtab
               ELSE Adding("args", ArgsDef, ArgsType)
  /\ last' = Nothing
  /\ UNCHANGED <<args_done, vals>>
  /\ Go /\ Keep

(* ParameterDeclaration: validate() has nothing to check, and adds nothing *)
(* to the symbol table.                                                    *)
Parameter ==
  /\ At("param")
  /\ last' = Nothing
  /\ UNCHANGED <<symtab, args_done, vals>>
  /\ Go /\ Keep

(* IdentifierExpression: the definition found is validated if it has not   *)
(* been.  All but that of "args" have; that one is, on its first use, also *)
(* added to the scope of the use.                                          *)
Resolve ==
  /\ At("use")
  /\ LET def == lookup(visit.sym)
         fresh == def # None /\ def[1].def = ArgsDef /\ ~args_done
     IN /\ args_done' = (args_done \/ fresh)
        /\ IF \/ def = None /\ strict
              \/ fresh /\ "args" \in DOMAIN Current
           THEN SyntaxError
           ELSE
             /\ vals' = Append(vals, IF def = None THEN [type |-> Type("var"), constexpr |-> FALSE]
                                     ELSE [type |-> def[1].type,
                                           constexpr |-> is_const(def[1].type)])
             /\ symtab' = IF fresh THEN Adding("args", ArgsDef, ArgsType) ELSE symtab
             /\ last' = [kind |-> "use", sym |-> visit.sym,
                         def |-> IF def = None THEN NoDef ELSE def[1].def]
             /\ Go
  /\ Keep
-----------------------------------------------------------------------------
(* The checks of expressions: validate(), result_type(), is_constexpr().   *)
IntLike == {"int", "var"}
Prim(i) == T(i).primitive

Valid ==
  CASE visit.op = "not" -> Prim(1) \in {"bool", "var"}
    [] visit.op = "increment" -> ~is_const(T(1)) /\ Prim(1) \in IntLike
    [] visit.op = "negate" -> Prim(1) \in IntLike
    [] visit.op = "eq" -> is_comparable_to(T(1), T(2))
    [] visit.op = "assign" -> ~is_const(T(1)) /\ is_assignable_from(T(1), T(2), FALSE)
    [] visit.op \in {"less"} \cup Arithmetic -> Prim(1) \in IntLike /\ Prim(2) \in IntLike
    [] visit.op = "subscript" ->
         /\ Prim(1) \in {"list", "tuple", "var"}
         /\ Prim(2) \in IntLike
         /\ Prim(1) = "tuple" /\ Operand(2).constexpr => T(1).arguments # <<>>
    [] OTHER -> TRUE

ResultType ==
  CASE visit.op \in {"not", "eq", "less"} -> Type("bool")
    [] visit.op \in {"increment", "negate"} \cup Arithmetic -> Type("int")
    [] visit.op = "assign" -> IF is_equal_to(T(1), Type("var")) THEN T(2) ELSE T(1)
    [] visit.op = "comma" -> T(2)
    [] visit.op = "conditional" -> IF is_equal_to(T(2), T(3)) THEN T(2) ELSE Type("var")
    [] visit.op = "call" -> Type("var")
    [] visit.op = "subscript" ->
         IF \/ Prim(1) = "var" \/ T(1).arguments = <<>>
            \/ Prim(1) = "tuple" /\ ~Operand(2).constexpr
         THEN Type("var") ELSE T(1).arguments[1]
    [] visit.op = "tuple" ->
         WithArgs(Literally(Type("tuple")), [i \in 1..visit.n |-> T(i)])

IsConstexpr ==
  CASE visit.op \in {"not", "negate", "eq", "less", "add", "comma", "conditional", "subscript"} ->
         Constexpr
    [] visit.op = "tuple" -> TRUE
    [] OTHER -> FALSE

Operators == UnaryOps \cup BinaryOps \cup {"conditional", "call", "tuple"}

(* A tuple has the types of its members nested in its own.                 *)
CanNest == visit.op = "tuple" => \A i \in 1..visit.n : T(i) \in Nested[MaxNesting - 1]

Operate ==
  /\ \E op \in Operators : At(op)
  /\ CanNest
  /\ UNCHANGED args_done
  /\ IF ~Valid
     THEN SyntaxError
     ELSE /\ vals' = Pushed(ResultType, IsConstexpr)
          /\ last' = IF visit.op = "assign"
                     THEN [kind |-> "accepted", to |-> T(1), from |-> T(2)] ELSE Nothing
          /\ UNCHANGED symtab
          /\ Go
  /\ Keep

PushLiteral ==
  /\ At("literal")
  /\ vals' = Append(vals, [type |-> visit.type, constexpr |-> TRUE])
  /\ last' = Nothing
  /\ UNCHANGED <<symtab, args_done>>
  /\ Go /\ Keep

(* The statement around an expression has no use for its type.             *)
Drop ==
  /\ At("drop")
  /\ vals' = Front(vals)
  /\ last' = Nothing
  /\ UNCHANGED <<symtab, args_done>>
  /\ Go /\ Keep
-----------------------------------------------------------------------------
Bare(t) == t.primitive \in {"list", "tuple"} /\ t.arguments = <<>>

(* argument(0) of an initializer that has none is a reference to nowhere.  *)
NoSuchArgument(t, init) ==
  t.primitive = "list" /\ Bare(t) /\ init # <<>> /\ Bare(init[1])

(* detect_final_type_from_init(): the arguments of "list" and "tuple" are  *)
(* those of the initializer, or else var.                                  *)
FinalType(t, init) ==
  IF ~Bare(t) THEN t
  ELSE IF init = <<>> THEN WithArgs(t, IF t.primitive = "list" THEN <<Type("var")>> ELSE <<>>)
  ELSE LET from == init[1].arguments
       IN CASE t.primitive = "list" /\ init[1].primitive = "list" -> WithArgs(t, <<from[1]>>)
            [] t.primitive = "list" /\ init[1].primitive = "tuple" ->
                 WithArgs(t, IF \A i \in DOMAIN from : is_equal_to(from[i], from[1])
                             THEN <<from[1]>> ELSE <<Type("var")>>)
            [] t.primitive = "tuple" /\ init[1].primitive = "tuple" -> WithArgs(t, from)
            [] OTHER -> t

(* Definition: the symbol is there from here on, not in its initializer.   *)
Define ==
  /\ At("define")
  /\ UNCHANGED args_done
  /\ LET init == [i \in 1..visit.n |-> T(i)]
         final == FinalType(visit.type, init)
     IN IF NoSuchArgument(visit.type, init)
        THEN /\ status' = "dead"
             /\ UNCHANGED <<symtab, pc, vals, failed, last>>
        ELSE IF \/ visit.type.primitive = "tuple" /\ Bare(visit.type) /\ init = <<>>
                \/ init # <<>> /\ ~is_initializable_from(final, init[1])
                \/ visit.sym \in DOMAIN Current
             THEN SyntaxError
             ELSE /\ symtab' = Adding(visit.sym, <<cur[1], cur[2], pc>>, final)
                  /\ vals' = SubSeq(vals, 1, Len(vals) - visit.n)
                  /\ last' = IF init = <<>> THEN Nothing
                             ELSE [kind |-> "accepted", to |-> final, from |-> init[1]]
                  /\ Go
  /\ Keep

Next ==
  \/ /\ SumItems(objs) < MaxItems
     /\ \E n \in 1..NameCount, f \in File : ParseFile(n, f)
  \/ \E s \in BOOLEAN : Validate(s)
  \/ BeginItem \/ EndItem \/ EndValidate
  \/ NewScope \/ EndScope \/ AddArgs \/ Parameter \/ Resolve
  \/ Operate \/ PushLiteral \/ Drop \/ Define

Spec == Init /\ [][Next]_vars

-----------------------------------------------------------------------------
(* The stack of contexts never gets empty (symbol_table.h:115), and        *)
(* without an error it is as deep as the blocks around the check that is   *)
(* next; the parts of a node are there when the node is checked.           *)
TypeOK ==
  /\ Len(marked) = Len(objs)
  /\ \A o \in DOMAIN objs : marked[o] \in 0..Len(objs[o])
  /\ parsed \in [1..NameCount -> 0..Len(objs)]
  /\ status \in {"idle", "running", "dead"}
  /\ Len(symtab) >= 1
  /\ ~failed => Len(symtab) = 1 + (IF pc = 0 THEN 0 ELSE Depth(code, 0, pc - 1))
  /\ status = "running" /\ pc > 0 =>
       (pc <= Len(code) /\ "n" \in DOMAIN visit => Len(vals) >= visit.n)
  /\ pc = 0 => vals = <<>>

(* Where a symbol is defined before its use: by the last definition in a   *)
(* block around the use, else at file scope in an item before.             *)
Defines(c, j, sym) ==
  \/ c[j].op = "define" /\ c[j].sym = sym
  \/ c[j].op = "args" /\ sym = "args"

InBlockAround(c, j, p) == \A k \in j..(p - 1) : Depth(c, j, k) >= 0

InTheItem(sym, p) == {j \in 1..(p - 1) : Defines(code, j, sym) /\ InBlockAround(code, j, p)}

AtFileScope(sym) ==
  UNION {LET c == objs[i[1]][i[2]]
         IN {<<i[1], i[2], j>> :
               j \in {k \in 1..Len(c) : Defines(c, k, sym) /\ InBlockAround(c, k, Len(c) + 1)}}
         : i \in Range(text)}

DefinitionAt(j) == IF code[j].op = "args" THEN ArgsDef ELSE <<cur[1], cur[2], j>>

DefinedBefore(sym, p) ==
  IF InTheItem(sym, p) # {} THEN DefinitionAt(Max(InTheItem(sym, p)))
  ELSE IF AtFileScope(sym) # {} THEN CHOOSE d \in AtFileScope(sym) : TRUE
  ELSE NoDef

(* What else C has in scope in the function and the initializer around a   *)
(* use: the parameters of the one, the variable that the other is for.     *)
Surrounds(k, sym, p) ==
  \/ /\ code[k].op = "param" /\ code[k].sym = sym
     /\ \A i \in p..k : Depth(code, i, k) <= 0
  \/ /\ code[k].op = "define" /\ code[k].sym = sym
     /\ p >= k - code[k].init

(* ... if no definition before the use is further in.                      *)
Surrounding(sym, p) ==
  {k \in (p + 1)..Len(code) :
     /\ Surrounds(k, sym, p)
     /\ \A j \in InTheItem(sym, p) : Depth(code, j, k) >= 0}

(* The innermost declaration, as C has it, of all files validated so far.  *)
Lexical(sym, p) ==
  IF Surrounding(sym, p) # {} THEN DefinitionAt(Min(Surrounding(sym, p)))
  ELSE DefinedBefore(sym, p)

(* Until there is a SyntaxError a symbol resolves as in C, for which the   *)
(* symbol table is made (symbol_table.h:10-12), to the innermost           *)
(* declaration in scope or to none if there is none, but for the two sorts *)
(* of declarations that validate() does not add in time: a parameter, not  *)
(* at all (syntax_tree.h:1449-1453), and a variable, or function, in its   *)
(* own initializer or body (305-331).  A use of these resolves to what is  *)
(* defined further out, or to nothing.                                     *)
ResolvesLexically ==
  last.kind = "use" /\ ~failed =>
    \/ last.def = Lexical(last.sym, pc - 1)
    \/ /\ Surrounding(last.sym, pc - 1) # {}
       /\ last.def = DefinedBefore(last.sym, pc - 1)

(* Does an expression of type t have the value v?  No expression is of a   *)
(* list type that does not say what of.                                    *)
Gives[tv \in AnyType \X Value] ==
  LET t == tv[1]
      v == tv[2]
  IN \/ /\ t.primitive = "list" /\ ~Bare(t)
        /\ v.is = "members" /\ ~v.literal
        /\ \A i \in DOMAIN v.of : Gives[<<t.arguments[1], v.of[i]>>]
     \/ /\ t.primitive = "tuple"
        /\ v.is = "members" /\ v.literal = is_literal(t)
        /\ Len(v.of) = Len(t.arguments)
        /\ \A i \in DOMAIN v.of : Gives[<<t.arguments[i], v.of[i]>>]
     \/ t.primitive \notin {"list", "tuple"} /\ v.is = t.primitive

(* Can a variable of type t hold it?  A tuple literal may leave members    *)
(* out at the end.                                                         *)
Holds[tv \in AnyType \X Value] ==
  LET t == tv[1]
      v == tv[2]
  IN \/ t.primitive = "var"
     \/ Bare(t) /\ v.is = "members"
     \/ /\ t.primitive = "list" /\ ~Bare(t)
        /\ v.is = "members"
        /\ \A i \in DOMAIN v.of : Holds[<<t.arguments[1], v.of[i]>>]
     \/ /\ t.primitive = "tuple" /\ ~Bare(t)
        /\ v.is = "members"
        /\ Len(v.of) = Len(t.arguments) \/ (v.literal /\ Len(v.of) < Len(t.arguments))
        /\ \A i \in DOMAIN v.of : Holds[<<t.arguments[i], v.of[i]>>]
     \/ t.primitive \notin {"var", "list", "tuple"} /\ v.is = t.primitive

(* Is all known of the values of a type?                                   *)
Definite[t \in AnyType] ==
  /\ t.primitive # "var"
  /\ Bare(t) => t.primitive = "tuple" /\ is_literal(t)
  /\ \A i \in DOMAIN t.arguments : Definite[t.arguments[i]]

(* "Type assignability is strict" (type.h:118): a variable that a value    *)
(* has been accepted for, in a definition or an assignment, can hold every *)
(* value of that type, unless var leaves it to be checked at runtime.      *)
AcceptedIsSound ==
  last.kind = "accepted" /\ Definite[last.from] =>
    \A v \in Value : Gives[<<last.from, v>>] => Holds[<<last.to, v>>]
=============================================================================
