------------------------------ MODULE DeviceCode ------------------------------
(***************************************************************************)
(* The statements that the device files of devices/ are written in         *)
(* (fake_language.h), as data, and what they look up.  A device is         *)
(* described by a sequence of statements: OPEN_SCOPE, REG, FIELD, the      *)
(* types, ALIAS, BOOKMARK, and the conditions, loops and calls of C++      *)
(* around them.                                                            *)
(*                                                                         *)
(* The device tree is the sequence of scopes that are open, from the root  *)
(* to the current one; each holds the dirents that are finished, and the   *)
(* record of a scope goes back into its parent when the path leaves it.    *)
(* A path is a sequence of names, "..", "$bookmark" and, behind the name   *)
(* of an array, "[i]"; "/" in front makes it absolute.  Of a field only    *)
(* what some condition of the device files reads has a value.              *)
(***************************************************************************)
EXTENDS Integers, Sequences, SequencesExt, FiniteSets, TLC

Up(n) == <<"..", n>>
Anon  == <<"(anonymous)">>   \* REGn(address): a register without a name

NoKeys  == <<>>
NoValue == -1
YesNo   == [no |-> 0, yes |-> 1]

(* Statements.  F, V and their like take the types a FIELD names and the   *)
(* registers its BITS name: both must be found when the statement runs.    *)
Open(n)              == [op |-> "open", name |-> n, next |-> FALSE, bound |-> FALSE]
OpenNext(n)          == [Open(n) EXCEPT !.next = TRUE]
OpenBound(n)         == [Open(n) EXCEPT !.bound = TRUE]
Close                == [op |-> "close"]
Bookmark(n)          == [op |-> "bookmark", name |-> n]
R(names)             ==
  [op |-> "reg", names |-> ToSet(names), next |-> FALSE, width |-> 0]
RW(n, w)             == [op |-> "reg", names |-> {n}, next |-> FALSE, width |-> w]
RNext(n)             == [op |-> "reg", names |-> {n}, next |-> TRUE, width |-> 0]
T(names)             == [op |-> "type", names |-> ToSet(names)]
F(types, regs, names) ==
  [op |-> "field", types |-> types, regs |-> regs, names |-> ToSet(names),
   next |-> FALSE, keys |-> NoKeys, from |-> "", val |-> NoValue]
FNext(types, regs, n) == [F(types, regs, <<n>>) EXCEPT !.next = TRUE]
VFrom(types, regs, n, keys, k) ==
  [F(types, regs, <<n>>) EXCEPT !.keys = keys, !.from = k]
V(types, regs, n, keys) == VFrom(types, regs, n, keys, n)
Const(types, n, keys, v) == [F(types, {}, <<n>>) EXCEPT !.keys = keys, !.val = v]
Bit(reg, i)          == [op |-> "bit", reg |-> reg, bit |-> i]
Alias(n, path)       ==
  [op |-> "alias", name |-> n, label |-> <<>>, next |-> FALSE, to |-> path]
AliasNext(n, path)   == [Alias(n, path) EXCEPT !.next = TRUE]
AliasOf(n, label, path) == [AliasNext(n, path) EXCEPT !.label = label]
Read(path)           == [op |-> "read", path |-> path]
If(c, then, else)    == [op |-> "if", cond |-> c, then |-> then, else |-> else]
When(c, then)        == If(c, then, <<>>)
Case(path, alts, else) == [op |-> "case", path |-> path, alts |-> alts, else |-> else]
Rev(path, alts)      == Case(path, alts, <<>>)   \* K8: by the revision
Call(fn, arg)        == [op |-> "call", fn |-> fn, arg |-> arg]
Run(fns)             == [i \in DOMAIN fns |-> Call(fns[i], 0)]
\* the call of a function with the value of a field or register
CallWith(fn, path)   == [op |-> "callwith", fn |-> fn, path |-> path]
\* the same with the name of the value: "$pci/" + evaluate() + "/address"
ReadBy(path, label, tail) ==
  [op |-> "readby", path |-> path, label |-> label, tail |-> tail]

Repeat(n, body)      == FlattenSeq([i \in 1..n |-> body])
Each(names, Body(_)) == FlattenSeq([i \in DOMAIN names |-> Body(names[i])])

(* Conditions: FIELD_EQ and its like, DEFINED, && and ||, which stop at    *)
(* the operand that decides.                                               *)
Eq(path, key)    == [is |-> "key", path |-> path, keys |-> {key}]
EqAny(path, keys) == [is |-> "key", path |-> path, keys |-> ToSet(keys)]
EqN(path, n)     == [is |-> "eq", path |-> path, n |-> n]
GeN(path, n)     == [is |-> "ge", path |-> path, n |-> n]
GtN(path, n)     == [is |-> "ge", path |-> path, n |-> n + 1]
Bool(path)       == [is |-> "ge", path |-> path, n |-> 1]
Test(path, n)    == [is |-> "test", path |-> path, n |-> n]
TestKey(path, key) == [is |-> "testkey", path |-> path, keys |-> {key}]
Defined(path)    == [is |-> "defined", path |-> path]
And(a, b)        == [is |-> "and", a |-> a, b |-> b]
Or(a, b)         == [is |-> "or", a |-> a, b |-> b]
Not(a)           == [is |-> "not", a |-> a]
\* a test of a register rather than a field: whether the device says so
Holds(k)         == [is |-> "hw", k |-> k]

(* global.cc: the types of every device.                                   *)
GlobalTypes ==
  {"int_t", "hex_t", "hex4_t", "hex8_t", "hex12_t", "hex16_t", "hex20_t", "hex32_t",
   "hex64_t", "hex128_t", "addr16_t", "addr32_t", "addr64_t", "string_t", "yesno_t",
   "truefalse_t", "onoff_t", "enabledisable_t", "disableenable_t", "bitmask_t"}

-----------------------------------------------------------------------------
(* Dirents.                                                                *)
NewScope(n, i, bound) ==
  [kind |-> "scope", name |-> n, index |-> i, kids |-> <<>>, marks |-> {},
   types |-> {}, bound |-> bound]
Register(w)    == [kind |-> "register", width |-> w]
Field(keys, v, backed) ==
  [kind |-> "field", keys |-> keys, val |-> v, backed |-> backed]
AliasTo(path)  == [kind |-> "alias", to |-> path]

Has(fs, n)   == n \in DOMAIN Last(fs).kids
Count(fs, n) == IF Has(fs, n) THEN Len(Last(fs).kids[n].elems) ELSE 0

(* add_dirent(): a name that is there already is given the new dirent,     *)
(* name[] is one more element.  An array takes dirents of one kind.        *)
Put(fs, names, node) ==
  [fs EXCEPT ![Len(fs)].kids =
    [n \in names \cup DOMAIN @ |-> IF n \in names THEN node ELSE @[n]]]
Accepts(fs, n, node) ==
  Has(fs, n) => /\ Last(fs).kids[n].kind = "array"
                /\ Last(fs).kids[n].type = node.kind
PutNext(fs, n, node) ==
  LET old == IF Has(fs, n) THEN Last(fs).kids[n].elems ELSE <<>>
  IN Put(fs, {n}, [kind |-> "array", type |-> node.kind, elems |-> Append(old, node)])

(* The parent is current again: the scope left is a dirent of it, as the   *)
(* scope is now.  The root is its own parent.                              *)
Leave(fs) ==
  LET top == Last(fs)
      up  == Front(fs)
  IN IF Len(fs) = 1 THEN fs
     ELSE IF top.index = 0 THEN Put(up, {top.name}, top)
     ELSE [up EXCEPT ![Len(up)].kids[top.name].elems[top.index] = top]
Climb(fs, k) == FoldLeft(LAMBDA g, i : Leave(g), fs, [i \in 1..(Len(fs) - k) |-> i])

Subscript(i) == "[" \o ToString(i) \o "]"
IndexOf      == [t \in {Subscript(i) : i \in -1..127} |->
                   CHOOSE i \in -1..127 : t = Subscript(i)]
IsIndex(t)   == t \in DOMAIN IndexOf \/ t = "[]"

Path(fs) ==
  FlattenSeq([i \in DOMAIN Tail(fs) |->
    <<fs[i + 1].name>> \o (IF fs[i + 1].index = 0 THEN <<>>
                           ELSE <<Subscript(fs[i + 1].index - 1)>>)])

(* What a walk comes to: an error; or the dirent, the scopes down to it if *)
(* it is a scope and else to the scope it lies in, and its path from the   *)
(* root, as it was asked for: with the names of the aliases on it.         *)
Found(fs, node, at) == [err |-> "", fs |-> fs, node |-> node, at |-> at]
Failed(e)           == [err |-> e]
NotFound            == Failed("NotFoundError")
ConversionError     == Failed("ConversionError")
InvalidError        == Failed("InvalidError")

Enter(fs, node, at) ==
  Found(IF node.kind = "scope" THEN Append(fs, node) ELSE fs, node, at)

UpFrom(fs, at) ==
  LET n == Len(at) - (IF at # <<>> /\ IsIndex(Last(at)) THEN 2 ELSE 1)
  IN Found(fs, Last(fs), SubSeq(at, 1, n))

Reached(fs) == Found(fs, Last(fs), Path(fs))
Nearest(fs, marked) ==
  IF marked = {} THEN NotFound
  ELSE Reached(Climb(fs, CHOOSE k \in marked : \A j \in marked : j <= k))
ToBookmark(fs, mark) == Nearest(fs, {k \in DOMAIN fs : mark \in fs[k].marks})

\* (Mutation of Entry: a negative index goes to the path as it was written.)
EntryFromTheEnd(fs, de, n, i, at) ==
  IF de.kind # "array" THEN ConversionError
  ELSE IF i \notin 0..(Len(de.elems) - 1) THEN NotFound
  ELSE Enter(fs, de.elems[i + 1], at \o <<n, Subscript(i - Len(de.elems))>>)
Entry(fs, de, n, i, at) ==
  IF de.kind # "array" THEN ConversionError
  ELSE IF i \notin 0..(Len(de.elems) - 1) THEN NotFound
  ELSE Enter(fs, de.elems[i + 1], at \o <<n, Subscript(i)>>)
\* a negative index counts from the end; x[] is the element to be made
Element(fs, n, i, at) ==
  IF ~Has(fs, n) THEN NotFound
  ELSE Entry(fs, Last(fs).kids[n], n, IF i < 0 THEN Count(fs, n) + i ELSE i, at)

Step(fs, path, at) ==
  LET n == Head(path)
  IN IF n = ".." THEN UpFrom(Leave(fs), at)
     ELSE IF n \in {"$pci", "$k8", "$cpu", "$cpuid", "$msr"} THEN ToBookmark(fs, n)
     ELSE IF Len(path) > 1 /\ path[2] \in DOMAIN IndexOf
          THEN Element(fs, n, IndexOf[path[2]], at)
     ELSE IF ~Has(fs, n) \/ (Len(path) > 1 /\ path[2] = "[]") THEN NotFound
     ELSE Enter(fs, Last(fs).kids[n], Append(at, n))
Beyond(path) ==
  IF Len(path) > 1 /\ IsIndex(path[2]) THEN SubSeq(path, 3, Len(path)) ELSE Tail(path)

(* walk_path(), one element of the path after the other.  An alias on the  *)
(* way is always followed, one at the end only when asked to, and what an  *)
(* alias leads to is not followed again: the walk from the root along the  *)
(* path of the alias comes first, and the rest of the path is left behind  *)
(* until it is over.                                                       *)
Aside(w, step, rest) ==
  [to |-> Found(Climb(step.fs, 1), step.fs[1], <<>>), left |-> step.node.to,
   resolve |-> FALSE,
   behind |-> Append(w.behind, [left |-> rest, resolve |-> w.resolve, at |-> step.at])]
Onward(w, step, rest) ==
  IF step.err = "" /\ step.node.kind = "alias" /\ (rest # <<>> \/ w.resolve)
  THEN Aside(w, step, rest) ELSE [w EXCEPT !.to = step, !.left = rest]
BackFrom(w) ==
  LET b == Last(w.behind)
  IN [to |-> [w.to EXCEPT !.at = b.at], left |-> b.left, resolve |-> b.resolve,
      behind |-> Front(w.behind)]
Over(w)   == w.to.err # "" \/ (w.left = <<>> /\ w.behind = <<>>)
Follow(w) ==
  IF Over(w) THEN w
  ELSE IF w.left = <<>> THEN BackFrom(w)
  ELSE IF w.to.node.kind # "scope" THEN [w EXCEPT !.to = ConversionError]
  ELSE Onward(w, Step(w.to.fs, w.left, w.to.at), Beyond(w.left))

\* bound on the elements of all the paths that are walked for one
MaxMoves == 20
Walk(fs, path, resolve, at) ==
  LET after[n \in 0..MaxMoves] ==
        IF n = 0 THEN [to |-> Found(fs, Last(fs), at), left |-> path,
                       resolve |-> resolve, behind |-> <<>>]
        ELSE Follow(after[n - 1])
      w == after[MaxMoves]
  IN IF Over(w) THEN w.to ELSE Failed("not modelled")

LookUp(fs, path, resolve) ==
  LET absolute == path # <<>> /\ Head(path) = "/"
  IN Walk(IF absolute THEN Climb(fs, 1) ELSE fs,
          IF absolute THEN Tail(path) ELSE path, resolve,
          IF absolute THEN <<>> ELSE Path(fs))

(* DEFINED, GET_FIELD, GET_REGISTER and READ.                              *)
IsDefined(fs, path) == LookUp(fs, path, FALSE).err
GetDirent(fs, path) == LookUp(fs, path, TRUE)
OfKind(r, kinds) ==
  IF r.err = "" /\ r.node.kind \notin kinds THEN ConversionError ELSE r
GetKind(fs, path, kind) == OfKind(GetDirent(fs, path), {kind})

HasType(fs, t)     == \E i \in DOMAIN fs : t \in fs[i].types
HasBinding(fs)     == \E i \in DOMAIN fs : fs[i].bound
RegError(fs, path) ==
  IF path # Anon THEN GetKind(fs, path, "register").err
  ELSE IF HasBinding(fs) THEN "" ELSE "no binding"
RegErrors(fs, regs) == {RegError(fs, p) : p \in regs} \ {""}

(* evaluate() of an enumerated value: its key, or <!n!>, which no path may *)
(* have in it.                                                             *)
Labels(node) == {k \in DOMAIN node.keys : node.keys[k] = node.val}

(* compare() and test(): a key that the type does not have is an error.    *)
(* test() ANDs with what the type has for the key: of a bitmask that is    *)
(* the number of the bit, not its mask.                                    *)
AND(v, n) == \E b \in 0..30 : (v \div 2^b) % 2 = 1 /\ (n \div 2^b) % 2 = 1
Answer(truth) == IF truth THEN "TRUE" ELSE "FALSE"
ByKeys(node, c, truth) ==
  IF c.keys \subseteq DOMAIN node.keys THEN Answer(truth)
  ELSE "Datatype::InvalidError"
Compare(node, c) ==
  CASE node.val = NoValue -> "not modelled"
    [] c.is = "key"  -> ByKeys(node, c, \E k \in c.keys : node.val = node.keys[k])
    [] c.is = "testkey" ->
         ByKeys(node, c, \E k \in c.keys : AND(node.val, node.keys[k]))
    [] c.is = "eq"   -> IF /\ node.keys # NoKeys
                           /\ \A k \in DOMAIN node.keys : node.keys[k] # c.n
                        THEN "Datatype::InvalidError"
                        ELSE Answer(node.val = c.n)
    [] c.is = "ge"   -> Answer(node.val >= c.n)
    [] OTHER         -> Answer(AND(node.val, c.n))

\* (Mutation of IfFound: NotFoundError is not caught.)
IfFoundUncaught(e) == IF e = "" THEN "TRUE" ELSE e
IfFound(e) ==
  CASE e = "" -> "TRUE" [] e = "NotFoundError" -> "FALSE" [] OTHER -> e
Tested(r, c) == IF r.err # "" THEN r.err ELSE Compare(r.node, c)

(* The answer to a condition that is not made of others, or an error.      *)
Ask(fs, c, hw) ==
  CASE c.is = "hw"      -> Answer(c.k \in DOMAIN hw /\ hw[c.k] # 0)
    [] c.is = "defined" -> IfFound(IsDefined(fs, c.path))
    [] OTHER            -> Tested(GetKind(fs, c.path, "field"), c)
===============================================================================
