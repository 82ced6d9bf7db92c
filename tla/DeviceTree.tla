----------------------------- MODULE DeviceTree -----------------------------
(***************************************************************************)
(* The device tree and the statements of the PP language that build it:    *)
(* scopes, registers, fields, arrays, aliases and bookmarks (scope.h,      *)
(* array.h, alias.h), addressed by paths (path.h), and the context stack   *)
(* that OPEN_SCOPE and CLOSE_SCOPE move (fake_language.cc, runtime.cc).    *)
(*                                                                         *)
(* Dirents are heap objects: dirent[d] is what the pointer d points to.    *)
(* A scope owns its dirents, an array its elements; the parent of a scope  *)
(* and the scope of a context are weak pointers.                           *)
(***************************************************************************)
EXTENDS Integers, Sequences, FiniteSets, SequencesExt, FiniteSetsExt

CONSTANTS
  ScopeName,   \* names that may be given to a scope or a field
  RegName,     \* names that start with '%', for registers
  Mark,        \* bookmark names
  Path,        \* the paths the program looks up, as [abs, elems] records
  Target,      \* those it defines aliases to
  MaxDirents   \* bound on the dirents created, the root included

ASSUME NamesDisjoint == ScopeName \cap RegName = {}
ASSUME MaxDirentsIsNat == MaxDirents \in Nat \ {0}

VARIABLES
  dirent,  \* the live dirents
  created, \* how many were ever created; the next one gets this number
  stack    \* the scopes of the context stack, the current one last

vars == <<dirent, created, stack>>

Root == 0  \* the dirent number of m_root_scope

-----------------------------------------------------------------------------
(* Path elements.  ".." is an ordinary name to Path::Element. *)
Up            == [kind |-> "up"]
Named(n)      == [kind |-> "name", name |-> n]
Indexed(n, i) == [kind |-> "index", name |-> n, index |-> i]
Appended(n)   == [kind |-> "append", name |-> n]
Marked(m)     == [kind |-> "mark", name |-> m]

(* Path::is_initialized() *)
IsInitialized(p) == p.abs \/ p.elems # <<>>

(* Dirents. *)
NewScope(parent) ==
  [type |-> "scope", parent |-> parent, dirents |-> <<>>, bookmarks |-> {}]
NewArray(type, d) == [type |-> "array", of |-> type, elems |-> <<d>>]
NewAlias(p)       == [type |-> "alias", link |-> p]
(* A procedure register or field keeps a snapshot of the current context. *)
NewProc(type, s)  == [type |-> type, context |-> s]

IsScope(d) == dirent[d].type = "scope"
IsArray(d) == dirent[d].type = "array"
IsAlias(d) == dirent[d].type = "alias"
Scopes     == {d \in DOMAIN dirent : IsScope(d)}

Has(s, n) == n \in DOMAIN dirent[s].dirents

(* Scope::is_root(): the weak pointer to the parent has expired. *)
IsRoot(s) == dirent[s].parent \notin DOMAIN dirent

(* Scope::parent(): the root is its own parent. *)
Parent(s) == IF IsRoot(s) THEN s ELSE dirent[s].parent

(* The scopes from s up to the root, s first. *)
Climb(s) ==
  LET up[n \in Nat] == IF n = 0 THEN <<s>>
                       ELSE IF IsRoot(Last(up[n - 1])) THEN up[n - 1]
                       ELSE Append(up[n - 1], Parent(Last(up[n - 1])))
  IN up[MaxDirents]

-----------------------------------------------------------------------------
(* Scope::walk_path().  A walk ends with a dirent and the path written to  *)
(* out_path, with -1, with an exception, or (as the program would, in a    *)
(* stack overflow) not at all.                                             *)
Reached(d, out) == [end |-> "dirent", de |-> d, path |-> out]
NotFound        == [end |-> "notfound"]
Conversion      == [end |-> "conversion"]
Diverges        == [end |-> "diverges"]

Ups(n) == [i \in 1..n |-> Up]

(* The dirent the first element of a path stands for in scope s, before    *)
(* aliases are followed, and what is appended to or taken from out_path.   *)
(* (Mutation of FindUp: ".." is taken for a detour even after "..".)       *)
FindUpShortens(s, out) ==
  Reached(Parent(s), IF out # <<>> THEN Front(out) ELSE Append(out, Up))

FindUp(s, out) ==
  Reached(Parent(s),
          IF out # <<>> /\ Last(out) # Up THEN Front(out) ELSE Append(out, Up))

FindMark(s, m, out) ==
  LET line == Climb(s)
      hits == {i \in DOMAIN line : m \in dirent[line[i]].bookmarks}
  IN IF hits = {} THEN NotFound
     ELSE Reached(line[Min(hits)], out \o Ups(Min(hits) - 1))

FindName(s, e, out) ==
  IF Has(s, e.name) THEN Reached(dirent[s].dirents[e.name], Append(out, e))
  ELSE NotFound

(* (Mutation of FindInArray: the index goes to out_path as it was written.) *)
FindInArrayVerbatim(s, e, out) ==
  LET a == dirent[s].dirents[e.name]
      n == IF IsArray(a) THEN Len(dirent[a].elems) ELSE 0
      i == IF e.kind = "index" /\ e.index < 0 THEN n + e.index ELSE e.index
  IN CASE ~Has(s, e.name) -> NotFound
       [] Has(s, e.name) /\ ~IsArray(a) -> Conversion
       [] OTHER -> IF e.kind = "append" \/ i < 0 \/ i >= n THEN NotFound
                   ELSE Reached(dirent[a].elems[i + 1], Append(out, e))

FindInArray(s, e, out) ==
  IF ~Has(s, e.name) THEN NotFound
  ELSE LET a == dirent[s].dirents[e.name]
           n == IF IsArray(a) THEN Len(dirent[a].elems) ELSE 0
           i == IF e.kind = "index" /\ e.index < 0 THEN n + e.index ELSE e.index
       IN IF ~IsArray(a) THEN Conversion
          ELSE IF e.kind = "append" \/ i < 0 \/ i >= n THEN NotFound
          ELSE Reached(dirent[a].elems[i + 1], Append(out, Indexed(e.name, i)))

Find(s, e, out) ==
  CASE e.kind = "up"                  -> FindUp(s, out)
    [] e.kind = "mark"                -> FindMark(s, e.name, out)
    [] e.kind \in {"index", "append"} -> FindInArray(s, e, out)
    [] e.kind = "name"                -> FindName(s, e, out)

(* A walk under way: s is the scope it has reached, p the elements left,   *)
(* out the canonical path so far, follow the RESOLVE_ALIAS flag, and fuel  *)
(* the number of aliases that may still be followed inside one another.    *)
(* An alias followed inside itself is never done, so that MaxDirents are   *)
(* enough to tell a walk that ends from one that does not.                 *)
Name    == ScopeName \cup RegName
Element == {Up} \cup {Named(n) : n \in Name} \cup {Appended(n) : n \in Name}
             \cup {Marked(m) : m \in Mark}
             \cup [kind : {"index"}, name : Name, index : Int]
Walk    == [s : Scopes, p : Seq(Element), follow : BOOLEAN, out : Seq(Element),
            fuel : Nat]

ASSUME PathsAssumption == Path \cup Target \subseteq [abs : BOOLEAN, elems : Seq(Element)]

StartWalk(s, path, follow, fuel) ==
  LET line == Climb(s)
  IN [s |-> IF path.abs THEN Last(line) ELSE s, p |-> path.elems,
      follow |-> follow, fuel |-> fuel,
      out |-> IF path.abs THEN Ups(Len(line) - 1) ELSE <<>>]

(* An alias at the end is followed only when asked to ...                  *)
Follows(w, found) ==
  found.end = "dirent" /\ IsAlias(found.de) /\ (Len(w.p) > 1 \/ w.follow)

(* ... and what it names is looked up from here, without the flag.         *)
Deref(walk, w, found) ==
  IF ~Follows(w, found) THEN found
  ELSE IF w.fuel = 0 THEN Diverges
  ELSE walk[StartWalk(w.s, dirent[found.de].link, FALSE, w.fuel - 1)]

(* The rest of the walk, from the dirent the first element leads to.       *)
GoOn(walk, w, out, hit) ==
  IF hit.end # "dirent" THEN hit
  ELSE IF Len(w.p) = 1 THEN Reached(hit.de, out)
  ELSE IF ~IsScope(hit.de) THEN Conversion
  ELSE walk[[w EXCEPT !.s = hit.de, !.p = Tail(@), !.out = out]]

Step(walk, w, found) ==
  IF found.end # "dirent" THEN found
  ELSE GoOn(walk, w, found.path, Deref(walk, w, found))

Arrive(walk, w) ==
  IF w.p = <<>> THEN Reached(w.s, w.out)
  ELSE Step(walk, w, Find(w.s, Head(w.p), w.out))

Walking[w \in Walk] == Arrive(Walking, w)

WalkPath(s, path, follow) == Walking[StartWalk(s, path, follow, MaxDirents)]

(* Scope::resolve_path(): the canonical path, or the empty path when the   *)
(* walk fails.  The program is lost in the walk when it does not end.      *)
ResolvePath(s, path) ==
  LET w == WalkPath(s, path, TRUE)
  IN [abs |-> FALSE, elems |-> IF w.end = "dirent" THEN w.path ELSE <<>>]

-----------------------------------------------------------------------------
(* The statements. *)
Current == Last(stack)

(* What a dirent owns directly. *)
Holds(d) == CASE IsScope(d) -> Range(dirent[d].dirents)
              [] IsArray(d) -> Range(dirent[d].elems)
              [] OTHER      -> {}

(* What an object owns, itself included, is the least set that contains it *)
(* and whatever its members hold: the last pointer to a dirent is gone     *)
(* when the pointer to its owner is.                                       *)
Owned(d) ==
  LET closed == {S \in SUBSET DOMAIN dirent :
                   d \in S /\ \A x \in S : Holds(x) \subseteq S}
  IN {x \in DOMAIN dirent : \A S \in closed : x \in S}

(* (Mutation of AddNamed: the old entry stays, pointing to what is gone.)   *)
AddNamedKeepsEntry(n, object) ==
  LET s    == Current
      gone == IF Has(s, n) THEN Owned(dirent[s].dirents[n]) ELSE {}
      dirs == IF Has(s, n) THEN dirent[s].dirents
              ELSE dirent[s].dirents @@ (n :> created)
  IN /\ created < MaxDirents
     /\ created' = created + 1
     /\ dirent' = [d \in (DOMAIN dirent \ gone) \cup {created} |->
                     IF d = created THEN object
                     ELSE IF d = s THEN [dirent[s] EXCEPT !.dirents = dirs]
                     ELSE dirent[d]]

(* Scope::add_dirent() for a plain name: an entry of that name is          *)
(* overwritten, which destroys the dirent it held.                         *)
AddNamed(n, object) ==
  LET s    == Current
      gone == IF Has(s, n) THEN Owned(dirent[s].dirents[n]) ELSE {}
      new  == created
      dirs == [x \in DOMAIN dirent[s].dirents \cup {n} |->
                 IF x = n THEN new ELSE dirent[s].dirents[x]]
  IN /\ created < MaxDirents
     /\ created' = created + 1
     /\ dirent' = [d \in (DOMAIN dirent \ gone) \cup {new} |->
                     IF d = new THEN object
                     ELSE IF d = s THEN [dirent[s] EXCEPT !.dirents = dirs]
                     ELSE dirent[d]]

(* Scope::add_dirent() for "name[]": the array is created by its first     *)
(* element; a dirent of that name which is no array, or an array of        *)
(* another type, is an exception and nothing changes.                      *)
AddToNewArray(n, object) ==
  LET s    == Current
      new  == created
      arr  == created + 1
      dirs == [x \in DOMAIN dirent[s].dirents \cup {n} |->
                 IF x = n THEN arr ELSE dirent[s].dirents[x]]
  IN /\ ~Has(s, n)
     /\ created + 1 < MaxDirents
     /\ created' = created + 2
     /\ dirent' = [d \in DOMAIN dirent \cup {new, arr} |->
                     IF d = new THEN object
                     ELSE IF d = arr THEN NewArray(object.type, new)
                     ELSE IF d = s THEN [dirent[s] EXCEPT !.dirents = dirs]
                     ELSE dirent[d]]

(* (Mutation of AddToArray: the type of the new element is not checked.)    *)
AddToArrayUnchecked(n, object) ==
  /\ Has(Current, n)
  /\ created < MaxDirents
  /\ created' = created + 1
  /\ LET arr == dirent[Current].dirents[n]
     IN /\ IsArray(arr)
        /\ dirent' = [d \in DOMAIN dirent \cup {created} |->
                        IF d = created THEN object
                        ELSE IF d = arr
                        THEN [dirent[arr] EXCEPT !.elems = Append(@, created)]
                        ELSE dirent[d]]

AddToArray(n, object) ==
  /\ Has(Current, n)
  /\ created < MaxDirents
  /\ created' = created + 1
  /\ LET arr == dirent[Current].dirents[n]
     IN /\ IsArray(arr)
        /\ dirent[arr].of = object.type
        /\ dirent' = [d \in DOMAIN dirent \cup {created} |->
                        IF d = created THEN object
                        ELSE IF d = arr
                        THEN [dirent[arr] EXCEPT !.elems = Append(@, created)]
                        ELSE dirent[d]]

AddDirent(e, object) ==
  \/ e.kind = "name" /\ AddNamed(e.name, object)
  \/ e.kind = "append" /\ (AddToNewArray(e.name, object) \/ AddToArray(e.name, object))

Defines(names) == {Named(n) : n \in names} \cup {Appended(n) : n \in names}

Init ==
  /\ dirent = [d \in {Root} |-> NewScope(-1)]
  /\ created = 1
  /\ stack = <<Root>>

(* Mutation of OpenScope: the new scope's parent is the root.              *)
OpenScopeUnderRoot(e) ==
  /\ AddDirent(e, NewScope(Root))
  /\ stack' = Append(stack, created)

OpenScope(e) ==
  /\ AddDirent(e, NewScope(Current))
  /\ stack' = Append(stack, created)

(* context_pop() asserts that the root context stays. *)
CloseScope ==
  /\ Len(stack) > 1
  /\ stack' = Front(stack)
  /\ UNCHANGED <<dirent, created>>

(* Mutation of DefineReg: the snapshot is of the root context.             *)
DefineRegInRoot(e) ==
  /\ AddDirent(e, NewProc("register", Root))
  /\ UNCHANGED stack

DefineReg(e) ==
  /\ AddDirent(e, NewProc("register", Current))
  /\ UNCHANGED stack

DefineField(e) ==
  /\ AddDirent(e, NewProc("field", Current))
  /\ UNCHANGED stack

(* Mutation of DefineAlias: the path is checked but stored as written.     *)
DefineAliasVerbatim(e, target) ==
  /\ IsInitialized(ResolvePath(Current, target))
  /\ AddDirent(e, NewAlias(target))
  /\ UNCHANGED stack

DefineAlias(e, target) ==
  LET path == ResolvePath(Current, target)
  IN /\ IsInitialized(path)
     /\ AddDirent(e, NewAlias(path))
     /\ UNCHANGED stack

Bookmark(m) ==
  /\ dirent' = [dirent EXCEPT ![Current].bookmarks = @ \cup {m}]
  /\ UNCHANGED <<created, stack>>

Next ==
  \/ \E e \in Defines(ScopeName) : OpenScope(e) \/ DefineField(e)
  \/ \E e \in Defines(RegName) : DefineReg(e)
  \/ \E e \in Defines(Name), t \in Target : DefineAlias(e, t)
  \/ CloseScope
  \/ \E m \in Mark : Bookmark(m)

Spec == Init /\ [][Next]_vars

-----------------------------------------------------------------------------
TypeOK ==
  /\ created \in 1..MaxDirents
  /\ DOMAIN dirent \subseteq 0..(created - 1)
  /\ \A d \in DOMAIN dirent :
       \/ /\ IsScope(d)
          /\ DOMAIN dirent[d].dirents \subseteq Name
          /\ Range(dirent[d].dirents) \subseteq DOMAIN dirent
          /\ dirent[d].bookmarks \subseteq Mark
       \/ IsArray(d) /\ Range(dirent[d].elems) \subseteq DOMAIN dirent
       \/ IsAlias(d) /\ IsInitialized(dirent[d].link)
       \/ dirent[d].type \in {"register", "field"} /\ dirent[d].context \in Nat
  /\ stack \in Seq(DOMAIN dirent)

(* The scope a dirent lies in, whether directly or as an array element. *)
LiesIn(d, s) ==
  \E x \in Holds(s) : x = d \/ (IsArray(x) /\ d \in Holds(x))

(* Redefinitions and appends leave a tree: everything alive but the root   *)
(* has one owner and hangs off the root, a scope's parent pointer names    *)
(* the scope it lies in (scope.h:31, fake_language.cc:224), and an array   *)
(* is never empty or mixed (docs/language.txt:501, array.h:36).            *)
IsATree ==
  /\ DOMAIN dirent = Owned(Root)
  /\ \A d \in DOMAIN dirent \ {Root} :
       /\ Cardinality({o \in DOMAIN dirent : d \in Holds(o)}) = 1
       /\ IsScope(d) => LiesIn(d, dirent[d].parent)
  /\ \A a \in DOMAIN dirent : IsArray(a) =>
       /\ dirent[a].elems # <<>>
       /\ \A d \in Holds(a) : dirent[d].type = dirent[a].of

(* The context stack is a path from the root to the current scope, of live *)
(* scopes: redefining a dirent never destroys a scope that is still open,  *)
(* whose context holds but a weak pointer to it (context.h:26).            *)
OpenScopesAlive ==
  /\ stack # <<>> /\ stack[1] = Root
  /\ \A i \in 2..Len(stack) :
       /\ stack[i] \in Scopes
       /\ dirent[stack[i]].parent = stack[i - 1]

(* A procedure register or field that can be reached by a path runs in the *)
(* scope it was defined in, which is still there (register_types.h:83).    *)
ProcContextAlive ==
  \A d \in DOMAIN dirent :
    dirent[d].type \in {"register", "field"} => LiesIn(d, dirent[d].context)

(* Does the walk of a path from s step on an alias before its end? *)
CrossesAlias(s, path) ==
  \E n \in 1..(Len(path.elems) - 1) :
    LET w == WalkPath(s, [path EXCEPT !.elems = SubSeq(@, 1, n)], FALSE)
    IN w.end = "dirent" /\ IsAlias(w.de)

(* resolve_path() is faithful: from the same scope, the canonical path     *)
(* leads to the dirent the path led to, through parents, bookmarks and     *)
(* arrays alike, as long as no alias is crossed (scope.cc:155-157).        *)
ResolveKeepsMeaning ==
  \A s \in Scopes, p \in Path :
    LET w == WalkPath(s, p, TRUE)
        r == ResolvePath(s, p)
        again == WalkPath(s, r, TRUE)
    IN w.end = "dirent" /\ IsInitialized(r) /\ ~CrossesAlias(s, p) =>
         again.end = "dirent" /\ again.de = w.de

(* A canonical path needs no context but its scope: bookmarks, negative    *)
(* indices and detours through a scope and back are gone.                  *)
ResolveIsCanonical ==
  \A s \in Scopes, p \in Path :
    LET r == ResolvePath(s, p).elems IN
      \A i \in DOMAIN r :
        /\ r[i].kind \in {"up", "name", "index"}
        /\ r[i].kind = "index" => r[i].index >= 0
        /\ r[i] = Up /\ i > 1 /\ (\A mark \in Mark : Marked(mark) \notin Range(p.elems))
             => r[i - 1] = Up

(* The dirent an alias of scope s stands for. *)
AliasTarget(s, d) == WalkPath(s, dirent[d].link, FALSE)

(* Aliases are fully resolved when they are defined                        *)
(* (docs/language.txt:392-395): what is appended to an array, bookmarked   *)
(* or added later never changes what an alias stands for, if there is such *)
(* a dirent; only a redefinition does.                                     *)
AliasesPinned ==
  [][\A s \in Scopes, d \in DOMAIN dirent :
       /\ IsAlias(d) /\ LiesIn(d, s)
       /\ AliasTarget(s, d).end = "dirent"
       /\ DOMAIN dirent \subseteq DOMAIN dirent'
       => AliasTarget(s, d)' = AliasTarget(s, d)]_vars
=============================================================================
