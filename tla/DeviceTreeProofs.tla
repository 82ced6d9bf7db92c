-------------------------- MODULE DeviceTreeProofs --------------------------
(***************************************************************************)
(* DeviceTree, for any names, any number of dirents and any aliases: that  *)
(* the heap is a tree and the open scopes are alive (TypeOK, IsATree,      *)
(* OpenScopesAlive, ProcContextAlive), and, for any paths, what walks on   *)
(* it give (ResolveIsCanonical, ResolveKeepsMeaning, AliasesPinned).       *)
(*                                                                         *)
(* The first part is about forests alone: a function h from dirents to     *)
(* what they hold, under two operations, Prune (a subtree is destroyed)    *)
(* and Grow (a leaf is attached).  The second shows that each way to add a *)
(* dirent prunes and grows the forest Holdings of the heap (Change), and   *)
(* that the open scopes, each of which owns those above it on the stack,   *)
(* are never within what is destroyed under the topmost one.               *)
(*                                                                         *)
(* The third part is about walks.  A walk recurs on a smaller one, with    *)
(* fewer aliases left to follow or, with as many, fewer elements left      *)
(* (and a scope's climb to the root on its parent's): Walking is therefore *)
(* the function its equation says, and what follows is         *)
(* induction on walks, each time from a smallest counterexample.           *)
(***************************************************************************)
EXTENDS DeviceTree, FiniteSetTheorems, SequenceTheorems, WellFoundedInduction, TLAPS

-----------------------------------------------------------------------------
(***************************************************************************)
(* Recursive functions: a recursion on what comes before, in an order in   *)
(* which every set has a first member, has a solution, so that the         *)
(* function it defines has the values it says.                             *)
(***************************************************************************)
(* A set of numbers has a least member.                                    *)
LEMMA LeastNumber ==
  ASSUME NEW U, U \subseteq Nat, U # {}
  PROVE  \E m \in U : \A k \in U : m <= k
<1> DEFINE before == OpToRel(<, Nat)
<1>1. \E m \in U : \A k \in U : ~ (<<k, m>> \in before)
  BY NatLessThanWellFounded, WFMin
<1>2. \A k, m \in Nat : <<k, m>> \in before <=> k < m
  BY DEF OpToRel
<1> HIDE DEF before
<1>3. PICK m \in U : \A k \in U : ~ (<<k, m>> \in before)
  BY <1>1
<1>4. ASSUME NEW k \in U PROVE m <= k
  <2>1. k \in Nat /\ m \in Nat /\ ~ (<<k, m>> \in before)
    BY <1>3
  <2>2. ~ (k < m)
    BY <1>2, <2>1
  <2> QED BY <2>1, <2>2
<1> QED BY <1>4

(* L relates what comes before to what comes after, and every set has a    *)
(* first member.                                                           *)
Ordered(W, L) ==
  \A U \in SUBSET W : U # {} => \E m \in U : \A k \in U : <<k, m>> \notin L

(* G gives a function's value at w from its values before w.               *)
Local(G, W, R, L) ==
  /\ G \in [[W -> R] -> [W -> R]]
  /\ \A f, g \in [W -> R], w \in W :
       (\A v \in W : <<v, w>> \in L => f[v] = g[v]) => G[f][w] = G[g][w]

(* f solves the equation on a set that contains what comes before its      *)
(* members.                                                                *)
Solves(f, S, G, W, R, L) ==
  /\ f \in [W -> R] /\ S \subseteq W
  /\ \A w \in S : f[w] = G[f][w]
  /\ \A w \in S, v \in W : <<v, w>> \in L => v \in S

(* Two solutions agree where both are solutions.                           *)
LEMMA SolutionsAgree ==
  ASSUME NEW W, NEW R, NEW L, NEW G, Ordered(W, L), Local(G, W, R, L),
         NEW f, NEW g, NEW S, NEW U,
         Solves(f, S, G, W, R, L), Solves(g, U, G, W, R, L)
  PROVE  \A w \in S \cap U : f[w] = g[w]
<1> DEFINE D == {w \in S \cap U : f[w] # g[w]}
<1> SUFFICES ASSUME D # {} PROVE FALSE
  OBVIOUS
<1>1. D \in SUBSET W
  BY DEF Solves
<1>2. PICK w \in D : \A k \in D : <<k, w>> \notin L
  BY <1>1 DEF Ordered
<1>3. ASSUME NEW v \in W, <<v, w>> \in L PROVE f[v] = g[v]
  <2>1. v \in S /\ v \in U
    BY <1>3 DEF Solves
  <2> QED BY <1>2, <1>3, <2>1
<1>4. G[f][w] = G[g][w]
  BY <1>1, <1>3 DEF Local, Solves
<1> QED BY <1>4 DEF Solves

(* The recursion has a solution everywhere.                                *)
LEMMA RecursionHasSolution ==
  ASSUME NEW W, NEW R, NEW L, NEW G, Ordered(W, L), Local(G, W, R, L), R # {}
  PROVE  \E f \in [W -> R] : f = G[f]
<1> DEFINE Sol(f, S) == Solves(f, S, G, W, R, L)
           H == {w \in W : \E f, S : Sol(f, S) /\ w \in S}
           r0 == CHOOSE r \in R : TRUE
           Given(w) == CHOOSE f : \E S : Sol(f, S) /\ w \in S
           h == [w \in W |-> IF w \in H THEN Given(w)[w] ELSE r0]
<1>1. ASSUME NEW f, NEW S, Sol(f, S), NEW w \in S PROVE w \in H /\ h[w] = f[w]
  <2>1. w \in H
    BY <1>1 DEF Solves
  <2>2. PICK U : Sol(Given(w), U) /\ w \in U
    BY <1>1
  <2>3. Given(w)[w] = f[w]
    <3> HIDE DEF Given
    <3> QED BY <1>1, <2>2, SolutionsAgree
  <2> QED BY <2>1, <2>3
<1>2. h \in [W -> R]
  <2>1. r0 \in R
    OBVIOUS
  <2>2. ASSUME NEW w \in H PROVE Given(w)[w] \in R
    <3>1. PICK f, S : Sol(f, S) /\ w \in S
      OBVIOUS
    <3>2. h[w] = f[w]
      <4> HIDE DEF h, H, Sol
      <4> QED BY <1>1, <3>1
    <3>3. f[w] \in R
      BY <3>1 DEF Solves
    <3>4. h[w] = Given(w)[w]
      <4> HIDE DEF Given
      <4> QED OBVIOUS
    <3> QED BY <3>2, <3>3, <3>4
  <2> HIDE DEF H, Given, r0
  <2> QED BY <2>1, <2>2
<1>3. Sol(h, H)
  <2>1. ASSUME NEW w \in H
        PROVE  h[w] = G[h][w] /\ \A v \in W : <<v, w>> \in L => v \in H
    <3>1. PICK f, S : Sol(f, S) /\ w \in S
      OBVIOUS
    <3> HIDE DEF h, H, Sol
    <3>2. \A v \in S : v \in H /\ h[v] = f[v]
      BY <1>1, <3>1
    <3>3. \A v \in W : <<v, w>> \in L => v \in S
      BY <3>1 DEF Sol, Solves
    <3>4. f \in [W -> R] /\ w \in W /\ f[w] = G[f][w]
      BY <3>1 DEF Sol, Solves
    <3>5. G[f][w] = G[h][w]
      BY <1>2, <3>2, <3>3, <3>4 DEF Local
    <3> QED BY <3>1, <3>2, <3>3, <3>4, <3>5
  <2>2. H \subseteq W
    OBVIOUS
  <2> HIDE DEF h, H
  <2> QED BY <1>2, <2>1, <2>2 DEF Solves
<1> HIDE DEF h, H
<1>4. H = W
  <2> SUFFICES ASSUME W \ H # {} PROVE FALSE
    BY DEF H
  <2>1. PICK m \in W \ H : \A k \in W \ H : <<k, m>> \notin L
    BY DEF Ordered
  <2> DEFINE f == [h EXCEPT ![m] = G[h][m]]
             S == H \cup {m}
  <2>2. f \in [W -> R] /\ f[m] = G[h][m] /\ \A v \in H : f[v] = h[v]
    BY <1>2, <1>3, <2>1 DEF Local, Solves
  <2>3. \A v \in W : <<v, m>> \in L => v \in H
    BY <2>1
  <2>4. ASSUME NEW w \in S
        PROVE  f[w] = G[f][w] /\ \A v \in W : <<v, w>> \in L => v \in S
    <3>1. \A v \in W : <<v, w>> \in L => v \in H
      BY <1>3, <2>3 DEF Solves
    <3> HIDE DEF f
    <3>2. \A v \in W : <<v, w>> \in L => f[v] = h[v]
      BY <2>2, <3>1
    <3>3. G[f][w] = G[h][w]
      BY <1>2, <1>3, <2>1, <2>2, <3>2 DEF Local, Solves
    <3>4. w \in H => h[w] = G[h][w]
      BY <1>3 DEF Solves
    <3> QED BY <2>2, <3>1, <3>3, <3>4
  <2>5. Sol(f, S)
    <3>1. S \subseteq W
      BY <1>3, <2>1 DEF Solves
    <3> HIDE DEF f, S
    <3> QED BY <2>2, <2>4, <3>1 DEF Solves
  <2>6. m \in H
    <3>1. m \in S
      OBVIOUS
    <3> HIDE DEF f, S
    <3> QED BY <1>1, <2>5, <3>1
  <2> QED BY <2>1, <2>6
<1>5. \A w \in W : h[w] = G[h][w]
  BY <1>3, <1>4 DEF Solves
<1>6. h = G[h]
  BY <1>2, <1>5 DEF Local
<1> QED BY <1>2, <1>6

(* The least members of sets of numbers make recursion over them ordered.  *)
Fewer == {km \in Nat \X Nat : km[1] < km[2]}

LEMMA NumbersOrdered == Ordered(Nat, Fewer)
<1> SUFFICES ASSUME NEW T \in SUBSET Nat, T # {}
             PROVE  \E m \in T : \A k \in T : <<k, m>> \notin Fewer
  BY DEF Ordered
<1>1. PICK m \in T : \A k \in T : m <= k
  BY LeastNumber
<1>2. ASSUME NEW k \in T PROVE <<k, m>> \notin Fewer
  <2>1. k \in Nat /\ m \in Nat /\ m <= k
    BY <1>1
  <2> QED BY <2>1 DEF Fewer
<1> QED BY <1>2

-----------------------------------------------------------------------------
(* What lies below d, itself included: the least set that is closed.       *)
Below(h, d) ==
  {x \in DOMAIN h : \A S \in SUBSET DOMAIN h :
                      d \in S /\ (\A y \in S : h[y] \subseteq S) => x \in S}

(* Nothing is held twice, and everything lies below the root.              *)
Forest(h) ==
  /\ h \in [DOMAIN h -> SUBSET DOMAIN h]
  /\ Root \in DOMAIN h
  /\ \A d \in DOMAIN h : Root \notin h[d]
  /\ \A a, b \in DOMAIN h : \A x \in h[a] : x \in h[b] => a = b
  /\ Below(h, Root) = DOMAIN h

(* Holder p gets the new leaf n.                                           *)
Grow(h, p, n) ==
  [d \in DOMAIN h \cup {n} |->
     IF d = n THEN {} ELSE IF d = p THEN h[d] \cup {n} ELSE h[d]]

(* The subtree of x goes, and its holder lets go of it.                    *)
Prune(h, x) == [d \in DOMAIN h \ Below(h, x) |-> h[d] \ {x}]

(* Below is closed and contains where it starts ...                        *)
LEMMA BelowIsClosed ==
  ASSUME NEW h, h \in [DOMAIN h -> SUBSET DOMAIN h], NEW d \in DOMAIN h
  PROVE  /\ d \in Below(h, d)
         /\ Below(h, d) \subseteq DOMAIN h
         /\ \A y \in Below(h, d) : h[y] \subseteq Below(h, d)
<1>1. d \in Below(h, d)
  BY DEF Below
<1>2. Below(h, d) \subseteq DOMAIN h
  BY DEF Below
<1>3. ASSUME NEW y \in Below(h, d), NEW x \in h[y] PROVE x \in Below(h, d)
  <2>1. x \in DOMAIN h
    BY <1>2
  <2>2. ASSUME NEW S \in SUBSET DOMAIN h, d \in S, \A z \in S : h[z] \subseteq S
        PROVE  x \in S
    BY <2>2 DEF Below
  <2> QED BY <2>1, <2>2 DEF Below
<1> QED BY <1>1, <1>2, <1>3

(* ... and is within any other such set.                                   *)
LEMMA BelowIsLeast ==
  ASSUME NEW h, NEW d, NEW S \in SUBSET DOMAIN h,
         d \in S, \A y \in S : h[y] \subseteq S
  PROVE  Below(h, d) \subseteq S
BY DEF Below

(* What lies below something below d lies below d.                         *)
LEMMA BelowIsTransitive ==
  ASSUME NEW h, h \in [DOMAIN h -> SUBSET DOMAIN h], NEW d \in DOMAIN h,
         NEW x \in Below(h, d)
  PROVE  Below(h, x) \subseteq Below(h, d)
BY BelowIsClosed, BelowIsLeast

(* Every dirent but the topmost is held by another below it.               *)
LEMMA HeldFromBelow ==
  ASSUME NEW h, h \in [DOMAIN h -> SUBSET DOMAIN h], NEW d \in DOMAIN h,
         NEW x \in Below(h, d), x # d
  PROVE  \E y \in Below(h, d) : x \in h[y]
<1> SUFFICES ASSUME \A y \in Below(h, d) : x \notin h[y] PROVE FALSE
  OBVIOUS
<1> DEFINE S == Below(h, d) \ {x}
<1>1. S \in SUBSET DOMAIN h /\ d \in S /\ \A y \in S : h[y] \subseteq S
  BY BelowIsClosed
<1>2. Below(h, d) \subseteq S
  BY <1>1, BelowIsLeast
<1> QED BY <1>2

(* Every dirent of a forest but the root has a holder.                     *)
LEMMA AllAreHeld ==
  ASSUME NEW h, Forest(h), NEW x \in DOMAIN h, x # Root
  PROVE  \E y \in DOMAIN h : x \in h[y]
BY HeldFromBelow DEF Forest

(* A subtree is held at its top only, and contains neither the holder of   *)
(* its top nor the root: the rest would be closed and lack a dirent.       *)
LEMMA Cut ==
  ASSUME NEW h, Forest(h), NEW s \in DOMAIN h, NEW x \in h[s]
  PROVE  /\ x \in DOMAIN h /\ s \notin Below(h, x) /\ Root \notin Below(h, x)
         /\ \A d \in DOMAIN h \ Below(h, x) : \A y \in h[d] :
              y \in Below(h, x) => y = x
<1> DEFINE G == Below(h, x)
           C == DOMAIN h \ G
<1>0. h \in [DOMAIN h -> SUBSET DOMAIN h] /\ x \in DOMAIN h
  BY DEF Forest
<1>1. ASSUME NEW d \in C, NEW y \in h[d], y \in G PROVE y = x
  <2> SUFFICES ASSUME y # x PROVE FALSE
    OBVIOUS
  <2>1. PICK z \in G : y \in h[z]
    BY <1>0, <1>1, HeldFromBelow
  <2>2. z \in DOMAIN h
    BY <1>0, BelowIsClosed
  <2> QED BY <2>1, <2>2 DEF Forest
<1>2. Root \notin G
  <2> SUFFICES ASSUME Root \in G PROVE FALSE
    OBVIOUS
  <2>1. Root # x
    BY DEF Forest
  <2>2. PICK z \in G : Root \in h[z]
    BY <1>0, <2>1, HeldFromBelow
  <2> QED BY <2>2, <1>0, BelowIsClosed DEF Forest
<1>3. s \notin G
  <2> SUFFICES ASSUME s \in G PROVE FALSE
    OBVIOUS
  <2>1. ASSUME NEW d \in C, NEW y \in h[d] PROVE y \in C
    <3>1. y \in DOMAIN h
      BY <1>0
    <3>2. CASE y \in G
      <4>1. y = x
        BY <1>1, <3>2
      <4>2. d = s
        BY <4>1 DEF Forest
      <4> QED BY <4>2
    <3> QED BY <3>1, <3>2
  <2>2. Root \in C /\ C \in SUBSET DOMAIN h
    BY <1>2 DEF Forest
  <2>3. Below(h, Root) \subseteq C
    <3> HIDE DEF C
    <3> QED BY <2>1, <2>2, BelowIsLeast
  <2>4. x \in G
    BY <1>0, BelowIsClosed
  <2> QED BY <2>3, <2>4, <1>0 DEF Forest
<1> QED BY <1>0, <1>1, <1>2, <1>3

(* What remains when a subtree is destroyed is a forest, with the same     *)
(* things below each other.                                                *)
LEMMA PruneKeepsForest ==
  ASSUME NEW h, Forest(h), NEW s \in DOMAIN h, NEW x \in h[s]
  PROVE  /\ Forest(Prune(h, x))
         /\ DOMAIN Prune(h, x) = DOMAIN h \ Below(h, x)
         /\ \A a, b \in DOMAIN Prune(h, x) :
              b \in Below(h, a) => b \in Below(Prune(h, x), a)
<1> DEFINE g == Prune(h, x)
           G == Below(h, x)
<1>0. h \in [DOMAIN h -> SUBSET DOMAIN h] /\ x \in DOMAIN h
  BY DEF Forest
<1>1. DOMAIN g = DOMAIN h \ G /\ \A d \in DOMAIN g : g[d] = h[d] \ {x}
  BY DEF Prune
<1>2. g \in [DOMAIN g -> SUBSET DOMAIN g]
  <2>1. ASSUME NEW d \in DOMAIN g PROVE g[d] \subseteq DOMAIN g
    BY <1>0, <1>1, Cut
  <2>2. g = [d \in DOMAIN g |-> g[d]]
    BY DEF Prune
  <2> QED BY <2>1, <2>2
<1>3. ASSUME NEW a \in DOMAIN g, NEW b \in DOMAIN g, b \in Below(h, a)
      PROVE  b \in Below(g, a)
  <2> SUFFICES ASSUME NEW S \in SUBSET DOMAIN g, a \in S,
                      \A y \in S : g[y] \subseteq S
               PROVE  b \in S
    BY DEF Below
  <2>1. S \cup G \in SUBSET DOMAIN h
    BY <1>0, <1>1, BelowIsClosed
  <2>2. ASSUME NEW y \in S \cup G PROVE h[y] \subseteq S \cup G
    <3>1. x \in G /\ \A z \in G : h[z] \subseteq G
      BY <1>0, BelowIsClosed
    <3> QED BY <3>1, <1>1
  <2>3. b \in S \cup G
    <3> DEFINE T == S \cup G
    <3>1. T \in SUBSET DOMAIN h /\ a \in T /\ \A y \in T : h[y] \subseteq T
      BY <2>1, <2>2
    <3> HIDE DEF T
    <3>2. Below(h, a) \subseteq T
      BY <3>1, BelowIsLeast
    <3> QED BY <3>2, <1>3 DEF T
  <2> QED BY <2>3, <1>1
<1>4. Root \in DOMAIN g
  BY <1>1, Cut DEF Forest
<1>5. Below(g, Root) = DOMAIN g
  <2>1. DOMAIN g \subseteq Below(g, Root)
    <3> SUFFICES ASSUME NEW b \in DOMAIN g PROVE b \in Below(g, Root)
      OBVIOUS
    <3>1. b \in Below(h, Root)
      BY <1>1 DEF Forest
    <3> HIDE DEF g
    <3> QED BY <3>1, <1>3, <1>4
  <2> HIDE DEF g
  <2> QED BY <2>1, <1>2, <1>4, BelowIsClosed
<1>6. \A d \in DOMAIN g : Root \notin g[d]
  BY <1>1 DEF Forest
<1>7. \A a, b \in DOMAIN g : \A y \in g[a] : y \in g[b] => a = b
  BY <1>1 DEF Forest
<1> HIDE DEF g
<1>8. Forest(g)
  BY <1>2, <1>4, <1>5, <1>6, <1>7 DEF Forest
<1> QED BY <1>1, <1>3, <1>8 DEF g

(* A forest with one more leaf is a forest.                                *)
LEMMA GrowKeepsForest ==
  ASSUME NEW h, Forest(h), NEW p \in DOMAIN h, NEW n, n \notin DOMAIN h
  PROVE  /\ Forest(Grow(h, p, n))
         /\ DOMAIN Grow(h, p, n) = DOMAIN h \cup {n}
         /\ \A a, b \in DOMAIN h :
              b \in Below(h, a) => b \in Below(Grow(h, p, n), a)
         /\ n \in Below(Grow(h, p, n), p)
<1> DEFINE g == Grow(h, p, n)
<1>0. h \in [DOMAIN h -> SUBSET DOMAIN h] /\ Root \in DOMAIN h
  BY DEF Forest
<1>1. /\ DOMAIN g = DOMAIN h \cup {n}
      /\ g[n] = {} /\ g[p] = h[p] \cup {n}
      /\ \A d \in DOMAIN h \ {p} : g[d] = h[d]
  BY DEF Grow
<1>2. g \in [DOMAIN g -> SUBSET DOMAIN g]
  <2>1. ASSUME NEW d \in DOMAIN g PROVE g[d] \subseteq DOMAIN g
    BY <1>0, <1>1
  <2>2. g = [d \in DOMAIN g |-> g[d]]
    BY DEF Grow
  <2> QED BY <2>1, <2>2
<1>3. ASSUME NEW a \in DOMAIN h, NEW b \in DOMAIN h, b \in Below(h, a)
      PROVE  b \in Below(g, a)
  <2> SUFFICES ASSUME NEW S \in SUBSET DOMAIN g, a \in S,
                      \A y \in S : g[y] \subseteq S
               PROVE  b \in S
    BY <1>1 DEF Below
  <2> DEFINE T == S \cap DOMAIN h
  <2>1. T \in SUBSET DOMAIN h /\ a \in T /\ \A y \in T : h[y] \subseteq T
    BY <1>0, <1>1
  <2> HIDE DEF T
  <2>2. Below(h, a) \subseteq T
    BY <2>1, BelowIsLeast
  <2> QED BY <2>2, <1>3 DEF T
<1> HIDE DEF g
<1>4. n \in Below(g, p)
  BY <1>1, <1>2, BelowIsClosed
<1>5. Below(g, Root) = DOMAIN g
  <2>1. \A b \in DOMAIN h : b \in Below(g, Root)
    BY <1>0, <1>3 DEF Forest
  <2>2. n \in Below(g, Root)
    <3>1. p \in Below(g, Root)
      BY <2>1
    <3> QED BY <3>1, <1>0, <1>1, <1>2, BelowIsClosed
  <2>3. Below(g, Root) \subseteq DOMAIN g
    BY DEF Below
  <2> QED BY <2>1, <2>2, <2>3, <1>1
<1>6. \A d \in DOMAIN g : Root \notin g[d]
  BY <1>0, <1>1 DEF Forest
<1>7. ASSUME NEW a \in DOMAIN g, NEW b \in DOMAIN g, NEW y \in g[a], y \in g[b]
      PROVE  a = b
  <2>1. CASE y = n
    BY <2>1, <1>0, <1>1, <1>7
  <2>2. CASE y # n
    BY <2>2, <1>0, <1>1, <1>7 DEF Forest
  <2> QED BY <2>1, <2>2
<1>8. Forest(g)
  BY <1>0, <1>1, <1>2, <1>5, <1>6, <1>7 DEF Forest
<1> QED BY <1>1, <1>3, <1>4, <1>8 DEF g

-----------------------------------------------------------------------------
(* The records of dirents.                                                 *)
Table     == UNION {[N -> Nat] : N \in SUBSET Name}
LeafType  == {"scope", "register", "field", "alias"}
ScopeRec  == [type : {"scope"}, parent : Int, dirents : Table,
              bookmarks : SUBSET Mark]
ArrayRec  == [type : {"array"}, of : LeafType, elems : Seq(Nat)]
ProcRec   == [type : {"register", "field"}, context : Nat]

Formed(d) ==
  \/ dirent[d] \in ScopeRec \cup ArrayRec \cup ProcRec
  \/ IsAlias(d) /\ IsInitialized(dirent[d].link)

IsProc(d) == dirent[d].type \in {"register", "field"}

Records ==
  /\ dirent = [d \in DOMAIN dirent |-> dirent[d]]
  /\ \A d \in DOMAIN dirent : Formed(d)
  /\ created \in 1..MaxDirents
  /\ DOMAIN dirent \subseteq 0..(created - 1)
  /\ IsScope(Root)

(* The forest of the heap.                                                 *)
Holdings == [d \in DOMAIN dirent |-> Holds(d)]

(* No two names of a scope hold the same dirent.                           *)
NamesDiffer ==
  \A s \in Scopes : \A m, n \in DOMAIN dirent[s].dirents :
    dirent[s].dirents[m] = dirent[s].dirents[n] => m = n

(* The conjuncts of IsATree and ProcContextAlive, with what makes them     *)
(* inductive: where a dirent lies is itself still there.                   *)
ArraysOfOneType ==
  \A a \in DOMAIN dirent : IsArray(a) =>
    /\ dirent[a].elems # <<>>
    /\ \A d \in Holds(a) : dirent[d].type = dirent[a].of

ParentsHold ==
  \A d \in Scopes \ {Root} :
    dirent[d].parent \in DOMAIN dirent /\ LiesIn(d, dirent[d].parent)

ContextsHold ==
  \A d \in DOMAIN dirent : IsProc(d) =>
    dirent[d].context \in DOMAIN dirent /\ LiesIn(d, dirent[d].context)

Tree == /\ Records /\ Forest(Holdings) /\ NamesDiffer
        /\ ArraysOfOneType /\ ParentsHold /\ ContextsHold

(* The open scopes: each is the parent of the next, and owns all later     *)
(* ones.                                                                   *)
OpenScopes ==
  /\ stack \in Seq(Nat) /\ stack # <<>> /\ stack[1] = Root
  /\ \A i \in 1..Len(stack) : stack[i] \in Scopes
  /\ \A i \in 2..Len(stack) : dirent[stack[i]].parent = stack[i - 1]
  /\ \A i \in 1..Len(stack) : \A j \in i..Len(stack) :
       stack[j] \in Below(Holdings, stack[i])

(* The inductive invariant.                                                *)
IInv == Tree /\ OpenScopes

(* The current scope is one of the open ones, and below all of them.       *)
LEMMA CurrentIsOpen ==
  ASSUME IInv
  PROVE  /\ Current \in Scopes /\ Current \in Nat
         /\ Len(stack) \in Nat \ {0} /\ Current = stack[Len(stack)]
         /\ \A i \in 1..Len(stack) : Current \in Below(Holdings, stack[i])
<1>1. Len(stack) \in Nat \ {0} /\ Current = stack[Len(stack)]
  BY EmptySeq, LenProperties DEF IInv, OpenScopes, Current, Last
<1>2. Len(stack) \in 1..Len(stack)
  BY <1>1
<1> QED BY <1>1, <1>2 DEF IInv, OpenScopes

(* What a dirent owns is what lies below it.                               *)
LEMMA OwnedIsBelow ==
  ASSUME NEW d
  PROVE  Owned(d) = Below(Holdings, d)
<1>1. DOMAIN Holdings = DOMAIN dirent
      /\ \A x \in DOMAIN dirent : Holdings[x] = Holds(x)
  BY DEF Holdings
<1>2. \A S \in SUBSET DOMAIN dirent :
        (\A x \in S : Holds(x) \subseteq S) <=> (\A x \in S : Holdings[x] \subseteq S)
  BY <1>1
<1> QED BY <1>1, <1>2 DEF Owned, Below

(* What the three kinds of dirents hold.                                   *)
LEMMA HoldsOfKinds ==
  ASSUME NEW d \in DOMAIN dirent
  PROVE  /\ IsScope(d) => Holds(d) = Range(dirent[d].dirents)
         /\ IsArray(d) => Holds(d) = Range(dirent[d].elems)
         /\ ~IsScope(d) /\ ~IsArray(d) => Holds(d) = {}
BY DEF Holds, IsScope, IsArray

(* What a statement adds.                                                  *)
Fresh(o, s) ==
  \/ o = NewScope(s)
  \/ \E t \in {"register", "field"} : o = NewProc(t, s)
  \/ \E p : IsInitialized(p) /\ o = NewAlias(p)

(* What adding o as n to the scope s does.                                 *)
Change(o, s, n) ==
  /\ Records' /\ Forest(Holdings)' /\ NamesDiffer' /\ ArraysOfOneType'
  /\ n \in DOMAIN dirent' /\ dirent'[n] = o
  /\ s \in DOMAIN dirent' /\ LiesIn(n, s)' /\ n \in Below(Holdings', s)
  /\ \A d \in DOMAIN dirent' \ DOMAIN dirent :
       d = n \/ dirent'[d].type = "array"
  /\ \A d \in DOMAIN dirent' \cap DOMAIN dirent :
       /\ dirent'[d].type = dirent[d].type
       /\ IsScope(d) => dirent'[d].parent = dirent[d].parent
       /\ IsProc(d) => dirent'[d].context = dirent[d].context
  /\ \A a, d \in DOMAIN dirent : d \in Holds(a) /\ d \in DOMAIN dirent' =>
       a \in DOMAIN dirent' /\ d \in Holds(a)'
  /\ \A a \in DOMAIN dirent : s \in Below(Holdings, a) => a \in DOMAIN dirent'
  /\ \A a, b \in DOMAIN dirent \cap DOMAIN dirent' :
       b \in Below(Holdings, a) => b \in Below(Holdings', a)

(* A change keeps the tree: what survives lies where it lay, because its   *)
(* holders survive with it, and what is new lies in the current scope.     *)
LEMMA ChangeKeepsTree ==
  ASSUME Tree, NEW o, NEW s \in Scopes, NEW n, Fresh(o, s), Change(o, s, n)
  PROVE  Tree'
<1>1. ASSUME NEW d \in DOMAIN dirent, d \in DOMAIN dirent',
             NEW p \in DOMAIN dirent, LiesIn(d, p)
      PROVE  p \in DOMAIN dirent' /\ LiesIn(d, p)'
  <2>1. PICK x \in Holds(p) : x = d \/ (IsArray(x) /\ d \in Holds(x))
    BY <1>1 DEF LiesIn
  <2>2. x \in DOMAIN dirent
    BY <2>1 DEF Tree, Forest, Holdings
  <2>3. CASE x = d
    BY <1>1, <2>1, <2>2, <2>3 DEF Change, LiesIn
  <2>4. CASE IsArray(x) /\ d \in Holds(x)
    <3>1. x \in DOMAIN dirent' /\ d \in Holds(x)'
      BY <1>1, <2>2, <2>4 DEF Change
    <3>2. p \in DOMAIN dirent' /\ x \in Holds(p)'
      BY <2>1, <2>2, <3>1 DEF Change
    <3>3. IsArray(x)'
      BY <2>2, <2>4, <3>1 DEF Change, IsArray
    <3> QED BY <3>1, <3>2, <3>3 DEF LiesIn
  <2> QED BY <2>1, <2>3, <2>4
<1>2. ParentsHold'
  <2> SUFFICES ASSUME NEW d \in DOMAIN dirent', IsScope(d)', d # Root
               PROVE  dirent'[d].parent \in DOMAIN dirent'
                      /\ LiesIn(d, dirent[d].parent)'
    BY DEF ParentsHold, Scopes
  <2>1. CASE d \in DOMAIN dirent
    <3>1. IsScope(d) /\ dirent'[d].parent = dirent[d].parent
      BY <2>1 DEF Change, IsScope
    <3>2. dirent[d].parent \in DOMAIN dirent /\ LiesIn(d, dirent[d].parent)
      BY <2>1, <3>1 DEF Tree, ParentsHold, Scopes
    <3> QED BY <1>1, <2>1, <3>1, <3>2
  <2>2. CASE d \notin DOMAIN dirent
    <3>1. d = n /\ dirent'[d] = o
      BY <2>2 DEF Change, IsScope
    <3>2. o.parent = s
      BY <3>1 DEF Fresh, IsScope, NewScope, NewProc, NewAlias
    <3> QED BY <3>1, <3>2 DEF Change
  <2> QED BY <2>1, <2>2
<1>3. ContextsHold'
  <2> SUFFICES ASSUME NEW d \in DOMAIN dirent', IsProc(d)'
               PROVE  dirent'[d].context \in DOMAIN dirent'
                      /\ LiesIn(d, dirent[d].context)'
    BY DEF ContextsHold
  <2>1. CASE d \in DOMAIN dirent
    <3>1. IsProc(d) /\ dirent'[d].context = dirent[d].context
      BY <2>1 DEF Change, IsProc
    <3>2. dirent[d].context \in DOMAIN dirent /\ LiesIn(d, dirent[d].context)
      BY <2>1, <3>1 DEF Tree, ContextsHold
    <3> QED BY <1>1, <2>1, <3>1, <3>2
  <2>2. CASE d \notin DOMAIN dirent
    <3>1. d = n /\ dirent'[d] = o
      BY <2>2 DEF Change, IsProc
    <3>2. o.context = s
      BY <3>1 DEF Fresh, IsProc, NewScope, NewProc, NewAlias
    <3> QED BY <3>1, <3>2 DEF Change
  <2> QED BY <2>1, <2>2
<1> QED BY <1>2, <1>3 DEF Tree, Change

(* What a statement adds holds nothing yet.                                *)
LEMMA FreshIsALeaf ==
  ASSUME NEW o, NEW s \in Nat, Fresh(o, s)
  PROVE  /\ o.type \in LeafType
         /\ o \in ScopeRec \cup ProcRec \/ (o.type = "alias" /\ IsInitialized(o.link))
         /\ o.type = "scope" => o.dirents = <<>>
<1>1. CASE o = NewScope(s)
  <2>1. <<>> \in [{} -> Nat] /\ {} \in SUBSET Name
    OBVIOUS
  <2>2. <<>> \in Table
    BY <2>1 DEF Table
  <2> QED BY <1>1, <2>2 DEF NewScope, ScopeRec, LeafType
<1>2. CASE \E t \in {"register", "field"} : o = NewProc(t, s)
  BY <1>2 DEF NewProc, ProcRec, LeafType
<1>3. CASE \E p : IsInitialized(p) /\ o = NewAlias(p)
  BY <1>3 DEF NewAlias, LeafType
<1> QED BY <1>1, <1>2, <1>3 DEF Fresh

(* A name of a scope, and the table that adding it makes.                  *)
LEMMA TableWith ==
  ASSUME NEW f \in Table, NEW m \in Name, NEW v \in Nat,
         NEW g, g = [x \in DOMAIN f \cup {m} |-> IF x = m THEN v ELSE f[x]]
  PROVE  /\ g \in Table
         /\ \A x \in DOMAIN f \ {m} : g[x] = f[x]
         /\ DOMAIN g = DOMAIN f \cup {m} /\ g[m] = v
<1>1. PICK N \in SUBSET Name : f \in [N -> Nat]
  BY DEF Table
<1>2. g \in [N \cup {m} -> Nat] /\ N \cup {m} \in SUBSET Name
  BY <1>1
<1> QED BY <1>1, <1>2 DEF Table

(* Naming n, where the name was free or held x.                            *)
LEMMA NamedForest ==
  ASSUME Tree, NEW s \in Scopes, s = Current, NEW m \in Name, NEW o, NEW n,
         n = created, Fresh(o, s), AddNamed(m, o)
  PROVE  /\ Has(s, m) => Holdings' = Grow(Prune(Holdings, dirent[s].dirents[m]), s, n)
         /\ ~Has(s, m) => Holdings' = Grow(Holdings, s, n)
<1> DEFINE gone == IF Has(s, m) THEN Owned(dirent[s].dirents[m]) ELSE {}
           dirs == [x \in DOMAIN dirent[s].dirents \cup {m} |->
                      IF x = m THEN n ELSE dirent[s].dirents[x]]
           x0   == dirent[s].dirents[m]
           h    == IF Has(s, m) THEN Prune(Holdings, x0) ELSE Holdings
<1>1. dirent' = [d \in (DOMAIN dirent \ gone) \cup {n} |->
                   IF d = n THEN o
                   ELSE IF d = s THEN [dirent[s] EXCEPT !.dirents = dirs]
                   ELSE dirent[d]]
  BY DEF AddNamed
<1>2. /\ s \in DOMAIN dirent /\ IsScope(s) /\ dirent[s] \in ScopeRec
      /\ n \notin DOMAIN dirent /\ n \in Nat /\ s \in Nat /\ s # n
  BY DEF Scopes, Tree, Records, Formed, ScopeRec, ArrayRec, ProcRec, IsScope, IsAlias
<1>3. Has(s, m) => x0 \in Holdings[s]
  BY <1>2, HoldsOfKinds DEF Has, Holdings, Range
<1>4. Forest(Holdings) /\ DOMAIN Holdings = DOMAIN dirent
  BY DEF Tree, Holdings
<1>5. gone = IF Has(s, m) THEN Below(Holdings, x0) ELSE {}
  BY OwnedIsBelow
<1>6. DOMAIN h = DOMAIN dirent \ gone /\ s \in DOMAIN h
  <2>1. CASE Has(s, m)
    <3>1. s \notin Below(Holdings, x0)
      BY <1>2, <1>3, <1>4, <2>1, Cut
    <3> QED BY <1>2, <1>4, <1>5, <2>1, <3>1 DEF Prune
  <2>2. CASE ~Has(s, m)
    BY <1>2, <1>4, <1>5, <2>2
  <2> QED BY <2>1, <2>2
<1>7. ASSUME NEW d \in DOMAIN dirent' PROVE Holds(d)' = Grow(h, s, n)[d]
  <2>1. CASE d = n
    <3>1. dirent'[n] = o
      BY <1>1
    <3>2. Holds(n)' = {}
      BY <3>1, <1>2, FreshIsALeaf DEF Holds, IsScope, IsArray, LeafType, Range
    <3> QED BY <2>1, <3>2 DEF Grow
  <2>2. CASE d = s
    <3>1. dirent'[s] = [dirent[s] EXCEPT !.dirents = dirs]
      BY <1>1, <1>2, <1>6
    <3>2. dirent'[s].type = "scope" /\ dirent'[s].dirents = dirs
      BY <3>1, <1>2 DEF ScopeRec
    <3>3. Holds(s)' = Range(dirs)
      <4> HIDE DEF dirs
      <4>1. Holds(s)' = Range(dirent'[s].dirents)
        BY <3>2 DEF Holds, IsScope, IsArray
      <4> QED BY <3>2, <4>1
    <3>4. Range(dirs) = (Range(dirent[s].dirents) \ (IF Has(s, m) THEN {x0} ELSE {})) \cup {n}
      <4>1. /\ DOMAIN dirs = DOMAIN dirent[s].dirents \cup {m} /\ dirs[m] = n
            /\ \A x \in DOMAIN dirent[s].dirents \ {m} : dirs[x] = dirent[s].dirents[x]
        OBVIOUS
      <4>2. \A u, v \in DOMAIN dirent[s].dirents :
              dirent[s].dirents[u] = dirent[s].dirents[v] => u = v
        BY DEF Tree, NamesDiffer
      <4> HIDE DEF dirs
      <4>3. Range(dirs) = {dirs[x] : x \in DOMAIN dirent[s].dirents \ {m}} \cup {n}
        BY <4>1 DEF Range
      <4>4. {dirs[x] : x \in DOMAIN dirent[s].dirents \ {m}}
              = {dirent[s].dirents[x] : x \in DOMAIN dirent[s].dirents \ {m}}
        BY <4>1
      <4>5. {dirent[s].dirents[x] : x \in DOMAIN dirent[s].dirents \ {m}}
              = Range(dirent[s].dirents) \ (IF Has(s, m) THEN {x0} ELSE {})
        BY <4>2 DEF Has, Range
      <4> QED BY <4>3, <4>4, <4>5
    <3>5. Holdings[s] = Range(dirent[s].dirents)
      BY <1>2, HoldsOfKinds DEF Holdings
    <3>6. h[s] = Holdings[s] \ (IF Has(s, m) THEN {x0} ELSE {})
      BY <1>6, <1>4, <1>5 DEF Prune
    <3> QED BY <2>2, <3>3, <3>4, <3>5, <3>6, <1>2, <1>6 DEF Grow
  <2>3. CASE d # n /\ d # s
    <3>1. d \in DOMAIN h /\ d \in DOMAIN dirent /\ dirent'[d] = dirent[d]
      BY <1>1, <1>6, <2>3
    <3>2. Holds(d)' = Holds(d)
      BY <3>1 DEF Holds, IsScope, IsArray
    <3>3. h[d] = Holdings[d]
      <4>1. CASE Has(s, m)
        <5>1. x0 \notin Holdings[d]
          BY <1>2, <1>3, <1>4, <2>3, <3>1, <4>1 DEF Forest
        <5> QED BY <3>1, <4>1, <5>1 DEF Prune
      <4> QED BY <4>1
    <3> QED BY <2>3, <3>1, <3>2, <3>3 DEF Grow, Holdings
  <2> QED BY <2>1, <2>2, <2>3
<1>8. DOMAIN dirent' = DOMAIN Grow(h, s, n)
  BY <1>1, <1>6 DEF Grow
<1>9. Holdings' = Grow(h, s, n)
  <2>1. Holdings' = [d \in DOMAIN dirent' |-> Holds(d)']
    BY DEF Holdings
  <2>2. Grow(h, s, n) = [d \in DOMAIN Grow(h, s, n) |-> Grow(h, s, n)[d]]
    BY DEF Grow
  <2> HIDE DEF h
  <2> QED BY <2>1, <2>2, <1>7, <1>8
<1> QED BY <1>9

(* Dirents are numbered in order, without a gap at the end.                *)
LEMMA NumbersGrow ==
  ASSUME NEW c, NEW d, NEW S, NEW T,
         c \in 1..MaxDirents, c <= d, d <= MaxDirents, d \in Int,
         S \subseteq 0..(c - 1), T \subseteq S \cup (c..(d - 1))
  PROVE  d \in 1..MaxDirents /\ T \subseteq 0..(d - 1)
<1>1. MaxDirents \in Nat /\ c \in Nat /\ 1 <= c
  BY MaxDirentsIsNat
<1>2. d \in 1..MaxDirents
  BY <1>1
<1>3. 0..(c - 1) \subseteq 0..(d - 1) /\ c..(d - 1) \subseteq 0..(d - 1)
  BY <1>1
<1> QED BY <1>2, <1>3

(* Each of the three ways to add a dirent is a change.                     *)
LEMMA NamedChanges ==
  ASSUME Tree, NEW s \in Scopes, s = Current, NEW m \in Name, NEW o, NEW n,
         n = created, Fresh(o, s), AddNamed(m, o)
  PROVE  Change(o, s, n)
<1> DEFINE gone == IF Has(s, m) THEN Owned(dirent[s].dirents[m]) ELSE {}
           dirs == [x \in DOMAIN dirent[s].dirents \cup {m} |->
                      IF x = m THEN n ELSE dirent[s].dirents[x]]
           x0   == dirent[s].dirents[m]
           h    == IF Has(s, m) THEN Prune(Holdings, x0) ELSE Holdings
<1>1. /\ dirent' = [d \in (DOMAIN dirent \ gone) \cup {n} |->
                      IF d = n THEN o
                      ELSE IF d = s THEN [dirent[s] EXCEPT !.dirents = dirs]
                      ELSE dirent[d]]
      /\ created < MaxDirents /\ created' = created + 1
  BY DEF AddNamed
<1>2. /\ s \in DOMAIN dirent /\ IsScope(s) /\ dirent[s] \in ScopeRec
      /\ n \notin DOMAIN dirent /\ n \in Nat /\ s \in Nat /\ s # n
  BY DEF Scopes, Tree, Records, Formed, ScopeRec, ArrayRec, ProcRec, IsScope, IsAlias
<1>3. Has(s, m) => x0 \in Holdings[s]
  BY <1>2, HoldsOfKinds DEF Has, Holdings, Range
<1>4. Forest(Holdings) /\ DOMAIN Holdings = DOMAIN dirent
  BY DEF Tree, Holdings
<1>5. gone = IF Has(s, m) THEN Below(Holdings, x0) ELSE {}
  BY OwnedIsBelow
<1>6. /\ Forest(h) /\ DOMAIN h = DOMAIN dirent \ gone
      /\ s \in DOMAIN h /\ Root \in DOMAIN h /\ n \notin DOMAIN h
      /\ \A a, b \in DOMAIN h : b \in Below(Holdings, a) => b \in Below(h, a)
  <2>1. CASE Has(s, m)
    <3>1. s \notin Below(Holdings, x0) /\ Root \notin Below(Holdings, x0)
      BY <1>2, <1>3, <1>4, <2>1, Cut
    <3>2. Forest(h) /\ DOMAIN h = DOMAIN dirent \ Below(Holdings, x0)
          /\ \A a, b \in DOMAIN h : b \in Below(Holdings, a) => b \in Below(h, a)
      <4>1. h = Prune(Holdings, x0) /\ x0 \in Holdings[s] /\ s \in DOMAIN Holdings
        BY <1>2, <1>3, <1>4, <2>1
      <4> HIDE DEF h, x0
      <4> QED BY <1>4, <4>1, PruneKeepsForest
    <3> QED BY <1>2, <1>4, <1>5, <2>1, <3>1, <3>2 DEF Forest
  <2>2. CASE ~Has(s, m)
    BY <1>2, <1>4, <1>5, <2>2 DEF Forest
  <2> QED BY <2>1, <2>2
<1>7. Holdings' = Grow(h, s, n)
  BY NamedForest
<1>8. /\ Forest(Holdings') /\ DOMAIN Holdings' = DOMAIN h \cup {n}
      /\ n \in Below(Holdings', s)
      /\ \A a, b \in DOMAIN h : b \in Below(h, a) => b \in Below(Holdings', a)
  <2> HIDE DEF h
  <2> QED BY <1>6, <1>7, GrowKeepsForest
<1>9. DOMAIN dirent' = DOMAIN h \cup {n}
  BY <1>1, <1>6
<1>10. /\ dirent'[n] = o
       /\ dirent'[s] = [dirent[s] EXCEPT !.dirents = dirs]
       /\ \A d \in DOMAIN dirent' \ {n, s} : dirent'[d] = dirent[d]
  BY <1>1, <1>2, <1>6
<1>11. dirs \in Table /\ DOMAIN dirs = DOMAIN dirent[s].dirents \cup {m} /\ dirs[m] = n
       /\ \A x \in DOMAIN dirent[s].dirents \ {m} : dirs[x] = dirent[s].dirents[x]
  BY <1>2, TableWith DEF ScopeRec
<1>12. dirent'[s] \in ScopeRec /\ dirent'[s].dirents = dirs
       /\ dirent'[s].parent = dirent[s].parent /\ dirent'[s].type = "scope"
  <2> HIDE DEF dirs
  <2> QED BY <1>2, <1>10, <1>11 DEF ScopeRec
<1> HIDE DEF dirs, gone, h
<1>13. Records'
  <2>1. ASSUME NEW d \in DOMAIN dirent' PROVE Formed(d)'
    <3>1. CASE d = n
      BY <3>1, <1>2, <1>10, FreshIsALeaf DEF Formed, IsAlias
    <3>2. CASE d = s
      BY <3>2, <1>12 DEF Formed
    <3>3. CASE d \notin {n, s}
      <4>1. d \in DOMAIN dirent /\ dirent'[d] = dirent[d]
        BY <3>3, <1>6, <1>9, <1>10
      <4> QED BY <4>1 DEF Tree, Records, Formed, IsAlias
    <3> QED BY <3>1, <3>2, <3>3
  <2>2. dirent' = [d \in DOMAIN dirent' |-> dirent'[d]]
    BY <1>1
  <2>3. created' \in 1..MaxDirents /\ DOMAIN dirent' \subseteq 0..(created' - 1)
    <3>1. created \in 1..MaxDirents /\ DOMAIN dirent \subseteq 0..(created - 1)
      BY DEF Tree, Records
    <3>2. created' = created + 1 /\ created' <= MaxDirents /\ created \in Nat
      BY <1>1, <3>1, MaxDirentsIsNat
    <3>3. DOMAIN dirent' \subseteq DOMAIN dirent \cup (created..(created' - 1))
      <4>1. {n} \subseteq created..(created' - 1)
        BY <3>2
      <4> QED BY <1>6, <1>9, <4>1
    <3>4. created <= created' /\ created' \in Int
      BY <3>2
    <3> QED BY <3>1, <3>2, <3>3, <3>4, NumbersGrow
  <2>4. IsScope(Root)'
    BY <1>2, <1>6, <1>9, <1>10, <1>12 DEF Tree, Records, IsScope
  <2> QED BY <2>1, <2>2, <2>3, <2>4 DEF Records
<1>14. NamesDiffer'
  <2> SUFFICES ASSUME NEW d \in DOMAIN dirent', IsScope(d)',
                      NEW u \in DOMAIN dirent'[d].dirents,
                      NEW v \in DOMAIN dirent'[d].dirents,
                      dirent'[d].dirents[u] = dirent'[d].dirents[v]
               PROVE  u = v
    BY DEF NamesDiffer, Scopes
  <2>1. CASE d = n
    BY <2>1, <1>2, <1>10, FreshIsALeaf DEF IsScope
  <2>2. CASE d = s
    <3>1. \A x \in DOMAIN dirent[s].dirents : dirent[s].dirents[x] # n
      <4> SUFFICES ASSUME NEW x \in DOMAIN dirent[s].dirents PROVE dirent[s].dirents[x] # n
        OBVIOUS
      <4>1. dirent[s].dirents[x] \in Holdings[s]
        BY <1>2, HoldsOfKinds DEF Holdings, Range
      <4> QED BY <4>1, <1>2, <1>4 DEF Forest
    <3> QED BY <2>2, <3>1, <1>2, <1>11, <1>12 DEF Tree, NamesDiffer
  <2>3. CASE d \notin {n, s}
    <3>1. d \in DOMAIN dirent /\ dirent'[d] = dirent[d]
      BY <2>3, <1>6, <1>9, <1>10
    <3> QED BY <3>1 DEF Tree, NamesDiffer, Scopes, IsScope
  <2> QED BY <2>1, <2>2, <2>3
<1>15. ASSUME NEW d \in DOMAIN dirent, d \in DOMAIN dirent'
       PROVE  /\ dirent'[d].type = dirent[d].type
              /\ IsScope(d) => dirent'[d].parent = dirent[d].parent
              /\ IsProc(d) => dirent'[d].context = dirent[d].context
              /\ IsArray(d) => dirent'[d] = dirent[d]
  <2>1. CASE d = s
    BY <2>1, <1>2, <1>12 DEF IsScope, IsProc, IsArray
  <2>2. CASE d # s
    BY <2>2, <1>2, <1>10, <1>15
  <2> QED BY <2>1, <2>2
<1>16. ArraysOfOneType'
  <2> SUFFICES ASSUME NEW a \in DOMAIN dirent', IsArray(a)'
               PROVE  /\ dirent'[a].elems # <<>>
                      /\ \A d \in Holds(a)' : dirent'[d].type = dirent'[a].of
    BY DEF ArraysOfOneType
  <2>1. a # n
    BY <1>2, <1>10, FreshIsALeaf DEF IsArray, LeafType
  <2>2. a \in DOMAIN dirent /\ IsArray(a) /\ dirent'[a] = dirent[a]
    BY <2>1, <1>6, <1>9, <1>15 DEF IsArray
  <2>3. Holds(a)' = Holds(a)
    BY <2>2 DEF Holds, IsScope, IsArray
  <2>4. Holds(a) \subseteq DOMAIN dirent /\ Holds(a)' \subseteq DOMAIN dirent'
    BY <2>2, <1>4, <1>8 DEF Forest, Holdings
  <2> QED BY <2>2, <2>3, <2>4, <1>15 DEF Tree, ArraysOfOneType
<1>17. LiesIn(n, s)'
  <2>1. n \in Holds(s)'
    <3>1. Holds(s)' = Range(dirent'[s].dirents)
      BY <1>12 DEF Holds, IsScope, IsArray
    <3> QED BY <3>1, <1>11, <1>12 DEF Range
  <2> QED BY <2>1 DEF LiesIn
<1>18. ASSUME NEW a \in DOMAIN dirent, NEW d \in DOMAIN dirent,
              d \in Holds(a), d \in DOMAIN dirent'
       PROVE  a \in DOMAIN dirent' /\ d \in Holds(a)'
  <2>1. d \in DOMAIN h /\ d \in Holdings[a]
    BY <1>2, <1>9, <1>18 DEF Holdings
  <2>2. a \in DOMAIN h
    <3>1. CASE Has(s, m)
      BY <2>1, <3>1, <1>3, <1>4, <1>5, <1>6, BelowIsClosed DEF Forest
    <3>2. CASE ~Has(s, m)
      BY <3>2, <1>6 DEF gone
    <3> QED BY <3>1, <3>2
  <2>3. d \in h[a]
    <3>1. CASE Has(s, m)
      <4>1. d # x0
        BY <2>1, <3>1, <1>3, <1>4, <1>5, <1>6, BelowIsClosed DEF Forest
      <4> QED BY <2>1, <2>2, <3>1, <4>1 DEF h, Prune
    <3>2. CASE ~Has(s, m)
      BY <3>2, <2>1 DEF h
    <3> QED BY <3>1, <3>2
  <2>4. d \in Holdings'[a]
    BY <2>2, <2>3, <1>6, <1>7 DEF Grow
  <2>5. a \in DOMAIN dirent' /\ Holdings'[a] = Holds(a)'
    BY <2>2, <1>9 DEF Holdings
  <2> QED BY <2>4, <2>5
<1>19. ASSUME NEW a \in DOMAIN dirent, s \in Below(Holdings, a)
       PROVE  a \in DOMAIN dirent'
  <2>1. CASE Has(s, m) /\ a \in Below(Holdings, x0)
    <3>1. s \in Below(Holdings, x0)
      BY <1>3, <1>4, <1>19, <2>1, BelowIsTransitive DEF Forest
    <3> QED BY <3>1, <2>1, <1>2, <1>3, <1>4, Cut
  <2>2. CASE ~(Has(s, m) /\ a \in Below(Holdings, x0))
    BY <2>2, <1>5, <1>6, <1>9
  <2> QED BY <2>1, <2>2
<1>20. \A a, b \in DOMAIN dirent \cap DOMAIN dirent' :
          b \in Below(Holdings, a) => b \in Below(Holdings', a)
  BY <1>2, <1>6, <1>8, <1>9
<1>21. n \in DOMAIN dirent' /\ s \in DOMAIN dirent'
       /\ \A d \in DOMAIN dirent' \ DOMAIN dirent : d = n
  BY <1>6, <1>9
<1> QED BY <1>8, <1>10, <1>13, <1>14, <1>15, <1>16, <1>17, <1>18, <1>19, <1>20, <1>21
        DEF Change, Forest, Below

LEMMA NewArrayChanges ==
  ASSUME Tree, NEW s \in Scopes, s = Current, NEW m \in Name, NEW o, NEW n,
         n = created, Fresh(o, s), AddToNewArray(m, o)
  PROVE  Change(o, s, n)
<1> DEFINE arr  == n + 1
           dirs == [x \in DOMAIN dirent[s].dirents \cup {m} |->
                      IF x = m THEN arr ELSE dirent[s].dirents[x]]
           h    == Grow(Holdings, s, arr)
<1>1. /\ dirent' = [d \in DOMAIN dirent \cup {n, arr} |->
                      IF d = n THEN o
                      ELSE IF d = arr THEN NewArray(o.type, n)
                      ELSE IF d = s THEN [dirent[s] EXCEPT !.dirents = dirs]
                      ELSE dirent[d]]
      /\ created + 1 < MaxDirents /\ created' = created + 2 /\ ~Has(s, m)
  BY DEF AddToNewArray
<1>2. /\ s \in DOMAIN dirent /\ IsScope(s) /\ dirent[s] \in ScopeRec
      /\ n \notin DOMAIN dirent /\ arr \notin DOMAIN dirent
      /\ n \in Nat /\ arr \in Nat /\ s \in Nat /\ n # arr /\ s # n /\ s # arr
  BY DEF Scopes, Tree, Records, Formed, ScopeRec, ArrayRec, ProcRec, IsScope, IsAlias
<1>3. Forest(Holdings) /\ DOMAIN Holdings = DOMAIN dirent
  BY DEF Tree, Holdings
<1>4. dirs \in Table /\ DOMAIN dirs = DOMAIN dirent[s].dirents \cup {m} /\ dirs[m] = arr
      /\ \A x \in DOMAIN dirent[s].dirents \ {m} : dirs[x] = dirent[s].dirents[x]
  BY <1>2, TableWith DEF ScopeRec
<1> HIDE DEF dirs, arr
<1>5. /\ DOMAIN dirent' = DOMAIN dirent \cup {n, arr}
      /\ dirent'[n] = o /\ dirent'[arr] = NewArray(o.type, n)
      /\ dirent'[s] = [dirent[s] EXCEPT !.dirents = dirs]
      /\ \A d \in DOMAIN dirent \ {s} : dirent'[d] = dirent[d]
  BY <1>1, <1>2
<1>6. dirent'[s] \in ScopeRec /\ dirent'[s].dirents = dirs
      /\ dirent'[s].parent = dirent[s].parent /\ dirent'[s].type = "scope"
  BY <1>2, <1>4, <1>5 DEF ScopeRec
<1>7. o.type \in LeafType
  BY <1>2, FreshIsALeaf
<1>8. /\ dirent'[arr].type = "array" /\ dirent'[arr].of = o.type
      /\ dirent'[arr].elems = <<n>> /\ dirent'[arr] \in ArrayRec
  BY <1>2, <1>5, <1>7 DEF NewArray, ArrayRec
<1>9. /\ Holds(n)' = {} /\ Holds(arr)' = {n}
      /\ Holds(s)' = Holds(s) \cup {arr}
      /\ \A d \in DOMAIN dirent \ {s} : Holds(d)' = Holds(d)
  <2>1. Holds(n)' = {}
    BY <1>2, <1>5, FreshIsALeaf DEF Holds, IsScope, IsArray, LeafType, Range
  <2>2. Holds(arr)' = {n}
    <3>1. Holds(arr)' = Range(<<n>>)
      BY <1>8 DEF Holds, IsScope, IsArray
    <3> QED BY <3>1 DEF Range
  <2>3. Holds(s)' = Holds(s) \cup {arr}
    <3>1. Holds(s)' = Range(dirs)
      BY <1>6 DEF Holds, IsScope, IsArray
    <3>2. m \notin DOMAIN dirent[s].dirents
      BY <1>1 DEF Has
    <3>3. Range(dirs) = {dirs[x] : x \in DOMAIN dirent[s].dirents} \cup {arr}
      BY <1>4 DEF Range
    <3>4. {dirs[x] : x \in DOMAIN dirent[s].dirents} = Range(dirent[s].dirents)
      BY <1>4, <3>2 DEF Range
    <3> QED BY <1>2, <3>1, <3>3, <3>4, HoldsOfKinds
  <2>4. ASSUME NEW d \in DOMAIN dirent \ {s} PROVE Holds(d)' = Holds(d)
    BY <1>5 DEF Holds, IsScope, IsArray
  <2> QED BY <2>1, <2>2, <2>3, <2>4
<1>10. /\ Forest(h) /\ DOMAIN h = DOMAIN dirent \cup {arr} /\ n \notin DOMAIN h
       /\ arr \in Below(h, s)
       /\ \A a, b \in DOMAIN dirent : b \in Below(Holdings, a) => b \in Below(h, a)
  <2>1. s \in DOMAIN Holdings /\ arr \notin DOMAIN Holdings
    BY <1>2, <1>3
  <2>2. /\ Forest(h) /\ DOMAIN h = DOMAIN Holdings \cup {arr} /\ arr \in Below(h, s)
        /\ \A a, b \in DOMAIN Holdings :
             b \in Below(Holdings, a) => b \in Below(h, a)
    BY <1>3, <2>1, GrowKeepsForest
  <2> HIDE DEF h
  <2> QED BY <1>2, <1>3, <2>2
<1>11. Holdings' = Grow(h, arr, n)
  <2>1. Holdings' = [d \in DOMAIN dirent' |-> Holds(d)']
    BY DEF Holdings
  <2>2. DOMAIN dirent' = DOMAIN h \cup {n}
    BY <1>5, <1>10
  <2>3. ASSUME NEW d \in DOMAIN dirent'
        PROVE  Holds(d)' = IF d = n THEN {} ELSE IF d = arr THEN h[d] \cup {n} ELSE h[d]
    BY <1>2, <1>5, <1>9 DEF Grow, Holdings
  <2> HIDE DEF h
  <2> QED BY <2>1, <2>2, <2>3 DEF Grow
<1> HIDE DEF h
<1>12. /\ Forest(Holdings') /\ n \in Below(Holdings', arr)
       /\ \A a, b \in DOMAIN h : b \in Below(h, a) => b \in Below(Holdings', a)
  BY <1>10, <1>11, GrowKeepsForest
<1>13. \A a, b \in DOMAIN dirent : b \in Below(Holdings, a) => b \in Below(Holdings', a)
  BY <1>10, <1>12
<1>14. n \in Below(Holdings', s)
  <2>1. arr \in Below(Holdings', s)
    BY <1>2, <1>10, <1>12
  <2>2. s \in DOMAIN Holdings'
    BY <1>2, <1>5 DEF Holdings
  <2> QED BY <1>12, <2>1, <2>2, BelowIsTransitive DEF Forest
<1>15. LiesIn(n, s)'
  BY <1>8, <1>9 DEF LiesIn, IsArray
<1>16. Records'
  <2>1. ASSUME NEW d \in DOMAIN dirent' PROVE Formed(d)'
    <3>1. CASE d = n
      BY <3>1, <1>2, <1>5, FreshIsALeaf DEF Formed, IsAlias
    <3>2. CASE d \in {s, arr}
      BY <3>2, <1>6, <1>8 DEF Formed
    <3>3. CASE d \in DOMAIN dirent \ {s}
      BY <3>3, <1>5 DEF Tree, Records, Formed, IsAlias
    <3> QED BY <3>1, <3>2, <3>3, <1>5
  <2>2. dirent' = [d \in DOMAIN dirent' |-> dirent'[d]]
    BY <1>1
  <2>3. created' \in 1..MaxDirents /\ DOMAIN dirent' \subseteq 0..(created' - 1)
    <3>1. created \in 1..MaxDirents /\ DOMAIN dirent \subseteq 0..(created - 1)
      BY DEF Tree, Records
    <3>2. created' = created + 2 /\ created' <= MaxDirents /\ created \in Nat
      BY <1>1, <3>1, MaxDirentsIsNat
    <3>3. DOMAIN dirent' \subseteq DOMAIN dirent \cup (created..(created' - 1))
      <4>1. {n, arr} \subseteq created..(created' - 1)
        BY <3>2 DEF arr
      <4> QED BY <1>5, <4>1
    <3>4. created <= created' /\ created' \in Int
      BY <3>2
    <3> QED BY <3>1, <3>2, <3>3, <3>4, NumbersGrow
  <2>4. IsScope(Root)'
    BY <1>5, <1>6, <1>3 DEF Tree, Records, IsScope, Forest
  <2> QED BY <2>1, <2>2, <2>3, <2>4 DEF Records
<1>17. NamesDiffer'
  <2> SUFFICES ASSUME NEW d \in DOMAIN dirent', IsScope(d)',
                      NEW u \in DOMAIN dirent'[d].dirents,
                      NEW v \in DOMAIN dirent'[d].dirents,
                      dirent'[d].dirents[u] = dirent'[d].dirents[v]
               PROVE  u = v
    BY DEF NamesDiffer, Scopes
  <2>1. CASE d = n
    BY <2>1, <1>2, <1>5, FreshIsALeaf DEF IsScope
  <2>2. CASE d = s
    <3>1. \A x \in DOMAIN dirent[s].dirents : dirent[s].dirents[x] # arr
      <4> SUFFICES ASSUME NEW x \in DOMAIN dirent[s].dirents PROVE dirent[s].dirents[x] # arr
        OBVIOUS
      <4>1. dirent[s].dirents[x] \in Holdings[s]
        BY <1>2, HoldsOfKinds DEF Holdings, Range
      <4> QED BY <4>1, <1>2, <1>3 DEF Forest
    <3> QED BY <2>2, <3>1, <1>2, <1>4, <1>6 DEF Tree, NamesDiffer
  <2>3. CASE d \in DOMAIN dirent \ {s}
    BY <2>3, <1>5 DEF Tree, NamesDiffer, Scopes, IsScope
  <2>4. d # arr
    BY <1>8 DEF IsScope
  <2> QED BY <2>1, <2>2, <2>3, <2>4, <1>5
<1>18. ASSUME NEW d \in DOMAIN dirent
       PROVE  /\ dirent'[d].type = dirent[d].type
              /\ IsScope(d) => dirent'[d].parent = dirent[d].parent
              /\ IsProc(d) => dirent'[d].context = dirent[d].context
              /\ IsArray(d) => dirent'[d] = dirent[d]
  <2>1. CASE d = s
    BY <2>1, <1>2, <1>6 DEF IsScope, IsProc, IsArray
  <2>2. CASE d # s
    BY <2>2, <1>5
  <2> QED BY <2>1, <2>2
<1>19. ArraysOfOneType'
  <2> SUFFICES ASSUME NEW a \in DOMAIN dirent', IsArray(a)'
               PROVE  /\ dirent'[a].elems # <<>>
                      /\ \A d \in Holds(a)' : dirent'[d].type = dirent'[a].of
    BY DEF ArraysOfOneType
  <2>1. CASE a = arr
    BY <2>1, <1>5, <1>8, <1>9
  <2>2. CASE a # arr
    <3>1. a # n
      BY <1>5, <1>7 DEF IsArray, LeafType
    <3>2. a \in DOMAIN dirent /\ IsArray(a) /\ dirent'[a] = dirent[a] /\ a # s
      BY <2>2, <3>1, <1>2, <1>5, <1>18 DEF IsArray, IsScope
    <3>3. Holds(a)' = Holds(a) /\ Holds(a) \subseteq DOMAIN dirent
      BY <3>2, <1>3, <1>9 DEF Forest, Holdings
    <3> QED BY <3>2, <3>3, <1>18 DEF Tree, ArraysOfOneType
  <2> QED BY <2>1, <2>2
<1> QED BY <1>2, <1>5, <1>8, <1>9, <1>12, <1>13, <1>14, <1>15, <1>16, <1>17, <1>18, <1>19
        DEF Change, Forest, Below

(* The elements of a sequence with one more.                               *)
LEMMA RangeOfAppend ==
  ASSUME NEW S, NEW seq \in Seq(S), NEW x
  PROVE  Range(Append(seq, x)) = Range(seq) \cup {x}
<1> DEFINE new == Append(seq, x)
<1>1. /\ Len(seq) \in Nat /\ DOMAIN seq = 1..Len(seq)
      /\ DOMAIN new = 1..(Len(seq) + 1) /\ new[Len(seq) + 1] = x
      /\ \A i \in 1..Len(seq) : new[i] = seq[i]
  OBVIOUS
<1> HIDE DEF new
<1>2. Range(new) \subseteq Range(seq) \cup {x}
  <2> SUFFICES ASSUME NEW i \in DOMAIN new PROVE new[i] \in Range(seq) \cup {x}
    BY DEF Range
  <2> QED BY <1>1 DEF Range
<1>3. Range(seq) \cup {x} \subseteq Range(new)
  BY <1>1 DEF Range
<1> QED BY <1>2, <1>3 DEF new

LEMMA ArrayChanges ==
  ASSUME Tree, NEW s \in Scopes, s = Current, NEW m \in Name, NEW o, NEW n,
         n = created, Fresh(o, s), AddToArray(m, o)
  PROVE  Change(o, s, n)
<1> PICK arr : arr = dirent[s].dirents[m]
  OBVIOUS
<1>1. /\ dirent' = [d \in DOMAIN dirent \cup {n} |->
                      IF d = n THEN o
                      ELSE IF d = arr THEN [dirent[arr] EXCEPT !.elems = Append(@, n)]
                      ELSE dirent[d]]
      /\ created < MaxDirents /\ created' = created + 1
      /\ Has(s, m) /\ IsArray(arr) /\ dirent[arr].of = o.type
  BY DEF AddToArray
<1>2. /\ s \in DOMAIN dirent /\ IsScope(s) /\ dirent[s] \in ScopeRec
      /\ n \notin DOMAIN dirent /\ n \in Nat /\ s \in Nat
  BY DEF Scopes, Tree, Records, Formed, ScopeRec, ArrayRec, ProcRec, IsScope, IsAlias
<1>3. Forest(Holdings) /\ DOMAIN Holdings = DOMAIN dirent
  BY DEF Tree, Holdings
<1>4. arr \in Holds(s) /\ arr \in DOMAIN dirent
  <2>1. arr \in Holds(s)
    BY <1>1, <1>2, HoldsOfKinds DEF Has, Range
  <2> QED BY <2>1, <1>2, <1>3 DEF Forest, Holdings
<1>5. dirent[arr] \in ArrayRec
  BY <1>1, <1>4 DEF Tree, Records, Formed, ScopeRec, ArrayRec, ProcRec, IsArray, IsAlias
<1>6. /\ DOMAIN dirent' = DOMAIN dirent \cup {n} /\ dirent'[n] = o
      /\ dirent'[arr] = [dirent[arr] EXCEPT !.elems = Append(@, n)]
      /\ \A d \in DOMAIN dirent \ {arr} : dirent'[d] = dirent[d]
  BY <1>1, <1>2, <1>4
<1>7. /\ dirent'[arr] \in ArrayRec /\ dirent'[arr].type = "array"
      /\ dirent'[arr].elems = Append(dirent[arr].elems, n)
      /\ dirent'[arr].of = dirent[arr].of
  <2>1. PICK q, w : q = Append(dirent[arr].elems, n) /\ w = dirent[arr].of
    OBVIOUS
  <2>2. q \in Seq(Nat) /\ w \in LeafType
    BY <1>2, <1>5, <2>1, AppendProperties DEF ArrayRec
  <2>3. dirent'[arr] = [type |-> "array", of |-> w, elems |-> q]
    BY <1>5, <1>6, <2>1 DEF ArrayRec
  <2>4. /\ dirent'[arr].type = "array" /\ dirent'[arr].of = w
        /\ dirent'[arr].elems = q
    BY <2>3
  <2>5. dirent'[arr] \in ArrayRec
    BY <2>2, <2>3 DEF ArrayRec
  <2> QED BY <2>1, <2>4, <2>5
<1>8. o.type \in LeafType
  BY <1>2, FreshIsALeaf
<1>9. /\ Holds(n)' = {} /\ Holds(arr)' = Holds(arr) \cup {n}
      /\ \A d \in DOMAIN dirent \ {arr} : Holds(d)' = Holds(d)
  <2>1. Holds(n)' = {}
    BY <1>2, <1>6, FreshIsALeaf DEF Holds, IsScope, IsArray, LeafType, Range
  <2>2. Holds(arr)' = Holds(arr) \cup {n}
    <3>1. Holds(arr)' = Range(Append(dirent[arr].elems, n))
      BY <1>7 DEF Holds, IsScope, IsArray
    <3>2. dirent[arr].elems \in Seq(Nat)
      BY <1>5 DEF ArrayRec
    <3> QED BY <1>1, <1>4, <3>1, <3>2, RangeOfAppend, HoldsOfKinds
  <2>3. ASSUME NEW d \in DOMAIN dirent \ {arr} PROVE Holds(d)' = Holds(d)
    BY <1>6 DEF Holds, IsScope, IsArray
  <2> QED BY <2>1, <2>2, <2>3
<1>10. Holdings' = Grow(Holdings, arr, n)
  <2>1. Holdings' = [d \in DOMAIN dirent' |-> Holds(d)']
    BY DEF Holdings
  <2>2. ASSUME NEW d \in DOMAIN dirent'
        PROVE  Holds(d)' = IF d = n THEN {}
                           ELSE IF d = arr THEN Holdings[d] \cup {n} ELSE Holdings[d]
    BY <1>2, <1>4, <1>6, <1>9 DEF Holdings
  <2> QED BY <2>1, <2>2, <1>3, <1>6 DEF Grow
<1>11. /\ Forest(Holdings') /\ n \in Below(Holdings', arr)
       /\ \A a, b \in DOMAIN dirent : b \in Below(Holdings, a) => b \in Below(Holdings', a)
  BY <1>2, <1>3, <1>4, <1>10, GrowKeepsForest
<1>12. n \in Below(Holdings', s)
  <2>1. arr \in Below(Holdings, s)
    BY <1>2, <1>3, <1>4, BelowIsClosed DEF Forest, Holdings
  <2>2. arr \in Below(Holdings', s) /\ s \in DOMAIN Holdings'
    BY <1>2, <1>4, <1>6, <1>11, <2>1 DEF Holdings
  <2> QED BY <1>11, <2>2, BelowIsTransitive DEF Forest
<1>13. ASSUME NEW d \in DOMAIN dirent
       PROVE  /\ dirent'[d].type = dirent[d].type
              /\ ~IsArray(d) => dirent'[d] = dirent[d]
  BY <1>1, <1>6, <1>7 DEF IsArray
<1>14. LiesIn(n, s)'
  <2>1. IsArray(arr)' /\ n \in Holds(arr)'
    BY <1>7, <1>9 DEF IsArray
  <2>2. s # arr
    BY <1>1, <1>2 DEF IsArray, IsScope
  <2>3. arr \in Holds(s)'
    BY <2>2, <1>2, <1>4, <1>9
  <2> QED BY <2>1, <2>3 DEF LiesIn
<1>15. Records'
  <2>1. ASSUME NEW d \in DOMAIN dirent' PROVE Formed(d)'
    <3>1. CASE d = n
      BY <3>1, <1>2, <1>6, FreshIsALeaf DEF Formed, IsAlias
    <3>2. CASE d = arr
      BY <3>2, <1>7 DEF Formed
    <3>3. CASE d \in DOMAIN dirent \ {arr}
      BY <3>3, <1>6 DEF Tree, Records, Formed, IsAlias
    <3> QED BY <3>1, <3>2, <3>3, <1>6
  <2>2. dirent' = [d \in DOMAIN dirent' |-> dirent'[d]]
    BY <1>1
  <2>3. created' \in 1..MaxDirents /\ DOMAIN dirent' \subseteq 0..(created' - 1)
    <3>1. created \in 1..MaxDirents /\ DOMAIN dirent \subseteq 0..(created - 1)
      BY DEF Tree, Records
    <3>2. created' = created + 1 /\ created' <= MaxDirents /\ created \in Nat
      BY <1>1, <3>1, MaxDirentsIsNat
    <3>3. DOMAIN dirent' \subseteq DOMAIN dirent \cup (created..(created' - 1))
      <4>1. {n} \subseteq created..(created' - 1)
        BY <3>2
      <4> QED BY <1>6, <4>1
    <3>4. created <= created' /\ created' \in Int
      BY <3>2
    <3> QED BY <3>1, <3>2, <3>3, <3>4, NumbersGrow
  <2>4. IsScope(Root)'
    BY <1>13, <1>3 DEF Tree, Records, IsScope, Forest
  <2> QED BY <2>1, <2>2, <2>3, <2>4 DEF Records
<1>16. NamesDiffer'
  <2> SUFFICES ASSUME NEW d \in DOMAIN dirent', IsScope(d)',
                      NEW u \in DOMAIN dirent'[d].dirents,
                      NEW v \in DOMAIN dirent'[d].dirents,
                      dirent'[d].dirents[u] = dirent'[d].dirents[v]
               PROVE  u = v
    BY DEF NamesDiffer, Scopes
  <2>1. CASE d = n
    BY <2>1, <1>2, <1>6, FreshIsALeaf DEF IsScope
  <2>2. CASE d \in DOMAIN dirent
    <3>1. IsScope(d) /\ dirent'[d] = dirent[d]
      BY <2>2, <1>13 DEF IsScope, IsArray
    <3> QED BY <2>2, <3>1 DEF Tree, NamesDiffer, Scopes
  <2> QED BY <2>1, <2>2, <1>6
<1>17. ArraysOfOneType'
  <2> SUFFICES ASSUME NEW a \in DOMAIN dirent', IsArray(a)'
               PROVE  /\ dirent'[a].elems # <<>>
                      /\ \A d \in Holds(a)' : dirent'[d].type = dirent'[a].of
    BY DEF ArraysOfOneType
  <2>1. a # n
    BY <1>6, <1>8 DEF IsArray, LeafType
  <2>2. a \in DOMAIN dirent /\ IsArray(a)
    BY <2>1, <1>6, <1>13 DEF IsArray
  <2>3. Holds(a) \subseteq DOMAIN dirent
    BY <2>2, <1>3 DEF Forest, Holdings
  <2>4. \A d \in Holds(a) : dirent'[d].type = dirent[a].of
    BY <2>2, <2>3, <1>13 DEF Tree, ArraysOfOneType
  <2>5. CASE a = arr
    <3>1. dirent'[a].elems # <<>>
      <4>1. dirent[arr].elems \in Seq(Nat)
        BY <1>5 DEF ArrayRec
      <4>2. Append(dirent[arr].elems, n) # <<>>
        BY <1>2, <4>1, AppendProperties
      <4> QED BY <2>5, <1>7, <4>2
    <3>2. Holds(a)' = Holds(a) \cup {n}
      BY <2>5, <1>9
    <3>3. dirent'[a].of = dirent[a].of /\ dirent[a].of = o.type /\ dirent'[n].type = o.type
      BY <2>5, <1>1, <1>6, <1>7
    <3> QED BY <2>4, <3>1, <3>2, <3>3
  <2>6. CASE a # arr
    BY <2>2, <2>4, <2>6, <1>6, <1>9 DEF Tree, ArraysOfOneType
  <2> QED BY <2>5, <2>6
<1>18. \A d \in DOMAIN dirent : IsScope(d) \/ IsProc(d) => ~IsArray(d)
  BY DEF IsScope, IsProc, IsArray
<1> QED BY <1>2, <1>6, <1>9, <1>11, <1>12, <1>13, <1>14, <1>15, <1>16, <1>17, <1>18
        DEF Change, Forest, Below

(* Scope::add_dirent() is a change, whatever the name.                     *)
LEMMA AddingChanges ==
  ASSUME Tree, NEW s \in Scopes, s = Current, NEW e \in Defines(Name),
         NEW o, NEW n, n = created, Fresh(o, s), AddDirent(e, o)
  PROVE  Change(o, s, n)
<1>1. e.name \in Name
  BY DEF Defines, Named, Appended
<1>2. CASE AddNamed(e.name, o)
  BY <1>1, <1>2, NamedChanges
<1>3. CASE AddToNewArray(e.name, o)
  BY <1>1, <1>3, NewArrayChanges
<1>4. CASE AddToArray(e.name, o)
  BY <1>1, <1>4, ArrayChanges
<1> QED BY <1>2, <1>3, <1>4 DEF AddDirent

-----------------------------------------------------------------------------
(* The open scopes: all own the current one, so that what is destroyed     *)
(* under the current one is none of them.                                  *)
LEMMA ChangeKeepsOpenScopes ==
  ASSUME IInv, NEW s, s = Current, NEW o, NEW n, Fresh(o, s), Change(o, s, n)
  PROVE  /\ \A i \in 1..Len(stack) : stack[i] \in Scopes'
         /\ \A i \in 2..Len(stack) : dirent'[stack[i]].parent = stack[i - 1]
         /\ \A i \in 1..Len(stack) : \A j \in i..Len(stack) :
              stack[j] \in Below(Holdings', stack[i])
<1>1. /\ Len(stack) \in Nat
      /\ \A i \in 1..Len(stack) : s \in Below(Holdings, stack[i])
  BY CurrentIsOpen
<1>2. \A i \in 1..Len(stack) :
        stack[i] \in DOMAIN dirent /\ IsScope(stack[i]) /\ stack[i] \in DOMAIN dirent'
  BY <1>1 DEF IInv, OpenScopes, Change, Scopes
<1>3. \A i \in 1..Len(stack) : dirent'[stack[i]].type = dirent[stack[i]].type
        /\ dirent'[stack[i]].parent = dirent[stack[i]].parent
  BY <1>2 DEF Change
<1>4. \A i \in 1..Len(stack) : stack[i] \in Scopes'
  <2> SUFFICES ASSUME NEW i \in 1..Len(stack) PROVE stack[i] \in Scopes'
    OBVIOUS
  <2>1. stack[i] \in DOMAIN dirent' /\ dirent'[stack[i]].type = "scope"
    BY <1>2, <1>3 DEF IsScope
  <2> QED BY <2>1 DEF Scopes, IsScope
<1>5. \A i \in 2..Len(stack) : dirent'[stack[i]].parent = stack[i - 1]
  BY <1>1, <1>3 DEF IInv, OpenScopes
<1>6. \A i \in 1..Len(stack) : \A j \in i..Len(stack) :
        stack[j] \in Below(Holdings', stack[i])
  <2> SUFFICES ASSUME NEW i \in 1..Len(stack), NEW j \in i..Len(stack)
               PROVE  stack[j] \in Below(Holdings', stack[i])
    OBVIOUS
  <2>1. j \in 1..Len(stack)
    BY <1>1
  <2>2. stack[j] \in Below(Holdings, stack[i])
    BY DEF IInv, OpenScopes
  <2> QED BY <1>2, <2>1, <2>2 DEF Change
<1> QED BY <1>4, <1>5, <1>6

(* The statements keep the invariant: REG, FIELD and ALIAS ...             *)
LEMMA AddingKeepsIInv ==
  ASSUME IInv, NEW e \in Defines(Name), NEW o, Fresh(o, Current),
         AddDirent(e, o), UNCHANGED stack
  PROVE  IInv'
<1>1. PICK s, n : s = Current /\ n = created
  OBVIOUS
<1>2. s \in Scopes
  BY <1>1, CurrentIsOpen
<1>3. Change(o, s, n) /\ Fresh(o, s)
  BY <1>1, <1>2, AddingChanges DEF IInv
<1>4. Tree'
  BY <1>2, <1>3, ChangeKeepsTree DEF IInv
<1>5. OpenScopes'
  <2>1. stack' = stack
    OBVIOUS
  <2>2. /\ \A i \in 1..Len(stack) : stack[i] \in Scopes'
        /\ \A i \in 2..Len(stack) : dirent'[stack[i]].parent = stack[i - 1]
        /\ \A i \in 1..Len(stack) : \A j \in i..Len(stack) :
             stack[j] \in Below(Holdings', stack[i])
    BY <1>1, <1>3, ChangeKeepsOpenScopes
  <2> QED BY <2>1, <2>2 DEF IInv, OpenScopes, Below
<1> QED BY <1>4, <1>5 DEF IInv

(* ... OPEN_SCOPE, after which the new scope is below all open ones ...    *)
LEMMA OpeningKeepsIInv ==
  ASSUME IInv, NEW e \in Defines(Name), OpenScope(e)
  PROVE  IInv'
<1>1. PICK s, n : s = Current /\ n = created
  OBVIOUS
<1> DEFINE o == NewScope(s)
           k == Len(stack)
<1>2. s \in Scopes /\ k \in Nat \ {0} /\ s = stack[k]
  BY <1>1, CurrentIsOpen
<1>3. Change(o, s, n) /\ Fresh(o, s)
  BY <1>1, <1>2, AddingChanges DEF IInv, OpenScope, Fresh
<1>4. Tree'
  BY <1>2, <1>3, ChangeKeepsTree DEF IInv
<1>5. /\ stack' = Append(stack, n) /\ stack \in Seq(Nat) /\ n \in Nat
  BY <1>1 DEF OpenScope, IInv, OpenScopes, Tree, Records
<1>6. /\ stack' \in Seq(Nat) /\ stack' # <<>> /\ Len(stack') = k + 1
      /\ stack'[k + 1] = n /\ \A i \in 1..k : stack'[i] = stack[i]
  BY <1>5, AppendProperties
<1>7. /\ \A i \in 1..k : stack[i] \in Scopes' /\ stack[i] \in DOMAIN dirent'
      /\ \A i \in 2..k : dirent'[stack[i]].parent = stack[i - 1]
      /\ \A i \in 1..k : \A j \in i..k : stack[j] \in Below(Holdings', stack[i])
  <2> HIDE DEF o
  <2>1. \A i \in 1..k : stack[i] \in Scopes'
    BY <1>1, <1>3, ChangeKeepsOpenScopes
  <2>2. Scopes' \subseteq DOMAIN dirent'
    BY DEF Scopes
  <2> QED BY <1>1, <1>3, <2>1, <2>2, ChangeKeepsOpenScopes
<1>8. /\ n \in DOMAIN dirent' /\ dirent'[n] = NewScope(s)
      /\ n \in Below(Holdings', s) /\ n \in Below(Holdings', n)
  <2>1. n \in Below(Holdings', n)
    BY <1>3 DEF Below, Holdings, Change
  <2> QED BY <1>3, <2>1 DEF Change
<1>9. \A i \in 1..k : n \in Below(Holdings', stack[i])
  <2> SUFFICES ASSUME NEW i \in 1..k PROVE n \in Below(Holdings', stack[i])
    OBVIOUS
  <2>1. s \in Below(Holdings', stack[i])
    BY <1>2, <1>7
  <2>2. stack[i] \in DOMAIN Holdings'
    BY <1>7 DEF Holdings
  <2>3. Forest(Holdings')
    BY <1>3 DEF Change, Forest, Below
  <2> QED BY <1>8, <2>1, <2>2, <2>3, BelowIsTransitive DEF Forest
<1> HIDE DEF k
<1>10. OpenScopes'
  <2>1. stack'[1] = Root
    BY <1>2, <1>6 DEF IInv, OpenScopes
  <2>2. ASSUME NEW i \in 1..(k + 1) PROVE stack'[i] \in Scopes'
    <3>1. CASE i = k + 1
      BY <3>1, <1>6, <1>8 DEF Scopes, IsScope, NewScope
    <3>2. CASE i \in 1..k
      BY <3>2, <1>6, <1>7
    <3> QED BY <1>2, <3>1, <3>2
  <2>3. ASSUME NEW i \in 2..(k + 1) PROVE dirent'[stack'[i]].parent = stack'[i - 1]
    <3>1. CASE i = k + 1
      BY <3>1, <1>2, <1>6, <1>8 DEF NewScope
    <3>2. CASE i \in 2..k
      BY <3>2, <1>2, <1>6, <1>7
    <3> QED BY <1>2, <3>1, <3>2
  <2>4. ASSUME NEW i \in 1..(k + 1), NEW j \in i..(k + 1)
        PROVE  stack'[j] \in Below(Holdings', stack'[i])
    <3>1. CASE i = k + 1
      <4>1. j = k + 1
        BY <1>2, <3>1
      <4> QED BY <3>1, <4>1, <1>6, <1>8
    <3>2. CASE i \in 1..k /\ j = k + 1
      BY <3>2, <1>6, <1>9
    <3>3. CASE i \in 1..k /\ j \in i..k
      <4>1. j \in 1..k
        BY <1>2, <3>3
      <4> QED BY <3>3, <4>1, <1>6, <1>7
    <3> QED BY <1>2, <3>1, <3>2, <3>3
  <2> QED BY <1>2, <1>6, <2>1, <2>2, <2>3, <2>4 DEF OpenScopes, Below
<1> QED BY <1>4, <1>10 DEF IInv

(* The tree does not depend on the context stack.                          *)
LEMMA TreeIsOfDirents ==
  ASSUME Tree, dirent' = dirent, created' = created
  PROVE  Tree' /\ Holdings' = Holdings /\ Scopes' = Scopes
BY DEF Tree, Records, Forest, Holdings, NamesDiffer, ArraysOfOneType, ParentsHold,
   ContextsHold, Formed, Scopes, LiesIn, Holds, IsScope, IsArray, IsAlias, IsProc, Below

(* ... CLOSE_SCOPE ...                                                     *)
LEMMA ClosingKeepsIInv ==
  ASSUME IInv, CloseScope
  PROVE  IInv'
<1> DEFINE k == Len(stack)
<1>1. stack \in Seq(Nat) /\ k \in Nat /\ k > 1 /\ stack' = Front(stack)
  BY DEF IInv, OpenScopes, CloseScope
<1>2. /\ stack' \in Seq(Nat) /\ stack' # <<>> /\ Len(stack') = k - 1
      /\ \A i \in 1..(k - 1) : stack'[i] = stack[i]
  <2>1. stack' = SubSeq(stack, 1, k - 1) /\ k - 1 \in Nat /\ k - 1 >= 1
    BY <1>1 DEF Front
  <2>2. \A i \in 1..(k - 1) : stack[i] \in Nat
    BY <1>1
  <2> HIDE DEF k
  <2>3. /\ stack' \in Seq(Nat) /\ Len(stack') = (k - 1) - 1 + 1
        /\ \A i \in 1..((k - 1) - 1 + 1) : stack'[i] = stack[1 + i - 1]
    BY <2>1, <2>2, SubSeqProperties
  <2>4. /\ Len(stack') = k - 1
        /\ \A i \in 1..(k - 1) : stack'[i] = stack[i]
    <3>1. ASSUME NEW i \in 1..(k - 1) PROVE stack'[i] = stack[i]
      <4>1. i \in 1..((k - 1) - 1 + 1) /\ 1 + i - 1 = i
        BY <1>1
      <4> QED BY <2>3, <4>1
    <3> QED BY <1>1, <2>3, <3>1
  <2> QED BY <1>1, <2>3, <2>4
<1> HIDE DEF k
<1>3. dirent' = dirent /\ created' = created
  BY DEF CloseScope
<1>4. Tree' /\ Holdings' = Holdings /\ Scopes' = Scopes
  BY <1>3, TreeIsOfDirents DEF IInv
<1>6. /\ stack[1] = Root
      /\ \A i \in 1..k : stack[i] \in Scopes
      /\ \A i \in 2..k : dirent[stack[i]].parent = stack[i - 1]
      /\ \A i \in 1..k : \A j \in i..k : stack[j] \in Below(Holdings, stack[i])
  BY DEF IInv, OpenScopes, k
<1>7. OpenScopes'
  <2>1. stack'[1] = Root
    BY <1>1, <1>2, <1>6
  <2>2. ASSUME NEW i \in 1..(k - 1) PROVE stack'[i] \in Scopes'
    <3>1. i \in 1..k
      BY <1>1
    <3> QED BY <3>1, <1>2, <1>4, <1>6
  <2>3. ASSUME NEW i \in 2..(k - 1) PROVE dirent'[stack'[i]].parent = stack'[i - 1]
    <3>1. i \in 2..k /\ i \in 1..(k - 1) /\ i - 1 \in 1..(k - 1)
      BY <1>1
    <3> QED BY <3>1, <1>2, <1>3, <1>6
  <2>4. ASSUME NEW i \in 1..(k - 1), NEW j \in i..(k - 1)
        PROVE  stack'[j] \in Below(Holdings', stack'[i])
    <3>1. j \in 1..(k - 1) /\ i \in 1..k /\ j \in i..k
      BY <1>1
    <3> QED BY <3>1, <1>2, <1>4, <1>6
  <2> QED BY <1>2, <2>1, <2>2, <2>3, <2>4 DEF OpenScopes, Below
<1> QED BY <1>4, <1>7 DEF IInv

(* ... and BOOKMARK, which changes no holder.                              *)
LEMMA BookmarkKeepsIInv ==
  ASSUME IInv, NEW m \in Mark, Bookmark(m)
  PROVE  IInv'
<1>1. PICK s : s = Current
  OBVIOUS
<1>2. s \in DOMAIN dirent /\ IsScope(s) /\ dirent[s] \in ScopeRec
  BY <1>1, CurrentIsOpen DEF Scopes, IInv, Tree, Records, Formed, ScopeRec,
     ArrayRec, ProcRec, IsScope, IsAlias
<1>3. /\ dirent' = [dirent EXCEPT ![s].bookmarks = @ \cup {m}]
      /\ created' = created /\ stack' = stack
  BY <1>1 DEF Bookmark
<1>4. /\ DOMAIN dirent' = DOMAIN dirent
      /\ dirent'[s] = [dirent[s] EXCEPT !.bookmarks = @ \cup {m}]
      /\ \A d \in DOMAIN dirent \ {s} : dirent'[d] = dirent[d]
  BY <1>2, <1>3 DEF IInv, Tree, Records
<1>5. /\ dirent'[s] \in ScopeRec /\ dirent'[s].type = "scope"
      /\ dirent'[s].dirents = dirent[s].dirents /\ dirent'[s].parent = dirent[s].parent
  BY <1>2, <1>4 DEF ScopeRec
<1>6. ASSUME NEW d \in DOMAIN dirent
      PROVE  /\ dirent'[d].type = dirent[d].type
             /\ IsScope(d) => dirent'[d].parent = dirent[d].parent
                              /\ dirent'[d].dirents = dirent[d].dirents
             /\ ~IsScope(d) => dirent'[d] = dirent[d]
  <2>1. CASE d = s
    BY <2>1, <1>2, <1>5 DEF IsScope
  <2>2. CASE d # s
    BY <2>2, <1>4
  <2> QED BY <2>1, <2>2
<1>7. \A d \in DOMAIN dirent : Holds(d)' = Holds(d)
  BY <1>6 DEF Holds, IsScope, IsArray
<1>8. Holdings' = Holdings /\ Scopes' = Scopes
  BY <1>4, <1>6, <1>7 DEF Holdings, Scopes, IsScope
<1>9. \A d, p : p \in DOMAIN dirent /\ LiesIn(d, p) => LiesIn(d, p)'
  <2> SUFFICES ASSUME NEW d, NEW p \in DOMAIN dirent, LiesIn(d, p) PROVE LiesIn(d, p)'
    OBVIOUS
  <2>1. PICK x \in Holds(p) : x = d \/ (IsArray(x) /\ d \in Holds(x))
    BY DEF LiesIn
  <2>2. x \in DOMAIN dirent
    BY <2>1 DEF IInv, Tree, Forest, Holdings
  <2>3. x \in Holds(p)' /\ (x = d \/ (IsArray(x)' /\ d \in Holds(x)'))
    BY <2>1, <2>2, <1>6, <1>7 DEF IsArray
  <2> QED BY <2>3 DEF LiesIn
<1>10. Records'
  <2>1. ASSUME NEW d \in DOMAIN dirent' PROVE Formed(d)'
    BY <1>4, <1>5 DEF IInv, Tree, Records, Formed, IsAlias
  <2>2. dirent' = [d \in DOMAIN dirent' |-> dirent'[d]]
    BY <1>3, <1>4 DEF IInv, Tree, Records
  <2>3. IsScope(Root)'
    BY <1>6 DEF IInv, Tree, Records, Forest, Holdings, IsScope
  <2> QED BY <1>3, <1>4, <2>1, <2>2, <2>3 DEF IInv, Tree, Records
<1>11. Forest(Holdings)'
  BY <1>8 DEF IInv, Tree, Forest, Below
<1>12. NamesDiffer'
  <2>1. \A d \in Scopes : dirent'[d].dirents = dirent[d].dirents
    BY <1>6 DEF Scopes
  <2> QED BY <2>1, <1>8 DEF IInv, Tree, NamesDiffer
<1>13. ArraysOfOneType'
  <2> SUFFICES ASSUME NEW a \in DOMAIN dirent', IsArray(a)'
               PROVE  /\ dirent'[a].elems # <<>>
                      /\ \A d \in Holds(a)' : dirent'[d].type = dirent'[a].of
    BY DEF ArraysOfOneType
  <2>1. a \in DOMAIN dirent /\ IsArray(a) /\ dirent'[a] = dirent[a]
    BY <1>4, <1>6 DEF IsArray, IsScope
  <2>2. Holds(a)' = Holds(a) /\ Holds(a) \subseteq DOMAIN dirent
    BY <2>1, <1>7 DEF IInv, Tree, Forest, Holdings
  <2> QED BY <2>1, <2>2, <1>6 DEF IInv, Tree, ArraysOfOneType
<1>14. ParentsHold'
  <2> SUFFICES ASSUME NEW d \in Scopes, d # Root
               PROVE  dirent'[d].parent \in DOMAIN dirent'
                      /\ LiesIn(d, dirent[d].parent)'
    BY <1>8 DEF ParentsHold
  <2>1. dirent'[d].parent = dirent[d].parent
    BY <1>6 DEF Scopes
  <2>2. dirent[d].parent \in DOMAIN dirent /\ LiesIn(d, dirent[d].parent)
    BY DEF IInv, Tree, ParentsHold
  <2>3. PICK p : p = dirent[d].parent
    OBVIOUS
  <2>4. LiesIn(d, p)'
    BY <2>2, <2>3, <1>9
  <2> QED BY <1>4, <2>1, <2>2, <2>3, <2>4
<1>15. ContextsHold'
  <2> SUFFICES ASSUME NEW d \in DOMAIN dirent, IsProc(d)'
               PROVE  dirent'[d].context \in DOMAIN dirent'
                      /\ LiesIn(d, dirent[d].context)'
    BY <1>4 DEF ContextsHold
  <2>1. IsProc(d) /\ dirent'[d] = dirent[d]
    BY <1>6 DEF IsProc, IsScope
  <2>2. dirent[d].context \in DOMAIN dirent /\ LiesIn(d, dirent[d].context)
    BY <2>1 DEF IInv, Tree, ContextsHold
  <2>3. PICK p : p = dirent[d].context
    OBVIOUS
  <2>4. LiesIn(d, p)'
    BY <2>2, <2>3, <1>9
  <2> QED BY <1>4, <2>1, <2>2, <2>3, <2>4
<1>16. OpenScopes'
  <2>1. \A i \in 2..Len(stack) : dirent'[stack[i]].parent = stack[i - 1]
    BY <1>6 DEF IInv, OpenScopes, Scopes
  <2> QED BY <1>3, <1>8, <2>1 DEF IInv, OpenScopes, Below
<1> QED BY <1>10, <1>11, <1>12, <1>13, <1>14, <1>15, <1>16 DEF IInv, Tree

LEMMA InitGivesIInv ==
  ASSUME Init
  PROVE  IInv
<1>1. /\ DOMAIN dirent = {Root} /\ dirent[Root] = NewScope(-1)
      /\ created = 1 /\ stack = <<Root>>
  BY DEF Init
<1>2. <<>> \in Table
  <2>1. <<>> \in [{} -> Nat] /\ {} \in SUBSET Name
    OBVIOUS
  <2> QED BY <2>1 DEF Table
<1>3. /\ dirent[Root] \in ScopeRec /\ dirent[Root].type = "scope"
      /\ dirent[Root].dirents = <<>>
  BY <1>1, <1>2 DEF NewScope, ScopeRec
<1>4. Holds(Root) = {} /\ Scopes = {Root}
  <2>1. Holds(Root) = Range(dirent[Root].dirents)
    BY <1>3 DEF Holds, IsScope, IsArray
  <2> QED BY <1>1, <1>3, <2>1 DEF Range, Scopes, IsScope
<1>5. Holdings = [d \in {Root} |-> {}]
  BY <1>1, <1>4 DEF Holdings
<1>6. Below(Holdings, Root) = {Root}
  BY <1>5 DEF Below
<1>7. Forest(Holdings)
  BY <1>5, <1>6 DEF Forest
<1>8. Records
  <2>1. dirent = [d \in DOMAIN dirent |-> dirent[d]]
    BY DEF Init
  <2>2. Root = 0 /\ created \in 1..MaxDirents
    BY <1>1, MaxDirentsIsNat DEF Root
  <2> QED BY <1>1, <1>3, <2>1, <2>2 DEF Records, Formed, IsScope
<1>9. NamesDiffer /\ ArraysOfOneType /\ ParentsHold /\ ContextsHold
  BY <1>1, <1>3, <1>4 DEF NamesDiffer, ArraysOfOneType, ParentsHold, ContextsHold,
     IsArray, IsProc
<1>10. OpenScopes
  BY <1>1, <1>4, <1>6 DEF OpenScopes, Root
<1> QED BY <1>7, <1>8, <1>9, <1>10 DEF IInv, Tree

LEMMA IInvIsInductive ==
  ASSUME IInv, [Next]_vars
  PROVE  IInv'
<1>1. Defines(ScopeName) \cup Defines(RegName) \subseteq Defines(Name)
  BY DEF Defines, Name
<1>2. ASSUME NEW e \in Defines(ScopeName), OpenScope(e) PROVE IInv'
  BY <1>1, <1>2, OpeningKeepsIInv
<1>3. ASSUME NEW e \in Defines(ScopeName), DefineField(e) PROVE IInv'
  <2>1. Fresh(NewProc("field", Current), Current)
    BY DEF Fresh
  <2> QED BY <1>1, <1>3, <2>1, AddingKeepsIInv DEF DefineField
<1>4. ASSUME NEW e \in Defines(RegName), DefineReg(e) PROVE IInv'
  <2>1. Fresh(NewProc("register", Current), Current)
    BY DEF Fresh
  <2> QED BY <1>1, <1>4, <2>1, AddingKeepsIInv DEF DefineReg
<1>5. ASSUME NEW e \in Defines(Name), NEW t \in Target, DefineAlias(e, t) PROVE IInv'
  <2>1. PICK p : p = ResolvePath(Current, t)
    OBVIOUS
  <2>2. Fresh(NewAlias(p), Current)
    BY <1>5, <2>1 DEF Fresh, DefineAlias
  <2> QED BY <1>5, <2>1, <2>2, AddingKeepsIInv DEF DefineAlias
<1>6. CASE CloseScope
  BY <1>6, ClosingKeepsIInv
<1>7. ASSUME NEW m \in Mark, Bookmark(m) PROVE IInv'
  BY <1>7, BookmarkKeepsIInv
<1>8. CASE UNCHANGED vars
  <2>1. dirent' = dirent /\ created' = created /\ stack' = stack
    BY <1>8 DEF vars
  <2>2. Tree' /\ Holdings' = Holdings /\ Scopes' = Scopes
    BY <2>1, TreeIsOfDirents DEF IInv
  <2> QED BY <2>1, <2>2 DEF IInv, OpenScopes, Below
<1> QED BY <1>2, <1>3, <1>4, <1>5, <1>6, <1>7, <1>8 DEF Next

-----------------------------------------------------------------------------
(* The heap is a forest and the open scopes own one another, in every      *)
(* reachable state.                                                        *)
THEOREM IInvIsInvariant == Spec => []IInv
<1>1. Init => IInv
  BY InitGivesIInv
<1>2. IInv /\ [Next]_vars => IInv'
  BY IInvIsInductive
<1> QED BY <1>1, <1>2, PTL DEF Spec

(* TypeOK: no dirent holds a pointer to one that is gone, aliases are      *)
(* never empty paths, and the context stack consists of live dirents       *)
(* (scope.h:28, alias.h:14, runtime.cc:27).                                *)
THEOREM TypesCorrect == Spec => []TypeOK
<1>1. ASSUME IInv PROVE TypeOK
  <2>1. \A d \in DOMAIN dirent : Holds(d) \subseteq DOMAIN dirent
    BY <1>1 DEF IInv, Tree, Forest, Holdings
  <2>2. ASSUME NEW d \in DOMAIN dirent, IsScope(d)
        PROVE  /\ DOMAIN dirent[d].dirents \subseteq Name
               /\ Range(dirent[d].dirents) \subseteq DOMAIN dirent
               /\ dirent[d].bookmarks \subseteq Mark
    <3>1. dirent[d] \in ScopeRec
      BY <1>1, <2>2 DEF IInv, Tree, Records, Formed, ScopeRec, ArrayRec, ProcRec,
         IsScope, IsAlias
    <3> QED BY <2>1, <2>2, <3>1, HoldsOfKinds DEF ScopeRec, Table
  <2>3. ASSUME NEW d \in DOMAIN dirent, ~IsScope(d)
        PROVE  \/ IsArray(d) /\ Range(dirent[d].elems) \subseteq DOMAIN dirent
               \/ IsAlias(d) /\ IsInitialized(dirent[d].link)
               \/ dirent[d].type \in {"register", "field"} /\ dirent[d].context \in Nat
    BY <1>1, <2>1, <2>3, HoldsOfKinds DEF IInv, Tree, Records, Formed, ScopeRec,
       ArrayRec, ProcRec, IsScope, IsArray, IsAlias
  <2>4. stack \in Seq(DOMAIN dirent)
    BY <1>1 DEF IInv, OpenScopes, Scopes
  <2>5. created \in 1..MaxDirents /\ DOMAIN dirent \subseteq 0..(created - 1)
    BY <1>1 DEF IInv, Tree, Records
  <2> QED BY <2>2, <2>3, <2>4, <2>5 DEF TypeOK
<1> QED BY <1>1, IInvIsInvariant, PTL

(* IsATree: definitions, redefinitions and array appends leave a tree in   *)
(* which every dirent has one owner and hangs off the root, scopes know    *)
(* the scope they lie in, and arrays are of one type (scope.cc:177-205).   *)
THEOREM HeapIsATree == Spec => []IsATree
<1>1. ASSUME IInv PROVE IsATree
  <2>1. Forest(Holdings) /\ DOMAIN Holdings = DOMAIN dirent
        /\ \A d \in DOMAIN dirent : Holdings[d] = Holds(d)
    BY <1>1 DEF IInv, Tree, Holdings
  <2>2. DOMAIN dirent = Owned(Root)
    BY <2>1, OwnedIsBelow DEF Forest
  <2>3. ASSUME NEW d \in DOMAIN dirent \ {Root}
        PROVE  Cardinality({o \in DOMAIN dirent : d \in Holds(o)}) = 1
    <3>1. PICK o \in DOMAIN dirent : d \in Holds(o)
      BY <2>1, <2>3, AllAreHeld
    <3>2. {p \in DOMAIN dirent : d \in Holds(p)} = {o}
      BY <2>1, <3>1 DEF Forest
    <3> QED BY <3>2, FS_Singleton
  <2> QED BY <1>1, <2>2, <2>3 DEF IsATree, IInv, Tree, ParentsHold, ArraysOfOneType, Scopes
<1> QED BY <1>1, IInvIsInvariant, PTL

(* OpenScopesAlive: no redefinition destroys a scope that is still open    *)
(* (fake_language.cc:199-248).                                             *)
THEOREM OpenScopesStayAlive == Spec => []OpenScopesAlive
<1>1. ASSUME IInv PROVE OpenScopesAlive
  BY <1>1 DEF IInv, OpenScopes, OpenScopesAlive
<1> QED BY <1>1, IInvIsInvariant, PTL

(* ProcContextAlive: the scope of the snapshot that a procedure register   *)
(* or field keeps lives as long as it does (register_types.h:83).          *)
THEOREM ContextsStayAlive == Spec => []ProcContextAlive
<1>1. ASSUME IInv PROVE ProcContextAlive
  BY <1>1 DEF IInv, Tree, ContextsHold, ProcContextAlive, IsProc
<1> QED BY <1>1, IInvIsInvariant, PTL


-----------------------------------------------------------------------------
(* What is written to out_path, and what aliases are therefore bound to.   *)
Final     == {Up} \cup {Named(n) : n \in Name}
               \cup [kind : {"index"}, name : Name, index : Nat]
FinalPath == [abs : {FALSE}, elems : Seq(Final) \ {<<>>}]

ParentsAreScopes == \A d \in Scopes \ {Root} : dirent[d].parent \in Scopes
RootIsTop        == dirent[Root].parent = -1
LinksAreFinal    == \A d \in DOMAIN dirent : IsAlias(d) => dirent[d].link \in FinalPath

(* The tree, with links between its dirents that walks can follow.         *)
Linked == Tree /\ ParentsAreScopes /\ RootIsTop /\ LinksAreFinal

Result == {NotFound, Conversion, Diverges}
            \cup [end : {"dirent"}, de : DOMAIN dirent, path : Seq(Element)]

AnyPath == [abs : BOOLEAN, elems : Seq(Element)]

Before == {vw \in Walk \X Walk :
             \/ vw[1].fuel < vw[2].fuel
             \/ (vw[1].fuel = vw[2].fuel /\ Len(vw[1].p) < Len(vw[2].p))}

(* The five kinds of path elements, of which three are final.              *)
LEMMA ElementKinds ==
  ASSUME NEW e \in Element
  PROVE  \/ (e.kind = "up" /\ e = Up)
         \/ (e.kind = "name" /\ e.name \in Name /\ e = Named(e.name))
         \/ (e.kind = "append" /\ e.name \in Name)
         \/ (e.kind = "mark" /\ e.name \in Mark /\ e = Marked(e.name))
         \/ (e.kind = "index" /\ e.name \in Name /\ e.index \in Int
             /\ e = Indexed(e.name, e.index))
BY DEF Element, Up, Named, Appended, Marked, Indexed

LEMMA FinalKinds ==
  /\ Final \subseteq Element
  /\ Up \in Final /\ Up.kind = "up"
  /\ \A n \in Name : Named(n) \in Final
  /\ \A n \in Name, i \in Nat : Indexed(n, i) \in Final
  /\ \A e \in Element : e.kind = "name" => e \in Final
  /\ \A e \in Final : \/ e = Up
                      \/ (e.kind = "name" /\ e.name \in Name /\ e # Up)
                      \/ (e.kind = "index" /\ e.name \in Name /\ e.index \in Nat /\ e # Up)
<1>1. Final \subseteq Element
  BY DEF Final, Element
<1>2. Up \in Final /\ Up.kind = "up" /\ \A n \in Name : Named(n) \in Final
  BY DEF Final, Up
<1>3. \A n \in Name, i \in Nat : Indexed(n, i) \in Final
  BY DEF Final, Indexed
<1>4. \A e \in Element : e.kind = "name" => e \in Final
  BY <1>2, ElementKinds
<1>5. ASSUME NEW e \in Final
      PROVE  \/ e = Up
             \/ (e.kind = "name" /\ e.name \in Name /\ e # Up)
             \/ (e.kind = "index" /\ e.name \in Name /\ e.index \in Nat /\ e # Up)
  BY DEF Final, Up, Named
<1> QED BY <1>1, <1>2, <1>3, <1>4, <1>5

(* The parent of a scope is a scope.                                       *)
LEMMA ParentIsScope ==
  ASSUME Linked, NEW s \in Scopes
  PROVE  Parent(s) \in Scopes
<1>1. CASE IsRoot(s)
  BY <1>1 DEF Parent
<1>2. CASE ~IsRoot(s)
  <2>1. s # Root
    BY <1>2 DEF IsRoot, Linked, RootIsTop, Tree, Records
  <2> QED BY <1>2, <2>1 DEF Parent, Linked, ParentsAreScopes
<1> QED BY <1>1, <1>2

(* What a scope's table and an array hold.                                 *)
LEMMA TablesAndArrays ==
  ASSUME Linked, NEW s \in Scopes
  PROVE  /\ s \in DOMAIN dirent /\ IsScope(s) /\ dirent[s] \in ScopeRec
         /\ \A n \in DOMAIN dirent[s].dirents :
              n \in Name /\ dirent[s].dirents[n] \in DOMAIN dirent
         /\ \A a \in DOMAIN dirent : IsArray(a) =>
              dirent[a] \in ArrayRec /\ dirent[a].elems \in Seq(DOMAIN dirent)
<1>1. s \in DOMAIN dirent /\ IsScope(s) /\ dirent[s] \in ScopeRec
  BY DEF Scopes, Linked, Tree, Records, Formed, ScopeRec, ArrayRec, ProcRec, IsScope, IsAlias
<1>2. \A d \in DOMAIN dirent : Holds(d) \subseteq DOMAIN dirent
  BY DEF Linked, Tree, Forest, Holdings
<1>3. ASSUME NEW n \in DOMAIN dirent[s].dirents
      PROVE  n \in Name /\ dirent[s].dirents[n] \in DOMAIN dirent
  <2>1. n \in Name
    BY <1>1 DEF ScopeRec, Table
  <2>2. dirent[s].dirents[n] \in Holds(s)
    BY <1>1, HoldsOfKinds DEF Range
  <2> QED BY <1>1, <1>2, <2>1, <2>2
<1>4. ASSUME NEW a \in DOMAIN dirent, IsArray(a)
      PROVE  dirent[a] \in ArrayRec /\ dirent[a].elems \in Seq(DOMAIN dirent)
  <2>1. dirent[a] \in ArrayRec
    BY <1>4 DEF Linked, Tree, Records, Formed, ScopeRec, ArrayRec, ProcRec, IsArray, IsAlias
  <2>2. dirent[a].elems \in Seq(Nat)
    BY <2>1 DEF ArrayRec
  <2>3. \A i \in 1..Len(dirent[a].elems) : dirent[a].elems[i] \in Holds(a)
    BY <1>4, <2>2, HoldsOfKinds DEF Range
  <2>4. \A i \in 1..Len(dirent[a].elems) : dirent[a].elems[i] \in DOMAIN dirent
    BY <1>2, <2>3
  <2> QED BY <2>1, <2>2, <2>4
<1> QED BY <1>1, <1>3, <1>4

(* A line of scopes, each the parent of the one before.                    *)
Line(q, s) ==
  /\ q \in Seq(Scopes) /\ q # <<>> /\ q[1] = s
  /\ \A i \in 1..(Len(q) - 1) : q[i + 1] = Parent(q[i])

Higher(q) == IF IsRoot(Last(q)) THEN q ELSE Append(q, Parent(Last(q)))

LEMMA HigherIsALine ==
  ASSUME Linked, NEW s \in Scopes, NEW q, Line(q, s)
  PROVE  Line(Higher(q), s)
<1>1. CASE IsRoot(Last(q))
  BY <1>1 DEF Higher
<1>2. CASE ~IsRoot(Last(q))
  <2> DEFINE x == Parent(Last(q))
             r == Append(q, x)
  <2>1. Len(q) \in Nat \ {0} /\ Last(q) = q[Len(q)] /\ Last(q) \in Scopes
    BY EmptySeq, LenProperties DEF Line, Last
  <2>2. x \in Scopes
    BY <2>1, ParentIsScope
  <2>3. /\ r \in Seq(Scopes) /\ Len(r) = Len(q) + 1 /\ r[Len(q) + 1] = x
        /\ \A i \in 1..Len(q) : r[i] = q[i]
    BY <2>2, AppendProperties DEF Line
  <2>4. r # <<>> /\ r[1] = s
    BY <2>1, <2>3 DEF Line
  <2>5. ASSUME NEW i \in 1..(Len(r) - 1) PROVE r[i + 1] = Parent(r[i])
    <3>1. CASE i = Len(q)
      BY <3>1, <2>1, <2>3
    <3>2. CASE i # Len(q)
      <4>1. i \in 1..(Len(q) - 1) /\ i + 1 \in 1..Len(q) /\ i \in 1..Len(q)
        BY <3>2, <2>1, <2>3
      <4> QED BY <4>1, <2>3 DEF Line
    <3> QED BY <3>1, <3>2
  <2>6. Higher(q) = r
    BY <1>2 DEF Higher
  <2> QED BY <2>3, <2>4, <2>5, <2>6 DEF Line
<1> QED BY <1>1, <1>2

(* The climb from a scope is such a line.                                  *)
LEMMA ClimbIsALine ==
  ASSUME Linked, NEW s \in Scopes
  PROVE  Line(Climb(s), s)
<1> DEFINE Eq(g) == g = [n \in Nat |-> IF n = 0 THEN <<s>>
                          ELSE IF IsRoot(Last(g[n - 1])) THEN g[n - 1]
                          ELSE Append(g[n - 1], Parent(Last(g[n - 1])))]
           up == CHOOSE g : Eq(g)
           R == {q \in Seq(Scopes) : Line(q, s)}
           At(f, n) == IF n = 0 THEN <<s>> ELSE Higher(f[n - 1])
           G == [f \in [Nat -> R] |-> [n \in Nat |-> At(f, n)]]
<1>1. <<s>> \in R
  BY DEF Line
<1>2. ASSUME NEW f \in [Nat -> R], NEW n \in Nat PROVE At(f, n) \in R
  <2>1. CASE n = 0
    BY <1>1, <2>1
  <2>2. CASE n # 0
    <3>1. Line(f[n - 1], s)
      BY <2>2
    <3>2. Line(Higher(f[n - 1]), s)
      BY <3>1, HigherIsALine
    <3> QED BY <2>2, <3>2 DEF Line
  <2> QED BY <2>1, <2>2
<1>3. Local(G, Nat, R, Fewer)
  <2>1. G \in [[Nat -> R] -> [Nat -> R]]
    <3> HIDE DEF At, R
    <3> QED BY <1>2
  <2>2. ASSUME NEW f \in [Nat -> R], NEW g \in [Nat -> R], NEW n \in Nat,
               \A v \in Nat : <<v, n>> \in Fewer => f[v] = g[v]
        PROVE  G[f][n] = G[g][n]
    <3>1. n # 0 => n - 1 \in Nat /\ <<n - 1, n>> \in Fewer
      <4>1. \A k, m \in Nat : k < m => <<k, m>> \in Fewer
        BY DEF Fewer
      <4>2. n # 0 => n - 1 \in Nat /\ n - 1 < n
        OBVIOUS
      <4> QED BY <4>1, <4>2
    <3>2. At(f, n) = At(g, n)
      BY <2>2, <3>1
    <3> HIDE DEF At
    <3> QED BY <3>2
  <2> HIDE DEF G
  <2> QED BY <2>1, <2>2 DEF Local
<1>4. PICK f \in [Nat -> R] : f = G[f]
  <2> HIDE DEF G, R
  <2> QED BY <1>1, <1>3, NumbersOrdered, RecursionHasSolution
<1>5. Eq(f)
  <2>1. f = [n \in Nat |-> At(f, n)]
    <3> HIDE DEF At, R
    <3> QED BY <1>4
  <2> QED BY <2>1 DEF Higher
<1>6. Eq(up)
  <2> HIDE DEF Eq
  <2> QED BY <1>5
<1>7. \A n \in Nat : up[n] \in R
  <2> DEFINE T == {n \in Nat : up[n] \notin R}
  <2> SUFFICES ASSUME T # {} PROVE FALSE
    OBVIOUS
  <2> HIDE DEF R
  <2>1. PICK n \in T : \A k \in T : n <= k
    <3>1. T \subseteq Nat
      OBVIOUS
    <3> HIDE DEF T
    <3> QED BY <3>1, LeastNumber
  <2> HIDE DEF up
  <2>2. n # 0 => n - 1 \in Nat /\ up[n - 1] \in R
    <3>1. n # 0 => n - 1 \in Nat /\ n - 1 \notin T
      BY <2>1
    <3> QED BY <3>1
  <2>3. n = 0 => up[n] = <<s>>
    BY <1>6
  <2>4. n # 0 => up[n] = Higher(up[n - 1])
    BY <1>6 DEF Higher
  <2>5. n # 0 => Higher(up[n - 1]) \in R
    <3>1. \A q \in R : Line(q, s) /\ q \in Seq(Scopes)
      BY DEF R
    <3>2. n # 0 => Line(Higher(up[n - 1]), s)
      BY <2>2, <3>1, HigherIsALine
    <3> QED BY <3>2 DEF R, Line
  <2> QED BY <1>1, <2>3, <2>4, <2>5
<1>8. Climb(s) = up[MaxDirents]
  BY DEF Climb
<1> HIDE DEF up
<1> QED BY <1>7, <1>8, MaxDirentsIsNat

-----------------------------------------------------------------------------
(* The smallest walk of a set.                                             *)
LEMMA WalksOrdered == Ordered(Walk, Before)
<1> SUFFICES ASSUME NEW T \in SUBSET Walk, T # {}
             PROVE  \E m \in T : \A k \in T : <<k, m>> \notin Before
  BY DEF Ordered
<1>1. \A w \in T : w.fuel \in Nat /\ Len(w.p) \in Nat
  BY DEF Walk
<1>2. PICK a \in {w.fuel : w \in T} : \A b \in {w.fuel : w \in T} : a <= b
  <2> DEFINE A == {w.fuel : w \in T}
  <2>1. A \subseteq Nat /\ A # {}
    BY <1>1
  <2> HIDE DEF A
  <2>2. \E a \in A : \A b \in A : a <= b
    BY <2>1, LeastNumber
  <2> QED BY <2>2 DEF A
<1> DEFINE U == {w \in T : w.fuel = a}
<1>3. PICK c \in {Len(w.p) : w \in U} : \A b \in {Len(w.p) : w \in U} : c <= b
  <2>1. U # {}
    BY <1>2
  <2>2. {Len(w.p) : w \in U} \subseteq Nat /\ {Len(w.p) : w \in U} # {}
    BY <1>1, <2>1
  <2> HIDE DEF U
  <2> QED BY <2>2, LeastNumber
<1>4. PICK m \in U : Len(m.p) = c
  BY <1>3
<1>5. ASSUME NEW k \in T PROVE <<k, m>> \notin Before
  <2>1. k.fuel \in Nat /\ m.fuel \in Nat /\ Len(k.p) \in Nat /\ Len(m.p) \in Nat
    BY <1>1, <1>4
  <2>2. m.fuel <= k.fuel
    BY <1>2, <1>4
  <2>3. k.fuel = m.fuel => Len(m.p) <= Len(k.p)
    BY <1>3, <1>4
  <2> QED BY <2>1, <2>2, <2>3 DEF Before
<1> QED BY <1>4, <1>5

LEMMA BeforeIs ==
  ASSUME NEW v \in Walk, NEW w \in Walk
  PROVE  /\ v.fuel < w.fuel => <<v, w>> \in Before
         /\ v.fuel = w.fuel /\ Len(v.p) < Len(w.p) => <<v, w>> \in Before
BY DEF Before

(* Sequences of "..".                                                      *)
LEMMA UpsAreFinal ==
  ASSUME NEW n \in Nat
  PROVE  /\ Ups(n) \in Seq(Final) /\ Ups(n) \in Seq(Element) /\ Len(Ups(n)) = n
         /\ \A i \in 1..n : Ups(n)[i] = Up
<1>1. Up \in Final /\ Up \in Element
  BY FinalKinds
<1> QED BY <1>1 DEF Ups

LEMMA FrontAndLast ==
  ASSUME NEW S, NEW q \in Seq(S), q # <<>>
  PROVE  /\ Len(q) \in Nat \ {0} /\ Last(q) = q[Len(q)] /\ Last(q) \in S
         /\ Front(q) \in Seq(S) /\ Len(Front(q)) = Len(q) - 1
         /\ \A i \in 1..(Len(q) - 1) : Front(q)[i] = q[i]
<1>1. Len(q) \in Nat \ {0} /\ Last(q) = q[Len(q)]
  BY EmptySeq, LenProperties DEF Last
<1>2. Front(q) = SubSeq(q, 1, Len(q) - 1)
  BY DEF Front
<1> DEFINE n == Len(q) - 1
<1>3. n \in Nat /\ \A i \in 1..n : q[i] \in S
  BY <1>1
<1> HIDE DEF n
<1>4. (IF 1 <= n THEN n - 1 + 1 ELSE 0) = n /\ n - 1 + 1 = n
      /\ \A i \in 1..n : 1 + i - 1 = i
  BY <1>3
<1>5. /\ Front(q) \in Seq(S) /\ Len(Front(q)) = n
      /\ \A i \in 1..n : Front(q)[i] = q[1 + i - 1]
  BY <1>2, <1>3, <1>4, SubSeqProperties DEF n
<1>6. q[Len(q)] \in S
  BY <1>1
<1> QED BY <1>1, <1>4, <1>5, <1>6 DEF n

(* A climb is as long as it takes: its ends are scopes.                    *)
LEMMA LineEnds ==
  ASSUME NEW s, NEW q, Line(q, s)
  PROVE  /\ Len(q) \in Nat \ {0} /\ Len(q) - 1 \in Nat
         /\ \A i \in 1..Len(q) : q[i] \in Scopes
         /\ Last(q) = q[Len(q)] /\ Last(q) \in Scopes
<1>1. q \in Seq(Scopes) /\ q # <<>>
  BY DEF Line
<1>2. Len(q) \in Nat /\ Len(q) # 0
  BY <1>1, EmptySeq, LenProperties
<1> QED BY <1>1, <1>2 DEF Last

(* Where walks start.                                                      *)
LEMMA StartIsAWalk ==
  ASSUME Linked, NEW s \in Scopes, NEW path \in AnyPath, NEW follow \in BOOLEAN,
         NEW fuel \in Nat
  PROVE  StartWalk(s, path, follow, fuel) \in Walk
<1>1. Line(Climb(s), s)
  BY ClimbIsALine
<1>2. Last(Climb(s)) \in Scopes /\ Len(Climb(s)) - 1 \in Nat
  BY <1>1, LineEnds
<1>3. Ups(Len(Climb(s)) - 1) \in Seq(Element) /\ <<>> \in Seq(Element)
  BY <1>2, UpsAreFinal
<1>4. path.elems \in Seq(Element) /\ path.abs \in BOOLEAN
  BY DEF AnyPath
<1> QED BY <1>2, <1>3, <1>4 DEF StartWalk, Walk

LEMMA FinalPathIsAPath == FinalPath \subseteq AnyPath
<1>1. Seq(Final) \subseteq Seq(Element)
  BY FinalKinds
<1> QED BY <1>1 DEF FinalPath, AnyPath

(* Looking up one element.                                                 *)
LEMMA IndexInArray ==
  ASSUME NEW i \in Int, NEW n \in Nat, ~(i < 0 \/ i >= n)
  PROVE  i + 1 \in 1..n /\ i \in Nat
OBVIOUS

LEMMA FindInArrayResult ==
  ASSUME Linked, NEW s \in Scopes, NEW e \in Element, NEW out \in Seq(Element),
         e.kind \in {"index", "append"}
  PROVE  \/ FindInArray(s, e, out) \in {NotFound, Conversion}
         \/ \E i \in Nat :
              /\ Has(s, e.name) /\ IsArray(dirent[s].dirents[e.name])
              /\ e.name \in Name
              /\ i + 1 \in 1..Len(dirent[dirent[s].dirents[e.name]].elems)
              /\ e.kind = "index"
              /\ e.index >= 0 => i = e.index
              /\ FindInArray(s, e, out)
                   = Reached(dirent[dirent[s].dirents[e.name]].elems[i + 1],
                             Append(out, Indexed(e.name, i)))
<1> DEFINE a == dirent[s].dirents[e.name]
           n == IF IsArray(a) THEN Len(dirent[a].elems) ELSE 0
           i == IF e.kind = "index" /\ e.index < 0 THEN n + e.index ELSE e.index
<1> SUFFICES ASSUME Has(s, e.name), IsArray(a), e.kind = "index", ~(i < 0 \/ i >= n)
             PROVE  \E j \in Nat :
                      /\ e.name \in Name /\ j + 1 \in 1..Len(dirent[a].elems)
                      /\ e.index >= 0 => j = e.index
                      /\ FindInArray(s, e, out)
                           = Reached(dirent[a].elems[j + 1],
                                     Append(out, Indexed(e.name, j)))
  BY DEF FindInArray
<1>1. e.name \in Name /\ e.index \in Int
  BY ElementKinds
<1>2. a \in DOMAIN dirent /\ dirent[a].elems \in Seq(DOMAIN dirent)
  BY TablesAndArrays DEF Has
<1>3. n = Len(dirent[a].elems) /\ n \in Nat
  BY <1>2
<1>4. i \in Int /\ (e.index >= 0 => i = e.index)
  <2>1. i = IF e.index < 0 THEN n + e.index ELSE e.index
    OBVIOUS
  <2> HIDE DEF i, n
  <2>2. PICK j \in Int : j = e.index
    BY <1>1
  <2>3. i = IF j < 0 THEN n + j ELSE j
    BY <2>1, <2>2
  <2>4. i \in Int /\ (j >= 0 => i = j)
    BY <1>3, <2>3
  <2> QED BY <2>2, <2>4
<1>5. i + 1 \in 1..n /\ i \in Nat
  <2> HIDE DEF i, n
  <2> QED BY <1>3, <1>4, IndexInArray
<1>6. FindInArray(s, e, out)
        = Reached(dirent[a].elems[i + 1], Append(out, Indexed(e.name, i)))
  BY DEF FindInArray
<1> HIDE DEF i, n, a
<1> QED BY <1>1, <1>3, <1>4, <1>5, <1>6

LEMMA FindMarkResult ==
  ASSUME Linked, NEW s \in Scopes, NEW m, NEW out
  PROVE  \/ FindMark(s, m, out) = NotFound
         \/ \E i \in 1..Len(Climb(s)) :
              FindMark(s, m, out) = Reached(Climb(s)[i], out \o Ups(i - 1))
<1> DEFINE line == Climb(s)
           hits == {i \in DOMAIN line : m \in dirent[line[i]].bookmarks}
<1>1. Line(line, s)
  BY ClimbIsALine
<1>2. DOMAIN line = 1..Len(line) /\ Len(line) \in Nat
  BY <1>1 DEF Line
<1> SUFFICES ASSUME hits # {} PROVE Min(hits) \in 1..Len(line)
  BY DEF FindMark
<1>3. hits \subseteq Nat
  BY <1>2
<1>4. \E x \in hits : \A y \in hits : x <= y
  <2> HIDE DEF hits
  <2> QED BY <1>3, LeastNumber
<1>5. Min(hits) \in hits
  <2> HIDE DEF hits
  <2> QED BY <1>4 DEF Min
<1> QED BY <1>2, <1>5

LEMMA ReachedIsAResult ==
  ASSUME NEW d \in DOMAIN dirent, NEW out \in Seq(Element)
  PROVE  /\ Reached(d, out) \in Result /\ Reached(d, out).end = "dirent"
         /\ Reached(d, out).de = d /\ Reached(d, out).path = out
BY DEF Reached, Result

LEMMA ResultOfADirent ==
  ASSUME NEW r \in Result
  PROVE  /\ r.end = "dirent" => r.de \in DOMAIN dirent /\ r.path \in Seq(Element)
                                /\ r = Reached(r.de, r.path)
         /\ r.end # "dirent" => r \in {NotFound, Conversion, Diverges}
BY DEF Result, Reached, NotFound, Conversion, Diverges

LEMMA FailuresAreNoDirents ==
  /\ {NotFound, Conversion, Diverges} \subseteq Result
  /\ \A r \in {NotFound, Conversion, Diverges} : r.end # "dirent"
BY DEF Result, NotFound, Conversion, Diverges

LEMMA FindIsAResult ==
  ASSUME Linked, NEW s \in Scopes, NEW e \in Element, NEW out \in Seq(Element)
  PROVE  Find(s, e, out) \in Result
<1>1. s \in DOMAIN dirent
  BY DEF Scopes
<1>2. CASE e.kind = "up"
  <2>1. Parent(s) \in DOMAIN dirent
    BY ParentIsScope DEF Scopes
  <2>2. Front(out) \in Seq(Element) \/ out = <<>>
    BY FrontAndLast
  <2>3. Append(out, Up) \in Seq(Element)
    BY FinalKinds
  <2>4. Find(s, e, out) = FindUp(s, out)
    BY <1>2 DEF Find
  <2> QED BY <2>1, <2>2, <2>3, <2>4, ReachedIsAResult DEF FindUp
<1>3. CASE e.kind = "mark"
  <2>1. Find(s, e, out) = FindMark(s, e.name, out)
    BY <1>3 DEF Find
  <2>2. ASSUME NEW i \in 1..Len(Climb(s)),
               FindMark(s, e.name, out) = Reached(Climb(s)[i], out \o Ups(i - 1))
        PROVE  FindMark(s, e.name, out) \in Result
    <3>1. Climb(s)[i] \in DOMAIN dirent /\ i - 1 \in Nat
      BY ClimbIsALine, LineEnds DEF Scopes
    <3>2. out \o Ups(i - 1) \in Seq(Element)
      BY <3>1, UpsAreFinal, ConcatProperties
    <3> QED BY <2>2, <3>1, <3>2, ReachedIsAResult
  <2> QED BY <2>1, <2>2, FindMarkResult, FailuresAreNoDirents
<1>4. CASE e.kind \in {"index", "append"}
  <2>1. Find(s, e, out) = FindInArray(s, e, out)
    BY <1>4 DEF Find
  <2> DEFINE a == dirent[s].dirents[e.name]
  <2>2. ASSUME NEW i \in Nat, Has(s, e.name), IsArray(a), e.name \in Name,
               i + 1 \in 1..Len(dirent[a].elems),
               FindInArray(s, e, out)
                 = Reached(dirent[a].elems[i + 1], Append(out, Indexed(e.name, i)))
        PROVE  FindInArray(s, e, out) \in Result
    <3>1. dirent[a].elems[i + 1] \in DOMAIN dirent
      <4>1. a \in DOMAIN dirent
        BY <2>2, TablesAndArrays DEF Has
      <4>2. dirent[a].elems \in Seq(DOMAIN dirent)
        BY <2>2, <4>1, TablesAndArrays
      <4>3. PICK elems : elems = dirent[a].elems
        OBVIOUS
      <4>4. elems \in Seq(DOMAIN dirent) /\ i + 1 \in 1..Len(elems)
        BY <2>2, <4>2, <4>3
      <4>5. elems[i + 1] \in DOMAIN dirent
        BY <4>4
      <4> QED BY <4>3, <4>5
    <3>2. Append(out, Indexed(e.name, i)) \in Seq(Element)
      BY <2>2, FinalKinds, AppendProperties
    <3> QED BY <2>2, <3>1, <3>2, ReachedIsAResult
  <2> QED BY <1>4, <2>1, <2>2, FindInArrayResult, FailuresAreNoDirents
<1>5. CASE e.kind = "name"
  <2>1. Find(s, e, out) = FindName(s, e, out)
    BY <1>5 DEF Find
  <2>2. CASE Has(s, e.name)
    <3>1. dirent[s].dirents[e.name] \in DOMAIN dirent
      BY <2>2, TablesAndArrays DEF Has
    <3>2. Append(out, e) \in Seq(Element)
      BY AppendProperties
    <3> QED BY <2>1, <2>2, <3>1, <3>2, ReachedIsAResult DEF FindName
  <2>3. CASE ~Has(s, e.name)
    BY <2>1, <2>3, FailuresAreNoDirents DEF FindName
  <2> QED BY <2>2, <2>3
<1> QED BY <1>2, <1>3, <1>4, <1>5, ElementKinds

-----------------------------------------------------------------------------
(* The two smaller walks that a walk may go on with.                       *)
LEMMA DerefIsBefore ==
  ASSUME Linked, NEW w \in Walk, NEW found \in Result, Follows(w, found), w.fuel # 0
  PROVE  LET v == StartWalk(w.s, dirent[found.de].link, FALSE, w.fuel - 1)
         IN v \in Walk /\ <<v, w>> \in Before
<1> DEFINE v == StartWalk(w.s, dirent[found.de].link, FALSE, w.fuel - 1)
<1>1. found.de \in DOMAIN dirent /\ IsAlias(found.de)
  BY ResultOfADirent DEF Follows
<1>2. dirent[found.de].link \in AnyPath
  BY <1>1, FinalPathIsAPath DEF Linked, LinksAreFinal
<1>3. w.s \in Scopes /\ w.fuel \in Nat /\ w.fuel - 1 \in Nat /\ w.fuel - 1 < w.fuel
  BY DEF Walk
<1>4. v \in Walk
  BY <1>2, <1>3, StartIsAWalk
<1>5. v.fuel = w.fuel - 1
  BY DEF StartWalk
<1> HIDE DEF v
<1>6. <<v, w>> \in Before
  BY <1>3, <1>4, <1>5, BeforeIs
<1> QED BY <1>4, <1>6 DEF v

LEMMA NextIsBefore ==
  ASSUME NEW w \in Walk, w.p # <<>>, NEW d \in Scopes, NEW out \in Seq(Element)
  PROVE  LET v == [w EXCEPT !.s = d, !.p = Tail(@), !.out = out]
         IN v \in Walk /\ <<v, w>> \in Before
<1> DEFINE v == [w EXCEPT !.s = d, !.p = Tail(@), !.out = out]
<1>1. w.p \in Seq(Element) /\ w.fuel \in Nat
  BY DEF Walk
<1>2. Tail(w.p) \in Seq(Element) /\ Len(Tail(w.p)) = Len(w.p) - 1 /\ Len(w.p) \in Nat
      /\ Len(Tail(w.p)) < Len(w.p)
  BY <1>1, HeadTailProperties
<1>3. v.p = Tail(w.p) /\ v.fuel = w.fuel
  BY DEF Walk
<1>4. v \in Walk
  BY <1>2 DEF Walk
<1> HIDE DEF v
<1>5. <<v, w>> \in Before
  BY <1>2, <1>3, <1>4, BeforeIs
<1> QED BY <1>4, <1>5 DEF v

(* A walk has a result when the smaller ones have.                         *)
LEMMA ArriveIsAResult ==
  ASSUME Linked, NEW f, NEW w \in Walk,
         \A v \in Walk : <<v, w>> \in Before => f[v] \in Result
  PROVE  Arrive(f, w) \in Result
<1>1. w.s \in Scopes /\ w.s \in DOMAIN dirent /\ w.p \in Seq(Element)
      /\ w.out \in Seq(Element) /\ w.fuel \in Nat
  BY DEF Walk, Scopes
<1>2. CASE w.p = <<>>
  BY <1>1, <1>2, ReachedIsAResult DEF Arrive
<1>3. CASE w.p # <<>>
  <2> DEFINE found == Find(w.s, Head(w.p), w.out)
  <2>1. found \in Result
    <3>1. Head(w.p) \in Element
      BY <1>1, <1>3, HeadTailProperties
    <3> QED BY <1>1, <3>1, FindIsAResult
  <2>2. Arrive(f, w) = Step(f, w, found)
    BY <1>3 DEF Arrive
  <2> HIDE DEF found
  <2>3. Deref(f, w, found) \in Result
    <3>1. CASE ~Follows(w, found) \/ w.fuel = 0
      BY <2>1, <3>1, FailuresAreNoDirents DEF Deref
    <3>2. CASE Follows(w, found) /\ w.fuel # 0
      BY <2>1, <3>2, DerefIsBefore DEF Deref
    <3> QED BY <3>1, <3>2
  <2> DEFINE hit == Deref(f, w, found)
  <2>4. CASE found.end # "dirent"
    BY <2>1, <2>2, <2>4 DEF Step
  <2>5. CASE found.end = "dirent"
    <3>1. Arrive(f, w) = GoOn(f, w, found.path, hit) /\ found.path \in Seq(Element)
      BY <2>1, <2>2, <2>5, ResultOfADirent DEF Step
    <3> HIDE DEF hit
    <3>2. hit \in Result
      BY <2>3 DEF hit
    <3>3. CASE hit.end # "dirent"
      BY <3>1, <3>2, <3>3 DEF GoOn
    <3>4. CASE hit.end = "dirent" /\ Len(w.p) = 1
      <4>1. hit.de \in DOMAIN dirent
        BY <3>2, <3>4, ResultOfADirent
      <4> QED BY <3>1, <3>4, <4>1, ReachedIsAResult DEF GoOn
    <3>5. CASE hit.end = "dirent" /\ Len(w.p) # 1 /\ ~IsScope(hit.de)
      BY <3>1, <3>5, FailuresAreNoDirents DEF GoOn
    <3>6. CASE hit.end = "dirent" /\ Len(w.p) # 1 /\ IsScope(hit.de)
      <4>1. hit.de \in Scopes
        BY <3>2, <3>6, ResultOfADirent DEF Scopes
      <4> QED BY <1>3, <3>1, <3>6, <4>1, NextIsBefore DEF GoOn
    <3> QED BY <3>3, <3>4, <3>5, <3>6
  <2> QED BY <2>4, <2>5
<1> QED BY <1>2, <1>3

(* A walk's result depends on the results of smaller walks only.           *)
LEMMA ArriveIsLocal ==
  ASSUME Linked, NEW f, NEW g, NEW w \in Walk,
         \A v \in Walk : <<v, w>> \in Before => f[v] = g[v] /\ f[v] \in Result
  PROVE  Arrive(f, w) = Arrive(g, w)
<1>1. w.s \in Scopes /\ w.p \in Seq(Element) /\ w.out \in Seq(Element)
  BY DEF Walk
<1>2. CASE w.p = <<>>
  BY <1>2 DEF Arrive
<1>3. CASE w.p # <<>>
  <2> DEFINE found == Find(w.s, Head(w.p), w.out)
  <2>1. found \in Result
    <3>1. Head(w.p) \in Element
      BY <1>1, <1>3, HeadTailProperties
    <3> QED BY <1>1, <3>1, FindIsAResult
  <2>2. Arrive(f, w) = Step(f, w, found) /\ Arrive(g, w) = Step(g, w, found)
    BY <1>3 DEF Arrive
  <2> HIDE DEF found
  <2>3. Deref(f, w, found) \in Result /\ Deref(f, w, found) = Deref(g, w, found)
    <3>1. CASE ~Follows(w, found) \/ w.fuel = 0
      BY <2>1, <3>1, FailuresAreNoDirents DEF Deref
    <3>2. CASE Follows(w, found) /\ w.fuel # 0
      BY <2>1, <3>2, DerefIsBefore DEF Deref
    <3> QED BY <3>1, <3>2
  <2>4. CASE found.end # "dirent"
    BY <2>2, <2>4 DEF Step
  <2>5. CASE found.end = "dirent"
    <3> DEFINE hit == Deref(f, w, found)
    <3>1. /\ Arrive(f, w) = GoOn(f, w, found.path, hit)
          /\ Arrive(g, w) = GoOn(g, w, found.path, hit)
          /\ found.path \in Seq(Element)
      BY <2>1, <2>2, <2>3, <2>5, ResultOfADirent DEF Step
    <3>2. hit \in Result
      BY <2>3
    <3> HIDE DEF hit
    <3>3. CASE hit.end = "dirent" /\ Len(w.p) # 1 /\ IsScope(hit.de)
      <4>1. hit.de \in Scopes
        BY <3>2, <3>3, ResultOfADirent DEF Scopes
      <4> QED BY <1>3, <3>1, <3>3, <4>1, NextIsBefore DEF GoOn
    <3>4. CASE ~(hit.end = "dirent" /\ Len(w.p) # 1 /\ IsScope(hit.de))
      BY <3>1, <3>4 DEF GoOn
    <3> QED BY <3>3, <3>4
  <2> QED BY <2>4, <2>5
<1> QED BY <1>2, <1>3

(* A set of walks has one such that no smaller walk belongs to it.         *)
LEMMA SmallestWalk ==
  ASSUME NEW T, T \subseteq Walk, T # {}
  PROVE  \E w \in T : \A v \in Walk : <<v, w>> \in Before => v \notin T
<1>1. PICK w \in T : \A v \in T : <<v, w>> \notin Before
  BY WalksOrdered DEF Ordered
<1> QED BY <1>1

(* Walking is a function of walks, and does what its definition says.      *)
LEMMA WalkingExists ==
  ASSUME Linked
  PROVE  \E f : f = [w \in Walk |-> Arrive(f, w)]
<1> DEFINE G == [f \in [Walk -> Result] |-> [w \in Walk |-> Arrive(f, w)]]
<1>1. Local(G, Walk, Result, Before)
  <2>1. ASSUME NEW f \in [Walk -> Result], NEW w \in Walk PROVE Arrive(f, w) \in Result
    BY ArriveIsAResult
  <2>2. G \in [[Walk -> Result] -> [Walk -> Result]]
    BY <2>1
  <2>3. ASSUME NEW f \in [Walk -> Result], NEW g \in [Walk -> Result], NEW w \in Walk,
               \A v \in Walk : <<v, w>> \in Before => f[v] = g[v]
        PROVE  G[f][w] = G[g][w]
    <3>1. Arrive(f, w) = Arrive(g, w)
      BY <2>3, ArriveIsLocal
    <3> QED BY <3>1
  <2> HIDE DEF G
  <2> QED BY <2>2, <2>3 DEF Local
<1>2. PICK f \in [Walk -> Result] : f = G[f]
  <2>1. Result # {}
    BY FailuresAreNoDirents
  <2> HIDE DEF G
  <2> QED BY <1>1, <2>1, WalksOrdered, RecursionHasSolution
<1>3. f = [w \in Walk |-> Arrive(f, w)]
  BY <1>2
<1> QED BY <1>3

LEMMA WalkEquation ==
  ASSUME Linked
  PROVE  /\ Walking \in [Walk -> Result]
         /\ \A w \in Walk : Walking[w] = Arrive(Walking, w)
<1>1. Walking = [w \in Walk |-> Arrive(Walking, w)]
  <2>1. Walking = CHOOSE f : f = [w \in Walk |-> Arrive(f, w)]
    BY DEF Walking
  <2> QED BY <2>1, WalkingExists
<1> DEFINE T == {w \in Walk : Walking[w] \notin Result}
<1>2. T = {}
  <2> SUFFICES ASSUME T # {} PROVE FALSE
    OBVIOUS
  <2>1. PICK w \in T : \A v \in Walk : <<v, w>> \in Before => v \notin T
    <3>1. T \subseteq Walk
      OBVIOUS
    <3> HIDE DEF T
    <3> QED BY <3>1, SmallestWalk
  <2>2. Arrive(Walking, w) \in Result
    BY <2>1, ArriveIsAResult
  <2>3. Walking[w] = Arrive(Walking, w)
    BY <1>1
  <2> QED BY <2>2, <2>3
<1>3. \A w \in Walk : Walking[w] \in Result /\ Walking[w] = Arrive(Walking, w)
  BY <1>1, <1>2
<1> QED BY <1>1, <1>3

(* The first element of a walk, and how the walk goes on from there when   *)
(* it ends with a dirent.                                                  *)
First(w) == Find(w.s, Head(w.p), w.out)
Hit(w)   == Deref(Walking, w, First(w))
Rest(w)  == [w EXCEPT !.s = Hit(w).de, !.p = Tail(@), !.out = First(w).path]

LEMMA WalkOfNothing ==
  ASSUME Linked, NEW w \in Walk, w.p = <<>>
  PROVE  Walking[w] = Reached(w.s, w.out)
BY WalkEquation DEF Arrive

LEMMA FirstIsAResult ==
  ASSUME Linked, NEW w \in Walk, w.p # <<>>
  PROVE  /\ First(w) \in Result /\ Head(w.p) \in Element
         /\ w.s \in Scopes /\ w.out \in Seq(Element)
         /\ w.p \in Seq(Element) /\ Len(w.p) \in Nat \ {0}
<1>1. w.s \in Scopes /\ w.p \in Seq(Element) /\ w.out \in Seq(Element)
  BY DEF Walk
<1>2. Head(w.p) \in Element /\ Len(w.p) \in Nat \ {0}
  BY <1>1, HeadTailProperties, EmptySeq, LenProperties
<1> QED BY <1>1, <1>2, FindIsAResult DEF First

LEMMA WalkSteps ==
  ASSUME Linked, NEW w \in Walk, w.p # <<>>
  PROVE  /\ First(w).end # "dirent" => Walking[w] = First(w)
         /\ First(w).end = "dirent" => Walking[w] = GoOn(Walking, w, First(w).path, Hit(w))
BY WalkEquation DEF Arrive, Step, First, Hit

LEMMA HitIsAResult ==
  ASSUME Linked, NEW w \in Walk, w.p # <<>>
  PROVE  /\ Hit(w) \in Result
         /\ ~Follows(w, First(w)) => Hit(w) = First(w)
<1>1. CASE ~Follows(w, First(w)) \/ w.fuel = 0
  BY <1>1, FirstIsAResult, FailuresAreNoDirents DEF Hit, Deref
<1>2. CASE Follows(w, First(w)) /\ w.fuel # 0
  BY <1>2, FirstIsAResult, DerefIsBefore, WalkEquation DEF Hit, Deref
<1> QED BY <1>1, <1>2

LEMMA WalkEnds ==
  ASSUME Linked, NEW w \in Walk, w.p # <<>>, Walking[w].end = "dirent"
  PROVE  /\ First(w).end = "dirent" /\ Hit(w).end = "dirent"
         /\ Len(w.p) = 1 => Walking[w] = Reached(Hit(w).de, First(w).path)
         /\ Len(w.p) # 1 => /\ Hit(w).de \in Scopes
                            /\ Rest(w) \in Walk /\ <<Rest(w), w>> \in Before
                            /\ Walking[w] = Walking[Rest(w)]
<1>1. First(w).end = "dirent"
  BY WalkSteps
<1>2. Walking[w] = GoOn(Walking, w, First(w).path, Hit(w))
  BY <1>1, WalkSteps
<1>3. Hit(w) \in Result /\ First(w) \in Result
  BY HitIsAResult, FirstIsAResult
<1>4. Hit(w).end = "dirent"
  BY <1>2 DEF GoOn
<1>5. CASE Len(w.p) = 1
  BY <1>1, <1>2, <1>4, <1>5 DEF GoOn
<1>6. CASE Len(w.p) # 1
  <2>1. IsScope(Hit(w).de)
    BY <1>2, <1>4, <1>6, FailuresAreNoDirents DEF GoOn
  <2>2. Hit(w).de \in Scopes /\ First(w).path \in Seq(Element)
    BY <1>1, <1>3, <1>4, <2>1, ResultOfADirent DEF Scopes
  <2>3. Walking[w] = Walking[Rest(w)]
    BY <1>2, <1>4, <1>6, <2>1 DEF GoOn, Rest
  <2>4. Rest(w) \in Walk /\ <<Rest(w), w>> \in Before
    BY <2>2, NextIsBefore DEF Rest
  <2> QED BY <1>1, <1>4, <1>6, <2>2, <2>3, <2>4
<1> QED BY <1>1, <1>4, <1>5, <1>6

LEMMA RestIs ==
  ASSUME NEW w \in Walk
  PROVE  /\ Rest(w).s = Hit(w).de /\ Rest(w).p = Tail(w.p)
         /\ Rest(w).out = First(w).path /\ Rest(w).follow = w.follow
         /\ Rest(w).fuel = w.fuel
BY DEF Rest, Walk

-----------------------------------------------------------------------------
(* ".." stands at the start of a path or after "..", that is, nowhere it   *)
(* would undo an element.                                                  *)
Tidy(out) == \A i \in DOMAIN out : out[i] = Up /\ i > 1 => out[i - 1] = Up

IsMark(e) == e.kind = "mark"

LEMMA AppendingIsTidy ==
  ASSUME NEW out \in Seq(Final), Tidy(out), NEW e \in Final,
         e = Up => out = <<>> \/ Last(out) = Up
  PROVE  Tidy(Append(out, e))
<1> DEFINE q == Append(out, e)
           n == Len(out)
<1>1. /\ n \in Nat /\ DOMAIN out = 1..n /\ DOMAIN q = 1..(n + 1) /\ q[n + 1] = e
      /\ \A i \in 1..n : q[i] = out[i]
  BY AppendProperties, LenProperties
<1>2. out # <<>> => Last(out) = out[n]
  BY DEF Last
<1>3. n # 0 => out # <<>>
  OBVIOUS
<1> HIDE DEF q, n
<1>4. ASSUME NEW i \in 1..(n + 1), q[i] = Up, i > 1 PROVE q[i - 1] = Up
  <2>1. CASE i = n + 1
    BY <2>1, <1>1, <1>2, <1>3, <1>4
  <2>2. CASE i # n + 1
    <3>1. i \in 1..n /\ i - 1 \in 1..n
      BY <1>1, <1>4, <2>2
    <3> QED BY <1>1, <1>4, <3>1 DEF Tidy
  <2> QED BY <2>1, <2>2
<1> QED BY <1>1, <1>4 DEF Tidy, q

LEMMA FrontIsTidy ==
  ASSUME NEW out \in Seq(Final), Tidy(out), out # <<>>
  PROVE  Front(out) \in Seq(Final) /\ Tidy(Front(out))
<1> DEFINE q == Front(out)
           n == Len(out)
<1>1. /\ n \in Nat \ {0} /\ q \in Seq(Final) /\ Len(q) = n - 1
      /\ \A i \in 1..(n - 1) : q[i] = out[i]
  BY FrontAndLast
<1>2. DOMAIN out = 1..n /\ DOMAIN q = 1..(n - 1)
  BY <1>1
<1> HIDE DEF q, n
<1>3. ASSUME NEW i \in 1..(n - 1), q[i] = Up, i > 1 PROVE q[i - 1] = Up
  <2>1. i - 1 \in 1..(n - 1) /\ i \in 1..n
    BY <1>1, <1>3
  <2> QED BY <1>1, <1>2, <1>3, <2>1 DEF Tidy
<1> QED BY <1>1, <1>2, <1>3 DEF Tidy, q

(* One element leaves a final path, and a tidy one unless it is a bookmark. *)
LEMMA FindIsFinal ==
  ASSUME Linked, NEW s \in Scopes, NEW e \in Element, NEW out \in Seq(Final),
         Find(s, e, out).end = "dirent"
  PROVE  /\ Find(s, e, out).path \in Seq(Final)
         /\ Tidy(out) /\ ~IsMark(e) => Tidy(Find(s, e, out).path)
<1>0. out \in Seq(Element) /\ \A d, q : Reached(d, q).path = q
  BY FinalKinds DEF Reached
<1>1. CASE e.kind = "up"
  <2>1. Find(s, e, out) = FindUp(s, out)
    BY <1>1 DEF Find
  <2>2. CASE out # <<>> /\ Last(out) # Up
    <3>1. Find(s, e, out).path = Front(out)
      BY <1>0, <2>1, <2>2 DEF FindUp
    <3>2. Front(out) \in Seq(Final)
      BY <2>2, FrontAndLast
    <3> QED BY <2>2, <3>1, <3>2, FrontIsTidy
  <2>3. CASE ~(out # <<>> /\ Last(out) # Up)
    <3>1. Find(s, e, out).path = Append(out, Up)
      BY <1>0, <2>1, <2>3 DEF FindUp
    <3>2. Append(out, Up) \in Seq(Final) /\ Up \in Final
      BY FinalKinds, AppendProperties
    <3> QED BY <2>3, <3>1, <3>2, AppendingIsTidy
  <2> QED BY <2>2, <2>3
<1>2. CASE e.kind = "mark"
  <2>1. Find(s, e, out) = FindMark(s, e.name, out)
    BY <1>2 DEF Find
  <2>2. PICK i \in 1..Len(Climb(s)) :
          FindMark(s, e.name, out) = Reached(Climb(s)[i], out \o Ups(i - 1))
    BY <2>1, FindMarkResult, FailuresAreNoDirents
  <2>3. i - 1 \in Nat
    BY ClimbIsALine, LineEnds
  <2>4. out \o Ups(i - 1) \in Seq(Final)
    BY <2>3, UpsAreFinal, ConcatProperties
  <2>5. Find(s, e, out).path = out \o Ups(i - 1)
    <3>1. PICK q : q = out \o Ups(i - 1)
      OBVIOUS
    <3>2. Find(s, e, out) = Reached(Climb(s)[i], q)
      BY <2>1, <2>2, <3>1
    <3> QED BY <1>0, <3>1, <3>2
  <2> QED BY <1>2, <2>4, <2>5 DEF IsMark
<1>3. CASE e.kind \in {"index", "append"}
  <2>1. Find(s, e, out) = FindInArray(s, e, out)
    BY <1>3 DEF Find
  <2>2. PICK i, d : i \in Nat /\ e.name \in Name
          /\ FindInArray(s, e, out) = Reached(d, Append(out, Indexed(e.name, i)))
    BY <1>0, <1>3, <2>1, FindInArrayResult, FailuresAreNoDirents
  <2>3. Indexed(e.name, i) \in Final /\ Indexed(e.name, i) # Up
    BY <2>2, FinalKinds DEF Indexed, Up
  <2>4. Find(s, e, out).path = Append(out, Indexed(e.name, i))
    BY <1>0, <2>1, <2>2
  <2> QED BY <2>3, <2>4, AppendProperties, AppendingIsTidy
<1>4. CASE e.kind = "name"
  <2>1. Find(s, e, out) = FindName(s, e, out)
    BY <1>4 DEF Find
  <2>2. Find(s, e, out).path = Append(out, e)
    <3>1. PICK q : q = Append(out, e)
      OBVIOUS
    <3>2. Find(s, e, out) = Reached(dirent[s].dirents[e.name], q)
      BY <2>1, <3>1, FailuresAreNoDirents DEF FindName
    <3> QED BY <1>0, <3>1, <3>2
  <2>3. e \in Final /\ e # Up
    BY <1>4, FinalKinds DEF Up
  <2> QED BY <2>2, <2>3, AppendProperties, AppendingIsTidy
<1> QED BY <1>1, <1>2, <1>3, <1>4, ElementKinds

(* So does a walk.                                                         *)
LEMMA WalkIsFinal ==
  ASSUME Linked, NEW x \in Walk, x.out \in Seq(Final), Walking[x].end = "dirent"
  PROVE  /\ Walking[x].path \in Seq(Final)
         /\ Tidy(x.out) /\ (\A i \in 1..Len(x.p) : ~IsMark(x.p[i])) => Tidy(Walking[x].path)
<1> DEFINE Marks(w) == \E i \in 1..Len(w.p) : IsMark(w.p[i])
           Good(w) == /\ Walking[w].path \in Seq(Final)
                      /\ Tidy(w.out) /\ ~Marks(w) => Tidy(Walking[w].path)
           T == {w \in Walk : w.out \in Seq(Final) /\ Walking[w].end = "dirent" /\ ~Good(w)}
<1>1. ASSUME NEW w \in T, \A v \in Walk : <<v, w>> \in Before => v \notin T
      PROVE  FALSE
  <2>0. w \in Walk /\ w.out \in Seq(Final) /\ Walking[w].end = "dirent" /\ ~Good(w)
    OBVIOUS
  <2> HIDE DEF T
  <2>1. CASE w.p = <<>>
    <3>1. Walking[w] = Reached(w.s, w.out)
      BY <2>0, <2>1, WalkOfNothing
    <3>2. Walking[w].path = w.out
      BY <3>1 DEF Reached
    <3> QED BY <2>0, <3>2
  <2>2. CASE w.p # <<>>
    <3>1. First(w).end = "dirent" /\ Head(w.p) \in Element /\ w.s \in Scopes
          /\ w.p \in Seq(Element) /\ Len(w.p) \in Nat \ {0}
      BY <2>0, <2>2, WalkEnds, FirstIsAResult
    <3>2. /\ First(w).path \in Seq(Final)
          /\ Tidy(w.out) /\ ~IsMark(Head(w.p)) => Tidy(First(w).path)
      BY <2>0, <3>1, FindIsFinal DEF First
    <3>3. ~Marks(w) => ~IsMark(Head(w.p))
      <4>1. Head(w.p) = w.p[1] /\ 1 \in 1..Len(w.p)
        BY <2>2, <3>1, HeadTailProperties
      <4> QED BY <4>1
    <3>4. CASE Len(w.p) = 1
      <4>1. Walking[w] = Reached(Hit(w).de, First(w).path)
        BY <2>0, <2>2, <3>4, WalkEnds
      <4>2. Walking[w].path = First(w).path
        BY <4>1 DEF Reached
      <4> QED BY <2>0, <3>2, <3>3, <4>2
    <3>5. CASE Len(w.p) # 1
      <4> DEFINE v == Rest(w)
      <4>1. v \in Walk /\ <<v, w>> \in Before /\ Walking[w] = Walking[v]
        BY <2>0, <2>2, <3>5, WalkEnds
      <4>2. v.out = First(w).path /\ v.p = Tail(w.p)
        BY <2>0, RestIs
      <4>3. v \notin T
        BY <1>1, <4>1
      <4>4. Good(v)
        <5> HIDE DEF Good, v
        <5> QED BY <2>0, <3>2, <4>1, <4>2, <4>3 DEF T
      <4>5. ~Marks(w) => ~Marks(v)
        <5>1. Len(Tail(w.p)) = Len(w.p) - 1
              /\ \A i \in 1..(Len(w.p) - 1) : Tail(w.p)[i] = w.p[i + 1]
          BY <2>2, <3>1, HeadTailProperties
        <5>2. \A i \in 1..(Len(w.p) - 1) : i + 1 \in 1..Len(w.p)
          BY <3>1
        <5> QED BY <4>2, <5>1, <5>2
      <4> HIDE DEF v, Marks
      <4> QED BY <2>0, <3>2, <3>3, <4>1, <4>2, <4>4, <4>5
    <3> QED BY <3>4, <3>5
  <2> QED BY <2>1, <2>2
<1>2. T = {}
  <2>1. T \subseteq Walk
    OBVIOUS
  <2> HIDE DEF T
  <2> QED BY <1>1, <2>1, SmallestWalk
<1>3. Good(x)
  <2> HIDE DEF Good
  <2> QED BY <1>2
<1> QED BY <1>3

(* A canonical path is final, and tidy unless bookmarks were resolved.     *)
LEMMA ResolvedIsFinal ==
  ASSUME Linked, NEW s \in Scopes, NEW p \in AnyPath
  PROVE  LET r == ResolvePath(s, p)
         IN /\ r.abs = FALSE /\ r.elems \in Seq(Final)
            /\ (\A i \in 1..Len(p.elems) : ~IsMark(p.elems[i])) => Tidy(r.elems)
<1> DEFINE x == StartWalk(s, p, TRUE, MaxDirents)
           r == ResolvePath(s, p)
<1>1. x \in Walk
  BY StartIsAWalk, MaxDirentsIsNat
<1>2. x.out \in Seq(Final) /\ Tidy(x.out) /\ x.p = p.elems
  <2> DEFINE n == Len(Climb(s)) - 1
  <2>1. n \in Nat
    BY ClimbIsALine, LineEnds
  <2>2. Ups(n) \in Seq(Final) /\ Tidy(Ups(n))
    <3> HIDE DEF n
    <3>1. DOMAIN Ups(n) = 1..n
      BY DEF Ups
    <3> QED BY <2>1, <3>1, UpsAreFinal DEF Tidy
  <2>3. <<>> \in Seq(Final) /\ Tidy(<<>>)
    BY DEF Tidy
  <2>4. x.out \in {Ups(n), <<>>} /\ x.p = p.elems
    BY DEF StartWalk
  <2> HIDE DEF n
  <2> QED BY <2>2, <2>3, <2>4
<1>3. r.abs = FALSE /\ r.elems = IF Walking[x].end = "dirent" THEN Walking[x].path ELSE <<>>
  BY DEF ResolvePath, WalkPath
<1> HIDE DEF x, r
<1>4. <<>> \in Seq(Final) /\ Tidy(<<>>)
  BY DEF Tidy
<1>5. CASE Walking[x].end = "dirent"
  BY <1>1, <1>2, <1>3, <1>5, WalkIsFinal DEF r
<1>6. CASE Walking[x].end # "dirent"
  BY <1>3, <1>4, <1>6 DEF r
<1> QED BY <1>5, <1>6

-----------------------------------------------------------------------------
(* A statement writes to the current scope or to one array, and to nothing *)
(* else that is there before and after.                                    *)
LEMMA NamingWrites ==
  ASSUME IInv, NEW m \in Name, NEW o, AddNamed(m, o)
  PROVE  \A d \in DOMAIN dirent \cap DOMAIN dirent' :
           d # Current => dirent'[d] = dirent[d]
<1>1. \A d \in DOMAIN dirent : d # created
  BY DEF IInv, Tree, Records
<1> QED BY <1>1 DEF AddNamed

LEMMA NewArrayWrites ==
  ASSUME IInv, NEW m \in Name, NEW o, AddToNewArray(m, o)
  PROVE  \A d \in DOMAIN dirent : d # Current => dirent'[d] = dirent[d]
<1>1. \A d \in DOMAIN dirent : d # created /\ d # created + 1
  BY DEF IInv, Tree, Records
<1> QED BY <1>1 DEF AddToNewArray

LEMMA AppendingWrites ==
  ASSUME IInv, NEW m \in Name, NEW o, AddToArray(m, o)
  PROVE  LET a == dirent[Current].dirents[m]
         IN /\ IsArray(a) /\ a \in DOMAIN dirent
            /\ dirent'[a] = [dirent[a] EXCEPT !.elems = Append(@, created)]
            /\ \A d \in DOMAIN dirent : d # a => dirent'[d] = dirent[d]
<1> DEFINE a == dirent[Current].dirents[m]
<1>1. \A d \in DOMAIN dirent : d # created
  BY DEF IInv, Tree, Records
<1>2. IsArray(a) /\ m \in DOMAIN dirent[Current].dirents
  BY DEF AddToArray, Has
<1>3. a \in DOMAIN dirent
  <2>1. Current \in DOMAIN dirent /\ IsScope(Current)
    BY CurrentIsOpen DEF Scopes
  <2>2. Holds(Current) = Range(dirent[Current].dirents)
    BY <2>1, HoldsOfKinds
  <2>3. a \in Holds(Current)
    BY <1>2, <2>2 DEF Range
  <2> QED BY <2>1, <2>3 DEF IInv, Tree, Forest, Holdings
<1>4. dirent' = [d \in DOMAIN dirent \cup {created} |->
                   IF d = created THEN o
                   ELSE IF d = a THEN [dirent[a] EXCEPT !.elems = Append(@, created)]
                   ELSE dirent[d]]
  BY DEF AddToArray
<1> HIDE DEF a
<1>5. /\ dirent'[a] = [dirent[a] EXCEPT !.elems = Append(@, created)]
      /\ \A d \in DOMAIN dirent : d # a => dirent'[d] = dirent[d]
  BY <1>1, <1>3, <1>4
<1> QED BY <1>2, <1>3, <1>5 DEF a

(* An alias is never rewritten.                                            *)
LEMMA AliasesAreConstant ==
  ASSUME IInv, NEW e \in Defines(Name), NEW o, AddDirent(e, o),
         NEW d \in DOMAIN dirent, d \in DOMAIN dirent', IsAlias(d)
  PROVE  dirent'[d] = dirent[d]
<1>1. e.name \in Name
  BY DEF Defines, Named, Appended
<1>2. d # Current
  BY CurrentIsOpen DEF Scopes, IsScope, IsAlias
<1>3. CASE AddNamed(e.name, o)
  BY <1>1, <1>2, <1>3, NamingWrites
<1>4. CASE AddToNewArray(e.name, o)
  BY <1>1, <1>2, <1>4, NewArrayWrites
<1>5. CASE AddToArray(e.name, o)
  BY <1>1, <1>5, AppendingWrites DEF IsArray, IsAlias
<1> QED BY <1>3, <1>4, <1>5 DEF AddDirent

(* Adding a dirent keeps it all linked.                                    *)
LEMMA AddingKeepsLinked ==
  ASSUME IInv, IInv', Linked, NEW e \in Defines(Name), NEW o, Fresh(o, Current),
         AddDirent(e, o), o.type = "alias" => o.link \in FinalPath
  PROVE  Linked'
<1>1. PICK s, n : s = Current /\ n = created
  OBVIOUS
<1>2. s \in Scopes
  BY <1>1, CurrentIsOpen
<1>3. Change(o, s, n) /\ Fresh(o, s)
  BY <1>1, <1>2, AddingChanges DEF IInv
<1>4. ASSUME NEW d \in DOMAIN dirent', dirent'[d].type # "array", d \notin DOMAIN dirent
      PROVE  d = n /\ dirent'[d] = o
  BY <1>3, <1>4 DEF Change
<1>5. ASSUME NEW d \in DOMAIN dirent', d \in DOMAIN dirent
      PROVE  /\ dirent'[d].type = dirent[d].type
             /\ dirent[d].type = "scope" => dirent'[d].parent = dirent[d].parent
             /\ dirent[d].type = "alias" => dirent'[d] = dirent[d]
  BY <1>3, <1>5, AliasesAreConstant DEF Change, IsScope, IsAlias
<1>6. ParentsAreScopes'
  <2> SUFFICES ASSUME NEW d \in DOMAIN dirent', dirent'[d].type = "scope", d # Root
               PROVE  dirent'[d].parent \in DOMAIN dirent'
                      /\ dirent'[dirent'[d].parent].type = "scope"
    BY DEF ParentsAreScopes, Scopes, IsScope
  <2>1. dirent'[d].parent \in DOMAIN dirent'
    BY DEF IInv, Tree, ParentsHold, Scopes, IsScope
  <2>2. dirent'[d].parent \in Scopes
    <3>1. CASE d \in DOMAIN dirent
      BY <3>1, <1>5 DEF Linked, ParentsAreScopes, Scopes, IsScope
    <3>2. CASE d \notin DOMAIN dirent
      <4>1. dirent'[d] = o
        BY <1>4, <3>2
      <4>2. o.parent = s
        BY <1>3, <4>1 DEF Fresh, NewScope, NewProc, NewAlias
      <4> QED BY <1>2, <4>1, <4>2
    <3> QED BY <3>1, <3>2
  <2> QED BY <2>1, <2>2, <1>5 DEF Scopes, IsScope
<1>7. RootIsTop'
  <2>1. Root \in DOMAIN dirent /\ Root \in DOMAIN dirent' /\ dirent[Root].type = "scope"
    BY DEF IInv, Tree, Records, Forest, Holdings, IsScope
  <2> QED BY <2>1, <1>5 DEF Linked, RootIsTop, Root
<1>8. LinksAreFinal'
  <2> SUFFICES ASSUME NEW d \in DOMAIN dirent', dirent'[d].type = "alias"
               PROVE  dirent'[d].link \in FinalPath
    BY DEF LinksAreFinal, IsAlias, FinalPath, Final, Up, Named, Name
  <2>1. CASE d \in DOMAIN dirent
    BY <2>1, <1>5 DEF Linked, LinksAreFinal, IsAlias
  <2>2. CASE d \notin DOMAIN dirent
    BY <2>2, <1>4
  <2> QED BY <2>1, <2>2
<1>9. Tree'
  BY DEF IInv
<1> QED BY <1>6, <1>7, <1>8, <1>9 DEF Linked

LEMMA FreshHasNoLink ==
  ASSUME NEW s
  PROVE  /\ NewScope(s).type # "alias"
         /\ \A t \in {"register", "field"} : NewProc(t, s).type # "alias"
BY DEF NewScope, NewProc

(* An alias is bound to the canonical form of its target.                  *)
LEMMA AliasPathIsFinal ==
  ASSUME IInv, Linked, NEW t \in Target, IsInitialized(ResolvePath(Current, t))
  PROVE  ResolvePath(Current, t) \in FinalPath
<1>1. t \in AnyPath
  BY PathsAssumption DEF AnyPath
<1>2. PICK r : r = ResolvePath(Current, t)
  OBVIOUS
<1>3. r.abs = FALSE /\ r.elems \in Seq(Final)
  BY <1>1, <1>2, CurrentIsOpen, ResolvedIsFinal
<1>4. r = [abs |-> r.abs, elems |-> r.elems]
  BY <1>2 DEF ResolvePath
<1>5. r.elems # <<>>
  BY <1>2, <1>3 DEF IsInitialized
<1>6. r \in FinalPath
  <2> DEFINE q == r.elems
  <2>1. [abs |-> FALSE, elems |-> q] \in FinalPath
    <3> HIDE DEF q
    <3> QED BY <1>3, <1>5 DEF FinalPath, q
  <2> QED BY <1>3, <1>4, <2>1
<1> QED BY <1>2, <1>6

LEMMA LinkedIsInductive ==
  ASSUME IInv, Linked, [Next]_vars
  PROVE  Linked'
<1>0. IInv' /\ Tree'
  BY IInvIsInductive DEF IInv
<1>1. Defines(ScopeName) \cup Defines(RegName) \subseteq Defines(Name)
  BY DEF Defines, Name
<1>2. ASSUME NEW e \in Defines(ScopeName), OpenScope(e) PROVE Linked'
  <2>1. Fresh(NewScope(Current), Current) /\ AddDirent(e, NewScope(Current))
    BY <1>2 DEF Fresh, OpenScope
  <2> QED BY <1>0, <1>1, <2>1, AddingKeepsLinked, FreshHasNoLink
<1>3. ASSUME NEW e \in Defines(Name), NEW t \in {"register", "field"},
             AddDirent(e, NewProc(t, Current))
      PROVE  Linked'
  <2>1. Fresh(NewProc(t, Current), Current)
    BY DEF Fresh
  <2> QED BY <1>0, <1>3, <2>1, AddingKeepsLinked, FreshHasNoLink
<1>4. ASSUME NEW e \in Defines(Name), NEW t \in Target, DefineAlias(e, t) PROVE Linked'
  <2>1. PICK p : p = ResolvePath(Current, t)
    OBVIOUS
  <2>2. Fresh(NewAlias(p), Current) /\ AddDirent(e, NewAlias(p)) /\ IsInitialized(p)
    BY <1>4, <2>1 DEF Fresh, DefineAlias
  <2>3. NewAlias(p).link \in FinalPath
    BY <2>1, <2>2, AliasPathIsFinal DEF NewAlias
  <2> QED BY <1>0, <2>2, <2>3, AddingKeepsLinked
<1>5. ASSUME dirent' = dirent PROVE Linked'
  BY <1>0, <1>5 DEF Linked, ParentsAreScopes, RootIsTop, LinksAreFinal, Scopes,
     IsScope, IsAlias
<1>6. ASSUME NEW m \in Mark, Bookmark(m) PROVE Linked'
  <2>1. PICK s : s = Current
    OBVIOUS
  <2>2. s \in DOMAIN dirent /\ IsScope(s)
    BY <2>1, CurrentIsOpen DEF Scopes
  <2>3. dirent' = [dirent EXCEPT ![s].bookmarks = @ \cup {m}]
    BY <1>6, <2>1 DEF Bookmark
  <2>4. DOMAIN dirent' = DOMAIN dirent
        /\ \A d \in DOMAIN dirent \ {s} : dirent'[d] = dirent[d]
    BY <2>3 DEF Linked, Tree, Records
  <2>5. dirent[s] \in ScopeRec
    BY <2>1, CurrentIsOpen, TablesAndArrays
  <2>6. dirent'[s] = [dirent[s] EXCEPT !.bookmarks = @ \cup {m}]
    BY <2>2, <2>3 DEF Linked, Tree, Records
  <2>7. dirent'[s].type = "scope" /\ dirent[s].type = "scope"
        /\ dirent'[s].parent = dirent[s].parent
    BY <2>5, <2>6 DEF ScopeRec
  <2>8. \A d \in DOMAIN dirent : dirent'[d].type = dirent[d].type
          /\ dirent'[d].parent = dirent[d].parent
    BY <2>4, <2>7
  <2>9. Scopes' = Scopes /\ Root \in DOMAIN dirent
    BY <2>4, <2>8 DEF Scopes, IsScope, Linked, Tree, Forest, Holdings
  <2>10. ParentsAreScopes' /\ RootIsTop'
    BY <2>8, <2>9 DEF Linked, ParentsAreScopes, RootIsTop, Scopes, Root
  <2>11. LinksAreFinal'
    <3>1. \A d \in DOMAIN dirent : dirent[d].type = "alias" => dirent[d].link \in FinalPath
      BY DEF Linked, LinksAreFinal, IsAlias
    <3>2. \A d \in DOMAIN dirent' : dirent'[d].type = "alias" => dirent'[d].link \in FinalPath
      BY <2>4, <2>7, <3>1
    <3> QED BY <3>2 DEF LinksAreFinal, IsAlias, FinalPath, Final, Up, Named, Name
  <2> QED BY <1>0, <2>10, <2>11 DEF Linked
<1>7. CASE UNCHANGED vars
  BY <1>5, <1>7 DEF vars
<1>8. CASE CloseScope
  BY <1>5, <1>8 DEF CloseScope
<1> QED BY <1>1, <1>2, <1>3, <1>4, <1>6, <1>7, <1>8 DEF Next, DefineField, DefineReg

(* The links of the heap are ones that walks can follow, in every          *)
(* reachable state.                                                        *)
THEOREM LinkedIsInvariant == Spec => [](IInv /\ Linked)
<1>1. Init => IInv
  BY InitGivesIInv
<1>2. ASSUME Init PROVE Linked
  <2>1. Tree
    BY <1>1, <1>2 DEF IInv
  <2>2. DOMAIN dirent = {Root} /\ dirent[Root] = NewScope(-1)
    BY <1>2 DEF Init
  <2> QED BY <2>1, <2>2 DEF Linked, ParentsAreScopes, RootIsTop, LinksAreFinal,
             Scopes, IsAlias, NewScope
<1>3. IInv /\ Linked /\ [Next]_vars => (IInv /\ Linked)'
  <2>1. ASSUME IInv, Linked, [Next]_vars PROVE (IInv /\ Linked)'
    BY <2>1, IInvIsInductive, LinkedIsInductive
  <2> QED BY <2>1
<1> QED BY <1>1, <1>2, <1>3, PTL DEF Spec

(* ResolveIsCanonical: what resolve_path() returns needs no context but    *)
(* its scope: no bookmark, no negative index, no append is left in it, and *)
(* ".." undoes nothing that stands before it (scope.cc:155, 323).          *)
THEOREM ResolvedPathsAreCanonical == Spec => []ResolveIsCanonical
<1>1. ASSUME Linked PROVE ResolveIsCanonical
  <2> SUFFICES ASSUME NEW s \in Scopes, NEW p \in Path,
                      NEW i \in DOMAIN ResolvePath(s, p).elems
               PROVE  LET r == ResolvePath(s, p).elems IN
                        /\ r[i].kind \in {"up", "name", "index"}
                        /\ r[i].kind = "index" => r[i].index >= 0
                        /\ r[i] = Up /\ i > 1
                             /\ (\A mark \in Mark : Marked(mark) \notin Range(p.elems))
                             => r[i - 1] = Up
    BY DEF ResolveIsCanonical
  <2>1. p \in AnyPath /\ p.elems \in Seq(Element)
    BY PathsAssumption DEF AnyPath
  <2>2. PICK r : r = ResolvePath(s, p).elems
    OBVIOUS
  <2>3. /\ r \in Seq(Final)
        /\ (\A j \in 1..Len(p.elems) : ~IsMark(p.elems[j])) => Tidy(r)
    BY <1>1, <2>1, <2>2, ResolvedIsFinal
  <2>4. r[i] \in Final
    BY <2>2, <2>3
  <2>5. r[i].kind \in {"up", "name", "index"} /\ (r[i].kind = "index" => r[i].index >= 0)
    BY <2>4, FinalKinds
  <2>6. ASSUME \A mark \in Mark : Marked(mark) \notin Range(p.elems)
        PROVE  \A j \in 1..Len(p.elems) : ~IsMark(p.elems[j])
    <3> SUFFICES ASSUME NEW j \in 1..Len(p.elems), IsMark(p.elems[j]) PROVE FALSE
      OBVIOUS
    <3>1. p.elems[j] \in Element /\ p.elems[j] \in Range(p.elems)
      BY <2>1 DEF Range
    <3>2. p.elems[j] = Marked(p.elems[j].name) /\ p.elems[j].name \in Mark
      BY <3>1, ElementKinds DEF IsMark
    <3> QED BY <2>6, <3>1, <3>2
  <2> QED BY <2>2, <2>3, <2>5, <2>6 DEF Tidy
<1> QED BY <1>1, LinkedIsInvariant, PTL

-----------------------------------------------------------------------------
(* A step that destroys nothing only extends what is there: new names,     *)
(* longer arrays, new bookmarks.                                           *)
Extended ==
  /\ DOMAIN dirent \subseteq DOMAIN dirent'
  /\ \A d \in DOMAIN dirent :
       /\ dirent'[d].type = dirent[d].type
       /\ dirent[d].type = "scope" =>
            /\ dirent'[d].parent = dirent[d].parent
            /\ \A n \in DOMAIN dirent[d].dirents :
                 n \in DOMAIN dirent'[d].dirents
                 /\ dirent'[d].dirents[n] = dirent[d].dirents[n]
       /\ dirent[d].type = "array" =>
            \A i \in 1..Len(dirent[d].elems) :
              /\ i \in 1..Len(dirent'[d].elems)
              /\ dirent'[d].elems[i] = dirent[d].elems[i]
       /\ dirent[d].type = "alias" => dirent'[d] = dirent[d]

LEMMA NamingExtends ==
  ASSUME IInv, Linked, NEW m \in Name, NEW o, AddNamed(m, o) \/ AddToNewArray(m, o),
         DOMAIN dirent \subseteq DOMAIN dirent'
  PROVE  Extended
<1>1. PICK s : s = Current
  OBVIOUS
<1>2. s \in DOMAIN dirent /\ dirent[s].type = "scope" /\ dirent[s] \in ScopeRec
  BY <1>1, CurrentIsOpen, TablesAndArrays DEF IsScope
<1>3. \A d \in DOMAIN dirent : d # s => dirent'[d] = dirent[d]
  BY <1>1, NamingWrites, NewArrayWrites
<1>4. \A d \in DOMAIN dirent : d # created /\ d # created + 1
  BY DEF IInv, Tree, Records
<1>5. ~Has(s, m)
  <2>1. CASE AddNamed(m, o)
    <3> SUFFICES ASSUME Has(s, m) PROVE FALSE
      OBVIOUS
    <3> DEFINE x == dirent[s].dirents[m]
    <3>1. x \in DOMAIN dirent
      BY <1>1, CurrentIsOpen, TablesAndArrays DEF Has
    <3>2. x \in Owned(x)
      BY <3>1 DEF Owned
    <3>3. x \notin DOMAIN dirent'
      <4>1. DOMAIN dirent' = (DOMAIN dirent \ Owned(x)) \cup {created}
        BY <1>1, <2>1 DEF AddNamed
      <4> QED BY <1>4, <3>1, <3>2, <4>1
    <3> QED BY <3>1, <3>3
  <2>2. CASE AddToNewArray(m, o)
    BY <1>1, <2>2 DEF AddToNewArray
  <2> QED BY <2>1, <2>2
<1>6. PICK v : dirent'[s] = [dirent[s] EXCEPT !.dirents =
                 [x \in DOMAIN dirent[s].dirents \cup {m} |->
                    IF x = m THEN v ELSE dirent[s].dirents[x]]]
  <2>1. CASE AddNamed(m, o)
    <3>1. s \in DOMAIN dirent'
      BY <1>2
    <3>2. dirent'[s] = [dirent[s] EXCEPT !.dirents =
                 [x \in DOMAIN dirent[s].dirents \cup {m} |->
                    IF x = m THEN created ELSE dirent[s].dirents[x]]]
      BY <1>1, <1>2, <1>4, <1>5, <2>1 DEF AddNamed
    <3> QED BY <3>2
  <2>2. CASE AddToNewArray(m, o)
    <3>1. dirent'[s] = [dirent[s] EXCEPT !.dirents =
                 [x \in DOMAIN dirent[s].dirents \cup {m} |->
                    IF x = m THEN created + 1 ELSE dirent[s].dirents[x]]]
      BY <1>1, <1>2, <1>4, <2>2 DEF AddToNewArray
    <3> QED BY <3>1
  <2> QED BY <2>1, <2>2
<1>7. /\ dirent'[s].type = "scope" /\ dirent'[s].parent = dirent[s].parent
      /\ dirent'[s].dirents = [x \in DOMAIN dirent[s].dirents \cup {m} |->
                                 IF x = m THEN v ELSE dirent[s].dirents[x]]
  BY <1>2, <1>6 DEF ScopeRec
<1>8. \A n \in DOMAIN dirent[s].dirents : n \in DOMAIN dirent'[s].dirents
        /\ dirent'[s].dirents[n] = dirent[s].dirents[n]
  BY <1>5, <1>7 DEF Has
<1> QED BY <1>2, <1>3, <1>7, <1>8 DEF Extended

LEMMA AppendingExtends ==
  ASSUME IInv, Linked, NEW m \in Name, NEW o, AddToArray(m, o),
         DOMAIN dirent \subseteq DOMAIN dirent'
  PROVE  Extended
<1>1. PICK a : a = dirent[Current].dirents[m]
  OBVIOUS
<1>2. /\ dirent[a].type = "array" /\ a \in DOMAIN dirent
      /\ dirent'[a] = [dirent[a] EXCEPT !.elems = Append(@, created)]
      /\ \A d \in DOMAIN dirent : d # a => dirent'[d] = dirent[d]
  BY <1>1, AppendingWrites DEF IsArray
<1>3. dirent[a] \in ArrayRec
  BY <1>2, CurrentIsOpen, TablesAndArrays DEF IsArray
<1>4. dirent'[a].type = "array" /\ dirent'[a].elems = Append(dirent[a].elems, created)
  BY <1>2, <1>3 DEF ArrayRec
<1>5. created \in Nat /\ dirent[a].elems \in Seq(Nat)
  BY <1>3, MaxDirentsIsNat DEF ArrayRec, IInv, Tree, Records
<1>6. \A i \in 1..Len(dirent[a].elems) :
        i \in 1..Len(dirent'[a].elems) /\ dirent'[a].elems[i] = dirent[a].elems[i]
  BY <1>4, <1>5, AppendProperties
<1> QED BY <1>2, <1>4, <1>6 DEF Extended

LEMMA StepExtends ==
  ASSUME IInv, Linked, [Next]_vars, DOMAIN dirent \subseteq DOMAIN dirent'
  PROVE  Extended
<1>1. Defines(ScopeName) \cup Defines(RegName) \subseteq Defines(Name)
  BY DEF Defines, Name
<1>2. ASSUME NEW e \in Defines(Name), NEW o, AddDirent(e, o) PROVE Extended
  <2>1. e.name \in Name
    BY DEF Defines, Named, Appended
  <2> QED BY <1>2, <2>1, NamingExtends, AppendingExtends DEF AddDirent
<1>3. ASSUME dirent' = dirent PROVE Extended
  BY <1>3 DEF Extended
<1>4. ASSUME NEW m \in Mark, Bookmark(m) PROVE Extended
  <2>1. PICK s : s = Current
    OBVIOUS
  <2>2. s \in DOMAIN dirent /\ dirent[s] \in ScopeRec
    BY <2>1, CurrentIsOpen, TablesAndArrays
  <2>3. dirent' = [dirent EXCEPT ![s].bookmarks = @ \cup {m}]
    BY <1>4, <2>1 DEF Bookmark
  <2>4. \A d \in DOMAIN dirent \ {s} : dirent'[d] = dirent[d]
    BY <2>3 DEF Linked, Tree, Records
  <2>5. dirent'[s] = [dirent[s] EXCEPT !.bookmarks = @ \cup {m}]
    BY <2>2, <2>3 DEF Linked, Tree, Records
  <2>6. dirent'[s].type = "scope" /\ dirent[s].type = "scope"
        /\ dirent'[s].parent = dirent[s].parent /\ dirent'[s].dirents = dirent[s].dirents
    BY <2>2, <2>5 DEF ScopeRec
  <2> QED BY <2>4, <2>6 DEF Extended
<1>5. CASE UNCHANGED vars
  BY <1>3, <1>5 DEF vars
<1>6. CASE CloseScope
  BY <1>3, <1>6 DEF CloseScope
<1> QED BY <1>1, <1>2, <1>4, <1>5, <1>6 DEF Next, OpenScope, DefineField, DefineReg, DefineAlias

(* One final element leads where it led before.                            *)
LEMMA FindPersists ==
  ASSUME Linked, Linked', Extended, NEW s \in Scopes, NEW e \in Final,
         NEW out \in Seq(Final), Find(s, e, out).end = "dirent"
  PROVE  Find(s, e, out)' = Find(s, e, out)
<1>1. s \in DOMAIN dirent /\ s \in DOMAIN dirent' /\ dirent[s].type = "scope"
      /\ e \in Element /\ out \in Seq(Element)
  BY FinalKinds DEF Scopes, IsScope, Extended
<1>2. \A n \in DOMAIN dirent[s].dirents :
        n \in DOMAIN dirent'[s].dirents /\ dirent'[s].dirents[n] = dirent[s].dirents[n]
  BY <1>1 DEF Extended
<1>3. CASE e.kind = "up"
  <2>1. Parent(s)' = Parent(s)
    <3>1. dirent'[s].parent = dirent[s].parent
      BY <1>1 DEF Extended
    <3>2. CASE s = Root
      <4>1. dirent[s].parent = -1
        BY <3>2 DEF Linked, RootIsTop
      <4>2. -1 \notin DOMAIN dirent /\ -1 \notin DOMAIN dirent'
        BY DEF Linked, Tree, Records
      <4> QED BY <3>1, <4>1, <4>2 DEF Parent, IsRoot
    <3>3. CASE s # Root
      <4>1. dirent[s].parent \in DOMAIN dirent /\ dirent[s].parent \in DOMAIN dirent'
        BY <3>3 DEF Linked, ParentsAreScopes, Scopes, Extended
      <4> QED BY <3>1, <4>1 DEF Parent, IsRoot
    <3> QED BY <3>2, <3>3
  <2>2. Find(s, e, out) = FindUp(s, out) /\ Find(s, e, out)' = FindUp(s, out)'
    BY <1>3 DEF Find
  <2> QED BY <2>1, <2>2 DEF FindUp
<1>4. CASE e.kind = "name"
  <2>1. Find(s, e, out) = FindName(s, e, out) /\ Find(s, e, out)' = FindName(s, e, out)'
    BY <1>4 DEF Find
  <2>2. Has(s, e.name) /\ FindName(s, e, out) = Reached(dirent[s].dirents[e.name], Append(out, e))
    BY <2>1, FailuresAreNoDirents DEF FindName
  <2>3. Has(s, e.name)' /\ dirent'[s].dirents[e.name] = dirent[s].dirents[e.name]
    BY <1>2, <2>2 DEF Has
  <2>4. FindName(s, e, out)' = Reached(dirent'[s].dirents[e.name], Append(out, e))
    BY <2>3 DEF FindName, Reached
  <2> QED BY <2>1, <2>2, <2>3, <2>4
<1>5. CASE e.kind = "index"
  <2> DEFINE a == dirent[s].dirents[e.name]
             j == e.index
  <2>1. Find(s, e, out) = FindInArray(s, e, out) /\ Find(s, e, out)' = FindInArray(s, e, out)'
    BY <1>5 DEF Find
  <2>2. j \in Nat /\ e.name \in Name
    BY <1>5, FinalKinds DEF Up
  <2>3. PICK i \in Nat : /\ Has(s, e.name) /\ IsArray(a) /\ i + 1 \in 1..Len(dirent[a].elems)
                         /\ e.index >= 0 => i = e.index
                         /\ FindInArray(s, e, out)
                              = Reached(dirent[a].elems[i + 1],
                                        Append(out, Indexed(e.name, i)))
    BY <1>1, <1>5, <2>1, FindInArrayResult, FailuresAreNoDirents
  <2>4. i = j
    BY <2>2, <2>3
  <2>5. a \in DOMAIN dirent /\ dirent[a].type = "array"
    BY <2>3, TablesAndArrays DEF Has, IsArray
  <2>6. /\ dirent'[a].type = "array" /\ j + 1 \in 1..Len(dirent'[a].elems)
        /\ dirent'[a].elems[j + 1] = dirent[a].elems[j + 1]
    BY <2>3, <2>4, <2>5 DEF Extended
  <2>7. Has(s, e.name)' /\ dirent'[s].dirents[e.name] = a
    BY <1>2, <2>3 DEF Has
  <2>8. FindInArray(s, e, out)'
          = Reached(dirent'[a].elems[j + 1], Append(out, Indexed(e.name, j)))
    <3>1. PICK b : b = a
      OBVIOUS
    <3>2. dirent'[b].type = "array" /\ j + 1 \in 1..Len(dirent'[b].elems)
          /\ Has(s, e.name)' /\ dirent'[s].dirents[e.name] = b
      BY <2>6, <2>7, <3>1
    <3>3. PICK n : n = Len(dirent'[b].elems)
      OBVIOUS
    <3>4. n \in Nat
      <4>1. b \in DOMAIN dirent'
        BY <2>5, <3>1 DEF Extended
      <4>2. dirent'[b].elems \in Seq(Nat)
        BY <3>2, <4>1 DEF Linked, Tree, Records, Formed, ScopeRec, ArrayRec, ProcRec, IsAlias
      <4> QED BY <3>3, <4>2
    <3>5. ~(j < 0) /\ ~(j >= n)
      BY <2>2, <3>2, <3>3, <3>4
    <3> HIDE DEF a
    <3>6. FindInArray(s, e, out)'
            = Reached(dirent'[b].elems[j + 1], Append(out, Indexed(e.name, j)))
      BY <1>5, <3>2, <3>3, <3>5 DEF FindInArray, IsArray, Reached, Indexed
    <3> QED BY <3>1, <3>6
  <2> QED BY <2>1, <2>3, <2>4, <2>6, <2>8
<1> QED BY <1>3, <1>4, <1>5, FinalKinds

FinalWalk(w) == w.p \in Seq(Final) /\ w.out \in Seq(Final)

(* Where a link is looked up from.                                         *)
LEMMA LinkWalk ==
  ASSUME NEW s, NEW link \in FinalPath, NEW fuel
  PROVE  /\ StartWalk(s, link, FALSE, fuel)
              = [s |-> s, p |-> link.elems, follow |-> FALSE, fuel |-> fuel, out |-> <<>>]
         /\ StartWalk(s, link, FALSE, fuel)' = StartWalk(s, link, FALSE, fuel)
         /\ FinalWalk(StartWalk(s, link, FALSE, fuel))
<1>1. link.abs = FALSE /\ link.elems \in Seq(Final)
  BY DEF FinalPath
<1>2. <<>> \in Seq(Final)
  OBVIOUS
<1> QED BY <1>1, <1>2 DEF StartWalk, FinalWalk

(* The equation of the walks, in one formula.                              *)
LEMMA WalkEquations ==
  Linked => \A w \in Walk :
    /\ w.p = <<>> => Walking[w] = Reached(w.s, w.out)
    /\ w.p # <<>> /\ First(w).end = "dirent" =>
         Walking[w] = GoOn(Walking, w, First(w).path, Hit(w))
BY WalkOfNothing, WalkSteps

(* What a walk of final elements led to, it leads to when more is there.   *)
LEMMA WalksPersist ==
  ASSUME Linked, Linked', Extended, NEW x \in Walk, FinalWalk(x),
         Walking[x].end = "dirent"
  PROVE  Walking'[x] = Walking[x]
<1> DEFINE Lost(w) == FinalWalk(w) /\ Walking[w].end = "dirent" /\ Walking'[w] # Walking[w]
           T == {w \in Walk : Lost(w)}
<1>1. ASSUME NEW d \in Scopes PROVE d \in Scopes'
  BY DEF Extended, Scopes, IsScope
<1>2. ASSUME NEW w \in Walk PROVE w \in Walk'
  BY <1>1 DEF Walk, Element, Name, Up, Named, Appended, Marked
<1>3. (\A w \in Walk :
         /\ w.p = <<>> => Walking[w] = Reached(w.s, w.out)
         /\ w.p # <<>> /\ First(w).end = "dirent" =>
              Walking[w] = GoOn(Walking, w, First(w).path, Hit(w)))'
  <2>1. (Linked => \A w \in Walk :
         /\ w.p = <<>> => Walking[w] = Reached(w.s, w.out)
         /\ w.p # <<>> /\ First(w).end = "dirent" =>
              Walking[w] = GoOn(Walking, w, First(w).path, Hit(w)))'
    BY WalkEquations, PTL
  <2> QED BY <2>1
<1>4. ASSUME NEW w \in T, \A v \in Walk : <<v, w>> \in Before => v \notin T
      PROVE  FALSE
  <2>0. w \in Walk /\ FinalWalk(w) /\ Walking[w].end = "dirent"
        /\ Walking'[w] # Walking[w] /\ w \in Walk'
    BY <1>2
  <2>01. ASSUME NEW v \in Walk, <<v, w>> \in Before, FinalWalk(v), Walking[v].end = "dirent"
         PROVE  Walking'[v] = Walking[v]
    BY <1>4, <2>01
  <2> HIDE DEF T
  <2>1. CASE w.p = <<>>
    <3>1. Walking[w] = Reached(w.s, w.out)
      BY <2>0, <2>1, WalkOfNothing
    <3>2. Walking'[w] = Reached(w.s, w.out)
      BY <1>3, <2>0, <2>1 DEF Reached
    <3> QED BY <2>0, <3>1, <3>2
  <2>2. CASE w.p # <<>>
    <3>1. /\ First(w).end = "dirent" /\ Hit(w).end = "dirent" /\ Hit(w) \in Result
          /\ First(w) \in Result /\ w.s \in Scopes
      BY <2>0, <2>2, WalkEnds, HitIsAResult, FirstIsAResult
    <3>2. Head(w.p) \in Final /\ Tail(w.p) \in Seq(Final) /\ w.out \in Seq(Final)
      BY <2>0, <2>2, HeadTailProperties DEF FinalWalk
    <3>3. First(w)' = First(w)
      <4>1. Find(w.s, Head(w.p), w.out).end = "dirent"
        BY <3>1 DEF First
      <4>2. PICK s \in Scopes, e \in Final, out \in Seq(Final) :
              s = w.s /\ e = Head(w.p) /\ out = w.out
        BY <3>1, <3>2
      <4>3. Find(s, e, out)' = Find(s, e, out)
        BY <4>1, <4>2, FindPersists
      <4> QED BY <4>2, <4>3 DEF First
    <3>4. Hit(w)' = Hit(w)
      <4>1. PICK found : found = First(w)
        OBVIOUS
      <4>2. found.de \in DOMAIN dirent /\ dirent'[found.de].type = dirent[found.de].type
            /\ (dirent[found.de].type = "alias" => dirent'[found.de] = dirent[found.de])
        BY <3>1, <4>1, ResultOfADirent DEF Extended
      <4>3. Follows(w, found)' <=> Follows(w, found)
        BY <4>2 DEF Follows, IsAlias
      <4>4. Hit(w) = Deref(Walking, w, found) /\ Hit(w)' = Deref(Walking, w, found)'
        BY <3>3, <4>1 DEF Hit
      <4>5. CASE ~Follows(w, found)
        BY <4>3, <4>4, <4>5 DEF Deref
      <4>6. CASE Follows(w, found)
        <5>1. w.fuel # 0
          BY <3>1, <4>4, <4>6, FailuresAreNoDirents DEF Deref
        <5>2. dirent'[found.de] = dirent[found.de] /\ dirent[found.de].link \in FinalPath
          BY <4>2, <4>6 DEF Follows, IsAlias, Linked, LinksAreFinal
        <5>3. PICK link \in FinalPath : link = dirent[found.de].link /\ link = dirent'[found.de].link
          BY <5>2
        <5>4. PICK v : v = StartWalk(w.s, link, FALSE, w.fuel - 1)
          OBVIOUS
        <5>5. v \in Walk /\ <<v, w>> \in Before /\ FinalWalk(v)
          BY <2>0, <3>1, <4>1, <4>6, <5>1, <5>3, <5>4, DerefIsBefore, LinkWalk
        <5>6. StartWalk(w.s, link, FALSE, w.fuel - 1)' = v
          BY <5>3, <5>4, LinkWalk
        <5>7. Hit(w) = Walking[v]
          BY <4>4, <4>6, <5>1, <5>3, <5>4 DEF Deref
        <5>8. Hit(w)' = Walking'[v]
          BY <4>3, <4>4, <4>6, <5>1, <5>3, <5>6 DEF Deref
        <5> QED BY <2>01, <3>1, <5>5, <5>7, <5>8
      <4> QED BY <4>5, <4>6
    <3>5. Walking'[w] = GoOn(Walking, w, First(w).path, Hit(w))'
      BY <1>3, <2>0, <2>2, <3>1, <3>3
    <3>6. CASE Len(w.p) = 1
      <4>1. Walking[w] = Reached(Hit(w).de, First(w).path)
        BY <2>0, <2>2, <3>6, WalkEnds
      <4>2. Walking'[w] = Reached(Hit(w).de, First(w).path)
        BY <3>1, <3>3, <3>4, <3>5, <3>6 DEF GoOn, Reached
      <4> QED BY <2>0, <4>1, <4>2
    <3>7. CASE Len(w.p) # 1
      <4>1. PICK v : v = Rest(w)
        OBVIOUS
      <4>2. /\ Hit(w).de \in Scopes /\ v \in Walk /\ <<v, w>> \in Before
            /\ Walking[w] = Walking[v]
        BY <2>0, <2>2, <3>7, <4>1, WalkEnds
      <4>3. FinalWalk(v)
        <5>1. v.p = Tail(w.p) /\ v.out = First(w).path
          BY <2>0, <4>1, RestIs
        <5>2. First(w).path \in Seq(Final)
          <6>1. Head(w.p) \in Element
            BY <3>2, FinalKinds
          <6> QED BY <3>1, <3>2, <6>1, FindIsFinal DEF First
        <5> QED BY <3>2, <5>1, <5>2 DEF FinalWalk
      <4>4. Walking'[v] = Walking[v]
        BY <2>0, <2>01, <4>2, <4>3
      <4>5. IsScope(Hit(w).de)'
        BY <1>1, <4>2, <3>4 DEF Scopes
      <4>6. Rest(w)' = v
        BY <3>3, <3>4, <4>1 DEF Rest
      <4>7. Walking'[w] = Walking'[v]
        BY <3>1, <3>4, <3>5, <3>7, <4>5, <4>6 DEF GoOn, Rest
      <4> QED BY <2>0, <4>2, <4>4, <4>7
    <3> QED BY <3>6, <3>7
  <2> QED BY <2>1, <2>2
<1>5. T = {}
  <2>1. T \subseteq Walk
    OBVIOUS
  <2> HIDE DEF T
  <2> QED BY <1>4, <2>1, SmallestWalk
<1> QED BY <1>5

(* AliasesPinned: what is appended to an array, added to a scope or        *)
(* bookmarked later never changes the dirent an alias stands for           *)
(* (docs/language.txt:392-395, fake_language.cc:121).                      *)
THEOREM AliasesArePinned == Spec => AliasesPinned
<1>1. ASSUME IInv, Linked, Linked', [Next]_vars,
             NEW s \in Scopes, NEW d \in DOMAIN dirent, IsAlias(d),
             AliasTarget(s, d).end = "dirent", DOMAIN dirent \subseteq DOMAIN dirent'
      PROVE  AliasTarget(s, d)' = AliasTarget(s, d)
  <2>1. Extended
    BY <1>1, StepExtends
  <2>2. dirent'[d] = dirent[d] /\ dirent[d].link \in FinalPath
    BY <1>1, <2>1 DEF Extended, IsAlias, Linked, LinksAreFinal
  <2>3. PICK link \in FinalPath : link = dirent[d].link /\ link = dirent'[d].link
    BY <2>2
  <2>4. PICK x : x = StartWalk(s, link, FALSE, MaxDirents)
    OBVIOUS
  <2>5. StartWalk(s, link, FALSE, MaxDirents)' = x /\ FinalWalk(x)
    BY <2>3, <2>4, LinkWalk
  <2>6. x \in Walk
    BY <1>1, <2>3, <2>4, StartIsAWalk, FinalPathIsAPath, MaxDirentsIsNat
  <2>7. AliasTarget(s, d) = Walking[x]
    BY <2>3, <2>4 DEF AliasTarget, WalkPath
  <2>8. AliasTarget(s, d)' = Walking'[x]
    BY <2>3, <2>5 DEF AliasTarget, WalkPath
  <2> QED BY <1>1, <2>1, <2>5, <2>6, <2>7, <2>8, WalksPersist
<1>2. IInv /\ Linked /\ (IInv /\ Linked)' /\ [Next]_vars =>
        [\A s \in Scopes, d \in DOMAIN dirent :
           /\ IsAlias(d) /\ LiesIn(d, s)
           /\ AliasTarget(s, d).end = "dirent"
           /\ DOMAIN dirent \subseteq DOMAIN dirent'
           => AliasTarget(s, d)' = AliasTarget(s, d)]_vars
  <2> SUFFICES ASSUME IInv, Linked, IInv', Linked', [Next]_vars,
                      NEW s \in Scopes, NEW d \in DOMAIN dirent, IsAlias(d),
                      AliasTarget(s, d).end = "dirent", DOMAIN dirent \subseteq DOMAIN dirent'
               PROVE  AliasTarget(s, d)' = AliasTarget(s, d)
    OBVIOUS
  <2> QED BY <1>1
<1> QED BY <1>2, LinkedIsInvariant, PTL DEF Spec, AliasesPinned

-----------------------------------------------------------------------------
(* A final element that leads from x to y, whatever led to x; and the      *)
(* paths from s to t that consist of such hops between scopes.             *)
Hop(x, e, y) ==
  \A o \in Seq(Element) : Find(x, e, o).end = "dirent" /\ Find(x, e, o).de = y

Route(q, L) ==
  /\ q \in Seq(Final) /\ L \in Seq(Scopes) /\ Len(L) = Len(q) + 1
  /\ \A i \in 1..Len(q) : Hop(L[i], q[i], L[i + 1])

Leads(s, q, t) == \E L : Route(q, L) /\ L[1] = s /\ L[Len(q) + 1] = t

LEMMA LeadsNowhere ==
  ASSUME NEW s \in Scopes
  PROVE  Leads(s, <<>>, s)
<1>1. Route(<<>>, <<s>>)
  BY DEF Route
<1>2. <<s>>[1] = s /\ Len(<<>>) + 1 = 1
  OBVIOUS
<1> QED BY <1>1, <1>2 DEF Leads

LEMMA LeadsTo ==
  ASSUME NEW s, NEW q, NEW t, Leads(s, q, t)
  PROVE  s \in Scopes /\ t \in Scopes /\ q \in Seq(Final) /\ Len(q) \in Nat
<1>1. PICK L : Route(q, L) /\ L[1] = s /\ L[Len(q) + 1] = t
  BY DEF Leads
<1>2. q \in Seq(Final) /\ Len(q) \in Nat /\ L \in Seq(Scopes) /\ Len(L) = Len(q) + 1
  BY <1>1 DEF Route
<1>3. 1 \in 1..Len(L) /\ Len(q) + 1 \in 1..Len(L)
  BY <1>2
<1> QED BY <1>1, <1>2, <1>3, ElementOfSeq

LEMMA LeadsOn ==
  ASSUME NEW s, NEW q, NEW t, Leads(s, q, t), NEW e \in Final, NEW y \in Scopes,
         Hop(t, e, y)
  PROVE  Leads(s, Append(q, e), y)
<1>1. PICK L : Route(q, L) /\ L[1] = s /\ L[Len(q) + 1] = t
  BY DEF Leads
<1> DEFINE p == Append(q, e)
           M == Append(L, y)
           n == Len(q)
<1>2. q \in Seq(Final) /\ n \in Nat /\ L \in Seq(Scopes) /\ Len(L) = n + 1
      /\ \A i \in 1..n : Hop(L[i], q[i], L[i + 1])
  BY <1>1 DEF Route
<1>3. /\ p \in Seq(Final) /\ Len(p) = n + 1 /\ p[n + 1] = e
      /\ \A i \in 1..n : p[i] = q[i]
  BY <1>2, AppendProperties
<1>4. /\ M \in Seq(Scopes) /\ Len(M) = n + 2 /\ M[n + 2] = y
      /\ \A i \in 1..(n + 1) : M[i] = L[i]
  <2>1. (n + 1) + 1 = n + 2
    BY <1>2
  <2> QED BY <1>2, <2>1, AppendProperties
<1> HIDE DEF p, M, n
<1>5. ASSUME NEW i \in 1..(n + 1) PROVE Hop(M[i], p[i], M[i + 1])
  <2>1. CASE i = n + 1
    BY <2>1, <1>1, <1>2, <1>3, <1>4 DEF n
  <2>2. CASE i # n + 1
    <3>1. i \in 1..n /\ i \in 1..(n + 1) /\ i + 1 \in 1..(n + 1)
      BY <1>2, <2>2
    <3> QED BY <1>2, <1>3, <1>4, <3>1
  <2> QED BY <2>1, <2>2
<1>6. Route(p, M)
  BY <1>2, <1>3, <1>4, <1>5 DEF Route
<1>7. M[1] = s /\ M[Len(p) + 1] = y
  BY <1>1, <1>2, <1>3, <1>4
<1> QED BY <1>6, <1>7 DEF Leads, p

LEMMA LeadsBack ==
  ASSUME NEW s, NEW q, NEW t, Leads(s, q, t), q # <<>>
  PROVE  \E u \in Scopes : Leads(s, Front(q), u) /\ Hop(u, Last(q), t)
<1>1. PICK L : Route(q, L) /\ L[1] = s /\ L[Len(q) + 1] = t
  BY DEF Leads
<1> DEFINE p == Front(q)
           M == Front(L)
           n == Len(q)
<1>2. q \in Seq(Final) /\ L \in Seq(Scopes) /\ Len(L) = n + 1
      /\ \A i \in 1..n : Hop(L[i], q[i], L[i + 1])
  BY <1>1 DEF Route
<1>3. /\ n \in Nat \ {0} /\ Last(q) = q[n] /\ p \in Seq(Final) /\ Len(p) = n - 1
      /\ \A i \in 1..(n - 1) : p[i] = q[i]
  BY <1>2, FrontAndLast
<1>4. /\ M \in Seq(Scopes) /\ Len(M) = n /\ \A i \in 1..n : M[i] = L[i]
  <2>1. L # <<>>
    BY <1>2, <1>3
  <2>2. (n + 1) - 1 = n
    BY <1>3
  <2> QED BY <1>2, <2>1, <2>2, FrontAndLast
<1> HIDE DEF p, M, n
<1>5. ASSUME NEW i \in 1..(n - 1) PROVE Hop(M[i], p[i], M[i + 1])
  <2>1. i \in 1..n /\ i + 1 \in 1..n
    BY <1>3
  <2> QED BY <1>2, <1>3, <1>4, <2>1
<1>6. Route(p, M)
  BY <1>3, <1>4, <1>5 DEF Route
<1>7. M[1] = s /\ M[Len(p) + 1] = L[n] /\ n \in 1..n /\ n \in 1..Len(L)
  BY <1>1, <1>2, <1>3, <1>4
<1>8. Leads(s, p, L[n]) /\ L[n] \in Scopes
  BY <1>2, <1>6, <1>7, ElementOfSeq DEF Leads
<1>9. Hop(L[n], Last(q), t)
  BY <1>1, <1>2, <1>3, <1>7 DEF n
<1> QED BY <1>8, <1>9 DEF p

LEMMA LeadsFrom ==
  ASSUME NEW s, NEW q, NEW t, Leads(s, q, t), q # <<>>
  PROVE  \E u \in Scopes : Hop(s, Head(q), u) /\ Leads(u, Tail(q), t)
<1>1. PICK L : Route(q, L) /\ L[1] = s /\ L[Len(q) + 1] = t
  BY DEF Leads
<1> DEFINE p == Tail(q)
           M == Tail(L)
           n == Len(q)
<1>2. q \in Seq(Final) /\ L \in Seq(Scopes) /\ Len(L) = n + 1
      /\ \A i \in 1..n : Hop(L[i], q[i], L[i + 1])
  BY <1>1 DEF Route
<1>3. n \in Nat \ {0}
  BY <1>2, EmptySeq
<1>4. /\ p \in Seq(Final) /\ Len(p) = n - 1 /\ Head(q) = q[1]
      /\ \A i \in 1..(n - 1) : p[i] = q[i + 1]
  BY <1>2, HeadTailProperties
<1>5. /\ M \in Seq(Scopes) /\ Len(M) = n /\ \A i \in 1..n : M[i] = L[i + 1]
  <2>1. L # <<>>
    BY <1>2, <1>3
  <2>2. (n + 1) - 1 = n
    BY <1>3
  <2> QED BY <1>2, <2>1, <2>2, HeadTailProperties
<1> HIDE DEF p, M, n
<1>6. ASSUME NEW i \in 1..(n - 1) PROVE Hop(M[i], p[i], M[i + 1])
  <2>1. i \in 1..n /\ i + 1 \in 1..n
    BY <1>3
  <2> QED BY <1>2, <1>4, <1>5, <2>1
<1>7. Route(p, M)
  BY <1>3, <1>4, <1>5, <1>6 DEF Route
<1>8. M[1] = L[2] /\ M[Len(p) + 1] = t /\ 2 \in 1..Len(L) /\ 1 \in 1..n
  <2>1. M[n] = L[n + 1] /\ 1 \in 1..n /\ n \in 1..n
    BY <1>3, <1>5
  <2>2. Len(p) + 1 = n
    BY <1>3, <1>4
  <2>3. M[1] = L[1 + 1]
    BY <1>5, <2>1
  <2> QED BY <1>1, <1>2, <1>3, <2>1, <2>2, <2>3 DEF n
<1>9. Leads(L[2], p, t) /\ L[2] \in Scopes
  BY <1>2, <1>7, <1>8, ElementOfSeq DEF Leads
<1>10. Hop(s, Head(q), L[2])
  <2>1. Hop(L[1], q[1], L[1 + 1])
    BY <1>2, <1>8
  <2> QED BY <1>1, <1>4, <2>1
<1> QED BY <1>9, <1>10 DEF p

LEMMA HopUp ==
  ASSUME NEW t
  PROVE  Hop(t, Up, Parent(t))
BY FinalKinds DEF Hop, Find, FindUp, Reached

(* A name or an index appends its final form, and leads where it does.     *)
LEMMA FindAppends ==
  ASSUME Linked, NEW s \in Scopes, NEW e \in Element, NEW out \in Seq(Element),
         Find(s, e, out).end = "dirent", e.kind \notin {"up", "mark"}
  PROVE  \E f \in Final \ {Up} :
           /\ Find(s, e, out).path = Append(out, f)
           /\ Hop(s, f, Find(s, e, out).de)
<1>0. \A d, q : Reached(d, q).end = "dirent" /\ Reached(d, q).de = d /\ Reached(d, q).path = q
  BY DEF Reached
<1>1. CASE e.kind = "name"
  <2>1. \A o : Find(s, e, o) = FindName(s, e, o)
    BY <1>1 DEF Find
  <2>2. Has(s, e.name)
    BY <2>1, FailuresAreNoDirents DEF FindName
  <2>3. \A o : Find(s, e, o) = Reached(dirent[s].dirents[e.name], Append(o, e))
    BY <2>1, <2>2 DEF FindName
  <2>4. e \in Final \ {Up}
    BY <1>1, FinalKinds DEF Up
  <2>5. Hop(s, e, dirent[s].dirents[e.name])
    BY <1>0, <2>3 DEF Hop
  <2>6. PICK d, q : d = dirent[s].dirents[e.name] /\ q = Append(out, e)
    OBVIOUS
  <2>7. Find(s, e, out) = Reached(d, q)
    BY <2>3, <2>6
  <2>8. Find(s, e, out).path = q /\ Find(s, e, out).de = d
    BY <1>0, <2>7
  <2> QED BY <2>4, <2>5, <2>6, <2>8
<1>2. CASE e.kind \in {"index", "append"}
  <2> DEFINE a == dirent[s].dirents[e.name]
  <2>1. \A o : Find(s, e, o) = FindInArray(s, e, o)
    BY <1>2 DEF Find
  <2>2. PICK i \in Nat :
          /\ Has(s, e.name) /\ IsArray(a) /\ e.name \in Name
          /\ i + 1 \in 1..Len(dirent[a].elems)
          /\ FindInArray(s, e, out)
               = Reached(dirent[a].elems[i + 1], Append(out, Indexed(e.name, i)))
    BY <1>2, <2>1, FindInArrayResult, FailuresAreNoDirents
  <2> DEFINE f == Indexed(e.name, i)
  <2>3. f \in Final \ {Up} /\ f.kind = "index" /\ f.name = e.name /\ f.index = i
    BY <2>2, FinalKinds DEF Indexed, Up
  <2>4. dirent[a].elems \in Seq(DOMAIN dirent)
    BY <2>2, TablesAndArrays DEF Has
  <2>5. PICK n : n = Len(dirent[a].elems)
    OBVIOUS
  <2>6. n \in Nat /\ ~(i < 0) /\ ~(i >= n)
    <3>1. n \in Nat /\ i + 1 \in 1..n
      <4>1. n \in Nat
        BY <2>4, <2>5
      <4> QED BY <2>2, <2>5, <4>1
    <3> QED BY <3>1
  <2>7. ASSUME NEW o PROVE Find(s, f, o) = Reached(dirent[a].elems[i + 1], Append(o, f))
    <3>1. Find(s, f, o) = FindInArray(s, f, o)
      BY <2>3 DEF Find
    <3> HIDE DEF f
    <3>2. FindInArray(s, f, o)
            = Reached(dirent[a].elems[i + 1], Append(o, Indexed(f.name, i)))
      BY <2>2, <2>3, <2>5, <2>6 DEF FindInArray
    <3> QED BY <2>3, <3>1, <3>2 DEF f
  <2>8. PICK d : d = dirent[a].elems[i + 1]
    OBVIOUS
  <2> HIDE DEF f
  <2>9. Hop(s, f, d)
    BY <1>0, <2>7, <2>8 DEF Hop
  <2>10. PICK q : q = Append(out, f)
    OBVIOUS
  <2>11. Find(s, e, out) = Reached(d, q)
    BY <2>1, <2>2, <2>8, <2>10 DEF f
  <2>12. Find(s, e, out).path = q /\ Find(s, e, out).de = d
    BY <1>0, <2>11
  <2> QED BY <2>3, <2>9, <2>10, <2>12
<1> QED BY <1>1, <1>2, ElementKinds

(* What a scope's tables and arrays hold lies in the scope; so ".." undoes *)
(* a name or an index that led to a scope.                                 *)
LEMMA HopLiesIn ==
  ASSUME Linked, NEW u \in Scopes, NEW e \in Final, e # Up, NEW t, Hop(u, e, t)
  PROVE  LiesIn(t, u)
<1>0. <<>> \in Seq(Element) /\ e \in Element
  BY FinalKinds
<1>1. Find(u, e, <<>>).end = "dirent" /\ Find(u, e, <<>>).de = t
  BY <1>0 DEF Hop
<1>2. u \in DOMAIN dirent /\ Holds(u) = Range(dirent[u].dirents)
  BY TablesAndArrays, HoldsOfKinds
<1>3. CASE e.kind = "name"
  <2>1. Find(u, e, <<>>) = FindName(u, e, <<>>)
    BY <1>3 DEF Find
  <2>2. Has(u, e.name) /\ t = dirent[u].dirents[e.name]
    BY <1>1, <2>1, FailuresAreNoDirents DEF FindName, Reached
  <2> QED BY <1>2, <2>2 DEF LiesIn, Has, Range
<1>4. CASE e.kind = "index"
  <2> DEFINE a == dirent[u].dirents[e.name]
  <2>1. Find(u, e, <<>>) = FindInArray(u, e, <<>>)
    BY <1>4 DEF Find
  <2>2. PICK i \in Nat :
          /\ Has(u, e.name) /\ IsArray(a) /\ i + 1 \in 1..Len(dirent[a].elems)
          /\ FindInArray(u, e, <<>>)
               = Reached(dirent[a].elems[i + 1], Append(<<>>, Indexed(e.name, i)))
    BY <1>0, <1>1, <1>4, <2>1, FindInArrayResult, FailuresAreNoDirents
  <2>3. t = dirent[a].elems[i + 1]
    BY <1>1, <2>1, <2>2 DEF Reached
  <2>4. a \in Holds(u) /\ a \in DOMAIN dirent /\ dirent[a].elems \in Seq(DOMAIN dirent)
    BY <1>2, <2>2, TablesAndArrays DEF Has, Range
  <2>5. Holds(a) = Range(dirent[a].elems)
    BY <2>2, <2>4, HoldsOfKinds
  <2>6. t \in Holds(a)
    <3>1. i + 1 \in DOMAIN dirent[a].elems
      BY <2>2, <2>4
    <3> QED BY <2>3, <2>5, <3>1 DEF Range
  <2> QED BY <2>2, <2>4, <2>6 DEF LiesIn
<1> QED BY <1>3, <1>4, FinalKinds

LEMMA LiesInOneScope ==
  ASSUME Linked, NEW t \in Scopes, NEW u \in Scopes, NEW v \in Scopes,
         LiesIn(t, u), LiesIn(t, v)
  PROVE  u = v
<1>1. PICK x \in Holds(u) : x = t \/ (IsArray(x) /\ t \in Holds(x))
  BY DEF LiesIn
<1>2. PICK y \in Holds(v) : y = t \/ (IsArray(y) /\ t \in Holds(y))
  BY DEF LiesIn
<1>3. /\ u \in DOMAIN dirent /\ v \in DOMAIN dirent
      /\ x \in DOMAIN dirent /\ y \in DOMAIN dirent
  BY <1>1, <1>2 DEF Scopes, Linked, Tree, Forest, Holdings
<1>4. \A a, b \in DOMAIN dirent : \A z : z \in Holds(a) /\ z \in Holds(b) => a = b
  BY DEF Linked, Tree, Forest, Holdings
<1>5. \A a \in {t, u, v} : ~IsArray(a)
  BY DEF Scopes, IsScope, IsArray
<1>6. x = y
  BY <1>1, <1>2, <1>3, <1>4, <1>5
<1> QED BY <1>1, <1>2, <1>3, <1>4, <1>6

LEMMA HopBack ==
  ASSUME Linked, NEW u \in Scopes, NEW e \in Final, e # Up, NEW t \in Scopes, Hop(u, e, t)
  PROVE  Parent(t) = u
<1>1. LiesIn(t, u)
  BY HopLiesIn
<1>2. t # Root
  <2>1. \A d \in DOMAIN dirent : Root \notin Holds(d)
    BY DEF Linked, Tree, Forest, Holdings
  <2>2. PICK x \in Holds(u) : x = t \/ t \in Holds(x)
    BY <1>1 DEF LiesIn
  <2>3. u \in DOMAIN dirent /\ x \in DOMAIN dirent
    BY <2>2 DEF Scopes, Linked, Tree, Forest, Holdings
  <2> QED BY <2>1, <2>2, <2>3
<1>3. dirent[t].parent \in Scopes /\ LiesIn(t, dirent[t].parent)
  BY <1>2 DEF Linked, ParentsAreScopes, Tree, ParentsHold
<1>4. dirent[t].parent = u
  BY <1>1, <1>3, LiesInOneScope
<1>5. u \in DOMAIN dirent
  BY DEF Scopes
<1> QED BY <1>4, <1>5 DEF Parent, IsRoot

(* ".." after ".." leads up a line.                                        *)
LEMMA UpsOnTop ==
  ASSUME NEW out \in Seq(Final), NEW n \in Nat
  PROVE  out \o Ups(n + 1) = Append(out \o Ups(n), Up) /\ out \o Ups(0) = out
<1>0. Up \in Final /\ n + 1 \in Nat /\ 0 \in Nat
  BY FinalKinds
<1>1. /\ Ups(n) \in Seq(Final) /\ Len(Ups(n)) = n
      /\ Ups(n + 1) \in Seq(Final) /\ Len(Ups(n + 1)) = n + 1
      /\ Ups(0) \in Seq(Final) /\ Len(Ups(0)) = 0
      /\ \A i \in 1..n : Ups(n)[i] = Up
      /\ \A i \in 1..(n + 1) : Ups(n + 1)[i] = Up
  BY <1>0, UpsAreFinal
<1>2. Ups(n + 1) = Append(Ups(n), Up)
  <2>1. /\ Append(Ups(n), Up) \in Seq(Final) /\ Len(Append(Ups(n), Up)) = n + 1
        /\ \A i \in 1..n : Append(Ups(n), Up)[i] = Up
        /\ Append(Ups(n), Up)[n + 1] = Up
    BY <1>0, <1>1, AppendProperties
  <2>2. \A i \in 1..(n + 1) : Append(Ups(n), Up)[i] = Up
    <3>1. \A i \in 1..(n + 1) : i \in 1..n \/ i = n + 1
      OBVIOUS
    <3> QED BY <2>1, <3>1
  <2> QED BY <1>1, <2>1, <2>2, SeqEqual
<1>3. out \o Append(Ups(n), Up) = Append(out \o Ups(n), Up)
  <2>1. <<Up>> \in Seq(Final) /\ out \o Ups(n) \in Seq(Final)
    BY <1>0, <1>1, ConcatProperties
  <2>2. Append(Ups(n), Up) = Ups(n) \o <<Up>>
        /\ Append(out \o Ups(n), Up) = (out \o Ups(n)) \o <<Up>>
    BY <1>0, <1>1, <2>1, AppendIsConcat
  <2>3. (out \o Ups(n)) \o <<Up>> = out \o (Ups(n) \o <<Up>>)
    <3>1. PICK a \in Seq(Final), b \in Seq(Final) : a = Ups(n) /\ b = <<Up>>
      BY <1>1, <2>1
    <3>2. (out \o a) \o b = out \o (a \o b)
      BY ConcatAssociative
    <3> QED BY <3>1, <3>2
  <2> QED BY <2>2, <2>3
<1>4. out \o Ups(0) = out
  <2>1. Ups(0) = <<>>
    BY <1>1, EmptySeq
  <2> QED BY <2>1, ConcatEmptySeq
<1> QED BY <1>2, <1>3, <1>4

LEMMA LeadsUp ==
  ASSUME Linked, NEW s, NEW out, NEW t, Leads(s, out, t), NEW q, Line(q, t),
         NEW k \in 1..Len(q)
  PROVE  Leads(s, out \o Ups(k - 1), q[k])
<1>1. out \in Seq(Final) /\ Len(q) \in Nat /\ q[1] = t
      /\ \A i \in 1..Len(q) : q[i] \in Scopes
  BY LeadsTo, LineEnds DEF Line
<1> DEFINE T == {n \in Nat : n + 1 <= Len(q) /\ ~Leads(s, out \o Ups(n), q[n + 1])}
<1>2. T = {}
  <2> SUFFICES ASSUME T # {} PROVE FALSE
    OBVIOUS
  <2>1. PICK n \in T : \A i \in T : n <= i
    <3>1. T \subseteq Nat
      OBVIOUS
    <3> HIDE DEF T
    <3> QED BY <3>1, LeastNumber
  <2>2. n \in Nat /\ n + 1 <= Len(q) /\ ~Leads(s, out \o Ups(n), q[n + 1])
    OBVIOUS
  <2>3. CASE n = 0
    <3>1. out \o Ups(0) = out
      BY <1>1, UpsOnTop
    <3> HIDE DEF T
    <3>2. n + 1 = 1
      BY <2>3
    <3>3. q[n + 1] = t
      BY <1>1, <3>2
    <3>4. out \o Ups(n) = out
      BY <2>3, <3>1
    <3> QED BY <2>2, <3>3, <3>4
  <2>4. CASE n # 0
    <3>1. PICK m \in Nat : n = m + 1 /\ m < n /\ m + 1 <= Len(q)
      <4>1. n - 1 \in Nat /\ n = (n - 1) + 1 /\ n - 1 < n /\ (n - 1) + 1 <= Len(q)
        BY <1>1, <2>2, <2>4
      <4> QED BY <4>1
    <3>2. Leads(s, out \o Ups(m), q[m + 1])
      <4>1. m \notin T
        <5> HIDE DEF T
        <5>1. ~(n <= m)
          BY <2>2, <3>1
        <5> QED BY <2>1, <5>1
      <4> QED BY <3>1, <4>1
    <3>3. q[n + 1] = Parent(q[m + 1]) /\ q[n + 1] \in Scopes
      <4>1. m + 1 \in 1..(Len(q) - 1) /\ n + 1 \in 1..Len(q)
        BY <1>1, <2>2, <3>1
      <4> QED BY <1>1, <3>1, <4>1 DEF Line
    <3>4. Hop(q[m + 1], Up, q[n + 1])
      BY <3>3, HopUp
    <3>5. Leads(s, Append(out \o Ups(m), Up), q[n + 1])
      BY <3>2, <3>3, <3>4, FinalKinds, LeadsOn
    <3>6. out \o Ups(n) = Append(out \o Ups(m), Up)
      BY <1>1, <3>1, UpsOnTop
    <3> QED BY <2>2, <3>5, <3>6
  <2> QED BY <2>3, <2>4
<1>3. k - 1 \in Nat /\ (k - 1) + 1 <= Len(q) /\ (k - 1) + 1 = k
  BY <1>1
<1> QED BY <1>2, <1>3

(* While a walk goes through scopes alone, out_path leads where it is.     *)
LEMMA FindLeads ==
  ASSUME Linked, NEW s, NEW out, NEW t, Leads(s, out, t), NEW e \in Element,
         Find(t, e, out).end = "dirent", Find(t, e, out).de \in Scopes
  PROVE  Leads(s, Find(t, e, out).path, Find(t, e, out).de)
<1>1. t \in Scopes /\ out \in Seq(Final) /\ out \in Seq(Element)
  BY LeadsTo, FinalKinds
<1>0. \A d, q : Reached(d, q).de = d /\ Reached(d, q).path = q
  BY DEF Reached
<1>2. CASE e.kind = "up"
  <2>1. Find(t, e, out) = FindUp(t, out)
    BY <1>2 DEF Find
  <2>2. CASE out # <<>> /\ Last(out) # Up
    <3>1. Find(t, e, out).de = Parent(t) /\ Find(t, e, out).path = Front(out)
      BY <1>0, <2>1, <2>2 DEF FindUp
    <3>2. PICK u \in Scopes : Leads(s, Front(out), u) /\ Hop(u, Last(out), t)
      BY <2>2, LeadsBack
    <3>3. Last(out) \in Final
      BY <1>1, <2>2, FrontAndLast
    <3>4. Parent(t) = u
      BY <1>1, <2>2, <3>2, <3>3, HopBack
    <3> QED BY <3>1, <3>2, <3>4
  <2>3. CASE ~(out # <<>> /\ Last(out) # Up)
    <3>1. Find(t, e, out).de = Parent(t) /\ Find(t, e, out).path = Append(out, Up)
      <4>1. PICK q, d : q = Append(out, Up) /\ d = Parent(t)
        OBVIOUS
      <4>2. Find(t, e, out) = Reached(d, q)
        BY <2>1, <2>3, <4>1 DEF FindUp
      <4>3. Find(t, e, out).de = d /\ Find(t, e, out).path = q
        BY <1>0, <4>2
      <4> QED BY <4>1, <4>3
    <3>2. Parent(t) \in Scopes /\ Up \in Final
      BY <1>1, ParentIsScope, FinalKinds
    <3> QED BY <3>1, <3>2, HopUp, LeadsOn
  <2> QED BY <2>2, <2>3
<1>3. CASE e.kind = "mark"
  <2>1. Find(t, e, out) = FindMark(t, e.name, out)
    BY <1>3 DEF Find
  <2>2. PICK i \in 1..Len(Climb(t)) :
          FindMark(t, e.name, out) = Reached(Climb(t)[i], out \o Ups(i - 1))
    BY <1>1, <2>1, FindMarkResult, FailuresAreNoDirents
  <2>3. Leads(s, out \o Ups(i - 1), Climb(t)[i])
    BY <1>1, ClimbIsALine, LeadsUp
  <2>4. PICK q : q = out \o Ups(i - 1)
    OBVIOUS
  <2>5. Find(t, e, out) = Reached(Climb(t)[i], q)
    BY <2>1, <2>2, <2>4
  <2>6. Find(t, e, out).de = Climb(t)[i] /\ Find(t, e, out).path = q
    BY <1>0, <2>5
  <2> QED BY <2>3, <2>4, <2>6
<1>4. CASE e.kind \notin {"up", "mark"}
  <2>1. PICK f \in Final : /\ Find(t, e, out).path = Append(out, f)
                           /\ Hop(t, f, Find(t, e, out).de)
    BY <1>1, <1>4, FindAppends
  <2> QED BY <2>1, LeadsOn
<1> QED BY <1>2, <1>3, <1>4

-----------------------------------------------------------------------------
(* The two ways in which a walk goes on that follows no alias.             *)
LEMMA ScopesAreNotFollowed ==
  ASSUME NEW w, NEW found, found.de \in Scopes
  PROVE  ~Follows(w, found)
BY DEF Follows, Scopes, IsScope, IsAlias

LEMMA WalkThroughScope ==
  ASSUME Linked, NEW w \in Walk, w.p # <<>>, Len(w.p) # 1, First(w).end = "dirent",
         First(w).de \in Scopes
  PROVE  /\ Hit(w) = First(w) /\ Walking[w] = Walking[Rest(w)]
         /\ Rest(w) \in Walk /\ <<Rest(w), w>> \in Before
<1>1. Hit(w) = First(w)
  BY ScopesAreNotFollowed, HitIsAResult
<1>2. Walking[w] = GoOn(Walking, w, First(w).path, Hit(w))
  BY WalkSteps
<1>3. IsScope(First(w).de)
  BY DEF Scopes
<1>4. Walking[w] = Walking[Rest(w)]
  BY <1>1, <1>2, <1>3 DEF GoOn, Rest
<1>5. First(w).path \in Seq(Element)
  BY FirstIsAResult, ResultOfADirent
<1>6. Rest(w) \in Walk /\ <<Rest(w), w>> \in Before
  BY <1>1, <1>5, NextIsBefore DEF Rest
<1> QED BY <1>1, <1>4, <1>6

LEMMA WalkOfOne ==
  ASSUME Linked, NEW w \in Walk, w.p # <<>>, Len(w.p) = 1, First(w).end = "dirent"
  PROVE  /\ Hit(w).end = "dirent" => Walking[w] = Reached(Hit(w).de, First(w).path)
         /\ Hit(w).end # "dirent" => Walking[w] = Hit(w)
BY WalkSteps DEF GoOn

(* A walk along a route comes to the route's end, with the last element    *)
(* still to go ...                                                         *)
At(w, t, e, o) == [w EXCEPT !.s = t, !.p = <<e>>, !.out = o]

LEMMA WalkAlong ==
  ASSUME Linked, NEW x \in Walk, NEW r, NEW f \in Final, NEW t,
         x.p = Append(r, f), Leads(x.s, r, t)
  PROVE  \E o \in Seq(Element) : Walking[x] = Walking[At(x, t, f, o)]
<1> DEFINE Arrives(w, q, e, u) == \E o \in Seq(Element) : Walking[w] = Walking[At(w, u, e, o)]
           Bad(w, q, e, u) == /\ w.p = Append(q, e) /\ Leads(w.s, q, u) /\ e \in Final
                              /\ ~Arrives(w, q, e, u)
           T == {w \in Walk : \E q, e, u : Bad(w, q, e, u)}
<1>1. ASSUME NEW w \in T, \A v \in Walk : <<v, w>> \in Before => v \notin T
      PROVE  FALSE
  <2>0. w \in Walk
    OBVIOUS
  <2>1. PICK q, e, u : Bad(w, q, e, u)
    OBVIOUS
  <2>2. w.p = Append(q, e) /\ Leads(w.s, q, u) /\ e \in Final /\ ~Arrives(w, q, e, u)
    BY <2>1
  <2>3. ASSUME NEW v \in Walk, <<v, w>> \in Before, NEW q1, v.p = Append(q1, e),
               Leads(v.s, q1, u)
        PROVE  Arrives(v, q1, e, u)
    <3> HIDE DEF Arrives
    <3>1. v \notin T
      BY <1>1, <2>3
    <3> QED BY <2>2, <2>3, <3>1
  <2> HIDE DEF T, Bad
  <2>4. q \in Seq(Final) /\ u \in Scopes /\ w.s \in Scopes /\ w.out \in Seq(Element)
        /\ w.p \in Seq(Element)
    BY <2>0, <2>2, LeadsTo DEF Walk
  <2>5. CASE q = <<>>
    <3>1. w.p = <<e>>
      BY <2>2, <2>5
    <3>2. u = w.s
      <4>1. PICK L : L[1] = w.s /\ L[Len(q) + 1] = u
        BY <2>2 DEF Leads
      <4> QED BY <2>5, <4>1
    <3>3. At(w, u, e, w.out) = w
      BY <2>0, <3>1, <3>2 DEF At, Walk
    <3> QED BY <2>2, <2>4, <3>3
  <2>6. CASE q # <<>>
    <3>1. PICK y \in Scopes : Hop(w.s, Head(q), y) /\ Leads(y, Tail(q), u)
      BY <2>2, <2>6, LeadsFrom
    <3>2. w.p # <<>> /\ Head(w.p) = Head(q) /\ Tail(w.p) = Append(Tail(q), e)
          /\ Len(w.p) # 1
      <4>1. Len(q) \in Nat \ {0} /\ Len(w.p) = Len(q) + 1 /\ w.p # <<>>
        BY <2>2, <2>4, <2>6, AppendProperties, EmptySeq
      <4>2. Head(w.p) = Head(q) /\ Tail(w.p) = Append(Tail(q), e)
        BY <2>2, <2>4, <2>6, HeadTailAppend
      <4> QED BY <4>1, <4>2
    <3>3. First(w).end = "dirent" /\ First(w).de = y
      BY <2>4, <3>1, <3>2 DEF First, Hop
    <3> DEFINE v == Rest(w)
    <3>4. /\ Hit(w) = First(w) /\ Walking[w] = Walking[v]
          /\ v \in Walk /\ <<v, w>> \in Before
      BY <2>0, <3>2, <3>3, WalkThroughScope
    <3>5. v.p = Append(Tail(q), e) /\ v.s = y
      BY <2>0, <3>2, <3>3, <3>4, RestIs
    <3>6. \A o : At(v, u, e, o) = At(w, u, e, o)
      BY <2>0 DEF Rest, At, Walk
    <3> HIDE DEF v
    <3>7. Arrives(v, Tail(q), e, u)
      <4> HIDE DEF Arrives
      <4> QED BY <2>3, <3>1, <3>4, <3>5
    <3> QED BY <2>2, <3>4, <3>6, <3>7
  <2> QED BY <2>5, <2>6
<1>2. T = {}
  <2>1. T \subseteq Walk
    OBVIOUS
  <2> HIDE DEF T
  <2> QED BY <1>1, <2>1, SmallestWalk
<1>3. Arrives(x, r, f, t)
  <2> HIDE DEF Arrives
  <2> QED BY <1>2
<1> QED BY <1>3

LEMMA WalksAlong ==
  Linked => \A y \in Walk : \A e \in Final : \A q, t :
    y.p = Append(q, e) /\ Leads(y.s, q, t)
      => \E o \in Seq(Element) : Walking[y] = Walking[At(y, t, e, o)]
<1> SUFFICES ASSUME Linked
             PROVE  \A y \in Walk : \A e \in Final : \A q, t :
                      y.p = Append(q, e) /\ Leads(y.s, q, t)
                        => \E o \in Seq(Element) : Walking[y] = Walking[At(y, t, e, o)]
  OBVIOUS
<1> TAKE y \in Walk
<1> TAKE e \in Final
<1> TAKE q, t
<1> HAVE y.p = Append(q, e) /\ Leads(y.s, q, t)
<1> QED BY WalkAlong

LEMMA AtIsAWalk ==
  ASSUME NEW w \in Walk, NEW t \in Scopes, NEW e \in Final, NEW o \in Seq(Element)
  PROVE  /\ At(w, t, e, o) \in Walk /\ At(w, t, e, o).p = <<e>>
         /\ At(w, t, e, o).p # <<>> /\ Len(At(w, t, e, o).p) = 1
         /\ At(w, t, e, o).s = t /\ At(w, t, e, o).follow = w.follow
         /\ At(w, t, e, o).fuel = w.fuel
         /\ First(At(w, t, e, o)) = Find(t, e, o)
<1> DEFINE q == <<e>>
<1>1. q \in Seq(Element) /\ Len(q) = 1 /\ Head(q) = e /\ q # <<>>
  BY FinalKinds
<1>2. At(w, t, e, o) = [w EXCEPT !.s = t, !.p = q, !.out = o]
  BY DEF At
<1> HIDE DEF q
<1>3. /\ At(w, t, e, o) \in Walk /\ At(w, t, e, o).p = q
      /\ At(w, t, e, o).s = t /\ At(w, t, e, o).follow = w.follow
      /\ At(w, t, e, o).fuel = w.fuel /\ At(w, t, e, o).out = o
  BY <1>1, <1>2 DEF Walk
<1>4. First(At(w, t, e, o)) = Find(t, e, o)
  BY <1>1, <1>3 DEF First
<1> QED BY <1>1, <1>3, <1>4 DEF q

(* ... and, when that leads to a scope too, ends there.                    *)
LEMMA WalkEndsWithRoute ==
  ASSUME Linked, NEW x \in Walk, NEW t, x.p # <<>>, Leads(x.s, x.p, t)
  PROVE  Walking[x].end = "dirent" /\ Walking[x].de = t
<1>1. x.p \in Seq(Final) /\ t \in Scopes
  BY LeadsTo
<1>2. PICK u \in Scopes : Leads(x.s, Front(x.p), u) /\ Hop(u, Last(x.p), t)
  BY LeadsBack
<1> DEFINE e == Last(x.p)
<1>3. e \in Final /\ x.p = Append(Front(x.p), e)
  <2>1. PICK q \in Seq(Final), f \in Final : x.p = Append(q, f)
    BY <1>1, SequenceEmptyOrAppend
  <2>2. /\ Len(q) \in Nat /\ Len(x.p) = Len(q) + 1 /\ x.p[Len(q) + 1] = f
        /\ \A i \in 1..Len(q) : x.p[i] = q[i]
    BY <2>1, AppendProperties
  <2>3. /\ Last(x.p) = x.p[Len(x.p)] /\ Front(x.p) \in Seq(Final)
        /\ Len(Front(x.p)) = Len(x.p) - 1
        /\ \A i \in 1..(Len(x.p) - 1) : Front(x.p)[i] = x.p[i]
    BY <1>1, FrontAndLast
  <2>4. Len(x.p) - 1 = Len(q)
    BY <2>2
  <2>5. Front(x.p) = q
    BY <2>2, <2>3, <2>4, SeqEqual
  <2>6. e = f
    BY <2>2, <2>3
  <2> QED BY <2>1, <2>5, <2>6
<1> HIDE DEF e
<1>4. PICK o \in Seq(Element) : Walking[x] = Walking[At(x, u, e, o)]
  <2>1. PICK q : q = Front(x.p)
    OBVIOUS
  <2>2. x.p = Append(q, e) /\ Leads(x.s, q, u) /\ e \in Final
    BY <1>2, <1>3, <2>1
  <2>3. \A f \in Final : \A r, y : x.p = Append(r, f) /\ Leads(x.s, r, y)
          => \E o \in Seq(Element) : Walking[x] = Walking[At(x, y, f, o)]
    BY WalksAlong
  <2> QED BY <2>2, <2>3, Zenon
<1> DEFINE w == At(x, u, e, o)
<1>5. /\ w \in Walk /\ w.p # <<>> /\ Len(w.p) = 1 /\ First(w) = Find(u, e, o)
  BY <1>2, <1>3, AtIsAWalk
<1>6. First(w).end = "dirent" /\ First(w).de = t
  BY <1>2, <1>5 DEF Hop, e
<1> HIDE DEF w
<1>7. Hit(w) = First(w)
  BY <1>1, <1>5, <1>6, ScopesAreNotFollowed, HitIsAResult
<1>8. Walking[w] = Reached(t, First(w).path)
  BY <1>5, <1>6, <1>7, WalkOfOne
<1> QED BY <1>4, <1>8 DEF w, Reached

(* A walk that steps on no alias before its end.                           *)
Prefix(x, n) == [x EXCEPT !.p = SubSeq(@, 1, n), !.follow = FALSE]

Plain(x) ==
  \A n \in 1..(Len(x.p) - 1) :
    ~ (Walking[Prefix(x, n)].end = "dirent" /\ IsAlias(Walking[Prefix(x, n)].de))

LEMMA PrefixIsAWalk ==
  ASSUME NEW x \in Walk, NEW n \in 1..Len(x.p)
  PROVE  /\ Prefix(x, n) \in Walk /\ Prefix(x, n).p = SubSeq(x.p, 1, n)
         /\ Prefix(x, n).p # <<>> /\ Len(Prefix(x, n).p) = n
         /\ Head(Prefix(x, n).p) = Head(x.p)
         /\ Tail(Prefix(x, n).p) = SubSeq(x.p, 2, n)
         /\ Prefix(x, n).follow = FALSE /\ First(Prefix(x, n)) = First(x)
<1> DEFINE q == SubSeq(x.p, 1, n)
<1>1. x.p \in Seq(Element) /\ Len(x.p) \in Nat /\ 1 \in 1..Len(x.p) /\ n \in 1..Len(x.p)
  BY DEF Walk
<1>2. q \in Seq(Element) /\ Len(q) = n
  <2>1. \A i \in 1..n : x.p[i] \in Element
    BY <1>1
  <2>2. 1 <= n /\ n - 1 + 1 = n
    BY <1>1
  <2> QED BY <1>1, <2>1, <2>2, SubSeqProperties
<1>3. Head(q) = x.p[1] /\ Tail(q) = SubSeq(x.p, 2, n)
  <2>1. n \in 1..Len(x.p) /\ 1 + 1 = 2
    BY <1>1
  <2> QED BY <1>1, <2>1, HeadTailOfSubSeq
<1>4. Head(x.p) = x.p[1] /\ q # <<>>
  BY <1>1, <1>2
<1>5. Prefix(x, n) = [x EXCEPT !.p = q, !.follow = FALSE]
  BY DEF Prefix, Walk
<1> HIDE DEF q
<1>6. /\ Prefix(x, n) \in Walk /\ Prefix(x, n).p = q /\ Prefix(x, n).follow = FALSE
      /\ Prefix(x, n).s = x.s /\ Prefix(x, n).out = x.out
  BY <1>2, <1>5 DEF Walk
<1>7. First(Prefix(x, n)) = First(x)
  BY <1>3, <1>4, <1>6 DEF First
<1> QED BY <1>2, <1>3, <1>4, <1>6, <1>7 DEF q

LEMMA PlainFirst ==
  ASSUME Linked, NEW x \in Walk, x.p # <<>>, Len(x.p) # 1, Plain(x),
         First(x).end = "dirent"
  PROVE  ~IsAlias(First(x).de)
<1>1. x.p \in Seq(Element) /\ Len(x.p) \in Nat \ {0}
  BY FirstIsAResult
<1>2. 1 \in 1..Len(x.p) /\ 1 \in 1..(Len(x.p) - 1)
  <2>1. PICK n \in Nat \ {0} : n = Len(x.p)
    BY <1>1
  <2>2. n # 1
    BY <2>1
  <2>3. 1 \in 1..n /\ 1 \in 1..(n - 1)
    BY <2>2
  <2> QED BY <2>1, <2>3
<1> DEFINE v == Prefix(x, 1)
<1>3. v \in Walk /\ v.p # <<>> /\ Len(v.p) = 1 /\ v.follow = FALSE /\ First(v) = First(x)
  BY <1>2, PrefixIsAWalk
<1> HIDE DEF v
<1>4. ~Follows(v, First(v))
  BY <1>3 DEF Follows
<1>5. Walking[v] = Reached(First(x).de, First(x).path)
  BY <1>3, <1>4, HitIsAResult, WalkOfOne
<1> QED BY <1>2, <1>5 DEF Plain, v, Reached

LEMMA PlainRest ==
  ASSUME Linked, NEW x \in Walk, x.p # <<>>, Len(x.p) # 1, Plain(x),
         First(x).end = "dirent", First(x).de \in Scopes
  PROVE  Plain(Rest(x))
<1>1. x.p \in Seq(Element) /\ Len(x.p) \in Nat \ {0}
  BY FirstIsAResult
<1>2. Hit(x) = First(x) /\ Rest(x) \in Walk
  BY WalkThroughScope
<1>3. Rest(x).p = Tail(x.p) /\ Tail(x.p) \in Seq(Element) /\ Len(Tail(x.p)) = Len(x.p) - 1
  BY <1>1, RestIs, HeadTailProperties
<1> SUFFICES ASSUME NEW n \in 1..(Len(Rest(x).p) - 1)
             PROVE  Walking[Prefix(Rest(x), n)] = Walking[Prefix(x, n + 1)]
  <2>1. \A n \in 1..(Len(Rest(x).p) - 1) : n + 1 \in 1..(Len(x.p) - 1)
    BY <1>1, <1>3
  <2> QED BY <2>1 DEF Plain
<1>4. n \in Nat /\ n + 1 \in 1..Len(x.p) /\ n + 1 # 1 /\ n \in 1..Len(Tail(x.p))
  BY <1>1, <1>3
<1> DEFINE v == Prefix(x, n + 1)
<1>5. /\ v \in Walk /\ v.p # <<>> /\ Len(v.p) = n + 1 /\ First(v) = First(x)
      /\ Tail(v.p) = SubSeq(x.p, 2, n + 1)
  BY <1>4, PrefixIsAWalk
<1>6. SubSeq(x.p, 2, n + 1) = SubSeq(Tail(x.p), 1, n)
  <2> DEFINE a == SubSeq(x.p, 2, n + 1)
             b == SubSeq(Tail(x.p), 1, n)
  <2>1. /\ a \in Seq(Element) /\ Len(a) = n
        /\ \A i \in 1..n : a[i] = x.p[i + 1]
    <3>1. \A i \in 2..(n + 1) : x.p[i] \in Element
      BY <1>1, <1>4
    <3>2. 2 <= n + 1 /\ (n + 1) - 2 + 1 = n /\ \A i \in 1..n : 2 + i - 1 = i + 1
      BY <1>4
    <3>3. /\ a \in Seq(Element) /\ Len(a) = (n + 1) - 2 + 1
          /\ \A i \in 1..((n + 1) - 2 + 1) : a[i] = x.p[2 + i - 1]
      BY <1>4, <3>1, <3>2, SubSeqProperties
    <3> HIDE DEF a
    <3> QED BY <3>2, <3>3
  <2>2. /\ b \in Seq(Element) /\ Len(b) = n
        /\ \A i \in 1..n : b[i] = Tail(x.p)[i]
    <3>1. \A i \in 1..n : Tail(x.p)[i] \in Element
      BY <1>3, <1>4
    <3>2. 1 <= n /\ n - 1 + 1 = n /\ \A i \in 1..n : 1 + i - 1 = i
      BY <1>4
    <3>3. /\ b \in Seq(Element) /\ Len(b) = n - 1 + 1
          /\ \A i \in 1..(n - 1 + 1) : b[i] = Tail(x.p)[1 + i - 1]
      BY <1>4, <3>1, <3>2, SubSeqProperties
    <3> HIDE DEF b
    <3> QED BY <3>2, <3>3
  <2>3. \A i \in 1..n : Tail(x.p)[i] = x.p[i + 1]
    <3>1. \A i \in 1..Len(Tail(x.p)) : Tail(x.p)[i] = x.p[i + 1]
      BY <1>1, HeadTailProperties
    <3> QED BY <1>3, <1>4, <3>1
  <2> HIDE DEF a, b
  <2>4. \A i \in 1..n : a[i] = b[i]
    BY <2>1, <2>2, <2>3
  <2>5. a = b
    BY <2>1, <2>2, <2>4, SeqEqual
  <2> QED BY <2>5 DEF a, b
<1>7. Hit(v) = First(v) /\ Walking[v] = Walking[Rest(v)]
  <2> HIDE DEF v
  <2>1. Len(v.p) # 1
    BY <1>4, <1>5
  <2> QED BY <1>5, <2>1, WalkThroughScope
<1>8. Rest(v) = Prefix(Rest(x), n)
  <2> DEFINE q == SubSeq(Tail(x.p), 1, n)
             d == First(x).de
             o == First(x).path
  <2>1. Rest(v) = [v EXCEPT !.s = d, !.p = q, !.out = o]
    <3> HIDE DEF v
    <3> QED BY <1>5, <1>6, <1>7 DEF Rest, Walk
  <2>2. Prefix(Rest(x), n) = [Rest(x) EXCEPT !.p = q, !.follow = FALSE]
    BY <1>2, <1>3 DEF Prefix, Walk
  <2>3. Rest(x) = [x EXCEPT !.s = d, !.p = Tail(@), !.out = o]
    BY <1>2 DEF Rest
  <2>4. v = [x EXCEPT !.p = v.p, !.follow = FALSE]
    BY <1>5 DEF Prefix, Walk
  <2> HIDE DEF v, q, d, o
  <2>5. Rest(v) = [x EXCEPT !.s = d, !.p = q, !.out = o, !.follow = FALSE]
    BY <2>1, <2>4 DEF Walk
  <2>6. Prefix(Rest(x), n) = [x EXCEPT !.s = d, !.p = q, !.out = o, !.follow = FALSE]
    BY <2>2, <2>3 DEF Walk
  <2> QED BY <2>5, <2>6
<1> QED BY <1>7, <1>8

(* The walk of a canonical path from s, as resolve_path() would start it.  *)
Again(s, r) == [s |-> s, p |-> r, follow |-> TRUE, out |-> <<>>, fuel |-> MaxDirents]

LEMMA AgainIsAWalk ==
  ASSUME NEW s \in Scopes, NEW r \in Seq(Element)
  PROVE  /\ Again(s, r) \in Walk /\ Again(s, r).s = s /\ Again(s, r).p = r
         /\ Again(s, r).follow = TRUE /\ Again(s, r).fuel = MaxDirents
<1>1. MaxDirents \in Nat /\ TRUE \in BOOLEAN
  BY MaxDirentsIsNat
<1>2. PICK o \in Seq(Element) : o = <<>>
  BY EmptySeq
<1>3. Again(s, r) = [s |-> s, p |-> r, follow |-> TRUE, out |-> o, fuel |-> MaxDirents]
  BY <1>2 DEF Again
<1> QED BY <1>1, <1>3 DEF Walk

(* Two last elements that lead to the same dirent, from the same scope,    *)
(* lead to the same alias and so to the same end.                          *)
LEMMA SameHit ==
  ASSUME Linked, NEW x \in Walk, NEW y \in Walk, x.p # <<>>, y.p # <<>>,
         x.s = y.s, x.follow = y.follow, x.fuel = y.fuel, Len(x.p) = Len(y.p),
         First(x).end = "dirent", First(y).end = "dirent", First(x).de = First(y).de
  PROVE  Hit(x).end = "dirent" => Hit(y).end = "dirent" /\ Hit(y).de = Hit(x).de
<1>1. Follows(x, First(x)) <=> Follows(y, First(y))
  BY DEF Follows
<1>2. CASE Follows(x, First(x))
  BY <1>1, <1>2 DEF Hit, Deref
<1>3. CASE ~Follows(x, First(x))
  BY <1>1, <1>3, HitIsAResult
<1> QED BY <1>2, <1>3

(* Along a walk that crosses no alias, what out_path spells leads on to    *)
(* the dirent the walk ends with.                                          *)
OnCourse(s, x) ==
  /\ x.follow = TRUE /\ x.fuel = MaxDirents
  /\ Leads(s, x.out, x.s) /\ Plain(x)
  /\ Walking[x].end = "dirent" /\ Walking[x].path # <<>>

SameEnd(s, x) ==
  LET v == Again(s, Walking[x].path)
  IN Walking[v].end = "dirent" /\ Walking[v].de = Walking[x].de

LEMMA RouteIsSameEnd ==
  ASSUME Linked, NEW s, NEW x \in Walk, OnCourse(s, x),
         Leads(s, Walking[x].path, Walking[x].de)
  PROVE  SameEnd(s, x)
<1> DEFINE r == Walking[x].path
           v == Again(s, r)
<1>1. r # <<>> /\ s \in Scopes
  BY LeadsTo DEF OnCourse
<1>2. r \in Seq(Element)
  BY WalkEquation, ResultOfADirent DEF OnCourse
<1>3. v \in Walk /\ v.s = s /\ v.p = r
  BY <1>1, <1>2, AgainIsAWalk
<1> HIDE DEF v
<1>4. Walking[v].end = "dirent" /\ Walking[v].de = Walking[x].de
  BY <1>1, <1>3, WalkEndsWithRoute
<1> QED BY <1>4 DEF SameEnd, v

LEMMA LastIsSameEnd ==
  ASSUME Linked, NEW s, NEW x \in Walk, OnCourse(s, x), x.p # <<>>, Len(x.p) = 1,
         First(x).de \notin Scopes
  PROVE  SameEnd(s, x)
<1>1. First(x).end = "dirent" /\ Hit(x).end = "dirent"
      /\ Walking[x] = Reached(Hit(x).de, First(x).path)
  BY WalkEnds DEF OnCourse
<1>2. /\ Head(x.p) \in Element /\ x.s \in Scopes /\ x.out \in Seq(Element)
      /\ s \in Scopes /\ Leads(s, x.out, x.s)
  BY FirstIsAResult, LeadsTo DEF OnCourse
<1>3. Head(x.p).kind \notin {"up", "mark"}
  <2>0. \A d, q : Reached(d, q).de = d
    BY DEF Reached
  <2>1. ASSUME Head(x.p).kind = "up"
        PROVE  FALSE
    <3>1. First(x) = FindUp(x.s, x.out)
      BY <2>1 DEF First, Find
    <3>2. First(x).de = Parent(x.s)
      BY <2>0, <3>1 DEF FindUp
    <3> QED BY <1>2, <3>2, ParentIsScope
  <2>2. ASSUME Head(x.p).kind = "mark"
        PROVE  FALSE
    <3>1. First(x) = FindMark(x.s, Head(x.p).name, x.out)
      BY <2>2 DEF First, Find
    <3>2. PICK i \in 1..Len(Climb(x.s)) :
            First(x) = Reached(Climb(x.s)[i], x.out \o Ups(i - 1))
      BY <1>1, <1>2, <3>1, FindMarkResult, FailuresAreNoDirents
    <3>3. Climb(x.s)[i] \in Scopes
      BY <1>2, ClimbIsALine, LineEnds
    <3>4. First(x).de = Climb(x.s)[i]
      BY <2>0, <3>2
    <3> QED BY <3>3, <3>4
  <2> QED BY <2>1, <2>2
<1>4. PICK f \in Final : /\ First(x).path = Append(x.out, f)
                         /\ Hop(x.s, f, First(x).de)
  BY <1>1, <1>2, <1>3, FindAppends DEF First
<1> DEFINE r == Walking[x].path
           v == Again(s, r)
<1>5. r = Append(x.out, f)
  <2>1. PICK q : q = First(x).path
    OBVIOUS
  <2>2. Walking[x] = Reached(Hit(x).de, q)
    BY <1>1, <2>1
  <2>3. r = q
    BY <2>2 DEF Reached
  <2> QED BY <1>4, <2>1, <2>3
<1>6. r \in Seq(Element)
  BY WalkEquation, ResultOfADirent DEF OnCourse
<1>7. /\ v \in Walk /\ v.s = s /\ v.p = r
      /\ v.follow = TRUE /\ v.fuel = MaxDirents
  <2>1. PICK q : q = r
    OBVIOUS
  <2>2. q \in Seq(Element)
    BY <1>6, <2>1
  <2>3. /\ Again(s, q) \in Walk /\ Again(s, q).s = s /\ Again(s, q).p = q
        /\ Again(s, q).follow = TRUE /\ Again(s, q).fuel = MaxDirents
    <3>1. s \in Scopes
      BY <1>2
    <3> HIDE DEF r, v
    <3> QED BY <2>2, <3>1, AgainIsAWalk
  <2> QED BY <2>1, <2>3
<1> HIDE DEF v
<1>8. PICK o \in Seq(Element) : Walking[v] = Walking[At(v, x.s, f, o)]
  <2>1. PICK q, t : q = x.out /\ t = x.s
    OBVIOUS
  <2>2. v.p = Append(q, f) /\ Leads(v.s, q, t)
    BY <1>2, <1>5, <1>7, <2>1
  <2>3. \E o \in Seq(Element) : Walking[v] = Walking[At(v, t, f, o)]
    <3>1. \A e \in Final : \A a, b : v.p = Append(a, e) /\ Leads(v.s, a, b)
            => \E o \in Seq(Element) : Walking[v] = Walking[At(v, b, e, o)]
      BY <1>7, WalksAlong
    <3> QED BY <1>4, <2>2, <3>1, Zenon
  <2> QED BY <2>1, <2>3
<1> DEFINE w == At(v, x.s, f, o)
<1>9. /\ w \in Walk /\ w.p # <<>> /\ Len(w.p) = 1 /\ w.s = x.s
      /\ w.follow = TRUE /\ w.fuel = MaxDirents /\ First(w) = Find(x.s, f, o)
  BY <1>2, <1>7, AtIsAWalk
<1>10. First(w).end = "dirent" /\ First(w).de = First(x).de
  BY <1>4, <1>9 DEF Hop
<1> HIDE DEF w
<1>11. Hit(w).end = "dirent" /\ Hit(w).de = Hit(x).de
  <2>1. x.follow = w.follow /\ x.fuel = w.fuel /\ Len(x.p) = Len(w.p) /\ x.s = w.s
    BY <1>9 DEF OnCourse
  <2> QED BY <1>1, <1>9, <1>10, <2>1, SameHit
<1>12. Walking[w] = Reached(Hit(x).de, First(w).path)
  BY <1>9, <1>10, <1>11, WalkOfOne
<1>13. Walking[v].end = "dirent" /\ Walking[v].de = Walking[x].de
  BY <1>1, <1>8, <1>12 DEF w, Reached
<1> QED BY <1>13 DEF SameEnd, v

LEMMA KeepsMeaning ==
  ASSUME Linked, NEW s, NEW x \in Walk, OnCourse(s, x)
  PROVE  SameEnd(s, x)
<1> DEFINE T == {w \in Walk : OnCourse(s, w) /\ ~SameEnd(s, w)}
<1>1. ASSUME NEW w \in T, \A v \in Walk : <<v, w>> \in Before => v \notin T
      PROVE  FALSE
  <2>1. w \in Walk /\ OnCourse(s, w) /\ ~SameEnd(s, w)
    OBVIOUS
  <2>2. \A v \in Walk : <<v, w>> \in Before /\ OnCourse(s, v) => SameEnd(s, v)
    BY <1>1
  <2> HIDE DEF T
  <2>3. w.p # <<>>
    <3>1. ASSUME w.p = <<>>
          PROVE  FALSE
      <4>1. Walking[w] = Reached(w.s, w.out)
        BY <2>1, <3>1, WalkOfNothing
      <4>2. Walking[w].de = w.s /\ Walking[w].path = w.out
        BY <4>1 DEF Reached
      <4>3. Leads(s, Walking[w].path, Walking[w].de)
        BY <2>1, <4>2 DEF OnCourse
      <4> QED BY <2>1, <4>3, RouteIsSameEnd
    <3> QED BY <3>1
  <2>4. First(w).end = "dirent" /\ Hit(w).end = "dirent"
    BY <2>1, <2>3, WalkEnds DEF OnCourse
  <2>5. First(w).de \in Scopes
    <3>1. ASSUME First(w).de \notin Scopes
          PROVE  FALSE
      <4>1. CASE Len(w.p) = 1
        BY <2>1, <2>3, <3>1, <4>1, LastIsSameEnd
      <4>2. CASE Len(w.p) # 1
        <5>1. ~IsAlias(First(w).de)
          BY <2>1, <2>3, <2>4, <4>2, PlainFirst DEF OnCourse
        <5>2. ~Follows(w, First(w))
          BY <5>1 DEF Follows
        <5>3. Hit(w) = First(w)
          BY <2>1, <2>3, <5>2, HitIsAResult
        <5>4. Hit(w).de \in Scopes
          BY <2>1, <2>3, <4>2, WalkEnds DEF OnCourse
        <5> QED BY <3>1, <5>3, <5>4
      <4> QED BY <4>1, <4>2
    <3> QED BY <3>1
  <2>6. Leads(s, First(w).path, First(w).de)
    <3>1. Leads(s, w.out, w.s) /\ Head(w.p) \in Element
      BY <2>1, <2>3, FirstIsAResult DEF OnCourse
    <3> QED BY <2>4, <2>5, <3>1, FindLeads DEF First
  <2>7. CASE Len(w.p) = 1
    <3>1. Hit(w) = First(w)
      BY <2>1, <2>3, <2>5, ScopesAreNotFollowed, HitIsAResult
    <3>2. Walking[w] = Reached(First(w).de, First(w).path)
      BY <2>1, <2>3, <2>4, <2>7, <3>1, WalkOfOne
    <3>3. Walking[w].de = First(w).de /\ Walking[w].path = First(w).path
      BY <3>2 DEF Reached
    <3> QED BY <2>1, <2>6, <3>3, RouteIsSameEnd
  <2>8. CASE Len(w.p) # 1
    <3> DEFINE v == Rest(w)
    <3>1. /\ Hit(w) = First(w) /\ Walking[w] = Walking[v]
          /\ v \in Walk /\ <<v, w>> \in Before
      BY <2>1, <2>3, <2>4, <2>5, <2>8, WalkThroughScope
    <3>2. Plain(v)
      BY <2>1, <2>3, <2>4, <2>5, <2>8, PlainRest DEF OnCourse
    <3>3. v.s = First(w).de /\ v.out = First(w).path /\ v.follow = w.follow
          /\ v.fuel = w.fuel
      BY <2>1, <3>1, RestIs
    <3> HIDE DEF v
    <3>4. OnCourse(s, v)
      BY <2>1, <2>6, <3>1, <3>2, <3>3 DEF OnCourse
    <3>5. SameEnd(s, v)
      BY <2>2, <3>1, <3>4
    <3> QED BY <2>1, <3>1, <3>5 DEF SameEnd
  <2> QED BY <2>7, <2>8
<1>2. T = {}
  <2>1. T \subseteq Walk
    OBVIOUS
  <2> HIDE DEF T
  <2> QED BY <1>1, <2>1, SmallestWalk
<1> QED BY <1>2

(* A walk that starts in s is on course from the start: an absolute path   *)
(* puts the ".." into out_path that lead to the root.                      *)
LEMMA StartLeads ==
  ASSUME Linked, NEW s \in Scopes, NEW p \in AnyPath, NEW follow, NEW fuel
  PROVE  LET x == StartWalk(s, p, follow, fuel) IN Leads(s, x.out, x.s)
<1> DEFINE line == Climb(s)
           n == Len(line)
           x == StartWalk(s, p, follow, fuel)
<1>1. Line(line, s)
  BY ClimbIsALine
<1>2. n \in Nat \ {0} /\ Last(line) = line[n] /\ n - 1 \in Nat /\ n \in 1..n
  BY <1>1, LineEnds
<1>3. Leads(s, <<>>, s)
  BY LeadsNowhere
<1>4. CASE p.abs
  <2>1. x.s = line[n] /\ x.out = Ups(n - 1)
    BY <1>2, <1>4 DEF StartWalk
  <2>2. <<>> \o Ups(n - 1) = Ups(n - 1)
    BY <1>2, UpsAreFinal, ConcatEmptySeq
  <2> HIDE DEF line, n, x
  <2>3. PICK o : o = <<>>
    OBVIOUS
  <2>4. Leads(s, o \o Ups(n - 1), line[n])
    <3>1. n \in 1..Len(line)
      BY <1>2 DEF n
    <3>2. Leads(s, o, s)
      BY <1>3, <2>3
    <3> QED BY <1>1, <3>1, <3>2, LeadsUp
  <2> QED BY <2>1, <2>2, <2>3, <2>4 DEF x
<1>5. CASE ~p.abs
  <2>1. x.s = s /\ x.out = <<>>
    BY <1>5 DEF StartWalk
  <2> QED BY <1>3, <2>1
<1> QED BY <1>4, <1>5

(* The prefixes of a path are looked up by the prefixes of its walk.       *)
LEMMA StartIsPlain ==
  ASSUME Linked, NEW s \in Scopes, NEW p \in AnyPath, ~CrossesAlias(s, p)
  PROVE  Plain(StartWalk(s, p, TRUE, MaxDirents))
<1> DEFINE x == StartWalk(s, p, TRUE, MaxDirents)
           From(n) == [p EXCEPT !.elems = SubSeq(@, 1, n)]
<1>1. x.p = p.elems
  BY DEF StartWalk
<1>2. ASSUME NEW n PROVE Walking[Prefix(x, n)] = WalkPath(s, From(n), FALSE)
  <2>1. From(n).abs = p.abs /\ From(n).elems = SubSeq(p.elems, 1, n)
    BY DEF AnyPath
  <2> HIDE DEF From
  <2>2. PICK t, o : \A q, follow : (q.abs <=> p.abs) =>
          StartWalk(s, q, follow, MaxDirents)
            = [s |-> t, p |-> q.elems, follow |-> follow, fuel |-> MaxDirents, out |-> o]
    <3>1. CASE p.abs
      BY <3>1 DEF StartWalk
    <3>2. CASE ~p.abs
      BY <3>2 DEF StartWalk
    <3> QED BY <3>1, <3>2
  <2>3. x = [s |-> t, p |-> p.elems, follow |-> TRUE, fuel |-> MaxDirents, out |-> o]
    BY <2>2
  <2>4. PICK q : q = SubSeq(p.elems, 1, n)
    OBVIOUS
  <2>5. StartWalk(s, From(n), FALSE, MaxDirents)
          = [s |-> t, p |-> q, follow |-> FALSE, fuel |-> MaxDirents, out |-> o]
    BY <2>1, <2>2, <2>4
  <2> HIDE DEF x
  <2>6. Prefix(x, n) = [x EXCEPT !.p = q, !.follow = FALSE]
    BY <1>1, <2>4 DEF Prefix
  <2>7. Prefix(x, n) = StartWalk(s, From(n), FALSE, MaxDirents)
    BY <2>3, <2>5, <2>6
  <2> QED BY <2>7 DEF WalkPath
<1>3. \A n \in 1..(Len(p.elems) - 1) :
        ~(WalkPath(s, From(n), FALSE).end = "dirent"
          /\ IsAlias(WalkPath(s, From(n), FALSE).de))
  BY DEF CrossesAlias
<1> HIDE DEF x, From
<1>4. Plain(x)
  BY <1>1, <1>2, <1>3 DEF Plain
<1> QED BY <1>4 DEF x

(* THEOREM: from the same scope, the path that resolve_path() returns      *)
(* leads to the dirent the path it was given led to, whatever parents,     *)
(* bookmarks and arrays lie between, as long as no alias is crossed        *)
(* (scope.cc:155-157).                                                     *)
THEOREM ResolvedPathsKeepTheirMeaning == Spec => []ResolveKeepsMeaning
<1>1. ASSUME Linked PROVE ResolveKeepsMeaning
  <2> SUFFICES ASSUME NEW s \in Scopes, NEW p \in Path,
                      WalkPath(s, p, TRUE).end = "dirent",
                      IsInitialized(ResolvePath(s, p)), ~CrossesAlias(s, p)
               PROVE  LET again == WalkPath(s, ResolvePath(s, p), TRUE)
                      IN again.end = "dirent" /\ again.de = WalkPath(s, p, TRUE).de
    BY DEF ResolveKeepsMeaning
  <2> DEFINE x == StartWalk(s, p, TRUE, MaxDirents)
             r == Walking[x].path
  <2>1. p \in AnyPath
    BY PathsAssumption DEF AnyPath
  <2>2. x \in Walk
    BY <1>1, <2>1, StartIsAWalk, MaxDirentsIsNat
  <2>3. Walking[x] = WalkPath(s, p, TRUE)
    BY DEF WalkPath
  <2>4. ResolvePath(s, p) = [abs |-> FALSE, elems |-> r]
    BY <2>3 DEF ResolvePath
  <2>5. r # <<>>
    <3>1. PICK q : q = ResolvePath(s, p)
      OBVIOUS
    <3> HIDE DEF r
    <3>2. q.abs = FALSE /\ q.elems = r
      BY <2>4, <3>1
    <3>3. q.abs \/ q.elems # <<>>
      BY <3>1 DEF IsInitialized
    <3> QED BY <3>2, <3>3
  <2>6. WalkPath(s, ResolvePath(s, p), TRUE) = Walking[Again(s, r)]
    <3> HIDE DEF r
    <3>1. StartWalk(s, [abs |-> FALSE, elems |-> r], TRUE, MaxDirents) = Again(s, r)
      BY DEF StartWalk, Again
    <3> QED BY <2>4, <3>1 DEF WalkPath
  <2>7. x.follow = TRUE /\ x.fuel = MaxDirents
    BY DEF StartWalk
  <2>8. Leads(s, x.out, x.s) /\ Plain(x)
    BY <1>1, <2>1, StartLeads, StartIsPlain
  <2> HIDE DEF x
  <2>9. OnCourse(s, x)
    BY <2>3, <2>5, <2>7, <2>8 DEF OnCourse
  <2>10. SameEnd(s, x)
    BY <1>1, <2>2, <2>9, KeepsMeaning
  <2> QED BY <2>3, <2>6, <2>10 DEF SameEnd
<1> QED BY <1>1, LinkedIsInvariant, PTL
=============================================================================
