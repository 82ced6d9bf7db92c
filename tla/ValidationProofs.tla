--------------------------- MODULE ValidationProofs ---------------------------
(***************************************************************************)
(* The invariants of Validation, for any files of well-formed statements,  *)
(* any values and any nesting of types.                                    *)
(***************************************************************************)
EXTENDS Validation, FiniteSetTheorems, SequenceTheorems, WellFoundedInduction, TLAPS

-----------------------------------------------------------------------------
(***************************************************************************)
(* Recursive functions: a recursion on what comes before, in an order in   *)
(* which every set has a first member, has a solution, so that the         *)
(* function it defines has the values it says.                             *)
(***************************************************************************)
(* A set of numbers has a least member.                                    *)
LEMMA LeastNumber ==
  ASSUME NEW U, U \subseteq Nat, U # {}
  PROVE  \E m \in U : \A k \in U : m <= k
<1> DEFINE before == OpToRel(<, Nat)
<1>1. \E m \in U : \A k \in U : ~ (<<k, m>> \in before)
  BY NatLessThanWellFounded, WFMin
<1>2. \A k, m \in Nat : <<k, m>> \in before <=> k < m
  BY DEF OpToRel
<1> HIDE DEF before
<1>3. PICK m \in U : \A k \in U : ~ (<<k, m>> \in before)
  BY <1>1
<1>4. ASSUME NEW k \in U PROVE m <= k
  <2>1. k \in Nat /\ m \in Nat /\ ~ (<<k, m>> \in before)
    BY <1>3
  <2>2. ~ (k < m)
    BY <1>2, <2>1
  <2> QED BY <2>1, <2>2
<1> QED BY <1>4

(* L relates what comes before to what comes after, and every set has a    *)
(* first member.                                                           *)
Ordered(W, L) ==
  \A U \in SUBSET W : U # {} => \E m \in U : \A k \in U : <<k, m>> \notin L

(* G gives a function's value at w from its values before w.               *)
Local(G, W, R, L) ==
  /\ G \in [[W -> R] -> [W -> R]]
  /\ \A f, g \in [W -> R], w \in W :
       (\A v \in W : <<v, w>> \in L => f[v] = g[v]) => G[f][w] = G[g][w]

(* f solves the equation on a set that contains what comes before its      *)
(* members.                                                                *)
Solves(f, S, G, W, R, L) ==
  /\ f \in [W -> R] /\ S \subseteq W
  /\ \A w \in S : f[w] = G[f][w]
  /\ \A w \in S, v \in W : <<v, w>> \in L => v \in S

(* Two solutions agree where both are solutions.                           *)
LEMMA SolutionsAgree ==
  ASSUME NEW W, NEW R, NEW L, NEW G, Ordered(W, L), Local(G, W, R, L),
         NEW f, NEW g, NEW S, NEW U,
         Solves(f, S, G, W, R, L), Solves(g, U, G, W, R, L)
  PROVE  \A w \in S \cap U : f[w] = g[w]
<1> DEFINE D == {w \in S \cap U : f[w] # g[w]}
<1> SUFFICES ASSUME D # {} PROVE FALSE
  OBVIOUS
<1>1. D \in SUBSET W
  BY DEF Solves
<1>2. PICK w \in D : \A k \in D : <<k, w>> \notin L
  BY <1>1 DEF Ordered
<1>3. ASSUME NEW v \in W, <<v, w>> \in L PROVE f[v] = g[v]
  <2>1. v \in S /\ v \in U
    BY <1>3 DEF Solves
  <2> QED BY <1>2, <1>3, <2>1
<1>4. G[f][w] = G[g][w]
  BY <1>1, <1>3 DEF Local, Solves
<1> QED BY <1>4 DEF Solves

(* The recursion has a solution everywhere.                                *)
LEMMA RecursionHasSolution ==
  ASSUME NEW W, NEW R, NEW L, NEW G, Ordered(W, L), Local(G, W, R, L), R # {}
  PROVE  \E f \in [W -> R] : f = G[f]
<1> DEFINE Sol(f, S) == Solves(f, S, G, W, R, L)
           H == {w \in W : \E f, S : Sol(f, S) /\ w \in S}
           r0 == CHOOSE r \in R : TRUE
           Given(w) == CHOOSE f : \E S : Sol(f, S) /\ w \in S
           h == [w \in W |-> IF w \in H THEN Given(w)[w] ELSE r0]
<1>1. ASSUME NEW f, NEW S, Sol(f, S), NEW w \in S PROVE w \in H /\ h[w] = f[w]
  <2>1. w \in H
    BY <1>1 DEF Solves
  <2>2. PICK U : Sol(Given(w), U) /\ w \in U
    BY <1>1
  <2>3. Given(w)[w] = f[w]
    <3> HIDE DEF Given
    <3> QED BY <1>1, <2>2, SolutionsAgree
  <2> QED BY <2>1, <2>3
<1>2. h \in [W -> R]
  <2>1. r0 \in R
    OBVIOUS
  <2>2. ASSUME NEW w \in H PROVE Given(w)[w] \in R
    <3>1. PICK f, S : Sol(f, S) /\ w \in S
      OBVIOUS
    <3>2. h[w] = f[w]
      <4> HIDE DEF h, H, Sol
      <4> QED BY <1>1, <3>1
    <3>3. f[w] \in R
      BY <3>1 DEF Solves
    <3>4. h[w] = Given(w)[w]
      <4> HIDE DEF Given
      <4> QED OBVIOUS
    <3> QED BY <3>2, <3>3, <3>4
  <2> HIDE DEF H, Given, r0
  <2> QED BY <2>1, <2>2
<1>3. Sol(h, H)
  <2>1. ASSUME NEW w \in H
        PROVE  h[w] = G[h][w] /\ \A v \in W : <<v, w>> \in L => v \in H
    <3>1. PICK f, S : Sol(f, S) /\ w \in S
      OBVIOUS
    <3> HIDE DEF h, H, Sol
    <3>2. \A v \in S : v \in H /\ h[v] = f[v]
      BY <1>1, <3>1
    <3>3. \A v \in W : <<v, w>> \in L => v \in S
      BY <3>1 DEF Sol, Solves
    <3>4. f \in [W -> R] /\ w \in W /\ f[w] = G[f][w]
      BY <3>1 DEF Sol, Solves
    <3>5. G[f][w] = G[h][w]
      BY <1>2, <3>2, <3>3, <3>4 DEF Local
    <3> QED BY <3>1, <3>2, <3>3, <3>4, <3>5
  <2>2. H \subseteq W
    OBVIOUS
  <2> HIDE DEF h, H
  <2> QED BY <1>2, <2>1, <2>2 DEF Solves
<1> HIDE DEF h, H
<1>4. H = W
  <2> SUFFICES ASSUME W \ H # {} PROVE FALSE
    BY DEF H
  <2>1. PICK m \in W \ H : \A k \in W \ H : <<k, m>> \notin L
    BY DEF Ordered
  <2> DEFINE f == [h EXCEPT ![m] = G[h][m]]
             S == H \cup {m}
  <2>2. f \in [W -> R] /\ f[m] = G[h][m] /\ \A v \in H : f[v] = h[v]
    BY <1>2, <1>3, <2>1 DEF Local, Solves
  <2>3. \A v \in W : <<v, m>> \in L => v \in H
    BY <2>1
  <2>4. ASSUME NEW w \in S
        PROVE  f[w] = G[f][w] /\ \A v \in W : <<v, w>> \in L => v \in S
    <3>1. \A v \in W : <<v, w>> \in L => v \in H
      BY <1>3, <2>3 DEF Solves
    <3> HIDE DEF f
    <3>2. \A v \in W : <<v, w>> \in L => f[v] = h[v]
      BY <2>2, <3>1
    <3>3. G[f][w] = G[h][w]
      BY <1>2, <1>3, <2>1, <2>2, <3>2 DEF Local, Solves
    <3>4. w \in H => h[w] = G[h][w]
      BY <1>3 DEF Solves
    <3> QED BY <2>2, <3>1, <3>3, <3>4
  <2>5. Sol(f, S)
    <3>1. S \subseteq W
      BY <1>3, <2>1 DEF Solves
    <3> HIDE DEF f, S
    <3> QED BY <2>2, <2>4, <3>1 DEF Solves
  <2>6. m \in H
    <3>1. m \in S
      OBVIOUS
    <3> HIDE DEF f, S
    <3> QED BY <1>1, <2>5, <3>1
  <2> QED BY <2>1, <2>6
<1>5. \A w \in W : h[w] = G[h][w]
  BY <1>3, <1>4 DEF Solves
<1>6. h = G[h]
  BY <1>2, <1>5 DEF Local
<1> QED BY <1>2, <1>6


-----------------------------------------------------------------------------
(* Types that are nested one deeper than those of S.                       *)
Around(S) == [primitive : Primitive, constness : {0, CONST, LITERAL}, arguments : Seq(S)]
Flat      == [primitive : Primitive, constness : {0, CONST, LITERAL}, arguments : {<<>>}]

(* f has the types of every depth up to n.                                 *)
UpTo(f, n) ==
  /\ f[0] = Flat
  /\ \A k \in 0..n : k # 0 => f[k] = Around(f[k - 1])

LEMMA UpToAgree ==
  ASSUME NEW f, NEW g, NEW n \in Nat, NEW m \in Nat, UpTo(f, n), UpTo(g, m), NEW k \in 0..n, k <= m
  PROVE  f[k] = g[k]
<1> DEFINE D == {i \in 0..n : i <= m /\ f[i] # g[i]}
<1> SUFFICES ASSUME D # {} PROVE FALSE
  OBVIOUS
<1>1. D \subseteq Nat
  OBVIOUS
<1>2. PICK i \in D : \A j \in D : i <= j
  BY <1>1, LeastNumber
<1>3. i # 0
  BY DEF UpTo
<1>4. i - 1 \in 0..n /\ i - 1 <= m /\ i - 1 \notin D
  <2>1. i \in Nat /\ i # 0 /\ i <= n /\ i <= m
    BY <1>3
  <2>2. i - 1 \in D => i <= i - 1
    BY <1>2
  <2> HIDE DEF D
  <2> QED BY <2>1, <2>2
<1>5. f[i - 1] = g[i - 1]
  BY <1>4
<1>6. i \in 0..n /\ i \in 0..m /\ f[i] # g[i]
  BY <1>2
<1>7. f[i] = Around(f[i - 1]) /\ g[i] = Around(g[i - 1])
  BY <1>3, <1>6 DEF UpTo
<1> QED BY <1>5, <1>6, <1>7

LEMMA UpToExists ==
  ASSUME NEW n \in Nat
  PROVE  \E f : UpTo(f, n)
<1> DEFINE D == {i \in Nat : ~ \E f : UpTo(f, i)}
<1> SUFFICES ASSUME D # {} PROVE FALSE
  OBVIOUS
<1>1. PICK i \in D : \A j \in D : i <= j
  BY LeastNumber
<1>2. i \in Nat /\ ~ \E f : UpTo(f, i)
  BY <1>1
<1>3. CASE i = 0
  <2>1. UpTo([k \in {0} |-> Flat], 0)
    BY DEF UpTo
  <2> QED BY <1>2, <1>3, <2>1
<1>4. CASE i # 0
  <2>1. i - 1 \in Nat /\ i - 1 \notin D
    <3>1. i - 1 \in D => i <= i - 1
      BY <1>1
    <3> HIDE DEF D
    <3> QED BY <1>2, <1>4, <3>1
  <2>2. PICK f : UpTo(f, i - 1)
    BY <2>1
  <2> DEFINE g == [k \in Nat |-> IF k = i THEN Around(f[i - 1]) ELSE f[k]]
  <2>3. \A k \in Nat : g[k] = IF k = i THEN Around(f[i - 1]) ELSE f[k]
    OBVIOUS
  <2> HIDE DEF g
  <2>4. g[0] = Flat
    BY <1>4, <2>2, <2>3 DEF UpTo
  <2>5. ASSUME NEW k \in 0..i, k # 0 PROVE g[k] = Around(g[k - 1])
    <3>1. k - 1 \in Nat /\ k - 1 # i /\ g[k - 1] = f[k - 1]
      BY <1>2, <2>3, <2>5
    <3>2. CASE k = i
      BY <2>3, <3>1, <3>2
    <3>3. CASE k # i
      <4>1. k \in 0..(i - 1)
        BY <1>2, <3>3
      <4>2. f[k] = Around(f[k - 1])
        BY <2>2, <2>5, <4>1 DEF UpTo
      <4> QED BY <2>3, <3>1, <3>3, <4>2
    <3> QED BY <3>2, <3>3
  <2>6. UpTo(g, i)
    BY <2>4, <2>5 DEF UpTo
  <2> QED BY <1>2, <2>6
<1> QED BY <1>3, <1>4

(* The recursion of Nested has the solution it says.                       *)
LEMMA NestedIs ==
  /\ Nested[0] = Flat
  /\ \A n \in Nat : Nested[n + 1] = Around(Nested[n])
<1> DEFINE Eq(g) == g = [n \in Nat |->
                           [primitive : Primitive, constness : {0, CONST, LITERAL},
                            arguments : IF n = 0 THEN {<<>>} ELSE Seq(g[n - 1])]]
           Sol(n) == CHOOSE f : UpTo(f, n)
           h == [n \in Nat |-> Sol(n)[n]]
<1>1. \A n \in Nat : UpTo(Sol(n), n)
  BY UpToExists
<1> HIDE DEF Sol
<1>2. h[0] = Flat
  BY <1>1 DEF UpTo
<1>3. ASSUME NEW n \in Nat, n # 0 PROVE h[n] = Around(h[n - 1])
  <2>1. n - 1 \in Nat /\ n - 1 \in 0..n /\ n - 1 \in 0..(n - 1) /\ n \in 0..n
    BY <1>3
  <2>2. Sol(n)[n] = Around(Sol(n)[n - 1])
    BY <1>1, <1>3, <2>1 DEF UpTo
  <2>3. Sol(n)[n - 1] = Sol(n - 1)[n - 1]
    BY <1>1, <2>1, UpToAgree
  <2> QED BY <2>1, <2>2, <2>3
<1>4. h = [n \in Nat |-> h[n]]
  OBVIOUS
<1> HIDE DEF h
<1>5. ASSUME NEW n \in Nat
      PROVE  h[n] = [primitive : Primitive, constness : {0, CONST, LITERAL},
                     arguments : IF n = 0 THEN {<<>>} ELSE Seq(h[n - 1])]
  BY <1>2, <1>3 DEF Flat, Around
<1>6. Eq(h)
  BY <1>4, <1>5, Zenon
<1>7. Nested = CHOOSE g : Eq(g)
  BY DEF Nested
<1> HIDE DEF Eq
<1>8. Eq(Nested)
  BY <1>6, <1>7
<1>9. \A n \in Nat : Nested[n] = [primitive : Primitive, constness : {0, CONST, LITERAL},
                                  arguments : IF n = 0 THEN {<<>>} ELSE Seq(Nested[n - 1])]
  BY <1>8 DEF Eq
<1>10. Nested[0] = Flat
  BY <1>9 DEF Flat
<1>11. ASSUME NEW n \in Nat PROVE Nested[n + 1] = Around(Nested[n])
  <2>1. n + 1 \in Nat /\ n + 1 # 0 /\ (n + 1) - 1 = n
    OBVIOUS
  <2>2. Nested[n + 1] = [primitive : Primitive, constness : {0, CONST, LITERAL},
                         arguments : Seq(Nested[(n + 1) - 1])]
    BY <1>9, <2>1
  <2> QED BY <2>1, <2>2 DEF Around
<1> QED BY <1>10, <1>11

(* What can be nested n deep can be nested deeper.                         *)
LEMMA NestedGrows ==
  ASSUME NEW n \in Nat
  PROVE  Nested[n] \subseteq Nested[n + 1]
<1> DEFINE D == {i \in Nat : ~ (Nested[i] \subseteq Nested[i + 1])}
<1> SUFFICES ASSUME D # {} PROVE FALSE
  OBVIOUS
<1>1. PICK i \in D : \A j \in D : i <= j
  BY LeastNumber
<1>2. i \in Nat /\ ~ (Nested[i] \subseteq Nested[i + 1])
  BY <1>1
<1>3. CASE i = 0
  <2>1. Nested[0] = Flat /\ Nested[0 + 1] = Around(Nested[0])
    BY NestedIs
  <2>2. <<>> \in Seq(Nested[0])
    OBVIOUS
  <2>3. Flat \subseteq Around(Nested[0])
    BY <2>2 DEF Flat, Around
  <2> QED BY <1>2, <1>3, <2>1, <2>3
<1>4. CASE i # 0
  <2>1. i - 1 \in Nat /\ i - 1 \notin D
    <3>1. i - 1 \in D => i <= i - 1
      BY <1>1
    <3> HIDE DEF D
    <3> QED BY <1>2, <1>4, <3>1
  <2>2. Nested[i - 1] \subseteq Nested[(i - 1) + 1]
    BY <2>1
  <2>3. (i - 1) + 1 = i
    BY <1>2
  <2>4. Nested[i] = Around(Nested[i - 1]) /\ Nested[i + 1] = Around(Nested[i])
    BY <1>2, <2>1, <2>3, NestedIs
  <2>5. Seq(Nested[i - 1]) \subseteq Seq(Nested[i])
    BY <2>2, <2>3
  <2>6. Around(Nested[i - 1]) \subseteq Around(Nested[i])
    BY <2>5 DEF Around
  <2> QED BY <1>2, <2>4, <2>6
<1> QED BY <1>3, <1>4

LEMMA NestedIsMonotone ==
  ASSUME NEW n \in Nat, NEW m \in Nat, n <= m
  PROVE  Nested[n] \subseteq Nested[m]
<1> DEFINE D == {i \in Nat : n <= i /\ ~ (Nested[n] \subseteq Nested[i])}
<1> SUFFICES ASSUME D # {} PROVE FALSE
  OBVIOUS
<1>1. PICK i \in D : \A j \in D : i <= j
  BY LeastNumber
<1>2. i \in Nat /\ n <= i /\ i # n /\ ~ (Nested[n] \subseteq Nested[i])
  BY <1>1
<1>3. i - 1 \in Nat /\ n <= i - 1 /\ (i - 1) + 1 = i
  BY <1>2
<1>4. i - 1 \notin D
  <2>1. i - 1 \in D => i <= i - 1
    BY <1>1
  <2> HIDE DEF D
  <2> QED BY <1>2, <1>3, <2>1
<1>5. Nested[n] \subseteq Nested[i - 1]
  BY <1>3, <1>4
<1>6. Nested[i - 1] \subseteq Nested[i]
  BY <1>3, NestedGrows
<1> QED BY <1>2, <1>5, <1>6

(* The types that can be members of a type.                                *)
Member == Nested[MaxNesting - 1]

LEMMA AnyTypeIs ==
  /\ AnyType = Around(Member) /\ Member \subseteq AnyType /\ Flat \subseteq Member
  /\ \A t \in AnyType : /\ t.primitive \in Primitive /\ t.constness \in {0, CONST, LITERAL}
                        /\ t.arguments \in Seq(Member) /\ t.arguments \in Seq(AnyType)
<1>1. MaxNesting - 1 \in Nat /\ (MaxNesting - 1) + 1 = MaxNesting /\ MaxNesting \in Nat
  BY NestingAssumption
<1>2. AnyType = Around(Member)
  BY <1>1, NestedIs DEF AnyType, Member
<1>3. Member \subseteq AnyType
  BY <1>1, NestedIsMonotone DEF AnyType, Member
<1>4. Flat \subseteq Member
  <2>1. Nested[0] \subseteq Nested[MaxNesting - 1]
    BY <1>1, NestedIsMonotone
  <2> QED BY <2>1, NestedIs DEF Member
<1> HIDE DEF AnyType, Member
<1>5. ASSUME NEW t \in AnyType
      PROVE  /\ t.primitive \in Primitive /\ t.constness \in {0, CONST, LITERAL}
             /\ t.arguments \in Seq(Member) /\ t.arguments \in Seq(AnyType)
  <2>1. /\ t.primitive \in Primitive /\ t.constness \in {0, CONST, LITERAL}
        /\ t.arguments \in Seq(Member)
    BY <1>2 DEF Around
  <2>2. Seq(Member) \subseteq Seq(AnyType)
    BY <1>3
  <2> QED BY <2>1, <2>2
<1> QED BY <1>2, <1>3, <1>4, <1>5

(* How deep a type is nested: the depth of its arguments is less.          *)
Rank(t) == CHOOSE n \in Nat : t \in Nested[n] /\ \A m \in Nat : t \in Nested[m] => n <= m

LEMMA RankIs ==
  ASSUME NEW t \in AnyType
  PROVE  /\ Rank(t) \in Nat /\ t \in Nested[Rank(t)]
         /\ \A m \in Nat : t \in Nested[m] => Rank(t) <= m
<1> DEFINE U == {n \in Nat : t \in Nested[n]}
<1>1. MaxNesting \in U
  BY NestingAssumption DEF AnyType
<1>2. PICK n \in U : \A m \in U : n <= m
  BY <1>1, LeastNumber
<1>3. n \in Nat /\ t \in Nested[n] /\ \A m \in Nat : t \in Nested[m] => n <= m
  BY <1>2
<1> QED BY <1>3 DEF Rank

LEMMA ArgumentsRankLess ==
  ASSUME NEW t \in AnyType, NEW i \in DOMAIN t.arguments
  PROVE  t.arguments[i] \in AnyType /\ Rank(t.arguments[i]) < Rank(t)
<1> DEFINE r == Rank(t)
           a == t.arguments[i]
<1>1. r \in Nat /\ t \in Nested[r]
  BY RankIs
<1>2. t.arguments \in Seq(AnyType) /\ a \in AnyType
  BY AnyTypeIs
<1> HIDE DEF r
<1>3. r # 0
  <2> SUFFICES ASSUME r = 0 PROVE FALSE
    OBVIOUS
  <2>1. t \in Flat
    BY <1>1, NestedIs
  <2> QED BY <2>1 DEF Flat
<1>4. r - 1 \in Nat /\ (r - 1) + 1 = r
  BY <1>1, <1>3
<1>5. t \in Around(Nested[r - 1])
  BY <1>1, <1>4, NestedIs
<1>6. t.arguments \in Seq(Nested[r - 1])
  BY <1>5 DEF Around
<1>7. a \in Nested[r - 1]
  BY <1>6
<1>8. Rank(a) \in Nat /\ Rank(a) <= r - 1
  BY <1>2, <1>4, <1>7, RankIs
<1> QED BY <1>1, <1>2, <1>8 DEF r

(* Ranks order types, and whatever has a type first, for recursion.        *)
Lower      == {st \in AnyType \X AnyType : Rank(st[1]) < Rank(st[2])}
LowerOf(W) == {vw \in W \X W : Rank(vw[1][1]) < Rank(vw[2][1])}

LEMMA TypesOrdered == Ordered(AnyType, Lower)
<1> SUFFICES ASSUME NEW U \in SUBSET AnyType, U # {}
             PROVE  \E m \in U : \A k \in U : <<k, m>> \notin Lower
  BY DEF Ordered
<1> DEFINE N == {Rank(t) : t \in U}
<1>1. \A t \in U : Rank(t) \in Nat
  BY RankIs
<1>2. N \subseteq Nat /\ N # {}
  BY <1>1
<1>3. PICK n \in N : \A k \in N : n <= k
  BY <1>2, LeastNumber
<1>4. PICK m \in U : n = Rank(m)
  BY <1>3
<1>5. ASSUME NEW k \in U PROVE <<k, m>> \notin Lower
  <2>1. Rank(m) <= Rank(k) /\ Rank(k) \in Nat /\ Rank(m) \in Nat
    BY <1>1, <1>3, <1>4
  <2>2. ~ (Rank(k) < Rank(m))
    BY <2>1
  <2> QED BY <2>2 DEF Lower
<1> QED BY <1>5

LEMMA OfTypesOrdered ==
  ASSUME NEW W, \A w \in W : w[1] \in AnyType
  PROVE  Ordered(W, LowerOf(W))
<1> SUFFICES ASSUME NEW U \in SUBSET W, U # {}
             PROVE  \E m \in U : \A k \in U : <<k, m>> \notin LowerOf(W)
  BY DEF Ordered
<1> DEFINE N == {Rank(t[1]) : t \in U}
<1>1. \A t \in U : Rank(t[1]) \in Nat
  BY RankIs
<1>2. N \subseteq Nat /\ N # {}
  BY <1>1
<1>3. PICK n \in N : \A k \in N : n <= k
  BY <1>2, LeastNumber
<1>4. PICK m \in U : n = Rank(m[1])
  BY <1>3
<1>5. ASSUME NEW k \in U PROVE <<k, m>> \notin LowerOf(W)
  <2>1. Rank(m[1]) <= Rank(k[1]) /\ Rank(k[1]) \in Nat /\ Rank(m[1]) \in Nat
    BY <1>1, <1>3, <1>4
  <2>2. ~ (Rank(k[1]) < Rank(m[1]))
    BY <2>1
  <2> QED BY <2>2 DEF LowerOf
<1> QED BY <1>5

-----------------------------------------------------------------------------
(* The recursive functions on types are those their definitions say.       *)
Compared == AnyType \X AnyType \X BOOLEAN

LEMMA ArgumentsCompared ==
  ASSUME NEW a \in AnyType, NEW b \in AnyType, NEW ic \in BOOLEAN,
         NEW i \in DOMAIN a.arguments, NEW j \in DOMAIN b.arguments
  PROVE  LET v == <<a.arguments[i], b.arguments[j], ic>>
         IN v \in Compared /\ <<v, <<a, b, ic>>>> \in LowerOf(Compared)
<1>1. a.arguments[i] \in AnyType /\ Rank(a.arguments[i]) < Rank(a)
  BY ArgumentsRankLess
<1>2. b.arguments[j] \in AnyType
  BY ArgumentsRankLess
<1> QED BY <1>1, <1>2 DEF Compared, LowerOf

LEMMA AssignableIs ==
  ASSUME NEW a \in AnyType, NEW b \in AnyType, NEW ic \in BOOLEAN
  PROVE  Assignable[<<a, b, ic>>] = Assigns(Assignable, a, b, ic)
<1> DEFINE Eq(g) == g = [abi \in Compared |-> Assigns(g, abi[1], abi[2], abi[3])]
           G == [f \in [Compared -> BOOLEAN] |->
                   [w \in Compared |-> Assigns(f, w[1], w[2], w[3])]]
<1>1. Ordered(Compared, LowerOf(Compared))
  <2>1. \A w \in Compared : w[1] \in AnyType
    BY DEF Compared
  <2> QED BY <2>1, OfTypesOrdered
<1>2. ASSUME NEW f \in [Compared -> BOOLEAN], NEW g \in [Compared -> BOOLEAN],
             NEW x \in AnyType, NEW y \in AnyType, NEW c \in BOOLEAN,
             \A v \in Compared : <<v, <<x, y, c>>>> \in LowerOf(Compared) => f[v] = g[v]
      PROVE  Assigns(f, x, y, c) = Assigns(g, x, y, c)
  <2>1. \A i \in DOMAIN x.arguments, j \in DOMAIN y.arguments :
          f[<<x.arguments[i], y.arguments[j], c>>] = g[<<x.arguments[i], y.arguments[j], c>>]
    BY <1>2, ArgumentsCompared
  <2>2. x.arguments # <<>> => 1 \in DOMAIN x.arguments
    BY AnyTypeIs
  <2>3. CASE x.primitive = "list" /\ x.arguments = <<>>
    BY <2>3 DEF Assigns
  <2>4. CASE ~ (x.primitive = "list" /\ x.arguments = <<>>)
    <3>1. AllAssignable(f, x, y, c) = AllAssignable(g, x, y, c)
      <4>1. CASE x.primitive = "list" /\ y.primitive = "tuple"
        <5>1. \A j \in DOMAIN y.arguments :
                f[<<x.arguments[1], y.arguments[j], c>>] = g[<<x.arguments[1], y.arguments[j], c>>]
          BY <2>1, <2>2, <2>4, <4>1
        <5> QED BY <4>1, <5>1 DEF AllAssignable
      <4>2. CASE ~ (x.primitive = "list" /\ y.primitive = "tuple")
        <5>1. \A i \in DOMAIN x.arguments \cap DOMAIN y.arguments :
                f[<<x.arguments[i], y.arguments[i], c>>] = g[<<x.arguments[i], y.arguments[i], c>>]
          BY <2>1
        <5> QED BY <4>2, <5>1 DEF AllAssignable
      <4> QED BY <4>1, <4>2
    <3> QED BY <2>4, <3>1 DEF Assigns
  <2> QED BY <2>3, <2>4
<1>3. \A f \in [Compared -> BOOLEAN], w \in Compared : Assigns(f, w[1], w[2], w[3]) \in BOOLEAN
  BY DEF Assigns, AllAssignable
<1>4. G \in [[Compared -> BOOLEAN] -> [Compared -> BOOLEAN]]
  BY <1>3, Zenon
<1>5. \A f \in [Compared -> BOOLEAN], w \in Compared : G[f][w] = Assigns(f, w[1], w[2], w[3])
  OBVIOUS
<1> HIDE DEF G
<1>6. Local(G, Compared, BOOLEAN, LowerOf(Compared))
  <2> SUFFICES ASSUME NEW f \in [Compared -> BOOLEAN], NEW g \in [Compared -> BOOLEAN],
                      NEW w \in Compared,
                      \A v \in Compared : <<v, w>> \in LowerOf(Compared) => f[v] = g[v]
               PROVE  G[f][w] = G[g][w]
    BY <1>4 DEF Local
  <2>1. PICK x \in AnyType, y \in AnyType, c \in BOOLEAN : w = <<x, y, c>>
    BY DEF Compared
  <2>2. Assigns(f, x, y, c) = Assigns(g, x, y, c)
    BY <1>2, <2>1
  <2>3. w[1] = x /\ w[2] = y /\ w[3] = c
    BY <2>1
  <2> QED BY <1>5, <2>2, <2>3
<1>7. \E f \in [Compared -> BOOLEAN] : f = G[f]
  BY <1>1, <1>6, RecursionHasSolution
<1>8. PICK f \in [Compared -> BOOLEAN] : f = G[f]
  BY <1>7
<1>9. \A w \in Compared : f[w] = Assigns(f, w[1], w[2], w[3])
  BY <1>5, <1>8
<1>10. f = [w \in Compared |-> f[w]]
  OBVIOUS
<1>11. Eq(f)
  BY <1>9, <1>10, Zenon
<1>12. Assignable = CHOOSE g : Eq(g)
  BY DEF Assignable, Compared
<1>13. Eq(Assignable)
  <2> HIDE DEF Eq
  <2> QED BY <1>11, <1>12
<1>14. <<a, b, ic>> \in Compared
  BY DEF Compared
<1> QED BY <1>13, <1>14

(* The equations of Gives and Holds, of any function.                      *)
Valued == AnyType \X Value

GivesBy(f, t, v) ==
  \/ /\ t.primitive = "list" /\ ~Bare(t)
     /\ v.is = "members" /\ ~v.literal
     /\ \A i \in DOMAIN v.of : f[<<t.arguments[1], v.of[i]>>]
  \/ /\ t.primitive = "tuple"
     /\ v.is = "members" /\ v.literal = is_literal(t)
     /\ Len(v.of) = Len(t.arguments)
     /\ \A i \in DOMAIN v.of : f[<<t.arguments[i], v.of[i]>>]
  \/ t.primitive \notin {"list", "tuple"} /\ v.is = t.primitive

HoldsBy(f, t, v) ==
  \/ t.primitive = "var"
  \/ Bare(t) /\ v.is = "members"
  \/ /\ t.primitive = "list" /\ ~Bare(t)
     /\ v.is = "members"
     /\ \A i \in DOMAIN v.of : f[<<t.arguments[1], v.of[i]>>]
  \/ /\ t.primitive = "tuple" /\ ~Bare(t)
     /\ v.is = "members"
     /\ Len(v.of) = Len(t.arguments) \/ (v.literal /\ Len(v.of) < Len(t.arguments))
     /\ \A i \in DOMAIN v.of : f[<<t.arguments[i], v.of[i]>>]
  \/ t.primitive \notin {"var", "list", "tuple"} /\ v.is = t.primitive

LEMMA MembersAre ==
  ASSUME NEW v \in Value
  PROVE  \/ /\ v.is = "members" /\ v.literal \in BOOLEAN /\ v.of \in Seq(Value)
         \/ v.is \in Primitive \ {"list", "tuple", "var"}
BY ValueAssumption

LEMMA ArgumentsValued ==
  ASSUME NEW t \in AnyType, NEW v \in Value, v.is = "members",
         NEW i \in DOMAIN t.arguments, NEW j \in DOMAIN v.of
  PROVE  LET u == <<t.arguments[i], v.of[j]>>
         IN u \in Valued /\ <<u, <<t, v>>>> \in LowerOf(Valued)
<1>1. t.arguments[i] \in AnyType /\ Rank(t.arguments[i]) < Rank(t)
  BY ArgumentsRankLess
<1>2. v.of \in Seq(Value)
  BY MembersAre DEF Primitive
<1>3. v.of[j] \in Value
  BY <1>2
<1> QED BY <1>1, <1>3 DEF Valued, LowerOf

LEMMA GivesIs ==
  ASSUME NEW t \in AnyType, NEW v \in Value
  PROVE  Gives[<<t, v>>] = GivesBy(Gives, t, v)
<1> DEFINE Eq(g) == g = [tv \in Valued |-> GivesBy(g, tv[1], tv[2])]
           G == [f \in [Valued -> BOOLEAN] |-> [w \in Valued |-> GivesBy(f, w[1], w[2])]]
<1>1. Ordered(Valued, LowerOf(Valued))
  <2>1. \A w \in Valued : w[1] \in AnyType
    BY DEF Valued
  <2> QED BY <2>1, OfTypesOrdered
<1>2. ASSUME NEW f \in [Valued -> BOOLEAN], NEW g \in [Valued -> BOOLEAN],
             NEW x \in AnyType, NEW y \in Value,
             \A u \in Valued : <<u, <<x, y>>>> \in LowerOf(Valued) => f[u] = g[u]
      PROVE  GivesBy(f, x, y) = GivesBy(g, x, y)
  <2>1. y.is = "members" =>
          \A i \in DOMAIN x.arguments, j \in DOMAIN y.of :
            f[<<x.arguments[i], y.of[j]>>] = g[<<x.arguments[i], y.of[j]>>]
    BY <1>2, ArgumentsValued
  <2>2. x.arguments # <<>> => 1 \in DOMAIN x.arguments
    BY AnyTypeIs
  <2>3. y.is = "members" => y.of \in Seq(Value)
    BY MembersAre DEF Primitive
  <2>4. x.arguments \in Seq(AnyType)
    BY AnyTypeIs
  <2>5. x.primitive = "list" /\ ~Bare(x) /\ y.is = "members" =>
          \A i \in DOMAIN y.of : f[<<x.arguments[1], y.of[i]>>] = g[<<x.arguments[1], y.of[i]>>]
    BY <2>1, <2>2 DEF Bare
  <2>6. y.is = "members" /\ Len(y.of) <= Len(x.arguments) =>
          \A i \in DOMAIN y.of : f[<<x.arguments[i], y.of[i]>>] = g[<<x.arguments[i], y.of[i]>>]
    <3>1. y.is = "members" /\ Len(y.of) <= Len(x.arguments) => DOMAIN y.of \subseteq DOMAIN x.arguments
      BY <2>3, <2>4
    <3> QED BY <2>1, <3>1
  <2>7. y.is = "members" => Len(y.of) \in Nat /\ Len(x.arguments) \in Nat
    BY <2>3, <2>4
  <2>8. y.is = "members" => (Len(y.of) = Len(x.arguments) \/ Len(y.of) < Len(x.arguments)
                               => Len(y.of) <= Len(x.arguments))
    BY <2>7
  <2> QED BY <2>5, <2>6, <2>8 DEF GivesBy
<1>3. \A f \in [Valued -> BOOLEAN], w \in Valued : GivesBy(f, w[1], w[2]) \in BOOLEAN
  BY DEF GivesBy
<1>4. G \in [[Valued -> BOOLEAN] -> [Valued -> BOOLEAN]]
  BY <1>3, Zenon
<1>5. \A f \in [Valued -> BOOLEAN], w \in Valued : G[f][w] = GivesBy(f, w[1], w[2])
  OBVIOUS
<1> HIDE DEF G
<1>6. Local(G, Valued, BOOLEAN, LowerOf(Valued))
  <2> SUFFICES ASSUME NEW f \in [Valued -> BOOLEAN], NEW g \in [Valued -> BOOLEAN],
                      NEW w \in Valued,
                      \A u \in Valued : <<u, w>> \in LowerOf(Valued) => f[u] = g[u]
               PROVE  G[f][w] = G[g][w]
    BY <1>4 DEF Local
  <2>1. PICK x \in AnyType, y \in Value : w = <<x, y>>
    BY DEF Valued
  <2>2. GivesBy(f, x, y) = GivesBy(g, x, y)
    BY <1>2, <2>1
  <2>3. w[1] = x /\ w[2] = y
    BY <2>1
  <2> QED BY <1>5, <2>2, <2>3
<1>7. \E f \in [Valued -> BOOLEAN] : f = G[f]
  <2>1. BOOLEAN # {}
    OBVIOUS
  <2> QED BY <1>1, <1>6, <2>1, RecursionHasSolution, SMTT(20)
<1>8. PICK f \in [Valued -> BOOLEAN] : f = G[f]
  BY <1>7
<1>9. \A w \in Valued : f[w] = GivesBy(f, w[1], w[2])
  BY <1>5, <1>8
<1>10. f = [w \in Valued |-> f[w]]
  OBVIOUS
<1>11. Eq(f)
  BY <1>9, <1>10, Zenon
<1>12. Gives = CHOOSE g : Eq(g)
  BY DEF Gives, GivesBy, Valued
<1>13. Eq(Gives)
  <2> HIDE DEF Eq
  <2> QED BY <1>11, <1>12
<1>14. <<t, v>> \in Valued
  BY DEF Valued
<1> QED BY <1>13, <1>14

LEMMA HoldsIs ==
  ASSUME NEW t \in AnyType, NEW v \in Value
  PROVE  Holds[<<t, v>>] = HoldsBy(Holds, t, v)
<1> DEFINE Eq(g) == g = [tv \in Valued |-> HoldsBy(g, tv[1], tv[2])]
           G == [f \in [Valued -> BOOLEAN] |-> [w \in Valued |-> HoldsBy(f, w[1], w[2])]]
<1>1. Ordered(Valued, LowerOf(Valued))
  <2>1. \A w \in Valued : w[1] \in AnyType
    BY DEF Valued
  <2> QED BY <2>1, OfTypesOrdered
<1>2. ASSUME NEW f \in [Valued -> BOOLEAN], NEW g \in [Valued -> BOOLEAN],
             NEW x \in AnyType, NEW y \in Value,
             \A u \in Valued : <<u, <<x, y>>>> \in LowerOf(Valued) => f[u] = g[u]
      PROVE  HoldsBy(f, x, y) = HoldsBy(g, x, y)
  <2>1. y.is = "members" =>
          \A i \in DOMAIN x.arguments, j \in DOMAIN y.of :
            f[<<x.arguments[i], y.of[j]>>] = g[<<x.arguments[i], y.of[j]>>]
    BY <1>2, ArgumentsValued
  <2>2. x.arguments # <<>> => 1 \in DOMAIN x.arguments
    BY AnyTypeIs
  <2>3. y.is = "members" => y.of \in Seq(Value)
    BY MembersAre DEF Primitive
  <2>4. x.arguments \in Seq(AnyType)
    BY AnyTypeIs
  <2>5. x.primitive = "list" /\ ~Bare(x) /\ y.is = "members" =>
          \A i \in DOMAIN y.of : f[<<x.arguments[1], y.of[i]>>] = g[<<x.arguments[1], y.of[i]>>]
    BY <2>1, <2>2 DEF Bare
  <2>6. y.is = "members" /\ Len(y.of) <= Len(x.arguments) =>
          \A i \in DOMAIN y.of : f[<<x.arguments[i], y.of[i]>>] = g[<<x.arguments[i], y.of[i]>>]
    <3>1. y.is = "members" /\ Len(y.of) <= Len(x.arguments) => DOMAIN y.of \subseteq DOMAIN x.arguments
      BY <2>3, <2>4
    <3> QED BY <2>1, <3>1
  <2>7. y.is = "members" => Len(y.of) \in Nat /\ Len(x.arguments) \in Nat
    BY <2>3, <2>4
  <2>8. y.is = "members" => (Len(y.of) = Len(x.arguments) \/ Len(y.of) < Len(x.arguments)
                               => Len(y.of) <= Len(x.arguments))
    BY <2>7
  <2> QED BY <2>5, <2>6, <2>8 DEF HoldsBy
<1>3. \A f \in [Valued -> BOOLEAN], w \in Valued : HoldsBy(f, w[1], w[2]) \in BOOLEAN
  BY DEF HoldsBy
<1>4. G \in [[Valued -> BOOLEAN] -> [Valued -> BOOLEAN]]
  BY <1>3, Zenon
<1>5. \A f \in [Valued -> BOOLEAN], w \in Valued : G[f][w] = HoldsBy(f, w[1], w[2])
  OBVIOUS
<1> HIDE DEF G
<1>6. Local(G, Valued, BOOLEAN, LowerOf(Valued))
  <2> SUFFICES ASSUME NEW f \in [Valued -> BOOLEAN], NEW g \in [Valued -> BOOLEAN],
                      NEW w \in Valued,
                      \A u \in Valued : <<u, w>> \in LowerOf(Valued) => f[u] = g[u]
               PROVE  G[f][w] = G[g][w]
    BY <1>4 DEF Local
  <2>1. PICK x \in AnyType, y \in Value : w = <<x, y>>
    BY DEF Valued
  <2>2. HoldsBy(f, x, y) = HoldsBy(g, x, y)
    BY <1>2, <2>1
  <2>3. w[1] = x /\ w[2] = y
    BY <2>1
  <2> QED BY <1>5, <2>2, <2>3
<1>7. \E f \in [Valued -> BOOLEAN] : f = G[f]
  <2>1. BOOLEAN # {}
    OBVIOUS
  <2> QED BY <1>1, <1>6, <2>1, RecursionHasSolution, SMTT(20)
<1>8. PICK f \in [Valued -> BOOLEAN] : f = G[f]
  BY <1>7
<1>9. \A w \in Valued : f[w] = HoldsBy(f, w[1], w[2])
  BY <1>5, <1>8
<1>10. f = [w \in Valued |-> f[w]]
  OBVIOUS
<1>11. Eq(f)
  BY <1>9, <1>10, Zenon
<1>12. Holds = CHOOSE g : Eq(g)
  BY DEF Holds, HoldsBy, Valued
<1>13. Eq(Holds)
  <2> HIDE DEF Eq
  <2> QED BY <1>11, <1>12
<1>14. <<t, v>> \in Valued
  BY DEF Valued
<1> QED BY <1>13, <1>14

LEMMA DefiniteIs ==
  ASSUME NEW t \in AnyType
  PROVE  Definite[t] <=> /\ t.primitive # "var"
                         /\ Bare(t) => t.primitive = "tuple" /\ is_literal(t)
                         /\ \A i \in DOMAIN t.arguments : Definite[t.arguments[i]]
<1> DEFINE Fixed(x) == x.primitive # "var" /\ (Bare(x) => x.primitive = "tuple" /\ is_literal(x))
           By(f, x) == Fixed(x) /\ \A i \in DOMAIN x.arguments : f[x.arguments[i]]
           Eq(g) == g = [x \in AnyType |-> By(g, x)]
           G == [f \in [AnyType -> BOOLEAN] |-> [x \in AnyType |-> By(f, x)]]
<1>1. Definite = CHOOSE g : Eq(g)
  BY DEF Definite
<1> HIDE DEF Fixed
<1>2. \A f \in [AnyType -> BOOLEAN], x \in AnyType : By(f, x) \in BOOLEAN
  OBVIOUS
<1>3. G \in [[AnyType -> BOOLEAN] -> [AnyType -> BOOLEAN]]
  BY <1>2, Zenon
<1>4. \A f \in [AnyType -> BOOLEAN], x \in AnyType : G[f][x] = By(f, x)
  OBVIOUS
<1> HIDE DEF G
<1>5. Local(G, AnyType, BOOLEAN, Lower)
  <2> SUFFICES ASSUME NEW f \in [AnyType -> BOOLEAN], NEW g \in [AnyType -> BOOLEAN],
                      NEW x \in AnyType,
                      \A u \in AnyType : <<u, x>> \in Lower => f[u] = g[u]
               PROVE  G[f][x] = G[g][x]
    BY <1>3 DEF Local
  <2>1. \A i \in DOMAIN x.arguments : f[x.arguments[i]] = g[x.arguments[i]]
    BY ArgumentsRankLess DEF Lower
  <2> QED BY <1>4, <2>1
<1>6. \E f \in [AnyType -> BOOLEAN] : f = G[f]
  <2>1. BOOLEAN # {}
    OBVIOUS
  <2> QED BY <1>5, <2>1, TypesOrdered, RecursionHasSolution, SMTT(20)
<1>7. PICK f \in [AnyType -> BOOLEAN] : f = G[f]
  BY <1>6
<1>8. \A x \in AnyType : f[x] = By(f, x)
  BY <1>4, <1>7
<1>9. f = [x \in AnyType |-> f[x]]
  OBVIOUS
<1>10. Eq(f)
  BY <1>8, <1>9, Zenon
<1>11. Eq(Definite)
  <2> HIDE DEF Eq
  <2> QED BY <1>1, <1>10
<1>12. Definite[t] = By(Definite, t)
  BY <1>11
<1> QED BY <1>12 DEF Fixed

-----------------------------------------------------------------------------
(* What is assignable can hold what there is to assign: a smallest type of *)
(* which this is not so would have an argument of which it is not so.      *)
Sound(a) ==
  \A b \in AnyType, ic \in BOOLEAN, v \in Value :
    Assignable[<<a, b, ic>>] /\ Definite[b] /\ Gives[<<b, v>>] => Holds[<<a, v>>]

LEMMA SoundStep ==
  ASSUME NEW a \in AnyType, \A i \in DOMAIN a.arguments : Sound(a.arguments[i])
  PROVE  Sound(a)
<1> SUFFICES ASSUME NEW b \in AnyType, NEW ic \in BOOLEAN, NEW v \in Value,
                    Assignable[<<a, b, ic>>], Definite[b], Gives[<<b, v>>]
             PROVE  HoldsBy(Holds, a, v)
  BY HoldsIs DEF Sound
<1>1. Assigns(Assignable, a, b, ic)
  BY AssignableIs
<1>2. GivesBy(Gives, b, v)
  BY GivesIs
<1>3. /\ b.primitive # "var" /\ (Bare(b) => b.primitive = "tuple" /\ is_literal(b))
      /\ \A i \in DOMAIN b.arguments : Definite[b.arguments[i]]
  BY DefiniteIs
<1>4. /\ a.arguments \in Seq(AnyType) /\ b.arguments \in Seq(AnyType)
      /\ a.primitive \in Primitive /\ b.primitive \in Primitive
      /\ \A i \in DOMAIN b.arguments : b.arguments[i] \in AnyType
  BY AnyTypeIs
<1>5. \A i \in DOMAIN a.arguments, j \in DOMAIN b.arguments, u \in Value :
        Assignable[<<a.arguments[i], b.arguments[j], ic>>] /\ Gives[<<b.arguments[j], u>>]
          => Holds[<<a.arguments[i], u>>]
  BY <1>3, <1>4 DEF Sound
<1>6. v.is = "members" => v.of \in Seq(Value) /\ v.literal \in BOOLEAN
  BY MembersAre DEF Primitive
<1>7. CASE a.primitive = "var"
  BY <1>7 DEF HoldsBy
<1>8. CASE Bare(a)
  BY <1>1, <1>2, <1>3, <1>8 DEF HoldsBy, GivesBy, Bare, Assigns
<1>9. CASE a.primitive # "var" /\ ~Bare(a)
  <2>1. AllAssignable(Assignable, a, b, ic)
    BY <1>1, <1>3, <1>9 DEF Assigns, Bare
  <2>2. CASE a.primitive = "list" /\ b.primitive = "tuple"
    <3>1. 1 \in DOMAIN a.arguments
      BY <1>4, <1>9, <2>2 DEF Bare
    <3>2. v.is = "members" /\ Len(v.of) = Len(b.arguments)
          /\ \A i \in DOMAIN v.of : Gives[<<b.arguments[i], v.of[i]>>]
      BY <1>2, <2>2 DEF GivesBy
    <3>3. \A i \in DOMAIN b.arguments : Assignable[<<a.arguments[1], b.arguments[i], ic>>]
      BY <2>1, <2>2 DEF AllAssignable
    <3>4. DOMAIN v.of = DOMAIN b.arguments /\ \A i \in DOMAIN v.of : v.of[i] \in Value
      BY <1>4, <1>6, <3>2
    <3>5. \A i \in DOMAIN v.of : Holds[<<a.arguments[1], v.of[i]>>]
      BY <1>5, <3>1, <3>2, <3>3, <3>4
    <3> QED BY <1>9, <2>2, <3>2, <3>5 DEF HoldsBy
  <2>3. CASE ~ (a.primitive = "list" /\ b.primitive = "tuple")
    <3>1. /\ a.primitive = b.primitive
          /\ Len(a.arguments) = Len(b.arguments) \/ MayDiffer(a, b)
          /\ \A i \in DOMAIN a.arguments \cap DOMAIN b.arguments :
               Assignable[<<a.arguments[i], b.arguments[i], ic>>]
      BY <2>1, <2>3 DEF AllAssignable
    <3>2. CASE a.primitive = "list"
      <4>1. 1 \in DOMAIN a.arguments /\ 1 \in DOMAIN b.arguments
        BY <1>3, <1>4, <1>9, <3>1, <3>2 DEF Bare
      <4>2. v.is = "members" /\ \A i \in DOMAIN v.of : Gives[<<b.arguments[1], v.of[i]>>]
        BY <1>2, <3>1, <3>2 DEF GivesBy
      <4>3. \A i \in DOMAIN v.of : v.of[i] \in Value
        BY <1>6, <4>2
      <4>4. \A i \in DOMAIN v.of : Holds[<<a.arguments[1], v.of[i]>>]
        BY <1>5, <3>1, <4>1, <4>2, <4>3
      <4> QED BY <1>9, <3>2, <4>2, <4>4 DEF HoldsBy
    <3>3. CASE a.primitive = "tuple"
      <4>1. v.is = "members" /\ v.literal = is_literal(b) /\ Len(v.of) = Len(b.arguments)
            /\ \A i \in DOMAIN v.of : Gives[<<b.arguments[i], v.of[i]>>]
        BY <1>2, <3>1, <3>3 DEF GivesBy
      <4>2. Len(v.of) = Len(a.arguments) \/ (v.literal /\ Len(v.of) < Len(a.arguments))
        BY <1>4, <1>6, <3>1, <4>1 DEF MayDiffer, is_literal
      <4>3. /\ DOMAIN v.of = DOMAIN b.arguments /\ DOMAIN v.of \subseteq DOMAIN a.arguments
            /\ \A i \in DOMAIN v.of : v.of[i] \in Value
        BY <1>4, <1>6, <4>1, <4>2
      <4>4. \A i \in DOMAIN v.of : Holds[<<a.arguments[i], v.of[i]>>]
        BY <1>5, <3>1, <4>1, <4>3
      <4>5. a.primitive = "tuple" /\ ~ Bare(a) /\ v.is = "members"
        BY <1>9, <3>3, <4>1
      <4> QED BY <4>2, <4>4, <4>5 DEF HoldsBy
    <3>4. CASE a.primitive \notin {"list", "tuple"}
      BY <1>2, <1>9, <3>1, <3>4 DEF HoldsBy, GivesBy
    <3> QED BY <3>2, <3>3, <3>4
  <2> QED BY <2>2, <2>3
<1> QED BY <1>7, <1>8, <1>9

LEMMA AssignmentIsSound ==
  ASSUME NEW a \in AnyType
  PROVE  Sound(a)
<1> DEFINE D == {x \in AnyType : ~ Sound(x)}
<1> SUFFICES ASSUME D # {} PROVE FALSE
  OBVIOUS
<1>1. PICK x \in D : \A y \in D : <<y, x>> \notin Lower
  BY TypesOrdered DEF Ordered
<1>2. x \in AnyType /\ ~ Sound(x)
  BY <1>1
<1>3. ASSUME NEW i \in DOMAIN x.arguments PROVE Sound(x.arguments[i])
  <2>1. x.arguments[i] \in AnyType /\ <<x.arguments[i], x>> \in Lower
    BY <1>2, ArgumentsRankLess DEF Lower
  <2>2. x.arguments[i] \notin D
    BY <1>1, <2>1
  <2> QED BY <2>1, <2>2
<1> QED BY <1>2, <1>3, SoundStep

-----------------------------------------------------------------------------
(* The checks of a statement: what each takes and leaves.                  *)
LEMMA CheckIs ==
  ASSUME NEW check \in Check
  PROVE  /\ Takes(check) \in Nat /\ Leaves(check) \in {0, 1}
         /\ "n" \in DOMAIN check => Takes(check) = check.n
         /\ check.op \in {"new_scope", "end_scope", "args", "param"} =>
              Takes(check) = 0 /\ Leaves(check) = 0
         /\ check.op = "drop" => Takes(check) = 1 /\ Leaves(check) = 0
         /\ check.op = "literal" =>
              check.type \in AnyType /\ Takes(check) = 0 /\ Leaves(check) = 1
         /\ check.op = "use" =>
              check.sym \in STRING /\ Takes(check) = 0 /\ Leaves(check) = 1
         /\ check.op \in Operators =>
              check.n \in Nat /\ Takes(check) = check.n /\ Leaves(check) = 1
         /\ check.op \in UnaryOps => check.n = 1
         /\ check.op \in BinaryOps => check.n = 2
         /\ check.op = "conditional" => check.n = 3
         /\ check.op = "define" =>
              /\ check.sym \in STRING /\ check.type \in AnyType /\ check.n \in {0, 1}
              /\ Takes(check) = check.n /\ Leaves(check) = 0
<1> USE DEF Takes, Leaves, Operators, UnaryOps, BinaryOps, Arithmetic
<1>1. CASE check \in [op : {"new_scope", "end_scope", "args", "drop"}]
  BY <1>1
<1>2. CASE check \in [op : {"literal"}, type : AnyType]
  BY <1>2
<1>3. CASE check \in [op : {"use", "param"}, sym : STRING]
  BY <1>3
<1>4. CASE check \in [op : UnaryOps, n : {1}]
  BY <1>4
<1>5. CASE check \in [op : BinaryOps, n : {2}]
  BY <1>5
<1>6. CASE check \in [op : {"conditional"}, n : {3}]
  BY <1>6
<1>7. CASE check \in [op : {"call", "tuple"}, n : Nat]
  BY <1>7
<1>8. CASE check \in [op : {"define"}, sym : STRING, type : AnyType, n : {0, 1}, init : Nat]
  BY <1>8
<1> QED BY <1>1, <1>2, <1>3, <1>4, <1>5, <1>6, <1>7, <1>8 DEF Check

LEMMA OperandsAre ==
  ASSUME NEW c \in Seq(Check)
  PROVE  /\ Operands(c)[0] = 0
         /\ \A k \in 1..Len(c) :
              /\ Operands(c)[k - 1] \in Int
              /\ Operands(c)[k] = Operands(c)[k - 1] - Takes(c[k]) + Leaves(c[k])
<1> DEFINE W == 0..Len(c)
           L == {vw \in W \X W : vw[1] < vw[2]}
           By(f, k) == IF k = 0 THEN 0 ELSE f[k - 1] - Takes(c[k]) + Leaves(c[k])
           Eq(g) == g = [k \in W |-> By(g, k)]
           G == [f \in [W -> Int] |-> [k \in W |-> By(f, k)]]
<1>1. Operands(c) = CHOOSE g : Eq(g)
  BY DEF Operands
<1>2. Len(c) \in Nat /\ \A k \in 1..Len(c) : Takes(c[k]) \in Nat /\ Leaves(c[k]) \in {0, 1}
  BY CheckIs
<1>3. Ordered(W, L)
  <2> SUFFICES ASSUME NEW U \in SUBSET W, U # {}
               PROVE  \E m \in U : \A k \in U : <<k, m>> \notin L
    BY DEF Ordered
  <2>1. U \subseteq Nat
    OBVIOUS
  <2>2. PICK m \in U : \A k \in U : m <= k
    BY <2>1, LeastNumber
  <2> QED BY <2>1, <2>2
<1>4. \A f \in [W -> Int], k \in W : By(f, k) \in Int
  <2> SUFFICES ASSUME NEW f \in [W -> Int], NEW k \in W PROVE By(f, k) \in Int
    OBVIOUS
  <2>1. CASE k = 0
    BY <2>1
  <2>2. CASE k # 0
    <3>1. k \in 1..Len(c) /\ k - 1 \in W
      BY <1>2, <2>2
    <3>2. f[k - 1] \in Int
      <4> HIDE DEF W
      <4> QED BY <3>1
    <3>3. Takes(c[k]) \in Nat /\ Leaves(c[k]) \in {0, 1}
      BY <1>2, <3>1
    <3> QED BY <2>2, <3>2, <3>3
  <2> QED BY <2>1, <2>2
<1> HIDE DEF By
<1>5. G \in [[W -> Int] -> [W -> Int]]
  BY <1>4
<1>6. \A f \in [W -> Int], k \in W : G[f][k] = By(f, k)
  OBVIOUS
<1> HIDE DEF G
<1> HIDE DEF W, L
<1>7. Local(G, W, Int, L)
  <2> SUFFICES ASSUME NEW f \in [W -> Int], NEW g \in [W -> Int], NEW k \in W,
                      \A v \in W : <<v, k>> \in L => f[v] = g[v]
               PROVE  G[f][k] = G[g][k]
    BY <1>5 DEF Local
  <2>1. By(f, k) = By(g, k)
    <3>1. CASE k = 0
      BY <3>1 DEF By
    <3>2. CASE k # 0
      <4>1. k - 1 \in W /\ <<k - 1, k>> \in L
        BY <1>2, <3>2 DEF W, L
      <4> QED BY <3>2, <4>1 DEF By
    <3> QED BY <3>1, <3>2
  <2> QED BY <1>6, <2>1
<1>8. \E f \in [W -> Int] : f = G[f]
  BY <1>3, <1>7, RecursionHasSolution
<1>9. PICK f \in [W -> Int] : f = G[f]
  BY <1>8
<1>10. \A k \in W : f[k] = By(f, k)
  BY <1>6, <1>9
<1>11. f = [k \in W |-> f[k]]
  OBVIOUS
<1>12. Eq(f)
  BY <1>10, <1>11, Zenon
<1>13. Eq(Operands(c))
  <2> HIDE DEF Eq
  <2> QED BY <1>1, <1>12
<1>14. \A k \in W : Operands(c)[k] = By(Operands(c), k)
  BY <1>13
<1>15. Operands(c)[0] = 0
  BY <1>2, <1>14 DEF W, By
<1>16. \A k \in 1..Len(c) : Operands(c)[k] = Operands(c)[k - 1] - Takes(c[k]) + Leaves(c[k])
  BY <1>2, <1>14 DEF W, By
<1>17. \A k \in W : Operands(c)[k] \in Int
  <2> DEFINE D == {k \in Nat : k <= Len(c) /\ Operands(c)[k] \notin Int}
  <2> SUFFICES ASSUME D # {} PROVE FALSE
    BY <1>2 DEF W
  <2>1. PICK k \in D : \A i \in D : k <= i
    BY LeastNumber
  <2>2. k \in Nat /\ k # 0 /\ k <= Len(c) /\ Operands(c)[k] \notin Int
    BY <1>15, <2>1
  <2>3. k - 1 \in Nat /\ k - 1 \notin D
    <3>1. k - 1 \in D => k <= k - 1
      BY <2>1
    <3> HIDE DEF D
    <3> QED BY <2>2, <3>1
  <2>4. Operands(c)[k - 1] \in Int /\ k \in 1..Len(c)
    BY <1>2, <2>2, <2>3
  <2>5. Takes(c[k]) \in Int /\ Leaves(c[k]) \in Int
    BY <1>2, <2>4
  <2> QED BY <1>16, <2>2, <2>4, <2>5
<1> QED BY <1>2, <1>15, <1>16, <1>17 DEF W

-----------------------------------------------------------------------------
(* How many scopes there are: one more than are open after j checks.       *)
Level(c, j) == 1 + Depth(c, 0, j)

Counted(c, op, j, k) == {i \in (j + 1)..k : c[i].op = op}

LEMMA CountStep ==
  ASSUME NEW c, NEW op, NEW j \in Nat, NEW k \in Nat, j <= k
  PROVE  /\ Cardinality(Counted(c, op, j, k)) \in Nat
         /\ Cardinality(Counted(c, op, j, k + 1)) =
              Cardinality(Counted(c, op, j, k)) + (IF c[k + 1].op = op THEN 1 ELSE 0)
<1> DEFINE S == Counted(c, op, j, k)
<1>1. IsFiniteSet(S) /\ Cardinality(S) \in Nat
  <2>1. IsFiniteSet((j + 1)..k)
    BY FS_Interval
  <2>2. S \in SUBSET ((j + 1)..k)
    BY DEF Counted
  <2> QED BY <2>1, <2>2, FS_Subset, FS_CardinalityType
<1>2. k + 1 \notin S
  BY DEF Counted
<1>3. CASE c[k + 1].op = op
  <2>1. Counted(c, op, j, k + 1) = S \cup {k + 1}
    BY <1>3 DEF Counted
  <2> QED BY <1>1, <1>2, <1>3, <2>1, FS_AddElement
<1>4. CASE c[k + 1].op # op
  <2>1. Counted(c, op, j, k + 1) = S
    BY <1>4 DEF Counted
  <2> QED BY <1>1, <1>4, <2>1
<1> QED BY <1>3, <1>4, <1>1

LEMMA DepthStep ==
  ASSUME NEW c, NEW j \in Nat, NEW k \in Nat, j <= k
  PROVE  /\ Depth(c, j, k) \in Int
         /\ Depth(c, j, j) = 0
         /\ Depth(c, j, k + 1) =
              Depth(c, j, k) + (IF c[k + 1].op = "new_scope" THEN 1
                                ELSE IF c[k + 1].op = "end_scope" THEN -1 ELSE 0)
<1>1. \A m \in Nat : Depth(c, j, m) = Cardinality(Counted(c, "new_scope", j, m))
                                        - Cardinality(Counted(c, "end_scope", j, m))
  BY DEF Depth, Counted
<1>2. /\ Cardinality(Counted(c, "new_scope", j, k)) \in Nat
      /\ Cardinality(Counted(c, "new_scope", j, k + 1)) =
           Cardinality(Counted(c, "new_scope", j, k)) + (IF c[k + 1].op = "new_scope" THEN 1 ELSE 0)
  BY CountStep
<1>3. /\ Cardinality(Counted(c, "end_scope", j, k)) \in Nat
      /\ Cardinality(Counted(c, "end_scope", j, k + 1)) =
           Cardinality(Counted(c, "end_scope", j, k)) + (IF c[k + 1].op = "end_scope" THEN 1 ELSE 0)
  BY CountStep
<1>4. Depth(c, j, j) = 0
  <2>1. Counted(c, "new_scope", j, j) = {} /\ Counted(c, "end_scope", j, j) = {}
    BY DEF Counted
  <2> QED BY <1>1, <2>1, FS_EmptySet
<1>5. CASE c[k + 1].op = "new_scope"
  BY <1>1, <1>2, <1>3, <1>4, <1>5
<1>6. CASE c[k + 1].op # "new_scope"
  BY <1>1, <1>2, <1>3, <1>4, <1>6
<1> QED BY <1>5, <1>6

LEMMA DepthAdds ==
  ASSUME NEW c, NEW j \in Nat, NEW k \in Nat, j <= k
  PROVE  Depth(c, j, k) = Level(c, k) - Level(c, j)
<1> DEFINE D == {m \in Nat : j <= m /\ Depth(c, j, m) # Level(c, m) - Level(c, j)}
<1> SUFFICES ASSUME D # {} PROVE FALSE
  OBVIOUS
<1>1. PICK m \in D : \A i \in D : m <= i
  BY LeastNumber
<1>2. m \in Nat /\ j <= m /\ Depth(c, j, m) # Level(c, m) - Level(c, j)
  BY <1>1
<1>3. Depth(c, 0, j) \in Int /\ Depth(c, j, j) = 0
  <2>1. 0 \in Nat /\ 0 <= j /\ j <= j
    OBVIOUS
  <2>2. Depth(c, 0, j) \in Int
    BY <2>1, DepthStep
  <2>3. Depth(c, j, j) = 0
    BY <2>1, DepthStep
  <2> QED BY <2>2, <2>3
<1>4. m # j
  BY <1>2, <1>3 DEF Level
<1> DEFINE i == m - 1
<1>5. i \in Nat /\ j <= i /\ i + 1 = m
  BY <1>2, <1>4
<1>6. i \notin D
  <2>1. i \in D => m <= i
    BY <1>1
  <2> HIDE DEF D
  <2> QED BY <1>5, <2>1
<1>7. Depth(c, j, i) = Level(c, i) - Level(c, j)
  BY <1>5, <1>6
<1> HIDE DEF i
<1> DEFINE s == IF c[i + 1].op = "new_scope" THEN 1 ELSE IF c[i + 1].op = "end_scope" THEN -1 ELSE 0
<1>8. s \in Int
  OBVIOUS
<1>9. Depth(c, j, i + 1) = Depth(c, j, i) + s /\ Depth(c, j, i) \in Int
  BY <1>5, DepthStep
<1>10. Depth(c, 0, i + 1) = Depth(c, 0, i) + s /\ Depth(c, 0, i) \in Int
  <2>1. 0 \in Nat /\ 0 <= i
    BY <1>5
  <2> QED BY <1>5, <2>1, DepthStep
<1> HIDE DEF s
<1> QED BY <1>2, <1>3, <1>5, <1>7, <1>8, <1>9, <1>10 DEF Level

LEMMA LevelStep ==
  ASSUME NEW c, NEW k \in Nat
  PROVE  /\ Level(c, k) \in Int /\ Level(c, 0) = 1
         /\ c[k + 1].op = "new_scope" => Level(c, k + 1) = Level(c, k) + 1
         /\ c[k + 1].op = "end_scope" => Level(c, k + 1) = Level(c, k) - 1
         /\ c[k + 1].op \notin {"new_scope", "end_scope"} => Level(c, k + 1) = Level(c, k)
<1>1. /\ Depth(c, 0, k) \in Int /\ Depth(c, 0, 0) = 0
      /\ Depth(c, 0, k + 1) =
           Depth(c, 0, k) + (IF c[k + 1].op = "new_scope" THEN 1
                             ELSE IF c[k + 1].op = "end_scope" THEN -1 ELSE 0)
  BY DepthStep
<1> QED BY <1>1 DEF Level

LEMMA StatementIs ==
  ASSUME NEW c \in Statement
  PROVE  /\ c \in Seq(Check)
         /\ \A k \in 1..Len(c) : Operands(c)[k - 1] >= Takes(c[k])
         /\ Operands(c)[Len(c)] = 0
         /\ \A k \in 0..Len(c) : Level(c, k) \in Nat \ {0}
         /\ Level(c, 0) = 1 /\ Level(c, Len(c)) = 1
         /\ \A k \in 1..Len(c) : c[k].op = "args" => k > 1 /\ c[k - 1].op = "new_scope"
<1>1. /\ c \in Seq(Check)
      /\ \A k \in 1..Len(c) : Operands(c)[k - 1] >= Takes(c[k])
      /\ Operands(c)[Len(c)] = 0
      /\ \A k \in 0..Len(c) : Depth(c, 0, k) >= 0
      /\ Depth(c, 0, Len(c)) = 0
      /\ \A k \in 1..Len(c) : c[k].op = "args" => k > 1 /\ c[k - 1].op = "new_scope"
  BY DEF Statement
<1>2. ASSUME NEW k \in 0..Len(c) PROVE Level(c, k) \in Nat \ {0}
  <2>1. k \in Nat /\ Depth(c, 0, k) >= 0
    BY <1>1
  <2>2. Level(c, k) \in Int
    BY <2>1, LevelStep
  <2>3. Depth(c, 0, k) \in Int
    <3>1. 0 \in Nat /\ 0 <= k
      BY <2>1
    <3> QED BY <2>1, <3>1, DepthStep
  <2> QED BY <2>1, <2>2, <2>3 DEF Level
<1>3. Level(c, 0) = 1
  BY LevelStep
<1>4. Level(c, Len(c)) = 1
  BY <1>1 DEF Level
<1> HIDE DEF Level
<1> QED BY <1>1, <1>2, <1>3, <1>4

-----------------------------------------------------------------------------
(* The checks whose block is still open when check p comes.                *)
Visible(c, p) == {j \in 1..(p - 1) : InBlockAround(c, j, p)}

LEMMA VisibleLevels ==
  ASSUME NEW c, NEW p \in Nat, NEW j \in Visible(c, p), NEW k \in j..(p - 1)
  PROVE  Level(c, j) <= Level(c, k)
<1>1. j \in Nat /\ k \in Nat /\ j <= k /\ Depth(c, j, k) >= 0
  BY DEF Visible, InBlockAround
<1>2. Depth(c, j, k) = Level(c, k) - Level(c, j)
  BY <1>1, DepthAdds
<1>3. Level(c, j) \in Int /\ Level(c, k) \in Int
  BY <1>1, LevelStep
<1> QED BY <1>1, <1>2, <1>3

LEMMA VisibleStep ==
  ASSUME NEW c, NEW p \in Nat \ {0}
  PROVE  Visible(c, p + 1) = {j \in Visible(c, p) \cup {p} : Level(c, j) <= Level(c, p)}
<1>1. p \in Nat /\ p > 0 /\ (p + 1) - 1 = p
  OBVIOUS
<1>2. ASSUME NEW j \in 1..p
      PROVE  (Depth(c, j, p) >= 0) <=> Level(c, j) <= Level(c, p)
  <2>1. Depth(c, j, p) = Level(c, p) - Level(c, j)
    BY DepthAdds
  <2>2. Level(c, j) \in Int /\ Level(c, p) \in Int
    BY LevelStep
  <2> QED BY <2>1, <2>2
<1>3. ASSUME NEW j \in 1..(p - 1)
      PROVE  InBlockAround(c, j, p + 1) <=> InBlockAround(c, j, p) /\ Level(c, j) <= Level(c, p)
  <2>1. j..((p + 1) - 1) = (j..(p - 1)) \cup {p}
    BY <1>1
  <2>2. j \in 1..p
    BY <1>1
  <2> QED BY <1>2, <2>1, <2>2 DEF InBlockAround
<1>4. InBlockAround(c, p, p + 1)
  <2>1. Depth(c, p, p) = 0
    BY DepthStep
  <2>2. p..((p + 1) - 1) = {p}
    BY <1>1
  <2> QED BY <2>1, <2>2 DEF InBlockAround
<1>5. Level(c, p) <= Level(c, p)
  BY LevelStep
<1>6. 1..((p + 1) - 1) = (1..(p - 1)) \cup {p} /\ p \notin 1..(p - 1)
  BY <1>1
<1> HIDE DEF Level
<1>7. Visible(c, p + 1) = {j \in (1..(p - 1)) \cup {p} : InBlockAround(c, j, p + 1)}
  BY <1>6 DEF Visible
<1>8. Visible(c, p) = {j \in 1..(p - 1) : InBlockAround(c, j, p)}
  BY DEF Visible
<1> QED BY <1>3, <1>4, <1>5, <1>6, <1>7, <1>8

(* Where a check p is, what is visible there is at its level or above.     *)
LEMMA VisibleHere ==
  ASSUME NEW c, NEW p \in Nat \ {0}, NEW j \in Visible(c, p)
  PROVE  /\ j \in 1..(p - 1) /\ Level(c, j) \in Int
         /\ Level(c, j) <= Level(c, p - 1)
<1>1. j \in 1..(p - 1)
  BY DEF Visible
<1>2. p - 1 \in j..(p - 1)
  BY <1>1
<1> QED BY <1>1, <1>2, VisibleLevels, LevelStep

-----------------------------------------------------------------------------
(* The types that checks make of other types.                              *)
LEMMA TypesMade ==
  /\ \A p \in Primitive : Type(p) \in Member /\ Type(p) \in AnyType /\ Literally(Type(p)) \in AnyType
  /\ \A t \in AnyType, as \in Seq(Member) :
       t.arguments = <<>> => WithArgs(t, as) \in AnyType
<1>1. ASSUME NEW p \in Primitive
      PROVE  Type(p) \in Member /\ Type(p) \in AnyType /\ Literally(Type(p)) \in AnyType
  <2>1. Type(p) \in Flat /\ Literally(Type(p)) \in Flat
    BY DEF Type, Literally, Flat, LITERAL
  <2> QED BY <2>1, AnyTypeIs
<1>2. ASSUME NEW t \in AnyType, NEW as \in Seq(Member), t.arguments = <<>>
      PROVE  WithArgs(t, as) \in AnyType
  <2>1. t.arguments \o as = as
    BY <1>2, ConcatEmptySeq
  <2>2. t \in Around(Member)
    BY AnyTypeIs
  <2>3. WithArgs(t, as) = [t EXCEPT !.arguments = as]
    BY <2>1 DEF WithArgs
  <2>4. WithArgs(t, as) \in Around(Member)
    BY <2>2, <2>3 DEF Around
  <2> QED BY <2>4, AnyTypeIs
<1> QED BY <1>1, <1>2

Result  == [type : AnyType, constexpr : BOOLEAN]
Entry   == [def : Nat \X Nat \X Nat, type : AnyType]
Symbol  == STRING \cup {"args"}
Context == UNION {[S -> Entry] : S \in SUBSET Symbol}

(* What holds of the state, errors or not: the files there are, the place  *)
(* validate() is at, the results of the parts checked, the symbol table,   *)
(* the items validated, and what has been accepted.                        *)
FilesKnown ==
  /\ objs \in Seq(File)
  /\ marked \in Seq(Nat) /\ Len(marked) = Len(objs)
  /\ \A o \in DOMAIN objs : marked[o] \in 0..Len(objs[o])
  /\ parsed \in [1..NameCount -> 0..Len(objs)]

AnItem(i) == i \in Nat \X Nat /\ i[1] \in DOMAIN objs /\ i[2] \in DOMAIN objs[i[1]]

InPlace ==
  /\ status \in {"idle", "running", "dead"} /\ pc \in Nat
  /\ status = "idle" => pc = 0
  /\ pc > 0 => AnItem(cur) /\ pc <= Len(code) + 1

ResultsHeld ==
  /\ vals \in Seq(Result)
  /\ Len(vals) = IF pc = 0 THEN 0 ELSE Operands(code)[pc - 1]

TableStands ==
  /\ symtab \in Seq(Context) /\ symtab # <<>>
  /\ failed \in BOOLEAN
  /\ ~failed => Len(symtab) = IF pc = 0 THEN 1 ELSE Level(code, pc - 1)

TextKnown == text \in Seq(Nat \X Nat) /\ \A i \in DOMAIN text : AnItem(text[i])

Accepted(l) == l.kind = "accepted" =>
  l.to \in AnyType /\ l.from \in AnyType /\ \E ic \in BOOLEAN : Assignable[<<l.to, l.from, ic>>]

Shape == FilesKnown /\ InPlace /\ ResultsHeld /\ TableStands /\ TextKnown /\ Accepted(last)

LEMMA CodeIs ==
  ASSUME FilesKnown
  PROVE  /\ \A i : AnItem(i) => objs[i[1]][i[2]] \in Statement
         /\ InPlace /\ pc > 0 => code \in Statement
<1>1. ASSUME NEW i, AnItem(i) PROVE objs[i[1]][i[2]] \in Statement
  <2>1. objs[i[1]] \in File
    BY <1>1 DEF FilesKnown, AnItem
  <2>2. objs[i[1]] \in Seq(Statement)
    BY <2>1, FileAssumption
  <2> QED BY <1>1, <2>2 DEF AnItem
<1> QED BY <1>1 DEF InPlace, code

(* The check that is next, and what is there for it.                       *)
LEMMA AtCheck ==
  ASSUME Shape, pc > 0, pc <= Len(code)
  PROVE  /\ code \in Statement /\ pc \in 1..Len(code) /\ pc \in Nat \ {0} /\ pc - 1 \in Nat
         /\ visit \in Check /\ visit = code[pc] /\ Len(code) \in Nat
         /\ Len(vals) \in Nat /\ Takes(visit) \in Nat /\ Takes(visit) <= Len(vals)
         /\ Len(vals) = Operands(code)[pc - 1]
         /\ Operands(code)[pc] = Len(vals) - Takes(visit) + Leaves(visit)
         /\ Level(code, pc) \in Nat \ {0} /\ Level(code, pc - 1) \in Nat \ {0}
         /\ ~failed => Len(symtab) = Level(code, pc - 1)
<1>1. code \in Statement /\ pc \in Nat
  BY CodeIs DEF Shape, InPlace
<1>2. /\ code \in Seq(Check)
      /\ \A k \in 1..Len(code) : Operands(code)[k - 1] >= Takes(code[k])
      /\ \A k \in 0..Len(code) : Level(code, k) \in Nat \ {0}
  BY <1>1, StatementIs
<1>3. pc \in 1..Len(code) /\ Len(code) \in Nat /\ pc - 1 \in 0..Len(code) /\ pc \in 0..Len(code)
      /\ pc \in Nat \ {0} /\ pc - 1 \in Nat
  BY <1>1, <1>2
<1>4. visit \in Check /\ visit = code[pc]
  BY <1>2, <1>3 DEF visit
<1>5. Takes(visit) \in Nat
  BY <1>4, CheckIs
<1>6. Len(vals) = Operands(code)[pc - 1] /\ Len(vals) \in Nat
  BY DEF Shape, ResultsHeld
<1>7. Takes(visit) <= Len(vals)
  <2>1. Operands(code)[pc - 1] >= Takes(code[pc])
    BY <1>2, <1>3
  <2> QED BY <1>4, <1>5, <1>6, <2>1
<1>8. Operands(code)[pc] = Len(vals) - Takes(visit) + Leaves(visit)
  BY <1>2, <1>3, <1>4, <1>6, OperandsAre
<1>9. Level(code, pc) \in Nat \ {0} /\ Level(code, pc - 1) \in Nat \ {0}
  BY <1>2, <1>3
<1>10. ~failed => Len(symtab) = Level(code, pc - 1)
  BY DEF Shape, TableStands
<1> QED BY <1>1, <1>3, <1>4, <1>5, <1>6, <1>7, <1>8, <1>9, <1>10

LEMMA OperandsTyped ==
  ASSUME Shape, pc > 0, pc <= Len(code), Takes(visit) = visit.n
  PROVE  \A i \in 1..visit.n : /\ Operand(i) \in Result /\ T(i) \in AnyType
                               /\ Operand(i).constexpr \in BOOLEAN
<1> SUFFICES ASSUME NEW i \in 1..visit.n PROVE Operand(i) \in Result
  BY DEF Result, T
<1>1. Len(vals) \in Nat /\ visit.n \in Nat /\ visit.n <= Len(vals)
  BY AtCheck
<1>2. Len(vals) - visit.n + i \in 1..Len(vals)
  BY <1>1
<1>3. vals \in Seq(Result)
  BY DEF Shape, ResultsHeld
<1> QED BY <1>2, <1>3 DEF Operand

LEMMA ResultTyped ==
  ASSUME Shape, pc > 0, pc <= Len(code), visit.op \in Operators, CanNest
  PROVE  ResultType \in AnyType /\ IsConstexpr \in BOOLEAN
<1>1. visit \in Check
  BY AtCheck
<1>2. /\ visit.n \in Nat /\ Takes(visit) = visit.n
      /\ visit.op \in UnaryOps => visit.n = 1
      /\ visit.op \in BinaryOps => visit.n = 2
      /\ visit.op = "conditional" => visit.n = 3
  BY <1>1, CheckIs
<1>3. \A i \in 1..visit.n : T(i) \in AnyType /\ Operand(i).constexpr \in BOOLEAN
  BY <1>2, OperandsTyped
<1>4. IsConstexpr \in BOOLEAN
  BY DEF IsConstexpr, Constexpr
<1>5. \A p \in Primitive : Type(p) \in AnyType /\ Literally(Type(p)) \in AnyType
  BY TypesMade
<1>6. /\ Type("bool") \in AnyType /\ Type("int") \in AnyType /\ Type("var") \in AnyType
      /\ Literally(Type("tuple")) \in AnyType
  BY <1>5 DEF Primitive
<1>7. CASE visit.op \in {"not", "eq", "less"}
  <2>1. ResultType = Type("bool")
    BY <1>7 DEF ResultType, Arithmetic
  <2> QED BY <1>4, <1>6, <2>1
<1>8. CASE visit.op \in {"increment", "negate"} \cup Arithmetic
  <2>1. ResultType = Type("int")
    BY <1>8 DEF ResultType, Arithmetic
  <2> QED BY <1>4, <1>6, <2>1
<1>9. CASE visit.op \in {"assign", "comma"}
  <2>1. T(1) \in AnyType /\ T(2) \in AnyType
    BY <1>2, <1>3, <1>9 DEF BinaryOps
  <2>2. ResultType \in {T(1), T(2)}
    BY <1>9 DEF ResultType, Arithmetic
  <2> QED BY <1>4, <2>1, <2>2
<1>10. CASE visit.op = "conditional"
  <2>1. T(2) \in AnyType
    BY <1>2, <1>3, <1>10
  <2>2. ResultType \in {T(2), Type("var")}
    BY <1>10 DEF ResultType, Arithmetic
  <2> QED BY <1>4, <1>6, <2>1, <2>2
<1>11. CASE visit.op = "call"
  <2>1. ResultType = Type("var")
    BY <1>11 DEF ResultType, Arithmetic
  <2> QED BY <1>4, <1>6, <2>1
<1>12. CASE visit.op = "subscript"
  <2>1. T(1) \in AnyType
    BY <1>2, <1>3, <1>12 DEF BinaryOps
  <2>2. ResultType = Type("var") \/ (T(1).arguments # <<>> /\ ResultType = T(1).arguments[1])
    BY <1>12 DEF ResultType, Arithmetic
  <2>3. T(1).arguments # <<>> => T(1).arguments[1] \in AnyType
    BY <2>1, AnyTypeIs
  <2> QED BY <1>4, <1>6, <2>2, <2>3
<1>13. CASE visit.op = "tuple"
  <2> DEFINE as == [i \in 1..visit.n |-> T(i)]
  <2>1. \A i \in 1..visit.n : T(i) \in Member
    BY <1>13 DEF CanNest, Member
  <2>2. as \in Seq(Member)
    BY <1>2, <2>1
  <2>3. Literally(Type("tuple")).arguments = <<>>
    BY DEF Literally, Type
  <2>4. ResultType = WithArgs(Literally(Type("tuple")), as)
    BY <1>13 DEF ResultType, Arithmetic
  <2> HIDE DEF as
  <2> QED BY <1>4, <1>6, <2>2, <2>3, <2>4, TypesMade
<1> QED BY <1>7, <1>8, <1>9, <1>10, <1>11, <1>12, <1>13 DEF Operators, UnaryOps, BinaryOps

LEMMA FinalTyped ==
  ASSUME NEW t \in AnyType, NEW init, init = <<>> \/ init[1] \in AnyType
  PROVE  FinalType(t, init) \in AnyType \/ NoSuchArgument(t, init)
<1>1. t.arguments \in Seq(Member)
  BY AnyTypeIs
<1>2. Type("var") \in Member
  BY TypesMade DEF Primitive
<1>3. CASE ~Bare(t)
  BY <1>3 DEF FinalType
<1>4. CASE Bare(t) /\ init = <<>>
  <2>1. FinalType(t, init) \in {WithArgs(t, <<Type("var")>>), WithArgs(t, <<>>)}
    BY <1>4 DEF FinalType
  <2>2. <<Type("var")>> \in Seq(Member) /\ <<>> \in Seq(Member)
    BY <1>2
  <2> QED BY <1>4, <2>1, <2>2, TypesMade DEF Bare
<1>5. CASE Bare(t) /\ init # <<>>
  <2> DEFINE from == init[1].arguments
  <2>1. from \in Seq(Member) /\ init[1].primitive \in Primitive
    BY <1>5, AnyTypeIs
  <2>2. t.arguments = <<>> /\ t.primitive \in {"list", "tuple"}
    BY <1>5 DEF Bare
  <2>3. from # <<>> => from[1] \in Member
    BY <2>1
  <2>4. CASE t.primitive = "list" /\ init[1].primitive \in {"list", "tuple"}
    <3>1. CASE from = <<>>
      BY <1>5, <2>4, <3>1 DEF NoSuchArgument, Bare
    <3>2. CASE from # <<>>
      <4>1. <<from[1]>> \in Seq(Member) /\ <<Type("var")>> \in Seq(Member)
        BY <1>2, <2>3, <3>2
      <4>2. FinalType(t, init) \in {WithArgs(t, <<from[1]>>), WithArgs(t, <<Type("var")>>)}
        BY <1>5, <2>4 DEF FinalType
      <4> QED BY <2>2, <4>1, <4>2, TypesMade
    <3> QED BY <3>1, <3>2
  <2>5. CASE t.primitive = "tuple" /\ init[1].primitive = "tuple"
    <3>1. FinalType(t, init) = WithArgs(t, from)
      BY <1>5, <2>5 DEF FinalType
    <3> QED BY <2>1, <2>2, <3>1, TypesMade
  <2>6. CASE /\ ~ (t.primitive = "list" /\ init[1].primitive \in {"list", "tuple"})
             /\ ~ (t.primitive = "tuple" /\ init[1].primitive = "tuple")
    <3>1. FinalType(t, init) = t
      BY <1>5, <2>6 DEF FinalType
    <3> QED BY <3>1
  <2> QED BY <2>2, <2>4, <2>5, <2>6
<1> QED BY <1>3, <1>4, <1>5

-----------------------------------------------------------------------------
(* The symbol table.                                                       *)
LEMMA LeastIs ==
  ASSUME NEW U, U \subseteq Nat, U # {}
  PROVE  Min(U) \in U /\ \A k \in U : Min(U) <= k
<1>1. PICK m \in U : \A k \in U : m <= k
  BY LeastNumber
<1> QED BY <1>1 DEF Min

LEMMA GreatestIs ==
  ASSUME NEW n \in Nat, NEW U, U \subseteq 1..n, U # {}
  PROVE  Max(U) \in U /\ \A k \in U : k <= Max(U)
<1> DEFINE N == {n - k : k \in U}
<1>1. N \subseteq Nat /\ N # {}
  <2>1. \A k \in U : n - k \in Nat
    OBVIOUS
  <2> QED BY <2>1
<1>2. PICK d \in N : \A e \in N : d <= e
  BY <1>1, LeastNumber
<1>3. PICK m \in U : d = n - m
  BY <1>2
<1>4. ASSUME NEW k \in U PROVE k <= m
  <2>1. n - k \in N
    OBVIOUS
  <2>2. n - m <= n - k
    BY <1>2, <1>3, <2>1
  <2>3. k \in Nat /\ m \in Nat
    OBVIOUS
  <2> QED BY <2>2, <2>3
<1>5. \A k \in U : m >= k
  BY <1>4
<1>6. Max(U) \in U /\ \A k \in U : Max(U) >= k
  BY <1>5 DEF Max
<1> QED BY <1>6

Holding(sym) == {c \in DOMAIN symtab : sym \in DOMAIN symtab[c]}

LEMMA LookupIs ==
  ASSUME TableStands, NEW sym
  PROVE  /\ Holding(sym) = {} => lookup(sym) = None
         /\ Holding(sym) # {} =>
              \E c \in Holding(sym) :
                /\ lookup(sym) = <<symtab[c][sym]>> /\ lookup(sym) # None
                /\ \A d \in Holding(sym) : d <= c
                /\ symtab[c][sym] \in Entry
<1>1. symtab \in Seq(Context) /\ Holding(sym) \subseteq 1..Len(symtab) /\ Len(symtab) \in Nat
  BY DEF TableStands, Holding
<1>2. lookup(sym) = IF Holding(sym) = {} THEN None ELSE <<symtab[Max(Holding(sym))][sym]>>
  BY DEF lookup, Holding
<1>3. CASE Holding(sym) # {}
  <2> DEFINE c == Max(Holding(sym))
  <2>1. c \in Holding(sym) /\ \A d \in Holding(sym) : d <= c
    BY <1>1, <1>3, GreatestIs
  <2> HIDE DEF c
  <2>2. symtab[c] \in Context /\ sym \in DOMAIN symtab[c]
    BY <1>1, <2>1 DEF Holding
  <2>3. symtab[c][sym] \in Entry
    BY <2>2 DEF Context
  <2>4. lookup(sym) = <<symtab[c][sym]>>
    BY <1>2, <1>3 DEF c
  <2>5. lookup(sym) # None
    BY <2>4 DEF None
  <2> QED BY <1>3, <2>1, <2>3, <2>4, <2>5
<1> QED BY <1>2, <1>3

LEMMA AddingIs ==
  ASSUME TableStands, NEW sym \in Symbol, NEW def \in Nat \X Nat \X Nat, NEW type \in AnyType,
         NEW tab, tab = Adding(sym, def, type)
  PROVE  /\ tab \in Seq(Context) /\ Len(tab) = Len(symtab) /\ tab # <<>>
         /\ \A c \in DOMAIN symtab : c # Len(symtab) => tab[c] = symtab[c]
         /\ DOMAIN tab[Len(symtab)] = DOMAIN Current \cup {sym}
         /\ tab[Len(symtab)][sym].def = def
         /\ \A s \in DOMAIN Current : s # sym => tab[Len(symtab)][s] = Current[s]
<1> DEFINE n == Len(symtab)
           ctx == [s \in DOMAIN Current \cup {sym} |->
                     IF s = sym THEN [def |-> def, type |-> type] ELSE Current[s]]
<1>1. symtab \in Seq(Context) /\ n \in Nat /\ n >= 1 /\ DOMAIN symtab = 1..n
  BY EmptySeq, LenProperties DEF TableStands
<1>2. Current \in Context
  BY <1>1 DEF Current
<1>3. PICK S \in SUBSET Symbol : Current \in [S -> Entry]
  BY <1>2 DEF Context
<1>4. [def |-> def, type |-> type] \in Entry
  BY DEF Entry
<1>5. ctx \in [S \cup {sym} -> Entry]
  BY <1>3, <1>4
<1>6. ctx \in Context
  BY <1>5 DEF Context
<1>7. tab = [symtab EXCEPT ![n] = ctx]
  BY DEF Adding, Current
<1>8. /\ DOMAIN ctx = DOMAIN Current \cup {sym} /\ ctx[sym] = [def |-> def, type |-> type]
      /\ \A s \in DOMAIN Current : s # sym => ctx[s] = Current[s]
  OBVIOUS
<1> HIDE DEF n, ctx
<1>9. /\ tab \in Seq(Context) /\ Len(tab) = n
      /\ \A c \in 1..n : tab[c] = IF c = n THEN ctx ELSE symtab[c]
  BY <1>1, <1>6, <1>7, ExceptSeq DEF n
<1>10. tab # <<>>
  <2>1. Len(tab) # 0
    BY <1>1, <1>9
  <2> QED BY <2>1, EmptySeq
<1>11. n \in 1..n
  BY <1>1
<1>12. tab[n] = ctx
  BY <1>9, <1>11
<1>13. \A c \in 1..n : c # n => tab[c] = symtab[c]
  BY <1>9
<1>14. tab[n][sym].def = def
  BY <1>8, <1>12
<1>15. DOMAIN tab[n] = DOMAIN Current \cup {sym}
  BY <1>8, <1>12
<1>16. \A s \in DOMAIN Current : s # sym => tab[n][s] = Current[s]
  BY <1>8, <1>12
<1> QED BY <1>1, <1>9, <1>10, <1>13, <1>14, <1>15, <1>16, Zenon DEF n

-----------------------------------------------------------------------------
(* Every step keeps the state in shape.                                    *)
LEMMA NextCheckShape ==
  ASSUME Shape, status = "running", pc > 0, pc <= Len(code), Keep, Go,
         vals' \in Seq(Result), Len(vals') = Len(vals) - Takes(visit) + Leaves(visit),
         symtab' \in Seq(Context), symtab' # <<>>,
         ~failed => Len(symtab') = Level(code, pc),
         Accepted(last')
  PROVE  Shape'
<1>1. code' = code /\ pc' = pc + 1 /\ pc' # 0 /\ pc' > 0 /\ pc' - 1 = pc /\ pc \in 1..Len(code)
      /\ Len(code) \in Nat
  <2>1. code' = code
    BY DEF Keep, code
  <2>2. pc \in 1..Len(code) /\ Len(code) \in Nat
    BY AtCheck
  <2>3. pc' = pc + 1
    BY DEF Go
  <2> QED BY <2>1, <2>2, <2>3
<1>2. FilesKnown'
  BY DEF Shape, Keep, FilesKnown
<1>3. InPlace'
  <2>1. AnItem(cur)'
    BY DEF Shape, InPlace, Keep, AnItem
  <2>2. pc' <= Len(code') + 1 /\ pc' \in Nat
    BY <1>1
  <2>3. status' = "running"
    BY DEF Go
  <2> QED BY <2>1, <2>2, <2>3 DEF InPlace
<1>4. ResultsHeld'
  <2>1. Operands(code)[pc] = Len(vals) - Takes(visit) + Leaves(visit)
    BY AtCheck
  <2>2. Operands(code') = Operands(code)
    BY <1>1
  <2> QED BY <1>1, <2>1, <2>2 DEF ResultsHeld
<1>5. TableStands'
  <2>1. failed' = failed /\ failed \in BOOLEAN
    BY DEF Go, Shape, TableStands
  <2>2. Level(code', pc' - 1) = Level(code, pc)
    BY <1>1
  <2> QED BY <1>1, <2>1, <2>2 DEF TableStands
<1>6. TextKnown'
  BY DEF Shape, Keep, TextKnown, AnItem
<1> QED BY <1>2, <1>3, <1>4, <1>5, <1>6 DEF Shape, Accepted

LEMMA ErrorShape ==
  ASSUME Shape, Keep, SyntaxError
  PROVE  Shape'
<1>1. FilesKnown'
  BY DEF Shape, Keep, FilesKnown
<1>2. InPlace'
  BY DEF SyntaxError, InPlace
<1>3. ResultsHeld'
  BY EmptySeq DEF SyntaxError, ResultsHeld
<1>4. TableStands'
  BY DEF SyntaxError, Shape, TableStands
<1>5. TextKnown'
  BY DEF Shape, Keep, TextKnown, AnItem
<1>6. Accepted(last)'
  BY DEF SyntaxError, Accepted, Nothing
<1> QED BY <1>1, <1>2, <1>3, <1>4, <1>5, <1>6 DEF Shape

LEMMA InitShape == Init => Shape
<1> SUFFICES ASSUME Init PROVE Shape
  OBVIOUS
<1>1. FilesKnown
  <2>1. Len(objs) = 0 /\ DOMAIN objs = {} /\ objs \in Seq(File) /\ marked \in Seq(Nat) /\ Len(marked) = 0
    BY EmptySeq DEF Init
  <2> QED BY <2>1 DEF Init, FilesKnown
<1>2. InPlace /\ ResultsHeld /\ Accepted(last)
  BY EmptySeq DEF Init, InPlace, ResultsHeld, Accepted, Nothing
<1>3. TableStands
  <2>1. <<>> \in [{} -> Entry]
    OBVIOUS
  <2>2. <<>> \in Context
    BY <2>1 DEF Context
  <2>3. symtab = <<<<>>>> /\ Len(symtab) = 1 /\ symtab # <<>>
    BY DEF Init
  <2>4. symtab \in Seq(Context)
    BY <2>2, <2>3
  <2> QED BY <2>3, <2>4 DEF Init, TableStands
<1>4. TextKnown
  BY EmptySeq DEF Init, TextKnown
<1> QED BY <1>1, <1>2, <1>3, <1>4 DEF Shape

LEMMA ParseFileShape ==
  ASSUME Shape, NEW n \in 1..NameCount, NEW f \in File, ParseFile(n, f)
  PROVE  Shape'
<1>1. pc = 0 /\ status = "idle"
  BY DEF ParseFile, Shape, InPlace
<1>2. /\ objs \in Seq(File) /\ marked \in Seq(Nat) /\ Len(marked) = Len(objs)
      /\ Len(objs) \in Nat /\ DOMAIN objs = 1..Len(objs)
      /\ \A o \in DOMAIN objs : marked[o] \in 0..Len(objs[o])
      /\ parsed \in [1..NameCount -> 0..Len(objs)]
  BY DEF Shape, FilesKnown
<1>3. objs' = Append(objs, f) /\ marked' = Append(marked, 0)
      /\ parsed' = [parsed EXCEPT ![n] = Len(objs')]
  BY DEF ParseFile
<1>4. /\ objs' \in Seq(File) /\ Len(objs') = Len(objs) + 1 /\ DOMAIN objs' = 1..(Len(objs) + 1)
      /\ \A o \in 1..Len(objs) : objs'[o] = objs[o]
      /\ objs'[Len(objs) + 1] = f
  BY <1>2, <1>3, AppendProperties
<1>5. /\ marked' \in Seq(Nat) /\ Len(marked') = Len(objs) + 1
      /\ \A o \in 1..Len(objs) : marked'[o] = marked[o]
      /\ marked'[Len(objs) + 1] = 0
  BY <1>2, <1>3, AppendProperties
<1>6. FilesKnown'
  <2>1. ASSUME NEW o \in DOMAIN objs' PROVE marked'[o] \in 0..Len(objs'[o])
    <3>1. CASE o \in 1..Len(objs)
      BY <1>2, <1>4, <1>5, <3>1
    <3>2. CASE o = Len(objs) + 1
      <4>1. Len(f) \in Nat
        BY FileAssumption
      <4> QED BY <1>4, <1>5, <3>2, <4>1
    <3> QED BY <1>2, <1>4, <3>1, <3>2
  <2>2. parsed' \in [1..NameCount -> 0..Len(objs')]
    BY <1>2, <1>3, <1>4
  <2> QED BY <1>4, <1>5, <2>1, <2>2 DEF FilesKnown
<1>7. InPlace' /\ ResultsHeld' /\ TableStands' /\ Accepted(last)'
  <2>1. UNCHANGED <<symtab, status, pc, vals, failed, last>>
    BY DEF ParseFile
  <2>2. InPlace' /\ ResultsHeld'
    BY <1>1, <2>1 DEF Shape, InPlace, ResultsHeld
  <2>3. TableStands' /\ Accepted(last)'
    BY <1>1, <2>1 DEF Shape, TableStands, Accepted
  <2> QED BY <2>2, <2>3
<1>8. TextKnown'
  <2>1. \A i : AnItem(i) => AnItem(i)'
    BY <1>2, <1>4 DEF AnItem
  <2>2. text' = text
    BY DEF ParseFile
  <2> QED BY <2>1, <2>2 DEF Shape, TextKnown
<1> QED BY <1>6, <1>7, <1>8 DEF Shape

LEMMA ValidateShape ==
  ASSUME Shape, NEW s \in BOOLEAN, Validate(s)
  PROVE  Shape'
<1>1. pc = 0 /\ pc' = 0 /\ status' = "running"
  BY DEF Validate, Shape, InPlace
<1>2. FilesKnown' /\ TextKnown'
  BY DEF Validate, env, Shape, FilesKnown, TextKnown, AnItem
<1>3. InPlace' /\ ResultsHeld' /\ TableStands' /\ Accepted(last)'
  BY <1>1, SMTT(20) DEF Validate, env, Shape, InPlace, ResultsHeld, TableStands, Accepted
<1> QED BY <1>2, <1>3 DEF Shape

LEMMA EndValidateShape ==
  ASSUME Shape, EndValidate
  PROVE  Shape'
<1>1. pc = 0 /\ pc' = 0 /\ status' = "idle"
  BY DEF EndValidate
<1>2. FilesKnown' /\ TextKnown'
  BY DEF EndValidate, env, Shape, FilesKnown, TextKnown, AnItem
<1>3. InPlace' /\ ResultsHeld' /\ TableStands' /\ Accepted(last)'
  BY <1>1 DEF EndValidate, env, Shape, InPlace, ResultsHeld, TableStands, Accepted
<1> QED BY <1>2, <1>3 DEF Shape

(* The item that is next is one that has not been marked.                  *)
LEMMA NextItem ==
  ASSUME Shape, BeginItem
  PROVE  /\ AnItem(cur)' /\ pc = 0 /\ pc' = 1 /\ code' \in Statement
         /\ marked' \in Seq(Nat) /\ Len(marked') = Len(objs)
         /\ \A o \in DOMAIN objs : marked'[o] \in 0..Len(objs[o])
<1> DEFINE n == Min(Unmarked)
           o == parsed[n]
           k == marked[o] + 1
<1>1. n \in 1..NameCount /\ o # 0 /\ marked[o] < Len(objs[o])
  <2>1. Unmarked \subseteq Nat /\ Unmarked # {}
    BY BoundsAssumption DEF Unmarked, BeginItem
  <2>2. n \in Unmarked
    BY <2>1, LeastIs
  <2> QED BY <2>2 DEF Unmarked
<1>2. /\ objs \in Seq(File) /\ marked \in Seq(Nat) /\ Len(marked) = Len(objs)
      /\ Len(objs) \in Nat /\ DOMAIN objs = 1..Len(objs)
      /\ \A i \in DOMAIN objs : marked[i] \in 0..Len(objs[i])
      /\ parsed \in [1..NameCount -> 0..Len(objs)]
  BY DEF Shape, FilesKnown
<1> HIDE DEF n
<1>3. o \in 1..Len(objs) /\ o \in Nat
  BY <1>1, <1>2
<1>4. marked' = [marked EXCEPT ![o] = k] /\ cur' = <<o, k>> /\ pc = 0 /\ pc' = 1 /\ objs' = objs
  BY DEF BeginItem, n
<1> HIDE DEF o
<1>5. objs[o] \in Seq(Statement)
  BY <1>2, <1>3, FileAssumption
<1>6. k \in 1..Len(objs[o]) /\ k \in Nat
  BY <1>1, <1>2, <1>3, <1>5
<1> HIDE DEF k
<1>7. objs[o][k] \in Statement /\ k \in DOMAIN objs[o]
  BY <1>5, <1>6
<1>8. AnItem(cur)' /\ code' \in Statement
  BY <1>2, <1>3, <1>4, <1>6, <1>7 DEF AnItem, code
<1>9. /\ marked' \in Seq(Nat) /\ Len(marked') = Len(objs)
      /\ \A i \in 1..Len(objs) : marked'[i] = IF i = o THEN k ELSE marked[i]
  BY <1>2, <1>3, <1>4, <1>6, ExceptSeq
<1>10. ASSUME NEW i \in DOMAIN objs PROVE marked'[i] \in 0..Len(objs[i])
  <2>1. marked'[i] = IF i = o THEN k ELSE marked[i]
    BY <1>2, <1>9
  <2>2. CASE i = o
    BY <1>6, <2>1, <2>2
  <2>3. CASE i # o
    BY <1>2, <2>1, <2>3
  <2> QED BY <2>2, <2>3
<1> QED BY <1>4, <1>8, <1>9, <1>10

LEMMA BeginItemShape ==
  ASSUME Shape, BeginItem
  PROVE  Shape'
<1>1. /\ AnItem(cur)' /\ pc = 0 /\ pc' = 1 /\ code' \in Statement
      /\ marked' \in Seq(Nat) /\ Len(marked') = Len(objs)
      /\ \A o \in DOMAIN objs : marked'[o] \in 0..Len(objs[o])
  BY NextItem
<1>2. /\ objs' = objs /\ parsed' = parsed /\ symtab' = symtab /\ status' = "running" /\ vals' = vals
      /\ text' = text /\ failed' = failed /\ last' = last
  BY DEF BeginItem
<1>3. FilesKnown' /\ TextKnown'
  BY <1>1, <1>2 DEF Shape, FilesKnown, TextKnown, AnItem
<1>4. /\ Operands(code')[0] = 0 /\ Level(code', 0) = 1 /\ pc' - 1 = 0 /\ Len(code') \in Nat
      /\ pc' <= Len(code') + 1
  <2>1. code' \in Seq(Check)
    BY <1>1, StatementIs
  <2>2. Operands(code')[0] = 0
    BY <2>1, OperandsAre
  <2>3. Level(code', 0) = 1
    BY <1>1, StatementIs
  <2> HIDE DEF Level
  <2> QED BY <1>1, <2>1, <2>2, <2>3
<1> HIDE DEF Level
<1>5. InPlace'
  BY <1>1, <1>2, <1>4 DEF InPlace
<1>6. ResultsHeld'
  BY <1>1, <1>2, <1>4 DEF Shape, ResultsHeld
<1>7. TableStands'
  BY <1>1, <1>2, <1>4 DEF Shape, TableStands
<1> QED BY <1>2, <1>3, <1>5, <1>6, <1>7 DEF Shape, Accepted

LEMMA EndItemShape ==
  ASSUME Shape, EndItem
  PROVE  Shape' /\ Len(vals) = 0 /\ (~failed => Len(symtab) = 1) /\ pc = Len(code) + 1
<1>1. /\ AnItem(cur) /\ code \in Statement /\ pc \in Nat /\ pc > Len(code) /\ pc <= Len(code) + 1
      /\ pc > 0
  BY CodeIs DEF EndItem, Shape, InPlace
<1>2. Len(code) \in Nat /\ Operands(code)[Len(code)] = 0 /\ Level(code, Len(code)) = 1
  BY <1>1, StatementIs
<1>3. pc = Len(code) + 1 /\ pc - 1 = Len(code)
  BY <1>1, <1>2
<1>4. Len(vals) = 0
  BY <1>1, <1>2, <1>3 DEF Shape, ResultsHeld
<1>5. ~failed => Len(symtab) = 1
  BY <1>1, <1>2, <1>3 DEF Shape, TableStands
<1>6. FilesKnown'
  BY DEF EndItem, env, Shape, FilesKnown
<1>7. InPlace' /\ ResultsHeld' /\ TableStands' /\ Accepted(last)'
  BY <1>4, <1>5 DEF EndItem, env, Shape, InPlace, ResultsHeld, TableStands, Accepted, Nothing
<1>8. TextKnown'
  <2>1. text' = Append(text, cur) /\ objs' = objs
    BY DEF EndItem, env
  <2>2. text \in Seq(Nat \X Nat) /\ cur \in Nat \X Nat /\ \A i \in DOMAIN text : AnItem(text[i])
    BY <1>1 DEF Shape, TextKnown, AnItem
  <2>3. /\ text' \in Seq(Nat \X Nat) /\ DOMAIN text' = 1..(Len(text) + 1)
        /\ \A i \in 1..Len(text) : text'[i] = text[i]
        /\ text'[Len(text) + 1] = cur
    BY <2>1, <2>2, AppendProperties
  <2>4. ASSUME NEW i \in DOMAIN text' PROVE AnItem(text'[i])
    <3>1. CASE i \in 1..Len(text)
      <4>1. i \in DOMAIN text
        BY <2>2, <3>1
      <4> QED BY <2>2, <2>3, <3>1, <4>1
    <3>2. CASE i = Len(text) + 1
      BY <1>1, <2>3, <3>2
    <3>3. i \in 1..Len(text) \/ i = Len(text) + 1
      BY <2>2, <2>3
    <3> QED BY <3>1, <3>2, <3>3
  <2> QED BY <2>1, <2>3, <2>4 DEF TextKnown, AnItem
<1> QED BY <1>3, <1>4, <1>5, <1>6, <1>7, <1>8 DEF Shape

(* The scopes there are when the check that is next has been made.         *)
LEMMA LevelHere ==
  ASSUME Shape, pc > 0, pc <= Len(code)
  PROVE  /\ visit.op = "new_scope" => Level(code, pc) = Level(code, pc - 1) + 1
         /\ visit.op = "end_scope" => Level(code, pc) = Level(code, pc - 1) - 1
         /\ visit.op \notin {"new_scope", "end_scope"} => Level(code, pc) = Level(code, pc - 1)
<1>1. pc - 1 \in Nat /\ (pc - 1) + 1 = pc /\ visit = code[pc]
  BY AtCheck
<1> QED BY <1>1, LevelStep

LEMMA RunningAt ==
  ASSUME Shape, NEW op, At(op)
  PROVE  status = "running" /\ pc > 0 /\ pc <= Len(code) /\ visit.op = op /\ visit \in Check
BY AtCheck DEF At

LEMMA NewScopeShape ==
  ASSUME Shape, NewScope
  PROVE  Shape'
<1>1. /\ status = "running" /\ pc > 0 /\ pc <= Len(code) /\ visit.op = "new_scope"
      /\ visit \in Check
  BY RunningAt DEF NewScope
<1>2. Takes(visit) = 0 /\ Leaves(visit) = 0
  BY <1>1, CheckIs
<1>3. symtab \in Seq(Context) /\ Len(symtab) \in Nat
  BY DEF Shape, TableStands
<1>4. <<>> \in Context
  <2>1. <<>> \in [{} -> Entry]
    OBVIOUS
  <2> QED BY <2>1 DEF Context
<1>5. symtab' \in Seq(Context) /\ Len(symtab') = Len(symtab) + 1 /\ symtab' # <<>>
  BY <1>3, <1>4, AppendProperties DEF NewScope
<1>6. ~failed => Len(symtab') = Level(code, pc)
  BY <1>1, <1>5, AtCheck, LevelHere
<1>7. vals' = vals /\ vals \in Seq(Result) /\ Len(vals) \in Nat
  BY DEF NewScope, Shape, ResultsHeld
<1>8. Accepted(last')
  BY DEF NewScope, Accepted, Nothing
<1>9. Keep /\ Go
  BY DEF NewScope
<1> HIDE DEF Shape, Level
<1> QED BY <1>1, <1>2, <1>5, <1>6, <1>7, <1>8, <1>9, NextCheckShape

LEMMA PopContextIs ==
  ASSUME Shape
  PROVE  /\ PopContext \in Seq(Context) /\ PopContext # <<>>
         /\ Len(symtab) > 1 =>
              /\ Len(PopContext) = Len(symtab) - 1
              /\ \A c \in 1..(Len(symtab) - 1) : PopContext[c] = symtab[c]
<1>1. symtab \in Seq(Context) /\ Len(symtab) \in Nat /\ symtab # <<>>
  BY DEF Shape, TableStands
<1>2. CASE Len(symtab) > 1
  <2>1. PopContext = SubSeq(symtab, 1, Len(symtab) - 1)
    BY <1>2 DEF PopContext, Front
  <2>2. /\ \A i \in 1..(Len(symtab) - 1) : symtab[i] \in Context
        /\ 1 \in Int /\ Len(symtab) - 1 \in Int /\ 1 <= Len(symtab) - 1
    BY <1>1, <1>2
  <2>3. /\ PopContext \in Seq(Context) /\ Len(PopContext) = Len(symtab) - 1
        /\ \A i \in 1..(Len(symtab) - 1) : PopContext[i] = symtab[i]
    BY <1>1, <2>1, <2>2, SubSeqProperties
  <2>4. PopContext # <<>>
    <3>1. Len(PopContext) # 0
      BY <2>2, <2>3
    <3> QED BY <3>1, EmptySeq
  <2> QED BY <2>3, <2>4
<1>3. CASE ~ (Len(symtab) > 1)
  BY <1>1, <1>3 DEF PopContext
<1> QED BY <1>2, <1>3

LEMMA EndScopeShape ==
  ASSUME Shape, EndScope
  PROVE  Shape' /\ (~failed => Len(symtab) > 1)
<1>1. /\ status = "running" /\ pc > 0 /\ pc <= Len(code) /\ visit.op = "end_scope"
      /\ visit \in Check
  BY RunningAt DEF EndScope
<1>2. Takes(visit) = 0 /\ Leaves(visit) = 0
  BY <1>1, CheckIs
<1>3. ~failed => Len(symtab) > 1 /\ Len(symtab) - 1 = Level(code, pc)
  BY <1>1, AtCheck, LevelHere
<1>4. symtab' \in Seq(Context) /\ symtab' # <<>> /\ (~failed => Len(symtab') = Level(code, pc))
  BY <1>3, PopContextIs DEF EndScope
<1>5. vals' = vals /\ vals \in Seq(Result) /\ Len(vals) \in Nat
  BY DEF EndScope, Shape, ResultsHeld
<1>6. Accepted(last')
  BY DEF EndScope, Accepted, Nothing
<1>7. Keep /\ Go
  BY DEF EndScope
<1> HIDE DEF Shape, Level
<1> QED BY <1>1, <1>2, <1>3, <1>4, <1>5, <1>6, <1>7, NextCheckShape

(* The table with another symbol in the current scope.                     *)
LEMMA ArgsMade == ArgsDef \in Nat \X Nat \X Nat /\ ArgsType \in AnyType /\ "args" \in Symbol
<1>1. Type("list") \in AnyType /\ Type("var") \in Member
  BY TypesMade DEF Primitive
<1>2. Type("list").arguments = <<>> /\ <<Type("var")>> \in Seq(Member)
  BY <1>1 DEF Type
<1>3. ArgsType \in AnyType
  BY <1>1, <1>2, TypesMade DEF ArgsType
<1> QED BY <1>3 DEF ArgsDef, Symbol

LEMMA ArgsAdded ==
  ASSUME TableStands, NEW tab, tab = Adding("args", ArgsDef, ArgsType)
  PROVE  tab \in Seq(Context) /\ Len(tab) = Len(symtab) /\ tab # <<>>
BY ArgsMade, AddingIs

LEMMA AddArgsShape ==
  ASSUME Shape, AddArgs
  PROVE  Shape'
<1>1. /\ status = "running" /\ pc > 0 /\ pc <= Len(code) /\ visit.op = "args"
      /\ visit \in Check
  BY RunningAt DEF AddArgs
<1>2. Takes(visit) = 0 /\ Leaves(visit) = 0
  BY <1>1, CheckIs
<1>3. TableStands /\ symtab \in Seq(Context) /\ symtab # <<>>
  BY DEF Shape, TableStands
<1>4. symtab' \in Seq(Context) /\ symtab' # <<>> /\ Len(symtab') = Len(symtab)
  BY <1>3, ArgsAdded DEF AddArgs
<1>5. ~failed => Len(symtab') = Level(code, pc)
  BY <1>1, <1>4, AtCheck, LevelHere
<1>6. vals' = vals /\ vals \in Seq(Result) /\ Len(vals) \in Nat
  BY DEF AddArgs, Shape, ResultsHeld
<1>7. Accepted(last')
  BY DEF AddArgs, Accepted, Nothing
<1>8. Keep /\ Go
  BY DEF AddArgs
<1> HIDE DEF Shape, Level
<1> QED BY <1>1, <1>2, <1>4, <1>5, <1>6, <1>7, <1>8, NextCheckShape

LEMMA ResolveShape ==
  ASSUME Shape, Resolve
  PROVE  Shape'
<1> DEFINE def == lookup(visit.sym)
           fresh == def # None /\ def[1].def = ArgsDef /\ ~args_done
           found == IF def = None THEN [type |-> Type("var"), constexpr |-> FALSE]
                    ELSE [type |-> def[1].type, constexpr |-> is_const(def[1].type)]
<1>1. /\ status = "running" /\ pc > 0 /\ pc <= Len(code) /\ visit.op = "use"
      /\ visit \in Check
  BY RunningAt DEF Resolve
<1>2. Takes(visit) = 0 /\ Leaves(visit) = 1
  BY <1>1, CheckIs
<1>3. TableStands /\ symtab \in Seq(Context) /\ symtab # <<>>
  BY DEF Shape, TableStands
<1>4. Keep
  BY DEF Resolve
<1>5. CASE SyntaxError
  BY <1>4, <1>5, ErrorShape
<1>6. CASE /\ vals' = Append(vals, found)
           /\ symtab' = IF fresh THEN Adding("args", ArgsDef, ArgsType) ELSE symtab
           /\ last' = [kind |-> "use", sym |-> visit.sym,
                       def |-> IF def = None THEN NoDef ELSE def[1].def]
           /\ Go
  <2>1. found \in Result
    <3>1. CASE def = None
      <4>1. Type("var") \in AnyType
        BY TypesMade DEF Primitive
      <4> QED BY <3>1, <4>1 DEF Result
    <3>2. CASE def # None
      <4>1. def[1].type \in AnyType
        BY <1>3, <3>2, LookupIs DEF Entry
      <4>2. is_const(def[1].type) \in BOOLEAN
        BY DEF is_const
      <4> HIDE DEF def
      <4> QED BY <3>2, <4>1, <4>2 DEF Result
    <3> QED BY <3>1, <3>2
  <2> HIDE DEF found, fresh, def
  <2>2. vals \in Seq(Result) /\ Len(vals) \in Nat
    BY DEF Shape, ResultsHeld
  <2>3. vals' \in Seq(Result) /\ Len(vals') = Len(vals) - Takes(visit) + Leaves(visit)
    BY <1>2, <1>6, <2>1, <2>2, AppendProperties
  <2>4. symtab' \in Seq(Context) /\ symtab' # <<>> /\ Len(symtab') = Len(symtab)
    BY <1>3, <1>6, ArgsAdded
  <2>5. ~failed => Len(symtab') = Level(code, pc)
    BY <1>1, <2>4, AtCheck, LevelHere
  <2>6. Accepted(last')
    BY <1>6 DEF Accepted
  <2> HIDE DEF Shape, Level
  <2> QED BY <1>1, <1>4, <1>6, <2>3, <2>4, <2>5, <2>6, NextCheckShape
<1> QED BY <1>5, <1>6 DEF Resolve

LEMMA ResultPushed ==
  ASSUME Shape, pc > 0, pc <= Len(code), Takes(visit) = visit.n,
         NEW type \in AnyType, NEW constexpr \in BOOLEAN, NEW s, s = Pushed(type, constexpr)
  PROVE  s \in Seq(Result) /\ Len(s) = Len(vals) - Takes(visit) + 1
<1>1. Len(vals) \in Nat /\ visit.n \in Nat /\ visit.n <= Len(vals) /\ vals \in Seq(Result)
  BY AtCheck DEF Shape, ResultsHeld
<1> DEFINE n == Len(vals) - visit.n
           v == [type |-> type, constexpr |-> constexpr]
<1>2. n \in Nat /\ n <= Len(vals)
  BY <1>1
<1> HIDE DEF n
<1>3. \A i \in 1..n : vals[i] \in Result
  BY <1>1, <1>2
<1>4. SubSeq(vals, 1, n) \in Seq(Result) /\ Len(SubSeq(vals, 1, n)) = n
  BY <1>2, <1>3, SubSeqProperties
<1>5. v \in Result
  BY DEF Result
<1>6. s = Append(SubSeq(vals, 1, n), v)
  BY DEF Pushed, n
<1> HIDE DEF v
<1>7. s \in Seq(Result) /\ Len(s) = n + 1
  BY <1>2, <1>4, <1>5, <1>6, AppendProperties
<1> QED BY <1>1, <1>7 DEF n

LEMMA OperateShape ==
  ASSUME Shape, Operate
  PROVE  Shape'
<1>1. /\ status = "running" /\ pc > 0 /\ pc <= Len(code) /\ visit.op \in Operators
      /\ visit \in Check
  BY RunningAt DEF Operate
<1>2. Takes(visit) = visit.n /\ Leaves(visit) = 1 /\ (visit.op = "assign" => visit.n = 2)
  BY <1>1, CheckIs DEF BinaryOps
<1>3. Keep
  BY DEF Operate
<1>4. CASE SyntaxError
  BY <1>3, <1>4, ErrorShape
<1>5. CASE /\ Valid
           /\ vals' = Pushed(ResultType, IsConstexpr)
           /\ last' = IF visit.op = "assign"
                      THEN [kind |-> "accepted", to |-> T(1), from |-> T(2)] ELSE Nothing
           /\ UNCHANGED symtab
           /\ Go
  <2>1. ResultType \in AnyType /\ IsConstexpr \in BOOLEAN
    BY <1>1, ResultTyped DEF Operate
  <2>2. vals' \in Seq(Result) /\ Len(vals') = Len(vals) - Takes(visit) + Leaves(visit)
    BY <1>1, <1>2, <1>5, <2>1, ResultPushed
  <2>3. symtab' \in Seq(Context) /\ symtab' # <<>> /\ Len(symtab') = Len(symtab)
    BY <1>5 DEF Shape, TableStands
  <2>4. ~failed => Len(symtab') = Level(code, pc)
    <3>1. visit.op \notin {"new_scope", "end_scope"}
      BY <1>1 DEF Operators, UnaryOps, BinaryOps, Arithmetic
    <3> QED BY <1>1, <2>3, <3>1, AtCheck, LevelHere
  <2>5. Accepted(last')
    <3>1. CASE visit.op = "assign"
      <4>1. T(1) \in AnyType /\ T(2) \in AnyType
        BY <1>1, <1>2, <3>1, OperandsTyped
      <4>2. is_assignable_from(T(1), T(2), FALSE)
        BY <1>5, <3>1 DEF Valid, Arithmetic
      <4> QED BY <1>5, <3>1, <4>1, <4>2 DEF Accepted, is_assignable_from
    <3>2. CASE visit.op # "assign"
      BY <1>5, <3>2 DEF Accepted, Nothing
    <3> QED BY <3>1, <3>2
  <2> HIDE DEF Shape, Level
  <2> QED BY <1>1, <1>3, <1>5, <2>2, <2>3, <2>4, <2>5, NextCheckShape
<1> QED BY <1>4, <1>5 DEF Operate

LEMMA PushLiteralShape ==
  ASSUME Shape, PushLiteral
  PROVE  Shape'
<1>1. /\ status = "running" /\ pc > 0 /\ pc <= Len(code) /\ visit.op = "literal"
      /\ visit \in Check
  BY RunningAt DEF PushLiteral
<1>2. Takes(visit) = 0 /\ Leaves(visit) = 1 /\ visit.type \in AnyType
  BY <1>1, CheckIs
<1> DEFINE v == [type |-> visit.type, constexpr |-> TRUE]
<1>3. v \in Result /\ vals \in Seq(Result) /\ Len(vals) \in Nat /\ vals' = Append(vals, v)
  BY <1>2 DEF Result, PushLiteral, Shape, ResultsHeld
<1> HIDE DEF v
<1>4. vals' \in Seq(Result) /\ Len(vals') = Len(vals) - Takes(visit) + Leaves(visit)
  BY <1>2, <1>3, AppendProperties
<1>5. symtab' = symtab /\ symtab \in Seq(Context) /\ symtab # <<>>
  BY DEF PushLiteral, Shape, TableStands
<1>6. ~failed => Len(symtab') = Level(code, pc)
  BY <1>1, <1>5, AtCheck, LevelHere
<1>7. Accepted(last') /\ Keep /\ Go
  BY DEF PushLiteral, Accepted, Nothing
<1> HIDE DEF Shape, Level
<1> QED BY <1>1, <1>4, <1>5, <1>6, <1>7, NextCheckShape

LEMMA ParameterShape ==
  ASSUME Shape, Parameter
  PROVE  Shape'
<1>1. /\ status = "running" /\ pc > 0 /\ pc <= Len(code) /\ visit.op = "param"
      /\ visit \in Check
  BY RunningAt DEF Parameter
<1>2. Takes(visit) = 0 /\ Leaves(visit) = 0
  BY <1>1, CheckIs
<1>3. vals \in Seq(Result) /\ Len(vals) \in Nat /\ vals' = vals
  BY DEF Parameter, Shape, ResultsHeld
<1>4. vals' \in Seq(Result) /\ Len(vals') = Len(vals) - Takes(visit) + Leaves(visit)
  BY <1>2, <1>3
<1>5. symtab' = symtab /\ symtab \in Seq(Context) /\ symtab # <<>>
  BY DEF Parameter, Shape, TableStands
<1>6. ~failed => Len(symtab') = Level(code, pc)
  BY <1>1, <1>5, AtCheck, LevelHere
<1>7. Accepted(last') /\ Keep /\ Go
  BY DEF Parameter, Accepted, Nothing
<1> HIDE DEF Shape, Level
<1> QED BY <1>1, <1>4, <1>5, <1>6, <1>7, NextCheckShape

LEMMA DropShape ==
  ASSUME Shape, Drop
  PROVE  Shape'
<1>1. /\ status = "running" /\ pc > 0 /\ pc <= Len(code) /\ visit.op = "drop"
      /\ visit \in Check
  BY RunningAt DEF Drop
<1>2. Takes(visit) = 1 /\ Leaves(visit) = 0
  BY <1>1, CheckIs
<1>3. Len(vals) \in Nat /\ 1 <= Len(vals) /\ vals \in Seq(Result)
  BY <1>1, <1>2, AtCheck DEF Shape, ResultsHeld
<1> DEFINE n == Len(vals) - 1
<1>4. n \in Nat /\ n <= Len(vals) /\ vals' = SubSeq(vals, 1, n)
  BY <1>3 DEF Drop, Front
<1> HIDE DEF n
<1>5. \A i \in 1..n : vals[i] \in Result
  BY <1>3, <1>4
<1>6. vals' \in Seq(Result) /\ Len(vals') = n
  BY <1>4, <1>5, SubSeqProperties
<1>7. Len(vals') = Len(vals) - Takes(visit) + Leaves(visit)
  BY <1>2, <1>3, <1>6 DEF n
<1>8. symtab' = symtab /\ symtab \in Seq(Context) /\ symtab # <<>>
  BY DEF Drop, Shape, TableStands
<1>9. ~failed => Len(symtab') = Level(code, pc)
  BY <1>1, <1>8, AtCheck, LevelHere
<1>10. Accepted(last') /\ Keep /\ Go
  BY DEF Drop, Accepted, Nothing
<1> HIDE DEF Shape, Level
<1> QED BY <1>1, <1>6, <1>7, <1>8, <1>9, <1>10, NextCheckShape

(* The initializer of a definition, if it has one.                         *)
LEMMA InitializerIs ==
  ASSUME Shape, pc > 0, pc <= Len(code), visit.op = "define",
         NEW init, init = [i \in 1..visit.n |-> T(i)]
  PROVE  /\ visit.n = 0 => init = <<>>
         /\ visit.n = 1 => init # <<>> /\ init[1] = T(1) /\ T(1) \in AnyType
<1>1. visit.n \in {0, 1} /\ Takes(visit) = visit.n
  BY AtCheck, CheckIs
<1>2. \A i \in 1..visit.n : T(i) \in AnyType
  BY <1>1, OperandsTyped
<1>3. init \in Seq(AnyType) /\ Len(init) = visit.n
  BY <1>1, <1>2
<1>4. visit.n = 0 => init = <<>>
  BY <1>3, EmptySeq
<1>5. visit.n = 1 => init # <<>>
  BY <1>3, EmptySeq
<1> QED BY <1>2, <1>4, <1>5

LEMMA DefineShape ==
  ASSUME Shape, Define
  PROVE  Shape'
<1> DEFINE init == [i \in 1..visit.n |-> T(i)]
           final == FinalType(visit.type, init)
<1>1. /\ status = "running" /\ pc > 0 /\ pc <= Len(code) /\ visit.op = "define"
      /\ visit \in Check
  BY RunningAt DEF Define
<1>2. /\ Takes(visit) = visit.n /\ Leaves(visit) = 0 /\ visit.n \in {0, 1}
      /\ visit.sym \in Symbol /\ visit.type \in AnyType
  BY <1>1, CheckIs DEF Symbol
<1>3. /\ visit.n = 0 => init = <<>>
      /\ visit.n = 1 => init # <<>> /\ init[1] = T(1) /\ T(1) \in AnyType
  BY <1>1, InitializerIs
<1>4. Keep
  BY DEF Define
<1>5. CASE NoSuchArgument(visit.type, init)
  <2>1. /\ status' = "dead"
        /\ UNCHANGED <<symtab, pc, vals, failed, last, objs, parsed, marked, cur, text>>
    BY <1>4, <1>5 DEF Define, Keep
  <2>2. FilesKnown' /\ TextKnown'
    BY <2>1 DEF Shape, FilesKnown, TextKnown, AnItem
  <2>3. InPlace'
    BY <2>1 DEF Shape, InPlace, AnItem, code
  <2>4. ResultsHeld'
    BY <2>1 DEF Shape, ResultsHeld, code
  <2>5. TableStands'
    <3>1. code' = code
      BY <2>1 DEF code
    <3> HIDE DEF Level
    <3>2. Level(code', pc' - 1) = Level(code, pc - 1)
      BY <2>1, <3>1
    <3> QED BY <2>1, <3>2 DEF Shape, TableStands
  <2>6. Accepted(last')
    BY <2>1 DEF Shape
  <2> QED BY <2>2, <2>3, <2>4, <2>5, <2>6 DEF Shape
<1>6. CASE SyntaxError
  BY <1>4, <1>6, ErrorShape
<1>7. CASE /\ ~NoSuchArgument(visit.type, init)
           /\ ~ (init # <<>> /\ ~is_initializable_from(final, init[1]))
           /\ symtab' = Adding(visit.sym, <<cur[1], cur[2], pc>>, final)
           /\ vals' = SubSeq(vals, 1, Len(vals) - visit.n)
           /\ last' = IF init = <<>> THEN Nothing
                      ELSE [kind |-> "accepted", to |-> final, from |-> init[1]]
           /\ Go
  <2>1. init = <<>> \/ (init # <<>> /\ init[1] \in AnyType)
    BY <1>2, <1>3
  <2> HIDE DEF init
  <2>2. final \in AnyType
    BY <1>2, <1>7, <2>1, FinalTyped
  <2> HIDE DEF final
  <2>3. <<cur[1], cur[2], pc>> \in Nat \X Nat \X Nat
    BY <1>1 DEF Shape, InPlace, AnItem
  <2>4. TableStands
    BY DEF Shape
  <2>5. symtab' \in Seq(Context) /\ symtab' # <<>> /\ Len(symtab') = Len(symtab)
    BY <1>2, <1>7, <2>2, <2>3, <2>4, AddingIs
  <2>6. ~failed => Len(symtab') = Level(code, pc)
    BY <1>1, <2>5, AtCheck, LevelHere
  <2> DEFINE n == Len(vals) - visit.n
  <2>7. n \in Nat /\ n <= Len(vals) /\ vals \in Seq(Result) /\ Len(vals) \in Nat
    BY <1>1, <1>2, AtCheck DEF Shape, ResultsHeld
  <2>8. vals' = SubSeq(vals, 1, n)
    BY <1>7
  <2> HIDE DEF n
  <2>9. \A i \in 1..n : vals[i] \in Result
    BY <2>7
  <2>10. vals' \in Seq(Result) /\ Len(vals') = n
    BY <2>7, <2>8, <2>9, SubSeqProperties
  <2>11. Len(vals') = Len(vals) - Takes(visit) + Leaves(visit)
    BY <1>2, <2>7, <2>10 DEF n
  <2>12. Accepted(last')
    <3>1. CASE init = <<>>
      BY <1>7, <3>1 DEF Accepted, Nothing
    <3>2. CASE init # <<>>
      <4>1. Assignable[<<final, init[1], TRUE>>] /\ init[1] \in AnyType
        BY <1>7, <2>1, <3>2 DEF is_initializable_from, is_assignable_from
      <4> QED BY <1>7, <2>2, <3>2, <4>1 DEF Accepted
    <3> QED BY <3>1, <3>2
  <2> HIDE DEF Shape, Level
  <2> QED BY <1>1, <1>4, <1>7, <2>5, <2>6, <2>10, <2>11, <2>12, NextCheckShape
<1>8. \/ NoSuchArgument(visit.type, init) \/ SyntaxError
      \/ /\ ~NoSuchArgument(visit.type, init)
         /\ ~ (init # <<>> /\ ~is_initializable_from(final, init[1]))
         /\ symtab' = Adding(visit.sym, <<cur[1], cur[2], pc>>, final)
         /\ vals' = SubSeq(vals, 1, Len(vals) - visit.n)
         /\ last' = IF init = <<>> THEN Nothing
                    ELSE [kind |-> "accepted", to |-> final, from |-> init[1]]
         /\ Go
  BY DEF Define
<1> HIDE DEF init, final
<1> QED BY <1>5, <1>6, <1>7, <1>8

LEMMA ShapeStep == Shape /\ [Next]_vars => Shape'
<1> SUFFICES ASSUME Shape, [Next]_vars PROVE Shape'
  OBVIOUS
<1>1. ASSUME NEW n \in 1..NameCount, NEW f \in File, ParseFile(n, f) PROVE Shape'
  BY <1>1, ParseFileShape
<1>2. ASSUME NEW s \in BOOLEAN, Validate(s) PROVE Shape'
  BY <1>2, ValidateShape
<1>3. CASE BeginItem
  BY <1>3, BeginItemShape
<1>4. CASE EndItem
  BY <1>4, EndItemShape
<1>5. CASE EndValidate
  BY <1>5, EndValidateShape
<1>6. CASE NewScope
  BY <1>6, NewScopeShape
<1>7. CASE EndScope
  BY <1>7, EndScopeShape
<1>8. CASE AddArgs
  BY <1>8, AddArgsShape
<1>9. CASE Resolve
  BY <1>9, ResolveShape
<1>10. CASE Operate
  BY <1>10, OperateShape
<1>11. CASE PushLiteral
  BY <1>11, PushLiteralShape
<1>12. CASE Drop
  BY <1>12, DropShape
<1>13. CASE Define
  BY <1>13, DefineShape
<1>14. CASE Parameter
  BY <1>14, ParameterShape
<1>15. CASE UNCHANGED vars
  <2>1. UNCHANGED <<objs, parsed, marked, symtab, status, cur, pc, vals, text, failed, last>>
    BY <1>15 DEF vars, env
  <2>2. code' = code
    BY <2>1 DEF code
  <2> HIDE DEF Level
  <2>3. Level(code', pc' - 1) = Level(code, pc - 1)
    BY <2>1, <2>2
  <2>4. FilesKnown' /\ TextKnown' /\ InPlace'
    BY <2>1, <2>2 DEF Shape, FilesKnown, TextKnown, AnItem, InPlace
  <2>5. ResultsHeld' /\ TableStands' /\ Accepted(last')
    BY <2>1, <2>2, <2>3 DEF Shape, ResultsHeld, TableStands
  <2> QED BY <2>4, <2>5 DEF Shape
<1> QED BY <1>1, <1>2, <1>3, <1>4, <1>5, <1>6, <1>7, <1>8, <1>9, <1>10, <1>11, <1>12, <1>13, <1>14,
        <1>15 DEF Next

LEMMA ShapeIsInvariant == Spec => []Shape
BY InitShape, ShapeStep, PTL DEF Spec

(* The invariant TypeOK, of any files: the stack of contexts never gets    *)
(* empty, is as deep as the blocks around the check that is next until     *)
(* there is an error, and the parts of a node are there when it is checked *)
(* (symbol_table.h:115).                                                   *)
THEOREM TypesAndDepthsHold == Spec => []TypeOK
<1>1. Shape => TypeOK
  <2> SUFFICES ASSUME Shape PROVE TypeOK
    OBVIOUS
  <2>1. /\ Len(marked) = Len(objs)
        /\ \A o \in DOMAIN objs : marked[o] \in 0..Len(objs[o])
        /\ parsed \in [1..NameCount -> 0..Len(objs)]
        /\ status \in {"idle", "running", "dead"}
    BY DEF Shape, FilesKnown, InPlace
  <2>2. Len(symtab) >= 1
    BY EmptySeq DEF Shape, TableStands
  <2>3. ~failed => Len(symtab) = 1 + (IF pc = 0 THEN 0 ELSE Depth(code, 0, pc - 1))
    BY DEF Shape, TableStands, Level
  <2>4. status = "running" /\ pc > 0 =>
          (pc <= Len(code) /\ "n" \in DOMAIN visit => Len(vals) >= visit.n)
    <3> SUFFICES ASSUME pc > 0, pc <= Len(code), "n" \in DOMAIN visit PROVE Len(vals) >= visit.n
      OBVIOUS
    <3>1. visit \in Check /\ Takes(visit) <= Len(vals) /\ Len(vals) \in Nat /\ Takes(visit) \in Nat
      BY AtCheck
    <3>2. Takes(visit) = visit.n
      BY <3>1, CheckIs
    <3> QED BY <3>1, <3>2
  <2>5. pc = 0 => vals = <<>>
    BY EmptySeq DEF Shape, ResultsHeld
  <2> QED BY <2>1, <2>2, <2>3, <2>4, <2>5 DEF TypeOK
<1> QED BY <1>1, ShapeIsInvariant, PTL

(* The invariant AcceptedIsSound, of types nested to any depth: a variable *)
(* that a value has been accepted for can hold every value of that type    *)
(* (type.h:118).                                                           *)
THEOREM AcceptedValuesFit == Spec => []AcceptedIsSound
<1>1. Shape => AcceptedIsSound
  <2> SUFFICES ASSUME Shape, last.kind = "accepted", Definite[last.from],
                      NEW v \in Value, Gives[<<last.from, v>>]
               PROVE  Holds[<<last.to, v>>]
    BY DEF AcceptedIsSound
  <2>1. last.to \in AnyType /\ last.from \in AnyType
    BY DEF Shape, Accepted
  <2>2. PICK ic \in BOOLEAN : Assignable[<<last.to, last.from, ic>>]
    BY DEF Shape, Accepted
  <2>3. Sound(last.to)
    BY <2>1, AssignmentIsSound
  <2> QED BY <2>1, <2>2, <2>3 DEF Sound
<1> QED BY <1>1, ShapeIsInvariant, PTL

-----------------------------------------------------------------------------
(* How the symbol table and the text go together, until there is an error. *)

(* What the text defines around the check that is next is at its level.    *)
TextBinds ==
  \A sym \in Symbol : \A j \in InTheItem(sym, pc) :
    /\ sym \in DOMAIN symtab[Level(code, j)]
    /\ symtab[Level(code, j)][sym].def = DefinitionAt(j)

(* What the items before define at file scope is in the first context.     *)
FilesBind ==
  \A sym \in Symbol : \A d \in AtFileScope(sym) :
    sym \in DOMAIN symtab[1] /\ symtab[1][sym].def = d

(* The definition of "args" that its first use has added, in a block       *)
(* within the scope of a function and of no other "args".                  *)
FromUse(sym, c) ==
  /\ sym = "args" /\ symtab[c][sym].def = ArgsDef
  /\ \E j \in InTheItem("args", pc) :
       /\ code[j].op = "args" /\ Level(code, j) < c
       /\ \A k \in InTheItem("args", pc) : ~ (Level(code, j) < Level(code, k) /\ Level(code, k) <= c)
  /\ \E u \in Visible(code, pc) : code[u].op = "use" /\ Level(code, u) = c

Explained ==
  \A c \in DOMAIN symtab : \A sym \in DOMAIN symtab[c] :
    \/ \E j \in InTheItem(sym, pc) : Level(code, j) = c
    \/ c = 1 /\ AtFileScope(sym) # {}
    \/ FromUse(sym, c)

Bound == TextBinds /\ FilesBind /\ Explained

UsedAsText == last.kind = "use" => pc > 0 /\ last.def = DefinedBefore(last.sym, pc - 1)

Scoped == ~failed => Bound /\ UsedAsText

LEMMA AtFileScopeIs ==
  ASSUME NEW sym
  PROVE  \A d : d \in AtFileScope(sym) <=>
           \E i \in Range(text) : \E k \in 1..Len(objs[i[1]][i[2]]) :
             /\ d = <<i[1], i[2], k>>
             /\ Defines(objs[i[1]][i[2]], k, sym)
             /\ InBlockAround(objs[i[1]][i[2]], k, Len(objs[i[1]][i[2]]) + 1)
BY DEF AtFileScope

LEMMA InTheItemIs ==
  ASSUME NEW sym, NEW p
  PROVE  InTheItem(sym, p) = {j \in Visible(code, p) : Defines(code, j, sym)}
BY DEF InTheItem, Visible

LEMMA ItemStep ==
  ASSUME Shape, pc > 0, pc <= Len(code), NEW sym
  PROVE  InTheItem(sym, pc + 1) =
           {j \in InTheItem(sym, pc) : Level(code, j) <= Level(code, pc)}
             \cup (IF Defines(code, pc, sym) THEN {pc} ELSE {})
<1>1. pc \in Nat \ {0}
  BY AtCheck
<1>2. Visible(code, pc + 1) = {j \in Visible(code, pc) \cup {pc} : Level(code, j) <= Level(code, pc)}
  BY <1>1, VisibleStep
<1>3. Level(code, pc) <= Level(code, pc)
  BY AtCheck
<1> HIDE DEF Level
<1> QED BY <1>2, <1>3, InTheItemIs

(* The contexts there are, and the levels of what is in the text.          *)
LEMMA Levels ==
  ASSUME Shape, ~failed, pc > 0
  PROVE  /\ symtab \in Seq(Context) /\ DOMAIN symtab = 1..Len(symtab) /\ Len(symtab) \in Nat \ {0}
         /\ Len(symtab) = Level(code, pc - 1) /\ pc \in Nat \ {0}
         /\ \A j \in Visible(code, pc) :
              j \in 1..(pc - 1) /\ Level(code, j) \in 1..Len(symtab)
         /\ \A i, j \in Visible(code, pc) : i <= j => Level(code, i) <= Level(code, j)
         /\ \A sym, j : j \in InTheItem(sym, pc) =>
              j \in Visible(code, pc) /\ Defines(code, j, sym)
<1>1. symtab \in Seq(Context) /\ symtab # <<>> /\ Len(symtab) = Level(code, pc - 1)
      /\ pc \in Nat \ {0}
  BY DEF Shape, TableStands, InPlace
<1>2. DOMAIN symtab = 1..Len(symtab) /\ Len(symtab) \in Nat \ {0}
  BY <1>1, EmptySeq, LenProperties
<1>3. code \in Statement /\ pc <= Len(code) + 1
  BY <1>1, CodeIs DEF Shape, InPlace
<1>4. Len(code) \in Nat /\ \A k \in 0..Len(code) : Level(code, k) \in Nat \ {0}
  BY <1>3, StatementIs
<1> HIDE DEF Level
<1>5. ASSUME NEW j \in Visible(code, pc)
      PROVE  j \in 1..(pc - 1) /\ Level(code, j) \in 1..Len(symtab)
  <2>1. j \in 1..(pc - 1) /\ Level(code, j) <= Level(code, pc - 1)
    BY <1>1, VisibleHere
  <2>2. j \in 0..Len(code)
    BY <1>1, <1>3, <1>4, <2>1
  <2> QED BY <1>1, <1>2, <1>4, <2>1, <2>2
<1>6. ASSUME NEW i \in Visible(code, pc), NEW j \in Visible(code, pc), i <= j
      PROVE  Level(code, i) <= Level(code, j)
  <2>1. j \in i..(pc - 1) /\ pc \in Nat
    BY <1>1, <1>5, <1>6
  <2> QED BY <2>1, VisibleLevels
<1> QED BY <1>1, <1>2, <1>5, <1>6, InTheItemIs

(* The symbols of a context are symbols.                                   *)
LEMMA SymbolsAre ==
  ASSUME TableStands, NEW c \in DOMAIN symtab, NEW sym \in DOMAIN symtab[c]
  PROVE  sym \in Symbol
<1>1. symtab[c] \in Context
  BY DEF TableStands
<1> QED BY <1>1 DEF Context

LEMMA InitScoped == Init => Scoped
<1> SUFFICES ASSUME Init PROVE Scoped
  OBVIOUS
<1>1. pc = 0 /\ text = <<>> /\ symtab = <<<<>>>> /\ last.kind # "use"
  BY DEF Init, Nothing
<1>2. \A sym : InTheItem(sym, pc) = {}
  BY <1>1 DEF InTheItem
<1>3. \A sym : AtFileScope(sym) = {}
  <2>1. Range(text) = {}
    BY <1>1 DEF Range
  <2> QED BY <2>1, AtFileScopeIs
<1>4. \A c \in DOMAIN symtab : DOMAIN symtab[c] = {}
  BY <1>1
<1> QED BY <1>1, <1>2, <1>3, <1>4 DEF Scoped, Bound, TextBinds, FilesBind, Explained, UsedAsText

(* What the definitions of Scoped speak of when check pc has been made.    *)
LEMMA TextThen ==
  ASSUME Shape, pc > 0, pc <= Len(code), Keep, Go
  PROVE  /\ code' = code /\ pc' = pc + 1
         /\ \A sym : AtFileScope(sym)' = AtFileScope(sym)
         /\ \A j : DefinitionAt(j)' = DefinitionAt(j)
         /\ Visible(code', pc') = {j \in Visible(code, pc) \cup {pc} : Level(code, j) <= Level(code, pc)}
         /\ \A sym : InTheItem(sym, pc)' =
              {j \in InTheItem(sym, pc) : Level(code, j) <= Level(code, pc)}
                \cup (IF Defines(code, pc, sym) THEN {pc} ELSE {})
<1>1. objs' = objs /\ cur' = cur /\ text' = text /\ pc' = pc + 1
  BY DEF Keep, Go
<1>2. code' = code
  BY <1>1 DEF code
<1>3. \A sym : AtFileScope(sym)' = AtFileScope(sym)
  BY <1>1 DEF AtFileScope
<1>4. \A j : DefinitionAt(j)' = DefinitionAt(j)
  BY <1>1, <1>2 DEF DefinitionAt
<1>5. \A sym : InTheItem(sym, pc)' = InTheItem(sym, pc + 1)
  BY <1>1, <1>2 DEF InTheItem
<1>6. pc \in Nat \ {0}
  BY AtCheck
<1> HIDE DEF Level
<1>7. Visible(code', pc') = {j \in Visible(code, pc) \cup {pc} : Level(code, j) <= Level(code, pc)}
  BY <1>1, <1>2, <1>6, VisibleStep
<1> QED BY <1>1, <1>2, <1>3, <1>4, <1>5, <1>7, ItemStep

(* A check that keeps the entries of the contexts that stay, and adds no   *)
(* others than its own definition or a first use of "args", keeps the      *)
(* table bound to the text.                                                *)
LEMMA BindingsKept ==
  ASSUME Shape, Shape', ~failed, Bound, pc > 0, pc <= Len(code), Keep, Go,
         \A c \in DOMAIN symtab' : c \in DOMAIN symtab =>
           \A s \in DOMAIN symtab[c] :
             s \in DOMAIN symtab'[c] /\ symtab'[c][s] = symtab[c][s],
         \A c \in DOMAIN symtab' : \A s \in DOMAIN symtab'[c] :
           \/ c \in DOMAIN symtab /\ s \in DOMAIN symtab[c]
           \/ c = Level(code, pc) /\ Defines(code, pc, s)
           \/ FromUse(s, c)',
         \A s \in Symbol : Defines(code, pc, s) =>
           /\ s \notin DOMAIN Current
           /\ s \in DOMAIN symtab'[Level(code, pc)]
           /\ symtab'[Level(code, pc)][s].def = DefinitionAt(pc)
  PROVE  Bound'
<1> DEFINE L == Level(code, pc)
<1>1. /\ code' = code /\ pc' = pc + 1
      /\ \A sym : AtFileScope(sym)' = AtFileScope(sym)
      /\ \A j : DefinitionAt(j)' = DefinitionAt(j)
      /\ Visible(code', pc') = {j \in Visible(code, pc) \cup {pc} : Level(code, j) <= L}
      /\ \A sym : InTheItem(sym, pc)' =
           {j \in InTheItem(sym, pc) : Level(code, j) <= L}
             \cup (IF Defines(code, pc, sym) THEN {pc} ELSE {})
  BY TextThen
<1>2. /\ DOMAIN symtab = 1..Len(symtab) /\ Len(symtab) \in Nat \ {0}
      /\ Len(symtab) = Level(code, pc - 1)
      /\ \A j \in Visible(code, pc) : Level(code, j) \in 1..Len(symtab)
      /\ \A sym, j : j \in InTheItem(sym, pc) => j \in Visible(code, pc) /\ Defines(code, j, sym)
  BY Levels
<1>3. pc' - 1 = pc /\ pc' > 0 /\ ~failed' /\ pc \in Nat
  BY <1>1, AtCheck DEF Go
<1> HIDE DEF Level
<1>4. DOMAIN symtab' = 1..Len(symtab') /\ Len(symtab') \in Nat \ {0} /\ Len(symtab') = L
  <2>1. symtab' \in Seq(Context) /\ symtab' # <<>> /\ (~failed' => Len(symtab') = Level(code', pc' - 1))
    BY <1>3 DEF Shape, TableStands
  <2> QED BY <1>1, <1>3, <2>1, EmptySeq, LenProperties
<1> HIDE DEF L
<1>5. TextBinds'
  <2> SUFFICES ASSUME NEW sym \in Symbol, NEW j \in InTheItem(sym, pc)'
               PROVE  /\ sym \in DOMAIN symtab'[Level(code, j)]
                      /\ symtab'[Level(code, j)][sym].def = DefinitionAt(j)
    BY <1>1 DEF TextBinds
  <2>1. CASE j \in InTheItem(sym, pc) /\ Level(code, j) <= L
    <3>1. Level(code, j) \in DOMAIN symtab /\ Level(code, j) \in DOMAIN symtab'
      BY <1>2, <1>4, <2>1
    <3>2. /\ sym \in DOMAIN symtab[Level(code, j)]
          /\ symtab[Level(code, j)][sym].def = DefinitionAt(j)
      BY <2>1 DEF Bound, TextBinds
    <3> QED BY <3>1, <3>2
  <2>2. CASE Defines(code, pc, sym) /\ j = pc
    BY <2>2 DEF L
  <2> QED BY <1>1, <2>1, <2>2
<1>6. FilesBind'
  <2> SUFFICES ASSUME NEW sym \in Symbol, NEW d \in AtFileScope(sym)
               PROVE  sym \in DOMAIN symtab'[1] /\ symtab'[1][sym].def = d
    BY <1>1 DEF FilesBind
  <2>1. sym \in DOMAIN symtab[1] /\ symtab[1][sym].def = d
    BY DEF Bound, FilesBind
  <2>2. 1 \in DOMAIN symtab /\ 1 \in DOMAIN symtab'
    BY <1>2, <1>4
  <2> QED BY <2>1, <2>2
<1>7. Explained'
  <2> SUFFICES ASSUME NEW c \in DOMAIN symtab', NEW sym \in DOMAIN symtab'[c]
               PROVE  \/ \E j \in InTheItem(sym, pc)' : Level(code, j) = c
                      \/ c = 1 /\ AtFileScope(sym) # {}
                      \/ FromUse(sym, c)'
    BY <1>1 DEF Explained
  <2>1. c \in Nat /\ c <= L
    BY <1>4
  <2>2. CASE c \in DOMAIN symtab /\ sym \in DOMAIN symtab[c]
    <3>1. \/ \E j \in InTheItem(sym, pc) : Level(code, j) = c
          \/ c = 1 /\ AtFileScope(sym) # {}
          \/ FromUse(sym, c)
      BY <2>2 DEF Bound, Explained
    <3>2. CASE \E j \in InTheItem(sym, pc) : Level(code, j) = c
      BY <1>1, <2>1, <3>2
    <3>3. CASE FromUse(sym, c)
      <4>1. PICK j \in InTheItem("args", pc) :
              /\ code[j].op = "args" /\ Level(code, j) < c
              /\ \A k \in InTheItem("args", pc) :
                   ~ (Level(code, j) < Level(code, k) /\ Level(code, k) <= c)
        BY <3>3 DEF FromUse
      <4>2. PICK u \in Visible(code, pc) : code[u].op = "use" /\ Level(code, u) = c
        BY <3>3 DEF FromUse
      <4>3. sym = "args" /\ symtab'[c][sym].def = ArgsDef
        BY <2>2, <3>3 DEF FromUse
      <4>4. Level(code, j) \in Int
        BY <1>2
      <4>5. j \in InTheItem("args", pc)'
        <5>1. Level(code, j) <= L
          BY <1>4, <2>1, <4>1, <4>4
        <5> QED BY <1>1, <4>1, <5>1
      <4>6. u \in Visible(code', pc')
        BY <1>1, <2>1, <4>2
      <4>7. ASSUME NEW k \in InTheItem("args", pc)', Level(code, j) < Level(code, k), Level(code, k) <= c
            PROVE  FALSE
        <5>1. k \notin InTheItem("args", pc)
          BY <4>1, <4>7
        <5>2. k = pc /\ Defines(code, pc, "args")
          BY <1>1, <5>1
        <5>3. "args" \notin DOMAIN Current
          BY <5>2 DEF Symbol
        <5>4. Level(code, pc) = Level(code, pc - 1)
          BY <5>2, AtCheck, LevelHere DEF Defines
        <5>5. c = Len(symtab)
          BY <1>2, <2>1, <2>2, <4>7, <5>2, <5>4 DEF L
        <5> QED BY <2>2, <4>3, <5>3, <5>5 DEF Current
      <4> QED BY <1>1, <4>1, <4>2, <4>3, <4>5, <4>6, <4>7 DEF FromUse
    <3> QED BY <3>1, <3>2, <3>3
  <2>3. CASE c = L /\ Defines(code, pc, sym)
    BY <1>1, <2>3 DEF L
  <2> QED BY <2>2, <2>3 DEF L
<1> QED BY <1>5, <1>6, <1>7 DEF Bound

(* Checks that define nothing, and leave the contexts as they are.         *)
LEMMA TableKept ==
  ASSUME Shape, Shape', ~failed, Bound, pc > 0, pc <= Len(code), Keep, Go,
         visit.op \notin {"define", "args"},
         \A c \in DOMAIN symtab' :
           IF c \in DOMAIN symtab THEN symtab'[c] = symtab[c] ELSE DOMAIN symtab'[c] = {}
  PROVE  Bound'
<1>1. \A s : ~Defines(code, pc, s)
  BY AtCheck DEF Defines
<1>2. \A c \in DOMAIN symtab' : c \in DOMAIN symtab =>
        \A s \in DOMAIN symtab[c] : s \in DOMAIN symtab'[c] /\ symtab'[c][s] = symtab[c][s]
  OBVIOUS
<1>3. \A c \in DOMAIN symtab' : \A s \in DOMAIN symtab'[c] : c \in DOMAIN symtab /\ s \in DOMAIN symtab[c]
  OBVIOUS
<1> HIDE DEF Shape, Bound, Level
<1> QED BY <1>1, <1>2, <1>3, BindingsKept

(* Checks that add a symbol to the current context.                        *)
LEMMA TableAdded ==
  ASSUME Shape, Shape', ~failed, Bound, pc > 0, pc <= Len(code), Keep, Go,
         visit.op \notin {"new_scope", "end_scope"},
         NEW sym \in Symbol, NEW def \in Nat \X Nat \X Nat, NEW type \in AnyType,
         symtab' = Adding(sym, def, type), sym \notin DOMAIN Current,
         \A s : Defines(code, pc, s) => s = sym /\ def = DefinitionAt(pc),
         NEW n, n = Len(symtab), Defines(code, pc, sym) \/ FromUse(sym, n)'
  PROVE  Bound'
<1>1. n = Level(code, pc) /\ DOMAIN symtab = 1..n /\ n \in Nat \ {0} /\ pc \in Nat
  <2>1. Len(symtab) = Level(code, pc - 1) /\ DOMAIN symtab = 1..n /\ n \in Nat \ {0} /\ pc \in Nat
    BY Levels
  <2>2. Level(code, pc) = Level(code, pc - 1)
    BY LevelHere
  <2> QED BY <2>1, <2>2
<1>2. TableStands
  BY DEF Shape
<1>3. /\ symtab' \in Seq(Context) /\ Len(symtab') = n
      /\ \A c \in DOMAIN symtab : c # n => symtab'[c] = symtab[c]
      /\ DOMAIN symtab'[n] = DOMAIN Current \cup {sym}
      /\ symtab'[n][sym].def = def
      /\ \A s \in DOMAIN Current : s # sym => symtab'[n][s] = Current[s]
  BY <1>2, AddingIs
<1>4. DOMAIN symtab' = 1..n
  BY <1>3, LenProperties
<1>5. Current = symtab[n]
  BY DEF Current
<1> HIDE DEF Level, Shape, Bound
<1>6. \A c \in DOMAIN symtab' : c \in DOMAIN symtab =>
        \A s \in DOMAIN symtab[c] : s \in DOMAIN symtab'[c] /\ symtab'[c][s] = symtab[c][s]
  <2> SUFFICES ASSUME NEW c \in DOMAIN symtab, NEW s \in DOMAIN symtab[c]
               PROVE  s \in DOMAIN symtab'[c] /\ symtab'[c][s] = symtab[c][s]
    OBVIOUS
  <2>1. CASE c = n
    BY <1>3, <1>5, <2>1
  <2>2. CASE c # n
    BY <1>3, <2>2
  <2> QED BY <2>1, <2>2
<1>7. \A c \in DOMAIN symtab' : \A s \in DOMAIN symtab'[c] :
        \/ c \in DOMAIN symtab /\ s \in DOMAIN symtab[c]
        \/ c = Level(code, pc) /\ Defines(code, pc, s)
        \/ FromUse(s, c)'
  <2> SUFFICES ASSUME NEW c \in DOMAIN symtab', NEW s \in DOMAIN symtab'[c],
                      ~ (c \in DOMAIN symtab /\ s \in DOMAIN symtab[c])
               PROVE  (c = Level(code, pc) /\ Defines(code, pc, s)) \/ FromUse(s, c)'
    OBVIOUS
  <2>1. c \in DOMAIN symtab
    BY <1>1, <1>4
  <2>2. c = n
    BY <1>3, <2>1
  <2>3. s = sym
    BY <1>3, <1>5, <2>1, <2>2
  <2> QED BY <1>1, <2>2, <2>3
<1>8. \A s \in Symbol : Defines(code, pc, s) =>
        /\ s \notin DOMAIN Current
        /\ s \in DOMAIN symtab'[Level(code, pc)]
        /\ symtab'[Level(code, pc)][s].def = DefinitionAt(pc)
  BY <1>1, <1>3
<1> QED BY <1>6, <1>7, <1>8, BindingsKept

(* The scope that a function has its args in is new.                       *)
LEMMA FreshScope ==
  ASSUME Shape, ~failed, Bound, pc > 0, pc <= Len(code), visit.op = "args"
  PROVE  "args" \notin DOMAIN Current
<1> SUFFICES ASSUME "args" \in DOMAIN Current PROVE FALSE
  OBVIOUS
<1> DEFINE q == pc - 1
           n == Len(symtab)
<1>1. /\ DOMAIN symtab = 1..n /\ n \in Nat \ {0} /\ n = Level(code, q)
      /\ \A sym, j : j \in InTheItem(sym, pc) => j \in Visible(code, pc) /\ Defines(code, j, sym)
  BY Levels
<1>2. code \in Statement /\ pc \in 1..Len(code) /\ visit = code[pc] /\ Len(code) \in Nat
  BY AtCheck
<1>3. pc > 1 /\ code[q].op = "new_scope" /\ \A k \in 0..Len(code) : Level(code, k) \in Nat \ {0}
  BY <1>2, StatementIs
<1>4. q \in Nat \ {0} /\ pc = q + 1 /\ q - 1 \in 0..Len(code) /\ q - 1 \in Nat /\ q = (q - 1) + 1
  BY <1>2, <1>3
<1> HIDE DEF q
<1>5. n = Level(code, q - 1) + 1
  <2> PICK r \in Nat : r = q - 1 /\ q = r + 1
    BY <1>4
  <2>1. code[r + 1].op = "new_scope"
    BY <1>3
  <2>2. Level(code, r + 1) = Level(code, r) + 1
    BY <2>1, LevelStep
  <2> QED BY <1>1, <2>2
<1> HIDE DEF Level
<1>6. n \in DOMAIN symtab /\ n # 1
  BY <1>1, <1>3, <1>4, <1>5
<1>7. ASSUME NEW j \in Visible(code, pc), Level(code, j) = n PROVE code[j].op = "new_scope"
  <2>1. j \in Visible(code, q) \cup {q}
    BY <1>4, VisibleStep
  <2>2. ASSUME j \in Visible(code, q) PROVE FALSE
    <3>1. Level(code, j) <= Level(code, q - 1)
      BY <1>4, <2>2, VisibleHere
    <3> QED BY <1>3, <1>4, <1>5, <1>7, <3>1
  <2> QED BY <1>3, <2>1, <2>2
<1>8. \/ \E j \in InTheItem("args", pc) : Level(code, j) = n
      \/ FromUse("args", n)
  BY <1>6 DEF Bound, Explained, Current
<1>9. ASSUME NEW j \in InTheItem("args", pc), Level(code, j) = n PROVE FALSE
  BY <1>1, <1>7, <1>9 DEF Defines
<1>10. ASSUME FromUse("args", n) PROVE FALSE
  BY <1>7, <1>10 DEF FromUse
<1> QED BY <1>8, <1>9, <1>10

(* Any one of a set, as DefinedBefore takes it.                                  *)
AnyOf(S) == CHOOSE d \in S : TRUE

LEMMA DefinedBeforeStays ==
  ASSUME UNCHANGED <<objs, cur, text>>, NEW sym, NEW p
  PROVE  DefinedBefore(sym, p)' = DefinedBefore(sym, p)
<1>1. code' = code
  BY DEF code
<1>2. InTheItem(sym, p)' = InTheItem(sym, p)
  BY <1>1 DEF InTheItem
<1>3. AtFileScope(sym)' = AtFileScope(sym)
  BY DEF AtFileScope
<1>4. \A j : DefinitionAt(j)' = DefinitionAt(j)
  BY <1>1 DEF DefinitionAt
<1> DEFINE Of(I, A, def) == IF I # {} THEN def ELSE IF A # {} THEN AnyOf(A) ELSE NoDef
<1>5. \A I, A, m : I = InTheItem(sym, p) /\ A = AtFileScope(sym) /\ m = Max(I) =>
        DefinedBefore(sym, p) = Of(I, A, DefinitionAt(m))
  BY DEF DefinedBefore, AnyOf
<1>6. \A I, A, m : I = InTheItem(sym, p)' /\ A = AtFileScope(sym)' /\ m = Max(I) =>
        DefinedBefore(sym, p)' = Of(I, A, DefinitionAt(m)')
  BY DEF DefinedBefore, AnyOf
<1> HIDE DEF Of
<1> QED BY <1>2, <1>3, <1>4, <1>5, <1>6

LEMMA UnchangedScoped ==
  ASSUME Scoped, UNCHANGED <<objs, cur, pc, symtab, failed, last, text>>
  PROVE  Scoped'
<1>1. code' = code
  BY DEF code
<1>2. \A sym : InTheItem(sym, pc)' = InTheItem(sym, pc)
  BY <1>1 DEF InTheItem
<1>3. \A sym : AtFileScope(sym)' = AtFileScope(sym)
  BY DEF AtFileScope
<1>4. \A j : DefinitionAt(j)' = DefinitionAt(j)
  BY <1>1 DEF DefinitionAt
<1>5. \A sym, c : FromUse(sym, c)' <=> FromUse(sym, c)
  BY <1>1, <1>2 DEF FromUse
<1>6. Bound => Bound'
  BY <1>1, <1>2, <1>3, <1>4, <1>5 DEF Bound, TextBinds, FilesBind, Explained
<1>7. UsedAsText => UsedAsText'
  <2>1. \A sym, p : DefinedBefore(sym, p)' = DefinedBefore(sym, p)
    BY DefinedBeforeStays
  <2>2. DefinedBefore(last.sym, pc - 1)' = DefinedBefore(last.sym, pc - 1)
    BY <2>1
  <2> QED BY <2>2 DEF UsedAsText
<1> QED BY <1>6, <1>7 DEF Scoped

LEMMA NewScopeScoped ==
  ASSUME Shape, Shape', ~failed, Scoped, NewScope
  PROVE  Scoped'
<1>1. /\ pc > 0 /\ pc <= Len(code) /\ visit.op \notin {"define", "args"}
      /\ Keep /\ Go /\ last'.kind # "use"
  BY RunningAt DEF NewScope, Nothing
<1>2. \A c \in DOMAIN symtab' :
        IF c \in DOMAIN symtab THEN symtab'[c] = symtab[c] ELSE DOMAIN symtab'[c] = {}
  <2>1. symtab \in Seq(Context) /\ DOMAIN symtab = 1..Len(symtab) /\ Len(symtab) \in Nat
    BY <1>1, Levels
  <2>2. \E e : e = <<>>
    OBVIOUS
  <2>3. PICK e : e = <<>>
    BY <2>2
  <2>4. e \in Context /\ DOMAIN e = {} /\ symtab' = Append(symtab, e)
    <3>1. e \in [{} -> Entry]
      BY <2>3
    <3> QED BY <2>3, <3>1 DEF Context, NewScope
  <2>5. /\ DOMAIN symtab' = 1..(Len(symtab) + 1)
        /\ \A c \in 1..Len(symtab) : symtab'[c] = symtab[c]
        /\ symtab'[Len(symtab) + 1] = e
    BY <2>1, <2>4, AppendProperties
  <2> QED BY <2>1, <2>4, <2>5
<1> HIDE DEF Shape, Bound
<1>3. Bound'
  BY <1>1, <1>2, TableKept DEF Scoped
<1> QED BY <1>1, <1>3 DEF Scoped, UsedAsText

LEMMA EndScopeScoped ==
  ASSUME Shape, Shape', ~failed, Scoped, EndScope
  PROVE  Scoped'
<1>1. /\ pc > 0 /\ pc <= Len(code) /\ visit.op \notin {"define", "args"}
      /\ Keep /\ Go /\ last'.kind # "use"
  BY RunningAt DEF EndScope, Nothing
<1>2. \A c \in DOMAIN symtab' :
        IF c \in DOMAIN symtab THEN symtab'[c] = symtab[c] ELSE DOMAIN symtab'[c] = {}
  <2>1. symtab \in Seq(Context) /\ DOMAIN symtab = 1..Len(symtab) /\ Len(symtab) \in Nat
    BY <1>1, Levels
  <2>2. Len(symtab) > 1
    BY EndScopeShape
  <2>3. /\ symtab' \in Seq(Context) /\ Len(symtab') = Len(symtab) - 1
        /\ \A c \in 1..(Len(symtab) - 1) : symtab'[c] = symtab[c]
    BY <2>2, PopContextIs DEF EndScope
  <2>4. DOMAIN symtab' = 1..(Len(symtab) - 1)
    BY <2>3, LenProperties
  <2> QED BY <2>1, <2>3, <2>4
<1> HIDE DEF Shape, Bound
<1>3. Bound'
  BY <1>1, <1>2, TableKept DEF Scoped
<1> QED BY <1>1, <1>3 DEF Scoped, UsedAsText

(* Checks that leave the table alone, and resolve nothing.                 *)
LEMMA OthersScoped ==
  ASSUME Shape, Shape', ~failed, Scoped, Operate \/ PushLiteral \/ Parameter \/ Drop
  PROVE  Scoped'
<1>1. CASE SyntaxError
  BY <1>1 DEF SyntaxError, Scoped
<1>2. CASE ~SyntaxError
  <2>1. /\ pc > 0 /\ pc <= Len(code) /\ visit.op \notin {"define", "args"}
        /\ Keep /\ Go /\ last'.kind # "use" /\ symtab' = symtab
    <3>1. CASE PushLiteral \/ Parameter \/ Drop
      BY <3>1, RunningAt DEF PushLiteral, Parameter, Drop, Nothing
    <3>2. CASE Operate
      <4>1. PICK op \in Operators : At(op)
        BY <3>2 DEF Operate
      <4>2. op \notin {"define", "args"}
        BY DEF Operators, UnaryOps, BinaryOps, Arithmetic
      <4>3. pc > 0 /\ pc <= Len(code) /\ visit.op = op
        BY <4>1, RunningAt
      <4>4. Keep /\ Go /\ symtab' = symtab /\ last'.kind # "use"
        BY <1>2, <3>2 DEF Operate, Nothing
      <4> QED BY <4>2, <4>3, <4>4
    <3> QED BY <3>1, <3>2
  <2>2. \A c \in DOMAIN symtab' :
          IF c \in DOMAIN symtab THEN symtab'[c] = symtab[c] ELSE DOMAIN symtab'[c] = {}
    BY <2>1
  <2> HIDE DEF Shape, Bound
  <2>3. Bound'
    BY <2>1, <2>2, TableKept DEF Scoped
  <2> QED BY <2>1, <2>3 DEF Scoped, UsedAsText
<1> QED BY <1>1, <1>2

LEMMA AddArgsScoped ==
  ASSUME Shape, Shape', ~failed, Scoped, AddArgs
  PROVE  Scoped'
<1>1. /\ pc > 0 /\ pc <= Len(code) /\ visit.op = "args"
      /\ Keep /\ Go /\ last'.kind # "use"
  BY RunningAt DEF AddArgs, Nothing
<1>2. Bound /\ "args" \notin DOMAIN Current
  BY <1>1, FreshScope DEF Scoped
<1>3. symtab' = Adding("args", ArgsDef, ArgsType)
  BY <1>2 DEF AddArgs
<1>4. ArgsDef \in Nat \X Nat \X Nat /\ ArgsType \in AnyType /\ "args" \in Symbol
  BY ArgsMade
<1>5. visit = code[pc]
  BY DEF visit
<1>6. \A s : Defines(code, pc, s) => s = "args" /\ ArgsDef = DefinitionAt(pc)
  BY <1>1, <1>5 DEF Defines, DefinitionAt
<1>7. Defines(code, pc, "args")
  BY <1>1, <1>5 DEF Defines
<1> HIDE DEF Shape, Bound
<1>8. Bound'
  BY <1>1, <1>2, <1>3, <1>4, <1>6, <1>7, TableAdded
<1> QED BY <1>1, <1>8 DEF Scoped, UsedAsText

LEMMA DefineScoped ==
  ASSUME Shape, Shape', ~failed, Scoped, Define
  PROVE  Scoped'
<1> DEFINE init == [i \in 1..visit.n |-> T(i)]
           final == FinalType(visit.type, init)
<1>1. /\ pc > 0 /\ pc <= Len(code) /\ visit.op = "define" /\ visit \in Check
      /\ Keep /\ pc \in Nat /\ visit = code[pc] /\ AnItem(cur) /\ Bound
  BY RunningAt DEF Define, Shape, InPlace, visit, Scoped
<1>2. visit.sym \in Symbol /\ visit.type \in AnyType /\ visit.n \in {0, 1}
  BY <1>1, CheckIs DEF Symbol
<1>3. CASE NoSuchArgument(visit.type, init)
  <2>1. UNCHANGED <<objs, cur, pc, symtab, failed, last, text>>
    BY <1>1, <1>3 DEF Define, Keep
  <2> QED BY <2>1, UnchangedScoped
<1>4. CASE SyntaxError
  BY <1>4 DEF SyntaxError, Scoped
<1>5. CASE ~NoSuchArgument(visit.type, init) /\ ~SyntaxError
  <2>1. /\ symtab' = Adding(visit.sym, <<cur[1], cur[2], pc>>, final)
        /\ visit.sym \notin DOMAIN Current
        /\ ~ (init # <<>> /\ ~is_initializable_from(final, init[1]))
        /\ last' = IF init = <<>> THEN Nothing
                   ELSE [kind |-> "accepted", to |-> final, from |-> init[1]]
        /\ Go
    BY <1>5 DEF Define
  <2>2. last'.kind # "use"
    BY <2>1 DEF Nothing
  <2>3. final \in AnyType
    <3>1. /\ visit.n = 0 => init = <<>>
          /\ visit.n = 1 => init # <<>> /\ init[1] = T(1) /\ T(1) \in AnyType
      BY <1>1, InitializerIs
    <3>2. init = <<>> \/ (init # <<>> /\ init[1] \in AnyType)
      BY <1>2, <3>1
    <3> HIDE DEF init
    <3> QED BY <1>2, <1>5, <2>1, <3>2, FinalTyped
  <2> HIDE DEF final, init
  <2>4. <<cur[1], cur[2], pc>> \in Nat \X Nat \X Nat
    BY <1>1 DEF AnItem
  <2>5. \A s : Defines(code, pc, s) => s = visit.sym /\ <<cur[1], cur[2], pc>> = DefinitionAt(pc)
    BY <1>1 DEF Defines, DefinitionAt
  <2>6. Defines(code, pc, visit.sym)
    BY <1>1 DEF Defines
  <2> HIDE DEF Shape, Bound
  <2>7. Bound'
    BY <1>1, <1>2, <2>1, <2>3, <2>4, <2>5, <2>6, TableAdded
  <2> QED BY <2>2, <2>7 DEF Scoped, UsedAsText
<1> QED BY <1>3, <1>4, <1>5

(* While the table is bound to the text, lookup() finds what the text says *)
(* a symbol is.                                                            *)
LEMMA LookedUp ==
  ASSUME Shape, ~failed, Bound, pc > 0, NEW sym \in Symbol, NEW def, def = lookup(sym)
  PROVE  (IF def = None THEN NoDef ELSE def[1].def) = DefinedBefore(sym, pc)
<1> DEFINE I == InTheItem(sym, pc)
           A == AtFileScope(sym)
<1>1. /\ DOMAIN symtab = 1..Len(symtab) /\ Len(symtab) \in Nat \ {0} /\ pc \in Nat \ {0}
      /\ \A j \in Visible(code, pc) : j \in 1..(pc - 1) /\ Level(code, j) \in 1..Len(symtab)
      /\ \A i, j \in Visible(code, pc) : i <= j => Level(code, i) <= Level(code, j)
      /\ \A s, j : j \in InTheItem(s, pc) => j \in Visible(code, pc)
  BY Levels
<1>2. /\ Holding(sym) = {} => def = None
      /\ Holding(sym) # {} =>
           \E c \in Holding(sym) :
             /\ def = <<symtab[c][sym]>> /\ def # None
             /\ \A d \in Holding(sym) : d <= c
  <2>1. TableStands
    BY DEF Shape
  <2> QED BY <2>1, LookupIs
<1> HIDE DEF Level
<1>3. \A c \in Holding(sym) :
        /\ c \in DOMAIN symtab /\ sym \in DOMAIN symtab[c]
        /\ \/ \E j \in I : Level(code, j) = c
           \/ c = 1 /\ A # {}
           \/ FromUse(sym, c)
  BY DEF Holding, Bound, Explained
<1>4. \A j \in I : /\ Level(code, j) \in Holding(sym)
                   /\ symtab[Level(code, j)][sym].def = DefinitionAt(j)
  BY <1>1 DEF Holding, Bound, TextBinds
<1>5. \A c : FromUse(sym, c) => I # {}
  BY DEF FromUse
<1>6. CASE I # {}
  <2> DEFINE m == Max(I)
  <2>1. I \subseteq 1..pc /\ pc \in Nat
    BY <1>1
  <2>2. m \in I /\ \A j \in I : j <= m
    BY <1>6, <2>1, GreatestIs
  <2>3. DefinedBefore(sym, pc) = DefinitionAt(m)
    BY <1>6 DEF DefinedBefore
  <2> HIDE DEF m
  <2> DEFINE top == Level(code, m)
  <2>4. \A j \in I : Level(code, j) <= top
    BY <1>1, <2>2
  <2>5. PICK c \in Holding(sym) :
          def = <<symtab[c][sym]>> /\ def # None /\ \A d \in Holding(sym) : d <= c
    BY <1>2, <1>4, <2>2
  <2>6. top <= c /\ top \in Nat \ {0} /\ c \in Nat \ {0}
    BY <1>1, <1>3, <1>4, <2>2, <2>5
  <2>7. top \in Holding(sym) /\ symtab[top][sym].def = DefinitionAt(m)
    BY <1>4, <2>2
  <2>8. CASE \E j \in I : Level(code, j) = c
    <3>1. c = top
      BY <2>4, <2>6, <2>8
    <3> QED BY <2>3, <2>5, <2>7, <3>1
  <2>9. CASE c = 1
    <3>1. c = top
      BY <2>6, <2>9
    <3> QED BY <2>3, <2>5, <2>7, <3>1
  <2>10. CASE FromUse(sym, c)
    <3>1. sym = "args" /\ symtab[c][sym].def = ArgsDef
      BY <2>10 DEF FromUse
    <3>2. PICK j \in I :
            /\ code[j].op = "args" /\ Level(code, j) < c
            /\ \A k \in I : ~ (Level(code, j) < Level(code, k) /\ Level(code, k) <= c)
      BY <2>10, <3>1 DEF FromUse
    <3>3. Level(code, j) \in Nat /\ Level(code, j) <= top /\ ~ (Level(code, j) < top)
      BY <1>1, <2>2, <2>4, <2>6, <3>2
    <3>4. Level(code, j) = top
      BY <2>6, <3>3
    <3>5. DefinitionAt(j) = ArgsDef
      BY <3>2 DEF DefinitionAt
    <3>6. DefinitionAt(m) = ArgsDef
      BY <1>4, <2>7, <3>4, <3>5
    <3> QED BY <2>3, <2>5, <3>1, <3>6
  <2> QED BY <1>3, <2>5, <2>8, <2>9, <2>10
<1>7. CASE I = {} /\ A # {}
  <2> DEFINE d == CHOOSE x \in A : TRUE
  <2>1. d \in A /\ DefinedBefore(sym, pc) = d
    BY <1>7 DEF DefinedBefore
  <2> HIDE DEF d
  <2>2. sym \in DOMAIN symtab[1] /\ symtab[1][sym].def = d
    BY <2>1 DEF Bound, FilesBind
  <2>3. 1 \in Holding(sym)
    BY <1>1, <2>2 DEF Holding
  <2>4. PICK c \in Holding(sym) : def = <<symtab[c][sym]>> /\ def # None
    BY <1>2, <2>3
  <2>5. c = 1
    BY <1>3, <1>5, <1>7, <2>4
  <2> QED BY <2>1, <2>2, <2>4, <2>5
<1>8. CASE I = {} /\ A = {}
  <2>1. Holding(sym) = {}
    BY <1>3, <1>5, <1>8
  <2>2. DefinedBefore(sym, pc) = NoDef
    BY <1>8 DEF DefinedBefore
  <2> QED BY <1>2, <2>1, <2>2
<1> QED BY <1>6, <1>7, <1>8

(* What finds the definition of "args" is "args", used within a function.  *)
LEMMA ArgsFound ==
  ASSUME Shape, ~failed, Bound, pc > 0, NEW sym \in Symbol,
         NEW c \in Holding(sym), symtab[c][sym].def = ArgsDef,
         \A d \in Holding(sym) : d <= c, "args" \notin DOMAIN Current
  PROVE  /\ sym = "args"
         /\ \E j \in InTheItem("args", pc) :
              /\ code[j].op = "args" /\ Level(code, j) < Len(symtab)
              /\ \A k \in InTheItem("args", pc) : ~ (Level(code, j) < Level(code, k))
<1>1. /\ DOMAIN symtab = 1..Len(symtab) /\ Len(symtab) \in Nat \ {0} /\ pc \in Nat \ {0}
      /\ \A j \in Visible(code, pc) : j \in 1..(pc - 1) /\ Level(code, j) \in 1..Len(symtab)
      /\ \A s, j : j \in InTheItem(s, pc) => j \in Visible(code, pc) /\ Defines(code, j, s)
  BY Levels
<1> HIDE DEF Level
<1>2. \A j \in InTheItem(sym, pc) : /\ Level(code, j) <= c
                                    /\ symtab[Level(code, j)][sym].def = DefinitionAt(j)
  BY <1>1 DEF Holding, Bound, TextBinds
<1>3. cur[1] \in Nat \ {0} /\ \A i \in Range(text) : i[1] \in Nat \ {0}
  <2>1. \A i : AnItem(i) => i[1] \in Nat \ {0}
    BY DEF AnItem, Shape, FilesKnown
  <2>2. AnItem(cur) /\ \A i \in Range(text) : AnItem(i)
    BY DEF Shape, InPlace, TextKnown, Range
  <2> QED BY <2>1, <2>2
<1>4. c \in 1..Len(symtab)
  BY <1>1 DEF Holding
<1>5. CASE \E j \in InTheItem(sym, pc) : Level(code, j) = c
  <2>1. PICK j \in InTheItem(sym, pc) : Level(code, j) = c
    BY <1>5
  <2>2. DefinitionAt(j) = ArgsDef
    BY <1>2, <2>1
  <2>3. code[j].op = "args"
    BY <1>3, <2>2 DEF DefinitionAt, ArgsDef
  <2>4. sym = "args"
    BY <1>1, <2>1, <2>3 DEF Defines
  <2>5. \A k \in InTheItem("args", pc) : ~ (c < Level(code, k))
    BY <1>1, <1>2, <1>4, <2>4
  <2>6. c < Len(symtab)
    <3>1. c # Len(symtab)
      BY <2>4 DEF Holding, Current
    <3>2. Len(symtab) \in Nat
      BY <1>1
    <3> QED BY <1>4, <3>1, <3>2
  <2> QED BY <2>1, <2>3, <2>4, <2>5, <2>6
<1>6. CASE c = 1 /\ AtFileScope(sym) # {}
  <2>1. PICK d : d \in AtFileScope(sym)
    BY <1>6
  <2>2. d[1] \in Nat \ {0}
    BY <1>3, <2>1, AtFileScopeIs
  <2>3. symtab[1][sym].def = d
    BY <2>1 DEF Bound, FilesBind
  <2> QED BY <1>6, <2>2, <2>3 DEF ArgsDef
<1>7. CASE FromUse(sym, c)
  <2>1. sym = "args"
    BY <1>7 DEF FromUse
  <2>2. PICK j \in InTheItem("args", pc) :
          /\ code[j].op = "args" /\ Level(code, j) < c
          /\ \A k \in InTheItem("args", pc) : ~ (Level(code, j) < Level(code, k) /\ Level(code, k) <= c)
    BY <1>7 DEF FromUse
  <2>3. Level(code, j) < Len(symtab)
    BY <1>1, <1>4, <2>2
  <2>4. \A k \in InTheItem("args", pc) : ~ (Level(code, j) < Level(code, k))
    BY <1>2, <2>1, <2>2
  <2> QED BY <2>1, <2>2, <2>3, <2>4
<1>8. \/ \E j \in InTheItem(sym, pc) : Level(code, j) = c
      \/ c = 1 /\ AtFileScope(sym) # {}
      \/ FromUse(sym, c)
  BY DEF Holding, Bound, Explained
<1> QED BY <1>5, <1>6, <1>7, <1>8

LEMMA ResolveScoped ==
  ASSUME Shape, Shape', ~failed, Scoped, Resolve
  PROVE  Scoped'
<1> DEFINE found == lookup(visit.sym)
           fresh == found # None /\ found[1].def = ArgsDef /\ ~args_done
<1> PICK n : n = Len(symtab)
  OBVIOUS
<1>1. /\ pc > 0 /\ pc <= Len(code) /\ visit.op = "use" /\ visit \in Check
      /\ Keep /\ visit = code[pc] /\ Bound
  BY RunningAt DEF Resolve, visit, Scoped
<1>2. visit.sym \in Symbol
  BY <1>1, CheckIs DEF Symbol
<1>3. CASE SyntaxError
  BY <1>3 DEF SyntaxError, Scoped
<1>4. CASE ~SyntaxError
  <2>1. /\ ~ (fresh /\ "args" \in DOMAIN Current)
        /\ symtab' = IF fresh THEN Adding("args", ArgsDef, ArgsType) ELSE symtab
        /\ last' = [kind |-> "use", sym |-> visit.sym,
                    def |-> IF found = None THEN NoDef ELSE found[1].def]
        /\ Go
    BY <1>4 DEF Resolve
  <2>2. /\ code' = code /\ pc' = pc + 1
        /\ Visible(code', pc') = {j \in Visible(code, pc) \cup {pc} : Level(code, j) <= Level(code, pc)}
        /\ InTheItem("args", pc)' =
             {j \in InTheItem("args", pc) : Level(code, j) <= Level(code, pc)}
               \cup (IF Defines(code, pc, "args") THEN {pc} ELSE {})
    BY <1>1, <2>1, TextThen
  <2>3. \A s : ~Defines(code, pc, s)
    BY <1>1 DEF Defines
  <2>4. n = Level(code, pc) /\ n \in Nat \ {0} /\ pc \in Nat
    <3>1. Len(symtab) = Level(code, pc - 1) /\ n \in Nat \ {0} /\ pc \in Nat
      BY <1>1, Levels
    <3>2. Level(code, pc) = Level(code, pc - 1)
      BY <1>1, LevelHere
    <3> QED BY <3>1, <3>2
  <2>5. TableStands
    BY DEF Shape
  <2> HIDE DEF Level, Shape, Bound, found
  <2>6. ASSUME fresh PROVE Bound'
    <3>1. "args" \notin DOMAIN Current /\ symtab' = Adding("args", ArgsDef, ArgsType)
      BY <2>1, <2>6
    <3>2. ArgsDef \in Nat \X Nat \X Nat /\ ArgsType \in AnyType /\ "args" \in Symbol
      BY ArgsMade
    <3>3. PICK c \in Holding(visit.sym) :
            found = <<symtab[c][visit.sym]>> /\ \A d \in Holding(visit.sym) : d <= c
      BY <2>5, <2>6, LookupIs DEF found
    <3>4. symtab[c][visit.sym].def = ArgsDef
      BY <2>6, <3>3
    <3>5. PICK j \in InTheItem("args", pc) :
            /\ code[j].op = "args" /\ Level(code, j) < n
            /\ \A k \in InTheItem("args", pc) : ~ (Level(code, j) < Level(code, k))
      BY <1>1, <1>2, <3>1, <3>3, <3>4, ArgsFound
    <3>6. symtab'[n]["args"].def = ArgsDef
      BY <2>5, <3>1, <3>2, AddingIs
    <3>7. Level(code, j) \in Int
      <4>1. j \in Visible(code, pc) /\ Level(code, j) \in 1..Len(symtab)
        BY <1>1, Levels
      <4> QED BY <4>1
    <3>8. j \in InTheItem("args", pc)'
      BY <2>2, <2>4, <3>5, <3>7
    <3>9. InTheItem("args", pc)' \subseteq InTheItem("args", pc)
      BY <2>2, <2>3
    <3>10. pc \in Visible(code', pc') /\ code'[pc].op = "use" /\ Level(code', pc) = n
      <4>1. Level(code, pc) <= Level(code, pc)
        BY <2>4
      <4> QED BY <1>1, <2>2, <2>4, <4>1
    <3>11. FromUse("args", n)'
      BY <2>2, <3>5, <3>6, <3>8, <3>9, <3>10 DEF FromUse
    <3>12. visit.op \notin {"new_scope", "end_scope"}
      BY <1>1
    <3> QED BY <1>1, <2>1, <2>3, <3>1, <3>2, <3>11, <3>12, TableAdded
  <2>7. ASSUME ~fresh PROVE Bound'
    <3>1. symtab' = symtab
      BY <2>1, <2>7
    <3>2. \A c \in DOMAIN symtab' :
            IF c \in DOMAIN symtab THEN symtab'[c] = symtab[c] ELSE DOMAIN symtab'[c] = {}
      BY <3>1
    <3>3. visit.op \notin {"define", "args"}
      BY <1>1
    <3> QED BY <1>1, <2>1, <3>2, <3>3, TableKept
  <2>8. UsedAsText'
    <3>1. last'.def = DefinedBefore(visit.sym, pc)
      BY <1>1, <1>2, <2>1, LookedUp DEF found
    <3>2. \A s, p : DefinedBefore(s, p)' = DefinedBefore(s, p)
      BY <1>1, DefinedBeforeStays DEF Keep
    <3>3. last'.sym = visit.sym /\ pc' - 1 = pc /\ pc' > 0
      BY <1>1, <2>1, <2>2, <2>4
    <3>4. DefinedBefore(last.sym, pc - 1)' = DefinedBefore(visit.sym, pc)
      BY <3>2, <3>3
    <3> QED BY <3>1, <3>3, <3>4 DEF UsedAsText
  <2> QED BY <2>6, <2>7, <2>8 DEF Scoped
<1> QED BY <1>3, <1>4

-----------------------------------------------------------------------------
(* Between the items nothing is open.                                      *)
DefsIn(o, i, sym) ==
  {<<i[1], i[2], j>> : j \in {k \in 1..Len(o[i[1]][i[2]]) :
                                /\ Defines(o[i[1]][i[2]], k, sym)
                                /\ InBlockAround(o[i[1]][i[2]], k, Len(o[i[1]][i[2]]) + 1)}}

LEMMA DefsOfText ==
  /\ \A sym : AtFileScope(sym) = UNION {DefsIn(objs, i, sym) : i \in Range(text)}
  /\ \A sym : AtFileScope(sym)' = UNION {DefsIn(objs', i, sym) : i \in Range(text')}
BY DEF AtFileScope, DefsIn

LEMMA BeginItemScoped ==
  ASSUME Shape, Scoped, BeginItem
  PROVE  Scoped'
<1>1. pc = 0 /\ pc' = 1 /\ UNCHANGED <<objs, text, symtab, failed, last>>
  BY DEF BeginItem
<1>2. \A sym : AtFileScope(sym)' = AtFileScope(sym)
  BY <1>1 DEF AtFileScope
<1>3. \A sym : InTheItem(sym, pc) = {} /\ InTheItem(sym, pc)' = {}
  BY <1>1 DEF InTheItem
<1>4. \A sym, c : ~FromUse(sym, c)
  BY <1>3 DEF FromUse
<1>5. Bound => Bound'
  BY <1>1, <1>2, <1>3, <1>4 DEF Bound, TextBinds, FilesBind, Explained
<1>6. UsedAsText => UsedAsText'
  BY <1>1 DEF UsedAsText
<1> QED BY <1>1, <1>5, <1>6 DEF Scoped

LEMMA ParseFileScoped ==
  ASSUME Shape, Scoped, NEW n \in 1..NameCount, NEW f \in File, ParseFile(n, f)
  PROVE  Scoped'
<1>1. /\ pc = 0 /\ objs' = Append(objs, f)
      /\ UNCHANGED <<text, symtab, failed, last, cur, pc>>
  BY DEF ParseFile, Shape, InPlace
<1>2. \A i \in Range(text) : objs'[i[1]] = objs[i[1]]
  <2>1. objs \in Seq(File) /\ \A i \in Range(text) : i[1] \in DOMAIN objs
    BY DEF Shape, FilesKnown, TextKnown, AnItem, Range
  <2>2. \A o \in 1..Len(objs) : objs'[o] = objs[o]
    BY <1>1, <2>1, AppendProperties
  <2> QED BY <2>1, <2>2
<1>3. \A sym : AtFileScope(sym)' = AtFileScope(sym)
  <2>1. \A sym : \A i \in Range(text) : DefsIn(objs', i, sym) = DefsIn(objs, i, sym)
    BY <1>2 DEF DefsIn
  <2> QED BY <1>1, <2>1, DefsOfText
<1>4. \A sym : InTheItem(sym, pc) = {} /\ InTheItem(sym, pc)' = {}
  BY <1>1 DEF InTheItem
<1>5. \A sym, c : ~FromUse(sym, c)
  BY <1>4 DEF FromUse
<1>6. Bound => Bound'
  BY <1>1, <1>3, <1>4, <1>5 DEF Bound, TextBinds, FilesBind, Explained
<1>7. UsedAsText => UsedAsText'
  BY <1>1 DEF UsedAsText
<1> QED BY <1>1, <1>6, <1>7 DEF Scoped

(* The definition of "args" is never at file scope.                        *)
LEMMA ArgsWithin ==
  ASSUME NEW c \in Statement, NEW k \in 1..Len(c), c[k].op = "args"
  PROVE  Level(c, k) > 1
<1>1. /\ c \in Seq(Check) /\ k > 1 /\ c[k - 1].op = "new_scope"
      /\ \A j \in 0..Len(c) : Level(c, j) \in Nat \ {0}
  BY StatementIs
<1>2. /\ k - 2 \in Nat /\ k - 1 = (k - 2) + 1 /\ k - 1 \in Nat /\ k = (k - 1) + 1
      /\ k - 2 \in 0..Len(c)
  BY <1>1
<1>3. Level(c, k - 1) = Level(c, k - 2) + 1
  BY <1>1, <1>2, LevelStep
<1>4. Level(c, k) = Level(c, k - 1)
  BY <1>2, LevelStep
<1> HIDE DEF Level
<1> QED BY <1>1, <1>2, <1>3, <1>4

LEMMA EndItemScoped ==
  ASSUME Shape, ~failed, Scoped, EndItem
  PROVE  Scoped'
<1> DEFINE new(sym) == DefsIn(objs, cur, sym)
<1>1. /\ pc > 0 /\ pc' = 0 /\ text' = Append(text, cur) /\ last' = Nothing
      /\ UNCHANGED <<objs, cur, symtab, failed>>
  BY DEF EndItem, env
<1>2. pc = Len(code) + 1 /\ Len(symtab) = 1
  BY EndItemShape
<1>3. /\ DOMAIN symtab = {1} /\ code \in Statement /\ Len(code) \in Nat /\ pc - 1 = Len(code)
      /\ \A j \in Visible(code, pc) : Level(code, j) = 1
      /\ \A sym, j : j \in InTheItem(sym, pc) => j \in Visible(code, pc) /\ Defines(code, j, sym)
  <2>1. code \in Statement
    BY <1>1, CodeIs DEF Shape
  <2>2. Len(code) \in Nat
    BY <2>1, StatementIs
  <2> HIDE DEF Level
  <2> QED BY <1>1, <1>2, <2>1, <2>2, Levels
<1> HIDE DEF Level
<1>4. \A sym : InTheItem(sym, pc)' = {}
  BY <1>1 DEF InTheItem
<1>5. \A sym : AtFileScope(sym)' = AtFileScope(sym) \cup new(sym)
  <2>1. Range(text') = Range(text) \cup {cur}
    <3>1. text \in Seq(Nat \X Nat) /\ cur \in Nat \X Nat
      BY <1>1 DEF Shape, TextKnown, InPlace, AnItem
    <3>2. /\ DOMAIN text' = 1..(Len(text) + 1) /\ DOMAIN text = 1..Len(text) /\ Len(text) \in Nat
          /\ \A i \in 1..Len(text) : text'[i] = text[i]
          /\ text'[Len(text) + 1] = cur
      BY <1>1, <3>1, AppendProperties
    <3> QED BY <3>2 DEF Range
  <2>2. \A sym : AtFileScope(sym)' = UNION {DefsIn(objs, i, sym) : i \in Range(text')}
    BY <1>1, DefsOfText
  <2> QED BY <2>1, <2>2, DefsOfText
<1>6. \A sym : \A d \in new(sym) : \E j \in InTheItem(sym, pc) : d = <<cur[1], cur[2], j>>
  BY <1>2, <1>3 DEF DefsIn, InTheItem, code
<1>7. \A sym : InTheItem(sym, pc) # {} => new(sym) # {}
  BY <1>2, <1>3 DEF DefsIn, InTheItem, code
<1>8. ASSUME NEW sym, NEW j \in InTheItem(sym, pc)
      PROVE  Level(code, j) = 1 /\ DefinitionAt(j) = <<cur[1], cur[2], j>>
  <2>1. j \in 1..Len(code) /\ Level(code, j) = 1
    BY <1>3 DEF InTheItem
  <2>2. code[j].op # "args"
    <3>1. code[j].op = "args" => Level(code, j) > 1
      BY <1>3, <2>1, ArgsWithin
    <3> QED BY <2>1, <3>1
  <2> QED BY <2>1, <2>2 DEF DefinitionAt
<1> HIDE DEF new
<1>9. TextBinds'
  BY <1>4 DEF TextBinds
<1>10. Bound
  BY DEF Scoped
<1>11. FilesBind'
  <2> SUFFICES ASSUME NEW sym \in Symbol, NEW d \in AtFileScope(sym)'
               PROVE  sym \in DOMAIN symtab[1] /\ symtab[1][sym].def = d
    BY <1>1 DEF FilesBind
  <2>1. CASE d \in AtFileScope(sym)
    BY <1>10, <2>1 DEF Bound, FilesBind
  <2>2. CASE d \in new(sym)
    <3>1. PICK j \in InTheItem(sym, pc) : d = <<cur[1], cur[2], j>>
      BY <1>6, <2>2
    <3>2. Level(code, j) = 1 /\ DefinitionAt(j) = d
      BY <1>8, <3>1
    <3>3. sym \in DOMAIN symtab[Level(code, j)] /\ symtab[Level(code, j)][sym].def = DefinitionAt(j)
      BY <1>10 DEF Bound, TextBinds
    <3> QED BY <3>2, <3>3
  <2> QED BY <1>5, <2>1, <2>2
<1>12. Explained'
  <2> SUFFICES ASSUME NEW sym \in DOMAIN symtab[1] PROVE AtFileScope(sym)' # {}
    BY <1>1, <1>3 DEF Explained
  <2>1. InTheItem(sym, pc) # {} \/ AtFileScope(sym) # {} \/ FromUse(sym, 1)
    BY <1>3, <1>10 DEF Bound, Explained
  <2>2. ~FromUse(sym, 1)
    BY <1>3 DEF FromUse
  <2> QED BY <1>5, <1>7, <2>1, <2>2
<1>13. UsedAsText'
  BY <1>1 DEF UsedAsText, Nothing
<1> QED BY <1>9, <1>11, <1>12, <1>13 DEF Scoped, Bound

LEMMA ScopedStep == Shape /\ Shape' /\ Scoped /\ [Next]_vars => Scoped'
<1> SUFFICES ASSUME Shape, Shape', Scoped, [Next]_vars PROVE Scoped'
  OBVIOUS
<1>1. CASE failed
  <2>1. failed'
    BY <1>1 DEF Next, ParseFile, Validate, BeginItem, EndItem, EndValidate, NewScope, EndScope,
                AddArgs, Parameter, Resolve, Operate, PushLiteral, Drop, Define, SyntaxError, Go, vars
  <2> QED BY <2>1 DEF Scoped
<1>2. CASE ~failed
  <2>1. ASSUME NEW n \in 1..NameCount, NEW f \in File, ParseFile(n, f) PROVE Scoped'
    BY <2>1, ParseFileScoped
  <2>2. ASSUME NEW s \in BOOLEAN, Validate(s) PROVE Scoped'
    BY <2>2, UnchangedScoped DEF Validate, env
  <2>3. CASE BeginItem
    BY <2>3, BeginItemScoped
  <2>4. CASE EndItem
    BY <1>2, <2>4, EndItemScoped
  <2>5. CASE EndValidate
    BY <2>5, UnchangedScoped DEF EndValidate, env
  <2>6. CASE NewScope
    BY <1>2, <2>6, NewScopeScoped
  <2>7. CASE EndScope
    BY <1>2, <2>7, EndScopeScoped
  <2>8. CASE AddArgs
    BY <1>2, <2>8, AddArgsScoped
  <2>9. CASE Resolve
    BY <1>2, <2>9, ResolveScoped
  <2>10. CASE Operate \/ PushLiteral \/ Parameter \/ Drop
    BY <1>2, <2>10, OthersScoped
  <2>11. CASE Define
    BY <1>2, <2>11, DefineScoped
  <2>12. CASE UNCHANGED vars
    BY <2>12, UnchangedScoped DEF vars, env
  <2> QED BY <2>1, <2>2, <2>3, <2>4, <2>5, <2>6, <2>7, <2>8, <2>9, <2>10, <2>11, <2>12 DEF Next
<1> QED BY <1>1, <1>2

(* The invariant ResolvesLexically, of any files and any nesting: until    *)
(* there is an error, a symbol resolves to the innermost declaration that  *)
(* C has in scope (symbol_table.h:10-12), parameters and what is still     *)
(* being initialized excepted: these are passed over for what is defined   *)
(* further out.                                                            *)
THEOREM SymbolsResolveLexically == Spec => []ResolvesLexically
<1>1. Scoped => ResolvesLexically
  <2> SUFFICES ASSUME Scoped, last.kind = "use", ~failed
               PROVE  \/ last.def = Lexical(last.sym, pc - 1)
                      \/ /\ Surrounding(last.sym, pc - 1) # {}
                         /\ last.def = DefinedBefore(last.sym, pc - 1)
    BY DEF ResolvesLexically
  <2>1. last.def = DefinedBefore(last.sym, pc - 1)
    BY DEF Scoped, UsedAsText
  <2>2. CASE Surrounding(last.sym, pc - 1) = {}
    BY <2>1, <2>2 DEF Lexical
  <2>3. CASE Surrounding(last.sym, pc - 1) # {}
    BY <2>1, <2>3
  <2> QED BY <2>2, <2>3
<1>2. Init => Shape /\ Scoped
  BY InitShape, InitScoped
<1>3. Shape /\ Scoped /\ [Next]_vars => Shape' /\ Scoped'
  BY ShapeStep, ScopedStep
<1> QED BY <1>1, <1>2, <1>3, PTL DEF Spec
===============================================================================
