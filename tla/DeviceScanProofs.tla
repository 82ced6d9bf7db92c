--------------------------- MODULE DeviceScanProofs ---------------------------
(***************************************************************************)
(* The callbacks of the device files, for any devices: a callback that     *)
(* returns has closed every scope that it has opened, whatever the device  *)
(* answers to its conditions, and every scope open on the way is in the    *)
(* scope around it.                                                        *)
(*                                                                         *)
(* Statements lead from a number of open scopes to another (Leads).  The   *)
(* statements of an if or a case are statements again, so that this is     *)
(* said by a set of triples, the statements and the numbers before and     *)
(* after, that is consistent: each of its triples follows from others of   *)
(* the set by the first statement.  A call leads where its function is     *)
(* said to lead (From, To); that the statements of each function do is a   *)
(* lemma for each.  That what is still to be run leads to one open scope   *)
(* is inductive, with the shape of the open scopes (Nested).               *)
(***************************************************************************)
EXTENDS DeviceScan, SequenceTheorems, WellFoundedInduction, TLAPS

(* A set of numbers has a least member.                                    *)
LEMMA LeastNumber ==
  ASSUME NEW U, U \subseteq Nat, U # {}
  PROVE  \E m \in U : \A k \in U : m <= k
<1> DEFINE before == OpToRel(<, Nat)
<1>1. \E m \in U : \A k \in U : ~ (<<k, m>> \in before)
  BY NatLessThanWellFounded, WFMin
<1>2. \A k, m \in Nat : <<k, m>> \in before <=> k < m
  BY DEF OpToRel
<1> HIDE DEF before
<1>3. PICK m \in U : \A k \in U : ~ (<<k, m>> \in before)
  BY <1>1
<1>4. ASSUME NEW k \in U PROVE m <= k
  <2>1. k \in Nat /\ m \in Nat /\ ~ (<<k, m>> \in before)
    BY <1>3
  <2>2. ~ (k < m)
    BY <1>2, <2>1
  <2> QED BY <2>1, <2>2
<1> QED BY <1>4

-----------------------------------------------------------------------------
(* How many scopes are open: never none.                                   *)
Levels == Nat \ {0}

(* The statements that leave the open scopes as they are.                  *)
Plain == {"bookmark", "type", "reg", "field", "bit", "alias", "read", "readby"}

(* The functions: those whose argument is a number, those that leave a     *)
(* scope open for what follows, and those that close a scope their caller  *)
(* has opened.                                                             *)
Sections == PciSections \cup CpuSections \cup K8Sections
Counted  == {"ht_dma", "msi_vectors", "msix_table", "msr_variable_mtrrs",
             "further_queries", "further_xeon_queries"}
Inward   == {"PCI_SCOPE", "CPUID_SCOPE", "MSR_SCOPE", "msr_first",
             "k8_msr_mc_global", "k8_mca_config"}
Outward  == {"next_capability", "next_ecapability", "cache_descriptors",
             "further_queries", "further_xeon_queries", "msr_other",
             "k8_mca_address"}
Callable(fn, arg) == fn \in Sections /\ (fn \in Counted => arg \in Nat)
From(fn) == IF fn \in Outward THEN 2 ELSE 1
To(fn)   == IF fn \in Inward THEN 2 ELSE 1
Calls(fn, a, b) == From(fn) <= a /\ b = a + To(fn) - From(fn)

(* The statement x takes a open scopes to b, its own statements doing as L *)
(* says.                                                                   *)
Takes(x, a, b, L) ==
  \/ x.op \in Plain /\ a = b
  \/ x.op = "open" /\ b = a + 1
  \/ x.op = "close" /\ a = b + 1
  \/ x.op = "if" /\ <<x.then, a, b>> \in L /\ <<x.else, a, b>> \in L
  \/ /\ x.op = "case" /\ <<x.else, a, b>> \in L
     /\ \A k \in DOMAIN x.alts : <<x.alts[k], a, b>> \in L
  \/ x.op = "call" /\ Callable(x.fn, x.arg) /\ Calls(x.fn, a, b)
  \/ x.op = "callwith" /\ (\A v \in Nat : Callable(x.fn, v)) /\ Calls(x.fn, a, b)

(* L, of sequences over S, agrees with itself: the first statement of      *)
(* each, and the rest of it.                                               *)
Consistent(S, L) ==
  /\ L \subseteq Seq(S) \X Levels \X Levels
  /\ \A s \in Seq(S), a, b \in Levels :
       <<s, a, b>> \in L =>
         IF s = <<>> THEN a = b
         ELSE \E m \in Levels : Takes(Head(s), a, m, L) /\ <<Tail(s), m, b>> \in L

(* The statements s, and the statement x, lead from a open scopes to b.    *)
Leads(s, a, b) == \E S, L : Consistent(S, L) /\ <<s, a, b>> \in L
Moves(x, a, b) ==
  \E S, L : Consistent(S, L) /\ a \in Levels /\ b \in Levels /\ Takes(x, a, b, L)

(* Consistent sets are consistent together.                                *)
LEMMA TakesMore ==
  ASSUME NEW L, NEW M, L \subseteq M, NEW x, NEW a, NEW b, Takes(x, a, b, L)
  PROVE  Takes(x, a, b, M)
BY DEF Takes

LEMMA ConsistentTogether ==
  ASSUME NEW I, NEW S, NEW L, \A i \in I : Consistent(S[i], L[i]),
         NEW SS, \A x : x \in SS <=> \E i \in I : x \in S[i],
         NEW LL, \A x : x \in LL <=> \E i \in I : x \in L[i]
  PROVE  Consistent(SS, LL)
<1>1. ASSUME NEW i \in I PROVE L[i] \subseteq Seq(SS) \X Levels \X Levels
  <2>1. S[i] \subseteq SS
    OBVIOUS
  <2>2. \A s \in Seq(S[i]) : s \in Seq(SS)
    BY <2>1
  <2>3. L[i] \subseteq Seq(S[i]) \X Levels \X Levels
    BY DEF Consistent
  <2> QED BY <2>2, <2>3
<1>2. LL \subseteq Seq(SS) \X Levels \X Levels
  BY <1>1
<1>3. ASSUME NEW s \in Seq(SS), NEW a \in Levels, NEW b \in Levels, <<s, a, b>> \in LL
      PROVE  IF s = <<>> THEN a = b
             ELSE \E m \in Levels : Takes(Head(s), a, m, LL) /\ <<Tail(s), m, b>> \in LL
  <2>1. PICK i \in I : <<s, a, b>> \in L[i]
    BY <1>3
  <2>2. L[i] \subseteq LL
    OBVIOUS
  <2>3. s \in Seq(S[i]) /\ Consistent(S[i], L[i])
    BY <2>1 DEF Consistent
  <2>4. IF s = <<>> THEN a = b
        ELSE \E m \in Levels : Takes(Head(s), a, m, L[i]) /\ <<Tail(s), m, b>> \in L[i]
    BY <2>1, <2>3 DEF Consistent
  <2> QED BY <2>2, <2>4, TakesMore
<1> QED BY <1>2, <1>3 DEF Consistent

LEMMA ConsistentWith ==
  ASSUME NEW S, NEW L, NEW Q, NEW M, Consistent(S, L), Consistent(Q, M)
  PROVE  Consistent(S \cup Q, L \cup M)
<1> DEFINE SS == [i \in {1, 2} |-> IF i = 1 THEN S ELSE Q]
           LL == [i \in {1, 2} |-> IF i = 1 THEN L ELSE M]
<1>1. \A i \in {1, 2} : Consistent(SS[i], LL[i])
  OBVIOUS
<1>2. /\ \A x : x \in S \cup Q <=> \E i \in {1, 2} : x \in SS[i]
      /\ \A x : x \in L \cup M <=> \E i \in {1, 2} : x \in LL[i]
  OBVIOUS
<1> HIDE DEF SS, LL
<1> QED BY <1>1, <1>2, ConsistentTogether

(* Nothing leads nowhere; one statement before others.                     *)
LEMMA LeadsFromTo ==
  ASSUME NEW s, NEW a, NEW b, Leads(s, a, b)
  PROVE  a \in Levels /\ b \in Levels /\ (s = <<>> => a = b) /\ \E S : s \in Seq(S)
BY DEF Leads, Consistent

LEMMA NothingLeads ==
  ASSUME NEW a \in Levels
  PROVE  Leads(<<>>, a, a)
<1> DEFINE L == {<<<<>>, a, a>>}
<1>1. <<>> \in Seq({})
  OBVIOUS
<1>2. L \subseteq Seq({}) \X Levels \X Levels
  <2>1. <<<<>>, a, a>> \in Seq({}) \X Levels \X Levels
    BY <1>1
  <2> QED BY <2>1
<1>3. \A s, c, d : <<s, c, d>> \in L => s = <<>> /\ c = d
  OBVIOUS
<1>4. Consistent({}, L)
  <2> HIDE DEF L
  <2> QED BY <1>2, <1>3 DEF Consistent
<1> QED BY <1>4 DEF Leads

LEMMA FirstMoves ==
  ASSUME NEW s, NEW a, NEW b, Leads(s, a, b), s # <<>>
  PROVE  \E m \in Levels : Moves(Head(s), a, m) /\ Leads(Tail(s), m, b)
<1>1. PICK S, L : Consistent(S, L) /\ <<s, a, b>> \in L
  BY DEF Leads
<1>2. s \in Seq(S) /\ a \in Levels /\ b \in Levels
  BY <1>1 DEF Consistent
<1>3. PICK m \in Levels : Takes(Head(s), a, m, L) /\ <<Tail(s), m, b>> \in L
  BY <1>1, <1>2 DEF Consistent
<1> QED BY <1>1, <1>2, <1>3 DEF Leads, Moves

LEMMA StatementLeads ==
  ASSUME NEW x, NEW a, NEW m, Moves(x, a, m), NEW t, NEW b, Leads(t, m, b)
  PROVE  Leads(<<x>> \o t, a, b)
<1>1. PICK S, L : Consistent(S, L) /\ a \in Levels /\ m \in Levels /\ Takes(x, a, m, L)
  BY DEF Moves
<1>2. PICK Q, M : Consistent(Q, M) /\ <<t, m, b>> \in M
  BY DEF Leads
<1>3. t \in Seq(Q) /\ b \in Levels
  BY <1>2 DEF Consistent
<1> DEFINE s == <<x>> \o t
           SS == (S \cup Q) \cup {x}
           K == L \cup M
           LL == K \cup {<<s, a, b>>}
<1>4. Consistent(S \cup Q, K)
  BY <1>1, <1>2, ConsistentWith
<1>5. s \in Seq(SS) /\ s # <<>> /\ Head(s) = x /\ Tail(s) = t
  <2>1. t \in Seq(SS)
    BY <1>3
  <2> HIDE DEF SS
  <2>2. x \in SS
    BY DEF SS
  <2> QED BY <2>1, <2>2
<1>6. K \subseteq Seq(S \cup Q) \X Levels \X Levels
  BY <1>4 DEF Consistent
<1>7. \A w \in Seq(S \cup Q) : w \in Seq(SS)
  OBVIOUS
<1> HIDE DEF SS, K, s
<1>8. LL \subseteq Seq(SS) \X Levels \X Levels
  BY <1>1, <1>3, <1>5, <1>6, <1>7
<1>9. ASSUME NEW w \in Seq(SS), NEW c \in Levels, NEW d \in Levels, <<w, c, d>> \in LL
      PROVE  IF w = <<>> THEN c = d
             ELSE \E k \in Levels : Takes(Head(w), c, k, LL) /\ <<Tail(w), k, d>> \in LL
  <2>1. CASE <<w, c, d>> \in K
    <3>1. IF w = <<>> THEN c = d
          ELSE \E k \in Levels : Takes(Head(w), c, k, K) /\ <<Tail(w), k, d>> \in K
      BY <1>4, <1>6, <2>1 DEF Consistent
    <3>2. K \subseteq LL
      OBVIOUS
    <3> HIDE DEF LL
    <3> QED BY <3>1, <3>2, TakesMore
  <2>2. CASE <<w, c, d>> = <<s, a, b>>
    <3>1. L \subseteq LL /\ <<t, m, b>> \in LL
      BY <1>2 DEF K
    <3>2. Takes(x, a, m, LL)
      <4> HIDE DEF LL
      <4> QED BY <1>1, <3>1, TakesMore
    <3>3. w = s /\ c = a /\ d = b
      BY <2>2
    <3> HIDE DEF LL
    <3> QED BY <1>1, <1>5, <3>1, <3>2, <3>3
  <2> QED BY <1>9, <2>1, <2>2
<1>10. Consistent(SS, LL)
  <2> HIDE DEF LL
  <2> QED BY <1>8, <1>9 DEF Consistent
<1> QED BY <1>10 DEF Leads, s

LEMMA NoneConsistent == Consistent({}, {})
BY DEF Consistent

(* What each statement does to the number of the open scopes.              *)
LEMMA PlainMoves ==
  ASSUME NEW x, x.op \in Plain, NEW a \in Levels, NEW b, a = b
  PROVE  Moves(x, a, b)
BY NoneConsistent DEF Moves, Takes

LEMMA OpenMoves ==
  ASSUME NEW x, x.op = "open", NEW a \in Levels, NEW b, b = a + 1
  PROVE  Moves(x, a, b)
<1>1. b \in Levels
  BY DEF Levels
<1> QED BY <1>1, NoneConsistent DEF Moves, Takes

LEMMA CloseMoves ==
  ASSUME NEW x, x.op = "close", NEW a \in Levels, NEW b \in Levels, a = b + 1
  PROVE  Moves(x, a, b)
BY NoneConsistent DEF Moves, Takes

LEMMA CallMoves ==
  ASSUME NEW x, NEW a \in Levels, NEW b \in Levels, Calls(x.fn, a, b),
         \/ x.op = "call" /\ Callable(x.fn, x.arg)
         \/ x.op = "callwith" /\ \A v \in Nat : Callable(x.fn, v)
  PROVE  Moves(x, a, b)
BY NoneConsistent DEF Moves, Takes

LEMMA IfMoves ==
  ASSUME NEW x, x.op = "if", NEW a, NEW b, Leads(x.then, a, b), Leads(x.else, a, b)
  PROVE  Moves(x, a, b)
<1>1. PICK S, L : Consistent(S, L) /\ <<x.then, a, b>> \in L
  BY DEF Leads
<1>2. PICK Q, M : Consistent(Q, M) /\ <<x.else, a, b>> \in M
  BY DEF Leads
<1>3. Consistent(S \cup Q, L \cup M)
  BY <1>1, <1>2, ConsistentWith
<1>4. Takes(x, a, b, L \cup M)
  BY <1>1, <1>2 DEF Takes
<1> QED BY <1>3, <1>4, LeadsFromTo DEF Moves

LEMMA CaseMoves ==
  ASSUME NEW x, x.op = "case", NEW a, NEW b, Leads(x.else, a, b),
         \A k \in DOMAIN x.alts : Leads(x.alts[k], a, b)
  PROVE  Moves(x, a, b)
<1> DEFINE I == DOMAIN x.alts
           P(k, p) == Consistent(p[1], p[2]) /\ <<x.alts[k], a, b>> \in p[2]
           at == [k \in I |-> CHOOSE p : P(k, p)]
           S == [k \in I |-> at[k][1]]
           L == [k \in I |-> at[k][2]]
           SS == UNION {S[k] : k \in I}
           LL == UNION {L[k] : k \in I}
<1>1. ASSUME NEW k \in I PROVE Consistent(S[k], L[k]) /\ <<x.alts[k], a, b>> \in L[k]
  <2>1. PICK Q, M : Consistent(Q, M) /\ <<x.alts[k], a, b>> \in M
    BY DEF Leads
  <2>2. P(k, <<Q, M>>)
    BY <2>1
  <2>3. P(k, CHOOSE p : P(k, p))
    <3> HIDE DEF P
    <3> QED BY <2>2
  <2> QED BY <2>3
<1>2. Consistent(SS, LL)
  <2>1. /\ \A y : y \in SS <=> \E k \in I : y \in S[k]
        /\ \A y : y \in LL <=> \E k \in I : y \in L[k]
    <3> HIDE DEF S, L
    <3> QED OBVIOUS
  <2> HIDE DEF SS, LL, S, L, I
  <2> QED BY <1>1, <2>1, ConsistentTogether
<1>3. PICK Q, M : Consistent(Q, M) /\ <<x.else, a, b>> \in M
  BY DEF Leads
<1>4. Consistent(SS \cup Q, LL \cup M)
  <2> HIDE DEF SS, LL
  <2> QED BY <1>2, <1>3, ConsistentWith
<1>5. \A k \in I : <<x.alts[k], a, b>> \in LL
  <2> HIDE DEF L
  <2> QED BY <1>1
<1>6. Takes(x, a, b, LL \cup M)
  <2> HIDE DEF LL
  <2> QED BY <1>3, <1>5 DEF Takes
<1> HIDE DEF SS, LL
<1> QED BY <1>4, <1>6, LeadsFromTo DEF Moves

(* ... and what one of each that moves knows of what it leads to.          *)
LEMMA MovesBy ==
  ASSUME NEW x, NEW a, NEW b, Moves(x, a, b)
  PROVE  /\ a \in Levels /\ b \in Levels
         /\ x.op \in Plain => a = b
         /\ x.op = "open" => b = a + 1
         /\ x.op = "close" => a = b + 1
         /\ x.op = "if" => Leads(x.then, a, b) /\ Leads(x.else, a, b)
         /\ x.op = "case" => /\ Leads(x.else, a, b)
                             /\ \A k \in DOMAIN x.alts : Leads(x.alts[k], a, b)
         /\ x.op = "call" => Callable(x.fn, x.arg) /\ Calls(x.fn, a, b)
         /\ x.op = "callwith" => (\A v \in Nat : Callable(x.fn, v)) /\ Calls(x.fn, a, b)
<1>1. PICK S, L : Consistent(S, L) /\ a \in Levels /\ b \in Levels /\ Takes(x, a, b, L)
  BY DEF Moves
<1> QED BY <1>1 DEF Takes, Leads, Plain

(* One sequence of statements after another.                               *)
LEMMA LeadsOn ==
  ASSUME NEW t, NEW b, NEW c, Leads(t, b, c),
         NEW s, NEW a, Leads(s, a, b)
  PROVE  Leads(s \o t, a, c)
<1> DEFINE P(n) == \E u, d : Leads(u, d, b) /\ Len(u) = n /\ ~Leads(u \o t, d, c)
           K == {n \in Nat : P(n)}
<1>1. PICK Q : t \in Seq(Q)
  BY LeadsFromTo
<1>2. \A u, d : Leads(u, d, b) => Len(u) \in Nat
  BY LeadsFromTo
<1> SUFFICES ASSUME K # {} PROVE FALSE
  BY <1>2
<1>3. PICK n \in K : \A k \in K : n <= k
  BY LeastNumber
<1>4. PICK u, d : Leads(u, d, b) /\ Len(u) = n /\ ~Leads(u \o t, d, c)
  BY <1>3
<1>5. PICK U : u \in Seq(U)
  BY <1>4, LeadsFromTo
<1>6. u # <<>>
  <2> SUFFICES ASSUME u = <<>> PROVE FALSE
    OBVIOUS
  <2>1. d = b
    BY <1>4, LeadsFromTo
  <2>2. u \o t = t
    BY <1>1
  <2> QED BY <1>4, <2>1, <2>2
<1>7. PICK m \in Levels : Moves(Head(u), d, m) /\ Leads(Tail(u), m, b)
  BY <1>4, <1>6, FirstMoves
<1>8. Len(Tail(u)) = n - 1 /\ n - 1 \in Nat
  BY <1>3, <1>4, <1>5, <1>6
<1>9. n - 1 \notin K
  BY <1>3, <1>8
<1>10. Leads(Tail(u) \o t, m, c)
  BY <1>7, <1>8, <1>9
<1>11. <<Head(u)>> \o (Tail(u) \o t) = u \o t
  <2>1. u \in Seq(U \cup Q) /\ t \in Seq(U \cup Q)
    BY <1>1, <1>5
  <2> QED BY <1>6, <2>1
<1> QED BY <1>4, <1>7, <1>10, <1>11, StatementLeads

(* Statements in a row.                                                    *)
LEMMA ListLeads ==
  ASSUME NEW S, NEW c \in Seq(S), NEW l, l[1] \in Levels,
         \A i \in 1..Len(c) : Moves(c[i], l[i], l[i + 1])
  PROVE  Leads(c, l[1], l[Len(c) + 1])
<1> DEFINE P(n) == \E d, k : /\ d \in Seq(S) /\ Len(d) = n /\ k[1] \in Levels
                             /\ \A i \in 1..Len(d) : Moves(d[i], k[i], k[i + 1])
                             /\ ~Leads(d, k[1], k[Len(d) + 1])
           K == {n \in Nat : P(n)}
<1> SUFFICES ASSUME K # {} PROVE FALSE
  OBVIOUS
<1>1. PICK n \in K : \A m \in K : n <= m
  BY LeastNumber
<1>2. PICK d, k : /\ d \in Seq(S) /\ Len(d) = n /\ k[1] \in Levels
                  /\ \A i \in 1..Len(d) : Moves(d[i], k[i], k[i + 1])
                  /\ ~Leads(d, k[1], k[Len(d) + 1])
  BY <1>1
<1>3. d # <<>>
  BY <1>2, NothingLeads
<1> DEFINE j == [i \in Nat |-> k[i + 1]]
<1>4. /\ Tail(d) \in Seq(S) /\ Len(Tail(d)) = n - 1 /\ n - 1 \in Nat
      /\ d = <<d[1]>> \o Tail(d)
      /\ \A i \in 1..(n - 1) : Tail(d)[i] = d[i + 1]
  BY <1>2, <1>3
<1>5. Moves(d[1], k[1], k[2]) /\ k[2] \in Levels
  <2>1. Moves(d[1], k[1], k[1 + 1])
    BY <1>2, <1>4
  <2> QED BY <2>1, MovesBy
<1>6. Leads(Tail(d), j[1], j[Len(Tail(d)) + 1])
  <2>1. \A i \in 1..Len(Tail(d)) : Moves(Tail(d)[i], j[i], j[i + 1])
    <3> SUFFICES ASSUME NEW i \in 1..(n - 1)
                 PROVE  Moves(Tail(d)[i], j[i], j[i + 1])
      BY <1>4
    <3>1. i + 1 \in 1..Len(d)
      BY <1>2, <1>4
    <3>2. Moves(d[i + 1], k[i + 1], k[i + 1 + 1])
      BY <1>2, <3>1
    <3> QED BY <1>4, <3>2
  <2>2. j[1] \in Levels
    BY <1>5
  <2>3. ~P(n - 1)
    BY <1>1, <1>4
  <2> HIDE DEF j
  <2> QED BY <1>4, <2>1, <2>2, <2>3
<1>7. j[1] = k[2] /\ j[Len(Tail(d)) + 1] = k[Len(d) + 1]
  <2>1. Len(Tail(d)) + 1 = n /\ Len(d) + 1 = n + 1 /\ n \in Nat
    BY <1>2, <1>4
  <2>2. j[n] = k[n + 1]
    BY <2>1
  <2>3. j[1] = k[1 + 1]
    OBVIOUS
  <2> HIDE DEF j
  <2> QED BY <2>1, <2>2, <2>3
<1>8. Leads(Tail(d), k[2], k[Len(d) + 1])
  <2> HIDE DEF j
  <2> QED BY <1>6, <1>7
<1>9. Leads(<<d[1]>> \o Tail(d), k[1], k[Len(d) + 1])
  BY <1>5, <1>8, StatementLeads
<1> QED BY <1>2, <1>4, <1>9

(* The same statements with more scopes open around them.                  *)
LEMMA LeadsWithin ==
  ASSUME NEW s, NEW a, NEW b, Leads(s, a, b), NEW k \in Nat
  PROVE  Leads(s, a + k, b + k)
<1>1. PICK S, L : Consistent(S, L) /\ <<s, a, b>> \in L
  BY DEF Leads
<1> DEFINE Raised(w) == <<w[1], w[2] + k, w[3] + k>>
           M == {Raised(w) : w \in L}
<1>2. L \subseteq Seq(S) \X Levels \X Levels
  BY <1>1 DEF Consistent
<1>3. \A c \in Levels : c \in Nat /\ c + k \in Levels
  BY DEF Levels
<1>4. ASSUME NEW w \in L
      PROVE  /\ w[1] \in Seq(S) /\ w[2] \in Levels /\ w[3] \in Levels
             /\ w = <<w[1], w[2], w[3]>>
  BY <1>2
<1>5. M \subseteq Seq(S) \X Levels \X Levels
  <2>1. ASSUME NEW w \in L PROVE Raised(w) \in Seq(S) \X Levels \X Levels
    <3>1. w[1] \in Seq(S) /\ w[2] + k \in Levels /\ w[3] + k \in Levels
      BY <1>3, <1>4
    <3> QED BY <3>1
  <2> HIDE DEF Raised
  <2> QED BY <2>1
<1>6. \A u, c, d : <<u, c, d>> \in L => <<u, c + k, d + k>> \in M
  <2>1. ASSUME NEW u, NEW c, NEW d, <<u, c, d>> \in L PROVE <<u, c + k, d + k>> \in M
    <3>1. Raised(<<u, c, d>>) = <<u, c + k, d + k>>
      OBVIOUS
    <3> HIDE DEF Raised
    <3> QED BY <2>1, <3>1
  <2> QED BY <2>1
<1>7. ASSUME NEW x, NEW c \in Levels, NEW d \in Levels, Takes(x, c, d, L)
      PROVE  Takes(x, c + k, d + k, M)
  <2>1. ASSUME NEW fn, Calls(fn, c, d) PROVE Calls(fn, c + k, d + k)
    <3>1. From(fn) \in Nat /\ To(fn) \in Nat /\ c \in Nat /\ d \in Nat
      BY <1>3 DEF From, To
    <3> QED BY <2>1, <3>1 DEF Calls
  <2>2. c \in Nat /\ d \in Nat
    BY <1>3
  <2> HIDE DEF M
  <2>3. CASE x.op = "case" /\ <<x.else, c, d>> \in L
             /\ \A i \in DOMAIN x.alts : <<x.alts[i], c, d>> \in L
    BY <1>6, <2>3 DEF Takes
  <2>4. CASE x.op = "if" /\ <<x.then, c, d>> \in L /\ <<x.else, c, d>> \in L
    BY <1>6, <2>4 DEF Takes
  <2>5. CASE \/ x.op = "open" /\ d = c + 1
             \/ x.op = "close" /\ c = d + 1
    <3>1. (d = c + 1 => d + k = c + k + 1) /\ (c = d + 1 => c + k = d + k + 1)
      BY <2>2
    <3> QED BY <2>5, <3>1 DEF Takes
  <2>6. CASE \/ x.op = "call" /\ Callable(x.fn, x.arg) /\ Calls(x.fn, c, d)
             \/ x.op = "callwith" /\ (\A v \in Nat : Callable(x.fn, v)) /\ Calls(x.fn, c, d)
    BY <2>1, <2>6 DEF Takes
  <2>7. CASE x.op \in Plain /\ c = d
    BY <2>7 DEF Takes
  <2>8. \/ x.op = "case" /\ <<x.else, c, d>> \in L
           /\ \A i \in DOMAIN x.alts : <<x.alts[i], c, d>> \in L
        \/ x.op = "if" /\ <<x.then, c, d>> \in L /\ <<x.else, c, d>> \in L
        \/ x.op = "open" /\ d = c + 1
        \/ x.op = "close" /\ c = d + 1
        \/ x.op = "call" /\ Callable(x.fn, x.arg) /\ Calls(x.fn, c, d)
        \/ x.op = "callwith" /\ (\A v \in Nat : Callable(x.fn, v)) /\ Calls(x.fn, c, d)
        \/ x.op \in Plain /\ c = d
    BY <1>7 DEF Takes
  <2> QED BY <2>3, <2>4, <2>5, <2>6, <2>7, <2>8
<1>8. Consistent(S, M)
  <2>1. ASSUME NEW u \in Seq(S), NEW c \in Levels, NEW d \in Levels, <<u, c, d>> \in M
        PROVE  IF u = <<>> THEN c = d
               ELSE \E m \in Levels : Takes(Head(u), c, m, M) /\ <<Tail(u), m, d>> \in M
    <3>1. PICK w \in L : <<u, c, d>> = Raised(w)
      BY <2>1
    <3>2. u = w[1] /\ c = w[2] + k /\ d = w[3] + k
      BY <3>1
    <3>3. w[2] \in Levels /\ w[3] \in Levels /\ <<u, w[2], w[3]>> \in L
      BY <1>4, <3>2
    <3>4. CASE u = <<>>
      <4>1. w[2] = w[3]
        BY <1>1, <3>3, <3>4 DEF Consistent
      <4> QED BY <3>2, <3>4, <4>1
    <3>5. CASE u # <<>>
      <4>1. PICK m \in Levels : Takes(Head(u), w[2], m, L) /\ <<Tail(u), m, w[3]>> \in L
        BY <1>1, <3>3, <3>5 DEF Consistent
      <4>2. Takes(Head(u), c, m + k, M) /\ <<Tail(u), m + k, d>> \in M /\ m + k \in Levels
        <5> HIDE DEF M, Raised
        <5> QED BY <1>3, <1>6, <1>7, <3>2, <3>3, <4>1
      <4> HIDE DEF M
      <4> QED BY <3>5, <4>2
    <3> QED BY <3>4, <3>5
  <2> HIDE DEF M
  <2> QED BY <1>5, <2>1 DEF Consistent
<1>9. <<s, a + k, b + k>> \in M
  <2> HIDE DEF M
  <2> QED BY <1>1, <1>6
<1> HIDE DEF M
<1> QED BY <1>8, <1>9 DEF Leads

(* Sequences of statements one after the other.                            *)
LEMMA FlattenFirst ==
  ASSUME NEW S, NEW n \in Nat, n # 0, NEW f, DOMAIN f = 1..n, Len(f) = n,
         \A i \in 1..n : f[i] \in Seq(S)
  PROVE  \E g : /\ \A i \in 1..n : g[i] = IF i = 1 THEN f[i] ELSE g[i - 1] \o f[i]
                /\ FlattenSeq(f) = g[n]
<1> DEFINE Sums(h, k) == /\ h = [i \in 1..k |-> h[i]]
                         /\ \A i \in 1..k : h[i] = IF i = 1 THEN f[i] ELSE h[i - 1] \o f[i]
           K == {k \in 1..n : ~ \E h : Sums(h, k)}
           g == CHOOSE h : h = [i \in 1..n |-> IF i = 1 THEN f[i] ELSE h[i - 1] \o f[i]]
<1>1. \E h : Sums(h, n)
  <2> SUFFICES ASSUME K # {} PROVE FALSE
    <3>1. n \in 1..n
      OBVIOUS
    <3> HIDE DEF Sums
    <3> QED BY <3>1
  <2>1. PICK m \in K : \A k \in K : m <= k
    <3>1. K \subseteq Nat
      OBVIOUS
    <3> HIDE DEF K
    <3> QED BY <3>1, LeastNumber
  <2>2. m \in 1..n /\ ~ \E h : Sums(h, m)
    <3> HIDE DEF Sums
    <3> QED OBVIOUS
  <2>3. CASE m = 1
    <3> DEFINE h == [i \in 1..1 |-> f[i]]
    <3>1. Sums(h, 1)
      OBVIOUS
    <3> HIDE DEF Sums, h
    <3> QED BY <2>2, <2>3, <3>1
  <2>4. CASE m # 1
    <3>1. m - 1 \in 1..n /\ ~(m <= m - 1)
      BY <2>2, <2>4
    <3>2. PICK h : Sums(h, m - 1)
      <4> HIDE DEF Sums
      <4> QED BY <2>1, <3>1
    <3> DEFINE w == [i \in 1..m |-> IF i = m THEN h[m - 1] \o f[m] ELSE h[i]]
    <3>3. w = [i \in 1..m |-> w[i]]
      OBVIOUS
    <3>4. ASSUME NEW i \in 1..m
          PROVE  w[i] = IF i = 1 THEN f[i] ELSE w[i - 1] \o f[i]
      <4>1. CASE i = m
        <5>1. m - 1 \in 1..m /\ m - 1 # m
          BY <2>2, <2>4
        <5>2. w[i] = h[m - 1] \o f[m] /\ w[m - 1] = h[m - 1]
          BY <4>1, <5>1
        <5> HIDE DEF w
        <5> QED BY <2>4, <4>1, <5>2
      <4>2. CASE i # m
        <5>1. i \in 1..(m - 1) /\ (i # 1 => i - 1 \in 1..m /\ i - 1 # m)
          BY <2>2, <4>2
        <5>2. w[i] = h[i] /\ (i # 1 => w[i - 1] = h[i - 1])
          BY <4>2, <5>1
        <5>3. h[i] = IF i = 1 THEN f[i] ELSE h[i - 1] \o f[i]
          BY <3>2, <5>1
        <5> HIDE DEF w
        <5> QED BY <5>2, <5>3
      <4> QED BY <4>1, <4>2
    <3>5. Sums(w, m)
      <4> HIDE DEF w
      <4> QED BY <3>3, <3>4
    <3> HIDE DEF Sums
    <3> QED BY <2>2, <3>5
  <2> QED BY <2>3, <2>4
<1>4. g = [i \in 1..n |-> IF i = 1 THEN f[i] ELSE g[i - 1] \o f[i]]
  <2>1. PICK h : Sums(h, n)
    BY <1>1
  <2>2. h = [i \in 1..n |-> IF i = 1 THEN f[i] ELSE h[i - 1] \o f[i]]
    BY <2>1
  <2> QED BY <2>2
<1>5. \A i \in 1..n : g[i] = IF i = 1 THEN f[i] ELSE g[i - 1] \o f[i]
  <2> HIDE DEF g
  <2> QED BY <1>4
<1>6. FlattenSeq(f) = g[n]
  BY DEF FlattenSeq
<1> HIDE DEF g
<1> QED BY <1>5, <1>6

LEMMA FlattenLeads ==
  ASSUME NEW n \in Nat, NEW f, DOMAIN f = 1..n, Len(f) = n, n = 0 => f = <<>>,
         NEW a \in Levels, \A i \in 1..n : Leads(f[i], a, a)
  PROVE  Leads(FlattenSeq(f), a, a)
<1>1. CASE n = 0
  <2>1. FlattenSeq(f) = <<>>
    BY <1>1 DEF FlattenSeq
  <2> QED BY <2>1, NothingLeads
<1>2. CASE n # 0
  <2> DEFINE Q(i) == CHOOSE S : f[i] \in Seq(S)
             S == UNION {Q(i) : i \in 1..n}
  <2>1. ASSUME NEW i \in 1..n PROVE f[i] \in Seq(S)
    <3>1. f[i] \in Seq(Q(i))
      <4>1. \E U : f[i] \in Seq(U)
        BY LeadsFromTo
      <4> QED BY <4>1
    <3>2. Q(i) \subseteq S
      <4> HIDE DEF Q
      <4> QED OBVIOUS
    <3> HIDE DEF S, Q
    <3> QED BY <3>1, <3>2
  <2> HIDE DEF S
  <2>2. PICK g : /\ \A i \in 1..n : g[i] = IF i = 1 THEN f[i] ELSE g[i - 1] \o f[i]
                 /\ FlattenSeq(f) = g[n]
    BY <1>2, <2>1, FlattenFirst
  <2> DEFINE K == {k \in 1..n : ~Leads(g[k], a, a)}
  <2>3. K = {}
    <3> SUFFICES ASSUME K # {} PROVE FALSE
      OBVIOUS
    <3>1. PICK m \in K : \A k \in K : m <= k
      <4>1. K \subseteq Nat
        OBVIOUS
      <4> HIDE DEF K
      <4> QED BY <4>1, LeastNumber
    <3>2. m = 1 => g[m] = f[m]
      BY <2>2
    <3>3. m # 1 => m - 1 \in 1..n /\ m - 1 \notin K /\ g[m] = g[m - 1] \o f[m]
      <4>1. m \in 1..n
        OBVIOUS
      <4>2. m # 1 => m - 1 \in 1..n /\ ~(m <= m - 1)
        BY <4>1
      <4> HIDE DEF K
      <4> QED BY <2>2, <3>1, <4>1, <4>2
    <3>4. Leads(f[m], a, a)
      OBVIOUS
    <3> QED BY <3>2, <3>3, <3>4, LeadsOn
  <2>4. n \in 1..n
    BY <1>2
  <2> QED BY <2>2, <2>3, <2>4
<1> QED BY <1>1, <1>2

LEMMA RepeatLeads ==
  ASSUME NEW n \in Int, NEW body, NEW a \in Levels, Leads(body, a, a)
  PROVE  Leads(Repeat(n, body), a, a)
<1> DEFINE f == [i \in 1..n |-> body]
           m == IF n < 0 THEN 0 ELSE n
<1>1. m \in Nat /\ DOMAIN f = 1..m /\ Len(f) = m /\ (m = 0 => f = <<>>)
  <2>1. CASE n < 0
    <3>1. f = <<>> /\ m = 0
      BY <2>1
    <3> HIDE DEF f, m
    <3> QED BY <3>1
  <2>2. CASE n >= 0
    <3>1. m = n /\ n \in Nat
      BY <2>2
    <3>2. DOMAIN f = 1..n /\ Len(f) = n
      BY <3>1
    <3>3. n = 0 => f = <<>>
      OBVIOUS
    <3> HIDE DEF f, m
    <3> QED BY <3>1, <3>2, <3>3
  <2>3. n < 0 \/ n >= 0
    OBVIOUS
  <2> HIDE DEF f, m
  <2> QED BY <2>1, <2>2, <2>3
<1>2. \A i \in 1..m : Leads(f[i], a, a)
  OBVIOUS
<1>3. Leads(FlattenSeq(f), a, a)
  <2> HIDE DEF f, m
  <2> QED BY <1>1, <1>2, FlattenLeads
<1> QED BY <1>3 DEF Repeat

-----------------------------------------------------------------------------
(* The statements in the words of the device files.                        *)
LEMMA FewLevels ==
  1 \in Levels /\ 2 \in Levels /\ 3 \in Levels /\ 4 \in Levels
BY DEF Levels

LEMMA PlainStatements ==
  /\ \A a \in Levels : \A n :
       /\ Moves(Bookmark(n), a, a) /\ Moves(R(n), a, a) /\ Moves(RNext(n), a, a)
       /\ Moves(T(n), a, a) /\ Moves(Read(n), a, a)
  /\ \A a \in Levels : \A n, w :
       /\ Moves(RW(n, w), a, a) /\ Moves(Bit(n, w), a, a)
       /\ Moves(Alias(n, w), a, a) /\ Moves(AliasNext(n, w), a, a)
  /\ \A a \in Levels : \A t, r, n :
       /\ Moves(F(t, r, n), a, a) /\ Moves(FNext(t, r, n), a, a)
       /\ Moves(AliasOf(t, r, n), a, a) /\ Moves(ReadBy(t, r, n), a, a)
  /\ \A a \in Levels : \A t, r, n, k :
       /\ Moves(V(t, r, n, k), a, a) /\ Moves(Const(t, r, n, k), a, a)
  /\ \A a \in Levels : \A t, r, n, k, f : Moves(VFrom(t, r, n, k, f), a, a)
<1>1. /\ \A n : /\ Bookmark(n).op \in Plain /\ R(n).op \in Plain
                /\ RNext(n).op \in Plain /\ T(n).op \in Plain /\ Read(n).op \in Plain
      /\ \A n, w : /\ RW(n, w).op \in Plain /\ Bit(n, w).op \in Plain
                   /\ Alias(n, w).op \in Plain /\ AliasNext(n, w).op \in Plain
  BY DEF Plain, Bookmark, R, RW, RNext, T, Bit, Alias, AliasNext, Read
<1>2. /\ \A t, r, n : /\ F(t, r, n).op \in Plain /\ FNext(t, r, n).op \in Plain
                      /\ AliasOf(t, r, n).op \in Plain /\ ReadBy(t, r, n).op \in Plain
      /\ \A t, r, n, k : V(t, r, n, k).op \in Plain /\ Const(t, r, n, k).op \in Plain
      /\ \A t, r, n, k, f : VFrom(t, r, n, k, f).op \in Plain
  BY DEF Plain, F, FNext, V, VFrom, Const, Alias, AliasNext, AliasOf, ReadBy
<1> QED BY <1>1, <1>2, PlainMoves

LEMMA ScopeStatements ==
  /\ \A a \in Levels : \A n, b : b = a + 1 => /\ Moves(Open(n), a, b)
                                          /\ Moves(OpenNext(n), a, b)
                                          /\ Moves(OpenBound(n), a, b)
  /\ \A a, b \in Levels : a = b + 1 => Moves(Close, a, b)
<1>1. \A n : Open(n).op = "open" /\ OpenNext(n).op = "open" /\ OpenBound(n).op = "open"
  BY DEF Open, OpenNext, OpenBound
<1>2. Close.op = "close"
  BY DEF Close
<1> QED BY <1>1, <1>2, OpenMoves, CloseMoves

LEMMA BranchStatements ==
  /\ \A c, s, t : If(c, s, t).then = s /\ If(c, s, t).else = t
  /\ \A c, s : When(c, s).then = s
  /\ \A p, f, s : Case(p, f, s).alts = f /\ Case(p, f, s).else = s
  /\ \A p, f : Rev(p, f).alts = f
  /\ \A c, s, t, a, b : Leads(s, a, b) /\ Leads(t, a, b) => Moves(If(c, s, t), a, b)
  /\ \A c, s, a : Leads(s, a, a) => Moves(When(c, s), a, a)
  /\ \A p, f, s, a, b : /\ \A k \in DOMAIN f : Leads(f[k], a, b)
                        /\ Leads(s, a, b)
                        => Moves(Case(p, f, s), a, b)
  /\ \A p, s, t, a : Leads(s, a, a) /\ Leads(t, a, a) =>
                       Moves(Rev(p, [rev_e |-> s, rev_f |-> t]), a, a)
<1>1. \A c, s, t : /\ If(c, s, t).op = "if" /\ If(c, s, t).then = s
                   /\ If(c, s, t).else = t
  BY DEF If
<1>2. \A c, s, t, a, b : Leads(s, a, b) /\ Leads(t, a, b) => Moves(If(c, s, t), a, b)
  BY <1>1, IfMoves
<1>3. \A p, f, s : /\ Case(p, f, s).op = "case" /\ Case(p, f, s).alts = f
                   /\ Case(p, f, s).else = s
  BY DEF Case
<1>4. \A p, f, s, a, b : /\ \A k \in DOMAIN f : Leads(f[k], a, b)
                         /\ Leads(s, a, b)
                         => Moves(Case(p, f, s), a, b)
  BY <1>3, CaseMoves
<1>5. \A c, s, a : Leads(s, a, a) => Moves(When(c, s), a, a)
  BY <1>2, LeadsFromTo, NothingLeads DEF When
<1>6. ASSUME NEW p, NEW s, NEW t, NEW a, Leads(s, a, a), Leads(t, a, a)
      PROVE  Moves(Rev(p, [rev_e |-> s, rev_f |-> t]), a, a)
  <2>1. \A k \in DOMAIN [rev_e |-> s, rev_f |-> t] :
          Leads([rev_e |-> s, rev_f |-> t][k], a, a)
    BY <1>6
  <2>2. Leads(<<>>, a, a)
    BY <1>6, LeadsFromTo, NothingLeads
  <2> QED BY <1>4, <2>1, <2>2 DEF Rev
<1>7. (\A c, s : When(c, s).then = s) /\ (\A p, f : Rev(p, f).alts = f)
  BY <1>1, <1>3 DEF When, Rev
<1> QED BY <1>1, <1>2, <1>3, <1>4, <1>5, <1>6, <1>7

LEMMA CallStatements ==
  /\ \A a, b \in Levels : \A fn, arg : Callable(fn, arg) /\ Calls(fn, a, b) =>
                                     Moves(Call(fn, arg), a, b)
  /\ \A a, b \in Levels : \A fn, p : (\A v \in Nat : Callable(fn, v)) /\ Calls(fn, a, b) =>
                                   Moves(CallWith(fn, p), a, b)
<1>1. \A fn, arg : /\ Call(fn, arg).op = "call" /\ Call(fn, arg).fn = fn
                   /\ Call(fn, arg).arg = arg
  BY DEF Call
<1>2. \A fn, p : CallWith(fn, p).op = "callwith" /\ CallWith(fn, p).fn = fn
  BY DEF CallWith
<1>3. \A a, b \in Levels : \A fn, arg : Callable(fn, arg) /\ Calls(fn, a, b) =>
                                      Moves(Call(fn, arg), a, b)
  BY <1>1, CallMoves
<1> QED BY <1>2, <1>3, CallMoves

(* The n statements of a sequence, and the number of scopes before each    *)
(* and at last.                                                            *)
Whole(c, n) == c = [i \in 1..n |-> c[i]]
Row(c, n, l, a, b) ==
  /\ a = l[1] /\ a \in Levels /\ b = l[n + 1]
  /\ \A i \in 1..n : Moves(c[i], l[i], l[i + 1])

LEMMA RowLeads ==
  ASSUME NEW n \in Nat, NEW c, NEW l, NEW a, NEW b,
         Whole(c, n), Row(c, n, l, a, b)
  PROVE  Leads(c, a, b)
<1> DEFINE S == {c[i] : i \in 1..n}
<1>1. c \in Seq(S) /\ Len(c) = n
  <2>1. c = [i \in 1..n |-> c[i]]
    BY DEF Whole
  <2> QED BY <2>1
<1>2. l[1] \in Levels /\ \A i \in 1..Len(c) : Moves(c[i], l[i], l[i + 1])
  BY <1>1 DEF Row
<1> HIDE DEF S
<1>3. Leads(c, l[1], l[n + 1])
  BY <1>1, <1>2, ListLeads
<1> QED BY <1>3 DEF Row

(* What up to four statements do that leave the scopes as they are.        *)
LEMMA FewStatements ==
  /\ \A a \in Levels : Leads(<<>>, a, a)
  /\ \A x, a, b : Moves(x, a, b) => Leads(<<x>>, a, b)
  /\ \A x, y, a : Moves(x, a, a) /\ Moves(y, a, a) => Leads(<<x, y>>, a, a)
  /\ \A x, y, z, a : Moves(x, a, a) /\ Moves(y, a, a) /\ Moves(z, a, a) =>
                       Leads(<<x, y, z>>, a, a)
  /\ \A w, x, y, z, a : /\ Moves(w, a, a) /\ Moves(x, a, a)
                        /\ Moves(y, a, a) /\ Moves(z, a, a)
                        => Leads(<<w, x, y, z>>, a, a)
<1>1. \A a \in Levels : Leads(<<>>, a, a)
  BY NothingLeads
<1>2. ASSUME NEW x, NEW a, NEW b, Moves(x, a, b) PROVE Leads(<<x>>, a, b)
  <2>1. Row(<<x>>, 1, <<a, b>>, a, b)
    BY <1>2, MovesBy DEF Row
  <2>2. Whole(<<x>>, 1)
    BY DEF Whole
  <2> QED BY <2>1, <2>2, RowLeads
<1>3. ASSUME NEW x, NEW y, NEW a, Moves(x, a, a), Moves(y, a, a)
      PROVE  Leads(<<x, y>>, a, a)
  <2>1. Row(<<x, y>>, 2, <<a, a, a>>, a, a)
    BY <1>3, MovesBy DEF Row
  <2>2. Whole(<<x, y>>, 2)
    BY DEF Whole
  <2> QED BY <2>1, <2>2, RowLeads
<1>4. ASSUME NEW x, NEW y, NEW z, NEW a, Moves(x, a, a), Moves(y, a, a), Moves(z, a, a)
      PROVE  Leads(<<x, y, z>>, a, a)
  <2>1. Row(<<x, y, z>>, 3, <<a, a, a, a>>, a, a)
    BY <1>4, MovesBy DEF Row
  <2>2. Whole(<<x, y, z>>, 3)
    BY DEF Whole
  <2> QED BY <2>1, <2>2, RowLeads
<1>5. ASSUME NEW w, NEW x, NEW y, NEW z, NEW a,
             Moves(w, a, a), Moves(x, a, a), Moves(y, a, a), Moves(z, a, a)
      PROVE  Leads(<<w, x, y, z>>, a, a)
  <2>1. Row(<<w, x, y, z>>, 4, <<a, a, a, a, a>>, a, a)
    BY <1>5, MovesBy DEF Row
  <2>2. Whole(<<w, x, y, z>>, 4)
    BY DEF Whole
  <2> QED BY <2>1, <2>2, RowLeads
<1> QED BY <1>1, <1>2, <1>3, <1>4, <1>5


-----------------------------------------------------------------------------
(***************************************************************************)
(* What the functions of the device files call.                            *)
(***************************************************************************)
(* ... those that leave the scopes as they are.                            *)
EvenSections == Sections \ (Inward \cup Outward)
LEMMA EvenCalls ==
  \A a \in Levels : \A fn \in EvenSections : \A x :
    /\ fn \notin Counted => Moves(Call(fn, x), a, a)
    /\ Moves(CallWith(fn, x), a, a)
<1> SUFFICES ASSUME NEW a \in Levels, NEW fn \in EvenSections, NEW x
             PROVE  /\ fn \notin Counted => Moves(Call(fn, x), a, a)
                    /\ Moves(CallWith(fn, x), a, a)
  OBVIOUS
<1>1. Calls(fn, a, a)
  BY DEF EvenSections, Calls, From, To, Levels
<1>2. (fn \notin Counted => Callable(fn, x)) /\ \A v \in Nat : Callable(fn, v)
  BY DEF EvenSections, Callable
<1> QED BY <1>1, <1>2, CallStatements

(* The calls of the device files.                                          *)
LEMMA PciCalls ==
  \A a \in Levels : \A x :
    /\ Moves(Call("BAR", x), a, a)
    /\ Moves(Call("ht_link_control", x), a, a)
    /\ Moves(Call("ht_link_config", x), a, a)
    /\ Moves(Call("ht_link_freq_err", x), a, a)
    /\ Moves(Call("ht_link_freq_cap", x), a, a)
    /\ Moves(Call("ht_error_handling", x), a, a)
    /\ Moves(Call("ht_slave_link", x), a, a)
    /\ Moves(Call("ht_slave_capability", x), a, a)
    /\ Moves(Call("ht_host_link", x), a, a)
    /\ Moves(Call("ht_host_capability", x), a, a)
    /\ Moves(Call("ht_revision_capability", x), a, a)
    /\ Moves(Call("ht_extended_config_capability", x), a, a)
    /\ Moves(Call("ht_address_mapping_capability", x), a, a)
    /\ Moves(Call("ht_msi_mapping_capability", x), a, a)
    /\ Moves(Call("power_mgmt_capability", x), a, a)
    /\ Moves(Call("slot_id_capability", x), a, a)
    /\ Moves(Call("msi_capability", x), a, a)
    /\ Moves(Call("msix_capability", x), a, a)
    /\ Moves(Call("ht_capability", x), a, a)
    /\ Moves(Call("ssid_capability", x), a, a)
    /\ Moves(Call("pcie_capability", x), a, a)
    /\ Moves(Call("pcie_device", x), a, a)
    /\ Moves(Call("pcie_link", x), a, a)
    /\ Moves(Call("pcie_slot", x), a, a)
    /\ Moves(Call("pcie_root", x), a, a)
    /\ Moves(Call("aer_ecapability", x), a, a)
    /\ Moves(Call("explore_capabilities", x), a, a)
    /\ Moves(Call("capabilities", x), a, a)
    /\ Moves(Call("ecapabilities", x), a, a)
    /\ Moves(Call("create_pci_bridge", x), a, a)
    /\ Moves(Call("create_device", x), a, a)
    /\ Moves(Call("pci_generic_device", x), a, a)
    /\ Moves(CallWith("ht_dma", x), a, a)
    /\ Moves(CallWith("msi_vectors", x), a, a)
    /\ Moves(CallWith("msix_table", x), a, a)
    /\ Moves(CallWith("capabilities", x), a, a)
BY EvenCalls DEF EvenSections, Inward, Outward, Counted, Sections,
       PciSections, CpuSections, K8Sections

LEMMA CpuCalls ==
  \A a \in Levels : \A x :
    /\ Moves(Call("cache_info", x), a, a)
    /\ Moves(Call("topo_info", x), a, a)
    /\ Moves(Call("cpuid_functions_0_1", x), a, a)
    /\ Moves(Call("cpuid_function_2", x), a, a)
    /\ Moves(Call("cpuid_function_4", x), a, a)
    /\ Moves(Call("cpuid_functions_5_A", x), a, a)
    /\ Moves(Call("cpuid_function_B", x), a, a)
    /\ Moves(Call("cpuid_functions_80000000_4", x), a, a)
    /\ Moves(Call("cpuid_function_80000005", x), a, a)
    /\ Moves(Call("cpuid_function_80000006", x), a, a)
    /\ Moves(Call("cpuid_functions_80000007_8", x), a, a)
    /\ Moves(Call("cpuid_functions_8000000A_1A", x), a, a)
    /\ Moves(Call("msr_fixed_mtrr", x), a, a)
    /\ Moves(Call("msr_variable_mtrr", x), a, a)
    /\ Moves(CallWith("msr_variable_mtrrs", x), a, a)
BY EvenCalls DEF EvenSections, Inward, Outward, Counted, Sections,
       PciSections, CpuSections, K8Sections

LEMMA K8Calls ==
  \A a \in Levels : \A x :
    /\ Moves(Call("k8_types", x), a, a)
    /\ Moves(Call("k8_cpuid", x), a, a)
    /\ Moves(Call("k8_msr", x), a, a)
    /\ Moves(Call("k8_msr_system", x), a, a)
    /\ Moves(Call("k8_msr_memory", x), a, a)
    /\ Moves(Call("k8_msr_perf_ctr", x), a, a)
    /\ Moves(Call("k8_msr_power_mgmt", x), a, a)
    /\ Moves(Call("k8_msr_io_trap", x), a, a)
    /\ Moves(Call("k8_msr_smm", x), a, a)
    /\ Moves(Call("k8_msr_data_cache", x), a, a)
    /\ Moves(Call("k8_msr_instr_cache", x), a, a)
    /\ Moves(Call("k8_msr_bus", x), a, a)
    /\ Moves(Call("k8_msr_ls", x), a, a)
    /\ Moves(Call("k8_ht_config", x), a, a)
    /\ Moves(Call("k8_address_map", x), a, a)
    /\ Moves(Call("dram_additional_data", x), a, a)
    /\ Moves(Call("k8_dram_controller", x), a, a)
    /\ Moves(Call("k8_dram_cs", x), a, a)
    /\ Moves(Call("k8_dram_init", x), a, a)
    /\ Moves(Call("k8_dram_timing", x), a, a)
    /\ Moves(Call("k8_dram_config", x), a, a)
    /\ Moves(Call("k8_bank_address_mapping", x), a, a)
    /\ Moves(Call("k8_dram_misc", x), a, a)
    /\ Moves(Call("k8_misc_control", x), a, a)
    /\ Moves(Call("k8_mca_status", x), a, a)
    /\ Moves(Call("k8_scrubbers_thermal", x), a, a)
    /\ Moves(Call("k8_buffer_counts", x), a, a)
    /\ Moves(Call("k8_power_gart", x), a, a)
    /\ Moves(Call("k8_power_timing", x), a, a)
    /\ Moves(Call("k8_thermtrip_caps", x), a, a)
BY EvenCalls DEF EvenSections, Inward, Outward, Counted, Sections,
       PciSections, CpuSections, K8Sections

LEMMA ScopeCalls ==
    /\ \A x : Moves(Call("PCI_SCOPE", x), 1, 2)
    /\ \A x : Moves(Call("PCI_SCOPE", x), 2, 3)
    /\ \A x : Moves(Call("CPUID_SCOPE", x), 1, 2)
    /\ \A x : Moves(Call("CPUID_SCOPE", x), 2, 3)
    /\ \A x : Moves(Call("MSR_SCOPE", x), 1, 2)
    /\ \A x : Moves(Call("MSR_SCOPE", x), 2, 3)
    /\ \A x : Moves(Call("msr_first", x), 1, 2)
    /\ \A x : Moves(Call("msr_first", x), 2, 3)
    /\ \A x : Moves(Call("k8_msr_mc_global", x), 1, 2)
    /\ \A x : Moves(Call("k8_msr_mc_global", x), 2, 3)
    /\ \A x : Moves(Call("k8_mca_config", x), 1, 2)
    /\ \A x : Moves(Call("k8_mca_config", x), 2, 3)
    /\ \A x : Moves(Call("cache_descriptors", x), 2, 1)
    /\ \A x : Moves(Call("cache_descriptors", x), 3, 2)
    /\ \A x : Moves(Call("msr_other", x), 2, 1)
    /\ \A x : Moves(Call("msr_other", x), 3, 2)
    /\ \A x : Moves(Call("k8_mca_address", x), 2, 1)
    /\ \A x : Moves(Call("k8_mca_address", x), 3, 2)
    /\ \A x : Moves(CallWith("next_capability", x), 2, 1)
    /\ \A x : Moves(CallWith("next_capability", x), 3, 2)
    /\ \A x : Moves(CallWith("next_ecapability", x), 2, 1)
    /\ \A x : Moves(CallWith("next_ecapability", x), 3, 2)
    /\ \A x : Moves(CallWith("further_queries", x), 2, 1)
    /\ \A x : Moves(CallWith("further_queries", x), 3, 2)
    /\ \A x : Moves(CallWith("further_xeon_queries", x), 2, 1)
    /\ \A x : Moves(CallWith("further_xeon_queries", x), 3, 2)
BY FewLevels, CallStatements DEF Calls, From, To, Inward, Outward, Callable, Sections,
       PciSections, CpuSections, K8Sections, Counted

-----------------------------------------------------------------------------
(* One part of a function after the other.                                 *)
LEMMA PartsLead ==
  /\ \A p, q, a, b, c : Leads(p, a, b) /\ Leads(q, b, c) => Leads(p \o q, a, c)
  /\ \A p, q, r, a, b, c, d :
       Leads(p, a, b) /\ Leads(q, b, c) /\ Leads(r, c, d) => Leads(p \o q \o r, a, d)
  /\ \A p, q, r, s, a, b, c, d, e :
       Leads(p, a, b) /\ Leads(q, b, c) /\ Leads(r, c, d) /\ Leads(s, d, e) =>
         Leads(p \o q \o r \o s, a, e)
  /\ \A p, q, r, s, t, a, b, c, d, e, f :
       /\ Leads(p, a, b) /\ Leads(q, b, c) /\ Leads(r, c, d) /\ Leads(s, d, e)
       /\ Leads(t, e, f)
       => Leads(p \o q \o r \o s \o t, a, f)
<1>1. \A p, q, a, b, c : Leads(p, a, b) /\ Leads(q, b, c) => Leads(p \o q, a, c)
  BY LeadsOn
<1>2. ASSUME NEW p, NEW q, NEW r, NEW a, NEW b, NEW c, NEW d,
             Leads(p, a, b), Leads(q, b, c), Leads(r, c, d)
      PROVE  Leads(p \o q \o r, a, d)
  <2>1. Leads(p \o q, a, c)
    BY <1>1, <1>2
  <2> QED BY <1>1, <1>2, <2>1
<1>3. ASSUME NEW p, NEW q, NEW r, NEW s, NEW a, NEW b, NEW c, NEW d, NEW e,
             Leads(p, a, b), Leads(q, b, c), Leads(r, c, d), Leads(s, d, e)
      PROVE  Leads(p \o q \o r \o s, a, e)
  <2>1. Leads(p \o q \o r, a, d)
    BY <1>2, <1>3
  <2> QED BY <1>1, <1>3, <2>1
<1>4. ASSUME NEW p, NEW q, NEW r, NEW s, NEW t,
             NEW a, NEW b, NEW c, NEW d, NEW e, NEW f,
             Leads(p, a, b), Leads(q, b, c), Leads(r, c, d), Leads(s, d, e),
             Leads(t, e, f)
      PROVE  Leads(p \o q \o r \o s \o t, a, f)
  <2>1. Leads(p \o q \o r \o s, a, e)
    BY <1>3, <1>4
  <2> QED BY <1>1, <1>4, <2>1
<1> QED BY <1>1, <1>2, <1>3, <1>4

LEMMA ErrorStatusLeads == \A status : Leads(ErrorStatus(status), 2, 2)
<1> SUFFICES ASSUME NEW status PROVE Leads(ErrorStatus(status), 2, 2)
  OBVIOUS
<1>1. Whole(ErrorStatus(status), 5)
  BY DEF Whole, ErrorStatus
<1>2. Row(ErrorStatus(status), 5, [i \in 1..6 |-> 2], 2, 2)
  BY FewLevels, PlainStatements DEF Row, ErrorStatus
<1> QED BY <1>1, <1>2, RowLeads

LEMMA ErrorCodeLeads == \A status : Leads(ErrorCode(status), 2, 2)
<1> SUFFICES ASSUME NEW status PROVE Leads(ErrorCode(status), 2, 2)
  OBVIOUS
<1>1. Whole(ErrorCode(status), 2)
  BY DEF Whole, ErrorCode
<1>2. Moves(ErrorCode(status)[2], 2, 2)
  BY FewLevels, PlainStatements, BranchStatements, FewStatements DEF ErrorCode
<1>3. Row(ErrorCode(status), 2, <<2, 2, 2>>, 2, 2)
  BY <1>2, FewLevels, PlainStatements DEF Row, ErrorCode
<1> QED BY <1>1, <1>3, RowLeads

LEMMA InScopeLeads ==
  \A reg, name, types, fields : /\ Leads(InScope(reg, name, types, fields), 1, 1)
                                /\ Leads(InScope(reg, name, types, fields), 2, 2)
<1> SUFFICES ASSUME NEW reg, NEW name, NEW types, NEW fields
             PROVE  /\ Leads(InScope(reg, name, types, fields), 1, 1)
                    /\ Leads(InScope(reg, name, types, fields), 2, 2)
  OBVIOUS
<1> DEFINE s == InScope(reg, name, types, fields)
<1>1. Whole(s, 4)
  BY DEF Whole, InScope
<1>2. Row(s, 4, <<1, 1, 2, 2, 1>>, 1, 1)
  BY FewLevels, PlainStatements, ScopeStatements DEF Row, InScope
<1>3. Leads(s, 1, 1)
  BY <1>1, <1>2, RowLeads
<1>4. Leads(s, 1 + 1, 1 + 1)
  <2> HIDE DEF s
  <2> QED BY <1>3, LeadsWithin
<1> QED BY <1>3, <1>4

LEMMA ScopeLeads ==
  ASSUME NEW x, NEW y, NEW z, NEW w,
         Moves(x, 1, 2), Moves(y, 2, 2), Moves(z, 2, 2), Moves(w, 2, 1)
  PROVE  Leads(<<x, y, z, w>>, 1, 1)
<1>1. Whole(<<x, y, z, w>>, 4)
  BY DEF Whole
<1>2. Row(<<x, y, z, w>>, 4, <<1, 2, 2, 2, 1>>, 1, 1)
  BY FewLevels DEF Row
<1> QED BY <1>1, <1>2, RowLeads

LEMMA ErrorAddressLeads == \A t, r : Leads(ErrorAddress(t, r), 2, 2)
BY FewLevels, PlainStatements, FewStatements DEF ErrorAddress

LEMMA DescriptorsMove ==
  \A bytes \in Nat : \A t, reg : Moves(Descriptors(t, reg, bytes), 2, 2)
<1> SUFFICES ASSUME NEW bytes \in Nat, NEW t, NEW reg
             PROVE  Moves(Descriptors(t, reg, bytes), 2, 2)
  OBVIOUS
<1> DEFINE x(b) == When(Holds(reg \o Subscript(b)),
                        <<FNext({t}, {<<"%function_2", "[-1]">>}, "descriptor")>>)
           s == [b \in 1..bytes |-> x(b)]
<1>1. \A b : Moves(x(b), 2, 2)
  BY FewLevels, PlainStatements, BranchStatements, FewStatements
<1> HIDE DEF x
<1>2. Whole(s, bytes)
  BY DEF Whole
<1>3. Row(s, bytes, [i \in 1..(bytes + 1) |-> 2], 2, 2)
  <2>1. \A i \in 1..bytes : s[i] = x(i) /\ i \in 1..(bytes + 1) /\ i + 1 \in 1..(bytes + 1)
    OBVIOUS
  <2>2. 1 \in 1..(bytes + 1) /\ bytes + 1 \in 1..(bytes + 1)
    OBVIOUS
  <2> HIDE DEF s
  <2> QED BY <1>1, <2>1, <2>2, FewLevels DEF Row
<1>4. Leads(s, 2, 2)
  <2> HIDE DEF s
  <2> QED BY <1>2, <1>3, RowLeads
<1>5. Descriptors(t, reg, bytes) = When(Holds("valid." \o reg), s)
  BY DEF Descriptors, x
<1> HIDE DEF s
<1> QED BY <1>4, <1>5, BranchStatements

LEMMA RegistersLead == \A t : Leads(Registers(t), 2, 2)
<1>1. 3 \in Nat /\ 4 \in Nat
  OBVIOUS
<1> QED BY <1>1, DescriptorsMove, FewStatements DEF Registers

LEMMA CsMaskLeads == \A n \in Nat : Leads(CsMask(n), 1, 1)
<1> SUFFICES ASSUME NEW n \in Nat PROVE Leads(CsMask(n), 1, 1)
  OBVIOUS
<1> QED BY ScopeLeads, FewLevels, PlainStatements, ScopeStatements,
           RepeatLeads DEF CsMask

LEMMA PMMLeads == \A reg : Leads(PMM(reg), 1, 1)
<1> SUFFICES ASSUME NEW reg PROVE Leads(PMM(reg), 1, 1)
  OBVIOUS
<1>1. ASSUME NEW x, NEW y, NEW z, Moves(x, 1, 2), Moves(y, 2, 2), Moves(z, 2, 1)
      PROVE  Leads(<<x, y, z>>, 1, 1)
  <2>1. Whole(<<x, y, z>>, 3)
    BY DEF Whole
  <2>2. Row(<<x, y, z>>, 3, <<1, 2, 2, 1>>, 1, 1)
    BY <1>1, FewLevels DEF Row
  <2> QED BY <2>1, <2>2, RowLeads
<1> QED BY <1>1, FewLevels, PlainStatements, ScopeStatements,
           RepeatLeads DEF PMM

LEMMA AddressRangeLeads ==
  \A n \in Nat : \A name, base, limit, type, fields :
    Leads(AddressRange(n, name, base, limit, type, fields), 2, 2)
<1> SUFFICES ASSUME NEW n \in Nat, NEW name, NEW base, NEW limit, NEW type, NEW fields
             PROVE  Leads(AddressRange(n, name, base, limit, type, fields), 2, 2)
  OBVIOUS
<1>1. ASSUME NEW x, NEW y, NEW z, NEW u, NEW v, NEW w, Moves(x, 2, 3), Moves(y, 3, 3),
             Moves(z, 3, 3), Moves(u, 3, 3), Moves(v, 3, 3), Moves(w, 3, 2)
      PROVE  Leads(<<x, y, z, u, v, w>>, 2, 2)
  <2>1. Whole(<<x, y, z, u, v, w>>, 6)
    BY DEF Whole
  <2>2. Row(<<x, y, z, u, v, w>>, 6, <<2, 3, 3, 3, 3, 3, 2>>, 2, 2)
    BY <1>1, FewLevels DEF Row
  <2> QED BY <2>1, <2>2, RowLeads
<1> QED BY <1>1, FewLevels, PlainStatements, ScopeStatements,
           BranchStatements, FewStatements, RepeatLeads DEF AddressRange

LEMMA FlatLeads ==
  ASSUME NEW n \in Int, NEW f, Whole(f, n), NEW a \in Levels,
         \A i \in 1..n : Leads(f[i], a, a)
  PROVE  Leads(FlattenSeq(f), a, a)
<1> DEFINE m == IF n < 0 THEN 0 ELSE n
           g == [i \in 1..m |-> f[i]]
<1>1. f = [i \in 1..n |-> f[i]]
  BY DEF Whole
<1>2. m \in Nat /\ 1..m = 1..n
  OBVIOUS
<1>3. f = g
  BY <1>1, <1>2
<1>4. DOMAIN g = 1..m /\ Len(g) = m
  <2>1. m \in Nat
    BY <1>2
  <2> HIDE DEF m
  <2> QED BY <2>1
<1>5. m = 0 => g = <<>>
  <2> HIDE DEF m
  <2> SUFFICES ASSUME m = 0 PROVE g = <<>>
    OBVIOUS
  <2>1. [i \in 1..0 |-> f[i]] = <<>>
    OBVIOUS
  <2> QED BY <2>1
<1> HIDE DEF g, m
<1>6. DOMAIN f = 1..m /\ Len(f) = m /\ (m = 0 => f = <<>>)
  BY <1>3, <1>4, <1>5
<1>7. \A i \in 1..m : Leads(f[i], a, a)
  BY <1>2
<1> QED BY <1>2, <1>6, <1>7, FlattenLeads

LEMMA ElementsLead ==
  /\ \A r : Leads(FixedMtrr(r), 2, 2)
  /\ \A n : Leads(UncorrectableError(n), 2, 2) /\ Leads(CorrectableError(n), 2, 2)
  /\ \A i : Leads(MsiVector(i), 1, 1) /\ Leads(TrapAliases(i), 2, 2)
  /\ \A i, j : Leads(PendingBits(i, j), 2, 2)
<1>1. ASSUME NEW x, NEW y, NEW z, Moves(x, 2, 3), Moves(y, 3, 3), Moves(z, 3, 2)
      PROVE  Leads(<<x, y, z>>, 2, 2)
  <2>1. Whole(<<x, y, z>>, 3)
    BY DEF Whole
  <2>2. Row(<<x, y, z>>, 3, <<2, 3, 3, 2>>, 2, 2)
    BY <1>1, FewLevels DEF Row
  <2> QED BY <2>1, <2>2, RowLeads
<1>2. \A n : Leads(UncorrectableError(n), 2, 2) /\ Leads(CorrectableError(n), 2, 2)
  BY <1>1, FewLevels, PlainStatements, ScopeStatements
     DEF UncorrectableError, CorrectableError
<1>3. \A r : Leads(FixedMtrr(r), 2, 2)
  BY FewLevels, PlainStatements, FewStatements DEF FixedMtrr
<1>4. \A i : Leads(MsiVector(i), 1, 1) /\ Leads(TrapAliases(i), 2, 2)
  BY FewLevels, PlainStatements, FewStatements DEF MsiVector, TrapAliases
<1>5. \A i, j : Leads(PendingBits(i, j), 2, 2)
  BY FewLevels, PlainStatements, FewStatements DEF PendingBits
<1> QED BY <1>2, <1>3, <1>4, <1>5

-----------------------------------------------------------------------------
(***************************************************************************)
(* The functions of the PCI files, each by its statements in a row and the *)
(* number of scopes open before each.  PCI_SCOPE opens a scope for what    *)
(* follows it; the blocks of a list are each a scope that is closed when   *)
(* the next one is asked for.                                              *)
(***************************************************************************)
LEMMA BAR_Leads == ASSUME NEW name PROVE Leads(BAR(name), 1, 1)
<1>1. Whole(BAR(name), 6)
  BY DEF Whole, BAR
<1>2. /\ Moves(BAR(name)[4], 2, 2) /\ Moves(BAR(name)[5], 2, 2)
  BY FewLevels, PlainStatements, BranchStatements, FewStatements DEF BAR
<1>3. Row(BAR(name), 6, <<1, 2, 2, 2, 2, 2, 1>>, 1, 1)
  BY <1>2, FewLevels, PlainStatements, ScopeStatements DEF Row, BAR
<1> QED BY <1>1, <1>3, RowLeads

LEMMA ht_link_control_Leads == Leads(ht_link_control, 1, 1)
<1>1. Whole(ht_link_control, 4)
  BY DEF Whole, ht_link_control
<1>2. Row(ht_link_control, 4, <<1, 1, 2, 2, 1>>, 1, 1)
  BY FewLevels, PlainStatements, ScopeStatements DEF Row, ht_link_control
<1> QED BY <1>1, <1>2, RowLeads

LEMMA ht_link_config_Leads == Leads(ht_link_config, 1, 1)
<1>1. Whole(ht_link_config, 5)
  BY DEF Whole, ht_link_config
<1>2. Row(ht_link_config, 5, <<1, 1, 1, 2, 2, 1>>, 1, 1)
  BY FewLevels, PlainStatements, ScopeStatements DEF Row, ht_link_config
<1> QED BY <1>1, <1>2, RowLeads

LEMMA ht_link_freq_err_Leads == Leads(ht_link_freq_err, 1, 1)
<1>1. Whole(ht_link_freq_err, 3)
  BY DEF Whole, ht_link_freq_err
<1>2. Row(ht_link_freq_err, 3, <<1, 1, 1, 1>>, 1, 1)
  BY FewLevels, PlainStatements DEF Row, ht_link_freq_err
<1> QED BY <1>1, <1>2, RowLeads

LEMMA ht_link_freq_cap_Leads == Leads(ht_link_freq_cap, 1, 1)
<1>1. Whole(ht_link_freq_cap, 3)
  BY DEF Whole, ht_link_freq_cap
<1>2. Row(ht_link_freq_cap, 3, <<1, 1, 1, 1>>, 1, 1)
  BY FewLevels, PlainStatements DEF Row, ht_link_freq_cap
<1> QED BY <1>1, <1>2, RowLeads

LEMMA ht_error_handling_Leads == Leads(ht_error_handling, 1, 1)
<1>1. Whole(ht_error_handling, 4)
  BY DEF Whole, ht_error_handling
<1>2. Row(ht_error_handling, 4, <<1, 1, 2, 2, 1>>, 1, 1)
  BY FewLevels, PlainStatements, ScopeStatements DEF Row, ht_error_handling
<1> QED BY <1>1, <1>2, RowLeads

LEMMA ht_slave_link_Leads == ASSUME NEW name PROVE Leads(ht_slave_link(name), 1, 1)
<1>1. Whole(ht_slave_link(name), 6)
  BY DEF Whole, ht_slave_link
<1>2. Row(ht_slave_link(name), 6, <<1, 2, 2, 2, 2, 2, 1>>, 1, 1)
  BY FewLevels, ScopeStatements, PciCalls DEF Row, ht_slave_link
<1> QED BY <1>1, <1>2, RowLeads

LEMMA ht_slave_capability_Leads == Leads(ht_slave_capability, 1, 1)
<1>1. Whole(ht_slave_capability, 13)
  BY DEF Whole, ht_slave_capability
<1>2. Row(ht_slave_capability, 13,
          <<1, 1, 1, 1, 1, 1, 1, 1, 2, 2, 1, 1, 1, 1>>,
          1, 1)
  BY FewLevels, PlainStatements, ScopeStatements, PciCalls DEF Row,
     ht_slave_capability
<1> QED BY <1>1, <1>2, RowLeads

LEMMA ht_host_link_Leads == ASSUME NEW name PROVE Leads(ht_host_link(name), 1, 1)
<1>1. Whole(ht_host_link(name), 6)
  BY DEF Whole, ht_host_link
<1>2. Row(ht_host_link(name), 6, <<1, 2, 2, 2, 2, 2, 1>>, 1, 1)
  BY FewLevels, ScopeStatements, PciCalls DEF Row, ht_host_link
<1> QED BY <1>1, <1>2, RowLeads

LEMMA ht_host_capability_Leads == Leads(ht_host_capability, 1, 1)
<1>1. Whole(ht_host_capability, 12)
  BY DEF Whole, ht_host_capability
<1>2. Moves(ht_host_capability[12], 1, 1)
  BY FewLevels, PlainStatements, BranchStatements, PciCalls,
     FewStatements DEF ht_host_capability
<1>3. Row(ht_host_capability, 12,
          <<1, 1, 1, 1, 1, 1, 1, 2, 2, 2, 2, 1, 1>>,
          1, 1)
  BY <1>2, FewLevels, PlainStatements, ScopeStatements, PciCalls DEF Row,
     ht_host_capability
<1> QED BY <1>1, <1>3, RowLeads

LEMMA ht_revision_capability_Leads == Leads(ht_revision_capability, 1, 1)
<1>1. Whole(ht_revision_capability, 2)
  BY DEF Whole, ht_revision_capability
<1>2. Row(ht_revision_capability, 2, <<1, 1, 1>>, 1, 1)
  BY FewLevels, PlainStatements DEF Row, ht_revision_capability
<1> QED BY <1>1, <1>2, RowLeads

LEMMA ht_extended_config_capability_Leads == Leads(ht_extended_config_capability, 1, 1)
<1>1. Whole(ht_extended_config_capability, 3)
  BY DEF Whole, ht_extended_config_capability
<1>2. Row(ht_extended_config_capability, 3, <<1, 1, 1, 1>>, 1, 1)
  BY FewLevels, PlainStatements DEF Row, ht_extended_config_capability
<1> QED BY <1>1, <1>2, RowLeads

LEMMA ht_address_mapping_capability_Leads == Leads(ht_address_mapping_capability, 1, 1)
<1>1. Leads(ht_address_mapping_capability[5].then, 1, 1)
  <2>1. Whole(ht_address_mapping_capability[5].then, 9)
    BY BranchStatements DEF Whole, ht_address_mapping_capability
  <2>2. Row(ht_address_mapping_capability[5].then, 9,
            <<1, 1, 2, 2, 1, 1, 2, 2, 1, 1>>,
            1, 1)
    BY FewLevels, PlainStatements, ScopeStatements, BranchStatements,
       PciCalls DEF Row, ht_address_mapping_capability
  <2> QED BY <2>1, <2>2, RowLeads
<1>2. Whole(ht_address_mapping_capability, 5)
  BY DEF Whole, ht_address_mapping_capability
<1>3. Moves(ht_address_mapping_capability[5], 1, 1)
  BY <1>1, FewLevels, PlainStatements, BranchStatements, PciCalls,
     FewStatements DEF ht_address_mapping_capability
<1>4. Row(ht_address_mapping_capability, 5, [i \in 1..6 |-> 1], 1, 1)
  BY <1>3, FewLevels, PlainStatements DEF Row, ht_address_mapping_capability
<1> QED BY <1>2, <1>4, RowLeads

LEMMA ht_dma_Leads == ASSUME NEW n \in Nat PROVE Leads(ht_dma(n), 1, 1)
<1>1. ASSUME NEW s1, NEW s2, NEW s3, NEW s4, Moves(s1, 1, 2), Moves(s2, 2, 2),
            Moves(s3, 2, 2), Moves(s4, 2, 1)
      PROVE  Leads(<<s1, s2, s3, s4>>, 1, 1)
  <2>1. Whole(<<s1, s2, s3, s4>>, 4)
    BY DEF Whole
  <2>2. Row(<<s1, s2, s3, s4>>, 4, <<1, 2, 2, 2, 1>>, 1, 1)
    BY <1>1, FewLevels DEF Row
  <2> QED BY <2>1, <2>2, RowLeads
<1> QED BY <1>1, FewLevels, PlainStatements, ScopeStatements,
     RepeatLeads DEF ht_dma

LEMMA ht_msi_mapping_capability_Leads == Leads(ht_msi_mapping_capability, 1, 1)
<1>1. Whole(ht_msi_mapping_capability, 4)
  BY DEF Whole, ht_msi_mapping_capability
<1>2. Moves(ht_msi_mapping_capability[4], 1, 1)
  BY FewLevels, PlainStatements, BranchStatements,
     FewStatements DEF ht_msi_mapping_capability
<1>3. Row(ht_msi_mapping_capability, 4, [i \in 1..5 |-> 1], 1, 1)
  BY <1>2, FewLevels, PlainStatements DEF Row, ht_msi_mapping_capability
<1> QED BY <1>1, <1>3, RowLeads

LEMMA power_mgmt_capability_Leads == Leads(power_mgmt_capability, 1, 1)
<1>1. Whole(power_mgmt_capability, 11)
  BY DEF Whole, power_mgmt_capability
<1>2. Moves(power_mgmt_capability[8], 1, 1)
  BY FewLevels, PlainStatements, BranchStatements,
     FewStatements DEF power_mgmt_capability
<1>3. Row(power_mgmt_capability, 11, [i \in 1..12 |-> 1], 1, 1)
  BY <1>2, FewLevels, PlainStatements DEF Row, power_mgmt_capability
<1> QED BY <1>1, <1>3, RowLeads

LEMMA slot_id_capability_Leads == Leads(slot_id_capability, 1, 1)
<1>1. Whole(slot_id_capability, 2)
  BY DEF Whole, slot_id_capability
<1>2. Row(slot_id_capability, 2, <<1, 1, 1>>, 1, 1)
  BY FewLevels, PlainStatements DEF Row, slot_id_capability
<1> QED BY <1>1, <1>2, RowLeads

LEMMA msi_capability_Leads == Leads(msi_capability, 1, 1)
<1>1. Whole(msi_capability, 9)
  BY DEF Whole, msi_capability
<1>2. /\ Moves(msi_capability[8], 1, 1) /\ Moves(msi_capability[9], 1, 1)
  BY FewLevels, PlainStatements, BranchStatements, PciCalls,
     FewStatements DEF msi_capability
<1>3. Row(msi_capability, 9, [i \in 1..10 |-> 1], 1, 1)
  BY <1>2, FewLevels, PlainStatements DEF Row, msi_capability
<1> QED BY <1>1, <1>3, RowLeads

LEMMA msi_vectors_Leads == ASSUME NEW cap \in Nat PROVE Leads(msi_vectors(cap), 1, 1)
<1> DEFINE names == [i \in 1..(2^cap) |-> i - 1]
           f == [i \in DOMAIN names |-> MsiVector(names[i])]
<1>1. 2^cap \in Int
  OBVIOUS
<1>2. Whole(f, 2^cap) /\ \A i \in 1..(2^cap) : f[i] = MsiVector(names[i])
  BY DEF Whole
<1> HIDE DEF names
<1>3. msi_vectors(cap) = FlattenSeq(f)
  BY DEF msi_vectors, Each, names
<1> HIDE DEF f
<1> QED BY <1>1, <1>2, <1>3, ElementsLead, FlatLeads, FewLevels

LEMMA msix_capability_Leads == Leads(msix_capability, 1, 1)
<1>1. Whole(msix_capability, 8)
  BY DEF Whole, msix_capability
<1>2. Row(msix_capability, 8, [i \in 1..9 |-> 1], 1, 1)
  BY FewLevels, PlainStatements, PciCalls DEF Row, msix_capability
<1> QED BY <1>1, <1>2, RowLeads

LEMMA msix_table_Leads == ASSUME NEW last \in Nat PROVE Leads(msix_table(last), 1, 1)
<1>1. ASSUME NEW s1, NEW s2, NEW s3, NEW s4, Moves(s1, 1, 1), Moves(s2, 1, 1),
            Moves(s3, 1, 1), Moves(s4, 1, 2)
      PROVE  Leads(<<s1, s2, s3, s4>>, 1, 2)
  <2>1. Whole(<<s1, s2, s3, s4>>, 4)
    BY DEF Whole
  <2>2. Row(<<s1, s2, s3, s4>>, 4, <<1, 1, 1, 1, 2>>, 1, 2)
    BY <1>1, FewLevels DEF Row
  <2> QED BY <2>1, <2>2, RowLeads
<1>2. ASSUME NEW s1, NEW s2, NEW s3, NEW s4, NEW s5, NEW s6, Moves(s1, 2, 3),
            Moves(s2, 3, 3), Moves(s3, 3, 3), Moves(s4, 3, 3), Moves(s5, 3, 3),
            Moves(s6, 3, 2)
      PROVE  Leads(<<s1, s2, s3, s4, s5, s6>>, 2, 2)
  <2>1. Whole(<<s1, s2, s3, s4, s5, s6>>, 6)
    BY DEF Whole
  <2>2. Row(<<s1, s2, s3, s4, s5, s6>>, 6, <<2, 3, 3, 3, 3, 3, 2>>, 2, 2)
    BY <1>2, FewLevels DEF Row
  <2> QED BY <2>1, <2>2, RowLeads
<1>3. ASSUME NEW s1, NEW s2, NEW s3, NEW s4, NEW s5, NEW s6, NEW s7, Moves(s1,
            2, 1), Moves(s2, 1, 1), Moves(s3, 1, 1), Moves(s4, 1, 1), Moves(s5,
            1, 1), Moves(s6, 1, 1), Moves(s7, 1, 2)
      PROVE  Leads(<<s1, s2, s3, s4, s5, s6, s7>>, 2, 2)
  <2>1. Whole(<<s1, s2, s3, s4, s5, s6, s7>>, 7)
    BY DEF Whole
  <2>2. Row(<<s1, s2, s3, s4, s5, s6, s7>>, 7, <<2, 1, 1, 1, 1, 1, 1, 2>>, 2,
            2)
    BY <1>3, FewLevels DEF Row
  <2> QED BY <2>1, <2>2, RowLeads
<1>4. ASSUME NEW s1, Moves(s1, 2, 1)
      PROVE  Leads(<<s1>>, 2, 1)
  <2>1. Whole(<<s1>>, 1)
    BY DEF Whole
  <2>2. Row(<<s1>>, 1, <<2, 1>>, 2, 1)
    BY <1>4, FewLevels DEF Row
  <2> QED BY <2>1, <2>2, RowLeads
<1>5. ASSUME NEW s1, NEW s2, NEW s3, NEW s4, NEW s5, Leads(s1, 1, 2), Leads(s2,
            2, 2), Leads(s3, 2, 2), Leads(s4, 2, 2), Leads(s5, 2, 1)
      PROVE  Leads(s1 \o s2 \o s3 \o s4 \o s5, 1, 1)
  BY <1>5, PartsLead
<1>6. Leads(FlattenSeq([q \in 1..((last + 64) \div 64) |->
                          PendingBits(64 * (q - 1), last)]), 2, 2)
  <2> DEFINE f == [q \in 1..((last + 64) \div 64) |->
                    PendingBits(64 * (q - 1), last)]
  <2>1. ((last + 64) \div 64) \in Int
    OBVIOUS
  <2>2. /\ Whole(f, ((last + 64) \div 64))
        /\ \A i \in 1..((last + 64) \div 64) : f[i] = PendingBits(64 * (i - 1), last)
    BY <2>1 DEF Whole
  <2> HIDE DEF f
  <2>3. Leads(FlattenSeq(f), 2, 2)
    BY <2>1, <2>2, ElementsLead, FlatLeads, FewLevels
  <2> QED BY <2>3 DEF f
<1> QED BY <1>1, <1>2, <1>3, <1>4, <1>5, <1>6, FewLevels, PlainStatements,
     ScopeStatements, RepeatLeads DEF msix_table

LEMMA ht_capability_Leads == Leads(ht_capability, 1, 1)
<1>1. Leads(ht_capability[3].then, 1, 1)
  <2>1. Whole(ht_capability[3].then, 2)
    BY BranchStatements DEF Whole, ht_capability
  <2>2. Moves(ht_capability[3].then[2], 1, 1)
    BY FewLevels, BranchStatements, PciCalls, FewStatements DEF ht_capability
  <2>3. Row(ht_capability[3].then, 2, <<1, 1, 1>>, 1, 1)
    BY <2>2, FewLevels, PlainStatements, BranchStatements DEF Row,
       ht_capability
  <2> QED BY <2>1, <2>3, RowLeads
<1>2. Leads(ht_capability[3].else, 1, 1)
  <2>1. Whole(ht_capability[3].else, 2)
    BY BranchStatements DEF Whole, ht_capability
  <2>2. Moves(ht_capability[3].else[2], 1, 1)
    BY FewLevels, BranchStatements, PciCalls, FewStatements DEF ht_capability
  <2>3. Row(ht_capability[3].else, 2, <<1, 1, 1>>, 1, 1)
    BY <2>2, FewLevels, PlainStatements, BranchStatements DEF Row,
       ht_capability
  <2> QED BY <2>1, <2>3, RowLeads
<1>3. Whole(ht_capability, 3)
  BY DEF Whole, ht_capability
<1>4. Moves(ht_capability[3], 1, 1)
  BY <1>1, <1>2, FewLevels, PlainStatements, BranchStatements, PciCalls,
     FewStatements DEF ht_capability
<1>5. Row(ht_capability, 3, <<1, 1, 1, 1>>, 1, 1)
  BY <1>4, FewLevels, PlainStatements DEF Row, ht_capability
<1> QED BY <1>3, <1>5, RowLeads

LEMMA ssid_capability_Leads == Leads(ssid_capability, 1, 1)
<1>1. Whole(ssid_capability, 1)
  BY DEF Whole, ssid_capability
<1>2. Row(ssid_capability, 1, <<1, 1>>, 1, 1)
  BY FewLevels, PlainStatements DEF Row, ssid_capability
<1> QED BY <1>1, <1>2, RowLeads

LEMMA pcie_capability_Leads == Leads(pcie_capability, 1, 1)
<1>1. Whole(pcie_capability, 6)
  BY DEF Whole, pcie_capability
<1>2. Moves(pcie_capability[4], 1, 1)
  BY FewLevels, PlainStatements, BranchStatements,
     FewStatements DEF pcie_capability
<1>3. Row(pcie_capability, 6, [i \in 1..7 |-> 1], 1, 1)
  BY <1>2, FewLevels, PlainStatements DEF Row, pcie_capability
<1> QED BY <1>1, <1>3, RowLeads

LEMMA pcie_device_Leads == Leads(pcie_device, 1, 1)
<1>1. Whole(pcie_device, 11)
  BY DEF Whole, pcie_device
<1>2. /\ Moves(pcie_device[5], 2, 2) /\ Moves(pcie_device[6], 2, 2)
      /\ Moves(pcie_device[8], 2, 2) /\ Moves(pcie_device[10], 2, 2)
  BY FewLevels, PlainStatements, BranchStatements,
     FewStatements DEF pcie_device
<1>3. Row(pcie_device, 11, <<1, 2, 2, 2, 2, 2, 2, 2, 2, 2, 2, 1>>, 1, 1)
  BY <1>2, FewLevels, PlainStatements, ScopeStatements DEF Row, pcie_device
<1> QED BY <1>1, <1>3, RowLeads

LEMMA pcie_link_Leads == Leads(pcie_link, 1, 1)
<1>1. Leads(pcie_link[1].then, 1, 1)
  <2>1. Whole(pcie_link[1].then, 14)
    BY BranchStatements DEF Whole, pcie_link
  <2>2. /\ Moves(pcie_link[1].then[5], 2, 2)
        /\ Moves(pcie_link[1].then[7], 2, 2)
        /\ Moves(pcie_link[1].then[9], 2, 2)
        /\ Moves(pcie_link[1].then[11], 2, 2)
        /\ Moves(pcie_link[1].then[13], 2, 2)
    BY FewLevels, PlainStatements, BranchStatements,
       FewStatements DEF pcie_link
  <2>3. Row(pcie_link[1].then, 14,
            <<1, 2, 2, 2, 2, 2, 2, 2, 2, 2, 2, 2, 2, 2, 1>>,
            1, 1)
    BY <2>2, FewLevels, PlainStatements, ScopeStatements,
       BranchStatements, SMTT(30) DEF Row, pcie_link
  <2> QED BY <2>1, <2>3, RowLeads
<1>2. Whole(pcie_link, 1)
  BY DEF Whole, pcie_link
<1>3. Moves(pcie_link[1], 1, 1)
  BY <1>1, FewLevels, PlainStatements, BranchStatements,
     FewStatements DEF pcie_link
<1>4. Row(pcie_link, 1, <<1, 1>>, 1, 1)
  BY <1>3, FewLevels DEF Row, pcie_link
<1> QED BY <1>2, <1>4, RowLeads

LEMMA pcie_slot_Leads == Leads(pcie_slot, 1, 1)
<1>1. Leads(pcie_slot[1].then, 1, 1)
  <2>1. Whole(pcie_slot[1].then, 21)
    BY BranchStatements, SMTT(30) DEF Whole, pcie_slot
  <2>2. /\ Moves(pcie_slot[1].then[5], 2, 2)
        /\ Moves(pcie_slot[1].then[7], 2, 2)
        /\ Moves(pcie_slot[1].then[9], 2, 2)
        /\ Moves(pcie_slot[1].then[11], 2, 2)
        /\ Moves(pcie_slot[1].then[13], 2, 2)
        /\ Moves(pcie_slot[1].then[15], 2, 2)
        /\ Moves(pcie_slot[1].then[17], 2, 2)
        /\ Moves(pcie_slot[1].then[19], 2, 2)
        /\ Moves(pcie_slot[1].then[20], 2, 2)
    BY FewLevels, PlainStatements, BranchStatements,
       FewStatements DEF pcie_slot
  <2>3. /\ Moves(pcie_slot[1].then[1], 1, 2)
        /\ Moves(pcie_slot[1].then[2], 2, 2)
        /\ Moves(pcie_slot[1].then[3], 2, 2)
        /\ Moves(pcie_slot[1].then[4], 2, 2)
        /\ Moves(pcie_slot[1].then[6], 2, 2)
        /\ Moves(pcie_slot[1].then[8], 2, 2)
    BY FewLevels, PlainStatements, ScopeStatements,
       BranchStatements DEF pcie_slot
  <2>4. /\ Moves(pcie_slot[1].then[10], 2, 2)
        /\ Moves(pcie_slot[1].then[12], 2, 2)
        /\ Moves(pcie_slot[1].then[14], 2, 2)
        /\ Moves(pcie_slot[1].then[16], 2, 2)
        /\ Moves(pcie_slot[1].then[18], 2, 2)
        /\ Moves(pcie_slot[1].then[21], 2, 1)
    BY FewLevels, PlainStatements, ScopeStatements,
       BranchStatements DEF pcie_slot
  <2>5. Row(pcie_slot[1].then, 21,
            <<1, 2, 2, 2, 2, 2, 2, 2, 2, 2, 2, 2, 2, 2, 2, 2, 2, 2, 2, 2, 2,
              1>>,
            1, 1)
    BY <2>2, <2>3, <2>4, FewLevels DEF Row
  <2> QED BY <2>1, <2>5, RowLeads
<1>2. Whole(pcie_slot, 1)
  BY DEF Whole, pcie_slot
<1>3. Moves(pcie_slot[1], 1, 1)
  BY <1>1, FewLevels, PlainStatements, BranchStatements,
     FewStatements DEF pcie_slot
<1>4. Row(pcie_slot, 1, <<1, 1>>, 1, 1)
  BY <1>3, FewLevels DEF Row, pcie_slot
<1> QED BY <1>2, <1>4, RowLeads

LEMMA pcie_root_Leads == Leads(pcie_root, 1, 1)
<1>1. Leads(pcie_root[1].then, 1, 1)
  <2>1. Whole(pcie_root[1].then, 4)
    BY BranchStatements DEF Whole, pcie_root
  <2>2. Row(pcie_root[1].then, 4, <<1, 2, 2, 2, 1>>, 1, 1)
    BY FewLevels, PlainStatements, ScopeStatements, BranchStatements DEF Row,
       pcie_root
  <2> QED BY <2>1, <2>2, RowLeads
<1>2. Whole(pcie_root, 1)
  BY DEF Whole, pcie_root
<1>3. Moves(pcie_root[1], 1, 1)
  BY <1>1, FewLevels, PlainStatements, BranchStatements,
     FewStatements DEF pcie_root
<1>4. Row(pcie_root, 1, <<1, 1>>, 1, 1)
  BY <1>3, FewLevels DEF Row, pcie_root
<1> QED BY <1>2, <1>4, RowLeads

LEMMA aer_ecapability_Leads == Leads(aer_ecapability, 1, 1)
<1> DEFINE n2 == <<"receiver_err", "bad_tlp", "bad_dllp",
                    "replay_num_rollover",
                    "replay_timer_timeout", "advisory_nf_err">>
<1> DEFINE n1 == <<"data_link_proto_err", "surprise_down_err",
                    "poisoned_tlp", "flow_ctrl_proto_err",
                    "completion_timeout", "completer_abort",
                    "unexpected_completion", "receiver_overflow",
                    "malformed_tlp", "ecrc_err",
                    "unsupported_request_err", "acs_violation">>
<1> DEFINE p == <<T(<<"fatal_t">>),
                 Open("uncorrectable"),
                 R(<<"%error_status", "%error_mask", "%error_severity">>)>>
           q == <<Close,
                  Open("correctable"),
                  R(<<"%error_status", "%error_mask">>)>>
           r == <<Close,
    R(<<"%caps_control">>),
    F({"hex8_t", "yesno_t"}, {<<"%caps_control">>},
      <<"first_err_ptr", "ecrc_generation_cap", "ecrc_generation_en",
        "ecrc_check_cap", "ecrc_check_en">>),
    R(<<"%header_log_0", "%header_log_1", "%header_log_2", "%header_log_3">>),
    F({"hex128_t"},
      {<<"%header_log_3">>, <<"%header_log_2">>, <<"%header_log_1">>, <<"%header_log_0">>},
         <<"header_log">>),
    When(EqAny(<<"$pci", "capability.pcie", "[0]", "type">>, <<"root_event_collector",
           "root_port">>),
     <<R(<<"%root_error_command", "%root_error_status">>),
       F({"fatal_t", "hex8_t", "yesno_t"},
         {<<"%root_error_command">>, <<"%root_error_status">>},
         <<"correctable_err_en", "correctable_err_rcvd",
           "correctable_err_multi", "nonfatal_err_en", "nonfatal_rcvd",
           "fatal_err_en", "fatal_rcvd", "uncorrectable_err_rcvd",
           "uncorrectable_err_multi", "first_uncorrectable", "intr_msg_num">>),
       R(<<"%error_src_id">>),
       F({"hex16_t"}, {<<"%error_src_id">>},
         <<"correctable_src_id", "uncorrectable_src_id">>)>>)>>
<1>1. ASSUME NEW s1, NEW s2, NEW s3, Moves(s1, 1, 1), Moves(s2, 1, 2),
            Moves(s3, 2, 2)
      PROVE  Leads(<<s1, s2, s3>>, 1, 2)
  <2>1. Whole(<<s1, s2, s3>>, 3)
    BY DEF Whole
  <2>2. Row(<<s1, s2, s3>>, 3, <<1, 1, 2, 2>>, 1, 2)
    BY <1>1, FewLevels DEF Row
  <2> QED BY <2>1, <2>2, RowLeads
<1>2. ASSUME NEW s1, NEW s2, NEW s3, Moves(s1, 2, 1), Moves(s2, 1, 2),
            Moves(s3, 2, 2)
      PROVE  Leads(<<s1, s2, s3>>, 2, 2)
  <2>1. Whole(<<s1, s2, s3>>, 3)
    BY DEF Whole
  <2>2. Row(<<s1, s2, s3>>, 3, <<2, 1, 2, 2>>, 2, 2)
    BY <1>2, FewLevels DEF Row
  <2> QED BY <2>1, <2>2, RowLeads
<1>3. ASSUME NEW s1, NEW s2, NEW s3, NEW s4, NEW s5, NEW s6, Moves(s1, 2, 1),
            Moves(s2, 1, 1), Moves(s3, 1, 1), Moves(s4, 1, 1), Moves(s5, 1, 1),
            Moves(s6, 1, 1)
      PROVE  Leads(<<s1, s2, s3, s4, s5, s6>>, 2, 1)
  <2>1. Whole(<<s1, s2, s3, s4, s5, s6>>, 6)
    BY DEF Whole
  <2>2. Row(<<s1, s2, s3, s4, s5, s6>>, 6, <<2, 1, 1, 1, 1, 1, 1>>, 2, 1)
    BY <1>3, FewLevels DEF Row
  <2> QED BY <2>1, <2>2, RowLeads
<1>4. ASSUME NEW s1, NEW s2, NEW s3, NEW s4, NEW s5, Leads(s1, 1, 2), Leads(s2,
            2, 2), Leads(s3, 2, 2), Leads(s4, 2, 2), Leads(s5, 2, 1)
      PROVE  Leads(s1 \o s2 \o s3 \o s4 \o s5, 1, 1)
  BY <1>4, PartsLead
<1>5. Leads(FlattenSeq([i \in DOMAIN n1 |-> UncorrectableError(n1[i])]), 2, 2)
  <2> DEFINE f == [i \in DOMAIN n1 |-> UncorrectableError(n1[i])]
  <2>1. DOMAIN n1 = 1..12
    OBVIOUS
  <2> HIDE DEF n1
  <2>2. Whole(f, 12) /\ \A i \in 1..12 : f[i] = UncorrectableError(n1[i])
    BY <2>1 DEF Whole
  <2> HIDE DEF f
  <2>3. Leads(FlattenSeq(f), 2, 2)
    BY <2>1, <2>2, ElementsLead, FlatLeads, FewLevels
  <2> QED BY <2>3 DEF f
<1>6. Leads(FlattenSeq([i \in DOMAIN n2 |-> CorrectableError(n2[i])]), 2, 2)
  <2> DEFINE f == [i \in DOMAIN n2 |-> CorrectableError(n2[i])]
  <2>1. DOMAIN n2 = 1..6
    OBVIOUS
  <2> HIDE DEF n2
  <2>2. Whole(f, 6) /\ \A i \in 1..6 : f[i] = CorrectableError(n2[i])
    BY <2>1 DEF Whole
  <2> HIDE DEF f
  <2>3. Leads(FlattenSeq(f), 2, 2)
    BY <2>1, <2>2, ElementsLead, FlatLeads, FewLevels
  <2> QED BY <2>3 DEF f
<1>7. Leads(p, 1, 2) /\ Leads(q, 2, 2)
  BY <1>1, <1>2, FewLevels, PlainStatements, ScopeStatements
<1>8. Leads(r, 2, 1)
  BY <1>3, FewLevels, PlainStatements, ScopeStatements, BranchStatements,
     FewStatements
<1>9. aer_ecapability = p \o FlattenSeq([i \in DOMAIN n1 |-> UncorrectableError(n1[i])])
        \o q \o FlattenSeq([i \in DOMAIN n2 |-> CorrectableError(n2[i])]) \o r
  BY DEF aer_ecapability, Each
<1> HIDE DEF p, q, r, n1, n2
<1> QED BY <1>4, <1>5, <1>6, <1>7, <1>8, <1>9

LEMMA explore_capabilities_Leads == Leads(explore_capabilities, 1, 1)
<1>1. Whole(explore_capabilities, 2)
  BY DEF Whole, explore_capabilities
<1>2. /\ Moves(explore_capabilities[1], 1, 1)
      /\ Moves(explore_capabilities[2], 1, 1)
  BY FewLevels, PlainStatements, BranchStatements, PciCalls,
     FewStatements DEF explore_capabilities
<1>3. Row(explore_capabilities, 2, <<1, 1, 1>>, 1, 1)
  BY <1>2, FewLevels DEF Row, explore_capabilities
<1> QED BY <1>1, <1>3, RowLeads

LEMMA capabilities_Leads == ASSUME NEW ptr PROVE Leads(capabilities(ptr), 1, 1)
<1> DEFINE s == capabilities(ptr)
<1>1. ASSUME ptr \notin {0, 255} PROVE Leads(s, 1, 1)
  <2>1. Whole(s, 6)
    BY <1>1 DEF Whole, capabilities
  <2>2. ASSUME NEW x, NEW y, NEW z, NEW u, NEW v, Moves(Call(x, 0), 2, 2),
               Moves(Call(y, 0), 2, 2), Moves(Call(z, 0), 2, 2), Moves(Call(u, 0), 2, 2),
               Moves(Call(v, 0), 2, 2)
        PROVE  Leads(Run(<<x, y, z, u, v>>), 2, 2)
    <3>1. Whole(Run(<<x, y, z, u, v>>), 5)
      BY DEF Whole, Run
    <3>2. Row(Run(<<x, y, z, u, v>>), 5, <<2, 2, 2, 2, 2, 2>>, 2, 2)
      BY <2>2, FewLevels DEF Row, Run
    <3> QED BY <3>1, <3>2, RowLeads
  <2>3. Moves(s[5], 2, 2)
    BY <1>1, <2>2, FewLevels, BranchStatements, FewStatements, PciCalls DEF capabilities
  <2>4. Row(s, 6, <<1, 2, 2, 2, 2, 2, 1>>, 1, 1)
    BY <1>1, <2>3, FewLevels, PlainStatements, ScopeStatements, ScopeCalls
       DEF Row, capabilities
  <2> QED BY <2>1, <2>4, RowLeads
<1>2. ASSUME ptr \in {0, 255} PROVE s = <<>>
  BY <1>2 DEF capabilities
<1> QED BY <1>1, <1>2, NothingLeads, FewLevels

LEMMA next_capability_Leads == ASSUME NEW ptr PROVE Leads(next_capability(ptr), 2, 1)
<1>1. Whole(next_capability(ptr), 3)
  BY DEF Whole, next_capability
<1>2. Row(next_capability(ptr), 3, <<2, 1, 1, 1>>, 2, 1)
  BY FewLevels, PlainStatements, ScopeStatements, PciCalls DEF Row,
     next_capability
<1> QED BY <1>1, <1>2, RowLeads

LEMMA ecapabilities_Leads == ASSUME NEW ptr PROVE Leads(ecapabilities(ptr), 1, 1)
<1> DEFINE s == ecapabilities(ptr)
<1>1. ASSUME ptr \notin {0, 4095} PROVE Leads(s, 1, 1)
  <2>1. Whole(s, 8)
    BY <1>1 DEF Whole, ecapabilities
  <2>2. Moves(s[7], 2, 2)
    BY <1>1, FewLevels, BranchStatements, FewStatements, PciCalls DEF ecapabilities
  <2>3. Row(s, 8, <<1, 2, 2, 2, 2, 2, 2, 2, 1>>, 1, 1)
    BY <1>1, <2>2, FewLevels, PlainStatements, ScopeStatements, ScopeCalls
       DEF Row, ecapabilities
  <2> QED BY <2>1, <2>3, RowLeads
<1>2. ASSUME ptr \in {0, 4095} PROVE s = <<>>
  BY <1>2 DEF ecapabilities
<1> QED BY <1>1, <1>2, NothingLeads, FewLevels

LEMMA next_ecapability_Leads ==
  ASSUME NEW ptr
  PROVE  Leads(next_ecapability(ptr), 2, 1)
<1>1. Whole(next_ecapability(ptr), 3)
  BY DEF Whole, next_ecapability
<1>2. Row(next_ecapability(ptr), 3, <<2, 1, 1, 1>>, 2, 1)
  BY FewLevels, PlainStatements, ScopeStatements, PciCalls DEF Row,
     next_ecapability
<1> QED BY <1>1, <1>2, RowLeads

LEMMA create_pci_bridge_Leads == Leads(create_pci_bridge, 1, 1)
<1>1. Whole(create_pci_bridge, 29)
  BY DEF Whole, create_pci_bridge
<1>2. /\ Moves(create_pci_bridge[9], 2, 2)
      /\ Moves(create_pci_bridge[18], 2, 2)
  BY FewLevels, PlainStatements, BranchStatements,
     FewStatements DEF create_pci_bridge
<1>3. Row(create_pci_bridge, 29,
          <<1, 1, 1, 2, 2, 1, 2, 2, 2, 2, 1, 2, 2, 2, 1, 2, 2, 2, 2, 1, 1,
            1, 2, 2, 1, 1, 2, 2, 2, 1>>,
          1, 1)
  BY <1>2, FewLevels, PlainStatements, ScopeStatements, PciCalls DEF Row,
     create_pci_bridge
<1> QED BY <1>1, <1>3, RowLeads

LEMMA create_device_Leads == Leads(create_device, 1, 1)
<1> DEFINE f == [i \in 1..4 |->
                  LET this == "bar" \o ToString(i)
                  IN When(Or(Not(Defined(<<this>>)), Not(Is64Bit(this))),
                          <<Call("BAR", "bar" \o ToString(i + 1))>>)]
           rest == <<F({"addr32_t", "hex16_t", "pci_vendor_t"}, {Anon},
                       <<"cisptr", "subvendor", "subsystem">>),
                     Call("explore_capabilities", 0),
                     R(<<"%rombase">>),
                     Open("rombase"),
                     F({"addr32_t", "yesno_t"}, {Up("%rombase")},
                       <<"enabled", "address">>),
                     Close,
                     F({}, {Anon}, <<"mingnt", "maxlat">>)>>
<1>1. create_device = f \o rest
  BY DEF create_device
<1>2. ASSUME NEW i \in 1..4 PROVE Moves(f[i], 1, 1)
  BY FewLevels, BranchStatements, FewStatements, PciCalls
<1>3. Whole(f, 4)
  BY DEF Whole
<1> HIDE DEF f
<1>4. Row(f, 4, <<1, 1, 1, 1, 1>>, 1, 1)
  BY <1>2, FewLevels DEF Row
<1>5. Whole(rest, 7)
  BY DEF Whole
<1>6. Row(rest, 7, <<1, 1, 1, 1, 2, 2, 1, 1>>, 1, 1)
  BY FewLevels, PlainStatements, ScopeStatements, PciCalls DEF Row
<1>7. Leads(f, 1, 1) /\ Leads(rest, 1, 1)
  <2> HIDE DEF rest
  <2> QED BY <1>3, <1>4, <1>5, <1>6, RowLeads
<1> HIDE DEF rest
<1> QED BY <1>1, <1>7, PartsLead

LEMMA pci_generic_device_Leads == Leads(pci_generic_device, 1, 1)
<1>1. Whole(pci_generic_device, 28)
  BY DEF Whole, pci_generic_device
<1>2. /\ Moves(pci_generic_device[3], 1, 1)
      /\ Moves(pci_generic_device[16], 1, 1)
      /\ Moves(pci_generic_device[27], 1, 1)
      /\ Moves(pci_generic_device[28], 1, 1)
  BY FewLevels, PlainStatements, BranchStatements, PciCalls,
     FewStatements DEF pci_generic_device
<1>3. Row(pci_generic_device, 28,
          <<1, 1, 1, 1, 1, 1, 2, 2, 1, 1, 2, 2, 2, 2, 1, 1, 1, 1, 1, 1, 1,
            1, 2, 2, 1, 1, 1, 1, 1>>,
          1, 1)
  BY <1>2, FewLevels, PlainStatements, ScopeStatements, PciCalls DEF Row,
     pci_generic_device
<1> QED BY <1>1, <1>3, RowLeads

LEMMA PCI_SCOPE_Leads == ASSUME NEW name PROVE Leads(PCI_SCOPE(name), 1, 2)
<1>1. Whole(PCI_SCOPE(name), 2)
  BY DEF Whole, PCI_SCOPE
<1>2. Row(PCI_SCOPE(name), 2, <<1, 2, 2>>, 1, 2)
  BY FewLevels, ScopeStatements, PciCalls DEF Row, PCI_SCOPE
<1> QED BY <1>1, <1>2, RowLeads

LEMMA pci_discovered_Leads == ASSUME NEW name PROVE Leads(pci_discovered(name), 1, 1)
<1>1. Whole(pci_discovered(name), 2)
  BY DEF Whole, pci_discovered
<1>2. Row(pci_discovered(name), 2, <<1, 2, 1>>, 1, 1)
  BY FewLevels, ScopeStatements, ScopeCalls DEF Row, pci_discovered
<1> QED BY <1>1, <1>2, RowLeads

-----------------------------------------------------------------------------
(***************************************************************************)
(* The functions of the CPU files.  CPUID_SCOPE and MSR_SCOPE open a scope *)
(* for what follows.                                                       *)
(***************************************************************************)
LEMMA cpuid_functions_0_1_Leads == Leads(cpuid_functions_0_1, 1, 1)
<1>1. Leads(cpuid_functions_0_1[6].then, 1, 1)
  <2>1. Whole(cpuid_functions_0_1[6].then, 8)
    BY BranchStatements DEF Whole, cpuid_functions_0_1
  <2>2. Moves(cpuid_functions_0_1[6].then[7], 1, 1)
    BY FewLevels, PlainStatements, BranchStatements,
       FewStatements DEF cpuid_functions_0_1
  <2>3. Row(cpuid_functions_0_1[6].then, 8, [i \in 1..9 |-> 1], 1, 1)
    BY <2>2, FewLevels, PlainStatements, BranchStatements DEF Row,
       cpuid_functions_0_1
  <2> QED BY <2>1, <2>3, RowLeads
<1>2. Whole(cpuid_functions_0_1, 6)
  BY DEF Whole, cpuid_functions_0_1
<1>3. Moves(cpuid_functions_0_1[6], 1, 1)
  BY <1>1, FewLevels, PlainStatements, BranchStatements,
     FewStatements DEF cpuid_functions_0_1
<1>4. Row(cpuid_functions_0_1, 6, [i \in 1..7 |-> 1], 1, 1)
  BY <1>3, FewLevels, PlainStatements DEF Row, cpuid_functions_0_1
<1> QED BY <1>2, <1>4, RowLeads

LEMMA cpuid_function_2_Leads == Leads(cpuid_function_2, 1, 1)
<1>1. Leads(cpuid_function_2[1].then[2].then, 2, 1)
  <2>1. Whole(cpuid_function_2[1].then[2].then, 1)
    BY BranchStatements DEF Whole, cpuid_function_2
  <2>2. Row(cpuid_function_2[1].then[2].then, 1, <<2, 1>>, 2, 1)
    BY FewLevels, BranchStatements, ScopeCalls DEF Row, cpuid_function_2
  <2> QED BY <2>1, <2>2, RowLeads
<1>2. Leads(cpuid_function_2[1].then[2].else, 2, 1)
  <2>1. Whole(cpuid_function_2[1].then[2].else, 1)
    BY BranchStatements DEF Whole, cpuid_function_2
  <2>2. Row(cpuid_function_2[1].then[2].else, 1, <<2, 1>>, 2, 1)
    BY FewLevels, BranchStatements, ScopeCalls DEF Row, cpuid_function_2
  <2> QED BY <2>1, <2>2, RowLeads
<1>3. Leads(cpuid_function_2[1].then, 1, 1)
  <2>1. Whole(cpuid_function_2[1].then, 2)
    BY BranchStatements DEF Whole, cpuid_function_2
  <2>2. Moves(cpuid_function_2[1].then[2], 2, 1)
    BY <1>1, <1>2, FewLevels, BranchStatements, ScopeCalls,
       FewStatements DEF cpuid_function_2
  <2>3. Row(cpuid_function_2[1].then, 2, <<1, 2, 1>>, 1, 1)
    BY <2>2, FewLevels, ScopeStatements, BranchStatements DEF Row,
       cpuid_function_2
  <2> QED BY <2>1, <2>3, RowLeads
<1>4. Whole(cpuid_function_2, 1)
  BY DEF Whole, cpuid_function_2
<1>5. Moves(cpuid_function_2[1], 1, 1)
  BY <1>3, FewLevels, BranchStatements, ScopeCalls,
     FewStatements DEF cpuid_function_2
<1>6. Row(cpuid_function_2, 1, <<1, 1>>, 1, 1)
  BY <1>5, FewLevels DEF Row, cpuid_function_2
<1> QED BY <1>4, <1>6, RowLeads

LEMMA cache_descriptors_Leads == ASSUME NEW t PROVE Leads(cache_descriptors(t), 2, 1)
<1>1. ASSUME NEW s1, Moves(s1, 2, 1)
      PROVE  Leads(<<s1>>, 2, 1)
  <2>1. Whole(<<s1>>, 1)
    BY DEF Whole
  <2>2. Row(<<s1>>, 1, <<2, 1>>, 2, 1)
    BY <1>1, FewLevels DEF Row
  <2> QED BY <2>1, <2>2, RowLeads
<1>2. ASSUME NEW s1, NEW s2, NEW s3, Leads(s1, 2, 2), Leads(s2, 2, 2),
            Leads(s3, 2, 1)
      PROVE  Leads(s1 \o s2 \o s3, 2, 1)
  BY <1>2, PartsLead
<1> QED BY <1>1, <1>2, FewLevels, PlainStatements, ScopeCalls, FewStatements,
     RegistersLead DEF cache_descriptors

LEMMA further_queries_Leads ==
  ASSUME NEW t, NEW n \in Nat
  PROVE  Leads(further_queries(t, n), 2, 1)
<1>1. ASSUME NEW s1, Moves(s1, 2, 1)
      PROVE  Leads(<<s1>>, 2, 1)
  <2>1. Whole(<<s1>>, 1)
    BY DEF Whole
  <2>2. Row(<<s1>>, 1, <<2, 1>>, 2, 1)
    BY <1>1, FewLevels DEF Row
  <2> QED BY <2>1, <2>2, RowLeads
<1>2. ASSUME NEW s1, NEW s2, Leads(s1, 2, 2), Leads(s2, 2, 2)
      PROVE  Leads(s1 \o s2, 2, 2)
  BY <1>2, PartsLead
<1>3. ASSUME NEW s1, NEW s2, Leads(s1, 2, 2), Leads(s2, 2, 1)
      PROVE  Leads(s1 \o s2, 2, 1)
  BY <1>3, PartsLead
<1> QED BY <1>1, <1>2, <1>3, FewLevels, PlainStatements, ScopeStatements,
     FewStatements, RegistersLead, RepeatLeads DEF further_queries

LEMMA cpuid_function_4_Leads == Leads(cpuid_function_4, 1, 1)
<1>1. Whole(cpuid_function_4, 1)
  BY DEF Whole, cpuid_function_4
<1>2. Moves(cpuid_function_4[1], 1, 1)
  BY FewLevels, BranchStatements, CpuCalls, FewStatements DEF cpuid_function_4
<1>3. Row(cpuid_function_4, 1, <<1, 1>>, 1, 1)
  BY <1>2, FewLevels DEF Row, cpuid_function_4
<1> QED BY <1>1, <1>3, RowLeads

LEMMA cache_info_Leads == ASSUME NEW i PROVE Leads(cache_info(i), 1, 1)
<1>1. Leads(cache_info(i)[2].then, 1, 1)
  <2>1. Whole(cache_info(i)[2].then, 5)
    BY BranchStatements DEF Whole, cache_info
  <2>2. Row(cache_info(i)[2].then, 5, <<1, 2, 2, 2, 1, 1>>, 1, 1)
    BY FewLevels, PlainStatements, ScopeStatements, BranchStatements,
       CpuCalls DEF Row, cache_info
  <2> QED BY <2>1, <2>2, RowLeads
<1>2. Whole(cache_info(i), 2)
  BY DEF Whole, cache_info
<1>3. Moves(cache_info(i)[2], 1, 1)
  BY <1>1, FewLevels, PlainStatements, BranchStatements, CpuCalls,
     FewStatements DEF cache_info
<1>4. Row(cache_info(i), 2, <<1, 1, 1>>, 1, 1)
  BY <1>3, FewLevels, PlainStatements DEF Row, cache_info
<1> QED BY <1>2, <1>4, RowLeads

LEMMA cpuid_functions_5_A_Leads == Leads(cpuid_functions_5_A, 1, 1)
<1>1. Leads(cpuid_functions_5_A[1].then, 1, 1)
  <2>1. Whole(cpuid_functions_5_A[1].then, 4)
    BY BranchStatements DEF Whole, cpuid_functions_5_A
  <2>2. Row(cpuid_functions_5_A[1].then, 4, <<1, 2, 2, 2, 1>>, 1, 1)
    BY FewLevels, PlainStatements, ScopeStatements, BranchStatements DEF Row,
       cpuid_functions_5_A
  <2> QED BY <2>1, <2>2, RowLeads
<1>2. Leads(cpuid_functions_5_A[2].then, 1, 1)
  <2>1. Whole(cpuid_functions_5_A[2].then, 4)
    BY BranchStatements DEF Whole, cpuid_functions_5_A
  <2>2. Row(cpuid_functions_5_A[2].then, 4, <<1, 2, 2, 2, 1>>, 1, 1)
    BY FewLevels, PlainStatements, ScopeStatements, BranchStatements DEF Row,
       cpuid_functions_5_A
  <2> QED BY <2>1, <2>2, RowLeads
<1>3. Leads(cpuid_functions_5_A[3].then, 1, 1)
  <2>1. Whole(cpuid_functions_5_A[3].then, 4)
    BY BranchStatements DEF Whole, cpuid_functions_5_A
  <2>2. Row(cpuid_functions_5_A[3].then, 4, <<1, 2, 2, 2, 1>>, 1, 1)
    BY FewLevels, PlainStatements, ScopeStatements, BranchStatements DEF Row,
       cpuid_functions_5_A
  <2> QED BY <2>1, <2>2, RowLeads
<1>4. Leads(cpuid_functions_5_A[4].then, 1, 1)
  <2>1. Whole(cpuid_functions_5_A[4].then, 8)
    BY BranchStatements DEF Whole, cpuid_functions_5_A
  <2>2. Moves(cpuid_functions_5_A[4].then[7], 2, 2)
    BY FewLevels, PlainStatements, BranchStatements,
       FewStatements DEF cpuid_functions_5_A
  <2>3. Row(cpuid_functions_5_A[4].then, 8, <<1, 2, 2, 2, 2, 2, 2, 2, 1>>, 1, 1)
    BY <2>2, FewLevels, PlainStatements, ScopeStatements,
       BranchStatements DEF Row, cpuid_functions_5_A
  <2> QED BY <2>1, <2>3, RowLeads
<1>5. Whole(cpuid_functions_5_A, 4)
  BY DEF Whole, cpuid_functions_5_A
<1>6. /\ Moves(cpuid_functions_5_A[1], 1, 1)
      /\ Moves(cpuid_functions_5_A[2], 1, 1)
      /\ Moves(cpuid_functions_5_A[3], 1, 1)
      /\ Moves(cpuid_functions_5_A[4], 1, 1)
  BY <1>1, <1>2, <1>3, <1>4, FewLevels, PlainStatements, BranchStatements,
     FewStatements DEF cpuid_functions_5_A
<1>7. Row(cpuid_functions_5_A, 4, [i \in 1..5 |-> 1], 1, 1)
  BY <1>6, FewLevels DEF Row, cpuid_functions_5_A
<1> QED BY <1>5, <1>7, RowLeads

LEMMA cpuid_function_B_Leads == Leads(cpuid_function_B, 1, 1)
<1>1. Whole(cpuid_function_B, 1)
  BY DEF Whole, cpuid_function_B
<1>2. Moves(cpuid_function_B[1], 1, 1)
  BY FewLevels, BranchStatements, CpuCalls, FewStatements DEF cpuid_function_B
<1>3. Row(cpuid_function_B, 1, <<1, 1>>, 1, 1)
  BY <1>2, FewLevels DEF Row, cpuid_function_B
<1> QED BY <1>1, <1>3, RowLeads

LEMMA topo_info_Leads == ASSUME NEW i PROVE Leads(topo_info(i), 1, 1)
<1>1. Leads(topo_info(i)[2].then, 1, 1)
  <2>1. Whole(topo_info(i)[2].then, 5)
    BY BranchStatements DEF Whole, topo_info
  <2>2. Row(topo_info(i)[2].then, 5, <<1, 2, 2, 2, 1, 1>>, 1, 1)
    BY FewLevels, PlainStatements, ScopeStatements, BranchStatements,
       CpuCalls DEF Row, topo_info
  <2> QED BY <2>1, <2>2, RowLeads
<1>2. Whole(topo_info(i), 2)
  BY DEF Whole, topo_info
<1>3. Moves(topo_info(i)[2], 1, 1)
  BY <1>1, FewLevels, PlainStatements, BranchStatements, CpuCalls,
     FewStatements DEF topo_info
<1>4. Row(topo_info(i), 2, <<1, 1, 1>>, 1, 1)
  BY <1>3, FewLevels, PlainStatements DEF Row, topo_info
<1> QED BY <1>2, <1>4, RowLeads

LEMMA cpuid_functions_80000000_4_Leads == Leads(cpuid_functions_80000000_4, 1, 1)
<1>1. Whole(cpuid_functions_80000000_4, 4)
  BY DEF Whole, cpuid_functions_80000000_4
<1>2. /\ Moves(cpuid_functions_80000000_4[3], 1, 1)
      /\ Moves(cpuid_functions_80000000_4[4], 1, 1)
  BY FewLevels, PlainStatements, BranchStatements,
     FewStatements DEF cpuid_functions_80000000_4
<1>3. Row(cpuid_functions_80000000_4, 4, [i \in 1..5 |-> 1], 1, 1)
  BY <1>2, FewLevels, PlainStatements DEF Row, cpuid_functions_80000000_4
<1> QED BY <1>1, <1>3, RowLeads

LEMMA cpuid_function_80000005_Leads == Leads(cpuid_function_80000005, 1, 1)
<1>1. Leads(cpuid_function_80000005[1].then, 1, 1)
  <2>1. Whole(cpuid_function_80000005[1].then, 5)
    BY BranchStatements DEF Whole, cpuid_function_80000005
  <2>2. Row(cpuid_function_80000005[1].then, 5, <<1, 2, 2, 2, 2, 1>>, 1, 1)
    BY FewLevels, PlainStatements, ScopeStatements, BranchStatements DEF Row,
       cpuid_function_80000005
  <2> QED BY <2>1, <2>2, RowLeads
<1>2. Whole(cpuid_function_80000005, 1)
  BY DEF Whole, cpuid_function_80000005
<1>3. Moves(cpuid_function_80000005[1], 1, 1)
  BY <1>1, FewLevels, PlainStatements, BranchStatements,
     FewStatements DEF cpuid_function_80000005
<1>4. Row(cpuid_function_80000005, 1, <<1, 1>>, 1, 1)
  BY <1>3, FewLevels DEF Row, cpuid_function_80000005
<1> QED BY <1>2, <1>4, RowLeads

LEMMA cpuid_function_80000006_Leads == Leads(cpuid_function_80000006, 1, 1)
<1>1. Leads(cpuid_function_80000006[1].then, 1, 1)
  <2>1. Whole(cpuid_function_80000006[1].then, 6)
    BY BranchStatements DEF Whole, cpuid_function_80000006
  <2>2. Moves(cpuid_function_80000006[1].then[4], 2, 2)
    BY FewLevels, PlainStatements, BranchStatements,
       FewStatements DEF cpuid_function_80000006
  <2>3. Row(cpuid_function_80000006[1].then, 6, <<1, 2, 2, 2, 2, 2, 1>>, 1, 1)
    BY <2>2, FewLevels, PlainStatements, ScopeStatements,
       BranchStatements DEF Row, cpuid_function_80000006
  <2> QED BY <2>1, <2>3, RowLeads
<1>2. Whole(cpuid_function_80000006, 1)
  BY DEF Whole, cpuid_function_80000006
<1>3. Moves(cpuid_function_80000006[1], 1, 1)
  BY <1>1, FewLevels, PlainStatements, BranchStatements,
     FewStatements DEF cpuid_function_80000006
<1>4. Row(cpuid_function_80000006, 1, <<1, 1>>, 1, 1)
  BY <1>3, FewLevels DEF Row, cpuid_function_80000006
<1> QED BY <1>2, <1>4, RowLeads

LEMMA cpuid_functions_80000007_8_Leads == Leads(cpuid_functions_80000007_8, 1, 1)
<1>1. Leads(cpuid_functions_80000007_8[1].then, 1, 1)
  <2>1. Whole(cpuid_functions_80000007_8[1].then, 4)
    BY BranchStatements DEF Whole, cpuid_functions_80000007_8
  <2>2. Row(cpuid_functions_80000007_8[1].then, 4, <<1, 2, 2, 2, 1>>, 1, 1)
    BY FewLevels, PlainStatements, ScopeStatements, BranchStatements DEF Row,
       cpuid_functions_80000007_8
  <2> QED BY <2>1, <2>2, RowLeads
<1>2. Leads(cpuid_functions_80000007_8[2].then, 1, 1)
  <2>1. Whole(cpuid_functions_80000007_8[2].then, 6)
    BY BranchStatements DEF Whole, cpuid_functions_80000007_8
  <2>2. Moves(cpuid_functions_80000007_8[2].then[4], 2, 2)
    BY FewLevels, PlainStatements, BranchStatements,
       FewStatements DEF cpuid_functions_80000007_8
  <2>3. Row(cpuid_functions_80000007_8[2].then, 6, <<1, 2, 2, 2, 2, 2, 1>>, 1, 1)
    BY <2>2, FewLevels, PlainStatements, ScopeStatements,
       BranchStatements DEF Row, cpuid_functions_80000007_8
  <2> QED BY <2>1, <2>3, RowLeads
<1>3. Whole(cpuid_functions_80000007_8, 2)
  BY DEF Whole, cpuid_functions_80000007_8
<1>4. /\ Moves(cpuid_functions_80000007_8[1], 1, 1)
      /\ Moves(cpuid_functions_80000007_8[2], 1, 1)
  BY <1>1, <1>2, FewLevels, PlainStatements, BranchStatements,
     FewStatements DEF cpuid_functions_80000007_8
<1>5. Row(cpuid_functions_80000007_8, 2, <<1, 1, 1>>, 1, 1)
  BY <1>4, FewLevels DEF Row, cpuid_functions_80000007_8
<1> QED BY <1>3, <1>5, RowLeads

LEMMA cpuid_functions_8000000A_1A_Leads == Leads(cpuid_functions_8000000A_1A, 1, 1)
<1>1. Leads(cpuid_functions_8000000A_1A[1].then, 1, 1)
  <2>1. Whole(cpuid_functions_8000000A_1A[1].then, 4)
    BY BranchStatements DEF Whole, cpuid_functions_8000000A_1A
  <2>2. Row(cpuid_functions_8000000A_1A[1].then, 4, <<1, 2, 2, 2, 1>>, 1, 1)
    BY FewLevels, PlainStatements, ScopeStatements, BranchStatements DEF Row,
       cpuid_functions_8000000A_1A
  <2> QED BY <2>1, <2>2, RowLeads
<1>2. Leads(cpuid_functions_8000000A_1A[2].then, 1, 1)
  <2>1. Whole(cpuid_functions_8000000A_1A[2].then, 5)
    BY BranchStatements DEF Whole, cpuid_functions_8000000A_1A
  <2>2. Row(cpuid_functions_8000000A_1A[2].then, 5, <<1, 2, 2, 2, 2, 1>>, 1, 1)
    BY FewLevels, PlainStatements, ScopeStatements, BranchStatements DEF Row,
       cpuid_functions_8000000A_1A
  <2> QED BY <2>1, <2>2, RowLeads
<1>3. Leads(cpuid_functions_8000000A_1A[3].then, 1, 1)
  <2>1. Whole(cpuid_functions_8000000A_1A[3].then, 4)
    BY BranchStatements DEF Whole, cpuid_functions_8000000A_1A
  <2>2. Row(cpuid_functions_8000000A_1A[3].then, 4, <<1, 2, 2, 2, 1>>, 1, 1)
    BY FewLevels, PlainStatements, ScopeStatements, BranchStatements DEF Row,
       cpuid_functions_8000000A_1A
  <2> QED BY <2>1, <2>2, RowLeads
<1>4. Whole(cpuid_functions_8000000A_1A, 3)
  BY DEF Whole, cpuid_functions_8000000A_1A
<1>5. /\ Moves(cpuid_functions_8000000A_1A[1], 1, 1)
      /\ Moves(cpuid_functions_8000000A_1A[2], 1, 1)
      /\ Moves(cpuid_functions_8000000A_1A[3], 1, 1)
  BY <1>1, <1>2, <1>3, FewLevels, PlainStatements, BranchStatements,
     FewStatements DEF cpuid_functions_8000000A_1A
<1>6. Row(cpuid_functions_8000000A_1A, 3, <<1, 1, 1, 1>>, 1, 1)
  BY <1>5, FewLevels DEF Row, cpuid_functions_8000000A_1A
<1> QED BY <1>4, <1>6, RowLeads

LEMMA msr_first_Leads == Leads(msr_first, 1, 2)
<1>1. Whole(msr_first, 16)
  BY DEF Whole, msr_first
<1>2. Row(msr_first, 16,
          <<1, 1, 1, 2, 2, 2, 2, 2, 1, 1, 2, 2, 2, 2, 2, 2, 2>>,
          1, 2)
  BY FewLevels, PlainStatements, ScopeStatements DEF Row, msr_first
<1> QED BY <1>1, <1>2, RowLeads

LEMMA msr_fixed_mtrr_Leads == Leads(msr_fixed_mtrr, 1, 1)
<1> DEFINE n == <<"64K_00000", "16K_80000", "16K_A0000", "4K_C0000", "4K_C8000",
                 "4K_D0000", "4K_D8000", "4K_E0000", "4K_E8000", "4K_F0000", "4K_F8000">>
           f == [i \in DOMAIN n |-> FixedMtrr(n[i])]
<1>1. msr_fixed_mtrr = <<Open("fixed")>> \o FlattenSeq(f) \o <<Close>>
  BY DEF msr_fixed_mtrr, Each
<1>2. DOMAIN n = 1..11
  OBVIOUS
<1> HIDE DEF n
<1>3. Whole(f, 11) /\ \A i \in 1..11 : f[i] = FixedMtrr(n[i])
  BY <1>2 DEF Whole
<1> HIDE DEF f
<1>4. Leads(FlattenSeq(f), 2, 2)
  BY <1>3, ElementsLead, FlatLeads, FewLevels
<1>5. Leads(<<Open("fixed")>>, 1, 2) /\ Leads(<<Close>>, 2, 1)
  BY FewLevels, ScopeStatements, FewStatements
<1> QED BY <1>1, <1>4, <1>5, PartsLead

LEMMA msr_variable_mtrr_Leads == Leads(msr_variable_mtrr, 1, 1)
<1>1. Whole(msr_variable_mtrr, 1)
  BY DEF Whole, msr_variable_mtrr
<1>2. Row(msr_variable_mtrr, 1, <<1, 1>>, 1, 1)
  BY FewLevels, CpuCalls DEF Row, msr_variable_mtrr
<1> QED BY <1>1, <1>2, RowLeads

LEMMA msr_variable_mtrrs_Leads ==
  ASSUME NEW n \in Nat
  PROVE  Leads(msr_variable_mtrrs(n), 1, 1)
<1>1. ASSUME NEW s1, NEW s2, NEW s3, NEW s4, NEW s5, NEW s6, Moves(s1, 1, 2),
            Moves(s2, 2, 2), Moves(s3, 2, 2), Moves(s4, 2, 2), Moves(s5, 2, 1),
            Moves(s6, 1, 1)
      PROVE  Leads(<<s1, s2, s3, s4, s5, s6>>, 1, 1)
  <2>1. Whole(<<s1, s2, s3, s4, s5, s6>>, 6)
    BY DEF Whole
  <2>2. Row(<<s1, s2, s3, s4, s5, s6>>, 6, <<1, 2, 2, 2, 2, 1, 1>>, 1, 1)
    BY <1>1, FewLevels DEF Row
  <2> QED BY <2>1, <2>2, RowLeads
<1> QED BY <1>1, FewLevels, PlainStatements, ScopeStatements, BranchStatements,
     FewStatements, RepeatLeads DEF msr_variable_mtrrs

LEMMA msr_other_Leads == Leads(msr_other, 2, 1)
<1>1. Whole(msr_other, 9)
  BY DEF Whole, msr_other
<1>2. Row(msr_other, 9, <<2, 1, 2, 2, 2, 1, 1, 1, 1, 1>>, 2, 1)
  BY FewLevels, PlainStatements, ScopeStatements DEF Row, msr_other
<1> QED BY <1>1, <1>2, RowLeads

LEMMA cpu_discovered_Leads == ASSUME NEW name PROVE Leads(cpu_discovered(name), 1, 1)
<1>1. Whole(cpu_discovered(name), 8)
  BY DEF Whole, cpu_discovered
<1>2. Row(cpu_discovered(name), 8, <<1, 2, 2, 3, 2, 3, 2, 1, 1>>, 1, 1)
  BY FewLevels, PlainStatements, ScopeStatements, ScopeCalls DEF Row,
     cpu_discovered
<1> QED BY <1>1, <1>2, RowLeads

LEMMA CPUID_SCOPE_Leads == ASSUME NEW name PROVE Leads(CPUID_SCOPE(name), 1, 2)
<1>1. ASSUME NEW s1, Moves(s1, 1, 2)
      PROVE  Leads(<<s1>>, 1, 2)
  <2>1. Whole(<<s1>>, 1)
    BY DEF Whole
  <2>2. Row(<<s1>>, 1, <<1, 2>>, 1, 2)
    BY <1>1, FewLevels DEF Row
  <2> QED BY <2>1, <2>2, RowLeads
<1>2. ASSUME NEW s1, NEW s2, NEW s3, NEW s4, NEW s5, NEW s6, NEW s7, NEW s8,
            NEW s9, NEW s10, Moves(Call(s1, 0), 2, 2), Moves(Call(s2, 0), 2,
            2), Moves(Call(s3, 0), 2, 2), Moves(Call(s4, 0), 2, 2),
            Moves(Call(s5, 0), 2, 2), Moves(Call(s6, 0), 2, 2), Moves(Call(s7,
            0), 2, 2), Moves(Call(s8, 0), 2, 2), Moves(Call(s9, 0), 2, 2),
            Moves(Call(s10, 0), 2, 2)
      PROVE  Leads(Run(<<s1, s2, s3, s4, s5, s6, s7, s8, s9, s10>>), 2, 2)
  <2>1. Whole(Run(<<s1, s2, s3, s4, s5, s6, s7, s8, s9, s10>>), 10)
    BY DEF Whole, Run
  <2>2. Row(Run(<<s1, s2, s3, s4, s5, s6, s7, s8, s9, s10>>), 10, [i \in 1..11
            |-> 2], 2, 2)
    BY <1>2, FewLevels DEF Row, Run
  <2> QED BY <2>1, <2>2, RowLeads
<1>3. ASSUME NEW s1, NEW s2, Leads(s1, 1, 2), Leads(s2, 2, 2)
      PROVE  Leads(s1 \o s2, 1, 2)
  BY <1>3, PartsLead
<1> QED BY <1>1, <1>2, <1>3, FewLevels, ScopeStatements,
     CpuCalls DEF CPUID_SCOPE

LEMMA MSR_SCOPE_Leads == ASSUME NEW name PROVE Leads(MSR_SCOPE(name), 1, 2)
<1>1. ASSUME NEW s1, Moves(s1, 1, 2)
      PROVE  Leads(<<s1>>, 1, 2)
  <2>1. Whole(<<s1>>, 1)
    BY DEF Whole
  <2>2. Row(<<s1>>, 1, <<1, 2>>, 1, 2)
    BY <1>1, FewLevels DEF Row
  <2> QED BY <2>1, <2>2, RowLeads
<1>2. ASSUME NEW s1, NEW s2, NEW s3, NEW s4, Moves(Call(s1, 0), 2, 3),
            Moves(Call(s2, 0), 3, 3), Moves(Call(s3, 0), 3, 3), Moves(Call(s4,
            0), 3, 2)
      PROVE  Leads(Run(<<s1, s2, s3, s4>>), 2, 2)
  <2>1. Whole(Run(<<s1, s2, s3, s4>>), 4)
    BY DEF Whole, Run
  <2>2. Row(Run(<<s1, s2, s3, s4>>), 4, <<2, 3, 3, 3, 2>>, 2, 2)
    BY <1>2, FewLevels DEF Row, Run
  <2> QED BY <2>1, <2>2, RowLeads
<1>3. ASSUME NEW s1, NEW s2, Leads(s1, 1, 2), Leads(s2, 2, 2)
      PROVE  Leads(s1 \o s2, 1, 2)
  BY <1>3, PartsLead
<1> QED BY <1>1, <1>2, <1>3, FewLevels, ScopeStatements, CpuCalls,
     ScopeCalls DEF MSR_SCOPE

-----------------------------------------------------------------------------
(***************************************************************************)
(* The functions of the K8 files.                                          *)
(***************************************************************************)
LEMMA k8_types_Leads == Leads(k8_types, 1, 1)
<1>1. Whole(k8_types, 1)
  BY DEF Whole, k8_types
<1>2. Row(k8_types, 1, <<1, 1>>, 1, 1)
  BY FewLevels, PlainStatements DEF Row, k8_types
<1> QED BY <1>1, <1>2, RowLeads

LEMMA k8_cpuid_Leads == Leads(k8_cpuid, 1, 1)
<1>1. Whole(k8_cpuid, 2)
  BY DEF Whole, k8_cpuid
<1>2. Row(k8_cpuid, 2, <<1, 2, 1>>, 1, 1)
  BY FewLevels, ScopeStatements, ScopeCalls DEF Row, k8_cpuid
<1> QED BY <1>1, <1>2, RowLeads

LEMMA k8_msr_Leads == Leads(k8_msr, 1, 1)
<1>1. ASSUME NEW s1, Moves(s1, 1, 2)
      PROVE  Leads(<<s1>>, 1, 2)
  <2>1. Whole(<<s1>>, 1)
    BY DEF Whole
  <2>2. Row(<<s1>>, 1, <<1, 2>>, 1, 2)
    BY <1>1, FewLevels DEF Row
  <2> QED BY <2>1, <2>2, RowLeads
<1>2. ASSUME NEW s1, NEW s2, NEW s3, NEW s4, NEW s5, NEW s6, NEW s7, NEW s8,
            NEW s9, NEW s10, NEW s11, Moves(Call(s1, 0), 2, 2), Moves(Call(s2,
            0), 2, 2), Moves(Call(s3, 0), 2, 2), Moves(Call(s4, 0), 2, 2),
            Moves(Call(s5, 0), 2, 2), Moves(Call(s6, 0), 2, 2), Moves(Call(s7,
            0), 2, 3), Moves(Call(s8, 0), 3, 3), Moves(Call(s9, 0), 3, 3),
            Moves(Call(s10, 0), 3, 3), Moves(Call(s11, 0), 3, 3)
      PROVE  Leads(Run(<<s1, s2, s3, s4, s5, s6, s7, s8, s9, s10, s11>>), 2, 3)
  <2>1. Whole(Run(<<s1, s2, s3, s4, s5, s6, s7, s8, s9, s10, s11>>), 11)
    BY DEF Whole, Run
  <2>2. Row(Run(<<s1, s2, s3, s4, s5, s6, s7, s8, s9, s10, s11>>), 11, <<2, 2,
            2, 2, 2, 2, 2, 3, 3, 3, 3, 3>>, 2, 3)
    BY <1>2, FewLevels DEF Row, Run
  <2> QED BY <2>1, <2>2, RowLeads
<1>3. ASSUME NEW s1, NEW s2, NEW s3, NEW s4, Moves(s1, 3, 4), Moves(s2, 4, 3),
            Moves(s3, 3, 2), Moves(s4, 2, 1)
      PROVE  Leads(<<s1, s2, s3, s4>>, 3, 1)
  <2>1. Whole(<<s1, s2, s3, s4>>, 4)
    BY DEF Whole
  <2>2. Row(<<s1, s2, s3, s4>>, 4, <<3, 4, 3, 2, 1>>, 3, 1)
    BY <1>3, FewLevels DEF Row
  <2> QED BY <2>1, <2>2, RowLeads
<1>4. ASSUME NEW s1, NEW s2, NEW s3, Leads(s1, 1, 2), Leads(s2, 2, 3),
            Leads(s3, 3, 1)
      PROVE  Leads(s1 \o s2 \o s3, 1, 1)
  BY <1>4, PartsLead
<1> QED BY <1>1, <1>2, <1>3, <1>4, FewLevels, ScopeStatements, K8Calls,
     ScopeCalls DEF k8_msr

LEMMA k8_msr_system_Leads == Leads(k8_msr_system, 1, 1)
<1>1. Whole(k8_msr_system, 35)
  BY DEF Whole, k8_msr_system
<1>2. /\ Moves(k8_msr_system[8], 2, 2) /\ Moves(k8_msr_system[10], 2, 2)
      /\ Moves(k8_msr_system[19], 2, 2) /\ Moves(k8_msr_system[33], 2, 2)
  BY FewLevels, PlainStatements, BranchStatements,
     FewStatements DEF k8_msr_system
<1>3. Row(k8_msr_system, 35,
          <<1, 2, 2, 2, 1, 2, 2, 2, 2, 2, 2, 1, 2, 2, 2, 2, 1, 2, 2, 2, 2,
            1, 2, 2, 2, 1, 2, 2, 2, 1, 2, 2, 2, 2, 2, 1>>,
          1, 1)
  BY <1>2, FewLevels, PlainStatements, ScopeStatements DEF Row, k8_msr_system
<1> QED BY <1>1, <1>3, RowLeads

LEMMA k8_msr_memory_Leads == Leads(k8_msr_memory, 1, 1)
<1>1. ASSUME NEW s1, NEW s2, NEW s3, NEW s4, NEW s5, NEW s6, Moves(s1, 1, 2),
            Moves(s2, 2, 2), Moves(s3, 2, 2), Moves(s4, 2, 2), Moves(s5, 2, 2),
            Moves(s6, 2, 1)
      PROVE  Leads(<<s1, s2, s3, s4, s5, s6>>, 1, 1)
  <2>1. Whole(<<s1, s2, s3, s4, s5, s6>>, 6)
    BY DEF Whole
  <2>2. Row(<<s1, s2, s3, s4, s5, s6>>, 6, <<1, 2, 2, 2, 2, 2, 1>>, 1, 1)
    BY <1>1, FewLevels DEF Row
  <2> QED BY <2>1, <2>2, RowLeads
<1>2. ASSUME NEW s1, NEW s2, NEW s3, NEW s4, NEW s5, NEW s6, NEW s7, Moves(s1,
            1, 2), Moves(s2, 2, 2), Moves(s3, 2, 2), Moves(s4, 2, 1), Moves(s5,
            1, 1), Moves(s6, 1, 1), Moves(s7, 1, 1)
      PROVE  Leads(<<s1, s2, s3, s4, s5, s6, s7>>, 1, 1)
  <2>1. Whole(<<s1, s2, s3, s4, s5, s6, s7>>, 7)
    BY DEF Whole
  <2>2. Row(<<s1, s2, s3, s4, s5, s6, s7>>, 7, <<1, 2, 2, 2, 1, 1, 1, 1>>, 1,
            1)
    BY <1>2, FewLevels DEF Row
  <2> QED BY <2>1, <2>2, RowLeads
<1>3. ASSUME NEW s1, NEW s2, NEW s3, Leads(s1, 1, 1), Leads(s2, 1, 1),
            Leads(s3, 1, 1)
      PROVE  Leads(s1 \o s2 \o s3, 1, 1)
  BY <1>3, PartsLead
<1> QED BY <1>1, <1>2, <1>3, FewLevels, PlainStatements, ScopeStatements,
     FewStatements, RepeatLeads DEF k8_msr_memory

LEMMA k8_msr_perf_ctr_Leads == Leads(k8_msr_perf_ctr, 1, 1)
<1>1. ASSUME NEW s1, NEW s2, NEW s3, NEW s4, NEW s5, NEW s6, NEW s7, NEW s8,
            NEW s9, NEW s10, Moves(s1, 1, 2), Moves(s2, 2, 2), Moves(s3, 2, 2),
            Moves(s4, 2, 2), Moves(s5, 2, 2), Moves(s6, 2, 2), Moves(s7, 2, 2),
            Moves(s8, 2, 2), Moves(s9, 2, 2), Moves(s10, 2, 1)
      PROVE  Leads(<<s1, s2, s3, s4, s5, s6, s7, s8, s9, s10>>, 1, 1)
  <2>1. Whole(<<s1, s2, s3, s4, s5, s6, s7, s8, s9, s10>>, 10)
    BY DEF Whole
  <2>2. Row(<<s1, s2, s3, s4, s5, s6, s7, s8, s9, s10>>, 10, <<1, 2, 2, 2, 2,
            2, 2, 2, 2, 2, 1>>, 1, 1)
    BY <1>1, FewLevels DEF Row
  <2> QED BY <2>1, <2>2, RowLeads
<1> QED BY <1>1, FewLevels, PlainStatements, ScopeStatements, BranchStatements,
     FewStatements, RepeatLeads DEF k8_msr_perf_ctr

LEMMA k8_msr_power_mgmt_Leads == Leads(k8_msr_power_mgmt, 1, 1)
<1>1. ASSUME NEW s1, NEW s2, NEW s3, NEW s4, NEW s5, NEW s6, NEW s7, NEW s8,
            NEW s9, NEW s10, Moves(s1, 1, 2), Moves(s2, 2, 2), Moves(s3, 2, 2),
            Moves(s4, 2, 2), Moves(s5, 2, 2), Moves(s6, 2, 2), Moves(s7, 2, 2),
            Moves(s8, 2, 2), Moves(s9, 2, 1), Moves(s10, 1, 2)
      PROVE  Leads(<<s1, s2, s3, s4, s5, s6, s7, s8, s9, s10>>, 1, 2)
  <2>1. Whole(<<s1, s2, s3, s4, s5, s6, s7, s8, s9, s10>>, 10)
    BY DEF Whole
  <2>2. Row(<<s1, s2, s3, s4, s5, s6, s7, s8, s9, s10>>, 10, <<1, 2, 2, 2, 2,
            2, 2, 2, 2, 1, 2>>, 1, 2)
    BY <1>1, FewLevels DEF Row
  <2> QED BY <2>1, <2>2, RowLeads
<1>2. ASSUME NEW s1, Moves(s1, 2, 1)
      PROVE  Leads(<<s1>>, 2, 1)
  <2>1. Whole(<<s1>>, 1)
    BY DEF Whole
  <2>2. Row(<<s1>>, 1, <<2, 1>>, 2, 1)
    BY <1>2, FewLevels DEF Row
  <2> QED BY <2>1, <2>2, RowLeads
<1>3. ASSUME NEW s1, NEW s2, NEW s3, Leads(s1, 1, 2), Leads(s2, 2, 2),
            Leads(s3, 2, 1)
      PROVE  Leads(s1 \o s2 \o s3, 1, 1)
  BY <1>3, PartsLead
<1> QED BY <1>1, <1>2, <1>3, FewLevels, PlainStatements, ScopeStatements,
     BranchStatements, FewStatements, RepeatLeads DEF k8_msr_power_mgmt

LEMMA k8_msr_io_trap_Leads == Leads(k8_msr_io_trap, 1, 1)
<1>1. ASSUME NEW s1, NEW s2, Moves(s1, 1, 2), Moves(s2, 2, 2)
      PROVE  Leads(<<s1, s2>>, 1, 2)
  <2>1. Whole(<<s1, s2>>, 2)
    BY DEF Whole
  <2>2. Row(<<s1, s2>>, 2, <<1, 2, 2>>, 1, 2)
    BY <1>1, FewLevels DEF Row
  <2> QED BY <2>1, <2>2, RowLeads
<1>2. ASSUME NEW s1, NEW s2, NEW s3, NEW s4, Moves(s1, 2, 3), Moves(s2, 3, 3),
            Moves(s3, 3, 3), Moves(s4, 3, 2)
      PROVE  Leads(<<s1, s2, s3, s4>>, 2, 2)
  <2>1. Whole(<<s1, s2, s3, s4>>, 4)
    BY DEF Whole
  <2>2. Row(<<s1, s2, s3, s4>>, 4, <<2, 3, 3, 3, 2>>, 2, 2)
    BY <1>2, FewLevels DEF Row
  <2> QED BY <2>1, <2>2, RowLeads
<1>3. ASSUME NEW s1, NEW s2, NEW s3, NEW s4, NEW s5, NEW s6, NEW s7, NEW s8,
            NEW s9, Moves(s1, 2, 2), Moves(s2, 2, 1), Moves(s3, 1, 2),
            Moves(s4, 2, 2), Moves(s5, 2, 2), Moves(s6, 2, 2), Moves(s7, 2, 2),
            Moves(s8, 2, 2), Moves(s9, 2, 1)
      PROVE  Leads(<<s1, s2, s3, s4, s5, s6, s7, s8, s9>>, 2, 1)
  <2>1. Whole(<<s1, s2, s3, s4, s5, s6, s7, s8, s9>>, 9)
    BY DEF Whole
  <2>2. Row(<<s1, s2, s3, s4, s5, s6, s7, s8, s9>>, 9, <<2, 2, 1, 2, 2, 2, 2,
            2, 2, 1>>, 2, 1)
    BY <1>3, FewLevels DEF Row
  <2> QED BY <2>1, <2>2, RowLeads
<1>4. ASSUME NEW s1, NEW s2, NEW s3, NEW s4, Leads(s1, 1, 2), Leads(s2, 2, 2),
            Leads(s3, 2, 2), Leads(s4, 2, 1)
      PROVE  Leads(s1 \o s2 \o s3 \o s4, 1, 1)
  BY <1>4, PartsLead
<1>5. Leads(FlattenSeq([i \in 1..4 |-> TrapAliases(i - 1)]), 2, 2)
  <2> DEFINE f == [i \in 1..4 |-> TrapAliases(i - 1)]
  <2>1. 4 \in Int
    OBVIOUS
  <2>2. Whole(f, 4) /\ \A i \in 1..4 : f[i] = TrapAliases(i - 1)
    BY <2>1 DEF Whole
  <2> HIDE DEF f
  <2>3. Leads(FlattenSeq(f), 2, 2)
    BY <2>1, <2>2, ElementsLead, FlatLeads, FewLevels
  <2> QED BY <2>3 DEF f
<1> QED BY <1>1, <1>2, <1>3, <1>4, <1>5, FewLevels, PlainStatements,
     ScopeStatements, BranchStatements, FewStatements,
     RepeatLeads DEF k8_msr_io_trap

LEMMA k8_msr_smm_Leads == Leads(k8_msr_smm, 1, 1)
<1>1. Leads(k8_msr_smm[9].then, 1, 1)
  <2>1. Whole(k8_msr_smm[9].then, 4)
    BY BranchStatements DEF Whole, k8_msr_smm
  <2>2. Row(k8_msr_smm[9].then, 4, <<1, 2, 2, 2, 1>>, 1, 1)
    BY FewLevels, PlainStatements, ScopeStatements, BranchStatements DEF Row,
       k8_msr_smm
  <2> QED BY <2>1, <2>2, RowLeads
<1>2. Whole(k8_msr_smm, 9)
  BY DEF Whole, k8_msr_smm
<1>3. Moves(k8_msr_smm[9], 1, 1)
  BY <1>1, FewLevels, PlainStatements, BranchStatements,
     FewStatements DEF k8_msr_smm
<1>4. Row(k8_msr_smm, 9, <<1, 2, 2, 2, 2, 2, 2, 2, 1, 1>>, 1, 1)
  BY <1>3, FewLevels, PlainStatements, ScopeStatements DEF Row, k8_msr_smm
<1> QED BY <1>2, <1>4, RowLeads

LEMMA k8_msr_mc_global_Leads == Leads(k8_msr_mc_global, 1, 2)
<1>1. Whole(k8_msr_mc_global, 5)
  BY DEF Whole, k8_msr_mc_global
<1>2. Row(k8_msr_mc_global, 5, <<1, 2, 3, 3, 3, 2>>, 1, 2)
  BY FewLevels, PlainStatements, ScopeStatements DEF Row, k8_msr_mc_global
<1> QED BY <1>1, <1>2, RowLeads

LEMMA k8_msr_data_cache_Leads == Leads(k8_msr_data_cache, 1, 1)
<1>1. ASSUME NEW s1, NEW s2, NEW s3, Moves(s1, 1, 2), Moves(s2, 2, 2),
            Moves(s3, 2, 2)
      PROVE  Leads(<<s1, s2, s3>>, 1, 2)
  <2>1. Whole(<<s1, s2, s3>>, 3)
    BY DEF Whole
  <2>2. Row(<<s1, s2, s3>>, 3, <<1, 2, 2, 2>>, 1, 2)
    BY <1>1, FewLevels DEF Row
  <2> QED BY <2>1, <2>2, RowLeads
<1>2. ASSUME NEW s1, NEW s2, Moves(s1, 2, 2), Moves(s2, 2, 1)
      PROVE  Leads(<<s1, s2>>, 2, 1)
  <2>1. Whole(<<s1, s2>>, 2)
    BY DEF Whole
  <2>2. Row(<<s1, s2>>, 2, <<2, 2, 1>>, 2, 1)
    BY <1>2, FewLevels DEF Row
  <2> QED BY <2>1, <2>2, RowLeads
<1>3. ASSUME NEW s1, NEW s2, NEW s3, NEW s4, NEW s5, Leads(s1, 1, 2), Leads(s2,
            2, 2), Leads(s3, 2, 2), Leads(s4, 2, 2), Leads(s5, 2, 1)
      PROVE  Leads(s1 \o s2 \o s3 \o s4 \o s5, 1, 1)
  BY <1>3, PartsLead
<1> QED BY <1>1, <1>2, <1>3, FewLevels, PlainStatements, ScopeStatements,
     BranchStatements, ErrorAddressLeads, ErrorCodeLeads, ErrorStatusLeads,
     FewStatements DEF k8_msr_data_cache

LEMMA k8_msr_instr_cache_Leads == Leads(k8_msr_instr_cache, 1, 1)
<1>1. ASSUME NEW s1, NEW s2, NEW s3, Moves(s1, 1, 2), Moves(s2, 2, 2),
            Moves(s3, 2, 2)
      PROVE  Leads(<<s1, s2, s3>>, 1, 2)
  <2>1. Whole(<<s1, s2, s3>>, 3)
    BY DEF Whole
  <2>2. Row(<<s1, s2, s3>>, 3, <<1, 2, 2, 2>>, 1, 2)
    BY <1>1, FewLevels DEF Row
  <2> QED BY <2>1, <2>2, RowLeads
<1>2. ASSUME NEW s1, NEW s2, Moves(s1, 2, 2), Moves(s2, 2, 1)
      PROVE  Leads(<<s1, s2>>, 2, 1)
  <2>1. Whole(<<s1, s2>>, 2)
    BY DEF Whole
  <2>2. Row(<<s1, s2>>, 2, <<2, 2, 1>>, 2, 1)
    BY <1>2, FewLevels DEF Row
  <2> QED BY <2>1, <2>2, RowLeads
<1>3. ASSUME NEW s1, NEW s2, NEW s3, NEW s4, NEW s5, Leads(s1, 1, 2), Leads(s2,
            2, 2), Leads(s3, 2, 2), Leads(s4, 2, 2), Leads(s5, 2, 1)
      PROVE  Leads(s1 \o s2 \o s3 \o s4 \o s5, 1, 1)
  BY <1>3, PartsLead
<1> QED BY <1>1, <1>2, <1>3, FewLevels, PlainStatements, ScopeStatements,
     BranchStatements, ErrorAddressLeads, ErrorCodeLeads, ErrorStatusLeads,
     FewStatements DEF k8_msr_instr_cache

LEMMA k8_msr_bus_Leads == Leads(k8_msr_bus, 1, 1)
<1>1. ASSUME NEW s1, NEW s2, NEW s3, Moves(s1, 1, 2), Moves(s2, 2, 2),
            Moves(s3, 2, 2)
      PROVE  Leads(<<s1, s2, s3>>, 1, 2)
  <2>1. Whole(<<s1, s2, s3>>, 3)
    BY DEF Whole
  <2>2. Row(<<s1, s2, s3>>, 3, <<1, 2, 2, 2>>, 1, 2)
    BY <1>1, FewLevels DEF Row
  <2> QED BY <2>1, <2>2, RowLeads
<1>2. ASSUME NEW s1, NEW s2, Moves(s1, 2, 2), Moves(s2, 2, 1)
      PROVE  Leads(<<s1, s2>>, 2, 1)
  <2>1. Whole(<<s1, s2>>, 2)
    BY DEF Whole
  <2>2. Row(<<s1, s2>>, 2, <<2, 2, 1>>, 2, 1)
    BY <1>2, FewLevels DEF Row
  <2> QED BY <2>1, <2>2, RowLeads
<1>3. ASSUME NEW s1, NEW s2, NEW s3, NEW s4, NEW s5, Leads(s1, 1, 2), Leads(s2,
            2, 2), Leads(s3, 2, 2), Leads(s4, 2, 2), Leads(s5, 2, 1)
      PROVE  Leads(s1 \o s2 \o s3 \o s4 \o s5, 1, 1)
  BY <1>3, PartsLead
<1> QED BY <1>1, <1>2, <1>3, FewLevels, PlainStatements, ScopeStatements,
     BranchStatements, ErrorAddressLeads, ErrorCodeLeads, ErrorStatusLeads,
     FewStatements DEF k8_msr_bus

LEMMA k8_msr_ls_Leads == Leads(k8_msr_ls, 1, 1)
<1>1. ASSUME NEW s1, NEW s2, NEW s3, Moves(s1, 1, 2), Moves(s2, 2, 2),
            Moves(s3, 2, 2)
      PROVE  Leads(<<s1, s2, s3>>, 1, 2)
  <2>1. Whole(<<s1, s2, s3>>, 3)
    BY DEF Whole
  <2>2. Row(<<s1, s2, s3>>, 3, <<1, 2, 2, 2>>, 1, 2)
    BY <1>1, FewLevels DEF Row
  <2> QED BY <2>1, <2>2, RowLeads
<1>2. ASSUME NEW s1, NEW s2, Moves(s1, 2, 2), Moves(s2, 2, 1)
      PROVE  Leads(<<s1, s2>>, 2, 1)
  <2>1. Whole(<<s1, s2>>, 2)
    BY DEF Whole
  <2>2. Row(<<s1, s2>>, 2, <<2, 2, 1>>, 2, 1)
    BY <1>2, FewLevels DEF Row
  <2> QED BY <2>1, <2>2, RowLeads
<1>3. ASSUME NEW s1, NEW s2, NEW s3, NEW s4, Leads(s1, 1, 2), Leads(s2, 2, 2),
            Leads(s3, 2, 2), Leads(s4, 2, 1)
      PROVE  Leads(s1 \o s2 \o s3 \o s4, 1, 1)
  BY <1>3, PartsLead
<1> QED BY <1>1, <1>2, <1>3, FewLevels, PlainStatements, ScopeStatements,
     BranchStatements, ErrorCodeLeads, ErrorStatusLeads,
     FewStatements DEF k8_msr_ls

LEMMA k8_ht_config_Leads == Leads(k8_ht_config, 1, 1)
<1>1. ASSUME NEW s1, NEW s2, NEW s3, Moves(s1, 1, 2), Moves(s2, 2, 3),
            Moves(s3, 3, 3)
      PROVE  Leads(<<s1, s2, s3>>, 1, 3)
  <2>1. Whole(<<s1, s2, s3>>, 3)
    BY DEF Whole
  <2>2. Row(<<s1, s2, s3>>, 3, <<1, 2, 3, 3>>, 1, 3)
    BY <1>1, FewLevels DEF Row
  <2> QED BY <2>1, <2>2, RowLeads
<1>2. ASSUME NEW s1, NEW s2, NEW s3, NEW s4, Moves(s1, 3, 4), Moves(s2, 4, 4),
            Moves(s3, 4, 4), Moves(s4, 4, 3)
      PROVE  Leads(<<s1, s2, s3, s4>>, 3, 3)
  <2>1. Whole(<<s1, s2, s3, s4>>, 4)
    BY DEF Whole
  <2>2. Row(<<s1, s2, s3, s4>>, 4, <<3, 4, 4, 4, 3>>, 3, 3)
    BY <1>2, FewLevels DEF Row
  <2> QED BY <2>1, <2>2, RowLeads
<1>3. ASSUME NEW s1, NEW s2, NEW s3, NEW s4, NEW s5, NEW s6, NEW s7, NEW s8,
            NEW s9, NEW s10, NEW s11, NEW s12, NEW s13, Moves(s1, 3, 2),
            Moves(s2, 2, 2), Moves(s3, 2, 2), Moves(s4, 2, 2), Moves(s5, 2, 2),
            Moves(s6, 2, 2), Moves(s7, 2, 2), Moves(s8, 2, 2), Moves(s9, 2, 2),
            Moves(s10, 2, 2), Moves(s11, 2, 2), Moves(s12, 2, 2), Moves(s13, 2,
            2)
      PROVE  Leads(<<s1, s2, s3, s4, s5, s6, s7, s8, s9, s10, s11, s12, s13>>,
              3, 2)
  <2>1. Whole(<<s1, s2, s3, s4, s5, s6, s7, s8, s9, s10, s11, s12, s13>>, 13)
    BY DEF Whole
  <2>2. Row(<<s1, s2, s3, s4, s5, s6, s7, s8, s9, s10, s11, s12, s13>>, 13,
            <<3, 2, 2, 2, 2, 2, 2, 2, 2, 2, 2, 2, 2, 2>>, 3, 2)
    BY <1>3, FewLevels DEF Row
  <2> QED BY <2>1, <2>2, RowLeads
<1>4. ASSUME NEW s1, NEW s2, NEW s3, NEW s4, NEW s5, NEW s6, NEW s7, NEW s8,
            Moves(s1, 2, 3), Moves(s2, 3, 3), Moves(s3, 3, 3), Moves(s4, 3, 3),
            Moves(s5, 3, 3), Moves(s6, 3, 3), Moves(s7, 3, 3), Moves(s8, 3, 2)
      PROVE  Leads(<<s1, s2, s3, s4, s5, s6, s7, s8>>, 2, 2)
  <2>1. Whole(<<s1, s2, s3, s4, s5, s6, s7, s8>>, 8)
    BY DEF Whole
  <2>2. Row(<<s1, s2, s3, s4, s5, s6, s7, s8>>, 8, <<2, 3, 3, 3, 3, 3, 3, 3,
            2>>, 2, 2)
    BY <1>4, FewLevels DEF Row
  <2> QED BY <2>1, <2>2, RowLeads
<1>5. ASSUME NEW s1, Moves(s1, 2, 1)
      PROVE  Leads(<<s1>>, 2, 1)
  <2>1. Whole(<<s1>>, 1)
    BY DEF Whole
  <2>2. Row(<<s1>>, 1, <<2, 1>>, 2, 1)
    BY <1>5, FewLevels DEF Row
  <2> QED BY <2>1, <2>2, RowLeads
<1>6. ASSUME NEW s1, NEW s2, NEW s3, NEW s4, NEW s5, Leads(s1, 1, 3), Leads(s2,
            3, 3), Leads(s3, 3, 2), Leads(s4, 2, 2), Leads(s5, 2, 1)
      PROVE  Leads(s1 \o s2 \o s3 \o s4 \o s5, 1, 1)
  BY <1>6, PartsLead
<1> QED BY <1>1, <1>2, <1>3, <1>4, <1>5, <1>6, FewLevels, PlainStatements,
     ScopeStatements, BranchStatements, ScopeCalls, FewStatements,
     RepeatLeads, SMTT(30) DEF k8_ht_config

LEMMA k8_address_map_Leads == Leads(k8_address_map, 1, 1)
<1>1. ASSUME NEW s1, Moves(s1, 1, 2)
      PROVE  Leads(<<s1>>, 1, 2)
  <2>1. Whole(<<s1>>, 1)
    BY DEF Whole
  <2>2. Row(<<s1>>, 1, <<1, 2>>, 1, 2)
    BY <1>1, FewLevels DEF Row
  <2> QED BY <2>1, <2>2, RowLeads
<1>2. ASSUME NEW s1, NEW s2, NEW s3, NEW s4, NEW s5, NEW s6, Moves(s1, 2, 2),
            Moves(s2, 2, 3), Moves(s3, 3, 3), Moves(s4, 3, 3), Moves(s5, 3, 2),
            Moves(s6, 2, 1)
      PROVE  Leads(<<s1, s2, s3, s4, s5, s6>>, 2, 1)
  <2>1. Whole(<<s1, s2, s3, s4, s5, s6>>, 6)
    BY DEF Whole
  <2>2. Row(<<s1, s2, s3, s4, s5, s6>>, 6, <<2, 2, 3, 3, 3, 2, 1>>, 2, 1)
    BY <1>2, FewLevels DEF Row
  <2> QED BY <2>1, <2>2, RowLeads
<1>3. ASSUME NEW s1, NEW s2, NEW s3, NEW s4, NEW s5, NEW s6, Leads(s1, 1, 2),
            Leads(s2, 2, 2), Leads(s3, 2, 2), Leads(s4, 2, 2), Leads(s5, 2, 2),
            Leads(s6, 2, 1)
      PROVE  Leads(s1 \o s2 \o s3 \o s4 \o s5 \o s6, 1, 1)
  <2>1. Leads(s1 \o s2 \o s3 \o s4 \o s5, 1, 2)
    BY <1>3, PartsLead
  <2> QED BY <1>3, <2>1, PartsLead
<1> QED BY <1>1, <1>2, <1>3, FewLevels, PlainStatements, ScopeStatements,
     BranchStatements, ScopeCalls, AddressRangeLeads,
     FewStatements DEF k8_address_map

LEMMA dram_additional_data_Leads ==
  ASSUME NEW name
  PROVE  Leads(dram_additional_data(name), 1, 1)
<1>1. ASSUME NEW s1, NEW s2, NEW s3, NEW s4, NEW s5, NEW s6, NEW s7, NEW s8,
            NEW s9, NEW s10, NEW s11, NEW s12, NEW s13, Moves(s1, 1, 2),
            Moves(s2, 2, 2), Moves(s3, 2, 2), Moves(s4, 2, 2), Moves(s5, 2, 2),
            Moves(s6, 2, 2), Moves(s7, 2, 2), Moves(s8, 2, 2), Moves(s9, 2, 2),
            Moves(s10, 2, 2), Moves(s11, 2, 2), Moves(s12, 2, 2), Moves(s13, 2,
            2)
      PROVE  Leads(<<s1, s2, s3, s4, s5, s6, s7, s8, s9, s10, s11, s12, s13>>,
              1, 2)
  <2>1. Whole(<<s1, s2, s3, s4, s5, s6, s7, s8, s9, s10, s11, s12, s13>>, 13)
    BY DEF Whole
  <2>2. Row(<<s1, s2, s3, s4, s5, s6, s7, s8, s9, s10, s11, s12, s13>>, 13,
            <<1, 2, 2, 2, 2, 2, 2, 2, 2, 2, 2, 2, 2, 2>>, 1, 2)
    BY <1>1, FewLevels DEF Row
  <2> QED BY <2>1, <2>2, RowLeads
<1>2. ASSUME NEW s1, Moves(s1, 2, 1)
      PROVE  Leads(<<s1>>, 2, 1)
  <2>1. Whole(<<s1>>, 1)
    BY DEF Whole
  <2>2. Row(<<s1>>, 1, <<2, 1>>, 2, 1)
    BY <1>2, FewLevels DEF Row
  <2> QED BY <2>1, <2>2, RowLeads
<1>3. ASSUME NEW s1, NEW s2, NEW s3, Leads(s1, 1, 2), Leads(s2, 2, 2),
            Leads(s3, 2, 1)
      PROVE  Leads(s1 \o s2 \o s3, 1, 1)
  BY <1>3, PartsLead
<1> QED BY <1>1, <1>2, <1>3, FewLevels, PlainStatements, ScopeStatements,
     FewStatements, RepeatLeads, SMTT(60) DEF dram_additional_data

LEMMA k8_dram_controller_Leads == Leads(k8_dram_controller, 1, 1)
<1>1. ASSUME NEW s1, Moves(s1, 1, 2)
      PROVE  Leads(<<s1>>, 1, 2)
  <2>1. Whole(<<s1>>, 1)
    BY DEF Whole
  <2>2. Row(<<s1>>, 1, <<1, 2>>, 1, 2)
    BY <1>1, FewLevels DEF Row
  <2> QED BY <2>1, <2>2, RowLeads
<1>2. ASSUME NEW s1, NEW s2, NEW s3, NEW s4, NEW s5, NEW s6, Moves(Call(s1, 0),
            2, 2), Moves(Call(s2, 0), 2, 2), Moves(Call(s3, 0), 2, 2),
            Moves(Call(s4, 0), 2, 2), Moves(Call(s5, 0), 2, 2), Moves(Call(s6,
            0), 2, 2)
      PROVE  Leads(Run(<<s1, s2, s3, s4, s5, s6>>), 2, 2)
  <2>1. Whole(Run(<<s1, s2, s3, s4, s5, s6>>), 6)
    BY DEF Whole, Run
  <2>2. Row(Run(<<s1, s2, s3, s4, s5, s6>>), 6, [i \in 1..7 |-> 2], 2, 2)
    BY <1>2, FewLevels DEF Row, Run
  <2> QED BY <2>1, <2>2, RowLeads
<1>3. ASSUME NEW s1, Moves(s1, 2, 1)
      PROVE  Leads(<<s1>>, 2, 1)
  <2>1. Whole(<<s1>>, 1)
    BY DEF Whole
  <2>2. Row(<<s1>>, 1, <<2, 1>>, 2, 1)
    BY <1>3, FewLevels DEF Row
  <2> QED BY <2>1, <2>2, RowLeads
<1>4. ASSUME NEW s1, NEW s2, NEW s3, Leads(s1, 1, 2), Leads(s2, 2, 2),
            Leads(s3, 2, 1)
      PROVE  Leads(s1 \o s2 \o s3, 1, 1)
  BY <1>4, PartsLead
<1> QED BY <1>1, <1>2, <1>3, <1>4, FewLevels, ScopeStatements, K8Calls,
     ScopeCalls DEF k8_dram_controller

LEMMA k8_dram_cs_Leads == Leads(k8_dram_cs, 1, 1)
<1>1. ASSUME NEW s1, NEW s2, NEW s3, NEW s4, Moves(s1, 1, 2), Moves(s2, 2, 2),
            Moves(s3, 2, 2), Moves(s4, 2, 1)
      PROVE  Leads(<<s1, s2, s3, s4>>, 1, 1)
  <2>1. Whole(<<s1, s2, s3, s4>>, 4)
    BY DEF Whole
  <2>2. Row(<<s1, s2, s3, s4>>, 4, <<1, 2, 2, 2, 1>>, 1, 1)
    BY <1>1, FewLevels DEF Row
  <2> QED BY <2>1, <2>2, RowLeads
<1>2. ASSUME NEW s1, NEW s2, Leads(s1, 1, 1), Leads(s2, 1, 1)
      PROVE  Leads(s1 \o s2, 1, 1)
  BY <1>2, PartsLead
<1> QED BY <1>1, <1>2, FewLevels, PlainStatements, ScopeStatements,
     BranchStatements, CsMaskLeads, FewStatements, RepeatLeads DEF k8_dram_cs

LEMMA k8_dram_init_Leads == Leads(k8_dram_init, 1, 1)
<1>1. Leads(k8_dram_init[1].then, 1, 1)
  <2>1. Whole(k8_dram_init[1].then, 9)
    BY BranchStatements DEF Whole, k8_dram_init
  <2>2. Row(k8_dram_init[1].then, 9, <<1, 1, 2, 2, 1, 1, 2, 2, 2, 1>>, 1, 1)
    BY FewLevels, PlainStatements, ScopeStatements, BranchStatements DEF Row,
       k8_dram_init
  <2> QED BY <2>1, <2>2, RowLeads
<1>2. Whole(k8_dram_init, 2)
  BY DEF Whole, k8_dram_init
<1>3. Moves(k8_dram_init[1], 1, 1)
  BY <1>1, FewLevels, PlainStatements, BranchStatements,
     FewStatements DEF k8_dram_init
<1>4. Row(k8_dram_init, 2, <<1, 1, 1>>, 1, 1)
  BY <1>3, FewLevels, PlainStatements DEF Row, k8_dram_init
<1> QED BY <1>2, <1>4, RowLeads

LEMMA k8_dram_timing_Leads == Leads(k8_dram_timing, 1, 1)
<1> DEFINE low  == k8_dram_timing[3]
           high == k8_dram_timing[4]
<1>1. Whole(k8_dram_timing, 5)
  BY DEF Whole, k8_dram_timing
<1>2. ASSUME NEW p, NEW q, NEW r, NEW s, Leads(p, 2, 2), Leads(q, 2, 2), Leads(r, 2, 2),
             Leads(s, 2, 2)
      PROVE  Leads(p \o q \o r \o s, 2, 2)
  BY <1>2, PartsLead
<1>3. Moves(low, 2, 2)
  BY FewLevels, PlainStatements, BranchStatements, FewStatements DEF k8_dram_timing
<1>4. Moves(high, 2, 2)
  <2> DEFINE p == <<F({"busclocks_t"}, {Up("%dram_timing_high")},
                      <<"TrwtTO", "Twtr", "Twrrd", "Twrwr", "Trdrd", "Tref",
                        "DisAutoRefresh">>)>>
             q == <<FNext({}, {Up("%dram_timing_high")}, "Trfc")>>
             r == <<T(<<"trfc_t">>)>>
             s == <<FNext({"trfc_t"}, {Up("%dram_timing_high")}, "Trfc")>>
             t == <<F({"busclocks_t"}, {Up("%dram_timing_high")},
                      <<"Twtr", "Trwt", "Tref", "Twcl">>)>>
  <2>1. Leads(p, 2, 2) /\ Leads(q, 2, 2) /\ Leads(r, 2, 2) /\ Leads(s, 2, 2)
        /\ Leads(t, 2, 2)
    BY FewLevels, PlainStatements, FewStatements
  <2>2. high = Rev(OfNode, [rev_e |-> t, rev_f |-> p \o Repeat(4, q) \o r \o Repeat(4, s)])
    BY DEF k8_dram_timing
  <2> HIDE DEF p, q, r, s, t
  <2>3. Leads(Repeat(4, q), 2, 2) /\ Leads(Repeat(4, s), 2, 2)
    <3>1. 4 \in Int
      OBVIOUS
    <3> QED BY <2>1, <3>1, FewLevels, RepeatLeads
  <2>4. Leads(p \o Repeat(4, q) \o r \o Repeat(4, s), 2, 2)
    BY <1>2, <2>1, <2>3
  <2>5. Moves(Rev(OfNode, [rev_e |-> t, rev_f |-> p \o Repeat(4, q) \o r \o Repeat(4, s)]), 2, 2)
    BY <2>1, <2>4, BranchStatements
  <2> QED BY <2>2, <2>5
<1>5. Row(k8_dram_timing, 5, <<1, 1, 2, 2, 2, 1>>, 1, 1)
  BY <1>3, <1>4, FewLevels, PlainStatements, ScopeStatements DEF Row, k8_dram_timing
<1> QED BY <1>1, <1>5, RowLeads

LEMMA DramConfigLowE_Leads == Leads(DramConfigLowE, 2, 2)
<1>1. ASSUME NEW s1, NEW s2, NEW s3, NEW s4, NEW s5, NEW s6, Moves(s1, 2, 2),
            Moves(s2, 2, 2), Moves(s3, 2, 2), Moves(s4, 2, 2), Moves(s5, 2, 2),
            Moves(s6, 2, 2)
      PROVE  Leads(<<s1, s2, s3, s4, s5, s6>>, 2, 2)
  <2>1. Whole(<<s1, s2, s3, s4, s5, s6>>, 6)
    BY DEF Whole
  <2>2. Row(<<s1, s2, s3, s4, s5, s6>>, 6, [i \in 1..7 |-> 2], 2, 2)
    BY <1>1, FewLevels DEF Row
  <2> QED BY <2>1, <2>2, RowLeads
<1>2. ASSUME NEW s1, NEW s2, NEW s3, Leads(s1, 2, 2), Leads(s2, 2, 2),
            Leads(s3, 2, 2)
      PROVE  Leads(s1 \o s2 \o s3, 2, 2)
  BY <1>2, PartsLead
<1> QED BY <1>1, <1>2, FewLevels, PlainStatements, BranchStatements,
     FewStatements, RepeatLeads DEF DramConfigLowE

LEMMA DramConfigLowF_Leads == Leads(DramConfigLowF, 2, 2)
<1>1. ASSUME NEW s1, NEW s2, NEW s3, Leads(s1, 2, 2), Leads(s2, 2, 2),
            Leads(s3, 2, 2)
      PROVE  Leads(s1 \o s2 \o s3, 2, 2)
  BY <1>1, PartsLead
<1> QED BY <1>1, FewLevels, PlainStatements, FewStatements,
     RepeatLeads DEF DramConfigLowF

LEMMA k8_dram_config_Leads == Leads(k8_dram_config, 1, 1)
<1>1. Whole(k8_dram_config, 6)
  BY DEF Whole, k8_dram_config
<1>2. ASSUME NEW p, NEW q, NEW r, Leads(p, 2, 2), Leads(q, 2, 2), Leads(r, 2, 2)
      PROVE  Leads(p \o q \o r, 2, 2)
  BY <1>2, PartsLead
<1>3. Moves(k8_dram_config[4], 2, 2)
  BY DramConfigLowE_Leads, DramConfigLowF_Leads, BranchStatements DEF k8_dram_config
<1>4. Moves(k8_dram_config[5], 2, 2)
  <2> DEFINE p == <<F({"enabledisable_t", "ns_t", "yesno_t"}, {Up("%dram_config_high")},
                      <<"AsyncLat", "RdPreamble", "MemDQDrvStren", "DisableJitter",
                        "ILD_lmt", "DCC_EN", "MemClk", "MCR">>)>>
             q == <<FNext({"enabledisable_t"}, {Up("%dram_config_high")}, "MC_EN")>>
             r == <<F({"enabledisable_t"}, {Up("%dram_config_high")},
                      <<"OddDivisorCorrect">>)>>
             s == <<F({"enabledisable_t", "ns_t", "truefalse_t", "yesno_t"},
                      {Up("%dram_config_high")},
                      <<"MemClkFreq", "MemClkFreqVal", "MaxAsyncLat", "RDqsEn",
                        "DisDramInterface", "PowerDownEn", "PowerDownMode",
                        "FourRankSODimm", "FourRankRDimm", "SlowAccessMode",
                        "BankSwizzleMode", "DcqBypassMax", "FourActWindow">>)>>
  <2>1. Leads(p, 2, 2) /\ Leads(q, 2, 2) /\ Leads(r, 2, 2) /\ Leads(s, 2, 2)
    BY FewLevels, PlainStatements, FewStatements
  <2>2. k8_dram_config[5] =
          Rev(OfNode, [rev_e |-> p \o Repeat(4, q) \o r, rev_f |-> s])
    BY DEF k8_dram_config
  <2> HIDE DEF p, q, r, s
  <2>3. Leads(Repeat(4, q), 2, 2)
    <3>1. 4 \in Int
      OBVIOUS
    <3> QED BY <2>1, <3>1, FewLevels, RepeatLeads
  <2>4. Leads(p \o Repeat(4, q) \o r, 2, 2)
    BY <1>2, <2>1, <2>3
  <2>5. Moves(Rev(OfNode, [rev_e |-> p \o Repeat(4, q) \o r, rev_f |-> s]), 2, 2)
    BY <2>1, <2>4, BranchStatements
  <2> QED BY <2>2, <2>5
<1>5. Row(k8_dram_config, 6, <<1, 1, 2, 2, 2, 2, 1>>, 1, 1)
  BY <1>3, <1>4, FewLevels, PlainStatements, ScopeStatements DEF Row, k8_dram_config
<1> QED BY <1>1, <1>5, RowLeads

LEMMA k8_bank_address_mapping_Leads == Leads(k8_bank_address_mapping, 1, 1)
<1>1. Whole(k8_bank_address_mapping, 6)
  BY DEF Whole, k8_bank_address_mapping
<1>2. /\ Moves(k8_bank_address_mapping[3], 2, 2)
      /\ Moves(k8_bank_address_mapping[5], 2, 2)
  BY FewLevels, PlainStatements, BranchStatements,
     FewStatements DEF k8_bank_address_mapping
<1>3. Row(k8_bank_address_mapping, 6, <<1, 1, 2, 2, 2, 2, 1>>, 1, 1)
  BY <1>2, FewLevels, PlainStatements, ScopeStatements DEF Row,
     k8_bank_address_mapping
<1> QED BY <1>1, <1>3, RowLeads

LEMMA k8_dram_misc_Leads == Leads(k8_dram_misc, 1, 1)
<1>1. Leads(k8_dram_misc[1].alts.rev_e, 1, 1)
  <2>1. Whole(k8_dram_misc[1].alts.rev_e, 5)
    BY BranchStatements DEF Whole, k8_dram_misc
  <2>2. Row(k8_dram_misc[1].alts.rev_e, 5, <<1, 1, 2, 2, 1, 1>>, 1, 1)
    BY FewLevels, PlainStatements, ScopeStatements, BranchStatements DEF Row,
       k8_dram_misc
  <2> QED BY <2>1, <2>2, RowLeads
<1>2. Leads(k8_dram_misc[1].alts.rev_f, 1, 1)
  <2>1. Whole(k8_dram_misc[1].alts.rev_f, 7)
    BY BranchStatements DEF Whole, k8_dram_misc
  <2>2. Row(k8_dram_misc[1].alts.rev_f, 7, <<1, 1, 1, 1, 1, 2, 2, 1>>, 1, 1)
    BY FewLevels, PlainStatements, ScopeStatements, BranchStatements,
       K8Calls DEF Row, k8_dram_misc
  <2> QED BY <2>1, <2>2, RowLeads
<1>3. Whole(k8_dram_misc, 1)
  BY DEF Whole, k8_dram_misc
<1>4. Moves(k8_dram_misc[1], 1, 1)
  BY <1>1, <1>2, FewLevels, PlainStatements, BranchStatements, K8Calls,
     FewStatements DEF k8_dram_misc
<1>5. Row(k8_dram_misc, 1, <<1, 1>>, 1, 1)
  BY <1>4, FewLevels DEF Row, k8_dram_misc
<1> QED BY <1>3, <1>5, RowLeads

LEMMA k8_misc_control_Leads == Leads(k8_misc_control, 1, 1)
<1>1. ASSUME NEW s1, Moves(s1, 1, 2)
      PROVE  Leads(<<s1>>, 1, 2)
  <2>1. Whole(<<s1>>, 1)
    BY DEF Whole
  <2>2. Row(<<s1>>, 1, <<1, 2>>, 1, 2)
    BY <1>1, FewLevels DEF Row
  <2> QED BY <2>1, <2>2, RowLeads
<1>2. ASSUME NEW s1, NEW s2, NEW s3, NEW s4, NEW s5, NEW s6, NEW s7, NEW s8,
            Moves(Call(s1, 0), 2, 3), Moves(Call(s2, 0), 3, 3), Moves(Call(s3,
            0), 3, 2), Moves(Call(s4, 0), 2, 2), Moves(Call(s5, 0), 2, 2),
            Moves(Call(s6, 0), 2, 2), Moves(Call(s7, 0), 2, 2), Moves(Call(s8,
            0), 2, 2)
      PROVE  Leads(Run(<<s1, s2, s3, s4, s5, s6, s7, s8>>), 2, 2)
  <2>1. Whole(Run(<<s1, s2, s3, s4, s5, s6, s7, s8>>), 8)
    BY DEF Whole, Run
  <2>2. Row(Run(<<s1, s2, s3, s4, s5, s6, s7, s8>>), 8, <<2, 3, 3, 2, 2, 2, 2,
            2, 2>>, 2, 2)
    BY <1>2, FewLevels DEF Row, Run
  <2> QED BY <2>1, <2>2, RowLeads
<1>3. ASSUME NEW s1, Moves(s1, 2, 1)
      PROVE  Leads(<<s1>>, 2, 1)
  <2>1. Whole(<<s1>>, 1)
    BY DEF Whole
  <2>2. Row(<<s1>>, 1, <<2, 1>>, 2, 1)
    BY <1>3, FewLevels DEF Row
  <2> QED BY <2>1, <2>2, RowLeads
<1>4. ASSUME NEW s1, NEW s2, NEW s3, Leads(s1, 1, 2), Leads(s2, 2, 2),
            Leads(s3, 2, 1)
      PROVE  Leads(s1 \o s2 \o s3, 1, 1)
  BY <1>4, PartsLead
<1> QED BY <1>1, <1>2, <1>3, <1>4, FewLevels, ScopeStatements, K8Calls,
     ScopeCalls DEF k8_misc_control

LEMMA k8_mca_config_Leads == Leads(k8_mca_config, 1, 2)
<1>1. Whole(k8_mca_config, 9)
  BY DEF Whole, k8_mca_config
<1>2. /\ Moves(k8_mca_config[5], 3, 3) /\ Moves(k8_mca_config[7], 3, 3)
      /\ Moves(k8_mca_config[8], 3, 3)
  BY FewLevels, PlainStatements, BranchStatements,
     FewStatements DEF k8_mca_config
<1>3. Row(k8_mca_config, 9, <<1, 2, 2, 3, 3, 3, 3, 3, 3, 2>>, 1, 2)
  BY <1>2, FewLevels, PlainStatements, ScopeStatements DEF Row, k8_mca_config
<1> QED BY <1>1, <1>3, RowLeads

LEMMA k8_mca_status_Leads == Leads(k8_mca_status, 1, 1)
<1>1. ASSUME NEW s1, NEW s2, NEW s3, NEW s4, NEW s5, Moves(s1, 1, 1), Moves(s2,
            1, 2), Moves(s3, 2, 2), Moves(s4, 2, 2), Moves(s5, 2, 2)
      PROVE  Leads(<<s1, s2, s3, s4, s5>>, 1, 2)
  <2>1. Whole(<<s1, s2, s3, s4, s5>>, 5)
    BY DEF Whole
  <2>2. Row(<<s1, s2, s3, s4, s5>>, 5, <<1, 1, 2, 2, 2, 2>>, 1, 2)
    BY <1>1, FewLevels DEF Row
  <2> QED BY <2>1, <2>2, RowLeads
<1>2. ASSUME NEW s1, NEW s2, NEW s3, NEW s4, Moves(s1, 2, 2), Moves(s2, 2, 2),
            Moves(s3, 2, 2), Moves(s4, 2, 1)
      PROVE  Leads(<<s1, s2, s3, s4>>, 2, 1)
  <2>1. Whole(<<s1, s2, s3, s4>>, 4)
    BY DEF Whole
  <2>2. Row(<<s1, s2, s3, s4>>, 4, <<2, 2, 2, 2, 1>>, 2, 1)
    BY <1>2, FewLevels DEF Row
  <2> QED BY <2>1, <2>2, RowLeads
<1>3. ASSUME NEW s1, NEW s2, NEW s3, NEW s4, Leads(s1, 1, 2), Leads(s2, 2, 2),
            Leads(s3, 2, 2), Leads(s4, 2, 1)
      PROVE  Leads(s1 \o s2 \o s3 \o s4, 1, 1)
  BY <1>3, PartsLead
<1> QED BY <1>1, <1>2, <1>3, FewLevels, PlainStatements, ScopeStatements,
     BranchStatements, FewStatements, RepeatLeads DEF k8_mca_status

LEMMA k8_mca_address_Leads == Leads(k8_mca_address, 2, 1)
<1>1. Leads(k8_mca_address[2].then, 2, 2)
  <2>1. Whole(k8_mca_address[2].then, 5)
    BY BranchStatements DEF Whole, k8_mca_address
  <2>2. Moves(k8_mca_address[2].then[3], 3, 3)
    BY FewLevels, PlainStatements, BranchStatements,
       FewStatements DEF k8_mca_address
  <2>3. Row(k8_mca_address[2].then, 5, <<2, 3, 3, 3, 3, 2>>, 2, 2)
    BY <2>2, FewLevels, PlainStatements, ScopeStatements,
       BranchStatements DEF Row, k8_mca_address
  <2> QED BY <2>1, <2>3, RowLeads
<1>2. Whole(k8_mca_address, 3)
  BY DEF Whole, k8_mca_address
<1>3. Moves(k8_mca_address[2], 2, 2)
  BY <1>1, FewLevels, PlainStatements, BranchStatements,
     FewStatements DEF k8_mca_address
<1>4. Row(k8_mca_address, 3, <<2, 2, 2, 1>>, 2, 1)
  BY <1>3, FewLevels, PlainStatements, ScopeStatements DEF Row, k8_mca_address
<1> QED BY <1>2, <1>4, RowLeads

LEMMA k8_scrubbers_thermal_Leads == Leads(k8_scrubbers_thermal, 1, 1)
<1>1. Leads(k8_scrubbers_thermal[8].then, 1, 1)
  <2>1. Whole(k8_scrubbers_thermal[8].then, 8)
    BY BranchStatements DEF Whole, k8_scrubbers_thermal
  <2>2. Row(k8_scrubbers_thermal[8].then, 8, <<1, 1, 2, 2, 1, 1, 2, 2, 1>>, 1, 1)
    BY FewLevels, PlainStatements, ScopeStatements, BranchStatements DEF Row,
       k8_scrubbers_thermal
  <2> QED BY <2>1, <2>2, RowLeads
<1>2. Whole(k8_scrubbers_thermal, 8)
  BY DEF Whole, k8_scrubbers_thermal
<1>3. Moves(k8_scrubbers_thermal[8], 1, 1)
  BY <1>1, FewLevels, PlainStatements, BranchStatements,
     FewStatements DEF k8_scrubbers_thermal
<1>4. Row(k8_scrubbers_thermal, 8, <<1, 2, 2, 2, 2, 2, 2, 1, 1>>, 1, 1)
  BY <1>3, FewLevels, PlainStatements, ScopeStatements DEF Row,
     k8_scrubbers_thermal
<1> QED BY <1>2, <1>4, RowLeads

LEMMA k8_buffer_counts_Leads == Leads(k8_buffer_counts, 1, 1)
<1>1. ASSUME NEW s1, Moves(s1, 1, 2)
      PROVE  Leads(<<s1>>, 1, 2)
  <2>1. Whole(<<s1>>, 1)
    BY DEF Whole
  <2>2. Row(<<s1>>, 1, <<1, 2>>, 1, 2)
    BY <1>1, FewLevels DEF Row
  <2> QED BY <2>1, <2>2, RowLeads
<1>2. ASSUME NEW s1, Moves(s1, 2, 1)
      PROVE  Leads(<<s1>>, 2, 1)
  <2>1. Whole(<<s1>>, 1)
    BY DEF Whole
  <2>2. Row(<<s1>>, 1, <<2, 1>>, 2, 1)
    BY <1>2, FewLevels DEF Row
  <2> QED BY <2>1, <2>2, RowLeads
<1>3. ASSUME NEW s1, NEW s2, NEW s3, NEW s4, NEW s5, NEW s6, Leads(s1, 1, 2),
            Leads(s2, 2, 2), Leads(s3, 2, 2), Leads(s4, 2, 2), Leads(s5, 2, 2),
            Leads(s6, 2, 1)
      PROVE  Leads(s1 \o s2 \o s3 \o s4 \o s5 \o s6, 1, 1)
  <2>1. Leads(s1 \o s2 \o s3 \o s4 \o s5, 1, 2)
    BY <1>3, PartsLead
  <2> QED BY <1>3, <2>1, PartsLead
<1> QED BY <1>1, <1>2, <1>3, FewLevels, ScopeStatements,
     InScopeLeads DEF k8_buffer_counts

LEMMA k8_power_gart_Leads == Leads(k8_power_gart, 1, 1)
<1>1. ASSUME NEW s1, Moves(s1, 1, 2)
      PROVE  Leads(<<s1>>, 1, 2)
  <2>1. Whole(<<s1>>, 1)
    BY DEF Whole
  <2>2. Row(<<s1>>, 1, <<1, 2>>, 1, 2)
    BY <1>1, FewLevels DEF Row
  <2> QED BY <2>1, <2>2, RowLeads
<1>2. ASSUME NEW s1, Moves(s1, 2, 1)
      PROVE  Leads(<<s1>>, 2, 1)
  <2>1. Whole(<<s1>>, 1)
    BY DEF Whole
  <2>2. Row(<<s1>>, 1, <<2, 1>>, 2, 1)
    BY <1>2, FewLevels DEF Row
  <2> QED BY <2>1, <2>2, RowLeads
<1>3. ASSUME NEW s1, NEW s2, NEW s3, NEW s4, NEW s5, NEW s6, NEW s7, NEW s8,
            Leads(s1, 1, 1), Leads(s2, 1, 1), Leads(s3, 1, 1), Leads(s4, 1, 2),
            Leads(s5, 2, 2), Leads(s6, 2, 2), Leads(s7, 2, 2), Leads(s8, 2, 1)
      PROVE  Leads(s1 \o s2 \o s3 \o s4 \o s5 \o s6 \o s7 \o s8, 1, 1)
  <2>1. Leads(s1 \o s2 \o s3 \o s4 \o s5, 1, 2)
    BY <1>3, PartsLead
  <2> QED BY <1>3, <2>1, PartsLead
<1> QED BY <1>1, <1>2, <1>3, FewLevels, PlainStatements, ScopeStatements,
     FewStatements, InScopeLeads, PMMLeads DEF k8_power_gart

LEMMA k8_power_timing_Leads == Leads(k8_power_timing, 1, 1)
<1>1. ASSUME NEW s1, NEW s2, NEW s3, NEW s4, NEW s5, NEW s6, NEW s7, NEW s8,
            NEW s9, NEW s10, NEW s11, Moves(s1, 1, 1), Moves(s2, 1, 1),
            Moves(s3, 1, 2), Moves(s4, 2, 2), Moves(s5, 2, 2), Moves(s6, 2, 2),
            Moves(s7, 2, 2), Moves(s8, 2, 1), Moves(s9, 1, 1), Moves(s10, 1,
            2), Moves(s11, 2, 2)
      PROVE  Leads(<<s1, s2, s3, s4, s5, s6, s7, s8, s9, s10, s11>>, 1, 2)
  <2>1. Whole(<<s1, s2, s3, s4, s5, s6, s7, s8, s9, s10, s11>>, 11)
    BY DEF Whole
  <2>2. Row(<<s1, s2, s3, s4, s5, s6, s7, s8, s9, s10, s11>>, 11, <<1, 1, 1, 2,
            2, 2, 2, 2, 1, 1, 2, 2>>, 1, 2)
    BY <1>1, FewLevels DEF Row
  <2> QED BY <2>1, <2>2, RowLeads
<1>2. ASSUME NEW s1, Moves(s1, 2, 1)
      PROVE  Leads(<<s1>>, 2, 1)
  <2>1. Whole(<<s1>>, 1)
    BY DEF Whole
  <2>2. Row(<<s1>>, 1, <<2, 1>>, 2, 1)
    BY <1>2, FewLevels DEF Row
  <2> QED BY <2>1, <2>2, RowLeads
<1>3. ASSUME NEW s1, NEW s2, Leads(s1, 1, 1), Leads(s2, 1, 1)
      PROVE  Leads(s1 \o s2, 1, 1)
  BY <1>3, PartsLead
<1>4. ASSUME NEW s1, NEW s2, NEW s3, Leads(s1, 1, 2), Leads(s2, 2, 2),
            Leads(s3, 2, 1)
      PROVE  Leads(s1 \o s2 \o s3, 1, 1)
  BY <1>4, PartsLead
<1> QED BY <1>1, <1>2, <1>3, <1>4, FewLevels, PlainStatements, ScopeStatements,
     BranchStatements, FewStatements, InScopeLeads,
     RepeatLeads DEF k8_power_timing

LEMMA k8_thermtrip_caps_Leads == Leads(k8_thermtrip_caps, 1, 1)
<1>1. Whole(k8_thermtrip_caps, 16)
  BY DEF Whole, k8_thermtrip_caps
<1>2. /\ Moves(k8_thermtrip_caps[4], 2, 2)
      /\ Moves(k8_thermtrip_caps[6], 2, 2)
      /\ Moves(k8_thermtrip_caps[7], 2, 2)
      /\ Moves(k8_thermtrip_caps[13], 2, 2)
      /\ Moves(k8_thermtrip_caps[16], 1, 1)
  BY FewLevels, PlainStatements, BranchStatements,
     FewStatements DEF k8_thermtrip_caps
<1>3. Row(k8_thermtrip_caps, 16,
          <<1, 1, 2, 2, 2, 2, 2, 2, 2, 1, 1, 2, 2, 2, 2, 1, 1>>,
          1, 1)
  BY <1>2, FewLevels, PlainStatements, ScopeStatements DEF Row,
     k8_thermtrip_caps
<1> QED BY <1>1, <1>3, RowLeads

LEMMA k8_pci_Leads == Leads(k8_pci, 1, 1)
<1>1. Whole(k8_pci, 9)
  BY DEF Whole, k8_pci
<1>2. Row(k8_pci, 9, <<1, 2, 2, 2, 2, 2, 2, 2, 2, 1>>, 1, 1)
  BY FewLevels, PlainStatements, ScopeStatements, K8Calls DEF Row, k8_pci
<1> QED BY <1>1, <1>2, RowLeads

LEMMA k8_cpu_Leads == ASSUME NEW name PROVE Leads(k8_cpu(name), 1, 1)
<1>1. Whole(k8_cpu(name), 9)
  BY DEF Whole, k8_cpu
<1>2. \A rev : Leads(K8Rev(rev), 2, 2)
  BY FewLevels, PlainStatements, FewStatements DEF K8Rev
<1>3. Moves(k8_cpu(name)[6], 2, 2)
  BY <1>2, FewLevels, BranchStatements, FewStatements DEF k8_cpu
<1>4. Row(k8_cpu(name), 9, <<1, 2, 2, 2, 2, 2, 2, 2, 1, 1>>, 1, 1)
  BY <1>3, FewLevels, PlainStatements, ScopeStatements, K8Calls DEF Row, k8_cpu
<1> QED BY <1>1, <1>4, RowLeads

-----------------------------------------------------------------------------
(***************************************************************************)
(* The statements of every function lead where a call of it does.          *)
(***************************************************************************)
LEMMA PciBodyLeads ==
  ASSUME NEW fn \in PciSections, NEW arg, Callable(fn, arg)
  PROVE  Leads(PciBody(fn, arg), From(fn), To(fn))
<1> DEFINE Told(f) == fn = f => Leads(PciBody(fn, arg), From(fn), To(fn))
<1>1. Told("BAR") /\ Told("ht_link_control") /\ Told("ht_link_config") /\
        Told("ht_link_freq_err") /\ Told("ht_link_freq_cap") /\
        Told("ht_error_handling")
  BY BAR_Leads, ht_link_control_Leads, ht_link_config_Leads,
     ht_link_freq_err_Leads, ht_link_freq_cap_Leads, ht_error_handling_Leads
     DEF PciBody, From, To, Inward, Outward
<1>2. Told("ht_slave_link") /\ Told("ht_slave_capability") /\
        Told("ht_host_link") /\ Told("ht_host_capability") /\
        Told("ht_revision_capability") /\ Told("ht_extended_config_capability")
  BY ht_slave_link_Leads, ht_slave_capability_Leads, ht_host_link_Leads,
     ht_host_capability_Leads, ht_revision_capability_Leads,
     ht_extended_config_capability_Leads DEF PciBody, From, To, Inward,
     Outward
<1>3. Told("ht_address_mapping_capability") /\ Told("ht_dma") /\
        Told("ht_msi_mapping_capability") /\ Told("power_mgmt_capability") /\
        Told("slot_id_capability") /\ Told("msi_capability")
  BY ht_address_mapping_capability_Leads, ht_dma_Leads,
     ht_msi_mapping_capability_Leads, power_mgmt_capability_Leads,
     slot_id_capability_Leads, msi_capability_Leads DEF PciBody, From, To,
     Inward, Outward, Callable, Counted
<1>4. Told("msi_vectors") /\ Told("msix_capability") /\ Told("msix_table") /\
        Told("ht_capability") /\ Told("ssid_capability") /\
        Told("pcie_capability")
  BY msi_vectors_Leads, msix_capability_Leads, msix_table_Leads,
     ht_capability_Leads, ssid_capability_Leads, pcie_capability_Leads DEF
     PciBody, From, To, Inward, Outward, Callable, Counted
<1>5. Told("pcie_device") /\ Told("pcie_link") /\ Told("pcie_slot") /\
        Told("pcie_root") /\ Told("aer_ecapability") /\
        Told("explore_capabilities")
  BY pcie_device_Leads, pcie_link_Leads, pcie_slot_Leads, pcie_root_Leads,
     aer_ecapability_Leads, explore_capabilities_Leads DEF PciBody, From,
     To, Inward, Outward
<1>6. Told("capabilities") /\ Told("next_capability") /\ Told("ecapabilities")
        /\ Told("next_ecapability") /\ Told("create_pci_bridge") /\
        Told("create_device")
  BY capabilities_Leads, next_capability_Leads, ecapabilities_Leads,
     next_ecapability_Leads, create_pci_bridge_Leads, create_device_Leads
     DEF PciBody, From, To, Inward, Outward
<1>7. Told("pci_generic_device") /\ Told("PCI_SCOPE") /\ Told("pci_discovered")
  BY pci_generic_device_Leads, PCI_SCOPE_Leads, pci_discovered_Leads DEF
     PciBody, From, To, Inward, Outward
<1> QED BY <1>1, <1>2, <1>3, <1>4, <1>5, <1>6, <1>7 DEF PciSections

LEMMA CpuBodyLeads ==
  ASSUME NEW fn \in CpuSections, NEW arg, Callable(fn, arg)
  PROVE  Leads(CpuBody(fn, arg), From(fn), To(fn))
<1> DEFINE Told(f) == fn = f => Leads(CpuBody(fn, arg), From(fn), To(fn))
<1>1. Told("cpu_discovered") /\ Told("CPUID_SCOPE") /\ Told("MSR_SCOPE") /\
        Told("cache_descriptors") /\ Told("cache_info") /\ Told("topo_info")
  BY cpu_discovered_Leads, CPUID_SCOPE_Leads, MSR_SCOPE_Leads,
     cache_descriptors_Leads, cache_info_Leads, topo_info_Leads DEF CpuBody,
     From, To, Inward, Outward
<1>2. Told("msr_variable_mtrrs") /\ Told("cpuid_functions_0_1") /\
        Told("cpuid_function_2") /\ Told("cpuid_function_4") /\
        Told("cpuid_functions_5_A") /\ Told("cpuid_function_B")
  BY msr_variable_mtrrs_Leads, cpuid_functions_0_1_Leads,
     cpuid_function_2_Leads, cpuid_function_4_Leads,
     cpuid_functions_5_A_Leads, cpuid_function_B_Leads DEF CpuBody, From,
     To, Inward, Outward, Callable, Counted
<1>3. Told("cpuid_functions_80000000_4") /\ Told("cpuid_function_80000005") /\
        Told("cpuid_function_80000006") /\ Told("cpuid_functions_80000007_8")
        /\ Told("cpuid_functions_8000000A_1A") /\ Told("msr_first")
  BY cpuid_functions_80000000_4_Leads, cpuid_function_80000005_Leads,
     cpuid_function_80000006_Leads, cpuid_functions_80000007_8_Leads,
     cpuid_functions_8000000A_1A_Leads, msr_first_Leads DEF CpuBody, From,
     To, Inward, Outward
<1>4. Told("msr_fixed_mtrr") /\ Told("msr_variable_mtrr") /\ Told("msr_other")
        /\ Told("further_queries") /\ Told("further_xeon_queries")
  BY msr_fixed_mtrr_Leads, msr_variable_mtrr_Leads, msr_other_Leads,
     further_queries_Leads DEF CpuBody, From, To, Inward, Outward, Callable,
     Counted
<1> QED BY <1>1, <1>2, <1>3, <1>4 DEF CpuSections

LEMMA K8BodyLeads ==
  ASSUME NEW fn \in K8Sections, NEW arg, Callable(fn, arg)
  PROVE  Leads(K8Body(fn, arg), From(fn), To(fn))
<1> DEFINE Told(f) == fn = f => Leads(K8Body(fn, arg), From(fn), To(fn))
<1>1. Told("k8_types") /\ Told("k8_cpuid") /\ Told("k8_msr") /\
        Told("k8_msr_system") /\ Told("k8_msr_memory") /\
        Told("k8_msr_perf_ctr")
  BY k8_types_Leads, k8_cpuid_Leads, k8_msr_Leads, k8_msr_system_Leads,
     k8_msr_memory_Leads, k8_msr_perf_ctr_Leads DEF K8Body, From, To,
     Inward, Outward
<1>2. Told("k8_msr_power_mgmt") /\ Told("k8_msr_io_trap") /\ Told("k8_msr_smm")
        /\ Told("k8_msr_mc_global") /\ Told("k8_msr_data_cache") /\
        Told("k8_msr_instr_cache")
  BY k8_msr_power_mgmt_Leads, k8_msr_io_trap_Leads, k8_msr_smm_Leads,
     k8_msr_mc_global_Leads, k8_msr_data_cache_Leads,
     k8_msr_instr_cache_Leads DEF K8Body, From, To, Inward, Outward
<1>3. Told("k8_msr_bus") /\ Told("k8_msr_ls") /\ Told("k8_ht_config") /\
        Told("k8_address_map") /\ Told("dram_additional_data") /\
        Told("k8_dram_controller")
  BY k8_msr_bus_Leads, k8_msr_ls_Leads, k8_ht_config_Leads,
     k8_address_map_Leads, dram_additional_data_Leads,
     k8_dram_controller_Leads DEF K8Body, From, To, Inward, Outward
<1>4. Told("k8_dram_cs") /\ Told("k8_dram_init") /\ Told("k8_dram_timing") /\
        Told("k8_dram_config") /\ Told("k8_bank_address_mapping") /\
        Told("k8_dram_misc")
  BY k8_dram_cs_Leads, k8_dram_init_Leads, k8_dram_timing_Leads,
     k8_dram_config_Leads, k8_bank_address_mapping_Leads, k8_dram_misc_Leads
     DEF K8Body, From, To, Inward, Outward
<1>5. Told("k8_misc_control") /\ Told("k8_mca_config") /\ Told("k8_mca_status")
        /\ Told("k8_mca_address") /\ Told("k8_scrubbers_thermal") /\
        Told("k8_buffer_counts")
  BY k8_misc_control_Leads, k8_mca_config_Leads, k8_mca_status_Leads,
     k8_mca_address_Leads, k8_scrubbers_thermal_Leads,
     k8_buffer_counts_Leads DEF K8Body, From, To, Inward, Outward
<1>6. Told("k8_power_gart") /\ Told("k8_power_timing") /\
        Told("k8_thermtrip_caps") /\ Told("k8_pci") /\ Told("k8_cpu")
  BY k8_power_gart_Leads, k8_power_timing_Leads, k8_thermtrip_caps_Leads,
     k8_pci_Leads, k8_cpu_Leads DEF K8Body, From, To, Inward, Outward
<1> QED BY <1>1, <1>2, <1>3, <1>4, <1>5, <1>6 DEF K8Sections

LEMMA BodyLeads ==
  ASSUME NEW fn, NEW arg, Callable(fn, arg)
  PROVE  Leads(Body(fn, arg), From(fn), To(fn))
<1>1. /\ PciSections \cap CpuSections = {} /\ PciSections \cap K8Sections = {}
      /\ CpuSections \cap K8Sections = {}
  BY DEF PciSections, CpuSections, K8Sections
<1>2. CASE fn \in PciSections
  BY <1>1, <1>2, PciBodyLeads DEF Body
<1>3. CASE fn \in CpuSections
  BY <1>1, <1>3, CpuBodyLeads DEF Body
<1>4. CASE fn \in K8Sections
  BY <1>1, <1>4, K8BodyLeads DEF Body
<1> QED BY <1>2, <1>3, <1>4 DEF Callable, Sections

-----------------------------------------------------------------------------
(***************************************************************************)
(* The open scopes.  Each is a record of a scope, in the scope around it   *)
(* under its name, or as an element of the array of that name.             *)
(***************************************************************************)
IsScope(x) ==
  /\ x = [kind |-> "scope", name |-> x.name, index |-> x.index, kids |-> x.kids,
          marks |-> x.marks, types |-> x.types, bound |-> x.bound]
  /\ \A n \in DOMAIN x.kids : Uniform(x.kids[n])
LinkedIn(kids, x) ==
  /\ x.name \in DOMAIN kids
  /\ IF x.index = 0 THEN kids[x.name].kind = "scope"
     ELSE /\ kids[x.name] = [kind |-> "array", type |-> "scope",
                             elems |-> kids[x.name].elems]
          /\ x.index \in DOMAIN kids[x.name].elems
Nested(fs) ==
  /\ Listed(fs) /\ Len(fs) # 0
  /\ \A k \in 1..Len(fs) : IsScope(fs[k])
  /\ \A k \in 2..Len(fs) : LinkedIn(fs[k - 1].kids, fs[k])

LEMMA ListIsSeq ==
  ASSUME NEW s, Listed(s)
  PROVE  /\ s \in Seq({s[i] : i \in 1..Len(s)}) /\ DOMAIN s = 1..Len(s)
<1>1. s = [i \in 1..Len(s) |-> s[i]] /\ Len(s) \in Nat
  BY DEF Listed
<1> QED BY <1>1

LEMMA SeqIsList == ASSUME NEW S, NEW s \in Seq(S) PROVE Listed(s) /\ DOMAIN s = 1..Len(s)
BY DEF Listed

LEMMA LongerList ==
  ASSUME NEW s, Listed(s), NEW x
  PROVE  /\ Listed(Append(s, x)) /\ Len(Append(s, x)) = Len(s) + 1
         /\ \A i \in 1..Len(s) : Append(s, x)[i] = s[i]
         /\ Append(s, x)[Len(s) + 1] = x
<1> DEFINE S == {s[i] : i \in 1..Len(s)} \cup {x}
<1>1. s \in Seq(S) /\ x \in S
  <2>1. s \in Seq({s[i] : i \in 1..Len(s)})
    BY ListIsSeq
  <2> QED BY <2>1
<1> HIDE DEF S
<1>2. Append(s, x) \in Seq(S) /\ Len(Append(s, x)) = Len(s) + 1
  BY <1>1
<1>3. Listed(Append(s, x))
  BY <1>2, SeqIsList
<1> QED BY <1>1, <1>2, <1>3

(* The last of the scopes, and what a change of it leaves.                 *)
LEMMA LastOf ==
  ASSUME NEW fs, Nested(fs)
  PROVE  Last(fs) = fs[Len(fs)] /\ Len(fs) \in 1..Len(fs) /\ Len(fs) \in Levels
BY DEF Last, Nested, Listed, Levels

Changed(fs, gs, x) ==
  /\ Listed(gs) /\ Len(gs) = Len(fs) /\ gs[Len(fs)] = x
  /\ \A k \in 1..Len(fs) : k # Len(fs) => gs[k] = fs[k]

LEMMA ChangedNests ==
  ASSUME NEW fs, Nested(fs), NEW gs, NEW x, Changed(fs, gs, x), IsScope(x),
         x.name = Last(fs).name, x.index = Last(fs).index
  PROVE  Nested(gs) /\ Len(gs) = Len(fs) /\ Last(gs) = x
<1>1. /\ Len(fs) \in Nat /\ Len(fs) # 0 /\ Last(fs) = fs[Len(fs)]
      /\ Listed(gs) /\ Len(gs) = Len(fs) /\ gs[Len(fs)] = x
      /\ \A k \in 1..Len(fs) : k # Len(fs) => gs[k] = fs[k]
  BY LastOf DEF Nested, Listed, Changed
<1>2. \A k \in 1..Len(gs) : IsScope(gs[k])
  BY <1>1 DEF Nested
<1>3. ASSUME NEW k \in 2..Len(gs) PROVE LinkedIn(gs[k - 1].kids, gs[k])
  <2>1. k - 1 \in 1..Len(fs) /\ k - 1 # Len(fs) /\ k \in 2..Len(fs) /\ k \in 1..Len(fs)
    BY <1>1
  <2>2. gs[k - 1] = fs[k - 1] /\ LinkedIn(fs[k - 1].kids, fs[k])
    BY <1>1, <2>1 DEF Nested
  <2>3. CASE k # Len(fs)
    BY <1>1, <2>1, <2>2, <2>3
  <2>4. CASE k = Len(fs)
    BY <1>1, <2>2, <2>4 DEF LinkedIn
  <2> QED BY <2>3, <2>4
<1> QED BY <1>1, <1>2, <1>3 DEF Nested, Last

LEMMA PutNests ==
  ASSUME NEW fs, Nested(fs), NEW names, NEW node, Uniform(node)
  PROVE  /\ Nested(Put(fs, names, node)) /\ Len(Put(fs, names, node)) = Len(fs)
         /\ \A n \in names : /\ n \in DOMAIN Last(Put(fs, names, node)).kids
                             /\ Last(Put(fs, names, node)).kids[n] = node
<1> DEFINE n == Len(fs)
           old == fs[n]
           kids == [m \in names \cup DOMAIN old.kids |->
                     IF m \in names THEN node ELSE old.kids[m]]
           x == [old EXCEPT !.kids = kids]
           gs == [fs EXCEPT ![n] = x]
<1>1. /\ n \in Nat /\ n # 0 /\ DOMAIN fs = 1..n /\ Last(fs) = old
  BY LastOf, ListIsSeq DEF Nested, Listed
<1>2. IsScope(old)
  BY <1>1 DEF Nested
<1>3. /\ DOMAIN kids = names \cup DOMAIN old.kids
      /\ \A m \in DOMAIN kids : kids[m] = IF m \in names THEN node ELSE old.kids[m]
  OBVIOUS
<1> HIDE DEF kids
<1>4. /\ x = [kind |-> "scope", name |-> x.name, index |-> x.index, kids |-> x.kids,
              marks |-> x.marks, types |-> x.types, bound |-> x.bound]
      /\ x.name = old.name /\ x.index = old.index /\ x.kids = kids
  BY <1>2 DEF IsScope
<1>5. IsScope(x)
  BY <1>2, <1>3, <1>4 DEF IsScope
<1> HIDE DEF x
<1>6. Changed(fs, gs, x)
  <2>1. DOMAIN gs = 1..n /\ gs = [i \in 1..n |-> gs[i]]
    BY <1>1
  <2>2. Len(gs) = n
    <3> HIDE DEF gs
    <3> QED BY <1>1, <2>1
  <2> QED BY <1>1, <2>1, <2>2 DEF Changed, Listed
<1>7. Put(fs, names, node) = gs
  BY DEF Put, kids, x
<1> HIDE DEF gs
<1>8. Nested(gs) /\ Len(gs) = Len(fs) /\ Last(gs) = x
  BY <1>1, <1>4, <1>5, <1>6, ChangedNests
<1> QED BY <1>3, <1>4, <1>7, <1>8

LEMMA AppendNests ==
  ASSUME NEW fs, Nested(fs), NEW x, IsScope(x), LinkedIn(Last(fs).kids, x)
  PROVE  Nested(Append(fs, x)) /\ Len(Append(fs, x)) = Len(fs) + 1
<1> DEFINE gs == Append(fs, x)
           n == Len(fs)
<1>1. n \in Nat /\ n # 0 /\ Last(fs) = fs[n] /\ Listed(fs)
  BY LastOf DEF Nested, Listed
<1>2. /\ Listed(gs) /\ Len(gs) = n + 1 /\ gs[n + 1] = x
      /\ \A k \in 1..n : gs[k] = fs[k]
  BY <1>1, LongerList
<1> HIDE DEF gs
<1>3. \A k \in 1..Len(gs) : IsScope(gs[k])
  <2>1. \A k \in 1..(n + 1) : k \in 1..n \/ k = n + 1
    BY <1>1
  <2> QED BY <1>2, <2>1 DEF Nested
<1>4. ASSUME NEW k \in 2..Len(gs) PROVE LinkedIn(gs[k - 1].kids, gs[k])
  <2>1. k - 1 \in 1..n /\ (k # n + 1 => k \in 1..n /\ k \in 2..n) /\ n + 1 - 1 = n
    BY <1>1, <1>2
  <2>2. CASE k = n + 1
    BY <1>1, <1>2, <2>1, <2>2
  <2>3. CASE k # n + 1
    BY <1>2, <2>1, <2>3 DEF Nested
  <2> QED BY <2>2, <2>3
<1>5. Len(gs) # 0
  BY <1>1, <1>2
<1>6. Nested(gs) /\ Len(gs) = Len(fs) + 1
  BY <1>2, <1>3, <1>4, <1>5 DEF Nested
<1> QED BY <1>6 DEF gs

(* name[]: the array of before, or a new one, and the dirent at its end.   *)
LEMMA PutNextNests ==
  ASSUME NEW fs, Nested(fs), NEW n, NEW node, Accepts(fs, n, node)
  PROVE  LET gs == PutNext(fs, n, node)
             i == Count(fs, n) + 1
         IN /\ Nested(gs) /\ Len(gs) = Len(fs) /\ i \in Nat \ {0}
            /\ n \in DOMAIN Last(gs).kids
            /\ Last(gs).kids[n] = [kind |-> "array", type |-> node.kind,
                                   elems |-> Last(gs).kids[n].elems]
            /\ i \in DOMAIN Last(gs).kids[n].elems
<1> DEFINE old == IF Has(fs, n) THEN Last(fs).kids[n].elems ELSE <<>>
           new == Append(old, node)
           a == [kind |-> "array", type |-> node.kind, elems |-> new]
<1>1. Listed(old) /\ \A i \in 1..Len(old) : old[i].kind = node.kind
  <2>1. CASE Has(fs, n)
    <3>1. IsScope(Last(fs)) /\ n \in DOMAIN Last(fs).kids
      BY <2>1, LastOf DEF Nested, Has
    <3>2. Uniform(Last(fs).kids[n]) /\ Last(fs).kids[n].kind = "array"
          /\ Last(fs).kids[n].type = node.kind
      BY <2>1, <3>1 DEF IsScope, Accepts
    <3> QED BY <2>1, <3>2, ListIsSeq DEF Uniform
  <2>2. CASE ~Has(fs, n)
    <3>1. old = <<>>
      BY <2>2
    <3>2. <<>> \in Seq({}) /\ Len(<<>>) = 0
      OBVIOUS
    <3>3. Listed(<<>>)
      BY <3>2, SeqIsList
    <3> HIDE DEF old
    <3> QED BY <3>1, <3>2, <3>3
  <2> QED BY <2>1, <2>2
<1>2. Count(fs, n) = Len(old)
  BY DEF Count
<1> HIDE DEF old
<1>3. /\ Listed(new) /\ Len(new) = Len(old) + 1 /\ new[Len(old) + 1] = node
      /\ \A i \in 1..Len(old) : new[i] = old[i]
  BY <1>1, LongerList
<1> HIDE DEF new
<1>4. Len(old) \in Nat /\ DOMAIN new = 1..(Len(old) + 1)
  BY <1>1, <1>3, ListIsSeq DEF Listed
<1>5. \A i \in DOMAIN new : new[i].kind = node.kind
  <2>1. \A i \in DOMAIN new : i \in 1..Len(old) \/ i = Len(old) + 1
    BY <1>4
  <2> QED BY <1>1, <1>3, <2>1
<1>6. Uniform(a)
  BY <1>3, <1>5 DEF Uniform
<1>7. PutNext(fs, n, node) = Put(fs, {n}, a)
  BY DEF PutNext, new, old
<1>8. Len(old) + 1 \in DOMAIN new /\ Len(old) + 1 \in Nat \ {0}
  BY <1>4
<1> DEFINE gs == Put(fs, {n}, a)
<1>9. /\ Nested(gs) /\ Len(gs) = Len(fs) /\ n \in DOMAIN Last(gs).kids
      /\ Last(gs).kids[n] = a
  BY <1>6, PutNests
<1> HIDE DEF gs
<1>10. gs = PutNext(fs, n, node)
  BY <1>7 DEF gs
<1> QED BY <1>2, <1>8, <1>9, <1>10

(* BOOKMARK and the types are added to the current scope.                  *)
LEMMA MarkNests ==
  ASSUME NEW fs, Nested(fs), NEW m, NEW t
  PROVE  LET gs == [fs EXCEPT ![Len(fs)].marks = m]
             hs == [fs EXCEPT ![Len(fs)].types = t]
         IN Nested(gs) /\ Len(gs) = Len(fs) /\ Nested(hs) /\ Len(hs) = Len(fs)
<1> DEFINE n == Len(fs)
           old == fs[n]
           x == [old EXCEPT !.marks = m]
           y == [old EXCEPT !.types = t]
<1>1. /\ n \in Nat /\ n # 0 /\ n \in 1..n /\ DOMAIN fs = 1..n /\ Last(fs) = old
  BY LastOf, ListIsSeq DEF Nested, Listed
<1>2. IsScope(old)
  BY <1>1 DEF Nested
<1>3. /\ IsScope(x) /\ x.name = old.name /\ x.index = old.index
      /\ IsScope(y) /\ y.name = old.name /\ y.index = old.index
  BY <1>2 DEF IsScope
<1> HIDE DEF x, y
<1>4. ASSUME NEW z PROVE Changed(fs, [fs EXCEPT ![n] = z], z)
  <2> DEFINE gs == [fs EXCEPT ![n] = z]
  <2>1. DOMAIN gs = 1..n /\ gs = [i \in 1..n |-> gs[i]]
    BY <1>1
  <2>2. Len(gs) = n
    <3> HIDE DEF gs
    <3> QED BY <1>1, <2>1
  <2> QED BY <1>1, <2>1, <2>2 DEF Changed, Listed
<1>5. ASSUME NEW gs, NEW z, gs = [fs EXCEPT ![n] = z], IsScope(z), z.name = old.name,
             z.index = old.index
      PROVE  Nested(gs) /\ Len(gs) = n
  <2>1. Changed(fs, gs, z)
    BY <1>4, <1>5
  <2> QED BY <1>1, <1>5, <2>1, ChangedNests
<1>6. /\ [fs EXCEPT ![Len(fs)].marks = m] = [fs EXCEPT ![n] = x]
      /\ [fs EXCEPT ![Len(fs)].types = t] = [fs EXCEPT ![n] = y]
  BY DEF x, y
<1> QED BY <1>3, <1>5, <1>6

(* A scope that is left takes its place in the scope around it.            *)
LEMMA FrontNests ==
  ASSUME NEW fs, Nested(fs), Len(fs) # 1
  PROVE  LET up == Front(fs)
         IN /\ Nested(up) /\ Len(up) = Len(fs) - 1
            /\ IsScope(Last(fs)) /\ LinkedIn(Last(up).kids, Last(fs))
<1> DEFINE n == Len(fs)
           up == Front(fs)
           S == {fs[i] : i \in 1..n}
<1>1. n \in Nat /\ n # 0 /\ n - 1 \in Nat /\ n - 1 # 0 /\ Last(fs) = fs[n]
  <2>1. n \in Nat /\ n # 0 /\ n # 1
    BY DEF Nested, Listed
  <2>2. Last(fs) = fs[n]
    BY LastOf
  <2> HIDE DEF n
  <2> QED BY <2>1, <2>2
<1>2. /\ up \in Seq(S) /\ Len(up) = n - 1
      /\ \A k \in 1..(n - 1) : up[k] = fs[k]
  <2>1. fs \in Seq(S)
    BY ListIsSeq DEF Nested
  <2> HIDE DEF S
  <2>2. up = SubSeq(fs, 1, n - 1)
    BY DEF Front
  <2>3. /\ SubSeq(fs, 1, n - 1) \in Seq(S) /\ Len(SubSeq(fs, 1, n - 1)) = n - 1
        /\ \A k \in 1..(n - 1) : SubSeq(fs, 1, n - 1)[k] = fs[k]
    <3>1. /\ 1 \in Int /\ n - 1 \in Int /\ 1 <= n - 1 /\ n - 1 - 1 + 1 = n - 1
          /\ \A i \in 1..(n - 1) : i \in 1..n /\ 1 + i - 1 = i
      <4> HIDE DEF n
      <4> QED BY <1>1
    <3>2. \A i \in 1..(n - 1) : fs[i] \in S
      BY <3>1 DEF S
    <3>3. /\ SubSeq(fs, 1, n - 1) \in Seq(S)
          /\ Len(SubSeq(fs, 1, n - 1)) = IF 1 <= n - 1 THEN n - 1 - 1 + 1 ELSE 0
          /\ \A i \in 1..(n - 1 - 1 + 1) : SubSeq(fs, 1, n - 1)[i] = fs[1 + i - 1]
      <4> HIDE DEF n
      <4> QED BY <3>1, <3>2, SubSeqProperties
    <3> HIDE DEF n
    <3> QED BY <3>1, <3>3
  <2> QED BY <2>2, <2>3
<1> HIDE DEF S
<1> HIDE DEF up
<1>3. Listed(up)
  BY <1>2, SeqIsList
<1>4. Nested(up)
  <2>1. \A k \in 1..(n - 1) : k \in 1..n
    BY <1>1
  <2>2. \A k \in 2..(n - 1) : k \in 2..n /\ k \in 1..(n - 1) /\ k - 1 \in 1..(n - 1)
    BY <1>1
  <2> QED BY <1>1, <1>2, <1>3, <2>1, <2>2 DEF Nested
<1>5. Last(up) = fs[n - 1] /\ n \in 2..n /\ n \in 1..n
  <2>1. n - 1 \in 1..(n - 1) /\ n \in 2..n /\ n \in 1..n
    <3> HIDE DEF n
    <3> QED BY <1>1
  <2> QED BY <1>2, <1>4, <2>1, LastOf
<1>6. IsScope(Last(fs)) /\ LinkedIn(Last(up).kids, Last(fs))
  BY <1>1, <1>5 DEF Nested
<1> QED BY <1>2, <1>4, <1>6 DEF up

LEMMA LeaveNests ==
  ASSUME NEW fs, Nested(fs)
  PROVE  /\ Nested(Leave(fs))
         /\ Len(Leave(fs)) = IF Len(fs) = 1 THEN 1 ELSE Len(fs) - 1
<1>1. CASE Len(fs) = 1
  BY <1>1 DEF Leave
<1>2. CASE Len(fs) # 1
  <2> DEFINE up == Front(fs)
             top == Last(fs)
             n == Len(up)
  <2>1. /\ Nested(up) /\ n = Len(fs) - 1 /\ IsScope(top) /\ LinkedIn(Last(up).kids, top)
    BY <1>2, FrontNests
  <2>2. top.kind = "scope"
    BY <2>1 DEF IsScope
  <2>3. CASE top.index = 0
    <3>1. Uniform(top)
      BY <2>2 DEF Uniform
    <3>2. Leave(fs) = Put(up, {top.name}, top)
      BY <1>2, <2>3 DEF Leave
    <3> HIDE DEF up, top
    <3> QED BY <1>2, <2>1, <3>1, <3>2, PutNests
  <2>4. CASE top.index # 0
    <3> DEFINE old == up[n]
               a == old.kids[top.name]
               elems == [a.elems EXCEPT ![top.index] = top]
               b == [a EXCEPT !.elems = elems]
               kids == [old.kids EXCEPT ![top.name] = b]
               x == [old EXCEPT !.kids = kids]
               gs == [up EXCEPT ![n] = x]
    <3>1. Leave(fs) = gs
      BY <1>2, <2>4 DEF Leave
    <3>2. /\ n \in Nat /\ n # 0 /\ n \in 1..n /\ DOMAIN up = 1..n /\ Last(up) = old
          /\ IsScope(old)
      <4> HIDE DEF up
      <4> QED BY <2>1, LastOf, ListIsSeq DEF Nested, Listed
    <3>3. /\ top.name \in DOMAIN old.kids /\ top.index \in DOMAIN a.elems
          /\ a = [kind |-> "array", type |-> "scope", elems |-> a.elems]
      BY <2>1, <2>4, <3>2 DEF LinkedIn
    <3> HIDE DEF up, top, n, old
    <3>4. Uniform(a)
      BY <3>2, <3>3 DEF IsScope
    <3>5. /\ Listed(a.elems) /\ DOMAIN a.elems = 1..Len(a.elems)
          /\ \A i \in DOMAIN a.elems : a.elems[i].kind = "scope"
      <4>1. a.kind = "array" /\ a.type = "scope"
        BY <3>3
      <4> HIDE DEF a
      <4> QED BY <3>4, <4>1, ListIsSeq DEF Uniform
    <3> HIDE DEF a
    <3>6. Listed(elems) /\ \A i \in DOMAIN elems : elems[i].kind = "scope"
      <4> DEFINE m == Len(a.elems)
      <4>1. m \in Nat /\ DOMAIN elems = 1..m /\ elems = [i \in 1..m |-> elems[i]]
        BY <3>5 DEF Listed
      <4>2. \A i \in DOMAIN elems : elems[i] = IF i = top.index THEN top ELSE a.elems[i]
        OBVIOUS
      <4>3. DOMAIN elems = DOMAIN a.elems
        OBVIOUS
      <4> HIDE DEF elems, m
      <4>4. Len(elems) = m
        BY <4>1
      <4> QED BY <2>2, <3>5, <4>1, <4>2, <4>3, <4>4 DEF Listed
    <3> HIDE DEF elems
    <3>7. Uniform(b)
      <4>1. b = [kind |-> "array", type |-> "scope", elems |-> elems]
        BY <3>3
      <4> HIDE DEF b
      <4> QED BY <3>6, <4>1 DEF Uniform
    <3> HIDE DEF b
    <3>8. \A i \in DOMAIN kids : Uniform(kids[i])
      BY <3>2, <3>7 DEF IsScope
    <3> HIDE DEF kids
    <3>9. /\ x = [kind |-> "scope", name |-> x.name, index |-> x.index, kids |-> x.kids,
                  marks |-> x.marks, types |-> x.types, bound |-> x.bound]
          /\ x.name = old.name /\ x.index = old.index /\ x.kids = kids
      BY <3>2 DEF IsScope
    <3>10. IsScope(x)
      BY <3>8, <3>9 DEF IsScope
    <3> HIDE DEF x
    <3>11. Changed(up, gs, x)
      <4>1. DOMAIN gs = 1..n /\ gs = [i \in 1..n |-> gs[i]] /\ gs[n] = x
            /\ \A k \in 1..n : k # n => gs[k] = up[k]
        BY <3>2
      <4> HIDE DEF gs
      <4>2. Len(gs) = n
        BY <3>2, <4>1
      <4>3. n = Len(up)
        BY DEF n
      <4> QED BY <3>2, <4>1, <4>2, <4>3 DEF Changed, Listed
    <3> HIDE DEF gs
    <3>12. Nested(gs) /\ Len(gs) = Len(up)
      <4>1. Nested(up)
        BY <2>1 
      <4> QED BY <3>2, <3>9, <3>10, <3>11, <4>1, ChangedNests
    <3> QED BY <1>2, <2>1, <3>1, <3>12 DEF n
  <2> QED BY <2>3, <2>4
<1> QED BY <1>1, <1>2

-----------------------------------------------------------------------------
(***************************************************************************)
(* The callback: what is still to be run closes every scope but the root.  *)
(***************************************************************************)
Shape ==
  /\ count \in 0..MaxStatements
  /\ todo # <<>> => err = ""
  /\ Nested(frames)
(* The inductive invariant.                                                *)
IInv == Shape /\ (err = "" => Leads(todo, Len(frames), 1))

(* It implies the type invariant.                                          *)
LEMMA ShapeTyped == Shape => TypeOK
<1> SUFFICES ASSUME Shape PROVE TypeOK
  OBVIOUS
<1>1. /\ DOMAIN frames = 1..Len(frames) /\ Len(frames) \in Nat
      /\ \A k \in 1..Len(frames) : IsScope(frames[k])
      /\ \A k \in 2..Len(frames) : LinkedIn(frames[k - 1].kids, frames[k])
  BY ListIsSeq DEF Shape, Nested, Listed
<1>2. ASSUME NEW k \in DOMAIN frames
      PROVE  /\ frames[k].kind = "scope"
             /\ \A n \in DOMAIN frames[k].kids : Uniform(frames[k].kids[n])
  BY <1>1, <1>2 DEF IsScope
<1>3. ASSUME NEW k \in DOMAIN frames, k > 1
      PROVE  LET up == frames[k - 1].kids
             IN /\ frames[k].name \in DOMAIN up
                /\ IF frames[k].index = 0
                   THEN up[frames[k].name].kind = "scope"
                   ELSE frames[k].index \in DOMAIN up[frames[k].name].elems
  <2>1. k \in 2..Len(frames)
    BY <1>1, <1>3
  <2> QED BY <1>1, <2>1 DEF LinkedIn
<1> QED BY <1>2, <1>3 DEF Shape, TypeOK

(* The next statement, and what is said of the rest.                       *)
LEMMA NextStatement ==
  ASSUME IInv, NEW op, Now(op)
  PROVE  /\ count' \in 0..MaxStatements /\ err = "" /\ todo # <<>> /\ This.op = op
         /\ Nested(frames) /\ Len(frames) \in Levels
         /\ \E m \in Levels : /\ Moves(This, Len(frames), m)
                              /\ Leads(Tail(todo), m, 1)
<1>1. count' \in 0..MaxStatements
  <2>1. count \in 0..MaxStatements
    BY DEF IInv, Shape
  <2>2. count < MaxStatements /\ count' = count + 1
    BY DEF Now
  <2> QED BY <2>1, <2>2, StatementsAssumption
<1>2. err = "" /\ todo # <<>> /\ This.op = op /\ Nested(frames)
  BY DEF Now, IInv, Shape, This
<1>3. Leads(todo, Len(frames), 1)
  BY <1>2 DEF IInv
<1> QED BY <1>1, <1>2, <1>3, FirstMoves, LeadsFromTo DEF This

(* What ends a statement: the next one, its own statements, an error.      *)
LEMMA GoKeeps ==
  ASSUME IInv, NEW op, Now(op), Go, Nested(frames'), Leads(Tail(todo), Len(frames'), 1)
  PROVE  IInv'
BY NextStatement DEF Go, IInv, Shape

LEMMA IntoKeeps ==
  ASSUME IInv, NEW op, Now(op), NEW body, Into(body), NEW m,
         Leads(body, Len(frames), m), Leads(Tail(todo), m, 1)
  PROVE  IInv'
<1>1. Leads(body \o Tail(todo), Len(frames), 1)
  BY LeadsOn
<1> QED BY <1>1, NextStatement DEF Into, IInv, Shape

LEMMA FailKeeps ==
  ASSUME IInv, NEW op, Now(op), NEW e, Fail(e), e # ""
  PROVE  IInv'
BY NextStatement DEF Fail, IInv, Shape

LEMMA PlainStatement ==
  ASSUME IInv, NEW op \in Plain, Now(op)
  PROVE  Leads(Tail(todo), Len(frames), 1) /\ Nested(frames)
<1>1. PICK m \in Levels : Moves(This, Len(frames), m) /\ Leads(Tail(todo), m, 1)
  BY NextStatement
<1>2. This.op = op /\ Nested(frames)
  BY NextStatement
<1>3. m = Len(frames)
  BY <1>1, <1>2, MovesBy
<1> QED BY <1>1, <1>2, <1>3

LEMMA DefineKeeps ==
  ASSUME IInv, NEW op \in Plain, Now(op), NEW names, NEW next, NEW node,
         node.kind # "array", Define(names, next, node)
  PROVE  IInv'
<1>1. CASE ~next
  <2>1. frames' = Put(frames, names, node) /\ Go
    BY <1>1 DEF Define
  <2>2. Nested(frames') /\ Len(frames') = Len(frames)
    BY <2>1, PlainStatement, PutNests DEF Uniform
  <2> QED BY <2>1, <2>2, PlainStatement, GoKeeps
<1>2. CASE next
  <2>1. PICK n : IF Accepts(frames, n, node)
                 THEN frames' = PutNext(frames, n, node) /\ Go
                 ELSE Fail("ConversionError")
    BY <1>2 DEF Define
  <2>2. CASE ~Accepts(frames, n, node)
    BY <2>1, <2>2, FailKeeps
  <2>3. CASE Accepts(frames, n, node)
    <3> DEFINE gs == PutNext(frames, n, node)
    <3>1. frames' = gs /\ Go
      BY <2>1, <2>3
    <3>2. Nested(gs) /\ Len(gs) = Len(frames)
      BY <2>3, PlainStatement, PutNextNests
    <3> HIDE DEF gs
    <3> QED BY <3>1, <3>2, PlainStatement, GoKeeps
  <2> QED BY <2>2, <2>3
<1> QED BY <1>1, <1>2

LEMMA NodesAdded ==
  /\ \A w : Register(w).kind = "register"
  /\ \A k, v, b : Field(k, v, b).kind = "field"
  /\ \A p : AliasTo(p).kind = "alias"
BY DEF Register, Field, AliasTo

(* OPEN_SCOPE and CLOSE_SCOPE.                                             *)
LEMMA OpenedNests ==
  ASSUME NEW fs, Nested(fs), NEW x, x.kind = "scope", x.index = 0, Uniform(x),
         NEW gs, gs = Put(fs, {x.name}, x)
  PROVE  Nested(gs) /\ Len(gs) = Len(fs) /\ LinkedIn(Last(gs).kids, x)
<1> DEFINE n == x.name
           names == {n}
<1>1. gs = Put(fs, names, x) /\ n \in names /\ n = x.name
  OBVIOUS
<1> HIDE DEF n, names
<1>2. /\ Nested(Put(fs, names, x)) /\ Len(Put(fs, names, x)) = Len(fs)
      /\ n \in DOMAIN Last(Put(fs, names, x)).kids
      /\ Last(Put(fs, names, x)).kids[n] = x
  BY <1>1, PutNests
<1> QED BY <1>1, <1>2 DEF LinkedIn

LEMMA OpenKeeps == ASSUME IInv, OpenScope PROVE IInv'
<1> DEFINE s == This
           i == IF s.next THEN Count(frames, s.name) + 1 ELSE 0
           scope == NewScope(s.name, i, s.bound)
           base == IF s.next THEN PutNext(frames, s.name, scope)
                   ELSE Put(frames, {s.name}, scope)
<1>1. Now("open")
  BY DEF OpenScope
<1>2. /\ IsScope(scope) /\ Uniform(scope) /\ scope.kind = "scope"
      /\ scope.name = s.name /\ scope.index = i
  <2> HIDE DEF i, s
  <2>1. DOMAIN <<>> = {}
    OBVIOUS
  <2>2. /\ scope.kind = "scope" /\ scope.name = s.name /\ scope.index = i
        /\ scope.kids = <<>>
    BY DEF NewScope
  <2>3. scope = [kind |-> "scope", name |-> scope.name, index |-> scope.index,
                 kids |-> scope.kids, marks |-> scope.marks, types |-> scope.types,
                 bound |-> scope.bound]
    BY DEF NewScope
  <2> HIDE DEF scope
  <2> QED BY <2>1, <2>2, <2>3 DEF IsScope, Uniform
<1>3. Nested(frames)
  BY <1>1, NextStatement
<1>4. CASE s.next /\ ~Accepts(frames, s.name, scope)
  <2>1. Fail("ConversionError")
    BY <1>4 DEF OpenScope
  <2> QED BY <1>1, <2>1, FailKeeps
<1>5. CASE ~(s.next /\ ~Accepts(frames, s.name, scope))
  <2>1. frames' = Append(base, scope) /\ Go
    BY <1>5 DEF OpenScope, Opened
  <2>2. Nested(base) /\ Len(base) = Len(frames) /\ LinkedIn(Last(base).kids, scope)
    <3>1. CASE s.next
      <4>1. Accepts(frames, s.name, scope) /\ base = PutNext(frames, s.name, scope)
            /\ scope.index = Count(frames, s.name) + 1
        BY <1>2, <1>5, <3>1
      <4> HIDE DEF base, scope, s
      <4> QED BY <1>2, <1>3, <4>1, PutNextNests DEF LinkedIn
    <3>2. CASE ~s.next
      <4>1. base = Put(frames, {s.name}, scope) /\ scope.index = 0
        BY <1>2, <3>2
      <4> HIDE DEF base, scope, s
      <4>2. s.name = scope.name
        BY <1>2
      <4>3. base = Put(frames, {scope.name}, scope)
        BY <4>1, <4>2
      <4> HIDE DEF i
      <4> QED BY <1>2, <1>3, <4>1, <4>3, OpenedNests
    <3> QED BY <3>1, <3>2
  <2> HIDE DEF base, scope, s
  <2>3. Nested(frames') /\ Len(frames') = Len(frames) + 1
    BY <1>2, <2>1, <2>2, AppendNests
  <2>4. Leads(Tail(todo), Len(frames) + 1, 1)
    <3>1. PICK m \in Levels : Moves(This, Len(frames), m) /\ Leads(Tail(todo), m, 1)
      BY <1>1, NextStatement
    <3>2. This.op = "open"
      BY <1>1, NextStatement
    <3> QED BY <3>1, <3>2, MovesBy
  <2> QED BY <1>1, <2>1, <2>3, <2>4, GoKeeps
<1> QED BY <1>4, <1>5

LEMMA CloseKeeps == ASSUME IInv, CloseScope PROVE IInv'
<1>1. Now("close") /\ frames' = Leave(frames) /\ Go
  BY DEF CloseScope
<1>2. PICK m \in Levels : Len(frames) = m + 1 /\ Leads(Tail(todo), m, 1)
  <2>1. PICK m \in Levels : Moves(This, Len(frames), m) /\ Leads(Tail(todo), m, 1)
    BY <1>1, NextStatement
  <2>2. This.op = "close"
    BY <1>1, NextStatement
  <2> QED BY <2>1, <2>2, MovesBy
<1>3. Len(frames) # 1 /\ Len(frames) - 1 = m
  BY <1>2 DEF Levels
<1>4. Nested(frames') /\ Len(frames') = m
  BY <1>1, <1>3, NextStatement, LeaveNests
<1> QED BY <1>1, <1>2, <1>4, GoKeeps

(* The statements that add or look up dirents.                             *)
LEMMA PlainOps ==
  /\ "bookmark" \in Plain /\ "type" \in Plain /\ "reg" \in Plain /\ "field" \in Plain
  /\ "bit" \in Plain /\ "alias" \in Plain /\ "read" \in Plain /\ "readby" \in Plain
BY DEF Plain

LEMMA MarksKeep == ASSUME IInv, AddBookmark \/ AddDatatypes PROVE IInv'
<1>1. ASSUME AddBookmark PROVE IInv'
  <2>1. PICK m : Now("bookmark") /\ Go /\ frames' = [frames EXCEPT ![Len(frames)].marks = m]
    BY <1>1 DEF AddBookmark
  <2>2. Nested(frames') /\ Len(frames') = Len(frames)
    BY <2>1, NextStatement, MarkNests
  <2> QED BY <2>1, <2>2, PlainOps, PlainStatement, GoKeeps
<1>2. ASSUME AddDatatypes PROVE IInv'
  <2>1. PICK m : Now("type") /\ Go /\ frames' = [frames EXCEPT ![Len(frames)].types = m]
    BY <1>2 DEF AddDatatypes
  <2>2. Nested(frames') /\ Len(frames') = Len(frames)
    BY <2>1, NextStatement, MarkNests
  <2> QED BY <2>1, <2>2, PlainOps, PlainStatement, GoKeeps
<1> QED BY <1>1, <1>2

LEMMA RegistersKeep == ASSUME IInv, AddRegisters PROVE IInv'
<1>1. Now("reg")
  BY DEF AddRegisters
<1>2. CASE HasBinding(frames)
  <2>1. Define(This.names, This.next, Register(This.width))
    BY <1>2 DEF AddRegisters
  <2>2. Register(This.width).kind # "array"
    BY NodesAdded
  <2> QED BY <1>1, <2>1, <2>2, PlainOps, DefineKeeps
<1>3. CASE ~HasBinding(frames)
  <2>1. Fail("no binding")
    BY <1>3 DEF AddRegisters
  <2> QED BY <1>1, <2>1, FailKeeps
<1> QED BY <1>2, <1>3

LEMMA FieldsKeep == ASSUME IInv, AddFields PROVE IInv'
<1> DEFINE errors == RegErrors(frames, This.regs)
           missing == \E t \in This.types : ~HasType(frames, t)
           node == Field(This.keys, IF This.from = "" THEN This.val ELSE Hw(This.from),
                         This.regs # {})
<1>1. /\ Now("field")
      /\ IF errors # {} THEN Fail(CHOOSE e \in errors : TRUE)
         ELSE IF missing THEN Fail("NULL datatype")
         ELSE Define(This.names, This.next, node)
  BY DEF AddFields
<1>2. "" \notin errors
  BY DEF RegErrors
<1>3. node.kind # "array"
  BY NodesAdded
<1> HIDE DEF errors, missing, node
<1>4. CASE errors # {}
  <2>1. PICK e \in errors : Fail(e)
    BY <1>1, <1>4
  <2>2. e # ""
    BY <1>2, <2>1
  <2> QED BY <1>1, <2>1, <2>2, FailKeeps
<1>5. CASE errors = {} /\ missing
  BY <1>1, <1>5, FailKeeps
<1>6. CASE errors = {} /\ ~missing
  <2>1. Define(This.names, This.next, node)
    BY <1>1, <1>6
  <2> QED BY <1>1, <1>3, <2>1, PlainOps, DefineKeeps
<1> QED BY <1>4, <1>5, <1>6

LEMMA BitKeeps == ASSUME IInv, TakeBit PROVE IInv'
<1> DEFINE r == GetKind(frames, This.reg, "register")
<1>1. /\ Now("bit")
      /\ IF r.err # "" THEN Fail(r.err)
         ELSE IF This.bit >= r.node.width THEN Fail("range_error")
         ELSE UNCHANGED <<frames, redefined>> /\ Go
  BY DEF TakeBit, With
<1> HIDE DEF r
<1>2. ASSUME Go, frames' = frames PROVE IInv'
  BY <1>1, <1>2, PlainOps, PlainStatement, GoKeeps
<1>3. \A e : Fail(e) /\ e # "" => IInv'
  BY <1>1, FailKeeps
<1> QED BY <1>1, <1>2, <1>3

LEMMA LinkKeeps ==
  ASSUME IInv, Now("alias"), NEW name, NEW r, Link(name, r)
  PROVE  IInv'
<1>1. CASE r.err # ""
  <2>1. Fail(r.err)
    BY <1>1 DEF Link
  <2> QED BY <1>1, <2>1, FailKeeps
<1>2. CASE r.err = ""
  <2> DEFINE names == {name}
  <2>1. Define(names, This.next, AliasTo(r.at))
    BY <1>2 DEF Link
  <2>2. AliasTo(r.at).kind # "array"
    BY NodesAdded
  <2> HIDE DEF names
  <2> QED BY <2>1, <2>2, PlainOps, DefineKeeps
<1> QED BY <1>1, <1>2

(* What a statement does with a name that a value has.                     *)
LEMMA AliasesKeep == ASSUME IInv, AddAlias \/ AddNamedAlias PROVE IInv'
<1>1. ASSUME AddAlias PROVE IInv'
  <2>1. Now("alias") /\ Link(This.name, GetDirent(frames, This.to))
    BY <1>1 DEF AddAlias
  <2> QED BY <2>1, LinkKeeps
<1>2. ASSUME AddNamedAlias PROVE IInv'
  <2> DEFINE r == FieldAt(This.label)
             labels == Labels(r.node)
             path == This.name \o (CHOOSE k \in labels : TRUE)
             found == GetDirent(frames, This.to)
  <2>1. /\ Now("alias")
        /\ IF r.err # "" THEN Fail(r.err)
           ELSE IF labels = {} THEN Fail("InvalidError")
           ELSE Link(path, found)
    BY <1>2 DEF AddNamedAlias, With, Named
  <2> HIDE DEF r, labels, path, found
  <2>2. \A e : Fail(e) /\ e # "" => IInv'
    BY <2>1, FailKeeps
  <2>3. ASSUME Link(path, found) PROVE IInv'
    BY <2>1, <2>3, LinkKeeps
  <2> QED BY <2>1, <2>2, <2>3
<1> QED BY <1>1, <1>2

(* A condition has an answer, or an error that is not the absence of one.  *)
LEMMA AskAnswers == \A fs, c, hw : Ask(fs, c, hw) # ""
<1>1. \A t : Answer(t) # ""
  BY DEF Answer
<1>2. \A n, c, t : ByKeys(n, c, t) # ""
  BY <1>1 DEF ByKeys
<1>3. \A e : IfFound(e) # ""
  BY DEF IfFound
<1>4. ASSUME NEW node, NEW c PROVE Compare(node, c) # ""
  <2>1. CASE c.is = "eq"
    BY <1>1, <2>1 DEF Compare
  <2>2. CASE c.is = "key"
    BY <1>2, <2>2 DEF Compare
  <2>3. CASE c.is = "testkey"
    BY <1>2, <2>3 DEF Compare
  <2>4. CASE c.is = "ge"
    BY <1>1, <2>4 DEF Compare
  <2>5. CASE c.is \notin {"eq", "key", "testkey", "ge"}
    BY <1>1, <2>5 DEF Compare
  <2> QED BY <2>1, <2>2, <2>3, <2>4, <2>5
<1>5. \A r, c : Tested(r, c) # ""
  BY <1>4 DEF Tested
<1> QED BY <1>1, <1>3, <1>5 DEF Ask

(* Conditions and cases run one of their sequences.                        *)
LEMMA IfStatement ==
  ASSUME IInv, Now("if")
  PROVE  \E m \in Levels : /\ Leads(This.then, Len(frames), m)
                           /\ Leads(This.else, Len(frames), m)
                           /\ Leads(Tail(todo), m, 1)
<1>1. PICK m \in Levels : Moves(This, Len(frames), m) /\ Leads(Tail(todo), m, 1)
  BY NextStatement
<1>2. This.op = "if"
  BY NextStatement
<1>3. Leads(This.then, Len(frames), m) /\ Leads(This.else, Len(frames), m)
  BY <1>1, <1>2, MovesBy
<1> QED BY <1>1, <1>3

LEMMA BranchKeeps == ASSUME IInv, Branch PROVE IInv'
<1> DEFINE a == Ask(frames, This.cond, dev.hw)
<1>1. /\ Now("if")
      /\ CASE a = "TRUE"  -> Into(This.then)
           [] a = "FALSE" -> Into(This.else)
           [] OTHER       -> Fail(a)
  BY DEF Branch
<1>2. a # ""
  BY AskAnswers
<1> HIDE DEF a
<1>3. PICK m \in Levels : /\ Leads(This.then, Len(frames), m)
                          /\ Leads(This.else, Len(frames), m)
                          /\ Leads(Tail(todo), m, 1)
  BY <1>1, IfStatement
<1>4. CASE a = "TRUE"
  <2>1. Into(This.then)
    BY <1>1, <1>4
  <2> QED BY <1>1, <1>3, <2>1, IntoKeeps
<1>5. CASE a = "FALSE"
  <2>1. Into(This.else)
    BY <1>1, <1>5
  <2> QED BY <1>1, <1>3, <2>1, IntoKeeps
<1>6. CASE a # "TRUE" /\ a # "FALSE"
  <2>1. Fail(a)
    BY <1>1, <1>6
  <2> QED BY <1>1, <1>2, <2>1, FailKeeps
<1> QED BY <1>4, <1>5, <1>6

LEMMA BranchAgainKeeps == ASSUME IInv, BranchAgain PROVE IInv'
<1> DEFINE c    == This.cond
           both == If(c.b, This.then, This.else)
           body == {If(c.a, <<both>>, This.else), If(c.a, This.then, <<both>>),
                    If(c.a, This.else, This.then)}
<1>1. Now("if") /\ \E s \in body : Into(<<s>>)
  BY DEF BranchAgain
<1>2. PICK m \in Levels : /\ Leads(This.then, Len(frames), m)
                          /\ Leads(This.else, Len(frames), m)
                          /\ Leads(Tail(todo), m, 1)
  BY <1>1, IfStatement
<1>3. Leads(<<both>>, Len(frames), m)
  <2>1. Moves(both, Len(frames), m)
    BY <1>2, BranchStatements
  <2> HIDE DEF both
  <2> QED BY <2>1, FewStatements
<1>4. \A s \in body : Moves(s, Len(frames), m)
  <2> HIDE DEF both
  <2> QED BY <1>2, <1>3, BranchStatements
<1> HIDE DEF body
<1>5. PICK s \in body : Into(<<s>>)
  BY <1>1
<1>6. Leads(<<s>>, Len(frames), m)
  BY <1>4, FewStatements
<1> QED BY <1>1, <1>2, <1>5, <1>6, IntoKeeps

LEMMA SwitchKeeps == ASSUME IInv, Switch PROVE IInv'
<1> DEFINE r    == FieldAt(This.path)
           hit  == DOMAIN This.alts \cap Labels(r.node)
           body == IF hit = {} THEN This.else ELSE This.alts[CHOOSE k \in hit : TRUE]
<1>1. /\ Now("case")
      /\ IF r.err # "" THEN Fail(r.err)
         ELSE IF ~(DOMAIN This.alts \subseteq DOMAIN r.node.keys)
              THEN Fail("Datatype::InvalidError")
              ELSE Into(body)
  BY DEF Switch, With
<1>2. PICK m \in Levels : Moves(This, Len(frames), m) /\ Leads(Tail(todo), m, 1)
  BY <1>1, NextStatement
<1>3. This.op = "case"
  BY <1>1, NextStatement
<1>4. Leads(body, Len(frames), m)
  <2>1. /\ Leads(This.else, Len(frames), m)
        /\ \A k \in DOMAIN This.alts : Leads(This.alts[k], Len(frames), m)
    BY <1>2, <1>3, MovesBy
  <2>2. hit \subseteq DOMAIN This.alts
    OBVIOUS
  <2> HIDE DEF hit
  <2> QED BY <2>1, <2>2
<1> HIDE DEF r, body
<1>5. \A e : Fail(e) /\ e # "" => IInv'
  BY <1>1, FailKeeps
<1>6. ASSUME Into(body) PROVE IInv'
  BY <1>1, <1>2, <1>4, <1>6, IntoKeeps
<1> QED BY <1>1, <1>5, <1>6

(* A function runs with the scopes of its caller below its own.            *)
LEMMA CallKeeps == ASSUME IInv, CallFunction PROVE IInv'
<1> DEFINE fn == This.fn
           body == Body(fn, This.arg)
           k == Len(frames) - From(fn)
<1>1. Now("call") /\ Into(body)
  BY DEF CallFunction
<1>2. PICK m \in Levels : Moves(This, Len(frames), m) /\ Leads(Tail(todo), m, 1)
  BY <1>1, NextStatement
<1>3. This.op = "call"
  BY <1>1, NextStatement
<1>4. Callable(fn, This.arg) /\ Calls(fn, Len(frames), m) /\ Len(frames) \in Levels
  BY <1>2, <1>3, MovesBy
<1>5. Leads(body, From(fn), To(fn))
  BY <1>4, BodyLeads
<1> HIDE DEF body, fn
<1>6. k \in Nat /\ From(fn) + k = Len(frames) /\ To(fn) + k = m
  <2>1. From(fn) \in Nat /\ To(fn) \in Nat /\ Len(frames) \in Nat
    BY <1>4 DEF From, To, Levels
  <2> QED BY <1>4, <2>1 DEF Calls
<1> HIDE DEF k
<1>7. Leads(body, From(fn) + k, To(fn) + k)
  BY <1>5, <1>6, LeadsWithin
<1>8. Leads(body, Len(frames), m)
  BY <1>6, <1>7
<1> QED BY <1>1, <1>2, <1>8, IntoKeeps

LEMMA ReadsKeep == ASSUME IInv, ReadValue \/ ReadDirent \/ ReadNamed PROVE IInv'
<1>1. ASSUME ReadValue PROVE IInv'
  <2> DEFINE r == FieldAt(This.path)
             body == <<Call(This.fn, r.node.val)>>
  <2>1. /\ Now("callwith")
        /\ IF r.err # "" THEN Fail(r.err)
           ELSE IF r.node.val \in Nat THEN Into(body) ELSE Fail("not modelled")
    BY <1>1 DEF ReadValue, With
  <2>2. PICK m \in Levels : Moves(This, Len(frames), m) /\ Leads(Tail(todo), m, 1)
    BY <2>1, NextStatement
  <2>3. This.op = "callwith"
    BY <2>1, NextStatement
  <2>4. /\ \A v \in Nat : Callable(This.fn, v)
        /\ Calls(This.fn, Len(frames), m) /\ Len(frames) \in Levels
    BY <2>2, <2>3, MovesBy
  <2> HIDE DEF r
  <2>5. ASSUME r.node.val \in Nat PROVE Leads(body, Len(frames), m)
    <3>1. Moves(Call(This.fn, r.node.val), Len(frames), m)
      BY <2>2, <2>4, <2>5, CallStatements
    <3> QED BY <3>1, FewStatements
  <2> HIDE DEF body
  <2>6. \A e : Fail(e) /\ e # "" => IInv'
    BY <2>1, FailKeeps
  <2>7. ASSUME r.node.val \in Nat, Into(body) PROVE IInv'
    BY <2>1, <2>2, <2>5, <2>7, IntoKeeps
  <2> QED BY <2>1, <2>6, <2>7
<1>2. ASSUME ReadDirent PROVE IInv'
  <2> DEFINE r == OfKind(GetDirent(frames, This.path), {"field", "register"})
             body == <<>>
  <2>1. Now("read") /\ IF r.err # "" THEN Fail(r.err) ELSE Into(body)
    BY <1>2 DEF ReadDirent, With
  <2>2. Leads(Tail(todo), Len(frames), 1) /\ Len(frames) \in Levels
    BY <2>1, PlainOps, PlainStatement, LeadsFromTo
  <2>3. Leads(body, Len(frames), Len(frames))
    BY <2>2, NothingLeads
  <2> HIDE DEF r, body
  <2>4. \A e : Fail(e) /\ e # "" => IInv'
    BY <2>1, FailKeeps
  <2>5. ASSUME Into(body) PROVE IInv'
    BY <2>1, <2>2, <2>3, <2>5, IntoKeeps
  <2> QED BY <2>1, <2>4, <2>5
<1>3. ASSUME ReadNamed PROVE IInv'
  <2> DEFINE r == FieldAt(This.label)
             labels == Labels(r.node)
             body == <<Read(This.path \o <<CHOOSE k \in labels : TRUE>> \o This.tail)>>
  <2>1. /\ Now("readby")
        /\ IF r.err # "" THEN Fail(r.err)
           ELSE IF labels = {} THEN Fail("InvalidError")
           ELSE Into(body)
    BY <1>3 DEF ReadNamed, With, Named
  <2>2. Leads(Tail(todo), Len(frames), 1) /\ Len(frames) \in Levels
    BY <2>1, PlainOps, PlainStatement, LeadsFromTo
  <2>3. Leads(body, Len(frames), Len(frames))
    <3> HIDE DEF labels, r
    <3> QED BY <2>2, PlainStatements, FewStatements
  <2> HIDE DEF r, labels, body
  <2>4. \A e : Fail(e) /\ e # "" => IInv'
    BY <2>1, FailKeeps
  <2>5. ASSUME Into(body) PROVE IInv'
    BY <2>1, <2>2, <2>3, <2>5, IntoKeeps
  <2> QED BY <2>1, <2>4, <2>5
<1> QED BY <1>1, <1>2, <1>3

(* The invariant holds at first and is kept by every step.                 *)
LEMMA InitKeeps == Init => IInv
<1> SUFFICES ASSUME Init PROVE IInv
  OBVIOUS
<1> DEFINE root == Root(dev.tree)
<1>1. dev \in Devices /\ frames = <<root>> /\ todo = <<Call(dev.code, dev.arg)>>
      /\ err = "" /\ count = 0
  BY DEF Init
<1>2. IsScope(root)
  <2>1. root = [kind |-> "scope", name |-> "", index |-> 0, kids |-> dev.tree,
                marks |-> {}, types |-> RootTypes, bound |-> FALSE]
    <3> DEFINE scope == NewScope("", 0, FALSE)
               tree == dev.tree
    <3>1. scope = [kind |-> "scope", name |-> "", index |-> 0, kids |-> <<>>,
                   marks |-> {}, types |-> {}, bound |-> FALSE]
      BY DEF NewScope
    <3>2. root = [scope EXCEPT !.types = RootTypes, !.kids = tree]
      BY DEF Root
    <3> HIDE DEF root, scope, tree
    <3>3. root = [kind |-> "scope", name |-> "", index |-> 0, kids |-> tree,
                  marks |-> {}, types |-> RootTypes, bound |-> FALSE]
      BY <3>1, <3>2
    <3> QED BY <3>3 DEF tree
  <2>2. \A n \in DOMAIN dev.tree : Uniform(dev.tree[n])
    BY <1>1, DevicesAssumption
  <2> HIDE DEF root
  <2> QED BY <2>1, <2>2 DEF IsScope
<1> HIDE DEF root
<1>3. Nested(frames) /\ Len(frames) = 1
  <2>1. frames \in Seq({root}) /\ Len(frames) = 1 /\ frames[1] = root
    <3>1. \A x, s : s = <<x>> => s \in Seq({x}) /\ Len(s) = 1 /\ s[1] = x
      OBVIOUS
    <3> QED BY <1>1, <3>1
  <2>2. Listed(frames)
    BY <2>1, SeqIsList
  <2>3. \A k \in 1..1 : k = 1
    OBVIOUS
  <2> QED BY <1>2, <2>1, <2>2, <2>3 DEF Nested
<1>4. Leads(todo, 1, 1)
  <2>1. dev.code \in {"pci_discovered", "cpu_discovered", "k8_cpu", "k8_pci"}
    BY <1>1, DevicesAssumption
  <2>2. Callable(dev.code, dev.arg) /\ From(dev.code) = 1 /\ To(dev.code) = 1
    BY <2>1 DEF Callable, From, To, Sections, Counted, Inward, Outward,
                PciSections, CpuSections, K8Sections
  <2>3. Calls(dev.code, 1, 1)
    BY <2>2 DEF Calls
  <2>4. Moves(Call(dev.code, dev.arg), 1, 1)
    BY <2>2, <2>3, FewLevels, CallStatements
  <2> QED BY <1>1, <2>4, FewStatements
<1>5. count \in 0..MaxStatements
  <2>1. 0 \in 0..MaxStatements
    BY StatementsAssumption
  <2> QED BY <1>1, <2>1
<1> QED BY <1>1, <1>3, <1>4, <1>5 DEF IInv, Shape

LEMMA StepKeeps == IInv /\ [Next]_vars => IInv'
<1> SUFFICES ASSUME IInv, [Next]_vars PROVE IInv'
  OBVIOUS
<1>1. CASE OpenScope
  BY <1>1, OpenKeeps
<1>2. CASE CloseScope
  BY <1>2, CloseKeeps
<1>3. CASE AddBookmark \/ AddDatatypes
  BY <1>3, MarksKeep
<1>4. CASE AddRegisters
  BY <1>4, RegistersKeep
<1>5. CASE AddFields
  BY <1>5, FieldsKeep
<1>6. CASE TakeBit
  BY <1>6, BitKeeps
<1>7. CASE AddAlias \/ AddNamedAlias
  BY <1>7, AliasesKeep
<1>8. CASE Branch
  BY <1>8, BranchKeeps
<1>9. CASE BranchAgain
  BY <1>9, BranchAgainKeeps
<1>10. CASE Switch
  BY <1>10, SwitchKeeps
<1>11. CASE CallFunction
  BY <1>11, CallKeeps
<1>12. CASE ReadValue \/ ReadDirent \/ ReadNamed
  BY <1>12, ReadsKeep
<1>13. CASE Ended \/ UNCHANGED vars
  BY <1>13 DEF Ended, vars, IInv, Shape
<1> QED BY <1>1, <1>2, <1>3, <1>4, <1>5, <1>6, <1>7, <1>8, <1>9, <1>10, <1>11,
           <1>12, <1>13 DEF Next

LEMMA Always == Spec => []IInv
BY InitKeeps, StepKeeps, PTL DEF Spec

(* Whatever the device answers, and wherever an error ends the callback:   *)
(* every open scope is in the scope around it under its name, so that what *)
(* is added to it is part of the tree, and an array has dirents of one     *)
(* kind.                                                                   *)
THEOREM DeviceScanTypeCorrect == Spec => []TypeOK
<1>1. IInv => TypeOK
  BY ShapeTyped DEF IInv
<1> QED BY <1>1, Always, PTL

(* A callback of the device files that returns has closed every scope that *)
(* it has opened, on each way through them that the device may choose.     *)
THEOREM CallbacksLeaveClean == Spec => []LeavesClean
<1>1. IInv => LeavesClean
  BY LeadsFromTo DEF IInv, LeavesClean, Done
<1> QED BY <1>1, Always, PTL
===============================================================================
