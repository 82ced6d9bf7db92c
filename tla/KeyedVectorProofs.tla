-------------------------- MODULE KeyedVectorProofs --------------------------
(***************************************************************************)
(* The KeyedVector keeps its three structures in step, for any set of keys *)
(* and values and any sequence of calls, and implements OrderedMap.        *)
(***************************************************************************)
EXTENDS KeyedVector, SequenceTheorems, TLAPS

(* What removing the element at an index leaves, index for index. *)
LEMMA RemoveAtProperties ==
  ASSUME NEW S, NEW s \in Seq(S), NEW i \in 1..Len(s)
  PROVE  /\ RemoveAt(s, i) \in Seq(S)
         /\ Len(RemoveAt(s, i)) = Len(s) - 1
         /\ \A j \in 1..(Len(s) - 1) :
              RemoveAt(s, i)[j] = IF j < i THEN s[j] ELSE s[j + 1]
<1> DEFINE f == SubSeq(s, 1, i - 1)
           b == SubSeq(s, i + 1, Len(s))
<1>1. Len(s) \in Nat /\ \A j \in 1..Len(s) : s[j] \in S
  BY LenProperties, ElementOfSeq
<1>2. /\ f \in Seq(S) /\ Len(f) = i - 1
      /\ \A j \in 1..(i - 1) : f[j] = s[j]
  BY <1>1, SubSeqProperties
<1>3. /\ b \in Seq(S) /\ Len(b) = Len(s) - i
      /\ \A j \in 1..(Len(s) - i) : b[j] = s[i + j]
  <2>1. \A j \in (i + 1)..Len(s) : s[j] \in S
    BY <1>1
  <2>2. /\ b \in Seq(S)
        /\ Len(b) = IF i + 1 <= Len(s) THEN Len(s) - (i + 1) + 1 ELSE 0
        /\ \A j \in 1..(Len(s) - (i + 1) + 1) : b[j] = s[i + 1 + j - 1]
    BY <1>1, <2>1, SubSeqProperties
  <2>3. QED BY <1>1, <2>2
<1>4. /\ f \o b \in Seq(S)
      /\ Len(f \o b) = Len(f) + Len(b)
      /\ \A j \in 1..(Len(f) + Len(b)) :
           (f \o b)[j] = IF j <= Len(f) THEN f[j] ELSE b[j - Len(f)]
  BY <1>2, <1>3, ConcatProperties
<1>5. RemoveAt(s, i) = f \o b
  BY DEF RemoveAt
<1> HIDE DEF f, b
<1>6. ASSUME NEW j \in 1..(Len(s) - 1)
      PROVE  RemoveAt(s, i)[j] = IF j < i THEN s[j] ELSE s[j + 1]
  <2>1. CASE j < i
    BY <1>1, <1>2, <1>3, <1>4, <1>5, <2>1
  <2>2. CASE ~(j < i)
    <3>1. j - Len(f) \in 1..(Len(s) - i) /\ i + (j - Len(f)) = j + 1
      BY <1>1, <1>2, <2>2
    <3>2. (f \o b)[j] = b[j - Len(f)]
      BY <1>1, <1>2, <1>3, <1>4, <2>2
    <3>3. QED BY <1>3, <1>5, <3>1, <3>2, <2>2
  <2>3. QED BY <2>1, <2>2
<1>7. RemoveAt(s, i) \in Seq(S) /\ Len(RemoveAt(s, i)) = Len(s) - 1
  <2>1. Len(f \o b) = Len(s) - 1
    BY <1>1, <1>2, <1>3, <1>4
  <2>2. QED BY <1>4, <1>5, <2>1
<1>8. QED BY <1>6, <1>7

(* The map of a container in step has one index per key. *)
LEMMA KeysAreUnique ==
  ASSUME NEW c, IsContainer(c), InStep(c),
         NEW i \in 1..Len(c.m_keyptrs), NEW j \in 1..Len(c.m_keyptrs),
         c.m_keyptrs[i] = c.m_keyptrs[j]
  PROVE  i = j
<1>1. /\ c.m_keys[c.m_keyptrs[i]] = i - 1
      /\ c.m_keys[c.m_keyptrs[j]] = j - 1
  BY DEF InStep
<1> QED BY <1>1

(* The index the map holds for a key is a position of the vectors. *)
LEMMA IndexInBounds ==
  ASSUME NEW c, IsContainer(c), InStep(c), NEW k, Has(c, k)
  PROVE  /\ size(c) \in Nat
         /\ c.m_keys[k] \in 0..(size(c) - 1)
         /\ c.m_keyptrs[c.m_keys[k] + 1] = k
<1>1. PICK i \in 1..Len(c.m_keyptrs) : c.m_keyptrs[i] = k
  BY DEF InStep, Has
<1>2. c.m_keys[k] = i - 1
  BY <1>1 DEF InStep
<1>3. Len(c.m_keyptrs) \in Nat /\ size(c) = Len(c.m_keyptrs)
  BY DEF InStep, IsContainer, size
<1>4. QED BY <1>1, <1>2, <1>3

(* The first and the last key of a non-empty container have an index. *)
LEMMA EndsHaveKeys ==
  ASSUME NEW c, IsContainer(c), InStep(c), size(c) > 0
  PROVE  /\ c.m_keys[Head(c.m_keyptrs)] \in 0..(size(c) - 1)
         /\ c.m_keys[Last(c.m_keyptrs)] \in 0..(size(c) - 1)
<1>1. size(c) \in Nat /\ size(c) = Len(c.m_keyptrs)
  BY DEF IsContainer, InStep, size
<1>2. ASSUME NEW i \in 1..Len(c.m_keyptrs)
      PROVE  c.m_keys[c.m_keyptrs[i]] \in 0..(size(c) - 1)
  <2>1. Has(c, c.m_keyptrs[i])
    BY DEF InStep, Has
  <2>2. QED BY <2>1, IndexInBounds
<1>3. Len(c.m_keyptrs) \in 1..Len(c.m_keyptrs) /\ 1 \in 1..Len(c.m_keyptrs)
  BY <1>1
<1>4. Head(c.m_keyptrs) = c.m_keyptrs[1]
  BY <1>3 DEF IsContainer
<1>5. QED BY <1>2, <1>3, <1>4 DEF Last

LEMMA EmptyInStep == IsContainer(Empty) /\ InStep(Empty)
BY EmptySeq DEF IsContainer, InStep, Empty

(* What inserting an absent key does to each structure. *)
LEMMA InsertNewInStep ==
  ASSUME NEW c, IsContainer(c), InStep(c), NEW k \in Key, NEW v \in Val,
         ~Has(c, k)
  PROVE  /\ IsContainer(InsertNew(c, k, v))
         /\ InStep(InsertNew(c, k, v))
<1> DEFINE d == InsertNew(c, k, v)
<1>1. /\ c.m_values \in Seq(Val) /\ c.m_keyptrs \in Seq(Key)
      /\ Len(c.m_values) \in Nat /\ Len(c.m_keyptrs) = Len(c.m_values)
  BY DEF IsContainer, InStep
<1>2. /\ DOMAIN d.m_keys = DOMAIN c.m_keys \cup {k}
      /\ \A x \in DOMAIN d.m_keys :
           d.m_keys[x] = IF x = k THEN Len(c.m_values) ELSE c.m_keys[x]
      /\ d.m_values = Append(c.m_values, v)
      /\ d.m_keyptrs = Append(c.m_keyptrs, k)
  BY DEF InsertNew, size
<1>3. IsContainer(d)
  BY <1>1 DEF IsContainer, InsertNew, size
<1>4. /\ Len(d.m_keyptrs) = Len(c.m_keyptrs) + 1
      /\ Len(d.m_values) = Len(c.m_values) + 1
      /\ d.m_keyptrs[Len(c.m_keyptrs) + 1] = k
      /\ \A i \in 1..Len(c.m_keyptrs) : d.m_keyptrs[i] = c.m_keyptrs[i]
  BY <1>1, <1>2
<1> HIDE DEF d
<1>5. ASSUME NEW i \in 1..Len(d.m_keyptrs)
      PROVE  /\ d.m_keyptrs[i] \in DOMAIN d.m_keys
             /\ d.m_keys[d.m_keyptrs[i]] = i - 1
  <2>1. CASE i = Len(c.m_keyptrs) + 1
    BY <1>1, <1>2, <1>4, <2>1
  <2>2. CASE i \in 1..Len(c.m_keyptrs)
    <3>1. /\ d.m_keyptrs[i] = c.m_keyptrs[i]
          /\ c.m_keyptrs[i] \in DOMAIN c.m_keys
          /\ c.m_keys[c.m_keyptrs[i]] = i - 1
          /\ c.m_keyptrs[i] # k
      BY <1>4, <2>2 DEF InStep, Has
    <3>2. QED BY <1>2, <3>1
  <2>3. QED BY <1>1, <1>4, <2>1, <2>2
<1>6. ASSUME NEW x \in DOMAIN d.m_keys
      PROVE  \E i \in 1..Len(d.m_keyptrs) : d.m_keyptrs[i] = x
  <2>1. CASE x = k
    BY <1>1, <1>4, <2>1
  <2>2. CASE x # k
    <3>1. PICK i \in 1..Len(c.m_keyptrs) : c.m_keyptrs[i] = x
      BY <1>2, <2>2 DEF InStep
    <3>2. QED BY <1>1, <1>4, <3>1
  <2>3. QED BY <2>1, <2>2
<1>7. InStep(d)
  BY <1>1, <1>4, <1>5, <1>6 DEF InStep
<1>8. QED BY <1>3, <1>7 DEF d

(* Overwriting a value touches neither the keys nor their indices. *)
LEMMA InsertOldInStep ==
  ASSUME NEW c, IsContainer(c), InStep(c), NEW k \in Key, NEW v \in Val,
         Has(c, k)
  PROVE  /\ IsContainer(InsertOld(c, k, v))
         /\ InStep(InsertOld(c, k, v))
<1> DEFINE d == InsertOld(c, k, v)
<1>1. /\ c.m_values \in Seq(Val) /\ Len(c.m_values) \in Nat
      /\ c.m_keys[k] + 1 \in 1..Len(c.m_values)
  <2>1. size(c) \in Nat /\ c.m_keys[k] \in 0..(size(c) - 1)
    BY IndexInBounds
  <2>2. QED BY <2>1 DEF IsContainer, size
<1>2. /\ ReplaceAt(c.m_values, c.m_keys[k] + 1, v) \in Seq(Val)
      /\ Len(ReplaceAt(c.m_values, c.m_keys[k] + 1, v)) = Len(c.m_values)
  BY <1>1, ExceptSeq DEF ReplaceAt
<1>3. d = [m_keys |-> c.m_keys,
           m_values |-> ReplaceAt(c.m_values, c.m_keys[k] + 1, v),
           m_keyptrs |-> c.m_keyptrs]
  BY DEF InsertOld, IsContainer
<1>4. QED BY <1>2, <1>3 DEF IsContainer, InStep

LEMMA InsertInStep ==
  ASSUME NEW c, IsContainer(c), InStep(c), NEW k \in Key, NEW v \in Val
  PROVE  IsContainer(insert(c, k, v)) /\ InStep(insert(c, k, v))
BY InsertNewInStep, InsertOldInStep DEF insert

(* Erasing closes the gap in both vectors and in the indices of the map. *)
LEMMA EraseInStep ==
  ASSUME NEW c, IsContainer(c), InStep(c), NEW p \in 0..(size(c) - 1)
  PROVE  /\ IsContainer(erase(c, p))
         /\ InStep(erase(c, p))
<1> DEFINE d == erase(c, p)
           n == Len(c.m_values)
           gone == c.m_keyptrs[p + 1]
           behind == {d.m_keyptrs[j] : j \in (p + 1)..Len(d.m_keyptrs)}
<1>1. /\ c.m_values \in Seq(Val) /\ c.m_keyptrs \in Seq(Key)
      /\ n \in Nat /\ Len(c.m_keyptrs) = n /\ p + 1 \in 1..n /\ p \in Nat
  BY DEF IsContainer, InStep, size
<1>2. /\ d.m_values = RemoveAt(c.m_values, p + 1)
      /\ d.m_keyptrs = RemoveAt(c.m_keyptrs, p + 1)
      /\ d.m_keys = [x \in DOMAIN c.m_keys \ {gone} |->
                       IF x \in behind THEN c.m_keys[x] - 1 ELSE c.m_keys[x]]
      /\ d = [m_keys |-> d.m_keys, m_values |-> d.m_values,
              m_keyptrs |-> d.m_keyptrs]
  BY DEF erase
<1>3. /\ d.m_keyptrs \in Seq(Key) /\ Len(d.m_keyptrs) = n - 1
      /\ \A j \in 1..(n - 1) : d.m_keyptrs[j] =
            IF j < p + 1 THEN c.m_keyptrs[j] ELSE c.m_keyptrs[j + 1]
  <2> DEFINE r == RemoveAt(c.m_keyptrs, p + 1)
  <2>1. /\ r \in Seq(Key) /\ Len(r) = Len(c.m_keyptrs) - 1
        /\ \A j \in 1..(Len(c.m_keyptrs) - 1) :
             r[j] = IF j < p + 1 THEN c.m_keyptrs[j] ELSE c.m_keyptrs[j + 1]
    BY <1>1, RemoveAtProperties, ZenonT(60)
  <2>2. d.m_keyptrs = r /\ Len(c.m_keyptrs) = n
    BY <1>1, <1>2
  <2> HIDE DEF r, d, n
  <2>3. QED BY <2>1, <2>2
<1>4. d.m_values \in Seq(Val) /\ Len(d.m_values) = n - 1
  BY <1>1, <1>2, RemoveAtProperties
<1> HIDE DEF d
<1>5. \A i \in 1..n : /\ c.m_keyptrs[i] \in DOMAIN c.m_keys
                      /\ c.m_keys[c.m_keyptrs[i]] = i - 1
  BY <1>1 DEF InStep
<1>6. \A x \in behind : c.m_keys[x] \in Nat /\ c.m_keys[x] > p
  <2>1. ASSUME NEW j \in (p + 1)..Len(d.m_keyptrs)
        PROVE  c.m_keys[d.m_keyptrs[j]] = j
    <3>1. j \in 1..(n - 1) /\ j + 1 \in 1..n /\ ~(j < p + 1)
      BY <1>1, <1>3
    <3>2. d.m_keyptrs[j] = c.m_keyptrs[j + 1]
      BY <1>3, <3>1
    <3>3. QED BY <1>5, <3>1, <3>2
  <2>2. QED BY <1>1, <1>3, <2>1
<1>7. IsContainer(d)
  <2>1. \A x \in DOMAIN c.m_keys : c.m_keys[x] \in Nat
    BY DEF IsContainer
  <2>2. \A x \in behind : c.m_keys[x] - 1 \in Nat
    BY <1>1, <1>6
  <2> HIDE DEF behind
  <2>3. /\ DOMAIN d.m_keys \subseteq Key
        /\ d.m_keys \in [DOMAIN d.m_keys -> Nat]
    BY <1>2, <2>1, <2>2 DEF IsContainer
  <2>4. QED BY <1>2, <1>3, <1>4, <2>3 DEF IsContainer
<1>8. ASSUME NEW j \in 1..(n - 1)
      PROVE  /\ d.m_keyptrs[j] \in DOMAIN d.m_keys
             /\ d.m_keys[d.m_keyptrs[j]] = j - 1
  <2>1. CASE j < p + 1
    <3>1. /\ d.m_keyptrs[j] = c.m_keyptrs[j] /\ j \in 1..n
          /\ c.m_keys[d.m_keyptrs[j]] = j - 1
          /\ d.m_keyptrs[j] \in DOMAIN c.m_keys
      <4>1. d.m_keyptrs[j] = c.m_keyptrs[j] /\ j \in 1..n
        BY <1>1, <1>3, <2>1
      <4>2. QED BY <1>5, <4>1
    <3>2. d.m_keyptrs[j] \notin behind
      BY <1>1, <1>6, <2>1, <3>1
    <3>3. d.m_keyptrs[j] # gone
      BY <1>1, <1>5, <2>1, <3>1
    <3> HIDE DEF behind, gone
    <3>4. QED BY <1>2, <3>1, <3>2, <3>3
  <2>2. CASE ~(j < p + 1)
    <3>1. /\ d.m_keyptrs[j] = c.m_keyptrs[j + 1] /\ j + 1 \in 1..n
          /\ c.m_keys[d.m_keyptrs[j]] = j
          /\ d.m_keyptrs[j] \in DOMAIN c.m_keys
      <4>1. d.m_keyptrs[j] = c.m_keyptrs[j + 1] /\ j + 1 \in 1..n
        BY <1>1, <1>3, <2>2
      <4>2. /\ c.m_keyptrs[j + 1] \in DOMAIN c.m_keys
            /\ c.m_keys[c.m_keyptrs[j + 1]] = (j + 1) - 1
        BY <1>5, <4>1
      <4>3. QED BY <4>1, <4>2
    <3>2. d.m_keyptrs[j] \in behind
      BY <1>1, <1>3, <2>2
    <3>3. d.m_keyptrs[j] # gone
      BY <1>1, <1>5, <2>2, <3>1
    <3> HIDE DEF behind, gone
    <3>4. QED BY <1>2, <3>1, <3>2, <3>3
  <2>3. QED BY <2>1, <2>2
<1>9. ASSUME NEW x \in DOMAIN d.m_keys
      PROVE  \E j \in 1..(n - 1) : d.m_keyptrs[j] = x
  <2>1. x \in DOMAIN c.m_keys /\ x # gone
    BY <1>2
  <2>2. PICK i \in 1..n : c.m_keyptrs[i] = x
    BY <1>1, <2>1 DEF InStep
  <2>3. i # p + 1
    BY <2>1, <2>2
  <2>4. CASE i < p + 1
    <3>1. i \in 1..(n - 1) /\ d.m_keyptrs[i] = x
      BY <1>1, <1>3, <2>2, <2>4
    <3>2. QED BY <3>1
  <2>5. CASE i > p + 1
    <3>1. i - 1 \in 1..(n - 1) /\ ~(i - 1 < p + 1) /\ (i - 1) + 1 = i
      BY <1>1, <2>5
    <3>2. d.m_keyptrs[i - 1] = x
      BY <1>3, <2>2, <3>1
    <3>3. QED BY <3>1, <3>2
  <2>6. QED BY <1>1, <2>3, <2>4, <2>5
<1>10. InStep(d)
  BY <1>3, <1>4, <1>8, <1>9 DEF InStep
<1>11. QED BY <1>7, <1>10 DEF d

-----------------------------------------------------------------------------
(* The inductive invariant.  Consistent alone is not inductive: the swap   *)
(* at the end of operator= needs to know what tmp holds, and each insert   *)
(* into tmp that its key is not there yet.                                 *)
IInv ==
  /\ TypeOK
  /\ Consistent
  /\ CopiesPrefix
  /\ pc = "idle" => pos = 0 /\ tmp = Empty

(* A call that leaves a container in step keeps the whole invariant. *)
LEMMA CallKeepsIInv ==
  ASSUME IInv, NEW c, IsContainer(c), InStep(c), Call(c)
  PROVE  IInv'
<1>1. size(c) \in Nat
  BY DEF IsContainer, size
<1>2. CopiesPrefix'
  BY <1>1, EmptySeq DEF Call, IInv, CopiesPrefix, Empty, size
<1>3. TypeOK'
  BY DEF Call, IInv, TypeOK, IsContainer
<1>4. Consistent'
  BY DEF Call, IInv, Consistent, InStep
<1>5. QED BY <1>2, <1>3, <1>4 DEF Call, IInv

(* The key copied next is not in tmp yet, so it is inserted at the end. *)
LEMMA CopiedKeyIsNew ==
  ASSUME IInv, CopyInsert
  PROVE  /\ kv.m_keyptrs[pos + 1] \in Key
         /\ kv.m_values[pos + 1] \in Val
         /\ ~Has(tmp, kv.m_keyptrs[pos + 1])
<1>1. /\ pos \in Nat /\ pos + 1 \in 1..Len(kv.m_keyptrs)
      /\ pos + 1 \in 1..Len(kv.m_values)
  BY DEF IInv, TypeOK, IsContainer, CopyInsert, Consistent, InStep, size
<1>2. kv.m_keyptrs[pos + 1] \in Key /\ kv.m_values[pos + 1] \in Val
  BY <1>1 DEF IInv, TypeOK, IsContainer
<1>3. ASSUME Has(tmp, kv.m_keyptrs[pos + 1])
      PROVE  FALSE
  <2>1. PICK i \in 1..pos : tmp.m_keyptrs[i] = kv.m_keyptrs[pos + 1]
    BY <1>3 DEF IInv, Consistent, InStep, Has, CopiesPrefix
  <2>2. i \in 1..Len(kv.m_keyptrs) /\ kv.m_keyptrs[i] = kv.m_keyptrs[pos + 1]
    BY <1>1, <2>1 DEF IInv, CopiesPrefix
  <2>3. IsContainer(kv) /\ InStep(kv)
    BY DEF IInv, TypeOK, Consistent
  <2>4. i = pos + 1
    BY <1>1, <2>2, <2>3, KeysAreUnique
  <2>5. QED BY <1>1, <2>1, <2>4
<1>4. QED BY <1>2, <1>3

LEMMA InitIInv == Init => IInv
BY EmptyInStep, EmptySeq
   DEF Init, IInv, TypeOK, Consistent, CopiesPrefix, Empty, size

(* Every call, and every turn of the copy loop, keeps the invariant. *)
LEMMA NextIInv == IInv /\ [Next]_vars => IInv'
<1> SUFFICES ASSUME IInv, [Next]_vars PROVE IInv'
  OBVIOUS
<1>1. /\ IsContainer(kv) /\ InStep(kv) /\ IsContainer(tmp) /\ InStep(tmp)
      /\ pos \in Nat
  BY DEF IInv, TypeOK, Consistent
<1>2. ASSUME NEW k \in Key, NEW v \in Val, Insert(k, v) PROVE IInv'
  <2>1. IsContainer(insert(kv, k, v)) /\ InStep(insert(kv, k, v))
    BY <1>1, InsertInStep
  <2>2. QED BY <1>2, <2>1, CallKeepsIInv DEF Insert
<1>3. ASSUME NEW i \in 0..(size(kv) - 1), Call(erase(kv, i)) PROVE IInv'
  <2>1. IsContainer(erase(kv, i)) /\ InStep(erase(kv, i))
    BY <1>1, EraseInStep
  <2>2. QED BY <1>3, <2>1, CallKeepsIInv
<1>4. ASSUME NEW k \in Key, EraseKey(k) PROVE IInv'
  <2>1. kv.m_keys[k] \in 0..(size(kv) - 1)
    BY <1>1, <1>4, IndexInBounds DEF EraseKey
  <2>2. QED BY <1>3, <1>4, <2>1 DEF EraseKey
<1>5. CASE PopFront
  <2>1. kv.m_keys[Head(kv.m_keyptrs)] \in 0..(size(kv) - 1)
    BY <1>1, <1>5, EndsHaveKeys DEF PopFront
  <2>2. QED BY <1>3, <1>5, <2>1 DEF PopFront
<1>6. CASE PopBack
  <2>1. kv.m_keys[Last(kv.m_keyptrs)] \in 0..(size(kv) - 1)
    BY <1>1, <1>6, EndsHaveKeys DEF PopBack
  <2>2. QED BY <1>3, <1>6, <2>1 DEF PopBack
<1>7. CASE Clear
  BY <1>7, EmptyInStep, CallKeepsIInv DEF Clear
<1>8. CASE CopyBegin
  <2>1. size(kv) \in Nat
    BY <1>1 DEF IsContainer, size
  <2>2. CopiesPrefix'
    BY <1>8, <2>1 DEF CopyBegin, CopiesPrefix, Empty, size
  <2>3. TypeOK' /\ Consistent'
    BY <1>1, <1>8, EmptyInStep
       DEF CopyBegin, TypeOK, Consistent, IsContainer, InStep
  <2>4. QED BY <1>8, <2>2, <2>3 DEF CopyBegin, IInv
<1>9. CASE CopyInsert
  <2> DEFINE k == kv.m_keyptrs[pos + 1]
             v == kv.m_values[pos + 1]
  <2>1. k \in Key /\ v \in Val /\ ~Has(tmp, k)
    BY <1>9, CopiedKeyIsNew
  <2>2. IsContainer(insert(tmp, k, v)) /\ InStep(insert(tmp, k, v))
    BY <1>1, <2>1, InsertInStep
  <2>3. /\ tmp'.m_keyptrs = Append(tmp.m_keyptrs, k)
        /\ tmp'.m_values = Append(tmp.m_values, v)
        /\ kv' = kv /\ pos' = pos + 1 /\ pc' = "copy" /\ pos < size(kv)
    BY <1>9, <2>1 DEF CopyInsert, insert, InsertNew
  <2>4. /\ tmp.m_keyptrs \in Seq(Key) /\ tmp.m_values \in Seq(Val)
        /\ Len(tmp.m_keyptrs) = pos /\ Len(tmp.m_values) = pos
        /\ size(kv) \in Nat
    BY <1>1 DEF IsContainer, IInv, CopiesPrefix, size
  <2>5. CopiesPrefix'
    <3>1. Len(tmp'.m_keyptrs) = pos + 1 /\ Len(tmp'.m_values) = pos + 1
      BY <2>3, <2>4
    <3>2. ASSUME NEW i \in 1..(pos + 1)
          PROVE  tmp'.m_keyptrs[i] = kv.m_keyptrs[i]
                 /\ tmp'.m_values[i] = kv.m_values[i]
      <4>1. CASE i = pos + 1
        BY <1>1, <2>1, <2>3, <2>4, <4>1
      <4>2. CASE i \in 1..pos
        BY <1>1, <2>1, <2>3, <2>4, <4>2 DEF IInv, CopiesPrefix
      <4>3. QED BY <1>1, <4>1, <4>2
    <3>3. QED BY <1>1, <2>3, <2>4, <3>1, <3>2 DEF CopiesPrefix, size
  <2>6. TypeOK' /\ Consistent'
    <3>1. tmp' = insert(tmp, k, v)
      BY <1>9 DEF CopyInsert
    <3>2. IsContainer(tmp') /\ InStep(tmp')
      BY <2>2, <3>1
    <3>3. IsContainer(kv') /\ InStep(kv') /\ pos' \in Nat
      BY <1>1, <2>3 DEF IsContainer, InStep
    <3>4. QED BY <2>3, <3>2, <3>3 DEF TypeOK, Consistent, IsContainer, InStep
  <2>7. QED BY <2>3, <2>5, <2>6 DEF IInv
<1>10. CASE CopySwap
  <2>1. CopiesPrefix'
    <3>1. size(tmp) \in Nat
      BY <1>1 DEF IsContainer, size
    <3>2. QED BY <1>10, <3>1 DEF CopySwap, CopiesPrefix, Empty, size
  <2>2. TypeOK' /\ Consistent'
    BY <1>1, <1>10, EmptyInStep
       DEF CopySwap, TypeOK, Consistent, IsContainer, InStep
  <2>3. QED BY <1>10, <2>1, <2>2 DEF CopySwap, IInv
<1>11. CASE UNCHANGED vars
  BY <1>11 DEF vars, IInv, TypeOK, Consistent, CopiesPrefix, IsContainer,
               InStep, size
<1>12. QED
  BY <1>2, <1>4, <1>5, <1>6, <1>7, <1>8, <1>9, <1>10, <1>11 DEF Next

(* In every reachable state of any KeyedVector the three structures have   *)
(* their types (keyed_vector.h:139-141).                                   *)
THEOREM TypeCorrect == Spec => []TypeOK
<1>1. IInv => TypeOK
  BY DEF IInv
<1>2. QED BY <1>1, InitIInv, NextIInv, PTL DEF Spec

(* No sequence of inserts, erases and copies, however long and whatever    *)
(* the keys, takes the map and the vectors out of step                     *)
(* (keyed_vector.h:415-464).                                               *)
THEOREM KeysAndValuesInStep == Spec => []Consistent
<1>1. IInv => Consistent
  BY DEF IInv
<1>2. QED BY <1>1, InitIInv, NextIInv, PTL DEF Spec

(* operator= copies a prefix at every turn of its loop                     *)
(* (keyed_vector.h:168-178).                                               *)
THEOREM CopyingIsExact == Spec => []CopiesPrefix
<1>1. IInv => CopiesPrefix
  BY DEF IInv
<1>2. QED BY <1>1, InitIInv, NextIInv, PTL DEF Spec

-----------------------------------------------------------------------------
(* The steps of the refinement: what each call does to Entries.            *)
LEMMA EntriesProperties ==
  ASSUME NEW c, IsContainer(c), InStep(c)
  PROVE  /\ Entries(c) \in Seq(Key \X Val)
         /\ Len(Entries(c)) = size(c) /\ size(c) \in Nat
         /\ Len(c.m_keyptrs) = size(c)
         /\ DOMAIN Entries(c) = 1..size(c)
         /\ \A i \in 1..size(c) :
              Entries(c)[i] = <<c.m_keyptrs[i], c.m_values[i]>>
<1>1. /\ c.m_values \in Seq(Val) /\ c.m_keyptrs \in Seq(Key)
      /\ size(c) \in Nat /\ size(c) = Len(c.m_values)
      /\ Len(c.m_keyptrs) = Len(c.m_values)
  BY DEF IsContainer, InStep, size
<1>2. \A i \in 1..Len(c.m_values) :
        <<c.m_keyptrs[i], c.m_values[i]>> \in Key \X Val
  BY <1>1
<1>3. QED BY <1>1, <1>2 DEF Entries

LEMMA InsertRefines ==
  ASSUME NEW c, IsContainer(c), InStep(c), NEW k \in Key, NEW v \in Val
  PROVE  IF Has(c, k)
         THEN \E i \in 1..size(c) :
                /\ Entries(c)[i][1] = k
                /\ Entries(insert(c, k, v)) = [Entries(c) EXCEPT ![i] = <<k, v>>]
         ELSE Entries(insert(c, k, v)) = Append(Entries(c), <<k, v>>)
<1> DEFINE d == insert(c, k, v)
<1>1. IsContainer(d) /\ InStep(d)
  BY InsertInStep
<1>2. /\ c.m_values \in Seq(Val) /\ c.m_keyptrs \in Seq(Key)
      /\ size(c) \in Nat /\ size(c) = Len(c.m_values)
      /\ Len(c.m_keyptrs) = Len(c.m_values)
  BY DEF IsContainer, InStep, size
<1>3. CASE Has(c, k)
  <2> DEFINE i == c.m_keys[k] + 1
  <2>1. i \in 1..size(c) /\ c.m_keyptrs[i] = k
    BY <1>2, <1>3, IndexInBounds
  <2>2. d.m_keyptrs = c.m_keyptrs /\ d.m_values = [c.m_values EXCEPT ![i] = v]
    BY <1>3 DEF insert, InsertOld, ReplaceAt, IsContainer
  <2>3. Entries(c)[i][1] = k
    BY <2>1, EntriesProperties
  <2>4. Entries(d) = [Entries(c) EXCEPT ![i] = <<k, v>>]
    <3> HIDE DEF i, d
    <3>1. Len(d.m_values) = Len(c.m_values)
      BY <1>2, <2>2
    <3>2. \A j \in 1..Len(c.m_values) :
            d.m_values[j] = IF j = i THEN v ELSE c.m_values[j]
      BY <1>2, <2>2
    <3>3. QED BY <1>2, <2>1, <2>2, <3>1, <3>2 DEF Entries
  <2>5. QED BY <1>3, <2>1, <2>3, <2>4
<1>4. CASE ~Has(c, k)
  <2>1. /\ d.m_keyptrs = Append(c.m_keyptrs, k)
        /\ d.m_values = Append(c.m_values, v)
    BY <1>4 DEF insert, InsertNew
  <2>2. /\ Entries(c) \in Seq(Key \X Val) /\ Entries(d) \in Seq(Key \X Val)
        /\ Append(Entries(c), <<k, v>>) \in Seq(Key \X Val)
    BY <1>1, EntriesProperties
  <2> HIDE DEF d
  <2>3. Len(Entries(c)) = Len(c.m_values) /\ Len(Entries(d)) = Len(c.m_values) + 1
    BY <1>1, <1>2, <2>1, EntriesProperties DEF size
  <2>4. ASSUME NEW j \in 1..(Len(c.m_values) + 1)
        PROVE  Entries(d)[j] = Append(Entries(c), <<k, v>>)[j]
    <3>1. Entries(d)[j] = <<d.m_keyptrs[j], d.m_values[j]>>
      BY <1>1, <2>3, EntriesProperties
    <3>2. CASE j = Len(c.m_values) + 1
      BY <1>2, <2>1, <2>2, <2>3, <3>1, <3>2
    <3>3. CASE j \in 1..Len(c.m_values)
      <4>1. Entries(c)[j] = <<c.m_keyptrs[j], c.m_values[j]>>
        BY <1>2, <3>3, EntriesProperties
      <4>2. d.m_keyptrs[j] = c.m_keyptrs[j] /\ d.m_values[j] = c.m_values[j]
        BY <1>2, <2>1, <3>3
      <4>3. QED BY <2>2, <2>3, <3>1, <3>3, <4>1, <4>2
    <3>4. j = Len(c.m_values) + 1 \/ j \in 1..Len(c.m_values)
      <4>1. Len(c.m_values) \in Nat
        BY <1>2
      <4>2. QED BY <4>1
    <3>5. QED BY <3>2, <3>3, <3>4
  <2>5. Entries(d) = Append(Entries(c), <<k, v>>)
    <3>1. Len(Append(Entries(c), <<k, v>>)) = Len(Entries(d))
      BY <2>2, <2>3
    <3>2. QED BY <2>2, <2>3, <2>4, <3>1, SeqEqual
  <2>6. QED BY <1>4, <2>5 DEF d
<1>5. QED BY <1>3, <1>4

LEMMA EraseRefines ==
  ASSUME NEW c, IsContainer(c), InStep(c), NEW p \in 0..(size(c) - 1)
  PROVE  Entries(erase(c, p)) =
           [j \in 1..(Len(Entries(c)) - 1) |->
              IF j < p + 1 THEN Entries(c)[j] ELSE Entries(c)[j + 1]]
<1> DEFINE d == erase(c, p)
           n == Len(c.m_values)
<1>1. /\ c.m_values \in Seq(Val) /\ c.m_keyptrs \in Seq(Key)
      /\ n \in Nat /\ size(c) = n /\ Len(c.m_keyptrs) = n /\ p + 1 \in 1..n
  BY DEF IsContainer, InStep, size
<1>2. /\ Len(d.m_values) = n - 1
      /\ \A j \in 1..(n - 1) : d.m_values[j] =
            IF j < p + 1 THEN c.m_values[j] ELSE c.m_values[j + 1]
  <2>1. d.m_values = RemoveAt(c.m_values, p + 1)
    BY DEF erase
  <2>2. QED BY <1>1, <2>1, RemoveAtProperties
<1>3. \A j \in 1..(n - 1) : d.m_keyptrs[j] =
            IF j < p + 1 THEN c.m_keyptrs[j] ELSE c.m_keyptrs[j + 1]
  <2> DEFINE r == RemoveAt(c.m_keyptrs, p + 1)
  <2>1. \A j \in 1..(Len(c.m_keyptrs) - 1) :
          r[j] = IF j < p + 1 THEN c.m_keyptrs[j] ELSE c.m_keyptrs[j + 1]
    BY <1>1, RemoveAtProperties
  <2>2. d.m_keyptrs = r /\ Len(c.m_keyptrs) = n
    BY <1>1 DEF erase
  <2> HIDE DEF r, d, n
  <2>3. QED BY <2>1, <2>2
<1>4. /\ Len(Entries(c)) = n
      /\ \A j \in 1..n : Entries(c)[j] = <<c.m_keyptrs[j], c.m_values[j]>>
  BY <1>1, EntriesProperties
<1> HIDE DEF d
<1>5. Entries(d) = [j \in 1..(n - 1) |-> <<d.m_keyptrs[j], d.m_values[j]>>]
  BY <1>2 DEF Entries
<1>6. ASSUME NEW j \in 1..(n - 1)
      PROVE  <<d.m_keyptrs[j], d.m_values[j]>> =
             IF j < p + 1 THEN Entries(c)[j] ELSE Entries(c)[j + 1]
  <2>1. j \in 1..n /\ j + 1 \in 1..n
    BY <1>1
  <2>2. QED BY <1>2, <1>3, <1>4, <2>1
<1> HIDE DEF n
<1>7. QED BY <1>4, <1>5, <1>6 DEF d

LEMMA EntriesOfEmpty == Entries(Empty) = <<>>
<1>1. Entries(Empty) \in Seq(Key \X Val) /\ Len(Entries(Empty)) = 0
  BY EmptyInStep, EntriesProperties, EmptySeq DEF size, Empty
<1>2. QED BY <1>1, EmptySeq

(* Every step of the container is a step of the ordered map or, while a    *)
(* copy is under way, none at all.                                         *)
LEMMA StepRefines == IInv /\ [Next]_vars => [OM!Next]_(Entries(kv))
<1> SUFFICES ASSUME IInv, [Next]_vars PROVE [OM!Next]_(Entries(kv))
  OBVIOUS
<1>1. /\ IsContainer(kv) /\ InStep(kv) /\ IsContainer(tmp) /\ InStep(tmp)
      /\ pos \in Nat
  BY DEF IInv, TypeOK, Consistent
<1>2. DOMAIN Entries(kv) = 1..size(kv) /\ size(kv) \in Nat
  BY <1>1, EntriesProperties
<1>3. ASSUME NEW k \in Key, NEW v \in Val, Insert(k, v) PROVE OM!Next
  <2>1. kv' = insert(kv, k, v)
    BY <1>3 DEF Insert, Call
  <2>2. CASE Has(kv, k)
    <3>1. PICK i \in 1..size(kv) :
            /\ Entries(kv)[i][1] = k
            /\ Entries(kv)' = [Entries(kv) EXCEPT ![i] = <<k, v>>]
      <4>1. \E i \in 1..size(kv) :
              /\ Entries(kv)[i][1] = k
              /\ Entries(insert(kv, k, v)) = [Entries(kv) EXCEPT ![i] = <<k, v>>]
        BY <1>1, <2>2, InsertRefines
      <4>2. Entries(kv)' = Entries(insert(kv, k, v))
        BY <2>1 DEF Entries
      <4>3. QED BY <4>1, <4>2
    <3>2. OM!Overwrite(k, v)
      BY <1>2, <3>1 DEF OM!Overwrite
    <3>3. QED BY <3>2 DEF OM!Next
  <2>3. CASE ~Has(kv, k)
    <3>1. Entries(insert(kv, k, v)) = Append(Entries(kv), <<k, v>>)
      BY <1>1, <2>3, InsertRefines
    <3>2. Entries(kv)' = Append(Entries(kv), <<k, v>>)
      BY <2>1, <3>1 DEF Entries
    <3>3. ASSUME NEW i \in DOMAIN Entries(kv), Entries(kv)[i][1] = k
          PROVE  FALSE
      <4>1. i \in 1..size(kv) /\ Len(kv.m_keyptrs) = size(kv)
        BY <1>1, <1>2, EntriesProperties
      <4>2. Entries(kv)[i] = <<kv.m_keyptrs[i], kv.m_values[i]>>
        BY <1>1, <4>1, EntriesProperties
      <4>3. kv.m_keyptrs[i] \in DOMAIN kv.m_keys
        BY <1>1, <4>1 DEF InStep
      <4>4. QED BY <2>3, <3>3, <4>2, <4>3 DEF Has
    <3>4. OM!AddLast(k, v)
      BY <3>2, <3>3 DEF OM!AddLast, OM!HasKey
    <3>5. QED BY <3>4 DEF OM!Next
  <2>4. QED BY <2>2, <2>3
<1>4. ASSUME NEW p \in 0..(size(kv) - 1), Call(erase(kv, p)) PROVE OM!Next
  <2>1. kv' = erase(kv, p)
    BY <1>4 DEF Call
  <2>2. Entries(kv)' = [j \in 1..(Len(Entries(kv)) - 1) |->
          IF j < p + 1 THEN Entries(kv)[j] ELSE Entries(kv)[j + 1]]
    <3>1. Entries(erase(kv, p)) = [j \in 1..(Len(Entries(kv)) - 1) |->
            IF j < p + 1 THEN Entries(kv)[j] ELSE Entries(kv)[j + 1]]
      BY <1>1, EraseRefines
    <3>2. Entries(kv)' = Entries(erase(kv, p))
      BY <2>1 DEF Entries
    <3>3. QED BY <3>1, <3>2
  <2>3. p + 1 \in DOMAIN Entries(kv)
    BY <1>2
  <2>4. OM!EraseAt(p + 1)
    BY <2>2, <2>3 DEF OM!EraseAt
  <2>5. QED BY <2>3, <2>4 DEF OM!Next
<1>5. ASSUME NEW k \in Key, EraseKey(k) PROVE OM!Next
  <2>1. kv.m_keys[k] \in 0..(size(kv) - 1)
    BY <1>1, <1>5, IndexInBounds DEF EraseKey
  <2>2. QED BY <1>4, <1>5, <2>1 DEF EraseKey
<1>6. CASE PopFront
  <2>1. kv.m_keys[Head(kv.m_keyptrs)] \in 0..(size(kv) - 1)
    BY <1>1, <1>6, EndsHaveKeys DEF PopFront
  <2>2. QED BY <1>4, <1>6, <2>1 DEF PopFront
<1>7. CASE PopBack
  <2>1. kv.m_keys[Last(kv.m_keyptrs)] \in 0..(size(kv) - 1)
    BY <1>1, <1>7, EndsHaveKeys DEF PopBack
  <2>2. QED BY <1>4, <1>7, <2>1 DEF PopBack
<1>8. CASE Clear
  <2>1. Entries(kv)' = <<>>
    BY <1>8, EntriesOfEmpty DEF Clear, Call, Entries
  <2>2. QED BY <2>1 DEF OM!Next, OM!Clear
<1>9. CASE CopyBegin \/ CopyInsert \/ UNCHANGED vars
  BY <1>9 DEF CopyBegin, CopyInsert, vars, Entries
<1>10. CASE CopySwap
  <2>1. Entries(kv)' = Entries(tmp)
    BY <1>10 DEF CopySwap, Entries
  <2>2. Len(tmp.m_values) = Len(kv.m_values)
    BY <1>10 DEF CopySwap, IInv, CopiesPrefix, size
  <2>3. \A i \in 1..Len(tmp.m_values) :
          <<tmp.m_keyptrs[i], tmp.m_values[i]>> =
          <<kv.m_keyptrs[i], kv.m_values[i]>>
    BY <1>10 DEF CopySwap, IInv, CopiesPrefix
  <2>4. QED BY <2>1, <2>2, <2>3 DEF Entries
<1>11. QED
  BY <1>3, <1>5, <1>6, <1>7, <1>8, <1>9, <1>10 DEF Next

(* A KeyedVector is an ordered map with unique keys, for every caller, set *)
(* of keys and set of values (keyed_vector.h:101-127).                     *)
THEOREM KeyedVectorIsOrderedMap == Spec => RefinesOrderedMap
<1>1. Init => OM!Init
  BY EntriesOfEmpty DEF Init, OM!Init
<1>2. QED
  BY <1>1, InitIInv, NextIInv, StepRefines, PTL
     DEF Spec, RefinesOrderedMap, OM!Spec
=============================================================================
