----------------------------- MODULE KeyedVector -----------------------------
(***************************************************************************)
(* util::KeyedVector (util/keyed_vector.h), the container behind the       *)
(* dirents and the datatypes of every scope, and behind enums and          *)
(* bitmasks.  Three structures are kept in step:                           *)
(*                                                                         *)
(*   m_keys     std::map from a key to the index of its value              *)
(*   m_values   std::vector of values, in insert order                     *)
(*   m_keyptrs  std::vector of map iterators, parallel to m_values; a map  *)
(*              iterator is modelled by the key of the node it points to   *)
(*                                                                         *)
(* Indices are those of the code, from 0; the value with index i is        *)
(* m_values[i + 1] here.  The copy loop of operator= is taken one insert   *)
(* at a time, because copying is where the parallel vectors are rebuilt.   *)
(***************************************************************************)
EXTENDS Naturals, Sequences, SequencesExt

CONSTANTS
  Key,  \* the type Tkey
  Val   \* the type Tval

VARIABLES
  kv,   \* the container
  tmp,  \* the local of operator=, empty when no copy is under way
  pos,  \* the loop variable i of operator=
  pc    \* "idle" between two calls, "copy" inside operator=

vars == <<kv, tmp, pos, pc>>

Empty == [m_keys |-> <<>>, m_values |-> <<>>, m_keyptrs |-> <<>>]

size(c) == Len(c.m_values)

Has(c, k) == k \in DOMAIN c.m_keys

-----------------------------------------------------------------------------
(* The calls, as functions of a container. *)

(* insert() of a key the map does not hold. *)
InsertNew(c, k, v) ==
  [m_keys    |-> [x \in DOMAIN c.m_keys \cup {k} |->
                    IF x = k THEN size(c) ELSE c.m_keys[x]],
   m_values  |-> Append(c.m_values, v),
   m_keyptrs |-> Append(c.m_keyptrs, k)]

(* insert() of a key the map holds. *)
InsertOld(c, k, v) ==
  [c EXCEPT !.m_values = ReplaceAt(@, c.m_keys[k] + 1, v)]

insert(c, k, v) == IF Has(c, k) THEN InsertOld(c, k, v) ELSE InsertNew(c, k, v)

(* Mutations of erase(): every index is decremented, none is, and the gap  *)
(* is filled with the last entry.                                          *)
EraseShiftsAll(c, i) ==
  [m_keys    |-> [x \in DOMAIN c.m_keys \ {c.m_keyptrs[i + 1]} |-> c.m_keys[x] - 1],
   m_values  |-> RemoveAt(c.m_values, i + 1),
   m_keyptrs |-> RemoveAt(c.m_keyptrs, i + 1)]

EraseShiftsNone(c, i) ==
  [m_keys    |-> [x \in DOMAIN c.m_keys \ {c.m_keyptrs[i + 1]} |-> c.m_keys[x]],
   m_values  |-> RemoveAt(c.m_values, i + 1),
   m_keyptrs |-> RemoveAt(c.m_keyptrs, i + 1)]

EraseFillsGap(c, i) ==
  LET last == Last(c.m_keyptrs)
      gone == c.m_keyptrs[i + 1]
  IN [m_keys    |-> [x \in DOMAIN c.m_keys \ {gone} |->
                       IF x = last THEN i ELSE c.m_keys[x]],
      m_values  |-> Front(ReplaceAt(c.m_values, i + 1, Last(c.m_values))),
      m_keyptrs |-> Front(ReplaceAt(c.m_keyptrs, i + 1, last))]

(* erase() of the entry at an index: the node leaves the map, both vectors *)
(* close the gap, and the index of every key behind it is decremented.     *)
erase(c, i) ==
  LET gone == c.m_keyptrs[i + 1]
      left == RemoveAt(c.m_keyptrs, i + 1)
      behind == {left[j] : j \in (i + 1)..Len(left)}
  IN [m_keys    |-> [x \in DOMAIN c.m_keys \ {gone} |->
                       IF x \in behind THEN c.m_keys[x] - 1 ELSE c.m_keys[x]],
      m_values  |-> RemoveAt(c.m_values, i + 1),
      m_keyptrs |-> left]

-----------------------------------------------------------------------------
Init ==
  /\ kv = Empty
  /\ tmp = Empty
  /\ pos = 0
  /\ pc = "idle"

(* A call other than operator= leaves the locals of operator= alone. *)
Call(c) ==
  /\ pc = "idle"
  /\ kv' = c
  /\ UNCHANGED <<tmp, pos, pc>>

Insert(k, v) == Call(insert(kv, k, v))

(* erase(key) finds the index first and does nothing for a missing key. *)
EraseKey(k) == Has(kv, k) /\ Call(erase(kv, kv.m_keys[k]))

(* pop_front() and pop_back() throw out_of_range on an empty container. *)
PopFront == size(kv) > 0 /\ Call(erase(kv, kv.m_keys[Head(kv.m_keyptrs)]))
PopBack  == size(kv) > 0 /\ Call(erase(kv, kv.m_keys[Last(kv.m_keyptrs)]))

Clear == Call(Empty)

(* operator=: the entries are inserted one by one into tmp, which is then  *)
(* swapped in.  The model goes on with the copy.                           *)
CopyBegin ==
  /\ pc = "idle"
  /\ pc' = "copy"
  /\ tmp' = Empty
  /\ pos' = 0
  /\ UNCHANGED kv

CopyInsert ==
  /\ pc = "copy"
  /\ pos < size(kv)
  /\ tmp' = insert(tmp, kv.m_keyptrs[pos + 1], kv.m_values[pos + 1])
  /\ pos' = pos + 1
  /\ UNCHANGED <<kv, pc>>

CopySwap ==
  /\ pc = "copy"
  /\ pos = size(kv)
  /\ kv' = tmp
  /\ tmp' = Empty
  /\ pos' = 0
  /\ pc' = "idle"

Next ==
  \/ \E k \in Key, v \in Val : Insert(k, v)
  \/ \E k \in Key : EraseKey(k)
  \/ PopFront
  \/ PopBack
  \/ Clear
  \/ CopyBegin
  \/ CopyInsert
  \/ CopySwap

Spec == Init /\ [][Next]_vars

-----------------------------------------------------------------------------
(* Type correctness: the shapes of the three structures. *)
IsContainer(c) ==
  /\ c = [m_keys |-> c.m_keys, m_values |-> c.m_values, m_keyptrs |-> c.m_keyptrs]
  /\ DOMAIN c.m_keys \subseteq Key
  /\ c.m_keys \in [DOMAIN c.m_keys -> Nat]
  /\ c.m_values \in Seq(Val)
  /\ c.m_keyptrs \in Seq(Key)

TypeOK ==
  /\ IsContainer(kv)
  /\ IsContainer(tmp)
  /\ pos \in Nat
  /\ pc \in {"idle", "copy"}

(* The three structures describe one list of entries: the vectors are      *)
(* parallel, the map sends the key of every entry to that entry's index,   *)
(* and it holds no other key.  Every access by key relies on it            *)
(* (keyed_vector.h find(), iter_at(): "no bounds checking is needed").     *)
InStep(c) ==
  /\ Len(c.m_keyptrs) = Len(c.m_values)
  /\ \A i \in 1..Len(c.m_keyptrs) :
       /\ c.m_keyptrs[i] \in DOMAIN c.m_keys
       /\ c.m_keys[c.m_keyptrs[i]] = i - 1
  /\ \A k \in DOMAIN c.m_keys : \E i \in 1..Len(c.m_keyptrs) : c.m_keyptrs[i] = k

Consistent == InStep(kv) /\ InStep(tmp)

(* While operator= runs, tmp is exactly the part of the container already  *)
(* copied, index for index; when it is done nothing has been lost.         *)
CopiesPrefix ==
  /\ pos <= size(kv)
  /\ Len(tmp.m_keyptrs) = pos
  /\ Len(tmp.m_values) = pos
  /\ \A i \in 1..pos : /\ tmp.m_keyptrs[i] = kv.m_keyptrs[i]
                       /\ tmp.m_values[i] = kv.m_values[i]

-----------------------------------------------------------------------------
(* The container read back in index order. *)
Entries(c) == [i \in 1..Len(c.m_values) |-> <<c.m_keyptrs[i], c.m_values[i]>>]

OM == INSTANCE OrderedMap WITH entries <- Entries(kv)

(* A KeyedVector is an ordered map: every call has the effect the ordered  *)
(* map allows on the entries, and copying has none.                        *)
RefinesOrderedMap == OM!Spec
=============================================================================
