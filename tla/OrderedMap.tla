----------------------------- MODULE OrderedMap -----------------------------
(***************************************************************************)
(* What a KeyedVector promises its callers (util/keyed_vector.h): a map    *)
(* with unique keys whose entries are also numbered, in insert order.      *)
(* Overwriting a key leaves its number alone, erasing one moves every      *)
(* later entry down by one, and a copy is indistinguishable from the       *)
(* original, so that copying is not a step here.                           *)
(***************************************************************************)
EXTENDS Naturals, Sequences

CONSTANTS
  Key,  \* the type Tkey
  Val   \* the type Tval

VARIABLE entries  \* the <<key, value>> pairs in insert order

HasKey(k) == \E i \in DOMAIN entries : entries[i][1] = k

Init == entries = <<>>

(* A new key goes to the end. *)
AddLast(k, v) ==
  /\ ~HasKey(k)
  /\ entries' = Append(entries, <<k, v>>)

(* An existing key keeps its place. *)
Overwrite(k, v) ==
  \E i \in DOMAIN entries :
    /\ entries[i][1] = k
    /\ entries' = [entries EXCEPT ![i] = <<k, v>>]

(* Entries behind the erased one move down, the others stay. *)
EraseAt(i) ==
  /\ i \in DOMAIN entries
  /\ entries' = [j \in 1..(Len(entries) - 1) |->
                   IF j < i THEN entries[j] ELSE entries[j + 1]]

Clear == entries' = <<>>

Next ==
  \/ \E k \in Key, v \in Val : AddLast(k, v) \/ Overwrite(k, v)
  \/ \E i \in DOMAIN entries : EraseAt(i)
  \/ Clear

Spec == Init /\ [][Next]_entries

=============================================================================
