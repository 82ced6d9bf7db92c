---------------------------- MODULE AddressSpace ----------------------------
(***************************************************************************)
(* What a Binding promises (binding.h:24-42): a space of cells, read and   *)
(* written some at a time, at the offset named and nowhere else.  A call   *)
(* may fail (Driver::IoError).  A write that fails may be done in part, or *)
(* in full, and only then notice: what it has written is the beginning of  *)
(* what was asked, and nothing else.  Any other failed call changes        *)
(* nothing.                                                                *)
(***************************************************************************)
EXTENDS Integers

CONSTANTS
  Byte,    \* what a cell may hold
  Ones,    \* what reading an absent cell gives
  Absent   \* marks a cell that no hardware stands behind

VARIABLES
  space,  \* the cells, by offset
  call,   \* the call in progress
  reply   \* what the last call has returned

vars == <<space, call, reply>>

NoCall  == [name |-> "none"]
NoReply == [status |-> "none"]
Error   == [status |-> "error"]
Done    == [status |-> "done"]
Data(f) == [status |-> "data", data |-> f]

Cells(c) == c.off..(c.off + c.count - 1)

Value(a) == IF space[a] = Absent THEN Ones ELSE space[a]

(* A call is made, with any arguments. *)
Begin ==
  /\ call = NoCall
  /\ call' # NoCall
  /\ reply' = NoReply
  /\ UNCHANGED space

Read ==
  /\ call # NoCall /\ call.name = "read"
  /\ Cells(call) \subseteq DOMAIN space
  /\ reply' = Data([k \in 0..(call.count - 1) |-> Value(call.off + k)])
  /\ call' = NoCall
  /\ UNCHANGED space

(* The first k cells of the call hold the data, absent ones stay absent.   *)
Written(k) ==
  [a \in DOMAIN space |->
     IF a \in call.off..(call.off + k - 1) /\ space[a] # Absent
     THEN call.data[a - call.off] ELSE space[a]]

Write ==
  /\ call # NoCall /\ call.name = "write"
  /\ Cells(call) \subseteq DOMAIN space
  /\ space' = Written(call.count)
  /\ reply' = Done
  /\ call' = NoCall

Fail ==
  /\ call # NoCall
  /\ reply' = Error
  /\ call' = NoCall
  /\ \/ UNCHANGED space
     \/ /\ call.name = "write"
        /\ Cells(call) \subseteq DOMAIN space
        /\ \E k \in 1..call.count : space' = Written(k)

(* The hardware changes a cell that is there. *)
Change ==
  /\ \E a \in DOMAIN space, v \in Byte :
       space[a] # Absent /\ space' = [space EXCEPT ![a] = v]
  /\ UNCHANGED <<call, reply>>

Next == Begin \/ Read \/ Write \/ Fail \/ Change

Init ==
  /\ call = NoCall
  /\ reply = NoReply

Spec == Init /\ [][Next]_vars
=============================================================================
