------------------------------- MODULE Runtime -------------------------------
(***************************************************************************)
(* The context stack of the runtime (runtime.cc, context.h), shared by the *)
(* device code, which opens and closes scopes, and by the accessors of     *)
(* procedure registers and fields, which run in a snapshot of the context  *)
(* they were defined in (register_types.h, field_types.h).                 *)
(*                                                                         *)
(* An accessor reads and writes other registers and fields, procedures     *)
(* among them, so that calls nest; nothing can be defined under a snapshot *)
(* (fake_language.cc:208).  An accessor ends by returning or by an         *)
(* exception, such as the IoError of a driver, that a caller catches: Spec *)
(* is without exceptions, SpecThrow has them.                              *)
(***************************************************************************)
EXTENDS Naturals, Sequences, SequencesExt

CONSTANTS
  Scope,     \* the scope objects, the root among them
  RootScope, \* m_root_scope
  Proc,      \* the procedure register and field objects
  NoContext, \* the m_context of a Proc that is not constructed yet
  MaxDepth   \* bound on the height of the context stack

Context == [scope : Scope, readonly : BOOLEAN]

ASSUME RootIsScope == RootScope \in Scope
ASSUME NoContextIsNone == NoContext \notin Context
ASSUME MaxDepthIsNat == MaxDepth \in Nat

VARIABLES
  stack,    \* m_context_stack
  context,  \* m_context of every Proc
  calls,    \* the accessors running, the innermost last
  opened    \* the scopes device code has opened and not closed

vars == <<stack, context, calls, opened>>

(* Runtime::current_context() *)
Current == Last(stack)

(* Runtime::context_push() and context_pop() *)
Push(c) == Len(stack) < MaxDepth /\ stack' = Append(stack, c)
Pop     == Len(stack) > 1 /\ stack' = Front(stack)

Init ==
  /\ stack = <<[scope |-> RootScope, readonly |-> FALSE]>>
  /\ context = [p \in Proc |-> NoContext]
  /\ calls = <<>>
  /\ opened = <<>>

(* fkl_open_scope(): a new scope under the current one. *)
OpenScope(s) ==
  /\ ~Current.readonly
  /\ Push([scope |-> s, readonly |-> FALSE])
  /\ opened' = Append(opened, s)
  /\ UNCHANGED <<context, calls>>

(* fkl_close_scope(), by device code, for a scope it has opened. *)
CloseScope ==
  /\ calls = <<>>
  /\ opened # <<>>
  /\ Pop
  /\ opened' = Front(opened)
  /\ UNCHANGED <<context, calls>>

(* Mutation of DefineProc: the snapshot is not read-only.                  *)
DefineProcWritable(p) ==
  /\ context[p] = NoContext
  /\ context' = [context EXCEPT ![p] = Current]
  /\ UNCHANGED <<stack, calls, opened>>

(* The constructors take a snapshot of the current context; an accessor    *)
(* may construct anonymous registers too.                                  *)
DefineProc(p) ==
  /\ context[p] = NoContext
  /\ context' = [context EXCEPT ![p] = [Current EXCEPT !.readonly = TRUE]]
  /\ UNCHANGED <<stack, calls, opened>>

(* Mutation of Call: the accessor runs in the context of its caller.       *)
CallInCallersContext(p) ==
  /\ context[p] # NoContext
  /\ Push(Current)
  /\ calls' = Append(calls, p)
  /\ UNCHANGED <<context, opened>>

(* read() or write(), up to the call of the accessor. *)
Call(p) ==
  /\ context[p] # NoContext
  /\ Push(context[p])
  /\ calls' = Append(calls, p)
  /\ UNCHANGED <<context, opened>>

(* Mutations of Return: two contexts are popped, or none.                  *)
ReturnPopsTwo ==
  /\ calls # <<>>
  /\ stack' = Front(Front(stack))
  /\ calls' = Front(calls)
  /\ UNCHANGED <<context, opened>>

ReturnPopsNone ==
  /\ calls # <<>>
  /\ calls' = Front(calls)
  /\ UNCHANGED <<stack, context, opened>>

(* The accessor has returned. *)
Return ==
  /\ calls # <<>>
  /\ Pop
  /\ calls' = Front(calls)
  /\ UNCHANGED <<context, opened>>

(* The accessor has thrown: the exception passes the read() and write() of *)
(* every call but the first n, and is caught there.                        *)
Throw(n) ==
  /\ n < Len(calls)
  /\ calls' = SubSeq(calls, 1, n)
  /\ UNCHANGED <<stack, context, opened>>

Next ==
  \/ \E s \in Scope : OpenScope(s)
  \/ CloseScope
  \/ \E p \in Proc : DefineProc(p) \/ Call(p)
  \/ Return

Spec == Init /\ [][Next]_vars

SpecThrow == Init /\ [][Next \/ \E n \in 0..MaxDepth : Throw(n)]_vars

-----------------------------------------------------------------------------
TypeOK ==
  /\ stack \in Seq(Context) /\ stack # <<>>
  /\ context \in [Proc -> Context \cup {NoContext}]
  /\ calls \in Seq(Proc)
  /\ opened \in Seq(Scope)

(* An accessor runs in the context its register or field was defined in,   *)
(* however deep the call, also after the accessors it called have returned *)
(* (register_types.h:103-109).                                             *)
RunsWhereDefined == calls # <<>> => Current = context[Last(calls)]

(* Device code always finds itself in the scope it opened last and has not *)
(* closed: docs/language.txt:51-53, "PP tracks the 'current scope' as you  *)
(* open and close scopes."                                                 *)
CurrentScopeTracked ==
  calls = <<>> =>
    Current = [scope |-> IF opened = <<>> THEN RootScope ELSE Last(opened),
               readonly |-> FALSE]

(* Every frame of the stack is accounted for, in order: the root context,  *)
(* one frame for every scope device code has open, and on top of them the  *)
(* snapshot of every accessor running.  Nothing else is ever pushed, no    *)
(* pop takes the frame of another, and only snapshots are read-only        *)
(* (context.h:22-66, runtime.cc:38-58).                                    *)
FramesAccountedFor ==
  /\ Len(stack) = 1 + Len(opened) + Len(calls)
  /\ stack[1] = [scope |-> RootScope, readonly |-> FALSE]
  /\ \A i \in 1..Len(opened) :
       stack[1 + i] = [scope |-> opened[i], readonly |-> FALSE]
  /\ \A i \in 1..Len(calls) :
       /\ context[calls[i]] # NoContext
       /\ stack[1 + Len(opened) + i] = context[calls[i]]
  /\ \A p \in Proc : context[p] # NoContext => context[p].readonly
=============================================================================
