---------------------------- MODULE RuntimeProofs ----------------------------
(***************************************************************************)
(* The invariants of Runtime, for any set of scopes and of procedure       *)
(* registers and any nesting of their accessors.  FramesAccountedFor with  *)
(* the type invariant is inductive; the two properties of the top of the   *)
(* stack follow from it.                                                   *)
(***************************************************************************)
EXTENDS Runtime, SequenceTheorems, TLAPS

IInv == TypeOK /\ FramesAccountedFor

(* context_push() keeps what is on the stack and makes its argument the    *)
(* current context.                                                        *)
LEMMA PushProperties ==
  ASSUME NEW S, NEW s \in Seq(S), NEW c \in S
  PROVE  /\ Append(s, c) \in Seq(S)
         /\ Append(s, c) # <<>>
         /\ Len(Append(s, c)) = Len(s) + 1
         /\ Append(s, c)[Len(s) + 1] = c
         /\ \A i \in 1..Len(s) : Append(s, c)[i] = s[i]
  OBVIOUS

(* The first k elements of a sequence.                                     *)
LEMMA PrefixProperties ==
  ASSUME NEW S, NEW s, NEW k \in Nat, \A i \in 1..k : s[i] \in S
  PROVE  /\ SubSeq(s, 1, k) \in Seq(S)
         /\ Len(SubSeq(s, 1, k)) = k
         /\ \A i \in 1..k : SubSeq(s, 1, k)[i] = s[i]
  <1>1. /\ SubSeq(s, 1, k) \in Seq(S)
        /\ Len(SubSeq(s, 1, k)) = IF 1 <= k THEN (k - 1) + 1 ELSE 0
        /\ \A i \in 1..((k - 1) + 1) : SubSeq(s, 1, k)[i] = s[(1 + i) - 1]
    BY SubSeqProperties
  <1>2. Len(SubSeq(s, 1, k)) = k
    BY <1>1
  <1>3. ASSUME NEW i \in 1..k PROVE SubSeq(s, 1, k)[i] = s[i]
    <2>1. i \in 1..((k - 1) + 1) /\ (1 + i) - 1 = i
      OBVIOUS
    <2>. QED
      BY <1>1, <2>1
  <1>. QED
    BY <1>1, <1>2, <1>3

(* context_pop() removes the current context and keeps what is below it.   *)
LEMMA PopProperties ==
  ASSUME NEW S, NEW s \in Seq(S), s # <<>>
  PROVE  /\ Front(s) \in Seq(S)
         /\ Len(s) \in Nat \ {0}
         /\ Len(Front(s)) = Len(s) - 1
         /\ \A i \in 1..(Len(s) - 1) : Front(s)[i] = s[i]
         /\ Last(s) = s[Len(s)]
         /\ Last(s) \in S
  <1>1. Len(s) \in Nat \ {0} /\ \A i \in 1..Len(s) : s[i] \in S
    OBVIOUS
  <1>2. PICK k \in Nat : k = Len(s) - 1
    BY <1>1
  <1>3. \A i \in 1..k : s[i] \in S
    BY <1>1, <1>2
  <1>4. /\ SubSeq(s, 1, k) \in Seq(S)
        /\ Len(SubSeq(s, 1, k)) = k
        /\ \A i \in 1..k : SubSeq(s, 1, k)[i] = s[i]
    BY <1>3, PrefixProperties
  <1>5. Front(s) = SubSeq(s, 1, k)
    BY <1>2 DEF Front
  <1>6. Last(s) = s[Len(s)] /\ Last(s) \in S
    BY <1>1 DEF Last
  <1>. QED
    BY <1>1, <1>2, <1>4, <1>5, <1>6

(* The stack begins with the root context and nothing else.                *)
LEMMA InitIInv == Init => IInv
  <1>. SUFFICES ASSUME Init PROVE IInv
    OBVIOUS
  <1>1. [scope |-> RootScope, readonly |-> FALSE] \in Context
    BY RootIsScope DEF Context
  <1>2. TypeOK
    BY <1>1 DEF Init, TypeOK
  <1>3. FramesAccountedFor
    BY DEF Init, FramesAccountedFor
  <1>. QED
    BY <1>2, <1>3 DEF IInv

(* While an accessor runs, the current context is the snapshot of the      *)
(* innermost one, which is read-only.                                      *)
LEMMA TopOfTheStack ==
  ASSUME IInv
  PROVE  /\ Current \in Context
         /\ calls # <<>> => /\ Current = context[Last(calls)]
                            /\ Current.readonly
         /\ calls = <<>> =>
              Current = [scope |-> IF opened = <<>> THEN RootScope ELSE Last(opened),
                         readonly |-> FALSE]
  <1>. USE DEF IInv, TypeOK
  <1>1. Current = stack[Len(stack)] /\ Current \in Context
    BY PopProperties DEF Current
  <1>2. Len(stack) = 1 + Len(opened) + Len(calls)
    BY DEF FramesAccountedFor
  <1>3. ASSUME calls # <<>>
        PROVE  Current = context[Last(calls)] /\ Current.readonly
    <2>1. /\ Len(calls) \in Nat \ {0}
          /\ Last(calls) = calls[Len(calls)]
          /\ Last(calls) \in Proc
      BY <1>3, PopProperties
    <2>2. Len(calls) \in 1..Len(calls)
      BY <2>1
    <2>3. /\ context[calls[Len(calls)]] # NoContext
          /\ stack[1 + Len(opened) + Len(calls)] = context[calls[Len(calls)]]
      BY <2>2 DEF FramesAccountedFor
    <2>4. context[Last(calls)].readonly
      BY <2>1, <2>3 DEF FramesAccountedFor
    <2>. QED
      BY <1>1, <1>2, <2>1, <2>3, <2>4
  <1>4. ASSUME calls = <<>>, opened = <<>>
        PROVE  Current = [scope |-> RootScope, readonly |-> FALSE]
    <2>1. Len(stack) = 1
      BY <1>2, <1>4
    <2>. QED
      BY <1>1, <2>1 DEF FramesAccountedFor
  <1>5. ASSUME calls = <<>>, opened # <<>>
        PROVE  Current = [scope |-> Last(opened), readonly |-> FALSE]
    <2>1. Len(opened) \in Nat \ {0} /\ Last(opened) = opened[Len(opened)]
      BY <1>5, PopProperties
    <2>2. Len(opened) \in 1..Len(opened) /\ Len(stack) = 1 + Len(opened)
      BY <1>2, <1>5, <2>1
    <2>3. stack[1 + Len(opened)] = [scope |-> opened[Len(opened)], readonly |-> FALSE]
      BY <2>2 DEF FramesAccountedFor
    <2>. QED
      BY <1>1, <2>1, <2>2, <2>3
  <1>. QED
    BY <1>1, <1>3, <1>4, <1>5

(* Every step keeps the account of the frames.                             *)
LEMMA NextIInv == IInv /\ [Next]_vars => IInv'
  <1>. SUFFICES ASSUME IInv, [Next]_vars PROVE IInv'
    OBVIOUS
  <1>. USE DEF IInv, TypeOK
  <1>1. ASSUME NEW s \in Scope, OpenScope(s) PROVE IInv'
    <2>. DEFINE c == [scope |-> s, readonly |-> FALSE]
    <2>1. c \in Context
      BY DEF Context
    <2>2. calls = <<>>
      BY <1>1, TopOfTheStack DEF OpenScope
    <2>3. /\ stack' = Append(stack, c)
          /\ opened' = Append(opened, s)
          /\ context' = context /\ calls' = calls
      BY <1>1 DEF OpenScope, Push
    <2>4. TypeOK'
      BY <2>1, <2>3, PushProperties
    <2>5. Len(stack) = 1 + Len(opened)
      BY <2>2 DEF FramesAccountedFor
    <2>6. Len(stack') = 1 + Len(opened') + Len(calls')
      BY <2>1, <2>2, <2>3, <2>5, PushProperties
    <2>7. stack'[1] = [scope |-> RootScope, readonly |-> FALSE]
      <3>1. 1 \in 1..Len(stack)
        BY <2>5
      <3>2. stack'[1] = stack[1]
        BY <2>1, <2>3, <3>1, PushProperties
      <3>. QED
        BY <3>2 DEF FramesAccountedFor
    <2>8. ASSUME NEW i \in 1..Len(opened')
          PROVE  stack'[1 + i] = [scope |-> opened'[i], readonly |-> FALSE]
      <3>1. CASE i \in 1..Len(opened)
        <4>1. 1 + i \in 1..Len(stack)
          BY <2>5, <3>1
        <4>2. stack'[1 + i] = stack[1 + i] /\ opened'[i] = opened[i]
          BY <2>1, <2>3, <3>1, <4>1, PushProperties
        <4>. QED
          BY <3>1, <4>2 DEF FramesAccountedFor
      <3>2. CASE i = Len(opened) + 1
        <4>1. 1 + i = Len(stack) + 1
          BY <2>5, <3>2
        <4>2. stack'[1 + i] = c /\ opened'[i] = s
          BY <2>1, <2>3, <3>2, <4>1, PushProperties
        <4>. QED
          BY <4>2
      <3>3. Len(opened') = Len(opened) + 1
        BY <2>3, PushProperties
      <3>. QED
        BY <3>1, <3>2, <3>3
    <2>9. FramesAccountedFor'
      BY <2>2, <2>3, <2>6, <2>7, <2>8 DEF FramesAccountedFor
    <2>. QED
      BY <2>4, <2>9
  <1>2. ASSUME CloseScope PROVE IInv'
    <2>1. /\ calls = <<>> /\ opened # <<>>
          /\ stack' = Front(stack)
          /\ opened' = Front(opened)
          /\ context' = context /\ calls' = calls
      BY <1>2 DEF CloseScope, Pop
    <2>2. Len(stack) = 1 + Len(opened) /\ Len(opened) \in Nat \ {0}
      BY <2>1, PopProperties DEF FramesAccountedFor
    <2>3. /\ stack' \in Seq(Context) /\ Len(stack') = Len(stack) - 1
          /\ opened' \in Seq(Scope) /\ Len(opened') = Len(opened) - 1
      BY <2>1, PopProperties
    <2>4. TypeOK'
      BY <2>1, <2>2, <2>3
    <2>5. ASSUME NEW i \in 1..Len(opened')
          PROVE  stack'[1 + i] = stack[1 + i] /\ opened'[i] = opened[i]
      <3>1. i \in 1..(Len(opened) - 1) /\ 1 + i \in 1..(Len(stack) - 1)
        BY <2>2, <2>3
      <3>. QED
        BY <2>1, <3>1, PopProperties
    <2>6. stack'[1] = stack[1]
      <3>1. 1 \in 1..(Len(stack) - 1)
        BY <2>2
      <3>. QED
        BY <2>1, <3>1, PopProperties
    <2>7. 1..Len(opened') \subseteq 1..Len(opened)
      BY <2>2, <2>3
    <2>8. Len(stack') = 1 + Len(opened') + Len(calls')
      BY <2>1, <2>2, <2>3
    <2>9. FramesAccountedFor'
      <3>1. \A i \in 1..Len(opened') :
              stack'[1 + i] = [scope |-> opened'[i], readonly |-> FALSE]
        BY <2>5, <2>7 DEF FramesAccountedFor
      <3>2. calls' = <<>> /\ Len(calls') = 0
        BY <2>1, EmptySeq
      <3>. QED
        BY <2>1, <2>6, <2>8, <3>1, <3>2 DEF FramesAccountedFor
    <2>. QED
      BY <2>4, <2>9
  <1>3. ASSUME NEW p \in Proc, DefineProc(p) PROVE IInv'
    <2>. DEFINE c == [Current EXCEPT !.readonly = TRUE]
    <2>1. /\ context[p] = NoContext
          /\ context' = [context EXCEPT ![p] = c]
          /\ UNCHANGED <<stack, calls, opened>>
      BY <1>3 DEF DefineProc
    <2>2. c \in Context /\ c.readonly
      BY TopOfTheStack DEF Context
    <2>3. TypeOK'
      BY <2>1, <2>2
    <2>4. \A q \in Proc : context'[q] = IF q = p THEN c ELSE context[q]
      BY <2>1
    <2>5. \A i \in 1..Len(calls) : calls[i] \in Proc /\ calls[i] # p
      BY <2>1 DEF FramesAccountedFor
    <2>6. FramesAccountedFor'
      BY <2>1, <2>2, <2>4, <2>5 DEF FramesAccountedFor
    <2>. QED
      BY <2>3, <2>6
  <1>4. ASSUME NEW p \in Proc, Call(p) PROVE IInv'
    <2>. DEFINE c == context[p]
    <2>1. /\ c # NoContext
          /\ stack' = Append(stack, c)
          /\ calls' = Append(calls, p)
          /\ context' = context /\ opened' = opened
      BY <1>4 DEF Call, Push
    <2>2. c \in Context
      BY <2>1
    <2>3. /\ stack' \in Seq(Context) /\ stack' # <<>>
          /\ Len(stack') = Len(stack) + 1
          /\ calls' \in Seq(Proc) /\ Len(calls') = Len(calls) + 1
      BY <2>1, <2>2, PushProperties
    <2>4. TypeOK'
      BY <2>1, <2>3
    <2>5. Len(stack) = 1 + Len(opened) + Len(calls)
      BY DEF FramesAccountedFor
    <2>6. Len(stack') = 1 + Len(opened') + Len(calls')
      BY <2>1, <2>3, <2>5
    <2>7. \A i \in 1..Len(stack) : stack'[i] = stack[i]
      BY <2>1, <2>2, PushProperties
    <2>8. stack'[1] = stack[1]
      BY <2>5, <2>7
    <2>9. \A i \in 1..Len(opened) : stack'[1 + i] = stack[1 + i]
      BY <2>5, <2>7
    <2>10. ASSUME NEW i \in 1..Len(calls')
           PROVE  /\ context[calls'[i]] # NoContext
                  /\ stack'[1 + Len(opened) + i] = context[calls'[i]]
      <3>1. CASE i \in 1..Len(calls)
        <4>1. 1 + Len(opened) + i \in 1..Len(stack)
          BY <2>5, <3>1
        <4>2. calls'[i] = calls[i]
          BY <2>1, <3>1, PushProperties
        <4>. QED
          BY <2>7, <3>1, <4>1, <4>2 DEF FramesAccountedFor
      <3>2. CASE i = Len(calls) + 1
        <4>1. 1 + Len(opened) + i = Len(stack) + 1
          BY <2>5, <3>2
        <4>2. calls'[i] = p /\ stack'[1 + Len(opened) + i] = c
          BY <2>1, <2>2, <3>2, <4>1, PushProperties
        <4>. QED
          BY <2>1, <4>2
      <3>. QED
        BY <2>3, <3>1, <3>2
    <2>11. FramesAccountedFor'
      BY <2>1, <2>6, <2>8, <2>9, <2>10 DEF FramesAccountedFor
    <2>. QED
      BY <2>4, <2>11
  <1>5. ASSUME Return PROVE IInv'
    <2>1. /\ calls # <<>>
          /\ stack' = Front(stack)
          /\ calls' = Front(calls)
          /\ context' = context /\ opened' = opened
      BY <1>5 DEF Return, Pop
    <2>2. Len(stack) = 1 + Len(opened) + Len(calls) /\ Len(calls) \in Nat \ {0}
      BY <2>1, PopProperties DEF FramesAccountedFor
    <2>3. /\ stack' \in Seq(Context) /\ Len(stack') = Len(stack) - 1
          /\ calls' \in Seq(Proc) /\ Len(calls') = Len(calls) - 1
      BY <2>1, PopProperties
    <2>4. TypeOK'
      BY <2>1, <2>2, <2>3
    <2>5. \A i \in 1..(Len(stack) - 1) : stack'[i] = stack[i]
      BY <2>1, PopProperties
    <2>6. stack'[1] = stack[1]
      BY <2>2, <2>5
    <2>7. \A i \in 1..Len(opened) : stack'[1 + i] = stack[1 + i]
      BY <2>2, <2>5
    <2>8. \A i \in 1..Len(calls') :
            /\ i \in 1..Len(calls)
            /\ calls'[i] = calls[i]
            /\ stack'[1 + Len(opened) + i] = stack[1 + Len(opened) + i]
      <3>1. \A i \in 1..Len(calls') :
              /\ i \in 1..(Len(calls) - 1)
              /\ 1 + Len(opened) + i \in 1..(Len(stack) - 1)
        BY <2>2, <2>3
      <3>2. \A i \in 1..(Len(calls) - 1) : calls'[i] = calls[i]
        BY <2>1, PopProperties
      <3>3. \A i \in 1..(Len(calls) - 1) : i \in 1..Len(calls)
        BY <2>2
      <3>. QED
        BY <2>5, <3>1, <3>2, <3>3
    <2>9. Len(stack') = 1 + Len(opened') + Len(calls')
      BY <2>1, <2>2, <2>3
    <2>10. FramesAccountedFor'
      <3>1. \A i \in 1..Len(opened') :
              stack'[1 + i] = [scope |-> opened'[i], readonly |-> FALSE]
        BY <2>1, <2>7 DEF FramesAccountedFor
      <3>2. \A i \in 1..Len(calls') :
              /\ context'[calls'[i]] # NoContext
              /\ stack'[1 + Len(opened') + i] = context'[calls'[i]]
        BY <2>1, <2>8 DEF FramesAccountedFor
      <3>3. stack'[1] = [scope |-> RootScope, readonly |-> FALSE]
            /\ \A p \in Proc : context'[p] # NoContext => context'[p].readonly
        BY <2>1, <2>6 DEF FramesAccountedFor
      <3>. QED
        BY <2>9, <3>1, <3>2, <3>3 DEF FramesAccountedFor
    <2>. QED
      BY <2>4, <2>10
  <1>6. CASE UNCHANGED vars
    BY <1>6 DEF vars, FramesAccountedFor
  <1>. QED
    BY <1>1, <1>2, <1>3, <1>4, <1>5, <1>6 DEF Next

(* In every reachable state each frame of the context stack is accounted   *)
(* for, so that every pop of a return or of CLOSE_SCOPE takes the frame    *)
(* its own push put there.                                                 *)
THEOREM EveryFrameAccountedFor == Spec => []FramesAccountedFor
  <1>1. IInv => FramesAccountedFor
    BY DEF IInv
  <1>. QED
    BY InitIInv, NextIInv, <1>1, PTL DEF Spec

(* The context stack is never empty and the values in it are contexts.     *)
THEOREM RuntimeTypeCorrect == Spec => []TypeOK
  <1>1. IInv => TypeOK
    BY DEF IInv
  <1>. QED
    BY InitIInv, NextIInv, <1>1, PTL DEF Spec

(* However deep accessors nest, each runs in the context its register or   *)
(* field was defined in.                                                   *)
THEOREM AccessorsRunWhereDefined == Spec => []RunsWhereDefined
  <1>1. IInv => RunsWhereDefined
    BY TopOfTheStack DEF RunsWhereDefined
  <1>. QED
    BY InitIInv, NextIInv, <1>1, PTL DEF Spec

(* Device code finds itself in the scope it opened last: with accessors    *)
(* that never throw, no read or write moves the current scope.             *)
THEOREM AccessorsKeepCurrentScope == Spec => []CurrentScopeTracked
  <1>1. IInv => CurrentScopeTracked
    BY TopOfTheStack DEF CurrentScopeTracked
  <1>. QED
    BY InitIInv, NextIInv, <1>1, PTL DEF Spec
=============================================================================
