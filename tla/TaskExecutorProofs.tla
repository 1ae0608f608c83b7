------------------------- MODULE TaskExecutorProofs -------------------------
(***************************************************************************)
(* Proofs about TaskExecutor for every number of operations, every set of  *)
(* faults and every nesting of callbacks.                                  *)
(***************************************************************************)
EXTENDS TaskExecutor, SequenceTheorems, FiniteSetTheorems, TLAPS

-----------------------------------------------------------------------------
(* The call stack: what replacing, pushing and popping its top does.       *)

LEMMA GotoFrame ==
    ASSUME NEW S, NEW s \in Seq(S), s # << >>, NEW f \in S
    PROVE  /\ << f >> \o Tail(s) \in Seq(S)
           /\ Len(<< f >> \o Tail(s)) = Len(s)
           /\ << f >> \o Tail(s) # << >>
           /\ Head(<< f >> \o Tail(s)) = f
           /\ (<< f >> \o Tail(s))[1] = f
           /\ \A i \in 2 .. Len(s) : (<< f >> \o Tail(s))[i] = s[i]
<1>1. /\ Tail(s) \in Seq(S) /\ Len(Tail(s)) = Len(s) - 1
      /\ \A i \in 1 .. Len(Tail(s)) : Tail(s)[i] = s[i + 1]
  BY HeadTailProperties
<1>2. << f >> \in Seq(S) /\ Len(<< f >>) = 1 /\ << f >>[1] = f
  OBVIOUS
<1>3. Len(s) \in Nat \ {0}
  BY EmptySeq
<1>4. /\ << f >> \o Tail(s) \in Seq(S)
      /\ Len(<< f >> \o Tail(s)) = 1 + Len(Tail(s))
      /\ \A i \in 1 .. 1 + Len(Tail(s)) : (<< f >> \o Tail(s))[i] =
             IF i <= 1 THEN << f >>[i] ELSE Tail(s)[i - 1]
  BY <1>1, <1>2, ConcatProperties
<1>5. QED
  BY <1>1, <1>2, <1>3, <1>4, HeadTailProperties

LEMMA CallFrame ==
    ASSUME NEW S, NEW s \in Seq(S), NEW f \in S
    PROVE  /\ << f >> \o s \in Seq(S)
           /\ Len(<< f >> \o s) = Len(s) + 1
           /\ << f >> \o s # << >>
           /\ (<< f >> \o s)[1] = f
           /\ \A i \in 2 .. Len(s) + 1 : (<< f >> \o s)[i] = s[i - 1]
<1>1. << f >> \in Seq(S) /\ Len(<< f >>) = 1 /\ << f >>[1] = f
  OBVIOUS
<1>2. Len(s) \in Nat
  BY LenProperties
<1>3. /\ << f >> \o s \in Seq(S)
      /\ Len(<< f >> \o s) = 1 + Len(s)
      /\ \A i \in 1 .. 1 + Len(s) : (<< f >> \o s)[i] =
             IF i <= 1 THEN << f >>[i] ELSE s[i - 1]
  BY <1>1, ConcatProperties
<1>4. QED
  BY <1>1, <1>2, <1>3

-----------------------------------------------------------------------------
(* Type correctness.                                                       *)

LEMMA TopFrame ==
    ASSUME TypeOK, stack # << >>
    PROVE  /\ Top \in Frames
           /\ Top = stack[1]
           /\ Len(stack) \in Nat \ {0}
           /\ Tail(stack) \in Seq(Frames)
BY HeadTailProperties, EmptySeq DEF TypeOK, Top

LEMMA GotoType ==
    ASSUME TypeOK, stack # << >>, NEW f \in Frames, Goto(f)
    PROVE  stack' \in Seq(Frames)
BY GotoFrame DEF TypeOK, Goto

LEMMA TypeInit == Init => TypeOK
<1> SUFFICES ASSUME Init PROVE TypeOK
  OBVIOUS
<1> USE ConstantsAssumption DEF Init, ConstantsAssumption
<1>1. counter \in 0 .. MaxAsync /\ syncs \in 0 .. MaxSync /\ irqs \in 0 .. MaxIrqs
  OBVIOUS
<1>2. faults \in 0 .. MaxFaults /\ served \in Nat
  OBVIOUS
<1>3. task \in [Num -> Tasks \cup {NoTask}]
  OBVIOUS
<1>4. pending \in [Num -> Seq(Num)]
  OBVIOUS
<1>5. running \in Seq(Num) /\ finished \in Seq(Num)
  OBVIOUS
<1>6. dependent \in SUBSET Num /\ written \in SUBSET Num
  OBVIOUS
<1>7. triggeringCore \in Cores \cup {NoCore}
  OBVIOUS
<1>8. stack \in Seq(Frames) /\ requests \in Seq(Requests) /\ replies \in Seq(Replies)
  OBVIOUS
<1>9. irqEnabled \in BOOLEAN /\ answers \in SUBSET ((Num \cup {Sync}) \X Nat)
  OBVIOUS
<1>10. QED
  BY <1>1, <1>2, <1>3, <1>4, <1>5, <1>6, <1>7, <1>8, <1>9 DEF TypeOK

LEMMA SendType ==
    ASSUME TypeOK, NEW n \in Num \cup {Sync}, NEW kind \in AllKinds, Send(n, kind)
    PROVE  requests' \in Seq(Requests) /\ faults' \in 0 .. MaxFaults
BY DEF TypeOK, Send, Requests

LEMMA SendFailsType ==
    ASSUME TypeOK, SendFails
    PROVE  requests' \in Seq(Requests) /\ faults' \in 0 .. MaxFaults
BY ConstantsAssumption DEF ConstantsAssumption, TypeOK, SendFails, Fault

LEMMA FaultType ==
    ASSUME TypeOK, NEW f, Fault(f)
    PROVE  faults' \in 0 .. MaxFaults
BY ConstantsAssumption DEF ConstantsAssumption, TypeOK, Fault

LEMMA AcceptedTask ==
    ASSUME TypeOK, NEW n \in Accepted
    PROVE  n \in Num /\ task[n] \in Tasks
BY DEF TypeOK, Accepted

\* The line is never misread: what is left of a reply is again a reply.
LEMMA UnreadType ==
    ASSUME NEW r \in Replies, NEW state
    PROVE  Unread(r, state) \in Seq(Replies)
<1>1. CASE state = "UNEXPECTED_OPCODE_ERROR" /\ r.len > 1
  <2> DEFINE rest == [r EXCEPT !.opcode = "other", !.len = @ - 1]
  <2>1. r \in [opcode : Opcodes, from : Nat, intact : BOOLEAN, len : 1 .. 4]
    BY DEF Replies
  <2>2. "other" \in Opcodes
    BY DEF Opcodes
  <2>3. r.len - 1 \in 1 .. 4
    BY <1>1, <2>1
  <2>4. rest \in [opcode : Opcodes, from : Nat, intact : BOOLEAN, len : 1 .. 4]
    BY <2>1, <2>2, <2>3
  <2>5. rest.opcode = "other"
    BY <2>1
  <2>6. rest \in Replies
    BY <2>4, <2>5 DEF Replies
  <2>7. QED
    BY <1>1, <2>6 DEF Unread
<1>2. CASE ~(state = "UNEXPECTED_OPCODE_ERROR" /\ r.len > 1)
  BY <1>2 DEF Unread
<1>3. QED
  BY <1>1, <1>2

LEMMA ReceiveType ==
    ASSUME TypeOK, NEW state, Receive(state)
    PROVE  /\ stack # << >> /\ Top.at = "recv"
           /\ Head(replies) \in Replies
           /\ replies' \in Seq(Replies)
           /\ faults' \in 0 .. MaxFaults
<1>1. replies \in Seq(Replies) /\ replies # << >> /\ stack # << >> /\ Top.at = "recv"
  BY DEF TypeOK, Receive, At
<1>2. Head(replies) \in Replies /\ Tail(replies) \in Seq(Replies)
  BY <1>1
<1>3. Unread(Head(replies), state) \in Seq(Replies)
  BY <1>2, UnreadType
<1>4. replies' \in Seq(Replies)
  BY <1>2, <1>3, ConcatProperties DEF Receive
<1>5. faults' \in 0 .. MaxFaults
  BY DEF TypeOK, Receive
<1>6. QED
  BY <1>1, <1>2, <1>4, <1>5

LEMMA TimeoutType ==
    ASSUME TypeOK, Timeout
    PROVE  /\ stack # << >>
           /\ replies' \in Seq(Replies)
           /\ faults' \in 0 .. MaxFaults
BY FaultType DEF TypeOK, Timeout, At

LEMMA TopInPlace ==
    ASSUME TypeOK, TasksInPlace, stack # << >>
    PROVE  Top \in GoodFrames
BY HeadTailProperties DEF TasksInPlace, Top

\* Every step of the executor, its user and the board keeps the types.
LEMMA TypeNext == TypeOK /\ TasksInPlace /\ [Next]_vars => TypeOK'
<1> SUFFICES ASSUME TypeOK, TasksInPlace, [Next]_vars PROVE TypeOK'
  OBVIOUS
<1> USE ConstantsAssumption
<1> USE DEF hostVars, boardVars
<1>1. ASSUME NEW kind \in Kinds, NEW dep \in Accepted \cup {0},
             StartAsyncTask(kind, dep)
      PROVE  TypeOK'
  <2> DEFINE n == counter + 1
  <2>1. n \in Num /\ counter' \in 0 .. MaxAsync
    BY <1>1 DEF ConstantsAssumption, TypeOK, StartAsyncTask, Num
  <2>2. kind \in AllKinds /\ dep \in Num \cup {0}
    BY DEF ConstantsAssumption, Accepted
  <2>3. NewTask(kind, dep, TRUE, 1) \in Tasks /\ NewTask(kind, dep, FALSE, 2) \in Tasks
    BY <2>2 DEF NewTask, Tasks
  <2>4. task' \in [Num -> Tasks \cup {NoTask}]
    <3>1. \/ task' = task
          \/ task' = [task EXCEPT ![n] = NewTask(kind, dep, TRUE, 1)]
          \/ task' = [task EXCEPT ![n] = NewTask(kind, dep, FALSE, 2)]
      BY <1>1 DEF StartAsyncTask
    <3>2. QED
      BY <3>1, <2>1, <2>3 DEF TypeOK
  <2>5. pending' \in [Num -> Seq(Num)]
    <3>1. \/ pending' = pending
          \/ dep > 0 /\ pending' = [pending EXCEPT ![dep] = Append(@, n)]
      BY <1>1 DEF StartAsyncTask, Retains
    <3>2. dep \in Num => Append(pending[dep], n) \in Seq(Num)
      BY <2>1, AppendProperties DEF TypeOK
    <3>3. QED
      BY <3>1, <3>2, <2>2 DEF TypeOK
  <2>6. running' \in Seq(Num) /\ dependent' \in SUBSET Num
    <3>1. /\ running' = running \/ running' = Append(running, n)
          /\ dependent' = dependent \/ dependent' = dependent \cup {n}
      BY <1>1 DEF StartAsyncTask
    <3>2. Append(running, n) \in Seq(Num)
      BY <2>1, AppendProperties DEF TypeOK
    <3>3. QED
      BY <3>1, <3>2, <2>1 DEF TypeOK
  <2>7. requests' \in Seq(Requests) /\ faults' \in 0 .. MaxFaults
    BY <1>1, <2>1, <2>2, SendType, SendFailsType DEF TypeOK, StartAsyncTask
  <2>8. QED
    BY <1>1, <2>1, <2>4, <2>5, <2>6, <2>7 DEF TypeOK, StartAsyncTask
<1>2. ASSUME NEW kind \in Kinds, DoSyncTask(kind)
      PROVE  TypeOK'
  <2>1. Fetch("sync", kind) \in Frames
    BY DEF ConstantsAssumption, Fetch, Frames, Places, Sync
  <2>2. stack' \in Seq(Frames)
    BY <1>2, <2>1, CallFrame DEF TypeOK, DoSyncTask, Call
  <2>3. syncs' \in 0 .. MaxSync
    BY <1>2 DEF ConstantsAssumption, TypeOK, DoSyncTask
  <2>4. QED
    BY <1>2, <2>2, <2>3 DEF TypeOK, DoSyncTask
<1>3. CASE HandleReplies
  <2>1. Fetch("handle", "read") \in Frames
    BY DEF Fetch, Frames, Places, Sync, AllKinds
  <2>2. stack' \in Seq(Frames)
    BY <1>3, <2>1, CallFrame DEF TypeOK, HandleReplies, Call
  <2>3. QED
    BY <1>3, <2>2 DEF TypeOK, HandleReplies
<1>4. CASE UserReturns
  <2>1. stack # << >>
    BY <1>4 DEF UserReturns, At
  <2>2. /\ [Top EXCEPT !.at = "release"] \in Frames
        /\ [Top EXCEPT !.at = "return"] \in Frames
    BY <2>1, TopFrame DEF Frames, Places
  <2>3. stack' \in Seq(Frames)
    BY <1>4, <2>1, <2>2, GotoType DEF UserReturns
  <2>4. QED
    BY <1>4, <2>3 DEF TypeOK, UserReturns
<1>5. CASE TakeRunning
  <2>1. stack # << >> /\ Head(running) \in Num /\ running' \in Seq(Num)
    BY <1>5 DEF TypeOK, TakeRunning, At
  <2>2. [Top EXCEPT !.at = "recv", !.task = Head(running), !.depth = 0] \in Frames
    BY <2>1, TopFrame, 0 \in 0 .. 1 DEF Frames, Places
  <2>3. stack' \in Seq(Frames)
    BY <1>5, <2>1, <2>2, GotoType DEF TakeRunning
  <2>4. QED
    BY <1>5, <2>1, <2>3 DEF TypeOK, TakeRunning
<1>6. CASE ReceiveInterrupt
  <2>1. stack # << >> /\ Head(replies) \in Replies /\ Tail(replies) \in Seq(Replies)
    BY <1>6 DEF TypeOK, ReceiveInterrupt, At
  <2>2. /\ [Top EXCEPT !.depth = 1] \in Frames
        /\ [Top EXCEPT !.at = "aborted", !.task = Top.task] \in Frames
    <3>1. Top \in Frames /\ 1 \in 0 .. 1
      BY <2>1, TopFrame
    <3>2. [Top EXCEPT !.depth = 1] \in Frames
      BY <3>1 DEF Frames
    <3>3. [Top EXCEPT !.at = "aborted", !.task = Top.task] \in Frames
      BY <3>1 DEF Frames, Places
    <3>4. QED
      BY <3>2, <3>3
  <2>3. stack' \in Seq(Frames)
    BY <1>6, <2>1, <2>2, GotoType DEF ReceiveInterrupt, Abort
  <2>4. replies' \in Seq(Replies)
    BY <1>6, <2>1 DEF TypeOK, ReceiveInterrupt
  <2>5. triggeringCore' \in Cores \cup {NoCore}
    BY <1>6, <2>1 DEF TypeOK, ReceiveInterrupt, Replies
  <2>6. QED
    BY <1>6, <2>3, <2>4, <2>5 DEF TypeOK, ReceiveInterrupt
<1>7. CASE AsyncSuccess
  <2>1. Receive("SUCCESS")
    BY <1>7 DEF AsyncSuccess
  <2>2. /\ stack # << >> /\ Head(replies) \in Replies
        /\ replies' \in Seq(Replies) /\ faults' \in 0 .. MaxFaults
    BY <2>1, ReceiveType
  <2>3. Top.task \in Num
    BY <1>7, <2>2, TopFrame DEF Frames, AsyncSuccess
  <2> DEFINE q == IF Top.task \in dependent THEN Retained(Top.task) ELSE << >>
  <2>4. q \in Seq(Num)
    BY <2>3 DEF TypeOK, Retained
  <2>5. /\ [Top EXCEPT !.at = "callback", !.retained = q] \in Frames
        /\ [Top EXCEPT !.at = "release", !.retained = q] \in Frames
    BY <2>2, <2>4, TopFrame DEF Frames, Places
  <2>6. stack' \in Seq(Frames)
    BY <1>7, <2>2, <2>5, GotoType DEF AsyncSuccess
  <2>7. Head(replies).from \in Nat
    BY <2>2 DEF Replies
  <2>8. answers' \in SUBSET ((Num \cup {Sync}) \X Nat)
    <3>1. answers' = answers \cup {<<Top.task, Head(replies).from>>}
      BY <1>7 DEF AsyncSuccess
    <3>. QED
      BY <2>3, <2>7, <3>1 DEF TypeOK
  <2>9. pending' \in [Num -> Seq(Num)]
    <3>1. pending' = pending \/ pending' = [pending EXCEPT ![Top.task] = << >>]
      BY <1>7 DEF AsyncSuccess, Erase
    <3>2. << >> \in Seq(Num)
      OBVIOUS
    <3>3. QED
      BY <3>1, <3>2 DEF TypeOK
  <2>10. finished' \in Seq(Num) /\ written' \in SUBSET Num
    <3>1. /\ finished' = finished \/ finished' = Append(finished, Top.task)
          /\ written' = written \/ written' = written \cup {Top.task}
      BY <1>7 DEF AsyncSuccess
    <3>2. Append(finished, Top.task) \in Seq(Num)
      BY <2>3, AppendProperties DEF TypeOK
    <3>3. QED
      BY <3>1, <3>2, <2>3 DEF TypeOK
  <2>11. dependent' \in SUBSET Num
    BY <1>7 DEF TypeOK, AsyncSuccess
  <2>12. QED
    BY <1>7, <2>2, <2>6, <2>8, <2>9, <2>10, <2>11 DEF TypeOK, AsyncSuccess
<1>8. CASE AsyncFailure
  <2>1. stack # << >> /\ replies' \in Seq(Replies) /\ faults' \in 0 .. MaxFaults
    BY <1>8, ReceiveType, TimeoutType DEF AsyncFailure
  <2>2. [Top EXCEPT !.at = "retry"] \in Frames
    BY <2>1, TopFrame DEF Frames, Places
  <2>3. stack' \in Seq(Frames)
    BY <1>8, <2>1, <2>2, GotoType DEF AsyncFailure
  <2>4. QED
    BY <1>8, <2>1, <2>3 DEF TypeOK, AsyncFailure
<1>9. CASE Retry
  <2>1. stack # << >> /\ Top \in Frames /\ Top.at = "retry"
    BY <1>9, TopFrame DEF Retry, At
  <2>2. Top.task \in Num /\ task[Top.task] \in Tasks
    BY <2>1, TopInPlace, AcceptedTask DEF GoodFrames, Requested
  <2>3. /\ [Top EXCEPT !.at = "loop"] \in Frames
        /\ GiveUp(Top) \in Frames
    BY <2>1 DEF Frames, Places, GiveUp
  <2>4. stack' \in Seq(Frames)
    BY <1>9, <2>1, <2>3, GotoType DEF Retry
  <2>5. [task[Top.task] EXCEPT !.attempt = @ + 1] \in Tasks /\ task[Top.task].kind \in AllKinds
    BY <2>2 DEF Tasks
  <2>6. task' \in [Num -> Tasks \cup {NoTask}]
    BY <1>9, <2>2, <2>5 DEF TypeOK, Retry
  <2>7. running' \in Seq(Num)
    <3>1. running' = running \/ running' = Append(running, Top.task)
      BY <1>9 DEF Retry, Requeue
    <3>2. Append(running, Top.task) \in Seq(Num)
      BY <2>2, AppendProperties DEF TypeOK
    <3>3. QED
      BY <3>1, <3>2 DEF TypeOK
  <2>8. requests' \in Seq(Requests) /\ faults' \in 0 .. MaxFaults
    BY <1>9, <2>2, <2>5, SendType, SendFailsType DEF TypeOK, Retry
  <2>9. QED
    BY <1>9, <2>4, <2>6, <2>7, <2>8 DEF TypeOK, Retry
<1>10. CASE Release
  <2>1. stack # << >> /\ Top \in Frames /\ Top.retained \in Seq(Releasable)
    BY <1>10, TopFrame, TopInPlace DEF Release, At, GoodFrames
  <2>2. [Top EXCEPT !.at = "loop"] \in Frames
    BY <2>1 DEF Frames, Places
  <2>3. CASE Top.retained = << >>
    <3>1. stack' \in Seq(Frames)
      BY <1>10, <2>1, <2>2, <2>3, GotoType DEF Release
    <3>2. QED
      BY <1>10, <2>3, <3>1 DEF TypeOK, Release
  <2>4. CASE Top.retained # << >>
    <3> DEFINE n == Head(Top.retained)
    <3>1. n \in Releasable /\ Top.retained \in Seq(Num)
      BY <2>1, <2>4, HeadTailProperties DEF Frames
    <3>2. n \in Num /\ task[n] \in Tasks /\ Tail(Top.retained) \in Seq(Num)
      BY <2>4, <3>1, AcceptedTask, HeadTailProperties DEF Releasable
    <3>3. [Top EXCEPT !.retained = Tail(@)] \in Frames
      BY <2>1, <3>2 DEF Frames
    <3>4. stack' \in Seq(Frames)
      BY <1>10, <2>1, <2>4, <3>3, GotoType DEF Release
    <3>5. [task[n] EXCEPT !.attempt = @ + 1] \in Tasks /\ task[n].kind \in AllKinds
      BY <3>2 DEF Tasks
    <3>6. task' \in [Num -> Tasks \cup {NoTask}]
      BY <1>10, <2>4, <3>2, <3>5 DEF TypeOK, Release
    <3>7. running' \in Seq(Num) /\ dependent' \in SUBSET Num
      <4>1. \/ running' = running /\ dependent' = dependent
            \/ running' = Append(running, n) /\ dependent' = dependent \cup {n}
        BY <1>10, <2>4 DEF Release
      <4>2. Append(running, n) \in Seq(Num)
        BY <3>2, AppendProperties DEF TypeOK
      <4>3. QED
        BY <3>2, <4>1, <4>2 DEF TypeOK
    <3>8. requests' \in Seq(Requests) /\ faults' \in 0 .. MaxFaults
      BY <1>10, <2>4, <3>2, <3>5, SendType, SendFailsType DEF TypeOK, Release
    <3>9. QED
      BY <1>10, <2>4, <3>4, <3>6, <3>7, <3>8 DEF TypeOK, Release
  <2>5. QED
    BY <2>3, <2>4
<1>11. CASE Drain
  <2>1. stack # << >>
    BY <1>11 DEF Drain, At
  <2>2. /\ [Top EXCEPT !.at = "isr"] \in Frames
        /\ [Top EXCEPT !.at = "return"] \in Frames
        /\ [Top EXCEPT !.at = "aborted", !.task = Sync] \in Frames
    BY <2>1, TopFrame DEF Frames, Places
  <2>3. stack' \in Seq(Frames)
    BY <1>11, <2>1, <2>2, GotoType DEF Drain, Abort
  <2>4. replies' \in Seq(Replies)
    <3>1. replies = << >> => replies' = replies
      BY <1>11 DEF Drain
    <3>2. replies' = replies \/ replies' = Tail(replies)
      BY <1>11 DEF Drain
    <3>3. replies # << >> => Tail(replies) \in Seq(Replies)
      BY HeadTailProperties DEF TypeOK
    <3>4. QED
      BY <3>1, <3>2, <3>3 DEF TypeOK
  <2>5. triggeringCore' \in Cores \cup {NoCore}
    BY <1>11 DEF TypeOK, Drain, ResetTriggeringCore
  <2>6. served' \in Nat
    BY <1>11 DEF TypeOK, Drain
  <2>7. faults' \in 0 .. MaxFaults
    BY <1>11, FaultType DEF TypeOK, Drain
  <2>8. QED
    BY <1>11, <2>3, <2>4, <2>5, <2>6, <2>7 DEF TypeOK, Drain
<1>12. CASE FetchReturns
  <2>1. stack # << >>
    BY <1>12 DEF FetchReturns, At
  <2>2. [Top EXCEPT !.at = "send"] \in Frames
    BY <2>1, TopFrame DEF Frames, Places
  <2>3. stack' \in Seq(Frames)
    BY <1>12, <2>1, <2>2, TopFrame, GotoType DEF FetchReturns, Return
  <2>4. finished' \in Seq(Num)
    <3>1. finished' = finished \/ finished' = << >>
      BY <1>12 DEF FetchReturns
    <3>2. << >> \in Seq(Num)
      OBVIOUS
    <3>3. QED
      BY <3>1, <3>2 DEF TypeOK
  <2>5. written' \in SUBSET Num
    BY <1>12 DEF TypeOK, FetchReturns
  <2>6. QED
    BY <1>12, <2>3, <2>4, <2>5 DEF TypeOK, FetchReturns
<1>13. CASE SyncSend
  <2>1. stack # << >> /\ Top \in Frames /\ Top.attempt \in Nat /\ Top.kind \in AllKinds
    BY <1>13, TopFrame DEF SyncSend, At, Frames
  <2> DEFINE f == [Top EXCEPT !.attempt = @ + 1]
  <2>2. f \in Frames
    BY <2>1 DEF Frames
  <2>3. [f EXCEPT !.at = "recv", !.task = Sync, !.depth = 0] \in Frames /\ [f EXCEPT !.at = "send"] \in Frames
    <3>1. [f EXCEPT !.at = "recv", !.task = Sync, !.depth = 0] \in Frames
      BY <2>2, 0 \in 0 .. 1 DEF Frames, Places
    <3>2. [f EXCEPT !.at = "send"] \in Frames
      BY <2>2 DEF Frames, Places
    <3>3. QED
      BY <3>1, <3>2
  <2>4. stack' \in Seq(Frames)
    BY <1>13, <2>1, <2>3, TopFrame, GotoType DEF SyncSend, NextAttempt, Return
  <2>5. requests' \in Seq(Requests) /\ faults' \in 0 .. MaxFaults
    BY <1>13, <2>1, SendType, SendFailsType DEF SyncSend
  <2>6. QED
    BY <1>13, <2>4, <2>5 DEF TypeOK, SyncSend
<1>14. CASE SyncSuccess
  <2>1. Receive("SUCCESS")
    BY <1>14 DEF SyncSuccess
  <2>2. /\ stack # << >> /\ Head(replies) \in Replies
        /\ replies' \in Seq(Replies) /\ faults' \in 0 .. MaxFaults
    BY <2>1, ReceiveType
  <2>3. stack' \in Seq(Frames)
    BY <1>14, <2>2, TopFrame DEF SyncSuccess, Return
  <2>4. Head(replies).from \in Nat
    BY <2>2 DEF Replies
  <2>5. answers' \in SUBSET ((Num \cup {Sync}) \X Nat)
    BY <1>14, <2>4 DEF TypeOK, SyncSuccess
  <2>6. QED
    BY <1>14, <2>2, <2>3, <2>5 DEF TypeOK, SyncSuccess
<1>15. CASE SyncRetry
  <2>1. stack # << >> /\ replies' \in Seq(Replies) /\ faults' \in 0 .. MaxFaults
    BY <1>15, ReceiveType DEF SyncRetry
  <2>2. [Top EXCEPT !.at = "send"] \in Frames
    BY <2>1, TopFrame DEF Frames, Places
  <2>3. stack' \in Seq(Frames)
    BY <1>15, <2>1, <2>2, TopFrame, GotoType DEF SyncRetry, NextAttempt, Return
  <2>4. QED
    BY <1>15, <2>1, <2>3 DEF TypeOK, SyncRetry
<1>16. CASE SyncAbort
  <2>1. stack # << >> /\ replies' \in Seq(Replies) /\ faults' \in 0 .. MaxFaults
    BY <1>16, ReceiveType, TimeoutType DEF SyncAbort
  <2>2. [Top EXCEPT !.at = "aborted", !.task = Sync] \in Frames
    BY <2>1, TopFrame DEF Frames, Places
  <2>3. stack' \in Seq(Frames)
    BY <1>16, <2>1, <2>2, GotoType DEF SyncAbort, Abort
  <2>4. QED
    BY <1>16, <2>1, <2>3 DEF TypeOK, SyncAbort
<1>17. CASE Answer
  <2> DEFINE r == Head(requests)
             good == Reply(ExpectedOpcode(r.kind), r.from, TRUE)
  <2>1. r \in Requests /\ requests' \in Seq(Requests)
    BY <1>17, HeadTailProperties DEF TypeOK, Answer
  <2>2. r.from \in Nat
    BY <2>1 DEF Requests, Num, Sync
  <2>3. \A opcode \in {"ACK", "DATA", "NACK"} : Reply(opcode, r.from, TRUE) \in Replies
    BY <2>2 DEF Reply, ReplyLength, Replies, Opcodes
  <2>4. ExpectedOpcode(r.kind) \in {"ACK", "DATA"} /\ good \in Replies
    BY <2>3 DEF ExpectedOpcode
  <2>5. [good EXCEPT !.intact = FALSE] \in Replies
    BY <2>4 DEF Replies
  <2>6. [good EXCEPT !.opcode = "other"] \in Replies
    BY <2>4 DEF Replies, Opcodes
  <2>7. replies' \in Seq(Replies)
    <3>1. replies' = replies \/ \E a \in Replies : replies' = Append(replies, a)
      BY <1>17, <2>3, <2>4, <2>5, <2>6 DEF Answer
    <3>2. \A a \in Replies : Append(replies, a) \in Seq(Replies)
      BY AppendProperties DEF TypeOK
    <3>3. QED
      BY <3>1, <3>2 DEF TypeOK
  <2>8. irqEnabled' \in BOOLEAN /\ faults' \in 0 .. MaxFaults
    BY <1>17, FaultType DEF TypeOK, Answer
  <2>9. QED
    BY <1>17, <2>1, <2>7, <2>8 DEF TypeOK, Answer
<1>18. ASSUME NEW core \in Cores, RaiseInterrupt(core)
       PROVE  TypeOK'
  <2>1. \A intact \in BOOLEAN : Reply("INT", core, intact) \in Replies
    BY DEF ConstantsAssumption, Reply, ReplyLength, Replies, Opcodes
  <2>2. replies' \in Seq(Replies)
    <3>1. \E a \in Replies : replies' = Append(replies, a)
      BY <1>18, <2>1 DEF RaiseInterrupt
    <3>2. \A a \in Replies : Append(replies, a) \in Seq(Replies)
      BY AppendProperties DEF TypeOK
    <3>3. QED
      BY <3>1, <3>2
  <2>3. irqs' \in 0 .. MaxIrqs /\ faults' \in 0 .. MaxFaults /\ irqEnabled' \in BOOLEAN
    <3>1. irqs' \in 0 .. MaxIrqs
      BY <1>18 DEF ConstantsAssumption, TypeOK, RaiseInterrupt
    <3>2. faults' \in 0 .. MaxFaults
      BY <1>18, FaultType DEF TypeOK, RaiseInterrupt
    <3>3. irqEnabled' \in BOOLEAN
      BY <1>18 DEF RaiseInterrupt
    <3>4. QED
      BY <3>1, <3>2, <3>3
  <2>4. QED
    BY <1>18, <2>2, <2>3 DEF TypeOK, RaiseInterrupt
<1>19. CASE UNCHANGED vars
  BY <1>19 DEF TypeOK, vars
<1>20. QED
  BY <1>1, <1>2, <1>3, <1>4, <1>5, <1>6, <1>7, <1>8, <1>9, <1>10, <1>11, <1>12,
     <1>13, <1>14, <1>15, <1>16, <1>17, <1>18, <1>19
     DEF Next, User, Host, Board

-----------------------------------------------------------------------------
(* Every task is in its place, so a retained task waits for its answer.    *)

\* Numbers not yet given have no task.
Fresh == \A n \in Num : n > counter => task[n] = NoTask

IInv == TypeOK /\ TasksInPlace /\ HeldUntilAnswered /\ Fresh

LEMMA NewTop ==
    ASSUME TypeOK, TypeOK', stack # << >>, NEW f, Goto(f)
    PROVE  f \in Frames
<1>1. stack \in Seq(Frames \cup {f}) /\ f \in Frames \cup {f}
  BY SeqMonotonic DEF TypeOK
<1>2. stack' # << >> /\ Head(stack') = f
  BY <1>1, GotoFrame DEF Goto
<1>3. stack' \in Seq(Frames)
  BY DEF TypeOK
<1>4. QED
  BY <1>2, <1>3, HeadTailProperties

\* A frame that is not in the middle of a task is good if its queue is.
LEMMA SettledFrame ==
    ASSUME NEW f \in Frames, f.at \notin {"recv", "retry"}, f.retained \in Seq(Releasable)
    PROVE  f \in GoodFrames
BY DEF GoodFrames

LEMMA GotoGood ==
    ASSUME TasksInPlace, stack # << >>, NEW f \in GoodFrames, Goto(f)
    PROVE  stack' \in Seq(GoodFrames)
BY GotoFrame DEF TasksInPlace, Goto

LEMMA GotoSettled ==
    ASSUME TypeOK, TypeOK', TasksInPlace, stack # << >>, NEW f, Goto(f),
           f.at \notin {"recv", "retry"}, f.retained = Top.retained
    PROVE  stack' \in Seq(GoodFrames)
<1>1. f \in Frames
  BY NewTop
<1>2. f.retained \in Seq(Releasable)
  BY TopInPlace DEF GoodFrames
<1>3. f \in GoodFrames
  BY <1>1, <1>2, SettledFrame
<1>4. QED
  BY <1>3, GotoGood

LEMMA ReturnGood ==
    ASSUME TasksInPlace, stack # << >>, Return
    PROVE  stack' \in Seq(GoodFrames)
BY HeadTailProperties DEF TasksInPlace, Return

\* A step that leaves the tasks and their answers alone has only to keep
\* "running" and the stack in order.
LEMMA QuietStep ==
    ASSUME IInv, UNCHANGED <<counter, task, answers, pending>>,
           running' \in Seq(Requested), stack' \in Seq(GoodFrames)
    PROVE  TasksInPlace' /\ HeldUntilAnswered' /\ Fresh'
<1>1. /\ Accepted' = Accepted /\ Requested' = Requested
      /\ Releasable' = Releasable /\ \A d \in Num : RetainedFor(d)' = RetainedFor(d)
  BY DEF Accepted, Requested, Releasable, RetainedFor, Answered
<1>2. GoodFrames' = GoodFrames
  BY <1>1 DEF GoodFrames
<1>3. TasksInPlace'
  BY <1>1, <1>2 DEF IInv, TasksInPlace
<1>4. HeldUntilAnswered'
  BY <1>1 DEF IInv, HeldUntilAnswered, Answered
<1>5. Fresh'
  BY DEF IInv, Fresh
<1>6. QED
  BY <1>3, <1>4, <1>5

\* Tasks are never forgotten, change only their number of attempts, and stay
\* answered: a step that keeps to this leaves every task where it belongs.
Grows ==
    /\ answers \subseteq answers'
    /\ \A n \in Accepted :
          /\ n \in Accepted'
          /\ task'[n].held = task[n].held
          /\ task'[n].dep = task[n].dep
          /\ task[n].attempt > 1 => task'[n].attempt > 1

LEMMA GrowsKeeps ==
    ASSUME Grows
    PROVE  /\ Requested \subseteq Requested'
           /\ Releasable \subseteq Releasable'
           /\ \A d \in Num : RetainedFor(d) \subseteq RetainedFor(d)'
           /\ GoodFrames \subseteq GoodFrames'
<1>1. Requested \subseteq Requested'
  BY DEF Grows, Requested
<1>2. Releasable \subseteq Releasable'
  BY DEF Grows, Releasable, Answered
<1>3. \A d \in Num : RetainedFor(d) \subseteq RetainedFor(d)'
  BY DEF Grows, RetainedFor
<1>4. ASSUME NEW f \in GoodFrames
      PROVE  f \in GoodFrames'
  <2>1. f.retained \in Seq(Releasable')
    BY <1>2, SeqMonotonic DEF GoodFrames
  <2>2. QED
    BY <1>1, <2>1 DEF GoodFrames
<1>5. QED
  BY <1>1, <1>2, <1>3, <1>4

LEMMA GrowsSeq ==
    ASSUME Grows, TasksInPlace
    PROVE  /\ running \in Seq(Requested')
           /\ \A d \in Num : pending[d] \in Seq(RetainedFor(d)')
           /\ stack \in Seq(GoodFrames')
BY GrowsKeeps, SeqMonotonic DEF TasksInPlace

LEMMA PlaceInit == Init => TasksInPlace /\ HeldUntilAnswered /\ Fresh
<1> SUFFICES ASSUME Init PROVE TasksInPlace /\ HeldUntilAnswered /\ Fresh
  OBVIOUS
<1>1. Accepted = {} /\ Fresh
  BY DEF Init, Accepted, Fresh
<1>2. HeldUntilAnswered
  BY <1>1 DEF HeldUntilAnswered
<1>3. /\ running = << >> /\ stack = << >>
      /\ \A d \in Num : pending[d] = << >>
  BY DEF Init
<1>4. TasksInPlace
  BY <1>3, EmptySeq DEF TasksInPlace
<1>5. QED
  BY <1>1, <1>2, <1>4

\* The steps that start, answer or send tasks.
LEMMA StartPlace ==
    ASSUME IInv, TypeOK', NEW kind \in Kinds, NEW dep \in Accepted \cup {0},
           StartAsyncTask(kind, dep)
    PROVE  TasksInPlace' /\ HeldUntilAnswered' /\ Fresh'
<1> DEFINE n == counter + 1
<1>1. n \in Num /\ task[n] = NoTask /\ n \notin Accepted
  BY ConstantsAssumption
     DEF ConstantsAssumption, IInv, TypeOK, Fresh, StartAsyncTask, Num, Accepted
<1>2. task \in [Num -> Tasks \cup {NoTask}] /\ counter \in Nat /\ counter' = n
  BY DEF IInv, TypeOK, StartAsyncTask
<1>3. dep \in Num \cup {0} /\ kind \in AllKinds
  BY ConstantsAssumption DEF ConstantsAssumption, Accepted
<1>4. \/ task' = task
      \/ task' = [task EXCEPT ![n] = NewTask(kind, dep, TRUE, 1)]
      \/ task' = [task EXCEPT ![n] = NewTask(kind, dep, FALSE, 2)]
  BY DEF StartAsyncTask
<1>5. answers' = answers /\ stack' = stack
  BY DEF StartAsyncTask
<1>6. \A m \in Num : m # n => task'[m] = task[m]
  BY <1>2, <1>4
<1>7. Grows
  BY <1>1, <1>5, <1>6 DEF Grows, Accepted
<1>8. Fresh'
  BY <1>1, <1>2, <1>6 DEF IInv, Fresh, Num
<1>9. task'[n] = task[n] \/ task'[n].attempt = 1 \/ ~task'[n].held
  BY <1>1, <1>2, <1>4 DEF NewTask
<1>10. HeldUntilAnswered'
  BY <1>1, <1>5, <1>6, <1>9 DEF IInv, HeldUntilAnswered, Accepted, Answered
<1>11. running' \in Seq(Requested')
  <2>1. CASE running' = running
    BY <2>1, <1>7, GrowsSeq DEF IInv
  <2>2. CASE /\ running' = Append(running, n)
             /\ task' = [task EXCEPT ![n] = NewTask(kind, dep, FALSE, 2)]
    <3>1. task'[n] = NewTask(kind, dep, FALSE, 2)
      BY <1>1, <1>2, <2>2
    <3>2. n \in Requested'
      BY <1>1, <1>3, <3>1 DEF Requested, Accepted, NewTask, NoTask, AllKinds
    <3>3. running \in Seq(Requested')
      BY <1>7, GrowsSeq DEF IInv
    <3>4. QED
      BY <2>2, <3>2, <3>3, AppendProperties
  <2>3. QED
    BY <2>1, <2>2 DEF StartAsyncTask
<1>12. \A d \in Num : pending'[d] \in Seq(RetainedFor(d)')
  <2>1. CASE pending' = pending
    BY <2>1, <1>7, GrowsSeq DEF IInv
  <2>2. CASE /\ dep > 0 /\ pending' = [pending EXCEPT ![dep] = Append(@, n)]
             /\ task' = [task EXCEPT ![n] = NewTask(kind, dep, TRUE, 1)]
    <3>1. task'[n] = NewTask(kind, dep, TRUE, 1) /\ dep \in Num
      BY <1>1, <1>2, <1>3, <2>2
    <3>2. n \in RetainedFor(dep)'
      BY <1>1, <1>3, <3>1 DEF RetainedFor, Accepted, NewTask, NoTask, AllKinds
    <3>3. \A d \in Num : pending[d] \in Seq(RetainedFor(d)')
      BY <1>7, GrowsSeq DEF IInv
    <3>4. Append(pending[dep], n) \in Seq(RetainedFor(dep)')
      BY <3>1, <3>2, <3>3, AppendProperties
    <3>5. pending \in [Num -> Seq(Num)]
      BY DEF IInv, TypeOK
    <3>6. QED
      BY <2>2, <3>3, <3>4, <3>5
  <2>3. QED
    BY <2>1, <2>2 DEF StartAsyncTask, Retains
<1>13. stack' \in Seq(GoodFrames')
  BY <1>5, <1>7, GrowsSeq DEF IInv
<1>14. QED
  BY <1>8, <1>10, <1>11, <1>12, <1>13 DEF TasksInPlace

LEMMA SuccessPlace ==
    ASSUME IInv, TypeOK', AsyncSuccess
    PROVE  TasksInPlace' /\ HeldUntilAnswered' /\ Fresh'
<1>1. stack # << >> /\ Top \in Frames
  BY TopFrame DEF IInv, AsyncSuccess, Receive, At
<1>n. PICK n \in Num : n = Top.task
  BY <1>1 DEF AsyncSuccess, Frames
<1> DEFINE q == IF n \in dependent THEN Retained(n) ELSE << >>
<1>2. UNCHANGED <<task, running, counter>> /\ answers' = answers \cup {<<n, Head(replies).from>>}
  BY <1>n DEF AsyncSuccess
<1>3. Grows
  BY <1>2 DEF Grows, Accepted
<1>4. Fresh'
  BY <1>2 DEF IInv, Fresh
<1>5. Answered(n)' /\ \A m \in Num \cup {0} : Answered(m) => Answered(m)'
  <2>1. <<n, Head(replies).from>> \in answers' /\ answers \subseteq answers'
    BY <1>2
  <2>2. QED
    BY <2>1 DEF Answered
<1>6. HeldUntilAnswered'
  <2>1. \A m \in Accepted : m \in Num /\ task[m].dep \in Num \cup {0}
    BY AcceptedTask DEF IInv, Tasks
  <2>2. QED
    BY <1>2, <1>5, <2>1 DEF IInv, HeldUntilAnswered, Accepted
<1>7. running' \in Seq(Requested')
  BY <1>2, <1>3, GrowsSeq DEF IInv
<1>8. \A d \in Num : pending[d] \in Seq(RetainedFor(d)')
  BY <1>3, GrowsSeq DEF IInv
<1>9. \A d \in Num : pending'[d] \in Seq(RetainedFor(d)')
  <2>1. pending' = pending \/ pending' = [pending EXCEPT ![n] = << >>]
    BY <1>n DEF AsyncSuccess, Erase
  <2>2. \A d \in Num : << >> \in Seq(RetainedFor(d)')
    BY EmptySeq
  <2>3. pending \in [Num -> Seq(Num)]
    BY DEF IInv, TypeOK
  <2>4. QED
    BY <1>1, <1>8, <2>1, <2>2, <2>3
<1>10. q \in Seq(Releasable')
  <2>1. RetainedFor(n)' \subseteq Releasable'
    BY <1>5 DEF RetainedFor, Releasable
  <2>2. pending[n] \in Seq(Releasable')
    BY <1>8, <2>1, SeqMonotonic
  <2>3. QED
    BY <2>2, EmptySeq DEF Retained
<1>11. stack' \in Seq(GoodFrames')
  <2>1. ASSUME NEW place \in {"callback", "release"},
               Goto([Top EXCEPT !.at = place, !.retained = q])
        PROVE  stack' \in Seq(GoodFrames')
    <3> DEFINE f == [Top EXCEPT !.at = place, !.retained = q]
    <3>1. f \in Frames
      BY <1>1, <2>1, NewTop DEF IInv
    <3>2. f.at = place /\ f.retained = q
      BY <1>1 DEF Frames
    <3>3. f \in GoodFrames'
      BY <1>10, <3>1, <3>2 DEF GoodFrames
    <3>4. stack \in Seq(GoodFrames')
      BY <1>3, GrowsSeq DEF IInv
    <3> HIDE DEF f
    <3>5. QED
      BY <1>1, <2>1, <3>3, <3>4, GotoFrame DEF Goto, f
  <2>2. \/ Goto([Top EXCEPT !.at = "callback", !.retained = q])
        \/ Goto([Top EXCEPT !.at = "release", !.retained = q])
    BY <1>n DEF AsyncSuccess
  <2>3. QED
    BY <2>1, <2>2
<1>12. QED
  BY <1>4, <1>6, <1>7, <1>9, <1>11 DEF TasksInPlace

\* One more attempt to send a task.
LEMMA AttemptGrows ==
    ASSUME IInv, NEW n \in Accepted, answers' = answers,
           task' = [task EXCEPT ![n].attempt = @ + 1]
    PROVE  Grows /\ n \in Requested'
<1>1. n \in Num /\ task \in [Num -> Tasks \cup {NoTask}] /\ task[n] \in Tasks
  BY AcceptedTask DEF IInv, TypeOK
<1>2. \A m \in Num : m # n => task'[m] = task[m]
  BY <1>1
<1>3. /\ task'[n] = [task[n] EXCEPT !.attempt = @ + 1]
      /\ task'[n].held = task[n].held /\ task'[n].dep = task[n].dep
      /\ task'[n].kind = task[n].kind /\ task'[n].attempt = task[n].attempt + 1
      /\ task[n].attempt \in Nat \ {0} /\ task[n].kind \in AllKinds
  BY <1>1 DEF Tasks
<1>4. n \in Accepted'
  BY <1>1, <1>3 DEF Accepted, NoTask, NewTask, AllKinds
<1>5. Grows
  <2>1. ASSUME NEW m \in Accepted
        PROVE  /\ m \in Accepted'
               /\ task'[m].held = task[m].held
               /\ task'[m].dep = task[m].dep
               /\ task[m].attempt > 1 => task'[m].attempt > 1
    <3>1. CASE m = n
      BY <1>3, <1>4, <3>1
    <3>2. CASE m # n
      BY <1>2, <3>2 DEF Accepted
    <3>3. QED
      BY <3>1, <3>2
  <2>2. QED
    BY <2>1 DEF Grows
<1>6. QED
  BY <1>3, <1>4, <1>5 DEF Requested

LEMMA AttemptFresh ==
    ASSUME IInv, NEW n \in Accepted, counter' = counter,
           task' = [task EXCEPT ![n].attempt = @ + 1]
    PROVE  Fresh'
<1>1. n \in Num /\ ~(n > counter)
  BY DEF IInv, Fresh, Accepted
<1>2. \A m \in Num : m # n => task'[m] = task[m]
  BY <1>1 DEF IInv, TypeOK
<1>3. QED
  BY <1>1, <1>2 DEF IInv, Fresh

\* Only a task whose dependency is answered, if it was retained, may be sent.
LEMMA AttemptHeld ==
    ASSUME IInv, NEW n \in Accepted, answers' = answers,
           task' = [task EXCEPT ![n].attempt = @ + 1],
           n \in Releasable \/ n \in Requested
    PROVE  HeldUntilAnswered'
<1>1. task[n].held => Answered(task[n].dep)
  BY DEF IInv, HeldUntilAnswered, Requested, Releasable
<1>2. \A m \in Num : m # n => task'[m] = task[m]
  BY DEF IInv, TypeOK, Accepted
<1>3. task'[n].held = task[n].held /\ task'[n].dep = task[n].dep
  BY AttemptGrows DEF Grows
<1>4. QED
  BY <1>1, <1>2, <1>3 DEF IInv, HeldUntilAnswered, Accepted, Answered

LEMMA RetryPlace ==
    ASSUME IInv, TypeOK', Retry
    PROVE  TasksInPlace' /\ HeldUntilAnswered' /\ Fresh'
<1>1. stack # << >> /\ Top \in GoodFrames /\ Top.at = "retry"
  BY TopInPlace DEF IInv, Retry, At
<1>2. PICK n \in Requested : n = Top.task
  BY <1>1 DEF GoodFrames
<1>3. n \in Accepted /\ UNCHANGED <<counter, answers, pending>>
  BY DEF Requested, Retry
<1>4. /\ \/ Goto([Top EXCEPT !.at = "loop"])
         \/ Goto(GiveUp(Top))
      /\ \/ task' = task /\ running' = running
         \/ task' = [task EXCEPT ![n].attempt = @ + 1] /\ running' = running
         \/ task' = [task EXCEPT ![n].attempt = @ + 1] /\ running' = Append(running, n)
  BY <1>2 DEF Retry, Requeue
<1>5. stack' \in Seq(GoodFrames)
  <2>1. Top \in Frames
    BY <1>1 DEF GoodFrames
  <2>2. ASSUME NEW f, Goto(f), f.at = "loop", f.retained = Top.retained
        PROVE  stack' \in Seq(GoodFrames)
    BY <1>1, <2>2, GotoSettled DEF IInv
  <2>3. /\ [Top EXCEPT !.at = "loop"].at = "loop"
        /\ [Top EXCEPT !.at = "loop"].retained = Top.retained
        /\ GiveUp(Top).at = "loop" /\ GiveUp(Top).retained = Top.retained
    BY <2>1 DEF Frames, GiveUp
  <2>4. QED
    BY <1>4, <2>2, <2>3
<1>6. CASE task' = task /\ running' = running
  BY <1>3, <1>5, <1>6, QuietStep DEF IInv, TasksInPlace
<1>7. CASE task' = [task EXCEPT ![n].attempt = @ + 1]
  <2>1. Grows /\ n \in Requested'
    BY <1>3, <1>7, AttemptGrows DEF Requested, Grows
  <2>2. running' \in Seq(Requested')
    BY <1>4, <2>1, GrowsSeq, AppendProperties DEF IInv
  <2>3. stack' \in Seq(GoodFrames')
    BY <1>5, <2>1, GrowsKeeps, SeqMonotonic
  <2>4. \A d \in Num : pending'[d] \in Seq(RetainedFor(d)')
    BY <1>3, <2>1, GrowsSeq DEF IInv
  <2>5. QED
    BY <1>3, <1>7, <2>2, <2>3, <2>4, AttemptFresh, AttemptHeld DEF TasksInPlace
<1>8. QED
  BY <1>4, <1>6, <1>7

LEMMA ReleasePlace ==
    ASSUME IInv, TypeOK', Release
    PROVE  TasksInPlace' /\ HeldUntilAnswered' /\ Fresh'
<1>1. stack # << >> /\ Top \in GoodFrames /\ Top \in Frames /\ Top.at = "release"
  BY TopInPlace DEF IInv, Release, At, GoodFrames
<1>2. UNCHANGED <<counter, answers, pending>>
  BY DEF Release
<1>3. CASE Top.retained = << >>
  <2>1. Goto([Top EXCEPT !.at = "loop"]) /\ UNCHANGED <<task, running>>
    BY <1>3 DEF Release
  <2>2. /\ [Top EXCEPT !.at = "loop"].at = "loop"
        /\ [Top EXCEPT !.at = "loop"].retained = Top.retained
    BY <1>1 DEF Frames
  <2>3. stack' \in Seq(GoodFrames)
    BY <1>1, <2>1, <2>2, GotoSettled DEF IInv
  <2>4. QED
    BY <1>2, <2>1, <2>3, QuietStep DEF IInv, TasksInPlace
<1>4. CASE Top.retained # << >>
  <2>1. Top.retained \in Seq(Releasable)
    BY <1>1 DEF GoodFrames
  <2>2. PICK n \in Releasable : n = Head(Top.retained)
    BY <1>4, <2>1, HeadTailProperties
  <2>3. /\ task' = [task EXCEPT ![n].attempt = @ + 1]
        /\ running' = running \/ running' = Append(running, n)
        /\ Goto([Top EXCEPT !.retained = Tail(@)])
    BY <1>4, <2>2 DEF Release
  <2>4. n \in Accepted
    BY DEF Releasable
  <2>5. Grows /\ n \in Requested'
    BY <1>2, <2>3, <2>4, AttemptGrows
  <2>6. stack' \in Seq(GoodFrames)
    <3> DEFINE f == [Top EXCEPT !.retained = Tail(@)]
    <3>1. f \in Frames
      BY <1>1, <2>3, NewTop DEF IInv
    <3>2. f.at = "release" /\ f.retained = Tail(Top.retained)
      BY <1>1 DEF Frames
    <3>3. Tail(Top.retained) \in Seq(Releasable)
      BY <1>4, <2>1, HeadTailProperties
    <3>4. f \in GoodFrames
      BY <3>1, <3>2, <3>3, SettledFrame
    <3>5. QED
      BY <1>1, <2>3, <3>4, GotoGood DEF IInv
  <2>7. stack' \in Seq(GoodFrames')
    BY <2>5, <2>6, GrowsKeeps, SeqMonotonic
  <2>8. running' \in Seq(Requested')
    <3>1. running \in Seq(Requested')
      BY <2>5, GrowsSeq DEF IInv
    <3>2. QED
      BY <2>3, <2>5, <3>1, AppendProperties
  <2>9. \A d \in Num : pending'[d] \in Seq(RetainedFor(d)')
    BY <1>2, <2>5, GrowsSeq DEF IInv
  <2>10. QED
    BY <1>2, <2>2, <2>3, <2>4, <2>7, <2>8, <2>9, AttemptFresh, AttemptHeld
       DEF TasksInPlace
<1>5. QED
  BY <1>3, <1>4

\* The steps that move a call on without touching a task.
LEMMA CallPlace ==
    ASSUME IInv, TypeOK', NEW caller \in {"handle", "sync"}, NEW kind,
           Call(Fetch(caller, kind))
    PROVE  stack' \in Seq(GoodFrames)
<1> DEFINE f == Fetch(caller, kind)
<1>1. f.at = "loop" /\ f.retained = << >>
  BY DEF Fetch
<1> HIDE DEF f
<1>2. stack \in Seq(Frames \cup {f}) /\ f \in Frames \cup {f} /\ stack' = << f >> \o stack
  BY SeqMonotonic DEF IInv, TypeOK, Call, f
<1>3. stack' # << >> /\ stack'[1] = f
  BY <1>2, CallFrame
<1>4. f \in Frames
  <2>1. stack' \in Seq(Frames)
    BY DEF TypeOK
  <2>2. QED
    BY <1>3, <2>1, HeadTailProperties
<1>5. f \in GoodFrames
  BY <1>1, <1>4, EmptySeq DEF GoodFrames
<1>6. QED
  BY <1>2, <1>5, CallFrame DEF IInv, TasksInPlace

LEMMA TakePlace ==
    ASSUME IInv, TypeOK', TakeRunning
    PROVE  running' \in Seq(Requested) /\ stack' \in Seq(GoodFrames)
<1> DEFINE f == [Top EXCEPT !.at = "recv", !.task = Head(running), !.depth = 0]
<1>1. stack # << >> /\ Top \in GoodFrames /\ Top \in Frames
  BY TopInPlace DEF IInv, TakeRunning, At, GoodFrames
<1>2. Head(running) \in Requested /\ Tail(running) \in Seq(Requested)
  BY HeadTailProperties DEF IInv, TasksInPlace, TakeRunning
<1>3. f \in Frames
  BY <1>1, NewTop DEF IInv, TakeRunning
<1>4. f.at = "recv" /\ f.task = Head(running) /\ f.retained = Top.retained
  BY <1>1 DEF Frames
<1>5. f \in GoodFrames
  BY <1>1, <1>2, <1>3, <1>4 DEF GoodFrames
<1>6. QED
  BY <1>1, <1>2, <1>5, GotoGood DEF IInv, TakeRunning

LEMMA InterruptPlace ==
    ASSUME IInv, TypeOK', ReceiveInterrupt
    PROVE  stack' \in Seq(GoodFrames)
<1>1. stack # << >> /\ Top \in GoodFrames /\ Top \in Frames /\ Top.at = "recv"
  BY TopInPlace DEF IInv, ReceiveInterrupt, At, GoodFrames
<1>2. CASE Goto([Top EXCEPT !.depth = 1])
  <2> DEFINE f == [Top EXCEPT !.depth = 1]
  <2>1. f \in Frames
    BY <1>1, <1>2, NewTop DEF IInv
  <2>2. f.at = "recv" /\ f.task = Top.task /\ f.retained = Top.retained
    BY <1>1 DEF Frames
  <2>3. f \in GoodFrames
    BY <1>1, <2>1, <2>2 DEF GoodFrames
  <2>4. QED
    BY <1>1, <1>2, <2>3, GotoGood DEF IInv
<1>3. CASE Abort(Top.task)
  <2> DEFINE f == [Top EXCEPT !.at = "aborted", !.task = Top.task]
  <2>1. f.at = "aborted" /\ f.retained = Top.retained
    BY <1>1 DEF Frames
  <2>2. QED
    BY <1>1, <1>3, <2>1, GotoSettled DEF IInv, Abort
<1>4. QED
  BY <1>2, <1>3 DEF ReceiveInterrupt

LEMMA FailurePlace ==
    ASSUME IInv, TypeOK', AsyncFailure
    PROVE  stack' \in Seq(GoodFrames)
<1> DEFINE f == [Top EXCEPT !.at = "retry"]
<1>1. stack # << >> /\ Top \in GoodFrames /\ Top \in Frames /\ Top.at = "recv"
  BY TopInPlace DEF IInv, AsyncFailure, At, GoodFrames
<1>2. f \in Frames
  BY <1>1, NewTop DEF IInv, AsyncFailure
<1>3. f.at = "retry" /\ f.task = Top.task /\ f.retained = Top.retained
  BY <1>1 DEF Frames
<1>4. f \in GoodFrames
  BY <1>1, <1>2, <1>3 DEF GoodFrames, AsyncFailure
<1>5. QED
  BY <1>1, <1>4, GotoGood DEF IInv, AsyncFailure

\* doSyncTask() goes on to send, possibly again, or returns.
LEMMA SyncPlace ==
    ASSUME IInv, TypeOK', SyncSend \/ SyncRetry \/ SyncSuccess \/ SyncAbort
    PROVE  stack' \in Seq(GoodFrames)
<1>1. stack # << >> /\ Top \in GoodFrames /\ Top \in Frames
  BY TopInPlace DEF IInv, SyncSend, SyncRetry, SyncSuccess, SyncAbort, Receive,
                    Timeout, At, GoodFrames
<1> DEFINE f == [Top EXCEPT !.attempt = @ + 1]
<1>2. CASE Return
  BY <1>1, <1>2, ReturnGood DEF IInv
<1>3. CASE Goto([Top EXCEPT !.at = "send"])
  <2>1. /\ [Top EXCEPT !.at = "send"].at = "send"
        /\ [Top EXCEPT !.at = "send"].retained = Top.retained
    BY <1>1 DEF Frames
  <2>2. QED
    BY <1>1, <1>3, <2>1, GotoSettled DEF IInv
<1>4. CASE Goto([f EXCEPT !.at = "send"])
  <2>1. /\ [f EXCEPT !.at = "send"].at = "send"
        /\ [f EXCEPT !.at = "send"].retained = Top.retained
    BY <1>1 DEF Frames
  <2>2. QED
    BY <1>1, <1>4, <2>1, GotoSettled DEF IInv
<1>5. CASE Abort(Sync)
  <2>1. /\ [Top EXCEPT !.at = "aborted", !.task = Sync].at = "aborted"
        /\ [Top EXCEPT !.at = "aborted", !.task = Sync].retained = Top.retained
    BY <1>1 DEF Frames
  <2>2. QED
    BY <1>1, <1>5, <2>1, GotoSettled DEF IInv, Abort
<1>6. ASSUME SyncSend, Goto([f EXCEPT !.at = "recv", !.task = Sync, !.depth = 0])
      PROVE  stack' \in Seq(GoodFrames)
  <2> DEFINE g == [f EXCEPT !.at = "recv", !.task = Sync, !.depth = 0]
  <2>1. g \in Frames
    BY <1>1, <1>6, NewTop DEF IInv
  <2>2. g.at = "recv" /\ g.task = Sync /\ g.retained = Top.retained
    BY <1>1 DEF Frames
  <2>3. g \in GoodFrames
    BY <1>1, <2>1, <2>2 DEF GoodFrames
  <2>4. QED
    BY <1>1, <1>6, <2>3, GotoGood DEF IInv
<1>7. QED
  BY <1>2, <1>3, <1>4, <1>5, <1>6
     DEF SyncSend, SyncRetry, SyncSuccess, SyncAbort, NextAttempt

LEMMA SettledPlace ==
    ASSUME IInv, TypeOK', UserReturns \/ Drain \/ FetchReturns
    PROVE  stack' \in Seq(GoodFrames)
<1>1. stack # << >> /\ Top \in GoodFrames /\ Top \in Frames
  BY TopInPlace DEF IInv, UserReturns, Drain, FetchReturns, At, GoodFrames
<1>2. CASE Return
  BY <1>1, <1>2, ReturnGood DEF IInv
<1>3. ASSUME NEW place \in {"release", "return", "isr", "send"},
             Goto([Top EXCEPT !.at = place])
      PROVE  stack' \in Seq(GoodFrames)
  <2>1. /\ [Top EXCEPT !.at = place].at = place
        /\ [Top EXCEPT !.at = place].retained = Top.retained
    BY <1>1 DEF Frames
  <2>2. QED
    BY <1>1, <1>3, <2>1, GotoSettled DEF IInv
<1>4. CASE Abort(Sync)
  <2>1. /\ [Top EXCEPT !.at = "aborted", !.task = Sync].at = "aborted"
        /\ [Top EXCEPT !.at = "aborted", !.task = Sync].retained = Top.retained
    BY <1>1 DEF Frames
  <2>2. QED
    BY <1>1, <1>4, <2>1, GotoSettled DEF IInv, Abort
<1>5. \/ Return
      \/ \E place \in {"release", "return", "isr", "send"} : Goto([Top EXCEPT !.at = place])
      \/ Abort(Sync)
  <2>1. CASE UserReturns
    BY <2>1 DEF UserReturns
  <2>2. CASE Drain
    <3>1. Goto([Top EXCEPT !.at = "isr"]) \/ Goto([Top EXCEPT !.at = "return"]) \/ Abort(Sync)
      BY <2>2 DEF Drain
    <3>2. QED
      BY <3>1
  <2>3. CASE FetchReturns
    BY <2>3 DEF FetchReturns
  <2>4. QED
    BY <2>1, <2>2, <2>3
<1>6. QED
  BY <1>2, <1>3, <1>4, <1>5

\* The reply of a synchronous exchange makes no task less answered.
LEMMA SyncSuccessPlace ==
    ASSUME IInv, TypeOK', SyncSuccess
    PROVE  TasksInPlace' /\ HeldUntilAnswered' /\ Fresh'
<1>1. UNCHANGED <<task, running, pending, counter>> /\ answers \subseteq answers'
  BY DEF SyncSuccess
<1>2. Grows
  BY <1>1 DEF Grows, Accepted
<1>3. stack' \in Seq(GoodFrames')
  BY <1>2, SyncPlace, GrowsKeeps, SeqMonotonic
<1>4. HeldUntilAnswered'
  <2>1. \A m \in Accepted : m \in Num /\ task[m].dep \in Num \cup {0}
    BY AcceptedTask DEF IInv, Tasks
  <2>2. \A m \in Num \cup {0} : Answered(m) => Answered(m)'
    BY <1>1 DEF Answered
  <2>3. QED
    BY <1>1, <2>1, <2>2 DEF IInv, HeldUntilAnswered, Accepted
<1>5. Fresh'
  BY <1>1 DEF IInv, Fresh
<1>6. QED
  BY <1>1, <1>2, <1>3, <1>4, <1>5, GrowsSeq DEF IInv, TasksInPlace

LEMMA PlaceNext ==
    ASSUME IInv, TypeOK', [Next]_vars
    PROVE  TasksInPlace' /\ HeldUntilAnswered' /\ Fresh'
<1> USE DEF hostVars, boardVars
<1>1. running \in Seq(Requested) /\ stack \in Seq(GoodFrames)
  BY DEF IInv, TasksInPlace
<1>2. CASE \E kind \in Kinds : \E dep \in Accepted \cup {0} : StartAsyncTask(kind, dep)
  BY <1>2, StartPlace
<1>3. CASE \E kind \in Kinds : DoSyncTask(kind)
  BY <1>1, <1>3, CallPlace, QuietStep DEF DoSyncTask
<1>4. CASE HandleReplies
  BY <1>1, <1>4, CallPlace, QuietStep DEF HandleReplies
<1>5. CASE UserReturns
  BY <1>1, <1>5, SettledPlace, QuietStep DEF UserReturns
<1>6. CASE TakeRunning
  BY <1>6, TakePlace, QuietStep DEF TakeRunning
<1>7. CASE ReceiveInterrupt
  BY <1>1, <1>7, InterruptPlace, QuietStep DEF ReceiveInterrupt
<1>8. CASE AsyncSuccess
  BY <1>8, SuccessPlace
<1>9. CASE AsyncFailure
  BY <1>1, <1>9, FailurePlace, QuietStep DEF AsyncFailure
<1>10. CASE Retry
  BY <1>10, RetryPlace
<1>11. CASE Release
  BY <1>11, ReleasePlace
<1>12. CASE Drain
  BY <1>1, <1>12, SettledPlace, QuietStep DEF Drain
<1>13. CASE FetchReturns
  BY <1>1, <1>13, SettledPlace, QuietStep DEF FetchReturns
<1>14. CASE SyncSend
  BY <1>1, <1>14, SyncPlace, QuietStep DEF SyncSend
<1>15. CASE SyncSuccess
  BY <1>15, SyncSuccessPlace
<1>16. CASE SyncRetry
  BY <1>1, <1>16, SyncPlace, QuietStep DEF SyncRetry
<1>17. CASE SyncAbort
  BY <1>1, <1>17, SyncPlace, QuietStep DEF SyncAbort
<1>18. CASE Board
  <2>1. UNCHANGED hostVars
    BY <1>18 DEF Board, Answer, RaiseInterrupt
  <2>2. QED
    BY <1>1, <2>1, QuietStep
<1>19. CASE UNCHANGED vars
  BY <1>1, <1>19, QuietStep DEF vars
<1>20. QED
  BY <1>2, <1>3, <1>4, <1>5, <1>6, <1>7, <1>8, <1>9, <1>10, <1>11, <1>12, <1>13,
     <1>14, <1>15, <1>16, <1>17, <1>18, <1>19
     DEF Next, User, Host

\* The inductive invariant: types, every task in its place, and what these say
\* about the tasks that waited for another one.
THEOREM Inductive == Spec => []IInv
<1>1. Init => IInv
  BY TypeInit, PlaceInit DEF IInv
<1>2. IInv /\ [Next]_vars => IInv'
  BY TypeNext, PlaceNext DEF IInv
<1>3. QED
  BY <1>1, <1>2, PTL DEF Spec

\* Every variable keeps its type whatever the user, the line and the board do.
THEOREM TypeCorrect == Spec => []TypeOK
<1>1. IInv => TypeOK
  BY DEF IInv
<1>2. QED
  BY <1>1, Inductive, PTL

\* fetchAsyncReplies() and startAsyncTask() keep every task where its state
\* belongs, however deeply callbacks and service routines call them again.
THEOREM PlacesCorrect == Spec => []TasksInPlace
<1>1. IInv => TasksInPlace
  BY DEF IInv
<1>2. QED
  BY <1>1, Inductive, PTL

\* A task that startAsyncTask() retained is sent only once the task it depends
\* on is answered: no fault of the line and no nesting of calls breaks this.
THEOREM DependencyCorrect == Spec => []HeldUntilAnswered
<1>1. IInv => HeldUntilAnswered
  BY DEF IInv
<1>2. QED
  BY <1>1, Inductive, PTL

-----------------------------------------------------------------------------
(***************************************************************************)
(* Who owns a task: the executor moves AsyncTask objects between its three *)
(* buffers, the local queues of active fetches and their local variables,  *)
(* for any number of tasks, any nesting of calls and any faults.           *)
(*                                                                         *)
(* All these places are queues under keys (Queues), and a frame of the call*)
(* stack has the same key for as long as it is active: its depth from the  *)
(* bottom.  Then every step only takes the head of a queue, appends a task *)
(* to one, empties one or moves one, and what these four do to tasks is    *)
(* shown once.                                                             *)
(***************************************************************************)

-----------------------------------------------------------------------------
(* Queues under keys.                                                      *)

\* Task n is in one of the queues Q.
Inside(Q, n) == \E k \in DOMAIN Q : \E i \in DOMAIN Q[k] : Q[k][i] = n

\* No task is twice in them.
Unique(Q) ==
    \A k, l \in DOMAIN Q : \A i \in DOMAIN Q[k], j \in DOMAIN Q[l] :
        Q[k][i] = Q[l][j] => k = l /\ i = j

\* A task joins a queue or leaves its front, a queue is emptied, moves to where
\* another one was, or hands its first task on.
Push(Q, k, n) == [Q EXCEPT ![k] = Append(@, n)]
Pop(Q, k)     == [Q EXCEPT ![k] = Tail(@)]
Empty(Q, k)   == [Q EXCEPT ![k] = << >>]
Shift(Q, k, l) == [[Q EXCEPT ![k] = << >>] EXCEPT ![l] = Q[k]]
Pass(Q, k, l) == Push(Pop(Q, k), l, Head(Q[k]))

LEMMA AfterPush ==
    ASSUME NEW K, NEW S, NEW Q \in [K -> Seq(S)], NEW k \in K, NEW n \in S
    PROVE  /\ Push(Q, k, n) \in [K -> Seq(S)]
           /\ \A m : Inside(Push(Q, k, n), m) <=> Inside(Q, m) \/ m = n
           /\ Unique(Q) /\ ~Inside(Q, n) => Unique(Push(Q, k, n))
<1>. DEFINE R == Push(Q, k, n)
<1>. USE DEF Push
<1>1. /\ Append(Q[k], n) \in Seq(S) /\ Len(Append(Q[k], n)) = Len(Q[k]) + 1
      /\ \A i \in 1 .. Len(Q[k]) : Append(Q[k], n)[i] = Q[k][i]
      /\ Append(Q[k], n)[Len(Q[k]) + 1] = n
      /\ Len(Q[k]) \in Nat /\ DOMAIN Q[k] = 1 .. Len(Q[k])
      /\ DOMAIN Append(Q[k], n) = 1 .. Len(Q[k]) + 1
  BY AppendProperties
<1>2. /\ R \in [K -> Seq(S)] /\ DOMAIN R = K /\ DOMAIN Q = K
      /\ R[k] = Append(Q[k], n)
      /\ \A l \in K : l # k => R[l] = Q[l]
  BY <1>1
<1>3. ASSUME NEW l \in K, NEW i \in DOMAIN R[l]
      PROVE  \/ i \in DOMAIN Q[l] /\ R[l][i] = Q[l][i]
             \/ l = k /\ i = Len(Q[k]) + 1 /\ R[l][i] = n
  BY <1>1, <1>2
<1>4. ASSUME NEW l \in K, NEW i \in DOMAIN Q[l]
      PROVE  i \in DOMAIN R[l] /\ R[l][i] = Q[l][i]
  BY <1>1, <1>2
<1>5. \E i \in DOMAIN R[k] : R[k][i] = n
  BY <1>1, <1>2
<1>6. \A m : Inside(R, m) <=> Inside(Q, m) \/ m = n
  BY <1>2, <1>3, <1>4, <1>5 DEF Inside
<1>7. Unique(Q) /\ ~Inside(Q, n) => Unique(R)
  BY <1>2, <1>3 DEF Unique, Inside
<1>. QED
  BY <1>2, <1>6, <1>7

LEMMA AfterPop ==
    ASSUME NEW K, NEW S, NEW Q \in [K -> Seq(S)], NEW k \in K, Q[k] # << >>
    PROVE  /\ Pop(Q, k) \in [K -> Seq(S)]
           /\ Inside(Q, Head(Q[k])) /\ Head(Q[k]) \in S
           /\ \A m : m # Head(Q[k]) => (Inside(Pop(Q, k), m) <=> Inside(Q, m))
           /\ Unique(Q) => Unique(Pop(Q, k)) /\ ~Inside(Pop(Q, k), Head(Q[k]))
<1>. DEFINE R == Pop(Q, k)
<1>. USE DEF Pop
<1>1. /\ Tail(Q[k]) \in Seq(S) /\ Len(Tail(Q[k])) = Len(Q[k]) - 1
      /\ \A i \in 1 .. Len(Tail(Q[k])) : Tail(Q[k])[i] = Q[k][i + 1]
      /\ Head(Q[k]) = Q[k][1] /\ Head(Q[k]) \in S
      /\ Len(Q[k]) \in Nat \ {0} /\ DOMAIN Q[k] = 1 .. Len(Q[k])
      /\ DOMAIN Tail(Q[k]) = 1 .. Len(Q[k]) - 1
  BY HeadTailProperties, EmptySeq
<1>2. /\ R \in [K -> Seq(S)] /\ DOMAIN R = K /\ DOMAIN Q = K
      /\ R[k] = Tail(Q[k])
      /\ \A l \in K : l # k => R[l] = Q[l]
  BY <1>1
<1>3. ASSUME NEW l \in K, NEW i \in DOMAIN R[l]
      PROVE  \/ l # k /\ i \in DOMAIN Q[l] /\ R[l][i] = Q[l][i]
             \/ l = k /\ i \in Nat /\ i # 0 /\ i + 1 \in DOMAIN Q[l] /\ R[l][i] = Q[l][i + 1]
  BY <1>1, <1>2
<1>4. ASSUME NEW l \in K, NEW i \in DOMAIN Q[l], l # k \/ i # 1
      PROVE  \E j \in DOMAIN R[l] : R[l][j] = Q[l][i]
  <2>1. CASE l = k
    <3>1. i - 1 \in DOMAIN R[l] /\ R[l][i - 1] = Q[l][i]
      BY <1>1, <1>2, <1>4, <2>1
    <3>. QED
      BY <3>1
  <2>2. CASE l # k
    BY <1>2, <2>2
  <2>. QED
    BY <2>1, <2>2
<1>5. 1 \in DOMAIN Q[k] /\ Q[k][1] = Head(Q[k])
  BY <1>1
<1>6. Inside(Q, Head(Q[k]))
  BY <1>2, <1>5 DEF Inside
<1>7. \A m : m # Head(Q[k]) => (Inside(R, m) <=> Inside(Q, m))
  <2>1. ASSUME NEW m, Inside(R, m) PROVE Inside(Q, m)
    BY <1>2, <1>3, <2>1 DEF Inside
  <2>2. ASSUME NEW m, m # Head(Q[k]), Inside(Q, m) PROVE Inside(R, m)
    <3>0. PICK l \in K : \E i \in DOMAIN Q[l] : Q[l][i] = m
      BY <1>2, <2>2 DEF Inside
    <3>1. PICK i \in DOMAIN Q[l] : Q[l][i] = m
      BY <3>0
    <3>2. l # k \/ i # 1
      BY <1>5, <2>2, <3>1
    <3>. QED
      BY <1>2, <1>4, <3>1, <3>2 DEF Inside
  <2>. QED
    BY <2>1, <2>2
<1>8. ASSUME Unique(Q) PROVE Unique(R) /\ ~Inside(R, Head(Q[k]))
  <2>1. Unique(R)
    <3>. SUFFICES ASSUME NEW l \in K, NEW h \in K, NEW i \in DOMAIN R[l], NEW j \in DOMAIN R[h],
                         R[l][i] = R[h][j]
                  PROVE  l = h /\ i = j
      BY <1>2 DEF Unique
    <3>1. PICK a \in DOMAIN Q[l] : R[l][i] = Q[l][a] /\ a = IF l = k THEN i + 1 ELSE i
      BY <1>3
    <3>2. PICK b \in DOMAIN Q[h] : R[h][j] = Q[h][b] /\ b = IF h = k THEN j + 1 ELSE j
      BY <1>3
    <3>3. l = h /\ a = b
      BY <1>2, <1>8, <3>1, <3>2 DEF Unique
    <3>. QED
      BY <1>3, <3>1, <3>2, <3>3
  <2>2. ASSUME NEW l \in K, NEW i \in DOMAIN R[l] PROVE R[l][i] # Head(Q[k])
    <3>1. CASE l # k
      BY <1>2, <1>3, <1>5, <1>8, <3>1 DEF Unique
    <3>2. CASE l = k
      <4>1. i \in Nat /\ i # 0 /\ i + 1 \in DOMAIN Q[k] /\ R[l][i] = Q[k][i + 1]
        BY <1>3, <3>2
      <4>2. i + 1 # 1
        BY <4>1
      <4>. QED
        BY <1>2, <1>5, <1>8, <4>1, <4>2 DEF Unique
    <3>. QED
      BY <3>1, <3>2
  <2>. QED
    BY <1>2, <2>1, <2>2 DEF Inside
<1>. QED
  BY <1>1, <1>2, <1>6, <1>7, <1>8

LEMMA AfterShift ==
    ASSUME NEW K, NEW S, NEW Q \in [K -> Seq(S)], NEW k \in K, NEW l \in K, k # l,
           Q[l] = << >>
    PROVE  /\ Shift(Q, k, l) \in [K -> Seq(S)]
           /\ \A m : Inside(Shift(Q, k, l), m) <=> Inside(Q, m)
           /\ Unique(Q) => Unique(Shift(Q, k, l))
<1>. DEFINE R == Shift(Q, k, l)
<1>. USE DEF Shift
<1>1. /\ R \in [K -> Seq(S)] /\ DOMAIN R = K /\ DOMAIN Q = K
      /\ R[k] = << >> /\ R[l] = Q[k]
      /\ \A h \in K \ {k, l} : R[h] = Q[h]
  BY EmptySeq
<1>2. ASSUME NEW h \in K, NEW i \in DOMAIN R[h]
      PROVE  \/ h \notin {k, l} /\ i \in DOMAIN Q[h] /\ R[h][i] = Q[h][i]
             \/ h = l /\ i \in DOMAIN Q[k] /\ R[h][i] = Q[k][i]
  BY <1>1
<1>3. \A h \in K : Q[h] = << >> \/ \E g \in K : R[g] = Q[h]
  BY <1>1
<1>4. \A m : Inside(R, m) <=> Inside(Q, m)
  <2>1. ASSUME NEW m, Inside(R, m) PROVE Inside(Q, m)
    BY <1>1, <1>2, <2>1 DEF Inside
  <2>2. ASSUME NEW m, Inside(Q, m) PROVE Inside(R, m)
    <3>1. PICK h \in K : \E i \in DOMAIN Q[h] : Q[h][i] = m
      BY <1>1, <2>2 DEF Inside
    <3>2. PICK i \in DOMAIN Q[h] : Q[h][i] = m
      BY <3>1
    <3>3. PICK g \in K : R[g] = Q[h]
      BY <1>3, <3>2
    <3>. QED
      BY <1>1, <3>2, <3>3 DEF Inside
  <2>. QED
    BY <2>1, <2>2
<1>5. ASSUME Unique(Q) PROVE Unique(R)
  <2>. DEFINE From(h) == IF h = l THEN k ELSE h
  <2>1. ASSUME NEW h \in K, NEW i \in DOMAIN R[h]
        PROVE  h # k /\ From(h) \in K /\ i \in DOMAIN Q[From(h)] /\ R[h][i] = Q[From(h)][i]
    BY <1>1, <1>2
  <2>2. \A h, g \in K \ {k} : From(h) = From(g) => h = g
    OBVIOUS
  <2>. HIDE DEF From
  <2>. SUFFICES ASSUME NEW h \in K, NEW g \in K, NEW i \in DOMAIN R[h], NEW j \in DOMAIN R[g],
                       R[h][i] = R[g][j]
                PROVE  h = g /\ i = j
    BY <1>1 DEF Unique
  <2>3. From(h) = From(g) /\ i = j
    BY <1>1, <1>5, <2>1 DEF Unique
  <2>. QED
    BY <2>1, <2>2, <2>3
<1>. QED
  BY <1>1, <1>4, <1>5

LEMMA AfterEmpty ==
    ASSUME NEW K, NEW S, NEW Q \in [K -> Seq(S)], NEW k \in K
    PROVE  /\ Empty(Q, k) \in [K -> Seq(S)]
           /\ \A m : Inside(Q, m) <=> Inside(Empty(Q, k), m) \/ \E i \in DOMAIN Q[k] : Q[k][i] = m
           /\ Unique(Q) => Unique(Empty(Q, k)) /\ \A i \in DOMAIN Q[k] : ~Inside(Empty(Q, k), Q[k][i])
<1>. DEFINE R == Empty(Q, k)
<1>. USE DEF Empty
<1>1. /\ R \in [K -> Seq(S)] /\ DOMAIN R = K /\ DOMAIN Q = K
      /\ R[k] = << >> /\ \A h \in K \ {k} : R[h] = Q[h]
  BY EmptySeq
<1>2. ASSUME NEW h \in K, NEW i \in DOMAIN R[h]
      PROVE  h # k /\ i \in DOMAIN Q[h] /\ R[h][i] = Q[h][i]
  BY <1>1
<1>3. \A m : Inside(Q, m) <=> Inside(R, m) \/ \E i \in DOMAIN Q[k] : Q[k][i] = m
  BY <1>1, <1>2 DEF Inside
<1>4. Unique(Q) => Unique(R)
  BY <1>1, <1>2 DEF Unique
<1>5. Unique(Q) => \A i \in DOMAIN Q[k] : ~Inside(R, Q[k][i])
  BY <1>1, <1>2 DEF Unique, Inside
<1>. QED
  BY <1>1, <1>3, <1>4, <1>5

\* The head of one queue goes behind another one.
LEMMA AfterPass ==
    ASSUME NEW K, NEW S, NEW Q \in [K -> Seq(S)], NEW k \in K, NEW l \in K, k # l,
           Q[k] # << >>, Unique(Q)
    PROVE  /\ Pass(Q, k, l) \in [K -> Seq(S)]
           /\ \A m : Inside(Pass(Q, k, l), m) <=> Inside(Q, m)
           /\ Unique(Pass(Q, k, l))
<1>1. PICK P, n : P = Pop(Q, k) /\ n = Head(Q[k])
  OBVIOUS
<1>2. /\ P \in [K -> Seq(S)] /\ Unique(P) /\ ~Inside(P, n)
      /\ Inside(Q, n) /\ n \in S
      /\ \A m : m # n => (Inside(P, m) <=> Inside(Q, m))
  BY <1>1, AfterPop
<1>3. /\ Push(P, l, n) \in [K -> Seq(S)] /\ Unique(Push(P, l, n))
      /\ \A m : Inside(Push(P, l, n), m) <=> Inside(P, m) \/ m = n
  <2>1. P \in [K -> Seq(S)] /\ n \in S
    BY <1>2
  <2>2. /\ Push(P, l, n) \in [K -> Seq(S)]
        /\ \A m : Inside(Push(P, l, n), m) <=> Inside(P, m) \/ m = n
        /\ Unique(P) /\ ~Inside(P, n) => Unique(Push(P, l, n))
    BY <2>1, AfterPush
  <2>. QED
    BY <1>2, <2>2
<1>4. Pass(Q, k, l) = Push(P, l, n)
  BY <1>1 DEF Pass
<1>. QED
  BY <1>2, <1>3, <1>4

-----------------------------------------------------------------------------
(* The places of the executor as queues.                                   *)

Keys == ({"running", "finished"} \X {0}) \cup ({"pending"} \X Num)
            \cup ({"retained", "task"} \X (Nat \ {0}))

\* The task a frame holds in its local variable.
TaskOf(f) == IF f.at \in Fetching /\ f.task # Sync THEN << f.task >> ELSE << >>

\* The d-th active call, the outermost first.
RetainedAt(d) == IF d \in 1 .. Len(stack) THEN stack[Len(stack) + 1 - d].retained
                                          ELSE << >>
TaskAt(d)     == IF d \in 1 .. Len(stack) THEN TaskOf(stack[Len(stack) + 1 - d])
                                          ELSE << >>

Queues ==
    [k \in Keys |-> CASE k[1] = "running"  -> running
                      [] k[1] = "finished" -> finished
                      [] k[1] = "pending"  -> pending[k[2]]
                      [] k[1] = "retained" -> RetainedAt(k[2])
                      [] k[1] = "task"     -> TaskAt(k[2])]

LEMMA KeysAre ==
    /\ <<"running", 0>> \in Keys /\ <<"finished", 0>> \in Keys
    /\ \A n \in Num : <<"pending", n>> \in Keys
    /\ \A d \in Nat \ {0} : <<"retained", d>> \in Keys /\ <<"task", d>> \in Keys
    /\ \A k \in Keys : \/ k = <<"running", 0>> \/ k = <<"finished", 0>>
                       \/ \E n \in Num : k = <<"pending", n>>
                       \/ \E d \in Nat \ {0} : k = <<"retained", d>> \/ k = <<"task", d>>
BY DEF Keys

LEMMA QueueOf ==
    /\ DOMAIN Queues = Keys
    /\ Queues[<<"running", 0>>] = running /\ Queues[<<"finished", 0>>] = finished
    /\ \A n \in Num : Queues[<<"pending", n>>] = pending[n]
    /\ \A d \in Nat \ {0} : /\ Queues[<<"retained", d>>] = RetainedAt(d)
                            /\ Queues[<<"task", d>>] = TaskAt(d)
BY KeysAre DEF Queues

LEMMA QueueOfNext ==
    /\ Queues' = [k \in Keys |-> Queues'[k]]
    /\ Queues'[<<"running", 0>>] = running' /\ Queues'[<<"finished", 0>>] = finished'
    /\ \A n \in Num : Queues'[<<"pending", n>>] = pending'[n]
    /\ \A d \in Nat \ {0} : /\ Queues'[<<"retained", d>>] = RetainedAt(d)'
                            /\ Queues'[<<"task", d>>] = TaskAt(d)'
BY KeysAre DEF Queues

\* The queues after a step, place by place.
LEMMA Elsewhere ==
    ASSUME NEW Q, NEW A,
           <<"running", 0>> \in A \/ running' = Q[<<"running", 0>>],
           <<"finished", 0>> \in A \/ finished' = Q[<<"finished", 0>>],
           \A n \in Num : <<"pending", n>> \in A \/ pending'[n] = Q[<<"pending", n>>],
           \A d \in Nat \ {0} :
               /\ <<"retained", d>> \in A \/ RetainedAt(d)' = Q[<<"retained", d>>]
               /\ <<"task", d>> \in A \/ TaskAt(d)' = Q[<<"task", d>>]
    PROVE  \A k \in Keys : k \notin A => Queues'[k] = Q[k]
<1>. SUFFICES ASSUME NEW k \in Keys, k \notin A PROVE Queues'[k] = Q[k]
  OBVIOUS
<1>1. CASE k = <<"running", 0>> \/ k = <<"finished", 0>>
  BY <1>1, QueueOfNext
<1>2. CASE \E n \in Num : k = <<"pending", n>>
  BY <1>2, QueueOfNext
<1>3. CASE \E d \in Nat \ {0} : k = <<"retained", d>> \/ k = <<"task", d>>
  BY <1>3, QueueOfNext
<1>. QED
  BY <1>1, <1>2, <1>3, KeysAre

\* A queue stays as it is if the place it is for does.
LEMMA SameQueue ==
    ASSUME NEW m \in Keys, pending' = pending, finished' = finished,
           m # <<"running", 0>> \/ running' = running,
           \A e \in Nat \ {0} :
               /\ m # <<"retained", e>> \/ RetainedAt(e)' = RetainedAt(e)
               /\ m # <<"task", e>> \/ TaskAt(e)' = TaskAt(e)
    PROVE  Queues'[m] = Queues[m]
<1>1. CASE m = <<"running", 0>> \/ m = <<"finished", 0>>
  BY <1>1, QueueOf, QueueOfNext
<1>2. CASE \E n \in Num : m = <<"pending", n>>
  BY <1>2, QueueOf, QueueOfNext
<1>3. CASE \E d \in Nat \ {0} : m = <<"retained", d>> \/ m = <<"task", d>>
  BY <1>3, QueueOf, QueueOfNext
<1>. QED
  BY <1>1, <1>2, <1>3, KeysAre

LEMMA QueuesAfter ==
    ASSUME NEW R \in [Keys -> Seq(Num)],
           R[<<"running", 0>>] = running', R[<<"finished", 0>>] = finished',
           \A n \in Num : R[<<"pending", n>>] = pending'[n],
           \A d \in Nat \ {0} : /\ R[<<"retained", d>>] = RetainedAt(d)'
                                /\ R[<<"task", d>>] = TaskAt(d)'
    PROVE  Queues' = R
<1>1. PICK A : A = {}
  OBVIOUS
<1>2. \A k \in Keys : k \notin A => Queues'[k] = R[k]
  BY Elsewhere
<1>. QED
  BY <1>1, <1>2, QueueOfNext

LEMMA FrameTask ==
    ASSUME NEW f \in Frames
    PROVE  TaskOf(f) \in Seq(Num) /\ f.retained \in Seq(Num)
BY DEF Frames, TaskOf

LEMMA QueuesType == TypeOK => Queues \in [Keys -> Seq(Num)]
<1>. SUFFICES ASSUME TypeOK PROVE Queues \in [Keys -> Seq(Num)]
  OBVIOUS
<1>1. ASSUME NEW d \in Nat \ {0}
      PROVE  RetainedAt(d) \in Seq(Num) /\ TaskAt(d) \in Seq(Num)
  <2>1. CASE d \in 1 .. Len(stack)
    <3>1. stack[Len(stack) + 1 - d] \in Frames
      BY <2>1, LenProperties, ElementOfSeq DEF TypeOK
    <3>. QED
      BY <2>1, <3>1, FrameTask DEF RetainedAt, TaskAt
  <2>2. CASE d \notin 1 .. Len(stack)
    BY <2>2, EmptySeq DEF RetainedAt, TaskAt
  <2>. QED
    BY <2>1, <2>2
<1>2. ASSUME NEW k \in Keys PROVE Queues[k] \in Seq(Num)
  <2>1. CASE k = <<"running", 0>> \/ k = <<"finished", 0>>
    BY <2>1, QueueOf DEF TypeOK
  <2>2. CASE \E n \in Num : k = <<"pending", n>>
    BY <2>2, QueueOf DEF TypeOK
  <2>3. CASE \E d \in Nat \ {0} : k = <<"retained", d>> \/ k = <<"task", d>>
    BY <1>1, <2>3, QueueOf
  <2>. QED
    BY <2>1, <2>2, <2>3, KeysAre
<1>. QED
  BY <1>2, QueueOf DEF Queues

\* What replacing, adding and removing the top frame does to the queues.
LEMMA GotoQueues ==
    ASSUME TypeOK, stack # << >>, NEW f \in Frames, Goto(f), NEW d \in Nat \ {0}
    PROVE  /\ RetainedAt(d)' = IF d = Len(stack) THEN f.retained ELSE RetainedAt(d)
           /\ TaskAt(d)' = IF d = Len(stack) THEN TaskOf(f) ELSE TaskAt(d)
<1>1. /\ Len(stack) \in Nat \ {0} /\ Len(stack') = Len(stack) /\ stack'[1] = f
      /\ \A i \in 2 .. Len(stack) : stack'[i] = stack[i]
  BY GotoFrame, TopFrame DEF TypeOK, Goto
<1>. QED
  BY <1>1 DEF RetainedAt, TaskAt

LEMMA CallQueues ==
    ASSUME TypeOK, NEW f \in Frames, Call(f), NEW d \in Nat \ {0}
    PROVE  /\ RetainedAt(d)' = IF d = Len(stack) + 1 THEN f.retained ELSE RetainedAt(d)
           /\ TaskAt(d)' = IF d = Len(stack) + 1 THEN TaskOf(f) ELSE TaskAt(d)
<1>1. /\ Len(stack) \in Nat /\ Len(stack') = Len(stack) + 1 /\ stack'[1] = f
      /\ \A i \in 2 .. Len(stack) + 1 : stack'[i] = stack[i - 1]
  BY CallFrame, LenProperties DEF TypeOK, Call
<1>2. CASE d = Len(stack) + 1
  BY <1>1, <1>2 DEF RetainedAt, TaskAt
<1>3. CASE d \in 1 .. Len(stack)
  <2>1. stack'[Len(stack') + 1 - d] = stack[Len(stack) + 1 - d] /\ d \in 1 .. Len(stack')
    BY <1>1, <1>3
  <2>. QED
    BY <1>1, <1>3, <2>1 DEF RetainedAt, TaskAt
<1>4. CASE d \notin 1 .. Len(stack) + 1
  BY <1>1, <1>4 DEF RetainedAt, TaskAt
<1>. QED
  BY <1>1, <1>2, <1>3, <1>4

LEMMA ReturnQueues ==
    ASSUME TypeOK, stack # << >>, Return, NEW d \in Nat \ {0}
    PROVE  /\ RetainedAt(d)' = IF d = Len(stack) THEN << >> ELSE RetainedAt(d)
           /\ TaskAt(d)' = IF d = Len(stack) THEN << >> ELSE TaskAt(d)
<1>1. /\ Len(stack) \in Nat \ {0} /\ Len(stack') = Len(stack) - 1
      /\ \A i \in 1 .. Len(stack) - 1 : stack'[i] = stack[i + 1]
  BY HeadTailProperties, TopFrame DEF TypeOK, Return
<1>. QED
  BY <1>1 DEF RetainedAt, TaskAt

LEMMA TopQueues ==
    ASSUME TypeOK, stack # << >>
    PROVE  /\ Len(stack) \in Nat \ {0}
           /\ RetainedAt(Len(stack)) = Top.retained
           /\ TaskAt(Len(stack)) = TaskOf(Top)
BY TopFrame DEF RetainedAt, TaskAt

-----------------------------------------------------------------------------
(* The inductive invariant.                                                *)

\* A fetch holds retained tasks only between the answer and their release.
Emptied == \A i \in DOMAIN stack :
               stack[i].retained # << >> => stack[i].at \in {"callback", "release"}

Owned ==
    /\ Unique(Queues)
    /\ \A n \in Num : Inside(Queues, n) => n \in Accepted \ written
    /\ written \subseteq Accepted

\* Accepted tasks that no queue holds and whose results are not written.
Gone == { n \in Accepted \ written : ~Inside(Queues, n) }

\* What a step may do to them: a task is let go of by a fetch that will return
\* false, or in Release when the line refuses it.
GoneOnly ==
    Gone' # Gone => \/ stack' # << >> /\ ~Head(stack').ok
                    \/ Release /\ "send" \in Faults

OInv == IInv /\ Emptied /\ Owned

LEMMA EmptiedTop ==
    ASSUME TypeOK, Emptied, stack # << >>
    PROVE  Top.retained # << >> => Top.at \in {"callback", "release"}
<1>1. 1 \in DOMAIN stack /\ Top = stack[1]
  BY TopFrame, LenProperties DEF TypeOK
<1>. QED
  BY <1>1 DEF Emptied

LEMMA GotoEmptied ==
    ASSUME TypeOK, Emptied, stack # << >>, NEW f \in Frames, Goto(f),
           f.retained # << >> => f.at \in {"callback", "release"}
    PROVE  Emptied'
<1>1. /\ Len(stack) \in Nat \ {0} /\ Len(stack') = Len(stack) /\ stack'[1] = f
      /\ \A i \in 2 .. Len(stack) : stack'[i] = stack[i]
      /\ stack' \in Seq(Frames)
  BY GotoFrame, TopFrame DEF TypeOK, Goto
<1>2. DOMAIN stack = 1 .. Len(stack) /\ DOMAIN stack' = 1 .. Len(stack)
  BY <1>1, LenProperties DEF TypeOK
<1>. QED
  BY <1>1, <1>2 DEF Emptied

LEMMA CallEmptied ==
    ASSUME TypeOK, Emptied, NEW f \in Frames, Call(f), f.retained = << >>
    PROVE  Emptied'
<1>1. /\ Len(stack) \in Nat /\ Len(stack') = Len(stack) + 1 /\ stack'[1] = f
      /\ \A i \in 2 .. Len(stack) + 1 : stack'[i] = stack[i - 1]
      /\ stack' \in Seq(Frames)
  BY CallFrame, LenProperties DEF TypeOK, Call
<1>2. DOMAIN stack = 1 .. Len(stack) /\ DOMAIN stack' = 1 .. Len(stack) + 1
  BY <1>1, LenProperties DEF TypeOK
<1>. QED
  BY <1>1, <1>2 DEF Emptied

LEMMA ReturnEmptied ==
    ASSUME TypeOK, Emptied, stack # << >>, Return
    PROVE  Emptied'
<1>1. /\ Len(stack) \in Nat \ {0} /\ Len(stack') = Len(stack) - 1
      /\ \A i \in 1 .. Len(stack) - 1 : stack'[i] = stack[i + 1]
      /\ stack' \in Seq(Frames)
  BY HeadTailProperties, TopFrame DEF TypeOK, Return
<1>2. DOMAIN stack = 1 .. Len(stack) /\ DOMAIN stack' = 1 .. Len(stack) - 1
  BY <1>1, LenProperties DEF TypeOK
<1>. QED
  BY <1>1, <1>2 DEF Emptied

-----------------------------------------------------------------------------
(* Steps that move no task.                                                *)

LEMMA Unmoved ==
    ASSUME Owned, UNCHANGED <<task, written>>, Queues' = Queues
    PROVE  Owned' /\ GoneOnly
<1>1. Accepted' = Accepted
  BY DEF Accepted
<1>2. Unique(Queues)' = Unique(Queues) /\ \A n : Inside(Queues, n)' = Inside(Queues, n)
  BY DEF Unique, Inside
<1>3. Gone' = Gone
  BY <1>1, <1>2 DEF Gone
<1>. QED
  BY <1>1, <1>2, <1>3 DEF Owned, GoneOnly

LEMMA SameStack ==
    ASSUME TypeOK, UNCHANGED <<running, finished, pending>>,
           \A d \in Nat \ {0} : RetainedAt(d)' = RetainedAt(d) /\ TaskAt(d)' = TaskAt(d)
    PROVE  Queues' = Queues
BY QueueOf, QueuesType, QueuesAfter

\* A call that goes on with the tasks it holds.
LEMMA GotoUnmoved ==
    ASSUME TypeOK, Emptied, Owned, stack # << >>, NEW f \in Frames, Goto(f),
           UNCHANGED <<running, finished, pending, task, written>>,
           f.retained = Top.retained, TaskOf(f) = TaskOf(Top),
           f.retained # << >> => f.at \in {"callback", "release"}
    PROVE  Emptied' /\ Owned' /\ GoneOnly
<1>1. \A d \in Nat \ {0} : RetainedAt(d)' = RetainedAt(d) /\ TaskAt(d)' = TaskAt(d)
  BY GotoQueues, TopQueues
<1>2. Queues' = Queues
  BY <1>1, SameStack
<1>3. Emptied'
  BY GotoEmptied
<1>. QED
  BY <1>2, <1>3, Unmoved

LEMMA CallUnmoved ==
    ASSUME TypeOK, TypeOK', Emptied, Owned, NEW caller, NEW kind, Call(Fetch(caller, kind)),
           UNCHANGED <<running, finished, pending, task, written>>
    PROVE  Emptied' /\ Owned' /\ GoneOnly
<1>. DEFINE f == Fetch(caller, kind)
<1>1. f.retained = << >> /\ TaskOf(f) = << >>
  BY DEF Fetch, TaskOf, Fetching
<1>. HIDE DEF f
<1>2. f \in Frames
  <2>1. stack \in Seq(Frames \cup {f}) /\ f \in Frames \cup {f} /\ stack' = << f >> \o stack
    BY SeqMonotonic DEF TypeOK, Call, f
  <2>2. stack' # << >> /\ stack'[1] = f
    BY <2>1, CallFrame
  <2>. QED
    BY <2>2, HeadTailProperties DEF TypeOK
<1>3. Len(stack) \in Nat /\ Call(f)
  BY LenProperties DEF TypeOK, f
<1>4. RetainedAt(Len(stack) + 1) = << >> /\ TaskAt(Len(stack) + 1) = << >>
  BY <1>3 DEF RetainedAt, TaskAt
<1>5. \A d \in Nat \ {0} : RetainedAt(d)' = RetainedAt(d) /\ TaskAt(d)' = TaskAt(d)
  BY <1>1, <1>2, <1>3, <1>4, CallQueues
<1>6. Queues' = Queues
  BY <1>5, SameStack
<1>. QED
  BY <1>1, <1>2, <1>3, <1>6, Unmoved, CallEmptied

LEMMA ReturnUnmoved ==
    ASSUME TypeOK, Emptied, Owned, stack # << >>, Return,
           UNCHANGED <<running, finished, pending, task, written>>,
           Top.retained = << >>, TaskOf(Top) = << >>
    PROVE  Emptied' /\ Owned' /\ GoneOnly
<1>1. \A d \in Nat \ {0} : RetainedAt(d)' = RetainedAt(d) /\ TaskAt(d)' = TaskAt(d)
  BY ReturnQueues, TopQueues
<1>2. Queues' = Queues
  BY <1>1, SameStack
<1>. QED
  BY <1>2, Unmoved, ReturnEmptied

LEMMA StillUnmoved ==
    ASSUME TypeOK, Emptied, Owned,
           UNCHANGED <<running, finished, pending, task, written, stack>>
    PROVE  Emptied' /\ Owned' /\ GoneOnly
<1>1. \A d \in Nat \ {0} : RetainedAt(d)' = RetainedAt(d) /\ TaskAt(d)' = TaskAt(d)
  BY DEF RetainedAt, TaskAt
<1>2. Queues' = Queues
  BY <1>1, SameStack
<1>3. Emptied'
  BY DEF Emptied
<1>. QED
  BY <1>2, <1>3, Unmoved

-----------------------------------------------------------------------------
(* Steps that move a task.                                                 *)

LEMMA QueuesNext ==
    ASSUME NEW R, Queues' = R
    PROVE  Unique(Queues)' = Unique(R) /\ \A n : Inside(Queues, n)' = Inside(R, n)
BY DEF Unique, Inside

\* A task that is queued where it was in no queue before.
LEMMA QueueTask ==
    ASSUME TypeOK, Owned, NEW k \in Keys, NEW n \in Num, n \notin Accepted,
           Queues' = Push(Queues, k, n),
           Accepted' = Accepted \cup {n}, written' = written
    PROVE  Owned' /\ Gone' = Gone
<1>. DEFINE R == Push(Queues, k, n)
<1>1. ~Inside(Queues, n) /\ Unique(Queues) /\ Queues \in [Keys -> Seq(Num)]
  BY QueuesType DEF Owned
<1>2. Unique(R) /\ \A m : Inside(R, m) <=> Inside(Queues, m) \/ m = n
  BY <1>1, AfterPush
<1>3. Unique(Queues)' /\ \A m : Inside(Queues, m)' <=> Inside(Queues, m) \/ m = n
  BY <1>2, QueuesNext
<1>4. Gone' = Gone
  BY <1>3 DEF Gone, Owned
<1>. QED
  BY <1>3, <1>4 DEF Owned

LEMMA StartOwned ==
    ASSUME IInv, TypeOK', Emptied, Owned, NEW kind \in Kinds, NEW dep \in Accepted \cup {0},
           StartAsyncTask(kind, dep)
    PROVE  Emptied' /\ Owned' /\ GoneOnly
<1>. DEFINE n == counter + 1
<1>1. n \in Num /\ task[n] = NoTask /\ n \notin Accepted
  BY ConstantsAssumption
     DEF ConstantsAssumption, IInv, TypeOK, Fresh, StartAsyncTask, Num, Accepted
<1>2. TypeOK /\ task \in [Num -> Tasks \cup {NoTask}] /\ dep \in Num \cup {0} /\ kind \in AllKinds
  BY ConstantsAssumption DEF ConstantsAssumption, IInv, TypeOK, Accepted
<1>3. UNCHANGED <<stack, finished, written>>
  BY DEF StartAsyncTask
<1>4. \A d : RetainedAt(d)' = RetainedAt(d) /\ TaskAt(d)' = TaskAt(d)
  BY <1>3 DEF RetainedAt, TaskAt
<1>5. Emptied'
  BY <1>3 DEF Emptied
<1>6. ASSUME NEW held \in BOOLEAN, NEW attempt \in {1, 2},
             task' = [task EXCEPT ![n] = NewTask(kind, dep, held, attempt)]
      PROVE  Accepted' = Accepted \cup {n}
  <2>1. task'[n] # NoTask
    BY <1>1, <1>2, <1>6 DEF NewTask, NoTask, AllKinds
  <2>. QED
    BY <1>1, <1>2, <1>6, <2>1 DEF Accepted
<1>7. CASE UNCHANGED <<task, pending, running>>
  BY <1>2, <1>3, <1>7, StillUnmoved
<1>8. CASE /\ dep > 0 /\ pending' = [pending EXCEPT ![dep] = Append(@, n)]
           /\ task' = [task EXCEPT ![n] = NewTask(kind, dep, TRUE, 1)]
           /\ running' = running
  <2>. DEFINE k == <<"pending", dep>>
             R == Push(Queues, k, n)
  <2>1. k \in Keys /\ dep \in Num
    BY <1>2, <1>8, KeysAre
  <2>2. R \in [Keys -> Seq(Num)]
    BY <1>1, <1>2, <2>1, QueuesType, AfterPush
  <2>3. \A m \in Num : R[<<"pending", m>>] = pending'[m]
    BY <1>2, <1>8, <2>1, QueueOf, KeysAre DEF TypeOK, Push
  <2>4. Queues' = R
    <3>1. \A l \in Keys : l # k => R[l] = Queues[l]
      BY QueueOf DEF Push
    <3>. HIDE DEF R
    <3>. QED
      BY <1>3, <1>4, <1>8, <2>2, <2>3, <3>1, QueueOf, KeysAre, QueuesAfter
  <2>. QED
    BY <1>1, <1>2, <1>3, <1>5, <1>6, <1>8, <2>1, <2>4, QueueTask DEF GoneOnly
<1>9. CASE /\ running' = Append(running, n) /\ pending' = pending
           /\ task' = [task EXCEPT ![n] = NewTask(kind, dep, FALSE, 2)]
  <2>. DEFINE k == <<"running", 0>>
             R == Push(Queues, k, n)
  <2>1. k \in Keys
    BY KeysAre
  <2>2. R \in [Keys -> Seq(Num)]
    BY <1>1, <1>2, <2>1, QueuesType, AfterPush
  <2>3. R[k] = running'
    BY <1>9, <2>1, QueueOf DEF Push
  <2>4. Queues' = R
    <3>1. \A l \in Keys : l # k => R[l] = Queues[l]
      BY QueueOf DEF Push
    <3>. HIDE DEF R
    <3>. QED
      BY <1>3, <1>4, <1>9, <2>2, <2>3, <3>1, QueueOf, KeysAre, QueuesAfter
  <2>. QED
    BY <1>1, <1>2, <1>3, <1>5, <1>6, <1>9, <2>1, <2>4, QueueTask DEF GoneOnly
<1>. QED
  BY <1>7, <1>8, <1>9 DEF StartAsyncTask, Retains

\* The same tasks as now, each in one queue.
Rearranged(Q) ==
    /\ Q \in [Keys -> Seq(Num)]
    /\ Unique(Q)
    /\ \A n : Inside(Q, n) <=> Inside(Queues, n)

LEMMA PassQueues ==
    ASSUME NEW Q, Rearranged(Q), NEW k \in Keys, NEW l \in Keys, k # l, Q[k] # << >>
    PROVE  /\ Pass(Q, k, l) \in [Keys -> Seq(Num)]
           /\ Pass(Q, k, l)[k] = Tail(Q[k]) /\ Pass(Q, k, l)[l] = Append(Q[l], Head(Q[k]))
           /\ \A h \in Keys : h \notin {k, l} => Pass(Q, k, l)[h] = Q[h]
<1>1. Pass(Q, k, l) \in [Keys -> Seq(Num)]
  BY AfterPass DEF Rearranged
<1>2. Q \in [Keys -> Seq(Num)]
  BY DEF Rearranged
<1>3. /\ Pass(Q, k, l)[k] = Tail(Q[k]) /\ Pass(Q, k, l)[l] = Append(Q[l], Head(Q[k]))
      /\ \A h \in Keys : h \notin {k, l} => Pass(Q, k, l)[h] = Q[h]
  BY <1>2 DEF Pass, Push, Pop
<1>. QED
  BY <1>1, <1>3

\* A task passed from the head of one queue to the end of another one.
LEMMA PassTask ==
    ASSUME Owned, UNCHANGED written, Accepted' = Accepted,
           NEW Q, Rearranged(Q), NEW k \in Keys, NEW l \in Keys, k # l, Q[k] # << >>,
           Queues'[k] = Tail(Q[k]), Queues'[l] = Append(Q[l], Head(Q[k])),
           \A m \in Keys : m \notin {k, l} => Queues'[m] = Q[m]
    PROVE  Owned' /\ Gone' = Gone
<1>. DEFINE R == Pass(Q, k, l)
<1>. HIDE DEF R
<1>1. Unique(R) /\ \A m : Inside(R, m) <=> Inside(Q, m)
  BY AfterPass DEF Rearranged, R
<1>2. /\ R \in [Keys -> Seq(Num)]
      /\ R[k] = Tail(Q[k]) /\ R[l] = Append(Q[l], Head(Q[k]))
      /\ \A h \in Keys : h \notin {k, l} => R[h] = Q[h]
  BY PassQueues DEF R
<1>3. Queues' = R
  <2>1. \A m \in Keys : Queues'[m] = R[m]
    BY <1>2
  <2>. QED
    BY <1>2, <2>1, QueueOfNext
<1>4. Unique(Queues)' /\ \A m : Inside(Queues, m)' <=> Inside(Queues, m)
  BY <1>1, <1>3, QueuesNext DEF Rearranged
<1>. QED
  BY <1>4 DEF Owned, Gone

\* A task taken from the head of a queue is in no other one.
LEMMA DropTask ==
    ASSUME Owned, Accepted' = Accepted,
           NEW Q, Rearranged(Q), NEW k \in Keys, Q[k] # << >>,
           Queues'[k] = Tail(Q[k]), \A m \in Keys : m \notin {k} => Queues'[m] = Q[m],
           written' = written \/ written' = written \cup {Head(Q[k])}
    PROVE  Owned' /\ (written' # written => Gone' = Gone)
<1>. DEFINE R == Pop(Q, k)
            n == Head(Q[k])
<1>1. /\ Unique(R) /\ ~Inside(R, n) /\ Inside(Q, n) /\ n \in Num
      /\ \A m : m # n => (Inside(R, m) <=> Inside(Q, m))
  BY AfterPop DEF Rearranged
<1>0. Queues' = R
  <2>1. R \in [Keys -> Seq(Num)]
    BY AfterPop DEF Rearranged
  <2>2. R[k] = Tail(Q[k]) /\ \A m \in Keys : m # k => R[m] = Q[m]
    BY DEF Rearranged, Pop
  <2>. HIDE DEF R
  <2>3. \A m \in Keys : Queues'[m] = R[m]
    BY <2>2
  <2>. QED
    BY <2>1, <2>3, QueueOfNext
<1>2. /\ Unique(Queues)' /\ ~Inside(Queues, n)' /\ Inside(Queues, n)
      /\ \A m : m # n => (Inside(Queues, m)' <=> Inside(Queues, m))
  BY <1>0, <1>1, QueuesNext DEF Rearranged
<1>. HIDE DEF n
<1>3. n \in Accepted \ written
  BY <1>1, <1>2 DEF Owned
<1>4. written' \subseteq Accepted
  BY <1>3 DEF Owned, n
<1>5. \A m \in Num : Inside(Queues, m)' => m \in Accepted \ written'
  BY <1>2 DEF Owned, n
<1>6. Owned'
  BY <1>2, <1>4, <1>5 DEF Owned
<1>7. ASSUME written' = written \cup {n} PROVE Gone' = Gone
  BY <1>2, <1>7 DEF Gone
<1>. QED
  BY <1>6, <1>7 DEF n

LEMMA NowRearranged == TypeOK /\ Owned => Rearranged(Queues)
BY QueuesType DEF Owned, Rearranged

LEMMA AttemptAccepted ==
    ASSUME TypeOK, NEW n \in Accepted, task' = [task EXCEPT ![n].attempt = @ + 1]
    PROVE  Accepted' = Accepted
<1>1. n \in Num /\ task \in [Num -> Tasks \cup {NoTask}] /\ task[n] \in Tasks
  BY AcceptedTask DEF TypeOK
<1>2. task'[n].kind = task[n].kind /\ task[n].kind \in AllKinds
  BY <1>1 DEF Tasks
<1>3. task'[n] # NoTask /\ \A m \in Num : m # n => task'[m] = task[m]
  BY <1>1, <1>2 DEF NoTask, NewTask, AllKinds
<1>. QED
  BY <1>1, <1>3 DEF Accepted

LEMMA TakeOwned ==
    ASSUME IInv, TypeOK', Emptied, Owned, TakeRunning
    PROVE  Emptied' /\ Owned' /\ GoneOnly
<1>. DEFINE f == [Top EXCEPT !.at = "recv", !.task = Head(running), !.depth = 0]
            d == Len(stack)
<1>1. /\ TypeOK /\ stack # << >> /\ Top \in Frames /\ Top.at = "loop"
      /\ running \in Seq(Num) /\ running # << >> /\ d \in Nat \ {0}
  BY TopFrame DEF IInv, TypeOK, TakeRunning, At
<1>2. f \in Frames /\ Goto(f)
  BY <1>1, NewTop DEF IInv, TakeRunning
<1>3. Head(running) \in Num
  BY <1>1
<1>4. /\ f.at = "recv" /\ f.task = Head(running) /\ f.retained = Top.retained
      /\ Top.retained = << >>
  BY <1>1, EmptiedTop DEF Frames
<1>5. TaskOf(f) = << Head(running) >> /\ TaskOf(Top) = << >>
  BY <1>1, <1>3, <1>4 DEF TaskOf, Fetching, Num, Sync
<1>. HIDE DEF f
<1>6. \A e \in Nat \ {0} : /\ RetainedAt(e)' = RetainedAt(e)
                           /\ TaskAt(e)' = IF e = d THEN << Head(running) >> ELSE TaskAt(e)
  BY <1>1, <1>2, <1>4, <1>5, GotoQueues, TopQueues
<1>7. /\ <<"running", 0>> \in Keys /\ <<"task", d>> \in Keys
      /\ Queues[<<"running", 0>>] = running /\ Queues[<<"task", d>>] = << >>
  BY <1>1, <1>5, KeysAre, QueueOf, TopQueues
<1>8. Rearranged(Queues) /\ Append(<< >>, Head(running)) = << Head(running) >>
  BY <1>1, <1>3, NowRearranged
<1>9. PICK k \in Keys, l \in Keys : k = <<"running", 0>> /\ l = <<"task", d>> /\ k # l
  BY <1>7
<1>10. UNCHANGED <<finished, pending, task, written>> /\ running' = Tail(running)
  BY DEF TakeRunning
<1>11. Queues[k] # << >> /\ Queues'[k] = Tail(Queues[k])
  BY <1>1, <1>7, <1>9, <1>10, QueueOfNext
<1>12. Queues'[l] = Append(Queues[l], Head(Queues[k]))
  BY <1>1, <1>6, <1>7, <1>8, <1>9, QueueOfNext
<1>13. ASSUME NEW m \in Keys, m \notin {k, l}
       PROVE  Queues'[m] = Queues[m]
  <2>1. /\ m # <<"running", 0>>
        /\ \A e \in Nat \ {0} : RetainedAt(e)' = RetainedAt(e)
                               /\ (m # <<"task", e>> \/ TaskAt(e)' = TaskAt(e))
    BY <1>6, <1>9, <1>13
  <2>. QED
    BY <1>10, <2>1, SameQueue
<1>14. Accepted' = Accepted
  BY <1>10 DEF Accepted
<1>15. Owned' /\ Gone' = Gone
  <2>1. k # l /\ Rearranged(Queues) /\ UNCHANGED written
    BY <1>8, <1>9, <1>10
  <2>. QED
    BY <1>11, <1>12, <1>13, <1>14, <2>1, PassTask
<1>16. Emptied'
  BY <1>1, <1>2, <1>4, GotoEmptied
<1>. QED
  BY <1>15, <1>16 DEF GoneOnly

LEMMA RetryOwned ==
    ASSUME IInv, TypeOK', Emptied, Owned, Retry
    PROVE  Emptied' /\ Owned' /\ GoneOnly
<1>. DEFINE d == Len(stack)
            n == Top.task
<1>1. /\ TypeOK /\ stack # << >> /\ Top \in Frames /\ Top.at = "retry" /\ Top \in GoodFrames
      /\ d \in Nat \ {0}
  BY TopFrame, TopInPlace DEF IInv, Retry, At
<1>2. n \in Num /\ n \in Accepted /\ n # Sync
  BY <1>1 DEF GoodFrames, Requested, Accepted
<1>3. TaskOf(Top) = << n >> /\ Top.retained = << >>
  BY <1>1, <1>2, EmptiedTop DEF TaskOf, Fetching
<1>4. PICK f \in Frames : /\ Goto(f) /\ f.at = "loop" /\ f.retained = << >>
                          /\ running' = running => ~f.ok
                          /\ running' = running \/ running' = Append(running, n)
  <2>1. /\ [Top EXCEPT !.at = "loop"] \in Frames
        /\ [Top EXCEPT !.at = "loop"].at = "loop"
        /\ [Top EXCEPT !.at = "loop"].retained = Top.retained
    BY <1>1 DEF Frames, Places
  <2>2. GiveUp(Top) \in Frames /\ GiveUp(Top).at = "loop" /\ ~GiveUp(Top).ok
        /\ GiveUp(Top).retained = Top.retained
    BY <1>1 DEF Frames, Places, GiveUp
  <2>3. Append(running, n) # running
    BY <1>1, <1>2, AppendProperties DEF TypeOK
  <2>4. \/ Goto([Top EXCEPT !.at = "loop"]) /\ running' = Append(running, n)
        \/ Goto(GiveUp(Top)) /\ running' = running
    BY DEF Retry, Requeue
  <2>. QED
    BY <1>3, <2>1, <2>2, <2>3, <2>4
<1>5. TaskOf(f) = << >>
  BY <1>4 DEF TaskOf, Fetching
<1>6. \A e \in Nat \ {0} : /\ RetainedAt(e)' = RetainedAt(e)
                           /\ TaskAt(e)' = IF e = d THEN << >> ELSE TaskAt(e)
  BY <1>1, <1>3, <1>4, <1>5, GotoQueues, TopQueues
<1>7. /\ <<"running", 0>> \in Keys /\ <<"task", d>> \in Keys
      /\ Queues[<<"running", 0>>] = running /\ Queues[<<"task", d>>] = << n >>
  BY <1>1, <1>3, KeysAre, QueueOf, TopQueues
<1>8. /\ Rearranged(Queues) /\ Tail(<< n >>) = << >> /\ Head(<< n >>) = n
      /\ << n >> # << >>
  BY <1>1, <1>2, NowRearranged
<1>9. PICK k \in Keys, l \in Keys : k = <<"task", d>> /\ l = <<"running", 0>> /\ k # l
  BY <1>7
<1>10. UNCHANGED <<finished, pending, written>>
  BY DEF Retry
<1>11. Accepted' = Accepted
  BY <1>1, <1>2, AttemptAccepted DEF Retry, Accepted
<1>12. Queues[k] = << n >> /\ Queues'[k] = Tail(Queues[k])
  BY <1>1, <1>6, <1>7, <1>8, <1>9, QueueOfNext
<1>13. Emptied'
  BY <1>1, <1>4, GotoEmptied
<1>14. ASSUME NEW m \in Keys, m # k, m # l \/ running' = running
       PROVE  Queues'[m] = Queues[m]
  <2>1. /\ m # <<"running", 0>> \/ running' = running
        /\ \A e \in Nat \ {0} : RetainedAt(e)' = RetainedAt(e)
                               /\ (m # <<"task", e>> \/ TaskAt(e)' = TaskAt(e))
    BY <1>6, <1>9, <1>14
  <2>. QED
    BY <1>10, <2>1, SameQueue
<1>15. CASE running' = Append(running, n)
  <2>1. Queues'[l] = Append(Queues[l], Head(Queues[k]))
    BY <1>7, <1>8, <1>9, <1>12, <1>15, QueueOfNext
  <2>2. \A m \in Keys : m \notin {k, l} => Queues'[m] = Queues[m]
    BY <1>14
  <2>3. /\ Queues[k] # << >> /\ Queues'[k] = Tail(Queues[k]) /\ k # l
        /\ Rearranged(Queues) /\ UNCHANGED written
    BY <1>8, <1>9, <1>10, <1>12
  <2>4. Owned' /\ Gone' = Gone
    BY <1>11, <2>1, <2>2, <2>3, PassTask
  <2>. QED
    BY <1>13, <2>4 DEF GoneOnly
<1>16. CASE running' = running
  <2>1. \A m \in Keys : m \notin {k} => Queues'[m] = Queues[m]
    BY <1>14, <1>16
  <2>2. Owned'
    BY <1>8, <1>10, <1>11, <1>12, <2>1, DropTask
  <2>3. stack' # << >> /\ ~Head(stack').ok
    BY <1>1, <1>4, <1>16, GotoFrame DEF TypeOK, Goto
  <2>. QED
    BY <1>13, <2>2, <2>3 DEF GoneOnly
<1>. QED
  BY <1>4, <1>15, <1>16

LEMMA ReleaseOwned ==
    ASSUME IInv, TypeOK', Emptied, Owned, Release
    PROVE  Emptied' /\ Owned' /\ GoneOnly
<1>. DEFINE d == Len(stack)
            n == Head(Top.retained)
<1>1. /\ TypeOK /\ stack # << >> /\ Top \in Frames /\ Top.at = "release" /\ Top \in GoodFrames
      /\ d \in Nat \ {0}
  BY TopFrame, TopInPlace DEF IInv, Release, At
<1>2. TaskOf(Top) = << >> /\ UNCHANGED <<finished, pending, written>>
  BY <1>1 DEF TaskOf, Fetching, Release
<1>3. CASE Top.retained = << >>
  <2>. DEFINE f == [Top EXCEPT !.at = "loop"]
  <2>1. /\ f \in Frames /\ f.at = "loop" /\ f.retained = Top.retained
        /\ Goto(f) /\ UNCHANGED <<task, running>>
    BY <1>1, <1>3 DEF Frames, Places, Release
  <2>. HIDE DEF f
  <2>2. TaskOf(f) = << >>
    BY <2>1 DEF TaskOf, Fetching
  <2>. QED
    BY <1>1, <1>2, <1>3, <2>1, <2>2, GotoUnmoved
<1>4. CASE Top.retained # << >>
  <2>. DEFINE f == [Top EXCEPT !.retained = Tail(@)]
  <2>1. /\ f \in Frames /\ f.at = "release" /\ f.retained = Tail(Top.retained) /\ Goto(f)
    BY <1>1, <1>4, NewTop DEF IInv, Frames, Release
  <2>. HIDE DEF f
  <2>2. n \in Releasable /\ n \in Accepted /\ n \in Num
    <3>1. Top.retained \in Seq(Releasable)
      BY <1>1 DEF GoodFrames
    <3>. QED
      BY <1>4, <3>1, HeadTailProperties DEF Releasable, Accepted
  <2>3. TaskOf(f) = << >>
    BY <2>1 DEF TaskOf, Fetching
  <2>4. \A e \in Nat \ {0} :
            /\ RetainedAt(e)' = IF e = d THEN Tail(Top.retained) ELSE RetainedAt(e)
            /\ TaskAt(e)' = TaskAt(e)
    BY <1>1, <1>2, <2>1, <2>3, GotoQueues, TopQueues
  <2>5. /\ <<"running", 0>> \in Keys /\ <<"retained", d>> \in Keys
        /\ Queues[<<"running", 0>>] = running /\ Queues[<<"retained", d>>] = Top.retained
    BY <1>1, KeysAre, QueueOf, TopQueues
  <2>6. Rearranged(Queues)
    BY <1>1, NowRearranged
  <2>7. PICK k \in Keys, l \in Keys : k = <<"retained", d>> /\ l = <<"running", 0>> /\ k # l
    BY <2>5
  <2>8. Accepted' = Accepted
    BY <1>1, <1>4, <2>2, AttemptAccepted DEF Release
  <2>9. Queues[k] = Top.retained /\ Queues'[k] = Tail(Queues[k]) /\ Queues[k] # << >>
    BY <1>1, <1>4, <2>4, <2>5, <2>7, QueueOfNext
  <2>10. Emptied'
    BY <1>1, <2>1, GotoEmptied
  <2>11. ASSUME NEW m \in Keys, m # k, m # l \/ running' = running
         PROVE  Queues'[m] = Queues[m]
    <3>1. /\ m # <<"running", 0>> \/ running' = running
          /\ \A e \in Nat \ {0} : TaskAt(e)' = TaskAt(e)
                                 /\ (m # <<"retained", e>> \/ RetainedAt(e)' = RetainedAt(e))
      BY <2>4, <2>7, <2>11
    <3>. QED
      BY <1>2, <3>1, SameQueue
  <2>12. CASE running' = Append(running, n)
    <3>1. Queues'[l] = Append(Queues[l], Head(Queues[k]))
      BY <2>5, <2>7, <2>9, <2>12, QueueOfNext
    <3>2. \A m \in Keys : m \notin {k, l} => Queues'[m] = Queues[m]
      BY <2>11
    <3>3. k # l /\ UNCHANGED written
      BY <1>2, <2>7
    <3>4. Owned' /\ Gone' = Gone
      BY <2>6, <2>8, <2>9, <3>1, <3>2, <3>3, PassTask
    <3>. QED
      BY <2>10, <3>4 DEF GoneOnly
  <2>13. CASE running' = running /\ SendFails
    <3>1. \A m \in Keys : m \notin {k} => Queues'[m] = Queues[m]
      BY <2>11, <2>13
    <3>2. Owned'
      BY <1>2, <2>6, <2>8, <2>9, <3>1, DropTask
    <3>3. "send" \in Faults
      BY <2>13 DEF SendFails, Fault
    <3>. QED
      BY <2>10, <3>2, <3>3 DEF GoneOnly
  <2>. QED
    BY <1>4, <2>12, <2>13 DEF Release
<1>. QED
  BY <1>3, <1>4

\* The queue that leaves the map with an answered task.
LEMMA ShiftQueues ==
    ASSUME NEW Q, Rearranged(Q), NEW k \in Keys, NEW l \in Keys, k # l, Q[l] = << >>
    PROVE  /\ Rearranged(Shift(Q, k, l))
           /\ Shift(Q, k, l)[k] = << >> /\ Shift(Q, k, l)[l] = Q[k]
           /\ \A h \in Keys : h \notin {k, l} => Shift(Q, k, l)[h] = Q[h]
<1>1. Q \in [Keys -> Seq(Num)] /\ Unique(Q)
  BY DEF Rearranged
<1>2. /\ Shift(Q, k, l) \in [Keys -> Seq(Num)] /\ Unique(Shift(Q, k, l))
      /\ \A m : Inside(Shift(Q, k, l), m) <=> Inside(Q, m)
  BY <1>1, AfterShift
<1>3. /\ Shift(Q, k, l)[k] = << >> /\ Shift(Q, k, l)[l] = Q[k]
      /\ \A h \in Keys : h \notin {k, l} => Shift(Q, k, l)[h] = Q[h]
  BY <1>1 DEF Shift
<1>. QED
  BY <1>2, <1>3 DEF Rearranged

LEMMA SuccessOwned ==
    ASSUME IInv, TypeOK', Emptied, Owned, AsyncSuccess
    PROVE  Emptied' /\ Owned' /\ GoneOnly
<1>. DEFINE d == Len(stack)
            n == Top.task
            q == IF n \in dependent THEN pending[n] ELSE << >>
<1>1. /\ TypeOK /\ stack # << >> /\ Top \in Frames /\ Top.at = "recv" /\ d \in Nat \ {0}
  BY TopFrame DEF IInv, AsyncSuccess, Receive, At
<1>2. n \in Num /\ n # Sync
  BY <1>1 DEF AsyncSuccess, Frames
<1>3. TaskOf(Top) = << n >> /\ Top.retained = << >>
  BY <1>1, <1>2, EmptiedTop DEF TaskOf, Fetching
<1>4. PICK f \in Frames : Goto(f) /\ f.at \in {"callback", "release"} /\ f.retained = q
  <2>1. q = IF n \in dependent THEN Retained(n) ELSE << >>
    BY DEF Retained
  <2>2. PICK place \in {"callback", "release"} : Goto([Top EXCEPT !.at = place, !.retained = q])
    BY <2>1 DEF AsyncSuccess
  <2>. DEFINE f == [Top EXCEPT !.at = place, !.retained = q]
  <2>3. f \in Frames
    BY <1>1, <2>2, NewTop DEF IInv
  <2>4. f.at = place /\ f.retained = q
    BY <1>1 DEF Frames
  <2>. QED
    BY <2>2, <2>3, <2>4
<1>. HIDE DEF q
<1>5. TaskOf(f) = << >>
  BY <1>4 DEF TaskOf, Fetching
<1>6. \A e \in Nat \ {0} : /\ RetainedAt(e)' = IF e = d THEN q ELSE RetainedAt(e)
                           /\ TaskAt(e)' = IF e = d THEN << >> ELSE TaskAt(e)
  BY <1>1, <1>4, <1>5, GotoQueues
<1>7. /\ \A e \in Num : pending'[e] = IF e = n /\ n \in dependent THEN << >> ELSE pending[e]
      /\ UNCHANGED <<task, running>>
  BY <1>1, <1>2 DEF AsyncSuccess, Erase, TypeOK
<1>8. PICK k \in Keys, l \in Keys, p \in Keys, r \in Keys :
          /\ k = <<"task", d>> /\ l = <<"finished", 0>>
          /\ p = <<"pending", n>> /\ r = <<"retained", d>>
          /\ k # l /\ p # r /\ k \notin {p, r} /\ l \notin {p, r}
          /\ Queues[k] = << n >> /\ Queues[r] = << >> /\ Queues[p] = pending[n]
          /\ Queues[l] = finished
  <2>1. /\ <<"task", d>> \in Keys /\ <<"finished", 0>> \in Keys
        /\ <<"pending", n>> \in Keys /\ <<"retained", d>> \in Keys
    BY <1>1, <1>2, KeysAre
  <2>. QED
    BY <1>1, <1>2, <1>3, <2>1, QueueOf, TopQueues
<1>9. PICK Q : /\ Rearranged(Q) /\ Q[r] = q
               /\ Q[p] = IF n \in dependent THEN << >> ELSE Queues[p]
               /\ \A h \in Keys : h \notin {p, r} => Q[h] = Queues[h]
  <2>1. Rearranged(Queues)
    BY <1>1, NowRearranged
  <2>2. CASE n \in dependent
    <3>0. p # r /\ Queues[r] = << >>
      BY <1>8
    <3>1. /\ Rearranged(Shift(Queues, p, r))
          /\ Shift(Queues, p, r)[p] = << >> /\ Shift(Queues, p, r)[r] = Queues[p]
          /\ \A h \in Keys : h \notin {p, r} => Shift(Queues, p, r)[h] = Queues[h]
      BY <2>1, <3>0, ShiftQueues
    <3>2. q = Queues[p]
      BY <1>8, <2>2 DEF q
    <3>. QED
      BY <2>2, <3>1, <3>2
  <2>3. CASE n \notin dependent
    BY <1>8, <2>1, <2>3 DEF q
  <2>. QED
    BY <2>2, <2>3
<1>10. Accepted' = Accepted
  BY <1>7 DEF Accepted
<1>11. Tail(<< n >>) = << >> /\ Head(<< n >>) = n /\ << n >> # << >>
  BY <1>2
<1>12. Q[k] = << n >> /\ Q[k] # << >> /\ Queues'[k] = Tail(Q[k]) /\ Head(Q[k]) = n
  BY <1>1, <1>6, <1>8, <1>9, <1>11, QueueOfNext
<1>13. Q[<<"running", 0>>] = running
  BY <1>8, <1>9, KeysAre, QueueOf
<1>14. /\ \A e \in Num : pending'[e] = Q[<<"pending", e>>]
       /\ \A e \in Nat \ {0} :
             /\ RetainedAt(e)' = Q[<<"retained", e>>]
             /\ <<"task", e>> \in {k} \/ TaskAt(e)' = Q[<<"task", e>>]
  <2>1. ASSUME NEW e \in Num PROVE pending'[e] = Q[<<"pending", e>>]
    <3>1. CASE e = n
      BY <1>7, <1>8, <1>9, <3>1
    <3>2. CASE e # n
      BY <1>7, <1>8, <1>9, <3>2, KeysAre, QueueOf
    <3>. QED
      BY <3>1, <3>2
  <2>2. ASSUME NEW e \in Nat \ {0}
        PROVE  /\ RetainedAt(e)' = Q[<<"retained", e>>]
               /\ <<"task", e>> \in {k} \/ TaskAt(e)' = Q[<<"task", e>>]
    <3>1. CASE e = d
      BY <1>6, <1>8, <1>9, <3>1
    <3>2. CASE e # d
      BY <1>6, <1>8, <1>9, <3>2, KeysAre, QueueOf
    <3>. QED
      BY <3>1, <3>2
  <2>. QED
    BY <2>1, <2>2
<1>15. Emptied'
  BY <1>1, <1>4, GotoEmptied
<1>16. CASE written' = written \cup {n} /\ finished' = finished
  <2>1. Q[<<"finished", 0>>] = finished'
    BY <1>8, <1>9, <1>16
  <2>2. \A m \in Keys : m \notin {k} => Queues'[m] = Q[m]
    BY <1>7, <1>13, <1>14, <2>1, Elsewhere
  <2>3. Owned' /\ (written' # written => Gone' = Gone)
    BY <1>9, <1>10, <1>12, <1>16, <2>2, DropTask
  <2>4. n \notin written
    <3>1. Inside(Queues, n)
      BY <1>8, QueueOf DEF Inside
    <3>. QED
      BY <1>2, <3>1 DEF Owned
  <2>. QED
    BY <1>15, <1>16, <2>3, <2>4 DEF GoneOnly
<1>17. CASE finished' = Append(finished, n) /\ written' = written
  <2>1. Queues'[l] = Append(Q[l], Head(Q[k]))
    BY <1>8, <1>9, <1>12, <1>17, QueueOfNext
  <2>2. <<"finished", 0>> \in {k, l}
    BY <1>8
  <2>3. \A m \in Keys : m \notin {k, l} => Queues'[m] = Q[m]
    <3>1. \A e \in Nat \ {0} : <<"task", e>> \in {k, l} \/ TaskAt(e)' = Q[<<"task", e>>]
      BY <1>14
    <3>. QED
      BY <1>7, <1>13, <1>14, <2>2, <3>1, Elsewhere
  <2>4. /\ k # l /\ UNCHANGED written /\ Rearranged(Q)
        /\ Q[k] # << >> /\ Queues'[k] = Tail(Q[k])
    BY <1>8, <1>9, <1>12, <1>17
  <2>5. Owned' /\ Gone' = Gone
    BY <1>10, <2>1, <2>3, <2>4, PassTask
  <2>. QED
    BY <1>15, <2>5 DEF GoneOnly
<1>. QED
  BY <1>16, <1>17 DEF AsyncSuccess

\* The results of all finished tasks are written at once.
LEMMA WriteFinished ==
    ASSUME TypeOK, Owned, Accepted' = Accepted,
           Queues' = Empty(Queues, <<"finished", 0>>),
           written' = written \cup { finished[i] : i \in DOMAIN finished }
    PROVE  Owned' /\ Gone' = Gone
<1>. DEFINE k == <<"finished", 0>>
            R == Empty(Queues, k)
<1>1. Queues \in [Keys -> Seq(Num)] /\ k \in Keys /\ Queues[k] = finished /\ Unique(Queues)
  BY QueuesType, KeysAre, QueueOf DEF Owned
<1>. HIDE DEF k
<1>2. /\ Unique(R) /\ \A i \in DOMAIN Queues[k] : ~Inside(R, Queues[k][i])
      /\ \A m : Inside(Queues, m) <=> Inside(R, m) \/ \E i \in DOMAIN Queues[k] : Queues[k][i] = m
  BY <1>1, AfterEmpty
<1>. HIDE DEF R
<1>3. Queues' = R
  BY DEF R, k
<1>4. /\ Unique(Queues)'
      /\ \A m \in written' \ written : ~Inside(Queues, m)' /\ Inside(Queues, m)
      /\ \A m : Inside(Queues, m)' => Inside(Queues, m)
      /\ \A m : Inside(Queues, m) => Inside(Queues, m)' \/ m \in written'
  BY <1>1, <1>2, <1>3, QueuesNext
<1>5. written' \subseteq Num
  BY <1>1 DEF TypeOK
<1>6. \A m \in written' \ written : m \in Accepted \ written
  BY <1>4, <1>5 DEF Owned
<1>7. Owned'
  BY <1>4, <1>5, <1>6 DEF Owned
<1>8. \A m : m \in Gone' <=> m \in Gone
  <2>1. ASSUME NEW m \in Accepted, m \notin written, ~Inside(Queues, m)
        PROVE  m \notin written' /\ ~Inside(Queues, m)'
    BY <1>4, <2>1
  <2>2. ASSUME NEW m \in Accepted, m \notin written', ~Inside(Queues, m)'
        PROVE  m \notin written /\ ~Inside(Queues, m)
    BY <1>4, <2>2
  <2>. QED
    BY <2>1, <2>2 DEF Gone
<1>. QED
  BY <1>7, <1>8

LEMMA ReturnsOwned ==
    ASSUME IInv, TypeOK', Emptied, Owned, FetchReturns
    PROVE  Emptied' /\ Owned' /\ GoneOnly
<1>1. /\ TypeOK /\ stack # << >> /\ Top \in Frames /\ Top.at = "return"
  BY TopFrame DEF IInv, FetchReturns, At
<1>2. TaskOf(Top) = << >> /\ Top.retained = << >> /\ UNCHANGED <<running, pending, task>>
  BY <1>1, EmptiedTop DEF TaskOf, Fetching, FetchReturns
<1>3. CASE Goto([Top EXCEPT !.at = "send"]) /\ UNCHANGED <<finished, written>>
  <2>. DEFINE f == [Top EXCEPT !.at = "send"]
  <2>1. f \in Frames /\ f.at = "send" /\ f.retained = << >> /\ Goto(f)
    BY <1>1, <1>2, <1>3 DEF Frames, Places
  <2>. HIDE DEF f
  <2>2. TaskOf(f) = << >>
    BY <2>1 DEF TaskOf, Fetching
  <2>. QED
    BY <1>1, <1>2, <1>3, <2>1, <2>2, GotoUnmoved
<1>4. CASE Return /\ UNCHANGED <<finished, written>>
  BY <1>1, <1>2, <1>4, ReturnUnmoved
<1>5. CASE /\ Return /\ finished' = << >>
           /\ written' = written \cup { finished[i] : i \in DOMAIN finished }
  <2>1. \A d \in Nat \ {0} : RetainedAt(d)' = RetainedAt(d) /\ TaskAt(d)' = TaskAt(d)
    BY <1>1, <1>2, <1>5, ReturnQueues, TopQueues
  <2>. DEFINE R == Empty(Queues, <<"finished", 0>>)
  <2>2. /\ R \in [Keys -> Seq(Num)] /\ R[<<"finished", 0>>] = << >>
        /\ \A k \in Keys : k # <<"finished", 0>> => R[k] = Queues[k]
    BY <1>1, QueuesType, KeysAre, EmptySeq DEF Empty
  <2>. HIDE DEF R
  <2>3. Queues' = R
    BY <1>2, <1>5, <2>1, <2>2, KeysAre, QueueOf, QueuesAfter
  <2>4. Accepted' = Accepted
    BY <1>2 DEF Accepted
  <2>5. Owned' /\ Gone' = Gone
    BY <1>1, <1>5, <2>3, <2>4, WriteFinished DEF R
  <2>6. Emptied'
    BY <1>1, <1>5, ReturnEmptied
  <2>. QED
    BY <2>5, <2>6 DEF GoneOnly
<1>. QED
  BY <1>3, <1>4, <1>5 DEF FetchReturns

\* The steps of a call that keeps what it holds: only its place changes.
GoesOnAs(f) ==
    /\ Goto(f)
    /\ f.retained = Top.retained
    /\ TaskOf(f) = TaskOf(Top)
    /\ f.retained # << >> => f.at \in {"callback", "release"}

LEMMA GoesOn ==
    ASSUME IInv, Emptied, UserReturns \/ ReceiveInterrupt \/ AsyncFailure \/ Drain
    PROVE  stack # << >> /\ \E f \in Frames : GoesOnAs(f)
<1>1. /\ TypeOK /\ stack # << >> /\ Top \in Frames
      /\ Top.retained # << >> => Top.at = "callback" \/ Top.at = "release"
  BY TopFrame, EmptiedTop
     DEF IInv, UserReturns, ReceiveInterrupt, AsyncFailure, Drain, At
<1>2. ASSUME NEW place \in Places, Goto([Top EXCEPT !.at = place]),
             \/ Top.at \notin Fetching /\ place \notin Fetching
             \/ Top.at \in Fetching /\ place \in Fetching,
             Top.retained = << >> \/ place \in {"callback", "release"}
      PROVE  \E f \in Frames : GoesOnAs(f)
  <2>. DEFINE f == [Top EXCEPT !.at = place]
  <2>1. /\ f \in Frames /\ f.at = place /\ f.retained = Top.retained /\ f.task = Top.task
        /\ Goto(f)
    BY <1>1, <1>2 DEF Frames
  <2>. HIDE DEF f
  <2>2. TaskOf(f) = TaskOf(Top)
    BY <1>2, <2>1 DEF TaskOf
  <2>3. f.retained # << >> => f.at \in {"callback", "release"}
    BY <1>2, <2>1
  <2>. QED
    BY <2>1, <2>2, <2>3 DEF GoesOnAs
<1>3. CASE UserReturns
  <2>1. CASE Top.at = "callback" /\ Goto([Top EXCEPT !.at = "release"])
    BY <1>1, <1>2, <2>1 DEF Places, Fetching
  <2>2. CASE Top.at = "isr" /\ Goto([Top EXCEPT !.at = "return"])
    BY <1>1, <1>2, <2>2 DEF Places, Fetching
  <2>. QED
    BY <1>3, <2>1, <2>2 DEF UserReturns, At
<1>4. CASE ReceiveInterrupt
  <2>1. Top.at = "recv" /\ Top.retained = << >>
    BY <1>1, <1>4 DEF ReceiveInterrupt, At
  <2>2. CASE Goto([Top EXCEPT !.depth = 1])
    <3>. DEFINE f == [Top EXCEPT !.depth = 1]
    <3>1. /\ f \in Frames /\ f.at = "recv" /\ f.retained = Top.retained /\ f.task = Top.task
          /\ Goto(f)
      BY <1>1, <2>1, <2>2, 1 \in 0 .. 1 DEF Frames
    <3>. HIDE DEF f
    <3>2. TaskOf(f) = TaskOf(Top)
      BY <2>1, <3>1 DEF TaskOf
    <3>3. GoesOnAs(f)
      BY <2>1, <3>1, <3>2 DEF GoesOnAs
    <3>. QED
      BY <1>1, <3>1, <3>3
  <2>3. CASE Abort(Top.task)
    <3>. DEFINE f == [Top EXCEPT !.at = "aborted", !.task = Top.task]
    <3>1. /\ f \in Frames /\ f.at = "aborted" /\ f.retained = Top.retained /\ f.task = Top.task
          /\ Goto(f)
      BY <1>1, <2>1, <2>3 DEF Frames, Places, Abort
    <3>. HIDE DEF f
    <3>2. TaskOf(f) = TaskOf(Top)
      BY <2>1, <3>1 DEF TaskOf, Fetching
    <3>3. GoesOnAs(f)
      BY <2>1, <3>1, <3>2 DEF GoesOnAs
    <3>. QED
      BY <1>1, <3>1, <3>3
  <2>. QED
    BY <1>1, <1>4, <2>2, <2>3 DEF ReceiveInterrupt
<1>5. CASE AsyncFailure
  <2>1. Top.at = "recv" /\ Top.retained = << >> /\ Goto([Top EXCEPT !.at = "retry"])
    BY <1>1, <1>5 DEF AsyncFailure, At
  <2>. QED
    BY <1>1, <1>2, <2>1 DEF Places, Fetching
<1>6. CASE Drain
  <2>1. Top.at = "loop" /\ Top.retained = << >>
    BY <1>1, <1>6 DEF Drain, At
  <2>2. CASE Goto([Top EXCEPT !.at = "isr"]) \/ Goto([Top EXCEPT !.at = "return"])
    BY <1>1, <1>2, <2>1, <2>2 DEF Places, Fetching
  <2>3. CASE Abort(Sync)
    <3>. DEFINE f == [Top EXCEPT !.at = "aborted", !.task = Sync]
    <3>1. /\ f \in Frames /\ f.at = "aborted" /\ f.retained = Top.retained /\ f.task = Sync
          /\ Goto(f)
      BY <1>1, <2>1, <2>3 DEF Frames, Places, Abort, Sync
    <3>. HIDE DEF f
    <3>2. TaskOf(f) = TaskOf(Top)
      BY <2>1, <3>1 DEF TaskOf, Fetching
    <3>3. GoesOnAs(f)
      BY <2>1, <3>1, <3>2 DEF GoesOnAs
    <3>. QED
      BY <1>1, <3>1, <3>3
  <2>4. \/ Goto([Top EXCEPT !.at = "isr"]) \/ Goto([Top EXCEPT !.at = "return"])
        \/ Abort(Sync)
    BY <1>6 DEF Drain
  <2>. QED
    BY <1>1, <2>2, <2>3, <2>4
<1>. QED
  BY <1>3, <1>4, <1>5, <1>6, <1>1

\* doSyncTask() holds no asynchronous task.
LEMMA SyncGoesOn ==
    ASSUME IInv, Emptied, SyncSend \/ SyncSuccess \/ SyncRetry \/ SyncAbort
    PROVE  /\ stack # << >> /\ Top.retained = << >> /\ TaskOf(Top) = << >>
           /\ Return \/ \E f \in Frames : GoesOnAs(f)
<1>0. \/ At("send")
      \/ At("recv") /\ Top.task = Sync
  BY DEF SyncSend, SyncSuccess, SyncRetry, SyncAbort, Receive, Timeout
<1>1. /\ TypeOK /\ stack # << >> /\ Top \in Frames
      /\ \/ Top.at = "send"
         \/ Top.at = "recv" /\ Top.task = Sync
  BY <1>0, TopFrame DEF IInv, At
<1>2. Top.retained = << >> /\ TaskOf(Top) = << >>
  BY <1>1, EmptiedTop DEF TaskOf, Fetching
<1>3. ASSUME NEW f \in Frames, Goto(f), f.retained = << >>, f.at = "send" \/ f.task = Sync
      PROVE  GoesOnAs(f)
  <2>1. TaskOf(f) = << >>
    BY <1>3 DEF TaskOf, Fetching
  <2>. QED
    BY <1>2, <1>3, <2>1 DEF GoesOnAs
<1>. DEFINE g == [Top EXCEPT !.attempt = @ + 1]
            h == [g EXCEPT !.at = "recv", !.task = Sync, !.depth = 0]
<1>4. /\ g \in Frames /\ g.retained = << >>
      /\ [Top EXCEPT !.at = "send"] \in Frames /\ [Top EXCEPT !.at = "send"].at = "send"
      /\ [Top EXCEPT !.at = "send"].retained = << >>
  BY <1>1, <1>2 DEF Frames, Places
<1>5. /\ [g EXCEPT !.at = "send"] \in Frames /\ [g EXCEPT !.at = "send"].at = "send"
      /\ [g EXCEPT !.at = "send"].retained = << >>
  BY <1>4 DEF Frames, Places
<1>6. h \in Frames /\ h.task = Sync /\ h.retained = << >>
  BY <1>4, 0 \in 0 .. 1 DEF Frames, Places, Sync
<1>7. /\ [Top EXCEPT !.at = "aborted", !.task = Sync] \in Frames
      /\ [Top EXCEPT !.at = "aborted", !.task = Sync].task = Sync
      /\ [Top EXCEPT !.at = "aborted", !.task = Sync].retained = << >>
  BY <1>1, <1>2 DEF Frames, Places, Sync
<1>8. \/ Return
      \/ Goto([Top EXCEPT !.at = "send"]) \/ Goto([g EXCEPT !.at = "send"])
      \/ Goto(h)
      \/ Goto([Top EXCEPT !.at = "aborted", !.task = Sync])
  BY DEF SyncSend, SyncSuccess, SyncRetry, SyncAbort, NextAttempt, Abort
<1>. HIDE DEF g, h
<1>. QED
  BY <1>1, <1>2, <1>3, <1>4, <1>5, <1>6, <1>7, <1>8

LEMMA GoesOnOwned ==
    ASSUME IInv, Emptied, Owned,
           \/ UserReturns \/ ReceiveInterrupt \/ AsyncFailure \/ Drain
           \/ SyncSend \/ SyncSuccess \/ SyncRetry \/ SyncAbort
    PROVE  Emptied' /\ Owned' /\ GoneOnly
<1>1. TypeOK /\ UNCHANGED <<running, finished, pending, task, written>>
  BY DEF IInv, UserReturns, ReceiveInterrupt, AsyncFailure, Drain,
         SyncSend, SyncSuccess, SyncRetry, SyncAbort
<1>2. ASSUME stack # << >>, NEW f \in Frames, GoesOnAs(f)
      PROVE  Emptied' /\ Owned' /\ GoneOnly
  BY <1>1, <1>2, GotoUnmoved DEF GoesOnAs
<1>3. CASE UserReturns \/ ReceiveInterrupt \/ AsyncFailure \/ Drain
  BY <1>2, <1>3, GoesOn
<1>4. CASE SyncSend \/ SyncSuccess \/ SyncRetry \/ SyncAbort
  BY <1>1, <1>2, <1>4, SyncGoesOn, ReturnUnmoved
<1>. QED
  BY <1>3, <1>4

LEMMA OwnedNext ==
    ASSUME IInv, TypeOK', Emptied, Owned, [Next]_vars
    PROVE  Emptied' /\ Owned' /\ GoneOnly
<1>. USE DEF hostVars, boardVars
<1>1. TypeOK
  BY DEF IInv
<1>2. CASE \E kind \in Kinds : \E dep \in Accepted \cup {0} : StartAsyncTask(kind, dep)
  BY <1>2, StartOwned
<1>3. CASE (\E kind \in Kinds : DoSyncTask(kind)) \/ HandleReplies
  BY <1>1, <1>3, CallUnmoved DEF DoSyncTask, HandleReplies
<1>4. CASE \/ UserReturns \/ ReceiveInterrupt \/ AsyncFailure \/ Drain
           \/ SyncSend \/ SyncSuccess \/ SyncRetry \/ SyncAbort
  BY <1>4, GoesOnOwned
<1>5. CASE TakeRunning
  BY <1>5, TakeOwned
<1>6. CASE AsyncSuccess
  BY <1>6, SuccessOwned
<1>7. CASE Retry
  BY <1>7, RetryOwned
<1>8. CASE Release
  BY <1>8, ReleaseOwned
<1>9. CASE FetchReturns
  BY <1>9, ReturnsOwned
<1>10. CASE Board
  BY <1>1, <1>10, StillUnmoved DEF Board, Answer, RaiseInterrupt
<1>11. CASE UNCHANGED vars
  BY <1>1, <1>11, StillUnmoved DEF vars
<1>. QED
  BY <1>2, <1>3, <1>4, <1>5, <1>6, <1>7, <1>8, <1>9, <1>10, <1>11
     DEF Next, User, Host

LEMMA OwnedInit == Init => Emptied /\ Owned
<1>. SUFFICES ASSUME Init PROVE Emptied /\ Owned
  OBVIOUS
<1>1. /\ running = << >> /\ finished = << >> /\ stack = << >> /\ written = {}
      /\ \A n \in Num : pending[n] = << >>
  BY DEF Init
<1>2. \A d \in Nat \ {0} : RetainedAt(d) = << >> /\ TaskAt(d) = << >>
  BY <1>1 DEF RetainedAt, TaskAt
<1>3. ASSUME NEW k \in Keys PROVE Queues[k] = << >>
  <2>1. CASE k = <<"running", 0>> \/ k = <<"finished", 0>>
    BY <1>1, <2>1, QueueOf
  <2>2. CASE \E n \in Num : k = <<"pending", n>>
    BY <1>1, <2>2, QueueOf
  <2>3. CASE \E d \in Nat \ {0} : k = <<"retained", d>> \/ k = <<"task", d>>
    BY <1>2, <2>3, QueueOf
  <2>. QED
    BY <2>1, <2>2, <2>3, KeysAre
<1>4. Unique(Queues) /\ \A n : ~Inside(Queues, n)
  BY <1>3, QueueOf DEF Unique, Inside
<1>. QED
  BY <1>1, <1>4 DEF Emptied, Owned

\* The inductive invariant: every task in its place, and in one place only.
THEOREM Possession == Spec => []OInv
<1>1. Init => OInv
  BY OwnedInit, TypeInit, PlaceInit DEF OInv, IInv
<1>2. OInv /\ [Next]_vars => OInv'
  BY OwnedNext, TypeNext, PlaceNext DEF OInv, IInv
<1>. QED
  BY <1>1, <1>2, PTL DEF Spec

-----------------------------------------------------------------------------
(* The places of a task are its positions in the queues.                   *)

LEMMA OwnersAre ==
    ASSUME NEW n, NEW o
    PROVE  o \in Owners(n) <=>
              \/ \E i \in DOMAIN running : running[i] = n /\ o = <<"running", 0, i>>
              \/ \E i \in DOMAIN finished : finished[i] = n /\ o = <<"finished", 0, i>>
              \/ \E d \in Num : \E i \in DOMAIN pending[d] :
                     pending[d][i] = n /\ o = <<"pending", d, i>>
              \/ \E j \in DOMAIN stack : \E i \in DOMAIN stack[j].retained :
                     stack[j].retained[i] = n /\ o = <<"retained", j, i>>
              \/ \E j \in DOMAIN stack :
                     /\ stack[j].at \in Fetching /\ stack[j].task = n
                     /\ o = <<"task", j, 0>>
<1>. DEFINE A == {"running"} \X {0} \X Occurs(running, n)
            B == {"finished"} \X {0} \X Occurs(finished, n)
            C == UNION { {"pending"} \X {d} \X Occurs(pending[d], n) : d \in Num }
            D == UNION { {"retained"} \X {j} \X Occurs(stack[j].retained, n) :
                            j \in DOMAIN stack }
            E == {"task"} \X { j \in DOMAIN stack :
                                  stack[j].at \in Fetching /\ stack[j].task = n } \X {0}
<1>1. o \in A <=> \E i \in DOMAIN running : running[i] = n /\ o = <<"running", 0, i>>
  BY DEF Occurs
<1>2. o \in B <=> \E i \in DOMAIN finished : finished[i] = n /\ o = <<"finished", 0, i>>
  BY DEF Occurs
<1>3. o \in C <=> \E d \in Num : \E i \in DOMAIN pending[d] :
                      pending[d][i] = n /\ o = <<"pending", d, i>>
  BY DEF Occurs
<1>4. o \in D <=> \E j \in DOMAIN stack : \E i \in DOMAIN stack[j].retained :
                      stack[j].retained[i] = n /\ o = <<"retained", j, i>>
  BY DEF Occurs
<1>5. o \in E <=> \E j \in DOMAIN stack : /\ stack[j].at \in Fetching /\ stack[j].task = n
                                          /\ o = <<"task", j, 0>>
  OBVIOUS
<1>6. Owners(n) = A \cup B \cup C \cup D \cup E
  BY DEF Owners
<1>. HIDE DEF A, B, C, D, E
<1>7. o \in Owners(n) <=> o \in A \/ o \in B \/ o \in C \/ o \in D \/ o \in E
  BY <1>6
<1>. QED
  BY <1>1, <1>2, <1>3, <1>4, <1>5, <1>7

\* The owner that position i of queue k stands for.
OwnerAt(k, i) ==
    <<k[1], IF k[1] \in {"retained", "task"} THEN Len(stack) + 1 - k[2] ELSE k[2],
      IF k[1] = "task" THEN 0 ELSE i>>

LEMMA OwnersInside ==
    ASSUME TypeOK, NEW n \in Num
    PROVE  /\ \A o \in Owners(n) : \E k \in Keys : \E i \in DOMAIN Queues[k] :
                  Queues[k][i] = n /\ o = OwnerAt(k, i)
           /\ \A k \in Keys : \A i \in DOMAIN Queues[k] :
                  Queues[k][i] = n => OwnerAt(k, i) \in Owners(n)
<1>0. DOMAIN stack = 1 .. Len(stack) /\ Len(stack) \in Nat /\ n # Sync
  BY LenProperties DEF TypeOK, Num, Sync
<1>1. ASSUME NEW j \in DOMAIN stack
      PROVE  /\ Len(stack) + 1 - j \in DOMAIN stack /\ Len(stack) + 1 - j \in Nat \ {0}
             /\ Len(stack) + 1 - (Len(stack) + 1 - j) = j
             /\ RetainedAt(Len(stack) + 1 - j) = stack[j].retained
             /\ TaskAt(Len(stack) + 1 - j) = TaskOf(stack[j])
  BY <1>0 DEF RetainedAt, TaskAt
<1>2. ASSUME NEW o \in Owners(n)
      PROVE  \E k \in Keys : \E i \in DOMAIN Queues[k] : Queues[k][i] = n /\ o = OwnerAt(k, i)
  <2>1. ASSUME NEW i \in DOMAIN running, running[i] = n, o = <<"running", 0, i>>
        PROVE  \E k \in Keys : \E h \in DOMAIN Queues[k] : Queues[k][h] = n /\ o = OwnerAt(k, h)
    BY <2>1, KeysAre, QueueOf DEF OwnerAt
  <2>2. ASSUME NEW i \in DOMAIN finished, finished[i] = n, o = <<"finished", 0, i>>
        PROVE  \E k \in Keys : \E h \in DOMAIN Queues[k] : Queues[k][h] = n /\ o = OwnerAt(k, h)
    BY <2>2, KeysAre, QueueOf DEF OwnerAt
  <2>3. ASSUME NEW d \in Num, NEW i \in DOMAIN pending[d], pending[d][i] = n,
               o = <<"pending", d, i>>
        PROVE  \E k \in Keys : \E h \in DOMAIN Queues[k] : Queues[k][h] = n /\ o = OwnerAt(k, h)
    BY <2>3, KeysAre, QueueOf DEF OwnerAt
  <2>4. ASSUME NEW j \in DOMAIN stack, NEW i \in DOMAIN stack[j].retained,
               stack[j].retained[i] = n, o = <<"retained", j, i>>
        PROVE  \E k \in Keys : \E h \in DOMAIN Queues[k] : Queues[k][h] = n /\ o = OwnerAt(k, h)
    <3>. DEFINE k == <<"retained", Len(stack) + 1 - j>>
    <3>1. k \in Keys /\ Queues[k] = stack[j].retained
      BY <1>1, KeysAre, QueueOf
    <3>2. OwnerAt(k, i) = o
      BY <1>1, <2>4 DEF OwnerAt
    <3>. QED
      BY <2>4, <3>1, <3>2
  <2>5. ASSUME NEW j \in DOMAIN stack, stack[j].at \in Fetching, stack[j].task = n,
               o = <<"task", j, 0>>
        PROVE  \E k \in Keys : \E h \in DOMAIN Queues[k] : Queues[k][h] = n /\ o = OwnerAt(k, h)
    <3>. DEFINE k == <<"task", Len(stack) + 1 - j>>
    <3>1. k \in Keys /\ Queues[k] = TaskOf(stack[j])
      BY <1>1, KeysAre, QueueOf
    <3>2. TaskOf(stack[j]) = << n >>
      BY <1>0, <2>5 DEF TaskOf
    <3>3. OwnerAt(k, 1) = o
      BY <1>1, <2>5 DEF OwnerAt
    <3>. QED
      BY <3>1, <3>2, <3>3
  <2>. QED
    BY <2>1, <2>2, <2>3, <2>4, <2>5, OwnersAre
<1>3. ASSUME NEW k \in Keys, NEW i \in DOMAIN Queues[k], Queues[k][i] = n
      PROVE  OwnerAt(k, i) \in Owners(n)
  <2>1. CASE k = <<"running", 0>> \/ k = <<"finished", 0>>
    BY <1>3, <2>1, QueueOf, OwnersAre DEF OwnerAt
  <2>2. CASE \E d \in Num : k = <<"pending", d>>
    BY <1>3, <2>2, QueueOf, OwnersAre DEF OwnerAt
  <2>3. ASSUME NEW d \in Nat \ {0}, k = <<"retained", d>>
        PROVE  OwnerAt(k, i) \in Owners(n)
    <3>0. Queues[k] # << >>
      BY <1>3
    <3>1. d \in DOMAIN stack
      BY <1>0, <2>3, <3>0, QueueOf DEF RetainedAt
    <3>2. PICK j \in DOMAIN stack : j = Len(stack) + 1 - d /\ Queues[k] = stack[j].retained
      BY <1>0, <1>1, <2>3, <3>1, QueueOf DEF RetainedAt
    <3>3. OwnerAt(k, i) = <<"retained", j, i>>
      BY <2>3, <3>2 DEF OwnerAt
    <3>. QED
      BY <1>3, <3>2, <3>3, OwnersAre
  <2>4. ASSUME NEW d \in Nat \ {0}, k = <<"task", d>>
        PROVE  OwnerAt(k, i) \in Owners(n)
    <3>0. Queues[k] # << >>
      BY <1>3
    <3>1. d \in DOMAIN stack
      BY <1>0, <2>4, <3>0, QueueOf DEF TaskAt
    <3>2. PICK j \in DOMAIN stack : j = Len(stack) + 1 - d /\ Queues[k] = TaskOf(stack[j])
      BY <1>0, <1>1, <2>4, <3>1, QueueOf DEF TaskAt
    <3>3. stack[j].at \in Fetching /\ stack[j].task = n
      BY <1>3, <3>2 DEF TaskOf
    <3>4. OwnerAt(k, i) = <<"task", j, 0>>
      BY <2>4, <3>2 DEF OwnerAt
    <3>. QED
      BY <3>2, <3>3, <3>4, OwnersAre
  <2>. QED
    BY <2>1, <2>2, <2>3, <2>4, KeysAre
<1>. QED
  BY <1>2, <1>3

LEMMA NoOwner ==
    ASSUME TypeOK, NEW n \in Num
    PROVE  Owners(n) = {} <=> ~Inside(Queues, n)
BY OwnersInside, QueueOf DEF Inside

LEMMA AtMostOne ==
    ASSUME NEW S, \A x, y \in S : x = y
    PROVE  Cardinality(S) <= 1
<1>1. CASE S = {}
  BY <1>1, FS_EmptySet
<1>2. CASE S # {}
  <2>1. PICK x : S = {x}
    BY <1>2
  <2>. QED
    BY <2>1, FS_Singleton
<1>. QED
  BY <1>1, <1>2

LEMMA OwnedOnce == TypeOK /\ Owned => OneOwner
<1>. SUFFICES ASSUME TypeOK, Owned, NEW n \in Num
              PROVE  /\ Cardinality(Owners(n)) <= 1
                     /\ n \in written \/ n \notin Accepted => Owners(n) = {}
  BY DEF OneOwner
<1>1. \A o, p \in Owners(n) : o = p
  <2>. SUFFICES ASSUME NEW o \in Owners(n), NEW p \in Owners(n) PROVE o = p
    OBVIOUS
  <2>1. PICK k \in Keys : \E i \in DOMAIN Queues[k] : Queues[k][i] = n /\ o = OwnerAt(k, i)
    BY OwnersInside
  <2>2. PICK i \in DOMAIN Queues[k] : Queues[k][i] = n /\ o = OwnerAt(k, i)
    BY <2>1
  <2>3. PICK l \in Keys : \E j \in DOMAIN Queues[l] : Queues[l][j] = n /\ p = OwnerAt(l, j)
    BY OwnersInside
  <2>4. PICK j \in DOMAIN Queues[l] : Queues[l][j] = n /\ p = OwnerAt(l, j)
    BY <2>3
  <2>5. k = l /\ i = j
    BY <2>2, <2>4, QueueOf DEF Owned, Unique
  <2>. QED
    BY <2>2, <2>4, <2>5
<1>2. n \in written \/ n \notin Accepted => Owners(n) = {}
  BY NoOwner DEF Owned
<1>. QED
  BY <1>1, <1>2, AtMostOne

LEMMA LostGone == TypeOK => Lost = Gone
BY NoOwner DEF Lost, Gone, Accepted

\* Tasks are moved, never copied: whatever the line does, whatever callbacks and
\* service routines call, no task is in two places, and none is anywhere once
\* its results are written, so they are written once.
THEOREM OwnerCorrect == Spec => []OneOwner
<1>1. OInv => OneOwner
  BY OwnedOnce DEF OInv, IInv
<1>. QED
  BY <1>1, Possession, PTL

\* The fetch that lets go of a task will return false, unless it is the line
\* that refuses a retained task (Release drops it and "success" stays).
THEOREM LossCorrect ==
    ASSUME "send" \notin Faults
    PROVE  Spec => LossReported
<1>1. (TypeOK => Lost = Gone)'
  BY LostGone, PTL
<1>2. OInv /\ OInv' /\ [Next]_vars
          => [Lost' # Lost => stack' # << >> /\ ~Head(stack').ok]_vars
  BY <1>1, OwnedNext, LostGone DEF OInv, IInv, GoneOnly
<1>. QED
  BY <1>2, Possession, PTL DEF Spec, LossReported
=============================================================================
