--------------------------- MODULE ServiceProofs ---------------------------
(***************************************************************************)
(* TaskExecutor implements AsyncService, the promise of the asynchronous   *)
(* mode, for every number of operations, every set of faults and every     *)
(* nesting of callbacks and interrupt service routines.                    *)
(***************************************************************************)
EXTENDS TaskExecutorRefinement, TaskExecutorProofs

-----------------------------------------------------------------------------
(* The inductive invariant.                                                *)

\* Only the innermost call runs: every other one waits for user code.
Suspended == \A i \in 2 .. Len(stack) : stack[i].at \in {"callback", "isr"}

\* Tasks in a queue of "pending" or in the local queue of a fetch were never
\* sent, and wait for a task.
Holding   == { f \in Frames : f.retained \in Seq(Unsent) }
Untouched ==
    /\ \A d \in Num : pending[d] \in Seq(Unsent)
    /\ stack \in Seq(Holding)
    /\ \A n \in Unsent : task[n].dep \in Num

\* The answered tasks are those whose results are written or will be by the
\* next successful handleRequestReplies(), and no task waits for them.
Recorded   == \A n \in Num :
                  Answered(n) <=> n \in written \/ \E i \in DOMAIN finished : finished[i] = n
Discharged == \A n \in dependent : ~Answered(n)

Kept == Suspended /\ Untouched /\ Recorded /\ Discharged
SInv == OInv /\ Kept

\* A step of the promise, or none.
Promised == [Service!Next]_(Service!vars)

LEMMA PoppedTop ==
    /\ stack # << >> => Popped = TaskOf(Top)
    /\ stack = << >> => Popped = << >>
BY DEF Popped, TaskOf

-----------------------------------------------------------------------------
(* What replacing, pushing and popping a call does.                        *)

LEMMA GotoKept ==
    ASSUME TypeOK, Kept, stack # << >>, NEW f \in Frames, Goto(f),
           f.retained \in Seq(Unsent)
    PROVE  Suspended' /\ stack' \in Seq(Holding) /\ Popped' = TaskOf(f)
<1>1. f \in Holding /\ stack \in Seq(Holding)
  BY DEF Holding, Kept, Untouched
<1>2. /\ stack' \in Seq(Holding) /\ Len(stack') = Len(stack) /\ stack' # << >>
      /\ Head(stack') = f
      /\ \A i \in 2 .. Len(stack) : stack'[i] = stack[i]
  BY <1>1, GotoFrame DEF Goto
<1>3. Suspended'
  BY <1>2 DEF Kept, Suspended
<1>4. Popped' = TaskOf(f)
  BY <1>2 DEF Popped, TaskOf, Top
<1>. QED
  BY <1>2, <1>3, <1>4

LEMMA CallKept ==
    ASSUME TypeOK, Kept, UserCode, NEW f \in Frames, Call(f),
           f.retained \in Seq(Unsent), f.at = "loop"
    PROVE  Suspended' /\ stack' \in Seq(Holding) /\ Popped' = << >> /\ Popped = << >>
<1>1. f \in Holding /\ stack \in Seq(Holding)
  BY DEF Holding, Kept, Untouched
<1>2. /\ stack' \in Seq(Holding) /\ Len(stack') = Len(stack) + 1 /\ stack' # << >>
      /\ stack'[1] = f /\ Len(stack) \in Nat
      /\ \A i \in 2 .. Len(stack) + 1 : stack'[i] = stack[i - 1]
  BY <1>1, CallFrame, LenProperties DEF Call
<1>3. Suspended'
  <2>1. ASSUME NEW i \in 2 .. Len(stack) + 1
        PROVE  stack'[i].at \in {"callback", "isr"}
    <3>1. CASE i = 2
      BY <1>2, <3>1, TopFrame, EmptySeq DEF UserCode
    <3>2. CASE i # 2
      BY <1>2, <3>2 DEF Kept, Suspended
    <3>. QED
      BY <3>1, <3>2
  <2>. QED
    BY <1>2, <2>1 DEF Suspended
<1>4. Head(stack') = f
  BY <1>2, HeadTailProperties
<1>5. Popped' = << >>
  BY <1>2, <1>4 DEF Popped, Top, Fetching
<1>6. Popped = << >>
  BY DEF Popped, UserCode, Fetching
<1>. QED
  BY <1>2, <1>3, <1>5, <1>6

LEMMA ReturnKept ==
    ASSUME TypeOK, Kept, stack # << >>, Return
    PROVE  Suspended' /\ stack' \in Seq(Holding) /\ Popped' = << >>
<1>1. /\ stack' \in Seq(Holding) /\ Len(stack') = Len(stack) - 1
      /\ Len(stack) \in Nat \ {0}
      /\ \A i \in 1 .. Len(stack) - 1 : stack'[i] = stack[i + 1]
  BY HeadTailProperties, TopFrame DEF Return, Kept, Untouched
<1>2. \A i \in 1 .. Len(stack') : stack'[i].at \in {"callback", "isr"}
  BY <1>1 DEF Kept, Suspended
<1>3. Suspended'
  BY <1>1, <1>2 DEF Suspended
<1>4. stack' # << >> => Head(stack') = stack'[1] /\ 1 \in 1 .. Len(stack')
  BY <1>1, HeadTailProperties, EmptySeq
<1>5. Popped' = << >>
  BY <1>2, <1>4 DEF Popped, Top, Fetching
<1>. QED
  BY <1>1, <1>3, <1>5

-----------------------------------------------------------------------------
(* Steps the user of the asynchronous mode does not see.                   *)

LEMMA Unseen ==
    ASSUME Kept, UNCHANGED <<task, pending, dependent, answers, written, finished>>,
           Suspended', stack' \in Seq(Holding),
           Popped' \o running' = Popped \o running
    PROVE  Kept' /\ Promised
<1>1. Unsent' = Unsent /\ Accepted' = Accepted /\ Waiting' = Waiting
  BY DEF Unsent, Accepted, Waiting
<1>2. Holding' = Holding
  BY <1>1 DEF Holding
<1>3. Untouched'
  BY <1>1, <1>2 DEF Kept, Untouched
<1>4. \A n : Answered(n)' = Answered(n)
  BY DEF Answered
<1>5. Recorded' /\ Discharged'
  BY <1>4 DEF Kept, Recorded, Discharged
<1>6. UNCHANGED Service!vars
  BY <1>1, <1>4 DEF Service!vars
<1>. QED
  BY <1>3, <1>5, <1>6 DEF Kept, Promised

LEMMA GotoUnseen ==
    ASSUME TypeOK, Kept, stack # << >>, NEW f \in Frames, Goto(f),
           f.retained = Top.retained, TaskOf(f) = TaskOf(Top),
           UNCHANGED <<task, pending, dependent, answers, written, finished, running>>
    PROVE  Kept' /\ Promised
<1>1. Top.retained \in Seq(Unsent)
  BY HeadTailProperties DEF Kept, Untouched, Holding, Top
<1>2. Suspended' /\ stack' \in Seq(Holding) /\ Popped' = TaskOf(f)
  BY <1>1, GotoKept
<1>3. Popped' \o running' = Popped \o running
  BY <1>2, PoppedTop
<1>. QED
  BY <1>2, <1>3, Unseen

LEMMA CallUnseen ==
    ASSUME TypeOK, TypeOK', Kept, UserCode, NEW caller, NEW kind, Call(Fetch(caller, kind)),
           UNCHANGED <<task, pending, dependent, answers, written, finished, running>>
    PROVE  Kept' /\ Promised
<1>. DEFINE f == Fetch(caller, kind)
<1>1. f.at = "loop" /\ f.retained = << >>
  BY DEF Fetch
<1>. HIDE DEF f
<1>2. stack \in Seq(Frames \cup {f}) /\ f \in Frames \cup {f} /\ stack' = << f >> \o stack
  BY SeqMonotonic DEF TypeOK, Call, f
<1>3. stack' # << >> /\ stack'[1] = f /\ stack' \in Seq(Frames)
  BY <1>2, CallFrame DEF TypeOK
<1>4. f \in Frames /\ f.retained \in Seq(Unsent)
  BY <1>1, <1>3, HeadTailProperties, EmptySeq
<1>5. Call(f)
  BY DEF f
<1>6. Suspended' /\ stack' \in Seq(Holding) /\ Popped' = << >> /\ Popped = << >>
  BY <1>1, <1>4, <1>5, CallKept
<1>7. Popped' \o running' = Popped \o running
  BY <1>6
<1>. QED
  BY <1>6, <1>7, Unseen

LEMMA ReturnUnseen ==
    ASSUME TypeOK, Kept, stack # << >>, Return, TaskOf(Top) = << >>,
           UNCHANGED <<task, pending, dependent, answers, written, finished, running>>
    PROVE  Kept' /\ Promised
<1>1. Suspended' /\ stack' \in Seq(Holding) /\ Popped' = << >> /\ Popped = << >>
  BY ReturnKept, PoppedTop
<1>2. Popped' \o running' = Popped \o running
  BY <1>1
<1>. QED
  BY <1>1, <1>2, Unseen

LEMMA StillUnseen ==
    ASSUME Kept,
           UNCHANGED <<task, pending, dependent, answers, written, finished, running, stack>>
    PROVE  Kept' /\ Promised
<1>1. Suspended' /\ stack' \in Seq(Holding)
  BY DEF Kept, Suspended, Untouched
<1>2. Popped' \o running' = Popped \o running
  BY DEF Popped, Top
<1>. QED
  BY <1>1, <1>2, Unseen

\* A running task is popped: it stays the oldest outstanding one.
LEMMA TakePromised ==
    ASSUME IInv, TypeOK', Kept, TakeRunning
    PROVE  Kept' /\ Promised
<1>. DEFINE f == [Top EXCEPT !.at = "recv", !.task = Head(running), !.depth = 0]
<1>1. /\ TypeOK /\ stack # << >> /\ Top \in Frames /\ Top.at = "loop"
      /\ running \in Seq(Num) /\ running # << >>
  BY TopFrame DEF IInv, TypeOK, TakeRunning, At
<1>2. f \in Frames /\ Goto(f)
  BY <1>1, NewTop DEF IInv, TakeRunning
<1>3. Head(running) \in Num
  BY <1>1
<1>4. f.at = "recv" /\ f.task = Head(running) /\ f.retained = Top.retained
  BY <1>1 DEF Frames
<1>5. TaskOf(f) = << Head(running) >> /\ TaskOf(Top) = << >>
  BY <1>1, <1>3, <1>4 DEF TaskOf, Fetching, Num, Sync
<1>. HIDE DEF f
<1>6. f.retained \in Seq(Unsent)
  BY <1>1, <1>4, HeadTailProperties DEF Kept, Untouched, Holding, Top
<1>7. Suspended' /\ stack' \in Seq(Holding) /\ Popped' = << Head(running) >>
  BY <1>1, <1>2, <1>5, <1>6, GotoKept
<1>8. Popped = << >>
  BY <1>1, <1>5, PoppedTop
<1>9. running' = Tail(running)
      /\ UNCHANGED <<task, pending, dependent, answers, written, finished>>
  BY DEF TakeRunning
<1>10. << Head(running) >> \o Tail(running) = running /\ << >> \o running = running
  BY <1>1
<1>11. Popped' \o running' = Popped \o running
  BY <1>7, <1>8, <1>9, <1>10
<1>. QED
  BY <1>7, <1>9, <1>11, Unseen

-----------------------------------------------------------------------------
(* Steps of the promise.                                                   *)

\* A new task is outstanding at once, or waits for one that is not answered.
LEMMA StartPromised ==
    ASSUME IInv, TypeOK', Owned, Emptied, Kept, NEW kind \in Kinds,
           NEW dep \in Accepted \cup {0}, StartAsyncTask(kind, dep)
    PROVE  Kept' /\ Promised
<1>. DEFINE n == counter + 1
<1>1. n \in Num /\ task[n] = NoTask /\ n \notin Accepted
  BY ConstantsAssumption
     DEF ConstantsAssumption, IInv, TypeOK, Fresh, StartAsyncTask, Num, Accepted
<1>2. TypeOK /\ task \in [Num -> Tasks \cup {NoTask}] /\ dep \in Num \cup {0} /\ kind \in AllKinds
  BY ConstantsAssumption DEF ConstantsAssumption, IInv, TypeOK, Accepted
<1>3. UNCHANGED <<stack, answers, written, finished>>
  BY DEF StartAsyncTask
<1>4. /\ Popped' = Popped /\ Popped = << >> /\ Suspended'
      /\ \A m : Answered(m)' = Answered(m)
  BY <1>3 DEF Popped, Top, StartAsyncTask, UserCode, Fetching, Kept, Suspended, Answered
<1>5. Recorded'
  BY <1>3, <1>4 DEF Kept, Recorded
<1>6. ASSUME NEW held \in BOOLEAN, NEW attempt \in {1, 2},
             task' = [task EXCEPT ![n] = NewTask(kind, dep, held, attempt)]
      PROVE  /\ Accepted' = Accepted \cup {n}
             /\ task'[n] = NewTask(kind, dep, held, attempt)
             /\ \A m \in Accepted : m # n /\ task'[m] = task[m]
  <2>1. task'[n] # NoTask /\ task'[n] = NewTask(kind, dep, held, attempt)
    BY <1>1, <1>2, <1>6 DEF NewTask, NoTask, AllKinds
  <2>2. \A m \in Num : m # n => task'[m] = task[m]
    BY <1>2, <1>6
  <2>3. \A m \in Accepted : m # n /\ task'[m] = task[m]
    BY <1>1, <2>2 DEF Accepted
  <2>. QED
    BY <1>1, <2>1, <2>2, <2>3 DEF Accepted
<1>7. CASE UNCHANGED <<task, pending, running, dependent>>
  BY <1>3, <1>7, StillUnseen
<1>8. CASE /\ dep > 0 /\ dep \in dependent
           /\ pending' = [pending EXCEPT ![dep] = Append(@, n)]
           /\ task' = [task EXCEPT ![n] = NewTask(kind, dep, TRUE, 1)]
           /\ UNCHANGED <<running, dependent>>
  <2>1. /\ Accepted' = Accepted \cup {n} /\ task'[n] = NewTask(kind, dep, TRUE, 1)
        /\ \A m \in Accepted : m # n /\ task'[m] = task[m]
    BY <1>6, <1>8
  <2>2. Unsent' = Unsent \cup {n} /\ task'[n].dep = dep
    BY <2>1 DEF Unsent, NewTask
  <2>3. Waiting' = Waiting \cup {<<n, dep>>}
    <3>1. \A m \in Unsent : task'[m].dep = task[m].dep
      BY <2>1 DEF Unsent
    <3>2. \A w : w \in Waiting' <=> \E m \in Unsent' : w = <<m, task'[m].dep>>
      BY DEF Waiting
    <3>3. \A w : w \in Waiting <=> \E m \in Unsent : w = <<m, task[m].dep>>
      BY DEF Waiting
    <3>4. \A w : w \in Waiting' <=> w \in Waiting \/ w = <<n, dep>>
      BY <2>2, <3>1, <3>2, <3>3
    <3>. QED
      BY <3>4
  <2>4. Untouched'
    <3>1. \A s \in Seq(Unsent) : s \in Seq(Unsent')
      BY <2>2, SeqMonotonic
    <3>2. \A d \in Num : pending'[d] \in Seq(Unsent')
      <4>1. \A d \in Num : pending[d] \in Seq(Unsent')
        BY <3>1 DEF Kept, Untouched
      <4>2. Append(pending[dep], n) \in Seq(Unsent')
        BY <1>2, <1>8, <2>2, <4>1, AppendProperties
      <4>. QED
        BY <1>2, <1>8, <4>1, <4>2 DEF TypeOK
    <3>3. Holding \subseteq Holding'
      BY <3>1 DEF Holding
    <3>4. stack' \in Seq(Holding')
      BY <1>3, <3>3, SeqMonotonic DEF Kept, Untouched
    <3>5. \A m \in Unsent' : task'[m].dep \in Num
      <4>1. \A m \in Unsent : task[m].dep \in Num
        BY DEF Kept, Untouched
      <4>2. \A m \in Unsent : task'[m].dep = task[m].dep
        BY <2>1 DEF Unsent
      <4>3. dep \in Num
        BY <1>2, <1>8
      <4>. QED
        BY <2>2, <4>1, <4>2, <4>3
    <3>. QED
      BY <3>2, <3>4, <3>5 DEF Untouched
  <2>5. Discharged'
    BY <1>4, <1>8 DEF Kept, Discharged
  <2>6. dep \in Accepted \ { m \in Num : Answered(m) }
    BY <1>2, <1>8 DEF Kept, Discharged
  <2>7. { m \in Num : Answered(m) }' = { m \in Num : Answered(m) }
    BY <1>4
  <2>8. Service!Accept(n)
    BY <1>1, <1>3, <1>4, <1>8, <2>1, <2>3, <2>6, <2>7 DEF Service!Accept
  <2>9. Promised
    BY <1>1, <2>8 DEF Promised, Service!Next
  <2>. QED
    BY <1>4, <1>5, <2>4, <2>5, <2>9 DEF Kept
<1>9. CASE /\ running' = Append(running, n) /\ dependent' = dependent \cup {n}
           /\ task' = [task EXCEPT ![n] = NewTask(kind, dep, FALSE, 2)]
           /\ UNCHANGED pending
  <2>1. /\ Accepted' = Accepted \cup {n} /\ task'[n] = NewTask(kind, dep, FALSE, 2)
        /\ \A m \in Accepted : m # n /\ task'[m] = task[m]
    BY <1>6, <1>9
  <2>2. Unsent' = Unsent
    BY <2>1 DEF Unsent, NewTask
  <2>3. Waiting' = Waiting
    BY <2>1, <2>2 DEF Waiting, Unsent
  <2>4. Untouched'
    <3>1. Holding' = Holding
      BY <2>2 DEF Holding
    <3>. QED
      BY <1>3, <1>9, <2>1, <2>2, <3>1 DEF Kept, Untouched, Unsent
  <2>5. ~Answered(n)
    <3>1. n \notin written /\ ~Inside(Queues, n)
      BY <1>1 DEF Owned
    <3>2. \A i \in DOMAIN finished : finished[i] # n
      BY <3>1, KeysAre, QueueOf DEF Inside
    <3>. QED
      BY <1>1, <3>1, <3>2 DEF Kept, Recorded
  <2>6. Discharged'
    BY <1>4, <1>9, <2>5 DEF Kept, Discharged
  <2>7. { m \in Num : Answered(m) }' = { m \in Num : Answered(m) }
    BY <1>4
  <2>8. Popped' \o running' = Append(Popped \o running, n)
    <3>1. running \in Seq(Num)
      BY <1>2 DEF TypeOK
    <3>2. << >> \o running = running /\ << >> \o Append(running, n) = Append(running, n)
      BY <1>1, <3>1
    <3>. QED
      BY <1>4, <1>9, <3>2
  <2>9. Service!Accept(n)
    BY <1>1, <1>3, <2>1, <2>3, <2>7, <2>8 DEF Service!Accept
  <2>10. Promised
    BY <1>1, <2>9 DEF Promised, Service!Next
  <2>. QED
    BY <1>4, <1>5, <2>4, <2>6, <2>10 DEF Kept
<1>. QED
  BY <1>7, <1>8, <1>9 DEF StartAsyncTask, Retains

\* The queue of an answered task, taken out of the map, holds unsent tasks.
LEMMA AnswerPromised ==
    ASSUME IInv, TypeOK', Owned, Emptied, Kept, AsyncSuccess
    PROVE  Kept' /\ Promised
<1>1. TypeOK /\ stack # << >> /\ Top \in Frames /\ Top.at = "recv"
  BY TopFrame DEF IInv, AsyncSuccess, Receive, At
<1>2. PICK n \in Num : n = Top.task
  BY <1>1 DEF AsyncSuccess, Frames
<1>. DEFINE q == IF n \in dependent THEN Retained(n) ELSE << >>
<1>3. /\ UNCHANGED <<task, running>> /\ dependent' = dependent \ {n}
      /\ answers' = answers \cup {<<n, Head(replies).from>>}
      /\ \/ written' = written \cup {n} /\ finished' = finished
         \/ written' = written /\ finished' = Append(finished, n)
      /\ pending' = pending \/ pending' = [pending EXCEPT ![n] = << >>]
      /\ \E place \in {"callback", "release"} :
            Goto([Top EXCEPT !.at = place, !.retained = q])
  BY <1>2 DEF AsyncSuccess, Erase
<1>4. \A m : Answered(m)' <=> Answered(m) \/ m = n
  <2>1. \A a : a \in answers' <=> a \in answers \/ a = <<n, Head(replies).from>>
    BY <1>3
  <2>2. <<n, Head(replies).from>>[1] = n
    OBVIOUS
  <2>3. \A m : Answered(m)' <=> \E a \in answers' : a[1] = m
    BY DEF Answered
  <2>. QED
    BY <2>1, <2>2, <2>3 DEF Answered
<1>5. Unsent' = Unsent /\ Accepted' = Accepted /\ Waiting' = Waiting
  BY <1>3 DEF Unsent, Accepted, Waiting
<1>6. q \in Seq(Unsent)
  BY EmptySeq DEF Retained, Kept, Untouched
<1>7. Suspended' /\ stack' \in Seq(Holding) /\ Popped' = << >>
  <2>1. PICK place \in {"callback", "release"} :
            Goto([Top EXCEPT !.at = place, !.retained = q])
    BY <1>3
  <2>. DEFINE f == [Top EXCEPT !.at = place, !.retained = q]
  <2>2. f \in Frames
    BY <1>1, <2>1, NewTop
  <2>3. f.at = place /\ f.retained = q
    BY <1>1 DEF Frames
  <2>. HIDE DEF f
  <2>4. TaskOf(f) = << >> /\ f.retained \in Seq(Unsent) /\ Goto(f)
    BY <1>6, <2>1, <2>3 DEF TaskOf, Fetching, f
  <2>. QED
    BY <1>1, <2>2, <2>4, GotoKept
<1>8. Untouched'
  <2>1. Holding' = Holding
    BY <1>5 DEF Holding
  <2>2. \A d \in Num : pending'[d] \in Seq(Unsent)
    <3>1. << >> \in Seq(Unsent) /\ \A d \in Num : pending[d] \in Seq(Unsent)
      BY EmptySeq DEF Kept, Untouched
    <3>. QED
      BY <1>1, <1>2, <1>3, <3>1 DEF TypeOK
  <2>. QED
    BY <1>3, <1>5, <1>7, <2>1, <2>2 DEF Kept, Untouched
<1>9. Recorded'
  <2>1. ASSUME NEW m \in Num
        PROVE  (m \in written' \/ \E i \in DOMAIN finished' : finished'[i] = m)
                   <=> m \in written \/ m = n \/ \E i \in DOMAIN finished : finished[i] = m
    <3>1. CASE written' = written \cup {n} /\ finished' = finished
      BY <3>1
    <3>2. CASE written' = written /\ finished' = Append(finished, n)
      <4>. SUFFICES ASSUME NEW s \in Seq(Num), s = finished
                    PROVE  (m \in written \/ \E i \in DOMAIN Append(s, n) : Append(s, n)[i] = m)
                               <=> m \in written \/ m = n \/ \E i \in DOMAIN s : s[i] = m
        BY <1>1, <3>2 DEF TypeOK
      <4>1. /\ Len(s) \in Nat /\ DOMAIN s = 1 .. Len(s)
            /\ DOMAIN Append(s, n) = 1 .. Len(s) + 1
            /\ Append(s, n)[Len(s) + 1] = n
            /\ \A i \in 1 .. Len(s) : Append(s, n)[i] = s[i]
        BY AppendProperties, LenProperties
      <4>. QED
        BY <4>1
    <3>. QED
      BY <1>3, <3>1, <3>2
  <2>. QED
    BY <1>4, <2>1 DEF Kept, Recorded
<1>10. Discharged'
  BY <1>3, <1>4 DEF Kept, Discharged
<1>11. Popped = << n >> /\ running \in Seq(Num)
  <2>1. n # Sync
    BY DEF Num, Sync
  <2>. QED
    BY <1>1, <1>2, <2>1 DEF Popped, Fetching, TypeOK
<1>12. /\ << n >> \o running # << >> /\ Head(<< n >> \o running) = n
       /\ Tail(<< n >> \o running) = running /\ << >> \o running = running
  BY <1>11
<1>13. { m \in Num : Answered(m) }' = { m \in Num : Answered(m) } \cup {n}
  BY <1>2, <1>4
<1>14. Service!Answer
  BY <1>3, <1>5, <1>7, <1>11, <1>12, <1>13 DEF Service!Answer
<1>. QED
  BY <1>7, <1>8, <1>9, <1>10, <1>14 DEF Kept, Promised, Service!Next

-----------------------------------------------------------------------------
(* Requests made again, and requests of retained tasks.                    *)

LEMMA SeqOf ==
    ASSUME NEW S, NEW T, NEW s \in Seq(S), \A i \in DOMAIN s : s[i] \in T
    PROVE  s \in Seq(T)
<1>1. s = [i \in 1 .. Len(s) |-> s[i]] /\ Len(s) \in Nat /\ DOMAIN s = 1 .. Len(s)
  OBVIOUS
<1>. QED
  BY <1>1

LEMMA AttemptUnsent ==
    ASSUME TypeOK, NEW n \in Accepted, task' = [task EXCEPT ![n].attempt = @ + 1]
    PROVE  /\ Accepted' = Accepted
           /\ Unsent' = Unsent \ {n}
           /\ Waiting' = Waiting \ {<<n, task[n].dep>>}
           /\ \A m \in Accepted : task'[m].dep = task[m].dep
<1>1. n \in Num /\ task[n] \in Tasks /\ task \in [Num -> Tasks \cup {NoTask}]
  BY AcceptedTask DEF TypeOK
<1>2. \A m \in Num : m # n => task'[m] = task[m]
  BY <1>1
<1>3. /\ task'[n].held = task[n].held /\ task'[n].dep = task[n].dep
      /\ task'[n].attempt = task[n].attempt + 1 /\ task[n].attempt \in Nat \ {0}
  BY <1>1 DEF Tasks
<1>4. Accepted' = Accepted
  BY AttemptAccepted
<1>5. \A m \in Accepted : task'[m].dep = task[m].dep
  BY <1>2, <1>3 DEF Accepted
<1>6. Unsent' = Unsent \ {n}
  <2>1. n \notin Unsent'
    BY <1>3 DEF Unsent
  <2>2. \A m \in Accepted : m # n => task'[m] = task[m]
    BY <1>2 DEF Accepted
  <2>. QED
    BY <1>4, <2>1, <2>2 DEF Unsent
<1>7. Waiting' = Waiting \ {<<n, task[n].dep>>}
  <2>1. \A w : w \in Waiting' <=> \E m \in Unsent \ {n} : w = <<m, task'[m].dep>>
    BY <1>6 DEF Waiting
  <2>2. \A m \in Unsent \ {n} : task'[m].dep = task[m].dep
    BY <1>5 DEF Unsent
  <2>3. \A w : w \in Waiting <=> \E m \in Unsent : w = <<m, task[m].dep>>
    BY DEF Waiting
  <2>4. \A w : w \in Waiting' <=> w \in Waiting /\ w # <<n, task[n].dep>>
    BY <2>1, <2>2, <2>3
  <2>. QED
    BY <2>4
<1>. QED
  BY <1>4, <1>5, <1>6, <1>7

LEMMA RetryPromised ==
    ASSUME IInv, TypeOK', Emptied, Kept, Retry
    PROVE  Kept' /\ Promised
<1>. DEFINE n == Top.task
<1>1. /\ TypeOK /\ stack # << >> /\ Top \in Frames /\ Top.at = "retry" /\ Top \in GoodFrames
      /\ running \in Seq(Num)
  BY TopFrame, TopInPlace DEF IInv, TypeOK, Retry, At
<1>2. n \in Num /\ n \in Accepted /\ n # Sync /\ task[n].attempt > 1
  BY <1>1 DEF GoodFrames, Requested, Accepted
<1>3. PICK f \in Frames : /\ Goto(f) /\ f.at = "loop" /\ f.retained = Top.retained
                          /\ running' = running \/ running' = Append(running, n)
  <2>1. /\ [Top EXCEPT !.at = "loop"] \in Frames
        /\ [Top EXCEPT !.at = "loop"].at = "loop"
        /\ [Top EXCEPT !.at = "loop"].retained = Top.retained
    BY <1>1 DEF Frames, Places
  <2>2. GiveUp(Top) \in Frames /\ GiveUp(Top).at = "loop"
        /\ GiveUp(Top).retained = Top.retained
    BY <1>1 DEF Frames, Places, GiveUp
  <2>3. \/ Goto([Top EXCEPT !.at = "loop"]) /\ running' = Append(running, n)
        \/ Goto(GiveUp(Top)) /\ running' = running
    BY DEF Retry, Requeue
  <2>. QED
    BY <2>1, <2>2, <2>3
<1>4. /\ UNCHANGED <<pending, dependent, answers, written, finished>>
      /\ task' = task \/ task' = [task EXCEPT ![n].attempt = @ + 1]
  BY DEF Retry
<1>5. Accepted' = Accepted /\ Unsent' = Unsent /\ Waiting' = Waiting
      /\ \A m \in Accepted : task'[m].dep = task[m].dep
  <2>1. CASE task' = task
    BY <2>1 DEF Accepted, Unsent, Waiting
  <2>2. CASE task' = [task EXCEPT ![n].attempt = @ + 1]
    <3>1. n \notin Unsent
      BY <1>2 DEF Unsent
    <3>2. <<n, task[n].dep>> \notin Waiting
      BY <3>1 DEF Waiting
    <3>. HIDE DEF n
    <3>3. /\ Accepted' = Accepted /\ Unsent' = Unsent \ {n}
          /\ Waiting' = Waiting \ {<<n, task[n].dep>>}
          /\ \A m \in Accepted : task'[m].dep = task[m].dep
      BY <1>1, <1>2, <2>2, AttemptUnsent
    <3>4. Unsent \ {n} = Unsent
      BY <3>1
    <3>5. Waiting \ {<<n, task[n].dep>>} = Waiting
      BY <3>2
    <3>. QED
      BY <3>3, <3>4, <3>5
  <2>. QED
    BY <1>4, <2>1, <2>2
<1>6. f.retained \in Seq(Unsent) /\ TaskOf(f) = << >>
  BY <1>1, <1>3, HeadTailProperties DEF Kept, Untouched, Holding, Top, TaskOf, Fetching
<1>7. Suspended' /\ stack' \in Seq(Holding) /\ Popped' = << >>
  BY <1>1, <1>3, <1>6, GotoKept
<1>8. Untouched'
  <2>1. Holding' = Holding
    BY <1>5 DEF Holding
  <2>2. \A m \in Unsent : task'[m].dep \in Num
    BY <1>5 DEF Unsent, Kept, Untouched
  <2>3. \A d \in Num : pending'[d] \in Seq(Unsent)
    BY <1>4 DEF Kept, Untouched
  <2>. QED
    BY <1>5, <1>7, <2>1, <2>2, <2>3 DEF Untouched
<1>9. \A m : Answered(m)' = Answered(m)
  BY <1>4 DEF Answered
<1>10. Recorded' /\ Discharged'
  BY <1>4, <1>9 DEF Kept, Recorded, Discharged
<1>11. Popped = << n >>
  BY <1>1, <1>2 DEF Popped, Fetching
<1>12. /\ << n >> \o running # << >> /\ Head(<< n >> \o running) = n
       /\ Tail(<< n >> \o running) = running /\ << >> \o running = running
       /\ << >> \o Append(running, n) = Append(running, n)
  BY <1>1, <1>2
<1>13. { m \in Num : Answered(m) }' = { m \in Num : Answered(m) }
  BY <1>9
<1>14. Popped' \o running' \in {Append(Tail(Popped \o running), Head(Popped \o running)),
                                Tail(Popped \o running)}
  BY <1>3, <1>7, <1>11, <1>12
<1>15. Service!Repeat
  BY <1>4, <1>5, <1>11, <1>12, <1>13, <1>14 DEF Service!Repeat
<1>. QED
  BY <1>7, <1>8, <1>10, <1>15 DEF Kept, Promised, Service!Next

\* The first of the retained tasks is in no other place, and not answered.
LEMMA FirstRetained ==
    ASSUME TypeOK, Owned, Kept, stack # << >>, Top.retained # << >>,
           NEW n \in Num, n = Head(Top.retained)
    PROVE  /\ ~Answered(n)
           /\ \A d \in Num : \A i \in DOMAIN pending[d] : pending[d][i] # n
           /\ \A j \in 2 .. Len(stack) :
                  \A i \in DOMAIN stack[j].retained : stack[j].retained[i] # n
           /\ \A i \in DOMAIN Tail(Top.retained) : Tail(Top.retained)[i] # n
<1>1. /\ Len(stack) \in Nat \ {0} /\ RetainedAt(Len(stack)) = Top.retained
      /\ Top.retained \in Seq(Num)
  BY TopQueues, TopFrame DEF Frames
<1>2. /\ Len(Top.retained) \in Nat \ {0} /\ DOMAIN Top.retained = 1 .. Len(Top.retained)
      /\ Top.retained[1] = n
      /\ DOMAIN Tail(Top.retained) = 1 .. Len(Top.retained) - 1
      /\ \A i \in 1 .. Len(Top.retained) - 1 : Tail(Top.retained)[i] = Top.retained[i + 1]
  BY <1>1, HeadTailProperties, EmptySeq
<1>3. PICK k \in Keys : k = <<"retained", Len(stack)>> /\ Queues[k] = Top.retained
  BY <1>1, KeysAre, QueueOf
<1>4. /\ n \notin written
      /\ \A l \in Keys : \A j \in DOMAIN Queues[l] : Queues[l][j] = n => l = k /\ j = 1
  <2>1. Inside(Queues, n)
    BY <1>2, <1>3, QueueOf DEF Inside
  <2>2. n \notin written
    BY <2>1 DEF Owned
  <2>3. Queues[k][1] = n /\ 1 \in DOMAIN Queues[k]
    BY <1>2, <1>3
  <2>4. \A l \in Keys : \A j \in DOMAIN Queues[l] : Queues[l][j] = n => l = k /\ j = 1
    BY <2>3, QueueOf DEF Owned, Unique
  <2>. QED
    BY <2>2, <2>4
<1>5. \A i \in DOMAIN finished : finished[i] # n
  BY <1>3, <1>4, KeysAre, QueueOf
<1>6. ~Answered(n)
  BY <1>4, <1>5 DEF Kept, Recorded
<1>7. \A d \in Num : \A i \in DOMAIN pending[d] : pending[d][i] # n
  BY <1>3, <1>4, KeysAre, QueueOf
<1>8. ASSUME NEW j \in 2 .. Len(stack), NEW i \in DOMAIN stack[j].retained
      PROVE  stack[j].retained[i] # n
  <2>1. PICK e \in Nat \ {0} : e = Len(stack) + 1 - j /\ e # Len(stack)
    BY <1>1
  <2>2. RetainedAt(e) = stack[j].retained
    BY <1>1, <2>1 DEF RetainedAt
  <2>3. Queues[<<"retained", e>>] = stack[j].retained /\ <<"retained", e>> \in Keys
    BY <2>2, KeysAre, QueueOf
  <2>. QED
    BY <1>3, <1>4, <2>1, <2>3
<1>9. \A i \in DOMAIN Tail(Top.retained) : Tail(Top.retained)[i] # n
  BY <1>2, <1>3, <1>4
<1>. QED
  BY <1>6, <1>7, <1>8, <1>9

LEMMA ReleasePromised ==
    ASSUME IInv, TypeOK', Owned, Emptied, Kept, Release
    PROVE  Kept' /\ Promised
<1>1. /\ TypeOK /\ stack # << >> /\ Top \in Frames /\ Top.at = "release" /\ Top \in GoodFrames
      /\ running \in Seq(Num) /\ TaskOf(Top) = << >>
  BY TopFrame, TopInPlace DEF IInv, TypeOK, Release, At, TaskOf, Fetching
<1>2. UNCHANGED <<pending, answers, written, finished>>
  BY DEF Release
<1>3. CASE Top.retained = << >>
  <2>. DEFINE f == [Top EXCEPT !.at = "loop"]
  <2>1. /\ f \in Frames /\ f.at = "loop" /\ f.retained = Top.retained
        /\ Goto(f) /\ UNCHANGED <<task, running, dependent>>
    BY <1>1, <1>3 DEF Frames, Places, Release
  <2>. HIDE DEF f
  <2>2. TaskOf(f) = TaskOf(Top)
    BY <1>1, <2>1 DEF TaskOf, Fetching
  <2>. QED
    BY <1>1, <1>2, <2>1, <2>2, GotoUnseen
<1>4. CASE Top.retained # << >>
  <2>. DEFINE f == [Top EXCEPT !.retained = Tail(@)]
  <2>1. /\ f \in Frames /\ f.at = "release" /\ f.retained = Tail(Top.retained) /\ Goto(f)
    BY <1>1, <1>4, NewTop DEF Frames, Release
  <2>. HIDE DEF f
  <2>2. Top.retained \in Seq(Releasable) /\ Top.retained \in Seq(Unsent)
    BY <1>1, HeadTailProperties DEF GoodFrames, Kept, Untouched, Holding, Top
  <2>3. PICK n \in Releasable : n = Head(Top.retained)
    BY <1>4, <2>2, HeadTailProperties
  <2>4. n \in Unsent /\ n \in Accepted /\ n \in Num /\ task[n].dep \in Num
    BY <1>4, <2>2, <2>3, HeadTailProperties DEF Accepted, Releasable, Kept, Untouched
  <2>5. /\ task' = [task EXCEPT ![n].attempt = @ + 1]
        /\ \/ running' = running /\ dependent' = dependent
           \/ running' = Append(running, n) /\ dependent' = dependent \cup {n}
    BY <1>4, <2>3 DEF Release
  <2>6. /\ Accepted' = Accepted /\ Unsent' = Unsent \ {n}
        /\ Waiting' = Waiting \ {<<n, task[n].dep>>}
        /\ \A m \in Accepted : task'[m].dep = task[m].dep
    BY <1>1, <2>4, <2>5, AttemptUnsent
  <2>7. /\ ~Answered(n)
        /\ \A d \in Num : \A i \in DOMAIN pending[d] : pending[d][i] # n
        /\ \A j \in 2 .. Len(stack) :
               \A i \in DOMAIN stack[j].retained : stack[j].retained[i] # n
        /\ \A i \in DOMAIN Tail(Top.retained) : Tail(Top.retained)[i] # n
    BY <1>1, <1>4, <2>3, <2>4, FirstRetained
  <2>8. ASSUME NEW s \in Seq(Unsent), \A i \in DOMAIN s : s[i] # n
        PROVE  s \in Seq(Unsent')
    <3>1. \A i \in DOMAIN s : s[i] \in Unsent'
      BY <2>6, <2>8
    <3>. QED
      BY <3>1, SeqOf
  <2>9. Tail(Top.retained) \in Seq(Unsent) /\ Tail(Top.retained) \in Seq(Unsent')
    BY <1>4, <2>2, <2>7, <2>8, HeadTailProperties
  <2>10. Suspended' /\ Popped' = << >>
    <3>1. TaskOf(f) = << >> /\ f.retained \in Seq(Unsent)
      BY <2>1, <2>9 DEF TaskOf, Fetching
    <3>. QED
      BY <1>1, <2>1, <3>1, GotoKept
  <2>11. stack' \in Seq(Holding')
    <3>1. /\ stack' \in Seq(Frames) /\ Len(stack') = Len(stack) /\ stack'[1] = f
          /\ \A i \in 2 .. Len(stack) : stack'[i] = stack[i]
      BY <1>1, <2>1, GotoFrame DEF TypeOK, Goto
    <3>2. f \in Holding'
      BY <2>1, <2>9 DEF Holding
    <3>3. ASSUME NEW i \in 2 .. Len(stack)
          PROVE  stack[i] \in Holding'
      <4>1. stack[i] \in Holding
        BY DEF Kept, Untouched
      <4>2. stack[i].retained \in Seq(Unsent')
        BY <2>7, <2>8, <4>1 DEF Holding
      <4>. QED
        BY <4>1, <4>2 DEF Holding
    <3>4. \A i \in DOMAIN stack' : stack'[i] \in Holding'
      BY <3>1, <3>2, <3>3
    <3>. QED
      BY <3>1, <3>4, SeqOf
  <2>12. \A d \in Num : pending'[d] \in Seq(Unsent')
    <3>1. \A d \in Num : pending[d] \in Seq(Unsent)
      BY DEF Kept, Untouched
    <3>. QED
      BY <1>2, <2>7, <2>8, <3>1
  <2>13. Untouched'
    <3>1. \A m \in Unsent' : task'[m].dep \in Num
      BY <2>6 DEF Unsent, Kept, Untouched
    <3>. QED
      BY <2>11, <2>12, <3>1 DEF Untouched
  <2>14. \A m : Answered(m)' = Answered(m)
    BY <1>2 DEF Answered
  <2>15. Recorded' /\ Discharged'
    BY <1>2, <2>5, <2>7, <2>14 DEF Kept, Recorded, Discharged
  <2>16. Popped = << >> /\ << >> \o running = running
         /\ << >> \o Append(running, n) = Append(running, n)
    BY <1>1, <2>4, PoppedTop
  <2>17. { m \in Num : Answered(m) }' = { m \in Num : Answered(m) }
    BY <2>14
  <2>18. <<n, task[n].dep>> \in Waiting
    BY <2>4 DEF Waiting
  <2>19. Answered(task[n].dep)
    BY DEF Releasable
  <2>20. Service!Release(n, task[n].dep)
    BY <1>2, <2>4, <2>5, <2>6, <2>10, <2>16, <2>17, <2>18, <2>19 DEF Service!Release
  <2>21. Promised
    BY <2>4, <2>20 DEF Promised, Service!Next
  <2>. QED
    BY <2>10, <2>13, <2>15, <2>21 DEF Kept
<1>. QED
  BY <1>3, <1>4

-----------------------------------------------------------------------------
(* The other steps, and the refinement.                                    *)

\* handleRequestReplies() writes the results of every task that is answered.
LEMMA ReturnsPromised ==
    ASSUME IInv, TypeOK', Emptied, Kept, FetchReturns
    PROVE  Kept' /\ Promised
<1>1. /\ TypeOK /\ stack # << >> /\ Top \in Frames /\ Top.at = "return"
      /\ TaskOf(Top) = << >>
      /\ UNCHANGED <<task, pending, dependent, answers, running>>
  BY TopFrame DEF IInv, FetchReturns, At, TaskOf, Fetching
<1>2. CASE Goto([Top EXCEPT !.at = "send"]) /\ UNCHANGED <<finished, written>>
  <2>. DEFINE f == [Top EXCEPT !.at = "send"]
  <2>1. f \in Frames /\ f.at = "send" /\ f.retained = Top.retained /\ Goto(f)
    BY <1>1, <1>2 DEF Frames, Places
  <2>. HIDE DEF f
  <2>2. TaskOf(f) = TaskOf(Top)
    BY <1>1, <2>1 DEF TaskOf, Fetching
  <2>. QED
    BY <1>1, <1>2, <2>1, <2>2, GotoUnseen
<1>3. CASE Return /\ UNCHANGED <<finished, written>>
  BY <1>1, <1>3, ReturnUnseen
<1>4. CASE /\ Return /\ finished' = << >>
           /\ written' = written \cup { finished[i] : i \in DOMAIN finished }
  <2>1. Suspended' /\ stack' \in Seq(Holding) /\ Popped' = << >> /\ Popped = << >>
    BY <1>1, <1>4, ReturnKept, PoppedTop
  <2>2. Unsent' = Unsent /\ Accepted' = Accepted /\ Waiting' = Waiting
    BY <1>1 DEF Unsent, Accepted, Waiting
  <2>3. Untouched'
    <3>1. Holding' = Holding
      BY <2>2 DEF Holding
    <3>. QED
      BY <1>1, <2>1, <2>2, <3>1 DEF Kept, Untouched
  <2>4. \A m : Answered(m)' = Answered(m)
    BY <1>1 DEF Answered
  <2>5. \A m \in Num : Answered(m) <=> m \in written'
    BY <1>4 DEF Kept, Recorded
  <2>6. DOMAIN finished' = {}
    BY <1>4
  <2>7. Recorded' /\ Discharged'
    BY <1>1, <2>4, <2>5, <2>6 DEF Kept, Recorded, Discharged
  <2>8. written' = { m \in Num : Answered(m) }
    BY <2>5 DEF TypeOK
  <2>9. { m \in Num : Answered(m) }' = { m \in Num : Answered(m) }
    BY <2>4
  <2>10. Service!Deliver
    BY <1>1, <2>1, <2>2, <2>8, <2>9 DEF Service!Deliver
  <2>. QED
    BY <2>1, <2>3, <2>7, <2>10 DEF Kept, Promised, Service!Next
<1>. QED
  BY <1>2, <1>3, <1>4 DEF FetchReturns

\* Calls that go on, and the synchronous exchanges.
LEMMA GoesOnPromised ==
    ASSUME IInv, Emptied, Kept,
           \/ UserReturns \/ ReceiveInterrupt \/ AsyncFailure \/ Drain
           \/ SyncSend \/ SyncRetry \/ SyncAbort
    PROVE  Kept' /\ Promised
<1>1. TypeOK /\ UNCHANGED <<task, pending, dependent, answers, written, finished, running>>
  BY DEF IInv, UserReturns, ReceiveInterrupt, AsyncFailure, Drain, SyncSend, SyncRetry, SyncAbort
<1>2. ASSUME stack # << >>, NEW f \in Frames, GoesOnAs(f)
      PROVE  Kept' /\ Promised
  BY <1>1, <1>2, GotoUnseen DEF GoesOnAs
<1>3. CASE UserReturns \/ ReceiveInterrupt \/ AsyncFailure \/ Drain
  BY <1>2, <1>3, GoesOn
<1>4. CASE SyncSend \/ SyncRetry \/ SyncAbort
  BY <1>1, <1>2, <1>4, SyncGoesOn, ReturnUnseen
<1>. QED
  BY <1>3, <1>4

\* The answer to a synchronous exchange is the answer to no task.
LEMMA SyncPromised ==
    ASSUME IInv, Emptied, Kept, SyncSuccess
    PROVE  Kept' /\ Promised
<1>1. /\ TypeOK /\ stack # << >> /\ Return /\ TaskOf(Top) = << >>
      /\ UNCHANGED <<task, pending, dependent, written, finished, running>>
      /\ answers' = answers \cup {<<Sync, Head(replies).from>>}
  BY SyncGoesOn DEF IInv, SyncSuccess
<1>2. ASSUME NEW m, m # Sync
      PROVE  Answered(m)' = Answered(m)
  <2>1. <<Sync, Head(replies).from>>[1] # m
    BY <1>2
  <2>. QED
    BY <1>1, <2>1 DEF Answered
<1>3. Suspended' /\ stack' \in Seq(Holding) /\ Popped' = << >> /\ Popped = << >>
  BY <1>1, ReturnKept, PoppedTop
<1>4. Unsent' = Unsent /\ Accepted' = Accepted /\ Waiting' = Waiting
  BY <1>1 DEF Unsent, Accepted, Waiting
<1>5. Untouched'
  <2>1. Holding' = Holding
    BY <1>4 DEF Holding
  <2>. QED
    BY <1>1, <1>3, <1>4, <2>1 DEF Kept, Untouched
<1>6. \A m \in Num : Answered(m)' = Answered(m)
  BY <1>2 DEF Num, Sync
<1>7. dependent \subseteq Num
  BY <1>1 DEF TypeOK
<1>8. Recorded' /\ Discharged'
  BY <1>1, <1>6, <1>7 DEF Kept, Recorded, Discharged
<1>9. { m \in Num : Answered(m) }' = { m \in Num : Answered(m) }
  BY <1>6
<1>10. UNCHANGED Service!vars
  BY <1>1, <1>3, <1>4, <1>9 DEF Service!vars
<1>. QED
  BY <1>3, <1>5, <1>8, <1>10 DEF Kept, Promised

LEMMA PromisedNext ==
    ASSUME OInv, TypeOK', Kept, [Next]_vars
    PROVE  Kept' /\ Promised
<1>. USE DEF hostVars, boardVars
<1>1. TypeOK /\ IInv /\ Emptied /\ Owned
  BY DEF OInv, IInv
<1>2. CASE \E kind \in Kinds : \E dep \in Accepted \cup {0} : StartAsyncTask(kind, dep)
  BY <1>1, <1>2, StartPromised
<1>3. CASE (\E kind \in Kinds : DoSyncTask(kind)) \/ HandleReplies
  BY <1>1, <1>3, CallUnseen DEF DoSyncTask, HandleReplies
<1>4. CASE \/ UserReturns \/ ReceiveInterrupt \/ AsyncFailure \/ Drain
           \/ SyncSend \/ SyncRetry \/ SyncAbort
  BY <1>1, <1>4, GoesOnPromised
<1>5. CASE TakeRunning
  BY <1>1, <1>5, TakePromised
<1>6. CASE AsyncSuccess
  BY <1>1, <1>6, AnswerPromised
<1>7. CASE Retry
  BY <1>1, <1>7, RetryPromised
<1>8. CASE Release
  BY <1>1, <1>8, ReleasePromised
<1>9. CASE FetchReturns
  BY <1>1, <1>9, ReturnsPromised
<1>10. CASE SyncSuccess
  BY <1>1, <1>10, SyncPromised
<1>11. CASE Board
  BY <1>1, <1>11, StillUnseen DEF Board, Answer, RaiseInterrupt
<1>12. CASE UNCHANGED vars
  BY <1>1, <1>12, StillUnseen DEF vars
<1>. QED
  BY <1>2, <1>3, <1>4, <1>5, <1>6, <1>7, <1>8, <1>9, <1>10, <1>11, <1>12
     DEF Next, User, Host

LEMMA PromisedInit == Init => Kept /\ Service!Init
<1>. SUFFICES ASSUME Init PROVE Kept /\ Service!Init
  OBVIOUS
<1>1. /\ running = << >> /\ finished = << >> /\ stack = << >> /\ written = {}
      /\ answers = {} /\ dependent = {} /\ \A n \in Num : pending[n] = << >>
  BY DEF Init
<1>2. Accepted = {} /\ Unsent = {} /\ Waiting = {} /\ \A n : ~Answered(n)
  BY <1>1 DEF Init, Accepted, Unsent, Waiting, Answered
<1>3. Suspended /\ Discharged /\ Recorded
  BY <1>1, <1>2 DEF Suspended, Discharged, Recorded
<1>4. Untouched
  BY <1>1, <1>2, EmptySeq DEF Untouched
<1>5. Popped \o running = << >>
  BY <1>1 DEF Popped
<1>6. { n \in Num : Answered(n) } = {}
  BY <1>2
<1>7. Service!Init
  BY <1>1, <1>2, <1>5, <1>6 DEF Service!Init
<1>. QED
  BY <1>3, <1>4, <1>7 DEF Kept

\* The inductive invariant under which every step is one of the promise.
THEOREM Bookkeeping == Spec => []SInv
<1>1. Init => SInv
  BY OwnedInit, TypeInit, PlaceInit, PromisedInit DEF SInv, OInv, IInv
<1>2. SInv /\ [Next]_vars => SInv'
  BY OwnedNext, TypeNext, PlaceNext, PromisedNext DEF SInv, OInv, IInv
<1>. QED
  BY <1>1, <1>2, PTL DEF Spec

\* TaskExecutor keeps the promise of the asynchronous mode: tasks are requested
\* in one queue and answered from its head, a task that waits is requested only
\* after the one it waits for, and results are given to the user once answered,
\* whatever the line does and whatever callbacks and service routines call.
THEOREM ServiceImplemented == Spec => ImplementsService
<1>1. Init => Service!Init
  BY PromisedInit
<1>2. SInv /\ SInv' /\ [Next]_vars => [Service!Next]_(Service!vars)
  BY PromisedNext DEF SInv, OInv, IInv, Promised
<1>. QED
  BY <1>1, <1>2, Bookkeeping, PTL DEF Spec, Service!Spec, ImplementsService

-----------------------------------------------------------------------------
(* Retained tasks.                                                         *)

\* The numbers one can depend on are those of tasks that were requested, and
\* tasks are retained under such numbers only.
Depended == dependent \subseteq Requested
Chained  == \A d \in Num : pending[d] # << >> => d \in dependent

LEMMA StartChained ==
    ASSUME IInv, TypeOK', TasksInPlace', Depended, Chained,
           NEW kind, NEW dep, StartAsyncTask(kind, dep)
    PROVE  Depended' /\ Chained'
<1>. DEFINE n == counter + 1
<1>1. n \in Num /\ task[n] = NoTask
  BY ConstantsAssumption
     DEF ConstantsAssumption, IInv, TypeOK, Fresh, StartAsyncTask, Num
<1>2. task \in [Num -> Tasks \cup {NoTask}] /\ pending \in [Num -> Seq(Num)]
  BY DEF IInv, TypeOK
<1>3. \A m \in Num : m # n => task'[m] = task[m]
  BY <1>1, <1>2 DEF StartAsyncTask
<1>4. Requested \subseteq Requested'
  BY <1>1, <1>3 DEF Requested, Accepted
<1>. HIDE DEF n
<1>5. CASE UNCHANGED <<pending, dependent>>
  BY <1>4, <1>5 DEF Depended, Chained
<1>6. CASE /\ dep \in dependent /\ dependent' = dependent
           /\ pending' = [pending EXCEPT ![dep] = Append(@, n)]
  <2>1. \A d \in Num : d # dep => pending'[d] = pending[d]
    BY <1>2, <1>6
  <2>. QED
    BY <1>4, <1>6, <2>1 DEF Depended, Chained
<1>7. CASE dependent' = dependent \cup {n} /\ running' = Append(running, n) /\ pending' = pending
  <2>1. running \in Seq(Num) /\ running' \in Seq(Requested')
    BY DEF IInv, TypeOK, TasksInPlace
  <2>2. n \in Requested'
    BY <1>1, <1>7, <2>1, AppendProperties, LenProperties
  <2>. QED
    BY <1>4, <1>7, <2>2 DEF Depended, Chained
<1>. QED
  BY <1>5, <1>6, <1>7 DEF StartAsyncTask, Retains, n

LEMMA ReleaseChained ==
    ASSUME IInv, Depended, Chained, Release
    PROVE  Depended' /\ Chained'
<1>1. /\ Top \in GoodFrames /\ UNCHANGED <<answers, pending>>
      /\ \/ UNCHANGED <<task, dependent>>
         \/ /\ Top.retained # << >>
            /\ task' = [task EXCEPT ![Head(Top.retained)].attempt = @ + 1]
            /\ dependent' \subseteq dependent \cup {Head(Top.retained)}
            /\ dependent \subseteq dependent'
  BY TopInPlace DEF IInv, Release, At
<1>2. CASE UNCHANGED <<task, dependent>>
  BY <1>1, <1>2 DEF Depended, Chained, Requested, Accepted
<1>3. CASE /\ Top.retained # << >>
           /\ task' = [task EXCEPT ![Head(Top.retained)].attempt = @ + 1]
           /\ dependent' \subseteq dependent \cup {Head(Top.retained)}
           /\ dependent \subseteq dependent'
  <2>1. PICK n \in Releasable : n = Head(Top.retained)
    BY <1>1, <1>3, HeadTailProperties DEF GoodFrames
  <2>2. n \in Accepted /\ task' = [task EXCEPT ![n].attempt = @ + 1]
    BY <1>1, <1>3, <2>1 DEF Releasable
  <2>3. n \in Requested' /\ Requested \subseteq Requested'
    BY <1>1, <2>2, AttemptGrows, GrowsKeeps
  <2>. QED
    BY <1>1, <1>3, <2>1, <2>3 DEF Depended, Chained
<1>. QED
  BY <1>1, <1>2, <1>3

LEMMA RetryChained ==
    ASSUME IInv, Depended, Chained, Retry
    PROVE  Depended' /\ Chained'
<1>1. Top \in GoodFrames /\ UNCHANGED <<answers, pending, dependent>> /\ Top.at = "retry"
  BY TopInPlace DEF IInv, Retry, At
<1>2. PICK n \in Accepted : n = Top.task
  <2>1. Top.task \in Requested
    BY <1>1 DEF GoodFrames
  <2>. QED
    BY <2>1 DEF Requested
<1>3. CASE task' = task
  BY <1>1, <1>3 DEF Depended, Chained, Requested, Accepted
<1>4. CASE task' = [task EXCEPT ![n].attempt = @ + 1]
  <2>1. Requested \subseteq Requested'
    BY <1>1, <1>4, AttemptGrows, GrowsKeeps
  <2>. QED
    BY <1>1, <2>1 DEF Depended, Chained
<1>. QED
  BY <1>2, <1>3, <1>4 DEF Retry

LEMMA AnswerChained ==
    ASSUME IInv, Depended, Chained, AsyncSuccess
    PROVE  Depended' /\ Chained'
<1>1. /\ task' = task /\ dependent' = dependent \ {Top.task}
      /\ IF Top.task \in dependent THEN pending' = [pending EXCEPT ![Top.task] = << >>]
                                   ELSE pending' = pending
  BY DEF AsyncSuccess, Erase
<1>2. pending \in [Num -> Seq(Num)] /\ Requested' = Requested
  BY <1>1 DEF IInv, TypeOK, Requested, Accepted
<1>. QED
  BY <1>1, <1>2 DEF Depended, Chained

LEMMA ChainedNext ==
    ASSUME IInv, TypeOK', TasksInPlace', Depended, Chained, [Next]_vars
    PROVE  Depended' /\ Chained'
<1>1. CASE UNCHANGED <<task, pending, dependent>>
  BY <1>1 DEF Depended, Chained, Requested, Accepted
<1>2. CASE Release
  BY <1>2, ReleaseChained
<1>3. CASE Retry
  BY <1>3, RetryChained
<1>4. CASE AsyncSuccess
  BY <1>4, AnswerChained
<1>5. CASE User
  BY <1>1, <1>5, StartChained DEF User, HandleReplies, DoSyncTask
<1>6. CASE UserReturns \/ Board
  BY <1>1, <1>6 DEF UserReturns, Board, Answer, RaiseInterrupt, hostVars
<1>7. CASE \/ TakeRunning \/ ReceiveInterrupt \/ AsyncFailure \/ Drain \/ FetchReturns
           \/ SyncSend \/ SyncSuccess \/ SyncRetry \/ SyncAbort
  BY <1>1, <1>7 DEF TakeRunning, ReceiveInterrupt, AsyncFailure, Drain, FetchReturns,
                    SyncSend, SyncSuccess, SyncRetry, SyncAbort
<1>8. CASE UNCHANGED vars
  BY <1>1, <1>8 DEF vars, hostVars
<1>. QED
  BY <1>2, <1>3, <1>4, <1>5, <1>6, <1>7, <1>8 DEF Next, Host

\* A task that others can depend on is running, popped, or lost.
LEMMA DependedRuns ==
    ASSUME SInv, Depended, NEW n \in dependent, n \notin Lost
    PROVE  running # << >> \/ \E i \in DOMAIN stack : stack[i].at \in Fetching
<1>1. TypeOK /\ n \in Num /\ n \in Accepted /\ n \notin Unsent
  BY DEF SInv, OInv, IInv, Depended, Requested, Accepted, Unsent
<1>2. n \notin written /\ \A i \in DOMAIN finished : finished[i] # n
  BY <1>1 DEF SInv, Kept, Discharged, Recorded
<1>3. Inside(Queues, n)
  BY <1>1, <1>2, NoOwner DEF Lost
<1>4. PICK k \in Keys : \E i \in DOMAIN Queues[k] : Queues[k][i] = n
  BY <1>3, QueueOf DEF Inside
<1>5. PICK i \in DOMAIN Queues[k] : Queues[k][i] = n
  BY <1>4
<1>6. \A s \in Seq(Unsent) : \A j \in DOMAIN s : s[j] # n
  BY <1>1
<1>7. CASE k = <<"running", 0>>
  BY <1>5, <1>7, QueueOf
<1>8. CASE k = <<"finished", 0>>
  BY <1>2, <1>5, <1>8, QueueOf
<1>9. ASSUME NEW d \in Num, k = <<"pending", d>> PROVE FALSE
  BY <1>5, <1>6, <1>9, QueueOf DEF SInv, Kept, Untouched
<1>10. ASSUME NEW d \in Nat \ {0}, k = <<"retained", d>> PROVE FALSE
  <2>1. Queues[k] = RetainedAt(d)
    BY <1>10, QueueOf
  <2>2. d \in 1 .. Len(stack) /\ Queues[k] = stack[Len(stack) + 1 - d].retained
    BY <1>5, <2>1 DEF RetainedAt
  <2>3. Len(stack) \in Nat /\ stack \in Seq(Holding)
    BY <1>1, LenProperties DEF TypeOK, SInv, Kept, Untouched
  <2>4. Len(stack) + 1 - d \in 1 .. Len(stack)
    BY <2>2, <2>3
  <2>5. stack[Len(stack) + 1 - d] \in Holding
    BY <2>3, <2>4
  <2>. QED
    BY <1>5, <1>6, <2>2, <2>5 DEF Holding
<1>11. ASSUME NEW d \in Nat \ {0}, k = <<"task", d>>
       PROVE  \E j \in DOMAIN stack : stack[j].at \in Fetching
  <2>1. Queues[k] = TaskAt(d)
    BY <1>11, QueueOf
  <2>2. d \in 1 .. Len(stack) /\ TaskOf(stack[Len(stack) + 1 - d]) # << >>
    BY <1>5, <2>1 DEF TaskAt
  <2>3. Len(stack) \in Nat /\ DOMAIN stack = 1 .. Len(stack)
    BY <1>1, LenProperties DEF TypeOK
  <2>4. Len(stack) + 1 - d \in DOMAIN stack
    BY <2>2, <2>3
  <2>. QED
    BY <2>2, <2>4 DEF TaskOf
<1>. QED
  BY <1>7, <1>8, <1>9, <1>10, <1>11, KeysAre

\* Tasks are retained only while one is running or being fetched, so that they
\* are released in the end: as long as the executor has let go of no task,
\* whatever else went wrong and whatever callbacks and service routines called.
THEOREM PendingCorrect == Spec => [](Lost = {} => PendingHasRunning)
<1>1. Init => Depended /\ Chained
  BY DEF Init, Depended, Chained
<1>2. SInv /\ SInv' /\ Depended /\ Chained /\ [Next]_vars => Depended' /\ Chained'
  BY ChainedNext DEF SInv, OInv, IInv
<1>3. SInv /\ Depended /\ Chained => (Lost = {} => PendingHasRunning)
  BY DependedRuns DEF Chained, PendingHasRunning
<1>. QED
  BY <1>1, <1>2, <1>3, Bookkeeping, PTL DEF Spec
=============================================================================
