---------------------------- MODULE TaskExecutor ----------------------------
(***************************************************************************)
(* The execution environment for tasks: class TaskExecutor with the Task,  *)
(* SyncTask and AsyncTask objects it moves between its three buffers, the  *)
(* serial line, and the board at its other end.                            *)
(*                                                                         *)
(* The host program is one thread.  What runs beside it is the board,      *)
(* which answers requests in order and may put an interrupt between two    *)
(* replies.  What makes the host hard to follow is re-entrance: callbacks  *)
(* and interrupt service routines run inside fetchAsyncReplies() and may   *)
(* call the executor again.  "stack" is therefore the call stack of the    *)
(* host, one frame per active fetchAsyncReplies() or doSyncTask().         *)
(***************************************************************************)
EXTENDS Integers, Sequences, FiniteSets

CONSTANTS
    Kinds,       \* the exchanges the user starts, a subset of AllKinds
    Cores,       \* indices of the easyCores that can raise an interrupt
    Faults,      \* what may go wrong on the line, a subset of AllFaults
    MaxRetries,  \* _MAX_RETRIES_ALLOWED
    MaxAsync,    \* bound: asynchronous operations started
    MaxSync,     \* bound: synchronous operations started
    MaxIrqs,     \* bound: interrupts raised by the board
    MaxFaults,   \* bound: faults
    MaxDepth     \* bound: nested calls into the executor

AllKinds  == {"read", "write", "modify", "enable"}
AllFaults == {"send", "nack", "garble", "opcode", "lose", "late", "partial"}

ASSUME ConstantsAssumption ==
    /\ Kinds \subseteq AllKinds
    /\ Cores \subseteq Nat \ {0}
    /\ Faults \subseteq AllFaults
    /\ MaxRetries \in Nat
    /\ MaxAsync \in Nat
    /\ MaxSync \in Nat
    /\ MaxIrqs \in Nat
    /\ MaxFaults \in Nat
    /\ MaxDepth \in Nat

Num    == 1 .. MaxAsync   \* task numbers of asynchronous operations
Sync   == 0               \* stands for the number of the running SyncTask
NoCore == -1              \* SPECIAL_CORE_INDICES::NO_FPGA_ASSOCIATION

VARIABLES
    counter,         \* _asyncOperationCounter
    task,            \* the AsyncTask objects, by number
    pending,         \* _pendingAsyncTasks: number -> queue of retained tasks
    running,         \* _runningAsyncTasks
    dependent,       \* _dependendTaskNumbers
    finished,        \* _finishedAsyncTasks
    triggeringCore,  \* _triggeringCore
    stack,           \* active calls, the innermost first
    requests,        \* the line from host to board
    replies,         \* the line from board to host, received bytes included
    irqEnabled,      \* board: may raise an interrupt
    answers,         \* exchange reply buffers: <<task, whose reply it holds>>
    written,         \* async tasks whose results reached the user's memory
    syncs,           \* _syncOperationCounter
    irqs,            \* interrupts raised so far
    served,          \* interrupt service routines run so far
    faults           \* faults so far

hostVars  == <<counter, task, pending, running, dependent, finished,
               triggeringCore, stack, answers, written, syncs, served>>
boardVars == <<irqEnabled, irqs>>
vars      == <<hostVars, boardVars, requests, replies, faults>>

-----------------------------------------------------------------------------
(* Exchanges and frames.                                                   *)

\* The opcode of the reply an exchange of this kind expects.
ExpectedOpcode(kind) == IF kind \in {"read", "modify"} THEN "DATA" ELSE "ACK"

\* Gpio8's read-modify-write starts a read that carries a callback.
HasCallback(kind) == kind = "modify"

ReplyLength == [ACK |-> 3, DATA |-> 4, NACK |-> 4, INT |-> 3]

Opcodes == DOMAIN ReplyLength \cup {"other"}

\* Bytes in transit from one reply of the board: "from" is the task it
\* answers, or the core for an interrupt, "len" the bytes not yet read.
Reply(opcode, from, intact) ==
    [opcode |-> opcode, from |-> from, intact |-> intact,
     len |-> ReplyLength[opcode]]

Replies  == { r \in [opcode : Opcodes, from : Nat, intact : BOOLEAN, len : 1 .. 4] :
                  r.opcode = "INT" => r.from \in Cores }
Requests == [from : Num \cup {Sync}, kind : AllKinds]

\* RECEIVE_STATE after reading at the head of the line.
ReceiveState(head, kind) ==
    IF head.opcode \notin {ExpectedOpcode(kind), "NACK"} THEN "UNEXPECTED_OPCODE_ERROR"
    ELSE IF ~head.intact THEN "CHECKSUM_ERROR"
    ELSE IF head.opcode = "NACK" THEN "FAILURE"
    ELSE "SUCCESS"

\* (mutant: the last byte of a reply is left over)
Unread_LastByteStays(head, state) ==
    IF state = "UNEXPECTED_OPCODE_ERROR"
    THEN << [head EXCEPT !.opcode = "other", !.len = @ - 1] >>
    ELSE << >>

\* An unexpected opcode is one byte read; the rest of that reply stays.
Unread(head, state) ==
    IF state = "UNEXPECTED_OPCODE_ERROR" /\ head.len > 1
    THEN << [head EXCEPT !.opcode = "other", !.len = @ - 1] >>
    ELSE << >>

-----------------------------------------------------------------------------
(* The call stack of the host.                                             *)

Places == {"loop", "recv", "retry", "callback", "release", "isr", "return",
           "send", "aborted"}

\* Where a frame's "task" has been popped but is not yet dealt with.
Fetching == {"recv", "retry", "aborted"}

\* at       where the call is
\* caller   handleRequestReplies() or doSyncTask()
\* task     the task popped from "running", or Sync
\* retained the queue moved out of "pending" when its task was answered
\* ok       fetchAsyncReplies(): success
\* depth    Task::receive(): recursiveDepth
\* kind, attempt  the SyncTask: its exchange and _executionAttempt
Frames == [at : Places, caller : {"handle", "sync"}, task : Num \cup {Sync},
           retained : Seq(Num), ok : BOOLEAN, depth : 0 .. 1,
           kind : AllKinds, attempt : Nat]

\* (mutant: doSyncTask() does not fetch first)
Fetch_SyncSendsAtOnce(caller, kind) ==
    [at |-> IF caller = "sync" THEN "send" ELSE "loop", caller |-> caller,
     task |-> Sync, retained |-> << >>, ok |-> TRUE, depth |-> 0,
     kind |-> kind, attempt |-> 1]

\* A call that starts with fetchAsyncReplies().
Fetch(caller, kind) ==
    [at |-> "loop", caller |-> caller, task |-> Sync, retained |-> << >>,
     ok |-> TRUE, depth |-> 0, kind |-> kind, attempt |-> 1]

Top       == Head(stack)
At(place) == stack # << >> /\ Top.at = place
Goto(f)   == stack' = << f >> \o Tail(stack)
Return    == stack' = Tail(stack)
Call(f)   == Len(stack) < MaxDepth /\ stack' = << f >> \o stack

\* User code runs in the main program, in a callback and in an ISR.
UserCode == stack # << >> => Top.at \in {"callback", "isr"}

\* A failing assert() ends the program where it is; "waiting" is the task
\* whose reply it was waiting for.
Abort(waiting) == Goto([Top EXCEPT !.at = "aborted", !.task = waiting])

Fault(f) == f \in Faults /\ faults < MaxFaults /\ faults' = faults + 1

\* Task::send() succeeds, or the serial connection refuses the request.
Send(n, kind) == /\ requests' = Append(requests, [from |-> n, kind |-> kind])
                 /\ UNCHANGED faults
SendFails     == Fault("send") /\ UNCHANGED requests

-----------------------------------------------------------------------------
(* Calls of the user.                                                      *)

NewTask(kind, dep, held, attempt) ==
    [kind |-> kind, dep |-> dep, held |-> held, attempt |-> attempt]

Tasks  == [kind : AllKinds, dep : Num \cup {0}, held : BOOLEAN, attempt : Nat \ {0}]
NoTask == NewTask("none", 0, FALSE, 0)

\* Numbers startAsyncTask() has returned: a task that could not be sent is
\* destroyed and its caller gets 0.
Accepted == { n \in Num : task[n] # NoTask }

\* A task is retained if its dependency is still in _dependendTaskNumbers.
\* (mutant: whenever it has one)
Retains_Any(dep) == dep > 0
Retains(dep) == dep > 0 /\ dep \in dependent

\* startAsyncTask(): a task that is not retained is sent at once.
StartAsyncTask(kind, dep) ==
    LET n    == counter + 1
        held == Retains(dep)
    IN  /\ UserCode
        /\ counter < MaxAsync
        /\ counter' = n
        /\ \/ /\ held
              /\ task' = [task EXCEPT ![n] = NewTask(kind, dep, TRUE, 1)]
              /\ pending' = [pending EXCEPT ![dep] = Append(@, n)]
              /\ UNCHANGED <<running, dependent, requests, faults>>
           \/ /\ ~held
              /\ Send(n, kind)
              /\ task' = [task EXCEPT ![n] = NewTask(kind, dep, FALSE, 2)]
              /\ dependent' = dependent \cup {n}
              /\ running' = Append(running, n)
              /\ UNCHANGED pending
           \/ /\ ~held
              /\ SendFails
              /\ UNCHANGED <<task, pending, running, dependent>>
        /\ UNCHANGED <<finished, triggeringCore, stack, answers, written,
                       syncs, served, replies, boardVars>>

\* Communicator::handleRequestReplies() enters fetchAsyncReplies().
HandleReplies ==
    /\ UserCode
    /\ Call(Fetch("handle", "read"))
    /\ UNCHANGED <<counter, task, pending, running, dependent, finished,
                   triggeringCore, answers, written, syncs, served, requests,
                   replies, boardVars, faults>>

\* doSyncTask() first fetches the replies of all running asynchronous tasks.
DoSyncTask(kind) ==
    /\ UserCode
    /\ ~HasCallback(kind)
    /\ syncs < MaxSync
    /\ syncs' = syncs + 1
    /\ Call(Fetch("sync", kind))
    /\ UNCHANGED <<counter, task, pending, running, dependent, finished,
                   triggeringCore, answers, written, served, requests, replies,
                   boardVars, faults>>

\* A callback or an interrupt service routine returns to fetchAsyncReplies().
UserReturns ==
    /\ \/ At("callback") /\ Goto([Top EXCEPT !.at = "release"])
       \/ At("isr") /\ Goto([Top EXCEPT !.at = "return"])
    /\ UNCHANGED <<counter, task, pending, running, dependent, finished,
                   triggeringCore, answers, written, syncs, served, requests,
                   replies, boardVars, faults>>

-----------------------------------------------------------------------------
(* Task::receive().                                                        *)

Expects == IF Top.task = Sync THEN Top.kind ELSE task[Top.task].kind

\* The reply at the head of the line is read with this outcome.
Receive(state) ==
    /\ At("recv")
    /\ replies # << >>
    /\ Head(replies).opcode # "INT"
    /\ state = ReceiveState(Head(replies), Expects)
    /\ replies' = Unread(Head(replies), state) \o Tail(replies)
    /\ UNCHANGED faults

\* CONNECTION_ERROR: no byte came in time, because nothing is on its way or
\* because the board was too slow.
Timeout ==
    /\ At("recv")
    /\ replies = << >>
    /\ \/ requests = << >> /\ UNCHANGED faults
       \/ requests # << >> /\ Fault("late")
    /\ UNCHANGED replies

\* An interrupt in front of the expected reply: note the core, receive again.
\* A second one in a row fails assert(recursiveDepth < 1).
ReceiveInterrupt ==
    /\ At("recv")
    /\ replies # << >>
    /\ Head(replies).opcode = "INT"
    /\ \/ /\ Top.depth = 0
          /\ replies' = Tail(replies)
          /\ triggeringCore' = IF Head(replies).intact THEN Head(replies).from
                                                       ELSE triggeringCore
          /\ Goto([Top EXCEPT !.depth = 1])
       \/ /\ Top.depth = 1
          /\ Abort(Top.task)
          /\ UNCHANGED <<replies, triggeringCore>>
    /\ UNCHANGED <<counter, task, pending, running, dependent, finished,
                   answers, written, syncs, served, requests, boardVars, faults>>

-----------------------------------------------------------------------------
(* fetchAsyncReplies().                                                    *)

\* The local queue q: the tasks retained for task n.
\* (mutants: the map's first queue; the entry is erased before it is copied)
Retained_FirstQueue(n) ==
    IF \E d \in Num : pending[d] # << >>
    THEN pending[CHOOSE d \in Num : /\ pending[d] # << >>
                                    /\ \A e \in 1 .. d - 1 : pending[e] = << >>]
    ELSE << >>
Retained_ErasedBefore(n) == << >>
Retained(n) == pending[n]

\* The entry of n leaves the map.
\* (mutant: it stays)
Erase_Forgotten(n) == pending' = pending
Erase(n) == pending' = [pending EXCEPT ![n] = << >>]

\* A task that is requested again goes behind all running ones.
\* (mutant: in front of them)
Requeue_InFront(n) == running' = << n >> \o running
Requeue(n) == running' = Append(running, n)

\* A task is let go of: success = false.
\* (mutant: success stays)
GiveUp_Unreported(f) == [f EXCEPT !.at = "loop"]
GiveUp(f) == [f EXCEPT !.at = "loop", !.ok = FALSE]

\* interruptOccured()
\* (mutant: core 1 is taken for no core)
InterruptOccured_OffByOne(core) == core > 1
InterruptOccured(core) == core > 0

\* getTriggeringCore() resets the noted core.
\* (mutant: it does not)
ResetTriggeringCore_Forgotten(core) == triggeringCore' = core
ResetTriggeringCore(core) == triggeringCore' = NoCore

\* Pop the first running task and wait for its reply.
TakeRunning ==
    /\ At("loop")
    /\ running # << >>
    /\ running' = Tail(running)
    /\ Goto([Top EXCEPT !.at = "recv", !.task = Head(running), !.depth = 0])
    /\ UNCHANGED <<counter, task, pending, dependent, finished, triggeringCore,
                   answers, written, syncs, served, requests, replies,
                   boardVars, faults>>

\* RECEIVE_SUCCESS: the task is answered, the tasks retained for it are moved
\* out of the map, and its callback runs before they are sent.
AsyncSuccess ==
    LET n == Top.task
        q == IF n \in dependent THEN Retained(n) ELSE << >>
    IN  /\ Receive("SUCCESS")
        /\ n # Sync
        /\ answers' = answers \cup {<<n, Head(replies).from>>}
        /\ dependent' = dependent \ {n}
        /\ IF n \in dependent THEN Erase(n) ELSE UNCHANGED pending
        /\ \/ /\ HasCallback(task[n].kind)
              /\ written' = written \cup {n}
              /\ Goto([Top EXCEPT !.at = "callback", !.retained = q])
              /\ UNCHANGED finished
           \/ /\ ~HasCallback(task[n].kind)
              /\ finished' = Append(finished, n)
              /\ Goto([Top EXCEPT !.at = "release", !.retained = q])
              /\ UNCHANGED written
        /\ UNCHANGED <<counter, task, running, triggeringCore, syncs, served,
                       requests, boardVars>>

\* Send the retained tasks one after the other.  One that cannot be sent is
\* dropped, and "success" stays as it is.
Release ==
    /\ At("release")
    /\ IF Top.retained = << >>
       THEN /\ Goto([Top EXCEPT !.at = "loop"])
            /\ UNCHANGED <<task, dependent, running, requests, faults>>
       ELSE LET n == Head(Top.retained)
            IN  /\ task' = [task EXCEPT ![n].attempt = @ + 1]
                /\ Goto([Top EXCEPT !.retained = Tail(@)])
                /\ \/ /\ Send(n, task[n].kind)
                      /\ dependent' = dependent \cup {n}
                      /\ running' = Append(running, n)
                   \/ /\ SendFails
                      /\ UNCHANGED <<dependent, running>>
    /\ UNCHANGED <<counter, pending, finished, triggeringCore, answers, written,
                   syncs, served, replies, boardVars>>

\* Every other outcome of receive().
AsyncFailure ==
    /\ At("recv")
    /\ Top.task # Sync
    /\ \/ Receive("FAILURE")
       \/ Receive("CHECKSUM_ERROR")
       \/ Receive("UNEXPECTED_OPCODE_ERROR")
       \/ Timeout
    /\ Goto([Top EXCEPT !.at = "retry"])
    /\ UNCHANGED <<counter, task, pending, running, dependent, finished,
                   triggeringCore, answers, written, syncs, served, requests, boardVars>>

\* The request is sent again and the task queued behind the running ones, or
\* the task is given up: its number then stays in "dependent".
Retry ==
    LET n == Top.task
    IN  /\ At("retry")
        /\ \/ /\ task[n].attempt <= MaxRetries
              /\ task' = [task EXCEPT ![n].attempt = @ + 1]
              /\ \/ /\ Send(n, task[n].kind)
                    /\ Requeue(n)
                    /\ Goto([Top EXCEPT !.at = "loop"])
                 \/ /\ SendFails
                    /\ Goto(GiveUp(Top))
                    /\ UNCHANGED running
           \/ /\ task[n].attempt > MaxRetries
              /\ Goto(GiveUp(Top))
              /\ UNCHANGED <<task, running, requests, faults>>
        /\ UNCHANGED <<counter, pending, dependent, finished, triggeringCore,
                       answers, written, syncs, served, replies, boardVars>>

\* No task is running any more.  Bytes left over must be an intact interrupt;
\* anything else ends the program, and so does an interrupt of which less than
\* three bytes have arrived when they are counted (the "partial" fault).  Then
\* the noted core's interrupt service routine runs.
Drain ==
    LET interrupt == replies # << >> /\ Head(replies).opcode = "INT"
        wellFormed == replies # << >> => interrupt /\ Head(replies).intact
        core == IF interrupt THEN Head(replies).from ELSE triggeringCore
    IN  /\ At("loop")
        /\ running = << >>
        /\ \/ /\ wellFormed
              /\ replies' = IF interrupt THEN Tail(replies) ELSE replies
              /\ ResetTriggeringCore(core)
              /\ \/ /\ InterruptOccured(core)
                    /\ served' = served + 1
                    /\ Goto([Top EXCEPT !.at = "isr"])
                 \/ /\ ~InterruptOccured(core)
                    /\ UNCHANGED served
                    /\ Goto([Top EXCEPT !.at = "return"])
              /\ UNCHANGED faults
           \/ /\ ~wellFormed
              /\ Abort(Sync)
              /\ UNCHANGED <<replies, triggeringCore, served, faults>>
           \/ /\ interrupt /\ Len(replies) = 1
              /\ Fault("partial")
              /\ Abort(Sync)
              /\ UNCHANGED <<replies, triggeringCore, served>>
        /\ UNCHANGED <<counter, task, pending, running, dependent, finished,
                       answers, written, syncs, requests, boardVars>>

\* fetchAsyncReplies() returns: handleRequestReplies() writes the finished
\* tasks' results if it was successful, doSyncTask() goes on in any case.
FetchReturns ==
    /\ At("return")
    /\ \/ /\ Top.caller = "sync"
          /\ Goto([Top EXCEPT !.at = "send"])
          /\ UNCHANGED <<finished, written>>
       \/ /\ Top.caller = "handle"
          /\ Return
          /\ IF Top.ok
             THEN /\ written' = written \cup { finished[i] : i \in DOMAIN finished }
                  /\ finished' = << >>
             ELSE UNCHANGED <<finished, written>>
    /\ UNCHANGED <<counter, task, pending, running, dependent, triggeringCore,
                   answers, syncs, served, requests, replies, boardVars, faults>>

-----------------------------------------------------------------------------
(* doSyncTask(), after the fetch.                                          *)

\* The attempts are used up, or one more is made.
NextAttempt(f) ==
    IF f.attempt <= MaxRetries THEN Goto([f EXCEPT !.at = "send"]) ELSE Return

SyncSend ==
    /\ At("send")
    /\ LET f == [Top EXCEPT !.attempt = @ + 1]
       IN  \/ /\ Send(Sync, Top.kind)
             /\ Goto([f EXCEPT !.at = "recv", !.task = Sync, !.depth = 0])
          \/ /\ SendFails
             /\ NextAttempt(f)
    /\ UNCHANGED <<counter, task, pending, running, dependent, finished,
                   triggeringCore, answers, written, syncs, served, replies, boardVars>>

SyncSuccess ==
    /\ Receive("SUCCESS")
    /\ Top.task = Sync
    /\ answers' = answers \cup {<<Sync, Head(replies).from>>}
    /\ Return
    /\ UNCHANGED <<counter, task, pending, running, dependent, finished,
                   triggeringCore, written, syncs, served, requests, boardVars>>

SyncRetry ==
    /\ Receive("FAILURE") \/ Receive("CHECKSUM_ERROR")
    /\ Top.task = Sync
    /\ NextAttempt(Top)
    /\ UNCHANGED <<counter, task, pending, running, dependent, finished,
                   triggeringCore, answers, written, syncs, served, requests, boardVars>>

\* Both other outcomes end in assert(false).
SyncAbort ==
    /\ Receive("UNEXPECTED_OPCODE_ERROR") \/ Timeout
    /\ Top.task = Sync
    /\ Abort(Sync)
    /\ UNCHANGED <<counter, task, pending, running, dependent, finished,
                   triggeringCore, answers, written, syncs, served, requests, boardVars>>

-----------------------------------------------------------------------------
(* The board and the line: requests are answered in the order they came.   *)

Answer ==
    /\ requests # << >>
    /\ requests' = Tail(requests)
    /\ LET r      == Head(requests)
           good   == Reply(ExpectedOpcode(r.kind), r.from, TRUE)
           enable == irqEnabled \/ r.kind = "enable"
       IN  \/ /\ replies' = Append(replies, good)
             /\ irqEnabled' = enable
             /\ UNCHANGED faults
          \/ /\ Fault("nack")
             /\ replies' = Append(replies, Reply("NACK", r.from, TRUE))
             /\ UNCHANGED irqEnabled
          \/ /\ Fault("garble")
             /\ replies' = Append(replies, [good EXCEPT !.intact = FALSE])
             /\ irqEnabled' = enable
          \/ /\ Fault("opcode")
             /\ replies' = Append(replies, [good EXCEPT !.opcode = "other"])
             /\ irqEnabled' = enable
          \/ /\ Fault("lose")
             /\ UNCHANGED replies
             /\ irqEnabled' \in {irqEnabled, enable}
    /\ UNCHANGED <<hostVars, irqs>>

\* A core interrupts; the board disables interrupts until they are enabled
\* again.
RaiseInterrupt(core) ==
    /\ irqEnabled
    /\ irqs < MaxIrqs
    /\ irqs' = irqs + 1
    /\ irqEnabled' = FALSE
    /\ \/ /\ replies' = Append(replies, Reply("INT", core, TRUE))
          /\ UNCHANGED faults
       \/ /\ Fault("garble")
          /\ replies' = Append(replies, Reply("INT", core, FALSE))
    /\ UNCHANGED <<hostVars, requests>>

-----------------------------------------------------------------------------

Init ==
    /\ counter = 0
    /\ task = [n \in Num |-> NoTask]
    /\ pending = [n \in Num |-> << >>]
    /\ running = << >>
    /\ dependent = {}
    /\ finished = << >>
    /\ triggeringCore = NoCore
    /\ stack = << >>
    /\ requests = << >>
    /\ replies = << >>
    /\ irqEnabled = FALSE
    /\ answers = {}
    /\ written = {}
    /\ syncs = 0
    /\ irqs = 0
    /\ served = 0
    /\ faults = 0

User ==
    \/ \E kind \in Kinds : \E dep \in Accepted \cup {0} : StartAsyncTask(kind, dep)
    \/ \E kind \in Kinds : DoSyncTask(kind)
    \/ HandleReplies

Host ==
    \/ TakeRunning \/ ReceiveInterrupt \/ AsyncSuccess \/ AsyncFailure
    \/ Retry \/ Release \/ Drain \/ FetchReturns
    \/ SyncSend \/ SyncSuccess \/ SyncRetry \/ SyncAbort

Board == Answer \/ \E core \in Cores : RaiseInterrupt(core)

\* assert() has ended the program.
Aborted == At("aborted")

Next == User \/ UserReturns \/ Host \/ Board \/ (Aborted /\ UNCHANGED vars)

Spec == Init /\ [][Next]_vars

\* The host runs on, the board answers, callbacks and interrupt service
\* routines come to an end, and the main program polls handleReplies() as
\* doc/programming.dox asks for.
Fairness ==
    /\ WF_vars(Host)
    /\ WF_vars(Answer)
    /\ SF_vars(UserReturns)
    /\ WF_vars(stack = << >> /\ HandleReplies)

FairSpec == Spec /\ Fairness

-----------------------------------------------------------------------------
(* Properties.                                                             *)

\* Every variable holds a value of the type its C++ counterpart has.
TypeOK ==
    /\ counter \in 0 .. MaxAsync
    /\ task \in [Num -> Tasks \cup {NoTask}]
    /\ pending \in [Num -> Seq(Num)]
    /\ running \in Seq(Num)
    /\ dependent \in SUBSET Num
    /\ finished \in Seq(Num)
    /\ triggeringCore \in Cores \cup {NoCore}
    /\ stack \in Seq(Frames)
    /\ requests \in Seq(Requests)
    /\ replies \in Seq(Replies)
    /\ irqEnabled \in BOOLEAN
    /\ answers \in SUBSET ((Num \cup {Sync}) \X Nat)
    /\ written \in SUBSET Num
    /\ syncs \in 0 .. MaxSync
    /\ irqs \in 0 .. MaxIrqs
    /\ served \in Nat
    /\ faults \in 0 .. MaxFaults

Occurs(s, n) == { i \in DOMAIN s : s[i] = n }

\* The places that hold AsyncTask n: the three buffers, the local queue of
\* retained tasks of an active fetch and its local variable "task".
Owners(n) ==
    ({"running"} \X {0} \X Occurs(running, n))
        \cup ({"finished"} \X {0} \X Occurs(finished, n))
        \cup (UNION { {"pending"} \X {d} \X Occurs(pending[d], n) : d \in Num })
        \cup (UNION { {"retained"} \X {i} \X Occurs(stack[i].retained, n) :
                        i \in DOMAIN stack })
        \cup ({"task"} \X { i \in DOMAIN stack :
                              stack[i].at \in Fetching /\ stack[i].task = n } \X {0})

\* A task moves between the buffers and is never copied: no task is in two
\* places, and none is anywhere once its results are written, so results are
\* written at most once (taskexecutor.cc:227-340, 417-427).
OneOwner ==
    \A n \in Num : /\ Cardinality(Owners(n)) <= 1
                   /\ n \in written \/ n \notin Accepted => Owners(n) = {}

\* Tasks that will never be answered because the executor let go of them.
Lost == { n \in Accepted \ written : Owners(n) = {} }

\* fetchAsyncReplies() returns true only if no reply is missing
\* (taskexecutor.h, "true if all replies ot the requests could be received
\* successfully"): the fetch that lets go of a task will return false.
LossReported ==
    [][ Lost' # Lost => stack' # << >> /\ ~Head(stack').ok ]_vars

Answered(n) == \E a \in answers : a[1] = n

\* What a task is while its number is in "running", in a queue of "pending" and
\* in the local queue of a fetch.
Requested      == { n \in Accepted : task[n].attempt > 1 }
RetainedFor(d) == { n \in Accepted : task[n].held /\ task[n].dep = d }
Releasable     == { n \in Accepted : task[n].held /\ Answered(task[n].dep) }

GoodFrames ==
    { f \in Frames :
        /\ f.retained \in Seq(Releasable)
        /\ f.at \in {"recv", "retry"} => f.task \in Requested \cup {Sync}
        /\ f.at = "retry" => f.task # Sync }

\* Wherever fetchAsyncReplies() keeps a task, nested calls included, the task is
\* what that place takes it for: sent if its reply is awaited, filed under its own
\* dependency while retained, free to be sent once its queue has left the map.
TasksInPlace ==
    /\ running \in Seq(Requested)
    /\ \A d \in Num : pending[d] \in Seq(RetainedFor(d))
    /\ stack \in Seq(GoodFrames)

\* A retained task is not sent before the task it depends on is answered.
HeldUntilAnswered ==
    \A n \in Accepted : task[n].held /\ task[n].attempt > 1 => Answered(task[n].dep)

\* Tasks wait in "pending" only while a task is running or being fetched
\* (taskexecutor.cc:222-225, "This buffer will only hold at least one element
\* if there were executed tasks").
PendingHasRunning ==
    (\E d \in Num : pending[d] # << >>) =>
        running # << >> \/ \E i \in DOMAIN stack : stack[i].at \in Fetching

\* No exchange is given the reply of another one, although replies carry no
\* number and are told apart by their order only (task.cc:120-218).
OwnReply == \A a \in answers : a[1] = a[2]

\* assert() never fails.
NeverAborted == ~Aborted

\* Every interrupt is on the line, noted in _triggeringCore, or has been served
\* by one run of its routine: none is overwritten, none served twice
\* (taskexecutor.h: fetchAsyncReplies() "Handles all yet dispatched
\* asynchronous requests and interrupt notifications").
InterruptsAccounted ==
    irqs = served + (IF triggeringCore = NoCore THEN 0 ELSE 1)
                  + Cardinality({ i \in DOMAIN replies : replies[i].opcode = "INT" })

\* Every interrupt the board raises is served, if the main program keeps calling
\* handleReplies() (doc/programming.dox, "For recognizing sent interrupts ...").
InterruptServed == \A k \in 1 .. MaxIrqs : irqs >= k ~> served >= k

\* Every task the executor accepted is answered and its results are written,
\* if the main program keeps calling handleReplies().
AllWritten == \A n \in Num : n \in Accepted ~> n \in written
=============================================================================
