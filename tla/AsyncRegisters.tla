--------------------------- MODULE AsyncRegisters ---------------------------
(***************************************************************************)
(* How the operations of an easyCore use its registers while               *)
(* _OPERATION_MODE is ASYNC.  An operation starts tasks and returns; a     *)
(* read-modify-write is a read whose callback writes.  A register keeps    *)
(* the number of the last task with a callback that was started through    *)
(* it, and every task started through it depends on that one.  Tasks of    *)
(* different registers are not ordered, but for the order of their         *)
(* requests on the line.                                                   *)
(*                                                                         *)
(* The executor is that of TaskExecutor, between its larger steps: nothing *)
(* but the board runs while a callback does.  Requests and replies keep    *)
(* their order, so "running" is also the line.                             *)
(***************************************************************************)
EXTENDS Integers, Sequences

CONSTANTS
    Value(_, _),          \* Value(c, r): what core c answers to a read of r
    AfterRead(_, _),      \* AfterRead(c, r): c after that read
    AfterWrite(_, _, _),  \* AfterWrite(c, r, v): c after v is written to r
    Callback(_, _),       \* Callback(b, v): the accesses callback b makes when v was read
    AllRegisters,
    Derived,              \* registers whose content another register decides
    MaxCalls,             \* bound: operations called
    MaxFaults             \* bound: requests the board refuses; not more than _MAX_RETRIES_ALLOWED

VARIABLES
    core,        \* the easyCore in the FPGA
    dependency,  \* Register::_dependency of each of its registers
    counter,     \* TaskExecutor::_asyncOperationCounter
    dependent,   \* _dependendTaskNumbers
    running,     \* _runningAsyncTasks, with what the board has done with them
    retained,    \* _pendingAsyncTasks, its queues as one sequence
    fetching,    \* the program is in handleReplies()
    wanted,      \* the core if every operation were carried out when called (history)
    seen,        \* what the read answered last delivered, and was to deliver (history)
    exceptions,  \* what spoils the order of operations (history); bound: after that
                 \* no operation is called
    calls,       \* operations called so far
    faults       \* requests refused so far

vars == <<core, dependency, counter, dependent, running, retained, fetching, wanted,
          seen, exceptions, calls, faults>>

NoCallback == [do |-> "none"]

-----------------------------------------------------------------------------
(* Tasks.                                                                  *)

AsyncRead(r, callback) == [act |-> "read", reg |-> r, callback |-> callback]
AsyncWrite(r, v)       == [act |-> "write", reg |-> r, data |-> v, callback |-> NoCallback]

\* What the executor holds: everything startAsyncTask() changes.
Executor == [counter |-> counter, dependency |-> dependency, dependent |-> dependent,
             running |-> running, retained |-> retained]

NumbersOf(tasks) == { tasks[i].n : i \in DOMAIN tasks }

SendTasks(e, tasks) == [e EXCEPT !.running   = @ \o tasks,
                                 !.dependent = @ \cup NumbersOf(tasks)]

\* startAsyncTask(): a task waits for one that is running, but a task that was
\* retained itself is not one that another can wait for.
Waits(e, task) == task.dep \in e.dependent

\* readAsync() and writeAsync(): the register notes the number of a task with a
\* callback, and of no other.
\* (mutant: it notes none)
Notes_None(access) == FALSE
Notes(access) == access.callback # NoCallback

\* Several accesses, one after the other; those with a callback are of different
\* registers.  "due" is what a read is to deliver.
Accesses(e, accesses) ==
    LET tasks == [i \in DOMAIN accesses |->
                    [n |-> e.counter + i, access |-> accesses[i], state |-> "sent",
                     value |-> {}, dep |-> e.dependency[accesses[i].reg],
                     due |-> IF accesses[i].act = "read" THEN Value(wanted, accesses[i].reg)
                             ELSE {}]]
        noting(r) == { t \in DOMAIN tasks : accesses[t].reg = r /\ Notes(accesses[t]) }
        started == [e EXCEPT
            !.counter    = @ + Len(accesses),
            !.dependency = [r \in AllRegisters |->
                                IF noting(r) = {} THEN @[r]
                                ELSE e.counter + CHOOSE t \in noting(r) : TRUE],
            !.retained   = @ \o SelectSeq(tasks, LAMBDA t : Waits(e, t))]
    IN  SendTasks(started, SelectSeq(tasks, LAMBDA t : ~Waits(e, t)))

Becomes(e) ==
    /\ counter' = e.counter
    /\ dependency' = e.dependency
    /\ dependent' = e.dependent
    /\ running' = e.running
    /\ retained' = e.retained

-----------------------------------------------------------------------------
(* The program.                                                            *)

\* An operation: its accesses, and the core once it is carried out.  "flaw" names
\* what keeps it from doing what it is called for.
Operation(accesses, after, flaw) ==
    LET chained == \E i \in DOMAIN accesses :
                        dependency[accesses[i].reg] \in NumbersOf(retained)
    IN  /\ ~fetching
        /\ exceptions = {}
        /\ calls < MaxCalls
        /\ calls' = calls + 1
        /\ Becomes(Accesses(Executor, accesses))
        /\ exceptions' = flaw \cup IF chained THEN {"chained"} ELSE {}
        /\ wanted' = after
        /\ UNCHANGED <<core, fetching, seen, faults>>

\* EasyFpga::handleReplies()
HandleReplies ==
    /\ ~fetching
    /\ running # << >>
    /\ fetching' = TRUE
    /\ UNCHANGED <<core, dependency, counter, dependent, running, retained, wanted,
                   seen, exceptions, calls, faults>>

\* What was retained for n is sent, in its order.
Released(e, n) ==
    SendTasks([e EXCEPT !.retained = SelectSeq(@, LAMBDA t : t.dep # n)],
              SelectSeq(e.retained, LAMBDA t : t.dep = n))

\* The first running task is answered: its callback runs, then the tasks retained
\* for it are sent.
\* (mutant: they are sent before the callback runs)
Answered_ReleaseFirst(e, task) ==
    Accesses(Released(e, task.n), Callback(task.access.callback, task.value))
Answered(e, task) ==
    Released(Accesses(e, Callback(task.access.callback, task.value)), task.n)

TakeReply ==
    /\ fetching
    /\ running # << >>
    /\ Head(running).state = "done"
    /\ LET task == Head(running)
       IN  /\ Becomes(Answered([Executor EXCEPT !.running = Tail(@),
                                                !.dependent = @ \ {task.n}], task))
           /\ seen' = IF task.access.act = "read" /\ exceptions = {}
                      THEN [reg |-> task.access.reg, value |-> task.value, due |-> task.due]
                      ELSE seen
    /\ UNCHANGED <<core, fetching, wanted, exceptions, calls, faults>>

\* It was refused: it is requested again, behind the running ones.
TakeRefusal ==
    /\ fetching
    /\ running # << >>
    /\ Head(running).state = "refused"
    /\ running' = Append(Tail(running), [Head(running) EXCEPT !.state = "sent"])
    /\ UNCHANGED <<core, dependency, counter, dependent, retained, fetching, wanted,
                   seen, exceptions, calls, faults>>

FetchReturns ==
    /\ fetching
    /\ running = << >>
    /\ fetching' = FALSE
    /\ UNCHANGED <<core, dependency, counter, dependent, running, retained, wanted,
                   seen, exceptions, calls, faults>>

-----------------------------------------------------------------------------
(* The board carries out or refuses the request at the head of the line.   *)

Requested(i) == /\ running[i].state = "sent"
                /\ \A j \in 1 .. i - 1 : running[j].state # "sent"

CarryOut ==
    \E i \in DOMAIN running :
        LET a == running[i].access
        IN  /\ Requested(i)
            /\ running' = [running EXCEPT
                    ![i].state = "done",
                    ![i].value = IF a.act = "read" THEN Value(core, a.reg) ELSE {}]
            /\ core' = IF a.act = "read" THEN AfterRead(core, a.reg)
                       ELSE AfterWrite(core, a.reg, a.data)
            /\ UNCHANGED <<dependency, counter, dependent, retained, fetching, wanted,
                           seen, exceptions, calls, faults>>

RefuseRequest ==
    \E i \in DOMAIN running :
        /\ Requested(i)
        /\ faults < MaxFaults
        /\ faults' = faults + 1
        /\ running' = [running EXCEPT ![i].state = "refused"]
        /\ exceptions' = exceptions \cup {"refused"}
        /\ UNCHANGED <<core, dependency, counter, dependent, retained, fetching, wanted,
                       seen, calls>>

Host  == TakeReply \/ TakeRefusal \/ FetchReturns
Board == CarryOut \/ RefuseRequest

Begin(c) ==
    /\ core = c
    /\ dependency = [r \in AllRegisters |-> 0]
    /\ counter = 0
    /\ dependent = {}
    /\ running = << >>
    /\ retained = << >>
    /\ fetching = FALSE
    /\ wanted = c
    /\ seen = [reg |-> "none", value |-> {}, due |-> {}]
    /\ exceptions = {}
    /\ calls = 0
    /\ faults = 0

-----------------------------------------------------------------------------
(* Properties.                                                             *)

Quiet == ~fetching /\ running = << >>

\* When all tasks are answered the core is as if the operations had been carried
\* out one after the other, though the reads, writes and callbacks of several were
\* under way together (register.cc:118-178, taskexecutor.cc:180-200).  Not so if a
\* task depends on one that was retained itself (a third read-modify-write of a
\* register), if a request was refused and made again behind later ones, or if an
\* operation uses the wrong register or one that cannot be read.
AsIfInOrder == Quiet /\ exceptions = {} => core = wanted

\* A read delivers the register as the operations called before it leave it, also
\* when their writes had not even been requested at the time of the call; with
\* the same exceptions, and unless another register decides what this one holds:
\* only the accesses of one register wait for each other.
ReadsWhatWasWritten == seen.reg \notin Derived => seen.value = seen.due
=============================================================================
