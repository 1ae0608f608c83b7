--------------------------------- MODULE Link ---------------------------------
(***************************************************************************)
(* A synchronous exchange byte by byte: TaskExecutor::doSyncTask(), the    *)
(* send() and receive() of a Task, and the SerialConnection below them,    *)
(* with a board that answers in frames and a line that damages them.       *)
(* TaskExecutor treats a reply as one message; this module shows when the  *)
(* bytes let it.                                                           *)
(*                                                                         *)
(* receive() fills a local array that nothing initialises: it holds zeros  *)
(* or what the call before has left there.                                 *)
(***************************************************************************)
EXTENDS Exchanges

CONSTANTS
    Kinds,       \* the exchanges the program makes, a subset of AllKinds
    Values,      \* the bytes the board's registers hold
    Faults,      \* what may go wrong, a subset of AllFaults
    MaxRetries,  \* _MAX_RETRIES_ALLOWED
    MaxCalls,    \* bound: exchanges made
    MaxFaults    \* bound: faults

Table == [ReadRegister  |-> ReadRegister,
          ReadMulti     |-> ReadMultiRegister(2),
          ReadIncrement |-> ReadAutoAddressIncrementRegister(1),
          WriteRegister |-> WriteRegister,
          WriteMulti    |-> WriteMultiRegister,
          WriteIncrement |-> WriteAutoAddressIncrementRegister,
          InterruptEnable |-> InterruptEnable,
          SelectMcu     |-> SelectMcu,
          SelectSoc     |-> SelectSoc,
          ConfigureFpga |-> ConfigureFpga,
          Sector        |-> Sector4096ByteWrite,
          SerialWrite   |-> SerialWrite,
          StatusWrite   |-> StatusWrite,
          SerialRead    |-> SerialRead,
          StatusRead    |-> StatusRead]

AllKinds  == DOMAIN Table

ASSUME LinkAssumption == Kinds \subseteq AllKinds /\ Values \subseteq SUBSET Bits

AllFaults == {"damaged", "opcode", "cut", "lost", "late", "refused", "unsent", "unplugged"}

VARIABLES
    fd,         \* SerialConnection::_fd
    stage,      \* what the host is doing
    kind,       \* the exchange made last
    attempt,    \* Task::_executionAttempt
    depth,      \* recursiveDepth
    outcome,    \* of SerialConnection::receive(): "none" while it waits
    missing,    \* how many bytes it waits for
    reading,    \* its buffer
    reply,      \* the array of Task::receive()
    triggering, \* TaskExecutor::_triggeringCore; {} stands for none, -1 or 0
    returned,   \* the value doSyncTask() has returned
    queue,      \* bytes the board has sent and the host has not read
    asked,      \* the board has a request to answer
    register,   \* the byte in the board's registers
    irqs,       \* the interrupts are enabled
    answer,     \* the board's last success reply to this exchange (history)
    trouble,    \* the faults so far (history)
    calls,      \* exchanges so far
    faults      \* their number

host  == <<fd, stage, kind, attempt, depth, outcome, missing, reading, reply, triggering,
           returned, calls>>
board == <<asked, register, irqs, answer>>
vars  == <<host, board, queue, trouble, faults>>

x == Table[kind]

Longest == 13

\* The byte of the core that has interrupts, the only one in _easyCoreMapPointer.
Core == {0}

Zeros == [i \in 1 .. Longest |-> {}]

Connected == fd > 2

Fault(f) ==
    /\ f \in Faults
    /\ faults < MaxFaults
    /\ faults' = faults + 1
    /\ trouble' = trouble \cup {f}

NoFault == UNCHANGED <<trouble, faults>>

Init ==
    /\ fd = -1
    /\ stage = "idle"
    /\ kind = "ReadRegister"
    /\ attempt = 1
    /\ depth = 0
    /\ outcome = "none"
    /\ missing = 0
    /\ reading = << >>
    /\ reply = Zeros
    /\ triggering = {}
    /\ returned = FALSE
    /\ queue = << >>
    /\ asked = FALSE
    /\ register \in Values
    /\ irqs = FALSE
    /\ answer = << >>
    /\ trouble = {}
    /\ calls = 0
    /\ faults = 0

-----------------------------------------------------------------------------
(* SerialConnection.                                                       *)

\* Descriptors up to 2 are open files that count as neither connected nor not.
OpenDevice ==
    /\ stage = "idle"
    /\ fd < 0
    /\ fd' \in {-1, 2, 3}
    /\ queue' = << >>
    /\ NoFault
    /\ UNCHANGED <<stage, kind, attempt, depth, outcome, missing, reading, reply, triggering,
                   returned, calls, board>>

\* flushBuffers() reads what there is before the descriptor is closed.
CloseDevice ==
    /\ stage = "idle"
    /\ fd # -1
    /\ fd' = -1
    /\ queue' = << >>
    /\ NoFault
    /\ UNCHANGED <<stage, kind, attempt, depth, outcome, missing, reading, reply, triggering,
                   returned, calls, board>>

\* Task::receive() asks for n bytes.
Receive(next, n) ==
    /\ stage' = next
    /\ outcome' = "none"
    /\ missing' = n
    /\ reading' = << >>

Waiting  == stage \in {"opcode", "rest", "error", "core"} /\ outcome = "none"
Reached(s) == stage = s /\ outcome # "none"

\* Where the bytes go: the opcode is the first of the array.
Offset == IF stage = "opcode" THEN 0 ELSE 1

Stored(bytes) ==
    [i \in 1 .. Longest |-> IF i - Offset \in DOMAIN bytes THEN bytes[i - Offset] ELSE reply[i]]

\* read() takes what is there.  The caller's array is written when all is complete.
TakeBytes ==
    /\ Waiting /\ queue # << >>
    /\ LET n == IF Len(queue) < missing THEN Len(queue) ELSE missing
       IN  /\ reading' = reading \o SubSeq(queue, 1, n)
           /\ queue' = SubSeq(queue, n + 1, Len(queue))
           /\ missing' = missing - n
           /\ reply' = IF missing = n THEN Stored(reading') ELSE reply
           /\ outcome' = IF missing = n THEN "all" ELSE "none"
    /\ NoFault
    /\ UNCHANGED <<fd, stage, kind, attempt, depth, triggering, returned, calls, board>>

\* The time is up with bytes missing: those that were read are dropped.
\* (mutant: the loop waits on)
TimeOut_WaitsOn ==
    /\ Waiting /\ queue = << >>
    /\ ~asked /\ NoFault
    /\ UNCHANGED <<host, queue, board>>
TimeOut ==
    /\ Waiting /\ queue = << >>
    /\ "unplugged" \notin trouble
    /\ IF asked THEN Fault("late") ELSE NoFault
    /\ outcome' = "short"
    /\ UNCHANGED <<fd, stage, kind, attempt, depth, missing, reading, reply, triggering,
                   returned, calls, queue, board>>

\* The device is gone: select() finds it readable, read() returns nothing, and the
\* loop does so again without end.
Unplug ==
    /\ Fault("unplugged")
    /\ asked' = FALSE
    /\ UNCHANGED <<host, queue, register, irqs, answer>>

-----------------------------------------------------------------------------
(* Task and TaskExecutor::doSyncTask().                                    *)

Return(value) == stage' = "idle" /\ returned' = value

Aborted == stage' = "aborted" /\ returned' = FALSE

\* The end of fetchAsyncReplies(): the routine of the core noted is called, if one
\* is noted, and the program ends if there is no such core.
Serve(core) ==
    /\ triggering' = {}
    /\ IF core \in {{}, Core} THEN stage' = "send" /\ UNCHANGED returned ELSE Aborted

\* fetchAsyncReplies() while no asynchronous task is under way: what is left in the
\* queue has to be an interrupt whose copies of the core agree.
FetchAsyncReplies ==
    \/ /\ queue = << >>
       /\ Serve(triggering)
       /\ UNCHANGED <<queue, reading>>
    \/ /\ Len(queue) >= 3 /\ queue[1] = INTERRUPT
       /\ reading' = SubSeq(queue, 2, 3)
       /\ queue' = SubSeq(queue, 4, Len(queue))
       /\ IF queue[2] = queue[3] THEN Serve(queue[2]) ELSE Aborted /\ UNCHANGED triggering
    \/ /\ queue # << >> /\ ~(Len(queue) >= 3 /\ queue[1] = INTERRUPT)
       /\ reading' = << queue[1] >>
       /\ queue' = Tail(queue)
       /\ Aborted /\ UNCHANGED triggering

\* doSyncTask() up to its first attempt.
DoSyncTask(k) ==
    /\ stage = "idle"
    /\ calls < MaxCalls
    /\ calls' = calls + 1
    /\ FetchAsyncReplies
    /\ kind' = k
    /\ attempt' = 1
    /\ answer' = << >>
    /\ NoFault
    /\ UNCHANGED <<fd, depth, outcome, missing, reply, asked, register, irqs>>

\* The rest of an attempt that was not a success: another one, or the end.
AnotherAttempt(n) == n <= MaxRetries

GiveUpOrRetry(n) ==
    /\ stage' = IF AnotherAttempt(n) THEN "send" ELSE "idle"
    /\ returned' = FALSE

\* A fresh call of Task::receive(): an array nothing initialises.
Fresh == reply' \in {Zeros, reply}

Send ==
    /\ stage = "send" /\ Connected
    /\ attempt' = attempt + 1
    /\ asked' = ("unplugged" \notin trouble)
    /\ depth' = 0
    /\ Fresh
    /\ Receive("opcode", 1)
    /\ NoFault
    /\ UNCHANGED <<fd, kind, triggering, returned, calls, queue, register, irqs, answer>>

\* Not connected, or not all bytes were written.
SendFails ==
    /\ stage = "send"
    /\ IF Connected THEN Fault("unsent") ELSE NoFault
    /\ attempt' = attempt + 1
    /\ GiveUpOrRetry(attempt')
    /\ UNCHANGED <<fd, kind, depth, outcome, missing, reading, reply, triggering, calls,
                   queue, board>>

\* What is done with the opcode.  Without one, or with one nobody expects, the
\* program ends: assert(false).  So it does at a second interrupt in one reply.
OpcodeReceived ==
    /\ Reached("opcode")
    /\ \/ /\ outcome = "all" /\ reply[1] = x.opcode /\ x.success > 1
          /\ Receive("rest", x.success - 1)
          /\ UNCHANGED returned
       \/ /\ outcome = "all" /\ reply[1] = x.opcode /\ x.success = 1
          /\ Return(TRUE)
          /\ UNCHANGED <<outcome, missing, reading>>
       \/ /\ outcome = "all" /\ reply[1] = NACK /\ x.error > 1
          /\ Receive("error", x.error - 1)
          /\ UNCHANGED returned
       \/ /\ outcome = "all" /\ reply[1] = NACK /\ x.error = 1
          /\ GiveUpOrRetry(attempt)
          /\ UNCHANGED <<outcome, missing, reading>>
       \/ /\ outcome = "all" /\ reply[1] = INTERRUPT /\ depth < 1
          /\ Receive("core", 2)
          /\ UNCHANGED returned
       \/ /\ outcome = "short" \/ reply[1] \notin {x.opcode, NACK, INTERRUPT}
                \/ (reply[1] = INTERRUPT /\ depth = 1)
          /\ Aborted
          /\ UNCHANGED <<outcome, missing, reading>>
    /\ NoFault
    /\ UNCHANGED <<fd, kind, attempt, depth, reply, triggering, calls, queue, board>>

\* The checksum is looked at whether the bytes were received or not.
RestReceived ==
    /\ Reached("rest")
    /\ IF SuccessChecksumIsCorrect(x, reply) THEN Return(TRUE) ELSE GiveUpOrRetry(attempt)
    /\ NoFault
    /\ UNCHANGED <<fd, kind, attempt, depth, outcome, missing, reading, reply, triggering,
                   calls, queue, board>>

\* A refusal is an error with the right checksum or another one with the wrong:
\* both are tried again.
ErrorReceived ==
    /\ Reached("error")
    /\ GiveUpOrRetry(attempt)
    /\ NoFault
    /\ UNCHANGED <<fd, kind, attempt, depth, outcome, missing, reading, reply, triggering,
                   calls, queue, board>>

\* The triggering core is noted if it was received and its copy agrees; then the
\* reply itself is received, in another array.
CoreReceived ==
    /\ Reached("core")
    /\ triggering' = IF outcome = "all" /\ reply[2] = reply[3] THEN reply[2] ELSE triggering
    /\ depth' = depth + 1
    /\ Fresh
    /\ Receive("opcode", 1)
    /\ NoFault
    /\ UNCHANGED <<fd, kind, attempt, returned, calls, queue, board>>

Host == TakeBytes \/ TimeOut \/ Send \/ SendFails \/ OpcodeReceived \/ RestReceived
            \/ ErrorReceived \/ CoreReceived

-----------------------------------------------------------------------------
(* The board and the line.                                                 *)

Soc == {"ReadRegister", "ReadMulti", "ReadIncrement", "WriteRegister", "WriteMulti",
        "WriteIncrement", "InterruptEnable", "SelectMcu"}

WithParity(bytes, from) == Append(bytes, XorParity(bytes, from, Len(bytes)))

\* The reply of an exchange that was carried out.  An id comes first in the SoC's.
DataBytes == [ReadRegister |-> 1, ReadMulti |-> 2, ReadIncrement |-> 1]

Content(n) == [i \in 1 .. n |-> register']

SuccessFrame ==
    CASE kind \in DOMAIN DataBytes ->
            WithParity(<< x.opcode, {} >> \o Content(DataBytes[kind]), 1)
      [] kind \in Soc \ DOMAIN DataBytes -> WithParity(<< ACK, {} >>, 1)
      [] kind = "SerialRead" -> WithParity(<< x.opcode >> \o Content(4), 1)
      [] kind = "StatusRead" -> WithParity(<< x.opcode >> \o Content(11), 2)
      [] OTHER -> << ACK >>

ErrorFrame == IF kind \in Soc THEN WithParity(<< NACK, {}, {1} >>, 1) ELSE << NACK >>

InterruptFrame == << INTERRUPT, Core, Core >>

\* The line: one byte behind the opcode is damaged, or the opcode is, or the end of
\* the frame is lost.
Carried(frame) ==
    \/ queue' = queue \o frame /\ NoFault
    \/ /\ Fault("damaged")
       /\ \E i \in 2 .. Len(frame), byte \in Values \cup {ACK} :
            byte # frame[i] /\ queue' = queue \o [frame EXCEPT ![i] = byte]
    \/ /\ Fault("opcode")
       /\ \E byte \in {ACK, NACK, INTERRUPT, {7}} \ {frame[1]} :
            queue' = queue \o [frame EXCEPT ![1] = byte]
    \/ /\ Fault("cut")
       /\ \E n \in 1 .. Len(frame) - 1 : queue' = queue \o SubSeq(frame, 1, n)

\* The request is carried out and answered.
Answer ==
    /\ asked
    /\ asked' = FALSE
    /\ register' \in IF kind \in {"WriteRegister", "WriteMulti", "WriteIncrement"}
                     THEN Values ELSE {register}
    /\ irqs' = (irqs \/ kind = "InterruptEnable")
    /\ answer' = SuccessFrame
    /\ Carried(SuccessFrame)
    /\ UNCHANGED host

\* The request is refused, for its checksum or for what it asks.
Refuse ==
    /\ asked
    /\ asked' = FALSE
    /\ Fault("refused")
    /\ queue' = queue \o ErrorFrame
    /\ UNCHANGED <<host, register, irqs, answer>>

\* The request or its reply is lost.
Lose ==
    /\ asked
    /\ asked' = FALSE
    /\ Fault("lost")
    /\ UNCHANGED <<host, queue, register, irqs, answer>>

\* A core triggers its interrupt.
RaiseInterrupt ==
    /\ irqs /\ Connected /\ "unplugged" \notin trouble
    /\ irqs' = FALSE
    /\ Carried(InterruptFrame)
    /\ UNCHANGED <<host, asked, register, answer>>

Board == Answer \/ Refuse \/ Lose

-----------------------------------------------------------------------------

Next ==
    \/ OpenDevice \/ CloseDevice \/ Unplug
    \/ \E k \in Kinds : DoSyncTask(k)
    \/ Host \/ Board \/ RaiseInterrupt

\* The host goes on, and the board answers what it was asked.
Spec == Init /\ [][Next]_vars /\ WF_vars(Host) /\ WF_vars(Board)

-----------------------------------------------------------------------------
(* Properties.                                                             *)

Mild == {"damaged", "refused", "unsent"}

\* While each frame has its length and its opcode, host and board stay in step:
\* nothing but an interrupt is left in the queue when an exchange is over, and no
\* assertion ends the program, whatever is damaged, refused and retried and whenever
\* interrupts come (task.cc:124-218, taskexecutor.cc:86, 324-376); but for one: an
\* interrupt that was damaged, so that its copies of the core differ, ends the program
\* if it is left in the queue until the next exchange begins (taskexecutor.cc:361-366),
\* while one that comes within an exchange is passed over.
InStep ==
    trouble \subseteq Mild =>
        /\ stage = "aborted" => Len(reading) = 2 /\ reading[1] # reading[2]
        /\ stage = "idle" => \/ queue = << >>
                             \/ Len(queue) = Len(InterruptFrame) /\ queue[1] = INTERRUPT

\* Then doSyncTask() returns true only if the board has carried out this exchange,
\* and hands over the bytes the board has sent for it, though one byte of every
\* reply be damaged (taskexecutor.cc:93-144, the checksums of the exchanges).
SuccessIsOwn ==
    trouble \subseteq Mild /\ stage = "idle" /\ returned =>
        /\ answer # << >>
        /\ \A i \in x.result : reply[i] = answer[i]

\* doSyncTask() returns or ends the program, whatever the line does; but not once
\* the device is unplugged (serialconnection.cc:243-274).
Returns ==
    stage # "idle" ~> stage \in {"idle", "aborted"} \/ "unplugged" \in trouble

=============================================================================
