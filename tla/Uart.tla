-------------------------------- MODULE Uart ---------------------------------
(***************************************************************************)
(* The Uart core in synchronous mode: its registers are those of           *)
(* UartRegisters.                                                          *)
(***************************************************************************)
EXTENDS UartRegisters

CONSTANTS
    Lines,      \* settings of the line the program asks for
    Baudrates,  \* baud rates it asks for
    Bytes,      \* bytes it transmits, as sets of bits
    MaxCalls, MaxFaults,
    MaxArrivals \* bound: bytes that come in

VARIABLES core, members, call, todo, buffer, kept, success, ok, before, trouble,
          calls, faults

INSTANCE SyncRegisters

\* A byte comes in.
Arrive ==
    /\ core.arrivals < MaxArrivals
    /\ CoreStep([core EXCEPT !.arrivals = @ + 1, !.received = @ + 1])

-----------------------------------------------------------------------------
(* Operations.                                                             *)

WordBits   == [C5 |-> {}, C6 |-> {0}, C7 |-> {1}, C8 |-> {0, 1}]
StopBits   == [ONE_BIT |-> {}, TWO_BITS |-> {2}]
ParityBits == [NO_PARITY |-> {}, ODD_PARITY |-> {3}, EVEN_PARITY |-> {3, 4}]

\* Arguments that are none of the enumerations' values are refused.
Legal(line) == /\ line.wLength \in DOMAIN WordBits
               /\ line.stopBits \in DOMAIN StopBits
               /\ line.parity \in DOMAIN ParityBits

LcrContent(line) ==
    WordBits[line.wLength] \cup StopBits[line.stopBits] \cup ParityBits[line.parity]

\* Open the latch, write the divisor, close the latch.  Whether LCR could be
\* read is not looked at.
\* (mutants: the latch stays open; it is closed by clearing LCR)
BaudrateSteps_LcrCleared(baudrate) ==
    IF ~Sane(baudrate) THEN << Die >>
    ELSE << Ignoring(Read("LCR")), WriteBack("LCR", {7}, {}),
            Write("DLL", Low(baudrate)), Write("DLM", High(baudrate)), Write("LCR", {}) >>
BaudrateSteps_LatchStaysOpen(baudrate) ==
    IF ~Sane(baudrate) THEN << Die >>
    ELSE << Ignoring(Read("LCR")), WriteBack("LCR", {7}, {}),
            Write("DLL", Low(baudrate)), Write("DLM", High(baudrate)) >>
BaudrateSteps(baudrate) ==
    IF ~Sane(baudrate) THEN << Die >>
    ELSE << Ignoring(Read("LCR")), WriteBack("LCR", {7}, {}),
            Write("DLL", Low(baudrate)), Write("DLM", High(baudrate)),
            WriteBack("LCR", {}, {7}) >>

Modify(r, on, off) == << Read(r), WriteBack(r, on, off) >>

\* Each part ends the initialisation if it fails; setBaudrate() has gone to its
\* end before init() sees that it failed.
Initialize(line, baudrate) ==
    /\ Legal(line)
    /\ Start([op |-> "init", line |-> line, baudrate |-> baudrate],
             << OrStop(Write("LCR", LcrContent(line))) >>
             \o BaudrateSteps(baudrate)
             \o << Check,
                   OrStop(Read("LCR")), OrStop(WriteBack("LCR", {7}, {})),
                   OrStop(Write("FCR", {0, 5})),
                   OrStop(WriteBack("LCR", {}, {7})) >>
             \o << Fresh({}) >> \o Modify("IER", {}, {INTERRUPT["TX_EMPTY"]}))

InitializeRefused(line, baudrate) ==
    /\ ~Legal(line)
    /\ Refuse([op |-> "init", line |-> line, baudrate |-> baudrate])

SetBaudrate(baudrate) ==
    Start([op |-> "setBaudrate", baudrate |-> baudrate], BaudrateSteps(baudrate))

\* No case of the switch has a break: every level becomes 56, and false is
\* returned before FCR is written.
RxTriggerSteps == << Assign(56), ReturnFalse >>

SetRxTriggerLevel(level) ==
    Start([op |-> "setRxTriggerLevel", level |-> level], RxTriggerSteps)

EnableAutoHardwareFlowControl ==
    Start([op |-> "enableAutoHardwareFlowControl"], Modify("MCR", {1, 5}, {}))

EnableInterrupts == Start([op |-> "enableInterrupts"], << Write("IER", 0 .. 4) >>)

EnableInterrupt(i) ==
    Start([op |-> "enableInterrupt", interrupt |-> i], Modify("IER", {INTERRUPT[i]}, {}))

DisableInterrupts == Start([op |-> "disableInterrupts"], << Write("IER", {}) >>)

DisableInterrupt(i) ==
    Start([op |-> "disableInterrupt", interrupt |-> i], Modify("IER", {}, {INTERRUPT[i]}))

\* Returns true for every known value of the buffer, read or not.
IdentifySteps == << Ignoring(Read("IIR")), Exclude({0}) >>

IdentifyInterrupt == Start([op |-> "identifyInterrupt"], IdentifySteps)

Transmit(b) == Start([op |-> "transmit", byte |-> b], << Write("TX", b) >>)

ReceiveByte == Start([op |-> "receive"], << Read("RX") >>)

ClearBuffers ==
    Start([op |-> "clearBuffers"], << Write("FCR", {0, 1, 2}) >> \o RxTriggerSteps)

SetAuxiliaryOutput(bit, level) ==
    Start([op |-> "setAuxiliaryOutput", bit |-> bit, level |-> level],
          Modify("MCR", IF level THEN {bit} ELSE {}, IF level THEN {} ELSE {bit}))

\* transmit() and receive() of several bytes are not implemented.
NotImplemented == Refuse([op |-> "notImplemented"])

-----------------------------------------------------------------------------

Init == Begin(Reset, 1)

Call ==
    \/ \E line \in Lines, baudrate \in Baudrates :
            Initialize(line, baudrate) \/ InitializeRefused(line, baudrate)
    \/ \E baudrate \in Baudrates : SetBaudrate(baudrate)
    \/ \E level \in {1, 16, 32, 56} : SetRxTriggerLevel(level)
    \/ \E i \in DOMAIN INTERRUPT : EnableInterrupt(i) \/ DisableInterrupt(i)
    \/ EnableInterrupts \/ DisableInterrupts \/ IdentifyInterrupt
    \/ EnableAutoHardwareFlowControl
    \/ \E bit \in {2, 3}, level \in BOOLEAN : SetAuxiliaryOutput(bit, level)
    \/ \E b \in Bytes : Transmit(b)
    \/ ReceiveByte \/ ClearBuffers \/ NotImplemented

Next == Call \/ Host \/ Arrive

Spec == Init /\ [][Next]_vars

-----------------------------------------------------------------------------
(* Properties.                                                             *)

\* init() returns true only if the line has the word length, stop bits, parity
\* and divisor asked for, the latch is closed, the FIFOs are long and the transmit
\* interrupt is off (uart.h, "true if all settings could be successfully set").
SettingsHonoured ==
    todo = << >> /\ ok /\ call.op = "init" =>
        /\ core.LCR = LcrContent(call.line)
        /\ core.DLL = Low(call.baudrate) /\ core.DLM = High(call.baudrate)
        /\ core.longFifo
        /\ INTERRUPT["TX_EMPTY"] \notin core.IER

\* The same, unless a read of LCR whose result is not looked at has failed.
SettingsHonouredIfRead == "ignored" \notin trouble => SettingsHonoured

\* Only init() and setBaudrate() change the divisor: bytes and interrupt masks of
\* other calls never fall into the latch, unless an operation has failed between
\* opening and closing it (uart.cc:183-200, 241-258).
DivisorKept ==
    core'.DLL # core.DLL \/ core'.DLM # core.DLM =>
            call.op \in {"init", "setBaudrate"} \/ "failed" \in trouble
=============================================================================
