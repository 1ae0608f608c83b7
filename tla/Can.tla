--------------------------------- MODULE Can ---------------------------------
(***************************************************************************)
(* The Can core, an SJA1000 in synchronous mode.  Its filter and its bit   *)
(* timing can be written in reset mode only, its transmit buffer only in   *)
(* operation mode while it is not locked.  Frames come in meanwhile.       *)
(***************************************************************************)
EXTENDS Integers, Sequences

CONSTANTS
    Identifiers,  \* identifiers in use: the upper eight bits and the lower three,
                  \* as the bytes of a descriptor hold them
    Masks,        \* acceptance masks the program sets
    Bitrates,     \* bit rates and usage modes it asks for
    UsageModes,
    MaxCalls, MaxFaults,
    MaxArrivals   \* bound: frames that come in

VARIABLES core, members, call, todo, buffer, kept, success, ok, before, trouble,
          calls, faults

\* _registerMap.  The two modes of the controller give most addresses other names;
\* the byte i of a buffer is at its first address + i.
Address == [BM_CONTROL |-> 0,           EM_MODE |-> 0,
            BM_COMMAND |-> 1,           EM_COMMAND |-> 1,
            BM_STATUS |-> 2,            EM_STATUS |-> 2,
            BM_INTERRUPT |-> 3,         EM_INTERRUPT |-> 3,
            BM_ACCEPTANCE_CODE |-> 4,   EM_INTERRUPT_ENABLE |-> 4,
            BM_ACCEPTANCE_MASK |-> 5,
            BM_BUS_TIMING_0 |-> 6,      EM_BUS_TIMING_0 |-> 6,
            BM_BUS_TIMING_1 |-> 7,      EM_BUS_TIMING_1 |-> 7,
            BM_TX_IDENTIFIER_1 |-> 10,  EM_FRAME_INFORMATION |-> 16,
            BM_RX_IDENTIFIER_1 |-> 20,  EM_DATA_2 |-> 20,
            BM_CLOCK_DIVIDER |-> 31,    EM_CLOCK_DIVIDER |-> 31]

-----------------------------------------------------------------------------
(* The core in basic mode, the one it is in while bit 7 of its clock       *)
(* divider is 0.  "locked" says that the transmit buffer is being sent,    *)
(* "sent" is the descriptor of the frame it took last, and "fifo" holds    *)
(* the identifiers received.                                               *)

Operating(c) == 0 \notin c.reg[0]

Status(c) == (IF c.fifo # << >> THEN {0} ELSE {}) \cup (IF c.locked THEN {} ELSE {2})

Value(c, a) ==
    CASE a = 1 -> 0 .. 7
      [] a = 2 -> Status(c)
      [] a = 3 -> c.pending
      [] a = 20 -> IF c.fifo = << >> THEN {} ELSE Head(c.fifo)[1]
      [] a \in {0, 4, 5, 6, 7, 31} -> c.reg[a]
      [] OTHER -> {}

AfterRead(c, a) == IF a = 3 THEN [c EXCEPT !.pending = {}] ELSE c

Command(c, v) ==
    LET taken == 0 \in v /\ Operating(c) /\ ~c.locked
    IN  [c EXCEPT !.sent   = IF taken THEN <<c.tx[0], c.tx[1]>> ELSE @,
                  !.locked = @ \/ taken,
                  !.fifo   = IF 2 \in v /\ @ # << >> THEN Tail(@) ELSE @,
                  !.asleep = 4 \in v]

AfterWrite(c, a, v) ==
    CASE a = 1 -> Command(c, v)
      [] a \in {0, 31} -> [c EXCEPT !.reg[a] = v]
      [] a \in 4 .. 7 -> IF Operating(c) THEN c ELSE [c EXCEPT !.reg[a] = v]
      [] a \in 10 .. 19 ->
            IF Operating(c) /\ ~c.locked THEN [c EXCEPT !.tx[a - 10] = v] ELSE c
      [] OTHER -> c

Reset == [reg |-> [a \in {0, 4, 5, 6, 7, 31} |->
                        IF a = 0 THEN {0} ELSE IF a = 5 THEN 0 .. 7 ELSE {}],
          tx |-> [i \in 0 .. 9 |-> {}], locked |-> FALSE, sent |-> << >>,
          fifo |-> << >>, pending |-> {}, asleep |-> FALSE, arrivals |-> 0]

INSTANCE SyncRegisters

\* The interrupts a controller in this state may raise, out of those in "is".
Raised(c, is) == { i \in is : i + 1 \in c.reg[0] }

\* The frame in the transmit buffer has been sent.
Sent == /\ core.locked
        /\ CoreStep([core EXCEPT !.locked = FALSE, !.pending = @ \cup Raised(core, {1})])

\* A frame comes in; the filter compares its upper bits with the code.
Accepts(c, high) == (high \cup c.reg[4]) \ (high \cap c.reg[4]) \subseteq c.reg[5]

Arrive(id) ==
    /\ core.arrivals < MaxArrivals
    /\ Operating(core) /\ Accepts(core, id[1])
    /\ CoreStep([core EXCEPT !.arrivals = @ + 1, !.asleep = FALSE,
                             !.fifo = Append(@, id),
                             !.pending = @ \cup Raised(core, {0})])

-----------------------------------------------------------------------------
(* Operations.  members is _mode.                                          *)

USAGE_MODE == {"BASIC_MODE", "EXTENDEND_MODE"}

\* The register with this name in the mode of the object.
InMode(mode, basic, extended) == Address[IF mode = "BASIC_MODE" THEN basic ELSE extended]

\* An operation that returns false at once while no mode is set.
InUsageMode(op, steps) ==
    IF members \in USAGE_MODE THEN Start(op, steps) ELSE Refuse(op)

EnterResetMode(mode)     == ChangeBit(InMode(mode, "BM_CONTROL", "EM_MODE"), 0, TRUE)
EnterOperationMode(mode) == ChangeBit(InMode(mode, "BM_CONTROL", "EM_MODE"), 0, FALSE)

ByteBits(n) == { i \in Bits : (n \div 2 ^ i) % 2 = 1 }

\* The second register is not written if the first could not be.
SetBusTiming(mode, prescaler, jumpWidth, segment1, segment2) ==
    << [Write(InMode(mode, "BM_BUS_TIMING_0", "EM_BUS_TIMING_0"),
              ByteBits(64 * jumpWidth + ((prescaler - 1) % 64))) EXCEPT !.fail = "skip"],
       Write(InMode(mode, "BM_BUS_TIMING_1", "EM_BUS_TIMING_1"),
              ByteBits(16 * segment2 + segment1)) >>

BITRATE == [BITRATE_125K |-> 32, BITRATE_250K |-> 16, BITRATE_1M |-> 4]

\* The clock divider's bit 7 is cleared for both modes.  If anything failed the
\* mode is undefined again; an unknown mode stays in the object.
Initialize(bitrate, mode) ==
    LET op == [op |-> "init", bitrate |-> bitrate, mode |-> mode]
    IN  IF bitrate \notin DOMAIN BITRATE THEN Refuse(op)
        ELSE IF mode \notin USAGE_MODE THEN Start(op, << Assign(mode), ReturnFalse >>)
        ELSE Start(op,
                << Assign(mode) >> \o EnterResetMode(mode)
                \o ChangeBit(InMode(mode, "BM_CLOCK_DIVIDER", "EM_CLOCK_DIVIDER"), 7, FALSE)
                \o SetBusTiming(mode, BITRATE[bitrate], 2, 5, 2)
                \o (IF mode = "BASIC_MODE" THEN << >>
                    ELSE ChangeBit(Address["EM_MODE"], 3, TRUE))
                \o EnterOperationMode(mode)
                \o << AssignIfFailed("UNDEFINED") >>)

INTERRUPT == [RECEIVE |-> 0, TRANSMIT |-> 1, ERROR |-> 2, DATA_OVERRUN |-> 3, WAKE_UP |-> 4,
              ERROR_PASSIVE |-> 5, ARBITRATION_LOST |-> 6, BUS_ERROR |-> 7]

\* In basic mode the bits are in the control register, after the one for reset.
InterruptSteps(mode, bit, on) ==
    IF mode # "BASIC_MODE" THEN ChangeBit(Address["EM_INTERRUPT_ENABLE"], bit, on)
    ELSE IF bit > 4 THEN << ReturnFalse >>
    ELSE ChangeBit(Address["BM_CONTROL"], bit + 1, on)

EnableInterrupt(i) ==
    InUsageMode([op |-> "enableInterrupt"], InterruptSteps(members, INTERRUPT[i], TRUE))

DisableInterrupt(i) ==
    InUsageMode([op |-> "disableInterrupt"], InterruptSteps(members, INTERRUPT[i], FALSE))

\* Five read-modify-writes, or one write.
AllInterrupts(on) ==
    LET each == [i \in 1 .. 5 |->
                    InterruptSteps("BASIC_MODE", << 0, 1, 2, 3, 4 >>[i], on)]
    IN  IF members = "BASIC_MODE"
        THEN each[1] \o each[2] \o each[3] \o each[4] \o each[5]
        ELSE << Write(Address["EM_INTERRUPT_ENABLE"], IF on THEN Bits ELSE {}) >>

EnableInterrupts  == InUsageMode([op |-> "enableInterrupts"], AllInterrupts(TRUE))
DisableInterrupts == InUsageMode([op |-> "disableInterrupts"], AllInterrupts(FALSE))

\* The read clears every interrupt; the lowest is reported.
IdentifyInterrupt ==
    InUsageMode([op |-> "identifyInterrupt"],
                << OrStop(Read(Address["BM_INTERRUPT"])), Require(Bits) >>)

\* The bytes of a standard frame: in extended mode the frame information comes
\* first.  The data are zero: the frame's constructor has not copied any.
FrameBytes(mode, id) ==
    (IF mode = "BASIC_MODE" THEN << >> ELSE << {} >>) \o id
    \o [i \in 1 .. (IF mode = "BASIC_MODE" THEN 8 ELSE 10) |-> {}]

\* Wait for the transmit buffer, fill it, and ask for its transmission, even if a
\* byte could not be written.
\* (mutant: the buffer is not waited for)
TransmitSteps_NoWait(mode, id) ==
    LET bytes == FrameBytes(mode, id)
        first == InMode(mode, "BM_TX_IDENTIFIER_1", "EM_FRAME_INFORMATION")
    IN  [i \in DOMAIN bytes |-> Write(first + i - 1, bytes[i])]
        \o << Write(Address["BM_COMMAND"], {0}) >>
TransmitSteps(mode, id) ==
    LET bytes == FrameBytes(mode, id)
        first == InMode(mode, "BM_TX_IDENTIFIER_1", "EM_FRAME_INFORMATION")
    IN  << [Poll(Address["BM_STATUS"], 2, TRUE) EXCEPT !.fail = "note"] >>
        \o [i \in DOMAIN bytes |-> Write(first + i - 1, bytes[i])]
        \o << Write(Address["BM_COMMAND"], {0}) >>

Transmit(id) ==
    InUsageMode([op |-> "transmit", id |-> id], TransmitSteps(members, id))

\* No frame is returned if there is none, or if the status could not be read.  The
\* receive buffer is released even if it could not be read.
\* (mutant: the buffer is released before it is read)
ReceiveSteps_ReleaseFirst(mode) ==
    << Read(Address["BM_STATUS"]), Require({0}),
       Write(Address["BM_COMMAND"], {2}), Fresh({}),
       Read(InMode(mode, "BM_RX_IDENTIFIER_1", "EM_FRAME_INFORMATION")) >>
ReceiveSteps(mode) ==
    << Read(Address["BM_STATUS"]), Require({0}), Fresh({}),
       Read(InMode(mode, "BM_RX_IDENTIFIER_1", "EM_FRAME_INFORMATION")),
       Write(Address["BM_COMMAND"], {2}) >>

GetReceivedFrame == InUsageMode([op |-> "getReceivedFrame"], ReceiveSteps(members))

\* In basic mode both write the bit that asks for sleep; in extended mode both
\* read the command register, which cannot be read, and write it back.
GoToSleep ==
    InUsageMode([op |-> "goToSleep"],
                IF members = "BASIC_MODE" THEN << Write(Address["BM_COMMAND"], {4}) >>
                ELSE ChangeBit(Address["EM_COMMAND"], 4, TRUE))
WakeUp ==
    InUsageMode([op |-> "wakeUp"],
                IF members = "BASIC_MODE" THEN << Write(Address["BM_COMMAND"], {4}) >>
                ELSE ChangeBit(Address["EM_COMMAND"], 4, FALSE))

\* A filter of eight bits, or of 29 in four bytes that are written at once.
\* (mutant: the controller is not put into reset mode)
FilterSteps_InOperation(mode, basic, extended, value) ==
    << Write(InMode(mode, basic, extended), value) >> \o EnterOperationMode(mode)
FilterSteps(mode, basic, extended, value) ==
    EnterResetMode(mode) \o << Write(InMode(mode, basic, extended), value) >>
    \o EnterOperationMode(mode)

SetAcceptanceCode(code) ==
    InUsageMode([op |-> "setAcceptanceCode", value |-> code],
        FilterSteps(members, "BM_ACCEPTANCE_CODE", "EM_FRAME_INFORMATION", code))

SetAcceptanceMask(mask) ==
    InUsageMode([op |-> "setAcceptanceMask", value |-> mask],
        FilterSteps(members, "BM_ACCEPTANCE_MASK", "EM_DATA_2", mask))

\* A code or mask that has too many bits.
SetAcceptanceRefused == Refuse([op |-> "setAcceptanceRefused"])

\* Does not look at the mode.
LogStatus == Start([op |-> "logStatus"], << OrStop(Read(Address["BM_STATUS"])) >>)

-----------------------------------------------------------------------------

Init == Begin(Reset, "UNDEFINED")

Call ==
    \/ \E bitrate \in Bitrates, mode \in UsageModes : Initialize(bitrate, mode)
    \/ \E i \in {"TRANSMIT", "BUS_ERROR"} : EnableInterrupt(i) \/ DisableInterrupt(i)
    \/ EnableInterrupts \/ DisableInterrupts \/ IdentifyInterrupt
    \/ \E id \in Identifiers : Transmit(id) \/ SetAcceptanceCode(id[1])
    \/ \E mask \in Masks : SetAcceptanceMask(mask)
    \/ SetAcceptanceRefused
    \/ GetReceivedFrame \/ GoToSleep \/ WakeUp \/ LogStatus

Next == Call \/ Host \/ Sent \/ \E id \in Identifiers : Arrive(id)

Spec == Init /\ [][Next]_vars

-----------------------------------------------------------------------------
(* Properties.                                                             *)

\* In basic mode and out of reset mode, transmit() returns true only if the
\* controller has taken its frame, not one that was in the buffer before, nor a
\* mixture of the two (can.cc:457-545).
OwnFrameTaken ==
    ReturnsTrue /\ call.op = "transmit" /\ members = "BASIC_MODE" /\ Operating(core)
            => core'.sent = call.id

\* In basic mode the receive buffer is released with the frame that was read from
\* it, although others come in; but after an exchange that failed or was made
\* twice (can.cc:547-655).
ReleasesWhatWasRead ==
    Len(core'.fifo) < Len(core.fifo) /\ members = "BASIC_MODE" /\ trouble' = {}
            => call.op = "getReceivedFrame" /\ buffer = Head(core.fifo)[1]

\* In basic mode setAcceptanceCode() and setAcceptanceMask() return true only if
\* the filter has the new value and the controller takes part in the bus again
\* (can.cc:685-775).
FilterSet ==
    todo = << >> /\ ok /\ members = "BASIC_MODE" =>
        /\ call.op = "setAcceptanceCode" => core.reg[4] = call.value /\ Operating(core)
        /\ call.op = "setAcceptanceMask" => core.reg[5] = call.value /\ Operating(core)
=============================================================================
