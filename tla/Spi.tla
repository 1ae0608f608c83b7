--------------------------------- MODULE Spi ---------------------------------
(***************************************************************************)
(* The Spi core.  Each byte sent shifts one in, so bytes that are only     *)
(* sent leave others behind in the receive FIFO, a ring of four places.    *)
(* The driver counts them and reads them before the next byte it wants.    *)
(***************************************************************************)
EXTENDS Integers, Sequences

CONSTANTS
    Modes,    \* modes and speeds the program asks for
    Speeds,
    Lengths,  \* lengths of the buffers it transmits
    Again,    \* whether it calls init() after it has transmitted
    MaxCalls, MaxFaults

VARIABLES core, members, call, todo, buffer, kept, success, ok, before, trouble,
          calls, faults

-----------------------------------------------------------------------------
(* The core.  A place of the ring is 0 or the number of the transmission   *)
(* whose byte it holds; "full" tells a full ring from an empty one,        *)
(* "early" notes that it was read while a byte was still to come in, and   *)
(* "lost" that a byte was written to the full transmit FIFO.               *)

FIFO == 4

Empty(c)  == c.wp = c.rp /\ ~c.full
Status(c) == (IF Empty(c) THEN {0} ELSE {}) \cup (IF c.out = << >> THEN {2} ELSE {})
                \cup (IF Len(c.out) = FIFO THEN {3} ELSE {})

Value(c, r) == CASE r = "SPSR" -> Status(c)
                 [] r = "SPDR" -> {c.ring[c.rp]}
                 [] OTHER -> c[r]

AfterRead(c, r) ==
    IF r = "SPDR"
    THEN [c EXCEPT !.rp = (@ + 1) % FIFO, !.full = FALSE, !.early = @ \/ c.out # << >>]
    ELSE c

Cleared(c) == [c EXCEPT !.out = << >>, !.wp = 0, !.rp = 0, !.full = FALSE]

\* v bytes are written at once; those for which there is no room are lost.
Filled(c, v) ==
    LET room == FIFO - Len(c.out)
        n    == IF v <= room THEN v ELSE room
    IN  [c EXCEPT !.out  = @ \o [i \in 1 .. n |-> c.sent + i],
                  !.sent = @ + n,
                  !.lost = @ \/ v > room]

\* Disabling the core clears the FIFOs.
AfterWrite(c, r, v) ==
    CASE r = "SPDR" -> IF 6 \in c.SPCR THEN Filled(c, v) ELSE c
      [] r = "SPCR" -> IF 6 \in v THEN [c EXCEPT !.SPCR = v]
                                  ELSE Cleared([c EXCEPT !.SPCR = v])
      [] r = "SPER" -> [c EXCEPT !.SPER = v]

\* A byte has been shifted out and one in.
Shifted(c) ==
    [c EXCEPT !.out  = Tail(@),
              !.ring = [@ EXCEPT ![c.wp] = Head(c.out)],
              !.wp   = (@ + 1) % FIFO,
              !.full = @ \/ (c.wp + 1) % FIFO = c.rp]

Reset == [SPCR |-> {4}, SPER |-> {}, out |-> << >>, sent |-> 0,
          ring |-> [i \in 0 .. FIFO - 1 |-> 0], wp |-> 0, rp |-> 0, full |-> FALSE,
          early |-> FALSE, lost |-> FALSE]

INSTANCE SyncRegisters

Shift == core.out # << >> /\ CoreStep(Shifted(core))

-----------------------------------------------------------------------------
(* Operations.  members is _transmittedOnly.                               *)

Byte(n) == n % 256

\* Clock polarity and phase.
SPI_MODE == [MODE_0 |-> [cpol |-> FALSE, cpha |-> FALSE],
             MODE_1 |-> [cpol |-> FALSE, cpha |-> TRUE],
             MODE_2 |-> [cpol |-> TRUE,  cpha |-> FALSE],
             MODE_3 |-> [cpol |-> TRUE,  cpha |-> TRUE]]

\* The two low bits of SPCR and SPER.
CLOCK_SPEED ==
    [SCK_40_MHZ    |-> <<{}, {}>>,      SCK_20_MHZ    |-> <<{0}, {}>>,
     SCK_10_MHZ    |-> <<{}, {0}>>,     SCK_5_MHZ     |-> <<{1}, {}>>,
     SCK_2500_KHZ  |-> <<{0, 1}, {}>>,  SCK_1250_KHZ  |-> <<{0}, {0}>>,
     SCK_625_KHZ   |-> <<{1}, {0}>>,    SCK_312500_HZ |-> <<{0, 1}, {0}>>,
     SCK_156250_HZ |-> <<{}, {1}>>,     SCK_78125_HZ  |-> <<{0}, {1}>>,
     SCK_39063_HZ  |-> <<{1}, {1}>>,    SCK_19531_HZ  |-> <<{0, 1}, {1}>>]

EnableCore  == ChangeBit("SPCR", 6, TRUE)
DisableCore == ChangeBit("SPCR", 6, FALSE)

Initialize(mode, speed) ==
    LET m == SPI_MODE[mode]
        s == CLOCK_SPEED[speed]
    IN  /\ Again \/ members = 0
        /\ Start([op |-> "init", mode |-> mode, speed |-> speed],
                 DisableCore
                 \o ChangeBit("SPCR", 2, m.cpha) \o ChangeBit("SPCR", 3, m.cpol)
                 \o ChangeBit("SPCR", 0, 0 \in s[1]) \o ChangeBit("SPCR", 1, 1 \in s[1])
                 \o ChangeBit("SPER", 0, 0 \in s[2]) \o ChangeBit("SPER", 1, 1 \in s[2])
                 \o EnableCore)

\* A mode or a speed that is none of the enumerations' values.
InitializeRefused == Refuse([op |-> "init", mode |-> "none", speed |-> "none"])

\* How many bytes are left behind: the ring holds four, so the count is taken
\* modulo four.
DummyReads(transmittedOnly) == transmittedOnly % 4

\* Every access ends the operation if it fails; the count is reset only after all
\* dummy reads.
\* (mutants: the count is not reset, the receive FIFO is not waited for)
TransceiveSteps_CountKept(transmittedOnly) ==
    [i \in 1 .. DummyReads(transmittedOnly) |-> OrStop(Read("SPDR"))]
    \o << OrStop(Write("SPDR", 1)), Poll("SPSR", 0, FALSE), OrStop(Read("SPDR")) >>
TransceiveSteps_NoWait(transmittedOnly) ==
    [i \in 1 .. DummyReads(transmittedOnly) |-> OrStop(Read("SPDR"))]
    \o << Assign(0), OrStop(Write("SPDR", 1)), OrStop(Read("SPDR")) >>
TransceiveSteps(transmittedOnly) ==
    [i \in 1 .. DummyReads(transmittedOnly) |-> OrStop(Read("SPDR"))]
    \o << Assign(0), OrStop(Write("SPDR", 1)), Poll("SPSR", 0, FALSE),
          OrStop(Read("SPDR")) >>

Transceive(op) ==
    Start([op |-> op, transmittedOnly |-> members], TransceiveSteps(members))

TransmitByte ==
    Start([op |-> "transmit"], << OrStop(Write("SPDR", 1)), Assign(Byte(members + 1)) >>)

\* Packets of four, whatever is left of the buffer.  isWriteFifoEmpty() takes a
\* status it could not read for an empty FIFO.
PacketSteps(transmitted) ==
    << Ignoring(Poll("SPSR", 2, TRUE)), OrStop(Write("SPDR", 4)),
       Loop(Byte(transmitted + 4)) >>

Transmit(length) ==
    Start([op |-> "transmitBuffer", length |-> length],
          IF length > 0 THEN PacketSteps(0) ELSE << >>)

\* The loop's counters have eight bits.
\* (mutant: the last packet is left out)
MorePackets_OneLess(transmitted) == transmitted + 4 < call.length
MorePackets(transmitted) == transmitted < call.length

NextPacket ==
    /\ todo # << >> /\ Access.act = "loop"
    /\ members' = Byte(members + 4)
    /\ todo' = IF MorePackets(Access.n) THEN PacketSteps(Access.n) ELSE << >>
    /\ UNCHANGED <<core, call, buffer, kept, success, ok, before, trouble, calls, faults>>

\* The count is reset if nothing failed.
ResetBuffers ==
    Start([op |-> "resetBuffers"], DisableCore \o EnableCore \o << Check, Assign(0) >>)

-----------------------------------------------------------------------------

Init == Begin(Reset, 0)

Call ==
    \/ \E mode \in Modes, speed \in Speeds : Initialize(mode, speed)
    \/ InitializeRefused
    \/ Transceive("transceive") \/ Transceive("receive")
    \/ TransmitByte
    \/ \E length \in Lengths : Transmit(length)
    \/ ResetBuffers

Next == Call \/ Host \/ NextPacket \/ Shift

Spec == Init /\ [][Next]_vars

-----------------------------------------------------------------------------
(* Properties.                                                             *)

\* The receive FIFO is not read while a byte is still to come in: the loop waits
\* for it (spi.cc:254-307).  Not so if a byte sent before is still on its way when
\* the operation is called, nor if the bytes sent before have filled the ring and
\* are a multiple of four: none is read, and the loop finds it not empty.  Nor if an
\* operation failed, an exchange was repeated or a byte was lost before.
WaitsForByte ==
    ~core.early /\ core'.early /\ trouble' = {} /\ ~core'.lost =>
            \/ before.out # << >>
            \/ before.full /\ call.transmittedOnly % 4 = 0

\* transceive() and receive() return the byte that came in for the one they sent,
\* although older bytes are in the ring (spi.h, _transmittedOnly) or still on their
\* way when they are called, unless they, or an operation before, have read the
\* FIFO too early, or an operation failed, an exchange was repeated or a byte lost.
OwnByte ==
    ReturnsTrue /\ call.op \in {"transceive", "receive"}
            /\ trouble' = {} /\ ~core'.early /\ ~core'.lost => buffer' = {core.sent}

\* transceive() hands over "the received byte" (spi.h:326-341).
ReceivedByte == ReturnsTrue /\ call.op = "transceive" /\ trouble' = {} => buffer' = {core.sent}

\* A buffer is sent in packets of four, the last one filled up with the bytes behind
\* the buffer: true means that all of them went to the core, and none is lost though
\* bytes are on their way (spi.cc:334-370).
BufferSent ==
    ReturnsTrue /\ call.op = "transmitBuffer" /\ 6 \in core.SPCR /\ trouble' = {}
            => /\ core.sent - before.sent = 4 * ((call.length + 3) \div 4)
               /\ core.lost = before.lost

\* Length is the "number of bytes to send" (spi.h:353-363).
LengthSent ==
    ReturnsTrue /\ call.op = "transmitBuffer" /\ 6 \in core.SPCR /\ trouble' = {}
            => core.sent - before.sent = call.length
=============================================================================
