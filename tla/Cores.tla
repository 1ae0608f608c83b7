-------------------------------- MODULE Cores --------------------------------
(***************************************************************************)
(* All easyCores in synchronous mode: the initial state says which of them *)
(* the program uses.                                                       *)
(***************************************************************************)
EXTENDS Integers, Sequences

CONSTANTS
    Kinds,       \* the cores to check
    Pins,        \* what the program uses of Gpio8, ...
    Lines,       \* ... of Uart, ...
    Baudrates,
    Bytes,
    Modes,       \* ... of Spi, ...
    Speeds,
    Lengths,
    Again,
    Devices,     \* ... of I2c, ...
    Slave,
    Registers,
    Data,
    Identifiers, \* ... of Can, ...
    Masks,
    Bitrates,
    UsageModes,
    Duties,      \* ... and of Pwm: see their modules
    Percentages,
    Divisors,
    Calls,       \* bound: operations called
    MaxFaults,   \* bound: exchanges that do not go smoothly
    MaxEdges,    \* bound: changes of an input pin
    MaxBytes,    \* bound: bytes that come in
    MaxFrames    \* bound: frames that come in

\* Identifiers and masks are bytes, an identifier has two; the length of a buffer is
\* a byte as well.  The address of an I2C slave has seven bits.
ASSUME CoresAssumption ==
    /\ Lengths \subseteq 0 .. 255
    /\ Slave \in 0 .. 127
    /\ Identifiers \subseteq (SUBSET (0 .. 7)) \X (SUBSET (0 .. 7))
    /\ Masks \subseteq SUBSET (0 .. 7)

VARIABLES kind, core, members, call, todo, buffer, kept, success, ok, before, trouble,
          calls, faults

vars == <<kind, core, members, call, todo, buffer, kept, success, ok, before, trouble,
          calls, faults>>

Gpio == INSTANCE Gpio8 WITH MaxCalls <- Calls
Ser  == INSTANCE Uart WITH MaxCalls <- Calls, MaxArrivals <- MaxBytes
Bus  == INSTANCE Spi WITH MaxCalls <- Calls + 1
Two  == INSTANCE I2c WITH MaxCalls <- Calls - 1
Net  == INSTANCE Can WITH MaxCalls <- Calls, MaxArrivals <- MaxFrames
Duty == INSTANCE Pwm WITH MaxCalls <- Calls

Init ==
    /\ kind \in Kinds
    /\ \/ kind = "gpio8" /\ Gpio!Init
       \/ kind = "uart" /\ Ser!Init
       \/ kind = "spi" /\ Bus!Init
       \/ kind = "i2c" /\ Two!Init
       \/ kind = "can" /\ Net!Init
       \/ kind = "pwm" /\ Duty!Init

Next ==
    /\ UNCHANGED kind
    /\ \/ kind = "gpio8" /\ Gpio!Next
       \/ kind = "uart" /\ Ser!Next
       \/ kind = "spi" /\ Bus!Next
       \/ kind = "i2c" /\ Two!Next
       \/ kind = "can" /\ Net!Next
       \/ kind = "pwm" /\ Duty!Next

HostStep ==
    /\ UNCHANGED kind
    /\ \/ kind = "gpio8" /\ Gpio!Host
       \/ kind = "uart" /\ Ser!Host
       \/ kind = "spi" /\ (Bus!Host \/ Bus!NextPacket)
       \/ kind = "i2c" /\ Two!Host
       \/ kind = "can" /\ Net!Host
       \/ kind = "pwm" /\ Duty!Host

\* What a core does with what it was told.
CoreStep ==
    /\ UNCHANGED kind
    /\ \/ kind = "spi" /\ Bus!Shift
       \/ kind = "i2c" /\ Two!Finish
       \/ kind = "can" /\ Net!Sent

\* The program does not stop within an operation, nor a core within its work.
Spec == Init /\ [][Next]_vars /\ WF_todo(HostStep) /\ WF_core(CoreStep)

-----------------------------------------------------------------------------
(* The properties of the cores' modules.                                   *)

\* Gpio8: a true result means that the pin asked for has changed and no other, but for
\* interrupts that clearInterrupt() did not see.
OnlyItsPin == [][kind = "gpio8" => Gpio!OnlyItsPin]_vars

\* Uart: init() reports true only with all settings made, if it could read LCR.
SettingsHonouredIfRead == kind = "uart" => Ser!SettingsHonouredIfRead

\* Uart: bytes and interrupt masks do not fall into the divisor latch.
DivisorKept == [][kind = "uart" => Ser!DivisorKept]_vars

\* Spi: the receive FIFO is not read before the byte asked for has come in, if none
\* was on its way and the ring not full when the operation was called.
WaitsForByte == [][kind = "spi" => Bus!WaitsForByte]_vars

\* Spi: the byte returned is the one that came in for the byte sent, if no byte was
\* lost and the FIFO was not read too early.
OwnByte == [][kind = "spi" => Bus!OwnByte]_vars

\* Spi: a buffer reported as sent went out whole, in packets of four.
BufferSent == [][kind = "spi" => Bus!BufferSent]_vars

\* I2c: a byte is reported as read only if the slave's register holds it, but after
\* a repeated exchange also what an idle bus gives.
ReadByteHonest == [][kind = "i2c" => Two!ReadByteHonest]_vars

\* Can: a frame reported as sent was taken by the controller.
OwnFrameTaken == [][kind = "can" => Net!OwnFrameTaken]_vars

\* Can: a frame leaves the receive buffer only after it was read.
ReleasesWhatWasRead == [][kind = "can" => Net!ReleasesWhatWasRead]_vars

\* Can: a filter reported as set is set, and the controller is on the bus.
FilterSet == kind = "can" => Net!FilterSet

\* Pwm16: the two halves of the duty cycle belong together.
DutyCycleWhole == kind = "pwm" => Duty!DutyCycleWhole

\* Every operation returns: its loops end, the driver's as well as those that wait
\* for the core.  Not so Uart::init() and setBaudrate() with a rate that divides by
\* zero, which end the program, nor Spi::transceive() on a core that a failed
\* resetBuffers() left disabled, which waits for ever (spi.cc:283-292).
OperationsReturn ==
    todo # << >> /\ ~(kind = "spi" /\ 6 \notin core.SPCR)
        ~> \/ todo = << >> \/ todo[1].act = "die"
           \/ kind = "spi" /\ 6 \notin core.SPCR

-----------------------------------------------------------------------------
(* What the headers say of the operations and the code does not do.  No    *)
(* run has these properties; TLC finds each of them violated when it       *)
(* stands among those of cores_sync.cfg.                                   *)

\* Gpio8: clearInterrupt() clears the interrupt of its pin only.
OnlyItsInterrupt == [][kind = "gpio8" => Gpio!OnlyItsInterrupt]_vars

\* Gpio8: setPin() sets the level of its pin only.
OnlyItsOutput == [][kind = "gpio8" => Gpio!OnlyItsOutput]_vars

\* Gpio8: getPin() tells the level of an input.
InputLevel == [][kind = "gpio8" => Gpio!InputLevel]_vars

\* Spi: transceive() hands over the byte it received.
ReceivedByte == [][kind = "spi" => Bus!ReceivedByte]_vars

\* Spi: transmit() sends as many bytes as it was told.
LengthSent == [][kind = "spi" => Bus!LengthSent]_vars

\* I2c: readByte() hands over the byte of the slave's register.
ByteIsTheRegisters == [][kind = "i2c" => Two!ByteIsTheRegisters]_vars
=============================================================================
