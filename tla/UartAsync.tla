------------------------------ MODULE UartAsync ------------------------------
(***************************************************************************)
(* The Uart core in asynchronous mode: the ASYNC branches of uart.cc.      *)
(* clearBuffers() is not here: it makes a synchronous exchange in either   *)
(* mode.                                                                   *)
(***************************************************************************)
EXTENDS UartRegisters

CONSTANTS Interrupts,  \* interrupts that are enabled and disabled one by one
          Baudrate,    \* the baud rate that is set
          MaxCalls, MaxFaults

VARIABLES core, dependency, counter, dependent, running, retained, fetching, wanted,
          seen, exceptions, calls, faults

\* SetBaudrate() is called with a rate that does not end the program.
BaudrateAssumption == Sane(Baudrate)

AllRegisters == {"RX", "TX", "IER", "IIR", "LCR", "MCR", "DLL", "DLM"}
Derived == {"IIR"}

PlainWrite(r, v) == [act |-> "write", reg |-> r, data |-> v, callback |-> [do |-> "none"]]

\* UartModifiedWriteCallback and UartSetBaudrateDivisorCallback
\* (mutant: the latch is closed before the divisor is written)
Callback_LatchClosedFirst(b, v) ==
    CASE b.do = "modify"  -> << PlainWrite(b.reg, (v \cup b.on) \ b.off) >>
      [] b.do = "divisor" -> << PlainWrite("LCR", v \cup {7}),
                                PlainWrite("LCR", v \ {7}),
                                PlainWrite("DLL", Low(b.baudrate)),
                                PlainWrite("DLM", High(b.baudrate)) >>
      [] OTHER -> << >>
Callback(b, v) ==
    CASE b.do = "modify"  -> << PlainWrite(b.reg, (v \cup b.on) \ b.off) >>
      [] b.do = "divisor" -> << PlainWrite("LCR", v \cup {7}),
                                PlainWrite("DLL", Low(b.baudrate)),
                                PlainWrite("DLM", High(b.baudrate)),
                                PlainWrite("LCR", v \ {7}) >>
      [] OTHER -> << >>

INSTANCE AsyncRegisters

-----------------------------------------------------------------------------
(* Operations.                                                             *)

\* UartInterruptIdentificationCallback only converts the byte.
Convert == [do |-> "convert"]

Modify(r, on, off, flaw) ==
    Operation(<< AsyncRead(r, [do |-> "modify", reg |-> r, on |-> on, off |-> off]) >>,
              AfterWrite(wanted, r, (Value(wanted, r) \cup on) \ off), flaw)

WriteByte(r, v) == Operation(<< AsyncWrite(r, v) >>, AfterWrite(wanted, r, v), {})

SetBaudrate(baudrate) ==
    Operation(<< AsyncRead("LCR", [do |-> "divisor", baudrate |-> baudrate]) >>,
              [wanted EXCEPT !.DLL = Low(baudrate), !.DLM = High(baudrate)], {})

EnableAutoHardwareFlowControl == Modify("MCR", {1, 5}, {}, {})

EnableInterrupts    == WriteByte("IER", 0 .. 4)
DisableInterrupts   == WriteByte("IER", {})
EnableInterrupt(i)  == Modify("IER", {INTERRUPT[i]}, {}, {})
DisableInterrupt(i) == Modify("IER", {}, {INTERRUPT[i]}, {})

IdentifyInterrupt == Operation(<< AsyncRead("IIR", Convert) >>, wanted, {})

Transmit(b) == WriteByte("TX", b)

ReceiveByte ==
    Operation(<< AsyncRead("RX", NoCallback) >>, AfterRead(wanted, "RX"), {})

\* The bit next to that of the synchronous branch is set: output 1 becomes
\* output 2, and output 2 the loopback mode.
SetAuxiliaryOutput(bit, level) ==
    Modify("MCR", IF level THEN {bit + 1} ELSE {}, IF level THEN {} ELSE {bit + 1},
           {"misdirected"})

\* init(), setRxTriggerLevel() and transfers of several bytes start nothing.
NotSupported == Operation(<< >>, wanted, {})

-----------------------------------------------------------------------------

\* A byte has come in.
Init == Begin([Reset EXCEPT !.received = 1])

Call ==
    \/ SetBaudrate(Baudrate)
    \/ EnableAutoHardwareFlowControl
    \/ EnableInterrupts \/ DisableInterrupts
    \/ \E i \in Interrupts : EnableInterrupt(i) \/ DisableInterrupt(i)
    \/ IdentifyInterrupt
    \/ Transmit({0}) \/ ReceiveByte
    \/ \E bit \in {2, 3} : SetAuxiliaryOutput(bit, TRUE)
    \/ NotSupported

Next == Call \/ HandleReplies \/ Host \/ Board

Spec == Init /\ [][Next]_vars

-----------------------------------------------------------------------------

\* What is transmitted and the interrupt mask never fall into the divisor latch,
\* and the divisor never goes out as data: the four writes of the callback stay
\* together though other operations' requests are on the way
\* (set_baudrate_divisor.cc:38-53).  Not so if one of them was refused, or if a
\* third operation used LCR.
LatchOnlyForDivisor ==
    exceptions \subseteq {"misdirected"} =>
        /\ core.DLL \in {{}, Low(Baudrate)} /\ core.DLM \in {{}, High(Baudrate)}
        /\ \A i \in DOMAIN core.sent : core.sent[i] # Low(Baudrate)
=============================================================================
