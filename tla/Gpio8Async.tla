----------------------------- MODULE Gpio8Async ------------------------------
(***************************************************************************)
(* The Gpio8 core in asynchronous mode: the ASYNC branches of gpio8.cc.    *)
(***************************************************************************)
EXTENDS Integers, Sequences

CONSTANTS Pins,       \* pins whose level is set, a subset of 0 .. 7
          OtherPins,  \* pins used otherwise
          MaxCalls, MaxFaults

VARIABLES core, dependency, counter, dependent, running, retained, fetching, wanted,
          seen, exceptions, calls, faults

AllRegisters == {"IN", "OUT", "OE", "INTE", "PTRIG", "CTRL", "INTS"}
Derived == {}

\* OUT is marked as write only and read nevertheless, as in Gpio8.
Value(c, r) == IF r = "OUT" /\ ~c.readable THEN {} ELSE c[r]
AfterRead(c, r) == c
AfterWrite(c, r, v) == IF r = "IN" THEN c ELSE [c EXCEPT ![r] = v]

Reset(readable) ==
    [r \in AllRegisters \cup {"readable"} |-> IF r = "readable" THEN readable ELSE {}]

With(byte, pin, level) == IF level THEN byte \cup {pin} ELSE byte \ {pin}

\* Gpio8ModifiedWriteCallback: whatever register was read, the outputs are written.
Callback(b, v) ==
    IF b.do = "modify"
    THEN << [act |-> "write", reg |-> "OUT", data |-> With(v, b.pin, b.level),
             callback |-> [do |-> "none"]] >>
    ELSE << >>

INSTANCE AsyncRegisters

-----------------------------------------------------------------------------
(* Operations.                                                             *)

ModifiedWrite(pin, level) == [do |-> "modify", pin |-> pin, level |-> level]

\* Gpio8InputTestCallback and Gpio8ByteToLogicLevelCallback only convert the byte.
Convert == [do |-> "convert"]

Change(c, r, pin, level) == [c EXCEPT ![r] = With(@, pin, level)]

Misdirected == {"misdirected"}
Unreadable  == IF core.readable THEN {} ELSE {"unreadable"}

IsPinInput    == Operation(<< AsyncRead("OE", Convert) >>, wanted, {})
ArePinsInput  == Operation(<< AsyncRead("OE", Convert) >>, wanted, {})

MakePinInput(pin) ==
    Operation(<< AsyncRead("OE", ModifiedWrite(pin, FALSE)) >>,
              Change(wanted, "OE", pin, FALSE), Misdirected)
MakePinOutput(pin) ==
    Operation(<< AsyncRead("OE", ModifiedWrite(pin, TRUE)) >>,
              Change(wanted, "OE", pin, TRUE), Misdirected)

WriteAll(r, v) == Operation(<< AsyncWrite(r, v) >>, [wanted EXCEPT ![r] = v], {})

MakeAllPinsInput  == WriteAll("OE", {})
MakeAllPinsOutput == WriteAll("OE", Pins)
ReleaseInterrupts == WriteAll("CTRL", {0})
LockInterrupts    == WriteAll("CTRL", {})
ClearInterrupts   == WriteAll("INTS", {})
SetAllPins(level) == WriteAll("OUT", level)

EnableAllPinInterrupts(risingEdge) ==
    LET edges == IF risingEdge THEN Pins ELSE {}
    IN  Operation(<< AsyncWrite("INTE", Pins), AsyncWrite("PTRIG", edges) >>,
                  [wanted EXCEPT !.INTE = Pins, !.PTRIG = edges], {})

EnablePinInterrupt(pin, risingEdge) ==
    Operation(<< AsyncRead("INTE", ModifiedWrite(pin, TRUE)),
                 AsyncRead("PTRIG", ModifiedWrite(pin, risingEdge)) >>,
              Change(Change(wanted, "INTE", pin, TRUE), "PTRIG", pin, risingEdge),
              Misdirected)

ClearInterrupt(pin) ==
    Operation(<< AsyncRead("INTS", ModifiedWrite(pin, FALSE)) >>,
              Change(wanted, "INTS", pin, FALSE), Misdirected)

\* Not supported: nothing is started.
IdentifyInterruptingPins == Operation(<< >>, wanted, {})

SetPin(pin, level) ==
    Operation(<< AsyncRead("OUT", ModifiedWrite(pin, level)) >>,
              Change(wanted, "OUT", pin, level), Unreadable)

\* The level of the pin, where the synchronous branch returns that of the output.
GetPin     == Operation(<< AsyncRead("IN", Convert) >>, wanted, {})
GetAllPins == Operation(<< AsyncRead("OUT", NoCallback) >>, wanted, {})

-----------------------------------------------------------------------------

Init == \E readable \in BOOLEAN : Begin(Reset(readable))

Call ==
    \/ \E pin \in Pins, level \in BOOLEAN : SetPin(pin, level)
    \/ \E pin \in OtherPins : \/ MakePinInput(pin) \/ MakePinOutput(pin)
                              \/ ClearInterrupt(pin)
                              \/ \E b \in BOOLEAN : EnablePinInterrupt(pin, b)
    \/ IsPinInput \/ ArePinsInput \/ GetPin \/ GetAllPins
    \/ MakeAllPinsInput \/ MakeAllPinsOutput
    \/ ReleaseInterrupts \/ LockInterrupts \/ ClearInterrupts
    \/ IdentifyInterruptingPins
    \/ \E b \in BOOLEAN : EnableAllPinInterrupts(b)
    \/ SetAllPins(Pins)

Next == Call \/ HandleReplies \/ Host \/ Board

Spec == Init /\ [][Next]_vars
=============================================================================
