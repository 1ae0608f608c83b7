-------------------------------- MODULE Gpio8 --------------------------------
(***************************************************************************)
(* The Gpio8 core in synchronous mode: eight pins, one bit each in seven   *)
(* registers.  Operations on one pin read a register, change the pin's bit *)
(* and write it back, while the outside world moves the input pins.        *)
(***************************************************************************)
EXTENDS Integers, Sequences

CONSTANTS
    Pins,     \* the pins used, a subset of 0 .. 7
    MaxCalls, MaxFaults,
    MaxEdges  \* bound: changes of an input pin

VARIABLES core, members, call, todo, buffer, kept, success, ok, before, trouble,
          calls, faults

REGISTER == {"IN", "OUT", "OE", "INTE", "PTRIG", "CTRL", "INTS"}

\* What the registers do: "edges" counts the changes of the pins.  The driver marks
\* OUT as write only and reads it nevertheless; "readable" tells whether the core
\* answers with what was written or with nothing.
Value(c, r) == IF r = "OUT" /\ ~c.readable THEN {} ELSE c[r]
AfterRead(c, r) == c
AfterWrite(c, r, v) == IF r = "IN" THEN c ELSE [c EXCEPT ![r] = v]

INSTANCE SyncRegisters

Reset(readable) ==
    [r \in REGISTER \cup {"edges", "readable"} |->
        CASE r = "edges" -> 0 [] r = "readable" -> readable [] OTHER -> {}]

-----------------------------------------------------------------------------
(* Operations.                                                             *)

Bit(pin, set) == IF set THEN {pin} ELSE {}

\* setBit() or clrBit() for one pin, between a read and a write that is made
\* whether the read succeeded or not.
\* (mutant: the failure of the read is forgotten)
Modify_ReadUnnoticed(r, pin, set) ==
    << Ignoring(Read(r)), WriteBack(r, Bit(pin, set), Bit(pin, ~set)) >>
Modify(r, pin, set) ==
    << Read(r), WriteBack(r, Bit(pin, set), Bit(pin, ~set)) >>

IsPinInput(pin) == Start([op |-> "isPinInput", pin |-> pin], << Read("OE") >>)

ArePinsInput == StartWith([op |-> "arePinsInput"], Pins, << Read("OE") >>)

MakePinInput(pin) ==
    Start([op |-> "makePinInput", pin |-> pin], Modify("OE", pin, FALSE))

MakeAllPinsInput == Start([op |-> "makeAllPinsInput"], << Write("OE", {}) >>)

MakePinOutput(pin) ==
    Start([op |-> "makePinOutput", pin |-> pin], Modify("OE", pin, TRUE))

MakeAllPinsOutput == Start([op |-> "makeAllPinsOutput"], << Write("OE", Pins) >>)

ReleaseInterrupts == Start([op |-> "releaseInterrupts"], << Write("CTRL", {0}) >>)

LockInterrupts == Start([op |-> "lockInterrupts"], << Write("CTRL", {}) >>)

EnableAllPinInterrupts(risingEdge) ==
    Start([op |-> "enableAllPinInterrupts", risingEdge |-> risingEdge],
          << Write("INTE", Pins), Write("PTRIG", IF risingEdge THEN Pins ELSE {}) >>)

\* One buffer for both registers.
EnablePinInterrupt(pin, risingEdge) ==
    Start([op |-> "enablePinInterrupt", pin |-> pin, risingEdge |-> risingEdge],
          Modify("INTE", pin, TRUE) \o Modify("PTRIG", pin, risingEdge))

ClearInterrupts == Start([op |-> "clearInterrupts"], << Write("INTS", {}) >>)

ClearInterrupt(pin) ==
    Start([op |-> "clearInterrupt", pin |-> pin], Modify("INTS", pin, FALSE))

\* True if an interrupt is pending.
IdentifyInterruptingPins ==
    Start([op |-> "identifyInterruptingPins"],
          << OrStop(Read("INTS")), Require(Bits) >>)

SetPin(pin, level) ==
    Start([op |-> "setPin", pin |-> pin, level |-> level], Modify("OUT", pin, level))

SetAllPins(level) ==
    Start([op |-> "setAllPins", level |-> level], << Write("OUT", level) >>)

\* The level of an output, not that of the pin.
GetPin(pin) == Start([op |-> "getPin", pin |-> pin], << Read("OUT") >>)

GetAllPins == Start([op |-> "getAllPins"], << Read("OUT") >>)

-----------------------------------------------------------------------------
(* The pins: an edge at an input raises its interrupt.                     *)

Edge(pin) ==
    LET rises == pin \notin core.IN
        hit   == /\ 0 \in core.CTRL
                 /\ pin \in core.INTE \ core.OE
                 /\ rises = (pin \in core.PTRIG)
    IN  /\ core.edges < MaxEdges
        /\ CoreStep([core EXCEPT !.IN    = IF rises THEN @ \cup {pin} ELSE @ \ {pin},
                                 !.INTS  = IF hit THEN @ \cup {pin} ELSE @,
                                 !.edges = @ + 1])

Init == \E readable \in BOOLEAN : Begin(Reset(readable), {})

Call ==
    \/ \E pin \in Pins : \/ IsPinInput(pin) \/ GetPin(pin)
                         \/ MakePinInput(pin) \/ MakePinOutput(pin)
                         \/ ClearInterrupt(pin)
                         \/ \E b \in BOOLEAN : \/ SetPin(pin, b)
                                               \/ EnablePinInterrupt(pin, b)
    \/ ArePinsInput \/ MakeAllPinsInput \/ MakeAllPinsOutput
    \/ ReleaseInterrupts \/ LockInterrupts
    \/ \E b \in BOOLEAN : EnableAllPinInterrupts(b)
    \/ ClearInterrupts \/ IdentifyInterruptingPins
    \/ \E level \in SUBSET Pins : SetAllPins(level)
    \/ GetAllPins

Next == Call \/ Host \/ \E pin \in Pins : Edge(pin)

Spec == Init /\ [][Next]_vars

-----------------------------------------------------------------------------
(* Properties.                                                             *)

\* The registers c after operation o was carried out.
Wanted(c, o) ==
    CASE o.op = "makePinInput"      -> [c EXCEPT !.OE = @ \ {o.pin}]
      [] o.op = "makeAllPinsInput"  -> [c EXCEPT !.OE = {}]
      [] o.op = "makePinOutput"     -> [c EXCEPT !.OE = @ \cup {o.pin}]
      [] o.op = "makeAllPinsOutput" -> [c EXCEPT !.OE = Pins]
      [] o.op = "releaseInterrupts" -> [c EXCEPT !.CTRL = {0}]
      [] o.op = "lockInterrupts"    -> [c EXCEPT !.CTRL = {}]
      [] o.op = "enableAllPinInterrupts" ->
            [c EXCEPT !.INTE = Pins, !.PTRIG = IF o.risingEdge THEN Pins ELSE {}]
      [] o.op = "enablePinInterrupt" ->
            [c EXCEPT !.INTE  = @ \cup {o.pin},
                      !.PTRIG = IF o.risingEdge THEN @ \cup {o.pin} ELSE @ \ {o.pin}]
      [] o.op = "clearInterrupts"   -> [c EXCEPT !.INTS = {}]
      [] o.op = "clearInterrupt"    -> [c EXCEPT !.INTS = @ \ {o.pin}]
      [] o.op = "setPin"            ->
            [c EXCEPT !.OUT = IF o.level THEN @ \cup {o.pin} ELSE @ \ {o.pin}]
      [] o.op = "setAllPins"        -> [c EXCEPT !.OUT = o.level]
      [] OTHER                      -> c

\* An operation that returns true has changed the bit of its pin in its register
\* and nothing else, whatever happened to its exchanges and whatever the pins did
\* meanwhile (gpio8.cc, the SYNC branches), unless it is setPin() and OUT cannot be
\* read.  It takes no interrupt away but those it clears; and clearInterrupt() also
\* those that were raised since it was called, between its read and its write.
OnlyItsPin ==
    ReturnsTrue =>
        LET w == Wanted(before, call)
        IN  /\ \A r \in {"OUT", "OE", "INTE", "PTRIG", "CTRL"} :
                    (r = "OUT" /\ call.op = "setPin" => core.readable) => core'[r] = w[r]
            /\ w.INTS \subseteq core'.INTS
            /\ \A pin \in core.INTS \ core'.INTS :
                    \/ call.op = "clearInterrupts"
                    \/ call.op = "clearInterrupt" /\ pin \notin w.INTS

\* clearInterrupt() "clears the pending interrupt from one pin" (gpio8.h:455-463)
\* and no other.
OnlyItsInterrupt ==
    ReturnsTrue /\ call.op = "clearInterrupt" => core.INTS \ core'.INTS \subseteq {call.pin}

\* setPin() "sets the logic level of a specified output pin" (gpio8.h:481-491) and of
\* no other, though OUT is "write only" (gpio8.h:215-224) and may not tell the levels.
OnlyItsOutput == ReturnsTrue /\ call.op = "setPin" => core'.OUT = Wanted(before, call).OUT

\* getPin() "gets the logic level of a specified input pin" (gpio8.h:506-522), if that
\* stays as it is.
InputLevel ==
    ReturnsTrue /\ call.op = "getPin" /\ call.pin \notin core.OE /\ core.IN = before.IN
        => (call.pin \in buffer') = (call.pin \in core.IN)
=============================================================================
