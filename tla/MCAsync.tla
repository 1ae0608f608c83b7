------------------------------- MODULE MCAsync -------------------------------
(***************************************************************************)
(* One run for the easyCores that have an asynchronous mode: the initial   *)
(* state says which of them the program uses.                              *)
(***************************************************************************)
EXTENDS Integers, Sequences

CONSTANTS
    Kinds,     \* the cores to check
    Calls,     \* bound: operations called
    MaxFaults  \* bound: requests the board refuses

VARIABLES kind, core, dependency, counter, dependent, running, retained, fetching,
          wanted, seen, exceptions, calls, faults

vars == <<kind, core, dependency, counter, dependent, running, retained, fetching,
          wanted, seen, exceptions, calls, faults>>

Gpio == INSTANCE Gpio8Async WITH Pins <- {0, 7}, OtherPins <- {7}, MaxCalls <- Calls
Ser  == INSTANCE UartAsync WITH Interrupts <- {"RX_AVAILABLE"}, Baudrate <- 9600,
                                MaxCalls <- Calls

ASSUME BaudrateIsSane == Ser!BaudrateAssumption

Init ==
    /\ kind \in Kinds
    /\ \/ kind = "gpio8" /\ Gpio!Init
       \/ kind = "uart" /\ Ser!Init

Next ==
    /\ UNCHANGED kind
    /\ \/ kind = "gpio8" /\ Gpio!Next
       \/ kind = "uart" /\ Ser!Next

Spec == Init /\ [][Next]_vars

-----------------------------------------------------------------------------
(* The properties of the cores' modules.                                   *)

\* The core ends up as if each operation had been carried out when it was called.
AsIfInOrder == /\ kind = "gpio8" => Gpio!AsIfInOrder
               /\ kind = "uart" => Ser!AsIfInOrder

\* A read delivers what the operations called before it leave in the register.
ReadsWhatWasWritten == /\ kind = "gpio8" => Gpio!ReadsWhatWasWritten
                       /\ kind = "uart" => Ser!ReadsWhatWasWritten

\* Uart: only the divisor goes through the open latch.
LatchOnlyForDivisor == kind = "uart" => Ser!LatchOnlyForDivisor
=============================================================================
