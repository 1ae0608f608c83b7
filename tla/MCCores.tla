------------------------------- MODULE MCCores -------------------------------
(***************************************************************************)
(* What the run of the synchronous cores asks of them.                     *)
(***************************************************************************)
EXTENDS Cores

\* A setting with an argument the driver refuses beside one it takes.
TwoLines == { [wLength |-> "C7", stopBits |-> "TWO_BITS", parity |-> "EVEN_PARITY"],
              [wLength |-> "C9", stopBits |-> "ONE_BIT", parity |-> "NO_PARITY"] }

OneByte == {{0}}

TwoRegisters == {{3}, {4}}

OneValue == {{5}}

TwoIdentifiers == {<<{1}, {}>>, <<{1, 2}, {5}>>}

OneMask == {{1}}
=============================================================================
