---------------------------- MODULE MCStructure ----------------------------
(***************************************************************************)
(* The cores and pins of the runs of Structure: core a has an input and an *)
(* output, core b both and one of both directions, as I2c has, and core c  *)
(* none.                                                                   *)
(***************************************************************************)
EXTENDS Structure

ThreeCores == {"a", "b", "c"}

FivePins == {10, 11, 20, 21, 22}
PinCore  == [p \in FivePins |-> IF p < 20 THEN "a" ELSE "b"]
PinType  == [p \in FivePins |-> CASE p % 10 = 0 -> "IN"
                                   [] p % 10 = 1 -> "OUT"
                                   [] OTHER -> "INOUT"]
=============================================================================
