------------------------------ MODULE Netlist ------------------------------
(***************************************************************************)
(* What connect() promises, whatever the order of the calls: the pins form *)
(* nets, and a call makes one net of two or leaves all nets as they are.   *)
(***************************************************************************)
CONSTANT Pins

VARIABLE nets

Init == nets = { {p} : p \in Pins }

\* Two of the nets, perhaps the same, become one.
Next ==
    \E before \in {nets}, after \in {nets'} :
        \E m, n \in before : after = (before \ {m, n}) \cup {m \cup n}

Spec == Init /\ [][Next]_nets
=============================================================================
