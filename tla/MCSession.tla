----------------------------- MODULE MCSession -----------------------------
(***************************************************************************)
(* Binaries for the runs of Session.                                       *)
(***************************************************************************)
EXTENDS Session

Long  == [hash |-> 1, sectors |-> 2, exact |-> FALSE]
Short == [hash |-> 2, sectors |-> 1, exact |-> FALSE]
Exact == [hash |-> 3, sectors |-> 2, exact |-> TRUE]

LongAndShort == {Long, Short}
LongAndExact == {Long, Exact}
=============================================================================
