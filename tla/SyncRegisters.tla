---------------------------- MODULE SyncRegisters ----------------------------
(***************************************************************************)
(* How the operation of an easyCore uses its registers while               *)
(* _OPERATION_MODE is SYNC: a list of register accesses, each of which is  *)
(* one exchange with the board, with a rule for what the operation does    *)
(* when one fails.  The module of a core instantiates this one with the    *)
(* behaviour of its registers and gives the list of each operation.        *)
(*                                                                         *)
(* An exchange is TaskExecutor::doSyncTask().  A request that was refused  *)
(* or whose reply was damaged is sent again until the attempts are used    *)
(* up, so that an access may be made twice, and may have been made         *)
(* although the exchange is reported as failed.                            *)
(*                                                                         *)
(* A byte that the code takes apart is the set of its bits that are 1.     *)
(***************************************************************************)
EXTENDS Integers, Sequences

CONSTANTS
    Value(_, _),          \* Value(c, r): what core c answers to a read of r
    AfterRead(_, _),      \* AfterRead(c, r): c after that read
    AfterWrite(_, _, _),  \* AfterWrite(c, r, v): c after v is written to r
    MaxCalls,             \* bound: operations called
    MaxFaults             \* bound: exchanges that do not go smoothly

VARIABLES
    core,     \* the easyCore in the FPGA
    members,  \* the members of its object in the host that operations change
    call,     \* the operation called last, with its arguments
    todo,     \* the accesses it still has to make
    buffer,   \* its local variable "buffer"
    kept,     \* the bytes it has put aside from the buffer
    success,  \* the local variable "success" of the function it is in
    ok,       \* what it will return: no function it called has failed
    before,   \* core when the operation was called (history)
    trouble,  \* what went wrong since the program began (history)
    calls,    \* operations called so far
    faults    \* faults so far

vars == <<core, members, call, todo, buffer, kept, success, ok, before, trouble, calls, faults>>

NoCall == [op |-> "none"]

Bits == 0 .. 7

-----------------------------------------------------------------------------
(* Accesses.  "fail" is the rule for a failed one: its failure is noted    *)
(* (success &= ...), or ends the operation, or is ignored, or is noted and *)
(* the access after it is left out.                                        *)

Read(r)     == [act |-> "read", reg |-> r, fail |-> "note"]
Write(r, v) == [act |-> "write", reg |-> r, data |-> v, fail |-> "note"]

\* setBit() and clrBit() on the buffer, which is then written.
WriteBack(r, on, off) ==
    [act |-> "back", reg |-> r, on |-> on, off |-> off, fail |-> "note"]

\* A loop that reads r until a bit has the given level.
Poll(r, bit, level) ==
    [act |-> "poll", reg |-> r, bit |-> bit, level |-> level, fail |-> "stop"]

OrStop(access) == [access EXCEPT !.fail = "stop"]
Ignoring(access) == [access EXCEPT !.fail = "ignore"]

\* Register::changeBitSync(): nothing is written if the read failed.
ChangeBit(r, bit, set) ==
    << [Read(r) EXCEPT !.fail = "skip"],
       WriteBack(r, IF set THEN {bit} ELSE {}, IF set THEN {} ELSE {bit}) >>

\* Steps without an access.
Fresh(byte)   == [act |-> "fresh", to |-> byte]      \* enter a function, with its buffer
Keep          == [act |-> "keep"]                    \* put the buffer aside
Assign(value) == [act |-> "assign", to |-> value]    \* assign to the members
AssignIfFailed(value) == [act |-> "failed", to |-> value]
Require(bits) == [act |-> "require", bits |-> bits]  \* return false unless a bit is set
Exclude(bits) == [act |-> "exclude", bits |-> bits]  \* return false if a bit is set
NoneKept(bit) == [act |-> "none", bit |-> bit]       \* ... if it is set in a byte kept
Check         == [act |-> "check"]                   \* return false if anything failed
Loop(n)       == [act |-> "loop", n |-> n]           \* the module says what follows
Die           == [act |-> "die"]                     \* the program ends here

ReturnFalse == Require({})

Local == {"fresh", "keep", "assign", "require", "exclude", "none", "check", "failed"}

-----------------------------------------------------------------------------

\* A call of the program, made when no other one is active.
StartWith(op, byte, accesses) ==
    /\ todo = << >>
    /\ calls < MaxCalls
    /\ calls' = calls + 1
    /\ call' = op
    /\ todo' = accesses
    /\ buffer' = byte
    /\ kept' = << >>
    /\ success' = TRUE
    /\ ok' = TRUE
    /\ before' = core
    /\ UNCHANGED <<core, members, trouble, faults>>

Start(op, accesses) == StartWith(op, {}, accesses)

\* An operation that does nothing and returns false.
Refuse(op) == Start(op, << ReturnFalse >>)

Access    == Head(todo)
Fault    == faults < MaxFaults /\ faults' = faults + 1
Exchange == todo # << >> /\ Access.act \in {"read", "poll", "write", "back"}

Written == IF Access.act = "back" THEN (buffer \cup Access.on) \ Access.off
                                 ELSE Access.data

Reads == Access.act \in {"read", "poll"}

\* The core after the access at the head of todo.
Accessed == IF Reads THEN AfterRead(core, Access.reg)
                     ELSE AfterWrite(core, Access.reg, Written)

ExchangeSucceeds ==
    /\ Exchange
    /\ core' = Accessed
    /\ buffer' = IF Reads THEN Value(core, Access.reg)
                 ELSE IF Access.act = "back" THEN Written ELSE buffer
    /\ todo' = IF /\ Access.act = "poll"
                  /\ (Access.bit \in buffer') # Access.level
                  /\ success
               THEN todo ELSE Tail(todo)
    /\ UNCHANGED <<members, call, kept, success, ok, before, trouble, calls, faults>>

\* The access is made and its reply is damaged: the same request is sent again, in
\* a later step.
ExchangeRepeated ==
    /\ Exchange
    /\ Fault
    /\ core' = Accessed
    /\ trouble' = trouble \cup {"repeated"}
    /\ UNCHANGED <<members, call, todo, buffer, kept, success, ok, before, calls>>

\* All attempts were refused, or those that were not had damaged replies.
ExchangeFails ==
    /\ Exchange
    /\ Fault
    /\ core' \in {core, Accessed}
    /\ buffer' = IF Access.act = "back" THEN Written ELSE buffer
    /\ \/ Access.fail = "note" /\ todo' = Tail(todo)
       \/ Access.fail = "ignore" /\ todo' = Tail(todo)
       \/ Access.fail = "skip" /\ todo' = Tail(Tail(todo))
       \/ Access.fail = "stop" /\ todo' = << >>
    /\ success' = (success /\ Access.fail = "ignore")
    /\ ok' = (ok /\ Access.fail = "ignore")
    /\ trouble' = trouble \cup {IF Access.fail = "ignore" THEN "ignored" ELSE "failed"}
    /\ UNCHANGED <<members, call, kept, before, calls>>

LeavesEarly ==
    \/ Access.act = "require" /\ buffer \cap Access.bits = {}
    \/ Access.act = "exclude" /\ buffer \cap Access.bits # {}
    \/ Access.act = "none" /\ \E i \in DOMAIN kept : Access.bit \in kept[i]
    \/ Access.act = "check" /\ ~ok

LocalStep ==
    /\ todo # << >>
    /\ Access.act \in Local
    /\ todo' = IF LeavesEarly THEN << >> ELSE Tail(todo)
    /\ ok' = (ok /\ ~LeavesEarly)
    /\ success' = (success \/ Access.act = "fresh")
    /\ members' = IF Access.act = "assign" \/ (Access.act = "failed" /\ ~ok)
                  THEN Access.to ELSE members
    /\ buffer' = IF Access.act = "fresh" THEN Access.to ELSE buffer
    /\ kept' = IF Access.act = "keep" THEN Append(kept, buffer) ELSE kept
    /\ UNCHANGED <<core, call, before, trouble, calls, faults>>

Host == ExchangeSucceeds \/ ExchangeRepeated \/ ExchangeFails \/ LocalStep

\* The core changes by itself, to state c.
CoreStep(c) ==
    /\ core' = c
    /\ UNCHANGED <<members, call, todo, buffer, kept, success, ok, before, trouble,
                   calls, faults>>

\* A loop of the operation goes on with these steps.
Continue(steps) ==
    /\ todo' = steps
    /\ UNCHANGED <<core, members, call, buffer, kept, success, ok, before, trouble,
                   calls, faults>>

\* An operation ends in this step and returns true.
ReturnsTrue == todo # << >> /\ todo' = << >> /\ ok'

\* The state in which a program begins to use a core.
Begin(c, m) ==
    /\ core = c
    /\ members = m
    /\ call = NoCall
    /\ todo = << >>
    /\ buffer = {}
    /\ kept = << >>
    /\ success = TRUE
    /\ ok = TRUE
    /\ before = c
    /\ trouble = {}
    /\ calls = 0
    /\ faults = 0
=============================================================================
