--------------------------------- MODULE I2c ---------------------------------
(***************************************************************************)
(* The I2C core, a bus master, with one slave on its bus.  A transfer      *)
(* writes a command and waits until the core has carried it out; reading   *)
(* or writing a byte of a slave takes three or four transfers.             *)
(***************************************************************************)
EXTENDS Integers, Sequences

CONSTANTS
    Devices,    \* device addresses the program uses
    Slave,      \* the one that is there
    Registers,  \* addresses of the slave's registers, and what the program writes to
    Data,       \* them, as sets of bits
    MaxCalls, MaxFaults

VARIABLES core, members, call, todo, buffer, kept, success, ok, before, trouble,
          calls, faults

-----------------------------------------------------------------------------
(* The core and the slave.  "slave" is what the slave takes the next byte  *)
(* for; it is not listening after a stop condition.                        *)

\* The byte that addresses a device: bit 0 tells the direction.
ByteBits(n) == { i \in 0 .. 7 : (n \div 2 ^ i) % 2 = 1 }

Addressing(device, read) == ByteBits(2 * device) \cup (IF read THEN {0} ELSE {})

\* What is read from a bus on which nobody sends.
Idle == 0 .. 7

Value(c, r) == IF r = "SR" THEN (IF c.busy THEN {1} ELSE {}) \cup (IF c.nack THEN {7} ELSE {})
               ELSE c[r]

AfterRead(c, r) == c

AfterWrite(c, r, v) ==
    IF r = "CR" THEN [c EXCEPT !.CR = v, !.busy = TRUE] ELSE [c EXCEPT ![r] = v]

Byte(c) ==
    CASE 5 \in c.CR ->
            [c EXCEPT !.RX = IF c.slave = "read" THEN c.mem[c.pointer] ELSE Idle]
      [] 4 \in c.CR /\ 7 \in c.CR ->
            LET hit == c.TX \ {0} = Addressing(Slave, FALSE)
            IN  [c EXCEPT !.nack = ~hit,
                          !.slave = IF ~hit THEN "none"
                                    ELSE IF 0 \in c.TX THEN "read" ELSE "address"]
      [] 4 \in c.CR /\ 7 \notin c.CR /\ c.slave = "address" ->
            [c EXCEPT !.nack = FALSE, !.slave = "content",
                      !.pointer = IF c.TX \in Registers THEN c.TX ELSE @]
      [] 4 \in c.CR /\ 7 \notin c.CR /\ c.slave = "content" ->
            [c EXCEPT !.nack = FALSE, !.mem[c.pointer] = c.TX]
      [] OTHER -> [c EXCEPT !.nack = TRUE]

Stopped(c) == IF 6 \in c.CR THEN [c EXCEPT !.slave = "none", !.held = FALSE]
                            ELSE [c EXCEPT !.held = TRUE]

Reset == [CTRL |-> {}, PREREG_LOW |-> {}, PREREG_HIGH |-> {}, TX |-> Idle,
          RX |-> Idle, CR |-> {}, busy |-> FALSE, nack |-> FALSE,
          held |-> FALSE, slave |-> "none", pointer |-> CHOOSE r \in Registers : TRUE,
          mem |-> [r \in Registers |-> r]]

INSTANCE SyncRegisters

\* The core has carried out its command.
Finish == core.busy /\ CoreStep([Stopped(Byte(core)) EXCEPT !.busy = FALSE])

-----------------------------------------------------------------------------
(* Operations.                                                             *)

CLOCK_SPEED == [MODE_STANDARD |-> 100000, MODE_FAST |-> 400000]

Prescale(speed) == 80000000 \div (5 * CLOCK_SPEED[speed]) - 1

Initialize(speed) ==
    Start([op |-> "init", speed |-> speed],
          ChangeBit("CTRL", 6, FALSE)
          \o << Write("PREREG_LOW", ByteBits(Prescale(speed) % 256)),
                Write("PREREG_HIGH", ByteBits(Prescale(speed) \div 256)) >>
          \o ChangeBit("CTRL", 6, TRUE))

\* A speed that is none of the enumeration's values.
InitializeRefused == Refuse([op |-> "init", speed |-> "none"])

\* Every start but 0 asks for a stop condition, also the 2 that is to mean
\* neither.
\* (mutant: no stop condition)
Command_NoStop(write, start, nack) ==
    (IF start = 0 THEN {7} ELSE {}) \cup (IF nack THEN {3} ELSE {})
        \cup (IF write THEN {4} ELSE {5})
Command(write, start, nack) ==
    (IF start = 0 THEN {7} ELSE {6}) \cup (IF nack THEN {3} ELSE {})
        \cup (IF write THEN {4} ELSE {5})

\* The status is read once more before its acknowledge bit is looked at; what was
\* not read stays as it was.
\* (mutant: the loop waits for the start of the transfer, not for its end)
TransferSteps_WaitForBusy(data, write, start, nack) ==
    << Fresh({}) >>
    \o (IF write THEN << Write("TX", data) >> ELSE << >>)
    \o << Write("CR", Command(write, start, nack)), Poll("SR", 1, TRUE) >>
    \o (IF write THEN << Read("SR"), Keep >> ELSE << Read("RX") >>)
TransferSteps(data, write, start, nack) ==
    << Fresh({}) >>
    \o (IF write THEN << Write("TX", data) >> ELSE << >>)
    \o << Write("CR", Command(write, start, nack)),
          [Poll("SR", 1, FALSE) EXCEPT !.fail = "note"] >>
    \o (IF write THEN << Read("SR"), Keep >> ELSE << Read("RX") >>)

Transfer(data, write, start, nack) ==
    IF write /\ nack
    THEN Refuse([op |-> "transfer"])
    ELSE Start([op |-> "transfer"], TransferSteps(data, write, start, nack))

InRange(device) == device \in 0 .. 127

WriteByte(device, r, data) ==
    LET op == [op |-> "writeByte", device |-> device, register |-> r, data |-> data]
    IN  IF ~InRange(device) THEN Refuse(op)
        ELSE Start(op, TransferSteps(Addressing(device, FALSE), TRUE, 0, FALSE)
                       \o TransferSteps(r, TRUE, 2, FALSE)
                       \o TransferSteps(data, TRUE, 1, FALSE)
                       \o << NoneKept(7) >>)

\* A repeated start condition turns the direction round.
ReadByte(device, r) ==
    LET op == [op |-> "readByte", device |-> device, register |-> r]
    IN  IF ~InRange(device) THEN Refuse(op)
        ELSE Start(op, TransferSteps(Addressing(device, FALSE), TRUE, 0, FALSE)
                       \o TransferSteps(r, TRUE, 2, FALSE)
                       \o TransferSteps(Addressing(device, TRUE), TRUE, 0, FALSE)
                       \o TransferSteps(Idle, FALSE, 1, TRUE)
                       \o << NoneKept(7) >>)

-----------------------------------------------------------------------------

Init == Begin(Reset, {})

Call ==
    \/ \E speed \in DOMAIN CLOCK_SPEED : Initialize(speed)
    \/ InitializeRefused
    \/ \E device \in Devices, r \in Registers :
            \/ ReadByte(device, r)
            \/ \E data \in Data : WriteByte(device, r, data)
    \/ \E device \in Devices, write \in BOOLEAN, start \in 0 .. 2, nack \in BOOLEAN :
            Transfer(Addressing(device, FALSE), write, start, nack)

Next == Call \/ Host \/ Finish

Spec == Init /\ [][Next]_vars

-----------------------------------------------------------------------------
(* Properties.                                                             *)

\* readByte() returns true only with the content of the register asked for, of a
\* device that is there, and with the bus free again, whatever happened to its
\* sixteen or more exchanges (i2c.cc:216-260); but for one: a command that is sent
\* again is carried out again, and if it is the last one, which reads the byte and
\* ends the transfer, the byte is read once more, from a bus on which nobody sends.
ReadByteHonest ==
    ReturnsTrue /\ call.op = "readByte" =>
            /\ call.device = Slave
            /\ \/ buffer = core.mem[call.register]
               \/ buffer = Idle /\ "repeated" \in trouble'
            /\ ~core.busy /\ ~core.held

\* readByte() hands over "the read byte", the register's content, if it returns true
\* (i2c.h:289-306).
ByteIsTheRegisters ==
    ReturnsTrue /\ call.op = "readByte" => buffer = core.mem[call.register]
=============================================================================
