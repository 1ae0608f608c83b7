---------------------------- MODULE UartRegisters ----------------------------
(***************************************************************************)
(* The registers of the Uart core.  Bit 7 of LCR, the divisor latch access *)
(* bit, decides what addresses 0 and 1 mean: the data and interrupt        *)
(* registers, or the divisor of the baud rate.                             *)
(***************************************************************************)
EXTENDS Integers, Sequences

\* _registerMap: several registers share an address.
Address == [RX |-> 0, TX |-> 0, DLL |-> 0, IER |-> 1, DLM |-> 1, IIR |-> 2,
            FCR |-> 2, LCR |-> 3, MCR |-> 4, LSR |-> 5, MSR |-> 6, SCR |-> 7]

-----------------------------------------------------------------------------
(* The core: a 16750.                                                      *)

LatchOpen(c) == 7 \in c.LCR

\* The interrupt identification: bit 0 says that there is none.
Cause(c) == IF 0 \in c.IER /\ c.received > 0 THEN {2} ELSE {0}

Value(c, r) ==
    CASE Address[r] = 0 -> IF LatchOpen(c) THEN c.DLL ELSE {}
      [] Address[r] = 1 -> IF LatchOpen(c) THEN c.DLM ELSE c.IER
      [] Address[r] = 2 -> Cause(c)
      [] Address[r] = 3 -> c.LCR
      [] Address[r] = 4 -> c.MCR

AfterRead(c, r) ==
    IF Address[r] = 0 /\ ~LatchOpen(c) /\ c.received > 0
    THEN [c EXCEPT !.received = @ - 1] ELSE c

\* Bit 5 of FCR, the long FIFOs, can be changed through the open latch only.
AfterWrite(c, r, v) ==
    CASE Address[r] = 0 -> IF LatchOpen(c) THEN [c EXCEPT !.DLL = v]
                                           ELSE [c EXCEPT !.sent = Append(@, v)]
      [] Address[r] = 1 -> IF LatchOpen(c) THEN [c EXCEPT !.DLM = v]
                                           ELSE [c EXCEPT !.IER = v]
      [] Address[r] = 2 -> [c EXCEPT !.longFifo = IF LatchOpen(c) THEN 5 \in v ELSE @,
                                     !.received = IF 1 \in v THEN 0 ELSE @]
      [] Address[r] = 3 -> [c EXCEPT !.LCR = v]
      [] Address[r] = 4 -> [c EXCEPT !.MCR = v]

Reset == [LCR |-> {}, IER |-> {}, MCR |-> {}, DLL |-> {}, DLM |-> {}, sent |-> << >>,
          received |-> 0, longFifo |-> FALSE, arrivals |-> 0]

-----------------------------------------------------------------------------
(* Values written to them.                                                 *)

WISHBONE_CLOCK_FREQUENCY == 80000000

ByteBits(n) == { i \in 0 .. 7 : (n \div 2 ^ i) % 2 = 1 }

BaudrateDivisor(baudrate) == WISHBONE_CLOCK_FREQUENCY \div (baudrate * 16)

Low(baudrate)  == ByteBits(BaudrateDivisor(baudrate) % 256)
High(baudrate) == ByteBits(BaudrateDivisor(baudrate) \div 256)

\* A division by zero, for the message or for the divisor itself, and a divisor
\* of more than 16 bits end the program.
Sane(baudrate) ==
    baudrate > 0 /\ BaudrateDivisor(baudrate) \in 1 .. 65534

INTERRUPT == [RX_AVAILABLE |-> 0, TX_EMPTY |-> 1, RX_LINE_STATUS |-> 2,
              MODEM_STATUS |-> 3, CHARACTER_TIMEOUT |-> 4]
=============================================================================
