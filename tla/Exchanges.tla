------------------------------ MODULE Exchanges ------------------------------
(***************************************************************************)
(* The exchanges of the protocol as the host sees their replies: how many  *)
(* bytes it waits for, which opcode it expects, which checksum it looks    *)
(* at and which bytes are handed to the user.  One definition for each     *)
(* class derived from Exchange.  What the requests say is left to the      *)
(* modules of the board's two controllers (Session) and of the easyCores.  *)
(*                                                                         *)
(* A byte is the set of its bits that are 1.                               *)
(***************************************************************************)
EXTENDS Integers, Sequences, FiniteSets

\* Exchange::SHARED_REPLY_CODES
ACK       == {}
NACK      == {0, 4}
INTERRUPT == {0, 3, 4, 7}

-----------------------------------------------------------------------------
(* Calculator.                                                             *)

Bits == 0 .. 7

\* calculateXorParity() of the bytes from the i-th to the j-th.
XorParity(bytes, i, j) ==
    { b \in Bits : Cardinality({ k \in i .. j : b \in bytes[k] }) % 2 = 1 }

-----------------------------------------------------------------------------
(* Exchanges.  "parity" is the first byte the parity of the reply, its     *)
(* last byte, is calculated from, or 0 if it is not looked at;             *)
(* "errorParity" is the same for a NACK.                                   *)

Exchange(success, error, opcode) ==
    [success |-> success, error |-> error, opcode |-> opcode,
     parity |-> 1, errorParity |-> 1, result |-> {}]

\* The replies of the easyFPGA's SoC: opcode, id, data, parity.
ReadRegister == [Exchange(4, 4, {3, 7}) EXCEPT !.result = {3}]

ReadMultiRegister(length) ==
    [Exchange(3 + length, 4, {0, 1, 4, 7}) EXCEPT !.result = 3 .. 2 + length]

ReadAutoAddressIncrementRegister(length) ==
    [Exchange(3 + length, 4, {4, 7}) EXCEPT !.result = 3 .. 2 + length]

WriteRegister == Exchange(3, 4, ACK)

WriteMultiRegister == Exchange(3, 4, ACK)

WriteAutoAddressIncrementRegister == Exchange(3, 4, ACK)

InterruptEnable == [Exchange(3, 4, ACK) EXCEPT !.parity = 0, !.errorParity = 0]

\* (mutant: a refusal is as short as the microcontroller's)
SelectMcu_ShortError == [Exchange(3, 1, ACK) EXCEPT !.parity = 0]
SelectMcu == [Exchange(3, 4, ACK) EXCEPT !.parity = 0]

\* The replies of its microcontroller: opcode, data, parity.
McuExchange(success, opcode) ==
    [Exchange(success, 1, opcode) EXCEPT !.parity = 0, !.errorParity = 0]

SelectSoc == McuExchange(1, ACK)

ConfigureFpga == McuExchange(1, ACK)

Sector4096ByteWrite == McuExchange(1, ACK)

SerialWrite == McuExchange(1, ACK)

StatusWrite == McuExchange(1, ACK)

SerialRead ==
    [McuExchange(6, {0, 3, 4, 6, 7}) EXCEPT !.parity = 1, !.result = 2 .. 5]

\* The parity leaves out the opcode; of the status, a flag and the hash are used.
StatusRead ==
    [McuExchange(13, {0, 3, 6, 7}) EXCEPT !.parity = 2, !.result = {2} \cup 9 .. 12]

-----------------------------------------------------------------------------

\* successChecksumIsCorrect() and errorChecksumIsCorrect()
\* (mutant: the data are not covered)
SuccessChecksumIsCorrect_IdOnly(x, data) ==
    x.parity = 0 \/ XorParity(data, x.parity, x.success - 2) = data[x.success - 1]
SuccessChecksumIsCorrect(x, data) ==
    x.parity = 0 \/ XorParity(data, x.parity, x.success - 1) = data[x.success]

ErrorChecksumIsCorrect(x, data) ==
    x.errorParity = 0 \/ XorParity(data, x.errorParity, x.error - 1) = data[x.error]
=============================================================================
