------------------------------ MODULE LinkProofs ------------------------------
(***************************************************************************)
(* Proofs about Exchanges and Link: what the checksums can tell, and that  *)
(* host and board stay in step, for every set of exchanges, any bytes and  *)
(* any number of calls, attempts and faults.                               *)
(***************************************************************************)
EXTENDS Link, FiniteSetTheorems, SequenceTheorems, TLAPS

\* The places from i to j of the bytes in which bit b is 1.
Ones(bytes, i, j, b) == { m \in i .. j : b \in bytes[m] }

LEMMA OnesFinite ==
    ASSUME NEW i \in Nat, NEW j \in Nat, NEW b, NEW bytes
    PROVE  IsFiniteSet(Ones(bytes, i, j, b)) /\ Cardinality(Ones(bytes, i, j, b)) \in Nat
<1>1. IsFiniteSet(i .. j)
  BY FS_Interval
<1>2. Ones(bytes, i, j, b) \subseteq i .. j
  BY DEF Ones
<1>. QED
  BY <1>1, <1>2, FS_Subset, FS_CardinalityType

\* A bit that is 1 in one byte more is counted once more.
LEMMA OneMoreBit ==
    ASSUME NEW i \in Nat, NEW j \in Nat, NEW k \in i .. j, NEW b,
           NEW data, NEW other,
           \A m \in (i .. j) \ {k} : data[m] = other[m],
           b \in data[k], b \notin other[k]
    PROVE  Cardinality(Ones(data, i, j, b)) % 2 # Cardinality(Ones(other, i, j, b)) % 2
<1>. DEFINE with    == Ones(data, i, j, b)
            without == Ones(other, i, j, b)
<1>1. with = without \cup {k} /\ k \notin without
  BY DEF Ones
<1>2. IsFiniteSet(without) /\ Cardinality(without) \in Nat
  BY OnesFinite
<1>. HIDE DEF with, without
<1>3. Cardinality(with) = Cardinality(without) + 1
  BY <1>1, <1>2, FS_AddElement
<1>4. Cardinality(with) % 2 # Cardinality(without) % 2
  BY <1>2, <1>3
<1>. QED
  BY <1>4 DEF with, without

\* The parity tells apart any two runs of bytes that differ in one of them
\* (Calculator::calculateXorParity()).
LEMMA ParityDiffers ==
    ASSUME NEW i \in Nat, NEW j \in Nat, NEW k \in i .. j, NEW data, NEW other,
           data[k] \subseteq Bits, other[k] \subseteq Bits, data[k] # other[k],
           \A m \in (i .. j) \ {k} : data[m] = other[m]
    PROVE  XorParity(data, i, j) # XorParity(other, i, j)
<1>1. PICK b \in Bits : ~(b \in data[k] <=> b \in other[k])
  OBVIOUS
<1>. DEFINE n == Cardinality(Ones(data, i, j, b))
            o == Cardinality(Ones(other, i, j, b))
<1>2. n % 2 # o % 2
  <2>1. CASE b \in data[k]
    <3>1. b \notin other[k]
      BY <1>1, <2>1
    <3>. QED
      BY <2>1, <3>1, OneMoreBit
  <2>2. CASE b \in other[k]
    <3>1. b \notin data[k] /\ \A m \in (i .. j) \ {k} : other[m] = data[m]
      BY <1>1, <2>2
    <3>. QED
      BY <2>2, <3>1, OneMoreBit
  <2>. QED
    BY <1>1, <2>1, <2>2
<1>3. n \in Nat /\ o \in Nat
  BY OnesFinite
<1>4. /\ b \in XorParity(data, i, j) <=> n % 2 = 1
      /\ b \in XorParity(other, i, j) <=> o % 2 = 1
  BY DEF XorParity, Ones
<1>. HIDE DEF n, o
<1>5. ~(b \in XorParity(data, i, j) <=> b \in XorParity(other, i, j))
  BY <1>2, <1>3, <1>4
<1>. QED
  BY <1>5

\* A reply that is damaged in one byte that the parity covers, or in the parity
\* itself, does not pass successChecksumIsCorrect().
LEMMA OneByteOff ==
    ASSUME NEW e, e.parity \in {1, 2}, e.success \in Nat, e.parity < e.success,
           NEW sent, NEW received, NEW k \in e.parity .. e.success,
           sent[k] # received[k],
           \A m \in 1 .. e.success : sent[m] \subseteq Bits /\ received[m] \subseteq Bits,
           \A m \in (1 .. e.success) \ {k} : sent[m] = received[m],
           SuccessChecksumIsCorrect(e, sent)
    PROVE  ~SuccessChecksumIsCorrect(e, received)
<1>. DEFINE last == e.success - 1
<1>1. e.parity \in {1, 2} /\ e.success \in Nat /\ e.parity < e.success
  OBVIOUS
<1>2. /\ last \in Nat
      /\ e.parity .. last \subseteq 1 .. e.success
      /\ e.success \notin e.parity .. last
  BY <1>1
<1>3. XorParity(sent, e.parity, last) = sent[e.success]
  BY <1>1 DEF SuccessChecksumIsCorrect
<1>4. CASE k = e.success
  <2>1. \A m \in e.parity .. last : sent[m] = received[m]
    BY <1>2, <1>4
  <2>2. XorParity(sent, e.parity, last) = XorParity(received, e.parity, last)
    <3>1. \A b : { m \in e.parity .. last : b \in sent[m] }
                    = { m \in e.parity .. last : b \in received[m] }
      BY <2>1
    <3>. QED
      BY <3>1 DEF XorParity
  <2>. QED
    BY <1>1, <1>3, <1>4, <2>2 DEF SuccessChecksumIsCorrect
<1>5. CASE k # e.success
  <2>1. k \in e.parity .. last
    BY <1>1, <1>5
  <2>. HIDE DEF last
  <2>2. XorParity(sent, e.parity, last) # XorParity(received, e.parity, last)
    <3>1. /\ e.parity \in Nat
          /\ sent[k] \subseteq Bits /\ received[k] \subseteq Bits
          /\ sent[k] # received[k]
          /\ \A m \in (e.parity .. last) \ {k} : sent[m] = received[m]
      BY <1>1, <1>2, <2>1
    <3>. QED
      BY <1>2, <2>1, <3>1, ParityDiffers
  <2>3. sent[e.success] = received[e.success]
    BY <1>1, <1>5
  <2>. QED
    BY <1>1, <1>3, <2>2, <2>3 DEF SuccessChecksumIsCorrect, last
<1>. QED
  BY <1>4, <1>5

\* The exchanges whose success is checked, with the bytes that are covered.
LEMMA Covered ==
    ASSUME NEW length \in Nat
    PROVE  \A e \in {ReadRegister, ReadMultiRegister(length), WriteRegister,
                     ReadAutoAddressIncrementRegister(length), WriteMultiRegister,
                     WriteAutoAddressIncrementRegister, SerialRead, StatusRead} :
             e.parity \in {1, 2} /\ e.success \in Nat /\ e.parity < e.success
<1>. USE DEF McuExchange, Exchange
<1>1. ReadRegister.parity = 1 /\ ReadRegister.success = 4
  BY DEF ReadRegister
<1>2. ReadMultiRegister(length).parity = 1 /\ ReadMultiRegister(length).success = 3 + length
  BY DEF ReadMultiRegister
<1>3. /\ ReadAutoAddressIncrementRegister(length).parity = 1
      /\ ReadAutoAddressIncrementRegister(length).success = 3 + length
  BY DEF ReadAutoAddressIncrementRegister
<1>4. \A e \in {WriteRegister, WriteMultiRegister, WriteAutoAddressIncrementRegister} :
        e.parity = 1 /\ e.success = 3
  BY DEF WriteRegister, WriteMultiRegister, WriteAutoAddressIncrementRegister
<1>5. SerialRead.parity = 1 /\ SerialRead.success = 6
  BY DEF SerialRead
<1>6. StatusRead.parity = 2 /\ StatusRead.success = 13
  BY DEF StatusRead
<1>. QED
  BY <1>1, <1>2, <1>3, <1>4, <1>5, <1>6

\* Of two replies that differ in one covered byte, which may be the parity itself,
\* at most one passes successChecksumIsCorrect(): a reply of the board that is
\* damaged in one byte on its way is never taken for a success.  So it is for every
\* exchange that reads and for those that write registers, however many bytes they
\* read.
THEOREM DamageDetected ==
    ASSUME NEW length \in Nat,
           NEW e \in {ReadRegister, ReadMultiRegister(length), WriteRegister,
                      ReadAutoAddressIncrementRegister(length), WriteMultiRegister,
                      WriteAutoAddressIncrementRegister, SerialRead, StatusRead},
           NEW sent \in [1 .. e.success -> SUBSET Bits],
           NEW received \in [1 .. e.success -> SUBSET Bits],
           NEW k \in e.parity .. e.success,
           sent[k] # received[k],
           \A m \in (1 .. e.success) \ {k} : sent[m] = received[m],
           SuccessChecksumIsCorrect(e, sent)
    PROVE  ~SuccessChecksumIsCorrect(e, received)
<1>1. e.parity \in {1, 2} /\ e.success \in Nat /\ e.parity < e.success
  BY Covered
<1>2. \A m \in 1 .. e.success : sent[m] \subseteq Bits /\ received[m] \subseteq Bits
  OBVIOUS
<1>. QED
  BY <1>1, <1>2, OneByteOff

-----------------------------------------------------------------------------
(* The exchanges of Link and the frames of its board.                      *)

Byte == SUBSET Bits

\* What host and board know of an exchange.
Proper(e) ==
    /\ e.success \in 1 .. Longest /\ e.error \in 1 .. Longest
    /\ e.opcode \in Byte /\ e.opcode # NACK /\ e.opcode # INTERRUPT
    /\ e.parity \in {0, 1, 2} /\ (e.parity = 0 \/ e.parity < e.success)
    /\ e.result \subseteq 1 .. e.success
    /\ e.parity = 0 => e.result = {}

\* There is an opcode at least.
LEMMA ProperLengths ==
    ASSUME NEW e, Proper(e)
    PROVE  e.success \in Nat /\ e.error \in Nat /\ e.success >= 1 /\ e.error >= 1
<1>1. e.success \in 1 .. 13 /\ e.error \in 1 .. 13
  BY DEF Proper, Longest
<1>. QED
  BY <1>1

\* So it is for each exchange of the table.
LEMMA KindsProper == ASSUME NEW k \in AllKinds PROVE Proper(Table[k])
<1>. USE DEF Proper, Exchange, McuExchange, Longest, Byte, Bits, ACK, NACK, INTERRUPT
<1>1. NACK \in Byte /\ INTERRUPT \in Byte /\ NACK # INTERRUPT
  OBVIOUS
<1>2. Proper(ReadRegister)
  BY DEF ReadRegister
<1>3. Proper(ReadMultiRegister(2))
  BY DEF ReadMultiRegister
<1>4. Proper(ReadAutoAddressIncrementRegister(1))
  BY DEF ReadAutoAddressIncrementRegister
<1>5. /\ Proper(WriteRegister) /\ Proper(WriteMultiRegister)
      /\ Proper(WriteAutoAddressIncrementRegister)
  BY DEF WriteRegister, WriteMultiRegister, WriteAutoAddressIncrementRegister
<1>6. Proper(InterruptEnable) /\ Proper(SelectMcu)
  BY DEF InterruptEnable, SelectMcu
<1>7. Proper(SelectSoc) /\ Proper(ConfigureFpga)
  BY DEF SelectSoc, ConfigureFpga
<1>8. Proper(Sector4096ByteWrite) /\ Proper(SerialWrite) /\ Proper(StatusWrite)
  BY DEF Sector4096ByteWrite, SerialWrite, StatusWrite
<1>9. Proper(SerialRead)
  BY DEF SerialRead
<1>10. Proper(StatusRead)
  BY DEF StatusRead
<1>. HIDE DEF Proper
<1>. QED
  BY <1>2, <1>3, <1>4, <1>5, <1>6, <1>7, <1>8, <1>9, <1>10 DEF AllKinds, Table

\* The parity that is appended to bytes is the one the host calculates.
LEMMA ParityOfFrame ==
    ASSUME NEW bytes \in Seq(Byte), NEW i \in {1, 2}, NEW e,
           e.parity = 0 \/ e.parity = i, e.success = Len(bytes) + 1
    PROVE  /\ WithParity(bytes, i) \in Seq(Byte)
           /\ Len(WithParity(bytes, i)) = e.success
           /\ Len(bytes) > 0 => WithParity(bytes, i)[1] = bytes[1]
           /\ SuccessChecksumIsCorrect(e, WithParity(bytes, i))
<1>. DEFINE n == Len(bytes)
            p == XorParity(bytes, i, n)
            frame == Append(bytes, p)
<1>1. n \in Nat /\ p \in Byte
  BY LenProperties DEF XorParity, Byte
<1>2. /\ frame \in Seq(Byte) /\ Len(frame) = n + 1 /\ frame[n + 1] = p
      /\ \A m \in 1 .. n : frame[m] = bytes[m]
  BY <1>1, AppendProperties
<1>3. XorParity(frame, i, n) = p
  <2>1. \A b : { m \in i .. n : b \in frame[m] } = { m \in i .. n : b \in bytes[m] }
    BY <1>1, <1>2
  <2>. QED
    BY <2>1 DEF XorParity
<1>4. e.success - 1 = n
  BY <1>1
<1>. HIDE DEF n, p, frame
<1>5. SuccessChecksumIsCorrect(e, frame)
  BY <1>1, <1>2, <1>3, <1>4 DEF SuccessChecksumIsCorrect, n
<1>. QED
  BY <1>1, <1>2, <1>5 DEF WithParity, frame, p, n

\* The lengths of the board's frames are those the exchanges expect.
LEMMA KindsOfFrames ==
    /\ DOMAIN DataBytes = {"ReadRegister", "ReadMulti", "ReadIncrement"}
    /\ \A k \in DOMAIN DataBytes :
            /\ DataBytes[k] \in Nat /\ Table[k].success = 3 + DataBytes[k]
            /\ Table[k].parity = 1 /\ Table[k].error = 4
    /\ \A k \in Soc \ DOMAIN DataBytes :
            /\ Table[k].success = 3 /\ Table[k].parity \in {0, 1}
            /\ Table[k].opcode = ACK /\ Table[k].error = 4
    /\ Table["SerialRead"].success = 6 /\ Table["SerialRead"].parity = 1
    /\ Table["StatusRead"].success = 13 /\ Table["StatusRead"].parity = 2
    /\ \A k \in AllKinds \ Soc : Table[k].error = 1
    /\ \A k \in AllKinds \ (Soc \cup {"SerialRead", "StatusRead"}) :
            Table[k].success = 1 /\ Table[k].parity = 0 /\ Table[k].opcode = ACK
<1>. USE DEF Exchange, McuExchange
<1>1. ReadRegister.success = 4 /\ ReadRegister.error = 4 /\ ReadRegister.parity = 1
  BY DEF ReadRegister
<1>2. /\ ReadMultiRegister(2).success = 5 /\ ReadMultiRegister(2).error = 4
      /\ ReadMultiRegister(2).parity = 1
  BY DEF ReadMultiRegister
<1>3. /\ ReadAutoAddressIncrementRegister(1).success = 4
      /\ ReadAutoAddressIncrementRegister(1).error = 4
      /\ ReadAutoAddressIncrementRegister(1).parity = 1
  BY DEF ReadAutoAddressIncrementRegister
<1>. DEFINE Acknowledged(e) ==
            e.success = 3 /\ e.error = 4 /\ e.parity \in {0, 1} /\ e.opcode = ACK
<1>4. /\ Acknowledged(WriteRegister) /\ Acknowledged(WriteMultiRegister)
      /\ Acknowledged(WriteAutoAddressIncrementRegister)
      /\ Acknowledged(InterruptEnable) /\ Acknowledged(SelectMcu)
  <2>1. Acknowledged(WriteRegister) /\ Acknowledged(WriteMultiRegister)
    BY DEF WriteRegister, WriteMultiRegister
  <2>2. Acknowledged(WriteAutoAddressIncrementRegister)
    BY DEF WriteAutoAddressIncrementRegister
  <2>3. Acknowledged(InterruptEnable) /\ Acknowledged(SelectMcu)
    BY DEF InterruptEnable, SelectMcu
  <2>. QED
    BY <2>1, <2>2, <2>3
<1>5. \A e \in {SelectSoc, ConfigureFpga, Sector4096ByteWrite, SerialWrite, StatusWrite} :
        e.success = 1 /\ e.error = 1 /\ e.parity = 0 /\ e.opcode = ACK
  BY DEF SelectSoc, ConfigureFpga, Sector4096ByteWrite, SerialWrite, StatusWrite
<1>6. SerialRead.success = 6 /\ SerialRead.error = 1 /\ SerialRead.parity = 1
  BY DEF SerialRead
<1>7. StatusRead.success = 13 /\ StatusRead.error = 1 /\ StatusRead.parity = 2
  BY DEF StatusRead
<1>8. /\ DOMAIN DataBytes = {"ReadRegister", "ReadMulti", "ReadIncrement"}
      /\ DataBytes["ReadRegister"] = 1 /\ DataBytes["ReadMulti"] = 2
      /\ DataBytes["ReadIncrement"] = 1
  BY DEF DataBytes
<1>. QED
  BY <1>1, <1>2, <1>3, <1>4, <1>5, <1>6, <1>7, <1>8 DEF AllKinds, Table, Soc

\* A reply to a request that was carried out has the length, the opcode and the
\* checksum that the exchange expects.
LEMMA FrameIsWhole ==
    ASSUME kind \in AllKinds, register' \in Byte
    PROVE  /\ SuccessFrame \in Seq(Byte)
           /\ Len(SuccessFrame) = x.success
           /\ SuccessFrame[1] = x.opcode
           /\ SuccessChecksumIsCorrect(x, SuccessFrame)
<1>1. x.opcode \in Byte /\ ACK \in Byte /\ {} \in Byte
  BY KindsProper DEF Proper, x, ACK, Byte
<1>2. \A n \in Nat : Content(n) \in Seq(Byte) /\ Len(Content(n)) = n
  BY DEF Content
<1>3. CASE kind \in DOMAIN DataBytes
  <2>. DEFINE n == DataBytes[kind]
              bytes == << x.opcode, {} >> \o Content(n)
  <2>1. n \in Nat /\ x.success = 3 + n /\ x.parity = 1
    BY <1>3, KindsOfFrames DEF x
  <2>2. << x.opcode, {} >> \in Seq(Byte)
    BY <1>1
  <2>3. bytes \in Seq(Byte) /\ Len(bytes) = 2 + n /\ bytes[1] = x.opcode
    BY <1>2, <2>1, <2>2, ConcatProperties
  <2>4. SuccessFrame = WithParity(bytes, 1)
    BY <1>3, KindsOfFrames DEF SuccessFrame
  <2>. HIDE DEF bytes, n
  <2>. QED
    BY <2>1, <2>3, <2>4, ParityOfFrame
<1>4. CASE kind \in Soc \ DOMAIN DataBytes
  <2>1. x.success = 3 /\ x.parity \in {0, 1} /\ x.opcode = ACK
    BY <1>4, KindsOfFrames DEF x
  <2>. DEFINE bytes == << ACK, {} >>
  <2>2. bytes \in Seq(Byte) /\ Len(bytes) = 2 /\ bytes[1] = ACK
    BY <1>1
  <2>3. SuccessFrame = WithParity(bytes, 1)
    BY <1>4, KindsOfFrames DEF SuccessFrame, Soc
  <2>. HIDE DEF bytes
  <2>4. (x.parity = 0 \/ x.parity = 1) /\ x.success = Len(bytes) + 1 /\ Len(bytes) > 0
    BY <2>1, <2>2
  <2>5. /\ WithParity(bytes, 1) \in Seq(Byte)
        /\ Len(WithParity(bytes, 1)) = x.success
        /\ WithParity(bytes, 1)[1] = bytes[1]
        /\ SuccessChecksumIsCorrect(x, WithParity(bytes, 1))
    BY <2>2, <2>4, ParityOfFrame
  <2>. QED
    BY <2>1, <2>2, <2>3, <2>5
<1>5. ASSUME NEW n \in Nat, NEW i \in {1, 2}, x.success = n + 2, x.parity = i,
             SuccessFrame = WithParity(<< x.opcode >> \o Content(n), i)
      PROVE  /\ SuccessFrame \in Seq(Byte)
             /\ Len(SuccessFrame) = x.success
             /\ SuccessFrame[1] = x.opcode
             /\ SuccessChecksumIsCorrect(x, SuccessFrame)
  <2>. DEFINE bytes == << x.opcode >> \o Content(n)
  <2>1. << x.opcode >> \in Seq(Byte)
    BY <1>1
  <2>2. bytes \in Seq(Byte) /\ Len(bytes) = n + 1 /\ bytes[1] = x.opcode
    BY <1>2, <2>1, ConcatProperties
  <2>. HIDE DEF bytes
  <2>3. SuccessFrame = WithParity(bytes, i)
    BY <1>5 DEF bytes
  <2>. QED
    BY <1>5, <2>2, <2>3, ParityOfFrame
<1>6. CASE kind = "SerialRead"
  <2>1. SuccessFrame = WithParity(<< x.opcode >> \o Content(4), 1)
    BY <1>6, KindsOfFrames DEF SuccessFrame, Soc
  <2>2. x.success = 6 /\ x.parity = 1
    BY <1>6, KindsOfFrames DEF x
  <2>. QED
    BY <1>5, <2>1, <2>2
<1>7. CASE kind = "StatusRead"
  <2>1. SuccessFrame = WithParity(<< x.opcode >> \o Content(11), 2)
    BY <1>7, KindsOfFrames DEF SuccessFrame, Soc
  <2>2. x.success = 13 /\ x.parity = 2
    BY <1>7, KindsOfFrames DEF x
  <2>. QED
    BY <1>5, <2>1, <2>2
<1>8. CASE kind \notin Soc /\ kind # "SerialRead" /\ kind # "StatusRead"
  <2>1. x.success = 1 /\ x.parity = 0 /\ x.opcode = ACK
    BY <1>8, KindsOfFrames DEF x
  <2>2. SuccessFrame = << ACK >>
    BY <1>8, KindsOfFrames DEF SuccessFrame, Soc
  <2>. QED
    BY <1>1, <2>1, <2>2 DEF SuccessChecksumIsCorrect
<1>. QED
  BY <1>3, <1>4, <1>6, <1>7, <1>8

\* So has a refusal its length and its opcode.
LEMMA ErrorIsWhole ==
    ASSUME kind \in AllKinds
    PROVE  /\ ErrorFrame \in Seq(Byte)
           /\ Len(ErrorFrame) = x.error
           /\ ErrorFrame[1] = NACK
<1>1. NACK \in Byte /\ {} \in Byte /\ {1} \in Byte
  BY DEF NACK, Byte, Bits
<1>2. CASE kind \in Soc
  <2>1. x.error = 4
    BY <1>2, KindsOfFrames DEF x
  <2>2. << NACK, {}, {1} >> \in Seq(Byte) /\ Len(<< NACK, {}, {1} >>) = 3
    BY <1>1
  <2>. DEFINE bytes == << NACK, {}, {1} >>
  <2>3. XorParity(bytes, 1, 3) \in Byte
    BY DEF XorParity, Byte
  <2>4. bytes[1] = NACK
    OBVIOUS
  <2>5. ErrorFrame = Append(bytes, XorParity(bytes, 1, 3))
    BY <1>2, <2>2 DEF ErrorFrame, WithParity
  <2>. HIDE DEF bytes
  <2>. QED
    BY <2>1, <2>2, <2>3, <2>4, <2>5, AppendProperties DEF bytes
<1>3. CASE kind \notin Soc
  BY <1>1, <1>3, KindsOfFrames DEF x, ErrorFrame
<1>. QED
  BY <1>2, <1>3

-----------------------------------------------------------------------------
(* Types and the answer.                                                   *)

TypeOK ==
    /\ stage \in {"idle", "send", "opcode", "rest", "error", "core", "aborted"}
    /\ kind \in AllKinds
    /\ depth \in {0, 1}
    /\ stage = "core" => depth = 0
    /\ outcome \in {"none", "all", "short"}
    /\ missing \in Nat
    /\ reading \in Seq(Byte)
    /\ reply \in [1 .. Longest -> Byte]
    /\ triggering \in Byte
    /\ queue \in Seq(Byte)
    /\ asked \in BOOLEAN /\ irqs \in BOOLEAN /\ returned \in BOOLEAN
    /\ register \in Byte

\* The board's last success reply has the length, the opcode and the checksum of
\* the exchange.
AnswerWhole ==
    /\ answer \in Seq(Byte)
    /\ answer # << >> => /\ Len(answer) = x.success
                         /\ answer[1] = x.opcode
                         /\ SuccessChecksumIsCorrect(x, answer)

\* The exchange that is made is one of the table.
LEMMA XProper == ASSUME TypeOK PROVE Proper(x)
<1>1. kind \in AllKinds
  BY DEF TypeOK
<1>. QED
  BY <1>1, KindsProper DEF x

LEMMA InitialTypes == Init => TypeOK /\ AnswerWhole
<1>. SUFFICES ASSUME Init PROVE TypeOK /\ AnswerWhole
  OBVIOUS
<1>1. kind \in AllKinds
  BY DEF Init, AllKinds, Table
<1>2. reply \in [1 .. Longest -> Byte]
  BY DEF Init, Zeros, Byte
<1>3. register \in Byte
  BY LinkAssumption DEF Init, Byte
<1>4. << >> \in Seq(Byte)
  BY EmptySeq
<1>5. TypeOK
  BY <1>1, <1>2, <1>3, <1>4 DEF Init, TypeOK, Byte
<1>6. AnswerWhole
  BY <1>4 DEF Init, AnswerWhole
<1>. QED
  BY <1>5, <1>6

\* What the line makes of a frame are bytes.
LEMMA CarriedBytes ==
    ASSUME NEW frame \in Seq(Byte), queue \in Seq(Byte), Carried(frame)
    PROVE  queue' \in Seq(Byte)
<1>1. ACK \in Byte /\ NACK \in Byte /\ INTERRUPT \in Byte /\ {7} \in Byte
  BY DEF ACK, NACK, INTERRUPT, Byte, Bits
<1>2. Values \subseteq Byte
  BY LinkAssumption DEF Byte
<1>3. CASE queue' = queue \o frame
  BY <1>3
<1>4. ASSUME NEW i \in 2 .. Len(frame), NEW byte \in Values \cup {ACK},
             queue' = queue \o [frame EXCEPT ![i] = byte]
      PROVE  queue' \in Seq(Byte)
  <2>1. [frame EXCEPT ![i] = byte] \in Seq(Byte)
    BY <1>1, <1>2, ExceptSeq
  <2>. QED
    BY <1>4, <2>1
<1>5. ASSUME NEW byte \in {ACK, NACK, INTERRUPT, {7}},
             queue' = queue \o [frame EXCEPT ![1] = byte]
      PROVE  queue' \in Seq(Byte)
  <2>1. [frame EXCEPT ![1] = byte] \in Seq(Byte)
    <3>1. CASE 1 \in DOMAIN frame
      <4>1. 1 \in 1 .. Len(frame) /\ byte \in Byte
        BY <1>1, <3>1, LenProperties
      <4>. QED
        BY <4>1, ExceptSeq
    <3>2. CASE 1 \notin DOMAIN frame
      <4>1. [frame EXCEPT ![1] = byte] = frame
        BY <3>2
      <4>. QED
        BY <4>1
    <3>. QED
      BY <3>1, <3>2
  <2>. QED
    BY <1>5, <2>1
<1>6. ASSUME NEW n \in 1 .. Len(frame) - 1, queue' = queue \o SubSeq(frame, 1, n)
      PROVE  queue' \in Seq(Byte)
  <2>1. SubSeq(frame, 1, n) \in Seq(Byte)
    BY SubSeqProperties
  <2>. QED
    BY <1>6, <2>1
<1>. QED
  BY <1>3, <1>4, <1>5, <1>6 DEF Carried

\* A part of a sequence of bytes.
LEMMA PartBytes ==
    ASSUME NEW q \in Seq(Byte), Len(q) >= 3
    PROVE  /\ SubSeq(q, 2, 3) \in Seq(Byte) /\ Len(SubSeq(q, 2, 3)) = 2
           /\ SubSeq(q, 2, 3)[1] = q[2] /\ SubSeq(q, 2, 3)[2] = q[3]
           /\ SubSeq(q, 4, Len(q)) \in Seq(Byte)
           /\ Len(q) = 3 => Len(SubSeq(q, 4, Len(q))) = 0
<1>1. Len(q) \in Nat
  BY LenProperties
<1>2. \A i \in 2 .. 3 : q[i] \in Byte
  BY <1>1
<1>3. \A i \in 4 .. Len(q) : q[i] \in Byte
  BY <1>1
<1>. QED
  BY <1>1, <1>2, <1>3, SubSeqProperties

\* TakeBytes moves bytes from the line to the buffer and, once it is full, to
\* the array.
LEMMA Taken ==
    ASSUME TypeOK, TakeBytes
    PROVE  \E n \in Nat :
             /\ n <= Len(queue) /\ n <= missing /\ (missing > 0 => n > 0)
             /\ n = missing \/ n = Len(queue)
             /\ reading' = reading \o SubSeq(queue, 1, n)
             /\ queue' = SubSeq(queue, n + 1, Len(queue))
             /\ missing' = missing - n
             /\ reply' = IF missing = n THEN Stored(reading') ELSE reply
             /\ outcome' = IF missing = n THEN "all" ELSE "none"
             /\ reading' \in Seq(Byte) /\ queue' \in Seq(Byte)
             /\ reading' \o queue' = reading \o queue
             /\ Len(queue') = Len(queue) - n
             /\ \A i \in 1 .. Len(queue) - n : queue'[i] = queue[n + i]
             /\ Len(reading') = Len(reading) + n
<1>. DEFINE n == IF Len(queue) < missing THEN Len(queue) ELSE missing
<1>1. /\ reading \in Seq(Byte) /\ queue \in Seq(Byte)
      /\ missing \in Nat /\ Len(queue) \in Nat /\ Len(reading) \in Nat
  BY LenProperties DEF TypeOK
<1>2. /\ n \in Nat /\ n <= Len(queue) /\ n <= missing /\ (n = missing \/ n = Len(queue))
      /\ missing > 0 => n > 0
  <2>1. Len(queue) > 0
    BY <1>1, EmptySeq DEF TakeBytes
  <2>. QED
    BY <1>1, <2>1
<1>3. /\ reading' = reading \o SubSeq(queue, 1, n)
      /\ queue' = SubSeq(queue, n + 1, Len(queue))
      /\ missing' = missing - n
      /\ reply' = IF missing = n THEN Stored(reading') ELSE reply
      /\ outcome' = IF missing = n THEN "all" ELSE "none"
  BY DEF TakeBytes
<1>. HIDE DEF n
<1>. DEFINE a == SubSeq(queue, 1, n)
            b == SubSeq(queue, n + 1, Len(queue))
<1>4. a \in Seq(Byte) /\ Len(a) = n /\ \A i \in 1 .. n : a[i] = queue[i]
  <2>1. \A i \in 1 .. n : queue[i] \in Byte
    BY <1>1, <1>2
  <2>. QED
    BY <1>1, <1>2, <2>1, SubSeqProperties
<1>5. /\ b \in Seq(Byte) /\ Len(b) = Len(queue) - n
      /\ \A i \in 1 .. Len(queue) - n : b[i] = queue[n + i]
  <2>1. \A i \in n + 1 .. Len(queue) : queue[i] \in Byte
    BY <1>1, <1>2
  <2>. QED
    BY <1>1, <1>2, <2>1, SubSeqProperties
<1>6. a \o b = queue
  <2>1. 1 \in 1 .. Len(queue) + 1 /\ n \in 1 - 1 .. Len(queue) /\ Len(queue) \in n .. Len(queue)
    BY <1>1, <1>2
  <2>2. a \o b = SubSeq(queue, 1, Len(queue))
    BY <1>1, <2>1, ConcatAdjacentSubSeq, Zenon
  <2>. QED
    BY <1>1, <2>2, SubSeqFull
<1>. HIDE DEF a, b
<1>7. reading \o a \in Seq(Byte) /\ Len(reading \o a) = Len(reading) + n
  BY <1>1, <1>2, <1>4, ConcatProperties
<1>8. (reading \o a) \o b = reading \o queue
  <2>1. reading \in Seq(Byte) /\ a \in Seq(Byte) /\ b \in Seq(Byte)
    BY <1>1, <1>4, <1>5
  <2>2. (reading \o a) \o b = reading \o (a \o b)
    BY <2>1, ConcatAssociative
  <2>. QED
    BY <1>6, <2>2
<1>. QED
  BY <1>2, <1>3, <1>4, <1>5, <1>6, <1>7, <1>8 DEF a, b

\* What is left in the queue is taken from it.
LEMMA FetchBytes ==
    ASSUME TypeOK, FetchAsyncReplies
    PROVE  /\ queue' \in Seq(Byte) /\ reading' \in Seq(Byte) /\ triggering' \in Byte
           /\ stage' \in {"send", "aborted"} /\ returned' \in BOOLEAN
<1>1. queue \in Seq(Byte) /\ reading \in Seq(Byte) /\ triggering \in Byte /\ {} \in Byte
      /\ returned \in BOOLEAN /\ Len(queue) \in Nat
  BY LenProperties DEF TypeOK, Byte
<1>2. CASE queue = << >> /\ Serve(triggering) /\ UNCHANGED << queue, reading >>
  BY <1>1, <1>2 DEF Serve, Aborted
<1>3. CASE /\ Len(queue) >= 3
           /\ reading' = SubSeq(queue, 2, 3) /\ queue' = SubSeq(queue, 4, Len(queue))
           /\ IF queue[2] = queue[3] THEN Serve(queue[2]) ELSE Aborted /\ UNCHANGED triggering
  <2>1. reading' \in Seq(Byte) /\ queue' \in Seq(Byte)
    BY <1>1, <1>3, PartBytes
  <2>2. triggering' \in {triggering, {}}
    BY <1>3 DEF Serve
  <2>. QED
    BY <1>1, <1>3, <2>1, <2>2 DEF Serve, Aborted
<1>4. CASE /\ queue # << >> /\ reading' = << queue[1] >> /\ queue' = Tail(queue)
           /\ Aborted /\ UNCHANGED triggering
  <2>1. queue[1] \in Byte /\ Tail(queue) \in Seq(Byte)
    BY <1>1, <1>4, EmptySeq, HeadTailProperties
  <2>2. << queue[1] >> \in Seq(Byte)
    BY <2>1
  <2>3. queue' \in Seq(Byte) /\ reading' \in Seq(Byte)
    BY <1>4, <2>1, <2>2
  <2>. QED
    BY <1>1, <1>4, <2>3 DEF Aborted
<1>. QED
  BY <1>2, <1>3, <1>4 DEF FetchAsyncReplies

LEMMA TypeStep == TypeOK /\ AnswerWhole /\ [Next]_vars => TypeOK' /\ AnswerWhole'
<1>. SUFFICES ASSUME TypeOK, AnswerWhole, [Next]_vars
              PROVE  TypeOK' /\ AnswerWhole'
  OBVIOUS
<1>. USE DEF TypeOK, NoFault, Fault, host, board
<1>1. << >> \in Seq(Byte)
  BY EmptySeq
<1>2. Zeros \in [1 .. Longest -> Byte]
  BY DEF Zeros, Byte
<1>3. x.success - 1 \in Nat /\ x.error - 1 \in Nat
  BY XProper DEF Proper, Longest
<1>4. kind' = kind /\ UNCHANGED answer => AnswerWhole'
  BY DEF AnswerWhole, x
<1>5. CASE OpenDevice \/ CloseDevice
  BY <1>1, <1>4, <1>5 DEF OpenDevice, CloseDevice
<1>6. CASE Unplug
  BY <1>4, <1>6 DEF Unplug
<1>7. ASSUME NEW k \in Kinds, DoSyncTask(k) PROVE TypeOK' /\ AnswerWhole'
  <2>1. k \in AllKinds
    BY LinkAssumption
  <2>2. queue' \in Seq(Byte) /\ reading' \in Seq(Byte) /\ triggering' \in Byte
        /\ stage' \in {"send", "aborted"} /\ returned' \in BOOLEAN
    BY <1>7, FetchBytes DEF DoSyncTask
  <2>3. TypeOK'
    BY <1>7, <2>1, <2>2 DEF DoSyncTask
  <2>4. AnswerWhole'
    BY <1>1, <1>7 DEF DoSyncTask, AnswerWhole
  <2>. QED
    BY <2>3, <2>4
<1>8. CASE TakeBytes
  <2>. PICK n \in Nat :
            /\ n <= missing /\ missing' = missing - n
            /\ reply' = IF missing = n THEN Stored(reading') ELSE reply
            /\ outcome' = IF missing = n THEN "all" ELSE "none"
            /\ reading' \in Seq(Byte) /\ queue' \in Seq(Byte)
    BY <1>8, Taken
  <2>1. /\ reading' \in Seq(Byte) /\ queue' \in Seq(Byte) /\ missing' \in Nat
        /\ outcome' \in {"all", "none"}
        /\ reply' = reply \/ reply' = Stored(reading')
    OBVIOUS
  <2>2. Stored(reading') \in [1 .. Longest -> Byte]
    <3>1. \A i \in DOMAIN reading' : reading'[i] \in Byte
      BY <2>1, LenProperties, ElementOfSeq
    <3>. QED
      BY <3>1 DEF Stored, Offset
  <2>. QED
    BY <1>4, <1>8, <2>1, <2>2 DEF TakeBytes
<1>9. CASE TimeOut
  BY <1>4, <1>9 DEF TimeOut
<1>10. CASE Send
  BY <1>1, <1>2, <1>4, <1>10 DEF Send, Receive, Fresh
<1>11. CASE SendFails
  BY <1>4, <1>11 DEF SendFails, GiveUpOrRetry
<1>12. CASE OpcodeReceived
  <2>1. depth < 1 => depth = 0
    OBVIOUS
  <2>2. /\ UNCHANGED <<kind, depth, reply, triggering, queue, asked, irqs, register, answer>>
    BY <1>12 DEF OpcodeReceived
  <2>3. outcome' \in {outcome, "none"} /\ reading' \in {reading, << >>}
    BY <1>12 DEF OpcodeReceived, Receive
  <2>4. missing' \in {missing, x.success - 1, x.error - 1, 2}
    BY <1>12 DEF OpcodeReceived, Receive
  <2>5. /\ stage' \in {"idle", "send", "rest", "error", "core", "aborted"}
        /\ stage' = "core" => depth < 1
        /\ returned' \in BOOLEAN
    BY <1>12 DEF OpcodeReceived, Receive, Return, GiveUpOrRetry, Aborted
  <2>6. missing' \in Nat
    BY <1>3, <2>4
  <2>7. TypeOK'
    BY <1>1, <2>1, <2>2, <2>3, <2>5, <2>6
  <2>. QED
    BY <1>4, <2>2, <2>7
<1>13. CASE RestReceived
  BY <1>4, <1>13 DEF RestReceived, Return, GiveUpOrRetry
<1>14. CASE ErrorReceived
  BY <1>4, <1>14 DEF ErrorReceived, GiveUpOrRetry
<1>15. CASE CoreReceived
  <2>1. triggering' \in {triggering, reply[2]} /\ reply[2] \in Byte
    BY <1>15 DEF CoreReceived, Longest
  <2>. QED
    BY <1>1, <1>2, <1>4, <1>15, <2>1 DEF CoreReceived, Reached, Receive, Fresh
<1>16. CASE Answer
  <2>1. register' \in Byte
    BY <1>16, LinkAssumption DEF Answer, Byte
  <2>2. /\ SuccessFrame \in Seq(Byte) /\ Len(SuccessFrame) = x.success
        /\ SuccessFrame[1] = x.opcode /\ SuccessChecksumIsCorrect(x, SuccessFrame)
    BY <2>1, FrameIsWhole
  <2>3. queue' \in Seq(Byte)
    BY <1>16, <2>2, CarriedBytes DEF Answer
  <2>4. TypeOK'
    BY <1>16, <2>1, <2>3 DEF Answer
  <2>5. answer' = SuccessFrame /\ kind' = kind
    BY <1>16 DEF Answer
  <2>6. x' = x
    BY <2>5 DEF x
  <2>7. AnswerWhole'
    BY <2>2, <2>5, <2>6 DEF AnswerWhole
  <2>. QED
    BY <2>4, <2>7
<1>17. CASE Refuse
  <2>1. queue' \in Seq(Byte)
    BY <1>17, ErrorIsWhole DEF Refuse
  <2>. QED
    BY <1>4, <1>17, <2>1 DEF Refuse
<1>18. CASE Lose
  BY <1>4, <1>18 DEF Lose
<1>19. CASE RaiseInterrupt
  <2>1. InterruptFrame \in Seq(Byte)
    BY DEF InterruptFrame, INTERRUPT, Core, Byte, Bits
  <2>2. queue' \in Seq(Byte)
    BY <1>19, <2>1, CarriedBytes DEF RaiseInterrupt
  <2>. QED
    BY <1>4, <1>19, <2>2 DEF RaiseInterrupt
<1>20. CASE UNCHANGED vars
  BY <1>4, <1>20 DEF vars
<1>. QED
  BY <1>5, <1>6, <1>7, <1>8, <1>9, <1>10, <1>11, <1>12, <1>13, <1>14, <1>15, <1>16,
     <1>17, <1>18, <1>19, <1>20 DEF Next, Host, Board

-----------------------------------------------------------------------------
(* Host and board in step.                                                 *)

\* The two copies of the core agree only if neither is damaged.
Genuine(a, b) == a = b => a = Core

\* Behind the first s bytes of q comes an interrupt.
InterruptAt(q, s) == q[s + 1] = INTERRUPT /\ Genuine(q[s + 2], q[s + 3])

\* Behind the first s bytes of q there is nothing, or an interrupt and no other
\* can be raised.
After(q, s, enabled) ==
    \/ Len(q) = s
    \/ Len(q) = s + 3 /\ InterruptAt(q, s) /\ ~enabled

\* The first n bytes of f are those of a, a reply of the board, but for one behind
\* the opcode.
Almost(f, a, n) ==
    a # << >> /\ \E k \in Nat \ {1} : \A i \in (1 .. n) \ {k} : f[i] = a[i]

\* Behind the first s bytes of q comes a reply to the exchange e, a if it is not
\* a refusal.
ReplyAt(q, s, enabled, e, a) ==
    \/ /\ After(q, s + e.success, enabled)
       /\ q[s + 1] = e.opcode
       /\ Almost([i \in 1 .. e.success |-> q[s + i]], a, e.success)
    \/ /\ After(q, s + e.error, enabled)
       /\ q[s + 1] = NACK

\* The interrupt that may come in before the reply has done so.
Interrupted ==
    \/ stage = "core" \/ depth = 1
    \/ stage = "opcode" /\ outcome = "all" /\ reply[1] = INTERRUPT

\* The reply has not begun.  The host still has to read so many bytes of what
\* comes before it.
Before(ahead) ==
    \/ asked /\ Interrupted /\ ~irqs /\ Len(queue) = ahead
    \/ asked /\ ~Interrupted /\ After(queue, 0, irqs)
    \/ ~asked /\ ReplyAt(queue, ahead, irqs, x, answer)
    \/ /\ ~asked /\ ~Interrupted /\ InterruptAt(queue, 0)
       /\ ReplyAt(queue, 3, irqs, x, answer)

\* What the host waits for and what is on the line belong together: outside an
\* attempt, ...
AtEnds == stage \in {"idle", "send"} => ~asked /\ After(queue, 0, irqs)

\* ... waiting for the opcode, having read it, ...
AtOpcode ==
    stage = "opcode" /\ outcome = "none" =>
        missing = 1 /\ reading = << >> /\ Before(0)

AtOpcodeRead ==
    stage = "opcode" /\ outcome = "all" =>
        \/ reply[1] = INTERRUPT /\ depth = 0 /\ Before(2) /\ Genuine(queue[1], queue[2])
        \/ /\ reply[1] = x.opcode /\ ~asked
           /\ After(queue, x.success - 1, irqs)
           /\ Almost(<< x.opcode >> \o queue, answer, x.success)
        \/ reply[1] = NACK /\ ~asked /\ After(queue, x.error - 1, irqs)

\* ... within an interrupt, within a reply and within a refusal.
CoreBytes == IF outcome = "none" THEN reading \o queue ELSE << reply[2], reply[3] >>

AtCore ==
    stage = "core" => /\ outcome = "none" <=> missing > 0
                      /\ Len(reading) + missing = 2
                      /\ Genuine(CoreBytes[1], CoreBytes[2])
                      /\ Before(missing)

AtRest ==
    stage = "rest" =>
        /\ outcome = "none" <=> missing > 0
        /\ reply[1] = x.opcode /\ ~asked
        /\ Len(reading) + missing = x.success - 1
        /\ After(queue, missing, irqs)
        /\ Almost(IF outcome = "none" THEN << x.opcode >> \o (reading \o queue) ELSE reply,
                  answer, x.success)

AtError ==
    stage = "error" => /\ outcome = "none" <=> missing > 0
                       /\ ~asked
                       /\ After(queue, missing, irqs)

Delivered ==
    stage = "idle" /\ returned =>
        answer # << >> /\ \A i \in x.result : reply[i] = answer[i]

\* What ends the program, and the core that is noted.
AtAbort ==
    stage = "aborted" => ~asked /\ Len(reading) = 2 /\ reading[1] # reading[2]

Noted == triggering \in {{}, Core}

Together == /\ outcome # "short"
            /\ AtEnds /\ AtOpcode /\ AtOpcodeRead /\ AtCore /\ AtRest /\ AtError
            /\ AtAbort /\ Noted /\ Delivered

IInv == TypeOK /\ AnswerWhole /\ (trouble \subseteq Mild => Together)

\* What can be done with the line: bytes that the host has read are gone, ...
LEMMA AfterDrop ==
    ASSUME NEW q \in Seq(Byte), NEW d \in Seq(Byte), NEW s \in Nat, NEW n \in 0 .. s,
           NEW enabled, Len(d) = Len(q) - n, \A i \in 1 .. Len(q) - n : d[i] = q[n + i],
           After(q, s, enabled)
    PROVE  After(d, s - n, enabled)
<1>1. Len(q) \in Nat
  BY LenProperties
<1>2. CASE Len(q) = s
  BY <1>1, <1>2 DEF After
<1>3. CASE Len(q) = s + 3 /\ InterruptAt(q, s) /\ ~enabled
  <2>1. \A i \in 1 .. 3 : d[s - n + i] = q[n + (s - n + i)] /\ n + (s - n + i) = s + i
    BY <1>3
  <2>2. d[s - n + 1] = q[s + 1] /\ d[s - n + 2] = q[s + 2] /\ d[s - n + 3] = q[s + 3]
    BY <2>1
  <2>3. Len(d) = s - n + 3
    BY <1>3
  <2>. QED
    BY <1>3, <2>2, <2>3 DEF After, InterruptAt
<1>. QED
  BY <1>2, <1>3 DEF After

LEMMA AlmostSame ==
    ASSUME NEW f, NEW g, NEW a, NEW n \in Nat, Almost(f, a, n),
           \A i \in 1 .. n : g[i] = f[i]
    PROVE  Almost(g, a, n)
<1>1. PICK k \in Nat \ {1} : \A i \in (1 .. n) \ {k} : f[i] = a[i]
  BY DEF Almost
<1>2. \A i \in (1 .. n) \ {k} : g[i] = a[i]
  BY <1>1
<1>. QED
  BY <1>2 DEF Almost

LEMMA ReplyDrop ==
    ASSUME NEW q \in Seq(Byte), NEW d \in Seq(Byte), NEW s \in Nat, NEW n \in 0 .. s,
           NEW enabled, NEW e, NEW a, Proper(e),
           Len(d) = Len(q) - n, \A i \in 1 .. Len(q) - n : d[i] = q[n + i],
           ReplyAt(q, s, enabled, e, a)
    PROVE  ReplyAt(d, s - n, enabled, e, a)
<1>1. /\ e.success \in Nat /\ e.error \in Nat /\ e.success >= 1 /\ e.error >= 1
      /\ Len(q) \in Nat
  BY LenProperties, ProperLengths
<1>2. \A m \in Nat : s - n + m = (s + m) - n /\ n \in 0 .. s + m
  OBVIOUS
<1>3. \A m \in Nat : After(q, s + m, enabled) => After(d, s - n + m, enabled)
  <2>. SUFFICES ASSUME NEW m \in Nat, After(q, s + m, enabled)
                PROVE  After(d, s - n + m, enabled)
    OBVIOUS
  <2>1. s + m \in Nat /\ n \in 0 .. s + m /\ (s + m) - n = s - n + m
    OBVIOUS
  <2>2. After(d, (s + m) - n, enabled)
    BY <2>1, AfterDrop
  <2>. QED
    BY <2>1, <2>2
<1>4. \A m \in Nat : After(q, s + m, enabled) => Len(q) >= s + m
  BY <1>1 DEF After
<1>5. \A m \in Nat : \A i \in 1 .. m : Len(q) >= s + m => d[s - n + i] = q[s + i]
  <2>. SUFFICES ASSUME NEW m \in Nat, NEW i \in 1 .. m, Len(q) >= s + m
                PROVE  d[s - n + i] = q[s + i]
    OBVIOUS
  <2>1. s - n + i \in 1 .. Len(q) - n /\ n + (s - n + i) = s + i
    BY <1>1
  <2>2. d[s - n + i] = q[n + (s - n + i)]
    BY <2>1
  <2>. QED
    BY <2>1, <2>2
<1>6. CASE /\ After(q, s + e.success, enabled) /\ q[s + 1] = e.opcode
           /\ Almost([i \in 1 .. e.success |-> q[s + i]], a, e.success)
  <2>1. \A i \in 1 .. e.success : d[s - n + i] = q[s + i]
    BY <1>1, <1>4, <1>5, <1>6
  <2>2. d[s - n + 1] = e.opcode
    BY <1>1, <1>6, <2>1
  <2>3. [i \in 1 .. e.success |-> d[s - n + i]] = [i \in 1 .. e.success |-> q[s + i]]
    BY <2>1
  <2>4. After(d, s - n + e.success, enabled)
    BY <1>1, <1>3, <1>6
  <2>. QED
    BY <1>6, <2>2, <2>3, <2>4 DEF ReplyAt
<1>7. CASE After(q, s + e.error, enabled) /\ q[s + 1] = NACK
  <2>1. d[s - n + 1] = NACK
    BY <1>1, <1>4, <1>5, <1>7
  <2>2. After(d, s - n + e.error, enabled)
    BY <1>1, <1>3, <1>7
  <2>. QED
    BY <2>1, <2>2 DEF ReplyAt
<1>. QED
  BY <1>6, <1>7 DEF ReplyAt

\* ... bytes follow, ...
Joins(w, q, f) ==
    /\ Len(w) = Len(q) + Len(f)
    /\ \A i \in 1 .. Len(q) : w[i] = q[i]
    /\ \A i \in 1 .. Len(f) : w[Len(q) + i] = f[i]

LEMMA Joined ==
    ASSUME NEW q \in Seq(Byte), NEW f \in Seq(Byte)
    PROVE  q \o f \in Seq(Byte) /\ Joins(q \o f, q, f)
<1>1. /\ q \o f \in Seq(Byte) /\ Len(q \o f) = Len(q) + Len(f)
      /\ \A i \in 1 .. Len(q) + Len(f) : (q \o f)[i] =
                                IF i <= Len(q) THEN q[i] ELSE f[i - Len(q)]
  BY ConcatProperties
<1>2. Len(q) \in Nat /\ Len(f) \in Nat
  BY LenProperties
<1>. DEFINE w == q \o f
<1>. HIDE DEF w
<1>3. \A i \in 1 .. Len(q) : w[i] = q[i]
  <2>1. \A i \in 1 .. Len(q) : i \in 1 .. Len(q) + Len(f) /\ i <= Len(q)
    BY <1>2
  <2>. QED
    BY <1>1, <2>1 DEF w
<1>4. \A i \in 1 .. Len(f) : w[Len(q) + i] = f[i]
  <2>1. \A i \in 1 .. Len(f) : /\ Len(q) + i \in 1 .. Len(q) + Len(f)
                               /\ ~(Len(q) + i <= Len(q)) /\ Len(q) + i - Len(q) = i
    BY <1>2
  <2>2. \A i \in 1 .. Len(q) + Len(f) : w[i] = IF i <= Len(q) THEN q[i] ELSE f[i - Len(q)]
    BY <1>1 DEF w
  <2>. QED
    BY <2>1, <2>2
<1>5. Len(w) = Len(q) + Len(f)
  BY <1>1 DEF w
<1>6. Joins(w, q, f)
  BY <1>3, <1>4, <1>5 DEF Joins
<1>. QED
  BY <1>1, <1>6 DEF w

\* ... namely an interrupt, and none can follow it, ...
LEMMA AfterInterrupt ==
    ASSUME NEW q \in Seq(Byte), NEW f, NEW w, NEW s \in Nat, Joins(w, q, f),
           Len(f) = 3, InterruptAt(f, 0),
           NEW before, before = TRUE, NEW later, later = FALSE, After(q, s, before)
    PROVE  After(w, s, later) /\ \A i \in 1 .. s : w[i] = q[i]
<1>1. Len(q) = s
  BY DEF After
<1>2. /\ Len(w) = s + 3 /\ \A i \in 1 .. s : w[i] = q[i]
      /\ w[s + 1] = f[1] /\ w[s + 2] = f[2] /\ w[s + 3] = f[3]
  BY <1>1 DEF Joins
<1>3. InterruptAt(w, s)
  BY <1>2 DEF InterruptAt
<1>. QED
  BY <1>2, <1>3 DEF After

LEMMA ReplyInterrupt ==
    ASSUME NEW q \in Seq(Byte), NEW w, NEW s \in Nat, NEW e, NEW a, Proper(e),
           NEW before, NEW later,
           \A i \in 1 .. Len(q) : w[i] = q[i],
           \A m \in Nat : After(q, m, before) => After(w, m, later),
           ReplyAt(q, s, before, e, a)
    PROVE  /\ ReplyAt(w, s, later, e, a)
           /\ \A i \in 1 .. s + 1 : w[i] = q[i]
<1>1. /\ e.success \in Nat /\ e.error \in Nat /\ e.success >= 1 /\ e.error >= 1
      /\ Len(q) \in Nat
  BY LenProperties, ProperLengths
<1>2. ASSUME NEW m \in Nat, m >= 1, After(q, s + m, before)
      PROVE  /\ After(w, s + m, later)
             /\ \A i \in 1 .. m : w[s + i] = q[s + i]
             /\ \A i \in 1 .. s + 1 : w[i] = q[i]
  <2>1. s + m \in Nat
    OBVIOUS
  <2>2. Len(q) >= s + m
    BY <1>1, <1>2 DEF After
  <2>3. \A i \in 1 .. m : s + i \in 1 .. Len(q)
    BY <1>1, <2>2
  <2>4. 1 .. s + 1 \subseteq 1 .. Len(q)
    BY <1>1, <1>2, <2>2
  <2>. QED
    BY <1>2, <2>1, <2>3, <2>4
<1>3. CASE /\ After(q, s + e.success, before) /\ q[s + 1] = e.opcode
           /\ Almost([i \in 1 .. e.success |-> q[s + i]], a, e.success)
  <2>1. /\ After(w, s + e.success, later)
        /\ \A i \in 1 .. e.success : w[s + i] = q[s + i]
        /\ \A i \in 1 .. s + 1 : w[i] = q[i]
    BY <1>1, <1>2, <1>3
  <2>2. [i \in 1 .. e.success |-> w[s + i]] = [i \in 1 .. e.success |-> q[s + i]]
    BY <2>1
  <2>3. w[s + 1] = e.opcode
    BY <1>3, <2>1
  <2>. QED
    BY <1>3, <2>1, <2>2, <2>3 DEF ReplyAt
<1>4. CASE After(q, s + e.error, before) /\ q[s + 1] = NACK
  <2>1. After(w, s + e.error, later) /\ \A i \in 1 .. s + 1 : w[i] = q[i]
    BY <1>1, <1>2, <1>4
  <2>2. w[s + 1] = NACK
    BY <1>4, <2>1
  <2>. QED
    BY <2>1, <2>2 DEF ReplyAt
<1>. QED
  BY <1>3, <1>4 DEF ReplyAt

\* ... or the reply.
LEMMA ReplyArrives ==
    ASSUME NEW q \in Seq(Byte), NEW f, NEW w, NEW s \in Nat, NEW enabled,
           NEW e, NEW a, Proper(e), Len(q) = s, Joins(w, q, f),
           \/ Len(f) = e.success /\ f[1] = e.opcode /\ Almost(f, a, e.success)
           \/ Len(f) = e.error /\ f[1] = NACK
    PROVE  ReplyAt(w, s, enabled, e, a)
<1>1. e.success \in Nat /\ e.error \in Nat /\ e.success >= 1 /\ e.error >= 1
  BY ProperLengths
<1>2. /\ Len(w) = s + Len(f)
      /\ \A i \in 1 .. Len(f) : w[s + i] = f[i]
  BY DEF Joins
<1>3. CASE Len(f) = e.success /\ f[1] = e.opcode /\ Almost(f, a, e.success)
  <2>. DEFINE g == [i \in 1 .. e.success |-> w[s + i]]
  <2>1. \A i \in 1 .. e.success : g[i] = f[i]
    BY <1>2, <1>3
  <2>2. Almost(g, a, e.success)
    <3>. HIDE DEF g
    <3>. QED
      BY <1>1, <1>3, <2>1, AlmostSame
  <2>3. w[s + 1] = e.opcode
    BY <1>1, <1>2, <1>3
  <2>4. After(w, s + e.success, enabled)
    BY <1>2, <1>3 DEF After
  <2>. QED
    BY <2>2, <2>3, <2>4 DEF ReplyAt
<1>4. CASE Len(f) = e.error /\ f[1] = NACK
  <2>1. w[s + 1] = NACK
    BY <1>1, <1>2, <1>4
  <2>2. After(w, s + e.error, enabled)
    BY <1>2, <1>4 DEF After
  <2>. QED
    BY <2>1, <2>2 DEF ReplyAt
<1>. QED
  BY <1>3, <1>4

\* The opcode and what follows it.
LEMMA Prefixed ==
    ASSUME NEW byte \in Byte, NEW q \in Seq(Byte)
    PROVE  /\ << byte >> \o q \in Seq(Byte)
           /\ Len(<< byte >> \o q) = Len(q) + 1
           /\ (<< byte >> \o q)[1] = byte
           /\ \A i \in 1 .. Len(q) : (<< byte >> \o q)[i + 1] = q[i]
<1>1. << byte >> \in Seq(Byte) /\ Len(<< byte >>) = 1
  OBVIOUS
<1>2. /\ << byte >> \o q \in Seq(Byte)
      /\ Len(<< byte >> \o q) = 1 + Len(q)
      /\ \A i \in 1 .. 1 + Len(q) : (<< byte >> \o q)[i] =
                                        IF i <= 1 THEN << byte >>[i] ELSE q[i - 1]
  BY <1>1, ConcatProperties
<1>3. Len(q) \in Nat
  BY LenProperties
<1>4. \A i \in 1 .. Len(q) : i + 1 \in 1 .. 1 + Len(q) /\ ~(i + 1 <= 1) /\ i + 1 - 1 = i
  BY <1>3
<1>5. \A i \in 1 .. Len(q) : (<< byte >> \o q)[i + 1] = q[i]
  BY <1>2, <1>4
<1>6. (<< byte >> \o q)[1] = byte
  BY <1>2, <1>3
<1>. QED
  BY <1>2, <1>3, <1>5, <1>6

\* A reply whose checksum is right is the board's.
LEMMA AlmostChecked ==
    ASSUME TypeOK, AnswerWhole, Almost(reply, answer, x.success),
           SuccessChecksumIsCorrect(x, reply)
    PROVE  answer # << >> /\ \A i \in x.result : reply[i] = answer[i]
<1>1. answer # << >>
  BY DEF Almost
<1>2. /\ x.success \in 1 .. Longest /\ x.result \subseteq 1 .. x.success
      /\ x.parity \in {0, 1, 2} /\ (x.parity = 0 \/ x.parity < x.success)
      /\ x.parity = 0 => x.result = {}
  BY XProper DEF Proper
<1>3. CASE x.parity = 0
  BY <1>1, <1>2, <1>3
<1>4. CASE x.parity # 0
  <2>1. PICK k \in Nat \ {1} : \A i \in (1 .. x.success) \ {k} : reply[i] = answer[i]
    BY DEF Almost
  <2>2. CASE k \in 1 .. x.success /\ reply[k] # answer[k]
    <3>1. \A m \in 1 .. x.success : answer[m] \subseteq Bits /\ reply[m] \subseteq Bits
      <4>1. \A m \in 1 .. x.success : answer[m] \in Byte
        BY <1>1, ElementOfSeq DEF AnswerWhole
      <4>2. \A m \in 1 .. x.success : reply[m] \in Byte
        BY <1>2 DEF TypeOK, Longest
      <4>. QED
        BY <4>1, <4>2 DEF Byte
    <3>2. k \in x.parity .. x.success /\ x.success \in Nat /\ x.parity \in {1, 2}
      BY <1>2, <1>4, <2>2 DEF Longest
    <3>3. SuccessChecksumIsCorrect(x, answer)
      BY <1>1 DEF AnswerWhole
    <3>4. \A m \in (1 .. x.success) \ {k} : answer[m] = reply[m]
      BY <2>1
    <3>5. x.parity < x.success
      BY <1>2, <1>4
    <3>6. ~SuccessChecksumIsCorrect(x, reply)
      BY <2>2, <3>1, <3>2, <3>3, <3>4, <3>5, OneByteOff
    <3>. QED
      BY <3>6
  <2>3. CASE ~(k \in 1 .. x.success /\ reply[k] # answer[k])
    BY <1>1, <1>2, <2>1, <2>3
  <2>. QED
    BY <2>2, <2>3
<1>. QED
  BY <1>3, <1>4

\* The bytes in front are the same when more follow.
LEMMA AlmostLonger ==
    ASSUME NEW byte \in Byte, NEW p \in Seq(Byte), NEW f \in Seq(Byte), NEW a,
           NEW n \in Nat, n <= Len(p) + 1, Almost(<< byte >> \o p, a, n)
    PROVE  Almost(<< byte >> \o (p \o f), a, n)
<1>. DEFINE w == p \o f
<1>1. /\ w \in Seq(Byte)
      /\ \A i \in 1 .. Len(p) : w[i] = p[i]
      /\ Len(p) \in Nat
  BY Joined, LenProperties DEF Joins
<1>. HIDE DEF w
<1>. DEFINE g == << byte >> \o p
            h == << byte >> \o w
<1>2. /\ g[1] = byte /\ \A i \in 1 .. Len(p) : g[i + 1] = p[i]
      /\ h[1] = byte /\ \A i \in 1 .. Len(w) : h[i + 1] = w[i]
  BY <1>1, Prefixed
<1>3. Len(w) >= Len(p) /\ Len(w) \in Nat
  <2>1. Len(w) = Len(p) + Len(f) /\ Len(f) \in Nat
    BY Joined, LenProperties DEF Joins, w
  <2>. QED
    BY <1>1, <2>1
<1>. HIDE DEF g, h
<1>4. \A i \in 1 .. n : h[i] = g[i]
  <2>. SUFFICES ASSUME NEW i \in 1 .. n PROVE h[i] = g[i]
    OBVIOUS
  <2>1. CASE i = 1
    BY <1>2, <2>1
  <2>2. CASE i # 1
    <3>. DEFINE m == i - 1
    <3>1. m \in 1 .. Len(p) /\ m \in 1 .. Len(w) /\ m + 1 = i
      BY <1>1, <1>3, <2>2
    <3>. HIDE DEF m
    <3>2. h[m + 1] = w[m] /\ g[m + 1] = p[m] /\ w[m] = p[m]
      BY <1>1, <1>2, <3>1
    <3>. QED
      BY <3>1, <3>2
  <2>. QED
    BY <2>1, <2>2
<1>5. Almost(g, a, n)
  BY DEF g
<1>6. Almost(h, a, n)
  BY <1>4, <1>5, AlmostSame
<1>. QED
  BY <1>6 DEF h, w

\* A line that does no more than damage a byte delivers the frame but for one
\* behind the opcode.
LEMMA CarriedMild ==
    ASSUME NEW frame \in Seq(Byte), frame # << >>, Carried(frame), trouble' \subseteq Mild
    PROVE  \E f \in Seq(Byte) :
             /\ Len(f) = Len(frame) /\ f[1] = frame[1] /\ queue' = queue \o f
             /\ Almost(f, frame, Len(frame))
<1>1. Len(frame) \in Nat
  BY LenProperties
<1>2. CASE queue' = queue \o frame
  <2>1. Almost(frame, frame, Len(frame))
    BY DEF Almost
  <2>. QED
    BY <1>2, <2>1
<1>3. ASSUME NEW i \in 2 .. Len(frame), NEW byte \in Values \cup {ACK},
             queue' = queue \o [frame EXCEPT ![i] = byte]
      PROVE  \E f \in Seq(Byte) :
             /\ Len(f) = Len(frame) /\ f[1] = frame[1] /\ queue' = queue \o f
             /\ Almost(f, frame, Len(frame))
  <2>. DEFINE f == [frame EXCEPT ![i] = byte]
  <2>1. byte \in Byte /\ i \in 1 .. Len(frame) /\ i \in Nat \ {1}
    BY <1>1, LinkAssumption DEF Byte, ACK
  <2>2. f \in Seq(Byte) /\ Len(f) = Len(frame)
    BY <2>1, ExceptSeq
  <2>3. \A m \in (1 .. Len(frame)) \ {i} : f[m] = frame[m]
    BY <1>1
  <2>4. f[1] = frame[1]
    BY <1>1, <2>1, <2>3
  <2>5. queue' = queue \o f
    BY <1>3
  <2>. HIDE DEF f
  <2>6. Almost(f, frame, Len(frame))
    BY <2>1, <2>3 DEF Almost
  <2>. QED
    BY <2>2, <2>4, <2>5, <2>6
<1>4. ~ Fault("opcode") /\ ~ Fault("cut")
  BY DEF Fault, Mild
<1>. QED
  BY <1>2, <1>3, <1>4 DEF Carried

-----------------------------------------------------------------------------
(* Each action keeps host and board together.                              *)

LEMMA XSame == ASSUME kind' = kind PROVE x' = x
  BY DEF x

LEMMA KeptByDevice ==
    ASSUME TypeOK, Together, OpenDevice \/ CloseDevice
    PROVE  Together'
<1>1. /\ stage = "idle" /\ queue' = << >>
      /\ UNCHANGED << stage, kind, outcome, reply, triggering, returned >>
      /\ UNCHANGED << asked, irqs, answer >>
  BY DEF OpenDevice, CloseDevice, board
<1>2. x' = x
  BY <1>1, XSame
<1>3. AtEnds'
  BY <1>1 DEF Together, AtEnds, After
<1>4. Delivered'
  BY <1>1, <1>2 DEF Together, Delivered
<1>. QED
  BY <1>1, <1>3, <1>4
     DEF Together, AtOpcode, AtOpcodeRead, AtCore, AtRest, AtError, AtAbort, Noted

LEMMA KeptByDoSyncTask ==
    ASSUME TypeOK, Together, NEW k, DoSyncTask(k)
    PROVE  Together'
<1>1. /\ stage = "idle" /\ FetchAsyncReplies
      /\ UNCHANGED << outcome, asked, irqs >>
  BY DEF DoSyncTask
<1>2. /\ outcome # "short" /\ ~asked /\ After(queue, 0, irqs) /\ Noted
      /\ queue \in Seq(Byte)
  BY <1>1 DEF Together, AtEnds, TypeOK
<1>3. CASE queue = << >> /\ Serve(triggering) /\ UNCHANGED << queue, reading >>
  <2>1. stage' = "send" /\ triggering' = {}
    BY <1>2, <1>3 DEF Serve, Noted
  <2>2. AtEnds' /\ Noted'
    BY <1>1, <1>2, <1>3, <2>1 DEF AtEnds, After, Noted
  <2>. QED
    BY <1>1, <1>2, <2>1, <2>2
       DEF Together, AtOpcode, AtOpcodeRead, AtCore, AtRest, AtError, AtAbort, Noted,
           Delivered
<1>4. CASE /\ Len(queue) >= 3
           /\ reading' = SubSeq(queue, 2, 3) /\ queue' = SubSeq(queue, 4, Len(queue))
           /\ IF queue[2] = queue[3] THEN Serve(queue[2]) ELSE Aborted /\ UNCHANGED triggering
  <2>1. Len(queue) = 3 /\ Genuine(queue[2], queue[3])
    BY <1>2, <1>4 DEF After, InterruptAt
  <2>2. Len(queue') = 0 /\ Len(reading') = 2
        /\ reading'[1] = queue[2] /\ reading'[2] = queue[3]
    BY <1>2, <1>4, <2>1, PartBytes
  <2>3. CASE queue[2] = queue[3]
    <3>1. stage' = "send" /\ triggering' = {}
      BY <1>4, <2>1, <2>3 DEF Serve, Genuine
    <3>2. AtEnds' /\ Noted'
      BY <1>1, <1>2, <2>2, <3>1 DEF AtEnds, After, Noted
    <3>. QED
      BY <1>1, <1>2, <3>1, <3>2
         DEF Together, AtOpcode, AtOpcodeRead, AtCore, AtRest, AtError, AtAbort, Noted,
             Delivered
  <2>4. CASE queue[2] # queue[3]
    <3>1. stage' = "aborted" /\ triggering' = triggering
      BY <1>4, <2>4 DEF Aborted
    <3>2. AtAbort' /\ Noted'
      BY <1>1, <1>2, <2>2, <2>4, <3>1 DEF AtAbort, Noted
    <3>. QED
      BY <1>1, <1>2, <3>1, <3>2
         DEF Together, AtEnds, AtOpcode, AtOpcodeRead, AtCore, AtRest, AtError, AtAbort,
             Noted, Delivered
  <2>. QED
    BY <2>3, <2>4
<1>5. CASE queue # << >> /\ ~(Len(queue) >= 3 /\ queue[1] = INTERRUPT)
  BY <1>2, <1>5, EmptySeq DEF After, InterruptAt
<1>. QED
  BY <1>1, <1>3, <1>4, <1>5 DEF FetchAsyncReplies

LEMMA KeptBySend ==
    ASSUME TypeOK, Together, trouble' \subseteq Mild, Send
    PROVE  Together'
<1>1. /\ stage = "send" /\ stage' = "opcode" /\ outcome' = "none"
      /\ missing' = 1 /\ reading' = << >> /\ depth' = 0
      /\ UNCHANGED << queue, triggering, irqs, trouble >>
      /\ asked' = ("unplugged" \notin trouble)
  BY DEF Send, Receive, NoFault
<1>2. asked'
  BY <1>1 DEF Mild
<1>3. After(queue', 0, irqs')
  BY <1>1 DEF Together, AtEnds
<1>4. AtOpcode'
  BY <1>1, <1>2, <1>3 DEF AtOpcode, Before, Interrupted
<1>. QED
  BY <1>1, <1>4
     DEF Together, AtEnds, AtOpcodeRead, AtCore, AtRest, AtError, AtAbort, Noted,
         Delivered

\* Another attempt or the end, with nothing on its way.
LEMMA KeptAtEnd ==
    ASSUME Together, GiveUpOrRetry(attempt) \/ GiveUpOrRetry(attempt'), ~asked,
           After(queue, 0, irqs), UNCHANGED << outcome, triggering, asked, queue, irqs >>
    PROVE  Together'
<1>1. stage' \in {"idle", "send"} /\ returned' = FALSE
  BY DEF GiveUpOrRetry
<1>. QED
  BY <1>1
     DEF Together, AtEnds, AtOpcode, AtOpcodeRead, AtCore, AtRest, AtError, AtAbort,
         Noted, Delivered

LEMMA KeptBySendFails ==
    ASSUME TypeOK, Together, SendFails
    PROVE  Together'
<1>1. /\ stage = "send" /\ GiveUpOrRetry(attempt')
      /\ UNCHANGED << outcome, triggering, asked, queue, irqs >>
  BY DEF SendFails, board
<1>2. ~asked /\ After(queue, 0, irqs)
  BY <1>1 DEF Together, AtEnds
<1>. QED
  BY <1>1, <1>2, KeptAtEnd

LEMMA KeptByErrorReceived ==
    ASSUME TypeOK, Together, ErrorReceived
    PROVE  Together'
<1>1. /\ stage = "error" /\ outcome = "all" /\ GiveUpOrRetry(attempt)
      /\ UNCHANGED << outcome, triggering, asked, queue, irqs >>
  BY DEF ErrorReceived, Reached, board, Together, TypeOK
<1>2. missing = 0
  BY <1>1 DEF Together, AtError, TypeOK
<1>3. ~asked /\ After(queue, 0, irqs)
  BY <1>1, <1>2 DEF Together, AtError
<1>. QED
  BY <1>1, <1>3, KeptAtEnd

LEMMA KeptByRestReceived ==
    ASSUME TypeOK, AnswerWhole, Together, RestReceived
    PROVE  Together'
<1>1. /\ stage = "rest" /\ outcome = "all"
      /\ UNCHANGED << kind, outcome, triggering, asked, queue, irqs, reply, answer >>
  BY DEF RestReceived, Reached, board, Together, TypeOK
<1>2. missing = 0
  BY <1>1 DEF Together, AtRest, TypeOK
<1>3. ~asked /\ After(queue, 0, irqs) /\ Almost(reply, answer, x.success)
  BY <1>1, <1>2 DEF Together, AtRest
<1>4. CASE ~ SuccessChecksumIsCorrect(x, reply)
  <2>1. GiveUpOrRetry(attempt)
    BY <1>4 DEF RestReceived
  <2>. QED
    BY <1>1, <1>3, <2>1, KeptAtEnd
<1>5. CASE SuccessChecksumIsCorrect(x, reply)
  <2>1. stage' = "idle" /\ returned'
    BY <1>5 DEF RestReceived, Return
  <2>2. answer # << >> /\ \A i \in x.result : reply[i] = answer[i]
    BY <1>3, <1>5, AlmostChecked
  <2>3. x' = x
    BY <1>1, XSame
  <2>4. Delivered'
    BY <1>1, <2>2, <2>3 DEF Delivered
  <2>. QED
    BY <1>1, <1>3, <2>1, <2>4
       DEF Together, AtEnds, AtOpcode, AtOpcodeRead, AtCore, AtRest, AtError, AtAbort,
           Noted
<1>. QED
  BY <1>4, <1>5

LEMMA KeptByCoreReceived ==
    ASSUME TypeOK, Together, CoreReceived
    PROVE  Together'
<1>1. /\ stage = "core" /\ outcome = "all" /\ depth = 0
      /\ stage' = "opcode" /\ outcome' = "none" /\ depth' = 1
      /\ missing' = 1 /\ reading' = << >>
      /\ UNCHANGED << kind, queue, asked, irqs, answer >>
  BY DEF CoreReceived, Reached, Receive, board, Together, TypeOK
<1>2. x' = x
  BY <1>1, XSame
<1>3. missing = 0 /\ Before(missing) /\ Genuine(reply[2], reply[3]) /\ Noted
  BY <1>1 DEF Together, AtCore, CoreBytes, TypeOK
<1>4. Before(0) /\ Noted'
  BY <1>3 DEF CoreReceived, Genuine, Noted
<1>5. AtOpcode'
  BY <1>1, <1>2, <1>4 DEF AtOpcode, Before, Interrupted
<1>. QED
  BY <1>1, <1>4, <1>5
     DEF Together, AtEnds, AtOpcodeRead, AtCore, AtRest, AtError, AtAbort, Noted,
         Delivered

\* There is no reply in an empty queue.
LEMMA NoReplyInNothing ==
    ASSUME NEW q, Len(q) = 0, NEW s \in Nat, NEW enabled
    PROVE  /\ s > 0 => ~After(q, s, enabled)
           /\ \A e, a : Proper(e) => ~ReplyAt(q, s, enabled, e, a)
<1>1. \A n \in Nat : n > 0 => ~After(q, n, enabled)
  BY DEF After
<1>2. ASSUME NEW e, NEW a, Proper(e) PROVE ~ReplyAt(q, s, enabled, e, a)
  <2>1. /\ s + e.success \in Nat /\ s + e.success > 0
        /\ s + e.error \in Nat /\ s + e.error > 0
    BY <1>2, ProperLengths
  <2>. QED
    BY <1>1, <2>1 DEF ReplyAt
<1>. QED
  BY <1>1, <1>2

\* A reply has at least one byte.
LEMMA ReplyLong ==
    ASSUME NEW q \in Seq(Byte), NEW s \in Nat, NEW enabled, NEW e, NEW a, Proper(e),
           ReplyAt(q, s, enabled, e, a)
    PROVE  Len(q) > s
<1>1. /\ e.success \in Nat /\ e.error \in Nat /\ e.success >= 1 /\ e.error >= 1
      /\ Len(q) \in Nat
  BY LenProperties, ProperLengths
<1>. QED
  BY <1>1 DEF ReplyAt, After

\* The time is never up.
LEMMA NoTimeOut ==
    ASSUME TypeOK, Together, trouble' \subseteq Mild, TimeOut
    PROVE  FALSE
<1>1. ~asked
  BY DEF TimeOut, Fault, Mild
<1>2. Len(queue) = 0 /\ outcome = "none"
  BY DEF TimeOut, Waiting
<1>3. \A n \in Nat : ~Before(n)
  BY <1>1, <1>2, NoReplyInNothing, XProper DEF Before
<1>4. \A n \in Nat : n > 0 => ~After(queue, n, irqs)
  BY <1>2, NoReplyInNothing
<1>5. missing \in Nat
  BY DEF TypeOK
<1>6. CASE stage = "opcode"
  BY <1>2, <1>3, <1>6 DEF Together, AtOpcode
<1>7. CASE stage = "core"
  BY <1>2, <1>3, <1>5, <1>7 DEF Together, AtCore
<1>8. CASE stage = "rest"
  BY <1>2, <1>4, <1>5, <1>8 DEF Together, AtRest
<1>9. CASE stage = "error"
  BY <1>2, <1>4, <1>5, <1>9 DEF Together, AtError
<1>. QED
  BY <1>6, <1>7, <1>8, <1>9 DEF TimeOut, Waiting

LEMMA KeptByOpcodeReceived ==
    ASSUME TypeOK, Together, OpcodeReceived
    PROVE  Together'
<1>1. /\ stage = "opcode" /\ outcome = "all"
      /\ UNCHANGED << kind, depth, triggering, asked, queue, irqs, reply, answer >>
  BY DEF OpcodeReceived, Reached, board, Together, TypeOK
<1>2. x' = x
  BY <1>1, XSame
<1>3. /\ x.success \in Nat /\ x.error \in Nat /\ x.success >= 1 /\ x.error >= 1
      /\ x.opcode \in Byte /\ x.opcode # NACK /\ x.opcode # INTERRUPT /\ NACK # INTERRUPT
      /\ x.parity \in {0, 1, 2} /\ (x.parity = 0 \/ x.parity < x.success)
      /\ x.parity = 0 => x.result = {}
  BY XProper DEF Proper, Longest, NACK, INTERRUPT
<1>4. CASE reply[1] = INTERRUPT /\ depth = 0 /\ Before(2) /\ Genuine(queue[1], queue[2])
  <2>1. stage' = "core" /\ outcome' = "none" /\ missing' = 2 /\ reading' = << >>
    BY <1>1, <1>3, <1>4 DEF OpcodeReceived, Receive, Return, Aborted
  <2>2. Before(2)'
    BY <1>1, <1>2, <1>4, <2>1 DEF Before, Interrupted
  <2>3. CoreBytes' = queue
    BY <1>1, <2>1 DEF CoreBytes, TypeOK
  <2>4. AtCore'
    BY <1>4, <2>1, <2>2, <2>3 DEF AtCore
  <2>. QED
    BY <1>1, <2>1, <2>4
       DEF Together, AtEnds, AtOpcode, AtOpcodeRead, AtRest, AtError, AtAbort, Noted,
           Delivered
<1>5. CASE /\ reply[1] = x.opcode /\ ~asked
           /\ After(queue, x.success - 1, irqs)
           /\ Almost(<< x.opcode >> \o queue, answer, x.success)
  <2>1. CASE x.success > 1
    <3>1. /\ stage' = "rest" /\ outcome' = "none" /\ missing' = x.success - 1
          /\ reading' = << >>
      BY <1>1, <1>3, <1>5, <2>1 DEF OpcodeReceived, Receive, Return, Aborted
    <3>2. << >> \o queue = queue
      BY DEF TypeOK
    <3>3. reading' \o queue' = queue
      BY <1>1, <3>1, <3>2
    <3>4. Almost(<< x.opcode >> \o (reading' \o queue'), answer, x.success)
      BY <1>5, <3>3
    <3>5. missing' > 0 /\ Len(reading') + missing' = x.success - 1
      BY <1>3, <2>1, <3>1
    <3>6. After(queue', missing', irqs')
      BY <1>1, <1>5, <3>1
    <3>7. AtRest'
      BY <1>1, <1>2, <1>5, <3>1, <3>4, <3>5, <3>6 DEF AtRest
    <3>. QED
      BY <1>1, <3>1, <3>7
         DEF Together, AtEnds, AtOpcode, AtOpcodeRead, AtCore, AtError, Delivered,
             AtAbort, Noted
  <2>2. CASE x.success = 1
    <3>1. stage' = "idle" /\ outcome' = outcome
      BY <1>1, <1>3, <1>5, <2>2 DEF OpcodeReceived, Receive, Return, Aborted
    <3>2. answer' # << >> /\ x'.result = {}
      BY <1>1, <1>2, <1>3, <1>5, <2>2 DEF Almost
    <3>3. Delivered'
      BY <3>2 DEF Delivered
    <3>4. x.success - 1 = 0
      BY <2>2
    <3>5. After(queue, 0, irqs)
      BY <1>5, <3>4
    <3>6. AtEnds'
      BY <1>1, <1>5, <3>5 DEF AtEnds
    <3>. QED
      BY <1>1, <3>1, <3>3, <3>6
         DEF Together, AtOpcode, AtOpcodeRead, AtCore, AtRest, AtError, AtAbort, Noted
  <2>. QED
    BY <1>3, <2>1, <2>2
<1>6. CASE reply[1] = NACK /\ ~asked /\ After(queue, x.error - 1, irqs)
  <2>1. CASE x.error > 1
    <3>1. stage' = "error" /\ outcome' = "none" /\ missing' = x.error - 1
      BY <1>1, <1>3, <1>6, <2>1 DEF OpcodeReceived, Receive, Return, Aborted
    <3>2. missing' > 0
      BY <1>3, <2>1, <3>1
    <3>3. AtError'
      BY <1>1, <1>6, <3>1, <3>2 DEF AtError
    <3>. QED
      BY <1>1, <3>1, <3>3
         DEF Together, AtEnds, AtOpcode, AtOpcodeRead, AtCore, AtRest, Delivered, AtAbort,
             Noted
  <2>2. CASE x.error = 1
    <3>1. GiveUpOrRetry(attempt) /\ outcome' = outcome
      BY <1>1, <1>3, <1>6, <2>2 DEF OpcodeReceived, Receive, Return, Aborted
    <3>2. x.error - 1 = 0
      BY <2>2
    <3>3. After(queue, 0, irqs)
      BY <1>6, <3>2
    <3>. QED
      BY <1>1, <1>6, <3>1, <3>3, KeptAtEnd
  <2>. QED
    BY <1>3, <2>1, <2>2
<1>. QED
  BY <1>1, <1>4, <1>5, <1>6 DEF Together, AtOpcodeRead

LEMMA KeptByTakeBytes ==
    ASSUME TypeOK, Together, TakeBytes
    PROVE  Together'
<1>1. /\ stage \in {"opcode", "rest", "error", "core"} /\ outcome = "none"
      /\ UNCHANGED << stage, kind, depth, triggering, asked, irqs, answer >>
  BY DEF TakeBytes, Waiting, board
<1>2. x' = x
  BY <1>1, XSame
<1>3. /\ queue \in Seq(Byte) /\ missing \in Nat /\ reading \in Seq(Byte)
      /\ reply \in [1 .. Longest -> Byte] /\ Len(queue) \in Nat /\ Len(reading) \in Nat
      /\ Len(queue) > 0
  BY LenProperties, EmptySeq DEF TypeOK, TakeBytes
<1>4. /\ x.success \in 1 .. Longest /\ x.success \in Nat /\ x.error \in Nat
      /\ x.success >= 1 /\ x.error >= 1 /\ x.opcode \in Byte
  BY XProper DEF Proper, Longest
<1>5. PICK n \in Nat :
             /\ n <= Len(queue) /\ n <= missing /\ (missing > 0 => n > 0)
             /\ n = missing \/ n = Len(queue)
             /\ reading' = reading \o SubSeq(queue, 1, n)
             /\ queue' = SubSeq(queue, n + 1, Len(queue))
             /\ missing' = missing - n
             /\ reply' = IF missing = n THEN Stored(reading') ELSE reply
             /\ outcome' = IF missing = n THEN "all" ELSE "none"
             /\ reading' \in Seq(Byte) /\ queue' \in Seq(Byte)
             /\ reading' \o queue' = reading \o queue
             /\ Len(queue') = Len(queue) - n
             /\ \A i \in 1 .. Len(queue) - n : queue'[i] = queue[n + i]
             /\ Len(reading') = Len(reading) + n
  BY Taken
<1>6. outcome' \in {"none", "all"} /\ (outcome' = "none" <=> missing' > 0)
  BY <1>3, <1>5
<1>7. \A s \in Nat : n <= s /\ After(queue, s, irqs) => After(queue', s - n, irqs)
  <2>. SUFFICES ASSUME NEW s \in Nat, n <= s, After(queue, s, irqs)
                PROVE  After(queue', s - n, irqs)
    OBVIOUS
  <2>1. n \in 0 .. s /\ queue' \in Seq(Byte)
    BY <1>5
  <2>. QED
    BY <1>3, <1>5, <2>1, AfterDrop
<1>8. \A s \in Nat : n <= s /\ ReplyAt(queue, s, irqs, x, answer)
                        => ReplyAt(queue', s - n, irqs, x, answer)
  <2>. SUFFICES ASSUME NEW s \in Nat, n <= s, ReplyAt(queue, s, irqs, x, answer)
                PROVE  ReplyAt(queue', s - n, irqs, x, answer)
    OBVIOUS
  <2>1. n \in 0 .. s /\ queue' \in Seq(Byte)
    BY <1>5
  <2>. QED
    BY <1>3, <1>5, <2>1, XProper, ReplyDrop
<1>9. CASE stage = "opcode"
  <2>1. missing = 1 /\ reading = << >> /\ Before(0)
    BY <1>1, <1>9 DEF Together, AtOpcode
  <2>2. n = 1 /\ outcome' = "all"
    BY <1>5, <2>1
  <2>3. reply'[1] = queue[1]
    <3>. DEFINE b == SubSeq(queue, 1, 1)
    <3>1. b \in Seq(Byte) /\ Len(b) = 1 /\ b[1] = queue[1]
      <4>1. queue[1] \in Byte /\ 1 \in 1 .. Len(queue)
        BY <1>3
      <4>. QED
        BY <1>3, <4>1, SubSeqProperties
    <3>2. reading' = << >> \o b /\ reply' = Stored(reading')
      BY <1>5, <2>1, <2>2
    <3>. HIDE DEF b
    <3>3. reply' = Stored(b) /\ DOMAIN b = 1 .. 1
      BY <3>1, <3>2
    <3>. QED
      BY <1>9, <3>1, <3>3 DEF Stored, Offset, Longest
  <2>4. CASE asked
    <3>1. /\ ~Interrupted /\ Len(queue) = 3 /\ InterruptAt(queue, 0) /\ ~irqs
      BY <1>3, <2>1, <2>4 DEF Before, After
    <3>2. depth = 0
      BY <1>9, <3>1 DEF Interrupted, TypeOK
    <3>3. Len(queue') = 2 /\ queue'[1] = queue[2] /\ queue'[2] = queue[3]
      BY <1>5, <2>2, <3>1
    <3>4. Before(2)'
      BY <1>1, <1>9, <2>2, <2>3, <2>4, <3>1, <3>3 DEF Before, Interrupted, InterruptAt
    <3>5. AtOpcodeRead'
      BY <1>1, <2>3, <3>1, <3>2, <3>3, <3>4 DEF AtOpcodeRead, InterruptAt
    <3>. QED
      BY <1>1, <1>9, <2>2, <3>5
         DEF Together, AtEnds, AtOpcode, AtCore, AtRest, AtError, AtAbort, Noted,
             Delivered
  <2>5. CASE ~asked /\ ReplyAt(queue, 0, irqs, x, answer)
    <3>1. CASE /\ After(queue, 0 + x.success, irqs) /\ queue[0 + 1] = x.opcode
               /\ Almost([i \in 1 .. x.success |-> queue[0 + i]], answer, x.success)
      <4>1. 0 + x.success = x.success /\ x.success - n = x.success - 1 /\ n <= x.success
        BY <1>4, <2>2
      <4>2. After(queue', x.success - 1, irqs)
        BY <1>4, <1>7, <3>1, <4>1
      <4>3. queue[1] = x.opcode
        BY <3>1
      <4>. DEFINE g == [i \in 1 .. x.success |-> queue[0 + i]]
                  h == << x.opcode >> \o queue'
      <4>4. Len(queue') + 1 >= x.success
        BY <1>4, <4>2 DEF After
      <4>5. \A i \in 1 .. x.success : h[i] = g[i]
        <5>. SUFFICES ASSUME NEW i \in 1 .. x.success PROVE h[i] = queue[i]
          <6>1. \A i \in 1 .. x.success : g[i] = queue[i]
            BY <1>4
          <6>. HIDE DEF g, h
          <6>. QED
            BY <6>1
        <5>1. h[1] = x.opcode /\ \A m \in 1 .. Len(queue') : h[m + 1] = queue'[m]
          BY <1>4, <1>5, Prefixed
        <5>. HIDE DEF h
        <5>2. CASE i = 1
          BY <4>3, <5>1, <5>2
        <5>3. CASE i # 1
          <6>. DEFINE m == i - 1
          <6>1. m \in 1 .. Len(queue') /\ m \in 1 .. Len(queue) - n
                /\ m + 1 = i /\ n + m = i
            BY <1>3, <1>4, <1>5, <2>2, <4>4, <5>3
          <6>. HIDE DEF m
          <6>2. h[m + 1] = queue'[m] /\ queue'[m] = queue[n + m]
            BY <1>5, <5>1, <6>1
          <6>. QED
            BY <6>1, <6>2
        <5>. QED
          BY <5>2, <5>3
      <4>6. Almost(h, answer, x.success)
        <5>1. Almost(g, answer, x.success)
          BY <3>1
        <5>. HIDE DEF g, h
        <5>. QED
          BY <1>4, <4>5, <5>1, AlmostSame
      <4>7. AtOpcodeRead'
        BY <1>1, <1>2, <2>3, <2>5, <4>2, <4>3, <4>6 DEF AtOpcodeRead
      <4>. QED
        BY <1>1, <1>9, <2>2, <4>7
           DEF Together, AtEnds, AtOpcode, AtCore, AtRest, AtError, AtAbort, Noted,
               Delivered
    <3>2. CASE After(queue, 0 + x.error, irqs) /\ queue[0 + 1] = NACK
      <4>1. 0 + x.error = x.error /\ x.error - n = x.error - 1 /\ n <= x.error
        BY <1>4, <2>2
      <4>2. After(queue', x.error - 1, irqs)
        BY <1>4, <1>7, <3>2, <4>1
      <4>3. AtOpcodeRead'
        BY <1>1, <1>2, <2>3, <2>5, <3>2, <4>2 DEF AtOpcodeRead
      <4>. QED
        BY <1>1, <1>9, <2>2, <4>3
           DEF Together, AtEnds, AtOpcode, AtCore, AtRest, AtError, AtAbort, Noted,
               Delivered
    <3>. QED
      BY <2>5, <3>1, <3>2 DEF ReplyAt
  <2>6. CASE /\ ~asked /\ ~Interrupted /\ InterruptAt(queue, 0)
             /\ ReplyAt(queue, 3, irqs, x, answer)
    <3>1. depth = 0
      BY <1>9, <2>6 DEF Interrupted, TypeOK
    <3>2. ReplyAt(queue', 2, irqs, x, answer)
      <4>1. 3 \in Nat /\ n <= 3 /\ 3 - n = 2
        BY <2>2
      <4>2. ReplyAt(queue', 3 - n, irqs, x, answer)
        BY <1>8, <2>6, <4>1
      <4>. QED
        BY <4>1, <4>2
    <3>3. Before(2)'
      BY <1>1, <1>2, <2>6, <3>2 DEF Before
    <3>4. queue'[1] = queue[2] /\ queue'[2] = queue[3]
      <4>1. Len(queue) > 3
        BY <1>3, <2>6, XProper, ReplyLong
      <4>2. 1 \in 1 .. Len(queue) - n /\ 2 \in 1 .. Len(queue) - n /\ n + 1 = 2 /\ n + 2 = 3
        BY <1>3, <2>2, <4>1
      <4>. QED
        BY <1>5, <4>2
    <3>5. AtOpcodeRead'
      BY <1>1, <2>3, <2>6, <3>1, <3>3, <3>4 DEF AtOpcodeRead, InterruptAt
    <3>. QED
      BY <1>1, <1>9, <2>2, <3>5
         DEF Together, AtEnds, AtOpcode, AtCore, AtRest, AtError, AtAbort, Noted,
             Delivered
  <2>. QED
    BY <2>1, <2>4, <2>5, <2>6 DEF Before
<1>10. CASE stage = "core"
  <2>1. /\ missing > 0 /\ Before(missing) /\ Interrupted
        /\ Len(reading) + missing = 2
        /\ Genuine((reading \o queue)[1], (reading \o queue)[2])
    BY <1>1, <1>10 DEF Together, AtCore, Interrupted, CoreBytes
  <2>. DEFINE w == reading' \o queue'
  <2>4. Len(reading') + missing' = 2 /\ Genuine(w[1], w[2])
    <3>1. Len(reading') + missing' = 2
      BY <1>3, <1>5, <2>1
    <3>2. w = reading \o queue
      BY <1>5
    <3>. QED
      BY <2>1, <3>1, <3>2
  <2>5. ASSUME missing = n PROVE reply'[2] = w[1] /\ reply'[3] = w[2]
    <3>1. reply' = Stored(reading') /\ Len(reading') = 2
      BY <1>3, <1>5, <2>1, <2>5
    <3>2. \A i \in 1 .. Len(reading') : w[i] = reading'[i]
      BY <1>5, Joined DEF Joins
    <3>3. DOMAIN reading' = 1 .. 2
      BY <1>5, <3>1, LenProperties
    <3>. HIDE DEF w
    <3>. QED
      BY <1>10, <3>1, <3>2, <3>3 DEF Stored, Offset, Longest
  <2>6. Genuine(CoreBytes'[1], CoreBytes'[2])
    <3>1. CASE missing = n
      BY <1>5, <2>4, <2>5, <3>1 DEF CoreBytes
    <3>2. CASE missing # n
      BY <1>5, <2>4, <3>2 DEF CoreBytes
    <3>. QED
      BY <3>1, <3>2
  <2>. HIDE DEF w
  <2>2. CASE asked
    <3>1. ~irqs /\ Len(queue) = missing
      BY <2>1, <2>2 DEF Before
    <3>2. Len(queue') = missing'
      BY <1>5, <3>1
    <3>3. AtCore'
      BY <1>1, <1>6, <1>10, <2>2, <2>4, <2>6, <3>1, <3>2 DEF AtCore, Before, Interrupted
    <3>. QED
      BY <1>1, <1>6, <1>10, <3>3
         DEF Together, AtEnds, AtOpcode, AtOpcodeRead, AtRest, AtError, AtAbort, Noted,
             Delivered
  <2>3. CASE ~asked
    <3>1. ReplyAt(queue, missing, irqs, x, answer)
      BY <2>1, <2>3 DEF Before
    <3>2. ReplyAt(queue', missing - n, irqs, x, answer)
      BY <1>3, <1>5, <1>8, <3>1
    <3>3. ReplyAt(queue', missing', irqs', x', answer')
      BY <1>1, <1>2, <1>5, <3>2
    <3>4. AtCore'
      BY <1>1, <1>6, <1>10, <2>3, <2>4, <2>6, <3>3 DEF AtCore, Before
    <3>. QED
      BY <1>1, <1>6, <1>10, <3>4
         DEF Together, AtEnds, AtOpcode, AtOpcodeRead, AtRest, AtError, AtAbort, Noted,
             Delivered
  <2>. QED
    BY <2>2, <2>3
<1>11. CASE stage = "rest"
  <2>1. /\ missing > 0 /\ reply[1] = x.opcode /\ ~asked
        /\ Len(reading) + missing = x.success - 1
        /\ After(queue, missing, irqs)
        /\ Almost(<< x.opcode >> \o (reading \o queue), answer, x.success)
    BY <1>1, <1>11 DEF Together, AtRest
  <2>2. After(queue', missing', irqs')
    BY <1>1, <1>3, <1>5, <1>7, <2>1
  <2>3. Len(reading') + missing' = x.success - 1
    BY <1>3, <1>4, <1>5, <2>1
  <2>. DEFINE w == reading' \o queue'
              h == << x.opcode >> \o w
  <2>4. Almost(h, answer, x.success)
    BY <1>5, <2>1
  <2>5. ASSUME missing = n PROVE reply' [1] = x.opcode /\ Almost(reply', answer, x.success)
    <3>1. reply' = Stored(reading') /\ Len(reading') = x.success - 1
      BY <1>3, <1>4, <1>5, <2>1, <2>5
    <3>2. \A i \in 1 .. Len(reading') : w[i] = reading'[i]
      BY <1>5, Joined DEF Joins
    <3>3. w \in Seq(Byte) /\ Len(w) >= Len(reading')
      <4>1. /\ w \in Seq(Byte) /\ Len(w) = Len(reading') + Len(queue')
            /\ Len(reading') \in Nat /\ Len(queue') \in Nat
        BY <1>5, Joined, LenProperties DEF Joins
      <4>. QED
        BY <4>1
    <3>. HIDE DEF w
    <3>4. h[1] = x.opcode /\ \A m \in 1 .. Len(w) : h[m + 1] = w[m]
      BY <1>4, <3>3, Prefixed
    <3>. HIDE DEF h
    <3>5. DOMAIN reading' = 1 .. x.success - 1
      BY <1>5, <3>1, LenProperties
    <3>6. \A i \in 1 .. Longest :
            Stored(reading')[i] = IF i - 1 \in 1 .. x.success - 1
                                  THEN reading'[i - 1] ELSE reply[i]
      BY <1>11, <3>5 DEF Stored, Offset
    <3>7. reply'[1] = x.opcode
      BY <1>4, <2>1, <3>1, <3>6 DEF Longest
    <3>8. \A i \in 1 .. x.success : reply'[i] = h[i]
      <4>. SUFFICES ASSUME NEW i \in 1 .. x.success, i # 1 PROVE reply'[i] = h[i]
        BY <3>4, <3>7
      <4>. DEFINE m == i - 1
      <4>1. /\ m \in 1 .. x.success - 1 /\ m + 1 = i /\ i \in 1 .. Longest
            /\ m \in 1 .. Len(reading')
        BY <1>4, <3>1 DEF Longest
      <4>2. m \in 1 .. Len(w)
        BY <3>1, <3>3, <4>1, <1>4, LenProperties
      <4>3. reply'[i] = reading'[m]
        BY <3>1, <3>6, <4>1
      <4>. HIDE DEF m
      <4>4. h[m + 1] = w[m] /\ w[m] = reading'[m]
        BY <3>2, <3>4, <4>1, <4>2
      <4>. QED
        BY <4>1, <4>3, <4>4
    <3>. QED
      BY <1>4, <2>4, <3>7, <3>8, AlmostSame
  <2>6. reply'[1] = x.opcode
    BY <1>5, <2>1, <2>5
  <2>7. outcome' = "all" => Almost(reply', answer, x.success)
    BY <1>5, <2>5
  <2>8. AtRest'
    BY <1>1, <1>2, <1>6, <2>1, <2>2, <2>3, <2>4, <2>6, <2>7 DEF AtRest
  <2>. QED
    BY <1>1, <1>6, <1>11, <2>8
       DEF Together, AtEnds, AtOpcode, AtOpcodeRead, AtCore, AtError, Delivered, AtAbort,
           Noted
<1>12. CASE stage = "error"
  <2>1. missing > 0 /\ ~asked /\ After(queue, missing, irqs)
    BY <1>1, <1>12 DEF Together, AtError
  <2>2. After(queue', missing', irqs')
    BY <1>1, <1>3, <1>5, <1>7, <2>1
  <2>3. AtError'
    BY <1>1, <1>6, <2>1, <2>2 DEF AtError
  <2>. QED
    BY <1>1, <1>6, <1>12, <2>3
       DEF Together, AtEnds, AtOpcode, AtOpcodeRead, AtCore, AtRest, Delivered, AtAbort,
           Noted
<1>. QED
  BY <1>1, <1>9, <1>10, <1>11, <1>12

\* The bytes of the core stay in front while others come in.
LEMMA CoreBytesKept ==
    ASSUME TypeOK, Genuine(CoreBytes[1], CoreBytes[2]), Len(reading) + Len(queue) >= 2,
           NEW f \in Seq(Byte), queue' = queue \o f, UNCHANGED << outcome, reading, reply >>
    PROVE  Genuine(CoreBytes'[1], CoreBytes'[2])
<1>1. reading \in Seq(Byte) /\ queue \in Seq(Byte)
      /\ Len(reading) \in Nat /\ Len(queue) \in Nat
  BY LenProperties DEF TypeOK
<1>2. CASE outcome = "none"
  <2>. DEFINE p == reading \o queue
              w == p \o f
  <2>1. p \in Seq(Byte) /\ Len(p) = Len(reading) + Len(queue)
    BY <1>1, Joined DEF Joins
  <2>2. reading \o (queue \o f) = (reading \o queue) \o f
    <3>1. reading \in Seq(Byte) /\ queue \in Seq(Byte)
      BY <1>1
    <3>. QED
      BY <3>1, ConcatAssociative
  <2>. HIDE DEF p
  <2>3. \A i \in 1 .. Len(p) : w[i] = p[i]
    BY <2>1, Joined DEF Joins
  <2>4. 1 \in 1 .. Len(p) /\ 2 \in 1 .. Len(p)
    BY <1>1, <2>1
  <2>5. CoreBytes = p /\ CoreBytes' = w
    BY <1>2, <2>2 DEF CoreBytes, p
  <2>. HIDE DEF w
  <2>. QED
    BY <2>3, <2>4, <2>5
<1>3. CASE outcome # "none"
  BY <1>3 DEF CoreBytes
<1>. QED
  BY <1>2, <1>3

\* The board's reply comes in, whole or with one byte behind its opcode damaged.
LEMMA KeptByReply ==
    ASSUME TypeOK, Together, asked, ~asked', UNCHANGED host,
           NEW f \in Seq(Byte), queue' = queue \o f,
           \/ Len(f) = x.success /\ f[1] = x.opcode /\ Almost(f, answer', x.success)
           \/ Len(f) = x.error /\ f[1] = NACK
    PROVE  Together'
<1>1. UNCHANGED << stage, kind, depth, outcome, missing, reading, reply, triggering,
                   returned >>
  BY DEF host
<1>2. x' = x /\ Interrupted' = Interrupted
  BY <1>1, XSame DEF Interrupted
<1>3. queue \in Seq(Byte) /\ missing \in Nat /\ Len(queue) \in Nat
  BY LenProperties DEF TypeOK
<1>10. Joins(queue', queue, f)
  BY <1>3, Joined
<1>4. \A n \in Nat : Len(queue) = n => ReplyAt(queue', n, irqs', x', answer')
  <2>. DEFINE w == queue \o f
  <2>1. Joins(w, queue, f)
    BY <1>3, Joined
  <2>. HIDE DEF w
  <2>2. \A n \in Nat : Len(queue) = n => ReplyAt(w, n, irqs', x, answer')
    BY <1>3, <2>1, XProper, ReplyArrives
  <2>. QED
    BY <1>2, <2>2 DEF w
<1>5. ASSUME NEW n \in Nat, Before(n), Interrupted
      PROVE  ReplyAt(queue', n, irqs', x', answer')
  BY <1>4, <1>5 DEF Before
<1>6. stage \in {"opcode", "core"}
  BY DEF Together, AtEnds, AtRest, AtError, AtAbort, TypeOK, Noted
<1>7. CASE stage = "opcode" /\ outcome = "none"
  <2>1. Before(0) /\ missing = 1 /\ reading = << >>
    BY <1>7 DEF Together, AtOpcode
  <2>2. CASE Interrupted
    <3>1. ReplyAt(queue', 0, irqs', x', answer')
      BY <1>5, <2>1, <2>2
    <3>2. Before(0)'
      BY <3>1 DEF Before
    <3>3. AtOpcode'
      BY <1>1, <2>1, <3>2 DEF AtOpcode
    <3>. QED
      BY <1>1, <1>7, <3>3
         DEF Together, AtEnds, AtOpcodeRead, AtCore, AtRest, AtError, AtAbort, Noted,
             Delivered
  <2>3. CASE ~Interrupted /\ Len(queue) = 0
    <3>1. ReplyAt(queue', 0, irqs', x', answer')
      BY <1>4, <2>3
    <3>2. Before(0)'
      BY <3>1 DEF Before
    <3>3. AtOpcode'
      BY <1>1, <2>1, <3>2 DEF AtOpcode
    <3>. QED
      BY <1>1, <1>7, <3>3
         DEF Together, AtEnds, AtOpcodeRead, AtCore, AtRest, AtError, AtAbort, Noted,
             Delivered
  <2>4. CASE ~Interrupted /\ Len(queue) = 3 /\ InterruptAt(queue, 0)
    <3>1. ReplyAt(queue', 3, irqs', x', answer')
      BY <1>4, <2>4
    <3>2. InterruptAt(queue', 0)
      BY <1>3, <1>10, <2>4 DEF Joins, InterruptAt
    <3>3. Before(0)'
      BY <1>2, <2>4, <3>1, <3>2 DEF Before
    <3>4. AtOpcode'
      BY <1>1, <2>1, <3>3 DEF AtOpcode
    <3>. QED
      BY <1>1, <1>7, <3>4
         DEF Together, AtEnds, AtOpcodeRead, AtCore, AtRest, AtError, AtAbort, Noted,
             Delivered
  <2>. QED
    BY <2>1, <2>2, <2>3, <2>4 DEF Before, After
<1>8. CASE stage = "opcode" /\ outcome = "all"
  <2>1. reply[1] = INTERRUPT /\ depth = 0 /\ Before(2) /\ Genuine(queue[1], queue[2])
    BY <1>8 DEF Together, AtOpcodeRead
  <2>2. ReplyAt(queue', 2, irqs', x', answer')
    BY <1>5, <1>8, <2>1 DEF Interrupted
  <2>3. Before(2)'
    BY <2>2 DEF Before
  <2>4. queue'[1] = queue[1] /\ queue'[2] = queue[2]
    <3>1. Len(queue) = 2
      BY <1>8, <2>1 DEF Before, Interrupted
    <3>. QED
      BY <1>10, <3>1 DEF Joins
  <2>5. AtOpcodeRead'
    BY <1>1, <2>1, <2>3, <2>4 DEF AtOpcodeRead
  <2>. QED
    BY <1>1, <1>8, <2>5
       DEF Together, AtEnds, AtOpcode, AtCore, AtRest, AtError, AtAbort, Noted, Delivered
<1>9. CASE stage = "core"
  <2>1. /\ outcome = "none" <=> missing > 0
        /\ Len(reading) + missing = 2
        /\ Genuine(CoreBytes[1], CoreBytes[2])
        /\ Before(missing) /\ Interrupted
    BY <1>9 DEF Together, AtCore, Interrupted
  <2>2. Len(queue) = missing
    BY <2>1 DEF Before
  <2>3. ReplyAt(queue', missing', irqs', x', answer')
    BY <1>1, <1>3, <1>4, <2>2
  <2>4. Len(reading) + Len(queue) >= 2
    BY <1>3, <2>1, <2>2
  <2>5. Genuine(CoreBytes'[1], CoreBytes'[2])
    BY <1>1, <2>1, <2>4, CoreBytesKept
  <2>6. AtCore'
    BY <1>1, <2>1, <2>3, <2>5 DEF AtCore, Before
  <2>. QED
    BY <1>1, <1>9, <2>6
       DEF Together, AtEnds, AtOpcode, AtOpcodeRead, AtRest, AtError, AtAbort, Noted,
           Delivered
<1>. QED
  BY <1>6, <1>7, <1>8, <1>9 DEF Together, TypeOK

LEMMA KeptByAnswer ==
    ASSUME TypeOK, Together, trouble' \subseteq Mild, Answer
    PROVE  Together'
<1>1. asked /\ ~asked' /\ UNCHANGED host /\ answer' = SuccessFrame /\ Carried(SuccessFrame)
  BY DEF Answer
<1>2. kind \in AllKinds /\ register' \in Byte
  BY LinkAssumption DEF TypeOK, Answer, Byte
<1>3. /\ SuccessFrame \in Seq(Byte) /\ Len(SuccessFrame) = x.success
      /\ SuccessFrame[1] = x.opcode
  BY <1>2, FrameIsWhole
<1>4. SuccessFrame # << >>
  BY <1>3, XProper DEF Proper
<1>5. PICK f \in Seq(Byte) :
             /\ Len(f) = Len(SuccessFrame) /\ f[1] = SuccessFrame[1] /\ queue' = queue \o f
             /\ Almost(f, SuccessFrame, Len(SuccessFrame))
  BY <1>1, <1>3, <1>4, CarriedMild
<1>6. Len(f) = x.success /\ f[1] = x.opcode /\ Almost(f, answer', x.success)
  BY <1>1, <1>3, <1>5
<1>. QED
  BY <1>1, <1>5, <1>6, KeptByReply

LEMMA KeptByRefuse ==
    ASSUME TypeOK, Together, Refuse
    PROVE  Together'
<1>1. asked /\ ~asked' /\ UNCHANGED host /\ queue' = queue \o ErrorFrame
  BY DEF Refuse
<1>2. ErrorFrame \in Seq(Byte) /\ Len(ErrorFrame) = x.error /\ ErrorFrame[1] = NACK
  BY ErrorIsWhole DEF TypeOK
<1>. QED
  BY <1>1, <1>2, KeptByReply

LEMMA KeptByRaiseInterrupt ==
    ASSUME TypeOK, Together, trouble' \subseteq Mild, RaiseInterrupt
    PROVE  Together'
<1>1. /\ irqs = TRUE /\ irqs' = FALSE /\ Carried(InterruptFrame)
      /\ UNCHANGED << stage, kind, depth, outcome, missing, reading, reply, triggering,
                      returned, asked, answer >>
  BY DEF RaiseInterrupt, host, TypeOK
<1>2. x' = x /\ Interrupted' = Interrupted
  BY <1>1, XSame DEF Interrupted
<1>3. /\ queue \in Seq(Byte) /\ reading \in Seq(Byte) /\ missing \in Nat
      /\ Len(queue) \in Nat /\ Len(reading) \in Nat
  BY LenProperties DEF TypeOK
<1>4. /\ x.success \in Nat /\ x.error \in Nat /\ x.success >= 1 /\ x.error >= 1
      /\ x.opcode \in Byte
  BY XProper DEF Proper, Longest
<1>5. /\ InterruptFrame \in Seq(Byte) /\ Len(InterruptFrame) = 3
      /\ InterruptFrame[1] = INTERRUPT /\ InterruptFrame # << >>
  BY DEF InterruptFrame, INTERRUPT, Core, Byte, Bits
<1>6. PICK f \in Seq(Byte) :
             /\ Len(f) = Len(InterruptFrame) /\ f[1] = InterruptFrame[1]
             /\ queue' = queue \o f
             /\ Almost(f, InterruptFrame, Len(InterruptFrame))
  BY <1>1, <1>5, CarriedMild
<1>7. Len(f) = 3 /\ InterruptAt(f, 0) /\ Joins(queue', queue, f)
  <2>1. Len(f) = 3 /\ f[1] = INTERRUPT /\ Joins(queue', queue, f)
    BY <1>3, <1>5, <1>6, Joined
  <2>2. PICK m \in Nat \ {1} : \A i \in (1 .. 3) \ {m} : f[i] = InterruptFrame[i]
    BY <1>5, <1>6 DEF Almost
  <2>3. f[2] = Core \/ f[3] = Core
    BY <2>2 DEF InterruptFrame
  <2>. QED
    BY <2>1, <2>3 DEF InterruptAt, Genuine
<1>8. \A s \in Nat : After(queue, s, irqs) => After(queue', s, irqs')
  BY <1>1, <1>3, <1>7, AfterInterrupt
<1>9. \A s \in Nat : ReplyAt(queue, s, irqs, x, answer) =>
                        /\ ReplyAt(queue', s, irqs', x', answer')
                        /\ \A i \in 1 .. s + 1 : queue'[i] = queue[i]
  <2>. SUFFICES ASSUME NEW s \in Nat, ReplyAt(queue, s, irqs, x, answer)
                PROVE  /\ ReplyAt(queue', s, irqs', x, answer)
                       /\ \A i \in 1 .. s + 1 : queue'[i] = queue[i]
    BY <1>1, <1>2
  <2>1. Proper(x)
    BY XProper
  <2>2. \A i \in 1 .. Len(queue) : queue'[i] = queue[i]
    BY <1>7 DEF Joins
  <2>. QED
    BY <1>3, <1>8, <2>1, <2>2, ReplyInterrupt, Zenon
<1>10. ASSUME NEW n \in Nat, Before(n)
       PROVE  \/ asked' /\ ~Interrupted' /\ After(queue', 0, irqs')
              \/ ~asked' /\ ReplyAt(queue', n, irqs', x', answer')
              \/ /\ ~asked' /\ ~Interrupted' /\ InterruptAt(queue', 0)
                 /\ ReplyAt(queue', 3, irqs', x', answer')
  <2>1. CASE asked
    BY <1>1, <1>2, <1>8, <1>10, <2>1 DEF Before
  <2>2. CASE ~asked /\ ReplyAt(queue, n, irqs, x, answer)
    BY <1>1, <1>9, <2>2
  <2>3. CASE /\ ~asked /\ ~Interrupted /\ InterruptAt(queue, 0)
             /\ ReplyAt(queue, 3, irqs, x, answer)
    <3>1. 3 \in Nat /\ 1 \in 1 .. 3 + 1 /\ 2 \in 1 .. 3 + 1 /\ 3 \in 1 .. 3 + 1
      OBVIOUS
    <3>2. ReplyAt(queue', 3, irqs', x', answer') /\ InterruptAt(queue', 0)
      BY <1>9, <2>3, <3>1 DEF InterruptAt
    <3>. QED
      BY <1>1, <1>2, <2>3, <3>2
  <2>. QED
    BY <1>1, <1>10, <2>1, <2>2, <2>3 DEF Before
<1>11. AtEnds'
  BY <1>1, <1>8 DEF Together, AtEnds
<1>12. AtOpcode'
  BY <1>1, <1>10 DEF Together, AtOpcode, Before
<1>13. AtOpcodeRead'
  <2>. SUFFICES ASSUME stage = "opcode", outcome = "all" PROVE AtOpcodeRead'
    BY <1>1 DEF AtOpcodeRead
  <2>1. CASE reply[1] = INTERRUPT /\ depth = 0 /\ Before(2) /\ Genuine(queue[1], queue[2])
    <3>1. Before(2)'
      BY <1>10, <2>1 DEF Before
    <3>2. ReplyAt(queue, 2, irqs, x, answer)
      BY <1>1, <2>1 DEF Before, Interrupted
    <3>3. queue'[1] = queue[1] /\ queue'[2] = queue[2]
      BY <1>9, <3>2
    <3>. QED
      BY <1>1, <2>1, <3>1, <3>3 DEF AtOpcodeRead
  <2>2. CASE /\ reply[1] = x.opcode /\ ~asked
             /\ After(queue, x.success - 1, irqs)
             /\ Almost(<< x.opcode >> \o queue, answer, x.success)
    <3>1. x.success - 1 \in Nat /\ x.success <= Len(queue) + 1
      BY <1>3, <1>4, <2>2 DEF After
    <3>2. After(queue', x.success - 1, irqs')
      BY <1>8, <2>2, <3>1
    <3>3. Almost(<< x.opcode >> \o (queue \o f), answer, x.success)
      BY <1>3, <1>4, <2>2, <3>1, AlmostLonger
    <3>. QED
      BY <1>1, <1>2, <1>6, <2>2, <3>2, <3>3 DEF AtOpcodeRead
  <2>3. CASE reply[1] = NACK /\ ~asked /\ After(queue, x.error - 1, irqs)
    <3>1. x.error - 1 \in Nat
      BY <1>4
    <3>2. After(queue', x.error - 1, irqs')
      BY <1>8, <2>3, <3>1
    <3>. QED
      BY <1>1, <1>2, <2>3, <3>2 DEF AtOpcodeRead
  <2>. QED
    BY <2>1, <2>2, <2>3 DEF Together, AtOpcodeRead
<1>14. AtCore'
  <2>. SUFFICES ASSUME stage = "core" PROVE AtCore'
    BY <1>1 DEF AtCore
  <2>1. /\ outcome = "none" <=> missing > 0
        /\ Len(reading) + missing = 2
        /\ Genuine(CoreBytes[1], CoreBytes[2])
        /\ Before(missing) /\ Interrupted
    BY DEF Together, AtCore, Interrupted
  <2>2. ~asked' /\ ReplyAt(queue', missing, irqs', x', answer')
    BY <1>2, <1>3, <1>10, <2>1
  <2>3. ReplyAt(queue, missing, irqs, x, answer)
    BY <1>1, <2>1 DEF Before
  <2>4. Len(queue) > missing
    BY <1>3, <2>3, XProper, ReplyLong
  <2>5. Len(reading) + Len(queue) >= 2
    BY <1>3, <2>1, <2>4
  <2>6. Genuine(CoreBytes'[1], CoreBytes'[2])
    BY <1>1, <1>6, <2>1, <2>5, CoreBytesKept
  <2>. QED
    BY <1>1, <2>1, <2>2, <2>6 DEF AtCore, Before
<1>15. AtRest'
  <2>. SUFFICES ASSUME stage = "rest" PROVE AtRest'
    BY <1>1 DEF AtRest
  <2>1. /\ outcome = "none" <=> missing > 0
        /\ reply[1] = x.opcode /\ ~asked
        /\ Len(reading) + missing = x.success - 1
        /\ After(queue, missing, irqs)
        /\ Almost(IF outcome = "none" THEN << x.opcode >> \o (reading \o queue) ELSE reply,
                  answer, x.success)
    BY DEF Together, AtRest
  <2>2. After(queue', missing', irqs')
    BY <1>1, <1>3, <1>8, <2>1
  <2>3. CASE outcome = "none"
    <3>. DEFINE p == reading \o queue
    <3>1. p \in Seq(Byte) /\ x.success <= Len(p) + 1
      <4>1. p \in Seq(Byte) /\ Len(p) = Len(reading) + Len(queue)
        BY <1>3, Joined DEF Joins
      <4>2. Len(queue) >= missing
        BY <1>3, <2>1 DEF After
      <4>. HIDE DEF p
      <4>. QED
        BY <1>3, <1>4, <2>1, <4>1, <4>2
    <3>2. Almost(<< x.opcode >> \o p, answer, x.success)
      BY <2>1, <2>3
    <3>3. reading' \o queue' = p \o f
      BY <1>1, <1>3, <1>6, ConcatAssociative
    <3>. HIDE DEF p
    <3>4. Almost(<< x.opcode >> \o (p \o f), answer, x.success)
      BY <1>4, <3>1, <3>2, AlmostLonger
    <3>5. Almost(<< x'.opcode >> \o (reading' \o queue'), answer', x'.success)
      BY <1>1, <1>2, <3>3, <3>4
    <3>. QED
      BY <1>1, <1>2, <2>1, <2>2, <2>3, <3>5 DEF AtRest
  <2>4. CASE outcome # "none"
    BY <1>1, <1>2, <2>1, <2>2, <2>4 DEF AtRest
  <2>. QED
    BY <2>3, <2>4
<1>16. AtError'
  BY <1>1, <1>3, <1>8 DEF Together, AtError
<1>17. Delivered' /\ AtAbort' /\ Noted'
  BY <1>1, <1>2 DEF Together, Delivered, AtAbort, Noted
<1>. QED
  BY <1>1, <1>11, <1>12, <1>13, <1>14, <1>15, <1>16, <1>17 DEF Together

-----------------------------------------------------------------------------
(* The theorems.                                                           *)

LEMMA InitialTogether == Init => IInv
<1>. SUFFICES ASSUME Init PROVE IInv
  OBVIOUS
<1>1. Together
  BY DEF Init, Together, AtEnds, AtOpcode, AtOpcodeRead, AtCore, AtRest, AtError, AtAbort,
         Noted, Delivered, After
<1>. QED
  BY <1>1, InitialTypes DEF IInv

LEMMA Step == IInv /\ [Next]_vars => IInv'
<1>. SUFFICES ASSUME IInv, [Next]_vars, trouble' \subseteq Mild
              PROVE  Together'
  BY TypeStep DEF IInv
<1>1. TypeOK /\ AnswerWhole
  BY DEF IInv
<1>2. trouble \subseteq trouble'
  BY DEF Next, Host, Board, vars, board, NoFault, Fault, OpenDevice, CloseDevice, Unplug,
         DoSyncTask, TakeBytes, TimeOut, Send, SendFails, OpcodeReceived, RestReceived,
         ErrorReceived, CoreReceived, Answer, Carried, Refuse, Lose, RaiseInterrupt
<1>3. Together
  BY <1>2 DEF IInv
<1>4. CASE OpenDevice \/ CloseDevice
  BY <1>1, <1>3, <1>4, KeptByDevice
<1>5. CASE Unplug \/ Lose
  BY <1>5 DEF Unplug, Lose, Fault, Mild
<1>6. CASE \E k \in Kinds : DoSyncTask(k)
  BY <1>1, <1>3, <1>6, KeptByDoSyncTask
<1>7. CASE TakeBytes
  BY <1>1, <1>3, <1>7, KeptByTakeBytes
<1>8. CASE TimeOut
  BY <1>1, <1>3, <1>8, NoTimeOut
<1>9. CASE Send
  BY <1>1, <1>3, <1>9, KeptBySend
<1>10. CASE SendFails
  BY <1>1, <1>3, <1>10, KeptBySendFails
<1>11. CASE OpcodeReceived
  BY <1>1, <1>3, <1>11, KeptByOpcodeReceived
<1>12. CASE RestReceived
  BY <1>1, <1>3, <1>12, KeptByRestReceived
<1>13. CASE ErrorReceived
  BY <1>1, <1>3, <1>13, KeptByErrorReceived
<1>14. CASE CoreReceived
  BY <1>1, <1>3, <1>14, KeptByCoreReceived
<1>15. CASE Answer
  BY <1>1, <1>3, <1>15, KeptByAnswer
<1>16. CASE Refuse
  BY <1>1, <1>3, <1>16, KeptByRefuse
<1>17. CASE RaiseInterrupt
  BY <1>1, <1>3, <1>17, KeptByRaiseInterrupt
<1>18. CASE UNCHANGED vars
  <2>1. /\ UNCHANGED << stage, kind, depth, outcome, missing, reading, reply, triggering,
                        returned >>
        /\ UNCHANGED << asked, irqs, answer, queue >>
    BY <1>18 DEF vars, host, board
  <2>2. x' = x
    BY <2>1, XSame
  <2>3. (\A n : Before(n)' <=> Before(n)) /\ CoreBytes' = CoreBytes
    BY <2>1, <2>2 DEF Before, Interrupted, CoreBytes
  <2>4. AtEnds' /\ AtOpcode' /\ AtOpcodeRead'
    BY <1>3, <2>1, <2>2, <2>3 DEF Together, AtEnds, AtOpcode, AtOpcodeRead
  <2>5. AtCore' /\ AtRest' /\ AtError'
    BY <1>3, <2>1, <2>2, <2>3 DEF Together, AtCore, AtRest, AtError
  <2>6. AtAbort' /\ Noted' /\ Delivered'
    BY <1>3, <2>1, <2>2 DEF Together, AtAbort, Noted, Delivered
  <2>. QED
    BY <1>3, <2>1, <2>4, <2>5, <2>6 DEF Together
<1>. QED
  BY <1>4, <1>5, <1>6, <1>7, <1>8, <1>9, <1>10, <1>11, <1>12, <1>13, <1>14, <1>15, <1>16,
     <1>17, <1>18 DEF Next, Host, Board

\* Host and board are together at all times.
THEOREM Inductive == Spec => []IInv
<1>1. Init => IInv
  BY InitialTogether
<1>2. IInv /\ [Next]_vars => IInv'
  BY Step
<1>. QED
  BY <1>1, <1>2, PTL DEF Spec

\* While each frame has its length and its opcode, host and board stay in step: between
\* two exchanges the queue holds nothing but an interrupt, and the only assertion that
\* can end the program is that of fetchAsyncReplies() at the copies of the core of an
\* interrupt it finds there (taskexecutor.cc:86, 361-366), if they differ: task.cc:124-218
\* and taskexecutor.cc:324-376, for all exchanges, any bytes, any number of calls, retries
\* and interrupts.
THEOREM StepCorrect == Spec => []InStep
<1>1. IInv => InStep
  <2>1. Len(InterruptFrame) = 3
    BY DEF InterruptFrame
  <2>2. ASSUME IInv, trouble \subseteq Mild, stage = "idle"
        PROVE  \/ queue = << >>
               \/ Len(queue) = Len(InterruptFrame) /\ queue[1] = INTERRUPT
    <3>1. After(queue, 0, irqs) /\ queue \in Seq(Byte)
      BY <2>2 DEF IInv, Together, AtEnds, TypeOK
    <3>. QED
      BY <2>1, <3>1, EmptySeq DEF After, InterruptAt
  <2>. QED
    BY <2>2 DEF IInv, Together, AtAbort, InStep
<1>. QED
  BY <1>1, Inductive, PTL

\* doSyncTask() returns true only if the board has carried out this exchange, and
\* the bytes are those the board has sent, though one byte of every reply be
\* damaged: taskexecutor.cc:93-144 and the checksums of the exchanges.
THEOREM OwnCorrect == Spec => []SuccessIsOwn
<1>1. IInv => SuccessIsOwn
  BY DEF IInv, Together, Delivered, SuccessIsOwn
<1>. QED
  BY <1>1, Inductive, PTL
=============================================================================
