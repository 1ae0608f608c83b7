--------------------------- MODULE SessionProofs ---------------------------
(***************************************************************************)
(* What init() leaves behind, for any number of boards, binaries of any    *)
(* length, faults and calls, and what the process knows of its board if    *)
(* there is one board only.                                                *)
(*                                                                         *)
(* Two facts carry the first part.  A board that says it is configured runs*)
(* what its flash holds, because every write takes "configured" back; and  *)
(* the process that writes knows how far the flash is written (Written).   *)
(* The second part needs that the answer of a board is the last thing      *)
(* that is known of it until the board is used (OneBoardInv).              *)
(***************************************************************************)
EXTENDS Session, TLAPS

Places   == {"down", "idle", "scan", "detect", "detected", "serial", "status",
             "write", "writeStatus", "configure"}
Contexts == {"UNDEFINED", "MCU", "SOC"}

\* Every variable keeps its type, and no sector is written that the binary has not.
TypeOK ==
    /\ at \in Places
    /\ target \in Contexts
    /\ device \in Boards \cup {0}
    /\ wanted \in Wanted \cup {0}
    /\ binary \in Binaries
    /\ unseen \subseteq Boards
    /\ name \in Boards \cup {0}
    /\ probe \in Contexts \cup {"CONF"}
    /\ found \in [board : Boards \cup {0}, target : Contexts]
    /\ sector \in Nat
    /\ result \in {"none", "ok", "fail"}
    /\ board \in [Boards -> States]
    /\ attached \subseteq Boards
    /\ inits \in Nat
    /\ faults \in Nat
    /\ at = "write" => sector < binary.sectors
    /\ at \in {"detect", "detected"} => name \in Boards

\* A configured FPGA runs the flash of its board.
RunsItsFlash(b) == b.configured => b.fpga = b.flash

\* What the flash of a board holds when the first n sectors of c are written.
Written(flash, c, n) ==
    \A i \in 0 .. n - 1 :
        flash[i] = IF i = c.sectors - 1 /\ c.exact THEN Zeros ELSE Content(c, i)

\* How far the board of the process has come towards running the binary.
Progress ==
    device \in attached =>
        /\ at = "write" => Written(Here.flash, binary, sector)
        /\ at = "writeStatus" => Written(Here.flash, binary, binary.sectors)
        /\ at = "configure" => Here.hash = binary.hash
        /\ at = "idle" /\ result = "ok" => Here.configured /\ Here.hash = binary.hash

Sound(b) == b \in States /\ RunsItsFlash(b)

AllRunTheirFlash == \A b \in Boards : RunsItsFlash(board[b])

IInv == TypeOK /\ AllRunTheirFlash /\ Progress

-----------------------------------------------------------------------------

LEMMA Memories ==
    /\ NewBoard \in States
    /\ \A s \in States : /\ s.mode \in {"MCU", "SOC", "CONF"} /\ s.flash \in Memory
                         /\ s.fpga \in Memory /\ s.configured \in BOOLEAN
    /\ \A b \in Binaries : /\ b.hash \in Nat \ {0} /\ b.sectors \in Nat \ {0}
                           /\ b.exact \in BOOLEAN
    /\ \A b \in Binaries : \A i \in 0 .. b.sectors - 1 : i \in Sectors /\ Content(b, i) \in Contents
    /\ Zeros \in Contents
<1>1. \A b \in Binaries : b.hash \in Nat \ {0} /\ b.sectors \in Nat \ {0} /\ b.exact \in BOOLEAN
  BY SessionAssumption
<1>2. Zeros \in Contents /\ Erased \in Contents
  BY DEF Contents
<1>3. ASSUME NEW b \in Binaries, NEW i \in 0 .. b.sectors - 1
      PROVE  i \in Sectors /\ Content(b, i) \in Contents
  BY DEF Sectors, Contents
<1>4. Empty \in Memory
  BY <1>2 DEF Empty, Memory
<1>5. NewBoard \in States
  BY <1>4 DEF NewBoard, States
<1>6. \A s \in States : /\ s.mode \in {"MCU", "SOC", "CONF"} /\ s.flash \in Memory
                        /\ s.fpga \in Memory /\ s.configured \in BOOLEAN
  BY DEF States
<1>. QED
  BY <1>1, <1>2, <1>3, <1>5, <1>6

LEMMA InitHolds == Init => IInv
<1>. SUFFICES ASSUME Init PROVE IInv
  OBVIOUS
<1>1. TypeOK
  BY Memories DEF Init, TypeOK, Places, Contexts, NotFound
<1>2. AllRunTheirFlash
  BY DEF Init, AllRunTheirFlash, RunsItsFlash, NewBoard
<1>3. Progress
  BY SessionAssumption DEF Init, Progress
<1>. QED
  BY <1>1, <1>2, <1>3 DEF IInv

\* What the steps make of a board is a board, and runs its flash if it is configured.
LEMMA Changes ==
    ASSUME NEW s \in States, RunsItsFlash(s)
    PROVE  /\ \A m \in {"MCU", "SOC", "CONF"} : Sound([s EXCEPT !.mode = m])
           /\ \A b \in Binaries : Sound([s EXCEPT !.hash = b.hash, !.configured = FALSE])
           /\ \A i \in Sectors, c \in Contents :
                 Sound([s EXCEPT !.flash[i] = c, !.configured = FALSE])
           /\ Sound(Configured(s))
           /\ Sound([s EXCEPT !.mode = "MCU", !.configured = FALSE, !.fpga = Empty])
<1>1. s.flash \in Memory /\ Empty \in Memory
  BY DEF States, Empty, Memory, Contents
<1>2. \A i \in Sectors, c \in Contents : [s.flash EXCEPT ![i] = c] \in Memory
  BY <1>1 DEF Memory
<1>. USE DEF Sound, RunsItsFlash
<1>3. \A m \in {"MCU", "SOC", "CONF"} : Sound([s EXCEPT !.mode = m])
  BY DEF States
<1>4. \A b \in Binaries : Sound([s EXCEPT !.hash = b.hash, !.configured = FALSE])
  BY DEF States
<1>5. ASSUME NEW i \in Sectors, NEW c \in Contents
      PROVE  Sound([s EXCEPT !.flash[i] = c, !.configured = FALSE])
  BY <1>2 DEF States
<1>6. Sound(Configured(s))
  BY <1>1 DEF States, Configured
<1>7. Sound([s EXCEPT !.mode = "MCU", !.configured = FALSE, !.fpga = Empty])
  BY <1>1 DEF States
<1>. QED
  BY <1>3, <1>4, <1>5, <1>6, <1>7

-----------------------------------------------------------------------------
(* What the actions that talk to a board come down to: no board changes    *)
(* (Kept), the board of the process does what it is told (Told), the       *)
(* context changes (Switched), or the process ends (Ended).                *)

Kept == UNCHANGED <<board, attached>> /\ faults' \in Nat

Told(mode, new) ==
    /\ device \in attached /\ Here.mode = mode
    /\ board' = [board EXCEPT ![device] = new]
    /\ UNCHANGED attached /\ faults' \in Nat

Switched(from, to) ==
    /\ target = from
    /\ Told(from, [Here EXCEPT !.mode = to])
    /\ target' = to
    /\ UNCHANGED <<at, device, result, inits, callVars>>

Ended(half) ==
    /\ Down
    /\ Kept \/ \E mode \in {"MCU", "SOC"}, to \in {"MCU", "SOC"} :
                   Told(mode, half) \/ Told(mode, [Here EXCEPT !.mode = to])

LEMMA ConsiderCases ==
    ASSUME TypeOK, Consider
    PROVE  /\ at = "detected"
           /\ \/ Switched("SOC", "MCU")
              \/ Ended(Here)
              \/ LookedAt(NotFound) /\ Kept
              \/ /\ probe \in {"MCU", "SOC"}
                 /\ wanted = 0 \/ (device \in attached /\ wanted = device)
                 /\ LookedAt(ThisOne) /\ Kept
<1>. USE DEF TypeOK, Fault, Kept, Told, Switched, Ended
<1>1. CASE LookedAt(NotFound) /\ UNCHANGED <<board, attached, faults>>
  BY <1>1 DEF Consider
<1>2. CASE wanted = 0 /\ LookedAt(ThisOne) /\ UNCHANGED <<board, attached, faults>>
  BY <1>1, <1>2 DEF Consider
<1>3. CASE probe \in {"MCU", "SOC"} /\ wanted # 0 /\ OnMcu(Here, Here, LookedAt(Serial), LookedAt(NotFound))
  <2>1. CASE Switch("SOC", "MCU", LookedAt(NotFound))
    BY <2>1 DEF Consider, Switch, Exchange, Refused, Aborts, Noted
  <2>2. CASE target = "UNDEFINED" /\ LookedAt(NotFound) /\ UNCHANGED <<board, attached, faults>>
    BY <2>2 DEF Consider
  <2>3. CASE Exchange("MCU", Here, Here, LookedAt(Serial), LookedAt(NotFound))
    <3>1. [board EXCEPT ![device] = Here] = board
      BY DEF Here
    <3>. QED
      BY <1>3, <2>3, <3>1 DEF Consider, Exchange, Refused, Aborts, Serial
  <2>. QED
    BY <1>3, <2>1, <2>2, <2>3 DEF OnMcu
<1>. QED
  BY <1>1, <1>2, <1>3 DEF Consider

LEMMA ReadSerialCases ==
    ASSUME TypeOK, ReadSerial
    PROVE  /\ at = "serial"
           /\ Switched("SOC", "MCU") \/ Ended(Here) \/ (Goto("status") /\ Kept)
<1>1. [board EXCEPT ![device] = Here] = board
  BY DEF Here, TypeOK
<1>. QED
  BY <1>1 DEF ReadSerial, OnMcu, Switch, Exchange, Refused, Aborts, Noted, TypeOK, Fault, Kept, Told, Switched, Ended

LEMMA ReadStatusCases ==
    ASSUME TypeOK, ReadStatus
    PROVE  /\ at = "status"
           /\ \/ Switched("SOC", "MCU")
              \/ Ended(Here)
              \/ ReturnFalse /\ Kept
              \/ /\ device \in attached /\ Kept
                 /\ IF Compare(Here) = "done" THEN Return("ok")
                    ELSE at' = Compare(Here) /\ UNCHANGED result
                 /\ sector' = 0
                 /\ UNCHANGED <<target, device, inits, wanted, binary, unseen, name,
                                probe, found>>
<1>1. [board EXCEPT ![device] = Here] = board
  BY DEF Here, TypeOK
<1>. QED
  BY <1>1 DEF ReadStatus, OnMcu, Switch, Exchange, Refused, Aborts, Noted, TypeOK, Fault, Kept, Told, Switched, Ended

SectorWritten == [Here EXCEPT !.flash[sector] = SectorSent, !.configured = FALSE]

LEMMA WriteSectorCases ==
    ASSUME TypeOK, WriteSector
    PROVE  /\ at = "write"
           /\ \/ Ended(SectorWritten)
              \/ ReturnFalse /\ Kept
              \/ /\ Told("MCU", SectorWritten)
                 /\ at' = IF SectorsLeft THEN "write" ELSE "writeStatus"
                 /\ sector' = sector + 1
                 /\ UNCHANGED <<target, device, result, inits, wanted, binary,
                                unseen, name, probe, found>>
  BY DEF WriteSector, SectorWritten, Exchange, Refused, Aborts, TypeOK, Fault, Kept, Told, Ended

StatusWritten == [Here EXCEPT !.hash = binary.hash, !.configured = FALSE]

LEMMA WriteStatusCases ==
    ASSUME TypeOK, WriteStatus
    PROVE  /\ at = "writeStatus"
           /\ \/ Switched("SOC", "MCU")
              \/ Ended(StatusWritten)
              \/ ReturnFalse /\ Kept
              \/ Told("MCU", StatusWritten) /\ Goto("configure")
  BY DEF WriteStatus, StatusWritten, OnMcu, Switch, Exchange, Refused, Aborts, Noted, TypeOK, Fault, Kept, Told, Switched, Ended

LEMMA ConfigureCases ==
    ASSUME TypeOK, Configure
    PROVE  /\ at = "configure"
           /\ \/ Switched("SOC", "MCU")
              \/ Ended([Here EXCEPT !.mode = "CONF"])
              \/ ReturnFalse /\ Kept
              \/ /\ Told("MCU", Configured(Here))
                 /\ Return("ok") /\ UNCHANGED <<target, device, inits, callVars>>
  BY DEF Configure, OnMcu, Switch, Exchange, Refused, Aborts, Noted, TypeOK, Fault, Kept, Told, Switched, Ended

LEMMA UseRegisterCases ==
    ASSUME TypeOK, UseRegister
    PROVE  /\ at = "idle" /\ result = "ok"
           /\ Switched("MCU", "SOC") \/ Ended(Here) \/ (UNCHANGED hostVars /\ Kept)
  BY DEF UseRegister, Switch, Exchange, Refused, Aborts, Noted, TypeOK, Fault, Kept, Told, Switched, Ended

-----------------------------------------------------------------------------
(* The invariant.                                                          *)

LEMMA HereIsSound == TypeOK /\ AllRunTheirFlash /\ device \in attached => device \in Boards /\ Sound(Here)
  BY DEF TypeOK, AllRunTheirFlash, Sound, Here

LEMMA ToldOne ==
    ASSUME TypeOK, AllRunTheirFlash, NEW new, Sound(new), NEW mode, Told(mode, new)
    PROVE  /\ device \in Boards /\ attached' = attached /\ faults' \in Nat
           /\ board' \in [Boards -> States] /\ board'[device] = new
           /\ AllRunTheirFlash'
  BY DEF TypeOK, AllRunTheirFlash, Sound, Told

LEMMA EndedStep ==
    ASSUME IInv, NEW half, device \in attached => Sound(half), Ended(half)
    PROVE  IInv'
<1>. USE DEF IInv
<1>1. Down
  BY DEF Ended
<1>2. attached' = attached /\ faults' \in Nat /\ board' \in [Boards -> States] /\ AllRunTheirFlash'
  <2>1. CASE Kept
    BY <2>1 DEF Kept, TypeOK, AllRunTheirFlash
  <2>2. CASE \E mode \in {"MCU", "SOC"} : Told(mode, half)
    BY <2>2, ToldOne DEF Told
  <2>3. CASE \E mode \in {"MCU", "SOC"}, to \in {"MCU", "SOC"} : Told(mode, [Here EXCEPT !.mode = to])
    <3>1. PICK mode \in {"MCU", "SOC"}, to \in {"MCU", "SOC"} : Told(mode, [Here EXCEPT !.mode = to])
      BY <2>3
    <3>2. Sound([Here EXCEPT !.mode = to])
      BY <3>1, HereIsSound, Changes DEF Told, Sound
    <3>. QED
      BY <3>1, <3>2, ToldOne
  <2>. QED
    BY <2>1, <2>2, <2>3 DEF Ended
<1>3. TypeOK'
  BY <1>1, <1>2 DEF TypeOK, Down, Places, Contexts, callVars
<1>4. Progress'
  BY <1>1 DEF Down, Progress
<1>. QED
  BY <1>2, <1>3, <1>4

LEMMA SwitchedStep ==
    ASSUME IInv, NEW from \in {"MCU", "SOC"}, NEW to \in {"MCU", "SOC"}, Switched(from, to)
    PROVE  IInv'
<1>. DEFINE new == [Here EXCEPT !.mode = to]
<1>. USE DEF IInv
<1>1. device \in attached /\ Told(from, new)
  BY DEF Switched, Told
<1>2. Sound(new) /\ Here \in States
  BY <1>1, HereIsSound, Changes DEF Sound
<1>3. new.flash = Here.flash /\ new.hash = Here.hash /\ new.configured = Here.configured
  BY <1>2 DEF States
<1>. HIDE DEF new
<1>4. /\ device \in Boards /\ attached' = attached /\ faults' \in Nat
      /\ board' \in [Boards -> States] /\ board'[device] = new
      /\ AllRunTheirFlash'
  BY <1>1, <1>2, ToldOne
<1>5. TypeOK'
  BY <1>4 DEF TypeOK, Switched, Contexts, callVars
<1>6. Here' = new
  BY <1>4 DEF Switched, Here
<1>7. Progress'
  BY <1>1, <1>3, <1>6 DEF Progress, Switched, callVars
<1>. QED
  BY <1>4, <1>5, <1>7

\* A step that changes no board, in a call of init() or between two calls.
LEMMA KeptStep ==
    ASSUME IInv, Kept, TypeOK',
           device' \in attached' => at' \notin {"write", "writeStatus", "configure"},
           device' \in attached' => ~ (at' = "idle" /\ result' = "ok")
    PROVE  IInv'
<1>1. AllRunTheirFlash'
  BY DEF IInv, AllRunTheirFlash, Kept
<1>2. Progress'
  BY DEF Progress
<1>. QED
  BY <1>1, <1>2 DEF IInv

\* init() returns false.
LEMMA ReturnFalseStep == IInv /\ ReturnFalse /\ Kept => IInv'
<1>. SUFFICES ASSUME IInv, ReturnFalse, Kept PROVE IInv'
  OBVIOUS
<1>1. TypeOK'
  BY DEF IInv, TypeOK, ReturnFalse, Return, Kept, callVars, Places
<1>. QED
  BY <1>1, KeptStep DEF ReturnFalse, Return

\* The search for a board.
LEMMA SearchStep ==
    ASSUME IInv,
           \/ Start \/ ScanNext \/ Detect \/ Consider \/ OpenFound \/ ReadSerial
           \/ \E serial \in Wanted, b \in Binaries : CallInit(serial, b)
    PROVE  IInv'
<1>. USE DEF TypeOK, Places, Contexts, callVars, hostVars, Fault, Return, Goto, Kept
<1>. TypeOK
  BY DEF IInv
<1>1. CASE Start
  <2>1. TypeOK' /\ Kept /\ at' = "idle" /\ result' = "none"
    BY <1>1 DEF Start
  <2>. QED
    BY <2>1, KeptStep
<1>2. CASE \E serial \in Wanted, b \in Binaries : CallInit(serial, b)
  <2>1. TypeOK' /\ Kept /\ at' = "scan"
    BY <1>2 DEF CallInit, NotFound
  <2>. QED
    BY <2>1, KeptStep
<1>3. CASE ScanNext
  <2>1. TypeOK' /\ Kept /\ at' = "detect"
    BY <1>3 DEF ScanNext, OpenNext
  <2>. QED
    BY <2>1, KeptStep
<1>4. CASE Detect
  <2>1. \A b \in Boards : board[b].mode \in {"MCU", "SOC", "CONF"}
    BY Memories
  <2>2. probe' \in {"UNDEFINED", "MCU", "SOC", "CONF"} /\ Kept /\ at' \in {"detect", "detected"}
    BY <1>4, <2>1 DEF Detect, Detected, Here
  <2>3. TypeOK'
    BY <1>4, <2>2 DEF Detect
  <2>. QED
    BY <2>2, <2>3, KeptStep
<1>5. CASE Consider
  <2>1. CASE LookedAt(NotFound) /\ Kept
    <3>1. TypeOK' /\ at' = "scan"
      BY <2>1 DEF LookedAt, NotFound
    <3>. QED
      BY <2>1, <3>1, KeptStep
  <2>2. CASE at = "detected" /\ probe \in {"MCU", "SOC"} /\ LookedAt(ThisOne) /\ Kept
    <3>1. TypeOK' /\ at' = "scan"
      BY <2>2 DEF LookedAt, ThisOne
    <3>. QED
      BY <2>2, <3>1, KeptStep
  <2>3. CASE Ended(Here)
    BY <2>3, EndedStep, HereIsSound DEF IInv
  <2>4. CASE Switched("SOC", "MCU")
    BY <2>4, SwitchedStep
  <2>. QED
    BY <1>5, <2>1, <2>2, <2>3, <2>4, ConsiderCases
<1>6. CASE OpenFound
  <2>1. CASE ReturnFalse /\ UNCHANGED <<board, attached, faults>>
    BY <2>1, ReturnFalseStep
  <2>2. CASE /\ found.board \in attached /\ device' = found.board /\ target' = found.target
             /\ at' = "serial" /\ UNCHANGED <<result, inits, callVars, board, attached, faults>>
    <3>1. TypeOK' /\ Kept
      BY <2>2
    <3>. QED
      BY <2>2, <3>1, KeptStep
  <2>. QED
    BY <1>6, <2>1, <2>2 DEF OpenFound
<1>7. CASE ReadSerial
  <2>1. CASE Goto("status") /\ Kept
    <3>1. TypeOK'
      BY <2>1
    <3>. QED
      BY <2>1, <3>1, KeptStep
  <2>2. CASE Ended(Here)
    BY <2>2, EndedStep, HereIsSound DEF IInv
  <2>3. CASE Switched("SOC", "MCU")
    BY <2>3, SwitchedStep
  <2>. QED
    BY <1>7, <2>1, <2>2, <2>3, ReadSerialCases
<1>. QED
  BY <1>1, <1>2, <1>3, <1>4, <1>5, <1>6, <1>7

LEMMA ReadStatusStep == IInv /\ ReadStatus => IInv'
<1>. SUFFICES ASSUME IInv, ReadStatus PROVE IInv'
  OBVIOUS
<1>. USE DEF IInv
<1>1. CASE /\ device \in attached /\ Kept
           /\ IF Compare(Here) = "done" THEN Return("ok")
              ELSE at' = Compare(Here) /\ UNCHANGED result
           /\ sector' = 0
           /\ UNCHANGED <<target, device, inits, wanted, binary, unseen, name, probe, found>>
  <2>1. \/ at' = "write"
        \/ at' = "configure" /\ Here.hash = binary.hash
        \/ at' = "idle" /\ Here.hash = binary.hash /\ Here.configured
    BY <1>1, HereIsSound DEF Compare, Return, Sound, States
  <2>2. 0 < binary.sectors
    BY Memories DEF TypeOK
  <2>3. TypeOK'
    BY <1>1, <2>1, <2>2 DEF TypeOK, Kept, Return, Places
  <2>4. AllRunTheirFlash' /\ Here' = Here /\ attached' = attached
    BY <1>1 DEF Kept, AllRunTheirFlash, Here
  <2>5. Progress'
    BY <1>1, <2>1, <2>4 DEF Progress, Written
  <2>. QED
    BY <2>3, <2>4, <2>5
<1>2. CASE Ended(Here)
  BY <1>2, EndedStep, HereIsSound
<1>. QED
  BY <1>1, <1>2, SwitchedStep, ReturnFalseStep, ReadStatusCases

LEMMA SectorWrittenIsSound ==
    ASSUME IInv, at = "write", device \in attached
    PROVE  /\ Sound(SectorWritten)
           /\ Written(SectorWritten.flash, binary, sector + 1)
<1>. USE DEF IInv
<1>1. /\ binary \in Binaries /\ sector \in 0 .. binary.sectors - 1 /\ sector \in Nat
      /\ binary.sectors \in Nat
  BY Memories DEF TypeOK
<1>2. sector \in Sectors /\ SectorSent \in Contents
  BY <1>1, Memories DEF SectorSent
<1>3. Sound(Here) /\ Here \in States /\ Here.flash \in Memory
  BY HereIsSound, Memories DEF Sound
<1>4. Sound(SectorWritten)
  BY <1>2, <1>3, Changes DEF SectorWritten, Sound
<1>5. SectorWritten.flash = [Here.flash EXCEPT ![sector] = SectorSent]
  BY <1>3 DEF SectorWritten, States
<1>6. Written(Here.flash, binary, sector)
  BY DEF Progress
<1>7. ASSUME NEW i \in 0 .. (sector + 1) - 1
      PROVE  SectorWritten.flash[i] = IF i = binary.sectors - 1 /\ binary.exact THEN Zeros
                                      ELSE Content(binary, i)
  <2>1. CASE i = sector
    BY <1>2, <1>3, <1>5, <2>1 DEF Memory, SectorSent
  <2>2. CASE i # sector
    <3>1. i \in 0 .. sector - 1
      BY <1>1, <2>2
    <3>2. SectorWritten.flash[i] = Here.flash[i]
      BY <1>3, <1>5, <2>2 DEF Memory
    <3>. QED
      BY <1>6, <3>1, <3>2 DEF Written
  <2>. QED
    BY <2>1, <2>2
<1>. QED
  BY <1>4, <1>7 DEF Written

LEMMA WriteSectorStep == IInv /\ WriteSector => IInv'
<1>. SUFFICES ASSUME IInv, WriteSector PROVE IInv'
  OBVIOUS
<1>. USE DEF IInv
<1>0. at = "write"
  BY WriteSectorCases
<1>1. CASE /\ Told("MCU", SectorWritten)
           /\ at' = IF SectorsLeft THEN "write" ELSE "writeStatus"
           /\ sector' = sector + 1
           /\ UNCHANGED <<target, device, result, inits, wanted, binary, unseen, name,
                          probe, found>>
  <2>1. device \in attached
    BY <1>1 DEF Told
  <2>2. Sound(SectorWritten) /\ Written(SectorWritten.flash, binary, sector + 1)
    BY <1>0, <2>1, SectorWrittenIsSound
  <2>3. /\ device \in Boards /\ attached' = attached /\ faults' \in Nat
        /\ board' \in [Boards -> States] /\ board'[device] = SectorWritten
        /\ AllRunTheirFlash'
    BY <1>1, <2>2, ToldOne
  <2>4. sector \in Nat /\ sector + 1 \in Nat /\ binary.sectors \in Nat /\ sector < binary.sectors
    BY <1>0, Memories DEF TypeOK
  <2>5. TypeOK'
    BY <1>1, <2>3, <2>4 DEF TypeOK, Places, SectorsLeft
  <2>6. Here' = SectorWritten
    BY <1>1, <2>3 DEF Here
  <2>7. ~ SectorsLeft => sector + 1 = binary.sectors
    BY <2>4 DEF SectorsLeft
  <2>8. Progress'
    BY <1>1, <2>2, <2>6, <2>7 DEF Progress
  <2>. QED
    BY <2>3, <2>5, <2>8
<1>2. CASE Ended(SectorWritten)
  BY <1>0, <1>2, EndedStep, SectorWrittenIsSound
<1>. QED
  BY <1>1, <1>2, ReturnFalseStep, WriteSectorCases

LEMMA WriteStatusStep == IInv /\ WriteStatus => IInv'
<1>. SUFFICES ASSUME IInv, WriteStatus PROVE IInv'
  OBVIOUS
<1>. USE DEF IInv
<1>1. ASSUME device \in attached
      PROVE  Sound(StatusWritten) /\ StatusWritten.hash = binary.hash
  BY <1>1, HereIsSound, Changes DEF StatusWritten, Sound, States, TypeOK
<1>2. CASE Told("MCU", StatusWritten) /\ Goto("configure")
  <2>1. /\ device \in attached /\ device \in Boards /\ attached' = attached /\ faults' \in Nat
        /\ board' \in [Boards -> States] /\ board'[device] = StatusWritten
        /\ AllRunTheirFlash'
    BY <1>1, <1>2, ToldOne DEF Told
  <2>2. TypeOK'
    BY <1>2, <2>1 DEF TypeOK, Places, Goto, callVars
  <2>3. Here' = StatusWritten
    BY <1>2, <2>1 DEF Here, Goto
  <2>4. Progress'
    BY <1>1, <1>2, <2>1, <2>3 DEF Progress, Goto, callVars
  <2>. QED
    BY <2>1, <2>2, <2>4
<1>3. CASE Ended(StatusWritten)
  BY <1>1, <1>3, EndedStep
<1>. QED
  BY <1>2, <1>3, SwitchedStep, ReturnFalseStep, WriteStatusCases

LEMMA ConfigureStep == IInv /\ Configure => IInv'
<1>. SUFFICES ASSUME IInv, Configure PROVE IInv'
  OBVIOUS
<1>. USE DEF IInv
<1>1. at = "configure"
  BY ConfigureCases
<1>2. ASSUME device \in attached
      PROVE  /\ Sound(Configured(Here)) /\ Sound([Here EXCEPT !.mode = "CONF"])
             /\ Configured(Here).configured /\ Configured(Here).hash = binary.hash
  <2>1. Sound(Here) /\ Here.hash = binary.hash
    BY <1>1, <1>2, HereIsSound DEF Progress
  <2>. QED
    BY <2>1, Changes DEF Sound, States, Configured
<1>3. CASE Told("MCU", Configured(Here)) /\ Return("ok") /\ UNCHANGED <<target, device, inits, callVars>>
  <2>1. /\ device \in attached /\ device \in Boards /\ attached' = attached /\ faults' \in Nat
        /\ board' \in [Boards -> States] /\ board'[device] = Configured(Here)
        /\ AllRunTheirFlash'
    BY <1>2, <1>3, ToldOne DEF Told
  <2>2. TypeOK'
    BY <1>3, <2>1 DEF TypeOK, Places, Return, callVars
  <2>3. Here' = Configured(Here)
    BY <1>3, <2>1 DEF Here
  <2>4. Progress'
    BY <1>2, <1>3, <2>1, <2>3 DEF Progress, Return, callVars
  <2>. QED
    BY <2>1, <2>2, <2>4
<1>4. CASE Ended([Here EXCEPT !.mode = "CONF"])
  BY <1>2, <1>4, EndedStep
<1>. QED
  BY <1>3, <1>4, SwitchedStep, ReturnFalseStep, ConfigureCases

\* The program between two calls of init(), and the boards by themselves.
LEMMA OutsideStep ==
    ASSUME IInv,
           UseRegister \/ Exit \/ \E b \in Boards : FinishConfigure(b) \/ PowerCycle(b) \/ Unplug(b)
    PROVE  IInv'
<1>. USE DEF IInv
<1>1. CASE UseRegister
  <2>1. CASE UNCHANGED hostVars /\ Kept
    BY <2>1 DEF hostVars, callVars, Kept, TypeOK, AllRunTheirFlash, Progress, Here
  <2>2. CASE Ended(Here)
    BY <2>2, EndedStep, HereIsSound
  <2>. QED
    BY <1>1, <2>1, <2>2, SwitchedStep, UseRegisterCases
<1>2. CASE Exit
  <2>1. Ended(Here)
    BY <1>2 DEF Exit, Ended, Kept, TypeOK
  <2>. QED
    BY <2>1, EndedStep, HereIsSound
<1>3. CASE \E b \in Boards : FinishConfigure(b)
  <2>1. PICK b \in Boards : FinishConfigure(b)
    BY <1>3
  <2>2. /\ Sound(Configured(board[b])) /\ Configured(board[b]).configured
        /\ Configured(board[b]).hash = board[b].hash
        /\ Configured(board[b]).flash = board[b].flash
    <3>1. board[b] \in States /\ RunsItsFlash(board[b])
      BY DEF TypeOK, AllRunTheirFlash
    <3>2. Sound(Configured(board[b]))
      BY <3>1, Changes
    <3>. QED
      BY <3>1, <3>2 DEF Configured, States
  <2>3. board' = [board EXCEPT ![b] = Configured(board[b])] /\ UNCHANGED <<hostVars, attached, faults>>
    BY <2>1 DEF FinishConfigure
  <2>. HIDE DEF IInv
  <2>4. board' \in [Boards -> States] /\ AllRunTheirFlash'
    BY <2>2, <2>3 DEF IInv, TypeOK, AllRunTheirFlash, Sound
  <2>5. TypeOK'
    BY <2>3, <2>4 DEF IInv, TypeOK, hostVars, callVars
  <2>6. device \in attached =>
          /\ Here'.hash = Here.hash /\ Here'.flash = Here.flash
          /\ Here.configured => Here'.configured
    BY <2>2, <2>3 DEF IInv, TypeOK, Here, hostVars
  <2>7. Progress'
    BY <2>3, <2>6 DEF IInv, Progress, hostVars, callVars
  <2>. QED
    BY <2>4, <2>5, <2>7 DEF IInv
<1>4. CASE \E b \in Boards : PowerCycle(b)
  <2>1. PICK b \in Boards : PowerCycle(b)
    BY <1>4
  <2>2. /\ board' = [board EXCEPT ![b].mode = "MCU", ![b].configured = FALSE, ![b].fpga = Empty]
        /\ faults' = faults + 1 /\ device # b /\ UNCHANGED <<hostVars, attached>>
    BY <2>1 DEF PowerCycle, Fault
  <2>. DEFINE new == [board[b] EXCEPT !.mode = "MCU", !.configured = FALSE, !.fpga = Empty]
  <2>3. board' = [board EXCEPT ![b] = new] /\ Sound(new)
    BY <2>2, Changes DEF TypeOK, AllRunTheirFlash, Sound
  <2>. HIDE DEF new
  <2>4. board' \in [Boards -> States] /\ AllRunTheirFlash'
    BY <2>3 DEF TypeOK, AllRunTheirFlash, Sound
  <2>5. TypeOK'
    BY <2>2, <2>4 DEF TypeOK, hostVars, callVars
  <2>6. device \in attached => Here' = Here
    BY <2>2, <2>3 DEF TypeOK, Here, hostVars
  <2>7. Progress'
    BY <2>2, <2>6 DEF Progress, hostVars, callVars
  <2>. QED
    BY <2>4, <2>5, <2>7
<1>5. CASE \E b \in Boards : Unplug(b)
  <2>1. TypeOK' /\ AllRunTheirFlash'
    BY <1>5 DEF Unplug, Fault, TypeOK, AllRunTheirFlash, hostVars, callVars
  <2>2. Progress'
    BY <1>5 DEF Unplug, Progress, Here, hostVars, callVars
  <2>. QED
    BY <2>1, <2>2
<1>. QED
  BY <1>1, <1>2, <1>3, <1>4, <1>5

LEMMA StepHolds == IInv /\ [Next]_vars => IInv'
<1>. SUFFICES ASSUME IInv, [Next]_vars PROVE IInv'
  OBVIOUS
<1>1. CASE Next
  BY <1>1, SearchStep, ReadStatusStep, WriteSectorStep, WriteStatusStep, ConfigureStep, OutsideStep DEF Next, InitSteps
<1>2. CASE UNCHANGED vars
  BY <1>2 DEF vars, hostVars, callVars, IInv, TypeOK, AllRunTheirFlash, Progress, Here
<1>. QED
  BY <1>1, <1>2

\* The invariant holds whatever fails, and whatever is done with the boards.
THEOREM Invariance == Spec => []IInv
  BY InitHolds, StepHolds, PTL DEF Spec

\* After init() returned true the FPGA runs what the board stores, and that is filed
\* under the hash of the user's binary (EasyFpga::uploadBinaryFile()).
THEOREM LoadedCorrect == Spec => []LoadedAsStored
<1>1. IInv => LoadedAsStored
  BY DEF IInv, TypeOK, Progress, AllRunTheirFlash, RunsItsFlash, LoadedAsStored, Here
<1>. QED
  BY <1>1, Invariance, PTL

-----------------------------------------------------------------------------
(* The hash of a board.                                                    *)

SameHashes == \A b \in Boards : board'[b].hash = board[b].hash

LEMMA KeepsHashes ==
    ASSUME TypeOK,
           \/ Kept \/ \E from, to \in {"MCU", "SOC"} : Switched(from, to)
           \/ \E half : (device \in attached => half.hash = Here.hash) /\ Ended(half)
           \/ \E mode, new : new.hash = Here.hash /\ Told(mode, new)
    PROVE  SameHashes
<1>1. CASE Kept
  BY <1>1 DEF Kept, SameHashes
<1>2. ASSUME NEW mode, NEW new, device \in attached => new.hash = Here.hash, Told(mode, new)
      PROVE  SameHashes
  BY <1>2 DEF Told, SameHashes, TypeOK, Here
<1>3. ASSUME NEW mode, NEW to, Told(mode, [Here EXCEPT !.mode = to]) PROVE SameHashes
  <2>1. device \in attached => [Here EXCEPT !.mode = to].hash = Here.hash
    BY DEF TypeOK, Here, States
  <2>. QED
    BY <1>2, <1>3, <2>1
<1>. QED
  BY <1>1, <1>2, <1>3 DEF Switched, Ended

\* A hash is written to a board only beside what writeBinary() makes of the binary.
LEMMA HashStep ==
    ASSUME IInv, [Next]_vars, NEW b \in Boards, board'[b].hash # board[b].hash
    PROVE  Written(board'[b].flash, binary, binary.sectors)
<1>. USE DEF IInv
<1>1. ASSUME device \in attached
      PROVE  /\ Here \in States
             /\ SectorWritten.hash = Here.hash
             /\ StatusWritten.flash = Here.flash
             /\ [Here EXCEPT !.mode = "CONF"].hash = Here.hash
             /\ Configured(Here).hash = Here.hash
  BY <1>1 DEF TypeOK, Here, States, SectorWritten, StatusWritten, Configured
<1>2. CASE WriteStatus
  <2>1. ASSUME NEW mode, Told(mode, StatusWritten) PROVE b = device /\ board'[b] = StatusWritten
    BY <2>1 DEF Told, TypeOK
  <2>2. CASE \E mode : Told(mode, StatusWritten)
    <3>1. Written(Here.flash, binary, binary.sectors) /\ device \in attached
      BY <1>2, <2>2, WriteStatusCases DEF Progress, Told
    <3>. QED
      BY <1>1, <2>1, <2>2, <3>1
  <2>3. CASE SameHashes
    BY <2>3 DEF SameHashes
  <2>4. CASE Ended(StatusWritten)
    <3>1. CASE \E mode, to \in {"MCU", "SOC"} : Told(mode, [Here EXCEPT !.mode = to])
      <4>1. PICK mode \in {"MCU", "SOC"}, to \in {"MCU", "SOC"} : Told(mode, [Here EXCEPT !.mode = to])
        BY <3>1
      <4>2. [Here EXCEPT !.mode = to].hash = Here.hash
        BY <1>1, <4>1 DEF Told, States
      <4>. QED
        BY <2>3, <4>1, <4>2, KeepsHashes
    <3>. QED
      BY <2>2, <2>3, <2>4, <3>1, KeepsHashes DEF Ended
  <2>. QED
    BY <1>2, <2>2, <2>3, <2>4, WriteStatusCases, KeepsHashes
<1>3. CASE WriteSector
  <2>1. SameHashes
    BY <1>1, <1>3, WriteSectorCases, KeepsHashes DEF Told
  <2>. QED
    BY <2>1 DEF SameHashes
<1>4. CASE Configure
  <2>1. SameHashes
    BY <1>1, <1>4, ConfigureCases, KeepsHashes DEF Told
  <2>. QED
    BY <2>1 DEF SameHashes
<1>5. CASE Consider \/ ReadSerial \/ ReadStatus \/ UseRegister
  <2>1. SameHashes
    BY <1>5, ConsiderCases, ReadSerialCases, ReadStatusCases, UseRegisterCases, KeepsHashes
  <2>. QED
    BY <2>1 DEF SameHashes
<1>6. CASE \E c \in Boards : FinishConfigure(c) \/ PowerCycle(c)
  <2>1. PICK c \in Boards : FinishConfigure(c) \/ PowerCycle(c)
    BY <1>6
  <2>2. board[c] \in States /\ board \in [Boards -> States]
    BY DEF TypeOK
  <2>3. \/ board' = [board EXCEPT ![c] = Configured(board[c])]
        \/ board' = [board EXCEPT ![c] = [board[c] EXCEPT !.mode = "MCU", !.configured = FALSE,
                                                        !.fpga = Empty]]
    BY <2>1, <2>2 DEF FinishConfigure, PowerCycle
  <2>4. /\ Configured(board[c]).hash = board[c].hash
        /\ [board[c] EXCEPT !.mode = "MCU", !.configured = FALSE, !.fpga = Empty].hash = board[c].hash
    BY <2>2 DEF Configured, States
  <2>. QED
    BY <2>2, <2>3, <2>4
<1>7. CASE UNCHANGED board
  BY <1>7
<1>8. \/ WriteStatus \/ WriteSector \/ Configure
      \/ Consider \/ ReadSerial \/ ReadStatus \/ UseRegister
      \/ \E c \in Boards : FinishConfigure(c) \/ PowerCycle(c)
      \/ UNCHANGED board
  BY DEF Next, InitSteps, Start, CallInit, ScanNext, Detect, OpenFound, Exit, Unplug, vars, hostVars
<1>. QED
  BY <1>2, <1>3, <1>4, <1>5, <1>6, <1>7, <1>8

\* A hash is written to a board only beside the whole binary it belongs to, however
\* often uploads are interrupted (Communicator::writeBinary(), writeStatus()): if no
\* binary fills its last sector, which is the one case in which it is sent as zeros.
THEOREM HashCorrect ==
    ASSUME \A b \in Binaries : ~ b.exact
    PROVE  Spec => HashOfStored
<1>1. IInv /\ [Next]_vars =>
        [\A b \in Boards :
            board'[b].hash # board[b].hash => Holds(board'[b].flash, binary)]_vars
  <2>. SUFFICES ASSUME IInv, [Next]_vars, NEW b \in Boards, board'[b].hash # board[b].hash
                PROVE  Holds(board'[b].flash, binary)
    OBVIOUS
  <2>1. Written(board'[b].flash, binary, binary.sectors) /\ binary \in Binaries
    BY HashStep DEF IInv, TypeOK
  <2>. QED
    BY <2>1 DEF Written, Holds
<1>. QED
  BY <1>1, Invariance, PTL DEF Spec, HashOfStored

-----------------------------------------------------------------------------
(* One board: what the process knows of it.                                *)

OneBoard == \A a, b \in Boards : a = b

\* Who was asked for is found, opened and used.
WantedInv ==
    wanted # 0 =>
        /\ at = "scan" /\ found # NotFound => found.board = wanted
        /\ at \in {"serial", "status", "write", "writeStatus", "configure"} => device = wanted
        /\ at = "idle" /\ result = "ok" => device = wanted

LEMMA WantedStep ==
    ASSUME OneBoard, IInv, WantedInv, [Next]_vars
    PROVE  WantedInv'
<1>. USE DEF WantedInv, callVars, hostVars, Return, ReturnFalse, Goto
<1>. TypeOK
  BY DEF IInv
<1>1. ASSUME NEW half, Ended(half) PROVE WantedInv'
  BY <1>1 DEF Ended, Down
<1>2. ASSUME NEW from, NEW to, Switched(from, to) PROVE WantedInv'
  BY <1>2 DEF Switched
<1>3. CASE Consider
  <2>1. CASE /\ at = "detected"
             /\ wanted = 0 \/ (device \in attached /\ wanted = device)
             /\ LookedAt(ThisOne)
    <3>1. device \in attached => device = name
      BY <2>1 DEF OneBoard, TypeOK
    <3>. QED
      BY <2>1, <3>1 DEF LookedAt, ThisOne
  <2>2. CASE LookedAt(NotFound)
    BY <2>2 DEF LookedAt
  <2>. QED
    BY <1>1, <1>2, <1>3, <2>1, <2>2, ConsiderCases
<1>4. CASE ReadSerial
  BY <1>1, <1>2, <1>4, ReadSerialCases
<1>5. CASE ReadStatus
  <2>1. CASE at = "status" /\ UNCHANGED <<device, wanted>> /\ at' \in {"idle", "write", "configure"}
    BY <2>1
  <2>2. CASE ReturnFalse
    BY <2>2
  <2>3. Compare(Here) \in {"done", "write", "configure"}
    BY DEF Compare
  <2>. QED
    BY <1>1, <1>2, <1>5, <2>1, <2>2, <2>3, ReadStatusCases
<1>6. CASE WriteSector
  <2>1. CASE /\ at = "write" /\ at' \in {"write", "writeStatus"}
             /\ UNCHANGED <<device, wanted>>
    BY <2>1
  <2>2. CASE ReturnFalse
    BY <2>2
  <2>. QED
    BY <1>1, <1>6, <2>1, <2>2, WriteSectorCases
<1>7. CASE WriteStatus
  BY <1>1, <1>2, <1>7, WriteStatusCases
<1>8. CASE Configure
  BY <1>1, <1>2, <1>8, ConfigureCases
<1>9. CASE UseRegister
  BY <1>1, <1>2, <1>9, UseRegisterCases
<1>10. CASE OpenFound
  BY <1>10 DEF OpenFound
<1>11. CASE Start \/ ScanNext \/ Detect \/ \E serial \in Wanted, b \in Binaries : CallInit(serial, b)
  BY <1>11 DEF Start, ScanNext, Detect, CallInit
<1>12. CASE Exit
  BY <1>12 DEF Exit, Down
<1>13. CASE UNCHANGED hostVars
  BY <1>13
<1>. QED
  BY <1>3, <1>4, <1>5, <1>6, <1>7, <1>8, <1>9, <1>10, <1>11, <1>12, <1>13 DEF Next, InitSteps, FinishConfigure, PowerCycle, Unplug, vars

\* With one board attached, a serial number that was asked for is the one connected:
\* init() does not take the board for another (findFirstMatchingEasyFpga()).
THEOREM WantedCorrect == ASSUME OneBoard PROVE Spec => []WantedConnected
<1>1. Init => WantedInv
  BY DEF Init, WantedInv
<1>2. IInv /\ WantedInv /\ [Next]_vars => WantedInv'
  BY WantedStep
<1>3. WantedInv => WantedConnected
  BY DEF WantedInv, WantedConnected
<1>. QED
  BY <1>1, <1>2, <1>3, Invariance, PTL DEF Spec

\* The last answer of the board is kept until the board is used, and then it is
\* followed step by step.
TracksInv ==
    /\ at = "down" => target = "UNDEFINED"
    /\ at = "detect" => probe \in {"UNDEFINED", "CONF"}
    /\ at = "detected" /\ probe \in {"MCU", "SOC"} /\ name \in attached =>
          board[name].mode = probe
    /\ at = "scan" /\ found.board \in attached =>
          found.target \in {"MCU", "SOC"} /\ board[found.board].mode = found.target
    /\ at = "scan" /\ device \in attached => device \in unseen /\ found = NotFound
    /\ TargetTracks

LEMMA TracksStep ==
    ASSUME OneBoard, Wanted \subseteq {0}, "power" \notin Faults,
           IInv, TracksInv, [Next]_vars
    PROVE  TracksInv'
<1>. USE DEF TracksInv, TargetTracks, callVars, hostVars, Return, ReturnFalse, Goto
<1>. TypeOK /\ wanted = 0 /\ 0 \notin Boards
  BY SessionAssumption DEF IInv, TypeOK
<1>0. ASSUME device \in attached PROVE Here \in States /\ device \in Boards
  BY <1>0 DEF TypeOK, Here
<1>1. ASSUME NEW half, Ended(half) PROVE TracksInv'
  <2>1. Down /\ 0 \notin attached'
    BY <1>1 DEF Ended, Kept, Told, TypeOK
  <2>. QED
    BY <2>1 DEF Down
<1>2. ASSUME NEW from \in {"MCU", "SOC"}, NEW to \in {"MCU", "SOC"}, Switched(from, to),
             at \notin {"down", "scan", "detect", "detected"}
      PROVE  TracksInv'
  <2>1. Here' = [Here EXCEPT !.mode = to]
    BY <1>0, <1>2 DEF Switched, Told, TypeOK, Here
  <2>2. Here'.mode = to
    BY <1>0, <1>2, <2>1 DEF Switched, Told, States
  <2>. QED
    BY <1>2, <2>2 DEF Switched
\* init() goes on or returns, and the board stays in its context.
<1>3. ASSUME at \notin {"down", "scan", "detect", "detected"},
             at' \notin {"down", "scan", "detect", "detected"},
             UNCHANGED <<target, device, attached>>,
             device \in attached => Here'.mode = Here.mode
      PROVE  TracksInv'
  BY <1>3
<1>4. ASSUME NEW mode, NEW new, Told(mode, new), new.mode = mode, device' = device
      PROVE  Here'.mode = Here.mode /\ attached' = attached
  BY <1>0, <1>4 DEF Told, TypeOK, Here
<1>5. CASE Start
  BY <1>5 DEF Start
<1>6. CASE \E serial \in Wanted, b \in Binaries : CallInit(serial, b)
  BY <1>6 DEF CallInit, NotFound, TypeOK
<1>7. CASE ScanNext
  BY <1>7 DEF ScanNext
<1>8. CASE Detect
  <2>1. device \in attached => device = name
    BY <1>8 DEF Detect, TypeOK, OneBoard
  <2>2. name \in Boards
    BY <1>8 DEF Detect, TypeOK
  <2>. QED
    BY <1>8, <2>1, <2>2 DEF Detect, Detected, Here
<1>9. CASE Consider
  <2>1. CASE /\ at = "detected" /\ probe \in {"MCU", "SOC"} /\ LookedAt(ThisOne)
             /\ UNCHANGED <<board, attached, faults>>
    BY <2>1 DEF LookedAt, ThisOne, TypeOK
  <2>2. CASE LookedAt(NotFound) /\ UNCHANGED <<board, attached, faults>>
    BY <2>2 DEF LookedAt, NotFound, TypeOK
  <2>. QED
    BY <1>9, <2>1, <2>2 DEF Consider
<1>10. CASE OpenFound
  <2>1. CASE /\ at = "scan"
             /\ found # NotFound \/ unseen = {}
             /\ ReturnFalse /\ UNCHANGED <<board, attached, faults>>
    BY <2>1
  <2>2. CASE /\ at = "scan" /\ found.board \in attached /\ device' = found.board
             /\ target' = found.target /\ at' = "serial"
             /\ UNCHANGED <<result, inits, callVars, board, attached, faults>>
    BY <2>2 DEF Here
  <2>. QED
    BY <1>10, <2>1, <2>2 DEF OpenFound
<1>11. CASE ReadSerial
  BY <1>1, <1>2, <1>3, <1>11, ReadSerialCases DEF Kept, Here
<1>12. CASE ReadStatus
  <2>1. CASE /\ at = "status" /\ at' \in {"idle", "write", "configure"}
             /\ UNCHANGED <<target, device>> /\ Kept
    BY <1>3, <2>1 DEF Kept, Here
  <2>2. Compare(Here) \in {"done", "write", "configure"}
    BY DEF Compare
  <2>. QED
    BY <1>1, <1>2, <1>12, <2>1, <2>2, ReadStatusCases
<1>13. CASE WriteSector
  <2>1. CASE /\ at = "write" /\ at' \in {"write", "writeStatus"}
             /\ UNCHANGED <<target, device>> /\ Told("MCU", SectorWritten)
    <3>1. SectorWritten.mode = "MCU"
      BY <1>0, <2>1 DEF Told, SectorWritten, States
    <3>. QED
      BY <1>3, <1>4, <2>1, <3>1
  <2>2. CASE at = "write" /\ ReturnFalse /\ Kept
    BY <1>3, <2>2 DEF Kept, Here
  <2>. QED
    BY <1>1, <1>13, <2>1, <2>2, WriteSectorCases
<1>14. CASE WriteStatus
  <2>1. CASE at = "writeStatus" /\ Told("MCU", StatusWritten) /\ Goto("configure")
    <3>1. StatusWritten.mode = "MCU"
      BY <1>0, <2>1 DEF Told, StatusWritten, States
    <3>. QED
      BY <1>3, <1>4, <2>1, <3>1
  <2>2. CASE at = "writeStatus" /\ ReturnFalse /\ Kept
    BY <1>3, <2>2 DEF Kept, Here
  <2>. QED
    BY <1>1, <1>2, <1>14, <2>1, <2>2, WriteStatusCases
<1>15. CASE Configure
  <2>1. CASE /\ at = "configure" /\ Told("MCU", Configured(Here))
             /\ Return("ok") /\ UNCHANGED <<target, device, inits, callVars>>
    <3>1. Configured(Here).mode = "MCU"
      BY <1>0, <2>1 DEF Told, Configured, States
    <3>. QED
      BY <1>3, <1>4, <2>1, <3>1
  <2>2. CASE at = "configure" /\ ReturnFalse /\ Kept
    BY <1>3, <2>2 DEF Kept, Here
  <2>. QED
    BY <1>1, <1>2, <1>15, <2>1, <2>2, ConfigureCases
<1>16. CASE UseRegister
  BY <1>1, <1>2, <1>3, <1>16, UseRegisterCases DEF Kept, Here
<1>17. CASE Exit
  BY <1>17 DEF Exit, Down, TypeOK
\* A board that configures is neither in the context that was found nor in that of
\* the process.
<1>18. CASE \E b \in Boards : FinishConfigure(b)
  <2>1. PICK b \in Boards : FinishConfigure(b)
    BY <1>18
  <2>2. /\ \A c \in Boards : board[c].mode # "CONF" => board'[c].mode = board[c].mode
        /\ UNCHANGED <<hostVars, attached>>
    BY <2>1 DEF FinishConfigure, TypeOK
  <2>3. attached \subseteq Boards /\ target \in {"UNDEFINED", "MCU", "SOC"}
    BY DEF TypeOK, Contexts
  <2>. QED
    BY <2>2, <2>3 DEF Here
<1>19. CASE \E b \in Boards : PowerCycle(b)
  BY <1>19 DEF PowerCycle, Fault
<1>20. CASE \E b \in Boards : Unplug(b)
  BY <1>20 DEF Unplug, Here
<1>21. CASE UNCHANGED vars
  BY <1>21 DEF vars, Here
<1>. QED
  BY <1>5, <1>6, <1>7, <1>8, <1>9, <1>10, <1>11, <1>12, <1>13, <1>14, <1>15, <1>16, <1>17, <1>18, <1>19, <1>20, <1>21 DEF Next, InitSteps

\* With one board that keeps its power, and no serial number asked for, the process
\* knows between two calls which context listens, so that no exchange is sent to the
\* other one (Communicator::switchTo(), testDeviceResponseBehavior()).
THEOREM TargetCorrect ==
    ASSUME OneBoard, Wanted \subseteq {0}, "power" \notin Faults
    PROVE  Spec => []TargetTracks
<1>1. Init => TracksInv
  BY SessionAssumption DEF Init, TracksInv, TargetTracks
<1>2. IInv /\ TracksInv /\ [Next]_vars => TracksInv'
  BY TracksStep
<1>3. TracksInv => TargetTracks
  BY DEF TracksInv
<1>. QED
  BY <1>1, <1>2, <1>3, Invariance, PTL DEF Spec
=============================================================================
