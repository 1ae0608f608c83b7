----------------------------- MODULE BuildProofs -----------------------------
(***************************************************************************)
(* A run of the generator that succeeds leaves the binary of its own       *)
(* description, for any number of binaries, descriptions, runs and faults. *)
(*                                                                         *)
(* The invariant says what the files tell a later run.  Between two runs,  *)
(* and for the binaries that are not worked on, a description that is      *)
(* whole has the binary built from it, or none (Settled).  Within a run it *)
(* says how far the files have come (Progress): as long as "unchanged" is  *)
(* true the binary found is the one of the description being written.      *)
(* Neither holds once a run left a description without its binary.         *)
(***************************************************************************)
EXTENDS Build, TLAPS

Steps == {"idle", "compile", "copyIntercon", "fillIntercon", "copyTle", "fillTle",
          "decide", "xst", "ngdbuild", "map", "par", "bitgen", "deleteTle",
          "deleteIntercon", "done"}

\* Every variable keeps its type; of intercon, tle and bin only the domain matters.
TypeOK ==
    /\ intercon \in [Binaries -> Interconnects \cup {None, Template}]
    /\ tle \in [Binaries -> Entities \cup {None, Template}]
    /\ DOMAIN bin = Binaries /\ bin = [b \in Binaries |-> bin[b]]
    /\ step \in Steps
    /\ caller \in Callers
    /\ current \in Binaries
    /\ waiting \subseteq Binaries
    /\ waiting # {} => caller = "all"
    /\ described \in Designs
    /\ {unchanged, success, trouble} \subseteq BOOLEAN

\* A description that is whole has its binary or none.
Settled(b) ==
    intercon[b] \in Interconnects /\ tle[b] \in Entities /\ bin[b] # None
        => bin[b] = <<intercon[b], tle[b]>>

\* The files of the current binary hold its description, and its binary if any.
Written  == intercon[current] = described[1] /\ tle[current] = described[2]
Expected(entity) == bin[current] # None => bin[current] = <<described[1], entity>>

Progress ==
    /\ step \in {"idle", "compile", "copyIntercon"} => Settled(current)
    /\ step \in {"fillIntercon", "copyTle"} =>
          /\ intercon[current] = IF step = "copyTle" THEN described[1] ELSE Template
          /\ unchanged /\ tle[current] \in Entities => Expected(tle[current])
    /\ step \in {"fillTle", "decide"} =>
          /\ intercon[current] = described[1]
          /\ tle[current] = IF step = "decide" THEN described[2] ELSE Template
          /\ unchanged => Expected(described[2])
    /\ step \in {"xst", "ngdbuild", "map", "par", "bitgen"} => Written
    /\ step \in {"ngdbuild", "map", "par", "bitgen"} => product = described
    /\ step \in {"deleteTle", "deleteIntercon", "done"} /\ success =>
          Written /\ bin[current] = described
    /\ \/ step = "deleteIntercon"
       \/ step = "done" /\ caller # "make"
       => success \/ tle[current] = None

OthersSettled == \A b \in Binaries \ {current} : Settled(b)

FilesInv == trouble \/ (OthersSettled /\ Progress)

IInv == TypeOK /\ FilesInv

-----------------------------------------------------------------------------

LEMMA InitHolds == Init => IInv
<1>. SUFFICES ASSUME Init PROVE IInv
  OBVIOUS
<1>1. TypeOK
  BY DEF Init, TypeOK, Steps, Callers
<1>2. FilesInv
  BY ContentsAssumption DEF Init, FilesInv, OthersSettled, Settled, Progress
<1>. QED
  BY <1>1, <1>2 DEF IInv


LEMMA TypeStep == TypeOK /\ [Next]_vars => TypeOK'
<1>. SUFFICES ASSUME TypeOK, [Next]_vars PROVE TypeOK'
  OBVIOUS
<1>. USE DEF TypeOK, Steps, Callers, Designs, files, run, Goes, Begin
<1>1. CASE \E b \in Binaries, h \in BOOLEAN, c \in Callers : Call(c, b, h)
  BY <1>1 DEF Call
<1>2. CASE \E b \in Binaries : RemoveBinary(b)
  BY <1>2 DEF RemoveBinary
<1>3. CASE Compile
  BY <1>3 DEF Compile
<1>4. CASE CopyIntercon
  BY <1>4 DEF CopyIntercon
<1>5. CASE FillIntercon
  BY <1>5 DEF FillIntercon
<1>6. CASE CopyTle
  BY <1>6 DEF CopyTle
<1>7. CASE FillTle
  BY <1>7 DEF FillTle
<1>8. CASE Decide
  BY <1>8 DEF Decide, Finished
<1>9. CASE Xst
  BY <1>9 DEF Xst, ToolFails, Finished
<1>10. CASE Ngdbuild
  BY <1>10 DEF Ngdbuild, ToolFails, Finished
<1>11. CASE Map
  BY <1>11 DEF Map, ToolFails, Finished
<1>12. CASE Par
  BY <1>12 DEF Par, ToolFails, Finished
<1>13. CASE Bitgen
  BY <1>13 DEF Bitgen, ToolFails, Finished
<1>14. CASE DeleteTle
  BY <1>14 DEF DeleteTle
<1>15. CASE DeleteIntercon
  BY <1>15 DEF DeleteIntercon
<1>16. CASE NextBinary
  BY <1>16 DEF NextBinary
<1>17. CASE Return
  BY <1>17 DEF Return, Unsettled
<1>18. CASE Kill
  BY <1>18 DEF Kill, Unsettled
<1>19. CASE KillMain
  BY <1>19 DEF KillMain
<1>20. CASE UNCHANGED vars
  BY <1>20 DEF vars
<1>. QED
  BY <1>1, <1>2, <1>3, <1>4, <1>5, <1>6, <1>7, <1>8, <1>9, <1>10, <1>11, <1>12, <1>13, <1>14, <1>15, <1>16, <1>17, <1>18, <1>19, <1>20 DEF Next

LEMMA FilesStep == TypeOK /\ TypeOK' /\ FilesInv /\ [Next]_vars => FilesInv'
<1>. SUFFICES ASSUME TypeOK, TypeOK', FilesInv, [Next]_vars PROVE FilesInv'
  OBVIOUS
<1>. USE ContentsAssumption DEF TypeOK, FilesInv, OthersSettled, Settled, Progress, Written, Expected, Steps, Callers, Designs, files, run, Goes, Begin
<1>1. CASE \E b \in Binaries, h \in BOOLEAN, c \in Callers : Call(c, b, h)
  BY <1>1 DEF Call
<1>2. CASE \E b \in Binaries : RemoveBinary(b)
  BY <1>2 DEF RemoveBinary
<1>3. CASE Compile
  BY <1>3 DEF Compile
<1>4. CASE CopyIntercon
  BY <1>4 DEF CopyIntercon
<1>5. CASE FillIntercon
  BY <1>5 DEF FillIntercon
<1>6. CASE CopyTle
  BY <1>6 DEF CopyTle
<1>7. CASE FillTle
  BY <1>7 DEF FillTle
<1>8. CASE Decide
  BY <1>8 DEF Decide, Finished
<1>9. CASE Xst
  BY <1>9 DEF Xst, ToolFails, Finished
<1>10. CASE Ngdbuild
  BY <1>10 DEF Ngdbuild, ToolFails, Finished
<1>11. CASE Map
  BY <1>11 DEF Map, ToolFails, Finished
<1>12. CASE Par
  BY <1>12 DEF Par, ToolFails, Finished
<1>13. CASE Bitgen
  BY <1>13 DEF Bitgen, ToolFails, Finished
<1>14. CASE DeleteTle
  BY <1>14 DEF DeleteTle
<1>15. CASE DeleteIntercon
  BY <1>15 DEF DeleteIntercon
<1>16. CASE NextBinary
  BY <1>16 DEF NextBinary
<1>17. CASE Return
  <2>1. CASE trouble'
    BY <2>1
  <2>2. CASE ~trouble'
    <3>1. ~trouble /\ ~Unsettled
      BY <1>17, <2>2 DEF Return
    <3>. QED
      BY <1>17, <3>1 DEF Return, Unsettled
  <2>. QED
    BY <2>1, <2>2
<1>18. CASE Kill
  <2>1. CASE trouble'
    BY <2>1
  <2>2. CASE ~trouble'
    <3>1. ~trouble /\ ~Unsettled
      BY <1>18, <2>2 DEF Kill
    <3>. QED
      BY <1>18, <3>1 DEF Kill, Unsettled
  <2>. QED
    BY <2>1, <2>2
<1>19. CASE KillMain
  BY <1>19 DEF KillMain
<1>20. CASE UNCHANGED vars
  BY <1>20 DEF vars
<1>. QED
  BY <1>1, <1>2, <1>3, <1>4, <1>5, <1>6, <1>7, <1>8, <1>9, <1>10, <1>11, <1>12, <1>13, <1>14, <1>15, <1>16, <1>17, <1>18, <1>19, <1>20 DEF Next

THEOREM FilesCorrect == Spec => []IInv
<1>1. IInv /\ [Next]_vars => IInv'
  BY TypeStep, FilesStep DEF IInv
<1>. QED
  BY InitHolds, <1>1, PTL DEF Spec

\* A run that succeeds leaves the binary of the description it was given, whatever
\* ran, failed or was killed before (Generator::generateHdl(), runToolchain(),
\* cleanupBuildDirectory()).
THEOREM BinaryCorrect == Spec => []BinaryUpToDate
<1>1. IInv => BinaryUpToDate
  BY DEF IInv, TypeOK, FilesInv, Progress, BinaryUpToDate
<1>. QED
  BY FilesCorrect, <1>1, PTL
=============================================================================
