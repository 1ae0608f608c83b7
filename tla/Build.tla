-------------------------------- MODULE Build --------------------------------
(***************************************************************************)
(* How the Generator decides whether a binary has to be built: it writes   *)
(* the hardware description, compares it with the one an earlier run left  *)
(* in the project directory, and runs the toolchain if they differ or if   *)
(* there is no binary.  The files are the only memory between two runs, of *)
(* three callers, and a run can end anywhere.                              *)
(*                                                                         *)
(* What is in the files is abstracted to a pair for each description: the  *)
(* content of <name>_intercon.vhd and that of <name>.vhd.                  *)
(***************************************************************************)
EXTENDS Naturals

CONSTANTS
    Binaries,       \* the descriptions in the project directory, by name
    Interconnects,  \* contents of <name>_intercon.vhd
    Entities,       \* contents of <name>.vhd
    None,           \* there is no such file
    Template,       \* a file just copied from the template
    MaxRuns,        \* bound: runs of the generator
    MaxFaults       \* bound: steps that fail, and runs that are killed

ASSUME ContentsAssumption ==
    /\ None \notin Interconnects \cup Entities \cup (Interconnects \X Entities)
    /\ Template \notin Interconnects \cup Entities
    /\ None # Template

\* What a description is translated to.
Designs == Interconnects \X Entities

VARIABLES
    intercon,   \* <name>_intercon.vhd
    tle,        \* <name>.vhd, the top-level entity
    bin,        \* <name>.bin, by the design it was built from
    step,       \* what the generator does next
    caller,     \* who has called it
    current,    \* the binary it works on
    waiting,    \* those generateBinaries() has not come to
    here,       \* the working directory is the project directory
    described,  \* the description that was compiled into the running program
    unchanged,  \* noNewToolchainRunRequired
    product,    \* the design the toolchain's last step has worked on
    success,    \* of the current binary
    trouble,    \* a run has left a description without its binary (history)
    runs, faults

files == <<intercon, tle, bin>>
run   == <<caller, current, waiting, here, described, unchanged, product, success>>
vars  == <<files, step, run, trouble, runs, faults>>

Init ==
    /\ intercon = [b \in Binaries |-> None]
    /\ tle = [b \in Binaries |-> None]
    /\ bin = [b \in Binaries |-> None]
    /\ step = "idle"
    /\ caller = "init"
    /\ current \in Binaries
    /\ waiting = {}
    /\ here = TRUE
    /\ described \in Designs
    /\ unchanged = FALSE
    /\ product = described
    /\ success = FALSE
    /\ trouble = FALSE
    /\ runs = 0
    /\ faults = 0

Fault == faults < MaxFaults /\ faults' = faults + 1

-----------------------------------------------------------------------------
(* The user removes a binary.                                              *)

RemoveBinary(b) ==
    /\ step = "idle"
    /\ bin' = [bin EXCEPT ![b] = None]
    /\ UNCHANGED <<intercon, tle, step, run, trouble, runs, faults>>

-----------------------------------------------------------------------------
(* Callers.  "init" is EasyFpga::init() of a program; "make" is the main   *)
(* function that EASY_FPGA_DESCRIPTION_CLASS defines; "all" is             *)
(* generateBinaries(), which compiles and runs that main function.  Every  *)
(* run may find the description changed.                                   *)

Callers == {"init", "make", "all"}

Begin(b, next) ==
    /\ current' = b
    /\ described' \in Designs
    /\ success' = TRUE
    /\ unchanged' = TRUE
    /\ step' = next

Call(c, b, h) ==
    /\ step = "idle"
    /\ runs < MaxRuns
    /\ runs' = runs + 1
    /\ caller' = c
    /\ here' = h
    /\ waiting' = IF c = "all" THEN Binaries \ {b} ELSE {}
    /\ Begin(b, IF c = "all" THEN "compile" ELSE "copyIntercon")
    /\ UNCHANGED <<files, product, trouble, faults>>

\* generateBinaries() goes on with the next binary, whatever became of this one.
NextBinary ==
    /\ step = "done"
    /\ \E b \in waiting :
            /\ waiting' = waiting \ {b}
            /\ Begin(b, "compile")
    /\ UNCHANGED <<files, caller, here, product, trouble, runs, faults>>

\* Steps at which the files may hold a description the binary was not built from:
\* a file was replaced, the toolchain has not come to its end, or it has failed and
\* nothing is removed.
Unsettled ==
    \/ step \in {"copyTle", "decide", "xst", "ngdbuild", "map", "par", "bitgen", "deleteTle"}
    \/ step = "done" /\ caller = "make" /\ ~success

Return ==
    /\ step = "done" /\ waiting = {}
    /\ step' = "idle"
    /\ trouble' = (trouble \/ Unsettled)
    /\ UNCHANGED <<files, run, runs, faults>>

\* The run is killed.
Kill ==
    /\ step # "idle"
    /\ Fault
    /\ step' = "idle"
    /\ trouble' = (trouble \/ Unsettled)
    /\ UNCHANGED <<files, run, runs>>

-----------------------------------------------------------------------------
(* generateBinary().                                                       *)

\* A step within the current binary.
Goes(next) ==
    /\ step' = next
    /\ UNCHANGED <<caller, current, waiting, here, described, trouble, runs>>

\* The end of generateBinary(): the overload that main() calls removes nothing.
Finished == IF caller = "make" THEN "done" ELSE "deleteTle"

Compile ==
    /\ step = "compile"
    /\ \/ Goes("copyIntercon") /\ UNCHANGED <<success, faults>>
       \/ Goes("deleteTle") /\ success' = FALSE /\ Fault
    /\ UNCHANGED <<files, unchanged, product>>

\* generateHdl() reads the old file, copies the template over it and fills it in.
CopyIntercon ==
    /\ step = "copyIntercon"
    /\ unchanged' = (intercon[current] = described[1])
    /\ intercon' = [intercon EXCEPT ![current] = Template]
    /\ Goes("fillIntercon")
    /\ UNCHANGED <<tle, bin, product, success, faults>>

FillIntercon ==
    /\ step = "fillIntercon"
    /\ intercon' = [intercon EXCEPT ![current] = described[1]]
    /\ Goes("copyTle")
    /\ UNCHANGED <<tle, bin, unchanged, product, success, faults>>

\* (mutant: only the interconnection is compared)
CopyTle_NotCompared ==
    /\ step = "copyTle"
    /\ unchanged' = (unchanged /\ tle[current] # None)
    /\ tle' = [tle EXCEPT ![current] = Template]
    /\ Goes("fillTle")
    /\ UNCHANGED <<intercon, bin, product, success, faults>>
CopyTle ==
    /\ step = "copyTle"
    /\ unchanged' = (unchanged /\ tle[current] = described[2])
    /\ tle' = [tle EXCEPT ![current] = Template]
    /\ Goes("fillTle")
    /\ UNCHANGED <<intercon, bin, product, success, faults>>

FillTle ==
    /\ step = "fillTle"
    /\ tle' = [tle EXCEPT ![current] = described[2]]
    /\ Goes("decide")
    /\ UNCHANGED <<intercon, bin, unchanged, product, success, faults>>

\* The binary is looked for in the working directory, not in the project's.
Decide ==
    /\ step = "decide"
    /\ Goes(IF unchanged /\ here /\ bin[current] # None THEN Finished ELSE "xst")
    /\ UNCHANGED <<files, unchanged, product, success, faults>>

\* runToolchain(): a step that fails is the last one.
ToolFails ==
    /\ success' = FALSE
    /\ Goes(Finished)
    /\ UNCHANGED <<files, unchanged, product>>

Xst ==
    /\ step = "xst"
    /\ \/ /\ product' = <<intercon[current], tle[current]>>
          /\ Goes("ngdbuild")
          /\ UNCHANGED <<files, unchanged, success, faults>>
       \/ ToolFails /\ Fault

Ngdbuild ==
    /\ step = "ngdbuild"
    /\ \/ Goes("map") /\ UNCHANGED <<files, unchanged, product, success, faults>>
       \/ ToolFails /\ Fault

Map ==
    /\ step = "map"
    /\ \/ Goes("par") /\ UNCHANGED <<files, unchanged, product, success, faults>>
       \/ ToolFails /\ Fault

\* Its input is looked for in the working directory.
Par ==
    /\ step = "par"
    /\ \/ here /\ Goes("bitgen") /\ UNCHANGED <<files, unchanged, product, success, faults>>
       \/ ToolFails /\ IF here THEN Fault ELSE UNCHANGED faults

Bitgen ==
    /\ step = "bitgen"
    /\ \/ /\ bin' = [bin EXCEPT ![current] = product]
          /\ Goes(Finished)
          /\ UNCHANGED <<intercon, tle, unchanged, product, success, faults>>
       \/ ToolFails /\ Fault

-----------------------------------------------------------------------------
(* cleanupBuildDirectory(): the hardware description is removed if the     *)
(* binary could not be built.  The files of the toolchain, which it always *)
(* removes, are not read by a later run.                                   *)

\* (mutant: the description is kept)
DeleteTle_Kept ==
    /\ step = "deleteTle"
    /\ Goes("done")
    /\ UNCHANGED <<files, unchanged, product, success, faults>>
DeleteTle ==
    /\ step = "deleteTle"
    /\ tle' = IF success THEN tle ELSE [tle EXCEPT ![current] = None]
    /\ Goes("deleteIntercon")
    /\ UNCHANGED <<intercon, bin, unchanged, product, success, faults>>

DeleteIntercon ==
    /\ step = "deleteIntercon"
    /\ intercon' = IF success THEN intercon ELSE [intercon EXCEPT ![current] = None]
    /\ Goes("done")
    /\ UNCHANGED <<tle, bin, unchanged, product, success, faults>>

-----------------------------------------------------------------------------

\* main() is killed, but not generateBinaries(), which cleans up after it.
KillMain ==
    /\ caller = "all"
    /\ step \in {"copyIntercon", "fillIntercon", "copyTle", "fillTle", "decide",
                 "xst", "ngdbuild", "map", "par", "bitgen"}
    /\ Fault
    /\ success' = FALSE
    /\ Goes("deleteTle")
    /\ UNCHANGED <<files, unchanged, product>>

Next ==
    \/ \E b \in Binaries, h \in BOOLEAN, c \in Callers : Call(c, b, h)
    \/ \E b \in Binaries : RemoveBinary(b)
    \/ Compile \/ CopyIntercon \/ FillIntercon \/ CopyTle \/ FillTle \/ Decide
    \/ Xst \/ Ngdbuild \/ Map \/ Par \/ Bitgen
    \/ DeleteTle \/ DeleteIntercon
    \/ NextBinary \/ Return \/ Kill \/ KillMain

Spec == Init /\ [][Next]_vars

-----------------------------------------------------------------------------
(* Properties.                                                             *)

\* A run that succeeds leaves the binary of the description it was given, also if
\* it found that there was nothing to build: whichever of the three callers ran
\* before, whatever failed, and wherever runs were killed, unless one of them left
\* a description without its binary (generator.cc:642-723, 853-861).
BinaryUpToDate ==
    step = "done" /\ success /\ ~trouble => bin[current] = described

=============================================================================
