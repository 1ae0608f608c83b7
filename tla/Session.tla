------------------------------ MODULE Session ------------------------------
(***************************************************************************)
(* From an attached board to a running FPGA: EasyFpga::init() after the    *)
(* binary is generated, with the Communicator's search for a board, its    *)
(* switching between the board's two contexts, and the upload.             *)
(*                                                                         *)
(* A process of the host runs init(), uses registers, runs init() again,   *)
(* and may end anywhere: by an assertion in doSyncTask(), or because it is *)
(* killed.  What the board's microcontroller (MCU) stores outlives it.  A  *)
(* synchronous exchange is one step here; TaskExecutor shows its inside.   *)
(***************************************************************************)
EXTENDS Integers, FiniteSets

CONSTANTS
    Boards,       \* attached boards, each named by its serial number
    Binaries,     \* binaries the user may give: records [hash, sectors, exact]
    Wanted,       \* serial numbers the user may ask for; 0 is any board
    Faults,       \* what may go wrong, a subset of AllFaults
    MaxFaults,    \* bound: faults
    MaxInits      \* bound: calls of init()

AllFaults == {"silent", "refuse", "abort", "power", "unplug"}

ASSUME SessionAssumption ==
    /\ Boards \subseteq Nat \ {0}
    /\ Wanted \subseteq Nat
    /\ Binaries \subseteq [hash : Nat \ {0}, sectors : Nat \ {0}, exact : BOOLEAN]
    /\ \A b, c \in Binaries : b.hash = c.hash => b = c
    /\ Faults \subseteq AllFaults
    /\ MaxFaults \in Nat
    /\ MaxInits \in Nat

VARIABLES
    at,        \* where the host process is; "down": there is none
    target,    \* Communicator::_target
    device,    \* the board the serial connection is open to, or 0
    wanted,    \* init(): serialNumber
    binary,    \* init(): the local binary
    unseen,    \* findFirstMatchingEasyFpga(): boards not read from the directory yet
    name,      \* findFirstMatchingEasyFpga(): the board whose file name was read
    probe,     \* testDeviceResponseBehavior(): target
    found,     \* findFirstMatchingEasyFpga(): easyFpga
    sector,    \* writeBinary(): i
    result,    \* what the last init() returned
    board,     \* the boards
    attached,  \* boards that are plugged in
    inits,     \* calls of init() so far
    faults     \* faults so far

callVars == <<wanted, binary, unseen, name, probe, found, sector>>
hostVars == <<at, target, device, result, inits, callVars>>
vars     == <<hostVars, board, attached, faults>>

-----------------------------------------------------------------------------
(* Binaries and boards.                                                    *)

Erased == <<0, 0>>
Zeros  == <<0, 1>>

\* The i-th 4096 bytes of a binary, padded with zeros if it is the last one.
Content(b, i) == <<b.hash, i>>
Contents == {Erased, Zeros} \cup
            UNION { { Content(b, i) : i \in 0 .. b.sectors - 1 } : b \in Binaries }

Sectors == UNION { 0 .. b.sectors - 1 : b \in Binaries }
Memory  == [Sectors -> Contents]
Empty   == [i \in Sectors |-> Erased]

Holds(memory, b) == \A i \in 0 .. b.sectors - 1 : memory[i] = Content(b, i)

\* mode: the MCU listens, the SoC in the FPGA listens, or the MCU configures.
\* flash, hash: the non-volatile memory and the status kept beside it.
\* fpga: what the FPGA was last configured with; "configured" is lost with power.
States == [mode : {"MCU", "SOC", "CONF"}, flash : Memory,
           hash : {0} \cup { b.hash : b \in Binaries },
           configured : BOOLEAN, fpga : Memory]

NewBoard == [mode |-> "MCU", flash |-> Empty, hash |-> 0, configured |-> FALSE,
             fpga |-> Empty]

NotFound == [board |-> 0, target |-> "UNDEFINED"]

Fault(f) == f \in Faults /\ faults < MaxFaults /\ faults' = faults + 1

-----------------------------------------------------------------------------
(* Synchronous exchanges: one step each, with all their attempts.          *)

Here == board[device]

\* Every attempt is refused, or cannot be sent: doSyncTask() returns false.
Refused(mode) ==
    /\ \/ Fault("refuse")
       \/ device \notin attached /\ UNCHANGED faults
       \/ device \in attached /\ Here.mode # mode /\ UNCHANGED faults
    /\ UNCHANGED board

\* The process ends.
Down ==
    /\ at' = "down"
    /\ target' = "UNDEFINED"
    /\ device' = 0
    /\ UNCHANGED <<result, inits, callVars>>

\* The reply is lost or unreadable and an assertion fails, or the process is
\* killed: "half" is what the board may have done by then.
Aborts(mode, half) ==
    /\ \/ Fault("abort")
       \/ device \notin attached /\ UNCHANGED faults
    /\ \/ UNCHANGED board
       \/ /\ device \in attached /\ Here.mode = mode
          /\ board' = [board EXCEPT ![device] = half]
    /\ Down

\* An exchange that, done in this mode, leaves the board as "new".
Exchange(mode, half, new, Success, Failure) ==
    /\ \/ /\ device \in attached
          /\ Here.mode = mode
          /\ board' = [board EXCEPT ![device] = new]
          /\ UNCHANGED faults
          /\ Success
       \/ Refused(mode) /\ Failure
       \/ Aborts(mode, half)
    /\ UNCHANGED attached

\* The context changes on both sides.
\* (mutant: the process does not note it)
Noted_Forgotten(to) == target
Noted(to) == to

Switch(from, to, Failure) ==
    LET switched == [Here EXCEPT !.mode = to]
    IN  /\ device # 0
        /\ target = from
        /\ Exchange(from, switched, switched,
             target' = Noted(to) /\ UNCHANGED <<at, device, result, inits, callVars>>,
             Failure)

\* An operation of the MCU: switchTo(MCU), which a process that never learnt
\* its context cannot do, and then the exchange itself.
OnMcu(half, new, Success, Failure) ==
    \/ Switch("SOC", "MCU", Failure)
    \/ target = "UNDEFINED" /\ Failure /\ UNCHANGED <<board, attached, faults>>
    \/ target = "MCU" /\ Exchange("MCU", half, new, Success, Failure)

Return(r) == at' = "idle" /\ result' = r

ReturnFalse == Return("fail") /\ UNCHANGED <<target, device, inits, callVars>>

Goto(place) == at' = place /\ UNCHANGED <<target, device, result, inits, callVars>>

-----------------------------------------------------------------------------
(* Communicator::init(): the search for a board.                           *)

\* The process starts: nothing is open, the context is unknown.
Start ==
    /\ at = "down"
    /\ inits < MaxInits
    /\ Return("none")
    /\ UNCHANGED <<target, device, inits, callVars, board, attached, faults>>

CallInit(serial, b) ==
    /\ at = "idle"
    /\ inits < MaxInits
    /\ inits' = inits + 1
    /\ at' = "scan"
    /\ result' = "none"
    /\ wanted' = serial
    /\ binary' = b
    /\ unseen' = attached
    /\ found' = NotFound
    /\ UNCHANGED <<target, device, name, probe, sector, board, attached, faults>>

\* openDevice() refuses while a connection is open, and nobody looks at that.
OpenNext(b) == IF device # 0 THEN device ELSE IF b \in attached THEN b ELSE 0

\* The next directory entry, in whatever order readdir() gives them.
ScanNext ==
    /\ at = "scan"
    /\ found = NotFound
    /\ \E b \in unseen :
          /\ unseen' = unseen \ {b}
          /\ name' = b
          /\ device' = OpenNext(b)
    /\ probe' = "UNDEFINED"
    /\ at' = "detect"
    /\ UNCHANGED <<target, result, inits, wanted, binary, found, sector,
                   board, attached, faults>>

\* closeDevice() after a device has been looked at; with the board found, or not.
LookedAt(f) ==
    /\ at' = "scan"
    /\ device' = 0
    /\ found' = f
    /\ UNCHANGED <<target, result, inits, wanted, binary, unseen, name, probe, sector>>

\* The loop of testDeviceResponseBehavior(): an answer that does not come
\* leaves the last one in force.
\* (mutant: a later answer does not replace the first)
Detected_FirstStays(answer) ==
    IF answer = "none" \/ probe # "UNDEFINED" THEN probe ELSE answer
Detected(answer) == IF answer = "none" THEN probe ELSE answer

Detect ==
    /\ at = "detect"
    /\ \E answer \in {"MCU", "SOC", "CONF", "none"} :
          /\ \/ answer = "none" /\ Fault("silent")
             \/ answer = "none" /\ device \notin attached /\ UNCHANGED faults
             \/ device \in attached /\ answer = Here.mode /\ UNCHANGED faults
          /\ probe' = Detected(answer)
    /\ at' = IF probe' = "CONF" THEN "detect" ELSE "detected"
    /\ UNCHANGED <<target, device, result, inits, wanted, binary, unseen, name,
                   found, sector, board, attached>>

ThisOne == [board |-> name, target |-> probe]

\* The serial number is read from the device that is open.
\* (mutant: any serial number will do)
Serial_Any == ThisOne
Serial == IF wanted = device THEN ThisOne ELSE NotFound

\* A device that answered is taken, after its serial number if one is wanted.
Consider ==
    /\ at = "detected"
    /\ \/ /\ probe \notin {"MCU", "SOC"}
          /\ LookedAt(NotFound)
          /\ UNCHANGED <<board, attached, faults>>
       \/ /\ probe \in {"MCU", "SOC"}
          /\ wanted = 0
          /\ LookedAt(ThisOne)
          /\ UNCHANGED <<board, attached, faults>>
       \/ /\ probe \in {"MCU", "SOC"}
          /\ wanted # 0
          /\ OnMcu(Here, Here,
                   LookedAt(Serial),
                   LookedAt(NotFound))

\* Communicator::init() opens the board that was found.
OpenFound ==
    /\ at = "scan"
    /\ found # NotFound \/ unseen = {}
    /\ \/ /\ found # NotFound
          /\ found.board \in attached
          /\ device' = found.board
          /\ target' = found.target
          /\ at' = "serial"
          /\ UNCHANGED <<result, inits, callVars>>
       \/ (found = NotFound \/ found.board \notin attached) /\ ReturnFalse
    /\ UNCHANGED <<board, attached, faults>>

-----------------------------------------------------------------------------
(* EasyFpga::connectHardwareDevice() and uploadBinaryFile().               *)

\* A serial number that cannot be read does not matter.
ReadSerial == at = "serial" /\ OnMcu(Here, Here, Goto("status"), Goto("status"))

\* The stored binary is taken to be the local one if their hashes are equal.
\* (mutant: the FPGA is taken to run it)
Compare_NotConfigured(status) == IF status.hash = binary.hash THEN "done" ELSE "write"
Compare(status) ==
    IF status.hash # binary.hash THEN "write"
    ELSE IF status.configured THEN "done" ELSE "configure"

ReadStatus ==
    /\ at = "status"
    /\ OnMcu(Here, Here,
         /\ IF Compare(Here) = "done" THEN Return("ok")
            ELSE at' = Compare(Here) /\ UNCHANGED result
         /\ sector' = 0
         /\ UNCHANGED <<target, device, inits, wanted, binary, unseen, name,
                        probe, found>>,
         ReturnFalse)

\* The last sector holds only the bytes beyond the last multiple of 4096: none
\* if the length is such a multiple.  (It is sent from an array whose block has
\* been left, and whose bytes nothing overwrites in the build without -O.)
SectorSent ==
    IF sector = binary.sectors - 1 /\ binary.exact THEN Zeros
    ELSE Content(binary, sector)

\* writeBinary() does not switch: readStatus() did.
\* (mutant: one sector only)
SectorsLeft_One == FALSE
SectorsLeft == sector + 1 < binary.sectors

WriteSector ==
    /\ at = "write"
    /\ LET new == [Here EXCEPT !.flash[sector] = SectorSent, !.configured = FALSE]
       IN  Exchange("MCU", new, new,
             /\ at' = IF SectorsLeft THEN "write" ELSE "writeStatus"
             /\ sector' = sector + 1
             /\ UNCHANGED <<target, device, result, inits, wanted, binary,
                            unseen, name, probe, found>>,
             ReturnFalse)

WriteStatus ==
    /\ at = "writeStatus"
    /\ LET new == [Here EXCEPT !.hash = binary.hash, !.configured = FALSE]
       IN  OnMcu(new, new, Goto("configure"), ReturnFalse)

\* The MCU loads the FPGA; a process that dies meanwhile leaves it at that.
Configured(b) == [b EXCEPT !.mode = "MCU", !.fpga = b.flash, !.configured = TRUE]

Configure ==
    /\ at = "configure"
    /\ OnMcu([Here EXCEPT !.mode = "CONF"], Configured(Here),
         Return("ok") /\ UNCHANGED <<target, device, inits, callVars>>,
         ReturnFalse)

-----------------------------------------------------------------------------
(* The rest of the program, and the world.                                 *)

\* A register is used: switchTo(SOC).
UseRegister ==
    /\ at = "idle"
    /\ result = "ok"
    /\ Switch("MCU", "SOC", UNCHANGED hostVars)

\* The program ends and closes its connection.
Exit ==
    /\ at = "idle"
    /\ Down
    /\ UNCHANGED <<board, attached, faults>>

FinishConfigure(b) ==
    /\ board[b].mode = "CONF"
    /\ b \in attached
    /\ board' = [board EXCEPT ![b] = Configured(@)]
    /\ UNCHANGED <<hostVars, attached, faults>>

\* A board loses power and is plugged in again while nobody has it open.
PowerCycle(b) ==
    /\ b \in attached
    /\ device # b
    /\ board[b].configured \/ board[b].mode # "MCU"
    /\ Fault("power")
    /\ board' = [board EXCEPT ![b].mode = "MCU", ![b].configured = FALSE,
                              ![b].fpga = Empty]
    /\ UNCHANGED <<hostVars, attached>>

Unplug(b) ==
    /\ b \in attached
    /\ Fault("unplug")
    /\ attached' = attached \ {b}
    /\ UNCHANGED <<hostVars, board>>

-----------------------------------------------------------------------------
Init ==
    /\ at = "down"
    /\ target = "UNDEFINED"
    /\ device = 0
    /\ wanted = 0
    /\ binary \in Binaries
    /\ unseen = {}
    /\ name = 0
    /\ probe = "UNDEFINED"
    /\ found = NotFound
    /\ sector = 0
    /\ result = "none"
    /\ board = [b \in Boards |-> NewBoard]
    /\ attached = Boards
    /\ inits = 0
    /\ faults = 0

InitSteps == ScanNext \/ Detect \/ Consider \/ OpenFound \/ ReadSerial \/ ReadStatus
             \/ WriteSector \/ WriteStatus \/ Configure

Next ==
    \/ Start
    \/ \E serial \in Wanted, b \in Binaries : CallInit(serial, b)
    \/ InitSteps
    \/ UseRegister
    \/ Exit
    \/ \E b \in Boards : FinishConfigure(b) \/ PowerCycle(b) \/ Unplug(b)

Spec == Init /\ [][Next]_vars

\* init() keeps running and a board finishes what it was told to do.
FairSpec ==
    /\ Spec
    /\ WF_vars(InitSteps)
    /\ \A b \in Boards : WF_vars(FinishConfigure(b))

-----------------------------------------------------------------------------
\* After init() returned true the FPGA runs what the board stores, and that is
\* filed under the hash of the user's binary (EasyFpga::uploadBinaryFile()).
LoadedAsStored ==
    (result = "ok" /\ at = "idle" /\ device \in attached) =>
        /\ Here.configured
        /\ Here.fpga = Here.flash
        /\ Here.hash = binary.hash

\* After init() returned true the FPGA runs the user's binary.
InitLoads ==
    (result = "ok" /\ at = "idle" /\ device \in attached) => Holds(Here.fpga, binary)

\* A hash is written to a board only beside the whole binary it belongs to.
HashOfStored ==
    [][\A b \in Boards :
          board'[b].hash # board[b].hash => Holds(board'[b].flash, binary)]_vars

\* Between two calls the process knows which context of its board listens.
TargetTracks ==
    ( /\ at \notin {"scan", "detect", "detected", "down"}
      /\ target # "UNDEFINED"
      /\ device \in attached ) => target = Here.mode

\* A board that was asked for by its serial number is the one that is connected.
WantedConnected == (result = "ok" /\ at = "idle" /\ wanted # 0) => device = wanted

\* init() comes to an end, whatever the board is doing when it is called.
InitReturns == at = "scan" ~> at \in {"idle", "down"}
=============================================================================
