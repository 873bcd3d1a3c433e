------------------------- MODULE VMLifecycleProofs -------------------------
(***************************************************************************)
(* Proofs about VMLifecycle, for any set of states that debuggers ask for: *)
(* its safety invariants, and that it implements ProgramLife.              *)
(***************************************************************************)
EXTENDS VMLifecycle, TLAPS

Ended == {"OK", "ABORT", "ERROR"}

\* TypeOK in two parts.
Flagged ==
  /\ Awake \in BOOLEAN /\ PowerOn \in BOOLEAN
  /\ ActivateFlag \in BOOLEAN /\ DeactivateFlag \in BOOLEAN /\ ActiveProgHandle \in BOOLEAN
  /\ Debugging \in BOOLEAN /\ DirtyComm \in BOOLEAN /\ CommBusy \in BOOLEAN
  /\ driven \in BOOLEAN /\ abandoned \in BOOLEAN

UiSteps == {"0", "1", "2", "3", "start", "wait", "sound", "playing", "ended", "show",
            "file", "obp0", "obp1", "obp2", "obp3", "obp99"}

Types ==
  /\ turn \in {"Comm", "Sound", "IOCtrl", "Cmd", "Ui", "UiChecks", "Pnp", "halt"}
  /\ VMState \in VM_STATE /\ ProgStatus \in PROGRAM_STATUS
  /\ Sound \in {"IDLE", "PLAYING", "STOP"}
  /\ State \in {"menu", "execute", "executing", "popup"}
  /\ Function \in {"none", "files", "onbrick", "off"}
  /\ UiStep \in UiSteps
  /\ Flags \subseteq {"EXECUTE", "BUSY", "DISABLE"}
  /\ stopFor \in {"none", "this", "last"}

\* A request to run a file is answered before the user interface's next turn,
\* and the on-brick program that it waits for has been started and not been
\* reset.
Waiting ==
  /\ ActivateFlag => turn # "Ui"
  /\ UiStep = "obp3" => ActivateFlag \/ ProgStatus \in {"RUNNING"} \cup Ended

\* A menu is at its start, and the run of a file is marked as busy.
Protected ==
  /\ State = "menu" /\ Function = "none" => UiStep = "0"
  /\ Runs /\ UiStep # "0" => "BUSY" \in Flags

\* Who waits for the end of a program that has not lost its function.
Attended ==
  (ActivateFlag \/ ProgStatus = "RUNNING") =>
    \/ abandoned
    \/ UiStep = "obp3" /\ (Runs \/ Calls("onbrick"))
    \/ UiStep = "wait" /\ Runs
    \/ "BUSY" \in Flags /\ Calls("off")

IInv == Types /\ ContractWithUi /\ ProgramHeld /\ Waiting /\ Protected /\ Attended

\* The two parts are the type invariant.
LEMMA TypesTypeOK == Types /\ Flagged <=> TypeOK
BY DEF Types, Flagged, TypeOK, UiSteps

\* At first the machine is idle and the user interface in the menu.
LEMMA InitIInv == Init => IInv
BY DEF Init, IInv, Types, UiSteps, ContractWithUi, ProgramHeld, Waiting, Protected, Attended, Runs, Calls,
       VM_STATE, PROGRAM_STATUS, Run

-----------------------------------------------------------------------------
(* Remote commands and the virtual machine.                                *)

\* Remote commands may only move the machine between states of a program that
\* runs, or end it.
LEMMA RemoteKeeps ==
  ASSUME IInv,
         RC_START_PROGRAM \/ RC_STOP_PROGRAM \/ RC_SET_VM_STATE \/ RC_SET_PROPERTY
  PROVE  IInv'
<1> USE DEF IInv, Types, ContractWithUi, ProgramHeld, Waiting, Protected, Attended, Runs, Calls,
            VM_STATE, PROGRAM_STATUS, Run,
            envVars, vmVars, uiVars, history
<1>1. CASE RC_START_PROGRAM
  BY <1>1 DEF RC_START_PROGRAM
<1>2. CASE RC_STOP_PROGRAM
  BY <1>2 DEF RC_STOP_PROGRAM
<1>3. CASE RC_SET_VM_STATE
  <2>1. VMState' \in Run \cup {"VM_RESET1"}
    BY <1>3, DebugStatesAreStates DEF RC_SET_VM_STATE
  <2> QED BY <1>3, <2>1 DEF RC_SET_VM_STATE, Ended
<1>4. CASE RC_SET_PROPERTY
  BY <1>4 DEF RC_SET_PROPERTY
<1> QED BY <1>1, <1>2, <1>3, <1>4

\* The virtual machine's turn.
LEMMA CmdKeeps ==
  ASSUME IInv, cCmdCtrl
  PROVE  IInv'
<1> USE DEF IInv, Types, ContractWithUi, ProgramHeld, Waiting, Protected, Attended, Runs, Calls,
            VM_STATE, PROGRAM_STATUS, Run,
            envVars, vmVars, uiVars, history, CmdTurn, Ended
<1>1. CASE Abort
  BY <1>1 DEF Abort
<1>2. CASE Execute
  BY <1>2 DEF Execute
<1>3. CASE Activate
  <2>0. /\ ActivateFlag /\ ~ActivateFlag' /\ turn' = "Ui"
        /\ UNCHANGED <<envVars, uiVars, abandoned>>
        /\ VMState = "VM_IDLE"
        /\ stopFor' \in {"none", "this", "last"}
    BY <1>3 DEF Activate
  <2>1. CASE /\ ActiveProgHandle'
             /\ VMState' = "VM_RUN_FREE" /\ ProgStatus' = "RUNNING"
             /\ Flags' = Flags \cup {"DISABLE"}
    BY <2>0, <2>1
  <2>2. CASE /\ VMState' = "VM_RESET1" /\ ProgStatus' = "ERROR"
             /\ UNCHANGED Flags
    BY <2>0, <2>2
  <2> QED BY <1>3, <2>1, <2>2 DEF Activate, cCmdActivateProgram
<1>4. CASE Reset1
  BY <1>4 DEF Reset1, cCmdDeactivateProgram, cCmdResetDevices
<1>5. CASE Reset2
  BY <1>5 DEF Reset2, cCmdResetDevices
<1>6. CASE CmdNothing
  BY <1>6 DEF CmdNothing
<1> QED BY <1>1, <1>2, <1>3, <1>4, <1>5, <1>6 DEF cCmdCtrl

-----------------------------------------------------------------------------
(* The user interface.                                                     *)

\* A step that only moves the user interface on, but not away from a program
\* that runs.
LEMMA GoToKeeps ==
  ASSUME IInv, UiOwnTurn, Sound' \in {"IDLE", "PLAYING", "STOP"}, NEW s, GoTo(s),
         s \in UiSteps, s = "obp3" => UiStep = "obp3",
         State # "menu" \/ Function # "none", Runs => UiStep # "0",
         UiStep \in {"wait", "obp3"} => s = UiStep \/ ProgStatus # "RUNNING"
  PROVE  IInv'
<1>0. /\ Types /\ ContractWithUi /\ ProgramHeld /\ Waiting /\ Protected /\ Attended
      /\ turn = "Ui" /\ turn' = "UiChecks" /\ UiStep' = s
      /\ UNCHANGED <<VMState, ProgStatus, ActivateFlag, ActiveProgHandle, State, Function, Flags,
                     stopFor, abandoned>>
  BY DEF IInv, UiOwnTurn, GoTo, vmVars, history
<1>1. Types'
  BY <1>0 DEF Types
<1>2. ContractWithUi' /\ ProgramHeld'
  BY <1>0 DEF ContractWithUi, ProgramHeld
<1>3. Waiting'
  BY <1>0 DEF Waiting
<1>4. Protected'
  BY <1>0 DEF Protected, Runs, Calls
<1>5. Attended'
  BY <1>0 DEF Attended, Waiting, Runs, Calls
<1> QED BY <1>1, <1>2, <1>3, <1>4, <1>5 DEF IInv

\* What the user interface's own turn leaves alone.
LEMMA UiTurnSound ==
  ASSUME IInv, UiTurn
  PROVE  UiOwnTurn /\ Sound' \in {"IDLE", "PLAYING", "STOP"}
BY DEF IInv, Types, UiTurn

\* The user interface's turn.
LEMMA UiKeeps ==
  ASSUME IInv, UiState
  PROVE  IInv'
<1> USE DEF Runs, Calls
<1>0. Types /\ ContractWithUi /\ ProgramHeld /\ Waiting /\ Protected /\ Attended
  BY DEF IInv
<1> DEFINE Kept == UNCHANGED <<VMState, ActivateFlag, ActiveProgHandle, Sound, history>>
<1>1. CASE Menu
  BY <1>0, <1>1 DEF Menu, UiTurn, UiOwnTurn, IInv, Types, ContractWithUi, ProgramHeld, Waiting,
     Protected, Attended, vmVars, history
<1>2. CASE ExecuteFile
  BY <1>0, <1>2 DEF ExecuteFile, UiTurn, UiOwnTurn, IInv, Types, UiSteps, ContractWithUi, ProgramHeld,
     Waiting, Protected, Attended, vmVars, history
<1>3. CASE FileRunBusy
  BY <1>0, <1>3 DEF FileRunBusy, FileRun, UiTurn, UiOwnTurn, IInv, Types, UiSteps, ContractWithUi,
     ProgramHeld, Waiting, Protected, Attended, vmVars, history
<1>4. CASE FileRunReady
  <2>1. ASSUME NEW s \in {"1", "2", "start", "file", "sound", "show"}, GoTo(s) PROVE IInv'
    BY <1>4, <2>1, GoToKeeps, UiTurnSound DEF FileRunReady, FileRun, UiSteps
  <2> QED BY <1>4, <2>1 DEF FileRunReady
<1>5. CASE FileRunUnknown
  BY <1>0, <1>5 DEF FileRunUnknown, FileRun, UiTurn, UiOwnTurn, IInv, Types, UiSteps, ContractWithUi,
     ProgramHeld, Waiting, Protected, Attended, vmVars, history
<1>6. CASE FileRunSound \/ FileRunSteps
  BY <1>6, GoToKeeps, UiTurnSound DEF FileRunSound, FileRunSteps, FileRun, UiSteps
<1>7. CASE FileRunSilenced
  BY <1>7, GoToKeeps DEF FileRunSilenced, UiSteps
<1>8. CASE FileRunStart \/ OnBrickStart
  <2>1. ASSUME NEW s \in {"wait", "obp3"}, HandOver(s), UiTurn,
               s = "wait" => Runs, s = "obp3" => Runs \/ Calls("onbrick"), UiStep # "0"
        PROVE IInv'
    <3>1. Types' /\ ContractWithUi' /\ ProgramHeld'
      BY <1>0, <2>1 DEF HandOver, UiTurn, UiOwnTurn, Types, UiSteps, ContractWithUi, ProgramHeld, VM_STATE,
         PROGRAM_STATUS, Run, history
    <3>2. Waiting' /\ Protected' /\ Attended'
      BY <1>0, <2>1 DEF HandOver, UiTurn, UiOwnTurn, Waiting, Protected, Attended
    <3> QED BY <3>1, <3>2 DEF IInv
  <2>2. CASE FileRunStart
    BY <2>1, <2>2, GoToKeeps, UiTurnSound DEF FileRunStart, FileRun, UiSteps
  <2>3. CASE OnBrickStart
    BY <2>1, <2>3, GoToKeeps, UiTurnSound DEF OnBrickStart, OnBrick, UiSteps
  <2> QED BY <1>8, <2>2, <2>3
<1>9. CASE FileRunWait
  BY <1>9, GoToKeeps, UiTurnSound DEF FileRunWait, FileRun, UiSteps
<1>10. CASE FileRunEnded \/ FileRunShow
  BY <1>10, GoToKeeps, UiTurnSound DEF FileRunEnded, FileRunShow, FileRun, UiSteps
<1>11. CASE FileRunOver
  <2>1. ~ActivateFlag /\ (ProgStatus = "RUNNING" => abandoned)
    BY <1>0, <1>11 DEF FileRunOver, FileRun, UiTurn, UiOwnTurn, Waiting, Attended
  <2>2. /\ turn' = "UiChecks" /\ UiStep' = "0" /\ State' = "menu" /\ Function' = "none"
        /\ Kept /\ Flags' \subseteq Flags /\ ("DISABLE" \in Flags' <=> "DISABLE" \in Flags)
        /\ ProgStatus' = IF ProgStatus # "IDLE" THEN "RESET" ELSE ProgStatus
    BY <1>11 DEF FileRunOver, Returned, FileRun, UiTurn, UiOwnTurn
  <2>3. Types'
    BY <1>0, <2>2 DEF Types, UiSteps, PROGRAM_STATUS, history
  <2>4. ContractWithUi' /\ ProgramHeld'
    BY <1>0, <2>1, <2>2 DEF ContractWithUi, ProgramHeld, Types, Run, history
  <2>5. Waiting' /\ Protected' /\ Attended'
    BY <2>1, <2>2 DEF Waiting, Protected, Attended
  <2> QED BY <2>3, <2>4, <2>5 DEF IInv
<1>12. CASE OnBrickReady
  <2>1. ASSUME NEW s \in {"obp1", "obp2"}, GoTo(s), UiStep \in {"0", "obp0", "obp1"},
               UiStep = "0" => Calls("onbrick")
        PROVE IInv'
    BY <1>12, <2>1, GoToKeeps, UiTurnSound DEF OnBrickReady, OnBrick, UiSteps
  <2> QED BY <1>12, <2>1 DEF OnBrickReady
<1>13. CASE OnBrickWait
  <2>1. CASE ProgStatus = "RUNNING" /\ GoTo("obp3")
    BY <1>13, <2>1, GoToKeeps, UiTurnSound DEF OnBrickWait, OnBrick, UiSteps
  <2>2. CASE ProgStatus # "RUNNING" /\ ProgStatus' = "RESET" /\ UiStep' = "obp99"
    <3>1. /\ UiStep = "obp3" /\ turn = "Ui" /\ turn' = "UiChecks"
          /\ Kept /\ UNCHANGED <<State, Function, Flags>>
      BY <1>13, <2>2 DEF OnBrickWait, OnBrick, UiTurn, UiOwnTurn, GoTo
    <3>2. ~ActivateFlag /\ ProgStatus \in Ended
      BY <1>0, <2>2, <3>1 DEF Waiting
    <3>3. VMState \notin Run /\ VMState # "VM_IDLE"
      BY <1>0, <3>2 DEF ContractWithUi, Ended
    <3> QED BY <1>0, <2>2, <3>1, <3>2, <3>3 DEF IInv, Types, UiSteps, ContractWithUi, ProgramHeld, Waiting,
             Protected, Attended, PROGRAM_STATUS, history
  <2> QED BY <1>13, <2>1, <2>2 DEF OnBrickWait, OnBrick
<1>14. CASE OnBrickOver
  BY <1>0, <1>14 DEF OnBrickOver, OnBrick, UiTurn, UiOwnTurn, IInv, Types, UiSteps, ContractWithUi,
     ProgramHeld, Waiting, Protected, Attended, vmVars, history
<1>15. CASE OffStop
  BY <1>0, <1>15 DEF OffStop, UiTurn, UiOwnTurn, IInv, Types, UiSteps, ContractWithUi, ProgramHeld, Waiting,
     Protected, Attended
<1>16. CASE OffWait \/ OffClosing
  BY <1>16, GoToKeeps, UiTurnSound DEF OffWait, OffClosing, UiSteps
<1>17. CASE OffPower
  BY <1>0, <1>17 DEF OffPower, UiTurn, UiOwnTurn, IInv, Types, UiSteps, ContractWithUi, ProgramHeld, Waiting,
     Protected, Attended, vmVars, history
<1>18. CASE Popup
  <2>1. CASE UNCHANGED <<State, Flags, UiStep>>
    BY <1>0, <1>18, <2>1 DEF Popup, UiTurn, UiOwnTurn, IInv, Types, ContractWithUi, ProgramHeld, Waiting,
       Protected, Attended, vmVars, history
  <2>2. CASE State' = "menu" /\ Flags' = Flags \ {"BUSY"} /\ UiStep' = "0"
    BY <1>0, <1>18, <2>2 DEF Popup, UiTurn, UiOwnTurn, IInv, Types, UiSteps, ContractWithUi, ProgramHeld,
       Waiting, Protected, Attended, vmVars, history
  <2> QED BY <1>18, <2>1, <2>2 DEF Popup
<1> QED BY <1>1, <1>2, <1>3, <1>4, <1>5, <1>6, <1>7, <1>8, <1>9, <1>10, <1>11, <1>12, <1>13, <1>14,
           <1>15, <1>16, <1>17, <1>18 DEF UiState

\* Every action keeps the invariant.
LEMMA NextIInv == IInv /\ [Next]_vars => IInv'
<1> SUFFICES ASSUME IInv, [Next]_vars PROVE IInv'
  OBVIOUS
<1>0. Types /\ ContractWithUi /\ ProgramHeld /\ Waiting /\ Protected /\ Attended
  BY DEF IInv
<1>1. CASE RC_START_PROGRAM \/ RC_STOP_PROGRAM \/ RC_SET_VM_STATE \/ RC_SET_PROPERTY
  BY <1>1, RemoteKeeps
<1>2. CASE CommDone \/ cSoundCtrl \/ cIOCtrlCtrl \/ EndOfRound
  <2> USE DEF envVars, vmVars, uiVars, history
  <2>1. /\ turn' \in {"Sound", "IOCtrl", "Cmd", "Comm", "halt"}
        /\ Sound' \in {"IDLE", "PLAYING", "STOP"}
        /\ UNCHANGED <<vmVars, uiVars, Flags, history>>
    <3>1. CASE CommDone
      BY <1>0, <3>1 DEF CommDone, Types
    <3>2. CASE cSoundCtrl
      BY <1>0, <3>2 DEF cSoundCtrl
    <3>3. CASE cIOCtrlCtrl
      BY <1>0, <3>3 DEF cIOCtrlCtrl, Types
    <3>4. CASE EndOfRound
      BY <1>0, <3>4 DEF EndOfRound, Types
    <3> QED BY <1>2, <3>1, <3>2, <3>3, <3>4
  <2> QED BY <1>0, <2>1 DEF IInv, Types, ContractWithUi, ProgramHeld, Waiting, Protected, Attended,
           Runs, Calls
<1>3. CASE cCmdCtrl
  BY <1>3, CmdKeeps
<1>4. CASE UiState
  BY <1>4, UiKeeps
<1>5. CASE UiChecks
  <2> USE DEF envVars, vmVars, uiVars, Runs, Calls
  <2>1. /\ turn' = "Pnp"
        /\ UNCHANGED <<envVars, vmVars, stopFor>>
        /\ Flags' = Flags \/ Flags' = Flags \cup {"BUSY"}
    BY <1>5 DEF UiChecks
  <2>2. Flags' \subseteq {"EXECUTE", "BUSY", "DISABLE"} /\ ("DISABLE" \in Flags' <=> "DISABLE" \in Flags)
    BY <1>0, <2>1 DEF Types
  <2>3. CASE UNCHANGED <<uiVars, Flags, abandoned>>
    BY <1>0, <2>1, <2>3 DEF IInv, Types, ContractWithUi, ProgramHeld, Waiting, Protected, Attended
  <2>4. ASSUME NEW request \in {"popup", "execute", "off"}, Requested(request),
               IF request = "off" THEN State' = "menu" /\ Function' = "off" /\ UiStep' = "0"
                                  ELSE State' = request /\ UNCHANGED <<Function, UiStep>>,
               abandoned' = (abandoned \/ UiStep = "obp3")
        PROVE IInv'
    <3>1. Types'
      BY <1>0, <2>1, <2>2, <2>4 DEF Types, UiSteps
    <3>2. (ProgStatus = "RESET" /\ abandoned) => abandoned'
      BY <2>4
    <3>3. ContractWithUi' /\ ProgramHeld'
      BY <1>0, <2>1, <2>2, <3>2 DEF ContractWithUi, ProgramHeld
    <3>4. Waiting' /\ Protected'
      BY <1>0, <2>1, <2>4 DEF Waiting, Protected
    <3>5. Attended'
      BY <1>0, <2>1, <2>4 DEF Attended, Protected, Requested
    <3> QED BY <3>1, <3>3, <3>4, <3>5 DEF IInv
  <2> QED BY <1>5, <2>3, <2>4 DEF UiChecks
<1>6. CASE UNCHANGED vars
  BY <1>0, <1>6 DEF vars, IInv, Types, ContractWithUi, ProgramHeld, Waiting, Protected, Attended, Runs,
     Calls, envVars, vmVars, uiVars, history
<1> QED BY <1>1, <1>2, <1>3, <1>4, <1>5, <1>6 DEF Next, Controllers

\* The invariant holds throughout.
LEMMA Invariance == Spec => []IInv
BY InitIInv, NextIInv, PTL DEF Spec

-----------------------------------------------------------------------------
FlagVars == <<Awake, PowerOn, ActivateFlag, DeactivateFlag, ActiveProgHandle, Debugging,
              DirtyComm, CommBusy, driven, abandoned>>

\* What leaves the flags alone keeps them flags.
LEMMA SameFlags == Flagged /\ UNCHANGED FlagVars => Flagged'
BY Zenon DEF Flagged, FlagVars

\* A change of the user interface's step alone leaves the flags alone.
LEMMA GoToFlags ==
  ASSUME NEW s, UiOwnTurn, GoTo(s)
  PROVE  UNCHANGED FlagVars
BY DEF UiOwnTurn, GoTo, vmVars, history, FlagVars

\* A file handed to the virtual machine sets one flag.
LEMMA HandOverFlags ==
  ASSUME Flagged, NEW s, UiTurn, HandOver(s)
  PROVE  Flagged'
BY Zenon DEF Flagged, UiTurn, UiOwnTurn, HandOver, history

\* Flags stay flags.
LEMMA NextFlagged == Flagged /\ [Next]_vars => Flagged'
<1> SUFFICES ASSUME Flagged, [Next]_vars PROVE Flagged'
  OBVIOUS
<1> USE DEF Flagged
<1>1. CASE RC_START_PROGRAM
  BY <1>1, Zenon DEF RC_START_PROGRAM, envVars, vmVars, history
<1>2. CASE RC_STOP_PROGRAM
  BY <1>2, Zenon DEF RC_STOP_PROGRAM, envVars
<1>3. CASE RC_SET_VM_STATE
  BY <1>3, Zenon DEF RC_SET_VM_STATE, envVars, history
<1>4. CASE RC_SET_PROPERTY
  BY <1>4, Zenon DEF RC_SET_PROPERTY, envVars, history
<1>5. CASE CommDone \/ cSoundCtrl \/ cIOCtrlCtrl \/ EndOfRound
  <2>1. CASE CommDone
    BY <2>1, Zenon DEF CommDone, envVars, vmVars, history
  <2>2. CASE cSoundCtrl \/ EndOfRound
    <3>1. UNCHANGED FlagVars
      BY <2>2 DEF cSoundCtrl, EndOfRound, envVars, vmVars, history, FlagVars
    <3> QED BY <3>1, SameFlags
  <2>3. CASE cIOCtrlCtrl
    <3>1. (Awake /\ PowerOn) \in BOOLEAN
      OBVIOUS
    <3> QED BY <2>3, <3>1, Zenon DEF cIOCtrlCtrl, envVars, vmVars, history
  <2> QED BY <1>5, <2>1, <2>2, <2>3
<1>6. CASE Abort
  BY <1>6, Zenon DEF Abort, envVars
<1>7. CASE Execute
  <2>1. driven' \in BOOLEAN /\ DirtyComm' \in BOOLEAN
    BY <1>7, Zenon DEF Execute
  <2> QED BY <1>7, <2>1, Zenon DEF Execute, envVars, history
<1>8. CASE Activate
  BY <1>8, Zenon DEF Activate, cCmdActivateProgram, cCmdResetDevices, envVars
<1>9. CASE Reset1
  <2>1. driven' \in BOOLEAN
    BY <1>9, Zenon DEF Reset1, cCmdResetDevices
  <2> QED BY <1>9, <2>1, Zenon DEF Reset1, cCmdDeactivateProgram, history
<1>10. CASE Reset2
  <2>1. CommBusy' \in BOOLEAN
    BY <1>10, Zenon DEF Reset2
  <2>2. abandoned' \in BOOLEAN /\ driven' \in BOOLEAN /\ DirtyComm' \in BOOLEAN
    BY <1>10, Zenon DEF Reset2, cCmdResetDevices
  <2> QED BY <1>10, <2>1, <2>2, Zenon DEF Reset2, envVars
<1>11. CASE CmdNothing
  BY <1>11, Zenon DEF CmdNothing, envVars, vmVars, history
<1>12. CASE UiState
  <2> DEFINE Same == UNCHANGED FlagVars
  <2>1. CASE Menu \/ ExecuteFile \/ FileRunBusy
    <3>1. Same
      BY <2>1 DEF Menu, ExecuteFile, FileRunBusy, FileRun, UiTurn, UiOwnTurn, vmVars, history, FlagVars
    <3> QED BY <3>1, SameFlags
  <2>2. CASE FileRunReady \/ FileRunSound \/ FileRunSteps
    BY <2>2, GoToFlags, SameFlags DEF FileRunReady, FileRunSound, FileRunSteps, FileRun, UiTurn
  <2>3. CASE FileRunWait \/ FileRunEnded \/ FileRunShow
    BY <2>3, GoToFlags, SameFlags DEF FileRunWait, FileRunEnded, FileRunShow, FileRun, UiTurn
  <2>4. CASE OnBrickReady
    BY <2>4, GoToFlags, SameFlags DEF OnBrickReady, OnBrick, UiTurn
  <2>5. CASE OffWait \/ OffClosing
    BY <2>5, GoToFlags, SameFlags DEF OffWait, OffClosing, UiTurn
  <2>6. CASE FileRunStart
    BY <2>6, GoToFlags, SameFlags, HandOverFlags DEF FileRunStart, FileRun, UiTurn
  <2>7. CASE OnBrickStart
    BY <2>7, GoToFlags, SameFlags, HandOverFlags DEF OnBrickStart, OnBrick, UiTurn
  <2>8. CASE OnBrickOver \/ Popup
    <3>1. Same
      BY <2>8 DEF OnBrickOver, Popup, OnBrick, UiTurn, UiOwnTurn, vmVars, history, FlagVars
    <3> QED BY <3>1, SameFlags
  <2>9. CASE FileRunOver
    <3>1. Same
      BY <2>9 DEF FileRunOver, Returned, FileRun, UiTurn, UiOwnTurn, history, FlagVars
    <3> QED BY <3>1, SameFlags
  <2>10. CASE OnBrickWait
    <3>1. CASE ProgStatus = "RUNNING" /\ GoTo("obp3")
      BY <2>10, <3>1, GoToFlags, SameFlags DEF OnBrickWait, OnBrick, UiTurn
    <3>2. CASE ProgStatus # "RUNNING"
      <4>1. Same
        BY <2>10, <3>2 DEF OnBrickWait, OnBrick, UiTurn, UiOwnTurn, history, FlagVars
      <4> QED BY <4>1, SameFlags
    <3> QED BY <2>10, <3>1, <3>2 DEF OnBrickWait
  <2>11. CASE OffStop
    <3>1. DeactivateFlag' \in BOOLEAN
      BY <2>11, Zenon DEF OffStop
    <3> QED BY <2>11, <3>1, Zenon DEF OffStop, UiTurn, UiOwnTurn
  <2>12. CASE OffPower
    BY <2>12, Zenon DEF OffPower, UiTurn, UiOwnTurn, vmVars, history
  <2>13. CASE FileRunUnknown
    <3>1. Same
      BY <2>13 DEF FileRunUnknown, FileRun, UiTurn, UiOwnTurn, vmVars, history, FlagVars
    <3> QED BY <3>1, SameFlags
  <2>14. CASE FileRunSilenced
    BY <2>14, GoToFlags, SameFlags DEF FileRunSilenced
  <2> QED BY <1>12, <2>1, <2>2, <2>3, <2>4, <2>5, <2>6, <2>7, <2>8, <2>9, <2>10, <2>11, <2>12,
             <2>13, <2>14
          DEF UiState
<1>13. CASE UiChecks
  <2>1. (abandoned \/ UiStep = "obp3") \in BOOLEAN
    OBVIOUS
  <2>2. abandoned' \in BOOLEAN
    BY <1>13, <2>1, Zenon DEF UiChecks
  <2> QED BY <1>13, <2>2, Zenon DEF UiChecks, envVars, vmVars
<1>14. CASE UNCHANGED vars
  BY <1>14, Zenon DEF vars, envVars, vmVars, history
<1> QED BY <1>1, <1>2, <1>3, <1>4, <1>5, <1>6, <1>7, <1>8, <1>9, <1>10, <1>11, <1>12, <1>13, <1>14
        DEF Next, Controllers, cCmdCtrl

\* Flags are flags throughout.
LEMMA FlagsStay == Spec => []Flagged
<1>1. Init => Flagged
  BY DEF Init, Flagged
<1> QED BY <1>1, NextFlagged, PTL DEF Spec

-----------------------------------------------------------------------------
(* The variables keep their types.                                         *)
THEOREM TypeCorrect == Spec => []TypeOK
<1>1. IInv /\ Flagged => TypeOK
  BY TypesTypeOK DEF IInv
<1> QED BY <1>1, Invariance, FlagsStay, PTL

(* The status that is published and the machine's state agree, and files   *)
(* are only ever activated in an idle machine.                             *)
THEOREM Contract == Spec => []ContractWithUi
<1>1. IInv => ContractWithUi
  BY DEF IInv
<1> QED BY <1>1, Invariance, PTL

(* A program's file is open while it runs, and closed by the reset.        *)
THEOREM Held == Spec => []ProgramHeld
<1>1. IInv => ProgramHeld
  BY DEF IInv
<1> QED BY <1>1, Invariance, PTL

\* What ProgramLife sees.
LifeOf == <<ProgStatus, VMState \in Run, driven, abandoned>>

\* Every step is one of ProgramLife's, or leaves its variables as they are.
LEMMA NextLife == IInv /\ Flagged /\ [Next]_vars => [Life!Next]_LifeOf
<1> SUFFICES ASSUME IInv, Flagged, [Next]_vars PROVE Life!Next \/ UNCHANGED LifeOf
  BY DEF LifeOf
<1>0. Types /\ ContractWithUi /\ ProgramHeld /\ Waiting /\ Protected /\ Attended
  BY DEF IInv
<1> USE DEF LifeOf, Life!Next, Life!Start, Life!Drive, Life!End, Life!Stop, Life!Acknowledge,
            Life!Leave, Life!Recycle, Life!Ended
<1>1. CASE RC_START_PROGRAM \/ RC_STOP_PROGRAM \/ RC_SET_PROPERTY
  BY <1>1 DEF RC_START_PROGRAM, RC_STOP_PROGRAM, RC_SET_PROPERTY, vmVars, history
<1>2. CASE RC_SET_VM_STATE
  <2>1. VMState' \in Run \cup {"VM_RESET1"}
    BY <1>2, DebugStatesAreStates DEF RC_SET_VM_STATE
  <2>2. CASE VMState' \in Run
    BY <1>2, <2>2 DEF RC_SET_VM_STATE, Run, history
  <2>3. CASE VMState' = "VM_RESET1"
    BY <1>2, <2>3 DEF RC_SET_VM_STATE, Run, history
  <2> QED BY <2>1, <2>2, <2>3
<1>3. CASE CommDone \/ cSoundCtrl \/ cIOCtrlCtrl \/ EndOfRound
  BY <1>3 DEF CommDone, cSoundCtrl, cIOCtrlCtrl, EndOfRound, vmVars, history
<1>4. CASE Abort
  BY <1>4 DEF Abort, Run
<1>5. CASE Execute
  <2>1. VMState \in Run /\ driven' \in {driven, TRUE} /\ UNCHANGED abandoned
    BY <1>5 DEF Execute, Run, history
  <2>2. \/ VMState' \in Run /\ UNCHANGED ProgStatus
        \/ VMState' \notin Run /\ ProgStatus' \in Ended
    BY <1>5 DEF Execute, Run, Ended
  <2>3. CASE VMState' \in Run /\ UNCHANGED ProgStatus
    BY <2>1, <2>3
  <2>4. CASE VMState' \notin Run /\ ProgStatus' \in Ended
    <3>1. (VMState' \in Run) = FALSE
      BY <2>4
    <3>2. Life!End
      BY <2>1, <2>4, <3>1 DEF Ended, Life!End, Life!Ended
    <3> QED BY <3>2
  <2> QED BY <2>2, <2>3, <2>4
<1>6. CASE Activate
  <2>1. ProgStatus = "IDLE"
    BY <1>0, <1>6 DEF Activate, ContractWithUi
  <2> QED BY <1>6, <2>1 DEF Activate, cCmdResetDevices, Run
<1>7. CASE Reset1
  <2>1. ProgStatus # "IDLE"
    BY <1>0, <1>7 DEF Reset1, ContractWithUi
  <2> QED BY <1>7, <2>1 DEF Reset1, cCmdResetDevices, Run, history
<1>8. CASE Reset2
  BY <1>8 DEF Reset2, cCmdResetDevices, Run
<1>9. CASE CmdNothing
  BY <1>9 DEF CmdNothing, vmVars, history
<1>10. CASE FileRunOver
  <2>1. UNCHANGED <<VMState, driven, abandoned>>
    BY <1>10 DEF FileRunOver, history
  <2>2. ProgStatus \in {"IDLE", "RESET"} \cup Ended \/ (ProgStatus = "RUNNING" /\ abandoned)
    BY <1>0, <1>10 DEF FileRunOver, FileRun, UiTurn, UiOwnTurn, Runs, Calls, Waiting, Attended, Types,
       PROGRAM_STATUS, Ended
  <2> QED BY <1>10, <2>1, <2>2 DEF FileRunOver, Ended
<1>11. CASE OnBrickWait
  <2>1. ProgStatus \in {"RUNNING"} \cup Ended
    BY <1>0, <1>11 DEF OnBrickWait, OnBrick, UiTurn, UiOwnTurn, Waiting
  <2> QED BY <1>11, <2>1 DEF OnBrickWait, GoTo, vmVars, Ended, history
<1>12. CASE UiState /\ ~FileRunOver /\ ~OnBrickWait
  BY <1>12 DEF UiState, Menu, ExecuteFile, FileRunBusy, FileRunReady, FileRunUnknown, FileRunSound,
     FileRunSilenced, FileRunSteps, FileRunStart, FileRunWait, FileRunEnded, FileRunShow, OnBrickReady, OnBrickStart,
     OnBrickOver, OffStop, OffWait, OffClosing, OffPower, Popup, GoTo, HandOver, vmVars, history
<1>13. CASE UiChecks
  <2>1. UNCHANGED <<VMState, ProgStatus, driven>>
    BY <1>13 DEF UiChecks, vmVars
  <2>2. abandoned' = TRUE \/ UNCHANGED abandoned
    <3>1. abandoned \in BOOLEAN
      BY Zenon DEF Flagged
    <3>2. UNCHANGED abandoned \/ abandoned' = (abandoned \/ UiStep = "obp3")
      BY <1>13 DEF UiChecks
    <3>3. (abandoned \/ UiStep = "obp3") = TRUE \/ (abandoned \/ UiStep = "obp3") = abandoned
      BY <3>1, Zenon
    <3> QED BY <3>2, <3>3, Zenon
  <2> QED BY <2>1, <2>2
<1>14. CASE UNCHANGED vars
  BY <1>14 DEF vars, vmVars, history
<1> QED BY <1>1, <1>2, <1>3, <1>4, <1>5, <1>6, <1>7, <1>8, <1>9, <1>10, <1>11, <1>12, <1>13, <1>14
        DEF Next, Controllers, cCmdCtrl

(* The firmware implements ProgramLife: every end is published once and    *)
(* kept until the user interface has seen it, outputs have stopped before  *)
(* the next program starts, and only a program that the user interface has *)
(* left can be said to be reset while it runs.                             *)
THEOREM Implements == Spec => ImplementsLife
<1>1. Init => Life!Init
  BY DEF Init, Life!Init, Run
<1>2. IInv /\ Flagged /\ [Next]_vars => [Life!Next]_Life!lifeVars
  BY NextLife DEF LifeOf, Life!lifeVars
<1> QED BY <1>1, <1>2, Invariance, FlagsStay, PTL DEF Spec, ImplementsLife, Life!LifeSpec
=============================================================================
