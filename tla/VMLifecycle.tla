---------------------------- MODULE VMLifecycle ----------------------------
(***************************************************************************)
(* The life of a program: from the request to run it, by remote command or *)
(* from the menu, through the states of the virtual machine (cCmdCtrl), to *)
(* the display of how it ended (cUiFileRun).  mSchedCtrl calls the         *)
(* controllers of the firmware in a fixed round; those that take part are  *)
(* here, one step each, and talk through the IO maps.                      *)
(*                                                                         *)
(* The instructions of the program are left to the scheduler's module: in  *)
(* a time slice it goes on, ends or fails, and may drive outputs and send  *)
(* over Bluetooth on the way.  Display, sounds and Bluetooth answer when   *)
(* they like, and buttons may be found pressed whenever they are read.     *)
(***************************************************************************)
EXTENDS Naturals, FiniteSets

CONSTANT DebugStates   \* the states that debuggers ask RC_SET_VM_STATE for

Run == {"VM_RUN_FREE", "VM_RUN_SINGLE", "VM_RUN_PAUSE"}
VM_STATE == Run \cup {"VM_IDLE", "VM_RESET1", "VM_RESET2"}
PROGRAM_STATUS == {"IDLE", "RUNNING", "OK", "ABORT", "ERROR", "RESET"}

ASSUME DebugStatesAreStates == DebugStates \subseteq Run \cup {"VM_RESET1"}

VARIABLES
  turn,              \* the controller whose turn it is, or "halt"
  Awake, PowerOn,    \* IOMapCmd.Awake; IOMapIoCtrl.PowerOn = POWERDOWN
  VMState, ProgStatus, ActivateFlag, DeactivateFlag,
  ActiveProgHandle,  \* TRUE: the program's file is open
  Debugging, DirtyComm,
  CommBusy,          \* VarsCmd.CommStatReset = BTBUSY
  driven,            \* outputs that a program has set and nothing has reset
  Sound,             \* IOMapSound.State
  State,             \* IOMapUi.State
  Function,          \* VarsUi.Function: the function that the menu runs, if any
  UiStep,            \* VarsUi.State in cUiFileRun, cUiOnBrickProgramming, cUiOff
  Flags,             \* IOMapUi.Flags
  stopFor,           \* history: the program that DeactivateFlag was set for
  abandoned          \* history: the on-brick program in the machine lost the function
                     \* that waits for its end

vmVars == <<VMState, ProgStatus, ActivateFlag, DeactivateFlag, ActiveProgHandle,
            Debugging, DirtyComm, CommBusy, driven>>
uiVars == <<State, Function, UiStep>>
envVars == <<Awake, PowerOn, Sound>>
history == <<stopFor, abandoned>>
vars == <<turn, envVars, vmVars, uiVars, Flags, history>>

Init ==
  /\ turn = "Comm" /\ Awake = TRUE /\ PowerOn = TRUE
  /\ VMState = "VM_IDLE" /\ ProgStatus = "IDLE"
  /\ ActivateFlag = FALSE /\ DeactivateFlag = FALSE /\ ActiveProgHandle = FALSE
  /\ Debugging = FALSE /\ DirtyComm = FALSE /\ CommBusy = TRUE
  /\ driven = FALSE /\ Sound = "IDLE"
  /\ State = "menu" /\ Function = "none" /\ UiStep = "0" /\ Flags = {}
  /\ stopFor = "none" /\ abandoned = FALSE

-----------------------------------------------------------------------------
(***************************************************************************)
(* Remote commands (cCmdHandleRemoteCommands, called by cCommCtrl).        *)
(***************************************************************************)

RC_START_PROGRAM ==
  /\ turn = "Comm"
  /\ Flags' = Flags \cup {"EXECUTE"}
  /\ UNCHANGED <<turn, envVars, vmVars, uiVars, history>>

RC_STOP_PROGRAM ==
  /\ turn = "Comm"
  /\ ActiveProgHandle
  /\ DeactivateFlag' = TRUE
  /\ stopFor' = "this"
  /\ UNCHANGED <<turn, envVars, VMState, ProgStatus, ActivateFlag, ActiveProgHandle,
                 Debugging, DirtyComm, CommBusy, driven, uiVars, Flags, abandoned>>

RC_SET_VM_STATE ==
  /\ turn = "Comm"
  /\ VMState \in Run
  /\ VMState' \in DebugStates
  /\ Debugging' = TRUE
  /\ ProgStatus' = IF VMState' = "VM_RESET1" THEN "ABORT" ELSE ProgStatus
  /\ UNCHANGED <<turn, envVars, ActivateFlag, DeactivateFlag, ActiveProgHandle,
                 DirtyComm, CommBusy, driven, uiVars, Flags, history>>

\* Breakpoints need a program, RC_PROP_DEBUGGING does not.
RC_SET_PROPERTY ==
  /\ turn = "Comm"
  /\ Debugging' \in BOOLEAN
  /\ UNCHANGED <<turn, envVars, VMState, ProgStatus, ActivateFlag, DeactivateFlag,
                 ActiveProgHandle, DirtyComm, CommBusy, driven, uiVars, Flags, history>>

CommDone ==
  /\ turn = "Comm" /\ turn' = "Sound"
  /\ UNCHANGED <<envVars, vmVars, uiVars, Flags, history>>

(***************************************************************************)
(* The controllers between: sound and IO control.                           *)
(***************************************************************************)

\* Programs, key clicks, the user interface and remote commands start sounds,
\* even in the round of a stop, and sounds end.
cSoundCtrl ==
  /\ turn = "Sound" /\ turn' = "IOCtrl"
  /\ Sound' \in {"IDLE", "PLAYING"}
  /\ UNCHANGED <<Awake, PowerOn, vmVars, uiVars, Flags, history>>

cIOCtrlCtrl ==
  /\ turn = "IOCtrl" /\ turn' = "Cmd"
  /\ Awake' = (Awake /\ PowerOn)
  /\ UNCHANGED <<PowerOn, Sound, vmVars, uiVars, Flags, history>>

-----------------------------------------------------------------------------
(***************************************************************************)
(* The virtual machine (cCmdCtrl), by VMState.                             *)
(***************************************************************************)

CmdTurn == turn = "Cmd" /\ turn' = "Ui"

\* Coast and reset the motors, sensors and digital ports.
cCmdResetDevices == driven' = FALSE

\* Close the program's file and those it has opened, forget its clumps.
cCmdDeactivateProgram == ActiveProgHandle' = FALSE

\* The file cannot be opened, or it is read and found to be no program, or it
\* is ready to run.  Its handle is kept from when it was opened.
cCmdActivateProgram(Status) ==
  \/ /\ Status = "NO_ERR"
     /\ ActiveProgHandle' = TRUE /\ Debugging' = FALSE
  \/ /\ Status = "ERROR"
     /\ ActiveProgHandle' \in BOOLEAN /\ UNCHANGED Debugging

\* DeactivateFlag is set, or the abort button has just been pressed and Enter
\* not, which may happen in any round.
Abort ==
  /\ CmdTurn
  /\ VMState \in {"VM_RUN_FREE", "VM_RUN_SINGLE"}
  /\ DeactivateFlag' = FALSE
  /\ VMState' = "VM_RESET1"
  /\ ProgStatus' = "ABORT"
  /\ stopFor' = "none"
  /\ UNCHANGED <<envVars, ActivateFlag, ActiveProgHandle, Debugging, DirtyComm, CommBusy,
                 driven, uiVars, Flags, abandoned>>

\* A fault: a program whose last clump ends after a single step only pauses.
ExecuteEndsPaused ==
  /\ CmdTurn
  /\ VMState \in {"VM_RUN_FREE", "VM_RUN_SINGLE"}
  /\ ~DeactivateFlag
  /\ driven' \in {driven, TRUE}
  /\ DirtyComm' \in {DirtyComm, TRUE}
  /\ \/ /\ \/ VMState = "VM_RUN_SINGLE" /\ VMState' = "VM_RUN_PAUSE"
           \/ VMState = "VM_RUN_FREE" /\ VMState' = "VM_RUN_FREE"
           \/ VMState = "VM_RUN_FREE" /\ Debugging /\ VMState' = "VM_RUN_PAUSE"
        /\ UNCHANGED ProgStatus
     \/ /\ ProgStatus' \in {"OK", "ERROR"}
        /\ VMState' = IF VMState = "VM_RUN_SINGLE" THEN "VM_RUN_PAUSE" ELSE "VM_RESET1"
  /\ UNCHANGED <<envVars, ActivateFlag, DeactivateFlag, ActiveProgHandle, Debugging, CommBusy,
                 uiVars, Flags, history>>

\* A time slice, or one instruction; a breakpoint pauses the program; it ends
\* when no clump is left to run, at a stop instruction or by an error.
Execute ==
  /\ CmdTurn
  /\ VMState \in {"VM_RUN_FREE", "VM_RUN_SINGLE"}
  /\ ~DeactivateFlag
  /\ driven' \in {driven, TRUE}
  /\ DirtyComm' \in {DirtyComm, TRUE}
  /\ \/ /\ \/ VMState = "VM_RUN_SINGLE" /\ VMState' = "VM_RUN_PAUSE"
           \/ VMState = "VM_RUN_FREE" /\ VMState' = "VM_RUN_FREE"
           \/ VMState = "VM_RUN_FREE" /\ Debugging /\ VMState' = "VM_RUN_PAUSE"
        /\ UNCHANGED ProgStatus
     \/ /\ ProgStatus' \in {"OK", "ERROR"}
        /\ VMState' = "VM_RESET1"
  /\ UNCHANGED <<envVars, ActivateFlag, DeactivateFlag, ActiveProgHandle, Debugging, CommBusy,
                 uiVars, Flags, history>>

\* The file starts to run, or the error is published and the reset follows.
Activate ==
  /\ CmdTurn
  /\ VMState = "VM_IDLE" /\ ActivateFlag
  /\ ActivateFlag' = FALSE
  /\ \/ /\ cCmdActivateProgram("NO_ERR")
        /\ VMState' = "VM_RUN_FREE" /\ ProgStatus' = "RUNNING"
        /\ cCmdResetDevices
        /\ Flags' = Flags \cup {"DISABLE"}
        /\ stopFor' = IF stopFor = "this" THEN "last" ELSE stopFor
     \/ /\ cCmdActivateProgram("ERROR")
        /\ VMState' = "VM_RESET1" /\ ProgStatus' = "ERROR"
        /\ UNCHANGED <<driven, Flags, stopFor>>
  /\ UNCHANGED <<envVars, DeactivateFlag, DirtyComm, CommBusy, uiVars, abandoned>>

\* A fault: only a program that has run to its end is closed.
Reset1LeavesAborted ==
  /\ CmdTurn
  /\ VMState = "VM_RESET1"
  /\ IF ProgStatus = "ABORT" THEN cCmdResetDevices ELSE UNCHANGED driven
  /\ Flags' = Flags \ {"DISABLE"}
  /\ ActiveProgHandle' = (ActiveProgHandle /\ ProgStatus = "ABORT")
  /\ Sound' = "STOP"
  /\ CommBusy' = TRUE
  /\ VMState' = "VM_RESET2"
  /\ UNCHANGED <<Awake, PowerOn, ProgStatus, ActivateFlag, DeactivateFlag,
                 Debugging, DirtyComm, uiVars, history>>

Reset1 ==
  /\ CmdTurn
  /\ VMState = "VM_RESET1"
  /\ IF ProgStatus = "ABORT" THEN cCmdResetDevices ELSE UNCHANGED driven
  /\ Flags' = Flags \ {"DISABLE"}
  /\ cCmdDeactivateProgram
  /\ Sound' = "STOP"
  /\ CommBusy' = TRUE
  /\ VMState' = "VM_RESET2"
  /\ UNCHANGED <<Awake, PowerOn, ProgStatus, ActivateFlag, DeactivateFlag,
                 Debugging, DirtyComm, uiVars, history>>

\* A fault: the machine goes idle without waiting for the user interface.
Reset2Early ==
  /\ CmdTurn
  /\ VMState = "VM_RESET2"
  /\ CommBusy' \in (IF CommBusy /\ DirtyComm THEN BOOLEAN ELSE {CommBusy})
  /\ driven' = FALSE
  /\ DirtyComm' = FALSE
  /\ VMState' = "VM_IDLE"
  /\ ProgStatus' = "IDLE"
  /\ UNCHANGED <<envVars, ActivateFlag, DeactivateFlag, ActiveProgHandle, Debugging,
                 uiVars, Flags, history>>

\* Ask for SETCMDMODE until it is accepted, and wait for the user interface.
Reset2 ==
  /\ CmdTurn
  /\ VMState = "VM_RESET2"
  /\ CommBusy' \in (IF CommBusy /\ DirtyComm THEN BOOLEAN ELSE {CommBusy})
  /\ \/ /\ ProgStatus = "RESET"
        /\ cCmdResetDevices
        /\ DirtyComm' = FALSE
        /\ VMState' = "VM_IDLE"
        /\ ProgStatus' = "IDLE"
        /\ abandoned' = FALSE
     \/ /\ ProgStatus # "RESET"
        /\ UNCHANGED <<driven, DirtyComm, VMState, ProgStatus, abandoned>>
  /\ UNCHANGED <<envVars, ActivateFlag, DeactivateFlag, ActiveProgHandle, Debugging,
                 uiVars, Flags, stopFor>>

\* Neither a paused nor an idle machine looks at DeactivateFlag or the buttons.
CmdNothing ==
  /\ CmdTurn
  /\ VMState = "VM_RUN_PAUSE" \/ (VMState = "VM_IDLE" /\ ~ActivateFlag)
  /\ UNCHANGED <<envVars, vmVars, uiVars, Flags, history>>

cCmdCtrl == Abort \/ Execute \/ Activate \/ Reset1 \/ Reset2 \/ CmdNothing

-----------------------------------------------------------------------------
(***************************************************************************)
(* The user interface (cUiCtrl), by State.  In the menu nothing that       *)
(* matters here happens until the user chooses a function: a file or the   *)
(* on-brick program to run, or to turn the brick off.                      *)
(***************************************************************************)

UiOwnTurn == turn = "Ui" /\ turn' = "UiChecks" /\ UNCHANGED Awake
UiTurn == UiOwnTurn /\ UNCHANGED Sound

\* The user interface goes to the step s, and nothing else changes.
GoTo(s) ==
  /\ UiStep' = s
  /\ UNCHANGED <<PowerOn, vmVars, State, Function, Flags, history>>

Menu ==
  /\ UiTurn
  /\ State = "menu" /\ Function = "none"
  /\ Function' \in {"none", "files", "onbrick", "off"}
  /\ UNCHANGED <<PowerOn, vmVars, State, UiStep, Flags, history>>

ExecuteFile ==
  /\ UiTurn
  /\ State = "execute" /\ State' = "executing"
  /\ Function' = "none" /\ UiStep' = "0"
  /\ UNCHANGED <<PowerOn, vmVars, Flags, history>>

Calls(function) == State = "menu" /\ Function = function

\* cUiFileRun is called for the requested file or from the menu.
Runs == State = "executing" \/ Calls("files")
FileRun == UiTurn /\ Runs

FileRunBusy ==
  /\ FileRun /\ UiStep = "0"
  /\ Flags' = Flags \cup {"BUSY"}
  /\ UiStep' = "1"
  /\ UNCHANGED <<PowerOn, vmVars, State, Function, history>>

\* Step 1 waits for the sound, step 2 for the display; then the type of the
\* file decides: a compiled program, an on-brick one, a sound, or, if a remote
\* command names it, a data log, which is taken for run.
FileRunReady ==
  /\ FileRun
  /\ \/ UiStep = "1" /\ GoTo(IF Sound = "IDLE" THEN "2" ELSE "1")
     \/ UiStep = "2" /\ \E s \in {"2", "start", "file", "sound"} : GoTo(s)
     \/ UiStep = "2" /\ State = "executing" /\ GoTo("show")

\* Other files have type 0, with which cUiFileRun returns at once; it is still
\* marked as busy.
FileRunUnknown ==
  /\ FileRun /\ UiStep = "2"
  /\ State = "executing" /\ State' = "menu"
  /\ UiStep' = "0"
  /\ Flags' = Flags \ {"EXECUTE"}
  /\ UNCHANGED <<PowerOn, vmVars, Function, history>>

\* A sound is asked for, and played until it ends or a button stops it.
FileRunSound ==
  /\ FileRun
  /\ \/ UiStep = "sound" /\ GoTo("playing")
     \/ UiStep = "playing" /\ GoTo(IF Sound = "IDLE" THEN "ended" ELSE "playing")

FileRunSilenced ==
  /\ UiOwnTurn /\ Runs /\ UiStep = "playing"
  /\ Sound' = "STOP"
  /\ GoTo("ended")

\* The steps of an on-brick program are read and copied, if the file has any.
FileRunSteps == FileRun /\ UiStep = "file" /\ \E s \in {"obp0", "ended"} : GoTo(s)

\* A file is handed to the virtual machine when that is idle.
HandOver(next) ==
  /\ ProgStatus = "IDLE"
  /\ ActivateFlag' = TRUE
  /\ UiStep' = next
  /\ UNCHANGED <<PowerOn, VMState, ProgStatus, DeactivateFlag, ActiveProgHandle, Debugging,
                 DirtyComm, CommBusy, driven, State, Function, Flags, history>>

\* It also waits for the display and the release of Enter.
FileRunStart ==
  /\ FileRun /\ UiStep = "start"
  /\ HandOver("wait") \/ GoTo("start")

\* Any status but RUNNING is an end.
FileRunWait ==
  /\ FileRun /\ UiStep = "wait"
  /\ GoTo(IF ProgStatus = "RUNNING" THEN "wait" ELSE "ended")

FileRunEnded == FileRun /\ UiStep = "ended" /\ GoTo("show")

\* cUiFileRun returns 0: its caller leaves it.
Returned == /\ UiStep' = "0"
            /\ State' = "menu" /\ Function' = "none"
            /\ Flags' = Flags \ ({"BUSY"} \cup (IF State = "executing" THEN {"EXECUTE"} ELSE {}))

\* A fault: the status is left for the virtual machine to clear.
FileRunOverForgets ==
  /\ FileRun /\ UiStep = "show"
  /\ Returned
  /\ UNCHANGED <<PowerOn, vmVars, history>>

\* After some time or at a button.
FileRunOver ==
  /\ FileRun /\ UiStep = "show"
  /\ ProgStatus' = IF ProgStatus # "IDLE" THEN "RESET" ELSE ProgStatus
  /\ Returned
  /\ UNCHANGED <<PowerOn, VMState, ActivateFlag, DeactivateFlag, ActiveProgHandle, Debugging,
                 DirtyComm, CommBusy, driven, history>>

FileRunShow == FileRun /\ UiStep = "show" /\ GoTo("show")

\* cUiOnBrickProgramming(MENU_RUN) interprets the steps entered in the menu with
\* a program of its own.  It is a function of the menu, or called by cUiFileRun.
OnBrick == UiTurn /\ (State = "executing" \/ Calls("files") \/ Calls("onbrick"))

OnBrickReady ==
  /\ OnBrick
  /\ \/ UiStep = "0" /\ Calls("onbrick") /\ GoTo("obp1")
     \/ UiStep = "obp0" /\ GoTo("obp1")
     \/ UiStep = "obp1" /\ GoTo(IF Sound = "IDLE" THEN "obp2" ELSE "obp1")

OnBrickStart ==
  /\ OnBrick /\ UiStep = "obp2"
  /\ \/ HandOver("obp3")
     \/ ProgStatus # "IDLE" /\ GoTo("obp2")

\* It is reset as soon as it has ended.
OnBrickWait ==
  /\ OnBrick /\ UiStep = "obp3"
  /\ \/ ProgStatus = "RUNNING" /\ GoTo("obp3")
     \/ /\ ProgStatus # "RUNNING"
        /\ ProgStatus' = "RESET"
        /\ UiStep' = "obp99"
        /\ UNCHANGED <<PowerOn, VMState, ActivateFlag, DeactivateFlag, ActiveProgHandle,
                       Debugging, DirtyComm, CommBusy, driven, State, Function, Flags,
                       history>>

OnBrickOver ==
  /\ OnBrick /\ UiStep = "obp99"
  /\ IF Calls("onbrick") THEN UiStep' = "0" /\ Function' = "none"
                         ELSE UiStep' = "ended" /\ UNCHANGED Function
  /\ UNCHANGED <<PowerOn, vmVars, State, Flags, history>>

\* cUiOff: stop the program, wait for its end, close all connections, power off.
OffStop ==
  /\ UiTurn /\ Calls("off") /\ UiStep = "0"
  /\ IF ProgStatus = "RUNNING" THEN DeactivateFlag' = TRUE /\ stopFor' = "this"
                               ELSE UNCHANGED <<DeactivateFlag, stopFor>>
  /\ UiStep' = "1"
  /\ UNCHANGED <<PowerOn, VMState, ProgStatus, ActivateFlag, ActiveProgHandle, Debugging,
                 DirtyComm, CommBusy, driven, State, Function, Flags, abandoned>>

OffWait ==
  /\ UiTurn /\ Calls("off") /\ UiStep = "1"
  /\ GoTo(IF ProgStatus # "RUNNING" THEN "2" ELSE "1")

OffClosing == UiTurn /\ Calls("off") /\ UiStep \in {"2", "3"} /\ GoTo(UiStep)

OffPower ==
  /\ UiTurn /\ Calls("off") /\ UiStep = "2"
  /\ PowerOn' = FALSE
  /\ UiStep' = "3"
  /\ UNCHANGED <<vmVars, State, Function, Flags, history>>

\* A connection request or a Bluetooth error, until the user has answered; the
\* function that the menu was running is called from its start again.
Popup ==
  /\ UiTurn /\ State = "popup"
  /\ \/ State' = "menu" /\ Flags' = Flags \ {"BUSY"} /\ UiStep' = "0"
     \/ UNCHANGED <<State, Flags, UiStep>>
  /\ UNCHANGED <<PowerOn, vmVars, Function, history>>

UiState ==
  \/ Menu \/ ExecuteFile
  \/ FileRunBusy \/ FileRunReady \/ FileRunStart \/ FileRunWait \/ FileRunEnded
  \/ FileRunUnknown \/ FileRunSound \/ FileRunSilenced \/ FileRunSteps
  \/ FileRunShow \/ FileRunOver
  \/ OnBrickReady \/ OnBrickStart \/ OnBrickWait \/ OnBrickOver
  \/ OffStop \/ OffWait \/ OffClosing \/ OffPower \/ Popup

\* At the end of cUiCtrl requests take the user interface from what it was
\* doing: Bluetooth's and remote commands' unless it is busy, and the sleep
\* timer, an empty battery or a long press of the exit button in any case.
Requested(request) ==
  \/ request = "popup" /\ "BUSY" \notin Flags
  \/ request = "execute" /\ "BUSY" \notin Flags /\ "EXECUTE" \in Flags
  \/ request = "off" /\ ~Calls("off")

UiChecks ==
  /\ turn = "UiChecks" /\ turn' = "Pnp"
  /\ \/ /\ "BUSY" \in Flags \/ "EXECUTE" \notin Flags
        /\ UNCHANGED <<uiVars, Flags, abandoned>>
     \/ \E request \in {"popup", "execute", "off"} :
          /\ Requested(request)
          /\ IF request = "off" THEN State' = "menu" /\ Function' = "off" /\ UiStep' = "0"
                                ELSE State' = request /\ UNCHANGED <<Function, UiStep>>
          /\ Flags' = IF request # "off" \/ ("EXECUTE" \in Flags) THEN Flags \cup {"BUSY"} ELSE Flags
          /\ abandoned' = (abandoned \/ UiStep = "obp3")
  /\ UNCHANGED <<envVars, vmVars, stopFor>>

\* The last controller: mSchedCtrl returns Awake.
EndOfRound ==
  /\ turn = "Pnp"
  /\ turn' = IF Awake THEN "Comm" ELSE "halt"
  /\ UNCHANGED <<envVars, vmVars, uiVars, Flags, history>>

Controllers ==
  CommDone \/ cSoundCtrl \/ cIOCtrlCtrl \/ cCmdCtrl \/ UiState \/ UiChecks
  \/ EndOfRound

Next ==
  \/ RC_START_PROGRAM \/ RC_STOP_PROGRAM \/ RC_SET_VM_STATE \/ RC_SET_PROPERTY
  \/ Controllers

\* Rounds follow one another; what a program's end is shown for is a time, and
\* Bluetooth answers a request to close all connections.
Fairness == WF_vars(Controllers) /\ SF_vars(FileRunOver) /\ SF_vars(OffPower)

Spec == Init /\ [][Next]_vars /\ Fairness

-----------------------------------------------------------------------------
TypeOK ==
  /\ turn \in {"Comm", "Sound", "IOCtrl", "Cmd", "Ui", "UiChecks", "Pnp", "halt"}
  /\ {Awake, PowerOn, ActivateFlag, DeactivateFlag, ActiveProgHandle, Debugging,
      DirtyComm, CommBusy, driven, abandoned} \subseteq BOOLEAN
  /\ VMState \in VM_STATE /\ ProgStatus \in PROGRAM_STATUS
  /\ Sound \in {"IDLE", "PLAYING", "STOP"}
  /\ State \in {"menu", "execute", "executing", "popup"}
  /\ Function \in {"none", "files", "onbrick", "off"}
  /\ UiStep \in {"0", "1", "2", "3", "start", "wait", "sound", "playing", "ended", "show",
                 "file", "obp0", "obp1", "obp2", "obp3", "obp99"}
  /\ Flags \subseteq {"EXECUTE", "BUSY", "DISABLE"}
  /\ stopFor \in {"none", "this", "last"}

\* "preserves contract with UI" (c_cmd.c:1603): the status that the user
\* interface acts upon and the machine's state say the same, and a request to
\* activate a file is only ever made to an idle machine, so that it is neither
\* lost nor answered after the next one.  One exception: the user interface may
\* ask for the reset of an on-brick program that still runs, at the end of
\* another file that it shows in the meantime (cUiFileRun, any file that is not
\* a program), but only if it was taken from the function that waits for it.
ContractWithUi ==
  /\ ProgStatus = "RUNNING" => VMState \in Run
  /\ VMState \in Run => ProgStatus = "RUNNING" \/ (ProgStatus = "RESET" /\ abandoned)
  /\ VMState = "VM_IDLE" <=> ProgStatus = "IDLE"
  /\ ActivateFlag => VMState = "VM_IDLE"

\* "Assert that we have an active program" (c_cmd.c:1522): its file is open as
\* long as instructions may be read from it, and no longer than until the reset,
\* whatever remote commands, buttons, errors and the user interface do; and the
\* buttons are the user's again as soon as there is no program to abort.
ProgramHeld ==
  /\ VMState \in Run => ActiveProgHandle /\ "DISABLE" \in Flags
  /\ VMState \in {"VM_IDLE", "VM_RESET2"} => ~ActiveProgHandle /\ "DISABLE" \notin Flags

Life == INSTANCE ProgramLife
          WITH status <- ProgStatus, running <- VMState \in Run, unattended <- abandoned

\* Every program's end is published once and kept until the user interface has
\* seen it, and outputs stop before the next program can start; only a program
\* that runs unattended can be said to be reset while it runs.
ImplementsLife == Life!LifeSpec

\* "If UI is done displaying ending program status, move on" (c_cmd.c:1692): a
\* program that ends is followed by an idle machine, or the brick is turned off,
\* unless the user interface was taken from the function that waits for it.
EndedBecomesIdle ==
  VMState = "VM_RESET1" ~> (VMState = "VM_IDLE" \/ turn = "halt" \/ abandoned)

\* "wait for UI to put us into PROG_RESET" (c_cmd.c:1642): it always does.
UiPutsIntoReset ==
  VMState = "VM_RESET1" ~> (VMState = "VM_IDLE" \/ turn = "halt")

\* "PROG_RUNNING: Program currently running" (c_cmd.iom.h:159).
RunningIsPublished == VMState \in Run => ProgStatus = "RUNNING"

\* "UI busy running or datalogging (popup disabled)" (c_ui.iom.h:64): not in a
\* menu that runs nothing, where requests would wait for ever.
BusyRunning == "BUSY" \in Flags => State # "menu" \/ Function # "none"

\* "DeactivateFlag: Set this flag to notify cCmdCtrl to deactivate current
\* program" (c_cmd.iom.h:198), not the next one.
StopsCurrentProgram == DeactivateFlag => stopFor = "this"
=============================================================================
