------------------------------- MODULE Sound -------------------------------
(***************************************************************************)
(* The sound module c_sound/main.c and those that use it through its IO    *)
(* map, in the order in which m_sched calls them in a round: remote        *)
(* commands (Comm), the module itself (Sound), the virtual machine (Cmd)   *)
(* and the user interface (Ui).                                            *)
(*                                                                         *)
(* A sound is known by who has asked for it.  A file is a number of blocks *)
(* that are still to be sent to the hardware layer, which is not in the    *)
(* repository: it takes a block, or has no room, or fails; and it tells    *)
(* whether it has finished.                                                *)
(***************************************************************************)
EXTENDS Naturals

CONSTANTS Blocks,  \* blocks of the longest file
          Nobody   \* who is not one of the clients

Client == {"remote", "program", "ui"}

ASSUME BlocksAssumption == Blocks \in Nat
ASSUME NobodyAssumption == Nobody \notin Client

VARIABLES
  snd,   \* IOMapSound and VarsSound
  turn,  \* whose turn it is in the round
  vm     \* IOMapCmd's and VarsCmd's state of the running program

vars == <<snd, turn, vm>>

\* The states that the module knows, and any other value of the byte.
SOUND_STATE == {"SOUND_IDLE", "SOUND_BUSY", "SOUND_FREQ", "SOUND_STOP", "other"}
SOUND_FLAG == {"SOUND_UPDATE", "SOUND_RUNNING"}

\* Mode is the set of its bits: SOUND_ONCE is none of them.
SoundType ==
  [Flags  : SUBSET SOUND_FLAG,
   State  : SOUND_STATE,
   Mode   : SUBSET {"SOUND_LOOP", "SOUND_TONE"},
   asked  : Client \cup {Nobody},  \* who has filled in the IO map
   source : Client \cup {Nobody},  \* who has asked for what is played
   open   : BOOLEAN,               \* the slot holds the handle of a file
   left   : 0 .. Blocks,           \* blocks in the buffer or to be read, and not sent yet
   heard  : BOOLEAN,               \* ~Hal_Sound_IsFinished
   forced : BOOLEAN]               \* history: a program has set the state or the flag
                                   \* of running since the last start or stop

Init ==
  /\ snd = [Flags |-> {}, State |-> "SOUND_IDLE", Mode |-> {}, asked |-> Nobody,
            source |-> Nobody, open |-> FALSE, left |-> 0, heard |-> FALSE, forced |-> FALSE]
  /\ turn = "Comm"
  /\ vm = "VM_IDLE"

-----------------------------------------------------------------------------
(***************************************************************************)
(* A tick of the module.  Each operator is the set of what may become of   *)
(* the module's state s.                                                   *)
(***************************************************************************)

\* sndfile_close.  A block that has not been sent stays in the buffer.
Closed(s) == [s EXCEPT !.open = FALSE, !.left = IF @ > 1 THEN 1 ELSE @]

\* sound_start_tone.  A tone may be too short to be heard.
StartTone(s) ==
  {[Closed(s) EXCEPT !.source = s.asked, !.State = "SOUND_FREQ", !.heard = h, !.forced = FALSE] :
     h \in BOOLEAN}

\* sound_start_file.  A file that cannot be opened changes nothing; one of which
\* nothing can be read has the module stop.
StartFile(s) ==
  LET opened == [s EXCEPT !.Flags = @ \ {"SOUND_RUNNING"}, !.source = s.asked, !.open = TRUE,
                          !.forced = FALSE]
  IN {s} \cup
     {[opened EXCEPT !.State = "SOUND_STOP", !.left = n] : n \in {0, s.left}} \cup
     {[opened EXCEPT !.State = "SOUND_BUSY", !.left = n] : n \in 1 .. Blocks}

HandleIomap(s) ==
  LET t == [s EXCEPT !.Flags = @ \ {"SOUND_UPDATE"}]
  IN IF "SOUND_UPDATE" \notin s.Flags THEN {s}
     ELSE IF "SOUND_TONE" \in s.Mode THEN StartTone(t)
     ELSE StartFile(t)

\* What can be sent is sent: until the hardware has no room, or all of the file.
\* Hardware that is silent has room.
Sent(s) ==
  {[s EXCEPT !.left = n, !.heard = @ \/ n < s.left] :
     n \in {n \in 0 .. s.left : ~s.heard /\ s.left > 0 => n < s.left}}

\* A fault: at the end of a file nobody looks whether the hardware has finished.
EndOfFileSilently(s) ==
  IF s.Mode = {"SOUND_LOOP"} THEN {[s EXCEPT !.left = n] : n \in 1 .. Blocks}
  ELSE {s}

\* The file has been read to its end.
EndOfFile(s) ==
  IF s.Mode = {"SOUND_LOOP"}
  THEN {[s EXCEPT !.State = "SOUND_STOP"]} \cup {[s EXCEPT !.left = n] : n \in 1 .. Blocks}
  ELSE IF s.heard THEN {s}
  ELSE {[s EXCEPT !.State = "SOUND_STOP"]}

\* sound_do_file_playback.  Errors of the file and of the hardware stop it, and
\* it is an error to read from a file that is not open.
FilePlayback(s) ==
  LET running == [s EXCEPT !.Flags = @ \cup {"SOUND_RUNNING"}]
      GoesOn(t) == IF t.left > 0 THEN {t} ELSE IF t.open THEN EndOfFile(t) ELSE {}
  IN UNION {{[t EXCEPT !.State = "SOUND_STOP"]} \cup GoesOn(t) : t \in Sent(running)}

\* A fault: the flag is not set while a tone is played.
TonePlaybackUnflagged(s) ==
  IF s.heard THEN {s}
  ELSE IF "SOUND_LOOP" \in s.Mode THEN {[s EXCEPT !.heard = h] : h \in BOOLEAN}
  ELSE {[s EXCEPT !.Flags = @ \ {"SOUND_RUNNING"}, !.State = "SOUND_IDLE"]}

\* sound_do_tone_playback
TonePlayback(s) ==
  LET running == [s EXCEPT !.Flags = @ \cup {"SOUND_RUNNING"}]
  IN IF s.heard THEN {running}
     ELSE IF "SOUND_LOOP" \in s.Mode THEN {[running EXCEPT !.heard = h] : h \in BOOLEAN}
     ELSE {[s EXCEPT !.Flags = @ \ {"SOUND_RUNNING"}, !.State = "SOUND_IDLE"]}

\* sound_do_stop
DoStop(s) ==
  [Closed(s) EXCEPT !.heard = FALSE, !.Flags = @ \ {"SOUND_RUNNING"}, !.State = "SOUND_IDLE",
                    !.forced = FALSE]

StateUpdate(s) ==
  CASE s.State = "SOUND_BUSY" -> FilePlayback(s)
    [] s.State = "SOUND_FREQ" -> TonePlayback(s)
    [] s.State = "SOUND_STOP" -> {DoStop(s)}
    [] OTHER -> {s}

SoundTick ==
  /\ turn = "Sound" /\ turn' = "Cmd"
  /\ \E s \in HandleIomap(snd) : snd' \in StateUpdate(s)
  /\ UNCHANGED vm

\* The hardware comes to the end of what it was sent.
HalFinishes ==
  /\ snd.heard
  /\ snd' = [snd EXCEPT !.heard = FALSE]
  /\ UNCHANGED <<turn, vm>>

-----------------------------------------------------------------------------
(***************************************************************************)
(* The clients.                                                            *)
(***************************************************************************)

Request(client, Mode) ==
  snd' = [snd EXCEPT !.Flags = @ \cup {"SOUND_UPDATE"}, !.Mode = Mode, !.asked = client]

Stop == snd' = [snd EXCEPT !.State = "SOUND_STOP"]

\* RC_PLAY_SOUND, RC_PLAY_TONE and RC_STOP_SOUND, of which there may be several
\* in a round, from the USB and the Bluetooth side.
RemoteCommand ==
  /\ turn = "Comm"
  /\ (\E Mode \in {{}, {"SOUND_LOOP"}, {"SOUND_TONE"}} : Request("remote", Mode)) \/ Stop
  /\ UNCHANGED <<turn, vm>>

CommEnd == turn = "Comm" /\ turn' = "Sound" /\ UNCHANGED <<snd, vm>>

\* cCmdWrapSoundPlayFile and cCmdWrapSoundPlayTone: any number of calls in a time
\* slice.
SystemCall ==
  /\ turn = "Cmd" /\ vm = "VM_RUN_FREE"
  /\ \E Mode \in SUBSET {"SOUND_LOOP", "SOUND_TONE"} : Request("program", Mode)
  /\ UNCHANGED <<turn, vm>>

\* The program sets the state to any value and adds any flags, whatever the module
\* is doing: what is then played, or started again, is the program's.
SetState(State, Flags) ==
  snd' = [snd EXCEPT !.State = State, !.Flags = @ \cup Flags,
                     !.asked = IF "SOUND_UPDATE" \in Flags THEN "program" ELSE @,
                     !.source = IF State \in {"SOUND_BUSY", "SOUND_FREQ"} THEN "program" ELSE @,
                     !.forced = @ \/ State # "SOUND_STOP" \/ "SOUND_RUNNING" \in Flags]

cCmdWrapSoundSetState ==
  /\ turn = "Cmd" /\ vm = "VM_RUN_FREE"
  /\ \E State \in SOUND_STATE, Flags \in SUBSET SOUND_FLAG : SetState(State, Flags)
  /\ UNCHANGED <<turn, vm>>

\* A fault: a program that ends is cleaned up after in the same round.
cCmdCtrlAtOnce ==
  /\ turn = "Cmd" /\ turn' = "Ui"
  /\ \/ /\ vm = "VM_IDLE" /\ vm' \in {"VM_IDLE", "VM_RUN_FREE"}
        /\ UNCHANGED snd
     \/ /\ vm = "VM_RUN_FREE" /\ vm' = "VM_RUN_FREE"
        /\ UNCHANGED snd
     \/ /\ vm = "VM_RUN_FREE" /\ vm' = "VM_RESET2"
        /\ Stop
     \/ /\ vm = "VM_RESET2" /\ vm' \in {"VM_RESET2", "VM_IDLE"}
        /\ UNCHANGED snd

\* A program is started, ends or is aborted; in the round after that the sound is
\* stopped.  VM_RUN_FREE stands for all states in which there is a program.
cCmdCtrl ==
  /\ turn = "Cmd" /\ turn' = "Ui"
  /\ \/ /\ vm = "VM_IDLE" /\ vm' \in {"VM_IDLE", "VM_RUN_FREE"}
        /\ UNCHANGED snd
     \/ /\ vm = "VM_RUN_FREE" /\ vm' \in {"VM_RUN_FREE", "VM_RESET1"}
        /\ UNCHANGED snd
     \/ /\ vm = "VM_RESET1" /\ vm' = "VM_RESET2"
        /\ Stop
     \/ /\ vm = "VM_RESET2" /\ vm' \in {"VM_RESET2", "VM_IDLE"}
        /\ UNCHANGED snd

\* Key clicks, files that are played from the menu, the sound of the intro and of
\* Bluetooth requests, and the tone of a low battery.
cUiRequest ==
  /\ turn = "Ui" /\ turn' = "Comm"
  /\ \E Mode \in {{}, {"SOUND_TONE"}} : Request("ui", Mode)
  /\ UNCHANGED vm

\* The user breaks a file that is played from the menu: the request for the key
\* click is taken back.
cUiFileRunBreak ==
  /\ turn = "Ui" /\ turn' = "Comm"
  /\ snd' = [snd EXCEPT !.Flags = @ \ {"SOUND_UPDATE"}, !.State = "SOUND_STOP", !.asked = "ui", !.Mode = {}]
  /\ UNCHANGED vm

cUiNothing == turn = "Ui" /\ turn' = "Comm" /\ UNCHANGED <<snd, vm>>

Next ==
  \/ RemoteCommand \/ CommEnd
  \/ SoundTick \/ HalFinishes
  \/ SystemCall \/ cCmdWrapSoundSetState \/ cCmdCtrl
  \/ cUiRequest \/ cUiFileRunBreak \/ cUiNothing

\* Rounds follow one another, and the hardware does not play for ever.
Spec ==
  /\ Init /\ [][Next]_vars
  /\ WF_vars(CommEnd) /\ WF_vars(SoundTick) /\ WF_vars(cCmdCtrl)
  /\ WF_vars(cUiRequest \/ cUiFileRunBreak \/ cUiNothing)
  /\ WF_vars(HalFinishes)

-----------------------------------------------------------------------------
TypeOK ==
  /\ snd \in SoundType
  /\ turn \in {"Comm", "Sound", "Cmd", "Ui"}
  /\ vm \in {"VM_IDLE", "VM_RUN_FREE", "VM_RESET1", "VM_RESET2"}

\* "Test for sound finished  if (!(pMapSound->Flags & (SOUND_RUNNING | SOUND_UPDATE)))"
\* (c_sound/iomap.h:54): when the test says so, whoever asks, whatever has failed
\* and whatever states programs have set, the hardware is silent; and the module
\* is at rest and holds no file, unless a program has set another state than
\* SOUND_STOP since the module last started or stopped a sound.
FinishedIsSilent ==
  snd.Flags = {} =>
    /\ ~snd.heard
    /\ snd.forced \/ (snd.State \in {"SOUND_IDLE", "SOUND_STOP"} /\ ~snd.open)

\* The same without the exception: SoundSetState(SOUND_FREQ) while a file plays
\* refutes it, for the end of a tone does not close a file.
FinishedIsClosed == snd.Flags = {} => ~snd.open

\* "Stop any currently playing sound" (c_cmd.c:1669): once a program's end has
\* been dealt with, no sound that it has asked for is played or will be, also when
\* the request was its last instruction.
ProgramEndsSilent ==
  vm \in {"VM_RESET2", "VM_IDLE"} =>
    /\ snd.source = "program" => snd.State \in {"SOUND_IDLE", "SOUND_STOP"}
    /\ snd.asked = "program" => "SOUND_UPDATE" \notin snd.Flags

\* The user interface waits for SOUND_IDLE before it goes on (Functions.inl.h:2164,
\* 2587): when nothing new is asked for and nothing is repeated, the sound ends,
\* unless a program sets states for ever or leaves one that is none of the
\* module's.
SoundEnds ==
  <>[]("SOUND_UPDATE" \notin snd.Flags /\ "SOUND_LOOP" \notin snd.Mode) =>
    \/ []<>(snd.State \in {"SOUND_IDLE", "other"})
    \/ []<><<cCmdWrapSoundSetState>>_vars
=============================================================================
