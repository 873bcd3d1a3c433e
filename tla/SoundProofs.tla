---------------------------- MODULE SoundProofs ----------------------------
(***************************************************************************)
(* Proofs about Sound, for files of any length.                            *)
(***************************************************************************)
EXTENDS Sound, TLAPS

\* Between ticks: what is heard has the flag; and unless a program has forced the
\* state, without the flag nothing goes on, and a tone is played with the slot
\* closed.
Quiet(s) ==
  /\ s.heard => "SOUND_RUNNING" \in s.Flags
  /\ \/ s.forced
     \/ /\ "SOUND_RUNNING" \notin s.Flags =>
             s.State \in {"SOUND_IDLE", "SOUND_STOP"} /\ ~s.open
        /\ s.State = "SOUND_FREQ" => ~s.open

\* The same within a tick, where the flag of what is started is not set yet.
Started(s) ==
  /\ s.State \in {"SOUND_IDLE", "other"} => Quiet(s)
  /\ s.State = "SOUND_FREQ" => s.forced \/ ~s.open

\* Of the program's sounds none is played, and none is asked for.
Over(s) ==
  /\ s.source = "program" => s.State \in {"SOUND_IDLE", "SOUND_STOP"}
  /\ s.asked = "program" => "SOUND_UPDATE" \notin s.Flags

IInv ==
  /\ TypeOK
  /\ Quiet(snd)
  /\ vm \in {"VM_RESET2", "VM_IDLE"} => Over(snd)
  /\ turn = "Cmd" /\ vm # "VM_RUN_FREE" => "SOUND_UPDATE" \notin snd.Flags

-----------------------------------------------------------------------------
(* The tick.                                                               *)

\* The fields of the module's state have their types.
LEMMA Fields ==
  ASSUME NEW s \in SoundType
  PROVE  /\ s.Flags \in SUBSET SOUND_FLAG
         /\ s.State \in SOUND_STATE
         /\ s.Mode \in SUBSET {"SOUND_LOOP", "SOUND_TONE"}
         /\ s.asked \in Client \cup {Nobody} /\ s.source \in Client \cup {Nobody}
         /\ s.open \in BOOLEAN /\ s.left \in 0 .. Blocks /\ s.heard \in BOOLEAN
         /\ s.forced \in BOOLEAN
BY DEF SoundType

\* A slot that is closed keeps a block at most.
LEMMA ClosedKeeps ==
  ASSUME NEW s \in SoundType
  PROVE  /\ Closed(s) \in SoundType /\ ~Closed(s).open
         /\ Closed(s).Flags = s.Flags /\ Closed(s).asked = s.asked /\ Closed(s).source = s.source
<1>1. (IF s.left > 1 THEN 1 ELSE s.left) \in 0 .. Blocks
  BY BlocksAssumption, Fields
<1> QED BY <1>1 DEF Closed, SoundType

\* Between ticks all that Started says of a moment within one holds as well.
LEMMA QuietStarted ==
  ASSUME NEW s, Quiet(s)
  PROVE  Started(s)
BY Zenon DEF Quiet, Started

\* What a request is started with: no request is left, and only one that is the
\* program's own makes a sound the program's.
LEMMA HandleIomapKeeps ==
  ASSUME NEW s \in SoundType, Quiet(s), NEW t \in HandleIomap(s)
  PROVE  /\ t \in SoundType /\ Started(t)
         /\ "SOUND_UPDATE" \notin t.Flags
         /\ Over(s) => Over(t)
<1> DEFINE u == [s EXCEPT !.Flags = @ \ {"SOUND_UPDATE"}]
<1>1. CASE "SOUND_UPDATE" \notin s.Flags
  <2>1. t = s
    BY <1>1 DEF HandleIomap
  <2> QED BY <1>1, <2>1, QuietStarted
<1>2. CASE "SOUND_UPDATE" \in s.Flags
  <2>1. /\ u \in SoundType /\ Quiet(u)
        /\ "SOUND_UPDATE" \notin u.Flags
        /\ u.asked = s.asked /\ u.source = s.source /\ u.State = s.State
    BY DEF SoundType, Quiet
  <2>2. t \in StartTone(u) \/ t \in StartFile(u)
    BY <1>2 DEF HandleIomap
  <2> HIDE DEF u
  <2>3. CASE t \in StartTone(u)
    <3>1. PICK h \in BOOLEAN :
            t = [Closed(u) EXCEPT !.source = u.asked, !.State = "SOUND_FREQ", !.heard = h, !.forced = FALSE]
      BY <2>3 DEF StartTone
    <3> QED BY <1>2, <2>1, <3>1, ClosedKeeps DEF SoundType, SOUND_STATE, Started, Over
  <2>4. CASE t \in StartFile(u)
    <3>1. CASE t = u
      BY <2>1, <3>1, QuietStarted DEF Over
    <3>2. ASSUME NEW n \in {0, u.left},
                 t = [u EXCEPT !.Flags = @ \ {"SOUND_RUNNING"}, !.source = u.asked, !.open = TRUE,
                               !.forced = FALSE, !.State = "SOUND_STOP", !.left = n]
          PROVE  /\ t \in SoundType /\ Started(t)
                 /\ "SOUND_UPDATE" \notin t.Flags
                 /\ Over(s) => Over(t)
      <4>1. n \in 0 .. Blocks
        BY <2>1, <3>2, Fields, BlocksAssumption
      <4> QED BY <1>2, <2>1, <3>2, <4>1 DEF SoundType, SOUND_STATE, Started, Over
    <3>3. ASSUME NEW n \in 1 .. Blocks,
                 t = [u EXCEPT !.Flags = @ \ {"SOUND_RUNNING"}, !.source = u.asked, !.open = TRUE,
                               !.forced = FALSE, !.State = "SOUND_BUSY", !.left = n]
          PROVE  /\ t \in SoundType /\ Started(t)
                 /\ "SOUND_UPDATE" \notin t.Flags
                 /\ Over(s) => Over(t)
      <4>1. n \in 0 .. Blocks
        BY <3>3, BlocksAssumption
      <4> QED BY <1>2, <2>1, <3>3, <4>1 DEF SoundType, SOUND_STATE, Started, Over
    <3> QED BY <2>4, <3>1, <3>2, <3>3 DEF StartFile
  <2> QED BY <2>2, <2>3, <2>4
<1> QED BY <1>1, <1>2

\* A step of the playback of a file has the flag set, and plays on or stops.
LEMMA FilePlaybackKeeps ==
  ASSUME NEW s \in SoundType, s.State = "SOUND_BUSY", NEW t \in FilePlayback(s)
  PROVE  /\ t \in SoundType
         /\ t.State \in {"SOUND_BUSY", "SOUND_STOP"}
         /\ t.Flags = s.Flags \cup {"SOUND_RUNNING"}
         /\ t.source = s.source /\ t.asked = s.asked
<1> DEFINE r == [s EXCEPT !.Flags = @ \cup {"SOUND_RUNNING"}]
           Good(x) == /\ x \in SoundType
                      /\ x.State \in {"SOUND_BUSY", "SOUND_STOP"}
                      /\ x.Flags = s.Flags \cup {"SOUND_RUNNING"}
                      /\ x.source = s.source /\ x.asked = s.asked
<1>1. Good(r)
  BY DEF SoundType, SOUND_FLAG
<1>2. PICK x \in Sent(r) :
        t \in {[x EXCEPT !.State = "SOUND_STOP"]} \cup
                (IF x.left > 0 THEN {x} ELSE IF x.open THEN EndOfFile(x) ELSE {})
  BY DEF FilePlayback
<1> HIDE DEF r
<1>3. Good(x)
  <2>1. PICK n \in 0 .. r.left : x = [r EXCEPT !.left = n, !.heard = @ \/ n < r.left]
    BY DEF Sent
  <2>2. n \in 0 .. Blocks
    BY <1>1, <2>1, Fields, BlocksAssumption
  <2> QED BY <1>1, <2>1, <2>2 DEF SoundType
<1>4. Good([x EXCEPT !.State = "SOUND_STOP"])
  BY <1>3 DEF SoundType, SOUND_STATE
<1>5. \A n \in 1 .. Blocks : Good([x EXCEPT !.left = n])
  <2> TAKE n \in 1 .. Blocks
  <2>1. n \in 0 .. Blocks
    BY BlocksAssumption
  <2> QED BY <1>3, <2>1 DEF SoundType
<1>6. Good(t)
  <2>1. \/ t = [x EXCEPT !.State = "SOUND_STOP"]
        \/ t = x
        \/ \E n \in 1 .. Blocks : t = [x EXCEPT !.left = n]
    BY <1>2 DEF EndOfFile
  <2> HIDE DEF Good
  <2> QED BY <1>3, <1>4, <1>5, <2>1
<1> QED BY <1>6

\* A step of the module's state.
LEMMA StateUpdateKeeps ==
  ASSUME NEW s \in SoundType, Started(s), NEW t \in StateUpdate(s)
  PROVE  /\ t \in SoundType /\ Quiet(t)
         /\ "SOUND_UPDATE" \notin s.Flags => "SOUND_UPDATE" \notin t.Flags
         /\ Over(s) => Over(t)
<1>1. CASE s.State = "SOUND_BUSY"
  <2>1. t \in FilePlayback(s)
    BY <1>1 DEF StateUpdate
  <2> QED BY <1>1, <2>1, FilePlaybackKeeps DEF Quiet, Over
<1>2. CASE s.State = "SOUND_FREQ"
  <2>1. t \in TonePlayback(s)
    BY <1>2 DEF StateUpdate
  <2>2. CASE t = [s EXCEPT !.Flags = @ \cup {"SOUND_RUNNING"}]
    BY <1>2, <2>2 DEF SoundType, SOUND_FLAG, Quiet, Started, Over
  <2>3. ASSUME NEW h \in BOOLEAN,
               t = [s EXCEPT !.Flags = @ \cup {"SOUND_RUNNING"}, !.heard = h]
        PROVE  /\ t \in SoundType /\ Quiet(t)
               /\ "SOUND_UPDATE" \notin s.Flags => "SOUND_UPDATE" \notin t.Flags
               /\ Over(s) => Over(t)
    BY <1>2, <2>3 DEF SoundType, SOUND_FLAG, Quiet, Started, Over
  <2>4. CASE /\ ~s.heard
             /\ t = [s EXCEPT !.Flags = @ \ {"SOUND_RUNNING"}, !.State = "SOUND_IDLE"]
    BY <1>2, <2>4 DEF SoundType, SOUND_STATE, Quiet, Started, Over
  <2> QED BY <2>1, <2>2, <2>3, <2>4 DEF TonePlayback
<1>3. CASE s.State = "SOUND_STOP"
  <2>1. t = DoStop(s)
    BY <1>3 DEF StateUpdate
  <2> QED BY <2>1, ClosedKeeps DEF DoStop, SoundType, SOUND_STATE, Quiet, Over
<1>4. CASE s.State \in {"SOUND_IDLE", "other"}
  BY <1>4 DEF StateUpdate, Started
<1> QED BY <1>1, <1>2, <1>3, <1>4, Fields DEF SOUND_STATE

-----------------------------------------------------------------------------
(* The clients.                                                            *)

\* A request changes nothing that is going on.
LEMMA RequestKeeps ==
  ASSUME NEW client \in Client, NEW Mode \in SUBSET {"SOUND_LOOP", "SOUND_TONE"},
         TypeOK, Quiet(snd), Request(client, Mode)
  PROVE  /\ snd' \in SoundType /\ Quiet(snd')
         /\ client # "program" /\ Over(snd) => Over(snd')
BY DEF Request, TypeOK, SoundType, SOUND_FLAG, Quiet, Over

\* Neither does a stop before the next tick, but for the state itself.
LEMMA StopKeeps ==
  ASSUME TypeOK, Quiet(snd), Stop
  PROVE  /\ snd' \in SoundType /\ Quiet(snd')
         /\ snd'.Flags = snd.Flags
         /\ Over(snd) => Over(snd')
         /\ "SOUND_UPDATE" \notin snd.Flags => Over(snd')
BY DEF Stop, TypeOK, SoundType, SOUND_STATE, Quiet, Over

\* Nor does a state that a program sets, which the module is told of.
LEMMA SetStateKeeps ==
  ASSUME TypeOK, Quiet(snd), NEW State \in SOUND_STATE, NEW Flags \in SUBSET SOUND_FLAG,
         SetState(State, Flags)
  PROVE  snd' \in SoundType /\ Quiet(snd')
<1>1. snd'.forced = (snd.forced \/ State # "SOUND_STOP" \/ "SOUND_RUNNING" \in Flags)
  BY DEF SetState, TypeOK, SoundType
<1>2. /\ snd'.State = State /\ snd'.Flags = snd.Flags \cup Flags
      /\ snd'.heard = snd.heard /\ snd'.open = snd.open
  BY DEF SetState, TypeOK, SoundType
<1>3. snd' \in SoundType
  BY DEF SetState, TypeOK, SoundType, SOUND_FLAG, Client
<1> QED BY <1>1, <1>2, <1>3 DEF Quiet

-----------------------------------------------------------------------------
(* The invariant.                                                          *)

\* Nothing is played at first.
LEMMA InitIInv == Init => IInv
<1> SUFFICES ASSUME Init PROVE IInv
  OBVIOUS
<1>1. 0 \in 0 .. Blocks
  BY BlocksAssumption
<1>2. TypeOK
  BY <1>1 DEF Init, TypeOK, SoundType, SOUND_STATE
<1> QED BY <1>2, NobodyAssumption DEF Init, IInv, Quiet, Over, Client

\* Every action keeps the invariant.
LEMMA NextIInv == IInv /\ [Next]_vars => IInv'
<1> SUFFICES ASSUME IInv, [Next]_vars PROVE IInv'
  OBVIOUS
<1> USE DEF IInv
<1>0. /\ snd \in SoundType
      /\ turn \in {"Comm", "Sound", "Cmd", "Ui"}
      /\ vm \in {"VM_IDLE", "VM_RUN_FREE", "VM_RESET1", "VM_RESET2"}
  BY DEF TypeOK
<1>1. CASE RemoteCommand
  <2>1. CASE Stop
    BY <1>0, <1>1, <2>1, StopKeeps DEF RemoteCommand, TypeOK
  <2>2. ASSUME NEW Mode \in SUBSET {"SOUND_LOOP", "SOUND_TONE"}, Request("remote", Mode)
        PROVE  IInv'
    BY <1>0, <1>1, <2>2, RequestKeeps DEF RemoteCommand, TypeOK, Client
  <2> QED BY <1>1, <2>1, <2>2 DEF RemoteCommand
<1>2. CASE CommEnd
  BY <1>0, <1>2 DEF CommEnd, TypeOK
<1>3. CASE SoundTick
  <2>1. PICK s \in HandleIomap(snd) : snd' \in StateUpdate(s)
    BY <1>3 DEF SoundTick
  <2>2. /\ s \in SoundType /\ Started(s)
        /\ "SOUND_UPDATE" \notin s.Flags
        /\ Over(snd) => Over(s)
    BY <1>0, HandleIomapKeeps
  <2>3. /\ snd' \in SoundType /\ Quiet(snd')
        /\ "SOUND_UPDATE" \notin snd'.Flags
        /\ Over(snd) => Over(snd')
    BY <2>1, <2>2, StateUpdateKeeps
  <2> QED BY <1>0, <1>3, <2>3 DEF SoundTick, TypeOK
<1>4. CASE HalFinishes
  <2>1. snd' \in SoundType /\ Quiet(snd') /\ snd'.Flags = snd.Flags /\ (Over(snd) => Over(snd'))
    BY <1>0, <1>4 DEF HalFinishes, SoundType, Quiet, Over
  <2> QED BY <1>0, <1>4, <2>1 DEF HalFinishes, TypeOK
<1>5. CASE SystemCall
  <2>1. ASSUME NEW Mode \in SUBSET {"SOUND_LOOP", "SOUND_TONE"}, Request("program", Mode)
        PROVE  IInv'
    BY <1>0, <1>5, <2>1, RequestKeeps DEF SystemCall, TypeOK, Client
  <2> QED BY <1>5, <2>1 DEF SystemCall
<1>6. CASE cCmdCtrl
  <2>1. CASE vm = "VM_RESET1" /\ vm' = "VM_RESET2" /\ Stop
    BY <1>0, <1>6, <2>1, StopKeeps DEF cCmdCtrl, TypeOK
  <2>2. CASE /\ UNCHANGED snd
             /\ vm' \in {"VM_IDLE", "VM_RUN_FREE", "VM_RESET1", "VM_RESET2"}
             /\ vm' \in {"VM_RESET2", "VM_IDLE"} => vm \in {"VM_RESET2", "VM_IDLE"}
    BY <1>0, <1>6, <2>2 DEF cCmdCtrl, TypeOK
  <2> QED BY <1>6, <2>1, <2>2 DEF cCmdCtrl
<1>7. CASE cUiRequest
  <2>1. PICK Mode \in {{}, {"SOUND_TONE"}} : Request("ui", Mode)
    BY <1>7 DEF cUiRequest
  <2>2. Mode \in SUBSET {"SOUND_LOOP", "SOUND_TONE"}
    BY <2>1
  <2> QED BY <1>0, <1>7, <2>1, <2>2, RequestKeeps DEF cUiRequest, TypeOK, Client
<1>8. CASE cUiFileRunBreak
  <2>1. snd' \in SoundType /\ Quiet(snd') /\ Over(snd')
    BY <1>0, <1>8 DEF cUiFileRunBreak, SoundType, SOUND_STATE, Quiet, Over, Client
  <2> QED BY <1>0, <1>8, <2>1 DEF cUiFileRunBreak, TypeOK
<1>9. CASE cUiNothing
  BY <1>0, <1>9 DEF cUiNothing, TypeOK
<1>10. CASE UNCHANGED vars
  BY <1>0, <1>10 DEF vars, TypeOK
<1>11. CASE cCmdWrapSoundSetState
  <2>1. PICK State \in SOUND_STATE, Flags \in SUBSET SOUND_FLAG : SetState(State, Flags)
    BY <1>11 DEF cCmdWrapSoundSetState
  <2>2. snd' \in SoundType /\ Quiet(snd')
    BY <2>1, SetStateKeeps
  <2> QED BY <1>0, <1>11, <2>2 DEF cCmdWrapSoundSetState, TypeOK
<1> QED BY <1>1, <1>2, <1>3, <1>4, <1>5, <1>6, <1>7, <1>8, <1>9, <1>10, <1>11 DEF Next

\* The invariant holds throughout.
LEMMA Invariance == Spec => []IInv
BY InitIInv, NextIInv, PTL DEF Spec

(* The module's state, the round and the program's phase keep their types. *)
THEOREM TypeCorrect == Spec => []TypeOK
<1>1. IInv => TypeOK
  BY DEF IInv
<1> QED BY <1>1, Invariance, PTL

(* When the test in c_sound/iomap.h says that the sound has finished, the  *)
(* hardware is silent, and the module is at rest without a file unless a   *)
(* program has set another state than SOUND_STOP in the meantime.          *)
THEOREM Finished == Spec => []FinishedIsSilent
<1>1. IInv => FinishedIsSilent
  <2> SUFFICES ASSUME IInv, snd.Flags = {}
               PROVE  /\ ~snd.heard
                      /\ snd.forced \/ (snd.State \in {"SOUND_IDLE", "SOUND_STOP"} /\ ~snd.open)
    BY DEF FinishedIsSilent
  <2>1. "SOUND_RUNNING" \notin snd.Flags
    OBVIOUS
  <2> QED BY <2>1, Zenon DEF IInv, Quiet
<1> QED BY <1>1, Invariance, PTL

(* The end of a program (VM_RESET1) silences it for good.                  *)
THEOREM EndOfProgram == Spec => []ProgramEndsSilent
<1>1. IInv => ProgramEndsSilent
  BY DEF IInv, Over, ProgramEndsSilent
<1> QED BY <1>1, Invariance, PTL
=============================================================================
