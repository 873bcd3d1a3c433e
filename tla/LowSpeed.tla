------------------------------ MODULE LowSpeed ------------------------------
(***************************************************************************)
(* The four I2C ports: the controller c_lowspeed.c, one step of a port's   *)
(* state machine per round, and those that request transactions from it    *)
(* through the IO map: the running program (system calls), remote commands *)
(* and the sampling of sensors by the user interface (cUiUpdateSensor).    *)
(*                                                                         *)
(* A response is put into a ring of SIZE_OF_LSBUF bytes, from which it is  *)
(* read; what the bytes are does not matter here, nor does what is sent.   *)
(* Sensors are plugged in and out, and ports set to other types, at any    *)
(* time, so that each check of them may go either way; and the device      *)
(* answers to each call what it likes.                                     *)
(***************************************************************************)
EXTENDS Naturals

CONSTANTS Port, SIZE_OF_LSBUF, LOWSPEED_RX_TIMEOUT,
          Samplings   \* the sets of ports that the user has sampled

ASSUME SizeAssumption == SIZE_OF_LSBUF \in Nat \ {0}
ASSUME TimeoutAssumption == LOWSPEED_RX_TIMEOUT \in Nat
ASSUME SamplingsAssumption == Samplings \subseteq SUBSET Port

VARIABLES
  channel,      \* per port: what the IO map and VarsLowSpeed hold of it
  running,      \* a program runs and may make system calls
  viewed,       \* the ports that the user interface samples
  SensorState,  \* its step in sampling them
  undisturbed   \* history: ports whose last request found the ring empty, was
                \* made by the program or remotely, and has not been read since

vars == <<channel, running, viewed, SensorState, undisturbed>>

\* Mode is not here: it only tells the first COMMUNICATING step from the next.
Channel ==
  [ChannelState : {"IDLE", "INIT", "LOAD_BUFFER", "COMMUNICATING", "ERROR", "DONE"},
   Active       : BOOLEAN,                       \* its bit of IOMapLowSpeed.Active
   Fast         : BOOLEAN,                       \* its bit of FastMask
   RxTimeCnt    : 0 .. LOWSPEED_RX_TIMEOUT,
   BytesToRx    : 0 .. SIZE_OF_LSBUF,
   InPtr        : 0 .. SIZE_OF_LSBUF - 1,
   OutPtr       : 0 .. SIZE_OF_LSBUF - 1]

Init ==
  /\ channel = [p \in Port |-> [ChannelState |-> "IDLE", Active |-> FALSE, Fast |-> FALSE,
                                RxTimeCnt |-> 0, BytesToRx |-> 0, InPtr |-> 0, OutPtr |-> 0]]
  /\ running = FALSE
  /\ viewed = {} /\ SensorState = "SETUP"
  /\ undisturbed = {}

\* The position n bytes further in the ring.
Further(ptr, n) == IF ptr + n >= SIZE_OF_LSBUF THEN ptr + n - SIZE_OF_LSBUF ELSE ptr + n

-----------------------------------------------------------------------------
(***************************************************************************)
(* The controller.  Each operator is the set of what a step may make of a  *)
(* channel c.                                                              *)
(***************************************************************************)

\* The count of rounds starts anew with each transaction.
In(c, state) == [c EXCEPT !.ChannelState = state, !.RxTimeCnt = 0]

\* cLowSpeedCompleteRead: the response is copied behind what is in the ring.
CompleteRead(c) == [c EXCEPT !.InPtr = Further(@, c.BytesToRx)]

Finished(c, bDone) ==
  [c EXCEPT !.Active = FALSE, !.ChannelState = IF bDone THEN "IDLE" ELSE @]

\* The whole transaction in one call, which polls until the device has answered.
\* No device, a device that is busy, and an error in writing or in reading fail.
FastI2C(c) == {Finished(c, FALSE), Finished(CompleteRead(c), TRUE)}

Initiate(c) ==
  {In(c, "ERROR")} \cup (IF c.Fast THEN FastI2C(c) ELSE {In(c, "LOAD_BUFFER")})

\* Start writing.
LoadBuffer(c) == {In(c, "ERROR"), In(c, "COMMUNICATING")}

\* A fault: nobody counts the rounds.
CommunicatePatiently(c) ==
  {In(c, "ERROR")} \cup
  (IF c.BytesToRx = 0 THEN {In(c, "DONE")} ELSE {In(CompleteRead(c), "DONE"), c})

\* Nothing to read: done.  Else count, cancel if it takes too long, and poll; an
\* answer that comes with the timeout is still taken.
Communicate(c) ==
  {In(c, "ERROR")} \cup
  (IF c.BytesToRx = 0 THEN {In(c, "DONE")}
   ELSE {In(CompleteRead(c), "DONE")} \cup
        (IF c.RxTimeCnt + 1 > LOWSPEED_RX_TIMEOUT THEN {}
         ELSE {[c EXCEPT !.RxTimeCnt = @ + 1]}))

Step(c) ==
  CASE c.ChannelState = "IDLE"          -> {c}
    [] c.ChannelState = "INIT"          -> Initiate(c)
    [] c.ChannelState = "LOAD_BUFFER"   -> LoadBuffer(c)
    [] c.ChannelState = "COMMUNICATING" -> Communicate(c)
    [] c.ChannelState = "ERROR"         -> {Finished(c, FALSE)}
    [] c.ChannelState = "DONE"          -> {Finished(c, TRUE)}

\* A round: nothing is done if no port is active, else all ports take a step.
cLowSpeedCtrl ==
  /\ \E p \in Port : channel[p].Active
  /\ channel' \in {next \in [Port -> UNION {Step(channel[p]) : p \in Port}] :
                     \A p \in Port : next[p] \in Step(channel[p])}
  /\ UNCHANGED <<running, viewed, SensorState, undisturbed>>

-----------------------------------------------------------------------------
(***************************************************************************)
(* Programs and remote commands.                                           *)
(***************************************************************************)

Requested(c, fast, ResponseLength) ==
  [In(c, "INIT") EXCEPT !.Active = TRUE, !.Fast = fast, !.BytesToRx = ResponseLength]

\* Accepted when the port is of the right type and nothing is pending.
cCmdLSWrite(p, fast, ResponseLength) ==
  /\ channel[p].ChannelState \in {"IDLE", "ERROR"}
  /\ undisturbed' = IF channel[p].InPtr = channel[p].OutPtr
                    THEN undisturbed \cup {p} ELSE undisturbed \ {p}
  /\ UNCHANGED <<running, viewed, SensorState>>

RC_LS_WRITE(p) ==
  \E fast \in BOOLEAN, n \in 0 .. SIZE_OF_LSBUF :
    /\ cCmdLSWrite(p, fast, n)
    /\ channel' = [channel EXCEPT ![p] = Requested(@, fast, n)]

\* A program's fast transaction is made at once.
CommLSWrite(p) ==
  /\ running
  /\ \E fast \in BOOLEAN, n \in 0 .. SIZE_OF_LSBUF :
       /\ cCmdLSWrite(p, fast, n)
       /\ \E c \in (IF fast THEN FastI2C(Requested(channel[p], TRUE, n))
                            ELSE {Requested(channel[p], FALSE, n)}) :
            channel' = [channel EXCEPT ![p] = c]

\* A fault: a plain difference.
BytesReadyDifference(c) ==
  IF c.InPtr < c.OutPtr THEN c.InPtr + (SIZE_OF_LSBUF - c.OutPtr) ELSE c.InPtr - c.OutPtr

\* When the positions are the same the ring is empty, or full of a response as
\* long as the ring.
BytesReady(c) ==
  IF c.InPtr < c.OutPtr THEN c.InPtr + (SIZE_OF_LSBUF - c.OutPtr)
  ELSE IF c.InPtr = c.OutPtr /\ c.BytesToRx = SIZE_OF_LSBUF /\ c.ChannelState = "IDLE"
       THEN SIZE_OF_LSBUF
       ELSE c.InPtr - c.OutPtr

\* n bytes are taken out of the ring.
Taken(c, n) == [c EXCEPT !.OutPtr = Further(@, n)]

\* Remote commands read all that is ready, programs what they have asked for.
cCmdLSRead(p) ==
  /\ channel[p].ChannelState # "ERROR"
  /\ \E n \in 1 .. BytesReady(channel[p]) :
       /\ running \/ n = BytesReady(channel[p])
       /\ channel' = [channel EXCEPT ![p] = Taken(@, n)]
  /\ undisturbed' = undisturbed \ {p}
  /\ UNCHANGED <<running, viewed, SensorState>>

\* A fault: the channels are marked done, and nobody is told.
ResetDevicesQuietly(p) ==
  [In(channel[p], IF channel[p].ChannelState = "IDLE" THEN "IDLE" ELSE "DONE")
     EXCEPT !.BytesToRx = 0, !.InPtr = 0, !.OutPtr = 0]

\* cCmdResetDevices marks a channel done, whatever its device is about.
ResetDevices(p) ==
  [In(channel[p], IF channel[p].ChannelState = "IDLE" THEN "IDLE" ELSE "DONE")
     EXCEPT !.BytesToRx = 0, !.InPtr = 0, !.OutPtr = 0,
            !.Active = @ \/ channel[p].ChannelState # "IDLE"]

\* A program starts, which UI_BUSY prevents during sampling, or it ends.
StartOrEnd ==
  /\ viewed = {}
  /\ running' = ~running
  /\ channel' = [p \in Port |-> ResetDevices(p)]
  /\ undisturbed' = {}
  /\ UNCHANGED <<viewed, SensorState>>

-----------------------------------------------------------------------------
(***************************************************************************)
(* The sampling of sensors by the user interface, which requests           *)
(* transactions whether one is pending or not.                             *)
(***************************************************************************)

View ==
  /\ ~running /\ viewed = {}
  /\ viewed' \in Samplings
  /\ UNCHANGED <<channel, running, SensorState, undisturbed>>

\* cUiReleaseSensors
Leave == /\ viewed' = {} /\ SensorState' = "SETUP"
         /\ UNCHANGED <<channel, running, undisturbed>>

\* FastMask is left as it is.
cUiWriteLowspeed(RxBytes) ==
  /\ channel' = [p \in Port |-> IF p \in viewed THEN Requested(channel[p], channel[p].Fast, RxBytes)
                                                ELSE channel[p]]
  /\ undisturbed' = undisturbed \ viewed

\* The response is read if the channel says so, whoever has requested it last.
cUiReadLowspeed(RxBytes) ==
  /\ channel' = [p \in Port |-> IF p \in viewed /\ channel[p].ChannelState \in {"IDLE", "DONE"}
                                THEN Taken(channel[p], RxBytes)
                                ELSE channel[p]]
  /\ undisturbed' = undisturbed \ viewed

\* One sensor answers with one byte, the other with two.
cUiUpdateSensor ==
  /\ viewed # {}
  /\ \/ SensorState = "SETUP" /\ SensorState' = "ACQUIRE"
        /\ (cUiWriteLowspeed(0) \/ UNCHANGED <<channel, undisturbed>>)
     \/ \E n \in 1 .. 2 :
          /\ n <= SIZE_OF_LSBUF
          /\ \/ SensorState = "ACQUIRE" /\ SensorState' = "READ" /\ cUiWriteLowspeed(n)
             \/ SensorState = "READ" /\ SensorState' = "SETUP" /\ cUiReadLowspeed(n)
  /\ UNCHANGED <<running, viewed>>

Next ==
  \/ cLowSpeedCtrl
  \/ \E p \in Port : RC_LS_WRITE(p) \/ CommLSWrite(p) \/ cCmdLSRead(p)
  \/ StartOrEnd
  \/ View \/ Leave \/ cUiUpdateSensor

\* The controller is called every round.
Spec == Init /\ [][Next]_vars /\ WF_vars(cLowSpeedCtrl)

-----------------------------------------------------------------------------
TypeOK ==
  /\ channel \in [Port -> Channel]
  /\ running \in BOOLEAN
  /\ viewed \subseteq Port /\ SensorState \in {"SETUP", "ACQUIRE", "READ"}
  /\ undisturbed \subseteq Port

\* cLowSpeedCtrl returns at once when Active is 0 (c_lowspeed.c:148), and every
\* port clears its own bit: no transaction is left half-way with its bit cleared,
\* however requests, resets of devices and other ports come in between.
ActiveWhilePending ==
  \A p \in Port :
    channel[p].ChannelState \in {"LOAD_BUFFER", "COMMUNICATING", "DONE"} => channel[p].Active

\* "true number of bytes available" (c_cmd.c:7818): after a request into an empty
\* ring a program sees either nothing or all of the response, also when that
\* fills the ring, and nothing when the transaction has failed.
ResponseReady ==
  \A p \in undisturbed :
    CASE channel[p].ChannelState = "IDLE" -> BytesReady(channel[p]) = channel[p].BytesToRx
      [] channel[p].ChannelState = "DONE" ->
           BytesReady(channel[p]) \in {channel[p].BytesToRx, 0}
      [] OTHER -> BytesReady(channel[p]) = 0

\* RxTimeCnt (c_lowspeed.c:228-233): a transaction that has been started ends,
\* also when its device does not answer.
Completes ==
  \A p \in Port :
    channel[p].ChannelState \in {"LOAD_BUFFER", "COMMUNICATING", "DONE"}
      ~> channel[p].ChannelState \in {"IDLE", "ERROR", "INIT"}

\* "STAT_COMM_PENDING,  //LOWSPEED_INIT" (c_cmd.c:7787): a program that is told
\* that its transaction is pending may wait for it: the controller works on it.
PendingIsActive ==
  \A p \in Port : channel[p].ChannelState = "INIT" => channel[p].Active
=============================================================================
