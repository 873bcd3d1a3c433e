--------------------------- MODULE LowSpeedProofs ---------------------------
(***************************************************************************)
(* Proofs about LowSpeed, for any number of ports, any size of the ring    *)
(* and any timeout.  All three invariants are about one channel at a time, *)
(* so the lemmas say what a step of the controller, a request, a read and  *)
(* a reset make of one channel.                                            *)
(***************************************************************************)
EXTENDS LowSpeed, TLAPS

States == {"IDLE", "INIT", "LOAD_BUFFER", "COMMUNICATING", "ERROR", "DONE"}

\* A transaction that is under way has its bit in Active; one that has not been
\* started has lost its bit only if it was a fast one, which is not started later.
Working(c) ==
  /\ c.ChannelState \in {"LOAD_BUFFER", "COMMUNICATING", "DONE"} => c.Active
  /\ c.ChannelState = "INIT" => c.Active \/ c.Fast

\* The ring is empty until the response has come, and holds it from then on.
RingOf(c) == IF c.ChannelState \in {"IDLE", "DONE"}
             THEN c.InPtr = Further(c.OutPtr, c.BytesToRx)
             ELSE c.InPtr = c.OutPtr

IInv ==
  /\ TypeOK
  /\ \A p \in Port : Working(channel[p])
  /\ \A p \in undisturbed : RingOf(channel[p])

-----------------------------------------------------------------------------
(* Positions in the ring and single channels.                              *)

\* A position in the ring stays in the ring.
LEMMA FurtherType ==
  ASSUME NEW ptr \in 0 .. SIZE_OF_LSBUF - 1, NEW n \in 0 .. SIZE_OF_LSBUF
  PROVE  Further(ptr, n) \in 0 .. SIZE_OF_LSBUF - 1
BY SizeAssumption DEF Further

\* Nothing is added by a response of no bytes.
LEMMA FurtherNothing ==
  ASSUME NEW ptr \in 0 .. SIZE_OF_LSBUF - 1
  PROVE  Further(ptr, 0) = ptr
BY SizeAssumption DEF Further

\* The fields of a channel have their types.
LEMMA Fields ==
  ASSUME NEW c \in Channel
  PROVE  /\ c.ChannelState \in States
         /\ c.Active \in BOOLEAN /\ c.Fast \in BOOLEAN
         /\ c.RxTimeCnt \in 0 .. LOWSPEED_RX_TIMEOUT
         /\ c.BytesToRx \in 0 .. SIZE_OF_LSBUF
         /\ c.InPtr \in 0 .. SIZE_OF_LSBUF - 1
         /\ c.OutPtr \in 0 .. SIZE_OF_LSBUF - 1
BY DEF Channel, States

\* A change of state leaves a channel a channel, and changes nothing else that
\* the invariant looks at.
LEMMA InType ==
  ASSUME NEW c \in Channel, NEW s \in States
  PROVE  /\ In(c, s) \in Channel
         /\ In(c, s).ChannelState = s
         /\ In(c, s).Active = c.Active /\ In(c, s).Fast = c.Fast
         /\ In(c, s).BytesToRx = c.BytesToRx
         /\ In(c, s).InPtr = c.InPtr /\ In(c, s).OutPtr = c.OutPtr
<1>1. 0 \in 0 .. LOWSPEED_RX_TIMEOUT
  BY TimeoutAssumption
<1>2. In(c, s) = [c EXCEPT !.ChannelState = s, !.RxTimeCnt = 0]
  BY DEF In
<1> QED BY <1>1, <1>2 DEF Channel, States

\* A response moves InPtr and nothing else.
LEMMA CompleteReadType ==
  ASSUME NEW c \in Channel
  PROVE  /\ CompleteRead(c) \in Channel
         /\ CompleteRead(c).ChannelState = c.ChannelState
         /\ CompleteRead(c).Active = c.Active /\ CompleteRead(c).Fast = c.Fast
         /\ CompleteRead(c).BytesToRx = c.BytesToRx
         /\ CompleteRead(c).InPtr = Further(c.InPtr, c.BytesToRx)
         /\ CompleteRead(c).OutPtr = c.OutPtr
<1>1. Further(c.InPtr, c.BytesToRx) \in 0 .. SIZE_OF_LSBUF - 1
  BY Fields, FurtherType
<1> QED BY <1>1 DEF Channel, CompleteRead

\* The end of a transaction.
LEMMA FinishedType ==
  ASSUME NEW c \in Channel, NEW done \in BOOLEAN
  PROVE  /\ Finished(c, done) \in Channel
         /\ Finished(c, done).ChannelState = IF done THEN "IDLE" ELSE c.ChannelState
         /\ Finished(c, done).Active = FALSE /\ Finished(c, done).Fast = c.Fast
         /\ Finished(c, done).BytesToRx = c.BytesToRx
         /\ Finished(c, done).InPtr = c.InPtr /\ Finished(c, done).OutPtr = c.OutPtr
BY DEF Channel, Finished

\* A channel r with the request that has been made of the channel c.
IsRequest(r, c, fast, n) ==
  /\ r \in Channel
  /\ r.ChannelState = "INIT"
  /\ r.Active = TRUE /\ r.Fast = fast
  /\ r.BytesToRx = n
  /\ r.InPtr = c.InPtr /\ r.OutPtr = c.OutPtr

\* A request.
LEMMA RequestedType ==
  ASSUME NEW c \in Channel, NEW fast \in BOOLEAN, NEW n \in 0 .. SIZE_OF_LSBUF
  PROVE  IsRequest(Requested(c, fast, n), c, fast, n)
<1> DEFINE d == In(c, "INIT")
<1>1. /\ d \in Channel
      /\ d.ChannelState = "INIT" /\ d.InPtr = c.InPtr /\ d.OutPtr = c.OutPtr
  BY InType DEF States
<1>2. Requested(c, fast, n) = [d EXCEPT !.Active = TRUE, !.Fast = fast, !.BytesToRx = n]
  BY DEF Requested
<1> HIDE DEF d
<1> QED BY <1>1, <1>2 DEF Channel, IsRequest

\* A read of n bytes.
LEMMA ReadType ==
  ASSUME NEW c \in Channel, NEW n \in 0 .. SIZE_OF_LSBUF
  PROVE  /\ Taken(c, n) \in Channel
         /\ Working(c) => Working(Taken(c, n))
<1>1. Further(c.OutPtr, n) \in 0 .. SIZE_OF_LSBUF - 1
  BY Fields, FurtherType
<1> QED BY <1>1 DEF Channel, Working, Taken

\* No more is ready than the ring holds.
LEMMA BytesReadyType ==
  ASSUME NEW c \in Channel
  PROVE  BytesReady(c) \in 0 .. SIZE_OF_LSBUF
BY Fields, SizeAssumption DEF BytesReady

-----------------------------------------------------------------------------
(* What the controller makes of a channel.                                 *)

\* A transaction in one call ends, or fails without a trace in the ring.
LEMMA FastKeeps ==
  ASSUME NEW c \in Channel, c.ChannelState = "INIT", c.Fast, NEW d \in FastI2C(c)
  PROVE  d \in Channel /\ Working(d) /\ (RingOf(c) => RingOf(d))
<1>1. CASE d = Finished(c, FALSE)
  BY <1>1, FinishedType DEF Working, RingOf
<1>2. CASE d = Finished(CompleteRead(c), TRUE)
  <2> DEFINE r == CompleteRead(c)
  <2>1. /\ r \in Channel /\ r.BytesToRx = c.BytesToRx
        /\ r.InPtr = Further(c.InPtr, c.BytesToRx) /\ r.OutPtr = c.OutPtr
    BY CompleteReadType
  <2> HIDE DEF r
  <2>2. /\ d \in Channel /\ d.ChannelState = "IDLE" /\ d.BytesToRx = r.BytesToRx
        /\ d.InPtr = r.InPtr /\ d.OutPtr = r.OutPtr
    BY <1>2, <2>1, FinishedType DEF r
  <2> QED BY <2>1, <2>2 DEF Working, RingOf
<1> QED BY <1>1, <1>2 DEF FastI2C

\* A failure that is found by the controller leaves the ring as it was.
LEMMA ErrorKeeps ==
  ASSUME NEW c \in Channel, c.ChannelState \notin {"IDLE", "DONE"}
  PROVE  /\ In(c, "ERROR") \in Channel
         /\ Working(In(c, "ERROR"))
         /\ RingOf(c) => RingOf(In(c, "ERROR"))
BY InType DEF Working, RingOf, States

\* A round of polling the device.
LEMMA CommunicateKeeps ==
  ASSUME NEW c \in Channel, Working(c), c.ChannelState = "COMMUNICATING",
         NEW d \in Communicate(c)
  PROVE  d \in Channel /\ Working(d) /\ (RingOf(c) => RingOf(d))
<1>1. CASE d = In(c, "ERROR")
  BY <1>1, ErrorKeeps
<1>2. CASE c.BytesToRx = 0 /\ d = In(c, "DONE")
  <2>1. Further(c.OutPtr, 0) = c.OutPtr
    BY Fields, FurtherNothing
  <2> QED BY <1>2, <2>1, InType DEF Working, RingOf, States
<1>3. CASE d = In(CompleteRead(c), "DONE")
  <2>1. /\ CompleteRead(c) \in Channel
        /\ CompleteRead(c).Active = c.Active
        /\ CompleteRead(c).BytesToRx = c.BytesToRx
        /\ CompleteRead(c).InPtr = Further(c.InPtr, c.BytesToRx)
        /\ CompleteRead(c).OutPtr = c.OutPtr
    BY CompleteReadType
  <2> QED BY <1>3, <2>1, InType DEF Working, RingOf, States
<1>4. CASE /\ ~(c.RxTimeCnt + 1 > LOWSPEED_RX_TIMEOUT)
           /\ d = [c EXCEPT !.RxTimeCnt = @ + 1]
  <2>1. d \in Channel
    BY <1>4, Fields, TimeoutAssumption DEF Channel
  <2>2. /\ d.ChannelState = c.ChannelState /\ d.Active = c.Active /\ d.Fast = c.Fast
        /\ d.InPtr = c.InPtr /\ d.OutPtr = c.OutPtr
    BY <1>4 DEF Channel
  <2> QED BY <2>1, <2>2 DEF Working, RingOf
<1> QED BY <1>1, <1>2, <1>3, <1>4 DEF Communicate

\* A step of the controller keeps what the invariant says of a channel.
LEMMA StepKeeps ==
  ASSUME NEW c \in Channel, Working(c), NEW d \in Step(c)
  PROVE  d \in Channel /\ Working(d) /\ (RingOf(c) => RingOf(d))
<1>1. CASE c.ChannelState = "IDLE"
  BY <1>1 DEF Step
<1>2. CASE c.ChannelState = "INIT"
  <2>1. d \in Initiate(c)
    BY <1>2 DEF Step
  <2>2. CASE d = In(c, "ERROR")
    BY <1>2, <2>2, ErrorKeeps
  <2>3. CASE c.Fast /\ d \in FastI2C(c)
    BY <1>2, <2>3, FastKeeps
  <2>4. CASE ~c.Fast /\ d = In(c, "LOAD_BUFFER")
    BY <1>2, <2>4, InType DEF Working, RingOf, States
  <2> QED BY <2>1, <2>2, <2>3, <2>4 DEF Initiate
<1>3. CASE c.ChannelState = "LOAD_BUFFER"
  <2>1. d \in LoadBuffer(c)
    BY <1>3 DEF Step
  <2>2. CASE d = In(c, "ERROR")
    BY <1>3, <2>2, ErrorKeeps
  <2>3. CASE d = In(c, "COMMUNICATING")
    BY <1>3, <2>3, InType DEF Working, RingOf, States
  <2> QED BY <2>1, <2>2, <2>3 DEF LoadBuffer
<1>4. CASE c.ChannelState = "COMMUNICATING"
  <2>1. d \in Communicate(c)
    BY <1>4 DEF Step
  <2> QED BY <1>4, <2>1, CommunicateKeeps
<1>5. CASE c.ChannelState = "ERROR"
  <2>1. d = Finished(c, FALSE)
    BY <1>5 DEF Step
  <2> QED BY <1>5, <2>1, FinishedType DEF Working, RingOf
<1>6. CASE c.ChannelState = "DONE"
  <2>1. d = Finished(c, TRUE)
    BY <1>6 DEF Step
  <2> QED BY <1>6, <2>1, FinishedType DEF Working, RingOf
<1> QED BY <1>1, <1>2, <1>3, <1>4, <1>5, <1>6, Fields DEF States

\* A request keeps the type, has its bit, and finds the ring as it was.
LEMMA RequestKeeps ==
  ASSUME NEW c \in Channel, NEW fast \in BOOLEAN, NEW n \in 0 .. SIZE_OF_LSBUF
  PROVE  /\ Requested(c, fast, n) \in Channel
         /\ Working(Requested(c, fast, n))
         /\ c.InPtr = c.OutPtr => RingOf(Requested(c, fast, n))
<1> DEFINE d == Requested(c, fast, n)
<1>1. IsRequest(d, c, fast, n)
  BY RequestedType, Zenon
<1> HIDE DEF d
<1>2. d \in Channel /\ Working(d) /\ (c.InPtr = c.OutPtr => RingOf(d))
  BY <1>1 DEF IsRequest, Working, RingOf
<1> QED BY <1>2 DEF d

\* A reset of the devices is done with the next step of the controller.
LEMMA ResetKeeps ==
  ASSUME TypeOK, NEW p \in Port, Working(channel[p])
  PROVE  ResetDevices(p) \in Channel /\ Working(ResetDevices(p))
<1> DEFINE s == IF channel[p].ChannelState = "IDLE" THEN "IDLE" ELSE "DONE"
           c == In(channel[p], s)
<1>1. channel[p] \in Channel /\ s \in States
  BY DEF TypeOK, States
<1>2. c \in Channel /\ c.ChannelState = s /\ c.Active = channel[p].Active
  BY <1>1, InType
<1>3. ResetDevices(p) = [c EXCEPT !.BytesToRx = 0, !.InPtr = 0, !.OutPtr = 0,
                                  !.Active = @ \/ channel[p].ChannelState # "IDLE"]
  BY DEF ResetDevices
<1> HIDE DEF c
<1>4. 0 \in 0 .. SIZE_OF_LSBUF /\ 0 \in 0 .. SIZE_OF_LSBUF - 1
  BY SizeAssumption
<1>5. /\ ResetDevices(p) \in Channel
      /\ ResetDevices(p).ChannelState = s
      /\ ResetDevices(p).Active = (channel[p].Active \/ channel[p].ChannelState # "IDLE")
  BY <1>1, <1>2, <1>3, <1>4 DEF Channel
<1> QED BY <1>5 DEF Working

-----------------------------------------------------------------------------
(* The invariant.                                                          *)

\* Initially all channels are idle and all rings empty.
LEMMA InitIInv == Init => IInv
<1> SUFFICES ASSUME Init PROVE IInv
  OBVIOUS
<1>1. 0 \in 0 .. SIZE_OF_LSBUF /\ 0 \in 0 .. SIZE_OF_LSBUF - 1 /\ 0 \in 0 .. LOWSPEED_RX_TIMEOUT
  BY SizeAssumption, TimeoutAssumption
<1>2. TypeOK
  BY <1>1 DEF Init, TypeOK, Channel
<1>3. \A p \in Port : Working(channel[p])
  BY DEF Init, Working
<1> QED BY <1>2, <1>3 DEF Init, IInv

\* The channels that one action changes, each to a channel that keeps its part,
\* with no port newly undisturbed.
LEMMA ChannelsKeep ==
  ASSUME IInv, NEW f, channel' = [p \in Port |-> f[p]],
         \A p \in Port : f[p] \in Channel /\ Working(f[p]),
         running' \in BOOLEAN, viewed' \subseteq Port,
         SensorState' \in {"SETUP", "ACQUIRE", "READ"},
         undisturbed' \subseteq Port,
         \A p \in undisturbed' : RingOf(f[p])
  PROVE  IInv'
BY DEF IInv, TypeOK

\* Every action keeps the invariant.
LEMMA NextIInv == IInv /\ [Next]_vars => IInv'
<1> SUFFICES ASSUME IInv, [Next]_vars PROVE IInv'
  OBVIOUS
<1> USE DEF IInv
<1>0. /\ \A p \in Port : channel[p] \in Channel /\ Working(channel[p])
      /\ channel \in [Port -> Channel] /\ running \in BOOLEAN
      /\ viewed \subseteq Port /\ SensorState \in {"SETUP", "ACQUIRE", "READ"}
      /\ undisturbed \subseteq Port
  BY DEF TypeOK
<1>1. CASE cLowSpeedCtrl
  <2>1. /\ \A p \in Port : channel'[p] \in Step(channel[p])
        /\ channel' = [p \in Port |-> channel'[p]]
    BY <1>1 DEF cLowSpeedCtrl
  <2>2. \A p \in Port : /\ channel'[p] \in Channel /\ Working(channel'[p])
                        /\ RingOf(channel[p]) => RingOf(channel'[p])
    BY <1>0, <2>1, StepKeeps
  <2> QED BY <1>0, <1>1, <2>1, <2>2, ChannelsKeep DEF cLowSpeedCtrl
<1>2. ASSUME NEW p \in Port, RC_LS_WRITE(p) \/ CommLSWrite(p) PROVE IInv'
  <2>1. PICK fast \in BOOLEAN, n \in 0 .. SIZE_OF_LSBUF :
          /\ cCmdLSWrite(p, fast, n)
          /\ \E c \in {Requested(channel[p], fast, n)}
                     \cup (IF fast THEN FastI2C(Requested(channel[p], fast, n)) ELSE {}) :
               channel' = [channel EXCEPT ![p] = c]
    <3>1. CASE RC_LS_WRITE(p)
      <4>1. PICK fast \in BOOLEAN, n \in 0 .. SIZE_OF_LSBUF :
              /\ cCmdLSWrite(p, fast, n)
              /\ channel' = [channel EXCEPT ![p] = Requested(@, fast, n)]
        BY <3>1 DEF RC_LS_WRITE
      <4>2. channel' = [channel EXCEPT ![p] = Requested(channel[p], fast, n)]
        BY <4>1
      <4> QED BY <4>1, <4>2
    <3>2. CASE CommLSWrite(p)
      <4>1. PICK fast \in BOOLEAN, n \in 0 .. SIZE_OF_LSBUF :
              /\ cCmdLSWrite(p, fast, n)
              /\ \E d \in (IF fast THEN FastI2C(Requested(channel[p], TRUE, n))
                                   ELSE {Requested(channel[p], FALSE, n)}) :
                   channel' = [channel EXCEPT ![p] = d]
        BY <3>2 DEF CommLSWrite
      <4>2. CASE fast = TRUE
        BY <4>1, <4>2
      <4>3. CASE fast = FALSE
        BY <4>1, <4>3
      <4> QED BY <4>2, <4>3
    <3> QED BY <1>2, <3>1, <3>2
  <2>a. PICK c \in {Requested(channel[p], fast, n)}
                  \cup (IF fast THEN FastI2C(Requested(channel[p], fast, n)) ELSE {}) :
          channel' = [channel EXCEPT ![p] = c]
    BY <2>1
  <2>b. /\ channel'[p] = c
        /\ \A q \in Port \ {p} : channel'[q] = channel[q]
        /\ channel' = [q \in Port |-> channel'[q]]
    BY <1>0, <2>a
  <2>2. /\ Requested(channel[p], fast, n) \in Channel
        /\ Requested(channel[p], fast, n).ChannelState = "INIT"
        /\ Requested(channel[p], fast, n).Fast = fast
        /\ Working(Requested(channel[p], fast, n))
        /\ channel[p].InPtr = channel[p].OutPtr => RingOf(Requested(channel[p], fast, n))
    <3>1. channel[p] \in Channel
      BY <1>0
    <3>2. IsRequest(Requested(channel[p], fast, n), channel[p], fast, n)
      BY <3>1, RequestedType, Zenon
    <3>3. /\ Working(Requested(channel[p], fast, n))
          /\ channel[p].InPtr = channel[p].OutPtr => RingOf(Requested(channel[p], fast, n))
      BY <3>1, RequestKeeps, Zenon
    <3> QED BY <3>2, <3>3 DEF IsRequest
  <2>3. c \in Channel /\ Working(c) /\ (channel[p].InPtr = channel[p].OutPtr => RingOf(c))
    <3>1. CASE c = Requested(channel[p], fast, n)
      BY <2>2, <3>1
    <3>2. CASE fast /\ c \in FastI2C(Requested(channel[p], fast, n))
      BY <2>2, <3>2, FastKeeps
    <3> QED BY <2>a, <3>1, <3>2
  <2>4. p \in undisturbed' => channel[p].InPtr = channel[p].OutPtr
    BY <2>1 DEF cCmdLSWrite
  <2>5. /\ running' = running /\ viewed' = viewed /\ SensorState' = SensorState
        /\ undisturbed' \subseteq undisturbed \cup {p}
    BY <2>1 DEF cCmdLSWrite
  <2>6. \A q \in Port : channel'[q] \in Channel /\ Working(channel'[q])
    BY <1>0, <2>b, <2>3
  <2>7. \A q \in undisturbed' : RingOf(channel'[q])
    BY <1>0, <2>b, <2>3, <2>4, <2>5
  <2> QED BY <1>0, <2>1, <2>b, <2>5, <2>6, <2>7, ChannelsKeep
<1>3. ASSUME NEW p \in Port, cCmdLSRead(p) PROVE IInv'
  <2>1. PICK n \in 1 .. BytesReady(channel[p]) :
          channel' = [channel EXCEPT ![p] = Taken(@, n)]
    BY <1>3 DEF cCmdLSRead
  <2>2. n \in 0 .. SIZE_OF_LSBUF
    BY <1>0, <2>1, BytesReadyType, SizeAssumption
  <2>3. /\ channel'[p] = Taken(channel[p], n)
        /\ \A q \in Port \ {p} : channel'[q] = channel[q]
    BY <1>0, <2>1
  <2>4. \A q \in Port : channel'[q] \in Channel /\ Working(channel'[q])
    BY <1>0, <2>2, <2>3, ReadType
  <2>5. channel' = [q \in Port |-> channel'[q]]
    BY <1>0, <2>1
  <2> QED BY <1>0, <1>3, <2>3, <2>4, <2>5, ChannelsKeep DEF cCmdLSRead
<1>4. CASE StartOrEnd
  <2>1. \A q \in Port : ResetDevices(q) \in Channel /\ Working(ResetDevices(q))
    BY <1>0, ResetKeeps
  <2>2. \A q \in Port : channel'[q] = ResetDevices(q)
    BY <1>4 DEF StartOrEnd
  <2>3. channel' = [q \in Port |-> channel'[q]]
    BY <1>4 DEF StartOrEnd
  <2> QED BY <1>0, <1>4, <2>1, <2>2, <2>3, ChannelsKeep DEF StartOrEnd
<1>5. CASE View
  BY <1>0, <1>5, SamplingsAssumption DEF View, TypeOK
<1>6. CASE Leave
  BY <1>0, <1>6 DEF Leave, TypeOK
<1>7. CASE cUiUpdateSensor
  <2>1. /\ running' = running /\ viewed' = viewed
        /\ SensorState' \in {"SETUP", "ACQUIRE", "READ"}
    BY <1>7 DEF cUiUpdateSensor
  <2>2. ASSUME NEW n \in 0 .. SIZE_OF_LSBUF, cUiWriteLowspeed(n) PROVE IInv'
    <3>1. \A q \in Port : /\ q \in viewed => channel'[q] = Requested(channel[q], channel[q].Fast, n)
                          /\ q \notin viewed => channel'[q] = channel[q]
      BY <2>2 DEF cUiWriteLowspeed
    <3>2. ASSUME NEW q \in Port PROVE channel'[q] \in Channel /\ Working(channel'[q])
      <4>1. channel[q] \in Channel /\ channel[q].Fast \in BOOLEAN
        BY <1>0, Fields
      <4>2. /\ Requested(channel[q], channel[q].Fast, n) \in Channel
            /\ Working(Requested(channel[q], channel[q].Fast, n))
        BY <4>1, RequestKeeps, Zenon
      <4> QED BY <1>0, <3>1, <4>2
    <3>3. channel' = [q \in Port |-> channel'[q]]
      BY <2>2 DEF cUiWriteLowspeed
    <3> QED BY <1>0, <2>1, <2>2, <3>1, <3>2, <3>3, ChannelsKeep DEF cUiWriteLowspeed
  <2>3. ASSUME NEW n \in 0 .. SIZE_OF_LSBUF, cUiReadLowspeed(n) PROVE IInv'
    <3>1. \A q \in Port :
            /\ channel'[q] = channel[q] \/ channel'[q] = Taken(channel[q], n)
            /\ q \notin viewed => channel'[q] = channel[q]
      BY <2>3 DEF cUiReadLowspeed
    <3>2. \A q \in Port : channel'[q] \in Channel /\ Working(channel'[q])
      BY <1>0, <3>1, ReadType
    <3>3. channel' = [q \in Port |-> channel'[q]]
      BY <2>3 DEF cUiReadLowspeed
    <3> QED BY <1>0, <2>1, <2>3, <3>1, <3>2, <3>3, ChannelsKeep DEF cUiReadLowspeed
  <2>4. CASE UNCHANGED <<channel, undisturbed>>
    BY <1>0, <2>1, <2>4 DEF TypeOK
  <2>5. 0 \in 0 .. SIZE_OF_LSBUF /\ \A n \in 1 .. 2 : n <= SIZE_OF_LSBUF => n \in 0 .. SIZE_OF_LSBUF
    BY SizeAssumption
  <2> QED BY <1>7, <2>2, <2>3, <2>4, <2>5 DEF cUiUpdateSensor
<1>8. CASE UNCHANGED vars
  BY <1>0, <1>8 DEF vars, TypeOK
<1> QED BY <1>1, <1>2, <1>3, <1>4, <1>5, <1>6, <1>7, <1>8 DEF Next

\* The invariant holds throughout.
LEMMA Invariance == Spec => []IInv
BY InitIInv, NextIInv, PTL DEF Spec

-----------------------------------------------------------------------------
(* Channels, positions and flags have their types: positions stay inside   *)
(* the ring (c_cmd.c:7923, c_lowspeed.c:76).                               *)
THEOREM TypeCorrect == Spec => []TypeOK
<1>1. IInv => TypeOK
  BY DEF IInv
<1> QED BY <1>1, Invariance, PTL

(* No transaction is left half-way with its bit in Active cleared.         *)
THEOREM Attended == Spec => []ActiveWhilePending
<1>1. IInv => ActiveWhilePending
  BY DEF IInv, ActiveWhilePending, Working
<1> QED BY <1>1, Invariance, PTL

\* What cCmdLSCalcBytesReady makes of a ring that holds one response.
LEMMA Ready ==
  ASSUME NEW c \in Channel, RingOf(c)
  PROVE  /\ c.ChannelState = "IDLE" => BytesReady(c) = c.BytesToRx
         /\ c.ChannelState = "DONE" => BytesReady(c) \in {c.BytesToRx, 0}
         /\ c.ChannelState \notin {"IDLE", "DONE"} => BytesReady(c) = 0
<1>1. /\ c.BytesToRx \in 0 .. SIZE_OF_LSBUF
      /\ c.InPtr \in 0 .. SIZE_OF_LSBUF - 1
      /\ c.OutPtr \in 0 .. SIZE_OF_LSBUF - 1
  BY Fields
<1>2. CASE c.ChannelState \in {"IDLE", "DONE"}
  <2>1. c.InPtr = IF c.OutPtr + c.BytesToRx >= SIZE_OF_LSBUF
                  THEN c.OutPtr + c.BytesToRx - SIZE_OF_LSBUF ELSE c.OutPtr + c.BytesToRx
    BY <1>2 DEF RingOf, Further
  <2>2. CASE c.OutPtr + c.BytesToRx >= SIZE_OF_LSBUF
    <3>1. c.InPtr = c.OutPtr + c.BytesToRx - SIZE_OF_LSBUF
      BY <2>1, <2>2
    <3>2. CASE c.BytesToRx = SIZE_OF_LSBUF
      BY <1>1, <1>2, <3>1, <3>2, SizeAssumption DEF BytesReady
    <3>3. CASE c.BytesToRx < SIZE_OF_LSBUF
      BY <1>1, <1>2, <3>1, <3>3, SizeAssumption DEF BytesReady
    <3> QED BY <1>1, <3>2, <3>3, SizeAssumption
  <2>3. CASE ~(c.OutPtr + c.BytesToRx >= SIZE_OF_LSBUF)
    <3>1. c.InPtr = c.OutPtr + c.BytesToRx
      BY <2>1, <2>3
    <3>2. CASE c.BytesToRx = SIZE_OF_LSBUF
      BY <1>1, <2>3, <3>2, SizeAssumption
    <3>3. CASE c.BytesToRx # SIZE_OF_LSBUF
      BY <1>1, <1>2, <3>1, <3>3, SizeAssumption DEF BytesReady
    <3> QED BY <3>2, <3>3
  <2> QED BY <2>2, <2>3
<1>3. CASE c.ChannelState \notin {"IDLE", "DONE"}
  BY <1>1, <1>3, SizeAssumption DEF BytesReady, RingOf
<1> QED BY <1>2, <1>3

(* After a request into an empty ring, a program is told of all of the     *)
(* response or of nothing, whatever the size of the ring.                  *)
THEOREM WholeResponse == Spec => []ResponseReady
<1>1. IInv => ResponseReady
  BY Ready DEF IInv, ResponseReady, TypeOK
<1> QED BY <1>1, Invariance, PTL
=============================================================================
