----------------------------- MODULE Bluetooth -----------------------------
(***************************************************************************)
(* The Bluetooth half of c_comm.c: one machine (cCommUpdateBt) that carries *)
(* out one request at a time (ActiveUpdate, UpdateState) and reuses five    *)
(* smaller machines for what several requests have in common, talking to a *)
(* radio chip, the BlueCore (BC4), that is either in command mode or passes *)
(* a stream of data through.                                               *)
(*                                                                         *)
(* The chip and its driver (d_bt.c is a stub in this tree) are the         *)
(* environment: any message may come at any time, with any result, and a   *)
(* command may time out.  Four things are asked of the chip, all of which  *)
(* the code relies on: what it says while its pin is high is data, it      *)
(* leaves the stream unasked only when the connection of the stream is     *)
(* gone, it says so (CLOSE_CONNECTION_RESULT) before it says anything      *)
(* else, and it opens streams only of connections.                         *)
(*                                                                         *)
(* A message that only one state waits for is "answer"; the messages that  *)
(* are told apart keep their names.  The table of devices, names, the      *)
(* visibility and the marks for the display are left out, and counted      *)
(* waits become waits of one or more rounds.                               *)
(***************************************************************************)
EXTENDS Integers, FiniteSets, TLC

CONSTANTS
    NumSlots,   \* SIZE_OF_BT_CONNECT_TABLE
    MaxBlocks,  \* bound: buffers that a file or a long read takes
    MsgBlocks,  \* buffers that fit into one message (MAX_BT_MSG_SIZE)
    TxTimeout,  \* FILETXTOUT and BTSTREAMTOUT, in rounds
    None

ASSUME BluetoothConstants ==
    /\ NumSlots \in Nat \ {0}
    /\ MaxBlocks \in Nat
    /\ MsgBlocks \in Nat \ {0}
    /\ TxTimeout \in Nat
    /\ None \notin 0 .. NumSlots - 1
    /\ None \notin {"command", "data"} \X {"cmd", "data", "off"}

VARIABLE bt    \* what VarsComm and IOMapComm say of Bluetooth, and the chip's pin

Slots == 0 .. NumSlots - 1
Updates == {"BRICKNAME", "FACTORYRESET", "OPENSTREAM", "REQCMDMODE", "CONNECT", "CONNECTREQ",
            "PINREQ", "DISCONNECT", "DISCONNECTALL", "REMOVEDEVICE", "SEARCH", "RESET",
            "EXTREAD", "SENDFILE", "OFF", "VISIBILITY", "SENDDATA", "IDLE"}
Counters == {"update", "stream", "cmd", "close", "disc", "reset"}
Connection == [open : BOOLEAN, named : BOOLEAN, stream : BOOLEAN]
Closed == [open |-> FALSE, named |-> FALSE, stream |-> FALSE]

(* Where results are written: BTResult of the user interface, CommStat of   *)
(* the program and CommStatReset of the end of programs.  "own" is a cell   *)
(* nobody reads: RetVal of c_comm.c, and the locals of functions that have  *)
(* returned (c_cmd.c:9078, 9102 and 1133, c_comm.c:1053 and 1233).          *)
Cells == {"ui", "CommStat", "CommStatReset"}

(* "left" is an INPROGRESS that a refused request leaves behind, "final"     *)
(* any value that is not INPROGRESS or REQPIN.                              *)
CellValues == {"final", "inprogress", "reqpin", "left"}

(* What a request parks: BtCmdData, BtUpdateDataConnectNr, ExtTx and whether *)
(* there is a valid pin code.  Nothing reads it before a request sets it,   *)
(* so it is forgotten when the machine becomes idle.                       *)
Params == [one : 0 .. NumSlots, two : Slots, three : BOOLEAN, reopen : Slots \cup {None},
           timer : 0 .. TxTimeout, file : 0 .. MaxBlocks, msg : 0 .. MaxBlocks, pin : BOOLEAN]
NoParams == [one |-> 0, two |-> 0, three |-> FALSE, reopen |-> None,
             timer |-> 0, file |-> 0, msg |-> 0, pin |-> FALSE]

Machine == [act : Updates, cnt : [Counters -> 0 .. 10], par : Params,
            caller : Cells \cup {"own"}, cell : [Cells -> CellValues],
            mode : {"cmd", "data", "off"}, pin : BOOLEAN,
            conn : [Slots -> Connection], off : BOOLEAN,
            source : {"closed", "open", "lost"},
            lost : Slots \cup {None}, sent : {None} \cup ({"command", "data"} \X {"cmd", "data", "off"})]

TypeOK == bt \in Machine

AllZero == [c \in Counters |-> 0]

Init == bt = [act |-> "RESET", cnt |-> AllZero, par |-> NoParams,
              caller |-> "own", cell |-> [c \in Cells |-> "final"],
              mode |-> "cmd", pin |-> FALSE,
              conn |-> [c \in Slots |-> Closed], off |-> FALSE,
              source |-> "closed", lost |-> None, sent |-> None]

-----------------------------------------------------------------------------
(* Small steps.  An operator takes the state of the machine and yields it  *)
(* changed; where the code waits for the driver it yields a set.            *)

(* A fault: the counter of the switch to command mode keeps its value.      *)
IdleInSwitch(m) == [m EXCEPT !.act = "IDLE", !.cnt = [AllZero EXCEPT !["cmd"] = m.cnt["cmd"]],
                             !.par = NoParams]

(* SETBtStateIdle *)
Idle(m) == [m EXCEPT !.act = "IDLE", !.cnt = AllZero, !.par = NoParams]

(* A transfer that is broken off leaves its source file open: nothing but   *)
(* the states of SENDFILE closes it.                                        *)
BrokenOff(m) == [Idle(m) EXCEPT !.source = IF @ = "open" THEN "lost" ELSE @]

Answer(m, v) == IF m.caller = "own" THEN m ELSE [m EXCEPT !.cell[m.caller] = v]
Done(m) == Idle(Answer(m, "final"))

CmdMode(m) == [m EXCEPT !.mode = "cmd"]
DataMode(m) == [m EXCEPT !.mode = "data"]
ClrConnTable(m) == [m EXCEPT !.conn = [c \in Slots |-> Closed], !.lost = None]
ClearStreamStatus(m) == [m EXCEPT !.conn = [c \in Slots |-> [@[c] EXCEPT !.stream = FALSE]]]

SendCmd(m) == [m EXCEPT !.sent = <<"command", m.mode>>]
SendData(m) == [m EXCEPT !.sent = <<"data", m.mode>>]
Goto(m, n) == [m EXCEPT !.cnt["update"] = n]
Advance(m, counter) == [m EXCEPT !.cnt[counter] = @ + 1]
Then(m) == Advance(m, "update")
When(cond, S, m) == IF cond THEN S ELSE {m}
Opened(m, c) == [m EXCEPT !.conn[c].stream = TRUE]

-----------------------------------------------------------------------------
(* The smaller machines.  Each advances the counter of its caller when it   *)
(* is through.                                                             *)

(* A fault: the streams keep their status when the chip is to leave them.    *)
SetCmdModeKeepsStatus(m, counter) ==
    CASE m.cnt["cmd"] = 0 -> {Advance(m, IF m.mode # "cmd" THEN "cmd" ELSE counter)}
      [] m.cnt["cmd"] = 1 -> {m, Advance(m, "cmd")}
      [] m.cnt["cmd"] = 2 ->
            When(~m.pin, {Advance([CmdMode(m) EXCEPT !.cnt["cmd"] = 0], counter)}, m)

SetCmdMode(m, counter) ==
    CASE m.cnt["cmd"] = 0 ->
            IF m.mode # "cmd" THEN {Advance(ClearStreamStatus(m), "cmd")} ELSE {Advance(m, counter)}
      [] m.cnt["cmd"] = 1 -> {m, Advance(m, "cmd")}     \* the last bytes leave, and 100 ms pass
      [] m.cnt["cmd"] = 2 ->
            When(~m.pin, {Advance([CmdMode(m) EXCEPT !.cnt["cmd"] = 0], counter)}, m)

CloseConn0(m, counter, in) ==
    IF m.cnt["close"] = 0
    THEN {IF m.conn[0].named THEN SendCmd(Advance(m, "close")) ELSE Advance(m, counter)}
    ELSE When(in.msg = "CLOSE", {Advance([m EXCEPT !.cnt["close"] = 0], counter)}, m)

OpenStream(m, in) ==
    LET c == m.par.two IN
    CASE m.cnt["stream"] = 0 ->
            {IF ~m.conn[c].named THEN BrokenOff(Answer(m, "final"))
             ELSE IF m.conn[c].stream THEN Then(m) ELSE Advance(m, "stream")}
      [] m.cnt["stream"] = 1 -> SetCmdMode(m, "stream")
      [] m.cnt["stream"] = 2 -> CloseConn0(m, "stream", in)
      [] m.cnt["stream"] = 3 -> {SendCmd(Advance(m, "stream"))}
      [] m.cnt["stream"] = 4 ->
            When(m.pin, {Then([Opened(DataMode(m), c) EXCEPT !.cnt["stream"] = 0])}, m)

DisconnectAll(m, in) ==
    LET left == {c \in Slots : c >= m.par.one /\ m.conn[c].named}
        next == CHOOSE c \in left : \A d \in left : c <= d IN
    CASE m.cnt["disc"] = 0 -> {Advance([m EXCEPT !.par.one = 0], "disc")}
      [] m.cnt["disc"] = 1 ->
            {IF left = {} THEN Then([m EXCEPT !.cnt["disc"] = 0])
             ELSE SendCmd(Advance([m EXCEPT !.par.one = next + 1], "disc"))}
      [] m.cnt["disc"] = 2 -> When(in.msg = "CLOSE", {[m EXCEPT !.cnt["disc"] = 1]}, m)

BtReset(m) ==
    CASE m.cnt["reset"] = 0 -> {Advance(m, "reset")}
      [] m.cnt["reset"] = 1 -> {m, Advance(m, "reset")}                \* the pin is held low
      [] m.cnt["reset"] = 2 -> {m, Advance(ClrConnTable(m), "reset")}  \* time or RESET_INDICATION
      [] m.cnt["reset"] = 3 -> {Then([CmdMode(m) EXCEPT !.cnt["reset"] = 0])}

-----------------------------------------------------------------------------
(* cCommUpdateBt: what each request does in its states.                    *)

State(m) == m.cnt["update"]

(* The chip is reset, read out and its port opened.  In state 7 the chip    *)
(* says that the brick is to stay off, or not; the list of state 5 is any   *)
(* number of items and then the answer.                                    *)
ResetStart(m, in) ==
    CASE State(m) = 0 -> {Then([m EXCEPT !.off = TRUE])}
      [] State(m) = 1 -> BtReset(m)
      [] State(m) = 2 -> {SendCmd(Then(m))}
      [] State(m) \in 3 .. 5 -> When(in.msg = "answer", {SendCmd(Then(m))}, m)

ResetEnd(m, in) ==
    CASE State(m) = 6 -> When(in.msg = "answer", {SendCmd(Then(m))}, m)
      [] State(m) = 7 -> When(in.msg = "answer",
            {IF in.ok THEN SendCmd(Then([m EXCEPT !.off = FALSE]))
             ELSE Done([m EXCEPT !.mode = "off"])}, m)
      [] State(m) = 8 -> When(in.msg = "answer", {SendCmd(Then(m))}, m)
      [] State(m) = 9 -> When(in.msg = "PORT_OPEN", {Done(m)}, m)

(* The reset that follows keeps the cell of the request.                   *)
FactoryReset(m, in) ==
    CASE State(m) = 0 -> {Goto(m, IF m.off THEN 1 ELSE 2)}
      [] State(m) = 1 -> BtReset(m)
      [] State(m) = 2 -> SetCmdMode(m, "update")
      [] State(m) = 3 -> DisconnectAll(m, in)
      [] State(m) = 4 -> {SendCmd(Then(m))}
      [] State(m) = 5 -> When(in.msg = "answer", {[Idle(m) EXCEPT !.act = "RESET"]}, m)

(* A stream that has to be closed for the new name is opened again.        *)
BrickName(m, in) ==
    LET streaming == {c \in Slots : m.conn[c].stream}
        last == CHOOSE c \in streaming : \A d \in streaming : d <= c IN
    CASE State(m) = 0 -> {Goto(m, IF m.off THEN 1 ELSE 2)}
      [] State(m) = 1 -> BtReset(m)
      [] State(m) = 2 ->
            {IF m.mode = "data"
             THEN Then([m EXCEPT !.par.reopen = IF streaming = {} THEN None ELSE last])
             ELSE Goto([m EXCEPT !.par.reopen = None], 4)}
      [] State(m) = 3 -> SetCmdMode(m, "update")
      [] State(m) = 4 -> {SendCmd(Then(m))}
      [] State(m) = 5 -> When(in.msg = "answer",
            {IF m.par.reopen # None THEN SendCmd(Then(m))
             ELSE Done([m EXCEPT !.mode = IF m.off THEN "off" ELSE @])}, m)
      [] State(m) = 6 -> When(m.pin, {Done(DataMode(Opened(m, m.par.reopen)))}, m)

ReqCmdMode(m) ==
    CASE State(m) = 0 -> SetCmdMode(m, "update")
      [] State(m) = 1 -> {Done(m)}

OpenStreamRequest(m, in) ==
    CASE State(m) = 0 -> OpenStream(m, in)
      [] State(m) = 1 -> {Done(m)}

(* A fault: nothing counts the rounds.                                     *)
WaitedForever(m) == m

(* A wait that a timer ends: the file transfer gives up and goes on to      *)
(* close its source file.                                                  *)
Waited(m) ==
    IF m.par.timer >= TxTimeout THEN Goto(Answer(m, "final"), 8)
    ELSE [m EXCEPT !.par.timer = @ + 1]
Restarted(m) == [m EXCEPT !.par.timer = 0]

(* A fault: a transfer that is refused skips the close of its source file.   *)
GivenUpOpen(m) == Goto(Answer(m, "final"), 9)
GivenUp(m) == Goto(Answer(m, "final"), 8)

(* States 0 to 2: the stream is opened and the peer asked to open a file.   *)
(* The reply that state 2 finds refused it also counts a round for.        *)
SendFileOpen(m, in) ==
    CASE State(m) = 0 -> OpenStream(m, in)
      [] State(m) = 1 -> {IF m.conn[m.par.two].stream THEN SendData(Restarted(Then(m))) ELSE Waited(m)}
      [] State(m) = 2 -> {Waited(IF in.msg # "reply" THEN m ELSE IF in.ok THEN Goto(m, 3) ELSE GivenUp(m))}

(* States 3 to 5: the file goes out in messages, a message in buffers, and   *)
(* the peer acknowledges each message.  A reply that reports an error is    *)
(* not acted on.                                                           *)
SendFileBlocks(m, in) ==
    LET size == IF m.par.file > MsgBlocks THEN MsgBlocks ELSE m.par.file
        first == IF size > 0 THEN 1 ELSE 0
        sent == [m EXCEPT !.par.msg = @ - 1, !.par.file = @ - 1] IN
    CASE State(m) = 3 ->
            {SendData(Goto([Restarted(m) EXCEPT !.par.msg = size - first, !.par.file = @ - first],
                           IF size > 1 THEN 4 ELSE 5))}
      [] State(m) = 4 ->
            {m, SendData(IF sent.par.msg = 0 THEN Goto(Restarted(sent), 5) ELSE Restarted(sent))}
      [] State(m) = 5 ->
            {Waited(IF in.msg = "reply" /\ in.ok THEN Goto(m, IF m.par.file > 0 THEN 3 ELSE 6) ELSE m)}

(* States 6 to 10: the peer closes its file, the brick its own, and the      *)
(* chip goes back to command mode.  The result is written before that.     *)
SendFileEnd(m, in) ==
    CASE State(m) = 6 -> {SendData(Goto(Restarted(m), 7))}
      [] State(m) = 7 -> {Waited(IF in.msg = "reply" THEN GivenUp(m) ELSE m)}
      [] State(m) = 8 -> {Then([m EXCEPT !.source = "closed"])}
      [] State(m) = 9 -> SetCmdMode(m, "update")
      [] State(m) = 10 -> {Idle(m)}

(* A read that a peer asked for and that one buffer does not hold.         *)
ExtRead(m) ==
    CASE State(m) = 0 -> {SendData(Then([m EXCEPT !.par.msg = @ - 1]))}
      [] State(m) = 1 ->
            {m, SendData(IF m.par.msg > 1 THEN [m EXCEPT !.par.msg = @ - 1] ELSE Done(m))}

(* States 0 to 3, 7 and 8: an inquiry, until it is over or is stopped.      *)
SearchDevices(m, in) ==
    CASE State(m) = 0 -> SetCmdMode(m, "update")
      [] State(m) = 1 -> CloseConn0(m, "update", in)
      [] State(m) = 2 -> {SendCmd(Then(m))}
      [] State(m) = 3 ->
            IF m.par.one = 1 THEN {SendCmd(Goto(m, 7))}
            ELSE When(in.msg = "answer", {IF in.ok THEN Then(m) ELSE SendCmd(m)}, m)
      [] State(m) = 7 -> When(in.msg = "answer", {Done(m)}, m)
      [] State(m) = 8 -> {Done(m)}

(* States 4 to 6: the devices found are asked for their names, one by one;  *)
(* a known device with a new name is added to the chip's list again.       *)
SearchNames(m, in) ==
    CASE State(m) = 4 ->
            IF m.par.one = 1 THEN {Goto(m, 8)} ELSE {SendCmd(Then(m)), m, Done(m)}
      [] State(m) = 5 -> When(in.msg = "answer",
            IF in.ok THEN {m, SendCmd(Then(m)), Goto(m, 4)} ELSE {Goto(m, 4)}, m)
      [] State(m) = 6 -> When(in.msg = "LIST_RESULT" /\ in.ok, {Goto(m, 4)}, m)

(* A peer asks for connection 0.                                           *)
ConnectReq(m, in) ==
    LET refused == Done(SendCmd(m)) IN
    CASE State(m) = 0 -> {SendCmd(Then(m))}
      [] State(m) = 1 -> When(in.msg = "CONNECT_RESULT",
            {IF in.ok THEN SendCmd(Then([m EXCEPT !.conn[0].open = TRUE])) ELSE Done(m)}, m)
      [] State(m) = 2 ->
            IF in.msg = "CLOSE" /\ ~m.conn[0].open THEN {Done(m)}
            ELSE When(in.msg = "answer",
                      IF in.ok THEN {SendCmd(Then([m EXCEPT !.conn[0].named = TRUE])), refused}
                      ELSE {refused}, m)
      [] State(m) = 3 -> When(in.msg = "LIST_RESULT", {IF in.ok THEN SendCmd(Then(m)) ELSE refused}, m)
      [] State(m) = 4 -> When(m.pin, {Done(DataMode(Opened(m, 0)))}, m)

(* A fault: the chip is told to forget a device without leaving a stream.    *)
RemoveDeviceAtOnce(m, in) ==
    CASE State(m) = 0 -> {Goto(m, 2)}
      [] State(m) = 2 -> {SendCmd(Then(m))}
      [] State(m) = 3 -> When(in.msg = "LIST_RESULT", {Done(m)}, m)

(* The brick asks a peer for a connection; either side may want a pin code. *)
Connect(m, in) ==
    LET c == m.par.two IN
    CASE State(m) = 0 -> SetCmdMode(m, "update")
      [] State(m) = 1 -> CloseConn0(m, "update", in)
      [] State(m) = 2 -> {SendCmd(Then(m))}
      [] State(m) = 3 ->
            {CASE in.msg = "CONNECT_RESULT" /\ in.ok ->
                    SendCmd(Goto([m EXCEPT !.conn[c].open = TRUE, !.conn[c].named = TRUE], 6))
               [] in.msg = "CONNECT_RESULT" /\ ~in.ok -> Done(m)
               [] in.msg = "REQUEST_PIN_CODE" -> Then(Answer([m EXCEPT !.par.pin = FALSE], "reqpin"))
               [] OTHER -> m}
      [] State(m) = 4 ->
            {IF in.msg = "CONNECT_RESULT" THEN Done(m) ELSE IF m.par.pin THEN SendCmd(Then(m)) ELSE m}
      [] State(m) = 5 ->
            {CASE in.msg = "CONNECT_RESULT" -> Done(m)
               [] in.msg = "PIN_CODE_ACK" -> Goto(m, 3)
               [] OTHER -> m}
      [] State(m) = 6 -> When(in.msg = "LIST_RESULT", {Done(m)}, m)

Disconnect(m, in) ==
    CASE State(m) = 0 -> SetCmdMode(m, "update")
      [] State(m) = 1 -> {IF m.conn[m.par.one].open THEN SendCmd(Then(m)) ELSE Done(m)}
      [] State(m) = 2 -> When(in.msg = "CLOSE" /\ in.slot = m.par.one, {Done(m)}, m)

DisconnectAllRequest(m, in) ==
    CASE State(m) = 0 -> SetCmdMode(m, "update")
      [] State(m) = 1 -> DisconnectAll(m, in)
      [] State(m) = 2 -> {Done(m)}

RemoveDevice(m, in) ==
    CASE State(m) = 0 -> SetCmdMode(m, "update")
      [] State(m) = 1 -> CloseConn0(m, "update", in)
      [] State(m) = 2 -> {SendCmd(Then(m))}
      [] State(m) = 3 -> When(in.msg = "LIST_RESULT", {Done(m)}, m)

(* A peer wants a pin code: nobody is answered.                            *)
PinReq(m, in) ==
    CASE State(m) = 0 -> {IF m.par.pin THEN SendCmd(Then(m)) ELSE m}
      [] State(m) = 1 -> When(in.msg = "PIN_CODE_ACK", {Idle(m)}, m)

Visibility(m, in) ==
    CASE State(m) = 0 -> SetCmdMode(m, "update")
      [] State(m) = 1 -> CloseConn0(m, "update", in)
      [] State(m) = 2 -> {SendCmd(Then(m))}
      [] State(m) = 3 -> When(in.msg = "answer", {Done(m)}, m)

Off(m, in) ==
    CASE State(m) = 0 -> SetCmdMode(m, "update")
      [] State(m) = 1 -> DisconnectAll(m, in)
      [] State(m) = 2 -> {SendCmd(Then(m))}
      [] State(m) = 3 -> When(in.msg = "answer",
            {Done(IF in.ok THEN [m EXCEPT !.mode = "off", !.off = TRUE] ELSE m)}, m)

SendDataRequest(m, in) ==
    CASE State(m) = 0 -> {Goto(m, IF m.conn[m.par.two].stream THEN 2 ELSE 1)}
      [] State(m) = 1 -> OpenStream(m, in)
      [] State(m) = 2 -> {SendData(Then(m))}
      [] State(m) = 3 -> {m, IF m.par.three THEN Then(Restarted(m)) ELSE Done(m)}
      [] State(m) = 4 ->
            {IF in.msg = "reply" \/ m.par.timer >= TxTimeout THEN Done(m)
             ELSE [m EXCEPT !.par.timer = @ + 1]}

UpdateBt(m, in) ==
    CASE m.act = "RESET" /\ State(m) <= 5 -> ResetStart(m, in)
      [] m.act = "RESET" /\ State(m) > 5 -> ResetEnd(m, in)
      [] m.act = "FACTORYRESET" -> FactoryReset(m, in)
      [] m.act = "BRICKNAME" -> BrickName(m, in)
      [] m.act = "REQCMDMODE" -> ReqCmdMode(m)
      [] m.act = "OPENSTREAM" -> OpenStreamRequest(m, in)
      [] m.act = "SENDFILE" /\ State(m) <= 2 -> SendFileOpen(m, in)
      [] m.act = "SENDFILE" /\ State(m) \in 3 .. 5 -> SendFileBlocks(m, in)
      [] m.act = "SENDFILE" /\ State(m) > 5 -> SendFileEnd(m, in)
      [] m.act = "EXTREAD" -> ExtRead(m)
      [] m.act = "SEARCH" /\ State(m) \notin 4 .. 6 -> SearchDevices(m, in)
      [] m.act = "SEARCH" /\ State(m) \in 4 .. 6 -> SearchNames(m, in)
      [] m.act = "CONNECTREQ" -> ConnectReq(m, in)
      [] m.act = "CONNECT" -> Connect(m, in)
      [] m.act = "DISCONNECT" -> Disconnect(m, in)
      [] m.act = "DISCONNECTALL" -> DisconnectAllRequest(m, in)
      [] m.act = "REMOVEDEVICE" -> RemoveDevice(m, in)
      [] m.act = "PINREQ" -> PinReq(m, in)
      [] m.act = "VISIBILITY" -> Visibility(m, in)
      [] m.act = "OFF" -> Off(m, in)
      [] m.act = "SENDDATA" -> SendDataRequest(m, in)
      [] m.act = "IDLE" -> {m}

-----------------------------------------------------------------------------
(* Messages of the chip, and what cCommBtCmdInterpreter does with them      *)
(* before the machine sees them.                                           *)

Message(k, ok, c) == [msg |-> k, ok |-> ok, slot |-> c]
Silence == Message("none", TRUE, None)

(* A connection that is closed is one of the table, or one it does not have *)
(* (None).                                                                 *)
Closings(m) == {Message("CLOSE", TRUE, c) : c \in {s \in Slots : m.conn[s].open} \cup {None}}
Told == {Message(k, TRUE, None) : k \in {"REQUEST_PIN_CODE", "REQUEST_CONNECTION", "PIN_CODE_ACK",
                                         "PORT_CLOSED", "RESET_INDICATION"}}
Answered == {Message(k, ok, None) : k \in {"answer", "CONNECT_RESULT", "LIST_RESULT", "PORT_OPEN"},
                                    ok \in BOOLEAN}

(* A "reply" is what the peer at the other end of a stream answers.        *)
Replies == {Message("reply", ok, None) : ok \in BOOLEAN}

(* While a lost stream is to be reported nothing else is said.             *)
Messages(m) ==
    IF m.mode = "data" /\ m.cnt["cmd"] = 0 /\ m.act \in {"SENDFILE", "SENDDATA"}
    THEN {Silence} \cup Replies
    ELSE IF m.mode # "cmd" \/ m.pin THEN {Silence}
    ELSE IF m.lost # None THEN {Silence, Message("CLOSE", TRUE, m.lost)}
    ELSE {Silence} \cup Closings(m) \cup Told \cup Answered

(* A request that is taken.                                                *)
Begin(m, who, update) ==
    Answer([m EXCEPT !.act = update, !.caller = who], "inprogress")

(* A fault: the request that the reset ends is not answered.               *)
UnintendedResetSilent(m) ==
    IF m.act \in {"RESET", "BRICKNAME", "FACTORYRESET"} THEN m
    ELSE [BrokenOff(m) EXCEPT !.act = "RESET", !.caller = "own"]

(* MSG_RESET_INDICATION that no request has brought about                   *)
UnintendedReset(m) ==
    IF m.act \in {"RESET", "BRICKNAME", "FACTORYRESET"} THEN m
    ELSE [BrokenOff(IF m.act = "IDLE" THEN m ELSE Answer(m, "final")) EXCEPT
             !.act = "RESET", !.caller = "own"]

CloseConnectionResult(m, c) ==
    [(IF c = None THEN m ELSE [m EXCEPT !.conn[c] = Closed]) EXCEPT
        !.lost = IF c = @ THEN None ELSE @]

Interpreted(m, in) ==
    CASE in.msg = "REQUEST_PIN_CODE" -> IF m.act = "IDLE" THEN Begin(m, "own", "PINREQ") ELSE m
      [] in.msg = "REQUEST_CONNECTION" -> IF m.act = "IDLE" THEN Begin(m, "own", "CONNECTREQ") ELSE m
      [] in.msg = "CLOSE" -> CloseConnectionResult(m, in.slot)
      [] in.msg = "PORT_OPEN" -> [m EXCEPT !.conn[0].open = in.ok]
      [] in.msg = "PORT_CLOSED" -> [m EXCEPT !.conn[0].open = FALSE]
      [] in.msg = "RESET_INDICATION" -> UnintendedReset(m)
      [] OTHER -> m

(* A peer that reads more than a buffer holds; data is not interpreted      *)
(* while the machine leaves the stream (CmdSwitchCnt).                     *)
LongReads(m) ==
    IF m.mode = "data" /\ m.cnt["cmd"] = 0 /\ m.act = "IDLE"
    THEN {[Begin(m, "own", "EXTREAD") EXCEPT !.par.msg = n] : n \in 2 .. MaxBlocks}
    ELSE {}

-----------------------------------------------------------------------------
(* The chip's pin, sampled at the end of a round.                          *)

(* dBtClearArm7CmdSignal: the chip has been told to leave the stream.       *)
ToldToLeave(m) == m.mode # "data" \/ m.cnt["cmd"] = 2

(* The connection whose stream is asked for, when one is.                  *)
Wanted(m) ==
    CASE m.act = "CONNECTREQ" -> 0
      [] m.act = "BRICKNAME" /\ m.par.reopen # None -> m.par.reopen
      [] OTHER -> m.par.two

Pins(m) ==
    IF m.pin \/ (m.lost = None /\ (m.act = "IDLE" \/ m.conn[Wanted(m)].open)) THEN BOOLEAN ELSE {FALSE}

Sampled(m, pin) ==
    LET streaming == {c \in Slots : m.conn[c].stream} IN
    [m EXCEPT !.pin = pin,
              !.lost = IF m.pin /\ ~pin /\ ~ToldToLeave(m) /\ streaming # {}
                       THEN CHOOSE c \in streaming : TRUE ELSE @]

(* An idle brick follows the chip.                                         *)
Followed(m) ==
    CASE m.act = "IDLE" /\ m.mode = "cmd" /\ m.pin -> DataMode(m)
      [] m.act = "IDLE" /\ m.mode = "data" /\ ~m.pin -> CmdMode(m)
      [] OTHER -> m

TimedOut(m) == BrokenOff(Answer(m, "final"))

Ends(S) == UNION {{Followed(Sampled(u, pin)) : pin \in Pins(u)} : u \in S}
Fresh(m) == [m EXCEPT !.sent = None]

-----------------------------------------------------------------------------
(* One call of cCommCtrl.                                                  *)

Received(in) ==
    LET m == Interpreted(Fresh(bt), in) IN bt' \in Ends(UpdateBt(m, in))

Quiet == Received(Silence)
Heard == \E in \in Messages(bt) \ {Silence} : Received(in)
ReadRequested == \E m \in LongReads(Fresh(bt)) : bt' \in Ends(UpdateBt(m, Silence))
TimeOut == bt' \in Ends({TimedOut(Fresh(bt))})
Round == Quiet \/ Heard \/ ReadRequested \/ TimeOut

-----------------------------------------------------------------------------
(* cCommReq: requests of other modules, between rounds.                    *)

Refused(m, who, value) == IF who = "own" THEN m ELSE [m EXCEPT !.cell[who] = value]

(* BTBUSY goes into the cell of the request that is refused, also when a    *)
(* request with the same cell is under way.  taken is what becomes of an    *)
(* idle machine.                                                           *)
Ask(who, taken) ==
    bt' \in IF bt.act = "IDLE" THEN taken ELSE {Refused(Fresh(bt), who, "final")}

Idler == Fresh(bt)

(* Without the source file the call returns an error and leaves INPROGRESS. *)
SendFile(who) == \E c \in Slots, n \in 0 .. MaxBlocks :
    Ask(who, {[Begin(Idler, who, "SENDFILE") EXCEPT !.par.two = c, !.par.file = n, !.source = "open"],
              [Refused(Idler, who, "left") EXCEPT !.caller = who]})
ConnectTo(who) == \E c \in Slots :
    Ask(who, {IF bt.conn[c].open THEN [Refused(Idler, who, "final") EXCEPT !.caller = who]
              ELSE [Begin(Idler, who, "CONNECT") EXCEPT !.par.two = c]})
DisconnectFrom(who) == \E c \in Slots :
    Ask(who, {[Begin(Idler, who, "DISCONNECT") EXCEPT !.par.one = c]})
StopSearch ==
    bt' = CASE bt.act = "SEARCH" -> Answer([Idler EXCEPT !.caller = "ui", !.par.one = 1], "inprogress")
            [] bt.act = "IDLE" -> Answer([Idler EXCEPT !.caller = "ui"], "final")
            [] OTHER -> Refused(Idler, "ui", "final")
BtOn(who) ==
    Ask(who, {IF bt.off THEN Begin(Idler, who, "RESET")
              ELSE Answer([Idler EXCEPT !.caller = who], "final")})
SendDataOn == \E c \in Slots, reply \in BOOLEAN :
    Ask("CommStat",
        {IF bt.conn[c].named
         THEN [Begin(Idler, "CommStat", "SENDDATA") EXCEPT !.par.two = c, !.par.three = reply]
         ELSE [Refused(Idler, "CommStat", "left") EXCEPT !.caller = "CommStat"]})
OpenStreamOf == \E c \in Slots :
    Ask("own", {[Begin(Idler, "own", "OPENSTREAM") EXCEPT !.par.two = c]})
Simple(who, update) == Ask(who, {Begin(Idler, who, update)})

(* The menus wait for the result before they ask again, except to stop a    *)
(* search (Functions.inl.h:3236-3256).                                     *)
UiWaits == bt.cell["ui"] \in {"inprogress", "reqpin"}
UiAsks ==
    \/ /\ ~UiWaits
       /\ \/ SendFile("ui") \/ ConnectTo("ui") \/ DisconnectFrom("ui") \/ BtOn("ui")
          \/ \E u \in {"DISCONNECTALL", "SEARCH", "REMOVEDEVICE", "VISIBILITY", "OFF"} : Simple("ui", u)
    \/ StopSearch /\ (bt.act = "SEARCH" \/ ~UiWaits)

ProgramAsks ==
    \/ SendDataOn
    \/ OpenStreamOf \/ ConnectTo("own") \/ DisconnectFrom("own") \/ BtOn("own") \/ Simple("own", "OFF")

(* The end of a program asks until it is not refused (c_cmd.c:1689); a PC    *)
(* sets the name or the factory settings.                                  *)
ProgramEnds == Simple("CommStatReset", "REQCMDMODE")
PcAsks == Simple("own", "BRICKNAME") \/ Simple("own", "FACTORYRESET")

(* cCommPinCode: the user has entered a pin code.                          *)
PinCode ==
    /\ bt.cell["ui"] = "reqpin" \/ bt.act = "PINREQ"
    /\ bt' = [Fresh(bt) EXCEPT !.par.pin = TRUE,
                               !.cell = [c \in Cells |-> IF c = bt.caller /\ @[c] = "reqpin"
                                                         THEN "inprogress" ELSE @[c]]]

Next == Round \/ UiAsks \/ ProgramAsks \/ ProgramEnds \/ PcAsks \/ PinCode

vars == bt

(* The scheduler calls cCommCtrl in every round, the driver's buffer        *)
(* empties and counted waits end: a step that needs no message is taken.   *)
Progress == Quiet /\ <<bt'.act, bt'.cnt, bt'.par>> # <<bt.act, bt.cnt, bt.par>>

(* The chip leaves the stream when it is told to.                          *)
PinFalls == Quiet /\ bt.cnt["cmd"] = 2 /\ bt.pin /\ ~bt'.pin

(* A command that is not answered times out, but not in data mode          *)
(* (SETBtDataState stops the time-out) and not while no command is out.    *)
CommandTimesOut == TimeOut /\ bt.mode # "data" /\ ~(bt.act = "PINREQ" /\ State(bt) = 0)

Fairness == SF_vars(Progress) /\ SF_vars(PinFalls) /\ SF_vars(CommandTimesOut)

Spec == Init /\ [][Next]_vars
FairSpec == Spec /\ Fairness

-----------------------------------------------------------------------------
(* Properties.                                                             *)

Waits(c) == bt.cell[c] \in {"inprogress", "reqpin"}

(* A module that polls its cell for the result of a request that was taken  *)
(* is never left behind: the request is the one the machine works on, and   *)
(* the machine will write into this cell.  Time-outs, resets of the chip,   *)
(* failures in any state and requests of others come between (pRetVal and   *)
(* ActiveUpdate, c_comm.c:1453-1467, 3610-3806).                           *)
AnswersReach == \A c \in Cells : Waits(c) => bt.caller = c /\ bt.act # "IDLE"

(* A small machine runs only inside the state that called it, however that  *)
(* state was left: a switch counter that is not zero in an idle brick would *)
(* make cCommReceivedBtData throw the data of peers away for good           *)
(* (c_comm.c:1297).                                                        *)
Calls(c) ==
    CASE c = "stream" -> {<<"OPENSTREAM", 0>>, <<"SENDFILE", 0>>, <<"SENDDATA", 1>>}
      [] c = "cmd" -> {<<"FACTORYRESET", 2>>, <<"BRICKNAME", 3>>, <<"SENDFILE", 9>>}
                      \cup ({"REQCMDMODE", "SEARCH", "CONNECT", "DISCONNECT", "DISCONNECTALL",
                             "REMOVEDEVICE", "VISIBILITY", "OFF"} \X {0})
      [] c = "close" -> {"SEARCH", "CONNECT", "REMOVEDEVICE", "VISIBILITY"} \X {1}
      [] c = "disc" -> {<<"FACTORYRESET", 3>>, <<"DISCONNECTALL", 1>>, <<"OFF", 1>>}
      [] c = "reset" -> {"RESET", "FACTORYRESET", "BRICKNAME"} \X {1}
CountersAtRest == \A c \in Counters \ {"update"} :
    bt.cnt[c] # 0 => \/ <<bt.act, State(bt)>> \in Calls(c)
                     \/ c = "cmd" /\ bt.cnt["stream"] = 1
                     \/ c = "close" /\ bt.cnt["stream"] = 2

(* Commands go to a chip in command mode: to a chip that passes a stream    *)
(* they would be data of the stream, and "BC4 can crash" when the switch is *)
(* hurried (c_comm.c:3353).                                                *)
CommandsInCmdMode == bt.sent \notin {<<"command", "data">>, <<"command", "off">>}

(* At most one connection is marked as the open stream, it is a connection  *)
(* the brick has, and the mark survives the stream only until the chip      *)
(* reports the loss: otherwise the data for one peer would go to another    *)
(* (StreamStatus, c_comm.c:3126, 3401).                                    *)
OneStream ==
    /\ \A c, d \in Slots : bt.conn[c].stream /\ bt.conn[d].stream => c = d
    /\ \A c \in Slots : bt.conn[c].stream => bt.conn[c].open /\ (bt.mode = "data" \/ bt.lost = c)

(* The source file of a transfer is closed by every way through SENDFILE,   *)
(* and not twice (the handle may be another file's by then): it is open in  *)
(* states 0 to 8 and in no other.  What a time-out, a reset of the chip or  *)
(* a stream that cannot be opened break off is "lost" (c_comm.c:2275).      *)
SourceHeld == bt.source = "open" <=> bt.act = "SENDFILE" /\ State(bt) <= 8

(* Every request that was taken is answered.                               *)
RequestsAreAnswered == \A c \in Cells : Waits(c) ~> ~Waits(c)

(* What the program's write call takes for granted: "INPROGRESS means our   *)
(* request was accepted" (c_cmd.c:8736).                                   *)
InProgressIsAccepted ==
    bt.cell["CommStat"] \in {"inprogress", "left"} => bt.caller = "CommStat" /\ bt.act # "IDLE"

=============================================================================
