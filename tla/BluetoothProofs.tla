--------------------------- MODULE BluetoothProofs ---------------------------
(***************************************************************************)
(* Proofs about Bluetooth, for any number of connections, any size of      *)
(* files and messages and any time-out: results reach who waits for them,  *)
(* counters are at rest, commands go to a chip in command mode, there is   *)
(* one stream, and the source of a transfer is closed.                     *)
(*                                                                         *)
(* The machine is a function from a record to a set of records, so the     *)
(* lemmas are about records: what each small step changes, that each of    *)
(* the smaller machines and each request keeps Good, and then that the     *)
(* interpreter of messages, the pin and the requests of other modules do.  *)
(***************************************************************************)
EXTENDS Bluetooth, FiniteSetTheorems, WellFoundedInduction, TLAPS

-----------------------------------------------------------------------------
(* The inductive invariant.                                                *)

WaitsIn(m, c) == m.cell[c] \in {"inprogress", "reqpin"}
NoStream(m) == \A c \in Slots : ~m.conn[c].stream
AtRest(m) == /\ m.cnt["stream"] = 0 /\ m.cnt["cmd"] = 0 /\ m.cnt["close"] = 0
             /\ m.cnt["disc"] = 0 /\ m.cnt["reset"] = 0

(* Only the one who has asked waits; nobody does when the machine is idle.  *)
OnlyCallerWaits(m) == \A c \in Cells : WaitsIn(m, c) => m.caller = c
Asked(m) ==
    /\ OnlyCallerWaits(m)
    /\ m.act = "IDLE" => \A c \in Cells : ~WaitsIn(m, c)
    /\ m.act = "SEARCH" => m.caller = "ui"
    /\ m.act = "PINREQ" => m.caller = "own"

(* What is true of the chip and the connections whatever is asked for.      *)
Radio(m) ==
    /\ m.mode = "off" => m.off
    /\ m.sent \notin {<<"command", "data">>, <<"command", "off">>}
    /\ \A c, d \in Slots : m.conn[c].stream /\ m.conn[d].stream => c = d
    /\ \A c \in Slots : m.conn[c].stream =>
          m.conn[c].open /\ (m.lost = c \/ (m.mode = "data" /\ m.pin))
    /\ m.pin => m.lost = None

(* A request that ends with a stream, and whose connection is open when the *)
(* chip reports it.                                                        *)
Wants(m) == \/ m.act \in {"OPENSTREAM", "SENDFILE", "SENDDATA", "CONNECTREQ"}
            \/ m.act = "BRICKNAME" /\ m.par.reopen # None

(* What holds in every state of a request.                                 *)
Steady(m) ==
    /\ m.cnt["stream"] <= 4 /\ m.cnt["cmd"] <= 2 /\ m.cnt["close"] <= 1
    /\ m.cnt["disc"] <= 2 /\ m.cnt["reset"] <= 3
    /\ Asked(m)
    /\ Radio(m)
    /\ m.cnt["stream"] >= 2 \/ m.act \in {"PINREQ", "CONNECTREQ"} => m.mode = "cmd"
    /\ m.cnt["cmd"] \in {1, 2} \/ m.cnt["reset"] = 3 => NoStream(m)
    /\ m.mode = "cmd" /\ m.pin /\ Wants(m) => m.conn[Wanted(m)].open
    /\ m.act = "DISCONNECT" => m.par.one \in Slots
    /\ m.act = "EXTREAD" => 1 <= m.par.msg

(* The last state of each request.                                         *)
Lasts(u, k) ==
    /\ u = "RESET" => k <= 9
    /\ u = "FACTORYRESET" => k <= 5
    /\ u \in {"BRICKNAME", "CONNECT"} => k <= 6
    /\ u \in {"REQCMDMODE", "OPENSTREAM", "EXTREAD", "PINREQ"} => k <= 1
    /\ u = "SENDFILE" => k <= 10
    /\ u = "SEARCH" => k <= 8
    /\ u \in {"CONNECTREQ", "SENDDATA"} => k <= 4
    /\ u \in {"DISCONNECT", "DISCONNECTALL"} => k <= 2
    /\ u \in {"REMOVEDEVICE", "VISIBILITY", "OFF"} => k <= 3
    /\ u = "IDLE" => k = 0

(* The states in which a request u is in one of the smaller machines.       *)
Opens(u, k) == \/ u \in {"OPENSTREAM", "SENDFILE"} /\ k = 0
               \/ u = "SENDDATA" /\ k = 1
FirstSwitches == {"REQCMDMODE", "SEARCH", "CONNECT", "DISCONNECT", "DISCONNECTALL",
                  "REMOVEDEVICE", "VISIBILITY", "OFF"}
Switches(u, k) == \/ u \in FirstSwitches /\ k = 0
                  \/ u = "FACTORYRESET" /\ k = 2
                  \/ u = "BRICKNAME" /\ k = 3
                  \/ u = "SENDFILE" /\ k = 9
Closes(u, k) == u \in {"SEARCH", "CONNECT", "REMOVEDEVICE", "VISIBILITY"} /\ k = 1
Disconnects(u, k) == \/ u = "FACTORYRESET" /\ k = 3
                     \/ u \in {"DISCONNECTALL", "OFF"} /\ k = 1
Resets(u, k) == u \in {"RESET", "FACTORYRESET", "BRICKNAME"} /\ k = 1

(* From these states on the chip is in command mode.                       *)
NeedsCmd(u, k) ==
    \/ u = "RESET" /\ k >= 2
    \/ u = "FACTORYRESET" /\ k >= 3
    \/ u = "BRICKNAME" /\ k >= 4
    \/ u \in FirstSwitches /\ k >= 1

(* What a request may have left when it is in state k.                     *)
Fits(m, k) ==
    /\ Lasts(m.act, k)
    /\ m.cnt["stream"] # 0 => Opens(m.act, k)
    /\ m.cnt["cmd"] # 0 => Switches(m.act, k) \/ m.cnt["stream"] = 1
    /\ m.cnt["close"] # 0 => Closes(m.act, k) \/ m.cnt["stream"] = 2
    /\ m.cnt["disc"] # 0 => Disconnects(m.act, k)
    /\ m.cnt["reset"] # 0 => Resets(m.act, k)
    /\ NeedsCmd(m.act, k) => m.mode = "cmd"
    /\ m.act = "RESET" /\ k \in 1 .. 7 => m.off
    /\ m.act = "IDLE" \/ (m.act = "BRICKNAME" /\ k <= 1) => m.par.reopen = None
    /\ m.act = "BRICKNAME" /\ k = 2 => m.mode # "off"
    /\ m.act = "BRICKNAME" /\ k = 6 => m.par.reopen # None
    /\ m.act = "SENDFILE" /\ k >= 8 => \A c \in Cells : ~WaitsIn(m, c)
    /\ m.act = "SENDFILE" /\ k = 4 => 1 <= m.par.msg /\ m.par.msg <= m.par.file
    /\ m.act = "EXTREAD" /\ k = 0 => 2 <= m.par.msg
    /\ m.source = "open" <=> m.act = "SENDFILE" /\ k <= 8

Good(m) == m \in Machine /\ Steady(m) /\ Fits(m, State(m))

(* Between rounds an idle brick has followed the chip.                     *)
IInv == Good(bt) /\ (bt.act = "IDLE" /\ bt.mode = "cmd" => ~bt.pin)

-----------------------------------------------------------------------------
(* The small steps: what they change of a record.                          *)

LEMMA Fields ==
  ASSUME NEW m \in Machine
  PROVE  /\ m.act \in Updates /\ m.cnt \in [Counters -> 0 .. 10] /\ m.par \in Params
         /\ m.caller \in Cells \cup {"own"} /\ m.cell \in [Cells -> CellValues]
         /\ m.mode \in {"cmd", "data", "off"} /\ m.pin \in BOOLEAN /\ m.conn \in [Slots -> Connection]
         /\ m.off \in BOOLEAN /\ m.source \in {"closed", "open", "lost"}
         /\ m.lost \in Slots \cup {None}
         /\ m.sent \in {None} \cup ({"command", "data"} \X {"cmd", "data", "off"})
BY DEF Machine

LEMMA CounterFields ==
  ASSUME NEW m \in Machine
  PROVE  /\ State(m) \in 0 .. 10 /\ m.cnt["update"] \in 0 .. 10
         /\ m.cnt["stream"] \in 0 .. 10 /\ m.cnt["cmd"] \in 0 .. 10
         /\ m.cnt["close"] \in 0 .. 10 /\ m.cnt["disc"] \in 0 .. 10 /\ m.cnt["reset"] \in 0 .. 10
BY Fields DEF State, Counters

SameButCounters(u, m) ==
    /\ u.act = m.act /\ u.par = m.par /\ u.caller = m.caller /\ u.cell = m.cell
    /\ u.mode = m.mode /\ u.pin = m.pin /\ u.conn = m.conn /\ u.off = m.off
    /\ u.source = m.source /\ u.lost = m.lost /\ u.sent = m.sent

LEMMA TheCounters ==
  /\ "update" \in Counters /\ "stream" \in Counters /\ "cmd" \in Counters
  /\ "close" \in Counters /\ "disc" \in Counters /\ "reset" \in Counters
BY DEF Counters

LEMMA GotoFacts ==
  ASSUME NEW m \in Machine, NEW n \in 0 .. 10
  PROVE  /\ Goto(m, n) \in Machine /\ Goto(m, n).cnt = [m.cnt EXCEPT !["update"] = n]
         /\ SameButCounters(Goto(m, n), m)
<1>1. Goto(m, n) \in Machine
  BY Fields DEF Goto, Machine
<1> QED
  BY <1>1, Fields DEF Goto, Machine, SameButCounters

LEMMA AdvanceFacts ==
  ASSUME NEW m \in Machine, NEW c \in Counters, m.cnt[c] \in 0 .. 9
  PROVE  /\ Advance(m, c) \in Machine /\ Advance(m, c).cnt = [m.cnt EXCEPT ![c] = m.cnt[c] + 1]
         /\ SameButCounters(Advance(m, c), m)
<1>1. Advance(m, c) \in Machine
  BY Fields DEF Advance, Machine
<1> QED
  BY <1>1, Fields DEF Advance, Machine, SameButCounters

LEMMA ThenIsGoto ==
  ASSUME NEW m \in Machine
  PROVE  Then(m) = Goto(m, State(m) + 1)
BY DEF Then, Advance, Goto, State, Machine

LEMMA GotoKeeps ==
  ASSUME NEW m \in Machine, NEW n \in 0 .. 10, Steady(m), Fits(m, n)
  PROVE  Good(Goto(m, n))
<1> DEFINE u == Goto(m, n)
<1>1. /\ u \in Machine
      /\ u.cnt["update"] = n /\ u.cnt["stream"] = m.cnt["stream"] /\ u.cnt["cmd"] = m.cnt["cmd"]
      /\ u.cnt["close"] = m.cnt["close"] /\ u.cnt["disc"] = m.cnt["disc"] /\ u.cnt["reset"] = m.cnt["reset"]
      /\ u.act = m.act /\ u.par = m.par /\ u.caller = m.caller /\ u.cell = m.cell /\ u.mode = m.mode
      /\ u.pin = m.pin /\ u.conn = m.conn /\ u.off = m.off /\ u.source = m.source /\ u.lost = m.lost
      /\ u.sent = m.sent
  <2>1. m.cnt \in [Counters -> 0 .. 10] /\ "update" \in Counters
    BY Fields, TheCounters
  <2>2. u \in Machine
    BY GotoFacts
  <2>3. u.cnt = [m.cnt EXCEPT !["update"] = n]
    BY GotoFacts
  <2>4. SameButCounters(u, m)
    BY GotoFacts
  <2> HIDE DEF u
  <2> QED
    BY <2>1, <2>2, <2>3, <2>4 DEF SameButCounters, Counters
<1> HIDE DEF u
<1>2. Steady(u)
  <2>1. Asked(u)
    BY <1>1 DEF Steady, Asked, OnlyCallerWaits, WaitsIn
  <2>2. Radio(u)
    BY <1>1 DEF Steady, Radio
  <2>3. Wants(u) = Wants(m) /\ Wanted(u) = Wanted(m) /\ NoStream(u) = NoStream(m)
    BY <1>1 DEF Wants, Wanted, NoStream
  <2> QED
    BY <1>1, <2>1, <2>2, <2>3 DEF Steady
<1>3. Fits(u, n)
  BY <1>1 DEF Fits, WaitsIn
<1> QED
  BY <1>1, <1>2, <1>3 DEF Good, State, u

(* What a command or a message of a stream changes.                        *)
LEMMA SendCmdFacts ==
  ASSUME NEW m \in Machine, m.mode = "cmd"
  PROVE  /\ SendCmd(m) \in Machine
         /\ SendCmd(m).sent \notin {<<"command", "data">>, <<"command", "off">>}
         /\ SendCmd(m).act = m.act /\ SendCmd(m).cnt = m.cnt /\ SendCmd(m).par = m.par
         /\ SendCmd(m).caller = m.caller /\ SendCmd(m).cell = m.cell /\ SendCmd(m).mode = m.mode
         /\ SendCmd(m).pin = m.pin /\ SendCmd(m).conn = m.conn /\ SendCmd(m).off = m.off
         /\ SendCmd(m).source = m.source /\ SendCmd(m).lost = m.lost
BY Fields DEF SendCmd, Machine

LEMMA SendDataFacts ==
  ASSUME NEW m \in Machine
  PROVE  /\ SendData(m) \in Machine
         /\ SendData(m).sent \notin {<<"command", "data">>, <<"command", "off">>}
         /\ SendData(m).act = m.act /\ SendData(m).cnt = m.cnt /\ SendData(m).par = m.par
         /\ SendData(m).caller = m.caller /\ SendData(m).cell = m.cell /\ SendData(m).mode = m.mode
         /\ SendData(m).pin = m.pin /\ SendData(m).conn = m.conn /\ SendData(m).off = m.off
         /\ SendData(m).source = m.source /\ SendData(m).lost = m.lost
BY Fields DEF SendData, Machine

(* A state that differs only in what was sent last.                        *)
LEMMA SentKeeps ==
  ASSUME NEW m, Good(m),
         NEW u \in Machine,
         u.sent \notin {<<"command", "data">>, <<"command", "off">>},
         u.act = m.act, u.cnt = m.cnt, u.par = m.par, u.caller = m.caller, u.cell = m.cell,
         u.mode = m.mode, u.pin = m.pin, u.conn = m.conn, u.off = m.off,
         u.source = m.source, u.lost = m.lost
  PROVE  Good(u)
<1>1. m \in Machine /\ Steady(m) /\ Fits(m, State(m))
  BY DEF Good
<1>2. Steady(u)
  <2>1. Asked(u)
    BY <1>1 DEF Steady, Asked, OnlyCallerWaits, WaitsIn
  <2>2. Radio(u)
    BY <1>1 DEF Steady, Radio
  <2>3. Wants(u) = Wants(m) /\ Wanted(u) = Wanted(m) /\ NoStream(u) = NoStream(m)
    BY DEF Wants, Wanted, NoStream
  <2> QED
    BY <1>1, <2>1, <2>2, <2>3 DEF Steady
<1>3. State(u) = State(m)
  BY DEF State
<1>4. Fits(u, State(m))
  BY <1>1 DEF Fits, WaitsIn
<1> QED
  BY <1>2, <1>3, <1>4 DEF Good

LEMMA CmdKeeps ==
  ASSUME NEW m, Good(m), m.mode = "cmd"
  PROVE  Good(SendCmd(m))
<1>1. m \in Machine
  BY DEF Good
<1> DEFINE u == SendCmd(m)
<1>2. /\ u \in Machine /\ u.sent \notin {<<"command", "data">>, <<"command", "off">>}
      /\ u.act = m.act /\ u.cnt = m.cnt /\ u.par = m.par /\ u.caller = m.caller /\ u.cell = m.cell
      /\ u.mode = m.mode /\ u.pin = m.pin /\ u.conn = m.conn /\ u.off = m.off
      /\ u.source = m.source /\ u.lost = m.lost
  BY <1>1, SendCmdFacts
<1> HIDE DEF u
<1>3. Good(u)
  BY <1>2, SentKeeps
<1> QED
  BY <1>3 DEF u

LEMMA DataKeeps ==
  ASSUME NEW m, Good(m)
  PROVE  Good(SendData(m))
<1>1. m \in Machine
  BY DEF Good
<1> DEFINE u == SendData(m)
<1>2. /\ u \in Machine /\ u.sent \notin {<<"command", "data">>, <<"command", "off">>}
      /\ u.act = m.act /\ u.cnt = m.cnt /\ u.par = m.par /\ u.caller = m.caller /\ u.cell = m.cell
      /\ u.mode = m.mode /\ u.pin = m.pin /\ u.conn = m.conn /\ u.off = m.off
      /\ u.source = m.source /\ u.lost = m.lost
  BY <1>1, SendDataFacts
<1> HIDE DEF u
<1>3. Good(u)
  BY <1>2, SentKeeps
<1> QED
  BY <1>3 DEF u

-----------------------------------------------------------------------------
(* The end of a request: the answer, and an idle machine.                   *)

LEMMA AnswerFacts ==
  ASSUME NEW m \in Machine, NEW v \in CellValues
  PROVE  /\ Answer(m, v) \in Machine
         /\ \A c \in Cells : Answer(m, v).cell[c] = IF c = m.caller THEN v ELSE m.cell[c]
         /\ Answer(m, v).act = m.act /\ Answer(m, v).cnt = m.cnt /\ Answer(m, v).par = m.par
         /\ Answer(m, v).caller = m.caller /\ Answer(m, v).mode = m.mode
         /\ Answer(m, v).pin = m.pin /\ Answer(m, v).conn = m.conn /\ Answer(m, v).off = m.off
         /\ Answer(m, v).source = m.source /\ Answer(m, v).lost = m.lost /\ Answer(m, v).sent = m.sent
<1>1. CASE m.caller = "own"
  BY <1>1, Fields DEF Answer, Cells
<1>2. CASE m.caller # "own"
  BY <1>2, Fields DEF Answer, Machine
<1> QED
  BY <1>1, <1>2

LEMMA NoParamsType == NoParams \in Params
<1>1. 0 \in Slots
  BY BluetoothConstants DEF Slots
<1> QED
  BY <1>1, BluetoothConstants DEF NoParams, Params

LEMMA IdleFacts ==
  ASSUME NEW m \in Machine
  PROVE  /\ Idle(m) \in Machine
         /\ Idle(m).act = "IDLE" /\ Idle(m).cnt = AllZero /\ Idle(m).par = NoParams
         /\ Idle(m).caller = m.caller /\ Idle(m).cell = m.cell /\ Idle(m).mode = m.mode
         /\ Idle(m).pin = m.pin /\ Idle(m).conn = m.conn /\ Idle(m).off = m.off
         /\ Idle(m).source = m.source /\ Idle(m).lost = m.lost /\ Idle(m).sent = m.sent
<1>1. AllZero \in [Counters -> 0 .. 10] /\ "IDLE" \in Updates
  BY DEF AllZero, Updates
<1> QED
  BY <1>1, NoParamsType, Fields DEF Idle, Machine

(* Whatever the request was: idle is a good state when nobody waits and the  *)
(* source is not open.                                                     *)
LEMMA RestKeeps ==
  ASSUME NEW m \in Machine, NEW u \in Machine,
         Radio(m),
         u.act = "IDLE", u.cnt = AllZero, u.par.reopen = None, u.mode = m.mode, u.pin = m.pin, u.conn = m.conn,
         u.off = m.off, u.lost = m.lost, u.sent = m.sent,
         \A c \in Cells : ~WaitsIn(u, c),
         u.source # "open"
  PROVE  Good(u)
<1>1. /\ u.cnt["update"] = 0 /\ u.cnt["stream"] = 0 /\ u.cnt["cmd"] = 0
      /\ u.cnt["close"] = 0 /\ u.cnt["disc"] = 0 /\ u.cnt["reset"] = 0
  BY DEF AllZero, Counters
<1>2. Asked(u)
  BY DEF Asked, OnlyCallerWaits
<1>3. Radio(u)
  BY DEF Radio
<1>4. ~Wants(u)
  BY DEF Wants
<1>5. Steady(u)
  BY <1>1, <1>2, <1>3, <1>4 DEF Steady
<1>6. Fits(u, 0)
  BY <1>1 DEF Fits, Lasts, NeedsCmd, FirstSwitches
<1> QED
  BY <1>1, <1>5, <1>6 DEF Good, State

LEMMA IdleKeeps ==
  ASSUME NEW m \in Machine, Radio(m), m.source # "open", \A c \in Cells : ~WaitsIn(m, c)
  PROVE  Good(Idle(m))
<1> DEFINE u == Idle(m)
<1>1. /\ u \in Machine /\ u.act = "IDLE" /\ u.cnt = AllZero /\ u.mode = m.mode /\ u.pin = m.pin
      /\ u.conn = m.conn /\ u.off = m.off /\ u.lost = m.lost /\ u.sent = m.sent /\ u.cell = m.cell
      /\ u.source = m.source /\ u.par.reopen = None
  BY IdleFacts DEF NoParams
<1> HIDE DEF u
<1>2. \A c \in Cells : ~WaitsIn(u, c)
  BY <1>1 DEF WaitsIn
<1>3. Good(u)
  BY <1>1, <1>2, RestKeeps
<1> QED
  BY <1>3 DEF u

LEMMA DoneFacts ==
  ASSUME NEW m \in Machine, OnlyCallerWaits(m)
  PROVE  LET u == Answer(m, "final") IN
         /\ u \in Machine /\ u.mode = m.mode /\ u.pin = m.pin /\ u.conn = m.conn /\ u.off = m.off
         /\ u.lost = m.lost /\ u.sent = m.sent /\ u.source = m.source
         /\ \A c \in Cells : ~WaitsIn(u, c)
<1> DEFINE u == Answer(m, "final")
<1>1. /\ u \in Machine /\ u.mode = m.mode /\ u.pin = m.pin /\ u.conn = m.conn /\ u.off = m.off
      /\ u.lost = m.lost /\ u.sent = m.sent /\ u.source = m.source
      /\ \A c \in Cells : u.cell[c] = IF c = m.caller THEN "final" ELSE m.cell[c]
  BY AnswerFacts DEF CellValues
<1> HIDE DEF u
<1>2. \A c \in Cells : ~WaitsIn(u, c)
  BY <1>1 DEF WaitsIn, OnlyCallerWaits
<1> QED
  BY <1>1, <1>2 DEF u

LEMMA DoneKeeps ==
  ASSUME NEW m \in Machine, Radio(m), OnlyCallerWaits(m), m.source # "open"
  PROVE  Good(Done(m))
<1> DEFINE u == Answer(m, "final")
<1>1. /\ u \in Machine /\ u.mode = m.mode /\ u.pin = m.pin /\ u.conn = m.conn /\ u.off = m.off
      /\ u.lost = m.lost /\ u.sent = m.sent /\ u.source = m.source
      /\ \A c \in Cells : ~WaitsIn(u, c)
  BY DoneFacts
<1> HIDE DEF u
<1>2. Radio(u)
  BY <1>1 DEF Radio
<1>3. Good(Idle(u))
  BY <1>1, <1>2, IdleKeeps
<1> QED
  BY <1>3 DEF Done, u

LEMMA BrokenOffKeeps ==
  ASSUME NEW m \in Machine, Radio(m), \A c \in Cells : ~WaitsIn(m, c)
  PROVE  Good(BrokenOff(m))
<1> DEFINE i == Idle(m)
           u == BrokenOff(m)
<1>1. /\ i \in Machine /\ i.act = "IDLE" /\ i.cnt = AllZero /\ i.mode = m.mode /\ i.pin = m.pin
      /\ i.conn = m.conn /\ i.off = m.off /\ i.lost = m.lost /\ i.sent = m.sent /\ i.cell = m.cell
      /\ i.source = m.source /\ i.par.reopen = None
  BY IdleFacts DEF NoParams
<1>2. u = [i EXCEPT !.source = IF @ = "open" THEN "lost" ELSE @]
  BY DEF BrokenOff
<1> HIDE DEF i, u
<1>3. /\ u \in Machine /\ u.act = "IDLE" /\ u.cnt = AllZero /\ u.mode = m.mode /\ u.pin = m.pin
      /\ u.conn = m.conn /\ u.off = m.off /\ u.lost = m.lost /\ u.sent = m.sent /\ u.cell = m.cell
      /\ u.source # "open" /\ u.par.reopen = None
  BY <1>1, <1>2, Fields DEF Machine
<1>4. \A c \in Cells : ~WaitsIn(u, c)
  BY <1>3 DEF WaitsIn
<1>5. Good(u)
  BY <1>3, <1>4, RestKeeps
<1> QED
  BY <1>5 DEF u

LEMMA AnsweredBrokenOffKeeps ==
  ASSUME NEW m \in Machine, Radio(m), OnlyCallerWaits(m)
  PROVE  Good(BrokenOff(Answer(m, "final")))
<1> DEFINE u == Answer(m, "final")
<1>1. /\ u \in Machine /\ u.mode = m.mode /\ u.pin = m.pin /\ u.conn = m.conn /\ u.off = m.off
      /\ u.lost = m.lost /\ u.sent = m.sent /\ u.source = m.source
      /\ \A c \in Cells : ~WaitsIn(u, c)
  BY DoneFacts
<1> HIDE DEF u
<1>2. Radio(u)
  BY <1>1 DEF Radio
<1>3. Good(BrokenOff(u))
  BY <1>1, <1>2, BrokenOffKeeps
<1> QED
  BY <1>3 DEF u

-----------------------------------------------------------------------------
(* How a request goes on and how it ends, with and without a last message.  *)

LEMMA Continues ==
  ASSUME NEW m, Good(m), NEW n \in 0 .. 10, Fits(m, n)
  PROVE  /\ Good(Goto(m, n))
         /\ Good(SendData(Goto(m, n)))
         /\ m.mode = "cmd" => Good(SendCmd(Goto(m, n)))
<1>1. m \in Machine /\ Steady(m)
  BY DEF Good
<1> DEFINE u == Goto(m, n)
<1>2. Good(u)
  BY <1>1, GotoKeeps
<1>3. u.mode = m.mode
  BY <1>1, GotoFacts DEF SameButCounters
<1> HIDE DEF u
<1>4. Good(SendData(u)) /\ (m.mode = "cmd" => Good(SendCmd(u)))
  BY <1>2, <1>3, CmdKeeps, DataKeeps
<1> QED
  BY <1>2, <1>4 DEF u

LEMMA NextState ==
  ASSUME NEW m, Good(m), State(m) < 10, Fits(m, State(m) + 1)
  PROVE  /\ Good(Then(m))
         /\ Good(SendData(Then(m)))
         /\ m.mode = "cmd" => Good(SendCmd(Then(m)))
<1>1. m \in Machine
  BY DEF Good
<1>2. State(m) + 1 \in 0 .. 10
  BY <1>1, CounterFields
<1>3. Then(m) = Goto(m, State(m) + 1)
  BY <1>1, ThenIsGoto
<1> QED
  BY <1>2, <1>3, Continues

LEMMA EndKeeps ==
  ASSUME NEW m, Good(m), m.source # "open"
  PROVE  Good(Done(m)) /\ (m.mode = "cmd" => Good(Done(SendCmd(m))))
<1>1. \A v : Good(v) /\ v.source # "open" => Good(Done(v))
  <2> SUFFICES ASSUME NEW v, Good(v), v.source # "open" PROVE Good(Done(v))
    OBVIOUS
  <2>1. v \in Machine /\ Radio(v) /\ OnlyCallerWaits(v)
    BY DEF Good, Steady, Asked
  <2> QED
    BY <2>1, DoneKeeps
<1>2. ASSUME m.mode = "cmd" PROVE Good(SendCmd(m)) /\ SendCmd(m).source = m.source
  BY <1>2, CmdKeeps, SendCmdFacts DEF Good
<1> QED
  BY <1>1, <1>2

-----------------------------------------------------------------------------
(* The switch to command mode.                                             *)

LEMMA LeaveKeeps ==
  ASSUME NEW m, Good(m), m.cnt["cmd"] = 2, ~m.pin
  PROVE  LET u == [CmdMode(m) EXCEPT !.cnt["cmd"] = 0] IN
         /\ Good(u) /\ u.mode = "cmd" /\ u.cnt["cmd"] = 0 /\ u.act = m.act /\ State(u) = State(m)
         /\ u.cnt["stream"] = m.cnt["stream"]
<1>1. m \in Machine /\ Steady(m) /\ Fits(m, State(m))
  BY DEF Good
<1>2. m.cnt \in [Counters -> 0 .. 10]
  BY <1>1, Fields
<1> DEFINE v == CmdMode(m)
           u == [v EXCEPT !.cnt["cmd"] = 0]
<1>3. /\ v \in Machine /\ v.cnt = m.cnt /\ v.mode = "cmd"
      /\ v.act = m.act /\ v.par = m.par /\ v.caller = m.caller /\ v.cell = m.cell /\ v.pin = m.pin
      /\ v.conn = m.conn /\ v.off = m.off /\ v.source = m.source /\ v.lost = m.lost /\ v.sent = m.sent
  BY <1>1, Fields DEF CmdMode, Machine
<1> HIDE DEF v
<1>4. /\ u \in Machine /\ u.cnt = [m.cnt EXCEPT !["cmd"] = 0] /\ u.mode = "cmd"
      /\ u.act = m.act /\ u.par = m.par /\ u.caller = m.caller /\ u.cell = m.cell /\ u.pin = m.pin
      /\ u.conn = m.conn /\ u.off = m.off /\ u.source = m.source /\ u.lost = m.lost /\ u.sent = m.sent
  <2>1. u \in Machine
    BY <1>2, <1>3, Fields DEF Machine
  <2> QED
    BY <1>2, <1>3, <2>1 DEF Machine
<1> HIDE DEF u
<1>5. /\ u.cnt["cmd"] = 0 /\ u.cnt["update"] = m.cnt["update"] /\ u.cnt["stream"] = m.cnt["stream"]
      /\ u.cnt["close"] = m.cnt["close"] /\ u.cnt["disc"] = m.cnt["disc"] /\ u.cnt["reset"] = m.cnt["reset"]
  BY <1>2, <1>4 DEF Counters
<1>6. NoStream(m)
  BY <1>1 DEF Steady
<1>7. Asked(u)
  BY <1>1, <1>4 DEF Steady, Asked, OnlyCallerWaits, WaitsIn
<1>8. Radio(u)
  BY <1>1, <1>4, <1>6 DEF Steady, Radio, NoStream
<1>9. Steady(u)
  BY <1>1, <1>4, <1>5, <1>6, <1>7, <1>8 DEF Steady, NoStream
<1>10. Fits(u, State(m))
  BY <1>1, <1>4, <1>5 DEF Fits, WaitsIn
<1>11. State(u) = State(m)
  BY <1>5 DEF State
<1> QED
  BY <1>4, <1>5, <1>9, <1>10, <1>11 DEF Good, u, v

LEMMA SwitchedKeeps ==
  ASSUME NEW m, Good(m), m.cnt["cmd"] = 0, m.mode = "cmd", Switches(m.act, State(m))
  PROVE  Good(Advance(m, "update"))
<1>1. m \in Machine /\ Fits(m, State(m))
  BY DEF Good
<1>2. State(m) \in 0 .. 10
  BY <1>1, CounterFields
<1>3. State(m) < 10 /\ Fits(m, State(m) + 1)
  BY <1>1, <1>2 DEF Fits, Lasts, Opens, Switches, Closes, Disconnects, Resets, NeedsCmd, FirstSwitches
<1>4. Good(Then(m))
  BY <1>3, NextState
<1> QED
  BY <1>4 DEF Then

LEMMA CountersKeep ==
  ASSUME NEW m, Good(m), NEW u \in Machine, SameButCounters(u, m), State(u) = State(m),
         /\ u.cnt["stream"] <= 4 /\ u.cnt["cmd"] <= 2 /\ u.cnt["close"] <= 1
         /\ u.cnt["disc"] <= 2 /\ u.cnt["reset"] <= 3,
         u.cnt["stream"] >= 2 => m.mode = "cmd",
         u.cnt["cmd"] \in {1, 2} \/ u.cnt["reset"] = 3 => NoStream(m),
         u.cnt["stream"] # 0 => Opens(m.act, State(m)),
         u.cnt["cmd"] # 0 => Switches(m.act, State(m)) \/ u.cnt["stream"] = 1,
         u.cnt["close"] # 0 => Closes(m.act, State(m)) \/ u.cnt["stream"] = 2,
         u.cnt["disc"] # 0 => Disconnects(m.act, State(m)),
         u.cnt["reset"] # 0 => Resets(m.act, State(m))
  PROVE  Good(u)
<1>1. m \in Machine /\ Steady(m) /\ Fits(m, State(m))
  BY DEF Good
<1>2. /\ u.act = m.act /\ u.par = m.par /\ u.caller = m.caller /\ u.cell = m.cell
      /\ u.mode = m.mode /\ u.pin = m.pin /\ u.conn = m.conn /\ u.off = m.off
      /\ u.source = m.source /\ u.lost = m.lost /\ u.sent = m.sent
  BY DEF SameButCounters
<1>3. Asked(u)
  BY <1>1, <1>2 DEF Steady, Asked, OnlyCallerWaits, WaitsIn
<1>4. Radio(u)
  BY <1>1, <1>2 DEF Steady, Radio
<1>5. Wants(u) = Wants(m) /\ Wanted(u) = Wanted(m) /\ NoStream(u) = NoStream(m)
  BY <1>2 DEF Wants, Wanted, NoStream
<1>6. Steady(u)
  BY <1>1, <1>2, <1>3, <1>4, <1>5 DEF Steady
<1>7. Fits(u, State(m))
  BY <1>1, <1>2 DEF Fits, WaitsIn
<1> QED
  BY <1>6, <1>7 DEF Good

LEMMA ClearKeeps ==
  ASSUME NEW m, Good(m)
  PROVE  LET u == ClearStreamStatus(m) IN
         /\ Good(u) /\ NoStream(u) /\ u.act = m.act /\ u.cnt = m.cnt /\ u.mode = m.mode
<1>1. m \in Machine /\ Steady(m) /\ Fits(m, State(m))
  BY DEF Good
<1> DEFINE u == ClearStreamStatus(m)
<1>2. /\ u.conn = [c \in Slots |-> [m.conn[c] EXCEPT !.stream = FALSE]]
      /\ u.cnt = m.cnt /\ u.mode = m.mode
      /\ u.act = m.act /\ u.par = m.par /\ u.caller = m.caller /\ u.cell = m.cell /\ u.pin = m.pin
      /\ u.off = m.off /\ u.source = m.source /\ u.lost = m.lost /\ u.sent = m.sent
  BY <1>1 DEF ClearStreamStatus, Machine
<1>3. m.conn \in [Slots -> Connection]
  BY <1>1, Fields
<1>4. /\ u.conn \in [Slots -> Connection]
      /\ \A c \in Slots : ~u.conn[c].stream /\ u.conn[c].open = m.conn[c].open
  <2> DEFINE Unmarked(r) == [r EXCEPT !.stream = FALSE]
  <2>1. \A r \in Connection : Unmarked(r) \in Connection /\ ~Unmarked(r).stream /\ Unmarked(r).open = r.open
    BY DEF Connection
  <2>2. u.conn = [c \in Slots |-> Unmarked(m.conn[c])]
    BY <1>2
  <2> HIDE DEF Unmarked, u
  <2>3. \A c \in Slots : m.conn[c] \in Connection /\ u.conn[c] = Unmarked(m.conn[c])
    BY <1>3, <2>2
  <2> QED
    BY <2>1, <2>2, <2>3
<1>5. u \in Machine
  BY <1>1, <1>2, <1>4, Fields DEF ClearStreamStatus, Machine
<1> HIDE DEF u
<1>6. NoStream(u)
  BY <1>4 DEF NoStream
<1>7. Asked(u)
  BY <1>1, <1>2 DEF Steady, Asked, OnlyCallerWaits, WaitsIn
<1>8. Radio(u)
  BY <1>1, <1>2, <1>4 DEF Steady, Radio
<1>9. m.mode = "cmd" /\ m.pin /\ Wants(u) => u.conn[Wanted(u)].open
  <2>1. Wants(u) = Wants(m) /\ Wanted(u) = Wanted(m)
    BY <1>2 DEF Wants, Wanted
  <2>2. Wants(m) => Wanted(m) \in Slots
    BY <1>1, Fields, BluetoothConstants DEF Wants, Wanted, Params, Slots
  <2> QED
    BY <1>1, <1>4, <2>1, <2>2 DEF Steady
<1>10. Steady(u)
  BY <1>1, <1>2, <1>6, <1>7, <1>8, <1>9 DEF Steady
<1>11. Fits(u, State(m)) /\ State(u) = State(m)
  BY <1>1, <1>2 DEF Fits, WaitsIn, State
<1> QED
  BY <1>2, <1>5, <1>6, <1>10, <1>11 DEF Good, u

(* Steps 0 and 1 of the switch, the same wherever it is called.              *)
LEMMA EnterKeeps ==
  ASSUME NEW m, Good(m), m.cnt["cmd"] = 0, m.mode # "cmd",
         Switches(m.act, State(m)) \/ m.cnt["stream"] = 1
  PROVE  Good(Advance(ClearStreamStatus(m), "cmd"))
<1> DEFINE v == ClearStreamStatus(m)
           u == Advance(v, "cmd")
<1>1. Good(v) /\ NoStream(v) /\ v.act = m.act /\ v.cnt = m.cnt /\ v.mode = m.mode
  BY ClearKeeps
<1>2. v \in Machine /\ Steady(v) /\ Fits(v, State(v)) /\ State(v) = State(m)
  BY <1>1 DEF Good, State
<1> HIDE DEF v
<1>3. v.cnt \in [Counters -> 0 .. 10] /\ "cmd" \in Counters /\ v.cnt["cmd"] = 0
  BY <1>1, <1>2, Fields, TheCounters
<1>4. u \in Machine /\ u.cnt = [v.cnt EXCEPT !["cmd"] = v.cnt["cmd"] + 1] /\ SameButCounters(u, v)
  BY <1>2, <1>3, AdvanceFacts
<1> HIDE DEF u
<1>5. /\ u.cnt["cmd"] = 1 /\ u.cnt["update"] = v.cnt["update"] /\ u.cnt["stream"] = v.cnt["stream"]
      /\ u.cnt["close"] = v.cnt["close"] /\ u.cnt["disc"] = v.cnt["disc"] /\ u.cnt["reset"] = v.cnt["reset"]
  BY <1>3, <1>4 DEF Counters
<1>6. State(u) = State(v)
  BY <1>5 DEF State
<1>7. /\ u.cnt["stream"] <= 4 /\ u.cnt["cmd"] <= 2 /\ u.cnt["close"] <= 1
      /\ u.cnt["disc"] <= 2 /\ u.cnt["reset"] <= 3
      /\ u.cnt["stream"] >= 2 => v.mode = "cmd"
      /\ u.cnt["cmd"] \in {1, 2} \/ u.cnt["reset"] = 3 => NoStream(v)
      /\ u.cnt["stream"] # 0 => Opens(v.act, State(v))
      /\ u.cnt["cmd"] # 0 => Switches(v.act, State(v)) \/ u.cnt["stream"] = 1
      /\ u.cnt["close"] # 0 => Closes(v.act, State(v)) \/ u.cnt["stream"] = 2
      /\ u.cnt["disc"] # 0 => Disconnects(v.act, State(v))
      /\ u.cnt["reset"] # 0 => Resets(v.act, State(v))
  BY <1>1, <1>2, <1>3, <1>5 DEF Steady, Fits
<1>8. Good(u)
  BY <1>1, <1>4, <1>6, <1>7, CountersKeep
<1> QED
  BY <1>8 DEF u, v

LEMMA WaitForBytesKeeps ==
  ASSUME NEW m, Good(m), m.cnt["cmd"] = 1
  PROVE  Good(Advance(m, "cmd"))
<1> DEFINE u == Advance(m, "cmd")
<1>1. m \in Machine /\ Steady(m) /\ Fits(m, State(m))
  BY DEF Good
<1>2. m.cnt \in [Counters -> 0 .. 10] /\ "cmd" \in Counters
  BY <1>1, Fields, TheCounters
<1>3. u \in Machine /\ u.cnt = [m.cnt EXCEPT !["cmd"] = m.cnt["cmd"] + 1] /\ SameButCounters(u, m)
  BY <1>1, <1>2, AdvanceFacts
<1> HIDE DEF u
<1>4. /\ u.cnt["cmd"] = 2 /\ u.cnt["update"] = m.cnt["update"] /\ u.cnt["stream"] = m.cnt["stream"]
      /\ u.cnt["close"] = m.cnt["close"] /\ u.cnt["disc"] = m.cnt["disc"] /\ u.cnt["reset"] = m.cnt["reset"]
  BY <1>2, <1>3 DEF Counters
<1>5. State(u) = State(m)
  BY <1>4 DEF State
<1>6. /\ u.cnt["stream"] <= 4 /\ u.cnt["cmd"] <= 2 /\ u.cnt["close"] <= 1
      /\ u.cnt["disc"] <= 2 /\ u.cnt["reset"] <= 3
      /\ u.cnt["stream"] >= 2 => m.mode = "cmd"
      /\ u.cnt["cmd"] \in {1, 2} \/ u.cnt["reset"] = 3 => NoStream(m)
      /\ u.cnt["stream"] # 0 => Opens(m.act, State(m))
      /\ u.cnt["cmd"] # 0 => Switches(m.act, State(m)) \/ u.cnt["stream"] = 1
      /\ u.cnt["close"] # 0 => Closes(m.act, State(m)) \/ u.cnt["stream"] = 2
      /\ u.cnt["disc"] # 0 => Disconnects(m.act, State(m))
      /\ u.cnt["reset"] # 0 => Resets(m.act, State(m))
  BY <1>1, <1>2, <1>4 DEF Steady, Fits
<1>7. Good(u)
  BY <1>3, <1>5, <1>6, CountersKeep
<1> QED
  BY <1>7 DEF u

LEMMA SwitchKeeps ==
  ASSUME NEW m, Good(m), Switches(m.act, State(m)), NEW u \in SetCmdMode(m, "update")
  PROVE  Good(u)
<1>1. m.cnt["cmd"] \in {0, 1, 2}
  BY CounterFields DEF Good, Steady
<1>2. CASE m.cnt["cmd"] = 0 /\ m.mode = "cmd"
  BY <1>2, SwitchedKeeps DEF SetCmdMode
<1>3. CASE m.cnt["cmd"] = 0 /\ m.mode # "cmd"
  BY <1>3, EnterKeeps DEF SetCmdMode
<1>4. CASE m.cnt["cmd"] = 1
  BY <1>4, WaitForBytesKeeps DEF SetCmdMode
<1>5. CASE m.cnt["cmd"] = 2
  <2>1. CASE m.pin
    BY <1>5, <2>1 DEF SetCmdMode, When
  <2>2. CASE ~m.pin
    <3> DEFINE v == [CmdMode(m) EXCEPT !.cnt["cmd"] = 0]
    <3>1. /\ Good(v) /\ v.mode = "cmd" /\ v.cnt["cmd"] = 0
          /\ v.act = m.act /\ State(v) = State(m)
      BY <1>5, <2>2, LeaveKeeps
    <3>2. u = Advance(v, "update")
      BY <1>5, <2>2 DEF SetCmdMode, When
    <3> HIDE DEF v
    <3> QED
      BY <3>1, <3>2, SwitchedKeeps
  <2> QED
    BY <2>1, <2>2
<1> QED
  BY <1>1, <1>2, <1>3, <1>4, <1>5

(* The same switch on the way to a stream.                                 *)
LEMMA SwitchedForStreamKeeps ==
  ASSUME NEW m, Good(m), m.cnt["cmd"] = 0, m.mode = "cmd", m.cnt["stream"] = 1
  PROVE  Good(Advance(m, "stream"))
<1> DEFINE u == Advance(m, "stream")
<1>1. m \in Machine /\ Steady(m) /\ Fits(m, State(m))
  BY DEF Good
<1>2. m.cnt \in [Counters -> 0 .. 10] /\ "stream" \in Counters
  BY <1>1, Fields, TheCounters
<1>3. u \in Machine /\ u.cnt = [m.cnt EXCEPT !["stream"] = m.cnt["stream"] + 1] /\ SameButCounters(u, m)
  BY <1>1, <1>2, AdvanceFacts
<1> HIDE DEF u
<1>4. /\ u.cnt["stream"] = 2 /\ u.cnt["update"] = m.cnt["update"] /\ u.cnt["cmd"] = m.cnt["cmd"]
      /\ u.cnt["close"] = m.cnt["close"] /\ u.cnt["disc"] = m.cnt["disc"] /\ u.cnt["reset"] = m.cnt["reset"]
  BY <1>2, <1>3 DEF Counters
<1>5. State(u) = State(m)
  BY <1>4 DEF State
<1>6. /\ u.cnt["stream"] <= 4 /\ u.cnt["cmd"] <= 2 /\ u.cnt["close"] <= 1
      /\ u.cnt["disc"] <= 2 /\ u.cnt["reset"] <= 3
      /\ u.cnt["stream"] >= 2 => m.mode = "cmd"
      /\ u.cnt["cmd"] \in {1, 2} \/ u.cnt["reset"] = 3 => NoStream(m)
      /\ u.cnt["stream"] # 0 => Opens(m.act, State(m))
      /\ u.cnt["cmd"] # 0 => Switches(m.act, State(m)) \/ u.cnt["stream"] = 1
      /\ u.cnt["close"] # 0 => Closes(m.act, State(m)) \/ u.cnt["stream"] = 2
      /\ u.cnt["disc"] # 0 => Disconnects(m.act, State(m))
      /\ u.cnt["reset"] # 0 => Resets(m.act, State(m))
  BY <1>1, <1>2, <1>4 DEF Steady, Fits
<1>7. Good(u)
  BY <1>3, <1>5, <1>6, CountersKeep
<1> QED
  BY <1>7 DEF u

LEMMA SwitchForStreamKeeps ==
  ASSUME NEW m, Good(m), m.cnt["stream"] = 1, NEW u \in SetCmdMode(m, "stream")
  PROVE  Good(u)
<1>1. m.cnt["cmd"] \in {0, 1, 2}
  BY CounterFields DEF Good, Steady
<1>2. CASE m.cnt["cmd"] = 0 /\ m.mode = "cmd"
  BY <1>2, SwitchedForStreamKeeps DEF SetCmdMode
<1>3. CASE m.cnt["cmd"] = 0 /\ m.mode # "cmd"
  BY <1>3, EnterKeeps DEF SetCmdMode
<1>4. CASE m.cnt["cmd"] = 1
  BY <1>4, WaitForBytesKeeps DEF SetCmdMode
<1>5. CASE m.cnt["cmd"] = 2
  <2>1. CASE m.pin
    BY <1>5, <2>1 DEF SetCmdMode, When
  <2>2. CASE ~m.pin
    <3> DEFINE v == [CmdMode(m) EXCEPT !.cnt["cmd"] = 0]
    <3>1. /\ Good(v) /\ v.mode = "cmd" /\ v.cnt["cmd"] = 0
          /\ v.cnt["stream"] = 1
      BY <1>5, <2>2, LeaveKeeps
    <3>2. u = Advance(v, "stream")
      BY <1>5, <2>2 DEF SetCmdMode, When
    <3> HIDE DEF v
    <3> QED
      BY <3>1, <3>2, SwitchedForStreamKeeps
  <2> QED
    BY <2>1, <2>2
<1> QED
  BY <1>1, <1>2, <1>3, <1>4, <1>5

-----------------------------------------------------------------------------
(* The connection that is closed first, the connections that are closed,    *)
(* and the reset of the chip.                                              *)

LEMMA ZeroFacts ==
  ASSUME NEW m \in Machine, NEW c \in Counters
  PROVE  LET u == [m EXCEPT !.cnt[c] = 0] IN
         u \in Machine /\ u.cnt = [m.cnt EXCEPT ![c] = 0] /\ SameButCounters(u, m)
<1> DEFINE u == [m EXCEPT !.cnt[c] = 0]
<1>1. u \in Machine
  BY Fields DEF Machine
<1> QED
  BY <1>1, Fields DEF Machine, SameButCounters

LEMMA CloseFirstKeeps ==
  ASSUME NEW m, Good(m), m.cnt["close"] = 0, Closes(m.act, State(m)) \/ m.cnt["stream"] = 2
  PROVE  Good(Advance(m, "close"))
<1> DEFINE u == Advance(m, "close")
<1>1. m \in Machine /\ Steady(m) /\ Fits(m, State(m))
  BY DEF Good
<1>2. /\ m.cnt \in [Counters -> 0 .. 10] /\ "close" \in Counters
      /\ m.cnt["close"] \in 0 .. 9
  BY <1>1, Fields, CounterFields, TheCounters DEF Steady
<1>3. u \in Machine /\ u.cnt = [m.cnt EXCEPT !["close"] = m.cnt["close"] + 1] /\ SameButCounters(u, m)
  BY <1>1, <1>2, AdvanceFacts
<1> HIDE DEF u
<1>4. /\ u.cnt["update"] = m.cnt["update"] /\ u.cnt["stream"] = m.cnt["stream"] /\ u.cnt["cmd"] = m.cnt["cmd"]
      /\ u.cnt["close"] = m.cnt["close"] + 1 /\ u.cnt["disc"] = m.cnt["disc"] /\ u.cnt["reset"] = m.cnt["reset"]
  BY <1>2, <1>3 DEF Counters
<1>5. State(u) = State(m)
  BY <1>4 DEF State
<1>6. /\ u.cnt["stream"] <= 4 /\ u.cnt["cmd"] <= 2 /\ u.cnt["close"] <= 1
      /\ u.cnt["disc"] <= 2 /\ u.cnt["reset"] <= 3
      /\ u.cnt["stream"] >= 2 => m.mode = "cmd"
      /\ u.cnt["cmd"] \in {1, 2} \/ u.cnt["reset"] = 3 => NoStream(m)
      /\ u.cnt["stream"] # 0 => Opens(m.act, State(m))
      /\ u.cnt["cmd"] # 0 => Switches(m.act, State(m)) \/ u.cnt["stream"] = 1
      /\ u.cnt["close"] # 0 => Closes(m.act, State(m)) \/ u.cnt["stream"] = 2
      /\ u.cnt["disc"] # 0 => Disconnects(m.act, State(m))
      /\ u.cnt["reset"] # 0 => Resets(m.act, State(m))
  BY <1>1, <1>2, <1>4 DEF Steady, Fits
<1>7. Good(u)
  BY <1>3, <1>5, <1>6, CountersKeep
<1> QED
  BY <1>7 DEF u

LEMMA ZeroCloseKeeps ==
  ASSUME NEW m, Good(m)
  PROVE  LET u == [m EXCEPT !.cnt["close"] = 0] IN
         /\ Good(u) /\ SameButCounters(u, m) /\ State(u) = State(m)
         /\ u.cnt["close"] = 0 /\ u.cnt["stream"] = m.cnt["stream"]
<1> DEFINE u == [m EXCEPT !.cnt["close"] = 0]
<1>1. m \in Machine /\ Steady(m) /\ Fits(m, State(m))
  BY DEF Good
<1>2. m.cnt \in [Counters -> 0 .. 10] /\ "close" \in Counters
  BY <1>1, Fields, TheCounters
<1>3. u \in Machine /\ u.cnt = [m.cnt EXCEPT !["close"] = 0] /\ SameButCounters(u, m)
  BY <1>1, <1>2, ZeroFacts
<1> HIDE DEF u
<1>4. /\ u.cnt["update"] = m.cnt["update"] /\ u.cnt["stream"] = m.cnt["stream"] /\ u.cnt["cmd"] = m.cnt["cmd"]
      /\ u.cnt["close"] = 0 /\ u.cnt["disc"] = m.cnt["disc"] /\ u.cnt["reset"] = m.cnt["reset"]
  BY <1>2, <1>3 DEF Counters
<1>5. State(u) = State(m)
  BY <1>4 DEF State
<1>6. /\ u.cnt["stream"] <= 4 /\ u.cnt["cmd"] <= 2 /\ u.cnt["close"] <= 1
      /\ u.cnt["disc"] <= 2 /\ u.cnt["reset"] <= 3
      /\ u.cnt["stream"] >= 2 => m.mode = "cmd"
      /\ u.cnt["cmd"] \in {1, 2} \/ u.cnt["reset"] = 3 => NoStream(m)
      /\ u.cnt["stream"] # 0 => Opens(m.act, State(m))
      /\ u.cnt["cmd"] # 0 => Switches(m.act, State(m)) \/ u.cnt["stream"] = 1
      /\ u.cnt["close"] # 0 => Closes(m.act, State(m)) \/ u.cnt["stream"] = 2
      /\ u.cnt["disc"] # 0 => Disconnects(m.act, State(m))
      /\ u.cnt["reset"] # 0 => Resets(m.act, State(m))
  BY <1>1, <1>2, <1>4 DEF Steady, Fits
<1>7. Good(u)
  BY <1>3, <1>5, <1>6, CountersKeep
<1> QED
  BY <1>3, <1>4, <1>5, <1>7 DEF u

LEMMA ClosedForStreamKeeps ==
  ASSUME NEW m, Good(m), m.cnt["close"] = 0, m.cnt["stream"] \in {2, 3}
  PROVE  Good(Advance(m, "stream"))
<1> DEFINE u == Advance(m, "stream")
<1>1. m \in Machine /\ Steady(m) /\ Fits(m, State(m))
  BY DEF Good
<1>2. /\ m.cnt \in [Counters -> 0 .. 10] /\ "stream" \in Counters
      /\ m.cnt["stream"] \in 0 .. 9
  BY <1>1, Fields, CounterFields, TheCounters DEF Steady
<1>3. u \in Machine /\ u.cnt = [m.cnt EXCEPT !["stream"] = m.cnt["stream"] + 1] /\ SameButCounters(u, m)
  BY <1>1, <1>2, AdvanceFacts
<1> HIDE DEF u
<1>4. /\ u.cnt["update"] = m.cnt["update"] /\ u.cnt["stream"] = m.cnt["stream"] + 1 /\ u.cnt["cmd"] = m.cnt["cmd"]
      /\ u.cnt["close"] = m.cnt["close"] /\ u.cnt["disc"] = m.cnt["disc"] /\ u.cnt["reset"] = m.cnt["reset"]
  BY <1>2, <1>3 DEF Counters
<1>5. State(u) = State(m)
  BY <1>4 DEF State
<1>6. /\ u.cnt["stream"] <= 4 /\ u.cnt["cmd"] <= 2 /\ u.cnt["close"] <= 1
      /\ u.cnt["disc"] <= 2 /\ u.cnt["reset"] <= 3
      /\ u.cnt["stream"] >= 2 => m.mode = "cmd"
      /\ u.cnt["cmd"] \in {1, 2} \/ u.cnt["reset"] = 3 => NoStream(m)
      /\ u.cnt["stream"] # 0 => Opens(m.act, State(m))
      /\ u.cnt["cmd"] # 0 => Switches(m.act, State(m)) \/ u.cnt["stream"] = 1
      /\ u.cnt["close"] # 0 => Closes(m.act, State(m)) \/ u.cnt["stream"] = 2
      /\ u.cnt["disc"] # 0 => Disconnects(m.act, State(m))
      /\ u.cnt["reset"] # 0 => Resets(m.act, State(m))
  BY <1>1, <1>2, <1>4 DEF Steady, Fits
<1>7. Good(u)
  BY <1>3, <1>5, <1>6, CountersKeep
<1> QED
  BY <1>7 DEF u

LEMMA ZeroDiscKeeps ==
  ASSUME NEW m, Good(m)
  PROVE  LET u == [m EXCEPT !.cnt["disc"] = 0] IN
         /\ Good(u) /\ SameButCounters(u, m) /\ State(u) = State(m)
         /\ u.cnt["disc"] = 0 /\ u.cnt["stream"] = m.cnt["stream"]
<1> DEFINE u == [m EXCEPT !.cnt["disc"] = 0]
<1>1. m \in Machine /\ Steady(m) /\ Fits(m, State(m))
  BY DEF Good
<1>2. m.cnt \in [Counters -> 0 .. 10] /\ "disc" \in Counters
  BY <1>1, Fields, TheCounters
<1>3. u \in Machine /\ u.cnt = [m.cnt EXCEPT !["disc"] = 0] /\ SameButCounters(u, m)
  BY <1>1, <1>2, ZeroFacts
<1> HIDE DEF u
<1>4. /\ u.cnt["update"] = m.cnt["update"] /\ u.cnt["stream"] = m.cnt["stream"] /\ u.cnt["cmd"] = m.cnt["cmd"]
      /\ u.cnt["close"] = m.cnt["close"] /\ u.cnt["disc"] = 0 /\ u.cnt["reset"] = m.cnt["reset"]
  BY <1>2, <1>3 DEF Counters
<1>5. State(u) = State(m)
  BY <1>4 DEF State
<1>6. /\ u.cnt["stream"] <= 4 /\ u.cnt["cmd"] <= 2 /\ u.cnt["close"] <= 1
      /\ u.cnt["disc"] <= 2 /\ u.cnt["reset"] <= 3
      /\ u.cnt["stream"] >= 2 => m.mode = "cmd"
      /\ u.cnt["cmd"] \in {1, 2} \/ u.cnt["reset"] = 3 => NoStream(m)
      /\ u.cnt["stream"] # 0 => Opens(m.act, State(m))
      /\ u.cnt["cmd"] # 0 => Switches(m.act, State(m)) \/ u.cnt["stream"] = 1
      /\ u.cnt["close"] # 0 => Closes(m.act, State(m)) \/ u.cnt["stream"] = 2
      /\ u.cnt["disc"] # 0 => Disconnects(m.act, State(m))
      /\ u.cnt["reset"] # 0 => Resets(m.act, State(m))
  BY <1>1, <1>2, <1>4 DEF Steady, Fits
<1>7. Good(u)
  BY <1>3, <1>5, <1>6, CountersKeep
<1> QED
  BY <1>3, <1>4, <1>5, <1>7 DEF u

LEMMA DiscAdvanceKeeps ==
  ASSUME NEW m, Good(m), m.cnt["disc"] \in {0, 1}, Disconnects(m.act, State(m))
  PROVE  Good(Advance(m, "disc"))
<1> DEFINE u == Advance(m, "disc")
<1>1. m \in Machine /\ Steady(m) /\ Fits(m, State(m))
  BY DEF Good
<1>2. /\ m.cnt \in [Counters -> 0 .. 10] /\ "disc" \in Counters
      /\ m.cnt["disc"] \in 0 .. 9
  BY <1>1, Fields, CounterFields, TheCounters DEF Steady
<1>3. u \in Machine /\ u.cnt = [m.cnt EXCEPT !["disc"] = m.cnt["disc"] + 1] /\ SameButCounters(u, m)
  BY <1>1, <1>2, AdvanceFacts
<1> HIDE DEF u
<1>4. /\ u.cnt["update"] = m.cnt["update"] /\ u.cnt["stream"] = m.cnt["stream"] /\ u.cnt["cmd"] = m.cnt["cmd"]
      /\ u.cnt["close"] = m.cnt["close"] /\ u.cnt["disc"] = m.cnt["disc"] + 1 /\ u.cnt["reset"] = m.cnt["reset"]
  BY <1>2, <1>3 DEF Counters
<1>5. State(u) = State(m)
  BY <1>4 DEF State
<1>6. /\ u.cnt["stream"] <= 4 /\ u.cnt["cmd"] <= 2 /\ u.cnt["close"] <= 1
      /\ u.cnt["disc"] <= 2 /\ u.cnt["reset"] <= 3
      /\ u.cnt["stream"] >= 2 => m.mode = "cmd"
      /\ u.cnt["cmd"] \in {1, 2} \/ u.cnt["reset"] = 3 => NoStream(m)
      /\ u.cnt["stream"] # 0 => Opens(m.act, State(m))
      /\ u.cnt["cmd"] # 0 => Switches(m.act, State(m)) \/ u.cnt["stream"] = 1
      /\ u.cnt["close"] # 0 => Closes(m.act, State(m)) \/ u.cnt["stream"] = 2
      /\ u.cnt["disc"] # 0 => Disconnects(m.act, State(m))
      /\ u.cnt["reset"] # 0 => Resets(m.act, State(m))
  BY <1>1, <1>2, <1>4 DEF Steady, Fits
<1>7. Good(u)
  BY <1>3, <1>5, <1>6, CountersKeep
<1> QED
  BY <1>7 DEF u

LEMMA ZeroResetKeeps ==
  ASSUME NEW m, Good(m)
  PROVE  LET u == [m EXCEPT !.cnt["reset"] = 0] IN
         /\ Good(u) /\ SameButCounters(u, m) /\ State(u) = State(m)
         /\ u.cnt["reset"] = 0 /\ u.cnt["stream"] = m.cnt["stream"]
<1> DEFINE u == [m EXCEPT !.cnt["reset"] = 0]
<1>1. m \in Machine /\ Steady(m) /\ Fits(m, State(m))
  BY DEF Good
<1>2. m.cnt \in [Counters -> 0 .. 10] /\ "reset" \in Counters
  BY <1>1, Fields, TheCounters
<1>3. u \in Machine /\ u.cnt = [m.cnt EXCEPT !["reset"] = 0] /\ SameButCounters(u, m)
  BY <1>1, <1>2, ZeroFacts
<1> HIDE DEF u
<1>4. /\ u.cnt["update"] = m.cnt["update"] /\ u.cnt["stream"] = m.cnt["stream"] /\ u.cnt["cmd"] = m.cnt["cmd"]
      /\ u.cnt["close"] = m.cnt["close"] /\ u.cnt["disc"] = m.cnt["disc"] /\ u.cnt["reset"] = 0
  BY <1>2, <1>3 DEF Counters
<1>5. State(u) = State(m)
  BY <1>4 DEF State
<1>6. /\ u.cnt["stream"] <= 4 /\ u.cnt["cmd"] <= 2 /\ u.cnt["close"] <= 1
      /\ u.cnt["disc"] <= 2 /\ u.cnt["reset"] <= 3
      /\ u.cnt["stream"] >= 2 => m.mode = "cmd"
      /\ u.cnt["cmd"] \in {1, 2} \/ u.cnt["reset"] = 3 => NoStream(m)
      /\ u.cnt["stream"] # 0 => Opens(m.act, State(m))
      /\ u.cnt["cmd"] # 0 => Switches(m.act, State(m)) \/ u.cnt["stream"] = 1
      /\ u.cnt["close"] # 0 => Closes(m.act, State(m)) \/ u.cnt["stream"] = 2
      /\ u.cnt["disc"] # 0 => Disconnects(m.act, State(m))
      /\ u.cnt["reset"] # 0 => Resets(m.act, State(m))
  BY <1>1, <1>2, <1>4 DEF Steady, Fits
<1>7. Good(u)
  BY <1>3, <1>5, <1>6, CountersKeep
<1> QED
  BY <1>3, <1>4, <1>5, <1>7 DEF u

LEMMA ResetAdvanceKeeps ==
  ASSUME NEW m, Good(m), m.cnt["reset"] \in {0, 1, 2}, Resets(m.act, State(m)),
         m.cnt["reset"] = 2 => NoStream(m)
  PROVE  Good(Advance(m, "reset"))
<1> DEFINE u == Advance(m, "reset")
<1>1. m \in Machine /\ Steady(m) /\ Fits(m, State(m))
  BY DEF Good
<1>2. /\ m.cnt \in [Counters -> 0 .. 10] /\ "reset" \in Counters
      /\ m.cnt["reset"] \in 0 .. 9
  BY <1>1, Fields, CounterFields, TheCounters DEF Steady
<1>3. u \in Machine /\ u.cnt = [m.cnt EXCEPT !["reset"] = m.cnt["reset"] + 1] /\ SameButCounters(u, m)
  BY <1>1, <1>2, AdvanceFacts
<1> HIDE DEF u
<1>4. /\ u.cnt["update"] = m.cnt["update"] /\ u.cnt["stream"] = m.cnt["stream"] /\ u.cnt["cmd"] = m.cnt["cmd"]
      /\ u.cnt["close"] = m.cnt["close"] /\ u.cnt["disc"] = m.cnt["disc"] /\ u.cnt["reset"] = m.cnt["reset"] + 1
  BY <1>2, <1>3 DEF Counters
<1>5. State(u) = State(m)
  BY <1>4 DEF State
<1>6. /\ u.cnt["stream"] <= 4 /\ u.cnt["cmd"] <= 2 /\ u.cnt["close"] <= 1
      /\ u.cnt["disc"] <= 2 /\ u.cnt["reset"] <= 3
      /\ u.cnt["stream"] >= 2 => m.mode = "cmd"
      /\ u.cnt["cmd"] \in {1, 2} \/ u.cnt["reset"] = 3 => NoStream(m)
      /\ u.cnt["stream"] # 0 => Opens(m.act, State(m))
      /\ u.cnt["cmd"] # 0 => Switches(m.act, State(m)) \/ u.cnt["stream"] = 1
      /\ u.cnt["close"] # 0 => Closes(m.act, State(m)) \/ u.cnt["stream"] = 2
      /\ u.cnt["disc"] # 0 => Disconnects(m.act, State(m))
      /\ u.cnt["reset"] # 0 => Resets(m.act, State(m))
  BY <1>1, <1>2, <1>4 DEF Steady, Fits
<1>7. Good(u)
  BY <1>3, <1>5, <1>6, CountersKeep
<1> QED
  BY <1>7 DEF u

LEMMA ClosedKeeps ==
  ASSUME NEW m, Good(m), m.cnt["close"] = 0, Closes(m.act, State(m))
  PROVE  Good(Advance(m, "update"))
<1>1. m \in Machine /\ Fits(m, State(m))
  BY DEF Good
<1>2. State(m) \in 0 .. 10
  BY <1>1, CounterFields
<1>3. State(m) < 10 /\ Fits(m, State(m) + 1)
  BY <1>1, <1>2 DEF Fits, Lasts, Opens, Switches, Closes, Disconnects, Resets, NeedsCmd, FirstSwitches
<1>4. Good(Then(m))
  BY <1>3, NextState
<1> QED
  BY <1>4 DEF Then

LEMMA CloseKeeps ==
  ASSUME NEW m, Good(m), Closes(m.act, State(m)), NEW in, NEW u \in CloseConn0(m, "update", in)
  PROVE  Good(u)
<1>1. m \in Machine /\ m.mode = "cmd"
  BY DEF Good, Fits, Closes, NeedsCmd, FirstSwitches
<1>2. CASE m.cnt["close"] = 0 /\ m.conn[0].named
  <2>1. m.cnt["close"] \in 0 .. 9 /\ "close" \in Counters
    BY <1>2, TheCounters
  <2>2. Good(Advance(m, "close"))
    BY <1>2, CloseFirstKeeps
  <2>3. Advance(m, "close").mode = "cmd"
    BY <1>1, <2>1, AdvanceFacts DEF SameButCounters
  <2>4. u = SendCmd(Advance(m, "close"))
    BY <1>2 DEF CloseConn0
  <2> QED
    BY <2>2, <2>3, <2>4, CmdKeeps
<1>3. CASE m.cnt["close"] = 0 /\ ~m.conn[0].named
  BY <1>3, ClosedKeeps DEF CloseConn0
<1>4. CASE m.cnt["close"] # 0 /\ in.msg = "CLOSE"
  <2> DEFINE v == [m EXCEPT !.cnt["close"] = 0]
  <2>1. Good(v) /\ SameButCounters(v, m) /\ State(v) = State(m) /\ v.cnt["close"] = 0
    BY ZeroCloseKeeps
  <2>2. u = Advance(v, "update")
    BY <1>4 DEF CloseConn0, When
  <2> HIDE DEF v
  <2> QED
    BY <2>1, <2>2, ClosedKeeps DEF SameButCounters
<1>5. CASE m.cnt["close"] # 0 /\ in.msg # "CLOSE"
  BY <1>5 DEF CloseConn0, When
<1> QED
  BY <1>2, <1>3, <1>4, <1>5

LEMMA CloseForStreamKeeps ==
  ASSUME NEW m, Good(m), m.cnt["stream"] = 2, NEW in, NEW u \in CloseConn0(m, "stream", in)
  PROVE  Good(u)
<1>1. m \in Machine /\ m.mode = "cmd"
  BY DEF Good, Steady
<1>2. CASE m.cnt["close"] = 0 /\ m.conn[0].named
  <2>1. m.cnt["close"] \in 0 .. 9 /\ "close" \in Counters
    BY <1>2, TheCounters
  <2>2. Good(Advance(m, "close"))
    BY <1>2, CloseFirstKeeps
  <2>3. Advance(m, "close").mode = "cmd"
    BY <1>1, <2>1, AdvanceFacts DEF SameButCounters
  <2>4. u = SendCmd(Advance(m, "close"))
    BY <1>2 DEF CloseConn0
  <2> QED
    BY <2>2, <2>3, <2>4, CmdKeeps
<1>3. CASE m.cnt["close"] = 0 /\ ~m.conn[0].named
  BY <1>3, ClosedForStreamKeeps DEF CloseConn0
<1>4. CASE m.cnt["close"] # 0 /\ in.msg = "CLOSE"
  <2> DEFINE v == [m EXCEPT !.cnt["close"] = 0]
  <2>1. Good(v) /\ v.cnt["close"] = 0 /\ v.cnt["stream"] = m.cnt["stream"]
    BY ZeroCloseKeeps
  <2>2. u = Advance(v, "stream")
    BY <1>4 DEF CloseConn0, When
  <2> HIDE DEF v
  <2> QED
    BY <2>1, <2>2, ClosedForStreamKeeps
<1>5. CASE m.cnt["close"] # 0 /\ in.msg # "CLOSE"
  BY <1>5 DEF CloseConn0, When
<1> QED
  BY <1>2, <1>3, <1>4, <1>5

(* A change of what a request has parked.                                  *)
LEMMA ParsKeep ==
  ASSUME NEW m, Good(m), NEW u \in Machine,
         u.act = m.act, u.cnt = m.cnt, u.caller = m.caller, u.cell = m.cell,
         u.mode = m.mode, u.pin = m.pin, u.conn = m.conn, u.off = m.off,
         u.source = m.source, u.lost = m.lost, u.sent = m.sent,
         u.par.two = m.par.two, u.par.reopen = m.par.reopen,
         m.act = "DISCONNECT" => u.par.one = m.par.one,
         m.act \in {"SENDFILE", "EXTREAD"} => u.par.msg = m.par.msg,
         m.act = "SENDFILE" => u.par.file = m.par.file
  PROVE  Good(u)
<1>1. m \in Machine /\ Steady(m) /\ Fits(m, State(m))
  BY DEF Good
<1>2. Asked(u)
  BY <1>1 DEF Steady, Asked, OnlyCallerWaits, WaitsIn
<1>3. Radio(u)
  BY <1>1 DEF Steady, Radio
<1>4. Wants(u) = Wants(m) /\ Wanted(u) = Wanted(m) /\ NoStream(u) = NoStream(m)
  BY DEF Wants, Wanted, NoStream
<1>5. Steady(u)
  BY <1>1, <1>2, <1>3, <1>4 DEF Steady
<1>6. Fits(u, State(m)) /\ State(u) = State(m)
  BY <1>1 DEF Fits, WaitsIn, State
<1> QED
  BY <1>5, <1>6 DEF Good

LEMMA ParOneKeeps ==
  ASSUME NEW m, Good(m), NEW n \in 0 .. NumSlots, m.act # "DISCONNECT"
  PROVE  LET u == [m EXCEPT !.par.one = n] IN
         Good(u) /\ u.act = m.act /\ u.cnt = m.cnt /\ u.mode = m.mode
<1> DEFINE u == [m EXCEPT !.par.one = n]
<1>1. m \in Machine
  BY DEF Good
<1>2. [m.par EXCEPT !.one = n] \in Params
  BY <1>1, Fields DEF Params
<1>3. u \in Machine
  BY <1>1, <1>2, Fields DEF Machine
<1>4. /\ u.act = m.act /\ u.cnt = m.cnt /\ u.caller = m.caller /\ u.cell = m.cell
      /\ u.mode = m.mode /\ u.pin = m.pin /\ u.conn = m.conn /\ u.off = m.off
      /\ u.source = m.source /\ u.lost = m.lost /\ u.sent = m.sent
      /\ u.par.two = m.par.two /\ u.par.reopen = m.par.reopen
      /\ u.par.msg = m.par.msg /\ u.par.file = m.par.file
  BY <1>1, Fields DEF Machine, Params
<1> HIDE DEF u
<1>5. Good(u)
  BY <1>3, <1>4, ParsKeep
<1> QED
  BY <1>4, <1>5 DEF u

(* Every set of natural numbers has a least element: the search for the     *)
(* next connection to close finds one.  The initial segments below an       *)
(* element are finite sets, and strict inclusion is well-founded on them.   *)
LEMMA LeastNat ==
  ASSUME NEW T, T \in SUBSET Nat, T # {}
  PROVE  \E n \in T : \A k \in T : n <= k
<1>1. PICK b \in T : TRUE
  OBVIOUS
<1>2. IsFiniteSet(0 .. b)
  BY <1>1, FS_Interval
<1>3. IsWellFoundedOn(StrictSubsetOrdering(0 .. b), FiniteSubsetsOf(0 .. b))
  BY <1>2, FS_StrictSubsetOrderingWellFounded
<1> DEFINE D == {A \in SUBSET (0 .. b) : \E n \in T : n <= b /\ A = 0 .. n}
<1>4. D \subseteq FiniteSubsetsOf(0 .. b)
  BY <1>2, FS_Subset DEF FiniteSubsetsOf
<1>5. 0 .. b \in D
  BY <1>1
<1> HIDE DEF D
<1>6. PICK A \in D : \A B \in D : <<B, A>> \notin StrictSubsetOrdering(0 .. b)
  BY <1>3, <1>4, <1>5, WFMin
<1>7. PICK n \in T : n <= b /\ A = 0 .. n
  BY <1>6 DEF D
<1>8. \A k \in T : n <= k
  <2> SUFFICES ASSUME NEW k \in T, k < n PROVE FALSE
    BY <1>7
  <2>1. 0 .. k \in D
    BY <1>7 DEF D
  <2>2. 0 .. k \subseteq A /\ 0 .. k # A
    <3>1. n \notin 0 .. k /\ n \in A
      BY <1>7
    <3> QED BY <1>7, <3>1
  <2>3. QED
    BY <1>6, <2>1, <2>2, <1>4, <1>2 DEF StrictSubsetOrdering, D
<1>9. QED
  BY <1>8

LEMMA DiscBackKeeps ==
  ASSUME NEW m, Good(m), Disconnects(m.act, State(m))
  PROVE  Good([m EXCEPT !.cnt["disc"] = 1])
<1> DEFINE u == [m EXCEPT !.cnt["disc"] = 1]
<1>1. m \in Machine /\ Steady(m) /\ Fits(m, State(m))
  BY DEF Good
<1>2. m.cnt \in [Counters -> 0 .. 10] /\ "disc" \in Counters
  BY <1>1, Fields, TheCounters
<1>3. u \in Machine /\ u.cnt = [m.cnt EXCEPT !["disc"] = 1] /\ SameButCounters(u, m)
  <2>1. u \in Machine
    BY <1>1, <1>2, Fields DEF Machine
  <2> QED
    BY <1>1, <1>2, <2>1, Fields DEF Machine, SameButCounters
<1> HIDE DEF u
<1>4. /\ u.cnt["update"] = m.cnt["update"] /\ u.cnt["stream"] = m.cnt["stream"] /\ u.cnt["cmd"] = m.cnt["cmd"]
      /\ u.cnt["close"] = m.cnt["close"] /\ u.cnt["disc"] = 1 /\ u.cnt["reset"] = m.cnt["reset"]
  BY <1>2, <1>3 DEF Counters
<1>5. State(u) = State(m)
  BY <1>4 DEF State
<1>6. /\ u.cnt["stream"] <= 4 /\ u.cnt["cmd"] <= 2 /\ u.cnt["close"] <= 1
      /\ u.cnt["disc"] <= 2 /\ u.cnt["reset"] <= 3
      /\ u.cnt["stream"] >= 2 => m.mode = "cmd"
      /\ u.cnt["cmd"] \in {1, 2} \/ u.cnt["reset"] = 3 => NoStream(m)
      /\ u.cnt["stream"] # 0 => Opens(m.act, State(m))
      /\ u.cnt["cmd"] # 0 => Switches(m.act, State(m)) \/ u.cnt["stream"] = 1
      /\ u.cnt["close"] # 0 => Closes(m.act, State(m)) \/ u.cnt["stream"] = 2
      /\ u.cnt["disc"] # 0 => Disconnects(m.act, State(m))
      /\ u.cnt["reset"] # 0 => Resets(m.act, State(m))
  BY <1>1, <1>2, <1>4 DEF Steady, Fits
<1>7. Good(u)
  BY <1>3, <1>5, <1>6, CountersKeep
<1> QED
  BY <1>7 DEF u

LEMMA DiscKeeps ==
  ASSUME NEW m, Good(m), Disconnects(m.act, State(m)), NEW in, NEW u \in DisconnectAll(m, in)
  PROVE  Good(u)
<1>1. m \in Machine /\ m.mode = "cmd" /\ m.act # "DISCONNECT"
  BY DEF Good, Fits, Disconnects, NeedsCmd, FirstSwitches
<1>2. m.cnt["disc"] \in {0, 1, 2} /\ "disc" \in Counters
  BY CounterFields, TheCounters DEF Good, Steady
<1> DEFINE left == {c \in Slots : c >= m.par.one /\ m.conn[c].named}
           next == CHOOSE c \in left : \A d \in left : c <= d
<1>3. CASE m.cnt["disc"] = 0
  <2> DEFINE v == [m EXCEPT !.par.one = 0]
  <2>1. 0 \in 0 .. NumSlots
    BY BluetoothConstants
  <2>2. Good(v) /\ v.act = m.act /\ v.cnt = m.cnt
    BY <1>1, <2>1, ParOneKeeps
  <2>3. u = Advance(v, "disc")
    BY <1>3 DEF DisconnectAll
  <2> HIDE DEF v
  <2>4. v.cnt["disc"] = 0 /\ Disconnects(v.act, State(v))
    BY <1>3, <2>2 DEF State
  <2> QED
    BY <2>2, <2>3, <2>4, DiscAdvanceKeeps
<1>4. CASE m.cnt["disc"] = 1 /\ left = {}
  <2> DEFINE v == [m EXCEPT !.cnt["disc"] = 0]
  <2>1. Good(v) /\ SameButCounters(v, m) /\ State(v) = State(m) /\ v.cnt["disc"] = 0
    BY ZeroDiscKeeps
  <2>2. u = Then(v)
    BY <1>4 DEF DisconnectAll
  <2> HIDE DEF v
  <2>3. v \in Machine /\ Fits(v, State(v)) /\ Disconnects(v.act, State(v)) /\ State(v) \in 0 .. 10
    BY <2>1, CounterFields DEF SameButCounters, Good
  <2>4. State(v) < 10 /\ Fits(v, State(v) + 1)
    BY <2>1, <2>3 DEF Fits, Lasts, Opens, Switches, Closes, Disconnects, Resets, NeedsCmd, FirstSwitches
  <2> QED
    BY <2>1, <2>2, <2>4, NextState
<1>5. CASE m.cnt["disc"] = 1 /\ left # {}
  <2> DEFINE v == [m EXCEPT !.par.one = next + 1]
  <2>1. left \in SUBSET Nat
    BY BluetoothConstants DEF Slots
  <2>2. \E c \in left : \A d \in left : c <= d
    BY <1>5, <2>1, LeastNat
  <2>3. next \in left
    BY <2>2
  <2>4. next + 1 \in 0 .. NumSlots
    BY <2>3, BluetoothConstants DEF Slots
  <2>5. Good(v) /\ v.act = m.act /\ v.cnt = m.cnt /\ v.mode = m.mode
    BY <1>1, <2>4, ParOneKeeps
  <2>6. u = SendCmd(Advance(v, "disc"))
    BY <1>5 DEF DisconnectAll
  <2> HIDE DEF v
  <2>7. v.cnt["disc"] = 1 /\ Disconnects(v.act, State(v)) /\ v \in Machine
    BY <1>5, <2>5 DEF State, Good
  <2>8. Good(Advance(v, "disc"))
    BY <2>5, <2>7, DiscAdvanceKeeps
  <2>9. v.cnt["disc"] \in 0 .. 9
    BY <2>7
  <2>10. SameButCounters(Advance(v, "disc"), v)
    BY <1>2, <2>7, <2>9, AdvanceFacts
  <2>11. Advance(v, "disc").mode = "cmd"
    BY <1>1, <2>5, <2>10 DEF SameButCounters
  <2> QED
    BY <2>6, <2>8, <2>11, CmdKeeps
<1>6. CASE m.cnt["disc"] = 2 /\ in.msg = "CLOSE"
  <2>1. u = [m EXCEPT !.cnt["disc"] = 1]
    BY <1>6 DEF DisconnectAll, When
  <2> QED
    BY <2>1, DiscBackKeeps
<1>7. CASE m.cnt["disc"] = 2 /\ in.msg # "CLOSE"
  BY <1>7 DEF DisconnectAll, When
<1> QED
  BY <1>2, <1>3, <1>4, <1>5, <1>6, <1>7

LEMMA ClrConnTableKeeps ==
  ASSUME NEW m, Good(m), Resets(m.act, State(m))
  PROVE  LET u == ClrConnTable(m) IN
         Good(u) /\ u.act = m.act /\ u.cnt = m.cnt /\ NoStream(u)
<1>1. m \in Machine /\ Steady(m) /\ Fits(m, State(m))
  BY DEF Good
<1> DEFINE u == ClrConnTable(m)
<1>2. [c \in Slots |-> Closed] \in [Slots -> Connection]
  BY DEF Closed, Connection
<1>3. u \in Machine
  BY <1>1, <1>2, Fields DEF ClrConnTable, Machine
<1>4. /\ u.conn = [c \in Slots |-> Closed] /\ u.lost = None
      /\ u.cnt = m.cnt /\ u.mode = m.mode
      /\ u.act = m.act /\ u.par = m.par /\ u.caller = m.caller /\ u.cell = m.cell /\ u.pin = m.pin
      /\ u.off = m.off /\ u.source = m.source /\ u.sent = m.sent
  BY <1>1 DEF ClrConnTable, Machine
<1> HIDE DEF u
<1>5. NoStream(u)
  BY <1>4 DEF NoStream, Closed
<1>6. Asked(u)
  BY <1>1, <1>4 DEF Steady, Asked, OnlyCallerWaits, WaitsIn
<1>7. Radio(u)
  BY <1>1, <1>4, <1>5 DEF Steady, Radio, NoStream
<1>8. ~Wants(u)
  BY <1>1, <1>4 DEF Wants, Resets, Fits
<1>9. Steady(u)
  BY <1>1, <1>4, <1>5, <1>6, <1>7, <1>8 DEF Steady
<1>10. Fits(u, State(m)) /\ State(u) = State(m)
  BY <1>1, <1>4 DEF Fits, WaitsIn, State
<1> QED
  BY <1>3, <1>4, <1>5, <1>9, <1>10 DEF Good, u

(* The reset is over: the table is empty and the chip in command mode.      *)
LEMMA ResetOverKeeps ==
  ASSUME NEW m, Good(m), m.cnt["reset"] = 0, NoStream(m), Resets(m.act, State(m))
  PROVE  Good(Then(CmdMode(m)))
<1>1. m \in Machine /\ Steady(m) /\ Fits(m, State(m)) /\ State(m) \in 0 .. 10
  BY CounterFields DEF Good
<1> DEFINE u == CmdMode(m)
<1>2. /\ u \in Machine /\ u.mode = "cmd" /\ u.conn = m.conn /\ u.lost = m.lost /\ u.cnt = m.cnt
      /\ u.act = m.act /\ u.par = m.par /\ u.caller = m.caller /\ u.cell = m.cell /\ u.pin = m.pin
      /\ u.off = m.off /\ u.source = m.source /\ u.sent = m.sent
  BY <1>1, Fields DEF CmdMode, Machine
<1> HIDE DEF u
<1>3. NoStream(u)
  BY <1>2 DEF NoStream
<1>4. Asked(u)
  BY <1>1, <1>2 DEF Steady, Asked, OnlyCallerWaits, WaitsIn
<1>5. Radio(u)
  BY <1>1, <1>2, <1>3 DEF Steady, Radio, NoStream
<1>6. ~Wants(u)
  BY <1>1, <1>2 DEF Wants, Resets, Fits
<1>7. Steady(u)
  BY <1>1, <1>2, <1>3, <1>4, <1>5, <1>6 DEF Steady
<1>8. Fits(u, State(u)) /\ State(u) = State(m)
  BY <1>1, <1>2 DEF Fits, WaitsIn, State
<1>9. State(u) < 10 /\ Fits(u, State(u) + 1)
  BY <1>1, <1>2, <1>8 DEF Fits, Lasts, Opens, Switches, Closes, Disconnects, Resets, NeedsCmd, FirstSwitches
<1>10. Good(Then(u))
  BY <1>2, <1>7, <1>8, <1>9, NextState DEF Good
<1> QED
  BY <1>10 DEF u

LEMMA ResetKeeps ==
  ASSUME NEW m, Good(m), Resets(m.act, State(m)), NEW u \in BtReset(m)
  PROVE  Good(u)
<1>1. m \in Machine /\ m.cnt["reset"] \in {0, 1, 2, 3}
  BY CounterFields DEF Good, Steady
<1>2. CASE m.cnt["reset"] \in {0, 1}
  BY <1>2, ResetAdvanceKeeps DEF BtReset
<1>3. CASE m.cnt["reset"] = 2
  <2> DEFINE v == ClrConnTable(m)
  <2>1. Good(v) /\ v.act = m.act /\ v.cnt = m.cnt /\ NoStream(v)
    BY ClrConnTableKeeps
  <2>2. u = m \/ u = Advance(v, "reset")
    BY <1>3 DEF BtReset
  <2> HIDE DEF v
  <2>3. v.cnt["reset"] = 2 /\ Resets(v.act, State(v))
    BY <1>3, <2>1 DEF State
  <2> QED
    BY <2>1, <2>2, <2>3, ResetAdvanceKeeps
<1>4. CASE m.cnt["reset"] = 3
  <2> DEFINE v == [m EXCEPT !.cnt["reset"] = 0]
  <2>1. Good(v) /\ SameButCounters(v, m) /\ State(v) = State(m) /\ v.cnt["reset"] = 0
    BY ZeroResetKeeps
  <2>2. [CmdMode(m) EXCEPT !.cnt["reset"] = 0] = CmdMode(v)
    BY <1>1 DEF CmdMode, Machine
  <2>3. u = Then(CmdMode(v))
    BY <1>4, <2>2 DEF BtReset
  <2> HIDE DEF v
  <2>4. NoStream(v) /\ Resets(v.act, State(v))
    BY <1>4, <2>1 DEF Good, Steady, NoStream, SameButCounters
  <2> QED
    BY <2>1, <2>3, <2>4, ResetOverKeeps
<1> QED
  BY <1>1, <1>2, <1>3, <1>4

-----------------------------------------------------------------------------
(* A stream is opened.                                                     *)

(* The chip has reported the stream of an open connection: no other stream  *)
(* can be marked, because none survives command mode without being lost.    *)
SameButStream(u, m) ==
    /\ u.act = m.act /\ u.cnt = m.cnt /\ u.par = m.par /\ u.caller = m.caller /\ u.cell = m.cell
    /\ u.pin = m.pin /\ u.off = m.off /\ u.source = m.source /\ u.sent = m.sent /\ u.lost = m.lost

LEMMA OpenedRadio ==
  ASSUME NEW m, Good(m), m.mode = "cmd", m.pin, NEW c \in Slots, m.conn[c].open,
         NEW u \in {DataMode(Opened(m, c)), Opened(DataMode(m), c)}
  PROVE  u \in Machine /\ Radio(u) /\ u.mode = "data" /\ SameButStream(u, m)
<1>1. m \in Machine /\ Radio(m)
  BY DEF Good, Steady
<1>2. m.conn \in [Slots -> Connection]
  BY <1>1, Fields
<1> DEFINE r == [m.conn[c] EXCEPT !.stream = TRUE]
<1>3. u = [m EXCEPT !.mode = "data", !.conn = [m.conn EXCEPT ![c] = r]]
  BY <1>1, <1>2 DEF DataMode, Opened, Machine
<1>4. r \in Connection /\ r.open
  BY <1>2 DEF Connection
<1> HIDE DEF r
<1>5. [m.conn EXCEPT ![c] = r] \in [Slots -> Connection]
  BY <1>2, <1>4
<1>6. u \in Machine
  BY <1>1, <1>3, <1>5, Fields DEF Machine
<1>7. /\ u.act = m.act /\ u.cnt = m.cnt /\ u.par = m.par /\ u.caller = m.caller /\ u.cell = m.cell
      /\ u.pin = m.pin /\ u.off = m.off /\ u.source = m.source /\ u.sent = m.sent
      /\ u.mode = "data" /\ u.lost = m.lost
      /\ u.conn = [m.conn EXCEPT ![c] = r]
  BY <1>1, <1>3 DEF Machine
<1>8. None \notin Slots
  BY BluetoothConstants DEF Slots
<1>9. \A d \in Slots : ~m.conn[d].stream
  BY <1>1, <1>8 DEF Radio
<1>10. Radio(u)
  <2>1. \A d \in Slots : d # c => u.conn[d] = m.conn[d]
    BY <1>2, <1>7
  <2>2. u.conn[c] = r
    BY <1>2, <1>7
  <2> QED
    BY <1>1, <1>4, <1>7, <1>9, <2>1, <2>2 DEF Radio
<1> QED
  BY <1>6, <1>7, <1>10 DEF SameButStream

LEMMA StreamZeroFacts ==
  ASSUME NEW m \in Machine
  PROVE  LET u == [m EXCEPT !.cnt["stream"] = 0] IN
         u \in Machine /\ u.cnt = [m.cnt EXCEPT !["stream"] = 0] /\ SameButCounters(u, m)
BY ZeroFacts, TheCounters

(* The last step: the counter is at rest and the request goes on.           *)
LEMMA StreamOpenKeeps ==
  ASSUME NEW m, Good(m), m.cnt["stream"] = 4, m.pin,
         NEW u, u = Then([Opened(DataMode(m), m.par.two) EXCEPT !.cnt["stream"] = 0])
  PROVE  Good(u)
<1>1. m \in Machine /\ Steady(m) /\ Fits(m, State(m)) /\ State(m) \in 0 .. 10
  BY CounterFields DEF Good
<1>2. m.mode = "cmd" /\ Opens(m.act, State(m)) /\ m.par.two \in Slots
  BY <1>1, Fields DEF Steady, Fits, Params
<1>3. m.conn[m.par.two].open
  BY <1>1, <1>2 DEF Steady, Wants, Wanted, Opens
<1> DEFINE v == Opened(DataMode(m), m.par.two)
           w == [v EXCEPT !.cnt["stream"] = 0]
<1>4. /\ v \in Machine /\ Radio(v)
      /\ v.act = m.act /\ v.cnt = m.cnt /\ v.par = m.par /\ v.caller = m.caller /\ v.cell = m.cell
      /\ v.pin = m.pin /\ v.off = m.off /\ v.source = m.source /\ v.sent = m.sent
      /\ v.mode = "data" /\ v.lost = m.lost
  <2> DEFINE c == m.par.two
  <2>1. c \in Slots /\ m.conn[c].open /\ v \in {DataMode(Opened(m, c)), Opened(DataMode(m), c)}
    BY <1>2, <1>3
  <2> HIDE DEF v, c
  <2>2. v \in Machine /\ Radio(v) /\ v.mode = "data" /\ SameButStream(v, m)
    BY <1>2, <2>1, OpenedRadio
  <2> QED
    BY <2>2 DEF SameButStream
<1> HIDE DEF v
<1>5. w \in Machine /\ w.cnt = [m.cnt EXCEPT !["stream"] = 0] /\ SameButCounters(w, v)
  BY <1>4, StreamZeroFacts
<1>6. u = Then(w)
  BY DEF v
<1> HIDE DEF w
<1>7. /\ w.act = m.act /\ w.par = m.par /\ w.caller = m.caller /\ w.cell = m.cell
      /\ w.pin = m.pin /\ w.off = m.off /\ w.source = m.source /\ w.sent = m.sent
      /\ w.mode = "data" /\ w.lost = m.lost /\ w.conn = v.conn
  BY <1>4, <1>5 DEF SameButCounters
<1>8. m.cnt \in [Counters -> 0 .. 10]
  BY <1>1, Fields
<1>9. /\ w.cnt["stream"] = 0 /\ w.cnt["update"] = m.cnt["update"] /\ w.cnt["cmd"] = m.cnt["cmd"]
      /\ w.cnt["close"] = m.cnt["close"] /\ w.cnt["disc"] = m.cnt["disc"] /\ w.cnt["reset"] = m.cnt["reset"]
  BY <1>5, <1>8 DEF Counters
<1>10. m.cnt["cmd"] = 0 /\ m.cnt["close"] = 0 /\ m.cnt["disc"] = 0 /\ m.cnt["reset"] = 0
  BY <1>1, <1>2 DEF Fits, Opens, Switches, Closes, Disconnects, Resets, FirstSwitches
<1>11. Asked(w)
  BY <1>1, <1>7 DEF Steady, Asked, OnlyCallerWaits, WaitsIn
<1>12. Radio(w)
  BY <1>4, <1>5 DEF Radio, SameButCounters
<1>13. Steady(w)
  BY <1>1, <1>2, <1>7, <1>9, <1>10, <1>11, <1>12 DEF Steady, Opens
<1>14. State(w) = State(m)
  BY <1>9 DEF State
<1>15. Fits(w, State(m)) /\ Fits(w, State(m) + 1) /\ State(m) < 10
  BY <1>1, <1>2, <1>7, <1>9, <1>10 DEF Fits, WaitsIn, Lasts, Opens, NeedsCmd, FirstSwitches
<1>16. Good(w)
  BY <1>5, <1>13, <1>14, <1>15 DEF Good
<1> QED
  BY <1>6, <1>14, <1>15, <1>16, NextState

LEMMA OpenStartsKeeps ==
  ASSUME NEW m, Good(m), m.cnt["stream"] = 0, Opens(m.act, State(m))
  PROVE  Good(Advance(m, "stream"))
<1> DEFINE u == Advance(m, "stream")
<1>1. m \in Machine /\ Steady(m) /\ Fits(m, State(m))
  BY DEF Good
<1>2. /\ m.cnt \in [Counters -> 0 .. 10] /\ "stream" \in Counters
      /\ m.cnt["stream"] \in 0 .. 9
  BY <1>1, Fields, CounterFields, TheCounters DEF Steady
<1>3. u \in Machine /\ u.cnt = [m.cnt EXCEPT !["stream"] = m.cnt["stream"] + 1] /\ SameButCounters(u, m)
  BY <1>1, <1>2, AdvanceFacts
<1> HIDE DEF u
<1>4. /\ u.cnt["update"] = m.cnt["update"] /\ u.cnt["stream"] = m.cnt["stream"] + 1 /\ u.cnt["cmd"] = m.cnt["cmd"]
      /\ u.cnt["close"] = m.cnt["close"] /\ u.cnt["disc"] = m.cnt["disc"] /\ u.cnt["reset"] = m.cnt["reset"]
  BY <1>2, <1>3 DEF Counters
<1>5. State(u) = State(m)
  BY <1>4 DEF State
<1>6. /\ u.cnt["stream"] <= 4 /\ u.cnt["cmd"] <= 2 /\ u.cnt["close"] <= 1
      /\ u.cnt["disc"] <= 2 /\ u.cnt["reset"] <= 3
      /\ u.cnt["stream"] >= 2 => m.mode = "cmd"
      /\ u.cnt["cmd"] \in {1, 2} \/ u.cnt["reset"] = 3 => NoStream(m)
      /\ u.cnt["stream"] # 0 => Opens(m.act, State(m))
      /\ u.cnt["cmd"] # 0 => Switches(m.act, State(m)) \/ u.cnt["stream"] = 1
      /\ u.cnt["close"] # 0 => Closes(m.act, State(m)) \/ u.cnt["stream"] = 2
      /\ u.cnt["disc"] # 0 => Disconnects(m.act, State(m))
      /\ u.cnt["reset"] # 0 => Resets(m.act, State(m))
  BY <1>1, <1>2, <1>4 DEF Steady, Fits, Opens, Switches, Closes, FirstSwitches
<1>7. Good(u)
  BY <1>3, <1>5, <1>6, CountersKeep
<1> QED
  BY <1>7 DEF u

LEMMA OpenAskedKeeps ==
  ASSUME NEW m, Good(m), m.cnt["stream"] = 3
  PROVE  Good(Advance(m, "stream"))
<1> DEFINE u == Advance(m, "stream")
<1>1. m \in Machine /\ Steady(m) /\ Fits(m, State(m))
  BY DEF Good
<1>2. /\ m.cnt \in [Counters -> 0 .. 10] /\ "stream" \in Counters
      /\ m.cnt["stream"] \in 0 .. 9
  BY <1>1, Fields, CounterFields, TheCounters DEF Steady
<1>3. u \in Machine /\ u.cnt = [m.cnt EXCEPT !["stream"] = m.cnt["stream"] + 1] /\ SameButCounters(u, m)
  BY <1>1, <1>2, AdvanceFacts
<1> HIDE DEF u
<1>4. /\ u.cnt["update"] = m.cnt["update"] /\ u.cnt["stream"] = m.cnt["stream"] + 1 /\ u.cnt["cmd"] = m.cnt["cmd"]
      /\ u.cnt["close"] = m.cnt["close"] /\ u.cnt["disc"] = m.cnt["disc"] /\ u.cnt["reset"] = m.cnt["reset"]
  BY <1>2, <1>3 DEF Counters
<1>5. State(u) = State(m)
  BY <1>4 DEF State
<1>6. /\ u.cnt["stream"] <= 4 /\ u.cnt["cmd"] <= 2 /\ u.cnt["close"] <= 1
      /\ u.cnt["disc"] <= 2 /\ u.cnt["reset"] <= 3
      /\ u.cnt["stream"] >= 2 => m.mode = "cmd"
      /\ u.cnt["cmd"] \in {1, 2} \/ u.cnt["reset"] = 3 => NoStream(m)
      /\ u.cnt["stream"] # 0 => Opens(m.act, State(m))
      /\ u.cnt["cmd"] # 0 => Switches(m.act, State(m)) \/ u.cnt["stream"] = 1
      /\ u.cnt["close"] # 0 => Closes(m.act, State(m)) \/ u.cnt["stream"] = 2
      /\ u.cnt["disc"] # 0 => Disconnects(m.act, State(m))
      /\ u.cnt["reset"] # 0 => Resets(m.act, State(m))
  BY <1>1, <1>2, <1>4 DEF Steady, Fits, Opens, Switches, Closes, FirstSwitches
<1>7. Good(u)
  BY <1>3, <1>5, <1>6, CountersKeep
<1> QED
  BY <1>7 DEF u

LEMMA OpenKeeps ==
  ASSUME NEW m, Good(m), Opens(m.act, State(m)), NEW in, NEW u \in OpenStream(m, in)
  PROVE  Good(u)
<1>1. m \in Machine /\ Steady(m) /\ Fits(m, State(m)) /\ State(m) \in 0 .. 10
  BY CounterFields DEF Good
<1>2. m.cnt["stream"] \in {0, 1, 2, 3, 4}
  BY <1>1, CounterFields DEF Steady
<1>3. CASE m.cnt["stream"] = 0
  <2>1. CASE ~m.conn[m.par.two].named
    <3>1. u = BrokenOff(Answer(m, "final"))
      BY <1>3, <2>1 DEF OpenStream
    <3>2. Radio(m) /\ OnlyCallerWaits(m)
      BY <1>1 DEF Steady, Asked
    <3> QED
      BY <1>1, <3>1, <3>2, AnsweredBrokenOffKeeps
  <2>2. CASE m.conn[m.par.two].named /\ m.conn[m.par.two].stream
    <3>1. u = Then(m)
      BY <1>3, <2>2 DEF OpenStream
    <3>2. State(m) < 10 /\ Fits(m, State(m) + 1)
      BY <1>1, <1>3 DEF Fits, Lasts, Opens, Switches, Closes, Disconnects, Resets, NeedsCmd, FirstSwitches
    <3> QED
      BY <3>1, <3>2, NextState
  <2>3. CASE m.conn[m.par.two].named /\ ~m.conn[m.par.two].stream
    BY <1>3, <2>3, OpenStartsKeeps DEF OpenStream
  <2> QED
    BY <2>1, <2>2, <2>3
<1>4. CASE m.cnt["stream"] = 1
  BY <1>4, SwitchForStreamKeeps DEF OpenStream
<1>5. CASE m.cnt["stream"] = 2
  BY <1>5, CloseForStreamKeeps DEF OpenStream
<1>6. CASE m.cnt["stream"] = 3
  <2>1. u = SendCmd(Advance(m, "stream"))
    BY <1>6 DEF OpenStream
  <2>2. Good(Advance(m, "stream"))
    BY <1>6, OpenAskedKeeps
  <2>3. m.cnt["stream"] \in 0 .. 9 /\ "stream" \in Counters
    BY <1>6, TheCounters
  <2>4. SameButCounters(Advance(m, "stream"), m)
    BY <1>1, <2>3, AdvanceFacts
  <2>5. Advance(m, "stream").mode = "cmd"
    BY <1>1, <1>6, <2>4 DEF SameButCounters, Steady
  <2> QED
    BY <2>1, <2>2, <2>5, CmdKeeps
<1>7. CASE m.cnt["stream"] = 4
  <2>1. u = m \/ (m.pin /\ u = Then([Opened(DataMode(m), m.par.two) EXCEPT !.cnt["stream"] = 0]))
    BY <1>7 DEF OpenStream, When
  <2> QED
    BY <1>7, <2>1, StreamOpenKeeps
<1> QED
  BY <1>2, <1>3, <1>4, <1>5, <1>6, <1>7

-----------------------------------------------------------------------------
(* The requests, state by state.                                           *)

LEMMA ResetStartKeeps ==
  ASSUME NEW m, Good(m), m.act = "RESET", State(m) <= 5, NEW in, NEW u \in ResetStart(m, in)
  PROVE  Good(u)
<1>1. m \in Machine /\ Steady(m) /\ Fits(m, State(m)) /\ State(m) \in 0 .. 10
  BY CounterFields DEF Good
<1>2. m.source # "open"
  BY <1>1 DEF Fits
<1>3. CASE State(m) = 0
  <2> DEFINE v == [m EXCEPT !.off = TRUE]
  <2>1. /\ v \in Machine /\ v.off = TRUE
        /\ v.act = m.act /\ v.cnt = m.cnt /\ v.par = m.par /\ v.caller = m.caller /\ v.cell = m.cell
        /\ v.mode = m.mode /\ v.pin = m.pin /\ v.conn = m.conn /\ v.source = m.source
        /\ v.lost = m.lost /\ v.sent = m.sent
    BY <1>1, Fields DEF Machine
  <2>2. u = Then(v)
    BY <1>3 DEF ResetStart
  <2> HIDE DEF v
  <2>3. Asked(v) /\ Radio(v)
    BY <1>1, <2>1 DEF Steady, Asked, OnlyCallerWaits, WaitsIn, Radio
  <2>4. Steady(v)
    BY <1>1, <2>1, <2>3 DEF Steady, Wants, Wanted, NoStream
  <2>5. State(v) = 0 /\ Fits(v, 0) /\ Fits(v, 0 + 1)
    BY <1>1, <2>1, <1>3 DEF State, WaitsIn, Fits, Lasts, Opens, Switches, Closes, Disconnects, Resets, NeedsCmd, FirstSwitches
  <2> QED
    BY <2>1, <2>2, <2>4, <2>5, NextState DEF Good
<1>4. CASE State(m) = 1
  <2>1. Resets(m.act, State(m))
    BY <1>4 DEF Resets
  <2> QED
    BY <1>4, <2>1, ResetKeeps DEF ResetStart
<1>5. CASE State(m) = 2
  <2>1. m.mode = "cmd" /\ State(m) < 10 /\ Fits(m, State(m) + 1)
    BY <1>1, <1>2, <1>5 DEF Fits, Lasts, Opens, Switches, Closes, Disconnects, Resets, NeedsCmd, FirstSwitches, Steady
  <2>2. u \in {SendCmd(Then(m))}
    BY <1>5 DEF ResetStart, When
  <2> QED
    BY <1>1, <1>2, <2>1, <2>2, NextState
<1>6. CASE State(m) = 3
  <2>1. m.mode = "cmd" /\ State(m) < 10 /\ Fits(m, State(m) + 1)
    BY <1>1, <1>2, <1>6 DEF Fits, Lasts, Opens, Switches, Closes, Disconnects, Resets, NeedsCmd, FirstSwitches, Steady
  <2>2. u \in {m, SendCmd(Then(m))}
    BY <1>6 DEF ResetStart, When
  <2> QED
    BY <1>1, <1>2, <2>1, <2>2, NextState
<1>7. CASE State(m) = 4
  <2>1. m.mode = "cmd" /\ State(m) < 10 /\ Fits(m, State(m) + 1)
    BY <1>1, <1>2, <1>7 DEF Fits, Lasts, Opens, Switches, Closes, Disconnects, Resets, NeedsCmd, FirstSwitches, Steady
  <2>2. u \in {m, SendCmd(Then(m))}
    BY <1>7 DEF ResetStart, When
  <2> QED
    BY <1>1, <1>2, <2>1, <2>2, NextState
<1>8. CASE State(m) = 5
  <2>1. m.mode = "cmd" /\ State(m) < 10 /\ Fits(m, State(m) + 1)
    BY <1>1, <1>2, <1>8 DEF Fits, Lasts, Opens, Switches, Closes, Disconnects, Resets, NeedsCmd, FirstSwitches, Steady
  <2>2. u \in {m, SendCmd(Then(m))}
    BY <1>8 DEF ResetStart, When
  <2> QED
    BY <1>1, <1>2, <2>1, <2>2, NextState
<1>9. State(m) \in 0 .. 5
  BY <1>1 DEF Fits, Lasts
<1> QED
  BY <1>3, <1>4, <1>5, <1>6, <1>7, <1>8, <1>9

LEMMA ResetEndKeeps ==
  ASSUME NEW m, Good(m), m.act = "RESET", State(m) > 5, NEW in, NEW u \in ResetEnd(m, in)
  PROVE  Good(u)
<1>1. m \in Machine /\ Steady(m) /\ Fits(m, State(m)) /\ State(m) \in 0 .. 10
  BY CounterFields DEF Good
<1>2. m.source # "open"
  BY <1>1 DEF Fits
<1>3. CASE State(m) = 6
  <2>1. m.mode = "cmd" /\ State(m) < 10 /\ Fits(m, State(m) + 1)
    BY <1>1, <1>2, <1>3 DEF Fits, Lasts, Opens, Switches, Closes, Disconnects, Resets, NeedsCmd, FirstSwitches, Steady
  <2>2. u \in {m, SendCmd(Then(m))}
    BY <1>3 DEF ResetEnd, When
  <2> QED
    BY <1>1, <1>2, <2>1, <2>2, NextState
<1>4. CASE State(m) = 7
  <2>1. CASE in.msg = "answer" /\ in.ok
    <3> DEFINE v == [m EXCEPT !.off = FALSE]
    <3>1. /\ v \in Machine /\ v.off = FALSE
          /\ v.act = m.act /\ v.cnt = m.cnt /\ v.par = m.par /\ v.caller = m.caller /\ v.cell = m.cell
          /\ v.mode = m.mode /\ v.pin = m.pin /\ v.conn = m.conn /\ v.source = m.source
          /\ v.lost = m.lost /\ v.sent = m.sent
      BY <1>1, Fields DEF Machine
    <3>2. u = SendCmd(Then(v))
      BY <1>4, <2>1 DEF ResetEnd, When
    <3>3. m.mode = "cmd"
      BY <1>1, <1>4 DEF Fits, NeedsCmd
    <3> HIDE DEF v
    <3>4. Steady(v)
      <4>1. Asked(v) /\ Radio(v)
        BY <1>1, <3>1, <3>3 DEF Steady, Asked, OnlyCallerWaits, WaitsIn, Radio
      <4> QED
        BY <1>1, <3>1, <4>1 DEF Steady, Wants, Wanted, NoStream
    <3>5. v.cnt["update"] = 7 /\ 7 + 1 \in 0 .. 10 /\ Fits(v, 7 + 1)
      BY <1>1, <3>1, <1>4 DEF State, WaitsIn, Fits, Lasts, Opens, Switches, Closes, Disconnects, Resets, NeedsCmd, FirstSwitches
    <3>6. Good(Goto(v, 7 + 1))
      BY <3>1, <3>4, <3>5, GotoKeeps
    <3>7. Then(v) = Goto(v, 7 + 1)
      BY <3>1, <3>5, ThenIsGoto DEF State
    <3>8. SameButCounters(Goto(v, 7 + 1), v)
      BY <3>1, <3>5, GotoFacts
    <3>9. Goto(v, 7 + 1).mode = "cmd"
      BY <3>1, <3>3, <3>8 DEF SameButCounters
    <3> QED
      BY <3>2, <3>6, <3>7, <3>9, CmdKeeps
  <2>2. CASE in.msg = "answer" /\ ~in.ok
    <3> DEFINE v == [m EXCEPT !.mode = "off"]
    <3>1. /\ v \in Machine /\ v.mode = "off" /\ v.off = m.off
          /\ v.caller = m.caller /\ v.cell = m.cell /\ v.pin = m.pin /\ v.conn = m.conn
          /\ v.source = m.source /\ v.lost = m.lost /\ v.sent = m.sent
      BY <1>1, Fields DEF Machine
    <3>2. u = Done(v)
      BY <1>4, <2>2 DEF ResetEnd, When
    <3> HIDE DEF v
    <3>3. m.off /\ m.mode = "cmd"
      BY <1>1, <1>4 DEF Fits, NeedsCmd
    <3>4. Radio(v) /\ OnlyCallerWaits(v)
      BY <1>1, <3>1, <3>3 DEF Steady, Asked, Radio, OnlyCallerWaits, WaitsIn
    <3> QED
      BY <1>2, <3>1, <3>2, <3>4, DoneKeeps
  <2>3. CASE in.msg # "answer"
    BY <1>4, <2>3 DEF ResetEnd, When
  <2> QED
    BY <2>1, <2>2, <2>3
<1>5. CASE State(m) = 8
  <2>1. m.mode = "cmd" /\ State(m) < 10 /\ Fits(m, State(m) + 1)
    BY <1>1, <1>2, <1>5 DEF Fits, Lasts, Opens, Switches, Closes, Disconnects, Resets, NeedsCmd, FirstSwitches, Steady
  <2>2. u \in {m, SendCmd(Then(m))}
    BY <1>5 DEF ResetEnd, When
  <2> QED
    BY <1>1, <1>2, <2>1, <2>2, NextState
<1>6. CASE State(m) = 9
  <2>1. u \in {m, Done(m)}
    BY <1>6 DEF ResetEnd, When
  <2> QED
    BY <1>1, <1>2, <2>1, EndKeeps
<1>7. State(m) \in 6 .. 9
  BY <1>1 DEF Fits, Lasts
<1> QED
  BY <1>3, <1>4, <1>5, <1>6, <1>7

(* A reset that follows something else starts with counters at rest.        *)
LEMMA FreshResetKeeps ==
  ASSUME NEW u \in Machine, u.act = "RESET", u.cnt = AllZero,
         OnlyCallerWaits(u), Radio(u), u.source # "open"
  PROVE  Good(u)
<1>1. /\ u.cnt["update"] = 0 /\ u.cnt["stream"] = 0 /\ u.cnt["cmd"] = 0
      /\ u.cnt["close"] = 0 /\ u.cnt["disc"] = 0 /\ u.cnt["reset"] = 0
  BY DEF AllZero, Counters
<1>2. Asked(u) /\ ~Wants(u)
  BY DEF Asked, Wants
<1>3. Steady(u)
  BY <1>1, <1>2 DEF Steady
<1>4. Fits(u, 0)
  BY <1>1 DEF Fits, Lasts, NeedsCmd, FirstSwitches
<1> QED
  BY <1>1, <1>3, <1>4 DEF Good, State

LEMMA FactoryResetKeeps ==
  ASSUME NEW m, Good(m), m.act = "FACTORYRESET", NEW in, NEW u \in FactoryReset(m, in)
  PROVE  Good(u)
<1>1. m \in Machine /\ Steady(m) /\ Fits(m, State(m)) /\ State(m) \in 0 .. 10
  BY CounterFields DEF Good
<1>2. m.source # "open"
  BY <1>1 DEF Fits
<1>3. CASE State(m) = 0
  <2>1. 1 \in 0 .. 10 /\ 2 \in 0 .. 10 /\ Fits(m, 1) /\ Fits(m, 2)
    BY <1>1, <1>2, <1>3 DEF Fits, Lasts, Opens, Switches, Closes, Disconnects, Resets, NeedsCmd, FirstSwitches
  <2>2. u \in {Goto(m, 1), Goto(m, 2)}
    BY <1>3 DEF FactoryReset, When
  <2> QED
    BY <1>1, <1>2, <2>1, <2>2, Continues
<1>4. CASE State(m) = 1
  <2>1. Resets(m.act, State(m))
    BY <1>4 DEF Resets
  <2> QED
    BY <1>4, <2>1, ResetKeeps DEF FactoryReset
<1>5. CASE State(m) = 2
  <2>1. Switches(m.act, State(m))
    BY <1>5 DEF Switches, FirstSwitches
  <2> QED
    BY <1>5, <2>1, SwitchKeeps DEF FactoryReset
<1>6. CASE State(m) = 3
  <2>1. Disconnects(m.act, State(m))
    BY <1>6 DEF Disconnects
  <2> QED
    BY <1>6, <2>1, DiscKeeps DEF FactoryReset
<1>7. CASE State(m) = 4
  <2>1. m.mode = "cmd" /\ State(m) < 10 /\ Fits(m, State(m) + 1)
    BY <1>1, <1>2, <1>7 DEF Fits, Lasts, Opens, Switches, Closes, Disconnects, Resets, NeedsCmd, FirstSwitches, Steady
  <2>2. u \in {SendCmd(Then(m))}
    BY <1>7 DEF FactoryReset, When
  <2> QED
    BY <1>1, <1>2, <2>1, <2>2, NextState
<1>8. CASE State(m) = 5
  <2>1. CASE in.msg = "answer"
    <3> DEFINE i == Idle(m)
    <3>1. /\ i \in Machine /\ i.cnt = AllZero /\ i.par = NoParams
          /\ i.caller = m.caller /\ i.cell = m.cell /\ i.mode = m.mode /\ i.pin = m.pin
          /\ i.conn = m.conn /\ i.off = m.off /\ i.source = m.source /\ i.lost = m.lost /\ i.sent = m.sent
      BY <1>1, IdleFacts
    <3>2. u = [i EXCEPT !.act = "RESET"]
      BY <1>8, <2>1 DEF FactoryReset, When
    <3> HIDE DEF i
    <3>3. /\ u \in Machine /\ u.act = "RESET" /\ u.cnt = AllZero
          /\ u.caller = m.caller /\ u.cell = m.cell /\ u.mode = m.mode /\ u.pin = m.pin
          /\ u.conn = m.conn /\ u.off = m.off /\ u.source = m.source /\ u.lost = m.lost /\ u.sent = m.sent
      BY <3>1, <3>2, Fields DEF Machine, Updates
    <3>4. OnlyCallerWaits(u) /\ Radio(u)
      BY <1>1, <3>3 DEF Steady, Asked, OnlyCallerWaits, WaitsIn, Radio
    <3> QED
      BY <1>2, <3>3, <3>4, FreshResetKeeps
  <2>2. CASE in.msg # "answer"
    BY <1>8, <2>2 DEF FactoryReset, When
  <2> QED
    BY <2>1, <2>2
<1>9. State(m) \in 0 .. 5
  BY <1>1 DEF Fits, Lasts
<1> QED
  BY <1>3, <1>4, <1>5, <1>6, <1>7, <1>8, <1>9

(* What is parked for the stream that is opened again.                      *)
LEMMA ReopenFacts ==
  ASSUME NEW m \in Machine, NEW r \in Slots \cup {None}
  PROVE  LET v == [m EXCEPT !.par.reopen = r] IN
         /\ v \in Machine /\ v.par.reopen = r
         /\ v.act = m.act /\ v.cnt = m.cnt /\ v.caller = m.caller /\ v.cell = m.cell
         /\ v.mode = m.mode /\ v.pin = m.pin /\ v.conn = m.conn /\ v.off = m.off
         /\ v.source = m.source /\ v.lost = m.lost /\ v.sent = m.sent
<1> DEFINE v == [m EXCEPT !.par.reopen = r]
<1>1. m.par \in Params
  BY Fields
<1>2. [m.par EXCEPT !.reopen = r] \in Params
  BY <1>1 DEF Params
<1>3. v \in Machine
  BY <1>2, Fields DEF Machine
<1> QED
  BY <1>1, <1>3 DEF Machine, Params

LEMMA BrickNameKeeps ==
  ASSUME NEW m, Good(m), m.act = "BRICKNAME", NEW in, NEW u \in BrickName(m, in)
  PROVE  Good(u)
<1>1. m \in Machine /\ Steady(m) /\ Fits(m, State(m)) /\ State(m) \in 0 .. 10
  BY CounterFields DEF Good
<1>2. m.source # "open"
  BY <1>1 DEF Fits
<1>3. CASE State(m) = 0
  <2>1. CASE m.off
    <3>1. u = Goto(m, 1) /\ 1 \in 0 .. 10
      BY <1>3, <2>1 DEF BrickName
    <3>2. Fits(m, 1)
      BY <1>1, <1>3 DEF Fits, Lasts, Opens, Switches, Closes, Disconnects, Resets, NeedsCmd, FirstSwitches
    <3> QED
      BY <3>1, <3>2, Continues
  <2>2. CASE ~m.off
    <3>1. u = Goto(m, 2) /\ 2 \in 0 .. 10
      BY <1>3, <2>2 DEF BrickName
    <3>2. m.mode # "off"
      BY <1>1, <2>2 DEF Steady, Radio
    <3>3. Fits(m, 2)
      BY <1>1, <3>2, <1>3 DEF Fits, Lasts, Opens, Switches, Closes, Disconnects, Resets, NeedsCmd, FirstSwitches
    <3> QED
      BY <3>1, <3>3, Continues
  <2> QED
    BY <2>1, <2>2
<1>4. CASE State(m) = 1
  <2>1. Resets(m.act, State(m))
    BY <1>4 DEF Resets
  <2> QED
    BY <1>4, <2>1, ResetKeeps DEF BrickName
<1>5. CASE State(m) = 2
  <2> DEFINE streaming == {c \in Slots : m.conn[c].stream}
             last == CHOOSE c \in streaming : \A d \in streaming : d <= c
  <2>1. \A r \in Slots \cup {None} : r = None \/ m.mode = "data" => LET v == [m EXCEPT !.par.reopen = r] IN
           v \in Machine /\ Steady(v) /\ Fits(v, State(v)) /\ State(v) = 2 /\ v.act = "BRICKNAME" /\ v.mode = m.mode
    <3> SUFFICES ASSUME NEW r \in Slots \cup {None}, r = None \/ m.mode = "data"
                 PROVE  LET v == [m EXCEPT !.par.reopen = r] IN
                        v \in Machine /\ Steady(v) /\ Fits(v, State(v)) /\ State(v) = 2
                        /\ v.act = "BRICKNAME" /\ v.mode = m.mode
      OBVIOUS
    <3> DEFINE v == [m EXCEPT !.par.reopen = r]
    <3>1. /\ v \in Machine /\ v.par.reopen = r
          /\ v.act = m.act /\ v.cnt = m.cnt /\ v.caller = m.caller /\ v.cell = m.cell
          /\ v.mode = m.mode /\ v.pin = m.pin /\ v.conn = m.conn /\ v.off = m.off
          /\ v.source = m.source /\ v.lost = m.lost /\ v.sent = m.sent
      BY <1>1, ReopenFacts
    <3> HIDE DEF v
    <3>2. Asked(v) /\ Radio(v)
      BY <1>1, <3>1 DEF Steady, Asked, OnlyCallerWaits, WaitsIn, Radio
    <3>3. Steady(v)
      BY <1>1, <3>1, <3>2 DEF Steady, Wants, NoStream
    <3>4. Fits(v, 2) /\ State(v) = 2
      BY <1>1, <3>1, <1>5 DEF Fits, WaitsIn, State
    <3> QED
      BY <3>1, <3>3, <3>4 DEF v
  <2>2. \A v : v \in Machine /\ Steady(v) /\ Fits(v, State(v)) /\ State(v) = 2 /\ v.act = "BRICKNAME" =>
           Fits(v, 3) /\ (v.mode = "cmd" => Fits(v, 4))
    BY DEF Fits, Lasts, Opens, Switches, Closes, Disconnects, Resets, NeedsCmd, FirstSwitches
  <2>3. CASE m.mode = "data"
    <3>1. last \in Slots \/ streaming = {}
      <4>1. \A c, d \in streaming : c = d
        BY <1>1 DEF Steady, Radio
      <4>2. streaming # {} => \E c \in streaming : \A d \in streaming : d <= c
        BY <4>1 DEF Slots
      <4> QED
        BY <4>2
    <3>2. PICK r \in Slots \cup {None} : u = Then([m EXCEPT !.par.reopen = r])
      <4>1. u = Then([m EXCEPT !.par.reopen = IF streaming = {} THEN None ELSE last])
        BY <1>5, <2>3 DEF BrickName
      <4> QED
        BY <3>1, <4>1
    <3> DEFINE v == [m EXCEPT !.par.reopen = r]
    <3>3. v \in Machine /\ Steady(v) /\ Fits(v, State(v)) /\ State(v) = 2 /\ v.act = "BRICKNAME"
      BY <2>1, <2>3
    <3>4. u = Then(v)
      BY <3>2
    <3> HIDE DEF v
    <3>5. Good(v) /\ State(v) < 10 /\ Fits(v, State(v) + 1)
      BY <2>2, <3>3 DEF Good
    <3> QED
      BY <3>4, <3>5, NextState
  <2>4. CASE m.mode # "data"
    <3> DEFINE v == [m EXCEPT !.par.reopen = None]
    <3>1. m.mode = "cmd"
      BY <1>1, <2>4, <1>5, Fields DEF Fits
    <3>2. v \in Machine /\ Steady(v) /\ Fits(v, State(v)) /\ State(v) = 2 /\ v.act = "BRICKNAME" /\ v.mode = "cmd"
      BY <2>1, <3>1
    <3>3. u = Goto(v, 4) /\ 4 \in 0 .. 10
      BY <1>5, <2>4 DEF BrickName
    <3> HIDE DEF v
    <3>4. Good(v) /\ Fits(v, 4)
      BY <2>2, <3>2 DEF Good
    <3> QED
      BY <3>3, <3>4, Continues
  <2> QED
    BY <2>3, <2>4
<1>6. CASE State(m) = 3
  <2>1. Switches(m.act, State(m))
    BY <1>6 DEF Switches, FirstSwitches
  <2> QED
    BY <1>6, <2>1, SwitchKeeps DEF BrickName
<1>7. CASE State(m) = 4
  <2>1. m.mode = "cmd" /\ State(m) < 10 /\ Fits(m, State(m) + 1)
    BY <1>1, <1>2, <1>7 DEF Fits, Lasts, Opens, Switches, Closes, Disconnects, Resets, NeedsCmd, FirstSwitches, Steady
  <2>2. u \in {SendCmd(Then(m))}
    BY <1>7 DEF BrickName, When
  <2> QED
    BY <1>1, <1>2, <2>1, <2>2, NextState
<1>8. CASE State(m) = 5
  <2>1. m.mode = "cmd" /\ State(m) < 10 /\ (m.par.reopen # None => Fits(m, State(m) + 1))
    BY <1>1, <1>2, <1>8 DEF Fits, Lasts, Opens, Switches, Closes, Disconnects, Resets, NeedsCmd, FirstSwitches
  <2>2. \/ u = SendCmd(Then(m)) /\ m.par.reopen # None
        \/ u \in {m, Done([m EXCEPT !.mode = IF m.off THEN "off" ELSE @])}
    BY <1>8 DEF BrickName, When
  <2> DEFINE v == [m EXCEPT !.mode = IF m.off THEN "off" ELSE @]
  <2>3. /\ v \in Machine /\ (v.mode = "off" => v.off) /\ v.mode \in {"cmd", "off"} /\ v.off = m.off
        /\ v.caller = m.caller /\ v.cell = m.cell /\ v.pin = m.pin /\ v.conn = m.conn
        /\ v.source = m.source /\ v.lost = m.lost /\ v.sent = m.sent
    BY <1>1, <2>1, Fields DEF Machine
  <2>4. Good(Done(v))
    <3> HIDE DEF v
    <3>1. Radio(v) /\ OnlyCallerWaits(v)
      BY <1>1, <2>1, <2>3 DEF Steady, Asked, Radio, OnlyCallerWaits, WaitsIn
    <3> QED
      BY <1>2, <2>3, <3>1, DoneKeeps
  <2> QED
    BY <2>1, <2>2, <2>4, NextState
<1>9. CASE State(m) = 6
  <2>1. CASE ~m.pin
    BY <1>9, <2>1 DEF BrickName, When
  <2>2. CASE m.pin
    <3> DEFINE c == m.par.reopen
               v == DataMode(Opened(m, c))
    <3>1. u = m \/ u = Done(v)
      BY <1>9 DEF BrickName, When
    <3>2. m.mode = "cmd"
      BY <1>1, <1>9 DEF Fits, NeedsCmd, Steady
    <3>3. ASSUME u # m PROVE c \in Slots /\ m.conn[c].open
      BY <1>1, <2>2, <3>2, <1>9, Fields DEF Fits, Steady, Wants, Wanted, Params
    <3> HIDE DEF c
    <3>4. CASE u # m
      <4>1. v \in Machine /\ Radio(v) /\ SameButStream(v, m)
        BY <2>2, <3>2, <3>3, <3>4, OpenedRadio
      <4> HIDE DEF v
      <4>2. OnlyCallerWaits(v) /\ v.source # "open"
        BY <1>1, <1>2, <4>1 DEF Steady, Asked, OnlyCallerWaits, WaitsIn, SameButStream
      <4> QED
        BY <3>1, <3>4, <4>1, <4>2, DoneKeeps
    <3> QED
      BY <3>4
  <2> QED
    BY <2>1, <2>2
<1>10. State(m) \in 0 .. 6
  BY <1>1 DEF Fits, Lasts
<1> QED
  BY <1>3, <1>4, <1>5, <1>6, <1>7, <1>8, <1>9, <1>10

LEMMA ReqCmdModeKeeps ==
  ASSUME NEW m, Good(m), m.act = "REQCMDMODE", NEW u \in ReqCmdMode(m)
  PROVE  Good(u)
<1>1. m \in Machine /\ Steady(m) /\ Fits(m, State(m)) /\ State(m) \in 0 .. 10
  BY CounterFields DEF Good
<1>2. m.source # "open"
  BY <1>1 DEF Fits
<1>3. CASE State(m) = 0
  <2>1. Switches(m.act, State(m))
    BY <1>3 DEF Switches, FirstSwitches
  <2> QED
    BY <1>3, <2>1, SwitchKeeps DEF ReqCmdMode
<1>4. CASE State(m) = 1
  <2>1. u \in {Done(m)}
    BY <1>4 DEF ReqCmdMode, When
  <2> QED
    BY <1>1, <1>2, <2>1, EndKeeps
<1>5. State(m) \in 0 .. 1
  BY <1>1 DEF Fits, Lasts
<1> QED
  BY <1>3, <1>4, <1>5

LEMMA OpenStreamRequestKeeps ==
  ASSUME NEW m, Good(m), m.act = "OPENSTREAM", NEW in, NEW u \in OpenStreamRequest(m, in)
  PROVE  Good(u)
<1>1. m \in Machine /\ Steady(m) /\ Fits(m, State(m)) /\ State(m) \in 0 .. 10
  BY CounterFields DEF Good
<1>2. m.source # "open"
  BY <1>1 DEF Fits
<1>3. CASE State(m) = 0
  <2>1. Opens(m.act, State(m))
    BY <1>3 DEF Opens
  <2> QED
    BY <1>3, <2>1, OpenKeeps DEF OpenStreamRequest
<1>4. CASE State(m) = 1
  <2>1. u \in {Done(m)}
    BY <1>4 DEF OpenStreamRequest, When
  <2> QED
    BY <1>1, <1>2, <2>1, EndKeeps
<1>5. State(m) \in 0 .. 1
  BY <1>1 DEF Fits, Lasts
<1> QED
  BY <1>3, <1>4, <1>5

(* What a request has parked: the amounts that are left and the timer.      *)
SameButPar(v, m) ==
    /\ v.act = m.act /\ v.cnt = m.cnt /\ v.caller = m.caller /\ v.cell = m.cell
    /\ v.mode = m.mode /\ v.pin = m.pin /\ v.conn = m.conn /\ v.off = m.off
    /\ v.source = m.source /\ v.lost = m.lost /\ v.sent = m.sent

LEMMA ParFacts ==
  ASSUME NEW m \in Machine, NEW p \in Params
  PROVE  LET v == [m EXCEPT !.par = p] IN v \in Machine /\ v.par = p /\ SameButPar(v, m)
<1> DEFINE v == [m EXCEPT !.par = p]
<1>1. v \in Machine
  BY Fields DEF Machine
<1> QED
  BY <1>1 DEF Machine, SameButPar

LEMMA ParSteady ==
  ASSUME NEW m \in Machine, Steady(m), NEW v \in Machine, SameButPar(v, m),
         v.par.two = m.par.two, v.par.reopen = m.par.reopen,
         m.act = "DISCONNECT" => v.par.one \in Slots,
         m.act = "EXTREAD" => 1 <= v.par.msg
  PROVE  Steady(v)
<1>1. Asked(v)
  BY DEF Steady, Asked, OnlyCallerWaits, WaitsIn, SameButPar
<1>2. Radio(v)
  BY DEF Steady, Radio, SameButPar
<1>3. Wants(v) = Wants(m) /\ Wanted(v) = Wanted(m) /\ NoStream(v) = NoStream(m)
  BY DEF Wants, Wanted, NoStream, SameButPar
<1> QED
  BY <1>1, <1>2, <1>3 DEF Steady, SameButPar

LEMMA TimerKeeps ==
  ASSUME NEW m, Good(m), NEW n \in 0 .. TxTimeout
  PROVE  LET v == [m EXCEPT !.par.timer = n] IN Good(v) /\ v.act = m.act /\ v.cnt = m.cnt /\ v.mode = m.mode
<1> DEFINE p == [m.par EXCEPT !.timer = n]
           v == [m EXCEPT !.par.timer = n]
<1>1. m \in Machine /\ m.par \in Params
  BY Fields DEF Good
<1>2. /\ p \in Params /\ p.two = m.par.two /\ p.reopen = m.par.reopen /\ p.one = m.par.one
      /\ p.msg = m.par.msg /\ p.file = m.par.file
  BY <1>1 DEF Params
<1>3. v = [m EXCEPT !.par = p]
  BY <1>1 DEF Machine
<1> HIDE DEF p, v
<1>4. v \in Machine /\ v.par = p /\ SameButPar(v, m)
  BY <1>1, <1>2, <1>3, ParFacts
<1>5. Good(v)
  BY <1>2, <1>4, ParsKeep DEF SameButPar
<1> QED
  BY <1>4, <1>5 DEF SameButPar, v

LEMMA RestartedKeeps ==
  ASSUME NEW m, Good(m)
  PROVE  Good(Restarted(m)) /\ Restarted(m).act = m.act /\ Restarted(m).cnt = m.cnt /\ Restarted(m).mode = m.mode
<1>1. 0 \in 0 .. TxTimeout
  BY BluetoothConstants
<1> QED
  BY <1>1, TimerKeeps DEF Restarted

(* The file transfer gives up: who asked is answered, and the source is      *)
(* still to be closed.                                                     *)
LEMMA GivenUpKeeps ==
  ASSUME NEW m, Good(m), m.act = "SENDFILE", State(m) \in 1 .. 8
  PROVE  LET u == Goto(Answer(m, "final"), 8) IN Good(u) /\ u.act = "SENDFILE" /\ State(u) = 8
<1>1. m \in Machine /\ Steady(m) /\ Fits(m, State(m))
  BY DEF Good
<1> DEFINE v == Answer(m, "final")
<1>2. /\ v \in Machine
      /\ \A c \in Cells : v.cell[c] = IF c = m.caller THEN "final" ELSE m.cell[c]
      /\ v.act = m.act /\ v.cnt = m.cnt /\ v.par = m.par /\ v.caller = m.caller /\ v.mode = m.mode
      /\ v.pin = m.pin /\ v.conn = m.conn /\ v.off = m.off
      /\ v.source = m.source /\ v.lost = m.lost /\ v.sent = m.sent
  BY <1>1, AnswerFacts DEF CellValues
<1> HIDE DEF v
<1>3. \A c \in Cells : ~WaitsIn(v, c)
  BY <1>1, <1>2 DEF WaitsIn, Steady, Asked, OnlyCallerWaits
<1>4. Asked(v) /\ Radio(v)
  BY <1>1, <1>2, <1>3 DEF Asked, OnlyCallerWaits, Steady, Radio
<1>5. Wants(v) = Wants(m) /\ Wanted(v) = Wanted(m) /\ NoStream(v) = NoStream(m)
  BY <1>2 DEF Wants, Wanted, NoStream
<1>6. Steady(v)
  BY <1>1, <1>2, <1>4, <1>5 DEF Steady
<1>7. Fits(v, 8) /\ 8 \in 0 .. 10
  BY <1>1, <1>2, <1>3 DEF Fits, Lasts, Opens, Switches, Closes, Disconnects, Resets, NeedsCmd, FirstSwitches
<1>8. Good(Goto(v, 8))
  BY <1>2, <1>6, <1>7, GotoKeeps
<1>9. Goto(v, 8).act = "SENDFILE"
  <2>1. SameButCounters(Goto(v, 8), v)
    BY <1>2, <1>7, GotoFacts
  <2> QED
    BY <1>2, <2>1 DEF SameButCounters
<1>10. State(Goto(v, 8)) = 8
  <2>1. Goto(v, 8).cnt = [v.cnt EXCEPT !["update"] = 8]
    BY <1>2, <1>7, GotoFacts
  <2>2. v.cnt \in [Counters -> 0 .. 10] /\ "update" \in Counters
    BY <1>2, Fields, TheCounters
  <2> QED
    BY <2>1, <2>2 DEF State
<1> QED
  BY <1>8, <1>9, <1>10 DEF v

LEMMA WaitedKeeps ==
  ASSUME NEW m, Good(m), m.act = "SENDFILE", State(m) \in 1 .. 8
  PROVE  Good(Waited(m))
<1>1. m.par.timer \in 0 .. TxTimeout
  BY Fields DEF Good, Params
<1>2. CASE m.par.timer >= TxTimeout
  BY <1>2, GivenUpKeeps DEF Waited
<1>3. CASE ~(m.par.timer >= TxTimeout)
  <2>1. m.par.timer + 1 \in 0 .. TxTimeout
    BY <1>1, <1>3, BluetoothConstants
  <2>2. Waited(m) = [m EXCEPT !.par.timer = m.par.timer + 1]
    BY <1>3 DEF Waited, Good, Machine
  <2> QED
    BY <2>1, <2>2, TimerKeeps
<1> QED
  BY <1>2, <1>3

LEMMA GoneToKeeps ==
  ASSUME NEW m, Good(m), NEW n \in 0 .. 10, Fits(m, n)
  PROVE  Good(Goto(m, n)) /\ Goto(m, n).act = m.act /\ State(Goto(m, n)) = n
<1>1. m \in Machine /\ m.cnt \in [Counters -> 0 .. 10] /\ "update" \in Counters
  BY Fields, TheCounters DEF Good
<1>2. Goto(m, n).cnt = [m.cnt EXCEPT !["update"] = n]
  BY <1>1, GotoFacts
<1>3. SameButCounters(Goto(m, n), m)
  BY <1>1, GotoFacts
<1> QED
  BY <1>1, <1>2, <1>3, Continues DEF SameButCounters, State

LEMMA SendFileOpenKeeps ==
  ASSUME NEW m, Good(m), m.act = "SENDFILE", State(m) <= 2, NEW in, NEW u \in SendFileOpen(m, in)
  PROVE  Good(u)
<1>1. m \in Machine /\ Steady(m) /\ Fits(m, State(m)) /\ State(m) \in 0 .. 10
  BY CounterFields DEF Good
<1>2. CASE State(m) = 0
  <2>1. Opens(m.act, State(m))
    BY <1>2 DEF Opens
  <2> QED
    BY <1>2, <2>1, OpenKeeps DEF SendFileOpen
<1>3. CASE State(m) = 1
  <2>1. u = SendData(Restarted(Then(m))) \/ u = Waited(m)
    BY <1>3 DEF SendFileOpen
  <2>2. State(m) < 10 /\ Fits(m, State(m) + 1) /\ State(m) \in 1 .. 8
    BY <1>1, <1>3 DEF Fits, Lasts, Opens, Switches, Closes, Disconnects, Resets, NeedsCmd, FirstSwitches
  <2>3. Good(Then(m))
    BY <2>2, NextState
  <2>4. Good(SendData(Restarted(Then(m))))
    BY <2>3, RestartedKeeps, DataKeeps
  <2> QED
    BY <2>1, <2>2, <2>4, WaitedKeeps
<1>4. CASE State(m) = 2
  <2>1. u = Waited(m) \/ u = Waited(Goto(m, 3)) \/ u = Waited(Goto(Answer(m, "final"), 8))
    BY <1>4 DEF SendFileOpen, GivenUp
  <2>2. State(m) \in 1 .. 8 /\ 3 \in 0 .. 10 /\ 3 \in 1 .. 8 /\ Fits(m, 3)
    BY <1>1, <1>4 DEF Fits, Lasts, Opens, Switches, Closes, Disconnects, Resets, NeedsCmd, FirstSwitches
  <2>3. Good(Goto(m, 3)) /\ Goto(m, 3).act = "SENDFILE" /\ State(Goto(m, 3)) \in 1 .. 8
    BY <2>2, GoneToKeeps
  <2>4. LET v == Goto(Answer(m, "final"), 8) IN Good(v) /\ v.act = "SENDFILE" /\ State(v) \in 1 .. 8
    BY <2>2, GivenUpKeeps
  <2> QED
    BY <2>1, <2>2, <2>3, <2>4, WaitedKeeps
<1>5. State(m) \in 0 .. 2
  BY <1>1 DEF Fits, Lasts
<1> QED
  BY <1>2, <1>3, <1>4, <1>5

LEMMA SendFileEndKeeps ==
  ASSUME NEW m, Good(m), m.act = "SENDFILE", State(m) > 5, NEW in, NEW u \in SendFileEnd(m, in)
  PROVE  Good(u)
<1>1. m \in Machine /\ Steady(m) /\ Fits(m, State(m)) /\ State(m) \in 0 .. 10
  BY CounterFields DEF Good
<1>2. CASE State(m) = 6
  <2> DEFINE v == Restarted(m)
  <2>1. u = SendData(Goto(v, 7)) /\ 7 \in 0 .. 10
    BY <1>2 DEF SendFileEnd
  <2>2. Good(v) /\ v.act = m.act /\ v.cnt = m.cnt
    BY RestartedKeeps
  <2> HIDE DEF v
  <2>3. Fits(v, 7)
    <3>1. State(v) = 6 /\ v.act = "SENDFILE"
      BY <2>2, <1>2 DEF State
    <3> QED
      BY <2>2, <3>1 DEF Good, Fits, Lasts, Opens, Switches, Closes, Disconnects, Resets, NeedsCmd, FirstSwitches
  <2> QED
    BY <2>1, <2>2, <2>3, Continues
<1>3. CASE State(m) = 7
  <2>1. u = Waited(m) \/ u = Waited(Goto(Answer(m, "final"), 8))
    BY <1>3 DEF SendFileEnd, GivenUp
  <2>2. State(m) \in 1 .. 8
    BY <1>3
  <2>3. LET v == Goto(Answer(m, "final"), 8) IN Good(v) /\ v.act = "SENDFILE" /\ State(v) \in 1 .. 8
    BY <2>2, GivenUpKeeps
  <2> QED
    BY <2>1, <2>2, <2>3, WaitedKeeps
<1>4. CASE State(m) = 8
  <2> DEFINE v == [m EXCEPT !.source = "closed"]
  <2>1. u = Then(v)
    BY <1>4 DEF SendFileEnd
  <2>2. /\ v \in Machine /\ v.source = "closed"
        /\ v.act = m.act /\ v.cnt = m.cnt /\ v.par = m.par /\ v.caller = m.caller /\ v.cell = m.cell
        /\ v.mode = m.mode /\ v.pin = m.pin /\ v.conn = m.conn /\ v.off = m.off
        /\ v.lost = m.lost /\ v.sent = m.sent
    BY <1>1, Fields DEF Machine
  <2> HIDE DEF v
  <2>3. Steady(v)
    <3>1. Asked(v) /\ Radio(v)
      BY <1>1, <2>2 DEF Steady, Asked, OnlyCallerWaits, WaitsIn, Radio
    <3> QED
      BY <1>1, <2>2, <3>1 DEF Steady, Wants, Wanted, NoStream
  <2>4. State(v) = 8 /\ 8 + 1 \in 0 .. 10 /\ Fits(v, 8 + 1)
    BY <1>1, <2>2, <1>4 DEF State, WaitsIn, Fits, Lasts, Opens, Switches, Closes, Disconnects, Resets, NeedsCmd, FirstSwitches
  <2>5. Good(Goto(v, 8 + 1))
    BY <2>2, <2>3, <2>4, GotoKeeps
  <2> QED
    BY <2>1, <2>2, <2>4, <2>5, ThenIsGoto
<1>5. CASE State(m) = 9
  <2>1. Switches(m.act, State(m))
    BY <1>5 DEF Switches, FirstSwitches
  <2> QED
    BY <1>5, <2>1, SwitchKeeps DEF SendFileEnd
<1>6. CASE State(m) = 10
  <2>1. u = Idle(m)
    BY <1>6 DEF SendFileEnd
  <2>2. Radio(m) /\ m.source # "open" /\ \A c \in Cells : ~WaitsIn(m, c)
    BY <1>1, <1>6 DEF Steady, Fits
  <2> QED
    BY <1>1, <2>1, <2>2, IdleKeeps
<1>7. State(m) \in 6 .. 10
  BY <1>1 DEF Fits, Lasts
<1> QED
  BY <1>2, <1>3, <1>4, <1>5, <1>6, <1>7

(* The amounts of a message and of the file, together with the state they    *)
(* are for.                                                                *)
LEMMA AmountsKeep ==
  ASSUME NEW m, Good(m), NEW a \in 0 .. MaxBlocks, NEW b \in 0 .. MaxBlocks, NEW n \in 0 .. 10,
         NEW t \in 0 .. TxTimeout,
         m.act = "SENDFILE", State(m) \in 3 .. 5, n \in {4, 5}, n = 4 => 1 <= a /\ a <= b
  PROVE  Good(SendData(Goto([m EXCEPT !.par = [m.par EXCEPT !.msg = a, !.file = b, !.timer = t]], n)))
<1>1. m \in Machine /\ Steady(m) /\ Fits(m, State(m)) /\ m.par \in Params
  BY Fields DEF Good
<1> DEFINE p == [m.par EXCEPT !.msg = a, !.file = b, !.timer = t]
           v == [m EXCEPT !.par = p]
<1>2. /\ p \in Params /\ p.two = m.par.two /\ p.reopen = m.par.reopen
      /\ p.msg = a /\ p.file = b
  BY <1>1 DEF Params
<1> HIDE DEF p
<1>3. v \in Machine /\ v.par = p /\ SameButPar(v, m)
  BY <1>1, <1>2, ParFacts
<1> HIDE DEF v
<1>4. Steady(v)
  BY <1>1, <1>2, <1>3, ParSteady
<1>5. Fits(v, n)
  BY <1>1, <1>2, <1>3 DEF SameButPar, WaitsIn, Fits, Lasts, Opens, Switches, Closes, Disconnects, Resets, NeedsCmd, FirstSwitches
<1>6. Good(Goto(v, n))
  BY <1>3, <1>4, <1>5, GotoKeeps
<1>7. Good(SendData(Goto(v, n)))
  BY <1>6, DataKeeps
<1> QED
  BY <1>7 DEF v, p

LEMMA SendFileBlocksKeeps ==
  ASSUME NEW m, Good(m), m.act = "SENDFILE", State(m) \in 3 .. 5, NEW in, NEW u \in SendFileBlocks(m, in)
  PROVE  Good(u)
<1>1. m \in Machine /\ Steady(m) /\ Fits(m, State(m)) /\ State(m) \in 0 .. 10
  BY CounterFields DEF Good
<1>2. CASE State(m) = 3
  <2> DEFINE size == IF m.par.file > MsgBlocks THEN MsgBlocks ELSE m.par.file
             first == IF size > 0 THEN 1 ELSE 0
             n == IF size > 1 THEN 4 ELSE 5
             p == [m.par EXCEPT !.msg = size - first, !.file = m.par.file - first, !.timer = 0]
  <2>1. m.par \in Params
    BY <1>1, Fields
  <2>2. u = SendData(Goto([m EXCEPT !.par = p], n))
    <3>1. u = SendData(Goto([Restarted(m) EXCEPT !.par.msg = size - first, !.par.file = @ - first], n))
      BY <1>2 DEF SendFileBlocks
    <3>2. [Restarted(m) EXCEPT !.par.msg = size - first, !.par.file = @ - first] = [m EXCEPT !.par = p]
      <4> HIDE DEF size, first, n
      <4> QED
        BY <1>1, <2>1 DEF Restarted, Machine, Params
    <3> QED
      BY <3>1, <3>2
  <2>3. m.par.file \in 0 .. MaxBlocks
    BY <2>1 DEF Params
  <2>4. /\ size - first \in 0 .. MaxBlocks /\ m.par.file - first \in 0 .. MaxBlocks
        /\ n \in {4, 5} /\ (n = 4 => 1 <= size - first /\ size - first <= m.par.file - first)
    BY <2>3, BluetoothConstants
  <2>5. 0 \in 0 .. TxTimeout /\ n \in 0 .. 10
    BY BluetoothConstants
  <2> HIDE DEF size, first, n
  <2> QED
    BY <2>2, <2>4, <2>5, AmountsKeep
<1>3. CASE State(m) = 4
  <2> DEFINE a == m.par.msg - 1
             b == m.par.file - 1
             p == [m.par EXCEPT !.msg = a, !.file = b, !.timer = 0]
  <2>1. m.par \in Params
    BY <1>1, Fields
  <2>2. m.par.file \in 0 .. MaxBlocks /\ m.par.msg \in 0 .. MaxBlocks /\ 1 <= m.par.msg /\ m.par.msg <= m.par.file
    BY <1>1, <2>1, <1>3 DEF Params, Fits
  <2>3. a \in 0 .. MaxBlocks /\ b \in 0 .. MaxBlocks /\ a <= b
    BY <2>2, BluetoothConstants
  <2> DEFINE sent == [m EXCEPT !.par.msg = @ - 1, !.par.file = @ - 1]
  <2>4. sent.par.msg = a /\ Restarted(sent) = [m EXCEPT !.par = p]
    BY <1>1, <2>1 DEF Restarted, Machine, Params
  <2>5. u = m \/ u = SendData(IF sent.par.msg = 0 THEN Goto(Restarted(sent), 5) ELSE Restarted(sent))
    BY <1>3 DEF SendFileBlocks
  <2>6. Goto([m EXCEPT !.par = p], 4) = [m EXCEPT !.par = p]
    <3>1. m.cnt \in [Counters -> 0 .. 10] /\ m.cnt["update"] = 4
      BY <1>1, Fields, <1>3 DEF State
    <3>2. [m.cnt EXCEPT !["update"] = 4] = m.cnt
      BY <3>1
    <3> HIDE DEF p
    <3> QED
      BY <1>1, <3>2 DEF Goto, Machine
  <2>7. \/ u = m
        \/ a = 0 /\ u = SendData(Goto([m EXCEPT !.par = p], 5))
        \/ a # 0 /\ u = SendData(Goto([m EXCEPT !.par = p], 4))
    <3> HIDE DEF sent, p, a
    <3> QED
      BY <2>4, <2>5, <2>6
  <2>8. 0 \in 0 .. TxTimeout /\ 4 \in 0 .. 10 /\ 5 \in 0 .. 10 /\ (a # 0 => 1 <= a)
    BY <2>2, <2>3, BluetoothConstants
  <2>9. State(m) \in 3 .. 5
    BY <1>3
  <2> HIDE DEF a, b
  <2>10. Good(SendData(Goto([m EXCEPT !.par = p], 5)))
    <3>1. 5 \in {4, 5} /\ (5 = 4 => 1 <= a /\ a <= b)
      OBVIOUS
    <3> QED
      BY <2>3, <2>8, <2>9, <3>1, AmountsKeep
  <2>11. ASSUME a # 0 PROVE Good(SendData(Goto([m EXCEPT !.par = p], 4)))
    BY <2>3, <2>8, <2>9, <2>11, AmountsKeep
  <2> QED
    BY <2>7, <2>10, <2>11
<1>4. CASE State(m) = 5
  <2>1. u = Waited(m) \/ u = Waited(Goto(m, 3)) \/ u = Waited(Goto(m, 6))
    BY <1>4 DEF SendFileBlocks
  <2>2. /\ State(m) \in 1 .. 8 /\ 3 \in 0 .. 10 /\ 6 \in 0 .. 10 /\ 3 \in 1 .. 8 /\ 6 \in 1 .. 8
        /\ Fits(m, 3) /\ Fits(m, 6)
    BY <1>1, <1>4 DEF Fits, Lasts, Opens, Switches, Closes, Disconnects, Resets, NeedsCmd, FirstSwitches
  <2>3. Good(Goto(m, 3)) /\ Goto(m, 3).act = "SENDFILE" /\ State(Goto(m, 3)) \in 1 .. 8
    BY <2>2, GoneToKeeps
  <2>4. Good(Goto(m, 6)) /\ Goto(m, 6).act = "SENDFILE" /\ State(Goto(m, 6)) \in 1 .. 8
    BY <2>2, GoneToKeeps
  <2> QED
    BY <2>1, <2>2, <2>3, <2>4, WaitedKeeps
<1>5. State(m) \in 3 .. 5
  BY <1>1 DEF Fits, Lasts
<1> QED
  BY <1>2, <1>3, <1>4, <1>5

(* A read in pieces: the piece that goes out is taken off the rest.          *)
LEMMA PieceKeeps ==
  ASSUME NEW m, Good(m), m.act = "EXTREAD", 2 <= m.par.msg
  PROVE  LET v == [m EXCEPT !.par.msg = @ - 1] IN
         v \in Machine /\ Steady(v) /\ Fits(v, 1) /\ v.cnt = m.cnt
<1>1. m \in Machine /\ Steady(m) /\ Fits(m, State(m)) /\ m.par \in Params
  BY Fields DEF Good
<1> DEFINE a == m.par.msg - 1
           p == [m.par EXCEPT !.msg = a]
           v == [m EXCEPT !.par.msg = @ - 1]
<1>2. a \in 0 .. MaxBlocks /\ 1 <= a
  BY <1>1, BluetoothConstants DEF Params
<1>3. v = [m EXCEPT !.par = p]
  BY <1>1 DEF Machine
<1> HIDE DEF a, v
<1>4. p \in Params /\ p.two = m.par.two /\ p.reopen = m.par.reopen /\ p.msg = a
  BY <1>1, <1>2 DEF Params
<1> HIDE DEF p
<1>5. v \in Machine /\ v.par = p /\ SameButPar(v, m)
  BY <1>1, <1>3, <1>4, ParFacts
<1>6. Steady(v)
  BY <1>1, <1>2, <1>4, <1>5, ParSteady
<1>7. Fits(v, 1)
  BY <1>1, <1>5 DEF SameButPar, WaitsIn, Fits, Lasts, Opens, Switches, Closes, Disconnects, Resets, NeedsCmd, FirstSwitches
<1> QED
  BY <1>5, <1>6, <1>7 DEF SameButPar, v

LEMMA ExtReadKeeps ==
  ASSUME NEW m, Good(m), m.act = "EXTREAD", NEW u \in ExtRead(m)
  PROVE  Good(u)
<1>1. m \in Machine /\ Steady(m) /\ Fits(m, State(m)) /\ State(m) \in 0 .. 10
  BY CounterFields DEF Good
<1>2. m.source # "open"
  BY <1>1 DEF Fits
<1>3. CASE State(m) = 0
  <2> DEFINE v == [m EXCEPT !.par.msg = @ - 1]
  <2>1. u = SendData(Then(v))
    BY <1>3 DEF ExtRead
  <2>2. 2 <= m.par.msg
    BY <1>1, <1>3 DEF Fits
  <2>3. v \in Machine /\ Steady(v) /\ Fits(v, 1) /\ v.cnt = m.cnt
    BY <2>2, PieceKeeps
  <2> HIDE DEF v
  <2>4. State(v) = 0 /\ 0 + 1 = 1 /\ 1 \in 0 .. 10
    BY <2>3, <1>3 DEF State
  <2>5. Then(v) = Goto(v, 1)
    BY <2>3, <2>4, ThenIsGoto
  <2> QED
    BY <2>1, <2>3, <2>4, <2>5, GotoKeeps, DataKeeps
<1>4. CASE State(m) = 1
  <2>1. CASE m.par.msg > 1
    <3> DEFINE v == [m EXCEPT !.par.msg = @ - 1]
    <3>1. u = m \/ u = SendData(v)
      BY <1>4, <2>1 DEF ExtRead
    <3>2. 2 <= m.par.msg
      BY <1>1, <2>1, Fields DEF Params
    <3>3. v \in Machine /\ Steady(v) /\ Fits(v, 1) /\ v.cnt = m.cnt
      BY <3>2, PieceKeeps
    <3> HIDE DEF v
    <3>4. Good(v)
      BY <3>3, <1>4 DEF Good, State
    <3> QED
      BY <3>1, <3>4, DataKeeps
  <2>2. CASE ~(m.par.msg > 1)
    <3>1. u = m \/ u = SendData(Done(m))
      BY <1>4, <2>2 DEF ExtRead
    <3>2. Good(Done(m))
      BY <1>2, EndKeeps
    <3> QED
      BY <3>1, <3>2, DataKeeps
  <2> QED
    BY <2>1, <2>2
<1>5. State(m) \in 0 .. 1
  BY <1>1 DEF Fits, Lasts
<1> QED
  BY <1>3, <1>4, <1>5

LEMMA SearchDevicesKeeps ==
  ASSUME NEW m, Good(m), m.act = "SEARCH", State(m) \notin 4 .. 6, NEW in, NEW u \in SearchDevices(m, in)
  PROVE  Good(u)
<1>1. m \in Machine /\ Steady(m) /\ Fits(m, State(m)) /\ State(m) \in 0 .. 10
  BY CounterFields DEF Good
<1>2. m.source # "open"
  BY <1>1 DEF Fits
<1>3. CASE State(m) = 0
  <2>1. Switches(m.act, State(m))
    BY <1>3 DEF Switches, FirstSwitches
  <2> QED
    BY <1>3, <2>1, SwitchKeeps DEF SearchDevices
<1>4. CASE State(m) = 1
  <2>1. Closes(m.act, State(m))
    BY <1>4 DEF Closes
  <2> QED
    BY <1>4, <2>1, CloseKeeps DEF SearchDevices
<1>5. CASE State(m) = 2
  <2>1. m.mode = "cmd" /\ State(m) < 10 /\ Fits(m, State(m) + 1)
    BY <1>1, <1>2, <1>5 DEF Fits, Lasts, Opens, Switches, Closes, Disconnects, Resets, NeedsCmd, FirstSwitches, Steady
  <2>2. u \in {SendCmd(Then(m))}
    BY <1>5 DEF SearchDevices, When
  <2> QED
    BY <1>1, <1>2, <2>1, <2>2, NextState
<1>6. CASE State(m) = 3
  <2>1. m.mode = "cmd" /\ State(m) < 10 /\ 7 \in 0 .. 10 /\ Fits(m, State(m) + 1) /\ Fits(m, 7)
    BY <1>1, <1>2, <1>6 DEF Fits, Lasts, Opens, Switches, Closes, Disconnects, Resets, NeedsCmd, FirstSwitches
  <2>2. u \in {SendCmd(Goto(m, 7)), m, Then(m), SendCmd(m)}
    BY <1>6 DEF SearchDevices, When
  <2> QED
    BY <2>1, <2>2, NextState, Continues, CmdKeeps
<1>7. CASE State(m) = 7
  <2>1. u \in {m, Done(m)}
    BY <1>7 DEF SearchDevices, When
  <2> QED
    BY <1>1, <1>2, <2>1, EndKeeps
<1>8. CASE State(m) = 8
  <2>1. u \in {Done(m)}
    BY <1>8 DEF SearchDevices, When
  <2> QED
    BY <1>1, <1>2, <2>1, EndKeeps
<1>9. State(m) \in (0 .. 3) \cup (7 .. 8)
  BY <1>1 DEF Fits, Lasts
<1> QED
  BY <1>3, <1>4, <1>5, <1>6, <1>7, <1>8, <1>9

LEMMA SearchNamesKeeps ==
  ASSUME NEW m, Good(m), m.act = "SEARCH", State(m) \in 4 .. 6, NEW in, NEW u \in SearchNames(m, in)
  PROVE  Good(u)
<1>1. m \in Machine /\ Steady(m) /\ Fits(m, State(m)) /\ State(m) \in 0 .. 10
  BY CounterFields DEF Good
<1>2. m.source # "open"
  BY <1>1 DEF Fits
<1>3. CASE State(m) = 4
  <2>1. m.mode = "cmd" /\ State(m) < 10 /\ 8 \in 0 .. 10 /\ Fits(m, State(m) + 1) /\ Fits(m, 8)
    BY <1>1, <1>2, <1>3 DEF Fits, Lasts, Opens, Switches, Closes, Disconnects, Resets, NeedsCmd, FirstSwitches
  <2>2. u \in {Goto(m, 8), SendCmd(Then(m)), m, Done(m)}
    BY <1>3 DEF SearchNames
  <2> QED
    BY <1>1, <1>2, <2>1, <2>2, NextState, Continues, EndKeeps
<1>4. CASE State(m) = 5
  <2>1. m.mode = "cmd" /\ State(m) < 10 /\ 4 \in 0 .. 10 /\ Fits(m, State(m) + 1) /\ Fits(m, 4)
    BY <1>1, <1>2, <1>4 DEF Fits, Lasts, Opens, Switches, Closes, Disconnects, Resets, NeedsCmd, FirstSwitches
  <2>2. u \in {Goto(m, 4), SendCmd(Then(m)), m}
    BY <1>4 DEF SearchNames, When
  <2> QED
    BY <1>1, <1>2, <2>1, <2>2, NextState, Continues
<1>5. CASE State(m) = 6
  <2>1. 4 \in 0 .. 10 /\ Fits(m, 4)
    BY <1>1, <1>2, <1>5 DEF Fits, Lasts, Opens, Switches, Closes, Disconnects, Resets, NeedsCmd, FirstSwitches
  <2>2. u \in {Goto(m, 4), m}
    BY <1>5 DEF SearchNames, When
  <2> QED
    BY <2>1, <2>2, Continues
<1>6. State(m) \in 4 .. 6
  BY <1>1 DEF Fits, Lasts
<1> QED
  BY <1>3, <1>4, <1>5, <1>6

(* A connection that is opened or named keeps its mark.                     *)
LEMMA ConnectionKeeps ==
  ASSUME NEW m, Good(m), NEW c \in Slots, NEW r \in Connection,
         r.stream = m.conn[c].stream, m.conn[c].open => r.open
  PROVE  LET v == [m EXCEPT !.conn[c] = r] IN Good(v) /\ v.act = m.act /\ v.cnt = m.cnt /\ v.mode = m.mode
<1> DEFINE v == [m EXCEPT !.conn[c] = r]
<1>1. m \in Machine /\ Steady(m) /\ Fits(m, State(m)) /\ m.conn \in [Slots -> Connection] /\ m.par \in Params
  BY Fields DEF Good
<1>2. [m.conn EXCEPT ![c] = r] \in [Slots -> Connection]
  BY <1>1
<1>3. v \in Machine
  BY <1>1, <1>2, Fields DEF Machine
<1>4. /\ v.conn = [m.conn EXCEPT ![c] = r]
      /\ v.act = m.act /\ v.cnt = m.cnt /\ v.par = m.par /\ v.caller = m.caller /\ v.cell = m.cell
      /\ v.mode = m.mode /\ v.pin = m.pin /\ v.off = m.off /\ v.source = m.source
      /\ v.lost = m.lost /\ v.sent = m.sent
  BY <1>1 DEF Machine
<1> HIDE DEF v
<1>5. \A d \in Slots : v.conn[d].stream = m.conn[d].stream /\ (m.conn[d].open => v.conn[d].open)
  BY <1>1, <1>4
<1>6. Asked(v)
  BY <1>1, <1>4 DEF Steady, Asked, OnlyCallerWaits, WaitsIn
<1>7. Radio(v)
  BY <1>1, <1>4, <1>5 DEF Steady, Radio
<1>8. NoStream(m) => NoStream(v)
  BY <1>5 DEF NoStream
<1>9. m.mode = "cmd" /\ m.pin /\ Wants(v) => v.conn[Wanted(v)].open
  <2>1. Wants(v) = Wants(m) /\ Wanted(v) = Wanted(m)
    BY <1>4 DEF Wants, Wanted
  <2>2. Wants(m) => Wanted(m) \in Slots
    BY <1>1, BluetoothConstants DEF Wants, Wanted, Params, Slots
  <2> QED
    BY <1>1, <1>5, <2>1, <2>2 DEF Steady
<1>10. Steady(v)
  BY <1>1, <1>4, <1>6, <1>7, <1>8, <1>9 DEF Steady
<1>11. Fits(v, State(m)) /\ State(v) = State(m)
  BY <1>1, <1>4 DEF Fits, WaitsIn, State
<1> QED
  BY <1>3, <1>4, <1>10, <1>11 DEF Good, v

LEMMA OpenedOrNamedKeeps ==
  ASSUME NEW m, Good(m), NEW c \in Slots,
         NEW v \in {[m EXCEPT !.conn[c].open = TRUE], [m EXCEPT !.conn[c].named = TRUE],
                    [m EXCEPT !.conn[c].open = TRUE, !.conn[c].named = TRUE]}
  PROVE  Good(v) /\ v.act = m.act /\ v.cnt = m.cnt /\ v.mode = m.mode
<1>1. m \in Machine /\ m.conn[c] \in Connection
  BY Fields DEF Good
<1>2. PICK r \in {[m.conn[c] EXCEPT !.open = TRUE], [m.conn[c] EXCEPT !.named = TRUE],
                  [m.conn[c] EXCEPT !.open = TRUE, !.named = TRUE]} : v = [m EXCEPT !.conn[c] = r]
  <2>1. [m EXCEPT !.conn[c].open = TRUE] = [m EXCEPT !.conn[c] = [m.conn[c] EXCEPT !.open = TRUE]]
    BY <1>1, Fields DEF Machine
  <2>2. [m EXCEPT !.conn[c].named = TRUE] = [m EXCEPT !.conn[c] = [m.conn[c] EXCEPT !.named = TRUE]]
    BY <1>1, Fields DEF Machine
  <2>3. [m EXCEPT !.conn[c].open = TRUE, !.conn[c].named = TRUE]
          = [m EXCEPT !.conn[c] = [m.conn[c] EXCEPT !.open = TRUE, !.named = TRUE]]
    BY <1>1, Fields DEF Machine
  <2> QED
    BY <2>1, <2>2, <2>3
<1>3. r \in Connection /\ r.stream = m.conn[c].stream /\ (m.conn[c].open => r.open)
  BY <1>1 DEF Connection
<1> QED
  BY <1>2, <1>3, ConnectionKeeps

LEMMA ConnectReqKeeps ==
  ASSUME NEW m, Good(m), m.act = "CONNECTREQ", NEW in, NEW u \in ConnectReq(m, in)
  PROVE  Good(u)
<1>1. m \in Machine /\ Steady(m) /\ Fits(m, State(m)) /\ State(m) \in 0 .. 10
  BY CounterFields DEF Good
<1>2. m.source # "open"
  BY <1>1 DEF Fits
<1>3. CASE State(m) = 0
  <2>1. m.mode = "cmd" /\ State(m) < 10 /\ Fits(m, State(m) + 1)
    BY <1>1, <1>2, <1>3 DEF Fits, Lasts, Opens, Switches, Closes, Disconnects, Resets, NeedsCmd, FirstSwitches, Steady
  <2>2. u \in {SendCmd(Then(m))}
    BY <1>3 DEF ConnectReq, When
  <2> QED
    BY <1>1, <1>2, <2>1, <2>2, NextState
<1>4. CASE State(m) = 1
  <2> DEFINE v == [m EXCEPT !.conn[0].open = TRUE]
  <2>1. 0 \in Slots /\ m.mode = "cmd"
    BY <1>1, BluetoothConstants DEF Slots, Steady
  <2>2. Good(v) /\ v.act = m.act /\ v.cnt = m.cnt /\ v.mode = m.mode
    BY <2>1, OpenedOrNamedKeeps
  <2>3. u \in {m, SendCmd(Then(v)), Done(m)}
    BY <1>4 DEF ConnectReq, When
  <2> HIDE DEF v
  <2>4. State(v) < 10 /\ Fits(v, State(v) + 1)
    <3>1. State(v) = 1 /\ v.act = "CONNECTREQ"
      BY <2>2, <1>4 DEF State
    <3> QED
      BY <2>2, <3>1 DEF Good, Fits, Lasts, Opens, Switches, Closes, Disconnects, Resets, NeedsCmd, FirstSwitches
  <2> QED
    BY <1>1, <1>2, <2>1, <2>2, <2>3, <2>4, NextState, EndKeeps
<1>5. CASE State(m) = 2
  <2> DEFINE v == [m EXCEPT !.conn[0].named = TRUE]
  <2>1. 0 \in Slots /\ m.mode = "cmd"
    BY <1>1, BluetoothConstants DEF Slots, Steady
  <2>2. Good(v) /\ v.act = m.act /\ v.cnt = m.cnt /\ v.mode = m.mode
    BY <2>1, OpenedOrNamedKeeps
  <2>3. u \in {m, SendCmd(Then(v)), Done(m), Done(SendCmd(m))}
    BY <1>5 DEF ConnectReq, When
  <2> HIDE DEF v
  <2>4. State(v) < 10 /\ Fits(v, State(v) + 1)
    <3>1. State(v) = 2 /\ v.act = "CONNECTREQ"
      BY <2>2, <1>5 DEF State
    <3> QED
      BY <2>2, <3>1 DEF Good, Fits, Lasts, Opens, Switches, Closes, Disconnects, Resets, NeedsCmd, FirstSwitches
  <2> QED
    BY <1>1, <1>2, <2>1, <2>2, <2>3, <2>4, NextState, EndKeeps
<1>6. CASE State(m) = 3
  <2>1. m.mode = "cmd" /\ State(m) < 10 /\ Fits(m, State(m) + 1)
    BY <1>1, <1>2, <1>6 DEF Fits, Lasts, Opens, Switches, Closes, Disconnects, Resets, NeedsCmd, FirstSwitches, Steady
  <2>2. u \in {m, SendCmd(Then(m)), Done(SendCmd(m))}
    BY <1>6 DEF ConnectReq, When
  <2> QED
    BY <1>1, <1>2, <2>1, <2>2, NextState, EndKeeps
<1>7. CASE State(m) = 4
  <2>1. CASE ~m.pin
    BY <1>7, <2>1 DEF ConnectReq, When
  <2>2. CASE m.pin
    <3> DEFINE v == DataMode(Opened(m, 0))
    <3>1. u = Done(v)
      BY <1>7, <2>2 DEF ConnectReq, When
    <3>2. m.mode = "cmd" /\ 0 \in Slots /\ m.conn[0].open
      BY <1>1, <2>2, BluetoothConstants DEF Steady, Slots, Wants, Wanted
    <3>3. v \in Machine /\ Radio(v) /\ SameButStream(v, m)
      BY <2>2, <3>2, OpenedRadio
    <3> HIDE DEF v
    <3>4. OnlyCallerWaits(v) /\ v.source # "open"
      BY <1>1, <1>2, <3>3 DEF Steady, Asked, OnlyCallerWaits, WaitsIn, SameButStream
    <3> QED
      BY <3>1, <3>3, <3>4, DoneKeeps
  <2> QED
    BY <2>1, <2>2
<1>8. State(m) \in 0 .. 4
  BY <1>1 DEF Fits, Lasts
<1> QED
  BY <1>3, <1>4, <1>5, <1>6, <1>7, <1>8

LEMMA ConnectKeeps ==
  ASSUME NEW m, Good(m), m.act = "CONNECT", NEW in, NEW u \in Connect(m, in)
  PROVE  Good(u)
<1>1. m \in Machine /\ Steady(m) /\ Fits(m, State(m)) /\ State(m) \in 0 .. 10
  BY CounterFields DEF Good
<1>2. m.source # "open"
  BY <1>1 DEF Fits
<1>3. CASE State(m) = 0
  <2>1. Switches(m.act, State(m))
    BY <1>3 DEF Switches, FirstSwitches
  <2> QED
    BY <1>3, <2>1, SwitchKeeps DEF Connect
<1>4. CASE State(m) = 1
  <2>1. Closes(m.act, State(m))
    BY <1>4 DEF Closes
  <2> QED
    BY <1>4, <2>1, CloseKeeps DEF Connect
<1>5. CASE State(m) = 2
  <2>1. m.mode = "cmd" /\ State(m) < 10 /\ Fits(m, State(m) + 1)
    BY <1>1, <1>2, <1>5 DEF Fits, Lasts, Opens, Switches, Closes, Disconnects, Resets, NeedsCmd, FirstSwitches, Steady
  <2>2. u \in {SendCmd(Then(m))}
    BY <1>5 DEF Connect, When
  <2> QED
    BY <1>1, <1>2, <2>1, <2>2, NextState
<1>6. CASE State(m) = 3
  <2> DEFINE c == m.par.two
             v == [m EXCEPT !.conn[c].open = TRUE, !.conn[c].named = TRUE]
             w == [m EXCEPT !.par.pin = FALSE]
  <2>1. m.mode = "cmd" /\ c \in Slots
    BY <1>1, <1>6, Fields DEF Fits, NeedsCmd, FirstSwitches, Params
  <2>2. u \in {SendCmd(Goto(v, 6)), Done(m), Then(Answer(w, "reqpin")), m}
    BY <1>6 DEF Connect
  <2>3. Good(v) /\ v.act = m.act /\ v.cnt = m.cnt /\ v.mode = m.mode
    <3> HIDE DEF c
    <3> QED
      BY <2>1, OpenedOrNamedKeeps
  <2>4. /\ w \in Machine
        /\ w.act = m.act /\ w.cnt = m.cnt /\ w.caller = m.caller /\ w.cell = m.cell
        /\ w.mode = m.mode /\ w.pin = m.pin /\ w.conn = m.conn /\ w.off = m.off
        /\ w.source = m.source /\ w.lost = m.lost /\ w.sent = m.sent
        /\ w.par.two = m.par.two /\ w.par.reopen = m.par.reopen
    <3> DEFINE p == [m.par EXCEPT !.pin = FALSE]
    <3>1. p \in Params /\ p.two = m.par.two /\ p.reopen = m.par.reopen /\ w = [m EXCEPT !.par = p]
      BY <1>1, Fields DEF Params, Machine
    <3> HIDE DEF p, w
    <3>2. w \in Machine /\ w.par = p /\ SameButPar(w, m)
      BY <1>1, <3>1, ParFacts
    <3> QED
      BY <3>1, <3>2 DEF SameButPar
  <2> HIDE DEF v, w, c
  <2>5. Good(SendCmd(Goto(v, 6)))
    <3>1. State(v) = 3 /\ v.act = "CONNECT" /\ 6 \in 0 .. 10
      BY <2>3, <1>6 DEF State
    <3>2. Fits(v, 6)
      BY <2>3, <3>1 DEF Good, Fits, Lasts, Opens, Switches, Closes, Disconnects, Resets, NeedsCmd, FirstSwitches
    <3> QED
      BY <2>1, <2>3, <3>1, <3>2, Continues
  <2>6. Good(Then(Answer(w, "reqpin")))
    <3> DEFINE x == Answer(w, "reqpin")
    <3>1. /\ x \in Machine
          /\ \A d \in Cells : x.cell[d] = IF d = w.caller THEN "reqpin" ELSE w.cell[d]
          /\ x.act = w.act /\ x.cnt = w.cnt /\ x.par = w.par /\ x.caller = w.caller /\ x.mode = w.mode
          /\ x.pin = w.pin /\ x.conn = w.conn /\ x.off = w.off
          /\ x.source = w.source /\ x.lost = w.lost /\ x.sent = w.sent
      BY <2>4, AnswerFacts DEF CellValues
    <3> HIDE DEF x
    <3>2. Asked(x)
      BY <1>1, <2>4, <3>1 DEF Steady, Asked, OnlyCallerWaits, WaitsIn
    <3>3. Radio(x)
      BY <1>1, <2>4, <3>1 DEF Steady, Radio
    <3>4. Steady(x)
      <4>1. ~Wants(x) /\ NoStream(x) = NoStream(m)
        BY <2>4, <3>1 DEF Wants, NoStream
      <4> QED
        BY <1>1, <2>4, <3>1, <3>2, <3>3, <4>1 DEF Steady
    <3>5. State(x) = 3 /\ Fits(x, 3) /\ Fits(x, 3 + 1)
      BY <1>1, <2>4, <3>1, <1>6 DEF State, Fits, Lasts, Opens, Switches, Closes, Disconnects, Resets, NeedsCmd, FirstSwitches
    <3> QED
      BY <3>1, <3>4, <3>5, NextState DEF Good, x
  <2> QED
    BY <1>1, <1>2, <2>2, <2>5, <2>6, EndKeeps
<1>7. CASE State(m) = 4
  <2>1. m.mode = "cmd" /\ State(m) < 10 /\ Fits(m, State(m) + 1)
    BY <1>1, <1>2, <1>7 DEF Fits, Lasts, Opens, Switches, Closes, Disconnects, Resets, NeedsCmd, FirstSwitches, Steady
  <2>2. u \in {Done(m), SendCmd(Then(m)), m}
    BY <1>7 DEF Connect, When
  <2> QED
    BY <1>1, <1>2, <2>1, <2>2, NextState, EndKeeps
<1>8. CASE State(m) = 5
  <2>1. 3 \in 0 .. 10 /\ Fits(m, 3)
    BY <1>1, <1>2, <1>8 DEF Fits, Lasts, Opens, Switches, Closes, Disconnects, Resets, NeedsCmd, FirstSwitches
  <2>2. u \in {Done(m), Goto(m, 3), m}
    BY <1>8 DEF Connect
  <2> QED
    BY <1>1, <1>2, <2>1, <2>2, Continues, EndKeeps
<1>9. CASE State(m) = 6
  <2>1. u \in {m, Done(m)}
    BY <1>9 DEF Connect, When
  <2> QED
    BY <1>1, <1>2, <2>1, EndKeeps
<1>10. State(m) \in 0 .. 6
  BY <1>1 DEF Fits, Lasts
<1> QED
  BY <1>3, <1>4, <1>5, <1>6, <1>7, <1>8, <1>9, <1>10

LEMMA DisconnectKeeps ==
  ASSUME NEW m, Good(m), m.act = "DISCONNECT", NEW in, NEW u \in Disconnect(m, in)
  PROVE  Good(u)
<1>1. m \in Machine /\ Steady(m) /\ Fits(m, State(m)) /\ State(m) \in 0 .. 10
  BY CounterFields DEF Good
<1>2. m.source # "open"
  BY <1>1 DEF Fits
<1>3. CASE State(m) = 0
  <2>1. Switches(m.act, State(m))
    BY <1>3 DEF Switches, FirstSwitches
  <2> QED
    BY <1>3, <2>1, SwitchKeeps DEF Disconnect
<1>4. CASE State(m) = 1
  <2>1. m.mode = "cmd" /\ State(m) < 10 /\ Fits(m, State(m) + 1)
    BY <1>1, <1>2, <1>4 DEF Fits, Lasts, Opens, Switches, Closes, Disconnects, Resets, NeedsCmd, FirstSwitches, Steady
  <2>2. u \in {SendCmd(Then(m)), Done(m)}
    BY <1>4 DEF Disconnect, When
  <2> QED
    BY <1>1, <1>2, <2>1, <2>2, NextState, EndKeeps
<1>5. CASE State(m) = 2
  <2>1. u \in {m, Done(m)}
    BY <1>5 DEF Disconnect, When
  <2> QED
    BY <1>1, <1>2, <2>1, EndKeeps
<1>6. State(m) \in 0 .. 2
  BY <1>1 DEF Fits, Lasts
<1> QED
  BY <1>3, <1>4, <1>5, <1>6

LEMMA DisconnectAllRequestKeeps ==
  ASSUME NEW m, Good(m), m.act = "DISCONNECTALL", NEW in, NEW u \in DisconnectAllRequest(m, in)
  PROVE  Good(u)
<1>1. m \in Machine /\ Steady(m) /\ Fits(m, State(m)) /\ State(m) \in 0 .. 10
  BY CounterFields DEF Good
<1>2. m.source # "open"
  BY <1>1 DEF Fits
<1>3. CASE State(m) = 0
  <2>1. Switches(m.act, State(m))
    BY <1>3 DEF Switches, FirstSwitches
  <2> QED
    BY <1>3, <2>1, SwitchKeeps DEF DisconnectAllRequest
<1>4. CASE State(m) = 1
  <2>1. Disconnects(m.act, State(m))
    BY <1>4 DEF Disconnects
  <2> QED
    BY <1>4, <2>1, DiscKeeps DEF DisconnectAllRequest
<1>5. CASE State(m) = 2
  <2>1. u \in {Done(m)}
    BY <1>5 DEF DisconnectAllRequest, When
  <2> QED
    BY <1>1, <1>2, <2>1, EndKeeps
<1>6. State(m) \in 0 .. 2
  BY <1>1 DEF Fits, Lasts
<1> QED
  BY <1>3, <1>4, <1>5, <1>6

LEMMA RemoveDeviceKeeps ==
  ASSUME NEW m, Good(m), m.act = "REMOVEDEVICE", NEW in, NEW u \in RemoveDevice(m, in)
  PROVE  Good(u)
<1>1. m \in Machine /\ Steady(m) /\ Fits(m, State(m)) /\ State(m) \in 0 .. 10
  BY CounterFields DEF Good
<1>2. m.source # "open"
  BY <1>1 DEF Fits
<1>3. CASE State(m) = 0
  <2>1. Switches(m.act, State(m))
    BY <1>3 DEF Switches, FirstSwitches
  <2> QED
    BY <1>3, <2>1, SwitchKeeps DEF RemoveDevice
<1>4. CASE State(m) = 1
  <2>1. Closes(m.act, State(m))
    BY <1>4 DEF Closes
  <2> QED
    BY <1>4, <2>1, CloseKeeps DEF RemoveDevice
<1>5. CASE State(m) = 2
  <2>1. m.mode = "cmd" /\ State(m) < 10 /\ Fits(m, State(m) + 1)
    BY <1>1, <1>2, <1>5 DEF Fits, Lasts, Opens, Switches, Closes, Disconnects, Resets, NeedsCmd, FirstSwitches, Steady
  <2>2. u \in {SendCmd(Then(m))}
    BY <1>5 DEF RemoveDevice, When
  <2> QED
    BY <1>1, <1>2, <2>1, <2>2, NextState
<1>6. CASE State(m) = 3
  <2>1. u \in {m, Done(m)}
    BY <1>6 DEF RemoveDevice, When
  <2> QED
    BY <1>1, <1>2, <2>1, EndKeeps
<1>7. State(m) \in 0 .. 3
  BY <1>1 DEF Fits, Lasts
<1> QED
  BY <1>3, <1>4, <1>5, <1>6, <1>7

LEMMA VisibilityKeeps ==
  ASSUME NEW m, Good(m), m.act = "VISIBILITY", NEW in, NEW u \in Visibility(m, in)
  PROVE  Good(u)
<1>1. m \in Machine /\ Steady(m) /\ Fits(m, State(m)) /\ State(m) \in 0 .. 10
  BY CounterFields DEF Good
<1>2. m.source # "open"
  BY <1>1 DEF Fits
<1>3. CASE State(m) = 0
  <2>1. Switches(m.act, State(m))
    BY <1>3 DEF Switches, FirstSwitches
  <2> QED
    BY <1>3, <2>1, SwitchKeeps DEF Visibility
<1>4. CASE State(m) = 1
  <2>1. Closes(m.act, State(m))
    BY <1>4 DEF Closes
  <2> QED
    BY <1>4, <2>1, CloseKeeps DEF Visibility
<1>5. CASE State(m) = 2
  <2>1. m.mode = "cmd" /\ State(m) < 10 /\ Fits(m, State(m) + 1)
    BY <1>1, <1>2, <1>5 DEF Fits, Lasts, Opens, Switches, Closes, Disconnects, Resets, NeedsCmd, FirstSwitches, Steady
  <2>2. u \in {SendCmd(Then(m))}
    BY <1>5 DEF Visibility, When
  <2> QED
    BY <1>1, <1>2, <2>1, <2>2, NextState
<1>6. CASE State(m) = 3
  <2>1. u \in {m, Done(m)}
    BY <1>6 DEF Visibility, When
  <2> QED
    BY <1>1, <1>2, <2>1, EndKeeps
<1>7. State(m) \in 0 .. 3
  BY <1>1 DEF Fits, Lasts
<1> QED
  BY <1>3, <1>4, <1>5, <1>6, <1>7

LEMMA PinReqKeeps ==
  ASSUME NEW m, Good(m), m.act = "PINREQ", NEW in, NEW u \in PinReq(m, in)
  PROVE  Good(u)
<1>1. m \in Machine /\ Steady(m) /\ Fits(m, State(m)) /\ State(m) \in 0 .. 10
  BY CounterFields DEF Good
<1>2. m.source # "open"
  BY <1>1 DEF Fits
<1>3. CASE State(m) = 0
  <2>1. m.mode = "cmd" /\ State(m) < 10 /\ Fits(m, State(m) + 1)
    BY <1>1, <1>2, <1>3 DEF Fits, Lasts, Opens, Switches, Closes, Disconnects, Resets, NeedsCmd, FirstSwitches, Steady
  <2>2. u \in {SendCmd(Then(m)), m}
    BY <1>3 DEF PinReq, When
  <2> QED
    BY <1>1, <1>2, <2>1, <2>2, NextState
<1>4. CASE State(m) = 1
  <2>1. u \in {Idle(m), m}
    BY <1>4 DEF PinReq, When
  <2>2. Radio(m) /\ \A c \in Cells : ~WaitsIn(m, c)
    BY <1>1 DEF Steady, Asked, OnlyCallerWaits, Cells
  <2> QED
    BY <1>1, <1>2, <2>1, <2>2, IdleKeeps
<1>5. State(m) \in 0 .. 1
  BY <1>1 DEF Fits, Lasts
<1> QED
  BY <1>3, <1>4, <1>5

LEMMA OffKeeps ==
  ASSUME NEW m, Good(m), m.act = "OFF", NEW in, NEW u \in Off(m, in)
  PROVE  Good(u)
<1>1. m \in Machine /\ Steady(m) /\ Fits(m, State(m)) /\ State(m) \in 0 .. 10
  BY CounterFields DEF Good
<1>2. m.source # "open"
  BY <1>1 DEF Fits
<1>3. CASE State(m) = 0
  <2>1. Switches(m.act, State(m))
    BY <1>3 DEF Switches, FirstSwitches
  <2> QED
    BY <1>3, <2>1, SwitchKeeps DEF Off
<1>4. CASE State(m) = 1
  <2>1. Disconnects(m.act, State(m))
    BY <1>4 DEF Disconnects
  <2> QED
    BY <1>4, <2>1, DiscKeeps DEF Off
<1>5. CASE State(m) = 2
  <2>1. m.mode = "cmd" /\ State(m) < 10 /\ Fits(m, State(m) + 1)
    BY <1>1, <1>2, <1>5 DEF Fits, Lasts, Opens, Switches, Closes, Disconnects, Resets, NeedsCmd, FirstSwitches, Steady
  <2>2. u \in {SendCmd(Then(m))}
    BY <1>5 DEF Off, When
  <2> QED
    BY <1>1, <1>2, <2>1, <2>2, NextState
<1>6. CASE State(m) = 3
  <2> DEFINE v == [m EXCEPT !.mode = "off", !.off = TRUE]
  <2>1. u \in {m, Done(m), Done(v)}
    BY <1>6 DEF Off, When
  <2>2. /\ v \in Machine /\ v.mode = "off" /\ v.off
        /\ v.caller = m.caller /\ v.cell = m.cell /\ v.pin = m.pin /\ v.conn = m.conn
        /\ v.source = m.source /\ v.lost = m.lost /\ v.sent = m.sent
    BY <1>1, Fields DEF Machine
  <2>3. m.mode = "cmd"
    BY <1>1, <1>6 DEF Fits, NeedsCmd, FirstSwitches
  <2> HIDE DEF v
  <2>4. Radio(v) /\ OnlyCallerWaits(v)
    BY <1>1, <2>2, <2>3 DEF Steady, Asked, Radio, OnlyCallerWaits, WaitsIn
  <2> QED
    BY <1>1, <1>2, <2>1, <2>2, <2>4, DoneKeeps, EndKeeps
<1>7. State(m) \in 0 .. 3
  BY <1>1 DEF Fits, Lasts
<1> QED
  BY <1>3, <1>4, <1>5, <1>6, <1>7

LEMMA SendDataRequestKeeps ==
  ASSUME NEW m, Good(m), m.act = "SENDDATA", NEW in, NEW u \in SendDataRequest(m, in)
  PROVE  Good(u)
<1>1. m \in Machine /\ Steady(m) /\ Fits(m, State(m)) /\ State(m) \in 0 .. 10
  BY CounterFields DEF Good
<1>2. m.source # "open"
  BY <1>1 DEF Fits
<1>3. CASE State(m) = 0
  <2>1. 1 \in 0 .. 10 /\ 2 \in 0 .. 10 /\ Fits(m, 1) /\ Fits(m, 2)
    BY <1>1, <1>2, <1>3 DEF Fits, Lasts, Opens, Switches, Closes, Disconnects, Resets, NeedsCmd, FirstSwitches
  <2>2. u \in {Goto(m, 1), Goto(m, 2)}
    BY <1>3 DEF SendDataRequest
  <2> QED
    BY <2>1, <2>2, Continues
<1>4. CASE State(m) = 1
  <2>1. Opens(m.act, State(m))
    BY <1>4 DEF Opens
  <2> QED
    BY <1>4, <2>1, OpenKeeps DEF SendDataRequest
<1>5. CASE State(m) = 2
  <2>1. State(m) < 10 /\ Fits(m, State(m) + 1)
    BY <1>1, <1>2, <1>5 DEF Fits, Lasts, Opens, Switches, Closes, Disconnects, Resets, NeedsCmd, FirstSwitches
  <2>2. u \in {SendData(Then(m))}
    BY <1>5 DEF SendDataRequest, When
  <2> QED
    BY <1>1, <1>2, <2>1, <2>2, NextState
<1>6. CASE State(m) = 3
  <2> DEFINE v == Restarted(m)
  <2>1. u \in {m, Then(v), Done(m)}
    BY <1>6 DEF SendDataRequest
  <2>2. Good(v) /\ v.act = m.act /\ v.cnt = m.cnt
    BY RestartedKeeps
  <2> HIDE DEF v
  <2>3. State(v) < 10 /\ Fits(v, State(v) + 1)
    <3>1. State(v) = 3 /\ v.act = "SENDDATA"
      BY <2>2, <1>6 DEF State
    <3> QED
      BY <2>2, <3>1 DEF Good, Fits, Lasts, Opens, Switches, Closes, Disconnects, Resets, NeedsCmd, FirstSwitches
  <2> QED
    BY <1>1, <1>2, <2>1, <2>2, <2>3, NextState, EndKeeps
<1>7. CASE State(m) = 4
  <2>1. m.par.timer \in 0 .. TxTimeout
    BY <1>1, Fields DEF Params
  <2>2. CASE in.msg = "reply" \/ m.par.timer >= TxTimeout
    BY <1>1, <1>2, <1>7, <2>2, EndKeeps DEF SendDataRequest
  <2>3. CASE ~(in.msg = "reply" \/ m.par.timer >= TxTimeout)
    <3>1. m.par.timer + 1 \in 0 .. TxTimeout
      BY <2>1, <2>3, BluetoothConstants
    <3>2. u = [m EXCEPT !.par.timer = m.par.timer + 1]
      BY <1>1, <1>7, <2>3 DEF SendDataRequest, Machine
    <3> QED
      BY <3>1, <3>2, TimerKeeps
  <2> QED
    BY <2>2, <2>3
<1>8. State(m) \in 0 .. 4
  BY <1>1 DEF Fits, Lasts
<1> QED
  BY <1>3, <1>4, <1>5, <1>6, <1>7, <1>8

-----------------------------------------------------------------------------
(* A round: the machine, what comes before it and what comes after it.      *)

LEMMA UpdateKeeps ==
  ASSUME NEW m, Good(m), NEW in, NEW u \in UpdateBt(m, in)
  PROVE  Good(u)
<1>1. m \in Machine /\ State(m) \in 0 .. 10 /\ m.act \in Updates
  BY Fields, CounterFields DEF Good
<1>2. CASE m.act = "RESET" /\ State(m) <= 5
  BY <1>2, <1>1, ResetStartKeeps DEF UpdateBt
<1>3. CASE m.act = "RESET" /\ State(m) > 5
  BY <1>3, <1>1, ResetEndKeeps DEF UpdateBt
<1>4. CASE m.act = "FACTORYRESET"
  BY <1>4, <1>1, FactoryResetKeeps DEF UpdateBt
<1>5. CASE m.act = "BRICKNAME"
  BY <1>5, <1>1, BrickNameKeeps DEF UpdateBt
<1>6. CASE m.act = "REQCMDMODE"
  BY <1>6, <1>1, ReqCmdModeKeeps DEF UpdateBt
<1>7. CASE m.act = "OPENSTREAM"
  BY <1>7, <1>1, OpenStreamRequestKeeps DEF UpdateBt
<1>8. CASE m.act = "SENDFILE" /\ State(m) <= 2
  BY <1>8, <1>1, SendFileOpenKeeps DEF UpdateBt
<1>9. CASE m.act = "SENDFILE" /\ State(m) \in 3 .. 5
  BY <1>9, <1>1, SendFileBlocksKeeps DEF UpdateBt
<1>10. CASE m.act = "SENDFILE" /\ State(m) > 5
  BY <1>10, <1>1, SendFileEndKeeps DEF UpdateBt
<1>11. CASE m.act = "EXTREAD"
  BY <1>11, <1>1, ExtReadKeeps DEF UpdateBt
<1>12. CASE m.act = "SEARCH" /\ State(m) \notin 4 .. 6
  BY <1>12, <1>1, SearchDevicesKeeps DEF UpdateBt
<1>13. CASE m.act = "SEARCH" /\ State(m) \in 4 .. 6
  BY <1>13, <1>1, SearchNamesKeeps DEF UpdateBt
<1>14. CASE m.act = "CONNECTREQ"
  BY <1>14, <1>1, ConnectReqKeeps DEF UpdateBt
<1>15. CASE m.act = "CONNECT"
  BY <1>15, <1>1, ConnectKeeps DEF UpdateBt
<1>16. CASE m.act = "DISCONNECT"
  BY <1>16, <1>1, DisconnectKeeps DEF UpdateBt
<1>17. CASE m.act = "DISCONNECTALL"
  BY <1>17, <1>1, DisconnectAllRequestKeeps DEF UpdateBt
<1>18. CASE m.act = "REMOVEDEVICE"
  BY <1>18, <1>1, RemoveDeviceKeeps DEF UpdateBt
<1>19. CASE m.act = "PINREQ"
  BY <1>19, <1>1, PinReqKeeps DEF UpdateBt
<1>20. CASE m.act = "VISIBILITY"
  BY <1>20, <1>1, VisibilityKeeps DEF UpdateBt
<1>21. CASE m.act = "OFF"
  BY <1>21, <1>1, OffKeeps DEF UpdateBt
<1>22. CASE m.act = "SENDDATA"
  BY <1>22, <1>1, SendDataRequestKeeps DEF UpdateBt
<1>23. CASE m.act = "IDLE"
  BY <1>23 DEF UpdateBt
<1> QED
  BY <1>1, <1>2, <1>3, <1>4, <1>5, <1>6, <1>7, <1>8, <1>9, <1>10, <1>11, <1>12, <1>13, <1>14, <1>15, <1>16, <1>17, <1>18, <1>19, <1>20, <1>21, <1>22, <1>23 DEF Updates

LEMMA FreshKeeps ==
  ASSUME NEW m, Good(m)
  PROVE  LET v == Fresh(m) IN
         /\ Good(v) /\ v.act = m.act /\ v.cnt = m.cnt /\ v.par = m.par /\ v.caller = m.caller /\ v.cell = m.cell
         /\ v.mode = m.mode /\ v.pin = m.pin /\ v.conn = m.conn /\ v.off = m.off
         /\ v.source = m.source /\ v.lost = m.lost
<1> DEFINE v == Fresh(m)
<1>1. m \in Machine
  BY DEF Good
<1>2. None \notin {<<"command", "data">>, <<"command", "off">>}
  <2>1. <<"command", "data">> \in {"command", "data"} \X {"cmd", "data", "off"}
    OBVIOUS
  <2>2. <<"command", "off">> \in {"command", "data"} \X {"cmd", "data", "off"}
    OBVIOUS
  <2> QED
    BY <2>1, <2>2, BluetoothConstants
<1>3. /\ v \in Machine /\ v.sent = None
      /\ v.act = m.act /\ v.cnt = m.cnt /\ v.par = m.par /\ v.caller = m.caller /\ v.cell = m.cell
      /\ v.mode = m.mode /\ v.pin = m.pin /\ v.conn = m.conn /\ v.off = m.off
      /\ v.source = m.source /\ v.lost = m.lost
  BY <1>1, Fields DEF Fresh, Machine
<1> HIDE DEF v
<1>4. Good(v)
  BY <1>2, <1>3, SentKeeps
<1> QED
  BY <1>3, <1>4 DEF v

(* A request that is taken.                                                *)
LEMMA TakenKeeps ==
  ASSUME NEW m, Good(m), m.act = "IDLE", NEW v \in Machine,
         v.act # "IDLE", v.cnt = m.cnt,
         \A c \in Cells : v.cell[c] = IF c = v.caller THEN "inprogress" ELSE m.cell[c],
         v.mode = m.mode, v.pin = m.pin, v.conn = m.conn, v.off = m.off,
         v.lost = m.lost, v.sent = m.sent,
         v.source = "open" <=> v.act = "SENDFILE",
         ~(m.mode = "cmd" /\ m.pin),
         v.act \in {"PINREQ", "CONNECTREQ"} => m.mode = "cmd",
         v.act = "SEARCH" => v.caller = "ui",
         v.act = "PINREQ" => v.caller = "own",
         v.act = "DISCONNECT" => v.par.one \in Slots,
         v.act = "EXTREAD" => 2 <= v.par.msg,
         v.act = "BRICKNAME" => v.par.reopen = None
  PROVE  Good(v)
<1>1. m \in Machine /\ Steady(m) /\ Fits(m, State(m)) /\ v.par \in Params /\ v.act \in Updates
  BY Fields DEF Good
<1>2. State(m) = 0 /\ State(v) = 0
  BY <1>1 DEF Fits, Lasts, State
<1>3. /\ v.cnt["stream"] = 0 /\ v.cnt["cmd"] = 0 /\ v.cnt["close"] = 0
      /\ v.cnt["disc"] = 0 /\ v.cnt["reset"] = 0
  BY <1>1 DEF Fits, Opens, Switches, Closes, Disconnects, Resets, FirstSwitches
<1>4. Asked(v)
  BY <1>1 DEF Steady, Asked, OnlyCallerWaits, WaitsIn
<1>5. Radio(v)
  BY <1>1 DEF Steady, Radio
<1>6. v.act = "EXTREAD" => 1 <= v.par.msg
  BY <1>1 DEF Params
<1>7. Steady(v)
  BY <1>3, <1>4, <1>5, <1>6 DEF Steady
<1>8. Fits(v, 0)
  BY <1>3 DEF Fits, Lasts, NeedsCmd, FirstSwitches
<1> QED
  BY <1>2, <1>7, <1>8 DEF Good

SameButRequest(v, m) ==
    /\ v.cnt = m.cnt /\ v.par = m.par
    /\ v.mode = m.mode /\ v.pin = m.pin /\ v.conn = m.conn /\ v.off = m.off
    /\ v.source = m.source /\ v.lost = m.lost /\ v.sent = m.sent

LEMMA BeginFacts ==
  ASSUME NEW m \in Machine, NEW who \in Cells \cup {"own"}, NEW update \in Updates
  PROVE  /\ Begin(m, who, update) \in Machine
         /\ Begin(m, who, update).act = update /\ Begin(m, who, update).caller = who
         /\ \A c \in Cells : Begin(m, who, update).cell[c] = IF c = who THEN "inprogress" ELSE m.cell[c]
         /\ SameButRequest(Begin(m, who, update), m)
<1> DEFINE v == [m EXCEPT !.act = update, !.caller = who]
           u == Answer(v, "inprogress")
<1>1. /\ v \in Machine /\ v.act = update /\ v.caller = who /\ v.cell = m.cell /\ SameButRequest(v, m)
  BY Fields DEF Machine, SameButRequest
<1> HIDE DEF v
<1>2. /\ u \in Machine
      /\ \A c \in Cells : u.cell[c] = IF c = v.caller THEN "inprogress" ELSE v.cell[c]
      /\ u.act = v.act /\ u.cnt = v.cnt /\ u.par = v.par
      /\ u.caller = v.caller /\ u.mode = v.mode
      /\ u.pin = v.pin /\ u.conn = v.conn /\ u.off = v.off
      /\ u.source = v.source /\ u.lost = v.lost /\ u.sent = v.sent
  BY <1>1, AnswerFacts DEF CellValues
<1> HIDE DEF u
<1>3. SameButRequest(u, m)
  BY <1>1, <1>2 DEF SameButRequest
<1>4. u = Begin(m, who, update)
  BY DEF u, v, Begin
<1> QED
  BY <1>1, <1>2, <1>3, <1>4

(* The requests that park nothing.                                         *)
LEMMA BeginKeeps ==
  ASSUME NEW m, Good(m), m.act = "IDLE", ~(m.mode = "cmd" /\ m.pin),
         NEW who \in Cells \cup {"own"}, NEW update \in Updates,
         update \notin {"IDLE", "SENDFILE", "DISCONNECT", "EXTREAD"},
         update \in {"PINREQ", "CONNECTREQ"} => m.mode = "cmd",
         update = "SEARCH" => who = "ui",
         update = "PINREQ" => who = "own"
  PROVE  Good(Begin(m, who, update))
<1> DEFINE v == Begin(m, who, update)
<1>1. m \in Machine /\ Fits(m, State(m))
  BY DEF Good
<1>2. /\ v \in Machine /\ v.act = update /\ v.caller = who
      /\ \A c \in Cells : v.cell[c] = IF c = who THEN "inprogress" ELSE m.cell[c]
      /\ SameButRequest(v, m)
  BY <1>1, BeginFacts
<1> HIDE DEF v
<1>3. m.source # "open" /\ m.par.reopen = None
  BY <1>1 DEF Fits
<1>4. Good(v)
  BY <1>2, <1>3, TakenKeeps DEF SameButRequest
<1> QED
  BY <1>4 DEF v

(* A connection of the table that is not the stream may change at will in    *)
(* command mode: what the chip says comes with its pin low.                 *)
LEMMA TableKeeps ==
  ASSUME NEW m, Good(m), ~m.pin, NEW v \in Machine,
         v.act = m.act, v.cnt = m.cnt, v.par = m.par, v.caller = m.caller, v.cell = m.cell,
         v.mode = m.mode, v.pin = m.pin, v.off = m.off, v.source = m.source, v.sent = m.sent,
         NoStream(v)
  PROVE  Good(v)
<1>1. m \in Machine /\ Steady(m) /\ Fits(m, State(m))
  BY DEF Good
<1>2. Asked(v)
  BY <1>1 DEF Steady, Asked, OnlyCallerWaits, WaitsIn
<1>3. Radio(v)
  BY <1>1 DEF Steady, Radio, NoStream
<1>4. Steady(v)
  BY <1>1, <1>2, <1>3 DEF Steady
<1>5. Fits(v, State(m)) /\ State(v) = State(m)
  BY <1>1 DEF Fits, WaitsIn, State
<1> QED
  BY <1>4, <1>5 DEF Good

LEMMA ConnectionClosedKeeps ==
  ASSUME NEW m, Good(m), m.mode = "cmd", ~m.pin, NEW c \in Slots \cup {None},
         m.lost # None => c = m.lost
  PROVE  Good(CloseConnectionResult(m, c))
<1>1. m \in Machine /\ Steady(m) /\ m.conn \in [Slots -> Connection] /\ m.lost \in Slots \cup {None}
  BY Fields DEF Good
<1>2. None \notin Slots /\ Closed \in Connection /\ ~Closed.stream
  BY BluetoothConstants DEF Slots, Closed, Connection
<1>3. \A d \in Slots : m.conn[d].stream => m.lost = d
  BY <1>1 DEF Steady, Radio
<1> DEFINE w == IF c = None THEN m ELSE [m EXCEPT !.conn[c] = Closed]
           l == IF c = m.lost THEN None ELSE m.lost
           v == [w EXCEPT !.lost = l]
<1>4. /\ w \in Machine
      /\ w.act = m.act /\ w.cnt = m.cnt /\ w.par = m.par /\ w.caller = m.caller /\ w.cell = m.cell
      /\ w.mode = m.mode /\ w.pin = m.pin /\ w.off = m.off /\ w.source = m.source /\ w.sent = m.sent
      /\ w.lost = m.lost
      /\ \A d \in Slots : w.conn[d].stream => m.conn[d].stream /\ d # c
  <2>1. CASE c = None
    BY <1>1, <1>2, <2>1
  <2>2. CASE c # None
    <3>1. c \in Slots /\ [m.conn EXCEPT ![c] = Closed] \in [Slots -> Connection]
      BY <1>1, <1>2, <2>2
    <3>2. /\ w \in Machine /\ w.conn = [m.conn EXCEPT ![c] = Closed]
          /\ w.act = m.act /\ w.cnt = m.cnt /\ w.par = m.par /\ w.caller = m.caller /\ w.cell = m.cell
          /\ w.mode = m.mode /\ w.pin = m.pin /\ w.off = m.off /\ w.source = m.source /\ w.sent = m.sent
          /\ w.lost = m.lost
      BY <1>1, <2>2, <3>1, Fields DEF Machine
    <3> HIDE DEF w
    <3> QED
      BY <1>1, <1>2, <3>1, <3>2
  <2> QED
    BY <2>1, <2>2
<1>5. v = CloseConnectionResult(m, c)
  BY <1>4 DEF CloseConnectionResult
<1> HIDE DEF w
<1>6. l \in Slots \cup {None}
  BY <1>1
<1> HIDE DEF l
<1>7. /\ v \in Machine
      /\ v.act = m.act /\ v.cnt = m.cnt /\ v.par = m.par /\ v.caller = m.caller /\ v.cell = m.cell
      /\ v.mode = m.mode /\ v.pin = m.pin /\ v.off = m.off /\ v.source = m.source /\ v.sent = m.sent
      /\ v.conn = w.conn
  BY <1>4, <1>6, Fields DEF Machine
<1> HIDE DEF v
<1>8. NoStream(v)
  BY <1>2, <1>3, <1>4, <1>7 DEF NoStream
<1>9. Good(v)
  BY <1>7, <1>8, TableKeeps
<1> QED
  BY <1>5, <1>9

LEMMA PortKeeps ==
  ASSUME NEW m, Good(m), m.mode = "cmd", ~m.pin, m.lost = None, NEW ok \in BOOLEAN
  PROVE  Good([m EXCEPT !.conn[0].open = ok])
<1>1. m \in Machine /\ Steady(m) /\ m.conn \in [Slots -> Connection]
  BY Fields DEF Good
<1>2. None \notin Slots /\ 0 \in Slots
  BY BluetoothConstants DEF Slots
<1>3. \A d \in Slots : ~m.conn[d].stream
  BY <1>1, <1>2 DEF Steady, Radio
<1> DEFINE r == [m.conn[0] EXCEPT !.open = ok]
           v == [m EXCEPT !.conn = [m.conn EXCEPT ![0] = r]]
<1>4. [m EXCEPT !.conn[0].open = ok] = v
  BY <1>1, <1>2 DEF Machine
<1>5. r \in Connection /\ r.stream = m.conn[0].stream
  BY <1>1, <1>2 DEF Connection
<1> HIDE DEF r
<1>6. [m.conn EXCEPT ![0] = r] \in [Slots -> Connection]
  BY <1>1, <1>5
<1>7. /\ v \in Machine /\ v.conn = [m.conn EXCEPT ![0] = r]
      /\ v.act = m.act /\ v.cnt = m.cnt /\ v.par = m.par /\ v.caller = m.caller /\ v.cell = m.cell
      /\ v.mode = m.mode /\ v.pin = m.pin /\ v.off = m.off /\ v.source = m.source /\ v.sent = m.sent
  BY <1>1, <1>6, Fields DEF Machine
<1> HIDE DEF v
<1>8. NoStream(v)
  BY <1>1, <1>2, <1>3, <1>5, <1>7 DEF NoStream
<1>9. Good(v)
  BY <1>7, <1>8, TableKeeps
<1> QED
  BY <1>4, <1>9

LEMMA UnintendedResetKeeps ==
  ASSUME NEW m, Good(m)
  PROVE  Good(UnintendedReset(m))
<1>1. m \in Machine /\ Steady(m) /\ Fits(m, State(m))
  BY DEF Good
<1>2. CASE m.act \in {"RESET", "BRICKNAME", "FACTORYRESET"}
  BY <1>2 DEF UnintendedReset
<1>3. CASE m.act \notin {"RESET", "BRICKNAME", "FACTORYRESET"}
  <2> DEFINE w == IF m.act = "IDLE" THEN m ELSE Answer(m, "final")
             b == BrokenOff(w)
             v == [b EXCEPT !.act = "RESET", !.caller = "own"]
  <2>1. v = UnintendedReset(m)
    BY <1>3 DEF UnintendedReset
  <2>2. Good(b)
    <3>1. CASE m.act = "IDLE"
      BY <1>1, <3>1, BrokenOffKeeps DEF Steady, Asked
    <3>2. CASE m.act # "IDLE"
      BY <1>1, <3>2, AnsweredBrokenOffKeeps DEF Steady, Asked
    <3> QED
      BY <3>1, <3>2
  <2>3. b.act = "IDLE" /\ b.cnt = AllZero
    <3>1. \A x \in Machine : BrokenOff(x).act = "IDLE" /\ BrokenOff(x).cnt = AllZero
      <4> SUFFICES ASSUME NEW x \in Machine PROVE BrokenOff(x).act = "IDLE" /\ BrokenOff(x).cnt = AllZero
        OBVIOUS
      <4> DEFINE i == Idle(x)
      <4>1. i \in Machine /\ i.act = "IDLE" /\ i.cnt = AllZero
        BY IdleFacts
      <4>2. BrokenOff(x) = [i EXCEPT !.source = IF @ = "open" THEN "lost" ELSE @]
        BY DEF BrokenOff
      <4> HIDE DEF i
      <4> QED
        BY <4>1, <4>2 DEF Machine
    <3>2. w \in Machine
      BY <1>1, AnswerFacts DEF CellValues
    <3> QED
      BY <3>1, <3>2
  <2> HIDE DEF w, b
  <2>4. b \in Machine /\ Steady(b) /\ Fits(b, State(b))
    BY <2>2 DEF Good
  <2>5. /\ v \in Machine /\ v.act = "RESET" /\ v.cnt = b.cnt /\ v.caller = "own" /\ v.cell = b.cell
        /\ v.mode = b.mode /\ v.pin = b.pin /\ v.conn = b.conn /\ v.off = b.off
        /\ v.source = b.source /\ v.lost = b.lost /\ v.sent = b.sent
    <3>1. "RESET" \in Updates /\ "own" \in Cells \cup {"own"}
      BY DEF Updates
    <3>2. v \in Machine
      BY <2>4, <3>1, Fields DEF Machine
    <3> QED
      BY <2>4, <3>2 DEF Machine
  <2> HIDE DEF v
  <2>6. OnlyCallerWaits(v)
    BY <2>3, <2>4, <2>5 DEF Steady, Asked, OnlyCallerWaits, WaitsIn
  <2>7. Radio(v)
    BY <2>4, <2>5 DEF Steady, Radio
  <2>8. v.source # "open"
    BY <2>3, <2>4, <2>5 DEF Fits
  <2>9. Good(v)
    BY <2>3, <2>5, <2>6, <2>7, <2>8, FreshResetKeeps
  <2> QED
    BY <2>1, <2>9
<1> QED
  BY <1>2, <1>3

(* What the chip may say: with its pin low and in command mode, and nothing  *)
(* but the loss of a stream while that is to be reported.                   *)
Said(m, in) ==
    \/ in.msg \in {"none", "reply"}
    \/ /\ m.mode = "cmd" /\ ~m.pin
       /\ \/ in.msg = "CLOSE" /\ in.slot \in Slots \cup {None} /\ (m.lost # None => in.slot = m.lost)
          \/ /\ in.msg \in {"REQUEST_PIN_CODE", "REQUEST_CONNECTION", "PIN_CODE_ACK", "PORT_CLOSED",
                            "RESET_INDICATION", "answer", "CONNECT_RESULT", "LIST_RESULT", "PORT_OPEN"}
             /\ in.ok \in BOOLEAN /\ m.lost = None

LEMMA MessageFacts ==
  ASSUME NEW m \in Machine, NEW in, in \in Messages(m) \/ in = Silence
  PROVE  Said(m, in)
<1>1. CASE in = Silence
  BY <1>1 DEF Silence, Message, Said
<1>2. CASE in \in Replies
  <2>1. PICK ok \in BOOLEAN : in = Message("reply", ok, None)
    BY <1>2 DEF Replies
  <2> QED
    BY <2>1 DEF Message, Said
<1>3. CASE in # Silence /\ in \notin Replies
  <2>1. m.mode = "cmd" /\ ~m.pin
    BY <1>3 DEF Messages
  <2>2. CASE in = Message("CLOSE", TRUE, m.lost) /\ m.lost # None
    <3>1. in.msg = "CLOSE" /\ in.slot = m.lost
      BY <2>2 DEF Message
    <3> QED
      BY <2>1, <3>1, Fields DEF Said
  <2>3. CASE in \in Closings(m) /\ m.lost = None
    <3>1. PICK c \in {s \in Slots : m.conn[s].open} \cup {None} : in = Message("CLOSE", TRUE, c)
      BY <2>3 DEF Closings
    <3>2. in.msg = "CLOSE" /\ in.slot = c
      BY <3>1 DEF Message
    <3> QED
      BY <2>1, <2>3, <3>2 DEF Said
  <2>4. CASE in \in Told /\ m.lost = None
    <3>1. PICK k \in {"REQUEST_PIN_CODE", "REQUEST_CONNECTION", "PIN_CODE_ACK", "PORT_CLOSED",
                      "RESET_INDICATION"} : in = Message(k, TRUE, None)
      BY <2>4 DEF Told
    <3>2. in.msg = k /\ in.ok = TRUE
      BY <3>1 DEF Message
    <3> QED
      BY <2>1, <2>4, <3>2 DEF Said
  <2>5. CASE in \in Answered /\ m.lost = None
    <3>1. PICK k \in {"answer", "CONNECT_RESULT", "LIST_RESULT", "PORT_OPEN"}, ok \in BOOLEAN :
             in = Message(k, ok, None)
      BY <2>5 DEF Answered
    <3>2. in.msg = k /\ in.ok = ok
      BY <3>1 DEF Message
    <3> QED
      BY <2>1, <2>5, <3>2 DEF Said
  <2> QED
    BY <1>3, <2>1, <2>2, <2>3, <2>4, <2>5 DEF Messages
<1> QED
  BY <1>1, <1>2, <1>3

LEMMA InterpretedKeeps ==
  ASSUME NEW m, Good(m), NEW in, Said(m, in)
  PROVE  Good(Interpreted(m, in))
<1>1. CASE in.msg \in {"none", "reply"}
  BY <1>1 DEF Interpreted
<1>2. CASE /\ m.mode = "cmd" /\ ~m.pin
           /\ in.msg = "CLOSE" /\ in.slot \in Slots \cup {None} /\ (m.lost # None => in.slot = m.lost)
  BY <1>2, ConnectionClosedKeeps DEF Interpreted
<1>3. CASE /\ m.mode = "cmd" /\ ~m.pin /\ m.lost = None /\ in.ok \in BOOLEAN
           /\ in.msg \in {"REQUEST_PIN_CODE", "REQUEST_CONNECTION", "PIN_CODE_ACK", "PORT_CLOSED",
                          "RESET_INDICATION", "answer", "CONNECT_RESULT", "LIST_RESULT", "PORT_OPEN"}
  <2>1. CASE in.msg \in {"REQUEST_PIN_CODE", "REQUEST_CONNECTION"}
    <3>1. CASE m.act # "IDLE"
      BY <2>1, <3>1 DEF Interpreted
    <3>2. CASE m.act = "IDLE"
      <4>1. \A r \in {"PINREQ", "CONNECTREQ"} : Good(Begin(m, "own", r))
        <5>1. \A r \in {"PINREQ", "CONNECTREQ"} :
                 /\ r \in Updates /\ r \notin {"IDLE", "SENDFILE", "DISCONNECT", "EXTREAD"} /\ r # "SEARCH"
          BY DEF Updates
        <5>2. "own" \in Cells \cup {"own"}
          OBVIOUS
        <5> QED
          BY <1>3, <3>2, <5>1, <5>2, BeginKeeps
      <4> QED
        BY <2>1, <3>2, <4>1 DEF Interpreted
    <3> QED
      BY <3>1, <3>2
  <2>2. CASE in.msg = "PORT_OPEN"
    BY <1>3, <2>2, PortKeeps DEF Interpreted
  <2>3. CASE in.msg = "PORT_CLOSED"
    BY <1>3, <2>3, PortKeeps DEF Interpreted
  <2>4. CASE in.msg = "RESET_INDICATION"
    BY <2>4, UnintendedResetKeeps DEF Interpreted
  <2>5. CASE in.msg \in {"PIN_CODE_ACK", "answer", "CONNECT_RESULT", "LIST_RESULT"}
    BY <2>5 DEF Interpreted
  <2> QED
    BY <1>3, <2>1, <2>2, <2>3, <2>4, <2>5
<1>4. m \in Machine
  BY DEF Good
<1> QED
  BY <1>1, <1>2, <1>3, <1>4 DEF Said

(* The pin.  What a change of it and of what is lost has to respect.        *)
LEMMA PinKeeps ==
  ASSUME NEW m, Good(m), NEW v \in Machine,
         v.act = m.act, v.cnt = m.cnt, v.par = m.par, v.caller = m.caller, v.cell = m.cell,
         v.mode = m.mode, v.conn = m.conn, v.off = m.off, v.source = m.source, v.sent = m.sent,
         \A c \in Slots : m.conn[c].stream => v.lost = c \/ (m.mode = "data" /\ v.pin),
         v.pin => v.lost = None,
         m.mode = "cmd" /\ v.pin /\ Wants(m) => m.conn[Wanted(m)].open
  PROVE  Good(v)
<1>1. m \in Machine /\ Steady(m) /\ Fits(m, State(m))
  BY DEF Good
<1>2. Asked(v)
  BY <1>1 DEF Steady, Asked, OnlyCallerWaits, WaitsIn
<1>3. Radio(v)
  BY <1>1 DEF Steady, Radio
<1>4. Wants(v) => Wants(m)
  BY DEF Wants
<1>5. Wanted(v) = Wanted(m)
  BY DEF Wanted
<1>6. Steady(v)
  BY <1>1, <1>2, <1>3, <1>4, <1>5 DEF Steady, NoStream
<1>7. Fits(v, State(m)) /\ State(v) = State(m)
  BY <1>1 DEF Fits, WaitsIn, State
<1> QED
  BY <1>6, <1>7 DEF Good

LEMMA SampledKeeps ==
  ASSUME NEW m, Good(m), NEW pin \in Pins(m)
  PROVE  Good(Sampled(m, pin)) /\ Sampled(m, pin) \in Machine
<1>1. m \in Machine /\ Steady(m) /\ m.lost \in Slots \cup {None} /\ m.pin \in BOOLEAN
  BY Fields DEF Good
<1>2. pin \in BOOLEAN
  BY DEF Pins
<1>3. None \notin Slots
  BY BluetoothConstants DEF Slots
<1> DEFINE streaming == {c \in Slots : m.conn[c].stream}
           l == IF m.pin /\ ~pin /\ ~ToldToLeave(m) /\ streaming # {}
                THEN CHOOSE c \in streaming : TRUE ELSE m.lost
           v == [m EXCEPT !.pin = pin, !.lost = l]
<1>4. v = Sampled(m, pin)
  BY <1>1 DEF Sampled, Machine
<1>5. l \in Slots \cup {None}
  <2>1. streaming # {} => (CHOOSE c \in streaming : TRUE) \in streaming
    OBVIOUS
  <2> QED
    BY <1>1, <2>1
<1>6. \A c \in Slots : m.conn[c].stream => l = c \/ (m.mode = "data" /\ pin)
  <2> SUFFICES ASSUME NEW c \in Slots, m.conn[c].stream, ~(m.mode = "data" /\ pin) PROVE l = c
    OBVIOUS
  <2>1. m.lost = c \/ (m.mode = "data" /\ m.pin)
    BY <1>1 DEF Steady, Radio
  <2>2. m.pin => m.lost = None
    BY <1>1 DEF Steady, Radio
  <2>3. CASE m.lost = c
    BY <1>3, <2>2, <2>3
  <2>4. CASE m.lost # c
    <3>1. m.mode = "data" /\ m.pin /\ ~pin
      BY <2>1, <2>4
    <3>2. ~ToldToLeave(m)
      BY <1>1, <3>1 DEF ToldToLeave, Steady, NoStream
    <3>3. streaming = {c}
      BY <1>1 DEF Steady, Radio
    <3>4. (CHOOSE d \in streaming : TRUE) \in streaming
      BY <3>3
    <3> QED
      BY <3>1, <3>2, <3>3, <3>4
  <2> QED
    BY <2>3, <2>4
<1>7. pin => l = None
  <2>1. CASE m.pin
    BY <1>1, <2>1 DEF Steady, Radio
  <2>2. CASE ~m.pin
    BY <2>2 DEF Pins
  <2> QED
    BY <2>1, <2>2
<1>8. m.mode = "cmd" /\ pin /\ Wants(m) => m.conn[Wanted(m)].open
  <2>1. CASE m.pin
    BY <1>1, <2>1 DEF Steady
  <2>2. CASE ~m.pin
    BY <2>2 DEF Pins, Wants
  <2> QED
    BY <2>1, <2>2
<1> HIDE DEF l
<1>9. /\ v \in Machine /\ v.pin = pin /\ v.lost = l
      /\ v.act = m.act /\ v.cnt = m.cnt /\ v.par = m.par /\ v.caller = m.caller /\ v.cell = m.cell
      /\ v.mode = m.mode /\ v.conn = m.conn /\ v.off = m.off /\ v.source = m.source /\ v.sent = m.sent
  BY <1>1, <1>2, <1>5, Fields DEF Machine
<1> HIDE DEF v
<1>10. Good(v)
  BY <1>6, <1>7, <1>8, <1>9, PinKeeps
<1> QED
  BY <1>4, <1>9, <1>10

(* An idle machine may be in either mode that goes with the pin.            *)
LEMMA ModeKeeps ==
  ASSUME NEW m, Good(m), m.act = "IDLE", NEW v \in Machine,
         v.act = m.act, v.cnt = m.cnt, v.par = m.par, v.caller = m.caller, v.cell = m.cell,
         v.pin = m.pin, v.conn = m.conn, v.off = m.off, v.source = m.source,
         v.lost = m.lost, v.sent = m.sent,
         v.mode = IF m.pin THEN "data" ELSE "cmd"
  PROVE  Good(v)
<1>1. m \in Machine /\ Steady(m) /\ Fits(m, State(m)) /\ m.pin \in BOOLEAN
  BY Fields DEF Good
<1>2. /\ m.cnt["stream"] = 0 /\ m.cnt["cmd"] = 0 /\ m.cnt["close"] = 0
      /\ m.cnt["disc"] = 0 /\ m.cnt["reset"] = 0
  BY <1>1 DEF Fits, Opens, Switches, Closes, Disconnects, Resets, FirstSwitches
<1>3. Asked(v)
  BY <1>1 DEF Steady, Asked, OnlyCallerWaits, WaitsIn
<1>4. Radio(v)
  BY <1>1 DEF Steady, Radio
<1>5. Steady(v)
  BY <1>2, <1>3, <1>4 DEF Steady, Wants
<1>6. Fits(v, State(m)) /\ State(v) = State(m)
  BY <1>1 DEF Fits, NeedsCmd, FirstSwitches, State
<1> QED
  BY <1>5, <1>6 DEF Good

LEMMA FollowedKeeps ==
  ASSUME NEW m, Good(m)
  PROVE  /\ Good(Followed(m))
         /\ Followed(m).act = "IDLE" /\ Followed(m).mode = "cmd" => ~Followed(m).pin
<1>1. m \in Machine /\ m.pin \in BOOLEAN
  BY Fields DEF Good
<1>2. CASE m.act = "IDLE" /\ m.mode = "cmd" /\ m.pin
  <2> DEFINE v == DataMode(m)
  <2>1. /\ v \in Machine /\ v.mode = "data" /\ v.act = m.act /\ v.cnt = m.cnt /\ v.par = m.par
        /\ v.caller = m.caller /\ v.cell = m.cell /\ v.pin = m.pin /\ v.conn = m.conn /\ v.off = m.off
        /\ v.source = m.source /\ v.lost = m.lost /\ v.sent = m.sent
    BY <1>1, Fields DEF DataMode, Machine
  <2>2. v = Followed(m)
    BY <1>2 DEF Followed
  <2> HIDE DEF v
  <2>3. Good(v)
    BY <1>2, <2>1, ModeKeeps
  <2> QED
    BY <2>1, <2>2, <2>3
<1>3. CASE m.act = "IDLE" /\ m.mode = "data" /\ ~m.pin
  <2> DEFINE v == CmdMode(m)
  <2>1. /\ v \in Machine /\ v.mode = "cmd" /\ v.act = m.act /\ v.cnt = m.cnt /\ v.par = m.par
        /\ v.caller = m.caller /\ v.cell = m.cell /\ v.pin = m.pin /\ v.conn = m.conn /\ v.off = m.off
        /\ v.source = m.source /\ v.lost = m.lost /\ v.sent = m.sent
    BY <1>1, Fields DEF CmdMode, Machine
  <2>2. v = Followed(m)
    BY <1>3 DEF Followed
  <2> HIDE DEF v
  <2>3. Good(v)
    BY <1>3, <2>1, ModeKeeps
  <2> QED
    BY <1>3, <2>1, <2>2, <2>3
<1>4. CASE /\ ~(m.act = "IDLE" /\ m.mode = "cmd" /\ m.pin)
           /\ ~(m.act = "IDLE" /\ m.mode = "data" /\ ~m.pin)
  BY <1>4 DEF Followed
<1> QED
  BY <1>2, <1>3, <1>4

LEMMA EndsKeep ==
  ASSUME NEW S, \A u \in S : Good(u), bt' \in Ends(S)
  PROVE  IInv'
<1>1. PICK u \in S : \E pin \in Pins(u) : bt' = Followed(Sampled(u, pin))
  BY DEF Ends
<1> PICK pin \in Pins(u) : bt' = Followed(Sampled(u, pin))
  BY <1>1
<1> DEFINE m == Sampled(u, pin)
<1>2. Good(m)
  BY SampledKeeps
<1>3. bt' = Followed(m)
  OBVIOUS
<1> HIDE DEF m
<1>4. Good(bt') /\ (bt'.act = "IDLE" /\ bt'.mode = "cmd" => ~bt'.pin)
  BY <1>2, <1>3, FollowedKeeps
<1> QED
  BY <1>4 DEF IInv

LEMMA ReceivedKeeps ==
  ASSUME IInv, NEW in, Said(bt, in), Received(in)
  PROVE  IInv'
<1> DEFINE f == Fresh(bt)
           m == Interpreted(f, in)
<1>1. Good(f) /\ f.mode = bt.mode /\ f.pin = bt.pin /\ f.lost = bt.lost
  BY FreshKeeps DEF IInv
<1>2. bt' \in Ends(UpdateBt(m, in))
  BY DEF Received
<1> HIDE DEF f
<1>3. Said(f, in)
  BY <1>1 DEF Said
<1>4. Good(m)
  BY <1>1, <1>3, InterpretedKeeps
<1> HIDE DEF m
<1>5. \A u \in UpdateBt(m, in) : Good(u)
  BY <1>4, UpdateKeeps
<1> QED
  BY <1>2, <1>5, EndsKeep

(* A request that parks something.                                         *)
SameButParked(v, m) ==
    /\ v.act = m.act /\ v.cnt = m.cnt /\ v.caller = m.caller /\ v.cell = m.cell
    /\ v.mode = m.mode /\ v.pin = m.pin /\ v.conn = m.conn /\ v.off = m.off
    /\ v.lost = m.lost /\ v.sent = m.sent

LEMMA ABeginFacts ==
  ASSUME NEW m \in Machine, NEW who \in Cells \cup {"own"}, NEW update \in Updates,
         NEW b, b = Begin(m, who, update)
  PROVE  /\ b \in Machine /\ b.act = update /\ b.caller = who
         /\ \A c \in Cells : b.cell[c] = IF c = who THEN "inprogress" ELSE m.cell[c]
         /\ SameButRequest(b, m)
BY BeginFacts

LEMMA ParkedKeeps ==
  ASSUME NEW m, Good(m), m.act = "IDLE", ~(m.mode = "cmd" /\ m.pin),
         NEW who \in Cells \cup {"own"}, NEW update \in Updates,
         update \notin {"IDLE", "PINREQ", "CONNECTREQ", "SEARCH", "BRICKNAME"},
         NEW v \in Machine, SameButParked(v, Begin(m, who, update)),
         v.source = "open" <=> update = "SENDFILE",
         update = "DISCONNECT" => v.par.one \in Slots,
         update = "EXTREAD" => 2 <= v.par.msg
  PROVE  Good(v)
<1> DEFINE b == Begin(m, who, update)
<1>1. m \in Machine /\ Fits(m, State(m))
  BY DEF Good
<1>2. /\ b \in Machine /\ b.act = update /\ b.caller = who
      /\ \A c \in Cells : b.cell[c] = IF c = who THEN "inprogress" ELSE m.cell[c]
      /\ SameButRequest(b, m)
  BY <1>1, BeginFacts
<1> HIDE DEF b
<1>3. SameButParked(v, b)
  BY DEF b
<1>4. /\ v.act = update /\ v.caller = who /\ v.cnt = m.cnt
      /\ \A c \in Cells : v.cell[c] = IF c = who THEN "inprogress" ELSE m.cell[c]
      /\ v.mode = m.mode /\ v.pin = m.pin /\ v.conn = m.conn /\ v.off = m.off
      /\ v.lost = m.lost /\ v.sent = m.sent
  BY <1>2, <1>3 DEF SameButRequest, SameButParked
<1> QED
  BY <1>4, TakenKeeps

LEMMA ReadRequestedKeeps ==
  ASSUME IInv, ReadRequested
  PROVE  IInv'
<1> DEFINE f == Fresh(bt)
<1>1. PICK m \in LongReads(f) : bt' \in Ends(UpdateBt(m, Silence))
  BY DEF ReadRequested
<1>2. Good(f)
  BY FreshKeeps DEF IInv
<1> HIDE DEF f
<1>3. f.mode = "data" /\ f.act = "IDLE"
  BY DEF LongReads
<1>4. PICK n \in 2 .. MaxBlocks : m = [Begin(f, "own", "EXTREAD") EXCEPT !.par.msg = n]
  BY <1>3 DEF LongReads
<1> DEFINE b == Begin(f, "own", "EXTREAD")
<1>5. f \in Machine /\ f.source # "open"
  BY <1>2, <1>3 DEF Good, Fits
<1>6. "EXTREAD" \in Updates /\ "own" \in Cells \cup {"own"}
  BY DEF Updates
<1> HIDE DEF b
<1>7. b \in Machine /\ b.act = "EXTREAD" /\ SameButRequest(b, f)
  <2>1. b = Begin(f, "own", "EXTREAD")
    BY DEF b
  <2> QED
    BY <1>5, <1>6, <2>1, ABeginFacts
<1>8. m = [b EXCEPT !.par.msg = n]
  BY <1>4 DEF b
<1> DEFINE p == [b.par EXCEPT !.msg = n]
<1>9. m = [b EXCEPT !.par = p]
  BY <1>7, <1>8 DEF Machine
<1>10. p \in Params /\ p.msg = n
  <2>1. b.par \in Params /\ n \in 0 .. MaxBlocks
    BY <1>7, Fields, BluetoothConstants
  <2> QED
    BY <2>1 DEF Params
<1> HIDE DEF p
<1>11. /\ m \in Machine /\ m.par = p /\ SameButParked(m, b) /\ m.source = b.source
  BY <1>7, <1>9, <1>10, Fields DEF Machine, SameButParked
<1>12. Good(m)
  <2>1. SameButParked(m, Begin(f, "own", "EXTREAD"))
    BY <1>11 DEF b
  <2>2. m.source # "open" /\ 2 <= m.par.msg
    BY <1>5, <1>7, <1>10, <1>11 DEF SameButRequest
  <2> QED
    BY <1>2, <1>3, <1>6, <1>11, <2>1, <2>2, ParkedKeeps
<1>13. \A u \in UpdateBt(m, Silence) : Good(u)
  BY <1>12, UpdateKeeps
<1> QED
  BY <1>1, <1>13, EndsKeep

LEMMA TimeOutKeeps ==
  ASSUME IInv, TimeOut
  PROVE  IInv'
<1> DEFINE f == Fresh(bt)
           m == TimedOut(f)
<1>1. Good(f)
  BY FreshKeeps DEF IInv
<1>2. bt' \in Ends({m})
  BY DEF TimeOut
<1> HIDE DEF f
<1>3. Good(m)
  BY <1>1, AnsweredBrokenOffKeeps DEF Good, Steady, Asked, TimedOut
<1> HIDE DEF m
<1> QED
  BY <1>2, <1>3, EndsKeep

LEMMA RoundKeeps ==
  ASSUME IInv, Round
  PROVE  IInv'
<1>1. bt \in Machine
  BY DEF IInv, Good
<1>2. CASE Quiet
  <2>1. Said(bt, Silence)
    BY <1>1, MessageFacts
  <2> QED
    BY <1>2, <2>1, ReceivedKeeps DEF Quiet
<1>3. CASE Heard
  <2>1. PICK in \in Messages(bt) : Received(in)
    BY <1>3 DEF Heard
  <2>2. Said(bt, in)
    BY <1>1, MessageFacts
  <2> QED
    BY <2>1, <2>2, ReceivedKeeps
<1> QED
  BY <1>2, <1>3, ReadRequestedKeeps, TimeOutKeeps DEF Round

-----------------------------------------------------------------------------
(* Requests of other modules.                                              *)

(* Who has asked and what the cells say may change as long as only the      *)
(* caller of a request that is under way waits.                            *)
SameButCells(v, m) ==
    /\ v.act = m.act /\ v.cnt = m.cnt
    /\ v.mode = m.mode /\ v.pin = m.pin /\ v.conn = m.conn /\ v.off = m.off
    /\ v.source = m.source /\ v.lost = m.lost /\ v.sent = m.sent

LEMMA CellsKeep ==
  ASSUME NEW m, Good(m), NEW v \in Machine, SameButCells(v, m),
         v.par.two = m.par.two, v.par.reopen = m.par.reopen, v.par.file = m.par.file, v.par.msg = m.par.msg,
         m.act = "DISCONNECT" => v.par.one = m.par.one,
         \A c \in Cells : WaitsIn(v, c) => WaitsIn(m, c) \/ v.act = "SEARCH",
         OnlyCallerWaits(v),
         v.act = "SEARCH" => v.caller = "ui",
         v.act = "PINREQ" => v.caller = "own"
  PROVE  Good(v)
<1>1. m \in Machine /\ Steady(m) /\ Fits(m, State(m))
  BY DEF Good
<1>2. Asked(v)
  BY <1>1 DEF Steady, Asked, SameButCells
<1>3. Radio(v)
  BY <1>1 DEF Steady, Radio, SameButCells
<1>4. (Wants(v) => Wants(m)) /\ Wanted(v) = Wanted(m)
  BY DEF Wants, Wanted, SameButCells
<1>5. Steady(v)
  BY <1>1, <1>2, <1>3, <1>4 DEF Steady, NoStream, SameButCells
<1>6. Fits(v, State(m)) /\ State(v) = State(m)
  BY <1>1 DEF Fits, State, SameButCells
<1> QED
  BY <1>5, <1>6 DEF Good

LEMMA RefusedFacts ==
  ASSUME NEW m \in Machine, NEW who \in Cells \cup {"own"}, NEW value \in {"final", "left"}
  PROVE  LET v == Refused(m, who, value) IN
         /\ v \in Machine /\ SameButCells(v, m) /\ v.par = m.par /\ v.caller = m.caller
         /\ \A c \in Cells : WaitsIn(v, c) => WaitsIn(m, c) /\ c # who
<1> DEFINE v == Refused(m, who, value)
<1>1. CASE who = "own"
  BY <1>1 DEF Refused, SameButCells, WaitsIn, Cells
<1>2. CASE who # "own"
  <2>1. who \in Cells /\ value \in CellValues
    BY <1>2 DEF CellValues
  <2>2. [m.cell EXCEPT ![who] = value] \in [Cells -> CellValues]
    BY <2>1, Fields
  <2>3. /\ v \in Machine /\ v.cell = [m.cell EXCEPT ![who] = value]
        /\ SameButCells(v, m) /\ v.par = m.par /\ v.caller = m.caller
    BY <1>2, <2>2, Fields DEF Refused, Machine, SameButCells
  <2> HIDE DEF v
  <2>4. \A c \in Cells : WaitsIn(v, c) => WaitsIn(m, c) /\ c # who
    BY <2>1, <2>3, Fields DEF WaitsIn
  <2> QED
    BY <2>3, <2>4 DEF v
<1> QED
  BY <1>1, <1>2

LEMMA RefusedKeeps ==
  ASSUME NEW m, Good(m), NEW who \in Cells \cup {"own"}, NEW value \in {"final", "left"}
  PROVE  Good(Refused(m, who, value))
<1> DEFINE v == Refused(m, who, value)
<1>1. m \in Machine /\ Steady(m)
  BY DEF Good
<1>2. /\ v \in Machine /\ SameButCells(v, m) /\ v.par = m.par /\ v.caller = m.caller
      /\ \A c \in Cells : WaitsIn(v, c) => WaitsIn(m, c)
  BY <1>1, RefusedFacts
<1> HIDE DEF v
<1>3. OnlyCallerWaits(v) /\ (v.act = "SEARCH" => v.caller = "ui") /\ (v.act = "PINREQ" => v.caller = "own")
  BY <1>1, <1>2 DEF Steady, Asked, OnlyCallerWaits, SameButCells
<1>4. Good(v)
  BY <1>2, <1>3, CellsKeep
<1> QED
  BY <1>4 DEF v

(* An idle machine that refuses also forgets who asked before.             *)
LEMMA TurnedAwayKeeps ==
  ASSUME NEW m, Good(m), m.act = "IDLE", NEW who \in Cells \cup {"own"}, NEW value \in {"final", "left"}
  PROVE  LET v == [Refused(m, who, value) EXCEPT !.caller = who] IN
         Good(v) /\ SameButCells(v, m)
<1> DEFINE r == Refused(m, who, value)
           v == [r EXCEPT !.caller = who]
<1>1. m \in Machine /\ Steady(m)
  BY DEF Good
<1>2. /\ r \in Machine /\ SameButCells(r, m) /\ r.par = m.par
      /\ \A c \in Cells : WaitsIn(r, c) => WaitsIn(m, c)
  BY <1>1, RefusedFacts
<1> HIDE DEF r
<1>3. /\ v \in Machine /\ SameButCells(v, r) /\ v.par = r.par /\ v.caller = who /\ v.cell = r.cell
  BY <1>2, Fields DEF Machine, SameButCells
<1> HIDE DEF v
<1>4. SameButCells(v, m) /\ v.par = m.par /\ (\A c \in Cells : WaitsIn(v, c) => WaitsIn(m, c))
  BY <1>2, <1>3 DEF SameButCells, WaitsIn
<1>5. \A c \in Cells : ~WaitsIn(m, c)
  BY <1>1 DEF Steady, Asked
<1>6. v.act = "IDLE"
  BY <1>4 DEF SameButCells
<1>7. Good(v)
  BY <1>3, <1>4, <1>5, <1>6, CellsKeep DEF OnlyCallerWaits
<1> QED
  BY <1>4, <1>7 DEF v, r

(* What the machine is between rounds.                                     *)
Rested(m) == Good(m) /\ (m.act = "IDLE" /\ m.mode = "cmd" => ~m.pin)

LEMMA IdlerFacts ==
  ASSUME IInv
  PROVE  /\ Rested(Idler) /\ Good(Idler) /\ Idler \in Machine
         /\ Idler.act = bt.act /\ Idler.conn = bt.conn /\ Idler.off = bt.off /\ Idler.par = bt.par
         /\ Idler.mode = bt.mode /\ Idler.pin = bt.pin /\ Idler.source = bt.source
         /\ bt.act = "IDLE" => Idler.source # "open" /\ ~(Idler.mode = "cmd" /\ Idler.pin)
<1> DEFINE f == Fresh(bt)
<1>1. /\ Good(f) /\ f.act = bt.act /\ f.conn = bt.conn /\ f.off = bt.off /\ f.par = bt.par
      /\ f.mode = bt.mode /\ f.pin = bt.pin /\ f.source = bt.source
  BY FreshKeeps DEF IInv
<1>2. f = Idler
  BY DEF Idler
<1> HIDE DEF f
<1>3. bt.act = "IDLE" => f.source # "open" /\ ~(f.mode = "cmd" /\ f.pin)
  BY <1>1 DEF Good, Fits, IInv
<1>4. f \in Machine /\ Rested(f)
  BY <1>1, <1>3 DEF Good, Rested, IInv
<1> QED
  BY <1>1, <1>2, <1>3, <1>4

LEMMA AskKeeps ==
  ASSUME IInv, NEW who \in Cells \cup {"own"}, NEW taken,
         bt.act = "IDLE" => \A u \in taken : Rested(u),
         Ask(who, taken)
  PROVE  IInv'
<1>1. Rested(bt')
  <2>1. CASE bt.act = "IDLE"
    BY <2>1 DEF Ask
  <2>2. CASE bt.act # "IDLE"
    <3> DEFINE f == Idler
               v == Refused(f, who, "final")
    <3>1. f = Fresh(bt)
      BY DEF Idler
    <3>2. bt' = v
      BY <2>2, <3>1 DEF Ask
    <3>3. Good(f) /\ f \in Machine /\ f.act # "IDLE"
      BY <2>2, IdlerFacts
    <3> HIDE DEF f
    <3>4. Good(v) /\ SameButCells(v, f)
      BY <3>3, RefusedKeeps, RefusedFacts
    <3> HIDE DEF v
    <3> QED
      BY <3>2, <3>3, <3>4 DEF Rested, SameButCells
  <2> QED
    BY <2>1, <2>2
<1> QED
  BY <1>1 DEF Rested, IInv

(* A request that parks the parameters p.                                  *)
LEMMA ParamsParked ==
  ASSUME IInv, bt.act = "IDLE", NEW who \in Cells \cup {"own"},
         NEW update \in {"CONNECT", "DISCONNECT", "SENDDATA", "OPENSTREAM"},
         NEW p \in Params, update = "DISCONNECT" => p.one \in Slots
  PROVE  Rested([Begin(Idler, who, update) EXCEPT !.par = p])
<1> DEFINE f == Idler
           b == Begin(f, who, update)
           v == [b EXCEPT !.par = p]
<1>1. Good(f) /\ f \in Machine /\ f.act = "IDLE" /\ ~(f.mode = "cmd" /\ f.pin) /\ f.source # "open"
  BY IdlerFacts
<1> HIDE DEF f
<1>2. update \in Updates
  BY DEF Updates
<1> HIDE DEF b
<1>3. b = Begin(f, who, update)
  BY DEF b
<1>4. b \in Machine /\ b.act = update /\ SameButRequest(b, f)
  BY <1>1, <1>2, <1>3, ABeginFacts
<1>5. /\ v \in Machine /\ v.par = p /\ v.act = update /\ SameButParked(v, b) /\ v.source = b.source
  BY <1>4, Fields DEF Machine, SameButParked
<1> HIDE DEF v
<1>6. Good(v)
  <2>1. SameButParked(v, Begin(f, who, update))
    BY <1>3, <1>5
  <2>2. v.source # "open"
    BY <1>1, <1>4, <1>5 DEF SameButRequest
  <2> QED
    BY <1>1, <1>2, <1>5, <2>1, <2>2, ParkedKeeps
<1>7. Rested(v)
  BY <1>5, <1>6 DEF Rested
<1> QED
  BY <1>7 DEF v, b, f

(* A request of an idle machine that is turned away at once.               *)
LEMMA TurnedAway ==
  ASSUME IInv, bt.act = "IDLE", NEW who \in Cells \cup {"own"}, NEW value \in {"final", "left"}
  PROVE  Rested([Refused(Idler, who, value) EXCEPT !.caller = who])
<1> DEFINE f == Idler
           v == [Refused(f, who, value) EXCEPT !.caller = who]
<1>1. Good(f) /\ f.act = "IDLE" /\ ~(f.mode = "cmd" /\ f.pin)
  BY IdlerFacts
<1> HIDE DEF f
<1>2. Good(v) /\ SameButCells(v, f)
  BY <1>1, TurnedAwayKeeps
<1> HIDE DEF v
<1>3. Rested(v)
  BY <1>1, <1>2 DEF Rested, SameButCells
<1> QED
  BY <1>3 DEF v, f

LEMMA SimpleKeeps ==
  ASSUME IInv, NEW who \in Cells \cup {"own"}, NEW update \in Updates,
         update \notin {"IDLE", "SENDFILE", "DISCONNECT", "EXTREAD", "PINREQ", "CONNECTREQ"},
         update = "SEARCH" => who = "ui",
         Simple(who, update)
  PROVE  IInv'
<1> DEFINE f == Idler
           v == Begin(f, who, update)
<1>1. bt.act = "IDLE" => Rested(v)
  <2> HAVE bt.act = "IDLE"
  <2>1. Good(f) /\ f \in Machine /\ f.act = "IDLE" /\ ~(f.mode = "cmd" /\ f.pin)
    BY IdlerFacts
  <2> HIDE DEF f
  <2>2. Good(v)
    BY <2>1, BeginKeeps
  <2>3. v.act = update
    BY <2>1, BeginFacts
  <2> HIDE DEF v
  <2> QED
    BY <2>2, <2>3 DEF Rested
<1>2. Ask(who, {v})
  BY DEF Simple
<1> HIDE DEF v
<1>3. bt.act = "IDLE" => \A u \in {v} : Rested(u)
  BY <1>1
<1> QED
  BY <1>2, <1>3, AskKeeps

LEMMA SendFileKeeps ==
  ASSUME IInv, NEW who \in Cells \cup {"own"}, SendFile(who)
  PROVE  IInv'
<1> DEFINE f == Idler
           b == Begin(f, who, "SENDFILE")
<1>1. PICK c \in Slots, n \in 0 .. MaxBlocks :
         Ask(who, {[b EXCEPT !.par.two = c, !.par.file = n, !.source = "open"],
                   [Refused(f, who, "left") EXCEPT !.caller = who]})
  BY DEF SendFile
<1> DEFINE p == [b.par EXCEPT !.two = c, !.file = n]
           v == [b EXCEPT !.par = p, !.source = "open"]
           r == [Refused(f, who, "left") EXCEPT !.caller = who]
<1>2. bt.act = "IDLE" => Rested(r)
  BY TurnedAway
<1> HIDE DEF r
<1>3. Good(f) /\ f \in Machine /\ f.act = bt.act /\ (bt.act = "IDLE" => ~(f.mode = "cmd" /\ f.pin))
  BY IdlerFacts
<1> HIDE DEF f
<1>4. "SENDFILE" \in Updates
  BY DEF Updates
<1> HIDE DEF b
<1>5. b = Begin(f, who, "SENDFILE")
  BY DEF b
<1>6. b \in Machine /\ b.act = "SENDFILE"
  BY <1>3, <1>4, <1>5, ABeginFacts
<1>7. p \in Params
  <2>1. b.par \in Params
    BY <1>6, Fields
  <2> QED
    BY <2>1 DEF Params
<1>8. [b EXCEPT !.par.two = c, !.par.file = n, !.source = "open"] = v
  BY <1>6 DEF Machine
<1> HIDE DEF p
<1>9. /\ v \in Machine /\ v.act = "SENDFILE" /\ v.source = "open" /\ SameButParked(v, b)
  BY <1>6, <1>7, Fields DEF Machine, SameButParked
<1>10. Ask(who, {v, r})
  BY <1>1, <1>8 DEF r
<1> HIDE DEF v
<1>11. bt.act = "IDLE" => Rested(v)
  <2> HAVE bt.act = "IDLE"
  <2>1. SameButParked(v, Begin(f, who, "SENDFILE"))
    BY <1>5, <1>9
  <2>2. Good(v)
    BY <1>3, <1>4, <1>9, <2>1, ParkedKeeps
  <2> QED
    BY <1>9, <2>2 DEF Rested
<1>12. bt.act = "IDLE" => \A u \in {v, r} : Rested(u)
  BY <1>2, <1>11
<1> QED
  BY <1>10, <1>12, AskKeeps

LEMMA ConnectToKeeps ==
  ASSUME IInv, NEW who \in Cells \cup {"own"}, ConnectTo(who)
  PROVE  IInv'
<1> DEFINE b == Begin(Idler, who, "CONNECT")
           r == [Refused(Idler, who, "final") EXCEPT !.caller = who]
<1>1. PICK c \in Slots : Ask(who, {IF bt.conn[c].open THEN r ELSE [b EXCEPT !.par.two = c]})
  BY DEF ConnectTo
<1> DEFINE p == [b.par EXCEPT !.two = c]
           v == [b EXCEPT !.par = p]
<1>2. bt.act = "IDLE" => Rested(r)
  BY TurnedAway
<1> HIDE DEF r
<1>3. Idler \in Machine /\ "CONNECT" \in Updates
  BY IdlerFacts DEF Updates
<1>4. b \in Machine
  BY <1>3, ABeginFacts
<1>5. p \in Params
  <2> HIDE DEF b
  <2>1. b.par \in Params
    BY <1>4, Fields
  <2> QED
    BY <2>1 DEF Params
<1>6. [b EXCEPT !.par.two = c] = v
  <2> HIDE DEF b
  <2> QED
    BY <1>4 DEF Machine
<1> HIDE DEF p
<1>7. bt.act = "IDLE" => Rested(v)
  BY <1>5, ParamsParked
<1> HIDE DEF v, b
<1>8. PICK t \in {r, v} : Ask(who, {t})
  BY <1>1, <1>6
<1>9. bt.act = "IDLE" => \A u \in {t} : Rested(u)
  BY <1>2, <1>7
<1> QED
  BY <1>8, <1>9, AskKeeps

LEMMA DisconnectFromKeeps ==
  ASSUME IInv, NEW who \in Cells \cup {"own"}, DisconnectFrom(who)
  PROVE  IInv'
<1> DEFINE b == Begin(Idler, who, "DISCONNECT")
<1>1. PICK c \in Slots : Ask(who, {[b EXCEPT !.par.one = c]})
  BY DEF DisconnectFrom
<1> DEFINE p == [b.par EXCEPT !.one = c]
           v == [b EXCEPT !.par = p]
<1>2. Idler \in Machine /\ "DISCONNECT" \in Updates
  BY IdlerFacts DEF Updates
<1>3. b \in Machine
  BY <1>2, ABeginFacts
<1>4. p \in Params /\ p.one = c
  <2> HIDE DEF b
  <2>1. b.par \in Params /\ c \in 0 .. NumSlots
    BY <1>3, Fields, BluetoothConstants DEF Slots
  <2> QED
    BY <2>1 DEF Params
<1>5. [b EXCEPT !.par.one = c] = v
  <2> HIDE DEF b
  <2> QED
    BY <1>3 DEF Machine
<1> HIDE DEF p
<1>6. bt.act = "IDLE" => Rested(v)
  BY <1>4, ParamsParked
<1> HIDE DEF v, b
<1>7. Ask(who, {v}) /\ (bt.act = "IDLE" => \A u \in {v} : Rested(u))
  BY <1>1, <1>5, <1>6
<1> QED
  BY <1>7, AskKeeps

LEMMA OpenStreamOfKeeps ==
  ASSUME IInv, OpenStreamOf
  PROVE  IInv'
<1> DEFINE b == Begin(Idler, "own", "OPENSTREAM")
<1>1. PICK c \in Slots : Ask("own", {[b EXCEPT !.par.two = c]})
  BY DEF OpenStreamOf
<1> DEFINE p == [b.par EXCEPT !.two = c]
           v == [b EXCEPT !.par = p]
<1>2. Idler \in Machine /\ "OPENSTREAM" \in Updates /\ "own" \in Cells \cup {"own"}
  BY IdlerFacts DEF Updates
<1>3. b \in Machine
  BY <1>2, ABeginFacts
<1>4. p \in Params
  <2> HIDE DEF b
  <2>1. b.par \in Params
    BY <1>3, Fields
  <2> QED
    BY <2>1 DEF Params
<1>5. [b EXCEPT !.par.two = c] = v
  <2> HIDE DEF b
  <2> QED
    BY <1>3 DEF Machine
<1> HIDE DEF p
<1>6. bt.act = "IDLE" => Rested(v)
  BY <1>2, <1>4, ParamsParked
<1> HIDE DEF v, b
<1>7. Ask("own", {v}) /\ (bt.act = "IDLE" => \A u \in {v} : Rested(u))
  BY <1>1, <1>5, <1>6
<1> QED
  BY <1>2, <1>7, AskKeeps

LEMMA SendDataOnKeeps ==
  ASSUME IInv, SendDataOn
  PROVE  IInv'
<1> DEFINE b == Begin(Idler, "CommStat", "SENDDATA")
           r == [Refused(Idler, "CommStat", "left") EXCEPT !.caller = "CommStat"]
<1>1. PICK c \in Slots, reply \in BOOLEAN :
         Ask("CommStat", {IF bt.conn[c].named THEN [b EXCEPT !.par.two = c, !.par.three = reply] ELSE r})
  BY DEF SendDataOn
<1> DEFINE p == [b.par EXCEPT !.two = c, !.three = reply]
           v == [b EXCEPT !.par = p]
<1>2. Idler \in Machine /\ "SENDDATA" \in Updates /\ "CommStat" \in Cells \cup {"own"}
  BY IdlerFacts DEF Updates, Cells
<1>3. bt.act = "IDLE" => Rested(r)
  BY <1>2, TurnedAway
<1> HIDE DEF r
<1>4. b \in Machine
  BY <1>2, ABeginFacts
<1>5. p \in Params
  <2> HIDE DEF b
  <2>1. b.par \in Params
    BY <1>4, Fields
  <2> QED
    BY <2>1 DEF Params
<1>6. [b EXCEPT !.par.two = c, !.par.three = reply] = v
  <2> HIDE DEF b
  <2> QED
    BY <1>4 DEF Machine
<1> HIDE DEF p
<1>7. bt.act = "IDLE" => Rested(v)
  BY <1>2, <1>5, ParamsParked
<1> HIDE DEF v, b
<1>8. PICK t \in {r, v} : Ask("CommStat", {t})
  BY <1>1, <1>6
<1>9. bt.act = "IDLE" => \A u \in {t} : Rested(u)
  BY <1>3, <1>7
<1> QED
  BY <1>2, <1>8, <1>9, AskKeeps

LEMMA AnsweredFor ==
  ASSUME IInv, bt.act = "IDLE", NEW who \in Cells \cup {"own"}
  PROVE  Rested(Answer([Idler EXCEPT !.caller = who], "final"))
<1> DEFINE f == Idler
           x == [f EXCEPT !.caller = who]
           v == Answer(x, "final")
<1>1. Good(f) /\ f \in Machine /\ f.act = "IDLE" /\ ~(f.mode = "cmd" /\ f.pin)
  BY IdlerFacts
<1> HIDE DEF f
<1>2. /\ x \in Machine /\ x.act = f.act /\ x.cnt = f.cnt /\ x.par = f.par /\ x.caller = who /\ x.cell = f.cell
      /\ x.mode = f.mode /\ x.pin = f.pin /\ x.conn = f.conn /\ x.off = f.off
      /\ x.source = f.source /\ x.lost = f.lost /\ x.sent = f.sent
  BY <1>1, Fields DEF Machine
<1> HIDE DEF x
<1>3. /\ v \in Machine /\ \A c \in Cells : v.cell[c] = IF c = x.caller THEN "final" ELSE x.cell[c]
      /\ v.act = x.act /\ v.cnt = x.cnt /\ v.par = x.par /\ v.caller = x.caller /\ v.mode = x.mode
      /\ v.pin = x.pin /\ v.conn = x.conn /\ v.off = x.off /\ v.source = x.source
      /\ v.lost = x.lost /\ v.sent = x.sent
  BY <1>2, AnswerFacts DEF CellValues
<1> HIDE DEF v
<1>4. SameButCells(v, f) /\ v.par = f.par /\ v.act = "IDLE"
  BY <1>1, <1>2, <1>3 DEF SameButCells
<1>5. \A c \in Cells : ~WaitsIn(f, c)
  BY <1>1 DEF Good, Steady, Asked
<1>6. \A c \in Cells : ~WaitsIn(v, c)
  BY <1>2, <1>3, <1>5 DEF WaitsIn
<1>7. Good(v)
  BY <1>1, <1>3, <1>4, <1>6, CellsKeep DEF OnlyCallerWaits
<1>8. Rested(v)
  BY <1>1, <1>4, <1>7 DEF Rested, SameButCells
<1> QED
  BY <1>8 DEF v, x, f

LEMMA BtOnKeeps ==
  ASSUME IInv, NEW who \in Cells \cup {"own"}, BtOn(who)
  PROVE  IInv'
<1> DEFINE b == Begin(Idler, who, "RESET")
           a == Answer([Idler EXCEPT !.caller = who], "final")
<1>1. Ask(who, {IF bt.off THEN b ELSE a})
  BY DEF BtOn
<1>2. bt.act = "IDLE" => Rested(a)
  BY AnsweredFor
<1>3. CASE bt.off
  <2>1. Simple(who, "RESET")
    BY <1>1, <1>3 DEF Simple
  <2>2. "RESET" \in Updates
    BY DEF Updates
  <2> QED
    BY <2>1, <2>2, SimpleKeeps
<1>4. CASE ~bt.off
  <2> HIDE DEF a
  <2>1. Ask(who, {a}) /\ (bt.act = "IDLE" => \A u \in {a} : Rested(u))
    BY <1>1, <1>2, <1>4
  <2> QED
    BY <2>1, AskKeeps
<1> QED
  BY <1>3, <1>4

LEMMA StopSearchKeeps ==
  ASSUME IInv, StopSearch
  PROVE  IInv'
<1> "ui" \in Cells /\ "ui" \in Cells \cup {"own"}
  BY DEF Cells
<1>1. CASE bt.act = "IDLE"
  <2>1. bt' = Answer([Idler EXCEPT !.caller = "ui"], "final")
    BY <1>1 DEF StopSearch
  <2>2. Rested(bt')
    BY <1>1, <2>1, AnsweredFor
  <2> QED
    BY <2>2 DEF Rested, IInv
<1>2. CASE bt.act = "SEARCH"
  <2> DEFINE f == Idler
             p == [f.par EXCEPT !.one = 1]
             x == [f EXCEPT !.caller = "ui", !.par = p]
             v == Answer(x, "inprogress")
  <2>1. Good(f) /\ f \in Machine /\ f.act = "SEARCH"
    BY <1>2, IdlerFacts
  <2>2. bt' = v
    <3>1. bt' = Answer([f EXCEPT !.caller = "ui", !.par.one = 1], "inprogress")
      BY <1>2 DEF StopSearch
    <3> HIDE DEF f
    <3>2. [f EXCEPT !.caller = "ui", !.par.one = 1] = x
      BY <2>1 DEF Machine
    <3> HIDE DEF x
    <3> QED
      BY <3>1, <3>2
  <2> HIDE DEF f
  <2>3. p \in Params /\ p.two = f.par.two /\ p.reopen = f.par.reopen /\ p.file = f.par.file /\ p.msg = f.par.msg
    <3>1. f.par \in Params /\ 1 \in 0 .. NumSlots
      BY <2>1, Fields, BluetoothConstants
    <3> QED
      BY <3>1 DEF Params
  <2> HIDE DEF p
  <2>4. /\ x \in Machine /\ x.act = f.act /\ x.cnt = f.cnt /\ x.par = p /\ x.caller = "ui" /\ x.cell = f.cell
        /\ x.mode = f.mode /\ x.pin = f.pin /\ x.conn = f.conn /\ x.off = f.off
        /\ x.source = f.source /\ x.lost = f.lost /\ x.sent = f.sent
    BY <2>1, <2>3, Fields DEF Machine
  <2> HIDE DEF x
  <2>5. /\ v \in Machine /\ \A c \in Cells : v.cell[c] = IF c = x.caller THEN "inprogress" ELSE x.cell[c]
        /\ v.act = x.act /\ v.cnt = x.cnt /\ v.par = x.par /\ v.caller = x.caller /\ v.mode = x.mode
        /\ v.pin = x.pin /\ v.conn = x.conn /\ v.off = x.off /\ v.source = x.source
        /\ v.lost = x.lost /\ v.sent = x.sent
    BY <2>4, AnswerFacts DEF CellValues
  <2> HIDE DEF v
  <2>6. SameButCells(v, f) /\ v.par = p /\ v.act = "SEARCH" /\ v.caller = "ui"
    BY <2>1, <2>4, <2>5 DEF SameButCells
  <2>7. \A c \in Cells : WaitsIn(f, c) => c = "ui"
    BY <2>1 DEF Good, Steady, Asked, OnlyCallerWaits
  <2>8. OnlyCallerWaits(v)
    BY <2>4, <2>5, <2>7 DEF WaitsIn, OnlyCallerWaits
  <2>9. Good(v)
    BY <2>1, <2>3, <2>5, <2>6, <2>8, CellsKeep
  <2>10. Rested(bt')
    BY <2>2, <2>6, <2>9 DEF Rested
  <2> QED
    BY <2>10 DEF Rested, IInv
<1>3. CASE bt.act \notin {"IDLE", "SEARCH"}
  <2> DEFINE f == Idler
             v == Refused(f, "ui", "final")
  <2>1. bt' = v
    BY <1>3 DEF StopSearch
  <2>2. Good(f) /\ f \in Machine /\ f.act # "IDLE"
    BY <1>3, IdlerFacts
  <2> HIDE DEF f
  <2>3. Good(v) /\ SameButCells(v, f)
    BY <2>2, RefusedKeeps, RefusedFacts
  <2> HIDE DEF v
  <2>4. Rested(bt')
    BY <2>1, <2>2, <2>3 DEF Rested, SameButCells
  <2> QED
    BY <2>4 DEF Rested, IInv
<1> QED
  BY <1>1, <1>2, <1>3

LEMMA PinCodeKeeps ==
  ASSUME IInv, PinCode
  PROVE  IInv'
<1> DEFINE f == Idler
           p == [f.par EXCEPT !.pin = TRUE]
           cs == [c \in Cells |-> IF c = f.caller /\ f.cell[c] = "reqpin" THEN "inprogress" ELSE f.cell[c]]
           v == [f EXCEPT !.par = p, !.cell = cs]
<1>1. Rested(f) /\ Good(f) /\ f \in Machine /\ f.caller = bt.caller
  BY IdlerFacts, FreshKeeps DEF IInv, Idler
<1>2. bt' = v
  <2>1. bt' = [f EXCEPT !.par.pin = TRUE,
                        !.cell = [c \in Cells |-> IF c = bt.caller /\ @[c] = "reqpin"
                                                  THEN "inprogress" ELSE @[c]]]
    BY DEF PinCode, Idler
  <2> HIDE DEF f
  <2> QED
    BY <1>1, <2>1 DEF Machine
<1> HIDE DEF f
<1>3. p \in Params /\ p.one = f.par.one /\ p.two = f.par.two /\ p.reopen = f.par.reopen
      /\ p.file = f.par.file /\ p.msg = f.par.msg
  BY <1>1, Fields DEF Params
<1>4. cs \in [Cells -> CellValues]
  BY <1>1, Fields DEF CellValues
<1> HIDE DEF p
<1>5. /\ v \in Machine /\ v.par = p /\ v.cell = cs /\ v.caller = f.caller /\ SameButCells(v, f)
  BY <1>1, <1>3, <1>4, Fields DEF Machine, SameButCells
<1> HIDE DEF v
<1>6. \A c \in Cells : WaitsIn(v, c) => WaitsIn(f, c)
  BY <1>5 DEF WaitsIn
<1> HIDE DEF cs
<1>7. OnlyCallerWaits(v) /\ (v.act = "SEARCH" => v.caller = "ui") /\ (v.act = "PINREQ" => v.caller = "own")
  BY <1>1, <1>5, <1>6 DEF Good, Steady, Asked, OnlyCallerWaits, SameButCells
<1>8. Good(v)
  BY <1>1, <1>3, <1>5, <1>6, <1>7, CellsKeep
<1>9. Rested(bt')
  BY <1>1, <1>2, <1>5, <1>8 DEF Rested, SameButCells
<1> QED
  BY <1>9 DEF Rested, IInv

LEMMA UiKeeps ==
  ASSUME IInv, UiAsks
  PROVE  IInv'
<1> "ui" \in Cells \cup {"own"}
  BY DEF Cells
<1>1. CASE \E u \in {"DISCONNECTALL", "SEARCH", "REMOVEDEVICE", "VISIBILITY", "OFF"} : Simple("ui", u)
  BY <1>1, SimpleKeeps DEF Updates
<1> QED
  BY <1>1, SendFileKeeps, ConnectToKeeps, DisconnectFromKeeps, BtOnKeeps, StopSearchKeeps DEF UiAsks

LEMMA ProgramKeeps ==
  ASSUME IInv, ProgramAsks \/ ProgramEnds \/ PcAsks
  PROVE  IInv'
<1> "own" \in Cells \cup {"own"} /\ "CommStatReset" \in Cells \cup {"own"}
  BY DEF Cells
<1>1. CASE Simple("own", "OFF") \/ PcAsks \/ ProgramEnds
  <2>1. {"OFF", "BRICKNAME", "FACTORYRESET", "REQCMDMODE"} \subseteq Updates
    BY DEF Updates
  <2>2. PICK who \in {"own", "CommStatReset"}, u \in {"OFF", "BRICKNAME", "FACTORYRESET", "REQCMDMODE"} : Simple(who, u)
    BY <1>1 DEF PcAsks, ProgramEnds
  <2> QED
    BY <2>1, <2>2, SimpleKeeps
<1> QED
  BY <1>1, SendDataOnKeeps, OpenStreamOfKeeps, ConnectToKeeps, DisconnectFromKeeps, BtOnKeeps DEF ProgramAsks

-----------------------------------------------------------------------------
(* The invariant and what follows from it.                                 *)

LEMMA InitKeeps ==
  ASSUME Init
  PROVE  IInv
<1> DEFINE v == [act |-> "RESET", cnt |-> AllZero, par |-> NoParams,
                 caller |-> "own", cell |-> [c \in Cells |-> "final"],
                 mode |-> "cmd", pin |-> FALSE,
                 conn |-> [c \in Slots |-> Closed], off |-> FALSE,
                 source |-> "closed", lost |-> None, sent |-> None]
<1>1. bt = v
  BY DEF Init
<1>2. v \in Machine
  <2>1. AllZero \in [Counters -> 0 .. 10] /\ NoParams \in Params
    BY NoParamsType DEF AllZero
  <2>2. [c \in Cells |-> "final"] \in [Cells -> CellValues] /\ [c \in Slots |-> Closed] \in [Slots -> Connection]
    BY DEF CellValues, Closed, Connection
  <2> QED
    BY <2>1, <2>2 DEF Machine, Updates
<1>3. v.cnt["update"] = 0 /\ AtRest(v)
  BY DEF AllZero, Counters, AtRest
<1>4. v.act = "RESET" /\ v.pin = FALSE /\ v.lost = None /\ v.mode = "cmd" /\ v.source = "closed" /\ v.cnt = AllZero
  OBVIOUS
<1>5. OnlyCallerWaits(v) /\ Radio(v)
  <2>1. \A c \in Cells : ~WaitsIn(v, c)
    BY DEF WaitsIn
  <2>2. \A c \in Slots : ~v.conn[c].stream
    BY DEF Closed
  <2>3. None \notin {<<"command", "data">>, <<"command", "off">>}
    <3>1. <<"command", "data">> \in {"command", "data"} \X {"cmd", "data", "off"}
      OBVIOUS
    <3>2. <<"command", "off">> \in {"command", "data"} \X {"cmd", "data", "off"}
      OBVIOUS
    <3> QED
      BY <3>1, <3>2, BluetoothConstants
  <2>4. v.sent = None
    OBVIOUS
  <2> HIDE DEF v
  <2>5. OnlyCallerWaits(v)
    BY <2>1 DEF OnlyCallerWaits
  <2>6. Radio(v)
    BY <1>4, <2>2, <2>3, <2>4 DEF Radio
  <2> QED
    BY <2>5, <2>6
<1> HIDE DEF v
<1>6. Good(v)
  BY <1>2, <1>4, <1>5, FreshResetKeeps
<1> QED
  BY <1>1, <1>4, <1>6 DEF IInv

LEMMA NextKeeps ==
  ASSUME IInv, [Next]_vars
  PROVE  IInv'
<1>1. CASE Next
  <2>1. CASE Round
    BY <2>1, RoundKeeps
  <2>2. CASE UiAsks
    BY <2>2, UiKeeps
  <2>3. CASE ProgramAsks \/ ProgramEnds \/ PcAsks
    BY <2>3, ProgramKeeps
  <2>4. CASE PinCode
    BY <2>4, PinCodeKeeps
  <2> QED
    BY <1>1, <2>1, <2>2, <2>3, <2>4 DEF Next
<1>2. CASE UNCHANGED vars
  BY <1>2 DEF vars, IInv
<1> QED
  BY <1>1, <1>2

THEOREM InductiveInvariant == Spec => []IInv
<1>1. Init => IInv
  BY InitKeeps
<1>2. IInv /\ [Next]_vars => IInv'
  BY NextKeeps
<1> QED
  BY <1>1, <1>2, PTL DEF Spec

(* Every field of the machine stays within its range, the counters of the   *)
(* requests among them: no state of a request runs past its last one.       *)
THEOREM TypeCorrect == Spec => []TypeOK
<1>1. IInv => TypeOK
  BY DEF IInv, Good, TypeOK
<1> QED
  BY <1>1, InductiveInvariant, PTL

(* A cell that waits belongs to the request that the machine works on,      *)
(* whatever times out, is refused or is reset in between.                   *)
THEOREM AnswersAlwaysReach == Spec => []AnswersReach
<1>1. IInv => AnswersReach
  BY DEF IInv, Good, Steady, Asked, OnlyCallerWaits, WaitsIn, Waits, AnswersReach
<1> QED
  BY <1>1, InductiveInvariant, PTL

(* A small machine is at rest outside of the states that call it.           *)
THEOREM CountersAreAtRest == Spec => []CountersAtRest
<1>1. IInv => CountersAtRest
  <2> SUFFICES ASSUME IInv, NEW c \in Counters \ {"update"}, bt.cnt[c] # 0
               PROVE  \/ <<bt.act, State(bt)>> \in Calls(c)
                      \/ c = "cmd" /\ bt.cnt["stream"] = 1
                      \/ c = "close" /\ bt.cnt["stream"] = 2
    BY DEF CountersAtRest
  <2>1. Fits(bt, State(bt))
    BY DEF IInv, Good
  <2>2. CASE c = "stream"
    BY <2>1, <2>2 DEF Fits, Opens, Calls
  <2>3. CASE c = "cmd"
    <3>1. CASE bt.cnt["stream"] = 1
      BY <2>3, <3>1
    <3>2. CASE Switches(bt.act, State(bt))
      BY <2>3, <3>2 DEF Switches, FirstSwitches, Calls
    <3> QED
      BY <2>1, <2>3, <3>1, <3>2 DEF Fits
  <2>4. CASE c = "close"
    BY <2>1, <2>4 DEF Fits, Closes, Calls
  <2>5. CASE c = "disc"
    BY <2>1, <2>5 DEF Fits, Disconnects, Calls
  <2>6. CASE c = "reset"
    BY <2>1, <2>6 DEF Fits, Resets, Calls
  <2> QED
    BY <2>2, <2>3, <2>4, <2>5, <2>6 DEF Counters
<1> QED
  BY <1>1, InductiveInvariant, PTL

(* No command is ever sent to a chip that passes a stream or is off.        *)
THEOREM CommandsAlwaysInCmdMode == Spec => []CommandsInCmdMode
<1>1. IInv => CommandsInCmdMode
  BY DEF IInv, Good, Steady, Radio, CommandsInCmdMode
<1> QED
  BY <1>1, InductiveInvariant, PTL

(* At most one connection is marked as the stream; it is one the brick has,  *)
(* and the chip passes its data or is about to report its loss.             *)
THEOREM AlwaysOneStream == Spec => []OneStream
<1>1. IInv => OneStream
  BY DEF IInv, Good, Steady, Radio, OneStream
<1> QED
  BY <1>1, InductiveInvariant, PTL

(* The source file of a transfer is open in the states of SENDFILE up to    *)
(* the one that closes it, and in no other state of the machine.            *)
THEOREM SourceAlwaysHeld == Spec => []SourceHeld
<1>1. IInv => SourceHeld
  BY DEF IInv, Good, Fits, SourceHeld
<1> QED
  BY <1>1, InductiveInvariant, PTL
====
