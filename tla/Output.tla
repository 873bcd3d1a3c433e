------------------------------- MODULE Output -------------------------------
(***************************************************************************)
(* The motors: c_output.c takes the orders that programs, remote commands  *)
(* and the user interface leave in the IO map (Flags says which fields are *)
(* new), and c_output_reg.c drives every motor through its run states once *)
(* in a round of the scheduler.                                            *)
(*                                                                         *)
(* Speeds, tacho counts and limits are small integers.  How fast a ramp    *)
(* changes the target speed, and the power that the PID and the            *)
(* synchronisation compute, are left open: a ramp steps or does not step,  *)
(* and regulation yields any of Powers.  The block and the rotation counts *)
(* have no influence on a run state and are left out.                      *)
(***************************************************************************)
EXTENDS Integers, FiniteSets

CONSTANTS
    NumOutputs,   \* NO_OF_OUTPUTS
    MinPower,     \* MIN_MOVEMENT_POWER
    SpeedMax,     \* the largest speed an SBYTE holds
    MaxCount,     \* MAX_COUNT_TO_RUN
    CountSpan,    \* bound: the tacho counts of the model are in -CountSpan .. CountSpan
    Powers,       \* powers that regulation may compute
    Orders,       \* orders, as records of the fields that RC_SET_OUT_STATE writes
    Writes,       \* sets of fields that one OP_SETOUT of a program writes
    Ports,        \* groups of motors that one order is for
    MaxOrders     \* bound: orders and detachments of a behaviour

Motors == 0 .. NumOutputs - 1
RunStates == {"idle", "rampup", "running", "rampdown", "hold"}
RegModes == {"regulated", "synchrone", "position"}
UpdateFlags == {"mode", "speed", "limit", "reset", "pending"}
SBytes == -SpeedMax - 1 .. SpeedMax

ASSUME OutputConstants ==
    /\ NumOutputs \in 1 .. 3
    /\ SpeedMax \in Nat /\ MinPower \in 1 .. SpeedMax
    /\ MaxCount \in Nat
    /\ CountSpan \in Nat
    /\ Powers \subseteq SBytes
    /\ Ports \subseteq SUBSET Motors
    /\ MaxOrders \in Nat

VARIABLES
    md,      \* MotorData: what the module knows of each motor
    out,     \* IOMapOutput.Outputs
    asked    \* orders given so far (bound)

vars == <<md, out, asked>>

MotorData == [set : SBytes, target : SBytes, actual : SBytes, turn : {-1, 0, 1},
              state : RunStates, reg : SUBSET RegModes, count : Int, toRun : Int,
              forever : BOOLEAN, atLimit : {"idle", "hold"}, rampDown : BOOLEAN,
              brake : BOOLEAN, valid : BOOLEAN, device : BOOLEAN]

OutputMap == [flags : SUBSET UpdateFlags, on : BOOLEAN, brake : BOOLEAN, regulated : BOOLEAN,
              speed : SBytes, turn : {-1, 0, 1}, reg : SUBSET RegModes, state : RunStates,
              limit : Nat, options : SUBSET {"hold", "rampdown"}]

TypeOK ==
    /\ md \in [Motors -> MotorData]
    /\ out \in [Motors -> OutputMap]
    /\ asked \in 0 .. MaxOrders

(***************************************************************************)
(* Init: cOutputInit and dOutputInit, with a motor in every port.          *)
(***************************************************************************)
dOutputInit ==
    [set |-> 0, target |-> 0, actual |-> 0, turn |-> 0, state |-> "idle", reg |-> {},
     count |-> 0, toRun |-> 0, forever |-> TRUE, atLimit |-> "idle", rampDown |-> FALSE,
     brake |-> FALSE, valid |-> FALSE, device |-> TRUE]

cOutputInit ==
    [flags |-> {}, on |-> FALSE, brake |-> FALSE, regulated |-> FALSE, speed |-> 0, turn |-> 0,
     reg |-> {}, state |-> "idle", limit |-> 0, options |-> {}]

\* What is left of the fields o when some of them, or all, are written.
Written(fields, o) == [f \in DOMAIN o |-> IF f \in DOMAIN fields THEN fields[f] ELSE o[f]]

ASSUME OrdersTyped == \A w \in Orders \cup Writes : Written(w, cOutputInit) \in OutputMap

Init ==
    /\ md = [m \in Motors |-> dOutputInit]
    /\ out = [m \in Motors |-> cOutputInit]
    /\ asked = 0

(***************************************************************************)
(* Helpers.                                                                *)
(***************************************************************************)
\* A sum as an SBYTE keeps it.
SByte(x) == IF x > SpeedMax THEN x - 2 * (SpeedMax + 1)
            ELSE IF x < -SpeedMax - 1 THEN x + 2 * (SpeedMax + 1) ELSE x

Abs(x) == IF x < 0 THEN -x ELSE x

\* One step from x towards 0.
TowardsZero(x) == IF x > 0 THEN x - 1 ELSE IF x < 0 THEN x + 1 ELSE 0

\* The part of a limit at which a motor begins to slow down: (SLONG)(limit * 0.80).
FourFifths(x) == IF x >= 0 THEN (4 * x) \div 5 ELSE -((4 * (-x)) \div 5)

Synchrone(d, m) == "synchrone" \in d[m].reg

\* The motor that m is synchronised with: the first of the others in synchronisation; a set of
\* one motor, or none.
SyncPartner(d, m) ==
    {k \in Motors \ {m} : /\ Synchrone(d, k)
                          /\ \A j \in Motors \ {m} : Synchrone(d, j) => k <= j}

\* The motor that dOutputMotorSyncStatus pairs with m for regulation is one behind it.
SyncStatus(d, m) ==
    {k \in Motors : /\ k > m
                    /\ Synchrone(d, k)
                    /\ \A j \in Motors : j > m /\ Synchrone(d, j) => k <= j}

RegModeAtLimit(r) == IF r.atLimit = "hold" THEN {"regulated"} ELSE {}

(***************************************************************************)
(* Orders to one motor.  d is the array MotorData.                         *)
(***************************************************************************)
\* An order that changes nothing is ignored, unless it is to go idle.  A ramp towards a speed
\* that the motor has passed already is a run at the old speed; a run at speed 0 is a hold.
SetSpeed(d, m, state, speed, turn) ==
    LET r == d[m]
        fresh == IF r.target = 0 THEN [r EXCEPT !.valid = FALSE] ELSE r
        new == [fresh EXCEPT !.set = speed, !.turn = turn, !.state = state]
        passed == \/ /\ state = "rampup"
                     /\ r.set # 0
                     /\ IF speed > 0 THEN r.set >= speed ELSE r.set <= speed
                  \/ /\ state = "rampdown"
                     /\ IF r.target >= 0 THEN r.set <= speed ELSE r.set >= speed
        same == /\ r.set = speed
                /\ r.state = state
                /\ r.turn = turn
                /\ state # "idle"
    IN [d EXCEPT ![m] =
          CASE same -> r
            [] ~same /\ passed -> [fresh EXCEPT !.state = "running"]
            [] ~same /\ state = "idle" -> [fresh EXCEPT !.state = "idle", !.reg = {}]
            [] ~same /\ state = "running" ->
                 [new EXCEPT !.target = speed, !.state = IF speed = 0 THEN "hold" ELSE "running"]
            [] ~same /\ ~passed /\ state \in {"rampup", "rampdown"} -> new
            [] ~same /\ state = "hold" -> [fresh EXCEPT !.state = "hold"]]

\* The position is forgotten, and that of a synchronised partner with it.
ResetTachoLimit(d, m) ==
    LET both == {m} \cup (IF Synchrone(d, m) THEN SyncPartner(d, m) ELSE {})
        zero == [k \in Motors |-> IF k \in both THEN [d[k] EXCEPT !.count = 0, !.toRun = 0] ELSE d[k]]
    IN [zero EXCEPT ![m].forever = FALSE]

\* A limit is counted from the last one; a limit of 0 is none.
SetTachoLimit(d, m, limit, options) ==
    LET r == d[m]
        ahead == IF r.set = 0 THEN r.target > 0 ELSE r.set > 0
    IN [d EXCEPT ![m] =
          CASE "position" \in r.reg -> [r EXCEPT !.forever = FALSE, !.toRun = limit]
            [] "position" \notin r.reg /\ limit = 0 ->
                 [r EXCEPT !.forever = TRUE, !.atLimit = "idle", !.rampDown = FALSE]
            [] "position" \notin r.reg /\ limit # 0 ->
                 [r EXCEPT !.forever = FALSE,
                           !.atLimit = IF "hold" \in options THEN "hold" ELSE "idle",
                           !.rampDown = "rampdown" \in options,
                           !.toRun = IF ahead THEN @ + limit ELSE @ - limit]]

\* Regulation is by the mode's method, or none.
EnableRegulation(d, m, o) == [d EXCEPT ![m].reg = IF o.regulated THEN o.reg ELSE {}]

\* UPDATE_MODE: a mode without MOTORON stops the motor.
UpdateMode(d, m, o) ==
    LET braked == [d EXCEPT ![m].brake = o.brake]
    IN IF o.on
       THEN EnableRegulation(braked, m, o)
       ELSE [SetSpeed(braked, m, "idle", 0, 0) EXCEPT ![m].reg = {}]

\* A fault: the count is reset after the limit has been set.
UpdateCountLast(d, m, o) ==
    LET d1 == IF "speed" \in o.flags /\ o.on THEN SetSpeed(d, m, o.state, o.speed, o.turn) ELSE d
        d2 == IF "mode" \in o.flags THEN UpdateMode(d1, m, o) ELSE d1
        d3 == IF "limit" \in o.flags THEN SetTachoLimit(d2, m, o.limit, o.options) ELSE d2
    IN IF "reset" \in o.flags THEN ResetTachoLimit(d3, m) ELSE d3

\* The orders that Flags names, in the order in which cOutputCtrl takes them.
Update(d, m, o) ==
    LET d1 == IF "reset" \in o.flags THEN ResetTachoLimit(d, m) ELSE d
        d2 == IF "speed" \in o.flags /\ o.on THEN SetSpeed(d1, m, o.state, o.speed, o.turn) ELSE d1
        d3 == IF "mode" \in o.flags THEN UpdateMode(d2, m, o) ELSE d2
    IN IF "limit" \in o.flags THEN SetTachoLimit(d3, m, o.limit, o.options) ELSE d3

(***************************************************************************)
(* Limits.                                                                 *)
(***************************************************************************)
Limit(r) == IF r.rampDown THEN FourFifths(r.toRun) ELSE r.toRun
StateAtLimit(r) == IF r.rampDown THEN "rampdown" ELSE r.atLimit

\* A fault: the limit stops the motor that is asked and not its partner.
SyncTachoLimitSingly(d, m) ==
    LET there == IF d[m].set > 0 THEN d[m].count >= Limit(d[m]) ELSE d[m].count <= Limit(d[m])
    IN IF SyncPartner(d, m) # {} /\ there THEN [d EXCEPT ![m].state = StateAtLimit(d[m])] ELSE d

\* Both of a synchronised pair change their state when one of them is there; when they turn, one
\* of them leads, and the other takes over its count and its limit.
SyncTachoLimitControl(d, m) ==
    LET both(k) == [d EXCEPT ![m].state = StateAtLimit(d[m]), ![k].state = StateAtLimit(d[k])]
        straight(k) ==
            IF \/ d[m].set > 0 /\ (d[m].count >= Limit(d[m]) \/ d[k].count >= Limit(d[k]))
               \/ d[m].set < 0 /\ (d[m].count <= Limit(d[m]) \/ d[k].count <= Limit(d[k]))
            THEN both(k) ELSE d
        led(leader, other, k, there) ==
            IF there
            THEN [both(k) EXCEPT ![other].count = d[leader].count, ![other].toRun = Limit(d[leader])]
            ELSE d
        turning(k) ==
            LET forward == IF d[m].turn > 0 THEN d[k].target >= 0 ELSE d[m].target >= 0
                leader == IF (d[m].turn > 0) = forward THEN k ELSE m
                there == IF forward THEN d[leader].count >= Limit(d[leader])
                                    ELSE d[leader].count <= Limit(d[leader])
            IN led(leader, IF leader = m THEN k ELSE m, k, there)
        alone == SyncPartner(d, m) = {}
        partner == CHOOSE k \in SyncPartner(d, m) : TRUE
    IN IF alone THEN d ELSE IF d[m].turn = 0 THEN straight(partner) ELSE turning(partner)

\* The end of a ramp down, for both motors of a synchronised pair.
MotorReachedTachoLimit(d, m) ==
    LET stopped(r) == [r EXCEPT !.set = 0, !.target = 0, !.actual = 0,
                                !.state = r.atLimit, !.reg = RegModeAtLimit(r)]
        single(r) == [r EXCEPT !.target = IF r.set = 0 THEN 0 ELSE @,
                               !.actual = IF r.set = 0 THEN 0 ELSE @,
                               !.state = r.atLimit, !.reg = RegModeAtLimit(r)]
    IN IF Synchrone(d, m)
       THEN [k \in Motors |-> IF k \in {m} \cup SyncPartner(d, m) THEN stopped(d[k]) ELSE d[k]]
       ELSE [d EXCEPT ![m] = single(@)]

\* Without regulation the power is the target speed.
Unregulated(d, m) == IF d[m].reg = {} THEN [d EXCEPT ![m].actual = d[m].target] ELSE d

\* A fault: the motor stops only when it has passed its limit.
TachoLimitPassed(d, m) ==
    LET r == d[m]
        there == \/ r.set > 0 /\ r.count > Limit(r)
                 \/ r.set < 0 /\ r.count < Limit(r)
    IN IF "position" \notin r.reg /\ ~r.forever /\ ~Synchrone(d, m)
       THEN IF there THEN [d EXCEPT ![m].state = r.atLimit, ![m].reg = RegModeAtLimit(r)]
                     ELSE Unregulated(d, m)
       ELSE d

\* A running motor: at its limit it stops, holds, or begins to slow down.
TachoLimitControl(d, m) ==
    LET r == d[m]
        there == \/ r.set > 0 /\ r.count >= Limit(r)
                 \/ r.set < 0 /\ r.count <= Limit(r)
        limited == IF ~there THEN d
                   ELSE IF r.rampDown
                   THEN [d EXCEPT ![m].state = "rampdown", ![m].set = 0]
                   ELSE [d EXCEPT ![m].state = r.atLimit, ![m].reg = RegModeAtLimit(r)]
        wrapped == IF r.count > MaxCount THEN 0 ELSE r.count
        free == [d EXCEPT ![m].count = wrapped,
                          ![m].toRun = IF r.target # 0 THEN wrapped ELSE @]
    IN CASE "position" \in r.reg -> d
         [] "position" \notin r.reg /\ r.forever -> Unregulated(free, m)
         [] "position" \notin r.reg /\ ~r.forever /\ Synchrone(d, m) -> SyncTachoLimitControl(d, m)
         [] "position" \notin r.reg /\ ~r.forever /\ ~Synchrone(d, m) -> Unregulated(limited, m)

(***************************************************************************)
(* Ramps, as sets of outcomes: in one round the speed makes a step or not. *)
(***************************************************************************)
RampUp(d, m) ==
    LET r == d[m]
        up == IF r.set > 0 THEN 1 ELSE -1
        targets == IF r.target = 0 THEN {up * MinPower} ELSE {r.target, SByte(r.target + up)}
        there == IF r.set > 0 THEN r.count >= r.toRun ELSE r.count <= r.toRun
        clamped(t) == IF there \/ (IF r.set > 0 THEN t > r.set ELSE t < r.set) THEN r.set ELSE t
    IN {Unregulated([d EXCEPT ![m].target = clamped(t),
                              ![m].state = IF there THEN r.atLimit ELSE @], m) : t \in targets}

\* The partner of a slowing motor that turns is slowed too.
RampDownSynch(d, m) ==
    LET r == d[m]
        slower(k) == IF r.target >= 0
                     THEN (IF k.actual < 0 THEN SByte(k.target - 1) ELSE k.target)
                     ELSE (IF k.actual > 0 THEN SByte(k.target + 1) ELSE k.target)
    IN IF Synchrone(d, m) /\ r.turn # 0
       THEN [k \in Motors |-> IF k \in SyncPartner(d, m) THEN [d[k] EXCEPT !.target = slower(d[k])]
                              ELSE d[k]]
       ELSE d

RampDownEnd(d, m) ==
    LET r == d[m]
        led == SyncTachoLimitControl(d, m)
    IN IF Synchrone(d, m) /\ r.turn # 0
       THEN IF led[m].state = led[m].atLimit THEN MotorReachedTachoLimit(led, m) ELSE led
       ELSE IF (IF r.target > 0 THEN r.count >= r.toRun ELSE r.count <= r.toRun)
       THEN MotorReachedTachoLimit(d, m) ELSE d

\* A motor that has slowed too far is helped along: its target grows again.
RampDown(d, m) ==
    LET r == d[m]
        step == IF r.target > 0
                THEN (IF r.target - 1 < MinPower THEN MinPower ELSE r.target - 1)
                ELSE (IF r.target + 1 > -MinPower THEN -MinPower ELSE r.target + 1)
        help == IF r.target > 0 THEN SByte(r.target + 1) ELSE SByte(r.target - 1)
        paced == {d, RampDownSynch([d EXCEPT ![m].target = step], m)}
                 \cup (IF "regulated" \in r.reg THEN {} ELSE {[d EXCEPT ![m].target = help]})
    IN {Unregulated(RampDownEnd(x, m), m) : x \in paced}

(***************************************************************************)
(* One motor's part of dOutputCtrl, as the set of its outcomes.  The tests *)
(* of the run state follow one another: a motor whose state a test changes *)
(* may go through the next one in the same round.                          *)
(***************************************************************************)
\* The counts that the tacho may have moved: none for a missing motor and the first reading.
Deltas(r) ==
    IF r.device /\ r.valid
    THEN {x \in {-1, 0, 1} : r.count + x \in -CountSpan .. CountSpan}
    ELSE {0}

Counted(d, m) ==
    {[d EXCEPT ![m].count = @ + x, ![m].valid = d[m].device] : x \in Deltas(d[m])}

\* A fault: the power of an idle motor is left to the target speed, which only runs set.
IdleControlTargets(d, m) ==
    [d EXCEPT ![m].brake = FALSE, ![m].target = TowardsZero(@), ![m].set = TowardsZero(@)]

IdleControl(d, m) ==
    [d EXCEPT ![m].brake = FALSE,
              ![m].actual = TowardsZero(@), ![m].target = TowardsZero(@), ![m].set = TowardsZero(@)]

Hold(d, m) ==
    [d EXCEPT ![m].set = 0, ![m].actual = 0, ![m].target = 0, ![m].state = "running"]

\* The power that dOutputPIDRegulation computes from the error of a position.
PIDRegulation == Powers

PositionRegulation(d, m) ==
    UNION {{[d EXCEPT ![m].actual = p, ![m].target = t] : p \in PIDRegulation} : t \in Powers}

SpeedRegulation(d, m) == {[d EXCEPT ![m].actual = p] : p \in PIDRegulation}

\* Motors that turn get no more power than their target speed.
SyncRegulation(d, one, two) ==
    LET bounded(r) == IF d[one].turn = 0 THEN Powers ELSE {p \in Powers : Abs(p) <= Abs(r.target)}
        powered(p) == {[d EXCEPT ![one].actual = p, ![two].actual = q] : q \in bounded(d[two])}
    IN UNION {powered(p) : p \in bounded(d[one])}

\* Regulation, when its time has come, sets the power.
Regulated(d, m) ==
    CASE "position" \in d[m].reg -> PositionRegulation(d, m)
      [] "position" \notin d[m].reg /\ "regulated" \in d[m].reg -> SpeedRegulation(d, m)
      [] d[m].reg = {"synchrone"} -> UNION {SyncRegulation(d, m, k) : k \in SyncStatus(d, m)}
      [] d[m].reg = {} -> {}

MotorCtrl(d, m) ==
    LET up == UNION {IF x[m].state = "rampup" THEN RampUp(x, m) ELSE {x} : x \in Counted(d, m)}
        down == UNION {IF x[m].state = "rampdown" THEN RampDown(x, m) ELSE {x} : x \in up}
        run == {IF x[m].state = "running" THEN TachoLimitControl(x, m) ELSE x : x \in down}
        idle == {IF x[m].state = "idle" THEN IdleControl(x, m) ELSE x : x \in run}
        held == {IF x[m].state = "hold" THEN Hold(x, m) ELSE x : x \in idle}
    IN held \cup UNION {Regulated(x, m) : x \in held}

(***************************************************************************)
(* The actions.                                                            *)
(***************************************************************************)
\* A round: first the orders of all motors, then their control.
cOutputCtrl ==
    LET updated[n \in 0 .. NumOutputs] ==
            IF n = 0 THEN md ELSE Update(updated[n - 1], n - 1, out[n - 1])
        outcomes[n \in 0 .. NumOutputs] ==
            IF n = 0 THEN {updated[NumOutputs]}
            ELSE UNION {MotorCtrl(d, n - 1) : d \in outcomes[n - 1]}
    IN /\ md' \in outcomes[NumOutputs]
       /\ out' = [m \in Motors |->
                    [out[m] EXCEPT !.flags = @ \cap {"pending"},
                                   !.state = IF "pending" \in out[m].flags THEN @ ELSE md'[m].state]]
       /\ UNCHANGED asked

\* RC_SET_OUT_STATE: a remote command gives a whole order to some motors.
SetOutState(ports, order) ==
    /\ asked < MaxOrders
    /\ asked' = asked + 1
    /\ out' = [m \in Motors |->
                 IF m \in ports
                 THEN Written(order, [out[m] EXCEPT !.flags = @ \cup {"mode", "speed", "limit"}])
                 ELSE out[m]]
    /\ UNCHANGED md

\* OP_SETOUT: a program writes any fields, Flags among them, over what was there.
ExecuteSetOut(ports, fields) ==
    /\ asked < MaxOrders
    /\ asked' = asked + 1
    /\ out' = [m \in Motors |-> IF m \in ports THEN Written(fields, out[m]) ELSE out[m]]
    /\ UNCHANGED md

\* RC_UPDATE_RESET_COUNT.
UpdateResetCount(m) ==
    /\ asked < MaxOrders
    /\ asked' = asked + 1
    /\ out' = [out EXCEPT ![m].flags = @ \cup {"reset"}]
    /\ UNCHANGED md

\* The menus of the user interface reset a motor whose position they show.
UiResetPort(m) ==
    /\ asked < MaxOrders
    /\ asked' = asked + 1
    /\ out' = [out EXCEPT ![m].on = FALSE, ![m].brake = FALSE,
                          ![m].flags = @ \cup {"mode", "speed", "reset"}]
    /\ UNCHANGED md

\* cCmdResetDevices, at the start and at the end of a program.
ResetDevices ==
    /\ out' = [m \in Motors |->
                 [out[m] EXCEPT !.on = FALSE, !.brake = FALSE, !.regulated = FALSE, !.reg = {},
                                !.state = "idle", !.speed = 0, !.limit = 0, !.turn = 0,
                                !.flags = {"mode", "speed", "limit", "reset"}]]
    /\ UNCHANGED <<md, asked>>

\* A motor is plugged in: only where there is none.
Attach(m) ==
    /\ ~md[m].device
    /\ md' = [md EXCEPT ![m].device = TRUE, ![m].valid = FALSE]
    /\ UNCHANGED <<out, asked>>

Detach(m) ==
    /\ md[m].device
    /\ asked < MaxOrders
    /\ asked' = asked + 1
    /\ md' = [md EXCEPT ![m].device = FALSE]
    /\ UNCHANGED out

Next ==
    \/ cOutputCtrl
    \/ \E ports \in Ports :
          \/ \E order \in Orders : SetOutState(ports, order)
          \/ \E fields \in Writes : ExecuteSetOut(ports, fields)
    \/ \E m \in Motors : UpdateResetCount(m) \/ UiResetPort(m) \/ Attach(m) \/ Detach(m)
    \/ ResetDevices

Spec == Init /\ [][Next]_vars

(***************************************************************************)
(* Properties.                                                             *)
(***************************************************************************)
Underway(r) == r.state = "running" /\ r.set # 0

\* A motor that runs alone to a limit at which it stops is never found running, or still gaining
\* speed, at or past the limit once the round's control is over (c_output_reg.c:775-852), whatever
\* orders, resets and former partners have done to its count and its limit.
NoOverrun ==
    \A m \in Motors : LET r == md[m] IN
        /\ r.state \in {"running", "rampup"}
        /\ ~r.forever
        /\ ~r.rampDown
        /\ r.reg \cap {"synchrone", "position"} = {}
        => /\ r.set > 0 => r.count < r.toRun
           /\ r.set < 0 => r.count > r.toRun

\* Two motors under way, the only ones in synchronisation, go on together or leave the run together:
\* the limit of either ends the run of both in one round (c_output_reg.c:1251-1365), also when only
\* one has a limit, an option at the limit, or a turn.
PairStopsTogether ==
    [][\A a, b \in Motors :
          /\ a # b
          /\ {k \in Motors : Synchrone(md, k)} = {a, b}
          /\ Underway(md[a])
          /\ Underway(md[b])
          /\ \A m \in Motors : out[m].flags = {}
          => (Underway(md'[a]) <=> Underway(md'[b]))]_vars

\* The reset of all devices at a program's end (c_cmd.c:2345-2356) is complete with the next round
\* of the module, when no order comes before it: every motor is idle, coasts without regulation and
\* limit, and its power has not grown, whatever run, ramp, hold or synchronisation the program left
\* it in.
EndOfProgramStops ==
    [][/\ \A m \in Motors : out[m].flags = {"mode", "speed", "limit", "reset"} /\ ~out[m].on
       /\ \A m \in Motors : out[m].limit = 0 /\ out'[m].flags = {}
       /\ asked' = asked
       => \A m \in Motors :
             /\ md'[m].state = "idle"
             /\ md'[m].reg = {}
             /\ md'[m].forever
             /\ ~md'[m].brake
             /\ Abs(md'[m].actual) <= Abs(md[m].actual)]_vars

\* An idle motor without regulation loses power in every round of control, whatever ends a run,
\* and until an order makes it move (c_output_reg.c:854).
IdleRunsDown ==
    [][\A m \in Motors :
          /\ md[m].state = "idle"
          /\ md[m].reg = {}
          /\ out[m].flags = {}
          /\ \E k \in Motors : md'[k] # md[k] /\ md'[k].device = md[k].device
          => /\ md'[m].state = "idle"
             /\ md'[m].actual = TowardsZero(md[m].actual)]_vars

=============================================================================
