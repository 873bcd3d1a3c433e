----------------------------- MODULE OutputProofs -----------------------------
(***************************************************************************)
(* What TLAPS proves about Output.                                         *)
(***************************************************************************)
EXTENDS Output, TLAPS

AllMotorData == [Motors -> MotorData]

\* Only m changes.
LEMMA Put ==
  ASSUME NEW d \in AllMotorData, NEW m \in Motors, NEW r \in MotorData
  PROVE  /\ [d EXCEPT ![m] = r] \in AllMotorData
         /\ [d EXCEPT ![m] = r][m] = r
         /\ \A k \in Motors : k # m => [d EXCEPT ![m] = r][k] = d[k]
BY DEF AllMotorData

LEMMA SetSpeedType ==
  ASSUME NEW d \in AllMotorData, NEW m \in Motors, NEW state \in RunStates,
         NEW speed \in SBytes, NEW turn \in {-1, 0, 1}
  PROVE  \E s \in MotorData : SetSpeed(d, m, state, speed, turn) = [d EXCEPT ![m] = s]
<1> DEFINE r == d[m]
           fresh == IF r.target = 0 THEN [r EXCEPT !.valid = FALSE] ELSE r
           new == [fresh EXCEPT !.set = speed, !.turn = turn, !.state = state]
           passed == \/ /\ state = "rampup"
                        /\ r.set # 0
                        /\ IF speed > 0 THEN r.set >= speed ELSE r.set <= speed
                     \/ /\ state = "rampdown"
                        /\ IF r.target >= 0 THEN r.set <= speed ELSE r.set >= speed
           same == /\ r.set = speed
                   /\ r.state = state
                   /\ r.turn = turn
                   /\ state # "idle"
           result == CASE same -> r
            [] ~same /\ passed -> [fresh EXCEPT !.state = "running"]
            [] ~same /\ state = "idle" -> [fresh EXCEPT !.state = "idle", !.reg = {}]
            [] ~same /\ state = "running" ->
                 [new EXCEPT !.target = speed, !.state = IF speed = 0 THEN "hold" ELSE "running"]
            [] ~same /\ ~passed /\ state \in {"rampup", "rampdown"} -> new
            [] ~same /\ state = "hold" -> [fresh EXCEPT !.state = "hold"]
<1>1. SetSpeed(d, m, state, speed, turn) = [d EXCEPT ![m] = result]
  BY DEF SetSpeed
<1>2. r \in MotorData
  BY DEF AllMotorData
<1> HIDE DEF r
<1>3. fresh \in MotorData
  BY <1>2 DEF MotorData
<1> HIDE DEF fresh
<1>4. new \in MotorData
  BY <1>3 DEF MotorData
<1> HIDE DEF new
<1>5. \/ result = r 
      \/ result = [fresh EXCEPT !.state = "running"]
      \/ result = [fresh EXCEPT !.state = "idle", !.reg = {}]
      \/ result = [new EXCEPT !.target = speed, !.state = IF speed = 0 THEN "hold" ELSE "running"]
      \/ result = new
      \/ result = [fresh EXCEPT !.state = "hold"]
  BY DEF RunStates
<1> HIDE DEF result
<1>6. result \in MotorData
  BY <1>2, <1>3, <1>4, <1>5 DEF MotorData, RunStates
<1>7. QED
  BY <1>1, <1>6

\* Going idle changes nothing else that tells.
LEMMA GoIdle ==
  ASSUME NEW d \in AllMotorData, NEW m \in Motors
  PROVE  LET x == SetSpeed(d, m, "idle", 0, 0)
         IN  x[m].state = "idle" /\ x[m].actual = d[m].actual /\ x[m].reg = {}
<1> DEFINE r == d[m]
           fresh == IF r.target = 0 THEN [r EXCEPT !.valid = FALSE] ELSE r
<1>1. r \in MotorData
  BY DEF AllMotorData
<1>2. SetSpeed(d, m, "idle", 0, 0) = [d EXCEPT ![m] = [fresh EXCEPT !.state = "idle", !.reg = {}]]
  BY DEF SetSpeed
<1> HIDE DEF r
<1>3. fresh \in MotorData /\ fresh.actual = r.actual
  BY <1>1 DEF MotorData
<1> HIDE DEF fresh
<1> DEFINE s == [fresh EXCEPT !.state = "idle", !.reg = {}]
<1>4. s \in MotorData /\ s.state = "idle" /\ s.actual = r.actual /\ s.reg = {}
  BY <1>3 DEF MotorData, RunStates
<1> HIDE DEF s
<1>5. [d EXCEPT ![m] = s][m] = s
  BY DEF AllMotorData
<1>6. QED
  BY <1>2, <1>4, <1>5 DEF s, r

\* An order of counts leaves the rest of r as it is in s.
Recounted(r, s) == s \in MotorData /\ s = [r EXCEPT !.count = s.count, !.toRun = s.toRun]

LEMMA ResetEffect ==
  ASSUME NEW d \in AllMotorData, NEW m \in Motors
  PROVE  LET x == ResetTachoLimit(d, m)
         IN  /\ x \in AllMotorData
             /\ \A k \in Motors : k # m => Recounted(d[k], x[k])
             /\ \A k \in Motors : k # m /\ ~Synchrone(d, k) => x[k] = d[k]
             /\ Recounted([d[m] EXCEPT !.forever = FALSE], x[m])
<1> DEFINE both == {m} \cup (IF Synchrone(d, m) THEN SyncPartner(d, m) ELSE {})
           zero == [k \in Motors |-> IF k \in both THEN [d[k] EXCEPT !.count = 0, !.toRun = 0] ELSE d[k]]
           x == ResetTachoLimit(d, m)
           r == [zero[m] EXCEPT !.forever = FALSE]
<1>1. x = [zero EXCEPT ![m] = r]
  BY DEF ResetTachoLimit
<1>2. \A k \in both : k # m => Synchrone(d, k)
  BY DEF SyncPartner
<1>3. m \in both
  OBVIOUS
<1> HIDE DEF both, x
<1>4. ASSUME NEW k \in Motors
      PROVE  Recounted(d[k], zero[k]) /\ (zero[k] = d[k] \/ k \in both)
  <2> DEFINE s == d[k]
             t == [s EXCEPT !.count = 0, !.toRun = 0]
  <2>1. zero[k] = t \/ zero[k] = s
    OBVIOUS
  <2>2. zero[k] = d[k] \/ k \in both
    OBVIOUS
  <2>3. s \in MotorData
    BY DEF AllMotorData
  <2> HIDE DEF s
  <2>4. Recounted(s, s)
    BY <2>3 DEF Recounted, MotorData
  <2>5. t \in MotorData /\ t.count = 0 /\ t.toRun = 0
    <3> DEFINE z == 0
               w == [s EXCEPT !.count = z, !.toRun = z]
    <3>1. z \in Int
      OBVIOUS
    <3> HIDE DEF z
    <3>2. w \in MotorData /\ w.count = z /\ w.toRun = z
      BY <2>3, <3>1 DEF MotorData
    <3>3. QED
      BY <3>2 DEF z
  <2>6. Recounted(s, t)
    BY <2>5 DEF Recounted
  <2>7. QED
    BY <2>1, <2>2, <2>4, <2>6 DEF s
<1>5. zero \in AllMotorData
  <2>1. \A k \in Motors : zero[k] \in MotorData
    BY <1>4 DEF Recounted
  <2>2. QED
    BY <2>1 DEF AllMotorData
<1>6. Recounted([d[m] EXCEPT !.forever = FALSE], r)
  <2> DEFINE s == d[m]
             t == [s EXCEPT !.count = 0, !.toRun = 0]
             u == [s EXCEPT !.forever = FALSE]
             v == [t EXCEPT !.forever = FALSE]
  <2>1. r = v
    BY <1>3
  <2>2. s \in MotorData
    BY DEF AllMotorData
  <2> HIDE DEF s
  <2>3. v \in MotorData /\ v.count = 0 /\ v.toRun = 0
    <3> DEFINE z == 0
               w == [[s EXCEPT !.count = z, !.toRun = z] EXCEPT !.forever = FALSE]
    <3>1. z \in Int
      OBVIOUS
    <3> HIDE DEF z
    <3>2. w \in MotorData /\ w.count = z /\ w.toRun = z
      BY <2>2, <3>1 DEF MotorData
    <3>3. QED
      BY <3>2 DEF z
  <2>4. v = [u EXCEPT !.count = 0, !.toRun = 0]
    BY <2>2 DEF MotorData
  <2> HIDE DEF u, v, t
  <2>5. Recounted(u, v)
    BY <2>3, <2>4 DEF Recounted
  <2>6. QED
    BY <2>1, <2>5 DEF s, u
<1> HIDE DEF zero
<1>7. r \in MotorData
  BY <1>6 DEF Recounted
<1> HIDE DEF r
<1>8. x \in AllMotorData /\ x[m] = r /\ \A k \in Motors : k # m => x[k] = zero[k]
  BY <1>1, <1>5, <1>7 DEF AllMotorData
<1>9. QED
  BY <1>2, <1>4, <1>6, <1>8 DEF x

LEMMA LimitEffect ==
  ASSUME NEW d \in AllMotorData, NEW m \in Motors, NEW limit \in Nat, NEW options
  PROVE  \E s \in MotorData :
           /\ SetTachoLimit(d, m, limit, options) = [d EXCEPT ![m] = s]
           /\ s.state = d[m].state /\ s.actual = d[m].actual /\ s.reg = d[m].reg
           /\ s.set = d[m].set
           /\ limit = 0 /\ d[m].reg = {} => s.forever
<1> DEFINE r == d[m]
           ahead == IF r.set = 0 THEN r.target > 0 ELSE r.set > 0
           end == IF ahead THEN r.toRun + limit ELSE r.toRun - limit
           s1 == [r EXCEPT !.forever = FALSE, !.toRun = limit]
           s2 == [r EXCEPT !.forever = TRUE, !.atLimit = "idle", !.rampDown = FALSE]
           s3 == [r EXCEPT !.forever = FALSE,
                           !.atLimit = IF "hold" \in options THEN "hold" ELSE "idle",
                           !.rampDown = "rampdown" \in options,
                           !.toRun = end]
<1>1. r \in MotorData
  BY DEF AllMotorData
<1>2. CASE "position" \in r.reg
  <2>1. SetTachoLimit(d, m, limit, options) = [d EXCEPT ![m] = s1]
    BY <1>2 DEF SetTachoLimit
  <2> HIDE DEF r
  <2>2. s1 \in MotorData
    <3> DEFINE z == limit
               w == [r EXCEPT !.forever = FALSE, !.toRun = z]
    <3>1. z \in Int
      OBVIOUS
    <3> HIDE DEF z
    <3>2. w \in MotorData
      BY <1>1, <3>1 DEF MotorData
    <3>3. QED
      BY <3>2 DEF z
  <2>3. s1.state = r.state /\ s1.actual = r.actual /\ s1.reg = r.reg /\ s1.set = r.set
    BY <1>1 DEF MotorData
  <2>4. r.reg # {}
    BY <1>2
  <2> HIDE DEF s1
  <2>5. QED
    BY <2>1, <2>2, <2>3, <2>4 DEF r
<1>3. CASE "position" \notin r.reg /\ limit = 0
  <2>1. SetTachoLimit(d, m, limit, options) = [d EXCEPT ![m] = s2]
    BY <1>3 DEF SetTachoLimit
  <2> HIDE DEF r
  <2>2. /\ s2 \in MotorData /\ s2.forever
        /\ s2.state = r.state /\ s2.actual = r.actual /\ s2.reg = r.reg /\ s2.set = r.set
    BY <1>1 DEF MotorData
  <2> HIDE DEF s2
  <2>3. QED
    BY <2>1, <2>2 DEF r
<1>4. CASE "position" \notin r.reg /\ limit # 0
  <2>1. SetTachoLimit(d, m, limit, options) = [d EXCEPT ![m] = s3]
    BY <1>4 DEF SetTachoLimit
  <2> HIDE DEF r
  <2>2. end \in Int
    BY <1>1 DEF MotorData
  <2> HIDE DEF end
  <2>3. s3 \in MotorData
    <3> DEFINE a == IF "hold" \in options THEN "hold" ELSE "idle"
               b == "rampdown" \in options
    <3>1. a \in {"idle", "hold"} /\ b \in BOOLEAN
      OBVIOUS
    <3> HIDE DEF a, b
    <3>2. [r EXCEPT !.forever = FALSE, !.atLimit = a, !.rampDown = b, !.toRun = end] \in MotorData
      BY <1>1, <2>2, <3>1 DEF MotorData
    <3>3. QED
      BY <3>2 DEF a, b
  <2>4. s3.state = r.state /\ s3.actual = r.actual /\ s3.reg = r.reg /\ s3.set = r.set
    BY <1>1 DEF MotorData
  <2> HIDE DEF s3
  <2>5. QED
    BY <1>4, <2>1, <2>3, <2>4 DEF r
<1>5. QED
  BY <1>2, <1>3, <1>4

LEMMA ModeEffect ==
  ASSUME NEW d \in AllMotorData, NEW m \in Motors, NEW o \in OutputMap
  PROVE  \E s \in MotorData :
           /\ UpdateMode(d, m, o) = [d EXCEPT ![m] = s]
           /\ ~o.on => s.state = "idle" /\ s.reg = {} /\ s.actual = d[m].actual
<1> DEFINE b == [d[m] EXCEPT !.brake = o.brake]
           braked == [d EXCEPT ![m] = b]
           e == [b EXCEPT !.reg = IF o.regulated THEN o.reg ELSE {}]
<1>1. o.brake \in BOOLEAN /\ o.reg \in SUBSET RegModes
  BY DEF OutputMap
<1>2. b \in MotorData /\ b.actual = d[m].actual
  BY <1>1 DEF AllMotorData, MotorData
<1>3. braked \in AllMotorData /\ braked[m] = b /\ [d EXCEPT ![m].brake = o.brake] = braked
  BY <1>2, Put
<1> HIDE DEF b
<1>4. CASE o.on
  <2>1. UpdateMode(d, m, o) = [braked EXCEPT ![m] = e]
    BY <1>2, <1>3, <1>4 DEF UpdateMode, EnableRegulation
  <2>2. e \in MotorData
    BY <1>1, <1>2 DEF MotorData
  <2> HIDE DEF e
  <2>3. QED
    BY <1>4, <2>1, <2>2 DEF AllMotorData
<1>5. CASE ~o.on
  <2> DEFINE x == SetSpeed(braked, m, "idle", 0, 0)
             i == [x[m] EXCEPT !.reg = {}]
  <2> HIDE DEF braked
  <2>1. UpdateMode(d, m, o) = [x EXCEPT ![m] = i]
    <3>1. UpdateMode(d, m, o) =
            [SetSpeed([d EXCEPT ![m].brake = o.brake], m, "idle", 0, 0) EXCEPT ![m].reg = {}]
      BY <1>5, Zenon DEF UpdateMode
    <3>2. UpdateMode(d, m, o) = [x EXCEPT ![m].reg = {}]
      BY <1>3, <3>1, Zenon
    <3> HIDE DEF x
    <3>3. [x EXCEPT ![m].reg = {}] = [x EXCEPT ![m] = i]
      OBVIOUS
    <3>4. QED
      BY <3>2, <3>3, Zenon
  <2>2. "idle" \in RunStates /\ 0 \in SBytes /\ 0 \in {-1, 0, 1}
    BY OutputConstants DEF RunStates, SBytes
  <2>3. PICK s \in MotorData : x = [braked EXCEPT ![m] = s]
    BY <1>3, <2>2, SetSpeedType
  <2>4. x[m].state = "idle" /\ x[m].actual = b.actual /\ x[m] = s
    BY <1>3, <2>3, GoIdle, Put
  <2> HIDE DEF x
  <2>5. i \in MotorData /\ i.state = "idle" /\ i.actual = b.actual /\ i.reg = {}
    BY <2>4 DEF MotorData
  <2> HIDE DEF i
  <2>6. [x EXCEPT ![m] = i] = [d EXCEPT ![m] = i]
    BY <2>3, <2>5 DEF braked, AllMotorData
  <2>7. QED
    BY <1>2, <1>5, <2>1, <2>5, <2>6
<1>6. QED
  BY <1>4, <1>5

\* The orders of a round.  The position of others may be reset with that of m, no more; the reset
\* of devices leaves m idle, without regulation and limit.
LEMMA UpdateEffect ==
  ASSUME NEW d \in AllMotorData, NEW m \in Motors, NEW o \in OutputMap
  PROVE  LET x == Update(d, m, o)
         IN  /\ x \in AllMotorData
             /\ \A k \in Motors : k # m => Recounted(d[k], x[k])
             /\ \A k \in Motors : k # m /\ ~Synchrone(d, k) => x[k] = d[k]
             /\ o.flags \cap {"mode", "speed", "limit", "reset"} = {} => x = d
             /\ {"mode", "limit"} \subseteq o.flags /\ ~o.on /\ o.limit = 0 =>
                  /\ x[m].state = "idle" /\ x[m].reg = {} /\ x[m].forever
                  /\ x[m].actual = d[m].actual
<1> DEFINE d1 == IF "reset" \in o.flags THEN ResetTachoLimit(d, m) ELSE d
           d2 == IF "speed" \in o.flags /\ o.on THEN SetSpeed(d1, m, o.state, o.speed, o.turn) ELSE d1
           d3 == IF "mode" \in o.flags THEN UpdateMode(d2, m, o) ELSE d2
           d4 == IF "limit" \in o.flags THEN SetTachoLimit(d3, m, o.limit, o.options) ELSE d3
<1>1. Update(d, m, o) = d4
  BY DEF Update
<1>2. o.state \in RunStates /\ o.speed \in SBytes /\ o.turn \in {-1, 0, 1} /\ o.limit \in Nat
  BY DEF OutputMap
<1>3. /\ d1 \in AllMotorData
      /\ \A k \in Motors : k # m => Recounted(d[k], d1[k])
      /\ \A k \in Motors : k # m /\ ~Synchrone(d, k) => d1[k] = d[k]
      /\ d1[m].actual = d[m].actual
  <2>1. CASE "reset" \in o.flags
    <3> DEFINE y == ResetTachoLimit(d, m)
               f == [d[m] EXCEPT !.forever = FALSE]
    <3>1. /\ y \in AllMotorData
          /\ \A k \in Motors : k # m => Recounted(d[k], y[k])
          /\ \A k \in Motors : k # m /\ ~Synchrone(d, k) => y[k] = d[k]
          /\ Recounted(f, y[m])
      BY ResetEffect
    <3> HIDE DEF y
    <3>2. y[m].actual = d[m].actual
      <4>1. d[m] \in MotorData
        BY DEF AllMotorData
      <4>2. f.actual = d[m].actual /\ f \in MotorData
        BY <4>1 DEF MotorData
      <4> HIDE DEF f
      <4>3. y[m].actual = f.actual
        BY <3>1, <4>2 DEF Recounted, MotorData
      <4>4. QED
        BY <4>2, <4>3
    <3>3. d1 = y
      BY <2>1 DEF y
    <3>4. QED
      BY <3>1, <3>2, <3>3
  <2>2. CASE "reset" \notin o.flags
    <3>1. \A k \in Motors : Recounted(d[k], d[k])
      <4> SUFFICES ASSUME NEW k \in Motors PROVE Recounted(d[k], d[k])
        OBVIOUS
      <4> DEFINE s == d[k]
      <4>1. s \in MotorData
        BY DEF AllMotorData
      <4> HIDE DEF s
      <4>2. Recounted(s, s)
        BY <4>1 DEF Recounted, MotorData
      <4>3. QED
        BY <4>2 DEF s
    <3>2. d1 = d
      BY <2>2
    <3>3. QED
      BY <3>1, <3>2
  <2>3. QED
    BY <2>1, <2>2
<1>4. o.flags \cap {"mode", "speed", "limit", "reset"} = {} => d4 = d
  OBVIOUS
<1> HIDE DEF d1
<1>5. /\ d2 \in AllMotorData /\ \A k \in Motors : k # m => d2[k] = d1[k]
      /\ ~o.on => d2[m].actual = d1[m].actual
  <2>1. CASE "speed" \in o.flags /\ o.on
    <3>1. PICK s \in MotorData : d2 = [d1 EXCEPT ![m] = s]
      BY <1>2, <1>3, <2>1, SetSpeedType
    <3>2. QED
      BY <1>3, <2>1, <3>1 DEF AllMotorData
  <2>2. CASE ~("speed" \in o.flags /\ o.on)
    BY <1>3, <2>2
  <2>3. QED
    BY <2>1, <2>2
<1> HIDE DEF d2
<1>6. /\ d3 \in AllMotorData /\ \A k \in Motors : k # m => d3[k] = d2[k]
      /\ "mode" \in o.flags /\ ~o.on =>
           d3[m].state = "idle" /\ d3[m].reg = {} /\ d3[m].actual = d2[m].actual
  <2>1. CASE "mode" \in o.flags
    <3>1. PICK s \in MotorData :
            /\ d3 = [d2 EXCEPT ![m] = s]
            /\ ~o.on => s.state = "idle" /\ s.reg = {} /\ s.actual = d2[m].actual
      BY <1>5, <2>1, ModeEffect
    <3>2. QED
      BY <1>5, <2>1, <3>1 DEF AllMotorData
  <2>2. CASE "mode" \notin o.flags
    BY <1>5, <2>2
  <2>3. QED
    BY <2>1, <2>2
<1> HIDE DEF d3
<1>7. /\ d4 \in AllMotorData /\ \A k \in Motors : k # m => d4[k] = d3[k]
      /\ "limit" \in o.flags /\ o.limit = 0 /\ d3[m].reg = {} =>
           /\ d4[m].state = d3[m].state /\ d4[m].reg = {} /\ d4[m].forever
           /\ d4[m].actual = d3[m].actual
  <2>1. CASE "limit" \in o.flags
    <3> DEFINE l == o.limit
               p == o.options
    <3>1. d4 = SetTachoLimit(d3, m, l, p) /\ l \in Nat
      BY <1>2, <2>1
    <3> HIDE DEF d4, l, p
    <3>2. PICK s \in MotorData :
            /\ SetTachoLimit(d3, m, l, p) = [d3 EXCEPT ![m] = s]
            /\ s.state = d3[m].state /\ s.actual = d3[m].actual /\ s.reg = d3[m].reg
            /\ s.set = d3[m].set
            /\ l = 0 /\ d3[m].reg = {} => s.forever
      BY <1>6, <3>1, LimitEffect
    <3>3. QED
      BY <1>6, <2>1, <3>1, <3>2 DEF AllMotorData, l
  <2>2. CASE "limit" \notin o.flags
    BY <1>6, <2>2
  <2>3. QED
    BY <2>1, <2>2
<1> HIDE DEF d4
<1>8. \A k \in Motors : k # m => d4[k] = d1[k]
  BY <1>5, <1>6, <1>7
<1>9. {"mode", "limit"} \subseteq o.flags /\ ~o.on /\ o.limit = 0 =>
        /\ d4[m].state = "idle" /\ d4[m].reg = {} /\ d4[m].forever
        /\ d4[m].actual = d[m].actual
  BY <1>3, <1>5, <1>6, <1>7
<1>10. QED
  BY <1>1, <1>3, <1>4, <1>7, <1>8, <1>9

-----------------------------------------------------------------------------
(***************************************************************************)
(* The control of one motor, stage by stage.                               *)
(***************************************************************************)
Stopping == {"idle", "rampdown", "hold"}

\* The run of s is that of r, at the same place; power and target may differ.
SameRun(r, s) ==
  /\ s.state = r.state /\ s.set = r.set /\ s.reg = r.reg
  /\ s.forever = r.forever /\ s.rampDown = r.rampDown
  /\ s.count = r.count /\ s.toRun = r.toRun

\* A motor goes on in the same run state.
SameMove(r, s) == s.state = r.state /\ s.set = r.set /\ s.reg = r.reg

\* What the control of a motor does to its partner: it may stop it.
Touched(r, s) == SameRun(r, s) \/ s.state \in Stopping

\* x comes from d by a part of the control of m.
Controlled(d, x, m) ==
  /\ x \in AllMotorData
  /\ \A k \in Motors : k # m =>
       \/ x[k] = d[k]
       \/ Synchrone(d, m) /\ Synchrone(d, k) /\ Touched(d[k], x[k])
  /\ Synchrone(x, m) => Synchrone(d, m)

\* One part after the other is a part.
LEMMA ControlledOn ==
  ASSUME NEW d, NEW x, NEW y, NEW m \in Motors, Controlled(d, x, m), Controlled(x, y, m)
  PROVE  Controlled(d, y, m)
<1>1. ASSUME NEW k \in Motors, k # m
      PROVE  \/ y[k] = d[k]
             \/ Synchrone(d, m) /\ Synchrone(d, k) /\ Touched(d[k], y[k])
  <2>1. CASE y[k] = x[k]
    BY <1>1, <2>1 DEF Controlled
  <2>2. CASE Synchrone(x, m) /\ Synchrone(x, k) /\ Touched(x[k], y[k])
    <3>1. Synchrone(d, m)
      BY <2>2 DEF Controlled
    <3>2. CASE x[k] = d[k]
      BY <2>2, <3>1, <3>2 DEF Synchrone
    <3>3. CASE Synchrone(d, k) /\ Touched(d[k], x[k])
      BY <2>2, <3>1, <3>3 DEF Touched, SameRun
    <3>4. QED
      BY <1>1, <3>2, <3>3 DEF Controlled
  <2>3. QED
    BY <1>1, <2>1, <2>2 DEF Controlled
<1>2. QED
  BY <1>1 DEF Controlled

\* A part that changes m only, and does not put it in synchronisation.
LEMMA Alone ==
  ASSUME NEW d \in AllMotorData, NEW m \in Motors, NEW r \in MotorData,
         "synchrone" \in r.reg => "synchrone" \in d[m].reg
  PROVE  /\ Controlled(d, [d EXCEPT ![m] = r], m)
         /\ [d EXCEPT ![m] = r][m] = r
<1> DEFINE x == [d EXCEPT ![m] = r]
<1>1. x \in AllMotorData /\ x[m] = r /\ \A k \in Motors : k # m => x[k] = d[k]
  BY DEF AllMotorData
<1> HIDE DEF x
<1>2. Controlled(d, x, m)
  BY <1>1 DEF Controlled, Synchrone
<1>3. QED
  BY <1>1, <1>2 DEF x

LEMMA Nothing ==
  ASSUME NEW d \in AllMotorData, NEW m \in Motors
  PROVE  Controlled(d, d, m)
BY DEF Controlled

LEMMA LimitIsInt ==
  ASSUME NEW r \in MotorData
  PROVE  Limit(r) \in Int /\ StateAtLimit(r) \in Stopping /\ StateAtLimit(r) \in RunStates
<1>1. r.toRun \in Int /\ r.atLimit \in {"idle", "hold"}
  BY DEF MotorData
<1>2. ASSUME NEW x \in Int PROVE FourFifths(x) \in Int
  BY DEF FourFifths
<1>3. QED
  BY <1>1, <1>2 DEF Limit, StateAtLimit, Stopping, RunStates

LEMMA PartnerProperties ==
  ASSUME NEW d, NEW m \in Motors, NEW k \in SyncPartner(d, m)
  PROVE  k \in Motors /\ k # m /\ Synchrone(d, k)
BY DEF SyncPartner

\* The limit of a synchronised motor ends the run of it and of its partner.
LEMMA SyncLimitEffect ==
  ASSUME NEW d \in AllMotorData, NEW m \in Motors
  PROVE  LET x == SyncTachoLimitControl(d, m)
         IN  \/ x = d
             \/ \E k \in SyncPartner(d, m) :
                  /\ x \in AllMotorData
                  /\ \A j \in Motors : j # m /\ j # k => x[j] = d[j]
                  /\ x[m].state \in Stopping /\ x[k].state \in Stopping
                  /\ x[m].reg = d[m].reg /\ x[k].reg = d[k].reg
<1> DEFINE both(k) == [d EXCEPT ![m].state = StateAtLimit(d[m]), ![k].state = StateAtLimit(d[k])]
           follow(leader, other, k) ==
             [both(k) EXCEPT ![other].count = d[leader].count, ![other].toRun = Limit(d[leader])]
           x == SyncTachoLimitControl(d, m)
           Ok(y, k) == /\ y \in AllMotorData
                       /\ \A j \in Motors : j # m /\ j # k => y[j] = d[j]
                       /\ y[m].state \in Stopping /\ y[k].state \in Stopping
                       /\ y[m].reg = d[m].reg /\ y[k].reg = d[k].reg
<1>1. ASSUME NEW k \in SyncPartner(d, m)
      PROVE  Ok(both(k), k)
  <2> DEFINE s == StateAtLimit(d[m])
             t == StateAtLimit(d[k])
             a == [d[m] EXCEPT !.state = s]
             b == [d[k] EXCEPT !.state = t]
  <2>1. k \in Motors /\ k # m
    BY PartnerProperties
  <2>2. d[m] \in MotorData /\ d[k] \in MotorData
    BY <2>1 DEF AllMotorData
  <2>3. s \in Stopping /\ s \in RunStates /\ t \in Stopping /\ t \in RunStates
    BY <2>2, LimitIsInt
  <2>4. both(k) = [d EXCEPT ![m] = a, ![k] = b]
    BY <2>1 DEF AllMotorData
  <2> HIDE DEF s, t
  <2>5. a \in MotorData /\ a.state = s /\ a.reg = d[m].reg
    BY <2>2, <2>3 DEF MotorData
  <2>6. b \in MotorData /\ b.state = t /\ b.reg = d[k].reg
    BY <2>2, <2>3 DEF MotorData
  <2> HIDE DEF a, b, both
  <2>7. /\ both(k) \in AllMotorData /\ both(k)[m] = a /\ both(k)[k] = b
        /\ \A j \in Motors : j # m /\ j # k => both(k)[j] = d[j]
    BY <2>1, <2>4, <2>5, <2>6 DEF AllMotorData
  <2>8. QED
    BY <2>3, <2>5, <2>6, <2>7
<1>2. ASSUME NEW k \in SyncPartner(d, m), NEW leader \in {m, k}, NEW other \in {m, k}
      PROVE  Ok(follow(leader, other, k), k)
  <2> DEFINE y == both(k)
             c == d[leader].count
             e == Limit(d[leader])
             z == [y[other] EXCEPT !.count = c, !.toRun = e]
  <2>1. k \in Motors /\ k # m
    BY PartnerProperties
  <2>2. d[leader] \in MotorData
    BY <2>1 DEF AllMotorData
  <2>3. c \in Int /\ e \in Int
    BY <2>2, LimitIsInt DEF MotorData
  <2>4. Ok(y, k)
    BY <1>1
  <2>5. follow(leader, other, k) = [y EXCEPT ![other].count = c, ![other].toRun = e]
    OBVIOUS
  <2> HIDE DEF y, c, e
  <2>6. y[other] \in MotorData /\ other \in Motors
    BY <2>1, <2>4 DEF AllMotorData
  <2>7. [y EXCEPT ![other].count = c, ![other].toRun = e] = [y EXCEPT ![other] = z]
    BY <2>4, <2>6 DEF AllMotorData
  <2>8. z \in MotorData /\ z.state = y[other].state /\ z.reg = y[other].reg
    BY <2>3, <2>6 DEF MotorData
  <2> HIDE DEF z
  <2> DEFINE w == [y EXCEPT ![other] = z]
  <2>9. w \in AllMotorData /\ w[other] = z /\ \A j \in Motors : j # other => w[j] = y[j]
    BY <2>4, <2>6, <2>8 DEF AllMotorData
  <2> HIDE DEF w
  <2>10. Ok(w, k)
    BY <2>1, <2>4, <2>6, <2>8, <2>9
  <2>11. QED
    BY <2>5, <2>7, <2>10 DEF w
<1>3. \/ x = d
      \/ \E k \in SyncPartner(d, m) : x = both(k)
      \/ \E k \in SyncPartner(d, m) : \E leader, other \in {m, k} : x = follow(leader, other, k)
  BY DEF SyncTachoLimitControl
<1> HIDE DEF both, follow, x
<1>4. x = d \/ \E k \in SyncPartner(d, m) : Ok(x, k)
  BY <1>1, <1>2, <1>3
<1>5. QED
  BY <1>4 DEF x

\* A motor that runs alone to a stop is not at its limit.
Fine(r) ==
  /\ r.state \in {"running", "rampup"}
  /\ ~r.forever
  /\ ~r.rampDown
  /\ r.reg \cap {"synchrone", "position"} = {}
  => /\ r.set > 0 => r.count < r.toRun
     /\ r.set < 0 => r.count > r.toRun

LEMMA SpeedsAreIntegers ==
  ASSUME NEW r \in MotorData
  PROVE  /\ r.set \in SBytes /\ r.target \in SBytes /\ r.actual \in SBytes
         /\ r.set \in Int /\ r.target \in Int /\ r.count \in Int /\ r.toRun \in Int
         /\ r.state \in RunStates /\ r.reg \in SUBSET RegModes
         /\ r.atLimit \in {"idle", "hold"}
BY OutputConstants DEF MotorData, SBytes

LEMMA SByteType ==
  ASSUME NEW x \in Int, -SpeedMax - 2 <= x, x <= SpeedMax + 1
  PROVE  SByte(x) \in SBytes
BY OutputConstants DEF SByte, SBytes

LEMMA UnregulatedEffect ==
  ASSUME NEW d \in AllMotorData, NEW m \in Motors
  PROVE  LET x == Unregulated(d, m)
         IN  /\ Controlled(d, x, m)
             /\ \A k \in Motors : k # m => x[k] = d[k]
             /\ SameRun(d[m], x[m])
<1> DEFINE r == d[m]
           a == r.target
           s == [r EXCEPT !.actual = a]
           x == Unregulated(d, m)
<1>1. r \in MotorData
  BY DEF AllMotorData
<1>2. x = d \/ x = [d EXCEPT ![m] = s]
  BY DEF Unregulated
<1> HIDE DEF x, r
<1>3. a \in SBytes
  BY <1>1 DEF MotorData
<1> HIDE DEF a
<1>4. s \in MotorData /\ SameRun(r, s) /\ SameRun(r, r) /\ s.reg = r.reg
  BY <1>1, <1>3 DEF MotorData, SameRun
<1> HIDE DEF s
<1>5. CASE x = d
  <2>1. Controlled(d, x, m)
    BY <1>5, Nothing
  <2>2. QED
    BY <1>4, <1>5, <2>1 DEF r, x
<1>6. CASE x = [d EXCEPT ![m] = s]
  <2>1. Controlled(d, x, m) /\ x[m] = s
    BY <1>4, <1>6, Alone DEF r
  <2>2. \A k \in Motors : k # m => x[k] = d[k]
    BY <1>6 DEF AllMotorData
  <2>3. QED
    BY <1>4, <2>1, <2>2 DEF r, x
<1>7. QED
  BY <1>2, <1>5, <1>6

\* What the reading of the tacho leaves alone.
Kept(r, s) ==
  /\ s.state = r.state /\ s.set = r.set /\ s.actual = r.actual
  /\ s.reg = r.reg /\ s.forever = r.forever

LEMMA CountedEffect ==
  ASSUME NEW d \in AllMotorData, NEW m \in Motors, NEW x \in Counted(d, m)
  PROVE  /\ Controlled(d, x, m)
         /\ \A k \in Motors : k # m => x[k] = d[k]
         /\ Kept(d[m], x[m])
<1> DEFINE r == d[m]
<1>1. r \in MotorData
  BY DEF AllMotorData
<1>2. PICK y \in Deltas(r) : x = [d EXCEPT ![m].count = @ + y, ![m].valid = d[m].device]
  BY DEF Counted
<1>3. y \in Int
  BY DEF Deltas
<1> DEFINE c == r.count + y
           v == r.device
           s == [r EXCEPT !.count = c, !.valid = v]
<1>4. x = [d EXCEPT ![m] = s]
  BY <1>2 DEF AllMotorData
<1> HIDE DEF r
<1>5. c \in Int /\ v \in BOOLEAN
  BY <1>1, <1>3 DEF MotorData
<1> HIDE DEF c, v
<1>6. s \in MotorData /\ Kept(r, s)
  BY <1>1, <1>5 DEF MotorData, Kept
<1> HIDE DEF s
<1>7. Controlled(d, x, m) /\ x[m] = s
  BY <1>4, <1>6, Alone DEF r, Kept
<1>8. \A k \in Motors : k # m => x[k] = d[k]
  BY <1>4 DEF AllMotorData
<1>9. QED
  BY <1>6, <1>7, <1>8 DEF r

\* A ramp up goes on only before its limit.
LEMMA RampUpEffect ==
  ASSUME NEW d \in AllMotorData, NEW m \in Motors, d[m].state = "rampup", NEW x \in RampUp(d, m)
  PROVE  /\ Controlled(d, x, m)
         /\ \A k \in Motors : k # m => x[k] = d[k]
         /\ x[m].state \in {"rampup", "idle", "hold"}
         /\ Fine(x[m])
<1> DEFINE r == d[m]
           up == IF r.set > 0 THEN 1 ELSE -1
           targets == IF r.target = 0 THEN {up * MinPower} ELSE {r.target, SByte(r.target + up)}
           there == IF r.set > 0 THEN r.count >= r.toRun ELSE r.count <= r.toRun
           clamped(t) == IF there \/ (IF r.set > 0 THEN t > r.set ELSE t < r.set) THEN r.set ELSE t
           goal(t) == clamped(t)
           next == IF there THEN r.atLimit ELSE r.state
<1>1. PICK t \in targets : x = Unregulated([d EXCEPT ![m].target = clamped(t), ![m].state = next], m)
  BY DEF RampUp
<1>2. r \in MotorData
  BY DEF AllMotorData
<1> HIDE DEF r
<1>3. /\ r.set \in SBytes /\ r.target \in SBytes /\ r.set \in Int /\ r.target \in Int
      /\ r.count \in Int /\ r.toRun \in Int /\ r.atLimit \in {"idle", "hold"}
  BY <1>2, SpeedsAreIntegers
<1>4. t \in SBytes
  <2>1. up * MinPower \in SBytes
    BY OutputConstants DEF SBytes
  <2>2. -SpeedMax - 2 <= r.target + up /\ r.target + up <= SpeedMax + 1 /\ r.target + up \in Int
    BY <1>3, OutputConstants DEF SBytes
  <2>3. SByte(r.target + up) \in SBytes
    BY <2>2, SByteType
  <2>4. QED
    BY <1>3, <2>1, <2>3
<1> DEFINE c == clamped(t)
           s == [r EXCEPT !.target = c, !.state = next]
           y == [d EXCEPT ![m] = s]
<1>5. x = Unregulated(y, m)
  <2>1. [d EXCEPT ![m].target = c, ![m].state = next] = y
    BY DEF AllMotorData, r
  <2>2. QED
    BY <1>1, <2>1
<1>6. c \in SBytes /\ next \in RunStates /\ next \in {"rampup", "idle", "hold"}
  BY <1>3, <1>4 DEF RunStates, r
<1>7. next = "rampup" => ~there
  BY <1>3
<1>8. ~there => (r.set > 0 => r.count < r.toRun) /\ (r.set < 0 => r.count > r.toRun)
  BY <1>3
<1> HIDE DEF there, targets, c, next
<1>9. /\ s \in MotorData /\ s.reg = r.reg /\ s.state = next
      /\ s.set = r.set /\ s.count = r.count /\ s.toRun = r.toRun
  BY <1>2, <1>6 DEF MotorData
<1>10. Fine(s)
  BY <1>6, <1>7, <1>8, <1>9 DEF Fine
<1> HIDE DEF s
<1>11. Controlled(d, y, m) /\ y[m] = s /\ y \in AllMotorData
  BY <1>9, Alone DEF r, Controlled
<1>12. \A k \in Motors : k # m => y[k] = d[k]
  BY DEF AllMotorData
<1> HIDE DEF y
<1>13. /\ Controlled(y, x, m) /\ SameRun(y[m], x[m])
       /\ \A k \in Motors : k # m => x[k] = y[k]
  BY <1>5, <1>11, UnregulatedEffect
<1>14. Fine(x[m])
  BY <1>10, <1>11, <1>13 DEF Fine, SameRun
<1>15. Controlled(d, x, m)
  BY <1>11, <1>13, ControlledOn
<1>16. x[m].state = next
  BY <1>9, <1>11, <1>13 DEF SameRun
<1>17. QED
  BY <1>6, <1>12, <1>13, <1>14, <1>15, <1>16

LEMMA OnePartner ==
  ASSUME NEW d, NEW m \in Motors, NEW j \in SyncPartner(d, m), NEW k \in SyncPartner(d, m)
  PROVE  j = k
<1>1. j \in Int /\ k \in Int
  BY OutputConstants DEF SyncPartner, Motors
<1>2. j <= k /\ k <= j
  BY DEF SyncPartner
<1>3. QED
  BY <1>1, <1>2

LEMMA SyncControlled ==
  ASSUME NEW d \in AllMotorData, NEW m \in Motors, Synchrone(d, m)
  PROVE  LET x == SyncTachoLimitControl(d, m)
         IN  /\ Controlled(d, x, m)
             /\ \/ x = d
                \/ /\ x[m].state \in Stopping
                   /\ \A k \in SyncPartner(d, m) : x[k].state \in Stopping
<1> DEFINE x == SyncTachoLimitControl(d, m)
<1> HIDE DEF x
<1>1. CASE x = d
  BY <1>1, Nothing DEF x
<1>2. ASSUME NEW k \in SyncPartner(d, m),
             x \in AllMotorData,
             \A j \in Motors : j # m /\ j # k => x[j] = d[j],
             x[m].state \in Stopping, x[k].state \in Stopping,
             x[m].reg = d[m].reg, x[k].reg = d[k].reg
      PROVE  /\ Controlled(d, x, m)
             /\ x[m].state \in Stopping
             /\ \A j \in SyncPartner(d, m) : x[j].state \in Stopping
  <2>1. k \in Motors /\ k # m /\ Synchrone(d, k)
    BY PartnerProperties
  <2>2. Touched(d[k], x[k])
    BY <1>2 DEF Touched
  <2>3. Controlled(d, x, m)
    BY <1>2, <2>1, <2>2 DEF Controlled
  <2>4. \A j \in SyncPartner(d, m) : j = k
    BY OnePartner
  <2>5. QED
    BY <1>2, <2>3, <2>4
<1>3. QED
  BY <1>1, <1>2, SyncLimitEffect DEF x

\* The limit of a run: a motor goes on before it, or stops; a pair goes on or stops.
LEMMA TachoEffect ==
  ASSUME NEW d \in AllMotorData, NEW m \in Motors, d[m].state = "running"
  PROVE  LET x == TachoLimitControl(d, m)
         IN  /\ Controlled(d, x, m)
             /\ x[m].state \in {"running"} \cup Stopping
             /\ Fine(x[m])
             /\ Synchrone(d, m) =>
                  \A k \in SyncPartner(d, m) :
                    \/ SameMove(d[m], x[m]) /\ SameMove(d[k], x[k])
                    \/ x[m].state \in Stopping /\ x[k].state \in Stopping
<1> DEFINE x == TachoLimitControl(d, m)
           r == d[m]
           there == \/ r.set > 0 /\ r.count >= Limit(r)
                    \/ r.set < 0 /\ r.count <= Limit(r)
           limited == IF ~there THEN d
                      ELSE IF r.rampDown
                      THEN [d EXCEPT ![m].state = "rampdown", ![m].set = 0]
                      ELSE [d EXCEPT ![m].state = r.atLimit, ![m].reg = RegModeAtLimit(r)]
           wrapped == IF r.count > MaxCount THEN 0 ELSE r.count
           end == IF r.target # 0 THEN wrapped ELSE r.toRun
           free == [d EXCEPT ![m].count = wrapped, ![m].toRun = IF r.target # 0 THEN wrapped ELSE @]
           Goal == /\ Controlled(d, x, m)
                   /\ x[m].state \in {"running"} \cup Stopping
                   /\ Fine(x[m])
                   /\ Synchrone(d, m) =>
                        \A k \in SyncPartner(d, m) :
                          \/ SameMove(d[m], x[m]) /\ SameMove(d[k], x[k])
                          \/ x[m].state \in Stopping /\ x[k].state \in Stopping
<1>1. /\ "position" \in r.reg => x = d
      /\ "position" \notin r.reg /\ r.forever => x = Unregulated(free, m)
      /\ "position" \notin r.reg /\ ~r.forever /\ Synchrone(d, m) => x = SyncTachoLimitControl(d, m)
      /\ "position" \notin r.reg /\ ~r.forever /\ ~Synchrone(d, m) => x = Unregulated(limited, m)
  BY DEF TachoLimitControl
<1>2. r \in MotorData
  BY DEF AllMotorData
<1>3. /\ r.set \in Int /\ r.count \in Int /\ r.toRun \in Int
      /\ r.atLimit \in {"idle", "hold"} /\ r.reg \in SUBSET RegModes /\ Limit(r) \in Int
  BY <1>2, SpeedsAreIntegers, LimitIsInt
<1>4. wrapped \in Int /\ end \in Int
  BY <1>3
<1>5. free = [d EXCEPT ![m] = [r EXCEPT !.count = wrapped, !.toRun = end]]
  BY DEF AllMotorData
<1> HIDE DEF x, r, free, wrapped, end
<1>6. CASE "position" \in r.reg
  <2>1. x = d
    BY <1>1, <1>6
  <2>2. Fine(x[m])
    BY <1>6, <2>1 DEF Fine, r
  <2>3. Controlled(d, x, m)
    BY <2>1, Nothing
  <2>4. QED
    BY <2>1, <2>2, <2>3 DEF SameMove, x
<1>7. CASE "position" \notin r.reg /\ r.forever
  <2> DEFINE s == [r EXCEPT !.count = wrapped, !.toRun = end]
  <2>1. s \in MotorData /\ SameMove(r, s) /\ s.forever = r.forever
    BY <1>2, <1>4 DEF MotorData, SameMove
  <2>0. free = [d EXCEPT ![m] = s]
    BY <1>5
  <2> HIDE DEF s
  <2>2. Controlled(d, free, m) /\ free[m] = s
    BY <2>0, <2>1, Alone DEF r, SameMove
  <2>3. \A k \in Motors : k # m => free[k] = d[k]
    BY <1>5 DEF AllMotorData
  <2>4. x = Unregulated(free, m) /\ free \in AllMotorData
    BY <1>1, <1>7, <2>2 DEF Controlled
  <2>5. /\ Controlled(free, x, m) /\ SameRun(free[m], x[m])
        /\ \A k \in Motors : k # m => x[k] = free[k]
    BY <2>4, UnregulatedEffect
  <2>6. Controlled(d, x, m)
    BY <2>2, <2>5, ControlledOn
  <2>7. Fine(x[m]) /\ SameMove(r, x[m])
    BY <1>7, <2>1, <2>2, <2>5 DEF Fine, SameRun, SameMove
  <2>8. \A k \in SyncPartner(d, m) : SameMove(d[k], x[k])
    BY <2>3, <2>5, PartnerProperties DEF SameMove
  <2>9. QED
    BY <2>6, <2>7, <2>8 DEF r, SameMove, x
<1>8. CASE "position" \notin r.reg /\ ~r.forever /\ Synchrone(d, m)
  <2>1. /\ Controlled(d, x, m)
        /\ \/ x = d
           \/ x[m].state \in Stopping /\ \A k \in SyncPartner(d, m) : x[k].state \in Stopping
    BY <1>1, <1>8, SyncControlled
  <2>2. Fine(x[m])
    <3>1. CASE x = d
      BY <1>8, <3>1 DEF Fine, Synchrone
    <3>2. CASE x[m].state \in Stopping
      BY <3>2 DEF Fine, Stopping
    <3>3. QED
      BY <2>1, <3>1, <3>2
  <2>3. x[m].state \in {"running"} \cup Stopping
    BY <2>1
  <2>4. QED
    BY <2>1, <2>2, <2>3 DEF SameMove, x
<1>9. CASE "position" \notin r.reg /\ ~r.forever /\ ~Synchrone(d, m)
  <2> DEFINE y == limited
  <2> HIDE DEF y
  <2>1. x = Unregulated(y, m)
    BY <1>1, <1>9 DEF y
  <2>2. /\ Controlled(d, y, m)
        /\ y[m].state \in {"running"} \cup Stopping
        /\ Fine(y[m])
    <3>1. CASE ~there
      <4>1. y = d
        BY <3>1 DEF y
      <4>2. ~r.rampDown => r.toRun = Limit(r)
        BY DEF Limit
      <4>3. Fine(r)
        BY <1>3, <3>1, <4>2 DEF Fine
      <4>4. QED
        BY <4>1, <4>3, Nothing DEF r
    <3>2. CASE there /\ r.rampDown
      <4> DEFINE z == 0
                 s == [r EXCEPT !.state = "rampdown", !.set = z]
      <4>1. y = [d EXCEPT ![m] = s]
        BY <3>2 DEF y, r, AllMotorData
      <4>2. z \in SBytes
        BY OutputConstants DEF SBytes
      <4> HIDE DEF z
      <4>3. s \in MotorData /\ s.reg = r.reg /\ s.state = "rampdown"
        BY <1>2, <4>2 DEF MotorData, RunStates
      <4> HIDE DEF s
      <4>4. Controlled(d, y, m) /\ y[m] = s
        BY <4>1, <4>3, Alone DEF r
      <4>5. QED
        BY <4>3, <4>4 DEF Fine, Stopping
    <3>3. CASE there /\ ~r.rampDown
      <4> DEFINE a == r.atLimit
                 g == RegModeAtLimit(r)
                 s == [r EXCEPT !.state = a, !.reg = g]
      <4>1. y = [d EXCEPT ![m] = s]
        BY <3>3 DEF y, r, AllMotorData
      <4>2. a \in {"idle", "hold"} /\ a \in RunStates /\ g \in SUBSET RegModes /\ "synchrone" \notin g
        BY <1>3 DEF RunStates, RegModes, RegModeAtLimit
      <4> HIDE DEF a, g
      <4>3. s \in MotorData /\ s.reg = g /\ s.state = a
        BY <1>2, <4>2 DEF MotorData
      <4> HIDE DEF s
      <4>4. Controlled(d, y, m) /\ y[m] = s
        BY <4>1, <4>2, <4>3, Alone
      <4>5. QED
        BY <4>2, <4>3, <4>4 DEF Fine, Stopping
    <3>4. QED
      BY <3>1, <3>2, <3>3
  <2>3. Controlled(y, x, m) /\ SameRun(y[m], x[m])
    BY <2>1, <2>2, UnregulatedEffect DEF Controlled
  <2>4. Controlled(d, x, m)
    BY <2>2, <2>3, ControlledOn
  <2>5. Fine(x[m]) /\ x[m].state \in {"running"} \cup Stopping
    BY <2>2, <2>3 DEF Fine, SameRun
  <2>6. QED
    BY <1>9, <2>4, <2>5 DEF x
<1>10. QED
  BY <1>6, <1>7, <1>8, <1>9 DEF x

LEMMA ReachedEffect ==
  ASSUME NEW d \in AllMotorData, NEW m \in Motors
  PROVE  LET x == MotorReachedTachoLimit(d, m)
         IN  Controlled(d, x, m) /\ x[m].state \in Stopping
<1> DEFINE x == MotorReachedTachoLimit(d, m)
           stopped(r) == [r EXCEPT !.set = 0, !.target = 0, !.actual = 0,
                                   !.state = r.atLimit, !.reg = RegModeAtLimit(r)]
           single(r) == [r EXCEPT !.target = IF r.set = 0 THEN 0 ELSE @,
                                  !.actual = IF r.set = 0 THEN 0 ELSE @,
                                  !.state = r.atLimit, !.reg = RegModeAtLimit(r)]
<1>1. ASSUME NEW r \in MotorData
      PROVE  /\ stopped(r) \in MotorData /\ single(r) \in MotorData
             /\ stopped(r).state \in Stopping /\ single(r).state \in Stopping
             /\ "synchrone" \notin single(r).reg /\ "synchrone" \notin stopped(r).reg
  <2> DEFINE z == 0
             t == IF r.set = 0 THEN 0 ELSE r.target
             p == IF r.set = 0 THEN 0 ELSE r.actual
             a == r.atLimit
             g == RegModeAtLimit(r)
             u == [r EXCEPT !.set = z, !.target = z, !.actual = z, !.state = a, !.reg = g]
             v == [r EXCEPT !.target = t, !.actual = p, !.state = a, !.reg = g]
  <2>1. /\ z \in SBytes /\ t \in SBytes /\ p \in SBytes /\ a \in RunStates /\ a \in Stopping
        /\ g \in SUBSET RegModes /\ "synchrone" \notin g
    BY OutputConstants, SpeedsAreIntegers DEF SBytes, RunStates, RegModes, RegModeAtLimit, Stopping
  <2>2. stopped(r) = u /\ single(r) = v
    BY DEF MotorData
  <2> HIDE DEF z, t, p, a, g, stopped, single
  <2>3. u \in MotorData /\ u.state = a /\ u.reg = g
    BY <2>1 DEF MotorData
  <2>4. v \in MotorData /\ v.state = a /\ v.reg = g
    BY <2>1 DEF MotorData
  <2>5. QED
    BY <2>1, <2>2, <2>3, <2>4
<1>2. CASE Synchrone(d, m)
  <2> DEFINE ends == {m} \cup SyncPartner(d, m)
  <2>1. x = [k \in Motors |-> IF k \in ends THEN stopped(d[k]) ELSE d[k]]
    BY <1>2 DEF MotorReachedTachoLimit
  <2>2. m \in ends /\ \A k \in ends : k # m => Synchrone(d, k)
    BY PartnerProperties
  <2>3. \A k \in Motors : d[k] \in MotorData
    BY DEF AllMotorData
  <2> HIDE DEF x, ends, stopped, single
  <2>4. \A k \in Motors : x[k] \in MotorData
    BY <1>1, <2>1, <2>3
  <2>5. x \in AllMotorData
    BY <2>1, <2>4 DEF AllMotorData
  <2>6. x[m].state \in Stopping /\ "synchrone" \notin x[m].reg
    BY <1>1, <2>1, <2>2, <2>3
  <2>7. \A k \in Motors : k # m =>
          x[k] = d[k] \/ (Synchrone(d, k) /\ x[k].state \in Stopping)
    <3> SUFFICES ASSUME NEW k \in Motors, k # m
                 PROVE  x[k] = d[k] \/ (Synchrone(d, k) /\ x[k].state \in Stopping)
      OBVIOUS
    <3>1. CASE k \in ends
      <4>1. Synchrone(d, k) /\ x[k] = stopped(d[k])
        BY <2>1, <2>2, <3>1
      <4>2. stopped(d[k]).state \in Stopping
        BY <1>1, <2>3
      <4>3. QED
        BY <4>1, <4>2
    <3>2. CASE k \notin ends
      BY <2>1, <3>2
    <3>3. QED
      BY <3>1, <3>2
  <2>8. Controlled(d, x, m)
    BY <1>2, <2>5, <2>6, <2>7 DEF Controlled, Synchrone, Touched
  <2>9. QED
    BY <2>6, <2>8 DEF x
<1>3. CASE ~Synchrone(d, m)
  <2> DEFINE s == single(d[m])
  <2>1. x = [d EXCEPT ![m] = s]
    BY <1>3 DEF MotorReachedTachoLimit
  <2>2. d[m] \in MotorData
    BY DEF AllMotorData
  <2> HIDE DEF x, stopped, single
  <2>3. s \in MotorData /\ s.state \in Stopping /\ "synchrone" \notin s.reg
    BY <1>1, <2>2
  <2> HIDE DEF s
  <2>4. Controlled(d, x, m) /\ x[m] = s
    BY <2>1, <2>3, Alone
  <2>5. QED
    BY <2>3, <2>4 DEF x
<1>4. QED
  BY <1>2, <1>3

LEMMA RampDownSynchEffect ==
  ASSUME NEW d \in AllMotorData, NEW m \in Motors
  PROVE  LET x == RampDownSynch(d, m)
         IN  Controlled(d, x, m) /\ x[m] = d[m]
<1> DEFINE r == d[m]
           slower(k) == IF r.target >= 0
                        THEN (IF k.actual < 0 THEN SByte(k.target - 1) ELSE k.target)
                        ELSE (IF k.actual > 0 THEN SByte(k.target + 1) ELSE k.target)
           x == RampDownSynch(d, m)
<1>1. CASE Synchrone(d, m) /\ r.turn # 0
  <2>1. x = [k \in Motors |-> IF k \in SyncPartner(d, m) THEN [d[k] EXCEPT !.target = slower(d[k])]
                              ELSE d[k]]
    BY <1>1 DEF RampDownSynch
  <2>2. m \notin SyncPartner(d, m) /\ \A k \in SyncPartner(d, m) : Synchrone(d, k)
    BY PartnerProperties
  <2>3. \A k \in Motors : d[k] \in MotorData
    BY DEF AllMotorData
  <2>4. ASSUME NEW s \in MotorData
        PROVE  LET u == [s EXCEPT !.target = slower(s)] IN u \in MotorData /\ SameRun(s, u)
    <3> DEFINE t == slower(s)
               u == [s EXCEPT !.target = t]
    <3>1. s.target \in SBytes /\ s.target \in Int
      BY SpeedsAreIntegers
    <3>2. /\ s.target - 1 \in Int /\ -SpeedMax - 2 <= s.target - 1 /\ s.target - 1 <= SpeedMax + 1
          /\ s.target + 1 \in Int /\ -SpeedMax - 2 <= s.target + 1 /\ s.target + 1 <= SpeedMax + 1
      BY <3>1, OutputConstants DEF SBytes
    <3>3. SByte(s.target - 1) \in SBytes /\ SByte(s.target + 1) \in SBytes
      BY <3>2, SByteType
    <3>4. t \in SBytes
      BY <3>1, <3>3
    <3> HIDE DEF t
    <3>5. u \in MotorData /\ SameRun(s, u)
      BY <3>4 DEF MotorData, SameRun
    <3>6. QED
      BY <3>5 DEF t
  <2> HIDE DEF slower, x
  <2>5. \A k \in Motors : x[k] \in MotorData
    BY <2>1, <2>3, <2>4
  <2>6. x \in AllMotorData
    BY <2>1, <2>5 DEF AllMotorData
  <2>7. \A k \in Motors : x[k] = d[k] \/ (Synchrone(d, k) /\ SameRun(d[k], x[k]))
    <3> SUFFICES ASSUME NEW k \in Motors
                 PROVE  x[k] = d[k] \/ (Synchrone(d, k) /\ SameRun(d[k], x[k]))
      OBVIOUS
    <3>1. CASE k \in SyncPartner(d, m)
      <4>1. Synchrone(d, k) /\ x[k] = [d[k] EXCEPT !.target = slower(d[k])]
        BY <2>1, <2>2, <3>1
      <4>2. SameRun(d[k], [d[k] EXCEPT !.target = slower(d[k])])
        BY <2>3, <2>4
      <4>3. QED
        BY <4>1, <4>2, Zenon
    <3>2. CASE k \notin SyncPartner(d, m)
      BY <2>1, <3>2
    <3>3. QED
      BY <3>1, <3>2
  <2>8. x[m] = d[m]
    BY <2>1, <2>2
  <2>9. Controlled(d, x, m)
    BY <1>1, <2>6, <2>7, <2>8 DEF Controlled, Synchrone, Touched
  <2>10. QED
    BY <2>8, <2>9 DEF x
<1>2. CASE ~(Synchrone(d, m) /\ r.turn # 0)
  <2>1. x = d
    BY <1>2 DEF RampDownSynch
  <2>2. QED
    BY <2>1, Nothing
<1>3. QED
  BY <1>1, <1>2

LEMMA RampDownEndEffect ==
  ASSUME NEW d \in AllMotorData, NEW m \in Motors, d[m].state = "rampdown"
  PROVE  LET x == RampDownEnd(d, m)
         IN  Controlled(d, x, m) /\ x[m].state \in Stopping
<1> DEFINE x == RampDownEnd(d, m)
           led == SyncTachoLimitControl(d, m)
           sync == Synchrone(d, m) /\ d[m].turn # 0
<1>1. sync => x = led \/ x = MotorReachedTachoLimit(led, m)
  BY DEF RampDownEnd
<1>2. ~sync => x = d \/ x = MotorReachedTachoLimit(d, m)
  BY DEF RampDownEnd
<1> HIDE DEF x, led
<1>3. CASE sync
  <2>1. Controlled(d, led, m) /\ led[m].state \in Stopping
    BY <1>3, SyncControlled DEF led, Stopping
  <2>2. led \in AllMotorData
    BY <2>1 DEF Controlled
  <2>3. CASE x = led
    BY <2>1, <2>3 DEF x
  <2>4. CASE x = MotorReachedTachoLimit(led, m)
    <3>1. Controlled(led, x, m) /\ x[m].state \in Stopping
      BY <2>2, <2>4, ReachedEffect
    <3>2. Controlled(d, x, m)
      BY <2>1, <3>1, ControlledOn
    <3>3. QED
      BY <3>1, <3>2 DEF x
  <2>5. QED
    BY <1>1, <1>3, <2>3, <2>4
<1>4. CASE ~sync
  <2>1. CASE x = d
    BY <2>1, Nothing DEF x, Stopping
  <2>2. CASE x = MotorReachedTachoLimit(d, m)
    <3>1. Controlled(d, x, m) /\ x[m].state \in Stopping
      BY <2>2, ReachedEffect
    <3>2. QED
      BY <3>1 DEF x
  <2>3. QED
    BY <1>2, <1>4, <2>1, <2>2
<1>5. QED
  BY <1>3, <1>4

\* A ramp down goes on or ends.
LEMMA RampDownEffect ==
  ASSUME NEW d \in AllMotorData, NEW m \in Motors, d[m].state = "rampdown", NEW x \in RampDown(d, m)
  PROVE  Controlled(d, x, m) /\ x[m].state \in Stopping
<1> DEFINE r == d[m]
           step == IF r.target > 0
                   THEN (IF r.target - 1 < MinPower THEN MinPower ELSE r.target - 1)
                   ELSE (IF r.target + 1 > -MinPower THEN -MinPower ELSE r.target + 1)
           help == IF r.target > 0 THEN SByte(r.target + 1) ELSE SByte(r.target - 1)
           at(t) == [d EXCEPT ![m] = [r EXCEPT !.target = t]]
<1>1. PICK y : /\ y = d \/ y = RampDownSynch(at(step), m) \/ y = at(help)
               /\ x = Unregulated(RampDownEnd(y, m), m)
  <2>1. \A t : [d EXCEPT ![m].target = t] = at(t)
    BY DEF AllMotorData
  <2> HIDE DEF at
  <2>2. QED
    BY <2>1 DEF RampDown
<1>2. r \in MotorData
  BY DEF AllMotorData
<1>3. r.target \in SBytes /\ r.target \in Int
  BY <1>2, SpeedsAreIntegers
<1>4. step \in SBytes
  BY <1>3, OutputConstants DEF SBytes
<1>5. help \in SBytes
  <2>1. /\ r.target - 1 \in Int /\ -SpeedMax - 2 <= r.target - 1 /\ r.target - 1 <= SpeedMax + 1
        /\ r.target + 1 \in Int /\ -SpeedMax - 2 <= r.target + 1 /\ r.target + 1 <= SpeedMax + 1
    BY <1>3, OutputConstants DEF SBytes
  <2>2. SByte(r.target - 1) \in SBytes /\ SByte(r.target + 1) \in SBytes
    BY <2>1, SByteType
  <2>3. QED
    BY <2>2
<1>6. ASSUME NEW t \in SBytes
      PROVE  Controlled(d, at(t), m) /\ at(t)[m].state = "rampdown"
  <2> DEFINE s == [r EXCEPT !.target = t]
  <2>1. at(t) = [d EXCEPT ![m] = s] /\ r.state = "rampdown"
    OBVIOUS
  <2>2. r = d[m]
    OBVIOUS
  <2> HIDE DEF r, at
  <2>3. s \in MotorData /\ s.state = r.state /\ s.reg = r.reg
    BY <1>2 DEF MotorData
  <2> HIDE DEF s
  <2>4. /\ Controlled(d, [d EXCEPT ![m] = s], m)
        /\ [d EXCEPT ![m] = s][m] = s
    <3>1. "synchrone" \in s.reg => "synchrone" \in d[m].reg
      BY <2>2, <2>3
    <3>2. QED
      BY <2>3, <3>1, Alone
  <2>5. QED
    BY <2>1, <2>3, <2>4
<1> HIDE DEF at, step, help
<1>7. Controlled(d, y, m) /\ y[m].state = "rampdown"
  <2>1. CASE y = d
    BY <2>1, Nothing
  <2>2. CASE y = at(help)
    BY <1>5, <1>6, <2>2
  <2>3. CASE y = RampDownSynch(at(step), m)
    <3>1. Controlled(d, at(step), m) /\ at(step)[m].state = "rampdown" /\ at(step) \in AllMotorData
      BY <1>4, <1>6 DEF Controlled
    <3>2. Controlled(at(step), y, m) /\ y[m] = at(step)[m]
      BY <2>3, <3>1, RampDownSynchEffect
    <3>3. QED
      BY <3>1, <3>2, ControlledOn
  <2>4. QED
    BY <1>1, <2>1, <2>2, <2>3
<1> DEFINE e == RampDownEnd(y, m)
<1>8. Controlled(y, e, m) /\ e[m].state \in Stopping
  BY <1>7, RampDownEndEffect DEF Controlled
<1>9. x = Unregulated(e, m)
  BY <1>1
<1> HIDE DEF e
<1>10. Controlled(e, x, m) /\ SameRun(e[m], x[m])
  BY <1>8, <1>9, UnregulatedEffect DEF Controlled
<1>11. Controlled(d, e, m)
  BY <1>7, <1>8, ControlledOn
<1>12. Controlled(d, x, m)
  BY <1>10, <1>11, ControlledOn
<1>13. QED
  BY <1>8, <1>10, <1>12 DEF SameRun

LEMMA IdleEffect ==
  ASSUME NEW d \in AllMotorData, NEW m \in Motors
  PROVE  LET x == IdleControl(d, m)
         IN  /\ Controlled(d, x, m)
             /\ \A k \in Motors : k # m => x[k] = d[k]
             /\ x[m].state = d[m].state /\ x[m].reg = d[m].reg /\ x[m].forever = d[m].forever
             /\ x[m].actual = TowardsZero(d[m].actual) /\ ~x[m].brake
<1> DEFINE r == d[m]
           a == TowardsZero(r.actual)
           t == TowardsZero(r.target)
           z == TowardsZero(r.set)
           s == [r EXCEPT !.brake = FALSE, !.actual = a, !.target = t, !.set = z]
           x == IdleControl(d, m)
<1>1. x = [d EXCEPT ![m] = s]
  BY DEF IdleControl, AllMotorData
<1>2. r \in MotorData
  BY DEF AllMotorData
<1> HIDE DEF x, r
<1>3. \A v \in SBytes : TowardsZero(v) \in SBytes
  BY OutputConstants DEF SBytes, TowardsZero
<1>4. a \in SBytes /\ t \in SBytes /\ z \in SBytes
  BY <1>2, <1>3, SpeedsAreIntegers
<1> HIDE DEF a, t, z
<1>5. /\ s \in MotorData /\ s.state = r.state /\ s.reg = r.reg /\ s.forever = r.forever
      /\ s.actual = a /\ ~s.brake
  BY <1>2, <1>4 DEF MotorData
<1> HIDE DEF s
<1>6. Controlled(d, x, m) /\ x[m] = s
  BY <1>1, <1>5, Alone DEF r
<1>7. \A k \in Motors : k # m => x[k] = d[k]
  BY <1>1 DEF AllMotorData
<1>8. QED
  BY <1>5, <1>6, <1>7 DEF r, a, x

LEMMA HoldEffect ==
  ASSUME NEW d \in AllMotorData, NEW m \in Motors
  PROVE  LET x == Hold(d, m)
         IN  /\ Controlled(d, x, m)
             /\ \A k \in Motors : k # m => x[k] = d[k]
             /\ x[m].state = "running" /\ x[m].set = 0
<1> DEFINE r == d[m]
           z == 0
           s == [r EXCEPT !.set = z, !.actual = z, !.target = z, !.state = "running"]
           x == Hold(d, m)
<1>1. x = [d EXCEPT ![m] = s]
  BY DEF Hold, AllMotorData
<1>2. r \in MotorData
  BY DEF AllMotorData
<1>3. z \in SBytes
  BY OutputConstants DEF SBytes
<1> HIDE DEF x, r, z
<1>4. s \in MotorData /\ s.state = "running" /\ s.reg = r.reg /\ s.set = z
  BY <1>2, <1>3 DEF MotorData, RunStates
<1> HIDE DEF s
<1>5. Controlled(d, x, m) /\ x[m] = s
  BY <1>1, <1>4, Alone DEF r
<1>6. \A k \in Motors : k # m => x[k] = d[k]
  BY <1>1 DEF AllMotorData
<1>7. QED
  BY <1>4, <1>5, <1>6 DEF z, x

\* Regulation changes the power, and the target of a motor that goes to a position.
LEMMA RegulatedEffect ==
  ASSUME NEW d \in AllMotorData, NEW m \in Motors, NEW x \in Regulated(d, m)
  PROVE  /\ Controlled(d, x, m)
         /\ \A k \in Motors : SameRun(d[k], x[k])
         /\ d[m].reg # {}
<1>1. \A k \in Motors : d[k] \in MotorData
  BY DEF AllMotorData
<1>2. /\ d[m].reg # {}
      /\ \/ x \in PositionRegulation(d, m)
         \/ x \in SpeedRegulation(d, m)
         \/ /\ d[m].reg = {"synchrone"}
            /\ \E k \in SyncStatus(d, m) : x \in SyncRegulation(d, m, k)
  <2> DEFINE R1 == PositionRegulation(d, m)
             R2 == SpeedRegulation(d, m)
             R3 == UNION {SyncRegulation(d, m, k) : k \in SyncStatus(d, m)}
             g == d[m].reg
  <2>1. /\ "position" \in g => Regulated(d, m) = R1
        /\ "position" \notin g /\ "regulated" \in g => Regulated(d, m) = R2
        /\ "position" \notin g /\ "regulated" \notin g /\ g = {"synchrone"} => Regulated(d, m) = R3
        /\ g = {} => Regulated(d, m) = {}
    BY DEF Regulated
  <2>2. g \in SUBSET RegModes
    BY <1>1, SpeedsAreIntegers
  <2>3. x \in R3 => \E k \in SyncStatus(d, m) : x \in SyncRegulation(d, m, k)
    OBVIOUS
  <2> HIDE DEF R1, R2, R3, g
  <2>4. \/ "position" \in g
        \/ "position" \notin g /\ "regulated" \in g
        \/ "position" \notin g /\ "regulated" \notin g /\ g = {"synchrone"}
        \/ g = {}
    BY <2>2 DEF RegModes
  <2>5. QED
    BY <2>1, <2>3, <2>4 DEF R1, R2, g
<1>3. ASSUME NEW p \in SBytes, NEW t \in SBytes, NEW j \in Motors
      PROVE  LET s == [d[j] EXCEPT !.actual = p]
                 u == [d[j] EXCEPT !.actual = p, !.target = t]
             IN  /\ s \in MotorData /\ SameRun(d[j], s)
                 /\ u \in MotorData /\ SameRun(d[j], u)
  <2> DEFINE r == d[j]
  <2>1. r \in MotorData
    BY <1>1
  <2> HIDE DEF r
  <2>2. LET s == [r EXCEPT !.actual = p]
        IN  s \in MotorData /\ SameRun(r, s)
    BY <2>1 DEF MotorData, SameRun
  <2>3. LET u == [r EXCEPT !.actual = p, !.target = t]
        IN  u \in MotorData /\ SameRun(r, u)
    BY <2>1 DEF MotorData, SameRun
  <2>4. QED
    BY <2>2, <2>3 DEF r
<1>4. ASSUME NEW s \in MotorData, SameRun(d[m], s), x = [d EXCEPT ![m] = s]
      PROVE  Controlled(d, x, m) /\ \A k \in Motors : SameRun(d[k], x[k])
  <2>1. Controlled(d, x, m) /\ x[m] = s
    BY <1>4, Alone DEF SameRun
  <2>2. \A k \in Motors : k # m => x[k] = d[k]
    BY <1>4 DEF AllMotorData
  <2>3. QED
    BY <1>4, <2>1, <2>2 DEF SameRun
<1>5. CASE x \in PositionRegulation(d, m)
  <2>1. PICK p \in Powers, t \in Powers : x = [d EXCEPT ![m].actual = p, ![m].target = t]
    BY <1>5 DEF PositionRegulation, PIDRegulation
  <2> DEFINE s == [d[m] EXCEPT !.actual = p, !.target = t]
  <2>2. x = [d EXCEPT ![m] = s]
    BY <2>1 DEF AllMotorData
  <2>3. s \in MotorData /\ SameRun(d[m], s)
    BY <1>3, OutputConstants
  <2> HIDE DEF s
  <2>4. QED
    BY <1>2, <1>4, <2>2, <2>3
<1>6. CASE x \in SpeedRegulation(d, m)
  <2>1. PICK p \in Powers : x = [d EXCEPT ![m].actual = p]
    BY <1>6 DEF SpeedRegulation, PIDRegulation
  <2> DEFINE s == [d[m] EXCEPT !.actual = p]
  <2>2. x = [d EXCEPT ![m] = s]
    BY <2>1 DEF AllMotorData
  <2>3. s \in MotorData /\ SameRun(d[m], s)
    BY <1>3, OutputConstants
  <2> HIDE DEF s
  <2>4. QED
    BY <1>2, <1>4, <2>2, <2>3
<1>7. ASSUME d[m].reg = {"synchrone"}, NEW k \in SyncStatus(d, m), x \in SyncRegulation(d, m, k)
      PROVE  Controlled(d, x, m) /\ \A j \in Motors : SameRun(d[j], x[j])
  <2>1. k \in Motors /\ k # m /\ Synchrone(d, k)
    BY OutputConstants DEF SyncStatus, Motors
  <2>2. PICK p \in Powers, q \in Powers : x = [d EXCEPT ![m].actual = p, ![k].actual = q]
    <3> DEFINE bounded(r) == IF d[m].turn = 0 THEN Powers ELSE {p \in Powers : Abs(p) <= Abs(r.target)}
               P == bounded(d[m])
               Q == bounded(d[k])
               powered(p) == {[d EXCEPT ![m].actual = p, ![k].actual = q] : q \in Q}
    <3>1. x \in UNION {powered(p) : p \in P}
      BY <1>7 DEF SyncRegulation
    <3>2. P \subseteq Powers /\ Q \subseteq Powers
      OBVIOUS
    <3> HIDE DEF P, Q
    <3>3. PICK p \in P : x \in powered(p)
      BY <3>1
    <3>4. PICK q \in Q : x = [d EXCEPT ![m].actual = p, ![k].actual = q]
      BY <3>3
    <3>5. p \in Powers /\ q \in Powers
      BY <3>2
    <3>6. QED
      BY <3>4, <3>5, Zenon
  <2> DEFINE s == [d[m] EXCEPT !.actual = p]
             u == [d[k] EXCEPT !.actual = q]
  <2>3. x = [d EXCEPT ![m] = s, ![k] = u]
    BY <2>1, <2>2 DEF AllMotorData
  <2>4. s \in MotorData /\ SameRun(d[m], s) /\ u \in MotorData /\ SameRun(d[k], u)
    BY <1>3, <2>1, OutputConstants
  <2> HIDE DEF s, u
  <2>5. /\ x \in AllMotorData /\ x[m] = s /\ x[k] = u
        /\ \A j \in Motors : j # m /\ j # k => x[j] = d[j]
    BY <2>1, <2>3, <2>4 DEF AllMotorData
  <2>6. \A j \in Motors : SameRun(d[j], x[j])
    BY <2>4, <2>5 DEF SameRun
  <2>7. Synchrone(d, m)
    BY <1>7 DEF Synchrone
  <2>8. QED
    BY <2>1, <2>5, <2>6, <2>7 DEF Controlled, Touched
<1>8. QED
  BY <1>2, <1>5, <1>6, <1>7

-----------------------------------------------------------------------------
(***************************************************************************)
(* The control of one motor.                                               *)
(***************************************************************************)
\* What comes through the stages of a round.
LEMMA Stages ==
  ASSUME NEW d \in AllMotorData, NEW m \in Motors, NEW x \in MotorCtrl(d, m)
  PROVE  \E a, b, c, e, f, g :
           /\ a \in Counted(d, m)
           /\ IF a[m].state = "rampup" THEN b \in RampUp(a, m) ELSE b = a
           /\ IF b[m].state = "rampdown" THEN c \in RampDown(b, m) ELSE c = b
           /\ e = IF c[m].state = "running" THEN TachoLimitControl(c, m) ELSE c
           /\ f = IF e[m].state = "idle" THEN IdleControl(e, m) ELSE e
           /\ g = IF f[m].state = "hold" THEN Hold(f, m) ELSE f
           /\ x = g \/ x \in Regulated(g, m)
<1> DEFINE up == UNION {IF y[m].state = "rampup" THEN RampUp(y, m) ELSE {y} : y \in Counted(d, m)}
           down == UNION {IF y[m].state = "rampdown" THEN RampDown(y, m) ELSE {y} : y \in up}
           run == {IF y[m].state = "running" THEN TachoLimitControl(y, m) ELSE y : y \in down}
           idle == {IF y[m].state = "idle" THEN IdleControl(y, m) ELSE y : y \in run}
           held == {IF y[m].state = "hold" THEN Hold(y, m) ELSE y : y \in idle}
<1>1. x \in held \cup UNION {Regulated(y, m) : y \in held}
  BY DEF MotorCtrl
<1> HIDE DEF held
<1>2. PICK g \in held : x = g \/ x \in Regulated(g, m)
  BY <1>1
<1> USE DEF held
<1> HIDE DEF idle
<1>3. PICK f \in idle : g = IF f[m].state = "hold" THEN Hold(f, m) ELSE f
  OBVIOUS
<1> USE DEF idle
<1> HIDE DEF run
<1>4. PICK e \in run : f = IF e[m].state = "idle" THEN IdleControl(e, m) ELSE e
  OBVIOUS
<1> USE DEF run
<1> HIDE DEF down
<1>5. PICK c \in down : e = IF c[m].state = "running" THEN TachoLimitControl(c, m) ELSE c
  OBVIOUS
<1> USE DEF down
<1> HIDE DEF up
<1>6. PICK b \in up : IF b[m].state = "rampdown" THEN c \in RampDown(b, m) ELSE c = b
  <2>1. PICK b \in up : c \in IF b[m].state = "rampdown" THEN RampDown(b, m) ELSE {b}
    OBVIOUS
  <2>2. QED
    BY <2>1
<1> USE DEF up
<1>7. PICK a \in Counted(d, m) : IF a[m].state = "rampup" THEN b \in RampUp(a, m) ELSE b = a
  <2>1. PICK a \in Counted(d, m) : b \in IF a[m].state = "rampup" THEN RampUp(a, m) ELSE {a}
    OBVIOUS
  <2>2. QED
    BY <2>1
<1> HIDE DEF up, down, run, idle, held
<1>8. QED
  <2> WITNESS a, b, c, e, f, g
  <2>1. QED
    BY <1>2, <1>3, <1>4, <1>5, <1>6, <1>7

\* An idle motor without regulation runs down.
RunsDown(r, s) ==
  /\ s.state = "idle" /\ s.reg = {} /\ s.forever = r.forever /\ ~s.brake
  /\ s.actual = TowardsZero(r.actual)

\* Two that run together go on, or both leave the run.
Together(d, x, m, k) ==
  \/ SameMove(d[m], x[m]) /\ SameMove(d[k], x[k])
  \/ ~Underway(x[m]) /\ x[k].state \in Stopping

LEMMA MotorCtrlEffect ==
  ASSUME NEW d \in AllMotorData, NEW m \in Motors, NEW x \in MotorCtrl(d, m)
  PROVE  /\ Controlled(d, x, m)
         /\ Fine(x[m])
         /\ d[m].state \in Stopping => ~Underway(x[m])
         /\ d[m].state = "idle" /\ d[m].reg = {} => RunsDown(d[m], x[m])
         /\ Underway(d[m]) /\ Synchrone(d, m) =>
              \A k \in SyncPartner(d, m) : Together(d, x, m, k)
<1>1. PICK a, b, c, e, f, g :
           /\ a \in Counted(d, m)
           /\ IF a[m].state = "rampup" THEN b \in RampUp(a, m) ELSE b = a
           /\ IF b[m].state = "rampdown" THEN c \in RampDown(b, m) ELSE c = b
           /\ e = IF c[m].state = "running" THEN TachoLimitControl(c, m) ELSE c
           /\ f = IF e[m].state = "idle" THEN IdleControl(e, m) ELSE e
           /\ g = IF f[m].state = "hold" THEN Hold(f, m) ELSE f
           /\ x = g \/ x \in Regulated(g, m)
  BY Stages, Zenon
<1>2. /\ Controlled(d, a, m) /\ a \in AllMotorData
      /\ \A k \in Motors : k # m => a[k] = d[k]
      /\ Kept(d[m], a[m])
  BY <1>1, CountedEffect DEF Controlled
<1>3. /\ Controlled(d, b, m) /\ b \in AllMotorData
      /\ b[m].state = "rampup" => Fine(b[m])
      /\ a[m].state = "rampup" => b[m].state \in {"rampup", "idle", "hold"}
      /\ a[m].state # "rampup" => b = a
  <2>1. CASE a[m].state = "rampup"
    <3>1. b \in RampUp(a, m)
      BY <1>1, <2>1
    <3>2. Controlled(a, b, m) /\ Fine(b[m]) /\ b[m].state \in {"rampup", "idle", "hold"}
      BY <1>2, <2>1, <3>1, RampUpEffect
    <3>3. Controlled(d, b, m)
      BY <1>2, <3>2, ControlledOn
    <3>4. QED
      BY <2>1, <3>2, <3>3 DEF Controlled
  <2>2. CASE a[m].state # "rampup"
    BY <1>1, <1>2, <2>2
  <2>3. QED
    BY <2>1, <2>2
<1>4. /\ Controlled(d, c, m) /\ c \in AllMotorData
      /\ c[m].state = "rampup" => Fine(c[m])
      /\ b[m].state \in Stopping => c[m].state \in Stopping
      /\ b[m].state # "rampdown" => c = b
  <2>1. CASE b[m].state = "rampdown"
    <3>1. c \in RampDown(b, m)
      BY <1>1, <2>1
    <3>2. Controlled(b, c, m) /\ c[m].state \in Stopping
      BY <1>3, <2>1, <3>1, RampDownEffect
    <3>3. Controlled(d, c, m)
      BY <1>3, <3>2, ControlledOn
    <3>4. QED
      BY <2>1, <3>2, <3>3 DEF Controlled, Stopping
  <2>2. CASE b[m].state # "rampdown"
    BY <1>1, <1>3, <2>2
  <2>3. QED
    BY <2>1, <2>2
<1>5. /\ Controlled(d, e, m) /\ e \in AllMotorData /\ Fine(e[m])
      /\ c[m].state # "running" => e = c
      /\ c[m].state = "running" /\ Synchrone(c, m) =>
           \A k \in SyncPartner(c, m) :
             \/ SameMove(c[m], e[m]) /\ SameMove(c[k], e[k])
             \/ e[m].state \in Stopping /\ e[k].state \in Stopping
  <2>1. CASE c[m].state = "running"
    <3>1. e = TachoLimitControl(c, m)
      BY <1>1, <2>1
    <3>2. /\ Controlled(c, e, m) /\ Fine(e[m])
          /\ Synchrone(c, m) =>
               \A k \in SyncPartner(c, m) :
                 \/ SameMove(c[m], e[m]) /\ SameMove(c[k], e[k])
                 \/ e[m].state \in Stopping /\ e[k].state \in Stopping
      BY <1>4, <2>1, <3>1, TachoEffect
    <3>3. Controlled(d, e, m)
      BY <1>4, <3>2, ControlledOn
    <3>4. QED
      BY <2>1, <3>2, <3>3 DEF Controlled
  <2>2. CASE c[m].state # "running"
    <3>1. e = c
      BY <1>1, <2>2
    <3>2. Fine(e[m])
      BY <1>4, <2>2, <3>1 DEF Fine
    <3>3. QED
      BY <1>4, <2>2, <3>1, <3>2
  <2>3. QED
    BY <2>1, <2>2
<1>6. /\ Controlled(d, f, m) /\ f \in AllMotorData /\ Fine(f[m])
      /\ \A k \in Motors : k # m => f[k] = e[k]
      /\ e[m].state # "idle" => f = e
      /\ e[m].state = "idle" =>
           /\ f[m].state = "idle" /\ f[m].reg = e[m].reg /\ f[m].forever = e[m].forever
           /\ f[m].actual = TowardsZero(e[m].actual) /\ ~f[m].brake
  <2>1. CASE e[m].state = "idle"
    <3>1. f = IdleControl(e, m)
      BY <1>1, <2>1
    <3>2. /\ Controlled(e, f, m)
          /\ \A k \in Motors : k # m => f[k] = e[k]
          /\ f[m].state = e[m].state /\ f[m].reg = e[m].reg /\ f[m].forever = e[m].forever
          /\ f[m].actual = TowardsZero(e[m].actual) /\ ~f[m].brake
      BY <1>5, <3>1, IdleEffect
    <3>3. Controlled(d, f, m)
      BY <1>5, <3>2, ControlledOn
    <3>4. Fine(f[m])
      BY <2>1, <3>2 DEF Fine
    <3>5. QED
      BY <2>1, <3>2, <3>3, <3>4 DEF Controlled
  <2>2. CASE e[m].state # "idle"
    BY <1>1, <1>5, <2>2
  <2>3. QED
    BY <2>1, <2>2
<1>7. /\ Controlled(d, g, m) /\ g \in AllMotorData /\ Fine(g[m])
      /\ \A k \in Motors : k # m => g[k] = f[k]
      /\ f[m].state # "hold" => g = f
      /\ f[m].state \in Stopping => ~Underway(g[m])
  <2>1. CASE f[m].state = "hold"
    <3>1. g = Hold(f, m)
      BY <1>1, <2>1
    <3>2. /\ Controlled(f, g, m)
          /\ \A k \in Motors : k # m => g[k] = f[k]
          /\ g[m].state = "running" /\ g[m].set = 0
      BY <1>6, <3>1, HoldEffect
    <3>3. Controlled(d, g, m)
      BY <1>6, <3>2, ControlledOn
    <3>4. Fine(g[m])
      BY <3>2 DEF Fine
    <3>5. QED
      BY <2>1, <3>2, <3>3, <3>4 DEF Controlled, Underway
  <2>2. CASE f[m].state # "hold"
    BY <1>1, <1>6, <2>2 DEF Underway, Stopping
  <2>3. QED
    BY <2>1, <2>2
<1>8. /\ Controlled(d, x, m)
      /\ \A k \in Motors : SameRun(g[k], x[k])
      /\ g[m].reg = {} => x = g
  <2>1. CASE x = g
    BY <1>7, <2>1 DEF SameRun
  <2>2. CASE x \in Regulated(g, m)
    <3>1. /\ Controlled(g, x, m)
          /\ \A k \in Motors : SameRun(g[k], x[k])
          /\ g[m].reg # {}
      BY <1>7, <2>2, RegulatedEffect
    <3>2. Controlled(d, x, m)
      BY <1>7, <3>1, ControlledOn
    <3>3. QED
      BY <3>1, <3>2
  <2>3. QED
    BY <1>1, <2>1, <2>2
<1>9. Fine(x[m])
  BY <1>7, <1>8 DEF Fine, SameRun
<1>10. ASSUME d[m].state \in Stopping PROVE ~Underway(x[m])
  <2>1. a[m].state \in Stopping
    BY <1>2, <1>10 DEF Kept
  <2>2. b[m].state \in Stopping
    BY <1>3, <2>1 DEF Stopping
  <2>3. c[m].state \in Stopping
    BY <1>4, <2>2
  <2>4. e[m].state \in Stopping
    BY <1>5, <2>3 DEF Stopping
  <2>5. f[m].state \in Stopping
    BY <1>6, <2>4 DEF Stopping
  <2>6. QED
    BY <1>7, <1>8, <2>5 DEF Underway, SameRun
<1>11. ASSUME d[m].state = "idle", d[m].reg = {} PROVE RunsDown(d[m], x[m])
  <2>1. e = a /\ a[m].state = "idle" /\ a[m].reg = {}
    BY <1>2, <1>3, <1>4, <1>5, <1>11 DEF Kept
  <2>2. RunsDown(d[m], f[m])
    BY <1>2, <1>6, <1>11, <2>1 DEF RunsDown, Kept
  <2>3. x = f
    BY <1>7, <1>8, <2>2 DEF RunsDown
  <2>4. QED
    BY <2>2, <2>3
<1>12. ASSUME Underway(d[m]), Synchrone(d, m), NEW k \in SyncPartner(d, m)
       PROVE  Together(d, x, m, k)
  <2>1. k \in Motors /\ k # m
    BY PartnerProperties
  <2>2. c = a /\ a[m].state = "running" /\ SameMove(d[m], a[m]) /\ a[k] = d[k]
    BY <1>2, <1>3, <1>4, <1>12, <2>1 DEF Underway, Kept, SameMove
  <2>3. Synchrone(c, m)
    BY <1>12, <2>2 DEF Synchrone, SameMove
  <2>4. k \in SyncPartner(c, m)
    <3>1. \A j \in Motors : j # m => (Synchrone(c, j) <=> Synchrone(d, j))
      BY <1>2, <2>2 DEF Synchrone
    <3>2. QED
      BY <1>12, <3>1 DEF SyncPartner
  <2>5. CASE SameMove(c[m], e[m]) /\ SameMove(c[k], e[k])
    <3>1. g = e
      BY <1>6, <1>7, <2>2, <2>5 DEF SameMove
    <3>2. QED
      BY <1>8, <2>1, <2>2, <2>5, <3>1 DEF Together, SameMove, SameRun
  <2>6. CASE e[m].state \in Stopping /\ e[k].state \in Stopping
    <3>1. f[m].state \in Stopping
      BY <1>6, <2>6 DEF Stopping
    <3>2. ~Underway(x[m])
      BY <1>7, <1>8, <3>1 DEF Underway, SameRun
    <3>3. g[k] = e[k]
      BY <1>6, <1>7, <2>1
    <3>4. x[k].state \in Stopping
      BY <1>8, <2>1, <2>6, <3>3 DEF SameRun
    <3>5. QED
      BY <3>2, <3>4 DEF Together
  <2>7. QED
    BY <1>5, <2>2, <2>3, <2>4, <2>5, <2>6
<1>13. QED
  BY <1>8, <1>9, <1>10, <1>11, <1>12

-----------------------------------------------------------------------------
(***************************************************************************)
(* A round.                                                                *)
(***************************************************************************)
\* Induction over the motors.
LEMMA UpTo ==
  ASSUME NEW S, 0 \in S, \A n \in 1 .. NumOutputs : n - 1 \in S => n \in S
  PROVE  \A n \in 0 .. NumOutputs : n \in S
<1>1. NumOutputs \in {1, 2, 3}
  BY OutputConstants
<1>2. 1 \in S
  BY <1>1
<1>3. NumOutputs >= 2 => 2 \in S
  BY <1>1, <1>2
<1>4. NumOutputs >= 3 => 3 \in S
  BY <1>1, <1>3
<1>5. QED
  BY <1>1, <1>2, <1>3, <1>4

\* The orders of the first n motors.
LEMMA OrdersTaken ==
  \E u : u = [n \in 0 .. NumOutputs |-> IF n = 0 THEN md ELSE Update(u[n - 1], n - 1, out[n - 1])]
<1> DEFINE After(d, m) == Update(d, m, out[m])
           d1 == After(md, 0)
           d2 == After(d1, 1)
           d3 == After(d2, 2)
           u == [n \in 0 .. NumOutputs |->
                   IF n = 0 THEN md ELSE IF n = 1 THEN d1 ELSE IF n = 2 THEN d2 ELSE d3]
<1>1. NumOutputs \in {1, 2, 3}
  BY OutputConstants
<1>2. d1 = After(md, 0) /\ d2 = After(d1, 1) /\ d3 = After(d2, 2)
  OBVIOUS
<1> HIDE DEF After, d1, d2, d3
<1>3. u = [n \in 0 .. NumOutputs |-> IF n = 0 THEN md ELSE After(u[n - 1], n - 1)]
  <2> SUFFICES ASSUME NEW n \in 0 .. NumOutputs
               PROVE  u[n] = IF n = 0 THEN md ELSE After(u[n - 1], n - 1)
    OBVIOUS
  <2>1. n \in {0, 1, 2, 3}
    BY <1>1
  <2>2. QED
    BY <1>1, <1>2, <2>1
<1> HIDE DEF u
<1>4. QED
  BY <1>3 DEF After

\* The outcomes of the control of the first n motors.
LEMMA OutcomesReached ==
  ASSUME NEW d0
  PROVE  \E w : w = [n \in 0 .. NumOutputs |->
                       IF n = 0 THEN {d0} ELSE UNION {MotorCtrl(d, n - 1) : d \in w[n - 1]}]
<1> DEFINE After(s, m) == UNION {MotorCtrl(d, m) : d \in s}
           s0 == {d0}
           s1 == After(s0, 0)
           s2 == After(s1, 1)
           s3 == After(s2, 2)
           w == [n \in 0 .. NumOutputs |->
                   IF n = 0 THEN s0 ELSE IF n = 1 THEN s1 ELSE IF n = 2 THEN s2 ELSE s3]
<1>1. NumOutputs \in {1, 2, 3}
  BY OutputConstants
<1>2. s1 = After(s0, 0) /\ s2 = After(s1, 1) /\ s3 = After(s2, 2)
  OBVIOUS
<1> HIDE DEF After, s1, s2, s3
<1>3. w = [n \in 0 .. NumOutputs |-> IF n = 0 THEN s0 ELSE After(w[n - 1], n - 1)]
  <2> SUFFICES ASSUME NEW n \in 0 .. NumOutputs
               PROVE  w[n] = IF n = 0 THEN s0 ELSE After(w[n - 1], n - 1)
    OBVIOUS
  <2>1. n \in {0, 1, 2, 3}
    BY <1>1
  <2>2. QED
    BY <1>1, <1>2, <2>1
<1> HIDE DEF w
<1>4. QED
  BY <1>3 DEF After

\* A round takes the orders of one motor after the other, then controls one after the other.
LEMMA Round ==
  ASSUME cOutputCtrl
  PROVE  \E u, v :
           /\ u[0] = md
           /\ \A n \in 1 .. NumOutputs : u[n] = Update(u[n - 1], n - 1, out[n - 1])
           /\ v[0] = u[NumOutputs]
           /\ \A n \in 1 .. NumOutputs : v[n] \in MotorCtrl(v[n - 1], n - 1)
           /\ md' = v[NumOutputs]
<1>1. NumOutputs \in {1, 2, 3}
  BY OutputConstants
<1>2. \E u, w :
        /\ u = [n \in 0 .. NumOutputs |-> IF n = 0 THEN md ELSE Update(u[n - 1], n - 1, out[n - 1])]
        /\ w = [n \in 0 .. NumOutputs |-> IF n = 0 THEN {u[NumOutputs]}
                                          ELSE UNION {MotorCtrl(d, n - 1) : d \in w[n - 1]}]
        /\ md' \in w[NumOutputs]
  <2> DEFINE u[n \in 0 .. NumOutputs] ==
               IF n = 0 THEN md ELSE Update(u[n - 1], n - 1, out[n - 1])
             w[n \in 0 .. NumOutputs] ==
               IF n = 0 THEN {u[NumOutputs]} ELSE UNION {MotorCtrl(d, n - 1) : d \in w[n - 1]}
  <2>1. md' \in w[NumOutputs]
    BY DEF cOutputCtrl
  <2>2. u = [n \in 0 .. NumOutputs |-> IF n = 0 THEN md ELSE Update(u[n - 1], n - 1, out[n - 1])]
    BY OrdersTaken
  <2> HIDE DEF u
  <2>3. \E z : z = [n \in 0 .. NumOutputs |-> IF n = 0 THEN {u[NumOutputs]}
                                            ELSE UNION {MotorCtrl(d, n - 1) : d \in z[n - 1]}]
    BY OutcomesReached, Zenon
  <2>4. w = [n \in 0 .. NumOutputs |-> IF n = 0 THEN {u[NumOutputs]}
                                       ELSE UNION {MotorCtrl(d, n - 1) : d \in w[n - 1]}]
    BY <2>3
  <2> HIDE DEF w
  <2>5. QED
    BY <2>1, <2>2, <2>4
<1>3. PICK u, w :
        /\ u = [n \in 0 .. NumOutputs |-> IF n = 0 THEN md ELSE Update(u[n - 1], n - 1, out[n - 1])]
        /\ w = [n \in 0 .. NumOutputs |-> IF n = 0 THEN {u[NumOutputs]}
                                          ELSE UNION {MotorCtrl(d, n - 1) : d \in w[n - 1]}]
        /\ md' \in w[NumOutputs]
  BY <1>2
<1>4. u[0] = md /\ \A n \in 1 .. NumOutputs : u[n] = Update(u[n - 1], n - 1, out[n - 1])
  BY <1>1, <1>3
<1> DEFINE After(n) == UNION {MotorCtrl(d, n - 1) : d \in w[n - 1]}
<1>4a. w = [n \in 0 .. NumOutputs |-> IF n = 0 THEN {u[NumOutputs]} ELSE After(n)]
  BY <1>3
<1> HIDE DEF After
<1>5. w[0] = {u[NumOutputs]}
  BY <1>4a, <1>1
<1>6. \A n \in 1 .. NumOutputs : w[n] = UNION {MotorCtrl(d, n - 1) : d \in w[n - 1]}
  <2>1. \A n \in 1 .. NumOutputs : w[n] = After(n)
    BY <1>4a, <1>1
  <2>2. QED
    BY <2>1 DEF After
<1>7. \A n \in 1 .. NumOutputs : \A x \in w[n] : \E d \in w[n - 1] : x \in MotorCtrl(d, n - 1)
  BY <1>6
<1> DEFINE Reached(v, n, x) == /\ v[0] = u[NumOutputs]
                               /\ \A i \in 1 .. n : v[i] \in MotorCtrl(v[i - 1], i - 1)
                               /\ v[n] = x
           S == {n \in 0 .. NumOutputs : \A x \in w[n] : \E v : Reached(v, n, x)}
<1>8. 0 \in S
  <2> SUFFICES ASSUME NEW x \in w[0] PROVE \E v : Reached(v, 0, x)
    BY <1>1
  <2> DEFINE v == [i \in {0} |-> x]
  <2>1. Reached(v, 0, x)
    BY <1>5
  <2> HIDE DEF v
  <2>2. QED
    BY <2>1
<1>9. ASSUME NEW n \in 1 .. NumOutputs, n - 1 \in S
      PROVE  n \in S
  <2> SUFFICES ASSUME NEW x \in w[n] PROVE \E v : Reached(v, n, x)
    BY <1>1
  <2>1. PICK d \in w[n - 1] : x \in MotorCtrl(d, n - 1)
    BY <1>7
  <2>2. PICK a : Reached(a, n - 1, d)
    BY <1>9
  <2> DEFINE v == [i \in 0 .. n |-> IF i = n THEN x ELSE a[i]]
  <2>3. n \in Int /\ n >= 1
    BY <1>1
  <2>4. v[n] = x /\ \A i \in 0 .. n - 1 : v[i] = a[i]
    BY <2>3
  <2> HIDE DEF v
  <2>5. v[0] = u[NumOutputs]
    BY <2>2, <2>3, <2>4
  <2>6. ASSUME NEW i \in 1 .. n PROVE v[i] \in MotorCtrl(v[i - 1], i - 1)
    <3>1. CASE i = n
      BY <2>1, <2>2, <2>3, <2>4, <3>1
    <3>2. CASE i # n
      <4>1. v[i] = a[i] /\ v[i - 1] = a[i - 1] /\ i \in 1 .. n - 1
        BY <2>3, <2>4, <3>2
      <4>2. a[i] \in MotorCtrl(a[i - 1], i - 1)
        BY <2>2, <4>1
      <4>3. QED
        BY <4>1, <4>2
    <3>3. QED
      BY <3>1, <3>2
  <2>7. Reached(v, n, x)
    BY <2>4, <2>5, <2>6
  <2>8. QED
    BY <2>7
<1>10. NumOutputs \in S
  <2> HIDE DEF S
  <2>1. \A n \in 0 .. NumOutputs : n \in S
    BY <1>8, <1>9, UpTo
  <2>2. QED
    BY <1>1, <2>1
<1>11. PICK v : Reached(v, NumOutputs, md')
  BY <1>3, <1>10
<1>12. QED
  BY <1>4, <1>11

LEMMA Index ==
  /\ \A n \in 1 .. NumOutputs : n - 1 \in Motors /\ n \in Int
  /\ \A m \in Motors : m + 1 \in 1 .. NumOutputs /\ m \in Int /\ 0 <= m /\ m < NumOutputs
  /\ NumOutputs \in 0 .. NumOutputs /\ 0 \in 0 .. NumOutputs
  /\ \A n \in 0 .. NumOutputs : n \in Int
BY OutputConstants DEF Motors

\* What one round does: it comes from what the orders leave of md, called taken, by control.
LEMMA OrdersEffect ==
  ASSUME TypeOK, NEW u, u[0] = md,
         \A n \in 1 .. NumOutputs : u[n] = Update(u[n - 1], n - 1, out[n - 1])
  PROVE  LET taken == u[NumOutputs]
         IN  /\ taken \in AllMotorData
             /\ (\A m \in Motors : out[m].flags = {}) => taken = md
             /\ \A m \in Motors :
                  md[m].reg = {} /\ out[m].flags = {} => taken[m] = md[m]
             /\ \A m \in Motors :
                  {"mode", "limit"} \subseteq out[m].flags /\ ~out[m].on /\ out[m].limit = 0 =>
                    /\ taken[m].state = "idle" /\ taken[m].reg = {} /\ taken[m].forever
                    /\ taken[m].actual = md[m].actual
<1> DEFINE Ends(m) == {"mode", "limit"} \subseteq out[m].flags /\ ~out[m].on /\ out[m].limit = 0
           Ended(m, d) == /\ d[m].state = "idle" /\ d[m].reg = {} /\ d[m].forever
           Ok(n) == /\ u[n] \in AllMotorData
                    /\ (\A m \in Motors : out[m].flags = {}) => u[n] = md
                    /\ \A m \in Motors : md[m].reg = {} /\ out[m].flags = {} => u[n][m] = md[m]
                    /\ \A m \in Motors : n <= m => u[n][m].actual = md[m].actual
                    /\ \A m \in Motors : m < n /\ Ends(m) =>
                         Ended(m, u[n]) /\ u[n][m].actual = md[m].actual
           S == {n \in 0 .. NumOutputs : Ok(n)}
<1>1. 0 \in S
  BY Index DEF TypeOK, AllMotorData
<1>2. ASSUME NEW n \in 1 .. NumOutputs, n - 1 \in S
      PROVE  n \in S
  <2> DEFINE d == u[n - 1]
             x == u[n]
             k == n - 1
             o == out[k]
  <2>1. k \in Motors /\ n \in Int /\ k = n - 1 /\ k \in Int /\ o \in OutputMap
    BY Index DEF TypeOK
  <2>2. Ok(k)
    BY <1>2
  <2>3. x = Update(d, k, o)
    OBVIOUS
  <2> HIDE DEF x, d, k, Ends, Ended
  <2>4. d = u[k] /\ x = u[n]
    BY DEF d, x, k
  <2>5. /\ x \in AllMotorData
        /\ \A m \in Motors : m # k => Recounted(d[m], x[m])
        /\ \A m \in Motors : m # k /\ ~Synchrone(d, m) => x[m] = d[m]
        /\ o.flags \cap {"mode", "speed", "limit", "reset"} = {} => x = d
        /\ {"mode", "limit"} \subseteq o.flags /\ ~o.on /\ o.limit = 0 =>
             /\ x[k].state = "idle" /\ x[k].reg = {} /\ x[k].forever
             /\ x[k].actual = d[k].actual
    BY <2>1, <2>2, <2>3, <2>4, UpdateEffect
  <2>6. \A m \in Motors : m # k => x[m].actual = d[m].actual
    <3> SUFFICES ASSUME NEW m \in Motors, m # k PROVE x[m].actual = d[m].actual
      OBVIOUS
    <3> DEFINE r == d[m]
               s == x[m]
    <3>1. r \in MotorData /\ Recounted(r, s)
      BY <2>2, <2>4, <2>5 DEF AllMotorData
    <3> HIDE DEF r, s
    <3>2. s.actual = r.actual
      BY <3>1 DEF Recounted, MotorData
    <3>3. QED
      BY <3>2 DEF r, s
  <2>7. (\A m \in Motors : out[m].flags = {}) => x = md
    BY <2>1, <2>2, <2>4, <2>5
  <2>8. ASSUME NEW m \in Motors, md[m].reg = {}, out[m].flags = {} PROVE x[m] = md[m]
    <3>1. d[m] = md[m]
      BY <2>2, <2>4, <2>8
    <3>2. CASE m = k
      BY <2>5, <2>8, <3>1, <3>2 DEF o
    <3>3. CASE m # k
      BY <2>5, <2>8, <3>1, <3>3 DEF Synchrone
    <3>4. QED
      BY <3>2, <3>3
  <2>9. \A m \in Motors : n <= m => x[m].actual = md[m].actual
    BY <2>1, <2>2, <2>4, <2>6, Index
  <2>10. ASSUME NEW m \in Motors, m < n, Ends(m)
         PROVE  Ended(m, x) /\ x[m].actual = md[m].actual
    <3>1. CASE m = k
      BY <2>1, <2>2, <2>4, <2>5, <2>10, <3>1 DEF Ends, Ended
    <3>2. CASE m # k
      <4>1. m < k
        BY <2>1, <2>10, <3>2, Index
      <4>2. Ended(m, d) /\ d[m].actual = md[m].actual
        BY <2>2, <2>4, <2>10, <4>1
      <4>3. x[m] = d[m]
        BY <2>5, <3>2, <4>2 DEF Ended, Synchrone
      <4>4. QED
        BY <4>2, <4>3 DEF Ended
    <3>3. QED
      BY <3>1, <3>2
  <2>11. n \in 0 .. NumOutputs
    BY <2>1, OutputConstants
  <2>12. Ok(n)
    BY <2>4, <2>5, <2>7, <2>8, <2>9, <2>10
  <2>13. QED
    BY <2>11, <2>12
<1>3. Ok(NumOutputs)
  <2> HIDE DEF Ok
  <2>1. \A n \in 0 .. NumOutputs : n \in S
    <3> HIDE DEF S
    <3> QED BY <1>1, <1>2, UpTo
  <2>2. QED
    BY <2>1, Index
<1>4. QED
  BY <1>3, Index

\* The control of all motors, from d.
LEMMA ControlEffect ==
  ASSUME NEW v, v[0] \in AllMotorData,
         \A n \in 1 .. NumOutputs : v[n] \in MotorCtrl(v[n - 1], n - 1)
  PROVE  /\ v[NumOutputs] \in AllMotorData
         /\ \A m \in Motors : Fine(v[NumOutputs][m])
         /\ \A m \in Motors : v[0][m].state = "idle" /\ v[0][m].reg = {} =>
              RunsDown(v[0][m], v[NumOutputs][m])
<1> DEFINE Rests(m) == v[0][m].state = "idle" /\ v[0][m].reg = {}
           Ok(n) == /\ v[n] \in AllMotorData
                    /\ \A m \in Motors : m < n => Fine(v[n][m])
                    /\ \A m \in Motors : n <= m /\ Rests(m) => v[n][m] = v[0][m]
                    /\ \A m \in Motors : m < n /\ Rests(m) => RunsDown(v[0][m], v[n][m])
           S == {n \in 0 .. NumOutputs : Ok(n)}
<1>1. 0 \in S
  BY Index
<1>2. ASSUME NEW n \in 1 .. NumOutputs, n - 1 \in S
      PROVE  n \in S
  <2> DEFINE d == v[n - 1]
             x == v[n]
             k == n - 1
  <2>1. k \in Motors /\ n \in Int /\ k = n - 1 /\ k \in Int
    BY Index
  <2>2. Ok(k) /\ x \in MotorCtrl(d, k)
    BY <1>2
  <2> HIDE DEF x, d, k, Rests
  <2>3. d = v[k] /\ x = v[n]
    BY DEF d, x, k
  <2>4. /\ Controlled(d, x, k)
        /\ Fine(x[k])
        /\ d[k].state = "idle" /\ d[k].reg = {} => RunsDown(d[k], x[k])
    BY <2>1, <2>2, <2>3, MotorCtrlEffect
  <2>5. \A m \in Motors : m # k =>
          x[m] = d[m] \/ (Synchrone(d, m) /\ Touched(d[m], x[m]))
    BY <2>4 DEF Controlled
  <2>6. ASSUME NEW m \in Motors, m < n PROVE Fine(x[m])
    <3>1. CASE m = k
      BY <2>4, <3>1
    <3>2. CASE m # k
      <4>1. Fine(d[m])
        BY <2>1, <2>2, <2>3, <2>6, <3>2, Index
      <4>2. CASE x[m] = d[m]
        BY <4>1, <4>2
      <4>3. CASE Touched(d[m], x[m])
        BY <4>1, <4>3 DEF Fine, Touched, SameRun, Stopping
      <4>4. QED
        BY <2>5, <3>2, <4>2, <4>3
    <3>3. QED
      BY <3>1, <3>2
  <2>7. ASSUME NEW m \in Motors, n <= m, Rests(m) PROVE x[m] = v[0][m]
    <3>1. m # k /\ d[m] = v[0][m]
      BY <2>1, <2>2, <2>3, <2>7, Index
    <3>2. ~Synchrone(d, m)
      BY <2>7, <3>1 DEF Rests, Synchrone
    <3>3. QED
      BY <2>5, <3>1, <3>2
  <2>8. ASSUME NEW m \in Motors, m < n, Rests(m) PROVE RunsDown(v[0][m], x[m])
    <3>1. CASE m = k
      <4>1. d[m] = v[0][m]
        BY <2>1, <2>2, <2>3, <2>8, <3>1
      <4>2. QED
        BY <2>4, <2>8, <3>1, <4>1 DEF Rests
    <3>2. CASE m # k
      <4>1. RunsDown(v[0][m], d[m])
        BY <2>1, <2>2, <2>3, <2>8, <3>2, Index
      <4>2. ~Synchrone(d, m)
        BY <4>1 DEF RunsDown, Synchrone
      <4>3. QED
        BY <2>5, <3>2, <4>1, <4>2
    <3>3. QED
      BY <3>1, <3>2
  <2>9. n \in 0 .. NumOutputs /\ x \in AllMotorData
    BY <2>1, <2>4, OutputConstants DEF Controlled
  <2>10. Ok(n)
    BY <2>3, <2>6, <2>7, <2>8, <2>9
  <2>11. QED
    BY <2>9, <2>10
<1>3. Ok(NumOutputs)
  <2> HIDE DEF Ok
  <2>1. \A n \in 0 .. NumOutputs : n \in S
    <3> HIDE DEF S
    <3> QED BY <1>1, <1>2, UpTo
  <2>2. QED
    BY <2>1, Index
<1>4. QED
  BY <1>3, Index DEF Rests

\* Of a pair, the one that is controlled first takes the other along.
LEMMA PairEffect ==
  ASSUME NEW v, v[0] \in AllMotorData,
         \A n \in 1 .. NumOutputs : v[n] \in MotorCtrl(v[n - 1], n - 1),
         NEW a \in Motors, NEW b \in Motors, a < b,
         {k \in Motors : Synchrone(v[0], k)} = {a, b},
         Underway(v[0][a]), Underway(v[0][b])
  PROVE  Underway(v[NumOutputs][a]) <=> Underway(v[NumOutputs][b])
<1> DEFINE Same(n) == SameMove(v[0][a], v[n][a]) /\ SameMove(v[0][b], v[n][b])
           Ok(n) == /\ v[n] \in AllMotorData
                    /\ \A k \in Motors : Synchrone(v[n], k) => k \in {a, b}
                    /\ n <= a => Same(n)
                    /\ a < n /\ n <= b =>
                         Same(n) \/ (~Underway(v[n][a]) /\ v[n][b].state \in Stopping)
                    /\ b < n => Same(n) \/ (~Underway(v[n][a]) /\ ~Underway(v[n][b]))
           S == {n \in 0 .. NumOutputs : Ok(n)}
<1>0. a \in Int /\ b \in Int /\ a # b /\ 0 <= a /\ b < NumOutputs
  BY Index
<1>1. 0 \in S
  BY Index, <1>0 DEF SameMove
<1>2. ASSUME NEW n \in 1 .. NumOutputs, n - 1 \in S
      PROVE  n \in S
  <2> DEFINE d == v[n - 1]
             x == v[n]
             k == n - 1
  <2>1. k \in Motors /\ n \in Int /\ k = n - 1 /\ k \in Int
    BY Index
  <2>2. Ok(k) /\ x \in MotorCtrl(d, k)
    BY <1>2
  <2> HIDE DEF x, d, k
  <2>3. d = v[k] /\ x = v[n]
    BY DEF d, x, k
  <2>4. /\ Controlled(d, x, k)
        /\ d[k].state \in Stopping => ~Underway(x[k])
        /\ Underway(d[k]) /\ Synchrone(d, k) =>
             \A j \in SyncPartner(d, k) : Together(d, x, k, j)
    BY <2>1, <2>2, <2>3, MotorCtrlEffect
  <2>5. \A j \in Motors : j # k =>
          x[j] = d[j] \/ (Synchrone(d, k) /\ Synchrone(d, j) /\ Touched(d[j], x[j]))
    BY <2>4 DEF Controlled
  <2>6. \A j \in Motors : Synchrone(x, j) => j \in {a, b}
    <3> SUFFICES ASSUME NEW j \in Motors, Synchrone(x, j) PROVE Synchrone(d, j)
      BY <2>2, <2>3
    <3>1. QED
      BY <2>4, <2>5 DEF Controlled, Synchrone
  <2>7. n \in 0 .. NumOutputs /\ x \in AllMotorData
    BY <2>1, <2>4, OutputConstants DEF Controlled
  <2>8. ASSUME Same(k)
        PROVE  /\ Underway(d[a]) /\ Underway(d[b]) /\ Synchrone(d, a) /\ Synchrone(d, b)
               /\ SyncPartner(d, a) = {b} /\ SyncPartner(d, b) = {a}
    <3>1. Synchrone(v[0], a) /\ Synchrone(v[0], b)
      OBVIOUS
    <3>2. Underway(d[a]) /\ Underway(d[b]) /\ Synchrone(d, a) /\ Synchrone(d, b)
      BY <2>3, <2>8, <3>1 DEF SameMove, Underway, Synchrone
    <3>3. \A j \in Motors : Synchrone(d, j) <=> j \in {a, b}
      BY <2>2, <2>3, <3>2
    <3>4. SyncPartner(d, a) = {b} /\ SyncPartner(d, b) = {a}
      BY <1>0, <3>3 DEF SyncPartner
    <3>5. QED
      BY <3>2, <3>4
  <2>9. ASSUME Same(k), SameMove(d[a], x[a]), SameMove(d[b], x[b])
        PROVE  Same(n)
    BY <2>3, <2>9 DEF SameMove
  <2>10. CASE k # a /\ k # b
    <3>1. ~Synchrone(d, k)
      BY <2>1, <2>2, <2>3, <2>10
    <3>2. x[a] = d[a] /\ x[b] = d[b]
      BY <2>5, <2>10, <3>1
    <3>3. (n <= a <=> k <= a) /\ (a < n <=> a < k) /\ (n <= b <=> k <= b) /\ (b < n <=> b < k)
      BY <1>0, <2>1, <2>10
    <3>4. Ok(n)
      BY <2>2, <2>3, <2>6, <2>7, <3>2, <3>3
    <3>5. QED
      BY <2>7, <3>4
  <2>11. CASE k = a
    <3>1. Same(k) /\ a < n /\ n <= b
      BY <1>0, <2>1, <2>2, <2>11
    <3>2. Together(d, x, a, b)
      BY <2>4, <2>8, <2>11, <3>1
    <3>3. Same(n) \/ (~Underway(x[a]) /\ x[b].state \in Stopping)
      BY <2>9, <3>1, <3>2 DEF Together
    <3>4. Ok(n)
      BY <1>0, <2>1, <2>3, <2>6, <2>7, <3>1, <3>3
    <3>5. QED
      BY <2>7, <3>4
  <2>12. CASE k = b
    <3>1. b < n
      BY <1>0, <2>1, <2>12
    <3>2. a < k /\ k <= b
      BY <1>0, <2>12
    <3>3. Same(k) \/ (~Underway(d[a]) /\ d[b].state \in Stopping)
      BY <2>2, <2>3, <3>2
    <3>4. Same(n) \/ (~Underway(x[a]) /\ ~Underway(x[b]))
      <4>1. CASE Same(k)
        <5>1. Together(d, x, b, a)
          BY <2>4, <2>8, <2>12, <4>1
        <5>2. Same(n) \/ (~Underway(x[b]) /\ x[a].state \in Stopping)
          BY <2>9, <4>1, <5>1 DEF Together
        <5>3. QED
          BY <5>2 DEF Underway, Stopping
      <4>2. CASE ~Underway(d[a]) /\ d[b].state \in Stopping
        <5>1. ~Underway(x[b])
          BY <2>4, <2>12, <4>2
        <5>2. ~Underway(x[a])
          BY <1>0, <2>5, <2>12, <4>2 DEF Touched, SameRun, Underway, Stopping
        <5>3. QED
          BY <5>1, <5>2
      <4>3. QED
        BY <3>3, <4>1, <4>2
    <3>5. Ok(n)
      BY <1>0, <2>1, <2>3, <2>6, <2>7, <3>1, <3>4
    <3>6. QED
      BY <2>7, <3>5
  <2>13. QED
    BY <2>10, <2>11, <2>12
<1>3. Ok(NumOutputs)
  <2> HIDE DEF Ok
  <2>1. \A n \in 0 .. NumOutputs : n \in S
    <3> HIDE DEF S
    <3> QED BY <1>1, <1>2, UpTo
  <2>2. QED
    BY <2>1, Index
<1>4. QED
  BY <1>0, <1>3 DEF SameMove, Underway

-----------------------------------------------------------------------------
(***************************************************************************)
(* The theorems.                                                           *)
(***************************************************************************)
LEMMA WrittenType ==
  ASSUME NEW w \in Orders \cup Writes, NEW o \in OutputMap
  PROVE  Written(w, o) \in OutputMap
<1> DEFINE fields == {"flags", "on", "brake", "regulated", "speed", "turn", "reg", "state",
                      "limit", "options"}
           i == Written(w, cOutputInit)
           x == Written(w, o)
<1>1. i \in OutputMap
  BY OrdersTyped
<1>2. DOMAIN o = fields /\ DOMAIN cOutputInit = fields
  BY DEF OutputMap, cOutputInit
<1>3. /\ i = [f \in fields |-> IF f \in DOMAIN w THEN w[f] ELSE cOutputInit[f]]
      /\ x = [f \in fields |-> IF f \in DOMAIN w THEN w[f] ELSE o[f]]
  BY <1>2 DEF Written
<1> HIDE DEF i, x
<1>4. \A f \in fields : x[f] = i[f] \/ x[f] = o[f]
  BY <1>3
<1>5. /\ x.flags \in SUBSET UpdateFlags /\ x.on \in BOOLEAN /\ x.brake \in BOOLEAN
      /\ x.regulated \in BOOLEAN /\ x.speed \in SBytes /\ x.turn \in {-1, 0, 1}
      /\ x.reg \in SUBSET RegModes /\ x.state \in RunStates /\ x.limit \in Nat
      /\ x.options \in SUBSET {"hold", "rampdown"}
  BY <1>1, <1>4 DEF OutputMap
<1>6. x = [f \in fields |-> x[f]]
  BY <1>3
<1>7. QED
  BY <1>5, <1>6 DEF OutputMap, x

\* A round keeps the types, ends before the limits, and runs idle motors down.
LEMMA RoundEffect ==
  ASSUME TypeOK, cOutputCtrl
  PROVE  /\ md' \in AllMotorData
         /\ \A m \in Motors : Fine(md'[m])
         /\ \A m \in Motors :
              md[m].state = "idle" /\ md[m].reg = {} /\ out[m].flags = {} => RunsDown(md[m], md'[m])
         /\ \A m \in Motors :
              {"mode", "limit"} \subseteq out[m].flags /\ ~out[m].on /\ out[m].limit = 0 =>
                /\ md'[m].state = "idle" /\ md'[m].reg = {} /\ md'[m].forever /\ ~md'[m].brake
                /\ md'[m].actual = TowardsZero(md[m].actual)
         /\ \A a, b \in Motors :
              /\ a # b
              /\ {k \in Motors : Synchrone(md, k)} = {a, b}
              /\ Underway(md[a])
              /\ Underway(md[b])
              /\ \A m \in Motors : out[m].flags = {}
              => (Underway(md'[a]) <=> Underway(md'[b]))
<1>1. PICK u, v :
           /\ u[0] = md
           /\ \A n \in 1 .. NumOutputs : u[n] = Update(u[n - 1], n - 1, out[n - 1])
           /\ v[0] = u[NumOutputs]
           /\ \A n \in 1 .. NumOutputs : v[n] \in MotorCtrl(v[n - 1], n - 1)
           /\ md' = v[NumOutputs]
  BY Round
<1>2. /\ v[0] \in AllMotorData
      /\ (\A m \in Motors : out[m].flags = {}) => v[0] = md
      /\ \A m \in Motors : md[m].reg = {} /\ out[m].flags = {} => v[0][m] = md[m]
      /\ \A m \in Motors :
           {"mode", "limit"} \subseteq out[m].flags /\ ~out[m].on /\ out[m].limit = 0 =>
             /\ v[0][m].state = "idle" /\ v[0][m].reg = {} /\ v[0][m].forever
             /\ v[0][m].actual = md[m].actual
  BY <1>1, OrdersEffect
<1>3. /\ md' \in AllMotorData
      /\ \A m \in Motors : Fine(md'[m])
      /\ \A m \in Motors : v[0][m].state = "idle" /\ v[0][m].reg = {} => RunsDown(v[0][m], md'[m])
  BY <1>1, <1>2, ControlEffect
<1>4. ASSUME NEW m \in Motors, md[m].state = "idle", md[m].reg = {}, out[m].flags = {}
      PROVE  RunsDown(md[m], md'[m])
  <2>1. v[0][m] = md[m]
    BY <1>2, <1>4
  <2>2. QED
    BY <1>3, <1>4, <2>1
<1>5. ASSUME NEW m \in Motors,
             {"mode", "limit"} \subseteq out[m].flags, ~out[m].on, out[m].limit = 0
      PROVE  /\ md'[m].state = "idle" /\ md'[m].reg = {} /\ md'[m].forever /\ ~md'[m].brake
             /\ md'[m].actual = TowardsZero(md[m].actual)
  <2>1. /\ v[0][m].state = "idle" /\ v[0][m].reg = {} /\ v[0][m].forever
        /\ v[0][m].actual = md[m].actual
    BY <1>2, <1>5
  <2>2. RunsDown(v[0][m], md'[m])
    BY <1>3, <2>1
  <2>3. QED
    BY <2>1, <2>2 DEF RunsDown
<1>6. ASSUME NEW a \in Motors, NEW b \in Motors, a # b,
             {k \in Motors : Synchrone(md, k)} = {a, b},
             Underway(md[a]), Underway(md[b]),
             \A m \in Motors : out[m].flags = {}
      PROVE  Underway(md'[a]) <=> Underway(md'[b])
  <2>1. v[0] = md
    BY <1>2, <1>6
  <2>2. /\ v[0] \in AllMotorData
        /\ \A n \in 1 .. NumOutputs : v[n] \in MotorCtrl(v[n - 1], n - 1)
    BY <1>1, <1>2
  <2>3. a \in Int /\ b \in Int
    BY Index
  <2>4. CASE a < b
    <3>1. Underway(v[NumOutputs][a]) <=> Underway(v[NumOutputs][b])
      BY <1>6, <2>1, <2>2, <2>4, PairEffect
    <3>2. QED
      BY <1>1, <3>1
  <2>5. CASE b < a
    <3>1. {k \in Motors : Synchrone(v[0], k)} = {b, a}
      BY <1>6, <2>1
    <3>2. Underway(v[NumOutputs][b]) <=> Underway(v[NumOutputs][a])
      BY <1>6, <2>1, <2>2, <2>5, <3>1, PairEffect
    <3>3. QED
      BY <1>1, <3>2
  <2>6. QED
    BY <1>6, <2>3, <2>4, <2>5
<1>7. QED
  BY <1>3, <1>4, <1>5, <1>6

\* The invariant: the types, and no motor at its limit.
IInv == TypeOK /\ \A m \in Motors : Fine(md[m])

LEMMA InitInv == Init => IInv
<1> SUFFICES ASSUME Init PROVE IInv
  OBVIOUS
<1>1. 0 \in SBytes
  BY OutputConstants DEF SBytes
<1>2. dOutputInit \in MotorData
  <2> DEFINE z == 0
             r == [set |-> z, target |-> z, actual |-> z, turn |-> 0, state |-> "idle", reg |-> {},
                   count |-> z, toRun |-> z, forever |-> TRUE, atLimit |-> "idle",
                   rampDown |-> FALSE, brake |-> FALSE, valid |-> FALSE, device |-> TRUE]
  <2>1. z \in SBytes /\ z \in Int
    BY <1>1
  <2>2. dOutputInit = r
    BY DEF dOutputInit
  <2> HIDE DEF z
  <2>3. r \in MotorData
    BY <2>1 DEF MotorData, RunStates
  <2>4. QED
    BY <2>2, <2>3
<1>3. cOutputInit \in OutputMap
  <2> DEFINE z == 0
             r == [flags |-> {}, on |-> FALSE, brake |-> FALSE, regulated |-> FALSE, speed |-> z,
                   turn |-> 0, reg |-> {}, state |-> "idle", limit |-> z, options |-> {}]
  <2>1. z \in SBytes /\ z \in Nat
    BY <1>1
  <2>2. cOutputInit = r
    BY DEF cOutputInit
  <2> HIDE DEF z
  <2>3. r \in OutputMap
    BY <2>1 DEF OutputMap, RunStates
  <2>4. QED
    BY <2>2, <2>3
<1>4. TypeOK
  <2>1. md \in [Motors -> MotorData]
    BY <1>2 DEF Init
  <2>2. out \in [Motors -> OutputMap]
    BY <1>3 DEF Init
  <2>3. asked \in 0 .. MaxOrders
    BY OutputConstants DEF Init
  <2>4. QED
    BY <2>1, <2>2, <2>3 DEF TypeOK
<1>5. \A m \in Motors : Fine(md[m])
  BY DEF Init, Fine, dOutputInit
<1>6. QED
  BY <1>4, <1>5 DEF IInv

\* The devices come and go without a change of the run.
Replugged(r, s) == s \in MotorData /\ SameRun(r, s) /\ s.actual = r.actual /\ s.brake = r.brake

\* What changes md besides a round.
LEMMA OtherSteps ==
  ASSUME TypeOK, [Next]_vars, ~cOutputCtrl
  PROVE  /\ out' \in [Motors -> OutputMap] /\ asked' \in 0 .. MaxOrders
         /\ md' \in AllMotorData
         /\ \A m \in Motors : Replugged(md[m], md'[m])
         /\ \A m \in Motors : md'[m] = md[m] \/ md'[m].device # md[m].device
         /\ \/ asked' # asked
            \/ out' = out
            \/ \A m \in Motors : out'[m].flags # {}
<1>1. /\ \A m \in Motors : md[m] \in MotorData /\ out[m] \in OutputMap
      /\ asked \in Int /\ MaxOrders \in Nat
  BY OutputConstants DEF TypeOK
<1>2. ASSUME NEW r \in MotorData PROVE Replugged(r, r)
  BY DEF Replugged, SameRun
<1>3. ASSUME md' = md
      PROVE  /\ md' \in AllMotorData
             /\ \A m \in Motors : Replugged(md[m], md'[m])
             /\ \A m \in Motors : md'[m] = md[m] \/ md'[m].device # md[m].device
  BY <1>1, <1>2, <1>3 DEF AllMotorData, TypeOK
<1>4. ASSUME NEW m \in Motors, NEW s \in MotorData, Replugged(md[m], s),
             s.device # md[m].device, md' = [md EXCEPT ![m] = s]
      PROVE  /\ md' \in AllMotorData
             /\ \A k \in Motors : Replugged(md[k], md'[k])
             /\ \A k \in Motors : md'[k] = md[k] \/ md'[k].device # md[k].device
  <2>1. md'[m] = s /\ \A k \in Motors : k # m => md'[k] = md[k]
    BY <1>4 DEF TypeOK
  <2>2. md' \in AllMotorData
    BY <1>4 DEF TypeOK, AllMotorData
  <2>3. QED
    BY <1>1, <1>2, <1>4, <2>1, <2>2
<1>5. ASSUME asked < MaxOrders, asked' = asked + 1
      PROVE  asked' \in 0 .. MaxOrders /\ asked' # asked
  BY <1>1, <1>5 DEF TypeOK
<1>6. CASE UNCHANGED vars
  BY <1>3, <1>6 DEF vars, TypeOK
<1>7. ASSUME NEW ports \in Ports, NEW order \in Orders, SetOutState(ports, order)
      PROVE  out' \in [Motors -> OutputMap]
  <2>1. ASSUME NEW m \in Motors
        PROVE  Written(order, [out[m] EXCEPT !.flags = @ \cup {"mode", "speed", "limit"}]) \in OutputMap
    <3>1. [out[m] EXCEPT !.flags = @ \cup {"mode", "speed", "limit"}] \in OutputMap
      BY <1>1 DEF OutputMap, UpdateFlags
    <3>2. QED
      BY <3>1, WrittenType
  <2>2. QED
    BY <1>1, <1>7, <2>1 DEF SetOutState
<1>8. ASSUME NEW ports \in Ports, NEW fields \in Writes, ExecuteSetOut(ports, fields)
      PROVE  out' \in [Motors -> OutputMap]
  <2>1. \A m \in Motors : Written(fields, out[m]) \in OutputMap
    BY <1>1, WrittenType
  <2>2. QED
    BY <1>1, <1>8, <2>1 DEF ExecuteSetOut
<1>9. ASSUME NEW ports \in Ports, NEW w \in Orders \cup Writes,
             SetOutState(ports, w) \/ ExecuteSetOut(ports, w)
      PROVE  md' = md /\ asked < MaxOrders /\ asked' = asked + 1
  BY <1>9 DEF SetOutState, ExecuteSetOut
<1>10. ASSUME NEW m \in Motors, UpdateResetCount(m)
       PROVE  out' \in [Motors -> OutputMap]
  <2> DEFINE o == [out[m] EXCEPT !.flags = @ \cup {"reset"}]
  <2>1. o \in OutputMap
    BY <1>1 DEF OutputMap, UpdateFlags
  <2>2. out' = [out EXCEPT ![m] = o]
    BY <1>10 DEF UpdateResetCount
  <2> HIDE DEF o
  <2>3. QED
    BY <2>1, <2>2 DEF TypeOK
<1>11. ASSUME NEW m \in Motors, UiResetPort(m)
       PROVE  out' \in [Motors -> OutputMap]
  <2> DEFINE o == [out[m] EXCEPT !.on = FALSE, !.brake = FALSE,
                                 !.flags = @ \cup {"mode", "speed", "reset"}]
  <2>1. o \in OutputMap
    BY <1>1 DEF OutputMap, UpdateFlags
  <2>2. out' = [out EXCEPT ![m] = o]
    BY <1>11 DEF UiResetPort, TypeOK
  <2> HIDE DEF o
  <2>3. QED
    BY <2>1, <2>2 DEF TypeOK
<1>12. CASE ResetDevices
  <2> DEFINE cleared(m) ==
               [out[m] EXCEPT !.on = FALSE, !.brake = FALSE, !.regulated = FALSE, !.reg = {},
                              !.state = "idle", !.speed = 0, !.limit = 0, !.turn = 0,
                              !.flags = {"mode", "speed", "limit", "reset"}]
  <2>1. out' = [m \in Motors |-> cleared(m)] /\ md' = md /\ asked' = asked
    BY <1>12 DEF ResetDevices
  <2>2. ASSUME NEW m \in Motors
        PROVE  cleared(m) \in OutputMap /\ cleared(m).flags # {}
    <3> DEFINE z == 0
               o == out[m]
               c == [o EXCEPT !.on = FALSE, !.brake = FALSE, !.regulated = FALSE, !.reg = {},
                              !.state = "idle", !.speed = z, !.limit = z, !.turn = 0,
                              !.flags = {"mode", "speed", "limit", "reset"}]
    <3>1. z \in SBytes /\ z \in Nat /\ o \in OutputMap /\ cleared(m) = c
      BY <1>1, OutputConstants DEF SBytes
    <3> HIDE DEF z, o, cleared
    <3>2. c \in OutputMap /\ c.flags = {"mode", "speed", "limit", "reset"}
      BY <3>1 DEF OutputMap, RunStates, UpdateFlags
    <3>3. QED
      BY <3>1, <3>2
  <2> HIDE DEF cleared
  <2>3. out' \in [Motors -> OutputMap] /\ \A m \in Motors : out'[m].flags # {}
    BY <2>1, <2>2
  <2>4. QED
    BY <1>3, <2>1, <2>3 DEF TypeOK
<1>13. ASSUME NEW m \in Motors, Attach(m) \/ Detach(m)
       PROVE  \E s \in MotorData : /\ Replugged(md[m], s) /\ s.device # md[m].device
                                   /\ md' = [md EXCEPT ![m] = s]
  <2> DEFINE r == md[m]
             s == [r EXCEPT !.device = TRUE, !.valid = FALSE]
             t == [r EXCEPT !.device = FALSE]
  <2>1. \/ ~r.device /\ md' = [md EXCEPT ![m] = s]
        \/ r.device /\ md' = [md EXCEPT ![m] = t]
    BY <1>13 DEF Attach, Detach, TypeOK
  <2>2. r \in MotorData
    BY <1>1
  <2> HIDE DEF r
  <2>3. s \in MotorData /\ Replugged(r, s) /\ s.device = TRUE
    BY <2>2 DEF MotorData, Replugged, SameRun
  <2>4. t \in MotorData /\ Replugged(r, t) /\ t.device = FALSE
    BY <2>2 DEF MotorData, Replugged, SameRun
  <2> HIDE DEF s, t
  <2>5. QED
    BY <2>1, <2>3, <2>4 DEF r
<1>14. CASE \E ports \in Ports :
              \/ \E order \in Orders : SetOutState(ports, order)
              \/ \E fields \in Writes : ExecuteSetOut(ports, fields)
  BY <1>3, <1>5, <1>7, <1>8, <1>9, <1>14
<1>15. CASE \E m \in Motors : UpdateResetCount(m) \/ UiResetPort(m)
  <2>1. PICK m \in Motors : UpdateResetCount(m) \/ UiResetPort(m)
    BY <1>15
  <2>2. md' = md /\ asked < MaxOrders /\ asked' = asked + 1
    BY <2>1 DEF UpdateResetCount, UiResetPort
  <2>3. QED
    BY <1>3, <1>5, <1>10, <1>11, <2>1, <2>2
<1>16. CASE \E m \in Motors : Attach(m) \/ Detach(m)
  <2>1. PICK m \in Motors : Attach(m) \/ Detach(m)
    BY <1>16
  <2>2. out' = out /\ (asked' = asked \/ (asked < MaxOrders /\ asked' = asked + 1))
    BY <2>1 DEF Attach, Detach
  <2>3. PICK s \in MotorData : /\ Replugged(md[m], s) /\ s.device # md[m].device
                               /\ md' = [md EXCEPT ![m] = s]
    BY <1>13, <2>1
  <2>4. QED
    BY <1>4, <1>5, <2>2, <2>3 DEF TypeOK
<1>17. QED
  BY <1>6, <1>12, <1>14, <1>15, <1>16 DEF Next

LEMMA StepInv == TypeOK /\ [Next]_vars /\ (\A m \in Motors : Fine(md[m])) => IInv'
<1> SUFFICES ASSUME TypeOK, [Next]_vars, \A m \in Motors : Fine(md[m]) PROVE IInv'
  OBVIOUS
<1>1. CASE cOutputCtrl
  <2>1. md' \in AllMotorData /\ \A m \in Motors : Fine(md'[m])
    BY <1>1, RoundEffect
  <2>2. asked' \in 0 .. MaxOrders
    BY <1>1 DEF cOutputCtrl, TypeOK
  <2>3. out' \in [Motors -> OutputMap]
    <3> DEFINE after(m) == [out[m] EXCEPT !.flags = @ \cap {"pending"},
                              !.state = IF "pending" \in out[m].flags THEN @ ELSE md'[m].state]
    <3>1. out' = [m \in Motors |-> after(m)]
      BY <1>1 DEF cOutputCtrl
    <3>2. ASSUME NEW m \in Motors PROVE after(m) \in OutputMap
      <4> DEFINE o == out[m]
                 s == IF "pending" \in o.flags THEN o.state ELSE md'[m].state
                 x == [o EXCEPT !.flags = @ \cap {"pending"}, !.state = s]
      <4>1. o \in OutputMap /\ after(m) = x
        BY DEF TypeOK
      <4>2. s \in RunStates
        BY <2>1, <4>1 DEF AllMotorData, MotorData, OutputMap
      <4> HIDE DEF o, s, after
      <4>3. x \in OutputMap
        BY <4>1, <4>2 DEF OutputMap
      <4>4. QED
        BY <4>1, <4>3
    <3> HIDE DEF after
    <3>3. QED
      BY <3>1, <3>2
  <2>4. QED
    BY <2>1, <2>2, <2>3 DEF IInv, TypeOK, AllMotorData
<1>2. CASE ~cOutputCtrl
  <2>1. /\ out' \in [Motors -> OutputMap] /\ asked' \in 0 .. MaxOrders
        /\ md' \in AllMotorData
        /\ \A m \in Motors : Replugged(md[m], md'[m])
    BY <1>2, OtherSteps
  <2>2. \A m \in Motors : Fine(md'[m])
    BY <2>1 DEF Fine, Replugged, SameRun
  <2>3. QED
    BY <2>1, <2>2 DEF IInv, TypeOK, AllMotorData
<1>3. QED
  BY <1>1, <1>2

LEMMA Invariant == Spec => []IInv
<1>1. IInv /\ [Next]_vars => IInv'
  BY StepInv DEF IInv
<1>2. QED
  BY InitInv, <1>1, PTL DEF Spec

\* What the module knows of the motors, and the orders, keep their types (c_output_reg.c, the
\* SBYTEs of MotorData: no ramp and no help leaves the range of a speed).
THEOREM TypeCorrect == Spec => []TypeOK
<1>1. IInv => TypeOK
  BY DEF IInv
<1>2. QED
  BY Invariant, <1>1, PTL

\* No motor that runs alone to a stop is found at or past its limit (c_output_reg.c:775-852).
THEOREM NeverPastTheLimit == Spec => []NoOverrun
<1>1. IInv => NoOverrun
  BY DEF IInv, Fine, NoOverrun
<1>2. QED
  BY Invariant, <1>1, PTL

\* An idle motor without regulation loses power in every round (c_output_reg.c:854).
THEOREM IdleMotorsRunDown == Spec => IdleRunsDown
<1> DEFINE Step == \A m \in Motors :
          /\ md[m].state = "idle"
          /\ md[m].reg = {}
          /\ out[m].flags = {}
          /\ \E k \in Motors : md'[k] # md[k] /\ md'[k].device = md[k].device
          => /\ md'[m].state = "idle"
             /\ md'[m].actual = TowardsZero(md[m].actual)
<1>1. IInv /\ [Next]_vars => [Step]_vars
  <2> SUFFICES ASSUME IInv, [Next]_vars PROVE Step
    OBVIOUS
  <2>1. CASE cOutputCtrl
    BY <2>1, RoundEffect DEF IInv, RunsDown
  <2>2. CASE ~cOutputCtrl
    BY <2>2, OtherSteps DEF IInv
  <2>3. QED
    BY <2>1, <2>2
<1>2. QED
  BY Invariant, <1>1, PTL DEF Spec, IdleRunsDown

\* The reset of all devices stops every motor in the next round (c_cmd.c:2345-2356).
THEOREM ResetStopsAll == Spec => EndOfProgramStops
<1> DEFINE Step ==
      /\ \A m \in Motors : out[m].flags = {"mode", "speed", "limit", "reset"} /\ ~out[m].on
      /\ \A m \in Motors : out[m].limit = 0 /\ out'[m].flags = {}
      /\ asked' = asked
      => \A m \in Motors :
             /\ md'[m].state = "idle"
             /\ md'[m].reg = {}
             /\ md'[m].forever
             /\ ~md'[m].brake
             /\ Abs(md'[m].actual) <= Abs(md[m].actual)
<1>1. IInv /\ [Next]_vars => [Step]_vars
  <2> SUFFICES ASSUME IInv, [Next]_vars,
                      \A m \in Motors : out[m].flags = {"mode", "speed", "limit", "reset"} /\ ~out[m].on,
                      \A m \in Motors : out[m].limit = 0 /\ out'[m].flags = {},
                      asked' = asked,
                      NEW m \in Motors
               PROVE  /\ md'[m].state = "idle" /\ md'[m].reg = {} /\ md'[m].forever /\ ~md'[m].brake
                      /\ Abs(md'[m].actual) <= Abs(md[m].actual)
    OBVIOUS
  <2>1. cOutputCtrl
    BY OtherSteps DEF IInv
  <2>2. /\ md'[m].state = "idle" /\ md'[m].reg = {} /\ md'[m].forever /\ ~md'[m].brake
        /\ md'[m].actual = TowardsZero(md[m].actual)
    BY <2>1, RoundEffect DEF IInv
  <2>3. md[m].actual \in Int
    BY OutputConstants DEF IInv, TypeOK, MotorData, SBytes
  <2>4. Abs(TowardsZero(md[m].actual)) <= Abs(md[m].actual)
    BY <2>3 DEF Abs, TowardsZero
  <2>5. QED
    BY <2>2, <2>4
<1>2. QED
  BY Invariant, <1>1, PTL DEF Spec, EndOfProgramStops

\* The limit of one of a synchronised pair ends the run of both (c_output_reg.c:1251-1365).
THEOREM PairsStopTogether == Spec => PairStopsTogether
<1> DEFINE Step == \A a, b \in Motors :
          /\ a # b
          /\ {k \in Motors : Synchrone(md, k)} = {a, b}
          /\ Underway(md[a])
          /\ Underway(md[b])
          /\ \A m \in Motors : out[m].flags = {}
          => (Underway(md'[a]) <=> Underway(md'[b]))
<1>1. IInv /\ [Next]_vars => [Step]_vars
  <2> SUFFICES ASSUME IInv, [Next]_vars PROVE Step
    OBVIOUS
  <2>1. CASE cOutputCtrl
    BY <2>1, RoundEffect DEF IInv
  <2>2. CASE ~cOutputCtrl
    BY <2>2, OtherSteps DEF IInv, Replugged, SameRun, Underway
  <2>3. QED
    BY <2>1, <2>2
<1>2. QED
  BY Invariant, <1>1, PTL DEF Spec, PairStopsTogether
====
