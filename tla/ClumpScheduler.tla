--------------------------- MODULE ClumpScheduler ---------------------------
(***************************************************************************)
(* The clump scheduler of the virtual machine (c_cmd.c): clumps run by     *)
(* turns from RunQ, sleep on RestQ, queue for mutexes, call one another as *)
(* subroutines, schedule their dependents when they finish, and start or   *)
(* stop one another.  cCmdCtrl runs a pass of them, cCmdInterpFromClump    *)
(* one clump until it gives way.                                           *)
(*                                                                         *)
(* The program is arbitrary: any scheduling instruction may come next, and *)
(* any number of data instructions between two of them.  The constants and *)
(* the May... guards say what a program the compilers emit keeps to.       *)
(***************************************************************************)
EXTENDS ClumpFifo

CONSTANTS
  ClumpTable,     \* the CLUMP_RECs of the program, in CLUMP_ID order
  MutexTOC,       \* its mutexes, in the order of the dataspace TOC
  InitFireCount,  \* CLUMP_REC.InitFireCount
  Dependents,     \* CLUMP_REC.pDependents, with the targets of FINCLUMPIMMED
  Uses,           \* the mutexes each clump acquires
  Callable,       \* the subroutines: targets of SUBCALL, end with SUBRET
  LongCallers,    \* clumps that call them with OP_SUBCALL
  ShortCallers,   \* clumps that call them with the short form
  Startable,      \* targets of STARTCLUMP
  Stoppable,      \* targets of STOPCLUMP
  Liberties,      \* what else the program does; see Liberty
  MaxSleep,       \* bound: the longest WAIT, in ticks
  MaxTick         \* bound: the last tick modelled

Range_(s) == {s[i] : i \in DOMAIN s}

Liberty == {"stopSelf", "reacquire", "unordered", "endHolding", "overfire"}

ASSUME SchedulerConstants ==
  /\ IsFiniteSet(Mutexes)
  /\ ClumpTable \in Seq(Clumps) /\ MutexTOC \in Seq(Mutexes)
  /\ InitFireCount \in [Clumps -> 0 .. 255]
  /\ Dependents \in [Clumps -> Seq(Clumps)]
  /\ Uses \in [Clumps -> SUBSET Mutexes]
  /\ {Callable, LongCallers, ShortCallers, Startable, Stoppable} \subseteq SUBSET Clumps
  /\ Liberties \subseteq Liberty
  /\ MaxSleep \in Nat /\ MaxTick \in Nat

\* A mutex is an element of the dataspace: it has one place in the TOC.
ASSUME MutexesListedOnce ==
  \A i, j \in DOMAIN MutexTOC : MutexTOC[i] = MutexTOC[j] => i = j

VARIABLES
  owner,          \* MUTEX_Q.Owner; MUTEX_Q.WaitQ is queue[m]
  CalledClump,    \* CLUMP_REC.CalledClump
  returnTo,       \* the dataspace word in which SUBCALL leaves the caller's ID
  CurrFireCount,  \* CLUMP_REC.CurrFireCount
  atStart,        \* CLUMP_REC.PC was reset to CodeStart, not saved in mid-code
  awakenTime,     \* CLUMP_REC.awakenTime
  Tick,           \* IOMapCmd.Tick
  active,         \* the clump in cCmdInterpFromClump, if any
  inPass,         \* cCmdCtrl is in its loop over clumps
  ProgStatus,     \* IOMapCmd.ProgStatus
  inCall          \* history: the subroutine whose SUBRET a clump awaits

clumpRecs == <<CalledClump, CurrFireCount, atStart, awakenTime>>
vars == <<queue, owner, returnTo, clumpRecs, Tick, active, inPass, ProgStatus, inCall>>

Ids == Clumps \cup {NOT_A_CLUMP}

\* The sequences that list the set S in the order its members have in s.
InOrder(S, s) ==
  {b \in [1 .. Cardinality(S) -> S] :
     /\ S = Range_(b)
     /\ \A i, j \in DOMAIN b :
          i < j => /\ b[i] # b[j]
                   /\ \E k, l \in DOMAIN s : k < l /\ s[k] = b[i] /\ s[l] = b[j]}

Initially(q) ==
  \E b \in InOrder({c \in Clumps : InitFireCount[c] = 0}, ClumpTable) :
    q = [p \in Queues |-> IF p = RunQ THEN b ELSE <<>>]

Init ==
  /\ Initially(queue)
  /\ owner = [m \in Mutexes |-> NOT_A_CLUMP]
  /\ CalledClump = [c \in Clumps |-> NOT_A_CLUMP]
  /\ returnTo = [c \in Clumps |-> NOT_A_CLUMP]
  /\ CurrFireCount = InitFireCount
  /\ atStart = [c \in Clumps |-> TRUE]
  /\ awakenTime = [c \in Clumps |-> 0]
  /\ Tick = 0
  /\ active = NOT_A_CLUMP
  /\ inPass = FALSE
  /\ ProgStatus = "PROG_RUNNING"
  /\ inCall = [c \in Clumps |-> NOT_A_CLUMP]

-----------------------------------------------------------------------------
(***************************************************************************)
(* cCmdCtrl around the interpreter.                                        *)
(***************************************************************************)

\* A fault: only clumps due at this very tick wake.
CheckRestQExact(t) ==
  LET resting == Range_(queue[RestQ])
      ready == {c \in resting : awakenTime[c] = t}
  IN  \E awake \in InOrder(ready, queue[RestQ]),
         asleep \in InOrder(resting \ ready, queue[RestQ]) :
        /\ queue' = [queue EXCEPT ![RunQ] = @ \o awake, ![RestQ] = asleep]
        /\ awakenTime' = [c \in Clumps |-> IF c \in ready THEN 0 ELSE awakenTime[c]]

\* A new call of cCmdCtrl: time has gone on, and cCmdCheckRestQ moves the
\* clumps whose time has come from RestQ to RunQ, in RestQ's order.
CheckRestQ(t) ==
  LET resting == Range_(queue[RestQ])
      ready == {c \in resting : awakenTime[c] <= t}
  IN  \E awake \in InOrder(ready, queue[RestQ]),
         asleep \in InOrder(resting \ ready, queue[RestQ]) :
        /\ queue' = [queue EXCEPT ![RunQ] = @ \o awake, ![RestQ] = asleep]
        /\ awakenTime' = [c \in Clumps |-> IF c \in ready THEN 0 ELSE awakenTime[c]]

Pass(t) ==
  /\ ProgStatus = "PROG_RUNNING" /\ ~inPass
  /\ t >= Tick
  /\ Tick' = t
  /\ CheckRestQ(t)
  /\ inPass' = TRUE
  /\ UNCHANGED <<owner, returnTo, CalledClump, CurrFireCount, atStart, active,
                 ProgStatus, inCall>>

\* What cCmdCtrl does with the status the interpreter returns, Q being the
\* queues at that moment: end the program, rotate RunQ, go on or end the pass.
Return(Q, status) ==
  /\ active' = NOT_A_CLUMP
  /\ queue' = IF status \in {"ROTATE_QUEUE", "TIMES_UP"} THEN RotateQ(Q) ELSE Q
  /\ inPass' = (Q[RunQ] # <<>>
                /\ status \in {"CLUMP_SUSPEND", "CLUMP_DONE", "ROTATE_QUEUE"})
  /\ ProgStatus' = IF Q[RunQ] = <<>>
                   THEN IF Q[RestQ] = <<>> THEN "PROG_OK" ELSE ProgStatus
                   ELSE IF status = "STOP_REQ" THEN "PROG_OK"
                   ELSE IF status = "ERROR" THEN "PROG_ERROR" ELSE ProgStatus

\* cCmdInterpFromClump takes the head of RunQ.
Enter ==
  /\ inPass /\ active = NOT_A_CLUMP /\ queue[RunQ] # <<>>
  /\ active' = Head(queue[RunQ])
  /\ UNCHANGED <<queue, owner, returnTo, clumpRecs, Tick, inPass, ProgStatus, inCall>>

\* It finds RunQ empty: all clumps are asleep, or there are none.
EnterEmpty ==
  /\ inPass /\ active = NOT_A_CLUMP /\ queue[RunQ] = <<>>
  /\ Return(queue, "TIMES_UP")
  /\ UNCHANGED <<owner, returnTo, clumpRecs, Tick, inCall>>

\* The interpreter leaves a clump in mid-code and saves its PC.
SavePC == atStart' = [atStart EXCEPT ![active] = FALSE]

\* The instruction budget (ROTATE_QUEUE) or the millisecond (TIMES_UP) is used up.
Preempt(status) ==
  /\ active # NOT_A_CLUMP
  /\ Return(queue, status)
  /\ SavePC
  /\ UNCHANGED <<owner, returnTo, CalledClump, CurrFireCount, awakenTime, Tick, inCall>>

-----------------------------------------------------------------------------
(***************************************************************************)
(* Instructions.  An instruction acts for the head of RunQ, which is the   *)
(* active clump as long as that has not stopped itself.                    *)
(***************************************************************************)
Running == Head(queue[RunQ])

Executing == active # NOT_A_CLUMP /\ queue[RunQ] # <<>>

\* t is where the chain of calls from c, followed through f, ends.
CallChainEnd(f, c, t) ==
  /\ f[t] = NOT_A_CLUMP
  /\ \E n \in 0 .. Cardinality({d \in Clumps : f[d] # NOT_A_CLUMP}) :
       \E path \in [0 .. n -> Clumps] :
         /\ path[0] = c /\ path[n] = t
         /\ \A i \in 1 .. n : path[i] = f[path[i - 1]]

\* Before(m, n): m comes before n in the order in which mutexes are acquired.
Before(m, n) == \E i, j \in DOMAIN MutexTOC : i < j /\ MutexTOC[i] = m /\ MutexTOC[j] = n

\* The running clump, or a caller that awaits its return, owns m.
Holds(m) == owner[m] # NOT_A_CLUMP /\ CallChainEnd(inCall, owner[m], Running)

MayAcquire(m) ==
  /\ m \in Uses[Running]
  /\ owner[m] = Running => "reacquire" \in Liberties
  /\ (\E n \in Mutexes : Holds(n) /\ ~Before(n, m)) => "unordered" \in Liberties

\* cCmdAcquireMutex: take a free mutex, else queue for it.
Acquire(m) ==
  /\ Executing /\ MayAcquire(m)
  /\ \/ /\ owner[m] = NOT_A_CLUMP
        /\ owner' = [owner EXCEPT ![m] = Running]
        /\ UNCHANGED <<queue, clumpRecs, active, inPass, ProgStatus>>
     \/ /\ owner[m] # NOT_A_CLUMP
        /\ Return(EnQClump(DeQClump(queue, RunQ, Running), m, Running), "CLUMP_SUSPEND")
        /\ SavePC
        /\ UNCHANGED <<owner, CalledClump, CurrFireCount, awakenTime>>
  /\ UNCHANGED <<returnTo, Tick, inCall>>

NextOwner(m) == IF queue[m] = <<>> THEN NOT_A_CLUMP ELSE Head(queue[m])

\* A fault: the mutex becomes free while clumps wait, and the first one is woken.
ReleaseToNobody(m) ==
  /\ owner' = [owner EXCEPT ![m] = NOT_A_CLUMP]
  /\ queue' = IF queue[m] = <<>> THEN queue
              ELSE EnQClump(DeQClump(queue, m, Head(queue[m])), RunQ, Head(queue[m]))

\* A fault: the next owner is not woken.
ReleaseWakesNobody(m) ==
  /\ owner' = [owner EXCEPT ![m] = NextOwner(m)]
  /\ UNCHANGED queue

\* cCmdReleaseMutex: the longest waiter owns the mutex next, and can run.
ReleaseMutex(m) ==
  /\ owner' = [owner EXCEPT ![m] = NextOwner(m)]
  /\ queue' = IF queue[m] = <<>> THEN queue
              ELSE EnQClump(DeQClump(queue, m, Head(queue[m])), RunQ, Head(queue[m]))

\* Its assertion, that the owner releases, is the guard.
Release(m) ==
  /\ Executing /\ owner[m] = Running
  /\ ReleaseMutex(m)
  /\ UNCHANGED <<returnTo, clumpRecs, Tick, active, inPass, ProgStatus, inCall>>

\* A fault: the word is written from RunQ.Head when the head has left RunQ.
SubCallLateWord(c) ==
  LET Q == EnQClump(DeQClump(queue, RunQ, Running), RunQ, c)
  IN  /\ Executing
      /\ Running \in LongCallers \cup ShortCallers
      /\ OffQueues(queue, c) /\ inCall[c] = NOT_A_CLUMP
      /\ returnTo' = [returnTo EXCEPT ![c] = Head(Q[RunQ])]
      /\ CalledClump' = IF Running \in LongCallers
                        THEN [CalledClump EXCEPT ![Running] = c] ELSE CalledClump
      /\ inCall' = [inCall EXCEPT ![Running] = c]
      /\ Return(Q, "CLUMP_SUSPEND")
      /\ SavePC
      /\ UNCHANGED <<owner, CurrFireCount, awakenTime, Tick>>

\* OP_SUBCALL marks the caller with CalledClump; the short form does not.
\* That the subroutine is idle is the program's business: compilers acquire a
\* mutex around the call when there are several callers.
SubCall(c) ==
  /\ Executing
  /\ Running \in LongCallers \cup ShortCallers
  /\ OffQueues(queue, c) /\ inCall[c] = NOT_A_CLUMP
  /\ returnTo' = [returnTo EXCEPT ![c] = Running]
  /\ CalledClump' = IF Running \in LongCallers
                    THEN [CalledClump EXCEPT ![Running] = c] ELSE CalledClump
  /\ inCall' = [inCall EXCEPT ![Running] = c]
  /\ Return(EnQClump(DeQClump(queue, RunQ, Running), RunQ, c), "CLUMP_SUSPEND")
  /\ SavePC
  /\ UNCHANGED <<owner, CurrFireCount, awakenTime, Tick>>

MayEnd == (\E m \in Mutexes : owner[m] = Running) => "endHolding" \in Liberties

\* A fault: the PC stays at the end of the clump.
ClumpDoneKeepsPC(fireCounts) ==
  /\ SavePC
  /\ CurrFireCount' = [fireCounts EXCEPT ![active] = InitFireCount[active]]

\* CLUMP_DONE: the record is ready for the next time the clump is scheduled.
ClumpDone(fireCounts) ==
  /\ atStart' = [atStart EXCEPT ![active] = TRUE]
  /\ CurrFireCount' = [fireCounts EXCEPT ![active] = InitFireCount[active]]

\* A fault: the caller stays marked as being in a call.
SubRetKeepsMark ==
  LET caller == returnTo[Running]
  IN  /\ Executing /\ MayEnd
      /\ Running \in Callable
      /\ inCall' = [inCall EXCEPT ![caller] = NOT_A_CLUMP]
      /\ ClumpDone(CurrFireCount)
      /\ Return(EnQClump(DeQClump(queue, RunQ, Running), RunQ, caller), "CLUMP_DONE")
      /\ UNCHANGED <<owner, CalledClump, returnTo, awakenTime, Tick>>

\* OP_SUBRET: back to the caller whose ID the subroutine finds in its word.
SubRet ==
  LET caller == returnTo[Running]
  IN  /\ Executing /\ MayEnd
      /\ Running \in Callable
      /\ CalledClump' = [CalledClump EXCEPT ![caller] = NOT_A_CLUMP]
      /\ inCall' = [inCall EXCEPT ![caller] = NOT_A_CLUMP]
      /\ ClumpDone(CurrFireCount)
      /\ Return(EnQClump(DeQClump(queue, RunQ, Running), RunQ, caller), "CLUMP_DONE")
      /\ UNCHANGED <<owner, returnTo, awakenTime, Tick>>

\* cCmdSchedDependents for the dependents in `list': count each one down, in
\* a UBYTE, and put those that reach zero on Q's RunQ in the list's order.
SchedDependents(list, Q) ==
  LET hit == Range_(list)
      fired == {d \in hit : CurrFireCount[d] = 1}
  IN  /\ ClumpDone([d \in Clumps |-> IF d \in hit THEN (CurrFireCount[d] + 255) % 256
                                     ELSE CurrFireCount[d]])
      /\ \E batch \in InOrder(fired, list) :
           Return([Q EXCEPT ![RunQ] = @ \o batch], "CLUMP_DONE")

MayFire(list) == (\E d \in Range_(list) : CurrFireCount[d] = 0) => "overfire" \in Liberties

\* OP_FINCLUMP with the dependents Begin to End, none of them for -1, -1
\* (here End = Begin - 1), and OP_FINCLUMPIMMED with one.
FinClump(begin, end) ==
  LET list == SubSeq(Dependents[Running], begin, end)
  IN  /\ Executing /\ MayEnd /\ MayFire(list)
      /\ Running \notin Callable
      /\ SchedDependents(list, DeQClump(queue, RunQ, Running))
      /\ UNCHANGED <<owner, returnTo, CalledClump, awakenTime, Tick, inCall>>

\* OP_WAITI and OP_WAITV: give way at once, or sleep (cCmdSleepClump).
Wait(time) ==
  /\ Executing
  /\ Tick + time <= MaxTick
  /\ \/ /\ time = 0
        /\ Return(queue, "ROTATE_QUEUE")
        /\ UNCHANGED awakenTime
     \/ /\ time > 0
        /\ awakenTime' = [awakenTime EXCEPT ![Running] = time + Tick]
        /\ Return(EnQClump(DeQClump(queue, RunQ, Running), RestQ, Running), "CLUMP_SUSPEND")
  /\ SavePC
  /\ UNCHANGED <<owner, returnTo, CalledClump, CurrFireCount, Tick, inCall>>

MayStop(c) == c = Running => "stopSelf" \in Liberties

\* What cCmdReleaseAllMutexes gives up.
OwnedBy(clump) == {m \in Mutexes : owner[m] = clump}

\* cCmdStopClump: of a clump that has called another, only the one at the end
\* of the calls is stopped.  That clump gives up its mutexes, in TOC order
\* (cCmdReleaseAllMutexes), leaves the queue it is on, if any, and has its
\* record reset.  The interpreter goes on with the next instruction.
StopClump(c) ==
  /\ Executing
  /\ \E clump \in Clumps :
       LET owned == OwnedBy(clump)
           wanted == {m \in owned : queue[m] # <<>>}
       IN  /\ CallChainEnd(CalledClump, c, clump)
           /\ MayStop(clump)
           /\ owner' = [m \in Mutexes |-> IF m \in owned THEN NextOwner(m) ELSE owner[m]]
           /\ \E woken \in InOrder(wanted, MutexTOC) :
                LET heads == [i \in DOMAIN woken |-> Head(queue[woken[i]])]
                    left == [q \in Queues |-> IF q = RunQ THEN queue[q] \o heads
                                              ELSE IF q \in wanted THEN Tail(queue[q])
                                              ELSE queue[q]]
                IN  queue' = [q \in Queues |-> Without(left[q], clump)]
           /\ atStart' = [atStart EXCEPT ![clump] = TRUE]
           /\ CurrFireCount' = [CurrFireCount EXCEPT ![clump] = InitFireCount[clump]]
           /\ awakenTime' = [awakenTime EXCEPT ![clump] = 0]
  /\ UNCHANGED <<returnTo, CalledClump, Tick, active, inPass, ProgStatus, inCall>>

\* A fault: only RunQ is searched for the clump.
StartClumpBlind(c) ==
  /\ Executing
  /\ ~IsClumpOnQ(queue, RunQ, c)
  /\ Return(EnQClump(queue, RunQ, c), "CLUMP_SUSPEND")
  /\ SavePC
  /\ UNCHANGED <<owner, returnTo, CalledClump, CurrFireCount, awakenTime, Tick, inCall>>

\* OP_STARTCLUMP: a no-op for a clump that some queue already holds.
StartClump(c) ==
  /\ Executing
  /\ OffQueues(queue, c)
  /\ Return(EnQClump(queue, RunQ, c), "CLUMP_SUSPEND")
  /\ SavePC
  /\ UNCHANGED <<owner, returnTo, CalledClump, CurrFireCount, awakenTime, Tick, inCall>>

\* OP_STOP, or an instruction that fails: the program ends, whatever runs.
EndProgram(status) ==
  /\ Executing
  /\ Return(queue, status)
  /\ UNCHANGED <<owner, returnTo, clumpRecs, Tick, inCall>>

\* The next program, activated by cCmdActivateProgram once cCmdCtrl has left
\* the reset states, starts from its file: nothing of the last one is left.
Activate ==
  /\ ProgStatus # "PROG_RUNNING"
  /\ Initially(queue')
  /\ owner' = [m \in Mutexes |-> NOT_A_CLUMP]
  /\ CalledClump' = [c \in Clumps |-> NOT_A_CLUMP]
  /\ returnTo' = [c \in Clumps |-> NOT_A_CLUMP]
  /\ CurrFireCount' = InitFireCount
  /\ atStart' = [c \in Clumps |-> TRUE]
  /\ awakenTime' = [c \in Clumps |-> 0]
  /\ ProgStatus' = "PROG_RUNNING"
  /\ inCall' = [c \in Clumps |-> NOT_A_CLUMP]
  /\ UNCHANGED <<Tick, active, inPass>>

-----------------------------------------------------------------------------
Instruction ==
  \/ \E m \in Mutexes : Acquire(m) \/ Release(m)
  \/ \E c \in Callable : SubCall(c)
  \/ SubRet
  \/ \E begin \in 1 .. Len(Dependents[Running]) + 1 :
       \E end \in begin - 1 .. Len(Dependents[Running]) : FinClump(begin, end)
  \/ \E time \in 0 .. MaxSleep : Wait(time)
  \/ \E c \in Stoppable : StopClump(c)
  \/ \E c \in Startable : StartClump(c)
  \/ \E status \in {"STOP_REQ", "ERROR"} : EndProgram(status)

Next ==
  \/ \E t \in Tick .. MaxTick : Pass(t)
  \/ Enter
  \/ EnterEmpty
  \/ \E status \in {"ROTATE_QUEUE", "TIMES_UP"} : Preempt(status)
  \/ Executing /\ Instruction
  \/ Activate

Spec == Init /\ [][Next]_vars
\* A clump that has something to do is not overtaken forever: each pass enters
\* the head of RunQ, the millisecond timer ends every stretch of instructions
\* however the clump behaves (c_cmd.c:4751-4752), and time goes on.
Fairness ==
  /\ WF_vars(Enter)
  /\ WF_vars(EnterEmpty)
  /\ SF_vars(Preempt("TIMES_UP"))
  /\ WF_vars(\E t \in Tick .. MaxTick : Pass(t))
  /\ SF_vars(\E t \in Tick + 1 .. MaxTick : Pass(t))

FairSpec == Spec /\ Fairness

-----------------------------------------------------------------------------
Fired == UNION {Range_(Dependents[c]) : c \in Clumps}

\* What a program that the compilers emit keeps to: the clumps it starts, the
\* ones it calls and the ones it schedules are different clumps, nothing calls
\* a subroutine that starts by itself, a clump with short calls is not
\* stopped, and the liberties that take a clump off its queue are not taken.
WellFormed ==
  /\ Startable \cap (LongCallers \cup ShortCallers \cup Callable \cup Fired) = {}
  /\ Callable \cap Fired = {}
  /\ Stoppable \cap ShortCallers = {}
  /\ \A c \in Callable : InitFireCount[c] # 0
  /\ {"overfire", "stopSelf"} \cap Liberties = {}

\* The variables have their types, and the interpreter is entered only inside
\* a pass of a running program.
TypeOK ==
  /\ queue \in [Queues -> Seq(Clumps)]
  /\ owner \in [Mutexes -> Ids]
  /\ CalledClump \in [Clumps -> Ids]
  /\ returnTo \in [Clumps -> Ids]
  /\ CurrFireCount \in [Clumps -> 0 .. 255]
  /\ atStart \in [Clumps -> BOOLEAN]
  /\ awakenTime \in [Clumps -> Nat]
  /\ Tick \in 0 .. MaxTick
  /\ active \in Ids
  /\ inPass \in BOOLEAN
  /\ ProgStatus \in {"PROG_RUNNING", "PROG_OK", "PROG_ERROR"}
  /\ inCall \in [Clumps -> Ids]
  /\ active # NOT_A_CLUMP => inPass
  /\ inPass => ProgStatus = "PROG_RUNNING"

\* Nobody waits for a mutex that is free: such a waiter would never be woken,
\* since only a release looks at the WaitQ.  This is the assertion of
\* cCmdAcquireMutex that a free mutex has an empty WaitQ (c_cmd.c:2566).
WaitersHaveOwner == \A m \in Mutexes : queue[m] # <<>> => owner[m] # NOT_A_CLUMP

\* A clump that has called another one is on no queue of any kind, as
\* cCmdStopClump relies on (c_cmd.c:2656-2660).
CallersOffQueues ==
  \A c \in Clumps : CalledClump[c] # NOT_A_CLUMP => OffQueues(queue, c)

\* A subroutine on a queue has a caller that waits for it and for nothing
\* else, and it is to this caller that its SUBRET will go.
SubroutineReturnsToCaller ==
  \A c \in Callable :
    ~OffQueues(queue, c) =>
      /\ returnTo[c] # NOT_A_CLUMP
      /\ inCall[returnTo[c]] = c
      /\ OffQueues(queue, returnTo[c])

Idle(c) == OffQueues(queue, c) /\ inCall[c] = NOT_A_CLUMP /\ c # active

\* Whichever way a clump came to its end, finished, returned from or stopped,
\* waiting or not: it begins at its first instruction the next time, has no
\* wake-up time left over and leaves no mutex owned.
IdleIsOver ==
  \A c \in Clumps : Idle(c) => /\ atStart[c] /\ awakenTime[c] = 0
                               /\ \A m \in Mutexes : owner[m] # c

\* When cCmdCtrl finds RunQ and RestQ empty and reports PROG_OK, the program
\* is done: no clump is left behind in a WaitQ, unless a STOPCLUMP has taken
\* the subroutine that it, or the mutex's owner, had called.
NoStrandedWaiter ==
  /\ ProgStatus = "PROG_OK" /\ queue[RunQ] = <<>> /\ queue[RestQ] = <<>>
  /\ \A c \in Clumps : inCall[c] = NOT_A_CLUMP
  => \A m \in Mutexes : queue[m] = <<>>

\* Every clump on RunQ gets its turn while the program runs.
RunnableRuns ==
  \A c \in Clumps :
    IsClumpOnQ(queue, RunQ, c) ~>
      (active = c \/ ~IsClumpOnQ(queue, RunQ, c) \/ ProgStatus # "PROG_RUNNING")

\* Every sleeping clump wakes, is stopped, or the program ends.
SleepersWake ==
  \A c \in Clumps :
    IsClumpOnQ(queue, RestQ, c) ~>
      (~IsClumpOnQ(queue, RestQ, c) \/ ProgStatus # "PROG_RUNNING")

\* Stopping a clump frees what it owned: at both STOPCLUMP opcodes the code
\* says "Release any mutexes that the clump we are stopping owns"
\* (c_cmd.c:4890).
StopReleasesMutexes ==
  [][\A c \in Stoppable : Executing /\ StopClump(c) =>
       \A m \in Mutexes : owner'[m] # c]_vars
=============================================================================
