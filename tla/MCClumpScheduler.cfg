CONSTANTS
  main = main
  task = task
  aux = aux
  join = join
  sub = sub
  m1 = m1
  m2 = m2
  RunQ = RunQ
  RestQ = RestQ
  NOT_A_CLUMP = NOT_A_CLUMP
  Clumps <- Program
  ClumpTable <- ProgramTable
  Mutexes <- Dataspace
  MutexTOC <- DataspaceTOC
  InitFireCount <- FireCounts
  Dependents <- DependentLists
  Uses <- MutexUses
  Callable = {sub}
  LongCallers = {aux}
  ShortCallers = {main}
  Startable = {task}
  Stoppable = {task, aux}
  Liberties = {}
  MaxSleep = 1
  MaxTick = 2
SPECIFICATION FairSpec
PROPERTIES RunnableRuns SleepersWake
INVARIANTS QueueExclusive WaitersHaveOwner CallersOffQueues
  SubroutineReturnsToCaller IdleIsOver NoStrandedWaiter
