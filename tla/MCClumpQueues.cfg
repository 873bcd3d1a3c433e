CONSTANTS
  c1 = c1
  c2 = c2
  c3 = c3
  c4 = c4
  c5 = c5
  mutex = mutex
  Clumps <- Program
  Mutexes <- Dataspace
  RunQ = RunQ
  RestQ = RestQ
  NOT_A_CLUMP = NOT_A_CLUMP
SPECIFICATION LinkedSpec
PROPERTY ListsImplementFifo
