# A verification of the NXT3 firmware core

NXT3 (`src/firmware/core`) is the firmware of the LEGO Mindstorms NXT, ported to run as a Linux
process on the EV3. These are TLA+ models of it, model-checked with TLC on small instances, and
theorems about them proved with TLAPS for every value of the constants. All paths below are relative
to `firmware/core/src` unless they begin otherwise; `PROJECT.json` gives the lines behind every
definition.

Contents: 1 the system, 2 its components, 3 the plan, 4 the models, 5 what the runs show, 6 what is
proved, 7 where code and documentation disagree, 8 what is not modelled.

## 1. The system

The firmware is one loop. `m_sched.c` calls the `Init` of twelve modules, then the controllers of all
of them again and again,

    Comm, Input, Button, Display, Loader, LowSpeed, Output, Sound, IOCtrl, Cmd, Ui, Pnp

until `IOMapCmd.Awake` is false at the end of a round, then their `Exit`. There are no threads and no
callbacks: a controller runs to its end. Each module has an *IO map*, a global record of requests and
results. The modules work together by writing each other's IO maps; in particular

* the **virtual machine** (`c_cmd.c`) executes a program file, writes the IO maps of the outputs,
  inputs, sounds and I2C ports, and calls the loader and the display;
* the **user interface** (`c_ui.c`, `Functions.inl.h`) starts programs through `ActivateFlag`, waits
  for `ProgStatus` and writes `PROG_RESET` back, samples sensors, plays sounds;
* **communication** (`c_comm.c`) hands commands of a host or another brick to
  `cCmdHandleRemoteCommands`, which may change anything a program may, between any two rounds.

So the hard behaviours are interleavings of rounds: a protocol between two modules takes several
rounds, and remote commands, the user, the hardware and the end of a program come in between. Inside
one call of the virtual machine the hard behaviours are long sequences of legal operations on shared
structures: clump queues, dope vector lists, the memory pool. There is no persistence that a crash
could interrupt except file uploads; signals end the process as power-off does.

## 2. The components

For each: state, operations, interactions, what is hard, what makes it correct.

**Scheduler of modules** (`m_sched.c`). State: none but `Awake`. Correct if every controller is called
once in a round and the brick is turned off only through `IOCtrl`.

**Clump scheduler** (`c_cmd.c:1535-1600, 2300-2800, 4640-5170`). A program is a set of *clumps*
(threads) on a run queue, a rest queue (sleepers, sorted by nothing: the whole queue is scanned) or the
wait queue of a mutex, all linked through one `Link` per clump. Operations: acquire and release of
mutexes, subroutine calls of two forms, `WAIT`, `FINCLUMP` (fires dependents by counting down
`CurrFireCount`), `STARTCLUMP`, `STOPCLUMP`, rotation after 20 instructions, interruption by the
millisecond. Hard: the same clump handled by several of these. Correct if a clump is on at most one
queue, no waiter is lost, subroutines return to their callers, a clump restarts at its beginning, and
every clump that can run does.

**Memory manager** (`c_cmd.c:2800-3400`). A pool holds the dataspace; arrays are described by *dope
vectors*, entries of an array that has a dope vector itself, in a list in memory order and a free list.
Arrays grow in place or move to the end; a full pool is compacted and the instruction runs again. Hard:
failures half-way, arrays of arrays, the retry, resizing of the dope vector array itself. Correct if no
byte belongs to two arrays, no vector leaks or dangles, and the lists are what `cCmdVerifyMemMgr` says.

**Message queues and datalog** (`c_cmd.c:3400-3700`). Twenty rings of five messages and one ring of
thirty entries, of dope vectors. Written and read by programs and remote commands. Correct if each is a
first-in first-out buffer that loses only its oldest message and only when full.

**Life of a program** (`c_cmd.c:1480-1790`, `Functions.inl.h:2120-2215, 2560-2800, 4230-4300`,
`c_ui.c:1365-1793`). `VMState` and `ProgStatus` of the machine, the state and step of the user
interface, its flags. Operations: start from the menu, on the brick and remotely; stop by button,
remote command and power-off; debugger commands; the end, error or abort of a program, two resets and
the display of how it ended. Correct if both sides agree, outputs and sounds stop at a program's end,
and the machine returns to idle.

**Program files** (`cCmdActivateProgram`, `cCmdReadFileHeader`): pointers into the file, clump records,
default values. Correct if a file that is not well-formed is refused before anything depends on it.

**Instructions and system calls** (`c_cmd.c:4360-6700, 7000-10100`, `c_cmd_drawing.inc`). Mostly pure
functions of the dataspace. Hard: widths and signedness, element-wise operations on arrays of different
length, a destination that is also a source, arrays that move when they grow, memory that runs out half
way and the second run of the instruction. Correct if the destination holds what the instruction means
and nothing else has changed.

**Remote commands** (`c_cmd.c:480-1240`): synchronous, each one operation on IO maps, message queues or
the virtual machine's state.

**I2C ports** (`c_lowspeed.c`, system calls and remote commands, `Functions.inl.h:120-260`). Per port a
state, a ring of 16 bytes, a bit in `Active`. Requests, then one step per round; a device that is
absent, busy, silent or failing; reading of the ring. Correct if a started transaction ends and its
response is found complete.

**Sound** (`c_sound/`). `UPDATE` and `RUNNING` flags, a state, a file or tone. Requested by three
clients that do not know of one another. Correct if the documented test for a finished sound is right
and programs' sounds end with them. Decoding (`adpcm.c`, `buffer.c`, `resampler.c`) is computation.

**Output** (`c_output.c`, `c_output_reg.c`). Three motors with run states, ramps, tacho limits,
regulation and synchronisation, requested through update flags by programs, remote commands and menus,
and reset when a program ends. Hard: an order meets a motor in any state, with a partner in any other.
Correct if a limited run ends at its limit, synchronised motors stop together, a program's end leaves
all motors without a run, and an idle motor loses its power.

**Input** (`c_input.c`). Four ports: a change of `SensorType` resets the port and makes its values
invalid for a time; debouncing, edge and period counts; colour sensors. Correct if no value of the
former type is reported as valid.

**Communication** (`c_comm.c`, `d_bt.c`). Packets from USB, the high-speed port and Bluetooth; file
commands, long ones in several packets; commands to the Bluetooth chip with a table of devices and
connections, one request at a time (`ActiveUpdate`), each a sequence of steps with answers awaited.
`d_bt.c` has only empty functions in this port, so every answer is a time-out there. Hard: whose cell an
answer is written to after a time-out, and in which mode the chip is. Correct if one request at a time is
served, its asker gets a result, and commands go to a chip that reads commands.

**Loader** (`c_loader.c`): file handles over the hardware layer, linear searches, module searches, for
hosts, programs and menus. Hard: a handle is a number that is given out again. Correct if a handle stays
its client's until he closes it and is closed when he goes.

**Buttons** (`c_button.c`): press, long press and release counters with wrap-around.
**Display** (`c_display.c`): update flags consumed one kind after another.
**IO control** (`c_ioctrl.c`): power-off. **Plug and play** (`c_pnp.c`): polls devices.
**User interface** (rest of `c_ui.c`, `Functions.inl.h`): menus, settings, the on-brick editor, pop-ups.
**Hardware layer** (`nxthal`, `nxthal_lms2012`): not in the repository.

## 3. The plan

In the order of importance. Stages 1 to 7, the handles of stage 8 and the instructions of stage 9 are
done.

| Stage | Modules | Abstract specification |
|---|---|---|
| 1 clump scheduler | `ClumpNames`, `ClumpFifo`, `ClumpQueues`, `ClumpLists`, `ClumpScheduler` | queues of clumps as sequences (`ClumpFifo`), implemented by the linked lists |
| 2 memory, messages | `MemMgr`, `MessageQueue` | `MessageFifo` |
| 3 life of a program | `VMLifecycle` | `ProgramLife` |
| 4 I2C ports | `LowSpeed` | |
| 5 sound | `Sound` | |
| 6 outputs | `Output` | |
| 7 communication | `Bluetooth` (the command machine and who uses it); file commands in `Files` | |
| 8 loader | `Files` | |
| 8 inputs, buttons, display | to do: one module each | the validity of sensor values; presses counted once |
| 9 computations | `Scalars`, `Instructions` | `Meaning`, the reference definitions |
| 9 the rest | to do: number and text conversions, the header of a program file, decoding of sounds | |
| 10 rest of the user interface | to do: menus, settings, the on-brick editor | |

Every safety property that holds in a run is proved, except those of `Instructions`. What is left to prove
belongs to the modules still to do.

The models are written to be proved about: constants with named assumptions, one action per operation,
walks along lists as recursive functions, invariants as named conjuncts. `RECURSIVE` operators are
confined to `Meaning` and `Instructions`, which follow nested data and have no theorems.

## 4. The models

    ClumpNames <-- ClumpFifo  <--EXTENDS--  ClumpScheduler                      <--EXTENDS--  ClumpSchedulerProofs
                     ^--implemented by--  ClumpQueues <--INSTANCE-- ClumpLists  <--EXTENDS--  (its last part)
    MemMgr     <--EXTENDS--  MessageQueue  --implements-->  MessageFifo
                             MessageQueue    <--EXTENDS--   MessageQueueProofs
    VMLifecycle  --implements-->  ProgramLife;   LowSpeed;   Sound;   Files;   Output;   Bluetooth
                                                                          (each with ...Proofs)
    Scalars  <--  Meaning  <--  Instructions

**Faults.** A definition whose comment begins with "A fault" (`EnQClumpInFront`, `ClumpDoneKeepsPC`, ...)
is not the code: it is a plausible mistake in the definition that follows it, not used by the
specification, and listed under `mutants` with the property that detects it when it is put in.

**History variables.** `inCall` (the subroutine a clump waits for), `wild`, `content` (which message an
array holds), `stopFor`, `abandoned`, `undisturbed`; in `Sound` `forced`;
in `Files` `held`, the `who` of an open handle, and `cropped` and `struck` of `usb`; in `Bluetooth` `lost`, `sent` and the value "left"; in `Instructions` `instr`, `start` and `packed`. They
record what happened for use in properties (`wild`, `inCall` and `stray` also keep behaviours to those
that are defined) and have no counterpart in the code. Every other variable names the field it stands
for.

### ClumpNames, ClumpFifo, ClumpQueues, ClumpLists, ClumpScheduler

`ClumpNames` has the clumps, mutexes and names of queues that the others share. `ClumpFifo` has the queue
operations on sequences: enqueue, dequeue of any member, rotation. `ClumpQueues` has `cCmdEnQClump`,
`cCmdDeQClump` and `cCmdRotateQ` with heads, tails and one `Link` per clump; their assertions are guards,
because a release build compiles them out and relies on its callers. That it implements `ClumpFifo` for
every sequence of operations within those guards, and that `ClumpScheduler` keeps within them
(`QueueExclusive`), is what makes it right to use sequences there. `ClumpLists` states it of the
scheduler's clumps, for the run and the proof.

In `ClumpScheduler`, `Pass` is the head of the loop in `cCmdCtrl`: the clock, `cCmdCheckRestQ`, the end
of the program if both queues are empty. `Enter` is the call of `cCmdInterpFromClump` with the head of
the run queue; `Preempt` its return after 20 instructions or at the millisecond; the other actions are
the scheduling instructions, each with everything the handler does, including the return to the loop
and the test whether the millisecond is over. Data instructions are not modelled: any number of them may
lie between two scheduling instructions. The program is arbitrary within its constants: who uses which
mutexes, calls, starts, stops and fires whom. `WellFormed` says what programs of the compilers keep to
and the machine does not check; `Liberties` names what else a program might do.

`EndProgram` and `Activate` cover errors, aborts and the next program. `OP_PRIORITY`, breakpoints and
the single step of one clump are left out.

### MemMgr, MessageQueue, MessageFifo

The C functions pass the manager's state around in `VarsCmd`; here it is a record `M`, so handlers can
call several functions one after the other. One action is one instruction or one remote command with
all its allocations, and with the compaction and the second run if memory was short: nothing else can
come in between in the code either. Offsets, sizes, alignment, growth of the dope vector array and the
growth in place are computed as in the code, in units of a few bytes. Arrays are a byte array and an
array of byte arrays. Writes to a dope vector that does not exist (index `0xFFFF`) lie outside the
model. Counts are kept small enough for a size not to overflow 16 bits, which the code does not check
(a hazard without a property).

What the code does after an array has grown over another's memory, or an index was used that was never
written, is undefined: the model records it in `wild` and stops there. Sections 5 and 7 say how it gets
there.

### VMLifecycle, ProgramLife

`turn` goes through the controllers of a round that take part; each is one step, in the order of
`m_sched.c`. Remote commands come in `Comm`'s turn, any number of them. What the user and the hardware
do is nondeterministic where it is read: any button may be found pressed, Bluetooth may ask for a
pop-up, the sleep timer may run out. A time slice of a program lets it go on, end or fail, and may leave
outputs driven. The user interface is modelled where it deals with programs: `cUiFileRun`,
`cUiOnBrickProgramming` from its start of a program, `cUiOff`, and the order of requests at the end of
`cUiCtrl`. `UiStep` is `VarsUi.State`, with a name for each step that only one type of file takes.

`cUiFileRun` takes every file it is asked to show: a compiled program waits for an idle machine, and so
does an on-brick program whose steps can be read; a sound is played and a broken on-brick program is shown
without looking at the machine; a data log, which only a remote start asks for, goes at once to the display
of the end; a file of an unknown type makes the function return at once. All but the last end in
`FileRunOver`, which writes `PROG_RESET` over whatever status there is. A remote start may come while an
on-brick program runs, which is not marked as busy; the program runs on, its status overwritten. The
history variable `abandoned` says that the user interface was taken from the function that waits for the
program in the machine; it ends with that program.

`ProgramLife` is what the machine promises the user interface: a status that goes from idle to running
(or, if the file is no program, at once to an error), to one of the ends, to reset, to idle, and no next
program before the outputs of the last one are off. Only a program the user interface has left
(`unattended`) can be reset in the status before it has ended; it still ends, and its end is shown.

Excluded: programs that write the IO maps of the virtual machine, the user interface or IO control
themselves, benchmarks, and the pop-up of a low battery.

### LowSpeed

A port is a record; the step operators give the set of what a port may become. Whether the sensor type
is an I2C type and whether a device is plugged in is nondeterministic at every check. `RxTimeCnt` is 0
outside `COMMUNICATING`, where the code does not look at it. `Mode`, `ErrorType` and the bytes sent and
received are left out. `running` and the sampling of sensors exclude one another as `UI_BUSY` and the
menu do.

### Sound

The module's state is a record; `asked` and `source` say whose request is in the IO map and whose sound
is played. The hardware layer takes a block, has no room or fails, and is finished at some time; when it
is silent it has room. A file is the number of blocks still to be sent; those read and not yet sent
count as such. `VM_RUN_FREE` stands for all states in which a program exists. A program plays files and
tones (`SystemCall`) and sets the module's state to any value and adds any flags, at any time
(`cCmdWrapSoundSetState`): also a state the module does not know ("other"), a running flag without a
sound, or the state of a tone while a file plays. `forced` is the history of that: it is set when a
program has set another state than `SOUND_STOP`, or the flag, and cleared when the module next starts or
stops a sound.

### Output

`md` is `MotorData`, `out` the outputs of the IO map with `Flags`, which say what of it is an order.
`cOutputCtrl` is the module's turn: it takes the orders of all motors, then drives each through ramp-up,
ramp-down, the run, idling and holding, in the order in which the code tests for them within one call,
then regulates it or not. Everything else is an action of who gives orders: `ExecuteSetOut` (the
instruction `OP_SETOUT`, any set of fields), `SetOutState` (`RC_SET_OUT_STATE`), `UpdateResetCount`,
`UiResetPort`, `ResetDevices` (what the machine does at a program's end), and the plugging in and out of
a motor. How fast a ramp goes and what the regulators compute is left open: a ramp steps or not, and
regulation yields any of `Powers`. Positions move as the power says or stand still. Block and rotation
counts have no influence on a run and are left out.

### Files

`open` are the handles of the file system, with who asked for each and in which mode; `held` is what
each client may still use. The other variables are where the firmware notes handles: those opened over
USB, the file of a long write of which packets are to come (`VarsComm.ExtMode`), the files of the
program (`FileHandleTable`) and its image (`ActiveProgHandle`), a module search, and the searches, data
log and transfers of menus. Actions are the system commands of each channel, the later packets of a long
write, the end of a stream, the cable and its detection, the program's system calls, the start and end
of a program, and the menus. The file system gives out any free handle and may refuse anything;
truncating a file closes it, which `c_cmd.c:2300` takes for granted.

Hosts crop files over USB as over Bluetooth. Over USB that leaves the note of the handle behind, and the
removal of the cable closes whatever file has the number by then (section 7). `usb.cropped` are the notes
that have outlived their files, `usb.struck` the numbers that such a note has closed while in use. What is
claimed of handles is claimed of all numbers that are not struck, at all times, also beside struck ones.

### Bluetooth

One record, `bt`, holds what `VarsComm` and the IO map say: the request (`ActiveUpdate`), the six state
counters of the machine and of the smaller machines it shares between requests, what a request parks,
the cell its answer goes to (`pRetVal`), the results in the cells of those who wait, the mode the code
believes the chip is in, the chip's pin, the connections and the source of a transfer. One call of
`cCommCtrl` is one of four actions, by what happens in that round: nothing (`Quiet`), a message
(`Heard`), a peer on the stream that reads more of a file than a message holds, for which the machine
begins a request of its own (`ReadRequested`, `EXTREAD`), a time-out (`TimeOut`).
The others are requests of menus, a program, the end of a program and a PC (`cCommReq`), and the PIN
code.

The chip is the environment: any message at any time, with any result, any loss. The four assumptions in
the module's header are what the code relies on: what arrives while the pin is high is data; the chip
leaves a stream unasked only when the connection is gone; it reports that before anything else; it opens
streams only of connections it has. Names, addresses, visibility and the device table are left out, and
a program's general call of communication functions (`c_cmd.c:9366`) is represented by `OPENSTREAM`.

### Scalars, Meaning, Instructions

`Scalars` has the arithmetic of the machine: raw bits in the dataspace, fetched into 32 bits with or
without a sign, computed there and stored as the low bits, with the comparisons of mixed signedness, the
sorts and the shifts as the code does them, and an open result where C leaves one. `Instructions` has
moves, unary and binary operations, comparison and branches on scalars, arrays, clusters and arrays of
arrays in any combination, and the array and string instructions, each as the interpreter steps through
them: sizing of the destination, the loop over elements, the branch for equal sources and destinations,
the return for lack of memory. An instruction that lacks memory is run a second time over what it has
changed already, as `cCmdInterpFromClump` does. An array of arrays, or of clusters with arrays, may find
memory for itself and then none for the dope vector of any of the arrays in its new elements: it has its
new count, the second run therefore allocates nothing, and the elements left without (`NoVector`) hold an
index that was never written. An instruction that uses one ends the model like a write behind an array
(`stray`). `Meaning` says on plain integers and sequences what each
should do, without following the code; `Promised` lists where the instruction does not mean anything,
and section 7 why.

A program is its types, the initial dataspaces and its instructions, run in any order; `start` holds the
operands an instruction started with.

## 5. What the runs show

The distinct states found are given to show that the runs are not vacuous; every action of the
specifications occurs in them.

| Run | Instance | Question |
|---|---|---|
| `clump_queues` | 5 clumps, run, rest and one wait queue; 5056 states | Do the linked lists implement the queues? |
| `clump_scheduler` | 5 clumps that use every scheduling instruction, 2 mutexes, waits of up to 1 tick, 2 ticks; 95687 states | Are queues, owners, calls and restarts consistent; does every clump that can run, run, and every sleeper wake? |
| `message_queue` | at most 13 dope vectors, a pool of 14 units, arrays of up to 2 elements, a queue of 2 messages; 183169 states | Do memory, dope vectors and messages stay consistent through growth, compaction, retries and failures? |
| `compaction_moves_down` | the same | Divergence: an array that has grown over others |
| `vm_lifecycle` | no bounds needed, all four states a debugger asks for; 506268 states | Do machine and user interface agree, and does an ended program lead to an idle machine? |
| `ui_resets` | the same | Divergence: a program that is never reset |
| `low_speed` | 2 ports, a ring of 2 bytes, time-out after 1 round, one sampled port; 260144 states | Do transactions end, is none forgotten, are responses complete? |
| `sound` | files of up to 2 blocks, any state and flags set by programs; 25557 states | Is the test for a finished sound right, are programs silenced, do sounds end? |
| `output` | 2 motors, speeds up to 2, limits up to 1, counts up to 2, 5 kinds of orders, 2 program writes, 2 orders in a behaviour; 422165 states | Does no run pass its limit, do pairs stop together, does a program's end stop everything, do idle motors run down? |
| `files` | 3 handles, USB and Bluetooth, one number struck by a stale note; 695166 states | Does nobody lose a handle to another but by the note of a cropped file, and is what is left behind closed? |
| `bluetooth` | 2 connections, files of 3 blocks, 2 in a message, time-out after 1 round; 92640 states | Do answers reach who waits, is the chip in the mode the code believes, is what is opened closed? |
| `instructions` | bytes of 2 bits, all instructions on small programs, 1 to 3 instructions in a row, one lack of memory each, at any array or dope vector; 63840 states | Does every instruction do what it means, also in place and when it runs twice? |

**Why the bounds are enough.**
Queues: the cases of a list operation (first, inner, last, only member; rotation of two and of more)
need at most three members on a queue and one elsewhere.
Scheduler: two mutexes are what it takes to acquire in order and to hold one while waiting for another;
five clumps give one that starts others, one that is fired by two, one callee shared by two callers
with the two call forms, one that is started and stopped; one tick of sleep and two ticks of time are
enough for a sleeper to be due, overdue and followed by another. Every well-formed program is covered by
the theorems for the safety properties among them.
Memory: the pool is so small that every allocation fails in some state, with room for the vectors of
two elements and two messages; arrays of 0, 1 and 2 elements grow, shrink and vanish; alignment to 2
leaves gaps. The growth of the dope vector array by 1 instead of 25 makes it grow and fail often.
I2C: ports are independent but for `Active`, so a second port shows what one does to another; a ring of
2 is filled by a response of 2, and a time-out after one round still has the late answer after it.
Sound: two blocks are sent in one part, in two, or are interrupted in between.
Outputs: two motors make a pair; what a third does to them is left to the proofs. Speeds of up to 2 have
one below, at and above the least power that moves a motor, in both directions, so that signs, ramps up
and down and the two ends of a range occur; the second order meets every state the first has led to.
Files: a third handle lets two clients hold one each and a number be given to a third party. The
constraint `OneStruck` goes on from states in which no number is struck, or in which number 0 is and of
the two others one stays closed: which number it is does not matter, as the file system gives out any, and
what two clients and a struck number do to one another needs one number that is not struck. The states in
which more numbers are struck are left to the proofs, which have no such bound.
Bluetooth: two connections are the stream and another one; three blocks of a file with two in a message
make a full message, a part and an end; a time-out after one round meets every state of every machine.
Instructions: a byte of 2 bits leaves words of 4 and longs of 8 bits, so overflow, sign extension and
truncation between all widths happen with few values; scalar programs take every pair of source types
out of a narrow and a wide one of each sign, with destinations of a signed word and long; arrays have up
to three elements and strings up to four characters; memory runs out before each of the first three dope
vectors that an instruction on nested arrays asks for; a second instruction sees what the first left
behind, a third what that led to.

**Deadlock** is checked where the system never stops: clumps (a program ends and another is activated),
I2C, sound, outputs, files, Bluetooth. `message_queue` stops in states after which behaviour is
undefined, `vm_lifecycle` when the brick is off, `instructions` when its number of instructions is used.

**Fairness and why the code justifies it.**
* `ClumpScheduler`: the head of the run queue is entered in every pass (`cCmdCtrl` is called in every
  round), the millisecond ends every stretch of instructions (`c_cmd.c:4751-4752`) however often the
  clump gives up the processor before, hence strong fairness of `Preempt("TIMES_UP")`, and time goes on.
  With `MaxTick` time ends: the properties then speak of the passes without a new tick.
* `VMLifecycle`: rounds follow one another. `SF(FileRunOver)`: the ending is displayed for a fixed time.
  A sound that a file
  shown by the user interface waits for may be repeated for ever by a remote command; a program's end does
  not depend on it. `SF(OffPower)`: power-off waits for the end of a request to close all Bluetooth connections. With
  `d_bt.c` as it is the request is ended by a time-out in the next round (`c_comm.c:201-205`); with a
  chip it would be by its answer.
* `LowSpeed`: the controller is called in every round. Devices may stay silent for ever.
* `Sound`: rounds follow one another, and the hardware finishes what it was sent. That a client sooner
  or later stops asking, no sound is repeated and no program sets states for ever is a premise of the
  property and not an assumption. A state the module does not know stays: the user interface waits for
  `SOUND_IDLE` then until a sound is next asked for or the program ends.
* `Bluetooth`: `cCommCtrl` is called in every round (`Progress`); a chip that is told to leave a stream
  leaves it (`PinFalls`); a command that is not answered times out (`CommandTimesOut`), which the code's
  timer guarantees, but not while data passes and not while a PIN code is asked for. The answer of a
  user who is asked for a PIN code is not assumed: the property's cells are those of requests.

## 6. What is proved

All theorems hold for every value of the constants that satisfies the `ASSUME`s of the modules.

**Clump scheduler** (`ClumpSchedulerProofs`), for every well-formed program with any
number of clumps and mutexes: type correctness, a clump is on at most one queue (`Exclusion`), nobody
waits for a free mutex (`NoLostWaiter`), callers are off the queues (`SuspendedCallers`), and a
subroutine returns to the caller that waits for it (`CallReturn`). None of these is inductive. The
invariant adds: the active clump is at the head of the run queue (`ActiveIsHead`); a clump marked as
having called another is the one history says is in that call, and each callee has one such caller
(`CallsConsistent`); a subroutine on a queue, active or in a further call has a live caller
(`LiveSubroutines`); a clump that is fired by others and is scheduled has its count at 0
(`FiredCounted`), which is why `FINCLUMP` never enqueues a clump that is on a queue. The chain of
reasoning: `WellFormed` separates the ways a clump comes onto a queue; `FiredCounted` covers firing;
`CallsConsistent` covers calls and returns; handing a mutex over moves the head of a wait queue, which
`QueueExclusive` itself says is nowhere else. The module begins with the lemmas about removal, rotation
and concatenation of sequences without duplicates that every step needs. `WellFormed` is needed:
with a liberty such as `stopSelf` the properties fail.

The second part of the module adds that an idle clump is over (`IdleIsOver`): it begins at its first instruction
when it is scheduled again, sleeps no longer and owns no mutex. `Disciplined` says what this needs beyond
`WellFormed`: no clump acquires a mutex it owns, and none ends with one. A second invariant on top of the
first makes it inductive (`RInv`): a clump that is neither scheduled nor in a call is over
(`DeadAreOver`); only sleepers have a wake-up time (`SleepersRest`); nobody waits for a mutex he owns
(`OwnersDoNotWait`), for otherwise the release of the mutexes of a stopped clump would hand one of them
back to it. A program that acquires its mutexes in their order (`Ordered`) moreover leaves nobody waiting
when it ends (`NobodyStranded`, the property `NoStrandedWaiter`). The invariant for this (`WInv`): a clump
that waits for mutex n, itself or through the subroutine it is suspended in, owns only mutexes before n.
If the run queue and the rest queue are empty and somebody waits, take the greatest mutex waited for: it
has an owner (`WaitersHaveOwner`), who has not come to his end and so is in a call chain that ends in a
wait queue, for a mutex after it. `MutexesListedOnce` (the compilers' table lists no mutex twice) makes
the order one; the least element of a set of numbers, which the argument needs, is the lemma `LeastNat`.

**Clump queues** (the last part of `ClumpSchedulerProofs`), for any finite number of clumps and any
mutexes: heads, tails and the one link implement `ClumpFifo` (`ImplementsQueues`, the property
`ListsImplementFifo`), and what `cCmdIsQSane` asserts of a queue holds (`AlwaysSane`). The invariant
(`LinkedInv`): there are sequences, with no clump twice on them (`Once`), of which heads and tails are
the ends and links the successors (`Lists`). Each operation on lists is shown to give the lists of the
sequences that the operation of `ClumpFifo` gives; the other queues stay because their members are
others' (`OneChanges`). Last, a walk along a list meets its members (`WalkOfList`). That is an induction
over the steps of the walk, made without the library's induction theorems: the equation has a solution,
which is written down, so the recursive function satisfies it; and the least step at which the two differ
does not exist (`LeastNat`). A walk of one step more than there are clumps is long enough since the
members of a list are different.

**Memory and messages** (`MessageQueueProofs`), for any program file that fits the pool, with arrays and
arrays of arrays in any order, any pool of at most `0xFFFF` bytes, any number of queues of any depth and
messages of any length: type correctness, what `cCmdVerifyMemMgr` asserts and the same of the free list
(`AlwaysVerified`, the property `MemMgrVerified`), no byte belongs to two arrays and compaction moves
them down (`AlwaysDisjoint`), every vector in use has one owner and no owner a freed vector
(`AlwaysOwned`), and message queues implement `MessageFifo` (`Refinement`). None of the properties is
inductive: that a list may be spliced follows from its members being different, that a walk along it ends
from the number of vectors, that an array may move to the end from the order of the others. The invariant
(`IInv`) says what the operations rely on:

* there are two sequences, `u` and `f`, on which every vector of `0 .. Count[0] - 1` is once; links and
  back links are successors and predecessors (`Chain`, `Lists`);
* the arrays with an offset lie in the order of `u`, aligned, one after another, and end before the
  dataspace does, which ends before the pool (`Placed`, `Good`);
* the vectors on `u` are those of the program file, of elements and of message slots, all of them
  different (`Kept`, `Apart`, `Holds`, `MemInv`), and an array of arrays has as many elements, written or
  not, as its vector counts (`Counted`);
* the slots in use are the `n` that follow the read index, and the write index is the next (`Ring`).

The argument goes by functions of the record `M` and not by actions, as the code does: each function
keeps a sound memory and says which vector it takes into use or frees (`AllocSound`, `FreeSound`,
`ArraySound`, `CompactSound` and their like); sub-arrays are a recursion over these (`Provided`,
`Released`); then come an instruction and its second run after a compaction (`ArrayTwice`, `StoreTwice`),
and last the actions. What a recursive function computes is shown as for the queues: the equation has a
solution (`Recursion`). `GrowDopeVectorArray` moves the very array the lists are in: both lists survive
it, vector 0 becomes the last of the one and the new vectors are the other (`GrownLists`). A message queue
that is written to is the hardest step: the slot may be taken or free, its vector old or new, the first
run may have dropped the vector already when the second allocates another, and either may fail.

What is assumed: sizes are positive, the pool and the start of the dataspace are aligned, the model's bound
`MaxDV` is no bound for a pool of that size, so that an index always exists (`MemMgrConstants`); the file's
memory fits and so do the spare vectors (`ProgramFits`), since `cCmdActivateProgram` returns an error
otherwise (`c_cmd.c:1897`, `2232`); depths and lengths are numbers (`MessageConstants`). Once an array has
grown over a neighbour (`wild`, section 7) the invariant says nothing of sizes and the behaviour ends, as
in the model; `MemMgrVerified` and `ImplementsFifo` hold there too, the other two say `~wild`.

**Life of a program** (`VMLifecycleProofs`): type correctness, the contract, that the file is open as
long as it is used and no longer, and that the machine implements `ProgramLife`. The contract becomes
inductive with the user interface's positions: it asks for an activation only in a position it reaches
when the machine is idle (`Waiting`), a file is marked as busy from its first step to its last and so
cannot be taken away (`Protected`), and whoever waits for a program to end is in one of four places, or
the program is abandoned (`Attended`). So the reset of a program that still runs is written only for an
abandoned one, which is the exception that `ContractWithUi` and `ProgramLife` make.

**I2C ports** (`LowSpeedProofs`), for any number of ports, ring size and time-out: type correctness,
no transaction is forgotten half-way, responses are complete. The invariant `Working` ties the state to
the active bit, and `RingOf` says for an undisturbed port where the read position stands relative to the
write position in each state; modular positions make "full" and "empty" equal, and the case distinction
of `cCmdLSCheckStatus` is exactly what resolves it.

**Sound** (`SoundProofs`), for files of any length and whatever states and flags programs set: type
correctness, a finished sound is silent, and its file closed unless a program has set the state, a
program's end silences it. The invariant adds that nothing is audible without `RUNNING`, and that without
it nothing is open unless a program has set the state (`Quiet`), and that no request is pending in the
machine's turn unless a program has just made it: the module has had its tick. So the stop of `VM_RESET1`
stays the last word, and after it nothing of the program's is played or asked for (`Over`).

**Files** (`FilesProofs`), for any number of handles and any channels, and any number of files cropped over
USB: type correctness, a handle stays its client's until he closes it (`HandlesKept`), nothing of USB
outlives the cable (`UsbReleased`), the program's table is what it has open (`TableIsOpenFiles`), the
packets of a long write reach their file (`PiecesReachTheirFile`), each for all numbers that the note of a
cropped file has not closed. The invariant adds that without a cable the host holds nothing, and that what
it holds is noted for it and is not one of the stale notes (`Listed`); that a long write is under way only
over Bluetooth and on a handle still held (`Pieces`), which is why `ExtMode` need not be cleared when the
cable is pulled; and that the menus' search and data log use two handles of theirs (`Menus`). A struck
number is one that several clients may believe to be theirs; the proof shows that the damage does not
spread to the others, whoever uses it afterwards.

**Outputs** (`OutputProofs`), for one to three motors and any speeds, counts, spans and orders of the
right type: type correctness, no motor is past its limit (`NoOverrun`), idle motors run down
(`IdleRunsDown`), a program's end stops everything (`EndOfProgramStops`), a synchronised pair stops
together (`PairStopsTogether`). The invariant is that of the first two; the work is in the step. A round of
the module is two loops, all orders and then the control of all motors, each motor's control reading what
the ones before it have left. The loops are recursive functions over at most three motors, which `Round`
unfolds; then every part of the control (limits, ramps, idling, holding, regulation) is shown to be
`Controlled`: it changes other motors only if it is synchronised with them, and these keep their run or
stop (`Touched`). Composed, this gives `RoundEffect`, the effect of a whole round on each motor, from which
the theorems follow. `OutputConstants` and `OrdersTyped` are assumed: `NumOutputs` is at most the three of
the hardware. `PairStopsTogether` speaks of exactly two synchronised motors: a third one takes only the
first of the others with it, which the proof brought to light (`SyncPartner`, `c_output_reg.c:1263`).

**Bluetooth** (`BluetoothProofs`), for any number of connections, message lengths and time-outs: type
correctness, the asker of a request is the one the machine works for (`AnswersReach`), the counters of the
small machines rest outside their states (`CountersAtRest`), commands go only to a chip that reads them
(`CommandsInCmdMode`), at most one stream (`OneStream`), the source of a transfer is held
(`SourceHeld`). The invariant lists, for each state of each request, where the small machines may stand
(`Fits`) and, for every state, how mode, pin, streams and losses go together (`Steady`); between rounds an
idle machine in command mode has seen the pin fall. A round runs a request through several states before
it waits; so the lemmas are about small steps of a record, `Good` is kept by each, and each request is a
case of its own. That the value `None` is no connection and no command is assumed with the constants.

**Only model-checked.** Liveness and fairness (`RunnableRuns`, `SleepersWake`, `EndedBecomesIdle`,
`Completes`, `SoundEnds`, `RequestsAreAnswered`) are out of the prover's reach, as is `ENABLED`.
`Meaning` and `Instructions` follow nested data
with recursive operators, which rules theorems out (`StringsTerminated`,
`DestinationIsResult`, `FlattenedComesBack`). Two properties the code violates,
`CompactionMovesDown` and the one of `ui_resets`, are checked as such. `TypeOK` is in no run: where there
are theorems it is one of them.

## 7. Where code and documentation disagree

Two divergences are shown by a run whose counterexample TLC finds; `PROJECT.json` quotes the lines.

1. Whether an array may grow in place is decided by a neighbour that may have no offset; it grows over
   other arrays (`compaction_moves_down`).
2. A remote start or a Bluetooth request takes the user interface away from a program run from the
   on-brick editor; nobody asks for the reset, and no program starts until power-off (`ui_resets`).

Others are stated in the modules as operators that the code violates; TLC finds the counterexample when
the operator is given to it as an invariant (the first of them and `SecondTryIsResult` as properties)
with the instance of the module's run.

3. `STOPCLUMP` says it releases the mutexes of the clump it stops; in the middle of a long call it does
   not, and whoever waits for them waits for ever (`ClumpScheduler!StopReleasesMutexes`).
4. An array of arrays that runs out of memory half-way is not completed by the retry: the count is
   already the new one (`c_cmd.c:2816`), and elements keep dope vector indices that were never written
   (`MessageQueue!ElementsAllocated`, and for what the instruction then does
   `Instructions!SecondTryIsResult`; `DestinationIsResult` makes this one exception).
5. A remote stop that arrives while an ended program's file is still open stays set and aborts the next
   program (`VMLifecycle!StopsCurrentProgram`).
6. A fast I2C transaction that fails leaves its port pending (`LowSpeed!PendingIsActive`).
7. "INPROGRESS means our request was accepted" (`c_cmd.c:8736`): sending to a connection that does not
   exist leaves INPROGRESS though the request was refused (`Bluetooth!InProgressIsAccepted`).
8. "PROG_RUNNING: Program currently running" (`c_cmd.iom.h:159`): a sound, a data log or a broken on-brick
   program that is started remotely while an on-brick program runs ends with `PROG_RESET`
   (`Functions.inl.h:2779`), and the program runs on (`VMLifecycle!RunningIsPublished`).
9. "UI busy running or datalogging" (`c_ui.iom.h:64`): the remote start of a file of an unknown type leaves
   the user interface in its menu and marked as busy (`Functions.inl.h:2602`); pop-ups and remote starts
   then wait until a file is run from the menu (`VMLifecycle!BusyRunning`).
10. "Test for sound finished" (`c_sound/iomap.h:54`): a program that sets the state `SOUND_FREQ` while a
    file plays makes the module take the end of the tone for the end of the sound; the flags say it has
    finished and the file is open (`Sound!FinishedIsClosed`). It is closed by the next sound or stop.
11. Cropping a file over USB closes it and leaves the note of its handle (`c_comm.c:686`); the removal of
    the cable then closes the file of a program, a menu or a Bluetooth host that has been given the number
    since (`Files!NobodyIsStruck`).

What the code does besides, and a reader of the models should know; each is modelled as it is or
excluded where it is said:

* *Outputs.* A ramp-up to the least speed that moves a motor, and a ramp-down to the speed it has,
  divide by zero (`c_output_reg.c:570`, `675`). A motor that is ordered to run synchronised without a
  partner never looks at its limit (`785`, `1268`, against the comment at `1389`). Only a motor
  without synchronisation gets its speed zeroed at the end of a run (`820`), so after a synchronised run
  an idle motor keeps its regulation and its power (`854`). `OP_SETOUT` assigns the update flags where
  all others add to them (`c_cmd.c:6644`): an order not yet taken is forgotten. `PENDING_UPDATES` is
  never cleared (`c_output.c:169`).
* *Handles.* They are lost when resizing (`c_loader.c:182`) or deleting (`173`) is refused, when a
  program file is empty (`c_cmd.c:1993`), when a list of files finds no memory (`9332`), when a program
  ends in the middle of a search, and when a Bluetooth stream ends with files open (`c_comm.c:60`).
  `ListFiles` and the loading of calibrations close their search before they go on with it
  (`c_cmd.c:9321`, `9273`). The resize system call passes the address of a handle as a name (`9887`).
  A program that reads the IO map by a module's name ends the module search of a host (`8864`).
* *Bluetooth.* Requests of five places write their answer into a local of a function that has returned
  (`c_cmd.c:9078`, `9102`, `1133`, `c_comm.c:1053`, `1233`). A refused request overwrites the result of
  one under way if both have the same cell (`c_comm.c:3617`). When the chip leaves a stream while the
  machine is idle the connection stays marked as the stream for a while (`241`), and data sent then goes
  to a chip that takes it for commands (the comments at `2038` and `3129`). A transfer that times out
  leaves its source open. Turning Bluetooth off succeeds also when the chip refuses.
* *Instructions.* `Promised` excludes, for the reasons given there: concatenation and building of an
  array from itself, which write behind it (`c_cmd.c:7155`); cutting nested arrays in place; replacing
  part of an array by itself; the case conversion of a part of a string, whose range is off by one and
  which writes the whole source (`7652`); negative indices; a length of 65536 or more, with which the
  initialisation of an array never ends (`5872`); tests of large unsigned numbers, which are signed.

## 8. What is not modelled, and why

* The hardware layer is not in the repository; its behaviour is any that its callers must expect.
* Input, Buttons, Display: stage 8 of the plan. Nothing that is modelled depends on their inner state:
  sensors, buttons and the screen appear as free inputs.
* The rest of the user interface (menus, settings, the on-brick editor, the start-up): stage 10.
* Conversions between numbers and text, floating point, the header and records of a program file, the
  decoding of sounds: computations of stage 9 for which reference definitions are to be written. A
  program file is good or is refused; a program is well typed.
* Framing of packets, checksums, names and addresses of devices, the device table, RS485: `Bluetooth`
  and `Files` begin where a packet has been recognised.
* The raw loader call of programs (`c_cmd.c:9398`) bypasses the table of handles: programs of the
  compilers that use it close what they open. Module commands and formats are left out.
* Drawing, fonts, PID gains, sample rates: numerical or pixel work without control of interest.
* `c_cmd_iomap_writer.c`, `BtTest.inc.h`: a build aid and compiled-out tests.
* Build scripts and resources: nothing of them runs on the brick.
* Hazards that no property covers yet are listed in `PROJECT.json` with the reason.
