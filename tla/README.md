# A verification project for the PRET simulator

The repository is a cycle-level simulator of PRET, a precision timed processor: six hardware
threads interleaved in a six-stage pipeline (a subset of SPARC v8), each with a scratchpad of its
own, a main memory behind a time-triggered *memory wheel*, deadline instructions that block until
a timer has run out or trap when it has, a barrier instruction SYNC, and a DMA coprocessor. Around
it are a loader, a debugger with a profiler, scripts that allocate scratchpads from profiles, and
programs for the processor: a graphic driver of three threads, a robot game, and the cryptographic
toolkit RSAREF with its demonstrations.

This directory holds TLA+ modules that model the program part by part, TLC configurations that
check them on small instances, and theorems about them that TLAPS proves for all instances.

    tlc -workers 4 -config SyncLockstep.cfg SyncTable      # a run: configuration, module
    tlapm SyncTableProofs.tla                              # the proofs of a module

`PROJECT.json` lists the components, the runs, the source lines each definition models (`map`),
the hazards and the properties that are meant to catch each of them, the mutants, and the
theorems. The core is modelled as built without SystemC (`_NO_SYSTEMC_`): `core::behavior` calls
the stages one after another. Source lines below are relative to `src/`, files to `src/src/core`
where no directory is given.

## The system

| component | its state | its operations | modules |
|---|---|---|---|
| SYNC table (`hw_thread_controller.cpp`) | `_sync_table`: mask, threads still to come, passes used | `check_sync_table`, called from the exception stage | `SyncTable`, `Barrier` |
| thread controller (same file) | the threads, `_tcount` | round robin; loads programs and scratchpads; second clock | `Pipeline`, `SyncTable`, `ProgramLoading`, `ScratchpadDma` |
| memory wheel (`wheeled_mem.cpp`) | `remaining_cycles`, `accessing` | `is_stalled_helper`, asked by DMA, memory stage and fetch | `MemoryWheel`, `TimeTriggeredMemory` |
| DMA (`dma.cpp`) | source, target, state of each thread's transfer | `make_transfer`, `behavior` | `MemoryWheel` (when), `ScratchpadDma` (what) |
| core and cycle (`core.cpp`) | pipeline registers, both clocks | `run`, `run_for_instruction`, `behavior`, the end of the simulation | `Pipeline`, `MemoryWheel` |
| pipeline stages (`fetch.cpp` to `except.cpp`) | per thread: stalls, trap state, latched instruction | one `behavior` each | `HwThread`, `InstructionSignals`, `Pipeline` |
| control transfer and traps (`except.cpp`) | pc, delayed branch address, r17, r18, CWP | `inc_pc`, `handle_exceptions`, `return_from_trap` | `ControlTransfer`, `SparcControl` |
| deadline timers, phase lock loop (`special_reg.cpp`) | timer words, statuses, mailbox | decrement, set, `missed_deadline`; `regacc.cpp`'s stall | `HwThread`, `WordTimers`, `DeadlineTimers` |
| arithmetic (`execute.cpp`, `instruction.cpp`) | condition codes, Y | additions, MULSCC, `geticc`, `branch_check`, sub-words | `Datapath` |
| decoding (`instruction.cpp`) | signals of an instruction | `decode` | `InstructionSignals` |
| register windows (`register_file.cpp`) | registers, window pointer | `get_reg`, `set_reg`, SAVE, RESTORE, traps | `RegisterWindows`, `RegisterStack` |
| scratchpads (`l1_scratch.cpp`, `memory_controller.cpp`) | words by address, addresses by location | `add_addr`, `read`, `write`, bounds files | `ScratchpadDma` |
| program loading (`srec_parser.cpp`, `compile_threads.py`) | memory, start addresses | layout, check, parsing | `ProgramLoading` |
| debugger (`csim.py`, `python_wrapper.cpp`) | breakpoints, watched threads, profile | every command | `Debugger`, `DeadlineProfile` |
| allocation scripts (`generate_alloc.py`, `static_schedule.py`) | lists and files of every revision | simulate, check feasability, schedule | `StaticSchedule` |
| graphic example (`soft/graphic`) | two queues, two screens, flags | send, flush, draw, exchange, show | `GraphicDriver` |
| robot example (`real_world_simulators`) | maze, robots, shared words | two searches, navigation, the game | `MazeSearch`, `RobotChase` |
| ciphers (`soft/rsaref/src/source/desc.c`) | contexts with a chaining value | DES, DESX, triple DES: init, update, restart | `CipherChannel` |
| digests (`md5c.c`, `md2c.c`) | contexts with buffer and count | update, final | `DigestContext` |
| envelopes, printable encoding (`r_enhanc.c`, `r_encode.c`) | buffered contexts, texts | seal, open, sign, verify, PEM | `CipherContext`, `Envelope`, `SealedChannel`, `PemEncoding`, `PemBlocks` |
| numbers and keys (`nn.c`, `digit.c`, `rsa.c`, `r_keygen.c`, `prime.c`, `r_dh.c`) | numbers, key pairs, parameters | all routines | `NaturalNumbers`, `RsaKeys`, `KeyAgreement`, `PkcsBlocks` |
| demonstrations (`rdemo.c`, `dhdemo.c`) | files, keys, prompts | all commands | `FileDemo`, `AgreementDemo` |
| devices, simulators of the environment | words shared with a simulator | | in part, in `RobotChase` |
| small test programs | | | not modelled |

How they interact. The controller sends thread `t` into the pipeline in every sixth cycle; each
stage works on the thread that is in it and leaves flags in the `hw_thread` object that later
stages, and the next pass of the same thread, look at. A pass that is stalled (fetch, memory,
deadline, first half of a double word) is made again; a trap takes two passes of the latched
instruction. The exception stage alone commits, and calls the SYNC table and the DMA. The memory
wheel is asked by the DMA, the memory stage and the fetch stage of one cycle. Threads share the
wheel, the SYNC table and main memory, nothing else; programs of several threads talk through
volatile words of main memory, without locks. The scripts talk to each other and to the simulator
through files.

What is hard here: flags read in a later stage or pass than the one that set them; stages that act
before it is known whether the instruction commits; retries whose phase with the wheel decides
whether they are ever answered; a barrier that counts calls and not threads; two clocks around a
mailbox; two copies of the map of a scratchpad; lock-free exchanges whose order is all that keeps
two threads apart; contexts reused after failures; and revisions that know one another only
through files.

## How the modules are composed

A module models one component and declares its variables. An abstract specification (`Barrier`,
`TimeTriggeredMemory`, `SparcControl`, `DeadlineTimers`, `RegisterStack`, `SealedChannel`) is
instantiated with a refinement mapping by the module that implements it.

An `MC...` module is a suite: it puts components side by side that do not interact, and a
behaviour is one of the component named by `part`; the others stay as they start, pinned to one
initial state. A suite is a way to check several components under one configuration, and claims
nothing about their composition; the components that do interact do so inside their modules
(`Pipeline` calls every stage, `MemoryWheel` has all three clients of the wheel, `GraphicDriver`
and `RobotChase` all their threads). A property of a suite is the conjunction of its components'
properties, each guarded by its `part`, or that of a component which the suite extends.

Every property of a passing run has at least one mutant, an operator next to the definition it
replaces, with which the property fails under the run's own configuration. Mutants are marked in
their comments and used by nothing.

## The runs

| run | module | parts | states |
|---|---|---|---|
| `SyncLockstep` | `SyncTable` | | 14 k |
| `SyncTraps` | `SyncTable` | | 2.0 M |
| `Wheel` | `MCCycle` | `Pipeline`, `MemoryWheel` | 510 k |
| `Control` | `MCThread` | `ControlTransfer`, `WordTimers`, `HwThread` twice, `RegisterWindows`, `InstructionSignals` | 210 k |
| `Datapath` | `MCArithmetic` | `Datapath`, `NaturalNumbers` twice, `RsaKeys`, `KeyAgreement` | 28 k |
| `Toolkit` | `MCToolkit` | `CipherChannel`, `DigestContext` twice, `Envelope`, `PemEncoding`, `PemBlocks`, `PkcsBlocks` | 240 k |
| `Storage` | `MCStorage` | `ScratchpadDma`, `ProgramLoading` twice, `FileDemo` twice, `AgreementDemo` | 4.1 M |
| `Programs` | `MCPrograms` | `StaticSchedule`, `DeadlineProfile`, `Debugger`, `MazeSearch` twice, `RobotChase` twice | 370 k |
| `Graphic` | `GraphicDriver` | | 520 k |
| `SyncReentry` | `SyncTable` | a violation | |
| `ThreadSquashed` | `MCThread` | a violation | |
| `DoubleStalled` | `MCThread` | a violation | |

Deadlock is checked except in `SyncTraps` (a barrier that lost a thread, and the end of the
bounded SYNCs) and in `Datapath`, `Toolkit`, `Storage` and `Programs`, whose routines, messages,
commands and revisions end.

### SyncTable: the barrier

A step is the visit of one thread to the exception stage; `turn` is the round robin of
`hw_thread_controller::behavior`. `table` has, for each row, the mask, the threads still to come
and the count of passes. `CheckSyncTable` is the whole function: the first row with the mask
passes the caller (`PassRow`) or clears its bit (`ClearBit`); without one the first free row is
taken (`AddRow`), and without a free one the code writes row -1, which the model records in
`smashed` and stops at. Around it are the visits: other instructions, a SYNC reached or retried, a
visit lost to a fetch stall, the two trap passes (both poll, since `except::behavior` polls before
`handle_exceptions`; a trap may also come at the first arrival at a SYNC, whose poll, even one
that passes, is thrown away: `TrapAtStart`), the return of the handler, and a `longjmp` out of it.
`arrived`, `left` and `abandoned` are history. Masks are not empty, and a thread only executes
SYNCs on masks that name it, as the programs do.

* `SyncLockstep`: when no visit is lost, the table implements `Barrier` (`BarrierSafe`, a
  refinement whose mapping are the counts of arrivals and departures), and whoever has come gets
  through when all have (`BarrierOpens`). Three threads with three overlapping masks, two SYNCs
  for each thread and mask: the reuse of a mask needs a second SYNC, overlap needs three threads.
* `SyncTraps`: with fetch stalls and traps, a mask has one row (`OneRowPerMask`) and the table is
  large enough as long as no handler abandons a SYNC (`TableNeverFull`). Two threads suffice for
  the interesting case, a trap that polls for a thread while another is passing; the theorems
  cover more.
* `SyncReentry` (violation): with fetch stalls a fast thread comes back for its next SYNC before a
  slow one has polled, and takes its pass; the comment at `hw_thread_controller.cpp:124` speaks of
  threads that passed.

Fairness: the pipeline visits every thread in every rotation (`WF` of `Next`), and a thread at a
SYNC is polled again and again, since its fetch is answered once in every rotation of the wheel
(`SF` of `RetrySync`; it is `BoundedWait` of `MemoryWheel` that justifies it).

### Pipeline and MemoryWheel: cycles

`Pipeline` has the pipeline registers (`line`), the controller's counter, both clocks and the
calls of the debugger; a step is a call of a stage or the throw that ends the simulation out of
the middle of a cycle. A stage only leaves its number in its thread's phase. `InStep` says that
each stage gets the thread that the stage before it has just left; `ShownIsLeaving` that the index
the debugger shows is the thread about to leave; `CallsAreKept` that `run_for_instruction` runs
the cycles it was asked for and that nothing is fed to the pipeline once a program has ended.
`_tcount` wraps at 2^32, which six does not divide, so that threads miss a turn once (see
*Deviations*). The counter of the run wraps at 16, which leaves the same remainder, and the first
two properties are about every state but those of one round and a cycle after it (`Settled`).

`MemoryWheel`: a step is one call of `core::behavior`, in the order of the code; `cycle` is the
cycle counter modulo the rotation, which is all that `is_scheduled` and `current_thread` look at.
`IsStalled` is `is_stalled_helper` with `remaining_cycles` and `accessing` as they are: an access
that is let in sets the delay and is granted at once, because what is returned is `accessing`,
which stays false as long as a delay is left. The stages that do not touch the wheel are no steps.
An instruction is where its code and its data are. The delays are those of `defines.h` (14, a
burst of 4), six threads as in the code, two of them active, with windows next to each other.

* `TimeTriggered`: the refinement of `TimeTriggeredMemory`, in which each thread has one cycle of
  the rotation for code and one for data and no other thread exists. `BoundedWait`: no request
  waits a whole rotation. `DmaCompletes`: a transfer ends.

Fairness: `core::run` calls `core::behavior` for every tick, so the wheel's steps are weakly fair;
nothing is assumed of the wheel. `WindowMeetsStages` is the relation of delay and threads under
which the stages ask while their window is open; the constructor does not check it, and it holds
of `defines.h`.

### HwThread: one thread with everything that stalls and traps it

A step is a visit of one thread to fetch, regacc (with decode before it), execute, mem or except.
What other threads do to it is whether the wheel stalls its fetches and accesses. An address
stands for the instruction found there and the code it belongs to; the program counter goes to any
instruction of the same code, so a run covers every program made of its instructions. `r17` and
`r18` hold addresses in every window. A timer that is not positive is zero here (`WordTimers` has
the words). `PllTick`, the clock of the phase lock loop, comes between any two visits. `done` and
`home` are history: what the instruction at pc has changed, and the window that the program's own
SAVEs and RESTOREs lead to.

* `StallsAreSafe` (part "passes", no traps): the flag of a double word belongs to the double word
  (`DwordFlagIsOwn`), what has to be done once is done once (`EffectOnce`), a double load has
  loaded both words (`DoubleIsWhole`), no DEAD passes early (`DeadWaits`). Fetches, loads, stores
  and deadlines are stalled, double loads are not (`StallDoubles` is false): with them the
  property is false, which the run `DoubleStalled` shows. `PllIsFed`: a DEADPLL that waits feeds
  the loop.
* `TrapsAreExact` (part "traps", two timers in nested timed blocks, handlers that return or
  `longjmp`): the program is in its window (`WindowIsHome`), its handler in the next one
  (`HandlerWindow`), with the way back in r17 and r18 (`ReturnAddressSaved`), and for a timer that
  has run out (`TrapIsForMissed`).
* `MissIsAnswered`: a trap gets to its handler, and no miss is forgotten while traps are enabled.
  Two timers are needed for two misses in one pass, loads up to 3 for one to run out while the
  other is set up, three windows so that the handler's window is not the program's from the other
  side.
* `ThreadSquashed` (violation): a store, a MULSCC or a SAVE that a trap squashes has acted already
  (`except.cpp:273` says "Disable changing processor state from the instructions"). What a trap
  squashes and a RETT repeats is this run's subject and not that of `EffectOnce`, which counts
  from the last trap.
* `DoubleStalled` (violation): a double load whose first half is refused by the memory leaves
  without its first word.

Fairness: the controller sends the thread down the pipeline in every rotation (`WF` of `Visit`),
the second clock ticks (`WF` of `PllTick`), and the wheel grants a request that is made again and
again (`SF`), which is what `BoundedWait` and `TimeTriggered` show of `MemoryWheel`. There is no
SAVE in the timed programs, for the reason that `ThreadSquashed` shows, and handlers return with
traps disabled (see *Deviations*).

### ControlTransfer, WordTimers, RegisterWindows, InstructionSignals

All in the run `Control`.

`ControlTransfer` has `inc_pc` with `addr_calc` and `branch_check`, the two passes of
`handle_exceptions`, and RETT. Addresses count words. The code is arbitrary, except that the only
control transfer in a delay slot is the RETT after the JMPL that ends a handler and no branch goes
to address 0, which the code takes for "no delayed branch". `SparcControl` has pc, npc and a stack
of interrupted contexts; npc is the delayed branch address or pc + 1, and a trap takes effect at
its second pass. `ImplementsSparc` is the refinement: a trap in a delay slot, or between a branch
and its target, comes back to the right place, about which two comments in `handle_exceptions` are
in doubt (`except.cpp:306`, `310`). `BetweenPasses` is what holds between the two passes. Five
words of code, displacements -2 to 2, three windows for a handler within a handler.

`WordTimers` has the timers as words that are decremented in every pass and without end. As long
as the program sets each again before it has gone round (`Renewed`) they implement
`DeadlineTimers`, which stop at zero (`ImplementsTimers`). That a miss that is reported is one
(`MissedHasRunOut`) is a theorem. Words of four bits.

`RegisterWindows` has `get_reg`, `set_reg`, the deferred write to the window that SAVE has left or
taken, and traps. WIM is never looked at, so windows go round; as long as a program uses fewer
frames than there are windows (the outs of the highest frame are the ins of the next window) they
implement `RegisterStack`, a stack of frames that share only ins and outs (`ImplementsStack`).
Four windows, two registers of a kind. Its names (`FileInit`, `FileNext`, `fileVars`) are its own
because `MCThread` extends it next to `HwThread`, so that TLC evaluates its `WindowConstants`.

`InstructionSignals` has the signals `decode` raises for a word and what every stage makes of
them, over passes that are stalled and decoded again on top of the old signals. `SignalsMean`: an
instruction that leaves has changed what its word says, read off the regular structure of the
opcodes; one that is held, no more than that; and what decode leaves is a function of the word
alone. Every opcode, with registers and immediates at the edges of their fields; a double load
whose base is its destination is left out (see *Deviations*).

### Datapath, NaturalNumbers, RsaKeys, KeyAgreement

The run `Datapath`. Words are numbers without a sign; their width is the weight of the top bit.
`Datapath` runs routines of several instructions: a comparison and a branch, two-word sums and
differences (`ArithmeticExact`), a multiplication with one step per bit, and stores and loads of
all sizes (`ProductsAndBytes`). All operands of three bits: they have all combinations of sign,
carry and overflow, and enough steps for a sign to be shifted in.

`NaturalNumbers` has the routines of `nn.c` and `digit.c` on sequences of digits, with carries
found by comparison as in the code. `NumbersExact` compares each with arithmetic, for all numbers
of up to three digits of two bits against some, and for digits of four bits at the edges: the
correction of a quotient digit and divisors of all ones occur. `RsaKeys` generates key pairs of
eleven and twelve bits from every random number and sends blocks through them; `KeyAgreement`
generates parameters of seven bits and has two parties agree, also with numbers that are not
valid. `KeysWork`: the pairs have the length asked for and their keys undo each other; prime,
subprime and generator belong together, both parties get the same key, and nothing out of range is
accepted; a random structure that is not seeded is refused (`NeedsRandom`), at the point where the
code finds out. That the primes are prime rests on the small widths, at which no number passes
`FermatTest` wrongly (`prime.c:120`).

### The toolkit of soft/rsaref

The run `Toolkit`. `CipherChannel` has DES on the bits of its words, with all its permutations,
its key schedule and its chaining, in three modes; what is in the eight substitution tables is a
parameter. Two contexts of one key encipher and decipher messages, restarted in between, and one
bit may be damaged on the way. `Recovers`: every block that came undamaged after an undamaged one
is deciphered to what was enciphered. `DamageStays`: the block after a damaged one has the same
damage and no other. Tables that are not linear, four blocks and ends of messages.

`DigestContext` has MD5 and MD2 with symbolic compression: buffers, counts and padding for a
message in parts of any length, and the reuse of a context (`DigestsExact`). Blocks of four bytes
and a counter of two words of five bits, which carries at the fourth byte; two messages of up to
18 bytes in parts of up to 9. MD5 is reused only as its callers do that initialize it again (see
*Deviations*).

`CipherContext` and `Envelope` have `R_SealUpdate` to `R_OpenFinal` with a symbolic cipher: a byte
of a block is the blocks that were chained before it, itself, and its place. `sealed` is what the
sender has put out, `opened` what the receiver has. `SealsAreChannel`: they implement
`SealedChannel` (a channel of whole messages), a received message is whole when its end is
accepted (`WholeMessages`), and the output fits the buffers that the comments ask for
(`OutputFits`). Two messages of four bytes over blocks of two, in parts of any lengths on either
side.

`PemEncoding`, `PemBlocks` and `PkcsBlocks` are checked by `MailsAuthentic`: encoding keeps every
bit and can be done in parts; what is read of a mail without an error was written, and what comes
undamaged is read, unless its content is shorter than a part: then the status that
`DecryptPEMUpdateFinal` tests was set by nothing, and the mail may be refused (see *Deviations*).
A padded block is accepted only if it was made of what it is taken for.

### Memory, files and demonstrations

The run `Storage`. `ScratchpadDma`: `mem` is the map of words by address, `list` the address in
each location; `AddAddr` is `add_addr`, with its test of the range and the removal of the old
word. The bounds files are read first; then stores and transfers happen in any order. `latest`,
`dirty`, `lost` and `remapped` are history. `ScratchpadSound`: what is held is listed, listed
words are held, and a load reads what was stored last, except where the word had been stored to in
the scratchpad only and was thrown out (`lost`), since nothing is ever written back.
`TransferArrives`: a completed transfer has brought its words. Two locations, four words of main
memory and transfers of two, so that a transfer can overlap itself, the end of the scratchpad, and
every earlier fill; two values with symmetry, since the code never looks at them.

`ProgramLoading` lays out programs, looks whether they fit and parses the files with one parser.
`ProgramsLoaded`: programs that are let through are intact when the threads start, each at its own
start and with its stack above it; damaged files overwrite nothing of another thread, and a file
without a start gives that of the file before it. When a directory is given and `thread0.srec` is
not in it, no thread gets a program (`FindFiles`), or the loader aborts (`FindNothing`).
`FileDemo` and `AgreementDemo` have every command of the two demonstrations with one read or write
that fails; `DemosWhole`: nothing is left open, unwritten or unwiped, signatures and sealed files
that a command reports as made are whole (unless it is `fclose` that has lost them, of which
nobody is told: `gone`), what is verified and opened is what was signed and sealed, and two
parties' keys agree.

### Scripts, debugger, robots

The run `Programs`. `StaticSchedule` has every invocation of `static_schedule.py` under
`generate_alloc.py`, which may be started again and again, with what one leaves to the next in
files. What the simulator reports of the tests is an input of each invocation, any of `Profiles`
or none: the lines the script writes make the simulator load nothing (see *Deviations*), so the
reports do not follow from the files, and deadlines come to be met because tests and programs are
changed. `ListsSound`: over all revisions nothing is scheduled twice, the lists never outgrow the
scratchpads, and the allocation files hold the lists. `ScheduleGrows`: what is scheduled stays, a
revision adds to each list something that was missed, if there is any and the list has room, the
check once passed stays passed, and the files never lose a line. Two tests of a sequence and a
loop, of each of which there are four reports. That an allocation that is done meets its deadlines
is not claimed: "done" may be read from the file of an earlier revision.

`DeadlineProfile` is the profile of one thread: in every round the label at the program counter
and the access of the instruction that was executed are recorded, a stalled instruction again and
again. Labels are where `deadline.h` has them: DEADSTART is a MOV, a DEAD and the block's start on
the instruction after it; DEADEND has the label of the end on the DEAD itself, which stalls there.
When an instruction with a start label stalls, or the DEAD that ends a sequence inside another
block, the profile takes the stall for another label (`misled`), and `ToolsTell` claims nothing
more than that no instruction is counted twice; up to then the stack is the nest of blocks, no
block is unknown, and the times and counts are right. Paths of nested and repeated blocks.
`Debugger` has every command of `csim.py` on a core that steps; `StopsAtBreakpoint`, `ListedOnce`,
`RunsAsAsked`, `RunReturns`. Fairness: once a command runs, it goes on (`WF` of its steps).

`MazeSearch` has the breadth-first search with its ring of cells and the depth-first search with
its calls, step by step: `ShortestWay`, `FailsOnlyWithoutWay`, `LettersLead`, `CallsAreTheWay`,
and `SearchEnds` also while the robot moves (`WF` of the search). A maze with a loop, a dead end
and a closed room. `RobotChase` plays the game of two threads, controller and world by rounds: the
goal is a place of the opponent although its coordinates are read one after the other
(`GoalIsHisPlace`), no robot turns too often, turns are obeyed, and the roaming robot hits no wall
in the example's own maze.

### GraphicDriver

A step is one access to what client, driver and VGA driver share. `Undisturbed`: client and driver
never work on the same queue, and the rows of a shown screen are of one picture (but the first, see *Deviations*). `InOrder`: the two
queues, exchanged in two steps while the client spins, are one queue. `DriverProceeds`: updates
are shown and flushes return. Queues of three slots (one stays empty), screens of three rows, one
picture on a blank screen: a torn exchange or screen shows with these. Fairness: each thread runs
on; the client may stop to send.

## The theorems

TLC checks an instance; the theorems hold for all values of the constants, under the named
`ASSUME`s of the modules (which TLC evaluates in the runs) or under the hypotheses that a theorem
names. In `HwThread` and `SyncTable` the conditions that only some programs meet are hypotheses
and not assumptions, and so they are for envelopes.

| module | theorem | states |
|---|---|---|
| `SyncTableProofs` | `TypeCorrect` | types, in every trap mode |
| | `RowsUnambiguous` | `OneRowPerMask`, also after a handler has left a SYNC |
| | `RowsOwed`, `TableNeverOverflows`, `RowsHaveWaiters` | while handlers return: `RowInv`, `TableNeverFull`, no row is orphaned |
| | `TableIsBarrier` | `BarrierSafe`, under `Lockstep` |
| `CycleProofs` | `TypeCorrect`, `StagesInStep`, `DebuggerShowsLeaving` | `InStep`, `ShownIsLeaving`, wherever the counter wraps |
| | `CallsKept` | `CallsAreKept` |
| | `FlightHolds` | what is in flight: types, stalls, a clean wheel |
| | `MemoryIsTimed`, `WaitIsBounded` | `TimeTriggered`, `BoundedWait`, under `WindowMeetsStages` |
| `HwThread` | `ThreadTypeCorrect` | types |
| | `TrapsAreForMissed`, `DeadsWait`, `EffectsAreOnce` | `TrapIsForMissed`, `DeadWaits`, for any program and handlers; `EffectOnce` and `DoubleIsWhole`, under `NeverTraps` and `~StallDoubles` |
| | `ProgramIsHome`, `AddressesAreSaved` | `WindowIsHome`, `HandlerWindow`, `ReturnAddressSaved`, under `StaysInWindow` |
| | `TrapsInTheirWindows` | `TrapsAreExact`, under `StaysInWindow` |
| | `SecondHalvesAreOwn`, `StallsAreHarmless` | `DwordFlagIsOwn`, under `NeverTraps`; `StallsAreSafe`, under `NeverTraps` and `~StallDoubles` |
| `ControlProofs` | `ControlTypeCorrect`, `PassesAreOne`, `HandlersReturn`, `SparcImplemented` | types, `BetweenPasses`, every handler can return, `ImplementsSparc` |
| | `TimersTypeCorrect`, `MissesAreReal`, `WordsImplementTimers` | types; `MissedHasRunOut`, `ImplementsTimers`, if `Renewed` |
| | `FileTypeCorrect`, `WindowsImplementStack` | types, `ImplementsStack`, for any number of windows and registers |
| `DatapathProofs` | `ComparisonsRight`, `AdditionsExact`, `SubtractionsExact`, `ArithmeticIsExact` | `ArithmeticExact`, for words of every width |
| | `PadIsSound`, `TransfersArrive` | `ScratchpadSound`, `TransferArrives`, for memories, scratchpads and bursts of any size |
| `CipherProofs` | `DESFunctionInverts`, `ModesInvert` | deciphering undoes enciphering, in the three modes |
| | `ChannelTypes`, `ChannelRecovers`, `ContextsInStep`, `DamageIsKept` | types, `Recovers`, `InStep`, `DamageStays` |
| | `SealingIsChannel` | `SealsAreChannel`, for messages, portions and blocks of any size, under `~GoesOn` |
| `StaticSchedule` | `TypeCorrect`, `AllocationsSound`, `ScheduledStays` | types, `ListsSound`, `KeepsScheduled` |
| | `ScheduleKeepsGrowing` | `ScheduleGrows` |
| `GraphicDriver` | `TypeCorrect`, `NothingDisturbed`, `CommandsInOrder` | types, `Undisturbed`, `InOrder` |

### Along which arguments

*The barrier.* `RowInv`, for the modes with traps: while bits are pending the threads that polled
are waiting, and afterwards the passes used and the threads waiting are together at least the
threads of the mask. That is why a trap pass that uses up a pass does not orphan a row: its thread
is still counted as waiting. That the table does not overflow follows by counting: rows in use
have disjoint sets of waiters that are not empty, so a thread that needs a new row leaves one
free. One row for a mask needs neither: it is inductive by itself, because the scan adds a row
only when it has found none. `BarrierInv`, for `Lockstep` (no fetch stall, no trap): a mask
without a row has nobody at it and all counts alike; while a row gathers, whoever has polled is
waiting and nobody has left; once it lets threads pass, each of those that have passed is visited
after all that still wait (`Leaving`). That last conjunct is the round robin, and without it the
theorem is false: it is what `SyncReentry` breaks.

*The pipeline.* `Rotates` gives, for every point of a cycle, who stands in each stage as a
function of the controller's counter. Where the counter wraps it may skip threads, or feed one
that is still in the pipeline; `Rotates` is therefore about what has been fed since (`FedSince`),
and from a round and a cycle after the wrap on (`Settled`) that is all there is. For the calls,
`CallInv` adds an account: cycles run times the period, plus the phase of the clock, plus the
ticks left, less the ticks asked for, stays below a period; and the thread that ended the
simulation stays at the fetch stage.

*The wheel.* `FlightInv`: every instruction in flight is as deep in the pipeline as its thread, a
fetch is only stalled for code in main memory and a load for data there, and `accessing` is FALSE
between the calls, so that a request is answered by `is_scheduled` alone. Together with the place
of the window in the rotation (`WindowMeetsStages`) the refinement of `TimeTriggeredMemory`
follows. `WaitInv` adds how often a request has been turned away, in terms of the cycles to the
next one that answers it.

*One thread.* `IInv` is the conjunction of `TypeOK`; `Passing`, what a stalled or trapped pass can
be about (and that the latched instruction is the one at pc, unless an illegal RETT has moved pc
already); `Deadlines`, which ties the status of a timer to its value and to the trap type; and
`Effects`, which says for each stage what the instruction has already done since the last trap.
`TrapsAreForMissed` and `DeadsWait` need no assumption on the program. The windows need one: a
SAVE that a trap squashes has moved the window (`ThreadSquashed`), so `StaysInWindow` keeps SAVE
and RESTORE out of timed code and handlers and RETT out of the program; `InWindows` then has the
addresses of the program in the lowest window only, over handlers in handlers and whatever way
they are left. `NeverTraps` (no DEAD that branches, no RETT) is the condition of `OwnDword`: a
trap between the halves of a double word hands its flag to the handler. `EffectsAreOnce` has it
too, and a memory that refuses no half of a double load: `WholeDoubles` adds which halves are
loaded when (`Halves`). The parts "passes" and "traps" of the run `Control` check instances of
these programs.

*Control transfer.* The invariant is the conjunction of the types, `BetweenPasses` and
`HandlersCanReturn`; with it every action maps to one of `SparcControl`, or to a stutter (the
first pass of a trap). The timers' refinement is by the positive part of each word.

*Register windows.* `get_reg` and `set_reg` find register r of window w at (16 w + r - 8) modulo
the size of the file. The proof first takes that apart: a cell has a block (which group of eight)
and a place in it; registers of different groups of one window have different blocks, and two
windows have a block in common only when they are neighbours, and then the outs of one are the ins
of the other. `FileInv` is the types and that the window pointer is the window of the highest
frame (`WindowOf(frames)`). With fewer frames than windows the blocks of the frames are all
different, so that a step changes in the stack what it changes in the file, and nothing else.

*Scratchpads.* `PadInv` adds three things to `ScratchpadSound`: a transfer reads only addresses
that there are; no address is listed at two locations, unless one was given a second location
(`ListedOnce`); and a word that is neither lost nor newer in the scratchpad is in main memory as
it was stored. A transfer is a run of `add_addr`s and a function of the number of words, so what
it leaves is proved by induction over that number: the locations before it, inside it and after
it. `TransfersArrive` follows for a run whose addresses are listed once.

*Arithmetic.* `CarryIsExact`, `BorrowIsExact` and `SignOfDifference` are lemmas about `geticc` for
words of any width; the invariants say that the codes between the instructions of a routine are
those of its operands.

*Ciphers.* `DESFunctionInverts` holds because a round is undone by the same round, whatever its
function is, the permutations around the rounds undo each other, and the subkeys come in the other
order: so the tables may be anything. `IInv` of the channel: the two contexts were made of one key
(`Paired`), and every piece on its way was enciphered with the chaining value that the one before
it will leave at the receiver (`Links`). `DamageInv` follows the one damaged bit: on its way
(`OnWire`: the cipher block is one bit off what it should be), in the receiver's chaining value
(`InChain`), or in the past; `DamageThrough` says that a bit of the chaining value is a bit of the
output in each mode.

*Schedules.* `IInv`: the lists that are pickled are of the program, their lengths are counted and
within the sizes, and the files hold them from the feasability check on; a file that is too long
is not written, but none ever is. That the lists and the files never lose a line follows, whatever
the simulator reports. A revision grows (`GrowsUnlessFull`) because everything that was missed and
is not scheduled is offered to lp_solve, which takes any set whose value is largest, and the empty
set is such a set only when there is no room. Nothing is assumed of the reports, since nothing the
scripts do determines them.

*Envelopes.* What the receiver is to give depends on what it was given in which portions and on
what the sender has sealed in which portions, and both keep a part of a block. So the proof
describes either context without its past. `SealInv`: what was sealed of message k is the
encipherment of the whole blocks of its text (`Ciphered`), the text being what was given to the
sender so far, and the padding as well once the message has ended; and the sender's context is
what chains after them and the rest (`Held`). `OpenInv`: as long as no error was met, the
receiver's context is a function of the text and the number of bytes taken (`Opened`), and what it
has given are the blocks before the last one taken (`Out`), which it holds back since it may be
padding. The lemmas are about sequences cut at multiples of the block: `SealUpdate` and
`OpenUpdate` map `Held` to `Held` and `Opened` to `Opened` for every portion, the text may grow
meanwhile (`OpenedOfMore`), and at the end the padding is found and cut off. Without `~GoesOn` the
theorem is false: a receiver that goes on after an error keeps the chaining value of the message
that failed (see *Deviations*).

*Graphic driver.* `Exchange` says at which points of client and driver the queues are the same
one, `Loaded` that what lies between the ends of a queue are commands, `Screens` which rows of
which buffer are of one picture at each point of the copy and of the VGA driver. `InOrder` maps
the two rings to one sequence; its lemmas are about rings of any size (`Size > 2`).

### Induction

The library's induction theorems take an operator as a parameter, which the provers cannot
instantiate. Where a proof needs an induction (runs of `add_addr`, threads in the order of a
round) it takes the set of counterexamples and `WFMin`: a least number at which the fact fails
(lemma `Induction`). That works for one fact about one recursive function at a time; the routines
that are written with RECURSIVE operators or with the community modules' folds are out of reach.

### What is only model-checked

* All liveness, which is beyond the prover: `BarrierOpens`, `DmaCompletes`, `PllIsFed`,
  `MissIsAnswered`, `DriverProceeds`, `CommandsRun`.
* What is computed by routines over digits, bytes and blocks: `ProductsAndBytes`, `NumbersExact`,
  `KeysWork`, `DigestsExact`, `MailsAuthentic`; and the searches of `RobotsFind`. The values of
  these need an induction for every routine, over numbers in positional notation.
* `SignalsMean`: a case for every opcode, and nothing that a larger instance would add to them.
* `ProgramsLoaded`, `DemosWhole`, and the parts of `ToolsTell` about the profile and the debugger:
  no theorem yet.
* The three violations: they are counterexamples.

## Deviations met while modelling

The program does these things; the models do them too, or leave them out as said. Those with a run
are findings in `PROJECT.json`.

Core:

* SYNC counts calls and not threads (`hw_thread_controller.cpp:126`, run `SyncReentry`). A trap
  polls twice; a handler that leaves a SYNC for good orphans the row, and enough of them fill the
  table, after which row -1 is written.
* A squashed store, MULSCC or SAVE acts (`except.cpp:274`, run `ThreadSquashed`).
* A memory stall of the first half of an LDD or STD makes the retry the second half, since
  `set_dword_state` comes before the test for the stall (`except.cpp:374`, run `DoubleStalled`);
  the other runs have no stalls of double words. A trap between the halves leaves the flag to the
  handler.
* A double load reads its address register again in the second pass, so `ldd [%o6], %o6` goes
  wrong (`regacc.cpp:110`), and LDD to %g0 loses its second word (`instruction.cpp:81`).
* A DEADPLL that has filled the mailbox and found it emptied fills it again, and never ends
  (`regacc.cpp:151`); `PllIsFed` says that it feeds the loop while it waits.
* A RETT with traps enabled traps for ever; handlers of the models disable traps before. A trap at
  an instruction that names a special register puts that register's value in r17 and r18.
  `missed_deadline` leaves the last timer it finds, `special_reg.h` says the first.
* Timers are decremented below zero (`special_reg.cpp:135`; `special_reg.h:109` says they are
  not): after 2^31 passes a timer is positive again.
* `_tcount` is an unsigned int taken modulo six: when it wraps, threads 4 and 5 miss a turn and
  two instructions of a thread overlap (`hw_thread_controller.cpp:92`).
* `run` returns false at the end of the simulation and true otherwise, and counts ticks, not
  cycles (`core.cpp:274`, `core.h:177`).
* The wheel admits a burst by the delay of one word; whether a window meets the stages depends on
  delay and threads and is not checked. A MEM2SP replaces a transfer that waits, and `dma.h:73`
  says that the thread is blocked (`except.cpp:524`).
* WIM is never looked at: windows go round without a trap. MULSCC sets carry and overflow as if
  the multiplicand had been added in any case; a halfword at offset 3 is shifted by a negative
  count.
* Nothing is written back from a scratchpad; an address in two locations loses its word when one
  of them is refilled. `load_spm` leaves out the end of a range, and every line the script writes
  has start and end equal (`static_schedule.py:137`): nothing is loaded.
* The one parser of all files keeps the start address of the file before (`srec_parser.cpp:112`).
  `get_max_address` adds the wrong length to a line's address (`compile_threads.py:80`). When
  `thread0.srec` is missing from the directory that is given, the directory is dropped and no
  program is found for any thread, or the simulator exits (`hw_thread_controller.cpp:167`).

Scripts and debugger:

* `generate_alloc.py` reads the last revision file, also when a run has written none
  (`generate_alloc.py:75`), so "done" may be said of an earlier one, reports a program that needs
  no allocation as infeasible (`static_schedule.py:554`), and does not end when the scratchpads
  are too small or of infinite size (`static_schedule.py:591`). Instructions that only the second
  of two tests executes are not joined (`:293`), and a line that reports a larger count raises
  NameError (`:295`).
* The profile counts a stalled DEAD as the end of its block again and again
  (`profile_data.py:136`), deletes a loop that is still on the stack (`:212`), replaces a
  sequence's largest execution by the last (`:154`), and reports one repetition too many
  (`stats.py:110`). A stall at the start label of a block counts as an entry of it, too. All of
  this is in the model; `ToolsTell` excepts what it spoils (`misled`).
* `csim.py`: `tra` goes on after the end of the simulation (`:333`), labels are looked up that
  were never entered (`:121`), `reset` names an undefined variable (`:321`), thread numbers are
  not checked (`:313`), `skipfetch` prints the opposite of what it sets, `unbreak` takes negative
  numbers.

Programs:

* The graphic driver tests the flush flag, and resets it in any case (`thread2.c:210`); the copy
  into a buffer writes one row too many, the first row of the other buffer, while that is shown
  (`vga.c:25`): `FieldsAreWhole` is about the other rows. `locate_sprite_direct` has a precedence
  error and `_sprite_position_x[5]` an index out of range.
* The robot of `path_search` can stop with a valid direction (`all_threads.c:189`), since the
  command is read twice; the goal is read in two words and is still always a cell the opponent was
  in.
* `R_DigestFinal` leaves a zeroized MD5 context although the manual lets it be used again
  (`r_enhanc.c:96`); the same after a verification that fails (`:233`), and `R_OpenFinal` leaves
  the chaining value of a message that failed (`:507`).
* `DecryptPEMUpdateFinal` tests a status that nothing has set when there is no whole part
  (`r_enhanc.c:920`): a content shorter than a part may be refused although it was sealed, against
  "the inverse of R_SealPEMBlock" (`rsaref.txt:1193`). The model chooses either; `MailsAuthentic`
  allows both.
* `GeneratePrime` fails above the last prime of its range and reports it as RE_DATA
  (`prime.c:67`), and leaves the range when the step is larger than the end (`prime.c:63`); the
  generator of Diffie-Hellman parameters may be one (`r_dh.c:57`); public values have leading
  zeros (`:97`). Pairs with p = q are not refused, and private values longer than asked for are
  cut.
* `rdemo` signs what was read before a read error (`rdemo.c:407`) and reads through a pointer that
  is never set; when the second read of a file fails it goes on as if it had not (`:972`). What
  `fclose` cannot write out is lost and the command reports success (`rdemo.c:1038`,
  `dhdemo.c:501`); `dhdemo` offers parameters that were never generated (`dhdemo.c:291`) and wipes
  a length that was never set (`:265`).

## Hazards that no property covers

The models do what the code does here, and the properties except it or say nothing of it:

* A handler that abandons a SYNC leaves its row (`hw_thread_controller.cpp:138`): `TableNeverFull`
  is for as long as none does.
* A transfer that waits is replaced by another (`dma.cpp:79`): `DmaCompletes` and
  `TransferArrives` are about the one that is set up last.
* The return address is lost when the trapped instruction names a special register
  (`except.cpp:448`): `ReturnAddressSaved` excepts these.
* A RETT with traps enabled starts its trap again (`except.cpp:356`): the handlers of the runs
  disable traps before.
* Timers that go round are positive again (`special_reg.cpp:131`): the refinement of
  `DeadlineTimers` is for timers that are set again in time (`Renewed`).
* The parameters of an agreement may be generated again between its two commands (`dhdemo.c:396`):
  `KeyOfBoth` is about parties that used equal ones.

In addition a DEADPLL never commits once it has waited (`regacc.cpp:138`): `PllIsFed` is about its
value.

## Not modelled

* `genkeys.c`, `encrypt.c` and `encryptbase.c`: copies of `rdemo.c` whose `main` generates fifty
  key pairs or signs one digest, without files or prompts.
* `run(-1)`, a simulation without an end; the debugger's calls have a number of ticks.
* The privilege test of RETT (`except.cpp:346`): the programs leave the S bit set, as the reset
  does.
* The packing of the PSR into a word; the console and the output file, which are output only;
  debugging output.
* The SystemC build, in which the stages are processes with an order that SystemC leaves open.
* `r_random.c`, a counter that is digested; zeroizing, and the time that `NN_ModExp` takes.
* The contents of the DES tables, of compression functions and of pixels: parameters or symbols.
* `extract_ispm_alloc.py`, `dump_reader.py`, `stats.py`'s tables: text is rewritten.
* The views and the keyboard controller of the robot simulator.
* Test programs and benchmarks under `soft`, straight-line programs with nothing but their output.

A wrong SYNC (a mask that does not name its thread, or names none) is outside the models, since no
program has one.

## Plan

Modelled and checked is what is listed above. What would come next:

1. `ProgramLoading`: `NothingForeign` for any number of threads and files, by an invariant over
   the lines that were read.
2. `FileDemo` and `AgreementDemo`: nothing is left open or unwiped, over any commands.
3. `DigestContext`: the buffer holds the rest of the message, along the lines of `Held`.
4. `Datapath`: loads get the bytes stored last; the multiply step as an invariant of the partial
   product.
5. `InstructionSignals`: what decode leaves is a function of the word.
