# Verification of the easyFPGA SDK for C++

The SDK lets a C++ program describe the inside of an FPGA, generate a binary for
it, load the binary over USB into an easyFPGA board and then use the cores in it
through their registers. This directory holds TLA+ models of that program, the
TLC configurations that check them, and proofs about them for TLAPS. Paths below
are relative to `src/sdk/src/`.

    tlasany M.tla                            parse a module
    tlc -workers 2 -config X.cfg M.tla       run X (PROJECT.json names the module of each run)
    tlapm P.tla                              check the proofs of P, a module ...Proofs

## 1. Inventory

| Component | State | Operations | Hard behaviour |
|---|---|---|---|
| Task executor (`communication/taskexecutor.cc`, `task.cc`, `synctask.cc`, `asynctask.cc`) | three task buffers, the set of numbers others may depend on, the core that interrupted, two counters | `startAsyncTask()`, `doSyncTask()`, `fetchAsyncReplies()`, `writeReplies()` | re-entrance through callbacks and interrupt service routines; matching of replies by order only; retries; interrupts between replies |
| Communicator (`communication/communicator.cc`) | `_target`, the open device | `init()`, `switchTo()`, `writeBinary()`, `writeStatus()`, `configureFpga()`, register operations, `handleRequestReplies()` | context kept on two sides; a search that needs the context it is looking for; a process that dies half way |
| EasyFpga (`easyfpga.cc`) | map of cores, stack of free indices, pins | `init()`, `addEasyCore()`, `removeEasyCore()`, four `connect()` members | any order of calls; upload is skipped on an equal hash |
| Pins (`easycores/pin.cc`, `gpiopin.cc`) | a type and a backward connection each | `connectTo()`, `setType()` | a graph built backwards, whose check sees only one direction of it |
| IdManager (`utils/idmanager.h`) | a stack of ids | `getFreeId()`, `releaseId()` | its last id |
| Generator (`generator/generator.cc`) | signals of connected pins, files | `generateHdl()`, `generateBinary()`, `generateBinaries()` | order in which connections are looked at; when a build may be skipped; runs that fail or are killed |
| Serial connection (`communication/serialconnection.cc`) | descriptor, name of the device | `openDevice()`, `closeDevice()`, `send()`, `receive()` | replies that come in pieces, timeouts, disconnects |
| Exchanges and frames (`communication/protocol/`) | request and reply buffers | one class per exchange; XOR parity, Adler-32 | damaged frames |
| Register and callbacks (`easycores/register.cc`, `callback.cc`) | number of the last task with a callback | synchronous and asynchronous reads and writes | read-modify-write against other writes |
| Gpio8, Uart, Spi, I2c, Can, Pwm8, Pwm16, FrequencyDivider (`easycores/`) | a few shadow fields | operations on registers | an operation of several exchanges of which one fails or is made twice; polling loops; registers whose meaning another one decides |
| Configuration file, OS, log and test helpers (`utils/`) | options | reading, formatting | none that a model would show |

How they interact. The user's program is one thread. A core calls its registers,
a register the Communicator, the Communicator switches the board to the context
it needs and hands an exchange to the task executor, and that sends it over the
serial connection. Calls come back the same way: while the executor fetches
replies it runs the callback of an exchange, and when it has fetched all of them
the interrupt service routine of the core that interrupted. Both are user code
that may call the executor again. Beside the thread there is only the board: its
microcontroller (MCU), and the SoC in the FPGA that answers register operations
and puts interrupt notifications between its replies. The generator is called by
`EasyFpga::init()`, by a main function that a macro defines for a description,
and by `generateBinaries()` for all of them; these runs share nothing but files.

What makes each part correct:

- Task executor: no task is copied, lost unnoticed or answered with another
  task's reply; a task that depends on another is sent after that one's answer;
  every accepted task is answered and every interrupt served in the end.
- Link: after each exchange host and board agree where the next frame begins; a
  success is the board's answer to this exchange; `doSyncTask()` returns.
- Session: the process knows which context listens; a hash is stored only beside
  the binary it belongs to; `init()` returns true only if the FPGA runs the
  user's binary; the board asked for is the one connected; `init()` ends.
- Description: every index is free or has one core; outputs never meet; an input
  has one source; the generated signals connect what `connect()` connected.
- Generator: a run that succeeds leaves the binary of its own description.
- Cores, synchronous: an operation that returns true has done what it says and
  changed nothing else, whichever of its exchanges failed or was made twice;
  what it returns is what the core held; it returns.
- Cores, asynchronous: operations that are under way together end as if they had
  run one after the other.

PROJECT.json lists the hazards of this code at their lines, with the properties
that watch over them, or the reason why none does.

## 2. Modules

    TaskExecutor            the executor, the line and the SoC
      TaskExecutorRefinement  ... implements AsyncService, the promise of asynchronous mode
      TaskExecutorProofs      ... proofs: types, places, dependencies, owners of tasks
        ServiceProofs           ... AsyncService is implemented; retained tasks
          LineProofs              ... replies, interrupts and assertions
    Exchanges               every exchange: lengths, opcode, checksum, result
      Link                    doSyncTask(), Task and SerialConnection byte by byte
        LinkProofs              ... proofs
    Session                 init(): search, contexts, upload, configuration, restarts
      SessionProofs           ... proofs
      MCSession               ... binaries for its runs
    Structure               addEasyCore(), connect(), and the generator's signals
      Netlist                 what connect() promises: nets are only ever joined
      StructureProofs         ... proofs, and that Netlist is implemented
      MCStructure             ... cores and pins for its runs
    Build                   the generator's files: build or skip, fail, be killed
      BuildProofs             ... proofs
    SyncRegisters           an operation of a core in synchronous mode
      Gpio8  Uart  Spi  I2c  Can  Pwm    one core each
      Cores                   ... all of them, one at a time
      CoresProofs             ... proofs
      MCCores                 ... settings and data for its run
    AsyncRegisters          an operation of a core in asynchronous mode
      Gpio8Async  UartAsync   one core each
      MCAsync                 ... one run for both
    UartRegisters           the registers of the Uart, for both modes

**TaskExecutor** has one variable per member of `TaskExecutor` (`pending`,
`running`, `dependent`, `finished`, `triggeringCore`, `counter`, `syncs`), the
AsyncTask objects (`task`), the line in both directions (`requests`, `replies`)
and `stack`, the call stack of the host. `stack` is what lets one thread
be re-entered: a frame stands for an active `fetchAsyncReplies()` or
`doSyncTask()` with its local variables, and user code may push another frame
whenever the top one runs a callback (`"callback"`) or a service routine
(`"isr"`). The steps of a frame are those between which user code or the board
can do something: take a running task, receive its reply, send the tasks that
waited for it one at a time, retry or give up, look at the bytes left over, run
the service routine, return. `answers` is a history variable: it records
whose reply was taken for whose. A reply is a record with an opcode, the task it
answers, whether its parity is right and the number of bytes not yet read.

**AsyncService** has five variables and no buffers: tasks are accepted, wait for
an unanswered one, are outstanding in one queue, answered from its head, asked
again at its end, and given to the user once. The refinement mapping builds the
queue from the task a fetch has popped and `_runningAsyncTasks`.

**Exchanges** has one definition for each class derived from `Exchange`: how long
its replies are, which opcode it expects, from which byte the parity is
calculated (or that it is not looked at) and which bytes go to the user. A byte
is the set of its bits that are 1, so that `XorParity` is the set of bits that
an odd number of bytes has.

**Link** takes one synchronous exchange apart. `stage` is the place in
`doSyncTask()` and `Task::receive()`: about to send, waiting for the opcode, for
the rest, for the rest of an error or for the core that interrupted. `outcome`,
`missing` and `reading` are the local variables of `SerialConnection::receive()`,
which takes from `queue` whatever is there until nothing is missing or its time
is up. A call begins with what `fetchAsyncReplies()` does while no asynchronous task
is under way (`FetchAsyncReplies`): bytes left in the queue have to be an interrupt
whose two copies of the core agree, or an assertion ends the program; then the routine
of the core noted is called. `reply` is the array of `Task::receive()`, which is not initialised: it
holds zeros or what an earlier call left. The line damages a byte or the opcode
of a frame, cuts it short, loses or delays it. TaskExecutor treats a reply as
one message; Link shows under which faults that is so.

**Session** takes a synchronous exchange as one step, with its three outcomes:
done, refused (`doSyncTask()` returns false) and aborted (an assertion in it
fails, and the process is gone, with or without the effect on the board). `at` is
the place in `init()`; `target`, `device`, `found`, `probe`, `sector` are the
members and local variables of those names. A board has the mode it is in, its
non-volatile memory as a function from sectors to contents, the hash filed with
it, whether the FPGA is configured, and what with.

**Structure** has EasyFpga's map and stack, the index of each core, and type and
backward connection of each pin. `Nets`, the smallest sets of pins that no
connection leads into or out of, is derived, and so is `Signal`, the generator's numbering. `ended` says
how a call ended the program: `exit(-1)`, a failing assertion, or the loop in
`connectTo()` that never ends.

**Build** has the three files of each description that a later run reads
(`intercon`, `tle`, `bin`) and the place of a run between them (`step`):
`generateHdl()` copies a template over a file and fills it in, `runToolchain()`
has five tools that can fail, `cleanupBuildDirectory()` removes two files one
after the other. A caller is `"init"`, `"make"` or `"all"`; `here` says whether
its working directory is the project's, which decides where two of the paths
lead. `trouble` is a history variable: a run has ended where the
description is new and its binary is not.

**SyncRegisters** takes an operation of a core as a list of register accesses
(`todo`), each of which is one exchange. An attempt is a step: the exchange is done, or
its reply was damaged and it will be made again in a later step, or it has failed, with
or without its effect. So the core goes on working between two attempts. Each access has the
rule by which the code goes on after a failure: note it (`success &= ...`),
return, ignore it, or leave out the next access. Other steps of a list return
early by a bit of what was read, put a byte aside or assign to a member.
`core` is the state of the core in the FPGA, `members` the fields of its object,
`buffer`, `success` and `ok` the local variables. The module is parameterised by
what the core does when it is read or written (`Value`, `AfterRead`,
`AfterWrite`); each core's module defines these, instantiates it, and has one
operator per member function that gives its list:

- **Gpio8**: seven registers, a bit for each pin; the pins move meanwhile. OUT is
  declared write only and is read all the same, so the initial state chooses whether
  the core answers such a read with what was written or with nothing (`readable`).
- **Uart**: the divisor latch decides what two addresses mean.
- **Spi**: two FIFOs of four places, the receiving one a ring that overflows, the
  sending one with no room for a fifth byte (`lost`); `members` counts the bytes that
  were only sent. `Shift` is the core's own step. Nothing makes a call wait until it has
  shifted everything, so an operation may begin with bytes still on their way.
- **I2c**: one slave on the bus; `Finish` is the core carrying out a command, which it
  may do before the same command is sent again.
- **Can**: an SJA1000 whose registers can be written in one of two modes only;
  frames come in at any time and `Sent` takes one from its transmit buffer.
- **Pwm**: Pwm8, Pwm16 and FrequencyDivider.

**AsyncRegisters** is the same for asynchronous mode: an operation starts tasks
and returns. The executor's buffers are there (`running`, `retained`,
`dependent`), with the number each register keeps of the last task that had a
callback (`dependency`). Replies are fetched when the program calls
`handleReplies()`. `wanted` is a history variable: the core as it would be if
each operation had been carried out when it was called. **Gpio8Async** and
**UartAsync** give the accesses of each operation and those of each callback.

**Cores** and **MCAsync** choose a core in the initial state, so that one run
checks them all; they do not interact.

## 3. Abstractions

- Addresses and texts are left out. A binary is its hash, its number of sectors
  and whether it fills the last one; two binaries in a run have different
  hashes, so Adler-32 is a value. The hardware description is one value for each
  of its two files.
- TaskExecutor takes frames whole, except for the interrupt of the fault
  `"partial"`. Opcodes that arrive damaged are opcodes of no exchange (`"other"`),
  and bytes left over in the middle of a reply are taken for opcodes of none. In
  Link the opcodes are the real ones, and a damaged opcode or a data byte may be
  that of another exchange.
- TaskExecutor has four of the exchanges: a read, a write, a read with a
  callback and the one that enables interrupts. The others have the same replies
  at that level. Link has all of them, with the numbers of bytes that the cores
  read at once cut down to one and two. The id that a SoC frame carries is not
  looked at by the code, and is a constant.
- All timeouts are equal: time passes when nothing is on the way.
- AsyncRegisters joins those steps of the executor between which only the board
  could do something.
- A byte is taken apart only where the code does so; divisors and duty cycles are
  calculated from numbers.
- Can frames have an identifier and no data; the controller is in basic mode, so
  that the operations of extended mode are checked for what they do to a
  controller whose mode bit they do not change.
- A search goes through the boards attached when the directory was opened, in any
  order.

The microcontroller, the SoC, the cores inside the FPGA (their VHDL is the
submodule `soc`), the vendor's tools, power supply and cable are not in the repository.
They are modelled from how the SDK uses them, and marked external in the map. What
is assumed: requests are answered in order; interrupts are disabled by raising
one and enabled by the enable exchange; a request for the other context is
refused; a written sector or status makes the MCU forget that the FPGA is
configured, but not the stored hash; ConfigureFpga is answered when the FPGA is
configured; without power the FPGA forgets its configuration and the MCU listens;
the cores have the registers that the comments of the drivers describe.

The build has no `-O` and keeps assertions (`Makefile`, `configuration.h:33`): a
failing assertion ends the process in the models, and the array that
`writeBinary()` uses after its block (`communicator.cc:145`) still holds its bytes.

## 4. Runs

A run takes up to about two and a half minutes with two workers.

| Run | Question | Bounds |
|---|---|---|
| `executor_faulty_line` | Are tasks owned once, in the right place, answered by their own reply and in the right order, whatever callbacks do, when replies are refused or damaged? Are losses reported? | 3 asynchronous and 1 synchronous operation, 2 faults, nesting 2 |
| `executor_interrupts` | Is an interrupt served exactly once, and does everything complete? | 3 operations, 1 interrupt of 2 cores, 1 refusal, nesting 2 |
| `executor_unreliable` | Is AsyncService still implemented with every kind of fault? | 2 asynchronous and 1 synchronous operation, 2 interrupts, 2 faults of 7 kinds, nesting 2 |
| `link` | Do host and board stay in step when bytes are damaged, exchanges refused and retried, and interrupts come in between? Does every exchange return? | all 15 kinds of exchange, 2 calls, 2 attempts each, 2 faults of 8 kinds |
| `session_upload` | Are contexts tracked and hashes honest when exchanges fail, boards vanish and processes die? | 1 board, 2 binaries of 2 and 1 sectors, 3 calls, 3 faults |
| `session_by_serial` | Is the right board connected, does true mean that the FPGA runs what is stored, does `init()` end? | 1 board, 2 binaries of which one fills its sectors, serial numbers 0, 1 and 2, 3 calls, 2 faults |
| `structure_connect` | Do any calls in any order keep indices, outputs, nets and signals right? | 2 GPIO pins, 3 cores with 5 pins, 2 indices |
| `build` | Is the binary that a successful run leaves that of its description? | 2 binaries, 2 contents of either file, 3 runs, 2 faults |
| `cores_sync` | Does each operation of each core do what it reports, whatever happens to its exchanges? | 3 operations of one core (Spi 4, I2c 2), 1 fault; see below |
| `cores_async` | Do operations that overlap end as if they had not? | 3 operations of Gpio8 or Uart, 1 refusal |

Two more runs end in a counterexample; section 5 has them.

Why the bounds are enough.

- *Executor.* Three operations are needed for a task, one that waits for it and
  one that a callback starts in between, and one more synchronous operation
  meets all of them; with nesting 2 a fetch runs inside the callback of a fetch,
  and inside that nothing new can happen because a callback only sees the
  members. `MaxRetries = 2` lets a task be sent, retried and given up with two
  faults.
- *Link.* A call remembers nothing of the one before but the bytes in the queue
  and the array on the stack, so two are enough. Two faults use up the attempts of
  one call, or spoil one call and the next. Bytes are empty or `{3, 7}`, which is
  also the opcode of a read, so that data can be taken for a frame.
- *Session.* Three calls of `init()` are one that stores a binary, one that
  replaces it and one that comes back to the first; a binary of two sectors has a
  first and a last one.
- *Structure.* Five core pins have two inputs, two outputs and one of both kinds,
  and two GPIO pins are enough for all ways to reach an end of `connectTo()`, the
  endless loop included: `connect(gpio1, core, IN)` and then three times
  `connect(gpio1, gpio2)`. `Ids = 2` makes the third core meet the empty stack.
- *Build.* Three runs are one that builds, one of another description that fails
  or is killed, and one that decides by what the two have left. The theorem of
  section 6 has no bounds.
- *Cores.* An operation sees an earlier one only through the core and a few
  members, and one fault can hit each of its exchanges. Gpio8 has its first and last
  pin and one change of the inputs; Uart one setting that is refused and one that is
  taken, and baud rate 0, by which it divides; Spi buffers of no, more than one and
  exactly two packets, and one more operation than the others, because bytes
  have to be left over before they matter; I2c a device that is there, one that
  is not and one that is no address; Can two identifiers and two frames that come
  in. Asynchronously, three operations are a task that runs, one that waits for
  it and a third behind both.

Deadlock is not checked for Session, Structure, Link, Build and the cores: a
program ends there, by its bound of calls or because `exit()` or an assertion
ended it. TaskExecutor stutters explicitly where an assertion ended it, and any
other deadlock of it would be reported.

Fairness.

- `TaskExecutor!FairSpec` (`executor_interrupts`): the host thread runs on, the
  SoC answers, callbacks and service routines return (strongly fair, because a
  service routine may call the executor again and again before it returns), and
  the main program keeps calling `handleReplies()`, as doc/programming.dox asks of
  it. Nothing is assumed of interrupts and faults.
- `Session!FairSpec` (`session_by_serial`): a process in `init()` goes on, and a
  board that configures its FPGA finishes. `InitReturns` then needs that a busy
  board becomes idle, and is stated without unplugging: see section 5.
- `Link!Spec`: the host goes on, and the board answers what it was asked or
  refuses or loses it.
- `Cores!Spec`: the program goes on inside an operation, and a core that has work
  (a byte to shift, a command, a frame to send) does it. The subscripts are
  `todo` and `core`, so that arriving bytes and moving pins are not counted as
  either.

### Properties and what would break them

Every property of a passing run is broken by a plausible change of one
definition, kept beside it under a name like `Erase_Forgotten`; PROJECT.json
pairs them under "mutants".

Where the code does not do what a property would say in general, the property
names the exception, so that it can be looked up:

| Property | Does not hold, and is not claimed, when |
|---|---|
| `AsIfInOrder`, `ReadsWhatWasWritten` | a third operation waits for the same register, a request was refused and made again behind others, an operation uses the wrong register, or `setPin()` is used and OUT cannot be read (`exceptions`) |
| `LatchOnlyForDivisor` | the same, but for the last two |
| `SettingsHonouredIfRead` | the read of LCR fails, whose result the code ignores |
| `DivisorKept` | an operation failed between opening and closing the latch |
| `OnlyItsPin` | `setPin()` is used and OUT cannot be read; an interrupt of another pin that is raised while `clearInterrupt()` runs may be taken away |
| `WaitsForByte`, `OwnByte` | the ring is full and the count a multiple of four, so that no byte is thrown away; a byte sent before is still on its way when the operation is called (`WaitsForByte`), so that the FIFO is read too early (`OwnByte`); an exchange failed or was repeated, or a byte was lost in a full FIFO; or the program calls `init()` after bytes were only sent: it clears the FIFOs, but not the count (`Again`) |
| `BufferSent` | (what it claims is whole packets: the last one may hold up to three bytes from behind the buffer) an exchange failed or was repeated, or the core is disabled |
| `ReadByteHonest` | an exchange was repeated: the byte may then be what an idle bus gives |
| `OwnFrameTaken`, `ReleasesWhatWasRead`, `FilterSet` | the controller is used in extended mode; `ReleasesWhatWasRead` also if an exchange failed or was repeated |
| `OperationsReturn` | a baud rate is zero, or the Spi core is left disabled |
| `InStep`, `SuccessIsOwn` | an opcode is damaged, or a reply is cut, lost or late: replies carry no number |
| `InStep` | an interrupt that is left in the queue when an exchange is over was damaged: the next exchange fails the assertion of `taskexecutor.cc:365` |
| `Returns` | the device was unplugged |
| `BinaryUpToDate` | a run was killed, or failed under `make`, after it had written a description and before its binary (`trouble`) |

## 5. Disagreements between code and documentation

Two runs end in a counterexample.

| Run | What the code does |
|---|---|
| `executor_sync_steals_reply` | `doSyncTask()` fetches and then sends; an interrupt service routine at the end of that fetch may start an asynchronous operation, whose reply comes first and is taken for the synchronous one. |
| `session_interrupted_upload` | Sectors are overwritten under the old hash. After a failed upload the next `init()` with the old binary finds its hash, configures a mixture and returns true. |

Six properties of `Cores` state what the headers of the easyCores say and the code does
not do. No run has them; with one of them among the PROPERTIES of `cores_sync.cfg` TLC
gives the counterexample.

| Property | What the code does |
|---|---|
| `OnlyItsInterrupt` | `clearInterrupt()` writes back all of INTS as it was a round trip before (`gpio8.cc:366-370`). An interrupt of another pin raised in between is erased, where gpio8.h:456 promises to clear that of one pin. |
| `OnlyItsOutput` | `setPin()` reads OUT, which gpio8.h:217 calls write only, to keep the levels of the other pins (`gpio8.cc:430`). If the core answers with nothing, they are taken away. |
| `InputLevel` | `getPin()` reads OUT in synchronous mode (`gpio8.cc:479`), IN in asynchronous mode (`gpio8.cc:487`). For an input pin gpio8.h:507 promises its level. |
| `ReceivedByte` | `transmit()` of a byte returns at once. A `transceive()` that follows before the byte is shifted reads the FIFO for the byte left behind while that is not there, then finds it and returns it for its own (`spi.cc:254-298`), where spi.h:331 promises the received byte. |
| `LengthSent` | `transmit()` of a buffer copies and sends four bytes each time (`spi.cc:353`): a length of 5 sends 8, three of them from behind the buffer, where spi.h:358 has the number of bytes to send. |
| `ByteIsTheRegisters` | A write of the command register is sent again after its reply was damaged, and carried out twice (`i2c.cc:152`, `taskexecutor.cc:119`). If it is the one that reads the byte and frees the bus, the second time an idle bus is read: `readByte()` returns true with 0xFF, where i2c.h:296 promises the byte read. |

More behaviour of this kind is in the state space of the models and is reached by
changing constants of a configuration:

- `executor_faulty_line` with `"send"` among the faults: a released task that cannot
  be sent is dropped while the fetch reports success (`LossReported` fails).
- `executor_interrupts` with `MaxFaults = 2`: a task runs out of attempts and
  the tasks retained for it are kept for ever (`PendingHasRunning` fails). With
  `MaxIrqs = 2` the second interrupt overwrites the first (`InterruptsAccounted` fails).
- `session_by_serial` with two boards: a second `init()` reads the serial number
  from the board that is still open and connects another one (`WantedConnected`
  fails). With `"unplug"` among the faults, a board that disappears while it
  configures is asked for ever (`InitReturns` fails).
- `session_upload` with `Wanted = {0, 1}`: the context is noted before reading the
  serial number switches it (`TargetTracks` fails).

`WantedConnected`, `TargetTracks`, `InitReturns`, `PendingHasRunning`,
`InterruptsAccounted` and `LossReported` are therefore statements about the
bounds of their passing runs: one board, no serial number wanted, boards that
stay plugged in, no task out of attempts, one interrupt, a line that takes every
request. Section 6 proves all but `InitReturns` under such hypotheses, whatever the other
bounds are. `SignalsAreNets` is stated for descriptions that follow
doc/fpgadescriptions.dox: using an input of a core as a source can split a net
into two signals, which the generator never merges.

What the models do because the code does, and a reader of the documentation
would not expect:

- *Executor.* A task that depends on a task which is itself retained is sent at
  once: retained tasks are not among the numbers one can depend on
  (`taskexecutor.cc:177`, against doc/programming.dox:104).
- *Session.* The last sector of a binary that fills its sectors exactly is
  written as zeros (`communicator.cc:137`). Serial numbers are read through
  `switchTo()`, which refuses before the first connection, so that a fresh
  process never finds a board by its number (`communicator.cc:538`).
- *Description.* `connect(gpio, core, IN)` and then `connect(core, OUT, core, IN)`
  gives the input two sources and returns true; in the other order the program
  exits (`pin.cc:112`).
- *Link.* The rest of a reply is judged by its checksum even if it was not
  received, over an array that still may hold an earlier reply; an exchange whose
  checksum is not looked at is then a success by its opcode alone (`task.cc:147`).
  What is left in the queue when the next exchange begins has to be a whole interrupt
  (`taskexecutor.cc:326-375`): a damaged one, which `receive()` passes over, ends the
  program there.
- *Build.* The overload of `generateBinary()` behind `make` removes nothing when a
  tool fails, so that an older binary counts as up to date in the next run
  (`generator.cc:642-723`). The binary is looked for in the working directory and
  not in the project's (`generator.cc:718`).
- *Gpio8.* In asynchronous mode the callback of every operation on one pin writes
  OUT, whichever register was read (`read_modify_write.cc:83`).
- *Uart.* `init()` ignores whether LCR could be read (`uart.cc:246`);
  `setRxTriggerLevel()` falls through into its default and never sets a level
  (`uart.cc:273`); `setAuxiliaryOutput1()` and `setAuxiliaryOutput2()` set the bit next to the right one in
  asynchronous mode.
- *Spi.* The bytes to throw away are counted modulo four (`spi.cc:266`); the 8-bit
  counter of `transmit()` wraps for more than 252 bytes, and the loop does not end
  (`spi.cc:344`); a byte that `transmit()` writes to a full FIFO, as the fifth one at a
  slow clock, is lost with true returned (`spi.cc:317`); `transceive()` on a core that a failed `resetBuffers()` left
  disabled waits for ever.
- *Can.* A frame whose read fails is released all the same and lost
  (`can.cc:575-594`); `goToSleep()` and `wakeUp()` write the same bit in basic
  mode. A standard frame made with data does not hand them to its base class
  (`canframe_standard.cc:23`), and data received in basic mode are taken from one byte
  too far (`can.cc:590`); the model has no frame data, so these two are read, not
  checked.

## 6. Proofs

Every theorem is for all values of the constants that the module's assumption
allows, and TLC evaluates that assumption in a run. Where a theorem has a further
hypothesis, it is there because the code does not do without: the tables
say which behaviour it excludes, and TLC finds a counterexample when a
configuration allows it.

### TaskExecutorProofs

Three invariants of TaskExecutor, for any number of operations, interrupts and
faults, any nesting of calls, any set of cores and any number of retries:

- `TypeCorrect`: `Spec => []TypeOK`.
- `PlacesCorrect`: `Spec => []TasksInPlace`. Wherever a task is kept, in a buffer,
  in the local queue of an active fetch or in its local variable, it is what the
  code there takes it for.
- `DependencyCorrect`: `Spec => []HeldUntilAnswered`. A task that was retained is
  not sent before the one it depends on is answered.

None of them is inductive alone. `TypeOK` needs `TasksInPlace`, because a fetch
uses the fields of the task it popped, and these have values only if the number
was accepted. `HeldUntilAnswered` needs `TasksInPlace` too: a release sends
whatever its local queue holds, so that queue must hold tasks whose dependency
was answered, and so the queue it was moved from must hold tasks of that
dependency. That a new task does not disturb what is known of the old ones needs
`Fresh`: numbers above the counter are unused. The inductive invariant is

    IInv == TypeOK /\ TasksInPlace /\ HeldUntilAnswered /\ Fresh

`Inductive` proves it from `Init => IInv` (`TypeInit`, `PlaceInit`) and
`IInv /\ [Next]_vars => IInv'` (`TypeNext`, `PlaceNext`), where each group of actions
has a lemma of its own. Three ideas carry the second: steps only make the set of
answered tasks grow and attempts rise (`GrowsKeeps`, `AttemptGrows`), so what is
known of tasks elsewhere stays known; a step replaces, pushes or pops the top frame
(`GotoFrame`, `CallFrame`), so frames below it stay good; and every remaining
task of a queue stays in that queue until it is released.

`OwnerCorrect`: `Spec => []OneOwner`, for all constants. A task may be in three
buffers and in two local variables of each active call, and calls come and go.
The proof takes all these places as queues under keys (`Queues`): the key of a
buffer is its name, that of a local variable its name and the depth of its
frame, counted from the bottom so that it stays the same while other calls are
made. Then each of the actions does one of five things to one or two
queues: `Push`, `Pop`, `Empty`, `Shift` (a queue moves to where an empty one was) and `Pass`.
A lemma for each says which tasks are inside afterwards and that none is twice
(`AfterPush` ... `AfterPass`). The inductive invariant is

    OInv == IInv /\ Emptied /\ Owned

`Owned`: no task is twice in the queues, and those inside are accepted and not
written. `Emptied`: a local queue of retained tasks is empty but during the callback and
the release that follows it, without which `Shift` would overwrite tasks.
`OwnedOnce` translates the queues into the set `Owners` of the model.

`LossCorrect`: `Spec => LossReported`, from the same invariant: a task that no
queue holds any more was let go of by a step that leaves `success` false
(`GoneOnly`).

| Theorem | Hypothesis | Excluded |
|---|---|---|
| `OwnerCorrect` | none | |
| `LossCorrect` | `"send"` is no fault | a released task whose request cannot be sent is dropped, and the fetch returns true |

### ServiceProofs

`ServiceImplemented`: `Spec => ImplementsService`, for all constants, every kind
of fault among them. Each step of TaskExecutor, seen through the refinement
mapping, is a step of AsyncService or leaves its variables alone. What the
mapping needs beyond `OInv` is `Kept`:

- `Suspended`: only the innermost call runs; all others are in user code. So at
  most one fetch has a task popped, and the queue of the mapping is that task and
  `_runningAsyncTasks`.
- `Untouched`: tasks in a queue of `pending` or in the local queue of a fetch have
  never been sent and wait for a task, so they are the ones that wait in AsyncService.
- `Recorded`: the answered tasks are those in `finished` or written.
- `Discharged`: no number one can depend on is that of an answered task.

`Bookkeeping` is `Spec => []SInv` with `SInv == OInv /\ Kept`. For the steps of the
promise each action has a lemma, and the ones inside a synchronous operation are
shown to change nothing that AsyncService sees.

`PendingCorrect`: `Spec => [](Lost = {} => PendingHasRunning)`. Tasks are released by
the fetch of the task they wait for, so a retained task without one that runs would
stay for ever. Two more invariants are inductive with `SInv`: the numbers that one
can depend on are those of requested tasks (`Depended`), and tasks are retained
under such numbers only (`Chained`). By `Discharged` a task under such a number is
unanswered; it was requested, so it is neither finished nor in a queue of tasks
that wait (`Untouched`); what is left is that it runs, is being fetched, or that the
executor let go of it (`DependedRuns`). The hypothesis is about the state: in all
behaviours, up to the first task that is lost.

| Theorem | Hypothesis | Excluded |
|---|---|---|
| `ServiceImplemented` | none | |
| `PendingCorrect` | no task was let go of (`Lost = {}`) | the tasks retained for one that ran out of attempts are kept for ever |

### LineProofs

`ReplyCorrect`: `Spec => []OwnReply` on an orderly line. Replies are told apart by
nothing but their order, so the invariant is about sequences of different lengths:
the awaited requests (that of the task popped or of the synchronous exchange, then
those of `running`), the replies on the line and the requests that the board has not
seen. `InOrder` says that there is a number m and increasing places
h[1] ... h[m] on the line so that the reply at h[i] is that to the i-th awaited
request, everything else on the line is an interrupt, and the other awaited requests
are the ones the board has yet to answer (`Fits`). A lemma for each way to change
them keeps it: a request is sent, the board answers, raises an interrupt, a reply
or an interrupt is read, a task is retried and goes to the end. The inductive
invariant `Handed` adds that a synchronous exchange is made only when nothing
asynchronous is awaited (`Alone`), and which calls can meet interrupts (`Tame`).
`Matching` is `Spec => [](SInv /\ Handed)`.

`AbortCorrect`: `Spec => []NeverAborted`. The assertions are that what
a fetch finds on the line when no task runs is one intact interrupt, that no
interrupt is followed by another one, and that a synchronous exchange gets the
reply it waits for. For the first and the third `Handed` is enough. The second
is about the board: Task::receive() reads one interrupt before its reply and no more.
Two never follow each other because interrupts are enabled again by an exchange
whose reply is on the line before the next interrupt can be (`Gapped`), however
many are raised.

`InterruptsCorrect`: `Spec => []InterruptsAccounted` for one interrupt. It is on
the line, noted or served, in every combination of nested calls, and
whatever else is lost. `ServedCorrect` is what holds of any number: those served,
noted and left on the line are never more than were raised.

| Theorem | Hypothesis | Excluded |
|---|---|---|
| `ReplyCorrect` | no fault `"lose"`, `"late"` | a reply that is missing or comes after its timeout shifts all later ones |
| | no fault `"opcode"` | a reply whose opcode is damaged is not read to its end; what is left over is taken for the next one |
| | no interrupts (`Cores = {}`) or no synchronous exchange (`MaxSync = 0`) | a service routine inside `doSyncTask()` starts an operation, as `executor_sync_steals_reply` shows |
| `AbortCorrect` | the same | the same; each of the three faults alone makes an assertion fail |
| | if there are interrupts, no fault `"garble"`, `"partial"` | an interrupt that arrives damaged is read and not noted; one that comes between the bytes of a reply is counted before it can be read |
| `InterruptsCorrect` | `MaxIrqs <= 1` | a second interrupt overwrites the first in `_triggeringCore` |
| | no fault `"garble"` | as above |
| `ServedCorrect` | none | |

### SessionProofs

The inductive invariant is

    IInv == TypeOK /\ AllRunTheirFlash /\ Progress

`AllRunTheirFlash`: a board that says it is configured runs what its flash holds,
because each write takes "configured" back. `Progress`: how far the board of the
process has come, by the place in `init()`. While `writeBinary()` runs, the first
`sector` sectors hold the binary (`Written`); when the status is written, all do; when the
FPGA is configured, the hash is the binary's. `WriteSector` and its likes have
several outcomes, on the host and on the board; `Told`, `Switched` and `Ended` name
them, so that each case is shown once.

`TargetCorrect` and `WantedCorrect` strengthen it for one board: what a search has
found out of a board stays true until the board is used (`TracksInv`).

| Theorem | Hypothesis | Excluded |
|---|---|---|
| `LoadedCorrect` | none | |
| `HashCorrect` | no binary fills its last sector (`exact`) | that sector is sent as zeros (`communicator.cc:137`), and the hash is stored beside it |
| `WantedCorrect` | one board | a second `init()` asks the board that is still open for its serial number and connects another |
| `TargetCorrect` | one board | the same |
| | no serial number is wanted | the context is noted before reading the number switches it |
| | `"power"` is no fault | a board that loses power listens as MCU, and nobody tells the process |

### StructureProofs

    IInv == TypeOK /\ IndexInv /\ OutputsAreEnds

`IndexInv` follows the stack of indices and the map of cores, without
Cardinality; `IndicesCorrect` derives `IndicesPartitioned`. `OutputsAreEnds`: no output ever
points backwards. Everything about nets rests on one observation: the members that connect
all come down to letting one pin, that does not point anywhere and is no output, point to
another (`Connects`, `Steps`). So a pin has one backward path.

- `OutputsCorrect`: `Spec => []OutputsApart`. A net is a smallest set that no
  connection leads into or out of. The pins whose path leads to an output are
  such a set (`BeforeIsApart`), because the path ends there; it has no second output in it, so
  neither has a net with that output (`OneOutput`).
- `NetlistImplemented`: `Spec => ImplementsNetlist`. That every pin is in one net
  is shown from the definition of the nets alone (`NetOfIsLeast`, `NetsAreNetOf`), and
  that a new connection joins the nets of its two pins and touches no
  other (`Joined`).

No hypotheses beyond `StructureAssumption`: pins are finitely many numbers, and those of
cores have a direction.

### BuildProofs

`BinaryCorrect`: `Spec => []BinaryUpToDate`, for any number of descriptions, contents,
runs and faults. That is not inductive: a run trusts what earlier runs of
other callers left. What they leave is `Settled(b)`: if both files hold a whole
description and there is a binary, it is that description's. Within a run the
binary worked on is not settled; `Progress` says for each step how far its
files have come: which are whole, that `unchanged` is true only if the
description was there before, and what `product` was made of. The others are settled
(`OthersSettled`). With the history variable of the exception,

    IInv == TypeOK /\ (trouble \/ (OthersSettled /\ Progress))

is inductive (`FilesCorrect`), and implies `BinaryUpToDate`. `ContentsAssumption`
is needed: a template or a missing file is not equal to a filled-in description.

### LinkProofs

`DamageDetected`: for every exchange whose checksum is looked at, a reply that
differs in exactly one covered byte from one with the right checksum is not
accepted, for any lengths. The argument is that one more or one less byte with a
bit changes the parity of their number (`OneMoreBit`, with the cardinality of
finite sets), so the parities differ in that bit (`ParityDiffers`), or the
checksum itself is the damaged byte. A byte in front of the covered ones that has to be
right is the opcode (`OneByteOff`).

`StepCorrect` and `OwnCorrect` are `Spec => []InStep` and `Spec => []SuccessIsOwn`.
The invariant is about the shape of the line:

    IInv == TypeOK /\ AnswerWhole /\ (trouble \subseteq Mild => Together)

- `AnswerWhole`: the board's answer has the length, the opcode and the checksum the
  host expects of this exchange (`FrameIsWhole`, from the frames of the board and the
  table of the host).
- `Together` says for each place in `doSyncTask()` what the queue may hold. Where an
  assertion has ended the program, the two bytes last read are the copies of the core
  that differ: every other branch of `FetchAsyncReplies` is ruled out by what the
  queue holds between two exchanges, and by the core noted being the one that exists.
  `After(q, s, ..)`: behind the s bytes that the host will still read there is nothing, or
  one interrupt, and then no other can be raised. `ReplyAt`: there comes the
  reply to this exchange or a refusal. `Before`: the reply has not begun, and at most one
  interrupt is in front of it, which is why `receive()` needs no more than one level of
  recursion. `Almost`: the bytes of the reply, read and unread, are the board's but
  for one.

A lemma for each thing that can be done with the line keeps these: bytes are read
(`AfterDrop`, `ReplyDrop`), an interrupt follows (`AfterInterrupt`, `ReplyInterrupt`),
the reply arrives (`ReplyArrives`); and one for each action (`KeptBy...`) follows
from them. `NoTimeOut`: while the line is mild, nothing the host waits for is missing.
When the last byte of a reply has been read, `Almost` and `DamageDetected` leave
a checksum that is wrong or the board's own bytes (`AlmostChecked`).

No hypotheses but `LinkAssumption`: the exchanges are those of the table, and registers
hold bytes. The faults of `Mild` are in the properties themselves.

### CoresProofs

The cores in synchronous mode, for all settings, data, identifiers and masks, any
number of operations, of changes of a pin, bytes and frames that come in, and of
exchanges that fail or are made again, with the core at work between two attempts.

| Theorem | Proves | Core |
|---|---|---|
| `SettingsCorrect` | `Spec => []SettingsHonouredIfRead` | Uart |
| `DivisorCorrect` | `Spec => DivisorKept` | Uart |
| `PinCorrect` | `Spec => OnlyItsPin` | Gpio8 |
| `DutyCorrect` | `Spec => []DutyCycleWhole` | Pwm16 |
| `FilterCorrect` | `Spec => []FilterSet` | Can, basic mode |
| `FrameCorrect` | `Spec => OwnFrameTaken` | Can, basic mode |
| `ReleaseCorrect` | `Spec => ReleasesWhatWasRead` | Can, basic mode |
| `WaitsCorrect` | `~Again`: `Spec => WaitsForByte` | Spi |
| `OwnByteCorrect` | `~Again`: `Spec => OwnByte` | Spi |
| `BufferCorrect` | `Spec => BufferSent` | Spi |
| `ByteCorrect` | `Spec => ReadByteHonest` | I2c |

`CoresInductive` is `Spec => []IInv`, and `IInv` asks of the core in use the invariant of its
own: `DutyInv`, `GpioInv`, `SerInv`, `NetInv`, `BusInv` or `TwoInv`. All have the same form: the list of
accesses still to be made is what is left of a list of an operation of the code
(`From(s, k)`), and a stage goes with each place k in it. What the stage says is different:

- `GpioInv` looks ahead: if the accesses that are left are made now, the pins are as the
  operation was to leave them (`Done`). Input pins may change in between, so `Done` is
  closed under such changes (`Later`). Of interrupts it claims that none is lost but those
  the operation clears; an interrupt raised between the read and the write of
  `clearInterrupt()` is not among those, and the theorem does not protect it.
- `SerInv`: `Settings(k, ..)`, what has been set so far, while no exchange has failed, and
  `Closed` at each place outside the window in which the divisor is written: the latch is
  closed, or an operation has failed before.
- `DutyInv`: neither, one or both halves have been read, and they are those of the register.
- `NetInv`: in basic mode, where `setAcceptanceCode()` and `setAcceptanceMask()` are
  (`FilterStage`), what of the frame is in the transmit buffer and that it is not locked
  (`TransmitStage`), and that the frame read is still the first (`ReceiveStage`), although
  others come in. The lists of other operations are `Quiet`: no access of them
  releases a frame. In extended mode nothing is claimed but that the mode of the object stays.
- `BusInv` of Spi: between operations the receive FIFO is in step with the count: the place
  to read next, the bytes only sent and those still to come in add up modulo four to the
  place to write next (`On`), or the core was never enabled (`Off`). `transceive()` throws
  away what lies between (`TransceiveStage`), after which the byte it sends is the last of
  those on their way, or the next to be read (`LastIn`); so it is the one returned unless
  the FIFO was read too early. `Untroubled` says when that cannot be: no byte was on its way
  at the call, and the ring was not full at a multiple of four. `SentSince` counts the bytes of a buffer; its eight-bit
  counter and `t < length` make it exact up to 252 bytes, and longer buffers never
  end; a packet is written to an empty FIFO, so that none of it is lost. Shifts of the core
  come between any two steps, and nothing waits for them but the code. All this is claimed
  while nothing has failed or was repeated; `On` also while the FIFO was not read too early and no byte was
  lost. With `Again` the count may be stale after
  `init()`: TLC then finds `WaitsForByte` violated, and two of the three theorems have
  `~Again` as hypothesis.
- `TwoInv` of I2c: what is known at each of the 23 places of `readByte()`, of the four
  transfers (`ReadStage`): the device has taken its address (`Addressed`), points to the register
  (`Pointed`), sends (`Turned`), and its byte is in RX with the bus free (`HasByte`). After a command
  the core may be done with it or not. Nor is a command known to be new: an attempt
  whose reply was damaged may have written it before, so that the core has carried it out
  when it is written again. For the first three that changes nothing that `ReadStage`
  claims, because the device answers a second time or no longer acknowledges; the last one
  then reads an idle bus (`Missed`), which the theorem allows for. `success &=` does not leave the function at once,
  and an acknowledge bit is looked at only when all transfers are over; so a stage is
  claimed only while no exchange has failed and no byte kept has bit 7 (`Acked`). That a
  device that answers is the one asked for needs that its address can be told from its
  bits (`BitsOf`, `Addresses`).

For each kind of access a lemma says what an attempt does to the core and to the place
in the list, and one for each operation goes through its places. The only assumption is
`CoresAssumption`: identifiers, masks and the lengths of buffers are bytes, and the address of
the I2C slave has seven bits.

### Model-checked only

- Liveness: `AllWritten`, `InterruptServed`, `InitReturns`, `Returns`,
  `OperationsReturn` and what they need of fairness, which the proof system does
  not handle.
- `SignalsAreNets`: the generator's signals are the result of a fold over the
  pins, and what a fold computes is shown by induction over data, which
  is out of the provers' reach.
- `AsIfInOrder`, `ReadsWhatWasWritten` and `LatchOnlyForDivisor` of the asynchronous
  cores: the tasks that are sent and those that are kept back are taken out of lists
  with `SelectSeq`, whose facts again need induction over data.

## 7. What could follow

- Models: the data of Can frames and the extended mode of the controller; a
  composition of AsyncRegisters with the whole of TaskExecutor, so that a service
  routine may use the core that interrupted.

## 8. Not modelled

- termios settings of the serial connection, and what a driver reports of a
  device after a disconnect, but for the case that Link has: it is readable and
  empty.
- Texts of the generated VHDL and templates: formatting. A description is the
  two values that the generator compares.
- The arithmetic of Adler-32: no property is about collisions.
- Contents of requests below the level of a register access: they are built and
  sent in one go.
- `readSerial()` and the writing of serial numbers outside `init()`: one exchange
  each, of which Link has both.
- Callbacks of users, but for what they may call (TaskExecutor); asynchronous mode
  of Pwm8, Pwm16 and FrequencyDivider, whose operations start one access, or two
  reads that nothing depends on. Spi, I2c and Can have no asynchronous mode.
- Configuration file, log, file and directory helpers, test scaffolding: sequential
  helpers without state that outlives a call.
- Hardware tests, build files and documentation, which were read as statements
  about the code.
