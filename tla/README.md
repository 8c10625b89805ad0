# gputool in TLA+

gputool inspects a GPU from user space: it reads and writes registers through
the debugfs file `amdgpu_regs` of the amdgpu driver, decodes them with a
database of register names, offsets and fields, and prints what the driver
reports of shader arrays and waves. This directory models it, checks the models
with TLC and proves theorems about them with TLAPS.

Paths below are relative to the repository.

## Inventory

| component | state | operations | properties that make it correct |
|---|---|---|---|
| register words (`amdregdb/include/amdregdb/RegSpec.h`, the field arithmetic of `src/AmdGpuDevice.cpp`) | none | mask, shift, extract, insert, select word | what is inserted in a field is what is extracted from it |
| register access (`src/AmdGpuDevice.cpp`) | the file position of `mRegFd`; the registers, which the whole machine shares | `read`, `write`, `writeField`, `srbm*`, `srbmSelect`, `srbmClear` | an access reaches the bank asked for; the selection is cleared on every way out |
| register commands (`src/GpuToolUi.cpp`: `doRegOp`, `printFormattedReg`) | the loop over matches | `read`, `write`, `srbm_read`, `srbm_write` | what is printed is what was written; every command ends |
| scope guards (`include/util/util.h`) | exceptions in flight, at construction and now | `SCOPE_EXIT`, `SCOPE_FAIL`, `SCOPE_SUCCESS` | a guard runs exactly on the exits it names |
| device life cycle (`src/AmdGpuDevice.cpp`: constructor, destructor, `populateGcaInfo`) | file descriptors, `mGcaInfo` | open, load, check the version, close | no descriptor leaks on any failing path |
| register database (`amdregdb/`) | `gRegDb`, one `hasLoaded` flag per block | `load_all_blocks`, `supportsBlock`, `getRegSpec(s)` | each block is loaded once; every block of the device is found |
| HQD dump (`src/GpuToolUi.cpp`: `doPrintHqdInfo`) | loop over 4 pipes and 8 queues, and the selector during a read | test `CP_HQD_ACTIVE`, read six registers, each with a select and a clear | every read reaches the queue the loops are at; whole records; no queue stays selected |
| wave dump (`getWaveInfo`, `fillWaveInfo`, `doPrintWave*`) | one descriptor, the list of waves | seek, read, check the version | each unit is read at its own offset; all units are printed or none |
| session (`src/gputool.cpp`, `src/GpuToolUi.cpp`: `run`, `runSingle`, `UserInput`) | the command | parse, dispatch, loop | the session ends; a command is executed as given |
| database generator (`bin/amdgenreg.py`) | the registers of a block; the tree of files it writes | import definitions, import masks, write the files | a written table says what the headers say; no index is newer than a block it names |
| GCA dump (`doPrintGcaInfo`) | none | print a struct | not modelled |
| register data (`amdregdb/*/*.h`) | constant tables | none | not modelled, but for the fields of the selector |
| build (`CMakeLists.txt`) | none | | not modelled |

How they interact: `main` builds a `GpuToolUi`, whose device opens
`amdgpu_regs`, loads the database and keeps the blocks its ASIC supports.
Each command is parsed into a `UserInput` and dispatched; `doRegOp` walks the
matching registers and calls the device, which does one `lseek` and one transfer
per access. Errors are exceptions (`failOn`) that unwind through the scope guards
to `main`, which terminates.

The program is single threaded, but the registers are not its own: other gputool
processes (and the driver) access the same GPU between any two transfers, waves
start and end while they are listed, and every open, seek and transfer can fail.
The generator runs by itself, at another time: it reads the kernel's headers and
writes the tables the database is compiled from, over those of its last run.

What is hard to test is therefore

- the window between `srbmSelect` and `srbmClear`, in which a selector that the
  whole machine shares holds the bank of one command;
- the ways out of that window: a failing access, a failing clear inside a
  `noexcept` lambda, a null pointer, a signal;
- reads that belong together and are made one after the other (`writeField`,
  `hqd_info`, `wave_info`);
- a constructor that fails halfway, with guards that must close what has no
  destructor yet and leave alone what has one;
- names the database does not have, or has twice; arguments that are missing;
- header lines in an order nobody wrote them in yet, and a generator that stops
  between two of its files, or inside one.

`PROJECT.json` lists these hazards at their lines, with the properties about
them, or why there is none.

## Modules

| module | models | extends |
|---|---|---|
| `RegWord` | `uint32_t` arithmetic on registers | |
| `RegAccess` | register commands of several gputool processes on one GPU | `RegWord` |
| `BankedRegs` | abstract: register commands on banks, without a selector | `RegWord` |
| `RegAccessBanked` | the refinement mapping from `RegAccess` to `BankedRegs` | `RegAccess` |
| `ScopeGuard` | the guards of `util.h` | |
| `DeviceLife` | constructor, database loading and destructor of `AmdGpuDevice` | |
| `WaveDump` | `wave_info` and `wave_priority` | |
| `HqdDump` | `hqd_info`, an `srbmRead` being one step | |
| `HqdAccess` | `hqd_info` down to its selects, reads and clears; implements `HqdDump` | `HqdDump`, `RegWord` |
| `Session` | `main`, the prompt and the parser | |
| `RegGen` | `amdgenreg.py` | |
| `MC...` | the instances TLC checks | the module of that name |
| `...Proofs` | theorems with proofs TLAPS checks | the module of that name |

`HqdAccess` composes the loops of `HqdDump` with the accesses its reads are made
of, and implements it: a property of the dump is stated of `HqdDump`, where a read
is one step, and holds with all the accesses. `Session` ends where a command
reaches the device, and `RegAccess`, `HqdAccess` and `WaveDump` begin there. `RegAccess` and `DeviceLife` use guards
as `ScopeGuard` shows them to work: an exit guard runs on every way out, a fail
guard only when an exception leaves its own scope.

### RegWord

A word is the set of the positions of its one bits, so `&`, `|` and `~` are
intersection, union and complement, and a shift drops the bits that leave the
word. `ExtractField` is the expression of `getFieldAs` and `printFormattedReg`;
`InsertField` that of `writeField`, which does **not** mask the new value;
`SelectWord` that of `srbmSelect`, which shifts first and masks then.

### RegAccess

| state | code |
|---|---|
| `mmio`, `bank` | the hardware behind `amdgpu_regs`: registers that exist once, and those that exist once per content of `SRBM_GFX_CNTL` |
| `status`, `pc` | a process, and where it is: `idle` (prompt), `select`, `access`, `modify`, `clear`, `unwind` |
| `cmd` | the `UserInput` |
| `todo`, `reg`, `phase` | the loop of `doRegOp`, and the case of its switch (a write falls through to the read that prints it) |
| `tmp`, `out` | what `read` returned; what `printFormattedReg` printed |

A step is one transfer: an `lseek` works on the process's own descriptor, so it
and the transfer that follows are one action. `SrbmSelect`, `Read`, `Write`,
`FieldRead`, `FieldWrite` and `SrbmClear` are those transfers; `EndAccess`,
`EndCase` and `NextReg` are the control that follows the call in the same
action. `SelectFails`, `AccessFails`, `ClearFails` and `Unwind` are the exceptions:
before the guard exists, with the guard to run, and out of the guard itself,
which ends the process in place. `NullFieldSpec` is the use of the null pointer
`getFieldSpec` returns for an unknown field. `Kill` is a signal at any step.

The hardware, like everything outside the repository, is modelled from how the
code uses it: a register is selected by `SRBM_GFX_CNTL` or it is not, and a
transfer that fails changes nothing.

### BankedRegs and RegAccessBanked

`BankedRegs` is what a user takes a command for: no selector, a bank per me, pipe,
queue and vmid, a write that replaces the register or its field in one step, a
second step that decodes and shows it. `RegAccessBanked` maps `RegAccess`
to it: a selection `s` of `BankedRegs` is the bank with the number
`SelectWord(CntlFields, s)`, the two transfers of a field write and the
select and clear around each transfer are stutters, and a process that has ended
in any way is `ended`. `BankedAssumption` names what this needs: there is one process, and no
command names `SRBM_GFX_CNTL` itself. Neither is enforced by the code, and without
either the two differ: `race_bank` is what a second process does.
What the code makes of odd input is part of `BankedRegs` instead: a selection counts
as far as its fields hold it, a value's bits beyond its field may end up in the
register (`Merged`), and an srbm command works on the first register of its name once
for each. `SelectionsAssumption` says only which banks `BankedRegs` has; all there
are will do.

### ScopeGuard

`stack` is the frames a thread is in: try blocks, guards with the
`exceptionCount_` they were built with, and lambdas that are running. The thread
runs arbitrary code, in a lambda too. `NewException` is
`isNewUncaughtException`, `LeaveGuard` the destructor, `LambdaThrows` the
`std::terminate` of a `noexcept` lambda. `SCOPE_SUCCESS` is left out:
nothing uses it, and it does not compile.

### DeviceLife

`pc` walks through the constructor (`OpenRegs`, `Load`, `OpenGca`, `ReadGca`,
`Filter`, `Built`), the commands (`run`) and the destructor (`Exit`). `scopes` is
what leaving a scope does: a guard, or the device's destructor once there is
one. `Throw` is a failure at any point, `Unwind` leaves one scope, `Terminate` is
main's handler. `Load` is one `load_` function of `load_all_blocks`, with
`hasLoaded` for their static flags. `MCDeviceLife` has the 38 names and
the six blocks of Polaris 10, the one ASIC `getAsicType` returns.

### WaveDump

`file` is `amdgpu_wave`, which the GPU changes in `GpuRuns`; `todo` the rest of
the loops of `getWaveInfo`, `waves` its vector. An offset is a set of bit
positions, made of bytes and shifts as in `fillWaveInfo`. Failures leave the loop
through the guard that closes the file; `DivideByZero` is `wave_priority` on
a GPU that reports no units.

### HqdDump and HqdAccess

`at` and `next` are the three loops of `doPrintHqdInfo`. In `HqdDump`, `SrbmRead`
is the whole of one `srbmRead`: it leaves the word of the queue in `val` and sets
`got`. `Test` and `Dump` are what the loops do with the word, and the GPU changes
queues between any two steps. `printed` is the registers in the order they are
printed.

In `HqdAccess` that read is `Select`, `Access` and `Clear`, with `stage` saying
which is next and `selector` the content of `SRBM_GFX_CNTL`. The hardware answers
for the queue whose numbers the fields of the selector hold (`Selected`, `Load`),
not for the queue the loops are at; that these are the same is what is shown.
`AccessFails` and `Unwind` are a failing read and its guard; `Dies` is a failing
select, which has no guard yet, a failing clear, whose guard is `noexcept`, or a
signal. `Clear` includes the `Test` or `Dump` that follows, since nothing is between
them. `HqdSpec` is `HqdDump!Spec` with the variables as they are.

### Session

A line is a sequence of tokens. `UserInput` is the parser with its defaults (a
missing number is 0, a missing name empty) and its cut to 32 bits; `RunSingle`,
`Run`, `GetNextInput`, `Dispatch` and `DispatchThrows` are `main` and the two
`run` methods. The end of stdin gives empty lines for ever, as `getline` does. Any
line may be typed: `Asks` says, from the places the repository's README gives the
arguments, what a line asks for, a missing argument being nothing or zero. `AsTyped`
says where each command that reached the device was typed, as an order-preserving
map from the commands to the lines.

### RegGen

The script is started again and again, each time with some kernel's headers and
some version of its list of blocks (`Start`), on the tree earlier runs left.
`ImportDef` and `ImportMask` are one line of `importRegDefFile` and
`importRegMaskFile`, on a dictionary `registers` as Python's: a name that comes
again replaces what it had, a mask line makes a new field, a shift of a field that
is not there is dropped. `EndMasks` puts the texts together, which fails on a field
without a shift before a file of the block is opened. `OpenFile` cuts a file to
nothing and `WriteFile` gives it its text; `Outputs` is their order: the two files of
a block as soon as it is imported, and after the last block the three that name
them all. `Fail` is an exception or a signal at any step.

A line is the record of its tokens. A file's text is the data it shows: the
registers, or the blocks. `run` in a file is history, to tell which run wrote it.

## Runs

| run | instance | shows |
|---|---|---|
| `reg_access_one` | one process, 14 commands, five registers; 145,000 states | the right bank, the echo of a write, an end of every command, and `BankedSpec`, also for values and selections that are too wide and a name that two registers have |
| `reg_access_two` | two processes, symmetric; 1,421,300 states | the selection is left only by one who is, or died, in its scope, and is that one's own; racing field writes get lost, but no field gets a value nobody wrote to it |
| `race_bank` | two processes | *violation*: an access lands in the other's bank |
| `unknown_field` | one process | *violation*: a crash leaves the bank selected |
| `one_field_print` | one process | *violation*: a single field is printed undecoded |
| `scope_guard` | six frames | a guard knows what leaves its scope |
| `device_life` | the 38 blocks | no descriptor leaks; commands run on a whole device |
| `missing_block` | the same | *violation*: two blocks of the ASIC are missing |
| `wave_dump` | seven shapes | all units at their own offsets, or nothing; the file is closed |
| `hqd_access` | 4 x 8 queues, six registers, 32 bits | every read reaches the queue of the loops (`HqdSpec`); whole records; the truth about queues that hold still; nothing stays selected |
| `session` | up to three lines, or arguments, of 14 kinds | what is typed is executed once; exit ends |
| `reg_gen` | two blocks, two runs, headers in twelve forms | written tables say what the headers say; indexes come last; a good run replaces all |

The four violations are findings: in each the code disagrees with a sentence of
its documentation or with its own use elsewhere, and `PROJECT.json` quotes it.
Three more disagreements are in the models, without a run of their own:

- `README.md:96` speaks of writing a register field, but `writeField` does not cut the
  value to the field (`AmdGpuDevice.cpp:281`): a value that is too wide changes the
  neighbours, also with one process. `BankedRegs!Merged` admits it.
- For the same sentence, `writeField` reads and writes in two transfers
  (`AmdGpuDevice.cpp:277-284`): of two processes that write two fields of a register,
  one may undo what the other wrote, with values that fit. `FieldsWhole` admits it.
- The usage of `srbm_write` in `README.md:515-518` has no value, and a line typed like
  that writes zero, because a missing number is 0. `AsTyped` admits it.

What the properties say, in the order they matter:

- `QuiescentClear`: with any number of processes that interleave, fail and are
  killed, `SRBM_GFX_CNTL` is zero when nobody is or died in the scope of a
  selection. A missing guard, or one that only runs on failures, breaks it
  several commands later. `SelectionOwned` adds whose selection it is: the word that
  one of those in scope asked for or has just written, never that of a command that
  has ended and never a mixture of two selections. (A field write of the selector
  itself may store a mixture; that is its own doing.)
- `InRequestedBank`: an access is made with the selection of its own command.
  It holds of one process and is what fails with two.
- `BankedSpec`: alone, the register commands are the atomic ones of
  `BankedRegs`.
- `FieldsWhole`: however the reads, merges and writes of several processes interleave,
  every field of a register holds what some command wrote to it, or its first value.
  It is claimed of registers whose fields do not overlap and for values that stay
  inside (`Tidy`), and it is all that can be claimed of a field write: that the rest
  of the register stays as it is holds neither of values that do not fit nor of two
  processes.
- `WriteEchoed`: the second access of a write, under a second selection, shows what
  the first stored.
- `OwnedOnce`, `DeviceReady`: every open descriptor has one owner; commands only
  run after every check was passed.
- `GuardKnows`: counting exceptions tells a guard whether a new one is leaving
  its scope, with lambdas that throw and catch during an unwinding.
- `OwnOffset`, `AllOrNothing`, `SteadyShown`, `FileClosed` of the wave dump;
  `HqdSpec`, `WholeRecords`, `SteadyShown`, `SelectionCleared` of the HQD dump. With the GPU running on, a
  dump is no snapshot. What it does promise is about units and queues that
  did not change since it began.
- `Faithful`: whatever the order of the header lines, and whatever an earlier run
  left, a table has the last address of each name, and for each field the last
  mask and the last shift after it. Headers that have no such shift leave no
  table. `IndexLast` and `DoneWhole` are about runs that stop: a tree whose index
  names a block has the block's files, of that run or a later one, and a run
  that ends well has replaced every file it is about.
- `AsTyped`: lines of the device's commands and what reached the device correspond one
  to one, in order, with the arguments in their places and nothing or zero for missing ones.
- `CommandEnds`, `DumpEnds`, `SessionEnds`: see fairness.

### Bounds

- `Width = 5` bits. The masks of `SRBM_GFX_CNTL` cover all of them, one of two bits
  and three of one, and the other registers have fields at and away from bit 0,
  so values and selections fit, overflow, and meet their neighbours. Nothing in the arithmetic
  depends on 32; the theorems hold for every width.
- Two processes: a third adds no new conflict to a selector with one value.
  `SelectionCleared` and `SelectionHasOwner` are proved for any number. `MCShared` has
  a field write under a selection and one without, to both fields of one register, so
  that each can meet the other's half-done merge, and two selections of which neither
  has all the bits of the other, so that a mixture shows; one command writes the
  selector itself. That instance has no banks, on which its properties about the
  selector do not depend; the theorem `FieldsNeverMixed` has them, and so do `race_bank`
  and `reg_access_one`.
- `MaxDepth = 6`: main's try block, a lambda (it takes the place of its guard), a
  try block in it, a guard in that and the guard's lambda, with one frame to
  spare: two exceptions are in flight, and a third can be. The theorems hold for
  every depth.
- `DeviceLife` has no bound but the versions 0 to 3, on both sides of the
  required 2.
- `MCShapes`: every loop runs zero, one, two and (`cu`) three times. The masks of
  the offset only cut numbers above 255, which no shape of a real GPU has.
- `hqd_access` has the command's own 4 pipes, 8 queues and six registers, words of 32
  bits and the fields `amdregdb/oss/oss_3_0.h` gives `SRBM_GFX_CNTL`. What is bounded
  is the GPU: three queues are active when gputool starts, among them the last of
  all, and two of them (`Restless`) may end and start again at any time. The others
  show what holds of queues that do not change. No choice is made about the queues
  in the theorems.
- `reg_gen`: `MCDefs` and `MCMasks` are the forms of a header that the dictionaries
  tell apart: a name once and three times, a mask before and after its shift, a second
  mask without and with a shift, an unknown register, and a field of another
  register. Two blocks give a first and a last, and two runs (`MaxRuns`) a tree that was
  left by a run stopped anywhere, with another list of blocks and another kernel.
- `MaxLines = 3`, numbers of three bits (`Modulus = 8`): a line before and a line
  after another, with an end of stdin at every place. `MCLines` has every command with
  complete arguments, and lines with one missing, one too many, an empty one, a name
  in a selector's place and numbers of four bits.

`CHECK_DEADLOCK` is off in all runs because a gputool process ends.

### Fairness

The specifications of `RegAccess`, `WaveDump`, `HqdAccess` and `Session` have fair
versions; the others are checked without. They ask weak fairness of the program's
own steps and of nothing else: a command waits for no lock, no message and no other
process, so only the scheduler keeps it from its next step. A user may never type a command, the GPU
may never or always change, nothing need fail: `Dispatch` of `RegAccess`,
`WaveDump` and `HqdDump`, `GpuRuns`, `Quit`, `Kill` and the
failures have no fairness. The guard that clears a selection after a failed read is
the program's own step, so `Unwind` is fair. In `Session` reading a line is a step of the program, since the lines
are what is on stdin; `SessionEnds` therefore speaks only of sessions in which exit
is typed or that are given as arguments. Without exit, a prompt at the end of
stdin runs for ever, and the property leaves that open.

## Theorems

Nearly all are `Spec => []P`; two say that a specification implements another, and two
are about words. They hold for every value of the constants that satisfies the named
assumptions, and none rests on fairness.

Some have a hypothesis besides, which the table gives. Those about `InRequestedBank`
and `ScopeExitRuns`, which runs find violated, say under which condition the code is
right. Of `InRequestedBank` that is one process; behind a lock, which the code does not
have, several would get what `LockedBank` says: an srbm access always reaches
the bank of its own command, and a plain access bank zero *unless a process has died
between its select and its clear*. A lock does not clean up after a dead holder.

| theorem | states | argument |
|---|---|---|
| `RegAccessProofs!TypeCorrect` | `TypeOK` | inductive with `Walk`: the position of a process determines its command's kind, and the register it is at is a match of the name it was given, so every access is to an offset that exists |
| `RegAccessProofs!SelectionHasOwner`, `SelectionCleared` | `SelectionOwned`, and `QuiescentClear` from it, any processes | inductive with the two above. A step that stores in the selector is a select (its process is in scope from then on and the word is its own), a clear (it stores zero, whatever the fields: `ClearWordZero`), an srbm write (still in scope: `WroteSelector`), or a plain write, which by `Walk` cannot name `SRBM_GFX_CNTL` unless `DirectSelect`. Any other step of any process leaves the owner where it is (`OthersKept`, `EndAccessOwned`) or, if it is the owner's last, is a clear |
| `RegAccessProofs!LockedInRequestedBank` | `LockedBank` of any processes, in behaviours with `[]Locked`: no two living processes are inside a command at once | `OwnBank`: between a process's select and its access, the selector is the word of its command; another process that stores there is inside a command, which `Locked` excludes. `SelectWordDecodes`: extraction gives back what the fields hold, because they do not overlap. For plain accesses `QuiescentClear` gives zero, if nobody died in scope |
| `RegAccessProofs!AloneInRequestedBank` | `InRequestedBank` of one process | one process is `Locked` by nature, and when it is dead nobody makes an access |
| `RegAccessProofs!FieldsNeverMixed` | `FieldsWhole`, any number of processes | every word of a register is whole, and so is the word a process holds between its read and its write: it was in the register when it was read, and what another stores since does not change it. `WholeInserted`: merging a value that stays inside its field into a whole word gives a whole one, as the other fields do not meet it |
| `RegAccessProofs!KnownFieldsCleared` | `ScopeExitRuns`, if every field an srbm_write names is in the registers it names | a step that ends a process by its own doing is out of scope, but for `NullFieldSpec`, which the hypothesis excludes by `Walk` |
| `ScopeGuardProofs!GuardsKnow` | `GuardKnows`, any depth | `Levels`: along the stack each frame's count is that of the frame outside it, and one more if a lambda interrupted an unwinding there; on top, the exceptions now are the top's count and one more if it is being unwound |
| `ScopeGuardProofs!GuardTypes` | `TypeOK` | main's block stays at the bottom |
| `DeviceLifeProofs!DescriptorsOwned` | `OwnedOnce`, any database, ASIC and versions | `ScopesInv`: the outer scope is about `amdgpu_regs`, the inner about `gca_info`, the step tells how many there are, and the descriptors follow their number; `OwnersCounted` turns that into the count of owners |
| `DeviceLifeProofs!DeviceTypes`, `RunsWhole` | `TypeOK`; `DeviceReady`, any database, ASIC and versions | `LoadedInv` and `FilteredInv`: `LoadOrder` is walked by position, so the blocks loaded so far are those before it, each once, so at its end the database is whole; the filter keeps order and drops what the ASIC has not |
| `SessionProofs!SessionTypes`, `LinesExecuted` | `TypeOK`; `AsTyped`, any lines and any number of them | `Inv`: for some `n`, `stdin` is what follows the first `n` lines, and these have been executed (`Executed`), or all but the `n`-th, of which the parser has made `input`, if that is being dispatched. `CommandParsed`: a line that begins with a device command is read as what it `Asks` for; `OtherParsed`: no device command is made of another line; `ArgsRead`: arguments are the same line, because `Flattened` gives back its tokens (by the least number of arguments for which it would not) and `PaddingParsed` shows that the two empty tokens at the end are not seen |
| `RegAccessProofs!FieldsHold`, `FieldInserted` | what is extracted after `SelectWord` or `InsertField` is what the field holds of the value (`Held`: all of it, if it fits); an insert keeps the bits that are neither in the mask nor in the shifted value | bit by bit; for `SelectWord` from masks that do not meet |
| `RegAccessProofs!WritesEchoed` | `WriteEchoed`, one process, any database and commands | `Echo`: from the write on, the register the command works on holds what was written (`Found`, `Wrote`), through the clear, the second select and the second read; only the process itself could store there, and its stores in between are in the selector |
| `RegAccessBankedProofs!CommandsBanked` | `BankedSpec`, under `BankedAssumption` | `Right`: what a process has read is what the register of its bank holds, since nobody else stores between the two transfers; that is where one process is needed. The initial states map; then each action of `RegAccess` has a step, a stutter or the end of the process in `BankedRegs`. The bank of a selection is the word `SelectWord` makes of it, and different selections have different words by `FieldsHold`; a selection too wide for its fields is the one they hold of it (`HeldStored`) |
| `WaveDumpProofs!WaveTypes`, `WaveFileClosed` | `TypeOK`, `FileClosed`, any shape | direct |
| `WaveDumpProofs!WavesShown` | `SteadyShown`, any shape | `ReadInv`: the units read so far and those left to read are all units, and a unit that did not change was stored as it still is |
| `WaveDumpProofs!OwnPlaces` | `OwnOffset`, if no number of the shape is above 256 | three bytes that do not meet decide the offset; above 256 the masks of `fillWaveInfo` would give two units one place, so the condition is needed |
| `WaveDumpProofs!UnitsAllOrNone` | `AllOrNothing`, any shape | `CountInv`: with what is left to read, the waves number `se * sh * cu` |
| `HqdAccessProofs!DumpTypes`, `QueuesShown`, `RecordsWhole` | `TypeOK`, `SteadyShown`, `WholeRecords` of `HqdDump`, any number of pipes, queues and registers | `SteadyInv`: a word that was read is still there if its queue did not change, and no active queue was passed over. For the records, the position in `printed` is that of the loops modulo `Len(Regs)` |
| `HqdAccessProofs!AccessTypes`, `NothingSelected` | `AccessTypeOK`, `SelectionCleared` | inductive together |
| `HqdAccessProofs!DumpImplemented` | `AccessSpec => HqdSpec` | at stage `access` the selector is the word of `at`; `FieldsHold` gives back its numbers, and no two queues share theirs, so `Load` is `hqd[at][Reg]` |
| `HqdAccessProofs!AccessShows` | `SteadyShown`, `WholeRecords` with all accesses | the three before |
| `RegGenProofs!GeneratorTypes` | `TypeOK`, any blocks, headers, lists and number of runs | inductive once it is added that a run that has begun has a number above 0 |
| `RegGenProofs!IndexNeverAhead`, `NothingLeftOver` | `IndexLast`, `DoneWhole` | `TreeInv`: the blocks before `block` are written by this run, and of the files of all blocks those before `pos`; an index names only blocks with files of its run or later |
| `RegGenProofs!HeadersFaithful` | `Faithful` | `FaithInv`: after `n` definition and `k` mask lines the dictionary is what those lines alone say (`NamesKnown`, `FieldsKnown`); a step adds one line. A field without a shift is why `Printable` is needed at the end |

The assumptions are those of the modules: `WidthAssumption`, `RegsAssumption` (every
field has a mask and a shift in the word), `HardwareAssumption` (the selector is
in the database and its four fields do not overlap, both compared with the data
of `oss_3_0`, and it is not banked itself), `CommandsAssumption`,
`BankedAssumption` (one process, no command on the selector), `SelectionsAssumption` (the
selections of `BankedRegs` are some that the fields can hold, with all that commands ask
for),
`DepthAssumption`, `DeviceAssumption`, `HqdAssumption`,
`HqdAccessAssumption` (the fields do not overlap, the queues' numbers fit them and
differ), `SessionAssumption` (a line has
at least one token, if an empty one) and `RegGenAssumption` (a list names no block twice, and there is
at least one). TLC evaluates each of them in the runs.

Every safety invariant a passing run checks and both refinements are proved. Only
model-checked are `CommandEnds`, `DumpEnds` (twice) and `SessionEnds`: they need
fairness, which the prover here has no rules for.

Two limits of the prover shaped what is stated. It cannot expand the recursive
`SelectSeq`, so `AsTyped` speaks of places in `typed` and not of a filtered sequence;
and it has no induction over the length of a sequence, so facts about `FlattenSeq` and
about least elements are proved from the smallest counterexample, which exists because
the naturals are well founded.

## What is not modelled

- `gca_info` prints the fields of a struct: formatting without state.
- The register data is generated tables: more than 320,000 of the repository's
  322,500 lines of code are their entries, which are data and have no behaviour to
  model. So the definitions here can only stand for a very small share of all lines,
  though they stand for about 700 of the 1,800 lines that are written by hand;
  most of the others are licences, includes, declarations and formatting. What the models assume of them was
  compared with the four blocks a device gets: names are unique, a shift is the
  lowest bit of its mask, masks are contiguous.
- `readField` and `srbmReadField`: nothing calls them.
- The other arms of `populateSupportedBlocks`: `getAsicType` returns Polaris 10.
- The driver's own use of the selector, and other hardware behaviour that cannot
  be seen from the code: whether a register has side effects, whether
  `CP_HQD_ACTIVE` can be nonzero on an inactive queue.
- How text is split into numbers (bases, signs): a number is its value before
  the cut to 32 bits.
- In `RegGen`, how a line is split into tokens, and the list of blocks itself; the
  Python 2 `print` of warnings. Headers that are cut short are lists of fewer lines.
- A kernel's header that changes while it is read, and two generators on one tree.

## Plan

Done, in this order: `RegWord` and `RegAccess` with their proofs (the selector is
the one thing gputool can damage beyond its own life), `BankedRegs` and the
refinement, `ScopeGuard`, `DeviceLife`, `WaveDump`, `HqdDump`, `Session`, `RegGen`,
the composition `HqdAccess`, and the proofs of the safety properties the runs
check.

What could still be added:

1. `BankedRegs` for several processes behind a lock: then nothing in `Right` is
   disturbed by another, but for the selection a dead process leaves.
2. The driver as a further user of the selector, once its code is at hand.
