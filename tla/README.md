# A TLA+ verification of gosmart

gosmart reads the SMART data of one ATA or NVMe drive and prints it. It is a
small program with a hard edge: every answer comes from a blocking call into a
driver that may fail, lie or never return, and a script acts on what the program
prints and on its exit code. This directory models that program, checks the
models with TLC and proves their main properties with TLAPS. Paths are relative
to the root of the repository.

## 1. Inventory

| Component | State | Operations | What must hold |
|---|---|---|---|
| Command line, timeout, exit codes (`cmd/gosmart/main.go:22-88`) | `errCh` (capacity 1), the timer, the worker goroutine | flag parsing, `runWithTimeout`, `os.Exit` | an exit code says what is on stdout; a limit always ends the run and never early; without a limit only the device and the reader of stdout can block |
| Query handlers (`main.go:90-338`) | the open device, the answers so far | `run`, `runList`, `runGet` and six handlers | mandatory failures end the run without output; optional ones drop their section only; the device is closed on every path |
| Device layer (`internal/device`) | one handle per open | `IsNVMe`, `OpenATA`, `OpenNVMe`, seven commands, `Close` | an answer that is not an error is what the drive meant |
| ATA parsers (`internal/ata`) | none | `Parse*`, `AttrNames`, `AttrByName`, `AttrName` | corrupt sectors are refused; names and values belong together |
| NVMe parsers (`internal/nvme`) | none | `Parse*`, `FieldNames`, `FieldValue` | counters keep their values |
| Printers (`internal/printer`) | none | `PrintATAAll`, `PrintNVMeAll` | the verdict and every section come from what was read; logs complete, the error log newest first |

`main` starts the handler in a goroutine and receives its error from `errCh`,
racing `time.After`. The handler calls the device layer, hands each buffer to a
parser and the parsed values to a printer, which writes to stdout directly. The
two goroutines share nothing but `errCh` and the process, which `os.Exit` ends
at any point of the worker.

The behaviours that are hard to test: a timeout that races the end of the query;
an exit in the middle of a report; calls and writes that block for ever; a drive swapped
between detection and open; one of seven commands failing; a controller status
hidden behind a successful ioctl; rings and counters that wrap; a drive that goes
on working between the commands of one report and between runs. `PROJECT.json`
lists each of them at its line under `hazards`.

## 2. Modules

| Module | Models |
|---|---|
| `Device` | what each call of `internal/device` returns, as a function of the reply of the operating system, on both platforms |
| `Gosmart` | one run of the command: main goroutine, worker, clock, drive and the hand that swaps drives. Extends `Device` |
| `OneShot` | abstract specification: what the command promises a script |
| `MCGosmart` | the instance of `Gosmart` for TLC |
| `GosmartProofs` | theorems about `Gosmart`: exit codes, handles, timer, refinement |
| `ReportProofs` | theorems about `Gosmart`: what is on stdout. Extends `GosmartProofs` |
| `ErrorLog` | the error log ring on the drive, its read, and `printErrorLog` |
| `ErrorLogProofs` | theorems about `ErrorLog` |
| `Attributes` | attribute names, list and get mode, and the attribute lines of the report, over several runs |
| `MCAttributes` | tables of attributes for TLC |
| `AttributesProofs` | theorems about `Attributes` |
| `HealthStatus` | SMART RETURN STATUS and the verdict, over several runs |
| `HealthStatusProofs` | theorems about `HealthStatus` |
| `SelfTestLog` | self-test status and log of one report, from two commands |
| `SelfTestLogProofs` | theorems about `SelfTestLog` |
| `NvmeLog` | NVMe counters and error log, over several runs. Extends `Device` |
| `NvmeLogProofs` | theorems about `NvmeLog` |
| `Identify` | the information section, ATA and NVMe. Extends `Device` |
| `MCIdentify` | drives for TLC |
| `IdentifyProofs` | theorems about `Identify` |

`Gosmart` knows of the data only what decides control; the modules below it take
one kind of data each and follow it from the drive through parser and printer.
What the handlers do when a command fails is in `Gosmart` and appears in them
only where it changes what is printed (a nil log, a missing page, a page of zeros).

### Gosmart

The main goroutine is `mainPc` (`parse`, `arm`, `receive` or `select`, `exit`),
the worker `wpc` (`detect`, `query`, `open`, `command`, `print`, `close`,
`send`, `done`). `Spawn` is the `go` statement, `Arm` the choice between plain
receive and `select`, `ReceiveResult` and `SelectTimeout` the two cases of the
`select`, which may both be enabled. `exitCode` is `Running` until `os.Exit`,
after which no actor moves.

Detection is one step on Linux (`IsNVMeLinux`, the path) and two on Windows
(`IsNVMeOpen`, `IsNVMeQuery`, with a handle that is closed again). `OpenDevice`
loads the handler's commands into `todo`; each call that returns is a
`CommandDone` or, when a mandatory answer is an error or does not parse, a
`CommandFails`. Where the code calls the parser directly after the call, the
action contains both. Then the report is fixed as a sequence of pieces (a
section, a name or the value of a field) and written one piece per step, because
the process may end between any two writes. `CloseDevice` is the deferred
`Close`, `SendResult` the send to `errCh`.

Data is abstracted to what the code branches on: a sector is good or corrupt, an
NVMe page clean or with a warning, with or without errors, or zeroed when the
controller refused the command; a drive is ATA, NVMe, other or absent. Field
names are members of a set and may repeat in a table. `cmdline` holds every
combination of flags, number of arguments, limit, path and field. The duration
is computed modulo `2 * HalfRange` as the Go type does.

External, modelled from how the code uses it: the replies of the drivers, the
clock (`Tick`), `Replug`, and the width of `time.Duration`.

### ErrorLog

The drive appends to a ring of five entries with a 1-based pointer and a counter
that wraps, as the comments of `SmartErrorLog` describe it (external). gosmart
reads the log (`ReadLog`: the sector, or nil when the read or the checksum
fails) and prints it in a later step; the drive goes on logging in between. An
entry is the ordinal of its error, so that the order of what is printed can be
compared with the order of what happened. The slot of a line is computed with
`Rem`, the remainder of Go, which is negative for a negative dividend.

### Attributes

The drive has a table of ids (0 marks an empty entry), a threshold for each slot
and an order in which it lists the thresholds; `Work` changes the value and the
counter of an attribute at any time, also between `SmartReadData` and
`SmartReadThresholds`. `pc` is the mode of the run under way. `AttrName` is the
whole table of `attr.go`: known ids, restrictions to disks and SSDs, shared
names; a name is represented by the least id that has it. Raw values are stored
as six bytes and put together again by `RawValue48`. `life.low` is history that
the drive does not keep: which attributes have ever been at their threshold.

Thresholds are matched by position, without a look at their ids; that both tables
have the same order is what the comment at `printer/ata.go:240` takes for granted.
The model also has drives that do not keep it. For every order
`WhenFailedTellsHistory` says that FAILING_NOW compares with the threshold in the
position of the attribute; that this is the attribute's own threshold, and what
`In_the_past` means, holds where the positions agree.

### HealthStatus

`Issue` fills the registers (zeros on Linux, the SMART key on Windows), the drive
handles the command (`DriveHandles`) or it is lost or its registers garbled
(`Lost`), and `Decode` is the rest of `SmartStatus` with the warning of `runATA`
and the verdict of `printSMARTSection`. `Degrade` may happen between any two of
them. That drives may insist on the key (`strict`) is an assumption about them:
the ATA standards require it, and the Windows build sends it.

### SelfTestLog

The drive runs self-tests: `StartTest`, `Progress` and `EndTest` keep the status
byte and a ring with a pointer to the last entry. gosmart reads the status with
`SmartReadData` and the log with `ReadSelfTestLog`, in the order `Handler` gives,
and prints both. Entries and status carry the ordinal of their test.
`printGeneralValues` takes the status byte apart itself (`printer/ata.go:137`), the
log uses `SelfTestResult` and `SelfTestPercRemaining`. A row keeps its slot, its
type, its status and its remaining percentage.

### NvmeLog

The drive counts in 128 bits and lists errors newest first; `Reset` clears the
list, never the counters. Pages are read in the order of `Handler`, by the full
report or by get mode; `seen` and `bytes` are what a user last saw. Counters are
cut to `Range64` and amounts are multiplied in `Range64`. The rows of the error
log keep the number of their entry, as the printer does.

What a command hands back is `NVMeAnswers` of `Device`, by platform: a page, an
error, or on Linux the zeros of the fresh buffer when the controller refused the
command, because `nvmeAdmin` looks at errno only (`linux.go:185`). `SmartPage` and
`ErrorPage` parse such a page like any other; `refused` marks it for the properties
only. `most` and `mostBytes` are history, the largest values ever shown, so that a
0 in between does not hide a counter that went back.

### Identify

A drive is a record of what it is; `IdentifyData` and `IdentifyPage` (external)
put it into words as the standards do, `ParseIdentify` and
`ParseIdentifyController` compute with `Word`-sized words modulo `Uint32` and
`Uint64`, and the printers make lines of it. A quotient that is printed with
`%.1f` is rounded to the nearest, in the middle either way. One run follows
another on another drive, so that two reports can be compared. `ZeroPage` is the
buffer of an identify command that the controller refused on Linux; it is parsed
and printed too.

## 3. Runs

All runs check for deadlock, and in the data modules the drive and gosmart go on
for ever. In `Gosmart` the ended process stutters (`Exited`),
so a deadlock would be a live process in which nobody can move.

| Run | Result |
|---|---|
| `gosmart` | holds: `TypeOK`, `ExitCodeContract`, `VerdictBacked`, `SectionsBacked`, `ReportMatchesDrive`, `HandlesReleased`, `TimeoutNotEarly`, the refinement `ImplementsOneShot`, and `TimeoutEndsRun`, `OnlyOutsideBlocks` under fairness |
| `error_log` | holds: `MostRecentFirst`, `AllEntriesShown` |
| `attributes` | holds: `GetAnswersFirstCarrier`, `ListAndGetAgree`, `WhenFailedTellsHistory` |
| `health_status` | holds: `VerdictIsTheDrives`, `NoRelapse` |
| `self_test_log` | holds: `EveryTestListedOnce`, `EndedTestIsLogged`, `ProgressOnlyForward` |
| `nvme_log` | holds: `CountedErrorsAreListed`, `CountersNeverGoBack`, `AmountsNeverShrink` |
| `identify` | holds: `GeometryExact`, `LargerIsNotShownSmaller`, `ModelSurvives` |
| `selective_checksum` | violated: the selective log is printed from a corrupt sector |
| `nvme_no_errors` | violated: an unreadable NVMe error log is "No Errors Logged" |
| `nvme_status` | violated: a refused SMART log page on Linux is PASSED |
| `health_key` | violated: without the SMART key a failing drive is PASSED (with a warning) on Linux |
| `self_test_captive` | violated: a captive test is listed as offline |

Each violated property states what a comment, a document or a case of the code
says; `findings` in `PROJECT.json` quotes it. Every property that holds is broken
by a mutant (the definitions marked *Mutant* in the modules), a plausible slip in
the code it is about.

The preconditions of the properties that hold mark places where the code does
less than its words; a user should know of them:

- a malformed flag exits with 2, the code of a timeout (`main.go:30`; `GiveUp` of
  `OneShot` has both cases);
- a limit above 2^63 ns wraps and may expire at once (`main.go:75`;
  `TimeoutNotEarly` speaks of representable limits, and the run has one that is
  not);
- when result and timer are ready together, `select` may report a timeout of a
  device that has answered (`main.go:68`);
- an error counter that wrapped to 0 is "No Errors Logged" and hides a full ring,
  and after it fewer lines than entries are shown (`printer/ata.go:276-285`;
  `AllEntriesShown` says so of every value of the counter);
- after a page that the controller refused, a Linux report shows counters and
  amounts of 0, "No Errors Logged" next to a positive number of errors, a model
  number of NUL characters and no capacity, and get mode prints 0 with exit code 0
  (`linux.go:185`; the exceptions in the properties of `nvme_log` and `identify`
  are exactly these cases, and the run `nvme_status` is the finding);
- a drive that lists thresholds in another order than values has them compared
  with the wrong attributes (`printer/ata.go:247`);
- of two attributes with one name get mode reaches only the first (`smart.go:303`);
- self-tests are listed by slot of the ring, where smartctl lists the newest first;
  `MostRecentTest` is parsed and not used (`printer/ata.go:330`; `EveryTestListedOnce`
  has the order of the rows, with the break where the ring starts over);
- `highestBit` is 0-based and cannot tell bit 0 from no bit, unlike its comment
  (`identify.go:125`); its result is used nowhere.

What the properties about PASSED do not say: a bridge that makes up one of the two
exact register patterns cannot be told from the drive (`Lost` in `HealthStatus`
excludes it); on Linux an NVMe verdict may rest on
a zeroed page (`nvme_status`), so `VerdictBacked` claims it for Windows only. An
ATA verdict without a readable status is PASSED with a warning on stderr; that is
what the code does on purpose, and `VerdictBacked` requires the warning.

Bounds. Limits -1, 0 and 1 are the three branches (due at once, no timer, a timer
that runs) and 6 overflows a duration of 4 bits; a second is two ticks, so a timer
can be half way. Two field names give a field
that is present, absent and present twice, three attribute tables include the
empty one. Drives may be swapped at any time without bound. The error log run
lets the ring wrap three times and an 8-valued counter twice (18 errors); the
offsets of ring and counter differ, so all relative positions near a wrap occur.

`attributes`: three slots hold a gap between two equal names, entries restricted
to disks and to SSDs, and an id without a definition, each for an unknown, an SSD
and a disk; two changes of the drive suffice to fall to a threshold and recover,
or to fall between the two reads; one of two orders of the thresholds swaps two
slots and leaves one in place. A byte has two values there, so that a 6-byte
counter is a 6-bit one (33 = 100001b needs the first and the last of them).
`self_test_log`: a ring of three and five tests, so it wraps and overwrites;
two results and two steps of progress. `nvme_log`: 64 bits are 3, so that
counters and amounts reach the end of the range in five steps, and an error log
of two entries overflows. `identify`: words of 5 bits and a kilo of 10 keep
TLC's integers in range; sector counts lie on both sides of every end of a word,
of a unit and of a type.

Beyond the ranges the properties name, numbers do wrap: a capacity of 2^64 bytes,
a logical sector of 2^32 bytes, a counter of 2^64. No drive is near these.

Fairness. `FairSpec` assumes that a goroutine which can run does run (`Main` and
`Scheduled`, the Go scheduler) and that time passes (`Tick`). It assumes nothing of
`Waiting` (opens, ioctls and closes, which "can block indefinitely on
unresponsive devices", `DEVELOPMENT.md:135`), of `PrintPiece` (a write to a pipe
that nobody drains blocks as well) nor of `Replug`. The one-line messages on stderr
are taken not to block.

## 4. Proofs

The theorems hold for every value of the constants, so for every size of rings,
tables, fields and integers and any number of runs, under the named assumptions
of the modules. Most of these are the types of the constants. The others are: a
second is a positive number of ticks and limits are in the range of their integer
type (`Gosmart`); the error counter has more than five values (`ErrorLog`); a
drive's raw counters fit six bytes (`Attributes`); a field of a string has an
even length, a drive's strings fit their field and do not end in a blank, the
character NUL is not a blank, and a drive without 48-bit addresses has fewer than 2^32 sectors (`Identify`: what the
ATA format can express). TLC evaluates them in the runs.

`GosmartProofs`. No property is inductive by itself: that exit code 1 goes with
an empty stdout rests on the error in `errCh` being the worker's, the worker
being done, and a worker with an error never having printed. `IInv` is the
conjunction of

- `PipelineInv`: what has been printed and returned, by the worker's label;
- `HandleInv`: a handle is open exactly at the labels between open and close;
- `ChannelInv`: `errCh` is empty until the worker's last step and then holds its
  result;
- `MainInv`: which request main is serving, and what its exit code implies about
  the worker;
- `TimerInv`: elapsed time and timer add up to the duration;
- `KindInv`: past the first command of a handler the drive is of its kind,
  because the first command is mandatory and only such a drive answers it.

`MainStep`, `WaitingStep` and `LocalStep` show one action at a time that it is
preserved. From it follow type correctness, `ExitCodeContract`,
`ReportMatchesDrive`, `HandlesReleased` and `TimeoutNotEarly` (with
`WrapIdentity`: a duration in range survives the conversion), and the refinement
of `OneShot`: every step is an abstract acquire, release, write or exit, or
changes nothing that `OneShot` sees.

`ReportProofs`. A verdict is printed long after the command it rests on, so the
invariant has to remember how far the handler is. `OrderInv`: `todo` is the rest
of the handler in its order. `AnswersInv`: every command that is no longer in
`todo` has been `Handled`, that is, answered by the drive in hand, usable if
mandatory, and with the warning written if it was an unreadable status; from
the first piece printed this holds of all commands. The lemmas `PiecesOf...` go
the other way, from a piece of the report to the answers it was made of;
`PrintedMeansHandled` joins both, and `VerdictBacked` and `SectionsBacked` follow.

`ErrorLogProofs`. `RingInv` says where the last five errors are after t errors;
`LogErrorKeepsRing` preserves it and `RingPrintsInOrder` reads the section off
it. `CountInv` is the number of errors modulo the range of the counter, which
`CountedModulo` keeps across a wrap and `NumberModulo` carries to the numbers of
the lines. `IndexInRange` and `IndexInjective` hold for every byte a drive may put
into `LogPointer`: with Go's remainder the index could be negative, and is not
because 5 is added first.

`HealthStatusProofs`. What makes a clear answer the drive's own is that neither
pattern can be in the buffer unless the drive put it there (`AnswerInv`): requests
are decoded only after a reply or with an error. `WearInv` and `OrderInv` (the
drive does not recover, and a command is handled after the last report) give
`FailedStaysFailed`.

`SelfTestLogProofs`. `RingInv` says which test each slot holds after t tests, the
last in slot r; `RingTakesNextTest` preserves it, with and without a wrap, and
`RingHoldsLastTests` reads completeness and uniqueness off it.
`EndedTestIsLogged` is about three moments: the status read, the log read and the
print. `PairInv` says of a status in hand that calls its test ended that the
drive's ring, and a log that has been read since, have an entry of that test
either with the same status or not at all; `StatusInv` is what makes it true at
the read. For `ProgressOnlyForward`, `ForwardInv` puts the last report, the status
in hand and the drive into one order (`Precedes`), which every step of the drive
keeps (`NowMovesForward`). For the rows of ended tests `BoundInv` says that no log,
on the drive or in hand, has more percent remaining than the last report on the
running test; it holds when a test ends (`EndKeepsBound`) because a running test is
not yet in the ring (`RunningNotLogged`).

`AttributesProofs`. `Remembers` is the reason why the drive's `worst` suffices: it
is at the attribute's threshold or below exactly for the attributes that have
ever been there. It holds of the drive, so of the sector that was read (`ReadInv`), and
with the thresholds of the later command (`ThresholdInv`) of the column.

For list and get mode, `SectorInv` ties the parsed sector to the ids of the drive
and to the counters as of the read, `ListedInv` the names on stdout to the drive.
`LeastExists` (from the well-foundedness of `<`) gives the first carrier of a
name, and `RawValueIsCounter` the counter back from its six bytes; it rests on
`DivideTwice` and `OneMoreByte`, one byte at a time.

`NvmeLogProofs`. `DriveInv` says which error each entry of the drive's log holds;
`ReadInv` that a log in hand starts no earlier than the number of errors in hand,
because it is read later, and `Lists` follows for what is printed. `OrderInv` and
`AmountInv` order what was shown, what is in hand and what the drive has, for each
counter that still fits; the two action properties are steps along that order.
What was shown enters as `most` and `mostBytes` (`LargestInv`), so the order
survives a 0 in between. `RefusedInv`, with `OnlyLinuxZeroes` from the definitions of `Device`, says
that a page marked as refused is all zeros and that there is none on Windows: the
exception in the properties is exactly that page.

`IdentifyProofs`. The state is simple (`InfoInv`, `PrintedInv`, `BeforeInv`: what is
in hand and on stdout was computed from the drive looked at, and what is
remembered from the one before); the work is in the operators. `TwoWords` and
`FourWords` put a number together from its words, `CapacityExact` and
`SizesExact` carry that through the multiplications, where a product that fits is
left alone by the width (`Small`). `ZeroPageParsed` is what the parser makes of a
refused page. `TrimPadded` and `SwappedBack` are about strings.
`ShortFormOrder` compares two capacities: in one band rounding keeps the order
(`NearestOrder`), and a band is shown between its ends (`ShownInBand`), because
rounding never passes a whole number.

The weights of words and bytes and the units are written as products and not as
powers (`Byte3`, `Uint48`, `TB`, `Power2`), which the provers know nothing about.

Only model-checked: the two liveness properties of `Gosmart` (fairness and ENABLED
are outside the prover), and the findings, which are counterexamples.

## 5. Not modelled

Left out for good: the byte layout of ioctl buffers and sectors; wording and
layout of the reports (capability texts, critical warning texts, the flag columns
of an attribute, `formatComma`); values that are copied from a sector to a line
unchanged (temperatures, completion times, timestamps, the spans of the selective
log, the NVMe version); the SATA words and the ATA version, which are parsed and never used; errors of
writes to stdout (the code ignores all of them); the release workflow.

## 6. Plan

Done: all modules of section 2; every invariant, every action property and the
refinement that a run checks are also proved.

Left:

1. A tighter `GetAnswersFirstCarrier` for the lines of the full report: raw value
   and name of each line (`printAttributes`) against the drive.
2. A statement of what list and get mode of NVMe drives agree on, as
   `ListAndGetAgree` does for ATA.
