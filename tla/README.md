# TestbenchDAQ in TLA+

Specifications of TestbenchDAQ: the session that drives one or two sensor
families through a series of runs, its schedule, the two adapters it commands
and the contract between them, the native recorder one of them starts, the
portal that reads the sessions while they are written, and the functions that
export, decimate, configure and check. The modules are written from the code;
line numbers in comments and in `PROJECT.json` refer to it. TLC checks small
instances, TLAPS proves the safety properties named below for every value of
the constants.

## 1. The system

| Part | State it keeps | Operations | Talks to |
|---|---|---|---|
| Session (`tbdaq/session.py`) | the manifest in memory and on disk, the list of deferred exports, `_interrupt_requested`, the record of the run in progress | preflight, run loop, start / stop / cleanup fan-outs, processing, deferred export, terminal write | adapters (one thread per call, joined), output storage, operator (Enter, Ctrl+C) |
| enDAQ adapter (`adapters/endaq.py`) | the attached device, the snapshot `_files_before_start`, `_needs_stop`, one result object | discover, start, stop, offload, export, endaq-stop, self-test | the recorder over a serial command file and USB, the mount table, the output folder |
| Gator adapter (`adapters/gator.py`) | the child process, the reader thread and its queue, one result object | discover, start, stop, export | the native recorder (stdout, SIGTERM, SIGKILL, exit code) |
| Native recorder, Linux (`gator_recorder/linux/main.cpp`) | two row buffers and their flags, the stop and finished flags, the CSV stream | sample callback, writer loop, wait, close, report | the vendor library's thread, signals, the adapter |
| Native recorder, Windows (`gator_recorder/windows/main.cpp`) | one loop's locals | polling loop | legacy API, console control events |
| Signal exporters (`tbdaq/isa_export.py`) | none (files in, files out) | Gator split, IDE split, signal map, unique aliases | called by adapters and session |
| Configuration (`tbdaq/config.py`) | a `SessionConfig` and its sections | read, reject unknown keys, validate | session, adapters |
| Storage check (`tbdaq/storage.py`) | none | mount type, write probe, free space | CLI, before the session |
| Command line (`tbdaq/__main__.py`) | none | parse, override, run, exit code | session |
| Portal index (`tbdaq/portal.py`) | the label file of each machine | list, preview, rename (and two charts that no route reaches) | session folders another process may be writing |
| Portal API and page (`portal/api/app.py`, `portal/web`) | the queue of a download | routes, archive stream | portal index |
| Plotting (`tbdaq/plotting.py`) | none | envelope, figures | finished sessions |
| Installation, udev, mount unit, containers | system files | set-up scripts | operating system |

Behaviour that is hard to get right or to test, and what makes each part correct:

- **Session.** Ctrl+C can land anywhere in the main thread: it is remembered
  while adapter calls are joined, ends a measurement, and everywhere else
  leaves the code that was running. Manifest writes go to network storage and
  may raise at any of nine places. One family may fail while the other works.
  enDAQ exports are deferred past later runs. Correct means: exit code 0 is
  earned, a recorder left running is explained, adapters are never called
  twice at once, nothing starts after Ctrl+C, a complete series is exported,
  and every series ends.
- **enDAQ adapter.** A start or stop command may act and report failure, or the
  reverse; the recorder changes mode late, ends at its own limit and comes back
  as a disk; `umount` may time out after it has worked; the offload may stop at
  any file. Correct means: what a run offloads is exactly what it recorded,
  nothing is deleted before it is verified, the recorder never leaves USB mode
  under a mounted filesystem, and a recorder that may be recording is marked.
- **Gator adapter.** The recorder may die before it is ready, be slow, hang in
  vendor code, or get the terminal's Ctrl+C. Correct means: every call returns,
  no process is left behind, and a clean stop is one.
- **Native recorder.** A vendor thread, a writer thread and `main` share two
  buffers under two mutexes and two condition variables. Correct means: no row
  lost or reordered, exit code 0 only for a complete file, a stop ends it.
- **Schedule.** Starts are planned on a grid of the monotonic clock, and every
  run takes time that nobody plans. Correct means: delays do not accumulate,
  windows are whole, and a series that is feasible misses no start.
- **Portal.** Manifests are replaced and files appear while requests read them;
  two request threads may rewrite one label file; a download streams files that
  somebody may delete, to a client that may leave. Correct means: a display
  name that was confirmed stays, a listing shows what is running, an archive
  holds what it promised, and a download ends.
- **Functions.** Exporters, plots, previews, configuration and checks keep no
  state; they are hard at their edges: rounded bucket edges, a file that grows
  while a page of it is read, batches dated by rounded spans and steps, name
  collisions, a channel that fails halfway, a mount over a mount, a value that
  is not a number.

The hazards, each at its line and with the properties aimed at it, are listed
in `PROJECT.json`.

## 2. Modules

```
Schedule ------------ MCSchedule          ScheduleProofs
   | the clock of
Session ------------- MCSession           SessionProofs, SessionRunsProofs
   | implements AdapterContract, twice, from the caller's side
   | AdapterContract is implemented from the other side by
EndaqAdapter -------- MCEndaqAdapter      EndaqAdapterProofs
   | implements RecordingCustody
GatorAdapter -------- MCGatorAdapter      GatorAdapterProofs
   | extends RecorderProcess, the child it supervises, which
   | is implemented by
GatorRecorder ------- MCGatorRecorder     GatorRecorderProofs

Portal -------------- MCPortal            PortalProofs
   (beside the sessions' files)
Decimation, SignalExport, SessionConfig, OutputStorage, EndaqSetup,
WindowsRecorder ----- Algorithms -------- MCAlgorithms
                                          AlgorithmsProofs
   (Selection: a list comprehension, for Decimation and SignalExport)
```

### Session

`pc` is the program point of the main thread: one value per stretch of
`Session.run` and `_execute_run` between two places where something else can
happen (a manifest write, a fan-out, a join, the measurement). The record of a
run keeps what the properties tell apart: per family the outcome of start, stop
and processing, the run's status and its processing summary. `disk` is the file:
it changes only where the code calls `_write_manifest`, as a whole, because the
code writes a temporary file and renames it.

An adapter call is `call[f]`: dispatched by the main thread through the barrier,
answered by `StartReturns` or `StopReturns` of its own thread in any order, and
collected when both are back (the join). `dev[f]` is the real recorder, which
may be recording although the call failed, or may stop by itself
(`DeviceEnds`). `needsStop` is the enDAQ adapter's attribute that cleanup reads.

Ctrl+C is three actions, because the code has three places for it:
`InterruptAbsorbed` (the join loop remembers it), `InterruptMeasuring` (it ends
the window) and `InterruptEscapes` (anywhere else the exception reaches the
handler of `run`, or leaves `run` when it hits the handler itself). A failed
manifest write is `WriteFault`, with the same way out.

The configuration is any that `validate` accepts. Time is abstract: a start is
on time or later than its tolerance, as it pleases.

### AdapterContract

`Session` has recorders of its own imagination: `StartReturns`, `StopReturns`
and `DeviceEnds` choose what an adapter answers and what its recorder does. The
contract is what makes that honest. It is one small state machine per family,
over the phase of the calls, whether the recorder records, and the debt that
`needs_stop` stands for. `Session` implements it for both families
(`KeepsContracts`), and so do the two adapters with their real processes and
devices (`KeepsContract`): the caller starts no recorder that may still record
and stops none that is not owed; the adapter leaves no recorder running after a
failed start or a good stop without owing a stop. The two families differ in
`Uncertain`: only an enDAQ start may have worked although it failed.

### Schedule

`now` is the monotonic clock in ticks; a wait ends at its target or up to
`Wakeup` ticks later, the work before and after a window takes up to `Overhead`.
`base`, `Planned`, `Lateness` and `Missed` are the expressions of the run loop,
`log` the dispatch, start, stop and end of each run. What a run does inside is
`Session`.

### EndaqAdapter and RecordingCustody

`pc` runs through `start` (refresh and snapshot, unmount, command, wait for the
disconnect), `stop` (command, remount, offload file by file with copy, compare
and optional deletion) and the deferred `export_run`. `device` is the recorder's
real state and moves on its own. Each command has two independent results: what
it did and what it reported. Recordings are numbers that grow, as file names on
the recorder do; a recording session leaves none, one or two (it rolls over).
The session appears as the part of it that decides the next call
(`SessionStops`, `SessionContinues`, `MoreRuns`).

`RecordingCustody` is what the offload promises, without saying how: the
recorder forgets a recording only if a verified copy is on the host. The
refinement maps the recorder's storage to `onRecorder` and the union of the
verified files of all runs to `onHost`.

Loops with a deadline may give up after any attempt that failed. A loop that
polls a condition is the step that finds it true or gives up.

### GatorAdapter

The caller of `start_run` and `stop_run` and the reader thread with its queue,
beside the recorder as `RecorderProcess` shows it: a process that arms its signal
handler, prints the readiness token, closes on SIGTERM, fails, hangs or is
killed. It exits with the codes `main.cpp` returns (1 to 6 before it records, 0,
7, 8 and 9 afterwards), with the loader's 127, or with minus the signal; code 9,
no sample, follows only from a recorder told to stop before its first one
(`abandoned`). `wait_for_natural_end` is left out: nothing in the repository
calls it.

### GatorRecorder

A step is one critical section, or the code between two. The recorder's mutex
is a variable because the callback keeps it while it waits inside
`BufferedCsvWriter::append`; the writer's mutex never outlives a step. The two
condition variables are wait places that a thread leaves only when notified:
`parked` (`_flushRequested`) and `waitSpace` (`_bufferAvailable`). `main` polls
`_done`, so notifying it changes nothing. Rows are numbered, so that `output`
can be compared with `accepted`, the history of rows taken into a buffer.
The time limit of `--duration-s` may pass whenever `timed` holds, in the callback
from the second sample on, because the first one starts its clock.

The module implements `RecorderProcess` (`KeepsProcess`). The process is told to
end once `g_stopRequested` or `_finished` is set, and has printed its readiness
token once a sample is past its checks (`Announced`); its exit code is that of
`main`. This is what lets the adapter's `HonestStop` (code 0 after the token) be
read with `ExitIsHonest` (code 0 is a complete CSV).

### Portal

Each request thread has a program point, one per step between two file
accesses. `rename` reads the labels, truncates the file and writes it; a text
shorter than what another thread wrote meanwhile leaves a tail behind it, so
that the file no longer parses. `sessions` reads the manifests one by one, in
any order. A download lists the files, looks at them twice, starts the archive
thread and streams from its queue; the archive's chunks are its files, the
central directory and the end mark. Beside them the session processes write:
run files, the temporary manifest, the rename over the manifest; they may be
killed at any point. `TextSize`, a constant, is how long the text of a set of
labels is. In `archive`, `listed` is what the download promised and `left` what
the archive thread has still to open. `confirmed`, `before`, `removed` and
`disturbed` are history variables.

### Algorithms

A job is one call with its input, and each action answers the jobs of one
function. The functions are operators in modules of their own: `Decimation`
(the plot envelope, the preview of the portal, the choice of the files of a
session), `SignalExport` (the Gator and IDE exporters and their aliases),
`SessionConfig` (options over a file and its sections, validation, exit status,
messages), `OutputStorage` (deepest mount, write probe, free space),
`EndaqSetup` (choice of the recorder, its settings, the space it needs) and
`WindowsRecorder` (the polling loop and its back-dated batches). A failing
write is part of the job.

- *Pages.* `csv_preview` reads a page and then looks for one row more
  (portal.py 106-107), and the file may grow in between, and between two pages:
  each page of a job has a `length` and a `later` one. A reader steps by the
  limit, as the React page does (main.jsx 49). Rows are whole; the torn last row
  that a page shows of a file between two flushes is left out.
- *Configuration.* A value of the file may be null, NaN or of a wrong type
  where JSON allows it. A rule is a pair: whether Python can evaluate it
  (`typed`) and whether it holds. The first rule that does not hold decides
  between `ConfigError` (exit 2) and another exception (exit 1). The options
  are those of the session and, for `--gator` and `--endaq`, of each section;
  one timeout and the channel rates stand for a section's numeric settings.
- *Windows recorder.* The sample period is a fraction of microseconds,
  `PeriodNum / PeriodDen`; the span of a batch and its step are each rounded
  from it (main.cpp 224 and 240). At 19 kHz the period is 52.63 µs and the step
  53, so that a batch ends later than its receipt; at a step rounded down it
  ends earlier. `rows` is what was handed to the stream, `file` what reached
  the disk: after a failure any beginning of `rows` (`kept`). A poll may return
  more rows than there is room for (`RowsPerRead`, main.cpp 214), which ends
  the recording.

`Selection` has one operator, `Kept`: the elements of a sequence that are
wanted, in their order, written as a fold so that it can be reasoned about.

What the code relies on of its inputs is an assumption by name for each family
of jobs: a file only grows, a CSV has numbers or gaps, the events of a channel
are in the order of the recorder's clock, a rate is a number. TLC evaluates each
of them over the instance, and the proofs use nothing else about a job.

## 3. What TLC checks

| Run | Question | Instance |
|---|---|---|
| `session` | honesty of the result, what may be left recording, partial runs, exported series, dispatch, the contract with both adapters, nothing started after Ctrl+C; a timed series ends, and Ctrl+C ends any session | every configuration, 2 runs, 2 interrupts, 1 storage fault, `FairSpec` |
| `schedule` | windows are whole and on the grid; a feasible series misses no start | periods 0 to 7, window 2, tolerance 0 to 2, both policies, 1 or 3 runs |
| `endaq` | exact offload, mount safety, refinement of `RecordingCustody` and `AdapterContract` | 3 runs, 5 recordings, recorder empty or not, deletion on or off |
| `gator` | no orphan, honest stop, every call returns, refinement of `AdapterContract` | 2 runs, `FairSpec` |
| `recorder` | rows conserved, honest exit code, refinement of `RecorderProcess`; a stop request ends the process as long as the stream takes everything | buffers of 2 rows, 7 samples, 1 stream error, `FairSpec` |
| `portal` | labels, listings and archives are worth what they say; a download ends | 2 sessions of 2 runs, 2 threads in 5 pairings, 3 requests, 1 fault, queue of 2, texts of two lengths |
| `algorithms` | eight promises of the functions, each over every input of a family | see `MCAlgorithms` |

The bounds and why they are enough:

- *Two runs in Session.* Every effect across runs (deferred exports, status of
  the series, a family left recording) needs one run after another; a third
  repeats the same pairs. Two interrupts put a second Ctrl+C into a handler,
  where it escapes `run`. One fault is what a handler can absorb.
- *Schedule.* Periods shorter than, equal to and longer than what a run takes,
  and three runs, so that a late run is followed by one that recovers.
- *Three runs, five recordings in EndaqAdapter.* An offload of two files, twice,
  beside an old recording, and a third run whose snapshot holds both leftovers
  and deletions.
- *Two-row buffers, seven samples.* Full, swapped, full again while the writer
  still holds the first (the callback waits), and a partial buffer at close.
  The code's buffers are larger; the proofs cover every capacity.
- *Two runs of GatorAdapter.* A queue and a reader that survive the first call
  meet the second.
- *Two threads and three requests in Portal.* Two renames overlap in every way
  and a third finds what they left; a listing and a download run beside a
  session that starts, records twice and ends or is killed. The texts of
  the labels (`MCTextSize`) differ in length, so that one is shorter than another. A queue of two fills with
  four files.
- *Algorithms.* The limits of the code (the buckets of a plot, 65536 events a
  chunk, the rows of a poll) are parameters there and are scaled down to 1 to 3,
  so that short inputs pass them; names have two parts, so that a suffix can
  collide; a file grows at any of six moments while three pages are read; a
  period of one and a half microseconds has a span and a step that round apart.

Deadlock is checked in `session`, `endaq`, `gator` and the violation runs of
the session, whose specifications say when they are over. It is not in
`recorder`, where a stream error really can block the process (see the
findings), in `schedule`, whose series ends, in `portal`, whose requests and
faults are bounded, and in `algorithms`, where a job is answered once.

**Fairness.** `Session`: the main thread runs and adapter calls return, since
each wait in the code has a deadline; nothing is assumed of the operator, of a
device that ends by itself, or of faults. `GatorRecorder`: the three threads
run; no sample and no signal is owed. `GatorAdapter`: the caller and the reader
run and SIGKILL works; the recorder itself owes nothing. `Portal`: the archive
thread and an accepted download go on, and the server takes chunks for a client
that stays; session processes, operators and clients owe nothing.

**Properties of several parts.** In `Algorithms` a property is a conjunction of
named parts, one per thing the callers rely on (`EnvelopeIsFaithful` is that
peaks are kept, the points fit and are in order, and long gaps are seen), and
each part has a mutant of its own.

### Where the code departs from what it says

Each is a run that must end in a violation of one property:

| Run | What the trace shows |
|---|---|
| `session_failed_start` | with `allow_partial`, a sensor that fails to start makes the run `failed`, not `partial` (session.py 421; manual, line 38) |
| `session_deferred_dropped` | a missed start under `abort` drops the deferred exports (session.py 175; design.md 42) |
| `session_ctrlc_leaves_recording` | Ctrl+C between the end of the window and the stop leaves sensors recording (session.py 353; manual, line 31) |
| `endaq_blind_stop` | with an empty snapshot `stop` does not recognise a recording that ended by itself (endaq.py 493; design.md 58-59) |
| `recorder_sigterm` | after a write error with a buffer pending, SIGTERM no longer releases `main` (main.cpp 83; comment at 180-182) |

Observations without a run of their own, which the models reproduce:

- *Session.* With `allow_partial`, a start of uncertain outcome gets no stop
  (session.py 331-336; design.md 59-60). Ctrl+C during processing leaves the
  run out of the manifest, its files in place (session.py 396). A second write
  that fails leaves a manifest that is not terminal (session.py 222; docstring
  at 117). The deferred export replaces the run's processing summary, so that
  it can cover another family's `incomplete` (session.py 512); the per-family
  status stays.
- *enDAQ adapter.* A copy that failed its comparison is exported (endaq.py
  99-106). The conversion error of one run stays in the result of the runs
  exported after it (128). The space check counts the window and the stop, not
  the start of the other family (564).
- *Portal.* Overlapping renames lose one of them or the whole label file, and a
  failed write loses it too (portal.py 224-231). A temporary manifest that is
  replaced between listing and look ends a request in an error 500 (91). A
  file that disappears during a download ends the archive early, with status
  200 and a valid central directory, where data-portal.md promises every file
  (app.py 99-103). The archive thread of a client that has gone waits on its
  full queue for ever (95). The folder in an archive and the name of the
  archive are read from the labels at two moments. data-portal.md says the API
  has only `GET` endpoints and that the page refreshes a status every five
  seconds; there is a `PUT`, and the page fetches once.
- *Preview.* Rows appended between the read of a page that was not full and the
  look for one more are promised (`has_more`), but the next offset lies behind
  them (portal.py 106-107, main.jsx 49): the reader never sees them.
- *Exporters and plots.* A channel whose first output cannot be opened leaves
  no signal and no failure (isa_export.py 390). Two signals with one alias are
  drawn from one file (plotting.py 135).
- *Windows recorder.* `START_UTC_US` is announced before the first row is
  written (main.cpp 229-242): after a failure the file may be empty, or end
  anywhere. A batch whose steps round up ends after its receipt, so that the
  next one, read at once, may begin before that; a backlog is dated into the
  past. The exporter keeps the order of the file and drops what is dated before
  its first row.
- *Configuration.* NaN passes validation (config.py 102). A mode or policy that
  is null ends in an `AttributeError` (config.py 78-79), a number of a wrong
  JSON type in a `TypeError`: exit status 1, where the manual has 2 for an
  invalid configuration (tbdaq-manual.md 86-91). `endaq-info` and `endaq-stop`
  with a disabled enDAQ raise a `ConfigError` in the second `try` of `main`,
  which returns 1 too. `ExitStatusIsTruthful` therefore promises 2 only for
  files whose values have their types. `"gator": null` is accepted by
  `session_config_from_mapping` and refused by the command line.
- *Storage.* Of two file systems mounted at one path the type that sorts last
  is taken, not the one on top (storage.py 78).
- *Preflight.* A channel whose sample rate cannot be read counts nothing in the
  estimate of the space a run needs (endaq.py 558).

## 4. What is proved

All proofs assume only the named assumptions on constants: bounds are natural
numbers, at least one run, at least one row per buffer, and, for `Algorithms`,
those on the jobs. Every safety invariant that a run checks is a theorem, and so
are the refinements.

- **SessionProofs**: `TypeCorrect`, `SuccessEarned`, `DispatchSafe`. That exit
  code 0 is earned is not inductive: it looks at the end only. `IInv` adds, per
  program point, which calls can be in flight (`CallsMatchPc`), when a recorder
  is known to be idle (`DevicesKnown`), what the record under construction
  stands for (`CurrentHonest`, `RunsHonest`) and that the goal `success` is set
  once, for a complete series (`SuccessDecided`, `StatusDecided`). Each action
  preserves each part; an interrupt or a fault at any point preserves them
  because success is decided after the last run and by nothing else.
  `DispatchSafe` follows from `CallsMatchPc` and `DevicesKnown`.
- **SessionRunsProofs**: `LeftRecordingExplained`, `InterruptEndsStarts`,
  `CompleteSeriesExported`, `UsableRunsWhole`, from a second invariant
  beside `IInv`: after Ctrl+C every point at which a run could begin is ruled
  out, because the flag or the local decides the status of the run
  (`InterruptHeeded`); only what started is stopped, so a run whose stops are
  all good has all its starts (`StopsMatchStarts`); a record that awaits its
  export is in the list of deferred runs, and a complete series has emptied it
  (`DeferredListed`, `ListEmptied`); and each fan-out accounts for every
  recorder that records (`DevicesExplained`, `LeftExplained`).
- **SessionRunsProofs**, second part: `ContractsKept`, the session's side of
  `AdapterContract`. Each step of the session is one of nine moves of an adapter
  or none (`Move`), by the phase that its call and its record give; the
  invariant says that the two agree (`CallsOfRun`), that the series goes on only
  from a run in which every start was stopped (`BetweenRuns`), and that an
  adapter at rest owes no stop (`DebtPaid`). With the two theorems `ContractKept`
  of the adapters, all three sides of the contract are proved.
- **GatorRecorderProofs**: `TypeCorrect`, `RowsAreConserved`, `OneSpaceWaiter`,
  `HonestExit`, `NoneAfterRelease`, and the refinement `ProcessKept`. The
  conservation of rows is inductive once
  `WriterState` says which buffer is empty at each point of the writer's cycle;
  the rest needs `Locking` (the mutex is held exactly inside `append`, and
  `main` is past its wait only after `_finished`), `Counting` and `Closing`
  (`close` hands over everything before it joins). The refinement `ProcessKept`
  adds `NothingYet`: before the first row there is nothing to write, so that the
  writer cannot fail, and only the last flush can make the exit code 7.
- **EndaqAdapterProofs**: `TypeCorrect`, `StartedIsMarked`,
  `FilesystemNeverTorn`, `OffloadExact`, and the refinements `CustodyKept` and
  `ContractKept`. The
  invariant ties the program point to the mount (`DeviceMatchesPc`), says that
  the snapshot is this run's whenever an offload may follow
  (`SnapshotIsOfThisRun`; a start that failed early keeps an older one, and is
  never stopped), that files come from their run under growing numbers
  (`FilesHaveOrigin`), and what the loop has verified and still holds
  (`OffloadInProgress`). The choice of the next file needs a least element,
  which rests on the library's well-foundedness of `<`.
- **GatorAdapterProofs**: `TypeCorrect`, `NoOrphanLeft`, `StopIsHonest`, and the
  refinement `ContractKept`. The
  delicate exit code is -15, which `stop` takes for clean: `TokenMeansReady` says a recorder
  that has printed the token has its handler, `TerminatedEarly` that the code
  then belongs to a start that timed out.

- **ScheduleProofs**: `TypeCorrect`, `WholeWindowsOnGrid`, `FeasibleSeries`, for
  every period, window, tolerance, late wait and amount of work. The invariant
  places each dispatch on the grid plus its lateness, ties the clock to the last
  record at each program point (`AtPoint`), and, for a feasible configuration,
  bounds every lateness by one late wait, because a run that started at most
  that late is over before the next place on the grid (`EndsInTime`). The
  product with the run number is confined to three lemmas on the grid.
- **PortalProofs**: `TypeCorrect`, `ListingCurrent`, `LabelsKept` and
  `ArchiveWhole`. For a listing, sessions
  follow one another (`SessionsInOrder`: no session begins before the older ones
  are over or dead, and a manifest is terminal before its process ends), so what
  a thread has read stays true to what was so when it began (`ReadingsHold`)
  until it answers from all of it (`ListingDone`). For the labels, `OneRename`:
  unless something disturbed it, one thread at a time rewrites the file, from
  the confirmed labels and its own, and the file holds the confirmed ones
  whenever it is not truncated. What two renames at a time destroy is left out
  of the theorem by `disturbed`, as it is out of the property. For the archive,
  `AInv` follows the chunks from hand to hand: one download at a time
  (`OneDownload`); what the producer has sent is with the client or in the queue,
  the end mark last (`Delivery`); and a file that was listed and left out was
  removed by hand or is the temporary manifest, while a session that was over
  stays as it was listed (`Explained`).
- **AlgorithmsProofs**: `FaithfulEnvelope`, `SoundReadings`, `ExportedDocument`,
  `ExportedRecording`, `SoundConfiguration`, `TruthfulExit`, `RequiredOutput`,
  `PreparedRecorder`: the eight promises of the functions, for every input. The
  invariant is that the job is a job and the answer one of its function's
  (`Computed`); the rest is about the operators. A fold of the community modules
  is the value, at the whole index set, of a function that its own equation
  defines by CHOOSE: that such a function exists is proved first (`FoldExists`,
  `LeftFoldExists`), then that the fold runs through its values one index at a
  time (`LeftFoldSteps`), and with it what the functions build: `Kept` picks the
  wanted elements in their order (`KeptPicks`), `FlattenSeq` joins its parts
  (`FlattenSteps`), `Aliases` gives new names (`AliasesAre`), `Chunks` are cut
  without loss (`ChunksJoin`), sums of weights are numbers (`WeightsAddUp`). For
  an envelope, the edges of the buckets ascend and leave no sample out however
  they are rounded (`EdgesAre`, `BucketOfSample`), and the points of a bucket
  keep its extremes (`BucketPointsAre`). For a document, each signal has a
  channel that owns it and tells what became of it (`Owned`), channel by
  channel; that as many signals succeed as the whole channels have subchannels
  is a sum over the owners (`OwnersAddUp`). For the exit status, a rule that
  cannot be evaluated has an earlier one that fails, unless a value of the file
  has a wrong type: the rules are taken in their order (`FirstBroken`,
  `TypedConfigsAreNamed`). For an option, that what `Override` lays over the
  file comes out of the defaults unchanged (`ConfiguredIs`,
  `SectionOverridden`). For the pages, row for row: a row up to the end is on
  its page, or that page was short when it was appended (`PageOfRow`,
  `PagesJoin`). For the Windows recorder, by induction over the polls, that
  every batch is held in what was handed over (`BatchesAreHeld`), that the
  first and last rows are those announced (`RecordingIs`), and, with the
  rounding of spans and steps bounded (`MicrosAre`), that a paced batch begins
  after the last row before it (`BatchFollows`, `PacedRowsAscend`). Induction is by hand, with a set of
  numbers that holds 0 and is closed under successors (`Successors`), and with
  the subsets of a finite set (`SubsetInduction`); both rest on the library's
  well-foundedness of `<`.

`ContractKept` in EndaqAdapterProofs needs one more invariant than the others,
`CallState`: which of the adapter's flags go with which phase of its calls. Three
theorems support properties that no run repeats: `OneSpaceWaiter` (the recorder
may use `notify_one`), `NoneAfterRelease` (`close` works on buffers nobody
appends to) and `StartedIsMarked` (the contract's
debt).

Only model-checked: liveness (`SessionEnds`, `CallsReturn`, `StopExits`,
`StreamEnds`), which rests on fairness and ENABLED and is out of the proof
system's reach. The library's induction theorems take a predicate as a
parameter, which none of the provers instantiates; that is why the inductions of
AlgorithmsProofs are stated with sets.

## 5. What is not modelled, and why

- Wording of messages, log files, colours, timings and metadata in the manifest.
- `describe()`, `stop_recording_and_remount`, `wait_for_natural_end`,
  `export_endaq_signals`: nothing in a session calls them. The first two serve
  `endaq-info` and `endaq-stop`, sequences of library calls that end in an exit
  status (which `SessionConfig` has).
- Command lines and device configuration of the native recorders, and their row
  format: one attempt each, whose failures are the exit codes in `RecorderProcess`.
- `write_signal_map`, figures and axes, the summaries printed at the end: layout.
- `plot` and `chart` of the portal index: app.py has no route to them, and
  nothing else calls them.
- Path checks of the portal, and the React page, whose only state is what it
  fetched last; the step of its preview is in `ReadPages`.
- Installation scripts, udev rules and containers are deployment; the models
  take from them that the recorder's partition is mounted at one fixed path when
  it appears.
- A restart after a crash of the Python process: the code has none. What a
  killed session leaves to its readers is in `Portal` (`SessionDies`).

## 6. Plan

1. `endaq-stop` as a caller of the adapter's recorder beside a session.
