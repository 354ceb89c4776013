----------------------------- MODULE Algorithms -----------------------------
(***************************************************************************)
(* The calls of the parts of TestbenchDAQ that compute one answer from one *)
(* input: a job is such a call with its input, and each action answers the *)
(* jobs of one function.  The properties compare the answer with what the  *)
(* callers, the manual and the docstrings expect of it.                    *)
(***************************************************************************)
EXTENDS Decimation, SignalExport, SessionConfig, OutputStorage, EndaqSetup, WindowsRecorder

\* The inputs, each a set of records with a "kind".
CONSTANTS EnvelopeJobs, PreviewJobs, SelectionJobs, GatorJobs, IdeJobs, ConfigJobs,
          MessageJobs, StorageJobs, AttachJobs, PrepareJobs, WindowsJobs

ASSUME KindsAssumption ==
  /\ \A j \in EnvelopeJobs : j.kind = "envelope"
  /\ \A j \in PreviewJobs : j.kind = "preview"
  /\ \A j \in SelectionJobs : j.kind = "selection"
  /\ \A j \in GatorJobs : j.kind = "gator"
  /\ \A j \in IdeJobs : j.kind = "ide"
  /\ \A j \in ConfigJobs : j.kind = "config"
  /\ \A j \in MessageJobs : j.kind = "messages"
  /\ \A j \in StorageJobs : j.kind = "storage"
  /\ \A j \in AttachJobs : j.kind = "attach"
  /\ \A j \in PrepareJobs : j.kind = "prepare"
  /\ \A j \in WindowsJobs : j.kind = "windows"

\* A file is an object, and its numbers may be anything; argparse has given the options
\* their types, and NaN is a number for it too.
ASSUME ConfigAssumption ==
  \A j \in ConfigJobs :
    /\ DOMAIN j.file = {"readable", "scalars", "gator", "endaq", "extra"}
    /\ \A section \in {j.file.gator, j.file.endaq} :
         section \in {Null, Absent, Wrong} \/ section \in Sections
    /\ \A key \in {"duration", "period"} :
         /\ key \in DOMAIN j.file.scalars => j.file.scalars[key] \in Numbers
         /\ j.options.scalars[key] \in Int \cup {Absent, NaN}
    /\ \A key \in ScalarKeys : j.options.scalars[key] \notin {Null, Wrong}
    /\ {j.options.gator, j.options.endaq}
         \subseteq [enabled : BOOLEAN \cup {Absent}, timeout : Int \cup {Absent, NaN}]

\* A mount point and a path are sequences of names.
ASSUME StorageAssumption ==
  \A j \in StorageJobs :
    /\ j.path \in Seq(STRING)
    /\ j.mounts \in Seq([point : Seq(STRING), type : {Types[i] : i \in 1 .. Len(Types)}])

ASSUME AttachAssumption == \A j \in AttachJobs : \A i \in 1 .. 2 : IsFiniteSet(j.mounted[i])

\* A rate that is read or asked for is a number; seconds and bytes are.
ASSUME PrepareAssumption ==
  \A j \in PrepareJobs :
    /\ IsFiniteSet(DOMAIN j.recorder.channels)
    /\ \A id \in DOMAIN j.recorder.channels :
         j.recorder.channels[id] \in [switch : {"self", "children", "none"}, on : BOOLEAN,
                                      rate : Nat \cup {Unset}, subs : Nat]
    /\ \A id \in DOMAIN j.config.requested : j.config.requested[id].rate \in Nat \cup {Unset}
    /\ j.free \in Nat /\ j.config.minimumFree \in Nat /\ j.config.remountTimeout \in Nat
    /\ j.config.duration \in Nat \cup {Unset}

\* A plot has at least 100 points; only the edges that fall on a sample can fall short.
ASSUME EnvelopeAssumption ==
  \A j \in EnvelopeJobs :
    /\ j.values \in Seq(Int \cup {Gap}) /\ j.maxPoints \in Nat \ {0, 1}
    /\ j.short \subseteq ExactEdges(Len(j.values), Buckets(j.maxPoints))

\* A file only grows, between two pages and while one is read.
ASSUME PreviewAssumption ==
  \A j \in PreviewJobs :
    /\ j.reads \in Seq([length : Nat, later : Nat]) /\ j.reads # <<>> /\ j.limit \in Nat \ {0}
    /\ \A i \in 1 .. Len(j.reads) : j.reads[i].length <= j.reads[i].later
    /\ \A a, b \in 1 .. Len(j.reads) : a < b => j.reads[a].later <= j.reads[b].length

\* A file is named after its signal; which folder it is in, a moved session forgets.
ASSUME SelectionAssumption ==
  \A j \in SelectionJobs :
    /\ j.signals \in Seq(Range(j.signals))
    /\ \A i \in 1 .. Len(j.signals) : j.signals[i].path.alias = j.signals[i].alias
    /\ j.files \subseteq {s.path : s \in Range(j.signals)}

\* A timestamp is a number of microseconds, or no number; a window has a duration.
ASSUME GatorAssumption ==
  \A j \in GatorJobs :
    /\ j.csv.times \in Seq(Int \cup {Invalid}) /\ Len(j.csv.columns) \in Nat
    /\ j.duration \in Nat \cup {NoWindow}

\* A channel that is visible has a subchannel that is, and its events are in the order of
\* the recorder's clock.
ASSUME IdeAssumption ==
  \A j \in IdeJobs :
    /\ j.channels \in Seq([name : Seq(Nat) \ {<<>>}, subs : Seq(Seq(Nat)),
                          visible : BOOLEAN, events : Seq(Int)])
    /\ j.size \in Nat \ {0}
    /\ \A i \in 1 .. Len(j.channels) :
         LET c == j.channels[i]
         IN  /\ c.visible => c.subs # <<>>
             /\ \A k, l \in 1 .. Len(c.events) : k <= l => c.events[k] <= c.events[l]
    /\ \A i \in 1 .. Len(Recorded(j.channels)) :
         j.faults[i] \in Faults(Recorded(j.channels)[i], j.size)

ASSUME WindowsAssumption ==
  \A j \in WindowsJobs :
    /\ j.polls \in Seq([count : Int, clock : Nat, writeFails : BOOLEAN])
    /\ j.duration \in Nat \ {NoWindow} /\ j.kept \in Nat

VARIABLES job, answer

vars == <<job, answer>>

Waiting == [done |-> FALSE]

Init ==
  /\ \/ job \in EnvelopeJobs \/ job \in PreviewJobs \/ job \in SelectionJobs
     \/ job \in GatorJobs \/ job \in IdeJobs \/ job \in ConfigJobs \/ job \in MessageJobs
     \/ job \in StorageJobs \/ job \in AttachJobs \/ job \in PrepareJobs \/ job \in WindowsJobs
  /\ answer = Waiting

Answer(kind, value) ==
  /\ answer = Waiting /\ job.kind = kind
  /\ answer' = [done |-> TRUE, value |-> value]
  /\ UNCHANGED job

\* _read_signal.
Drawn(values, zeroAsGap) == IF zeroAsGap THEN ZeroAsGap(values) ELSE values
ReadSignal ==
  /\ job.kind = "envelope"
  /\ Answer("envelope",
       DownsampleEnvelope(Drawn(job.values, job.zeroAsGap), job.maxPoints, job.short))

\* A reader that turns the pages while the file grows: as long as another one is
\* promised, the offset goes on by the limit (src/portal/web/src/main.jsx:49).
ReadPages ==
  /\ job.kind = "preview"
  /\ LET page(i) == CsvPreview(job.reads[i].length, job.reads[i].later,
                               (i - 1) * job.limit, job.limit)
         read == {i \in 1 .. Len(job.reads) : \A j \in 1 .. i - 1 : page(j).hasMore}
     IN  Answer("preview", [i \in 1 .. Cardinality(read) |-> page(i)])

SelectFiles ==
  /\ job.kind = "selection"
  /\ \E selection \in ManifestSignals(job.signals, job.files, job.moved) :
       Answer("selection", selection)

ExportGator ==
  /\ job.kind = "gator"
  /\ Answer("gator", ExportGatorSignals(job.csv, job.duration, job.unwritable))

ExportIde ==
  /\ job.kind = "ide"
  /\ Answer("ide", ExportIdeSignals(job.channels, job.readable, job.faults, job.size))

Configure ==
  /\ job.kind = "config"
  /\ LET built == BuildConfig(job.file, job.options)
     IN  Answer("config", [built |-> built, exit |-> Main(built, job.action, job.end)])

ShowMessages ==
  /\ job.kind = "messages"
  /\ Answer("messages", ShownErrors(job.errors, job.reason, job.generic))

CheckStorage ==
  /\ job.kind = "storage"
  /\ Answer("storage", ValidateOutputStorage(job.path, job.isDirectory, job.mounts,
                                             job.allowLocal, job.faults))

\* discover(), and later a start, possibly with other recorders mounted.
AttachTwice ==
  /\ job.kind = "attach"
  /\ Answer("attach", [i \in 1 .. 2 |-> Attached(job.mounted[i], job.config)])

PrepareRecorder ==
  /\ job.kind = "prepare"
  /\ Answer("prepare", Discover(job.recorder, job.config, job.free, job.clockSet))

\* A recording, and the export of the file it leaves.
RecordOnWindows ==
  /\ job.kind = "windows"
  /\ LET recording == Record(job.polls, job.faults, job.kept)
     IN  Answer("windows", [recording |-> recording,
                            export |-> GatorSamples(recording.file, job.duration)])

Next == \/ ReadSignal \/ ReadPages \/ SelectFiles \/ ExportGator \/ ExportIde
        \/ Configure \/ ShowMessages \/ CheckStorage \/ AttachTwice \/ PrepareRecorder
        \/ RecordOnWindows

Spec == Init /\ [][Next]_vars

Answered(kind) == answer.done /\ job.kind = kind

----------------------------------------------------------------------------
(* Looking at a signal. *)

\* plotting.py:24-51, "display decimation preserves peaks".  The least and the greatest
\* number of a signal are drawn, wherever they lie in their bucket and however the
\* edges of the buckets are rounded.
EnvelopeKeepsPeaks ==
  Answered("envelope") =>
    LET values == Drawn(job.values, job.zeroAsGap)
        finite == {k \in 1 .. Len(values) : values[k] # Gap}
        shown  == {values[k] : k \in Range(answer.value) \cap finite}
    IN  finite # {} => /\ shown # {}
                       /\ Max(shown) = Max({values[k] : k \in finite})
                       /\ Min(shown) = Min({values[k] : k \in finite})

\* plotting.py:33-51.  The drawing has no more points than were asked for, each of them
\* once and in the order of time.
EnvelopeFitsInOrder ==
  Answered("envelope") =>
    /\ Len(answer.value) <= job.maxPoints
    /\ \A i \in 1 .. Len(answer.value) - 1 : answer.value[i] < answer.value[i + 1]

\* plotting.py:40-42, 83-84.  A gap that is long enough to hold a whole bucket, wherever
\* it begins, is seen as a gap: the line is not drawn through it.
LongGapsAreDrawn ==
  Answered("envelope") =>
    LET values == Drawn(job.values, job.zeroAsGap)
        width  == Len(values) \div Buckets(job.maxPoints) + 2
    IN  \A first \in 1 .. Len(values) - 2 * width + 2 :
          (\A k \in first .. first + 2 * width - 2 : values[k] = Gap)
            => \E i \in 1 .. Len(answer.value) : values[answer.value[i]] = Gap

\* plotting.py:24-51.  The drawing of a signal is its envelope: it fits the plot, keeps the
\* peaks, and shows the long gaps.
EnvelopeIsFaithful == EnvelopeKeepsPeaks /\ EnvelopeFitsInOrder /\ LongGapsAreDrawn

\* portal.py:95-110, main.jsx:49.  The pages of a file that is still written show each
\* row in its place, and a full page promises only a page that has rows.  A reader who
\* is promised no more has seen the file as it then was, but for one thing: rows that
\* were appended while a page that was not full was being read.  Such a page promises
\* another one, and the next offset lies behind them.
PagesAreSound ==
  Answered("preview") =>
    LET pages == answer.value
        full(i)  == Len(pages[i].rows) = job.limit
        place(i) == (i - 1) * job.limit
        shown(row) == \E i \in 1 .. Len(pages) :
                        \E k \in 1 .. Len(pages[i].rows) : pages[i].rows[k] = row
        passedOver(row) ==
          \E i \in 1 .. Len(pages) - 1 :
            /\ job.reads[i].length < job.reads[i].later
            /\ place(i) + Len(pages[i].rows) < row /\ row <= place(i) + job.limit
    IN  /\ \A i \in 1 .. Len(pages) : \A k \in 1 .. Len(pages[i].rows) :
             pages[i].rows[k] = place(i) + k
        /\ \A i \in 1 .. Len(pages) - 1 : full(i) => pages[i + 1].rows # <<>>
        /\ ~Last(pages).hasMore =>
             \A row \in 1 .. job.reads[Len(pages)].later : shown(row) \/ passedOver(row)

\* plotting.py:112-145.  In a run whose signals have distinct names, each trace is drawn
\* from the file of its own signal, also when the session has been moved, and no
\* successful signal whose file is there is left out.
PlottedFileIsTheSignals ==
  Answered("selection") =>
    LET there == Kept(job.signals, {i \in 1 .. Len(job.signals) :
                                      /\ job.signals[i].status = "success"
                                      /\ job.signals[i].path \in job.files})
    IN  (\A i, j \in 1 .. Len(job.signals) :
           job.signals[i].alias = job.signals[j].alias => i = j)
          => answer.value = [i \in 1 .. Len(there) |-> there[i].path]

\* portal.py:95-110, plotting.py:112-145.  What a reader is shown of a file that is still
\* written is in its place and complete, but for the rows the property names, and what is
\* drawn of a session that has been moved comes from the file of each signal.
ReadingsAreSound == PagesAreSound /\ PlottedFileIsTheSignals

----------------------------------------------------------------------------
(* Exporting signals. *)

\* isa_export.py:100-133.  All the signals of a Gator run hold the same samples: they
\* begin at zero, stay in the window, and when the timestamps are in order they are
\* every sample up to its end.
GatorSignalsAgree ==
  Answered("gator") =>
    LET good == {i \in 1 .. Len(answer.value) : answer.value[i].status = "success"}
        relative(k) == job.csv.times[k] - job.csv.times[1]
        ordered == \A j, k \in 1 .. Len(job.csv.times) :
                     j <= k => job.csv.times[j] <= job.csv.times[k]
    IN  \A i \in good :
          LET written == answer.value[i].written
          IN  /\ \A j \in good : answer.value[j].written = written
              /\ written # <<>> /\ written[1] = 0
              /\ \A k \in 1 .. Len(written) :
                   job.duration # NoWindow => written[k] \in 0 .. job.duration
              /\ ordered => \A k \in 1 .. Len(job.csv.times) :
                   job.duration = NoWindow \/ relative(k) <= job.duration
                     => k <= Len(written) /\ written[k] = relative(k)

IdeResults == {i \in 1 .. Len(answer.value) : answer.value[i] # SourceFailed}
ChannelsExported == Recorded(job.channels)

\* isa_export.py:350-372, 448-455.  No two signals of a document are written to the same
\* file, whatever their channels and subchannels are called and whichever outputs fail.
SignalsHaveOwnFiles ==
  Answered("ide") =>
    \A i, j \in IdeResults : answer.value[i].alias = answer.value[j].alias => i = j

\* isa_export.py:252-263, 340-389.  A successful export is complete: every subchannel of
\* every channel that recorded something has one signal with all of its events, dated
\* from the first event of the whole document.
SuccessIsComplete ==
  Answered("ide") /\ IdeResults # {} =>
    LET first == Min(UNION {Range(ChannelsExported[i].events) : i \in 1 .. Len(ChannelsExported)})
        dated(c) == [k \in 1 .. Len(c.events) |-> c.events[k] - first]
    IN  /\ \A i \in IdeResults : answer.value[i].status = "success" =>
             \E c \in Range(ChannelsExported) : answer.value[i].written = dated(c)
        /\ (\A i \in 1 .. Len(ChannelsExported) : job.faults[i].at = "none") =>
             \A c \in Range(ChannelsExported) :
               Cardinality({i \in IdeResults : answer.value[i].written = dated(c)})
                 >= Len(c.subs)

\* isa_export.py:390-401.  A channel that fails is not passed over in silence: it has
\* failed signals and no successful one.  The exception is a channel whose very first
\* output cannot be opened, which leaves no signal at all.
FailedChannelIsReported ==
  Answered("ide") /\ IdeResults # {} =>
    LET faulty == {i \in 1 .. Len(ChannelsExported) : job.faults[i].at # "none"}
        silent == {i \in faulty : job.faults[i] = [at |-> "open", n |-> 1]}
        reported == {i \in IdeResults : answer.value[i].status = "failed"}
        whole == {i \in 1 .. Len(ChannelsExported) : i \notin faulty}
    IN  /\ faulty \ silent # {} => reported # {}
        /\ Cardinality(IdeResults \ reported)
             = FoldSet(LAMBDA i, n : n + Len(ChannelsExported[i].subs), 0, whole)

\* isa_export.py:252-401.  The export of a document is complete or says it is not: a
\* file for each signal, all of its events in it, and no failure passed over but that of
\* a channel whose first output cannot be opened.
DocumentIsExported == SignalsHaveOwnFiles /\ SuccessIsComplete /\ FailedChannelIsReported

----------------------------------------------------------------------------
(* Configuring a session. *)

Accepted == answer.value.built.outcome = "accepted"
Config == answer.value.built.config

\* config.py:95-122.  A configuration that is accepted is one the schedule assumes: a
\* diagnostic session has one run, a prognostic one a window and a period that holds it,
\* and there is a sensor.  NaN, which no comparison refuses, is the exception.
AcceptedConfigsRun ==
  Answered("config") /\ Accepted =>
    /\ Config.runCount = Null \/ Config.runCount >= 1
    /\ Config.mode = "diagnostic" => Config.runCount = 1
    /\ Config.mode = "prognostic" /\ NaN \notin {Config.duration, Config.period} =>
         Config.duration > 0 /\ Config.period >= Config.duration
    /\ Config.gator.enabled \/ Config.endaq.enabled

\* tbdaq-manual.md:11, __main__.py:119-168.  "A supplied command-line value overrides
\* only the matching JSON setting": a session runs with the options, and with the file,
\* or the default, where no option is given, in its sections too, there or not.
OptionsOverrideOnlyTheirs ==
  Answered("config") /\ Accepted =>
    LET overrides(config, section, option) ==
          /\ config.enabled = Either(option.enabled, Section(section).enabled)
          /\ config.timeout = Either(option.timeout, Section(section).timeout)
          /\ config.rates = Section(section).rates
    IN  /\ \A key \in ScalarKeys :
             Config[key] = IF key = "duration" /\ job.options.manual THEN Null
                           ELSE IF key = "runCount" /\ job.options.untilStopped THEN Null
                           ELSE Either(job.options.scalars[key], Given(job.file, key))
        /\ overrides(Config.gator, job.file.gator, job.options.gator)
        /\ overrides(Config.endaq, job.file.endaq, job.options.endaq)

\* config.py:77-170, __main__.py:108-170.  The configuration a session runs with is the one
\* the file and the options ask for, and one it can run with.
ConfigurationIsSound == AcceptedConfigsRun /\ OptionsOverrideOnlyTheirs

\* The values of a file have the types of their fields.  (A run count that has not is
\* refused by a rule of its own.)
WellTyped(file) ==
  /\ \A key \in DOMAIN file.scalars \ {"runCount"} :
       /\ file.scalars[key] # Wrong
       /\ file.scalars[key] = Null => key \in {"duration", "period"}
  /\ \A section \in {file.gator, file.endaq} \ {Null, Absent, Wrong} :
       IsNumber(section.timeout) /\ Wrong \notin Range(section.rates)

\* tbdaq-manual.md:86-91, __main__.py:292-356, config.py:77-170.  Status 0 is returned for
\* a successful session or inspection only, and 2 only for a configuration that was
\* refused.  Every configuration that is refused ends with 2, and so names its setting,
\* as long as the values of the file have their types: no rule is reached that a null,
\* a NaN or a missing value, each allowed where it stands, makes it impossible to apply.
ExitStatusIsTruthful ==
  Answered("config") =>
    /\ answer.value.exit = 0 =>
         /\ Accepted
         /\ job.action = "run" => job.end = "success"
         /\ job.action \in {"endaq-info", "endaq-stop"} =>
              Config.endaq.enabled /\ job.end \notin {"exception", "KeyboardInterrupt"}
    /\ answer.value.exit = 2 => ~Accepted
    /\ ~Accepted /\ WellTyped(job.file) => answer.value.exit = 2

\* __main__.py:72-92.  A session with a reason for its end shows one; a generic reason
\* gives way only to the reasons of the runs.
FailureIsExplained ==
  Answered("messages") /\ (job.errors # {} \/ job.reason # Null) =>
    answer.value # {}

\* __main__.py:72-92, 292-356.  The exit status of a command is true, and a failure that
\* has a reason shows it.
ExitIsTruthful == ExitStatusIsTruthful /\ FailureIsExplained

----------------------------------------------------------------------------
(* Output storage. *)

\* storage.py:42-49, 62-79.  A session that is accepted without --allow-local-output
\* writes to NFS by one of the deepest mounts of its path.  Of several file systems
\* stacked at one mount point the check takes the last by name, which need not be the one
\* that was mounted last: there the property says no more than the code does.
AcceptedOutputIsOnNfs ==
  Answered("storage") /\ answer.value.accepted /\ ~job.allowLocal =>
    LET containing == {i \in 1 .. Len(job.mounts) : IsPrefix(job.mounts[i].point, job.path)}
        deepest == {i \in containing : \A j \in containing :
                      Len(job.mounts[i].point) >= Len(job.mounts[j].point)}
    IN  deepest # {} /\ \E i \in deepest : job.mounts[i].type \in {"nfs", "nfs4"}

\* storage.py:45-50, 91-101.  The probe is written to accepted storage only, and remains
\* there only when it cannot be removed at all.
ProbeIsRemoved ==
  Answered("storage") =>
    /\ answer.value.left => answer.value.probed /\ "unlinkAgain" \in job.faults
    /\ answer.value.accepted => ~answer.value.left

\* storage.py:25-101.  Storage that is accepted is what the manual asks for, and the check
\* leaves nothing behind on it.
OutputIsAsRequired == AcceptedOutputIsOnNfs /\ ProbeIsRemoved

----------------------------------------------------------------------------
(* Preparing a recorder. *)

\* endaq.py:323-382.  With a serial number configured, the recorder that is started is
\* the one that was prepared, whatever has been plugged in or out in between; and of
\* several that fit none is taken.
SerialPinsTheRecorder ==
  Answered("attach") =>
    /\ job.config.serial # Unset /\ answer.value[1] # Unset /\ answer.value[2] # Unset =>
         answer.value[1].serial = answer.value[2].serial
    /\ \A i \in 1 .. 2 : answer.value[i] # Unset =>
         {d \in job.mounted[i] : /\ job.config.serial \in {Unset, d.serial}
                                 /\ job.config.model \in {Unset, d.model}
                                 /\ job.config.path \in {Unset, d.path}} = {answer.value[i]}

\* endaq.py:141-154, 504-580.  A recorder that passes the preflight of a timed run cannot
\* be filled by it: as the settings have left it, its channels write no more until the
\* stop, which may come as late as the remount timeout allows, than leaves the minimum
\* free.  What they write is the code's own estimate, in which a channel whose rate
\* cannot be read (558) counts for nothing.  What the configuration omits is as before.
PreparedRecorderFits ==
  Answered("prepare") =>
    LET prepared == answer.value.recorder
        omitted(id) == id \notin DOMAIN job.config.requested
                         \/ job.config.requested[id].enabled = Unset
    IN  /\ ~answer.value.error /\ job.config.duration # Unset /\ job.config.estimate = Unset =>
             \A stopped \in 0 .. job.config.remountTimeout :
               job.free - Total(prepared) * (job.config.duration + stopped)
                 >= job.config.minimumFree
        /\ \A id \in DOMAIN prepared.channels :
             omitted(id) => prepared.channels[id].on = job.recorder.channels[id].on
        /\ job.config.timeLimit = Unset => prepared.timeLimit = job.recorder.timeLimit

\* endaq.py:141-154, 313-382.  The recorder of a run is the one that was prepared, and what
\* it was prepared for fits on it.
PreparedRecorderIsUsed == SerialPinsTheRecorder /\ PreparedRecorderFits

----------------------------------------------------------------------------
(* Recording on Windows. *)

\* main.cpp:197-258.  The announced start is that of the file, also when the stream fails
\* after it was announced, unless nothing reached the file; an announced end vouches for
\* the whole recording: it is that of the file, and the file holds every batch that the
\* driver returned.  A recorder that exits with 0 has announced its end.
TokensDescribeTheFile ==
  Answered("windows") =>
    LET r == answer.value.recording
        holds(batch) == \E at \in 0 .. Len(r.file) - Len(batch) :
                          \A k \in 1 .. Len(batch) : r.file[at + k] = batch[k]
    IN  /\ r.file # <<>> => r.start = r.file[1]
        /\ r.last # NoTime =>
             /\ r.file # <<>> /\ r.last = Last(r.file)
             /\ \A i \in 1 .. Len(job.polls) :
                  job.polls[i].count > 0 => holds(Batch(job.polls[i]))
        /\ r.exit = 0 => r.last # NoTime

\* main.cpp:215-240, isa_export.py:89-101.  When a batch is read no sooner than its rows
\* have been sampled after the one before it, the export of the file loses no sample of
\* the window and keeps their order; a backlog is dated into the past and may be lost.
\* The steps of a batch are rounded up or down while its span is rounded once: its last
\* row may be dated behind its receipt, and the next batch has to leave room for that.
\* The clock's zero is long past.
PacedRecordingIsExported ==
  Answered("windows") =>
    LET read == {i \in 1 .. Len(job.polls) : job.polls[i].count > 0}
        span(i) == Micros(job.polls[i].count - 1)
        behind(i) == Max({0, (job.polls[i].count - 1) * Micros(1) - span(i)})
        paced == /\ \A i \in read : job.polls[i].clock >= span(i)
                 /\ \A i, j \in read : i < j =>
                      job.polls[j].clock >= job.polls[i].clock + behind(i) + span(j) + Micros(1)
        file   == answer.value.recording.file
        export == answer.value.export
    IN  file # <<>> /\ paced =>
          /\ \A k \in 1 .. Len(export) - 1 : export[k] < export[k + 1]
          /\ Len(export) = Cardinality({k \in 1 .. Len(file) :
                                          file[k] - file[1] <= job.duration})

\* isa_export.py:89-133, windows/main.cpp:197-247.  What the recorder has written is what
\* it announces and what the signals of its export hold.
RecordingIsExported == GatorSignalsAgree /\ TokensDescribeTheFile /\ PacedRecordingIsExported
=============================================================================
