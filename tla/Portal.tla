------------------------------- MODULE Portal -------------------------------
(***************************************************************************)
(* The data portal over one machine's sessions: src/tbdaq/portal.py (the   *)
(* session index) and src/portal/api/app.py (the HTTP routes, each request *)
(* served by a thread of its own), beside the session processes that write *)
(* the directories it reads.  Requests rename a session, list the sessions *)
(* or download one session as an archive.  Nothing is locked: the label    *)
(* file of the machine is read and rewritten by any thread, manifests are  *)
(* replaced and files appear while a request is being answered.            *)
(***************************************************************************)
EXTENDS Naturals, Sequences, FiniteSets, FiniteSetsExt

CONSTANTS NumSessions,   \* sessions of the machine, numbered in start order
          MaxRuns,       \* bound: runs a live session records
          Label,         \* display names an operator may give
          NoLabel,       \* a session without a display name
          TextSize,      \* TextSize[labels]: characters of the JSON text of labels
          Thread,        \* request threads of the server
          Scenarios,     \* bound: what each thread serves, which sessions run
          MaxRequests,   \* bound: requests of a behaviour, one download among them
          MaxFaults,     \* bound: failed label writes and deleted files
          QueueSize      \* app.py:95, maxsize

Session == 1 .. NumSessions
\* The files of a session in the order of their paths: one per run, then
\* session_manifest.json, then session_manifest.json.tmp.
Manifest  == MaxRuns + 1
Temporary == MaxRuns + 2
Files     == 1 .. Temporary
Directory == 0     \* the central directory that closes a ZIP archive
EndMark   == MaxRuns + 3     \* the None after the last chunk
Chunks    == Files \cup {Directory, EndMark}

Labels   == [Session -> Label \cup {NoLabel}]
NoLabels == [s \in Session |-> NoLabel]

ASSUME PortalAssumption ==
  /\ NumSessions \in Nat \ {0} /\ MaxRuns \in Nat /\ MaxRequests \in Nat
  /\ MaxFaults \in Nat /\ QueueSize \in Nat \ {0}
  /\ NoLabel \notin Label /\ TextSize \in [Labels -> Nat \ {0}]
  /\ Scenarios \subseteq
       [work : [Thread -> {"rename", "list", "download", "none"}], live : SUBSET Session]

VARIABLES
  scenario,
  proc,      \* proc[s]: "none", "alive", "over" or "dead" (killed)
  mem,       \* mem[s]: status and number of runs of the manifest in memory
  disk,      \* disk[s]: the same of session_manifest.json
  files,     \* files[s]: the files of the session directory
  labelFile, \* the machine's label file: kind, labels and size
  pc, job,   \* pc[t], job[t]: where thread t is and what it was asked
  view,      \* view[t]: the labels t read last
  todo,      \* todo[t]: the session directories a listing has still to read
  shown,     \* shown[t]: the status t has read of each session
  before,    \* history, before[t]: sessions over, and running, when t began
  active,    \* active[t]: the session the last listing of t called active
  archive,   \* the download: files listed and left, queue, client, producer
  confirmed, \* history: the labels of the renames answered with success
  disturbed, \* history: two renames overlapped, or a label write failed
  removed,   \* history: files deleted by hand
  requests, faults

sessionVars == <<proc, mem, disk, files>>
labelVars   == <<labelFile, confirmed, disturbed>>
listVars    == <<todo, shown, before, active>>
boundVars   == <<requests, faults>>
vars == <<scenario, sessionVars, labelVars, pc, job, view, listVars, archive,
          removed, boundVars>>

Terminal == {"success", "failed"}
Statuses == {"initializing", "running"} \cup Terminal

\* _labels(): a missing file and one that does not parse are no labels.
Parsed(file) == IF file.kind = "whole" THEN file.labels ELSE NoLabels

\* Mutant: the file is opened without truncation.
TruncatedNever == labelFile

\* path.write_text truncates when it opens and writes at its own offset 0: the
\* tail of a longer text that another thread wrote in between stays behind it.
Truncated == [kind |-> "empty", labels |-> NoLabels, size |-> 0]
Overlaid(file, labels) ==
  IF file.size = 0 \/ TextSize[labels] >= file.size
  THEN [kind |-> "whole", labels |-> labels, size |-> TextSize[labels]]
  ELSE [kind |-> "torn", labels |-> NoLabels, size |-> file.size]

NoArchive == [session |-> 1, pc |-> "none", listed |-> {}, left |-> {}, open |-> FALSE,
              queue |-> <<>>, client |-> "none", got |-> {}, wasOver |-> FALSE]
NoJob == [session |-> 1, label |-> NoLabel]

Init ==
  /\ scenario \in Scenarios
  /\ proc = [s \in Session |-> IF s \in scenario.live THEN "none" ELSE "over"]
  /\ mem = [s \in Session |-> [status |-> IF s \in scenario.live THEN "initializing"
                                                                   ELSE "success",
                               runs   |-> IF s \in scenario.live THEN 0 ELSE MaxRuns]]
  /\ disk = mem
  /\ files = [s \in Session |-> IF s \in scenario.live THEN {} ELSE 1 .. Manifest]
  /\ labelFile = [kind |-> "missing", labels |-> NoLabels, size |-> 0]
  /\ pc = [t \in Thread |-> "idle"]
  /\ job = [t \in Thread |-> NoJob]
  /\ view = [t \in Thread |-> NoLabels]
  /\ todo = [t \in Thread |-> {}]
  /\ shown = [t \in Thread |-> [s \in Session |-> "none"]]
  /\ before = [t \in Thread |-> [over |-> {}, running |-> {}]]
  /\ active = [t \in Thread |-> 0]
  /\ archive = NoArchive
  /\ confirmed = NoLabels /\ disturbed = FALSE /\ removed = {}
  /\ requests = 0 /\ faults = 0

----------------------------------------------------------------------------
(* The session processes: one at a time on the machine. *)

portalVars == <<scenario, labelVars, pc, job, view, listVars, archive, removed, boundVars>>

SessionStarts(s) ==
  /\ proc[s] = "none"
  /\ \A r \in Session : r < s => proc[r] \in {"over", "dead"}
  /\ proc' = [proc EXCEPT ![s] = "alive"]
  /\ UNCHANGED <<mem, disk, files, portalVars>>

\* The raw and signal files of the next run.
RunLeavesFiles(s) ==
  /\ proc[s] = "alive" /\ disk[s].status = "running" /\ mem[s].runs < MaxRuns
  /\ mem[s].runs + 1 \notin files[s]
  /\ files' = [files EXCEPT ![s] = @ \cup {mem[s].runs + 1}]
  /\ UNCHANGED <<proc, mem, disk, portalVars>>

\* _set_live_status and the first half of _write_manifest: the manifest in
\* memory changes and is written to the temporary file.
NextManifests(s) ==
  LET m == mem[s] IN
    IF Manifest \notin files[s] THEN {m}
    ELSE CASE m.status = "initializing" -> {[m EXCEPT !.status = "running"],
                                            [m EXCEPT !.status = "failed"]}
           [] m.status = "running" /\ m.runs < MaxRuns /\ m.runs + 1 \in files[s] ->
                {[m EXCEPT !.runs = @ + 1]}
           [] OTHER -> {[m EXCEPT !.status = st] : st \in Terminal}

WriteTemporary(s) ==
  /\ proc[s] = "alive" /\ Temporary \notin files[s]
  /\ mem[s].status \notin Terminal
  /\ \E m \in NextManifests(s) : mem' = [mem EXCEPT ![s] = m]
  /\ files' = [files EXCEPT ![s] = @ \cup {Temporary}]
  /\ UNCHANGED <<proc, disk, portalVars>>

\* Mutant: the terminal manifest is left in the temporary file.
ReplaceForgotten(s) ==
  /\ proc[s] = "alive" /\ Temporary \in files[s]
  /\ disk' = [disk EXCEPT ![s] = IF mem[s].status \in Terminal THEN @ ELSE mem[s]]
  /\ files' = [files EXCEPT ![s] = (@ \ {Temporary}) \cup {Manifest}]
  /\ proc' = [proc EXCEPT ![s] = IF mem[s].status \in Terminal THEN "over" ELSE @]
  /\ UNCHANGED <<mem, portalVars>>

\* The second half: the replacement is atomic.  A terminal manifest is the
\* last thing the process writes.
ReplaceManifest(s) ==
  /\ proc[s] = "alive" /\ Temporary \in files[s]
  /\ disk' = [disk EXCEPT ![s] = mem[s]]
  /\ files' = [files EXCEPT ![s] = (@ \ {Temporary}) \cup {Manifest}]
  /\ proc' = [proc EXCEPT ![s] = IF mem[s].status \in Terminal THEN "over" ELSE @]
  /\ UNCHANGED <<mem, portalVars>>

\* The process is killed or the machine loses power.
SessionDies(s) ==
  /\ proc[s] = "alive"
  /\ proc' = [proc EXCEPT ![s] = "dead"]
  /\ UNCHANGED <<mem, disk, files, portalVars>>

----------------------------------------------------------------------------
(* Requests. *)

Listed(s) == Manifest \in files[s]
Exists(s) == proc[s] # "none"

Begin(t, kind, s, next) ==
  /\ pc[t] = "idle" /\ scenario.work[t] = kind
  /\ requests < MaxRequests /\ requests' = requests + 1
  /\ Exists(s)
  /\ pc' = [pc EXCEPT ![t] = next]

ThreadDone(t) == pc' = [pc EXCEPT ![t] = "idle"] /\ job' = [job EXCEPT ![t] = NoJob]

(* rename() *)
AskRename(t, s, l) ==
  /\ Begin(t, "rename", s, "readLabels")
  /\ job' = [job EXCEPT ![t] = [session |-> s, label |-> l]]
  /\ UNCHANGED <<scenario, sessionVars, labelFile, confirmed, disturbed, view, listVars,
                 archive, removed, faults>>

Renaming == {t \in Thread : pc[t] \in {"openLabels", "writeLabels"}}

ReadLabels(t) ==
  /\ pc[t] = "readLabels"
  /\ view' = [view EXCEPT ![t] = [Parsed(labelFile) EXCEPT ![job[t].session] = job[t].label]]
  /\ disturbed' = (disturbed \/ Renaming # {})
  /\ pc' = [pc EXCEPT ![t] = "openLabels"]
  /\ UNCHANGED <<scenario, sessionVars, labelFile, confirmed, job, listVars,
                 archive, removed, boundVars>>

OpenLabels(t) ==
  /\ pc[t] = "openLabels"
  /\ labelFile' = Truncated
  /\ pc' = [pc EXCEPT ![t] = "writeLabels"]
  /\ UNCHANGED <<scenario, sessionVars, confirmed, disturbed, job, view, listVars,
                 archive, removed, boundVars>>

WriteLabels(t) ==
  /\ pc[t] = "writeLabels"
  /\ labelFile' = Overlaid(labelFile, view[t])
  /\ confirmed' = [confirmed EXCEPT ![job[t].session] = job[t].label]
  /\ pc' = [pc EXCEPT ![t] = "answerRename"]
  /\ UNCHANGED <<scenario, sessionVars, disturbed, job, view, listVars,
                 archive, removed, boundVars>>

\* The open or the write raises OSError; a failed write leaves what it wrote.
LabelWriteFails(t) ==
  /\ pc[t] \in {"openLabels", "writeLabels"} /\ faults < MaxFaults
  /\ faults' = faults + 1
  /\ \E written \in 0 .. TextSize[view[t]] - 1 :
       /\ pc[t] = "openLabels" => written = 0
       /\ labelFile' = IF written = 0 THEN labelFile
                       ELSE [kind |-> "torn", labels |-> NoLabels,
                             size |-> Max({labelFile.size, written})]
  /\ disturbed' = (disturbed \/ pc[t] = "writeLabels")
  /\ ThreadDone(t)
  /\ view' = [view EXCEPT ![t] = NoLabels]
  /\ UNCHANGED <<scenario, sessionVars, confirmed, listVars, archive, removed, requests>>

\* The answer names the archive from a second reading of the labels.
AnswerRename(t) ==
  /\ pc[t] = "answerRename"
  /\ ThreadDone(t)
  /\ view' = [view EXCEPT ![t] = Parsed(labelFile)]
  /\ UNCHANGED <<scenario, sessionVars, labelVars, listVars, archive, removed, boundVars>>

(* sessions() and machine_summary() *)
AskList(t) ==
  /\ pc[t] = "idle" /\ scenario.work[t] = "list"
  /\ requests < MaxRequests /\ requests' = requests + 1
  /\ view' = [view EXCEPT ![t] = Parsed(labelFile)]
  /\ todo' = [todo EXCEPT ![t] = {s \in Session : Exists(s)}]
  /\ shown' = [shown EXCEPT ![t] = [s \in Session |-> "none"]]
  /\ active' = [active EXCEPT ![t] = 0]
  /\ before' = [before EXCEPT ![t] =
       [over    |-> {s \in Session : proc[s] \in {"over", "dead"}},
        running |-> {s \in Session : proc[s] = "alive" /\ Listed(s) /\ disk[s].status = "running"}]]
  /\ pc' = [pc EXCEPT ![t] = "readManifests"]
  /\ UNCHANGED <<scenario, sessionVars, labelVars, job, archive, removed, faults>>

ReadManifest(t) ==
  /\ pc[t] = "readManifests"
  /\ \E s \in todo[t] :
       /\ todo' = [todo EXCEPT ![t] = @ \ {s}]
       /\ shown' = [shown EXCEPT ![t][s] = IF Listed(s) THEN disk[s].status ELSE "none"]
  /\ UNCHANGED <<scenario, sessionVars, labelVars, pc, job, view, before, active, archive,
                 removed, boundVars>>

\* Mutant: the oldest running session.
OldestOf(statuses) ==
  LET running == {s \in Session : statuses[s] = "running"}
  IN  IF running = {} THEN 0 ELSE Min(running)

\* The newest of the sessions read as running; 0 stands for None.
ActiveOf(statuses) == Max({s \in Session : statuses[s] = "running"} \cup {0})

AnswerList(t) ==
  /\ pc[t] = "readManifests" /\ todo[t] = {}
  /\ active' = [active EXCEPT ![t] = ActiveOf(shown[t])]
  /\ pc' = [pc EXCEPT ![t] = "listed"]
  /\ UNCHANGED <<scenario, sessionVars, labelVars, job, view, todo, shown, before, archive,
                 removed, boundVars>>

ListDelivered(t) ==
  /\ pc[t] = "listed" /\ ThreadDone(t)
  /\ UNCHANGED <<scenario, sessionVars, labelVars, view, listVars, archive, removed, boundVars>>

(* download() *)
downloadRest == <<scenario, sessionVars, labelVars, listVars, removed, faults>>

\* archive_files(): the folder in the archive is named from the labels.
AskDownload(t, s) ==
  /\ Begin(t, "download", s, "listFiles")
  /\ archive = NoArchive
  /\ job' = [job EXCEPT ![t] = [session |-> s, label |-> NoLabel]]
  /\ view' = [view EXCEPT ![t] = Parsed(labelFile)]
  /\ archive' = [NoArchive EXCEPT !.session = s, !.client = "asked",
                                     !.wasOver = proc[s] = "over"]
  /\ UNCHANGED downloadRest

\* artifacts(): every file below the session.
ListFiles(t) ==
  /\ pc[t] = "listFiles"
  /\ archive' = [archive EXCEPT !.listed = files[job[t].session], !.left = files[job[t].session]]
  /\ pc' = [pc EXCEPT ![t] = "statFiles"]
  /\ UNCHANGED <<downloadRest, job, view, requests>>

\* A file that vanished since ends the request: at its size with an uncaught
\* FileNotFoundError (500), at artifact() with PortalError (404).
Vanished(s) == archive.listed \ files[s]

CheckFiles(t, from, to) ==
  /\ pc[t] = from
  /\ IF Vanished(job[t].session) = {}
     THEN /\ pc' = [pc EXCEPT ![t] = to] /\ UNCHANGED <<archive, job>>
     ELSE /\ archive' = [archive EXCEPT !.client = "refused"] /\ ThreadDone(t)
  /\ UNCHANGED <<downloadRest, view, requests>>

StatFiles(t)    == CheckFiles(t, "statFiles", "resolveFiles")
ResolveFiles(t) == CheckFiles(t, "resolveFiles", "answerDownload")

\* The archive thread starts, the file name is read from the labels again.
AnswerDownload(t) ==
  /\ pc[t] = "answerDownload"
  /\ archive' = [archive EXCEPT !.pc = "writing", !.client = "reading"]
  /\ view' = [view EXCEPT ![t] = Parsed(labelFile)]
  /\ ThreadDone(t)
  /\ UNCHANGED <<downloadRest, requests>>

archiveRest == <<downloadRest, pc, job, view, requests>>
\* Mutant: a queue without a limit.
PutUnbounded(chunk) == chunk \in Chunks

Put(chunk) == Len(archive.queue) < QueueSize /\ chunk \in Chunks

\* Mutant: the wrong order.
LastPath(paths) == Max(paths)

\* artifacts() sorts the files by their paths.
NextPath(paths) == Min(paths)

\* Mutant: the error ends the thread before its finally clause.
OpenWithoutFinally ==
  /\ archive.pc = "writing" /\ ~archive.open /\ archive.left # {}
  /\ archive' = IF NextPath(archive.left) \in files[archive.session]
                THEN [archive EXCEPT !.open = TRUE]
                ELSE [archive EXCEPT !.pc = "ended"]
  /\ UNCHANGED archiveRest

\* archive.write(path, name): the file is opened, or the error leaves the
\* with-statement, which still closes the archive.
OpenNextFile ==
  /\ archive.pc = "writing" /\ ~archive.open /\ archive.left # {}
  /\ archive' = IF NextPath(archive.left) \in files[archive.session]
                THEN [archive EXCEPT !.open = TRUE]
                ELSE [archive EXCEPT !.pc = "closing"]
  /\ UNCHANGED archiveRest

WriteFile ==
  /\ archive.pc = "writing" /\ archive.open /\ Put(NextPath(archive.left))
  /\ archive' = [archive EXCEPT !.queue = Append(@, NextPath(archive.left)),
                                !.open = FALSE, !.left = @ \ {NextPath(@)}]
  /\ UNCHANGED archiveRest

AllWritten ==
  /\ archive.pc = "writing" /\ archive.left = {}
  /\ archive' = [archive EXCEPT !.pc = "closing"]
  /\ UNCHANGED archiveRest

CloseArchive ==
  /\ archive.pc = "closing" /\ Put(Directory)
  /\ archive' = [archive EXCEPT !.queue = Append(@, Directory), !.pc = "finally"]
  /\ UNCHANGED archiveRest

\* finally: output.put(None)
PutEndMark ==
  /\ archive.pc = "finally" /\ Put(EndMark)
  /\ archive' = [archive EXCEPT !.queue = Append(@, EndMark), !.pc = "ended"]
  /\ UNCHANGED archiveRest

Producer == OpenNextFile \/ WriteFile \/ AllWritten \/ CloseArchive \/ PutEndMark

\* stream()
TakeChunk ==
  /\ archive.client = "reading" /\ archive.queue # <<>>
  /\ archive' = IF Head(archive.queue) = EndMark
                THEN [archive EXCEPT !.queue = Tail(@), !.client = "complete"]
                ELSE [archive EXCEPT !.queue = Tail(@), !.got = @ \cup {Head(archive.queue)}]
  /\ UNCHANGED archiveRest

\* The browser closes the connection: nobody takes chunks any more.
ClientLeaves ==
  /\ archive.client = "reading"
  /\ archive' = [archive EXCEPT !.client = "gone"]
  /\ UNCHANGED archiveRest

\* Somebody deletes a file of a session by hand.
FileRemoved(s, f) ==
  /\ faults < MaxFaults /\ faults' = faults + 1
  /\ archive.client # "none" /\ archive.session = s /\ proc[s] = "over" /\ f \in files[s]
  /\ files' = [files EXCEPT ![s] = @ \ {f}]
  /\ removed' = removed \cup {<<s, f>>}
  /\ UNCHANGED <<scenario, proc, mem, disk, labelVars, pc, job, view, listVars, archive, requests>>

Rename(t) == \/ \E s \in Session, l \in Label : AskRename(t, s, l)
             \/ ReadLabels(t) \/ OpenLabels(t) \/ WriteLabels(t) \/ LabelWriteFails(t)
             \/ AnswerRename(t)
List(t)   == AskList(t) \/ ReadManifest(t) \/ AnswerList(t) \/ ListDelivered(t)
Download(t) == \/ \E s \in Session : AskDownload(t, s)
               \/ ListFiles(t) \/ StatFiles(t) \/ ResolveFiles(t) \/ AnswerDownload(t)
SessionProcess(s) == \/ SessionStarts(s) \/ RunLeavesFiles(s) \/ WriteTemporary(s)
                     \/ ReplaceManifest(s) \/ SessionDies(s)

Next ==
  \/ \E s \in Session : SessionProcess(s)
  \/ \E t \in Thread : Rename(t) \/ List(t) \/ Download(t)
  \/ Producer \/ TakeChunk \/ ClientLeaves
  \/ \E s \in Session, f \in Files : FileRemoved(s, f)

\* The archive thread and a client that stays go on; so does an accepted request.
Spec ==
  /\ Init /\ [][Next]_vars
  /\ WF_vars(Producer) /\ WF_vars(TakeChunk)
  /\ \A t \in Thread :
       WF_vars(ListFiles(t) \/ StatFiles(t) \/ ResolveFiles(t) \/ AnswerDownload(t))

----------------------------------------------------------------------------
(* Properties. *)

TypeOK ==
  /\ scenario \in Scenarios
  /\ proc \in [Session -> {"none", "alive", "over", "dead"}]
  /\ mem \in [Session -> [status : Statuses, runs : 0 .. MaxRuns]]
  /\ disk \in [Session -> [status : Statuses, runs : 0 .. MaxRuns]]
  /\ files \in [Session -> SUBSET Files]
  /\ labelFile \in [kind : {"missing", "empty", "whole", "torn"}, labels : Labels, size : Nat]
  /\ pc \in [Thread -> {"idle", "readLabels", "openLabels", "writeLabels", "answerRename",
                        "readManifests", "listed", "listFiles", "statFiles", "resolveFiles",
                        "answerDownload"}]
  /\ job \in [Thread -> [session : Session, label : Label \cup {NoLabel}]]
  /\ view \in [Thread -> Labels]
  /\ todo \in [Thread -> SUBSET Session]
  /\ shown \in [Thread -> [Session -> Statuses \cup {"none"}]]
  /\ before \in [Thread -> [over : SUBSET Session, running : SUBSET Session]]
  /\ active \in [Thread -> Session \cup {0}]
  /\ archive \in [session : Session, pc : {"none", "writing", "closing", "finally", "ended"},
                   listed : SUBSET Files, left : SUBSET Files, open : BOOLEAN,
                   queue : Seq(Chunks), got : SUBSET Chunks, wasOver : BOOLEAN,
                   client : {"none", "asked", "reading", "refused", "complete", "gone"}]
  /\ Len(archive.queue) <= QueueSize
  /\ confirmed \in Labels /\ disturbed \in BOOLEAN
  /\ removed \in SUBSET (Session \X Files)
  /\ requests \in 0 .. MaxRequests /\ faults \in 0 .. MaxFaults

\* portal.py:219-232.  A confirmed display name stays in the label file until
\* another rename of its session replaces it, unless two renames of the machine
\* overlapped or a write of the file failed: only while one rename rewrites the
\* file is it without them.
LabelsSurvive ==
  ~disturbed => \/ Parsed(labelFile) = confirmed
                \/ \E t \in Thread : pc[t] = "writeLabels" /\ labelFile = Truncated

\* portal.py:48, 57-72.  A listing is worth what it says although manifests are
\* replaced while it is made: a session that was over when it was asked for is
\* shown as running only if its process was killed, and a session that runs from
\* before it until after it is its active session, although older ones that were
\* killed still say running.
ListingIsCurrent ==
  \A t \in Thread, s \in Session :
    pc[t] = "listed" =>
      /\ shown[t][s] = "running" /\ s \in before[t].over => proc[s] = "dead"
      /\ (/\ s \in before[t].running
          /\ proc[s] = "alive" /\ disk[s].status = "running") => active[t] = s

\* app.py:92-109, portal.py:84-93.  An archive delivered to its end holds every
\* listed file before the first one that was deleted by hand; without such a
\* deletion it misses at most the temporary manifest of a running session, and
\* nothing of a session that was over when the download was asked for.
ArchiveIsWhole ==
  archive.client = "complete" =>
    LET missing == archive.listed \ archive.got
        deleted == {f \in Files : <<archive.session, f>> \in removed}
    IN  /\ \A f \in missing : f = Temporary \/ \E d \in deleted : d <= f
        /\ archive.wasOver /\ deleted = {} =>
             /\ archive.got = files[archive.session] \cup {Directory}
             /\ disk[archive.session].status \in Terminal

\* app.py:97-109.  A download whose client stays is answered or refused, and the
\* stream ends, whatever happens to the files while it is written.
StreamEnds ==
  (archive # NoArchive) ~> (archive.client \in {"refused", "complete", "gone"})
=============================================================================
