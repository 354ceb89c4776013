---------------------------- MODULE PortalProofs ----------------------------
(***************************************************************************)
(* What the portal shows, for any number of sessions, request threads,      *)
(* labels and faults: confirmed display names survive, a listing is worth   *)
(* what it says, and an archive is whole.                                   *)
(***************************************************************************)
EXTENDS Portal, SequenceTheorems, WellFoundedInduction, TLAPS

----------------------------------------------------------------------------
(* The sessions and the listings. *)

Points == {"idle", "readLabels", "openLabels", "writeLabels", "answerRename", "readManifests",
           "listed", "listFiles", "statFiles", "resolveFiles", "answerDownload"}

IndexTypes ==
    /\ proc \in [Session -> {"none", "alive", "over", "dead"}]
    /\ mem \in [Session -> [status : Statuses, runs : 0 .. MaxRuns]]
    /\ disk \in [Session -> [status : Statuses, runs : 0 .. MaxRuns]]
    /\ files \in [Session -> SUBSET Files]
    /\ pc \in [Thread -> Points]
    /\ todo \in [Thread -> SUBSET Session]
    /\ shown \in [Thread -> [Session -> Statuses \cup {"none"}]]
    /\ before \in [Thread -> [over : SUBSET Session, running : SUBSET Session]]
    /\ active = [t \in Thread |-> active[t]]

\* A session is recorded when those before it are, and its manifest is terminal
\* before its process ends; a live one that says running does so until then.
SessionsInOrder ==
    \A s \in Session :
        /\ proc[s] = "none" => files[s] = {}
        /\ proc[s] = "over" => disk[s].status \in Terminal
        /\ proc[s] \in {"none", "alive"} =>
             /\ \A r \in Session : s < r => proc[r] \in {"none", "over"}
             /\ disk[s].status = "running" => mem[s].status \in {"running"} \cup Terminal

\* What a listing has read of the sessions, while they go on.
ReadingsHold ==
    \A t \in Thread, s \in Session :
        /\ s \in before[t].over =>
             /\ proc[s] \in {"over", "dead"}
             /\ shown[t][s] = "running" => proc[s] = "dead"
        /\ shown[t][s] = "running" =>
             \A r \in Session : r < s => proc[r] \in {"over", "dead"}
        /\ s \in before[t].running => proc[s] # "none"
        /\ s \in before[t].running /\ proc[s] = "alive" =>
             /\ Listed(s) /\ disk[s].status = "running"
             /\ s \notin todo[t] => shown[t][s] = "running"

ListingDone ==
    \A t \in Thread : pc[t] = "listed" => todo[t] = {} /\ active[t] = ActiveOf(shown[t])

IInv == IndexTypes /\ SessionsInOrder /\ ReadingsHold /\ ListingDone

\* The steps by what they leave alone.
IndexQuiet == UNCHANGED <<sessionVars, listVars>> /\
              \A t \in Thread : pc'[t] = "listed" => pc[t] = "listed"

LEMMA RestIsQuiet ==
  ASSUME IndexTypes,
         \/ \E t \in Thread : Rename(t) \/ Download(t)
         \/ Producer \/ TakeChunk \/ ClientLeaves
         \/ UNCHANGED vars
  PROVE  IndexQuiet /\ pc' \in [Thread -> Points]
  <1>1. ASSUME NEW t \in Thread, Rename(t) PROVE IndexQuiet /\ pc' \in [Thread -> Points]
    BY <1>1 DEF IndexTypes, Rename, AskRename, Begin, ReadLabels, OpenLabels, WriteLabels, LabelWriteFails,
       AnswerRename, ThreadDone, IndexQuiet, sessionVars, listVars, Points
  <1>2. ASSUME NEW t \in Thread, Download(t) PROVE IndexQuiet /\ pc' \in [Thread -> Points]
    BY <1>2 DEF IndexTypes, Download, AskDownload, Begin, ListFiles, StatFiles, ResolveFiles,
       CheckFiles, AnswerDownload, ThreadDone, downloadRest, IndexQuiet, sessionVars, listVars, Points
  <1>3. CASE Producer \/ TakeChunk \/ ClientLeaves
    BY <1>3 DEF IndexTypes, Producer, OpenNextFile, WriteFile, AllWritten, CloseArchive, PutEndMark, TakeChunk,
       ClientLeaves, archiveRest, downloadRest, IndexQuiet, sessionVars, listVars
  <1>4. CASE UNCHANGED vars
    BY <1>4 DEF IndexTypes, vars, IndexQuiet, sessionVars, listVars
  <1> QED
    BY <1>1, <1>2, <1>3, <1>4

\* The quiet steps keep the invariant.
LEMMA QuietStep ==
  ASSUME IInv, IndexQuiet, pc' \in [Thread -> Points]
  PROVE  IInv'
  <1>1. UNCHANGED <<proc, mem, disk, files, todo, shown, before, active>>
    BY DEF IndexQuiet, sessionVars, listVars
  <1>2. IndexTypes'
    BY <1>1 DEF IInv, IndexTypes
  <1>3. SessionsInOrder' /\ ReadingsHold'
    BY <1>1 DEF IInv, SessionsInOrder, ReadingsHold, Listed
  <1>4. ListingDone'
    <2> SUFFICES ASSUME NEW t \in Thread, pc'[t] = "listed"
                 PROVE  todo'[t] = {} /\ active'[t] = ActiveOf(shown'[t])
      BY DEF ListingDone, ActiveOf
    <2>1. todo[t] = {} /\ active[t] = ActiveOf(shown[t])
      BY DEF IndexQuiet, IInv, ListingDone
    <2> QED
      BY <1>1, <2>1
  <1> QED
    BY <1>2, <1>3, <1>4 DEF IInv

\* What the steps of a session process leave alone, and what they do to the
\* manifest and the files of their session.
LEMMA ManifestsNext ==
  ASSUME IndexTypes, SessionsInOrder, NEW s \in Session, proc[s] = "alive",
         NEW m \in NextManifests(s)
  PROVE  /\ m \in [status : Statuses, runs : 0 .. MaxRuns]
         /\ mem[s].status \in {"running"} \cup Terminal => m.status \in {"running"} \cup Terminal
  <1>1. mem[s] \in [status : Statuses, runs : 0 .. MaxRuns]
    BY DEF IndexTypes
  <1>2. MaxRuns \in Nat
    BY PortalAssumption
  <1>3. CASE m = mem[s]
    BY <1>1, <1>3
  <1>4. CASE /\ mem[s].status = "initializing"
             /\ m \in {[mem[s] EXCEPT !.status = "running"], [mem[s] EXCEPT !.status = "failed"]}
    BY <1>1, <1>4 DEF Statuses, Terminal
  <1>5. CASE mem[s].runs < MaxRuns /\ m = [mem[s] EXCEPT !.runs = @ + 1]
    BY <1>1, <1>2, <1>5
  <1>6. CASE \E st \in Terminal : m = [mem[s] EXCEPT !.status = st]
    BY <1>1, <1>6 DEF Statuses
  <1> QED
    BY <1>3, <1>4, <1>5, <1>6 DEF NextManifests

LEMMA ProcessStep ==
  ASSUME IInv, NEW s \in Session, SessionProcess(s)
  PROVE  IInv'
  <1> USE DEF IInv
  <1>1. /\ UNCHANGED <<pc, todo, shown, before, active>>
        /\ IndexTypes
    BY DEF SessionProcess, SessionStarts, RunLeavesFiles, WriteTemporary, ReplaceManifest,
       SessionDies, portalVars, listVars
  <1>2. ListingDone'
    BY <1>1 DEF ListingDone, ActiveOf
  <1>3. CASE SessionStarts(s)
    <2>1. /\ proc[s] = "none" /\ proc' = [proc EXCEPT ![s] = "alive"]
          /\ \A r \in Session : r < s => proc[r] \in {"over", "dead"}
          /\ UNCHANGED <<mem, disk, files>>
      BY <1>3 DEF SessionStarts
    <2>2. IndexTypes'
      BY <1>1, <2>1 DEF IndexTypes
    <2>3. SessionsInOrder'
      <3>1. \A q \in Session : proc'[q] = IF q = s THEN "alive" ELSE proc[q]
        BY <1>1, <2>1 DEF IndexTypes
      <3>2. \A q, r \in Session : q < r \/ q = r \/ r < q
        BY DEF Session
      <3> HIDE DEF IInv
      <3>3. SessionsInOrder
        BY DEF IInv
      <3> QED
        BY <2>1, <3>1, <3>2, <3>3 DEF SessionsInOrder
    <2>4. ReadingsHold'
      <3>1. \A q \in Session : proc'[q] = IF q = s THEN "alive" ELSE proc[q]
        BY <1>1, <2>1 DEF IndexTypes
      <3>2. ReadingsHold /\ files[s] = {}
        BY <2>1 DEF SessionsInOrder
      <3> HIDE DEF IInv
      <3> QED
        BY <1>1, <2>1, <3>1, <3>2 DEF ReadingsHold, Listed
    <2> QED
      BY <1>2, <2>2, <2>3, <2>4
  <1>4. CASE RunLeavesFiles(s) \/ WriteTemporary(s)
    <2>1. /\ proc[s] = "alive" /\ UNCHANGED <<proc, disk>>
          /\ \E f \in Files : files' = [files EXCEPT ![s] = @ \cup {f}]
          /\ mem' = mem \/ \E m \in NextManifests(s) : mem' = [mem EXCEPT ![s] = m]
      <3>1. CASE RunLeavesFiles(s)
        <4>1. mem[s].runs \in 0 .. MaxRuns /\ mem[s].runs < MaxRuns /\ MaxRuns \in Nat
          BY <1>1, <3>1, PortalAssumption DEF RunLeavesFiles, IndexTypes
        <4>2. mem[s].runs + 1 \in Files
          BY <4>1 DEF Files, Temporary
        <4> QED
          BY <3>1, <4>2 DEF RunLeavesFiles
      <3>2. CASE WriteTemporary(s)
        <4>1. Temporary \in Files
          BY PortalAssumption DEF Files, Temporary
        <4> QED
          BY <3>2, <4>1 DEF WriteTemporary
      <3> QED
        BY <1>4, <3>1, <3>2
    <2>2. /\ \A q \in Session : files[q] \subseteq files'[q] /\ (q # s => files'[q] = files[q])
          /\ files' \in [Session -> SUBSET Files]
      BY <1>1, <2>1 DEF IndexTypes
    <2>3. /\ mem' \in [Session -> [status : Statuses, runs : 0 .. MaxRuns]]
          /\ \A q \in Session : mem[q].status \in {"running"} \cup Terminal =>
               mem'[q].status \in {"running"} \cup Terminal
      <3>1. CASE mem' = mem
        BY <1>1, <3>1 DEF IndexTypes
      <3>2. ASSUME NEW m \in NextManifests(s), mem' = [mem EXCEPT ![s] = m]
            PROVE  /\ mem' \in [Session -> [status : Statuses, runs : 0 .. MaxRuns]]
                   /\ \A q \in Session : mem[q].status \in {"running"} \cup Terminal =>
                        mem'[q].status \in {"running"} \cup Terminal
        <4>1. /\ m \in [status : Statuses, runs : 0 .. MaxRuns]
              /\ mem[s].status \in {"running"} \cup Terminal => m.status \in {"running"} \cup Terminal
          BY <1>1, <2>1, <3>2, ManifestsNext
        <4>2. \A q \in Session : mem'[q] = IF q = s THEN m ELSE mem[q]
          BY <1>1, <3>2 DEF IndexTypes
        <4> QED
          BY <1>1, <3>2, <4>1, <4>2 DEF IndexTypes
      <3> QED
        BY <2>1, <3>1, <3>2
    <2>4. IndexTypes'
      BY <1>1, <2>1, <2>2, <2>3 DEF IndexTypes
    <2>5. SessionsInOrder'
      BY <2>1, <2>2, <2>3 DEF SessionsInOrder
    <2>6. ReadingsHold'
      BY <1>1, <2>1, <2>2 DEF ReadingsHold, Listed
    <2> QED
      BY <1>2, <2>4, <2>5, <2>6
  <1>5. CASE ReplaceManifest(s)
    <2>1. /\ proc[s] = "alive" /\ mem' = mem /\ mem[s] \in [status : Statuses, runs : 0 .. MaxRuns]
          /\ \A q \in Session : q # s =>
               proc'[q] = proc[q] /\ disk'[q] = disk[q] /\ files'[q] = files[q]
          /\ disk'[s] = mem[s] /\ Manifest \in files'[s]
          /\ proc'[s] = IF mem[s].status \in Terminal THEN "over" ELSE "alive"
      BY <1>1, <1>5 DEF ReplaceManifest, IndexTypes
    <2>2. IndexTypes'
      <3>1. Manifest \in Files
        BY PortalAssumption DEF Files, Manifest, Temporary
      <3> QED
        BY <1>1, <1>5, <2>1, <3>1 DEF ReplaceManifest, IndexTypes
    <2>3. \A q \in Session : q < s => proc[q] \notin {"none", "alive"}
      BY <2>1 DEF SessionsInOrder
    <2>4. SessionsInOrder'
      <3>1. SessionsInOrder
        OBVIOUS
      <3> HIDE DEF IInv
      <3> QED
        BY <2>1, <2>3, <3>1 DEF SessionsInOrder, Terminal
    <2>5. ReadingsHold'
      <3>1. ReadingsHold /\ SessionsInOrder
        OBVIOUS
      <3>2. \A t \in Thread : s \in before[t].running /\ proc'[s] = "alive" => disk'[s].status = "running"
        BY <2>1, <3>1 DEF ReadingsHold, SessionsInOrder, Terminal
      <3> HIDE DEF IInv
      <3> QED
        BY <1>1, <2>1, <3>1, <3>2 DEF ReadingsHold, Listed
    <2> QED
      BY <1>2, <2>2, <2>4, <2>5
  <1>6. CASE SessionDies(s)
    <2>1. /\ proc[s] = "alive" /\ UNCHANGED <<mem, disk, files>>
          /\ \A q \in Session : proc'[q] = IF q = s THEN "dead" ELSE proc[q]
      BY <1>1, <1>6 DEF SessionDies, IndexTypes
    <2>2. IndexTypes'
      BY <1>1, <1>6 DEF SessionDies, IndexTypes
    <2>3. \A q \in Session : q < s => proc[q] \notin {"none", "alive"}
      BY <2>1 DEF SessionsInOrder
    <2>4. SessionsInOrder /\ ReadingsHold
      OBVIOUS
    <2> HIDE DEF IInv
    <2>5. SessionsInOrder'
      BY <2>1, <2>3, <2>4 DEF SessionsInOrder
    <2>6. ReadingsHold'
      BY <1>1, <2>1, <2>4 DEF ReadingsHold, Listed
    <2> QED
      BY <1>2, <2>2, <2>5, <2>6 DEF IInv
  <1> QED
    BY <1>3, <1>4, <1>5, <1>6 DEF SessionProcess

\* Somebody deletes a file, of a session that is over.
LEMMA RemovalStep ==
  ASSUME IInv, NEW s \in Session, NEW f \in Files, FileRemoved(s, f)
  PROVE  IInv'
  <1>1. /\ UNCHANGED <<proc, mem, disk, pc, todo, shown, before, active>>
        /\ proc[s] = "over" /\ files' = [files EXCEPT ![s] = @ \ {f}]
        /\ IndexTypes /\ SessionsInOrder /\ ReadingsHold /\ ListingDone
    BY DEF IInv, FileRemoved, listVars
  <1>2. \A q \in Session : files'[q] \subseteq files[q] /\ (q # s => files'[q] = files[q])
    BY <1>1 DEF IndexTypes
  <1>3. IndexTypes'
    BY <1>1 DEF IndexTypes
  <1>4. SessionsInOrder'
    BY <1>1, <1>2 DEF SessionsInOrder
  <1>5. ReadingsHold'
    BY <1>1, <1>2 DEF ReadingsHold, Listed
  <1>6. ListingDone'
    BY <1>1 DEF ListingDone, ActiveOf
  <1> QED
    BY <1>3, <1>4, <1>5, <1>6 DEF IInv

\* A listing: what it reads is true when it is read.
LEMMA ListStep ==
  ASSUME IInv, NEW t \in Thread, List(t)
  PROVE  IInv'
  <1>1. /\ UNCHANGED <<proc, mem, disk, files>>
        /\ IndexTypes /\ SessionsInOrder /\ ReadingsHold /\ ListingDone
    BY DEF IInv, List, AskList, ReadManifest, AnswerList, ListDelivered, sessionVars
  <1>2. SessionsInOrder'
    BY <1>1 DEF SessionsInOrder
  <1>3. CASE AskList(t)
    <2> DEFINE none == [s \in Session |-> "none"]
               now == [over    |-> {s \in Session : proc[s] \in {"over", "dead"}},
                       running |-> {s \in Session : proc[s] = "alive" /\ Listed(s)
                                                    /\ disk[s].status = "running"}]
    <2>1. /\ todo' = [todo EXCEPT ![t] = {s \in Session : Exists(s)}]
          /\ shown' = [shown EXCEPT ![t] = none]
          /\ before' = [before EXCEPT ![t] = now]
          /\ active' = [active EXCEPT ![t] = 0]
          /\ pc' = [pc EXCEPT ![t] = "readManifests"]
      BY <1>3 DEF AskList
    <2>2. IndexTypes'
      BY <1>1, <2>1 DEF IndexTypes, Points
    <2>3. \A u \in Thread :
            IF u = t
            THEN /\ todo'[u] = {s \in Session : Exists(s)} /\ pc'[u] = "readManifests"
                 /\ shown'[u] = none /\ before'[u] = now
            ELSE /\ todo'[u] = todo[u] /\ pc'[u] = pc[u] /\ shown'[u] = shown[u]
                 /\ before'[u] = before[u] /\ active'[u] = active[u]
      BY <1>1, <2>1 DEF IndexTypes
    <2>4. ListingDone'
      <3> SUFFICES ASSUME NEW u \in Thread, pc'[u] = "listed"
                   PROVE  todo'[u] = {} /\ active'[u] = ActiveOf(shown'[u])
        BY DEF ListingDone, ActiveOf
      <3>1. u # t /\ pc[u] = "listed"
        BY <2>3
      <3> QED
        BY <1>1, <2>3, <3>1 DEF ListingDone
    <2>5. ReadingsHold'
      <3>1. \A s \in Session : none[s] = "none"
        OBVIOUS
      <3>2. \A s \in Session :
              /\ s \in now.over => proc[s] \in {"over", "dead"}
              /\ s \in now.running => proc[s] = "alive" /\ Listed(s) /\ disk[s].status = "running"
              /\ s \in now.running => s \in todo'[t]
        BY <2>3 DEF Exists
      <3> HIDE DEF none, now
      <3>3. \A u \in Thread : u # t => /\ todo'[u] = todo[u] /\ shown'[u] = shown[u]
                                      /\ before'[u] = before[u]
        BY <2>3
      <3>4. shown'[t] = none /\ before'[t] = now
        BY <2>3
      <3> QED
        BY <1>1, <3>1, <3>2, <3>3, <3>4 DEF ReadingsHold, Listed
    <2> QED
      BY <1>2, <2>2, <2>4, <2>5 DEF IInv
  <1>4. CASE ReadManifest(t)
    <2>1. PICK s \in todo[t] :
            /\ todo' = [todo EXCEPT ![t] = @ \ {s}]
            /\ shown' = [shown EXCEPT ![t][s] = IF Listed(s) THEN disk[s].status ELSE "none"]
      BY <1>4 DEF ReadManifest
    <2>2. pc[t] = "readManifests" /\ UNCHANGED <<pc, before, active>> /\ s \in Session
      BY <1>1, <1>4 DEF ReadManifest, IndexTypes
    <2>3. \A u \in Thread, q \in Session :
            IF u = t /\ q = s
            THEN shown'[u][q] = IF Listed(s) THEN disk[s].status ELSE "none"
            ELSE shown'[u][q] = shown[u][q] /\ (q \in todo'[u] <=> q \in todo[u])
      BY <1>1, <2>1, <2>2 DEF IndexTypes
    <2>4. IndexTypes'
      BY <1>1, <2>1, <2>2 DEF IndexTypes
    <2>5. ListingDone'
      BY <1>1, <2>1, <2>2 DEF ListingDone, ActiveOf, IndexTypes
    <2>6. /\ shown'[t][s] = "running" => proc[s] \in {"alive", "dead"}
          /\ Listed(s) /\ disk[s].status = "running" => shown'[t][s] = "running"
      BY <1>1, <2>2, <2>3 DEF SessionsInOrder, Listed, IndexTypes, Terminal
    <2>7. shown'[t][s] = "running" => \A r \in Session : r < s => proc[r] \in {"over", "dead"}
      BY <1>1, <2>2, <2>6 DEF SessionsInOrder, IndexTypes
    <2>8. ReadingsHold'
      BY <1>1, <2>2, <2>3, <2>6, <2>7 DEF ReadingsHold, Listed
    <2> QED
      BY <1>2, <2>4, <2>5, <2>8 DEF IInv
  <1>5. CASE AnswerList(t) \/ ListDelivered(t)
    <2>1. UNCHANGED <<todo, shown, before>>
      BY <1>5 DEF AnswerList, ListDelivered, listVars
    <2>2. ReadingsHold'
      BY <1>1, <2>1 DEF ReadingsHold, Listed
    <2>3. IndexTypes'
      BY <1>1, <1>5 DEF AnswerList, ListDelivered, ThreadDone, listVars, IndexTypes, Points
    <2>4. ListingDone'
      <3>1. CASE AnswerList(t)
        <4>1. \A u \in Thread : IF u = t THEN todo[u] = {} /\ active'[u] = ActiveOf(shown[u])
                                ELSE pc'[u] = pc[u] /\ active'[u] = active[u]
          BY <1>1, <3>1 DEF AnswerList, IndexTypes
        <4> QED
          BY <1>1, <2>1, <4>1 DEF ListingDone, ActiveOf
      <3>2. CASE ListDelivered(t)
        <4>1. \A u \in Thread : IF u = t THEN pc'[u] = "idle" ELSE pc'[u] = pc[u]
          BY <1>1, <3>2 DEF ListDelivered, ThreadDone, IndexTypes
        <4>2. active' = active
          BY <3>2 DEF ListDelivered, listVars
        <4> QED
          BY <1>1, <2>1, <4>1, <4>2 DEF ListingDone, ActiveOf
      <3> QED
        BY <1>5, <3>1, <3>2
    <2> QED
      BY <1>2, <2>2, <2>3, <2>4 DEF IInv
  <1> QED
    BY <1>3, <1>4, <1>5 DEF List

LEMMA NextListings == IInv /\ [Next]_vars => IInv'
  <1> SUFFICES ASSUME IInv, [Next]_vars PROVE IInv'
    OBVIOUS
  <1>1. ASSUME NEW s \in Session, SessionProcess(s) PROVE IInv'
    BY <1>1, ProcessStep
  <1>2. ASSUME NEW t \in Thread, List(t) PROVE IInv'
    BY <1>2, ListStep
  <1>3. ASSUME NEW s \in Session, NEW f \in Files, FileRemoved(s, f) PROVE IInv'
    BY <1>3, RemovalStep
  <1>4. CASE \/ \E t \in Thread : Rename(t) \/ Download(t)
             \/ Producer \/ TakeChunk \/ ClientLeaves
             \/ UNCHANGED vars
    BY <1>4, RestIsQuiet, QuietStep DEF IInv
  <1> QED
    BY <1>1, <1>2, <1>3, <1>4 DEF Next

LEMMA InitListings == Init => IInv
  <1> SUFFICES ASSUME Init PROVE IInv
    OBVIOUS
  <1>1. MaxRuns \in Nat
    BY PortalAssumption
  <1>2. IndexTypes
    <2>1. scenario.live \in SUBSET Session /\ Manifest \in Nat /\ 1 .. Manifest \subseteq Files
      BY <1>1, PortalAssumption DEF Init, Session, Manifest, Files, Temporary
    <2> QED
      BY <1>1, <2>1 DEF Init, IndexTypes, Points, Statuses, Terminal
  <1>3. SessionsInOrder
    BY DEF Init, SessionsInOrder, Terminal
  <1>4. ReadingsHold
    BY DEF Init, ReadingsHold
  <1>5. ListingDone
    BY DEF Init, ListingDone
  <1> QED
    BY <1>2, <1>3, <1>4, <1>5 DEF IInv

LEMMA ListingInvariance == Spec => []IInv
  BY InitListings, NextListings, PTL DEF Spec

\* A listing is worth what it says, for any number of sessions and threads: see
\* ListingIsCurrent.
THEOREM ListingCurrent == Spec => []ListingIsCurrent
  <1>1. ASSUME IInv PROVE ListingIsCurrent
    <2> SUFFICES ASSUME NEW t \in Thread, NEW s \in Session, pc[t] = "listed"
                 PROVE  /\ shown[t][s] = "running" /\ s \in before[t].over => proc[s] = "dead"
                        /\ (/\ s \in before[t].running
                            /\ proc[s] = "alive" /\ disk[s].status = "running") => active[t] = s
      BY DEF ListingIsCurrent
    <2>1. ReadingsHold /\ todo[t] = {} /\ active[t] = ActiveOf(shown[t])
      BY <1>1 DEF IInv, ListingDone
    <2>2. ASSUME s \in before[t].running, proc[s] = "alive" PROVE active[t] = s
      <3> DEFINE R == {r \in Session : shown[t][r] = "running"} \cup {0}
      <3>1. s \in R /\ R \subseteq Nat
        BY <2>1, <2>2 DEF ReadingsHold, Session
      <3>2. \A r \in R : s >= r
        <4> SUFFICES ASSUME NEW r \in Session, shown[t][r] = "running", s < r PROVE FALSE
          BY DEF Session
        <4> QED
          BY <2>1, <2>2 DEF ReadingsHold
      <3>3. Max(R) = CHOOSE m \in R : \A r \in R : m >= r
        BY DEF Max
      <3> HIDE DEF R
      <3>4. Max(R) \in R /\ \A r \in R : Max(R) >= r
        BY <3>1, <3>2, <3>3
      <3>5. \A m \in R : m >= s => m = s
        BY <3>1, <3>2
      <3>6. Max(R) = s
        BY <3>1, <3>4, <3>5
      <3> QED
        BY <2>1, <3>6 DEF ActiveOf, R
    <2> QED
      BY <2>1, <2>2 DEF ReadingsHold
  <1> QED
    BY <1>1, ListingInvariance, PTL

----------------------------------------------------------------------------
(* The labels. *)

LabelTypes ==
    /\ pc \in [Thread -> Points]
    /\ job \in [Thread -> [session : Session, label : Label \cup {NoLabel}]]
    /\ view \in [Thread -> Labels]
    /\ confirmed \in Labels
    /\ Parsed(labelFile) \in Labels
    /\ disturbed \in BOOLEAN

Rewriting(t) == pc[t] \in {"openLabels", "writeLabels"}

\* Unless something disturbed it, one rename at a time rewrites the file, from
\* what was confirmed, and the file holds that until it is truncated.
OneRename ==
    ~disturbed =>
        /\ \A t, u \in Thread : Rewriting(t) /\ Rewriting(u) => t = u
        /\ \A t \in Thread : Rewriting(t) =>
             view[t] = [confirmed EXCEPT ![job[t].session] = job[t].label]
        /\ \A t \in Thread : pc[t] = "writeLabels" => labelFile = Truncated
        /\ (\A t \in Thread : pc[t] # "writeLabels") => Parsed(labelFile) = confirmed

LInv == LabelTypes /\ OneRename

\* The steps that do not touch the labels.
LabelQuiet ==
    /\ UNCHANGED labelVars
    /\ \A t \in Thread : Rewriting(t)' <=> Rewriting(t)
    /\ \A t \in Thread : pc'[t] = "writeLabels" <=> pc[t] = "writeLabels"
    /\ \A t \in Thread : Rewriting(t) => view'[t] = view[t] /\ job'[t] = job[t]

LEMMA OthersAreQuiet ==
  ASSUME LabelTypes,
         \/ \E s \in Session : SessionProcess(s)
         \/ \E t \in Thread : AnswerRename(t) \/ List(t) \/ Download(t)
         \/ \E t \in Thread, s \in Session, l \in Label : AskRename(t, s, l)
         \/ Producer \/ TakeChunk \/ ClientLeaves
         \/ \E s \in Session, f \in Files : FileRemoved(s, f)
         \/ UNCHANGED vars
  PROVE  LabelQuiet /\ LabelTypes'
  <1> USE DEF LabelTypes
  <1>1. ASSUME NEW s \in Session, SessionProcess(s) PROVE LabelQuiet /\ LabelTypes'
    BY <1>1 DEF SessionProcess, SessionStarts, RunLeavesFiles, WriteTemporary, ReplaceManifest,
       SessionDies, portalVars, labelVars, LabelQuiet, Rewriting, Parsed, NoLabels
  <1>2. ASSUME NEW t \in Thread, AnswerRename(t) \/ List(t) \/ Download(t)
        PROVE  LabelQuiet /\ LabelTypes'
    <2>1. UNCHANGED labelVars
      BY <1>2 DEF AnswerRename, List, AskList, ReadManifest, AnswerList, ListDelivered, Download,
         AskDownload, ListFiles, StatFiles, ResolveFiles, CheckFiles, AnswerDownload, downloadRest,
         labelVars
    <2>2. ~Rewriting(t)
      BY <1>2 DEF AnswerRename, List, AskList, ReadManifest, AnswerList, ListDelivered, Download,
         AskDownload, Begin, ListFiles, StatFiles, ResolveFiles, CheckFiles, AnswerDownload,
         Rewriting
    <2>3. \E p \in Points \ {"openLabels", "writeLabels"} : pc' = [pc EXCEPT ![t] = p]
      <3>1. CASE AnswerRename(t) \/ List(t)
        <4>1. CASE ReadManifest(t)
          BY <4>1 DEF ReadManifest, Points
        <4> QED
          BY <3>1, <4>1 DEF AnswerRename, List, AskList, AnswerList, ListDelivered, ThreadDone,
             Points
      <3>2. CASE Download(t)
        BY <3>2 DEF Download, AskDownload, Begin, ListFiles, StatFiles, ResolveFiles, CheckFiles,
           AnswerDownload, ThreadDone, Points
      <3> QED
        BY <1>2, <3>1, <3>2
    <2>4. \E j \in [session : Session, label : Label \cup {NoLabel}] : job' = [job EXCEPT ![t] = j]
      <3>1. NoJob \in [session : Session, label : Label \cup {NoLabel}]
        BY PortalAssumption DEF NoJob, Session
      <3>2. job[t] \in [session : Session, label : Label \cup {NoLabel}]
            /\ job = [job EXCEPT ![t] = job[t]]
        OBVIOUS
      <3>3. CASE AnswerRename(t) \/ List(t)
        BY <3>1, <3>2, <3>3 DEF AnswerRename, List, AskList, ReadManifest, AnswerList,
           ListDelivered, ThreadDone
      <3>4. ASSUME NEW s \in Session, AskDownload(t, s)
            PROVE  \E j \in [session : Session, label : Label \cup {NoLabel}] :
                     job' = [job EXCEPT ![t] = j]
        BY <3>4 DEF AskDownload
      <3>5. CASE ListFiles(t) \/ StatFiles(t) \/ ResolveFiles(t) \/ AnswerDownload(t)
        BY <3>1, <3>2, <3>5 DEF ListFiles, StatFiles, ResolveFiles, CheckFiles, AnswerDownload,
           ThreadDone
      <3> QED
        BY <1>2, <3>3, <3>4, <3>5 DEF Download
    <2>5. \E v \in Labels : view' = [view EXCEPT ![t] = v]
      <3>1. view[t] \in Labels /\ view = [view EXCEPT ![t] = view[t]]
        OBVIOUS
      <3>2. CASE AnswerRename(t) \/ List(t)
        BY <3>1, <3>2 DEF AnswerRename, List, AskList, ReadManifest, AnswerList, ListDelivered
      <3>3. CASE Download(t)
        BY <3>1, <3>3 DEF Download, AskDownload, ListFiles, StatFiles, ResolveFiles, CheckFiles,
           AnswerDownload
      <3> QED
        BY <1>2, <3>2, <3>3
    <2>6. PICK p \in Points \ {"openLabels", "writeLabels"} : pc' = [pc EXCEPT ![t] = p]
      BY <2>3
    <2>7. LabelQuiet
      BY <2>1, <2>2, <2>4, <2>5, <2>6 DEF LabelQuiet, Rewriting
    <2>8. LabelTypes'
      BY <2>1, <2>4, <2>5, <2>6 DEF labelVars, Parsed
    <2> QED
      BY <2>7, <2>8
  <1>4. ASSUME NEW t \in Thread, NEW s \in Session, NEW l \in Label, AskRename(t, s, l)
        PROVE  LabelQuiet /\ LabelTypes'
    BY <1>4 DEF AskRename, Begin, labelVars, LabelQuiet, Rewriting, Parsed, NoLabels, Points
  <1>5. CASE Producer \/ TakeChunk \/ ClientLeaves \/ UNCHANGED vars
    BY <1>5 DEF Producer, OpenNextFile, WriteFile, AllWritten, CloseArchive, PutEndMark,
       TakeChunk, ClientLeaves, archiveRest, downloadRest, vars, labelVars, LabelQuiet, Rewriting,
       Parsed, NoLabels
  <1>6. ASSUME NEW s \in Session, NEW f \in Files, FileRemoved(s, f)
        PROVE  LabelQuiet /\ LabelTypes'
    BY <1>6 DEF FileRemoved, labelVars, LabelQuiet, Rewriting, Parsed, NoLabels
  <1> QED
    BY <1>1, <1>2, <1>4, <1>5, <1>6

LEMMA QuietKeepsLabels ==
  ASSUME LInv, LabelQuiet, LabelTypes'
  PROVE  LInv'
  BY DEF LInv, LabelTypes, LabelQuiet, OneRename, Rewriting, labelVars, Parsed

LEMMA NoLabelsTyped == NoLabels \in Labels /\ Parsed(Truncated) = NoLabels
  BY DEF NoLabels, Labels, Parsed, Truncated

\* A step of rename() moves thread t alone.
LEMMA RenameStep ==
  ASSUME LInv, NEW t \in Thread,
         ReadLabels(t) \/ OpenLabels(t) \/ WriteLabels(t) \/ LabelWriteFails(t)
  PROVE  LInv'
  <1> USE DEF LInv
  <1>1. LabelTypes /\ job[t].session \in Session /\ job[t].label \in Label \cup {NoLabel}
        /\ NoLabels \in Labels /\ NoJob \in [session : Session, label : Label \cup {NoLabel}]
    BY PortalAssumption, NoLabelsTyped DEF LabelTypes, NoJob, Session
  <1>2. CASE ReadLabels(t)
    <2> DEFINE v == [Parsed(labelFile) EXCEPT ![job[t].session] = job[t].label]
    <2>1. /\ pc[t] = "readLabels" /\ pc' = [pc EXCEPT ![t] = "openLabels"]
          /\ view' = [view EXCEPT ![t] = v] /\ UNCHANGED <<labelFile, confirmed, job>>
          /\ disturbed' = (disturbed \/ Renaming # {})
      BY <1>2 DEF ReadLabels
    <2>2. v \in Labels
      BY <1>1 DEF LabelTypes, Labels
    <2>3. LabelTypes'
      BY <1>1, <2>1, <2>2 DEF LabelTypes, Points, Parsed
    <2>4. ASSUME ~disturbed' PROVE OneRename'
      <3>1. ~disturbed /\ \A u \in Thread : ~Rewriting(u)
        BY <2>1, <2>4, Zenon DEF Renaming, Rewriting
      <3>2. v = [confirmed EXCEPT ![job[t].session] = job[t].label]
        BY <3>1 DEF OneRename, Rewriting
      <3>3. \A u \in Thread : Rewriting(u)' => u = t
        BY <1>1, <2>1, <3>1 DEF LabelTypes, Rewriting
      <3>4. pc'[t] = "openLabels" /\ view'[t] = v /\ \A u \in Thread : pc'[u] # "writeLabels"
        BY <1>1, <2>1, <3>1 DEF LabelTypes, Rewriting
      <3>5. Parsed(labelFile)' = confirmed'
        BY <2>1, <3>1 DEF OneRename, Rewriting, Parsed
      <3> QED
        BY <2>1, <3>2, <3>3, <3>4, <3>5 DEF OneRename
    <2> QED
      BY <2>3, <2>4 DEF OneRename
  <1>3. CASE OpenLabels(t)
    <2>1. /\ pc[t] = "openLabels" /\ pc' = [pc EXCEPT ![t] = "writeLabels"]
          /\ labelFile' = Truncated /\ UNCHANGED <<confirmed, disturbed, job, view>>
      BY <1>3 DEF OpenLabels
    <2>2. LabelTypes'
      BY <1>1, <2>1, NoLabelsTyped DEF LabelTypes, Points, Parsed, Truncated
    <2>3. /\ pc'[t] = "writeLabels"
          /\ \A u \in Thread : Rewriting(u)' <=> Rewriting(u)
      BY <1>1, <2>1 DEF LabelTypes, Rewriting
    <2> QED
      BY <2>1, <2>2, <2>3 DEF OneRename, Truncated, NoLabels
  <1>4. CASE WriteLabels(t)
    <2>1. /\ pc[t] = "writeLabels" /\ pc' = [pc EXCEPT ![t] = "answerRename"]
          /\ labelFile' = Overlaid(labelFile, view[t]) /\ UNCHANGED <<disturbed, job, view>>
          /\ confirmed' = [confirmed EXCEPT ![job[t].session] = job[t].label]
      BY <1>4 DEF WriteLabels
    <2>2. Parsed(labelFile') \in {view[t], NoLabels}
      BY <2>1 DEF Overlaid, Parsed
    <2>3. LabelTypes'
      <3>1. confirmed' \in Labels
        BY <1>1, <2>1 DEF LabelTypes, Labels
      <3>2. Parsed(labelFile)' \in Labels
        BY <1>1, <2>1, <2>2 DEF LabelTypes, Parsed, NoLabels
      <3> QED
        BY <1>1, <2>1, <3>1, <3>2 DEF LabelTypes, Points
    <2>4. ASSUME ~disturbed PROVE OneRename'
      <3>1. /\ labelFile = Truncated /\ \A u \in Thread : Rewriting(u) => u = t
            /\ view[t] = confirmed'
        BY <2>1, <2>4 DEF OneRename, Rewriting
      <3>2. Parsed(labelFile)' = confirmed'
        BY <2>1, <3>1 DEF Overlaid, Parsed, Truncated
      <3>3. \A u \in Thread : ~Rewriting(u)' /\ pc'[u] # "writeLabels"
        BY <1>1, <2>1, <3>1 DEF LabelTypes, Rewriting
      <3> QED
        BY <3>2, <3>3 DEF OneRename
    <2> QED
      BY <2>1, <2>3, <2>4 DEF OneRename
  <1>5. CASE LabelWriteFails(t)
    <2>1. /\ Rewriting(t) /\ pc' = [pc EXCEPT ![t] = "idle"] /\ job' = [job EXCEPT ![t] = NoJob]
          /\ view' = [view EXCEPT ![t] = NoLabels] /\ confirmed' = confirmed
          /\ disturbed' = (disturbed \/ pc[t] = "writeLabels")
      BY <1>5 DEF LabelWriteFails, ThreadDone, Rewriting
    <2>2. labelFile' = labelFile \/ Parsed(labelFile') = NoLabels
      BY <1>5 DEF LabelWriteFails, Parsed
    <2>3. pc[t] = "openLabels" => labelFile' = labelFile
      BY <1>5 DEF LabelWriteFails
    <2>4. LabelTypes'
      <3>1. Parsed(labelFile)' \in Labels
        BY <1>1, <2>2 DEF LabelTypes, Parsed, NoLabels
      <3>2. disturbed' \in BOOLEAN
        BY <1>1, <2>1, Zenon DEF LabelTypes
      <3> QED
        BY <1>1, <2>1, <3>1, <3>2 DEF LabelTypes, Points
    <2>5. ASSUME ~disturbed' PROVE OneRename'
      <3>1. ~disturbed /\ pc[t] = "openLabels"
        BY <2>1, <2>5 DEF Rewriting
      <3>2. \A u \in Thread : pc[u] # "writeLabels" /\ ~Rewriting(u)' /\ pc'[u] # "writeLabels"
        BY <1>1, <2>1, <3>1 DEF OneRename, Rewriting, LabelTypes
      <3>3. Parsed(labelFile)' = confirmed'
        BY <2>1, <2>3, <3>1, <3>2 DEF OneRename, Parsed
      <3> QED
        BY <3>2, <3>3 DEF OneRename
    <2> QED
      BY <2>4, <2>5 DEF OneRename
  <1> QED
    BY <1>2, <1>3, <1>4, <1>5

LEMMA NextLabels == LInv /\ [Next]_vars => LInv'
  <1> SUFFICES ASSUME LInv, [Next]_vars PROVE LInv'
    OBVIOUS
  <1>1. ASSUME NEW t \in Thread,
               ReadLabels(t) \/ OpenLabels(t) \/ WriteLabels(t) \/ LabelWriteFails(t)
        PROVE  LInv'
    BY <1>1, RenameStep
  <1>2. CASE \/ \E s \in Session : SessionProcess(s)
             \/ \E t \in Thread : AnswerRename(t) \/ List(t) \/ Download(t)
             \/ \E t \in Thread, s \in Session, l \in Label : AskRename(t, s, l)
             \/ Producer \/ TakeChunk \/ ClientLeaves
             \/ \E s \in Session, f \in Files : FileRemoved(s, f)
             \/ UNCHANGED vars
    BY <1>2, OthersAreQuiet, QuietKeepsLabels DEF LInv
  <1> QED
    BY <1>1, <1>2 DEF Next, Rename

LEMMA InitLabels == Init => LInv
  <1> SUFFICES ASSUME Init PROVE LInv
    OBVIOUS
  <1>1. LabelTypes
    <2>1. NoJob \in [session : Session, label : Label \cup {NoLabel}]
      BY PortalAssumption DEF NoJob, Session
    <2>2. Parsed(labelFile) = NoLabels
      BY DEF Init, Parsed
    <2> QED
      BY <2>1, <2>2, NoLabelsTyped DEF Init, LabelTypes, Points
  <1> QED
    BY <1>1 DEF LInv, Init, OneRename, Rewriting, Parsed

LEMMA LabelInvariance == Spec => []LInv
  BY InitLabels, NextLabels, PTL DEF Spec

\* Display names survive, for any number of sessions, labels and threads: see
\* LabelsSurvive.
THEOREM LabelsKept == Spec => []LabelsSurvive
  <1>1. LInv => LabelsSurvive
    BY DEF LInv, OneRename, LabelsSurvive, Rewriting
  <1> QED
    BY <1>1, LabelInvariance, PTL

----------------------------------------------------------------------------
(* Types. *)

\* A set of numbers that is not empty has a least one, and a greatest one when
\* it is bounded.
LEMMA LeastElement ==
  ASSUME NEW T \in SUBSET Nat, T # {}
  PROVE  \E x \in T : \A y \in T : x <= y
  <1>1. PICK x \in T : \A y \in T : ~ (<<y, x>> \in OpToRel(<, Nat))
    BY NatLessThanWellFounded, WFMin
  <1>2. ASSUME NEW y \in T, ~(x <= y) PROVE FALSE
    <2>1. y < x /\ x \in Nat /\ y \in Nat
      BY <1>2
    <2>2. <<y, x>> \in OpToRel(<, Nat)
      BY <2>1 DEF OpToRel
    <2> QED
      BY <1>1, <2>2
  <1> QED
    BY <1>2

LEMMA GreatestElement ==
  ASSUME NEW m \in Nat, NEW T \in SUBSET (0 .. m), T # {}
  PROVE  Max(T) \in T /\ \A y \in T : Max(T) >= y
  <1> DEFINE U == {m - x : x \in T}
  <1>1. U \in SUBSET Nat /\ U # {}
    <2>1. \A x \in T : x \in Nat /\ m - x \in Nat
      OBVIOUS
    <2> QED
      BY <2>1
  <1>2. PICK u \in U : \A v \in U : u <= v
    BY <1>1, LeastElement
  <1>3. PICK x \in T : u = m - x
    BY <1>2
  <1>4. ASSUME NEW y \in T PROVE x >= y
    <2>1. u <= m - y
      BY <1>2
    <2> QED
      BY <1>3, <2>1
  <1> QED
    BY <1>4 DEF Max

RestTypes ==
    /\ scenario \in Scenarios
    /\ labelFile \in [kind : {"missing", "empty", "whole", "torn"}, labels : Labels, size : Nat]
    /\ active \in [Thread -> Session \cup {0}]
    /\ removed \in SUBSET (Session \X Files)
    /\ requests \in 0 .. MaxRequests /\ faults \in 0 .. MaxFaults

ArchiveTypes ==
    /\ archive \in [session : Session, pc : {"none", "writing", "closing", "finally", "ended"},
                     listed : SUBSET Files, left : SUBSET Files, open : BOOLEAN,
                     queue : Seq(Chunks), got : SUBSET Chunks, wasOver : BOOLEAN,
                     client : {"none", "asked", "reading", "refused", "complete", "gone"}]
    /\ Len(archive.queue) <= QueueSize

LEMMA TypesTogether == IndexTypes /\ LabelTypes /\ RestTypes /\ ArchiveTypes => TypeOK
  BY DEF IndexTypes, LabelTypes, RestTypes, ArchiveTypes, TypeOK, Points

LEMMA NextRestTypes ==
  ASSUME IndexTypes, LabelTypes, RestTypes, [Next]_vars
  PROVE  RestTypes'
  <1>1. scenario' = scenario
    BY DEF Next, SessionProcess, SessionStarts, RunLeavesFiles, WriteTemporary, ReplaceManifest,
       SessionDies, portalVars, Rename, AskRename, ReadLabels, OpenLabels, WriteLabels,
       LabelWriteFails, AnswerRename, List, AskList, ReadManifest, AnswerList, ListDelivered,
       Download, AskDownload, ListFiles, StatFiles, ResolveFiles, CheckFiles, AnswerDownload,
       downloadRest, Producer, OpenNextFile, WriteFile, AllWritten, CloseArchive, PutEndMark,
       TakeChunk, ClientLeaves, archiveRest, FileRemoved, vars
  <1>2. requests' \in {requests, requests + 1} /\ (requests' # requests => requests < MaxRequests)
    BY DEF Next, SessionProcess, SessionStarts, RunLeavesFiles, WriteTemporary, ReplaceManifest,
       SessionDies, portalVars, Rename, AskRename, Begin, ReadLabels, OpenLabels, WriteLabels,
       LabelWriteFails, AnswerRename, List, AskList, ReadManifest, AnswerList, ListDelivered,
       Download, AskDownload, ListFiles, StatFiles, ResolveFiles, CheckFiles, AnswerDownload,
       downloadRest, Producer, OpenNextFile, WriteFile, AllWritten, CloseArchive, PutEndMark,
       TakeChunk, ClientLeaves, archiveRest, FileRemoved, boundVars, vars
  <1>3. faults' \in {faults, faults + 1} /\ (faults' # faults => faults < MaxFaults)
    BY DEF Next, SessionProcess, SessionStarts, RunLeavesFiles, WriteTemporary, ReplaceManifest,
       SessionDies, portalVars, Rename, AskRename, Begin, ReadLabels, OpenLabels, WriteLabels,
       LabelWriteFails, AnswerRename, List, AskList, ReadManifest, AnswerList, ListDelivered,
       Download, AskDownload, ListFiles, StatFiles, ResolveFiles, CheckFiles, AnswerDownload,
       downloadRest, Producer, OpenNextFile, WriteFile, AllWritten, CloseArchive, PutEndMark,
       TakeChunk, ClientLeaves, archiveRest, FileRemoved, boundVars, vars
  <1>4. removed' \in SUBSET (Session \X Files)
    <2>1. removed' = removed \/ \E s \in Session, f \in Files : removed' = removed \cup {<<s, f>>}
      BY DEF Next, SessionProcess, SessionStarts, RunLeavesFiles, WriteTemporary,
         ReplaceManifest, SessionDies, portalVars, Rename, AskRename, ReadLabels, OpenLabels,
         WriteLabels, LabelWriteFails, AnswerRename, List, AskList, ReadManifest, AnswerList,
         ListDelivered, Download, AskDownload, ListFiles, StatFiles, ResolveFiles, CheckFiles,
         AnswerDownload, downloadRest, Producer, OpenNextFile, WriteFile, AllWritten, CloseArchive,
         PutEndMark, TakeChunk, ClientLeaves, archiveRest, FileRemoved, vars
    <2> QED
      BY <2>1 DEF RestTypes
  <1>5. active' \in [Thread -> Session \cup {0}]
    <2>1. ASSUME NEW t \in Thread, AskList(t) \/ AnswerList(t)
          PROVE  active' \in [Thread -> Session \cup {0}]
      <3> DEFINE R == {s \in Session : shown[t][s] = "running"} \cup {0}
      <3>1. R \in SUBSET (0 .. NumSessions) /\ R # {} /\ NumSessions \in Nat
        BY PortalAssumption DEF Session
      <3>2. Max(R) \in R
        BY <3>1, GreatestElement
      <3>3. ActiveOf(shown[t]) \in Session \cup {0}
        BY <3>2 DEF ActiveOf
      <3> QED
        BY <2>1, <3>3 DEF RestTypes, AskList, AnswerList
    <2>2. active' = active \/ \E t \in Thread : AskList(t) \/ AnswerList(t)
      BY DEF Next, SessionProcess, SessionStarts, RunLeavesFiles, WriteTemporary,
         ReplaceManifest, SessionDies, portalVars, listVars, Rename, AskRename, ReadLabels,
         OpenLabels, WriteLabels, LabelWriteFails, AnswerRename, List, ReadManifest, ListDelivered,
         Download, AskDownload, ListFiles, StatFiles, ResolveFiles, CheckFiles, AnswerDownload,
         downloadRest, Producer, OpenNextFile, WriteFile, AllWritten, CloseArchive, PutEndMark,
         TakeChunk, ClientLeaves, archiveRest, FileRemoved, vars
    <2> QED
      BY <2>1, <2>2 DEF RestTypes
  <1>6. labelFile' \in [kind : {"missing", "empty", "whole", "torn"}, labels : Labels, size : Nat]
    <2> DEFINE LabelFiles == [kind : {"missing", "empty", "whole", "torn"}, labels : Labels,
                              size : Nat]
    <2>1. NoLabels \in Labels /\ labelFile \in LabelFiles /\ \A l \in Labels : TextSize[l] \in Nat
      BY NoLabelsTyped, PortalAssumption DEF RestTypes
    <2>2. ASSUME NEW t \in Thread, OpenLabels(t) PROVE labelFile' \in LabelFiles
      BY <2>1, <2>2 DEF OpenLabels, Truncated
    <2>3. ASSUME NEW t \in Thread, WriteLabels(t) PROVE labelFile' \in LabelFiles
      <3>1. view[t] \in Labels
        BY DEF LabelTypes
      <3> QED
        BY <2>1, <2>3, <3>1 DEF WriteLabels, Overlaid
    <2>4. ASSUME NEW t \in Thread, LabelWriteFails(t) PROVE labelFile' \in LabelFiles
      <3>1. view[t] \in Labels
        BY DEF LabelTypes
      <3>2. PICK written \in 0 .. TextSize[view[t]] - 1 :
              labelFile' = IF written = 0 THEN labelFile
                           ELSE [kind |-> "torn", labels |-> NoLabels,
                                 size |-> Max({labelFile.size, written})]
        BY <2>4 DEF LabelWriteFails
      <3>3. Max({labelFile.size, written}) \in Nat
        BY <2>1, <3>1, <3>2 DEF Max
      <3> QED
        BY <2>1, <3>2, <3>3
    <2>5. \/ labelFile' = labelFile
          \/ \E t \in Thread : OpenLabels(t) \/ WriteLabels(t) \/ LabelWriteFails(t)
      BY DEF Next, SessionProcess, SessionStarts, RunLeavesFiles, WriteTemporary,
         ReplaceManifest, SessionDies, portalVars, labelVars, Rename, AskRename, ReadLabels,
         AnswerRename, List, AskList, ReadManifest, AnswerList, ListDelivered, Download,
         AskDownload, ListFiles, StatFiles, ResolveFiles, CheckFiles, AnswerDownload, downloadRest,
         Producer, OpenNextFile, WriteFile, AllWritten, CloseArchive, PutEndMark, TakeChunk,
         ClientLeaves, archiveRest, FileRemoved, vars
    <2> QED
      BY <2>1, <2>2, <2>3, <2>4, <2>5
  <1> QED
    BY <1>1, <1>2, <1>3, <1>4, <1>5, <1>6, PortalAssumption DEF RestTypes

LEMMA DownloadArchiveTypes ==
  ASSUME IndexTypes, LabelTypes, ArchiveTypes, NEW t \in Thread, Download(t)
  PROVE  ArchiveTypes'
  <1>1. job[t].session \in Session /\ files[job[t].session] \in SUBSET Files
    BY DEF LabelTypes, IndexTypes
  <1>2. NoArchive.queue = <<>> /\ <<>> \in Seq(Chunks) /\ Len(<<>>) = 0 /\ 1 \in Session
    BY PortalAssumption DEF NoArchive, Session
  <1>3. ASSUME NEW s \in Session, AskDownload(t, s) PROVE ArchiveTypes'
    <2>1. archive' = [session |-> s, pc |-> "none", listed |-> {}, left |-> {}, open |-> FALSE,
                      queue |-> <<>>, client |-> "asked", got |-> {}, wasOver |-> (proc[s] = "over")]
      BY <1>3 DEF AskDownload, NoArchive
    <2> QED
      BY <1>2, <2>1, PortalAssumption DEF ArchiveTypes
  <1>4. CASE ListFiles(t)
    BY <1>1, <1>4 DEF ListFiles, ArchiveTypes
  <1>5. CASE StatFiles(t) \/ ResolveFiles(t)
    BY <1>5 DEF StatFiles, ResolveFiles, CheckFiles, ArchiveTypes
  <1>6. CASE AnswerDownload(t)
    BY <1>6 DEF AnswerDownload, ArchiveTypes
  <1> QED
    BY <1>3, <1>4, <1>5, <1>6 DEF Download

LEMMA StreamArchiveTypes ==
  ASSUME ArchiveTypes, Producer \/ TakeChunk \/ ClientLeaves
  PROVE  ArchiveTypes'
  <1> DEFINE q == archive.queue
  <1>1. q \in Seq(Chunks) /\ Len(q) \in Nat /\ Len(q) <= QueueSize /\ QueueSize \in Nat
    BY PortalAssumption, LenProperties DEF ArchiveTypes
  <1>2. \A c \in Chunks : Len(q) < QueueSize =>
          Append(q, c) \in Seq(Chunks) /\ Len(Append(q, c)) <= QueueSize
    BY <1>1, AppendProperties
  <1>3. q # <<>> => /\ Head(q) \in Chunks /\ Tail(q) \in Seq(Chunks)
                    /\ Len(Tail(q)) <= QueueSize
    BY <1>1, HeadTailProperties
  <1> HIDE DEF q
  <1>4. CASE OpenNextFile \/ AllWritten \/ ClientLeaves
    BY <1>4 DEF OpenNextFile, AllWritten, ClientLeaves, ArchiveTypes
  <1>5. CASE WriteFile
    BY <1>2, <1>5 DEF WriteFile, Put, ArchiveTypes, q
  <1>6. CASE CloseArchive
    BY <1>2, <1>6 DEF CloseArchive, Put, ArchiveTypes, q
  <1>7. CASE PutEndMark
    BY <1>2, <1>7 DEF PutEndMark, Put, ArchiveTypes, q
  <1>8. CASE TakeChunk
    BY <1>3, <1>8 DEF TakeChunk, ArchiveTypes, q
  <1> QED
    BY <1>4, <1>5, <1>6, <1>7, <1>8 DEF Producer

LEMMA NextArchiveTypes ==
  ASSUME IndexTypes, LabelTypes, ArchiveTypes, [Next]_vars
  PROVE  ArchiveTypes'
  <1>1. \/ archive' = archive
        \/ \E t \in Thread : Download(t)
        \/ Producer \/ TakeChunk \/ ClientLeaves
    BY DEF Next, SessionProcess, SessionStarts, RunLeavesFiles, WriteTemporary, ReplaceManifest,
       SessionDies, portalVars, Rename, AskRename, ReadLabels, OpenLabels, WriteLabels,
       LabelWriteFails, AnswerRename, List, AskList, ReadManifest, AnswerList, ListDelivered,
       FileRemoved, vars
  <1> QED
    BY <1>1, DownloadArchiveTypes, StreamArchiveTypes DEF ArchiveTypes

LEMMA InitTypes == Init => RestTypes /\ ArchiveTypes
  <1> SUFFICES ASSUME Init PROVE RestTypes /\ ArchiveTypes
    OBVIOUS
  <1>1. RestTypes
    BY NoLabelsTyped, PortalAssumption DEF Init, RestTypes
  <1>2. <<>> \in Seq(Chunks) /\ Len(<<>>) = 0 /\ 1 \in Session
    BY PortalAssumption DEF Session
  <1> QED
    BY <1>1, <1>2, PortalAssumption DEF Init, ArchiveTypes, NoArchive

LEMMA TypesInvariance == Spec => [](RestTypes /\ ArchiveTypes)
  <1>1. IInv /\ LInv /\ RestTypes /\ ArchiveTypes /\ [Next]_vars => (RestTypes /\ ArchiveTypes)'
    BY NextRestTypes, NextArchiveTypes DEF IInv, LInv
  <1> QED
    BY <1>1, InitTypes, ListingInvariance, LabelInvariance, PTL DEF Spec

\* Type correctness of the portal and the sessions beside it, for every value of
\* the constants; the queue of a download never holds more than it may.
THEOREM TypeCorrect == Spec => []TypeOK
  <1>1. IInv /\ LInv /\ RestTypes /\ ArchiveTypes => TypeOK
    BY TypesTogether DEF IInv, LInv
  <1> QED
    BY <1>1, TypesInvariance, ListingInvariance, LabelInvariance, PTL

----------------------------------------------------------------------------
(* The archive. *)

Downloading(t) == pc[t] \in {"listFiles", "statFiles", "resolveFiles", "answerDownload"}
Past(t)        == Downloading(t) /\ pc[t] # "listFiles"

\* One thread serves the download, and hands it over to the archive thread.
OneDownload ==
    /\ \A t, u \in Thread : Downloading(t) /\ Downloading(u) => t = u
    /\ \A t \in Thread : Downloading(t) =>
         archive.client = "asked" /\ job[t].session = archive.session
    /\ archive.client = "none" => archive = NoArchive
    /\ archive.client \in {"none", "asked", "refused"} => archive.pc = "none"
    /\ archive.pc = "none" =>
         /\ archive.queue = <<>> /\ archive.got = {} /\ archive.left = archive.listed
         /\ archive.client \in {"none", "asked", "refused"}
    /\ \A t \in Thread : pc[t] = "listFiles" => archive.listed = {}
    /\ archive.client = "asked" => \E t \in Thread : Downloading(t)

\* What the producer has sent is in the queue or with the client, the end mark last.
Sent == (archive.listed \ archive.left)
          \cup (IF archive.pc \in {"finally", "ended"} THEN {Directory} ELSE {})
          \cup (IF archive.pc = "ended" THEN {EndMark} ELSE {})
Queued == {archive.queue[i] : i \in 1 .. Len(archive.queue)}
Delivery ==
    /\ archive.left \subseteq archive.listed
    /\ archive.open => archive.left # {}
    /\ archive.got \cup Queued \cup (IF archive.client = "complete" THEN {EndMark} ELSE {}) = Sent
    /\ EndMark \notin archive.got
    /\ \A i \in 1 .. Len(archive.queue) : archive.queue[i] = EndMark => i = Len(archive.queue)
    /\ archive.client = "complete" => archive.queue = <<>>

\* A listed file is missing later for one of two reasons, and a session that was over
\* stays as it was unless somebody deletes a file.
Gone(f)    == <<archive.session, f>> \in removed
Listing    == archive.client # "none" /\ \A t \in Thread : pc[t] # "listFiles"
Undeleted  == archive.wasOver /\ \A f \in Files : ~Gone(f)
Explained ==
    /\ \A f \in archive.listed : f \in files[archive.session] \/ f = Temporary \/ Gone(f)
    /\ archive.pc \in {"closing", "finally", "ended"} /\ archive.left # {} =>
         NextPath(archive.left) = Temporary \/ Gone(NextPath(archive.left))
    /\ archive.wasOver => proc[archive.session] = "over"
    /\ Listing /\ Undeleted =>
         /\ archive.listed = files[archive.session]
         /\ archive.pc \in {"closing", "finally", "ended"} => archive.left = {}

AInv == OneDownload /\ Delivery /\ Explained

\* The steps of the sessions and of the other requests.
ArchiveQuiet ==
    /\ UNCHANGED <<archive, removed>>
    /\ \A t \in Thread : Downloading(t)' \/ Downloading(t) => pc'[t] = pc[t] /\ job'[t] = job[t]
    /\ \A s \in Session :
         /\ files[s] \ {Temporary} \subseteq files'[s]
         /\ proc[s] = "over" => proc'[s] = "over" /\ files'[s] = files[s]

LEMMA OthersLeaveArchive ==
  ASSUME IndexTypes, LabelTypes,
         \/ \E s \in Session : SessionProcess(s)
         \/ \E t \in Thread : Rename(t) \/ List(t)
         \/ UNCHANGED vars
  PROVE  ArchiveQuiet
  <1> USE DEF IndexTypes, LabelTypes
  <1>1. ASSUME NEW s \in Session, SessionProcess(s) PROVE ArchiveQuiet
    <2>1. /\ UNCHANGED <<archive, removed, pc, job>>
      BY <1>1 DEF SessionProcess, SessionStarts, RunLeavesFiles, WriteTemporary, ReplaceManifest,
         SessionDies, portalVars
    <2>2. /\ proc[s] \in {"none", "alive"}
          /\ \A q \in Session : q # s => proc'[q] = proc[q] /\ files'[q] = files[q]
          /\ files[s] \ {Temporary} \subseteq files'[s]
      BY <1>1 DEF SessionProcess, SessionStarts, RunLeavesFiles, WriteTemporary, ReplaceManifest,
         SessionDies
    <2> QED
      BY <2>1, <2>2 DEF ArchiveQuiet
  <1>2. ASSUME NEW t \in Thread, Rename(t) \/ List(t) PROVE ArchiveQuiet
    <2>1. UNCHANGED <<archive, removed, proc, files>>
      BY <1>2 DEF Rename, AskRename, ReadLabels, OpenLabels, WriteLabels, LabelWriteFails,
         AnswerRename, List, AskList, ReadManifest, AnswerList, ListDelivered, sessionVars
    <2>2. /\ \A u \in Thread : u # t => pc'[u] = pc[u] /\ job'[u] = job[u]
          /\ pc[t] \in {"idle", "readLabels", "openLabels", "writeLabels", "answerRename",
                       "readManifests", "listed"}
          /\ pc'[t] \in {"idle", "readLabels", "openLabels", "writeLabels", "answerRename",
                        "readManifests", "listed"}
      <3>1. CASE Rename(t)
        BY <3>1 DEF Rename, AskRename, Begin, ReadLabels, OpenLabels, WriteLabels,
           LabelWriteFails, AnswerRename, ThreadDone
      <3>2. CASE List(t)
        BY <3>2 DEF List, AskList, ReadManifest, AnswerList, ListDelivered, ThreadDone
      <3> QED
        BY <1>2, <3>1, <3>2
    <2> QED
      BY <2>1, <2>2 DEF ArchiveQuiet, Downloading
  <1>3. CASE UNCHANGED vars
    BY <1>3 DEF vars, sessionVars, ArchiveQuiet, Downloading
  <1> QED
    BY <1>1, <1>2, <1>3

LEMMA QuietKeepsArchive ==
  ASSUME AInv, IndexTypes, ArchiveTypes, ArchiveQuiet
  PROVE  AInv'
  <1>1. OneDownload'
    BY DEF AInv, OneDownload, ArchiveQuiet, Downloading
  <1>2. Delivery'
    BY DEF AInv, Delivery, Sent, Queued, ArchiveQuiet
  <1>3. Explained'
    <2>1. archive.session \in Session
      BY DEF ArchiveTypes
    <2>2. Listing' <=> Listing
      BY DEF Listing, ArchiveQuiet, Downloading
    <2>3. Undeleted' <=> Undeleted
      BY DEF Undeleted, Gone, ArchiveQuiet
    <2>4. Undeleted => proc[archive.session] = "over"
      BY DEF AInv, Explained, Undeleted
    <2> QED
      BY <2>1, <2>2, <2>3, <2>4 DEF AInv, Explained, Gone, ArchiveQuiet
  <1> QED
    BY <1>1, <1>2, <1>3 DEF AInv

LEMMA RemovalKeepsArchive ==
  ASSUME AInv, IndexTypes, ArchiveTypes, NEW s \in Session, NEW f \in Files, FileRemoved(s, f)
  PROVE  AInv'
  <1>1. /\ UNCHANGED <<archive, pc, job, proc>> /\ archive.session = s
        /\ files' = [files EXCEPT ![s] = @ \ {f}]
        /\ removed' = removed \cup {<<s, f>>}
    BY DEF FileRemoved
  <1>2. OneDownload'
    BY <1>1 DEF AInv, OneDownload, Downloading
  <1>3. Delivery'
    BY <1>1 DEF AInv, Delivery, Sent, Queued
  <1>4. Explained'
    <2>1. Gone(f)' /\ ~Undeleted'
      BY <1>1 DEF Gone, Undeleted
    <2>2. \A g \in files[s] : g = f \/ g \in files'[s]
      BY <1>1 DEF IndexTypes
    <2>3. \A g : Gone(g) => Gone(g)'
      BY <1>1 DEF Gone
    <2> QED
      BY <1>1, <2>1, <2>2, <2>3 DEF AInv, Explained
  <1> QED
    BY <1>2, <1>3, <1>4 DEF AInv

\* The request: it is asked for once, lists the files, looks at them and is answered.
LEMMA DownloadKeepsArchive ==
  ASSUME AInv, IndexTypes, LabelTypes, ArchiveTypes, NEW t \in Thread, Download(t)
  PROVE  AInv'
  <1> DEFINE s == archive.session
  <1>1. /\ UNCHANGED <<proc, files, removed>>
        /\ \A u \in Thread : u # t => pc'[u] = pc[u] /\ job'[u] = job[u]
        /\ OneDownload /\ Delivery /\ Explained
    BY DEF Download, AskDownload, Begin, ListFiles, StatFiles, ResolveFiles, CheckFiles,
       AnswerDownload, ThreadDone, downloadRest, sessionVars, AInv, IndexTypes, LabelTypes
  <1>2. ASSUME NEW q \in Session, AskDownload(t, q) PROVE AInv'
    <2>1. /\ archive = NoArchive /\ pc[t] = "idle" /\ pc'[t] = "listFiles" /\ job'[t].session = q
          /\ archive' = [session |-> q, pc |-> "none", listed |-> {}, left |-> {}, open |-> FALSE,
                         queue |-> <<>>, client |-> "asked", got |-> {},
                         wasOver |-> (proc[q] = "over")]
      BY <1>2 DEF AskDownload, Begin, NoArchive, IndexTypes, LabelTypes
    <2>2. \A u \in Thread : ~Downloading(u)
      BY <1>1, <2>1 DEF OneDownload, NoArchive
    <2>3. OneDownload'
      BY <1>1, <2>1, <2>2 DEF OneDownload, Downloading
    <2>4. Delivery'
      BY <2>1 DEF Delivery, Sent, Queued
    <2>5. Explained'
      BY <1>1, <2>1 DEF Explained, Listing
    <2> QED
      BY <2>3, <2>4, <2>5 DEF AInv
  <1>3. CASE ~\E q \in Session : AskDownload(t, q)
    <2>1. /\ Downloading(t) /\ archive.client = "asked" /\ archive.pc = "none"
          /\ job[t].session = s /\ s \in Session
          /\ \A u \in Thread : u # t => ~Downloading(u) /\ ~Downloading(u)'
      BY <1>1, <1>3 DEF Download, ListFiles, StatFiles, ResolveFiles, CheckFiles, AnswerDownload,
         OneDownload, Downloading, ArchiveTypes
    <2>2. CASE ListFiles(t)
      <3>1. /\ archive' = [archive EXCEPT !.listed = files[s], !.left = files[s]]
            /\ pc'[t] = "statFiles" /\ job'[t] = job[t]
        BY <2>1, <2>2 DEF ListFiles, IndexTypes
      <3>2. OneDownload'
        BY <1>1, <2>1, <3>1 DEF OneDownload, Downloading, ArchiveTypes
      <3>3. Delivery'
        <4>1. archive.queue = <<>> /\ archive.got = {} /\ archive.left = {} /\ ~archive.open
          BY <1>1, <2>1, <2>2 DEF ListFiles, OneDownload, Delivery, ArchiveTypes
        <4>2. /\ archive'.listed = files[s] /\ archive'.left = files[s] /\ archive'.queue = <<>>
              /\ archive'.got = {} /\ archive'.open = FALSE /\ archive'.pc = "none"
              /\ archive'.client = "asked"
          BY <2>1, <3>1, <4>1 DEF ArchiveTypes
        <4>3. Sent' = {} /\ Queued' = {}
          BY <4>2 DEF Sent, Queued
        <4> QED
          BY <4>2, <4>3 DEF Delivery
      <3>4. Explained'
        BY <1>1, <2>1, <3>1 DEF Explained, Listing, Undeleted, Gone, ArchiveTypes
      <3> QED
        BY <3>2, <3>3, <3>4 DEF AInv
    <2>3. CASE StatFiles(t) \/ ResolveFiles(t)
      <3>1. /\ pc[t] \in {"statFiles", "resolveFiles"}
            /\ \/ archive' = archive /\ Past(t)' /\ job'[t] = job[t]
               \/ archive' = [archive EXCEPT !.client = "refused"] /\ ~Downloading(t)'
        BY <2>3 DEF StatFiles, ResolveFiles, CheckFiles, ThreadDone, Past, Downloading, IndexTypes
      <3>2. OneDownload'
        BY <1>1, <2>1, <3>1 DEF OneDownload, Downloading, Past, ArchiveTypes
      <3>3. Delivery'
        BY <1>1, <2>1, <3>1 DEF Delivery, Sent, Queued, ArchiveTypes
      <3>4. Listing
        BY <1>1, <2>1, <3>1 DEF Listing, Downloading
      <3>5. Explained'
        BY <1>1, <2>1, <3>1, <3>4 DEF Explained, Undeleted, Gone, ArchiveTypes
      <3> QED
        BY <3>2, <3>3, <3>5 DEF AInv
    <2>4. CASE AnswerDownload(t)
      <3>1. /\ archive' = [archive EXCEPT !.pc = "writing", !.client = "reading"]
            /\ pc[t] = "answerDownload" /\ ~Downloading(t)'
        BY <2>4 DEF AnswerDownload, ThreadDone, Downloading, IndexTypes
      <3>2. OneDownload'
        BY <1>1, <2>1, <3>1 DEF OneDownload, Downloading, ArchiveTypes
      <3>3. Delivery'
        BY <1>1, <2>1, <3>1 DEF Delivery, Sent, Queued, ArchiveTypes
      <3>4. Listing
        BY <1>1, <2>1, <3>1 DEF Listing, Downloading
      <3>5. Explained'
        BY <1>1, <2>1, <3>1, <3>4 DEF Explained, Undeleted, Gone, ArchiveTypes
      <3> QED
        BY <3>2, <3>3, <3>5 DEF AInv
    <2> QED
      BY <1>3, <2>2, <2>3, <2>4 DEF Download
  <1> QED
    BY <1>2, <1>3

\* The archive thread and the client.
LEMMA StreamKeepsArchive ==
  ASSUME AInv, ArchiveTypes, Producer \/ TakeChunk \/ ClientLeaves
  PROVE  AInv'
  <1> DEFINE q == archive.queue
             n == NextPath(archive.left)
  <1>1. /\ UNCHANGED <<proc, files, removed, pc, job>> /\ archive'.session = archive.session
        /\ archive'.listed = archive.listed /\ archive'.wasOver = archive.wasOver
        /\ archive.client \notin {"none", "asked", "refused"} /\ archive.pc # "none"
        /\ archive'.client \notin {"none", "asked", "refused"} /\ archive'.pc # "none"
        /\ OneDownload /\ Delivery /\ Explained
    BY DEF Producer, OpenNextFile, WriteFile, AllWritten, CloseArchive, PutEndMark, TakeChunk,
       ClientLeaves, archiveRest, downloadRest, sessionVars, AInv, OneDownload, ArchiveTypes
  <1>2. q \in Seq(Chunks) /\ Len(q) \in Nat /\ Listing
    BY <1>1, LenProperties DEF ArchiveTypes, OneDownload, Listing, Downloading
  <1>3. OneDownload'
    BY <1>1 DEF OneDownload, Downloading
  <1>4. /\ EndMark \notin Files /\ EndMark # Directory /\ Directory \notin Files
        /\ Files \subseteq Nat /\ Files \subseteq Chunks /\ Directory \in Chunks /\ EndMark \in Chunks
    BY PortalAssumption DEF EndMark, Files, Directory, Temporary, Chunks
  <1>5. archive.left \subseteq Files /\ archive.listed \subseteq Files
    BY DEF ArchiveTypes
  <1>6. archive.left # {} => n \in archive.left
    <2>1. archive.left \in SUBSET Nat
      BY <1>4, <1>5
    <2>2. archive.left # {} => Min(archive.left) \in archive.left
      BY <2>1, LeastElement DEF Min
    <2> QED
      BY <2>2 DEF NextPath
  <1>7. ASSUME NEW c \in Chunks
        PROVE  /\ Append(q, c) \in Seq(Chunks) /\ Len(Append(q, c)) = Len(q) + 1
               /\ Append(q, c)[Len(q) + 1] = c
               /\ \A i \in 1 .. Len(q) : Append(q, c)[i] = q[i]
               /\ {Append(q, c)[i] : i \in 1 .. Len(Append(q, c))} = Queued \cup {c}
    <2>1. /\ Append(q, c) \in Seq(Chunks) /\ Len(Append(q, c)) = Len(q) + 1
          /\ Append(q, c)[Len(q) + 1] = c
          /\ \A i \in 1 .. Len(q) : Append(q, c)[i] = q[i]
      BY <1>2, AppendProperties
    <2>2. 1 .. Len(Append(q, c)) = (1 .. Len(q)) \cup {Len(q) + 1}
      BY <1>2, <2>1
    <2> QED
      BY <2>1, <2>2 DEF Queued
  <1>8. EndMark \notin archive.listed
    BY <1>4, <1>5
  <1>9. archive.client # "complete" => (archive.pc # "ended" => EndMark \notin Queued)
    BY <1>1, <1>4, <1>8 DEF Delivery, Sent
  <1>10. archive.client = "complete" => archive.pc = "ended"
    BY <1>1, <1>4, <1>8 DEF Delivery, Sent
  <1>11. Delivery'
    <2>1. CASE OpenNextFile
      <3>1. /\ archive'.left = archive.left /\ archive'.queue = q /\ archive'.got = archive.got
            /\ archive'.client = archive.client /\ archive.pc = "writing" /\ archive.left # {}
            /\ archive'.pc \in {"writing", "closing"}
        BY <2>1 DEF OpenNextFile, ArchiveTypes
      <3>2. Sent' = Sent /\ Queued' = Queued
        BY <1>1, <3>1 DEF Sent, Queued
      <3> QED
        BY <1>1, <3>1, <3>2 DEF Delivery
    <2>2. CASE AllWritten
      <3>1. /\ archive'.left = archive.left /\ archive'.queue = q /\ archive'.got = archive.got
            /\ archive'.client = archive.client /\ archive.pc = "writing"
            /\ archive'.pc = "closing" /\ archive'.open = archive.open
        BY <2>2 DEF AllWritten, ArchiveTypes
      <3>2. Sent' = Sent /\ Queued' = Queued
        BY <1>1, <3>1 DEF Sent, Queued
      <3> QED
        BY <1>1, <3>1, <3>2 DEF Delivery
    <2>3. CASE ClientLeaves
      <3>1. /\ archive'.left = archive.left /\ archive'.queue = q /\ archive'.got = archive.got
            /\ archive'.client = "gone" /\ archive.client = "reading"
            /\ archive'.pc = archive.pc /\ archive'.open = archive.open
        BY <2>3 DEF ClientLeaves, ArchiveTypes
      <3>2. Sent' = Sent /\ Queued' = Queued
        BY <1>1, <3>1 DEF Sent, Queued
      <3> QED
        BY <1>1, <3>1, <3>2 DEF Delivery
    <2>4. ASSUME NEW c \in Chunks, archive'.queue = Append(q, c), archive'.got = archive.got,
                 archive'.client = archive.client, archive.pc # "ended", archive.client # "complete",
                 archive'.left \subseteq archive.left, Sent' = Sent \cup {c},
                 archive'.open => archive'.left # {}
          PROVE  Delivery'
      <3>1. Queued' = Queued \cup {c}
        BY <1>7, <2>4 DEF Queued
      <3>2. \A i \in 1 .. Len(q) : q[i] # EndMark
        BY <1>9, <2>4 DEF Queued
      <3>3. \A i \in 1 .. Len(archive'.queue) :
               archive'.queue[i] = EndMark => i = Len(archive'.queue)
        BY <1>2, <1>7, <2>4, <3>2
      <3> QED
        BY <1>1, <2>4, <3>1, <3>3 DEF Delivery
    <2>5. CASE WriteFile
      <3>1. /\ archive'.queue = Append(q, n) /\ archive'.got = archive.got
            /\ archive'.client = archive.client /\ archive.pc = "writing"
            /\ archive'.pc = "writing" /\ archive.open
            /\ archive'.left = archive.left \ {n} /\ archive'.open = FALSE
        BY <2>5 DEF WriteFile, ArchiveTypes
      <3>2. n \in archive.left /\ n \in Chunks /\ n \in archive.listed
        BY <1>1, <1>4, <1>5, <1>6, <3>1 DEF Delivery
      <3>3. Sent' = Sent \cup {n}
        BY <1>1, <3>1, <3>2 DEF Sent
      <3> QED
        BY <1>10, <2>4, <3>1, <3>2, <3>3
    <2>6. CASE CloseArchive
      <3>1. /\ archive'.queue = Append(q, Directory) /\ archive'.got = archive.got
            /\ archive'.client = archive.client /\ archive.pc = "closing"
            /\ archive'.pc = "finally" /\ archive'.left = archive.left
            /\ archive'.open = archive.open
        BY <2>6 DEF CloseArchive, ArchiveTypes
      <3>2. Sent' = Sent \cup {Directory}
        BY <1>1, <3>1 DEF Sent
      <3> QED
        BY <1>1, <1>4, <1>10, <2>4, <3>1, <3>2 DEF Delivery
    <2>7. CASE PutEndMark
      <3>1. /\ archive'.queue = Append(q, EndMark) /\ archive'.got = archive.got
            /\ archive'.client = archive.client /\ archive.pc = "finally"
            /\ archive'.pc = "ended" /\ archive'.left = archive.left
            /\ archive'.open = archive.open
        BY <2>7 DEF PutEndMark, ArchiveTypes
      <3>2. Sent' = Sent \cup {EndMark}
        BY <1>1, <3>1 DEF Sent
      <3> QED
        BY <1>1, <1>4, <1>10, <2>4, <3>1, <3>2 DEF Delivery
    <2>8. CASE TakeChunk
      <3> DEFINE h == Head(q)
                 r == Tail(q)
      <3>1. /\ archive'.queue = r /\ archive'.left = archive.left /\ archive'.pc = archive.pc
            /\ archive'.open = archive.open /\ archive.client = "reading" /\ q # <<>>
            /\ IF h = EndMark
               THEN archive'.client = "complete" /\ archive'.got = archive.got
               ELSE archive'.client = "reading" /\ archive'.got = archive.got \cup {h}
        BY <2>8 DEF TakeChunk, ArchiveTypes
      <3>2. /\ h = q[1] /\ r \in Seq(Chunks) /\ Len(r) = Len(q) - 1 /\ Len(q) \in Nat \ {0}
            /\ \A i \in 1 .. Len(r) : r[i] = q[i + 1]
        BY <1>2, <3>1, HeadTailProperties, EmptySeq
      <3>3. Queued = {h} \cup {r[i] : i \in 1 .. Len(r)}
        <4>1. \A i \in 1 .. Len(q) : i = 1 \/ (i - 1 \in 1 .. Len(r) /\ q[i] = r[i - 1])
          BY <3>2
        <4>2. \A i \in 1 .. Len(r) : i + 1 \in 1 .. Len(q)
          BY <3>2
        <4>3. 1 \in 1 .. Len(q)
          BY <3>2
        <4>4. \A x \in Queued : x = h \/ \E j \in 1 .. Len(r) : x = r[j]
          BY <3>2, <4>1 DEF Queued
        <4>5. h \in Queued /\ \A j \in 1 .. Len(r) : r[j] \in Queued
          BY <3>2, <4>2, <4>3 DEF Queued
        <4> QED
          BY <4>4, <4>5
      <3>4. Queued' = {r[i] : i \in 1 .. Len(r)}
        BY <3>1 DEF Queued
      <3>5. Sent' = Sent
        BY <1>1, <3>1 DEF Sent
      <3>6. \A i \in 1 .. Len(r) : r[i] = EndMark => i = Len(r)
        <4> SUFFICES ASSUME NEW i \in 1 .. Len(r), r[i] = EndMark PROVE i = Len(r)
          OBVIOUS
        <4>1. q[i + 1] = EndMark /\ i + 1 \in 1 .. Len(q)
          BY <3>2
        <4>2. i + 1 = Len(q)
          BY <1>1, <4>1 DEF Delivery
        <4> QED
          BY <3>2, <4>2
      <3>7. h = EndMark => r = <<>>
        <4> SUFFICES ASSUME h = EndMark PROVE r = <<>>
          OBVIOUS
        <4>1. 1 \in 1 .. Len(q) /\ q[1] = EndMark
          BY <3>2
        <4>2. 1 = Len(q)
          BY <1>1, <4>1 DEF Delivery
        <4>3. Len(r) = 0
          BY <3>2, <4>2
        <4> QED
          BY <3>2, <4>3, EmptySeq
      <3>8. archive'.got \cup Queued' \cup (IF archive'.client = "complete" THEN {EndMark} ELSE {})
              = Sent'
        <4>1. archive.got \cup Queued = Sent
          BY <1>1, <3>1 DEF Delivery
        <4> QED
          BY <3>1, <3>3, <3>4, <3>5, <4>1
      <3> QED
        BY <1>1, <3>1, <3>6, <3>7, <3>8 DEF Delivery
    <2> QED
      BY <2>1, <2>2, <2>3, <2>5, <2>6, <2>7, <2>8 DEF Producer
  <1>12. Explained'
    <2>1. /\ Undeleted' <=> Undeleted
          /\ Listing' /\ \A f : Gone(f)' <=> Gone(f)
      BY <1>1, <1>2 DEF Undeleted, Gone, Listing
    <2>2. CASE OpenNextFile
      <3>1. /\ archive'.left = archive.left /\ archive.pc = "writing" /\ archive.left # {}
            /\ \/ archive'.pc = "writing"
               \/ archive'.pc = "closing" /\ n \notin files[archive.session]
        BY <2>2 DEF OpenNextFile, ArchiveTypes
      <3>2. n \in archive.listed /\ n \in Files
        BY <1>1, <1>5, <1>6, <3>1 DEF Delivery
      <3>3. archive'.pc = "closing" => n = Temporary \/ Gone(n)
        BY <1>1, <3>1, <3>2 DEF Explained
      <3>4. archive'.pc = "closing" => ~Undeleted
        BY <1>1, <1>2, <3>1, <3>2 DEF Explained
      <3> QED
        BY <1>1, <2>1, <3>1, <3>3, <3>4, <1>2 DEF Explained
    <2>3. CASE WriteFile
      <3>1. archive'.pc = "writing"
        BY <2>3 DEF WriteFile, ArchiveTypes
      <3> QED
        BY <1>1, <1>2, <2>1, <3>1 DEF Explained
    <2>4. CASE AllWritten
      <3>1. archive'.left = {}
        BY <2>4 DEF AllWritten, ArchiveTypes
      <3> QED
        BY <1>1, <1>2, <2>1, <3>1 DEF Explained
    <2>5. CASE CloseArchive \/ PutEndMark \/ TakeChunk \/ ClientLeaves
      <3>1. /\ archive'.left = archive.left
            /\ archive'.pc \in {"closing", "finally", "ended"} => archive.pc \in {"closing", "finally", "ended"}
        BY <2>5 DEF CloseArchive, PutEndMark, TakeChunk, ClientLeaves, ArchiveTypes
      <3> QED
        BY <1>1, <1>2, <2>1, <3>1 DEF Explained
    <2> QED
      BY <2>2, <2>3, <2>4, <2>5 DEF Producer
  <1> QED
    BY <1>3, <1>11, <1>12 DEF AInv

LEMMA InitArchive == Init => AInv
  BY DEF Init, NoArchive, AInv, OneDownload, Delivery, Explained, Downloading, Sent, Queued,
     Listing

LEMMA NextArchive ==
  ASSUME AInv, IndexTypes, LabelTypes, ArchiveTypes, [Next]_vars
  PROVE  AInv'
  <1>1. CASE \E t \in Thread : Download(t)
    BY <1>1, DownloadKeepsArchive
  <1>2. CASE Producer \/ TakeChunk \/ ClientLeaves
    BY <1>2, StreamKeepsArchive
  <1>3. CASE \E s \in Session, f \in Files : FileRemoved(s, f)
    BY <1>3, RemovalKeepsArchive
  <1>4. CASE \/ \E s \in Session : SessionProcess(s)
             \/ \E t \in Thread : Rename(t) \/ List(t)
             \/ UNCHANGED vars
    BY <1>4, OthersLeaveArchive, QuietKeepsArchive
  <1> QED
    BY <1>1, <1>2, <1>3, <1>4 DEF Next

LEMMA ArchiveInvariance == Spec => []AInv
  <1>1. IInv /\ LInv /\ ArchiveTypes /\ AInv /\ [Next]_vars => AInv'
    BY NextArchive DEF IInv, LInv
  <1> QED
    BY <1>1, InitArchive, TypesInvariance, ListingInvariance, LabelInvariance, PTL DEF Spec

\* An archive delivered to its end holds every listed file before the first one that
\* was deleted by hand; without such a deletion it misses at most the temporary
\* manifest of a running session, and nothing of one that was over when the download
\* was asked for: for every size of the queue and every interleaving of the archive
\* thread, the client and the session process.
THEOREM ArchiveWhole == Spec => []ArchiveIsWhole
  <1>1. ASSUME AInv, IInv, ArchiveTypes, archive.client = "complete"
        PROVE  LET missing == archive.listed \ archive.got
                   deleted == {f \in Files : <<archive.session, f>> \in removed}
               IN  /\ \A f \in missing : f = Temporary \/ \E d \in deleted : d <= f
                   /\ archive.wasOver /\ deleted = {} =>
                        /\ archive.got = files[archive.session] \cup {Directory}
                        /\ disk[archive.session].status \in Terminal
    <2>1. /\ archive.left \subseteq Files /\ archive.listed \subseteq Files
          /\ archive.session \in Session
          /\ archive.pc \in {"none", "writing", "closing", "finally", "ended"}
      BY <1>1 DEF ArchiveTypes
    <2>2. /\ EndMark \notin Files /\ EndMark # Directory /\ Directory \notin Files
          /\ Files \subseteq Nat /\ Temporary \in Nat /\ \A f \in Files : f <= Temporary
      BY PortalAssumption DEF EndMark, Files, Directory, Temporary
    <2>3. /\ archive.queue = <<>> /\ archive.got \cup {EndMark} = Sent /\ EndMark \notin archive.got
      <3>1. archive.queue = <<>> /\ archive.got \cup Queued \cup {EndMark} = Sent
        BY <1>1 DEF AInv, Delivery
      <3>2. Queued = {}
        BY <3>1 DEF Queued
      <3> QED
        BY <1>1, <3>1, <3>2 DEF AInv, Delivery
    <2>4. archive.pc = "ended"
      BY <2>1, <2>2, <2>3 DEF Sent
    <2>5. archive.got = (archive.listed \ archive.left) \cup {Directory}
      BY <2>1, <2>2, <2>3, <2>4 DEF Sent
    <2>6. ASSUME NEW f \in archive.listed \ archive.got
          PROVE  f = Temporary \/ \E d \in Files : <<archive.session, d>> \in removed /\ d <= f
      <3> DEFINE n == NextPath(archive.left)
      <3>1. f \in archive.left /\ archive.left \in SUBSET Nat
        BY <2>1, <2>2, <2>5, <2>6
      <3>2. Min(archive.left) \in archive.left /\ Min(archive.left) <= f
        BY <3>1, LeastElement DEF Min
      <3>3. n \in archive.left /\ n <= f /\ n \in Files
        BY <2>1, <3>2 DEF NextPath
      <3>4. n = Temporary \/ Gone(n)
        BY <1>1, <2>4, <3>1 DEF AInv, Explained
      <3>5. n = Temporary => f = Temporary
        BY <2>1, <2>2, <3>1, <3>3
      <3> QED
        BY <3>3, <3>4, <3>5 DEF Gone
    <2>7. ASSUME archive.wasOver, {f \in Files : <<archive.session, f>> \in removed} = {}
          PROVE  /\ archive.got = files[archive.session] \cup {Directory}
                 /\ disk[archive.session].status \in Terminal
      <3>1. Undeleted
        BY <2>7 DEF Undeleted, Gone
      <3>2. Listing
        BY <1>1, <2>4 DEF AInv, OneDownload, Listing, Downloading
      <3>3. archive.listed = files[archive.session] /\ archive.left = {}
        BY <1>1, <2>4, <3>1, <3>2 DEF AInv, Explained
      <3>4. proc[archive.session] = "over"
        BY <1>1, <2>7 DEF AInv, Explained
      <3>5. disk[archive.session].status \in Terminal
        BY <1>1, <2>1, <3>4 DEF IInv, SessionsInOrder
      <3> QED
        BY <2>5, <3>3, <3>5
    <2> QED
      BY <2>6, <2>7
  <1>2. AInv /\ IInv /\ ArchiveTypes => ArchiveIsWhole
    BY <1>1 DEF ArchiveIsWhole
  <1> QED
    BY <1>2, ArchiveInvariance, TypesInvariance, ListingInvariance, PTL
=============================================================================
