-------------------------- MODULE AlgorithmsProofs --------------------------
(***************************************************************************)
(* Theorems about the calls of Algorithms.tla, for every input.  The       *)
(* inductive invariant says what has been computed; that each answer is    *)
(* what its callers expect is then a fact about the operator alone.        *)
(* Induction over data is done with sets of numbers: a set that holds 0    *)
(* and is closed under successors is Nat.                                  *)
(***************************************************************************)
EXTENDS Algorithms, SequenceTheorems, FiniteSetTheorems, WellFoundedInduction, TLAPS

\* Every set of numbers has a least element, and induction follows.
LEMMA LeastNumber ==
  ASSUME NEW T \in SUBSET Nat, T # {}
  PROVE  \E x \in T : \A y \in T : x <= y
  <1>1. PICK x \in T : \A y \in T : ~ (<<y, x>> \in OpToRel(<, Nat))
    BY NatLessThanWellFounded, WFMin
  <1>2. ASSUME NEW y \in T, ~(x <= y) PROVE FALSE
    <2>1. y < x /\ x \in Nat /\ y \in Nat
      BY <1>2
    <2>2. <<y, x>> \in OpToRel(<, Nat)
      BY <2>1 DEF OpToRel
    <2> QED
      BY <1>1, <2>2
  <1> QED
    BY <1>2

LEMMA LeastBy ==
  ASSUME NEW S, S # {}, NEW f \in [S -> Nat]
  PROVE  \E x \in S : \A y \in S : f[x] <= f[y]
  <1> DEFINE T == {f[x] : x \in S}
  <1>1. T \in SUBSET Nat /\ T # {}
    OBVIOUS
  <1>2. PICK n \in T : \A m \in T : n <= m
    BY <1>1, LeastNumber
  <1> QED
    BY <1>2

LEMMA Successors ==
  ASSUME NEW P \in SUBSET Nat, 0 \in P, \A n \in P : n + 1 \in P
  PROVE  P = Nat
  <1> SUFFICES ASSUME Nat \ P # {} PROVE FALSE
    OBVIOUS
  <1>1. PICK x \in Nat \ P : \A y \in Nat \ P : x <= y
    BY LeastNumber
  <1>2. x - 1 \in Nat /\ x - 1 \notin Nat \ P
    BY <1>1
  <1>3. (x - 1) + 1 \in P
    BY <1>2
  <1> QED
    BY <1>1, <1>3

----------------------------------------------------------------------------
(* Folds.  A fold of a finite set S is the value at S of the function that *)
(* its equation defines on the subsets of S: c[s] is the element that is   *)
(* taken out of s first, op[v][x] the step.                                *)

LEMMA TakenOut ==
  ASSUME NEW S, IsFiniteSet(S), NEW s \in SUBSET S, NEW x \in s
  PROVE  /\ s \ {x} \in SUBSET S /\ Cardinality(s) \in Nat /\ Cardinality(s \ {x}) \in Nat
         /\ Cardinality(s \ {x}) = Cardinality(s) - 1
  <1>1. IsFiniteSet(s)
    BY FS_Subset
  <1>2. IsFiniteSet(s \ {x}) /\ Cardinality(s \ {x}) = Cardinality(s) - 1
    BY <1>1, FS_RemoveElement
  <1>3. Cardinality(s) \in Nat /\ Cardinality(s \ {x}) \in Nat
    BY <1>1, <1>2, FS_CardinalityType
  <1> QED
    BY <1>2, <1>3

\* What holds of the empty set, and of a set when it holds without one element, holds of
\* every subset.
LEMMA SubsetInduction ==
  ASSUME NEW S, IsFiniteSet(S), NEW W, {} \in W,
         \A s \in SUBSET S : s # {} => \E x \in s : s \ {x} \in W => s \in W
  PROVE  \A s \in SUBSET S : s \in W
  <1> DEFINE bad == (SUBSET S) \ W
             size == [s \in bad |-> Cardinality(s)]
  <1> SUFFICES ASSUME bad # {} PROVE FALSE
    OBVIOUS
  <1>1. \A s \in SUBSET S : Cardinality(s) \in Nat
    BY FS_Subset, FS_CardinalityType
  <1>2. size \in [bad -> Nat]
    BY <1>1
  <1>3. PICK s \in bad : \A t \in bad : size[s] <= size[t]
    <2> HIDE DEF bad, size
    <2> QED
      BY <1>2, LeastBy
  <1>4. PICK x \in s : s \ {x} \in W => s \in W
    BY <1>3
  <1>5. s \ {x} \in bad /\ Cardinality(s \ {x}) = Cardinality(s) - 1
    BY <1>3, <1>4, TakenOut
  <1>6. size[s] = Cardinality(s) /\ size[s \ {x}] = Cardinality(s \ {x})
    BY <1>3, <1>5
  <1>7. size[s] <= size[s \ {x}] /\ Cardinality(s) \in Nat
    BY <1>1, <1>3, <1>5
  <1> HIDE DEF size, bad
  <1> QED
    BY <1>5, <1>6, <1>7

LEMMA FoldExists ==
  ASSUME NEW S, IsFiniteSet(S), NEW V, NEW base \in V, NEW op \in [V -> [S -> V]],
         NEW c \in [(SUBSET S) \ {{}} -> S], \A s \in (SUBSET S) \ {{}} : c[s] \in s
  PROVE  \E g \in [SUBSET S -> V] :
           \A s \in SUBSET S : g[s] = IF s = {} THEN base ELSE op[g[s \ {c[s]}]][c[s]]
  <1> DEFINE Level(n) == {s \in SUBSET S : Cardinality(s) <= n}
             Unfold(g, s) == IF s = {} THEN base ELSE op[g[s \ {c[s]}]][c[s]]
             Fits(n) == \E g \in [Level(n) -> V] : \A s \in Level(n) : g[s] = Unfold(g, s)
             P == {n \in Nat : Fits(n)}
  <1>1. \A s \in SUBSET S : /\ Cardinality(s) \in Nat
                            /\ Cardinality(s) <= Cardinality(S)
                            /\ Cardinality(s) = 0 => s = {}
    BY FS_Subset, FS_CardinalityType, FS_EmptySet
  <1>2. \A n, s : s \in Level(n) <=> s \in SUBSET S /\ Cardinality(s) <= n
    OBVIOUS
  <1> HIDE DEF Level
  <1> DEFINE Left(s) == s \ {c[s]}
  <1>3. ASSUME NEW s \in SUBSET S, s # {}
        PROVE  /\ c[s] \in S /\ Left(s) \in SUBSET S
               /\ Cardinality(Left(s)) = Cardinality(s) - 1
    <2>1. c[s] \in s
      BY <1>3
    <2>2. \A x \in s : s \ {x} \in SUBSET S /\ Cardinality(s \ {x}) = Cardinality(s) - 1
      BY TakenOut
    <2> QED
      BY <2>1, <2>2
  <1> HIDE DEF Left
  <1>4. ASSUME NEW n \in Nat, NEW s \in Level(n + 1), s # {}
        PROVE  c[s] \in S /\ Left(s) \in Level(n)
    <2>1. s \in SUBSET S /\ Cardinality(s) <= n + 1 /\ Cardinality(s) \in Nat
      BY <1>1, <1>2
    <2>2. c[s] \in S /\ Cardinality(Left(s)) = Cardinality(s) - 1 /\ Left(s) \in SUBSET S
      BY <1>4, <1>3, <2>1
    <2>3. Cardinality(Left(s)) <= n
      BY <2>1, <2>2
    <2> QED
      BY <1>2, <2>1, <2>2, <2>3
  <1>5. Fits(0)
    <2> DEFINE g == [s \in Level(0) |-> base]
    <2>1. ASSUME NEW s \in Level(0) PROVE s = {}
      <3>1. s \in SUBSET S /\ Cardinality(s) <= 0
        BY <1>2
      <3>2. Cardinality(s) = 0
        BY <1>1, <3>1
      <3> QED
        BY <1>1, <3>1, <3>2
    <2>2. g \in [Level(0) -> V] /\ \A s \in Level(0) : g[s] = Unfold(g, s)
      BY <2>1
    <2> QED
      BY <2>2
  <1>6. ASSUME NEW n \in Nat, Fits(n) PROVE Fits(n + 1)
    <2>1. PICK g \in [Level(n) -> V] : \A s \in Level(n) : g[s] = Unfold(g, s)
      BY <1>6
    <2> DEFINE h == [s \in Level(n + 1) |-> Unfold(g, s)]
    <2>2. ASSUME NEW s \in Level(n + 1) PROVE Unfold(g, s) \in V
      <3>1. CASE s = {}
        BY <3>1
      <3>2. CASE s # {}
        <4>1. g[Left(s)] \in V /\ c[s] \in S
          BY <1>4, <3>2
        <4>2. \A v \in V, x \in S : op[v][x] \in V
          OBVIOUS
        <4>3. op[g[Left(s)]][c[s]] \in V
          BY <4>1, <4>2
        <4>4. Unfold(g, s) = op[g[Left(s)]][c[s]]
          BY <3>2 DEF Left
        <4> QED
          BY <4>3, <4>4
      <3> QED
        BY <3>1, <3>2
    <2>3. h \in [Level(n + 1) -> V]
      BY <2>2
    <2>4. ASSUME NEW s \in Level(n) PROVE h[s] = g[s]
      <3>1. Cardinality(s) <= n + 1
        BY <1>1, <1>2
      <3>2. s \in Level(n + 1)
        BY <1>2, <3>1
      <3> QED
        BY <2>1, <3>2
    <2>5. ASSUME NEW s \in Level(n + 1) PROVE h[s] = Unfold(h, s)
      <3>1. CASE s = {}
        BY <3>1
      <3>2. CASE s # {}
        <4>1. h[Left(s)] = g[Left(s)]
          BY <1>4, <2>4, <3>2
        <4>2. h[s] = op[g[Left(s)]][c[s]]
          BY <3>2 DEF Left
        <4> QED
          BY <3>2, <4>1, <4>2 DEF Left
      <3> QED
        BY <3>1, <3>2
    <2> HIDE DEF h
    <2> QED
      BY <2>3, <2>5
  <1>7. P = Nat
    <2>1. P \in SUBSET Nat /\ \A n : n \in P <=> n \in Nat /\ Fits(n)
      OBVIOUS
    <2> HIDE DEF P, Fits
    <2>2. 0 \in P
      BY <1>5, <2>1
    <2>3. ASSUME NEW n \in P PROVE n + 1 \in P
      <3>1. n \in Nat /\ Fits(n) /\ n + 1 \in Nat
        BY <2>1
      <3> QED
        BY <1>6, <2>1, <3>1
    <2> QED
      BY <2>1, <2>2, <2>3, Successors
  <1>8. Fits(Cardinality(S)) /\ Level(Cardinality(S)) = SUBSET S
    <2>1. Cardinality(S) \in Nat
      BY FS_CardinalityType
    <2>2. Fits(Cardinality(S))
      <3> HIDE DEF Fits
      <3> QED
        BY <1>7, <2>1
    <2>3. \A s : s \in Level(Cardinality(S)) <=> s \in SUBSET S
      BY <1>1, <1>2
    <2> QED
      BY <2>2, <2>3
  <1> QED
    BY <1>8

----------------------------------------------------------------------------
(* What has been answered. *)

IsJob == \/ job \in EnvelopeJobs \/ job \in PreviewJobs \/ job \in SelectionJobs
         \/ job \in GatorJobs \/ job \in IdeJobs \/ job \in ConfigJobs \/ job \in MessageJobs
         \/ job \in StorageJobs \/ job \in AttachJobs \/ job \in PrepareJobs
         \/ job \in WindowsJobs

Page(j, i) == CsvPreview(j.reads[i].length, j.reads[i].later, (i - 1) * j.limit, j.limit)
PagesRead(j) == {i \in 1 .. Len(j.reads) : \A k \in 1 .. i - 1 : Page(j, k).hasMore}
Built(j) == BuildConfig(j.file, j.options)
Recording(j) == Record(j.polls, j.faults, j.kept)

\* What the function of a job's kind may answer.
Answers(j) ==
  CASE j.kind = "envelope" ->
         {DownsampleEnvelope(Drawn(j.values, j.zeroAsGap), j.maxPoints, j.short)}
    [] j.kind = "preview" -> {[i \in 1 .. Cardinality(PagesRead(j)) |-> Page(j, i)]}
    [] j.kind = "selection" -> ManifestSignals(j.signals, j.files, j.moved)
    [] j.kind = "gator" -> {ExportGatorSignals(j.csv, j.duration, j.unwritable)}
    [] j.kind = "ide" -> {ExportIdeSignals(j.channels, j.readable, j.faults, j.size)}
    [] j.kind = "config" -> {[built |-> Built(j), exit |-> Main(Built(j), j.action, j.end)]}
    [] j.kind = "messages" -> {ShownErrors(j.errors, j.reason, j.generic)}
    [] j.kind = "storage" ->
         {ValidateOutputStorage(j.path, j.isDirectory, j.mounts, j.allowLocal, j.faults)}
    [] j.kind = "attach" -> {[i \in 1 .. 2 |-> Attached(j.mounted[i], j.config)]}
    [] j.kind = "prepare" -> {Discover(j.recorder, j.config, j.free, j.clockSet)}
    [] j.kind = "windows" -> {[recording |-> Recording(j),
                               export |-> GatorSamples(Recording(j).file, j.duration)]}

Computed == answer.done => answer.value \in Answers(job)

IInv == IsJob /\ Computed

LEMMA NextKeepsAnswers == IInv /\ [Next]_vars => IInv'
  <1> SUFFICES ASSUME IInv, [Next]_vars PROVE IInv'
    OBVIOUS
  <1>1. job' = job
    BY DEF Next, ReadSignal, ReadPages, SelectFiles, ExportGator, ExportIde, Configure,
       ShowMessages, CheckStorage, AttachTwice, PrepareRecorder, RecordOnWindows, Answer, vars
  <1>2. answer' = answer \/ (answer'.value \in Answers(job))
    <2>1. CASE ReadSignal
      BY <2>1 DEF ReadSignal, Answer, Answers
    <2>2. CASE ReadPages
      BY <2>2 DEF ReadPages, Answer, Answers, PagesRead, Page
    <2>3. CASE SelectFiles
      BY <2>3 DEF SelectFiles, Answer, Answers
    <2>4. CASE ExportGator \/ ExportIde
      BY <2>4 DEF ExportGator, ExportIde, Answer, Answers
    <2>5. CASE Configure
      BY <2>5 DEF Configure, Answer, Answers, Built
    <2>6. CASE ShowMessages \/ CheckStorage
      BY <2>6 DEF ShowMessages, CheckStorage, Answer, Answers
    <2>7. CASE AttachTwice \/ PrepareRecorder
      BY <2>7 DEF AttachTwice, PrepareRecorder, Answer, Answers
    <2>8. CASE RecordOnWindows
      BY <2>8 DEF RecordOnWindows, Answer, Answers, Recording
    <2> QED
      BY <2>1, <2>2, <2>3, <2>4, <2>5, <2>6, <2>7, <2>8 DEF Next, vars
  <1> QED
    BY <1>1, <1>2 DEF IInv, IsJob, Computed

LEMMA AnswersInvariance == Spec => []IInv
  <1>1. Init => IInv
    BY DEF Init, IInv, IsJob, Computed, Waiting
  <1> QED
    BY <1>1, NextKeepsAnswers, PTL DEF Spec

----------------------------------------------------------------------------
(* Output storage. *)

LEMMA GreatestPair ==
  ASSUME NEW S, S # {}, NEW n \in Nat, NEW depth \in [S -> 0 .. n], NEW rank \in [S -> 1 .. 5]
  PROVE  \E k \in S : \A i \in S : depth[k] > depth[i] \/ (depth[k] = depth[i] /\ rank[k] >= rank[i])
  <1> DEFINE distance == [i \in S |-> 6 * (n - depth[i]) + (5 - rank[i])]
  <1>1. \A i \in S : depth[i] \in 0 .. n /\ rank[i] \in 1 .. 5
    OBVIOUS
  <1>2. \A d \in 0 .. n, r \in 1 .. 5 : 6 * (n - d) + (5 - r) \in Nat
    OBVIOUS
  <1>3. distance \in [S -> Nat]
    BY <1>1, <1>2
  <1>4. PICK k \in S : \A i \in S : distance[k] <= distance[i]
    BY <1>3, LeastBy
  <1>5. \A d, e \in 0 .. n, q, r \in 1 .. 5 :
          6 * (n - d) + (5 - q) <= 6 * (n - e) + (5 - r) => d > e \/ (d = e /\ q >= r)
    OBVIOUS
  <1> QED
    BY <1>1, <1>4, <1>5

\* Of the mounts that contain a path one is the deepest, and the last of those by type.
LEMMA DeepestExists ==
  ASSUME NEW j \in StorageJobs,
         NEW matches \in SUBSET (1 .. Len(j.mounts)), matches # {},
         \A i \in matches : IsPrefix(j.mounts[i].point, j.path)
  PROVE  /\ DeepestMatch(j.mounts, matches) \in matches
         /\ \A i \in matches :
              Len(j.mounts[DeepestMatch(j.mounts, matches)].point) >= Len(j.mounts[i].point)
  <1> DEFINE depth == [i \in matches |-> Len(j.mounts[i].point)]
             rank == [i \in matches |-> Rank(j.mounts[i].type)]
             above(k, i) == \/ Len(j.mounts[k].point) > Len(j.mounts[i].point)
                            \/ /\ Len(j.mounts[k].point) = Len(j.mounts[i].point)
                               /\ Rank(j.mounts[k].type) >= Rank(j.mounts[i].type)
             names == {Types[i] : i \in 1 .. Len(Types)}
             m == DeepestMatch(j.mounts, matches)
  <1>1. j.path \in Seq(STRING) /\ j.mounts \in Seq([point : Seq(STRING), type : names])
    BY StorageAssumption
  <1>2. \A type \in names : Rank(type) \in 1 .. 5
    BY DEF Types, Rank
  <1> HIDE DEF names
  <1>3. Len(j.path) \in Nat
    BY <1>1, LenProperties
  <1>4. ASSUME NEW i \in matches
        PROVE  Len(j.mounts[i].point) \in 0 .. Len(j.path) /\ Rank(j.mounts[i].type) \in 1 .. 5
    <2>1. i \in 1 .. Len(j.mounts) /\ IsPrefix(j.mounts[i].point, j.path)
      OBVIOUS
    <2>2. j.mounts[i] \in [point : Seq(STRING), type : names]
      BY <1>1, <2>1, ElementOfSeq
    <2>3. j.mounts[i].point \in Seq(STRING) /\ j.mounts[i].type \in names
      BY <2>2
    <2>4. Len(j.mounts[i].point) \in Nat
      BY <2>3, LenProperties
    <2>5. Len(j.mounts[i].point) <= Len(j.path)
      BY <2>1 DEF IsPrefix
    <2> QED
      BY <1>2, <1>3, <2>3, <2>4, <2>5
  <1>5. depth \in [matches -> 0 .. Len(j.path)] /\ rank \in [matches -> 1 .. 5]
    BY <1>4
  <1>6. PICK k \in matches :
          \A i \in matches : depth[k] > depth[i] \/ (depth[k] = depth[i] /\ rank[k] >= rank[i])
    <2>1. \A n \in Nat : \A d \in [matches -> 0 .. n], r \in [matches -> 1 .. 5] :
            \E k \in matches : \A i \in matches : d[k] > d[i] \/ (d[k] = d[i] /\ r[k] >= r[i])
      BY GreatestPair
    <2> HIDE DEF depth, rank
    <2> QED
      BY <1>3, <1>5, <2>1
  <1>7. \A i \in matches : above(k, i)
    BY <1>6
  <1>8. m = CHOOSE x \in matches : \A i \in matches : above(x, i)
    BY DEF DeepestMatch
  <1>9. m \in matches /\ \A i \in matches : above(m, i)
    <2> HIDE DEF above, m
    <2> QED
      BY <1>7, <1>8
  <1> HIDE DEF m
  <1>10. ASSUME NEW i \in matches PROVE Len(j.mounts[m].point) >= Len(j.mounts[i].point)
    <2>1. /\ above(m, i)
          /\ Len(j.mounts[m].point) \in 0 .. Len(j.path)
          /\ Len(j.mounts[i].point) \in 0 .. Len(j.path)
      BY <1>4, <1>9
    <2> QED
      BY <1>3, <2>1
  <1> QED
    BY <1>9, <1>10 DEF m

\* Storage that is accepted without the local override is NFS, by the mount that decides,
\* and the probe is written to accepted storage only and removed, for every path, every
\* list of mounts and every combination of failing calls.
THEOREM RequiredOutput == Spec => []OutputIsAsRequired
  <1>1. ASSUME IInv, Answered("storage")
        PROVE  /\ job \in StorageJobs
               /\ answer.value = ValidateOutputStorage(job.path, job.isDirectory, job.mounts,
                                                       job.allowLocal, job.faults)
    BY <1>1, KindsAssumption DEF IInv, IsJob, Computed, Answered, Answers
  <1>2. ASSUME IInv PROVE ProbeIsRemoved
    <2>1. \A faults : LET probe == VerifyWritable(faults)
                      IN  /\ probe.left => "unlinkAgain" \in faults
                          /\ probe.ok => ~probe.left
      BY DEF VerifyWritable
    <2>2. \A path, isDirectory, mounts, allowLocal, faults :
            LET v == ValidateOutputStorage(path, isDirectory, mounts, allowLocal, faults)
            IN  /\ v.left => v.probed /\ "unlinkAgain" \in faults
                /\ v.accepted => ~v.left
      <3> SUFFICES ASSUME NEW path, NEW isDirectory, NEW mounts, NEW allowLocal, NEW faults
                   PROVE  LET v == ValidateOutputStorage(path, isDirectory, mounts, allowLocal,
                                                         faults)
                          IN  /\ v.left => v.probed /\ "unlinkAgain" \in faults
                              /\ v.accepted => ~v.left
        OBVIOUS
      <3> DEFINE probe == VerifyWritable(faults)
                 v == ValidateOutputStorage(path, isDirectory, mounts, allowLocal, faults)
      <3>1. /\ (v.left = FALSE \/ (v.left = probe.left /\ v.probed = TRUE))
            /\ v.accepted => v.left = probe.left /\ probe.ok
        BY DEF ValidateOutputStorage
      <3>2. (probe.left => "unlinkAgain" \in faults) /\ (probe.ok => ~probe.left)
        BY <2>1
      <3> HIDE DEF probe, v
      <3> QED
        BY <3>1, <3>2 DEF v
    <2> QED
      BY <1>1, <1>2, <2>2 DEF ProbeIsRemoved
  <1>3. ASSUME IInv PROVE AcceptedOutputIsOnNfs
    <2> SUFFICES ASSUME Answered("storage"), answer.value.accepted, ~job.allowLocal
                 PROVE  LET containing == {i \in 1 .. Len(job.mounts) :
                                             IsPrefix(job.mounts[i].point, job.path)}
                            deepest == {i \in containing : \A j \in containing :
                              Len(job.mounts[i].point) >= Len(job.mounts[j].point)}
                        IN  deepest # {}
                              /\ \E i \in deepest : job.mounts[i].type \in {"nfs", "nfs4"}
      BY DEF AcceptedOutputIsOnNfs
    <2> DEFINE matches == {i \in 1 .. Len(job.mounts) : IsPrefix(job.mounts[i].point, job.path)}
    <2>1. FilesystemType(job.path, job.mounts) \in {"nfs", "nfs4"}
      BY <1>1, <1>3 DEF ValidateOutputStorage
    <2>2. matches # {} /\ job.mounts[DeepestMatch(job.mounts, matches)].type \in {"nfs", "nfs4"}
      BY <2>1 DEF FilesystemType, Unknown
    <2>3. /\ DeepestMatch(job.mounts, matches) \in matches
          /\ \A i \in matches : Len(job.mounts[DeepestMatch(job.mounts, matches)].point)
                                  >= Len(job.mounts[i].point)
      BY <1>1, <1>3, <2>2, DeepestExists
    <2> QED
      BY <2>2, <2>3
  <1>4. IInv => OutputIsAsRequired
    BY <1>2, <1>3 DEF OutputIsAsRequired
  <1> QED
    BY <1>4, AnswersInvariance, PTL
----------------------------------------------------------------------------
(* Preparing a recorder. *)

\* g sums the weights w over the subsets of S, taking out one element after the other.
Sums(g, w, S) ==
  \A s \in SUBSET S :
    g[s] = IF s = {} THEN 0 ELSE g[s \ {CHOOSE x \in s : TRUE}] + w[CHOOSE x \in s : TRUE]

\* A sum of numbers is a number, in whatever order they are taken: there is such a g,
LEMMA WeightsHaveSum ==
  ASSUME NEW S, IsFiniteSet(S), NEW w \in [S -> Nat]
  PROVE  \E g \in [SUBSET S -> Nat] : Sums(g, w, S)
  <1> DEFINE c == [s \in (SUBSET S) \ {{}} |-> CHOOSE x \in s : TRUE]
             op == [v \in Nat |-> [x \in S |-> v + w[x]]]
  <1>1. ASSUME NEW s \in (SUBSET S) \ {{}} PROVE c[s] = (CHOOSE x \in s : TRUE) /\ c[s] \in s
    OBVIOUS
  <1>2. c \in [(SUBSET S) \ {{}} -> S] /\ \A s \in (SUBSET S) \ {{}} : c[s] \in s
    BY <1>1
  <1>3. op \in [Nat -> [S -> Nat]] /\ \A v \in Nat, x \in S : op[v][x] = v + w[x]
    OBVIOUS
  <1> DEFINE Solvable(V, base, o, d) ==
               (\A s \in (SUBSET S) \ {{}} : d[s] \in s)
                 => \E g \in [SUBSET S -> V] : \A s \in SUBSET S :
                      g[s] = IF s = {} THEN base ELSE o[g[s \ {d[s]}]][d[s]]
  <1> HIDE DEF c, op
  <1>4. \A V : \A base \in V : \A o \in [V -> [S -> V]], d \in [(SUBSET S) \ {{}} -> S] :
          Solvable(V, base, o, d)
    BY FoldExists
  <1>5. PICK g \in [SUBSET S -> Nat] :
          \A s \in SUBSET S : g[s] = IF s = {} THEN 0 ELSE op[g[s \ {c[s]}]][c[s]]
    <2>1. Solvable(Nat, 0, op, c)
      <3> HIDE DEF Solvable
      <3> QED
        BY <1>2, <1>3, <1>4
    <2> QED
      BY <1>2, <2>1
  <1>6. ASSUME NEW s \in SUBSET S, s # {}
        PROVE  g[s] = g[s \ {CHOOSE x \in s : TRUE}] + w[CHOOSE x \in s : TRUE]
    <2>1. c[s] \in S /\ s \ {c[s]} \in SUBSET S /\ c[s] = (CHOOSE x \in s : TRUE)
      BY <1>1, <1>2, <1>6
    <2>2. g[s] = g[s \ {c[s]}] + w[c[s]]
      BY <1>3, <1>5, <1>6, <2>1
    <2> QED
      BY <2>1, <2>2
  <1> QED
    BY <1>5, <1>6 DEF Sums

\* and the g of every set is a number.
LEMMA WeightsAddUp ==
  ASSUME NEW S, IsFiniteSet(S), NEW w \in [S -> Nat], NEW g, Sums(g, w, S)
  PROVE  g[S] \in Nat
  <1> DEFINE W == {s \in SUBSET S : g[s] \in Nat}
  <1>1. {} \in W
    <2>1. {} \in SUBSET S
      OBVIOUS
    <2>2. g[{}] = 0
      BY <2>1, Zenon DEF Sums
    <2> QED
      BY <2>1, <2>2
  <1>2. ASSUME NEW s \in SUBSET S, s # {} PROVE \E x \in s : s \ {x} \in W => s \in W
    <2>1. PICK x \in s : x = CHOOSE y \in s : TRUE
      BY <1>2
    <2>2. g[s] = g[s \ {x}] + w[x] /\ w[x] \in Nat
      BY <1>2, <2>1 DEF Sums
    <2>3. s \ {x} \in W => s \in W
      BY <2>2
    <2> QED
      BY <2>3
  <1>3. S \in W
    <2> HIDE DEF W
    <2> QED
      <3>1. \A s \in SUBSET S : s # {} => \E x \in s : s \ {x} \in W => s \in W
        BY <1>2
      <3>2. \A s \in SUBSET S : s \in W
        BY <1>1, <3>1, SubsetInduction
      <3> QED
        BY <3>2
  <1> QED
    BY <1>3

\* The bytes per second of a recorder whose rates are numbers are a number.
LEMMA TotalIsNumber ==
  ASSUME NEW recorder, IsFiniteSet(DOMAIN recorder.channels),
         \A id \in DOMAIN recorder.channels :
           /\ recorder.channels[id].rate \in Nat \cup {Unset}
           /\ recorder.channels[id].subs \in Nat
  PROVE  Total(recorder) \in Nat
  <1> DEFINE S == {id \in DOMAIN recorder.channels :
                     recorder.channels[id].on /\ recorder.channels[id].rate # Unset}
             bytes(id) == recorder.channels[id].rate * recorder.channels[id].subs * 8
             w == [id \in S |-> bytes(id)]
             Unfold(g, s) == IF s = {} THEN 0
                           ELSE g[s \ {CHOOSE x \in s : TRUE}] + bytes(CHOOSE x \in s : TRUE)
             iter == CHOOSE g : g = [s \in SUBSET S |-> Unfold(g, s)]
  <1>1. IsFiniteSet(S)
    BY FS_Subset
  <1>2. ASSUME NEW id \in S PROVE bytes(id) \in Nat
    <2>1. recorder.channels[id].rate \in Nat /\ recorder.channels[id].subs \in Nat
      OBVIOUS
    <2>2. \A a, b \in Nat : a * b * 8 \in Nat
      OBVIOUS
    <2> QED
      BY <2>1, <2>2
  <1>3. w \in [S -> Nat] /\ \A id \in S : w[id] = bytes(id)
    BY <1>2
  <1>4. Total(recorder) = iter[S]
    BY DEF Total, FoldSet, MapThenFoldSet
  <1> HIDE DEF S, bytes, w
  <1>5. PICK g \in [SUBSET S -> Nat] : Sums(g, w, S)
    BY <1>1, <1>3, WeightsHaveSum
  <1>6. g = [s \in SUBSET S |-> Unfold(g, s)]
    BY <1>3, <1>5 DEF Sums
  <1>7. iter = [s \in SUBSET S |-> Unfold(iter, s)]
    BY <1>6
  <1> HIDE DEF iter
  <1>8. Sums(iter, w, S)
    BY <1>3, <1>7 DEF Sums
  <1>9. iter[S] \in Nat
    BY <1>1, <1>3, <1>8, WeightsAddUp
  <1> QED
    BY <1>4, <1>9

LEMMA Monotone ==
  ASSUME NEW a \in Nat, NEW b \in Nat, NEW c \in Nat, NEW d \in Nat, a <= b, c <= d
  PROVE  a * c <= b * d
  <1>1. a * c <= b * c
    OBVIOUS
  <1>2. b * c <= b * d
    OBVIOUS
  <1> QED
    BY <1>1, <1>2

\* The settings change the state and the rate of the channels they name, nothing else.
LEMMA SettingsApplied ==
  ASSUME NEW recorder, NEW requested, NEW timeLimit,
         \A id \in DOMAIN recorder.channels :
           recorder.channels[id] \in [switch : {"self", "children", "none"}, on : BOOLEAN,
                                      rate : Nat \cup {Unset}, subs : Nat],
         \A id \in DOMAIN requested : requested[id].rate \in Nat \cup {Unset}
  PROVE  LET prepared == ApplyRequestedConfiguration(recorder, requested, timeLimit)
         IN  /\ DOMAIN prepared.channels = DOMAIN recorder.channels
             /\ \A id \in DOMAIN recorder.channels :
                  /\ prepared.channels[id].rate \in Nat \cup {Unset}
                  /\ prepared.channels[id].subs \in Nat
                  /\ id \notin DOMAIN requested \/ requested[id].enabled = Unset =>
                       prepared.channels[id].on = recorder.channels[id].on
             /\ timeLimit = Unset => prepared.timeLimit = recorder.timeLimit
  <1> DEFINE Channel == [switch : {"self", "children", "none"}, on : BOOLEAN,
                         rate : Nat \cup {Unset}, subs : Nat]
  <1>1. \A channel \in Channel : \A enabled :
          /\ Enable(channel, enabled).rate = channel.rate
          /\ Enable(channel, enabled).subs = channel.subs
          /\ enabled = Unset => Enable(channel, enabled).on = channel.on
          /\ DOMAIN Enable(channel, enabled) = {"switch", "on", "rate", "subs"}
    BY DEF Enable
  <1>2. \A channel : DOMAIN channel = {"switch", "on", "rate", "subs"} =>
          \A rate : /\ SetRate(channel, rate).rate = (IF rate = Unset THEN channel.rate ELSE rate)
                    /\ SetRate(channel, rate).subs = channel.subs
                    /\ SetRate(channel, rate).on = channel.on
    BY DEF SetRate
  <1> HIDE DEF Channel
  <1>3. \A id \in DOMAIN recorder.channels :
          LET c == recorder.channels[id]
              p == SetRate(Enable(c, requested[id].enabled), requested[id].rate)
          IN  /\ p.rate = (IF requested[id].rate = Unset THEN c.rate ELSE requested[id].rate)
              /\ p.subs = c.subs
              /\ requested[id].enabled = Unset => p.on = c.on
    BY <1>1, <1>2 DEF Channel
  <1>4. \A id \in DOMAIN recorder.channels : /\ recorder.channels[id].rate \in Nat \cup {Unset}
                                             /\ recorder.channels[id].subs \in Nat
    OBVIOUS
  <1> QED
    BY <1>3, <1>4 DEF ApplyRequestedConfiguration, Limit

\* An estimate that is not configured is at least what the channels write.
LEMMA EstimateCovers ==
  ASSUME NEW recorder, Total(recorder) \in Nat
  PROVE  /\ EstimateBytesPerSecond(recorder, Unset) \in Nat
         /\ Total(recorder) <= EstimateBytesPerSecond(recorder, Unset)
  <1>1. \A a, b \in Nat : Max({a, b}) \in Nat /\ b <= Max({a, b})
    <2> SUFFICES ASSUME NEW a \in Nat, NEW b \in Nat PROVE Max({a, b}) \in Nat /\ b <= Max({a, b})
      OBVIOUS
    <2>1. \E x \in {a, b} : \A y \in {a, b} : x >= y
      OBVIOUS
    <2> QED
      BY <2>1 DEF Max
  <1>2. \A n \in Nat : (n * 5) \div 4 \in Nat /\ n <= (n * 5) \div 4
    OBVIOUS
  <1> QED
    BY <1>1, <1>2, SetupAssumption DEF EstimateBytesPerSecond

\* The recorder that is started is the one that was prepared, and one that passes the
\* preflight cannot be filled by the run, for all recorders, settings and free spaces.
THEOREM PreparedRecorder == Spec => []PreparedRecorderIsUsed
  <1>1. ASSUME IInv, Answered("attach")
        PROVE  /\ job \in AttachJobs
               /\ answer.value = [i \in 1 .. 2 |-> Attached(job.mounted[i], job.config)]
    BY <1>1, KindsAssumption DEF IInv, IsJob, Computed, Answered, Answers
  <1>2. ASSUME IInv, Answered("attach"), NEW i \in 1 .. 2, answer.value[i] # Unset
        PROVE  {d \in job.mounted[i] : /\ job.config.serial \in {Unset, d.serial}
                                       /\ job.config.model \in {Unset, d.model}
                                       /\ job.config.path \in {Unset, d.path}} = {answer.value[i]}
    <2> DEFINE fits == {d \in job.mounted[i] : /\ job.config.serial \in {Unset, d.serial}
                                               /\ job.config.model \in {Unset, d.model}
                                               /\ job.config.path \in {Unset, d.path}}
               devices == FilterDevices({d \in job.mounted[i] : job.config.path = Unset
                                           \/ d.path = job.config.path}, job.config)
    <2>1. devices = fits
      BY DEF FilterDevices
    <2>2. answer.value[i] = Attached(job.mounted[i], job.config)
      BY <1>1, <1>2
    <2>3. Cardinality(devices) = 1 /\ answer.value[i] = CHOOSE d \in devices : TRUE
      BY <1>2, <2>2 DEF Attached
    <2>4. IsFiniteSet(fits)
      BY <1>1, <1>2, AttachAssumption, FS_Subset
    <2>5. PICK d : fits = {d}
      BY <2>1, <2>3, <2>4, FS_Singleton
    <2> HIDE DEF fits, devices
    <2>6. answer.value[i] \in fits
      BY <2>1, <2>3, <2>5
    <2> QED
      BY <2>5, <2>6 DEF fits
  <1>3. ASSUME IInv, Answered("attach") PROVE SerialPinsTheRecorder
    <2>1. \A i \in 1 .. 2 : answer.value[i] # Unset =>
            job.config.serial \in {Unset, answer.value[i].serial}
      BY <1>2, <1>3
    <2>2. job.config.serial # Unset /\ answer.value[1] # Unset /\ answer.value[2] # Unset =>
            answer.value[1].serial = answer.value[2].serial
      BY <2>1
    <2> QED
      BY <1>2, <1>3, <2>2 DEF SerialPinsTheRecorder
  <1>4. ASSUME IInv, Answered("prepare")
        PROVE  job \in PrepareJobs
                 /\ answer.value = Discover(job.recorder, job.config, job.free, job.clockSet)
    BY <1>4, KindsAssumption DEF IInv, IsJob, Computed, Answered, Answers
  <1>5. ASSUME IInv, Answered("prepare") PROVE PreparedRecorderFits
    <2> DEFINE applied == ApplyRequestedConfiguration(job.recorder, job.config.requested,
                                                      job.config.timeLimit)
               prepared == answer.value.recorder
               config == job.config
    <2>1. /\ prepared = job.recorder \/ prepared = applied
          /\ ~answer.value.error => prepared = applied /\ CapacityChecked(applied, config, job.free)
      <3> DEFINE checked == CapacityChecked(applied, config, job.free) /\ job.clockSet
      <3>1. answer.value = IF Impossible(job.recorder, config.requested)
                           THEN [error |-> TRUE, recorder |-> job.recorder]
                           ELSE [error |-> ~checked, recorder |-> applied]
        BY <1>4, <1>5, Zenon DEF Discover
      <3> HIDE DEF applied
      <3>2. checked \in BOOLEAN
        OBVIOUS
      <3> HIDE DEF checked
      <3>3. CASE Impossible(job.recorder, config.requested)
        BY <3>1, <3>3
      <3>4. CASE ~Impossible(job.recorder, config.requested)
        <4>1. answer.value.error = ~checked /\ prepared = applied
          BY <3>1, <3>2, <3>4
        <4> QED
          BY <4>1, Zenon DEF checked
      <3> QED
        BY <3>3, <3>4
    <2>2. /\ DOMAIN applied.channels = DOMAIN job.recorder.channels
          /\ \A id \in DOMAIN job.recorder.channels :
               /\ applied.channels[id].rate \in Nat \cup {Unset}
               /\ applied.channels[id].subs \in Nat
               /\ id \notin DOMAIN config.requested \/ config.requested[id].enabled = Unset =>
                    applied.channels[id].on = job.recorder.channels[id].on
          /\ config.timeLimit = Unset => applied.timeLimit = job.recorder.timeLimit
      BY <1>4, <1>5, SettingsApplied, PrepareAssumption
    <2>3. Total(applied) \in Nat
      <3> HIDE DEF applied
      <3> QED
        BY <1>4, <1>5, <2>2, TotalIsNumber, PrepareAssumption
    <2> HIDE DEF applied
    <2>4. ASSUME ~answer.value.error, config.duration # Unset, config.estimate = Unset,
                 NEW stopped \in 0 .. config.remountTimeout
          PROVE  job.free - Total(prepared) * (config.duration + stopped) >= config.minimumFree
      <3> DEFINE estimate == EstimateBytesPerSecond(applied, Unset)
                 spent == Total(applied) * (config.duration + stopped)
                 reserved == estimate * (config.duration + config.remountTimeout)
      <3>1. estimate \in Nat /\ Total(applied) <= estimate
        BY <2>3, EstimateCovers
      <3>2. /\ job.free \in Nat /\ config.minimumFree \in Nat /\ config.remountTimeout \in Nat
            /\ config.duration \in Nat /\ stopped \in Nat /\ stopped <= config.remountTimeout
        BY <1>4, <1>5, <2>4, PrepareAssumption
      <3>3. job.free >= config.minimumFree + reserved
        BY <2>1, <2>4 DEF CapacityChecked, RequiredBytes, WorstCase
      <3> HIDE DEF estimate
      <3>4. spent <= reserved
        BY <2>3, <3>1, <3>2, Monotone
      <3>5. spent \in Nat /\ reserved \in Nat
        BY <2>3, <3>1, <3>2
      <3> HIDE DEF spent, reserved
      <3>6. job.free - spent >= config.minimumFree
        BY <3>2, <3>3, <3>4, <3>5
      <3> QED
        BY <2>1, <2>4, <3>6 DEF spent
    <2> QED
      BY <1>4, <1>5, <2>1, <2>2, <2>4 DEF PreparedRecorderFits
  <1>6. IInv => PreparedRecorderIsUsed
    BY <1>3, <1>5 DEF PreparedRecorderIsUsed, SerialPinsTheRecorder, PreparedRecorderFits, Answered
  <1> QED
    BY <1>6, AnswersInvariance, PTL

----------------------------------------------------------------------------
(* Configuring a session. *)

Ruling == [typed : BOOLEAN, holds : BOOLEAN]

LEMMA RulesAreRulings ==
  /\ \A typed, holds \in BOOLEAN : Rule(typed, holds) \in Ruling
  /\ \A v : Positive(v) \in Ruling /\ NonNegative(v) \in Ruling
  /\ \A c : RunCountRule(c) \in Ruling /\ PeriodHoldsWindow(c) \in Ruling
            /\ WindowRequired(c) \in Ruling
  /\ \A v : Optional(v, Positive(v)) \in Ruling
  <1>1. \A typed, holds \in BOOLEAN : Rule(typed, holds) \in Ruling
    BY DEF Rule, Ruling
  <1>2. \A v : IsNumber(v) \in BOOLEAN /\ (IsNumber(v) => ~AtMost(v, 0)) \in BOOLEAN
                 /\ (IsNumber(v) => ~Less(v, 0)) \in BOOLEAN
    BY DEF IsNumber
  <1>3. \A v : Positive(v) \in Ruling /\ NonNegative(v) \in Ruling
    BY <1>1, <1>2, Zenon DEF Positive, NonNegative
  <1>4. \A c : RunCountRule(c) \in Ruling
    <2> SUFFICES ASSUME NEW c PROVE RunCountRule(c) \in Ruling
      OBVIOUS
    <2> DEFINE holds == c.runCount = Null \/ (c.runCount \notin {NaN, Wrong} /\ c.runCount >= 1)
    <2>1. holds \in BOOLEAN
      OBVIOUS
    <2> HIDE DEF holds
    <2> QED
      BY <1>1, <2>1 DEF RunCountRule, holds
  <1>5. \A c : PeriodHoldsWindow(c) \in Ruling
    <2> SUFFICES ASSUME NEW c PROVE PeriodHoldsWindow(c) \in Ruling
      OBVIOUS
    <2> DEFINE compared == IsNumber(c.period) /\ IsNumber(c.duration)
               holds == compared => ~Less(c.period, c.duration)
    <2>1. compared \in BOOLEAN /\ holds \in BOOLEAN
      OBVIOUS
    <2>2. PeriodHoldsWindow(c) = Rule(compared, holds)
      BY DEF PeriodHoldsWindow
    <2> HIDE DEF compared, holds
    <2> QED
      BY <1>1, <2>1, <2>2
  <1>6. \A v : Optional(v, Positive(v)) \in Ruling
    BY <1>1, <1>3 DEF Optional
  <1>7. \A c : WindowRequired(c) \in Ruling
    BY <1>1 DEF WindowRequired
  <1> QED
    BY <1>1, <1>3, <1>4, <1>5, <1>6, <1>7

\* The beginning of a concatenation.
LEMMA Joined ==
  ASSUME NEW S, NEW s \in Seq(S), NEW t \in Seq(S)
  PROVE  /\ s \o t \in Seq(S) /\ Len(s) \in Nat /\ Len(t) \in Nat
         /\ Len(s \o t) = Len(s) + Len(t)
         /\ \A i \in 1 .. Len(s) : (s \o t)[i] = s[i]
         /\ Len(t) >= 1 => (s \o t)[Len(s) + 1] = t[1]
  BY ConcatProperties, LenProperties

\* The rules about the whole session come first, and those of the mode after them.
LEMMA RulesJoined ==
  ASSUME NEW c, NEW n \in Nat, DOMAIN c.endaq.rates = 1 .. n, NEW R \in SUBSET Ruling,
         \A i \in 1 .. 8 : SessionRules(c)[i] \in R,
         ModeRules(c) \in Seq(R), GatorRules(c) \in Seq(R), EndaqRules(c) \in Seq(R)
  PROVE  /\ Rules(c) \in Seq(R) /\ Len(ModeRules(c)) \in Nat
         /\ \A i \in 1 .. 8 : i \in 1 .. Len(Rules(c)) /\ Rules(c)[i] = SessionRules(c)[i]
         /\ \A i \in 1 .. Len(ModeRules(c)) :
              8 + i \in 1 .. Len(Rules(c)) /\ Rules(c)[8 + i] = ModeRules(c)[i]
  <1> DEFINE Joins(s, t, u) == /\ u \in Seq(R) /\ Len(s) \in Nat /\ Len(t) \in Nat
                               /\ Len(u) = Len(s) + Len(t)
                               /\ \A i \in 1 .. Len(s) : u[i] = s[i]
                               /\ \A i \in 1 .. Len(t) : u[Len(s) + i] = t[i]
             one == SessionRules(c)
             two == one \o ModeRules(c)
             three == two \o GatorRules(c)
  <1>1. one \in Seq(R) /\ Len(one) = 8
    <2>1. \A r1, r2, r3, r4, r5, r6, r7, r8 :
            /\ Len(<<r1, r2, r3, r4, r5, r6, r7, r8>>) = 8
            /\ {r1, r2, r3, r4, r5, r6, r7, r8} \subseteq R =>
                 <<r1, r2, r3, r4, r5, r6, r7, r8>> \in Seq(R)
      OBVIOUS
    <2>2. one = <<one[1], one[2], one[3], one[4], one[5], one[6], one[7], one[8]>>
      BY DEF SessionRules
    <2>3. {one[1], one[2], one[3], one[4], one[5], one[6], one[7], one[8]} \subseteq R
      <3>1. {1, 2, 3, 4, 5, 6, 7, 8} \subseteq 1 .. 8
        OBVIOUS
      <3> HIDE DEF one
      <3> QED
        BY <3>1 DEF one
    <2> HIDE DEF one
    <2> QED
      BY <2>1, <2>2, <2>3
  <1>2. \A s, t \in Seq(R) : Joins(s, t, s \o t)
    <2> SUFFICES ASSUME NEW s \in Seq(R), NEW t \in Seq(R) PROVE Joins(s, t, s \o t)
      OBVIOUS
    <2>1. \A i \in 1 .. Len(t) : Len(s) + i \in 1 .. Len(s) + Len(t) /\ Len(s) + i > Len(s)
                                 /\ (Len(s) + i) - Len(s) = i
      BY LenProperties
    <2> QED
      BY <2>1, ConcatProperties, LenProperties
  <1>3. Joins(one, ModeRules(c), two)
    BY <1>1, <1>2
  <1> HIDE DEF one, two
  <1>4. Joins(two, GatorRules(c), three)
    BY <1>2, <1>3
  <1> HIDE DEF three
  <1>5. Joins(three, EndaqRules(c), Rules(c))
    <2>1. Rules(c) = three \o EndaqRules(c)
      BY DEF Rules, three, two, one
    <2>2. three \in Seq(R) /\ EndaqRules(c) \in Seq(R)
      BY <1>4
    <2> QED
      BY <1>2, <2>1, <2>2
  <1>6. /\ Len(two) = 8 + Len(ModeRules(c)) /\ Len(ModeRules(c)) \in Nat
        /\ Len(three) \in Nat /\ Len(three) >= Len(two)
        /\ Len(Rules(c)) \in Nat /\ Len(Rules(c)) >= Len(three)
    BY <1>1, <1>3, <1>4, <1>5
  <1>7. \A i \in 1 .. Len(two) : i \in 1 .. Len(Rules(c)) /\ Rules(c)[i] = two[i]
    <2>1. \A i \in 1 .. Len(two) : i \in 1 .. Len(three) /\ i \in 1 .. Len(Rules(c))
      BY <1>6
    <2> QED
      BY <1>4, <1>5, <2>1
  <1>8. \A i \in 1 .. 8 : i \in 1 .. Len(two) /\ two[i] = one[i]
    BY <1>1, <1>3, <1>6
  <1>9. \A i \in 1 .. Len(ModeRules(c)) : 8 + i \in 1 .. Len(two) /\ two[8 + i] = ModeRules(c)[i]
    BY <1>1, <1>3, <1>6
  <1> QED
    BY <1>5, <1>6, <1>7, <1>8, <1>9 DEF one

\* Every rule is a ruling.
LEMMA RulesAre ==
  ASSUME NEW c, NEW n \in Nat, DOMAIN c.endaq.rates = 1 .. n
  PROVE  /\ \A i \in 1 .. 8 : SessionRules(c)[i] \in Ruling
         /\ ModeRules(c) \in Seq(Ruling) /\ GatorRules(c) \in Seq(Ruling)
         /\ EndaqRules(c) \in Seq(Ruling)
  <1>1. \A i \in 1 .. 8 : SessionRules(c)[i] \in Ruling
    <2>1. /\ Rule({c.mode, c.policy} \cap {Null, Wrong} = {}, TRUE) \in Ruling
          /\ Rule(TRUE, c.mode \in {"diagnostic", "prognostic"}) \in Ruling
          /\ Rule(TRUE, c.policy \in {"abort", "start_late"}) \in Ruling
          /\ Rule(TRUE, c.gator.enabled \/ c.endaq.enabled) \in Ruling
      BY DEF Rule, Ruling
    <2>2. /\ RunCountRule(c) \in Ruling /\ NonNegative(c.tolerance) \in Ruling
          /\ Optional(c.duration, Positive(c.duration)) \in Ruling
          /\ Optional(c.period, Positive(c.period)) \in Ruling
      BY RulesAreRulings
    <2>3. \A r1, r2, r3, r4, r5, r6, r7, r8 \in Ruling : \A i \in 1 .. 8 :
            <<r1, r2, r3, r4, r5, r6, r7, r8>>[i] \in Ruling
      OBVIOUS
    <2> QED
      BY <2>1, <2>2, <2>3, Zenon DEF SessionRules
  <1>2. ModeRules(c) \in Seq(Ruling)
    <2>1. Rule(TRUE, c.runCount = 1) \in Ruling
      BY DEF Rule, Ruling
    <2>2. \A q, r \in Ruling : <<r>> \in Seq(Ruling) /\ <<q, r>> \in Seq(Ruling)
      OBVIOUS
    <2> QED
      BY <2>1, <2>2, RulesAreRulings DEF ModeRules
  <1>3. GatorRules(c) \in Seq(Ruling)
    BY RulesAreRulings DEF GatorRules
  <1>4. EndaqRules(c) \in Seq(Ruling)
    <2> DEFINE rates == [i \in 1 .. Len(c.endaq.rates) |->
                           Optional(c.endaq.rates[i], Positive(c.endaq.rates[i]))]
    <2>1. <<Positive(c.endaq.timeout)>> \in Seq(Ruling)
      BY RulesAreRulings
    <2>2. Len(c.endaq.rates) = n
      BY DEF Len
    <2>3. rates \in Seq(Ruling)
      BY <2>2, RulesAreRulings
    <2> HIDE DEF rates
    <2>4. <<Positive(c.endaq.timeout)>> \o rates \in Seq(Ruling)
      BY <2>1, <2>3, Joined
    <2> QED
      BY <2>4 DEF EndaqRules, rates
  <1> QED
    BY <1>1, <1>2, <1>3, <1>4

\* A configuration that is accepted obeys the rules of the session and of its mode.
LEMMA AcceptedObeys ==
  ASSUME NEW c, Validate(c).outcome = "accepted", NEW n \in Nat, DOMAIN c.endaq.rates = 1 .. n
  PROVE  /\ Validate(c).config = c
         /\ \A i \in 1 .. 8 : SessionRules(c)[i].typed /\ SessionRules(c)[i].holds
         /\ \A i \in 1 .. Len(ModeRules(c)) : ModeRules(c)[i].holds
  <1>1. Validate(c).config = c
          /\ \A i \in 1 .. Len(Rules(c)) : Rules(c)[i].typed /\ Rules(c)[i].holds
    BY DEF Validate, Refused
  <1>2. /\ \A i \in 1 .. 8 : i \in 1 .. Len(Rules(c)) /\ Rules(c)[i] = SessionRules(c)[i]
        /\ \A i \in 1 .. Len(ModeRules(c)) :
             8 + i \in 1 .. Len(Rules(c)) /\ Rules(c)[8 + i] = ModeRules(c)[i]
    BY RulesAre, RulesJoined
  <1> QED
    BY <1>1, <1>2

\* What an accepted configuration says of its schedule.
LEMMA AcceptedRuns ==
  ASSUME NEW c, Validate(c).outcome = "accepted", NEW n \in Nat, DOMAIN c.endaq.rates = 1 .. n,
         c.duration \in Int \cup {Null, NaN, Wrong}, c.period \in Int \cup {Null, NaN, Wrong}
  PROVE  /\ c.runCount = Null \/ c.runCount >= 1
         /\ c.mode = "diagnostic" => c.runCount = 1
         /\ c.mode = "prognostic" /\ NaN \notin {c.duration, c.period} =>
              c.duration > 0 /\ c.period >= c.duration
         /\ c.gator.enabled \/ c.endaq.enabled
  <1>1. /\ \A i \in 1 .. 8 : SessionRules(c)[i].typed /\ SessionRules(c)[i].holds
        /\ \A i \in 1 .. Len(ModeRules(c)) : ModeRules(c)[i].holds
    BY AcceptedObeys, Zenon
  <1>2. /\ SessionRules(c)[3] = RunCountRule(c)
        /\ SessionRules(c)[4] = Optional(c.duration, Positive(c.duration))
        /\ SessionRules(c)[5] = Optional(c.period, Positive(c.period))
        /\ SessionRules(c)[8] = Rule(TRUE, c.gator.enabled \/ c.endaq.enabled)
    BY DEF SessionRules
  <1>3. /\ RunCountRule(c).holds
        /\ Optional(c.duration, Positive(c.duration)).typed
        /\ Optional(c.duration, Positive(c.duration)).holds
        /\ Optional(c.period, Positive(c.period)).typed
        /\ Rule(TRUE, c.gator.enabled \/ c.endaq.enabled).holds
    <2>1. 3 \in 1 .. 8 /\ 4 \in 1 .. 8 /\ 5 \in 1 .. 8 /\ 8 \in 1 .. 8
      OBVIOUS
    <2> QED
      BY <1>1, <1>2, <2>1, Zenon
  <1>4. c.runCount = Null \/ c.runCount >= 1
    <2> DEFINE holds == c.runCount = Null \/ (c.runCount \notin {NaN, Wrong} /\ c.runCount >= 1)
    <2>1. RunCountRule(c).holds = holds
      BY DEF RunCountRule, Rule
    <2> QED
      BY <1>3, <2>1, Zenon
  <1>5. c.gator.enabled \/ c.endaq.enabled
    <2>1. Rule(TRUE, c.gator.enabled \/ c.endaq.enabled).holds = (c.gator.enabled \/ c.endaq.enabled)
      BY DEF Rule
    <2> QED
      BY <1>3, <2>1, Zenon
  <1>6. ASSUME NEW v \in {c.duration, c.period}, v # Null PROVE v \in Int \cup {NaN}
    <2>1. Optional(v, Positive(v)).typed
      BY <1>3, <1>6, Zenon
    <2>2. Optional(v, Positive(v)).typed = IsNumber(v)
      BY <1>6 DEF Optional, Positive, Rule
    <2>3. IsNumber(v)
      BY <2>1, <2>2, Zenon
    <2> QED
      BY <1>6, <2>3 DEF IsNumber
  <1>7. c.mode = "diagnostic" => c.runCount = 1
    <2> SUFFICES ASSUME c.mode = "diagnostic" PROVE c.runCount = 1
      OBVIOUS
    <2>1. 1 \in 1 .. Len(ModeRules(c)) /\ ModeRules(c)[1] = Rule(TRUE, c.runCount = 1)
      BY DEF ModeRules
    <2>2. Rule(TRUE, c.runCount = 1).holds = (c.runCount = 1)
      BY DEF Rule
    <2> QED
      BY <1>1, <2>1, <2>2, Zenon
  <1>8. ASSUME c.mode = "prognostic", NaN \notin {c.duration, c.period}
        PROVE  c.duration > 0 /\ c.period >= c.duration
    <2>0. WindowRequired(c).holds /\ PeriodHoldsWindow(c).holds
      <3>1. /\ 1 \in 1 .. Len(ModeRules(c)) /\ 2 \in 1 .. Len(ModeRules(c))
            /\ ModeRules(c)[1] = WindowRequired(c) /\ ModeRules(c)[2] = PeriodHoldsWindow(c)
        BY <1>8 DEF ModeRules
      <3> QED
        BY <1>1, <3>1
    <2>1. Null \notin {c.duration, c.period}
      BY <2>0 DEF WindowRequired, Rule
    <2>2. c.duration \in Int /\ c.period \in Int
      BY <1>6, <1>8, <2>1
    <2>3. IsNumber(c.duration) /\ IsNumber(c.period)
      <3>1. Optional(c.duration, Positive(c.duration)).typed = IsNumber(c.duration)
            /\ Optional(c.period, Positive(c.period)).typed = IsNumber(c.period)
        BY <2>1 DEF Optional, Positive, Rule
      <3> QED
        BY <1>3, <3>1, Zenon
    <2>4. ~AtMost(c.duration, 0)
      <3>1. Optional(c.duration, Positive(c.duration)).holds
              = (IsNumber(c.duration) => ~AtMost(c.duration, 0))
        BY <2>1 DEF Optional, Positive, Rule
      <3> QED
        BY <1>3, <2>3, <3>1, Zenon
    <2>5. ~Less(c.period, c.duration)
      <3>1. PeriodHoldsWindow(c).holds
              = (IsNumber(c.period) /\ IsNumber(c.duration) => ~Less(c.period, c.duration))
        BY DEF PeriodHoldsWindow, Rule
      <3> QED
        BY <2>0, <2>3, <3>1, Zenon
    <2>6. ~(c.duration <= 0)
      <3>1. c.duration # NaN /\ 0 # NaN
        BY <1>8, NumbersAssumption
      <3> QED
        BY <2>4, <3>1 DEF AtMost
    <2>7. ~(c.period < c.duration)
      BY <1>8, <2>5 DEF Less
    <2> QED
      BY <2>2, <2>6, <2>7
  <1> QED
    BY <1>4, <1>5, <1>7, <1>8

\* The configuration that a file and options make, the setting of a key, and what argparse
\* makes of the options of a section.
Configured(j) ==
  LET file == Override(j.file, j.options)
  IN  [mode |-> Given(file, "mode"), runCount |-> Given(file, "runCount"),
       duration |-> Given(file, "duration"), period |-> Given(file, "period"),
       tolerance |-> Given(file, "tolerance"), policy |-> Given(file, "policy"),
       gator |-> Section(file.gator), endaq |-> Section(file.endaq)]

Chosen(file, options, key) ==
  IF key = "duration" /\ options.manual THEN Null
  ELSE IF key = "runCount" /\ options.untilStopped THEN Null
  ELSE Either(options.scalars[key], Given(file, key))

ChosenSection(config, section, option) ==
  /\ config \in Sections
  /\ config.enabled = Either(option.enabled, Section(section).enabled)
  /\ config.timeout = Either(option.timeout, Section(section).timeout)
  /\ config.rates = Section(section).rates

SectionOptions == [enabled : BOOLEAN \cup {Absent}, timeout : Int \cup {Absent, NaN}]

\* A configuration is validated unless the file is refused first.
LEMMA BuiltIs ==
  ASSUME NEW j
  PROVE  \/ Built(j) = Refused("ConfigError")
         \/ /\ Built(j) = Validate(Configured(j))
            /\ {j.file.gator, j.file.endaq} \cap {Null, Wrong} = {}
  BY DEF Built, BuildConfig, SessionConfigFromMapping, Configured

\* A session runs with the options, and with the file or the default where no option is
\* given.
LEMMA OptionsOverride ==
  ASSUME NEW file, NEW options,
         DOMAIN file = {"readable", "scalars", "gator", "endaq", "extra"}
  PROVE  /\ \A key \in ScalarKeys :
              Given(Override(file, options), key) = Chosen(file, options, key)
         /\ Override(file, options).gator = SectionOverride(file.gator, options.gator)
         /\ Override(file, options).endaq = SectionOverride(file.endaq, options.endaq)
  <1> DEFINE given == {k \in ScalarKeys : options.scalars[k] # Absent}
             known == DOMAIN file.scalars \cup given \cup Cleared(options)
             scalars == [k \in known |-> IF k \in Cleared(options) THEN Null
                                         ELSE IF k \in given THEN options.scalars[k]
                                         ELSE file.scalars[k]]
  <1>1. /\ Override(file, options).scalars = scalars
        /\ Override(file, options).gator = SectionOverride(file.gator, options.gator)
        /\ Override(file, options).endaq = SectionOverride(file.endaq, options.endaq)
    <2> DEFINE laid(s, g, e) == [file EXCEPT !.scalars = s, !.gator = g, !.endaq = e]
    <2>1. \A s, g, e : /\ laid(s, g, e).scalars = s /\ laid(s, g, e).gator = g
                       /\ laid(s, g, e).endaq = e
      OBVIOUS
    <2>2. Override(file, options)
            = laid(scalars, SectionOverride(file.gator, options.gator),
                   SectionOverride(file.endaq, options.endaq))
      BY DEF Override
    <2> HIDE DEF laid, scalars
    <2> QED
      BY <2>1, <2>2
  <1> SUFFICES ASSUME NEW key \in ScalarKeys
               PROVE  Given(Override(file, options), key) = Chosen(file, options, key)
    BY <1>1
  <1> HIDE DEF given, known, scalars
  <1>3. key \in Cleared(options) <=> \/ key = "duration" /\ options.manual
                                     \/ key = "runCount" /\ options.untilStopped
    BY DEF Cleared
  <1>4. Given(Override(file, options), key) =
          IF key \in known THEN scalars[key] ELSE Defaults[key]
    BY <1>1 DEF Given, scalars
  <1>5. key \in known => scalars[key] = IF key \in Cleared(options) THEN Null
                                        ELSE IF key \in given THEN options.scalars[key]
                                        ELSE file.scalars[key]
    BY DEF scalars
  <1>6. /\ key \in known <=> \/ key \in DOMAIN file.scalars \/ key \in given
                             \/ key \in Cleared(options)
        /\ key \in given <=> options.scalars[key] # Absent
    BY DEF known, given
  <1> QED
    BY <1>3, <1>4, <1>5, <1>6 DEF Given, Chosen, Either

\* So does a section of it, which is an object then.
LEMMA SectionOverridden ==
  ASSUME NEW section \in Sections \cup {Absent}, NEW option \in SectionOptions
  PROVE  ChosenSection(Section(SectionOverride(section, option)), section, option)
  <1> DEFINE base == Section(section)
             enabled == Either(option.enabled, base.enabled)
             timeout == Either(option.timeout, base.timeout)
             s == SectionOverride(section, option)
  <1>1. base \in Sections
    <2>1. [enabled |-> FALSE, timeout |-> 30, rates |-> <<>>] \in Sections
      <3>1. <<>> \in Seq(Numbers) /\ 30 \in Numbers
        BY DEF Numbers
      <3> QED
        BY <3>1 DEF Sections
    <2> QED
      BY <2>1 DEF Section
  <1>2. enabled \in BOOLEAN /\ timeout \in Numbers
    <2>1. base.enabled \in BOOLEAN /\ base.timeout \in Numbers
      BY <1>1 DEF Sections
    <2>2. option.enabled \in BOOLEAN \cup {Absent} /\ option.timeout \in Int \cup {Absent, NaN}
      BY DEF SectionOptions
    <2> HIDE DEF base
    <2> QED
      BY <2>1, <2>2 DEF Either, Numbers
  <1>3. s = [enabled |-> enabled, timeout |-> timeout, rates |-> base.rates]
    <2>1. s = [base EXCEPT !.enabled = enabled, !.timeout = timeout]
      BY DEF SectionOverride
    <2> HIDE DEF base, enabled, timeout
    <2> QED
      BY <1>1, <2>1 DEF Sections
  <1> HIDE DEF enabled, timeout
  <1>4. s \in Sections
    BY <1>1, <1>2, <1>3 DEF Sections
  <1>5. Section(s) = s
    BY <1>4, SectionsAssumption DEF Section
  <1> HIDE DEF base
  <1> QED
    BY <1>3, <1>4, <1>5 DEF ChosenSection, enabled, timeout, base

\* What a configuration that is validated consists of.
LEMMA ConfiguredIs ==
  ASSUME NEW j \in ConfigJobs, {j.file.gator, j.file.endaq} \cap {Null, Wrong} = {}
  PROVE  /\ \A key \in ScalarKeys : Configured(j)[key] = Chosen(j.file, j.options, key)
         /\ ChosenSection(Configured(j).gator, j.file.gator, j.options.gator)
         /\ ChosenSection(Configured(j).endaq, j.file.endaq, j.options.endaq)
  <1> DEFINE file == Override(j.file, j.options)
             c == Configured(j)
  <1>1. /\ DOMAIN j.file = {"readable", "scalars", "gator", "endaq", "extra"}
        /\ {j.file.gator, j.file.endaq} \subseteq Sections \cup {Absent}
        /\ {j.options.gator, j.options.endaq} \subseteq SectionOptions
    BY ConfigAssumption DEF SectionOptions
  <1>2. /\ \A key \in ScalarKeys : Given(file, key) = Chosen(j.file, j.options, key)
        /\ file.gator = SectionOverride(j.file.gator, j.options.gator)
        /\ file.endaq = SectionOverride(j.file.endaq, j.options.endaq)
    BY <1>1, OptionsOverride
  <1> HIDE DEF file
  <1>3. /\ \A key \in ScalarKeys : c[key] = Given(file, key)
        /\ c.gator = Section(file.gator) /\ c.endaq = Section(file.endaq)
    <2>1. ScalarKeys = {"mode", "runCount", "duration", "period", "tolerance", "policy"}
      BY DEF ScalarKeys, Defaults
    <2> QED
      BY <2>1 DEF Configured, file
  <1> HIDE DEF c
  <1>4. /\ ChosenSection(c.gator, j.file.gator, j.options.gator)
        /\ ChosenSection(c.endaq, j.file.endaq, j.options.endaq)
    BY <1>1, <1>2, <1>3, SectionOverridden
  <1> QED
    BY <1>2, <1>3, <1>4 DEF c

\* The configuration a session runs with is the one the file and the options ask for, and
\* one the schedule can run, for every file and all options.
THEOREM SoundConfiguration == Spec => []ConfigurationIsSound
  <1>1. ASSUME IInv, Answered("config"), Accepted
        PROVE  AcceptedConfigsRun /\ OptionsOverrideOnlyTheirs
    <2> DEFINE c == Configured(job)
    <2>1. job \in ConfigJobs /\ answer.value.built = Built(job)
      BY <1>1, KindsAssumption DEF IInv, IsJob, Computed, Answered, Answers
    <2>2. /\ answer.value.built = Validate(c) /\ Validate(c).outcome = "accepted"
          /\ {job.file.gator, job.file.endaq} \cap {Null, Wrong} = {}
      <3>1. Built(job) # Refused("ConfigError")
        BY <1>1, <2>1 DEF Accepted, Refused
      <3> QED
        BY <1>1, <2>1, <3>1, BuiltIs DEF Accepted
    <2>3. /\ \A key \in ScalarKeys : c[key] = Chosen(job.file, job.options, key)
          /\ c.endaq.rates \in Seq(Numbers)
      BY <2>1, <2>2, ConfiguredIs DEF ChosenSection, Sections
    <2>4. \E n \in Nat : DOMAIN c.endaq.rates = 1 .. n
      BY <2>3, LenProperties
    <2>5. c.duration \in Int \cup {Null, NaN, Wrong} /\ c.period \in Int \cup {Null, NaN, Wrong}
      <3>1. \A key \in {"duration", "period"} : key \in ScalarKeys /\ Defaults[key] = Null
        BY DEF ScalarKeys, Defaults
      <3>2. \A key \in {"duration", "period"} : Given(job.file, key) \in Numbers
        <4>1. ASSUME NEW key \in {"duration", "period"} PROVE Given(job.file, key) \in Numbers
          <5>1. key \in DOMAIN job.file.scalars => job.file.scalars[key] \in Numbers
            BY <2>1, ConfigAssumption
          <5> QED
            BY <3>1, <5>1 DEF Given, Numbers
        <4> QED
          BY <4>1
      <3>3. \A key \in {"duration", "period"} :
              Chosen(job.file, job.options, key) \in Int \cup {Null, NaN, Wrong}
        BY <2>1, <3>2, ConfigAssumption DEF Chosen, Either, Numbers
      <3>4. c["duration"] \in Int \cup {Null, NaN, Wrong} /\ c["period"] \in Int \cup {Null, NaN, Wrong}
        BY <2>3, <3>1, <3>3
      <3> HIDE DEF c
      <3> QED
        BY <3>4
    <2> HIDE DEF c
    <2>7. /\ c.runCount = Null \/ c.runCount >= 1
          /\ c.mode = "diagnostic" => c.runCount = 1
          /\ c.mode = "prognostic" /\ NaN \notin {c.duration, c.period} =>
               c.duration > 0 /\ c.period >= c.duration
          /\ c.gator.enabled \/ c.endaq.enabled
      BY <2>2, <2>4, <2>5, AcceptedRuns
    <2>8. Config = c
      <3>1. Validate(c).config = c
        BY <2>2 DEF Validate, Refused
      <3> QED
        BY <2>2, <3>1 DEF Config
    <2>9. AcceptedConfigsRun
      BY <2>7, <2>8 DEF AcceptedConfigsRun
    <2>10. OptionsOverrideOnlyTheirs
      BY <2>1, <2>2, <2>8, ConfiguredIs DEF OptionsOverrideOnlyTheirs, Chosen,
         ChosenSection, c
    <2> QED
      BY <2>9, <2>10
  <1>2. IInv => ConfigurationIsSound
    BY <1>1 DEF ConfigurationIsSound, AcceptedConfigsRun, OptionsOverrideOnlyTheirs
  <1> QED
    BY <1>2, AnswersInvariance, PTL

----------------------------------------------------------------------------
(* The exit status. *)

TypedRuling == {r \in Ruling : r.typed}

\* The rule that decides is the first that is broken.
LEMMA FirstBroken ==
  ASSUME NEW c, Validate(c).outcome \notin {"accepted", "ConfigError"}
  PROVE  \E first \in 1 .. Len(Rules(c)) :
           /\ ~Rules(c)[first].typed
           /\ \A i \in 1 .. Len(Rules(c)) : ~Rules(c)[i].holds => first <= i
  <1> DEFINE broken == {i \in 1 .. Len(Rules(c)) : ~Rules(c)[i].typed \/ ~Rules(c)[i].holds}
             first == CHOOSE i \in broken : \A j \in broken : i <= j
  <1>1. broken # {} /\ ~Rules(c)[first].typed
    BY DEF Validate, Refused
  <1>2. first \in broken /\ \A j \in broken : first <= j
    <2>1. broken \in SUBSET Nat
      OBVIOUS
    <2>2. \E i \in broken : \A j \in broken : i <= j
      <3> HIDE DEF broken
      <3> QED
        BY <1>1, <2>1, LeastNumber
    <2> HIDE DEF broken
    <2> QED
      BY <2>2
  <1> HIDE DEF first
  <1> QED
    BY <1>1, <1>2

\* A configuration whose values have their types breaks no rule that cannot be applied
\* to it: a rule that it breaks comes first.
LEMMA TypedConfigsAreNamed ==
  ASSUME NEW c, {c.gator, c.endaq} \subseteq Sections,
         {c.mode, c.policy} \cap {Null, Wrong} = {},
         IsNumber(c.tolerance), Wrong \notin {c.duration, c.period},
         IsNumber(c.gator.timeout), IsNumber(c.endaq.timeout),
         \A i \in DOMAIN c.endaq.rates : c.endaq.rates[i] # Wrong
  PROVE  Validate(c).outcome \in {"accepted", "ConfigError"}
  <1> SUFFICES ASSUME Validate(c).outcome \notin {"accepted", "ConfigError"} PROVE FALSE
    OBVIOUS
  <1>1. TypedRuling \in SUBSET Ruling /\ \A r \in Ruling : r.typed => r \in TypedRuling
    BY DEF TypedRuling
  <1>2. \A v : IsNumber(v) => Positive(v).typed /\ NonNegative(v).typed
    BY DEF Positive, NonNegative, Rule
  <1>3. \A v : IsNumber(v) => Positive(v) \in TypedRuling /\ NonNegative(v) \in TypedRuling
    BY <1>1, <1>2, RulesAreRulings, Zenon
  <1>4. ASSUME NEW v, v # Wrong PROVE Optional(v, Positive(v)) \in TypedRuling
    <2>1. Rule(TRUE, TRUE) \in TypedRuling
      BY <1>1, RulesAreRulings DEF Rule
    <2>2. v # Null => IsNumber(v)
      BY <1>4 DEF IsNumber
    <2> QED
      BY <1>3, <2>1, <2>2 DEF Optional
  <1>5. PICK n \in Nat : DOMAIN c.endaq.rates = 1 .. n
    <2>1. c.endaq.rates \in Seq(Numbers)
      BY DEF Sections
    <2> QED
      BY <2>1, LenProperties
  <1>6. \A i \in 1 .. 8 : SessionRules(c)[i] \in TypedRuling
    <2>1. /\ Rule({c.mode, c.policy} \cap {Null, Wrong} = {}, TRUE) \in TypedRuling
          /\ Rule(TRUE, c.mode \in {"diagnostic", "prognostic"}) \in TypedRuling
          /\ Rule(TRUE, c.policy \in {"abort", "start_late"}) \in TypedRuling
          /\ Rule(TRUE, c.gator.enabled \/ c.endaq.enabled) \in TypedRuling
      <3>1. /\ Rule({c.mode, c.policy} \cap {Null, Wrong} = {}, TRUE) \in Ruling
            /\ Rule(TRUE, c.mode \in {"diagnostic", "prognostic"}) \in Ruling
            /\ Rule(TRUE, c.policy \in {"abort", "start_late"}) \in Ruling
            /\ Rule(TRUE, c.gator.enabled \/ c.endaq.enabled) \in Ruling
        BY DEF Rule, Ruling
      <3>2. /\ Rule({c.mode, c.policy} \cap {Null, Wrong} = {}, TRUE).typed
            /\ Rule(TRUE, c.mode \in {"diagnostic", "prognostic"}).typed
            /\ Rule(TRUE, c.policy \in {"abort", "start_late"}).typed
            /\ Rule(TRUE, c.gator.enabled \/ c.endaq.enabled).typed
        BY DEF Rule
      <3> QED
        BY <1>1, <3>1, <3>2
    <2>2. RunCountRule(c) \in TypedRuling
      <3>1. RunCountRule(c).typed
        BY DEF RunCountRule, Rule
      <3> QED
        BY <1>1, <3>1, RulesAreRulings
    <2>3. /\ NonNegative(c.tolerance) \in TypedRuling
          /\ Optional(c.duration, Positive(c.duration)) \in TypedRuling
          /\ Optional(c.period, Positive(c.period)) \in TypedRuling
      BY <1>3, <1>4
    <2>4. \A r1, r2, r3, r4, r5, r6, r7, r8 \in TypedRuling : \A i \in 1 .. 8 :
            <<r1, r2, r3, r4, r5, r6, r7, r8>>[i] \in TypedRuling
      OBVIOUS
    <2> QED
      BY <2>1, <2>2, <2>3, <2>4, Zenon DEF SessionRules
  <1>7. GatorRules(c) \in Seq(TypedRuling) /\ EndaqRules(c) \in Seq(TypedRuling)
    <2> DEFINE rates == [i \in 1 .. Len(c.endaq.rates) |->
                           Optional(c.endaq.rates[i], Positive(c.endaq.rates[i]))]
    <2>1. /\ <<Positive(c.gator.timeout)>> \in Seq(TypedRuling)
          /\ <<Positive(c.endaq.timeout)>> \in Seq(TypedRuling)
      BY <1>3
    <2>2. Len(c.endaq.rates) = n
      BY <1>5
    <2>3. rates \in Seq(TypedRuling)
      BY <1>4, <1>5, <2>2
    <2> HIDE DEF rates
    <2>4. <<Positive(c.endaq.timeout)>> \o rates \in Seq(TypedRuling)
      BY <2>1, <2>3, Joined
    <2> QED
      BY <2>1, <2>4 DEF GatorRules, EndaqRules, rates
  <1>8. PICK first \in 1 .. Len(Rules(c)) :
          /\ ~Rules(c)[first].typed
          /\ \A i \in 1 .. Len(Rules(c)) : ~Rules(c)[i].holds => first <= i
    BY FirstBroken
  <1>9. CASE c.mode = "diagnostic" \/ Null \notin {c.duration, c.period}
    <2>1. ModeRules(c) \in Seq(TypedRuling)
      <3>1. CASE c.mode = "diagnostic"
        <4>1. Rule(TRUE, c.runCount = 1) \in TypedRuling
          <5>1. Rule(TRUE, c.runCount = 1) \in Ruling
            BY DEF Rule, Ruling
          <5>2. Rule(TRUE, c.runCount = 1).typed
            BY DEF Rule
          <5> QED
            BY <1>1, <5>1, <5>2
        <4>2. ModeRules(c) = <<Rule(TRUE, c.runCount = 1)>>
          BY <3>1 DEF ModeRules
        <4>3. \A r \in TypedRuling : <<r>> \in Seq(TypedRuling)
          OBVIOUS
        <4> QED
          BY <4>1, <4>2, <4>3
      <3>2. CASE c.mode # "diagnostic"
        <4>1. WindowRequired(c).typed /\ PeriodHoldsWindow(c).typed
          <5>1. IsNumber(c.duration) /\ IsNumber(c.period)
            BY <1>9, <3>2 DEF IsNumber
          <5> QED
            BY <5>1 DEF WindowRequired, PeriodHoldsWindow, Rule
        <4>2. WindowRequired(c) \in TypedRuling /\ PeriodHoldsWindow(c) \in TypedRuling
          BY <1>1, <4>1, RulesAreRulings
        <4>3. \A q, r \in TypedRuling : <<q, r>> \in Seq(TypedRuling)
          OBVIOUS
        <4> QED
          BY <3>2, <4>2, <4>3 DEF ModeRules
      <3> QED
        BY <3>1, <3>2
    <2>2. Rules(c) \in Seq(TypedRuling)
      BY <1>1, <1>5, <1>6, <1>7, <2>1, RulesJoined
    <2>3. Rules(c)[first] \in TypedRuling
      BY <2>2
    <2> QED
      BY <1>8, <2>3 DEF TypedRuling
  <1>10. CASE c.mode # "diagnostic" /\ Null \in {c.duration, c.period}
    <2>1. 1 \in 1 .. Len(ModeRules(c)) /\ ModeRules(c)[1] = WindowRequired(c)
      BY <1>10 DEF ModeRules
    <2>2. ~WindowRequired(c).holds /\ WindowRequired(c).typed
      BY <1>10 DEF WindowRequired, Rule
    <2>3. /\ \A i \in 1 .. 8 : i \in 1 .. Len(Rules(c)) /\ Rules(c)[i] = SessionRules(c)[i]
          /\ 8 + 1 \in 1 .. Len(Rules(c)) /\ Rules(c)[8 + 1] = ModeRules(c)[1]
      BY <1>5, <2>1, RulesAre, RulesJoined
    <2>4. first <= 9
      BY <1>8, <2>1, <2>2, <2>3
    <2>5. first \in 1 .. 8 \/ first = 9
      BY <1>8, <2>4
    <2>6. \A i \in 1 .. 8 : SessionRules(c)[i].typed
      BY <1>6 DEF TypedRuling
    <2> QED
      BY <1>8, <2>1, <2>2, <2>3, <2>5, <2>6
  <1> QED
    BY <1>9, <1>10

\* The exit status of a command is true, a configuration whose values have their types is
\* accepted or refused by name, and a failure that has a reason shows it, for every file,
\* all options and every end of a session.
THEOREM TruthfulExit == Spec => []ExitIsTruthful
  <1>1. ASSUME IInv, Answered("config") PROVE ExitStatusIsTruthful
    <2> DEFINE built == Built(job)
               c == Configured(job)
    <2>1. /\ answer.value.built = built /\ answer.value.exit = Main(built, job.action, job.end)
          /\ job \in ConfigJobs
      BY <1>1, KindsAssumption DEF IInv, IsJob, Computed, Answered, Answers
    <2>2. built.outcome \in {"accepted", "ConfigError", "exception"}
      <3>1. \A config : Validate(config).outcome \in {"accepted", "ConfigError", "exception"}
        BY DEF Validate, Refused
      <3> QED
        BY <3>1, BuiltIs DEF Refused
    <2>3. ASSUME WellTyped(job.file) PROVE built.outcome # "exception"
      <3> SUFFICES ASSUME built = Validate(c),
                          {job.file.gator, job.file.endaq} \cap {Null, Wrong} = {}
                   PROVE  Validate(c).outcome \in {"accepted", "ConfigError"}
        BY BuiltIs DEF Refused
      <3>1. /\ \A key \in ScalarKeys : c[key] = Chosen(job.file, job.options, key)
            /\ {c.gator, c.endaq} \subseteq Sections
            /\ c.gator.timeout = Either(job.options.gator.timeout, Section(job.file.gator).timeout)
            /\ c.endaq.timeout = Either(job.options.endaq.timeout, Section(job.file.endaq).timeout)
            /\ c.endaq.rates = Section(job.file.endaq).rates
        BY <2>1, ConfiguredIs DEF ChosenSection
      <3> HIDE DEF c, built
      <3>2. ScalarKeys = {"mode", "runCount", "duration", "period", "tolerance", "policy"}
        BY DEF ScalarKeys, Defaults
      <3>3. ASSUME NEW key \in ScalarKeys \ {"runCount"}
            PROVE  c[key] # Wrong /\ (c[key] = Null => key \in {"duration", "period"})
        <4>1. /\ Defaults[key] # Wrong
              /\ Defaults[key] = Null => key \in {"duration", "period"}
          <5>1. /\ Defaults["mode"] = "diagnostic" /\ Defaults["policy"] = "abort"
                /\ Defaults["tolerance"] = 2
                /\ Defaults["duration"] = Null /\ Defaults["period"] = Null
            BY DEF Defaults
          <5>2. {"diagnostic", "abort", 2} \cap {Null, Wrong} = {}
            BY NumbersAssumption
          <5>3. key \in {"mode", "policy", "tolerance", "duration", "period"}
            BY <3>2
          <5> QED
            BY <5>1, <5>2, <5>3, NumbersAssumption
        <4>2. /\ Given(job.file, key) # Wrong
              /\ Given(job.file, key) = Null => key \in {"duration", "period"}
          BY <2>3, <4>1 DEF WellTyped, Given
        <4>3. job.options.scalars[key] \notin {Null, Wrong}
          BY <2>1, ConfigAssumption
        <4> QED
          BY <3>1, <4>2, <4>3, NumbersAssumption DEF Chosen, Either
      <3>4. /\ {c.mode, c.policy} \cap {Null, Wrong} = {} /\ IsNumber(c.tolerance)
            /\ Wrong \notin {c.duration, c.period}
        <4>1. /\ c["mode"] \notin {Null, Wrong} /\ c["policy"] \notin {Null, Wrong}
              /\ c["tolerance"] \notin {Null, Wrong}
              /\ c["duration"] # Wrong /\ c["period"] # Wrong
          BY <3>2, <3>3
        <4> QED
          BY <4>1 DEF IsNumber
      <3>5. ASSUME NEW section \in {job.file.gator, job.file.endaq},
                   NEW option \in SectionOptions
            PROVE  /\ IsNumber(Either(option.timeout, Section(section).timeout))
                   /\ \A i \in DOMAIN Section(section).rates : Section(section).rates[i] # Wrong
        <4>1. /\ IsNumber(Section(section).timeout)
              /\ \A i \in DOMAIN Section(section).rates : Section(section).rates[i] # Wrong
          <5>1. CASE section \in {Null, Absent}
            <6>1. IsNumber(30)
              BY NumbersAssumption DEF IsNumber
            <6> QED
              BY <5>1, <6>1 DEF Section
          <5>2. CASE section \notin {Null, Absent}
            BY <2>3, <5>2 DEF WellTyped, Section, Range
          <5> QED
            BY <5>1, <5>2
        <4>2. option.timeout \in Int \cup {Absent, NaN}
          BY DEF SectionOptions
        <4> QED
          BY <4>1, <4>2, NumbersAssumption DEF Either, IsNumber
      <3>6. {job.options.gator, job.options.endaq} \subseteq SectionOptions
        BY <2>1, ConfigAssumption DEF SectionOptions
      <3>7. /\ IsNumber(c.gator.timeout) /\ IsNumber(c.endaq.timeout)
            /\ \A i \in DOMAIN c.endaq.rates : c.endaq.rates[i] # Wrong
        BY <3>1, <3>5, <3>6
      <3> QED
        BY <3>1, <3>4, <3>7, TypedConfigsAreNamed
    <2> HIDE DEF built, c
    <2>4. (Main(built, job.action, job.end) = 2) <=> (built.outcome = "ConfigError")
      BY <2>2 DEF Main, StatusOf
    <2>5. Main(built, job.action, job.end) = 0 =>
            /\ built.outcome = "accepted"
            /\ job.action = "run" => job.end = "success"
            /\ job.action \in {"endaq-info", "endaq-stop"} =>
                 built.config.endaq.enabled /\ job.end \notin {"exception", "KeyboardInterrupt"}
      BY <2>2 DEF Main, StatusOf
    <2> QED
      BY <2>1, <2>2, <2>3, <2>4, <2>5 DEF ExitStatusIsTruthful, Accepted, Config
  <1>2. ASSUME IInv PROVE FailureIsExplained
    BY <1>2 DEF IInv, Computed, Answered, Answers, FailureIsExplained, ShownErrors
  <1>3. IInv => ExitIsTruthful
    BY <1>1, <1>2 DEF ExitIsTruthful, ExitStatusIsTruthful, Answered
  <1> QED
    BY <1>3, AnswersInvariance, PTL

----------------------------------------------------------------------------
(* Folds from left to right, and the samples of an export. *)

\* The greatest index of a set of indices is taken out of a fold first.
LEMMA GreatestIndex ==
  ASSUME NEW n \in Nat, NEW s \in SUBSET (1 .. n), s # {}
  PROVE  Max(s) \in s /\ \A k \in s : k <= Max(s)
  <1> DEFINE distance == [k \in s |-> n - k]
  <1>1. distance \in [s -> Nat] /\ \A k \in s : k \in 1 .. n
    OBVIOUS
  <1>2. PICK k \in s : \A j \in s : distance[k] <= distance[j]
    BY <1>1, LeastBy
  <1>3. \A j \in s : k >= j
    BY <1>1, <1>2
  <1>4. \E x \in s : \A y \in s : x >= y
    BY <1>3
  <1> QED
    BY <1>1, <1>4 DEF Max

LEMMA GreatestOfPrefix ==
  ASSUME NEW n \in Nat, NEW k \in 1 .. n
  PROVE  /\ 1 .. k \in SUBSET (1 .. n) /\ 1 .. k # {} /\ Max(1 .. k) = k
         /\ (1 .. k) \ {k} = 1 .. (k - 1)
  <1>1. 1 .. k \in SUBSET (1 .. n) /\ 1 .. k # {}
    OBVIOUS
  <1>2. Max(1 .. k) \in 1 .. k /\ \A j \in 1 .. k : j <= Max(1 .. k)
    BY <1>1, GreatestIndex
  <1>3. k \in 1 .. k
    OBVIOUS
  <1>4. Max(1 .. k) = k
    BY <1>2, <1>3
  <1>5. (1 .. k) \ {k} = 1 .. (k - 1)
    OBVIOUS
  <1> QED
    BY <1>1, <1>4, <1>5

\* A fold from left to right of n elements, of values in V: f holds its values on the sets
\* of indices.
Folds(f, V, base, step, n) ==
  /\ f[{}] = base
  /\ \A s \in SUBSET (1 .. n) :
       s # {} /\ f[s \ {Max(s)}] \in V => f[s] = step[f[s \ {Max(s)}]][Max(s)]

LEMMA LeftFoldExists ==
  ASSUME NEW n \in Nat, NEW V, NEW base \in V, NEW step \in [V -> [1 .. n -> V]]
  PROVE  \E f \in [SUBSET (1 .. n) -> V] : Folds(f, V, base, step, n)
  <1> DEFINE S == 1 .. n
             c == [s \in (SUBSET S) \ {{}} |-> Max(s)]
             Solvable(W, b, o, d) ==
               (\A s \in (SUBSET S) \ {{}} : d[s] \in s)
                 => \E g \in [SUBSET S -> W] : \A s \in SUBSET S :
                      g[s] = IF s = {} THEN b ELSE o[g[s \ {d[s]}]][d[s]]
  <1>1. IsFiniteSet(S)
    BY FS_Interval
  <1>2. \A s \in (SUBSET S) \ {{}} : c[s] = Max(s) /\ c[s] \in s
    BY GreatestIndex
  <1>3. c \in [(SUBSET S) \ {{}} -> S]
    BY <1>2
  <1>4. Solvable(V, base, step, c)
    <2>1. \A W : \A b \in W : \A o \in [W -> [S -> W]], d \in [(SUBSET S) \ {{}} -> S] :
            Solvable(W, b, o, d)
      <3> HIDE DEF S
      <3> QED
        BY <1>1, FoldExists
    <2> HIDE DEF Solvable, c
    <2> QED
      BY <1>3, <2>1
  <1> HIDE DEF c
  <1>5. PICK g \in [SUBSET S -> V] : \A s \in SUBSET S :
          g[s] = IF s = {} THEN base ELSE step[g[s \ {c[s]}]][c[s]]
    BY <1>2, <1>4
  <1>6. g[{}] = base
    <2>1. {} \in SUBSET S
      OBVIOUS
    <2> QED
      BY <1>5, <2>1, Zenon
  <1> QED
    BY <1>2, <1>5, <1>6 DEF Folds

\* What a fold does, index by index.
Runs(r, V, base, step, n) ==
  r \in [0 .. n -> V] /\ r[0] = base /\ \A k \in 1 .. n : r[k] = step[r[k - 1]][k]

LEMMA LeftFoldSteps ==
  ASSUME NEW n \in Nat, NEW V, NEW base \in V, NEW step \in [V -> [1 .. n -> V]], NEW f,
         Folds(f, V, base, step, n)
  PROVE  \E r : Runs(r, V, base, step, n) /\ r[n] = f[1 .. n]
  <1> DEFINE r == [k \in 0 .. n |-> f[1 .. k]]
             P == {k \in Nat : k <= n => f[1 .. k] \in V}
  <1>1. f[1 .. 0] = base
    <2>1. 1 .. 0 = {}
      OBVIOUS
    <2> QED
      BY <2>1 DEF Folds
  <1>2. ASSUME NEW k \in 1 .. n, f[1 .. (k - 1)] \in V PROVE f[1 .. k] = step[f[1 .. (k - 1)]][k]
    BY <1>2, GreatestOfPrefix DEF Folds
  <1>3. P = Nat
    <2>1. 0 \in P
      BY <1>1
    <2>2. ASSUME NEW k \in P PROVE k + 1 \in P
      <3>1. CASE k + 1 <= n
        <4>1. f[1 .. k] \in V /\ k + 1 \in 1 .. n /\ (k + 1) - 1 = k
          BY <3>1
        <4>2. f[1 .. (k + 1)] = step[f[1 .. k]][k + 1]
          BY <1>2, <4>1
        <4>3. step[f[1 .. k]] \in [1 .. n -> V]
          BY <4>1
        <4> QED
          BY <4>1, <4>2, <4>3
      <3> QED
        BY <3>1
    <2> HIDE DEF P
    <2> QED
      BY <2>1, <2>2, Successors DEF P
  <1>4. r \in [0 .. n -> V]
    BY <1>3
  <1>5. r[0] = base /\ r[n] = f[1 .. n]
    BY <1>1
  <1>6. \A k \in 1 .. n : r[k] = step[r[k - 1]][k]
    <2> SUFFICES ASSUME NEW k \in 1 .. n PROVE r[k] = step[r[k - 1]][k]
      OBVIOUS
    <2>1. k \in 0 .. n /\ k - 1 \in 0 .. n
      OBVIOUS
    <2>2. r[k] = f[1 .. k] /\ r[k - 1] = f[1 .. (k - 1)]
      BY <2>1
    <2>3. f[1 .. (k - 1)] \in V
      <3>1. r[k - 1] \in V
        BY <1>4, <2>1, Zenon
      <3> QED
        BY <2>2, <3>1, Zenon
    <2> QED
      BY <1>2, <2>2, <2>3
  <1> QED
    BY <1>4, <1>5, <1>6 DEF Runs

\* The sequence r of the elements of s at the indices in K, and where each of them was.
Picks(r, s, K, e) ==
  /\ e \in [1 .. Len(r) -> K]
  /\ \A i, j \in 1 .. Len(r) : i < j => e[i] < e[j]
  /\ \A k \in K : \E i \in 1 .. Len(r) : e[i] = k
  /\ \A i \in 1 .. Len(r) : r[i] = s[e[i]]

LEMMA KeptIsFold ==
  ASSUME NEW S, NEW s \in Seq(S), NEW K
  PROVE  \E r \in [0 .. Len(s) -> Seq(S)] :
           /\ r[0] = <<>> /\ r[Len(s)] = Kept(s, K)
           /\ \A k \in 1 .. Len(s) : r[k] = IF k \in K THEN Append(r[k - 1], s[k]) ELSE r[k - 1]
  <1> DEFINE n == Len(s)
             V == Seq(S)
             step == [v \in V |-> [k \in 1 .. n |-> IF k \in K THEN Append(v, s[k]) ELSE v]]
             at == [k \in 1 .. n |-> k]
             Unfold(f, t) == IF t = {} THEN <<>>
                           ELSE IF at[Max(t)] \in K THEN Append(f[t \ {Max(t)}], s[at[Max(t)]])
                                ELSE f[t \ {Max(t)}]
             iter == CHOOSE f : f = [t \in SUBSET (DOMAIN at) |-> Unfold(f, t)]
  <1>1. n \in Nat /\ <<>> \in V /\ \A k \in 1 .. n : s[k] \in S
    OBVIOUS
  <1>2. step \in [V -> [1 .. n -> V]]
        /\ \A v \in V, k \in 1 .. n : step[v][k] = IF k \in K THEN Append(v, s[k]) ELSE v
    BY <1>1
  <1>3. Kept(s, K) = iter[DOMAIN at]
    BY DEF Kept, FoldLeft, MapThenFoldSet
  <1> HIDE DEF step, V
  <1>4. PICK f \in [SUBSET (1 .. n) -> V] : Folds(f, V, <<>>, step, n)
    BY <1>1, <1>2, LeftFoldExists
  <1>5. DOMAIN at = 1 .. n /\ \A k \in 1 .. n : at[k] = k
    OBVIOUS
  <1> HIDE DEF at
  <1>6. ASSUME NEW t \in SUBSET (1 .. n), t # {} PROVE f[t] = Unfold(f, t)
    <2>1. Max(t) \in 1 .. n /\ t \ {Max(t)} \in SUBSET (1 .. n)
      BY <1>1, <1>6, GreatestIndex
    <2>2. f[t] = step[f[t \ {Max(t)}]][Max(t)]
      BY <1>4, <1>6, <2>1 DEF Folds
    <2> QED
      BY <1>2, <1>5, <1>6, <2>1, <2>2
  <1>7. f = [t \in SUBSET (DOMAIN at) |-> Unfold(f, t)]
    BY <1>4, <1>5, <1>6 DEF Folds
  <1>8. iter = [t \in SUBSET (DOMAIN at) |-> Unfold(iter, t)]
    BY <1>7
  <1> HIDE DEF iter
  <1>9. Folds(iter, V, <<>>, step, n)
    <2>1. iter[{}] = <<>>
      BY <1>8
    <2>2. ASSUME NEW t \in SUBSET (1 .. n), t # {}, iter[t \ {Max(t)}] \in V
          PROVE  iter[t] = step[iter[t \ {Max(t)}]][Max(t)]
      <3>1. Max(t) \in 1 .. n
        BY <1>1, <2>2, GreatestIndex
      <3>2. iter[t] = Unfold(iter, t)
        BY <1>5, <1>8
      <3>3. step[iter[t \ {Max(t)}]][Max(t)] =
              IF Max(t) \in K THEN Append(iter[t \ {Max(t)}], s[Max(t)]) ELSE iter[t \ {Max(t)}]
        BY <1>2, <2>2, <3>1, Zenon
      <3>4. at[Max(t)] = Max(t)
        BY <1>5, <3>1
      <3> QED
        BY <2>2, <3>2, <3>3, <3>4, Zenon
    <2> QED
      BY <2>1, <2>2 DEF Folds
  <1>10. PICK r : Runs(r, V, <<>>, step, n) /\ r[n] = iter[1 .. n]
    <2> DEFINE Stepped(g, W, b, o, m) == \E q : Runs(q, W, b, o, m) /\ q[m] = g[1 .. m]
    <2>1. \A m \in Nat : \A W : \A b \in W, o \in [W -> [1 .. m -> W]] : \A g :
            Folds(g, W, b, o, m) => Stepped(g, W, b, o, m)
      BY LeftFoldSteps
    <2>2. Stepped(iter, V, <<>>, step, n)
      <3> HIDE DEF Stepped
      <3> QED
        BY <1>1, <1>2, <1>9, <2>1
    <2> QED
      BY <2>2
  <1>11. ASSUME NEW k \in 1 .. n PROVE r[k] = IF k \in K THEN Append(r[k - 1], s[k]) ELSE r[k - 1]
    BY <1>1, <1>2, <1>10 DEF Runs
  <1> QED
    BY <1>3, <1>5, <1>10, <1>11 DEF V, Runs

\* A sequence that grows by the elements at the indices in K picks them in their order.
LEMMA PicksInOrder ==
  ASSUME NEW S, NEW s \in Seq(S), NEW K, NEW r \in [0 .. Len(s) -> Seq(S)], r[0] = <<>>,
         \A k \in 1 .. Len(s) : r[k] = IF k \in K THEN Append(r[k - 1], s[k]) ELSE r[k - 1]
  PROVE  \A k \in 0 .. Len(s) : \E e : Picks(r[k], s, K \cap (1 .. k), e)
  <1> DEFINE n == Len(s)
             Picked(k) == \E e : Picks(r[k], s, K \cap (1 .. k), e)
             P == {k \in Nat : k <= n => Picked(k)}
  <1>1. n \in Nat /\ \A k \in 1 .. n : s[k] \in S
    OBVIOUS
  <1>2. 0 \in P
    <2>1. Picks(<<>>, s, K \cap (1 .. 0), <<>>)
      BY DEF Picks
    <2> QED
      BY <2>1
  <1>3. ASSUME NEW k \in P PROVE k + 1 \in P
    <2> SUFFICES ASSUME k + 1 <= n PROVE Picked(k + 1)
      <3> HIDE DEF Picked
      <3> QED
        OBVIOUS
    <2>1. k \in Nat /\ k <= n /\ k + 1 \in 1 .. n /\ (k + 1) - 1 = k /\ k \in 0 .. n
      BY <1>1, <1>3
    <2>2. PICK e : Picks(r[k], s, K \cap (1 .. k), e)
      BY <1>3, <2>1
    <2>3. r[k + 1] = IF k + 1 \in K THEN Append(r[k], s[k + 1]) ELSE r[k]
      BY <2>1
    <2>4. CASE k + 1 \notin K
      <3>1. K \cap (1 .. k + 1) = K \cap (1 .. k)
        BY <2>1, <2>4
      <3> QED
        BY <2>2, <2>3, <2>4, <3>1
    <2>5. CASE k + 1 \in K
      <3> DEFINE m == Len(r[k])
                 d == [i \in 1 .. m + 1 |-> IF i = m + 1 THEN k + 1 ELSE e[i]]
                 q == r[k + 1]
                 L == K \cap (1 .. k + 1)
      <3>1. r[k] \in Seq(S) /\ s[k + 1] \in S /\ m \in Nat
        BY <1>1, <2>1
      <3>2. Len(q) = m + 1 /\ q[m + 1] = s[k + 1] /\ \A i \in 1 .. m : q[i] = r[k][i]
        BY <2>3, <2>5, <3>1
      <3>3. L = (K \cap (1 .. k)) \cup {k + 1}
        BY <2>1, <2>5
      <3>4. /\ \A i \in 1 .. m : e[i] \in K \cap (1 .. k)
            /\ \A i, j \in 1 .. m : i < j => e[i] < e[j]
            /\ \A l \in K \cap (1 .. k) : \E i \in 1 .. m : e[i] = l
            /\ \A i \in 1 .. m : r[k][i] = s[e[i]]
        BY <2>2 DEF Picks
      <3>5. d[m + 1] = k + 1 /\ \A i \in 1 .. m : d[i] = e[i]
        BY <3>1
      <3>6. \A i \in 1 .. m + 1 : i \in 1 .. m \/ i = m + 1
        BY <3>1
      <3>7. 1 .. Len(q) = 1 .. m + 1
        BY <3>2
      <3>8. d \in [1 .. Len(q) -> L]
        BY <3>3, <3>4, <3>7
      <3> HIDE DEF d, m, q, L
      <3>9. \A i, j \in 1 .. m + 1 : i < j => d[i] < d[j]
        <4> SUFFICES ASSUME NEW i \in 1 .. m + 1, NEW j \in 1 .. m + 1, i < j PROVE d[i] < d[j]
          OBVIOUS
        <4>1. i \in 1 .. m
          BY <3>1
        <4>2. CASE j = m + 1
          <5>1. e[i] < k + 1
            BY <2>1, <3>4, <4>1
          <5> QED
            BY <3>5, <4>1, <4>2, <5>1
        <4>3. CASE j \in 1 .. m
          BY <3>4, <3>5, <4>1, <4>3
        <4> QED
          BY <3>6, <4>2, <4>3
      <3>10. \A l \in L : \E i \in 1 .. m + 1 : d[i] = l
        <4> SUFFICES ASSUME NEW l \in L PROVE \E i \in 1 .. m + 1 : d[i] = l
          OBVIOUS
        <4>1. CASE l = k + 1
          BY <3>1, <3>5, <4>1
        <4>2. CASE l \in K \cap (1 .. k)
          <5>1. PICK i \in 1 .. m : e[i] = l
            BY <3>4, <4>2
          <5>2. i \in 1 .. m + 1 /\ d[i] = l
            BY <3>1, <3>5, <5>1
          <5> QED
            BY <5>2
        <4> QED
          BY <3>3, <4>1, <4>2
      <3>11. \A i \in 1 .. m + 1 : q[i] = s[d[i]]
        <4> SUFFICES ASSUME NEW i \in 1 .. m + 1 PROVE q[i] = s[d[i]]
          OBVIOUS
        <4>1. CASE i = m + 1
          BY <3>2, <3>5, <4>1
        <4>2. CASE i \in 1 .. m
          BY <3>2, <3>4, <3>5, <4>2
        <4> QED
          BY <3>6, <4>1, <4>2
      <3>12. Picks(q, s, L, d)
        BY <3>7, <3>8, <3>9, <3>10, <3>11 DEF Picks
      <3> QED
        BY <3>12 DEF q, L
    <2> QED
      BY <2>4, <2>5
  <1>4. P = Nat
    <2> HIDE DEF P
    <2> QED
      BY <1>2, <1>3, Successors DEF P
  <1>5. \A k \in 0 .. n : Picked(k)
    <2> HIDE DEF Picked
    <2> QED
      BY <1>1, <1>4
  <1> QED
    BY <1>5

LEMMA KeptPicks ==
  ASSUME NEW S, NEW s \in Seq(S), NEW K \in SUBSET (1 .. Len(s))
  PROVE  Kept(s, K) \in Seq(S) /\ \E e : Picks(Kept(s, K), s, K, e)
  <1>1. PICK r \in [0 .. Len(s) -> Seq(S)] :
          /\ r[0] = <<>> /\ r[Len(s)] = Kept(s, K)
          /\ \A k \in 1 .. Len(s) : r[k] = IF k \in K THEN Append(r[k - 1], s[k]) ELSE r[k - 1]
    BY KeptIsFold
  <1>2. Len(s) \in 0 .. Len(s) /\ K \cap (1 .. Len(s)) = K
    OBVIOUS
  <1>3. \E e : Picks(r[Len(s)], s, K \cap (1 .. Len(s)), e)
    BY <1>1, <1>2, PicksInOrder
  <1> QED
    BY <1>1, <1>2, <1>3

\* When everything before a wanted element is wanted too, the beginning is picked.
LEMMA PicksBeginning ==
  ASSUME NEW S, NEW r \in Seq(S), NEW s, NEW K \in SUBSET Nat, NEW e, Picks(r, s, K, e),
         \A k \in K : k >= 1, \A k \in K, j \in Nat : 1 <= j /\ j <= k => j \in K
  PROVE  K = 1 .. Len(r) /\ \A i \in 1 .. Len(r) : e[i] = i
  <1> DEFINE m == Len(r)
             moved == {i \in 1 .. m : e[i] # i}
  <1>1. /\ m \in Nat /\ \A i \in 1 .. m : e[i] \in K
        /\ \A i, j \in 1 .. m : i < j => e[i] < e[j]
        /\ \A k \in K : \E i \in 1 .. m : e[i] = k
    BY LenProperties DEF Picks
  <1>2. ASSUME moved # {} PROVE FALSE
    <2>1. moved \in SUBSET Nat
      BY <1>1
    <2>2. PICK i \in moved : \A j \in moved : i <= j
      BY <1>2, <2>1, LeastNumber
    <2>3. i \in 1 .. m /\ e[i] # i /\ e[i] \in Nat /\ e[i] >= 1 /\ i \in Nat
      <3>1. i \in 1 .. m /\ e[i] # i
        BY <2>2
      <3>2. e[i] \in K
        BY <1>1, <3>1
      <3>3. \A k \in K : k \in Nat /\ k >= 1
        OBVIOUS
      <3>4. e[i] \in Nat /\ e[i] >= 1
        BY <3>2, <3>3
      <3>5. i \in Nat
        BY <1>1, <3>1
      <3> QED
        BY <3>1, <3>4, <3>5
    <2>4. \A j \in 1 .. m : j < i => e[j] = j
      BY <1>1, <2>2
    <2>5. e[i] > i
      <3>1. CASE i = 1
        BY <2>3, <3>1
      <3>2. CASE i # 1
        <4>1. i - 1 \in 1 .. m /\ i - 1 < i
          BY <1>1, <2>3, <3>2
        <4>2. e[i - 1] = i - 1 /\ e[i - 1] < e[i]
          BY <1>1, <2>3, <2>4, <4>1
        <4> QED
          BY <2>3, <4>2
      <3> QED
        BY <3>1, <3>2
    <2>6. i \in K
      BY <1>1, <2>3, <2>5
    <2>7. PICK j \in 1 .. m : e[j] = i
      BY <1>1, <2>6
    <2>8. CASE j < i
      BY <2>4, <2>7, <2>8
    <2>9. CASE j = i
      BY <2>3, <2>7, <2>9
    <2>10. CASE j > i
      <3>1. e[i] < e[j]
        BY <1>1, <2>3, <2>7, <2>10
      <3> QED
        BY <2>3, <2>5, <2>7, <3>1
    <2> QED
      BY <1>1, <2>3, <2>7, <2>8, <2>9, <2>10
  <1>3. \A i \in 1 .. m : e[i] = i
    BY <1>2
  <1>4. \A k \in K : k \in 1 .. m
    <2> SUFFICES ASSUME NEW k \in K PROVE k \in 1 .. m
      OBVIOUS
    <2>1. PICK i \in 1 .. m : e[i] = k
      BY <1>1
    <2> QED
      BY <1>3, <2>1
  <1>5. \A k \in 1 .. m : k \in K
    BY <1>1, <1>3
  <1> QED
    BY <1>3, <1>4, <1>5

\* The first of the elements is the first that is picked.
LEMMA PicksFirst ==
  ASSUME NEW S, NEW r \in Seq(S), NEW s, NEW K \in SUBSET Nat, NEW e, Picks(r, s, K, e),
         \A k \in K : k >= 1, 1 \in K
  PROVE  r # <<>> /\ r[1] = s[1]
  <1>1. /\ Len(r) \in Nat /\ \A i \in 1 .. Len(r) : e[i] \in K /\ r[i] = s[e[i]]
        /\ \A i, j \in 1 .. Len(r) : i < j => e[i] < e[j]
    BY LenProperties DEF Picks
  <1>2. PICK i \in 1 .. Len(r) : e[i] = 1
    BY DEF Picks
  <1>3. 1 \in 1 .. Len(r) /\ e[1] \in Nat /\ e[1] >= 1
    <2>1. 1 \in 1 .. Len(r)
      BY <1>1, <1>2
    <2>2. e[1] \in K
      BY <1>1, <2>1
    <2>3. \A k \in K : k \in Nat /\ k >= 1
      OBVIOUS
    <2> QED
      BY <2>1, <2>2, <2>3
  <1>4. i = 1
    BY <1>1, <1>2, <1>3
  <1> QED
    BY <1>1, <1>2, <1>3, <1>4

\* The samples of an export begin at zero and stay in the window; when the timestamps are in
\* order they are every sample up to its end.
LEMMA GatorSamplesAre ==
  ASSUME NEW times \in Seq(Int), times # <<>>, NEW duration \in Nat \cup {NoWindow}
  PROVE  LET samples == GatorSamples(times, duration)
         IN  /\ samples \in Seq(Int) /\ samples # <<>> /\ samples[1] = 0
             /\ duration # NoWindow => \A k \in 1 .. Len(samples) : samples[k] \in 0 .. duration
             /\ (\A j, k \in 1 .. Len(times) : j <= k => times[j] <= times[k]) =>
                  /\ {k \in 1 .. Len(times) : duration = NoWindow \/ times[k] - times[1] <= duration}
                       = 1 .. Len(samples)
                  /\ \A k \in 1 .. Len(samples) : samples[k] = times[k] - times[1]
  <1> DEFINE n == Len(times)
             relative == [k \in 1 .. n |-> times[k] - times[1]]
             samples == GatorSamples(times, duration)
             ordered == \A j, k \in 1 .. n : j <= k => times[j] <= times[k]
             K == {k \in 1 .. n : InWindow(relative[k], duration)}
  <1>1. n \in Nat /\ n >= 1 /\ 1 \in 1 .. n /\ \A k \in 1 .. n : times[k] \in Int
    OBVIOUS
  <1>2. relative \in Seq(Int) /\ Len(relative) = n
          /\ \A k \in 1 .. n : relative[k] = times[k] - times[1] /\ relative[k] \in Int
    BY <1>1
  <1>3. CASE duration = NoWindow
    <2>1. samples = relative
      BY <1>3 DEF GatorSamples
    <2>2. {k \in 1 .. n : duration = NoWindow \/ times[k] - times[1] <= duration} = 1 .. n
      BY <1>3
    <2>3. relative # <<>> /\ relative[1] = 0
      BY <1>1, <1>2
    <2> HIDE DEF relative, samples
    <2> QED
      BY <1>2, <1>3, <2>1, <2>2, <2>3 DEF samples
  <1>4. CASE duration # NoWindow
    <2>1. samples = Kept(relative, K)
      BY <1>4 DEF GatorSamples
    <2>2. K \in SUBSET (1 .. Len(relative))
      BY <1>2
    <2> HIDE DEF relative, samples
    <2>3. PICK e : Picks(samples, relative, K, e)
      BY <1>2, <2>1, <2>2, KeptPicks
    <2>4. samples \in Seq(Int)
      BY <1>2, <2>1, <2>2, KeptPicks
    <2>5. \A k \in K : k \in 1 .. n /\ 0 <= relative[k] /\ relative[k] <= duration
      BY DEF InWindow
    <2>6. \A k \in 1 .. Len(samples) : samples[k] \in 0 .. duration
      <3>1. \A k \in 1 .. Len(samples) : e[k] \in K /\ samples[k] = relative[e[k]]
        BY <2>3 DEF Picks
      <3> QED
        BY <1>2, <1>4, <2>5, <3>1
    <2>7. 1 \in K
      <3>1. 0 <= relative[1] /\ relative[1] <= duration
        BY <1>1, <1>2, <1>4
      <3> QED
        BY <1>1, <3>1 DEF InWindow
    <2>8. K \in SUBSET Nat /\ \A k \in K : k >= 1
      BY <1>1
    <2>9. samples # <<>> /\ samples[1] = 0
      <3>1. samples # <<>> /\ samples[1] = relative[1]
        <4> HIDE DEF K
        <4> QED
          BY <2>3, <2>4, <2>7, <2>8, PicksFirst
      <3> QED
        BY <1>1, <1>2, <3>1
    <2>10. ASSUME ordered
           PROVE  /\ {k \in 1 .. n : duration = NoWindow \/ times[k] - times[1] <= duration}
                       = 1 .. Len(samples)
                  /\ \A k \in 1 .. Len(samples) : samples[k] = times[k] - times[1]
      <3>1. \A k \in 1 .. n : 0 <= relative[k]
        BY <1>1, <1>2, <2>10
      <3>2. {k \in 1 .. n : duration = NoWindow \/ times[k] - times[1] <= duration} = K
        BY <1>2, <1>4, <3>1 DEF InWindow
      <3>3. \A k \in K, j \in Nat : 1 <= j /\ j <= k => j \in K
        <4> SUFFICES ASSUME NEW k \in K, NEW j \in Nat, 1 <= j, j <= k PROVE j \in K
          OBVIOUS
        <4>1. k \in 1 .. n /\ j \in 1 .. n /\ relative[k] <= duration
          BY <1>1, <2>5
        <4>2. times[j] <= times[k]
          BY <2>10, <4>1
        <4>3. relative[j] <= duration
          BY <1>1, <1>2, <1>4, <4>1, <4>2
        <4> QED
          BY <3>1, <4>1, <4>3 DEF InWindow
      <3> HIDE DEF K
      <3>4. K = 1 .. Len(samples) /\ \A i \in 1 .. Len(samples) : e[i] = i
        BY <2>3, <2>4, <2>8, <3>3, PicksBeginning
      <3>5. \A k \in 1 .. Len(samples) : k \in 1 .. n /\ samples[k] = relative[k]
        BY <2>3, <2>5, <3>4 DEF Picks
      <3> QED
        BY <1>2, <3>2, <3>4, <3>5
    <2> QED
      BY <1>4, <2>4, <2>6, <2>9, <2>10 DEF samples
  <1> QED
    BY <1>3, <1>4

----------------------------------------------------------------------------
(* Recording on Windows, and the export. *)

PollRecord == [count : Int, clock : Nat, writeFails : BOOLEAN]
Running == [failed : BOOLEAN, start : Int, rows : Seq(Nat)]
Begin == [failed |-> FALSE, start |-> NoTime, rows |-> <<>>]
First(poll) == Max({0, poll.clock - Micros(poll.count - 1)})

LEMMA Quotient ==
  ASSUME NEW a \in Nat, NEW b \in Nat \ {0}
  PROVE  /\ a \div b \in Nat /\ b * (a \div b) <= a /\ a < b * (a \div b) + b
         /\ a % b = 0 => a = b * (a \div b)
  OBVIOUS

LEMMA MaxOfTwo ==
  ASSUME NEW a \in Int, NEW b \in Int
  PROVE  Max({a, b}) = IF a >= b THEN a ELSE b
  BY DEF Max

LEMMA MinOfTwo ==
  ASSUME NEW a \in Int, NEW b \in Int
  PROVE  Min({a, b}) = IF a <= b THEN a ELSE b
  BY DEF Min

\* A duration is rounded to whole microseconds, and that of one period to at least one.
LEMMA MicrosAre == (\A k \in Nat : Micros(k) \in Nat) /\ Micros(1) > 0
  <1>1. ASSUME NEW k \in Nat PROVE Micros(k) \in Nat
    <2> DEFINE a == 2 * k * PeriodNum + PeriodDen
               b == 2 * PeriodDen
    <2>1. a \in Nat /\ b \in Nat \ {0}
      BY PeriodAssumption
    <2>2. Micros(k) = a \div b
      BY DEF Micros
    <2> HIDE DEF a, b
    <2> QED
      BY <2>1, <2>2, Quotient
  <1> QED
    BY <1>1, PeriodAssumption

\* The timestamps of a batch are evenly spaced.
LEMMA BatchIs ==
  ASSUME NEW poll \in PollRecord, poll.count > 0
  PROVE  /\ First(poll) \in Nat /\ Batch(poll) \in Seq(Nat) /\ Len(Batch(poll)) = poll.count
         /\ \A k \in 1 .. poll.count :
              k - 1 \in Nat /\ Batch(poll)[k] = First(poll) + (k - 1) * Micros(1)
         /\ poll.clock >= Micros(poll.count - 1) =>
              First(poll) = poll.clock - Micros(poll.count - 1)
  <1> DEFINE step == Micros(1)
             back == Micros(poll.count - 1)
  <1>1. step \in Nat /\ back \in Nat /\ poll.clock \in Nat /\ poll.count \in Nat
    BY MicrosAre DEF PollRecord
  <1>2. First(poll) = IF 0 >= poll.clock - back THEN 0 ELSE poll.clock - back
    <2>1. poll.clock - back \in Int
      BY <1>1
    <2> HIDE DEF back
    <2> QED
      BY <2>1, MaxOfTwo DEF First, back
  <1>3. Batch(poll) = [k \in 1 .. poll.count |-> First(poll) + (k - 1) * step]
    BY DEF Batch, First
  <1> HIDE DEF step, back
  <1>4. First(poll) \in Nat
    BY <1>1, <1>2
  <1>5. poll.clock >= back => First(poll) = poll.clock - back
    BY <1>1, <1>2
  <1> DEFINE at(k) == First(poll) + (k - 1) * step
             batch == [k \in 1 .. poll.count |-> at(k)]
  <1>6. \A k \in 1 .. poll.count : k - 1 \in Nat /\ at(k) \in Nat
    BY <1>1, <1>4
  <1>7. /\ batch \in Seq(Nat) /\ Len(batch) = poll.count
        /\ \A k \in 1 .. poll.count : k - 1 \in Nat /\ batch[k] = at(k)
    <2> HIDE DEF at
    <2> QED
      BY <1>1, <1>6
  <1>8. Batch(poll) = batch
    BY <1>3
  <1> HIDE DEF batch
  <1> QED
    BY <1>4, <1>5, <1>7, <1>8 DEF step, back

\* A poll appends its batch, if it has one and nothing has failed, or leaves the rows.
LEMMA PollIs ==
  ASSUME NEW state \in Running, NEW poll \in PollRecord
  PROVE  /\ Poll(state, poll) \in Running
         /\ ~Poll(state, poll).failed => ~state.failed
         /\ \/ /\ Poll(state, poll).start = state.start /\ Poll(state, poll).rows = state.rows
               /\ ~Poll(state, poll).failed => ~(poll.count > 0)
            \/ /\ poll.count > 0
               /\ Poll(state, poll).start =
                    IF state.start = NoTime THEN Batch(poll)[1] ELSE state.start
               /\ Poll(state, poll).rows = state.rows \o Batch(poll)
  <1>1. CASE ~state.failed /\ poll.count > 0 /\ poll.count <= RowsPerRead
    <2>1. Batch(poll) \in Seq(Nat) /\ Batch(poll)[1] \in Int
      BY <1>1, BatchIs DEF PollRecord
    <2>2. Poll(state, poll) = [failed |-> poll.writeFails, start |-> Announced(state, poll),
                               rows |-> state.rows \o Batch(poll)]
      BY <1>1, RoomAssumption DEF Poll, PollRecord
    <2>3. Announced(state, poll) \in Int /\ state.rows \o Batch(poll) \in Seq(Nat)
            /\ poll.writeFails \in BOOLEAN
      BY <2>1 DEF Announced, Running, PollRecord
    <2> QED
      BY <1>1, <2>2, <2>3 DEF Announced, Running
  <1>2. CASE state.failed \/ poll.count = 0
    <2>1. Poll(state, poll) = state
      BY <1>2, RoomAssumption DEF Poll
    <2> QED
      BY <1>2, <2>1
  <1>3. CASE ~state.failed /\ poll.count \notin 0 .. RowsPerRead
    <2>1. Poll(state, poll) = [state EXCEPT !.failed = TRUE]
      BY <1>3 DEF Poll
    <2> QED
      BY <1>3, <2>1 DEF Running
  <1> QED
    BY <1>1, <1>2, <1>3, RoomAssumption DEF PollRecord

\* A recording, poll by poll.
LEMMA PollsAreFold ==
  ASSUME NEW polls \in Seq(PollRecord)
  PROVE  \E r \in [0 .. Len(polls) -> Running] :
           /\ r[0] = Begin /\ r[Len(polls)] = FoldLeft(Poll, Begin, polls)
           /\ \A k \in 1 .. Len(polls) : r[k] = Poll(r[k - 1], polls[k])
  <1> DEFINE n == Len(polls)
             V == Running
             step == [v \in V |-> [k \in 1 .. n |-> Poll(v, polls[k])]]
             Unfold(f, t) == IF t = {} THEN Begin ELSE Poll(f[t \ {Max(t)}], polls[Max(t)])
             iter == CHOOSE f : f = [t \in SUBSET (DOMAIN polls) |-> Unfold(f, t)]
  <1>1. n \in Nat /\ Begin \in V /\ \A k \in 1 .. n : polls[k] \in PollRecord
    BY DEF Begin, Running, NoTime
  <1>2. step \in [V -> [1 .. n -> V]] /\ \A v \in V, k \in 1 .. n : step[v][k] = Poll(v, polls[k])
    BY <1>1, PollIs
  <1>3. FoldLeft(Poll, Begin, polls) = iter[DOMAIN polls]
    BY DEF FoldLeft, MapThenFoldSet
  <1> HIDE DEF step, V
  <1>4. PICK f \in [SUBSET (1 .. n) -> V] : Folds(f, V, Begin, step, n)
    BY <1>1, <1>2, LeftFoldExists
  <1>5. DOMAIN polls = 1 .. n
    OBVIOUS
  <1>6. ASSUME NEW t \in SUBSET (1 .. n), t # {} PROVE f[t] = Unfold(f, t)
    <2>1. Max(t) \in 1 .. n /\ t \ {Max(t)} \in SUBSET (1 .. n)
      BY <1>1, <1>6, GreatestIndex
    <2>2. f[t \ {Max(t)}] \in V
      BY <1>4, <2>1
    <2>3. f[t] = step[f[t \ {Max(t)}]][Max(t)]
      BY <1>4, <1>6, <2>2 DEF Folds
    <2>4. step[f[t \ {Max(t)}]][Max(t)] = Poll(f[t \ {Max(t)}], polls[Max(t)])
      BY <1>2, <2>1, <2>2, Zenon
    <2> QED
      BY <1>6, <2>3, <2>4, Zenon
  <1>7. f = [t \in SUBSET (DOMAIN polls) |-> Unfold(f, t)]
    <2>1. f[{}] = Unfold(f, {})
      BY <1>4, Zenon DEF Folds
    <2>2. \A t \in SUBSET (1 .. n) : f[t] = Unfold(f, t)
      <3> HIDE DEF Unfold
      <3>1. \A t \in SUBSET (1 .. n) : t # {} => f[t] = Unfold(f, t)
        BY <1>6
      <3> QED
        BY <2>1, <3>1
    <2> HIDE DEF Unfold
    <2> QED
      BY <1>4, <1>5, <2>2
  <1>8. iter = [t \in SUBSET (DOMAIN polls) |-> Unfold(iter, t)]
    BY <1>7
  <1> HIDE DEF iter
  <1>9. Folds(iter, V, Begin, step, n)
    <2>1. iter[{}] = Begin
      <3>1. iter[{}] = Unfold(iter, {})
        <4> HIDE DEF Unfold
        <4> QED
          BY <1>8
      <3> QED
        BY <3>1, Zenon
    <2>2. ASSUME NEW t \in SUBSET (1 .. n), t # {}, iter[t \ {Max(t)}] \in V
          PROVE  iter[t] = step[iter[t \ {Max(t)}]][Max(t)]
      <3>1. Max(t) \in 1 .. n
        BY <1>1, <2>2, GreatestIndex
      <3>2. iter[t] = Unfold(iter, t)
        <4> HIDE DEF Unfold
        <4> QED
          BY <1>5, <1>8
      <3>3. step[iter[t \ {Max(t)}]][Max(t)] = Poll(iter[t \ {Max(t)}], polls[Max(t)])
        BY <1>2, <2>2, <3>1, Zenon
      <3> QED
        BY <2>2, <3>2, <3>3, Zenon
    <2> QED
      BY <2>1, <2>2 DEF Folds
  <1>10. PICK r : Runs(r, V, Begin, step, n) /\ r[n] = iter[1 .. n]
    <2>1. n \in Nat /\ Begin \in V /\ step \in [V -> [1 .. n -> V]]
      BY <1>1, <1>2
    <2> HIDE DEF n
    <2> DEFINE Stepped(g, W, b, o, m) == \E r : Runs(r, W, b, o, m) /\ r[m] = g[1 .. m]
    <2>2. \A m \in Nat : \A W : \A b \in W, o \in [W -> [1 .. m -> W]] : \A g :
            Folds(g, W, b, o, m) => Stepped(g, W, b, o, m)
      BY LeftFoldSteps
    <2>3. Stepped(iter, V, Begin, step, n)
      <3> HIDE DEF Stepped
      <3> QED
        BY <1>9, <2>1, <2>2
    <2> QED
      BY <2>3
  <1>11. ASSUME NEW k \in 1 .. n PROVE r[k] = Poll(r[k - 1], polls[k])
    <2>1. r[k - 1] \in V /\ r[k] = step[r[k - 1]][k]
      BY <1>1, <1>10 DEF Runs
    <2> QED
      BY <1>2, <2>1, Zenon
  <1> QED
    BY <1>3, <1>5, <1>10, <1>11 DEF V, Runs

\* The announced start is the first timestamp of the file, poll by poll.
LEMMA StartIsFirst ==
  ASSUME NEW polls \in Seq(PollRecord), NEW r \in [0 .. Len(polls) -> Running], r[0] = Begin,
         \A k \in 1 .. Len(polls) : r[k] = Poll(r[k - 1], polls[k])
  PROVE  \A k \in 0 .. Len(polls) :
           r[k].start = IF r[k].rows = <<>> THEN NoTime ELSE r[k].rows[1]
  <1> DEFINE n == Len(polls)
             Known(k) == r[k].start = IF r[k].rows = <<>> THEN NoTime ELSE r[k].rows[1]
             P == {k \in Nat : k <= n => Known(k)}
  <1>1. n \in Nat /\ \A k \in 1 .. n : polls[k] \in PollRecord
    OBVIOUS
  <1>2. 0 \in P
    BY DEF Begin
  <1>3. ASSUME NEW k \in P PROVE k + 1 \in P
    <2> SUFFICES ASSUME k + 1 <= n PROVE Known(k + 1)
      <3> HIDE DEF Known
      <3> QED
        OBVIOUS
    <2>1. k \in Nat /\ k <= n /\ k + 1 \in 1 .. n /\ (k + 1) - 1 = k /\ k \in 0 .. n
      BY <1>1, <1>3
    <2> DEFINE state == r[k]
               poll == polls[k + 1]
    <2>2. state \in Running /\ poll \in PollRecord /\ r[k + 1] = Poll(state, poll)
      BY <1>1, <2>1
    <2>3. state.start = IF state.rows = <<>> THEN NoTime ELSE state.rows[1]
      BY <1>3, <2>1
    <2>4. SUFFICES r[k + 1].start = IF r[k + 1].rows = <<>> THEN NoTime ELSE r[k + 1].rows[1]
      OBVIOUS
    <2> HIDE DEF state, poll
    <2>5. CASE r[k + 1].start = state.start /\ r[k + 1].rows = state.rows
      BY <2>3, <2>5
    <2>6. CASE /\ poll.count > 0
               /\ r[k + 1].start = IF state.start = NoTime THEN Batch(poll)[1] ELSE state.start
               /\ r[k + 1].rows = state.rows \o Batch(poll)
      <3> DEFINE batch == Batch(poll)
                 rows == state.rows
      <3>1. rows \in Seq(Nat) /\ batch \in Seq(Nat) /\ Len(batch) >= 1
        BY <2>2, <2>6, BatchIs DEF Running, PollRecord
      <3>2. /\ rows \o batch \in Seq(Nat) /\ Len(rows \o batch) = Len(rows) + Len(batch)
            /\ \A i \in 1 .. Len(rows) : (rows \o batch)[i] = rows[i]
            /\ (rows \o batch)[Len(rows) + 1] = batch[1] /\ Len(rows) \in Nat
        <4> HIDE DEF rows, batch
        <4> QED
          BY <3>1, Joined
      <3>3. rows \o batch # <<>>
        <4> HIDE DEF rows, batch
        <4> QED
          BY <3>1, <3>2
      <3>4. CASE rows = <<>>
        <4>1. state.start = NoTime /\ r[k + 1].start = batch[1]
          BY <2>3, <2>6, <3>4
        <4>2. (rows \o batch)[1] = batch[1]
          <5> HIDE DEF rows, batch
          <5> QED
            BY <3>2, <3>4
        <4> QED
          BY <2>6, <3>3, <4>1, <4>2
      <3>5. CASE rows # <<>>
        <4>1. 1 \in 1 .. Len(rows) /\ rows[1] \in Nat
          <5> HIDE DEF rows
          <5> QED
            BY <3>1, <3>5
        <4>2. state.start = rows[1] /\ state.start # NoTime
          BY <2>3, <3>5, <4>1 DEF NoTime
        <4>3. (rows \o batch)[1] = rows[1]
          BY <3>2, <4>1
        <4> QED
          BY <2>6, <3>3, <4>2, <4>3
      <3> QED
        BY <3>4, <3>5
    <2> QED
      BY <2>2, <2>5, <2>6, PollIs
  <1>4. P = Nat
    <2> HIDE DEF P
    <2> QED
      BY <1>2, <1>3, Successors DEF P
  <1>5. \A k \in 0 .. n : Known(k)
    <2> HIDE DEF Known
    <2> QED
      BY <1>1, <1>4
  <1> QED
    BY <1>5

\* A sequence holds another one when it has it somewhere.
Holds(s, u) == \E at \in 0 .. Len(s) - Len(u) : \A k \in 1 .. Len(u) : s[at + k] = u[k]

LEMMA HoldsJoined ==
  ASSUME NEW s \in Seq(Nat), NEW u \in Seq(Nat)
  PROVE  Holds(s \o u, u) /\ \A v \in Seq(Nat) : Holds(s, v) => Holds(s \o u, v)
  <1> DEFINE q == s \o u
             m == Len(s)
             n == Len(u)
  <1>1. /\ m \in Nat /\ n \in Nat /\ Len(q) = m + n
        /\ \A k \in 1 .. m : q[k] = s[k]
        /\ \A k \in 1 .. m + n : k > m => q[k] = u[k - m]
    BY ConcatProperties, LenProperties
  <1> HIDE DEF q
  <1>2. Holds(q, u)
    <2>1. m \in 0 .. Len(q) - n
      BY <1>1
    <2>2. \A k \in 1 .. n : m + k \in 1 .. m + n /\ m + k > m /\ (m + k) - m = k
      BY <1>1
    <2> QED
      BY <1>1, <2>1, <2>2 DEF Holds
  <1>3. ASSUME NEW v \in Seq(Nat), Holds(s, v) PROVE Holds(q, v)
    <2>1. PICK at \in 0 .. m - Len(v) : \A k \in 1 .. Len(v) : s[at + k] = v[k]
      BY <1>3 DEF Holds
    <2>2. Len(v) \in Nat
      BY LenProperties
    <2>3. at \in 0 .. Len(q) - Len(v) /\ \A k \in 1 .. Len(v) : at + k \in 1 .. m
      BY <1>1, <2>2
    <2> QED
      BY <1>1, <2>1, <2>3 DEF Holds
  <1> QED
    BY <1>2, <1>3 DEF q

\* As long as nothing has failed, every batch that was read has been handed on.
LEMMA BatchesAreHeld ==
  ASSUME NEW polls \in Seq(PollRecord), NEW r \in [0 .. Len(polls) -> Running], r[0] = Begin,
         \A k \in 1 .. Len(polls) : r[k] = Poll(r[k - 1], polls[k])
  PROVE  \A k \in 0 .. Len(polls) : ~r[k].failed =>
           \A i \in 1 .. k : polls[i].count > 0 => Holds(r[k].rows, Batch(polls[i]))
  <1> DEFINE n == Len(polls)
             Held(k) == ~r[k].failed =>
               \A i \in 1 .. k : polls[i].count > 0 => Holds(r[k].rows, Batch(polls[i]))
             P == {k \in Nat : k <= n => Held(k)}
  <1>1. n \in Nat /\ \A k \in 1 .. n : polls[k] \in PollRecord
    OBVIOUS
  <1>2. 0 \in P
    OBVIOUS
  <1>3. ASSUME NEW k \in P PROVE k + 1 \in P
    <2> SUFFICES ASSUME k + 1 <= n PROVE Held(k + 1)
      <3> HIDE DEF Held
      <3> QED
        OBVIOUS
    <2>1. k \in Nat /\ k <= n /\ k + 1 \in 1 .. n /\ (k + 1) - 1 = k /\ k \in 0 .. n
      BY <1>1, <1>3
    <2> DEFINE state == r[k]
               poll == polls[k + 1]
               next == r[k + 1]
    <2>2. state \in Running /\ poll \in PollRecord /\ next = Poll(state, poll)
      BY <1>1, <2>1
    <2>3. ~state.failed => \A i \in 1 .. k : polls[i].count > 0 => Holds(state.rows, Batch(polls[i]))
      BY <1>3, <2>1
    <2> SUFFICES ASSUME ~next.failed, NEW i \in 1 .. k + 1, polls[i].count > 0
                 PROVE  Holds(next.rows, Batch(polls[i]))
      OBVIOUS
    <2> HIDE DEF state, next
    <2>4. /\ ~state.failed /\ state.rows \in Seq(Nat)
          /\ (next.rows = state.rows /\ ~(poll.count > 0))
               \/ (poll.count > 0 /\ next.rows = state.rows \o Batch(poll))
      BY <2>2, PollIs DEF Running
    <2>5. i \in 1 .. n /\ polls[i] \in PollRecord /\ Batch(polls[i]) \in Seq(Nat)
      <3>1. i \in 1 .. n
        BY <1>1, <2>1
      <3> QED
        BY <1>1, <3>1, BatchIs
    <2>6. CASE i = k + 1
      <3>1. polls[i] = poll
        BY <2>6
      <3> HIDE DEF poll
      <3> QED
        BY <2>4, <2>5, <3>1, HoldsJoined
    <2>7. CASE i # k + 1
      <3>1. i \in 1 .. k
        BY <2>1, <2>7
      <3>2. Holds(state.rows, Batch(polls[i]))
        BY <2>3, <2>4, <3>1
      <3>3. CASE next.rows = state.rows
        BY <3>2, <3>3
      <3>4. CASE poll.count > 0 /\ next.rows = state.rows \o Batch(poll)
        <4>1. Batch(poll) \in Seq(Nat)
          BY <2>2, <3>4, BatchIs
        <4> HIDE DEF poll
        <4> QED
          BY <2>4, <2>5, <3>2, <3>4, <4>1, HoldsJoined
      <3> QED
        BY <2>4, <3>3, <3>4
    <2> QED
      BY <2>6, <2>7
  <1>4. P = Nat
    <2> HIDE DEF P
    <2> QED
      BY <1>2, <1>3, Successors DEF P
  <1>5. \A k \in 0 .. n : Held(k)
    <2> HIDE DEF Held
    <2> QED
      BY <1>1, <1>4
  <1> QED
    BY <1>5

Ascending(s) == \A a, b \in 1 .. Len(s) : a < b => s[a] < s[b]

LEMMA AscendingJoined ==
  ASSUME NEW s \in Seq(Nat), NEW t \in Seq(Nat), Ascending(s), Ascending(t), t # <<>>,
         s # <<>> => s[Len(s)] < t[1]
  PROVE  s \o t \in Seq(Nat) /\ Ascending(s \o t) /\ (s \o t)[Len(s \o t)] = t[Len(t)]
  <1> DEFINE m == Len(s)
             n == Len(t)
             q == s \o t
  <1>1. /\ m \in Nat /\ n \in Nat /\ n >= 1 /\ q \in Seq(Nat) /\ Len(q) = m + n
        /\ \A a \in 1 .. m : q[a] = s[a] /\ s[a] \in Nat
        /\ \A b \in 1 .. n : t[b] \in Nat
    BY Joined
  <1>2. \A a \in 1 .. m + n : a > m => a - m \in 1 .. n /\ q[a] = t[a - m]
    BY <1>1, ConcatProperties
  <1>3. \A a \in 1 .. m : m # 0 /\ s # <<>> /\ s[a] <= s[m]
    BY <1>1 DEF Ascending
  <1>4. \A b \in 1 .. n : t[1] <= t[b]
    BY <1>1 DEF Ascending
  <1>5. \A a, b \in 1 .. m : a < b => s[a] < s[b]
    BY DEF Ascending
  <1>6. \A a, b \in 1 .. n : a < b => t[a] < t[b]
    BY DEF Ascending
  <1> HIDE DEF m, n, q
  <1>7. ASSUME NEW a \in 1 .. m + n, NEW b \in 1 .. m + n, a < b PROVE q[a] < q[b]
    <2>1. CASE b <= m
      BY <1>1, <1>5, <1>7, <2>1
    <2>2. CASE a > m
      <3>1. a - m \in 1 .. n /\ b - m \in 1 .. n /\ q[a] = t[a - m] /\ q[b] = t[b - m]
        <4>1. m \in Nat /\ n \in Nat /\ b > m
          BY <1>1, <1>7, <2>2
        <4>2. a - m \in 1 .. n /\ b - m \in 1 .. n
          BY <2>2, <4>1
        <4> QED
          BY <1>2, <2>2, <4>1, <4>2
      <3>2. a - m < b - m
        BY <1>1, <1>7
      <3> QED
        BY <1>6, <3>1, <3>2
    <2>3. CASE a <= m /\ b > m
      <3>1. a \in 1 .. m /\ q[a] = s[a] /\ s[a] <= s[m] /\ s[m] < t[1] /\ s[a] \in Nat
        <4>1. a \in 1 .. m
          BY <1>1, <2>3
        <4>2. q[a] = s[a] /\ s[a] \in Nat
          BY <1>1, <4>1
        <4>3. s # <<>> /\ s[a] <= s[m]
          BY <1>3, <4>1
        <4>4. s[m] < t[1]
          BY <4>3 DEF m
        <4> QED
          BY <4>1, <4>2, <4>3, <4>4
      <3>2. b - m \in 1 .. n /\ q[b] = t[b - m] /\ t[1] <= t[b - m] /\ t[b - m] \in Nat
        <4>1. b - m \in 1 .. n /\ b > m
          BY <1>1, <2>3
        <4>2. q[b] = t[b - m]
          BY <1>2, <4>1
        <4> QED
          BY <1>1, <1>4, <4>1, <4>2
      <3>3. m \in 1 .. m /\ 1 \in 1 .. n
        BY <1>1, <3>1
      <3>4. s[m] \in Nat /\ t[1] \in Nat
        BY <1>1, <3>3
      <3>5. \A w, x, y, z \in Nat : w <= x /\ x < y /\ y <= z => w < z
        OBVIOUS
      <3>6. s[a] < t[b - m]
        BY <3>1, <3>2, <3>4, <3>5, Zenon
      <3> QED
        BY <3>1, <3>2, <3>6, Zenon
    <2> QED
      BY <1>1, <2>1, <2>2, <2>3
  <1>8. q[m + n] = t[n]
    <2>1. m + n \in 1 .. m + n /\ m + n > m /\ (m + n) - m = n
      BY <1>1
    <2> QED
      BY <1>2, <2>1
  <1> QED
    BY <1>1, <1>7, <1>8 DEF q, m, n, Ascending

Read(polls) == {i \in 1 .. Len(polls) : polls[i].count > 0}
Span(poll) == Micros(poll.count - 1)
Behind(poll) == Max({0, (poll.count - 1) * Micros(1) - Span(poll)})
Paced(polls) ==
  /\ \A i \in Read(polls) : polls[i].clock >= Span(polls[i])
  /\ \A i, j \in Read(polls) : i < j =>
       polls[j].clock >= polls[i].clock + Behind(polls[i]) + Span(polls[j]) + Micros(1)

\* Batches that are read as fast as they are sampled follow each other.
LEMMA BatchFollows ==
  ASSUME NEW poll \in PollRecord, poll.count > 0, poll.clock >= Span(poll)
  PROVE  /\ Batch(poll) \in Seq(Nat) /\ Batch(poll) # <<>> /\ Ascending(Batch(poll))
         /\ Behind(poll) \in Nat
         /\ Batch(poll)[Len(Batch(poll))] <= poll.clock + Behind(poll)
         /\ \A time \in Nat : poll.clock >= time + Span(poll) + Micros(1) => time < Batch(poll)[1]
  <1> DEFINE first == First(poll)
             count == poll.count
             P == Micros(1)
             back == Span(poll)
             steps == (count - 1) * P
  <1>1. /\ Batch(poll) \in Seq(Nat) /\ Len(Batch(poll)) = count /\ first \in Nat
        /\ \A k \in 1 .. count : k - 1 \in Nat /\ Batch(poll)[k] = first + (k - 1) * P
        /\ first = poll.clock - back
    BY BatchIs DEF Span
  <1>2. P \in Nat /\ P > 0 /\ count \in Nat /\ count >= 1 /\ poll.clock \in Nat /\ back \in Nat
    BY MicrosAre DEF PollRecord, Span
  <1> HIDE DEF first, P, back
  <1>3. \A a, b \in Nat : a < b => a * P < b * P
    BY <1>2
  <1>4. steps \in Nat
    BY <1>2
  <1>5. \A a, b \in 1 .. count : a < b => first + (a - 1) * P < first + (b - 1) * P
    <2> SUFFICES ASSUME NEW a \in 1 .. count, NEW b \in 1 .. count, a < b
                 PROVE  first + (a - 1) * P < first + (b - 1) * P
      OBVIOUS
    <2>1. a - 1 \in Nat /\ b - 1 \in Nat /\ a - 1 < b - 1
      OBVIOUS
    <2>2. (a - 1) * P < (b - 1) * P /\ (a - 1) * P \in Nat /\ (b - 1) * P \in Nat
      BY <1>2, <1>3, <2>1
    <2> QED
      BY <1>1, <2>2
  <1>6. Behind(poll) \in Nat /\ steps - back <= Behind(poll)
    <2>1. steps - back \in Int
      BY <1>2, <1>4
    <2>2. Behind(poll) = Max({0, steps - back})
      BY DEF Behind, P, back
    <2> HIDE DEF steps
    <2> QED
      BY <2>1, <2>2, MaxOfTwo
  <1>7. Batch(poll)[count] <= poll.clock + Behind(poll)
    <2>1. count \in 1 .. count
      BY <1>2
    <2>2. Batch(poll)[count] = first + steps
      BY <1>1, <2>1
    <2> HIDE DEF steps
    <2> QED
      BY <1>1, <1>2, <1>4, <1>6, <2>2
  <1>8. \A time \in Nat : poll.clock >= time + back + P => time < Batch(poll)[1]
    <2>1. Batch(poll)[1] = first
      <3>1. Batch(poll)[1] = first + (1 - 1) * P /\ 0 * P = 0 /\ 1 - 1 = 0
        BY <1>1, <1>2
      <3> QED
        BY <1>1, <3>1
    <2> QED
      BY <1>1, <1>2, <2>1
  <1>9. Ascending(Batch(poll))
    BY <1>1, <1>5 DEF Ascending
  <1> QED
    BY <1>1, <1>2, <1>6, <1>7, <1>8, <1>9 DEF P, back

\* The rows of a paced recording are in the order of time.
LEMMA PacedRowsAscend ==
  ASSUME NEW polls \in Seq(PollRecord), NEW r \in [0 .. Len(polls) -> Running], r[0] = Begin,
         \A k \in 1 .. Len(polls) : r[k] = Poll(r[k - 1], polls[k]), Paced(polls)
  PROVE  \A k \in 0 .. Len(polls) : Ascending(r[k].rows)
  <1> DEFINE n == Len(polls)
             Orderly(k) == /\ Ascending(r[k].rows)
                           /\ r[k].rows # <<>> =>
                                \E i \in Read(polls) :
                                  i <= k /\ r[k].rows[Len(r[k].rows)]
                                            <= polls[i].clock + Behind(polls[i])
             P == {k \in Nat : k <= n => Orderly(k)}
  <1>1. n \in Nat /\ \A k \in 1 .. n : polls[k] \in PollRecord
    OBVIOUS
  <1>2. 0 \in P
    BY DEF Begin, Ascending
  <1>3. ASSUME NEW k \in P PROVE k + 1 \in P
    <2> SUFFICES ASSUME k + 1 <= n PROVE Orderly(k + 1)
      <3> HIDE DEF Orderly
      <3> QED
        OBVIOUS
    <2>1. k \in Nat /\ k <= n /\ k + 1 \in 1 .. n /\ (k + 1) - 1 = k /\ k \in 0 .. n
      BY <1>1, <1>3
    <2> DEFINE state == r[k]
               poll == polls[k + 1]
               next == r[k + 1]
    <2>2. state \in Running /\ poll \in PollRecord /\ next = Poll(state, poll)
      BY <1>1, <2>1
    <2>3. Ascending(state.rows) /\ (state.rows # <<>> =>
            \E i \in Read(polls) :
              i <= k /\ state.rows[Len(state.rows)] <= polls[i].clock + Behind(polls[i]))
      BY <1>3, <2>1
    <2>4. SUFFICES Ascending(next.rows) /\ (next.rows # <<>> =>
            \E i \in Read(polls) :
              i <= k + 1 /\ next.rows[Len(next.rows)] <= polls[i].clock + Behind(polls[i]))
      OBVIOUS
    <2>5. CASE next.rows = state.rows
      <3> HIDE DEF next, state
      <3>1. \A i \in Read(polls) : i <= k => i <= k + 1
        BY <1>1, <2>1 DEF Read
      <3> QED
        BY <2>3, <2>5, <3>1
    <2>6. CASE poll.count > 0 /\ next.rows = state.rows \o Batch(poll)
      <3>1. k + 1 \in Read(polls)
        BY <2>1, <2>6 DEF Read
      <3>2. poll.clock >= Span(poll)
        BY <3>1 DEF Paced
      <3> HIDE DEF next, state
      <3>3. state.rows # <<>> => state.rows[Len(state.rows)] < Batch(poll)[1]
        <4> SUFFICES ASSUME state.rows # <<>> PROVE state.rows[Len(state.rows)] < Batch(poll)[1]
          OBVIOUS
        <4>1. PICK i \in Read(polls) :
                i <= k /\ state.rows[Len(state.rows)] <= polls[i].clock + Behind(polls[i])
          BY <2>3
        <4>2. i \in 1 .. n
          BY DEF Read
        <4>3. i < k + 1
          BY <1>1, <2>1, <4>1, <4>2
        <4> DEFINE end == state.rows[Len(state.rows)]
        <4>4. end \in Nat
          BY <2>2 DEF Running
        <4>5. poll.clock >= polls[i].clock + Behind(polls[i]) + Span(poll) + Micros(1)
          BY <3>1, <4>3 DEF Paced
        <4>6. polls[i].clock \in Nat /\ Behind(polls[i]) \in Nat
          <5>1. polls[i] \in PollRecord /\ polls[i].count > 0 /\ polls[i].clock >= Span(polls[i])
            BY <1>1, <4>2 DEF Read, Paced
          <5>2. Behind(polls[i]) \in Nat
            BY <5>1, BatchFollows
          <5> QED
            BY <5>1, <5>2 DEF PollRecord
        <4>7. Span(poll) \in Nat /\ Micros(1) \in Nat /\ poll.clock \in Nat
          <5> HIDE DEF poll
          <5>1. poll.count - 1 \in Nat /\ poll.clock \in Nat
            BY <2>2, <2>6 DEF PollRecord
          <5> QED
            BY <5>1, MicrosAre DEF Span
        <4>8. end <= polls[i].clock + Behind(polls[i])
          BY <4>1
        <4> HIDE DEF end, poll
        <4>9. poll.clock >= end + Span(poll) + Micros(1)
          <5> DEFINE before == polls[i].clock
                     behind == Behind(polls[i])
                     span == Span(poll)
                     step == Micros(1)
                     clock == poll.clock
          <5>1. /\ before \in Nat /\ behind \in Nat /\ span \in Nat /\ step \in Nat
                /\ clock \in Nat /\ end \in Nat
                /\ end <= before + behind /\ clock >= before + behind + span + step
            BY <4>4, <4>5, <4>6, <4>7, <4>8
          <5> HIDE DEF before, behind, span, step, clock
          <5>2. clock >= end + span + step
            BY <5>1
          <5> QED
            BY <5>2 DEF clock, span, step
        <4> QED
          BY <2>2, <2>6, <3>2, <4>4, <4>9, BatchFollows DEF end
      <3>4. /\ Batch(poll) \in Seq(Nat) /\ Batch(poll) # <<>> /\ Ascending(Batch(poll))
            /\ Batch(poll)[Len(Batch(poll))] <= poll.clock + Behind(poll)
        BY <2>2, <2>6, <3>2, BatchFollows
      <3>5. state.rows \in Seq(Nat)
        BY <2>2 DEF Running
      <3> DEFINE batch == Batch(poll)
                 time == poll.clock + Behind(poll)
      <3>6. Ascending(next.rows) /\ next.rows[Len(next.rows)] = batch[Len(batch)]
        <4> HIDE DEF poll, time
        <4> QED
          BY <2>3, <2>6, <3>3, <3>4, <3>5, AscendingJoined
      <3>7. next.rows[Len(next.rows)] <= time
        BY <3>4, <3>6
      <3>8. time = polls[k + 1].clock + Behind(polls[k + 1]) /\ k + 1 <= k + 1
        BY <2>1
      <3> HIDE DEF time, batch
      <3>9. next.rows[Len(next.rows)] <= polls[k + 1].clock + Behind(polls[k + 1])
        BY <3>7, <3>8
      <3> QED
        BY <3>1, <3>6, <3>8, <3>9, Zenon
    <2>7. \/ next.rows = state.rows
          \/ poll.count > 0 /\ next.rows = state.rows \o Batch(poll)
      <3> HIDE DEF next, state, poll
      <3> QED
        BY <2>2, PollIs
    <2> QED
      BY <2>5, <2>6, <2>7
  <1>4. P = Nat
    <2> HIDE DEF P
    <2> QED
      BY <1>2, <1>3, Successors DEF P
  <1>5. \A k \in 0 .. n : Orderly(k)
    <2> HIDE DEF Orderly
    <2> QED
      BY <1>1, <1>4
  <1> QED
    BY <1>5

\* What a recording leaves: the announced start is the first timestamp of the file, an
\* announced end vouches for every batch, and a paced recording is in the order of time.
LEMMA RecordingIs ==
  ASSUME NEW polls \in Seq(PollRecord), NEW faults, NEW kept \in Nat
  PROVE  LET recording == Record(polls, faults, kept)
         IN  /\ recording.file \in Seq(Nat)
             /\ recording.file # <<>> => recording.start = recording.file[1]
             /\ recording.last # NoTime =>
                  /\ recording.file # <<>> /\ recording.last = Last(recording.file)
                  /\ \A i \in Read(polls) : Holds(recording.file, Batch(polls[i]))
             /\ recording.exit = 0 => recording.last # NoTime
             /\ Paced(polls) => Ascending(recording.file)
  <1> DEFINE n == Len(polls)
             state == FoldLeft(Poll, Begin, polls)
             rows == state.rows
             file == Written(state, faults, kept)
             recording == Record(polls, faults, kept)
             done == Flushed(state, faults) /\ rows # <<>>
  <1>1. PICK r \in [0 .. n -> Running] :
          r[0] = Begin /\ r[n] = state /\ \A k \in 1 .. n : r[k] = Poll(r[k - 1], polls[k])
    BY PollsAreFold
  <1>2. n \in 0 .. n
    BY LenProperties
  <1>3. recording = [exit |-> IF done /\ "close" \notin faults THEN 0 ELSE 1, file |-> file,
                     start |-> state.start, last |-> IF done THEN Last(rows) ELSE NoTime]
    BY DEF Record, Begin
  <1> HIDE DEF state, recording
  <1>4. state \in Running
    BY <1>1, <1>2
  <1>5. state.start = IF rows = <<>> THEN NoTime ELSE rows[1]
    BY <1>1, <1>2, StartIsFirst
  <1>6. Paced(polls) => Ascending(rows)
    BY <1>1, <1>2, PacedRowsAscend
  <1>7. ~state.failed => \A i \in Read(polls) : Holds(rows, Batch(polls[i]))
    <2>1. ~r[n].failed => \A i \in 1 .. n : polls[i].count > 0 => Holds(r[n].rows, Batch(polls[i]))
      BY <1>1, <1>2, BatchesAreHeld
    <2> QED
      BY <1>1, <2>1 DEF Read
  <1>8. rows \in Seq(Nat)
    BY <1>4 DEF Running
  <1> HIDE DEF rows
  <1>9. Flushed(state, faults) => file = rows /\ ~state.failed
    BY DEF Flushed, Written, rows
  <1>10. PICK m \in 0 .. Len(rows) :
           file \in Seq(Nat) /\ Len(file) = m /\ \A k \in 1 .. m : file[k] = rows[k]
    <2>1. CASE file = rows
      <3>1. Len(rows) \in 0 .. Len(rows)
        BY <1>8, LenProperties
      <3> QED
        BY <1>8, <2>1, <3>1
    <2>2. CASE file = SubSeq(rows, 1, Min({kept, Len(rows)}))
      <3> DEFINE m == Min({kept, Len(rows)})
      <3>1. m \in 0 .. Len(rows)
        <4>1. Len(rows) \in Nat
          BY <1>8
        <4>2. m = IF kept <= Len(rows) THEN kept ELSE Len(rows)
          BY <4>1, MinOfTwo
        <4> QED
          BY <4>1, <4>2
      <3> HIDE DEF m
      <3>2. m \in Int /\ \A k \in 1 .. m : rows[k] \in Nat
        BY <1>8, <3>1
      <3>3. /\ SubSeq(rows, 1, m) \in Seq(Nat)
            /\ Len(SubSeq(rows, 1, m)) = IF 1 <= m THEN m - 1 + 1 ELSE 0
            /\ \A k \in 1 .. m - 1 + 1 : SubSeq(rows, 1, m)[k] = rows[1 + k - 1]
        BY <3>2, SubSeqProperties
      <3>4. file = SubSeq(rows, 1, m)
        BY <2>2 DEF m
      <3>5. Len(file) = m /\ \A k \in 1 .. m : k \in 1 .. m - 1 + 1 /\ 1 + k - 1 = k
        BY <3>1, <3>3, <3>4
      <3> QED
        BY <3>1, <3>3, <3>4, <3>5
    <2> QED
      BY <2>1, <2>2 DEF Written, rows
  <1> HIDE DEF file
  <1>11. file # <<>> => rows # <<>> /\ file[1] = rows[1]
    <2> SUFFICES ASSUME file # <<>> PROVE rows # <<>> /\ file[1] = rows[1]
      OBVIOUS
    <2>1. Len(file) \in Nat /\ Len(file) # 0 /\ Len(rows) \in Nat
      BY <1>8, <1>10
    <2>2. 1 \in 1 .. m /\ Len(rows) # 0
      BY <1>10, <2>1
    <2>3. rows # <<>>
      BY <2>2
    <2>4. file[1] = rows[1]
      BY <1>10, <2>2, Zenon
    <2> QED
      BY <2>3, <2>4, Zenon
  <1>12. Ascending(rows) => Ascending(file)
    <2> SUFFICES ASSUME Ascending(rows), NEW a \in 1 .. m, NEW b \in 1 .. m, a < b
                 PROVE  file[a] < file[b]
      BY <1>10 DEF Ascending
    <2>1. a \in 1 .. Len(rows) /\ b \in 1 .. Len(rows)
      BY <1>8, LenProperties
    <2>2. rows[a] < rows[b]
      BY <2>1 DEF Ascending
    <2> QED
      BY <1>10, <2>2
  <1>13. done => Last(rows) \in Nat
    BY <1>8 DEF Last
  <1>14. \A time \in Nat : time # NoTime
    BY DEF NoTime
  <1>15. done => rows # <<>> /\ Flushed(state, faults)
    OBVIOUS
  <1> HIDE DEF done
  <1>16. /\ recording.file = file /\ recording.start = state.start
         /\ recording.last = IF done THEN Last(rows) ELSE NoTime
         /\ recording.exit = IF done /\ "close" \notin faults THEN 0 ELSE 1
    BY <1>3
  <1>17. recording.exit = 0 => done
    BY <1>16
  <1> QED
    BY <1>5, <1>6, <1>7, <1>9, <1>10, <1>11, <1>12, <1>13, <1>14, <1>15, <1>16, <1>17
       DEF recording

\* What the Windows recorder has written is what it announces, and the signals of its
\* export hold the samples of the window, for all recordings and all windows.
THEOREM ExportedRecording == Spec => []RecordingIsExported
  <1>1. ASSUME IInv, Answered("gator") PROVE GatorSignalsAgree
    <2> DEFINE times == job.csv.times
               n == Len(times)
               samples == GatorSamples(times, job.duration)
               good == {i \in 1 .. Len(answer.value) : answer.value[i].status = "success"}
               ordered == \A j, k \in 1 .. n : j <= k => times[j] <= times[k]
    <2>1. job \in GatorJobs
          /\ answer.value = ExportGatorSignals(job.csv, job.duration, job.unwritable)
      BY <1>1, KindsAssumption DEF IInv, IsJob, Computed, Answered, Answers
    <2>2. /\ times \in Seq(Int \cup {Invalid}) /\ Len(job.csv.columns) \in Nat
          /\ job.duration \in Nat \cup {NoWindow}
      BY <2>1, GatorAssumption
    <2>3. CASE answer.value = <<SourceFailed>>
      <3>1. good = {}
        BY <2>3 DEF SourceFailed
      <3> QED
        BY <3>1 DEF GatorSignalsAgree
    <2>4. CASE answer.value # <<SourceFailed>>
      <3>1. times # <<>> /\ \A k \in 1 .. n : times[k] # Invalid
        BY <2>1, <2>4 DEF ExportGatorSignals
      <3>2. \A i \in good : answer.value[i].written = samples
        <4> DEFINE signal(column) ==
                     IF column \in job.unwritable
                     THEN [alias |-> <<column>>, status |-> "failed", written |-> <<>>]
                     ELSE [alias |-> <<column>>, status |-> "success", written |-> samples]
        <4>1. answer.value = [i \in 1 .. Len(job.csv.columns) |-> signal(job.csv.columns[i])]
          BY <2>1, <2>4 DEF ExportGatorSignals
        <4>2. \A column : signal(column).status = "success" => signal(column).written = samples
          <5> HIDE DEF samples
          <5> QED
            OBVIOUS
        <4> HIDE DEF signal
        <4>3. \A i \in 1 .. Len(answer.value) : answer.value[i] = signal(job.csv.columns[i])
          BY <2>2, <4>1
        <4> QED
          BY <4>2, <4>3
      <3>3. times \in Seq(Int)
        BY <2>2, <3>1
      <3>4. /\ samples \in Seq(Int) /\ samples # <<>> /\ samples[1] = 0
            /\ job.duration # NoWindow =>
                 \A k \in 1 .. Len(samples) : samples[k] \in 0 .. job.duration
            /\ ordered =>
                 /\ {k \in 1 .. n : job.duration = NoWindow \/ times[k] - times[1] <= job.duration}
                      = 1 .. Len(samples)
                 /\ \A k \in 1 .. Len(samples) : samples[k] = times[k] - times[1]
        BY <2>2, <3>1, <3>3, GatorSamplesAre
      <3> HIDE DEF samples, times
      <3>5. Len(samples) \in Nat
        BY <3>4
      <3>6. ASSUME ordered, NEW k \in 1 .. n,
                   job.duration = NoWindow \/ times[k] - times[1] <= job.duration
            PROVE  k <= Len(samples) /\ samples[k] = times[k] - times[1]
        <4>1. k \in 1 .. Len(samples)
          BY <3>4, <3>6
        <4> QED
          BY <3>4, <3>5, <3>6, <4>1
      <3> QED
        BY <3>2, <3>4, <3>6 DEF GatorSignalsAgree, times
    <2> QED
      BY <2>3, <2>4
  <1>2. ASSUME IInv, Answered("windows") PROVE TokensDescribeTheFile /\ PacedRecordingIsExported
    <2> DEFINE recording == Record(job.polls, job.faults, job.kept)
               file == recording.file
               export == GatorSamples(file, job.duration)
               window == {k \in 1 .. Len(file) : file[k] - file[1] <= job.duration}
    <2>1. job \in WindowsJobs /\ answer.value = [recording |-> recording, export |-> export]
      BY <1>2, KindsAssumption DEF IInv, IsJob, Computed, Answered, Answers, Recording
    <2>2. /\ job.polls \in Seq(PollRecord) /\ job.duration \in Nat /\ job.duration # NoWindow
          /\ job.kept \in Nat
      BY <2>1, WindowsAssumption DEF PollRecord
    <2>3. /\ file \in Seq(Nat)
          /\ file # <<>> => recording.start = file[1]
          /\ recording.last # NoTime =>
               /\ file # <<>> /\ recording.last = Last(file)
               /\ \A i \in Read(job.polls) : Holds(file, Batch(job.polls[i]))
          /\ recording.exit = 0 => recording.last # NoTime
          /\ Paced(job.polls) => Ascending(file)
      BY <2>2, RecordingIs
    <2> HIDE DEF recording, export
    <2>4. TokensDescribeTheFile
      <3>1. \A i \in 1 .. Len(job.polls) : job.polls[i].count > 0 => i \in Read(job.polls)
        BY DEF Read
      <3>2. answer.value.recording = recording
        BY <2>1
      <3> QED
        BY <2>3, <3>1, <3>2 DEF TokensDescribeTheFile, Holds
    <2>5. ASSUME file # <<>>, Paced(job.polls)
          PROVE  /\ \A k \in 1 .. Len(export) - 1 : export[k] < export[k + 1]
                 /\ Len(export) = Cardinality(window)
      <3>1. \A j, k \in 1 .. Len(file) : j < k => file[j] < file[k]
        BY <2>3, <2>5 DEF Ascending
      <3> DEFINE m == Len(file)
                 n == Len(export)
      <3>2. m \in Nat /\ \A k \in 1 .. m : file[k] \in Int
        BY <2>3
      <3>3. \A j, k \in 1 .. m : j <= k => file[j] <= file[k]
        BY <3>1, <3>2
      <3>4. file \in Seq(Int)
        BY <2>3
      <3>5. /\ export \in Seq(Int)
            /\ {k \in 1 .. m : job.duration = NoWindow \/ file[k] - file[1] <= job.duration}
                 = 1 .. n
            /\ \A k \in 1 .. n : export[k] = file[k] - file[1]
        <4> HIDE DEF file
        <4> QED
          BY <2>2, <2>5, <3>3, <3>4, GatorSamplesAre DEF export
      <3>6. window = 1 .. n
        BY <2>2, <3>5
      <3>7. n \in Nat
        BY <3>5
      <3>8. Cardinality(window) = n
        <4> HIDE DEF window, n
        <4> QED
          BY <3>6, <3>7, FS_Interval
      <3>9. ASSUME NEW k \in 1 .. n - 1 PROVE export[k] < export[k + 1]
        <4>1. k \in 1 .. n /\ k + 1 \in 1 .. n /\ k < k + 1
          BY <3>7
        <4>2. k \in 1 .. m /\ k + 1 \in 1 .. m
          BY <3>6, <4>1
        <4>3. file[k] < file[k + 1] /\ 1 \in 1 .. m
          BY <3>1, <3>2, <4>1, <4>2
        <4>4. file[k] \in Int /\ file[k + 1] \in Int /\ file[1] \in Int
          BY <3>2, <4>2, <4>3
        <4>5. export[k] = file[k] - file[1] /\ export[k + 1] = file[k + 1] - file[1]
          BY <3>5, <4>1
        <4> HIDE DEF file
        <4> QED
          BY <4>3, <4>4, <4>5
      <3> QED
        BY <3>8, <3>9
    <2>6. PacedRecordingIsExported
      <3>1. answer.value.recording.file = file /\ answer.value.export = export
        BY <2>1
      <3>2. LET read == {i \in 1 .. Len(job.polls) : job.polls[i].count > 0}
                span(i) == Micros(job.polls[i].count - 1)
                behind(i) == Max({0, (job.polls[i].count - 1) * Micros(1) - span(i)})
            IN  (/\ \A i \in read : job.polls[i].clock >= span(i)
                 /\ \A i, j \in read : i < j =>
                      job.polls[j].clock >= job.polls[i].clock + behind(i) + span(j) + Micros(1))
                  => Paced(job.polls)
        BY DEF Paced, Read, Span, Behind
      <3> HIDE DEF file
      <3> QED
        BY <2>5, <3>1, <3>2 DEF PacedRecordingIsExported
    <2> QED
      BY <2>4, <2>6
  <1>3. IInv => RecordingIsExported
    BY <1>1, <1>2 DEF RecordingIsExported, GatorSignalsAgree, TokensDescribeTheFile,
       PacedRecordingIsExported
  <1> QED
    BY <1>3, AnswersInvariance, PTL

----------------------------------------------------------------------------
(* The envelope of a signal. *)

\* The quotient of two numbers.
LEMMA Cancelled ==
  ASSUME NEW b \in Nat \ {0}, NEW x \in Int, NEW y \in Int, b * x < b * y
  PROVE  x < y
  <1>1. ASSUME y <= x PROVE FALSE
    <2>1. x - y \in Nat /\ b * (x - y) \in Nat
      BY <1>1
    <2>2. b * x = b * y + b * (x - y)
      OBVIOUS
    <2>3. b * x \in Int /\ b * y \in Int
      OBVIOUS
    <2> QED
      BY <2>1, <2>2, <2>3
  <1> QED
    BY <1>1

\* The edges of the buckets: they begin at zero, end with the last sample, and are at least
\* one sample apart, however they are rounded.
LEMMA EdgesAre ==
  ASSUME NEW c \in Nat, NEW b \in Nat \ {0}, c > 2 * b, NEW short \in SUBSET ExactEdges(c, b)
  PROVE  LET edge(i) == Edge(c, b, short, i)
             q == c \div b
         IN  /\ edge(0) = 0 /\ edge(b) = c /\ q \in Nat
             /\ \A i \in 0 .. b : edge(i) \in Nat
             /\ \A i \in 1 .. b : edge(i - 1) < edge(i) /\ edge(i) <= edge(i - 1) + q + 2
             /\ \A i \in 1 .. b - 1 : edge(i + 1) <= edge(i - 1) + 2 * q + 2
  <1> DEFINE edge(i) == Edge(c, b, short, i)
             q == c \div b
             m(i) == (i * c) \div b
  <1>1. q \in Nat /\ b * q <= c /\ c < b * q + b
    BY Quotient
  <1>2. ASSUME NEW i \in 0 .. b
        PROVE  /\ m(i) \in Nat /\ b * m(i) \in Nat /\ i * c \in Nat
               /\ b * m(i) <= i * c /\ i * c < b * m(i) + b
               /\ i \in short => i # 0 /\ i # b /\ i * c = b * m(i)
               /\ edge(i) = m(i) - (IF i \in short THEN 1 ELSE 0)
    <2>1. i * c \in Nat
      OBVIOUS
    <2>2. /\ m(i) \in Nat /\ b * m(i) <= i * c /\ i * c < b * m(i) + b
          /\ (i * c) % b = 0 => i * c = b * m(i)
      BY <2>1, Quotient
    <2>3. i \in short => i # 0 /\ i # b /\ (i * c) % b = 0
      BY DEF ExactEdges
    <2>4. b * m(i) \in Nat
      BY <2>2
    <2> QED
      BY <2>1, <2>2, <2>3, <2>4 DEF Edge
  <1>3. m(0) = 0 /\ m(b) = c
    <2>1. b * m(0) <= 0 * c /\ 0 * c = 0 /\ m(0) \in Nat
      BY <1>2
    <2>2. m(0) = 0
      <3>1. m(0) < 1
        <4>1. b * m(0) < b * 1
          BY <2>1
        <4> QED
          BY <2>1, <4>1, Cancelled
      <3> QED
        BY <2>1, <3>1
    <2>3. b * m(b) <= b * c /\ b * c < b * m(b) + b /\ m(b) \in Nat
      BY <1>2
    <2>4. b * c < b * (m(b) + 1) /\ b * m(b) < b * (c + 1)
      BY <2>3
    <2>5. c < m(b) + 1 /\ m(b) < c + 1
      BY <2>3, <2>4, Cancelled
    <2> QED
      BY <2>2, <2>3, <2>5
  <1> HIDE DEF m, q, edge
  <1>4. \A i \in 0 .. b : /\ m(i) \in Nat /\ edge(i) \in Int
                         /\ edge(i) = (IF i \in short THEN m(i) - 1 ELSE m(i))
    <2> SUFFICES ASSUME NEW i \in 0 .. b
                 PROVE  /\ m(i) \in Nat /\ edge(i) \in Int
                        /\ edge(i) = (IF i \in short THEN m(i) - 1 ELSE m(i))
      OBVIOUS
    <2>1. m(i) \in Nat /\ edge(i) = m(i) - (IF i \in short THEN 1 ELSE 0)
      BY <1>2
    <2> QED
      BY <2>1
  <1>5. ASSUME NEW i \in 1 .. b PROVE m(i) >= m(i - 1) + 2 /\ m(i) <= m(i - 1) + q + 1
    <2>1. i \in 0 .. b /\ i - 1 \in 0 .. b /\ (i - 1) * c = i * c - c
      OBVIOUS
    <2>2. /\ m(i) \in Nat /\ m(i - 1) \in Nat
          /\ b * m(i) \in Nat /\ b * m(i - 1) \in Nat /\ i * c \in Nat
          /\ b * m(i) <= i * c /\ i * c < b * m(i) + b
          /\ b * m(i - 1) <= i * c - c /\ i * c - c < b * m(i - 1) + b
      <3>1. (i - 1) * c < b * m(i - 1) + b /\ b * m(i - 1) <= (i - 1) * c
        BY <1>2, <2>1
      <3> QED
        BY <1>2, <2>1, <3>1
    <2>3. b * (m(i - 1) + 1) < b * m(i)
      <3>1. b * (m(i - 1) + 1) = b * m(i - 1) + b
        BY <2>2
      <3> QED
        BY <2>2, <3>1
    <2>4. b * m(i) < b * (m(i - 1) + q + 2)
      <3>1. b * (m(i - 1) + q + 2) = b * m(i - 1) + b * q + 2 * b /\ b * q \in Nat
        BY <1>1, <2>2
      <3> QED
        BY <1>1, <2>2, <3>1
    <2>5. m(i - 1) + 1 \in Int /\ m(i - 1) + q + 2 \in Int
      BY <1>1, <2>2
    <2>6. m(i - 1) + 1 < m(i) /\ m(i) < m(i - 1) + q + 2
      BY <2>2, <2>3, <2>4, <2>5, Cancelled
    <2> QED
      BY <1>1, <2>2, <2>6
  <1>6. ASSUME NEW i \in 1 .. b PROVE edge(i - 1) < edge(i) /\ edge(i) <= edge(i - 1) + q + 2
    <2>1. i \in 0 .. b /\ i - 1 \in 0 .. b
      OBVIOUS
    <2>2. m(i) >= m(i - 1) + 2 /\ m(i) <= m(i - 1) + q + 1
      BY <1>5
    <2> QED
      BY <1>1, <1>4, <2>1, <2>2
  <1>7. ASSUME NEW i \in 1 .. b - 1 PROVE edge(i + 1) <= edge(i - 1) + 2 * q + 2
    <2>1. i + 1 \in 0 .. b /\ i - 1 \in 0 .. b /\ (i + 1) * c = (i - 1) * c + 2 * c
      OBVIOUS
    <2> DEFINE x == m(i - 1)
               y == m(i + 1)
               z == (i - 1) * c
    <2>2. /\ x \in Nat /\ y \in Nat /\ b * x \in Nat /\ b * y \in Nat /\ z \in Nat
          /\ b * y <= z + 2 * c /\ z < b * x + b
          /\ i - 1 \in short => z = b * x
      BY <1>2, <2>1
    <2>3. edge(i + 1) <= y /\ edge(i - 1) = IF i - 1 \in short THEN x - 1 ELSE x
      BY <1>4, <2>1
    <2> HIDE DEF x, y, z
    <2>4. CASE i - 1 \in short
      <3>1. b * (x + 2 * q + 2) = b * x + 2 * (b * q) + 2 * b /\ b * q \in Nat
        BY <1>1, <2>2
      <3>2. b * y < b * (x + 2 * q + 2)
        BY <1>1, <2>2, <2>4, <3>1
      <3>3. x + 2 * q + 2 \in Int
        BY <1>1, <2>2
      <3>4. y < x + 2 * q + 2
        BY <2>2, <3>2, <3>3, Cancelled
      <3> QED
        <4>1. edge(i + 1) \in Int
          BY <1>4, <2>1
        <4> QED
          BY <1>1, <2>2, <2>3, <2>4, <3>4, <4>1
    <2>5. CASE i - 1 \notin short
      <3>1. b * (x + 2 * q + 3) = b * x + 2 * (b * q) + 3 * b /\ b * q \in Nat
        BY <1>1, <2>2
      <3>2. b * y < b * (x + 2 * q + 3)
        BY <1>1, <2>2, <3>1
      <3>3. x + 2 * q + 3 \in Int
        BY <1>1, <2>2
      <3>4. y < x + 2 * q + 3
        BY <2>2, <3>2, <3>3, Cancelled
      <3> QED
        <4>1. edge(i + 1) \in Int
          BY <1>4, <2>1
        <4> QED
          BY <1>1, <2>2, <2>3, <2>5, <3>4, <4>1
    <2> QED
      BY <2>4, <2>5
  <1>8. edge(0) = 0 /\ edge(b) = c
    <2>1. 0 \in 0 .. b /\ b \in 0 .. b
      OBVIOUS
    <2> QED
      BY <1>2, <1>3, <2>1
  <1>9. ASSUME NEW i \in 0 .. b PROVE edge(i) \in Nat
    <2>1. CASE i = 0
      BY <1>8, <2>1
    <2>2. CASE i # 0
      <3>1. i \in 1 .. b /\ i - 1 \in 0 .. b
        BY <2>2
      <3>2. m(i) >= m(i - 1) + 2 /\ m(i - 1) \in Nat
        BY <1>4, <1>5, <3>1
      <3> QED
        BY <1>4, <3>2
    <2> QED
      BY <2>1, <2>2
  <1> QED
    BY <1>1, <1>6, <1>7, <1>8, <1>9 DEF edge, q

\* A signal has a least and a greatest sample on any set of its indices.
LEMMA Extremes ==
  ASSUME NEW n \in Nat, NEW s \in SUBSET (1 .. n), s # {}, NEW f, \A k \in s : f[k] \in Int
  PROVE  /\ \E k \in s : \A j \in s : f[k] <= f[j]
         /\ \E k \in s : \A j \in s : f[k] >= f[j]
  <1> DEFINE Has(u) == u # {} => /\ \E k \in u : \A j \in u : f[k] <= f[j]
                                 /\ \E k \in u : \A j \in u : f[k] >= f[j]
             W == {u \in SUBSET s : Has(u)}
  <1>1. IsFiniteSet(s)
    <2>1. IsFiniteSet(1 .. n)
      BY FS_Interval
    <2> QED
      BY <2>1, FS_Subset
  <1>2. {} \in W
    OBVIOUS
  <1>3. ASSUME NEW u \in SUBSET s, u # {} PROVE \E x \in u : u \ {x} \in W => u \in W
    <2>1. PICK x \in u : TRUE
      BY <1>3
    <2> SUFFICES ASSUME u \ {x} \in W PROVE Has(u)
      <3> HIDE DEF Has
      <3> QED
        BY <2>1
    <2>2. f[x] \in Int /\ \A j \in u : f[j] \in Int
      BY <2>1
    <2>3. CASE u = {x}
      BY <2>2, <2>3
    <2>4. CASE u # {x}
      <3>1. u \ {x} # {} /\ Has(u \ {x})
        BY <1>3, <2>4
      <3>2. PICK k \in u \ {x} : \A j \in u \ {x} : f[k] <= f[j]
        BY <3>1
      <3>3. PICK l \in u \ {x} : \A j \in u \ {x} : f[l] >= f[j]
        BY <3>1
      <3>4. \E y \in u : \A j \in u : f[y] <= f[j]
        <4>1. CASE f[x] <= f[k]
          <5>1. \A j \in u : f[x] <= f[j]
            BY <2>2, <3>2, <4>1
          <5> QED
            BY <5>1
        <4>2. CASE ~(f[x] <= f[k])
          <5>1. \A j \in u : f[k] <= f[j]
            BY <2>2, <3>2, <4>2
          <5> QED
            BY <5>1
        <4> QED
          BY <4>1, <4>2
      <3>5. \E y \in u : \A j \in u : f[y] >= f[j]
        <4>1. CASE f[x] >= f[l]
          <5>1. \A j \in u : f[x] >= f[j]
            BY <2>2, <3>3, <4>1
          <5> QED
            BY <5>1
        <4>2. CASE ~(f[x] >= f[l])
          <5>1. \A j \in u : f[l] >= f[j]
            BY <2>2, <3>3, <4>2
          <5> QED
            BY <5>1
        <4> QED
          BY <4>1, <4>2
      <3> QED
        BY <3>4, <3>5
    <2> QED
      BY <2>3, <2>4
  <1>4. s \in W
    <2> HIDE DEF W
    <2>1. s \in SUBSET s
      OBVIOUS
    <2> QED
      BY <1>1, <1>2, <1>3, <2>1, SubsetInduction
  <1> QED
    BY <1>4

LEMMA LeastOfNumbers ==
  ASSUME NEW s \in SUBSET Nat, s # {}
  PROVE  Min(s) \in s /\ \A k \in s : Min(s) <= k
  <1>1. \E x \in s : \A y \in s : x <= y
    BY LeastNumber
  <1> QED
    BY <1>1 DEF Min

LEMMA LowestHighest ==
  ASSUME NEW n \in Nat, NEW s \in SUBSET (1 .. n), s # {}, NEW f, \A k \in s : f[k] \in Int
  PROVE  /\ Lowest(f, s) \in s /\ \A j \in s : f[Lowest(f, s)] <= f[j]
         /\ Highest(f, s) \in s /\ \A j \in s : f[Highest(f, s)] >= f[j]
  <1> DEFINE low == {k \in s : \A j \in s : f[k] <= f[j]}
             high == {k \in s : \A j \in s : f[k] >= f[j]}
  <1>1. low # {} /\ high # {}
    BY Extremes
  <1>2. low \in SUBSET Nat /\ high \in SUBSET Nat
    <2>1. \A k \in s : k \in Nat
      OBVIOUS
    <2>2. \A k \in low : k \in s
      OBVIOUS
    <2>3. \A k \in high : k \in s
      OBVIOUS
    <2> HIDE DEF low, high
    <2> QED
      BY <2>1, <2>2, <2>3
  <1>3. Min(low) \in low /\ Min(high) \in high
    <2> HIDE DEF low, high
    <2> QED
      BY <1>1, <1>2, LeastOfNumbers
  <1> QED
    BY <1>3 DEF Lowest, Highest

\* The samples a bucket keeps.
LEMMA BucketPointsAre ==
  ASSUME NEW n \in Nat, NEW values \in [1 .. n -> Int \cup {Gap}], NEW start \in Nat,
         NEW stop \in 0 .. n, start < stop
  PROVE  LET p == BucketPoints(values, start, stop)
             finite == {k \in start + 1 .. stop : values[k] # Gap}
         IN  /\ p \in Seq(start + 1 .. stop) /\ Len(p) <= 2 /\ Ascending(p)
             /\ finite = {} => p = <<start + 1>>
             /\ \A k \in finite : \E a, b \in 1 .. Len(p) :
                  p[a] \in finite /\ p[b] \in finite
                    /\ values[p[a]] <= values[k] /\ values[p[b]] >= values[k]
  <1> DEFINE p == BucketPoints(values, start, stop)
             finite == {k \in start + 1 .. stop : values[k] # Gap}
  <1>1. CASE finite = {}
    <2>1. p = <<start + 1>>
      BY <1>1 DEF BucketPoints, DrawnGap
    <2>2. start + 1 \in start + 1 .. stop
      OBVIOUS
    <2> HIDE DEF p, finite
    <2> QED
      BY <1>1, <2>1, <2>2 DEF p, finite, Ascending
  <1>2. CASE finite # {}
    <2> DEFINE low == Lowest(values, finite)
               high == Highest(values, finite)
               first == IF low <= high THEN low ELSE high
               second == IF low <= high THEN high ELSE low
    <2>1. /\ low \in finite /\ \A j \in finite : values[low] <= values[j]
          /\ high \in finite /\ \A j \in finite : values[high] >= values[j]
      <3>1. finite \in SUBSET (1 .. n) /\ \A k \in finite : values[k] \in Int
        OBVIOUS
      <3> HIDE DEF finite
      <3> QED
        BY <1>2, <3>1, LowestHighest
    <2>2. p = InTimeOrder(low, high)
      BY <1>2 DEF BucketPoints
    <2>3. \A k \in finite : k \in Nat /\ k \in start + 1 .. stop
      OBVIOUS
    <2> HIDE DEF p, finite, low, high
    <2>4. CASE low = high
      <3>1. p = <<low>>
        BY <2>2, <2>4 DEF InTimeOrder
      <3>2. Len(p) = 1 /\ p[1] = low /\ p \in Seq(start + 1 .. stop)
        BY <2>1, <2>3, <3>1
      <3> QED
        BY <1>2, <2>1, <2>4, <3>2 DEF Ascending, p, finite
    <2>5. CASE low # high
      <3>1. first = Min({low, high}) /\ second = Max({low, high})
        BY <2>1, <2>3 DEF Min, Max
      <3>2. p = <<first, second>>
        BY <2>2, <2>5, <3>1 DEF InTimeOrder
      <3>3. first \in finite /\ second \in finite /\ first < second
            /\ low \in {first, second} /\ high \in {first, second}
        BY <2>1, <2>3, <2>5
      <3> HIDE DEF first, second
      <3>4. Len(p) = 2 /\ p[1] = first /\ p[2] = second /\ p \in Seq(start + 1 .. stop)
        BY <2>3, <3>2, <3>3
      <3>5. \A k \in finite : \E a, b \in 1 .. Len(p) :
              p[a] \in finite /\ p[b] \in finite
                /\ values[p[a]] <= values[k] /\ values[p[b]] >= values[k]
        <4>1. PICK a \in 1 .. Len(p) : p[a] = low
          BY <3>3, <3>4
        <4>2. PICK b \in 1 .. Len(p) : p[b] = high
          BY <3>3, <3>4
        <4> QED
          BY <2>1, <4>1, <4>2
      <3>6. Ascending(p)
        BY <3>3, <3>4 DEF Ascending
      <3> QED
        BY <1>2, <3>4, <3>5, <3>6 DEF p, finite
    <2> QED
      BY <2>4, <2>5
  <1> QED
    BY <1>1, <1>2

\* A sequence of sequences is joined one after the other.
LEMMA FlattenSteps ==
  ASSUME NEW S, NEW ss \in Seq(Seq(S))
  PROVE  \E r \in [0 .. Len(ss) -> Seq(S)] :
           /\ r[0] = <<>> /\ r[Len(ss)] = FlattenSeq(ss)
           /\ \A k \in 1 .. Len(ss) : r[k] = r[k - 1] \o ss[k]
  <1> DEFINE n == Len(ss)
             V == Seq(S)
             step == [v \in V |-> [k \in 1 .. n |-> v \o ss[k]]]
             Flat(g) == [i \in 1 .. n |-> IF i = 1 THEN ss[i] ELSE g[i - 1] \o ss[i]]
             flatten == CHOOSE g : g = Flat(g)
  <1>1. n \in Nat /\ <<>> \in V /\ \A k \in 1 .. n : ss[k] \in V
    OBVIOUS
  <1>2. \A v \in V, w \in V : v \o w \in V
    BY ConcatProperties
  <1>3. step \in [V -> [1 .. n -> V]] /\ \A v \in V, k \in 1 .. n : step[v][k] = v \o ss[k]
    <2> HIDE DEF V
    <2> QED
      BY <1>1, <1>2
  <1> HIDE DEF step
  <1>4. PICK f \in [SUBSET (1 .. n) -> V] : Folds(f, V, <<>>, step, n)
    <2> HIDE DEF V, n
    <2> QED
      BY <1>1, <1>3, LeftFoldExists
  <1>5. PICK r : Runs(r, V, <<>>, step, n)
    <2> DEFINE Stepped(g, W, b, o, m) == \E x : Runs(x, W, b, o, m) /\ x[m] = g[1 .. m]
    <2>1. \A m \in Nat : \A W : \A b \in W, o \in [W -> [1 .. m -> W]] : \A g :
            Folds(g, W, b, o, m) => Stepped(g, W, b, o, m)
      BY LeftFoldSteps
    <2>2. Stepped(f, V, <<>>, step, n)
      <3> HIDE DEF Stepped, V, n
      <3> QED
        BY <1>1, <1>3, <1>4, <2>1
    <2> QED
      BY <2>2
  <1>6. r \in [0 .. n -> V] /\ r[0] = <<>> /\ \A k \in 1 .. n : r[k] = r[k - 1] \o ss[k]
    <2>1. r \in [0 .. n -> V] /\ r[0] = <<>> /\ \A k \in 1 .. n : r[k] = step[r[k - 1]][k]
      BY <1>5 DEF Runs
    <2>2. \A k \in 1 .. n : k - 1 \in 0 .. n
      BY <1>1
    <2> HIDE DEF V, n
    <2> QED
      BY <1>3, <2>1, <2>2
  <1>7. \A v \in V : <<>> \o v = v
    BY ConcatEmptySeq
  <1>8. CASE n = 0
    <2>1. FlattenSeq(ss) = <<>>
      BY <1>8 DEF FlattenSeq
    <2> QED
      BY <1>6, <1>8, <2>1
  <1>9. CASE n # 0
    <2>1. FlattenSeq(ss) = flatten[n]
      BY <1>9 DEF FlattenSeq
    <2> DEFINE g == [i \in 1 .. n |-> r[i]]
    <2>2. g = Flat(g)
      <3>1. ASSUME NEW i \in 1 .. n PROVE g[i] = Flat(g)[i]
        <4>1. CASE i = 1
          <5>1. r[1] = <<>> \o ss[1] /\ ss[1] \in V
            <6>1. 1 \in 1 .. n /\ 1 - 1 = 0
              BY <4>1
            <6> QED
              BY <1>1, <1>6, <6>1
          <5> QED
            BY <1>7, <4>1, <5>1
        <4>2. CASE i # 1
          <5>1. i - 1 \in 1 .. n
            BY <4>2
          <5> QED
            BY <1>6, <4>2, <5>1
        <4> QED
          BY <4>1, <4>2
      <3> QED
        BY <3>1
    <2>3. flatten = Flat(flatten)
      BY <2>2
    <2> HIDE DEF flatten, g
    <2> DEFINE P == {k \in Nat : k + 1 <= n => flatten[k + 1] = r[k + 1]}
    <2>4. P = Nat
      <3>1. 0 \in P
        <4>1. 1 \in 1 .. n /\ 1 - 1 = 0
          BY <1>1, <1>9
        <4>2. flatten[1] = ss[1]
          BY <2>3, <4>1
        <4>3. r[1] = <<>> \o ss[1] /\ ss[1] \in V
          BY <1>1, <1>6, <4>1
        <4> QED
          BY <1>7, <4>2, <4>3
      <3>2. ASSUME NEW k \in P PROVE k + 1 \in P
        <4> SUFFICES ASSUME k + 2 <= n PROVE flatten[k + 2] = r[k + 2]
          OBVIOUS
        <4>1. k + 2 \in 1 .. n /\ k + 2 # 1 /\ (k + 2) - 1 = k + 1 /\ k + 1 <= n
          BY <1>1
        <4>2. flatten[k + 2] = flatten[k + 1] \o ss[k + 2]
          BY <2>3, <4>1
        <4>3. r[k + 2] = r[k + 1] \o ss[k + 2]
          BY <1>6, <4>1
        <4> QED
          BY <4>1, <4>2, <4>3
      <3> HIDE DEF P
      <3> QED
        BY <3>1, <3>2, Successors DEF P
    <2>5. flatten[n] = r[n]
      <3>1. n - 1 \in Nat /\ (n - 1) + 1 = n
        BY <1>1, <1>9
      <3>2. \A k \in P : k + 1 <= n => flatten[k + 1] = r[k + 1]
        OBVIOUS
      <3>3. n - 1 \in P
        BY <2>4, <3>1
      <3> HIDE DEF P, n
      <3> QED
        BY <1>1, <3>1, <3>2, <3>3
    <2> QED
      BY <1>6, <2>1, <2>5
  <1> QED
    BY <1>8, <1>9

\* Two sequences that ascend, the second one above the first.
LEMMA AboveJoined ==
  ASSUME NEW s \in Seq(Nat), NEW t \in Seq(Nat), NEW low \in Nat, NEW top \in Nat, low <= top,
         Ascending(s), Ascending(t), \A a \in 1 .. Len(s) : s[a] <= low,
         \A a \in 1 .. Len(t) : low < t[a] /\ t[a] <= top
  PROVE  LET q == s \o t
         IN  /\ q \in Seq(Nat) /\ Ascending(q) /\ Len(q) = Len(s) + Len(t)
             /\ \A a \in 1 .. Len(q) : q[a] <= top
             /\ \A a \in 1 .. Len(s) : \E b \in 1 .. Len(q) : q[b] = s[a]
             /\ \A a \in 1 .. Len(t) : \E b \in 1 .. Len(q) : q[b] = t[a]
  <1> DEFINE q == s \o t
             m == Len(s)
             n == Len(t)
  <1>1. /\ m \in Nat /\ n \in Nat /\ Len(q) = m + n /\ q \in Seq(Nat)
        /\ \A i \in 1 .. m + n : q[i] = IF i <= m THEN s[i] ELSE t[i - m]
        /\ \A i \in 1 .. m : s[i] \in Nat
        /\ \A i \in 1 .. n : t[i] \in Nat
    BY ConcatProperties, LenProperties
  <1>2. Ascending(q)
    <2>1. CASE t = <<>>
      BY <2>1, ConcatEmptySeq
    <2>2. CASE t # <<>>
      <3>1. 1 \in 1 .. n
        BY <1>1, <2>2
      <3>2. s # <<>> => s[Len(s)] < t[1]
        <4> SUFFICES ASSUME s # <<>> PROVE s[m] < t[1]
          OBVIOUS
        <4>1. m \in 1 .. m
          BY <1>1
        <4>2. s[m] <= low /\ low < t[1] /\ s[m] \in Nat /\ t[1] \in Nat
          BY <1>1, <3>1, <4>1
        <4> QED
          BY <4>2
      <3> QED
        BY <2>2, <3>2, AscendingJoined
    <2> QED
      BY <2>1, <2>2
  <1> HIDE DEF q, m, n
  <1>3. ASSUME NEW a \in 1 .. m PROVE a \in 1 .. m + n /\ q[a] = s[a]
    BY <1>1
  <1>4. ASSUME NEW a \in 1 .. n PROVE m + a \in 1 .. m + n /\ q[m + a] = t[a]
    <2>1. m + a \in 1 .. m + n /\ ~(m + a <= m) /\ (m + a) - m = a
      BY <1>1
    <2> QED
      BY <1>1, <2>1
  <1>5. ASSUME NEW a \in 1 .. m + n PROVE q[a] <= top
    <2>1. CASE a <= m
      <3>1. a \in 1 .. m
        BY <1>1, <2>1
      <3>2. q[a] = s[a] /\ s[a] <= low /\ s[a] \in Nat
        BY <1>1, <1>3, <3>1 DEF m
      <3> QED
        BY <3>2
    <2>2. CASE ~(a <= m)
      <3>1. a - m \in 1 .. n
        BY <1>1, <2>2
      <3>2. q[a] = t[a - m]
        BY <1>1, <2>2
      <3> QED
        BY <3>1, <3>2 DEF n
    <2> QED
      BY <2>1, <2>2
  <1> QED
    BY <1>1, <1>2, <1>3, <1>4, <1>5 DEF q, m, n

\* Sequences that ascend, each between its own bounds, are joined to one that ascends and
\* holds all their elements.
LEMMA FlatAscends ==
  ASSUME NEW ss \in Seq(Seq(Nat)), NEW e \in [0 .. Len(ss) -> Nat],
         \A i \in 1 .. Len(ss) : /\ e[i - 1] <= e[i] /\ Ascending(ss[i]) /\ Len(ss[i]) <= 2
                                 /\ \A a \in 1 .. Len(ss[i]) : e[i - 1] < ss[i][a] /\ ss[i][a] <= e[i]
  PROVE  LET flat == FlattenSeq(ss)
         IN  /\ flat \in Seq(Nat) /\ Ascending(flat) /\ Len(flat) <= 2 * Len(ss)
             /\ \A i \in 1 .. Len(ss) : \A a \in 1 .. Len(ss[i]) :
                  \E b \in 1 .. Len(flat) : flat[b] = ss[i][a]
  <1> DEFINE n == Len(ss)
  <1>1. PICK r \in [0 .. n -> Seq(Nat)] :
          /\ r[0] = <<>> /\ r[n] = FlattenSeq(ss)
          /\ \A k \in 1 .. n : r[k] = r[k - 1] \o ss[k]
    BY FlattenSteps
  <1> DEFINE holds(q, t) == \A a \in 1 .. Len(t) : \E b \in 1 .. Len(q) : q[b] = t[a]
             Orderly(k) == /\ Ascending(r[k]) /\ Len(r[k]) <= 2 * k
                           /\ \A b \in 1 .. Len(r[k]) : r[k][b] <= e[k]
                           /\ \A i \in 1 .. k : holds(r[k], ss[i])
             P == {k \in Nat : k <= n => Orderly(k)}
  <1>2. n \in Nat /\ \A k \in 1 .. n : ss[k] \in Seq(Nat)
    OBVIOUS
  <1>3. Orderly(0)
    BY <1>1 DEF Ascending
  <1>4. ASSUME NEW k \in 0 .. n - 1, Orderly(k) PROVE Orderly(k + 1)
    <2>1. k \in Nat /\ k + 1 \in 1 .. n /\ (k + 1) - 1 = k /\ k \in 0 .. n /\ k + 1 \in 0 .. n
      BY <1>2
    <2> DEFINE s == r[k]
               t == ss[k + 1]
               q == r[k + 1]
    <2>2. s \in Seq(Nat) /\ t \in Seq(Nat) /\ q = s \o t
      BY <1>1, <1>2, <2>1
    <2>3. Len(s) \in Nat /\ Len(t) \in Nat /\ Len(s) <= 2 * k /\ Len(t) <= 2
      BY <1>4, <2>1, <2>2, LenProperties
    <2>4. /\ Ascending(q) /\ Len(q) = Len(s) + Len(t)
          /\ \A a \in 1 .. Len(q) : q[a] <= e[k + 1]
          /\ \A a \in 1 .. Len(s) : \E b \in 1 .. Len(q) : q[b] = s[a]
          /\ holds(q, t)
      <3> DEFINE low == e[k]
                 top == e[k + 1]
      <3>1. /\ low \in Nat /\ top \in Nat /\ low <= top /\ Ascending(s) /\ Ascending(t)
            /\ \A a \in 1 .. Len(s) : s[a] <= low
            /\ \A a \in 1 .. Len(t) : low < t[a] /\ t[a] <= top
        BY <1>4, <2>1
      <3> HIDE DEF s, t, q, low, top, holds
      <3>2. /\ Ascending(s \o t) /\ Len(s \o t) = Len(s) + Len(t)
            /\ \A a \in 1 .. Len(s \o t) : (s \o t)[a] <= top
            /\ holds(s \o t, s) /\ holds(s \o t, t)
        BY <2>2, <3>1, AboveJoined DEF holds
      <3> QED
        BY <2>2, <3>2, Zenon DEF top, holds
    <2>5. \A i \in 1 .. k + 1 : holds(q, ss[i])
      <3> SUFFICES ASSUME NEW i \in 1 .. k + 1, i # k + 1, NEW a \in 1 .. Len(ss[i])
                   PROVE  \E b \in 1 .. Len(q) : q[b] = ss[i][a]
        BY <2>4
      <3>1. i \in 1 .. k
        BY <2>1
      <3>2. PICK b \in 1 .. Len(s) : s[b] = ss[i][a]
        BY <1>4, <3>1
      <3> HIDE DEF s, q
      <3> QED
        BY <2>4, <3>2
    <2>6. Len(q) <= 2 * (k + 1)
      <3> HIDE DEF q, s, t
      <3> QED
        BY <2>1, <2>3, <2>4
    <2> QED
      BY <2>4, <2>5, <2>6
  <1>5. P = Nat
    <2> HIDE DEF Orderly
    <2>1. 0 \in P
      BY <1>3
    <2>2. ASSUME NEW k \in P PROVE k + 1 \in P
      <3>1. k + 1 <= n => k \in 0 .. n - 1 /\ Orderly(k)
        BY <1>2
      <3> QED
        BY <1>4, <3>1
    <2> HIDE DEF P
    <2> QED
      BY <2>1, <2>2, Successors DEF P
  <1>6. Orderly(n)
    <2>1. \A k \in P : k <= n => Orderly(k)
      OBVIOUS
    <2> HIDE DEF P, Orderly
    <2> QED
      BY <1>2, <1>5, <2>1
  <1> QED
    BY <1>1, <1>2, <1>6

\* What is drawn of a signal: no more points than asked for, in the order of time; for every
\* number one that is not greater and one that is not less; and a gap that is long enough.
DrawsAsMuch(drawn, values, maxPoints) ==
  /\ drawn \in Seq(Nat) /\ Len(drawn) <= maxPoints /\ Ascending(drawn)
  /\ \A k \in 1 .. Len(values) : values[k] # Gap =>
       \E a, b \in 1 .. Len(drawn) :
         /\ drawn[a] \in 1 .. Len(values) /\ values[drawn[a]] # Gap
         /\ drawn[b] \in 1 .. Len(values) /\ values[drawn[b]] # Gap
         /\ values[drawn[a]] <= values[k] /\ values[drawn[b]] >= values[k]

DrawsGap(drawn, values, first, last) ==
  (\A k \in first .. last : values[k] = Gap) => \E i \in 1 .. Len(drawn) : values[drawn[i]] = Gap

Spread(maxPoints, values) == Len(values) \div Buckets(maxPoints) + 2

LEMMA BucketsAre ==
  ASSUME NEW maxPoints \in Nat \ {0, 1}
  PROVE  Buckets(maxPoints) \in Nat \ {0} /\ 2 * Buckets(maxPoints) <= maxPoints
  <1>1. maxPoints \div 2 \in Nat /\ maxPoints \div 2 >= 1 /\ 2 * (maxPoints \div 2) <= maxPoints
    OBVIOUS
  <1>2. Buckets(maxPoints) = maxPoints \div 2
    <2>1. Max({1, maxPoints \div 2}) = IF 1 >= maxPoints \div 2 THEN 1 ELSE maxPoints \div 2
      BY <1>1, MaxOfTwo
    <2> QED
      BY <1>1, <2>1 DEF Buckets
  <1> QED
    BY <1>1, <1>2

\* Every sample lies in a bucket.
LEMMA BucketOfSample ==
  ASSUME NEW b \in Nat \ {0}, NEW e \in [0 .. b -> Nat], e[0] = 0, NEW k \in 1 .. e[b]
  PROVE  \E i \in 1 .. b : e[i - 1] < k /\ k <= e[i]
  <1> DEFINE T == {i \in 0 .. b : k <= e[i]}
  <1>1. T \in SUBSET Nat /\ b \in T
    OBVIOUS
  <1>2. PICK i \in T : \A j \in T : i <= j
    BY <1>1, LeastNumber
  <1>3. i \in 1 .. b /\ i - 1 \in 0 .. b /\ k <= e[i]
    BY <1>2
  <1>4. i - 1 \notin T
    BY <1>2, <1>3
  <1>5. e[i - 1] < k
    BY <1>3, <1>4
  <1> QED
    BY <1>3, <1>5

LEMMA EnvelopeIs ==
  ASSUME NEW values \in Seq(Int \cup {Gap}), NEW maxPoints \in Nat \ {0, 1},
         NEW short \in SUBSET ExactEdges(Len(values), Buckets(maxPoints))
  PROVE  LET drawn == DownsampleEnvelope(values, maxPoints, short)
             width == Spread(maxPoints, values)
         IN  /\ DrawsAsMuch(drawn, values, maxPoints)
             /\ \A first \in 1 .. Len(values) - 2 * width + 2 :
                  DrawsGap(drawn, values, first, first + 2 * width - 2)
  <1> DEFINE n == Len(values)
             b == Buckets(maxPoints)
             q == n \div b
             width == Spread(maxPoints, values)
             drawn == DownsampleEnvelope(values, maxPoints, short)
  <1>1. n \in Nat /\ values \in [1 .. n -> Int \cup {Gap}]
    OBVIOUS
  <1>2. b \in Nat \ {0} /\ 2 * b <= maxPoints
    BY BucketsAre
  <1>3. q \in Nat /\ width = q + 2
    BY <1>1, <1>2, Quotient DEF Spread
  <1>4. CASE n <= maxPoints
    <2> DEFINE all == [k \in 1 .. n |-> k]
    <2>1. drawn = all
      BY <1>4 DEF DownsampleEnvelope
    <2>2. all \in Seq(Nat) /\ Len(all) = n /\ \A k \in 1 .. n : all[k] = k
      BY <1>1
    <2> HIDE DEF all, drawn
    <2>3. DrawsAsMuch(all, values, maxPoints)
      <3>1. \A k \in 1 .. n : values[k] # Gap => values[k] <= values[k] /\ values[k] >= values[k]
        BY <1>1
      <3> QED
        BY <1>4, <2>2, <3>1 DEF DrawsAsMuch, Ascending
    <2>4. ASSUME NEW first \in 1 .. n - 2 * width + 2
          PROVE  DrawsGap(all, values, first, first + 2 * width - 2)
      <3>1. first \in 1 .. n /\ first \in first .. first + 2 * width - 2
        BY <1>1, <1>3
      <3> QED
        BY <2>2, <3>1 DEF DrawsGap
    <2> QED
      BY <2>1, <2>3, <2>4 DEF drawn
  <1>5. CASE n > maxPoints
    <2> DEFINE edge(i) == Edge(n, b, short, i)
               e == [i \in 0 .. b |-> edge(i)]
               ss == [i \in 1 .. b |-> BucketPoints(values, edge(i - 1), edge(i))]
    <2>1. /\ e \in [0 .. b -> Nat] /\ e[0] = 0 /\ e[b] = n
          /\ \A i \in 1 .. b : e[i - 1] < e[i] /\ e[i] <= e[i - 1] + q + 2
          /\ \A i \in 1 .. b - 1 : e[i + 1] <= e[i - 1] + 2 * q + 2
      <3>1. n > 2 * b
        BY <1>1, <1>2, <1>5
      <3>2. /\ edge(0) = 0 /\ edge(b) = n
            /\ \A i \in 0 .. b : edge(i) \in Nat
            /\ \A i \in 1 .. b : edge(i - 1) < edge(i) /\ edge(i) <= edge(i - 1) + q + 2
            /\ \A i \in 1 .. b - 1 : edge(i + 1) <= edge(i - 1) + 2 * q + 2
        <4> HIDE DEF n, b
        <4> QED
          BY <1>1, <1>2, <3>1, EdgesAre DEF n, b
      <3>3. /\ 0 \in 0 .. b /\ b \in 0 .. b
            /\ \A i \in 1 .. b : i \in 0 .. b /\ i - 1 \in 0 .. b
            /\ \A i \in 1 .. b - 1 : i + 1 \in 0 .. b /\ i - 1 \in 0 .. b /\ i \in 1 .. b
        BY <1>2
      <3> HIDE DEF b, edge, q
      <3> QED
        BY <3>2, <3>3
    <2>2. drawn = FlattenSeq(ss)
      BY <1>1, <1>5 DEF DownsampleEnvelope
    <2>3. \A i \in 1 .. b : ss[i] = BucketPoints(values, e[i - 1], e[i])
      BY <1>2
    <2>4. DOMAIN ss = 1 .. b
      OBVIOUS
    <2> HIDE DEF ss, e, edge, drawn
    <2>5. \A i \in 1 .. b : e[i - 1] \in Nat /\ e[i] \in 0 .. n /\ e[i - 1] < e[i]
      <3>1. \A i \in 0 .. b : e[i] <= n
        <4> DEFINE P == {k \in Nat : k <= b => e[b - k] <= n}
        <4>1. 0 \in P
          BY <1>2, <2>1
        <4>2. ASSUME NEW k \in P PROVE k + 1 \in P
          <5> SUFFICES ASSUME k + 1 <= b PROVE e[b - (k + 1)] <= n
            OBVIOUS
          <5>1. k \in Nat /\ b - k \in 1 .. b /\ b - (k + 1) = (b - k) - 1 /\ b - (k + 1) \in 0 .. b
            BY <1>2
          <5>2. e[b - k] <= n
            BY <1>2, <5>1
          <5>3. e[b - (k + 1)] < e[b - k] /\ e[b - k] \in Nat /\ e[b - (k + 1)] \in Nat
            BY <2>1, <5>1
          <5> QED
            BY <1>1, <5>2, <5>3
        <4>3. P = Nat
          <5> HIDE DEF P
          <5> QED
            BY <4>1, <4>2, Successors DEF P
        <4>4. ASSUME NEW i \in 0 .. b PROVE e[i] <= n
          <5>1. b - i \in Nat /\ b - i <= b /\ b - (b - i) = i
            BY <1>2
          <5>2. b - i \in P
            BY <4>3, <5>1
          <5> QED
            BY <5>1, <5>2
        <4> QED
          BY <4>4
      <3>2. \A i \in 1 .. b : i \in 0 .. b /\ i - 1 \in 0 .. b
        BY <1>2
      <3> HIDE DEF n
      <3> QED
        BY <1>1, <2>1, <3>1, <3>2
    <2> DEFINE finite(i) == {k \in e[i - 1] + 1 .. e[i] : values[k] # Gap}
    <2>6. ASSUME NEW i \in 1 .. b
          PROVE  /\ ss[i] \in Seq(e[i - 1] + 1 .. e[i]) /\ Len(ss[i]) <= 2 /\ Ascending(ss[i])
                 /\ finite(i) = {} => ss[i] = <<e[i - 1] + 1>>
                 /\ \A k \in finite(i) : \E x, y \in 1 .. Len(ss[i]) :
                      ss[i][x] \in finite(i) /\ ss[i][y] \in finite(i)
                        /\ values[ss[i][x]] <= values[k] /\ values[ss[i][y]] >= values[k]
      <3> DEFINE start == e[i - 1]
                 stop == e[i]
      <3>1. start \in Nat /\ stop \in 0 .. n /\ start < stop /\ ss[i] = BucketPoints(values, start, stop)
        BY <2>3, <2>5
      <3> HIDE DEF start, stop, n
      <3>2. LET p == BucketPoints(values, start, stop)
                here == {k \in start + 1 .. stop : values[k] # Gap}
            IN  /\ p \in Seq(start + 1 .. stop) /\ Len(p) <= 2 /\ Ascending(p)
                /\ here = {} => p = <<start + 1>>
                /\ \A k \in here : \E a, c \in 1 .. Len(p) :
                     p[a] \in here /\ p[c] \in here
                       /\ values[p[a]] <= values[k] /\ values[p[c]] >= values[k]
        BY <1>1, <3>1, BucketPointsAre
      <3> QED
        BY <3>1, <3>2, Zenon DEF start, stop
    <2>7. /\ drawn \in Seq(Nat) /\ Ascending(drawn) /\ Len(drawn) <= 2 * b
          /\ \A i \in 1 .. b : \A a \in 1 .. Len(ss[i]) :
               \E c \in 1 .. Len(drawn) : drawn[c] = ss[i][a]
      <3>1. \A i \in 1 .. b : ss[i] \in Seq(Nat)
        BY <2>5, <2>6
      <3>2. \A i \in 1 .. b : \A a \in 1 .. Len(ss[i]) : e[i - 1] < ss[i][a] /\ ss[i][a] <= e[i]
        BY <2>5, <2>6
      <3>3. ss \in Seq(Seq(Nat)) /\ Len(ss) = b
        BY <1>2, <2>3, <3>1 DEF ss
      <3>4. e \in [0 .. Len(ss) -> Nat]
        BY <2>1, <3>3
      <3>5. \A i \in 1 .. Len(ss) :
              /\ e[i - 1] <= e[i] /\ Ascending(ss[i]) /\ Len(ss[i]) <= 2
              /\ \A a \in 1 .. Len(ss[i]) : e[i - 1] < ss[i][a] /\ ss[i][a] <= e[i]
        <4> SUFFICES ASSUME NEW i \in 1 .. b
                     PROVE  /\ e[i - 1] <= e[i] /\ Ascending(ss[i]) /\ Len(ss[i]) <= 2
                            /\ \A a \in 1 .. Len(ss[i]) : e[i - 1] < ss[i][a] /\ ss[i][a] <= e[i]
          BY <3>3
        <4>1. e[i - 1] <= e[i]
          BY <2>5
        <4> QED
          BY <2>6, <3>2, <4>1
      <3> HIDE DEF b
      <3>6. LET flat == FlattenSeq(ss)
            IN  /\ flat \in Seq(Nat) /\ Ascending(flat) /\ Len(flat) <= 2 * Len(ss)
                /\ \A i \in 1 .. Len(ss) : \A a \in 1 .. Len(ss[i]) :
                     \E c \in 1 .. Len(flat) : flat[c] = ss[i][a]
        BY <3>3, <3>4, <3>5, FlatAscends
      <3> QED
        BY <2>2, <3>3, <3>6, Zenon
    <2>8. DrawsAsMuch(drawn, values, maxPoints)
      <3>1. ASSUME NEW k \in 1 .. n, values[k] # Gap
            PROVE  \E x, y \in 1 .. Len(drawn) :
                     /\ drawn[x] \in 1 .. n /\ values[drawn[x]] # Gap
                     /\ drawn[y] \in 1 .. n /\ values[drawn[y]] # Gap
                     /\ values[drawn[x]] <= values[k] /\ values[drawn[y]] >= values[k]
        <4>1. PICK i \in 1 .. b : e[i - 1] < k /\ k <= e[i]
          BY <1>2, <2>1, BucketOfSample
        <4>2. k \in finite(i)
          BY <2>5, <3>1, <4>1
        <4>3. PICK x, y \in 1 .. Len(ss[i]) :
                ss[i][x] \in finite(i) /\ ss[i][y] \in finite(i)
                  /\ values[ss[i][x]] <= values[k] /\ values[ss[i][y]] >= values[k]
          BY <2>6, <4>2
        <4>4. PICK u \in 1 .. Len(drawn) : drawn[u] = ss[i][x]
          BY <2>7
        <4>5. PICK v \in 1 .. Len(drawn) : drawn[v] = ss[i][y]
          BY <2>7
        <4>6. \A z \in finite(i) : z \in 1 .. n /\ values[z] # Gap
          BY <2>5
        <4> HIDE DEF finite
        <4> QED
          BY <4>3, <4>4, <4>5, <4>6
      <3>2. Len(drawn) <= maxPoints
        <4>1. Len(drawn) \in Nat
          BY <2>7, LenProperties
        <4> HIDE DEF b
        <4> QED
          BY <1>2, <2>7, <4>1
      <3> QED
        BY <2>7, <3>1, <3>2 DEF DrawsAsMuch
    <2>9. ASSUME NEW first \in 1 .. n - 2 * width + 2
          PROVE  DrawsGap(drawn, values, first, first + 2 * width - 2)
      <3> SUFFICES ASSUME \A k \in first .. first + 2 * width - 2 : values[k] = Gap
                   PROVE  \E j \in 1 .. Len(drawn) : values[drawn[j]] = Gap
        BY DEF DrawsGap
      <3>1. first \in 1 .. n /\ first \in Nat
        BY <1>1, <1>3
      <3>2. PICK i \in 1 .. b : e[i - 1] < first /\ first <= e[i]
        BY <1>2, <2>1, <3>1, BucketOfSample
      <3>3. e[i - 1] \in Nat /\ e[i] \in Nat /\ e[i] <= e[i - 1] + q + 2
        BY <2>1, <2>5
      <3>4. i # b
        <4>1. e[i] < n
          <5> HIDE DEF n, q, b, width
          <5> QED
            BY <1>1, <1>3, <3>2, <3>3
        <4> QED
          BY <2>1, <4>1
      <3>5. i \in 1 .. b - 1 /\ i + 1 \in 1 .. b /\ (i + 1) - 1 = i
        BY <1>2, <3>4
      <3>6. e[i + 1] <= e[i - 1] + 2 * q + 2 /\ e[i] < e[i + 1] /\ e[i + 1] \in Nat
        BY <2>1, <2>5, <3>5
      <3>7. \A k \in e[i] + 1 .. e[i + 1] : k \in first .. first + 2 * width - 2
        <4> DEFINE start == e[i - 1]
                   mid == e[i]
                   stop == e[i + 1]
        <4>1. /\ start \in Nat /\ mid \in Nat /\ stop \in Nat /\ start < first /\ first <= mid
              /\ stop <= start + 2 * q + 2 /\ width = q + 2 /\ q \in Nat /\ first \in Nat
          BY <1>3, <3>1, <3>2, <3>3, <3>6
        <4> HIDE DEF n, q, b, width, start, mid, stop
        <4>2. \A k \in mid + 1 .. stop : k \in first .. first + 2 * width - 2
          BY <4>1
        <4> QED
          BY <4>2 DEF mid, stop
      <3>8. finite(i + 1) = {}
        BY <3>5, <3>7
      <3>9. ss[i + 1] = <<e[i] + 1>>
        BY <2>6, <3>5, <3>8
      <3>10. PICK j \in 1 .. Len(drawn) : drawn[j] = e[i] + 1
        <4>1. Len(ss[i + 1]) = 1 /\ ss[i + 1][1] = e[i] + 1 /\ 1 \in 1 .. Len(ss[i + 1])
          BY <3>9
        <4>2. \E j \in 1 .. Len(drawn) : drawn[j] = ss[i + 1][1]
          BY <2>7, <3>5, <4>1, Zenon
        <4> QED
          BY <4>1, <4>2
      <3>11. e[i] + 1 \in e[i] + 1 .. e[i + 1]
        BY <3>3, <3>6
      <3> QED
        BY <3>7, <3>10, <3>11
    <2> QED
      BY <2>8, <2>9 DEF drawn
  <1> QED
    BY <1>1, <1>4, <1>5

LEMMA ExtremeIs ==
  ASSUME NEW T \in SUBSET Int, NEW x \in T
  PROVE  /\ (\A y \in T : y <= x) => Max(T) = x
         /\ (\A y \in T : y >= x) => Min(T) = x
  <1>1. ASSUME \A y \in T : y <= x PROVE Max(T) = x
    <2>1. \A z \in T : (\A y \in T : z >= y) => z = x
      BY <1>1
    <2>2. \A y \in T : x >= y
      BY <1>1
    <2> QED
      BY <2>1, <2>2 DEF Max
  <1>2. ASSUME \A y \in T : y >= x PROVE Min(T) = x
    <2>1. \A z \in T : (\A y \in T : z <= y) => z = x
      BY <1>2
    <2>2. \A y \in T : x <= y
      BY <1>2
    <2> QED
      BY <2>1, <2>2 DEF Min
  <1> QED
    BY <1>1, <1>2

\* A drawing with as much as a signal has the peaks of the signal.
LEMMA PeaksAreKept ==
  ASSUME NEW values \in Seq(Int \cup {Gap}), NEW maxPoints, NEW drawn,
         DrawsAsMuch(drawn, values, maxPoints)
  PROVE  LET finite == {k \in 1 .. Len(values) : values[k] # Gap}
             shown  == {values[k] : k \in Range(drawn) \cap finite}
         IN  finite # {} => /\ shown # {}
                            /\ Max(shown) = Max({values[k] : k \in finite})
                            /\ Min(shown) = Min({values[k] : k \in finite})
  <1> DEFINE n == Len(values)
             finite == {k \in 1 .. n : values[k] # Gap}
             shown  == {values[k] : k \in Range(drawn) \cap finite}
             all == {values[k] : k \in finite}
  <1>1. SUFFICES ASSUME finite # {}
                 PROVE  shown # {} /\ Max(shown) = Max(all) /\ Min(shown) = Min(all)
    OBVIOUS
  <1>2. n \in Nat /\ \A k \in finite : k \in 1 .. n /\ values[k] \in Int
    OBVIOUS
  <1>3. finite \in SUBSET (1 .. n)
    OBVIOUS
  <1> DEFINE Within(k) == \E a, b \in 1 .. Len(drawn) :
               /\ drawn[a] \in finite /\ drawn[b] \in finite
               /\ values[drawn[a]] <= values[k] /\ values[drawn[b]] >= values[k]
  <1>4. /\ drawn \in Seq(Nat)
        /\ \A k \in finite : Within(k)
    BY DEF DrawsAsMuch
  <1>5. \A a \in 1 .. Len(drawn) : drawn[a] \in finite => values[drawn[a]] \in shown
    BY <1>4 DEF Range
  <1>6. \A y \in shown : y \in all
    OBVIOUS
  <1>7. all \in SUBSET Int
    BY <1>2
  <1>8. PICK low \in finite : \A j \in finite : values[low] <= values[j]
    <2> HIDE DEF finite, n
    <2> QED
      BY <1>1, <1>2, <1>3, Extremes
  <1>9. PICK high \in finite : \A j \in finite : values[high] >= values[j]
    <2> HIDE DEF finite, n
    <2> QED
      BY <1>1, <1>2, <1>3, Extremes
  <1>10. values[low] \in all /\ values[high] \in all
    OBVIOUS
  <1>11. \A y \in all : values[low] <= y /\ y <= values[high]
    BY <1>2, <1>8, <1>9
  <1> HIDE DEF shown, all, finite, n
  <1>12. values[low] \in shown
    <2>1. PICK a \in 1 .. Len(drawn) : drawn[a] \in finite /\ values[drawn[a]] <= values[low]
      BY <1>4
    <2>2. values[drawn[a]] \in Int /\ values[low] \in Int /\ values[low] <= values[drawn[a]]
      BY <1>2, <1>8, <2>1
    <2>3. values[drawn[a]] = values[low]
      BY <2>1, <2>2
    <2> QED
      BY <1>5, <2>1, <2>3
  <1>13. values[high] \in shown
    <2>1. PICK b \in 1 .. Len(drawn) : drawn[b] \in finite /\ values[drawn[b]] >= values[high]
      BY <1>4
    <2>2. values[drawn[b]] \in Int /\ values[high] \in Int /\ values[high] >= values[drawn[b]]
      BY <1>2, <1>9, <2>1
    <2>3. values[drawn[b]] = values[high]
      BY <2>1, <2>2
    <2> QED
      BY <1>5, <2>1, <2>3
  <1>14. shown \in SUBSET Int /\ \A y \in shown : y >= values[low] /\ y <= values[high]
    BY <1>6, <1>7, <1>11
  <1>15. \A y \in all : y >= values[low]
    BY <1>7, <1>10, <1>11
  <1>16. Max(all) = values[high] /\ Min(all) = values[low]
    BY <1>7, <1>10, <1>11, <1>15, ExtremeIs
  <1>17. Max(shown) = values[high] /\ Min(shown) = values[low]
    BY <1>12, <1>13, <1>14, ExtremeIs
  <1> QED
    BY <1>12, <1>16, <1>17

\* The drawing of a signal fits the plot, keeps its peaks and shows its long gaps, for all
\* signals, all plots, and however the edges of the buckets are rounded.
THEOREM FaithfulEnvelope == Spec => []EnvelopeIsFaithful
  <1>1. ASSUME IInv, Answered("envelope")
        PROVE  EnvelopeKeepsPeaks /\ EnvelopeFitsInOrder /\ LongGapsAreDrawn
    <2> DEFINE values == Drawn(job.values, job.zeroAsGap)
               drawn == DownsampleEnvelope(values, job.maxPoints, job.short)
    <2>1. job \in EnvelopeJobs /\ answer.value = drawn
      BY <1>1, KindsAssumption DEF IInv, IsJob, Computed, Answered, Answers
    <2>2. /\ job.values \in Seq(Int \cup {Gap}) /\ job.maxPoints \in Nat \ {0, 1}
          /\ job.short \subseteq ExactEdges(Len(job.values), Buckets(job.maxPoints))
      BY <2>1, EnvelopeAssumption
    <2>3. values \in Seq(Int \cup {Gap}) /\ Len(values) = Len(job.values)
      <3>1. CASE job.zeroAsGap
        <4> DEFINE cell(k) == IF job.values[k] = 0 THEN Gap ELSE job.values[k]
        <4>1. values = [k \in 1 .. Len(job.values) |-> cell(k)]
          BY <3>1 DEF Drawn, ZeroAsGap
        <4>2. Len(job.values) \in Nat /\ \A k \in 1 .. Len(job.values) : cell(k) \in Int \cup {Gap}
          BY <2>2
        <4> HIDE DEF values, cell
        <4> QED
          BY <4>1, <4>2
      <3>2. CASE ~job.zeroAsGap
        BY <2>2, <3>2 DEF Drawn
      <3> QED
        BY <3>1, <3>2
    <2> DEFINE width == Spread(job.maxPoints, values)
    <2> HIDE DEF values, drawn
    <2>4. /\ DrawsAsMuch(drawn, values, job.maxPoints)
          /\ \A first \in 1 .. Len(values) - 2 * width + 2 :
               DrawsGap(drawn, values, first, first + 2 * width - 2)
      BY <2>2, <2>3, EnvelopeIs DEF drawn
    <2>5. EnvelopeKeepsPeaks
      BY <2>1, <2>3, <2>4, PeaksAreKept DEF EnvelopeKeepsPeaks, values
    <2>6. EnvelopeFitsInOrder
      <3>1. \A i \in 1 .. Len(drawn) - 1 : drawn[i] < drawn[i + 1]
        <4> SUFFICES ASSUME NEW i \in 1 .. Len(drawn) - 1 PROVE drawn[i] < drawn[i + 1]
          OBVIOUS
        <4>1. Len(drawn) \in Nat
          BY <2>4, LenProperties DEF DrawsAsMuch
        <4>2. i \in 1 .. Len(drawn) /\ i + 1 \in 1 .. Len(drawn) /\ i < i + 1
          BY <4>1
        <4> QED
          BY <2>4, <4>2 DEF DrawsAsMuch, Ascending
      <3> QED
        BY <2>1, <2>4, <3>1 DEF EnvelopeFitsInOrder, DrawsAsMuch
    <2>7. LongGapsAreDrawn
      BY <2>1, <2>4 DEF LongGapsAreDrawn, DrawsGap, Spread, values
    <2> QED
      BY <2>5, <2>6, <2>7
  <1>2. IInv => EnvelopeIsFaithful
    BY <1>1 DEF EnvelopeIsFaithful, EnvelopeKeepsPeaks, EnvelopeFitsInOrder, LongGapsAreDrawn
  <1> QED
    BY <1>2, AnswersInvariance, PTL

----------------------------------------------------------------------------
(* What a reader is shown. *)

\* What is in a page.
IsPage(page, length, later, offset, limit) ==
  /\ Len(page.rows) \in 0 .. limit
  /\ \A k \in 1 .. Len(page.rows) : page.rows[k] = offset + k
  /\ length >= offset + limit => Len(page.rows) = limit
  /\ length < offset + limit =>
       Len(page.rows) < limit /\ (length >= offset => Len(page.rows) = length - offset)
  /\ page.hasMore <=> IF length <= offset + limit THEN later > length ELSE later > offset + limit

LEMMA PageIs ==
  ASSUME NEW length \in Nat, NEW later \in Nat, NEW offset \in Nat, NEW limit \in Nat \ {0}
  PROVE  IsPage(CsvPreview(length, later, offset, limit), length, later, offset, limit)
  <1> DEFINE rest == Min({limit, length - offset})
             count == Max({0, rest})
             rows == [k \in 1 .. count |-> offset + k]
             page == CsvPreview(length, later, offset, limit)
             end == Min({length, offset + limit})
  <1>1. rest = IF limit <= length - offset THEN limit ELSE length - offset
    BY MinOfTwo
  <1>2. count = IF 0 >= rest THEN 0 ELSE rest
    BY <1>1, MaxOfTwo
  <1>3. page = [rows |-> rows, hasMore |-> later > end]
    BY DEF CsvPreview, RowsFrom
  <1>4. end = IF length <= offset + limit THEN length ELSE offset + limit
    BY MinOfTwo
  <1> HIDE DEF rest, end
  <1>5. count \in 0 .. limit
    BY <1>1, <1>2
  <1>6. length >= offset + limit => count = limit
    BY <1>1, <1>2
  <1>7. length < offset + limit => count < limit /\ (length >= offset => count = length - offset)
    BY <1>1, <1>2
  <1> HIDE DEF count
  <1>8. Len(rows) = count /\ \A k \in 1 .. count : rows[k] = offset + k
    BY <1>5
  <1> HIDE DEF rows, page
  <1>9. page.rows = rows /\ (page.hasMore <=> later > end)
    BY <1>3
  <1>10. page.hasMore
           <=> IF length <= offset + limit THEN later > length ELSE later > offset + limit
    BY <1>4, <1>9
  <1> QED
    BY <1>5, <1>6, <1>7, <1>8, <1>9, <1>10 DEF IsPage, page

\* Indices of which none is left out before another are the first ones.
LEMMA FirstIndices ==
  ASSUME NEW n \in Nat, NEW s \in SUBSET (1 .. n), 1 \in s,
         \A i \in s : \A k \in 1 .. i : k \in s
  PROVE  Cardinality(s) \in 1 .. n /\ s = 1 .. Cardinality(s)
  <1> DEFINE m == Max(s)
  <1>1. m \in s /\ \A k \in s : k <= m
    BY GreatestIndex
  <1> HIDE DEF m
  <1>2. s = 1 .. m /\ m \in 1 .. n
    <2>1. m \in 1 .. n /\ \A k \in 1 .. m : k \in s
      BY <1>1
    <2>2. \A k \in s : k \in 1 .. m
      BY <1>1, <2>1
    <2> QED
      BY <2>1, <2>2
  <1>3. Cardinality(1 .. m) = m
    BY <1>2, FS_Interval
  <1> QED
    BY <1>2, <1>3

\* The page that a row belongs to.
LEMMA PageOfRow ==
  ASSUME NEW limit \in Nat \ {0}, NEW m \in Nat, NEW row \in Nat \ {0},
         row <= (m - 1) * limit + limit
  PROVE  \E i \in 1 .. m : (i - 1) * limit < row /\ row <= (i - 1) * limit + limit
  <1> DEFINE q == (row - 1) \div limit
  <1>1. q \in Nat /\ limit * q <= row - 1 /\ row - 1 < limit * q + limit
    <2>1. row - 1 \in Nat
      OBVIOUS
    <2> QED
      BY <2>1, Quotient
  <1> HIDE DEF q
  <1>2. ((q + 1) - 1) * limit = limit * q /\ limit * q \in Nat
    BY <1>1
  <1>3. q < m
    <2>1. (m - 1) * limit + limit = limit * m /\ limit * m \in Nat
      OBVIOUS
    <2>2. limit * q < limit * m
      BY <1>1, <1>2, <2>1
    <2> QED
      BY <1>1, <2>2, Cancelled
  <1>4. q + 1 \in 1 .. m
    BY <1>1, <1>3
  <1>5. limit * q < row /\ row <= limit * q + limit
    BY <1>1, <1>2
  <1> QED
    BY <1>2, <1>4, <1>5

LEMMA PagesJoin ==
  ASSUME IInv, Answered("preview") PROVE PagesAreSound
  <1> DEFINE n == Len(job.reads)
             limit == job.limit
             m == Cardinality(PagesRead(job))
             pages == answer.value
             length(i) == job.reads[i].length
             later(i) == job.reads[i].later
             at(i) == (i - 1) * limit
             size(i) == Len(pages[i].rows)
  <1>1. job \in PreviewJobs /\ pages = [i \in 1 .. m |-> Page(job, i)]
    BY KindsAssumption DEF IInv, IsJob, Computed, Answered, Answers
  <1>2. /\ n \in Nat /\ n >= 1 /\ limit \in Nat \ {0}
        /\ \A i \in 1 .. n : length(i) \in Nat /\ later(i) \in Nat /\ length(i) <= later(i)
        /\ \A a, b \in 1 .. n : a < b => later(a) <= length(b)
    <2>1. job.reads \in Seq([length : Nat, later : Nat]) /\ job.reads # <<>>
      BY <1>1, PreviewAssumption
    <2>2. n \in Nat /\ n >= 1 /\ \A i \in 1 .. n : job.reads[i] \in [length : Nat, later : Nat]
      <3>1. \A R, s : s \in Seq(R) /\ s # <<>> =>
              Len(s) \in Nat /\ Len(s) >= 1 /\ \A i \in 1 .. Len(s) : s[i] \in R
        OBVIOUS
      <3> QED
        BY <2>1, <3>1, Zenon
    <2> QED
      BY <1>1, <2>2, PreviewAssumption
  <1>3. m \in 1 .. n /\ \A i \in 1 .. m : \A k \in 1 .. i - 1 : Page(job, k).hasMore
    <2> DEFINE read == PagesRead(job)
    <2>1. read \in SUBSET (1 .. n) /\ 1 \in read
      BY <1>2 DEF PagesRead
    <2>2. \A i \in read : \A k \in 1 .. i : k \in read
      BY <1>2 DEF PagesRead
    <2>3. m \in 1 .. n /\ read = 1 .. m
      <3> HIDE DEF read
      <3> QED
        BY <1>2, <2>1, <2>2, FirstIndices DEF read
    <2> QED
      BY <2>3 DEF PagesRead
  <1>4. Len(pages) = m /\ \A i \in 1 .. m : pages[i] = Page(job, i)
    <2> HIDE DEF m
    <2> QED
      BY <1>1, <1>3
  <1> HIDE DEF m, pages
  <1>5. ASSUME NEW i \in 1 .. m
        PROVE  i \in 1 .. n /\ at(i) \in Nat /\ IsPage(pages[i], length(i), later(i), at(i), limit)
    <2>1. i \in 1 .. n /\ length(i) \in Nat /\ later(i) \in Nat /\ at(i) \in Nat
      BY <1>2, <1>3
    <2>2. pages[i] = CsvPreview(length(i), later(i), at(i), limit)
      BY <1>4 DEF Page
    <2> HIDE DEF at, limit, length, later
    <2> QED
      BY <1>2, <2>1, <2>2, PageIs DEF limit
  <1>6. ASSUME NEW i \in 1 .. m - 1
        PROVE  i \in 1 .. m /\ i + 1 \in 1 .. m /\ at(i + 1) = at(i) + limit /\ pages[i].hasMore
    <2>1. i \in 1 .. m /\ i + 1 \in 1 .. m /\ i \in 1 .. (i + 1) - 1
      BY <1>3
    <2>2. pages[i].hasMore
      BY <1>3, <1>4, <2>1
    <2>3. ((i + 1) - 1) * limit = (i - 1) * limit + limit
      BY <1>2, <2>1
    <2> QED
      BY <2>1, <2>2, <2>3
  <1> HIDE DEF at, limit, length, later
  <1>7. ASSUME NEW i \in 1 .. m - 1, size(i) = limit
        PROVE  pages[i + 1].rows # <<>>
    <2>1. /\ i \in 1 .. n /\ i + 1 \in 1 .. n /\ i < i + 1
          /\ IsPage(pages[i], length(i), later(i), at(i), limit)
          /\ IsPage(pages[i + 1], length(i + 1), later(i + 1), at(i + 1), limit)
          /\ at(i) \in Nat /\ at(i + 1) = at(i) + limit /\ pages[i].hasMore
      BY <1>3, <1>5, <1>6
    <2>2. /\ length(i) \in Nat /\ later(i) \in Nat /\ length(i + 1) \in Nat
          /\ later(i) <= length(i + 1) /\ limit \in Nat \ {0}
      BY <1>2, <2>1
    <2>3. length(i) >= at(i) + limit
      BY <1>7, <2>1, <2>2 DEF IsPage
    <2>4. later(i) > at(i) + limit
      BY <2>1, <2>2, <2>3 DEF IsPage
    <2>5. length(i + 1) > at(i + 1)
      BY <2>1, <2>2, <2>4
    <2>6. size(i + 1) # 0
      BY <2>1, <2>2, <2>5 DEF IsPage
    <2> QED
      BY <2>6
  <1>8. ASSUME ~Last(pages).hasMore, NEW row \in 1 .. later(m)
        PROVE  \/ \E i \in 1 .. m : \E k \in 1 .. size(i) : pages[i].rows[k] = row
               \/ \E i \in 1 .. m - 1 : /\ length(i) < later(i)
                                        /\ at(i) + size(i) < row /\ row <= at(i) + limit
    <2>1. /\ m \in 1 .. m /\ m \in Nat /\ ~pages[m].hasMore
          /\ IsPage(pages[m], length(m), later(m), at(m), limit) /\ at(m) \in Nat
      BY <1>3, <1>4, <1>5, <1>8 DEF Last
    <2>2. /\ length(m) \in Nat /\ later(m) \in Nat /\ length(m) <= later(m)
          /\ limit \in Nat \ {0} /\ row \in Nat \ {0}
      BY <1>2, <1>5, <2>1
    <2>3. later(m) = length(m) /\ length(m) <= at(m) + limit
      <3>1. ~(IF length(m) <= at(m) + limit THEN later(m) > length(m)
              ELSE later(m) > at(m) + limit)
        BY <2>1, Zenon DEF IsPage
      <3> QED
        BY <2>1, <2>2, <3>1
    <2>4. row <= (m - 1) * limit + limit
      <3>1. row <= at(m) + limit
        BY <2>1, <2>2, <2>3
      <3> QED
        BY <3>1 DEF at
    <2>5. PICK i \in 1 .. m : at(i) < row /\ row <= at(i) + limit
      <3>1. \E i \in 1 .. m : (i - 1) * limit < row /\ row <= (i - 1) * limit + limit
        BY <2>1, <2>2, <2>4, PageOfRow
      <3> QED
        BY <3>1 DEF at
    <2>6. /\ IsPage(pages[i], length(i), later(i), at(i), limit) /\ at(i) \in Nat
          /\ length(i) \in Nat /\ later(i) \in Nat /\ size(i) \in Nat
      <3>1. IsPage(pages[i], length(i), later(i), at(i), limit) /\ at(i) \in Nat /\ i \in 1 .. n
        BY <1>5
      <3> QED
        BY <1>2, <2>2, <3>1 DEF IsPage
    <2>7. CASE row <= at(i) + size(i)
      <3>1. row - at(i) \in 1 .. size(i)
        BY <2>2, <2>5, <2>6, <2>7
      <3>2. pages[i].rows[row - at(i)] = at(i) + (row - at(i))
        BY <2>6, <3>1 DEF IsPage
      <3>3. at(i) + (row - at(i)) = row
        BY <2>2, <2>6
      <3> QED
        BY <3>1, <3>2, <3>3
    <2>8. CASE at(i) + size(i) < row
      <3>1. i # m
        <4> SUFFICES ASSUME i = m PROVE FALSE
          OBVIOUS
        <4>1. length(m) >= at(m) /\ row <= length(m)
          BY <2>1, <2>2, <2>3, <2>5
        <4>2. at(m) + size(m) >= length(m)
          <5>1. length(m) >= at(m) + limit => size(m) = limit
            BY <2>1 DEF IsPage
          <5>2. length(m) < at(m) + limit => size(m) = length(m) - at(m)
            BY <2>1, <4>1 DEF IsPage
          <5> HIDE DEF size
          <5> QED
            BY <2>1, <2>2, <2>3, <5>1, <5>2
        <4>3. at(m) + size(m) < row /\ size(m) \in Nat
          BY <2>6, <2>8
        <4> HIDE DEF size
        <4> QED
          BY <2>1, <2>2, <4>1, <4>2, <4>3
      <3>2. i \in 1 .. m - 1
        BY <2>1, <3>1
      <3>3. pages[i].hasMore
        BY <1>6, <3>2
      <3>4. size(i) < limit
        BY <2>2, <2>5, <2>6, <2>8
      <3>5. length(i) < at(i) + limit
        BY <2>2, <2>6, <3>4 DEF IsPage
      <3>6. later(i) > length(i)
        BY <2>2, <2>6, <3>3, <3>5 DEF IsPage
      <3> QED
        BY <2>5, <2>6, <2>8, <3>2, <3>6
    <2> QED
      BY <2>2, <2>6, <2>7, <2>8
  <1>9. \A i \in 1 .. m : \A k \in 1 .. size(i) : pages[i].rows[k] = at(i) + k
    BY <1>5 DEF IsPage
  <1> QED
    BY <1>4, <1>7, <1>8, <1>9 DEF PagesAreSound, pages, at, limit, length, later

\* Signals of distinct names are drawn from their own files.
LEMMA FilesAreTheSignals ==
  ASSUME IInv, Answered("selection")
  PROVE  PlottedFileIsTheSignals
  <1> DEFINE signals == job.signals
             files == job.files
             n == Len(signals)
             K == {i \in 1 .. n : signals[i].status = "success" /\ signals[i].path \in files}
             candidates(s) == IF ~job.moved /\ s.path \in files THEN {s.path}
                              ELSE {file \in files : file.alias = s.alias}
             drawn == Kept(signals, {i \in SuccessfulSignals(signals) : candidates(signals[i]) # {}})
  <1> SUFFICES ASSUME \A i, j \in 1 .. n : signals[i].alias = signals[j].alias => i = j
               PROVE  answer.value = [i \in 1 .. Len(Kept(signals, K)) |-> Kept(signals, K)[i].path]
    BY Zenon DEF PlottedFileIsTheSignals
  <1>1. /\ signals \in Seq(Range(signals))
        /\ \A i \in 1 .. n : signals[i].path.alias = signals[i].alias
        /\ files \subseteq {s.path : s \in Range(signals)}
    <2>1. job \in SelectionJobs
      BY KindsAssumption DEF IInv, IsJob, Answered
    <2> QED
      BY <2>1, SelectionAssumption
  <1>2. n \in Nat /\ \A i \in 1 .. n : signals[i] \in Range(signals)
    <2> HIDE DEF signals
    <2> QED
      BY <1>1
  <1>3. \A f \in files : \E j \in 1 .. n : f = signals[j].path
    <2>1. \A s \in Range(signals) : \E j \in 1 .. n : s = signals[j]
      <3>1. DOMAIN signals = 1 .. n
        BY <1>1, LenProperties
      <3> QED
        BY <3>1 DEF Range
    <2> QED
      BY <1>1, <2>1
  <1>4. ASSUME NEW i \in 1 .. n
        PROVE  candidates(signals[i]) = IF signals[i].path \in files THEN {signals[i].path} ELSE {}
    <2>1. ASSUME NEW f \in files, f.alias = signals[i].alias PROVE f = signals[i].path
      <3>1. PICK j \in 1 .. n : f = signals[j].path
        BY <1>3
      <3>2. signals[j].alias = signals[i].alias
        BY <1>1, <2>1, <3>1
      <3> QED
        BY <3>1, <3>2
    <2>2. signals[i].path \in files => signals[i].path.alias = signals[i].alias
      BY <1>1
    <2> HIDE DEF signals, files
    <2>3. {file \in files : file.alias = signals[i].alias}
            = IF signals[i].path \in files THEN {signals[i].path} ELSE {}
      BY <2>1, <2>2
    <2> QED
      BY <2>3
  <1> HIDE DEF candidates
  <1>5. {i \in SuccessfulSignals(signals) : candidates(signals[i]) # {}} = K
    <2>1. \A i \in 1 .. n : candidates(signals[i]) # {} <=> signals[i].path \in files
      BY <1>4
    <2> QED
      BY <2>1 DEF SuccessfulSignals
  <1> DEFINE there == Kept(signals, K)
  <1>6. drawn = there
    <2> HIDE DEF K
    <2> QED
      BY <1>5
  <1>7. /\ answer.value \in [1 .. Len(drawn) -> files]
        /\ \A i \in 1 .. Len(drawn) : answer.value[i] \in candidates(drawn[i])
    <2>1. answer.value \in ManifestSignals(signals, files, job.moved)
      BY DEF IInv, Computed, Answers, Answered
    <2> QED
      BY <2>1, Zenon DEF ManifestSignals, candidates
  <1>8. PICK e : Picks(there, signals, K, e)
    <2>1. K \in SUBSET (1 .. n)
      OBVIOUS
    <2> HIDE DEF K, signals
    <2> QED
      BY <1>1, <2>1, KeptPicks
  <1> HIDE DEF there, drawn
  <1>9. ASSUME NEW i \in 1 .. Len(there) PROVE answer.value[i] = there[i].path
    <2>1. e[i] \in K /\ there[i] = signals[e[i]]
      BY <1>8 DEF Picks
    <2>2. e[i] \in 1 .. n /\ signals[e[i]].path \in files
      BY <2>1
    <2>3. candidates(there[i]) = {there[i].path}
      BY <1>4, <2>1, <2>2
    <2>4. answer.value[i] \in candidates(there[i])
      BY <1>6, <1>7
    <2> QED
      BY <2>3, <2>4
  <1>10. answer.value \in [1 .. Len(there) -> files]
    BY <1>6, <1>7
  <1> QED
    BY <1>9, <1>10 DEF there

\* portal.py:95-110, plotting.py:112-145.  What a reader is shown of a file that is still
\* written is in its place and complete, but for the rows that were appended while a page
\* that was not full was read, and what is drawn of a session that has been moved comes
\* from the file of each signal: for all lengths of the file, limits and manifests.
THEOREM SoundReadings == Spec => []ReadingsAreSound
  <1>1. IInv => ReadingsAreSound
    <2> SUFFICES ASSUME IInv PROVE ReadingsAreSound
      OBVIOUS
    <2>1. PagesAreSound
      BY PagesJoin DEF PagesAreSound
    <2>2. PlottedFileIsTheSignals
      BY FilesAreTheSignals DEF PlottedFileIsTheSignals
    <2> QED
      BY <2>1, <2>2 DEF ReadingsAreSound
  <1> QED
    BY <1>1, AnswersInvariance, PTL

----------------------------------------------------------------------------
(* Exporting a document. *)

Names == Seq(Nat) \ {<<>>}

\* Among the suffixes that are tried there is one that makes a new alias.
LEMMA AliasIsNew ==
  ASSUME NEW used, IsFiniteSet(used), NEW base \in Names
  PROVE  UniqueAlias(used, base) \in Names \ used
  <1> DEFINE c == Cardinality(used)
             f == [n \in 2 .. c + 2 |-> Append(base, n)]
             free == {n \in 2 .. c + 2 : Append(base, n) \notin used}
  <1>1. c \in Nat
    BY FS_CardinalityType
  <1> HIDE DEF c
  <1>2. base \in Seq(Nat) /\ \A n \in 2 .. c + 2 : n \in Nat
    BY <1>1 DEF Names
  <1>3. ASSUME NEW n \in 2 .. c + 2
        PROVE  /\ Append(base, n) \in Seq(Nat) /\ Append(base, n) # <<>>
               /\ Append(base, n)[Len(base) + 1] = n
    BY <1>1, <1>2, AppendProperties
  <1>4. free # {}
    <2> SUFFICES ASSUME free = {} PROVE FALSE
      OBVIOUS
    <2>1. \A n \in 2 .. c + 2 : f[n] \in used /\ f[n] = Append(base, n)
      OBVIOUS
    <2>2. f \in [2 .. c + 2 -> used]
      OBVIOUS
    <2>3. \A m, n \in 2 .. c + 2 : f[m] = f[n] => m = n
      BY <1>3, <2>1
    <2> HIDE DEF f
    <2>4. f \in Injection(2 .. c + 2, used)
      BY <2>2, <2>3 DEF Injection, IsInjective
    <2>5. Cardinality(2 .. c + 2) <= c
      BY <2>4, FS_Injection DEF c
    <2>6. Cardinality(2 .. c + 2) = c + 1
      <3>1. 2 \in Int /\ c + 2 \in Int /\ (IF 2 > c + 2 THEN 0 ELSE (c + 2) - 2 + 1) = c + 1
        BY <1>1
      <3> QED
        BY <3>1, FS_Interval
    <2> QED
      BY <1>1, <2>5, <2>6
  <1>5. Min(free) \in free
    <2>1. \A n \in free : n \in Nat
      BY <1>2
    <2> HIDE DEF free
    <2> QED
      BY <1>4, <2>1, LeastOfNumbers
  <1>6. Append(base, Min(free)) \in Names \ used
    BY <1>3, <1>5 DEF Names
  <1> QED
    BY <1>6 DEF UniqueAlias, free, c

LEMMA RangeGrows ==
  ASSUME NEW S, NEW s \in Seq(S), NEW x
  PROVE  Range(Append(s, x)) = Range(s) \cup {x}
  <1> DEFINE n == Len(s)
             a == Append(s, x)
  <1>1. /\ n \in Nat /\ DOMAIN s = 1 .. n /\ DOMAIN a = 1 .. (n + 1)
        /\ a[n + 1] = x /\ \A k \in 1 .. n : a[k] = s[k]
    OBVIOUS
  <1> HIDE DEF a, n
  <1>2. ASSUME NEW y \in Range(a) PROVE y \in Range(s) \cup {x}
    <2>1. PICK k \in 1 .. (n + 1) : y = a[k]
      BY <1>1, <1>2 DEF Range
    <2>2. k = n + 1 \/ k \in 1 .. n
      BY <1>1
    <2> QED
      BY <1>1, <2>1, <2>2 DEF Range
  <1>3. ASSUME NEW y \in Range(s) \cup {x} PROVE y \in Range(a)
    <2>1. CASE y = x
      <3>1. n + 1 \in 1 .. (n + 1)
        BY <1>1
      <3> QED
        BY <1>1, <2>1, <3>1 DEF Range
    <2>2. CASE y \in Range(s)
      <3>1. PICK k \in 1 .. n : y = s[k]
        BY <1>1, <2>2 DEF Range
      <3>2. k \in 1 .. (n + 1) /\ a[k] = y
        BY <1>1, <3>1
      <3> QED
        BY <1>1, <3>2 DEF Range
    <2> QED
      BY <1>3, <2>1, <2>2
  <1> QED
    BY <1>2, <1>3 DEF a

LEMMA RangeIsFinite ==
  ASSUME NEW S, NEW s \in Seq(S)
  PROVE  IsFiniteSet(Range(s)) /\ Range(s) \in SUBSET S
  <1>1. Len(s) \in Nat /\ DOMAIN s = 1 .. Len(s) /\ \A k \in 1 .. Len(s) : s[k] \in S
    OBVIOUS
  <1>2. IsFiniteSet(1 .. Len(s))
    BY <1>1, FS_Interval
  <1>3. s \in Surjection(1 .. Len(s), Range(s))
    <2>1. s \in [1 .. Len(s) -> Range(s)]
      BY <1>1 DEF Range
    <2>2. \A y \in Range(s) : \E k \in 1 .. Len(s) : s[k] = y
      BY <1>1 DEF Range
    <2> QED
      BY <2>1, <2>2 DEF Surjection
  <1>4. Range(s) \in SUBSET S
    BY <1>1 DEF Range
  <1> QED
    BY <1>2, <1>3, <1>4, FS_Surjection

\* The aliases, one after the other.
LEMMA AliasesAreFold ==
  ASSUME NEW used, IsFiniteSet(used), NEW bases \in Seq(Names)
  PROVE  \E r \in [0 .. Len(bases) -> Seq(Names)] :
           /\ r[0] = <<>> /\ r[Len(bases)] = Aliases(used, bases)
           /\ \A k \in 1 .. Len(bases) :
                r[k] = Append(r[k - 1], UniqueAlias(used \cup Range(r[k - 1]), bases[k]))
  <1> DEFINE n == Len(bases)
             V == Seq(Names)
             Extend(v, base) == Append(v, UniqueAlias(used \cup Range(v), base))
             step == [v \in V |-> [k \in 1 .. n |-> Extend(v, bases[k])]]
             Unfold(f, t) == IF t = {} THEN <<>> ELSE Extend(f[t \ {Max(t)}], bases[Max(t)])
             iter == CHOOSE f : f = [t \in SUBSET (DOMAIN bases) |-> Unfold(f, t)]
  <1>1. n \in Nat /\ <<>> \in V /\ \A k \in 1 .. n : bases[k] \in Names
    OBVIOUS
  <1>2. ASSUME NEW v \in V, NEW base \in Names PROVE Extend(v, base) \in V
    <2>1. IsFiniteSet(used \cup Range(v))
      <3>1. IsFiniteSet(Range(v))
        BY RangeIsFinite
      <3> QED
        BY <3>1, FS_Union
    <2>2. UniqueAlias(used \cup Range(v), base) \in Names
      BY <2>1, AliasIsNew
    <2> QED
      BY <2>2, AppendProperties
  <1>3. step \in [V -> [1 .. n -> V]] /\ \A v \in V, k \in 1 .. n : step[v][k] = Extend(v, bases[k])
    <2> HIDE DEF Extend, V
    <2> QED
      BY <1>1, <1>2
  <1>4. Aliases(used, bases) = iter[DOMAIN bases]
    BY DEF Aliases, FoldLeft, MapThenFoldSet
  <1>5. DOMAIN bases = 1 .. n
    OBVIOUS
  <1> HIDE DEF step, V, Extend
  <1>6. PICK f \in [SUBSET (1 .. n) -> V] : Folds(f, V, <<>>, step, n)
    BY <1>1, <1>3, LeftFoldExists
  <1>7. ASSUME NEW t \in SUBSET (1 .. n), t # {} PROVE f[t] = Unfold(f, t)
    <2>1. Max(t) \in 1 .. n /\ t \ {Max(t)} \in SUBSET (1 .. n)
      BY <1>1, <1>7, GreatestIndex
    <2>2. f[t \ {Max(t)}] \in V
      BY <1>6, <2>1
    <2>3. f[t] = step[f[t \ {Max(t)}]][Max(t)]
      BY <1>6, <1>7, <2>2 DEF Folds
    <2>4. step[f[t \ {Max(t)}]][Max(t)] = Extend(f[t \ {Max(t)}], bases[Max(t)])
      BY <1>3, <2>1, <2>2, Zenon
    <2> QED
      BY <1>7, <2>3, <2>4, Zenon
  <1>8. f = [t \in SUBSET (DOMAIN bases) |-> Unfold(f, t)]
    <2>1. f[{}] = Unfold(f, {})
      BY <1>6, Zenon DEF Folds
    <2>2. \A t \in SUBSET (1 .. n) : f[t] = Unfold(f, t)
      <3> HIDE DEF Unfold
      <3>1. \A t \in SUBSET (1 .. n) : t # {} => f[t] = Unfold(f, t)
        BY <1>7
      <3> QED
        BY <2>1, <3>1
    <2> HIDE DEF Unfold
    <2> QED
      BY <1>5, <1>6, <2>2
  <1>9. iter = [t \in SUBSET (DOMAIN bases) |-> Unfold(iter, t)]
    BY <1>8
  <1> HIDE DEF iter
  <1>10. Folds(iter, V, <<>>, step, n)
    <2>1. iter[{}] = <<>>
      <3>1. iter[{}] = Unfold(iter, {})
        <4> HIDE DEF Unfold
        <4> QED
          BY <1>9
      <3> QED
        BY <3>1, Zenon
    <2>2. ASSUME NEW t \in SUBSET (1 .. n), t # {}, iter[t \ {Max(t)}] \in V
          PROVE  iter[t] = step[iter[t \ {Max(t)}]][Max(t)]
      <3>1. Max(t) \in 1 .. n
        BY <1>1, <2>2, GreatestIndex
      <3>2. iter[t] = Unfold(iter, t)
        <4> HIDE DEF Unfold
        <4> QED
          BY <1>5, <1>9
      <3>3. step[iter[t \ {Max(t)}]][Max(t)] = Extend(iter[t \ {Max(t)}], bases[Max(t)])
        BY <1>3, <2>2, <3>1, Zenon
      <3> QED
        BY <2>2, <3>2, <3>3, Zenon
    <2> QED
      BY <2>1, <2>2 DEF Folds
  <1>11. PICK r : Runs(r, V, <<>>, step, n) /\ r[n] = iter[1 .. n]
    <2> HIDE DEF n
    <2> DEFINE Stepped(g, W, b, o, m) == \E r : Runs(r, W, b, o, m) /\ r[m] = g[1 .. m]
    <2>1. \A m \in Nat : \A W : \A b \in W, o \in [W -> [1 .. m -> W]] : \A g :
            Folds(g, W, b, o, m) => Stepped(g, W, b, o, m)
      BY LeftFoldSteps
    <2>2. Stepped(iter, V, <<>>, step, n)
      <3> HIDE DEF Stepped
      <3> QED
        BY <1>1, <1>3, <1>10, <2>1
    <2> QED
      BY <2>2
  <1>12. ASSUME NEW k \in 1 .. n PROVE r[k] = Extend(r[k - 1], bases[k])
    <2>1. r[k - 1] \in V /\ r[k] = step[r[k - 1]][k]
      BY <1>1, <1>11 DEF Runs
    <2> QED
      BY <1>3, <2>1, Zenon
  <1> QED
    BY <1>4, <1>5, <1>11, <1>12 DEF V, Runs, Extend

\* They are new, and differ.
LEMMA AliasesAre ==
  ASSUME NEW used, IsFiniteSet(used), NEW bases \in Seq(Names)
  PROVE  LET given == Aliases(used, bases)
         IN  /\ given \in Seq(Names) /\ Len(given) = Len(bases)
             /\ \A i \in 1 .. Len(given) : given[i] \notin used
             /\ \A i, j \in 1 .. Len(given) : given[i] = given[j] => i = j
  <1> DEFINE n == Len(bases)
  <1>1. PICK r \in [0 .. n -> Seq(Names)] :
           /\ r[0] = <<>> /\ r[n] = Aliases(used, bases)
           /\ \A k \in 1 .. n :
                r[k] = Append(r[k - 1], UniqueAlias(used \cup Range(r[k - 1]), bases[k]))
    BY AliasesAreFold
  <1>2. n \in Nat /\ \A k \in 1 .. n : bases[k] \in Names
    BY LenProperties
  <1> DEFINE Fresh(k) == /\ Len(r[k]) = k
                         /\ \A i \in 1 .. k : r[k][i] \notin used
                         /\ \A i, j \in 1 .. k : r[k][i] = r[k][j] => i = j
             P == {k \in Nat : k <= n => Fresh(k)}
  <1>3. Fresh(0)
    BY <1>1
  <1>4. ASSUME NEW k \in Nat, k + 1 <= n, Fresh(k) PROVE Fresh(k + 1)
    <2> DEFINE x == UniqueAlias(used \cup Range(r[k]), bases[k + 1])
    <2>1. k \in 0 .. n /\ k + 1 \in 1 .. n /\ (k + 1) - 1 = k
      BY <1>2, <1>4
    <2>2. r[k + 1] = Append(r[k], x) /\ r[k] \in Seq(Names) /\ bases[k + 1] \in Names
      BY <1>1, <1>2, <2>1
    <2>3. IsFiniteSet(used \cup Range(r[k]))
      <3>1. IsFiniteSet(Range(r[k]))
        BY <2>2, RangeIsFinite
      <3> QED
        BY <3>1, FS_Union
    <2>4. x \in Names /\ x \notin used /\ x \notin Range(r[k])
      BY <2>2, <2>3, AliasIsNew
    <2>5. /\ Len(r[k + 1]) = k + 1 /\ r[k + 1][k + 1] = x
          /\ \A i \in 1 .. k : r[k + 1][i] = r[k][i] /\ r[k][i] \in Range(r[k])
      <3> HIDE DEF x
      <3>1. DOMAIN r[k] = 1 .. k
        BY <1>4, <2>2
      <3>2. \A i \in 1 .. k : r[k][i] \in Range(r[k])
        BY <3>1 DEF Range
      <3>3. /\ Len(r[k + 1]) = k + 1 /\ r[k + 1][k + 1] = x
            /\ \A i \in 1 .. k : r[k + 1][i] = r[k][i]
        <4> DEFINE s == r[k]
        <4>1. s \in Seq(Names) /\ Len(s) = k /\ x \in Names /\ r[k + 1] = Append(s, x)
          BY <1>4, <2>2, <2>4
        <4> HIDE DEF s
        <4>2. /\ Len(Append(s, x)) = k + 1 /\ Append(s, x)[k + 1] = x
              /\ \A i \in 1 .. k : Append(s, x)[i] = s[i]
          BY <4>1
        <4> QED
          BY <4>1, <4>2, Zenon DEF s
      <3> QED
        BY <3>2, <3>3
    <2> HIDE DEF x
    <2>6. \A i \in 1 .. (k + 1) : i = k + 1 \/ i \in 1 .. k
      OBVIOUS
    <2> QED
      BY <1>4, <2>4, <2>5, <2>6
  <1>5. P = Nat
    <2>1. 0 \in P
      BY <1>3
    <2>2. ASSUME NEW k \in P PROVE k + 1 \in P
      <3>1. k \in Nat /\ (k <= n => Fresh(k)) /\ k + 1 \in Nat
        OBVIOUS
      <3>2. k + 1 <= n => k <= n
        BY <1>2
      <3> HIDE DEF Fresh
      <3> QED
        BY <1>4, <3>1, <3>2
    <2> HIDE DEF P
    <2> QED
      BY <2>1, <2>2, Successors DEF P
  <1>6. Fresh(n)
    <2> HIDE DEF Fresh
    <2> QED
      BY <1>2, <1>5
  <1>7. r[n] \in Seq(Names)
    BY <1>1, <1>2
  <1> QED
    BY <1>1, <1>6, <1>7

\* The chunks of a sequence are written one after the other, and the last one is written.
LEMMA ChunksAre ==
  ASSUME NEW S, NEW events \in Seq(S), NEW size \in Nat \ {0}
  PROVE  LET n == Len(events)
             m == (n + size - 1) \div size
             edge(k) == IF size * k <= n THEN size * k ELSE n
         IN  /\ m \in Nat /\ edge(0) = 0 /\ edge(m) = n
             /\ Chunks(events, size) \in [1 .. m -> Seq(S)]
             /\ \A k \in Nat : k + 1 <= m =>
                  LET chunk == Chunks(events, size)[k + 1]
                  IN  /\ edge(k) \in Nat /\ edge(k + 1) \in Nat
                      /\ edge(k) < edge(k + 1) /\ edge(k + 1) <= n
                      /\ Len(chunk) = edge(k + 1) - edge(k)
                      /\ \A j \in 1 .. Len(chunk) : chunk[j] = events[edge(k) + j]
  <1> DEFINE n == Len(events)
             m == (n + size - 1) \div size
             edge(k) == IF size * k <= n THEN size * k ELSE n
             chunk(i) == SubSeq(events, (i - 1) * size + 1, Min({i * size, n}))
  <1>1. n \in Nat /\ n + size - 1 \in Nat /\ \A j \in 1 .. n : events[j] \in S
    BY LenProperties
  <1> HIDE DEF n
  <1>2. m \in Nat /\ size * m \in Nat /\ n <= size * m /\ size * m - size < n
    <2>1. m \in Nat /\ size * m <= n + size - 1 /\ n + size - 1 < size * m + size
      BY <1>1, Quotient
    <2> HIDE DEF m
    <2>2. size * m \in Nat
      BY <2>1
    <2> QED
      BY <1>1, <2>1, <2>2
  <1> HIDE DEF m
  <1>3. edge(0) = 0 /\ edge(m) = n
    BY <1>1, <1>2
  <1>4. ASSUME NEW k \in Nat, k + 1 <= m
        PROVE  /\ edge(k) = size * k /\ size * k \in Nat /\ size * k < n
               /\ (k + 1) * size = size * k + size
    <2>1. m - (k + 1) \in Nat /\ size * (m - (k + 1)) \in Nat
      BY <1>2, <1>4
    <2>2. size * m = size * k + size + size * (m - (k + 1))
      BY <1>2, <1>4
    <2>3. size * k \in Nat /\ (k + 1) * size = size * k + size
      OBVIOUS
    <2> QED
      BY <1>1, <1>2, <2>1, <2>2, <2>3
  <1>5. ASSUME NEW k \in Nat, k + 1 <= m
        PROVE  /\ edge(k) \in Nat /\ edge(k + 1) \in Nat
               /\ edge(k) < edge(k + 1) /\ edge(k + 1) <= n
               /\ chunk(k + 1) \in Seq(S) /\ Len(chunk(k + 1)) = edge(k + 1) - edge(k)
               /\ \A j \in 1 .. Len(chunk(k + 1)) : chunk(k + 1)[j] = events[edge(k) + j]
    <2> DEFINE low == size * k
               high == edge(k + 1)
    <2>1. edge(k) = low /\ low \in Nat /\ low < n /\ (k + 1) * size = low + size
      BY <1>4, <1>5
    <2>2. size * (k + 1) = (k + 1) * size
      BY <1>5
    <2> HIDE DEF low
    <2>3. high = IF low + size <= n THEN low + size ELSE n
      BY <2>1, <2>2
    <2>4. Min({(k + 1) * size, n}) = high
      <3>1. low + size \in Int /\ n \in Int
        BY <1>1, <2>1
      <3>2. Min({low + size, n}) = IF low + size <= n THEN low + size ELSE n
        BY <3>1 DEF Min
      <3> QED
        BY <2>1, <2>3, <3>2
    <2>5. ((k + 1) - 1) * size + 1 = low + 1
      BY <1>5 DEF low
    <2>6. chunk(k + 1) = SubSeq(events, low + 1, high)
      BY <2>4, <2>5
    <2> HIDE DEF chunk, high
    <2>7. high \in Nat /\ low < high /\ high <= n
      BY <1>1, <2>1, <2>3
    <2>8. /\ SubSeq(events, low + 1, high) \in Seq(S)
          /\ Len(SubSeq(events, low + 1, high)) = high - low
          /\ \A j \in 1 .. high - low : SubSeq(events, low + 1, high)[j] = events[low + j]
      BY <1>1, <2>1, <2>7, SubSeqProperties DEF n
    <2>9. /\ edge(k) \in Nat /\ high \in Nat /\ edge(k) < high /\ high <= n
          /\ chunk(k + 1) \in Seq(S) /\ Len(chunk(k + 1)) = high - edge(k)
          /\ \A j \in 1 .. Len(chunk(k + 1)) : chunk(k + 1)[j] = events[edge(k) + j]
      <3> HIDE DEF edge
      <3> QED
        BY <2>1, <2>6, <2>7, <2>8
    <2> QED
      BY <2>9 DEF high
  <1>6. Chunks(events, size) = [i \in 1 .. m |-> chunk(i)]
    BY DEF Chunks, m, n
  <1> HIDE DEF chunk, edge
  <1>7. \A i \in 1 .. m : chunk(i) \in Seq(S)
    <2> SUFFICES ASSUME NEW i \in 1 .. m PROVE chunk(i) \in Seq(S)
      OBVIOUS
    <2>1. i - 1 \in Nat /\ (i - 1) + 1 = i /\ i <= m
      BY <1>2
    <2> QED
      BY <1>5, <2>1
  <1>8. Chunks(events, size) \in [1 .. m -> Seq(S)]
    BY <1>6, <1>7
  <1>9. \A k \in Nat : k + 1 <= m => Chunks(events, size)[k + 1] = chunk(k + 1)
    BY <1>2, <1>6
  <1>10. \A k \in Nat : k + 1 <= m =>
           LET part == Chunks(events, size)[k + 1]
           IN  /\ edge(k) \in Nat /\ edge(k + 1) \in Nat
               /\ edge(k) < edge(k + 1) /\ edge(k + 1) <= n
               /\ Len(part) = edge(k + 1) - edge(k)
               /\ \A j \in 1 .. Len(part) : part[j] = events[edge(k) + j]
    BY <1>5, <1>9
  <1> QED
    BY <1>2, <1>3, <1>8, <1>10, Zenon DEF edge, m, n

LEMMA ChunksJoin ==
  ASSUME NEW S, NEW events \in Seq(S), NEW size \in Nat \ {0}
  PROVE  /\ Chunks(events, size) \in Seq(Seq(S))
         /\ FlattenSeq(Chunks(events, size)) = events
  <1> DEFINE n == Len(events)
             m == (n + size - 1) \div size
             edge(k) == IF size * k <= n THEN size * k ELSE n
             chunks == Chunks(events, size)
  <1>1. /\ m \in Nat /\ edge(0) = 0 /\ edge(m) = n /\ chunks \in [1 .. m -> Seq(S)]
        /\ \A k \in Nat : k + 1 <= m =>
             /\ edge(k) \in Nat /\ edge(k + 1) \in Nat /\ edge(k) < edge(k + 1) /\ edge(k + 1) <= n
             /\ Len(chunks[k + 1]) = edge(k + 1) - edge(k)
             /\ \A j \in 1 .. Len(chunks[k + 1]) : chunks[k + 1][j] = events[edge(k) + j]
    BY ChunksAre, Zenon
  <1>2. n \in Nat /\ DOMAIN events = 1 .. n
    BY LenProperties
  <1> HIDE DEF n, m, edge, chunks
  <1>3. chunks \in Seq(Seq(S)) /\ Len(chunks) = m
    BY <1>1
  <1>4. PICK r \in [0 .. m -> Seq(S)] :
          /\ r[0] = <<>> /\ r[m] = FlattenSeq(chunks)
          /\ \A k \in 1 .. m : r[k] = r[k - 1] \o chunks[k]
    BY <1>3, FlattenSteps
  <1> DEFINE Whole(k) == Len(r[k]) = edge(k) /\ \A j \in 1 .. edge(k) : r[k][j] = events[j]
             P == {k \in Nat : k <= m => Whole(k)}
  <1>5. Whole(0)
    BY <1>1, <1>4
  <1>6. ASSUME NEW k \in Nat, k + 1 <= m, Whole(k) PROVE Whole(k + 1)
    <2> DEFINE a == r[k]
               b == chunks[k + 1]
               low == edge(k)
               high == edge(k + 1)
    <2>1. k \in 0 .. m /\ k + 1 \in 1 .. m /\ (k + 1) - 1 = k
      BY <1>1, <1>6
    <2>2. r[k + 1] = a \o b /\ a \in Seq(S) /\ b \in Seq(S)
      BY <1>1, <1>4, <2>1
    <2>3. low \in Nat /\ high \in Nat /\ low < high /\ Len(a) = low /\ Len(b) = high - low
      BY <1>1, <1>6
    <2>4. /\ \A j \in 1 .. low : a[j] = events[j]
          /\ \A j \in 1 .. Len(b) : b[j] = events[low + j]
      BY <1>1, <1>6
    <2> HIDE DEF a, b, low, high
    <2>5. /\ Len(a \o b) = high
          /\ \A j \in 1 .. high : (a \o b)[j] = IF j <= low THEN a[j] ELSE b[j - low]
      <3>1. /\ Len(a \o b) = Len(a) + Len(b)
            /\ \A j \in 1 .. Len(a) + Len(b) :
                 (a \o b)[j] = IF j <= Len(a) THEN a[j] ELSE b[j - Len(a)]
        BY <2>2, ConcatProperties
      <3>2. Len(a) + Len(b) = high
        BY <2>3
      <3> QED
        BY <2>3, <3>1, <3>2, Zenon
    <2>6. \A j \in 1 .. high : (a \o b)[j] = events[j]
      <3> SUFFICES ASSUME NEW j \in 1 .. high PROVE (a \o b)[j] = events[j]
        OBVIOUS
      <3>1. CASE j <= low
        BY <2>3, <2>4, <2>5, <3>1
      <3>2. CASE ~(j <= low)
        <4>1. j - low \in 1 .. Len(b) /\ low + (j - low) = j
          BY <2>3, <3>2
        <4> QED
          BY <2>4, <2>5, <3>2, <4>1
      <3> QED
        BY <3>1, <3>2
    <2> QED
      BY <2>2, <2>5, <2>6 DEF high
  <1>7. P = Nat
    <2>1. 0 \in P
      BY <1>5
    <2>2. ASSUME NEW k \in P PROVE k + 1 \in P
      <3>1. k \in Nat /\ (k <= m => Whole(k)) /\ k + 1 \in Nat
        OBVIOUS
      <3>2. k + 1 <= m => k <= m
        BY <1>1
      <3> HIDE DEF Whole
      <3> QED
        BY <1>6, <3>1, <3>2
    <2> HIDE DEF P
    <2> QED
      BY <2>1, <2>2, Successors DEF P
  <1>8. Whole(m)
    <2> HIDE DEF Whole
    <2>1. \A k \in P : k <= m => Whole(k)
      OBVIOUS
    <2>2. m \in P /\ m <= m
      BY <1>1, <1>7
    <2> QED
      BY <2>1, <2>2
  <1>9. r[m] = events
    <2>1. r[m] \in Seq(S) /\ Len(r[m]) = n /\ \A j \in 1 .. n : r[m][j] = events[j]
      BY <1>1, <1>4, <1>8
    <2> QED
      BY <1>2, <2>1, SeqEqual DEF n
  <1> QED
    BY <1>3, <1>4, <1>9 DEF chunks

\* A document whose channels can be exported.
IdeChannel == [name : Names, subs : Seq(Seq(Nat)), visible : BOOLEAN, events : Seq(Int)]
SignalFile == [alias : Names, status : {"success", "failed"}, written : Seq(Int)]
Exportable(c) ==
  /\ c \in IdeChannel /\ c.subs # <<>> /\ c.events # <<>>
  /\ \A k, l \in 1 .. Len(c.events) : k <= l => c.events[k] <= c.events[l]
Document(rec, faults, size) ==
  /\ rec \in Seq(IdeChannel) /\ rec # <<>> /\ size \in Nat \ {0}
  /\ \A i \in 1 .. Len(rec) : Exportable(rec[i]) /\ faults[i] \in Faults(rec[i], size)

LEMMA DocumentsAre ==
  ASSUME NEW j \in IdeJobs, Recorded(j.channels) # <<>>
  PROVE  Document(Recorded(j.channels), j.faults, j.size)
  <1> DEFINE channels == j.channels
             K == {i \in 1 .. Len(channels) : channels[i].visible /\ channels[i].events # <<>>}
             rec == Kept(channels, K)
  <1>1. /\ channels \in Seq(IdeChannel) /\ j.size \in Nat \ {0}
        /\ \A i \in 1 .. Len(channels) :
             /\ channels[i].visible => channels[i].subs # <<>>
             /\ \A k, l \in 1 .. Len(channels[i].events) :
                  k <= l => channels[i].events[k] <= channels[i].events[l]
        /\ \A i \in 1 .. Len(rec) : j.faults[i] \in Faults(rec[i], j.size)
    BY IdeAssumption, Zenon DEF IdeChannel, Names, Recorded
  <1>2. rec = Recorded(channels)
    BY DEF Recorded
  <1>3. \A i \in 1 .. Len(channels) : channels[i] \in IdeChannel
    <2> DEFINE C == IdeChannel
    <2> HIDE DEF C
    <2>1. channels \in Seq(C)
      BY <1>1 DEF C
    <2>2. \A i \in 1 .. Len(channels) : channels[i] \in C
      BY <2>1
    <2> QED
      BY <2>2 DEF C
  <1>4. K \in SUBSET (1 .. Len(channels))
    OBVIOUS
  <1> HIDE DEF channels
  <1>5. rec \in Seq(IdeChannel) /\ \E e : Picks(rec, channels, K, e)
    <2> HIDE DEF K
    <2> QED
      BY <1>1, <1>4, KeptPicks
  <1>6. PICK e : Picks(rec, channels, K, e)
    BY <1>5
  <1> HIDE DEF rec
  <1>7. ASSUME NEW i \in 1 .. Len(rec) PROVE Exportable(rec[i])
    <2>1. e[i] \in K /\ rec[i] = channels[e[i]]
      BY <1>6 DEF Picks
    <2>2. e[i] \in 1 .. Len(channels)
      BY <2>1
    <2> QED
      BY <1>1, <1>3, <2>1, <2>2 DEF Exportable
  <1> QED
    BY <1>1, <1>2, <1>5, <1>7 DEF Document, channels

\* The origin is the first event of all.
LEMMA OriginIs ==
  ASSUME NEW rec, NEW faults, NEW size, Document(rec, faults, size)
  PROVE  /\ Origin(rec) \in Int
         /\ Origin(rec) = Min(UNION {Range(rec[i].events) : i \in 1 .. Len(rec)})
  <1> DEFINE n == Len(rec)
             f == [i \in 1 .. n |-> rec[i].events[1]]
             firsts == {rec[i].events[1] : i \in 1 .. n}
             all == UNION {Range(rec[i].events) : i \in 1 .. n}
  <1>1. n \in Nat /\ n # 0
    BY DEF Document
  <1>2. \A i \in 1 .. n : Exportable(rec[i])
    BY DEF Document
  <1> HIDE DEF n
  <1>3. ASSUME NEW i \in 1 .. n
        PROVE  /\ 1 \in 1 .. Len(rec[i].events) /\ DOMAIN rec[i].events = 1 .. Len(rec[i].events)
               /\ \A k \in 1 .. Len(rec[i].events) :
                    rec[i].events[k] \in Int /\ rec[i].events[1] <= rec[i].events[k]
    <2>1. /\ rec[i].events \in Seq(Int) /\ rec[i].events # <<>>
          /\ \A k, l \in 1 .. Len(rec[i].events) : k <= l => rec[i].events[k] <= rec[i].events[l]
      BY <1>2 DEF Exportable, IdeChannel
    <2> DEFINE events == rec[i].events
    <2> HIDE DEF events
    <2>2. events \in Seq(Int) /\ events # <<>>
      BY <2>1 DEF events
    <2>3. /\ 1 \in 1 .. Len(events) /\ DOMAIN events = 1 .. Len(events)
          /\ \A k \in 1 .. Len(events) : events[k] \in Int /\ 1 <= k
      BY <2>2
    <2> QED
      BY <2>1, <2>3 DEF events
  <1>4. \A i \in 1 .. n : f[i] = rec[i].events[1] /\ f[i] \in Int
    BY <1>3
  <1>5. PICK i \in 1 .. n : \A j \in 1 .. n : f[i] <= f[j]
    <2> DEFINE s == 1 .. n
    <2>1. s \in SUBSET (1 .. n) /\ s # {} /\ \A k \in s : f[k] \in Int
      BY <1>1, <1>4
    <2> HIDE DEF s, f
    <2>2. \E k \in s : \A j \in s : f[k] <= f[j]
      BY <1>1, <2>1, Extremes
    <2> QED
      BY <2>2 DEF s
  <1> HIDE DEF f
  <1>6. Min(firsts) = f[i]
    <2>1. firsts \in SUBSET Int /\ f[i] \in firsts /\ \A y \in firsts : y >= f[i]
      BY <1>4, <1>5
    <2> HIDE DEF firsts
    <2> QED
      BY <2>1, ExtremeIs
  <1>7. Min(all) = f[i]
    <2>1. ASSUME NEW y \in all PROVE y \in Int /\ y >= f[i]
      <3>1. PICK j \in 1 .. n : y \in Range(rec[j].events)
        OBVIOUS
      <3>2. PICK k \in 1 .. Len(rec[j].events) : y = rec[j].events[k]
        BY <1>3, <3>1 DEF Range
      <3>3. y \in Int /\ rec[j].events[1] <= y /\ f[j] \in Int /\ f[i] \in Int
        BY <1>3, <1>4, <3>2
      <3>4. f[i] <= f[j] /\ f[j] = rec[j].events[1]
        BY <1>4, <1>5
      <3> QED
        BY <3>3, <3>4
    <2>2. f[i] \in all
      <3>1. f[i] = rec[i].events[1] /\ 1 \in DOMAIN rec[i].events
        BY <1>3, <1>4
      <3>2. f[i] \in Range(rec[i].events)
        BY <3>1 DEF Range
      <3> QED
        BY <3>2
    <2>3. all \in SUBSET Int
      BY <2>1
    <2> HIDE DEF all
    <2> QED
      BY <2>1, <2>2, <2>3, ExtremeIs
  <1> QED
    BY <1>4, <1>6, <1>7 DEF Origin, n

\* What becomes of one channel, when the aliases in used are taken.
Silent == [at |-> "open", n |-> 1]
Dated(c, origin) == [k \in 1 .. Len(c.events) |-> c.events[k] - origin]
ChannelExported(one, used, c, fault, origin) ==
  /\ used \subseteq one.used /\ one.used \in SUBSET Names /\ IsFiniteSet(one.used)
  /\ one.results \in Seq(SignalFile)
  /\ \A i \in 1 .. Len(one.results) : one.results[i].alias \in one.used \ used
  /\ \A i, j \in 1 .. Len(one.results) : one.results[i].alias = one.results[j].alias => i = j
  /\ fault.at = "none" =>
       /\ Len(one.results) = Len(c.subs)
       /\ \A i \in 1 .. Len(one.results) :
            one.results[i].status = "success" /\ one.results[i].written = Dated(c, origin)
  /\ fault.at # "none" =>
       /\ \A i \in 1 .. Len(one.results) : one.results[i].status = "failed"
       /\ fault # Silent => one.results # <<>>

LEMMA ExportChannelIs ==
  ASSUME NEW used \in SUBSET Names, IsFiniteSet(used), NEW c, Exportable(c),
         NEW size \in Nat \ {0}, NEW fault \in Faults(c, size), NEW rec, Origin(rec) \in Int
  PROVE  ChannelExported(ExportChannel(used, rec, c, fault, size), used, c, fault, Origin(rec))
  <1> DEFINE bases   == [k \in 1 .. Len(c.subs) |-> c.name \o c.subs[k]]
             asked   == IF fault.at = "open" THEN SubSeq(bases, 1, fault.n) ELSE bases
             aliases == Aliases(used, asked)
             opened  == IF fault.at = "open" THEN SubSeq(aliases, 1, fault.n - 1) ELSE aliases
             chunks  == Chunks(c.events, size)
             done    == CASE fault.at = "none" -> chunks
                          [] fault.at = "open" -> <<>>
                          [] fault.at = "write" -> SubSeq(chunks, 1, fault.n - 1)
             events  == FlattenSeq(done)
             written == [k \in 1 .. Len(events) |-> events[k] - Origin(rec)]
             success == [k \in 1 .. Len(opened) |->
                           [alias |-> opened[k], status |-> "success", written |-> written]]
             failed  == [k \in 1 .. Len(opened) |->
                           [alias |-> opened[k], status |-> "failed", written |-> written]]
             one     == [used |-> used \cup Range(aliases),
                         results |-> IF fault.at = "none" THEN success ELSE failed]
             m == Len(c.subs)
  <1>1. /\ c.name \in Names /\ c.subs \in Seq(Seq(Nat)) /\ c.subs # <<>>
        /\ c.events \in Seq(Int) /\ m \in Nat /\ m # 0
        /\ \A k \in 1 .. m : c.subs[k] \in Seq(Nat)
    <2>1. /\ c.name \in Names /\ c.subs \in Seq(Seq(Nat)) /\ c.subs # <<>>
          /\ c.events \in Seq(Int)
      BY DEF Exportable, IdeChannel
    <2> DEFINE subs == c.subs
    <2> HIDE DEF subs
    <2>2. subs \in Seq(Seq(Nat)) /\ subs # <<>>
      BY <2>1 DEF subs
    <2>3. Len(subs) \in Nat /\ Len(subs) # 0 /\ \A k \in 1 .. Len(subs) : subs[k] \in Seq(Nat)
      BY <2>2
    <2> QED
      BY <2>1, <2>3 DEF subs
  <1>2. /\ fault.at \in {"none", "open", "write"}
        /\ fault.at = "open" => fault.n \in 1 .. m /\ fault = [at |-> "open", n |-> fault.n]
        /\ fault.at = "write" => fault.n \in 1 .. Len(chunks)
    BY DEF Faults
  <1>3. chunks \in Seq(Seq(Int)) /\ FlattenSeq(chunks) = c.events
    BY <1>1, ChunksJoin
  <1> HIDE DEF m
  <1>4. \A k \in 1 .. m : bases[k] = c.name \o c.subs[k] /\ bases[k] \in Names
    <2> SUFFICES ASSUME NEW k \in 1 .. m PROVE bases[k] = c.name \o c.subs[k] /\ bases[k] \in Names
      OBVIOUS
    <2>1. bases[k] = c.name \o c.subs[k]
      BY DEF m
    <2> DEFINE a == c.name
               b == c.subs[k]
    <2>2. a \in Seq(Nat) /\ a # <<>> /\ b \in Seq(Nat)
      BY <1>1 DEF Names
    <2> HIDE DEF a, b
    <2>3. a \o b \in Seq(Nat) /\ a \o b # <<>>
      BY <2>2
    <2> QED
      BY <2>1, <2>3 DEF a, b, Names
  <1>5. bases \in Seq(Names) /\ Len(bases) = m
    <2>1. bases \in [1 .. m -> Names]
      BY <1>4 DEF m
    <2> HIDE DEF bases
    <2> QED
      BY <1>1, <2>1
  <1> HIDE DEF bases
  <1>6. asked \in Seq(Names) /\ Len(asked) = IF fault.at = "open" THEN fault.n ELSE m
    <2>1. CASE fault.at = "open"
      <3>1. 1 \in Int /\ fault.n \in Nat /\ fault.n \in 1 .. m
        BY <1>1, <1>2, <2>1
      <3>2. SubSeq(bases, 1, fault.n) \in Seq(Names) /\ Len(SubSeq(bases, 1, fault.n)) = fault.n
        <4>1. \A k \in 1 .. m : /\ SubSeq(bases, 1, k) \in Seq(Names)
                               /\ Len(SubSeq(bases, 1, k)) = k
          BY <1>1, <1>5
        <4> QED
          BY <3>1, <4>1, Zenon
      <3> QED
        BY <2>1, <3>2, Zenon
    <2>2. CASE fault.at # "open"
      BY <1>5, <2>2, Zenon
    <2> QED
      BY <2>1, <2>2
  <1> HIDE DEF asked
  <1>7. /\ aliases \in Seq(Names) /\ Len(aliases) = Len(asked)
        /\ \A i \in 1 .. Len(aliases) : aliases[i] \notin used
        /\ \A i, j \in 1 .. Len(aliases) : aliases[i] = aliases[j] => i = j
    BY <1>6, AliasesAre
  <1> HIDE DEF aliases
  <1>8. /\ opened \in Seq(Names) /\ Len(opened) <= Len(aliases)
        /\ Len(opened) = IF fault.at = "open" THEN fault.n - 1 ELSE m
        /\ \A i \in 1 .. Len(opened) : opened[i] = aliases[i]
    <2>1. CASE fault.at = "open"
      <3>1. fault.n \in 1 .. m /\ fault.n - 1 \in Nat /\ Len(aliases) = fault.n
        BY <1>1, <1>2, <1>6, <1>7, <2>1
      <3> DEFINE p == fault.n - 1
      <3> HIDE DEF p
      <3>2. p \in Nat /\ p <= Len(aliases)
        BY <3>1 DEF p
      <3>3. /\ SubSeq(aliases, 1, p) \in Seq(Names) /\ Len(SubSeq(aliases, 1, p)) = p
            /\ \A i \in 1 .. p : SubSeq(aliases, 1, p)[i] = aliases[i]
        BY <1>7, <3>2
      <3>4. opened = SubSeq(aliases, 1, p)
        BY <2>1 DEF p
      <3> HIDE DEF opened
      <3> QED
        BY <2>1, <3>2, <3>3, <3>4 DEF p
    <2>2. CASE fault.at # "open"
      <3>1. opened = aliases /\ Len(aliases) = m
        BY <1>6, <1>7, <2>2
      <3> HIDE DEF opened
      <3> QED
        BY <1>1, <1>7, <2>2, <3>1
    <2> QED
      BY <2>1, <2>2
  <1> HIDE DEF opened
  <1>9. done \in Seq(Seq(Int)) /\ (fault.at = "none" => done = chunks)
    <2>1. CASE fault.at = "none"
      BY <1>3, <2>1
    <2>2. CASE fault.at = "open"
      BY <2>2
    <2>3. CASE fault.at = "write"
      <3> DEFINE p == fault.n - 1
      <3>1. p \in Nat /\ p <= Len(chunks)
        <4>1. fault.n \in 1 .. Len(chunks) /\ Len(chunks) \in Nat
          BY <1>2, <1>3, <2>3, LenProperties
        <4> QED
          BY <4>1
      <3>2. done = SubSeq(chunks, 1, p)
        BY <2>3
      <3> HIDE DEF p, done, chunks
      <3>3. SubSeq(chunks, 1, p) \in Seq(Seq(Int))
        <4> DEFINE T == Seq(Int)
        <4> HIDE DEF T
        <4>1. chunks \in Seq(T)
          BY <1>3 DEF T
        <4>2. SubSeq(chunks, 1, p) \in Seq(T)
          BY <3>1, <4>1
        <4> QED
          BY <4>2 DEF T
      <3> QED
        BY <2>3, <3>2, <3>3
    <2> QED
      BY <1>2, <2>1, <2>2, <2>3
  <1> HIDE DEF done, chunks
  <1>10. events \in Seq(Int) /\ (fault.at = "none" => events = c.events)
    <2>1. PICK r \in [0 .. Len(done) -> Seq(Int)] : r[Len(done)] = FlattenSeq(done)
      <3>1. \E r \in [0 .. Len(done) -> Seq(Int)] :
              /\ r[0] = <<>> /\ r[Len(done)] = FlattenSeq(done)
              /\ \A k \in 1 .. Len(done) : r[k] = r[k - 1] \o done[k]
        BY <1>9, FlattenSteps
      <3> QED
        BY <3>1
    <2>2. Len(done) \in 0 .. Len(done)
      BY <1>9, LenProperties
    <2> QED
      BY <1>3, <1>9, <2>1, <2>2, Zenon
  <1> HIDE DEF events
  <1>11. written \in Seq(Int) /\ (fault.at = "none" => written = Dated(c, Origin(rec)))
    <2>1. written \in [1 .. Len(events) -> Int] /\ Len(events) \in Nat
      BY <1>10
    <2>2. written \in Seq(Int)
      <3> HIDE DEF written
      <3> QED
        BY <2>1
    <2>3. fault.at = "none" => written = Dated(c, Origin(rec))
      BY <1>10, Zenon DEF Dated
    <2> QED
      BY <2>2, <2>3
  <1> HIDE DEF written
  <1>12. Len(opened) \in Nat /\ \A k \in 1 .. Len(opened) :
            opened[k] \in Names \ used /\ opened[k] \in Range(aliases)
    <2>1. Len(opened) \in Nat /\ Len(aliases) \in Nat /\ DOMAIN aliases = 1 .. Len(aliases)
      BY <1>7, <1>8, LenProperties
    <2>2. ASSUME NEW k \in 1 .. Len(opened)
          PROVE  opened[k] \in Names \ used /\ opened[k] \in Range(aliases)
      <3>1. k \in 1 .. Len(aliases) /\ opened[k] = aliases[k]
        BY <1>8, <2>1
      <3>2. aliases[k] \in Names
        BY <1>7, <3>1
      <3>3. aliases[k] \in Range(aliases)
        BY <2>1, <3>1 DEF Range
      <3> QED
        BY <1>7, <3>1, <3>2, <3>3
    <2> QED
      BY <2>1, <2>2
  <1>13. /\ one.results \in Seq(SignalFile) /\ Len(one.results) = Len(opened)
         /\ \A i \in 1 .. Len(opened) :
              /\ one.results[i].alias = opened[i] /\ one.results[i].written = written
              /\ one.results[i].status = IF fault.at = "none" THEN "success" ELSE "failed"
    <2> DEFINE status == IF fault.at = "none" THEN "success" ELSE "failed"
               R == [k \in 1 .. Len(opened) |->
                       [alias |-> opened[k], status |-> status, written |-> written]]
    <2>1. one.results = R
      BY Zenon
    <2> HIDE DEF one
    <2>2. status \in {"success", "failed"}
      OBVIOUS
    <2> HIDE DEF status
    <2>3. R \in [1 .. Len(opened) -> SignalFile] /\ \A i \in 1 .. Len(opened) :
            R[i].alias = opened[i] /\ R[i].written = written /\ R[i].status = status
      BY <1>11, <1>12, <2>2 DEF SignalFile
    <2> HIDE DEF R
    <2>4. R \in Seq(SignalFile) /\ Len(R) = Len(opened)
      BY <1>12, <2>3
    <2> QED
      BY <2>1, <2>3, <2>4 DEF status
  <1>14. one = ExportChannel(used, rec, c, fault, size)
    BY Zenon DEF ExportChannel, FailOpened, one, bases, asked, aliases, opened, chunks, done,
       events, written
  <1>15. one.used = used \cup Range(aliases)
    OBVIOUS
  <1> HIDE DEF one
  <1>16. used \subseteq one.used /\ one.used \in SUBSET Names /\ IsFiniteSet(one.used)
    <2>1. IsFiniteSet(Range(aliases)) /\ Range(aliases) \in SUBSET Names
      BY <1>7, RangeIsFinite
    <2>2. IsFiniteSet(used \cup Range(aliases))
      BY <2>1, FS_Union
    <2> QED
      BY <1>15, <2>1, <2>2
  <1>17. \A i, j \in 1 .. Len(opened) : opened[i] = opened[j] => i = j
    <2>1. Len(opened) \in Nat /\ Len(aliases) \in Nat
      BY <1>7, <1>8, LenProperties
    <2>2. \A i \in 1 .. Len(opened) : i \in 1 .. Len(aliases)
      BY <1>8, <2>1
    <2> QED
      BY <1>7, <1>8, <2>2
  <1>18. fault.at # "none" /\ fault # Silent => one.results # <<>>
    <2> SUFFICES ASSUME fault.at # "none", fault # Silent, one.results = <<>> PROVE FALSE
      OBVIOUS
    <2>1. Len(opened) = 0
      BY <1>13
    <2>2. fault.at = "open"
      BY <1>1, <1>8, <2>1, Zenon
    <2>3. fault.n - 1 = 0 /\ fault.n \in Int
      BY <1>1, <1>2, <1>8, <2>1, <2>2
    <2>4. fault.n = 1
      BY <2>3
    <2> QED
      BY <1>2, <2>2, <2>4, Zenon DEF Silent
  <1>19. fault.at = "none" => Len(one.results) = Len(c.subs)
    BY <1>8, <1>13 DEF m
  <1>20. ChannelExported(one, used, c, fault, Origin(rec))
    BY <1>11, <1>12, <1>13, <1>15, <1>16, <1>17, <1>18, <1>19 DEF ChannelExported
  <1> QED
    BY <1>14, <1>20

\* The channels, one after the other.
Exporting == [used : {u \in SUBSET Names : IsFiniteSet(u)}, results : Seq(SignalFile)]
NothingExported == [used |-> {}, results |-> <<>>]
ExportNext(state, i, rec, faults, size) ==
  LET one == ExportChannel(state.used, rec, rec[i], faults[i], size)
  IN  [used |-> one.used, results |-> state.results \o one.results]

StepExports(state, i, rec, faults, size) ==
  LET one == ExportChannel(state.used, rec, rec[i], faults[i], size)
      next == ExportNext(state, i, rec, faults, size)
  IN  /\ next \in Exporting
      /\ next.used = one.used /\ next.results = state.results \o one.results
      /\ ChannelExported(one, state.used, rec[i], faults[i], Origin(rec))
RunExports(r, channels, faults, size) ==
  LET rec == Recorded(channels)
  IN  /\ r \in [0 .. Len(rec) -> Exporting] /\ r[0] = NothingExported
      /\ ExportIdeSignals(channels, TRUE, faults, size) = r[Len(rec)].results
      /\ \A k \in 1 .. Len(rec) : r[k] = ExportNext(r[k - 1], k, rec, faults, size)

LEMMA ExportNextIs ==
  ASSUME NEW rec, NEW faults, NEW size, Document(rec, faults, size), NEW state \in Exporting,
         NEW i \in 1 .. Len(rec)
  PROVE  StepExports(state, i, rec, faults, size)
  <1> DEFINE one == ExportChannel(state.used, rec, rec[i], faults[i], size)
             next == ExportNext(state, i, rec, faults, size)
  <1>1. /\ state.used \in SUBSET Names /\ IsFiniteSet(state.used)
        /\ state.results \in Seq(SignalFile)
    BY DEF Exporting
  <1>2. Exportable(rec[i]) /\ faults[i] \in Faults(rec[i], size) /\ size \in Nat \ {0}
    BY DEF Document
  <1>3. Origin(rec) \in Int
    BY OriginIs
  <1>4. ChannelExported(one, state.used, rec[i], faults[i], Origin(rec))
    BY <1>1, <1>2, <1>3, ExportChannelIs
  <1>5. next.used = one.used /\ next.results = state.results \o one.results
        /\ next = [used |-> one.used, results |-> state.results \o one.results]
    BY DEF ExportNext
  <1> HIDE DEF one, next
  <1>6. state.results \o one.results \in Seq(SignalFile)
    BY <1>1, <1>4, ConcatProperties DEF ChannelExported
  <1>7. next \in Exporting
    BY <1>4, <1>5, <1>6 DEF ChannelExported, Exporting
  <1> QED
    BY <1>4, <1>5, <1>7 DEF StepExports, one, next

LEMMA ExportsAreFold ==
  ASSUME NEW channels, NEW faults, NEW size, Document(Recorded(channels), faults, size)
  PROVE  \E r : RunExports(r, channels, faults, size)
  <1> DEFINE rec == Recorded(channels)
             n == Len(rec)
             V == Exporting
             Extend(v, i) == ExportNext(v, i, rec, faults, size)
             step == [v \in V |-> [k \in 1 .. n |-> Extend(v, k)]]
             at == [i \in 1 .. n |-> i]
             Unfold(f, t) == IF t = {} THEN NothingExported
                             ELSE Extend(f[t \ {Max(t)}], at[Max(t)])
             iter == CHOOSE f : f = [t \in SUBSET (DOMAIN at) |-> Unfold(f, t)]
  <1>1. n \in Nat /\ NothingExported \in V /\ rec # <<>>
    BY FS_EmptySet DEF Document, NothingExported, Exporting
  <1>2. ASSUME NEW v \in V, NEW k \in 1 .. n PROVE Extend(v, k) \in V
    BY <1>2, ExportNextIs DEF StepExports
  <1>3. step \in [V -> [1 .. n -> V]] /\ \A v \in V, k \in 1 .. n : step[v][k] = Extend(v, k)
    <2> HIDE DEF Extend, V, n
    <2> QED
      BY <1>1, <1>2
  <1>4. ExportIdeSignals(channels, TRUE, faults, size) = iter[DOMAIN at].results
    BY <1>1 DEF ExportIdeSignals, FoldLeft, MapThenFoldSet, ExportNext, NothingExported
  <1>5. DOMAIN at = 1 .. n /\ \A k \in 1 .. n : at[k] = k
    OBVIOUS
  <1> HIDE DEF step, V, Extend, at, n
  <1>6. PICK f \in [SUBSET (1 .. n) -> V] : Folds(f, V, NothingExported, step, n)
    BY <1>1, <1>3, LeftFoldExists
  <1>7. ASSUME NEW t \in SUBSET (1 .. n), t # {} PROVE f[t] = Unfold(f, t)
    <2>1. Max(t) \in 1 .. n /\ t \ {Max(t)} \in SUBSET (1 .. n)
      BY <1>1, <1>7, GreatestIndex
    <2>2. f[t \ {Max(t)}] \in V
      BY <1>6, <2>1
    <2>3. f[t] = step[f[t \ {Max(t)}]][Max(t)]
      BY <1>6, <1>7, <2>2 DEF Folds
    <2>4. step[f[t \ {Max(t)}]][Max(t)] = Extend(f[t \ {Max(t)}], Max(t)) /\ at[Max(t)] = Max(t)
      BY <1>3, <1>5, <2>1, <2>2, Zenon
    <2> QED
      BY <1>7, <2>3, <2>4, Zenon
  <1>8. f = [t \in SUBSET (DOMAIN at) |-> Unfold(f, t)]
    <2>1. f[{}] = Unfold(f, {})
      BY <1>6, Zenon DEF Folds
    <2>2. \A t \in SUBSET (1 .. n) : f[t] = Unfold(f, t)
      <3> HIDE DEF Unfold
      <3>1. \A t \in SUBSET (1 .. n) : t # {} => f[t] = Unfold(f, t)
        BY <1>7
      <3> QED
        BY <2>1, <3>1
    <2> HIDE DEF Unfold
    <2> QED
      BY <1>5, <1>6, <2>2
  <1>9. iter = [t \in SUBSET (DOMAIN at) |-> Unfold(iter, t)]
    BY <1>8
  <1> HIDE DEF iter
  <1>10. Folds(iter, V, NothingExported, step, n)
    <2>1. iter[{}] = NothingExported
      <3>1. iter[{}] = Unfold(iter, {})
        <4> HIDE DEF Unfold
        <4> QED
          BY <1>9
      <3> QED
        BY <3>1, Zenon
    <2>2. ASSUME NEW t \in SUBSET (1 .. n), t # {}, iter[t \ {Max(t)}] \in V
          PROVE  iter[t] = step[iter[t \ {Max(t)}]][Max(t)]
      <3>1. Max(t) \in 1 .. n
        BY <1>1, <2>2, GreatestIndex
      <3>2. iter[t] = Unfold(iter, t)
        <4> HIDE DEF Unfold
        <4> QED
          BY <1>5, <1>9
      <3>3. step[iter[t \ {Max(t)}]][Max(t)] = Extend(iter[t \ {Max(t)}], Max(t))
        BY <1>3, <2>2, <3>1, Zenon
      <3>4. at[Max(t)] = Max(t)
        BY <1>5, <3>1
      <3> QED
        BY <2>2, <3>2, <3>3, <3>4, Zenon
    <2> QED
      BY <2>1, <2>2 DEF Folds
  <1>11. PICK r : Runs(r, V, NothingExported, step, n) /\ r[n] = iter[1 .. n]
    <2> DEFINE Stepped(g, W, b, o, m) == \E r : Runs(r, W, b, o, m) /\ r[m] = g[1 .. m]
    <2>1. \A m \in Nat : \A W : \A b \in W, o \in [W -> [1 .. m -> W]] : \A g :
            Folds(g, W, b, o, m) => Stepped(g, W, b, o, m)
      BY LeftFoldSteps
    <2>2. Stepped(iter, V, NothingExported, step, n)
      <3> HIDE DEF Stepped
      <3> QED
        BY <1>1, <1>3, <1>10, <2>1
    <2> QED
      BY <2>2
  <1>12. ASSUME NEW k \in 1 .. n PROVE r[k] = Extend(r[k - 1], k)
    <2>1. r[k - 1] \in V /\ r[k] = step[r[k - 1]][k]
      BY <1>1, <1>11 DEF Runs
    <2> QED
      BY <1>3, <2>1, Zenon
  <1>13. r \in [0 .. n -> V] /\ r[0] = NothingExported
    BY <1>11 DEF Runs
  <1>14. ExportIdeSignals(channels, TRUE, faults, size) = r[n].results
    BY <1>4, <1>5, <1>11
  <1> QED
    BY <1>12, <1>13, <1>14 DEF RunExports, V, Extend, n

\* Each signal belongs to one of the first k channels, and tells what became of it.
Owned(state, own, rec, faults, k) ==
  LET signals == state.results
  IN  /\ own \in [1 .. Len(signals) -> 1 .. k]
      /\ \A i \in 1 .. Len(signals) : signals[i].alias \in state.used
      /\ \A i, j \in 1 .. Len(signals) : signals[i].alias = signals[j].alias => i = j
      /\ \A i \in 1 .. Len(signals) :
           IF faults[own[i]].at = "none"
           THEN /\ signals[i].status = "success"
                /\ signals[i].written = Dated(rec[own[i]], Origin(rec))
           ELSE signals[i].status = "failed"
      /\ \A c \in 1 .. k :
           faults[c].at = "none" =>
             Cardinality({i \in 1 .. Len(signals) : own[i] = c}) = Len(rec[c].subs)
      /\ \A c \in 1 .. k :
           faults[c].at # "none" /\ faults[c] # Silent =>
             \E i \in 1 .. Len(signals) : own[i] = c

LEMMA OwnedNext ==
  ASSUME NEW rec, NEW faults, NEW size, Document(rec, faults, size), NEW k \in Nat,
         k + 1 \in 1 .. Len(rec), NEW state \in Exporting, NEW own,
         Owned(state, own, rec, faults, k)
  PROVE  \E o : Owned(ExportNext(state, k + 1, rec, faults, size), o, rec, faults, k + 1)
  <1> DEFINE one == ExportChannel(state.used, rec, rec[k + 1], faults[k + 1], size)
             next == ExportNext(state, k + 1, rec, faults, size)
             a == state.results
             b == one.results
             both == next.results
             m == Len(a)
             l == Len(b)
             o == [i \in 1 .. m + l |-> IF i <= m THEN own[i] ELSE k + 1]
             fault == faults[k + 1]
  <1>1. /\ next.used = one.used /\ both = a \o b
        /\ ChannelExported(one, state.used, rec[k + 1], fault, Origin(rec))
    <2>1. StepExports(state, k + 1, rec, faults, size)
      BY ExportNextIs
    <2> QED
      BY <2>1, Zenon DEF StepExports
  <1>2. a \in Seq(SignalFile) /\ b \in Seq(SignalFile)
    BY <1>1 DEF Exporting, ChannelExported
  <1>3. /\ state.used \subseteq one.used
        /\ \A i \in 1 .. l : b[i].alias \in one.used \ state.used
        /\ \A i, j \in 1 .. l : b[i].alias = b[j].alias => i = j
        /\ fault.at = "none" =>
             /\ l = Len(rec[k + 1].subs)
             /\ \A i \in 1 .. l : /\ b[i].status = "success"
                                  /\ b[i].written = Dated(rec[k + 1], Origin(rec))
        /\ fault.at # "none" =>
             /\ \A i \in 1 .. l : b[i].status = "failed"
             /\ fault # Silent => b # <<>>
    BY <1>1, Zenon DEF ChannelExported
  <1>4. /\ own \in [1 .. m -> 1 .. k]
        /\ \A i \in 1 .. m : a[i].alias \in state.used
        /\ \A i, j \in 1 .. m : a[i].alias = a[j].alias => i = j
        /\ \A i \in 1 .. m :
             IF faults[own[i]].at = "none"
             THEN a[i].status = "success" /\ a[i].written = Dated(rec[own[i]], Origin(rec))
             ELSE a[i].status = "failed"
        /\ \A c \in 1 .. k : faults[c].at = "none" =>
             Cardinality({i \in 1 .. m : own[i] = c}) = Len(rec[c].subs)
        /\ \A c \in 1 .. k : faults[c].at # "none" /\ faults[c] # Silent =>
             \E i \in 1 .. m : own[i] = c
    BY Zenon DEF Owned
  <1> HIDE DEF one, next, a, b, both
  <1>5. /\ Len(both) = m + l /\ \A i \in 1 .. m + l : both[i] = IF i <= m THEN a[i] ELSE b[i - m]
    BY <1>1, <1>2, ConcatProperties
  <1>6. m \in Nat /\ l \in Nat /\ (l = 0 => b = <<>>)
    BY <1>2
  <1> HIDE DEF m, l
  <1>7. \A i \in 1 .. m + l : \/ i \in 1 .. m /\ i <= m
                              \/ i - m \in 1 .. l /\ ~(i <= m)
    BY <1>6
  <1>8. /\ \A i \in 1 .. m : i \in 1 .. m + l /\ i <= m
        /\ \A i \in 1 .. l : m + i \in 1 .. m + l /\ ~(m + i <= m) /\ (m + i) - m = i
    BY <1>6
  <1>9. /\ \A i \in 1 .. m : o[i] = own[i] /\ own[i] \in 1 .. k /\ both[i] = a[i]
        /\ \A i \in 1 .. m + l : ~(i <= m) => o[i] = k + 1 /\ both[i] = b[i - m]
    BY <1>4, <1>5, <1>8
  <1>10. /\ \A c \in 1 .. k : c \in 1 .. (k + 1) /\ c # k + 1
         /\ k + 1 \in 1 .. (k + 1) /\ \A c \in 1 .. (k + 1) : c = k + 1 \/ c \in 1 .. k
    OBVIOUS
  <1>11. o \in [1 .. Len(both) -> 1 .. (k + 1)]
    <2>1. \A i \in 1 .. m + l : o[i] \in 1 .. (k + 1)
      BY <1>7, <1>9, <1>10
    <2>2. o = [i \in 1 .. m + l |-> o[i]]
      OBVIOUS
    <2> HIDE DEF o
    <2> QED
      BY <1>5, <2>1, <2>2
  <1> HIDE DEF o
  <1>12. \A i \in 1 .. Len(both) : both[i].alias \in next.used
    BY <1>1, <1>3, <1>4, <1>5, <1>7, <1>9
  <1>13. ASSUME NEW i \in 1 .. m + l, NEW j \in 1 .. m + l, both[i].alias = both[j].alias
         PROVE  i = j
    <2>1. CASE i <= m /\ j <= m
      <3>1. i \in 1 .. m /\ j \in 1 .. m
        BY <1>7, <2>1
      <3> QED
        BY <1>4, <1>9, <1>13, <3>1
    <2>2. CASE i <= m /\ ~(j <= m)
      <3>1. i \in 1 .. m /\ j - m \in 1 .. l
        BY <1>7, <2>2
      <3> QED
        BY <1>3, <1>4, <1>9, <1>13, <2>2, <3>1
    <2>3. CASE ~(i <= m) /\ j <= m
      <3>1. j \in 1 .. m /\ i - m \in 1 .. l
        BY <1>7, <2>3
      <3> QED
        BY <1>3, <1>4, <1>9, <1>13, <2>3, <3>1
    <2>4. CASE ~(i <= m) /\ ~(j <= m)
      <3>1. i - m \in 1 .. l /\ j - m \in 1 .. l
        BY <1>7, <2>4
      <3>2. i - m = j - m
        BY <1>3, <1>9, <1>13, <2>4, <3>1
      <3> QED
        BY <1>6, <3>2
    <2> QED
      BY <2>1, <2>2, <2>3, <2>4
  <1>14. ASSUME NEW i \in 1 .. m + l
         PROVE  IF faults[o[i]].at = "none"
                THEN /\ both[i].status = "success"
                     /\ both[i].written = Dated(rec[o[i]], Origin(rec))
                ELSE both[i].status = "failed"
    <2>1. CASE i \in 1 .. m
      BY <1>4, <1>9, <2>1
    <2>2. CASE i - m \in 1 .. l /\ ~(i <= m)
      BY <1>3, <1>9, <2>2
    <2> QED
      BY <1>7, <2>1, <2>2
  <1>15. ASSUME NEW c \in 1 .. (k + 1), faults[c].at = "none"
         PROVE  Cardinality({i \in 1 .. m + l : o[i] = c}) = Len(rec[c].subs)
    <2>1. CASE c \in 1 .. k
      <3>1. {i \in 1 .. m + l : o[i] = c} = {i \in 1 .. m : own[i] = c}
        BY <1>7, <1>8, <1>9, <1>10, <2>1
      <3> QED
        BY <1>4, <1>15, <2>1, <3>1
    <2>2. CASE c = k + 1
      <3>1. {i \in 1 .. m + l : o[i] = c} = (m + 1) .. (m + l)
        <4>1. \A i \in 1 .. m + l : o[i] = c <=> ~(i <= m)
          BY <1>7, <1>9, <1>10, <2>2
        <4>2. \A i : i \in (m + 1) .. (m + l) <=> i \in 1 .. m + l /\ ~(i <= m)
          BY <1>6
        <4> QED
          BY <4>1, <4>2
      <3>2. Cardinality((m + 1) .. (m + l)) = l
        <4>1. m + 1 \in Int /\ m + l \in Int
              /\ (IF m + 1 > m + l THEN 0 ELSE (m + l) - (m + 1) + 1) = l
          BY <1>6
        <4> QED
          BY <4>1, FS_Interval
      <3> QED
        BY <1>3, <1>15, <2>2, <3>1, <3>2
    <2> QED
      BY <1>10, <2>1, <2>2
  <1>16. ASSUME NEW c \in 1 .. (k + 1), faults[c].at # "none", faults[c] # Silent
         PROVE  \E i \in 1 .. m + l : o[i] = c
    <2>1. CASE c \in 1 .. k
      <3>1. PICK i \in 1 .. m : own[i] = c
        BY <1>4, <1>16, <2>1
      <3> QED
        BY <1>8, <1>9, <3>1
    <2>2. CASE c = k + 1
      <3>1. l # 0
        BY <1>3, <1>6, <1>16, <2>2
      <3>2. 1 \in 1 .. l
        BY <1>6, <3>1
      <3>3. m + 1 \in 1 .. m + l /\ ~(m + 1 <= m)
        BY <1>8, <3>2
      <3> QED
        BY <1>9, <2>2, <3>3
    <2> QED
      BY <1>10, <2>1, <2>2
  <1>17. Owned(next, o, rec, faults, k + 1)
    BY <1>5, <1>11, <1>12, <1>13, <1>14, <1>15, <1>16 DEF Owned, both
  <1> QED
    BY <1>17 DEF next

\* Each signal of an export belongs to a channel.
LEMMA SignalsAreOwned ==
  ASSUME NEW channels, NEW faults, NEW size, Document(Recorded(channels), faults, size)
  PROVE  \E state \in Exporting : \E own :
           /\ ExportIdeSignals(channels, TRUE, faults, size) = state.results
           /\ Owned(state, own, Recorded(channels), faults, Len(Recorded(channels)))
  <1> DEFINE rec == Recorded(channels)
             n == Len(rec)
  <1>1. PICK r \in [0 .. n -> Exporting] :
          /\ r[0] = NothingExported
          /\ ExportIdeSignals(channels, TRUE, faults, size) = r[n].results
          /\ \A k \in 1 .. n : r[k] = ExportNext(r[k - 1], k, rec, faults, size)
    <2>1. PICK r : RunExports(r, channels, faults, size)
      BY ExportsAreFold
    <2> QED
      BY <2>1, Zenon DEF RunExports
  <1>2. Document(rec, faults, size) /\ n \in Nat
    BY DEF Document
  <1> HIDE DEF rec, n
  <1> DEFINE Told(k) == \E own : Owned(r[k], own, rec, faults, k)
             P == {k \in Nat : k <= n => Told(k)}
  <1>3. Told(0)
    <2>1. r[0].results = <<>>
      BY <1>1 DEF NothingExported
    <2>2. Owned(r[0], <<>>, rec, faults, 0)
      BY <2>1 DEF Owned
    <2> QED
      BY <2>2
  <1>4. ASSUME NEW k \in Nat, k + 1 <= n, Told(k) PROVE Told(k + 1)
    <2>1. k \in 0 .. n /\ k + 1 \in 1 .. n /\ (k + 1) - 1 = k
      BY <1>2, <1>4
    <2>2. r[k] \in Exporting /\ r[k + 1] = ExportNext(r[k], k + 1, rec, faults, size)
      BY <1>1, <2>1
    <2>3. PICK own : Owned(r[k], own, rec, faults, k)
      BY <1>4
    <2>4. \E o : Owned(ExportNext(r[k], k + 1, rec, faults, size), o, rec, faults, k + 1)
      BY <1>2, <2>1, <2>2, <2>3, OwnedNext DEF n
    <2> QED
      BY <2>2, <2>4
  <1>5. P = Nat
    <2>1. 0 \in P
      BY <1>3
    <2>2. ASSUME NEW k \in P PROVE k + 1 \in P
      <3>1. k \in Nat /\ (k <= n => Told(k)) /\ k + 1 \in Nat
        OBVIOUS
      <3>2. k + 1 <= n => k <= n
        BY <1>2
      <3> HIDE DEF Told
      <3> QED
        BY <1>4, <3>1, <3>2
    <2> HIDE DEF P
    <2> QED
      BY <2>1, <2>2, Successors DEF P
  <1>6. Told(n)
    <2> HIDE DEF Told
    <2>1. \A k \in P : k <= n => Told(k)
      OBVIOUS
    <2>2. n \in P /\ n <= n
      BY <1>2, <1>5
    <2> QED
      BY <2>1, <2>2
  <1>7. r[n] \in Exporting
    BY <1>1, <1>2
  <1>8. PICK own : Owned(r[n], own, rec, faults, n)
    BY <1>6
  <1> QED
    BY <1>1, <1>7, <1>8 DEF rec, n

\* What is there when an export has signals.
DocumentExported(state, own) ==
  LET rec == ChannelsExported
  IN  /\ Document(rec, job.faults, job.size) /\ state \in Exporting
      /\ answer.value = state.results /\ IdeResults = 1 .. Len(answer.value)
      /\ Owned(state, own, rec, job.faults, Len(rec))

LEMMA DocumentExportedIs ==
  ASSUME IInv, Answered("ide"), IdeResults # {}
  PROVE  \E state, own : DocumentExported(state, own)
  <1> DEFINE rec == Recorded(job.channels)
  <1>1. job \in IdeJobs
    BY KindsAssumption DEF IInv, IsJob, Answered
  <1>2. answer.value = ExportIdeSignals(job.channels, job.readable, job.faults, job.size)
    BY DEF IInv, Computed, Answers, Answered
  <1>3. answer.value # <<SourceFailed>>
    BY DEF IdeResults
  <1>4. job.readable /\ rec # <<>>
    BY <1>2, <1>3, Zenon DEF ExportIdeSignals
  <1>5. answer.value = ExportIdeSignals(job.channels, TRUE, job.faults, job.size)
    BY <1>2, <1>4, Zenon DEF ExportIdeSignals
  <1>6. Document(rec, job.faults, job.size)
    BY <1>1, <1>4, DocumentsAre
  <1>7. PICK state \in Exporting : \E own :
          /\ ExportIdeSignals(job.channels, TRUE, job.faults, job.size) = state.results
          /\ Owned(state, own, rec, job.faults, Len(rec))
    BY <1>6, SignalsAreOwned
  <1>8. answer.value = state.results
    BY <1>5, <1>7
  <1>9. IdeResults = 1 .. Len(answer.value)
    <2>1. state.results \in Seq(SignalFile)
      BY DEF Exporting
    <2> DEFINE signals == state.results
    <2> HIDE DEF signals
    <2>2. \A i \in 1 .. Len(signals) : signals[i] \in SignalFile
      BY <2>1 DEF signals
    <2>3. \A signal \in SignalFile : signal # SourceFailed
      BY DEF SignalFile, SourceFailed, Names
    <2> QED
      BY <1>8, <2>2, <2>3 DEF IdeResults, signals
  <1>10. PICK own : Owned(state, own, rec, job.faults, Len(rec))
    BY <1>7
  <1> QED
    BY <1>6, <1>8, <1>9, <1>10 DEF DocumentExported, ChannelsExported

LEMMA SignalsDiffer ==
  ASSUME IInv PROVE SignalsHaveOwnFiles
  <1> SUFFICES ASSUME Answered("ide"), NEW i \in IdeResults, NEW j \in IdeResults,
                      answer.value[i].alias = answer.value[j].alias
               PROVE  i = j
    BY DEF SignalsHaveOwnFiles
  <1>1. PICK state, own : DocumentExported(state, own)
    BY DocumentExportedIs
  <1>2. i \in 1 .. Len(state.results) /\ j \in 1 .. Len(state.results)
        /\ state.results[i].alias = state.results[j].alias
    BY <1>1 DEF DocumentExported
  <1> QED
    BY <1>1, <1>2 DEF DocumentExported, Owned

\* A part of the first numbers is finite.
LEMMA SomeOfThem ==
  ASSUME NEW n \in Nat, NEW s \in SUBSET (1 .. n)
  PROVE  IsFiniteSet(s) /\ Cardinality(s) \in Nat
  <1>1. IsFiniteSet(1 .. n)
    BY FS_Interval
  <1> QED
    BY <1>1, FS_Subset, FS_CardinalityType

LEMMA SuccessesAreComplete ==
  ASSUME IInv PROVE SuccessIsComplete
  <1> DEFINE rec == ChannelsExported
             n == Len(rec)
             first == Min(UNION {Range(rec[i].events) : i \in 1 .. n})
             dated(c) == [k \in 1 .. Len(c.events) |-> c.events[k] - first]
  <1> SUFFICES ASSUME Answered("ide"), IdeResults # {}
               PROVE  /\ \A i \in IdeResults : answer.value[i].status = "success" =>
                           \E c \in Range(rec) : answer.value[i].written = dated(c)
                      /\ (\A i \in 1 .. n : job.faults[i].at = "none") =>
                           \A c \in Range(rec) :
                             Cardinality({i \in IdeResults : answer.value[i].written = dated(c)})
                               >= Len(c.subs)
    BY Zenon DEF SuccessIsComplete
  <1>1. PICK state, own : DocumentExported(state, own)
    BY DocumentExportedIs
  <1> DEFINE signals == state.results
             m == Len(signals)
  <1>2. /\ Document(rec, job.faults, job.size) /\ answer.value = signals
        /\ IdeResults = 1 .. m /\ state \in Exporting
    BY <1>1, Zenon DEF DocumentExported
  <1>3. /\ own \in [1 .. m -> 1 .. n]
        /\ \A i \in 1 .. m : IF job.faults[own[i]].at = "none"
                             THEN /\ signals[i].status = "success"
                                  /\ signals[i].written = Dated(rec[own[i]], Origin(rec))
                             ELSE signals[i].status = "failed"
        /\ \A c \in 1 .. n : job.faults[c].at = "none" =>
             Cardinality({i \in 1 .. m : own[i] = c}) = Len(rec[c].subs)
    BY <1>1, Zenon DEF DocumentExported, Owned
  <1>4. Origin(rec) = first
    BY <1>2, OriginIs
  <1>5. \A c : dated(c) = Dated(c, Origin(rec))
    BY <1>4, Zenon DEF Dated
  <1>6. m \in Nat /\ DOMAIN rec = 1 .. n
    BY <1>2 DEF Exporting, Document
  <1> HIDE DEF signals, m, n, rec, dated
  <1>7. ASSUME NEW i \in 1 .. m, signals[i].status = "success"
        PROVE  \E c \in Range(rec) : signals[i].written = dated(c)
    <2>1. own[i] \in 1 .. n /\ signals[i].written = Dated(rec[own[i]], Origin(rec))
      BY <1>3, <1>7
    <2>2. rec[own[i]] \in Range(rec)
      BY <1>6, <2>1 DEF Range
    <2> QED
      BY <1>5, <2>1, <2>2
  <1>8. ASSUME \A i \in 1 .. n : job.faults[i].at = "none", NEW c \in Range(rec)
        PROVE  Cardinality({i \in 1 .. m : signals[i].written = dated(c)}) >= Len(c.subs)
    <2>1. PICK k \in 1 .. n : c = rec[k]
      BY <1>6 DEF Range
    <2> DEFINE mine == {i \in 1 .. m : own[i] = k}
               like == {i \in 1 .. m : signals[i].written = dated(c)}
    <2>2. mine \subseteq like
      <3> SUFFICES ASSUME NEW i \in 1 .. m, own[i] = k PROVE signals[i].written = dated(c)
        OBVIOUS
      <3>1. signals[i].written = Dated(rec[own[i]], Origin(rec))
        BY <1>3, <1>8
      <3> QED
        BY <1>5, <2>1, <3>1
    <2>3. Cardinality(mine) = Len(c.subs)
      BY <1>3, <1>8, <2>1
    <2>4. like \in SUBSET (1 .. m)
      OBVIOUS
    <2> HIDE DEF mine, like
    <2>5. IsFiniteSet(like) /\ Cardinality(like) \in Nat
      BY <1>6, <2>4, SomeOfThem
    <2>6. Cardinality(mine) <= Cardinality(like) /\ Cardinality(mine) \in Nat
      BY <2>2, <2>5, FS_Subset, FS_CardinalityType
    <2> QED
      BY <2>3, <2>5, <2>6 DEF like
  <1> QED
    BY <1>2, <1>7, <1>8

\* As many of the first m as the owners in S have, one by one and taken together.
OwnersHave(w, own, S, m) == \A c \in S : Cardinality({i \in 1 .. m : own[i] = c}) = w[c]
AllHave(own, S, m) == Cardinality({i \in 1 .. m : own[i] \in S})

LEMMA OwnersAddUp ==
  ASSUME NEW m \in Nat, NEW own, NEW S, IsFiniteSet(S), NEW w \in [S -> Nat],
         NEW g, Sums(g, w, S), OwnersHave(w, own, S, m)
  PROVE  g[S] = AllHave(own, S, m)
  <1> DEFINE count(s) == Cardinality({i \in 1 .. m : own[i] \in s})
             W == {s \in SUBSET S : g[s] = count(s)}
  <1>1. {} \in W
    <2>1. g[{}] = 0
      <3>1. {} \in SUBSET S
        OBVIOUS
      <3> QED
        BY <3>1, Zenon DEF Sums
    <2>2. count({}) = 0
      <3>1. {i \in 1 .. m : own[i] \in {}} = {}
        OBVIOUS
      <3> QED
        BY <3>1, FS_EmptySet
    <2> QED
      BY <2>1, <2>2
  <1>2. ASSUME NEW s \in SUBSET S, s # {} PROVE \E x \in s : s \ {x} \in W => s \in W
    <2>1. PICK x \in s : x = CHOOSE y \in s : TRUE
      BY <1>2
    <2>2. g[s] = g[s \ {x}] + w[x] /\ w[x] \in Nat
      BY <1>2, <2>1 DEF Sums
    <2> DEFINE others == {i \in 1 .. m : own[i] \in s \ {x}}
               mine == {i \in 1 .. m : own[i] = x}
               all == {i \in 1 .. m : own[i] \in s}
    <2>3. all = others \cup mine /\ others \cap mine = {}
      OBVIOUS
    <2>4. others \in SUBSET (1 .. m) /\ mine \in SUBSET (1 .. m)
      OBVIOUS
    <2>5. Cardinality(mine) = w[x]
      BY DEF OwnersHave
    <2>6. count(s) = Cardinality(all) /\ count(s \ {x}) = Cardinality(others)
      OBVIOUS
    <2> HIDE DEF others, mine, all, count
    <2>7. /\ IsFiniteSet(others) /\ IsFiniteSet(mine)
          /\ Cardinality(others) \in Nat /\ Cardinality(mine) \in Nat
      BY <2>4, SomeOfThem
    <2>8. Cardinality(all) = Cardinality(others) + Cardinality(mine)
      <3>1. Cardinality(others \cup mine)
              = Cardinality(others) + Cardinality(mine) - Cardinality(others \cap mine)
        BY <2>7, FS_Union
      <3>2. Cardinality(others \cap mine) = 0
        BY <2>3, FS_EmptySet
      <3> QED
        BY <2>3, <2>7, <3>1, <3>2
    <2>9. s \ {x} \in W => s \in W
      BY <2>2, <2>5, <2>6, <2>7, <2>8
    <2> QED
      BY <2>9
  <1>3. S \in W
    <2> HIDE DEF W
    <2>1. \A s \in SUBSET S : s # {} => \E x \in s : s \ {x} \in W => s \in W
      BY <1>2
    <2>2. \A s \in SUBSET S : s \in W
      BY <1>1, <2>1, SubsetInduction
    <2> QED
      BY <2>2
  <1> QED
    BY <1>3 DEF AllHave

LEMMA FailuresAreReported ==
  ASSUME IInv PROVE FailedChannelIsReported
  <1> DEFINE rec == ChannelsExported
             n == Len(rec)
             faulty == {i \in 1 .. n : job.faults[i].at # "none"}
             silent == {i \in faulty : job.faults[i] = [at |-> "open", n |-> 1]}
             reported == {i \in IdeResults : answer.value[i].status = "failed"}
             whole == {i \in 1 .. n : i \notin faulty}
             Unfold(g, s) == IF s = {} THEN 0
                             ELSE g[s \ {CHOOSE x \in s : TRUE}]
                                    + Len(rec[CHOOSE x \in s : TRUE].subs)
             iter == CHOOSE g : g = [s \in SUBSET whole |-> Unfold(g, s)]
  <1>1. FoldSet(LAMBDA i, k : k + Len(rec[i].subs), 0, whole) = iter[whole]
    BY DEF FoldSet, MapThenFoldSet
  <1> SUFFICES ASSUME Answered("ide"), IdeResults # {}
               PROVE  /\ faulty \ silent # {} => reported # {}
                      /\ Cardinality(IdeResults \ reported) = iter[whole]
    BY <1>1, Zenon DEF FailedChannelIsReported
  <1>2. PICK state, own : DocumentExported(state, own)
    BY DocumentExportedIs
  <1> DEFINE signals == state.results
             m == Len(signals)
  <1>3. /\ Document(rec, job.faults, job.size) /\ answer.value = signals
        /\ IdeResults = 1 .. m /\ state \in Exporting
    BY <1>2, Zenon DEF DocumentExported
  <1>4. /\ own \in [1 .. m -> 1 .. n]
        /\ \A i \in 1 .. m : IF job.faults[own[i]].at = "none"
                             THEN signals[i].status = "success"
                             ELSE signals[i].status = "failed"
        /\ \A c \in 1 .. n : job.faults[c].at = "none" =>
             Cardinality({i \in 1 .. m : own[i] = c}) = Len(rec[c].subs)
        /\ \A c \in 1 .. n : job.faults[c].at # "none" /\ job.faults[c] # Silent =>
             \E i \in 1 .. m : own[i] = c
    BY <1>2, Zenon DEF DocumentExported, Owned
  <1>5. m \in Nat /\ n \in Nat
    BY <1>3 DEF Exporting, Document
  <1>6. \A c \in 1 .. n : Len(rec[c].subs) \in Nat
    BY <1>3 DEF Document, Exportable, IdeChannel
  <1> HIDE DEF signals, m, n, rec
  <1>7. faulty \ silent # {} => reported # {}
    <2> SUFFICES ASSUME NEW c \in faulty \ silent PROVE reported # {}
      OBVIOUS
    <2>1. c \in 1 .. n /\ job.faults[c].at # "none" /\ job.faults[c] # Silent
      BY DEF Silent
    <2>2. PICK i \in 1 .. m : own[i] = c
      BY <1>4, <2>1
    <2>3. signals[i].status = "failed"
      BY <1>4, <2>1, <2>2
    <2> QED
      BY <1>3, <2>3
  <1>8. IdeResults \ reported = {i \in 1 .. m : own[i] \in whole}
    <2>1. ASSUME NEW i \in 1 .. m
          PROVE  signals[i].status # "failed" <=> own[i] \in whole
      <3>1. own[i] \in 1 .. n
        BY <1>4
      <3>2. own[i] \in whole <=> job.faults[own[i]].at = "none"
        BY <3>1
      <3> QED
        BY <1>4, <3>2
    <2> HIDE DEF whole
    <2> QED
      BY <1>3, <2>1
  <1> DEFINE w == [c \in whole |-> Len(rec[c].subs)]
  <1>9. IsFiniteSet(whole) /\ w \in [whole -> Nat]
        /\ \A c \in whole : c \in 1 .. n /\ job.faults[c].at = "none" /\ w[c] = Len(rec[c].subs)
    <2>1. whole \in SUBSET (1 .. n)
      OBVIOUS
    <2>2. \A c \in whole : c \in 1 .. n /\ job.faults[c].at = "none"
      OBVIOUS
    <2> HIDE DEF whole
    <2> QED
      BY <1>5, <1>6, <2>1, <2>2, SomeOfThem
  <1> HIDE DEF whole, w
  <1>10. PICK g \in [SUBSET whole -> Nat] : Sums(g, w, whole)
    BY <1>9, WeightsHaveSum
  <1>11. g = [s \in SUBSET whole |-> Unfold(g, s)]
    BY <1>9, <1>10 DEF Sums
  <1>12. iter = [s \in SUBSET whole |-> Unfold(iter, s)]
    BY <1>11
  <1> HIDE DEF iter
  <1>13. Sums(iter, w, whole)
    BY <1>9, <1>12 DEF Sums
  <1>14. iter[whole] = Cardinality({i \in 1 .. m : own[i] \in whole})
    <2>1. OwnersHave(w, own, whole, m)
      BY <1>4, <1>9 DEF OwnersHave
    <2>2. iter[whole] = AllHave(own, whole, m)
      BY <1>5, <1>9, <1>13, <2>1, OwnersAddUp
    <2> QED
      BY <2>2 DEF AllHave
  <1> QED
    BY <1>7, <1>8, <1>14

\* isa_export.py:252-401.  The export of a document, of any number of channels and events
\* and with any output failing, is complete or says that it is not.
THEOREM ExportedDocument == Spec => []DocumentIsExported
  <1>1. IInv => DocumentIsExported
    BY SignalsDiffer, SuccessesAreComplete, FailuresAreReported DEF DocumentIsExported
  <1> QED
    BY <1>1, AnswersInvariance, PTL
=============================================================================
