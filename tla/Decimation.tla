----------------------------- MODULE Decimation -----------------------------
(***************************************************************************)
(* How a recorded signal is made small enough to look at: the envelope of  *)
(* the offline plot (src/tbdaq/plotting.py), with the files it is drawn    *)
(* from, and the pages of the data portal (src/tbdaq/portal.py).  A sample *)
(* is its value.                                                           *)
(***************************************************************************)
EXTENDS Selection

CONSTANT Gap  \* a cell that holds no finite number

----------------------------------------------------------------------------
(* The envelope of the offline plot. *)

\* Mutant: every bucket is as wide as the quotient, and the rest is dropped.
EdgeOfQuotient(count, buckets, short, i) == i * (count \div buckets)

\* np.linspace of integers: the floor of a float product, which may fall just
\* short of an exact quotient ("short": the edges where it does).
Edge(count, buckets, short, i) ==
  (i * count) \div buckets - IF i \in short THEN 1 ELSE 0

ExactEdges(count, buckets) == {i \in 1 .. buckets - 1 : (i * count) % buckets = 0}

Buckets(maxPoints) == Max({1, maxPoints \div 2})

Lowest(values, S) == Min({k \in S : \A j \in S : values[k] <= values[j]})
Highest(values, S) == Min({k \in S : \A j \in S : values[k] >= values[j]})

\* Mutant: the minimum first.
MinimumFirst(low, high) == IF low = high THEN <<low>> ELSE <<low, high>>

InTimeOrder(low, high) == IF low = high THEN <<low>> ELSE <<Min({low, high}), Max({low, high})>>

\* Mutant: a bucket without a number is left out, and the line drawn over it.
NothingDrawn(start) == <<>>

DrawnGap(start) == <<start + 1>>

\* The samples a bucket keeps: its minimum and its maximum in time order, or its
\* first sample when it holds no number.
BucketPoints(values, start, stop) ==
  LET finite == {k \in start + 1 .. stop : values[k] # Gap}
  IN  IF stop <= start THEN <<>>
      ELSE IF finite = {} THEN DrawnGap(start)
      ELSE InTimeOrder(Lowest(values, finite), Highest(values, finite))

\* The indices of the samples that are drawn.
DownsampleEnvelope(values, maxPoints, short) ==
  LET count == Len(values)
      edge(i) == Edge(count, Buckets(maxPoints), short, i)
  IN  IF count <= maxPoints THEN [k \in 1 .. count |-> k]
      ELSE FlattenSeq([i \in 1 .. Buckets(maxPoints) |->
                         BucketPoints(values, edge(i - 1), edge(i))])

\* Gator zeros are drawn as gaps on request: a sensor that was not detected.
ZeroAsGap(values) == [k \in 1 .. Len(values) |-> IF values[k] = 0 THEN Gap ELSE values[k]]

----------------------------------------------------------------------------
(* The portal: a page of rows.  A session that still records may append to *)
(* the file while it is read: "length" rows are there when the page is     *)
(* taken, "later" when the reader looks for one more.                      *)

\* The rows from an offset, and whether a row followed them.
RowsFrom(length, offset, limit) ==
  [k \in 1 .. Max({0, Min({limit, length - offset})}) |-> offset + k]

\* Mutant: a page promises another one when nothing follows it.
PageOffByOne(length, later, offset, limit) ==
  [rows |-> RowsFrom(length, offset, limit), hasMore |-> later >= Min({length, offset + limit})]

\* The look ahead goes on where the page stopped: after its last row, or at the end of
\* a file that had no more.
CsvPreview(length, later, offset, limit) ==
  [rows |-> RowsFrom(length, offset, limit), hasMore |-> later > Min({length, offset + limit})]

----------------------------------------------------------------------------
(* Which files a plot is drawn from. *)

\* Mutant: a signal whose export failed is drawn too.
AnySignal(signals) == 1 .. Len(signals)

SuccessfulSignals(signals) == {i \in 1 .. Len(signals) : signals[i].status = "success"}

\* _manifest_signals: the file the manifest names or, when that is not there or the
\* session has been moved, some file of the run's folder with the signal's name; a signal
\* without a file is left out.  The result is every selection the code can make.
ManifestSignals(signals, files, moved) ==
  LET candidates(s) == IF ~moved /\ s.path \in files THEN {s.path}
                       ELSE {file \in files : file.alias = s.alias}
      drawn == Kept(signals, {i \in SuccessfulSignals(signals) : candidates(signals[i]) # {}})
  IN  {selection \in [1 .. Len(drawn) -> files] :
         \A i \in 1 .. Len(drawn) : selection[i] \in candidates(drawn[i])}
=============================================================================
