---------------------------- MODULE SignalExport ----------------------------
(***************************************************************************)
(* The exporters of src/tbdaq/isa_export.py: one Gator CSV, or one enDAQ   *)
(* IDE document, split into one file per signal.  A sample is its time in  *)
(* ticks; what a file holds is the sequence of times written to it.  An    *)
(* alias is the sequence of the parts it is joined from, each a number, so *)
(* that a name which ends in "_2" is the alias a suffix would make.        *)
(***************************************************************************)
EXTENDS Selection

CONSTANTS Invalid,    \* a timestamp that is not a number
          NoWindow    \* an export without a measurement window

\* A failure that stands for a whole source; it has no file.
SourceFailed == [alias |-> <<>>, status |-> "failed", written |-> <<>>]

----------------------------------------------------------------------------
(* Aliases. *)

\* Mutant: the suffix counts the collisions and is not looked up itself.
AliasCounted(used, base) ==
  IF base \notin used THEN base ELSE Append(base, 2)

UniqueAlias(used, base) ==
  IF base \notin used THEN base
  ELSE Append(base, Min({n \in 2 .. Cardinality(used) + 2 : Append(base, n) \notin used}))

\* The aliases given to bases, one after the other.
Aliases(used, bases) ==
  FoldLeft(LAMBDA given, base : Append(given, UniqueAlias(used \cup Range(given), base)),
           <<>>, bases)

----------------------------------------------------------------------------
(* Gator: export_gator_signals. *)

\* Mutant: the first sample falls out of its own window.
AfterFirst(time, duration) == 0 < time /\ time <= duration

InWindow(time, duration) == 0 <= time /\ time <= duration

\* The samples kept, relative to the first one.
GatorSamples(times, duration) ==
  LET relative == [k \in 1 .. Len(times) |-> times[k] - times[1]]
  IN  IF duration = NoWindow THEN relative
      ELSE Kept(relative, {k \in 1 .. Len(times) : InWindow(relative[k], duration)})

\* csv: whether it can be read, its columns, whether one of them is the timestamp,
\* and the times of its rows; unwritable: the columns whose output fails.
ExportGatorSignals(csv, duration, unwritable) ==
  LET samples == GatorSamples(csv.times, duration)
      signal(column) ==
        IF column \in unwritable
        THEN [alias |-> <<column>>, status |-> "failed", written |-> <<>>]
        ELSE [alias |-> <<column>>, status |-> "success", written |-> samples]
  IN  IF \/ ~csv.readable \/ csv.times = <<>> \/ ~csv.timed
         \/ \E k \in 1 .. Len(csv.times) : csv.times[k] = Invalid
      THEN <<SourceFailed>>
      ELSE IF samples = <<>> \/ csv.columns = <<>> THEN <<SourceFailed>>
      ELSE [i \in 1 .. Len(csv.columns) |-> signal(csv.columns[i])]

----------------------------------------------------------------------------
(* enDAQ: export_endaq_ide_signals.  A channel has a name, the names of    *)
(* its subchannels, whether one of them is visible, and the times of its   *)
(* events.                                                                 *)

\* Channels with a visible subchannel that recorded something.
Recorded(channels) ==
  Kept(channels, {i \in 1 .. Len(channels) : channels[i].visible /\ channels[i].events # <<>>})

\* One origin for the whole document.
Origin(recorded) ==
  Min({recorded[i].events[1] : i \in 1 .. Len(recorded)})

\* Mutant: the last chunk is dropped when it is not full.
FullChunks(events, size) ==
  [i \in 1 .. Len(events) \div size |-> SubSeq(events, (i - 1) * size + 1, i * size)]

Chunks(events, size) ==
  [i \in 1 .. (Len(events) + size - 1) \div size |->
     SubSeq(events, (i - 1) * size + 1, Min({i * size, Len(events)}))]

\* Mutant: outputs that were complete when another one failed stay successful.
FailEmptyOnly(opened, written) ==
  [k \in 1 .. Len(opened) |->
     [alias |-> opened[k], status |-> IF written = <<>> THEN "failed" ELSE "success",
      written |-> written]]

\* Every output opened so far fails with its channel.
FailOpened(opened, written) ==
  [k \in 1 .. Len(opened) |->
     [alias |-> opened[k], status |-> "failed", written |-> written]]

\* No fault, or the output that cannot be opened, or the chunk that cannot be written.
Faults(channel, size) ==
  {[at |-> "none", n |-> 0]} \cup [at : {"open"}, n : 1 .. Len(channel.subs)]
    \cup [at : {"write"}, n : 1 .. Len(Chunks(channel.events, size))]

\* All outputs of a channel are opened before the first event is written.  An alias is
\* spent before its output is opened.
ExportChannel(used, recorded, channel, fault, size) ==
  LET bases   == [k \in 1 .. Len(channel.subs) |-> channel.name \o channel.subs[k]]
      asked   == IF fault.at = "open" THEN SubSeq(bases, 1, fault.n) ELSE bases
      aliases == Aliases(used, asked)
      opened  == IF fault.at = "open" THEN SubSeq(aliases, 1, fault.n - 1) ELSE aliases
      chunks  == Chunks(channel.events, size)
      done    == CASE fault.at = "none" -> chunks
                   [] fault.at = "open" -> <<>>
                   [] fault.at = "write" -> SubSeq(chunks, 1, fault.n - 1)
      events  == FlattenSeq(done)
      written == [k \in 1 .. Len(events) |-> events[k] - Origin(recorded)]
      success == [k \in 1 .. Len(opened) |->
                    [alias |-> opened[k], status |-> "success", written |-> written]]
  IN  [used |-> used \cup Range(aliases),
       results |-> IF fault.at = "none" THEN success ELSE FailOpened(opened, written)]

\* faults: what happens to each recorded channel; readable: whether the document can
\* be opened and its channels loaded.
ExportIdeSignals(channels, readable, faults, size) ==
  LET recorded == Recorded(channels)
      export == FoldLeft(
        LAMBDA state, i :
          LET one == ExportChannel(state.used, recorded, recorded[i], faults[i], size)
          IN  [used |-> one.used, results |-> state.results \o one.results],
        [used |-> {}, results |-> <<>>],
        [i \in 1 .. Len(recorded) |-> i])
  IN  IF ~readable \/ recorded = <<>> THEN <<SourceFailed>> ELSE export.results
=============================================================================
