---------------------------- MODULE MCAlgorithms ----------------------------
EXTENDS Algorithms

SeqsUpTo(S, n) == UNION {[1 .. k -> S] : k \in 0 .. n}

\* Signals of up to 5 samples, and of 9 with long gaps; 1 to 3 buckets, so that edges
\* fall between samples and on them.
MCEnvelopeJobs ==
  {j \in [kind : {"envelope"}, values : SeqsUpTo({Gap, 0, 1, 2}, 5), maxPoints : 2 .. 5,
          short : SUBSET {1}, zeroAsGap : BOOLEAN]
         \cup [kind : {"envelope"}, values : [1 .. 9 -> {Gap, 1}], maxPoints : {6, 8},
               short : SUBSET {1, 2}, zeroAsGap : {FALSE}] :
     j.short \subseteq ExactEdges(Len(j.values), Buckets(j.maxPoints))}

\* A file that grows by any amount while up to three pages are read, and between them.
MCPreviewJobs ==
  {[kind |-> "preview", limit |-> n,
    reads |-> [i \in 1 .. 3 |-> [length |-> l[2 * i - 1], later |-> l[2 * i]]]] :
     l \in {x \in [1 .. 6 -> 0 .. 6] : \A i \in 1 .. 5 : x[i] <= x[i + 1]}, n \in 1 .. 3}

Files == [dir : {"first", "second"}, alias : {"a", "b"}]
MCSelectionJobs ==
  UNION {{[kind |-> "selection", signals |-> s, files |-> f, moved |-> m] :
            f \in SUBSET {s[i].path : i \in 1 .. Len(s)}, m \in BOOLEAN} :
           s \in SeqsUpTo({[alias |-> p.alias, status |-> t, path |-> p] :
                             p \in Files, t \in {"success", "failed"}}, 3)}

MCGatorJobs ==
  {[kind |-> "gator", csv |-> [readable |-> r, timed |-> r, columns |-> c, times |-> t],
    duration |-> d, unwritable |-> u] :
     r \in BOOLEAN, c \in {<<>>, <<1, 2>>}, t \in SeqsUpTo({1, 2, 3, 5, Invalid}, 4),
     d \in {NoWindow, 0, 2}, u \in {{}, {1}}}

\* Names that collide, and names that end in what a suffix would add.
IdeChannels ==
  {[name |-> <<1>>, subs |-> s, visible |-> v, events |-> e] :
     s \in {<< <<5>> >>, << <<5>>, <<5>> >>, << <<5, 2>>, <<5>>, <<5>> >>}, v \in BOOLEAN,
     e \in {<<>>, <<3>>, <<2, 4, 6>>}}
MCIdeJobs ==
  UNION {{[kind |-> "ide", channels |-> c, readable |-> r, faults |-> f, size |-> 2] :
            r \in BOOLEAN,
            f \in {g \in SeqsUpTo(UNION {Faults(x, 2) : x \in Range(c)}, 2) :
                     /\ Len(g) = Len(Recorded(c))
                     /\ \A i \in 1 .. Len(g) : g[i] \in Faults(Recorded(c)[i], 2)}} :
           c \in SeqsUpTo(IdeChannels, 2)}

NoScalars == [key \in ScalarKeys |-> Absent]
AsInFile == [enabled |-> Absent, timeout |-> Absent]
NoOptions == [manual |-> FALSE, untilStopped |-> FALSE, scalars |-> NoScalars,
              gator |-> AsInFile, endaq |-> AsInFile]
Sensor == [enabled |-> TRUE, timeout |-> 1, rates |-> <<1>>]
OffSensor == [enabled |-> FALSE, timeout |-> 0, rates |-> <<0>>]
BadSensors == {[Sensor EXCEPT !.timeout = t] : t \in {0, NaN, Wrong, Null}}
                \cup {[Sensor EXCEPT !.rates = <<1, r>>] : r \in {0, Null}}
File(scalars) == [readable |-> TRUE, scalars |-> scalars, gator |-> Sensor, endaq |-> Absent,
                  extra |-> {}]
Series == [mode |-> "prognostic", runCount |-> 2, duration |-> 1, period |-> 2]
Late == [policy |-> "start_late", duration |-> 5]
ValidFiles ==
  {File(s) : s \in [mode : {"diagnostic", "prognostic", Null}, runCount : {Null, 0, 1, 2, Wrong},
                    duration : {Null, 0, 1, 3, NaN, Wrong}, period : {Null, 2, NaN, Wrong},
                    tolerance : {0, Null}, policy : {"abort", "later", Wrong}]}
Options ==
  {[NoOptions EXCEPT !.manual = m, !.untilStopped = u, !.scalars[key] = v] :
     m \in BOOLEAN, u \in BOOLEAN, key \in {"runCount", "duration", "period", "tolerance"},
     v \in {Absent, 1, 2}}
SectionOptions ==
  {[NoOptions EXCEPT !.gator = g, !.endaq = e] :
     g \in {AsInFile, [enabled |-> FALSE, timeout |-> 2]},
     e \in [enabled : BOOLEAN \cup {Absent}, timeout : {Absent, 0, 2}]}
OptionalSections ==
  {[File(Series) EXCEPT !.gator = g, !.endaq = e] :
     g \in {Absent, Sensor, OffSensor}, e \in {Absent, Null, Sensor, OffSensor} \cup BadSensors}
SectionFiles ==
  {[File(Series) EXCEPT !.readable = r, !.gator = g, !.endaq = e, !.extra = x] :
     r \in BOOLEAN, g \in {Absent, Null, Wrong, Sensor, OffSensor},
     e \in {Absent, Null, Wrong, Sensor, OffSensor} \cup BadSensors,
     x \in SUBSET [section : {"top", "endaq"}, comment : BOOLEAN]}
MCConfigJobs ==
  [kind : {"config"}, file : ValidFiles, options : {NoOptions}, action : {"run"},
   end : {"success", "partial"}]
  \cup [kind : {"config"}, file : {File(Series), File(<<>>), File(Late)}, options : Options,
        action : {"run", "show-config"}, end : {"success"}]
  \cup [kind : {"config"}, file : OptionalSections, options : SectionOptions, action : {"run"},
        end : {"success"}]
  \cup [kind : {"config"}, file : SectionFiles, options : {NoOptions},
        action : {"run", "endaq-stop"},
        end : {"success", "failed", "exception", "KeyboardInterrupt"}]

MCMessageJobs ==
  {[kind |-> "messages", errors |-> e, reason |-> r, generic |-> g] :
     e \in SUBSET {"disk", "sensor"}, r \in {Null, "disk", "ended"}, g \in BOOLEAN}

Points == {<<>>, <<"mnt">>, <<"mnt", "data">>, <<"srv">>}
MCStorageJobs ==
  {[kind |-> "storage", path |-> <<"mnt", "data", "out">>, isDirectory |-> d, mounts |-> m,
    allowLocal |-> a, faults |-> f] :
     d \in BOOLEAN, m \in SeqsUpTo([point : Points, type : {"autofs", "ext4", "nfs", "tmpfs"}], 2),
     a \in BOOLEAN, f \in SUBSET {"open", "write", "unlink", "unlinkAgain", "usage"}}

Recorders == [serial : {"s1", "s2"}, model : {"m1", "m2"}, path : {"p1", "p2"}]
MCAttachJobs ==
  {[kind |-> "attach", mounted |-> <<x, y>>, config |-> c] :
     x \in {s \in SUBSET Recorders : Cardinality(s) <= 2},
     y \in {s \in SUBSET Recorders : Cardinality(s) <= 2},
     c \in [serial : {Unset, "s1"}, model : {Unset, "m1"}, path : {Unset, "p1"}]}

Channels == [switch : {"self"}, on : BOOLEAN, rate : {Unset, 1, 2}, subs : 1 .. 2]
              \cup {[switch |-> "none", on |-> TRUE, rate |-> 1, subs |-> 1]}
Requests == {<<>>} \cup [{8} -> [enabled : {Unset, TRUE, FALSE}, rate : {Unset, 2}]]
              \cup [{8, 20} -> [enabled : {TRUE}, rate : {Unset}]]
MCPrepareJobs ==
  [kind : {"prepare"}, free : {0, 100, 150, 200, 300}, clockSet : BOOLEAN,
   recorder : [channels : [{8, 80} -> Channels], timeLimit : {5}],
   config : [duration : {Unset, 3}, remountTimeout : {2}, estimate : {Unset, 10},
             minimumFree : {3}, requested : Requests, timeLimit : {Unset, 0}]]

\* Batches within and beyond the room of a poll, read too soon, in time and late.
MCWindowsJobs ==
  {[kind |-> "windows", polls |-> p, faults |-> f, kept |-> k, duration |-> 3] :
     p \in SeqsUpTo([count : {0 - 1, 0, 1, 3, 4}, clock : {3, 10, 13, 16}, writeFails : BOOLEAN], 2)
           \cup [1 .. 3 -> [count : {1, 2}, clock : {10, 12, 13, 15}, writeFails : {FALSE}]],
     f \in {{}, {"stop"}, {"flush"}, {"close"}}, k \in {0, 1, 3}}
=============================================================================
