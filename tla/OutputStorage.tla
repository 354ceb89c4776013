---------------------------- MODULE OutputStorage ---------------------------
(***************************************************************************)
(* The check of the output folder before a session (src/tbdaq/storage.py): *)
(* the filesystem it is on, by /proc/self/mountinfo, and a probe written   *)
(* to it.  A path is the sequence of its names; of two mount points that   *)
(* contain a path the longer string is the deeper one.                     *)
(***************************************************************************)
EXTENDS Integers, SequencesExt

\* Filesystem types in the order of their names.
Types == <<"autofs", "ext4", "nfs", "nfs4", "tmpfs">>
Rank(type) == CHOOSE i \in 1 .. Len(Types) : Types[i] = type
Unknown == "unknown"

\* Mutant: the first line that matches.
FirstMatch(mounts, matches) == Min(matches)

\* max() of the pairs (length, type).
DeepestMatch(mounts, matches) ==
  CHOOSE i \in matches : \A j \in matches :
    \/ Len(mounts[i].point) > Len(mounts[j].point)
    \/ /\ Len(mounts[i].point) = Len(mounts[j].point)
       /\ Rank(mounts[i].type) >= Rank(mounts[j].type)

FilesystemType(path, mounts) ==
  LET matches == {i \in 1 .. Len(mounts) : IsPrefix(mounts[i].point, path)}
  IN  IF matches = {} THEN Unknown ELSE mounts[DeepestMatch(mounts, matches)].type

\* Mutant: nothing is unlinked after an error.
ProbeAbandoned(faults) ==
  [ok |-> faults = {}, left |-> "open" \notin faults /\ faults # {}]

\* _verify_writable: faults are the calls that fail.  A probe that could be
\* created is unlinked, and after an error unlinked once more.
VerifyWritable(faults) ==
  [ok |-> faults \cap {"open", "write", "unlink"} = {},
   left |-> "open" \notin faults /\ \/ {"write", "unlinkAgain"} \subseteq faults
                                    \/ {"unlink", "unlinkAgain"} \subseteq faults]

\* validate_output_storage: the free space is asked for when the probe has gone.
ValidateOutputStorage(path, isDirectory, mounts, allowLocal, faults) ==
  LET type   == FilesystemType(path, mounts)
      isNfs  == type \in {"nfs", "nfs4"}
      probe  == VerifyWritable(faults)
  IN  IF ~isDirectory \/ (~isNfs /\ ~allowLocal)
      THEN [accepted |-> FALSE, mode |-> "none", probed |-> FALSE, left |-> FALSE]
      ELSE [accepted |-> probe.ok /\ "usage" \notin faults,
            mode |-> IF isNfs THEN "nfs" ELSE "local_override", probed |-> TRUE,
            left |-> probe.left]
=============================================================================
