----------------------------- MODULE EndaqSetup -----------------------------
(***************************************************************************)
(* How the enDAQ adapter prepares a recorder (src/tbdaq/adapters/endaq.py):*)
(* which of the mounted recorders it takes, the settings it writes to it   *)
(* and the free space it asks for.  Its runs are in EndaqAdapter.tla.      *)
(***************************************************************************)
EXTENDS Integers, SequencesExt

CONSTANTS Unset,     \* a setting the configuration omits
          FloorRate  \* the least estimate, one MiB per second

ASSUME SetupAssumption == FloorRate \in Nat

----------------------------------------------------------------------------
(* The recorder. *)

\* Mutant: the recorder's model is compared and its serial number is not.
ByModel(devices, config) ==
  {d \in devices : config.model = Unset \/ d.model = config.model}

FilterDevices(devices, config) ==
  {d \in devices : /\ config.serial = Unset \/ d.serial = config.serial
                   /\ config.model = Unset \/ d.model = config.model}

\* _discover_mounted, and _refresh_mounted_device before each start: the one
\* recorder that fits, whichever it is.
Attached(mounted, config) ==
  LET devices == FilterDevices({d \in mounted : config.path = Unset \/ d.path = config.path}, config)
  IN  IF Cardinality(devices) = 1 THEN CHOOSE d \in devices : TRUE ELSE Unset

----------------------------------------------------------------------------
(* Settings.  A channel has its switch ("self", or "children" when only    *)
(* they can be switched, or "none"), its state, rate and subchannels.      *)

Enable(channel, enabled) ==
  IF enabled = Unset THEN channel ELSE [channel EXCEPT !.on = enabled]

SetRate(channel, rate) == IF rate = Unset THEN channel ELSE [channel EXCEPT !.rate = rate]

\* Zero clears a limit and an omitted one is preserved.
Limit(old, value) == IF value = Unset THEN old ELSE value

\* A request that cannot be met raises before anything is applied.
Impossible(recorder, requested) ==
  \E id \in DOMAIN requested :
    \/ id \notin DOMAIN recorder.channels
    \/ requested[id].enabled # Unset /\ recorder.channels[id].switch = "none"
    \/ requested[id].rate # Unset /\ recorder.channels[id].rate = Unset

\* _apply_requested_configuration: what the recorder holds afterwards.
ApplyRequestedConfiguration(recorder, requested, timeLimit) ==
  [channels |-> [id \in DOMAIN recorder.channels |->
                   IF id \in DOMAIN requested
                   THEN SetRate(Enable(recorder.channels[id], requested[id].enabled),
                                requested[id].rate)
                   ELSE recorder.channels[id]],
   timeLimit |-> Limit(recorder.timeLimit, timeLimit)]

----------------------------------------------------------------------------
(* Free space. *)

\* Bytes per second of the enabled channels whose rate can be read.
Total(recorder) ==
  FoldSet(LAMBDA id, sum : sum + recorder.channels[id].rate * recorder.channels[id].subs * 8, 0,
          {id \in DOMAIN recorder.channels :
             recorder.channels[id].on /\ recorder.channels[id].rate # Unset})

\* A quarter more, at least FloorRate; a configured estimate is taken as it is.
EstimateBytesPerSecond(recorder, configured) ==
  IF configured # Unset THEN configured ELSE Max({FloorRate, (Total(recorder) * 5) \div 4})

\* Mutant: the time the recorder goes on until it is stopped is not counted.
WindowOnly(config) == config.duration

WorstCase(config) == config.duration + config.remountTimeout

\* _check_storage_capacity: a manual run asks for the minimum alone.
RequiredBytes(recorder, config) ==
  config.minimumFree
    + IF config.duration = Unset THEN 0
      ELSE EstimateBytesPerSecond(recorder, config.estimate) * WorstCase(config)

CapacityChecked(recorder, config, free) == free >= RequiredBytes(recorder, config)

\* discover, with a recorder attached: settings, space, clock.  A check that fails leaves
\* the settings that were applied before it.
Discover(recorder, config, free, clockSet) ==
  LET prepared == ApplyRequestedConfiguration(recorder, config.requested, config.timeLimit)
  IN  IF Impossible(recorder, config.requested) THEN [error |-> TRUE, recorder |-> recorder]
      ELSE [error |-> ~(CapacityChecked(prepared, config, free) /\ clockSet),
            recorder |-> prepared]
=============================================================================
