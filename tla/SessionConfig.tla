---------------------------- MODULE SessionConfig ---------------------------
(***************************************************************************)
(* How a session is configured (src/tbdaq/config.py) and what the command  *)
(* line makes of it (src/tbdaq/__main__.py): options laid over a JSON      *)
(* file, the sections of the file, validation, and the exit status.        *)
(* Settings that only pass through, and paths, are left out; every rule    *)
(* that relates two settings is here, and one numeric setting stands for   *)
(* each section's.                                                         *)
(***************************************************************************)
EXTENDS Integers, FiniteSets, Sequences

CONSTANTS Absent,  \* a key, or an option, that is not there
          Null,    \* JSON null
          NaN,     \* json.load reads NaN as a number
          Wrong    \* a value of a type the rules cannot use

ASSUME NumbersAssumption ==
  /\ {Absent, Null, NaN, Wrong} \cap (Int \cup STRING) = {}
  /\ NaN \notin {Absent, Null, Wrong} /\ Absent \notin {Null, Wrong} /\ Null # Wrong

\* What JSON may put in the place of a number, and a section that is an object.
Numbers  == Int \cup {Null, NaN, Wrong}
Sections == [enabled : BOOLEAN, timeout : Numbers, rates : Seq(Numbers)]

ASSUME SectionsAssumption == \A value \in {Absent, Null, Wrong} : value \notin Sections

Defaults   == [mode |-> "diagnostic", runCount |-> 1, duration |-> Null, period |-> Null,
               tolerance |-> 2, policy |-> "abort"]
ScalarKeys == DOMAIN Defaults

\* A ConfigError is caught and named; any other exception leaves main.
Refused(why) == [outcome |-> why, config |-> Null]

----------------------------------------------------------------------------
(* Validation: the first rule that does not hold decides. *)

Rule(typed, holds) == [typed |-> typed, holds |-> holds]
IsNumber(v) == v \notin {Null, Wrong}

\* A comparison with NaN is false: "v <= 0" does not refuse it.
AtMost(a, b) == a # NaN /\ b # NaN /\ a <= b
Less(a, b)   == a # NaN /\ b # NaN /\ a < b

Positive(v)    == Rule(IsNumber(v), IsNumber(v) => ~AtMost(v, 0))
NonNegative(v) == Rule(IsNumber(v), IsNumber(v) => ~Less(v, 0))
Optional(v, rule) == IF v = Null THEN Rule(TRUE, TRUE) ELSE rule

\* Mutant: a period shorter than the window is let through.
PeriodUnchecked(c) == Rule(TRUE, TRUE)

PeriodHoldsWindow(c) ==
  LET compared == IsNumber(c.period) /\ IsNumber(c.duration)
  IN  Rule(compared, compared => ~Less(c.period, c.duration))

RunCountRule(c) ==
  Rule(TRUE, c.runCount = Null \/ (c.runCount \notin {NaN, Wrong} /\ c.runCount >= 1))

\* Mutant: only the duration is required before the two are compared.
DurationRequired(c) == Rule(TRUE, c.duration # Null)

WindowRequired(c) == Rule(TRUE, Null \notin {c.duration, c.period})

ModeRules(c) ==
  IF c.mode = "diagnostic" THEN <<Rule(TRUE, c.runCount = 1)>>
  ELSE <<WindowRequired(c), PeriodHoldsWindow(c)>>

\* What every session needs.  A mode and a policy are stripped first: they are strings.
SessionRules(c) ==
  << Rule({c.mode, c.policy} \cap {Null, Wrong} = {}, TRUE),
     Rule(TRUE, c.mode \in {"diagnostic", "prognostic"}),
     RunCountRule(c), Optional(c.duration, Positive(c.duration)),
     Optional(c.period, Positive(c.period)), NonNegative(c.tolerance),
     Rule(TRUE, c.policy \in {"abort", "start_late"}),
     Rule(TRUE, c.gator.enabled \/ c.endaq.enabled) >>

\* A section's own settings matter when it is enabled.
GatorRules(c) == IF c.gator.enabled THEN <<Positive(c.gator.timeout)>> ELSE <<>>
EndaqRules(c) ==
  IF c.endaq.enabled
  THEN <<Positive(c.endaq.timeout)>>
       \o [i \in 1 .. Len(c.endaq.rates) |->
             Optional(c.endaq.rates[i], Positive(c.endaq.rates[i]))]
  ELSE <<>>

\* SessionConfig.validate.
Rules(c) == SessionRules(c) \o ModeRules(c) \o GatorRules(c) \o EndaqRules(c)

Validate(c) ==
  LET broken == {i \in 1 .. Len(Rules(c)) : ~Rules(c)[i].typed \/ ~Rules(c)[i].holds}
      first  == CHOOSE i \in broken : \A j \in broken : i <= j
  IN  IF broken = {} THEN [outcome |-> "accepted", config |-> c]
      ELSE IF Rules(c)[first].typed THEN Refused("ConfigError") ELSE Refused("exception")

----------------------------------------------------------------------------
(* The file.  A file is [scalars, gator, endaq, extra]: the keys it holds, *)
(* its sections, and the unknown keys of any of its objects; a key that    *)
(* begins with "_" is a comment.                                           *)

\* _without_comments, then _reject_unknown, for each object of the file.
UnknownKeys(file) == {key \in file.extra : ~key.comment}

Given(file, key) == IF key \in DOMAIN file.scalars THEN file.scalars[key] ELSE Defaults[key]

\* A section that is null is the defaults.
Section(value) ==
  IF value \in {Null, Absent} THEN [enabled |-> FALSE, timeout |-> 30, rates |-> <<>>] ELSE value

\* session_config_from_mapping.
SessionConfigFromMapping(file) ==
  IF UnknownKeys(file) # {} \/ Wrong \in {file.gator, file.endaq} THEN Refused("ConfigError")
  ELSE Validate([mode |-> Given(file, "mode"), runCount |-> Given(file, "runCount"),
                 duration |-> Given(file, "duration"), period |-> Given(file, "period"),
                 tolerance |-> Given(file, "tolerance"), policy |-> Given(file, "policy"),
                 gator |-> Section(file.gator), endaq |-> Section(file.endaq)])

----------------------------------------------------------------------------
(* The command line. *)

\* Mutant: --manual and --run-until-stopped are options without a value.
ClearedIgnored(options) == {}

\* --manual clears the duration, --run-until-stopped the count.
Cleared(options) ==
  (IF options.manual THEN {"duration"} ELSE {})
    \cup (IF options.untilStopped THEN {"runCount"} ELSE {})

Either(option, setting) == IF option = Absent THEN setting ELSE option

\* Mutant: an option of a section does no more than enable it.
SectionSwitched(section, option) == [Section(section) EXCEPT !.enabled = Either(option.enabled, @)]

\* The options of a section: whether it is enabled, and its settings.
SectionOverride(section, option) ==
  [Section(section) EXCEPT !.enabled = Either(option.enabled, @),
                           !.timeout = Either(option.timeout, @)]

\* An option that is given replaces the setting of the file, and only that one.
Override(file, options) ==
  LET given == {key \in ScalarKeys : options.scalars[key] # Absent}
  IN  [file EXCEPT
         !.scalars = [key \in DOMAIN @ \cup given \cup Cleared(options) |->
                        IF key \in Cleared(options) THEN Null
                        ELSE IF key \in given THEN options.scalars[key] ELSE @[key]],
         !.gator = SectionOverride(@, options.gator),
         !.endaq = SectionOverride(@, options.endaq)]

\* _build_config: here a section that is null is refused.
BuildConfig(file, options) ==
  IF ~file.readable \/ {file.gator, file.endaq} \cap {Null, Wrong} # {} THEN Refused("ConfigError")
  ELSE SessionConfigFromMapping(Override(file, options))

\* Mutant: only a failed session is a failure.
FailedOnly(end) == IF end = "failed" THEN 1 ELSE 0

StatusOf(end) == IF end = "success" THEN 0 ELSE 1

\* main: the exit status.  end: how the session, or the enDAQ command, ended.
Main(built, action, end) ==
  IF built.outcome = "ConfigError" THEN 2
  ELSE IF built.outcome = "exception" THEN 1
  ELSE IF action = "show-config" THEN 0
  ELSE IF action # "run" /\ ~built.config.endaq.enabled THEN 1
  ELSE IF end = "KeyboardInterrupt" THEN 130
  ELSE IF end = "exception" THEN 1
  ELSE IF action # "run" THEN 0
  ELSE StatusOf(end)

\* Mutant: a generic reason is dropped also when it is the only one.
GenericDropped(errors, reason, generic) ==
  IF generic \/ reason = Null THEN errors ELSE errors \cup {reason}

\* _manifest_messages: the reasons shown to the operator.  An abort reason that
\* only says which run failed is dropped when the run gives its own reasons.
ShownErrors(errors, reason, generic) ==
  IF (errors # {} /\ generic) \/ reason = Null THEN errors ELSE errors \cup {reason}
=============================================================================
