---------------------------- MODULE SecurityCoverage ----------------------------
(***************************************************************************)
(* The coverage mapping of sentrdel-coverage-mapping.ts (T05): what each   *)
(* requested capability's run has to say of the units it was given, and    *)
(* the report derived from it.                                             *)
(*                                                                         *)
(* A unit is [state, parser, evidence], a loss [scope, reason, detail] with*)
(* scope a unit or "capability", and a run                                 *)
(*   [capability, exec, units, losses, limits]                             *)
(* with units a function from the unit's name.                             *)
(***************************************************************************)
EXTENDS SecurityRecords

UnitState == {"COVERED", "PARTIALLY_COVERED", "UNSUPPORTED", "UNSCANNED", "UNKNOWN"}

UnitSound(u) ==
  /\ u.state \in UnitState
  /\ u.state = "COVERED" => u.parser # "PARSER_UNSUPPORTED" /\ u.evidence # "EVIDENCE_MISSING"
  /\ u.state = "UNSUPPORTED" => u.parser # "PARSER_SUPPORTED"
  /\ u.state \in {"UNKNOWN", "UNSCANNED", "UNSUPPORTED"} => u.evidence # "EVIDENCE_PRODUCED"

UnitsSound(r) == \A u \in DOMAIN r.units : UnitSound(r.units[u])

UnitsIn(r, state) == {u \in DOMAIN r.units : r.units[u].state = state}

Producing(r) == {u \in DOMAIN r.units : r.units[u].evidence = "EVIDENCE_PRODUCED"}

\* A run that produced nothing says so, and nothing else, of the whole capability.
AbsenceSaid(r) ==
  r.exec \in NonProducing =>
    /\ \E l \in r.losses : l.reason = LossOf[r.exec]
    /\ \A l \in r.losses : l.scope = "capability" => l.reason = LossOf[r.exec]
    /\ UnitsIn(r, "COVERED") = {} /\ Producing(r) = {}

LossesSound(r) ==
  /\ \A l, m \in r.losses : l.scope = m.scope /\ l.reason = m.reason => l = m
  /\ \A l \in r.losses :
       /\ l.scope \in {"capability"} \cup DOMAIN r.units
       /\ l.scope # "capability" => TokenOf[l.reason] \in Declares(r.capability) \cup {Null}

\* A unit that is not covered has a reason; unknown is its own.
GapsExplained(r) ==
  (\E l \in r.losses : l.scope = "capability")
  \/ \A u \in DOMAIN r.units : \/ r.units[u].state \in {"COVERED", "UNKNOWN"}
                               \/ \E l \in r.losses : l.scope = u

RunAdmitted(r) ==
  /\ UnitsSound(r) /\ AbsenceSaid(r) /\ LossesSound(r) /\ GapsExplained(r) /\ r.limits # {}

\* requested: the capabilities asked for; runs: what was run, one run of a capability.
CoverageAdmitted(requested, runs) ==
  /\ requested \subseteq Capability
  /\ \A r \in runs : r.capability \in requested /\ RunAdmitted(r)
  /\ \A r, s \in runs : r.capability = s.capability => r = s

-----------------------------------------------------------------------------
(* The report.                                                              *)

\* Mutated form: only what was not scanned keeps a capability from being covered.
StateBarUnsupported(r) ==
  IF DOMAIN r.units = {} THEN "NOT_COVERED"
  ELSE IF UnitsIn(r, "UNKNOWN") # {} THEN "UNKNOWN"
  ELSE IF UnitsIn(r, "UNSCANNED") # {} THEN "NOT_COVERED"
  ELSE IF UnitsIn(r, "PARTIALLY_COVERED") # {} THEN "PARTIALLY_COVERED"
  ELSE "COVERED_WITHIN_STATED_SCOPE"

CoverageState(r) ==
  IF DOMAIN r.units = {} THEN "NOT_COVERED"
  ELSE IF UnitsIn(r, "UNKNOWN") # {} THEN "UNKNOWN"
  ELSE IF UnitsIn(r, "UNSCANNED") \cup UnitsIn(r, "UNSUPPORTED") # {} THEN "NOT_COVERED"
  ELSE IF UnitsIn(r, "PARTIALLY_COVERED") # {} THEN "PARTIALLY_COVERED"
  ELSE "COVERED_WITHIN_STATED_SCOPE"

UnknownReasons(r) ==
  UNION {{l.reason} \cup ({TokenOf[l.reason]} \ {Null}) : l \in r.losses}

Aggregate(states) ==
  IF states = {} THEN "NOT_COVERED"
  ELSE IF "UNKNOWN" \in states THEN "UNKNOWN"
  ELSE IF "NOT_COVERED" \in states THEN "NOT_COVERED"
  ELSE IF "PARTIALLY_COVERED" \in states THEN "PARTIALLY_COVERED"
  ELSE "COVERED_WITHIN_STATED_SCOPE"

Effects(runs) ==
  LET states == {r.exec : r \in runs}
  IN [mismatch |-> "VERSION_MISMATCH" \in states,
      denied |-> "DENIED_BY_POLICY" \in states,
      unavailable |-> states \cap {"UNAVAILABLE", "NOT_RUN", "NOT_QUALIFIED", "ENGINE_ERROR"} # {}]

CoverageOf(r) ==
  [capability |-> r.capability, exec |-> r.exec, executed |-> r.exec = "EXECUTED",
   state |-> CoverageState(r),
   units |-> r.units, losses |-> r.losses, reasons |-> UnknownReasons(r), limits |-> r.limits,
   full |-> r.exec = "EXECUTED" /\ CoverageState(r) = "COVERED_WITHIN_STATED_SCOPE"]

\* A capability that was requested and has no run is only among the requested.
CoverageReport(requested, runs) ==
  [requested |-> requested,
   executed |-> {r.capability : r \in {s \in runs : s.exec = "EXECUTED"}},
   notExecuted |-> {r.capability : r \in {s \in runs : s.exec # "EXECUTED"}},
   coverage |-> {CoverageOf(r) : r \in runs},
   reasons |-> UNION {UnknownReasons(r) : r \in runs},
   effects |-> Effects(runs),
   aggregate |-> Aggregate({CoverageState(r) : r \in runs})]

-----------------------------------------------------------------------------
(* What a consumer asserts again of the report.                             *)

CapabilityInvariants(c) ==
  /\ c.state = "COVERED_WITHIN_STATED_SCOPE" =>
       c.executed /\ UnitsIn(c, "UNSCANNED") \cup UnitsIn(c, "UNKNOWN") = {}
  /\ c.full => UnitsIn(c, "UNSCANNED") \cup UnitsIn(c, "UNKNOWN") = {}
  /\ c.state = "NOT_COVERED" => c.losses # {}
  /\ ~c.executed => Producing(c) = {}
  /\ c.limits # {}

AggregateInvariants(report) ==
  LET states == {c.state : c \in report.coverage}
  IN /\ "UNKNOWN" \in states => report.aggregate = "UNKNOWN"
     /\ "NOT_COVERED" \in states \/ report.notExecuted # {} =>
          report.aggregate # "COVERED_WITHIN_STATED_SCOPE"

CoverageInvariants(report) ==
  /\ \A c \in report.coverage : CapabilityInvariants(c) /\ c.reasons \subseteq report.reasons
  /\ AggregateInvariants(report)
==============================================================================
