----------------------------- MODULE SecurityRecords -----------------------------
(***************************************************************************)
(* The records of src/src/assurance/security: what an outside engine must  *)
(* say of one result for it to be admitted as a structural, secret or      *)
(* dependency observation (the normalizers), and what a later boundary     *)
(* asserts again of the record it is given (the invariant gates).          *)
(*                                                                         *)
(* An input is one record for the four boundaries; a field a boundary does *)
(* not read keeps its value in Base.  The fields whose only rule is a      *)
(* fixed value or shape (keys, pins, identifiers, digests, effects) are    *)
(* one Boolean, `intact', and the texts are `text', the worst thing any of *)
(* them holds, and `limits', the limitations, each the set of its clauses. *)
(***************************************************************************)
EXTENDS FiniteSets, Integers, Sequences

CONSTANTS
  Revision,   \* revisions of the source
  Path,       \* paths of the repository
  Foreign,    \* the paths whose extension no structural rule reads
  Rule,       \* rule identities
  Null

ASSUME RecordsAssumption == Foreign \subseteq Path /\ Null \notin Path \cup Rule

-----------------------------------------------------------------------------
(* The vocabularies.                                                        *)

NonProducing == {"UNAVAILABLE", "NOT_QUALIFIED", "VERSION_MISMATCH", "DENIED_BY_POLICY",
                 "NOT_RUN", "INCOMPLETE", "TIMEOUT", "MALFORMED_OUTPUT", "ENGINE_ERROR"}

Execution == NonProducing \cup {"AVAILABLE", "EXECUTED"}

\* The loss a state that produced nothing has to declare.
LossOf ==
  [UNAVAILABLE |-> "ENGINE_UNAVAILABLE", NOT_RUN |-> "ENGINE_UNAVAILABLE",
   INCOMPLETE |-> "ENGINE_UNAVAILABLE", NOT_QUALIFIED |-> "ENGINE_NOT_QUALIFIED",
   VERSION_MISMATCH |-> "VERSION_MISMATCH", DENIED_BY_POLICY |-> "POLICY_DENIED",
   TIMEOUT |-> "TIMEOUT", MALFORMED_OUTPUT |-> "MALFORMED_OUTPUT",
   ENGINE_ERROR |-> "PARSER_FAILURE"]

\* The capability's own word for a loss, if it has one.
TokenOf ==
  [UNSUPPORTED_LANGUAGE |-> "PARSER_UNSUPPORTED", UNSCANNED_PATH |-> Null,
   UNSUPPORTED_MANIFEST |-> "MANIFEST_UNSUPPORTED", ENGINE_NOT_QUALIFIED |-> Null,
   ENGINE_UNAVAILABLE |-> "ANALYZER_UNAVAILABLE", VERSION_MISMATCH |-> "VERSION_MISMATCH",
   POLICY_DENIED |-> "PERMISSION_DENIED", TIMEOUT |-> "TIMEOUT",
   MALFORMED_OUTPUT |-> "MALFORMED_OUTPUT", PARSER_FAILURE |-> Null,
   UNKNOWN_REACHABILITY |-> "REACHABILITY_NOT_COMPUTED",
   STALE_ADVISORY_STATE |-> "ADVISORY_STALE_UNAVAILABLE"]

\* The tokens the pinned capabilities declare.
Common == {"FILE_SKIPPED_OVERSIZE", "PERMISSION_DENIED", "TIMEOUT", "VERSION_MISMATCH"}

SourceTokens ==
  [c \in {"config-inspection", "github-actions", "sast-structural", "secrets-changed"} |->
     CASE c = "config-inspection" -> Common \cup {"MANIFEST_UNSUPPORTED", "PARSER_UNSUPPORTED"}
       [] c = "secrets-changed" -> Common
       [] OTHER -> Common \cup {"PARSER_UNSUPPORTED"}]

BoundaryTokens ==
  [c \in {"mcp-boundary", "process-boundary", "reproducibility-proof"} |->
     CASE c = "mcp-boundary" -> {"ANALYZER_UNAVAILABLE", "PERMISSION_DENIED", "TIMEOUT",
                                 "VERSION_MISMATCH"}
       [] c = "process-boundary" -> {"ANALYZER_UNAVAILABLE", "MALFORMED_OUTPUT",
                                     "PERMISSION_DENIED", "TIMEOUT", "VERSION_MISMATCH"}
       [] OTHER -> {"INCOMPLETE_GRAPH", "VERSION_MISMATCH"}]

DependencyTokens ==
  {"ADVISORY_STALE_UNAVAILABLE", "ANALYZER_UNAVAILABLE", "FILE_SKIPPED_OVERSIZE",
   "INCOMPLETE_GRAPH", "MANIFEST_UNSUPPORTED", "REACHABILITY_NOT_COMPUTED", "TIMEOUT",
   "VERSION_MISMATCH"}

UncharacterizedTokens ==
  [c \in {"iac-generic", "sbom"} |->
     IF c = "sbom" THEN {"ANALYZER_UNAVAILABLE", "MANIFEST_UNSUPPORTED"}
                   ELSE {"MANIFEST_UNSUPPORTED", "PARSER_UNSUPPORTED"}]

Declares(c) ==
  IF c \in DOMAIN SourceTokens THEN SourceTokens[c]
  ELSE IF c \in DOMAIN BoundaryTokens THEN BoundaryTokens[c]
  ELSE IF c = "dependency-delta" THEN DependencyTokens ELSE UncharacterizedTokens[c]

\* Only a characterized capability may be asked for; the other two are gaps.
Admitted == DOMAIN SourceTokens \cup DOMAIN BoundaryTokens \cup {"dependency-delta"}
Capability == Admitted \cup DOMAIN UncharacterizedTokens

-----------------------------------------------------------------------------
(* The authority of one request to the engine (the adapter).                *)

\* The request is checked first, then what the engine lacks, then what policy denies.
AuthorityDecision(intact, qualified, permitted) ==
  IF ~intact THEN "DENIED_BY_POLICY"
  ELSE IF ~qualified THEN "NOT_QUALIFIED"
  ELSE IF ~permitted THEN "DENIED_BY_POLICY" ELSE "AVAILABLE"

RequestIntact(sound, capabilities) ==
  sound /\ capabilities # {} /\ Cardinality(capabilities) <= 10 /\ capabilities \subseteq Admitted

ResponseIntact(sound, capability, exec) == sound /\ capability \in Admitted /\ exec \in Execution

\* An engine that is not the pinned one does not run, nor one that is missing.
EngineState(decision, installed, pinned) ==
  IF decision # "AVAILABLE" THEN decision
  ELSE IF ~installed THEN "NOT_RUN" ELSE IF ~pinned THEN "VERSION_MISMATCH" ELSE "AVAILABLE"

-----------------------------------------------------------------------------
(* What every boundary asks of an input.                                    *)

Resolution(i) ==
  IF i.path = Null THEN "ABSENT" ELSE IF i.start > 0 /\ i.end > 0 THEN "PRESENT" ELSE "PARTIAL"

Ordered(i) == ~(i.start > 0 /\ i.end > 0 /\ i.end < i.start)

\* The state COMPLETE is only said with the producer, its version and its collector.
ProvenanceSound(i) == i.prov = "COMPLETE" => i.produced

Resolvable(i) == i.prov \notin {"ABSENT", "UNRESOLVED"}

CompleteHasNoGap(i) ==
  i.cov = "COMPLETE_WITHIN_STATED_SCOPE" => i.unknowns = {} /\ i.losses = {}

UnknownIsNamed(i) == i.cov = "UNKNOWN" => i.unknowns # {}

\* Only an engine that ran reports that a rule matched, or that it did not.
MatchIsExecuted(i) == i.exec = "EXECUTED" \/ i.match = "UNKNOWN"

AbsenceDeclared(i) == i.exec \in NonProducing => LossOf[i.exec] \in i.losses

MatchIsPlaced(i) ==
  i.match = "MATCHED" => /\ i.rule # Null /\ i.path # Null /\ i.start > 0
                         /\ i.cov # "UNSCANNED" /\ i.agg # "NOT_COVERED"

\* A limitation is a set of clauses, each of which claims more than was seen, denies that
\* in prose, or neither.  What follows a symbolic denial is denied; what comes before it
\* is still a claim.
Clause == {"plain", "denied", "claim"}

Promoted(limits) == \E l \in limits : "claim" \in l

-----------------------------------------------------------------------------
(* Outside evidence, the first boundary (T04).                              *)

RuleClasses == {"STRUCTURAL", "SECRET", "CONFIG"}

EvidenceBound(i) == i.intact /\ i.capability \in Admitted /\ i.exec \in Execution

EvidenceScoped(i) ==
  /\ i.unknowns \subseteq Declares(i.capability)
  /\ i.cov = "COMPLETE_WITHIN_STATED_SCOPE" => i.unknowns = {} /\ i.unscanned = {}
  /\ UnknownIsNamed(i)
  /\ i.cov = "UNSCANNED" => i.unscanned # {}

EvidenceAttributed(i) ==
  /\ ProvenanceSound(i)
  /\ i.class \in RuleClasses => Resolvable(i) /\ i.rule # Null

EvidenceAdmitted(i) ==
  /\ EvidenceBound(i) /\ Ordered(i) /\ EvidenceScoped(i) /\ EvidenceAttributed(i)
  /\ i.text \notin {"secret", "attesting"}

\* Neither what was covered nor what is unknown is part of who a record is.
EvidenceId(i) ==
  <<i.attempt, i.class, i.head, i.capability, i.rule, i.path, i.start, i.end, i.digest>>

Evidence(i) ==
  [id |-> EvidenceId(i), class |-> i.class, head |-> i.head, attempt |-> i.attempt,
   capability |-> i.capability, exec |-> i.exec, rule |-> i.rule, path |-> i.path,
   start |-> i.start, end |-> i.end, resolution |-> Resolution(i), cov |-> i.cov,
   unknowns |-> i.unknowns, limits |-> i.limits, reproduction |-> i.reproduction, digest |-> i.digest]

EvidenceInvariants(o) == (o.cov = "PARTIAL" => o.unknowns # {}) /\ o.limits # {}

-----------------------------------------------------------------------------
(* Structural observations (T06).                                           *)

Language(path) ==
  IF path = Null THEN "INDETERMINATE" ELSE IF path \in Foreign THEN "UNSUPPORTED" ELSE "SUPPORTED"

\* A rule that did not match did not match somewhere that was scanned.
MissIsScanned(i) == i.match = "NOT_MATCHED" => i.cov # "UNSCANNED"

SastAttributed(i) == i.rule # Null /\ Ordered(i) /\ ProvenanceSound(i) /\ Resolvable(i)

SastConsistent(i) ==
  /\ MatchIsPlaced(i) /\ MissIsScanned(i) /\ CompleteHasNoGap(i) /\ UnknownIsNamed(i)
  /\ MatchIsExecuted(i) /\ AbsenceDeclared(i)
  /\ i.match = "MATCHED" => Language(i.path) # "UNSUPPORTED"

SastAdmitted(i) ==
  /\ i.intact /\ i.limits # {} /\ i.text \notin {"secret", "attesting"}
  /\ SastAttributed(i) /\ SastConsistent(i)

SastId(i) == <<i.attempt, i.head, i.rule, i.path, i.start, i.end, i.digest>>

Sast(i) ==
  [id |-> SastId(i), exec |-> i.exec, match |-> i.match, rule |-> i.rule, path |-> i.path,
   start |-> i.start, resolution |-> Resolution(i), language |-> Language(i.path),
   prov |-> i.prov, produced |-> i.produced, cov |-> i.cov, agg |-> i.agg,
   unknowns |-> i.unknowns, losses |-> i.losses, limits |-> i.limits]

SastPlaced(o) ==
  /\ o.match = "MATCHED" => o.path # Null /\ o.start > 0 /\ o.language # "UNSUPPORTED"
  /\ o.exec # "EXECUTED" => o.match = "UNKNOWN"

SastInvariants(o) ==
  /\ o.limits # {} /\ SastPlaced(o)
  /\ o.prov = "COMPLETE" => o.produced
  /\ o.prov \notin {"ABSENT", "UNRESOLVED"}

\* A T04 record a structural observation may rest on.
SastCompatible(o) ==
  /\ o.class = "STRUCTURAL" /\ o.capability = "sast-structural" /\ o.rule # Null
  /\ EvidenceInvariants(o)

-----------------------------------------------------------------------------
(* Secret shapes (T07).                                                     *)

\* UNCLASSIFIED is what a shape without a class is called, and is not supplied; the
\* redacted digest is of something else than the evidence.
SecretBound(i) == i.intact /\ i.secret # "UNCLASSIFIED" /\ i.redacted # i.digest

SecretAttributed(i) == i.rule # Null /\ Ordered(i) /\ ProvenanceSound(i) /\ Resolvable(i)

SecretConsistent(i) ==
  /\ MatchIsPlaced(i) /\ MissIsScanned(i) /\ CompleteHasNoGap(i) /\ UnknownIsNamed(i)
  /\ MatchIsExecuted(i) /\ AbsenceDeclared(i)

SecretAdmitted(i) ==
  /\ SecretBound(i) /\ SecretAttributed(i) /\ i.limits # {} /\ SecretConsistent(i)
  /\ i.text = "plain"

SecretId(i) == <<i.attempt, i.head, i.rule, i.path, i.start, i.end, i.secret, i.redacted>>

\* The value seen has no field: only its class and digests.
Secret(i) ==
  [id |-> SecretId(i), exec |-> i.exec, match |-> i.match, rule |-> i.rule, path |-> i.path,
   start |-> i.start, resolution |-> Resolution(i), secret |-> i.secret,
   redacted |-> i.redacted, prov |-> i.prov, produced |-> i.produced, cov |-> i.cov,
   agg |-> i.agg, unknowns |-> i.unknowns, losses |-> i.losses, limits |-> i.limits]

SecretPlaced(o) ==
  /\ o.match = "MATCHED" => o.path # Null /\ o.start > 0 /\ o.cov # "UNSCANNED"
  /\ o.exec # "EXECUTED" => o.match = "UNKNOWN"

SecretInvariants(o) ==
  /\ o.limits # {} /\ SecretPlaced(o)
  /\ o.prov = "COMPLETE" => o.produced
  /\ o.prov \notin {"ABSENT", "UNRESOLVED"}

SecretCompatible(o) ==
  /\ o.class = "SECRET" /\ o.capability = "secrets-changed" /\ o.rule # Null
  /\ EvidenceInvariants(o)

\* A label used for an effect: it names something under the root and never climbs out
\* on the way there.  A label is the sequence of its segments.
Contained(label) ==
  LET depth[n \in 0..Len(label)] ==
        IF n = 0 THEN 0
        ELSE IF depth[n - 1] < 0 THEN -1
        ELSE CASE label[n] = ".." -> depth[n - 1] - 1
               [] label[n] = "." -> depth[n - 1]
               [] OTHER -> depth[n - 1] + 1
  IN depth[Len(label)] > 0

-----------------------------------------------------------------------------
(* Dependency deltas (T08).                                                 *)

\* The pinned lockfile of the ecosystem, an exact version, and a bounded name.
ScaBound(i) == i.intact /\ i.lockfile

ScaAttributed(i) == ProvenanceSound(i)

\* Mutated form: only the loss of a stale corpus is asked for.
FreshnessOfLosses(i) ==
  /\ i.fresh = "CONFIRMED" => /\ "STALE_ADVISORY_STATE" \notin i.losses
                              /\ "ADVISORY_STALE_UNAVAILABLE" \notin i.unknowns
  /\ i.fresh = "STALE" => "STALE_ADVISORY_STATE" \in i.losses
  /\ i.fresh \in {"UNAVAILABLE", "UNKNOWN"} =>
       i.losses \cap {"STALE_ADVISORY_STATE", "ENGINE_UNAVAILABLE"} # {}

\* What is not confirmed to be fresh says so twice, and what is confirmed never does.
FreshnessSaid(i) ==
  /\ i.fresh # "CONFIRMED" => "ADVISORY_STALE_UNAVAILABLE" \in i.unknowns
  /\ i.fresh = "CONFIRMED" => /\ "STALE_ADVISORY_STATE" \notin i.losses
                              /\ "ADVISORY_STALE_UNAVAILABLE" \notin i.unknowns
  /\ i.fresh = "STALE" => "STALE_ADVISORY_STATE" \in i.losses
  /\ i.fresh \in {"UNAVAILABLE", "UNKNOWN"} =>
       i.losses \cap {"STALE_ADVISORY_STATE", "ENGINE_UNAVAILABLE"} # {}

AdvisoryMatched(i) ==
  /\ i.match = "MATCHED" <=> i.advisory # Null
  /\ i.match = "MATCHED" => i.cov # "UNSCANNED" /\ i.agg # "NOT_COVERED"
  /\ i.match = "UNKNOWN" => i.unknowns # {}

\* A covered aggregate is refused with unknowns, and refused without.
NeverCovered(i) ==
  i.agg = "COVERED_WITHIN_STATED_SCOPE" =>
    /\ i.match # "NOT_MATCHED" /\ i.cov = "COMPLETE_WITHIN_STATED_SCOPE"
    /\ i.unknowns = {} /\ i.unknowns # {}

ReachabilitySaid(i) ==
  "REACHABILITY_NOT_COMPUTED" \in i.unknowns /\ "UNKNOWN_REACHABILITY" \in i.losses

ScaConsistent(i) ==
  CompleteHasNoGap(i) /\ UnknownIsNamed(i) /\ MatchIsExecuted(i) /\ AbsenceDeclared(i)

ScaAdmitted(i) ==
  /\ ScaBound(i) /\ ScaAttributed(i) /\ i.limits # {}
  /\ FreshnessSaid(i) /\ AdvisoryMatched(i) /\ NeverCovered(i) /\ ReachabilitySaid(i)
  /\ ScaConsistent(i) /\ i.text = "plain"

ScaId(i) == <<i.attempt, i.head, i.path, i.advisory, i.fresh, i.match, i.rule, i.digest>>

EffectiveAggregate(agg, unknowns) ==
  IF agg = "COVERED_WITHIN_STATED_SCOPE" /\ unknowns # {} THEN "PARTIALLY_COVERED" ELSE agg

\* The boundary's own limitations, which name claims only to deny them.
Frozen == {"denied"}

Sca(i) ==
  [id |-> ScaId(i), exec |-> i.exec, match |-> i.match, rule |-> i.rule, fresh |-> i.fresh,
   advisory |-> i.advisory, prov |-> i.prov, produced |-> i.produced, cov |-> i.cov,
   agg |-> EffectiveAggregate(i.agg, i.unknowns), unknowns |-> i.unknowns,
   losses |-> i.losses, limits |-> i.limits \cup {Frozen},
   promoted |-> Promoted(i.limits \ {Frozen})]

ScaFresh(o) == o.fresh # "CONFIRMED" => "ADVISORY_STALE_UNAVAILABLE" \in o.unknowns

ScaDelta(o) ==
  /\ o.agg = "COVERED_WITHIN_STATED_SCOPE" =>
       o.unknowns = {} /\ o.cov = "COMPLETE_WITHIN_STATED_SCOPE"
  /\ "REACHABILITY_NOT_COMPUTED" \in o.unknowns /\ "UNKNOWN_REACHABILITY" \in o.losses

ScaText(o) ==
  /\ o.prov = "COMPLETE" => o.produced
  /\ o.promoted = Promoted(o.limits \ {Frozen})
  /\ Frozen \in o.limits

ScaInvariants(o) ==
  /\ ScaFresh(o) /\ ScaDelta(o) /\ ScaText(o)
  /\ o.exec # "EXECUTED" => o.match = "UNKNOWN"

ScaCompatible(o) == o.class = "DEPENDENCY" /\ o.capability = "dependency-delta" /\ EvidenceInvariants(o)

\* The inventory no engine makes: a gap, whoever asks.
SbomGap ==
  [capability |-> "sbom", exec |-> "NOT_RUN", cov |-> "NOT_COVERED",
   unknowns |-> Declares("sbom"), losses |-> {LossOf.NOT_RUN}]

SbomInvariants(g) ==
  /\ g.capability = "sbom" /\ g.capability \notin Admitted
  /\ g.exec = "NOT_RUN" /\ g.cov = "NOT_COVERED"
  /\ g.unknowns = Declares("sbom") /\ "ENGINE_UNAVAILABLE" \in g.losses

-----------------------------------------------------------------------------
(* Workflow observations and the presence of configuration (T09).          *)

WorkflowAdmitted(i) ==
  /\ i.intact /\ i.exec = "EXECUTED" /\ i.rule # Null /\ i.path # Null /\ i.start > 0
  /\ i.cov \in {"COMPLETE_WITHIN_STATED_SCOPE", "PARTIAL"}
  /\ i.unknowns \subseteq Declares("github-actions")
  /\ i.unknowns # {} <=> i.cov = "PARTIAL"
  /\ i.text \notin {"secret", "attesting"}

\* A signal is one the path itself gives; nothing is executed.
PresenceAdmitted(i) == i.intact /\ i.path # Null /\ i.text \notin {"secret", "attesting"}

Workflow(i) ==
  [id |-> <<i.attempt, i.head, i.rule, i.path, i.start, i.cov, i.unknowns, i.digest>>,
   head |-> i.head, attempt |-> i.attempt, digest |-> i.digest,
   cov |-> i.cov, unknowns |-> i.unknowns]

Presence(i) ==
  [id |-> <<i.attempt, i.head, i.path, i.digest>>, head |-> i.head, attempt |-> i.attempt,
   digest |-> i.digest, cov |-> "NONE", unknowns |-> {}]

IacGap == [capability |-> "iac-generic", exec |-> "NOT_RUN"]
===============================================================================
