------------------------------ MODULE AssuranceCase ------------------------------
(***************************************************************************)
(* An assurance case from its plan to its claim: the kernel plans which    *)
(* engines may be used, and validateAssuranceSemanticGraphV1 admits the    *)
(* records made under that plan, stage by stage, or throws.                *)
(*                                                                         *)
(* What a caller presents at a stage is chosen when the stage reads it.    *)
(* An input that is refused leaves nothing behind but the refusal.  The    *)
(* kernel's inputs are forgotten once the plan is taken up: the graph has  *)
(* only the plan's engine ids, and its own descriptors and qualifications. *)
(***************************************************************************)
EXTENDS AssuranceGraph

CONSTANTS
  Registries,        \* sets of entries
  Observations,      \* functions from identities to what was observed
  Qualifications,    \* sets of qualification records
  Requests,
  EngineGraphs,      \* records [descriptors, quals, runs]
  EvidenceGraphs,    \* functions from evidence ids
  FindingGraphs,     \* records [findings, events]
  RecordGraphs,      \* records [coverage, omissions, contradictions]
  Mandatory,         \* sets of evidence ids
  Assessments

\* Effects, ceilings and times are ordered as their numbers are; an array is finite.
ASSUME CaseAssumption ==
  /\ Absent \notin Nat
  /\ Absent \notin Reason \cup DriftReason \cup {"QUALIFICATION_SATISFIED"}
  /\ \A r \in Registries : \A x \in r :
       {x.impl, x.config, x.ceiling} \subseteq Nat /\ x.effects \subseteq Nat
  /\ \A o \in Observations : \A i \in DOMAIN o : o[i] \in Observable
  /\ \A s \in Qualifications : \A q \in s : {q.at, q.expires} \subseteq Nat
  /\ \A r \in Requests :
       /\ {r.asOf, r.phase, r.intent.ceiling, r.policy.ceiling} \subseteq Nat
       /\ r.effects \subseteq Nat
  /\ \A g \in EngineGraphs :
       /\ \A i \in DOMAIN g.quals : {g.quals[i].at, g.quals[i].expires} \subseteq Nat
       /\ Absent \notin DOMAIN g.runs
       /\ \A i \in DOMAIN g.runs :
            {g.runs[i].attempt, g.runs[i].start, g.runs[i].end} \subseteq Nat
  /\ \A g \in EvidenceGraphs :
       /\ IsFiniteSet(DOMAIN g)
       /\ \A e \in DOMAIN g : {g[e].at, g[e].expires} \subseteq Nat
  /\ \A g \in FindingGraphs : \A f \in DOMAIN g.events :
       /\ IsFiniteSet(DOMAIN g.events[f])
       /\ \A i \in DOMAIN g.events[f] :
            LET event == g.events[f][i]
            IN event.at \in Nat /\ {event.expires, event.review} \subseteq Nat \cup {Absent}
  /\ \A a \in Assessments : a.at \in Nat

VARIABLES
  progress,
  registry, snapshot, quals, request,
  plan,
  engines,           \* the descriptors, qualifications and runs of the graph
  evidence, findings, records, claim, mandatory

kernel == <<registry, snapshot, quals, request>>
graph == <<engines, evidence, findings, records, claim, mandatory>>
caseVars == <<progress, kernel, plan, graph>>

CaseInit ==
  /\ progress = "kernel"
  /\ registry = {} /\ snapshot = Snapshot({}, [i \in {} |-> Absent])
  /\ quals = {} /\ request = Absent /\ plan = Absent
  /\ engines = Absent /\ evidence = Absent /\ findings = Absent /\ records = Absent
  /\ claim = Absent /\ mandatory = {}

-----------------------------------------------------------------------------
(* The kernel.  A registry may be made after a snapshot was taken of another. *)

CreateEngineRegistry ==
  /\ progress = "kernel"
  /\ \E r \in Registries : RegistryAdmitted(r) /\ registry' = r
  /\ UNCHANGED <<progress, snapshot, quals, request, plan, graph>>

CreateEngineAvailabilitySnapshot ==
  /\ progress = "kernel"
  /\ \E o \in Observations :
       ObservationsAdmitted(registry, o) /\ snapshot' = Snapshot(registry, o)
  /\ UNCHANGED <<progress, registry, quals, request, plan, graph>>

CreateEngineQualificationSet ==
  /\ progress = "kernel"
  /\ \E q \in Qualifications : SetAdmitted(q) /\ quals' = q
  /\ UNCHANGED <<progress, registry, snapshot, request, plan, graph>>

EvaluatePlanWithOmissions ==
  /\ progress = "kernel"
  /\ \E r \in Requests :
       /\ request' = r
       /\ plan' = PlanWithOmissions(registry, snapshot, quals, r)
  /\ progress' = "planned"
  /\ UNCHANGED <<registry, snapshot, quals, graph>>

-----------------------------------------------------------------------------
(* The graph, in the order it is validated.                                 *)

Forget == registry' = {} /\ snapshot' = Absent /\ quals' = {} /\ request' = Absent

Throw ==
  /\ progress' = "refused" /\ Forget /\ plan' = Absent
  /\ engines' = Absent /\ evidence' = Absent /\ findings' = Absent /\ records' = Absent
  /\ claim' = Absent /\ mandatory' = {}

\* The plan is read again beside the intent and the policy of the graph; of the plan, what
\* follows reads the engines it selects.
BindPlan ==
  /\ progress = "planned" /\ ~plan.refused
  /\ \E r \in Requests :
       IF PlanSound(plan, r.intent, r.policy)
       THEN /\ progress' = "engines" /\ Forget
            /\ plan' = [selected |-> plan.selected] /\ UNCHANGED graph
       ELSE Throw

ValidateEngineGraph ==
  /\ progress = "engines"
  /\ \E g \in EngineGraphs :
       IF EngineGraphSound(plan, g.descriptors, g.quals, g.runs)
       THEN /\ engines' = g /\ progress' = "evidence"
            /\ UNCHANGED <<kernel, plan, evidence, findings, records, claim, mandatory>>
       ELSE Throw

ValidateEvidenceGraph ==
  /\ progress = "evidence"
  /\ \E g \in EvidenceGraphs :
       IF EvidenceGraphSound(g, engines.runs)
       THEN /\ evidence' = g /\ progress' = "findings"
            /\ UNCHANGED <<kernel, plan, engines, findings, records, claim, mandatory>>
       ELSE Throw

ValidateFindingGraph ==
  /\ progress = "findings"
  /\ \E g \in FindingGraphs :
       IF FindingGraphSound(g.findings, g.events, engines.runs, evidence)
       THEN /\ findings' = g /\ progress' = "records"
            /\ UNCHANGED <<kernel, plan, engines, evidence, records, claim, mandatory>>
       ELSE Throw

ValidateCoverageAndConflictGraph ==
  /\ progress = "records"
  /\ \E g \in RecordGraphs :
       IF /\ CoverageAndConflictSound(g, engines.runs, evidence)
          /\ RunOutputsResolve(engines.runs, findings.findings, g)
       THEN /\ records' = g /\ progress' = "claim"
            /\ UNCHANGED <<kernel, plan, engines, evidence, findings, claim, mandatory>>
       ELSE Throw

ClaimSound(a, m) ==
  SupportedShape(a) /\ AssessmentResolves(a, records, evidence, m) /\ Classified(a, evidence)

\* Whatever else may be said: a claim that does not stand is refused.
ValidateClaim ==
  /\ progress = "claim"
  /\ \/ \E a \in Assessments, m \in Mandatory :
          /\ ClaimSound(a, m) /\ claim' = a /\ mandatory' = m /\ progress' = "admitted"
          /\ UNCHANGED <<kernel, plan, engines, evidence, findings, records>>
     \/ ~(\A a \in Assessments, m \in Mandatory : ClaimSound(a, m)) /\ Throw

CaseNext ==
  \/ CreateEngineRegistry \/ CreateEngineAvailabilitySnapshot
  \/ CreateEngineQualificationSet \/ EvaluatePlanWithOmissions
  \/ BindPlan \/ ValidateEngineGraph \/ ValidateEvidenceGraph \/ ValidateFindingGraph
  \/ ValidateCoverageAndConflictGraph \/ ValidateClaim

CaseSpec == CaseInit /\ [][CaseNext]_caseVars

-----------------------------------------------------------------------------
(* Properties.                                                              *)

\* What makes an entry usable, said without the planner: it was observed available, some
\* record qualifies this very implementation and configuration in this setting at this
\* moment, and nothing it would do goes past a ceiling.
Usable(entry) ==
  /\ snapshot.state[Identity(entry)] = "AVAILABLE"
  /\ \E q \in quals :
       /\ <<q.engine, q.impl, q.config, q.setting>>
            = <<entry.engine, entry.impl, entry.config, request.setting>>
       /\ q.passed /\ q.at <= request.asOf /\ request.asOf < q.expires
  /\ \A f \in request.effects :
       /\ f \in entry.effects
       /\ f <= entry.ceiling /\ f <= request.intent.ceiling /\ f <= request.policy.ceiling
       /\ f <= request.phase

\* An engine is planned or its omission is: every registered engine is either selected,
\* and then one of its entries is usable as of the plan, or omitted, and then none is,
\* whatever order the registry, the snapshot and the qualifications were made in
\* (planner.ts selects and omissions.ts explains with checks of their own).
PlanAccounts ==
  progress = "planned" /\ ~plan.refused =>
    /\ plan.selected \cap DOMAIN plan.omitted = {}
    /\ plan.selected \cup DOMAIN plan.omitted = {entry.engine : entry \in registry}
    /\ \A e \in plan.selected : \E entry \in EntriesOf(registry, e) : Usable(entry)
    /\ \A e \in DOMAIN plan.omitted : \A entry \in EntriesOf(registry, e) : ~Usable(entry)
    /\ plan.policy.mandatory \cap DOMAIN plan.omitted = {}

WellFounded(ids, Parents(_)) ==
  \A S \in (SUBSET ids) \ {{}} : \E x \in S : Parents(x) \cap S = {}

\* An admitted run was planned, and qualified at the moment it started by a record of the
\* graph; its retries and recoveries lead back to a first attempt of the same engine.
RunsGrounded ==
  LET runs == engines.runs
  IN /\ \A r \in DOMAIN runs :
          /\ runs[r].engine \in plan.selected
          /\ \E i \in DOMAIN engines.quals :
               LET q == engines.quals[i]
               IN /\ q.engine = runs[r].engine /\ q.config = runs[r].config /\ q.passed
                  /\ q.at <= runs[r].start /\ runs[r].start < q.expires
          /\ runs[r].parent # Absent => runs[runs[r].parent].engine = runs[r].engine
     /\ WellFounded(DOMAIN runs, LAMBDA r : {runs[r].parent})

\* Evidence never rests on itself, however long the way round.
EvidenceGrounded ==
  /\ WellFounded(DOMAIN evidence, LAMBDA e : evidence[e].parents)
  /\ \A e \in DOMAIN evidence : evidence[e].run \in DOMAIN engines.runs

\* The status of a finding is what its events, taken one after the other from nothing,
\* lead to; a risk is accepted for a time that had not passed when it was accepted.
FindingsGrounded ==
  \A f \in DOMAIN findings.findings :
    LET finding == findings.findings[f]
        events == findings.events[f]
        State[i \in 0..Cardinality(DOMAIN events)] ==
          IF i = 0 THEN Absent
          ELSE IF State[i - 1] = events[i].from THEN events[i].to ELSE "broken"
    IN /\ State[Cardinality(DOMAIN events)] = finding.status
       /\ finding.status = "ACCEPTED_RISK" =>
            \A i \in DOMAIN events : events[i].at < finding.disposition.expires

\* What is admitted stands on something: runs on the plan and on a first attempt,
\* evidence on runs and never on itself, a finding's status on its history, and what a
\* run says it produced on records that are there (semantic-validator.ts checks each
\* record against its neighbours only).
GraphGrounded ==
  /\ engines # Absent => RunsGrounded
  /\ evidence # Absent => EvidenceGrounded
  /\ findings # Absent => FindingsGrounded
  /\ records # Absent =>
       \A r \in DOMAIN engines.runs :
         /\ engines.runs[r].findings \subseteq DOMAIN findings.findings
         /\ engines.runs[r].coverage \subseteq DOMAIN records.coverage

\* A supported claim is earned: all mandatory evidence supports it, none of what supports
\* it had lapsed or was yet to come when the claim was assessed, and nothing it cites
\* speaks against it; a claim that is not supported still shows each piece of mandatory
\* evidence, and shows what has lapsed as such.
ClaimEarned ==
  progress = "admitted" =>
    /\ \A e \in claim.classes["supporting"] : Current(evidence[e], claim.at)
    /\ claim.state = "SUPPORTED" =>
         /\ mandatory \subseteq claim.classes["supporting"]
         /\ \A c \in NonSupporting : claim.classes[c] = {}
         /\ claim.omissions = {} /\ claim.contradictions = {}
    /\ \A e \in mandatory :
         \E c \in EvidenceClass :
           /\ e \in claim.classes[c]
           /\ (c = "stale") <=> ~Current(evidence[e], claim.at)

-----------------------------------------------------------------------------
(* The inductive invariant behind them.                                     *)

\* What the kernel has read, until the plan is taken up.
KernelOK ==
  progress \in {"kernel", "planned"} =>
    /\ registry \in Registries \cup {{}} /\ quals \in Qualifications \cup {{}}
    /\ DOMAIN snapshot.state = {Identity(a) : a \in snapshot.registry}
    /\ \A i \in DOMAIN snapshot.state : snapshot.state[i] \in Observable

PlanOK ==
  progress = "planned" =>
    request \in Requests /\ plan = PlanWithOmissions(registry, snapshot, quals, request)

\* What has been taken in passed its checks, and what has not is not there.
EnginesOK ==
  IF progress \in {"evidence", "findings", "records", "claim", "admitted"}
  THEN /\ engines \in EngineGraphs
       /\ EngineGraphSound(plan, engines.descriptors, engines.quals, engines.runs)
  ELSE engines = Absent

EvidenceOK ==
  IF progress \in {"findings", "records", "claim", "admitted"}
  THEN evidence \in EvidenceGraphs /\ EvidenceGraphSound(evidence, engines.runs)
  ELSE evidence = Absent

FindingsOK ==
  IF progress \in {"records", "claim", "admitted"}
  THEN /\ findings \in FindingGraphs
       /\ FindingGraphSound(findings.findings, findings.events, engines.runs, evidence)
  ELSE findings = Absent

RecordsOK ==
  IF progress \in {"claim", "admitted"}
  THEN RunOutputsResolve(engines.runs, findings.findings, records)
  ELSE records = Absent

ClaimOK ==
  progress = "admitted" =>
    /\ claim \in Assessments /\ SupportedShape(claim) /\ Classified(claim, evidence)
    /\ AssessmentResolves(claim, records, evidence, mandatory)

CaseInv ==
  KernelOK /\ PlanOK /\ EnginesOK /\ EvidenceOK /\ FindingsOK /\ RecordsOK /\ ClaimOK
================================================================================
