----------------------------- MODULE AssuranceGraph -----------------------------
(***************************************************************************)
(* The records of an assurance case (src/src/assurance/contracts) and what *)
(* semantic-validator.ts asks of them together: engines, their             *)
(* qualifications and runs, the evidence runs leave, the findings drawn    *)
(* from it, what was covered and what was not, and the claim assessed.     *)
(*                                                                         *)
(* Records of a kind are a function from their ids: a duplicate id is      *)
(* refused before anything else is read.  Every record names the target,   *)
(* and one of another target is refused on its own; only records of the    *)
(* target are enumerated.  A run carries the platform of a setting; the    *)
(* profiles and the corpus are its qualification's own.  A run's parent is *)
(* the run it retries or recovers from.                                    *)
(***************************************************************************)
EXTENDS AssuranceKernel

ReasonTimes == {"expires", "review"}

-----------------------------------------------------------------------------
(* Engine runs.                                                             *)

\* The first attempt has no parent and every later one has one.
RunSound(run) == run.end >= run.start /\ (run.attempt = 1 <=> run.parent = Absent)

RunBound(run, plan, descriptor, q) ==
  /\ run.engine = descriptor.engine /\ run.engine \in plan.selected
  /\ q.engine = run.engine /\ q.impl = descriptor.impl
  /\ run.config = q.config /\ run.setting = q.setting

\* The checks of the planner again, as of the moment the run started.
QualificationApplies(q, descriptor, run) ==
  /\ q.engine = descriptor.engine /\ q.impl = descriptor.impl /\ q.config = run.config
  /\ q.passed
  /\ q.at <= run.start /\ run.start < q.expires

RunLineage(runs, r) ==
  LET run == runs[r]
  IN run.parent # Absent =>
       /\ run.parent # r /\ run.parent \in DOMAIN runs
       /\ runs[run.parent].engine = run.engine
       /\ runs[run.parent].attempt < run.attempt
       /\ runs[run.parent].end <= run.start

\* descriptors : engine id -> entry; quals : qualification id -> record.
EngineGraphSound(plan, descriptors, quals, runs) ==
  /\ plan.selected \subseteq DOMAIN descriptors
  /\ \A i \in DOMAIN quals :
       /\ QualificationSound(quals[i])
       /\ quals[i].engine \in DOMAIN descriptors
       /\ quals[i].impl = descriptors[quals[i].engine].impl
  /\ \A r \in DOMAIN runs :
       /\ RunSound(runs[r])
       /\ runs[r].engine \in DOMAIN descriptors /\ runs[r].qual \in DOMAIN quals
       /\ RunBound(runs[r], plan, descriptors[runs[r].engine], quals[runs[r].qual])
       /\ QualificationApplies(quals[runs[r].qual], descriptors[runs[r].engine], runs[r])
       /\ RunLineage(runs, r)

-----------------------------------------------------------------------------
(* Evidence.                                                                *)

EvidenceSound(evidence, e) ==
  evidence[e].expires > evidence[e].at /\ e \notin evidence[e].parents

Current(item, now) == item.at <= now /\ now < item.expires

\* As of its own observation, which is always current.  An item without an artifact
\* stands for the kinds of content no run outputs.
EvidenceResolves(evidence, e, runs) ==
  /\ evidence[e].run \in DOMAIN runs
  /\ evidence[e].artifact # Absent => evidence[e].artifact \in runs[evidence[e].run].artifacts
  /\ evidence[e].parents \subseteq DOMAIN evidence
  /\ Current(evidence[e], evidence[e].at)

\* Mutated form: an id counts as visited from the moment it is entered.
LineageOnEntry(evidence) ==
  LET ids == DOMAIN evidence
      visit[c \in (SUBSET ids) \X (SUBSET ids) \X (SUBSET ids)] ==
        IF c[1] = {} THEN c[3]
        ELSE LET e == CHOOSE x \in c[1] : TRUE
                 below == IF e \in c[3] THEN c[3]
                          ELSE visit[<<evidence[e].parents, c[2] \cup {e}, c[3] \cup {e}>>]
             IN IF below = Absent THEN Absent ELSE visit[<<c[1] \ {e}, c[2], below>>]
  IN visit[<<ids, {}, {}>>]

\* Depth first, a call being the ids to visit, those that are being visited and those that
\* were: what was visited in the end, or Absent when an id is met again below itself.
Lineage(evidence) ==
  LET ids == DOMAIN evidence
      visit[c \in (SUBSET ids) \X (SUBSET ids) \X (SUBSET ids)] ==
        IF c[1] = {} THEN c[3]
        ELSE LET e == CHOOSE x \in c[1] : TRUE
                 below == IF e \in c[3] THEN c[3]
                          ELSE IF e \in c[2] THEN Absent
                          ELSE visit[<<evidence[e].parents, c[2] \cup {e}, c[3]>>]
             IN IF below = Absent THEN Absent
                ELSE visit[<<c[1] \ {e}, c[2], below \cup {e}>>]
  IN visit[<<ids, {}, {}>>]

EvidenceGraphSound(evidence, runs) ==
  /\ \A e \in DOMAIN evidence : EvidenceSound(evidence, e) /\ EvidenceResolves(evidence, e, runs)
  /\ Lineage(evidence) # Absent

-----------------------------------------------------------------------------
(* Findings and their events.                                               *)

\* A risk is accepted until a date and reviewed by then; nothing else is accepted so.
DispositionSound(finding) ==
  IF finding.status = "ACCEPTED_RISK"
  THEN /\ finding.disposition # Absent /\ finding.disposition.kind = "RISK_ACCEPTANCE"
       /\ \A t \in ReasonTimes : finding.disposition[t] # Absent
       /\ finding.disposition.review <= finding.disposition.expires
  ELSE finding.disposition # Absent => finding.disposition.kind # "RISK_ACCEPTANCE"

FindingResolves(finding, runs, evidence) ==
  /\ finding.proofs \subseteq DOMAIN evidence
  /\ \A seen \in finding.seen : seen.run \in DOMAIN runs /\ seen.evidence \subseteq DOMAIN evidence
  /\ finding.disposition # Absent => finding.disposition.evidence \subseteq DOMAIN evidence

EventSound(event) ==
  IF event.to = "ACCEPTED_RISK"
  THEN /\ \A t \in ReasonTimes : event[t] # Absent
       /\ event.expires > event.at
       /\ event.at <= event.review /\ event.review <= event.expires
  ELSE \A t \in ReasonTimes : event[t] = Absent

\* events : sequence number -> event.  The numbers run from 1, every event starts in the
\* state the one before it left, and the last leaves the finding's own.
LifecycleSound(finding, events, evidence) ==
  LET n == Cardinality(DOMAIN events)
  IN /\ n >= 1 /\ DOMAIN events = 1..n
     /\ \A i \in 1..n :
          /\ EventSound(events[i]) /\ events[i].evidence \subseteq DOMAIN evidence
          /\ events[i].from = IF i = 1 THEN Absent ELSE events[i - 1].to
          /\ i > 1 => events[i - 1].at <= events[i].at
     /\ events[n].to = finding.status
     /\ finding.status = "ACCEPTED_RISK" =>
          \A t \in ReasonTimes : events[n][t] = finding.disposition[t]

\* Events are kept by the finding they name; one of an unknown finding is refused.
FindingGraphSound(findings, events, runs, evidence) ==
  /\ \A f \in DOMAIN findings :
       DispositionSound(findings[f]) /\ FindingResolves(findings[f], runs, evidence)
  /\ DOMAIN events \subseteq DOMAIN findings
  /\ \A f \in DOMAIN findings :
       f \in DOMAIN events /\ LifecycleSound(findings[f], events[f], evidence)

-----------------------------------------------------------------------------
(* What was covered, left out and contradicted, and what runs say they made. *)

Unseen == {"UNKNOWN", "UNSUPPORTED", "UNOBSERVED"}

DimensionSound(d) ==
  IF d.state \in Unseen THEN ~d.scoped /\ d.limited
  ELSE d.scoped /\ d.evidence # {} /\ (d.state = "PARTIAL" => d.limited)

CoverageResolves(claim, runs, evidence) ==
  /\ claim.runs \subseteq DOMAIN runs
  /\ \A d \in claim.dimensions : DimensionSound(d) /\ d.evidence \subseteq DOMAIN evidence

\* A check was left out for want of a qualification or of an effect.
OmissionResolves(omission, evidence) ==
  omission.wants # {} /\ omission.evidence \subseteq DOMAIN evidence

ContradictionResolves(contradiction, evidence) ==
  /\ contradiction.left # {} /\ contradiction.right # {}
  /\ contradiction.left \cup contradiction.right \subseteq DOMAIN evidence

CoverageAndConflictSound(records, runs, evidence) ==
  /\ \A c \in DOMAIN records.coverage : CoverageResolves(records.coverage[c], runs, evidence)
  /\ \A o \in DOMAIN records.omissions : OmissionResolves(records.omissions[o], evidence)
  /\ \A c \in DOMAIN records.contradictions :
       ContradictionResolves(records.contradictions[c], evidence)

RunOutputsResolve(runs, findings, records) ==
  \A r \in DOMAIN runs :
    runs[r].findings \subseteq DOMAIN findings /\ runs[r].coverage \subseteq DOMAIN records.coverage

-----------------------------------------------------------------------------
(* The claim.                                                               *)

NonSupporting == {"contradicting", "missing", "stale", "refused", "unknown"}

EvidenceClass == {"supporting"} \cup NonSupporting

Told(assessment, classes) == UNION {assessment.classes[c] : c \in classes}

SupportedShape(assessment) ==
  assessment.state = "SUPPORTED" =>
    /\ assessment.omissions = {} /\ assessment.contradictions = {}
    /\ Told(assessment, NonSupporting) = {}

MandatoryVisible(assessment, mandatory) ==
  \A e \in mandatory \ assessment.classes["supporting"] :
    assessment.state # "SUPPORTED" /\ e \in Told(assessment, NonSupporting)

AssessmentResolves(assessment, records, evidence, mandatory) ==
  /\ assessment.coverage \subseteq DOMAIN records.coverage
  /\ assessment.omissions \subseteq DOMAIN records.omissions
  /\ assessment.contradictions \subseteq DOMAIN records.contradictions
  /\ Told(assessment, EvidenceClass) \subseteq DOMAIN evidence
  /\ MandatoryVisible(assessment, mandatory)

\* Mutated form: evidence is still current at the moment it expires.
ClassifiedAtExpiry(assessment, evidence) ==
  \A c \in EvidenceClass : \A e \in assessment.classes[c] :
    /\ \A d \in EvidenceClass \ {c} : e \notin assessment.classes[d]
    /\ evidence[e].at <= assessment.at
    /\ (assessment.at > evidence[e].expires) <=> (c = "stale")

\* Evidence is told once, after it was observed, and as stale when and only when it is.
Classified(assessment, evidence) ==
  \A c \in EvidenceClass : \A e \in assessment.classes[c] :
    /\ \A d \in EvidenceClass \ {c} : e \notin assessment.classes[d]
    /\ evidence[e].at <= assessment.at
    /\ (assessment.at >= evidence[e].expires) <=> (c = "stale")
================================================================================
