----------------------------- MODULE QualityEngine -----------------------------
(***************************************************************************)
(* The wedge pipeline of the quality engine (src/src/quality) on one       *)
(* source tree: a candidate test is proposed, written into a worktree of   *)
(* that tree, run, tried on seeded changes and admitted or held; conflicts *)
(* and obligations are recorded, gaps found, a failure reported; and the   *)
(* release is decided from the records there are.                          *)
(*                                                                         *)
(* The records are values: what is learnt later does not change a report   *)
(* that was made, and each step may be given any record made before.       *)
(* The evidence and the obligations share no record before the regression  *)
(* of a defect, so their steps commute: the steps of the evidence go first.*)
(***************************************************************************)
EXTENDS QualityEvidence

CONSTANTS
  Own,         \* the candidate that is proposed
  Conflict, Obligation,
  Regression,  \* the obligation recordRegressionObligation opens
  Links,       \* lists of conflict ids an obligation may name
  OracleUsed,  \* oracles an obligation may have
  ClaimUsed    \* minimization claims there may be

ASSUME EngineAssumption ==
  /\ Own \in Candidate /\ Regression \in Obligation /\ Unset \notin Obligation
  /\ OracleUsed \subseteq Oracle /\ ClaimUsed \subseteq Claim /\ Links \subseteq Seq(Conflict) /\ <<>> \in Links

VARIABLES
  stage,           \* "candidate", "obligations", "released"
  proposal,        \* status of the candidate: "none", "proposed", "rejected"
  worktree,        \* "none", "pinned", "written", "stray" after a failed creation, "gone"
  runs, trials,    \* what the reports were made of; dropped once admission is over
  stability, discrimination, decision,
  conflicts,
  obligations,     \* the obligations there are
  tests,           \* how far the covering tests of each obligation are
  gaps,            \* the last result of detectGaps
  defect,
  release

reportVars == <<runs, trials, stability, discrimination, decision>>
candidateVars == <<proposal, worktree, reportVars>>
obligationVars == <<conflicts, obligations, tests, gaps>>
qualityVars == <<stage, candidateVars, defect, obligationVars, release>>

None == [verdict |-> "none"]
NoDefect == [status |-> "none"]

QualityInit ==
  /\ stage = "candidate" /\ proposal = "none" /\ worktree = "none"
  /\ runs = <<>> /\ trials = {}
  /\ stability = None /\ discrimination = None /\ decision = None
  /\ conflicts = [k \in Conflict |-> "missing"]
  /\ obligations = <<>> /\ tests = [o \in Obligation |-> "none"]
  /\ gaps = [o \in {} |-> "none"] /\ defect = NoDefect /\ release = None

-----------------------------------------------------------------------------
(* The candidate.                                                           *)

CreateCandidateProposal ==
  /\ stage = "candidate" /\ proposal = "none" /\ proposal' = "proposed"
  /\ UNCHANGED <<stage, worktree, reportVars, defect, obligationVars, release>>

\* Rejection is for good.
RejectCandidateProposal ==
  /\ stage = "candidate" /\ proposal = "proposed" /\ proposal' = "rejected"
  /\ UNCHANGED <<stage, worktree, reportVars, defect, obligationVars, release>>

\* When the checks after `git worktree add' throw, the directory stays.
CreateCandidateWorktree ==
  /\ stage = "candidate" /\ worktree = "none" /\ worktree' \in {"pinned", "stray"}
  /\ UNCHANGED <<stage, proposal, reportVars, defect, obligationVars, release>>

MaterializeProposal ==
  /\ stage = "candidate" /\ worktree = "pinned" /\ proposal = "proposed"
  /\ worktree' = "written"
  /\ UNCHANGED <<stage, proposal, reportVars, defect, obligationVars, release>>

DisposeCandidateWorktree ==
  /\ stage = "candidate" /\ worktree \in {"pinned", "written"} /\ worktree' = "gone"
  /\ UNCHANGED <<stage, proposal, reportVars, defect, obligationVars, release>>

\* The candidate can only be run where it was written.  Of another candidate only
\* the best runs and trials matter.
EvaluateStability ==
  /\ stage = "candidate" /\ worktree = "written" /\ stability = None
  /\ \E who \in Candidate, r \in Runs :
       /\ who # Own => Verdict(r) = "deterministic-pass" /\ Len(r) = Required
       /\ runs' = r /\ stability' = StabilityReport(who, r)
  /\ UNCHANGED <<stage, proposal, worktree, trials, discrimination, decision,
                 defect, obligationVars, release>>

EvaluateDiscrimination ==
  /\ stage = "candidate" /\ worktree = "written" /\ discrimination = None
  /\ \E who \in Candidate, t \in SUBSET Trial :
       /\ who # Own => t = [target : Target, detected : {TRUE}]
       /\ trials' = t /\ discrimination' = DiscriminationReport(who, t)
  /\ UNCHANGED <<stage, proposal, worktree, runs, stability, decision,
                 defect, obligationVars, release>>

\* The failure is of the candidate's test; a report of another test is refused.
CreateDefectReport ==
  /\ stage = "candidate" /\ defect = NoDefect
  /\ \E class \in Class \cup {Unset}, claims \in SUBSET ClaimUsed, given \in BOOLEAN :
       /\ given => stability # None /\ ~OfAnother(stability, Own)
       /\ defect' =
            [status |-> "open", regression |-> Unset,
             reproduction |->
               ReproductionReport(Own, class,
                                  IF given THEN stability ELSE [candidate |-> Unset], claims)]
  /\ UNCHANGED <<stage, candidateVars, obligationVars, release>>

DefectReadable(d) == d.status = "open" <=> d.regression = Unset

\* Later only whom a report is of, and its verdict or status, are read.
Brief(report) ==
  IF report = None THEN None ELSE [candidate |-> report.candidate, verdict |-> report.verdict]

\* Whoever made the worktree disposes of it; one left by a failed creation stays.
EndCandidate ==
  /\ worktree \notin {"pinned", "written"}
  /\ stage' = "obligations" /\ runs' = <<>> /\ trials' = {}
  /\ stability' = Brief(stability) /\ discrimination' = Brief(discrimination)
  /\ defect' = IF defect = NoDefect THEN NoDefect
               ELSE [defect EXCEPT !.reproduction = [status |-> @.status]]

Decidable ==
  /\ proposal # "none"
  /\ stability # None /\ ~OfAnother(stability, Own)
  /\ discrimination # None /\ ~OfAnother(discrimination, Own)

DecideAdmission ==
  /\ stage = "candidate" /\ Decidable
  /\ \E human \in BOOLEAN :
       decision' = Decision(HeldReasons(proposal, Own, stability, discrimination, human))
  /\ EndCandidate
  /\ UNCHANGED <<proposal, worktree, obligationVars, release>>

\* There is nothing to decide on, or decideAdmission threw.
LeaveUndecided ==
  /\ stage = "candidate" /\ ~Decidable /\ EndCandidate
  /\ UNCHANGED <<proposal, worktree, decision, obligationVars, release>>

-----------------------------------------------------------------------------
(* Conflicts and obligations.                                               *)

CreateRequirementConflict(k) ==
  /\ stage = "obligations" /\ conflicts[k] = "missing"
  /\ conflicts' = [conflicts EXCEPT ![k] = "unresolved"]
  /\ UNCHANGED <<stage, candidateVars, obligations, tests, gaps, defect, release>>

\* A resolved conflict may be resolved again, otherwise (the resolutions are one
\* here); it cannot be reopened.
ResolveRequirementConflict(k) ==
  /\ stage = "obligations" /\ conflicts[k] # "missing"
  /\ conflicts' = [conflicts EXCEPT ![k] = "resolved"]
  /\ UNCHANGED <<stage, candidateVars, defect, obligations, tests, gaps, release>>

Opened(oracle, links) == [oracle |-> oracle, links |-> links, evidence |-> FALSE]

CreateTestObligation(o) ==
  /\ stage = "obligations" /\ o \notin DOMAIN obligations \cup {Regression}
  /\ \E oracle \in OracleUsed, links \in Links :
       obligations' = [p \in DOMAIN obligations \cup {o} |->
                         IF p = o THEN Opened(oracle, links) ELSE obligations[p]]
  /\ UNCHANGED <<stage, candidateVars, conflicts, tests, gaps, defect, release>>

AttachEvidence(o) ==
  /\ stage = "obligations" /\ o \in DOMAIN obligations /\ ~obligations[o].evidence
  /\ obligations' = [obligations EXCEPT ![o].evidence = TRUE]
  /\ UNCHANGED <<stage, candidateVars, conflicts, tests, gaps, defect, release>>

\* A test that covers the obligation is found, and executed.
CoverObligation(o) ==
  /\ stage = "obligations" /\ o \in DOMAIN obligations /\ tests[o] # "executed"
  /\ tests' = [tests EXCEPT ![o] = IF @ = "none" THEN "listed" ELSE "executed"]
  /\ UNCHANGED <<stage, candidateVars, conflicts, obligations, gaps, defect, release>>

DetectGaps ==
  /\ stage = "obligations"
  /\ gaps' = [o \in DOMAIN obligations |-> Gap(obligations[o], conflicts, tests[o])]
  /\ UNCHANGED <<stage, candidateVars, conflicts, obligations, tests, defect, release>>

RecordRegressionObligation ==
  /\ stage = "obligations" /\ defect.status = "open"
  /\ defect' = [defect EXCEPT !.status = "regression-recorded", !.regression = Regression]
  /\ \E oracle \in OracleUsed :
       obligations' = [p \in DOMAIN obligations \cup {Regression} |->
                         IF p = Regression THEN Opened(oracle, <<>>) ELSE obligations[p]]
  /\ UNCHANGED <<stage, candidateVars, conflicts, tests, gaps, release>>

-----------------------------------------------------------------------------
(* The release.                                                             *)

\* Items by category.  A deterministic failure and a reproduced defect are none.
OpenConflicts ==
  {<<"unresolved-conflict", k>> : k \in {c \in Conflict : conflicts[c] = "unresolved"}}

GapCategory(gap) ==
  CASE gap \in {"blocked-by-conflict", "obligation-unresolved"} -> "unresolved-conflict"
    [] gap = "oracle-advisory-only" -> "advisory-only-oracle"
    [] OTHER -> "untested-obligation"

OpenGaps == {<<GapCategory(gaps[o]), o>> : o \in {p \in DOMAIN gaps : gaps[p] # "none"}}

StabilityCategory(verdict) ==
  CASE verdict \in {"flaky", "insufficient-evidence"} -> "unstable-verification"
    [] verdict \in {"unavailable", "not-run"} -> "unavailable-execution"
    [] OTHER -> "environmental-uncertainty"

CandidateItems ==
  (IF stability.verdict \in {"none", "deterministic-pass", "deterministic-fail"} THEN {}
   ELSE {<<StabilityCategory(stability.verdict), stability.candidate>>}) \cup
  (IF discrimination.verdict \in {"not-run", "unproven"}
     THEN {<<"missing-discrimination", discrimination.candidate>>} ELSE {}) \cup
  (IF decision.verdict = "held" THEN {<<"unadmitted-candidate", Own>>} ELSE {})

FailureItems ==
  IF defect # NoDefect /\ defect.reproduction.status \in {"observed", "unresolved"}
    THEN {<<"unexplained-failure", Own>>} ELSE {}

ResidualItems == OpenConflicts \cup OpenGaps \cup CandidateItems \cup FailureItems

\* The caller gives every record it has.
RenderAndDecide ==
  /\ stage = "obligations" /\ stage' = "released"
  /\ release' = [verdict |-> IF ResidualItems = {} THEN "ready" ELSE "blocked",
                 blockers |-> ResidualItems]
  /\ UNCHANGED <<candidateVars, defect, obligationVars>>

ReleaseReadable(r) == r.verdict = "ready" <=> r.blockers = {}

QualityNext ==
  \/ CreateCandidateProposal \/ RejectCandidateProposal
  \/ CreateCandidateWorktree \/ MaterializeProposal \/ DisposeCandidateWorktree
  \/ EvaluateStability \/ EvaluateDiscrimination \/ CreateDefectReport
  \/ DecideAdmission \/ LeaveUndecided
  \/ \E k \in Conflict : CreateRequirementConflict(k) \/ ResolveRequirementConflict(k)
  \/ \E o \in Obligation : CreateTestObligation(o) \/ AttachEvidence(o) \/ CoverObligation(o)
  \/ DetectGaps \/ RecordRegressionObligation \/ RenderAndDecide

QualitySpec == QualityInit /\ [][QualityNext]_qualityVars

-----------------------------------------------------------------------------
(* Properties.                                                              *)

\* Type correctness of the parts that are not reports.
TypeOK ==
  /\ stage \in {"candidate", "obligations", "released"}
  /\ proposal \in {"none", "proposed", "rejected"}
  /\ worktree \in {"none", "pinned", "written", "stray", "gone"}
  /\ conflicts \in [Conflict -> ConflictState]
  /\ DOMAIN obligations \subseteq Obligation
  /\ tests \in [Obligation -> {"none", "listed", "executed"}]

\* What the runs and trials themselves say of the candidate.
Earned ==
  /\ proposal = "proposed"
  /\ Cardinality(With(runs, "pass")) >= Required /\ With(runs, "fail") = {}
  /\ \E p \in Target : [target |-> p, detected |-> TRUE] \in trials
                       /\ [target |-> p, detected |-> FALSE] \notin trials
  /\ stability.candidate = Own /\ discrimination.candidate = Own

\* decideAdmission admits a candidate only when it was not rejected, enough of its
\* own runs passed in every environment, none failed, and one of its own trials
\* detected a change that no other trial of that pair missed.
AdmissionEarned == [][decision' # decision /\ decision'.verdict = "admitted" => Earned]_qualityVars

\* The obligations that count as verified now.
Verified ==
  {o \in DOMAIN obligations :
     /\ \A i \in DOMAIN obligations[o].links : conflicts[obligations[o].links[i]] = "resolved"
     /\ obligations[o].evidence /\ tests[o] = "executed" /\ MayGate(obligations[o].oracle)}

\* `ready' means, of the records that were given and as things are now: every
\* obligation the gaps were searched for is verified, no conflict is open, the
\* candidate was not held, its evidence is conclusive, and the failure is explained.
ReadyIsEarned ==
  release.verdict = "ready" =>
    /\ DOMAIN gaps \subseteq Verified
    /\ \A k \in Conflict : conflicts[k] # "unresolved"
    /\ decision.verdict # "held" /\ discrimination.verdict \in {"none", "proven"}
    /\ stability.verdict \in {"none", "deterministic-pass", "deterministic-fail"}
    /\ defect.status # "none" => defect.reproduction.status \in {"reproduced", "minimized"}

\* Every record an operation makes is accepted by the reader of its own kind, which
\* states the rules of the record apart from the code that made it.
RecordsRevive ==
  /\ stage = "candidate" =>
       /\ stability # None => StabilityReadable(stability)
       /\ discrimination # None => DiscriminationReadable(discrimination)
       /\ defect # NoDefect => ReproductionReadable(defect.reproduction)
  /\ decision # None => AdmissionReadable(decision)
  /\ defect # NoDefect => DefectReadable(defect)
  /\ release # None => ReleaseReadable(release)

-----------------------------------------------------------------------------
(* The inductive invariant of QualityEngineProofs.                          *)

\* While the candidate is looked at, each report is of the runs or trials that are kept.
ReportsMade ==
  stage = "candidate" =>
    /\ runs \in Runs /\ trials \subseteq Trial
    /\ stability = None \/ \E who \in Candidate : stability = StabilityReport(who, runs)
    /\ discrimination = None \/ \E who \in Candidate : discrimination = DiscriminationReport(who, trials)

VerdictsKnown ==
  /\ discrimination.verdict \in {"none", "not-run", "unproven", "proven"}
  /\ defect # NoDefect =>
       /\ defect = [status |-> defect.status, regression |-> defect.regression,
                    reproduction |-> defect.reproduction]
       /\ defect.status \in {"open", "regression-recorded"}
       /\ defect.reproduction.status \in {"observed", "unresolved", "reproduced", "minimized"}

\* Obligations stay, and the regression of a defect is not one before it is recorded.
ObligationsKept ==
  /\ obligations \in [DOMAIN obligations -> [oracle : OracleUsed, links : Links, evidence : BOOLEAN]]
  /\ Regression \in DOMAIN obligations => defect.status = "regression-recorded"

\* An obligation that was found to have no gap is verified, and stays so.
GapsMonotone ==
  \A o \in DOMAIN gaps : o \in DOMAIN obligations /\ (gaps[o] = "none" => o \in Verified)

QualityInv ==
  /\ TypeOK /\ ReportsMade /\ VerdictsKnown /\ ObligationsKept /\ GapsMonotone
  /\ stage # "released" => release = None
  /\ ReadyIsEarned /\ RecordsRevive

================================================================================
