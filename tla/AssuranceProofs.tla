---------------------------- MODULE AssuranceProofs ----------------------------
(***************************************************************************)
(* Proofs about what is decided from records: the release of the quality   *)
(* engine, for any candidates, environments, targets, conflicts and        *)
(* obligations, and any number of runs; and the case of the assurance      *)
(* kernel and its graph, for any registry, any records and any claims.     *)
(***************************************************************************)
EXTENDS QualityEngine, AssuranceCase, FiniteSetTheorems, WellFoundedInduction, TLAPS

-----------------------------------------------------------------------------
\* Where an induction would be over data, its smallest counterexample serves.
LEMMA Smallest ==
  ASSUME NEW S \in SUBSET Nat, S # {}
  PROVE  \E i \in S : \A j \in S : i <= j
<1>1. PICK x \in S : \A y \in S : ~(<<y, x>> \in OpToRel(<, Nat))
  BY NatLessThanWellFounded, WFMin
<1>2. ASSUME NEW y \in S PROVE ~(y < x)
  <2> SUFFICES ASSUME y < x PROVE FALSE
    OBVIOUS
  <2>1. <<y, x>> \in Nat \X Nat /\ <<y, x>>[1] < <<y, x>>[2]
    OBVIOUS
  <2>2. <<y, x>> \in OpToRel(<, Nat)
    BY <2>1 DEF OpToRel
  <2> QED
    BY <1>1, <2>2
<1>3. \A y \in S : x <= y
  BY <1>2
<1> QED
  BY <1>3

-----------------------------------------------------------------------------
(* The quality engine.  First its pure gates.                                *)

\* The runs of one outcome are finitely many, and none only if there are none.
LEMMA WithFinite ==
  ASSUME NEW r \in Runs, NEW outcome
  PROVE  /\ IsFiniteSet(With(r, outcome)) /\ Cardinality(With(r, outcome)) \in Nat
         /\ Cardinality(With(r, outcome)) = 0 <=> With(r, outcome) = {}
<1>1. PICK n \in 0..MaxRuns : r \in [1..n -> Observation]
  BY DEF Runs
<1>2. IsFiniteSet(1..n) /\ With(r, outcome) \in SUBSET (1..n)
  BY <1>1, FS_Interval DEF With
<1> QED
  BY <1>2, FS_Subset, FS_CardinalityType, FS_EmptySet

\* A run passed, failed or was unavailable.
LEMMA RunsCounted ==
  ASSUME NEW r \in Runs
  PROVE  /\ Len(r) \in Nat /\ (Len(r) = 0 <=> r = <<>>)
         /\ Cardinality(With(r, "pass")) + Cardinality(With(r, "fail"))
              + Cardinality(With(r, "unavailable")) = Len(r)
<1>1. PICK n \in 0..MaxRuns : r \in [1..n -> Observation]
  BY DEF Runs
<1>2. n \in Nat /\ r \in Seq(Observation) /\ Len(r) = n /\ DOMAIN r = 1..n
  BY <1>1
<1> DEFINE P == With(r, "pass")
           F == With(r, "fail")
           U == With(r, "unavailable")
<1>3. /\ IsFiniteSet(P) /\ IsFiniteSet(F) /\ IsFiniteSet(U)
      /\ Cardinality(P) \in Nat /\ Cardinality(F) \in Nat /\ Cardinality(U) \in Nat
  BY WithFinite
<1>4. P \cap F = {} /\ (P \cup F) \cap U = {}
  BY DEF With
<1>5. \A i \in 1..n : r[i].outcome \in {"pass", "fail", "unavailable"}
  BY <1>1 DEF Observation, Outcome
<1>6. P \cup F \cup U = 1..n
  BY <1>2, <1>5 DEF With
<1> HIDE DEF P, F, U
<1>7. /\ IsFiniteSet(P \cup F)
      /\ Cardinality(P \cup F) = Cardinality(P) + Cardinality(F) - Cardinality(P \cap F)
  BY <1>3, FS_Union
<1>8. Cardinality(P \cup F \cup U)
        = Cardinality(P \cup F) + Cardinality(U) - Cardinality((P \cup F) \cap U)
  BY <1>3, <1>7, FS_Union
<1>9. Cardinality(1..n) = n
  BY <1>2, FS_Interval
<1>10. Cardinality(P \cap F) = 0 /\ Cardinality((P \cup F) \cap U) = 0
  BY <1>4, FS_EmptySet
<1>11. Cardinality(P) + Cardinality(F) + Cardinality(U) = Cardinality(P \cup F \cup U)
  BY <1>3, <1>7, <1>8, <1>10
<1>12. n = 0 <=> r = <<>>
  BY <1>2
<1> QED
  BY <1>2, <1>6, <1>9, <1>11, <1>12 DEF P, F, U

\* `deterministic-pass' is the verdict of enough passes and no failure.
LEMMA PassesCounted ==
  ASSUME NEW r \in Runs, Verdict(r) = "deterministic-pass"
  PROVE  Cardinality(With(r, "pass")) >= Required /\ With(r, "fail") = {}
<1> DEFINE passes == Cardinality(With(r, "pass"))
           failures == Cardinality(With(r, "fail"))
<1>1. passes \in Nat /\ failures \in Nat /\ (failures = 0 <=> With(r, "fail") = {})
  BY WithFinite
<1>2. ~(failures > 0) /\ ~(passes + failures < Required)
  BY DEF Verdict
<1> HIDE DEF passes, failures
<1>3. failures = 0 /\ passes >= Required
  BY <1>1, <1>2, QualityAssumption
<1> QED
  BY <1>1, <1>3 DEF passes, failures

\* A report of stability is read back.
LEMMA StabilityRead ==
  ASSUME NEW who \in Candidate, NEW r \in Runs
  PROVE  StabilityReadable(StabilityReport(who, r))
<1> DEFINE s == StabilityReport(who, r)
<1>1. /\ s.candidate = IF r = <<>> THEN Unset ELSE who
      /\ s.environments = {r[i].env : i \in DOMAIN r} /\ s.runs = Len(r)
      /\ s.passes = Cardinality(With(r, "pass"))
      /\ s.failures = Cardinality(With(r, "fail"))
      /\ s.unavailable = Cardinality(With(r, "unavailable"))
      /\ s.verdict = Verdict(r)
  BY DEF StabilityReport
<1>2. Verdict(r) = "not-run" <=> r = <<>>
  BY DEF Verdict
<1>3. who # Unset
  BY QualityAssumption
<1>4. r = <<>> => s.environments = {}
  BY <1>1
<1> HIDE DEF s
<1> QED
  BY <1>1, <1>2, <1>3, <1>4, RunsCounted DEF s, StabilityReadable

LEMMA TrialsFinite == IsFiniteSet(Trial)
<1> DEFINE f == [x \in Target \X BOOLEAN |-> [target |-> x[1], detected |-> x[2]]]
<1>1. IsFiniteSet(BOOLEAN)
  <2>1. BOOLEAN = {TRUE} \cup {FALSE}
    OBVIOUS
  <2>2. IsFiniteSet({TRUE})
    BY FS_Singleton
  <2>3. IsFiniteSet({FALSE})
    BY FS_Singleton
  <2>4. IsFiniteSet({TRUE} \cup {FALSE})
    BY <2>2, <2>3, FS_Union, Zenon
  <2> QED
    BY <2>1, <2>4, Zenon
<1>2. IsFiniteSet(Target \X BOOLEAN)
  BY <1>1, FS_Product, QualityAssumption
<1>3. f \in [Target \X BOOLEAN -> Trial]
  BY DEF Trial
<1>4. ASSUME NEW t \in Trial PROVE \E x \in Target \X BOOLEAN : f[x] = t
  <2>1. <<t.target, t.detected>> \in Target \X BOOLEAN
    BY DEF Trial
  <2>2. f[<<t.target, t.detected>>] = t
    BY <2>1 DEF Trial
  <2> QED
    BY <2>1, <2>2
<1>5. f \in Surjection(Target \X BOOLEAN, Trial)
  BY <1>3, <1>4 DEF Surjection
<1> QED
  BY <1>2, <1>5, FS_Surjection

\* A report of discrimination is read back, and its verdict is one of three.
LEMMA DiscriminationRead ==
  ASSUME NEW who \in Candidate, NEW t \in SUBSET Trial
  PROVE  /\ DiscriminationReadable(DiscriminationReport(who, t))
         /\ DiscriminationReport(who, t).verdict \in {"not-run", "unproven", "proven"}
<1> DEFINE d == DiscriminationReport(who, t)
           hits == {x \in t : x.detected}
<1>1. /\ d.candidate = IF t = {} THEN Unset ELSE who
      /\ d.trials = Cardinality(t) /\ d.detections = Cardinality(hits)
      /\ d.proven = Proven(t)
      /\ d.verdict = IF t = {} THEN "not-run"
                     ELSE IF Proven(t) # {} THEN "proven" ELSE "unproven"
  BY DEF DiscriminationReport
<1>2. IsFiniteSet(t) /\ hits \in SUBSET t
  BY TrialsFinite, FS_Subset
<1>3. /\ Cardinality(t) \in Nat /\ (Cardinality(t) = 0 <=> t = {})
      /\ Cardinality(hits) \in Nat /\ Cardinality(hits) <= Cardinality(t)
  BY <1>2, FS_Subset, FS_CardinalityType, FS_EmptySet
<1>4. t = {} => Proven(t) = {} /\ Cardinality(hits) = 0
  BY <1>3 DEF Proven
<1>5. who # Unset
  BY QualityAssumption
<1> HIDE DEF d, hits
<1>6. d.verdict \in {"not-run", "unproven", "proven"} /\ (d.verdict = "not-run" <=> t = {})
  BY <1>1
<1> QED
  BY <1>1, <1>3, <1>4, <1>5, <1>6 DEF d, DiscriminationReadable

\* A reproduction is read back, and its status is one of four.
LEMMA ReproductionRead ==
  ASSUME NEW test, NEW class, NEW s, NEW claims
  PROVE  /\ ReproductionReadable(ReproductionReport(test, class, s, claims))
         /\ ReproductionReport(test, class, s, claims).status
              \in {"observed", "unresolved", "reproduced", "minimized"}
<1>1. Smaller(claims) => ValidClaims(claims) # {}
  BY DEF Smaller
<1> QED
  BY <1>1 DEF ReproductionReport, ReproductionStatus, ReproductionReadable

\* No conflict is bad only if each one that is linked was resolved.
LEMMA NoneBad ==
  ASSUME NEW links \in Links, conflicts \in [Conflict -> ConflictState],
         FirstBad(links, conflicts) \notin {"missing", "unresolved"}
  PROVE  \A i \in DOMAIN links : conflicts[links[i]] = "resolved"
<1> DEFINE bad == {i \in DOMAIN links : conflicts[links[i]] \in {"missing", "unresolved"}}
<1>1. links \in Seq(Conflict) /\ bad \in SUBSET Nat
  BY EngineAssumption
<1>2. ASSUME bad # {} PROVE FALSE
  <2> DEFINE first == CHOOSE i \in bad : \A j \in bad : i <= j
  <2>1. first \in bad
    BY <1>1, <1>2, Smallest
  <2>2. FirstBad(links, conflicts) = conflicts[links[first]]
    BY <1>2 DEF FirstBad
  <2> QED
    BY <2>1, <2>2
<1> QED
  BY <1>1, <1>2 DEF ConflictState

\* An obligation without a gap is verified.
LEMMA NoGap ==
  ASSUME QualityInv, NEW o \in DOMAIN obligations, Gap(obligations[o], conflicts, tests[o]) = "none"
  PROVE  o \in Verified
<1> DEFINE b == obligations[o]
<1>1. b.links \in Links /\ conflicts \in [Conflict -> ConflictState]
  BY DEF QualityInv, ObligationsKept, TypeOK
<1>2. o \in Obligation /\ tests[o] \in {"none", "listed", "executed"}
  BY DEF QualityInv, TypeOK
<1>3. FirstBad(b.links, conflicts) \notin {"missing", "unresolved"}
  BY DEF Gap
<1>4. tests[o] = "executed" /\ MayGate(b.oracle) /\ ObligationStatus(b, conflicts) = "covered"
  BY <1>2, <1>3 DEF Gap
<1>5. b.evidence
  BY <1>3, <1>4 DEF ObligationStatus
<1> QED
  BY <1>1, <1>3, <1>4, <1>5, NoneBad DEF Verified

-----------------------------------------------------------------------------
(* The inductive invariant.                                                 *)

LEMMA InitIInv == QualityInit => QualityInv
<1> SUFFICES ASSUME QualityInit PROVE QualityInv
  OBVIOUS
<1>1. TypeOK
  BY DEF QualityInit, TypeOK, ConflictState
<1>2. <<>> \in Runs
  <2>1. 0 \in 0..MaxRuns /\ <<>> \in [1..0 -> Observation]
    BY QualityAssumption
  <2> QED
    BY <2>1 DEF Runs
<1>3. ReportsMade
  BY <1>2 DEF QualityInit, ReportsMade
<1>4. VerdictsKnown
  BY DEF QualityInit, VerdictsKnown, None, NoDefect
<1>5. ObligationsKept /\ GapsMonotone
  BY DEF QualityInit, ObligationsKept, GapsMonotone
<1>6. ReadyIsEarned /\ RecordsRevive
  BY DEF QualityInit, ReadyIsEarned, RecordsRevive, None, NoDefect
<1> QED
  BY <1>1, <1>3, <1>4, <1>5, <1>6 DEF QualityInv, QualityInit

\* What the steps of the candidate leave alone.
LEMMA ObligationsAside ==
  ASSUME QualityInv, stage = "candidate", UNCHANGED <<obligationVars, release>>,
         defect'.status = defect.status \/ defect = NoDefect
  PROVE  /\ ObligationsKept' /\ GapsMonotone' /\ release' = None /\ ReadyIsEarned'
         /\ conflicts' \in [Conflict -> ConflictState] /\ DOMAIN obligations' \subseteq Obligation
         /\ tests' \in [Obligation -> {"none", "listed", "executed"}]
<1>1. release = None
  BY DEF QualityInv
<1>2. Regression \in DOMAIN obligations => defect'.status = "regression-recorded"
  BY DEF QualityInv, ObligationsKept, NoDefect
<1> QED
  BY <1>1, <1>2 DEF QualityInv, TypeOK, obligationVars, ObligationsKept, GapsMonotone, Verified,
       ReadyIsEarned, None

\* Who only changes the proposal or the worktree.
LEMMA ProposalIInv ==
  ASSUME QualityInv, stage = "candidate",
         UNCHANGED <<stage, reportVars, defect, obligationVars, release>>,
         proposal' \in {"none", "proposed", "rejected"},
         worktree' \in {"none", "pinned", "written", "stray", "gone"}
  PROVE  QualityInv'
<1>1. ReportsMade' /\ VerdictsKnown' /\ RecordsRevive'
  BY DEF QualityInv, reportVars, ReportsMade, VerdictsKnown, RecordsRevive
<1> QED
  BY <1>1, ObligationsAside DEF QualityInv, TypeOK

LEMMA StabilityIInv == ASSUME QualityInv, EvaluateStability PROVE QualityInv'
<1>1. PICK who \in Candidate, r \in Runs : runs' = r /\ stability' = StabilityReport(who, r)
  BY DEF EvaluateStability
<1>2. stage = "candidate" /\ stage' = stage
      /\ UNCHANGED <<proposal, worktree, trials, discrimination, decision, defect,
                     obligationVars, release>>
  BY DEF EvaluateStability
<1>3. ReportsMade' /\ VerdictsKnown'
  BY <1>1, <1>2 DEF QualityInv, ReportsMade, VerdictsKnown
<1>4. StabilityReadable(stability')
  BY <1>1, StabilityRead
<1> HIDE DEF None, NoDefect
<1>5. RecordsRevive'
  BY <1>2, <1>4 DEF QualityInv, RecordsRevive
<1> QED
  BY <1>2, <1>3, <1>5, ObligationsAside DEF QualityInv, TypeOK

LEMMA DiscriminationIInv == ASSUME QualityInv, EvaluateDiscrimination PROVE QualityInv'
<1>1. PICK who \in Candidate, t \in SUBSET Trial :
        trials' = t /\ discrimination' = DiscriminationReport(who, t)
  BY DEF EvaluateDiscrimination
<1>2. stage = "candidate" /\ stage' = stage
      /\ UNCHANGED <<proposal, worktree, runs, stability, decision, defect,
                     obligationVars, release>>
  BY DEF EvaluateDiscrimination
<1>3. DiscriminationReadable(discrimination')
      /\ discrimination'.verdict \in {"not-run", "unproven", "proven"}
  BY <1>1, DiscriminationRead
<1>4. ReportsMade' /\ VerdictsKnown'
  BY <1>1, <1>2, <1>3 DEF QualityInv, ReportsMade, VerdictsKnown
<1>5. RecordsRevive'
  BY <1>2, <1>3 DEF QualityInv, RecordsRevive
<1> QED
  BY <1>2, <1>4, <1>5, ObligationsAside DEF QualityInv, TypeOK

LEMMA DefectIInv == ASSUME QualityInv, CreateDefectReport PROVE QualityInv'
<1>1. PICK class, claims, given, s :
        defect' = [status |-> "open", regression |-> Unset,
                   reproduction |-> ReproductionReport(Own, class, s, claims)]
  BY DEF CreateDefectReport
<1>2. stage = "candidate" /\ defect = NoDefect /\ stage' = stage
      /\ UNCHANGED <<candidateVars, obligationVars, release>>
  BY DEF CreateDefectReport
<1>3. /\ ReproductionReadable(defect'.reproduction)
      /\ defect'.reproduction.status \in {"observed", "unresolved", "reproduced", "minimized"}
  BY <1>1, ReproductionRead
<1>4. ReportsMade' /\ VerdictsKnown'
  BY <1>1, <1>2, <1>3 DEF QualityInv, candidateVars, reportVars, ReportsMade, VerdictsKnown
<1>5. RecordsRevive'
  BY <1>1, <1>2, <1>3 DEF QualityInv, candidateVars, reportVars, RecordsRevive, DefectReadable
<1> QED
  BY <1>2, <1>4, <1>5, ObligationsAside DEF QualityInv, TypeOK, candidateVars

\* The records are cut to what is read later; a decision is read back.
LEMMA EndIInv ==
  ASSUME QualityInv, stage = "candidate", EndCandidate, decision' # None => AdmissionReadable(decision'),
         UNCHANGED <<proposal, worktree, obligationVars, release>>
  PROVE  QualityInv'
<1>1. Brief(discrimination).verdict \in {"none", "not-run", "unproven", "proven"}
  BY DEF QualityInv, VerdictsKnown, Brief, None
<1>2. /\ defect = NoDefect => defect' = NoDefect
      /\ defect # NoDefect =>
           defect' = [status |-> defect.status, regression |-> defect.regression,
                      reproduction |-> [status |-> defect.reproduction.status]]
  BY DEF QualityInv, VerdictsKnown, EndCandidate
<1>3. stage' = "obligations" /\ discrimination' = Brief(discrimination)
  BY DEF EndCandidate
<1>4. ReportsMade' /\ VerdictsKnown'
  BY <1>1, <1>2, <1>3 DEF QualityInv, ReportsMade, VerdictsKnown, NoDefect
<1>5. defect'.status = defect.status
  BY <1>2
<1>6. /\ ObligationsKept' /\ GapsMonotone' /\ release' = None /\ ReadyIsEarned'
      /\ conflicts' \in [Conflict -> ConflictState] /\ DOMAIN obligations' \subseteq Obligation
      /\ tests' \in [Obligation -> {"none", "listed", "executed"}]
  BY <1>5, ObligationsAside
<1>7. RecordsRevive'
  BY <1>2, <1>3, <1>6 DEF QualityInv, RecordsRevive, DefectReadable
<1> QED
  BY <1>3, <1>4, <1>6, <1>7 DEF QualityInv, TypeOK

LEMMA DecideIInv == ASSUME QualityInv, DecideAdmission PROVE QualityInv'
<1>1. PICK reasons : decision' = Decision(reasons)
  BY DEF DecideAdmission
<1>2. AdmissionReadable(decision')
  BY <1>1 DEF Decision, AdmissionReadable
<1> QED
  BY <1>2, EndIInv DEF DecideAdmission

LEMMA LeaveIInv == ASSUME QualityInv, LeaveUndecided PROVE QualityInv'
BY EndIInv DEF LeaveUndecided, QualityInv, RecordsRevive

\* What the steps of the obligations leave alone.
LEMMA CandidateAside ==
  ASSUME QualityInv, stage = "obligations", UNCHANGED <<candidateVars, release>>, stage' = stage,
         VerdictsKnown', defect' # NoDefect => DefectReadable(defect'),
         ObligationsKept', GapsMonotone',
         conflicts' \in [Conflict -> ConflictState], DOMAIN obligations' \subseteq Obligation,
         tests' \in [Obligation -> {"none", "listed", "executed"}]
  PROVE  QualityInv'
<1>1. release' = None /\ ReadyIsEarned'
  BY DEF QualityInv, ReadyIsEarned, None
<1>2. ReportsMade' /\ RecordsRevive'
  BY <1>1 DEF QualityInv, candidateVars, reportVars, ReportsMade, RecordsRevive
<1> QED
  BY <1>1, <1>2 DEF QualityInv, TypeOK, candidateVars

\* When nothing is lost, what was verified stays so.
LEMMA GapsStay ==
  ASSUME QualityInv, UNCHANGED gaps, DOMAIN obligations \subseteq DOMAIN obligations',
         conflicts \in [Conflict -> ConflictState],
         \A k \in Conflict : conflicts[k] = "resolved" => conflicts'[k] = "resolved",
         \A o \in DOMAIN obligations :
           /\ obligations'[o].links = obligations[o].links
           /\ obligations'[o].oracle = obligations[o].oracle
           /\ obligations[o].evidence => obligations'[o].evidence
           /\ tests[o] = "executed" => tests'[o] = "executed"
  PROVE  GapsMonotone'
<1>1. ASSUME NEW o \in Verified PROVE o \in Verified'
  <2>1. o \in DOMAIN obligations /\ obligations[o].links \in Seq(Conflict)
    BY EngineAssumption DEF Verified, QualityInv, ObligationsKept
  <2>2. \A i \in DOMAIN obligations[o].links : conflicts'[obligations[o].links[i]] = "resolved"
    BY <2>1 DEF Verified
  <2> QED
    BY <2>1, <2>2 DEF Verified
<1> QED
  BY <1>1 DEF QualityInv, GapsMonotone

LEMMA ConflictIInv ==
  ASSUME QualityInv, NEW k \in Conflict, CreateRequirementConflict(k) \/ ResolveRequirementConflict(k)
  PROVE  QualityInv'
<1>1. /\ stage = "obligations" /\ stage' = stage
      /\ UNCHANGED <<candidateVars, obligations, tests, gaps, defect, release>>
      /\ conflicts' \in [Conflict -> ConflictState]
      /\ \A j \in Conflict : conflicts[j] = "resolved" => conflicts'[j] = "resolved"
  BY DEF QualityInv, TypeOK, ConflictState, CreateRequirementConflict, ResolveRequirementConflict
<1>2. VerdictsKnown' /\ ObligationsKept' /\ (defect' # NoDefect => DefectReadable(defect'))
  BY <1>1 DEF QualityInv, VerdictsKnown, ObligationsKept, RecordsRevive, candidateVars, reportVars
<1>3. GapsMonotone'
  BY <1>1, GapsStay DEF QualityInv, TypeOK
<1> QED
  BY <1>1, <1>2, <1>3, CandidateAside DEF QualityInv, TypeOK

\* A new obligation leaves the others as they are.
LEMMA AddIInv ==
  ASSUME QualityInv, stage = "obligations", stage' = stage,
         NEW o \in Obligation, o \notin DOMAIN obligations,
         NEW oracle \in OracleUsed, NEW links \in Links,
         obligations' = [p \in DOMAIN obligations \cup {o} |->
                           IF p = o THEN Opened(oracle, links) ELSE obligations[p]],
         UNCHANGED <<candidateVars, conflicts, tests, gaps, release>>,
         VerdictsKnown', defect' # NoDefect => DefectReadable(defect'),
         Regression \in DOMAIN obligations' => defect'.status = "regression-recorded"
  PROVE  QualityInv'
<1>1. Opened(oracle, links) \in [oracle : OracleUsed, links : Links, evidence : BOOLEAN]
  BY DEF Opened
<1>2. ObligationsKept' /\ DOMAIN obligations' \subseteq Obligation
  BY <1>1 DEF QualityInv, TypeOK, ObligationsKept
<1>3. \A p \in DOMAIN obligations : obligations'[p] = obligations[p]
  OBVIOUS
<1>4. GapsMonotone'
  BY <1>3, GapsStay DEF QualityInv, TypeOK
<1> QED
  BY <1>2, <1>4, CandidateAside DEF QualityInv, TypeOK

LEMMA CreateIInv ==
  ASSUME QualityInv, NEW o \in Obligation, CreateTestObligation(o) PROVE QualityInv'
<1>1. PICK oracle \in OracleUsed, links \in Links :
        obligations' = [p \in DOMAIN obligations \cup {o} |->
                          IF p = o THEN Opened(oracle, links) ELSE obligations[p]]
  BY DEF CreateTestObligation
<1>2. /\ stage = "obligations" /\ stage' = stage /\ o \notin DOMAIN obligations /\ o # Regression
      /\ UNCHANGED <<candidateVars, conflicts, tests, gaps, defect, release>>
  BY DEF CreateTestObligation
<1>3. VerdictsKnown' /\ (defect' # NoDefect => DefectReadable(defect'))
  BY <1>2 DEF QualityInv, VerdictsKnown, RecordsRevive, candidateVars, reportVars
<1>4. Regression \in DOMAIN obligations' => defect'.status = "regression-recorded"
  BY <1>1, <1>2 DEF QualityInv, ObligationsKept
<1> QED
  BY <1>1, <1>2, <1>3, <1>4, AddIInv

LEMMA RegressionIInv ==
  ASSUME QualityInv, RecordRegressionObligation PROVE QualityInv'
<1>1. PICK oracle \in OracleUsed :
        obligations' = [p \in DOMAIN obligations \cup {Regression} |->
                          IF p = Regression THEN Opened(oracle, <<>>) ELSE obligations[p]]
  BY DEF RecordRegressionObligation
<1>2. /\ stage = "obligations" /\ stage' = stage /\ defect.status = "open"
      /\ defect' = [defect EXCEPT !.status = "regression-recorded", !.regression = Regression]
      /\ UNCHANGED <<candidateVars, conflicts, tests, gaps, release>>
  BY DEF RecordRegressionObligation
<1>3. defect # NoDefect /\ Regression \notin DOMAIN obligations
  BY <1>2 DEF QualityInv, ObligationsKept, NoDefect
<1>4. defect' = [status |-> "regression-recorded", regression |-> Regression,
                 reproduction |-> defect.reproduction]
  BY <1>2, <1>3 DEF QualityInv, VerdictsKnown
<1>5. VerdictsKnown' /\ DefectReadable(defect')
  BY <1>2, <1>3, <1>4, EngineAssumption
     DEF QualityInv, VerdictsKnown, DefectReadable, candidateVars, reportVars
<1> QED
  BY <1>1, <1>2, <1>3, <1>4, <1>5, AddIInv, EngineAssumption

LEMMA EvidenceIInv ==
  ASSUME QualityInv, NEW o \in Obligation, AttachEvidence(o) PROVE QualityInv'
<1>1. /\ stage = "obligations" /\ stage' = stage /\ o \in DOMAIN obligations
      /\ obligations' = [obligations EXCEPT ![o].evidence = TRUE]
      /\ UNCHANGED <<candidateVars, conflicts, tests, gaps, defect, release>>
  BY DEF AttachEvidence
<1>2. VerdictsKnown' /\ (defect' # NoDefect => DefectReadable(defect'))
  BY <1>1 DEF QualityInv, VerdictsKnown, RecordsRevive, candidateVars, reportVars
<1>3. /\ DOMAIN obligations' = DOMAIN obligations
      /\ obligations'[o] = [obligations[o] EXCEPT !.evidence = TRUE]
      /\ \A p \in DOMAIN obligations : p # o => obligations'[p] = obligations[p]
      /\ obligations[o] \in [oracle : OracleUsed, links : Links, evidence : BOOLEAN]
  BY <1>1 DEF QualityInv, ObligationsKept
<1>4. ObligationsKept'
  BY <1>1, <1>3 DEF QualityInv, ObligationsKept
<1>5. \A p \in DOMAIN obligations :
        /\ obligations'[p].links = obligations[p].links
        /\ obligations'[p].oracle = obligations[p].oracle
        /\ obligations[p].evidence => obligations'[p].evidence
  BY <1>3
<1>6. GapsMonotone'
  BY <1>1, <1>3, <1>5, GapsStay DEF QualityInv, TypeOK
<1> QED
  BY <1>1, <1>2, <1>3, <1>4, <1>6, CandidateAside DEF QualityInv, TypeOK

LEMMA CoverIInv ==
  ASSUME QualityInv, NEW o \in Obligation, CoverObligation(o) PROVE QualityInv'
<1>1. /\ stage = "obligations" /\ stage' = stage /\ tests[o] # "executed"
      /\ tests' = [tests EXCEPT ![o] = IF @ = "none" THEN "listed" ELSE "executed"]
      /\ UNCHANGED <<candidateVars, conflicts, obligations, gaps, defect, release>>
  BY DEF CoverObligation
<1>2. VerdictsKnown' /\ ObligationsKept' /\ (defect' # NoDefect => DefectReadable(defect'))
  BY <1>1 DEF QualityInv, VerdictsKnown, ObligationsKept, RecordsRevive, candidateVars, reportVars
<1>3. /\ tests' \in [Obligation -> {"none", "listed", "executed"}]
      /\ \A p \in Obligation : tests[p] = "executed" => tests'[p] = "executed"
  BY <1>1 DEF QualityInv, TypeOK
<1>4. GapsMonotone'
  BY <1>1, <1>3, GapsStay DEF QualityInv, TypeOK
<1> QED
  BY <1>1, <1>2, <1>3, <1>4, CandidateAside DEF QualityInv, TypeOK

LEMMA GapsIInv == ASSUME QualityInv, DetectGaps PROVE QualityInv'
<1>1. /\ stage = "obligations" /\ stage' = stage
      /\ gaps' = [o \in DOMAIN obligations |-> Gap(obligations[o], conflicts, tests[o])]
      /\ UNCHANGED <<candidateVars, conflicts, obligations, tests, defect, release>>
  BY DEF DetectGaps
<1>2. VerdictsKnown' /\ ObligationsKept' /\ (defect' # NoDefect => DefectReadable(defect'))
  BY <1>1 DEF QualityInv, VerdictsKnown, ObligationsKept, RecordsRevive, candidateVars, reportVars
<1>3. Verified' = Verified
  BY <1>1 DEF Verified
<1>4. GapsMonotone'
  BY <1>1, <1>3, NoGap DEF GapsMonotone
<1> QED
  BY <1>1, <1>2, <1>4, CandidateAside DEF QualityInv, TypeOK

\* Nothing residual is left only when every record says what it should.
LEMMA NothingResidual ==
  ASSUME QualityInv, ResidualItems = {}
  PROVE  /\ DOMAIN gaps \subseteq Verified
         /\ \A k \in Conflict : conflicts[k] # "unresolved"
         /\ decision.verdict # "held" /\ discrimination.verdict \in {"none", "proven"}
         /\ stability.verdict \in {"none", "deterministic-pass", "deterministic-fail"}
         /\ defect.status # "none" => defect.reproduction.status \in {"reproduced", "minimized"}
<1>1. OpenConflicts = {} /\ OpenGaps = {} /\ CandidateItems = {} /\ FailureItems = {}
  BY DEF ResidualItems
<1>2. \A k \in Conflict : conflicts[k] # "unresolved"
  BY <1>1 DEF OpenConflicts
<1>3. \A o \in DOMAIN gaps : gaps[o] = "none"
  BY <1>1 DEF OpenGaps
<1>4. stability.verdict \in {"none", "deterministic-pass", "deterministic-fail"}
  BY <1>1 DEF CandidateItems
<1>5. discrimination.verdict \notin {"not-run", "unproven"} /\ decision.verdict # "held"
  BY <1>1 DEF CandidateItems
<1>6. defect # NoDefect => defect.reproduction.status \notin {"observed", "unresolved"}
  BY <1>1 DEF FailureItems
<1>7. DOMAIN gaps \subseteq Verified
  BY <1>3 DEF QualityInv, GapsMonotone
<1>8. defect.status # "none" => defect.reproduction.status \in {"reproduced", "minimized"}
  BY <1>6 DEF QualityInv, VerdictsKnown, NoDefect
<1> QED
  BY <1>2, <1>4, <1>5, <1>7, <1>8 DEF QualityInv, VerdictsKnown

LEMMA ReleaseIInv == ASSUME QualityInv, RenderAndDecide PROVE QualityInv'
<1>1. /\ stage = "obligations" /\ stage' = "released"
      /\ release' = [verdict |-> IF ResidualItems = {} THEN "ready" ELSE "blocked",
                     blockers |-> ResidualItems]
      /\ UNCHANGED <<candidateVars, defect, obligationVars>>
  BY DEF RenderAndDecide
<1>2. release'.verdict = "ready" <=> ResidualItems = {}
  BY <1>1
<1>3. ReleaseReadable(release')
  BY <1>1, <1>2 DEF ReleaseReadable
<1>4. Verified' = Verified
  BY <1>1 DEF Verified, obligationVars
<1>5. ReadyIsEarned'
  BY <1>1, <1>2, <1>4, NothingResidual
     DEF ReadyIsEarned, candidateVars, reportVars, obligationVars
<1>6. ReportsMade' /\ VerdictsKnown' /\ ObligationsKept' /\ GapsMonotone'
  BY <1>1, <1>4 DEF QualityInv, ReportsMade, VerdictsKnown, ObligationsKept, GapsMonotone,
       candidateVars, reportVars, obligationVars
<1>7. RecordsRevive'
  BY <1>1, <1>3 DEF QualityInv, RecordsRevive, candidateVars, reportVars
<1> QED
  BY <1>1, <1>5, <1>6, <1>7 DEF QualityInv, TypeOK, candidateVars, obligationVars

LEMMA StutterIInv == ASSUME QualityInv, UNCHANGED qualityVars PROVE QualityInv'
<1>1. Verified' = Verified
  BY DEF Verified, qualityVars, obligationVars
<1>2. TypeOK' /\ ReportsMade' /\ VerdictsKnown' /\ ObligationsKept' /\ GapsMonotone'
  BY <1>1 DEF QualityInv, TypeOK, ReportsMade, VerdictsKnown, ObligationsKept, GapsMonotone,
       qualityVars, candidateVars, reportVars, obligationVars
<1>3. ReadyIsEarned' /\ RecordsRevive'
  BY <1>1 DEF QualityInv, ReadyIsEarned, RecordsRevive, qualityVars, candidateVars, reportVars, obligationVars
<1> QED
  BY <1>2, <1>3 DEF QualityInv, qualityVars

LEMMA NextIInv == QualityInv /\ [QualityNext]_qualityVars => QualityInv'
<1> SUFFICES ASSUME QualityInv, [QualityNext]_qualityVars PROVE QualityInv'
  OBVIOUS
<1>1. CASE UNCHANGED qualityVars
  BY <1>1, StutterIInv
<1>2. ASSUME CreateCandidateProposal \/ RejectCandidateProposal \/ CreateCandidateWorktree
               \/ MaterializeProposal \/ DisposeCandidateWorktree
      PROVE  QualityInv'
  BY <1>2, ProposalIInv DEF QualityInv, TypeOK, CreateCandidateProposal, RejectCandidateProposal,
       CreateCandidateWorktree, MaterializeProposal, DisposeCandidateWorktree
<1>3. CASE EvaluateStability
  BY <1>3, StabilityIInv
<1>4. CASE EvaluateDiscrimination
  BY <1>4, DiscriminationIInv
<1>5. CASE CreateDefectReport
  BY <1>5, DefectIInv
<1>6. CASE DecideAdmission
  BY <1>6, DecideIInv
<1>7. CASE LeaveUndecided
  BY <1>7, LeaveIInv
<1>8. CASE \E k \in Conflict : CreateRequirementConflict(k) \/ ResolveRequirementConflict(k)
  BY <1>8, ConflictIInv
<1>9. CASE \E o \in Obligation : CreateTestObligation(o) \/ AttachEvidence(o) \/ CoverObligation(o)
  BY <1>9, CreateIInv, EvidenceIInv, CoverIInv
<1>10. CASE DetectGaps
  BY <1>10, GapsIInv
<1>11. CASE RecordRegressionObligation
  BY <1>11, RegressionIInv
<1>12. CASE RenderAndDecide
  BY <1>12, ReleaseIInv
<1> QED
  BY <1>1, <1>2, <1>3, <1>4, <1>5, <1>6, <1>7, <1>8, <1>9, <1>10, <1>11, <1>12 DEF QualityNext

-----------------------------------------------------------------------------
(* The theorems of the quality engine.                                       *)

\* `ready' is decided only when, as things are then, all obligations that were searched are
\* verified and no record says otherwise.
THEOREM ReadyEarned == QualitySpec => []ReadyIsEarned
<1>1. QualityInv => ReadyIsEarned
  BY DEF QualityInv
<1> QED
  BY <1>1, InitIInv, NextIInv, PTL DEF QualitySpec

\* Every record an operation makes is accepted by the reader of its kind.
THEOREM RecordsReadBack == QualitySpec => []RecordsRevive
<1>1. QualityInv => RecordsRevive
  BY DEF QualityInv
<1> QED
  BY <1>1, InitIInv, NextIInv, PTL DEF QualitySpec

\* What is admitted has earned it by its own runs and trials.
LEMMA AdmittedStep ==
  ASSUME QualityInv, DecideAdmission, decision'.verdict = "admitted" PROVE Earned
<1>1. PICK human \in BOOLEAN :
        decision' = Decision(HeldReasons(proposal, Own, stability, discrimination, human))
  BY DEF DecideAdmission
<1> DEFINE held == HeldReasons(proposal, Own, stability, discrimination, human)
<1>2. held = {}
  BY <1>1 DEF Decision
<1>3. /\ "proposal-rejected" \notin held
      /\ "stability-not-deterministic-pass" \notin held
      /\ "discrimination-unproven" \notin held
  BY <1>2
<1>4. proposal = "proposed"
  BY <1>3 DEF HeldReasons
<1>5. Binds(stability, Own) /\ stability.verdict = "deterministic-pass"
  BY <1>3 DEF HeldReasons
<1>6. Binds(discrimination, Own) /\ discrimination.verdict = "proven"
  BY <1>3 DEF HeldReasons
<1>7. stage = "candidate" /\ stability # None /\ discrimination # None
  BY DEF DecideAdmission, Decidable
<1>8. /\ runs \in Runs /\ trials \in SUBSET Trial
      /\ \E who \in Candidate : stability = StabilityReport(who, runs)
      /\ \E who \in Candidate : discrimination = DiscriminationReport(who, trials)
  BY <1>7 DEF QualityInv, ReportsMade
<1>9. Verdict(runs) = "deterministic-pass"
  BY <1>5, <1>8 DEF StabilityReport
<1>10. Proven(trials) # {}
  BY <1>6, <1>8 DEF DiscriminationReport
<1>11. \E p \in Target : [target |-> p, detected |-> TRUE] \in trials
                         /\ [target |-> p, detected |-> FALSE] \notin trials
  BY <1>10 DEF Proven
<1> QED
  BY <1>4, <1>5, <1>6, <1>8, <1>9, <1>11, PassesCounted DEF Earned, Binds

\* A candidate is admitted only by enough passes of its own and a change it alone detected.
THEOREM AdmissionsAreEarned == QualitySpec => AdmissionEarned
<1>1. QualityInv /\ [QualityNext]_qualityVars => [decision' # decision /\ decision'.verdict = "admitted" => Earned]_qualityVars
  <2> SUFFICES ASSUME QualityInv, QualityNext, decision' # decision, decision'.verdict = "admitted"
               PROVE  Earned
    OBVIOUS
  <2>1. DecideAdmission
    BY DEF QualityNext, candidateVars, reportVars, CreateCandidateProposal, RejectCandidateProposal,
         CreateCandidateWorktree, MaterializeProposal, DisposeCandidateWorktree,
         EvaluateStability, EvaluateDiscrimination, CreateDefectReport, LeaveUndecided,
         CreateRequirementConflict, ResolveRequirementConflict, CreateTestObligation,
         AttachEvidence, CoverObligation, DetectGaps, RecordRegressionObligation, RenderAndDecide
  <2> QED
    BY <2>1, AdmittedStep
<1> QED
  BY <1>1, InitIInv, NextIInv, PTL DEF QualitySpec, AdmissionEarned

-----------------------------------------------------------------------------
(* The assurance case.  First the plan.                                     *)

\* An engine that is registered has a first entry.
LEMMA FirstIsThere ==
  ASSUME NEW r, \A x \in r : {x.impl, x.config} \subseteq Nat, NEW e, EntriesOf(r, e) # {}
  PROVE  FirstOf(r, e) \in EntriesOf(r, e)
<1> DEFINE E == EntriesOf(r, e)
           I == {x.impl : x \in E}
<1>1. \A x \in E : x.impl \in Nat /\ x.config \in Nat
  BY DEF EntriesOf
<1>2. PICK i \in I : \A m \in I : i <= m
  <2>1. I \in SUBSET Nat /\ I # {}
    BY <1>1
  <2> QED
    BY <2>1, Smallest
<1> DEFINE C == {x.config : x \in {y \in E : y.impl = i}}
<1>3. PICK c \in C : \A m \in C : c <= m
  <2>1. C \in SUBSET Nat /\ C # {}
    BY <1>1, <1>2
  <2> QED
    BY <2>1, Smallest
<1>4. PICK a \in E : a.impl = i /\ a.config = c
  BY <1>3
<1>5. ASSUME NEW b \in E
      PROVE  a.impl < b.impl \/ (a.impl = b.impl /\ a.config <= b.config)
  <2>1. i <= b.impl /\ (b.impl = i => c <= b.config)
    BY <1>2, <1>3
  <2>2. i \in Nat /\ c \in Nat /\ b.impl \in Nat /\ b.config \in Nat
    BY <1>1, <1>4
  <2> QED
    BY <1>4, <2>1, <2>2
<1> QED
  BY <1>4, <1>5, Zenon DEF FirstOf

-----------------------------------------------------------------------------
\* A record qualifies an entry when all of it fits.
LEMMA QualificationIs ==
  ASSUME NEW Q, NEW entry, NEW setting, NEW asOf \in Nat,
         \A q \in Q : q.at \in Nat /\ q.expires \in Nat
  PROVE  Qualification(Q, entry, setting, asOf) = "QUALIFICATION_SATISFIED" <=>
           \E q \in Q :
             /\ <<q.engine, q.impl, q.config, q.setting>>
                  = <<entry.engine, entry.impl, entry.config, setting>>
             /\ q.passed /\ q.at <= asOf /\ asOf < q.expires
<1>1. \A q : Drift(q, entry, setting, asOf) # "QUALIFICATION_SATISFIED"
  BY CaseAssumption DEF Drift
<1>2. \A q \in Q : Drift(q, entry, setting, asOf) = Absent <=>
        /\ q.impl = entry.impl /\ q.config = entry.config /\ q.setting = setting
        /\ q.passed /\ q.at <= asOf /\ asOf < q.expires
  BY CaseAssumption DEF Drift, DriftReason
<1>3. Qualification(Q, entry, setting, asOf) = "QUALIFICATION_SATISFIED" <=>
        \E q \in CandidatesFor(Q, entry) : Drift(q, entry, setting, asOf) = Absent
  BY <1>1 DEF Qualification
<1> QED
  BY <1>2, <1>3 DEF CandidatesFor

\* What the plan may use is what is usable, once the request keeps its own boundaries.
LEMMA SelectableIsUsable ==
  ASSUME KernelOK, progress = "planned", request \in Requests, RequestAdmitted(request),
         NEW x \in registry
  PROVE  Selectable(snapshot, quals, request, x) <=> Usable(x)
<1>1. /\ x.ceiling \in Nat /\ x.effects \subseteq Nat /\ request.asOf \in Nat
      /\ {request.phase, request.intent.ceiling, request.policy.ceiling} \subseteq Nat
      /\ request.effects \subseteq Nat
      /\ \A q \in quals : q.at \in Nat /\ q.expires \in Nat
  BY CaseAssumption DEF KernelOK
<1>2. Qualification(quals, x, request.setting, request.asOf) = "QUALIFICATION_SATISFIED" <=>
        \E q \in quals :
          /\ <<q.engine, q.impl, q.config, q.setting>>
               = <<x.engine, x.impl, x.config, request.setting>>
          /\ q.passed /\ q.at <= request.asOf /\ request.asOf < q.expires
  BY <1>1, QualificationIs
<1>3. CeilingDecision(x, request.effects) = "DESCRIPTOR_AUTHORITY_SATISFIED" <=>
        \A f \in request.effects : f \in x.effects /\ f <= x.ceiling
  <2>1. Exceeds(request.effects, x.ceiling) <=> ~ \A f \in request.effects : f <= x.ceiling
    BY <1>1 DEF Exceeds
  <2> QED
    BY <2>1 DEF CeilingDecision
<1>4. \A f \in request.effects : /\ f <= request.intent.ceiling /\ f <= request.policy.ceiling
                                 /\ f <= request.phase
  BY <1>1 DEF RequestAdmitted, Exceeds
<1>5. Authorized(x, request) <=> \A f \in request.effects : f \in x.effects /\ f <= x.ceiling
  <2>1. ViolatedBoundaries(x, request) = {} <=>
          CeilingDecision(x, request.effects) = "DESCRIPTOR_AUTHORITY_SATISFIED"
    BY DEF ViolatedBoundaries, RequestAdmitted
  <2> QED
    BY <1>3, <2>1 DEF Authorized
<1> QED
  BY <1>2, <1>4, <1>5 DEF Selectable, Usable

\* What a plan that is not refused says.
LEMMA PlanIs ==
  ASSUME PlanOK, progress = "planned", ~plan.refused
  PROVE  LET missed == {a \in registry :
                          /\ a.engine \notin plan.selected
                          /\ OmissionReason(registry, snapshot, quals, request, a.engine) # Absent}
         IN /\ RequestAdmitted(request) /\ SnapshotBinds(registry, snapshot)
            /\ plan.selected = SelectedEngines(registry, snapshot, quals, request)
            /\ DOMAIN plan.omitted = {a.engine : a \in missed}
            /\ PlanSound(plan, request.intent, request.policy)
<1> DEFINE base == DeterministicPlan(registry, snapshot, quals, request)
           Why(e) == OmissionReason(registry, snapshot, quals, request, e)
           missed == {a \in registry : a.engine \notin base.selected /\ Why(a.engine) # Absent}
           made == [base EXCEPT !.omitted = [e \in {a.engine : a \in missed} |-> Why(e)]]
<1>1. Refused.refused = TRUE
  BY DEF Refused
<1>2. base # Refused /\ plan = made /\ PlanSound(made, request.intent, request.policy)
  BY <1>1, Zenon DEF PlanOK, PlanWithOmissions
<1>3. /\ RequestAdmitted(request) /\ SnapshotBinds(registry, snapshot)
      /\ base.selected = SelectedEngines(registry, snapshot, quals, request)
      /\ DOMAIN base = {"refused", "intent", "policy", "checks", "effects", "selected", "omitted"}
  BY <1>2 DEF DeterministicPlan
<1>4. plan.selected = base.selected /\ DOMAIN plan.omitted = {a.engine : a \in missed}
  BY <1>2, <1>3
<1> QED
  BY <1>2, <1>3, <1>4, Zenon

\* The reasons omissions.ts knows are all there are for an engine not to be selected.
LEMMA PlanAccountsFor == ASSUME KernelOK, PlanOK PROVE PlanAccounts
<1> SUFFICES ASSUME progress = "planned", ~plan.refused
             PROVE  /\ plan.selected \cap DOMAIN plan.omitted = {}
                    /\ plan.selected \cup DOMAIN plan.omitted = {entry.engine : entry \in registry}
                    /\ \A e \in plan.selected : \E entry \in EntriesOf(registry, e) : Usable(entry)
                    /\ \A e \in DOMAIN plan.omitted :
                         \A entry \in EntriesOf(registry, e) : ~Usable(entry)
                    /\ plan.policy.mandatory \cap DOMAIN plan.omitted = {}
  BY DEF PlanAccounts
<1> DEFINE Why(e) == OmissionReason(registry, snapshot, quals, request, e)
           missed == {a \in registry : a.engine \notin plan.selected /\ Why(a.engine) # Absent}
<1>1. /\ RequestAdmitted(request) /\ SnapshotBinds(registry, snapshot)
      /\ plan.selected = SelectedEngines(registry, snapshot, quals, request)
      /\ DOMAIN plan.omitted = {a.engine : a \in missed}
      /\ PlanSound(plan, request.intent, request.policy)
  BY PlanIs, Zenon
<1>2. \A x \in registry : Selectable(snapshot, quals, request, x) <=> Usable(x)
  BY <1>1, SelectableIsUsable DEF PlanOK
<1>3. plan.selected = {x.engine : x \in {y \in registry : Usable(y)}}
  BY <1>1, <1>2 DEF SelectedEngines
<1>4. ASSUME NEW a \in registry, a.engine \notin plan.selected
      PROVE  Why(a.engine) # Absent
  <2> DEFINE x == FirstOf(registry, a.engine)
  <2>1. x \in registry /\ x.engine = a.engine
    <3>1. \A y \in registry : {y.impl, y.config} \subseteq Nat
      BY CaseAssumption DEF KernelOK
    <3>2. a \in EntriesOf(registry, a.engine)
      BY DEF EntriesOf
    <3>3. x \in EntriesOf(registry, a.engine)
      BY <3>1, <3>2, FirstIsThere, Zenon
    <3> QED
      BY <3>3 DEF EntriesOf
  <2>2. ~Selectable(snapshot, quals, request, x)
    BY <1>2, <1>3, <1>4, <2>1
  <2>3. snapshot.state[Identity(x)] \in Observable
    BY <1>1, <2>1 DEF KernelOK, SnapshotBinds
  <2>4. Absent \notin Reason
    BY CaseAssumption
  <2> HIDE DEF x
  <2>5. LET state == snapshot.state[Identity(x)]
        IN Why(a.engine) =
             IF state = "UNAVAILABLE" THEN "REQUIRED_ENGINE_UNAVAILABLE"
             ELSE IF \/ state = "NOT_QUALIFIED"
                     \/ Qualification(quals, x, request.setting, request.asOf)
                          # "QUALIFICATION_SATISFIED"
                  THEN "REQUIRED_ENGINE_NOT_QUALIFIED"
             ELSE IF ~Authorized(x, request) THEN "REQUIRED_ENGINE_EFFECT_EXCEEDS_CEILING"
             ELSE Absent
    BY Zenon DEF OmissionReason, x
  <2> QED
    BY <2>2, <2>3, <2>4, <2>5 DEF Selectable, Observable, Reason
<1> HIDE DEF Why
<1>5. plan.policy.mandatory \cap DOMAIN plan.omitted = {}
  BY <1>1 DEF PlanSound
<1>6. DOMAIN plan.omitted = {a.engine : a \in {y \in registry : y.engine \notin plan.selected}}
  BY <1>1, <1>4
<1> QED
  BY <1>3, <1>5, <1>6 DEF EntriesOf

-----------------------------------------------------------------------------
\* What an admitted claim tells of a piece of evidence is so when it is assessed.
LEMMA ClaimTells ==
  ASSUME EvidenceOK, ClaimOK, progress = "admitted", NEW c \in EvidenceClass,
         NEW e \in claim.classes[c]
  PROVE  (c = "stale") <=> ~Current(evidence[e], claim.at)
<1>1. evidence \in EvidenceGraphs /\ claim.at \in Nat
  BY CaseAssumption DEF EvidenceOK, ClaimOK
<1>2. e \in DOMAIN evidence
  BY DEF ClaimOK, AssessmentResolves, Told
<1>3. evidence[e].at \in Nat /\ evidence[e].expires \in Nat
  BY <1>1, <1>2, CaseAssumption
<1>4. /\ evidence[e].at <= claim.at
      /\ (claim.at >= evidence[e].expires) <=> (c = "stale")
  BY DEF ClaimOK, Classified
<1> QED
  BY <1>1, <1>3, <1>4 DEF Current

\* What is mandatory is told, and as what it is.
LEMMA ClaimIsEarned == ASSUME EvidenceOK, ClaimOK PROVE ClaimEarned
<1> SUFFICES ASSUME progress = "admitted"
             PROVE  /\ \A e \in claim.classes["supporting"] : Current(evidence[e], claim.at)
                    /\ claim.state = "SUPPORTED" =>
                         /\ mandatory \subseteq claim.classes["supporting"]
                         /\ \A c \in NonSupporting : claim.classes[c] = {}
                         /\ claim.omissions = {} /\ claim.contradictions = {}
                    /\ \A e \in mandatory :
                         \E c \in EvidenceClass :
                           /\ e \in claim.classes[c]
                           /\ (c = "stale") <=> ~Current(evidence[e], claim.at)
  BY DEF ClaimEarned
<1>1. \A e \in claim.classes["supporting"] : Current(evidence[e], claim.at)
  BY ClaimTells DEF EvidenceClass
<1>2. MandatoryVisible(claim, mandatory) /\ SupportedShape(claim)
  BY DEF ClaimOK, AssessmentResolves
<1>3. ASSUME NEW e \in mandatory
      PROVE  \E c \in EvidenceClass : e \in claim.classes[c]
  BY <1>2 DEF MandatoryVisible, Told, EvidenceClass
<1> QED
  BY <1>1, <1>2, <1>3, ClaimTells DEF MandatoryVisible, SupportedShape, Told

-----------------------------------------------------------------------------
\* A parent is an earlier attempt, so the attempts lead down to a first.
LEMMA RunsAreGrounded ==
  ASSUME EnginesOK, engines # Absent PROVE RunsGrounded
<1> DEFINE taken == engines.runs
<1>1. /\ engines \in EngineGraphs
      /\ EngineGraphSound(plan, engines.descriptors, engines.quals, taken)
  BY DEF EnginesOK
<1>2. ASSUME NEW r \in DOMAIN taken
      PROVE  /\ taken[r].engine \in plan.selected
             /\ taken[r].qual \in DOMAIN engines.quals
             /\ LET q == engines.quals[taken[r].qual]
                IN /\ q.engine = taken[r].engine /\ q.config = taken[r].config /\ q.passed
                   /\ q.at <= taken[r].start /\ taken[r].start < q.expires
             /\ RunLineage(taken, r)
  BY <1>1 DEF EngineGraphSound, RunBound, QualificationApplies
<1>3. WellFounded(DOMAIN taken, LAMBDA r : {taken[r].parent})
  <2> SUFFICES ASSUME NEW S \in SUBSET DOMAIN taken, S # {}
               PROVE  \E x \in S : {taken[x].parent} \cap S = {}
    BY DEF WellFounded
  <2> DEFINE A == {taken[r].attempt : r \in S}
  <2>1. \A r \in S : taken[r].attempt \in Nat
    BY <1>1, CaseAssumption
  <2>2. PICK n \in A : \A m \in A : n <= m
    <3>1. A \in SUBSET Nat /\ A # {}
      BY <2>1
    <3> QED
      BY <3>1, Smallest
  <2>3. PICK x \in S : taken[x].attempt = n
    BY <2>2
  <2>4. ASSUME taken[x].parent \in S PROVE FALSE
    <3>1. taken[x].parent # Absent
      BY <1>1, <2>4, CaseAssumption
    <3>2. taken[taken[x].parent].attempt < taken[x].attempt
      BY <1>2, <2>3, <3>1, Zenon DEF RunLineage
    <3>3. n <= taken[taken[x].parent].attempt
      BY <2>2, <2>4
    <3> HIDE DEF taken
    <3> QED
      BY <2>1, <2>3, <2>4, <3>2, <3>3
  <2> QED
    BY <2>4
<1> QED
  BY <1>2, <1>3, Zenon DEF RunsGrounded, RunLineage

-----------------------------------------------------------------------------
\* The states events lead to, one after the other.
States(f, n, events) ==
  f = [i \in 0..n |-> IF i = 0 THEN Absent
                      ELSE IF f[i - 1] = events[i].from THEN events[i].to ELSE "broken"]

\* Events that each start where the one before ended do not break.
LEMMA StatesAre ==
  ASSUME NEW n \in Nat, n >= 1, NEW events,
         \A i \in 1..n : events[i].from = IF i = 1 THEN Absent ELSE events[i - 1].to
  PROVE  /\ \E f : States(f, n, events)
         /\ \A f : States(f, n, events) => f[n] = events[n].to
<1> DEFINE g == [i \in 0..n |-> IF i = 0 THEN Absent ELSE events[i].to]
<1>1. States(g, n, events)
  <2>1. ASSUME NEW i \in 0..n, i # 0
        PROVE  g[i] = IF g[i - 1] = events[i].from THEN events[i].to ELSE "broken"
    <3>1. i \in 1..n /\ i - 1 \in 0..n /\ (i - 1 = 0 <=> i = 1)
      BY <2>1
    <3> QED
      BY <3>1
  <2>2. g = [i \in 0..n |-> IF i = 0 THEN Absent
                            ELSE IF g[i - 1] = events[i].from THEN events[i].to ELSE "broken"]
    BY <2>1
  <2> QED
    BY <2>2, Zenon DEF States
<1>2. ASSUME NEW f, States(f, n, events), f[n] # g[n]
      PROVE  FALSE
  <2> DEFINE B == {i \in 0..n : f[i] # g[i]}
  <2>1. PICK b \in B : \A i \in B : b <= i
    <3>1. B \in SUBSET Nat /\ B # {}
      BY <1>2
    <3> QED
      BY <3>1, Smallest
  <2>2. f[b] = IF b = 0 THEN Absent
               ELSE IF f[b - 1] = events[b].from THEN events[b].to ELSE "broken"
    BY <1>2 DEF States
  <2>3. g[b] = IF b = 0 THEN Absent
               ELSE IF g[b - 1] = events[b].from THEN events[b].to ELSE "broken"
    BY <1>1 DEF States
  <2>4. b # 0 => b - 1 \in 0..n /\ ~(b <= b - 1)
    OBVIOUS
  <2>5. b # 0 => f[b - 1] = g[b - 1]
    BY <2>1, <2>4
  <2> QED
    BY <2>1, <2>2, <2>3, <2>5
<1>3. g[n] = events[n].to
  OBVIOUS
<1> HIDE DEF g
<1> QED
  BY <1>1, <1>2, <1>3

\* The times of events do not go back.
LEMMA EventsAreOrdered ==
  ASSUME NEW n \in Nat, NEW events, \A i \in 1..n : events[i].at \in Nat,
         \A i \in 1..n : i > 1 => events[i - 1].at <= events[i].at
  PROVE  \A i \in 1..n : events[i].at <= events[n].at
<1> DEFINE Late(i) == ~(events[i].at <= events[n].at)
<1> SUFFICES ASSUME NEW j \in 1..n, Late(j) PROVE FALSE
  OBVIOUS
<1>1. ~Late(n)
  OBVIOUS
<1>2. \A i \in 1..n : i > 1 /\ Late(i - 1) => Late(i)
  <2> SUFFICES ASSUME NEW i \in 1..n, i > 1, ~Late(i) PROVE ~Late(i - 1)
    OBVIOUS
  <2>1. i - 1 \in 1..n /\ n \in 1..n
    OBVIOUS
  <2>2. \A x, y, z \in Nat : x <= y /\ y <= z => x <= z
    OBVIOUS
  <2> QED
    BY <2>1, <2>2, Zenon
<1> HIDE DEF Late
<1> DEFINE B == {i \in Nat : i < n /\ Late(n - i)}
<1>3. PICK b \in B : \A i \in B : b <= i
  <2>1. n - j \in Nat /\ n - j < n /\ n - (n - j) = j
    OBVIOUS
  <2>2. B # {} /\ B \in SUBSET Nat
    BY <2>1
  <2> QED
    BY <2>2, Smallest
<1>4. b # 0
  BY <1>1, <1>3
<1>5. /\ b - 1 \in Nat /\ b - 1 < n /\ ~(b <= b - 1)
      /\ n - (b - 1) \in 1..n /\ n - (b - 1) > 1 /\ n - (b - 1) - 1 = n - b
  BY <1>3, <1>4
<1>6. ~Late(n - (b - 1))
  BY <1>3, <1>5
<1> QED
  BY <1>2, <1>3, <1>5, <1>6

\* The status of a finding is where its events lead, and a risk was accepted in time.
LEMMA FindingsAreGrounded ==
  ASSUME FindingsOK, findings # Absent PROVE FindingsGrounded
<1>1. /\ findings \in FindingGraphs
      /\ FindingGraphSound(findings.findings, findings.events, engines.runs, evidence)
  BY DEF FindingsOK
<1> SUFFICES ASSUME NEW f \in DOMAIN findings.findings
             PROVE  LET finding == findings.findings[f]
                        events == findings.events[f]
                        State[i \in 0..Cardinality(DOMAIN events)] ==
                          IF i = 0 THEN Absent
                          ELSE IF State[i - 1] = events[i].from THEN events[i].to ELSE "broken"
                    IN /\ State[Cardinality(DOMAIN events)] = finding.status
                       /\ finding.status = "ACCEPTED_RISK" =>
                            \A i \in DOMAIN events : events[i].at < finding.disposition.expires
  BY DEF FindingsGrounded
<1> DEFINE finding == findings.findings[f]
           events == findings.events[f]
           n == Cardinality(DOMAIN events)
<1>2. f \in DOMAIN findings.events /\ LifecycleSound(finding, events, evidence)
  BY <1>1, Zenon DEF FindingGraphSound
<1>3. /\ IsFiniteSet(DOMAIN events)
      /\ \A i \in DOMAIN events :
           /\ events[i].at \in Nat
           /\ events[i].expires \in Nat \cup {Absent} /\ events[i].review \in Nat \cup {Absent}
  BY <1>1, <1>2, CaseAssumption
<1>4. n \in Nat
  BY <1>3, FS_CardinalityType
<1> HIDE DEF n
<1>5. /\ n >= 1 /\ DOMAIN events = 1..n
      /\ \A i \in 1..n :
           /\ EventSound(events[i])
           /\ events[i].from = IF i = 1 THEN Absent ELSE events[i - 1].to
           /\ i > 1 => events[i - 1].at <= events[i].at
      /\ events[n].to = finding.status
      /\ finding.status = "ACCEPTED_RISK" =>
           \A t \in ReasonTimes : events[n][t] = finding.disposition[t]
  BY <1>2, Zenon DEF LifecycleSound, n
<1> HIDE DEF events, finding
<1>6. /\ \E s : States(s, n, events)
      /\ \A s : States(s, n, events) => s[n] = finding.status
  BY <1>4, <1>5, StatesAre
<1>7. ASSUME finding.status = "ACCEPTED_RISK"
      PROVE  \A i \in DOMAIN events : events[i].at < finding.disposition.expires
  <2>1. \A i \in 1..n : events[i].at <= events[n].at
    BY <1>3, <1>4, <1>5, EventsAreOrdered
  <2>2. n \in 1..n
    BY <1>4, <1>5
  <2>3. events[n].expires # Absent /\ events[n].expires > events[n].at
    BY <1>5, <1>7, <2>2 DEF EventSound, ReasonTimes
  <2>4. events[n].expires = finding.disposition.expires
    BY <1>5, <1>7 DEF ReasonTimes
  <2> QED
    BY <1>3, <1>5, <2>1, <2>2, <2>3, <2>4
<1>8. (CHOOSE s : States(s, n, events))[n] = finding.status
  BY <1>6, Zenon
<1> QED
  BY <1>7, <1>8, Zenon DEF States, n, events, finding

-----------------------------------------------------------------------------
(* The search for rings.  A call is the ids to visit, those being visited and *)
(* those that were; a call below it visits fewer with the same being visited, *)
(* or has one more being visited.                                             *)

Visit(ids) == (SUBSET ids) \X (SUBSET ids) \X (SUBSET ids)

Reply(f, ev, c) ==
  IF c[1] = {} THEN c[3]
  ELSE LET e == CHOOSE x \in c[1] : TRUE
           below == IF e \in c[3] THEN c[3]
                    ELSE IF e \in c[2] THEN Absent
                    ELSE f[<<ev[e].parents, c[2] \cup {e}, c[3]>>]
       IN IF below = Absent THEN Absent ELSE f[<<c[1] \ {e}, c[2], below \cup {e}>>]

Visits(f, ev) == f = [c \in Visit(DOMAIN ev) |-> Reply(f, ev, c)]

Rank(ids, c) == Cardinality(ids \ c[2]) * (Cardinality(ids) + 1) + Cardinality(c[1])

ParentsThere(ev) ==
  IsFiniteSet(DOMAIN ev) /\ \A e \in DOMAIN ev : ev[e].parents \subseteq DOMAIN ev

\* The rank of a call is a number.
LEMMA RankIsNat ==
  ASSUME NEW ids, IsFiniteSet(ids), NEW c \in Visit(ids)
  PROVE  Rank(ids, c) \in Nat
<1>1. ids \ c[2] \subseteq ids /\ c[1] \subseteq ids
  BY DEF Visit
<1>2. /\ Cardinality(ids) \in Nat /\ Cardinality(c[1]) \in Nat
      /\ Cardinality(ids \ c[2]) \in Nat
  BY <1>1, FS_Subset, FS_CardinalityType
<1>3. \A a, b, k \in Nat : a * (k + 1) + b \in Nat
  OBVIOUS
<1> QED
  BY <1>2, <1>3, Zenon DEF Rank

\* Both calls a call makes are of a lower rank.
LEMMA RankFalls ==
  ASSUME NEW ids, IsFiniteSet(ids), NEW c \in Visit(ids), NEW e \in c[1],
         NEW s \in SUBSET ids
  PROVE  /\ LET d == <<c[1] \ {e}, c[2], s>> IN d \in Visit(ids) /\ Rank(ids, d) < Rank(ids, c)
         /\ \A P \in SUBSET ids : e \notin c[2] =>
              LET d == <<P, c[2] \cup {e}, s>> IN d \in Visit(ids) /\ Rank(ids, d) < Rank(ids, c)
<1>1. /\ c[1] \subseteq ids /\ c[2] \subseteq ids /\ e \in ids
      /\ ids \ c[2] \subseteq ids
  BY DEF Visit
<1>2. /\ IsFiniteSet(c[1]) /\ IsFiniteSet(ids \ c[2])
      /\ Cardinality(ids) \in Nat /\ Cardinality(c[1]) \in Nat
      /\ Cardinality(ids \ c[2]) \in Nat
  BY <1>1, FS_Subset, FS_CardinalityType
<1>3. /\ <<c[1] \ {e}, c[2], s>> \in Visit(ids)
      /\ \A P \in SUBSET ids : <<P, c[2] \cup {e}, s>> \in Visit(ids)
  BY <1>1 DEF Visit
<1>4. Cardinality(c[1] \ {e}) = Cardinality(c[1]) - 1
  BY <1>2, FS_RemoveElement
<1>5. Rank(ids, <<c[1] \ {e}, c[2], s>>) < Rank(ids, c)
  <2>1. \A a, b, k \in Nat : a * (k + 1) + (b - 1) < a * (k + 1) + b
    OBVIOUS
  <2>2. Cardinality(ids \ c[2]) * (Cardinality(ids) + 1) + (Cardinality(c[1]) - 1)
          < Cardinality(ids \ c[2]) * (Cardinality(ids) + 1) + Cardinality(c[1])
    BY <1>2, <2>1, Zenon
  <2>3. Rank(ids, <<c[1] \ {e}, c[2], s>>) =
          Cardinality(ids \ c[2]) * (Cardinality(ids) + 1) + Cardinality(c[1] \ {e})
    BY DEF Rank
  <2> QED
    BY <1>4, <2>2, <2>3, Zenon DEF Rank
<1>6. ASSUME NEW P \in SUBSET ids, e \notin c[2]
      PROVE  Rank(ids, <<P, c[2] \cup {e}, s>>) < Rank(ids, c)
  <2>1. Cardinality(ids \ (c[2] \cup {e})) = Cardinality(ids \ c[2]) - 1
    <3>1. ids \ (c[2] \cup {e}) = (ids \ c[2]) \ {e} /\ e \in ids \ c[2]
      BY <1>1, <1>6
    <3>2. Cardinality((ids \ c[2]) \ {e}) = Cardinality(ids \ c[2]) - 1
      BY <1>2, <3>1, FS_RemoveElement
    <3> QED
      BY <3>1, <3>2
  <2>2. Cardinality(P) \in Nat /\ Cardinality(P) <= Cardinality(ids)
    BY FS_Subset, FS_CardinalityType
  <2>3. \A a, b, k, p \in Nat : p <= k => (a - 1) * (k + 1) + p < a * (k + 1) + b
    OBVIOUS
  <2>4. (Cardinality(ids \ c[2]) - 1) * (Cardinality(ids) + 1) + Cardinality(P)
          < Cardinality(ids \ c[2]) * (Cardinality(ids) + 1) + Cardinality(c[1])
    BY <1>2, <2>2, <2>3, Zenon
  <2>5. Rank(ids, <<P, c[2] \cup {e}, s>>) =
          Cardinality(ids \ (c[2] \cup {e})) * (Cardinality(ids) + 1) + Cardinality(P)
    BY DEF Rank
  <2> QED
    BY <2>1, <2>4, <2>5, Zenon DEF Rank
<1> QED
  BY <1>3, <1>5, <1>6

\* What a call leads to depends on calls of a lower rank only.
LEMMA ReplyAgrees ==
  ASSUME NEW ev, ParentsThere(ev), NEW c \in Visit(DOMAIN ev), NEW f, NEW g,
         \A d \in Visit(DOMAIN ev) :
           Rank(DOMAIN ev, d) < Rank(DOMAIN ev, c) =>
             f[d] = g[d] /\ (f[d] = Absent \/ f[d] \in SUBSET DOMAIN ev)
  PROVE  /\ Reply(f, ev, c) = Reply(g, ev, c)
         /\ Reply(f, ev, c) = Absent \/ Reply(f, ev, c) \in SUBSET DOMAIN ev
<1> DEFINE ids == DOMAIN ev
<1>1. c[1] \subseteq ids /\ c[2] \subseteq ids /\ c[3] \subseteq ids
  BY DEF Visit
<1>2. CASE c[1] = {}
  BY <1>1, <1>2, Zenon DEF Reply
<1>3. CASE c[1] # {}
  <2> DEFINE e == CHOOSE x \in c[1] : TRUE
             below(h) == IF e \in c[3] THEN c[3]
                         ELSE IF e \in c[2] THEN Absent
                         ELSE h[<<ev[e].parents, c[2] \cup {e}, c[3]>>]
  <2>1. e \in c[1]
    BY <1>3
  <2>2. \A h : Reply(h, ev, c) =
          IF below(h) = Absent THEN Absent ELSE h[<<c[1] \ {e}, c[2], below(h) \cup {e}>>]
    BY <1>3, Zenon DEF Reply
  <2> HIDE DEF e
  <2>3. below(f) = below(g) /\ (below(f) = Absent \/ below(f) \in SUBSET ids)
    <3>1. CASE e \in c[3]
      BY <1>1, <3>1
    <3>2. CASE e \notin c[3] /\ e \in c[2]
      BY <3>2
    <3>3. CASE e \notin c[3] /\ e \notin c[2]
      <4> DEFINE d == <<ev[e].parents, c[2] \cup {e}, c[3]>>
      <4>1. ev[e].parents \in SUBSET ids /\ c[3] \in SUBSET ids
        BY <1>1, <2>1 DEF ParentsThere
      <4>2. d \in Visit(ids) /\ Rank(ids, d) < Rank(ids, c)
        BY <2>1, <3>3, <4>1, RankFalls DEF ParentsThere
      <4>3. f[d] = g[d] /\ (f[d] = Absent \/ f[d] \in SUBSET ids)
        BY <4>2, Zenon
      <4> QED
        BY <3>3, <4>3, Zenon
    <3> QED
      BY <3>1, <3>2, <3>3
  <2> HIDE DEF below
  <2>4. CASE below(f) = Absent
    BY <2>2, <2>3, <2>4, Zenon
  <2>5. CASE below(f) # Absent
    <3> DEFINE d == <<c[1] \ {e}, c[2], below(f) \cup {e}>>
    <3>1. below(f) \cup {e} \in SUBSET ids
      BY <1>1, <2>1, <2>3, <2>5
    <3>2. d \in Visit(ids) /\ Rank(ids, d) < Rank(ids, c)
      BY <2>1, <3>1, RankFalls DEF ParentsThere
    <3>3. f[d] = g[d] /\ (f[d] = Absent \/ f[d] \in SUBSET ids)
      BY <3>2, Zenon
    <3>4. Reply(f, ev, c) = f[d] /\ Reply(g, ev, c) = g[d]
      BY <2>2, <2>3, <2>5, Zenon
    <3> QED
      BY <3>3, <3>4, Zenon
  <2> QED
    BY <2>4, <2>5
<1> QED
  BY <1>2, <1>3

\* So there is a function that answers every call.
LEMMA VisitsExist == ASSUME NEW ev, ParentsThere(ev) PROVE \E f : Visits(f, ev)
<1> DEFINE ids == DOMAIN ev
           V == Visit(ids)
           Answers(f, n) == \A c \in V : Rank(ids, c) < n =>
                              /\ f[c] = Reply(f, ev, c)
                              /\ f[c] = Absent \/ f[c] \in SUBSET ids
           Bad == {n \in Nat : \A f : ~Answers(f, n)}
<1>1. \A c \in V : Rank(ids, c) \in Nat
  BY RankIsNat DEF ParentsThere
<1>2. Bad = {}
  <2> SUFFICES ASSUME Bad # {} PROVE FALSE
    OBVIOUS
  <2>1. PICK b \in Bad : \A m \in Bad : b <= m
    <3>1. Bad \in SUBSET Nat
      OBVIOUS
    <3> QED
      BY <3>1, Smallest
  <2>2. b # 0
    <3>1. Answers([c \in V |-> Absent], 0)
      BY <1>1
    <3> QED
      BY <3>1
  <2>3. b - 1 \in Nat /\ b - 1 \notin Bad
    BY <2>1, <2>2
  <2>4. PICK f : Answers(f, b - 1)
    BY <2>3
  <2> DEFINE g == [c \in V |-> IF Rank(ids, c) < b - 1 THEN f[c] ELSE Reply(f, ev, c)]
  <2>5. ASSUME NEW c \in V, Rank(ids, c) < b
        PROVE  /\ g[c] = Reply(g, ev, c)
               /\ g[c] = Absent \/ g[c] \in SUBSET ids
    <3>1. \A d \in V : Rank(ids, d) < Rank(ids, c) =>
            f[d] = g[d] /\ (f[d] = Absent \/ f[d] \in SUBSET ids)
      <4> SUFFICES ASSUME NEW d \in V, Rank(ids, d) < Rank(ids, c)
                   PROVE  f[d] = g[d] /\ (f[d] = Absent \/ f[d] \in SUBSET ids)
        OBVIOUS
      <4>1. Rank(ids, d) < b - 1
        BY <1>1, <2>3, <2>5
      <4> QED
        BY <2>4, <4>1
    <3>2. /\ Reply(f, ev, c) = Reply(g, ev, c)
          /\ Reply(f, ev, c) = Absent \/ Reply(f, ev, c) \in SUBSET ids
      <4> HIDE DEF g
      <4> QED
        BY <3>1, ReplyAgrees
    <3>3. g[c] = Reply(f, ev, c)
      BY <2>4
    <3> QED
      BY <3>2, <3>3, Zenon
  <2>6. Answers(g, b)
    BY <2>5
  <2> QED
    BY <2>1, <2>6
<1>3. PICK m \in Nat : \A c \in V : Rank(ids, c) < m
  <2> DEFINE K == Cardinality(ids)
  <2>1. K \in Nat
    BY FS_CardinalityType DEF ParentsThere
  <2>2. K * (K + 1) + K + 1 \in Nat
    BY <2>1
  <2>3. ASSUME NEW c \in V PROVE Rank(ids, c) < K * (K + 1) + K + 1
    <3>1. c[1] \in SUBSET ids /\ ids \ c[2] \in SUBSET ids
      BY DEF Visit
    <3>2. /\ Cardinality(c[1]) \in Nat /\ Cardinality(c[1]) <= K
          /\ Cardinality(ids \ c[2]) \in Nat /\ Cardinality(ids \ c[2]) <= K
      BY <3>1, FS_Subset, FS_CardinalityType DEF ParentsThere
    <3>3. \A a, d, k \in Nat : a <= k /\ d <= k => a * (k + 1) + d < k * (k + 1) + k + 1
      <4> SUFFICES ASSUME NEW a \in Nat, NEW d \in Nat, NEW k \in Nat, a <= k, d <= k
                   PROVE  a * (k + 1) + d < k * (k + 1) + k + 1
        OBVIOUS
      <4>1. a * (k + 1) <= k * (k + 1)
        OBVIOUS
      <4>2. a * (k + 1) \in Nat /\ k * (k + 1) \in Nat
        OBVIOUS
      <4> QED
        BY <4>1, <4>2
    <3> QED
      BY <2>1, <3>2, <3>3, Zenon DEF Rank
  <2> HIDE DEF K
  <2> QED
    BY <2>2, <2>3
<1>4. PICK f : Answers(f, m)
  BY <1>2
<1> DEFINE h == [c \in V |-> f[c]]
<1>5. h = [c \in V |-> Reply(h, ev, c)]
  <2> SUFFICES ASSUME NEW c \in V PROVE f[c] = Reply(h, ev, c)
    OBVIOUS
  <2>1. \A d \in V : Rank(ids, d) < Rank(ids, c) =>
          f[d] = h[d] /\ (f[d] = Absent \/ f[d] \in SUBSET ids)
    BY <1>3, <1>4
  <2>2. Reply(f, ev, c) = Reply(h, ev, c)
    <3> HIDE DEF h
    <3> QED
      BY <2>1, ReplyAgrees
  <2> QED
    BY <1>3, <1>4, <2>2
<1> QED
  BY <1>5, Zenon DEF Visits

\* A set of evidence whose parents are in it, and in which nothing rests on itself.
Standing(ev, S) ==
  /\ S \subseteq DOMAIN ev /\ \A x \in S : ev[x].parents \subseteq S
  /\ \A T \in (SUBSET S) \ {{}} : \E x \in T : ev[x].parents \cap T = {}

\* What rests on what stands, stands.
LEMMA StandingGrows ==
  ASSUME NEW ev, NEW S, Standing(ev, S), NEW e \in DOMAIN ev, ev[e].parents \subseteq S
  PROVE  Standing(ev, S \cup {e})
<1>1. ASSUME NEW T \in SUBSET (S \cup {e}), T # {}
      PROVE  \E x \in T : ev[x].parents \cap T = {}
  <2>1. CASE T \cap S # {}
    <3>1. PICK x \in T \cap S : ev[x].parents \cap (T \cap S) = {}
      BY <2>1, Zenon DEF Standing
    <3>2. ev[x].parents \subseteq S
      BY DEF Standing
    <3> QED
      BY <3>1, <3>2
  <2>2. CASE T \cap S = {}
    BY <1>1, <2>2
  <2> QED
    BY <2>1, <2>2
<1>2. \A x \in S \cup {e} : ev[x].parents \subseteq S \cup {e}
  BY DEF Standing
<1>3. S \cup {e} \subseteq DOMAIN ev
  BY DEF Standing
<1> QED
  BY <1>1, <1>2, <1>3 DEF Standing

\* A call that comes back has visited what it was asked to, and all of it stands.
LEMMA VisitStands ==
  ASSUME NEW ev, ParentsThere(ev), NEW f, Visits(f, ev)
  PROVE  \A c \in Visit(DOMAIN ev) :
           Standing(ev, c[3]) /\ f[c] # Absent =>
             Standing(ev, f[c]) /\ c[1] \cup c[3] \subseteq f[c]
<1> DEFINE ids == DOMAIN ev
           V == Visit(ids)
           Good(c) == Standing(ev, c[3]) /\ f[c] # Absent =>
                        Standing(ev, f[c]) /\ c[1] \cup c[3] \subseteq f[c]
           Bad == {Rank(ids, c) : c \in {d \in V : ~Good(d)}}
<1>1. \A c \in V : Rank(ids, c) \in Nat
  BY RankIsNat DEF ParentsThere
<1>2. ASSUME NEW c \in V, \A d \in V : Rank(ids, d) < Rank(ids, c) => Good(d)
      PROVE  Good(c)
  <2> SUFFICES ASSUME Standing(ev, c[3]), f[c] # Absent
               PROVE  Standing(ev, f[c]) /\ c[1] \cup c[3] \subseteq f[c]
    OBVIOUS
  <2>1. f[c] = Reply(f, ev, c)
    BY DEF Visits
  <2>2. c[1] \subseteq ids /\ c[2] \subseteq ids /\ c[3] \subseteq ids
    BY DEF Visit
  <2>3. CASE c[1] = {}
    <3>1. f[c] = c[3]
      BY <2>1, <2>3, Zenon DEF Reply
    <3> QED
      BY <2>3, <3>1
  <2>4. CASE c[1] # {}
    <3> DEFINE e == CHOOSE x \in c[1] : TRUE
               below == IF e \in c[3] THEN c[3]
                        ELSE IF e \in c[2] THEN Absent
                        ELSE f[<<ev[e].parents, c[2] \cup {e}, c[3]>>]
               d == <<c[1] \ {e}, c[2], below \cup {e}>>
    <3>1. e \in c[1]
      BY <2>4
    <3>2. Reply(f, ev, c) = IF below = Absent THEN Absent ELSE f[d]
      BY <2>4, Zenon DEF Reply
    <3>3. below # Absent /\ f[c] = f[d]
      BY <2>1, <3>2, Zenon
    <3> HIDE DEF e
    <3>4. ev[e].parents \in SUBSET ids /\ c[3] \in SUBSET ids
      BY <2>2, <3>1 DEF ParentsThere
    <3>5. Standing(ev, below) /\ c[3] \subseteq below /\ Standing(ev, below \cup {e})
      <4>1. CASE e \in c[3]
        <5>1. below = c[3] /\ c[3] \cup {e} = c[3]
          BY <4>1
        <5> QED
          BY <5>1
      <4>2. CASE e \notin c[3]
        <5> DEFINE b == <<ev[e].parents, c[2] \cup {e}, c[3]>>
        <5>1. e \notin c[2] /\ below = f[b]
          BY <3>3, <4>2
        <5>2. b \in V /\ Rank(ids, b) < Rank(ids, c)
          BY <3>1, <3>4, <5>1, RankFalls DEF ParentsThere
        <5>3. b[1] = ev[e].parents /\ b[3] = c[3]
          OBVIOUS
        <5> HIDE DEF b, below
        <5>4. Standing(ev, below) /\ b[1] \cup b[3] \subseteq below
          BY <1>2, <3>3, <5>1, <5>2, <5>3
        <5>5. ev[e].parents \subseteq below /\ c[3] \subseteq below
          BY <5>3, <5>4
        <5>6. e \in DOMAIN ev
          BY <2>2, <3>1
        <5> QED
          BY <5>4, <5>5, <5>6, StandingGrows
      <4> QED
        BY <4>1, <4>2
    <3> HIDE DEF below
    <3>6. below \cup {e} \in SUBSET ids
      BY <3>5 DEF Standing
    <3>7. d \in V /\ Rank(ids, d) < Rank(ids, c)
      BY <3>1, <3>6, RankFalls DEF ParentsThere
    <3>8. d[1] = c[1] \ {e} /\ d[3] = below \cup {e}
      OBVIOUS
    <3> HIDE DEF d
    <3>9. Standing(ev, f[d]) /\ d[1] \cup d[3] \subseteq f[d]
      BY <1>2, <3>3, <3>5, <3>7, <3>8
    <3> QED
      BY <3>1, <3>3, <3>5, <3>8, <3>9
  <2> QED
    BY <2>3, <2>4
<1> HIDE DEF Good
<1>3. Bad = {}
  <2> SUFFICES ASSUME Bad # {} PROVE FALSE
    OBVIOUS
  <2>1. Bad \in SUBSET Nat
    BY <1>1
  <2>2. PICK n \in Bad : \A m \in Bad : n <= m
    BY <2>1, Smallest
  <2>3. PICK c \in V : ~Good(c) /\ Rank(ids, c) = n
    BY <2>2
  <2>4. ASSUME NEW d \in V, Rank(ids, d) < Rank(ids, c) PROVE Good(d)
    <3>1. Rank(ids, d) \in Nat /\ n \in Nat
      BY <1>1, <2>3
    <3>2. Rank(ids, d) \notin Bad
      BY <2>2, <2>3, <2>4, <3>1
    <3> QED
      BY <3>2
  <2> QED
    BY <1>2, <2>3, <2>4
<1> QED
  BY <1>3, Zenon DEF Good

\* When no ring is found there is none, through however many pieces of evidence.
LEMMA LineageGrounds ==
  ASSUME NEW ev, ParentsThere(ev), Lineage(ev) # Absent
  PROVE  \A S \in (SUBSET DOMAIN ev) \ {{}} : \E x \in S : ev[x].parents \cap S = {}
<1> DEFINE f == CHOOSE h : Visits(h, ev)
           c == <<DOMAIN ev, {}, {}>>
<1>1. Lineage(ev) = f[c]
  BY DEF Lineage, Visits, Reply, Visit
<1>2. Visits(f, ev)
  BY VisitsExist, Zenon
<1>3. c \in Visit(DOMAIN ev) /\ c[1] = DOMAIN ev /\ c[3] = {}
  BY DEF Visit
<1> HIDE DEF f, c
<1>4. Standing(ev, {})
  BY DEF Standing
<1>5. Standing(ev, f[c]) /\ c[1] \subseteq f[c]
  BY <1>1, <1>2, <1>3, <1>4, VisitStands
<1>6. f[c] = DOMAIN ev
  BY <1>3, <1>5 DEF Standing
<1> QED
  BY <1>5, <1>6 DEF Standing

\* Evidence that was admitted is of a run that was, and never rests on itself.
LEMMA EvidenceIsGrounded == ASSUME EvidenceOK, evidence # Absent PROVE EvidenceGrounded
<1>1. evidence \in EvidenceGraphs /\ EvidenceGraphSound(evidence, engines.runs)
  BY DEF EvidenceOK
<1>2. \A e \in DOMAIN evidence :
        evidence[e].run \in DOMAIN engines.runs /\ evidence[e].parents \subseteq DOMAIN evidence
  BY <1>1, Zenon DEF EvidenceGraphSound, EvidenceResolves
<1>3. ParentsThere(evidence)
  BY <1>1, <1>2, CaseAssumption DEF ParentsThere
<1>4. Lineage(evidence) # Absent
  BY <1>1 DEF EvidenceGraphSound
<1>5. \A S \in (SUBSET DOMAIN evidence) \ {{}} :
        \E x \in S : evidence[x].parents \cap S = {}
  BY <1>3, <1>4, LineageGrounds
<1> QED
  BY <1>2, <1>5, Zenon DEF EvidenceGrounded, WellFounded

\* Together, what was taken in stands.
LEMMA GraphIsGrounded ==
  ASSUME EnginesOK, EvidenceOK, FindingsOK, RecordsOK PROVE GraphGrounded
<1>1. records # Absent => RunOutputsResolve(engines.runs, findings.findings, records)
  BY DEF RecordsOK
<1> QED
  BY <1>1, RunsAreGrounded, EvidenceIsGrounded, FindingsAreGrounded
     DEF GraphGrounded, RunOutputsResolve

-----------------------------------------------------------------------------
\* A case starts with nothing.
LEMMA CaseInitInv == CaseInit => CaseInv
<1> SUFFICES ASSUME CaseInit PROVE CaseInv
  OBVIOUS
<1>1. DOMAIN snapshot.state = {} /\ snapshot.registry = {}
  BY DEF CaseInit, Snapshot
<1> QED
  BY <1>1 DEF CaseInit, CaseInv, KernelOK, PlanOK, EnginesOK, EvidenceOK, FindingsOK, RecordsOK,
              ClaimOK

\* A refusal leaves nothing.
LEMMA ThrowKeeps == ASSUME Throw PROVE CaseInv'
  BY DEF Throw, CaseInv, KernelOK, PlanOK, EnginesOK, EvidenceOK, FindingsOK, RecordsOK, ClaimOK

\* Each stage keeps what the stages before it took in.
LEMMA CaseNextInv == CaseInv /\ [CaseNext]_caseVars => CaseInv'
<1> SUFFICES ASSUME CaseInv, [CaseNext]_caseVars PROVE CaseInv'
  OBVIOUS
<1> USE DEF kernel, graph
<1>1. CASE CreateEngineRegistry
  BY <1>1 DEF CreateEngineRegistry, CaseInv, KernelOK, PlanOK, EnginesOK, EvidenceOK, FindingsOK,
              RecordsOK, ClaimOK
<1>2. CASE CreateEngineAvailabilitySnapshot
  <2>1. PICK o \in Observations :
          ObservationsAdmitted(registry, o) /\ snapshot' = Snapshot(registry, o)
    BY <1>2 DEF CreateEngineAvailabilitySnapshot
  <2>2. \A i \in DOMAIN o : o[i] \in Observable
    BY CaseAssumption
  <2>3. /\ snapshot'.registry = registry
        /\ DOMAIN snapshot'.state = {Identity(a) : a \in registry}
        /\ \A i \in DOMAIN snapshot'.state : snapshot'.state[i] \in Observable
    BY <2>1, <2>2 DEF Snapshot, Observable
  <2> QED
    BY <1>2, <2>3 DEF CreateEngineAvailabilitySnapshot, CaseInv, KernelOK, PlanOK, EnginesOK,
                      EvidenceOK, FindingsOK, RecordsOK, ClaimOK
<1>3. CASE CreateEngineQualificationSet
  BY <1>3 DEF CreateEngineQualificationSet, CaseInv, KernelOK, PlanOK, EnginesOK, EvidenceOK,
              FindingsOK, RecordsOK, ClaimOK
<1>4. CASE EvaluatePlanWithOmissions
  BY <1>4 DEF EvaluatePlanWithOmissions, CaseInv, KernelOK, PlanOK, EnginesOK, EvidenceOK,
              FindingsOK, RecordsOK, ClaimOK
<1>5. CASE BindPlan
  BY <1>5, ThrowKeeps DEF BindPlan, CaseInv, KernelOK, PlanOK, EnginesOK, EvidenceOK, FindingsOK,
                          RecordsOK, ClaimOK
<1>6. CASE ValidateEngineGraph
  BY <1>6, ThrowKeeps DEF ValidateEngineGraph, CaseInv, KernelOK, PlanOK, EnginesOK, EvidenceOK,
                          FindingsOK, RecordsOK, ClaimOK
<1>7. CASE ValidateEvidenceGraph
  BY <1>7, ThrowKeeps DEF ValidateEvidenceGraph, CaseInv, KernelOK, PlanOK, EnginesOK, EvidenceOK,
                          FindingsOK, RecordsOK, ClaimOK
<1>8. CASE ValidateFindingGraph
  BY <1>8, ThrowKeeps DEF ValidateFindingGraph, CaseInv, KernelOK, PlanOK, EnginesOK, EvidenceOK,
                          FindingsOK, RecordsOK, ClaimOK
<1>9. CASE ValidateCoverageAndConflictGraph
  BY <1>9, ThrowKeeps DEF ValidateCoverageAndConflictGraph, CaseInv, KernelOK, PlanOK, EnginesOK,
                          EvidenceOK, FindingsOK, RecordsOK, ClaimOK
<1>10. CASE ValidateClaim
  BY <1>10, ThrowKeeps DEF ValidateClaim, ClaimSound, CaseInv, KernelOK, PlanOK, EnginesOK,
                           EvidenceOK, FindingsOK, RecordsOK, ClaimOK
<1>11. CASE UNCHANGED caseVars
  BY <1>11 DEF caseVars, CaseInv, KernelOK, PlanOK, EnginesOK, EvidenceOK, FindingsOK, RecordsOK,
               ClaimOK
<1> QED
  BY <1>1, <1>2, <1>3, <1>4, <1>5, <1>6, <1>7, <1>8, <1>9, <1>10, <1>11 DEF CaseNext

-----------------------------------------------------------------------------
\* Every registered engine is planned, or omitted for a reason that holds of it, whatever is
\* registered, observed, qualified and requested (planner.ts, omissions.ts).
THEOREM PlanAccountsHolds == CaseSpec => []PlanAccounts
<1>1. CaseInv => PlanAccounts
  BY PlanAccountsFor DEF CaseInv
<1> QED
  BY <1>1, CaseInitInv, CaseNextInv, PTL DEF CaseSpec

\* In a graph of any size that is admitted no run, no evidence and no finding's status
\* stands on itself or on nothing, although each record was compared with its neighbours
\* only (semantic-validator.ts).
THEOREM GraphIsGroundedAlways == CaseSpec => []GraphGrounded
<1>1. CaseInv => GraphGrounded
  BY GraphIsGrounded DEF CaseInv
<1> QED
  BY <1>1, CaseInitInv, CaseNextInv, PTL DEF CaseSpec

\* An admitted claim shows all that is mandatory as what it is when it is assessed, and is
\* supported only if nothing it cites speaks against it.
THEOREM ClaimIsEarnedAlways == CaseSpec => []ClaimEarned
<1>1. CaseInv => ClaimEarned
  BY ClaimIsEarned DEF CaseInv
<1> QED
  BY <1>1, CaseInitInv, CaseNextInv, PTL DEF CaseSpec

================================================================================
