-------------------------- MODULE SecurityReviewProofs --------------------------
(***************************************************************************)
(* Proofs about SecurityReview, for any revisions, paths, rules and inputs.*)
(***************************************************************************)
EXTENDS SecurityReview, TLAPS

USE ReviewAssumption

\* The record of what was observed at a path says the path and the rule.
LEMMA ObservedFields ==
  ASSUME NEW h, NEW p, NEW exec, NEW cov, NEW unknowns
  PROVE  /\ Evidence(Observed(h, p, exec, cov, unknowns)).path = p
         /\ Evidence(Observed(h, p, exec, cov, unknowns)).rule = Base.rule
<1>1. /\ Observed(h, p, exec, cov, unknowns).path = p
      /\ Observed(h, p, exec, cov, unknowns).rule = Base.rule
  BY DEF Observed
<1> QED
  BY <1>1 DEF Evidence

LEMMA InitIInv == ReviewInit => ReviewInv
<1> SUFFICES ASSUME ReviewInit PROVE ReviewInv
  OBVIOUS
<1>1. issues \in [Revision -> SUBSET Path] /\ strict \in [Revision -> BOOLEAN]
  BY DEF ReviewInit
<1>2. DOMAIN scans = Revision /\ ScansTruthful
  BY DEF ReviewInit, ScansTruthful
<1>3. SupportedFixIsGone /\ ComparisonSound
  BY DEF ReviewInit, Nothing, SupportedFixIsGone, ComparisonSound
<1> QED
  BY <1>1, <1>2, <1>3 DEF ReviewInv

\* A scan that is told keeps what the others told.
LEMMA ScanIInv == ASSUME ReviewInv, NEW h \in Revision, Scan(h) PROVE ReviewInv'
<1>1. made' = Nothing /\ UNCHANGED <<issues, strict>>
  BY DEF Scan
<1>2. SupportedFixIsGone' /\ ComparisonSound'
  BY <1>1 DEF Nothing, SupportedFixIsGone, ComparisonSound
<1>3. PICK scope, seen, unknowns, cov, exec :
        Answers(h, scope, exec, cov, unknowns, seen)
  BY DEF Scan
<1>4. DOMAIN scans' = Revision
  BY <1>3 DEF ReviewInv, Answers
<1> DEFINE records == {Evidence(Observed(h, p, exec, cov, unknowns)) : p \in seen}
<1>5. \A o \in records : o.path \in issues[h] /\ o.rule = Base.rule
  BY <1>3, ObservedFields DEF Answers, Truthful
<1>6. exec = "EXECUTED" /\ cov = "COMPLETE_WITHIN_STATED_SCOPE" /\ unknowns = {} =>
        \A p \in issues[h] \cap scope : \E o \in records : o.path = p
  BY <1>3, ObservedFields DEF Answers, Truthful
<1> HIDE DEF records
<1>7. /\ scans'[h] = [exec |-> exec, cov |-> cov, scope |-> scope, unknowns |-> unknowns,
                      seen |-> records]
      /\ \A g \in Revision : g # h => scans'[g] = scans[g]
  BY <1>3 DEF ReviewInv, Answers, records
<1>8. ScansTruthful'
  <2> SUFFICES ASSUME NEW g \in Revision, scans'[g] # Null
               PROVE  LET s == scans'[g] IN
                        /\ \A o \in s.seen : o.path \in issues[g] /\ o.rule = Base.rule
                        /\ s.exec = "EXECUTED" /\ s.cov = "COMPLETE_WITHIN_STATED_SCOPE"
                             /\ s.unknowns = {} =>
                             \A p \in issues[g] \cap s.scope : \E o \in s.seen : o.path = p
    BY <1>1 DEF ScansTruthful
  <2>1. CASE g = h
    BY <1>5, <1>6, <1>7, <2>1
  <2>2. CASE g # h
    BY <1>7, <2>2 DEF ReviewInv, ScansTruthful
  <2> QED
    BY <2>1, <2>2
<1> QED
  BY <1>1, <1>2, <1>4, <1>8 DEF ReviewInv

\* A retest that supports a fix looked where the issue was, completely.
LEMMA RetestSound ==
  ASSUME ReviewInv, NEW o \in Seen, NEW h \in Revision,
         RemediationState(o, scans[h]) = "RETEST_NOT_REOBSERVED"
  PROVE  o.path \notin issues[h]
<1> DEFINE s == scans[h]
<1>1. s # Null /\ Matches(o, s) = {} /\ Incomplete(o, s) = {}
  BY DEF RemediationState
<1>2. /\ s.exec = "EXECUTED" /\ s.cov = "COMPLETE_WITHIN_STATED_SCOPE" /\ s.unknowns = {}
      /\ o.rule # Null /\ o.path \in s.scope
  BY <1>1 DEF Incomplete
<1>3. o.rule = Base.rule
  BY DEF Seen, Scanned, ReviewInv, ScansTruthful
<1> SUFFICES ASSUME o.path \in issues[h] PROVE FALSE
  OBVIOUS
<1>4. PICK m \in s.seen : m.path = o.path
  BY <1>1, <1>2 DEF ReviewInv, ScansTruthful
<1>5. m.rule = o.rule
  BY <1>1, <1>3 DEF ReviewInv, ScansTruthful
<1> QED
  BY <1>1, <1>2, <1>4, <1>5 DEF Matches

\* An evaluation that counts says of its revision what is so.
LEMMA EvaluationSound ==
  ASSUME ReviewInv, NEW h \in Scanned, NEW path \in Path, NEW e \in Evaluations(h, path),
         e # Null, Effective(e) # "UNKNOWN"
  PROVE  /\ e.digest = strict[h]
         /\ Effective(e) = IF strict[h] /\ path \in issues[h] THEN "VIOLATED" ELSE "SATISFIED"
<1> DEFINE s == scans[h]
           covered == s.exec = "EXECUTED" /\ s.cov = "COMPLETE_WITHIN_STATED_SCOPE"
                        /\ s.unknowns = {} /\ path \in s.scope
           violated == strict[h] /\ \E o \in s.seen : o.path = path
           state == IF violated THEN "VIOLATED" ELSE "SATISFIED"
<1>1. e.cov = "COVERED" /\ Effective(e) = e.state
  BY DEF Effective
<1>2. e \in IF covered THEN {[digest |-> strict[h], state |-> state, cov |-> "COVERED"]}
            ELSE [digest : {strict[h]}, state : {state, "UNKNOWN"}, cov : {"PARTIAL", "NOT_COVERED"}]
  BY DEF Evaluations
<1>3. covered /\ e = [digest |-> strict[h], state |-> state, cov |-> "COVERED"]
  BY <1>1, <1>2
<1>4. h \in Revision /\ scans[h] # Null
  BY DEF Scanned
<1>5. (\E o \in s.seen : o.path = path) <=> path \in issues[h]
  BY <1>3, <1>4 DEF ReviewInv, ScansTruthful
<1> QED
  BY <1>1, <1>3, <1>5

\* What is compared is classified soundly.
LEMMA ClassifySound ==
  ASSUME ReviewInv, NEW g \in Scanned, NEW h \in Scanned, NEW path \in Path,
         NEW b \in Evaluations(g, path), NEW c \in Evaluations(h, path),
         Classify(b, c) \in {"REGRESSION", "IMPROVEMENT", "UNCHANGED"}
  PROVE  LET violated(k) == strict[k] /\ path \in issues[k] IN
           /\ strict[g] = strict[h]
           /\ Classify(b, c) = IF violated(g) = violated(h) THEN "UNCHANGED"
                              ELSE IF violated(g) THEN "IMPROVEMENT" ELSE "REGRESSION"
<1> DEFINE violated(k) == strict[k] /\ path \in issues[k]
<1>1. /\ b # Null /\ c # Null /\ b.digest = c.digest
      /\ Classify(b, c) = Transition(Effective(b), Effective(c))
  BY DEF Classify
<1>2. Effective(b) # "UNKNOWN" /\ Effective(c) # "UNKNOWN"
  BY <1>1 DEF Transition
<1>3. /\ b.digest = strict[g] /\ c.digest = strict[h]
      /\ Effective(b) = IF violated(g) THEN "VIOLATED" ELSE "SATISFIED"
      /\ Effective(c) = IF violated(h) THEN "VIOLATED" ELSE "SATISFIED"
  BY <1>1, <1>2, EvaluationSound
<1>4. violated(g) \in BOOLEAN /\ violated(h) \in BOOLEAN
  OBVIOUS
<1> HIDE DEF violated
<1>5. Transition(Effective(b), Effective(c)) =
        IF violated(g) = violated(h) THEN "UNCHANGED"
        ELSE IF violated(g) THEN "IMPROVEMENT" ELSE "REGRESSION"
  BY <1>3, <1>4 DEF Transition
<1> QED
  BY <1>1, <1>3, <1>5 DEF violated

\* The steps that only make something.
LEMMA MakeIInv ==
  ASSUME ReviewInv, UNCHANGED <<issues, strict, scans>>, SupportedFixIsGone', ComparisonSound'
  PROVE  ReviewInv'
BY DEF ReviewInv, ScansTruthful

LEMMA AssessIInv == ASSUME ReviewInv, AssessRemediation PROVE ReviewInv'
<1>1. PICK o \in Seen, h \in Revision :
        made' = [what |-> "remediation", original |-> o, fix |-> h,
                 state |-> RemediationState(o, scans[h])]
  BY DEF AssessRemediation
<1>2. UNCHANGED <<issues, strict, scans>>
  BY DEF AssessRemediation
<1>3. SupportedFixIsGone'
  BY <1>1, <1>2, RetestSound DEF SupportedFixIsGone
<1>4. ComparisonSound'
  BY <1>1 DEF ComparisonSound
<1> QED
  BY <1>2, <1>3, <1>4, MakeIInv

LEMMA CompareIInv == ASSUME ReviewInv, Compare PROVE ReviewInv'
<1>1. PICK g \in Scanned, h \in Scanned, path \in Path : \E d \in Dispositions(g, h, path) :
        made' = [what |-> "comparison", base |-> g, candidate |-> h, path |-> path,
                 disposition |-> d]
  BY DEF Compare
<1>2. PICK b \in Evaluations(g, path), c \in Evaluations(h, path) :
        made' = [what |-> "comparison", base |-> g, candidate |-> h, path |-> path,
                 disposition |-> Classify(b, c)]
  BY <1>1 DEF Dispositions
<1>3. UNCHANGED <<issues, strict, scans>>
  BY DEF Compare
<1>4. SupportedFixIsGone'
  BY <1>2 DEF SupportedFixIsGone
<1> HIDE DEF Classify
<1>5. ComparisonSound'
  BY <1>2, <1>3, ClassifySound DEF ComparisonSound
<1> QED
  BY <1>3, <1>4, <1>5, MakeIInv

LEMMA NextIInv == ReviewInv /\ [ReviewNext]_reviewVars => ReviewInv'
<1> SUFFICES ASSUME ReviewInv, [ReviewNext]_reviewVars PROVE ReviewInv'
  OBVIOUS
<1>1. CASE UNCHANGED reviewVars
  BY <1>1, MakeIInv DEF reviewVars, ReviewInv, SupportedFixIsGone, ComparisonSound
<1>2. ASSUME UNCHANGED <<issues, strict, scans>>, made'.what \notin {"remediation", "comparison"}
      PROVE  ReviewInv'
  BY <1>2, MakeIInv DEF SupportedFixIsGone, ComparisonSound
<1>3. CASE NormalizeSet
  <2>1. PICK kind \in DOMAIN Input : \E i \in Input[kind] :
          \E given \in {<<i>>} \cup {<<i, j>> : j \in Second[kind]} :
            made' = [what |-> "records", kind |-> kind, given |-> given,
                     records |-> RecordsOf(kind, given), gap |-> SbomGap,
                     rest |-> RestOn(kind, RecordsOf(kind, given))]
    BY <1>3 DEF NormalizeSet
  <2>2. made'.what = "records"
    BY <2>1
  <2> QED
    BY <1>2, <1>3, <2>2 DEF NormalizeSet
<1>4. CASE Inventory
  BY <1>2, <1>4 DEF Inventory
<1>5. CASE ContainLabel
  BY <1>2, <1>5 DEF ContainLabel
<1>6. CASE MapCoverage
  BY <1>2, <1>6 DEF MapCoverage
<1>7. CASE ExportSarif
  BY <1>2, <1>7 DEF ExportSarif
<1>8. CASE LinkReproduction
  BY <1>2, <1>8 DEF LinkReproduction
<1> QED
  BY <1>1, <1>3, <1>4, <1>5, <1>6, <1>7, <1>8, ScanIInv, AssessIInv, CompareIInv DEF ReviewNext, Review

\* A retest that says an issue was not seen again is right: at the fix, the issue is no
\* longer where it was.
THEOREM FixesAreGone == ReviewSpec => []SupportedFixIsGone
<1>1. ReviewInv => SupportedFixIsGone
  BY DEF ReviewInv
<1> QED
  BY <1>1, InitIInv, NextIInv, PTL DEF ReviewSpec

\* A comparison that names a result is of one definition, and right about both revisions.
THEOREM ComparisonsAreSound == ReviewSpec => []ComparisonSound
<1>1. ReviewInv => ComparisonSound
  BY DEF ReviewInv
<1> QED
  BY <1>1, InitIInv, NextIInv, PTL DEF ReviewSpec

-----------------------------------------------------------------------------
(***************************************************************************)
(* The records and the coverage reports.                                   *)
(***************************************************************************)

\* What the structural normalizer lets through, the structural gate does not refuse.
LEMMA SastReasserted == ASSUME NEW i, SastAdmitted(i) PROVE SastInvariants(Sast(i))
<1>1. /\ i.limits # {} /\ ProvenanceSound(i) /\ Resolvable(i)
      /\ MatchIsPlaced(i) /\ MatchIsExecuted(i)
      /\ i.match = "MATCHED" => Language(i.path) # "UNSUPPORTED"
  BY DEF SastAdmitted, SastAttributed, SastConsistent
<1>2. SastPlaced(Sast(i))
  BY <1>1 DEF SastPlaced, Sast, MatchIsPlaced, MatchIsExecuted
<1>3. /\ Sast(i).limits # {} /\ (Sast(i).prov = "COMPLETE" => Sast(i).produced)
      /\ Sast(i).prov \notin {"ABSENT", "UNRESOLVED"}
  BY <1>1 DEF Sast, ProvenanceSound, Resolvable
<1> QED
  BY <1>2, <1>3 DEF SastInvariants

\* The same of secrets,
LEMMA SecretReasserted == ASSUME NEW i, SecretAdmitted(i) PROVE SecretInvariants(Secret(i))
<1>1. /\ i.limits # {} /\ ProvenanceSound(i) /\ Resolvable(i)
      /\ MatchIsPlaced(i) /\ MatchIsExecuted(i)
  BY DEF SecretAdmitted, SecretAttributed, SecretConsistent
<1>2. SecretPlaced(Secret(i))
  BY <1>1 DEF SecretPlaced, Secret, MatchIsPlaced, MatchIsExecuted
<1>3. /\ Secret(i).limits # {} /\ (Secret(i).prov = "COMPLETE" => Secret(i).produced)
      /\ Secret(i).prov \notin {"ABSENT", "UNRESOLVED"}
  BY <1>1 DEF Secret, ProvenanceSound, Resolvable
<1> QED
  BY <1>2, <1>3 DEF SecretInvariants

\* and of dependencies: no input is admitted whose aggregate is covered.
LEMMA ScaReasserted == ASSUME NEW i, ScaAdmitted(i) PROVE ScaInvariants(Sca(i))
<1>1. /\ FreshnessSaid(i) /\ NeverCovered(i) /\ ReachabilitySaid(i)
      /\ ProvenanceSound(i) /\ MatchIsExecuted(i)
  BY DEF ScaAdmitted, ScaAttributed, ScaConsistent
<1>2. ScaFresh(Sca(i))
  BY <1>1 DEF ScaFresh, Sca, FreshnessSaid
<1>3. ScaDelta(Sca(i))
  <2>1. i.agg # "COVERED_WITHIN_STATED_SCOPE"
    BY <1>1 DEF NeverCovered
  <2> QED
    BY <1>1, <2>1 DEF ScaDelta, Sca, EffectiveAggregate, ReachabilitySaid
<1>4. ScaText(Sca(i))
  <2>1. (i.limits \cup {Frozen}) \ {Frozen} = i.limits \ {Frozen}
    OBVIOUS
  <2> QED
    BY <1>1, <2>1 DEF ScaText, Sca, ProvenanceSound
<1>5. Sca(i).exec # "EXECUTED" => Sca(i).match = "UNKNOWN"
  BY <1>1 DEF Sca, MatchIsExecuted
<1> QED
  BY <1>2, <1>3, <1>4, <1>5 DEF ScaInvariants

LEMMA GapReasserted == SbomInvariants(SbomGap)
<1>1. /\ "sbom" \notin Admitted
      /\ LossOf.NOT_RUN = "ENGINE_UNAVAILABLE"
  BY DEF Admitted, SourceTokens, BoundaryTokens, LossOf
<1> QED
  BY <1>1 DEF SbomInvariants, SbomGap

\* A set that is admitted is as long as what was given.
LEMMA RecordsWhole ==
  ASSUME NEW kind, NEW given, NEW N \in Nat, DOMAIN given = 1..N, Len(given) = N,
         RecordsOf(kind, given) # <<>>
  PROVE  /\ DOMAIN RecordsOf(kind, given) = 1..N /\ Len(RecordsOf(kind, given)) = N
         /\ \A n \in 1..N : /\ AdmittedBy(kind, given[n])
                            /\ RecordsOf(kind, given)[n] = RecordBy(kind, given[n])
         /\ \A m, n \in 1..N :
              m # n => RecordBy(kind, given[m]).id # RecordBy(kind, given[n]).id
<1> DEFINE records == [n \in 1..N |-> RecordBy(kind, given[n])]
           All == {RecordBy(kind, given[n]) : n \in 1..N}
<1>1. /\ RecordsOf(kind, given) = records
      /\ \A n \in 1..N : AdmittedBy(kind, given[n])
      /\ \A m, n \in 1..N :
           m # n => RecordBy(kind, given[m]).id # RecordBy(kind, given[n]).id
  BY DEF RecordsOf
<1>2. records \in [1..N -> All]
  OBVIOUS
<1> HIDE DEF All
<1>3. records \in Seq(All) /\ Len(records) = N
  BY <1>2
<1> QED
  BY <1>1, <1>3

\* Whatever was given, the records that come of it are sound.
LEMMA NormalizedSound == ASSUME NormalizeSet PROVE RecordsSound'
<1>1. PICK kind \in DOMAIN Input : \E i \in Input[kind] :
        \E given \in {<<i>>} \cup {<<i, j>> : j \in Second[kind]} :
          made' = [what |-> "records", kind |-> kind, given |-> given,
                   records |-> RecordsOf(kind, given), gap |-> SbomGap,
                   rest |-> RestOn(kind, RecordsOf(kind, given))]
  BY DEF NormalizeSet
<1>2. PICK i \in Input[kind] :
        \E given \in {<<i>>} \cup {<<i, j>> : j \in Second[kind]} :
          made' = [what |-> "records", kind |-> kind, given |-> given,
                   records |-> RecordsOf(kind, given), gap |-> SbomGap,
                   rest |-> RestOn(kind, RecordsOf(kind, given))]
  BY <1>1
<1>3. PICK given \in {<<i>>} \cup {<<i, j>> : j \in Second[kind]} :
        made' = [what |-> "records", kind |-> kind, given |-> given,
                 records |-> RecordsOf(kind, given), gap |-> SbomGap,
                 rest |-> RestOn(kind, RecordsOf(kind, given))]
  BY <1>2
<1>4. /\ made'.kind = kind /\ made'.given = given /\ made'.records = RecordsOf(kind, given)
      /\ made'.gap = SbomGap
  BY <1>3
<1>5. PICK N \in Nat : DOMAIN given = 1..N /\ Len(given) = N
  <2>1. CASE given = <<i>>
    <3>1. DOMAIN given = 1..1 /\ Len(given) = 1
      BY <2>1
    <3> QED
      BY <3>1
  <2>2. CASE \E j : given = <<i, j>>
    <3>1. DOMAIN given = 1..2 /\ Len(given) = 2
      BY <2>2
    <3> QED
      BY <3>1
  <2> QED
    BY <1>3, <2>1, <2>2
<1>6. CASE RecordsOf(kind, given) = <<>>
  <2>1. RecordsReassert'
    BY <1>4, <1>6, GapReasserted DEF RecordsReassert
  <2>2. SetIsWhole'
    BY <1>4, <1>6 DEF SetIsWhole
  <2> QED
    BY <2>1, <2>2 DEF RecordsSound
<1>7. CASE RecordsOf(kind, given) # <<>>
  <2>1. /\ DOMAIN made'.records = 1..N /\ Len(made'.records) = N
        /\ \A n \in 1..N : /\ AdmittedBy(kind, given[n])
                           /\ made'.records[n] = RecordBy(kind, given[n])
        /\ \A m, n \in 1..N :
             m # n => RecordBy(kind, given[m]).id # RecordBy(kind, given[n]).id
    BY <1>4, <1>5, <1>7, RecordsWhole
  <2>2. ASSUME kind # "evidence", NEW n \in 1..N PROVE HoldsAt(kind, made'.records[n])
    BY <2>1, <2>2, SastReasserted, SecretReasserted, ScaReasserted
       DEF AdmittedBy, RecordBy, HoldsAt
  <2>3. RecordsReassert'
    BY <1>4, <2>1, <2>2, GapReasserted DEF RecordsReassert
  <2>4. SetIsWhole'
    BY <1>4, <1>5, <2>1 DEF SetIsWhole
  <2> QED
    BY <2>3, <2>4 DEF RecordsSound
<1> QED
  BY <1>6, <1>7

\* An admitted run that produced nothing names its loss and covers nothing.
LEMMA AbsenceTold ==
  ASSUME NEW r, RunAdmitted(r), r.exec \in NonProducing
  PROVE  LossOf[r.exec] \in UnknownReasons(r) /\ CoverageState(r) # "COVERED_WITHIN_STATED_SCOPE"
<1>1. UnitsIn(r, "COVERED") = {} /\ \E l \in r.losses : l.reason = LossOf[r.exec]
  BY DEF RunAdmitted, AbsenceSaid
<1>2. PICK l \in r.losses : l.reason = LossOf[r.exec]
  BY <1>1
<1>3. LossOf[r.exec] \in UnknownReasons(r)
  BY <1>2 DEF UnknownReasons
<1>4. \A u \in DOMAIN r.units : r.units[u].state \in UnitState \ {"COVERED"}
  BY <1>1 DEF RunAdmitted, UnitsSound, UnitSound, UnitsIn
<1>5. CoverageState(r) # "COVERED_WITHIN_STATED_SCOPE"
  BY <1>4 DEF CoverageState, UnitsIn, UnitState
<1> QED
  BY <1>3, <1>5

\* A report of admitted runs whose aggregate is covered is of covered units only.
LEMMA ReportEarned ==
  ASSUME NEW requested, NEW runs, CoverageAdmitted(requested, runs),
         CoverageReport(requested, runs).aggregate = "COVERED_WITHIN_STATED_SCOPE"
  PROVE  LET report == CoverageReport(requested, runs) IN
           /\ report.coverage # {}
           /\ \A c \in report.coverage :
                /\ DOMAIN c.units # {} /\ \A u \in DOMAIN c.units : c.units[u].state = "COVERED"
                /\ c.exec \notin NonProducing
<1> DEFINE report == CoverageReport(requested, runs)
           states == {CoverageState(r) : r \in runs}
<1>1. report.coverage = {CoverageOf(r) : r \in runs} /\ report.aggregate = Aggregate(states)
  BY DEF CoverageReport
<1>2. /\ states # {} /\ "UNKNOWN" \notin states /\ "NOT_COVERED" \notin states
      /\ "PARTIALLY_COVERED" \notin states
  <2> HIDE DEF states
  <2> QED
    BY <1>1 DEF Aggregate
<1>3. ASSUME NEW r \in runs
      PROVE  /\ CoverageState(r) = "COVERED_WITHIN_STATED_SCOPE"
             /\ DOMAIN r.units # {} /\ \A u \in DOMAIN r.units : r.units[u].state = "COVERED"
  <2>1. CoverageState(r) \notin {"UNKNOWN", "NOT_COVERED", "PARTIALLY_COVERED"}
    BY <1>2
  <2>2. /\ DOMAIN r.units # {} /\ UnitsIn(r, "UNKNOWN") = {}
        /\ UnitsIn(r, "UNSCANNED") \cup UnitsIn(r, "UNSUPPORTED") = {}
        /\ UnitsIn(r, "PARTIALLY_COVERED") = {}
        /\ CoverageState(r) = "COVERED_WITHIN_STATED_SCOPE"
    BY <2>1 DEF CoverageState
  <2>3. \A u \in DOMAIN r.units : r.units[u].state \in UnitState
    BY DEF CoverageAdmitted, RunAdmitted, UnitsSound, UnitSound
  <2> QED
    BY <2>2, <2>3 DEF UnitsIn, UnitState
<1>4. ASSUME NEW c \in report.coverage
      PROVE  /\ DOMAIN c.units # {} /\ \A u \in DOMAIN c.units : c.units[u].state = "COVERED"
             /\ c.exec \notin NonProducing
  <2>1. PICK r \in runs : c = CoverageOf(r)
    BY <1>1
  <2>2. c.units = r.units /\ c.exec = r.exec
    BY <2>1 DEF CoverageOf
  <2>3. c.exec \notin NonProducing
    BY <1>3, <2>2, AbsenceTold DEF CoverageAdmitted
  <2> QED
    BY <1>3, <2>2, <2>3
<1> QED
  BY <1>1, <1>2, <1>4

\* In every report of admitted runs, those that produced nothing are named.
LEMMA ReportNames ==
  ASSUME NEW requested, NEW runs, CoverageAdmitted(requested, runs)
  PROVE  LET report == CoverageReport(requested, runs) IN
           \A c \in report.coverage : c.exec \in NonProducing =>
             /\ LossOf[c.exec] \in c.reasons \cap report.reasons
             /\ c.state # "COVERED_WITHIN_STATED_SCOPE"
<1> DEFINE report == CoverageReport(requested, runs)
<1>1. /\ report.coverage = {CoverageOf(r) : r \in runs}
      /\ report.reasons = UNION {UnknownReasons(r) : r \in runs}
  BY DEF CoverageReport
<1> SUFFICES ASSUME NEW r \in runs, CoverageOf(r).exec \in NonProducing
             PROVE  /\ LossOf[CoverageOf(r).exec] \in CoverageOf(r).reasons \cap report.reasons
                    /\ CoverageOf(r).state # "COVERED_WITHIN_STATED_SCOPE"
  BY <1>1
<1>2. /\ CoverageOf(r).exec = r.exec /\ CoverageOf(r).reasons = UnknownReasons(r)
      /\ CoverageOf(r).state = CoverageState(r)
  BY DEF CoverageOf
<1>3. RunAdmitted(r)
  BY DEF CoverageAdmitted
<1> HIDE DEF report
<1> QED
  BY <1>1, <1>2, <1>3, AbsenceTold

LEMMA MappedEarned == ASSUME MapCoverage PROVE CoverageEarned'
<1>1. PICK r \in Request :
        made' = [what |-> "coverage",
                 report |-> IF CoverageAdmitted(r.requested, r.runs)
                              THEN CoverageReport(r.requested, r.runs) ELSE Null]
  BY DEF MapCoverage
<1>2. CASE CoverageAdmitted(r.requested, r.runs)
  <2>1. made'.report = CoverageReport(r.requested, r.runs)
    BY <1>1, <1>2
  <2> QED
    BY <1>2, <2>1, ReportEarned, ReportNames DEF CoverageEarned
<1>3. CASE ~CoverageAdmitted(r.requested, r.runs)
  BY <1>1, <1>3 DEF CoverageEarned
<1> QED
  BY <1>2, <1>3

\* What is made is sound when it is made.
LEMMA NextMade == RecordsSound /\ CoverageEarned /\ [ReviewNext]_reviewVars => RecordsSound' /\ CoverageEarned'
<1> SUFFICES ASSUME RecordsSound, CoverageEarned, [ReviewNext]_reviewVars PROVE RecordsSound' /\ CoverageEarned'
  OBVIOUS
<1>1. ASSUME made'.what # "records" PROVE RecordsSound'
  BY <1>1 DEF RecordsSound, RecordsReassert, SetIsWhole
<1>2. ASSUME made'.what # "coverage" PROVE CoverageEarned'
  BY <1>2 DEF CoverageEarned
<1>3. CASE UNCHANGED reviewVars
  BY <1>3 DEF reviewVars, RecordsSound, RecordsReassert, SetIsWhole, CoverageEarned
<1>4. CASE NormalizeSet
  <2>1. made'.what = "records"
    <3>1. \E kind, given : made' = [what |-> "records", kind |-> kind, given |-> given,
                                    records |-> RecordsOf(kind, given), gap |-> SbomGap,
                                    rest |-> RestOn(kind, RecordsOf(kind, given))]
      BY <1>4 DEF NormalizeSet
    <3> QED
      BY <3>1
  <2> QED
    BY <1>2, <1>4, <2>1, NormalizedSound
<1>5. CASE MapCoverage
  BY <1>1, <1>5, MappedEarned DEF MapCoverage
<1>6. CASE Inventory \/ ContainLabel
  <2>1. made'.what \in {"inventory", "label"}
    <3>1. CASE Inventory
      BY <3>1 DEF Inventory
    <3>2. CASE ContainLabel
      BY <3>2 DEF ContainLabel
    <3> QED
      BY <1>6, <3>1, <3>2
  <2> QED
    BY <1>1, <1>2, <2>1
<1>7. CASE \E h \in Revision : Scan(h)
  BY <1>1, <1>2, <1>7 DEF Scan, Nothing
<1>8. CASE Review
  BY <1>1, <1>2, <1>8 DEF Review, AssessRemediation, Compare, ExportSarif, LinkReproduction
<1> QED
  BY <1>3, <1>4, <1>5, <1>6, <1>7, <1>8 DEF ReviewNext

LEMMA InitMade == ReviewInit => RecordsSound /\ CoverageEarned
BY DEF ReviewInit, Nothing, RecordsSound, RecordsReassert, SetIsWhole, CoverageEarned

\* For any inputs: the structural, the secret and the dependency normalizer make no record
\* their own gate would refuse, and a set that is admitted, by any of the four boundaries,
\* holds one record of every input.  The gate of the first boundary is not part of this.
THEOREM RecordsAreSound == ReviewSpec => []RecordsSound
<1> QED
  BY InitMade, NextMade, PTL DEF ReviewSpec

\* Whatever is asked and run: a report that says the whole is covered is of covered units,
\* and of no run that produced nothing; and every such run is named with its own loss.
THEOREM CoverageIsEarned == ReviewSpec => []CoverageEarned
<1> QED
  BY InitMade, NextMade, PTL DEF ReviewSpec

=================================================================================
