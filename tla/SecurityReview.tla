----------------------------- MODULE SecurityReview -----------------------------
(***************************************************************************)
(* What src/src/assurance/security does with what an outside engine says:  *)
(* sets of records are normalized, coverage is mapped, scans of two        *)
(* revisions are compared, a fix is looked at again, and observations are  *)
(* exported, imported, linked and listed.                                  *)
(*                                                                         *)
(* The functions keep no state.  What the model keeps is the repository:   *)
(* where each revision really has the issue the rule looks for, and what   *)
(* the engine said of it; the properties compare what the functions make   *)
(* of the latter with the former.  One of the three services is used.      *)
(***************************************************************************)
EXTENDS SecurityCoverage

CONSTANTS
  Input,     \* for each boundary, the inputs it is given
  Second,    \* for each boundary, the inputs given beside another one
  Request,   \* the coverage requests, [requested, runs]
  Base,      \* an input every boundary admits
  Listing    \* the inputs of an inventory

\* An input is a record; these are the fields a scan fills in, and the rule it looks for.
ASSUME ReviewAssumption ==
  /\ Base = [f \in DOMAIN Base |-> Base[f]]
  /\ {"head", "attempt", "path", "exec", "cov", "unknowns", "rule"} \subseteq DOMAIN Base

VARIABLES
  service,  \* "records", "coverage" or "review"
  issues,   \* where each revision has the issue
  strict,   \* whether a revision defines the invariant as the issue's absence
  scans,    \* what was said of each revision, Null before
  made      \* the last thing that was made

reviewVars == <<service, issues, strict, scans, made>>

Nothing == [what |-> "nothing"]

ReviewInit ==
  /\ service \in {"records", "coverage", "review"}
  /\ IF service = "review"
       THEN issues \in [Revision -> SUBSET Path] /\ strict \in [Revision -> BOOLEAN]
       ELSE issues = [h \in Revision |-> {}] /\ strict = [h \in Revision |-> TRUE]
  /\ scans = [h \in Revision |-> Null]
  /\ made = Nothing

-----------------------------------------------------------------------------
(* Records.                                                                 *)

AdmittedBy(kind, i) ==
  CASE kind = "evidence" -> EvidenceAdmitted(i) [] kind = "sast" -> SastAdmitted(i)
    [] kind = "secret" -> SecretAdmitted(i)     [] OTHER -> ScaAdmitted(i)

RecordBy(kind, i) ==
  CASE kind = "evidence" -> Evidence(i) [] kind = "sast" -> Sast(i)
    [] kind = "secret" -> Secret(i)     [] OTHER -> Sca(i)

HoldsAt(kind, o) ==
  CASE kind = "sast" -> SastInvariants(o) [] kind = "secret" -> SecretInvariants(o)
    [] OTHER -> ScaInvariants(o)

\* One input that is refused, or one identity given twice, and there is no record at all.
RecordsOf(kind, given) ==
  IF \/ \E n \in DOMAIN given : ~AdmittedBy(kind, given[n])
     \/ \E m, n \in DOMAIN given : m # n /\ RecordBy(kind, given[m]).id = RecordBy(kind, given[n]).id
    THEN <<>>
    ELSE [n \in DOMAIN given |-> RecordBy(kind, given[n])]

\* The boundaries whose observations may rest on records of the first one.
RestOn(kind, records) ==
  IF kind # "evidence" THEN {}
  ELSE {k \in {"sast", "secret", "sca"} :
          \A n \in DOMAIN records : CASE k = "sast" -> SastCompatible(records[n])
                                       [] k = "secret" -> SecretCompatible(records[n])
                                       [] OTHER -> ScaCompatible(records[n])}

\* A set of dependency deltas comes with the gap, an empty one as well.
NormalizeSet ==
  /\ service = "records" /\ made = Nothing
  /\ \E kind \in DOMAIN Input : \E i \in Input[kind] :
       \E given \in {<<i>>} \cup {<<i, j>> : j \in Second[kind]} :
         made' = [what |-> "records", kind |-> kind, given |-> given,
                  records |-> RecordsOf(kind, given), gap |-> SbomGap,
                  rest |-> RestOn(kind, RecordsOf(kind, given))]
  /\ UNCHANGED <<service, issues, strict, scans>>

\* One listing, of one revision, request and attempt, without two digests of one artifact.
InventoryOf(given) ==
  LET admitted(n) == IF given[n].class = "CONFIG" THEN PresenceAdmitted(given[n])
                                                  ELSE WorkflowAdmitted(given[n])
      record(n) == IF given[n].class = "CONFIG" THEN Presence(given[n]) ELSE Workflow(given[n])
  IN IF /\ \A n \in DOMAIN given : admitted(n)
        /\ \A m, n \in DOMAIN given :
             /\ record(m).head = record(n).head /\ record(m).attempt = record(n).attempt
             /\ given[m].artifact = given[n].artifact => record(m).digest = record(n).digest
             /\ m # n => record(m).id # record(n).id
       THEN [n \in DOMAIN given |-> record(n)] ELSE <<>>

Inventory ==
  /\ service = "records" /\ made = Nothing
  /\ \E i, j \in Listing : \E given \in {<<i>>, <<i, j>>} :
       made' = [what |-> "inventory", given |-> given, records |-> InventoryOf(given),
                gap |-> IacGap]
  /\ UNCHANGED <<service, issues, strict, scans>>

\* A label a reader would follow is first held against the root.
ContainLabel ==
  /\ service = "records" /\ made = Nothing
  /\ \E n \in 1..3 : \E label \in [1..n -> {"..", ".", "name"}] :
       made' = [what |-> "label", label |-> label, contained |-> Contained(label)]
  /\ UNCHANGED <<service, issues, strict, scans>>

MapCoverage ==
  /\ service = "coverage" /\ made = Nothing
  /\ \E r \in Request :
       made' = [what |-> "coverage",
                report |-> IF CoverageAdmitted(r.requested, r.runs)
                             THEN CoverageReport(r.requested, r.runs) ELSE Null]
  /\ UNCHANGED <<service, issues, strict, scans>>

-----------------------------------------------------------------------------
(* Scans.                                                                   *)

Observed(h, path, exec, cov, unknowns) ==
  [Base EXCEPT !.head = h, !.attempt = h, !.path = path, !.exec = exec, !.cov = cov,
               !.unknowns = unknowns]

\* The engine reports issues that are there; of what it says it covered completely and
\* without unknowns it reports all.  What it reports passes the first boundary.
Truthful(h, scope, exec, cov, unknowns, seen) ==
  /\ seen \subseteq issues[h] \cap scope
  /\ exec = "EXECUTED" /\ cov = "COMPLETE_WITHIN_STATED_SCOPE" /\ unknowns = {} =>
       seen = issues[h] \cap scope
  /\ ResponseIntact(TRUE, "sast-structural", exec)
  /\ \A p \in seen : EvidenceAdmitted(Observed(h, p, exec, cov, unknowns))

\* What may come of a request: one that is not admitted, or asks for what is not, an engine
\* that is not qualified, or permitted, or there, or not the pinned one, or the engine.
EngineStates ==
  {EngineState(AuthorityDecision(RequestIntact(sound, asked), qualified, permitted), there, pinned) :
     sound, qualified, permitted, there, pinned \in BOOLEAN,
     asked \in {{}, {"sast-structural"}, {"sast-structural", "sbom"}}}

\* What is told of h becomes the records of the first boundary.
Answers(h, scope, exec, cov, unknowns, seen) ==
  /\ Truthful(h, scope, exec, cov, unknowns, seen)
  /\ scans' = [scans EXCEPT ![h] =
       [exec |-> exec, cov |-> cov, scope |-> scope, unknowns |-> unknowns,
        seen |-> {Evidence(Observed(h, p, exec, cov, unknowns)) : p \in seen}]]

Scan(h) ==
  /\ service = "review" /\ scans[h] = Null
  /\ \E state \in EngineStates : \E scope, seen \in SUBSET Path, unknowns \in {{}, {"TIMEOUT"}},
        cov \in {"COMPLETE_WITHIN_STATED_SCOPE", "PARTIAL"},
        exec \in IF state = "AVAILABLE" THEN {"EXECUTED", "TIMEOUT"} ELSE {state} :
       /\ state # "AVAILABLE" => scope = {} /\ unknowns = {}
       /\ Answers(h, scope, exec, cov, unknowns, seen)
  /\ made' = Nothing
  /\ UNCHANGED <<service, issues, strict>>

Scanned == {h \in Revision : scans[h] # Null}
Seen == UNION {scans[h].seen : h \in Scanned}

-----------------------------------------------------------------------------
(* A fix, looked at again (T13).                                            *)

\* Mutated form: the retest's own unknowns are not looked at.
IncompleteBarUnknowns(o, s) ==
  (IF s.exec # "EXECUTED" THEN {"RETEST_NOT_EXECUTED"} ELSE {})
  \cup (IF s.cov # "COMPLETE_WITHIN_STATED_SCOPE" THEN {"RETEST_COVERAGE_NOT_COMPLETE"} ELSE {})
  \cup (IF o.rule = Null THEN {"ORIGINAL_HAS_NO_STABLE_RULE_IDENTITY"} ELSE {})
  \cup (IF o.path \notin s.scope THEN {"ORIGINAL_LOCATION_NOT_IN_RETEST_SCOPE"} ELSE {})

Incomplete(o, s) ==
  (IF s.exec # "EXECUTED" THEN {"RETEST_NOT_EXECUTED"} ELSE {})
  \cup (IF s.cov # "COMPLETE_WITHIN_STATED_SCOPE" THEN {"RETEST_COVERAGE_NOT_COMPLETE"} ELSE {})
  \cup (IF s.unknowns # {} THEN {"RETEST_REPORTED_UNKNOWN_STATES"} ELSE {})
  \cup (IF o.rule = Null THEN {"ORIGINAL_HAS_NO_STABLE_RULE_IDENTITY"} ELSE {})
  \cup (IF o.path \notin s.scope THEN {"ORIGINAL_LOCATION_NOT_IN_RETEST_SCOPE"} ELSE {})

Matches(o, s) == {m \in s.seen : o.rule # Null /\ m.rule = o.rule /\ m.path = o.path}

RemediationState(o, s) ==
  IF s = Null THEN "OPEN_FIX_UNVERIFIED"
  ELSE IF Matches(o, s) # {} THEN "OPEN_STILL_OBSERVED"
  ELSE IF Incomplete(o, s) # {} THEN "OPEN_RETEST_INCOMPLETE" ELSE "RETEST_NOT_REOBSERVED"

\* The fix is another revision, and the retest, if there is one, is of it.
AssessRemediation ==
  \E o \in Seen, h \in Revision :
    /\ o.head # h
    /\ made' = [what |-> "remediation", original |-> o, fix |-> h,
                state |-> RemediationState(o, scans[h])]
    /\ UNCHANGED <<service, issues, strict, scans>>

-----------------------------------------------------------------------------
(* Two revisions compared, invariant by invariant (T10).                    *)

\* What an evaluation of "the issue is not at this path" at h says; under a definition
\* that was weakened it is always satisfied.  It may be left out.
Evaluations(h, path) ==
  LET s == scans[h]
      covered == s.exec = "EXECUTED" /\ s.cov = "COMPLETE_WITHIN_STATED_SCOPE"
                   /\ s.unknowns = {} /\ path \in s.scope
      violated == strict[h] /\ \E o \in s.seen : o.path = path
      state == IF violated THEN "VIOLATED" ELSE "SATISFIED"
  IN {Null} \cup
     IF covered THEN {[digest |-> strict[h], state |-> state, cov |-> "COVERED"]}
     ELSE [digest : {strict[h]}, state : {state, "UNKNOWN"}, cov : {"PARTIAL", "NOT_COVERED"}]

Effective(e) == IF e.cov = "COVERED" THEN e.state ELSE "UNKNOWN"

Transition(base, candidate) ==
  CASE base = "SATISFIED" /\ candidate = "VIOLATED" -> "REGRESSION"
    [] base = "VIOLATED" /\ candidate = "SATISFIED" -> "IMPROVEMENT"
    [] base = candidate /\ base # "UNKNOWN" -> "UNCHANGED"
    [] base # "UNKNOWN" /\ candidate = "UNKNOWN" -> "COVERAGE_LOST"
    [] base = "UNKNOWN" /\ candidate # "UNKNOWN" -> "COVERAGE_GAINED"
    [] OTHER -> "UNKNOWN"

\* Mutated form: the definitions are not compared.
ClassifyAnyDefinition(base, candidate) ==
  IF candidate = Null THEN "COVERAGE_LOST"
  ELSE IF base = Null THEN "COVERAGE_GAINED"
  ELSE Transition(Effective(base), Effective(candidate))

\* A requirement that was removed, or added, is not a result, nor one that was redefined.
Classify(base, candidate) ==
  IF candidate = Null THEN "COVERAGE_LOST"
  ELSE IF base = Null THEN "COVERAGE_GAINED"
  ELSE IF base.digest # candidate.digest THEN "UNKNOWN"
  ELSE Transition(Effective(base), Effective(candidate))

\* A side whose covered result is unknown is refused, and two sides of one revision.
\* An invariant that neither revision has is not compared.
Dispositions(g, h, path) ==
  {Classify(p[1], p[2]) : p \in (Evaluations(g, path) \X Evaluations(h, path)) \ {<<Null, Null>>}}

Compare ==
  \E g, h \in Scanned, path \in Path :
    /\ g # h
    /\ \E d \in Dispositions(g, h, path) :
         made' = [what |-> "comparison", base |-> g, candidate |-> h, path |-> path,
                  disposition |-> d]
    /\ UNCHANGED <<service, issues, strict, scans>>

-----------------------------------------------------------------------------
(* Interchange (T11) and reproductions (T12).                               *)

\* One log holds observations of one revision and attempt; a rule that is not known is
\* named after the class, a line without a path is not written.
SarifResult(o) ==
  [rule |-> IF o.rule = Null THEN <<"unresolved", o.class>> ELSE <<o.rule>>,
   path |-> o.path, start |-> IF o.path = Null THEN 0 ELSE o.start,
   end |-> IF o.path = Null \/ o.start = 0 THEN 0 ELSE o.end, told |-> o.id]

ExportOf(observations) ==
  IF observations = {} \/ \E o, q \in observations : o.head # q.head \/ o.attempt # q.attempt
    THEN {} ELSE {SarifResult(o) : o \in observations}

\* Read back, a result is an inference about a place, whatever it was before.
ImportOf(results) == {[rule |-> r.rule, path |-> r.path, start |-> r.start, end |-> r.end] : r \in results}

ExportSarif ==
  \E observations \in SUBSET Seen :
    /\ made' = [what |-> "sarif", given |-> observations,
                read |-> ImportOf(ExportOf(observations))]
    /\ UNCHANGED <<service, issues, strict, scans>>

\* A reproduction is linked to the observation that declared it, at its revision and of
\* its input; no reproduction is executed.
LinkState(o, r) ==
  IF r = Null THEN IF o.reproduction = Null THEN "NONE_DECLARED" ELSE "DECLARED_NOT_SUPPLIED"
  ELSE IF o.reproduction = r.ref /\ r.head = o.head /\ r.digest = o.digest
    THEN "LINKED_NOT_EXECUTED" ELSE "REFUSED"

LinkReproduction ==
  \E o \in Seen, r \in {Null} \cup [ref : {"repro", "other"}, head : Revision, digest : {1, 2}] :
    /\ made' = [what |-> "link", of |-> o, state |-> LinkState(o, r)]
    /\ UNCHANGED <<service, issues, strict, scans>>

-----------------------------------------------------------------------------

Review ==
  /\ made = Nothing
  /\ AssessRemediation \/ Compare \/ ExportSarif \/ LinkReproduction

ReviewNext ==
  \/ NormalizeSet \/ Inventory \/ ContainLabel \/ MapCoverage
  \/ \E h \in Revision : Scan(h)
  \/ Review

ReviewSpec == ReviewInit /\ [][ReviewNext]_reviewVars

-----------------------------------------------------------------------------
(* Properties.                                                              *)

\* What the structural, the secret and the dependency normalizer let through, the gate of
\* that record lets through as well.  Of the first boundary this is not so: it admits PARTIAL
\* without unknowns and no limitations, which its gate refuses.
RecordsReassert ==
  made.what = "records" /\ made.kind # "evidence" =>
    /\ SbomInvariants(made.gap)
    /\ \A n \in DOMAIN made.records : HoldsAt(made.kind, made.records[n])

\* A set that is admitted holds one record of every input, no two of one identity; so two
\* readings of one place that differ in what they covered are not both believed.
SetIsWhole ==
  made.what = "records" /\ made.records # <<>> =>
    /\ Len(made.records) = Len(made.given)
    /\ \A m, n \in DOMAIN made.records :
         m # n => made.records[m].id # made.records[n].id

\* Of a set of records none is lost or merged, whatever boundary made it, and none is refused
\* by the gate of the structural, secret or dependency boundary that made it.
RecordsSound == RecordsReassert /\ SetIsWhole

\* A report says the whole is covered only if there is a run, every unit of every run is
\* covered, there is a unit in each, and none of the runs ended without producing anything;
\* one that did is named with its own loss, in its capability and in the whole, and its
\* capability is not covered.  This is of runs: see OmittedIsLoss.
CoverageEarned ==
  made.what = "coverage" /\ made.report # Null =>
    /\ made.report.aggregate = "COVERED_WITHIN_STATED_SCOPE" =>
         /\ made.report.coverage # {}
         /\ \A c \in made.report.coverage :
              /\ DOMAIN c.units # {} /\ \A u \in DOMAIN c.units : c.units[u].state = "COVERED"
              /\ c.exec \notin NonProducing
    /\ \A c \in made.report.coverage : c.exec \in NonProducing =>
         /\ LossOf[c.exec] \in c.reasons \cap made.report.reasons
         /\ c.state # "COVERED_WITHIN_STATED_SCOPE"

\* What the mapping says of itself: a requested capability that was not run is never part
\* of a pass; not of a report that passed its gate, either.
OmittedIsLoss ==
  (/\ made.what = "coverage" /\ made.report # Null /\ CoverageInvariants(made.report)
   /\ made.report.aggregate = "COVERED_WITHIN_STATED_SCOPE") =>
    made.report.requested \subseteq made.report.executed

\* What a retest does not observe again is no longer where it was.
SupportedFixIsGone ==
  made.what = "remediation" /\ made.state = "RETEST_NOT_REOBSERVED" =>
    made.original.path \notin issues[made.fix]

\* A comparison that names a result is right about both revisions, under one definition.
ComparisonSound ==
  made.what = "comparison" =>
    LET violated(h) == strict[h] /\ made.path \in issues[h]
        settled == {"REGRESSION", "IMPROVEMENT", "UNCHANGED"}
    IN made.disposition \in settled =>
         /\ strict[made.base] = strict[made.candidate]
         /\ made.disposition = IF violated(made.base) = violated(made.candidate) THEN "UNCHANGED"
                               ELSE IF violated(made.base) THEN "IMPROVEMENT" ELSE "REGRESSION"

-----------------------------------------------------------------------------
(* The inductive invariant of SecurityReviewProofs.                         *)

\* What is left of Truthful in the records the first boundary made: they are of issues that
\* are there, and of a complete scan none is missing.
ScansTruthful ==
  \A h \in Revision : scans[h] # Null =>
    LET s == scans[h] IN
      /\ \A o \in s.seen : o.path \in issues[h] /\ o.rule = Base.rule
      /\ s.exec = "EXECUTED" /\ s.cov = "COMPLETE_WITHIN_STATED_SCOPE" /\ s.unknowns = {} =>
           \A p \in issues[h] \cap s.scope : \E o \in s.seen : o.path = p

ReviewInv ==
  /\ issues \in [Revision -> SUBSET Path] /\ strict \in [Revision -> BOOLEAN]
  /\ DOMAIN scans = Revision
  /\ ScansTruthful /\ SupportedFixIsGone /\ ComparisonSound

===============================================================================
