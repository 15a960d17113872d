---------------------------- MODULE QualityEvidence ----------------------------
(***************************************************************************)
(* The pure gates of the quality engine (src/src/quality): what a list of  *)
(* runs, of trials or of claims is worth, and what each record must        *)
(* satisfy to be written to JSON and read back.  The readers state the     *)
(* rules a second time, apart from the code that makes the records.        *)
(*                                                                         *)
(* Identities are members of small sets, and texts are left out.  Records  *)
(* are all of one source tree; the candidates and tests they name differ.  *)
(***************************************************************************)
EXTENDS FiniteSets, Integers, Sequences

CONSTANTS
  Candidate,  \* candidate tests; each has the test id of its own
  Env,        \* environments
  Class,      \* failure classes
  Target,     \* <<kind, target_id>> pairs of discrimination trials
  Unset,
  Required,   \* required_runs
  MaxRuns     \* max_runs

ASSUME QualityAssumption ==
  /\ Required \in Nat /\ MaxRuns \in Nat /\ 2 <= Required /\ Required <= MaxRuns
  /\ Unset \notin Candidate \cup Class /\ IsFiniteSet(Target)

Outcome == {"pass", "fail", "unavailable"}

\* Only a failed run carries a class, and it may be null.
Observation ==
  {o \in [env : Env, outcome : Outcome, class : Class \cup {Unset}] :
     o.outcome # "fail" => o.class = Unset}

\* One to max_runs runs, in order of run_index.
Runs == UNION {[1..n -> Observation] : n \in 0..MaxRuns}

-----------------------------------------------------------------------------
(* Stability: is the same outcome seen again?                               *)

With(runs, outcome) == {i \in DOMAIN runs : runs[i].outcome = outcome}

Contradicts(runs) ==
  \/ \E i \in With(runs, "pass"), j \in With(runs, "fail") : runs[i].env = runs[j].env
  \/ \E i, j \in With(runs, "fail") : runs[i].class # runs[j].class

\* Mutated form: two valid runs are enough.
VerdictOfTwo(runs) ==
  LET passes == Cardinality(With(runs, "pass"))
      failures == Cardinality(With(runs, "fail"))
  IN IF runs = <<>> THEN "not-run"
     ELSE IF passes + failures = 0 THEN "unavailable"
     ELSE IF passes + failures < 2 THEN "insufficient-evidence"
     ELSE IF Contradicts(runs) THEN "flaky"
     ELSE IF passes > 0 /\ failures > 0 THEN "environment-sensitive"
     ELSE IF failures > 0 THEN "deterministic-fail" ELSE "deterministic-pass"

\* The tests of evaluateStability, in the order they are made.
Verdict(runs) ==
  LET passes == Cardinality(With(runs, "pass"))
      failures == Cardinality(With(runs, "fail"))
      valid == passes + failures
  IN IF runs = <<>> THEN "not-run"
     ELSE IF valid = 0 THEN "unavailable"
     ELSE IF valid < 2 THEN "insufficient-evidence"
     ELSE IF Contradicts(runs) THEN "flaky"
     ELSE IF valid < Required THEN "insufficient-evidence"
     ELSE IF passes > 0 /\ failures > 0 THEN "environment-sensitive"
     ELSE IF failures > 0 THEN "deterministic-fail"
     ELSE "deterministic-pass"

\* An empty list has nobody to bind to.
StabilityReport(who, runs) ==
  [candidate |-> IF runs = <<>> THEN Unset ELSE who,
   environments |-> {runs[i].env : i \in DOMAIN runs},
   runs |-> Len(runs),
   passes |-> Cardinality(With(runs, "pass")),
   failures |-> Cardinality(With(runs, "fail")),
   unavailable |-> Cardinality(With(runs, "unavailable")),
   verdict |-> Verdict(runs)]

StabilityReadable(r) ==
  /\ IF r.verdict = "not-run"
       THEN r.candidate = Unset /\ r.runs = 0 /\ r.environments = {}
       ELSE r.candidate # Unset /\ r.runs > 0
  /\ r.passes + r.failures + r.unavailable = r.runs

-----------------------------------------------------------------------------
(* Discrimination: does the candidate notice a seeded change?              *)

\* A trial of a pair either detects the change or misses it.
Trial == [target : Target, detected : BOOLEAN]

Proven(trials) ==
  {p \in Target : /\ [target |-> p, detected |-> TRUE] \in trials
                  /\ [target |-> p, detected |-> FALSE] \notin trials}

DiscriminationReport(who, trials) ==
  [candidate |-> IF trials = {} THEN Unset ELSE who,
   trials |-> Cardinality(trials),
   detections |-> Cardinality({t \in trials : t.detected}),
   proven |-> Proven(trials),
   verdict |-> IF trials = {} THEN "not-run"
               ELSE IF Proven(trials) # {} THEN "proven" ELSE "unproven"]

DiscriminationReadable(r) ==
  /\ IF r.verdict = "not-run"
       THEN r.candidate = Unset /\ r.trials = 0 /\ r.detections = 0 /\ r.proven = {}
       ELSE r.candidate # Unset /\ r.trials > 0
  /\ r.detections <= r.trials

-----------------------------------------------------------------------------
(* Reproduction: can the failure of a test be had again, and smaller?      *)

\* A claim keeps the size of the reproducer or makes it smaller.
Claim == [smaller : BOOLEAN, preserved : BOOLEAN, reproduces : BOOLEAN]

ValidClaims(claims) == {m \in claims : m.reproduces /\ m.preserved}

\* A stability report of another test is refused by the caller's guard; one that
\* binds to nobody counts as none.
Repeated(stability, test) ==
  stability.candidate = test /\ stability.verdict = "deterministic-fail"

Smaller(claims) == \E m \in ValidClaims(claims) : m.smaller

\* Mutated form: the ratio of no claim is null, and null < 1.
StatusOfNullRatio(test, class, stability, claims) ==
  IF Repeated(stability, test)
    THEN IF Smaller(claims) \/ ValidClaims(claims) = {} THEN "minimized" ELSE "reproduced"
    ELSE IF class # Unset THEN "observed" ELSE "unresolved"

ReproductionStatus(test, class, stability, claims) ==
  IF Repeated(stability, test)
    THEN IF Smaller(claims) THEN "minimized" ELSE "reproduced"
    ELSE IF class # Unset THEN "observed" ELSE "unresolved"

\* `ratio' is the smallest ratio of a valid claim: below one, one, or null.
ReproductionReport(test, class, stability, claims) ==
  [test |-> test, class |-> class,
   status |-> ReproductionStatus(test, class, stability, claims),
   ratio |-> IF ValidClaims(claims) = {} THEN "null"
             ELSE IF Smaller(claims) THEN "less" ELSE "one",
   reproducers |-> ValidClaims(claims) # {}]

ReproductionReadable(r) == r.status = "minimized" => r.reproducers /\ r.ratio # "null"

-----------------------------------------------------------------------------
(* Admission of a candidate.                                               *)

\* reportBinds throws on a report of somebody else.
OfAnother(report, who) == report.candidate \notin {Unset, who}
Binds(report, who) == report.candidate = who

HeldReasons(status, who, stability, discrimination, human) ==
  {reason \in {"proposal-rejected", "stability-not-deterministic-pass",
               "discrimination-unproven", "human-admission-missing"} :
     CASE reason = "proposal-rejected" -> status # "proposed"
       [] reason = "stability-not-deterministic-pass" ->
            ~Binds(stability, who) \/ stability.verdict # "deterministic-pass"
       [] reason = "discrimination-unproven" ->
            ~Binds(discrimination, who) \/ discrimination.verdict # "proven"
       [] OTHER -> ~human}

Decision(reasons) ==
  [verdict |-> IF reasons = {} THEN "admitted" ELSE "held", by |-> reasons = {}]

AdmissionReadable(d) == d.by <=> d.verdict = "admitted"

-----------------------------------------------------------------------------
(* Obligations and conflicts.                                              *)

\* "missing" is an id no conflict has.
ConflictState == {"missing", "unresolved", "resolved"}

MayGate(oracle) == oracle.independence = "independent" /\ oracle.calibrated

Oracle == [independence : {"independent", "derived", "circular", "unknown"},
           calibrated : BOOLEAN]

\* The first linked conflict that is missing or unresolved decides.
FirstBad(links, conflicts) ==
  LET bad == {i \in DOMAIN links : conflicts[links[i]] \in {"missing", "unresolved"}}
  IN IF bad = {} THEN "none"
     ELSE conflicts[links[CHOOSE i \in bad : \A j \in bad : i <= j]]

ObligationStatus(o, conflicts) ==
  CASE FirstBad(o.links, conflicts) = "missing" -> "unresolved"
    [] FirstBad(o.links, conflicts) = "unresolved" -> "blocked-by-conflict"
    [] OTHER -> IF o.evidence THEN "covered" ELSE "open"

\* Mutated form: a covering test counts though it was not executed.
GapOfListed(o, conflicts, test) ==
  CASE FirstBad(o.links, conflicts) = "missing" -> "obligation-unresolved"
    [] FirstBad(o.links, conflicts) = "unresolved" -> "blocked-by-conflict"
    [] OTHER -> IF test = "none" \/ ~o.evidence THEN "no-covering-test"
                ELSE IF ~MayGate(o.oracle) THEN "oracle-advisory-only" ELSE "none"

\* What detectGaps finds of one obligation; `test' is how far its covering tests are.
Gap(o, conflicts, test) ==
  CASE FirstBad(o.links, conflicts) = "missing" -> "obligation-unresolved"
    [] FirstBad(o.links, conflicts) = "unresolved" -> "blocked-by-conflict"
    [] OTHER -> IF test = "none" THEN "no-covering-test"
                ELSE IF test = "listed" THEN "covering-test-unexecuted"
                ELSE IF ~MayGate(o.oracle) THEN "oracle-advisory-only"
                ELSE IF ObligationStatus(o, conflicts) # "covered" THEN "no-covering-test"
                ELSE "none"
================================================================================
