----------------------------- MODULE BrowserRecords -----------------------------
(***************************************************************************)
(* What browser verification keeps and plans between sessions: trace       *)
(* artifacts under a retention policy and the facts read from them         *)
(* (browser/trace-artifacts.ts), intents and journeys, the journeys a      *)
(* change selects, and the proposals of an exploring agent with their      *)
(* budget (intent.ts, journey.ts, change-mapping.ts, explore-planner.ts,   *)
(* agentic-authorization.ts).                                              *)
(*                                                                         *)
(* All functions here are pure; the state is what their caller keeps of    *)
(* the answers: it deletes what is not retained and counts what is spent.  *)
(***************************************************************************)
EXTENDS FiniteSets, Integers, Sequences

CONSTANTS
  Artifact,       \* 1..n; the order of ids is the order of numbers
  TraceArtifact,  \* those that are traces, and not screenshots
  MaxAge, MaxArtifacts, MaxBytes,  \* the retention policy
  MaxSize,        \* largest artifact
  MaxTime,        \* bounds the clock
  Key, Value,     \* claim keys and values
  Path, Journey, Obligations,
  MaxRecoveryActions, MaxRetries,  \* limits of a recovery policy
  Rejected,       \* a factory threw
  MaxProposals, MaxToolCalls,      \* budget of the agent
  MaxAsked        \* bounds the proposals that are made

ASSUME RecordsAssumption ==
  /\ Artifact \subseteq Nat /\ TraceArtifact \subseteq Artifact
  /\ {MaxAge, MaxArtifacts, MaxBytes, MaxProposals, MaxToolCalls} \subseteq Nat \ {0}
  /\ {MaxSize, MaxTime, MaxAsked, MaxRecoveryActions, MaxRetries} \subseteq Nat

VARIABLES
  clock, artifacts, facts, corroborated,     \* traces
  intent, candidates, selection, covered,    \* journeys
  plan, spent, admitted, asked               \* the agent

traceVars == <<clock, artifacts, facts, corroborated>>
journeyVars == <<intent, candidates, selection, covered>>
agentVars == <<plan, spent, admitted, asked>>
recordVars == <<traceVars, journeyVars, agentVars>>

Nothing == [x \in {} |-> x]
Put(f, x, y) == [z \in DOMAIN f \cup {x} |-> IF z = x THEN y ELSE f[z]]

RecordsInit ==
  /\ clock = 0 /\ artifacts = Nothing /\ facts = {} /\ corroborated = Nothing
  /\ intent = Rejected /\ candidates = Nothing /\ selection = Nothing /\ covered = Nothing
  /\ plan = "none" /\ spent = [proposals |-> 0, calls |-> 0]
  /\ admitted = <<>> /\ asked = 0

-----------------------------------------------------------------------------
(* Traces.                                                                  *)

\* Capture order, with the id to break a tie.
Older(as, a, b) == as[a].at < as[b].at \/ (as[a].at = as[b].at /\ a < b)

\* The n newest of S.
Newest(as, S, n) == {a \in S : Cardinality({b \in S : Older(as, a, b)}) < n}

AnyOf(T) == CHOOSE x \in T : TRUE
Bytes(as, S) ==
  LET sum[T \in SUBSET S] ==
        IF T = {} THEN 0 ELSE as[AnyOf(T)].size + sum[T \ {AnyOf(T)}]
  IN sum[S]

\* Mutated form: the bytes that went with the count bound are still counted.
RetainedOfOldBytes(as, now) ==
  LET fresh == {a \in DOMAIN as : now - as[a].at <= MaxAge}
      kept == Newest(as, fresh, MaxArtifacts)
      total(m) == Bytes(as, fresh) - Bytes(as, kept \ Newest(as, kept, m))
      n == CHOOSE m \in 0..Cardinality(kept) :
             /\ m = 0 \/ total(m) <= MaxBytes
             /\ \A k \in (m + 1)..Cardinality(kept) : total(k) > MaxBytes
  IN Newest(as, kept, n)

\* evaluateRetention: expiry, then the oldest go until the count, then the bytes fit.
Retained(as, now) ==
  LET fresh == {a \in DOMAIN as : now - as[a].at <= MaxAge}
      kept == Newest(as, fresh, MaxArtifacts)
      n == CHOOSE m \in 0..Cardinality(kept) :
             /\ Bytes(as, Newest(as, kept, m)) <= MaxBytes
             /\ \A k \in (m + 1)..Cardinality(kept) : Bytes(as, Newest(as, kept, k)) > MaxBytes
  IN Newest(as, kept, n)

CaptureArtifact ==
  /\ \E a \in Artifact \ DOMAIN artifacts, size \in 0..MaxSize :
       artifacts' = Put(artifacts, a, [at |-> clock, size |-> size])
  /\ UNCHANGED <<clock, facts, corroborated, journeyVars, agentVars>>

Tick ==
  /\ artifacts # Nothing /\ clock < MaxTime /\ clock' = clock + 1
  /\ UNCHANGED <<artifacts, facts, corroborated, journeyVars, agentVars>>

\* Whoever evaluates the policy deletes the rest.
EvaluateRetention ==
  /\ artifacts # Nothing
  /\ artifacts' = [a \in Retained(artifacts, clock) |-> artifacts[a]]
  /\ UNCHANGED <<clock, facts, corroborated, journeyVars, agentVars>>

\* The facts of a screenshot are its existence only; a trace tells of more.
IngestTraceFact ==
  /\ facts = {}
  /\ \E a \in DOMAIN artifacts \cap TraceArtifact, key \in Key, value \in Value :
       facts' = facts \cup {[artifact |-> a, key |-> key, value |-> value]}
  /\ UNCHANGED <<clock, artifacts, corroborated, journeyVars, agentVars>>

\* The first claim of a key counts; the trace never wins.
CorroborateWithTrace ==
  /\ facts # {} /\ corroborated = Nothing
  /\ \E claims \in UNION {[1..n -> Key \X Value] : n \in 0..2} :
       LET mine(key) == {i \in DOMAIN claims : claims[i][1] = key}
           first(key) == CHOOSE i \in mine(key) : \A j \in mine(key) : i <= j
       IN corroborated' =
            [f \in facts |->
               IF mine(f.key) = {} THEN "trace-only"
               ELSE IF claims[first(f.key)][2] = f.value THEN "corroborated" ELSE "conflict"]
  /\ UNCHANGED <<clock, artifacts, facts, journeyVars, agentVars>>

\* The reader assembles the record again: the facts are of artifacts that it lists, and
\* of kinds a trace tells of.
IngestionReadable == \A f \in facts : f.artifact \in TraceArtifact

-----------------------------------------------------------------------------
(* Intents and journeys.                                                    *)

\* A policy is about an action or an outcome that is there.
Scope == {"action", "expected_outcome"}
PolicyFits(p, counts) == p.index < counts[p.scope]

\* No class of recovery is allowed unless an intent says so, within both limits.
RecoveryPolicyFits(r) == r.actions <= MaxRecoveryActions /\ r.retries <= MaxRetries
Conservative == [semantic |-> FALSE, actions |-> 0, retries |-> 0]

\* At least one obligation, all known, one action and one outcome.
IntentTest(i, known) ==
  IF \/ i.obligations = {} \/ ~(i.obligations \subseteq known)
     \/ i.counts["action"] = 0 \/ i.counts["expected_outcome"] = 0
     \/ \E p \in i.policies : ~PolicyFits(p, i.counts)
     \/ ~RecoveryPolicyFits(i.recovery)
    THEN Rejected ELSE i

\* uncoveredConditions: what no oracle policy is about stays advisory.
Uncovered(i) ==
  {p \in [scope : Scope, index : 0..1] : p.index < i.counts[p.scope]} \ i.policies

CreateIntentTest ==
  /\ intent = Rejected
  /\ \E obligations, known \in SUBSET Obligations, counts \in [Scope -> 0..1],
        policies \in SUBSET [scope : Scope, index : 0..1], actions, retries \in 0..2 :
       intent' = IntentTest([obligations |-> obligations, counts |-> counts, policies |-> policies,
                             recovery |-> IF actions = 0 THEN Conservative
                                          ELSE [semantic |-> TRUE, actions |-> actions,
                                                retries |-> retries]], known)
  /\ UNCHANGED <<traceVars, candidates, selection, covered, agentVars>>

\* The reader runs the factory again, with the obligations that are known then.
IntentReadable(i) == IntentTest(i, Obligations) = i

CreateJourneyCandidate(j) ==
  /\ selection = Nothing /\ j \notin DOMAIN candidates
  /\ \E own \in BOOLEAN, paths \in SUBSET Path, obligations \in SUBSET Obligations :
       candidates' =
         Put(candidates, j, [own |-> own, paths |-> paths, obligations |-> obligations])
  /\ UNCHANGED <<traceVars, intent, selection, covered, agentVars>>

\* What is known of the relation of a change to a journey; the first that holds is told.
MappingKind(c, paths, obligations, inferred) ==
  CASE ~c.own -> "unknown"
    [] c.own /\ c.paths \cap paths # {} -> "direct-path"
    [] OTHER -> IF c.obligations \cap obligations # {} THEN "obligation-ref"
                ELSE IF inferred THEN "inferred" ELSE "unknown"

\* Mutated form: a journey nothing is known of is left out.
SelectedIfKnown(kind) == kind \in {"direct-path", "obligation-ref", "inferred"}

\* Nothing is deselected: each kind of relation selects.
Selected(kind) == kind \in {"direct-path", "obligation-ref", "inferred", "unknown"}

SelectJourneysForChanges ==
  /\ candidates # Nothing /\ selection = Nothing
  /\ \E paths \in SUBSET Path \ {{}}, obligations \in SUBSET Obligations,
        inferred \in SUBSET DOMAIN candidates :
       selection' = [j \in DOMAIN candidates |->
                       LET kind == MappingKind(candidates[j], paths, obligations, j \in inferred)
                       IN [kind |-> kind, selected |-> Selected(kind),
                           touched |-> candidates[j].paths \cap paths # {}]]
  /\ UNCHANGED <<traceVars, intent, candidates, covered, agentVars>>

\* An observed edge names its run, an inferred one its reason.
EdgeFits(e) == IF e.kind = "observed" THEN e.run ELSE e.reason

\* Edges are of the journey's tree and between nodes that are there.
JourneyRecord(j) ==
  IF \A e \in j.edges : EdgeFits(e) /\ e.own /\ {e.from, e.to} \subseteq j.nodes
    THEN j ELSE Rejected

CoverageVerdict(j) ==
  IF ~j.obligations \/ ~j.oracles THEN "blocked" ELSE IF j.edges = {} THEN "failed" ELSE "pass"

\* A selected journey is walked, recorded and judged.
EvaluateJourneyCoverage(j) ==
  /\ j \in DOMAIN selection \ DOMAIN covered /\ selection[j].selected
  /\ \E oracles, run, reason, own \in BOOLEAN, kind \in {"observed", "inferred"}, to \in {1, 2},
        walked \in BOOLEAN :
       LET edge == [kind |-> kind, run |-> run, reason |-> reason, own |-> own, from |-> 1, to |-> to]
           r == JourneyRecord([nodes |-> {1}, oracles |-> oracles,
                               obligations |-> candidates[j].obligations # {},
                               edges |-> IF walked THEN {edge} ELSE {}])
       IN covered' = Put(covered, j, IF r = Rejected THEN [verdict |-> "rejected"]
                                      ELSE [verdict |-> CoverageVerdict(r), record |-> r])
  /\ UNCHANGED <<traceVars, intent, candidates, selection, agentVars>>

JourneyReadable(c) == c.verdict # "rejected" => JourneyRecord(c.record) = c.record

\* The reader wants the unknown selected, and the ids to be those of the mappings.
SelectionReadable ==
  \A j \in DOMAIN selection : selection[j].kind = "unknown" => selection[j].selected

-----------------------------------------------------------------------------
(* The exploring agent.                                                     *)

\* A candidate cites at least one input, and each that it cites is known.
CandidateFits(cited, known) == cited # {} /\ cited \subseteq known

\* The plan tells which classes of inputs were not there or not cited; its calls are
\* held against the whole budget, not against what is left of it.
PlanExploration ==
  /\ plan = "none"
  /\ \E known \in SUBSET Path, cited \in SUBSET SUBSET Path, calls \in 0..(MaxToolCalls + 1) :
       /\ calls <= MaxToolCalls /\ \A c \in cited : CandidateFits(c, known)
       /\ plan' = IF known = {} THEN "no-inputs"
                  ELSE IF UNION cited = {} THEN "uncited" ELSE "cited"
  /\ UNCHANGED <<traceVars, journeyVars, spent, admitted, asked>>

AtLeast0(n) == IF n < 0 THEN 0 ELSE n

\* Mutated form: one proposal too many.
BlockedLate(p, used) ==
  {r \in {"authorization-mismatch", "cross-tree-proposal", "not-allowlisted",
          "proposal-budget-exhausted", "tool-call-budget-exceeded"} :
     CASE r = "authorization-mismatch" -> ~p.bound
       [] r = "cross-tree-proposal" -> ~p.own
       [] r = "not-allowlisted" -> ~p.listed
       [] r = "proposal-budget-exhausted" -> MaxProposals - used.proposals < 0
       [] OTHER -> p.calls > AtLeast0(MaxToolCalls - used.calls)}

\* evaluateProposalAdmission, for what its caller says was used before.
BlockedBy(p, used) ==
  {r \in {"authorization-mismatch", "cross-tree-proposal", "not-allowlisted",
          "proposal-budget-exhausted", "tool-call-budget-exceeded"} :
     CASE r = "authorization-mismatch" -> ~p.bound
       [] r = "cross-tree-proposal" -> ~p.own
       [] r = "not-allowlisted" -> ~p.listed
       [] r = "proposal-budget-exhausted" -> MaxProposals - used.proposals <= 0
       [] OTHER -> p.calls > AtLeast0(MaxToolCalls - used.calls)}

\* The caller counts as spent what the answer says is left, admitted or not.
EvaluateProposalAdmission ==
  /\ plan # "none" /\ asked < MaxAsked /\ asked' = asked + 1
  /\ \E bound, own, listed \in BOOLEAN, calls \in 0..(MaxToolCalls + 1) :
       LET p == [bound |-> bound, own |-> own, listed |-> listed, calls |-> calls]
       IN /\ admitted' = IF BlockedBy(p, spent) = {} THEN Append(admitted, p) ELSE admitted
          /\ spent' =
               [proposals |-> MaxProposals - AtLeast0(MaxProposals - spent.proposals - 1),
                calls |-> MaxToolCalls - AtLeast0(MaxToolCalls - spent.calls - calls)]
  /\ UNCHANGED <<traceVars, journeyVars, plan>>

\* The readers make the authorization and the proposal again.
AuthorizationReadable == MaxProposals > 0 /\ MaxToolCalls > 0
ProposalReadable(p) == p.calls >= 0

TraceNext ==
  \/ CaptureArtifact \/ Tick \/ EvaluateRetention \/ IngestTraceFact \/ CorroborateWithTrace
JourneyNext ==
  \/ SelectJourneysForChanges
  \/ \E j \in Journey : CreateJourneyCandidate(j) \/ EvaluateJourneyCoverage(j)
AgentNext == PlanExploration \/ EvaluateProposalAdmission

-----------------------------------------------------------------------------
(* Properties.                                                              *)

\* Retention leaves no artifact over age, keeps within both bounds, never drops an
\* artifact that is newer than one it keeps, and drops a fresh one only when keeping
\* it with all that are newer would break a bound.
RetentionHolds ==
  [][DOMAIN artifacts' \subseteq DOMAIN artifacts /\ artifacts' # artifacts =>
       LET kept == DOMAIN artifacts'
       IN /\ Cardinality(kept) <= MaxArtifacts /\ Bytes(artifacts, kept) <= MaxBytes
          /\ \A a \in kept : clock - artifacts[a].at <= MaxAge
          /\ \A a \in DOMAIN artifacts \ kept :
               /\ \A b \in kept : ~Older(artifacts, b, a)
               /\ clock - artifacts[a].at <= MaxAge =>
                    LET newer == {b \in DOMAIN artifacts : b = a \/ Older(artifacts, a, b)}
                    IN Cardinality(newer) > MaxArtifacts \/ Bytes(artifacts, newer) > MaxBytes
     ]_recordVars

\* What is kept of traces, intents, journeys and proposals is read back.
RecordsReadable ==
  /\ IngestionReadable /\ SelectionReadable /\ AuthorizationReadable
  /\ intent # Rejected =>
       IntentReadable(intent) /\ \A p \in Uncovered(intent) : PolicyFits(p, intent.counts)
  /\ \A j \in DOMAIN covered : JourneyReadable(covered[j])
  /\ \A i \in DOMAIN admitted : ProposalReadable(admitted[i])

\* What the proposals of s ask for together.
Calls(s) ==
  LET total[n \in 0..Len(s)] == IF n = 0 THEN 0 ELSE total[n - 1] + s[n].calls
  IN total[Len(s)]

\* An agent is never granted more than its authorization: the proposals admitted, in
\* whatever order refused ones came between, fit the budget together and each is of
\* this authorization and tree.  No journey a change touches is left out.
ExplorationGrounded ==
  /\ Len(admitted) <= MaxProposals
  /\ Calls(admitted) <= MaxToolCalls
  /\ \A i \in DOMAIN admitted : admitted[i].bound /\ admitted[i].own /\ admitted[i].listed
  /\ \A j \in DOMAIN selection : selection[j].touched => selection[j].selected

-----------------------------------------------------------------------------
(* The inductive invariant behind them.                                    *)

Finding == [artifact : TraceArtifact, key : Key, value : Value]

TracesOK ==
  /\ clock \in Nat /\ IsFiniteSet(DOMAIN artifacts) /\ DOMAIN artifacts \subseteq Artifact
  /\ artifacts \in [DOMAIN artifacts -> [at : Nat, size : Nat]]
  /\ facts \subseteq Finding

\* What is made passed its factory, and passes it again; every journey that has a
\* relation to the change, be it unknown, is selected.
JourneysOK ==
  /\ intent # Rejected => IntentReadable(intent)
  /\ \A j \in DOMAIN selection : selection[j].selected
  /\ \A j \in DOMAIN covered : JourneyReadable(covered[j])

Proposal == [bound : {TRUE}, own : {TRUE}, listed : {TRUE}, calls : Nat]

\* The budget that is spent covers what was admitted, and is never overdrawn.
BudgetOK ==
  /\ spent \in [proposals : 0..MaxProposals, calls : 0..MaxToolCalls]
  /\ admitted \in Seq(Proposal)
  /\ Len(admitted) <= spent.proposals /\ Calls(admitted) <= spent.calls

RecordsInv == TracesOK /\ JourneysOK /\ BudgetOK
================================================================================
