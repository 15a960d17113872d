---------------------------- MODULE AssuranceKernel ----------------------------
(***************************************************************************)
(* The assurance kernel (src/src/assurance/kernel): which registered       *)
(* engines a plan may use, from what was observed of them, what they are   *)
(* qualified for and what effects they may have, and what the plan says of *)
(* those it does not use.                                                  *)
(*                                                                         *)
(* An effect class is its index.  Implementations and configurations are   *)
(* numbers, in the order the registry sorts them.  A setting is a profile, *)
(* a benchmark corpus and a platform together.  An input that cannot be    *)
(* parsed is not modelled: every function throws on it.                    *)
(***************************************************************************)
EXTENDS FiniteSets, Integers

CONSTANTS
  Engine,    \* engine ids
  Absent

-----------------------------------------------------------------------------
(* The registry.                                                            *)

Identity(entry) == <<entry.engine, entry.impl, entry.config>>

Exceeds(effects, ceiling) == \E f \in effects : f > ceiling

\* A descriptor's ceiling is no higher than the highest effect it declares.
DescriptorSound(entry) == \E f \in entry.effects : entry.ceiling <= f

\* One entry for an exact identity; an engine may be registered in several.
RegistryAdmitted(registry) ==
  \A a, b \in registry : DescriptorSound(a) /\ (Identity(a) = Identity(b) => a = b)

EntriesOf(registry, e) == {entry \in registry : entry.engine = e}

\* The first entry of an engine in the registry's order.
FirstOf(registry, e) ==
  CHOOSE a \in EntriesOf(registry, e) :
    \A b \in EntriesOf(registry, e) : a.impl < b.impl \/ (a.impl = b.impl /\ a.config <= b.config)

-----------------------------------------------------------------------------
(* Availability.                                                            *)

Observable == {"AVAILABLE", "UNAVAILABLE", "NOT_QUALIFIED"}

ObservationsAdmitted(registry, observed) == DOMAIN observed \subseteq {Identity(a) : a \in registry}

\* What nobody observed is unavailable.
Snapshot(registry, observed) ==
  [registry |-> registry,
   state |-> [i \in {Identity(a) : a \in registry} |->
                IF i \in DOMAIN observed THEN observed[i] ELSE "UNAVAILABLE"]]

\* A snapshot is only read beside the registry it was taken of.
SnapshotBinds(registry, snapshot) == registry = {} \/ snapshot.registry = registry

-----------------------------------------------------------------------------
(* Qualification.                                                           *)

DriftReason == {"IMPLEMENTATION_DRIFT", "CONFIGURATION_DRIFT", "SETTING_DRIFT",
                "RESULT_NOT_QUALIFIED", "NOT_YET_APPLICABLE", "EXPIRED"}

\* Why a record does not qualify the entry now, or Absent.
Drift(q, entry, setting, asOf) ==
  IF q.impl # entry.impl THEN "IMPLEMENTATION_DRIFT"
  ELSE IF q.config # entry.config THEN "CONFIGURATION_DRIFT"
  ELSE IF q.setting # setting THEN "SETTING_DRIFT"
  ELSE IF ~q.passed THEN "RESULT_NOT_QUALIFIED"
  ELSE IF asOf < q.at THEN "NOT_YET_APPLICABLE"
  ELSE IF asOf >= q.expires THEN "EXPIRED" ELSE Absent

\* A record that passed says when it lapses, if it does, and after when it was given.
QualificationSound(q) == q.at < q.expires

\* One record of an id.
SetAdmitted(quals) == \A p, q \in quals : QualificationSound(p) /\ (p.id = q.id => p = q)

CandidatesFor(quals, entry) == {q \in quals : q.engine = entry.engine}

\* Any record of the engine that does not fail; else what is said is why the first fails.
Qualification(quals, entry, setting, asOf) ==
  LET candidates == CandidatesFor(quals, entry)
      first == CHOOSE q \in candidates : \A p \in candidates : q.id <= p.id
  IN IF candidates = {} THEN "NO_QUALIFICATION_RECORD"
     ELSE IF \E q \in candidates : Drift(q, entry, setting, asOf) = Absent
          THEN "QUALIFICATION_SATISFIED" ELSE Drift(first, entry, setting, asOf)

-----------------------------------------------------------------------------
(* Authority.                                                               *)

\* Undeclared effects are denied first, then those above the engine's own ceiling.
CeilingDecision(entry, effects) ==
  IF ~(effects \subseteq entry.effects) THEN "EFFECT_NOT_DECLARED"
  ELSE IF Exceeds(effects, entry.ceiling) THEN "EFFECT_EXCEEDS_DESCRIPTOR_AUTHORITY_CEILING"
  ELSE "DESCRIPTOR_AUTHORITY_SATISFIED"

\* The boundaries a request crosses with this engine: all of them are told.
ViolatedBoundaries(entry, request) ==
  {b \in {"INTENT", "POLICY", "DESCRIPTOR", "PHASE"} :
     CASE b = "INTENT" -> Exceeds(request.effects, request.intent.ceiling)
       [] b = "POLICY" -> Exceeds(request.effects, request.policy.ceiling)
       [] b = "PHASE" -> Exceeds(request.effects, request.phase)
       [] OTHER -> CeilingDecision(entry, request.effects) # "DESCRIPTOR_AUTHORITY_SATISFIED"}

\* A request without effects asks for no authority.
Authorized(entry, request) == request.effects = {} \/ ViolatedBoundaries(entry, request) = {}

-----------------------------------------------------------------------------
(* The plan.                                                                *)

Refused == [refused |-> TRUE]

\* What is refused before an engine is looked at.
RequestAdmitted(request) ==
  /\ request.intent.policy = request.policy.id
  /\ ~Exceeds(request.effects, request.intent.ceiling)
  /\ ~Exceeds(request.effects, request.policy.ceiling)
  /\ ~Exceeds(request.effects, request.phase)

Selectable(snapshot, quals, request, entry) ==
  /\ snapshot.state[Identity(entry)] = "AVAILABLE"
  /\ Qualification(quals, entry, request.setting, request.asOf) = "QUALIFICATION_SATISFIED"
  /\ Authorized(entry, request)

\* A plan names engines by their id alone.
SelectedEngines(registry, snapshot, quals, request) ==
  {entry.engine : entry \in {x \in registry : Selectable(snapshot, quals, request, x)}}

\* What holds of a plan beside its intent and policy, when it is made and when it is read.
PlanSound(plan, intent, policy) ==
  /\ plan.intent = intent /\ plan.policy = policy /\ intent.policy = policy.id
  /\ policy.mandatory \subseteq plan.checks
  /\ plan.checks \cap DOMAIN plan.omitted = {}
  /\ ~Exceeds(plan.effects, intent.ceiling) /\ ~Exceeds(plan.effects, policy.ceiling)

DeterministicPlan(registry, snapshot, quals, request) ==
  LET plan == [refused |-> FALSE, intent |-> request.intent, policy |-> request.policy,
               checks |-> request.policy.mandatory, effects |-> request.effects,
               selected |-> SelectedEngines(registry, snapshot, quals, request),
               omitted |-> [e \in {} |-> Absent]]
  IN IF /\ RequestAdmitted(request) /\ SnapshotBinds(registry, snapshot)
        /\ PlanSound(plan, request.intent, request.policy)
     THEN plan ELSE Refused

Reason == {"REQUIRED_ENGINE_UNAVAILABLE", "REQUIRED_ENGINE_NOT_QUALIFIED",
           "REQUIRED_ENGINE_EFFECT_EXCEEDS_CEILING"}

\* Mutated form: an engine known not to be qualified is left to the qualifications.
ReasonByRecords(registry, snapshot, quals, request, e) ==
  LET entry == FirstOf(registry, e)
  IN IF snapshot.state[Identity(entry)] = "UNAVAILABLE" THEN "REQUIRED_ENGINE_UNAVAILABLE"
     ELSE IF Qualification(quals, entry, request.setting, request.asOf)
               # "QUALIFICATION_SATISFIED" THEN "REQUIRED_ENGINE_NOT_QUALIFIED"
     ELSE IF ~Authorized(entry, request) THEN "REQUIRED_ENGINE_EFFECT_EXCEEDS_CEILING" ELSE Absent

\* Why the first entry of an engine was not selected.
OmissionReason(registry, snapshot, quals, request, e) ==
  LET entry == FirstOf(registry, e)
      state == snapshot.state[Identity(entry)]
  IN IF state = "UNAVAILABLE" THEN "REQUIRED_ENGINE_UNAVAILABLE"
     ELSE IF \/ state = "NOT_QUALIFIED"
             \/ Qualification(quals, entry, request.setting, request.asOf)
                  # "QUALIFICATION_SATISFIED"
          THEN "REQUIRED_ENGINE_NOT_QUALIFIED"
     ELSE IF ~Authorized(entry, request) THEN "REQUIRED_ENGINE_EFFECT_EXCEEDS_CEILING" ELSE Absent

\* The list has an omission for each entry: two entries of an engine are a duplicate, and
\* the plan is refused; so is one that omits what the policy makes mandatory.
PlanWithOmissions(registry, snapshot, quals, request) ==
  LET base == DeterministicPlan(registry, snapshot, quals, request)
      Why(e) == OmissionReason(registry, snapshot, quals, request, e)
      missed == {a \in registry : a.engine \notin base.selected /\ Why(a.engine) # Absent}
      plan == [base EXCEPT !.omitted = [e \in {a.engine : a \in missed} |-> Why(e)]]
  IN IF base = Refused THEN Refused
     ELSE IF \E a, b \in missed : a # b /\ a.engine = b.engine THEN Refused
     ELSE IF PlanSound(plan, request.intent, request.policy) THEN plan ELSE Refused
================================================================================
