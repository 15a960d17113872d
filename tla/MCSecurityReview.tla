---------------------------- MODULE MCSecurityReview ----------------------------
(***************************************************************************)
(* SecurityReview for TLC: two revisions, two paths, one rule.  The inputs *)
(* of a boundary are an admitted one with the fields its rules relate      *)
(* varied together, and each of the others varied by itself.               *)
(***************************************************************************)
EXTENDS SecurityReview

CONSTANTS h1, p1, p2, r1

MCBase ==
  [class |-> "STRUCTURAL", capability |-> "sast-structural", intact |-> TRUE, text |-> "plain",
   rule |-> r1, path |-> p1, start |-> 1, end |-> 2, prov |-> "COMPLETE", produced |-> TRUE,
   exec |-> "EXECUTED", match |-> "MATCHED", cov |-> "COMPLETE_WITHIN_STATED_SCOPE",
   agg |-> "COVERED_WITHIN_STATED_SCOPE", unknowns |-> {}, losses |-> {}, limits |-> {{"plain"}},
   head |-> h1, attempt |-> h1, digest |-> 1, unscanned |-> {}, reproduction |-> "repro",
   secret |-> "TOKEN", redacted |-> 3, fresh |-> "CONFIRMED", advisory |-> Null,
   lockfile |-> TRUE, artifact |-> 1]

Dependency ==
  [MCBase EXCEPT !.class = "DEPENDENCY", !.capability = "dependency-delta", !.rule = Null,
                 !.match = "NOT_MATCHED", !.cov = "PARTIAL", !.agg = "PARTIALLY_COVERED",
                 !.unknowns = {"REACHABILITY_NOT_COMPUTED"}, !.losses = {"UNKNOWN_REACHABILITY"}]

Cover == {"COMPLETE_WITHIN_STATED_SCOPE", "PARTIAL", "UNSCANNED", "UNKNOWN"}
Aggregates == {"COVERED_WITHIN_STATED_SCOPE", "PARTIALLY_COVERED", "NOT_COVERED", "UNKNOWN"}
Match == {"MATCHED", "NOT_MATCHED", "UNKNOWN"}

\* What was run, matched and covered,
States(b, unknowns, losses) ==
  {[b EXCEPT !.exec = e, !.match = m, !.cov = c, !.agg = a, !.unknowns = u, !.losses = l] :
     e \in {"EXECUTED", "AVAILABLE", "TIMEOUT"}, m \in Match, c \in Cover, a \in Aggregates,
     u \in unknowns, l \in losses}

\* where,
Places(b) ==
  {[b EXCEPT !.path = p, !.start = s, !.end = n, !.match = m] :
     p \in Path \cup {Null}, s \in 0..2, n \in 0..2, m \in Match}

\* by whom,
Origins(b) ==
  {[b EXCEPT !.prov = v, !.produced = d, !.rule = r, !.class = c] :
     v \in {"COMPLETE", "PARTIAL", "ABSENT", "UNRESOLVED"}, d \in BOOLEAN, r \in {r1, Null},
     c \in {b.class, "REVIEW"}}

\* and with which texts.
Texts(b) ==
  {[b EXCEPT !.text = t, !.limits = l, !.intact = i] :
     t \in {"plain", "secret", "attesting", "escalating"}, i \in BOOLEAN,
     l \in {{}, {{"plain"}}, {{"claim"}}, {{"denied"}}, {{"claim", "denied"}, {"plain"}}}}

Shapes(b) ==
  {[b EXCEPT !.secret = c, !.redacted = d, !.unscanned = u, !.cov = s] :
     c \in {"TOKEN", "UNCLASSIFIED"}, d \in {1, 3}, u \in {{}, {"unit"}}, s \in Cover}

Freshness ==
  {[Dependency EXCEPT !.fresh = f, !.unknowns = u, !.losses = l, !.advisory = a, !.match = m,
                      !.cov = c, !.lockfile = k] :
     f \in {"CONFIRMED", "STALE", "UNAVAILABLE", "UNKNOWN"},
     u \in SUBSET {"REACHABILITY_NOT_COMPUTED", "ADVISORY_STALE_UNAVAILABLE"},
     l \in SUBSET {"UNKNOWN_REACHABILITY", "STALE_ADVISORY_STATE", "ENGINE_UNAVAILABLE"},
     a \in {"advisory", Null}, m \in Match, c \in {"PARTIAL", "UNSCANNED"}, k \in BOOLEAN}

Inputs(b) ==
  States(b, {{}, {"TIMEOUT"}}, {{}, {"TIMEOUT"}, {"VERSION_MISMATCH"}})
    \cup Places(b) \cup Origins(b) \cup Texts(b) \cup Shapes(b)

MCInput ==
  [evidence |-> Inputs(MCBase), sast |-> Inputs(MCBase), secret |-> Inputs(MCBase),
   sca |-> Freshness \cup Texts(Dependency) \cup Origins(Dependency)
     \cup States(Dependency, {{"REACHABILITY_NOT_COMPUTED"}},
                 {{"UNKNOWN_REACHABILITY"}, {"UNKNOWN_REACHABILITY", "TIMEOUT"}})]

\* Beside another: the same, the same of less, another, and one that is refused.
Beside(b) ==
  {b, [b EXCEPT !.cov = "PARTIAL", !.agg = "PARTIALLY_COVERED"], [b EXCEPT !.digest = 2],
   [b EXCEPT !.intact = FALSE]}

MCSecond ==
  [evidence |-> Beside(MCBase), sast |-> Beside(MCBase), secret |-> Beside(MCBase),
   sca |-> Beside(Dependency)]

Workflows == [MCBase EXCEPT !.class = "WORKFLOW", !.capability = "github-actions"]

MCListing ==
  {[Workflows EXCEPT !.class = c, !.head = h, !.artifact = a, !.digest = d, !.cov = v, !.unknowns = u] :
     c \in {"WORKFLOW", "CONFIG"}, h \in Revision, a \in {1, 2}, d \in {1, 2},
     v \in {"COMPLETE_WITHIN_STATED_SCOPE", "PARTIAL"}, u \in {{}, {"TIMEOUT"}}}

-----------------------------------------------------------------------------

Units ==
  {[state |-> "COVERED", parser |-> "PARSER_SUPPORTED", evidence |-> "EVIDENCE_PRODUCED"],
   [state |-> "COVERED", parser |-> "PARSER_UNSUPPORTED", evidence |-> "EVIDENCE_PRODUCED"],
   [state |-> "PARTIALLY_COVERED", parser |-> "PARSER_SUPPORTED", evidence |-> "EVIDENCE_PRODUCED"],
   [state |-> "UNSCANNED", parser |-> "PARSER_SUPPORTED", evidence |-> "EVIDENCE_MISSING"],
   [state |-> "UNSUPPORTED", parser |-> "PARSER_UNSUPPORTED", evidence |-> "EVIDENCE_MISSING"],
   [state |-> "UNKNOWN", parser |-> "PARSER_SUPPORTED", evidence |-> "EVIDENCE_MISSING"],
   [state |-> "unheard-of", parser |-> "PARSER_SUPPORTED", evidence |-> "EVIDENCE_PRODUCED"]}

Loss(scope, reason, detail) == [scope |-> scope, reason |-> reason, detail |-> detail]

LossSets ==
  {{}, {Loss("capability", "TIMEOUT", 1)}, {Loss("capability", "ENGINE_UNAVAILABLE", 1)},
   {Loss("u1", "TIMEOUT", 1)}, {Loss("u1", "TIMEOUT", 1), Loss("u1", "TIMEOUT", 2)},
   {Loss("u1", "UNSUPPORTED_LANGUAGE", 1)},
   {Loss("u1", "UNSUPPORTED_MANIFEST", 1), Loss("capability", "TIMEOUT", 1)}}

RunsOf(capability, units, losses) ==
  [capability : {capability}, exec : {"EXECUTED", "AVAILABLE", "TIMEOUT", "NOT_RUN"},
   units : units, losses : losses, limits : {{}, {"plain"}}]

First == RunsOf("sast-structural", {<<>>} \cup [{"u1"} -> Units] \cup [{"u1", "u2"} -> Units], LossSets)
Other == RunsOf("secrets-changed", [{"u1"} -> Units], {{}, {Loss("capability", "TIMEOUT", 1)}})

Both == {"sast-structural", "secrets-changed"}

MCRequest ==
  {[requested |-> q, runs |-> {r}] : q \in {{"sast-structural"}, Both}, r \in First}
    \cup {[requested |-> Both, runs |-> {r, s}] :
            r \in {f \in First : RunAdmitted(f)}, s \in {o \in Other : RunAdmitted(o)}}
    \cup {[requested |-> Both, runs |-> {}], [requested |-> {"unheard-of"}, runs |-> {}]}
================================================================================
