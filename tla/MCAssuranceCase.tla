----------------------------- MODULE MCAssuranceCase -----------------------------
(***************************************************************************)
(* Two engines, one of them registered in two configurations; effects and  *)
(* ceilings 0 and 1; times 0 to 3; two runs, three pieces of evidence and   *)
(* one finding.                                                             *)
(***************************************************************************)
EXTENDS AssuranceCase

Empty == [x \in {} |-> Absent]

Entry(e, c, effects, ceiling) ==
  [engine |-> e, impl |-> 1, config |-> c, effects |-> effects, ceiling |-> ceiling]

\* The last is refused: its ceiling is above all it declares.
MCRegistries ==
  LET a == Entry("e1", 1, {0, 1}, 1)
      b == Entry("e1", 2, {0, 1}, 0)
      c == Entry("e2", 1, {0}, 0)
  IN {{a}, {a, b}, {a, c}, {b, c}, {a, b, c}, {Entry("e2", 1, {0}, 1)}}

MCIdentities == {<<"e1", 1, 1>>, <<"e1", 1, 2>>, <<"e2", 1, 1>>}

MCObservations ==
  UNION {[ids -> {"AVAILABLE", "UNAVAILABLE", "NOT_QUALIFIED"}] : ids \in SUBSET MCIdentities}

Qual(i, e, c, setting, passed, at, expires) ==
  [id |-> i, engine |-> e, impl |-> 1, config |-> c, setting |-> setting, passed |-> passed,
   at |-> at, expires |-> expires]

MCQualRecords ==
  {Qual(1, "e1", 1, "s", TRUE, 0, 2), Qual(2, "e1", 2, "s", TRUE, 1, 3),
   Qual(3, "e2", 1, "s", TRUE, 0, 3), Qual(4, "e1", 1, "t", TRUE, 0, 3),
   Qual(5, "e2", 1, "s", FALSE, 0, 3), [Qual(6, "e1", 1, "s", TRUE, 0, 3) EXCEPT !.impl = 2]}

MCQualifications == SUBSET MCQualRecords \cup {{Qual(7, "e2", 1, "s", TRUE, 2, 2)}}

RequestOf(effects, intent, policy, phase, asOf, checks) ==
  [effects |-> effects, intent |-> [ceiling |-> intent, policy |-> "p"],
   policy |-> [id |-> "p", ceiling |-> policy, mandatory |-> checks],
   phase |-> phase, setting |-> "s", asOf |-> asOf]

\* The last names another policy than its intent does.
MCRequests ==
  {RequestOf({}, 0, 0, 0, 1, {}), RequestOf({0}, 1, 1, 1, 1, {"c"}), RequestOf({0, 1}, 1, 1, 1, 2, {}),
   RequestOf({1}, 0, 1, 1, 1, {}), RequestOf({1}, 1, 0, 1, 1, {}), RequestOf({1}, 1, 1, 0, 1, {}),
   RequestOf({0}, 0, 0, 0, 0, {"e2"}),
   [RequestOf({0}, 1, 1, 1, 1, {}) EXCEPT !.policy.id = "p2"]}

-----------------------------------------------------------------------------
MCDescriptors ==
  LET of(e) == IF e = "e1" THEN Entry("e1", 1, {0, 1}, 1) ELSE Entry("e2", 1, {0}, 0)
  IN {[e \in E |-> of(e)] : E \in {{"e1"}, {"e1", "e2"}}}

MCQualGraphs ==
  LET of(i) == CHOOSE q \in MCQualRecords : q.id = i
  IN {[i \in I |-> of(i)] : I \in {{1}, {2}, {1, 3}, {4, 5}, {6}}}

Run(e, config, qual, attempt, parent, start, end) ==
  [engine |-> e, config |-> config, setting |-> "s", qual |-> qual, attempt |-> attempt,
   parent |-> parent, start |-> start, end |-> end, artifacts |-> {"a"},
   findings |-> {}, coverage |-> {}]

MCRunRecords ==
  {Run("e1", 1, 1, 1, Absent, v[1], v[2]) : v \in {<<0, 1>>, <<1, 0>>, <<1, 1>>, <<2, 2>>}}
    \cup {Run("e1", 1, 1, 2, p, 1, 1) : p \in {1, 2}}
    \cup {Run("e1", 2, 2, 1, Absent, 1, 1), Run("e2", 1, 3, 1, Absent, 0, 0),
          Run("e2", 1, 5, 1, Absent, 0, 0), Run("e1", 1, 4, 1, Absent, 0, 0)}
    \cup {[Run("e1", 1, 1, 1, Absent, 0, 0) EXCEPT !.findings = {"f"}, !.coverage = {"k"}]}

MCRunGraphs == {Empty} \cup [{1} -> MCRunRecords] \cup [{1, 2} -> MCRunRecords]

MCEngineGraphs ==
  [descriptors : MCDescriptors, quals : MCQualGraphs, runs : MCRunGraphs]

Item(run, at, expires, parents, artifact) ==
  [run |-> run, at |-> at, expires |-> expires, parents |-> parents, artifact |-> artifact]

\* Chains and cycles of two and three, a shared parent, a dangling one, a foreign artifact.
MCEvidenceGraphs ==
  LET Three == <<{2}, {3}, {}>>
  IN {Empty}
       \cup {[e \in {1} |-> Item(r, 0, x, {}, a)] : r \in 1..2, x \in {1, 3}, a \in {"a", "b"}}
       \cup {[e \in {1, 2} |-> Item(1, 0, e, P[e], Absent)] :
               P \in {<<{}, {}>>, <<{2}, {}>>, <<{2}, {1}>>, <<{1}, {}>>, <<{}, {4}>>}}
       \cup {[e \in {1, 2, 3} |-> Item(1, 1, 3, P[e], "a")] :
               P \in {Three, [Three EXCEPT ![3] = {1}], [Three EXCEPT ![1] = {2, 3}],
                      [Three EXCEPT ![2] = {1, 3}]}}

-----------------------------------------------------------------------------
Finding(status, disposition, proofs) ==
  [status |-> status, disposition |-> disposition, proofs |-> proofs,
   seen |-> {[run |-> 1, evidence |-> proofs]}]

Accepted(expires, review) ==
  [kind |-> "RISK_ACCEPTANCE", expires |-> expires, review |-> review, evidence |-> {}]

Event(from, to, at, expires, review) ==
  [from |-> from, to |-> to, at |-> at, expires |-> expires, review |-> review,
   evidence |-> {}]

MCEvents ==
  LET open == Event(Absent, "OPEN", 1, Absent, Absent)
  IN {<<>>, <<open>>, <<Event("OPEN", "OPEN", 0, Absent, Absent)>>,
      <<open, Event("OPEN", "ACCEPTED_RISK", 1, 3, 2)>>,
      <<open, Event("OPEN", "ACCEPTED_RISK", 0, 3, 2)>>,
      <<open, Event("OPEN", "ACCEPTED_RISK", 1, 2, 3)>>,
      <<open, Event("OPEN", "VERIFIED_FIXED", 2, Absent, Absent)>>,
      <<open, Event("REPAIRED_PENDING_REVERIFY", "VERIFIED_FIXED", 2, Absent, Absent)>>}

MCFindings ==
  {Finding("OPEN", Absent, P) : P \in {{}, {1}}}
    \cup {Finding("VERIFIED_FIXED", Absent, {}), Finding("ACCEPTED_RISK", Absent, {}),
          Finding("OPEN", Accepted(3, 2), {})}
    \cup {Finding("ACCEPTED_RISK", Accepted(x, 2), {}) : x \in {1, 2, 3}}

MCFindingGraphs ==
  {[findings |-> Empty, events |-> Empty]}
    \cup {[findings |-> [f \in {"f"} |-> x], events |-> [f \in {"f"} |-> v]] :
            x \in MCFindings, v \in MCEvents}

Dimension(state, scoped, limited, refs) ==
  [state |-> state, scoped |-> scoped, limited |-> limited, evidence |-> refs]

Claimed(d) == [k \in {"k"} |-> [runs |-> {1}, dimensions |-> {d}]]

Records(coverage, omissions, contradictions) ==
  [coverage |-> coverage, omissions |-> omissions, contradictions |-> contradictions]

MCRecordGraphs ==
  {Records(Empty, Empty, Empty),
   Records(Claimed(Dimension("COVERED", TRUE, FALSE, {1})), Empty, Empty),
   Records(Claimed(Dimension("PARTIAL", TRUE, FALSE, {1})), Empty, Empty),
   Records(Claimed(Dimension("UNKNOWN", FALSE, TRUE, {})), Empty, Empty),
   Records(Empty, [o \in {"o"} |-> [wants |-> {"effect"}, evidence |-> {}]], Empty),
   Records(Empty, [o \in {"o"} |-> [wants |-> {}, evidence |-> {}]], Empty),
   Records(Empty, Empty, [c \in {"c"} |-> [left |-> {1}, right |-> {2}]])}

-----------------------------------------------------------------------------
MCMandatory == {{}, {1}, {1, 2}}

MCClasses ==
  LET of(S, c, T) == [x \in EvidenceClass |-> IF x = "supporting" THEN S ELSE IF x = c THEN T ELSE {}]
  IN {of(S, c, T) : S \in {{}, {1}, {1, 2}}, c \in {"missing", "stale"}, T \in {{}, {1}, {2}}}

Assessment(state, classes, omissions, at) ==
  [state |-> state, classes |-> classes, coverage |-> {}, omissions |-> omissions,
   contradictions |-> {}, at |-> at]

MCAssessments ==
  {Assessment(s, c, o, t) : s \in {"SUPPORTED", "INCONCLUSIVE"}, c \in MCClasses,
                            o \in {{}, {"o"}}, t \in 0..3}
================================================================================
