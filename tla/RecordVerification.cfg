\* The quality engine, the assurance case and the security review, one at a time.
SPECIFICATION Spec
CONSTANTS
  k1 = k1
  Unset = Unset
  Candidate = {own, other}
  Own = own
  Env = {e1, e2}
  Class = {c}
  Target = {t1, t2}
  Required = 3
  MaxRuns = 3
  Conflict = {k1}
  Obligation = {o, regression}
  Regression = regression
  Links <- MCLinks
  OracleUsed <- MCOracles
  ClaimUsed <- MCClaims
  Engine = {"e1", "e2"}
  Absent = Absent
  Registries <- MCRegistries
  Observations <- MCObservations
  Qualifications <- MCQualifications
  Requests <- MCRequests
  EngineGraphs <- MCEngineGraphs
  EvidenceGraphs <- MCEvidenceGraphs
  FindingGraphs <- MCFindingGraphs
  RecordGraphs <- MCRecordGraphs
  Mandatory <- MCMandatory
  Assessments <- MCAssessments
  h1 = h1
  p1 = p1
  p2 = p2
  r1 = r1
  Null = Null
  Revision = {h1, h2}
  Path = {p1, p2}
  Foreign = {p2}
  Rule = {r1}
  Base <- MCBase
  Input <- MCInput
  Second <- MCSecond
  Request <- MCRequest
  Listing <- MCListing
INVARIANTS
  ReadyIsEarned RecordsRevive
  PlanAccounts GraphGrounded ClaimEarned
  RecordsSound CoverageEarned SupportedFixIsGone ComparisonSound
PROPERTY AdmissionEarned
CHECK_DEADLOCK FALSE
