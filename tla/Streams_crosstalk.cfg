SPECIFICATION FairSpec
CONSTANTS
  q1 = q1  q2 = q2  p1 = p1  d1 = d1
  Queries = {q1, q2}
  Plains = {p1}
  Ingests = {d1}
  Mixes <- MCMixes
  Plain = Plain
  Deltas = 2
  MaxBatches = 2
  MaxFailures = 1
  PageDocs = {u1}
  Cookies = {"HttpOnly", "script"}
  MaxGets = 2
  MaxChanges = 2
  MaxRetyped = 5
  MaxQuestions = 2
  MaxEvents = 2
INVARIANT OwnAnswerOnly
CHECK_DEADLOCK FALSE
