\* The two clients and flows of Reruns: a flow is shut down before the end of its
\* input and then run again.
CONSTANTS
  c1 = c1  c2 = c2
  f1 = f1  f2 = f2
  Clients = {c1, c2}
  Flows = {f1, f2}
  RunBy <- EachItsOwn
  Length <- Lengths
  Endless = {}
  MaxRuns = 2
  NoClient = NoClient
SPECIFICATION FairSpec
CHECK_DEADLOCK FALSE
PROPERTY RunsResume
