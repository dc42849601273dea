\* Two clients, each with a flow that it runs and may run again, and each
\* requesting shutdowns of both.  The clients may stop calling.
CONSTANTS
  c1 = c1  c2 = c2
  f1 = f1  f2 = f2
  Clients = {c1, c2}
  Flows = {f1, f2}
  RunBy <- EachItsOwn
  Length <- Lengths
  Endless = {}
  MaxRuns = 2
  NoClient = NoClient
SPECIFICATION FairSpec
CHECK_DEADLOCK FALSE
INVARIANTS TypeOK EachRunStartsOver RunsDoNotOverlap
PROPERTY CallsReturn
