\* A flow that produces until its shutdown is requested, its client in wait and
\* another client that requests the shutdown.
CONSTANTS
  c1 = c1  c2 = c2
  f1 = f1  f2 = f2
  Clients = {c1, c2}
  Flows = {f1, f2}
  RunBy <- EachItsOwn
  Length <- Lengths
  Endless = {f1}
  MaxRuns = 1
  NoClient = NoClient
SPECIFICATION FairSpec
CHECK_DEADLOCK FALSE
PROPERTY RequestShutdownReturns
