\* Conditions over two ports, of a reader (c) and of a writer (a); every call of
\* the interface.  An operator may return with a full queue in front of it, and
\* whoever pushes to it then stays blocked.
CONSTANTS
  a = a  b = b  c = c
  t1 = t1
  Operators = {a, b, c}
  InPorts = {"in1", "in2", "in3"}
  OutPorts = {"out1", "out2"}
  Owner <- TriangleOwner
  Source <- TriangleSource
  Subscribers <- TriangleSubscribers
  Asks <- TriangleAsks
  Threads = {t1}
  Tuples = {"x"}
  MaxQueueSize = 1
SPECIFICATION Spec
CHECK_DEADLOCK FALSE
INVARIANTS Inv AnswersHold NobodyIsLeftBlocked BlockInv
