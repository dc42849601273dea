\* Two producers that share an input port of a consumer, which has another input
\* port fed by one of them and waits for either port or for both; preemption.
CONSTANTS
  a = a  b = b  c = c
  t1 = t1  t2 = t2
  Operators = {a, b, c}
  InPorts = {"in1", "in2"}
  OutPorts = {"out1", "out2"}
  Owner <- MeshOwner
  Source <- MeshSource
  Subscribers <- MeshSubscribers
  Threads = {t1, t2}
  Tuples = {"x"}
  MaxQueueSize = 1
  MaxWait = 1
  QueueBound = 2
  Preemption = {TRUE, FALSE}
  NoOperator = NoOperator
SPECIFICATION Spec
CHECK_DEADLOCK FALSE
INVARIANTS Inv NoLostReadWakeup NoLostClosure QueueBounded Reservations
PROPERTY ClosedPortsGetNothing
