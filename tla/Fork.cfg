\* A producer whose output port has two subscribers, every call of the
\* interface, waits for up to two tuples, preemption.  An operator may return
\* with a full queue in front of it, and whoever pushes to it then stays blocked:
\* such a state is the client code's doing, so the runs of MCStreamRuntime check
\* no deadlock.
CONSTANTS
  a = a  b = b  c = c
  t1 = t1  t2 = t2
  Operators = {a, b, c}
  InPorts = {"in1", "in2"}
  OutPorts = {"out1"}
  Owner <- ForkOwner
  Source <- ForkSource
  Subscribers <- ForkSubscribers
  Threads = {t1, t2}
  Tuples = {"x"}
  MaxQueueSize = 2
  MaxWait = 2
  QueueBound = 3
  Preemption = {TRUE, FALSE}
  NoOperator = NoOperator
SPECIFICATION Spec
CHECK_DEADLOCK FALSE
SYMMETRY ThreadSymmetry
INVARIANTS TypeOK OneResumption RunningIsCarried NoStalledReady ExitOnlyWhenDone
  NoLostWriteWakeup WriteIndex QueueBounded
