\* Every policy on one worker thread, with a clock that runs for some
\* microseconds of two ticks each and then stops.
CONSTANTS
  a = a  b = b  c = c
  t1 = t1
  Operators = {a, b, c}
  InPorts = {"in1", "in2", "in3"}
  OutPorts = {"out1", "out2"}
  Owner <- FlowOwner
  Source <- FlowSource
  Subscribers <- FlowSubscribers
  Inputs <- FlowInputs
  Outputs <- FlowOutputs
  Threads = {t1}
  Tuples = {"x"}
  MaxQueueSize = 1
  Policies = {"Random", "LeastRecently", "MinLatency", "MaxQueueLength", "MaxThroughput"}
  Micro = 2
  Epoch = 2
  LastTick = 5
  NoOperator = NoOperator
SPECIFICATION Spec
CHECK_DEADLOCK FALSE
INVARIANTS PoliciesInv RoomKept OthersAttend
PROPERTIES ChoosesByPolicy SleepsOnlyBesideRecent
