\* Three tuples through the splits, the merges and the filter on one worker
\* thread, which has to be given back at every wait.
CONSTANTS
  s1 = s1  s2 = s2  sp = sp  mg = mg  rs = rs  rm = rm  fi = fi  un = un  k = k
  t1 = t1  t2 = t2
  Operators = {s1, sp, mg, rs, rm, fi, k}
  InPorts = {"sp1", "mg1", "mg2", "rs1", "rm1", "rm2", "fi1", "k1"}
  OutPorts = {"s1o", "spo1", "spo2", "mgo", "rso1", "rso2", "rmo", "fio"}
  Owner <- ParallelOwner
  Source <- ParallelSource
  Subscribers <- ParallelSubscribers
  Inputs <- ParallelInputs
  Outputs <- ParallelOutputs
  Apps <- ParallelApps
  Threads = {t1}
  Tuples <- Alphabet
  MaxQueueSize = 2
  MaxWait = 1
  QueueBound = 9
  Preemption = {FALSE}
  NoOperator = NoOperator
SPECIFICATION FairFlowSpec
INVARIANT FrontsExist
PROPERTIES KeepsContract FlowEnds
