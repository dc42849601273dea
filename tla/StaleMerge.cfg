\* A merge of two files of one line and of three: it waits on its ports one
\* after the other, and a threshold left behind blocks it for good.
CONSTANTS
  s1 = s1  s2 = s2  sp = sp  mg = mg  rs = rs  rm = rm  fi = fi  un = un  k = k
  t1 = t1  t2 = t2
  Operators = {s1, s2, un, k}
  InPorts = {"u1", "u2", "k1"}
  OutPorts = {"s1o", "s2o", "uo"}
  Owner <- TwoOwner
  Source <- TwoSource
  Subscribers <- TwoSubscribers
  Inputs <- TwoInputs
  Outputs <- TwoOutputs
  Apps <- MergeApp
  Threads = {t1, t2}
  Tuples <- Alphabet
  MaxQueueSize = 1
  MaxWait = 1
  QueueBound = 9
  Preemption = {FALSE}
  NoOperator = NoOperator
SPECIFICATION FairFlowSpec
CHECK_DEADLOCK FALSE
PROPERTY ShutdownCompletes
