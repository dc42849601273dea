------------------------- MODULE SchedulingPolicies -------------------------
(***************************************************************************)
(* The scheduling policies of the library, which the other modules replace *)
(* by a free choice: how each of them picks among the ready operators from *)
(* the clock, the timestamps and the queues, on top of the methods of the  *)
(* Scheduler.  The code of the operators is reduced to the calls it makes. *)
(* A search reads the counts, stamps and profiles that it compares at one  *)
(* instant; the code reads them one after the other, under the scheduler's *)
(* mutex, which the queues do not share.  A thread is back as soon as its  *)
(* operator is marked; in the code it has yet to yield.  With one thread   *)
(* there is no difference.                                                 *)
(* Nothing completes in this module and nothing is shut down.              *)
(***************************************************************************)
EXTENDS Scheduler, SequencesExt

CONSTANTS
  Policies,     \* the plugins that the flow may be run with
  Micro,        \* ticks of the clock in a microsecond
  Epoch,        \* epochMicrosecs_, in ticks
  LastTick,     \* bound: the clock stops here
  Inputs,       \* Inputs[o]: the input ports of o in the order of their numbers
  Outputs,      \* Outputs[o]: its output ports in the order of their numbers
  NoOperator

ASSUME PoliciesAssumption ==
  /\ Policies \subseteq {"Random", "LeastRecently", "MinLatency", "MaxQueueLength",
                  "MaxThroughput"}
  /\ {Micro, Epoch, LastTick} \subseteq Nat
  /\ 0 < Micro /\ Micro <= Epoch
  /\ NoOperator \notin Operators
  /\ \A o \in Operators : Inputs[o] \in Seq(InPorts) /\ Range(Inputs[o]) = InPortsOf(o)
  /\ \A o \in Operators : Outputs[o] \in Seq(OutPorts) /\ Range(Outputs[o]) = OutPortsOf(o)
  /\ InPorts \cap OutPorts = {}

VARIABLES
  policy,       \* the plugin of this run
  clock,        \* high_resolution_clock
  ran,          \* ran[o]: for how long o has been Running (now - beginTime_)
  endTime,      \* endTime[o]: when it last stopped running
  stamps,       \* stamps[p]: when each tuple in the queue of p was inserted
  working,      \* working[t]: the operator that thread t executes
  pc,           \* pc[o]: where o is in a push or a pop, or else in its own code
  todo,         \* todo[o]: the ports that the push or pop has yet to deal with
  counted,      \* the ports whose counter in ProfileAndCounter is not zero
  profile,      \* profile[p]: tuples per microsecond through port p, a magnitude
  conjunctive   \* the operators with conjCount > disjCount

timeVars == <<clock, ran, endTime, stamps>>
profileVars == <<counted, profile, conjunctive>>
callVars == <<pc, todo>>
vars == <<portVars, schedVars, timeVars, profileVars, callVars, policy, working>>

\* What the scheduler measures is kept in the runs of the policies that read it.
Profiled == policy = "MaxThroughput"
Stamped == policy = "MinLatency"
Ended == policy \in {"LeastRecently", "MinLatency"}

-----------------------------------------------------------------------------
(***************************************************************************)
(* findOperatorToExecute.  The ready operators are in an unordered_set and *)
(* are visited in any order.  A selection has the operator selected so far *)
(* and what it was selected for.                                           *)
(***************************************************************************)
Visits == SetToSeqs(ReadyOperators)

\* Mutant of Earlier: a whole microsecond earlier is not earlier.
EarlierByMore(x, y) == x < y - Micro

\* duration_cast truncates towards zero: what is less than a microsecond
\* earlier is not earlier.
Earlier(x, y) == x <= y - Micro

\* The selection after operator o, or one of its tuples, of time x was visited.
Sooner(sel, o, x) == IF Earlier(x, sel.time) THEN [oper |-> o, time |-> x] ELSE sel

LeastRecently ==
  {FoldLeft(LAMBDA sel, o : Sooner(sel, o, endTime[o]),
            [oper |-> NoOperator, time |-> clock], v).oper : v \in Visits}

\* The first tuples of the input ports of o, in the order of the ports.
VisitTuples(sel, o) ==
  FoldLeft(LAMBDA s, p : IF Count(p) = 0 THEN s ELSE Sooner(s, o, stamps[p][1]),
           sel, Inputs[o])

\* A source has no tuples, and is judged as by LeastRecently.
VisitForLatency(sel, o) ==
  IF Inputs[o] = <<>> THEN Sooner(sel, o, endTime[o]) ELSE VisitTuples(sel, o)

\* Mutant of MinLatency: it starts from no operator, as LeastRecently does.
LatencyFromNone ==
  {FoldLeft(VisitForLatency, [oper |-> NoOperator, time |-> clock], v).oper : v \in Visits}

MinLatency ==
  {FoldLeft(VisitForLatency, [oper |-> Head(v), time |-> clock], v).oper : v \in Visits}

Longest(o) == CHOOSE n \in {Count(p) : p \in InPortsOf(o)} :
                \A p \in InPortsOf(o) : Count(p) <= n

\* The loop ends at the first source.
VisitForLength(sel, o) ==
  CASE sel.found -> sel
    [] ~sel.found /\ Inputs[o] = <<>> -> [sel EXCEPT !.oper = o, !.found = TRUE]
    [] OTHER -> IF Longest(o) > sel.length
                THEN [sel EXCEPT !.oper = o, !.length = Longest(o)] ELSE sel

MaxQueueLength ==
  {FoldLeft(VisitForLength, [oper |-> Head(v), length |-> -1, found |-> FALSE], v).oper
     : v \in Visits}

-----------------------------------------------------------------------------
(***************************************************************************)
(* The doubles of MaxThroughputScheduling.  Of a double the model keeps the *)
(* magnitude: what the divisions by zero, the comparisons with a NaN and   *)
(* the initial -1 make of it.                                              *)
(***************************************************************************)
Magnitudes == <<"none", "zero", "some", "inf", "nan">>
Rank(x) == CHOOSE i \in DOMAIN Magnitudes : Magnitudes[i] = x

\* x < y surely, and perhaps.  No comparison with a NaN holds.
Less(x, y) == Rank(x) < Rank(y) /\ y # "nan"
MaybeLess(x, y) == Less(x, y) \/ (x = "some" /\ y = "some")

Quotient(n, x) ==
  CASE x = "nan" \/ (n = 0 /\ x = "zero") -> "nan"
    [] n # 0 /\ x = "zero" -> "inf"
    [] n # 0 /\ x = "some" -> "some"
    [] OTHER -> "zero"

\* updateProfile: the greater of two addends decides the magnitude of a weighted
\* sum.  The first term replaces the profile or is added to a zero, as the
\* uninitialised firstTime has it: the magnitude is the same.
UpdatedProfile(x, term) == IF Rank(x) < Rank(term) THEN term ELSE x

Least(m, x) == IF m = "none" \/ Less(x, m) THEN x ELSE m
Greatest(m, x) == IF m = "none" \/ Less(m, x) THEN x ELSE m

\* How long each input queue lasts, and the room in the queues behind an output
\* port.  The difference is unsigned: a queue over its limit has a large room.
InputTimes(o) ==
  [i \in DOMAIN Inputs[o] |-> Quotient(Count(Inputs[o][i]), profile[Inputs[o][i]])]

RoomTimes(q) ==
  [i \in DOMAIN Subscribers[q] |->
     Quotient(IF Count(Subscribers[q][i]) = MaxQueueSize THEN 0 ELSE 1, profile[q])]

LeastRoom(m, q) == FoldLeft(Least, m, RoomTimes(q))

\* Mutant of InputTime: the first empty queue ends every wait.
ShortestInputTime(o) == FoldLeft(Least, "none", InputTimes(o))

InputTime(o) ==
  IF o \in conjunctive THEN FoldLeft(Least, "none", InputTimes(o))
                       ELSE FoldLeft(Greatest, "none", InputTimes(o))

\* estimateRunningTime
Estimate(o) == FoldLeft(LeastRoom, InputTime(o), Outputs[o])

\* Two estimates of some time may be in either order: all that can be selected.
VisitForThroughput(sels, o) ==
  {s \in sels : ~Less(Estimate(s), Estimate(o))}
    \cup {r \in {o} : \E s \in sels : MaybeLess(Estimate(s), Estimate(o))}

MaxThroughput == UNION {FoldLeft(VisitForThroughput, {Head(v)}, Tail(v)) : v \in Visits}

Found ==
  IF ReadyOperators = {} THEN {NoOperator}
  ELSE CASE policy = "Random" -> ReadyOperators
         [] policy = "LeastRecently" -> LeastRecently
         [] policy = "MinLatency" -> MinLatency
         [] policy = "MaxQueueLength" -> MaxQueueLength
         [] policy = "MaxThroughput" -> MaxThroughput

-----------------------------------------------------------------------------
(***************************************************************************)
(* Worker threads, and the calls of the operators that they execute.       *)
(***************************************************************************)
Asking(t) == working[t] = NoOperator /\ (InSeq(t, waiting) => t \in notified)

PortsOf(o) == InPortsOf(o) \cup OutPortsOf(o)

\* getThreadWork with an operator found, and without one.
Begin(t, o) ==
  /\ Asking(t) /\ o \in Found /\ Assign(t, o)
  /\ ran' = [ran EXCEPT ![o] = 0]
  /\ working' = [working EXCEPT ![t] = o]
  /\ UNCHANGED <<portVars, callVars, policy, clock, counted, endTime, stamps, profile,
                 conjunctive>>

Rest(t) ==
  /\ Asking(t) /\ NoOperator \in Found
  /\ waiting' = IF InSeq(t, waiting) THEN waiting ELSE <<t>> \o waiting
  /\ notified' = notified \ {t}
  /\ UNCHANGED <<portVars, operVars, stopped, timeVars, profileVars, callVars, policy, working>>

\* updateIPortProfile and updateOPortProfile: a quantum of less than a microsecond
\* divides by zero.
ProfilesAfter(o) ==
  LET elapsed == IF ran[o] < Micro THEN "zero" ELSE "some"
      Term(p) == Quotient(IF p \in counted THEN 1 ELSE 0, elapsed)
  IN [p \in DOMAIN profile |-> IF Profiled /\ p \in PortsOf(o)
                              THEN UpdatedProfile(profile[p], Term(p)) ELSE profile[p]]

\* Thread t, with operator o, is back from the coroutine.
End(t, o) ==
  /\ profile' = ProfilesAfter(o)
  /\ endTime' = IF Ended THEN [endTime EXCEPT ![o] = clock] ELSE endTime
  /\ ran' = [ran EXCEPT ![o] = 0]
  /\ working' = [working EXCEPT ![t] = NoOperator]
  /\ counted' = counted \ PortsOf(o)
  /\ UNCHANGED <<portVars, callVars, policy, clock, stamps, conjunctive>>

\* The wait on one port is that of InputPort::waitTuple.
WaitsOf(o) ==
  {w \in [kind : WaitKinds, spec : {[p \in S |-> 1] : S \in (SUBSET InPortsOf(o)) \ {{}}}] :
     Cardinality(DOMAIN w.spec) = 1 => w.kind = "Conjunctive"}

Block(t, o) ==
  \/ \E w \in WaitsOf(o) : MarkOperatorAsReadBlocked(o, w) /\ End(t, o)
  \/ \E p \in DownstreamPorts(o) :
       Full(p) /\ MarkOperatorAsWriteBlocked(o, {p}) /\ End(t, o)

\* checkOperatorForPreemption of all the plugins but RandomScheduling, which
\* never preempts.
Yield(t, o) ==
  /\ policy # "Random" /\ ran[o] >= Epoch
  /\ Preempt(o) /\ End(t, o)

\* A wait on all ports or on any port, as it begins: the one kind or the other
\* may come to prevail.
CountWait(o) ==
  /\ Profiled /\ Len(Inputs[o]) > 1
  /\ conjunctive' \in {conjunctive \cup {o}, conjunctive \ {o}}
  /\ UNCHANGED <<portVars, schedVars, timeVars, counted, profile, callVars, policy, working>>

Counted(port) == counted' = counted \cup (IF Profiled THEN {port} ELSE {})

\* Mutant of Stamp: it is taken in microseconds, rounded up.
StampRounded == IF Stamped THEN ((clock + Micro - 1) \div Micro) * Micro ELSE 0

Stamp == IF Stamped THEN clock ELSE 0

Goto(o, l, ports) ==
  /\ pc' = [pc EXCEPT ![o] = l]
  /\ todo' = [todo EXCEPT ![o] = ports]

\* Mutant of RoomBehind: the first subscriber's queue stands for all.
RoomInFirst(q) == Subscribers[q] # <<>> => ~Full(Subscribers[q][1])

RoomBehind(q) == \A p \in SubscribersOf(q) : ~Full(p)

\* OutputPort::pushTuple goes through the subscribers if all have room, ...
Push(o) ==
  \E q \in OutPortsOf(o) :
    /\ RoomBehind(q)
    /\ Counted(q)
    /\ Goto(o, IF Subscribers[q] = <<>> THEN "code" ELSE "deliver", Subscribers[q])
    /\ UNCHANGED <<portVars, schedVars, timeVars, policy, working, profile, conjunctive>>

\* ... each gets the tuple (which one it is, no policy can tell) ...
Deliver(o) ==
  LET p == Head(todo[o])
  IN /\ pc[o] = "deliver"
     /\ \E x \in Tuples : queue' = [queue EXCEPT ![p] = Append(@, x)]
     /\ stamps' = [stamps EXCEPT ![p] = Append(@, Stamp)]
     /\ Goto(o, "written", todo[o])
     /\ UNCHANGED <<isComplete, shutdown, schedVars, clock, ran, endTime, policy, working,
                    profileVars>>

\* ... and the scheduler hears of it.
AnnounceWritten(o) ==
  /\ pc[o] = "written"
  /\ MarkInputPortAsWritten(Head(todo[o]))
  /\ Goto(o, IF Tail(todo[o]) = <<>> THEN "code" ELSE "deliver", Tail(todo[o]))
  /\ UNCHANGED <<portVars, timeVars, profileVars, policy, working>>

\* InputPort::popTuple, and what the scheduler hears of it.
Pop(o) ==
  \E p \in InPortsOf(o) :
    /\ Count(p) > 0
    /\ Counted(p)
    /\ queue' = [queue EXCEPT ![p] = Tail(@)]
    /\ stamps' = [stamps EXCEPT ![p] = Tail(@)]
    /\ Goto(o, "read", <<p>>)
    /\ UNCHANGED <<isComplete, shutdown, schedVars, clock, ran, endTime, policy, working,
                   profile, conjunctive>>

AnnounceRead(o) ==
  /\ pc[o] = "read"
  /\ MarkInputPortAsRead(Head(todo[o]))
  /\ Goto(o, "code", <<>>)
  /\ UNCHANGED <<portVars, timeVars, profileVars, policy, working>>

Execute(t) ==
  \E o \in Operators :
    /\ working[t] = o
    /\ \/ pc[o] = "code" /\ (Block(t, o) \/ Yield(t, o) \/ CountWait(o) \/ Push(o) \/ Pop(o))
       \/ Deliver(o) \/ AnnounceWritten(o) \/ AnnounceRead(o)

\* An epoch is the most that is measured of a quantum.  Where no end times are
\* kept the clock need not advance, and a quantum lasts an epoch or no time.
Tick ==
  /\ Ended => clock < LastTick
  /\ clock' = IF Ended THEN clock + 1 ELSE clock
  /\ ran' = [o \in Operators |->
               IF opState[o] = "Running" THEN Min({ran[o] + (IF Ended THEN 1 ELSE Epoch), Epoch})
                                         ELSE ran[o]]
  /\ UNCHANGED <<portVars, schedVars, policy, endTime, stamps, working, profileVars, callVars>>

\* The threads are started a microsecond after the operators were initialised.
Init ==
  /\ queue = [p \in InPorts |-> <<>>]
  /\ isComplete = [o \in Operators |-> FALSE]
  /\ shutdown = FALSE
  /\ SchedInit
  /\ policy \in Policies
  /\ clock = Micro
  /\ ran = [o \in Operators |-> 0]
  /\ endTime = [o \in Operators |-> 0]
  /\ stamps = [p \in InPorts |-> <<>>]
  /\ working = [t \in Threads |-> NoOperator]
  /\ counted = {}
  /\ profile = [p \in InPorts \cup OutPorts |-> "zero"]
  /\ conjunctive = {}
  /\ pc = [o \in Operators |-> "code"]
  /\ todo = [o \in Operators |-> <<>>]

Next ==
  \/ \E t \in Threads, o \in Operators : Begin(t, o)
  \/ \E t \in Threads : Rest(t) \/ Execute(t)
  \/ Tick

Spec == Init /\ [][Next]_vars

-----------------------------------------------------------------------------
\* A thread that asks for work goes to sleep beside ready operators under one
\* policy and in one case only: LeastRecently, when each of them stopped running
\* less than a microsecond ago.  SchedulerPlugin.h says that none is found "if
\* there is no operator to execute"; how far LeastRecentlyScheduling departs from
\* it, the truncated comparison decides.
SleepsOnlyBesideRecent ==
  [][\A t \in Threads :
       Asking(t) /\ ~Asking(t)' /\ working'[t] = NoOperator =>
         \A r \in ReadyOperators : policy = "LeastRecently" /\ clock - endTime[r] < Micro]_vars

\* Never are all threads asleep, with no notification on its way, and an operator
\* ready to run: with the policies that start from a ready operator and look for a
\* better one.  LeastRecently starts from none, and in that case leaves a ready
\* operator behind that nobody is notified of.
OthersAttend ==
  policy # "LeastRecently" /\ ReadyOperators # {} =>
    \E t \in Threads : working[t] # NoOperator \/ Asking(t)

\* What a policy is for.  In whatever order the operators are visited, and in
\* spite of the truncated comparisons: no ready operator is passed over that
\* is a microsecond or more behind the one chosen (LeastRecently: in when it
\* last ran; MinLatency: in its oldest tuple, or when it last ran if it is a
\* source); nor is one with a longer queue, or a source (MaxQueueLength); nor is
\* one that has work for one that would block at once, if the profiles of both
\* are positive numbers (MaxThroughput).  The condition is needed: a quantum of
\* less than a microsecond leaves a profile that is infinite or not a number
\* for good, and then the order of the visits decides.
Key(o) ==
  IF policy = "LeastRecently" \/ InPortsOf(o) = {} THEN endTime[o]
  ELSE Min({clock} \cup {stamps[p][1] : p \in {i \in InPortsOf(o) : Count(i) # 0}})

Measured(o) ==
  /\ InPortsOf(o) \cup DownstreamPorts(o) # {}
  /\ \A p \in PortsOf(o) : profile[p] = "some"

HasWork(o) ==
  /\ \A p \in DownstreamPorts(o) : ~Full(p)
  /\ LET nonEmpty == {p \in InPortsOf(o) : Count(p) # 0}
     IN IF o \in conjunctive THEN nonEmpty = InPortsOf(o)
                             ELSE nonEmpty # {} \/ InPortsOf(o) = {}

Fits(o, r) ==
  CASE policy = "Random" -> TRUE
    [] policy = "MaxQueueLength" ->
         InPortsOf(o) = {} \/ (InPortsOf(r) # {} /\ \A q \in InPortsOf(r) :
                                 \E p \in InPortsOf(o) : Count(p) >= Count(q))
    [] policy = "MaxThroughput" ->
         Measured(o) /\ Measured(r) /\ HasWork(r) => HasWork(o)
    [] OTHER -> Key(o) - Key(r) < Micro

ChoosesByPolicy ==
  [][\A t \in Threads, o \in Operators :
       working[t] = NoOperator /\ working'[t] = o =>
         \A r \in ReadyOperators : Fits(o, r)]_vars

-----------------------------------------------------------------------------
\* What the policies rely on: a thread that works has left the list of those that
\* wait, the end times and the time stamps have passed, and the tuples of a port
\* are stamped in their order, so that the first is the oldest.
ThreadsApart ==
  /\ waiting \in Seq(Threads) /\ Once(waiting)
  /\ working \in [Threads -> Operators \cup {NoOperator}]
  /\ \A t \in Threads : working[t] # NoOperator => ~InSeq(t, waiting)

TimesPassed == clock \in Nat /\ endTime \in [Operators -> Nat] /\ \A o \in Operators : endTime[o] <= clock

Latest == IF policy = "MinLatency" THEN clock ELSE 0

Stamps(s, n) ==
  /\ s \in Seq(Nat) /\ Len(s) = n
  /\ \A i \in 1..n : s[i] <= Latest /\ \A j \in 1..i : s[j] <= s[i]

TuplesStamped ==
  /\ queue \in [InPorts -> Seq(Tuples)]
  /\ stamps \in [InPorts -> Seq(Nat)]
  /\ \A p \in InPorts : Stamps(stamps[p], Count(p))

Profiles == {Magnitudes[i] : i \in DOMAIN Magnitudes}

CallsWellFormed ==
  /\ pc \in [Operators -> {"code", "deliver", "written", "read"}]
  /\ todo \in [Operators -> Seq(InPorts)]
  /\ \A o \in Operators :
       /\ pc[o] # "code" => todo[o] # <<>>
       /\ pc[o] \in {"deliver", "written"} =>
            \A i \in DOMAIN todo[o] : todo[o][i] \in DownstreamPorts(o)

PoliciesInv ==
  /\ ThreadsApart
  /\ TimesPassed
  /\ TuplesStamped
  /\ CallsWellFormed
  /\ profile \in [InPorts \cup OutPorts -> Profiles]
  /\ policy \in Policies

\* What MaxThroughput relies on as well, and has in a flow without fan-in: no queue
\* is ever over its limit, because the room that a push has found for a tuple is
\* there until the tuple is delivered.
Reserved(o) ==
  {todo[o][i] : i \in {j \in DOMAIN todo[o] : pc[o] = "deliver" \/ (pc[o] = "written" /\ j # 1)}}

RoomKept ==
  /\ \A o \in Operators : Once(todo[o]) /\ \A p \in Reserved(o) : ~Full(p)
  /\ \A p \in InPorts : Count(p) <= MaxQueueSize
=============================================================================
