---------------------- MODULE PortwiseConditions_proofs ----------------------
(***************************************************************************)
(* Proofs about PortwiseConditions, for every flow graph without fan-in,   *)
(* every queue limit and all the waits that an operator may call.          *)
(***************************************************************************)
EXTENDS PortwiseConditions, SequenceTheorems, TLAPS

\* What the invariant says of one operator.
Sound(o) == Remembers(o) /\ AnswerHolds(o)

\* A step of another operator leaves u where it is, takes nothing out of its
\* queues, opens no port again and puts nothing into a closed one.
Undisturbed(u) ==
  /\ pc'[u] = pc[u] /\ wait'[u] = wait[u] /\ todo'[u] = todo[u] /\ left'[u] = left[u]
  /\ isComplete'[u] => isComplete[u]
  /\ \A p \in InPorts : IsClosed(p) => IsClosed(p)'
  /\ \A p \in InPortsOf(u) : /\ Count(p) <= Len(queue'[p])
                             /\ IsClosed(p) => queue'[p] = queue[p]

-----------------------------------------------------------------------------
(***************************************************************************)
(* Waits.                                                                  *)
(***************************************************************************)

\* A wait is for numbers of tuples, on ports of the operator that calls it.
LEMMA WaitShape ==
  ASSUME NEW o \in Operators, NEW w \in Waits(o) \cup {NoWait}
  PROVE  /\ DOMAIN w.spec \subseteq InPortsOf(o)
         /\ \A p \in DOMAIN w.spec : w.spec[p] \in Nat
         /\ w.via = "port" => w.kind = "Conjunctive" /\ \A p, q \in DOMAIN w.spec : p = q
<1>1. CASE w \in Waits(o)
  <2>1. PICK S \in SUBSET InPortsOf(o) : w.spec = [p \in S |-> 1]
    BY <1>1 DEF Waits
  <2>2. w.via = "port" => w.kind = "Conjunctive" /\ \E q : w.spec = [p \in {q} |-> 1]
    BY <1>1 DEF Waits
  <2> QED BY <2>1, <2>2
<1>2. CASE w = NoWait
  BY <1>2 DEF NoWait
<1> QED BY <1>1, <1>2

\* What a step of another operator does to the answers u is putting together.
LEMMA UndisturbedIsSound ==
  ASSUME CallTypes, CallTypes', NEW u \in Operators, Sound(u), Undisturbed(u)
  PROVE  Sound(u)'
<1>1. Asked(u) \subseteq InPortsOf(u) /\ \A p \in Asked(u) : wait[u].spec[p] \in Nat
  BY WaitShape DEF CallTypes, Asked
<1>2. \A p \in InPortsOf(u) : p \in InPorts /\ Len(queue[p]) \in Nat /\ Len(queue'[p]) \in Nat
  BY DEF CallTypes, InPortsOf
<1>3. \A p \in Asked(u) : Available(u, p) => Available(u, p)'
  BY <1>1, <1>2 DEF Available, Count, Undisturbed
<1>4. \A p \in Asked(u) : Hopeless(u, p) => Hopeless(u, p)'
  BY <1>1, <1>2 DEF Hopeless, Available, Count, Undisturbed
<1>5. Asked(u)' = Asked(u) /\ All(u)' = All(u)
  BY DEF Undisturbed, Asked, All
<1>6. AnswerHolds(u)'
  BY <1>3, <1>4, <1>5 DEF Sound, AnswerHolds, At, Undisturbed
<1>7. At(u, "recountClosed") => IsClosed(Head(todo[u]))'
  <2> SUFFICES ASSUME At(u, "recountClosed") PROVE IsClosed(Head(todo[u]))'
    OBVIOUS
  <2>1. Head(todo[u]) \in left[u] /\ IsClosed(Head(todo[u]))
    BY DEF Sound, Remembers, At, Recounting
  <2>2. Head(todo[u]) \in InPorts
    BY <2>1 DEF CallTypes
  <2> QED BY <2>1, <2>2 DEF Undisturbed
<1>8. Remembers(u)'
  BY <1>3, <1>4, <1>5, <1>7 DEF Sound, Remembers, At, Undisturbed
<1> QED BY <1>6, <1>8 DEF Sound

-----------------------------------------------------------------------------
(***************************************************************************)
(* One step of one operator.                                               *)
(***************************************************************************)

\* The ports that an operator pushes to are input ports.
LEMMA PushedTo ==
  ASSUME FlowGraphAssumption
  PROVE  /\ \A q \in OutPorts : SubscribersOf(q) \subseteq InPorts
         /\ \A u : DownstreamPorts(u) \subseteq InPorts
BY DEF FlowGraphAssumption, SubscribersOf, DownstreamPorts, OutPortsOf

LEMMA LooksElsewhere ==
  ASSUME left \in [Operators -> SUBSET InPorts], NEW o \in Operators,
         left' = left \/ \E S \in SUBSET InPorts : left' = [left EXCEPT ![o] = S]
  PROVE  /\ left' \in [Operators -> SUBSET InPorts]
         /\ \A u \in Operators \ {o} : left'[u] = left[u]
<1>1. CASE left' = left
  BY <1>1
<1>2. CASE \E S \in SUBSET InPorts : left' = [left EXCEPT ![o] = S]
  BY <1>2
<1> QED BY <1>1, <1>2

\* A step changes what only its own operator has, and keeps it well typed.
LEMMA OwnStep ==
  ASSUME FlowGraphAssumption, PortwiseAssumption, CallTypes,
         NEW o \in Operators, Sound(o), OperatorStep(o)
  PROVE  /\ pc' \in [Operators -> Locations]
         /\ wait' = [u \in Operators |-> wait'[u]]
         /\ \A u \in Operators : wait'[u] \in Waits(u) \cup {NoWait}
         /\ todo' \in [Operators -> Seq(InPorts)]
         /\ left' \in [Operators -> SUBSET InPorts]
         /\ \A u \in Operators \ {o} : /\ pc'[u] = pc[u] /\ wait'[u] = wait[u]
                                       /\ todo'[u] = todo[u] /\ left'[u] = left[u]
<1> USE DEF CallTypes, Locations, Sections, Yields, At, Goto, Look
<1>0. \A u \in Operators : \A w \in Waits(u) \cup {NoWait} : DOMAIN w.spec \subseteq InPorts
  BY WaitShape DEF InPortsOf
<1>01. DOMAIN wait[o].spec \in SUBSET InPorts
  BY <1>0
<1>02. ToSet(todo[o]) \in SUBSET InPorts
  BY DEF ToSet
<1>00. pc[o] \in {"written", "writtenCounts"} => Tail(todo[o]) \in Seq(InPorts)
  BY DEF Sound, Remembers, Pushing
<1>1. CASE Resume(o)
  <2>1. pc' \in [Operators -> Locations] /\ \A u \in Operators \ {o} : pc'[u] = pc[u]
    BY <1>1 DEF Resume, Yields, LoopStart, ToSet
  <2>2. /\ left' \in [Operators -> SUBSET InPorts]
        /\ \A u \in Operators \ {o} : left'[u] = left[u]
    <3>1. left' = left \/ \E S \in SUBSET InPorts : left' = [left EXCEPT ![o] = S]
      BY <1>01, <1>02, <1>1 DEF Resume, LoopStart
    <3> QED BY <3>1, LooksElsewhere
  <2>3. /\ wait' = [u \in Operators |-> wait'[u]]
        /\ \A u \in Operators : wait'[u] \in Waits(u) \cup {NoWait}
        /\ \A u \in Operators \ {o} : wait'[u] = wait[u]
    BY <1>1 DEF Resume, Yields, LoopStart, ToSet, PortwiseAssumption
  <2> QED BY <1>1, <2>1, <2>2, <2>3 DEF Resume
<1>2. CASE QueueCheck(o)
  BY <1>0, <1>2 DEF QueueCheck
<1>3. CASE CountPort(o)
  <2>1. pc' \in [Operators -> Locations] /\ \A u \in Operators \ {o} : pc'[u] = pc[u]
    BY <1>3 DEF CountPort
  <2>2. /\ left' \in [Operators -> SUBSET InPorts]
        /\ \A u \in Operators \ {o} : left'[u] = left[u]
    <3>1. left' = left \/ \E S \in SUBSET InPorts : left' = [left EXCEPT ![o] = S]
      BY <1>01, <1>02, <1>3 DEF CountPort
    <3> QED BY <3>1, LooksElsewhere
  <2>3. /\ wait' = [u \in Operators |-> wait'[u]]
        /\ \A u \in Operators : wait'[u] \in Waits(u) \cup {NoWait}
        /\ \A u \in Operators \ {o} : wait'[u] = wait[u]
    BY <1>3 DEF CountPort, PortwiseAssumption
  <2> QED BY <1>3, <2>1, <2>2, <2>3 DEF CountPort
<1>4. CASE AskClosed(o)
  BY <1>0, <1>4 DEF AskClosed
<1>5. CASE Recount(o)
  BY <1>0, <1>5 DEF Recount
<1>6. CASE WaitReturns(o)
  BY <1>0, <1>6 DEF WaitReturns
<1>7. CASE EnterReadBlock(o)
  BY <1>0, <1>7 DEF EnterReadBlock
<1>8. CASE CheckClosure(o)
  <2>1. pc' \in [Operators -> Locations] /\ \A u \in Operators \ {o} : pc'[u] = pc[u]
    BY <1>8 DEF CheckClosure, LoopStart
  <2>2. /\ left' \in [Operators -> SUBSET InPorts]
        /\ \A u \in Operators \ {o} : left'[u] = left[u]
    <3>1. left' = left \/ \E S \in SUBSET InPorts : left' = [left EXCEPT ![o] = S]
      BY <1>01, <1>02, <1>8 DEF CheckClosure, LoopStart, InPortsOf
    <3> QED BY <3>1, LooksElsewhere
  <2>3. /\ wait' = [u \in Operators |-> wait'[u]]
        /\ \A u \in Operators : wait'[u] \in Waits(u) \cup {NoWait}
        /\ \A u \in Operators \ {o} : wait'[u] = wait[u]
    BY <1>8 DEF CheckClosure, LoopStart, PortwiseAssumption
  <2> QED BY <1>8, <2>1, <2>2, <2>3 DEF CheckClosure
<1>9. CASE ReadCount(o)
  BY <1>0, <1>9 DEF ReadCount
<1>10. CASE BlockOnRead(o)
  BY <1>0, <1>10 DEF BlockOnRead, Decides
<1>11. CASE EnterWriteBlock(o)
  BY <1>0, <1>11 DEF EnterWriteBlock, DownstreamPorts, SubscribersOf, OutPortsOf
<1>12. CASE BlockOnWrite(o)
  BY <1>0, <1>12 DEF BlockOnWrite, Decides
<1>13. CASE AnnounceWritten(o)
  <2>1. CASE NextSubscriber(o) /\ UNCHANGED left
    BY <1>00, <1>13, <2>1 DEF AnnounceWritten, NextSubscriber
  <2>2. CASE /\ Goto(o, "writtenCounts") /\ Look(o, InPortsOf(Owner[Head(todo[o])]))
             /\ UNCHANGED todo
    BY <1>13, <2>2 DEF AnnounceWritten, InPortsOf
  <2> QED BY <1>13, <2>1, <2>2 DEF AnnounceWritten
<1>14. CASE WakeReader(o)
  BY <1>0, <1>00, <1>14 DEF WakeReader, Decides, NextSubscriber, InPortsOf
<1>15. CASE AnnounceRead(o)
  <2> DEFINE S == UNION {DownstreamPorts(u) : u \in writeBlocked[Head(todo[o])]}
  <2>1. S \in SUBSET InPorts
    BY PushedTo
  <2>2. CASE Goto(o, "code") /\ todo' = [todo EXCEPT ![o] = <<>>] /\ UNCHANGED left
    BY <1>15, <2>2 DEF AnnounceRead
  <2>3. CASE Goto(o, "poppedCounts") /\ Look(o, S) /\ UNCHANGED todo
    <3> HIDE DEF S
    <3> QED BY <1>15, <2>1, <2>3 DEF AnnounceRead
  <2> QED BY <1>15, <2>2, <2>3 DEF AnnounceRead
<1>16. CASE WakeWriter(o)
  BY <1>0, <1>16 DEF WakeWriter, Decides
<1>17. CASE Offer(o)
  BY <1>0, <1>17 DEF Offer
<1>18. CASE Deliver(o)
  BY <1>0, <1>18 DEF Deliver
<1>19. CASE Complete(o)
  BY <1>0, <1>19 DEF Complete
<1>20. CASE CallReturn(o)
  BY <1>0, <1>20 DEF CallReturn
<1>21. CASE \E w \in Asks[o] : CallWait(o, w)
  <2>1. pc' \in [Operators -> Locations] /\ \A u \in Operators \ {o} : pc'[u] = pc[u]
    BY <1>21 DEF CallWait, LoopStart
  <2>2. /\ left' \in [Operators -> SUBSET InPorts]
        /\ \A u \in Operators \ {o} : left'[u] = left[u]
    BY <1>0, <1>21 DEF CallWait, LoopStart, PortwiseAssumption
  <2>3. /\ wait' = [u \in Operators |-> wait'[u]]
        /\ \A u \in Operators : wait'[u] \in Waits(u) \cup {NoWait}
        /\ \A u \in Operators \ {o} : wait'[u] = wait[u]
    <3>1. \E w \in Waits(o) : wait' = [wait EXCEPT ![o] = w]
      BY <1>21 DEF CallWait, PortwiseAssumption
    <3> QED BY <3>1
  <2> QED BY <1>21, <2>1, <2>2, <2>3 DEF CallWait
<1>22. CASE \E q \in OutPortsOf(o) : CallPush(o, q)
  BY PushedTo, <1>22 DEF CallPush, OutPortsOf, FlowGraphAssumption
<1>23. CASE \E p \in InPortsOf(o) : CallPop(o, p)
  BY <1>0, <1>23 DEF CallPop, InPortsOf
<1> QED BY <1>1, <1>2, <1>3, <1>4, <1>5, <1>6, <1>7, <1>8, <1>9, <1>10, <1>11, <1>12, <1>13, <1>14, <1>15, <1>16, <1>17, <1>18, <1>19, <1>20, <1>21, <1>22, <1>23 DEF OperatorStep

\* Three kinds of steps change a queue or complete an operator.
LEMMA PortSteps ==
  ASSUME NEW o, OperatorStep(o)
  PROVE  \/ UNCHANGED portVars \/ Deliver(o) \/ CallReturn(o)
         \/ \E p \in InPortsOf(o) : CallPop(o, p)
BY DEF OperatorStep, Resume, QueueCheck, CountPort, AskClosed, Recount, WaitReturns,
       EnterReadBlock, CheckClosure, ReadCount, BlockOnRead, EnterWriteBlock, BlockOnWrite,
       AnnounceWritten, WakeReader, AnnounceRead, WakeWriter, Offer, Complete, CallWait,
       CallPush

\* The port that a push is at is not closed: its publisher is still pushing.
LEMMA PushedToOpen ==
  ASSUME FlowGraphAssumption, CallTypes, NEW o \in Operators, Sound(o), At(o, "deliver")
  PROVE  Head(todo[o]) \in InPorts /\ ~IsClosed(Head(todo[o]))
<1>1. ~isComplete[o]
  BY DEF Sound, Remembers, At
<1>2. Head(todo[o]) \in DownstreamPorts(o)
  BY DEF Sound, Remembers, At, Pushing, CallTypes
<1>3. o \in Publishers(Head(todo[o]))
  BY <1>2 DEF Publishers, PublisherPorts, DownstreamPorts, OutPortsOf
<1> QED BY <1>1, <1>2, <1>3, PushedTo DEF IsClosed

LEMMA PublishersAreOperators ==
  ASSUME FlowGraphAssumption, NEW p
  PROVE  Publishers(p) \subseteq Operators
BY DEF FlowGraphAssumption, Publishers, PublisherPorts

LEMMA PortStep ==
  ASSUME FlowGraphAssumption, PortwiseAssumption, CallTypes,
         NEW o \in Operators, Sound(o), OperatorStep(o)
  PROVE  /\ queue' \in [InPorts -> Seq(Tuples)] /\ isComplete' \in [Operators -> BOOLEAN]
         /\ \A p \in InPorts : IsClosed(p) => IsClosed(p)'
         /\ \A u \in Operators \ {o} :
              /\ isComplete'[u] = isComplete[u]
              /\ \A p \in InPortsOf(u) : /\ Count(p) <= Len(queue'[p])
                                         /\ IsClosed(p) => queue'[p] = queue[p]
<1> \A p \in InPorts : Len(queue[p]) \in Nat
  BY DEF CallTypes
<1>1. CASE UNCHANGED portVars
  BY <1>1 DEF portVars, CallTypes, IsClosed, Count, InPortsOf
<1>2. CASE Deliver(o)
  <2> DEFINE h == Head(todo[o])
  <2>1. h \in InPorts /\ ~IsClosed(h)
    BY <1>2, PushedToOpen DEF Deliver
  <2>2. PICK x \in Tuples : queue' = [queue EXCEPT ![h] = Append(@, x)]
    BY <1>2 DEF Deliver
  <2>3. isComplete' = isComplete
    BY <1>2 DEF Deliver
  <2> HIDE DEF h
  <2>4. queue' \in [InPorts -> Seq(Tuples)] /\ Len(queue'[h]) = Len(queue[h]) + 1
    BY <2>1, <2>2 DEF CallTypes
  <2>5. \A p \in InPorts : p # h => queue'[p] = queue[p]
    BY <2>2 DEF CallTypes
  <2> QED BY <2>1, <2>3, <2>4, <2>5 DEF CallTypes, Count, IsClosed, InPortsOf
<1>3. CASE CallReturn(o)
  <2>1. isComplete' = [isComplete EXCEPT ![o] = TRUE] /\ queue' = queue
    BY <1>3 DEF CallReturn
  <2>2. \A p \in InPorts : IsClosed(p) => IsClosed(p)'
    BY <2>1, PublishersAreOperators DEF IsClosed, CallTypes
  <2> QED BY <2>1, <2>2 DEF CallTypes, Count, InPortsOf
<1>4. CASE \E p \in InPortsOf(o) : CallPop(o, p)
  <2>1. PICK h \in InPortsOf(o) : CallPop(o, h)
    BY <1>4
  <2>2. queue' = [queue EXCEPT ![h] = Tail(@)] /\ queue[h] # <<>> /\ isComplete' = isComplete
    BY <2>1 DEF CallPop
  <2>3. queue' \in [InPorts -> Seq(Tuples)]
    BY <2>2 DEF CallTypes, InPortsOf
  <2>4. \A u \in Operators \ {o} : \A p \in InPortsOf(u) : queue'[p] = queue[p]
    BY <2>2 DEF CallTypes, InPortsOf
  <2> QED BY <2>2, <2>3, <2>4 DEF CallTypes, Count, IsClosed, InPortsOf
<1> QED BY <1>1, <1>2, <1>3, <1>4, PortSteps

\* Together: what a step does to the operators that do not take it.
LEMMA OthersUndisturbed ==
  ASSUME FlowGraphAssumption, PortwiseAssumption, CallTypes,
         NEW o \in Operators, Sound(o), OperatorStep(o)
  PROVE  CallTypes' /\ \A u \in Operators \ {o} : Undisturbed(u)
<1>1. CallTypes'
  BY OwnStep, PortStep DEF CallTypes
<1>2. \A u \in Operators \ {o} : Undisturbed(u)
  <2> TAKE u \in Operators \ {o}
  <2>1. isComplete'[u] => isComplete[u]
    BY PortStep
  <2>2. /\ \A p \in InPorts : IsClosed(p) => IsClosed(p)'
        /\ \A p \in InPortsOf(u) : /\ Count(p) <= Len(queue'[p])
                                   /\ IsClosed(p) => queue'[p] = queue[p]
    BY PortStep
  <2>3. pc'[u] = pc[u] /\ wait'[u] = wait[u] /\ todo'[u] = todo[u] /\ left'[u] = left[u]
    BY OwnStep
  <2> QED BY <2>1, <2>2, <2>3 DEF Undisturbed
<1> QED BY <1>1, <1>2

-----------------------------------------------------------------------------
(***************************************************************************)
(* What a step does to the operator that takes it, by where it leads.      *)
(***************************************************************************)

\* To a place that nothing is said of.
LEMMA PlainIsSound ==
  ASSUME NEW o \in Operators,
         \/ pc'[o] \in {"complete", "done"}
         \/ /\ ~isComplete'[o]
            /\ pc'[o] \in {"start", "code", "readBlock", "closures", "readCounts",
                           "readYield", "popped", "poppedCounts"}
  PROVE  Sound(o)'
BY DEF Sound, Remembers, AnswerHolds, At, Pushing, Closing, Recounting

\* Into, or through, a push.
LEMMA PushIsSound ==
  ASSUME NEW o \in Operators, ~isComplete'[o], pc'[o] \in Pushing, todo'[o] # <<>>,
         \A i \in DOMAIN todo'[o] : todo'[o][i] \in DownstreamPorts(o)
  PROVE  Sound(o)'
BY DEF Sound, Remembers, AnswerHolds, At, Pushing, Closing, Recounting

\* To the start of the loop of a wait.
LEMMA LoopStartIsSound ==
  ASSUME CallTypes, NEW o \in Operators, LoopStart(o, wait'[o]), ~isComplete'[o]
  PROVE  Sound(o)'
<1>1. /\ pc'[o] = IF wait'[o].via = "port" THEN "queueCheck" ELSE "counting"
      /\ left'[o] = Asked(o)'
  BY DEF LoopStart, Goto, Look, CallTypes, Asked
<1> QED BY <1>1 DEF Sound, Remembers, AnswerHolds, At, Pushing, Closing, Recounting

\* On through the first loop: an available port is added to those looked at, or
\* the loop ends.
LEMMA CountPortIsSound ==
  ASSUME CallTypes, NEW o \in Operators, Sound(o), CountPort(o)
  PROVE  Sound(o)'
<1> DEFINE looked == Asked(o) \ left[o]
<1>1. PICK p \in left[o] :
        \/ /\ Available(o, p) # All(o) \/ left[o] = {p}
           /\ Goto(o, IF Available(o, p) THEN "granted" ELSE "closing")
           /\ Look(o, DOMAIN wait[o].spec)
        \/ /\ Available(o, p) = All(o) /\ left[o] # {p}
           /\ Look(o, left[o] \ {p}) /\ UNCHANGED pc
  BY DEF CountPort
<1>2. At(o, "counting") /\ UNCHANGED <<queue, isComplete, wait, todo>>
  BY DEF CountPort, portVars
<1>3. /\ left[o] \subseteq Asked(o) /\ ~isComplete[o]
      /\ All(o) => \A r \in looked : Available(o, r)
  BY <1>2 DEF Sound, Remembers, At
<1>4. /\ Asked(o)' = Asked(o) /\ All(o)' = All(o)
      /\ \A r : Available(o, r)' = Available(o, r) /\ Hopeless(o, r)' = Hopeless(o, r)
  BY <1>2 DEF Asked, All, Available, Count, Hopeless, IsClosed
<1>5. CASE /\ Available(o, p) # All(o) \/ left[o] = {p}
           /\ Goto(o, IF Available(o, p) THEN "granted" ELSE "closing")
           /\ Look(o, DOMAIN wait[o].spec)
  <2>1. CASE Available(o, p)
    <3>1. pc'[o] = "granted"
      BY <1>5, <2>1 DEF Goto, CallTypes
    <3>2. IF All(o) THEN \A r \in Asked(o) : Available(o, r)
                    ELSE \E r \in Asked(o) : Available(o, r)
      BY <1>3, <1>5, <2>1 DEF All
    <3> QED BY <1>2, <1>3, <1>4, <3>1, <3>2
         DEF Sound, Remembers, AnswerHolds, At, Pushing, Closing, Recounting
  <2>2. CASE ~Available(o, p)
    <3>1. pc'[o] = "closing" /\ left'[o] = Asked(o)
      BY <1>5, <2>2 DEF Goto, Look, CallTypes, Asked
    <3> QED BY <1>2, <1>3, <1>4, <3>1
         DEF Sound, Remembers, AnswerHolds, At, Pushing, Closing, Recounting
  <2> QED BY <2>1, <2>2
<1>6. CASE /\ Available(o, p) = All(o) /\ left[o] # {p}
           /\ Look(o, left[o] \ {p}) /\ UNCHANGED pc
  <2>1. left'[o] = left[o] \ {p} /\ pc'[o] = "counting"
    BY <1>2, <1>6 DEF Look, CallTypes, At
  <2>2. All(o) => Available(o, p)
    BY <1>6
  <2> QED BY <1>2, <1>3, <1>4, <2>1, <2>2
       DEF Sound, Remembers, AnswerHolds, At, Pushing, Closing, Recounting
<1> QED BY <1>1, <1>5, <1>6

\* One port of the second loop: whether it is closed is on record ...
LEMMA AskClosedIsSound ==
  ASSUME CallTypes, NEW o \in Operators, Sound(o), AskClosed(o)
  PROVE  Sound(o)'
<1>1. At(o, "closing") /\ UNCHANGED <<queue, isComplete, wait, left>>
  BY DEF AskClosed, portVars
<1>2. PICK p \in left[o] : /\ todo' = [todo EXCEPT ![o] = <<p>>]
                           /\ Goto(o, IF IsClosed(p) THEN "recountClosed" ELSE "recountOpen")
  BY DEF AskClosed
<1>3. /\ todo'[o] # <<>> /\ Head(todo'[o]) = p
      /\ pc'[o] = IF IsClosed(p) THEN "recountClosed" ELSE "recountOpen"
  BY <1>2 DEF CallTypes, Goto
<1>4. IsClosed(Head(todo[o]))' <=> IsClosed(p)
  BY <1>1, <1>3 DEF IsClosed
<1>5. /\ Asked(o)' = Asked(o) /\ All(o)' = All(o)
      /\ \A r : Hopeless(o, r)' = Hopeless(o, r)
  BY <1>1 DEF Asked, All, Available, Count, Hopeless, IsClosed
<1>6. ~isComplete[o] /\ left[o] \subseteq Asked(o)
      /\ (~All(o) => \A r \in Asked(o) \ left[o] : Hopeless(o, r))
  BY <1>1 DEF Sound, Remembers, At, Closing
<1> QED BY <1>1, <1>3, <1>4, <1>5, <1>6
     DEF Sound, Remembers, AnswerHolds, At, Pushing, Closing, Recounting

\* ... and its tuples are counted again: closed and short, it is lost; open and
\* short, it is worth waiting for.
LEMMA RecountIsSound ==
  ASSUME CallTypes, NEW o \in Operators, Sound(o), Recount(o)
  PROVE  Sound(o)'
<1> DEFINE p == Head(todo[o])
           over == At(o, "recountClosed") /\ ~Available(o, p)
           last == left[o] = {p}
           next == CASE over /\ (All(o) \/ last) -> "refused"
                     [] ~over /\ ~All(o) /\ Available(o, p) -> "granted"
                     [] ~over /\ (last \/ ~All(o)) /\ (All(o) \/ ~Available(o, p)) -> "readBlock"
                     [] OTHER -> "closing"
<1>1. pc[o] \in Recounting /\ UNCHANGED <<queue, isComplete, wait>>
  BY DEF Recount, portVars, Recounting
<1>2. pc'[o] = next /\ left'[o] = left[o] \ {p}
  BY DEF Recount, Goto, Look, CallTypes
<1>3. /\ Asked(o)' = Asked(o) /\ All(o)' = All(o)
      /\ \A r : Available(o, r)' = Available(o, r) /\ Hopeless(o, r)' = Hopeless(o, r)
  BY <1>1 DEF Asked, All, Available, Count, Hopeless, IsClosed
<1>4. /\ ~isComplete[o] /\ p \in left[o] /\ left[o] \subseteq Asked(o)
      /\ ~All(o) => \A r \in Asked(o) \ left[o] : Hopeless(o, r)
      /\ over => Hopeless(o, p)
  BY <1>1 DEF Sound, Remembers, At, Closing, Recounting, Hopeless
<1> HIDE DEF p, over, last
<1>5. CASE next = "refused"
  <2>1. over /\ (All(o) \/ last)
    BY <1>5
  <2>2. IF All(o) THEN \E r \in Asked(o) : Hopeless(o, r)
                  ELSE \A r \in Asked(o) : Hopeless(o, r)
    BY <1>4, <2>1 DEF last
  <2> HIDE DEF next
  <2> QED BY <1>1, <1>2, <1>3, <1>4, <1>5, <2>2
       DEF Sound, Remembers, AnswerHolds, At, Pushing, Closing, Recounting
<1>6. CASE next = "granted"
  <2>1. ~All(o) /\ Available(o, p)
    BY <1>6
  <2> HIDE DEF next
  <2> QED BY <1>1, <1>2, <1>3, <1>4, <1>6, <2>1
       DEF Sound, Remembers, AnswerHolds, At, Pushing, Closing, Recounting
<1>7. CASE next = "readBlock"
  BY <1>1, <1>2, <1>4, <1>7, PlainIsSound
<1>8. CASE next = "closing"
  <2>1. ~All(o) => over
    BY <1>8
  <2> HIDE DEF next
  <2>2. ~All(o) => \A r \in Asked(o) \ left'[o] : Hopeless(o, r)
    BY <1>2, <1>4, <2>1
  <2> QED BY <1>1, <1>2, <1>3, <1>4, <1>8, <2>2
       DEF Sound, Remembers, AnswerHolds, At, Pushing, Closing, Recounting
<1> QED BY <1>5, <1>6, <1>7, <1>8

\* waitTuple looks at one port, once.
LEMMA QueueCheckIsSound ==
  ASSUME CallTypes, NEW o \in Operators, Sound(o), QueueCheck(o)
  PROVE  Sound(o)'
<1>1. At(o, "queueCheck") /\ UNCHANGED <<queue, isComplete, wait>>
  BY DEF QueueCheck, portVars
<1>2. All(o) /\ \A p, q \in Asked(o) : p = q
  BY <1>1, WaitShape DEF CallTypes, Sound, Remembers, All, Asked
<1>3. PICK p \in Asked(o) : Goto(o, CASE Available(o, p) -> "granted"
                                      [] ~Available(o, p) /\ IsClosed(p) -> "refused"
                                      [] OTHER -> "readBlock")
  BY DEF QueueCheck, Asked
<1>4. /\ Asked(o)' = Asked(o) /\ All(o)' = All(o)
      /\ \A r : Available(o, r)' = Available(o, r) /\ Hopeless(o, r)' = Hopeless(o, r)
  BY <1>1 DEF Asked, All, Available, Count, Hopeless, IsClosed
<1>5. ~isComplete'[o]
  BY <1>1 DEF Sound, Remembers, At
<1>6. CASE Available(o, p)
  <2>1. pc'[o] = "granted"
    BY <1>3, <1>6 DEF Goto, CallTypes
  <2>2. \A r \in Asked(o) : Available(o, r)
    BY <1>2, <1>6
  <2> QED BY <1>2, <1>4, <1>5, <2>1, <2>2
       DEF Sound, Remembers, AnswerHolds, At, Pushing, Closing, Recounting
<1>7. CASE Hopeless(o, p)
  <2>1. pc'[o] = "refused"
    BY <1>3, <1>7 DEF Goto, CallTypes, Hopeless
  <2> QED BY <1>2, <1>4, <1>5, <1>7, <2>1
       DEF Sound, Remembers, AnswerHolds, At, Pushing, Closing, Recounting
<1>8. CASE ~Available(o, p) /\ ~IsClosed(p)
  <2>1. pc'[o] = "readBlock"
    BY <1>3, <1>8 DEF Goto, CallTypes
  <2> QED BY <1>5, <2>1, PlainIsSound
<1> QED BY <1>6, <1>7, <1>8 DEF Hopeless

\* The way back from a blocked state: to the loop of the wait or to the push.
LEMMA ResumeIsSound ==
  ASSUME CallTypes, NEW o \in Operators, Sound(o), Resume(o)
  PROVE  Sound(o)'
<1>1. pc[o] \in Yields /\ UNCHANGED <<isComplete, wait, todo>>
  BY DEF Resume, portVars
<1>2. ~isComplete'[o]
  BY <1>1 DEF Sound, Remembers, Yields
<1>3. CASE At(o, "start")
  BY <1>2, <1>3, PlainIsSound DEF Resume, Goto, CallTypes, At
<1>4. CASE At(o, "readYield")
  BY <1>1, <1>2, <1>4, LoopStartIsSound DEF Resume, At
<1>5. CASE At(o, "writeYield")
  <2>1. pc'[o] = "offer"
    BY <1>5 DEF Resume, Goto, CallTypes, At
  <2>2. todo[o] # <<>> /\ \A i \in DOMAIN todo[o] : todo[o][i] \in DownstreamPorts(o)
    BY <1>5 DEF Sound, Remembers, At, Pushing
  <2> QED BY <1>1, <1>2, <2>1, <2>2, PushIsSound DEF Pushing
<1> QED BY <1>1, <1>3, <1>4, <1>5 DEF Yields, At

LEMMA CheckClosureIsSound ==
  ASSUME CallTypes, NEW o \in Operators, Sound(o), CheckClosure(o)
  PROVE  Sound(o)'
<1>1. At(o, "closures") /\ UNCHANGED <<isComplete, wait>>
  BY DEF CheckClosure, portVars
<1>2. ~isComplete'[o]
  BY <1>1 DEF Sound, Remembers, At
<1>3. LoopStart(o, wait[o]) \/ Goto(o, "readCounts") \/ UNCHANGED pc
  BY DEF CheckClosure
<1>4. CASE LoopStart(o, wait[o])
  BY <1>1, <1>2, <1>4, LoopStartIsSound
<1>5. CASE Goto(o, "readCounts")
  BY <1>2, <1>5, PlainIsSound DEF Goto, CallTypes
<1>6. CASE UNCHANGED pc
  BY <1>1, <1>2, <1>6, PlainIsSound DEF At
<1> QED BY <1>3, <1>4, <1>5, <1>6

\* What remains of a sequence of several has only what was in it.
LEMMA TailKeeps ==
  ASSUME NEW S, NEW T, NEW s \in Seq(S), s # <<>>, Len(s) # 1,
         \A i \in DOMAIN s : s[i] \in T
  PROVE  Tail(s) # <<>> /\ \A i \in DOMAIN Tail(s) : Tail(s)[i] \in T
<1>1. Len(s) \in Nat /\ Len(s) > 1
  <2>1. Len(s) \in Nat \ {0}
    BY EmptySeq, Zenon
  <2>2. \A n \in Nat \ {0} : n # 1 => n \in Nat /\ n > 1
    OBVIOUS
  <2> QED BY <2>1, <2>2, Zenon
<1>2. Tail(s) \in Seq(S) /\ Len(Tail(s)) = Len(s) - 1
  BY <1>1
<1>3. \A i \in 1..(Len(s) - 1) : Tail(s)[i] = s[i + 1]
  BY <1>1
<1>4. DOMAIN Tail(s) = 1..(Len(s) - 1) /\ DOMAIN s = 1..Len(s)
  BY <1>1, <1>2
<1> QED BY <1>1, <1>2, <1>3, <1>4

\* A push on its way, from where it is called to where it returns.
LEMMA PushStepIsSound ==
  ASSUME FlowGraphAssumption, CallTypes, NEW o \in Operators, Sound(o),
         \/ Offer(o) \/ EnterWriteBlock(o) \/ BlockOnWrite(o) \/ Deliver(o)
         \/ AnnounceWritten(o) \/ WakeReader(o)
  PROVE  Sound(o)'
<1>1. pc[o] \in Pushing /\ isComplete' = isComplete
  BY DEF Offer, EnterWriteBlock, BlockOnWrite, Deliver, AnnounceWritten, WakeReader,
         Decides, At, Pushing, portVars
<1>2. /\ ~isComplete'[o]
      /\ todo[o] # <<>> /\ \A i \in DOMAIN todo[o] : todo[o][i] \in DownstreamPorts(o)
  BY <1>1 DEF Sound, Remembers, Pushing
<1>3. NextSubscriber(o) \/ (UNCHANGED todo /\ pc'[o] \in Pushing)
  BY DEF Offer, EnterWriteBlock, BlockOnWrite, Deliver, AnnounceWritten, WakeReader,
         Pushing, Goto, CallTypes
<1>4. CASE UNCHANGED todo /\ pc'[o] \in Pushing
  BY <1>2, <1>4, PushIsSound
<1>5. CASE NextSubscriber(o)
  <2>1. todo'[o] = Tail(todo[o]) /\ pc'[o] = IF Len(todo[o]) = 1 THEN "code" ELSE "deliver"
    BY <1>5 DEF NextSubscriber, Goto, CallTypes
  <2>2. CASE Len(todo[o]) = 1
    BY <1>2, <2>1, <2>2, PlainIsSound
  <2>3. CASE Len(todo[o]) # 1
    <3>1. todo[o] \in Seq(InPorts)
      BY DEF CallTypes
    <3>2. /\ Tail(todo[o]) # <<>>
          /\ \A i \in DOMAIN Tail(todo[o]) : Tail(todo[o])[i] \in DownstreamPorts(o)
      BY <1>2, <2>3, <3>1, TailKeeps
    <3> QED BY <1>2, <2>1, <2>3, <3>2, PushIsSound DEF Pushing
  <2> QED BY <2>2, <2>3
<1> QED BY <1>3, <1>4, <1>5

-----------------------------------------------------------------------------
(***************************************************************************)
(* The invariant.                                                          *)
(***************************************************************************)
LEMMA OwnStepIsSound ==
  ASSUME FlowGraphAssumption, PortwiseAssumption, CallTypes,
         NEW o \in Operators, Sound(o), OperatorStep(o)
  PROVE  Sound(o)'
<1> USE DEF At, Goto, CallTypes, portVars
<1>1. CASE Resume(o)
  BY <1>1, ResumeIsSound
<1>2. CASE QueueCheck(o)
  BY <1>2, QueueCheckIsSound
<1>3. CASE CountPort(o)
  BY <1>3, CountPortIsSound
<1>4. CASE AskClosed(o)
  BY <1>4, AskClosedIsSound
<1>5. CASE Recount(o)
  BY <1>5, RecountIsSound
<1>6. CASE CheckClosure(o)
  BY <1>6, CheckClosureIsSound
<1>7. CASE Offer(o) \/ EnterWriteBlock(o) \/ BlockOnWrite(o) \/ Deliver(o)
           \/ AnnounceWritten(o) \/ WakeReader(o)
  BY <1>7, PushStepIsSound
<1>8. CASE WaitReturns(o) \/ EnterReadBlock(o) \/ BlockOnRead(o) \/ AnnounceRead(o)
           \/ WakeWriter(o) \/ Complete(o) \/ CallReturn(o)
  <2>1. CASE WaitReturns(o)
    BY <2>1, PlainIsSound DEF WaitReturns, Sound, Remembers
  <2>2. CASE EnterReadBlock(o)
    BY <2>2, PlainIsSound DEF EnterReadBlock, Sound, Remembers
  <2>3. CASE BlockOnRead(o)
    BY <2>3, PlainIsSound DEF BlockOnRead, Decides, Sound, Remembers
  <2>4. CASE AnnounceRead(o)
    BY <2>4, PlainIsSound DEF AnnounceRead, Sound, Remembers
  <2>5. CASE WakeWriter(o)
    BY <2>5, PlainIsSound DEF WakeWriter, Decides, Sound, Remembers
  <2>6. CASE Complete(o)
    BY <2>6, PlainIsSound DEF Complete
  <2>7. CASE CallReturn(o)
    BY <2>7, PlainIsSound DEF CallReturn
  <2> QED BY <1>8, <2>1, <2>2, <2>3, <2>4, <2>5, <2>6, <2>7
<1>9. CASE ReadCount(o)
  <2>1. pc' = pc /\ todo' = todo /\ isComplete' = isComplete /\ pc[o] \in Sections \ {"closures"}
    BY <1>9 DEF ReadCount
  <2>2. CASE pc[o] \in Pushing
    BY <2>1, <2>2, PushIsSound DEF Sound, Remembers, Pushing
  <2>3. CASE pc[o] \in {"readCounts", "poppedCounts"}
    BY <2>1, <2>3, PlainIsSound DEF Sound, Remembers
  <2> QED BY <2>1, <2>2, <2>3 DEF Sections, Pushing
<1>10. CASE \E w \in Asks[o] : CallWait(o, w)
  <2>1. PICK w \in Asks[o] : CallWait(o, w)
    BY <1>10
  <2>2. wait'[o] = w /\ LoopStart(o, w) /\ ~isComplete'[o]
    BY <2>1 DEF CallWait, Sound, Remembers
  <2> QED BY <2>2, LoopStartIsSound
<1>11. CASE \E q \in OutPortsOf(o) : CallPush(o, q)
  <2>1. PICK q \in OutPortsOf(o) : CallPush(o, q)
    BY <1>11
  <2>2. /\ ~isComplete'[o] /\ todo'[o] = Subscribers[q]
        /\ pc'[o] = IF Subscribers[q] = <<>> THEN "code" ELSE "offer"
    BY <2>1 DEF CallPush, Sound, Remembers
  <2>3. \A i \in DOMAIN Subscribers[q] : Subscribers[q][i] \in DownstreamPorts(o)
    BY DEF DownstreamPorts, SubscribersOf
  <2> QED BY <2>2, <2>3, PlainIsSound, PushIsSound DEF Pushing
<1>12. CASE \E p \in InPortsOf(o) : CallPop(o, p)
  BY <1>12, PlainIsSound DEF CallPop, Sound, Remembers
<1> QED BY <1>1, <1>2, <1>3, <1>4, <1>5, <1>6, <1>7, <1>8, <1>9, <1>10, <1>11, <1>12
         DEF OperatorStep

LEMMA InvIsSoundness == Inv <=> CallTypes /\ \A o \in Operators : Sound(o)
BY DEF Inv, AnswersHold, Sound

LEMMA Initially ==
  ASSUME FlowGraphAssumption, Init
  PROVE  Inv
<1>1. CallTypes
  BY DEF Init, CallTypes, Locations, Yields, NothingSeen
<1>2. \A o \in Operators : Sound(o)
  BY DEF Init, Sound, Remembers, AnswerHolds, At, Pushing, Closing, Recounting
<1> QED BY <1>1, <1>2, InvIsSoundness

LEMMA Inductive ==
  ASSUME FlowGraphAssumption, PortwiseAssumption, Inv, [Next]_vars
  PROVE  Inv'
<1>1. CASE Next
  <2>1. PICK o \in Operators : OperatorStep(o)
    BY <1>1 DEF Next
  <2>2. CallTypes /\ \A u \in Operators : Sound(u)
    BY InvIsSoundness
  <2>3. CallTypes' /\ \A u \in Operators \ {o} : Undisturbed(u)
    BY <2>1, <2>2, OthersUndisturbed
  <2>4. Sound(o)'
    BY <2>1, <2>2, OwnStepIsSound
  <2>5. \A u \in Operators \ {o} : Sound(u)'
    BY <2>2, <2>3, UndisturbedIsSound
  <2>6. \A u \in Operators : Sound(u)'
    BY <2>4, <2>5
  <2> QED BY <2>3, <2>6 DEF Inv, AnswersHold, Sound
<1>2. CASE UNCHANGED vars
  BY <1>2 DEF Inv, CallTypes, Remembers, AnswersHold, AnswerHolds, Asked, Hopeless, At,
     All, Available, Count, IsClosed, vars, callVars, portVars
<1> QED BY <1>1, <1>2

\* Whatever an operator has been told, of the tuples it waits for, is so.
THEOREM Invariance == Spec => []Inv
<1>1. Init => Inv
  BY Initially, FlowGraphAssumption
<1>2. Inv /\ [Next]_vars => Inv'
  BY Inductive, FlowGraphAssumption, PortwiseAssumption
<1> QED BY <1>1, <1>2, PTL DEF Spec

\* No wait is answered wrongly, although the ports it is about are looked at one
\* by one (InputPortImpl::waitTuple, OperatorContextImpl::waitOnAllPorts and
\* waitOnAnyPort): above all, no reader is told that nothing more will come while
\* tuples that it asked for are in its queues or still on their way.
THEOREM AnswersAreRight == Spec => []AnswersHold
<1>1. Inv => AnswersHold
  BY DEF Inv
<1> QED BY <1>1, Invariance, PTL
=============================================================================
