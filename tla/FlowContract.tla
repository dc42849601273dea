---------------------------- MODULE FlowContract ----------------------------
(***************************************************************************)
(* What a flow promises its user, with no operators, queues or threads in  *)
(* sight: every sink writes the tuples of the sources that are to reach    *)
(* it, each source's in the order it produced them, none twice and none    *)
(* left out; and the flow ends, with everything written.  Only a requested *)
(* shutdown may leave tuples out.                                          *)
(***************************************************************************)
EXTENDS Naturals, Sequences

VARIABLES
  lines,      \* lines[k][s]: the numbers of the tuples of source s that are to
              \* reach sink k, given once and for all
  written,    \* written[k]: what sink k has written, each entry a set of
              \* <<source, number>> pairs (a barrier joins several)
  stopping,   \* shutdown has been requested
  over        \* the flow's client has been told that it has ended

Sinks == DOMAIN lines

vars == <<lines, written, stopping, over>>

Feeds(k) == DOMAIN lines[k]

Numbers(k, s) ==
  {n \in lines[k][s] : \E i \in DOMAIN written[k] : <<s, n>> \in written[k][i]}

MayFollow(k, s, n) ==
  /\ \A m \in Numbers(k, s) : m < n
  /\ stopping \/ {m \in lines[k][s] : m < n} \subseteq Numbers(k, s)

\* One tuple, or one of each of several sources that a barrier has joined.
Entries(k) ==
  {x \in (SUBSET UNION {{s} \X lines[k][s] : s \in Feeds(k)}) \ {{}} :
     \A d, e \in x : d[1] = e[1] => d = e}

Write(k) ==
  /\ ~over
  /\ \E x \in Entries(k) :
       /\ \A e \in x : MayFollow(k, e[1], e[2])
       /\ written' = [written EXCEPT ![k] = Append(@, x)]
  /\ UNCHANGED <<lines, stopping, over>>

RequestStop == ~stopping /\ stopping' = TRUE /\ UNCHANGED <<lines, written, over>>

AllWritten(k) == \A s \in Feeds(k) : Numbers(k, s) = lines[k][s]

Finish ==
  /\ ~over
  /\ stopping \/ \A k \in Sinks : AllWritten(k)
  /\ over' = TRUE
  /\ UNCHANGED <<lines, written, stopping>>

Init ==
  /\ written = [k \in Sinks |-> <<>>]
  /\ stopping = FALSE
  /\ over = FALSE

Next == RequestStop \/ Finish \/ \E k \in Sinks : Write(k)

Behaviour == Init /\ [][Next]_vars
Ends == <>over

Spec == Behaviour /\ Ends
=============================================================================
