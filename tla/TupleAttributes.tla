-------------------------- MODULE TupleAttributes --------------------------
(***************************************************************************)
(* Tuples as the operators see them: a map from attribute names to values, *)
(* of which only the type matters here.  The member of the union that a    *)
(* Value reads has to be the one that was last set: nothing is checked.    *)
(***************************************************************************)
EXTENDS Functions, SequencesExt

EmptyTuple == <<>>

\* A new attribute is added; one that is there takes the value, and its type
\* if that is another one.
SetAttribute(tuple, name, type) ==
  [a \in DOMAIN tuple \cup {name} |-> IF a = name THEN type ELSE tuple[a]]

RemoveAttribute(tuple, name) == Restrict(tuple, DOMAIN tuple \ {name})

\* The attributes of the other tuple overwrite those that are there.
AppendTuple(tuple, other) ==
  FoldSet(LAMBDA name, t : SetAttribute(t, name, other[name]), tuple, DOMAIN other)

\* get<type>(name) finds a value, and one of that type: a name that is not there
\* is inserted with a null pointer, which is then dereferenced.
Gets(tuple, name, type) == name \in DOMAIN tuple /\ tuple[name] = type

-----------------------------------------------------------------------------
(***************************************************************************)
(* What one turn of process() does to the attributes, for an operator of   *)
(* the given class.  A format is what a file source sets, what a file sink *)
(* writes, or what the function of Filter or Split reads: pairs <<name,    *)
(* type>> in order.                                                        *)
(***************************************************************************)
SetAll(tuple, format) ==
  FoldLeft(LAMBDA t, column : SetAttribute(t, column[1], column[2]), tuple, format)

\* A source's tuple.
Produced(role, format) ==
  CASE role = "FileSource" -> SetAll(EmptyTuple, format)
    [] role = "TupleGenerator" ->
         SetAll(EmptyTuple, << <<"name", "String">>, <<"grade", "String">>,
                               <<"lineNo", "Integer">> >>)

\* Mutant of Passed: a split that does not number its tuples.
PassedUnnumbered(role, tuple) ==
  CASE role = "Timestamper" -> SetAttribute(tuple, "Timestamp", "Timestamp")
    [] role = "Merge" -> RemoveAttribute(tuple, "seqNo")
    [] OTHER -> tuple

\* What an operator makes of a tuple of one of its ports.
Passed(role, tuple) ==
  CASE role = "Timestamper" -> SetAttribute(tuple, "Timestamp", "Timestamp")
    [] role = "Split" -> SetAttribute(tuple, "seqNo", "Integer")
    [] role = "Merge" -> RemoveAttribute(tuple, "seqNo")
    [] OTHER -> tuple

\* A barrier appends the tuples of its ports in order.
Joined(tuples) == FoldLeft(AppendTuple, EmptyTuple, tuples)

\* process() gets through its turn: what it reads is there.  A file sink looks up
\* its columns with at(), whose exception nobody catches, after it dereferences
\* the first element of its format.
Digests(role, format, tuple) ==
  CASE role = "Merge" -> Gets(tuple, "seqNo", "Integer")
    [] role = "ResultCollector" -> Gets(tuple, "Timestamp", "Timestamp")
    [] role \in {"Filter", "Split"} ->
         \A i \in DOMAIN format : Gets(tuple, format[i][1], format[i][2])
    [] role = "FileSink" ->
         tuple = EmptyTuple \/ (format # <<>> /\ \A i \in DOMAIN format :
                                                   format[i][1] \in DOMAIN tuple)
    [] OTHER -> TRUE
=============================================================================
