----------------------------- MODULE Topologies -----------------------------
(***************************************************************************)
(* The flows of topology/*.cpp and of the operator tests, as the operators   *)
(* and the connections that their constructors add, in that order; and the *)
(* connector expressions of FlowConnectors.h.  Operators and ports are     *)
(* numbered from 0, as in the code.  A flow's formats are those of its     *)
(* files, and what the functions it gives to Filter and Split read.        *)
(***************************************************************************)
EXTENDS Integers, Sequences, SequencesExt

Conn(from, out, to, in) == [from |-> from, out |-> out, to |-> to, in |-> in]

\* An operator is known by its class and its number.
Node(role, i) == <<role, i>>

\* The number of input and of output ports of an operator, n that of the wide side.
Ins(role, n) ==
  CASE role \in {"FileSource", "TupleGenerator"} -> 0
    [] role \in {"Union", "Merge", "Barrier"} -> n
    [] OTHER -> 1
Outs(role, n) ==
  CASE role = "FileSink" -> 0
    [] role \in {"RoundRobinSplit", "Split"} -> n
    [] OTHER -> 1

Text(name) == <<name, "String">>
Texts(names) == [i \in DOMAIN names |-> Text(names[i])]
NameAndGrade == Texts(<<"name", "grade">>)
WithLineNo == NameAndGrade \o << <<"lineNo", "Integer">> >>

\* The columns of the file of an operator, and those of other operators.
Columns(o, format) == [x \in {o} |-> format]
Together(formats, others) ==
  [x \in DOMAIN formats \cup DOMAIN others |-> IF x \in DOMAIN formats THEN formats[x] ELSE others[x]]

\* for (i = first; i < end; i++): the sequences that the body adds, one after
\* the other.
Loop(first, end, Body(_)) == FlattenSeq([k \in 1..(end - first) |-> Body(first + k - 1)])

-----------------------------------------------------------------------------
(***************************************************************************)
(* Connectors: (op, port) >> (port, op, port) >> ... >> (port, op).        *)
(***************************************************************************)
FromKnot(op, out, knot) ==
  [conns |-> <<Conn(op, out, knot.op, knot.in)>>, out |-> knot.out]

\* The new connection leaves from the operator that the last one goes to.
Extended(chain, knot) ==
  [conns |-> Append(chain.conns, Conn(Last(chain.conns).to, chain.out, knot.op, knot.in)),
   out |-> knot.out]

Closed(chain, op, in) == Append(chain.conns, Conn(Last(chain.conns).to, chain.out, op, in))

\* FileFilterSink_test.
FilterSink ==
  LET src == Node("FileSource", 0)  snk == Node("FileSink", 0)
      flt(i) == Node("Filter", i)
      knot(i) == [in |-> 0, op |-> flt(i), out |-> 0]
  IN [name |-> "filterSink", n |-> 1, depth |-> 0,
      ops |-> <<src, flt(0), flt(1), snk>>,
      conns |-> Closed(Extended(FromKnot(src, 0, knot(0)), knot(1)), snk, 0),
      formats |-> Together(Together(Columns(src, NameAndGrade), Columns(snk, NameAndGrade)),
                           Together(Columns(flt(0), Texts(<<"grade">>)),
                                    Columns(flt(1), Texts(<<"name">>))))]

\* FileUnionSink_test and FileBarrierSink_test: four files, two of which feed the
\* middle port of join.
FourFiles(join, sourceFormats, sinkFormat) ==
  LET src(i) == Node("FileSource", i)  snk == Node("FileSink", 0)
  IN [name |-> join[1], n |-> 3, depth |-> 0,
      ops |-> Loop(1, 5, LAMBDA i : <<src(i)>>) \o <<join, snk>>,
      conns |-> <<Conn(src(1), 0, join, 0), Conn(src(2), 0, join, 1),
                  Conn(src(3), 0, join, 1), Conn(src(4), 0, join, 2), Conn(join, 0, snk, 0)>>,
      formats |-> Together([i \in {src(j) : j \in 1..4} |-> sourceFormats[i[2]]],
                           Columns(snk, sinkFormat))]

UnionSink == FourFiles(Node("Union", 0), [i \in 1..4 |-> NameAndGrade], NameAndGrade)

BarrierSink ==
  LET one == Texts(<<"name1", "grade1">>)
      two == Texts(<<"name2", "grade2">>)
      three == Texts(<<"name3", "grade3">>)
  IN FourFiles(Node("Barrier", 0), <<one, two, two, three>>, one \o two \o three)

-----------------------------------------------------------------------------
(***************************************************************************)
(* The topologies.                                                         *)
(***************************************************************************)
src0 == Node("TupleGenerator", 0)
timestamper(i) == Node("Timestamper", i)
selective(i) == Node("Selective", i)
busy(i) == Node("Busy", i)
collector(i) == Node("ResultCollector", i)
sink(i) == Node("FileSink", i)

\* depth > 0: the code dereferences the first element of the vectors.
Chain(depth) ==
  LET src == Node("FileSource", 0)
  IN [name |-> "chain", n |-> 1, depth |-> depth,
      ops |-> <<src, timestamper(0)>>
              \o Loop(0, depth, LAMBDA i : <<busy(i), selective(i)>>)
              \o <<collector(0), sink(0)>>,
      conns |-> <<Conn(src, 0, timestamper(0), 0), Conn(timestamper(0), 0, selective(0), 0)>>
                \o Loop(0, depth, LAMBDA i : <<Conn(selective(i), 0, busy(i), 0)>>)
                \o Loop(0, depth - 1, LAMBDA i : <<Conn(busy(i), 0, selective(i + 1), 0)>>)
                \o <<Conn(busy(depth - 1), 0, collector(0), 0),
                     Conn(collector(0), 0, sink(0), 0)>>,
      formats |-> Together(Columns(src, WithLineNo), Columns(sink(0), NameAndGrade))]

DataParallel(n) ==
  LET split == Node("Split", 0)  merge == Node("Merge", 0)
  IN [name |-> "dataParallel", n |-> n, depth |-> 1,
      ops |-> <<src0, timestamper(0), split>>
              \o Loop(0, n, LAMBDA i : <<selective(i), busy(i)>>)
              \o <<merge, collector(0), sink(0)>>,
      conns |-> <<Conn(src0, 0, timestamper(0), 0), Conn(timestamper(0), 0, split, 0)>>
                \o Loop(0, n, LAMBDA i : <<Conn(split, i, selective(i), 0),
                                           Conn(selective(i), 0, busy(i), 0),
                                           Conn(busy(i), 0, merge, i)>>)
                \o <<Conn(merge, 0, collector(0), 0), Conn(collector(0), 0, sink(0), 0)>>,
      formats |-> Together(Columns(split, << <<"lineNo", "Integer">> >>),
                           Columns(sink(0), NameAndGrade))]

\* pow(n, k), below 2^53 where a double is exact.
Power(n, k) == LET pow[i \in Nat] == IF i = 0 THEN 1 ELSE n * pow[i - 1] IN pow[k]

\* Mutant of Nodes: the power of n is not diminished.
NodesTooMany(depth, n) == Power(n, depth) \div (n - 1)

\* depth > 0 and n > 1: the code divides by n - 1.
Nodes(depth, n) == (Power(n, depth) - 1) \div (n - 1)

\* Mutant of Child: the children of a node are numbered from its first number.
ChildOffByOne(i, j, n) == i * n + j

\* Child j of node i in a tree numbered level by level.
Child(i, j, n) == i * n + j + 1

Tree(depth, n) ==
  LET nodes == Nodes(depth, n)  splits == Nodes(depth - 1, n)  leaves == Power(n, depth - 1)
      split(i) == Node("RoundRobinSplit", i)
      inner == nodes - leaves
  IN [name |-> "tree", n |-> n, depth |-> depth,
      ops |-> <<src0, timestamper(0)>>
              \o Loop(0, nodes, LAMBDA i : <<selective(i), busy(i)>>)
              \o Loop(0, splits, LAMBDA i : <<split(i)>>)
              \o Loop(0, leaves, LAMBDA i : <<collector(i), sink(i)>>),
      conns |-> <<Conn(src0, 0, timestamper(0), 0), Conn(timestamper(0), 0, selective(0), 0)>>
                \o Loop(0, nodes, LAMBDA i : <<Conn(selective(i), 0, busy(i), 0)>>)
                \o Loop(0, splits, LAMBDA i : <<Conn(busy(i), 0, split(i), 0)>>)
                \o Loop(0, inner, LAMBDA i :
                          Loop(0, n, LAMBDA j : <<Conn(split(i), j, selective(Child(i, j, n)), 0)>>))
                \o Loop(0, leaves, LAMBDA i : <<Conn(busy(i + inner), 0, collector(i), 0),
                                                Conn(collector(i), 0, sink(i), 0)>>),
      formats |-> [s \in {sink(i) : i \in 0..(leaves - 1)} |-> NameAndGrade]]

\* The nodes of the tree the other way round: the leaves have the first numbers,
\* and a union stands before every other node.
ReverseTree(depth, n) ==
  LET nodes == Nodes(depth, n)  sources == Power(n, depth - 1)
      src(i) == Node("TupleGenerator", i)
      union(i) == Node("Union", i)
  IN [name |-> "reverseTree", n |-> n, depth |-> depth,
      ops |-> Loop(0, sources, LAMBDA i : <<src(i), timestamper(i)>>)
              \o Loop(0, nodes, LAMBDA i : <<selective(i), busy(i)>>)
              \o Loop(sources, nodes, LAMBDA i : <<union(i - sources)>>)
              \o <<collector(0), sink(0)>>,
      conns |-> Loop(0, sources, LAMBDA i : <<Conn(src(i), 0, timestamper(i), 0),
                                              Conn(timestamper(i), 0, selective(i), 0),
                                              Conn(selective(i), 0, busy(i), 0)>>)
                \o Loop(sources, nodes, LAMBDA i :
                          <<Conn(union(i - sources), 0, selective(i), 0),
                            Conn(selective(i), 0, busy(i), 0)>>)
                \o Loop(0, nodes - 1, LAMBDA i : <<Conn(busy(i), 0, union(i \div n), i % n)>>)
                \o <<Conn(busy(nodes - 1), 0, collector(0), 0),
                     Conn(collector(0), 0, sink(0), 0)>>,
      formats |-> Columns(sink(0), NameAndGrade)]
=============================================================================
