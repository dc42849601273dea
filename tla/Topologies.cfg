\* Chains, trees and parallel branches of up to four levels and three branches,
\* and the flows of the operator tests.  A finished flow is not changed again.
CONSTANT Designs <- SmallDesigns
SPECIFICATION Spec
CHECK_DEADLOCK FALSE
INVARIANTS NoStatementFails PublishersAgree FitForRuntime BuiltAsDocumented TuplesSuitReaders
