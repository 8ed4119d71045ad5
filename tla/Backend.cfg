SPECIFICATION Spec
INVARIANTS SideEffectsKept ReportsExact CountsExact OperandsRight WaitersHaveProducers
