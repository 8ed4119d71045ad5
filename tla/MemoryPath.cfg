SPECIFICATION Spec
INVARIANTS LoadStorePrecise AtomicsMatch CachedBlockRight BusAnswersRight RequestsInOrder
