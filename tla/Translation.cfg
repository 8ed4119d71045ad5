SPECIFICATION Spec
INVARIANTS SharedTlbRight FirstLevelRight WalkRight AccessesRight ProtectionRight
PROPERTY LockedStays
