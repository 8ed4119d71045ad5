SPECIFICATION Spec
CHECK_DEADLOCK FALSE
INVARIANTS InterruptsRight CsrExact PlatformInterruptsRight PredictionsRight
PROPERTIES StepsConfined ResultsAsSpecified
