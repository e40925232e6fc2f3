\* The generator ends or raises, so the system stops.
SPECIFICATION MCSpec
CONSTANTS
  Inputs <- MCInputs
  Answers <- MCAnswers
  ChunkSize = 3
INVARIANTS TypeOK OnePerInput VerdictsAligned RequestsBounded EstimateIsLowerBound DecisionsParse
CHECK_DEADLOCK FALSE
