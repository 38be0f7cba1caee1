SPECIFICATION MCSpec
CONSTANTS
  Models = {"ft710", "ft891", "ftdx10", "ic7610"}
  Processes = {"p", "q"}
  Keys = {"k1", "k2"}
  Values = {"on", "off"}
  MaxSaves = 2
  MaxFailures = 2
INVARIANTS
  AllTypesOK FramesOfStream AnswerIsTheReply ImageIsWhole PathIsWhole DecisionKept
  WrittenIsAsked StepsTellTheWire PlannedIsWritable
PROPERTY ReceptionEnds
CHECK_DEADLOCK FALSE
