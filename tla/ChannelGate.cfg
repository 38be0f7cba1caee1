SPECIFICATION ChannelSpec
CONSTANTS
  Models = {"ic7610"}
INVARIANT SameCheck
CHECK_DEADLOCK FALSE
