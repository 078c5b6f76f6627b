SPECIFICATION Spec
CONSTANTS
  Positions <- MCPositions
  Subcommands <- MCSubcommands
  MaxPackets = 2
  MaxStarts = 2
INVARIANTS RingShowsLast
PROPERTIES DialsOfThisBridge ShowsLastReport
