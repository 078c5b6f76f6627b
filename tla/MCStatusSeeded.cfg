SPECIFICATION Spec
CONSTANTS
  Positions <- MCPositions
  Subcommands <- MCSubcommands
  MaxPackets = 2
  MaxStarts = 2
PROPERTY ShownWasReported
