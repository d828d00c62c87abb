\* Two cases of two turns, two models, any two commands, killed or failing anywhere.
CONSTANTS
  LastCase = 2
  Models = {m1, m2}
  DefaultModel = m1
  Texts = {"calls", "report"}
  Turns = 2
  Passing <- MCPassing
  MaxCommands = 2
  NoModel = NoModel
  Absent = Absent
  Torn = Torn
SPECIFICATION Spec
CHECK_DEADLOCK FALSE
INVARIANTS
  CommandTellsTheDisk
  FrozenCasesHold
PROPERTIES
  SkippedCasesAreUntouched
  CommandEnds
