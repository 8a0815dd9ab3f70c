SPECIFICATION Spec
CONSTANTS
  Texts <- MCTexts
  MaxCommands = 4
INVARIANTS ChildrenReaped RunsAsWritten
PROPERTIES ShellEnds
CHECK_DEADLOCK FALSE
