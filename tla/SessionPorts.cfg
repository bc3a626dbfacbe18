SPECIFICATION Spec
CONSTANTS
  Names <- McNames
  Spelling <- McSpelling
  Modules <- McModules
  SystemTasks <- McSystemTasks
  TaskOrder <- McTaskOrder
  Sessions <- McSessions
INVARIANT PlainConnections
