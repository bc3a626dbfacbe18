SPECIFICATION Spec
CONSTANTS
  Names <- McNames
  Spelling <- McSpelling
  Modules <- McModules
  SystemTasks <- McSystemTasks
  TaskOrder <- McTaskOrder
  Sessions <- McSessions
INVARIANTS
  SessionTypeOK EndsClean SimulatedClean NamesFound EveryInstance AsDeclared PortsConnected DumpComplete
