\* The event queue alone, with every kind of event and one shared container.
SPECIFICATION FairSpec
CONSTANTS
  Events <- MCEvents
  Containers <- MCContainers
  ContainerOf <- MCContainerOf
  StratumOf <- MCStratumOf
INVARIANTS
  QueueInv
PROPERTIES
  ImplementsStrata
  ActiveIsHandled
CHECK_DEADLOCK FALSE
