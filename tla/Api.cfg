\* Up to two requests of one group of routes at once, the process stopped or killed at any moment.
CONSTANTS
  None = None
  Streams = {s1}
  k1 = k1
  b1 = b1
  b2 = b2
  Keys = {k1}
  Workloads <- Traffic
SPECIFICATION ApiSpec
INVARIANTS
  ReplayIsFaithful
  SuccessIsOnChain
PROPERTIES
  AdminAnswersLogged
  CleanExitDropsNobody
  StaleEntryGoes
  ShutdownEnds
\* A process that has ended for the last time, with its transactions decided,
\* does nothing more.
CHECK_DEADLOCK FALSE
