\* A client that sends the same creation again after an answer that it failed.
CONSTANTS
  None = None
  Streams = {s1}
  k1 = k1
  b1 = b1
  b2 = b2
  Keys = {k1}
  Workloads <- PatientClient
SPECIFICATION ApiSpec
PROPERTIES
  RetriesAreSafe
CHECK_DEADLOCK FALSE
