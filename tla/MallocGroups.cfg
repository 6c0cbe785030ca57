SPECIFICATION Spec
CONSTANTS
  Size = 6
  Node <- TwoNodes
  Jobs <- AllJobs
  Address <- TwoAddresses
INVARIANTS TypeOK RegistrationSound PutFindsRegistration
