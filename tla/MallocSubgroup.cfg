SPECIFICATION Spec
CONSTANTS
  Size = 6
  Node <- TwoNodes
  Jobs <- SubgroupJobs
  Address <- TwoAddresses
INVARIANTS PutFindsRegistration
