SPECIFICATION FairSpec
CONSTANTS
  d1 = d1 d2 = d2 m1 = m1 m2 = m2 g = g p = p
  k0 = k0 k1 = k1 k2 = k2 None = None
  Device <- Devices
  Message <- Messages
  Of <- OfDevices
  Wipe <- Wipes
  Named <- NamedDevices
  Gateway <- ByGateway
  Upload <- Uploads
  Target <- Targets
  Uploaded <- First
  MaxFailures = 1
INVARIANTS TypeOK AuthDeletedLast
 

\* Every wipe and every upload is made once.
CHECK_DEADLOCK FALSE
