SPECIFICATION Spec
CONSTANTS
  d1 = d1 d2 = d2 u1 = u1 u2 = u2 k1 = k1 k2 = k2 k3 = k3 f1 = f1 f2 = f2 f3 = f3
  None = None
  Device <- TwoDevices
  User <- OneUser
  Prekey <- AllPrekeys
  Registrations <- TwoRegistrations
  Rotations <- OwnRotations
  Fetch <- ThreeFetches
  MaxUploads = 3
INVARIANTS TypeOK OneTimeUse NothingLost  
PROPERTY IsDispenser
\* Every fetch is made once and the uploads are bounded.
CHECK_DEADLOCK FALSE
