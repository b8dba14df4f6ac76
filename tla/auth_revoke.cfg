SPECIFICATION Spec
CONSTANTS
  u = u v = v d = d l0 = l0 l1 = l1 g1 = g1 f1 = f1 s1 = s1
  x1 = x1 e1 = e1 k1 = k1 None = None
  User <- Users
  Device <- Devices
  Request <- DeviceRequests
  Op <- Ops
  Subject <- Subjects
  Target <- Targets
  Existing <- OnlyU
  Earlier <- LoggedIn
PROPERTY RevokeRevokes
\* Every request is made once.
CHECK_DEADLOCK FALSE
