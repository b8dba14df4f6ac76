SPECIFICATION FairSpec
CONSTANTS
  a = a r = r m1 = m1 m2 = m2 m3 = m3 c1 = c1 c2 = c2
  Device <- Devices
  Message <- Messages
  From <- FromA
  To <- ToR
  Conn <- Conns
  DeviceOf <- OfR
  Batch = 2
  MaxFailures = 1
INVARIANTS TypeOK MarkedWasSent 
PROPERTY EventuallyRead
\* Every message is sent and every connection opened once.
CHECK_DEADLOCK FALSE
