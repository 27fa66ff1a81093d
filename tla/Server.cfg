\* Fewer codes (2) than the quotas allow shares (3): one host may use them up.
CONSTANTS
  ip1 = ip1
  ip2 = ip2
  p1 = p1
  p2 = p2
  p3 = p3
  p4 = p4
  c1 = c1
  c2 = c2
  f1 = f1
  EmptyFile = EmptyFile
  Ip <- Ips
  Port <- Ports
  Addr <- Addrs
  Code <- TwoCodes
  File <- OneFile
  kMaxSharedPerIp = 2
  kTimeoutSec = 2
SYMMETRY Symmetry
SPECIFICATION Spec
INVARIANTS TypeOK QuotaExact SharesExpire RegistryInverse AcceptedIsRegistered
PROPERTIES KeepsPromise RegistrySpec
\* The process may stop serving for ever.
CHECK_DEADLOCK FALSE
