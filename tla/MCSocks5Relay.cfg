SPECIFICATION Spec
CONSTANTS
  V4_LEN = 4
  V6_LEN = 16
  ProxyIps <- MCProxyIps
  ReplyAddrs <- MCReplyAddrs
  ReplyHosts <- MCReplyHosts
  MaxData = 1
CHECK_DEADLOCK FALSE
INVARIANTS RelayOnProxyHost
