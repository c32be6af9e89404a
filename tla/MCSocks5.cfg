SPECIFICATION FairSpec
CONSTANTS
  V4_LEN = 4
  V6_LEN = 16
  ProxyIps <- MCProxyIps
  ReplyAddrs <- MCReplyAddrs
  ReplyHosts <- MCReplyHosts
  MaxData = 1
CHECK_DEADLOCK FALSE
INVARIANTS TypeOK SessionAgreed StreamAligned
PROPERTIES OnlyStallBlocks
