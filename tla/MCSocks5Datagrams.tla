--------------------------- MODULE MCSocks5Datagrams ---------------------------
(***************************************************************************)
(* Socks5Datagrams for TLC, with addresses of one and four octets: the     *)
(* codec only copies them, so their true lengths would add states of one   *)
(* kind.  The alphabet has every type and lengths that fit and do not.     *)
(***************************************************************************)
EXTENDS Socks5Datagrams

MCDestinations ==
  [ip : {<<1>>, <<0>>, <<0, 0, 0, 1>>, <<3, 4, 1, 0>>}, port : {<<0, 3>>, <<4, 1>>}]
================================================================================
