--------------------------- MODULE MCProcessLookup ---------------------------
(***************************************************************************)
(* ProcessLookup for TLC: a UDP port bound on one address and on all of    *)
(* them, two process ids, two programs, and room for one path.  A TCP      *)
(* table is a UDP table whose sockets are their own wildcards.             *)
(***************************************************************************)
EXTENDS ProcessLookup, TLC

CONSTANTS udp, bound, wildcard, pid1, pid2, proxied, other

MCTableOf == [s \in Socket |-> udp]
MCWildcard == [s \in Socket |-> wildcard]

Symmetry == Permutations({pid1, pid2}) \cup Permutations({proxied, other})
==============================================================================
