---------------------------- MODULE MCProxyTable ----------------------------
(***************************************************************************)
(* ProxyTable for TLC: an address of each family, three proxies of which   *)
(* the table holds two, and a program whose path contains two names.       *)
(***************************************************************************)
EXTENDS ProxyTable

CONSTANTS v4, v6, app, other

MCInPath == {<<"browser", app>>, <<"browser", other>>, <<"proxifyre", other>>}
=============================================================================
