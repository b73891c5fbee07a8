---------------------------- MODULE MCRtrSocket ----------------------------
(***************************************************************************)
(* Small instances of RtrSocket for TLC.                                   *)
(***************************************************************************)
EXTENDS RtrSocketInv, TLC

\* Two prefixes and a router key; a session of version 2 and one of version 0
\* that share a part of their data, with two serial numbers each.
SyncKindOf == <<IPV4, IPV4, ROUTER_KEY>>
SyncData == <<(0 :> {1, 3} @@ 1 :> {2, 3}), (0 :> {2} @@ 1 :> {1, 2})>>
SyncVersionOf == <<2, 0>>

\* One record for each of the three tables, for a cache that may send anything.
AnyKindOf == <<IPV4, ROUTER_KEY, ASPA>>
AnyData == <<(0 :> {}), (0 :> {})>>
AnyVersionOf == <<2, 2>>
=============================================================================
