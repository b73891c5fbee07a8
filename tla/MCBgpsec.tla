------------------------------ MODULE MCBgpsec ------------------------------
(***************************************************************************)
(* A small instance of Bgpsec and SpkiTable for TLC.                       *)
(***************************************************************************)
EXTENDS Bgpsec

Key(as, id, k, s) == [asn |-> as, ski |-> id, spki |-> k, socket |-> s]

\* A key of one socket and a key of the other that has the same identifier
\* but cannot be loaded, and the key of another AS.
Keys == {Key(1, "x", "p", "a"), Key(1, "x", "broken", "b"), Key(2, "y", "q", "b")}
SignsWith == <<[ski |-> "x", spki |-> "p"], [ski |-> "y", spki |-> "q"]>>
OneBucket == [asn \in 1 .. 2 |-> 0]
Lengths == <<70, 72>>
Taken == {<<1>>, <<2, 1, 2>>}
Prefixes24 == {[nlri_len |-> 24, afi |-> 1], [nlri_len |-> 24, afi |-> 3]}
=============================================================================
