----------------------------- MODULE MCPfxTable -----------------------------
(***************************************************************************)
(* Small instances of PfxTable for TLC: addresses of three bits.             *)
(***************************************************************************)
EXTENDS PfxTable

Rec(f, p, min, max, as, s) ==
    [family |-> f, prefix |-> p, min_len |-> min, max_len |-> max, asn |-> as, socket |-> s]

\* Nested and disjoint prefixes, two records of one prefix, the same record
\* from both sockets, and one of either family.
Records ==
    {Rec("ipv4", <<0, 0, 0>>, 0, 1, 1, "a"),
     Rec("ipv4", <<0, 0, 0>>, 1, 3, 2, "a"),
     Rec("ipv4", <<0, 1, 0>>, 3, 3, 0, "a"),
     Rec("ipv4", <<1, 0, 0>>, 2, 2, 1, "b"),
     Rec("ipv4", <<0, 0, 0>>, 1, 3, 2, "b"),
     Rec("ipv6", <<1, 1, 0>>, 2, 2, 1, "b")}
=============================================================================
