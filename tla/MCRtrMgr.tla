------------------------------ MODULE MCRtrMgr ------------------------------
(***************************************************************************)
(* Small instances of RtrMgr for TLC.                                      *)
(***************************************************************************)
EXTENDS RtrMgr, TLC

\* Two groups of one socket each.
TwoGroups == 1 :> <<"a">> @@ 2 :> <<"b">>
TwoGroupsOf == "a" :> 1 @@ "b" :> 2

\* Three groups of one socket each: two of them can fail at a time.
ThreeGroups == 1 :> <<"a">> @@ 2 :> <<"b">> @@ 3 :> <<"c">>
ThreeGroupsOf == "a" :> 1 @@ "b" :> 2 @@ "c" :> 3
=============================================================================
