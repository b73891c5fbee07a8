---------------------------- MODULE MCAspaTable -----------------------------
(***************************************************************************)
(* Small instances of AspaTable for TLC.                                   *)
(***************************************************************************)
EXTENDS AspaTable

Ann(c, prov) == [type |-> "ADD", cas |-> c, prov |-> prov]
Wdr(c) == [type |-> "REMOVE", cas |-> c, prov |-> {}]

\* Socket "a" gets all pairs of operations on three customers, all triples on
\* two of them, one of which changes its providers, and a few resets; socket
\* "b" an announcement and its withdrawal.
OpsOfTwo == {Ann(1, {7}), Wdr(1), Ann(2, {7}), Ann(2, {8}), Wdr(2)}
OpsOfA == OpsOfTwo \cup {Ann(3, {7})}
ResetsOfA == {<<>>, <<Ann(2, {7})>>, <<Ann(3, {7}), Ann(1, {7})>>, <<Ann(1, {7}), Ann(1, {7})>>}
Answers == [s \in {"a", "b"} |->
    IF s = "a"
    THEN [reset : {FALSE}, ops : UNION {[1 .. 1 -> OpsOfA], [1 .. 2 -> OpsOfA], [1 .. 3 -> OpsOfTwo]}]
         \cup [reset : {TRUE}, ops : ResetsOfA]
    ELSE [reset : {FALSE}, ops : {<<Ann(2, {8})>>, <<Wdr(2)>>}]]
=============================================================================
