---------------------------- MODULE MCAspaVerify ----------------------------
(***************************************************************************)
(* The calls of AspaVerify that TLC goes through.                          *)
(***************************************************************************)
EXTENDS AspaVerify, SequencesExt

\* The arrays of customers 1 .. n: each has no record, or one of the sets of
\* providers in Offer[c].
RECURSIVE Arrays(_, _)
Arrays(n, Offer) ==
    IF n = 0 THEN {<<>>}
    ELSE LET Before == Arrays(n - 1, Offer)
             Records == {[customer |-> n, providers |-> SetToSortSeq(p, <)] : p \in Offer[n]}
         IN  Before \cup {Append(a, rec) : a \in Before, rec \in Records}

Calls(paths, stores) ==
    [path : paths, direction : Direction, table : {TRUE}, store : stores]
NoTableCalls ==
    [path : {<<>>, <<1, 2>>}, direction : Direction, table : {FALSE}, store : {<<>>}]

\* Every path of up to four of three ASes, with every table of one socket.
Small == 1 .. 3
SmallArrays == Arrays(3, [c \in Small |-> SUBSET (Small \ {c})])
SmallCalls == Calls(SeqOf(Small, 4), {<<>>} \cup {<<a>> : a \in SmallArrays})

\* A path of five different ASes, with every table on its hops.
Beside(c) == {d \in 1 .. 5 : d = c - 1 \/ d = c + 1}
LongCalls == Calls({<<1, 2, 3, 4, 5>>},
                   {<<a>> : a \in Arrays(5, [c \in 1 .. 5 |-> SUBSET Beside(c)])})

\* Two sockets that differ about the providers of the same customers.
PairArrays == Arrays(2, [c \in 1 .. 2 |-> {{}, {3}, {1, 2, 3} \ {c}}])
PairCalls == Calls({<<3, 1, 2>>, <<1, 3, 2>>}, {<<a, b>> : a, b \in PairArrays})

\* Long and wide lists of providers and of customers.
WideCalls ==
    Calls({<<p, 4>> : p \in {1, 3, 5, 7, 9, 12, 15}},
          {<<a>> : a \in Arrays(4, <<{}, {}, {}, SUBSET {1, 2, 3, 5, 8, 9, 15}>>)
                         \cup Arrays(6, [c \in 1 .. 6 |-> {{7}}])})

MCCall == NoTableCalls \cup SmallCalls \cup LongCalls \cup PairCalls \cup WideCalls
=============================================================================
