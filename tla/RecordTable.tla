---------------------------- MODULE RecordTable -----------------------------
(***************************************************************************)
(* What a table of records promises its users, whatever structure holds    *)
(* the records: a set that changes by one record, by all records of one    *)
(* socket in one part of the table, or by a reset that puts new records of *)
(* one socket in the place of its old ones.  Nothing else ever changes,    *)
(* and nobody sees a change half done.                                     *)
(***************************************************************************)
CONSTANTS
    Record,   \* the records
    Socket,   \* the sockets they come from
    SocketOf, \* SocketOf[r]: the socket of record r
    PartOf    \* PartOf[r]: the part of the table r belongs to

VARIABLE records

Of(s) == {r \in Record : SocketOf[r] = s}

Init == records = {}

Add == \E r \in Record \ records : records' = records \cup {r}

Remove == \E r \in records : records' = records \ {r}

RemoveSocket ==
    \E s \in Socket, part \in {PartOf[r] : r \in Record} :
        records' = {r \in records : SocketOf[r] # s \/ PartOf[r] # part}

Replace ==
    \E s \in Socket : records' \subseteq Record /\ records' \ Of(s) = records \ Of(s)

Free == records' = {}

Next == Add \/ Remove \/ RemoveSocket \/ Replace \/ Free

Spec == Init /\ [][Next]_records
=============================================================================
