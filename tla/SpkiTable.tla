----------------------------- MODULE SpkiTable ------------------------------
(***************************************************************************)
(* The table of router keys (spki/hashtable/ht-spkitable.c): every key is  *)
(* in a hash table and in a list, shared by the threads of several RTR     *)
(* sockets; the shadow tables a reset fills and swaps in (rtr/packets.c);  *)
(* and the update callbacks of the application.  What happens under the    *)
(* write lock is one step.                                                 *)
(***************************************************************************)
EXTENDS Integers, SequencesExt

CONSTANTS
    Record,     \* the router keys the caches announce
    Socket,     \* the RTR sockets
    BucketOf,   \* BucketOf[asn]: the bucket of the hash table for an AS number
    Overlap     \* sockets change the shared table, or reset, while one resets

Shared == "shared"
Table == {Shared} \cup Socket  \* the shared table, the shadow of each socket
Bucket == Range(BucketOf)

ASSUME TableAssumption ==
    /\ Shared \notin Socket /\ Overlap \in BOOLEAN
    /\ \A rec \in Record : rec.socket \in Socket /\ rec.asn \in DOMAIN BucketOf

VARIABLES
    table,      \* table[t]: the hash table, chains of keys in buckets, and the list
    pc,         \* what the thread of a socket is doing
    told,       \* the keys the update callbacks have announced
    unsaid      \* those of them that were removed without a callback

tableVars == <<table, pc, told, unsaid>>

-----------------------------------------------------------------------------
(* The two structures                                                      *)

Empty == [hash |-> [b \in Bucket |-> <<>>], list |-> <<>>]

key_entry_cmp(param, entry) ==
    /\ param.asn = entry.asn /\ param.ski = entry.ski /\ param.spki = entry.spki
    /\ param.socket = entry.socket

tommy_hashlin_bucket(tab, asn) == tab.hash[BucketOf[asn]]

tommy_hashlin_search(tab, rec) ==
    \E i \in DOMAIN tommy_hashlin_bucket(tab, rec.asn) :
        key_entry_cmp(rec, tommy_hashlin_bucket(tab, rec.asn)[i])

Added(tab, rec) ==
    [hash |-> [tab.hash EXCEPT ![BucketOf[rec.asn]] = Append(@, rec)],
     list |-> Append(tab.list, rec)]

\* The first entry of the bucket that compares equal leaves both structures.
Removed(tab, rec) ==
    LET bucket == tommy_hashlin_bucket(tab, rec.asn)
        rmv_elem == SelectSeq(bucket, LAMBDA entry : key_entry_cmp(rec, entry))[1]
    IN  [hash |-> [tab.hash EXCEPT ![BucketOf[rec.asn]] = RemoveFirst(@, rmv_elem)],
         list |-> RemoveFirst(tab.list, rmv_elem)]

\* All keys of an AS with this identifier, from its bucket.
spki_table_get_all(tab, asn, ski) ==
    SelectSeq(tommy_hashlin_bucket(tab, asn),
              LAMBDA element : element.asn = asn /\ element.ski = ski)

\* All keys with this identifier, of any AS, from the list.
spki_table_search_by_ski(tab, ski) ==
    SelectSeq(tab.list, LAMBDA entry : entry.ski = ski)

KeysIn(tab) == Range(tab.list)

-----------------------------------------------------------------------------
(* The threads of the sockets                                              *)

Idle == [at |-> "idle"]
At(s, where) == pc[s].at = where
Goto(s, where) == pc' = [pc EXCEPT ![s] = where]

TableInit ==
    /\ table = [t \in Table |-> Empty]
    /\ pc = [s \in Socket |-> Idle]
    /\ told = {} /\ unsaid = {}

\* A reset of s has copied the shared table and not swapped, or computes what
\* changed, for which it walks the list of the shared table without its lock.
Resetting(s) == At(s, "fill") \/ At(s, "diff")
MayChange(s) == Overlap \/ \A t \in Socket \ {s} : ~ Resetting(t)

CanUpdate(s) == (At(s, "idle") /\ MayChange(s)) \/ At(s, "fill")
Target(s) == IF At(s, "fill") THEN s ELSE Shared

Say(op, recs) ==
    /\ told' = IF op = "ADD" THEN told \cup recs ELSE told \ recs
    /\ unsaid' = unsaid \ recs

\* The callback of an addition comes after the lock has been given back; the
\* shadow table has none.
spki_table_add_entry(s, rec) ==
    /\ CanUpdate(s)
    /\ ~ tommy_hashlin_search(table[Target(s)], rec)
    /\ table' = [table EXCEPT ![Target(s)] = Added(@, rec)]
    /\ IF At(s, "fill") THEN UNCHANGED pc ELSE Goto(s, [at |-> "notify", rec |-> rec])
    /\ UNCHANGED <<told, unsaid>>

spki_table_notify_clients(s) ==
    /\ At(s, "notify")
    /\ Say("ADD", {pc[s].rec})
    /\ Goto(s, Idle)
    /\ UNCHANGED table

\* The callback of a removal is made with the lock held.
spki_table_remove_entry(s, rec) ==
    /\ CanUpdate(s)
    /\ tommy_hashlin_search(table[Target(s)], rec)
    /\ table' = [table EXCEPT ![Target(s)] = Removed(@, rec)]
    /\ IF At(s, "fill") THEN UNCHANGED <<told, unsaid>> ELSE Say("REMOVE", {rec})
    /\ UNCHANGED pc

Without(tab, s) ==
    FoldLeft(LAMBDA t, rec : IF rec.socket = s THEN Removed(t, rec) ELSE t, tab, tab.list)

\* Faulty variant: the keys stay in the hash table.
SrcRemoveList(s) ==
    /\ At(s, "idle") /\ MayChange(s)
    /\ table' = [table EXCEPT ![Shared].list = SelectSeq(@, LAMBDA rec : rec.socket # s)]
    /\ unsaid' = unsaid \cup {rec \in KeysIn(table[Shared]) : rec.socket = s}
    /\ UNCHANGED <<pc, told>>

\* No callback is made for the keys that go.
spki_table_src_remove(s) ==
    /\ At(s, "idle") /\ MayChange(s)
    /\ table' = [table EXCEPT ![Shared] = Without(@, s)]
    /\ unsaid' = unsaid \cup {rec \in KeysIn(table[Shared]) : rec.socket = s}
    /\ UNCHANGED <<pc, told>>

\* Faulty variant: the shadow table starts empty.
CopyNone(s) ==
    /\ At(s, "idle") /\ MayChange(s)
    /\ Goto(s, [at |-> "fill"])
    /\ UNCHANGED <<table, told, unsaid>>

\* The lock of the shared table is held until everything is copied.
spki_table_copy_except_socket(s) ==
    /\ At(s, "idle") /\ MayChange(s)
    /\ table' = [table EXCEPT ![s] =
          FoldLeft(Added, @, SelectSeq(table[Shared].list, LAMBDA rec : rec.socket # s))]
    /\ Goto(s, [at |-> "fill"])
    /\ UNCHANGED <<told, unsaid>>

\* No memory for the copy, or a PDU that cannot be applied.
spki_table_free_without_notify(s) ==
    /\ At(s, "fill")
    /\ table' = [table EXCEPT ![s] = Empty]
    /\ Goto(s, Idle)
    /\ UNCHANGED <<told, unsaid>>

spki_table_swap(s) ==
    /\ At(s, "fill")
    /\ table' = [table EXCEPT ![Shared] = table[s], ![s] = table[Shared]]
    /\ Goto(s, [at |-> "diff"])
    /\ UNCHANGED <<told, unsaid>>

\* Faulty variant: the keys left in the old table are not withdrawn.
DiffLeftOver(s) ==
    LET new == SelectSeq(table[Shared].list, LAMBDA rec : rec.socket = s)
        added == {rec \in Range(new) : ~ tommy_hashlin_search(table[s], rec)}
    IN  /\ At(s, "diff")
        /\ told' = told \cup added
        /\ unsaid' = unsaid \ added
        /\ table' = [table EXCEPT ![s] = Empty]
        /\ Goto(s, Idle)

\* Every key of s in the new table is removed from the old one, or else is
\* announced; the keys of s left in the old one are withdrawn, and the old
\* table is freed.
spki_table_notify_diff(s) ==
    LET new == SelectSeq(table[Shared].list, LAMBDA rec : rec.socket = s)
        added == {rec \in Range(new) : ~ tommy_hashlin_search(table[s], rec)}
        Take(tab, rec) == IF tommy_hashlin_search(tab, rec) THEN Removed(tab, rec) ELSE tab
        left == {rec \in KeysIn(FoldLeft(Take, table[s], new)) : rec.socket = s}
    IN  /\ At(s, "diff")
        /\ told' = (told \cup added) \ left
        /\ unsaid' = unsaid \ (added \cup left)
        /\ table' = [table EXCEPT ![s] = Empty]
        /\ Goto(s, Idle)

\* The application has stopped the sockets; no callback is made, and the next
\* table starts empty.
spki_table_free ==
    /\ \A s \in Socket : At(s, "idle")
    /\ table' = [table EXCEPT ![Shared] = Empty]
    /\ unsaid' = told
    /\ UNCHANGED <<pc, told>>

TableNext ==
    \/ \E s \in Socket :
          \/ \E rec \in {r \in Record : r.socket = s} :
                spki_table_add_entry(s, rec) \/ spki_table_remove_entry(s, rec)
          \/ spki_table_notify_clients(s) \/ spki_table_src_remove(s)
          \/ spki_table_copy_except_socket(s) \/ spki_table_free_without_notify(s)
          \/ spki_table_swap(s) \/ spki_table_notify_diff(s)
    \/ spki_table_free

TableSpec == TableInit /\ [][TableNext]_tableVars

-----------------------------------------------------------------------------
(* Properties                                                              *)

(* The table the threads share is a set of keys that changes by one key,   *)
(* by the keys of one socket, or by a reset that touches the keys of its   *)
(* own socket only, at once.  It needs Overlap = FALSE: what another       *)
(* socket adds between copy and swap is lost by the swap.                  *)
Abstract == INSTANCE RecordTable WITH
    records <- KeysIn(table[Shared]),
    SocketOf <- [rec \in Record |-> rec.socket],
    PartOf <- [rec \in Record |-> "keys"]
IsRecordTable == Abstract!Spec

(* The two structures never part: whether a key is asked for through the   *)
(* hash table, of one AS, or through the list, of any AS, the answer is    *)
(* every key of the table that fits, once.                                 *)
StructuresAgree ==
    \A t \in Table, asn \in DOMAIN BucketOf, ski \in {rec.ski : rec \in Record} :
        LET keys == {rec \in KeysIn(table[t]) : rec.ski = ski}
            all == spki_table_get_all(table[t], asn, ski)
            found == spki_table_search_by_ski(table[t], ski)
        IN  /\ Range(all) = {rec \in keys : rec.asn = asn} /\ IsInjective(all)
            /\ Range(found) = keys /\ IsInjective(found)

(* An application that follows the update callbacks has the keys of every  *)
(* socket whose thread is not in the middle of an update, but for keys     *)
(* that spki_table_src_remove or spki_table_free removed: of those it is   *)
(* not told, and of nothing else.  It needs Overlap = FALSE too: a key     *)
(* that a swap loses has been announced and is not withdrawn.              *)
ClientFollows ==
    \A s \in Socket : At(s, "idle") =>
        /\ {rec \in told \ unsaid : rec.socket = s}
              = {rec \in KeysIn(table[Shared]) : rec.socket = s}
        /\ unsaid \subseteq told
=============================================================================
