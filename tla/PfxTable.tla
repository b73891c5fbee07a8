------------------------------ MODULE PfxTable ------------------------------
(***************************************************************************)
(* The prefix table (pfx/trie/trie.c, pfx/trie/trie-pfx.c): two tries, one *)
(* per IP version, shared by the threads of several RTR sockets; the       *)
(* shadow tables a reset fills and swaps in (rtr/packets.c); origin        *)
(* validation; and the update callbacks of the application.                *)
(*                                                                         *)
(* A trie is a function from positions to nodes.  A position is the        *)
(* sequence of bits on the way from the root, 0 for a left child, so its   *)
(* length is the level of the node.  The empty function is no trie.  What  *)
(* happens under the write lock is one step.                               *)
(***************************************************************************)
EXTENDS Integers, SequencesExt

CONSTANTS
    W,          \* bits of an address
    Record,     \* the records the caches announce
    Socket,     \* the RTR sockets
    Overlap     \* sockets change the shared table, or reset, while one resets

Family == {"ipv4", "ipv6"}
Prefix == [1 .. W -> {0, 1}]
Shared == "shared"
Table == {Shared} \cup Socket  \* the shared table, the shadow of each socket

ASSUME TableAssumption ==
    /\ W \in Nat \ {0}
    /\ Shared \notin Socket
    /\ Overlap \in BOOLEAN
    /\ \A rec \in Record :
          /\ rec.family \in Family /\ rec.prefix \in Prefix /\ rec.asn \in Nat
          /\ rec.socket \in Socket
          /\ rec.min_len \in 0 .. W /\ rec.max_len \in rec.min_len .. W
          /\ \A i \in rec.min_len + 1 .. W : rec.prefix[i] = 0

VARIABLES
    trie,       \* trie[t][f]: the trie of table t for family f
    pc,         \* what the thread of a socket is doing
    told        \* the records the update callbacks have announced

vars == <<trie, pc, told>>

-----------------------------------------------------------------------------
(* The trie                                                                *)

NoTrie == <<>>
Root == <<>>
NoNode == <<2>>

\* Bit lvl of an address.  Beyond the last bit a shift by the word width is
\* undefined; a node of that level has no children, so any answer will do.
rtr_ip_addr_get_bits(prefix, lvl) == IF lvl < W THEN prefix[lvl + 1] ELSE 0

Child(pos, prefix) == Append(pos, rtr_ip_addr_get_bits(prefix, Len(pos)))

Covers(node, prefix, mask_len) ==
    node.len <= mask_len /\ \A i \in 1 .. node.len : node.prefix[i] = prefix[i]

\* The node with the shorter prefix takes the place, the other one goes on.
RECURSIVE trie_insert(_, _, _)
trie_insert(t, pos, new) ==
    IF pos \notin DOMAIN t THEN t @@ (pos :> new)
    ELSE IF new.len < t[pos].len
         THEN trie_insert([t EXCEPT ![pos] = new], Child(pos, t[pos].prefix), t[pos])
         ELSE trie_insert(t, Child(pos, new.prefix), new)

RECURSIVE trie_lookup(_, _, _, _)
trie_lookup(t, pos, prefix, mask_len) ==
    IF pos \notin DOMAIN t THEN NoNode
    ELSE IF Covers(t[pos], prefix, mask_len) THEN pos
    ELSE trie_lookup(t, Child(pos, prefix), prefix, mask_len)

RECURSIVE trie_lookup_exact(_, _, _, _)
trie_lookup_exact(t, pos, prefix, mask_len) ==
    IF pos # Root /\ t[pos].len > mask_len THEN [pos |-> Front(pos), found |-> FALSE]
    ELSE IF t[pos].len = mask_len /\ t[pos].prefix = prefix THEN [pos |-> pos, found |-> TRUE]
    ELSE IF Child(pos, prefix) \notin DOMAIN t THEN [pos |-> pos, found |-> FALSE]
    ELSE trie_lookup_exact(t, Child(pos, prefix), prefix, mask_len)

Left(pos) == Append(pos, 0)
Right(pos) == Append(pos, 1)
trie_is_leaf(t, pos) == Left(pos) \notin DOMAIN t /\ Right(pos) \notin DOMAIN t

\* Faulty variant: the left child moves up whenever there is one.
RECURSIVE RemoveTakesLeft(_, _)
RemoveTakesLeft(t, pos) ==
    LET child == IF Left(pos) \in DOMAIN t THEN Left(pos) ELSE Right(pos)
    IN  IF trie_is_leaf(t, pos) THEN [p \in DOMAIN t \ {pos} |-> t[p]]
        ELSE RemoveTakesLeft([t EXCEPT ![pos] = t[child]], child)

\* Removes the node at pos, which every caller looks up first: the child with
\* the shorter prefix moves up, and is removed in its turn.
RECURSIVE trie_remove(_, _)
trie_remove(t, pos) ==
    LET child == IF /\ Left(pos) \in DOMAIN t
                    /\ Right(pos) \notin DOMAIN t \/ t[Left(pos)].len < t[Right(pos)].len
                 THEN Left(pos) ELSE Right(pos)
    IN  IF trie_is_leaf(t, pos) THEN [p \in DOMAIN t \ {pos} |-> t[p]]
        ELSE trie_remove([t EXCEPT ![pos] = t[child]], child)

-----------------------------------------------------------------------------
(* Records in the trie                                                     *)

Elem(rec) == [asn |-> rec.asn, max_len |-> rec.max_len, socket |-> rec.socket]

RecordOf(f, node, e) ==
    [family |-> f, prefix |-> node.prefix, min_len |-> node.len,
     max_len |-> e.max_len, asn |-> e.asn, socket |-> e.socket]

pfx_table_node2pfx_record(f, node) == [i \in DOMAIN node.data |-> RecordOf(f, node, node.data[i])]

pfx_table_create_node(rec) ==
    [prefix |-> rec.prefix, len |-> rec.min_len, data |-> <<Elem(rec)>>]

\* All records of a trie in the order of the walk: left, node, right.
RECURSIVE pfx_table_for_each_rec(_, _, _)
pfx_table_for_each_rec(f, t, pos) ==
    IF pos \notin DOMAIN t THEN <<>>
    ELSE pfx_table_for_each_rec(f, t, Left(pos))
         \o pfx_table_node2pfx_record(f, t[pos])
         \o pfx_table_for_each_rec(f, t, Right(pos))

RecordsOf(f, t) == UNION {Range(pfx_table_node2pfx_record(f, t[pos])) : pos \in DOMAIN t}
RecordsIn(tab) == UNION {RecordsOf(f, tab[f]) : f \in Family}

\* Faulty variant: records of two sockets are taken for the same.
FindAnySocket(node, rec) ==
    \E i \in DOMAIN node.data : node.data[i].asn = rec.asn /\ node.data[i].max_len = rec.max_len

pfx_table_find_elem(node, rec) == Contains(node.data, Elem(rec))

\* The trie with rec added; the caller has ruled out a duplicate.
Added(t, rec) ==
    IF t = NoTrie THEN Root :> pfx_table_create_node(rec)
    ELSE LET at == trie_lookup_exact(t, Root, rec.prefix, rec.min_len)
         IN  IF at.found THEN [t EXCEPT ![at.pos].data = Append(@, Elem(rec))]
             ELSE trie_insert(t, at.pos, pfx_table_create_node(rec))

Holds(t, rec) ==
    /\ t # NoTrie
    /\ LET at == trie_lookup_exact(t, Root, rec.prefix, rec.min_len)
       IN  at.found /\ pfx_table_find_elem(t[at.pos], rec)

\* The node at pos has lost elements and goes when none is left.
Shrunk(t, pos) == IF t[pos].data = <<>> THEN trie_remove(t, pos) ELSE t

\* The trie without rec, which is in it.
Removed(t, rec) ==
    LET at == trie_lookup_exact(t, Root, rec.prefix, rec.min_len)
    IN  Shrunk([t EXCEPT ![at.pos].data = Remove(@, Elem(rec))], at.pos)

\* Faulty variant: a node that took the place of a removed one is not looked
\* at again.
RECURSIVE RemoveIdOnce(_, _, _)
RemoveIdOnce(t, pos, s) ==
    IF pos \notin DOMAIN t THEN t
    ELSE LET rest == SelectSeq(t[pos].data, LAMBDA e : e.socket # s)
             u == Shrunk([t EXCEPT ![pos].data = rest], pos)
         IN  RemoveIdOnce(RemoveIdOnce(u, Left(pos), s), Right(pos), s)

\* All elements of a socket go; a node that takes the place of a removed one
\* is looked at again.
RECURSIVE pfx_table_remove_id(_, _, _)
pfx_table_remove_id(t, pos, s) ==
    IF pos \notin DOMAIN t THEN t
    ELSE LET rest == SelectSeq(t[pos].data, LAMBDA e : e.socket # s)
             u == Shrunk([t EXCEPT ![pos].data = rest], pos)
         IN  IF rest = <<>> THEN pfx_table_remove_id(u, pos, s)
             ELSE pfx_table_remove_id(pfx_table_remove_id(u, Left(pos), s), Right(pos), s)

-----------------------------------------------------------------------------
(* Origin validation                                                       *)

pfx_table_elem_matches(node, asn, prefix_len) ==
    \E i \in DOMAIN node.data :
        node.data[i].asn # 0 /\ node.data[i].asn = asn /\ prefix_len <= node.data[i].max_len

\* Faulty variant: only the shortest covering prefix is looked at.
ReasonsFirstOnly(f, t, pos, route) ==
    [state |-> IF pfx_table_elem_matches(t[pos], route.asn, route.len)
               THEN "VALID" ELSE "INVALID",
     reason |-> pfx_table_node2pfx_record(f, t[pos])]

\* The covering nodes from pos on, up to one that matches.
RECURSIVE Reasons(_, _, _, _)
Reasons(f, t, pos, route) ==
    LET here == pfx_table_node2pfx_record(f, t[pos])
        next == trie_lookup(t, Child(pos, route.prefix), route.prefix, route.len)
    IN  IF pfx_table_elem_matches(t[pos], route.asn, route.len)
        THEN [state |-> "VALID", reason |-> here]
        ELSE IF next = NoNode THEN [state |-> "INVALID", reason |-> here]
        ELSE [Reasons(f, t, next, route) EXCEPT !.reason = here \o @]

rtr_pfx_table_validate_r(tab, route) ==
    LET t == tab[route.family]
        pos == trie_lookup(t, Root, route.prefix, route.len)
    IN  IF pos = NoNode THEN [state |-> "NOT_FOUND", reason |-> <<>>]
        ELSE Reasons(route.family, t, pos, route)

-----------------------------------------------------------------------------
(* The threads                                                             *)

Idle == [at |-> "idle"]
Empty == [f \in Family |-> NoTrie]

Init ==
    /\ trie = [t \in Table |-> Empty]
    /\ pc = [s \in Socket |-> Idle]
    /\ told = {}

At(s, at) == pc[s].at = at
Goto(s, to) == pc' = [pc EXCEPT ![s] = to]

\* A reset of s has copied the shared table, or part of it, and not swapped.
Resetting(s) == At(s, "copy") \/ At(s, "fill")
MayChange(s) == Overlap \/ \A t \in Socket \ {s} : ~ Resetting(t)

CanUpdate(s) == (At(s, "idle") /\ MayChange(s)) \/ At(s, "fill")

\* The table an update of s works on.
Target(s) == IF At(s, "fill") THEN s ELSE Shared

\* The shadow table has no callback; the callback of the shared table comes
\* after the lock has been given back.
Update(s, f, t, op, rec) ==
    /\ trie' = [trie EXCEPT ![Target(s)][f] = t]
    /\ IF At(s, "fill") THEN UNCHANGED pc
       ELSE Goto(s, [at |-> "notify", op |-> op, rec |-> rec])
    /\ UNCHANGED told

rtr_pfx_table_add(s, rec) ==
    /\ CanUpdate(s)
    /\ ~ Holds(trie[Target(s)][rec.family], rec)
    /\ Update(s, rec.family, Added(trie[Target(s)][rec.family], rec), "ADD", rec)

rtr_pfx_table_remove(s, rec) ==
    /\ CanUpdate(s)
    /\ Holds(trie[Target(s)][rec.family], rec)
    /\ Update(s, rec.family, Removed(trie[Target(s)][rec.family], rec), "REMOVE", rec)

pfx_table_notify_clients(s) ==
    /\ At(s, "notify")
    /\ told' = IF pc[s].op = "ADD" THEN told \cup {pc[s].rec} ELSE told \ {pc[s].rec}
    /\ Goto(s, Idle)
    /\ UNCHANGED trie

\* Two critical sections, one per family, with the callbacks inside.
rtr_pfx_table_src_remove(s) ==
    LET f == IF At(s, "idle") THEN "ipv4" ELSE "ipv6" IN
    /\ At(s, "idle") \/ At(s, "src_remove")
    /\ MayChange(s)
    /\ trie' = [trie EXCEPT ![Shared][f] = pfx_table_remove_id(@, Root, s)]
    /\ told' = told \ (RecordsOf(f, trie[Shared][f]) \ RecordsOf(f, trie'[Shared][f]))
    /\ Goto(s, IF At(s, "idle") THEN [at |-> "src_remove"] ELSE Idle)

(* A reset: the records of the other sockets are copied, the PDUs of the   *)
(* new data are applied to the copy, and the copy is swapped in.           *)
BeginReset(s) ==
    /\ At(s, "idle")
    /\ Overlap \/ \A t \in Socket \ {s} : ~ Resetting(t) /\ ~ At(t, "diff")
    /\ Goto(s, [at |-> "copy", f |-> "ipv4", locked |-> FALSE])
    /\ UNCHANGED <<trie, told>>

\* Faulty variant: only the IPv4 trie is copied.
CopiedIpv4Only(s, f) == Goto(s, [at |-> "fill"])

Copied(s, f) ==
    Goto(s, IF f = "ipv4" THEN [at |-> "copy", f |-> "ipv6", locked |-> FALSE]
            ELSE [at |-> "fill"])

\* The for_each functions look at the root before they take the lock.
ForEachTest(s) ==
    /\ At(s, "copy") /\ ~ pc[s].locked
    /\ IF trie[Shared][pc[s].f] = NoTrie THEN Copied(s, pc[s].f)
       ELSE Goto(s, [pc[s] EXCEPT !.locked = TRUE])
    /\ UNCHANGED <<trie, told>>

\* The walk asserts that there is a root; without one it does not go on.
pfx_table_copy_except_socket(s) ==
    LET f == pc[s].f
        others == SelectSeq(pfx_table_for_each_rec(f, trie[Shared][f], Root),
                            LAMBDA rec : rec.socket # s)
    IN  /\ At(s, "copy") /\ pc[s].locked
        /\ trie[Shared][f] # NoTrie
        /\ trie' = [trie EXCEPT ![s][f] = FoldLeft(Added, @, others)]
        /\ Copied(s, f)
        /\ UNCHANGED told

\* No memory for the copy, or a PDU that cannot be applied: the shadow table
\* is freed and the shared one stays as it is.
Abandon(s) ==
    /\ Resetting(s)
    /\ trie' = [trie EXCEPT ![s] = Empty]
    /\ Goto(s, Idle)
    /\ UNCHANGED told

pfx_table_swap(s) ==
    /\ At(s, "fill")
    /\ trie' = [trie EXCEPT ![Shared] = trie[s], ![s] = trie[Shared]]
    /\ Goto(s, [at |-> "diff"])
    /\ UNCHANGED told

\* The records of s, in the order of the walks.
MineIn(s, tab) ==
    SelectSeq(pfx_table_for_each_rec("ipv4", tab["ipv4"], Root)
              \o pfx_table_for_each_rec("ipv6", tab["ipv6"], Root),
              LAMBDA rec : rec.socket = s)

\* Faulty variant: what is left in the old table is not withdrawn.
DiffAddsOnly(s) ==
    LET new == MineIn(s, trie[Shared])
    IN  /\ At(s, "diff")
        /\ told' = told \cup {rec \in Range(new) : ~ Holds(trie[s][rec.family], rec)}
        /\ trie' = [trie EXCEPT ![s] = Empty]
        /\ Goto(s, Idle)

\* Every record of s in the new table is removed from the old one, or else is
\* announced; what is left in the old one is withdrawn, and the old table is
\* freed.  The lock is given back in between, but only s changes its records.
pfx_table_notify_diff(s) ==
    LET new == MineIn(s, trie[Shared])
        Without(tab, rec) == IF Holds(tab[rec.family], rec)
                             THEN [tab EXCEPT ![rec.family] = Removed(@, rec)] ELSE tab
        old == FoldLeft(Without, trie[s], new)
        added == {rec \in Range(new) : ~ Holds(trie[s][rec.family], rec)}
    IN  /\ At(s, "diff")
        /\ told' = (told \cup added) \ Range(MineIn(s, old))
        /\ trie' = [trie EXCEPT ![s] = Empty]
        /\ Goto(s, Idle)

\* The records of a trie in the order rtr_pfx_table_free withdraws them: those
\* of the root, then those of the child that took its place.
RECURSIVE FreedFrom(_, _)
FreedFrom(f, t) ==
    IF t = NoTrie THEN <<>>
    ELSE pfx_table_node2pfx_record(f, t[Root]) \o FreedFrom(f, trie_remove(t, Root))

\* The application has stopped the sockets; the next table starts empty.
rtr_pfx_table_free ==
    /\ \A s \in Socket : At(s, "idle")
    /\ trie' = [trie EXCEPT ![Shared] = Empty]
    /\ told' = told \ UNION {Range(FreedFrom(f, trie[Shared][f])) : f \in Family}
    /\ UNCHANGED pc

Next ==
    \/ \E s \in Socket :
          \/ \E rec \in {r \in Record : r.socket = s} :
                rtr_pfx_table_add(s, rec) \/ rtr_pfx_table_remove(s, rec)
          \/ pfx_table_notify_clients(s) \/ rtr_pfx_table_src_remove(s)
          \/ BeginReset(s) \/ ForEachTest(s) \/ pfx_table_copy_except_socket(s) \/ Abandon(s)
          \/ pfx_table_swap(s) \/ pfx_table_notify_diff(s)
    \/ rtr_pfx_table_free

Spec == Init /\ [][Next]_vars

-----------------------------------------------------------------------------
(* Properties                                                              *)

(* The table the threads share is a set of records that changes by one     *)
(* record, by the records of one socket in one family, or by a reset that  *)
(* touches the records of its own socket only, at once.                    *)
Abstract == INSTANCE RecordTable WITH
    records <- RecordsIn(trie[Shared]),
    SocketOf <- [rec \in Record |-> rec.socket],
    PartOf <- [rec \in Record |-> rec.family]
IsRecordTable == Abstract!Spec

(* When rtr_pfx_table_src_remove returns, the table has no record of the   *)
(* socket, of either family, although it gave the lock back in between and *)
(* removals move nodes to places its walk has passed.                      *)
SocketGone ==
    [][\A s \in Socket :
          At(s, "src_remove") /\ pc'[s] = Idle =>
              \A rec \in RecordsIn(trie'[Shared]) : rec.socket # s]_vars

(* The shape the searches of trie.c rely on: a node lies where the bits of *)
(* its prefix lead, not deeper than its prefix is long, below shorter or   *)
(* equally long prefixes, and is the only one for its prefix; it holds at  *)
(* least one element and none twice.  So a search that stops at a longer   *)
(* prefix has missed nothing, and no level exceeds the width of an address.*)
TrieShape ==
    \A t \in Table, f \in Family : LET n == trie[t][f] IN
        \A pos \in DOMAIN n :
            /\ pos # Root => Front(pos) \in DOMAIN n /\ n[Front(pos)].len <= n[pos].len
            /\ Len(pos) <= n[pos].len
            /\ SubSeq(n[pos].prefix, 1, Len(pos)) = pos
            /\ n[pos].data # <<>> /\ IsInjective(n[pos].data)
            /\ \A q \in DOMAIN n \ {pos} : n[q].prefix # n[pos].prefix \/ n[q].len # n[pos].len

(* A lookup finds exactly the records that are in the table, so that       *)
(* duplicate announcements and unknown withdrawals are told apart from     *)
(* good ones (rtr_pfx_table_add, rtr_pfx_table_remove).                    *)
LookupExact ==
    \A t \in Table :
        {rec \in Record : Holds(trie[t][rec.family], rec)} = RecordsIn(trie[t])

Route == {route \in [family : Family, prefix : Prefix, len : 0 .. W,
                      asn : {rec.asn : rec \in Record} \cup {0}] :
             \A i \in route.len + 1 .. W : route.prefix[i] = 0}
CoversRoute(rec, route) ==
    /\ rec.family = route.family
    /\ rec.min_len <= route.len
    /\ \A i \in 1 .. rec.min_len : rec.prefix[i] = route.prefix[i]
Matches(rec, route) == rec.asn # 0 /\ rec.asn = route.asn /\ route.len <= rec.max_len

(* Origin validation gives the verdict of RFC 6811 over the set of         *)
(* records, and the reasons it returns bear it out: a matching record for  *)
(* VALID, all covering records for INVALID, none for NOT_FOUND             *)
(* (rtr_pfx_table_validate_r).                                             *)
ValidateExact ==
    LET present == RecordsIn(trie[Shared]) IN
    \A route \in Route :
        LET covering == {rec \in present : CoversRoute(rec, route)}
            matching == {rec \in covering : Matches(rec, route)}
            v == rtr_pfx_table_validate_r(trie[Shared], route)
        IN  /\ v.state = IF covering = {} THEN "NOT_FOUND"
                         ELSE IF matching = {} THEN "INVALID" ELSE "VALID"
            /\ Range(v.reason) \subseteq covering
            /\ v.state = "VALID" => Range(v.reason) \cap matching # {}
            /\ v.state # "VALID" => Range(v.reason) = covering

(* An application that follows the update callbacks has the records of     *)
(* every socket whose thread is not in the middle of an update, and is     *)
(* never told of an addition or a removal twice.                           *)
ClientFollows ==
    LET present == RecordsIn(trie[Shared]) IN
    \A s \in Socket :
        /\ At(s, "idle") => {rec \in told : rec.socket = s} = {rec \in present : rec.socket = s}
        /\ At(s, "notify") => (pc[s].op = "ADD" <=> pc[s].rec \notin told)
=============================================================================
