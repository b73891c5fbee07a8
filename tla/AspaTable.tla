----------------------------- MODULE AspaTable ------------------------------
(***************************************************************************)
(* The ASPA table (aspa/aspa.c, aspa/aspa_array/aspa_array.c): a list with *)
(* one node per RTR socket, each with an array of records sorted by        *)
(* customer.  An update is computed into a new array that is swapped in or *)
(* thrown away; update_lock is held from the computation until then, by    *)
(* functions that are called one after the other (rtr/packets.c).          *)
(*                                                                         *)
(* What happens under the write lock of the table is one step, and so is   *)
(* each round of the loop that merges the operations into the array.       *)
(* Providers are a set: the code sorts them, and callers cannot tell.      *)
(***************************************************************************)
EXTENDS Integers, SequencesExt

CONSTANTS
    Customer,   \* AS numbers of customers
    Providers,  \* the provider sets that are announced
    Socket,     \* the RTR sockets
    Answer,     \* Answer[s]: what s may receive: operations, and if it is a reset
    ReplaceMore,\* a record may be replaced before the last operation
    Faults      \* "alloc": memory for the records of a new array runs out

Shared == "shared"
Table == {Shared} \cup Socket  \* the shared table, the shadow of each socket
Nobody == "nobody"
Lost == "lost"              \* a lock whose holder has forgotten it

\* The operation of an announcement, which names providers, or a withdrawal.
Op == [type : {"ADD"}, cas : Customer, prov : Providers]
      \cup [type : {"REMOVE"}, cas : Customer, prov : {{}}]

ASSUME TableAssumption ==
    /\ Customer \subseteq Nat
    /\ Shared \notin Socket /\ Nobody \notin Socket /\ Lost \notin Socket
    /\ \A s \in Socket : \A ans \in Answer[s] : ans.reset \in BOOLEAN /\ ans.ops \in Seq(Op)
    /\ ReplaceMore \in BOOLEAN
    /\ Faults \subseteq {"alloc"}

\* A record of an array: live while its provider list is not freed; from is
\* the record of the array before the update that has the same list, or 0.
Entry == [cas : Customer, prov : Providers, live : BOOLEAN, from : Nat]

VARIABLES
    order,      \* order[t]: the sockets in the list of table t
    array,      \* array[t][s]: the array in the node of s
    update_lock,\* update_lock[t]: the socket whose thread holds it, Nobody, Lost
    pc,         \* where the thread of a socket is
    upd,        \* its struct aspa_update, and the state of the loop
    told        \* the records the update callbacks have announced

vars == <<order, array, update_lock, pc, upd, told>>

NoUpdate ==
    [table |-> Shared, batch |-> <<>>, perm |-> <<>>, link |-> Nobody, node |-> Nobody,
     k |-> 1, existing_i |-> 1, new |-> <<>>, freed |-> {}, diff |-> <<>>,
     status |-> "SUCCESS", old |-> <<>>]

Init ==
    /\ order = [t \in Table |-> <<>>]
    /\ array = [t \in Table |-> [s \in Socket |-> <<>>]]
    /\ update_lock = [t \in Table |-> Nobody]
    /\ pc = [s \in Socket |-> "idle"]
    /\ upd = [s \in Socket |-> NoUpdate]
    /\ told = {}

-----------------------------------------------------------------------------
(* The list of nodes                                                       *)

InList(list, s) == \E i \in DOMAIN list : list[i] = s
Index(list, s) == CHOOSE i \in DOMAIN list : list[i] = s
HasNode(t, s) == InList(order[t], s)

\* What aspa_store_get_node returns is the link that leads to the node: the
\* next pointer of the node before it, or (Nobody) the head of the list.
aspa_store_get_node(list, s) ==
    IF list[1] = s THEN Nobody ELSE list[Index(list, s) - 1]

NodeAt(list, link) == IF link = Nobody THEN list[1] ELSE list[Index(list, link) + 1]

aspa_store_create_node(list, s) == Cons(s, list)

aspa_store_remove_node(list, s) ==
    IF InList(list, s) THEN RemoveAt(list, Index(list, s)) ELSE list

Create(list, s) == IF InList(list, s) THEN list ELSE aspa_store_create_node(list, s)

-----------------------------------------------------------------------------
(* Computing an update                                                     *)

\* Faulty variant: the arrival order of operations on a customer is lost.
SortsByCustomer(batch, perm) ==
    /\ IsInjective(perm)
    /\ \A i \in DOMAIN perm : \A j \in DOMAIN perm :
          i < j => batch[perm[i]].cas <= batch[perm[j]].cas

\* perm puts the operations in the order of compare_update_operations.
Sorts(batch, perm) ==
    /\ IsInjective(perm)
    /\ \A i \in DOMAIN perm : \A j \in DOMAIN perm :
          i < j => \/ batch[perm[i]].cas < batch[perm[j]].cas
                   \/ batch[perm[i]].cas = batch[perm[j]].cas /\ perm[i] < perm[j]

\* An announcement replaces a record of the array, and an operation on a
\* larger customer follows.
Replaces(arr, batch) ==
    \E i \in DOMAIN batch :
        /\ batch[i].type = "ADD"
        /\ \E j \in DOMAIN arr : arr[j].cas = batch[i].cas
        /\ \A j \in DOMAIN batch \ {i} : batch[j].cas # batch[i].cas
        /\ \E j \in DOMAIN batch : batch[j].cas > batch[i].cas

\* Up to the point where the node is known; the operations come from the PDUs
\* of an answer, and go to the shadow table when the answer is a reset.
aspa_table_update_swap_in_compute(s) ==
    \E ans \in Answer[s] : LET t == IF ans.reset THEN s ELSE Shared
                                batch == ans.ops IN
        /\ pc[s] = "idle" /\ update_lock[t] = Nobody
        /\ batch # <<>>
        /\ ReplaceMore \/ ~ Replaces(array[t][s], batch)
        /\ \E perm \in [DOMAIN batch -> DOMAIN batch] :
              /\ Sorts(batch, perm)
              /\ upd' = [upd EXCEPT ![s] = [NoUpdate EXCEPT
                    !.table = t, !.batch = batch, !.perm = perm,
                    !.link = aspa_store_get_node(Create(order[t], s), s)]]
        /\ order' = [order EXCEPT ![t] = Create(@, s)]
        /\ update_lock' = [update_lock EXCEPT ![t] = s]
        /\ pc' = [pc EXCEPT ![s] = "populate"]
        /\ UNCHANGED <<array, told>>

Populate(s) ==
    /\ pc[s] = "populate"
    /\ upd' = [upd EXCEPT ![s].node = NodeAt(order[upd[s].table], upd[s].link)]
    /\ pc' = [pc EXCEPT ![s] = "loop"]
    /\ UNCHANGED <<order, array, update_lock, told>>

Arr(s) == array[upd[s].table][upd[s].node]
Count(s) == Len(upd[s].batch)
Operation(s, k) == upd[s].batch[upd[s].perm[k]]
Current(s) == Operation(s, upd[s].k)
Existing(s) == Arr(s)[upd[s].existing_i]

\* The existing record as an entry of another array: the list is shared.
Kept(s, i) == [Arr(s)[i] EXCEPT !.from = i]

BeforeCurrent(s) ==
    upd[s].existing_i <= Len(Arr(s)) /\ Existing(s).cas < Current(s).cas

existing_matches_current(s) ==
    upd[s].existing_i <= Len(Arr(s)) /\ Existing(s).cas = Current(s).cas

NextIs(s, type) ==
    /\ upd[s].k < Count(s)
    /\ Operation(s, upd[s].k + 1).cas = Current(s).cas
    /\ Operation(s, upd[s].k + 1).type = type

\* A round of the loop changes nothing but the update.
Round(s, u) ==
    /\ upd' = [upd EXCEPT ![s] = u]
    /\ UNCHANGED <<order, array, update_lock, told>>

GoOn(s, u) == Round(s, u) /\ UNCHANGED pc

Fail(s, status) ==
    /\ Round(s, [upd[s] EXCEPT !.status = status])
    /\ pc' = [pc EXCEPT ![s] = "computed"]

\* Records untouched by the operations move to the new array.
KeepExisting(s) ==
    /\ pc[s] = "loop" /\ upd[s].k <= Count(s) /\ BeforeCurrent(s)
    /\ GoOn(s, [upd[s] EXCEPT !.existing_i = @ + 1,
                              !.new = Append(@, Kept(s, upd[s].existing_i))])

AtOperation(s, type) ==
    /\ pc[s] = "loop" /\ upd[s].k <= Count(s) /\ ~ BeforeCurrent(s)
    /\ Current(s).type = type

\* The list of the existing record is freed once the update is applied.
Drop(s) == upd[s].freed \cup {upd[s].existing_i}

Notice(type, rec) == [type |-> type, cas |-> rec.cas, prov |-> rec.prov]

AddTwice(s) == AtOperation(s, "ADD") /\ NextIs(s, "ADD") /\ Fail(s, "DUPLICATE")

\* Faulty variant: the pair is a no-op although it removes a record.
AddThenRemoveUntold(s) ==
    /\ AtOperation(s, "ADD") /\ NextIs(s, "REMOVE")
    /\ IF existing_matches_current(s)
       THEN GoOn(s, [upd[s] EXCEPT !.k = @ + 2, !.existing_i = @ + 1, !.freed = Drop(s)])
       ELSE GoOn(s, [upd[s] EXCEPT !.k = @ + 2])

\* The pair removes the existing record, if there is one.
AddThenRemove(s) ==
    /\ AtOperation(s, "ADD") /\ NextIs(s, "REMOVE")
    /\ IF existing_matches_current(s)
       THEN GoOn(s, [upd[s] EXCEPT !.k = @ + 2, !.existing_i = @ + 1, !.freed = Drop(s),
                                   !.diff = Append(@, Notice("REMOVE", Existing(s)))])
       ELSE GoOn(s, [upd[s] EXCEPT !.k = @ + 2])

\* The new record has a provider list of its own.  The record it replaces, if
\* any, is left where it is.
Add(s) ==
    /\ AtOperation(s, "ADD") /\ ~ NextIs(s, "ADD") /\ ~ NextIs(s, "REMOVE")
    /\ GoOn(s, [upd[s] EXCEPT
          !.k = @ + 1,
          !.new = Append(@, [cas |-> Current(s).cas, prov |-> Current(s).prov,
                             live |-> TRUE, from |-> 0]),
          !.freed = IF existing_matches_current(s) THEN Drop(s) ELSE @,
          !.diff = Append(@, Notice("ADD", Current(s)))])

AddFails(s) ==
    /\ "alloc" \in Faults
    /\ AtOperation(s, "ADD") /\ ~ NextIs(s, "ADD") /\ ~ NextIs(s, "REMOVE")
    /\ Fail(s, "ERROR")

RemoveUnknown(s) ==
    /\ AtOperation(s, "REMOVE")
    /\ ~ existing_matches_current(s) \/ NextIs(s, "REMOVE")
    /\ Fail(s, "NOT_FOUND")

\* Faulty variant: the record is passed on by the next round.
RemoveStays(s) ==
    /\ AtOperation(s, "REMOVE") /\ existing_matches_current(s) /\ ~ NextIs(s, "REMOVE")
    /\ GoOn(s, [upd[s] EXCEPT !.k = @ + 1, !.freed = Drop(s),
                              !.diff = Append(@, Notice("REMOVE", Existing(s)))])

RemoveExisting(s) ==
    /\ AtOperation(s, "REMOVE") /\ existing_matches_current(s) /\ ~ NextIs(s, "REMOVE")
    /\ GoOn(s, [upd[s] EXCEPT !.k = @ + 1, !.existing_i = @ + 1, !.freed = Drop(s),
                              !.diff = Append(@, Notice("REMOVE", Existing(s)))])

\* The rest of the array from record i on.
Rest(s, i) == [j \in 1 .. Len(Arr(s)) + 1 - i |-> Kept(s, i - 1 + j)]

\* Faulty variant: a record replaced by the last operation is kept too.
FinishKeepsReplaced(s) ==
    /\ pc[s] = "loop" /\ upd[s].k > Count(s)
    /\ Round(s, [upd[s] EXCEPT !.new = @ \o Rest(s, upd[s].existing_i)])
    /\ pc' = [pc EXCEPT ![s] = "computed"]

\* The rest moves over, but for a record the last operation has replaced.
Finish(s) ==
    LET new == upd[s].new
        e == upd[s].existing_i
        replaced == new # <<>> /\ e <= Len(Arr(s)) /\ new[Len(new)].cas = Arr(s)[e].cas
    IN  /\ pc[s] = "loop" /\ upd[s].k > Count(s)
        /\ Round(s, [upd[s] EXCEPT !.new = @ \o Rest(s, IF replaced THEN e + 1 ELSE e)])
        /\ pc' = [pc EXCEPT ![s] = "computed"]

Compute(s) ==
    \/ KeepExisting(s) \/ AddTwice(s) \/ AddThenRemove(s) \/ Add(s) \/ AddFails(s)
    \/ RemoveUnknown(s) \/ RemoveExisting(s) \/ Finish(s)

-----------------------------------------------------------------------------
(* Applying or discarding it                                               *)

Unlock(t) == update_lock' = [update_lock EXCEPT ![t] = Nobody]

\* The node and the array of a shadow table that is freed.
FreeShadow(s) ==
    /\ order' = [order EXCEPT ![s] = <<>>]
    /\ array' = [array EXCEPT ![s] = [n \in Socket |-> <<>>]]

\* The new array is swapped in and the lock given back.
aspa_table_update_swap_in_apply(s) ==
    /\ pc[s] = "computed" /\ upd[s].status = "SUCCESS"
    /\ array' = [array EXCEPT ![upd[s].table][upd[s].node] = upd[s].new]
    /\ Unlock(upd[s].table)
    /\ pc' = [pc EXCEPT ![s] = "cleanup"]
    /\ UNCHANGED <<order, upd, told>>

\* rtr_compute_update_aspa_table takes an update that failed for want of memory
\* for a good one, and applying it returns at once: nobody gives the lock back.
ApplyNothing(s) ==
    /\ pc[s] = "computed" /\ upd[s].status = "ERROR"
    /\ update_lock' = [update_lock EXCEPT ![upd[s].table] = Lost]
    /\ pc' = [pc EXCEPT ![s] = IF upd[s].table = Shared THEN "idle" ELSE "replace"]
    /\ upd' = [upd EXCEPT ![s] = NoUpdate]
    /\ UNCHANGED <<order, array, told>>

\* Faulty variant: a discarded update keeps the lock.
DiscardLocked(s) ==
    /\ pc[s] = "computed" /\ upd[s].status \in {"DUPLICATE", "NOT_FOUND"}
    /\ IF upd[s].table = Shared THEN UNCHANGED <<order, array>> ELSE FreeShadow(s)
    /\ pc' = [pc EXCEPT ![s] = "idle"]
    /\ upd' = [upd EXCEPT ![s] = NoUpdate]
    /\ UNCHANGED <<update_lock, told>>

\* A reset that cannot be applied ends with its shadow table freed.
aspa_table_update_swap_in_discard(s) ==
    /\ pc[s] = "computed" /\ upd[s].status \in {"DUPLICATE", "NOT_FOUND"}
    /\ Unlock(upd[s].table)
    /\ IF upd[s].table = Shared THEN UNCHANGED <<order, array>> ELSE FreeShadow(s)
    /\ pc' = [pc EXCEPT ![s] = "idle"]
    /\ upd' = [upd EXCEPT ![s] = NoUpdate]
    /\ UNCHANGED told

Told(s, rec) == [socket |-> s, cas |-> rec.cas, prov |-> rec.prov]
ToldOf(s, arr) == {Told(s, arr[i]) : i \in DOMAIN arr}

\* What an application makes of a callback: an addition replaces the record of
\* the customer, a removal names the record removed.
aspa_table_notify_clients(s, known, n) ==
    IF n.type = "ADD"
    THEN {rec \in known : rec.socket # s \/ rec.cas # n.cas} \cup {Told(s, n)}
    ELSE known \ {Told(s, n)}

\* The lists of removed and replaced records are freed.
Freed(arr, freed) == [i \in DOMAIN arr |->
    [arr[i] EXCEPT !.from = 0, !.live = @ /\ arr[i].from \notin freed]]

\* After the lock has been given back: the callbacks, and freeing memory.  A
\* shadow table has no callback.
Cleanup(s) ==
    LET u == upd[s] IN
    /\ pc[s] = "cleanup"
    /\ told' = IF u.table # Shared THEN told
               ELSE FoldLeft(LAMBDA known, n : aspa_table_notify_clients(s, known, n), told, u.diff)
    /\ array' = [array EXCEPT ![u.table][u.node] = Freed(@, u.freed)]
    /\ pc' = [pc EXCEPT ![s] = IF u.table = Shared THEN "idle" ELSE "replace"]
    /\ upd' = [upd EXCEPT ![s] = NoUpdate]
    /\ UNCHANGED <<order, update_lock>>

-----------------------------------------------------------------------------
(* Resets, removal                                                         *)

\* A reset whose answer has no ASPA PDU computes no update.
EmptyReset(s) ==
    /\ pc[s] = "idle" /\ [reset |-> TRUE, ops |-> <<>>] \in Answer[s]
    /\ pc' = [pc EXCEPT ![s] = "replace"]
    /\ UNCHANGED <<order, array, update_lock, upd, told>>

MayReplace(s) == pc[s] = "replace" /\ update_lock[Shared] = Nobody /\ update_lock[s] = Nobody

\* Faulty variant: the stores of the two tables are exchanged as a whole.
ReplaceStore(s) ==
    /\ MayReplace(s) /\ HasNode(s, s)
    /\ upd' = [upd EXCEPT ![s].old = array[Shared][s]]
    /\ order' = [order EXCEPT ![Shared] = order[s], ![s] = <<>>]
    /\ array' = [array EXCEPT ![Shared] = array[s], ![s] = [n \in Socket |-> <<>>]]
    /\ pc' = [pc EXCEPT ![s] = "notify"]
    /\ UNCHANGED <<update_lock, told>>

\* All locks are held together; the callbacks come after they are given back.
aspa_table_src_replace(s) ==
    /\ MayReplace(s) /\ HasNode(s, s)
    /\ upd' = [upd EXCEPT ![s].old = array[Shared][s]]
    /\ order' = [order EXCEPT ![Shared] = Create(@, s), ![s] = <<>>]
    /\ array' = [array EXCEPT ![Shared][s] = array[s][s],
                              ![s] = [n \in Socket |-> <<>>]]
    /\ pc' = [pc EXCEPT ![s] = "notify"]
    /\ UNCHANGED <<update_lock, told>>

\* There is nothing to replace the records with, or no memory for a node; the
\* result is not looked at, and the shadow table is freed.
ReplaceFails(s) ==
    /\ MayReplace(s)
    /\ ~ HasNode(s, s) \/ ("alloc" \in Faults /\ ~ HasNode(Shared, s))
    /\ FreeShadow(s)
    /\ pc' = [pc EXCEPT ![s] = "idle"]
    /\ UNCHANGED <<update_lock, upd, told>>

NotifyReplaced(s) ==
    /\ pc[s] = "notify"
    /\ told' = (told \ ToldOf(s, upd[s].old)) \cup ToldOf(s, array[Shared][s])
    /\ pc' = [pc EXCEPT ![s] = "idle"]
    /\ upd' = [upd EXCEPT ![s] = NoUpdate]
    /\ UNCHANGED <<order, array, update_lock>>

\* Faulty variant: the removal does not wait for updates under way.
SrcRemoveUnlocked(s) ==
    /\ pc[s] = "idle"
    /\ order' = [order EXCEPT ![Shared] = aspa_store_remove_node(@, s)]
    /\ array' = [array EXCEPT ![Shared][s] = <<>>]
    /\ told' = told \ ToldOf(s, array[Shared][s])
    /\ UNCHANGED <<update_lock, pc, upd>>

\* The callbacks come while both locks are held.
rtr_aspa_table_src_remove(s) ==
    /\ pc[s] = "idle" /\ update_lock[Shared] = Nobody
    /\ order' = [order EXCEPT ![Shared] = aspa_store_remove_node(@, s)]
    /\ array' = [array EXCEPT ![Shared][s] = <<>>]
    /\ told' = told \ ToldOf(s, array[Shared][s])
    /\ UNCHANGED <<update_lock, pc, upd>>

\* The application has stopped the sockets; the next table starts empty.
rtr_aspa_table_free ==
    /\ update_lock[Shared] = Nobody
    /\ \A s \in Socket : pc[s] = "idle"
    /\ order' = [order EXCEPT ![Shared] = <<>>]
    /\ array' = [array EXCEPT ![Shared] = [s \in Socket |-> <<>>]]
    /\ told' = told \ UNION {ToldOf(s, array[Shared][s]) : s \in Socket}
    /\ UNCHANGED <<update_lock, pc, upd>>

\* The steps of the thread of s that finish what it has begun.
Carry(s) ==
    \/ Populate(s) \/ Compute(s)
    \/ aspa_table_update_swap_in_apply(s) \/ ApplyNothing(s)
    \/ aspa_table_update_swap_in_discard(s) \/ Cleanup(s)
    \/ aspa_table_src_replace(s) \/ ReplaceFails(s) \/ NotifyReplaced(s)

Next ==
    \/ \E s \in Socket : \/ aspa_table_update_swap_in_compute(s) \/ EmptyReset(s)
                         \/ Carry(s) \/ rtr_aspa_table_src_remove(s)
    \/ rtr_aspa_table_free

Spec == Init /\ [][Next]_vars

\* A thread goes on with what it is doing; whether it gets a lock others take
\* again and again is not assumed.
FairSpec == Spec /\ \A s \in Socket : WF_vars(Carry(s))

-----------------------------------------------------------------------------
(* Properties                                                              *)

Record == [socket : Socket, cas : Customer, prov : Providers]
RecordsIn == UNION {ToldOf(s, array[Shared][s]) : s \in Socket}

(* The table the threads share is a set of records in which an update, a   *)
(* reset or a removal changes the records of its own socket only, all of   *)
(* them at once (aspa_table_update_swap_in_apply, aspa_table_src_replace). *)
Abstract == INSTANCE RecordTable WITH
    records <- RecordsIn,
    SocketOf <- [rec \in Record |-> rec.socket],
    PartOf <- [rec \in Record |-> "aspa"]
IsRecordTable == Abstract!Spec

\* What becomes of the record of customer c, operation by operation in the
\* order of their arrival.
RefStep(st, op) ==
    IF st.status # "SUCCESS" THEN st
    ELSE IF op.type = "ADD"
    THEN IF st.added THEN [st EXCEPT !.status = "DUPLICATE"]
         ELSE [st EXCEPT !.prov = {op.prov}, !.added = TRUE]
    ELSE IF st.prov = {} THEN [st EXCEPT !.status = "NOT_FOUND"]
         ELSE [st EXCEPT !.prov = {}, !.added = FALSE]

Reference(arr, batch, c) ==
    FoldLeft(RefStep,
             [prov |-> {arr[i].prov : i \in {j \in DOMAIN arr : arr[j].cas = c}},
              added |-> FALSE, status |-> "SUCCESS"],
             SelectSeq(batch, LAMBDA op : op.cas = c))

(* Merging sorted operations into the sorted array comes to the same as    *)
(* carrying them out one by one in the order of arrival: the same records, *)
(* and the same complaint (of the smallest customer there is one about)    *)
(* where one is announced twice or an unknown one withdrawn                *)
(* (aspa_table_update_compute_internal).  A customer that is in the table  *)
(* already is no duplicate: its record is replaced, as aspa.h:57-59 says,  *)
(* although aspa_private.h:46-47 and 195-196 name a duplicate there.       *)
ComputeExact ==
    \A s \in Socket : pc[s] = "computed" /\ upd[s].status # "ERROR" =>
        LET new == upd[s].new
            ref == [c \in Customer |-> Reference(Arr(s), upd[s].batch, c)]
            wrong == {c \in Customer : ref[c].status # "SUCCESS"}
        IN  /\ upd[s].status = IF wrong = {} THEN "SUCCESS" ELSE ref[Min(wrong)].status
            /\ wrong = {} => {<<new[i].cas, new[i].prov>> : i \in DOMAIN new}
                             = UNION {{<<c, p>> : p \in ref[c].prov} : c \in Customer}

(* Every array is sorted by customer without duplicates, as the binary     *)
(* search of aspa_array_search and the merge of the next update need it.   *)
ArraysSorted ==
    \A t \in Table, s \in Socket : LET arr == array[t][s] IN
        \A i \in DOMAIN arr : \A j \in DOMAIN arr : i < j => arr[i].cas < arr[j].cas

(* No array holds a record whose provider list has been freed: an update   *)
(* frees exactly the lists that did not move to the new array              *)
(* (aspa_table_update_swap_in_consume).                                    *)
NoDangling ==
    \A t \in Table, s \in Socket : \A i \in DOMAIN array[t][s] : array[t][s][i].live

\* A link of a list that leads to the node of s.
LeadsTo(list, link, s) ==
    /\ list # <<>>
    /\ link # Nobody => \E i \in DOMAIN list : list[i] = link /\ i < Len(list)
    /\ NodeAt(list, link) = s

(* The link to its node that a thread found in the list before it computes *)
(* an update still leads there when it is followed, although the lock of   *)
(* the table was given back in between (aspa_table_update_swap_in_compute).*)
LinkHolds ==
    \A s \in Socket : pc[s] = "populate" => LeadsTo(order[upd[s].table], upd[s].link, s)

(* An application that follows the update callbacks has the records of     *)
(* every socket whose thread is not in the middle of an update.            *)
ClientFollows ==
    \A s \in Socket :
        pc[s] = "idle" => {rec \in told : rec.socket = s} = ToldOf(s, array[Shared][s])

(* Whoever takes the update lock gives it back, so that updates, resets    *)
(* and the removal of the records of a socket never wait for ever; only    *)
(* when an update runs out of memory the lock is lost (ApplyNothing).      *)
LockReleased ==
    \A t \in Table, s \in Socket : update_lock[t] = s ~> update_lock[t] # s
=============================================================================
