-------------------------- MODULE AspaTableProofs ---------------------------
(***************************************************************************)
(* The update lock of the ASPA table protects what an update relies on,    *)
(* and the table is the record table of RecordTable: for any number of     *)
(* sockets, customers and operations.                                      *)
(***************************************************************************)
EXTENDS AspaTable, SequenceTheorems, TLAPS

\* A list of nodes: no socket has two.
List(list) == list \in Seq(Socket) /\ IsInjective(list)

\* A new node goes in front; the list stays a list.
LEMMA CreateList ==
    ASSUME NEW list, List(list), NEW s \in Socket
    PROVE  List(Create(list, s)) /\ InList(Create(list, s), s)
  <1>1. CASE InList(list, s)
    BY <1>1 DEF Create
  <1>2. CASE ~ InList(list, s)
    <2>1. <<s>> \in Seq(Socket) /\ Len(<<s>>) = 1 /\ <<s>>[1] = s
      OBVIOUS
    <2> DEFINE new == <<s>> \o list
    <2>2. list \in Seq(Socket) BY DEF List
    <2>3. /\ new \in Seq(Socket)
          /\ Len(new) = 1 + Len(list)
          /\ \A i \in 1 .. 1 + Len(list) : new[i] = IF i <= 1 THEN <<s>>[i] ELSE list[i - 1]
      BY <2>1, <2>2, ConcatProperties
    <2>4. new[1] = s /\ \A i \in 2 .. 1 + Len(list) : new[i] = list[i - 1]
      BY <2>1, <2>2, <2>3
    <2>5. Create(list, s) = new
      BY <1>2 DEF Create, aspa_store_create_node, Cons
    <2> HIDE DEF new
    <2>6. DOMAIN new = 1 .. 1 + Len(list) BY <2>2, <2>3
    <2>7. IsInjective(new)
      BY <1>2, <2>2, <2>4, <2>6 DEF IsInjective, List, InList
    <2> QED BY <2>2, <2>3, <2>4, <2>5, <2>6, <2>7 DEF List, InList
  <1> QED BY <1>1, <1>2

\* Taking a node out leaves a list.
LEMMA RemoveList ==
    ASSUME NEW list, List(list), NEW s \in Socket
    PROVE  List(aspa_store_remove_node(list, s))
  <1>1. CASE ~ InList(list, s)
    BY <1>1 DEF aspa_store_remove_node
  <1>2. CASE InList(list, s)
    <2> DEFINE i == Index(list, s)
               a == SubSeq(list, 1, i - 1)
               b == SubSeq(list, i + 1, Len(list))
    <2>1. i \in DOMAIN list BY <1>2 DEF Index, InList
    <2>2. list \in Seq(Socket) /\ Len(list) \in Nat /\ DOMAIN list = 1 .. Len(list) BY DEF List
    <2> HIDE DEF i
    <2>3. /\ a \in Seq(Socket) /\ Len(a) = i - 1
          /\ \A j \in 1 .. i - 1 : a[j] = list[j]
      <3>1. \A j \in 1 .. i - 1 : list[j] \in Socket BY <2>1, <2>2
      <3>2. 1 \in Int /\ i - 1 \in Int BY <2>1, <2>2
      <3>3. /\ a \in Seq(Socket)
            /\ Len(a) = IF 1 <= i - 1 THEN i - 1 - 1 + 1 ELSE 0
            /\ \A j \in 1 .. i - 1 - 1 + 1 : a[j] = list[1 + j - 1]
        BY <3>1, <3>2, SubSeqProperties
      <3> QED BY <2>1, <2>2, <3>3
    <2>4. /\ b \in Seq(Socket) /\ Len(b) = Len(list) - i
          /\ \A j \in 1 .. Len(list) - i : b[j] = list[i + j]
      <3>1. \A j \in i + 1 .. Len(list) : list[j] \in Socket BY <2>1, <2>2
      <3>2. i + 1 \in Int /\ Len(list) \in Int BY <2>1, <2>2
      <3>3. /\ b \in Seq(Socket)
            /\ Len(b) = IF i + 1 <= Len(list) THEN Len(list) - (i + 1) + 1 ELSE 0
            /\ \A j \in 1 .. Len(list) - (i + 1) + 1 : b[j] = list[i + 1 + j - 1]
        BY <3>1, <3>2, SubSeqProperties
      <3> QED BY <2>1, <2>2, <3>3
    <2>5. aspa_store_remove_node(list, s) = a \o b
      BY <1>2, Zenon DEF aspa_store_remove_node, RemoveAt, i
    <2> HIDE DEF a, b
    <2> DEFINE new == a \o b
    <2>6. /\ new \in Seq(Socket)
          /\ Len(new) = Len(a) + Len(b)
          /\ \A j \in 1 .. Len(a) + Len(b) : new[j] = IF j <= Len(a) THEN a[j] ELSE b[j - Len(a)]
      BY <2>3, <2>4, ConcatProperties, Zenon
    <2> HIDE DEF new
    <2>7. DOMAIN new = 1 .. Len(list) - 1 BY <2>1, <2>2, <2>3, <2>4, <2>6
    <2>8. \A j \in DOMAIN new : new[j] = IF j < i THEN list[j] ELSE list[j + 1]
      <3> TAKE j \in DOMAIN new
      <3>1. j \in 1 .. Len(list) - 1 /\ i \in 1 .. Len(list) BY <2>1, <2>2, <2>7
      <3>2. CASE j < i
        <4>1. j \in 1 .. i - 1 /\ j \in 1 .. Len(a) + Len(b) /\ j <= Len(a)
          BY <2>2, <2>3, <2>4, <3>1, <3>2
        <4>2. new[j] = a[j] BY <2>6, <4>1
        <4> QED BY <2>3, <3>2, <4>1, <4>2
      <3>3. CASE ~ (j < i)
        <4>1. /\ j \in 1 .. Len(a) + Len(b) /\ ~ (j <= Len(a))
              /\ j - Len(a) \in 1 .. Len(list) - i /\ i + (j - Len(a)) = j + 1
          BY <2>2, <2>3, <2>4, <3>1, <3>3
        <4>2. new[j] = b[j - Len(a)] BY <2>6, <4>1
        <4> QED BY <2>4, <3>3, <4>1, <4>2
      <3> QED BY <3>2, <3>3
    <2>9. IsInjective(new)
      BY <2>1, <2>2, <2>7, <2>8 DEF IsInjective, List
    <2> QED BY <2>5, <2>6, <2>9 DEF List, new
  <1> QED BY <1>1, <1>2

\* The link that is found leads to the node it was looked up for.
LEMMA LinkLeads ==
    ASSUME NEW list, List(list), NEW s \in Socket, InList(list, s)
    PROVE  LeadsTo(list, aspa_store_get_node(list, s), s)
  <1> DEFINE i == Index(list, s)
  <1>1. i \in DOMAIN list /\ list[i] = s BY DEF Index, InList
  <1>2. list \in Seq(Socket) /\ Len(list) \in Nat /\ DOMAIN list = 1 .. Len(list) BY DEF List
  <1>3. CASE list[1] = s
    BY <1>1, <1>2, <1>3 DEF LeadsTo, NodeAt, aspa_store_get_node
  <1>4. CASE list[1] # s
    <2> DEFINE p == list[i - 1]
    <2>1. i - 1 \in DOMAIN list /\ i - 1 < Len(list) BY <1>1, <1>2, <1>4
    <2>2. p \in Socket /\ p # Nobody BY <1>2, <2>1, TableAssumption
    <2>3. aspa_store_get_node(list, s) = p BY <1>4 DEF aspa_store_get_node
    <2>4. Index(list, p) \in DOMAIN list /\ list[Index(list, p)] = p BY <2>1, Zenon DEF Index
    <2>5. Index(list, p) = i - 1 BY <2>1, <2>4 DEF List, IsInjective
    <2>6. NodeAt(list, p) = s BY <1>1, <1>2, <2>2, <2>5 DEF NodeAt
    <2> QED BY <1>1, <1>2, <2>1, <2>2, <2>3, <2>6 DEF LeadsTo
  <1> QED BY <1>3, <1>4

-----------------------------------------------------------------------------
(* The invariant                                                           *)

Notices == [type : {"ADD", "REMOVE"}, cas : Customer, prov : Providers]

Update == [table : Table, batch : Seq(Op), perm : Seq(Nat), link : Socket \cup {Nobody},
           node : Socket \cup {Nobody}, k : Nat \ {0}, existing_i : Nat \ {0}, new : Seq(Entry),
           freed : SUBSET Nat, diff : Seq(Notices),
           status : {"SUCCESS", "DUPLICATE", "NOT_FOUND", "ERROR"}, old : Seq(Entry)]

\* The type invariant: lists have no socket twice, arrays hold entries, and the
\* update lock of a shadow table belongs to its socket.
TypeOK ==
    /\ \A t \in Table : List(order[t])
    /\ order = [t \in Table |-> order[t]]
    /\ array \in [Table -> [Socket -> Seq(Entry)]]
    /\ update_lock \in [Table -> Socket \cup {Nobody, Lost}]
    /\ \A s \in Socket : update_lock[s] \in {s, Nobody, Lost}
    /\ pc \in [Socket -> {"idle", "populate", "loop", "computed", "cleanup", "replace", "notify"}]
    /\ upd \in [Socket -> Update]

\* A thread in the middle of an update works on the shared table or on its own
\* shadow table, holds the update lock until the update is applied, and has
\* found its node.
Working(s) ==
    /\ upd[s].table \in {Shared, s}
    /\ pc[s] \in {"populate", "loop", "computed"} => update_lock[upd[s].table] = s
    /\ pc[s] = "populate" => LeadsTo(order[upd[s].table], upd[s].link, s)
    /\ pc[s] \in {"loop", "computed", "cleanup"} => upd[s].node = s
    /\ \A k \in 1 .. Len(upd[s].batch) : upd[s].perm[k] \in 1 .. Len(upd[s].batch)

IInv == TypeOK /\ \A s \in Socket : Working(s)

\* The shared table is not the shadow of a socket.
LEMMA Names == /\ Shared \in Table /\ Shared \notin Socket
               /\ \A s \in Socket : s \in Table /\ s # Nobody /\ s # Lost
  BY TableAssumption DEF Table

\* A thread that does not move keeps its part of the invariant as long as the
\* tables it has locked stay as they are.
LEMMA OthersWork ==
    ASSUME IInv, NEW r \in Socket, pc'[r] = pc[r], upd'[r] = upd[r],
           \A t \in Table : update_lock[t] = r => update_lock'[t] = r /\ order'[t] = order[t]
    PROVE  Working(r)'
  <1>1. Working(r) /\ upd[r].table \in Table BY Names DEF IInv, Working
  <1>2. pc[r] \in {"populate", "loop", "computed"} =>
            /\ update_lock'[upd'[r].table] = r
            /\ order'[upd'[r].table] = order[upd[r].table]
    BY <1>1 DEF Working
  <1> QED BY <1>1, <1>2 DEF Working

\* An empty update is an update.
LEMMA NoUpdateType == NoUpdate \in Update
  BY Names DEF NoUpdate, Update

\* A thread that is idle again has nothing left of its update.
LEMMA AtRest ==
    ASSUME IInv, NEW s \in Socket, upd' = [upd EXCEPT ![s] = NoUpdate],
           pc'[s] \in {"idle", "replace"}
    PROVE  Working(s)'
  <1>1. upd'[s] = NoUpdate BY DEF IInv, TypeOK
  <1> QED BY <1>1 DEF Working, NoUpdate

\* The initial state satisfies the invariant.
LEMMA InitInv == ASSUME Init PROVE IInv
  <1>1. List(<<>>) BY DEF List, IsInjective
  <1>2. TypeOK
    BY <1>1, Names, NoUpdateType DEF Init, TypeOK
  <1>3. \A s \in Socket : Working(s)
    BY DEF Init, Working, NoUpdate
  <1> QED BY <1>2, <1>3 DEF IInv

\* Taking the lock and finding, or making, the node.
LEMMA ComputeStep ==
    ASSUME IInv, NEW s \in Socket, aspa_table_update_swap_in_compute(s)
    PROVE  IInv'
  <1>1. PICK ans \in Answer[s] : LET t == IF ans.reset THEN s ELSE Shared IN
           /\ pc[s] = "idle" /\ update_lock[t] = Nobody
           /\ \E perm \in [DOMAIN ans.ops -> DOMAIN ans.ops] :
                 upd' = [upd EXCEPT ![s] = [NoUpdate EXCEPT
                    !.table = t, !.batch = ans.ops, !.perm = perm,
                    !.link = aspa_store_get_node(Create(order[t], s), s)]]
           /\ order' = [order EXCEPT ![t] = Create(@, s)]
           /\ update_lock' = [update_lock EXCEPT ![t] = s]
           /\ pc' = [pc EXCEPT ![s] = "populate"]
           /\ array' = array
    BY Zenon DEF aspa_table_update_swap_in_compute
  <1> DEFINE t == IF ans.reset THEN s ELSE Shared
             batch == ans.ops
             list == Create(order[t], s)
             link == aspa_store_get_node(list, s)
  <1>2. batch \in Seq(Op) /\ Len(batch) \in Nat /\ DOMAIN batch = 1 .. Len(batch)
    BY TableAssumption
  <1>3. PICK perm \in [1 .. Len(batch) -> 1 .. Len(batch)] :
           upd' = [upd EXCEPT ![s] = [NoUpdate EXCEPT
              !.table = t, !.batch = batch, !.perm = perm, !.link = link]]
    BY <1>1, <1>2, Zenon
  <1>4. t \in Table /\ t \in {Shared, s} BY Names
  <1>5. /\ pc[s] = "idle" /\ update_lock[t] = Nobody /\ array' = array
        /\ order' = [order EXCEPT ![t] = list]
        /\ update_lock' = [update_lock EXCEPT ![t] = s]
        /\ pc' = [pc EXCEPT ![s] = "populate"]
    BY <1>1
  <1>6. List(order[t]) BY <1>4 DEF IInv, TypeOK
  <1> HIDE DEF t
  <1>7. List(list) /\ InList(list, s) BY <1>6, CreateList
  <1>8. LeadsTo(list, link, s) BY <1>7, LinkLeads
  <1>9. link \in Socket \cup {Nobody}
    <2> list \in Seq(Socket) BY <1>7 DEF List
    <2>1. list[1] # s => Index(list, s) - 1 \in DOMAIN list
      <3>1. Index(list, s) \in DOMAIN list /\ list[Index(list, s)] = s
        BY <1>7, Zenon DEF InList, Index
      <3> QED BY <3>1
    <2> QED BY <2>1 DEF aspa_store_get_node
  <1> HIDE DEF list, link, batch
  <1> DEFINE u == [NoUpdate EXCEPT !.table = t, !.batch = batch, !.perm = perm, !.link = link]
  <1>10. perm \in Seq(Nat) BY <1>2
  <1>11. u \in Update /\ u.table = t /\ u.batch = batch /\ u.perm = perm /\ u.link = link
    BY <1>2, <1>4, <1>9, <1>10, NoUpdateType, Zenon DEF Update, NoUpdate
  <1> HIDE DEF u
  <1>12. upd' = [upd EXCEPT ![s] = u] BY <1>3 DEF u
  <1>13. TypeOK'
    <2>1. \A x \in Table : List(order'[x]) BY <1>4, <1>5, <1>7 DEF IInv, TypeOK
    <2>2. order' = [x \in Table |-> order'[x]] BY <1>4, <1>5, Zenon DEF IInv, TypeOK
    <2>3. array' \in [Table -> [Socket -> Seq(Entry)]] BY <1>5 DEF IInv, TypeOK
    <2>4. update_lock' \in [Table -> Socket \cup {Nobody, Lost}] BY <1>4, <1>5 DEF IInv, TypeOK
    <2>5. \A x \in Socket : update_lock'[x] \in {x, Nobody, Lost}
      BY <1>4, <1>5, Names DEF IInv, TypeOK
    <2>6. upd' \in [Socket -> Update] BY <1>11, <1>12 DEF IInv, TypeOK
    <2>7. pc' \in [Socket -> {"idle", "populate", "loop", "computed", "cleanup", "replace", "notify"}]
      BY <1>5 DEF IInv, TypeOK
    <2> QED BY <2>1, <2>2, <2>3, <2>4, <2>5, <2>6, <2>7 DEF TypeOK
  <1>14. Working(s)'
    <2>1. upd'[s] = u /\ pc'[s] = "populate" /\ update_lock'[t] = s /\ order'[t] = list
      BY <1>4, <1>5, <1>12 DEF IInv, TypeOK
    <2>2. \A k \in 1 .. Len(batch) : perm[k] \in 1 .. Len(batch) OBVIOUS
    <2> QED BY <1>4, <1>8, <1>11, <2>1, <2>2 DEF Working
  <1>15. \A r \in Socket \ {s} : Working(r)'
    <2> TAKE r \in Socket \ {s}
    <2>1. pc'[r] = pc[r] /\ upd'[r] = upd[r] BY <1>5, <1>12 DEF IInv, TypeOK
    <2>2. \A x \in Table : update_lock[x] = r => update_lock'[x] = r /\ order'[x] = order[x]
      BY <1>4, <1>5, Names DEF IInv, TypeOK
    <2> QED BY <2>1, <2>2, OthersWork
  <1> QED BY <1>13, <1>14, <1>15 DEF IInv

\* A thread that changes nothing but its update and its place.
LEMMA PrivateStep ==
    ASSUME IInv, NEW s \in Socket, NEW u \in Update, upd' = [upd EXCEPT ![s] = u],
           pc'[s] \in {"idle", "populate", "loop", "computed", "cleanup", "replace", "notify"},
           pc' = [pc EXCEPT ![s] = pc'[s]],
           UNCHANGED <<order, array, update_lock>>, Working(s)'
    PROVE  IInv'
  <1>1. upd' \in [Socket -> Update] BY DEF IInv, TypeOK
  <1>2. pc' \in [Socket -> {"idle", "populate", "loop", "computed", "cleanup", "replace", "notify"}]
    BY Zenon DEF IInv, TypeOK
  <1>3. TypeOK' BY <1>1, <1>2, Zenon DEF IInv, TypeOK
  <1>4. \A r \in Socket \ {s} : Working(r)'
    <2> TAKE r \in Socket \ {s}
    <2>1. pc'[r] = pc[r] /\ upd'[r] = upd[r] BY DEF IInv, TypeOK
    <2> QED BY <2>1, OthersWork
  <1> QED BY <1>3, <1>4 DEF IInv

\* Following the link leads to the node of the thread's own socket.
LEMMA PopulateStep == ASSUME IInv, NEW s \in Socket, Populate(s) PROVE IInv'
  <1>1. NodeAt(order[upd[s].table], upd[s].link) = s
    BY DEF IInv, Working, Populate, LeadsTo
  <1> DEFINE u == [upd[s] EXCEPT !.node = s]
  <1>2. /\ upd' = [upd EXCEPT ![s] = u]
        /\ pc' = [pc EXCEPT ![s] = "loop"]
        /\ UNCHANGED <<order, array, update_lock>>
    BY <1>1 DEF Populate
  <1>3. upd[s] \in Update BY DEF IInv, TypeOK
  <1>4. /\ u \in Update /\ u.table = upd[s].table /\ u.node = s
        /\ u.batch = upd[s].batch /\ u.perm = upd[s].perm
    BY <1>3, Zenon DEF Update
  <1> HIDE DEF u
  <1>5. upd'[s] = u /\ pc'[s] = "loop" BY <1>2 DEF IInv, TypeOK
  <1>6. /\ upd[s].table \in {Shared, s} /\ update_lock[upd[s].table] = s
        /\ \A k \in 1 .. Len(upd[s].batch) : upd[s].perm[k] \in 1 .. Len(upd[s].batch)
    BY DEF IInv, Working, Populate
  <1>7. Working(s)'
    BY <1>2, <1>4, <1>5, <1>6 DEF Working
  <1> QED BY <1>2, <1>4, <1>5, <1>7, PrivateStep, Zenon

\* A round of the loop keeps the invariant if what it computes is an update of
\* the same node by the same operations.
LEMMA RoundStep ==
    ASSUME IInv, NEW s \in Socket, pc[s] = "loop", NEW u \in Update, Round(s, u),
           u.table = upd[s].table, u.node = upd[s].node,
           u.batch = upd[s].batch, u.perm = upd[s].perm,
           pc' = pc \/ pc' = [pc EXCEPT ![s] = "computed"]
    PROVE  IInv'
  <1>1. /\ upd' = [upd EXCEPT ![s] = u]
        /\ UNCHANGED <<order, array, update_lock>>
    BY DEF Round
  <1>2. /\ upd'[s] = u /\ pc'[s] \in {"loop", "computed"}
        /\ pc' = [pc EXCEPT ![s] = pc'[s]]
    BY <1>1 DEF IInv, TypeOK
  <1>3. Working(s)' BY <1>1, <1>2 DEF IInv, Working
  <1> QED BY <1>1, <1>2, <1>3, PrivateStep, Zenon

\* What the loop reads: the array of its own socket and well-formed operations.
LEMMA LoopReads ==
    ASSUME IInv, NEW s \in Socket, pc[s] = "loop"
    PROVE  /\ upd[s] \in Update
           /\ upd[s].k \in Nat \ {0} /\ upd[s].existing_i \in Nat \ {0}
           /\ upd[s].new \in Seq(Entry) /\ upd[s].diff \in Seq(Notices)
           /\ upd[s].freed \in SUBSET Nat
           /\ Arr(s) \in Seq(Entry)
           /\ upd[s].k <= Count(s) => Current(s) \in Op
  <1>1. upd[s] \in Update BY DEF IInv, TypeOK
  <1>2. /\ upd[s].k \in Nat \ {0} /\ upd[s].existing_i \in Nat \ {0}
        /\ upd[s].new \in Seq(Entry) /\ upd[s].diff \in Seq(Notices)
        /\ upd[s].freed \in SUBSET Nat /\ upd[s].batch \in Seq(Op) /\ upd[s].table \in Table
    BY <1>1 DEF Update
  <1>3. Arr(s) \in Seq(Entry)
    BY <1>2 DEF Arr, IInv, TypeOK, Working
  <1>4. upd[s].k <= Count(s) => Current(s) \in Op
    <2>1. \A k \in 1 .. Len(upd[s].batch) : upd[s].perm[k] \in 1 .. Len(upd[s].batch)
      BY DEF IInv, Working
    <2> QED BY <1>2, <2>1 DEF Current, Operation, Count
  <1> QED BY <1>1, <1>2, <1>3, <1>4

\* Records that are kept move from one array to the other.
LEMMA KeptType ==
    ASSUME IInv, NEW s \in Socket, pc[s] = "loop", NEW i \in 1 .. Len(Arr(s))
    PROVE  Kept(s, i) \in Entry
  <1>1. Arr(s)[i] \in Entry /\ i \in Nat BY LoopReads
  <1> QED BY <1>1 DEF Kept, Entry

\* A notice about an existing record is well-formed, and its index a number.
LEMMA DropType ==
    ASSUME IInv, NEW s \in Socket, pc[s] = "loop", upd[s].existing_i <= Len(Arr(s))
    PROVE  Notice("REMOVE", Existing(s)) \in Notices /\ Drop(s) \in SUBSET Nat
  <1>1. Existing(s) \in Entry BY LoopReads DEF Existing
  <1>2. Drop(s) \in SUBSET Nat BY LoopReads DEF Drop
  <1> QED BY <1>1, <1>2 DEF Notice, Notices, Entry

\* A second announcement of a customer ends the loop.
LEMMA AddTwiceStep == ASSUME IInv, NEW s \in Socket, AddTwice(s) PROVE IInv'
  <1> DEFINE u == [upd[s] EXCEPT !.status = "DUPLICATE"]
  <1>1. pc[s] = "loop" /\ Round(s, u) /\ pc' = [pc EXCEPT ![s] = "computed"]
    BY DEF AddTwice, AtOperation, Fail
  <1>2. upd[s] \in Update BY <1>1, LoopReads
  <1>3. "DUPLICATE" \in {"SUCCESS", "DUPLICATE", "NOT_FOUND", "ERROR"} OBVIOUS
  <1>4. /\ u \in Update /\ u.table = upd[s].table /\ u.node = upd[s].node
        /\ u.batch = upd[s].batch /\ u.perm = upd[s].perm
    BY <1>2, <1>3, Zenon DEF Update
  <1> HIDE DEF u
  <1> QED BY <1>1, <1>4, RoundStep, Zenon

\* So does missing memory.
LEMMA AddFailsStep == ASSUME IInv, NEW s \in Socket, AddFails(s) PROVE IInv'
  <1> DEFINE u == [upd[s] EXCEPT !.status = "ERROR"]
  <1>1. pc[s] = "loop" /\ Round(s, u) /\ pc' = [pc EXCEPT ![s] = "computed"]
    BY DEF AddFails, AtOperation, Fail
  <1>2. upd[s] \in Update BY <1>1, LoopReads
  <1>3. "ERROR" \in {"SUCCESS", "DUPLICATE", "NOT_FOUND", "ERROR"} OBVIOUS
  <1>4. /\ u \in Update /\ u.table = upd[s].table /\ u.node = upd[s].node
        /\ u.batch = upd[s].batch /\ u.perm = upd[s].perm
    BY <1>2, <1>3, Zenon DEF Update
  <1> HIDE DEF u
  <1> QED BY <1>1, <1>4, RoundStep, Zenon

\* So does the withdrawal of an unknown customer.
LEMMA RemoveUnknownStep == ASSUME IInv, NEW s \in Socket, RemoveUnknown(s) PROVE IInv'
  <1> DEFINE u == [upd[s] EXCEPT !.status = "NOT_FOUND"]
  <1>1. pc[s] = "loop" /\ Round(s, u) /\ pc' = [pc EXCEPT ![s] = "computed"]
    BY DEF RemoveUnknown, AtOperation, Fail
  <1>2. upd[s] \in Update BY <1>1, LoopReads
  <1>3. "NOT_FOUND" \in {"SUCCESS", "DUPLICATE", "NOT_FOUND", "ERROR"} OBVIOUS
  <1>4. /\ u \in Update /\ u.table = upd[s].table /\ u.node = upd[s].node
        /\ u.batch = upd[s].batch /\ u.perm = upd[s].perm
    BY <1>2, <1>3, Zenon DEF Update
  <1> HIDE DEF u
  <1> QED BY <1>1, <1>4, RoundStep, Zenon

\* A record that stays is appended.
LEMMA KeepExistingStep == ASSUME IInv, NEW s \in Socket, KeepExisting(s) PROVE IInv'
  <1> DEFINE u == [upd[s] EXCEPT !.existing_i = @ + 1,
                              !.new = Append(@, Kept(s, upd[s].existing_i))]
  <1>1. pc[s] = "loop" /\ Round(s, u) /\ pc' = pc
    BY DEF KeepExisting, GoOn
  <1>2. upd[s] \in Update BY <1>1, LoopReads
  <1>3. upd[s].existing_i + 1 \in Nat \ {0} /\ Append(upd[s].new, Kept(s, upd[s].existing_i)) \in Seq(Entry)
    <2>1. upd[s].existing_i \in 1 .. Len(Arr(s)) BY <1>1, LoopReads DEF KeepExisting, BeforeCurrent
    <2> QED BY <1>1, <2>1, LoopReads, KeptType, AppendProperties
  <1>4. /\ u \in Update /\ u.table = upd[s].table /\ u.node = upd[s].node
        /\ u.batch = upd[s].batch /\ u.perm = upd[s].perm
    BY <1>2, <1>3, Zenon DEF Update
  <1> HIDE DEF u
  <1> QED BY <1>1, <1>4, RoundStep, Zenon

\* A record that is withdrawn is passed over.
LEMMA RemoveExistingStep == ASSUME IInv, NEW s \in Socket, RemoveExisting(s) PROVE IInv'
  <1> DEFINE u == [upd[s] EXCEPT !.k = @ + 1, !.existing_i = @ + 1, !.freed = Drop(s),
                              !.diff = Append(@, Notice("REMOVE", Existing(s)))]
  <1>1. pc[s] = "loop" /\ Round(s, u) /\ pc' = pc
    BY DEF RemoveExisting, AtOperation, GoOn
  <1>2. upd[s] \in Update BY <1>1, LoopReads
  <1>3. /\ upd[s].k + 1 \in Nat \ {0} /\ upd[s].existing_i + 1 \in Nat \ {0}
        /\ Drop(s) \in SUBSET Nat /\ Append(upd[s].diff, Notice("REMOVE", Existing(s))) \in Seq(Notices)
    <2>1. upd[s].existing_i <= Len(Arr(s)) BY DEF RemoveExisting, existing_matches_current
    <2> QED BY <1>1, <2>1, LoopReads, DropType, AppendProperties
  <1>4. /\ u \in Update /\ u.table = upd[s].table /\ u.node = upd[s].node
        /\ u.batch = upd[s].batch /\ u.perm = upd[s].perm
    BY <1>2, <1>3, Zenon DEF Update
  <1> HIDE DEF u
  <1> QED BY <1>1, <1>4, RoundStep, Zenon

\* An announced record is appended.
LEMMA AddStep == ASSUME IInv, NEW s \in Socket, Add(s) PROVE IInv'
  <1> DEFINE u == [upd[s] EXCEPT
          !.k = @ + 1,
          !.new = Append(@, [cas |-> Current(s).cas, prov |-> Current(s).prov,
                             live |-> TRUE, from |-> 0]),
          !.freed = IF existing_matches_current(s) THEN Drop(s) ELSE @,
          !.diff = Append(@, Notice("ADD", Current(s)))]
  <1>1. pc[s] = "loop" /\ Round(s, u) /\ pc' = pc
    BY DEF Add, AtOperation, GoOn
  <1>2. upd[s] \in Update BY <1>1, LoopReads
  <1>3. /\ upd[s].k + 1 \in Nat \ {0}
        /\ Append(upd[s].new, [cas |-> Current(s).cas, prov |-> Current(s).prov,
                               live |-> TRUE, from |-> 0]) \in Seq(Entry)
        /\ (IF existing_matches_current(s) THEN Drop(s) ELSE upd[s].freed) \in SUBSET Nat
        /\ Append(upd[s].diff, Notice("ADD", Current(s))) \in Seq(Notices)
    <2>1. upd[s].k <= Count(s) /\ Current(s).type = "ADD" BY DEF Add, AtOperation
    <2>2. Current(s) \in Op BY <1>1, <2>1, LoopReads
    <2>3. Current(s).cas \in Customer /\ Current(s).prov \in Providers BY <2>1, <2>2 DEF Op
    <2>4. /\ [cas |-> Current(s).cas, prov |-> Current(s).prov,
               live |-> TRUE, from |-> 0] \in Entry
          /\ Notice("ADD", Current(s)) \in Notices
      BY <2>3 DEF Entry, Notice, Notices
    <2>5. existing_matches_current(s) => Drop(s) \in SUBSET Nat
      BY <1>1, DropType DEF existing_matches_current
    <2> QED BY <1>1, <2>4, <2>5, LoopReads, AppendProperties
  <1>4. /\ u \in Update /\ u.table = upd[s].table /\ u.node = upd[s].node
        /\ u.batch = upd[s].batch /\ u.perm = upd[s].perm
    BY <1>2, <1>3, Zenon DEF Update
  <1> HIDE DEF u
  <1> QED BY <1>1, <1>4, RoundStep, Zenon

\* An announcement and a withdrawal cancel each other.
LEMMA AddThenRemoveStep == ASSUME IInv, NEW s \in Socket, AddThenRemove(s) PROVE IInv'
  <1>1. pc[s] = "loop" BY DEF AddThenRemove, AtOperation
  <1>2. upd[s] \in Update BY <1>1, LoopReads
  <1>3. upd[s].k + 2 \in Nat \ {0} BY <1>1, LoopReads
  <1>4. CASE existing_matches_current(s)
    <2> DEFINE u == [upd[s] EXCEPT !.k = @ + 2, !.existing_i = @ + 1, !.freed = Drop(s),
                                   !.diff = Append(@, Notice("REMOVE", Existing(s)))]
    <2>1. Round(s, u) /\ pc' = pc BY <1>4 DEF AddThenRemove, GoOn
    <2>2. /\ upd[s].existing_i + 1 \in Nat \ {0} /\ Drop(s) \in SUBSET Nat
          /\ Append(upd[s].diff, Notice("REMOVE", Existing(s))) \in Seq(Notices)
      BY <1>1, <1>4, LoopReads, DropType, AppendProperties DEF existing_matches_current
    <2>3. /\ u \in Update /\ u.table = upd[s].table /\ u.node = upd[s].node
          /\ u.batch = upd[s].batch /\ u.perm = upd[s].perm
      BY <1>2, <1>3, <2>2, Zenon DEF Update
    <2> HIDE DEF u
    <2> QED BY <1>1, <2>1, <2>3, RoundStep, Zenon
  <1>5. CASE ~ existing_matches_current(s)
    <2> DEFINE u == [upd[s] EXCEPT !.k = @ + 2]
    <2>1. Round(s, u) /\ pc' = pc BY <1>5 DEF AddThenRemove, GoOn
    <2>2. /\ u \in Update /\ u.table = upd[s].table /\ u.node = upd[s].node
          /\ u.batch = upd[s].batch /\ u.perm = upd[s].perm
      BY <1>2, <1>3, Zenon DEF Update
    <2> HIDE DEF u
    <2> QED BY <1>1, <2>1, <2>2, RoundStep, Zenon
  <1> QED BY <1>4, <1>5

\* The rest of the array is an array.
LEMMA RestType ==
    ASSUME IInv, NEW s \in Socket, pc[s] = "loop", NEW i \in Nat \ {0}
    PROVE  Rest(s, i) \in Seq(Entry)
  <1>1. Len(Arr(s)) \in Nat BY LoopReads
  <1>2. \A j \in 1 .. Len(Arr(s)) + 1 - i : i - 1 + j \in 1 .. Len(Arr(s)) BY <1>1
  <1>3. \A j \in 1 .. Len(Arr(s)) + 1 - i : Kept(s, i - 1 + j) \in Entry
    BY <1>2, KeptType
  <1> DEFINE n == IF Len(Arr(s)) + 1 - i >= 0 THEN Len(Arr(s)) + 1 - i ELSE 0
  <1>4. n \in Nat /\ 1 .. n = 1 .. Len(Arr(s)) + 1 - i BY <1>1
  <1>5. Rest(s, i) \in [1 .. n -> Entry] BY <1>3, <1>4, Zenon DEF Rest
  <1> QED BY <1>4, <1>5

\* The rest of the array moves to the new one.
LEMMA FinishStep == ASSUME IInv, NEW s \in Socket, Finish(s) PROVE IInv'
  <1>1. pc[s] = "loop" BY Zenon DEF Finish
  <1>2. PICK i \in Nat \ {0} :
           /\ Round(s, [upd[s] EXCEPT !.new = @ \o Rest(s, i)])
           /\ pc' = [pc EXCEPT ![s] = "computed"]
    <2> DEFINE replaced == /\ upd[s].new # <<>> /\ upd[s].existing_i <= Len(Arr(s))
                           /\ upd[s].new[Len(upd[s].new)].cas = Arr(s)[upd[s].existing_i].cas
               i == IF replaced THEN upd[s].existing_i + 1 ELSE upd[s].existing_i
    <2>1. i \in Nat \ {0} BY <1>1, LoopReads
    <2>2. /\ Round(s, [upd[s] EXCEPT !.new = @ \o Rest(s, i)])
          /\ pc' = [pc EXCEPT ![s] = "computed"]
      BY Zenon DEF Finish
    <2> HIDE DEF i
    <2> QED BY <2>1, <2>2, Zenon
  <1> DEFINE u == [upd[s] EXCEPT !.new = @ \o Rest(s, i)]
  <1>3. upd[s] \in Update /\ upd[s].new \o Rest(s, i) \in Seq(Entry)
    BY <1>1, LoopReads, RestType, ConcatProperties, Zenon
  <1>4. /\ u \in Update /\ u.table = upd[s].table /\ u.node = upd[s].node
        /\ u.batch = upd[s].batch /\ u.perm = upd[s].perm
    BY <1>3, Zenon DEF Update
  <1>5. Round(s, u) BY <1>2
  <1> HIDE DEF u
  <1> QED BY <1>1, <1>2, <1>4, <1>5, RoundStep, Zenon

\* Every round of the loop keeps the invariant.
LEMMA LoopStep == ASSUME IInv, NEW s \in Socket, Compute(s) PROVE IInv'
  BY KeepExistingStep, AddTwiceStep, AddThenRemoveStep, AddStep, AddFailsStep,
     RemoveUnknownStep, RemoveExistingStep, FinishStep, Zenon DEF Compute

-----------------------------------------------------------------------------
(* Steps that change a table                                               *)

\* A thread that leaves alone the tables others have locked.
LEMMA TableStep ==
    ASSUME IInv, TypeOK', NEW s \in Socket, Working(s)',
           \A r \in Socket \ {s} : pc'[r] = pc[r] /\ upd'[r] = upd[r],
           \A t \in Table : update_lock[t] \in Socket \ {s} =>
               update_lock'[t] = update_lock[t] /\ order'[t] = order[t]
    PROVE  IInv'
  <1>1. \A r \in Socket \ {s} : Working(r)'
    <2> TAKE r \in Socket \ {s}
    <2>1. \A t \in Table : update_lock[t] = r => update_lock'[t] = r /\ order'[t] = order[t]
      OBVIOUS
    <2> QED BY <2>1, OthersWork, Zenon
  <1> QED BY <1>1 DEF IInv

\* The fields of an update.
LEMMA UpdType ==
    ASSUME IInv, NEW s \in Socket
    PROVE  /\ upd[s] \in Update /\ upd[s].table \in {Shared, s} /\ upd[s].table \in Table
           /\ upd[s].new \in Seq(Entry)
  <1>1. upd[s] \in Update BY DEF IInv, TypeOK
  <1>2. upd[s].new \in Seq(Entry) /\ upd[s].table \in Table BY <1>1 DEF Update
  <1> QED BY <1>1, <1>2 DEF IInv, Working

\* Emptying the list or the array of a table.
LEMMA EmptyOrder ==
    ASSUME TypeOK, NEW t \in Table, order' = [order EXCEPT ![t] = <<>>]
    PROVE  (\A x \in Table : List(order'[x])) /\ order' = [x \in Table |-> order'[x]]
  <1>1. List(<<>>) BY DEF List, IsInjective
  <1>2. \A x \in Table : order'[x] = IF x = t THEN <<>> ELSE order[x] BY DEF TypeOK
  <1>3. \A x \in Table : List(order'[x]) BY <1>1, <1>2 DEF TypeOK
  <1> QED BY <1>3, Zenon DEF TypeOK

\* Likewise for arrays.
LEMMA EmptyArray ==
    ASSUME TypeOK, NEW t \in Table, array' = [array EXCEPT ![t] = [n \in Socket |-> <<>>]]
    PROVE  array' \in [Table -> [Socket -> Seq(Entry)]]
  BY DEF TypeOK

\* Freeing lists leaves an array of entries with the same records.
LEMMA FreedType ==
    ASSUME NEW arr \in Seq(Entry), NEW freed
    PROVE  /\ Freed(arr, freed) \in Seq(Entry)
           /\ DOMAIN Freed(arr, freed) = DOMAIN arr
           /\ \A i \in DOMAIN arr : /\ Freed(arr, freed)[i].cas = arr[i].cas
                                    /\ Freed(arr, freed)[i].prov = arr[i].prov
  <1> DEFINE E(i) == [arr[i] EXCEPT !.from = 0, !.live = @ /\ arr[i].from \notin freed]
  <1>1. \A i \in 1 .. Len(arr) : E(i) \in Entry /\ E(i).cas = arr[i].cas /\ E(i).prov = arr[i].prov
    <2> SUFFICES ASSUME NEW i \in 1 .. Len(arr)
                 PROVE  E(i) \in Entry /\ E(i).cas = arr[i].cas /\ E(i).prov = arr[i].prov
      BY Zenon
    <2>1. arr[i] \in Entry OBVIOUS
    <2>2. (arr[i].live /\ arr[i].from \notin freed) \in BOOLEAN /\ 0 \in Nat BY Zenon
    <2> QED BY <2>1, <2>2, Zenon DEF Entry
  <1>2. Freed(arr, freed) = [i \in 1 .. Len(arr) |-> E(i)] BY DEF Freed
  <1>3. DOMAIN arr = 1 .. Len(arr) /\ Len(arr) \in Nat OBVIOUS
  <1> HIDE DEF E
  <1> QED BY <1>1, <1>2, <1>3

\* Swapping the new array in touches the node of its own socket.
LEMMA ApplyStep == ASSUME IInv, NEW s \in Socket, aspa_table_update_swap_in_apply(s) PROVE IInv'
  <1> DEFINE t0 == upd[s].table
  <1>2. t0 \in {Shared, s} /\ t0 \in Table /\ upd[s].new \in Seq(Entry) BY UpdType
  <1>3. pc[s] = "computed" BY DEF aspa_table_update_swap_in_apply
  <1>4. upd[s].node = s /\ update_lock[t0] = s
    BY <1>3 DEF IInv, Working
  <1>1. /\ array' = [array EXCEPT ![t0][s] = upd[s].new]
        /\ update_lock' = [update_lock EXCEPT ![t0] = Nobody]
        /\ pc' = [pc EXCEPT ![s] = "cleanup"] /\ order' = order /\ upd' = upd
    BY <1>4 DEF aspa_table_update_swap_in_apply, Unlock
  <1> HIDE DEF t0
  <1>10. TypeOK'
    <2>1. (\A t \in Table : List(order'[t])) /\ order' = [t \in Table |-> order'[t]]
      BY <1>1, Zenon DEF IInv, TypeOK
    <2>2. array' \in [Table -> [Socket -> Seq(Entry)]]
      BY <1>1, <1>2 DEF IInv, TypeOK
    <2>3. /\ update_lock' \in [Table -> Socket \cup {Nobody, Lost}]
          /\ \A r \in Socket : update_lock'[r] \in {r, Nobody, Lost}
      BY <1>1, <1>2 DEF IInv, TypeOK
    <2>4. pc' \in [Socket -> {"idle", "populate", "loop", "computed", "cleanup", "replace", "notify"}]
      BY <1>1 DEF IInv, TypeOK
    <2>5. upd' \in [Socket -> Update]
      BY <1>1 DEF IInv, TypeOK
    <2> QED BY <2>1, <2>2, <2>3, <2>4, <2>5 DEF TypeOK
  <1>11. Working(s)'
    <2>1. pc'[s] = "cleanup" /\ upd'[s] = upd[s] BY <1>1 DEF IInv, TypeOK
    <2> QED BY <1>4, <2>1 DEF IInv, Working
  <1>12. \A r \in Socket \ {s} : pc'[r] = pc[r] /\ upd'[r] = upd[r]
    BY <1>1 DEF IInv, TypeOK
  <1>13. \A t \in Table : update_lock[t] \in Socket \ {s} =>
             update_lock'[t] = update_lock[t] /\ order'[t] = order[t]
    BY <1>1, <1>4 DEF IInv, TypeOK
  <1> QED BY <1>10, <1>11, <1>12, <1>13, TableStep, Zenon

\* Applying an update that failed leaves the tables as they are.
LEMMA ApplyNothingStep == ASSUME IInv, NEW s \in Socket, ApplyNothing(s) PROVE IInv'
  <1> DEFINE t0 == upd[s].table
  <1>2. t0 \in Table BY UpdType
  <1>3. pc[s] = "computed" BY DEF ApplyNothing
  <1>4. update_lock[t0] = s /\ t0 \in {Shared, s}
    BY <1>3 DEF IInv, Working
  <1>5. PICK p \in {"idle", "replace"} : pc' = [pc EXCEPT ![s] = p]
    BY Zenon DEF ApplyNothing
  <1>1. /\ update_lock' = [update_lock EXCEPT ![t0] = Lost] /\ pc' = [pc EXCEPT ![s] = p]
        /\ array' = array /\ order' = order /\ upd' = [upd EXCEPT ![s] = NoUpdate]
    BY <1>5, Zenon DEF ApplyNothing
  <1> HIDE DEF t0
  <1>10. TypeOK'
    <2>1. (\A t \in Table : List(order'[t])) /\ order' = [t \in Table |-> order'[t]]
      BY <1>1, Zenon DEF IInv, TypeOK
    <2>2. array' \in [Table -> [Socket -> Seq(Entry)]]
      BY <1>1 DEF IInv, TypeOK
    <2>3. /\ update_lock' \in [Table -> Socket \cup {Nobody, Lost}]
          /\ \A r \in Socket : update_lock'[r] \in {r, Nobody, Lost}
      BY <1>1, <1>2, <1>4 DEF IInv, TypeOK
    <2>4. pc' \in [Socket -> {"idle", "populate", "loop", "computed", "cleanup", "replace", "notify"}]
      BY <1>1 DEF IInv, TypeOK
    <2>5. upd' \in [Socket -> Update]
      BY <1>1, NoUpdateType DEF IInv, TypeOK
    <2> QED BY <2>1, <2>2, <2>3, <2>4, <2>5 DEF TypeOK
  <1>11. Working(s)'
    <2>1. pc'[s] = p BY <1>1 DEF IInv, TypeOK
    <2> QED BY <1>1, <2>1, AtRest, Zenon
  <1>12. \A r \in Socket \ {s} : pc'[r] = pc[r] /\ upd'[r] = upd[r]
    BY <1>1 DEF IInv, TypeOK
  <1>13. \A t \in Table : update_lock[t] \in Socket \ {s} =>
             update_lock'[t] = update_lock[t] /\ order'[t] = order[t]
    BY <1>1, <1>4 DEF IInv, TypeOK
  <1> QED BY <1>10, <1>11, <1>12, <1>13, TableStep, Zenon

\* Discarding an update frees no table but its own shadow.
LEMMA DiscardStep == ASSUME IInv, NEW s \in Socket, aspa_table_update_swap_in_discard(s) PROVE IInv'
  <1> DEFINE t0 == upd[s].table
  <1>2. t0 \in Table BY UpdType
  <1>3. pc[s] = "computed" BY DEF aspa_table_update_swap_in_discard
  <1>4. update_lock[t0] = s /\ t0 \in {Shared, s}
    BY <1>3 DEF IInv, Working
  <1>5. \/ order' = order /\ array' = array
        \/ /\ t0 = s /\ order' = [order EXCEPT ![s] = <<>>]
           /\ array' = [array EXCEPT ![s] = [n \in Socket |-> <<>>]]
    BY <1>4 DEF aspa_table_update_swap_in_discard, FreeShadow
  <1>1. /\ update_lock' = [update_lock EXCEPT ![t0] = Nobody] /\ pc' = [pc EXCEPT ![s] = "idle"]
        /\ upd' = [upd EXCEPT ![s] = NoUpdate]
    BY DEF aspa_table_update_swap_in_discard, Unlock
  <1> HIDE DEF t0
  <1>10. TypeOK'
    <2>1. (\A t \in Table : List(order'[t])) /\ order' = [t \in Table |-> order'[t]]
      BY <1>5, EmptyOrder, Zenon DEF IInv, TypeOK
    <2>2. array' \in [Table -> [Socket -> Seq(Entry)]]
      BY <1>5, EmptyArray, Zenon DEF IInv, TypeOK
    <2>3. /\ update_lock' \in [Table -> Socket \cup {Nobody, Lost}]
          /\ \A r \in Socket : update_lock'[r] \in {r, Nobody, Lost}
      BY <1>1, <1>2, <1>4 DEF IInv, TypeOK
    <2>4. pc' \in [Socket -> {"idle", "populate", "loop", "computed", "cleanup", "replace", "notify"}]
      BY <1>1 DEF IInv, TypeOK
    <2>5. upd' \in [Socket -> Update]
      BY <1>1, NoUpdateType DEF IInv, TypeOK
    <2> QED BY <2>1, <2>2, <2>3, <2>4, <2>5 DEF TypeOK
  <1>11. Working(s)'
    <2>1. pc'[s] = "idle" BY <1>1 DEF IInv, TypeOK
    <2> QED BY <1>1, <2>1, AtRest, Zenon
  <1>12. \A r \in Socket \ {s} : pc'[r] = pc[r] /\ upd'[r] = upd[r]
    BY <1>1 DEF IInv, TypeOK
  <1>13. \A t \in Table : update_lock[t] \in Socket \ {s} =>
             update_lock'[t] = update_lock[t] /\ order'[t] = order[t]
    BY <1>1, <1>4, <1>5, Names DEF IInv, TypeOK
  <1> QED BY <1>10, <1>11, <1>12, <1>13, TableStep, Zenon

\* Freeing the lists of dropped records changes no record but in its own array.
LEMMA CleanupStep == ASSUME IInv, NEW s \in Socket, Cleanup(s) PROVE IInv'
  <1> DEFINE t0 == upd[s].table
             arr == Freed(array[t0][s], upd[s].freed)
  <1>2. t0 \in Table BY UpdType
  <1>3. pc[s] = "cleanup" BY Zenon DEF Cleanup
  <1>4. upd[s].node = s BY <1>3 DEF IInv, Working
  <1>5. arr \in Seq(Entry)
    <2>1. array[t0][s] \in Seq(Entry) BY <1>2 DEF IInv, TypeOK
    <2> QED BY <2>1, FreedType
  <1>6. PICK p \in {"idle", "replace"} : pc' = [pc EXCEPT ![s] = p]
    BY Zenon DEF Cleanup
  <1>1. /\ array' = [array EXCEPT ![t0][s] = arr] /\ pc' = [pc EXCEPT ![s] = p]
        /\ update_lock' = update_lock /\ order' = order /\ upd' = [upd EXCEPT ![s] = NoUpdate]
    BY <1>4, <1>6, Zenon DEF Cleanup
  <1> HIDE DEF t0, arr
  <1>10. TypeOK'
    <2>1. (\A t \in Table : List(order'[t])) /\ order' = [t \in Table |-> order'[t]]
      BY <1>1, Zenon DEF IInv, TypeOK
    <2>2. array' \in [Table -> [Socket -> Seq(Entry)]]
      BY <1>1, <1>2, <1>5 DEF IInv, TypeOK
    <2>3. /\ update_lock' \in [Table -> Socket \cup {Nobody, Lost}]
          /\ \A r \in Socket : update_lock'[r] \in {r, Nobody, Lost}
      BY <1>1 DEF IInv, TypeOK
    <2>4. pc' \in [Socket -> {"idle", "populate", "loop", "computed", "cleanup", "replace", "notify"}]
      BY <1>1 DEF IInv, TypeOK
    <2>5. upd' \in [Socket -> Update]
      BY <1>1, NoUpdateType DEF IInv, TypeOK
    <2> QED BY <2>1, <2>2, <2>3, <2>4, <2>5 DEF TypeOK
  <1>11. Working(s)'
    <2>1. pc'[s] = p BY <1>1 DEF IInv, TypeOK
    <2> QED BY <1>1, <2>1, AtRest, Zenon
  <1>12. \A r \in Socket \ {s} : pc'[r] = pc[r] /\ upd'[r] = upd[r]
    BY <1>1 DEF IInv, TypeOK
  <1>13. \A t \in Table : update_lock[t] \in Socket \ {s} =>
             update_lock'[t] = update_lock[t] /\ order'[t] = order[t]
    BY <1>1
  <1> QED BY <1>10, <1>11, <1>12, <1>13, TableStep, Zenon

\* A reset moves the array of its shadow table into its own node.
LEMMA ReplaceStep == ASSUME IInv, NEW s \in Socket, aspa_table_src_replace(s) PROVE IInv'
  <1> DEFINE u == [upd[s] EXCEPT !.old = array[Shared][s]]
             list == Create(order[Shared], s)
  <1>1. /\ upd' = [upd EXCEPT ![s] = u]
        /\ order' = [order EXCEPT ![Shared] = list, ![s] = <<>>]
        /\ array' = [array EXCEPT ![Shared][s] = array[s][s], ![s] = [n \in Socket |-> <<>>]]
        /\ pc' = [pc EXCEPT ![s] = "notify"] /\ update_lock' = update_lock
    BY Zenon DEF aspa_table_src_replace
  <1>2. update_lock[Shared] = Nobody /\ update_lock[s] = Nobody
    BY Zenon DEF aspa_table_src_replace, MayReplace
  <1>3. List(list) BY CreateList, Names DEF IInv, TypeOK
  <1>4. upd[s] \in Update /\ upd[s].table \in {Shared, s} BY UpdType
  <1>5. array[Shared][s] \in Seq(Entry) BY Names DEF IInv, TypeOK
  <1>6. /\ u \in Update /\ u.table = upd[s].table
        /\ u.batch = upd[s].batch /\ u.perm = upd[s].perm
    BY <1>4, <1>5, Zenon DEF Update
  <1> HIDE DEF u, list
  <1>10. TypeOK'
    <2>1. (\A t \in Table : List(order'[t])) /\ order' = [t \in Table |-> order'[t]]
      <3>1. List(<<>>) BY DEF List, IsInjective
      <3>2. \A t \in Table : order'[t] \in {<<>>, list, order[t]}
        BY <1>1 DEF IInv, TypeOK
      <3>3. \A t \in Table : List(order'[t]) BY <1>3, <3>1, <3>2, Zenon DEF IInv, TypeOK
      <3> QED BY <1>1, <3>3, Zenon DEF IInv, TypeOK
    <2>2. array' \in [Table -> [Socket -> Seq(Entry)]]
      <3> DEFINE mid == [array EXCEPT ![Shared][s] = array[s][s]]
      <3>1. array[s][s] \in Seq(Entry) BY Names DEF IInv, TypeOK
      <3>2. mid \in [Table -> [Socket -> Seq(Entry)]] BY <3>1, Names DEF IInv, TypeOK
      <3>3. array' = [mid EXCEPT ![s] = [n \in Socket |-> <<>>]] BY <1>1, Zenon
      <3>4. [n \in Socket |-> <<>>] \in [Socket -> Seq(Entry)] BY Zenon, EmptySeq
      <3> HIDE DEF mid
      <3> QED BY <3>2, <3>3, <3>4, Zenon
    <2>3. /\ update_lock' \in [Table -> Socket \cup {Nobody, Lost}]
          /\ \A r \in Socket : update_lock'[r] \in {r, Nobody, Lost}
      BY <1>1 DEF IInv, TypeOK
    <2>4. pc' \in [Socket -> {"idle", "populate", "loop", "computed", "cleanup", "replace", "notify"}]
      BY <1>1 DEF IInv, TypeOK
    <2>5. upd' \in [Socket -> Update]
      BY <1>1, <1>6 DEF IInv, TypeOK
    <2> QED BY <2>1, <2>2, <2>3, <2>4, <2>5 DEF TypeOK
  <1>11. Working(s)'
    <2>1. pc'[s] = "notify" /\ upd'[s] = u BY <1>1 DEF IInv, TypeOK
    <2> QED BY <1>4, <1>6, <2>1 DEF IInv, Working
  <1>12. \A r \in Socket \ {s} : pc'[r] = pc[r] /\ upd'[r] = upd[r]
    BY <1>1 DEF IInv, TypeOK
  <1>13. \A t \in Table : update_lock[t] \in Socket \ {s} =>
             update_lock'[t] = update_lock[t] /\ order'[t] = order[t]
    BY <1>1, <1>2, Names DEF IInv, TypeOK
  <1> QED BY <1>10, <1>11, <1>12, <1>13, TableStep, Zenon

\* A reset that has nothing to put in frees its shadow table.
LEMMA ReplaceFailsStep == ASSUME IInv, NEW s \in Socket, ReplaceFails(s) PROVE IInv'
  <1>1. /\ order' = [order EXCEPT ![s] = <<>>]
        /\ array' = [array EXCEPT ![s] = [n \in Socket |-> <<>>]]
        /\ pc' = [pc EXCEPT ![s] = "idle"] /\ update_lock' = update_lock /\ upd' = upd
    BY Zenon DEF ReplaceFails, FreeShadow
  <1>2. update_lock[s] = Nobody BY Zenon DEF ReplaceFails, MayReplace
  <1>10. TypeOK'
    <2>1. (\A t \in Table : List(order'[t])) /\ order' = [t \in Table |-> order'[t]]
      BY <1>1, EmptyOrder, Names, Zenon DEF IInv
    <2>2. array' \in [Table -> [Socket -> Seq(Entry)]]
      BY <1>1, EmptyArray, Names, Zenon DEF IInv
    <2>3. /\ update_lock' \in [Table -> Socket \cup {Nobody, Lost}]
          /\ \A r \in Socket : update_lock'[r] \in {r, Nobody, Lost}
      BY <1>1 DEF IInv, TypeOK
    <2>4. pc' \in [Socket -> {"idle", "populate", "loop", "computed", "cleanup", "replace", "notify"}]
      BY <1>1 DEF IInv, TypeOK
    <2>5. upd' \in [Socket -> Update]
      BY <1>1 DEF IInv, TypeOK
    <2> QED BY <2>1, <2>2, <2>3, <2>4, <2>5 DEF TypeOK
  <1>11. Working(s)'
    <2>1. pc'[s] = "idle" /\ upd'[s] = upd[s] BY <1>1 DEF IInv, TypeOK
    <2> QED BY <2>1 DEF IInv, Working
  <1>12. \A r \in Socket \ {s} : pc'[r] = pc[r] /\ upd'[r] = upd[r]
    BY <1>1 DEF IInv, TypeOK
  <1>13. \A t \in Table : update_lock[t] \in Socket \ {s} =>
             update_lock'[t] = update_lock[t] /\ order'[t] = order[t]
    BY <1>1, <1>2, Names DEF IInv, TypeOK
  <1> QED BY <1>10, <1>11, <1>12, <1>13, TableStep, Zenon

\* Removing the node of a socket needs the lock of the table.
LEMMA SrcRemoveStep == ASSUME IInv, NEW s \in Socket, rtr_aspa_table_src_remove(s) PROVE IInv'
  <1>1. /\ order' = [order EXCEPT ![Shared] = aspa_store_remove_node(order[Shared], s)]
        /\ array' = [array EXCEPT ![Shared][s] = <<>>]
        /\ pc' = pc /\ update_lock' = update_lock /\ upd' = upd
    BY Zenon DEF rtr_aspa_table_src_remove
  <1>2. update_lock[Shared] = Nobody /\ pc[s] = "idle" BY Zenon DEF rtr_aspa_table_src_remove
  <1>3. List(aspa_store_remove_node(order[Shared], s)) BY RemoveList, Names DEF IInv, TypeOK
  <1>10. TypeOK'
    <2>1. (\A t \in Table : List(order'[t])) /\ order' = [t \in Table |-> order'[t]]
      <3>1. \A t \in Table : List(order'[t]) BY <1>1, <1>3 DEF IInv, TypeOK
      <3> QED BY <1>1, <3>1, Zenon DEF IInv, TypeOK
    <2>2. array' \in [Table -> [Socket -> Seq(Entry)]]
      BY <1>1, Names DEF IInv, TypeOK
    <2>3. /\ update_lock' \in [Table -> Socket \cup {Nobody, Lost}]
          /\ \A r \in Socket : update_lock'[r] \in {r, Nobody, Lost}
      BY <1>1 DEF IInv, TypeOK
    <2>4. pc' \in [Socket -> {"idle", "populate", "loop", "computed", "cleanup", "replace", "notify"}]
      BY <1>1 DEF IInv, TypeOK
    <2>5. upd' \in [Socket -> Update]
      BY <1>1 DEF IInv, TypeOK
    <2> QED BY <2>1, <2>2, <2>3, <2>4, <2>5 DEF TypeOK
  <1>11. Working(s)'
    BY <1>1, <1>2, Names DEF IInv, TypeOK, Working
  <1>12. \A r \in Socket \ {s} : pc'[r] = pc[r] /\ upd'[r] = upd[r]
    BY <1>1 DEF IInv, TypeOK
  <1>13. \A t \in Table : update_lock[t] \in Socket \ {s} =>
             update_lock'[t] = update_lock[t] /\ order'[t] = order[t]
    BY <1>1, <1>2, Names DEF IInv, TypeOK
  <1> QED BY <1>10, <1>11, <1>12, <1>13, TableStep, Zenon

\* A thread that begins or ends a reset.
LEMMA ResetStep ==
    ASSUME IInv, NEW s \in Socket, EmptyReset(s) \/ NotifyReplaced(s)
    PROVE  IInv'
  <1>1. CASE EmptyReset(s)
    <2>1. /\ pc' = [pc EXCEPT ![s] = "replace"] /\ upd' = [upd EXCEPT ![s] = upd[s]]
          /\ UNCHANGED <<order, array, update_lock>> /\ upd' = upd
      BY <1>1 DEF EmptyReset, IInv, TypeOK
    <2>2. pc'[s] = "replace" BY <2>1 DEF IInv, TypeOK
    <2>3. Working(s)' BY <2>1, <2>2 DEF IInv, Working
    <2> QED BY <2>1, <2>2, <2>3, UpdType, PrivateStep, Zenon
  <1>2. CASE NotifyReplaced(s)
    <2>1. /\ pc' = [pc EXCEPT ![s] = "idle"] /\ upd' = [upd EXCEPT ![s] = NoUpdate]
          /\ UNCHANGED <<order, array, update_lock>>
      BY <1>2 DEF NotifyReplaced
    <2>2. pc'[s] = "idle" BY <2>1 DEF IInv, TypeOK
    <2>3. Working(s)' BY <2>1, <2>2, AtRest, Zenon
    <2> QED BY <2>1, <2>2, <2>3, NoUpdateType, PrivateStep, Zenon
  <1> QED BY <1>1, <1>2

\* The table is freed when no thread is at work.
LEMMA FreeStep == ASSUME IInv, rtr_aspa_table_free PROVE IInv'
  <1>1. /\ order' = [order EXCEPT ![Shared] = <<>>]
        /\ array' = [array EXCEPT ![Shared] = [s \in Socket |-> <<>>]]
        /\ \A s \in Socket : pc[s] = "idle"
        /\ pc' = pc /\ update_lock' = update_lock /\ upd' = upd
    BY Zenon DEF rtr_aspa_table_free
  <1>2. /\ \A t \in Table : List(order'[t])
        /\ order' = [t \in Table |-> order'[t]]
        /\ array' \in [Table -> [Socket -> Seq(Entry)]]
    BY <1>1, EmptyOrder, EmptyArray, Names, Zenon DEF IInv
  <1>3. TypeOK' BY <1>1, <1>2, Zenon DEF IInv, TypeOK
  <1>4. \A s \in Socket : Working(s)' BY <1>1 DEF IInv, Working
  <1> QED BY <1>3, <1>4 DEF IInv

\* Every step keeps the invariant.
LEMMA NextInv == ASSUME IInv, [Next]_vars PROVE IInv'
  <1>1. CASE UNCHANGED vars
    BY <1>1, Zenon DEF IInv, TypeOK, Working, vars
  <1>2. ASSUME NEW s \in Socket, Carry(s) PROVE IInv'
    BY <1>2, PopulateStep, LoopStep, ApplyStep, ApplyNothingStep, DiscardStep, CleanupStep,
       ReplaceStep, ReplaceFailsStep, ResetStep, Zenon DEF Carry
  <1>3. ASSUME Next PROVE IInv'
    BY <1>2, <1>3, ComputeStep, ResetStep, SrcRemoveStep, FreeStep, Zenon DEF Next
  <1> QED BY <1>1, <1>3

(* The invariant holds in every state: a thread in the middle of an update *)
(* has the lock of the table, and works on its own node.                   *)
THEOREM LockProtects == Spec => []IInv
  BY InitInv, NextInv, PTL DEF Spec

(* The link a thread found before it computes an update still leads to its *)
(* node when it is followed.                                               *)
THEOREM LinksHold == Spec => []LinkHolds
  <1>1. IInv => LinkHolds BY DEF IInv, Working, LinkHolds
  <1> QED BY <1>1, LockProtects, PTL

-----------------------------------------------------------------------------
(* The table is a table of records                                         *)

\* The record of entry e in the array of socket r.
Rec(r, e) == [socket |-> r, cas |-> e.cas, prov |-> e.prov]

\* The records of arrays a are those of their entries.
LEMMA InArrays ==
    ASSUME NEW a
    PROVE  \A x : x \in UNION {ToldOf(r, a[r]) : r \in Socket} <=>
               \E r \in Socket : \E i \in DOMAIN a[r] : x = Rec(r, a[r][i])
  BY DEF ToldOf, Told, Rec

\* Entries make records.
LEMMA AreRecords ==
    ASSUME NEW a \in [Socket -> Seq(Entry)]
    PROVE  UNION {ToldOf(r, a[r]) : r \in Socket} \subseteq Record
  <1>1. \A r \in Socket : \A i \in DOMAIN a[r] : a[r][i] \in Entry
    OBVIOUS
  <1>2. \A r \in Socket : \A i \in DOMAIN a[r] : Rec(r, a[r][i]) \in Record
    BY <1>1 DEF Rec, Entry, Record
  <1> DEFINE all == UNION {ToldOf(r, a[r]) : r \in Socket}
  <1>3. \A x : x \in all <=> \E r \in Socket : \E i \in DOMAIN a[r] : x = Rec(r, a[r][i])
    BY InArrays, Zenon
  <1> HIDE DEF all
  <1>4. ASSUME NEW x \in all PROVE x \in Record
    <2>1. PICK r \in Socket : \E i \in DOMAIN a[r] : x = Rec(r, a[r][i])
      BY <1>3, Zenon
    <2>2. PICK i \in DOMAIN a[r] : x = Rec(r, a[r][i])
      BY <2>1, Zenon
    <2>3. Rec(r, a[r][i]) \in Record BY <1>2, Zenon
    <2> QED BY <2>2, <2>3, Zenon
  <1> QED BY <1>4 DEF all

\* A step that changes the array of one socket only is one of the record table.
LEMMA OnlyOwn ==
    ASSUME IInv, IInv', NEW s \in Socket,
           \A r \in Socket \ {s} : array'[Shared][r] = array[Shared][r]
    PROVE  Abstract!Next
  <1> DEFINE a == array[Shared]
             b == array'[Shared]
  <1>1. a \in [Socket -> Seq(Entry)] /\ b \in [Socket -> Seq(Entry)]
    BY Names DEF IInv, TypeOK
  <1>2. /\ RecordsIn = UNION {ToldOf(r, a[r]) : r \in Socket}
        /\ RecordsIn' = UNION {ToldOf(r, b[r]) : r \in Socket}
    BY DEF RecordsIn, ToldOf
  <1>3. /\ \A x : x \in UNION {ToldOf(r, a[r]) : r \in Socket} <=>
                    \E r \in Socket : \E i \in DOMAIN a[r] : x = Rec(r, a[r][i])
        /\ \A x : x \in UNION {ToldOf(r, b[r]) : r \in Socket} <=>
                    \E r \in Socket : \E i \in DOMAIN b[r] : x = Rec(r, b[r][i])
    BY InArrays, Zenon
  <1>4. \A x : x \in RecordsIn <=> \E r \in Socket : \E i \in DOMAIN a[r] : x = Rec(r, a[r][i])
    BY <1>2, <1>3, Zenon
  <1>10. \A x : x \in RecordsIn' <=> \E r \in Socket : \E i \in DOMAIN b[r] : x = Rec(r, b[r][i])
    BY <1>2, <1>3, Zenon
  <1> HIDE DEF a, b
  <1>5. RecordsIn' \subseteq Record /\ RecordsIn \subseteq Record
    BY <1>1, <1>2, AreRecords, Zenon
  <1>6. \A x \in Record : x.socket # s => (x \in RecordsIn' <=> x \in RecordsIn)
    <2> SUFFICES ASSUME NEW x \in Record, x.socket # s
                 PROVE  x \in RecordsIn' <=> x \in RecordsIn
      OBVIOUS
    <2>1. \A r, e : x = Rec(r, e) => r # s
      BY DEF Rec
    <2>2. \A r \in Socket \ {s} : b[r] = a[r] BY DEF a, b
    <2>3. ASSUME NEW r \in Socket
          PROVE  (\E i \in DOMAIN a[r] : x = Rec(r, a[r][i])) <=>
                 (\E i \in DOMAIN b[r] : x = Rec(r, b[r][i]))
      <3>1. CASE r = s BY <2>1, <3>1, Zenon
      <3>2. CASE r # s
        <4>1. b[r] = a[r] BY <2>2, <3>2, Zenon
        <4> QED BY <4>1, Zenon
      <3> QED BY <3>1, <3>2, Zenon
    <2>4. x \in RecordsIn <=> \E r \in Socket : \E i \in DOMAIN a[r] : x = Rec(r, a[r][i])
      BY <1>4, Zenon
    <2>5. x \in RecordsIn' <=> \E r \in Socket : \E i \in DOMAIN b[r] : x = Rec(r, b[r][i])
      BY <1>10, Zenon
    <2> QED BY <2>3, <2>4, <2>5, Zenon
  <1>7. Abstract!Of(s) = {x \in Record : x.socket = s}
    BY DEF Abstract!Of
  <1>8. RecordsIn' \ Abstract!Of(s) = RecordsIn \ Abstract!Of(s)
    BY <1>5, <1>6, <1>7, Zenon
  <1>9. Abstract!Replace BY <1>5, <1>8, Zenon DEF Abstract!Replace
  <1> QED BY <1>9 DEF Abstract!Next

\* A step of a thread changes no array of the shared table but its own.
LEMMA CarryOwn ==
    ASSUME IInv, NEW s \in Socket, Carry(s)
    PROVE  \A r \in Socket \ {s} : array'[Shared][r] = array[Shared][r]
  <1> /\ array \in [Table -> [Socket -> Seq(Entry)]] /\ Shared \in Table /\ s \in Table
      /\ Shared # s
    BY Names DEF IInv, TypeOK
  <1>1. CASE Populate(s) \/ ApplyNothing(s) \/ NotifyReplaced(s)
    BY <1>1, Zenon DEF Populate, ApplyNothing, NotifyReplaced
  <1>2. CASE Compute(s)
    BY <1>2, Zenon DEF Compute, KeepExisting, AddTwice, AddThenRemove, Add, AddFails,
       RemoveUnknown, RemoveExisting, Finish, Fail, GoOn, Round
  <1>3. CASE aspa_table_update_swap_in_apply(s)
    <2>1. upd[s].node = s /\ upd[s].table \in Table
      BY <1>3, UpdType DEF IInv, Working, aspa_table_update_swap_in_apply
    <2>2. array' = [array EXCEPT ![upd[s].table][s] = upd[s].new]
      BY <1>3, <2>1, Zenon DEF aspa_table_update_swap_in_apply
    <2> QED BY <2>1, <2>2
  <1>4. CASE Cleanup(s)
    <2>0. pc[s] = "cleanup" BY <1>4, Zenon DEF Cleanup
    <2>1. upd[s].node = s /\ upd[s].table \in Table
      BY <2>0, UpdType DEF IInv, Working
    <2>2. PICK new : array' = [array EXCEPT ![upd[s].table][s] = new]
      BY <1>4, <2>1, Zenon DEF Cleanup
    <2> QED BY <2>1, <2>2
  <1>5. CASE aspa_table_update_swap_in_discard(s) \/ ReplaceFails(s)
    <2>1. array' = array \/ array' = [array EXCEPT ![s] = [n \in Socket |-> <<>>]]
      BY <1>5, Zenon DEF aspa_table_update_swap_in_discard, ReplaceFails, FreeShadow
    <2> QED BY <2>1
  <1>6. CASE aspa_table_src_replace(s)
    <2>1. array' = [array EXCEPT ![Shared][s] = array[s][s], ![s] = [n \in Socket |-> <<>>]]
      BY <1>6, Zenon DEF aspa_table_src_replace
    <2> QED BY <2>1
  <1> QED BY <1>1, <1>2, <1>3, <1>4, <1>5, <1>6, Zenon DEF Carry

\* Every step is a step of the record table or leaves the records as they are.
LEMMA StepRefines == ASSUME IInv, IInv', [Next]_vars PROVE [Abstract!Next]_RecordsIn
  <1>1. CASE UNCHANGED vars
    BY <1>1 DEF vars, RecordsIn, ToldOf
  <1>2. CASE rtr_aspa_table_free
    <2>1. array'[Shared] = [s \in Socket |-> <<>>]
      BY <1>2, Names DEF rtr_aspa_table_free, IInv, TypeOK
    <2>2. RecordsIn' = {} BY <2>1 DEF RecordsIn, ToldOf
    <2> QED BY <2>2 DEF Abstract!Next, Abstract!Free
  <1>3. ASSUME NEW s \in Socket, \/ aspa_table_update_swap_in_compute(s) \/ EmptyReset(s)
                                 \/ Carry(s) \/ rtr_aspa_table_src_remove(s)
        PROVE  Abstract!Next
    <2>1. \A r \in Socket \ {s} : array'[Shared][r] = array[Shared][r]
      <3>1. CASE aspa_table_update_swap_in_compute(s) \/ EmptyReset(s)
        BY <3>1, Zenon DEF aspa_table_update_swap_in_compute, EmptyReset
      <3>2. CASE rtr_aspa_table_src_remove(s)
        BY <3>2, Names DEF rtr_aspa_table_src_remove, IInv, TypeOK
      <3> QED BY <1>3, <3>1, <3>2, CarryOwn, Zenon
    <2> QED BY <2>1, OnlyOwn, Zenon
  <1> QED BY <1>1, <1>2, <1>3, Zenon DEF Next

(* The ASPA table is a table of records: whatever the sockets do, a step   *)
(* changes the records of one socket only, all at once.                    *)
THEOREM RefinesRecordTable == Spec => IsRecordTable
  <1>1. Init => Abstract!Init
    BY DEF Init, Abstract!Init, RecordsIn, ToldOf, Table
  <1> QED BY <1>1, LockProtects, StepRefines, PTL DEF Spec, IsRecordTable, Abstract!Spec
=============================================================================
