# A TLA+ model of rtrlib

rtrlib is a C library with which a router fetches RPKI data (prefix origins,
BGPsec router keys, ASPA records) from caches over the RTR protocol (RFC 8210
and its version 2 draft) and validates routes against it.  This directory holds
a model of the library written from its source, the TLC configurations that
check it on small instances, and proofs that TLAPS checks for every instance.

## 1. The system

| Part | Source (under `src/rtrlib/`) | State | Operations | Talks to |
|---|---|---|---|---|
| RTR socket | `rtr/rtr.c`, `rtr/rtr.h` | `state`, session id and serial number, `request_session_id`, `last_update`, `is_resetting`, intervals, version | `rtr_init`, `rtr_start`, `rtr_stop`, the loop of `rtr_fsm_start` in a thread of its own | transport, tables, manager callback |
| Synchronisation | `rtr/packets.c` | PDUs stored until End of Data, shadow tables | `rtr_sync`, `rtr_wait_for_sync`, `rtr_receive_pdu`, `rtr_sync_update_tables`, undo, queries | transport, tables |
| Connection manager | `rtr_mgr.c` | groups sorted by preference, their status | init, start, stop, add and remove group, `rtr_mgr_cb` in the socket threads | sockets |
| Prefix table | `pfx/trie/*.c` | two tries, a list of (AS, max length, socket) per node | add, remove, remove a source, validate, copy, swap, diff | sockets, readers |
| Router key table | `spki/hashtable/ht-spkitable.c` | hash table and list | add, remove, remove a source, search, copy, swap, diff | sockets, readers |
| ASPA table | `aspa/aspa.c`, `aspa/aspa_array/` | per socket a sorted array of records, two locks | compute, apply or discard an update; replace or remove a source | sockets, readers |
| ASPA verification | `aspa/aspa_verification.c` | none | upstream and downstream path checks | ASPA table |
| BGPsec | `bgpsec/*.c` | none | sign and validate paths | router key table |
| Transport | `transport/**` | the connection | open, close, send and receive with deadlines | the network |
| Helpers | `lib/*.c` | none | address bits, clock, byte order, memory, log | all |

What is hard about it, and where:

* **A thread against `rtr_stop`.**  Every socket runs a thread; the application
  (or the manager, from the thread of another socket) stops it.  The state is
  read and written without a lock, and the thread can only be cancelled where
  it enables cancellation.
* **Updates that fail half way.**  An answer of the cache is stored until End
  of Data, then applied PDU by PDU to three tables.  A duplicate, an unknown
  record or missing memory makes the code undo what it did; the undo can fail.
* **Resets.**  A full answer is applied to copies of the tables, which are swapped
  in one after another, so that readers do not see an empty or half filled table.
* **What the next query will quote.**  `request_session_id`, `serial_number`,
  `last_update` and `is_resetting` decide together whether the next answer is
  an increment; every error path has to leave them consistent with the tables.
* **Expiry.**  Records must go when the cache stays away.
* **Protocol versions.**  The version is lowered by the first PDU, or by an
  error PDU and a reconnect.
* **Groups.**  Callbacks of several sockets start and stop each other's groups.
* **Shared tables.**  The threads of all sockets write to one set of tables, while
  readers validate routes.  A table gives its lock back between the parts of an
  operation: between the families, before a callback, between the computation of
  an ASPA update and its application, between the copy of a reset and the swap.

The correctness properties that follow from this, by part: the socket holds
exactly the data of the serial it quotes, undo is exact, each table takes over a
reset in one step, stop returns, records expire, the socket recovers; the manager has data of some
group as long as one is usable, never takes a group down before it has a better
one, and its calls return; a table is a set of records in which every step
changes the records of one socket only, whatever structure holds it; origin
validation agrees with RFC 6811; an ASPA update has the effect of its operations
one by one and frees no list in use; path verification agrees with its definition
over ramps; a BGPsec verdict is borne out by keys that were in the table.

## 2. The modules

| Module | Content |
|---|---|
| `RtrIntervals` | the interval values of an End of Data PDU: range check and the four modes |
| `RtrSocket` | one socket, its cache, the application; all actions and the properties |
| `RtrSocketInv` | the inductive invariants of the proofs |
| `MCRtrSocket` | the constants of the TLC runs |
| `RtrSocketProofs` | type correctness, the transport is opened only when closed, the expire interval |
| `RtrRollbackProofs` | a failed update is undone exactly |
| `RtrCoherenceProofs` | the socket holds the data of the serial it quotes |
| `RtrMgr` | the connection manager, the threads of its sockets, the application; all actions, the properties and the inductive invariant |
| `MCRtrMgr` | the constants of the TLC runs of the manager |
| `RtrMgrProofs` | types, joins without cycles, make before break |
| `RecordTable` | what a table promises: the abstract specification of the next three |
| `PfxTable`, `MCPfxTable` | the prefix table: tries, origin validation, updates and resets of several sockets |
| `SpkiTable` | the router key table: hash table and list |
| `Bgpsec`, `MCBgpsec` | signing and validating BGPsec paths over a `SpkiTable` that changes meanwhile |
| `AspaTable`, `MCAspaTable` | the ASPA table: updates computed, applied or discarded, resets, removal |
| `AspaTableProofs` | what the update lock protects; the ASPA table implements `RecordTable` |
| `AspaVerify`, `MCAspaVerify` | ASPA path verification |
| `AspaVerifyProofs` | its verdict is that of the definition |

### How RtrSocket corresponds to the code

Fields of `struct rtr_socket` are variables of the same name.  `last_update` is
kept as the time since then (`age`, `NoUpdate` for 0), which saturates at the
bound `MaxAge`; `recs` is the set of this socket's records in the three shared
tables and `shadow` the one in the shadow tables, with the contract of the
tables (duplicate, unknown record, out of memory) in `Applicable`, `Apply` and
`AllocFails`.  `stored` holds the four PDU arrays of
`rtr_sync_receive_and_store_pdus`, `kidx` and `idx` the loop position of
`rtr_sync_update_tables`.  `before` is a history variable.

`pc` says where the thread is.  It stops where the code may block or be
cancelled: at the head of a branch of `rtr_fsm_start` (`fsm`), in the three
receives (`sync`, `store`, `wait`), in the sleeps (`sleep`, and `nodata`, which
cannot be cancelled), and after every change of a shared table: a PDU applied
(`update`, `undo_spki`, `undo_pfx`, `failed`), a table swapped in (`swap_pfx`,
`swap_spki`, `swap_aspa`, then `commit`), the records of a kind removed by
`rtr_purge_outdated_records` (`purge_open`, `purge_loop`) or by `rtr_stop`
(`joined`).  What the code does between two of those points is one action: `Open`,
for instance, includes `tr_open` and the query it sends.

Two details of the interleaving with `rtr_stop` matter.  `late` remembers the
state a handler was entered with when `rtr_stop` wrote `RTR_SHUTDOWN` during it:
`rtr_change_socket_state` tests and writes without a lock, so that its write may
be lost or may overwrite the shutdown, and both are possible in the model.  And
a blocking call entered before the stop may complete or be cancelled (`Awake`,
`Cancelled`).

The cache is part of the module.  It holds data per session and serial (`Data`),
answers a serial query with the difference or with a Cache Reset, a reset query
with everything, may send Serial Notify at any time, can become unreachable and
close the connection.  What it answers is chosen when the client reads it.  With
the fault `"cache"` it sends any PDU at any time instead.  Further faults, each
switched on by the constant `Faults`: memory outside (`alloc`) and inside
(`shadow`) the building and updating of shadow tables, the clock, interrupted calls
(`intr`), error PDUs, and a failing thread-start callback.

Left out: the contents of records beyond their identity and kind (the providers
of an ASPA record in particular), byte order, the length checks of each PDU type
(a malformed PDU is one outcome of the receive), the text of error PDUs, refresh
and retry intervals beyond the fact that the thread sleeps, other sockets'
records in the tables (see `PfxTable`, `SpkiTable`, `AspaTable`), and memory
failures of the ASPA table.

### How RtrMgr corresponds to the code

`groups` is the list in `config->groups`, which the code keeps sorted by
preference: a group is its preference value and the list is a set walked in
increasing order.  `status` is `group->status`; `state` and `last_update` (whether
it is not 0) are those of the sockets.  `thread` is `"none"` when `thread_id` is 0
and says otherwise how far that thread is; `cancel` holds the sockets whose
thread has been sent `pthread_cancel`.

The difficulty of this part is that callbacks of several threads read and write
the same statuses, states and thread ids without a lock.  Here steps are therefore
much finer than in `RtrSocket`: what a thread still has to do is a sequence of
tasks, `work[p]`, in effect its call stack.  A step takes the first task and puts
the tasks of the calls it makes in its place.  `rtr_stop`, for example, is `stop`
(write `RTR_SHUTDOWN`), `callback`, `cancel` (test `thread_id`), `join` and
`closed` (the last write).  Reading a status and writing it are always two steps;
a walk over the list under the read lock is one step, except in
`rtr_mgr_close_less_preferable_groups`, which stops sockets while it holds the
lock and takes one step for each group.  `rtr_mgr_add_group` and
`rtr_mgr_remove_group` enter the call in one step (`MgrAdd`, `MgrRemove`) and take
the write lock in another (`RunAdd`, `RunRemove`), for which they may have to wait.
The read lock lets other readers in even while a writer waits, as the default
`pthread_rwlock_t` of glibc does.  POSIX leaves this open, and `CallReturns` depends
on it: with a lock that keeps readers out behind a waiting writer, a thread in
`rtr_mgr_close_less_preferable_groups` joins, under the read lock, a thread whose
callback waits for that lock behind `rtr_mgr_remove_group`, and none of the three
goes on.

A socket thread runs one round of `rtr_fsm_start` per `Round`; the protocol
inside a round is `RtrSocket`'s matter, and what is left of it are the states a
round can end in (`Outcomes`).  Whether a session id is at hand when the thread
connects is left open.  `ERROR` stands for `RTR_ERROR_FATAL` and
`RTR_ERROR_TRANSPORT`, which are treated alike.  A thread can be cancelled in
`rtr_wait_for_sync`, its callback included, and in the sleep after an error.

What POSIX leaves undefined is not given a meaning: when a thread has been
created or joined twice (`thread[s] = "lost"`), or a freed group is still in use,
`Undefined` holds and no further step is taken.  `tr_free` in
`rtr_mgr_remove_group` is taken together with the freeing of the group.  The
application is one thread; the constants `Calls` and `Faults` say which functions
it calls and what may go wrong (caches in and out of reach, caches that answer
with errors, records that expire, threads that cannot be started).

Left out: `rtr_mgr_free`, failing allocations, the status callback of the
application, and calls of the application from inside a callback.

### How the tables correspond to the code

In `PfxTable`, `SpkiTable` and `AspaTable` each socket has a thread that works on
the shared table, or on its shadow table during a reset.  What the code does under
one write lock is one step.  Whatever comes after the lock is given back is a step
of its own: the callback of an addition, the second family of
`rtr_pfx_table_src_remove`, the differences told after a swap.  `told` is what an
application that follows the update callbacks believes.

`PfxTable`.  A trie is a function from positions to nodes; a position is the
sequence of turns from the root, so that the children of `pos` are `pos \o <<0>>`
and `pos \o <<1>>`.  Addresses have `W` bits.  `trie_insert` keeps a shorter
prefix above a longer one by exchanging the two, and `trie_remove` fills a hole
with a descendant, as the C code does by moving data between nodes.  The elements
of a node are a sequence, since `pfx_table_del_elem` and the reasons of a
validation go by its order.  `ForEachTest` is the look at the root before the lock
is taken.  If the last record goes in between, the assertion of
`pfx_table_for_each_rec` stops the thread; the model has no step there.

`SpkiTable`.  The hash table is a bucket per hash value (`BucketOf` is the hash,
which may collide) and the list a sequence; every operation changes both.
`Overlap` says, as in `PfxTable`, whether other sockets may change the table while
one resets: between its copy and its swap, and during `spki_table_notify_diff`,
which walks the list without the lock (what that race does is undefined).  The code
has no such guard.  `unsaid` has the keys removed without a callback.

`Bgpsec`.  The stream is a sequence of fields with widths, so that offsets are
counted in bytes as in the code and a wrong offset reads other fields.  A
signature is the key and the bytes it was made over; a key in `Broken` cannot be
loaded.  Updates are made by the functions that build and sign paths, of any of
the paths in `Paths`, then possibly changed on the way (`Arrives`).  One step of
the validation is one search of the key table; `seen` and `always` remember the
keys that were there at some time, and all the time, since the call.

`AspaTable`.  `order` is the list of nodes and `array` their arrays.  A link found
by `aspa_store_get_node` is the node before, whose `next` pointer it is, so that a
change of the list can lead it elsewhere.  `update_lock` is held from
`aspa_table_update_swap_in_compute` to apply or discard.  Each round of the merge
is a step (`KeepExisting`, `AddTwice`, `AddThenRemove`, `Add`, `AddFails`,
`RemoveUnknown`, `RemoveExisting`, `Finish`).  Entries remember where their
provider list came from, so that freeing a list shows in every array that has it.
With the fault `"alloc"` memory runs out for a record of the new array, or for a
node when records are replaced; earlier failures leave members of the update
uninitialised and are left out.

`AspaVerify`.  A call chooses a path, a direction and the records of all sockets.
The variables `r`, `l`, `rr`, `ll` are those of the code; one step looks at one
hop.  AS numbers have `AsnBits` bits, and `NotNegative` is the sign of their
difference in a word of that width.

`RecordTable` is the abstract specification of all three tables: a set of records,
initially empty, in which a step adds or removes one record, removes the records
of one socket in one part, puts any records of one socket in the place of its old
ones, or frees everything.  The third kind includes the first two, so what an
implementation of it shows is this: no step, whoever takes it, changes records of
two sockets, except freeing the table, and readers see no state between.

## 3. The runs

| Run | Checks | Instance | Distinct states |
|---|---|---|---|
| `Sync` | `Coherent`, `EstablishedIsSynced`, `SpeaksSessionVersion`, `ExpireInRange`, `AtomicReset`, `Recovers`, `StopReturns`, `Expires`, and the invariants `RollbackInv` and `CoherenceInv` of the proofs | conforming cache, two sessions of two serials and of two protocol versions, two prefixes and a router key; expire intervals offered below, in and above the range; faults alloc, intr, errors | 139,516 |
| `AnyCache` | `TypeOK`, `OpensClosed`, `RollbackExact` | a cache that sends anything, one record for each table, all faults | 1,428,072 |
| `MgrFailover` | `OneThread`, `Failover` | two groups of one socket; start; caches go and come back, records expire | 238,288 |
| `MgrCalls` | `CallReturns`, `Downhill`, `MakeBeforeBreak`, and the invariant `MgrInv` of the proofs | two groups of one socket; start, stop, add and remove in any order; caches out of reach from the start, records expire, threads fail to start | 437,574 |
| `Pfx` | `TrieShape`, `LookupExact`, `ValidateExact`, `ClientFollows`, `SocketGone`, `IsRecordTable` | addresses of three bits, six records of two sockets and two families, every route | 56,866 |
| `Aspa` | `ComputeExact`, `ArraysSorted`, `NoDangling`, `LinkHolds`, `ClientFollows`, `LockReleased`, `IsRecordTable` | three customers, two sockets, batches of up to three operations, resets, memory that runs out | 171,630 |
| `AspaPath` | `VerdictExact`, `HopExact`, and the invariant `LoopInv` of the proofs | all paths of up to four of three ASes with all tables, a path of five ASes with all tables on its hops, two sockets that differ, long lists of providers | 226,535 |
| `Keys` | `StructuresAgree`, `ClientFollows`, `RoundsExact`, `VerdictExact`, `IsRecordTable` | three keys of two sockets in one bucket, two of them with one identifier and one of these unusable; paths of one and three ASes with signatures of different lengths | 548,533 |

The bounds: two sessions, since a change of session is what turns an increment
into a reset, and the old and the new data must overlap in part for duplicates
and leftovers to show; two serials for an increment in both directions; two
records of one kind so that an update can fail after it changed something, and
one in another table so that the undo crosses tables.  `AnyCache` has one record
for each table and one PDU for each kind (`MaxPdus`), which already gives every
flag, duplicate and unknown record.  `MaxAge` is one more than the largest
expire interval: older makes no difference.  Time does not stop the state space
from being finite because `age` saturates.

For the manager two groups give fail-over and switch-back, and any set of caches
may be in reach at the start.  Where a cache can go out of reach and come back it
does so any number of times; in `MgrCalls` reach does not change, and groups fail
because their caches are out of reach from the start.  Nothing counts up in this
module, so it needs no bound.  Groups of several sockets, whose callbacks run side
by side, are too large for the runs with calls; the theorems of `RtrMgrProofs` cover
them, `CallReturns` and `Failover` are not shown for them.

For the tables two sockets are enough for one to disturb the other, and the
records are chosen so that they meet: nested, equal and disjoint prefixes of
every length from zero to the full address, one of them announced by both sockets
(`Pfx`); a batch of three operations on one customer, and customers below and
above it (`Aspa`); keys that share identifier and bucket (`Keys`).  Nothing counts
up, so that the whole state space is finite.  Two restrictions keep out what the
runs of the next section show: `Overlap = FALSE` in `Pfx` and `Keys`, which lets the
other socket change the table only outside the reset of the first, so that
`IsRecordTable` and `ClientFollows` are shown for that case only, and
`ReplaceMore = FALSE` in `Aspa`, which leaves out batches that replace a record and
go on with a larger customer.  In `AspaPath` AS numbers have four bits; `HopExact` excludes lists whose
members are half the number range or more apart, for which the comparison by
signed difference does not find what is there.

Deadlock is checked in `Sync`, `AnyCache`, `MgrFailover`, `Pfx` and `Keys`; there is
none, since the application can always start or stop a socket and sockets always
have something to update.  A call of `AspaPath` ends.  In `Aspa` a lost lock
(`ApplyNothing`) may stop every thread.  `MgrCalls` and
`MgrDocThread` reach `Undefined` states, which have no successor on purpose, and
switch the check off; `CallReturns`
stands in for it.

Fairness, in `FairSpec` of `RtrSocket`: the thread is scheduled (`WF` of `Thread`),
`pthread_join` returns when the thread has ended and `rtr_stop` goes on to its end
(`WF` of `StopEnd`), time passes (`WF` of `Tick`).  Nothing is assumed of the application, the network or
the cache, except that a cache which is reachable and owes an answer sends
something before the receive timeout: `ReceiveTimeout` needs a cache that owes
nothing or is out of reach.  `Recovers` says itself that the cache stays in reach
and that memory failures, interrupted calls and error PDUs end.

In `RtrMgr`, `FairSpec` says that every thread of a socket and the application,
once inside a call, is scheduled.  Caches need not come back and the application
need not call anything.  A thread that waits in `pthread_join` or for a lock has
no enabled step, so nothing is assumed about when it goes on.  `Failover` says
itself that the manager runs, that nothing undefined has happened, and that the
caches of one group stay in reach.  `CallReturns` excepts a stray thread, one
whose state was set to `RTR_CLOSED` while it runs: its loop has no
branch for that state and a join waits for it in vain.  It is not checked with
caches that answer with errors: a thread that overwrote `RTR_SHUTDOWN` and gets
nothing but error answers can go round without a point where it is cancelled.

In `AspaTable`, `FairSpec` says that a thread goes on with the update it has begun.
Nothing is assumed about who gets a lock.  `LockReleased` excepts the lock that is
lost when memory runs out.

### Where the code and its comments disagree

Each of these runs checks one sentence of the repository and ends in a
counterexample; `PROJECT.json` quotes the sentence.

| Run | Sentence | What happens |
|---|---|---|
| `SharedReset` | a reset is an atomic update by way of table copies | what another socket adds or removes between the copy and the swap is lost, or comes back |
| `SharedKeys` | the same sentence, for router keys | a key that another socket adds between the copy and the swap is told to the application and lost |
| `AspaReplace` | an announcement replaces the record of its customer | the merge does not move past the replaced record, so that the next operation on a larger customer copies it behind the new one, and its provider list is freed |
| `MgrDocThread` | `thread_id` is the thread of the socket | two error callbacks start the third group at once and its socket gets two threads |

`OneThread` thus holds with two groups and an application that only starts the
manager, and fails with three groups; both runs are kept, since the first says
that fail-over between two groups is right and the second which race breaks it.

The model shows some more that have no run of their own; each is a step or a
short behaviour of the module named:

* `RtrSocket`, against `rtr/rtr.h:116` ("Received records are deleted if the client
  was unable to refresh data for this time period"): a reset that does not finish
  has already set `last_update` to 0, and `rtr_purge_outdated_records` skips the
  socket from then on (`Expires` is about records of known age).
* `RtrSocket`: when the shadow tables of a reset cannot be built, `is_resetting` is
  cleared while the old records are in the tables, and the next answer is added to
  them (`EodShadowFails`; `Coherent` assumes memory for the shadow tables).
* `AspaTable`, against `aspa/aspa_private.h:121` ("Replaces all ASPA records
  associated with the given socket"): a reset whose answer has no ASPA record keeps
  the old ones (`EmptyReset`, `ReplaceFails`).
* `AspaTable`: an update that fails for want of memory is taken for a good one by
  `rtr_compute_update_aspa_table`, and `aspa_table_update_swap_in_apply` returns
  without giving `update_lock` back (`ApplyNothing`).
* `AspaTable`: `aspa/aspa_private.h:46-47` ("The caller attempts to add a record
  that's already present in the table (`ASPA_DUPLICATE_RECORD`)"), 67-68 and 195-196
  name an error for announcing a customer that has a record, and `aspa/aspa.h:57-59`
  says that the record is replaced.  The code and its tests replace it;
  `RTR_ASPA_DUPLICATE_RECORD` is returned for two announcements of one customer in a
  batch only (`AddTwice`), and `ComputeExact` follows the code.
* `SpkiTable`, against `spki/hashtable/ht-spkitable_private.h:27` ("Update function,
  called when the hashtable changes") and `spki/spkitable.h:57`:
  `spki_table_src_remove` and `spki_table_free` make no callback.  An application
  that follows the callbacks keeps those keys; `ClientFollows` excepts exactly them.
* `RtrSocket`, against `rtr/packets.c:1438` ("in order to perform an atomic update"):
  the tables are swapped in one after another, so that a reader of two tables can
  find the new prefixes together with the old router keys or ASPA records.  Each
  table by itself changes in one step, which is what `AtomicReset` says.
* `Bgpsec`: `rtr_bgpsec_validate_as_path` returns `RTR_BGPSEC_SUCCESS`, which is no
  verdict, when the keys of a signature are removed after `check_router_keys` has
  seen them.
* `RtrMgr`, against `rtr_mgr.h:25-27` ("will switch back and close connections"): a
  callback that writes back the `RTR_MGR_CLOSED` it read before another thread
  started the group leaves a running group that
  `rtr_mgr_close_less_preferable_groups` passes over.
* `RtrMgr`, against `rtr_mgr.h:221` ("Terminates all rtr_socket connections"): an
  error callback may start a group again that `rtr_mgr_stop` has already stopped.
* `RtrSocket`: `RTR_SHUTDOWN` can be overwritten by a write that was checked before
  `rtr_stop` (`late`; `StopReturns` holds all the same); a connection closed before
  any PDU does not lead to a downgrade, since `rtr_receive_pdu` never returns
  `RTR_TR_CLOSED`; a PDU of another version gives `RTR_ERROR` without a change of
  state (`ReceiveWrongVersion`).
* `RtrMgr`: a group whose status is, or is again, `RTR_MGR_CLOSED` while its thread
  runs is freed by `rtr_mgr_remove_group` without being stopped (an `Undefined`
  state); after stop and start a group that a late callback left in
  `RTR_MGR_CONNECTING` is never found inactive, so that `Failover` does not hold
  with `"stop"` in `Calls`; a socket started between the last two writes of
  `rtr_stop` runs with the state `RTR_CLOSED` (`Stray`).

## 4. The proofs

The theorems hold for all records, sessions, serials, data, intervals and
bounds that satisfy the named assumptions of `RtrSocket`, which only say what
the constants are (and that router keys come with protocol version 1 or 2 and
ASPA records with version 2).

* `TypeCorrect`: `Spec => []TypeOK`.
* `OpensOnlyClosed`: `Spec => []OpensClosed`, for any cache and all faults.  That
  the connection is down when the thread is about to open it is not inductive:
  `ClosedInv` adds the state a handler was entered with when `rtr_stop` interfered
  (`late`), and the places before and between connections.
* `ExpireStaysInRange`: `Spec => []ExpireInRange`.  Only `rtr_handle_eod_pdu` writes
  the interval, and what it writes is the value of `NegotiatedInterval`.
* `RollbackIsExact`: `Spec => []RollbackExact`, for any cache and all faults.
  The property speaks of the state where the undo is complete.  The invariant
  `RollbackInv` says, for every point of the update and the undo, that an
  applied PDU has turned its record around (`Turned`), that a record no applied
  PDU names is as before (`Untouched`), and which kinds have been restored
  (`Restored`).  It needs two facts about the loop: PDUs are stored with their
  kind, and the index is at most one past the end.
* `SocketCoherent`, `SocketEstablished`, `ResetIsAtomic`: `Coherent`,
  `EstablishedIsSynced` and `AtomicReset` (per table; across the tables it would be
  false), under the assumption `Conforming`:
  the cache follows the protocol, shadow tables can be built, the clock can be
  read.  All other faults may happen; without the assumption on shadow tables
  the statement is false (`EodShadowFails`).  `CoherenceInv` has one conjunct for
  each reason: what `request_session_id` implies in every state (`RequestInv`),
  that the PDUs stored and to come are the difference between what the cache
  believes the router has and the new data (`StreamInv`), that an update starts
  from what the cache believes (`StartInv`), that a socket without a session
  holds nothing unless it resets (`EmptyInv`).  At the end of `update` these and
  `RollbackInv` together give the new data, in the shadow tables after a reset;
  `SwapInv` says which tables hold them after each swap, up to `commit`.
  `RemoveInv` says which kinds a removal has already taken, and that only records of
  known age are purged.

For `RtrMgr` the theorems hold for any groups, any number of sockets in each, any
calls and all faults; the assumptions say that preferences are natural numbers,
that groups have sockets and that a socket belongs to its group.

* `MgrTypeCorrect`: `Spec => []MgrTypeOK`, which includes that every task of every
  thread is well formed.
* `MgrInvariant`: `Spec => []MgrInv`.  `Downhill` and `MakeBeforeBreak` speak of the
  first task of a thread only and are not inductive.  `MgrInv` says the same of
  everything a thread has still to do: an ESTABLISHED write or callback is pending
  only when the socket is synchronised, `close_less` only for the thread's own
  group, and the pieces of `rtr_stop` only for sockets of less preferable groups
  (`Sound`); and only a running thread has tasks, so that a join, which clears
  `last_update`, or the forgetting of records never meets pending tasks.
* `NoJoinCycle` and `SwitchKeepsData`: `Downhill` and `MakeBeforeBreak` follow.

Each kind of step has a lemma of its own (`CloseStep`, `JoinStep`, ...), which rest
on `TaskStep`: if the tasks a step puts in place are sound, all tasks are.

For `AspaVerify` the theorems hold for any set of calls: paths of any length, any
table, any width of AS numbers.

* `LoopsKeepInv`: `Spec => []LoopInv`.  The invariant says that the ramps found so
  far are ramps, that they do not cross, that the part of the gap already searched
  has no hop away from a provider, and that the last hop of each ramp is the one
  remembered.
* `VerdictIsExact`: `Spec => []VerdictExact`.  Where a loop returns, the invariant
  and the definition over all hops agree.  `NoLeakBetweenRamps` is the reason a gap
  of one hop is VALID.  What a single hop is (`aspa_check_hop`) is not opened here;
  `HopExact` is model-checked.

For `AspaTable` they hold for any sockets, customers, answers and faults, with
replacing batches too (`ReplaceMore` is arbitrary).

* `LockProtects`: `Spec => []IInv`.  A thread in the middle of an update holds the
  update lock of its table, its link leads to its own node, and it works on its own
  node; so a step of another thread cannot change what it has read (`OthersWork`).
* `LinksHold`: `Spec => []LinkHolds` follows.
* `RefinesRecordTable`: `Spec => IsRecordTable`.  Every step of a thread changes the
  array of its own socket at most (`OnlyOwn`, `CarryOwn`), which needs `IInv`: the
  node an update is swapped into is that of the thread's socket.

Checked by TLC only: the liveness properties `StopReturns`, `Expires`, `Recovers`,
`Failover`, `CallReturns` and `LockReleased`, which are out of the prover's reach;
`OneThread`, which needs its instance (it fails with three groups);
`SpeaksSessionVersion`; what is about recursive walks or folds over data (`PfxTable`
as a whole, `ComputeExact`, `HopExact`, `StructuresAgree`, `RoundsExact`,
`VerdictExact` of `Bgpsec`); and `ArraysSorted`, `NoDangling` and `ClientFollows`.

## 5. Not modelled

* **Transport.**  The loops of `tr_send_all` and `tr_recv_all`, the TCP and SSH
  transports: system and library calls with deadlines.  `RtrSocket` has the outcomes
  its callers can tell apart.  It reads whole PDUs: that a header of which only a
  part arrived before a timeout leaves the rest in the stream is not shown.
* **Bytes of PDUs.**  Byte order, the length checks of each PDU type, the layout and
  text of error PDUs.
* **Memory.**  The capacity of ASPA arrays (`aspa_array_reallocate`), an allocation
  that fails before the merge of an ASPA update, a reallocation that fails while it
  shrinks an array, the results of a key search that cannot grow
  (`spki_table_search_by_ski` frees them and leaves the pointer), the copy of the
  providers for a callback.
* **Freeing while in use.**  `rtr_pfx_table_free` looks at the root before it takes
  the lock; the models free a table when no socket works on it.
* **Callbacks that call back.**  `rtr_aspa_table_src_remove` calls the application
  while it holds its locks; callbacks in the models only take note.
* **Widths in BGPsec.**  Stream sizes and counters keep their width, but no path of
  the run comes near 255 segments or 65535 bytes.
* **Cryptography**, address parsing and printing, logging, the command line tools
  and the vendored containers, of which `SpkiTable` has the look-up in a bucket.
