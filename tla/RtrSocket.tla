------------------------------ MODULE RtrSocket ------------------------------
(***************************************************************************)
(* One RTR socket of the library: the state machine thread (rtr.c,         *)
(* rtr_fsm_start), the synchronisation it runs (packets.c, rtr_sync and    *)
(* what it calls), and the application calls rtr_start and rtr_stop that   *)
(* race with it.  The other end of the connection is a cache that answers  *)
(* queries from data it holds; what it sends is decided when the client    *)
(* reads it, which covers every earlier moment of decision because the     *)
(* data of a (session, serial) pair never changes.                         *)
(*                                                                         *)
(* The thread stops at the points where the code can block or be           *)
(* cancelled: `pc` says at which.  Everything between two such points is   *)
(* one step, except that every call that changes a shared table is a step  *)
(* of its own, since readers see what it leaves: a PDU applied by          *)
(* rtr_sync_update_tables, the swap of one table after a reset, and the    *)
(* removal of the socket's records from one table.                         *)
(***************************************************************************)
EXTENDS RtrIntervals, Sequences

CONSTANTS
    Record,         \* validation records a cache can send
    KindOf,         \* the PDU type of a record: [Record -> 1..4], below
    Session,        \* session ids
    Serial,         \* serial numbers
    Data,           \* the cache: [Session -> [Serial -> SUBSET Record]]
    VersionOf,      \* the protocol version a session of the cache is for
    IntervalMode,   \* iv_mode of the socket
    ExpirationMin,  \* RTR_EXPIRATION_MIN
    ExpirationMax,  \* RTR_EXPIRATION_MAX
    ExpireOffered,  \* expire intervals an EOD PDU may carry
    Faults,         \* which faults of the environment may happen, below
    MaxPdus,        \* bound: PDUs of a kind in one answer of a bad cache
    MaxAge          \* bound: age saturates here, above every expire interval

(* The four arrays of rtr_sync_receive_and_store_pdus, numbered in the      *)
(* order rtr_sync_update_tables works through them.                         *)
IPV4 == 1
IPV6 == 2
ROUTER_KEY == 3
ASPA == 4
Kinds == 1..4

AllFaults == {
    "cache",     \* the cache breaks the protocol
    "alloc",     \* an allocation fails outside the shadow tables
    "shadow",    \* an allocation fails while the shadow tables are built
    "clock",     \* rtr_get_monotonic_time fails
    "intr",      \* a receive call is interrupted (RTR_TR_INTR)
    "errors",    \* the cache sends error PDUs
    "callback"}  \* the application's thread-start callback reports an error

MinVersion == 0
MaxVersion == 2
Versions == MinVersion..MaxVersion

ASSUME KindAssumption == KindOf \in [Record -> Kinds]
ASSUME DataAssumption ==
    /\ Data \in [Session -> [Serial -> SUBSET Record]]
    /\ VersionOf \in [Session -> Versions]
    /\ \A i \in Session, s \in Serial : \A r \in Data[i][s] :
          /\ KindOf[r] = ASPA => VersionOf[i] = 2
          /\ KindOf[r] = ROUTER_KEY => VersionOf[i] >= 1
ASSUME SerialAssumption == Serial \subseteq Nat /\ 0 \in Serial
ASSUME IntervalAssumption ==
    /\ IntervalMode \in Modes
    /\ ExpirationMin \in Nat /\ ExpirationMax \in Nat
    /\ ExpirationMin <= ExpirationMax
    /\ ExpireOffered \subseteq Nat /\ ExpireOffered # {}
    /\ MaxAge \in Nat /\ \A e \in {ExpirationMax} \cup ExpireOffered : e < MaxAge
ASSUME FaultsAssumption == Faults \subseteq AllFaults
ASSUME MaxPdusAssumption == MaxPdus \in Nat

VARIABLES
    state,              \* rtr_socket.state
    request_session_id, \* rtr_socket.request_session_id
    session_id,         \* rtr_socket.session_id
    serial_number,      \* rtr_socket.serial_number
    age,                \* time since last_update, NoUpdate when that is 0
    expire_interval,    \* rtr_socket.expire_interval
    is_resetting,       \* rtr_socket.is_resetting
    version,            \* rtr_socket.version
    has_received_pdus,  \* rtr_socket.has_received_pdus
    recs,               \* this socket's records in the three shared tables
    shadow,             \* this socket's records in the shadow tables
    stored,             \* the PDUs stored until EOD, by kind
    kidx, idx,          \* the kind and the PDU that rtr_sync_update_tables is
                        \* at; kidx also the kind that is removed next
    undo_failed,        \* its local variable of that name
    before,             \* history: the tables when the update began
    pc,                 \* where the thread is; "none": thread_id = 0
    late,               \* state the thread read before rtr_stop wrote, or "no"
    stopping,           \* rtr_stop has cancelled the thread and joins it
    conn,               \* the transport: "down", "up", "closed" by the cache
    reach,              \* the cache can be reached
    phase,              \* what the cache owes: "idle", a query, or a stream
    sid, sn, todo       \* the response being streamed, PDUs still to come

sockVars == <<request_session_id, session_id, serial_number, age, is_resetting>>
verVars == <<version, has_received_pdus>>
syncVars == <<shadow, stored, kidx, idx, undo_failed, before>>
respVars == <<sid, sn, todo>>
netVars == <<conn, phase, sid, sn, todo>>
vars == <<state, sockVars, expire_interval, verVars, recs, syncVars, pc, late,
          stopping, netVars, reach>>

States == {"CONNECTING", "ESTABLISHED", "RESET", "SYNC", "FAST_RECONNECT",
           "ERROR_NO_DATA_AVAIL", "ERROR_NO_INCR_UPDATE_AVAIL", "ERROR_FATAL",
           "ERROR_TRANSPORT", "SHUTDOWN", "CLOSED"}
Receiving == {"sync", "store", "wait"}
PurgePCs == {"purge_open", "purge_loop"}
SwapPCs == {"swap_pfx", "swap_spki", "swap_aspa"}
PCs == {"none", "start", "begin", "fsm", "open", "update", "undo_spki",
        "undo_pfx", "failed", "commit", "sleep", "nodata", "exit", "joined"}
       \cup Receiving \cup PurgePCs \cup SwapPCs

NoUpdate == -1
\* 1 and 0 as in the PDUs; 2 stands for the contents the code refuses: other
\* flags of a prefix or router key, an ASPA announcement without providers.
PDU == [rec : Record, flags : 0..2]
NoPdus == [k \in Kinds |-> <<>>]

(***************************************************************************)
(* Records by table, and the tables an update works on: the shared ones,   *)
(* or the shadow copies while the socket is resetting.                     *)
(***************************************************************************)
OfKind(S, K) == {r \in S : KindOf[r] \in K}
PfxKinds == {IPV4, IPV6}
SpkiKinds == {ROUTER_KEY}
AspaKinds == {ASPA}

Target == IF is_resetting THEN shadow ELSE recs
\* Faulty variant: a reset works on the shared tables.
WriteTargetShared(S) == recs' = S /\ UNCHANGED shadow
WriteTarget(S) ==
    IF is_resetting THEN shadow' = S /\ UNCHANGED recs
                    ELSE recs' = S /\ UNCHANGED shadow

(* What a cache that follows the protocol sends to take a router from S to T. *)
Delta(S, T) == [rec : T \ S, flags : {1}] \cup [rec : S \ T, flags : {0}]

Init ==
    /\ state = "CLOSED" /\ pc = "none" /\ late = "no" /\ stopping = FALSE
    /\ request_session_id = TRUE /\ session_id \in Session
    /\ serial_number = 0 /\ age = NoUpdate /\ is_resetting = FALSE
    /\ expire_interval \in ExpirationMin..ExpirationMax
    /\ version = MaxVersion /\ has_received_pdus = FALSE
    /\ recs = {} /\ shadow = {} /\ stored = NoPdus
    /\ kidx = IPV4 /\ idx = 1 /\ undo_failed = FALSE /\ before = {}
    /\ conn = "down" /\ reach = TRUE /\ phase = "idle"
    /\ sid \in Session /\ sn = 0 /\ todo = {}
-----------------------------------------------------------------------------
(***************************************************************************)
(* Steps shared by the handlers of the thread.                             *)
(***************************************************************************)

\* The state the handler in progress was entered with.  It differs from
\* `state` while rtr_stop has written RTR_SHUTDOWN behind the handler's back.
Seen == IF late = "no" THEN state ELSE late

\* Reads the state and then writes it, without a lock: a write that was
\* checked before rtr_stop may land after it.
rtr_change_socket_state(new) ==
    /\ late' = "no"
    /\ IF late = "no"
       THEN state' = IF state = "SHUTDOWN" THEN state ELSE new
       ELSE state' \in {new, state}

\* Back to the head of the while loop of rtr_fsm_start; SYNC and ESTABLISHED
\* begin with a blocking receive.
Dispatch(s) ==
    IF s = "SYNC" THEN "sync" ELSE IF s = "ESTABLISHED" THEN "wait" ELSE "fsm"
Loop == pc' = Dispatch(state')

ChangeAndLoop(new) == rtr_change_socket_state(new) /\ Loop
StayAndLoop == late' = "no" /\ UNCHANGED state /\ Loop

\* recv_loop_cleanup, and the end of the locals of rtr_sync_update_tables.
recv_loop_cleanup ==
    /\ stored' = NoPdus /\ shadow' = {} /\ before' = {}
    /\ kidx' = IPV4 /\ idx' = 1 /\ undo_failed' = FALSE

tr_close == conn' = "down" /\ phase' = "idle" /\ todo' = {} /\ UNCHANGED <<sid, sn>>

ClockOutcome == IF "clock" \in Faults THEN BOOLEAN ELSE {TRUE}

\* Faulty variant: records never expire.
OutdatedNever(clock_ok) == age # NoUpdate /\ ~clock_ok

\* clock_ok: what rtr_get_monotonic_time reports.
Outdated(clock_ok) ==
    age # NoUpdate /\ (~clock_ok \/ age > expire_interval)

\* rtr_purge_outdated_records up to the first removal: the thread goes to
\* `purge`, or on to `next` when there is nothing to purge.
rtr_purge_outdated_records(purge, next) ==
    \E clock_ok \in ClockOutcome :
        pc' = IF Outdated(clock_ok) THEN purge ELSE next

\* The calls rtr_pfx_table_src_remove (a family at a time), spki_table_src_remove
\* and rtr_aspa_table_src_remove, each under the lock of its own table.
src_remove == recs' = recs \ OfKind(recs, {kidx})

\* One of them that is not the last, at one of the given places.
RemoveKind(places) ==
    /\ pc \in places /\ kidx # ASPA
    /\ src_remove /\ kidx' = kidx + 1
    /\ UNCHANGED <<state, sockVars, expire_interval, verVars, shadow, stored, idx,
                   undo_failed, before, pc, late, stopping, netVars, reach>>

PurgeKind == RemoveKind(PurgePCs)

\* The last removal and the rest of rtr_purge_outdated_records.
PurgeDone ==
    /\ pc \in PurgePCs /\ kidx = ASPA
    /\ src_remove /\ kidx' = IPV4
    /\ request_session_id' = TRUE /\ serial_number' = 0 /\ age' = NoUpdate
    /\ is_resetting' = TRUE
    /\ pc' = IF pc = "purge_open" THEN "open" ELSE Dispatch(state)
    /\ UNCHANGED <<state, session_id, expire_interval, verVars, shadow, stored, idx,
                   undo_failed, before, late, stopping, netVars, reach>>

Connected == conn = "up" /\ reach

\* A blocking call that was entered before rtr_stop may still complete; one
\* that is entered after it is cancelled.
Awake == ~stopping \/ late # "no"
-----------------------------------------------------------------------------
(***************************************************************************)
(* rtr_start and rtr_stop, called one after the other by the application   *)
(* (or by the connection manager on its behalf).                           *)
(***************************************************************************)
rtr_start ==
    /\ pc = "none" /\ ~stopping
    /\ pc' = "start"
    /\ UNCHANGED <<state, sockVars, expire_interval, verVars, recs, syncVars,
                   late, stopping, netVars, reach>>

\* rtr_stop on a socket without a thread only writes the state.
StopIdle ==
    /\ pc = "none" /\ ~stopping
    /\ state' = "SHUTDOWN"
    /\ UNCHANGED <<sockVars, expire_interval, verVars, recs, syncVars, pc,
                   late, stopping, netVars, reach>>

\* rtr_stop up to pthread_join.  The handler in progress may have read the
\* state before, and a call it blocks in may be about to return.
StopCall ==
    /\ pc \notin {"none", "joined"} /\ ~stopping
    /\ state' = "SHUTDOWN" /\ stopping' = TRUE
    /\ late' \in IF pc \in {"start", "begin", "nodata", "exit"} \cup PurgePCs
                 THEN {"no"} ELSE {"no", Seen}
    /\ UNCHANGED <<sockVars, expire_interval, verVars, recs, syncVars, pc,
                   netVars, reach>>

\* pthread_join returns: rtr_stop up to the first removal; is_resetting stays.
StopJoin ==
    /\ stopping /\ pc = "exit"
    /\ tr_close
    /\ request_session_id' = TRUE /\ serial_number' = 0 /\ age' = NoUpdate
    /\ pc' = "joined"
    /\ UNCHANGED <<state, session_id, is_resetting, expire_interval, verVars, recs,
                   syncVars, late, stopping, reach>>

StopKind == RemoveKind({"joined"})

\* The last removal and the rest of rtr_stop.
StopDone ==
    /\ pc = "joined" /\ kidx = ASPA
    /\ src_remove /\ kidx' = IPV4
    /\ pc' = "none" /\ state' = "CLOSED" /\ stopping' = FALSE
    /\ UNCHANGED <<sockVars, expire_interval, verVars, shadow, stored, idx,
                   undo_failed, before, late, netVars, reach>>

\* Faulty variant: the thread cannot be cancelled while it reads a stream.
CancelledNotInStore ==
    /\ stopping /\ pc \in {"wait", "sleep"}
    /\ pc' = "exit" /\ late' = "no"
    /\ recv_loop_cleanup
    /\ UNCHANGED <<state, sockVars, expire_interval, verVars, recs, stopping,
                   netVars, reach>>

\* The thread is cancelled where cancellation is enabled: in rtr_receive_pdu
\* and in the sleeps of ERROR_TRANSPORT and ERROR_FATAL.
Cancelled ==
    /\ stopping /\ pc \in Receiving \cup {"sleep"}
    /\ pc' = "exit" /\ late' = "no"
    /\ recv_loop_cleanup
    /\ UNCHANGED <<state, sockVars, expire_interval, verVars, recs, stopping,
                   netVars, reach>>
-----------------------------------------------------------------------------
(***************************************************************************)
(* rtr_fsm_start: entry, and one action per branch of its loop.            *)
(***************************************************************************)
ThreadStart ==
    /\ pc = "start"
    /\ pc' = IF state = "SHUTDOWN" THEN "exit" ELSE "begin"
    /\ UNCHANGED <<state, sockVars, expire_interval, verVars, recs, syncVars,
                   late, stopping, netVars, reach>>

\* The start callback, then an assignment to the state that checks nothing.
ThreadBegin ==
    /\ pc = "begin"
    /\ \/ state' = "CONNECTING" /\ pc' = "fsm"
       \/ "callback" \in Faults /\ UNCHANGED state /\ pc' = "exit"
    /\ UNCHANGED <<sockVars, expire_interval, verVars, recs, syncVars, late,
                   stopping, netVars, reach>>

\* CONNECTING up to tr_open; in a new connection the cache owes nothing.
Connecting ==
    /\ pc = "fsm" /\ Seen = "CONNECTING"
    /\ has_received_pdus' = FALSE
    /\ rtr_purge_outdated_records("purge_open", "open")
    /\ late' = "no" /\ phase' = "idle"
    /\ UNCHANGED <<state, sockVars, expire_interval, version, recs, syncVars,
                   stopping, conn, respVars, reach>>

\* tr_open succeeds when the cache can be reached.  A serial query that
\* cannot be sent sets ERROR_TRANSPORT and then ERROR_FATAL.
Open ==
    /\ pc = "open"
    /\ \/ /\ ~reach
          /\ UNCHANGED <<conn, phase>>
          /\ ChangeAndLoop("ERROR_TRANSPORT")
       \/ /\ reach
          /\ conn' = "up"
          /\ IF request_session_id
             THEN ChangeAndLoop("RESET") /\ UNCHANGED phase
             ELSE ChangeAndLoop("SYNC") /\ phase' = "serial"
       \/ /\ reach /\ ~request_session_id
          /\ conn' = "up" /\ UNCHANGED phase
          /\ ChangeAndLoop("ERROR_FATAL")
    /\ UNCHANGED <<sockVars, expire_interval, verVars, recs, syncVars, stopping,
                   respVars, reach>>

\* rtr_send_serial_query and rtr_send_reset_query in an open connection.
SendQuery(query) ==
    \/ Connected /\ phase' = query /\ ChangeAndLoop("SYNC")
    \/ ~Connected /\ UNCHANGED phase /\ ChangeAndLoop("ERROR_TRANSPORT")

Reset ==
    /\ pc = "fsm" /\ Seen = "RESET"
    /\ SendQuery("reset")
    /\ UNCHANGED <<sockVars, expire_interval, verVars, recs, syncVars, stopping,
                   conn, respVars, reach>>

\* Faulty variant: the old connection stays open.
FastReconnectOpen ==
    /\ pc = "fsm" /\ Seen = "FAST_RECONNECT"
    /\ ChangeAndLoop("CONNECTING")
    /\ UNCHANGED <<sockVars, expire_interval, verVars, recs, syncVars, stopping,
                   netVars, reach>>

FastReconnect ==
    /\ pc = "fsm" /\ Seen = "FAST_RECONNECT"
    /\ tr_close /\ ChangeAndLoop("CONNECTING")
    /\ UNCHANGED <<sockVars, expire_interval, verVars, recs, syncVars, stopping,
                   reach>>

\* ERROR_TRANSPORT and ERROR_FATAL sleep with the state already CONNECTING.
ErrorClose ==
    /\ pc = "fsm" /\ Seen \in {"ERROR_TRANSPORT", "ERROR_FATAL"}
    /\ tr_close /\ rtr_change_socket_state("CONNECTING") /\ pc' = "sleep"
    /\ UNCHANGED <<sockVars, expire_interval, verVars, recs, syncVars, stopping,
                   reach>>

SleepDone ==
    /\ pc = "sleep" /\ Awake
    /\ StayAndLoop
    /\ UNCHANGED <<sockVars, expire_interval, verVars, recs, syncVars, stopping,
                   netVars, reach>>

\* ERROR_NO_DATA_AVAIL up to its sleep, which cannot be cancelled.
NoData ==
    /\ pc = "fsm" /\ Seen = "ERROR_NO_DATA_AVAIL"
    /\ request_session_id' = TRUE /\ serial_number' = 0
    /\ rtr_change_socket_state("RESET") /\ pc' = "nodata"
    /\ UNCHANGED <<session_id, age, is_resetting, expire_interval, verVars, recs,
                   syncVars, stopping, netVars, reach>>

NoDataWake ==
    /\ pc = "nodata"
    /\ late' = "no"
    /\ rtr_purge_outdated_records("purge_loop", Dispatch(state))
    /\ UNCHANGED <<state, sockVars, expire_interval, verVars, recs, syncVars,
                   stopping, netVars, reach>>

NoIncrUpdate ==
    /\ pc = "fsm" /\ Seen = "ERROR_NO_INCR_UPDATE_AVAIL"
    /\ request_session_id' = TRUE /\ serial_number' = 0
    /\ rtr_change_socket_state("RESET")
    /\ rtr_purge_outdated_records("purge_loop", Dispatch(state'))
    /\ UNCHANGED <<session_id, age, is_resetting, expire_interval, verVars, recs,
                   syncVars, stopping, netVars, reach>>

Shutdown ==
    /\ pc = "fsm" /\ Seen = "SHUTDOWN"
    /\ pc' = "exit" /\ late' = "no"
    /\ UNCHANGED <<state, sockVars, expire_interval, verVars, recs, syncVars,
                   stopping, netVars, reach>>
-----------------------------------------------------------------------------
(***************************************************************************)
(* rtr_receive_pdu, and what its three callers do with the outcome:        *)
(* rtr_sync (pc = "sync"), rtr_sync_receive_and_store_pdus ("store") and   *)
(* rtr_wait_for_sync ("wait").  Leaving "store" drops the stored PDUs.     *)
(***************************************************************************)

Misbehaves == "cache" \in Faults

\* The protocol versions the cache speaks.
CacheVersions == IF Misbehaves THEN Versions ELSE {VersionOf[i] : i \in Session}

\* The header of a PDU of version ver has arrived.  The first one of a
\* connection may lower the version of the socket.
HeaderRead(ver) ==
    /\ has_received_pdus' = TRUE
    /\ version' = IF ~has_received_pdus /\ ver < version THEN ver ELSE version

\* Faulty variant: takes PDUs of any version.
ReceiveAnyVersion(ver) == Connected /\ Awake /\ HeaderRead(ver)

\* A PDU of the version ver, the one the socket speaks, is read.
rtr_receive_pdu(ver) == Connected /\ Awake /\ HeaderRead(ver) /\ ver = version'

\* A receive that fails before or after the header.
ReceiveFails ==
    /\ pc \in Receiving
    /\ UNCHANGED verVars \/ \E ver \in CacheVersions : HeaderRead(ver)
    /\ recv_loop_cleanup
    /\ UNCHANGED <<sockVars, expire_interval, recs, stopping, netVars, reach>>

\* The cache owes an answer or the rest of one, and is there to send it.
Owes == Connected /\ phase # "idle"

\* No PDU within the timeout.  In "wait" that is the refresh interval, see
\* RefreshTimeout.
ReceiveTimeout ==
    /\ pc \in {"sync", "store"} /\ ~Owes /\ Awake
    /\ ReceiveFails
    /\ ChangeAndLoop("ERROR_TRANSPORT")

\* The transport reports an error.
ReceiveError ==
    /\ ~Connected /\ Awake
    /\ ReceiveFails
    /\ ChangeAndLoop("ERROR_TRANSPORT")

\* The cache has closed the connection, or its data is malformed.
ReceiveFatal ==
    /\ conn = "closed" \/ (Misbehaves /\ Connected)
    /\ Awake
    /\ ReceiveFails
    /\ ChangeAndLoop("ERROR_FATAL")

\* An interrupted call and a socket in RTR_SHUTDOWN end the caller with an
\* error that leaves the state alone.
ReceiveNothing ==
    /\ ("intr" \in Faults /\ Awake) \/ state = "SHUTDOWN"
    /\ ReceiveFails
    /\ StayAndLoop

\* A PDU of another version than the socket's, or an ASPA PDU of version 0 or
\* 1, is answered with an error PDU; here, too, the state stays as it is.
ReceiveWrongVersion ==
    /\ Misbehaves /\ pc \in Receiving
    /\ Connected /\ Awake
    /\ \E ver \in Versions : HeaderRead(ver) /\ (ver # version' \/ version' # 2)
    /\ recv_loop_cleanup /\ StayAndLoop
    /\ UNCHANGED <<sockVars, expire_interval, recs, stopping, netVars, reach>>

\* Serial Notify is ignored while a synchronisation runs.
IgnoreNotify ==
    /\ pc \in {"sync", "store"}
    /\ \E ver \in CacheVersions : rtr_receive_pdu(ver)
    /\ late' = "no"
    /\ UNCHANGED <<state, sockVars, expire_interval, recs, syncVars, pc, stopping,
                   netVars, reach>>

\* rtr_handle_error_pdu.  Its version is not compared with the socket's.
rtr_handle_error_pdu ==
    /\ pc \in {"sync", "store"} /\ "errors" \in Faults
    /\ Connected /\ Awake
    /\ has_received_pdus' = TRUE
    /\ \/ ChangeAndLoop("ERROR_NO_DATA_AVAIL") /\ UNCHANGED version
       \/ ChangeAndLoop("ERROR_FATAL") /\ UNCHANGED version
       \/ \E ver \in CacheVersions :
             /\ ver < version /\ version' = ver
             /\ ChangeAndLoop("FAST_RECONNECT")
    /\ recv_loop_cleanup
    /\ phase' = "idle" /\ todo' = {}
    /\ UNCHANGED <<sockVars, expire_interval, recs, stopping, conn, sid, sn, reach>>

CacheReset ==
    /\ pc = "sync" /\ (phase = "serial" \/ Misbehaves)
    /\ \E ver \in CacheVersions : rtr_receive_pdu(ver)
    /\ ChangeAndLoop("ERROR_NO_INCR_UPDATE_AVAIL")
    /\ phase' = "idle"
    /\ UNCHANGED <<sockVars, expire_interval, recs, syncVars, stopping, conn,
                   respVars, reach>>

\* What a cache answers: the difference to a serial of the session that was
\* asked for, or all data of a serial of any session of a version the router
\* speaks.  The data is that of (i, s) when the answer is complete.
Answers(i, s) ==
    /\ rtr_receive_pdu(VersionOf[i])
    /\ phase' = "payload" /\ sid' = i /\ sn' = s
    /\ \/ /\ phase = "serial" /\ i = session_id
          /\ todo' = Delta(Data[i][serial_number], Data[i][s])
       \/ /\ phase = "reset"
          /\ todo' = Delta({}, Data[i][s])
       \/ /\ Misbehaves
          /\ todo' = {}

\* Faulty variant: the first PDU of a full answer does not start a reset.
StartsNoReset == is_resetting

\* A full answer replaces the data of an earlier update, if there was one.
StartsReset == is_resetting \/ age # NoUpdate

\* rtr_handle_cache_response_pdu, whose result rtr_sync does not look at: after
\* a wrong session id, too, the PDUs that follow are read and stored.
rtr_handle_cache_response_pdu ==
    /\ pc = "sync" /\ pc' = "store"
    /\ \E i \in Session, s \in Serial :
          /\ Answers(i, s)
          /\ IF request_session_id
             THEN /\ session_id' = i
                  /\ age' = NoUpdate
                  /\ is_resetting' = StartsReset
                  /\ late' = "no" /\ UNCHANGED state
             ELSE /\ UNCHANGED <<session_id, age, is_resetting>>
                  /\ IF i = session_id
                     THEN late' = "no" /\ UNCHANGED state
                     ELSE rtr_change_socket_state("ERROR_FATAL")
    /\ UNCHANGED <<request_session_id, serial_number, expire_interval, recs,
                   syncVars, stopping, conn, reach>>

\* The next PDU of the stream, and the end of it.
NextPdu(p) ==
    \/ phase = "payload" /\ p \in todo /\ todo' = todo \ {p}
    \/ Misbehaves /\ UNCHANGED todo
StreamEnds ==
    \/ phase = "payload" /\ todo = {} /\ phase' = "idle"
    \/ Misbehaves /\ UNCHANGED phase
StreamVersion == IF Misbehaves THEN version ELSE VersionOf[sid]

\* A PDU that does not belong here is answered with an error PDU and changes
\* no state.  In rtr_sync these are also the PDUs of a stream whose reader
\* was interrupted.
UnexpectedPdu ==
    /\ pc \in {"sync", "store"} /\ (pc = "sync" \/ Misbehaves)
    /\ rtr_receive_pdu(StreamVersion)
    /\ \/ (\E p \in PDU : NextPdu(p)) /\ UNCHANGED phase
       \/ StreamEnds /\ UNCHANGED todo
    /\ recv_loop_cleanup /\ StayAndLoop
    /\ UNCHANGED <<sockVars, expire_interval, recs, stopping, conn, sid, sn, reach>>

\* rtr_store_prefix_pdu, rtr_store_router_key_pdu and rtr_store_aspa_pdu.
StorePdu ==
    /\ pc = "store"
    /\ rtr_receive_pdu(StreamVersion)
    /\ \E p \in PDU :
          /\ NextPdu(p)
          /\ KindOf[p.rec] = ASPA => version' = 2
          /\ Misbehaves => Len(stored[KindOf[p.rec]]) < MaxPdus
          /\ stored' = [stored EXCEPT ![KindOf[p.rec]] = Append(@, p)]
    /\ late' = "no"
    /\ UNCHANGED <<state, sockVars, expire_interval, recs, shadow, kidx, idx,
                   undo_failed, before, pc, stopping, conn, phase, sid, sn, reach>>

StoreFails ==
    /\ pc = "store" /\ "alloc" \in Faults
    /\ rtr_receive_pdu(StreamVersion)
    /\ \E p \in PDU : NextPdu(p)
    /\ recv_loop_cleanup /\ ChangeAndLoop("ERROR_FATAL")
    /\ UNCHANGED <<sockVars, expire_interval, recs, stopping, conn, phase, sid, sn,
                   reach>>

\* A PDU other than Serial Notify in state ESTABLISHED, error PDUs included,
\* only makes the loop wait again.
WaitOther ==
    /\ pc = "wait" /\ Connected /\ Awake
    /\ has_received_pdus' = TRUE /\ UNCHANGED version
    /\ StayAndLoop
    /\ UNCHANGED <<sockVars, expire_interval, recs, syncVars, stopping, netVars,
                   reach>>

\* A Serial Notify, or the end of the refresh interval: the next serial query.
WaitNotify ==
    /\ pc = "wait"
    /\ \E ver \in CacheVersions : rtr_receive_pdu(ver)
    /\ SendQuery("serial")
    /\ UNCHANGED <<sockVars, expire_interval, recs, syncVars, stopping, conn,
                   respVars, reach>>

RefreshTimeout ==
    /\ pc = "wait" /\ conn = "up" /\ Awake
    /\ SendQuery("serial")
    /\ UNCHANGED <<sockVars, expire_interval, verVars, recs, syncVars, stopping,
                   conn, respVars, reach>>
-----------------------------------------------------------------------------
(***************************************************************************)
(* End of Data: rtr_handle_eod_pdu, the choice of the tables to update,    *)
(* rtr_sync_update_tables one PDU at a time, and its undo.                 *)
(***************************************************************************)
EodPdu(i, s) ==
    /\ pc = "store"
    /\ rtr_receive_pdu(StreamVersion)
    /\ StreamEnds /\ UNCHANGED todo
    /\ (i = sid /\ s = sn) \/ Misbehaves

EodWrongSession ==
    /\ \E i \in Session, s \in Serial : EodPdu(i, s) /\ i # session_id
    /\ recv_loop_cleanup /\ ChangeAndLoop("ERROR_FATAL")
    /\ UNCHANGED <<sockVars, expire_interval, recs, stopping, conn, sid, sn, reach>>

rtr_handle_eod_pdu(s) ==
    /\ EodPdu(session_id, s)
    /\ sn' = s
    /\ \E e \in ExpireOffered :
          expire_interval' = NegotiatedInterval(version', IntervalMode,
                               expire_interval, e, ExpirationMin, ExpirationMax)
    /\ UNCHANGED <<request_session_id, session_id, serial_number, age, recs,
                   stopping, conn, sid, reach>>

\* The shadow tables hold none of this socket's records to begin with.
Eod ==
    /\ \E s \in Serial : rtr_handle_eod_pdu(s)
    /\ pc' = "update" /\ late' = "no" /\ shadow' = {}
    /\ before' = IF is_resetting THEN {} ELSE recs
    /\ UNCHANGED <<state, is_resetting, stored, kidx, idx, undo_failed>>

\* The shadow tables cannot be made: some of the paths set the state, others
\* do not, and all of them end the reset.
EodShadowFails ==
    /\ "shadow" \in Faults /\ is_resetting
    /\ \E s \in Serial : rtr_handle_eod_pdu(s)
    /\ is_resetting' = FALSE
    /\ ChangeAndLoop("ERROR_FATAL") \/ StayAndLoop
    /\ recv_loop_cleanup

\* An operation on the prefix or router key table that needs memory; removing
\* a router key needs none.
AllocFails(k, flags) ==
    /\ (IF is_resetting THEN "shadow" ELSE "alloc") \in Faults
    /\ k \in PfxKinds \/ flags = 1

\* An announcement of a record of the table is a duplicate, a withdrawal of
\* any other is unknown.
Applicable(p) == p.flags = (IF p.rec \in Target THEN 0 ELSE 1)
Apply(p) == IF p.flags = 1 THEN Target \cup {p.rec} ELSE Target \ {p.rec}

Updating == pc = "update" /\ late' = "no"
UpdateUnchanged ==
    UNCHANGED <<state, sockVars, expire_interval, verVars, stored, before,
                stopping, netVars, reach>>

\* rtr_update_pfx_table or rtr_update_spki_table for one PDU.
UpdateRecord ==
    /\ Updating /\ kidx # ASPA /\ idx <= Len(stored[kidx])
    /\ Applicable(stored[kidx][idx])
    /\ WriteTarget(Apply(stored[kidx][idx]))
    /\ idx' = idx + 1
    /\ UpdateUnchanged /\ UNCHANGED <<kidx, pc, undo_failed>>

UpdateFails ==
    /\ Updating /\ kidx # ASPA /\ idx <= Len(stored[kidx])
    /\ \/ ~Applicable(stored[kidx][idx])
       \/ AllocFails(kidx, stored[kidx][idx].flags)
    /\ pc' = IF kidx = ROUTER_KEY THEN "undo_spki" ELSE "undo_pfx"
    /\ UpdateUnchanged /\ UNCHANGED <<recs, shadow, kidx, idx, undo_failed>>

\* Faulty variant: goes on after the last kind.
NextKindPastEnd ==
    /\ Updating /\ idx > Len(stored[kidx])
    /\ kidx' = kidx + 1 /\ idx' = 1
    /\ UpdateUnchanged /\ UNCHANGED <<recs, shadow, pc, undo_failed>>

NextKind ==
    /\ Updating /\ kidx # ASPA /\ idx > Len(stored[kidx])
    /\ kidx' = kidx + 1 /\ idx' = 1
    /\ UpdateUnchanged /\ UNCHANGED <<recs, shadow, pc, undo_failed>>

(***************************************************************************)
(* The ASPA PDUs take effect together or not at all: they are sorted by    *)
(* customer, and those of one customer keep their order.  Two equal ones   *)
(* in a row are a duplicate or unknown, as is a first withdrawal of a      *)
(* customer the table does not have; an announcement of one it has         *)
(* replaces it.  A record is a customer here, its providers are left out.  *)
(***************************************************************************)
Positions(q, r) == {i \in DOMAIN q : q[i].rec = r}
NextPosition(q, i, j) ==
    /\ i < j /\ q[i].rec = q[j].rec
    /\ \A m \in Positions(q, q[i].rec) : ~(i < m /\ m < j)
LastFlags(q, r) ==
    q[CHOOSE i \in Positions(q, r) : \A j \in Positions(q, r) : j <= i].flags

AspaUpdateValid(q) ==
    /\ \A i \in DOMAIN q : q[i].flags # 2
    /\ \A i, j \in DOMAIN q : NextPosition(q, i, j) => q[i].flags # q[j].flags
    /\ \A i \in DOMAIN q :
          (q[i].flags = 0 /\ \A j \in Positions(q, q[i].rec) : i <= j) =>
             q[i].rec \in Target
AspaUpdate(q) ==
    {r \in Record : IF Positions(q, r) = {} THEN r \in Target
                                            ELSE LastFlags(q, r) = 1}

rtr_compute_update_aspa_table ==
    /\ Updating /\ kidx = ASPA
    /\ IF AspaUpdateValid(stored[ASPA])
       THEN /\ WriteTarget(AspaUpdate(stored[ASPA]))
            /\ pc' = IF is_resetting THEN "swap_pfx" ELSE "commit"
       ELSE UNCHANGED <<recs, shadow>> /\ pc' = "undo_spki"
    /\ UpdateUnchanged /\ UNCHANGED <<kidx, idx, undo_failed>>
-----------------------------------------------------------------------------
(***************************************************************************)
(* Undo.  The PDUs applied so far are inverted in the order they were      *)
(* applied in; an inverse that is a duplicate or unknown is passed over,   *)
(* so that the last PDU of a record decides.  When memory runs out all     *)
(* records of the socket in that table go instead.                         *)
(***************************************************************************)
\* Faulty variant: the last PDU that was applied is not undone.
AppliedShort(k) ==
    IF k < kidx THEN stored[k]
    ELSE IF k = kidx THEN SubSeq(stored[k], 1, idx - 2) ELSE <<>>

Applied(k) ==
    IF k < kidx THEN stored[k]
    ELSE IF k = kidx THEN SubSeq(stored[k], 1, idx - 1) ELSE <<>>

\* Faulty variant: repeats the PDUs instead of inverting them.
InvertedNot(q) ==
    {r \in Record : IF Positions(q, r) = {} THEN r \in Target
                                            ELSE LastFlags(q, r) = 1}

Inverted(q) ==
    {r \in Record : IF Positions(q, r) = {} THEN r \in Target
                                            ELSE LastFlags(q, r) = 0}

UndoBatch(q, kinds, next) ==
    /\ \/ WriteTarget(Inverted(q)) /\ UNCHANGED undo_failed
       \/ /\ \E i \in DOMAIN q : AllocFails(KindOf[q[i].rec], 1 - q[i].flags)
          /\ WriteTarget(Target \ OfKind(Record, kinds)) /\ undo_failed' = TRUE
    /\ pc' = next /\ late' = "no"
    /\ UpdateUnchanged /\ UNCHANGED <<kidx, idx>>

rtr_undo_update_spki_table_batch ==
    pc = "undo_spki" /\ UndoBatch(Applied(ROUTER_KEY), SpkiKinds, "undo_pfx")

rtr_undo_update_pfx_table_batch ==
    pc = "undo_pfx" /\ UndoBatch(Applied(IPV4) \o Applied(IPV6), PfxKinds, "failed")

\* Faulty variant: keeps the session though records are lost.
UpdateFailedKeepsSession ==
    /\ pc = "failed"
    /\ is_resetting' = FALSE
    /\ ChangeAndLoop("ERROR_FATAL")
    /\ recv_loop_cleanup
    /\ UNCHANGED <<request_session_id, session_id, serial_number, age,
                   expire_interval, verVars, recs, stopping, netVars, reach>>

\* rtr_sync_update_tables returns an error; a reset is over.
UpdateFailed ==
    /\ pc = "failed"
    /\ request_session_id' = (request_session_id \/ undo_failed)
    /\ is_resetting' = FALSE
    /\ ChangeAndLoop("ERROR_FATAL")
    /\ recv_loop_cleanup
    /\ UNCHANGED <<session_id, serial_number, age, expire_interval, verVars, recs,
                   stopping, netVars, reach>>

(***************************************************************************)
(* The update is complete.  After a reset the shadow tables are exchanged  *)
(* with the shared ones in three calls, each under the locks of one pair   *)
(* of tables.                                                              *)
(***************************************************************************)
\* The records S, with those of the kinds K replaced by those of T.
Replaced(S, T, K) == (S \ OfKind(S, K)) \cup OfKind(T, K)

SwapUnchanged ==
    UNCHANGED <<state, sockVars, expire_interval, verVars, stored, kidx, idx,
                undo_failed, before, stopping, netVars, reach>>

Swap(K) ==
    /\ recs' = Replaced(recs, shadow, K) /\ shadow' = Replaced(shadow, recs, K)
    /\ late' = "no" /\ SwapUnchanged

pfx_table_swap == pc = "swap_pfx" /\ pc' = "swap_spki" /\ Swap(PfxKinds)
spki_table_swap == pc = "swap_spki" /\ pc' = "swap_aspa" /\ Swap(SpkiKinds)

\* Fails when the shadow table has no entry for the socket, which it gets with
\* the first ASPA PDU; rtr_sync_receive_and_store_pdus does not look at that.
aspa_table_src_replace ==
    /\ pc = "swap_aspa" /\ pc' = "commit"
    /\ IF stored[ASPA] = <<>>
       THEN UNCHANGED <<recs, shadow>>
       ELSE /\ recs' = Replaced(recs, shadow, AspaKinds)
            /\ shadow' = shadow \ OfKind(shadow, AspaKinds)
    /\ late' = "no" /\ SwapUnchanged

\* Faulty variant: the time of the update is not recorded.
CommitWithoutTime ==
    /\ pc = "commit"
    /\ serial_number' = sn
    /\ is_resetting' = FALSE
    /\ request_session_id' = FALSE
    /\ ChangeAndLoop("ESTABLISHED")
    /\ recv_loop_cleanup
    /\ UNCHANGED <<session_id, age, expire_interval, verVars, recs, stopping,
                   netVars, reach>>

\* The rest of rtr_sync and of the SYNC branch.  The serial number is written at
\* the end of rtr_sync_update_tables, and not read before this point.
Commit ==
    /\ pc = "commit"
    /\ serial_number' = sn
    /\ is_resetting' = FALSE
    /\ request_session_id' = FALSE
    /\ \E clock_ok \in ClockOutcome :
          IF clock_ok THEN age' = 0 /\ ChangeAndLoop("ESTABLISHED")
                      ELSE UNCHANGED age /\ ChangeAndLoop("ERROR_FATAL")
    /\ recv_loop_cleanup
    /\ UNCHANGED <<session_id, expire_interval, verVars, recs, stopping, netVars,
                   reach>>
-----------------------------------------------------------------------------
(***************************************************************************)
(* The environment.  The cache and the way to it fail at any time: while   *)
(* it is out of reach connections cannot be opened, sends fail, answers    *)
(* do not come in time and the connection may be closed from its side.     *)
(***************************************************************************)
Tick ==
    /\ age # NoUpdate /\ age < MaxAge
    /\ age' = age + 1
    /\ UNCHANGED <<state, request_session_id, session_id, serial_number,
                   is_resetting, expire_interval, verVars, recs, syncVars, pc,
                   late, stopping, netVars, reach>>

ReachChanges ==
    /\ reach' = ~reach
    /\ UNCHANGED <<state, sockVars, expire_interval, verVars, recs, syncVars, pc,
                   late, stopping, netVars>>

PeerClose ==
    /\ ~reach /\ conn = "up" /\ conn' = "closed"
    /\ UNCHANGED <<state, sockVars, expire_interval, verVars, recs, syncVars, pc,
                   late, stopping, phase, respVars, reach>>
-----------------------------------------------------------------------------
Branch ==
    \/ ThreadStart \/ ThreadBegin \/ Connecting \/ Open \/ Reset \/ FastReconnect
    \/ ErrorClose \/ SleepDone \/ NoData \/ NoDataWake \/ NoIncrUpdate \/ Shutdown
    \/ PurgeKind \/ PurgeDone

Receive ==
    \/ ReceiveTimeout \/ ReceiveError \/ ReceiveFatal \/ ReceiveNothing
    \/ ReceiveWrongVersion \/ IgnoreNotify \/ rtr_handle_error_pdu \/ CacheReset
    \/ rtr_handle_cache_response_pdu \/ UnexpectedPdu \/ StorePdu \/ StoreFails
    \/ EodWrongSession \/ Eod \/ EodShadowFails
    \/ WaitOther \/ WaitNotify \/ RefreshTimeout

Update ==
    \/ UpdateRecord \/ UpdateFails \/ NextKind \/ rtr_compute_update_aspa_table
    \/ rtr_undo_update_spki_table_batch \/ rtr_undo_update_pfx_table_batch
    \/ UpdateFailed \/ pfx_table_swap \/ spki_table_swap \/ aspa_table_src_replace
    \/ Commit

Thread == Branch \/ Receive \/ Update \/ Cancelled
StopEnd == StopJoin \/ StopKind \/ StopDone
Application == rtr_start \/ StopIdle \/ StopCall \/ StopEnd
Environment == Tick \/ ReachChanges \/ PeerClose

Next == Thread \/ Application \/ Environment

Spec == Init /\ [][Next]_vars

\* The thread is scheduled, pthread_join returns once the thread has ended and
\* rtr_stop goes on, and time passes.
FairSpec == Spec /\ WF_vars(Thread) /\ WF_vars(StopEnd) /\ WF_vars(Tick)
-----------------------------------------------------------------------------
TypeOK ==
    /\ state \in States /\ pc \in PCs /\ late \in States \cup {"no"}
    /\ stopping \in BOOLEAN
    /\ request_session_id \in BOOLEAN /\ session_id \in Session
    /\ serial_number \in Serial /\ age \in {NoUpdate} \cup 0..MaxAge
    /\ is_resetting \in BOOLEAN /\ expire_interval \in 0..(MaxAge - 1)
    /\ version \in Versions /\ has_received_pdus \in BOOLEAN
    /\ recs \subseteq Record /\ shadow \subseteq Record /\ before \subseteq Record
    /\ stored \in [Kinds -> Seq(PDU)] /\ kidx \in Kinds /\ idx \in Nat \ {0}
    /\ undo_failed \in BOOLEAN
    /\ conn \in {"down", "up", "closed"} /\ reach \in BOOLEAN
    /\ phase \in {"idle", "serial", "reset", "payload"}
    /\ sid \in Session /\ sn \in Serial /\ todo \subseteq PDU

Tabled == {IPV4, IPV6, ROUTER_KEY}
UpdatePCs == {"update", "undo_spki", "undo_pfx", "failed", "commit"} \cup SwapPCs
LiveUpdate == ~is_resetting /\ pc \in UpdatePCs
Removing == pc \in PurgePCs \cup {"joined"}

\* A socket that may ask for increments (request_session_id is false) holds
\* exactly the prefixes and router keys of the serial number it will quote,
\* except in the middle of rtr_sync_update_tables on the shared tables and of a
\* purge.  Otherwise the next increment would be applied to the wrong data.
Coherent ==
    (~request_session_id /\ ~LiveUpdate /\ ~Removing) =>
        OfKind(recs, Tabled) = OfKind(Data[session_id][serial_number], Tabled)

\* rtr_sync_update_tables that failed and could undo has left the tables as
\* they were, for any sequence of PDUs that names no record twice.
RollbackExact ==
    (/\ pc = "failed" /\ ~undo_failed
     /\ \A k \in Kinds : \A i, j \in DOMAIN stored[k] :
           stored[k][i].rec = stored[k][j].rec => i = j)
    => Target = before

\* Readers of one shared table never see a reset half done in it: while a socket
\* resets, its prefixes, and likewise its router keys, change by becoming in one
\* step those of the new serial number, or because rtr_stop removes them.  Across
\* the tables there is no such promise: between the calls of pfx_table_swap and
\* spki_table_swap the prefixes are new and the router keys are old.
AtomicReset ==
    [][is_resetting =>
          \A K \in {PfxKinds, SpkiKinds} :
              \/ OfKind(recs', K) = OfKind(recs, K)
              \/ OfKind(recs', K) = OfKind(Data[session_id][sn], K)
              \/ pc = "joined" /\ recs' \subseteq recs]_vars

\* rtr_fsm_start opens the transport only when it is closed, as the assertion
\* at the head of tr_tcp_open wants it.
OpensClosed == pc = "open" => conn = "down"

\* In ESTABLISHED the socket has a session and a time from which its records
\* age, so that rtr_purge_outdated_records will see them.
EstablishedIsSynced == pc = "wait" => ~request_session_id /\ age # NoUpdate

\* rtr_stop returns, wherever the thread was when it was called.
StopReturns == stopping ~> ~stopping

\* Records whose age is known go when the cache stays out of reach.
Expires == (age # NoUpdate /\ ~reach) ~> (recs = {} \/ reach)

\* A socket that waits for the next update speaks the protocol version of its
\* session, whatever downgrades led there: rtr_receive_pdu lowers the version
\* with the first PDU, rtr_handle_error_pdu with an error PDU.
SpeaksSessionVersion == pc = "wait" => version = VersionOf[session_id]

\* An expire interval that a cache announces is kept within the limits of the
\* protocol unless the application accepts any value.
ExpireInRange ==
    IntervalMode # "ACCEPT_ANY" => expire_interval \in ExpirationMin..ExpirationMax

\* Memory runs out in a step of the thread, a receive call is interrupted, or
\* the cache sends an error PDU.
Disturbed ==
    \/ StoreFails \/ EodShadowFails
    \/ UpdateFails /\ Applicable(stored[kidx][idx])
    \/ ~undo_failed /\ undo_failed'
    \/ ReceiveNothing \/ rtr_handle_error_pdu

\* Once the cache stays within reach and no fault of memory, calls or PDUs comes
\* in any more, a running socket gets back to ESTABLISHED, whatever the failures
\* before have left.
Recovers ==
    (/\ <>[](reach /\ ~stopping /\ pc \notin {"none", "start", "begin", "exit"})
     /\ <>[][~Disturbed]_vars)
    => []<>(pc = "wait")
=============================================================================
