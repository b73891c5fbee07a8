------------------------- MODULE RtrCoherenceProofs -------------------------
(***************************************************************************)
(* The records a socket holds are those of the serial number it will quote *)
(* (Coherent), a socket in ESTABLISHED is synchronised                     *)
(* (EstablishedIsSynced) and a reset is atomic in each table               *)
(* (AtomicReset), for every cache that follows the protocol, wherever the  *)
(* connection breaks, the thread is stopped or memory runs out outside of  *)
(* the shadow tables.                                                      *)
(***************************************************************************)
EXTENDS RtrRollbackProofs

USE DEF Kinds, IPV4, IPV6, ROUTER_KEY, ASPA, Receiving, PurgePCs, SwapPCs, Removing

LEMMA ConformingFaults ==
    ASSUME Conforming
    PROVE  /\ ~Misbehaves /\ ClockOutcome = {TRUE} /\ "shadow" \notin Faults
           /\ ~EodShadowFails /\ ~ReceiveWrongVersion
  BY Zenon DEF Conforming, Misbehaves, ClockOutcome, EodShadowFails, ReceiveWrongVersion
-----------------------------------------------------------------------------
(***************************************************************************)
(* The state of the socket and request_session_id.                         *)
(***************************************************************************)

\* A change of the state takes effect or meets RTR_SHUTDOWN.
LEMMA ChangeEffect ==
    ASSUME LateInv, NEW new, rtr_change_socket_state(new)
    PROVE  late' = "no" /\ Seen' = state' /\ Seen' \in {new, "SHUTDOWN"}
  BY DEF rtr_change_socket_state, LateInv, Seen

LEMMA ChangeLoopEffect ==
    ASSUME LateInv, NEW new, ChangeAndLoop(new)
    PROVE  /\ late' = "no" /\ Seen' \in {new, "SHUTDOWN"}
           /\ pc' = Dispatch(Seen')
  BY ChangeEffect DEF ChangeAndLoop, Loop

LEMMA StayLoopEffect ==
    ASSUME LateInv, StayAndLoop
    PROVE  /\ late' = "no" /\ Seen' \in {Seen, "SHUTDOWN"}
           /\ pc' = Dispatch(Seen')
  BY DEF StayAndLoop, Loop, LateInv, Seen

\* rtr_stop leaves the handler with the state it saw, or with RTR_SHUTDOWN.
LEMMA StopEffect ==
    ASSUME TypeOK, LateInv, StopCall
    PROVE  LateInv' /\ Seen' \in {Seen, "SHUTDOWN"}
<1>1. Seen # "no"
  BY SeenType DEF States
<1> QED
  BY <1>1 DEF StopCall, LateInv, Seen

\* The part of StreamInv that request_session_id depends on.
IdleUpdate == pc \in UpdatePCs => phase = "idle"

LEMMA RequestFrame ==
    ASSUME RequestInv, Seen' \in {Seen, "SHUTDOWN"},
           UNCHANGED <<request_session_id, is_resetting, age, phase, pc>>
    PROVE  RequestInv'
  BY DEF RequestInv

\* Leaving a handler with the fields of the socket as they are.
LEMMA RequestLeave ==
    ASSUME RequestInv, pc # "joined", pc' = Dispatch(Seen'), phase' \in {phase, "idle"},
           UNCHANGED <<request_session_id, is_resetting, age>>,
           \/ Seen' \in {Seen, "SHUTDOWN", "ERROR_TRANSPORT", "ERROR_FATAL",
                         "FAST_RECONNECT", "CONNECTING", "SYNC"}
           \/ phase' = "idle" /\ Seen' \in {"ERROR_NO_DATA_AVAIL",
                                            "ERROR_NO_INCR_UPDATE_AVAIL"}
    PROVE  RequestInv'
  BY DEF RequestInv, Dispatch, UpdatePCs

LEMMA RequestBranch ==
    ASSUME Conforming, TypeOK, LateInv, RequestInv, Branch
    PROVE  LateInv' /\ RequestInv'
<1> USE ConformingFaults
<1>1. CASE ThreadStart
  BY <1>1 DEF ThreadStart, sockVars, netVars, LateInv, RequestInv, Seen, UpdatePCs
<1>2. CASE ThreadBegin
  BY <1>2 DEF ThreadBegin, sockVars, netVars, LateInv, RequestInv, Seen, UpdatePCs
<1>3. CASE Connecting
  <2>1. /\ late' = "no" /\ Seen' \in {"CONNECTING", "SHUTDOWN"} /\ phase' = "idle"
        /\ UNCHANGED <<request_session_id, is_resetting, age>>
    BY <1>3 DEF Connecting, LateInv, Seen, sockVars
  <2>2. pc' \in {"purge_open", "open"}
    BY Zenon, <1>3, PurgePlace DEF Connecting
  <2> QED
    BY <2>1, <2>2 DEF LateInv, RequestInv, UpdatePCs
<1>12. CASE Open
  <2>1. late' = "no" /\ pc' = Dispatch(Seen') /\ phase = "idle"
        /\ UNCHANGED <<request_session_id, is_resetting, age>>
    BY <1>12, ChangeLoopEffect DEF Open, RequestInv, sockVars
  <2>2. \/ phase' = "idle" /\ Seen' \in {"ERROR_TRANSPORT", "ERROR_FATAL", "SHUTDOWN"}
        \/ phase' = "idle" /\ request_session_id /\ Seen' \in {"RESET", "SHUTDOWN"}
        \/ phase' = "serial" /\ ~request_session_id /\ Seen' \in {"SYNC", "SHUTDOWN"}
    BY <1>12, <2>1, ChangeLoopEffect DEF Open
  <2> QED
    BY <2>1, <2>2 DEF LateInv, RequestInv, Dispatch, UpdatePCs
<1>4. CASE Reset
  <2>1. late' = "no" /\ pc' = Dispatch(Seen')
        /\ \/ phase' = "reset" /\ Seen' \in {"SYNC", "SHUTDOWN"}
           \/ phase' = phase /\ Seen' \in {"ERROR_TRANSPORT", "SHUTDOWN"}
    BY <1>4, ChangeLoopEffect DEF Reset, SendQuery
  <2>2. request_session_id /\ UNCHANGED <<request_session_id, is_resetting, age>>
    BY <1>4 DEF Reset, RequestInv, sockVars
  <2> QED
    BY <2>1, <2>2 DEF LateInv, RequestInv, Dispatch, UpdatePCs
<1>5. CASE FastReconnect
  BY <1>5, ChangeLoopEffect, RequestLeave DEF FastReconnect, sockVars, tr_close, LateInv
<1>6. CASE ErrorClose
  <2>1. late' = "no" /\ Seen' \in {"CONNECTING", "SHUTDOWN"} /\ pc' = "sleep"
        /\ phase' = "idle" /\ UNCHANGED <<request_session_id, is_resetting, age>>
    BY <1>6, ChangeEffect DEF ErrorClose, sockVars, tr_close
  <2> QED
    BY <2>1 DEF LateInv, RequestInv, UpdatePCs
<1>7. CASE SleepDone
  BY <1>7, StayLoopEffect, RequestLeave DEF SleepDone, sockVars, netVars, LateInv
<1>8. CASE NoData
  <2>1. late' = "no" /\ Seen' \in {"RESET", "SHUTDOWN"} /\ pc' = "nodata"
    BY <1>8, ChangeEffect DEF NoData
  <2>2. request_session_id' /\ phase' = phase /\ phase # "serial"
        /\ UNCHANGED <<is_resetting, age>>
    BY <1>8 DEF NoData, RequestInv, netVars
  <2> QED
    BY <2>1, <2>2 DEF LateInv, RequestInv, UpdatePCs
<1>9. CASE NoDataWake
  <2>1. /\ late' = "no" /\ Seen' = Seen /\ pc' \in {"purge_loop", Dispatch(Seen')}
        /\ UNCHANGED <<request_session_id, is_resetting, age, phase>>
    BY <1>9, PurgePlace DEF NoDataWake, LateInv, Seen, sockVars, netVars
  <2>2. pc = "nodata" /\ request_session_id
    BY <1>9 DEF NoDataWake, RequestInv
  <2> QED
    BY <2>1, <2>2 DEF LateInv, RequestInv, Dispatch, UpdatePCs
<1>10. CASE NoIncrUpdate
  <2>1. /\ late' = "no" /\ Seen' = state' /\ Seen' \in {"RESET", "SHUTDOWN"}
    BY <1>10, ChangeEffect DEF NoIncrUpdate
  <2>2. pc' \in {"purge_loop", Dispatch(Seen')}
    BY <1>10, <2>1, PurgePlace DEF NoIncrUpdate
  <2>3. /\ request_session_id' /\ phase' = phase /\ phase # "serial"
        /\ UNCHANGED <<is_resetting, age>>
    BY <1>10 DEF NoIncrUpdate, RequestInv, netVars
  <2> QED
    BY <2>1, <2>2, <2>3 DEF LateInv, RequestInv, Dispatch, UpdatePCs
<1>11. CASE Shutdown
  BY <1>11 DEF Shutdown, sockVars, netVars, LateInv, RequestInv, Seen, UpdatePCs
<1>13. CASE PurgeKind
  BY <1>13, RequestFrame DEF PurgeKind, RemoveKind, sockVars, netVars, LateInv, Seen
<1>14. CASE PurgeDone
  <2>1. /\ late' = "no" /\ Seen' = Seen /\ Seen = state /\ phase' = phase
        /\ request_session_id' /\ is_resetting' /\ age' = NoUpdate
        /\ pc' = IF pc = "purge_open" THEN "open" ELSE Dispatch(state)
    BY <1>14 DEF PurgeDone, LateInv, Seen, netVars
  <2>2. Seen # "ESTABLISHED" /\ phase # "serial"
    BY <1>14 DEF PurgeDone, RequestInv
  <2> QED
    BY <1>14, <2>1, <2>2 DEF PurgeDone, LateInv, RequestInv, Dispatch, UpdatePCs
<1> QED
  BY Zenon, <1>1, <1>2, <1>3, <1>4, <1>5, <1>6, <1>7, <1>8, <1>9, <1>10, <1>11, <1>12,
     <1>13, <1>14 DEF Branch

LEMMA RequestReceive ==
    ASSUME Conforming, TypeOK, LateInv, RequestInv, IdleUpdate, Receive
    PROVE  LateInv' /\ RequestInv'
<1> USE ConformingFaults
<1>1. CASE ReceiveTimeout
  BY <1>1, ChangeLoopEffect, RequestLeave DEF ReceiveTimeout, ReceiveFails, sockVars,
     netVars, LateInv
<1>2. CASE ReceiveError
  BY <1>2, ChangeLoopEffect, RequestLeave DEF ReceiveError, ReceiveFails, sockVars,
     netVars, LateInv
<1>3. CASE ReceiveFatal
  BY <1>3, ChangeLoopEffect, RequestLeave DEF ReceiveFatal, ReceiveFails, sockVars,
     netVars, LateInv
<1>4. CASE ReceiveNothing
  BY <1>4, StayLoopEffect, RequestLeave DEF ReceiveNothing, ReceiveFails, sockVars,
     netVars, LateInv
<1>5. CASE IgnoreNotify
  <2>1. late' = "no" /\ Seen' \in {Seen, "SHUTDOWN"}
    BY <1>5 DEF IgnoreNotify, LateInv, Seen
  <2> QED
    BY <1>5, <2>1, RequestFrame DEF IgnoreNotify, sockVars, netVars, LateInv
<1>6. CASE rtr_handle_error_pdu
  <2>1. pc # "joined" /\ late' = "no" /\ pc' = Dispatch(Seen') /\ phase' = "idle"
        /\ UNCHANGED <<request_session_id, is_resetting, age>>
    BY <1>6, ChangeLoopEffect DEF rtr_handle_error_pdu, sockVars
  <2>2. Seen' \in {"ERROR_NO_DATA_AVAIL", "ERROR_FATAL", "FAST_RECONNECT", "SHUTDOWN"}
    BY <1>6, ChangeLoopEffect DEF rtr_handle_error_pdu
  <2> QED
    BY <2>1, <2>2, RequestLeave DEF LateInv
<1>7. CASE CacheReset
  BY <1>7, ChangeLoopEffect, RequestLeave DEF CacheReset, sockVars, LateInv
<1>8. CASE rtr_handle_cache_response_pdu
  <2>1. /\ pc = "sync" /\ pc' = "store" /\ phase' = "payload"
        /\ request_session_id' = request_session_id
    BY <1>8 DEF rtr_handle_cache_response_pdu, Answers
  <2>2. /\ request_session_id => age' = NoUpdate
        /\ ~request_session_id => UNCHANGED <<age, is_resetting>>
    BY <1>8 DEF rtr_handle_cache_response_pdu
  <2>3. late' = "no" /\ Seen' \in {Seen, "SHUTDOWN", "ERROR_FATAL"}
    <3>1. \/ late' = "no" /\ UNCHANGED state
          \/ rtr_change_socket_state("ERROR_FATAL")
      BY <1>8 DEF rtr_handle_cache_response_pdu
    <3> QED
      BY <3>1, ChangeEffect DEF LateInv, Seen
  <2> QED
    BY <2>1, <2>2, <2>3 DEF RequestInv, LateInv
<1>9. CASE UnexpectedPdu
  BY <1>9, StayLoopEffect, RequestLeave DEF UnexpectedPdu, StreamEnds, sockVars, LateInv
<1>10. CASE StorePdu
  <2>1. late' = "no" /\ Seen' \in {Seen, "SHUTDOWN"}
    BY <1>10 DEF StorePdu, LateInv, Seen
  <2> QED
    BY <1>10, <2>1, RequestFrame DEF StorePdu, sockVars, LateInv
<1>11. CASE StoreFails
  BY <1>11, ChangeLoopEffect, RequestLeave DEF StoreFails, sockVars, LateInv
<1>12. CASE EodWrongSession
  BY <1>12, ChangeLoopEffect, RequestLeave DEF EodWrongSession, EodPdu, StreamEnds,
     sockVars, LateInv
<1>13. CASE Eod
  <2>1. late' = "no" /\ Seen' \in {Seen, "SHUTDOWN"} /\ pc = "store" /\ pc' = "update"
    BY <1>13 DEF Eod, rtr_handle_eod_pdu, EodPdu, LateInv, Seen
  <2>2. phase' = "idle" /\ UNCHANGED <<request_session_id, is_resetting, age>>
    BY <1>13 DEF Eod, rtr_handle_eod_pdu, EodPdu, StreamEnds
  <2> QED
    BY <2>1, <2>2 DEF RequestInv, LateInv, UpdatePCs
<1>14. CASE WaitOther
  BY <1>14, StayLoopEffect, RequestLeave DEF WaitOther, sockVars, netVars, LateInv
<1>15. CASE WaitNotify \/ RefreshTimeout
  <2>1. late' = "no" /\ pc' = Dispatch(Seen')
        /\ \/ phase' = "serial" /\ Seen' \in {"SYNC", "SHUTDOWN"}
           \/ phase' = phase /\ Seen' \in {"ERROR_TRANSPORT", "SHUTDOWN"}
    BY <1>15, ChangeLoopEffect DEF WaitNotify, RefreshTimeout, SendQuery
  <2>2. ~request_session_id /\ UNCHANGED <<request_session_id, is_resetting, age>>
    BY <1>15 DEF WaitNotify, RefreshTimeout, RequestInv, sockVars
  <2> QED
    BY <2>1, <2>2 DEF LateInv, RequestInv, Dispatch, UpdatePCs
<1> QED
  BY <1>1, <1>2, <1>3, <1>4, <1>5, <1>6, <1>7, <1>8, <1>9, <1>10, <1>11, <1>12,
     <1>13, <1>14, <1>15 DEF Receive

\* The steps of an update but the last one.
LEMMA UpdateStays ==
    ASSUME \/ UpdateRecord \/ UpdateFails \/ NextKind \/ rtr_compute_update_aspa_table
           \/ rtr_undo_update_spki_table_batch \/ rtr_undo_update_pfx_table_batch
           \/ pfx_table_swap \/ spki_table_swap \/ aspa_table_src_replace
    PROVE  /\ late' = "no" /\ state' = state /\ pc \in UpdatePCs /\ pc' \in UpdatePCs
           /\ UNCHANGED <<request_session_id, is_resetting, age, session_id, serial_number,
                          before, stored, phase, sid, sn, todo>>
<1>1. CASE \/ UpdateRecord \/ UpdateFails \/ NextKind
           \/ rtr_undo_update_spki_table_batch \/ rtr_undo_update_pfx_table_batch
  BY Zenon, <1>1 DEF UpdateRecord, UpdateFails, NextKind, rtr_undo_update_spki_table_batch,
     rtr_undo_update_pfx_table_batch, UndoBatch, Updating, UpdateUnchanged, sockVars,
     netVars, UpdatePCs
<1>2. CASE rtr_compute_update_aspa_table
  BY Zenon, <1>2 DEF rtr_compute_update_aspa_table, Updating, UpdateUnchanged, sockVars,
     netVars, UpdatePCs
<1>3. CASE pfx_table_swap \/ spki_table_swap \/ aspa_table_src_replace
  BY Zenon, <1>3 DEF pfx_table_swap, spki_table_swap, aspa_table_src_replace, Swap,
     SwapUnchanged, sockVars, netVars, UpdatePCs
<1> QED
  BY Zenon, <1>1, <1>2, <1>3

LEMMA RequestUpdate ==
    ASSUME Conforming, TypeOK, LateInv, RequestInv, IdleUpdate, Update
    PROVE  LateInv' /\ RequestInv'
<1> USE ConformingFaults
<1>1. CASE \/ UpdateRecord \/ UpdateFails \/ NextKind \/ rtr_compute_update_aspa_table
           \/ rtr_undo_update_spki_table_batch \/ rtr_undo_update_pfx_table_batch
           \/ pfx_table_swap \/ spki_table_swap \/ aspa_table_src_replace
  <2>1. /\ late' = "no" /\ state' = state /\ pc \in UpdatePCs /\ pc' \in UpdatePCs
        /\ UNCHANGED <<request_session_id, is_resetting, age, phase>>
    BY <1>1, UpdateStays
  <2>2. Seen' \in {Seen, "SHUTDOWN"}
    BY <2>1 DEF LateInv, Seen
  <2> QED
    BY <2>1, <2>2 DEF RequestInv, LateInv, UpdatePCs
<1>2. CASE UpdateFailed
  <2>1. late' = "no" /\ pc' = Dispatch(Seen') /\ Seen' \in {"ERROR_FATAL", "SHUTDOWN"}
    BY <1>2, ChangeLoopEffect DEF UpdateFailed
  <2>2. /\ phase' = "idle" /\ is_resetting' = FALSE /\ age' = age
        /\ request_session_id' = (request_session_id \/ undo_failed)
    BY <1>2 DEF UpdateFailed, IdleUpdate, UpdatePCs, netVars
  <2> QED
    BY Zenon, <2>1, <2>2 DEF RequestInv, LateInv, Dispatch, UpdatePCs
<1>3. CASE Commit
  <2>1. late' = "no" /\ pc' = Dispatch(Seen') /\ Seen' \in {"ESTABLISHED", "SHUTDOWN"}
        /\ age' = 0
    <3>1. age' = 0 /\ ChangeAndLoop("ESTABLISHED")
      <4>1. PICK clock_ok \in ClockOutcome :
               IF clock_ok THEN age' = 0 /\ ChangeAndLoop("ESTABLISHED")
                           ELSE UNCHANGED age /\ ChangeAndLoop("ERROR_FATAL")
        BY <1>3 DEF Commit
      <4>2. clock_ok = TRUE
        BY Zenon
      <4> QED
        BY <4>1, <4>2, Zenon
    <3> QED
      BY <3>1, ChangeLoopEffect
  <2>2. /\ phase' = "idle" /\ is_resetting' = FALSE /\ request_session_id' = FALSE
    BY <1>3 DEF Commit, IdleUpdate, UpdatePCs, netVars
  <2> QED
    BY <2>1, <2>2 DEF RequestInv, LateInv, Dispatch, UpdatePCs, NoUpdate
<1> QED
  BY <1>1, <1>2, <1>3 DEF Update

LEMMA RequestOther ==
    ASSUME Conforming, TypeOK, LateInv, RequestInv,
           Cancelled \/ Application \/ Environment \/ UNCHANGED vars
    PROVE  LateInv' /\ RequestInv'
<1>1. CASE Cancelled
  BY <1>1 DEF Cancelled, sockVars, netVars, LateInv, RequestInv, Seen, UpdatePCs
<1>2. CASE rtr_start
  BY <1>2 DEF rtr_start, sockVars, netVars, LateInv, RequestInv, Seen, UpdatePCs
<1>3. CASE StopIdle
  BY <1>3 DEF StopIdle, sockVars, netVars, LateInv, RequestInv, Seen, UpdatePCs
<1>4. CASE StopCall
  BY <1>4, StopEffect, RequestFrame DEF StopCall, sockVars, netVars
<1>5. CASE StopJoin
  <2>1. /\ request_session_id' /\ age' = NoUpdate /\ phase' = "idle" /\ pc' = "joined"
        /\ late = "no" /\ late' = "no" /\ state' = state /\ is_resetting' = is_resetting
    BY <1>5 DEF StopJoin, tr_close, LateInv
  <2> QED
    BY <2>1 DEF LateInv, RequestInv, Seen, UpdatePCs
<1>8. CASE StopKind
  BY <1>8, RequestFrame DEF StopKind, RemoveKind, sockVars, netVars, LateInv, Seen
<1>9. CASE StopDone
  <2>1. /\ late = "no" /\ late' = "no" /\ Seen' = "CLOSED" /\ pc' = "none"
        /\ request_session_id /\ UNCHANGED <<request_session_id, is_resetting, age, phase>>
    BY <1>9 DEF StopDone, LateInv, RequestInv, Seen, sockVars, netVars
  <2> QED
    BY <2>1 DEF LateInv, RequestInv, UpdatePCs
<1>6. CASE Tick
  <2>1. age # NoUpdate /\ age' # NoUpdate
    BY <1>6, IntervalAssumption DEF Tick, TypeOK, NoUpdate
  <2> QED
    BY <1>6, <2>1 DEF Tick, netVars, LateInv, RequestInv, Seen, UpdatePCs
<1>7. CASE ReachChanges \/ PeerClose \/ UNCHANGED vars
  BY <1>7, RequestFrame DEF ReachChanges, PeerClose, vars, sockVars, netVars, LateInv,
     Seen
<1> QED
  BY Zenon, <1>1, <1>2, <1>3, <1>4, <1>5, <1>6, <1>7, <1>8, <1>9 DEF Application, StopEnd,
     Environment
-----------------------------------------------------------------------------
(***************************************************************************)
(* The PDUs stored and those to come are the answer to the query.          *)
(***************************************************************************)
LEMMA LoopLeaves == Loop => pc' \notin UpdatePCs \cup {"store"}
  BY DEF Loop, Dispatch, UpdatePCs

\* The branches of rtr_fsm_start are outside of a synchronisation.
LEMMA BranchOutside ==
    ASSUME Branch
    PROVE  /\ pc \notin UpdatePCs \cup {"store"} /\ pc' \notin UpdatePCs \cup {"store"}
           /\ stored' = stored
<1>1. CASE \/ ThreadStart \/ ThreadBegin \/ Open \/ Reset \/ FastReconnect \/ ErrorClose
           \/ SleepDone \/ NoData \/ Shutdown
  BY Zenon, <1>1, LoopLeaves DEF ThreadStart, ThreadBegin, Open, Reset, FastReconnect,
     ErrorClose, SleepDone, NoData, Shutdown, SendQuery, ChangeAndLoop, StayAndLoop,
     syncVars, UpdatePCs
<1>2. CASE Connecting \/ NoDataWake \/ NoIncrUpdate
  <2>1. pc' \in {"purge_open", "open", "purge_loop", "sync", "wait", "fsm"}
    BY <1>2, PurgePlace, DispatchPlace DEF Connecting, NoDataWake, NoIncrUpdate
  <2> QED
    BY Zenon, <1>2, <2>1 DEF Connecting, NoDataWake, NoIncrUpdate, syncVars, UpdatePCs
<1>3. CASE PurgeKind \/ PurgeDone
  <2>1. pc' \in {"purge_open", "open", "purge_loop", "sync", "wait", "fsm"}
    BY <1>3, DispatchPlace DEF PurgeKind, PurgeDone, RemoveKind
  <2> QED
    BY Zenon, <1>3, <2>1 DEF PurgeKind, PurgeDone, RemoveKind, UpdatePCs
<1> QED
  BY Zenon, <1>1, <1>2, <1>3 DEF Branch

LEMMA DeltaMember ==
    ASSUME NEW S, NEW T, NEW p \in Delta(S, T)
    PROVE  \/ p.flags = 1 /\ p.rec \in T /\ p.rec \notin S
           \/ p.flags = 0 /\ p.rec \in S /\ p.rec \notin T
  BY DEF Delta

LEMMA DeltaHas ==
    ASSUME NEW S, NEW T, NEW r
    PROVE  /\ r \in T /\ r \notin S => \E p \in Delta(S, T) : p.rec = r
           /\ r \in S /\ r \notin T => \E p \in Delta(S, T) : p.rec = r
<1>1. ASSUME r \in T, r \notin S PROVE \E p \in Delta(S, T) : p.rec = r
  <2>1. [rec |-> r, flags |-> 1] \in Delta(S, T)
    BY <1>1 DEF Delta
  <2> QED
    BY <2>1
<1>2. ASSUME r \in S, r \notin T PROVE \E p \in Delta(S, T) : p.rec = r
  <2>1. [rec |-> r, flags |-> 0] \in Delta(S, T)
    BY <1>2 DEF Delta
  <2> QED
    BY <2>1
<1> QED
  BY <1>1, <1>2

\* A record is in the delta at most once.
LEMMA DeltaOnce ==
    ASSUME NEW S, NEW T, NEW p \in Delta(S, T), NEW q \in Delta(S, T), p.rec = q.rec
    PROVE  p = q
  BY DEF Delta

LEMMA StreamFrame ==
    ASSUME StreamInv, pc' = pc \/ (pc \in UpdatePCs /\ pc' \in UpdatePCs),
           UNCHANGED <<sid, session_id, phase, todo, stored, request_session_id,
                       serial_number, sn>>
    PROVE  StreamInv'
<1>1. Answer' = Answer /\ (Once' <=> Once)
  BY DEF Answer, Base, Once
<1> QED
  BY <1>1 DEF StreamInv, UpdatePCs

LEMMA StreamQuiet ==
    ASSUME StreamInv, pc \notin UpdatePCs \cup {"store"},
           pc' \notin UpdatePCs \cup {"store"}, stored' = stored
    PROVE  StreamInv'
  BY Zenon DEF StreamInv

LEMMA StreamCleanup ==
    ASSUME recv_loop_cleanup, pc' \notin UpdatePCs \cup {"store"}
    PROVE  StreamInv'
  BY DEF StreamInv, recv_loop_cleanup

LEMMA StreamResponse ==
    ASSUME Conforming, TypeOK, RequestInv, StreamInv, rtr_handle_cache_response_pdu
    PROVE  StreamInv'
<1>1. pc = "sync" /\ pc' = "store" /\ UNCHANGED <<stored, request_session_id, serial_number>>
  BY DEF rtr_handle_cache_response_pdu, syncVars
<1>2. stored' = NoPdus
  BY <1>1 DEF StreamInv, UpdatePCs
<1>3. \A k \in Kinds : DOMAIN stored'[k] = {}
  BY <1>2 DEF NoPdus
<1>4. Once'
  BY <1>3 DEF Once
<1> PICK i \in Session, s \in Serial :
       /\ Answers(i, s)
       /\ IF request_session_id THEN session_id' = i ELSE session_id' = session_id
  BY DEF rtr_handle_cache_response_pdu
<1>5. phase' = "payload" /\ sid' = i /\ sn' = s
  BY DEF Answers
<1>6. CASE request_session_id
  <2>1. phase # "serial" /\ session_id' = i
    BY <1>6 DEF RequestInv
  <2>2. todo' = Delta({}, Data[i][s])
    BY <2>1, ConformingFaults DEF Answers
  <2>3. Answer' = todo' /\ sid' = session_id'
    BY <1>1, <1>5, <1>6, <2>1, <2>2 DEF Answer, Base
  <2> QED
    BY <1>1, <1>3, <1>4, <1>5, <2>3 DEF StreamInv, UpdatePCs
<1>7. CASE ~request_session_id
  <2>1. phase # "reset" /\ session_id' = session_id
    BY <1>7 DEF RequestInv
  <2>2. todo' = Delta(Data[i][serial_number], Data[i][s]) /\ i = session_id
    BY <2>1, ConformingFaults DEF Answers
  <2>3. Answer' = todo' /\ sid' = session_id'
    BY <1>1, <1>5, <1>7, <2>1, <2>2 DEF Answer, Base
  <2> QED
    BY <1>1, <1>3, <1>4, <1>5, <2>3 DEF StreamInv, UpdatePCs
<1> QED
  BY <1>6, <1>7

LEMMA StreamStore ==
    ASSUME Conforming, TypeOK, RollbackInv, StreamInv, StorePdu
    PROVE  StreamInv'
<1>1. /\ pc = "store" /\ pc' = "store"
      /\ UNCHANGED <<sid, session_id, phase, request_session_id, serial_number, sn>>
  BY Zenon DEF StorePdu, sockVars
<1>0. PICK p \in PDU :
       /\ p \in todo /\ todo' = todo \ {p}
       /\ stored' = [stored EXCEPT ![KindOf[p.rec]] = Append(@, p)]
  BY Zenon, ConformingFaults DEF StorePdu, NextPdu
<1>t. p \in PDU /\ p \in todo /\ todo' = todo \ {p}
  BY <1>0
<1> DEFINE kp == KindOf[p.rec]
<1>2. kp \in Kinds
  BY KindAssumption DEF PDU
<1>3. \A k \in Kinds : stored[k] \in Seq(PDU)
  BY DEF TypeOK
<1>4. Answer' = Answer
  BY <1>1 DEF Answer, Base
<1>5. /\ phase = "payload" /\ sid = session_id /\ todo \subseteq Answer /\ Once
      /\ \A k \in Kinds : \A i \in DOMAIN stored[k] : stored[k][i] \in Answer \ todo
      /\ \A q \in Answer \ todo :
            \E i \in DOMAIN stored[KindOf[q.rec]] : stored[KindOf[q.rec]][i] = q
  BY <1>1 DEF StreamInv
<1>6. \A k \in Kinds : k # kp => stored'[k] = stored[k]
  BY <1>0 DEF TypeOK
<1>7. /\ stored'[kp] \in Seq(PDU) /\ Len(stored'[kp]) = Len(stored[kp]) + 1
      /\ \A i \in DOMAIN stored[kp] : i \in DOMAIN stored'[kp] /\ stored'[kp][i] = stored[kp][i]
      /\ stored'[kp][Len(stored[kp]) + 1] = p
      /\ \A i \in DOMAIN stored'[kp] : i \in DOMAIN stored[kp] \/ i = Len(stored[kp]) + 1
      /\ Len(stored[kp]) + 1 \in DOMAIN stored'[kp]
  <2>1. stored'[kp] = Append(stored[kp], p)
    BY <1>0, <1>2 DEF TypeOK
  <2>2. stored[kp] \in Seq(PDU)
    BY <1>2, <1>3
  <2> HIDE DEF kp
  <2> QED
    BY Zenon, <1>t, <2>1, <2>2, AppendElements
<1> HIDE DEF kp
<1>8. \A k \in Kinds : \A i \in DOMAIN stored'[k] :
         stored'[k][i] = p \/ (i \in DOMAIN stored[k] /\ stored'[k][i] = stored[k][i])
  BY <1>2, <1>6, <1>7
<1>9. \A k \in Kinds : \A i \in DOMAIN stored'[k] : stored'[k][i] \in Answer' \ todo'
  BY <1>t, <1>4, <1>5, <1>8
<1>10. \A q \in Answer' \ todo' :
         \E i \in DOMAIN stored'[KindOf[q.rec]] : stored'[KindOf[q.rec]][i] = q
  <2> SUFFICES ASSUME NEW q \in Answer, q \notin todo \ {p}
               PROVE  \E i \in DOMAIN stored'[KindOf[q.rec]] : stored'[KindOf[q.rec]][i] = q
    BY <1>4, <1>t
  <2>1. CASE q = p
    BY Zenon, <2>1, <1>7 DEF kp
  <2>2. CASE q # p
    <3>1. PICK i \in DOMAIN stored[KindOf[q.rec]] : stored[KindOf[q.rec]][i] = q
      BY <2>2, <1>5
    <3>2. KindOf[q.rec] \in Kinds
      <4>1. Base \subseteq Record /\ Data[session_id][sn] \subseteq Record
        BY DataAssumption DEF Base, TypeOK
      <4>2. q.rec \in Base \/ q.rec \in Data[session_id][sn]
        BY DeltaMember DEF Answer
      <4> QED
        BY <4>1, <4>2, KindAssumption
    <3>3. i \in DOMAIN stored'[KindOf[q.rec]] /\ stored'[KindOf[q.rec]][i] = q
      BY <3>1, <3>2, <1>6, <1>7
    <3> QED
      BY <3>3
  <2> QED
    BY <2>1, <2>2
<1>11. Once'
  <2>1. \A i \in DOMAIN stored[kp] : stored[kp][i].rec # p.rec
    <3> SUFFICES ASSUME NEW i \in DOMAIN stored[kp], stored[kp][i].rec = p.rec PROVE FALSE
      OBVIOUS
    <3>1. stored[kp][i] \in Answer /\ stored[kp][i] \notin todo /\ p \in Answer
      BY <1>t, <1>2, <1>5
    <3>2. stored[kp][i] = p
      BY <3>1, DeltaOnce DEF Answer
    <3> QED
      BY <1>t, <3>1, <3>2
  <2> SUFFICES ASSUME NEW k \in Kinds, NEW i \in DOMAIN stored'[k],
                      NEW j \in DOMAIN stored'[k], stored'[k][i].rec = stored'[k][j].rec
               PROVE  i = j
    BY Zenon DEF Once
  <2>2. Once
    BY <1>5
  <2>3. CASE k # kp
    <3>1. stored'[k] = stored[k]
      BY Zenon, <2>3, <1>6
    <3> QED
      BY Zenon, <2>2, <3>1 DEF Once
  <2>4. CASE k = kp
    <3>1. CASE i \in DOMAIN stored[kp] /\ j \in DOMAIN stored[kp]
      BY Zenon, <2>4, <2>2, <3>1, <1>2, <1>7 DEF Once
    <3>2. CASE i = Len(stored[kp]) + 1 /\ j = Len(stored[kp]) + 1
      BY <3>2
    <3>3. CASE i = Len(stored[kp]) + 1 /\ j \in DOMAIN stored[kp]
      BY <2>1, <2>4, <3>3, <1>7
    <3>4. CASE i \in DOMAIN stored[kp] /\ j = Len(stored[kp]) + 1
      BY <2>1, <2>4, <3>4, <1>7
    <3> QED
      BY <2>4, <3>1, <3>2, <3>3, <3>4, <1>7
  <2> QED
    BY <2>3, <2>4
<1> QED
  BY Zenon, <1>t, <1>1, <1>4, <1>5, <1>9, <1>10, <1>11 DEF StreamInv, UpdatePCs

LEMMA StreamEod ==
    ASSUME Conforming, TypeOK, StreamInv, Eod
    PROVE  StreamInv'
<1>1. /\ pc = "store" /\ pc' = "update" /\ phase' = "idle" /\ todo = {}
      /\ UNCHANGED <<sid, session_id, todo, stored, request_session_id, serial_number>>
  BY ConformingFaults DEF Eod, rtr_handle_eod_pdu, EodPdu, StreamEnds
<1>2. sn' = sn
  BY ConformingFaults DEF Eod, rtr_handle_eod_pdu, EodPdu
<1>3. Answer' = Answer /\ (Once' <=> Once)
  BY <1>1, <1>2 DEF Answer, Base, Once
<1> QED
  BY <1>1, <1>3 DEF StreamInv, UpdatePCs

LEMMA StreamStep ==
    ASSUME Conforming, TypeOK, RollbackInv, RequestInv, StreamInv, [Next]_vars
    PROVE  StreamInv'
<1> USE ConformingFaults
<1>1. CASE Branch
  <2>1. /\ pc \notin UpdatePCs \cup {"store"} /\ pc' \notin UpdatePCs \cup {"store"}
        /\ stored' = stored
    BY <1>1, BranchOutside
  <2> QED
    BY <2>1, StreamQuiet
<1>2. CASE CacheReset \/ WaitOther \/ WaitNotify \/ RefreshTimeout \/ rtr_start \/ StopEnd
  <2>1. /\ pc \notin UpdatePCs \cup {"store"} /\ pc' \notin UpdatePCs \cup {"store"}
        /\ stored' = stored
    BY <1>2, LoopLeaves DEF CacheReset, WaitOther, WaitNotify, RefreshTimeout,
       rtr_start, StopEnd, StopJoin, StopKind, StopDone, RemoveKind, SendQuery,
       ChangeAndLoop, StayAndLoop, syncVars, UpdatePCs
  <2> QED
    BY <2>1, StreamQuiet
<1>3. CASE \/ ReceiveTimeout \/ ReceiveError \/ ReceiveFatal \/ ReceiveNothing
           \/ rtr_handle_error_pdu \/ UnexpectedPdu \/ StoreFails \/ EodWrongSession
           \/ UpdateFailed \/ Commit \/ Cancelled
  <2>1. recv_loop_cleanup /\ pc' \notin UpdatePCs \cup {"store"}
    BY Zenon, <1>3, LoopLeaves DEF ReceiveTimeout, ReceiveError, ReceiveFatal,
       ReceiveNothing, ReceiveFails, rtr_handle_error_pdu, UnexpectedPdu, StoreFails,
       EodWrongSession, UpdateFailed, Commit, Cancelled, ChangeAndLoop, StayAndLoop,
       UpdatePCs
  <2> QED
    BY <2>1, StreamCleanup
<1>4. CASE StopIdle \/ StopCall \/ Environment \/ IgnoreNotify \/ UNCHANGED vars
  <2>1. /\ pc' = pc
        /\ UNCHANGED <<sid, session_id, phase, todo, stored, request_session_id,
                       serial_number, sn>>
    BY Zenon, <1>4 DEF StopIdle, StopCall, Environment, Tick, ReachChanges, PeerClose,
       IgnoreNotify, vars, sockVars, syncVars, netVars, respVars
  <2> QED
    BY <2>1, StreamFrame
<1>5. CASE \/ UpdateRecord \/ UpdateFails \/ NextKind \/ rtr_compute_update_aspa_table
           \/ rtr_undo_update_spki_table_batch \/ rtr_undo_update_pfx_table_batch
           \/ pfx_table_swap \/ spki_table_swap \/ aspa_table_src_replace
  BY <1>5, UpdateStays, StreamFrame
<1>6. CASE rtr_handle_cache_response_pdu
  BY <1>6, StreamResponse
<1>7. CASE StorePdu
  BY <1>7, StreamStore
<1>8. CASE Eod
  BY <1>8, StreamEod
<1> QED
  BY <1>1, <1>2, <1>3, <1>4, <1>5, <1>6, <1>7, <1>8
     DEF Next, Thread, Receive, Update, Application
-----------------------------------------------------------------------------
(***************************************************************************)
(* The records.                                                            *)
(***************************************************************************)
DataInv == EmptyInv /\ RemoveInv /\ StartInv /\ SwapInv /\ Coherent

LEMMA SameTabled ==
    ASSUME NEW S \in SUBSET Record, NEW T \in SUBSET Record
    PROVE  OfKind(S, Tabled) = OfKind(T, Tabled) <=>
              \A r \in Record : KindOf[r] \in Tabled => (r \in S <=> r \in T)
  BY DEF OfKind

LEMMA BaseType ==
    ASSUME TypeOK
    PROVE  Base \subseteq Record /\ Data[session_id][serial_number] \subseteq Record
           /\ Data[session_id][sn] \subseteq Record
  BY DataAssumption DEF Base, TypeOK

\* Steps outside of an update and of a removal that leave the records alone; the
\* session may be given up.
LEMMA DataQuiet ==
    ASSUME RequestInv, DataInv, pc \notin UpdatePCs, ~Removing, pc' \notin UpdatePCs,
           ~Removing', UNCHANGED <<recs, is_resetting, session_id, age>>,
           request_session_id' \/ UNCHANGED <<request_session_id, serial_number>>
    PROVE  DataInv'
<1>1. EmptyInv' /\ Coherent'
  BY Zenon DEF DataInv, EmptyInv, Coherent, LiveUpdate, RequestInv
<1>2. StartInv' /\ SwapInv' /\ RemoveInv'
  BY DEF StartInv, SwapInv, RemoveInv, UpdatePCs
<1> QED
  BY <1>1, <1>2 DEF DataInv

\* Steps of others.
LEMMA DataFrame ==
    ASSUME DataInv, pc' = pc, age' = age \/ (age # NoUpdate /\ age' # NoUpdate),
           UNCHANGED <<recs, request_session_id, is_resetting, session_id,
                       serial_number, before, shadow, kidx, sn>>
    PROVE  DataInv'
  BY Zenon DEF DataInv, EmptyInv, RemoveInv, StartInv, SwapInv, Fresh, Coherent, LiveUpdate,
     Base

\* The thread or rtr_stop gets to the first removal.
LEMMA DataRemoveStarts ==
    ASSUME TypeOK, RollbackInv, pc \notin UpdatePCs, ~Removing, Removing',
           recs' = recs, kidx' = kidx, pc' = "joined" => request_session_id',
           pc' \in PurgePCs => age' # NoUpdate
    PROVE  DataInv'
<1>1. kidx' = 1
  BY DEF RollbackInv
<1>2. \A r \in recs' : KindOf[r] >= kidx'
  BY <1>1, KindAssumption DEF TypeOK
<1> QED
  BY <1>2 DEF DataInv, EmptyInv, RemoveInv, StartInv, SwapInv, Coherent, UpdatePCs

\* What a removal leaves.
LEMMA RemoveEffect ==
    ASSUME TypeOK, RemoveInv, Removing, src_remove
    PROVE  /\ \A r \in recs' : r \in recs /\ KindOf[r] >= kidx + 1
           /\ kidx = 4 => recs' = {}
<1>1. \A r \in recs : KindOf[r] \in 1..4 /\ KindOf[r] >= kidx
  BY KindAssumption DEF TypeOK, RemoveInv
<1>2. \A r \in recs' : r \in recs /\ KindOf[r] # kidx
  BY DEF src_remove, OfKind
<1>3. kidx \in 1..4
  BY DEF TypeOK
<1>4. \A r \in recs' : r \in recs /\ KindOf[r] >= kidx + 1
  BY <1>1, <1>2, <1>3
<1>5. kidx = 4 => \A r \in recs' : FALSE
  BY <1>1, <1>4
<1> QED
  BY <1>4, <1>5

\* A removal that is not the last one.
LEMMA DataRemoveKind ==
    ASSUME TypeOK, DataInv, NEW places, RemoveKind(places), Removing
    PROVE  DataInv'
<1>1. src_remove /\ pc' = pc /\ kidx' = kidx + 1 /\ age' = age
  BY DEF RemoveKind, sockVars
<1>2. \A r \in recs' : KindOf[r] >= kidx'
  BY <1>1, RemoveEffect DEF DataInv
<1>3. pc' \in PurgePCs => age' # NoUpdate
  BY <1>1 DEF DataInv, RemoveInv
<1> QED
  BY <1>1, <1>2, <1>3 DEF DataInv, EmptyInv, RemoveInv, StartInv, SwapInv, Coherent, UpdatePCs

LEMMA DataBranch ==
    ASSUME Conforming, TypeOK, RollbackInv, RequestInv, DataInv, Branch
    PROVE  DataInv'
<1>1. pc \notin UpdatePCs /\ pc' \notin UpdatePCs
  BY BranchOutside
<1>2. CASE \/ ThreadStart \/ ThreadBegin \/ Open \/ Reset \/ FastReconnect \/ ErrorClose
           \/ SleepDone \/ NoData \/ Shutdown
  <2>1. /\ ~Removing /\ ~Removing' /\ UNCHANGED <<recs, is_resetting, session_id, age>>
        /\ request_session_id' \/ UNCHANGED <<request_session_id, serial_number>>
    BY Zenon, <1>2, LoopPlace DEF ThreadStart, ThreadBegin, Open, Reset, FastReconnect,
       ErrorClose, SleepDone, NoData, Shutdown, SendQuery, ChangeAndLoop, StayAndLoop,
       sockVars, BeforeOpen, Loop, Dispatch
  <2> QED
    BY <1>1, <2>1, DataQuiet
<1>3. CASE Connecting \/ NoDataWake \/ NoIncrUpdate
  <2>1. /\ ~Removing /\ UNCHANGED <<recs, is_resetting, session_id, age, kidx>>
        /\ request_session_id' \/ UNCHANGED <<request_session_id, serial_number>>
    BY Zenon, <1>3 DEF Connecting, NoDataWake, NoIncrUpdate, sockVars, syncVars
  <2>2. /\ pc' \in {"purge_open", "open", "purge_loop", "sync", "wait", "fsm"}
        /\ pc' \in PurgePCs => age # NoUpdate
    BY <1>3, DispatchPlace DEF Connecting, NoDataWake, NoIncrUpdate,
       rtr_purge_outdated_records, Outdated
  <2>3. CASE pc' \in PurgePCs
    BY <1>1, <2>1, <2>2, <2>3, DataRemoveStarts
  <2>4. CASE pc' \notin PurgePCs
    <3>1. ~Removing'
      BY <2>2, <2>4
    <3> QED
      BY <1>1, <2>1, <3>1, DataQuiet
  <2> QED
    BY <2>3, <2>4
<1>4. CASE PurgeKind
  BY Zenon, <1>4, DataRemoveKind DEF PurgeKind, RemoveKind
<1>5. CASE PurgeDone
  <2>1. /\ request_session_id' /\ is_resetting'
        /\ pc' \in {"open", "sync", "wait", "fsm"}
    BY <1>5, DispatchPlace DEF PurgeDone
  <2> QED
    BY <2>1 DEF DataInv, EmptyInv, RemoveInv, StartInv, SwapInv, Coherent, UpdatePCs
<1> QED
  BY Zenon, <1>2, <1>3, <1>4, <1>5 DEF Branch

LEMMA LoopReceives == Loop => pc' \in {"sync", "store", "wait", "fsm"}
  BY DEF Loop, Dispatch

LEMMA DataReceive ==
    ASSUME Conforming, TypeOK, RequestInv, StreamInv, DataInv, Receive
    PROVE  DataInv'
<1> USE ConformingFaults
<1>1. CASE \/ ReceiveTimeout \/ ReceiveError \/ ReceiveFatal \/ ReceiveNothing
           \/ IgnoreNotify \/ rtr_handle_error_pdu \/ CacheReset \/ UnexpectedPdu
           \/ StorePdu \/ StoreFails \/ EodWrongSession
           \/ WaitOther \/ WaitNotify \/ RefreshTimeout
  <2>1. pc \in Receiving /\ pc' \in {"sync", "store", "wait", "fsm"}
    BY Zenon, <1>1, LoopReceives DEF ReceiveTimeout, ReceiveError, ReceiveFatal,
       ReceiveNothing, ReceiveFails, IgnoreNotify, rtr_handle_error_pdu, CacheReset,
       UnexpectedPdu, StorePdu, StoreFails, EodWrongSession, EodPdu, WaitOther,
       WaitNotify, RefreshTimeout, SendQuery, ChangeAndLoop, StayAndLoop
  <2>2. UNCHANGED <<recs, request_session_id, is_resetting, session_id,
                    serial_number, age>>
    BY Zenon, <1>1 DEF ReceiveTimeout, ReceiveError, ReceiveFatal, ReceiveNothing,
       ReceiveFails, IgnoreNotify, rtr_handle_error_pdu, CacheReset, UnexpectedPdu,
       StorePdu, StoreFails, EodWrongSession, WaitOther, WaitNotify, RefreshTimeout,
       sockVars
  <2> QED
    BY <2>1, <2>2, DataQuiet DEF UpdatePCs
<1>2. CASE rtr_handle_cache_response_pdu
  <2>1. /\ pc \notin UpdatePCs /\ pc' \notin UpdatePCs /\ ~Removing /\ ~Removing'
        /\ UNCHANGED <<recs, request_session_id, serial_number>>
    BY <1>2 DEF rtr_handle_cache_response_pdu, UpdatePCs
  <2>2. CASE ~request_session_id
    <3>1. UNCHANGED <<session_id, age, is_resetting>>
      BY <1>2, <2>2 DEF rtr_handle_cache_response_pdu
    <3> QED
      BY <2>1, <3>1, DataQuiet
  <2>3. CASE request_session_id
    <3>1. is_resetting' = StartsReset
      BY <1>2, <2>3 DEF rtr_handle_cache_response_pdu
    <3> QED
      BY Zenon, <2>1, <2>3, <3>1 DEF StartsReset, DataInv, EmptyInv, RemoveInv, StartInv,
         SwapInv, Coherent, LiveUpdate, UpdatePCs
  <2> QED
    BY <2>2, <2>3
<1>3. CASE Eod
  <2>1. /\ pc = "store" /\ pc' = "update"
        /\ before' = (IF is_resetting THEN {} ELSE recs)
        /\ UNCHANGED <<recs, request_session_id, is_resetting, session_id, serial_number>>
    BY <1>3 DEF Eod, rtr_handle_eod_pdu, EodPdu
  <2>2. Base' = Base
    BY Zenon, <2>1 DEF Base
  <2>3. is_resetting => request_session_id
    BY DEF RequestInv
  <2>4. OfKind(before', Tabled) = OfKind(Base, Tabled)
    <3>1. CASE is_resetting
      BY <2>1, <2>3, <3>1 DEF Base
    <3>2. CASE ~is_resetting /\ request_session_id
      <4>1. OfKind(recs, Tabled) = {}
        BY <2>1, <3>2 DEF DataInv, EmptyInv, LiveUpdate, UpdatePCs, RequestInv
      <4>2. OfKind({}, Tabled) = {}
        BY DEF OfKind
      <4> QED
        BY <2>1, <3>2, <4>1, <4>2 DEF Base
    <3>3. CASE ~is_resetting /\ ~request_session_id
      BY <2>1, <3>3 DEF DataInv, Coherent, LiveUpdate, UpdatePCs, Base
    <3> QED
      BY <3>1, <3>2, <3>3
  <2> QED
    BY Zenon, <2>1, <2>2, <2>3, <2>4 DEF DataInv, EmptyInv, RemoveInv, StartInv, SwapInv,
       Coherent, LiveUpdate, UpdatePCs
<1> QED
  BY <1>1, <1>2, <1>3 DEF Receive

\* In a reset every PDU is an announcement of a record the shadow tables do
\* not have, so that the update cannot fail.
LEMMA ResetApplies ==
    ASSUME Conforming, TypeOK, RollbackInv, RequestInv, StreamInv, DataInv,
           is_resetting, pc = "update"
    PROVE  ~UpdateFails /\ AspaUpdateValid(stored[ASPA])
<1>1. request_session_id /\ Base = {} /\ before = {}
  BY DEF RequestInv, Base, DataInv, StartInv, UpdatePCs
<1>2. Once /\ \A k \in Kinds : \A i \in DOMAIN stored[k] : stored[k][i] \in Answer
  BY Zenon DEF StreamInv, UpdatePCs
<1>3. \A k \in Kinds : \A i \in DOMAIN stored[k] : stored[k][i].flags = 1
  BY <1>1, <1>2, DeltaMember DEF Answer
<1>4. ASSUME UpdateFails PROVE FALSE
  <2> DEFINE p == stored[kidx][idx]
  <2>1. kidx \in 1..3 /\ idx \in DOMAIN stored[kidx] /\ idx \in Nat
    <3>1. kidx \in 1..3 /\ stored[kidx] \in Seq(PDU) /\ idx \in Nat \ {0}
      BY <1>4 DEF TypeOK, UpdateFails
    <3> QED
      BY <1>4, <3>1 DEF UpdateFails
  <2>2. ~Applicable(p)
    BY Zenon, <1>4, ConformingFaults DEF UpdateFails, AllocFails
  <2>3. p.flags = 1 /\ p.rec \in Record /\ KindOf[p.rec] = kidx
    BY <2>1, <1>3, StoredType DEF RollbackInv, StoredByKind
  <2>4. Untouched(Kinds)
    BY <1>2 DEF RollbackInv
  <2>5. \A i \in DOMAIN stored[kidx] : AppliedAt(kidx, i) => stored[kidx][i].rec # p.rec
    BY <1>2, <2>1 DEF Once, AppliedAt
  <2>6. p.rec \notin Target
    BY <1>1, <2>1, <2>3, <2>4, <2>5 DEF Untouched
  <2> QED
    BY <2>2, <2>3, <2>6 DEF Applicable
<1>5. AspaUpdateValid(stored[ASPA])
  <2>1. \A i, j \in DOMAIN stored[4] : ~NextPosition(stored[4], i, j)
    <3> SUFFICES ASSUME NEW i \in DOMAIN stored[4], NEW j \in DOMAIN stored[4],
                        NextPosition(stored[4], i, j)
                 PROVE  FALSE
      OBVIOUS
    <3>1. i \in Nat /\ j \in Nat
      BY StoredType
    <3>2. i < j /\ stored[4][i].rec = stored[4][j].rec
      BY DEF NextPosition
    <3>3. i = j
      BY <3>2, <1>2 DEF Once
    <3> QED
      BY <3>1, <3>2, <3>3
  <2> QED
    BY <2>1, <1>3 DEF AspaUpdateValid
<1> QED
  BY <1>4, <1>5

\* A step within an update.
LEMMA DataUpdating ==
    ASSUME RequestInv, DataInv, pc \in UpdatePCs, pc' \in UpdatePCs,
           UNCHANGED <<request_session_id, is_resetting, session_id, serial_number, before>>,
           pc' \in {"undo_spki", "undo_pfx", "failed"} => ~is_resetting, SwapInv'
    PROVE  DataInv'
<1>1. Base' = Base
  BY DEF Base
<1>2. EmptyInv' /\ StartInv' /\ Coherent'
  BY Zenon, <1>1 DEF DataInv, EmptyInv, StartInv, Coherent, LiveUpdate, RequestInv
<1>3. RemoveInv'
  BY DEF RemoveInv, UpdatePCs
<1> QED
  BY <1>2, <1>3 DEF DataInv

\* All PDUs are applied: the tables are those of the new serial number.
LEMMA Complete ==
    ASSUME TypeOK, RollbackInv, StreamInv, DataInv, Updated
    PROVE  \A r \in Record : KindOf[r] \in Tabled =>
              (r \in Target <=> r \in Data[session_id][sn])
<1> SUFFICES ASSUME NEW r \in Record, KindOf[r] \in Tabled
             PROVE  r \in Target <=> r \in Data[session_id][sn]
  OBVIOUS
<1> DEFINE k == KindOf[r]
           D == Data[session_id][sn]
<1>0. pc \in UpdatePCs \ {"undo_spki", "undo_pfx", "failed", "update"}
  BY DEF Updated, UpdatePCs
<1>1. k \in 1..3 /\ kidx = 4
  BY <1>0 DEF Tabled, RollbackInv, UpdatePCs
<1>2. \A i \in DOMAIN stored[k] : AppliedAt(k, i)
  BY <1>1 DEF AppliedAt
<1>3. Once /\ todo = {} /\ \A i \in DOMAIN stored[k] : stored[k][i] \in Answer
  BY <1>0, <1>1 DEF StreamInv, UpdatePCs
<1>4. \A p \in Answer : p.rec = r => \E i \in DOMAIN stored[k] : stored[k][i] = p
  BY Zenon, <1>0, <1>3 DEF StreamInv, UpdatePCs
<1>5. Turned(Tabled) /\ Untouched(Tabled)
  BY Zenon, <1>3 DEF RollbackInv
<1>6. r \in before <=> r \in Base
  <2>1. OfKind(before, Tabled) = OfKind(Base, Tabled)
    BY <1>0 DEF DataInv, StartInv
  <2> QED
    BY <2>1 DEF OfKind
<1> HIDE DEF k, D
<1>7. CASE \E i \in DOMAIN stored[k] : stored[k][i].rec = r
  <2>1. PICK i \in DOMAIN stored[k] : stored[k][i].rec = r
    BY Zenon, <1>7
  <2>2. stored[k][i].flags = 1 <=> r \in Target
    BY Zenon, <1>2, <1>5, <2>1 DEF Turned, k
  <2>3. stored[k][i].flags = 1 <=> r \in D
    BY <1>3, <2>1, DeltaMember DEF Answer, D
  <2> QED
    BY Zenon, <2>2, <2>3 DEF D
<1>8. CASE ~ \E i \in DOMAIN stored[k] : stored[k][i].rec = r
  <2>1. r \in Target <=> r \in before
    BY Zenon, <1>5, <1>8 DEF Untouched, k
  <2>2. ~ \E p \in Answer : p.rec = r
    BY <1>4, <1>8
  <2>3. r \in Base <=> r \in D
    BY <2>2, DeltaHas DEF Answer, D
  <2> QED
    BY <1>6, <2>1, <2>3 DEF D
<1> QED
  BY <1>7, <1>8

\* The kinds that are replaced, and the others.
LEMMA ReplacedSame ==
    ASSUME NEW S, NEW T, NEW K
    PROVE  OfKind(Replaced(S, T, K), K) = OfKind(T, K)
  BY DEF Replaced, OfKind

LEMMA ReplacedOther ==
    ASSUME NEW S, NEW T, NEW K, NEW L, K \cap L = {}
    PROVE  OfKind(Replaced(S, T, K), L) = OfKind(S, L)
  BY DEF Replaced, OfKind

\* Each of the three calls leaves its table with the records of the new serial
\* number and the other tables as they are.
LEMMA SwapStep ==
    ASSUME TypeOK, RollbackInv, StreamInv, DataInv,
           pfx_table_swap \/ spki_table_swap \/ aspa_table_src_replace
    PROVE  /\ SwapInv'
           /\ \A K \in {PfxKinds, SpkiKinds} :
                 OfKind(recs', K) = OfKind(recs, K) \/ Fresh(recs', K)
<1> DEFINE D == Data[session_id][sn]
<1>1. pc \in SwapPCs /\ is_resetting /\ UNCHANGED <<is_resetting, session_id, sn>>
  BY UpdateStays DEF RollbackInv, pfx_table_swap, spki_table_swap, aspa_table_src_replace
<1>2. PfxKinds \cap SpkiKinds = {} /\ SpkiKinds \cap PfxKinds = {}
      /\ AspaKinds \cap SpkiKinds = {} /\ AspaKinds \cap PfxKinds = {}
  BY DEF PfxKinds, SpkiKinds, AspaKinds
<1>3. CASE pfx_table_swap
  <2>1. /\ pc = "swap_pfx" /\ pc' = "swap_spki"
        /\ recs' = Replaced(recs, shadow, PfxKinds)
        /\ shadow' = Replaced(shadow, recs, PfxKinds)
    BY <1>3 DEF pfx_table_swap, Swap
  <2>2. \A r \in Record : KindOf[r] \in Tabled => (r \in Target <=> r \in D)
    BY Zenon, <2>1, Complete DEF Updated
  <2>3. shadow \subseteq Record /\ D \subseteq Record /\ Target = shadow
    BY <1>1, BaseType DEF TypeOK, Target
  <2> HIDE DEF D
  <2>4. OfKind(shadow, PfxKinds) = OfKind(D, PfxKinds)
        /\ OfKind(shadow, SpkiKinds) = OfKind(D, SpkiKinds)
    BY <2>2, <2>3 DEF OfKind, Tabled, PfxKinds, SpkiKinds
  <2>5. OfKind(recs', PfxKinds) = OfKind(D, PfxKinds)
    BY <2>1, <2>4, ReplacedSame
  <2>6. /\ OfKind(shadow', SpkiKinds) = OfKind(D, SpkiKinds)
        /\ OfKind(recs', SpkiKinds) = OfKind(recs, SpkiKinds)
    BY <1>2, <2>1, <2>4, ReplacedOther
  <2> QED
    BY <1>1, <2>1, <2>5, <2>6 DEF SwapInv, Fresh, D
<1>4. CASE spki_table_swap
  <2>1. /\ pc = "swap_spki" /\ pc' = "swap_aspa"
        /\ recs' = Replaced(recs, shadow, SpkiKinds)
    BY <1>4 DEF spki_table_swap, Swap
  <2>2. OfKind(recs, PfxKinds) = OfKind(D, PfxKinds)
        /\ OfKind(shadow, SpkiKinds) = OfKind(D, SpkiKinds)
    BY <1>1, <2>1 DEF DataInv, SwapInv, Fresh
  <2> HIDE DEF D
  <2>3. OfKind(recs', PfxKinds) = OfKind(D, PfxKinds)
    BY <1>2, <2>1, <2>2, ReplacedOther
  <2>4. OfKind(recs', SpkiKinds) = OfKind(D, SpkiKinds)
    BY <2>1, <2>2, ReplacedSame
  <2> QED
    BY <1>1, <2>1, <2>3, <2>4 DEF SwapInv, Fresh, D
<1>5. CASE aspa_table_src_replace
  <2>1. /\ pc = "swap_aspa" /\ pc' = "commit"
        /\ recs' = recs \/ recs' = Replaced(recs, shadow, AspaKinds)
    BY <1>5 DEF aspa_table_src_replace
  <2>2. OfKind(recs, PfxKinds) = OfKind(D, PfxKinds)
        /\ OfKind(recs, SpkiKinds) = OfKind(D, SpkiKinds)
    BY <1>1, <2>1 DEF DataInv, SwapInv, Fresh
  <2> HIDE DEF D
  <2>3. /\ OfKind(recs', PfxKinds) = OfKind(D, PfxKinds)
        /\ OfKind(recs', SpkiKinds) = OfKind(D, SpkiKinds)
    BY <1>2, <2>1, <2>2, ReplacedOther
  <2> QED
    BY <1>1, <2>1, <2>3 DEF SwapInv, Fresh, D
<1> QED
  BY <1>3, <1>4, <1>5

LEMMA DataUpdate ==
    ASSUME Conforming, TypeOK, RollbackInv, RequestInv, StreamInv, DataInv, Update
    PROVE  DataInv'
<1>1. CASE \/ UpdateRecord \/ UpdateFails \/ NextKind \/ rtr_compute_update_aspa_table
           \/ rtr_undo_update_spki_table_batch \/ rtr_undo_update_pfx_table_batch
  <2>1. /\ pc \in UpdatePCs /\ pc' \in UpdatePCs
        /\ UNCHANGED <<request_session_id, is_resetting, session_id, serial_number, before>>
    BY Zenon, <1>1, UpdateStays
  <2>2. ASSUME pc' \in {"undo_spki", "undo_pfx", "failed"}, is_resetting PROVE FALSE
    <3>1. pc = "update"
      BY Zenon, <1>1, <2>1, <2>2 DEF DataInv, StartInv, rtr_undo_update_spki_table_batch,
         rtr_undo_update_pfx_table_batch, UpdateRecord, UpdateFails, NextKind,
         rtr_compute_update_aspa_table, Updating
    <3>2. ~UpdateFails /\ AspaUpdateValid(stored[ASPA])
      BY <2>2, <3>1, ResetApplies
    <3> QED
      BY Zenon, <1>1, <2>2, <3>1, <3>2 DEF UpdateRecord, NextKind,
         rtr_compute_update_aspa_table, rtr_undo_update_spki_table_batch,
         rtr_undo_update_pfx_table_batch
  <2>3. is_resetting' => pc' \notin {"swap_spki", "swap_aspa", "commit"}
    <3>1. CASE rtr_compute_update_aspa_table
      BY <2>1, <3>1 DEF rtr_compute_update_aspa_table
    <3>2. CASE ~rtr_compute_update_aspa_table
      BY Zenon, <1>1, <3>2 DEF UpdateRecord, UpdateFails, NextKind, Updating,
         rtr_undo_update_spki_table_batch, rtr_undo_update_pfx_table_batch, UndoBatch
    <3> QED
      BY <3>1, <3>2
  <2>4. SwapInv'
    BY <2>3 DEF SwapInv
  <2> QED
    BY <2>1, <2>2, <2>4, DataUpdating
<1>4. CASE pfx_table_swap \/ spki_table_swap \/ aspa_table_src_replace
  <2>1. pc' \notin {"undo_spki", "undo_pfx", "failed"}
    BY <1>4 DEF pfx_table_swap, spki_table_swap, aspa_table_src_replace
  <2> QED
    BY Zenon, <1>4, <2>1, UpdateStays, SwapStep, DataUpdating
<1>2. CASE UpdateFailed
  <2>1. /\ pc = "failed" /\ pc' \in {"sync", "store", "wait", "fsm"}
        /\ request_session_id' = (request_session_id \/ undo_failed)
        /\ UNCHANGED <<session_id, serial_number, age, recs>>
    BY <1>2, LoopReceives DEF UpdateFailed, ChangeAndLoop
  <2>2. ~is_resetting /\ OfKind(before, Tabled) = OfKind(Base, Tabled)
    BY <2>1 DEF DataInv, StartInv, UpdatePCs
  <2>3. Restored(Kinds)
    BY Zenon, <2>1 DEF RollbackInv, StreamInv, UpdatePCs
  <2>4. Target = recs
    BY <2>2 DEF Target
  <2>5. Coherent'
    <3> SUFFICES ASSUME ~request_session_id, ~undo_failed
                 PROVE  OfKind(recs, Tabled) =
                           OfKind(Data[session_id][serial_number], Tabled)
      BY Zenon, <2>1 DEF Coherent
    <3>1. OfKind(recs, Tabled) = OfKind(before, Tabled)
      BY <2>3, <2>4 DEF Restored, OfKind, Tabled, TypeOK
    <3> QED
      BY <2>2, <3>1 DEF Base
  <2>6. EmptyInv'
    <3> SUFFICES ASSUME request_session_id \/ undo_failed, age = NoUpdate
                 PROVE  OfKind(recs, Tabled) = {}
      BY Zenon, <2>1 DEF EmptyInv
    <3>1. request_session_id
      BY DEF RequestInv
    <3>2. OfKind(before, Tabled) = {}
      BY <2>2, <3>1 DEF Base, OfKind
    <3> QED
      BY <2>3, <2>4, <3>2 DEF Restored, OfKind, Tabled, TypeOK
  <2>7. RemoveInv' /\ StartInv' /\ SwapInv'
    BY <2>1 DEF RemoveInv, StartInv, SwapInv, UpdatePCs
  <2> QED
    BY Zenon, <2>1, <2>5, <2>6, <2>7 DEF DataInv
<1>3. CASE Commit
  <2>1. /\ pc = "commit" /\ pc' \in {"sync", "store", "wait", "fsm"}
        /\ request_session_id' = FALSE /\ serial_number' = sn
        /\ UNCHANGED <<session_id, recs>>
    BY <1>3, LoopReceives DEF Commit, ChangeAndLoop
  <2>2. recs \subseteq Record /\ Data[session_id][sn] \subseteq Record
    BY BaseType DEF TypeOK
  <2>3. OfKind(recs, Tabled) = OfKind(Data[session_id][sn], Tabled)
    <3>1. CASE is_resetting
      <4>1. Fresh(recs, PfxKinds) /\ Fresh(recs, SpkiKinds)
        BY <2>1, <3>1 DEF DataInv, SwapInv
      <4> QED
        BY <4>1 DEF Fresh, OfKind, Tabled, PfxKinds, SpkiKinds
    <3>2. CASE ~is_resetting
      <4>1. \A r \in Record : KindOf[r] \in Tabled =>
               (r \in recs <=> r \in Data[session_id][sn])
        BY <2>1, <3>2, Complete DEF Updated, Target
      <4> QED
        BY <2>2, <4>1, SameTabled
    <3> QED
      BY <3>1, <3>2
  <2> QED
    BY <2>1, <2>3 DEF DataInv, EmptyInv, RemoveInv, StartInv, SwapInv, Coherent, UpdatePCs
<1> QED
  BY Zenon, <1>1, <1>2, <1>3, <1>4 DEF Update

LEMMA DataOther ==
    ASSUME TypeOK, RollbackInv, RequestInv, DataInv,
           Cancelled \/ Application \/ Environment \/ UNCHANGED vars
    PROVE  DataInv'
<1>1. CASE Cancelled \/ rtr_start
  <2>1. /\ pc \notin UpdatePCs /\ pc' \notin UpdatePCs /\ ~Removing /\ ~Removing'
        /\ UNCHANGED <<recs, request_session_id, is_resetting, session_id,
                       serial_number, age>>
    BY <1>1 DEF Cancelled, rtr_start, sockVars, UpdatePCs
  <2> QED
    BY <2>1, DataQuiet
<1>2. CASE StopJoin
  BY <1>2, DataRemoveStarts DEF StopJoin, syncVars, UpdatePCs
<1>5. CASE StopKind
  BY Zenon, <1>5, DataRemoveKind DEF StopKind, RemoveKind
<1>6. CASE StopDone
  <2>1. /\ pc' = "none" /\ recs' = {} /\ request_session_id'
    BY <1>6, RemoveEffect DEF StopDone, DataInv, RequestInv, sockVars
  <2> QED
    BY <2>1 DEF DataInv, EmptyInv, RemoveInv, StartInv, SwapInv, Coherent, OfKind, UpdatePCs
<1>3. CASE StopIdle \/ StopCall \/ ReachChanges \/ PeerClose \/ UNCHANGED vars
  <2>1. /\ pc' = pc
        /\ age' = age \/ (age # NoUpdate /\ age' # NoUpdate)
        /\ UNCHANGED <<recs, request_session_id, is_resetting, session_id,
                       serial_number, before, shadow, kidx, sn>>
    BY Zenon, <1>3 DEF StopIdle, StopCall, ReachChanges, PeerClose, vars, sockVars, syncVars,
       netVars, respVars
  <2> QED
    BY <2>1, DataFrame
<1>4. CASE Tick
  <2>1. age # NoUpdate /\ age' # NoUpdate
    BY <1>4, IntervalAssumption DEF Tick, TypeOK, NoUpdate
  <2> QED
    BY <1>4, <2>1, DataFrame DEF Tick, syncVars, netVars
<1> QED
  BY Zenon, <1>1, <1>2, <1>3, <1>4, <1>5, <1>6 DEF Application, StopEnd, Environment
-----------------------------------------------------------------------------
LEMMA CoherenceStep ==
    ASSUME Conforming
    PROVE  TypeOK /\ RollbackInv /\ CoherenceInv /\ [Next]_vars => CoherenceInv'
<1> SUFFICES ASSUME TypeOK, RollbackInv, CoherenceInv, [Next]_vars
             PROVE  CoherenceInv'
  OBVIOUS
<1>1. LateInv /\ RequestInv /\ StreamInv /\ DataInv
  BY DEF CoherenceInv, DataInv
<1>2. IdleUpdate
  BY Zenon, <1>1 DEF StreamInv, IdleUpdate, UpdatePCs
<1>3. LateInv' /\ RequestInv'
  BY <1>1, <1>2, RequestBranch, RequestReceive, RequestUpdate, RequestOther
     DEF Next, Thread
<1>4. StreamInv'
  BY <1>1, StreamStep
<1>5. DataInv'
  BY <1>1, DataBranch, DataReceive, DataUpdate, DataOther DEF Next, Thread
<1> QED
  BY <1>3, <1>4, <1>5 DEF CoherenceInv, DataInv

LEMMA CoherenceInit == Init => CoherenceInv
<1> SUFFICES ASSUME Init PROVE CoherenceInv
  OBVIOUS
<1>1. LateInv
  BY DEF Init, LateInv
<1>2. RequestInv
  BY DEF Init, RequestInv, Seen, UpdatePCs
<1>3. StreamInv
  BY Zenon DEF Init, StreamInv, UpdatePCs
<1>4. EmptyInv /\ RemoveInv /\ StartInv /\ SwapInv /\ Coherent
  BY DEF Init, EmptyInv, RemoveInv, StartInv, SwapInv, Coherent, OfKind, UpdatePCs
<1> QED
  BY <1>1, <1>2, <1>3, <1>4 DEF CoherenceInv

\* With a cache that follows the protocol the inductive invariant holds.
THEOREM CoherenceInvariant ==
    ASSUME Conforming
    PROVE  Spec => []CoherenceInv
<1>1. TypeOK /\ RollbackInv /\ CoherenceInv /\ [Next]_vars => CoherenceInv'
  BY CoherenceStep
<1> QED
  BY <1>1, CoherenceInit, TypeCorrect, RollbackInvariant, PTL DEF Spec

\* The prefixes and router keys of a socket that may ask for increments are
\* those of the serial number it will quote, wherever earlier synchronisations
\* were interrupted, refused, cancelled or out of memory.
THEOREM SocketCoherent ==
    ASSUME Conforming
    PROVE  Spec => []Coherent
<1>1. CoherenceInv => Coherent
  BY DEF CoherenceInv
<1> QED
  BY <1>1, CoherenceInvariant, PTL

\* A socket that waits in ESTABLISHED has a session and a time of the last
\* update, from which its records age.
THEOREM SocketEstablished ==
    ASSUME Conforming
    PROVE  Spec => []EstablishedIsSynced
<1>1. CoherenceInv => EstablishedIsSynced
  BY DEF CoherenceInv, RequestInv, EstablishedIsSynced
<1> QED
  BY <1>1, CoherenceInvariant, PTL

\* A reset is atomic for the readers of one shared table: while a socket resets,
\* its prefixes, and likewise its router keys, change by becoming in one step those
\* of the new serial number, or because rtr_stop removes them.
THEOREM ResetIsAtomic ==
    ASSUME Conforming
    PROVE  Spec => AtomicReset
<1> DEFINE Same == recs' = recs
           Change == \A K \in {PfxKinds, SpkiKinds} :
                        \/ OfKind(recs', K) = OfKind(recs, K)
                        \/ OfKind(recs', K) = OfKind(Data[session_id][sn], K)
                        \/ pc = "joined" /\ recs' \subseteq recs
<1>1. ASSUME TypeOK, RollbackInv, CoherenceInv, Next, is_resetting
      PROVE  Change
  <2>1. StreamInv /\ DataInv /\ age = NoUpdate
    BY <1>1 DEF CoherenceInv, DataInv, RequestInv
  <2>2. CASE PurgeKind \/ PurgeDone
    BY <2>1, <2>2 DEF PurgeKind, PurgeDone, RemoveKind, DataInv, RemoveInv
  <2>3. CASE \/ ThreadStart \/ ThreadBegin \/ Connecting \/ Open \/ Reset \/ FastReconnect
             \/ ErrorClose \/ SleepDone \/ NoData \/ NoDataWake \/ NoIncrUpdate \/ Shutdown
    <3>1. Same
      BY Zenon, <2>3 DEF ThreadStart, ThreadBegin, Connecting, Open, Reset, FastReconnect,
         ErrorClose, SleepDone, NoData, NoDataWake, NoIncrUpdate, Shutdown
    <3> QED
      BY <3>1
  <2>4. CASE Receive
    <3>1. Same
      BY Zenon, <2>4 DEF Receive, ReceiveTimeout, ReceiveError, ReceiveFatal, ReceiveNothing,
         ReceiveFails, ReceiveWrongVersion, IgnoreNotify, rtr_handle_error_pdu, CacheReset,
         rtr_handle_cache_response_pdu, UnexpectedPdu, StorePdu, StoreFails,
         EodWrongSession, Eod, EodShadowFails, rtr_handle_eod_pdu, WaitOther, WaitNotify,
         RefreshTimeout
    <3> QED
      BY <3>1
  <2>5. CASE \/ UpdateRecord \/ UpdateFails \/ NextKind \/ rtr_compute_update_aspa_table
             \/ rtr_undo_update_spki_table_batch \/ rtr_undo_update_pfx_table_batch
             \/ UpdateFailed \/ Commit
    <3>1. Same
      BY Zenon, <1>1, <2>5 DEF UpdateRecord, UpdateFails, NextKind,
         rtr_compute_update_aspa_table, rtr_undo_update_spki_table_batch,
         rtr_undo_update_pfx_table_batch, UndoBatch, UpdateFailed, WriteTarget, Commit
    <3> QED
      BY <3>1
  <2>6. CASE pfx_table_swap \/ spki_table_swap \/ aspa_table_src_replace
    <3>1. \A K \in {PfxKinds, SpkiKinds} :
             OfKind(recs', K) = OfKind(recs, K) \/ Fresh(recs', K)
      BY Zenon, <1>1, <2>1, <2>6, SwapStep
    <3> QED
      BY Zenon, <3>1 DEF Fresh
  <2>7. CASE StopKind \/ StopDone
    BY <2>7 DEF StopKind, StopDone, RemoveKind, src_remove
  <2>8. CASE Cancelled \/ rtr_start \/ StopIdle \/ StopCall \/ StopJoin \/ Environment
    <3>1. Same
      BY Zenon, <2>8 DEF Cancelled, rtr_start, StopIdle, StopCall, StopJoin, Environment, Tick,
         ReachChanges, PeerClose
    <3> QED
      BY <3>1
  <2> QED
    BY Zenon, <1>1, <2>2, <2>3, <2>4, <2>5, <2>6, <2>7, <2>8 DEF Next, Thread, Branch, Update,
       Application, StopEnd
<1>2. TypeOK /\ RollbackInv /\ CoherenceInv /\ [Next]_vars =>
         [is_resetting => Change]_vars
  BY Zenon, <1>1
<1> QED
  BY <1>2, TypeCorrect, RollbackInvariant, CoherenceInvariant, PTL DEF Spec, AtomicReset
=============================================================================
