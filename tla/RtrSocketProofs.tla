-------------------------- MODULE RtrSocketProofs --------------------------
(***************************************************************************)
(* Machine-checked proofs about RtrSocket, for every set of records,       *)
(* sessions and serial numbers.                                            *)
(***************************************************************************)
EXTENDS RtrSocket, TLAPS

USE DEF Kinds, IPV4, IPV6, ROUTER_KEY, ASPA, Receiving
-----------------------------------------------------------------------------
(***************************************************************************)
(* Type correctness.                                                       *)
(***************************************************************************)

\* The handlers stay among the states and the places of the thread.
LEMMA ChangeType ==
    ASSUME TypeOK, NEW new \in States, rtr_change_socket_state(new)
    PROVE  state' \in States /\ late' = "no" /\ late' \in States \cup {"no"}
  BY DEF rtr_change_socket_state, TypeOK

LEMMA LoopType == ASSUME Loop PROVE pc' \in PCs
  BY DEF Loop, Dispatch, PCs

LEMMA ChangeLoopType ==
    ASSUME TypeOK, NEW new \in States, ChangeAndLoop(new)
    PROVE  state' \in States /\ pc' \in PCs /\ late' \in States \cup {"no"}
  BY ChangeType, LoopType DEF ChangeAndLoop

LEMMA StayLoopType ==
    ASSUME TypeOK, StayAndLoop
    PROVE  state' \in States /\ pc' \in PCs /\ late' \in States \cup {"no"}
  BY LoopType DEF StayAndLoop, TypeOK

LEMMA SeenType == TypeOK => Seen \in States
  BY DEF TypeOK, Seen

LEMMA CleanupType ==
    ASSUME recv_loop_cleanup
    PROVE  /\ stored' \in [Kinds -> Seq(PDU)] /\ shadow' \subseteq Record
           /\ before' \subseteq Record /\ kidx' \in Kinds /\ idx' \in Nat \ {0}
           /\ undo_failed' \in BOOLEAN
<1>1. <<>> \in Seq(PDU)
  OBVIOUS
<1>2. NoPdus \in [Kinds -> Seq(PDU)]
  BY <1>1 DEF NoPdus
<1>3. stored' = NoPdus /\ shadow' = {} /\ before' = {} /\ kidx' = 1 /\ idx' = 1
      /\ undo_failed' = FALSE
  BY DEF recv_loop_cleanup
<1>4. kidx' \in Kinds /\ idx' \in Nat \ {0}
  BY <1>3
<1>5. undo_failed' \in BOOLEAN
  BY Zenon, <1>3
<1>6. stored' \in [Kinds -> Seq(PDU)]
  BY <1>2, <1>3
<1>7. shadow' \subseteq Record /\ before' \subseteq Record
  BY <1>3
<1> QED
  BY <1>4, <1>6, <1>7, <1>5

LEMMA CacheVersionsType == CacheVersions \subseteq Versions
  BY DataAssumption DEF CacheVersions

LEMMA HeaderType ==
    ASSUME TypeOK, NEW ver, HeaderRead(ver), ver \in Versions
    PROVE  version' \in Versions /\ has_received_pdus' \in BOOLEAN
  BY DEF HeaderRead, TypeOK

LEMMA IntervalType ==
    ASSUME NEW ver, NEW current \in 0..(MaxAge - 1), NEW e \in ExpireOffered
    PROVE  NegotiatedInterval(ver, IntervalMode, current, e, ExpirationMin,
                              ExpirationMax) \in 0..(MaxAge - 1)
  BY IntervalAssumption DEF NegotiatedInterval, rtr_check_interval_option,
     rtr_check_interval_range

LEMMA StreamVersionType == TypeOK => StreamVersion \in Versions
  BY DataAssumption DEF StreamVersion, TypeOK

LEMMA PurgePlace ==
    ASSUME NEW purge, NEW next, rtr_purge_outdated_records(purge, next)
    PROVE  pc' \in {purge, next}
  BY DEF rtr_purge_outdated_records

LEMMA DispatchPlace == ASSUME NEW s PROVE Dispatch(s) \in {"sync", "wait", "fsm"}
  BY DEF Dispatch

LEMMA RemoveType == ASSUME TypeOK, src_remove PROVE recs' \subseteq Record
  BY DEF src_remove, TypeOK

LEMMA ReplacedType ==
    ASSUME NEW S \in SUBSET Record, NEW T \in SUBSET Record, NEW K
    PROVE  Replaced(S, T, K) \subseteq Record
  BY DEF Replaced, OfKind

\* A removal that is not the last one only moves on to the next kind.
LEMMA RemoveKindType ==
    ASSUME TypeOK, NEW places, RemoveKind(places)
    PROVE  TypeOK'
<1>1. kidx' \in Kinds
  BY DEF RemoveKind, TypeOK
<1>2. recs' \subseteq Record
  BY RemoveType DEF RemoveKind
<1> QED
  BY <1>1, <1>2 DEF RemoveKind, sockVars, verVars, netVars, TypeOK

LEMMA SwapType == ASSUME TypeOK, NEW K, Swap(K), pc' \in PCs PROVE TypeOK'
<1>1. recs' \subseteq Record /\ shadow' \subseteq Record
  BY ReplacedType DEF Swap, TypeOK
<1> QED
  BY <1>1 DEF Swap, SwapUnchanged, sockVars, verVars, netVars, TypeOK

LEMMA PduType ==
    ASSUME TypeOK, rtr_receive_pdu(StreamVersion)
    PROVE  version' \in Versions /\ has_received_pdus' \in BOOLEAN
  BY Zenon, HeaderType, StreamVersionType DEF rtr_receive_pdu

LEMMA NextPduType == ASSUME TypeOK, NEW p, NextPdu(p) PROVE todo' \subseteq PDU
  BY DEF NextPdu, TypeOK

LEMMA StreamEndsType ==
    ASSUME TypeOK, StreamEnds
    PROVE  phase' \in {"idle", "serial", "reset", "payload"}
  BY Zenon DEF StreamEnds, TypeOK

LEMMA ReceiveFailsType ==
    ASSUME TypeOK, ReceiveFails,
           state' \in States /\ pc' \in PCs /\ late' \in States \cup {"no"}
    PROVE  TypeOK'
<1>1. version' \in Versions /\ has_received_pdus' \in BOOLEAN
  BY Zenon, CacheVersionsType, HeaderType DEF ReceiveFails, verVars, TypeOK
<1> QED
  BY Zenon, <1>1, CleanupType DEF ReceiveFails, sockVars, netVars, TypeOK

LEMMA TypeStep == TypeOK /\ [Next]_vars => TypeOK'
<1> SUFFICES ASSUME TypeOK, [Next]_vars PROVE TypeOK'
  OBVIOUS
<1> USE DEF TypeOK
<1>1. CASE ThreadStart
  BY <1>1 DEF ThreadStart, sockVars, verVars, syncVars, netVars, States, PCs
<1>2. CASE ThreadBegin
  BY <1>2 DEF ThreadBegin, sockVars, verVars, syncVars, netVars, States, PCs
<1>3. CASE Connecting
  <2>1. pc' \in PCs
    BY Zenon, <1>3, PurgePlace DEF Connecting, PCs, PurgePCs
  <2> QED
    BY Zenon, <1>3, <2>1 DEF Connecting, sockVars, syncVars, respVars
<1>4. CASE Reset
  BY <1>4, ChangeLoopType, SeenType DEF Reset, sockVars, verVars, syncVars,
     respVars, SendQuery, States
<1>5. CASE FastReconnect
  BY <1>5, ChangeLoopType, SeenType DEF FastReconnect, sockVars, verVars,
     syncVars, tr_close, States
<1>6. CASE ErrorClose
  BY <1>6, ChangeType, SeenType DEF ErrorClose, sockVars, verVars, syncVars,
     tr_close, States, PCs
<1>7. CASE SleepDone
  BY <1>7, StayLoopType DEF SleepDone, sockVars, verVars, syncVars, netVars,
     States
<1>8. CASE NoData
  BY <1>8, SerialAssumption, ChangeType, SeenType DEF NoData, verVars,
     syncVars, netVars, States, PCs
<1>9. CASE NoDataWake
  <2>1. pc' \in PCs
    BY <1>9, PurgePlace, DispatchPlace DEF NoDataWake, PCs, PurgePCs
  <2> QED
    BY <1>9, <2>1 DEF NoDataWake, sockVars, verVars, syncVars, netVars
<1>10. CASE NoIncrUpdate
  <2>1. pc' \in PCs
    BY <1>10, PurgePlace, DispatchPlace DEF NoIncrUpdate, PCs, PurgePCs
  <2>2. state' \in States /\ late' \in States \cup {"no"}
    BY Zenon, <1>10, ChangeType DEF NoIncrUpdate, States
  <2> QED
    BY <1>10, <2>1, <2>2, SerialAssumption DEF NoIncrUpdate, verVars, syncVars, netVars
<1>11. CASE Shutdown
  BY <1>11, SeenType DEF Shutdown, sockVars, verVars, syncVars, netVars,
     States, PCs
<1>12. CASE ReceiveTimeout
  BY Zenon, <1>12, ChangeLoopType, ReceiveFailsType DEF ReceiveTimeout, States
<1>13. CASE ReceiveError
  BY Zenon, <1>13, ChangeLoopType, ReceiveFailsType DEF ReceiveError, States
<1>14. CASE ReceiveFatal
  BY Zenon, <1>14, ChangeLoopType, ReceiveFailsType DEF ReceiveFatal, States
<1>15. CASE ReceiveNothing
  BY Zenon, <1>15, StayLoopType, ReceiveFailsType DEF ReceiveNothing, States
<1>16. CASE ReceiveWrongVersion
  BY <1>16, CleanupType, HeaderType, StayLoopType DEF ReceiveWrongVersion,
     sockVars, netVars, rtr_receive_pdu, States
<1>17. CASE IgnoreNotify
  BY <1>17, CacheVersionsType, HeaderType DEF IgnoreNotify, sockVars,
     syncVars, netVars, rtr_receive_pdu, States
<1>18. CASE rtr_handle_error_pdu
  BY <1>18, CacheVersionsType, ChangeLoopType, CleanupType DEF
     rtr_handle_error_pdu, sockVars, States
<1>19. CASE CacheReset
  BY <1>19, CacheVersionsType, ChangeLoopType, HeaderType DEF CacheReset,
     sockVars, syncVars, respVars, rtr_receive_pdu, States
<1>20. CASE rtr_handle_cache_response_pdu
  <2> PICK i \in Session, s \in Serial :
         /\ Answers(i, s)
         /\ IF request_session_id
            THEN /\ session_id' = i /\ age' = NoUpdate
                 /\ is_resetting' = StartsReset
                 /\ late' = "no" /\ UNCHANGED state
            ELSE /\ UNCHANGED <<session_id, age, is_resetting>>
                 /\ IF i = session_id
                    THEN late' = "no" /\ UNCHANGED state
                    ELSE rtr_change_socket_state("ERROR_FATAL")
    BY <1>20 DEF rtr_handle_cache_response_pdu
  <2>1. VersionOf[i] \in Versions
    BY DataAssumption
  <2>2. /\ version' \in Versions /\ has_received_pdus' \in BOOLEAN
        /\ phase' = "payload" /\ sid' = i /\ sn' = s
    BY <2>1, HeaderType DEF Answers, rtr_receive_pdu
  <2>3. todo' \subseteq PDU
    <3>1. ASSUME NEW S \in SUBSET Record, NEW T \in SUBSET Record
          PROVE  Delta(S, T) \subseteq PDU
      BY <3>1 DEF Delta, PDU
    <3>2. Data[i][s] \in SUBSET Record /\ Data[i][serial_number] \in SUBSET Record
      BY DataAssumption
    <3>3. \/ todo' = Delta(Data[i][serial_number], Data[i][s])
          \/ todo' = Delta({}, Data[i][s]) \/ todo' = {}
      BY DEF Answers
    <3> QED
      BY <3>1, <3>2, <3>3
  <2>4. state' \in States /\ late' \in States \cup {"no"}
    BY ChangeType DEF States
  <2>5. session_id' \in Session /\ age' \in {NoUpdate} \cup 0..MaxAge
    OBVIOUS
  <2>6. is_resetting' \in BOOLEAN
    BY DEF StartsReset
  <2> QED
    BY <1>20, <2>2, <2>3, <2>4, <2>5, <2>6 DEF rtr_handle_cache_response_pdu, syncVars, PCs
<1>21. CASE UnexpectedPdu
  <2>1. /\ todo' \subseteq PDU
        /\ phase' \in {"idle", "serial", "reset", "payload"}
    BY Zenon, <1>21, NextPduType, StreamEndsType DEF UnexpectedPdu
  <2>2. version' \in Versions /\ has_received_pdus' \in BOOLEAN
    BY Zenon, <1>21, PduType DEF UnexpectedPdu
  <2> QED
    BY Zenon, <1>21, <2>1, <2>2, CleanupType, StayLoopType DEF UnexpectedPdu, sockVars
<1>22. CASE StorePdu
  <2>0. PICK p \in PDU :
         /\ NextPdu(p)
         /\ stored' = [stored EXCEPT ![KindOf[p.rec]] = Append(@, p)]
    BY Zenon, <1>22 DEF StorePdu
  <2>1. KindOf[p.rec] \in Kinds
    BY <2>0, KindAssumption DEF PDU
  <2>2. stored' \in [Kinds -> Seq(PDU)]
    BY <2>0, <2>1
  <2>3. todo' \subseteq PDU
    BY Zenon, <2>0, NextPduType
  <2>4. version' \in Versions /\ has_received_pdus' \in BOOLEAN
    BY Zenon, <1>22, HeaderType, StreamVersionType DEF StorePdu, rtr_receive_pdu
  <2> QED
    BY Zenon, <1>22, <2>2, <2>3, <2>4 DEF StorePdu, sockVars
<1>23. CASE StoreFails
  <2>1. version' \in Versions /\ has_received_pdus' \in BOOLEAN
        /\ todo' \subseteq PDU
    BY Zenon, <1>23, PduType, NextPduType DEF StoreFails
  <2>2. state' \in States /\ pc' \in PCs /\ late' \in States \cup {"no"}
    BY Zenon, <1>23, ChangeLoopType DEF StoreFails, States
  <2> QED
    BY Zenon, <1>23, <2>1, <2>2, CleanupType DEF StoreFails, sockVars
<1>24. CASE EodWrongSession
  <2>1. version' \in Versions /\ has_received_pdus' \in BOOLEAN
    BY Zenon, <1>24, PduType DEF EodWrongSession, EodPdu
  <2>2. /\ phase' \in {"idle", "serial", "reset", "payload"}
        /\ todo' = todo
    BY Zenon, <1>24, StreamEndsType DEF EodWrongSession, EodPdu
  <2>3. state' \in States /\ pc' \in PCs /\ late' \in States \cup {"no"}
    BY Zenon, <1>24, ChangeLoopType DEF EodWrongSession, States
  <2> QED
    BY Zenon, <1>24, <2>1, <2>2, <2>3, CleanupType DEF EodWrongSession, sockVars
<1>25. CASE Eod
  BY <1>25, HeaderType, IntervalType, StreamVersionType DEF Eod,
     rtr_handle_eod_pdu, EodPdu, rtr_receive_pdu, StreamEnds, States, PCs
<1>26. CASE EodShadowFails
  <2>1. state' \in States /\ pc' \in PCs /\ late' \in States \cup {"no"}
    BY <1>26, ChangeLoopType, StayLoopType DEF EodShadowFails, States
  <2> PICK s \in Serial : rtr_handle_eod_pdu(s)
    BY <1>26 DEF EodShadowFails
  <2>2. version' \in Versions /\ has_received_pdus' \in BOOLEAN
    BY HeaderType, StreamVersionType DEF rtr_handle_eod_pdu, EodPdu, rtr_receive_pdu
  <2>3. expire_interval' \in 0..(MaxAge - 1)
    BY IntervalType DEF rtr_handle_eod_pdu
  <2>4. is_resetting' \in BOOLEAN
    BY Zenon, <1>26 DEF EodShadowFails
  <2> QED
    BY Zenon, <1>26, <2>1, <2>2, <2>3, <2>4, CleanupType DEF EodShadowFails,
       rtr_handle_eod_pdu, EodPdu, StreamEnds
<1>27. CASE WaitOther
  BY <1>27, StayLoopType DEF WaitOther, sockVars, syncVars, netVars, States
<1>28. CASE WaitNotify
  BY <1>28, CacheVersionsType, ChangeLoopType, HeaderType DEF WaitNotify,
     sockVars, syncVars, respVars, SendQuery, rtr_receive_pdu, States
<1>29. CASE RefreshTimeout
  BY <1>29, ChangeLoopType DEF RefreshTimeout, sockVars, verVars, syncVars,
     respVars, SendQuery, States
<1>30. CASE UpdateRecord
  <2>1. stored[kidx][idx] \in PDU
    BY <1>30 DEF UpdateRecord
  <2>2. Apply(stored[kidx][idx]) \subseteq Record
    BY <2>1 DEF Apply, Target, PDU
  <2>3. recs' \subseteq Record /\ shadow' \subseteq Record
    BY <1>30, <2>2 DEF UpdateRecord, WriteTarget
  <2> QED
    BY <1>30, <2>3 DEF UpdateRecord, Updating, UpdateUnchanged, sockVars,
       verVars, netVars
<1>31. CASE UpdateFails
  BY <1>31 DEF UpdateFails, Updating, UpdateUnchanged, sockVars, verVars,
     netVars, PCs
<1>32. CASE NextKind
  BY <1>32 DEF NextKind, Updating, UpdateUnchanged, sockVars, verVars,
     netVars
<1>33. CASE rtr_compute_update_aspa_table
  BY <1>33 DEF rtr_compute_update_aspa_table, WriteTarget, Updating,
     UpdateUnchanged, AspaUpdate, sockVars, verVars, netVars, Target, PCs, SwapPCs
<1>34. CASE rtr_undo_update_spki_table_batch
  <2>1. recs' \subseteq Record /\ shadow' \subseteq Record /\ undo_failed' \in BOOLEAN
    BY Zenon, <1>34 DEF rtr_undo_update_spki_table_batch, UndoBatch, WriteTarget, Inverted, Target
  <2> QED
    BY <1>34, <2>1 DEF rtr_undo_update_spki_table_batch, UndoBatch, UpdateUnchanged, sockVars, verVars, netVars, PCs
<1>35. CASE rtr_undo_update_pfx_table_batch
  <2>1. recs' \subseteq Record /\ shadow' \subseteq Record /\ undo_failed' \in BOOLEAN
    BY Zenon, <1>35 DEF rtr_undo_update_pfx_table_batch, UndoBatch, WriteTarget, Inverted, Target
  <2> QED
    BY <1>35, <2>1 DEF rtr_undo_update_pfx_table_batch, UndoBatch, UpdateUnchanged, sockVars, verVars, netVars, PCs
<1>36. CASE UpdateFailed
  BY Zenon, <1>36, ChangeLoopType, CleanupType DEF UpdateFailed, verVars, netVars,
     States
<1>37. CASE Commit
  <2>1. state' \in States /\ pc' \in PCs /\ late' \in States \cup {"no"}
        /\ age' \in {NoUpdate} \cup 0..MaxAge
    BY <1>37, ChangeLoopType, IntervalAssumption DEF Commit, States
  <2> QED
    BY Zenon, <1>37, <2>1, CleanupType DEF Commit, verVars, netVars
<1>38. CASE Cancelled
  BY <1>38, CleanupType DEF Cancelled, sockVars, verVars, netVars, States,
     PCs
<1>39. CASE rtr_start
  BY <1>39 DEF rtr_start, sockVars, verVars, syncVars, netVars, States, PCs
<1>40. CASE StopIdle
  BY <1>40 DEF StopIdle, sockVars, verVars, syncVars, netVars, States
<1>41. CASE StopCall
  BY <1>41, SeenType DEF StopCall, sockVars, verVars, syncVars, netVars,
     States
<1>42. CASE StopJoin
  BY Zenon, <1>42, SerialAssumption DEF StopJoin, verVars, syncVars, tr_close, PCs
<1>43. CASE Tick
  BY <1>43, IntervalAssumption DEF Tick, verVars, syncVars, netVars,
     NoUpdate, States
<1>44. CASE ReachChanges
  BY <1>44 DEF ReachChanges, sockVars, verVars, syncVars, netVars, States
<1>45. CASE PeerClose
  BY <1>45 DEF PeerClose, sockVars, verVars, syncVars, respVars, States
<1>46. CASE UNCHANGED vars
  BY <1>46 DEF vars, sockVars, verVars, syncVars, netVars
<1>47. CASE Open
  <2>1. state' \in States /\ pc' \in PCs /\ late' \in States \cup {"no"}
    BY Zenon, <1>47, ChangeLoopType DEF Open, States
  <2>2. conn' \in {"down", "up", "closed"} /\ phase' \in {"idle", "serial", "reset", "payload"}
    BY Zenon, <1>47 DEF Open
  <2> QED
    BY <1>47, <2>1, <2>2 DEF Open, sockVars, verVars, syncVars, respVars
<1>48. CASE PurgeKind \/ StopKind
  BY Zenon, <1>48, RemoveKindType DEF PurgeKind, StopKind
<1>49. CASE PurgeDone
  <2>1. pc' \in PCs
    BY <1>49, DispatchPlace DEF PurgeDone, PCs
  <2>2. kidx' \in Kinds /\ recs' \subseteq Record
    BY <1>49, RemoveType DEF PurgeDone
  <2> QED
    BY <1>49, <2>1, <2>2, SerialAssumption DEF PurgeDone, verVars, netVars
<1>50. CASE StopDone
  <2>1. kidx' \in Kinds /\ recs' \subseteq Record
    BY <1>50, RemoveType DEF StopDone
  <2>2. state' \in States /\ pc' \in PCs
    BY <1>50 DEF StopDone, PCs, States
  <2>3. /\ stopping' = FALSE
        /\ UNCHANGED <<sockVars, expire_interval, verVars, shadow, stored, idx,
                       undo_failed, before, late, netVars, reach>>
    BY <1>50 DEF StopDone
  <2>4. UNCHANGED <<request_session_id, session_id, serial_number, age, is_resetting,
                    version, has_received_pdus>>
    BY <2>3 DEF sockVars, verVars
  <2>5. UNCHANGED <<expire_interval, shadow, stored, idx, undo_failed, before, late,
                    conn, phase, sid, sn, todo, reach>>
    BY <2>3 DEF netVars
  <2>6. stopping' \in BOOLEAN
    BY Zenon, <2>3
  <2> QED
    BY Zenon, <2>1, <2>2, <2>4, <2>5, <2>6
<1>51. CASE pfx_table_swap \/ spki_table_swap
  BY Zenon, <1>51, SwapType DEF pfx_table_swap, spki_table_swap, PCs, SwapPCs
<1>52. CASE aspa_table_src_replace
  <2>1. recs' \subseteq Record /\ shadow' \subseteq Record
    BY <1>52, ReplacedType DEF aspa_table_src_replace
  <2> QED
    BY <1>52, <2>1 DEF aspa_table_src_replace, SwapUnchanged, sockVars, verVars,
       netVars, PCs
<1> QED
  BY Zenon, <1>1, <1>2, <1>3, <1>4, <1>5, <1>6, <1>7, <1>8, <1>9, <1>10, <1>11,
     <1>12, <1>13, <1>14, <1>15, <1>16, <1>17, <1>18, <1>19, <1>20, <1>21,
     <1>22, <1>23, <1>24, <1>25, <1>26, <1>27, <1>28, <1>29, <1>30, <1>31,
     <1>32, <1>33, <1>34, <1>35, <1>36, <1>37, <1>38, <1>39, <1>40, <1>41,
     <1>42, <1>43, <1>44, <1>45, <1>46, <1>47, <1>48, <1>49, <1>50, <1>51, <1>52
     DEF Next, Thread, Branch, Receive, Update, Application, StopEnd, Environment

\* Every variable keeps its type: the states and places of the thread are
\* those of the code, the stored PDUs are PDUs, and the expire interval stays
\* below the bound under which ages are counted.
THEOREM TypeCorrect == Spec => []TypeOK
<1>1. Init => TypeOK
  <2>1. NoPdus \in [Kinds -> Seq(PDU)]
    BY DEF NoPdus
  <2> SUFFICES ASSUME Init PROVE TypeOK
    OBVIOUS
  <2>2. version \in Versions /\ age \in {NoUpdate} \cup 0..MaxAge
        /\ expire_interval \in 0..(MaxAge - 1) /\ serial_number \in Serial
        /\ sn \in Serial
    BY SerialAssumption, IntervalAssumption
       DEF Init, Versions, MinVersion, MaxVersion
  <2>3. recs \subseteq Record /\ shadow \subseteq Record /\ before \subseteq Record
        /\ todo \subseteq PDU
    BY DEF Init
  <2>4. stored \in [Kinds -> Seq(PDU)] /\ kidx \in Kinds /\ idx \in Nat \ {0}
    BY <2>1 DEF Init
  <2>5. state \in States /\ pc \in PCs /\ late \in States \cup {"no"}
    BY DEF Init, States, PCs
  <2> QED
    BY Zenon, <2>2, <2>3, <2>4, <2>5 DEF Init, TypeOK
<1> QED
  BY <1>1, TypeStep, PTL DEF Spec
-----------------------------------------------------------------------------
(***************************************************************************)
(* The transport is closed before it is opened again.  That the thread is  *)
(* about to connect is seen from three places: the state, the state a      *)
(* handler read before rtr_stop overwrote it, and the places of the thread *)
(* from which CONNECTING follows or where it is dealt with.                *)
(***************************************************************************)
BeforeOpen == {"none", "start", "begin", "sleep", "purge_open", "open", "joined"}
ClosedInv ==
    /\ late # "no" =>
          state = "SHUTDOWN" /\ pc \notin {"none", "start", "begin", "exit", "joined"}
    /\ state = "CONNECTING" \/ late = "CONNECTING" \/ pc \in BeforeOpen => conn = "down"

\* Handlers that write another state, or none, and keep the connection.
LEMMA ChangeClosed ==
    ASSUME ClosedInv, NEW new, new # "CONNECTING",
           conn' = conn \/ state # "CONNECTING" \/ conn' = "down",
           rtr_change_socket_state(new),
           pc' \notin BeforeOpen
    PROVE  ClosedInv'
  BY DEF ClosedInv, rtr_change_socket_state

LEMMA LoopPlace == ASSUME Loop PROVE pc' \notin BeforeOpen
  BY DEF Loop, Dispatch, BeforeOpen

LEMMA ChangeLoopClosed ==
    ASSUME ClosedInv, NEW new, new # "CONNECTING", conn' = conn,
           ChangeAndLoop(new)
    PROVE  ClosedInv'
  BY ChangeClosed, LoopPlace DEF ChangeAndLoop

LEMMA StayLoopClosed ==
    ASSUME ClosedInv, conn' = conn, StayAndLoop
    PROVE  ClosedInv'
  BY LoopPlace DEF ClosedInv, StayAndLoop

\* Steps that keep the state and the connection and go on elsewhere.
LEMMA GoOnClosed ==
    ASSUME ClosedInv, conn' = conn, state' = state, late' = "no",
           pc' = pc \/ pc' \notin BeforeOpen
    PROVE  ClosedInv'
  BY DEF ClosedInv

LEMMA ClosedStep == ClosedInv /\ [Next]_vars => ClosedInv'
<1> SUFFICES ASSUME ClosedInv, [Next]_vars PROVE ClosedInv'
  OBVIOUS
<1>1. CASE ThreadStart
  BY <1>1 DEF ThreadStart, netVars, ClosedInv, BeforeOpen
<1>2. CASE ThreadBegin
  BY <1>2 DEF ThreadBegin, netVars, ClosedInv, BeforeOpen
<1>3. CASE Connecting
  <2>1. conn = "down"
    BY <1>3 DEF Connecting, ClosedInv, Seen
  <2>2. conn' = conn /\ late' = "no"
    BY Zenon, <1>3 DEF Connecting
  <2> QED
    BY <2>1, <2>2 DEF ClosedInv
<1>4. CASE Reset
  BY Zenon, <1>4, ChangeLoopClosed DEF Reset, SendQuery
<1>5. CASE FastReconnect
  BY <1>5 DEF FastReconnect, tr_close, ChangeAndLoop, rtr_change_socket_state,
     ClosedInv
<1>6. CASE ErrorClose
  BY <1>6 DEF ErrorClose, tr_close, rtr_change_socket_state, ClosedInv
<1>7. CASE SleepDone
  BY Zenon, <1>7, StayLoopClosed DEF SleepDone, netVars
<1>8. CASE NoData
  BY <1>8, ChangeClosed DEF NoData, netVars, BeforeOpen
<1>9. CASE NoDataWake
  <2>1. pc' \notin BeforeOpen
    BY <1>9, PurgePlace, DispatchPlace DEF NoDataWake, BeforeOpen
  <2> QED
    BY Zenon, <1>9, <2>1, GoOnClosed DEF NoDataWake, netVars
<1>10. CASE NoIncrUpdate
  <2>1. pc' \notin BeforeOpen
    BY <1>10, PurgePlace, DispatchPlace DEF NoIncrUpdate, BeforeOpen
  <2> QED
    BY Zenon, <1>10, <2>1, ChangeClosed DEF NoIncrUpdate, netVars
<1>11. CASE Shutdown
  BY <1>11, GoOnClosed DEF Shutdown, netVars, BeforeOpen
<1>12. CASE ReceiveTimeout \/ ReceiveError
  BY Zenon, <1>12, ChangeLoopClosed DEF ReceiveTimeout, ReceiveError,
     ReceiveFails, netVars
<1>13. CASE ReceiveFatal
  BY Zenon, <1>13, ChangeLoopClosed DEF ReceiveFatal, ReceiveFails, netVars
<1>14. CASE ReceiveNothing \/ ReceiveWrongVersion
  BY Zenon, <1>14, StayLoopClosed DEF ReceiveNothing, ReceiveWrongVersion,
     ReceiveFails, netVars
<1>15. CASE IgnoreNotify
  BY Zenon, <1>15, GoOnClosed DEF IgnoreNotify, netVars
<1>16. CASE rtr_handle_error_pdu
  BY Zenon, <1>16, ChangeLoopClosed DEF rtr_handle_error_pdu
<1>17. CASE CacheReset
  BY Zenon, <1>17, ChangeLoopClosed DEF CacheReset
<1>18. CASE rtr_handle_cache_response_pdu
  <2>1. pc' \notin BeforeOpen /\ conn' = conn
    BY <1>18 DEF rtr_handle_cache_response_pdu, BeforeOpen
  <2>2. \/ rtr_change_socket_state("ERROR_FATAL")
        \/ late' = "no" /\ state' = state
    BY Zenon, <1>18 DEF rtr_handle_cache_response_pdu
  <2> QED
    BY <2>1, <2>2, ChangeClosed, GoOnClosed
<1>19. CASE UnexpectedPdu
  BY Zenon, <1>19, StayLoopClosed DEF UnexpectedPdu
<1>20. CASE StorePdu
  BY Zenon, <1>20, GoOnClosed DEF StorePdu
<1>21. CASE StoreFails \/ EodWrongSession
  BY Zenon, <1>21, ChangeLoopClosed DEF StoreFails, EodWrongSession
<1>22. CASE Eod
  <2>1. pc' = "update" /\ late' = "no" /\ state' = state /\ conn' = conn
    BY Zenon, <1>22 DEF Eod, rtr_handle_eod_pdu
  <2> QED
    BY <2>1, GoOnClosed DEF BeforeOpen
<1>23. CASE EodShadowFails
  BY Zenon, <1>23, ChangeLoopClosed, StayLoopClosed DEF EodShadowFails,
     rtr_handle_eod_pdu
<1>24. CASE WaitOther
  BY Zenon, <1>24, StayLoopClosed DEF WaitOther, netVars
<1>25. CASE WaitNotify \/ RefreshTimeout
  BY Zenon, <1>25, ChangeLoopClosed DEF WaitNotify, RefreshTimeout, SendQuery
<1>26. CASE UpdateRecord \/ NextKind
  BY Zenon, <1>26, GoOnClosed DEF UpdateRecord, NextKind, Updating,
     UpdateUnchanged, netVars
<1>27. CASE UpdateFails
  BY <1>27, GoOnClosed DEF UpdateFails, Updating, UpdateUnchanged, netVars, BeforeOpen
<1>28. CASE rtr_compute_update_aspa_table
  <2>1. pc' \in {"swap_pfx", "commit", "undo_spki"} /\ late' = "no" /\ state' = state
        /\ conn' = conn
    BY <1>28 DEF rtr_compute_update_aspa_table, Updating, UpdateUnchanged, netVars
  <2> QED
    BY <2>1, GoOnClosed DEF BeforeOpen
<1>29. CASE rtr_undo_update_spki_table_batch \/ rtr_undo_update_pfx_table_batch
  <2>1. pc' \in {"undo_pfx", "failed"} /\ late' = "no" /\ state' = state
        /\ conn' = conn
    BY Zenon, <1>29 DEF rtr_undo_update_spki_table_batch,
       rtr_undo_update_pfx_table_batch, UndoBatch, UpdateUnchanged, netVars
  <2> QED
    BY <2>1, GoOnClosed DEF BeforeOpen
<1>30. CASE UpdateFailed
  BY Zenon, <1>30, ChangeLoopClosed DEF UpdateFailed, netVars
<1>31. CASE Commit
  BY Zenon, <1>31, ChangeLoopClosed DEF Commit, netVars
<1>32. CASE Cancelled
  BY <1>32, GoOnClosed DEF Cancelled, netVars, BeforeOpen
<1>33. CASE rtr_start
  BY <1>33 DEF rtr_start, netVars, ClosedInv, BeforeOpen
<1>34. CASE StopIdle
  BY <1>34 DEF StopIdle, netVars, ClosedInv
<1>35. CASE StopCall
  BY <1>35 DEF StopCall, netVars, ClosedInv, Seen, BeforeOpen
<1>36. CASE StopJoin
  BY <1>36 DEF StopJoin, tr_close, ClosedInv
<1>37. CASE Tick \/ ReachChanges
  BY <1>37 DEF Tick, ReachChanges, netVars, ClosedInv
<1>38. CASE PeerClose
  BY <1>38 DEF PeerClose, ClosedInv
<1>39. CASE UNCHANGED vars
  BY <1>39 DEF vars, netVars, ClosedInv
<1>40. CASE Open
  <2>1. PICK new \in {"ERROR_TRANSPORT", "RESET", "SYNC", "ERROR_FATAL"} :
           ChangeAndLoop(new)
    BY Zenon, <1>40 DEF Open
  <2>2. pc' \notin BeforeOpen
    BY <2>1, LoopPlace DEF ChangeAndLoop
  <2>3. late' = "no" /\ (state' = state \/ state' # "CONNECTING")
    BY <2>1 DEF ChangeAndLoop, rtr_change_socket_state
  <2>4. state' # "CONNECTING"
    BY <2>1, <2>3 DEF ChangeAndLoop, rtr_change_socket_state, ClosedInv
  <2> QED
    BY <2>2, <2>3, <2>4 DEF ClosedInv
<1>41. CASE PurgeKind \/ StopKind
  BY Zenon, <1>41 DEF PurgeKind, StopKind, RemoveKind, netVars, ClosedInv
<1>42. CASE PurgeDone
  <2>1. pc' \notin BeforeOpen \/ pc \in BeforeOpen
    BY <1>42, DispatchPlace DEF PurgeDone, BeforeOpen
  <2>2. late # "no" => pc' \notin {"none", "start", "begin", "exit", "joined"}
    BY <1>42, DispatchPlace DEF PurgeDone
  <2> QED
    BY <1>42, <2>1, <2>2 DEF PurgeDone, netVars, ClosedInv
<1>43. CASE StopDone
  BY <1>43 DEF StopDone, netVars, ClosedInv, BeforeOpen
<1>44. CASE pfx_table_swap \/ spki_table_swap \/ aspa_table_src_replace
  <2>1. pc' \in {"swap_spki", "swap_aspa", "commit"} /\ late' = "no" /\ state' = state
        /\ conn' = conn
    BY Zenon, <1>44 DEF pfx_table_swap, spki_table_swap, aspa_table_src_replace, Swap,
       SwapUnchanged, netVars
  <2> QED
    BY <2>1, GoOnClosed DEF BeforeOpen
<1> QED
  BY Zenon, <1>1, <1>2, <1>3, <1>4, <1>5, <1>6, <1>7, <1>8, <1>9, <1>10, <1>11,
     <1>12, <1>13, <1>14, <1>15, <1>16, <1>17, <1>18, <1>19, <1>20, <1>21,
     <1>22, <1>23, <1>24, <1>25, <1>26, <1>27, <1>28, <1>29, <1>30, <1>31,
     <1>32, <1>33, <1>34, <1>35, <1>36, <1>37, <1>38, <1>39, <1>40, <1>41, <1>42,
     <1>43, <1>44 DEF Next, Thread, Branch, Receive, Update, Application, StopEnd,
     Environment

\* rtr_fsm_start opens the transport only when it is closed, whatever the
\* cache does and whenever rtr_stop is called: tr_tcp_open may assert it.
THEOREM OpensOnlyClosed == Spec => []OpensClosed
<1>1. Init => ClosedInv
  BY DEF Init, ClosedInv
<1>2. ClosedInv => OpensClosed
  BY DEF ClosedInv, OpensClosed, BeforeOpen
<1> QED
  BY <1>1, <1>2, ClosedStep, PTL DEF Spec
-----------------------------------------------------------------------------
(***************************************************************************)
(* The expire interval.                                                    *)
(***************************************************************************)

\* Only rtr_handle_eod_pdu writes the interval.
LEMMA OnlyEodNegotiates ==
    ASSUME [Next]_vars
    PROVE  expire_interval' = expire_interval \/ \E s \in Serial : rtr_handle_eod_pdu(s)
<1>1. CASE Branch
  BY Zenon, <1>1 DEF Branch, ThreadStart, ThreadBegin, Connecting, Open, Reset,
     FastReconnect, ErrorClose, SleepDone, NoData, NoDataWake, NoIncrUpdate,
     Shutdown, PurgeKind, PurgeDone, RemoveKind
<1>2. CASE Receive
  BY Zenon, <1>2 DEF Receive, ReceiveTimeout, ReceiveError, ReceiveFatal,
     ReceiveNothing, ReceiveFails, ReceiveWrongVersion, IgnoreNotify,
     rtr_handle_error_pdu, CacheReset, rtr_handle_cache_response_pdu,
     UnexpectedPdu, StorePdu, StoreFails, EodWrongSession, Eod, EodShadowFails,
     WaitOther, WaitNotify, RefreshTimeout
<1>3. CASE Update
  BY Zenon, <1>3 DEF Update, UpdateRecord, UpdateFails, NextKind,
     rtr_compute_update_aspa_table, rtr_undo_update_spki_table_batch,
     rtr_undo_update_pfx_table_batch, UndoBatch, UpdateUnchanged, UpdateFailed,
     pfx_table_swap, spki_table_swap, aspa_table_src_replace, Swap, SwapUnchanged,
     Commit
<1>4. CASE Cancelled \/ Application \/ Environment \/ UNCHANGED vars
  BY Zenon, <1>4 DEF Cancelled, Application, rtr_start, StopIdle, StopCall,
     StopEnd, StopJoin, StopKind, StopDone, RemoveKind, Environment, Tick,
     ReachChanges, PeerClose, vars
<1> QED
  BY Zenon, <1>1, <1>2, <1>3, <1>4 DEF Next, Thread

\* Whatever intervals the End of Data PDUs announce, a socket that does not
\* accept any value keeps its expire interval within the protocol's limits.
THEOREM ExpireStaysInRange == Spec => []ExpireInRange
<1>1. Init => ExpireInRange
  BY DEF Init, ExpireInRange
<1>2. ExpireInRange /\ [Next]_vars => ExpireInRange'
  <2> SUFFICES ASSUME IntervalMode # "ACCEPT_ANY", [Next]_vars,
                      expire_interval \in ExpirationMin..ExpirationMax
               PROVE  expire_interval' \in ExpirationMin..ExpirationMax
    BY DEF ExpireInRange
  <2>1. CASE expire_interval' = expire_interval
    BY <2>1
  <2>2. CASE \E s \in Serial : rtr_handle_eod_pdu(s)
    <3>1. PICK e \in ExpireOffered :
             expire_interval' = NegotiatedInterval(version', IntervalMode,
                expire_interval, e, ExpirationMin, ExpirationMax)
      BY Zenon, <2>2 DEF rtr_handle_eod_pdu
    <3> QED
      BY <3>1, IntervalAssumption DEF NegotiatedInterval,
         rtr_check_interval_option, rtr_check_interval_range
  <2> QED
    BY Zenon, <2>1, <2>2, OnlyEodNegotiates
<1> QED
  BY <1>1, <1>2, PTL DEF Spec
=============================================================================
