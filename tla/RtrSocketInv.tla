---------------------------- MODULE RtrSocketInv ----------------------------
(***************************************************************************)
(* The inductive invariants behind RollbackExact, Coherent and             *)
(* EstablishedIsSynced.  The first part holds for any cache and whatever   *)
(* memory does; the second for a cache that follows the protocol, while    *)
(* the shadow tables can be built and the clock can be read.               *)
(***************************************************************************)
EXTENDS RtrSocket

\* PDU number i of kind k has been applied by rtr_sync_update_tables.
AppliedAt(k, i) == k < kidx \/ (k = kidx /\ i < idx)

\* No record is named by two of the stored PDUs of a kind.
Once ==
    \A k \in Kinds : \A i, j \in DOMAIN stored[k] :
        stored[k][i].rec = stored[k][j].rec => i = j

\* A PDU is stored with those of its kind.
StoredByKind ==
    \A k \in Kinds : \A i \in DOMAIN stored[k] : KindOf[stored[k][i].rec] = k

\* An applied PDU has turned its record around: it is in the tables exactly
\* if it was announced, and was not in them before exactly if it was announced.
Turned(K) ==
    \A k \in K : \A i \in DOMAIN stored[k] :
        AppliedAt(k, i) =>
            /\ stored[k][i].flags \in {0, 1}
            /\ stored[k][i].flags = 1 <=> stored[k][i].rec \in Target
            /\ stored[k][i].flags = 1 <=> stored[k][i].rec \notin before

\* A record that no applied PDU names is as it was before.
Untouched(K) ==
    \A r \in Record :
        (/\ KindOf[r] \in K
         /\ \A i \in DOMAIN stored[KindOf[r]] :
               AppliedAt(KindOf[r], i) => stored[KindOf[r]][i].rec # r)
        => (r \in Target <=> r \in before)

\* Records of kinds K are as they were before, or, when undoing them has
\* failed, at least none was added.
Restored(K) ==
    \A r \in Record :
        KindOf[r] \in K => /\ r \in Target => r \in before
                           /\ ~undo_failed /\ r \in before => r \in Target

\* The update is complete and nothing is exchanged yet.
Updated == pc = "swap_pfx" \/ (pc = "commit" /\ ~is_resetting)

RollbackInv ==
    /\ StoredByKind
    /\ idx <= Len(stored[kidx]) + 1 /\ (kidx = ASPA => idx = 1)
    /\ pc \notin UpdatePCs => (kidx = IPV4 \/ Removing) /\ idx = 1 /\ ~undo_failed
    /\ pc = "update" => ~undo_failed
    /\ pc \in SwapPCs \cup {"commit"} => kidx = ASPA /\ ~undo_failed
    /\ pc \in SwapPCs => is_resetting
    /\ pc = "undo_spki" => kidx \in {ROUTER_KEY, ASPA} /\ ~undo_failed
    /\ Once => /\ pc \in {"update", "undo_spki"} => Turned(Tabled) /\ Untouched(Kinds)
               /\ Updated => Turned(Tabled) /\ Untouched(Tabled)
               /\ pc = "undo_pfx" => /\ Turned(PfxKinds) /\ Untouched(PfxKinds)
                                     /\ Restored({ROUTER_KEY, ASPA})
               /\ pc = "failed" => Restored(Kinds)
-----------------------------------------------------------------------------
\* The cache follows the protocol, the shadow tables can be built and the clock
\* can be read.
Conforming == Faults \cap {"cache", "shadow", "clock"} = {}

\* Nobody writes the state between the read and the write of a handler but
\* rtr_stop, and the handlers that do not read it first are not affected.
LateInv ==
    late # "no" => /\ state = "SHUTDOWN"
                   /\ pc \notin {"none", "start", "begin", "nodata", "exit", "joined"}
                                \cup PurgePCs

\* What request_session_id is worth in the states and phases that rely on it.
RequestInv ==
    /\ ((Seen = "ESTABLISHED" /\ pc # "joined") \/ pc = "wait" \/ phase = "serial")
          => ~request_session_id
    /\ Seen \in {"ERROR_NO_DATA_AVAIL", "ERROR_NO_INCR_UPDATE_AVAIL"} => phase # "serial"
    /\ (Seen = "RESET" \/ pc \in {"nodata", "purge_loop", "joined"} \/ phase = "reset")
          => request_session_id
    /\ pc \in {"purge_open", "open"} =>
          phase = "idle" /\ Seen \in {"CONNECTING", "SHUTDOWN"}
    /\ is_resetting => request_session_id /\ age = NoUpdate
    /\ ~request_session_id => age # NoUpdate
    /\ (pc \in UpdatePCs \cup {"store"} /\ request_session_id) => age = NoUpdate

\* What the cache assumes the router to hold.
Base == IF request_session_id THEN {} ELSE Data[session_id][serial_number]
Answer == Delta(Base, Data[session_id][sn])

\* The PDUs stored and those still to come are the answer, each one once.
StreamInv ==
    /\ pc \notin UpdatePCs \cup {"store"} => stored = NoPdus
    /\ pc \in UpdatePCs \cup {"store"} =>
        /\ sid = session_id
        /\ IF pc = "store" THEN phase = "payload" ELSE phase = "idle" /\ todo = {}
        /\ todo \subseteq Answer
        /\ \A k \in Kinds : \A i \in DOMAIN stored[k] : stored[k][i] \in Answer \ todo
        /\ \A p \in Answer \ todo :
              \E i \in DOMAIN stored[KindOf[p.rec]] : stored[KindOf[p.rec]][i] = p
        /\ Once

\* A socket that starts from nothing holds nothing.
EmptyInv ==
    (request_session_id /\ ~is_resetting /\ age = NoUpdate /\ ~LiveUpdate /\ ~Removing)
        => OfKind(recs, Tabled) = {}

\* A removal goes through the kinds in order; it is a purge only of data whose
\* age is known.
RemoveInv ==
    /\ Removing => \A r \in recs : KindOf[r] >= kidx
    /\ pc \in PurgePCs => age # NoUpdate

\* An update starts from what the cache assumes, and fails only on the shared
\* tables.
StartInv ==
    /\ pc \in UpdatePCs => OfKind(before, Tabled) = OfKind(Base, Tabled)
    /\ (pc \in UpdatePCs /\ is_resetting) => before = {}
    /\ pc \in {"undo_spki", "undo_pfx", "failed"} => ~is_resetting

\* The tables that are already exchanged, and the router keys that will be.
Fresh(S, K) == OfKind(S, K) = OfKind(Data[session_id][sn], K)
SwapInv ==
    is_resetting =>
        /\ pc \in {"swap_spki", "swap_aspa", "commit"} => Fresh(recs, PfxKinds)
        /\ pc = "swap_spki" => Fresh(shadow, SpkiKinds)
        /\ pc \in {"swap_aspa", "commit"} => Fresh(recs, SpkiKinds)

CoherenceInv ==
    /\ LateInv /\ RequestInv /\ StreamInv /\ EmptyInv /\ RemoveInv /\ StartInv
    /\ SwapInv /\ Coherent
=============================================================================
