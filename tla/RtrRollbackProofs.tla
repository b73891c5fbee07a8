-------------------------- MODULE RtrRollbackProofs --------------------------
(***************************************************************************)
(* rtr_sync_update_tables is all or nothing: a proof of RollbackExact for  *)
(* every cache, well behaved or not, and every pattern of failures.        *)
(***************************************************************************)
EXTENDS RtrSocketInv, RtrSocketProofs

USE DEF Kinds, IPV4, IPV6, ROUTER_KEY, ASPA, Receiving, PurgePCs, SwapPCs, Removing

\* What WriteTarget leaves in the tables the update works on.
LEMMA WriteEffect ==
    ASSUME NEW S, WriteTarget(S), is_resetting' = is_resetting
    PROVE  Target' = S
  BY DEF WriteTarget, Target

LEMMA TargetType == TypeOK => Target \subseteq Record
  BY DEF TypeOK, Target

LEMMA StoredType ==
    ASSUME TypeOK, NEW k \in Kinds, NEW i \in DOMAIN stored[k]
    PROVE  /\ stored[k] \in Seq(PDU) /\ i \in 1..Len(stored[k])
           /\ stored[k][i].rec \in Record /\ stored[k][i].flags \in 0..2
<1>1. stored[k] \in Seq(PDU)
  BY DEF TypeOK
<1>2. stored[k][i] \in PDU
  BY <1>1
<1> QED
  BY <1>1, <1>2 DEF PDU

\* The thread leaves a handler for a place outside rtr_sync_update_tables.
LEMMA LoopOutside == Loop => pc' \notin UpdatePCs
  BY DEF Loop, Dispatch, UpdatePCs

\* A record that one PDU of a sequence names: its flags are the last ones.
LEMMA LastFlagsOnce ==
    ASSUME NEW q \in Seq(PDU), NEW r, NEW i \in DOMAIN q, q[i].rec = r,
           \A j \in DOMAIN q : q[j].rec = r => j = i
    PROVE  Positions(q, r) = {i} /\ LastFlags(q, r) = q[i].flags
<1>1. Positions(q, r) = {i}
  BY DEF Positions
<1>2. i \in Nat
  OBVIOUS
<1>3. \E m \in {i} : \A j \in {i} : j <= m
  BY <1>2
<1>4. (CHOOSE m \in {i} : \A j \in {i} : j <= m) = i
  BY <1>3
<1> QED
  BY <1>1, <1>4 DEF LastFlags

\* The prefix of the stored PDUs that an undo inverts.
LEMMA AppliedPrefix ==
    ASSUME TypeOK, idx <= Len(stored[kidx]) + 1, NEW k \in Kinds
    PROVE  /\ Applied(k) \in Seq(PDU)
           /\ DOMAIN Applied(k) = {i \in DOMAIN stored[k] : AppliedAt(k, i)}
           /\ \A i \in DOMAIN Applied(k) : Applied(k)[i] = stored[k][i]
<1>1. stored[k] \in Seq(PDU) /\ kidx \in 1..4 /\ k \in 1..4 /\ idx \in Nat \ {0}
  BY DEF TypeOK
<1>2. CASE k < kidx
  BY <1>1, <1>2 DEF Applied, AppliedAt
<1>3. CASE k = kidx
  <2>1. Applied(k) = SubSeq(stored[k], 1, idx - 1)
    BY <1>3, <1>1 DEF Applied
  <2>2. idx - 1 \in 0..Len(stored[k])
    BY <1>1, <1>3
  <2>3. /\ SubSeq(stored[k], 1, idx - 1) \in Seq(PDU)
        /\ DOMAIN SubSeq(stored[k], 1, idx - 1) = 1..(idx - 1)
        /\ \A i \in 1..(idx - 1) : SubSeq(stored[k], 1, idx - 1)[i] = stored[k][i]
    BY <1>1, <2>2
  <2>4. {i \in DOMAIN stored[k] : AppliedAt(k, i)} = 1..(idx - 1)
    BY <1>1, <1>3, <2>2 DEF AppliedAt
  <2> QED
    BY <2>1, <2>3, <2>4
<1>4. CASE kidx < k
  BY <1>1, <1>4 DEF Applied, AppliedAt
<1> QED
  BY <1>1, <1>2, <1>3, <1>4
-----------------------------------------------------------------------------
\* Steps that touch neither the tables nor the place of an update.
LEMMA RollbackFrame ==
    ASSUME RollbackInv,
           UNCHANGED <<recs, is_resetting, shadow, stored, kidx, idx, undo_failed,
                       before, pc>>
    PROVE  RollbackInv'
  BY DEF RollbackInv, StoredByKind, Once, Turned, Untouched, Restored, AppliedAt,
         Target, Updated

\* Steps outside of an update and of a removal.
LEMMA RollbackOutside ==
    ASSUME RollbackInv, pc \notin UpdatePCs, ~Removing, pc' \notin UpdatePCs,
           UNCHANGED <<stored, kidx, idx, undo_failed>>
    PROVE  RollbackInv'
  BY DEF RollbackInv, StoredByKind, UpdatePCs, Updated

\* Steps of a removal.
LEMMA RollbackRemove ==
    ASSUME TypeOK, RollbackInv, Removing, pc' \notin UpdatePCs, kidx' \in Kinds,
           kidx' = IPV4 \/ Removing', UNCHANGED <<stored, idx, undo_failed>>
    PROVE  RollbackInv'
<1>1. idx = 1 /\ ~undo_failed
  BY DEF RollbackInv, UpdatePCs
<1>2. Len(stored'[kidx']) \in Nat
  <2>1. stored'[kidx'] \in Seq(PDU)
    BY DEF TypeOK
  <2> QED
    BY <2>1
<1> QED
  BY <1>1, <1>2 DEF RollbackInv, StoredByKind, UpdatePCs, Updated

\* The exchange of the tables after a reset.
LEMMA RollbackSwap ==
    ASSUME RollbackInv, pc \in SwapPCs, pc' \in {"swap_spki", "swap_aspa", "commit"},
           UNCHANGED <<is_resetting, stored, kidx, idx, undo_failed>>
    PROVE  RollbackInv'
  BY DEF RollbackInv, StoredByKind, UpdatePCs, Updated

\* Steps that end a synchronisation.
LEMMA RollbackCleanup ==
    ASSUME recv_loop_cleanup, pc' \notin UpdatePCs
    PROVE  RollbackInv'
<1>1. \A k \in Kinds : stored'[k] = <<>>
  BY DEF recv_loop_cleanup, NoPdus
<1>2. StoredByKind'
  BY <1>1 DEF StoredByKind
<1>3. kidx' = 1 /\ idx' = 1 /\ undo_failed' = FALSE
  BY DEF recv_loop_cleanup
<1>4. idx' <= Len(stored'[kidx']) + 1
  BY <1>1, <1>3
<1> QED
  BY <1>2, <1>3, <1>4 DEF RollbackInv, UpdatePCs, Updated

LEMMA AppendElements ==
    ASSUME NEW s \in Seq(PDU), NEW p \in PDU, NEW t, t = Append(s, p)
    PROVE  /\ t \in Seq(PDU) /\ Len(t) = Len(s) + 1
           /\ \A i \in DOMAIN s : i \in DOMAIN t /\ t[i] = s[i]
           /\ t[Len(s) + 1] = p
           /\ \A i \in DOMAIN t : i \in DOMAIN s \/ i = Len(s) + 1
           /\ Len(s) + 1 \in DOMAIN t
  OBVIOUS

LEMMA RollbackStore ==
    ASSUME TypeOK, RollbackInv, StorePdu
    PROVE  RollbackInv'
<1>0. PICK p \in PDU : stored' = [stored EXCEPT ![KindOf[p.rec]] = Append(@, p)]
  BY Zenon DEF StorePdu
<1>1. p \in PDU /\ KindOf[p.rec] \in Kinds
  BY <1>0, KindAssumption DEF PDU
<1>2. \A k \in Kinds : stored[k] \in Seq(PDU)
  BY DEF TypeOK
<1>3. StoredByKind'
  <2>0. \A k \in Kinds : \A i \in DOMAIN stored[k] : KindOf[stored[k][i].rec] = k
    BY Zenon DEF RollbackInv, StoredByKind
  <2> SUFFICES ASSUME NEW k \in Kinds, NEW i \in DOMAIN stored'[k]
               PROVE  KindOf[stored'[k][i].rec] = k
    BY Zenon DEF StoredByKind
  <2>1. CASE k # KindOf[p.rec]
    <3>1. stored'[k] = stored[k]
      BY <1>0, <2>1, <1>1 DEF TypeOK
    <3> QED
      BY Zenon, <3>1, <2>0
  <2>2. CASE k = KindOf[p.rec]
    <3>1. stored'[k] = Append(stored[k], p)
      BY <1>0, <2>2, <1>1 DEF TypeOK
    <3>2. stored[k] \in Seq(PDU)
      BY Zenon, <1>2
    <3>3. \/ i \in DOMAIN stored[k] /\ stored'[k][i] = stored[k][i]
          \/ stored'[k][i] = p
      <4> DEFINE s == stored[k]
                 t == stored'[k]
      <4>1. s \in Seq(PDU) /\ t = Append(s, p) /\ i \in DOMAIN t
        BY Zenon, <3>1, <3>2
      <4> HIDE DEF s, t
      <4>2. \/ i \in DOMAIN s /\ t[i] = s[i]
            \/ t[i] = p
        BY <1>1, <4>1
      <4> QED
        BY Zenon, <4>2 DEF s, t
    <3> QED
      BY Zenon, <2>0, <2>2, <3>3
  <2> QED
    BY Zenon, <2>1, <2>2
<1>4. /\ pc = "store" /\ pc' = "store" /\ kidx' = kidx /\ idx' = idx
      /\ undo_failed' = undo_failed
  BY DEF StorePdu
<1>5. kidx = 1 /\ idx = 1 /\ ~undo_failed
  BY <1>4 DEF RollbackInv, UpdatePCs
<1>6. Len(stored'[1]) >= 0
  <2>1. stored'[1] \in Seq(PDU)
    BY <1>0, <1>1, <1>2 DEF TypeOK
  <2> QED
    BY <2>1
<1> QED
  BY <1>3, <1>4, <1>5, <1>6 DEF RollbackInv, UpdatePCs, Updated

LEMMA RollbackEod ==
    ASSUME TypeOK, RollbackInv, Eod
    PROVE  RollbackInv'
<1>1. pc = "store" /\ pc' = "update" /\ UNCHANGED <<stored, kidx, idx, undo_failed>>
  BY DEF Eod, rtr_handle_eod_pdu, EodPdu
<1>2. Target' = before'
  BY DEF Eod, rtr_handle_eod_pdu, Target
<1>3. kidx = 1 /\ idx = 1 /\ ~undo_failed
  BY <1>1 DEF RollbackInv, UpdatePCs
<1>4. \A k \in Kinds : \A i \in DOMAIN stored[k] : ~AppliedAt(k, i)'
  BY <1>1, <1>3 DEF AppliedAt, TypeOK
<1>5. Turned(Tabled)' /\ Untouched(Kinds)'
  BY <1>1, <1>2, <1>4 DEF Turned, Untouched, Tabled
<1> QED
  BY <1>1, <1>3, <1>5 DEF RollbackInv, StoredByKind, UpdatePCs, Updated

LEMMA RollbackUpdateRecord ==
    ASSUME TypeOK, RollbackInv, UpdateRecord
    PROVE  RollbackInv'
<1> DEFINE p == stored[kidx][idx]
<1>1. /\ pc = "update" /\ pc' = "update" /\ idx' = idx + 1 /\ is_resetting' = is_resetting
      /\ UNCHANGED <<stored, kidx, undo_failed, before>>
  BY DEF UpdateRecord, Updating, UpdateUnchanged, sockVars
<1>2. /\ kidx \in 1..3 /\ idx \in DOMAIN stored[kidx] /\ idx \in Nat \ {0}
      /\ stored[kidx] \in Seq(PDU) /\ p.rec \in Record /\ p.flags \in 0..2
  <2>1. kidx \in 1..3 /\ stored[kidx] \in Seq(PDU) /\ idx \in Nat \ {0}
    BY DEF TypeOK, UpdateRecord
  <2>2. idx \in DOMAIN stored[kidx]
    BY <2>1 DEF UpdateRecord
  <2> QED
    BY <2>1, <2>2, StoredType
<1>3. KindOf[p.rec] = kidx
  BY <1>2 DEF RollbackInv, StoredByKind
<1>4. Target' = Apply(p)
  BY <1>1, WriteEffect DEF UpdateRecord
<1>5. \A r : r # p.rec => (r \in Target' <=> r \in Target)
  BY <1>4 DEF Apply
<1>6. p.flags \in {0, 1} /\ (p.flags = 1 <=> p.rec \notin Target)
  BY DEF UpdateRecord, Applicable
<1>7. p.flags = 1 <=> p.rec \in Target'
  BY <1>4, <1>6 DEF Apply
<1>8. \A k \in Kinds : \A i \in DOMAIN stored[k] :
         AppliedAt(k, i)' <=> AppliedAt(k, i) \/ (k = kidx /\ i = idx)
  <2>1. ASSUME NEW k \in Int, NEW i \in Int
        PROVE  AppliedAt(k, i)' <=> AppliedAt(k, i) \/ (k = kidx /\ i = idx)
    <3>1. kidx \in Int /\ idx \in Int
      BY DEF TypeOK
    <3> QED
      BY <1>1, <3>1 DEF AppliedAt
  <2>2. \A k \in Kinds : k \in Int /\ \A i \in DOMAIN stored[k] : i \in Int
    BY DEF TypeOK
  <2> QED
    BY Zenon, <2>1, <2>2
<1>9. ASSUME Once PROVE Turned(Tabled)' /\ Untouched(Kinds)'
  <2>1. Turned(Tabled) /\ Untouched(Kinds)
    BY <1>1, <1>9 DEF RollbackInv
  <2>2. ASSUME NEW k \in Kinds, NEW i \in DOMAIN stored[k], AppliedAt(k, i)
        PROVE  stored[k][i].rec # p.rec
    <3>1. CASE k = kidx
      BY <2>2, <3>1, <1>2, <1>9 DEF Once, AppliedAt
    <3>2. CASE k # kidx
      BY <2>2, <3>2, <1>3 DEF RollbackInv, StoredByKind
    <3> QED
      BY <3>1, <3>2
  <2>3. p.rec \in Target <=> p.rec \in before
    <3>1. \A i \in DOMAIN stored[KindOf[p.rec]] :
             AppliedAt(KindOf[p.rec], i) => stored[KindOf[p.rec]][i].rec # p.rec
      BY <2>2, <1>2, <1>3
    <3> QED
      BY <2>1, <3>1, <1>2, <1>3 DEF Untouched
  <2>4. Turned(Tabled)'
    <3> SUFFICES ASSUME NEW k \in Tabled, NEW i \in DOMAIN stored[k], AppliedAt(k, i)'
                 PROVE  /\ stored[k][i].flags \in {0, 1}
                        /\ stored[k][i].flags = 1 <=> stored[k][i].rec \in Target'
                        /\ stored[k][i].flags = 1 <=> stored[k][i].rec \notin before
      BY <1>1 DEF Turned
    <3>1. CASE k = kidx /\ i = idx
      BY <3>1, <1>6, <1>7, <2>3
    <3>2. CASE AppliedAt(k, i)
      BY <3>2, <2>1, <2>2, <1>5 DEF Turned, Tabled
    <3> QED
      BY <3>1, <3>2, <1>8 DEF Tabled
  <2>5. Untouched(Kinds)'
    <3> SUFFICES ASSUME NEW r \in Record, KindOf[r] \in Kinds,
                        \A i \in DOMAIN stored[KindOf[r]] :
                           AppliedAt(KindOf[r], i)' => stored[KindOf[r]][i].rec # r
                 PROVE  r \in Target' <=> r \in before
      BY <1>1 DEF Untouched
    <3>1. \A i \in DOMAIN stored[KindOf[r]] :
             AppliedAt(KindOf[r], i) => stored[KindOf[r]][i].rec # r
      BY <1>8
    <3>2. r # p.rec
      BY <1>2, <1>3, <1>8
    <3> QED
      BY <3>1, <3>2, <2>1, <1>5 DEF Untouched
  <2> QED
    BY <2>4, <2>5
<1>10. idx' <= Len(stored'[kidx']) + 1 /\ kidx' # 4
  BY <1>1, <1>2
<1>11. Once' <=> Once
  BY <1>1 DEF Once
<1> QED
  BY <1>1, <1>9, <1>10, <1>11 DEF RollbackInv, StoredByKind, UpdatePCs, Updated

LEMMA RollbackUpdateFails ==
    ASSUME TypeOK, RollbackInv, UpdateFails
    PROVE  RollbackInv'
<1>1. /\ pc = "update" /\ pc' = (IF kidx = ROUTER_KEY THEN "undo_spki" ELSE "undo_pfx")
      /\ UNCHANGED <<recs, shadow, is_resetting, stored, kidx, idx, undo_failed, before>>
  BY DEF UpdateFails, Updating, UpdateUnchanged, sockVars
<1>2. kidx \in 1..3
  BY DEF TypeOK, UpdateFails
<1>3. Target' = Target
  BY <1>1 DEF Target
<1>4. /\ (Once' <=> Once)
      /\ \A K : (Turned(K)' <=> Turned(K)) /\ (Untouched(K)' <=> Untouched(K))
      /\ \A K : Restored(K)' <=> Restored(K)
  BY <1>1, <1>3 DEF Once, Turned, Untouched, Restored, AppliedAt
<1>5. ASSUME Once, kidx # ROUTER_KEY
      PROVE  Turned(PfxKinds) /\ Untouched(PfxKinds) /\ Restored({ROUTER_KEY, ASPA})
  <2>1. Turned(Tabled) /\ Untouched(Kinds)
    BY <1>1, <1>5 DEF RollbackInv
  <2>2. Turned(PfxKinds) /\ Untouched(PfxKinds)
    BY <2>1 DEF Turned, Untouched, Tabled, PfxKinds
  <2>3. \A k \in {3, 4} : \A i : ~AppliedAt(k, i)
    BY <1>2, <1>5 DEF AppliedAt
  <2>4. Restored({ROUTER_KEY, ASPA})
    BY <2>1, <2>3 DEF Untouched, Restored
  <2> QED
    BY <2>2, <2>4
<1> QED
  BY <1>1, <1>2, <1>4, <1>5 DEF RollbackInv, StoredByKind, UpdatePCs, Updated

LEMMA RollbackNextKind ==
    ASSUME TypeOK, RollbackInv, NextKind
    PROVE  RollbackInv'
<1>1. /\ pc = "update" /\ pc' = "update" /\ kidx' = kidx + 1 /\ idx' = 1
      /\ UNCHANGED <<recs, shadow, is_resetting, stored, undo_failed, before>>
  BY DEF NextKind, Updating, UpdateUnchanged, sockVars
<1>2. kidx \in 1..3 /\ idx \in Nat \ {0} /\ idx > Len(stored[kidx])
  BY DEF TypeOK, NextKind
<1>3. Target' = Target
  BY <1>1 DEF Target
<1>4. \A k \in Kinds : stored[k] \in Seq(PDU)
  BY DEF TypeOK
<1>5. \A k \in Kinds : \A i \in DOMAIN stored[k] : AppliedAt(k, i)' <=> AppliedAt(k, i)
  BY <1>1, <1>2, <1>4 DEF AppliedAt
<1>6. /\ (Once' <=> Once) /\ (Turned(Tabled)' <=> Turned(Tabled))
      /\ (Untouched(Kinds)' <=> Untouched(Kinds))
  BY <1>1, <1>3, <1>5 DEF Once, Turned, Untouched, Tabled
<1>7. idx' <= Len(stored'[kidx']) + 1
  BY <1>1, <1>2, <1>4
<1> QED
  BY <1>1, <1>6, <1>7 DEF RollbackInv, StoredByKind, UpdatePCs, Updated

LEMMA RollbackAspa ==
    ASSUME TypeOK, RollbackInv, rtr_compute_update_aspa_table
    PROVE  RollbackInv'
<1>1. /\ pc = "update" /\ kidx = 4 /\ pc' \in {"swap_pfx", "commit", "undo_spki"}
      /\ pc' = "swap_pfx" => is_resetting
      /\ UNCHANGED <<is_resetting, stored, kidx, idx, undo_failed, before>>
  BY DEF rtr_compute_update_aspa_table, Updating, UpdateUnchanged, sockVars
<1>2. CASE pc' = "undo_spki"
  <2>1. UNCHANGED <<recs, shadow>>
    BY <1>2 DEF rtr_compute_update_aspa_table
  <2>2. Target' = Target
    BY <1>1, <2>1 DEF Target
  <2>3. /\ (Once' <=> Once) /\ (Turned(Tabled)' <=> Turned(Tabled))
        /\ (Untouched(Kinds)' <=> Untouched(Kinds))
    BY <1>1, <2>2 DEF Once, Turned, Untouched, AppliedAt
  <2> QED
    BY Zenon, <1>1, <1>2, <2>3 DEF RollbackInv, StoredByKind, UpdatePCs, Updated
<1>3. CASE pc' \in {"swap_pfx", "commit"}
  <2>1. Target' = AspaUpdate(stored[4])
    BY <1>1, <1>3, WriteEffect DEF rtr_compute_update_aspa_table
  <2>2. \A r \in Record : KindOf[r] \in Tabled => Positions(stored[4], r) = {}
    BY DEF RollbackInv, StoredByKind, Positions, Tabled
  <2>3. \A r \in Record : KindOf[r] \in Tabled => (r \in Target' <=> r \in Target)
    BY <2>1, <2>2 DEF AspaUpdate
  <2>4. /\ (Once' <=> Once)
        /\ Turned(Tabled) => Turned(Tabled)'
        /\ Untouched(Kinds) => Untouched(Tabled)'
    <3>1. \A k \in Tabled : \A i \in DOMAIN stored[k] :
             stored[k][i].rec \in Record /\ KindOf[stored[k][i].rec] \in Tabled
      BY StoredType DEF RollbackInv, StoredByKind, Tabled
    <3>2. Turned(Tabled) => Turned(Tabled)'
      BY <1>1, <2>3, <3>1 DEF Turned, AppliedAt
    <3>3. Untouched(Kinds) => Untouched(Tabled)'
      BY <1>1, <2>3 DEF Untouched, AppliedAt, Tabled
    <3>4. Once' <=> Once
      BY <1>1 DEF Once
    <3> QED
      BY <3>2, <3>3, <3>4
  <2> QED
    BY <1>1, <1>3, <2>4 DEF RollbackInv, StoredByKind, UpdatePCs, Updated
<1> QED
  BY <1>1, <1>2, <1>3
-----------------------------------------------------------------------------
(***************************************************************************)
(* Undo.  Naming(q, K) says that q is a sequence of the applied PDUs of    *)
(* the kinds K.                                                            *)
(***************************************************************************)
Unnamed(r) ==
    \A i \in DOMAIN stored[KindOf[r]] :
        AppliedAt(KindOf[r], i) => stored[KindOf[r]][i].rec # r

Naming(q, K) ==
    \A r \in Record :
        /\ KindOf[r] \notin K => Positions(q, r) = {}
        /\ KindOf[r] \in K =>
              /\ Positions(q, r) = {} <=> Unnamed(r)
              /\ \A i \in DOMAIN stored[KindOf[r]] :
                    (AppliedAt(KindOf[r], i) /\ stored[KindOf[r]][i].rec = r) =>
                        LastFlags(q, r) = stored[KindOf[r]][i].flags

LEMMA AppliedNaming ==
    ASSUME TypeOK, StoredByKind, Once, idx <= Len(stored[kidx]) + 1, NEW k \in Kinds
    PROVE  Naming(Applied(k), {k})
<1> DEFINE q == Applied(k)
<1>1. /\ q \in Seq(PDU)
      /\ DOMAIN q = {i \in DOMAIN stored[k] : AppliedAt(k, i)}
      /\ \A i \in DOMAIN q : q[i] = stored[k][i]
  BY Zenon, AppliedPrefix
<1> HIDE DEF q
<1> SUFFICES ASSUME NEW r \in Record
             PROVE  /\ KindOf[r] # k => Positions(q, r) = {}
                    /\ KindOf[r] = k =>
                         /\ Positions(q, r) = {} <=> Unnamed(r)
                         /\ \A i \in DOMAIN stored[k] :
                               (AppliedAt(k, i) /\ stored[k][i].rec = r) =>
                                   LastFlags(q, r) = stored[k][i].flags
  BY Zenon DEF Naming, q
<1>2. KindOf[r] # k => Positions(q, r) = {}
  BY <1>1 DEF StoredByKind, Positions
<1>3. KindOf[r] = k => (Positions(q, r) = {} <=> Unnamed(r))
  BY <1>1 DEF Positions, Unnamed
<1>4. ASSUME NEW i \in DOMAIN stored[k], AppliedAt(k, i), stored[k][i].rec = r
      PROVE  LastFlags(q, r) = stored[k][i].flags
  <2>1. i \in DOMAIN q /\ q[i] = stored[k][i]
    BY <1>1, <1>4
  <2>2. \A j \in DOMAIN q : q[j].rec = r => j = i
    BY <1>1, <1>4 DEF Once
  <2> QED
    BY <2>1, <2>2, <1>1, <1>4, LastFlagsOnce
<1> QED
  BY <1>2, <1>3, <1>4

LEMMA ConcatPositions ==
    ASSUME NEW q1 \in Seq(PDU), NEW q2 \in Seq(PDU), NEW r
    PROVE  /\ q1 \o q2 \in Seq(PDU)
           /\ Positions(q1 \o q2, r) = {} <=> Positions(q1, r) = {} /\ Positions(q2, r) = {}
           /\ \A i \in DOMAIN q1 : Positions(q1, r) = {i} /\ Positions(q2, r) = {} =>
                 LastFlags(q1 \o q2, r) = q1[i].flags
           /\ \A i \in DOMAIN q2 : Positions(q1, r) = {} /\ Positions(q2, r) = {i} =>
                 LastFlags(q1 \o q2, r) = q2[i].flags
<1> DEFINE q == q1 \o q2
<1>1. /\ q \in Seq(PDU) /\ Len(q) = Len(q1) + Len(q2)
      /\ DOMAIN q = 1..Len(q) /\ DOMAIN q1 = 1..Len(q1) /\ DOMAIN q2 = 1..Len(q2)
      /\ Len(q1) \in Nat /\ Len(q2) \in Nat
  OBVIOUS
<1>2. /\ \A i \in DOMAIN q1 : i \in DOMAIN q /\ q[i] = q1[i]
      /\ \A i \in DOMAIN q2 : i + Len(q1) \in DOMAIN q /\ q[i + Len(q1)] = q2[i]
  OBVIOUS
<1>3. q \in Seq(PDU)
  OBVIOUS
<1>4. \A j \in DOMAIN q : j \in DOMAIN q1 \/ (j - Len(q1) \in DOMAIN q2 /\ j = (j - Len(q1)) + Len(q1))
  BY <1>1
<1> HIDE DEF q
<1>5. Positions(q, r) = {} <=> Positions(q1, r) = {} /\ Positions(q2, r) = {}
  BY <1>2, <1>4 DEF Positions
<1>6. ASSUME NEW i \in DOMAIN q1, Positions(q1, r) = {i}, Positions(q2, r) = {}
      PROVE  LastFlags(q, r) = q1[i].flags
  <2>1. i \in DOMAIN q /\ q[i] = q1[i] /\ q1[i].rec = r
    BY <1>2, <1>6 DEF Positions
  <2>2. \A j \in DOMAIN q : q[j].rec = r => j = i
    <3> SUFFICES ASSUME NEW j \in DOMAIN q, q[j].rec = r PROVE j = i
      OBVIOUS
    <3>1. CASE j \in DOMAIN q1
      BY <3>1, <1>2, <1>6 DEF Positions
    <3>2. CASE j - Len(q1) \in DOMAIN q2 /\ j = (j - Len(q1)) + Len(q1)
      BY <3>2, <1>2, <1>6 DEF Positions
    <3> QED
      BY <3>1, <3>2, <1>4
  <2>3. q[i].rec = r
    BY <2>1
  <2>4. LastFlags(q, r) = q[i].flags
    BY <2>1, <2>2, <2>3, <1>3, LastFlagsOnce
  <2> QED
    BY <2>1, <2>4
<1>7. ASSUME NEW i \in DOMAIN q2, Positions(q1, r) = {}, Positions(q2, r) = {i}
      PROVE  LastFlags(q, r) = q2[i].flags
  <2>1. i + Len(q1) \in DOMAIN q /\ q[i + Len(q1)] = q2[i] /\ q2[i].rec = r
    BY <1>2, <1>7 DEF Positions
  <2>2. \A j \in DOMAIN q : q[j].rec = r => j = i + Len(q1)
    <3> SUFFICES ASSUME NEW j \in DOMAIN q, q[j].rec = r PROVE j = i + Len(q1)
      OBVIOUS
    <3>1. CASE j \in DOMAIN q1
      BY <3>1, <1>2, <1>7 DEF Positions
    <3>2. CASE j - Len(q1) \in DOMAIN q2 /\ j = (j - Len(q1)) + Len(q1)
      <4>1. q2[j - Len(q1)] = q[j]
        BY <3>2, <1>2
      <4>2. j - Len(q1) = i
        BY <3>2, <4>1, <1>7 DEF Positions
      <4> QED
        BY <3>2, <4>2
    <3> QED
      BY <3>1, <3>2, <1>4
  <2>3. q[i + Len(q1)].rec = r
    BY <2>1
  <2>4. LastFlags(q, r) = q[i + Len(q1)].flags
    BY <2>1, <2>2, <2>3, <1>3, LastFlagsOnce
  <2> QED
    BY <2>1, <2>4
<1> QED
  BY <1>1, <1>5, <1>6, <1>7 DEF q

LEMMA ConcatNaming ==
    ASSUME TypeOK, StoredByKind, Once, idx <= Len(stored[kidx]) + 1
    PROVE  Naming(Applied(IPV4) \o Applied(IPV6), PfxKinds)
<1> DEFINE q(k) == Applied(k)
<1> DEFINE c == q(1) \o q(2)
<1>1. \A k \in Kinds : Naming(q(k), {k}) /\ q(k) \in Seq(PDU)
  BY Zenon, AppliedNaming, AppliedPrefix
<1>2. \A k \in Kinds : \A i \in DOMAIN stored[k] :
         AppliedAt(k, i) =>
            /\ i \in DOMAIN q(k) /\ q(k)[i] = stored[k][i]
            /\ Positions(q(k), stored[k][i].rec) = {i}
  <2> SUFFICES ASSUME NEW k \in Kinds, NEW i \in DOMAIN stored[k], AppliedAt(k, i)
               PROVE  /\ i \in DOMAIN q(k) /\ q(k)[i] = stored[k][i]
                      /\ Positions(q(k), stored[k][i].rec) = {i}
    BY Zenon
  <2>1. /\ DOMAIN q(k) = {j \in DOMAIN stored[k] : AppliedAt(k, j)}
        /\ \A j \in DOMAIN q(k) : q(k)[j] = stored[k][j]
    BY Zenon, AppliedPrefix
  <2> HIDE DEF q
  <2>2. i \in DOMAIN q(k)
    BY <2>1
  <2>3. Positions(q(k), stored[k][i].rec) = {i}
    BY <2>1, <2>2 DEF Positions, Once
  <2> QED
    BY <2>1, <2>2, <2>3
<1> HIDE DEF q
<1>3. /\ q(1) \in Seq(PDU) /\ q(2) \in Seq(PDU)
      /\ Naming(q(1), {1}) /\ Naming(q(2), {2})
  BY <1>1
<1> SUFFICES ASSUME NEW r \in Record
             PROVE  /\ KindOf[r] \notin PfxKinds => Positions(c, r) = {}
                    /\ KindOf[r] \in PfxKinds =>
                         /\ Positions(c, r) = {} <=> Unnamed(r)
                         /\ \A i \in DOMAIN stored[KindOf[r]] :
                               (AppliedAt(KindOf[r], i) /\ stored[KindOf[r]][i].rec = r) =>
                                   LastFlags(c, r) = stored[KindOf[r]][i].flags
  BY Zenon DEF Naming, c, q
<1>4. /\ Positions(c, r) = {} <=> Positions(q(1), r) = {} /\ Positions(q(2), r) = {}
      /\ \A i \in DOMAIN q(1) : Positions(q(1), r) = {i} /\ Positions(q(2), r) = {} =>
            LastFlags(c, r) = q(1)[i].flags
      /\ \A i \in DOMAIN q(2) : Positions(q(1), r) = {} /\ Positions(q(2), r) = {i} =>
            LastFlags(c, r) = q(2)[i].flags
  <2>1. q(1) \in Seq(PDU) /\ q(2) \in Seq(PDU)
    BY <1>3
  <2> QED
    BY Zenon, <2>1, ConcatPositions
<1>5. CASE KindOf[r] \notin PfxKinds
  BY Zenon, <1>3, <1>4, <1>5 DEF Naming, PfxKinds
<1>6. CASE KindOf[r] = 1
  <2>0. KindOf[r] \in {1} /\ KindOf[r] \notin {2}
    BY <1>6
  <2>1. Positions(q(2), r) = {} /\ (Positions(q(1), r) = {} <=> Unnamed(r))
    BY Zenon, <1>3, <2>0 DEF Naming
  <2>2. ASSUME NEW i \in DOMAIN stored[1], AppliedAt(1, i), stored[1][i].rec = r
        PROVE  LastFlags(c, r) = stored[1][i].flags
    <3>0. 1 \in Kinds
      OBVIOUS
    <3>1. /\ i \in DOMAIN q(1) /\ q(1)[i] = stored[1][i]
          /\ Positions(q(1), r) = {i}
      BY Zenon, <2>2, <1>2, <3>0
    <3>2. LastFlags(c, r) = q(1)[i].flags
      BY Zenon, <3>1, <2>1, <1>4
    <3> QED
      BY <3>1, <3>2
  <2> QED
    BY Zenon, <1>4, <1>6, <2>1, <2>2 DEF PfxKinds
<1>7. CASE KindOf[r] = 2
  <2>0. KindOf[r] \in {2} /\ KindOf[r] \notin {1}
    BY <1>7
  <2>1. Positions(q(1), r) = {} /\ (Positions(q(2), r) = {} <=> Unnamed(r))
    BY Zenon, <1>3, <2>0 DEF Naming
  <2>2. ASSUME NEW i \in DOMAIN stored[2], AppliedAt(2, i), stored[2][i].rec = r
        PROVE  LastFlags(c, r) = stored[2][i].flags
    <3>0. 2 \in Kinds
      OBVIOUS
    <3>1. /\ i \in DOMAIN q(2) /\ q(2)[i] = stored[2][i]
          /\ Positions(q(2), r) = {i}
      BY Zenon, <2>2, <1>2, <3>0
    <3>2. LastFlags(c, r) = q(2)[i].flags
      BY Zenon, <3>1, <2>1, <1>4
    <3> QED
      BY <3>1, <3>2
  <2> QED
    BY Zenon, <1>4, <1>7, <2>1, <2>2 DEF PfxKinds
<1> QED
  BY Zenon, <1>5, <1>6, <1>7 DEF PfxKinds

\* Inverting the applied PDUs of the kinds K brings their records back and
\* leaves the others alone.
LEMMA InvertRestores ==
    ASSUME NEW q, NEW K, Naming(q, K), Turned(K), Untouched(K)
    PROVE  \A r \in Record :
              r \in Inverted(q) <=> IF KindOf[r] \in K THEN r \in before ELSE r \in Target
<1> SUFFICES ASSUME NEW r \in Record
             PROVE  r \in Inverted(q) <=>
                       IF KindOf[r] \in K THEN r \in before ELSE r \in Target
  OBVIOUS
<1>1. CASE KindOf[r] \notin K
  BY Zenon, <1>1 DEF Naming, Inverted
<1>2. CASE KindOf[r] \in K /\ Unnamed(r)
  BY Zenon, <1>2 DEF Naming, Inverted, Untouched, Unnamed
<1>3. CASE KindOf[r] \in K /\ ~Unnamed(r)
  <2>1. PICK i \in DOMAIN stored[KindOf[r]] :
           AppliedAt(KindOf[r], i) /\ stored[KindOf[r]][i].rec = r
    BY Zenon, <1>3 DEF Unnamed
  <2>2. Positions(q, r) # {} /\ LastFlags(q, r) = stored[KindOf[r]][i].flags
    BY Zenon, <1>3, <2>1 DEF Naming
  <2>3. /\ stored[KindOf[r]][i].flags \in {0, 1}
        /\ stored[KindOf[r]][i].flags = 1 <=> r \notin before
    BY Zenon, <1>3, <2>1 DEF Turned
  <2> QED
    BY <1>3, <2>2, <2>3 DEF Inverted
<1> QED
  BY <1>1, <1>2, <1>3

\* What an undo of the kinds K leaves: their records are restored, or, when
\* memory runs out, gone.
LEMMA UndoEffect ==
    ASSUME TypeOK, NEW q, NEW K, NEW next, Naming(q, K), Turned(K), Untouched(K),
           UndoBatch(q, K, next)
    PROVE  /\ \A r \in Record : KindOf[r] \in K =>
                 /\ r \in Target' => r \in before
                 /\ ~undo_failed' /\ r \in before => r \in Target'
           /\ \A r \in Record : KindOf[r] \notin K => (r \in Target' <=> r \in Target)
           /\ undo_failed => undo_failed'
<1>1. is_resetting' = is_resetting
  BY Zenon DEF UndoBatch, UpdateUnchanged, sockVars
<1>2. CASE WriteTarget(Inverted(q)) /\ UNCHANGED undo_failed
  <2>1. Target' = Inverted(q)
    BY <1>1, <1>2, WriteEffect
  <2>2. \A r \in Record :
           r \in Target' <=> IF KindOf[r] \in K THEN r \in before ELSE r \in Target
    BY <2>1, InvertRestores
  <2> QED
    BY <1>2, <2>2
<1>3. CASE WriteTarget(Target \ OfKind(Record, K)) /\ undo_failed' = TRUE
  <2>1. Target' = Target \ OfKind(Record, K)
    BY <1>1, <1>3, WriteEffect
  <2> QED
    BY <1>3, <2>1 DEF OfKind
<1> QED
  BY Zenon, <1>2, <1>3 DEF UndoBatch

LEMMA RollbackUndoSpki ==
    ASSUME TypeOK, RollbackInv, rtr_undo_update_spki_table_batch
    PROVE  RollbackInv'
<1>1. /\ pc = "undo_spki" /\ pc' = "undo_pfx" /\ UNCHANGED <<stored, kidx, idx, before>>
      /\ UndoBatch(Applied(ROUTER_KEY), SpkiKinds, "undo_pfx")
  BY Zenon DEF rtr_undo_update_spki_table_batch, UndoBatch, UpdateUnchanged
<1>2. kidx \in {3, 4} /\ ~undo_failed
  BY <1>1 DEF RollbackInv
<1>3. ASSUME Once
      PROVE  Turned(PfxKinds)' /\ Untouched(PfxKinds)' /\ Restored({ROUTER_KEY, ASPA})'
  <2>1. Turned(Tabled) /\ Untouched(Kinds)
    BY <1>1, <1>3 DEF RollbackInv
  <2>2. Turned(SpkiKinds) /\ Untouched(SpkiKinds)
    BY <2>1 DEF Turned, Untouched, Tabled, SpkiKinds
  <2>3. Naming(Applied(3), SpkiKinds)
    BY <1>3, AppliedNaming DEF RollbackInv, SpkiKinds
  <2>4. /\ \A r \in Record : KindOf[r] = 3 =>
              /\ r \in Target' => r \in before
              /\ ~undo_failed' /\ r \in before => r \in Target'
        /\ \A r \in Record : KindOf[r] # 3 => (r \in Target' <=> r \in Target)
    BY <1>1, <2>2, <2>3, UndoEffect DEF SpkiKinds
  <2>5. \A k \in Kinds : \A i : AppliedAt(k, i)' <=> AppliedAt(k, i)
    BY <1>1 DEF AppliedAt
  <2>6. Turned(PfxKinds)'
    <3>1. \A k \in PfxKinds : \A i \in DOMAIN stored[k] :
             stored[k][i].rec \in Record /\ KindOf[stored[k][i].rec] = k
      BY StoredType DEF RollbackInv, StoredByKind, PfxKinds
    <3> QED
      BY <1>1, <2>1, <2>4, <2>5, <3>1 DEF Turned, PfxKinds, Tabled
  <2>7. Untouched(PfxKinds)'
    BY <1>1, <2>1, <2>4, <2>5 DEF Untouched, PfxKinds
  <2>8. ASSUME NEW r \in Record, KindOf[r] = 4 PROVE r \in Target' <=> r \in before
    <3>1. \A i \in DOMAIN stored[4] : ~AppliedAt(4, i)
      BY <1>2, StoredType DEF RollbackInv, AppliedAt
    <3> QED
      BY <2>1, <2>4, <2>8, <3>1 DEF Untouched
  <2>9. Restored({ROUTER_KEY, ASPA})'
    BY <1>1, <2>4, <2>8 DEF Restored
  <2> QED
    BY <2>6, <2>7, <2>9
<1>4. Once' <=> Once
  BY <1>1 DEF Once
<1> QED
  BY Zenon, <1>1, <1>3, <1>4 DEF RollbackInv, StoredByKind, UpdatePCs, Updated

LEMMA RollbackUndoPfx ==
    ASSUME TypeOK, RollbackInv, rtr_undo_update_pfx_table_batch
    PROVE  RollbackInv'
<1>1. /\ pc = "undo_pfx" /\ pc' = "failed" /\ UNCHANGED <<stored, kidx, idx, before>>
      /\ UndoBatch(Applied(IPV4) \o Applied(IPV6), PfxKinds, "failed")
  BY Zenon DEF rtr_undo_update_pfx_table_batch, UndoBatch, UpdateUnchanged
<1>2. ASSUME Once PROVE Restored(Kinds)'
  <2>1. Turned(PfxKinds) /\ Untouched(PfxKinds) /\ Restored({ROUTER_KEY, ASPA})
    BY <1>1, <1>2 DEF RollbackInv
  <2>2. Naming(Applied(IPV4) \o Applied(IPV6), PfxKinds)
    BY <1>2, ConcatNaming DEF RollbackInv
  <2>3. /\ \A r \in Record : KindOf[r] \in PfxKinds =>
              /\ r \in Target' => r \in before
              /\ ~undo_failed' /\ r \in before => r \in Target'
        /\ \A r \in Record : KindOf[r] \notin PfxKinds => (r \in Target' <=> r \in Target)
        /\ undo_failed => undo_failed'
    BY <1>1, <2>1, <2>2, UndoEffect
  <2> QED
    BY <1>1, <2>1, <2>3 DEF Restored, PfxKinds
<1>3. Once' <=> Once
  BY <1>1 DEF Once
<1> QED
  BY Zenon, <1>1, <1>2, <1>3 DEF RollbackInv, StoredByKind, UpdatePCs, Updated
-----------------------------------------------------------------------------
LEMMA RollbackStep == TypeOK /\ RollbackInv /\ [Next]_vars => RollbackInv'
<1> SUFFICES ASSUME TypeOK, RollbackInv, [Next]_vars PROVE RollbackInv'
  OBVIOUS
<1>1. CASE \/ ThreadStart \/ ThreadBegin \/ Open \/ Reset \/ FastReconnect \/ ErrorClose
           \/ SleepDone \/ NoData \/ Shutdown
  <2>1. /\ pc \notin UpdatePCs /\ ~Removing /\ pc' \notin UpdatePCs
        /\ UNCHANGED <<stored, kidx, idx, undo_failed>>
    BY Zenon, <1>1, LoopOutside DEF ThreadStart, ThreadBegin, Open, Reset,
       FastReconnect, ErrorClose, SleepDone, NoData, Shutdown, SendQuery, ChangeAndLoop,
       StayAndLoop, syncVars, UpdatePCs
  <2> QED
    BY <2>1, RollbackOutside
<1>13. CASE Connecting \/ NoDataWake \/ NoIncrUpdate
  <2>1. pc' \notin UpdatePCs
    BY <1>13, PurgePlace, DispatchPlace DEF Connecting, NoDataWake, NoIncrUpdate, UpdatePCs
  <2>2. /\ pc \notin UpdatePCs /\ ~Removing
        /\ UNCHANGED <<stored, kidx, idx, undo_failed>>
    BY Zenon, <1>13 DEF Connecting, NoDataWake, NoIncrUpdate, syncVars, UpdatePCs
  <2> QED
    BY <2>1, <2>2, RollbackOutside
<1>14. CASE PurgeKind \/ StopKind
  <2>1. Removing /\ pc' = pc /\ kidx # 4 /\ kidx' = kidx + 1
        /\ UNCHANGED <<stored, idx, undo_failed>>
    BY <1>14 DEF PurgeKind, StopKind, RemoveKind
  <2>2. kidx' \in Kinds
    BY <2>1 DEF TypeOK
  <2> QED
    BY <2>1, <2>2, RollbackRemove DEF UpdatePCs
<1>15. CASE PurgeDone \/ StopDone
  <2>1. Removing /\ pc' \notin UpdatePCs /\ kidx' = 1 /\ UNCHANGED <<stored, idx, undo_failed>>
    BY <1>15, DispatchPlace DEF PurgeDone, StopDone, UpdatePCs
  <2> QED
    BY <2>1, RollbackRemove
<1>16. CASE pfx_table_swap \/ spki_table_swap \/ aspa_table_src_replace
  <2>1. /\ pc \in SwapPCs /\ pc' \in {"swap_spki", "swap_aspa", "commit"}
        /\ UNCHANGED <<is_resetting, stored, kidx, idx, undo_failed>>
    BY Zenon, <1>16 DEF pfx_table_swap, spki_table_swap, aspa_table_src_replace, Swap,
       SwapUnchanged, sockVars
  <2> QED
    BY <2>1, RollbackSwap
<1>2. CASE \/ IgnoreNotify \/ CacheReset \/ rtr_handle_cache_response_pdu
           \/ WaitOther \/ WaitNotify \/ RefreshTimeout \/ rtr_start \/ StopJoin
  <2>1. /\ pc \notin UpdatePCs /\ ~Removing /\ pc' \notin UpdatePCs
        /\ UNCHANGED <<stored, kidx, idx, undo_failed>>
    BY Zenon, <1>2, LoopOutside DEF IgnoreNotify, CacheReset, rtr_handle_cache_response_pdu,
       WaitOther, WaitNotify, RefreshTimeout, rtr_start, StopJoin, SendQuery,
       ChangeAndLoop, StayAndLoop, syncVars, UpdatePCs
  <2> QED
    BY <2>1, RollbackOutside
<1>3. CASE \/ ReceiveTimeout \/ ReceiveError \/ ReceiveFatal \/ ReceiveNothing
           \/ ReceiveWrongVersion \/ rtr_handle_error_pdu \/ UnexpectedPdu
           \/ StoreFails \/ EodWrongSession \/ EodShadowFails
           \/ UpdateFailed \/ Commit \/ Cancelled
  <2>1. recv_loop_cleanup /\ pc' \notin UpdatePCs
    BY Zenon, <1>3, LoopOutside DEF ReceiveTimeout, ReceiveError, ReceiveFatal,
       ReceiveNothing, ReceiveFails, ReceiveWrongVersion, rtr_handle_error_pdu,
       UnexpectedPdu, StoreFails, EodWrongSession, EodShadowFails, UpdateFailed,
       Commit, Cancelled, ChangeAndLoop, StayAndLoop, UpdatePCs
  <2> QED
    BY <2>1, RollbackCleanup
<1>4. CASE StopIdle \/ StopCall \/ Environment \/ UNCHANGED vars
  <2>1. UNCHANGED <<recs, is_resetting, shadow, stored, kidx, idx, undo_failed,
                    before, pc>>
    BY Zenon, <1>4 DEF StopIdle, StopCall, Environment, Tick, ReachChanges, PeerClose,
       vars, sockVars, syncVars
  <2> QED
    BY <2>1, RollbackFrame
<1>5. CASE StorePdu
  BY <1>5, RollbackStore
<1>6. CASE Eod
  BY <1>6, RollbackEod
<1>7. CASE UpdateRecord
  BY <1>7, RollbackUpdateRecord
<1>8. CASE UpdateFails
  BY <1>8, RollbackUpdateFails
<1>9. CASE NextKind
  BY <1>9, RollbackNextKind
<1>10. CASE rtr_compute_update_aspa_table
  BY <1>10, RollbackAspa
<1>11. CASE rtr_undo_update_spki_table_batch
  BY <1>11, RollbackUndoSpki
<1>12. CASE rtr_undo_update_pfx_table_batch
  BY <1>12, RollbackUndoPfx
<1> QED
  BY Zenon, <1>1, <1>2, <1>3, <1>4, <1>5, <1>6, <1>7, <1>8, <1>9, <1>10, <1>11, <1>12,
     <1>13, <1>14, <1>15, <1>16 DEF Next, Thread, Branch, Receive, Update, Application,
     StopEnd

LEMMA RollbackInit == Init => RollbackInv
<1> SUFFICES ASSUME Init PROVE RollbackInv
  OBVIOUS
<1>1. \A k \in Kinds : stored[k] = <<>>
  BY DEF Init, NoPdus
<1>2. StoredByKind
  BY <1>1 DEF StoredByKind
<1>3. kidx = 1 /\ idx = 1 /\ undo_failed = FALSE /\ pc = "none"
  BY DEF Init
<1>4. idx <= Len(stored[kidx]) + 1
  BY <1>1, <1>3
<1> QED
  BY <1>2, <1>3, <1>4 DEF RollbackInv, UpdatePCs, Updated

\* The invariant of an update in progress holds throughout.
THEOREM RollbackInvariant == Spec => []RollbackInv
  BY RollbackInit, RollbackStep, TypeCorrect, PTL DEF Spec

\* rtr_sync_update_tables is all or nothing: whatever a cache sends, as long as
\* no record is named twice, an update that fails and can be undone leaves the
\* tables exactly as they were when it began.
THEOREM RollbackIsExact == Spec => []RollbackExact
<1>1. TypeOK /\ RollbackInv => RollbackExact
  <2> SUFFICES ASSUME TypeOK, RollbackInv, pc = "failed", ~undo_failed, Once
               PROVE  Target = before
    BY DEF RollbackExact, Once
  <2>1. Restored(Kinds)
    BY DEF RollbackInv
  <2>2. Target \subseteq Record /\ before \subseteq Record
    BY TargetType DEF TypeOK
  <2> QED
    BY <2>1, <2>2, KindAssumption DEF Restored
<1> QED
  BY <1>1, TypeCorrect, RollbackInvariant, PTL
=============================================================================
