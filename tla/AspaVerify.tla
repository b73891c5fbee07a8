----------------------------- MODULE AspaVerify -----------------------------
(***************************************************************************)
(* AS path verification with ASPA records (aspa/aspa_verification.c).      *)
(* One behaviour is one call of rtr_aspa_verify_as_path; each step is one  *)
(* round of a loop, with one lookup in the table.  The call holds the read *)
(* lock of the table, so the table does not change.                        *)
(***************************************************************************)
EXTENDS Integers, Sequences

CONSTANTS
    AsnBits,  \* an AS number is a word of this many bits (32 in the code)
    Call      \* the calls: the path, its direction, if there is a table, its store

Asn == 0 .. 2^AsnBits - 1

Direction == {"RTR_ASPA_UPSTREAM", "RTR_ASPA_DOWNSTREAM"}

(* The store: per socket an array of records, sorted by customer; the      *)
(* providers of a record are sorted as well.                               *)
AspaRecord == [customer : Asn, providers : Seq(Asn)]

ASSUME BitsAssumption == AsnBits \in Nat \ {0}
ASSUME CallAssumption ==
    \A c \in Call : /\ c.path \in Seq(Asn)
                    /\ c.direction \in Direction
                    /\ c.table \in BOOLEAN
                    /\ c.store \in Seq(Seq(AspaRecord))

VARIABLES
    call,       \* the arguments
    pc,         \* the loop the call is in
    r, l,       \* ends of the up-ramp and of the down-ramp
    rr, ll,     \* how far the gap has been searched from the right, the left
    last_hop_right, last_hop_left, \* what the ramps ended with
    result

vars == <<call, pc, r, l, rr, ll, last_hop_right, last_hop_left, result>>

-----------------------------------------------------------------------------
(* Lookups                                                                 *)

\* The difference of two words, read as a signed word, is not negative.
NotNegative(a, b) == (a - b) % 2^AsnBits < 2^(AsnBits - 1)

\* Faulty variant: the last pivot is not compared.
SearchStopsEarly(cas, array) ==
    LET found[base \in 0 .. Len(array), top \in 0 .. Len(array)] ==
            LET mid == top \div 2
                pivot == array[base + mid + 1]
            IN  /\ mid # 0
                /\ \/ pivot = cas
                   \/ found[IF NotNegative(cas, pivot) THEN base + mid ELSE base, top - mid]
    IN  array # <<>> /\ found[0, Len(array)]

binary_search_asns(cas, array) ==
    LET found[base \in 0 .. Len(array), top \in 0 .. Len(array)] ==
            LET mid == top \div 2
                pivot == array[base + mid + 1]
            IN  \/ pivot = cas
                \/ /\ mid # 0
                   /\ found[IF NotNegative(cas, pivot) THEN base + mid ELSE base, top - mid]
    IN  array # <<>> /\ found[0, Len(array)]

\* The index of the record of a customer in a sorted array, or 0.
aspa_array_search(array, customer) ==
    LET at[left \in 0 .. Len(array), right \in 0 .. Len(array)] ==
            LET center == (left + right) \div 2
                value == array[center + 1].customer
            IN  IF left > right THEN 0
                ELSE IF value = customer THEN center + 1
                ELSE IF value < customer THEN at[center + 1, right]
                ELSE IF center = 0 THEN 0
                ELSE at[left, center - 1]
    IN  IF array = <<>> THEN 0 ELSE at[0, Len(array) - 1]

aspa_check_hop(store, customer, provider) ==
    LET Found(n) == aspa_array_search(store[n], customer)
        Attested == {n \in DOMAIN store : Found(n) # 0}
    IN  IF \/ customer = provider
           \/ \E n \in Attested : binary_search_asns(provider, store[n][Found(n)].providers)
        THEN "ASPA_PROVIDER_PLUS"
        ELSE IF Attested # {} THEN "ASPA_NOT_PROVIDER_PLUS" ELSE "ASPA_NO_ATTESTATION"

(* as_path[i] is path[i + 1]: index 0 is the latest AS of the path and     *)
(* index N - 1 its origin.  Up(c) is the hop from c towards index 0,       *)
(* Down(d) the one towards the origin.                                     *)
N == Len(call.path)
Up(c) == aspa_check_hop(call.store, call.path[c + 1], call.path[c])
Down(d) == aspa_check_hop(call.store, call.path[d + 1], call.path[d + 2])

-----------------------------------------------------------------------------
(* The procedure                                                           *)

Init ==
    /\ call \in Call
    /\ pc = "start"
    /\ r = 0 /\ l = 0 /\ rr = 0 /\ ll = 0
    /\ last_hop_right = "unset" /\ last_hop_left = "unset"
    /\ result = "none"

Upstream == call.direction = "RTR_ASPA_UPSTREAM"

Return(verdict) ==
    /\ pc' = "done"
    /\ result' = verdict
    /\ UNCHANGED <<call, r, l, rr, ll, last_hop_right, last_hop_left>>

\* Paths that are not searched, and the start of the up-ramp.
Enter ==
    /\ pc = "start"
    /\ IF ~ call.table THEN Return("INVALID")
       ELSE IF N <= (IF Upstream THEN 1 ELSE 2) THEN Return("VALID")
       ELSE /\ pc' = "up_ramp"
            /\ r' = N - 1
            /\ UNCHANGED <<call, l, rr, ll, last_hop_right, last_hop_left, result>>

UpRamp ==
    /\ pc = "up_ramp"
    /\ r > 0
    /\ last_hop_right' = Up(r)
    /\ IF last_hop_right' = "ASPA_PROVIDER_PLUS"
       THEN r' = r - 1 /\ UNCHANGED pc
       ELSE pc' = "up_ramp_end" /\ UNCHANGED r
    /\ UNCHANGED <<call, l, rr, ll, last_hop_left, result>>

\* The path is a customer-provider chain up to its latest AS.
UpRampToTop ==
    /\ pc = "up_ramp"
    /\ r = 0
    /\ IF Upstream THEN Return("VALID")
       ELSE /\ pc' = "down_ramp"
            /\ UNCHANGED <<call, r, l, rr, ll, last_hop_right, last_hop_left, result>>

\* Upstream the gap reaches to the latest AS, downstream to the down-ramp.
UpRampEnd ==
    /\ pc = "up_ramp_end"
    /\ IF ~ Upstream THEN /\ pc' = "down_ramp"
                          /\ UNCHANGED <<call, r, l, rr, ll, last_hop_right, last_hop_left, result>>
       ELSE IF last_hop_right = "ASPA_NOT_PROVIDER_PLUS" THEN Return("INVALID")
       ELSE /\ pc' = "upstream_gap"
            /\ rr' = r
            /\ UNCHANGED <<call, r, l, ll, last_hop_right, last_hop_left, result>>

UpstreamGap ==
    /\ pc = "upstream_gap"
    /\ IF rr = 0 THEN Return("UNKNOWN")
       ELSE IF Up(rr) = "ASPA_NOT_PROVIDER_PLUS" THEN Return("INVALID")
       ELSE /\ rr' = rr - 1
            /\ UNCHANGED <<call, pc, r, l, ll, last_hop_right, last_hop_left, result>>

\* Faulty variant: the down-ramp does not stop at the end of the up-ramp.
DownRampPastApex ==
    /\ pc = "down_ramp"
    /\ l < N - 1
    /\ last_hop_left' = Down(l)
    /\ IF last_hop_left' = "ASPA_PROVIDER_PLUS"
       THEN l' = l + 1 /\ UNCHANGED pc
       ELSE pc' = "ramps" /\ UNCHANGED l
    /\ UNCHANGED <<call, r, rr, ll, last_hop_right, result>>

DownRamp ==
    /\ pc = "down_ramp"
    /\ l < r
    /\ last_hop_left' = Down(l)
    /\ IF last_hop_left' = "ASPA_PROVIDER_PLUS"
       THEN l' = l + 1 /\ UNCHANGED pc
       ELSE pc' = "ramps" /\ UNCHANGED l
    /\ UNCHANGED <<call, r, rr, ll, last_hop_right, result>>

DownRampToApex ==
    /\ pc = "down_ramp"
    /\ l = r
    /\ pc' = "ramps"
    /\ UNCHANGED <<call, r, l, rr, ll, last_hop_right, last_hop_left, result>>

\* A gap of at most one hop cannot hold a route leak.
Ramps ==
    /\ pc = "ramps"
    /\ IF r - l <= 1 THEN Return("VALID")
       ELSE /\ rr' = r
            /\ pc' = IF last_hop_right = "ASPA_NOT_PROVIDER_PLUS" THEN "left" ELSE "right_gap"
            /\ UNCHANGED <<call, r, l, ll, last_hop_right, last_hop_left, result>>

\* I. Look for a hop that is not to a provider, from the right.
RightGap ==
    /\ pc = "right_gap"
    /\ IF rr <= l + 1 THEN Return("UNKNOWN")
       ELSE /\ IF Up(rr) = "ASPA_NOT_PROVIDER_PLUS"
               THEN pc' = "left" /\ UNCHANGED rr
               ELSE rr' = rr - 1 /\ UNCHANGED pc
            /\ UNCHANGED <<call, r, l, ll, last_hop_right, last_hop_left, result>>

\* II. Look for one that opposes it, from the left.
Left ==
    /\ pc = "left"
    /\ IF last_hop_left = "ASPA_NOT_PROVIDER_PLUS" THEN Return("INVALID")
       ELSE /\ ll' = l + 1
            /\ pc' = "left_gap"
            /\ UNCHANGED <<call, r, l, rr, last_hop_right, last_hop_left, result>>

\* Faulty variant: the opposing hops may share an AS.
LeftGapOneMore ==
    /\ pc = "left_gap"
    /\ IF ll >= rr THEN Return("UNKNOWN")
       ELSE IF Down(ll) = "ASPA_NOT_PROVIDER_PLUS" THEN Return("INVALID")
       ELSE /\ ll' = ll + 1
            /\ UNCHANGED <<call, pc, r, l, rr, last_hop_right, last_hop_left, result>>

LeftGap ==
    /\ pc = "left_gap"
    /\ IF ll + 1 >= rr THEN Return("UNKNOWN")
       ELSE IF Down(ll) = "ASPA_NOT_PROVIDER_PLUS" THEN Return("INVALID")
       ELSE /\ ll' = ll + 1
            /\ UNCHANGED <<call, pc, r, l, rr, last_hop_right, last_hop_left, result>>

Next == Enter \/ UpRamp \/ UpRampToTop \/ UpRampEnd \/ UpstreamGap
        \/ DownRamp \/ DownRampToApex \/ Ramps \/ RightGap \/ Left \/ LeftGap

Spec == Init /\ [][Next]_vars

-----------------------------------------------------------------------------
(* What the verdict means, over all hops of the path                       *)

NotProvider(hop) == hop = "ASPA_NOT_PROVIDER_PLUS"
Provider(hop) == hop = "ASPA_PROVIDER_PLUS"

\* No provider anywhere on the way up refutes the path.
UpstreamVerdict ==
    IF N <= 1 THEN "VALID"
    ELSE IF \E c \in 1 .. N - 1 : NotProvider(Up(c)) THEN "INVALID"
    ELSE IF \A c \in 1 .. N - 1 : Provider(Up(c)) THEN "VALID"
    ELSE "UNKNOWN"

\* Ramps from both ends that meet or leave one hop between them.
RampsMeet ==
    \E top \in 0 .. N - 1, bottom \in 0 .. N - 1 :
        /\ top - bottom <= 1
        /\ \A c \in 1 .. N - 1 : c > top => Provider(Up(c))
        /\ \A d \in 0 .. N - 2 : d < bottom => Provider(Down(d))

\* Two opposing hops away from a provider, the upward one nearer to the origin;
\* they may meet in an AS, but are not the same hop.
Leak ==
    \E c \in 1 .. N - 1, d \in 0 .. N - 2 :
        d + 1 < c /\ NotProvider(Up(c)) /\ NotProvider(Down(d))

DownstreamVerdict ==
    IF N <= 2 THEN "VALID"
    ELSE IF Leak THEN "INVALID"
    ELSE IF RampsMeet THEN "VALID"
    ELSE "UNKNOWN"

Verdict == IF ~ call.table THEN "INVALID"
           ELSE IF Upstream THEN UpstreamVerdict ELSE DownstreamVerdict

-----------------------------------------------------------------------------
(* Properties                                                              *)

(* The one-pass search over the path returns what the definition over all  *)
(* pairs of hops says, for upstream and downstream paths                   *)
(* (aspa_verify_as_path_upstream, aspa_verify_as_path_downstream).         *)
VerdictExact == pc = "done" => result = Verdict

\* Hops from right of the ramp's end to the origin are to providers.
UpRampDone == \A c \in 1 .. N - 1 : c > r => Provider(Up(c))
DownRampDone == \A d \in 0 .. N - 2 : d < l => Provider(Down(d))

(* What the loops of aspa_verification.c keep: the ramps are ramps, they   *)
(* do not cross, last_hop_right and last_hop_left are set before they are  *)
(* read, and the part of the gap already searched has no hop away from a   *)
(* provider.                                                               *)
LoopInv ==
    /\ pc \in {"start", "up_ramp", "up_ramp_end", "upstream_gap", "down_ramp", "ramps",
               "right_gap", "left", "left_gap", "done"}
    /\ call \in Call
    /\ r \in Nat /\ l \in Nat /\ rr \in Nat /\ ll \in Nat
    /\ pc = "start" => l = 0
    /\ pc \notin {"start", "done"} =>
          /\ call.table
          /\ N > (IF Upstream THEN 1 ELSE 2)
          /\ l <= r /\ r <= N - 1
          /\ UpRampDone /\ DownRampDone
    /\ pc = "up_ramp" => l = 0
    /\ pc = "up_ramp_end" => l = 0 /\ r > 0
    /\ pc \notin {"start", "up_ramp", "done"} /\ r > 0 =>
          last_hop_right = Up(r) /\ ~ Provider(Up(r))
    /\ pc \in {"ramps", "right_gap", "left", "left_gap"} /\ l < r =>
          last_hop_left = Down(l) /\ ~ Provider(Down(l))
    /\ pc = "upstream_gap" =>
          /\ Upstream /\ rr <= r /\ 0 < r
          /\ \A c \in 1 .. N - 1 : c > rr => ~ NotProvider(Up(c))
    /\ pc \in {"down_ramp", "ramps", "right_gap", "left", "left_gap"} => ~ Upstream
    /\ pc \in {"right_gap", "left", "left_gap"} =>
          /\ l + 1 < r
          /\ l + 1 <= rr /\ rr <= r
          /\ \A c \in 1 .. N - 1 : c > rr => ~ NotProvider(Up(c))
    /\ pc \in {"left", "left_gap"} => l + 1 < rr /\ NotProvider(Up(rr))
    /\ pc = "left_gap" =>
          /\ l + 1 <= ll /\ ll < rr
          /\ \A d \in 0 .. N - 2 : d < ll => ~ NotProvider(Down(d))
    /\ VerdictExact

\* The records of a customer and the providers they attest, over all sockets.
RecordsOf(customer) ==
    {rec \in UNION {{array[k] : k \in DOMAIN array} :
                       array \in {call.store[n] : n \in DOMAIN call.store}} :
        rec.customer = customer}
ProvidersOf(customer) ==
    UNION {{rec.providers[k] : k \in DOMAIN rec.providers} : rec \in RecordsOf(customer)}

\* AS numbers whose differences a signed word holds.
Near(S) == \A a, b \in S : a - b < 2^(AsnBits - 1)

(* Both binary searches find what is there and nothing else                *)
(* (aspa_check_hop, binary_search_asns, aspa_array_search), if the AS      *)
(* numbers compared are less than half the number range apart.             *)
HopExact ==
    \A i, j \in DOMAIN call.path :
        LET c == call.path[i]
            p == call.path[j]
        IN  Near(ProvidersOf(c) \cup {p}) =>
            aspa_check_hop(call.store, c, p) =
               IF c = p \/ p \in ProvidersOf(c) THEN "ASPA_PROVIDER_PLUS"
               ELSE IF RecordsOf(c) # {} THEN "ASPA_NOT_PROVIDER_PLUS"
               ELSE "ASPA_NO_ATTESTATION"
=============================================================================
