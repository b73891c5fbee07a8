-------------------------- MODULE AspaVerifyProofs --------------------------
(***************************************************************************)
(* The verdict of AspaVerify is the one of the definition over all hops,   *)
(* for every path, table and width of AS numbers.                          *)
(***************************************************************************)
EXTENDS AspaVerify, TLAPS

\* The arguments of the call do not change, and with them what a hop is.
LEMMA SameHops ==
    ASSUME call' = call
    PROVE  /\ N' = N /\ Upstream' = Upstream /\ Verdict' = Verdict
           /\ \A c : Up(c)' = Up(c)
           /\ \A d : Down(d)' = Down(d)
  BY DEF N, Upstream, Up, Down, Verdict, UpstreamVerdict, DownstreamVerdict, Leak, RampsMeet

\* A path length is a natural number.
LEMMA LengthNat == ASSUME call \in Call PROVE N \in Nat
  BY CallAssumption DEF N

\* What is left of the invariant to show when the call returns.
LEMMA Returning ==
    ASSUME LoopInv, NEW v, Return(v), v = Verdict
    PROVE  LoopInv'
  BY SameHops DEF LoopInv, Return, VerdictExact

\* Short paths and a missing table are answered at once; else the up-ramp starts.
LEMMA EnterStep == ASSUME LoopInv, Enter PROVE LoopInv'
  <1>1. CASE ~ call.table
    BY <1>1, Returning DEF Enter, Verdict
  <1>2. CASE call.table /\ N <= (IF Upstream THEN 1 ELSE 2)
    BY <1>2, Returning DEF Enter, Verdict, UpstreamVerdict, DownstreamVerdict
  <1>3. CASE call.table /\ ~ (N <= (IF Upstream THEN 1 ELSE 2))
    BY <1>3, SameHops, LengthNat
       DEF LoopInv, Enter, VerdictExact, UpRampDone, DownRampDone
  <1> QED BY <1>1, <1>2, <1>3

\* A round of the first loop extends the up-ramp by a hop or ends it.
LEMMA UpRampStep == ASSUME LoopInv, UpRamp PROVE LoopInv'
  <1> N \in Nat BY LengthNat DEF LoopInv
  <1> QED
    BY SameHops DEF LoopInv, UpRamp, VerdictExact, UpRampDone, DownRampDone, Provider

\* An up-ramp that reaches index 0 makes an upstream path valid.
LEMMA UpRampToTopStep == ASSUME LoopInv, UpRampToTop PROVE LoopInv'
  <1> N \in Nat BY LengthNat DEF LoopInv
  <1>1. CASE Upstream
    <2>1. \A c \in 1 .. N - 1 : Provider(Up(c))
      BY DEF LoopInv, UpRampToTop, UpRampDone
    <2>2. \A c \in 1 .. N - 1 : ~ NotProvider(Up(c))
      BY <2>1 DEF Provider, NotProvider
    <2>3. Verdict = "VALID"
      BY <1>1, <2>1, <2>2 DEF Verdict, UpstreamVerdict, LoopInv, UpRampToTop
    <2> QED BY <1>1, <2>3, Returning DEF UpRampToTop
  <1>2. CASE ~ Upstream
    BY <1>2, SameHops DEF LoopInv, UpRampToTop, VerdictExact, UpRampDone, DownRampDone
  <1> QED BY <1>1, <1>2

\* An up-ramp that ends at a hop away from a provider refutes an upstream path.
LEMMA UpRampEndStep == ASSUME LoopInv, UpRampEnd PROVE LoopInv'
  <1> N \in Nat BY LengthNat DEF LoopInv
  <1>1. CASE ~ Upstream
    BY <1>1, SameHops DEF LoopInv, UpRampEnd, VerdictExact, UpRampDone, DownRampDone
  <1>2. CASE Upstream /\ last_hop_right = "ASPA_NOT_PROVIDER_PLUS"
    BY <1>2, Returning DEF LoopInv, UpRampEnd, Verdict, UpstreamVerdict, NotProvider
  <1>3. CASE Upstream /\ last_hop_right # "ASPA_NOT_PROVIDER_PLUS"
    BY <1>3, SameHops
       DEF LoopInv, UpRampEnd, VerdictExact, UpRampDone, DownRampDone, Provider, NotProvider
  <1> QED BY <1>1, <1>2, <1>3

\* The search above the up-ramp of an upstream path passes over unattested hops.
LEMMA UpstreamGapStep == ASSUME LoopInv, UpstreamGap PROVE LoopInv'
  <1> N \in Nat BY LengthNat DEF LoopInv
  <1>1. CASE rr = 0
    <2>1. \A c \in 1 .. N - 1 : ~ NotProvider(Up(c))
      BY <1>1 DEF LoopInv, UpstreamGap
    <2>2. r \in 1 .. N - 1 /\ ~ Provider(Up(r))
      BY DEF LoopInv, UpstreamGap
    <2>3. Verdict = "UNKNOWN"
      BY <2>1, <2>2 DEF Verdict, UpstreamVerdict, LoopInv, UpstreamGap
    <2> QED BY <1>1, <2>3, Returning DEF UpstreamGap
  <1>2. CASE rr # 0 /\ NotProvider(Up(rr))
    <2>1. rr \in 1 .. N - 1
      BY <1>2 DEF LoopInv, UpstreamGap
    <2>2. Verdict = "INVALID"
      BY <1>2, <2>1 DEF Verdict, UpstreamVerdict, LoopInv, UpstreamGap
    <2> QED BY <1>2, <2>2, Returning DEF UpstreamGap, NotProvider
  <1>3. CASE rr # 0 /\ ~ NotProvider(Up(rr))
    BY <1>3, SameHops
       DEF LoopInv, UpstreamGap, VerdictExact, UpRampDone, DownRampDone, NotProvider
  <1> QED BY <1>1, <1>2, <1>3

\* A round of the second loop extends the down-ramp by a hop or ends it.
LEMMA DownRampStep == ASSUME LoopInv, DownRamp PROVE LoopInv'
  <1> N \in Nat BY LengthNat DEF LoopInv
  <1> QED
    BY SameHops DEF LoopInv, DownRamp, VerdictExact, UpRampDone, DownRampDone, Provider

\* The down-ramp stops at the up-ramp: assert(l <= r) holds.
LEMMA DownRampToApexStep == ASSUME LoopInv, DownRampToApex PROVE LoopInv'
  BY SameHops DEF LoopInv, DownRampToApex, VerdictExact, UpRampDone, DownRampDone

\* Ramps that meet leave no room for a leak, whatever the hops between are.
LEMMA NoLeakBetweenRamps == ASSUME N \in Nat, RampsMeet PROVE ~ Leak
  <1> SUFFICES ASSUME NEW c \in 1 .. N - 1, NEW d \in 0 .. N - 2, d + 1 < c,
                      NotProvider(Up(c)), NotProvider(Down(d))
               PROVE  FALSE
    BY DEF Leak
  <1>1. PICK top \in 0 .. N - 1, bottom \in 0 .. N - 1 :
              /\ top - bottom <= 1
              /\ \A k \in 1 .. N - 1 : k > top => Provider(Up(k))
              /\ \A k \in 0 .. N - 2 : k < bottom => Provider(Down(k))
    BY DEF RampsMeet
  <1>2. c <= top /\ bottom <= d
    BY <1>1 DEF Provider, NotProvider
  <1> QED BY <1>1, <1>2

\* The ramps of the code are the longest ones: a gap left by them is there
\* for every choice of ramps.
LEMMA LongestRamps ==
    ASSUME N \in Nat, r \in 1 .. N - 1, l \in 0 .. N - 2, l + 1 < r,
           ~ Provider(Up(r)), ~ Provider(Down(l))
    PROVE  ~ RampsMeet
  <1> SUFFICES ASSUME NEW top \in 0 .. N - 1, NEW bottom \in 0 .. N - 1, top - bottom <= 1,
                      \A c \in 1 .. N - 1 : c > top => Provider(Up(c)),
                      \A d \in 0 .. N - 2 : d < bottom => Provider(Down(d))
               PROVE  FALSE
    BY DEF RampsMeet
  <1>1. r <= top /\ bottom <= l
    OBVIOUS
  <1> QED BY <1>1

\* Ramps that leave at most one hop between them make the path valid.
LEMMA RampsStep == ASSUME LoopInv, Ramps PROVE LoopInv'
  <1> N \in Nat BY LengthNat DEF LoopInv
  <1>1. CASE r - l <= 1
    <2>1. RampsMeet
      BY <1>1 DEF LoopInv, Ramps, RampsMeet, UpRampDone, DownRampDone
    <2>2. Verdict = "VALID"
      BY <2>1, NoLeakBetweenRamps DEF Verdict, DownstreamVerdict, LoopInv, Ramps
    <2> QED BY <1>1, <2>2, Returning DEF Ramps
  <1>2. CASE ~ (r - l <= 1)
    BY <1>2, SameHops
       DEF LoopInv, Ramps, VerdictExact, UpRampDone, DownRampDone, Provider, NotProvider
  <1> QED BY <1>1, <1>2

\* The search from the right stops at the first hop away from a provider.
LEMMA RightGapStep == ASSUME LoopInv, RightGap PROVE LoopInv'
  <1> N \in Nat BY LengthNat DEF LoopInv
  <1>1. CASE rr <= l + 1
    <2>1. ~ RampsMeet
      BY LongestRamps DEF LoopInv, RightGap
    <2>2. \A c \in 1 .. N - 1 : c > l + 1 => ~ NotProvider(Up(c))
      BY <1>1 DEF LoopInv, RightGap
    <2>3. \A d \in 0 .. N - 2 : d < l => ~ NotProvider(Down(d))
      BY DEF LoopInv, RightGap, DownRampDone, Provider, NotProvider
    <2>4. ~ Leak
      BY <2>2, <2>3 DEF Leak, LoopInv
    <2>5. Verdict = "UNKNOWN"
      BY <2>1, <2>4 DEF Verdict, DownstreamVerdict, LoopInv, RightGap
    <2> QED BY <1>1, <2>5, Returning DEF RightGap
  <1>2. CASE ~ (rr <= l + 1)
    BY <1>2, SameHops
       DEF LoopInv, RightGap, VerdictExact, UpRampDone, DownRampDone, NotProvider
  <1> QED BY <1>1, <1>2

\* The hop that ended the down-ramp opposes the one found from the right.
LEMMA LeftStep == ASSUME LoopInv, Left PROVE LoopInv'
  <1> N \in Nat BY LengthNat DEF LoopInv
  <1>1. CASE last_hop_left = "ASPA_NOT_PROVIDER_PLUS"
    <2>1. Leak
      BY <1>1 DEF Leak, LoopInv, Left, NotProvider
    <2>2. Verdict = "INVALID"
      BY <2>1 DEF Verdict, DownstreamVerdict, LoopInv, Left
    <2> QED BY <1>1, <2>2, Returning DEF Left
  <1>2. CASE last_hop_left # "ASPA_NOT_PROVIDER_PLUS"
    BY <1>2, SameHops
       DEF LoopInv, Left, VerdictExact, UpRampDone, DownRampDone, Provider, NotProvider
  <1> QED BY <1>1, <1>2

\* The search from the left stops before the hop found from the right.
LEMMA LeftGapStep == ASSUME LoopInv, LeftGap PROVE LoopInv'
  <1> N \in Nat BY LengthNat DEF LoopInv
  <1>1. CASE ll + 1 >= rr
    <2>1. ~ RampsMeet
      BY LongestRamps DEF LoopInv, LeftGap
    <2>2. ~ Leak
      BY <1>1 DEF Leak, LoopInv, LeftGap
    <2>3. Verdict = "UNKNOWN"
      BY <2>1, <2>2 DEF Verdict, DownstreamVerdict, LoopInv, LeftGap
    <2> QED BY <1>1, <2>3, Returning DEF LeftGap
  <1>2. CASE ~ (ll + 1 >= rr) /\ NotProvider(Down(ll))
    <2>1. Leak
      BY <1>2 DEF Leak, LoopInv, LeftGap
    <2>2. Verdict = "INVALID"
      BY <2>1 DEF Verdict, DownstreamVerdict, LoopInv, LeftGap
    <2> QED BY <1>2, <2>2, Returning DEF LeftGap, NotProvider
  <1>3. CASE ~ (ll + 1 >= rr) /\ ~ NotProvider(Down(ll))
    BY <1>3, SameHops
       DEF LoopInv, LeftGap, VerdictExact, UpRampDone, DownRampDone, NotProvider
  <1> QED BY <1>1, <1>2, <1>3

\* The loops of aspa_verify_as_path_upstream and _downstream keep LoopInv.
THEOREM LoopsKeepInv == Spec => []LoopInv
  <1>1. Init => LoopInv
    BY DEF Init, LoopInv, VerdictExact
  <1>2. LoopInv /\ [Next]_vars => LoopInv'
    <2> SUFFICES ASSUME LoopInv, [Next]_vars PROVE LoopInv'
      OBVIOUS
    <2>1. CASE Next
      BY <2>1, EnterStep, UpRampStep, UpRampToTopStep, UpRampEndStep, UpstreamGapStep,
         DownRampStep, DownRampToApexStep, RampsStep, RightGapStep, LeftStep, LeftGapStep
         DEF Next
    <2>2. CASE UNCHANGED vars
      BY <2>2, SameHops DEF vars, LoopInv, VerdictExact, UpRampDone, DownRampDone
    <2> QED BY <2>1, <2>2
  <1> QED BY <1>1, <1>2, PTL DEF Spec

(* For every path and every table, the verdict of rtr_aspa_verify_as_path  *)
(* is that of the definition over all pairs of hops.                       *)
THEOREM VerdictIsExact == Spec => []VerdictExact
  <1>1. LoopInv => VerdictExact
    BY DEF LoopInv
  <1> QED BY <1>1, LoopsKeepInv, PTL
=============================================================================
