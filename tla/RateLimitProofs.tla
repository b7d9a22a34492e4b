--------------------------- MODULE RateLimitProofs ---------------------------
(***************************************************************************)
(* Proofs about the rate limits: types, the grid of the epochs, that the   *)
(* net outflow of a path never exceeds what its limit grants, and that the *)
(* outflow a limit records covers the packets it has to.                   *)
(*                                                                         *)
(* The argument for the third: only a send raises the net outflow, and a   *)
(* send is checked; every other step lowers it or starts a limit at zero,  *)
(* below the minimum that every quota has.  For the fourth, see CoverInv.  *)
(***************************************************************************)
EXTENDS RateLimit, SumProofs

(* A difference below one that a limit grants is granted by any limit with  *)
(* the same supply and quota.                                               *)
LEMMA WithinQuotaMonotone ==
  ASSUME NEW k \in Limit, NEW l \in Limit, k.value = l.value, k.quota = l.quota,
         NEW m \in Int, NEW n \in Int, m <= n, WithinQuota(l, l.quota.send, n)
  PROVE  WithinQuota(k, k.quota.send, m)
<1>1. l.value \in Nat /\ l.quota.send \in Int /\ l.quota.min \in Int
  BY RateLimitAssumption DEF Limit
<1>2. (l.value * l.quota.send) \div 100 \in Int
  BY <1>1
<1> QED
  BY <1>1, <1>2 DEF WithinQuota

(* What a fresh limit is.                                                   *)
LEMMA NewLimitWithin ==
  ASSUME NEW q \in Quota, NEW v \in Nat
  PROVE  /\ NewLimit(q, v) \in Limit
         /\ LET l == NewLimit(q, v) IN WithinQuota(l, l.quota.send, l.outflow - l.inflow)
<1>1. q.min \in Nat /\ 0 - 0 <= q.min
  BY RateLimitAssumption
<1> QED
  BY <1>1 DEF NewLimit, Limit, WithinQuota

(* Governance's name of a limit leads to a path.                            *)
LEMMA LimitPathType ==
  ASSUME registered \subseteq Info, NEW d \in Denom, NEW c \in Channel
  PROVE  LimitPath(d, c) \in Path
<1>1. CASE \E i \in registered : i.native = d /\ i.channel = c
  <2>1. (CHOOSE i \in registered : i.native = d) \in registered
    BY <1>1
  <2> QED
    BY <1>1, <2>1, RateLimitAssumption DEF LimitPath, Path
<1>2. CASE ~\E i \in registered : i.native = d /\ i.channel = c
  BY <1>2 DEF LimitPath, Path
<1> QED
  BY <1>1, <1>2

Granted(l) == WithinQuota(l, l.quota.send, l.outflow - l.inflow)

LimitsOK ==
  /\ limits \in [Path -> Limit \cup {NoLimit}]
  /\ \A path \in Path : HasLimit(path) => Granted(limits[path])

OthersOK ==
  /\ pending \subseteq Channel \X Nat
  /\ registered \subseteq Info
  /\ inflight \subseteq Packet
  /\ nextSeq \in [Channel -> Nat]
  /\ live \subseteq Packet
  /\ replaced \subseteq Path

LimitInv == LimitsOK /\ OthersOK

(* Changing one path's limit keeps all limits granted if its own is.        *)
LEMMA OneLimitChanged ==
  ASSUME LimitsOK, NEW path \in Path, NEW l \in Limit \cup {NoLimit},
         l # NoLimit => Granted(l), limits' = [limits EXCEPT ![path] = l]
  PROVE  LimitsOK'
<1>1. limits' \in [Path -> Limit \cup {NoLimit}]
  BY DEF LimitsOK
<1>2. ASSUME NEW r \in Path, HasLimit(r)'
      PROVE  Granted(limits'[r])
  BY <1>2 DEF LimitsOK, HasLimit
<1> QED
  BY <1>1, <1>2 DEF LimitsOK, Granted, WithinQuota

-----------------------------------------------------------------------------
(* The clock: types and the grid, kept by every block and every restart     *)
(* (BeginBlocker).                                                          *)
ClockInv == ClockTypeOK /\ EpochsOnGrid

(* A block advances the clock by no epoch or by one, on the grid.           *)
LEMMA AdvanceClockStep ==
  ASSUME ClockInv, NEW t \in Nat, AdvanceClock(t)
  PROVE  ClockInv'
<1> DEFINE D == EpochDuration
           s == clock.startTime
           e == clock.epoch
<1>1. D \in Nat /\ s \in Nat /\ e \in Nat /\ clock.epochStart \in Nat /\ clock.started \in BOOLEAN
      /\ clock \in EpochInfo /\ now \in Nat /\ t > now /\ now' = t
  BY ClockAssumption DEF ClockInv, ClockTypeOK, EpochInfo, AdvanceClock
<1>2. CASE clock' = clock
  BY <1>1, <1>2 DEF ClockInv, ClockTypeOK, EpochsOnGrid
<1>3. CASE ~(t < s) /\ clock' = [clock EXCEPT !.started = TRUE, !.epoch = 1, !.epochStart = s]
  <2>1. clock'.epoch = 1 /\ clock'.epochStart = s /\ clock'.startTime = s /\ clock' \in EpochInfo
    BY <1>1, <1>3 DEF EpochInfo
  <2>2. (1 - 1) * D = 0
    BY <1>1
  <2> QED
    BY <1>1, <1>3, <2>1, <2>2 DEF ClockInv, ClockTypeOK, EpochsOnGrid
<1>4. CASE EpochEnds(t) /\ clock' = NextEpoch(t)
  <2>1. /\ clock'.epoch = e + 1 /\ clock'.epochStart = clock.epochStart + D
        /\ clock'.startTime = s /\ clock'.started = clock.started /\ clock' \in EpochInfo
    <3>1. e + 1 \in Nat /\ clock.epochStart + D \in Nat
      BY <1>1
    <3>2. clock' = [clock EXCEPT !.epoch = e + 1, !.epochStart = clock.epochStart + D]
      BY <1>4 DEF NextEpoch
    <3> QED
      BY <1>1, <3>1, <3>2 DEF EpochInfo
  <2>2. e >= 1 /\ clock.epochStart = s + (e - 1) * D /\ clock.epochStart + D < t
    BY <1>1, <1>4 DEF ClockInv, EpochsOnGrid, EpochEnds
  <2>3. ((e + 1) - 1) * D = (e - 1) * D + D
    BY <1>1
  <2>4. (e - 1) * D \in Int
    BY <1>1
  <2>5. clock'.epochStart = s + ((e + 1) - 1) * D
    BY <1>1, <2>1, <2>2, <2>3, <2>4
  <2> QED
    BY <1>1, <2>1, <2>2, <2>5 DEF ClockInv, ClockTypeOK, EpochsOnGrid
<1> QED
  BY <1>2, <1>3, <1>4 DEF AdvanceClock

(* Counting again from the beginning is on the grid.                        *)
LEMMA RestartClockStep == ClockInv /\ RestartClock => ClockInv'
BY DEF ClockInv, ClockTypeOK, EpochsOnGrid, RestartClock, NewEpochInfo, EpochInfo

-----------------------------------------------------------------------------
(* A send is counted only within the quota (SendRateLimitedPacket).         *)
LEMMA SendPacketStep ==
  ASSUME LimitInv, NEW c \in Channel, NEW d \in Denom, NEW x \in Amount, NEW pair \in Pair,
         SendPacket(c, d, x, pair)
  PROVE  LimitInv'
<1> DEFINE path == <<d, c>>
           p == [seq |-> nextSeq[c], channel |-> c, denom |-> d, amount |-> x]
           l == limits[path]
<1>1. path \in Path /\ x \in Nat /\ nextSeq[c] \in Nat /\ p \in Packet /\ IdOf(p) \in Channel \X Nat
  BY RateLimitAssumption DEF LimitInv, OthersOK, Path, Packet, IdOf
<1>2. OthersOK'
  BY <1>1 DEF SendPacket, LimitInv, OthersOK
<1>3. LimitsOK'
  <2>1. CASE ~IsCounted(path, pair)
    <3>1. limits' = limits
      BY <2>1 DEF SendPacket
    <3> QED
      BY <3>1 DEF LimitInv, LimitsOK, HasLimit, Granted, WithinQuota
  <2>2. CASE IsCounted(path, pair)
    <3>1. l \in Limit
      BY <1>1, <2>2 DEF IsCounted, HasLimit, LimitInv, LimitsOK
    <3>2. limits' = [limits EXCEPT ![path].outflow = @ + x] /\ AddOutflow(l, x)
      BY <2>2 DEF SendPacket
    <3> DEFINE k == [l EXCEPT !.outflow = @ + x]
    <3>3. limits' = [limits EXCEPT ![path] = k]
      BY <1>1, <3>2 DEF LimitInv, LimitsOK
    <3> HIDE DEF l, path
    <3>4. /\ k \in Limit /\ k.value = l.value /\ k.quota = l.quota
          /\ l.outflow - l.inflow + x \in Int
          /\ k.outflow - k.inflow = l.outflow - l.inflow + x
      BY <1>1, <3>1 DEF Limit
    <3> HIDE DEF k
    <3>5. WithinQuota(l, l.quota.send, l.outflow - l.inflow + x)
      BY <3>2 DEF AddOutflow
    <3>6. Granted(k)
      BY <3>1, <3>4, <3>5, WithinQuotaMonotone DEF Granted
    <3> QED
      BY <1>1, <3>3, <3>4, <3>6, OneLimitChanged DEF LimitInv
  <2> QED
    BY <2>1, <2>2
<1> QED
  BY <1>2, <1>3 DEF LimitInv

(* A receipt makes room (ReceiveRateLimitedPacket).                         *)
LEMMA RecvPacketStep ==
  ASSUME LimitInv, NEW c \in Channel, NEW d \in Denom, NEW x \in Amount, NEW pair \in Pair,
         RecvPacket(c, d, x, pair)
  PROVE  LimitInv'
<1> DEFINE path == <<d, c>>
           l == limits[path]
           k == [l EXCEPT !.inflow = @ + x]
<1>1. path \in Path /\ x \in Nat
  BY RateLimitAssumption DEF Path
<1>2. HasLimit(path) /\ l \in Limit
  BY <1>1 DEF RecvPacket, IsCounted, HasLimit, LimitInv, LimitsOK
<1>3. limits' = [limits EXCEPT ![path] = k]
  BY <1>1 DEF RecvPacket, LimitInv, LimitsOK
<1>4. Granted(l)
  BY <1>1, <1>2 DEF LimitInv, LimitsOK
<1> HIDE DEF l, path
<1>5. /\ k \in Limit /\ k.value = l.value /\ k.quota = l.quota
      /\ l.outflow - l.inflow \in Int /\ k.outflow - k.inflow \in Int
      /\ k.outflow - k.inflow <= l.outflow - l.inflow
  BY <1>1, <1>2 DEF Limit
<1>6. Granted(k)
  BY <1>2, <1>4, <1>5, WithinQuotaMonotone DEF Granted
<1>7. LimitsOK'
  BY <1>1, <1>3, <1>5, <1>6, OneLimitChanged DEF LimitInv
<1>8. OthersOK'
  BY DEF RecvPacket, LimitInv, OthersOK
<1> QED
  BY <1>7, <1>8 DEF LimitInv

(* Taking a failed packet off makes room, from whatever quota it was        *)
(* (UndoSendPacket).                                                        *)
LEMMA UndoSendPacketEffect ==
  ASSUME LimitInv, NEW p \in Packet, UndoSendPacket(p)
  PROVE  LimitsOK' /\ pending' \subseteq pending
<1> DEFINE path == PathOf(p)
           l == limits[path]
           k == [l EXCEPT !.outflow = @ - p.amount]
<1>1. path \in Path /\ p.amount \in Nat
  BY RateLimitAssumption DEF Path, Packet, PathOf
<1>2. CASE ~(HasLimit(path) /\ IdOf(p) \in pending)
  <2>1. limits' = limits /\ pending' = pending
    BY <1>2 DEF UndoSendPacket
  <2> QED
    BY <2>1 DEF LimitInv, LimitsOK, HasLimit, Granted, WithinQuota
<1>3. CASE HasLimit(path) /\ IdOf(p) \in pending
  <2>1. l \in Limit /\ Granted(l)
    BY <1>1, <1>3 DEF HasLimit, LimitInv, LimitsOK
  <2>2. limits' = [limits EXCEPT ![path] = k] /\ pending' \subseteq pending
    BY <1>1, <1>3 DEF UndoSendPacket, LimitInv, LimitsOK
  <2> HIDE DEF l, path
  <2>3. /\ k \in Limit /\ k.value = l.value /\ k.quota = l.quota
        /\ l.outflow - l.inflow \in Int /\ k.outflow - k.inflow \in Int
        /\ k.outflow - k.inflow <= l.outflow - l.inflow
    BY <1>1, <2>1 DEF Limit
  <2>4. Granted(k)
    <3> HIDE DEF k
    <3>1. WithinQuota(l, l.quota.send, l.outflow - l.inflow) =>
            WithinQuota(k, k.quota.send, k.outflow - k.inflow)
      BY ONLY <2>1, <2>3, WithinQuotaMonotone
    <3> QED BY <2>1, <3>1 DEF Granted
  <2> QED
    BY <1>1, <2>2, <2>3, <2>4, OneLimitChanged DEF LimitInv
<1> QED
  BY <1>2, <1>3

(* An answered packet, whatever the answer (AcknowledgeRateLimitedPacket).  *)
LEMMA AcknowledgePacketStep ==
  ASSUME LimitInv, NEW p \in inflight, NEW success \in BOOLEAN, AcknowledgePacket(p, success)
  PROVE  LimitInv'
<1>1. p \in Packet
  BY DEF LimitInv, OthersOK
<1>2. LimitsOK' /\ pending' \subseteq pending /\ live' \subseteq live
  <2>1. CASE success
    BY <2>1 DEF AcknowledgePacket, LimitInv, LimitsOK, HasLimit, Granted, WithinQuota
  <2>2. CASE ~success
    BY <1>1, <2>2, UndoSendPacketEffect DEF AcknowledgePacket
  <2> QED
    BY <2>1, <2>2
<1>3. OthersOK'
  BY <1>2 DEF AcknowledgePacket, LimitInv, OthersOK
<1> QED
  BY <1>2, <1>3 DEF LimitInv

(* A packet that timed out (TimeoutRateLimitedPacket).                      *)
LEMMA TimeoutPacketStep ==
  ASSUME LimitInv, NEW p \in inflight, TimeoutPacket(p)
  PROVE  LimitInv'
<1>1. p \in Packet
  BY DEF LimitInv, OthersOK
<1>2. LimitsOK' /\ pending' \subseteq pending
  BY <1>1, UndoSendPacketEffect DEF TimeoutPacket
<1>3. OthersOK'
  BY <1>2 DEF TimeoutPacket, LimitInv, OthersOK
<1> QED
  BY <1>2, <1>3 DEF LimitInv

-----------------------------------------------------------------------------
(* Replacing or removing a limit starts it at zero or drops it              *)
(* (AddRateLimit, UpdateRateLimit, RemoveRateLimit).                        *)
LEMMA ReplaceStep ==
  ASSUME LimitInv, NEW path \in Path, NEW l \in Limit \cup {NoLimit},
         l # NoLimit => Granted(l),
         limits' = [limits EXCEPT ![path] = l], Replace(path)
  PROVE  LimitInv'
<1>1. LimitsOK'
  BY OneLimitChanged DEF LimitInv
<1>2. OthersOK'
  BY DEF Replace, LimitInv, OthersOK
<1> QED
  BY <1>1, <1>2 DEF LimitInv

(* A reset starts every limit it reaches at zero (ResetRateLimit).          *)
LEMMA ResetStep ==
  ASSUME LimitInv, NEW named \in SUBSET Path, NEW supply \in [Denom -> Value],
         ResetRateLimits(named, supply)
  PROVE  LimitInv'
<1> DEFINE reset == {path \in {LimitPath(n[1], n[2]) : n \in named} : HasLimit(path)}
<1>1. limits' = [path \in Path |->
        IF path \in reset THEN NewLimit(limits[path].quota, supply[path[1]]) ELSE limits[path]]
  BY DEF ResetRateLimits
<1>2. \A path \in reset : HasLimit(path)
  OBVIOUS
<1> HIDE DEF reset
<1>3. ASSUME NEW path \in Path
      PROVE  /\ limits'[path] \in Limit \cup {NoLimit}
             /\ HasLimit(path)' => Granted(limits'[path])
  <2>1. CASE path \in reset
    <3>1. limits[path] \in Limit
      BY <1>2, <2>1 DEF HasLimit, LimitInv, LimitsOK
    <3>2. limits[path].quota \in Quota /\ supply[path[1]] \in Nat
      BY <3>1, RateLimitAssumption DEF Limit, Path
    <3> QED
      BY <1>1, <2>1, <3>2, NewLimitWithin DEF Granted
  <2>2. CASE path \notin reset
    BY <1>1, <2>2 DEF LimitInv, LimitsOK, HasLimit
  <2> QED
    BY <2>1, <2>2
<1>4. LimitsOK'
  BY <1>1, <1>3 DEF LimitsOK, Granted, WithinQuota
<1>5. OthersOK'
  BY DEF ResetRateLimits, RemoveAllChannelPendingSendPackets, LimitInv, OthersOK
<1> QED
  BY <1>4, <1>5 DEF LimitInv

(* Governance keeps the limits.                                             *)
LEMMA GovernanceStepInv ==
  ASSUME LimitInv, GovernanceStep
  PROVE  LimitInv'
<1>1. PICK path \in Governed :
        \/ \E q \in Quota, v \in Value : \/ AddRateLimit(path[1], path[2], q, v)
                                       \/ UpdateRateLimit(path[1], path[2], q, v)
        \/ RemoveRateLimit(path[1], path[2])
        \/ ResetRateLimit(path[1], path[2])
  BY DEF GovernanceStep
<1> DEFINE d == path[1]
           c == path[2]
           r == LimitPath(d, c)
<1>2. d \in Denom /\ c \in Channel /\ <<d, c>> \in Path
  BY RateLimitAssumption DEF Path
<1>3. r \in Path
  BY <1>2, LimitPathType DEF LimitInv, OthersOK
<1>4. ASSUME NEW q \in Quota, NEW v \in Value,
             AddRateLimit(d, c, q, v) \/ UpdateRateLimit(d, c, q, v)
      PROVE  LimitInv'
  <2>1. v \in Nat
    BY RateLimitAssumption
  <2>2. NewLimit(q, v) \in Limit /\ Granted(NewLimit(q, v))
    BY <2>1, NewLimitWithin DEF Granted
  <2>3. limits' = [limits EXCEPT ![r] = NewLimit(q, v)] /\ Replace(r)
    BY <1>4 DEF AddRateLimit, UpdateRateLimit
  <2> QED
    BY <1>3, <2>2, <2>3, ReplaceStep
<1>5. CASE RemoveRateLimit(d, c)
  <2>1. limits' = [limits EXCEPT ![r] = NoLimit] /\ Replace(r)
    BY <1>5 DEF RemoveRateLimit
  <2> QED
    BY <1>3, <2>1, ReplaceStep
<1>6. CASE ResetRateLimit(d, c)
  <2>1. PICK supply \in [Denom -> Value] : ResetRateLimits({<<d, c>>}, supply)
    BY <1>6 DEF ResetRateLimit
  <2>2. {<<d, c>>} \in SUBSET Path
    BY <1>2
  <2> QED
    BY <2>1, <2>2, ResetStep
<1> QED
  BY <1>1, <1>4, <1>5, <1>6

(* Every step keeps clock and limits.                                       *)
LEMMA StepInv == ClockInv /\ LimitInv /\ [Next]_vars => ClockInv' /\ LimitInv'
<1> SUFFICES ASSUME ClockInv, LimitInv, [Next]_vars
             PROVE  ClockInv' /\ LimitInv'
  OBVIOUS
<1>1. ASSUME UNCHANGED limitVars PROVE LimitInv'
  BY <1>1 DEF limitVars, LimitInv, LimitsOK, OthersOK, HasLimit, Granted, WithinQuota
<1>2. ASSUME UNCHANGED clockVars PROVE ClockInv'
  BY <1>2 DEF clockVars, ClockInv, ClockTypeOK, EpochsOnGrid
<1>3. ASSUME PacketStep, UNCHANGED clockVars PROVE ClockInv' /\ LimitInv'
  BY <1>2, <1>3, SendPacketStep, RecvPacketStep, AcknowledgePacketStep, TimeoutPacketStep
     DEF PacketStep
<1>4. ASSUME GovernanceStep, UNCHANGED clockVars PROVE ClockInv' /\ LimitInv'
  BY <1>2, <1>4, GovernanceStepInv
<1>5. ASSUME ChangeRegistry, UNCHANGED clockVars PROVE ClockInv' /\ LimitInv'
  <2>1. LimitInv'
    BY <1>5 DEF ChangeRegistry, LimitInv, LimitsOK, OthersOK, HasLimit, Granted, WithinQuota
  <2> QED
    BY <1>2, <1>5, <2>1
<1>6. ASSUME NEW t \in 1..MaxTime, BeginBlocker(t) PROVE ClockInv' /\ LimitInv'
  <2>1. ClockInv'
    BY <1>6, AdvanceClockStep, ClockAssumption DEF BeginBlocker
  <2>2. CASE EpochEnds(t)
    <3>1. PICK supply \in [Denom -> Value] : ResetRateLimits(Expiring, supply)
      BY <1>6, <2>2 DEF BeginBlocker
    <3>2. Expiring \in SUBSET Path
      BY DEF Expiring
    <3> QED
      BY <2>1, <3>1, <3>2, ResetStep
  <2>3. CASE ~EpochEnds(t)
    BY <1>1, <1>6, <2>1, <2>3 DEF BeginBlocker
  <2> QED
    BY <2>2, <2>3
<1>7. ASSUME RestartFromGenesis PROVE ClockInv' /\ LimitInv'
  BY <1>1, <1>7, RestartClockStep DEF RestartFromGenesis
<1>8. CASE UNCHANGED vars
  BY <1>1, <1>2, <1>8 DEF vars
<1> QED
  BY <1>3, <1>4, <1>5, <1>6, <1>7, <1>8 DEF Next

-----------------------------------------------------------------------------
(* Clock and limits are well formed in every reachable state.               *)
THEOREM RateLimitInvariant == Spec => [](ClockInv /\ LimitInv)
<1>1. Init => ClockInv /\ LimitInv
  <2> SUFFICES ASSUME Init PROVE ClockInv /\ LimitInv
    OBVIOUS
  <2>1. ClockInv
    BY DEF Init, ClockInit, NewEpochInfo, ClockInv, ClockTypeOK, EpochInfo, EpochsOnGrid
  <2>2. LimitInv
    BY DEF Init, LimitInv, LimitsOK, OthersOK, HasLimit
  <2> QED
    BY <2>1, <2>2
<1> QED
  BY <1>1, StepInv, PTL DEF Spec

(* The limits, sequences, packets and epochs always have their types.       *)
THEOREM RateLimitTypeCorrect == Spec => []TypeOK
<1>1. ClockInv /\ LimitInv => TypeOK
  BY DEF ClockInv, LimitInv, LimitsOK, OthersOK, TypeOK
<1> QED
  BY <1>1, RateLimitInvariant, PTL

(* Epochs always lie on their grid and never begin in the future, whatever  *)
(* the times of the blocks.                                                 *)
THEOREM EpochsAlwaysOnGrid == Spec => []EpochsOnGrid
<1>1. ClockInv /\ LimitInv => EpochsOnGrid
  BY DEF ClockInv
<1> QED
  BY <1>1, RateLimitInvariant, PTL

(* No path's net outflow ever exceeds what its limit grants, for any        *)
(* quotas, supplies, channels and amounts.                                  *)
THEOREM NetOutflowAlwaysBounded == Spec => []NetOutflowBounded
<1>1. ClockInv /\ LimitInv => NetOutflowBounded
  BY DEF LimitInv, LimitsOK, Granted, NetOutflowBounded
<1> QED
  BY <1>1, RateLimitInvariant, PTL

-----------------------------------------------------------------------------
(* The outflow covers the packets that live.  A failure takes a packet off  *)
(* the outflow and, if it lives, off the live ones: the outflow still       *)
(* covers them because a packet that is pending on a limit that was not     *)
(* replaced does live.  For that to last, a sequence must not be pending    *)
(* before it is used.                                                       *)
SequencesUsed ==
  /\ \A p \in live \cup inflight : p.seq < nextSeq[p.channel]
  /\ \A id \in pending : id[2] < nextSeq[id[1]]

PendingLive ==
  \A p \in inflight :
    HasLimit(PathOf(p)) /\ PathOf(p) \notin replaced /\ IdOf(p) \in pending => p \in live

CoverInv ==
  /\ IsFiniteSet(live)
  /\ SequencesUsed
  /\ PendingLive
  /\ OutflowCoversLive

(* Amounts add up to a natural number.                                      *)
LEMMA AmountsNat ==
  ASSUME NEW P \in SUBSET Packet, IsFiniteSet(P)
  PROVE  TotalAmount(P) \in Nat
<1> DEFINE f == [p \in P |-> p.amount]
<1>1. \A p \in P : f[p] \in Nat
  BY RateLimitAssumption DEF Packet
<1> HIDE DEF f
<1>2. SumFunctionOnSet(f, P) \in Nat
  BY <1>1, SumNat
<1> QED BY <1>2 DEF TotalAmount, f

(* One packet more.                                                         *)
LEMMA AmountAdded ==
  ASSUME NEW P \in SUBSET Packet, IsFiniteSet(P), NEW p \in Packet, p \notin P
  PROVE  TotalAmount(P \cup {p}) = TotalAmount(P) + p.amount
<1> DEFINE Q == P \cup {p}
           f == [q \in P |-> q.amount]
           g == [q \in Q |-> q.amount]
<1>1. /\ \A q \in P : f[q] \in Int /\ g[q] = f[q]
      /\ \A q \in P : g[q] \in Int
      /\ g[p] = p.amount /\ g[p] \in Int
  <2>1. \A q \in Packet : q.amount \in Int
    <3>1. Amount \subseteq Int
      BY RateLimitAssumption
    <3> QED BY ONLY <3>1 DEF Packet
  <2>2. P \subseteq Packet /\ p \in Q
    OBVIOUS
  <2>3. g[p] = p.amount /\ (\A q \in P : f[q] = q.amount /\ g[q] = q.amount)
    OBVIOUS
  <2> HIDE DEF f, g
  <2> QED BY <2>1, <2>2, <2>3
<1>2. TotalAmount(P) = SumFunctionOnSet(f, P) /\ TotalAmount(Q) = SumFunctionOnSet(g, Q)
  BY DEF TotalAmount
<1> HIDE DEF f, g
<1>3. SumFunctionOnSet(g, Q) = g[p] + SumFunctionOnSet(g, P)
  BY <1>1, SumInsert
<1>4. SumFunctionOnSet(g, P) = SumFunctionOnSet(f, P)
  BY <1>1, SumCongruence
<1>5. SumFunctionOnSet(f, P) \in Int
  BY <1>1, SumType
<1> QED BY <1>1, <1>2, <1>3, <1>4, <1>5

(* One packet less, if it is there.                                         *)
LEMMA AmountTaken ==
  ASSUME NEW P \in SUBSET Packet, IsFiniteSet(P), NEW p \in Packet
  PROVE  /\ TotalAmount(P \ {p}) \in Nat /\ TotalAmount(P) \in Nat
         /\ TotalAmount(P \ {p}) <= TotalAmount(P)
         /\ p \in P => TotalAmount(P) = TotalAmount(P \ {p}) + p.amount
<1> DEFINE R == P \ {p}
<1>1. R \in SUBSET Packet /\ IsFiniteSet(R) /\ p \notin R
  BY FS_RemoveElement
<1>2. TotalAmount(R) \in Nat /\ TotalAmount(P) \in Nat /\ p.amount \in Nat
  BY <1>1, AmountsNat, RateLimitAssumption DEF Packet
<1>3. CASE p \in P
  <2>1. R \cup {p} = P
    BY <1>3
  <2> HIDE DEF R
  <2>2. TotalAmount(P) = TotalAmount(R) + p.amount
    BY <1>1, <2>1, AmountAdded
  <2>3. TotalAmount(R) <= TotalAmount(P)
    BY <1>2, <2>2
  <2> QED BY <1>2, <2>2, <2>3 DEF R
<1>4. CASE p \notin P
  <2>1. R = P
    BY <1>4
  <2> QED BY <1>2, <1>4, <2>1
<1> QED BY <1>3, <1>4

(* No packets, no amount.                                                   *)
LEMMA NothingLive ==
  TotalAmount({}) = 0
BY SumEmpty DEF TotalAmount

(* What one path's limit has to cover.                                      *)
CoversPath(path) ==
  HasLimit(path) /\ path \notin replaced => limits[path].outflow >= TotalAmount(LiveOn(path))

LEMMA CoversMeans ==
  /\ OutflowCoversLive <=> \A path \in Path : CoversPath(path)
  /\ OutflowCoversLive' <=> \A path \in Path : CoversPath(path)'
BY DEF OutflowCoversLive, CoversPath

(* The packets a limit counts are finitely many.                            *)
LEMMA LiveOnFinite ==
  ASSUME LimitInv, CoverInv, NEW path \in Path
  PROVE  /\ LiveOn(path) \in SUBSET Packet /\ IsFiniteSet(LiveOn(path))
         /\ TotalAmount(LiveOn(path)) \in Nat
         /\ HasLimit(path) => limits[path].outflow \in Int
<1>1. LiveOn(path) \in SUBSET live /\ live \subseteq Packet
  BY DEF LiveOn, LimitInv, OthersOK
<1>2. IsFiniteSet(LiveOn(path))
  BY <1>1, FS_Subset DEF CoverInv
<1>3. HasLimit(path) => limits[path].outflow \in Int
  BY DEF HasLimit, LimitInv, LimitsOK, Limit
<1> QED BY <1>1, <1>2, <1>3, AmountsNat

-----------------------------------------------------------------------------
(* A counted packet comes to the outflow and to the live ones; one that is  *)
(* not counted to neither, and it is not pending.                           *)
LEMMA SendKeepsCover ==
  ASSUME LimitInv, CoverInv, NEW c \in Channel, NEW d \in Denom, NEW x \in Amount,
         NEW pair \in Pair, SendPacket(c, d, x, pair)
  PROVE  CoverInv'
<1> DEFINE r == <<d, c>>
           p == [seq |-> nextSeq[c], channel |-> c, denom |-> d, amount |-> x]
<1>1. /\ r \in Path /\ nextSeq \in [Channel -> Nat] /\ p \in Packet
      /\ PathOf(p) = r /\ IdOf(p) = <<c, nextSeq[c]>> /\ p.amount = x /\ x \in Nat
      /\ p.seq = nextSeq[c] /\ p.channel = c
      /\ live \subseteq Packet /\ inflight \subseteq Packet
      /\ pending \subseteq Channel \X Nat
  BY RateLimitAssumption DEF LimitInv, OthersOK, Path, Packet, PathOf, IdOf
<1>2. /\ nextSeq' = [nextSeq EXCEPT ![c] = @ + 1]
      /\ inflight' = inflight \cup {p} /\ replaced' = replaced
      /\ pending' = IF IsCounted(r, pair) THEN pending \cup {IdOf(p)} ELSE pending
      /\ IF IsCounted(r, pair)
           THEN limits' = [limits EXCEPT ![r].outflow = @ + x] /\ live' = live \cup {p}
           ELSE limits' = limits /\ live' = live
  BY DEF SendPacket, PendingSend
<1> HIDE DEF p, r
<1>3. p \notin live /\ p \notin inflight /\ IdOf(p) \notin pending
      /\ \A q \in inflight : IdOf(q) # IdOf(p)
  <2>1. p \notin live /\ p \notin inflight
    BY <1>1 DEF CoverInv, SequencesUsed
  <2>2. IdOf(p) \notin pending
    BY <1>1 DEF CoverInv, SequencesUsed
  <2>3. \A q \in inflight : IdOf(q) # IdOf(p)
    BY <1>1 DEF CoverInv, SequencesUsed, IdOf
  <2> QED BY <2>1, <2>2, <2>3
<1>4. IsFiniteSet(live')
  BY <1>2, FS_AddElement DEF CoverInv
<1>5. SequencesUsed'
  <2>1. \A e \in Channel : nextSeq'[e] \in Nat /\ nextSeq[e] <= nextSeq'[e]
    BY <1>1, <1>2
  <2>2. nextSeq[c] < nextSeq'[c]
    BY <1>1, <1>2
  <2>3. ASSUME NEW q \in live' \cup inflight' PROVE q.seq < nextSeq'[q.channel]
    <3>1. CASE q = p
      BY <1>1, <2>2, <3>1
    <3>2. CASE q # p
      <4>1. q \in live \cup inflight /\ q \in Packet
        BY <1>1, <1>2, <3>2
      <4>2. q.seq < nextSeq[q.channel] /\ q.seq \in Nat /\ q.channel \in Channel
        BY <4>1 DEF CoverInv, SequencesUsed, Packet
      <4> QED BY <1>1, <2>1, <4>2
    <3> QED BY <3>1, <3>2
  <2>4. ASSUME NEW id \in pending' PROVE id[2] < nextSeq'[id[1]]
    <3>1. CASE id = IdOf(p)
      BY <1>1, <2>2, <3>1
    <3>2. CASE id # IdOf(p)
      <4>1. id \in pending /\ id[1] \in Channel /\ id[2] \in Nat
        BY <1>1, <1>2, <3>2
      <4>2. id[2] < nextSeq[id[1]]
        BY <4>1 DEF CoverInv, SequencesUsed
      <4> QED BY <1>1, <2>1, <4>1, <4>2
    <3> QED BY <3>1, <3>2
  <2> QED BY <2>3, <2>4 DEF SequencesUsed
<1>6. \A path \in Path : HasLimit(path)' <=> HasLimit(path)
  <2>1. CASE IsCounted(r, pair)
    <3>1. HasLimit(r) /\ limits[r] \in Limit /\ limits \in [Path -> Limit \cup {NoLimit}]
      BY <1>1, <2>1 DEF IsCounted, HasLimit, LimitInv, LimitsOK
    <3>2. limits'[r] = [limits[r] EXCEPT !.outflow = @ + x] /\ limits'[r] \in Limit
      BY <1>1, <1>2, <2>1, <3>1 DEF Limit
    <3>3. limits'[r] # NoLimit
      BY <3>2, RateLimitAssumption
    <3>4. \A path \in Path : path # r => limits'[path] = limits[path]
      BY <1>1, <1>2, <2>1, <3>1
    <3> QED BY <3>1, <3>3, <3>4 DEF HasLimit
  <2>2. CASE ~IsCounted(r, pair)
    BY <1>2, <2>2 DEF HasLimit
  <2> QED BY <2>1, <2>2
<1>7. PendingLive'
  <2>1. SUFFICES ASSUME NEW q \in inflight', HasLimit(PathOf(q))',
                        PathOf(q) \notin replaced, IdOf(q) \in pending'
                 PROVE  q \in live'
    BY <1>2 DEF PendingLive, PathOf, IdOf
  <2>2. CASE q = p
    BY <1>2, <1>3, <2>1, <2>2
  <2>3. CASE q # p
    <3>1. q \in inflight /\ IdOf(q) \in pending /\ PathOf(q) \in Path
      BY <1>1, <1>2, <1>3, <2>1, <2>3 DEF Packet, PathOf, Path
    <3>2. HasLimit(PathOf(q))
      BY <1>6, <2>1, <3>1
    <3>3. q \in live
      BY <2>1, <3>1, <3>2 DEF CoverInv, PendingLive
    <3> QED BY <1>2, <3>3
  <2> QED BY <2>2, <2>3
<1>8. ASSUME NEW path \in Path PROVE CoversPath(path)'
  <2>1. SUFFICES ASSUME HasLimit(path)', path \notin replaced
                 PROVE  limits'[path].outflow >= TotalAmount(LiveOn(path)')
    BY <1>2 DEF CoversPath, TotalAmount
  <2>2. /\ HasLimit(path) /\ limits[path].outflow >= TotalAmount(LiveOn(path))
        /\ limits[path].outflow \in Int /\ TotalAmount(LiveOn(path)) \in Nat
        /\ LiveOn(path) \in SUBSET Packet /\ IsFiniteSet(LiveOn(path))
    BY <1>6, <2>1, CoversMeans, LiveOnFinite DEF CoverInv, CoversPath
  <2>3. CASE IsCounted(r, pair) /\ path = r
    <3>1. limits'[path].outflow = limits[path].outflow + x
      BY <1>1, <1>2, <2>2, <2>3 DEF LimitInv, LimitsOK, Limit, HasLimit
    <3>2. LiveOn(path)' = LiveOn(path) \cup {p} /\ p \notin LiveOn(path)
      BY <1>1, <1>2, <1>3, <2>3 DEF LiveOn, PathOf
    <3>3. TotalAmount(LiveOn(path)') = TotalAmount(LiveOn(path)) + x
      BY <1>1, <2>2, <3>2, AmountAdded
    <3> QED BY <1>1, <2>2, <3>1, <3>3
  <2>4. CASE ~(IsCounted(r, pair) /\ path = r)
    <3>1. limits'[path] = limits[path]
      BY <1>1, <1>2, <2>4 DEF LimitInv, LimitsOK
    <3>2. LiveOn(path)' = LiveOn(path)
      BY <1>1, <1>2, <2>4 DEF LiveOn, PathOf
    <3> QED BY <2>2, <3>1, <3>2
  <2> QED BY <2>3, <2>4
<1> QED BY <1>4, <1>5, <1>7, <1>8, CoversMeans DEF CoverInv

(* A receipt is none of the packets sent.                                   *)
LEMMA RecvKeepsCover ==
  ASSUME LimitInv, CoverInv, NEW c \in Channel, NEW d \in Denom, NEW x \in Amount,
         NEW pair \in Pair, RecvPacket(c, d, x, pair)
  PROVE  CoverInv'
<1> DEFINE r == <<d, c>>
<1>1. /\ r \in Path /\ HasLimit(r) /\ limits' = [limits EXCEPT ![r].inflow = @ + x]
      /\ UNCHANGED <<pending, inflight, nextSeq, live, replaced>>
  BY DEF RecvPacket, IsCounted, Path
<1> HIDE DEF r
<1>2. limits[r] \in Limit /\ limits \in [Path -> Limit \cup {NoLimit}] /\ x \in Nat
  BY <1>1, RateLimitAssumption DEF HasLimit, LimitInv, LimitsOK
<1>3. limits'[r] \in Limit /\ limits'[r].outflow = limits[r].outflow
  BY <1>1, <1>2 DEF Limit
<1>4. \A path \in Path : /\ HasLimit(path)' <=> HasLimit(path)
                         /\ HasLimit(path) => limits'[path].outflow = limits[path].outflow
  <2>1. limits'[r] # NoLimit
    BY <1>3, RateLimitAssumption
  <2>2. \A path \in Path : path # r => limits'[path] = limits[path]
    BY <1>1, <1>2
  <2> QED BY <1>1, <1>3, <2>1, <2>2 DEF HasLimit
<1>5. \A path \in Path : CoversPath(path)'
  <2>1. ASSUME NEW path \in Path PROVE LiveOn(path)' = LiveOn(path)
    BY <1>1 DEF LiveOn, PathOf
  <2> QED BY <1>1, <1>4, <2>1, CoversMeans DEF CoverInv, CoversPath, TotalAmount
<1>6. PendingLive'
  <2>1. \A q \in inflight : PathOf(q) \in Path
    BY DEF LimitInv, OthersOK, Packet, PathOf, Path
  <2> QED BY <1>1, <1>4, <2>1 DEF CoverInv, PendingLive, PathOf, IdOf
<1>7. IsFiniteSet(live') /\ SequencesUsed'
  BY <1>1 DEF CoverInv, SequencesUsed
<1> QED BY <1>5, <1>6, <1>7, CoversMeans DEF CoverInv

(* A packet that is answered or times out is in flight no more; if it       *)
(* failed, it lives no more either, and if it was pending, its limit has    *)
(* given its amount back.                                                   *)
Forgets(p) ==
  /\ inflight' = inflight \ {p}
  /\ live' = live \ {p}
  /\ UNCHANGED <<nextSeq, replaced>>

(* A packet that failed is taken off the outflow that counted it, and off   *)
(* no other that it was live in.                                            *)
LEMMA FailureKeepsCover ==
  ASSUME LimitInv, CoverInv, NEW p \in inflight, UndoSendPacket(p), Forgets(p)
  PROVE  CoverInv'
<1> DEFINE r == PathOf(p)
<1>1. /\ p \in Packet /\ r \in Path /\ p.amount \in Nat
      /\ limits \in [Path -> Limit \cup {NoLimit}]
  BY RateLimitAssumption DEF LimitInv, LimitsOK, OthersOK, Packet, PathOf, Path
<1>2. pending' \subseteq pending
  BY UndoSendPacketEffect, <1>1
<1>3. CASE ~(HasLimit(r) /\ IdOf(p) \in pending)
  <2>1. limits' = limits
    BY <1>3 DEF UndoSendPacket
  <2>2. ASSUME NEW path \in Path PROVE CoversPath(path)'
    <3>1. LiveOn(path)' = LiveOn(path) \ {p}
      BY DEF Forgets, LiveOn, PathOf
    <3>2. TotalAmount(LiveOn(path) \ {p}) <= TotalAmount(LiveOn(path))
            /\ TotalAmount(LiveOn(path) \ {p}) \in Nat
            /\ TotalAmount(LiveOn(path)) \in Nat
      BY <1>1, LiveOnFinite, AmountTaken
    <3>3. SUFFICES ASSUME HasLimit(path), path \notin replaced
                   PROVE  limits[path].outflow >= TotalAmount(LiveOn(path) \ {p})
      BY <2>1, <3>1 DEF CoversPath, TotalAmount, HasLimit, Forgets
    <3>4. limits[path].outflow >= TotalAmount(LiveOn(path)) /\ limits[path].outflow \in Int
      BY <3>3, CoversMeans, LiveOnFinite DEF CoverInv, CoversPath
    <3> QED BY <3>2, <3>4
  <2>3. PendingLive'
    BY <1>2, <2>1 DEF CoverInv, PendingLive, Forgets, PathOf, IdOf, HasLimit
  <2>4. SequencesUsed' /\ IsFiniteSet(live')
    BY <1>2, FS_RemoveElement DEF CoverInv, SequencesUsed, Forgets
  <2> QED BY <2>2, <2>3, <2>4, CoversMeans DEF CoverInv
<1>4. CASE HasLimit(r) /\ IdOf(p) \in pending
  <2>1. limits' = [limits EXCEPT ![r].outflow = @ - p.amount]
    BY <1>4 DEF UndoSendPacket
  <2> HIDE DEF r
  <2>2. limits[r] \in Limit
    BY <1>1, <1>4 DEF HasLimit
  <2>3. limits'[r] \in Limit /\ limits'[r].outflow = limits[r].outflow - p.amount
    BY <1>1, <2>1, <2>2 DEF Limit
  <2>4. /\ limits'[r] # NoLimit
        /\ \A path \in Path : path # r => limits'[path] = limits[path]
    BY <1>1, <2>1, <2>3, RateLimitAssumption
  <2>5. \A path \in Path : HasLimit(path)' <=> HasLimit(path)
    BY <1>4, <2>4 DEF HasLimit
  <2>6. ASSUME NEW path \in Path PROVE CoversPath(path)'
    <3>1. LiveOn(path)' = LiveOn(path) \ {p}
      BY DEF Forgets, LiveOn, PathOf
    <3>2. /\ TotalAmount(LiveOn(path) \ {p}) \in Nat /\ TotalAmount(LiveOn(path)) \in Nat
          /\ TotalAmount(LiveOn(path) \ {p}) <= TotalAmount(LiveOn(path))
          /\ p \in LiveOn(path) =>
               TotalAmount(LiveOn(path)) = TotalAmount(LiveOn(path) \ {p}) + p.amount
      BY <1>1, LiveOnFinite, AmountTaken
    <3>3. SUFFICES ASSUME HasLimit(path), path \notin replaced
                   PROVE  limits'[path].outflow >= TotalAmount(LiveOn(path) \ {p})
      BY <2>5, <3>1 DEF CoversPath, TotalAmount, Forgets
    <3>4. limits[path].outflow >= TotalAmount(LiveOn(path)) /\ limits[path].outflow \in Int
      BY <3>3, CoversMeans, LiveOnFinite DEF CoverInv, CoversPath
    <3>5. CASE path # r
      BY <2>4, <3>2, <3>4, <3>5
    <3>6. CASE path = r
      <4>1. p \in live
        BY <1>4, <3>3, <3>6 DEF CoverInv, PendingLive, r
      <4>2. p \in LiveOn(path)
        BY <3>6, <4>1 DEF LiveOn, r
      <4> QED BY <1>1, <2>3, <3>2, <3>4, <3>6, <4>2
    <3> QED BY <3>5, <3>6
  <2>7. PendingLive'
    <3>1. \A q \in inflight : PathOf(q) \in Path
      BY DEF LimitInv, OthersOK, Packet, PathOf, Path
    <3> QED BY <1>2, <2>5, <3>1 DEF CoverInv, PendingLive, Forgets, PathOf, IdOf
  <2>8. SequencesUsed' /\ IsFiniteSet(live')
    BY <1>2, FS_RemoveElement DEF CoverInv, SequencesUsed, Forgets
  <2> QED BY <2>6, <2>7, <2>8, CoversMeans DEF CoverInv
<1> QED BY <1>3, <1>4

(* A packet that arrived stays counted.                                     *)
LEMMA SuccessKeepsCover ==
  ASSUME LimitInv, CoverInv, NEW p \in inflight, AcknowledgePacket(p, TRUE)
  PROVE  CoverInv'
<1>1. /\ pending' \subseteq pending /\ inflight' \subseteq inflight
      /\ UNCHANGED <<limits, live, nextSeq, replaced>>
  BY DEF AcknowledgePacket
<1>2. \A path \in Path : CoversPath(path)'
  BY <1>1, CoversMeans DEF CoverInv, CoversPath, LiveOn, PathOf, TotalAmount, HasLimit
<1>3. PendingLive'
  BY <1>1 DEF CoverInv, PendingLive, PathOf, IdOf, HasLimit
<1>4. SequencesUsed' /\ IsFiniteSet(live')
  BY <1>1 DEF CoverInv, SequencesUsed
<1> QED BY <1>2, <1>3, <1>4, CoversMeans DEF CoverInv

-----------------------------------------------------------------------------
(* A limit that is replaced has nothing to cover, and where packets are     *)
(* pending on it the path is marked.                                        *)
LEMMA ReplaceKeepsCover ==
  ASSUME LimitInv, CoverInv, NEW r \in Path, NEW l \in Limit \cup {NoLimit},
         l # NoLimit => l.outflow = 0,
         limits' = [limits EXCEPT ![r] = l], Replace(r)
  PROVE  CoverInv'
<1>1. /\ live' = {p \in live : PathOf(p) # r}
      /\ replaced' = IF LivePending(r) = {} THEN replaced ELSE replaced \cup {r}
      /\ UNCHANGED <<pending, inflight, nextSeq>>
      /\ limits \in [Path -> Limit \cup {NoLimit}]
  BY DEF Replace, LimitInv, LimitsOK
<1>2. limits'[r] = l /\ \A path \in Path : path # r => limits'[path] = limits[path]
  BY <1>1
<1>3. ASSUME NEW path \in Path PROVE CoversPath(path)'
  <2>1. CASE path = r
    <3>1. LiveOn(path)' = {}
      BY <1>1, <2>1 DEF LiveOn, PathOf
    <3>2. HasLimit(path)' => limits'[path].outflow = 0
      BY <1>2, <2>1 DEF HasLimit
    <3>3. TotalAmount(LiveOn(path)') = 0
      BY <3>1, NothingLive
    <3> QED BY <3>2, <3>3 DEF CoversPath, TotalAmount
  <2>2. CASE path # r
    <3>1. LiveOn(path)' = LiveOn(path)
      BY <1>1, <2>2 DEF LiveOn, PathOf
    <3>2. path \in replaced' <=> path \in replaced
      BY <1>1, <2>2
    <3> QED BY <1>2, <2>2, <3>1, <3>2, CoversMeans
            DEF CoverInv, CoversPath, TotalAmount, HasLimit
  <2> QED BY <2>1, <2>2
<1>4. PendingLive'
  <2>1. SUFFICES ASSUME NEW q \in inflight, HasLimit(PathOf(q))',
                        PathOf(q) \notin replaced', IdOf(q) \in pending
                 PROVE  q \in live'
    BY <1>1 DEF PendingLive, PathOf, IdOf
  <2>2. PathOf(q) # r
    BY <1>1, <2>1 DEF LivePending
  <2>3. PathOf(q) \in Path
    BY DEF LimitInv, OthersOK, Packet, PathOf, Path
  <2>4. q \in live
    BY <1>1, <1>2, <2>1, <2>2, <2>3 DEF CoverInv, PendingLive, HasLimit, PathOf
  <2> QED BY <1>1, <2>2, <2>4
<1>5. SequencesUsed'
  BY <1>1 DEF CoverInv, SequencesUsed
<1>6. IsFiniteSet(live')
  <2>1. live' \in SUBSET live
    BY <1>1
  <2> QED BY <2>1, FS_Subset DEF CoverInv
<1> QED BY <1>3, <1>4, <1>5, <1>6, CoversMeans DEF CoverInv

(* A reset leaves no sequence of the channel pending.                       *)
LEMMA ResetKeepsCover ==
  ASSUME LimitInv, CoverInv, NEW named \in SUBSET Path, NEW supply \in [Denom -> Value],
         ResetRateLimits(named, supply)
  PROVE  CoverInv'
<1> DEFINE reset == {path \in {LimitPath(n[1], n[2]) : n \in named} : HasLimit(path)}
<1>1. /\ limits' = [path \in Path |->
           IF path \in reset THEN NewLimit(limits[path].quota, supply[path[1]])
                             ELSE limits[path]]
      /\ pending' = {id \in pending : \A c \in {path[2] : path \in reset} : id[1] \notin Extending[c]}
      /\ live' = {p \in live : PathOf(p) \notin reset}
      /\ replaced' = replaced \ reset
      /\ UNCHANGED <<inflight, nextSeq>>
  BY DEF ResetRateLimits, RemoveAllChannelPendingSendPackets
<1>2. \A path \in reset : HasLimit(path)
  OBVIOUS
<1> HIDE DEF reset
<1>3. ASSUME NEW path \in Path PROVE CoversPath(path)'
  <2>1. CASE path \in reset
    <3>1. LiveOn(path)' = {}
      BY <1>1, <2>1 DEF LiveOn, PathOf
    <3>2. limits'[path].outflow = 0
      BY <1>1, <2>1 DEF NewLimit
    <3>3. TotalAmount(LiveOn(path)') = 0
      BY <3>1, NothingLive
    <3> QED BY <3>2, <3>3 DEF CoversPath, TotalAmount
  <2>2. CASE path \notin reset
    <3>1. LiveOn(path)' = LiveOn(path)
      BY <1>1, <2>2 DEF LiveOn, PathOf
    <3>2. (path \in replaced' <=> path \in replaced) /\ limits'[path] = limits[path]
      BY <1>1, <2>2
    <3> QED BY <3>1, <3>2, CoversMeans DEF CoverInv, CoversPath, TotalAmount, HasLimit
  <2> QED BY <2>1, <2>2
<1>4. PendingLive'
  <2>1. SUFFICES ASSUME NEW q \in inflight, HasLimit(PathOf(q))',
                        PathOf(q) \notin replaced', IdOf(q) \in pending'
                 PROVE  q \in live'
    BY <1>1 DEF PendingLive, PathOf, IdOf
  <2>2. PathOf(q) \in Path /\ q.channel \in Channel /\ PathOf(q)[2] = q.channel
        /\ IdOf(q)[1] = q.channel
    BY DEF LimitInv, OthersOK, Packet, PathOf, Path, IdOf
  <2>3. PathOf(q) \notin reset
    <3>1. q.channel \in Extending[q.channel]
      BY <2>2, RateLimitAssumption
    <3>2. PathOf(q) \in reset => q.channel \in {path[2] : path \in reset}
      BY <2>2
    <3> QED BY <1>1, <2>1, <2>2, <3>1, <3>2
  <2>4. HasLimit(PathOf(q)) /\ PathOf(q) \notin replaced /\ IdOf(q) \in pending
    BY <1>1, <2>1, <2>2, <2>3 DEF HasLimit, PathOf, IdOf
  <2>5. q \in live
    BY <2>4 DEF CoverInv, PendingLive
  <2> QED BY <1>1, <2>3, <2>5
<1>5. SequencesUsed'
  BY <1>1 DEF CoverInv, SequencesUsed
<1>6. IsFiniteSet(live')
  <2>1. live' \in SUBSET live
    BY <1>1
  <2> QED BY <2>1, FS_Subset DEF CoverInv
<1> QED BY <1>3, <1>4, <1>5, <1>6, CoversMeans DEF CoverInv

(* Governance zeroes a flow together with what it counted.                  *)
LEMMA GovernanceKeepsCover ==
  ASSUME LimitInv, CoverInv, GovernanceStep
  PROVE  CoverInv'
<1>1. PICK path \in Governed :
        \/ \E q \in Quota, v \in Value : \/ AddRateLimit(path[1], path[2], q, v)
                                       \/ UpdateRateLimit(path[1], path[2], q, v)
        \/ RemoveRateLimit(path[1], path[2])
        \/ ResetRateLimit(path[1], path[2])
  BY DEF GovernanceStep
<1> DEFINE d == path[1]
           c == path[2]
           r == LimitPath(d, c)
<1>2. d \in Denom /\ c \in Channel /\ <<d, c>> \in Path
  BY RateLimitAssumption DEF Path
<1>3. r \in Path
  BY <1>2, LimitPathType DEF LimitInv, OthersOK
<1>4. ASSUME NEW q \in Quota, NEW v \in Value,
             AddRateLimit(d, c, q, v) \/ UpdateRateLimit(d, c, q, v)
      PROVE  CoverInv'
  <2>1. v \in Nat
    BY RateLimitAssumption
  <2>2. NewLimit(q, v) \in Limit /\ NewLimit(q, v).outflow = 0
    BY <2>1, NewLimitWithin DEF NewLimit
  <2>3. limits' = [limits EXCEPT ![r] = NewLimit(q, v)] /\ Replace(r)
    BY <1>4 DEF AddRateLimit, UpdateRateLimit
  <2> QED BY <1>3, <2>2, <2>3, ReplaceKeepsCover
<1>5. CASE RemoveRateLimit(d, c)
  <2>1. limits' = [limits EXCEPT ![r] = NoLimit] /\ Replace(r)
    BY <1>5 DEF RemoveRateLimit
  <2> QED BY <1>3, <2>1, ReplaceKeepsCover
<1>6. CASE ResetRateLimit(d, c)
  <2>1. PICK supply \in [Denom -> Value] : ResetRateLimits({<<d, c>>}, supply)
    BY <1>6 DEF ResetRateLimit
  <2>2. {<<d, c>>} \in SUBSET Path
    BY <1>2
  <2> QED BY <2>1, <2>2, ResetKeepsCover
<1> QED BY <1>1, <1>4, <1>5, <1>6

(* Every step keeps the live packets covered.                               *)
LEMMA CoverStep == LimitInv /\ CoverInv /\ [Next]_vars => CoverInv'
<1> SUFFICES ASSUME LimitInv, CoverInv, [Next]_vars PROVE CoverInv'
  OBVIOUS
<1>1. ASSUME UNCHANGED <<limits, pending, inflight, nextSeq, live, replaced>> PROVE CoverInv'
  <2>1. \A path \in Path : CoversPath(path)'
    BY <1>1, CoversMeans DEF CoverInv, CoversPath, LiveOn, PathOf, TotalAmount, HasLimit
  <2> QED BY <1>1, <2>1, CoversMeans
          DEF CoverInv, SequencesUsed, PendingLive, HasLimit, PathOf, IdOf
<1>2. CASE PacketStep
  <2>1. ASSUME NEW c \in Channel, NEW d \in Denom, NEW x \in Amount, NEW pair \in Pair,
               SendPacket(c, d, x, pair) \/ RecvPacket(c, d, x, pair)
        PROVE  CoverInv'
    BY <2>1, SendKeepsCover, RecvKeepsCover
  <2>2. ASSUME NEW p \in inflight, NEW success \in BOOLEAN, AcknowledgePacket(p, success)
        PROVE  CoverInv'
    <3>1. CASE success
      <4>1. AcknowledgePacket(p, TRUE)
        BY <2>2, <3>1 DEF AcknowledgePacket
      <4> QED BY <4>1, SuccessKeepsCover
    <3>2. CASE ~success
      <4>1. UndoSendPacket(p) /\ Forgets(p)
        BY <2>2, <3>2 DEF AcknowledgePacket, Forgets
      <4> QED BY <4>1, FailureKeepsCover
    <3> QED BY <3>1, <3>2
  <2>3. ASSUME NEW p \in inflight, TimeoutPacket(p)
        PROVE  CoverInv'
    <3>1. UndoSendPacket(p) /\ Forgets(p)
      BY <2>3 DEF TimeoutPacket, Forgets
    <3> QED BY <3>1, FailureKeepsCover
  <2> QED BY <1>2, <2>1, <2>2, <2>3 DEF PacketStep
<1>3. CASE GovernanceStep
  BY <1>3, GovernanceKeepsCover
<1>4. CASE ChangeRegistry
  BY <1>1, <1>4 DEF ChangeRegistry
<1>5. ASSUME NEW t \in 1..MaxTime, BeginBlocker(t) PROVE CoverInv'
  <2>1. CASE EpochEnds(t)
    <3>1. PICK supply \in [Denom -> Value] : ResetRateLimits(Expiring, supply)
      BY <1>5, <2>1 DEF BeginBlocker
    <3>2. Expiring \in SUBSET Path
      BY DEF Expiring
    <3> QED BY <3>1, <3>2, ResetKeepsCover
  <2>2. CASE ~EpochEnds(t)
    BY <1>1, <1>5, <2>2 DEF BeginBlocker, limitVars
  <2> QED BY <2>1, <2>2
<1>6. CASE RestartFromGenesis
  BY <1>1, <1>6 DEF RestartFromGenesis, limitVars
<1>7. CASE UNCHANGED vars
  BY <1>1, <1>7 DEF vars, limitVars
<1> QED BY <1>2, <1>3, <1>4, <1>5, <1>6, <1>7 DEF Next

(* The outflow a limit records covers all packets counted in its quota that *)
(* have not failed, whatever is reset, updated, restarted and answered in   *)
(* between, unless the limit was replaced with packets pending              *)
(* (OutflowCoversLive).                                                     *)
THEOREM OutflowAlwaysCovers == Spec => []OutflowCoversLive
<1>1. Init => CoverInv
  <2> SUFFICES ASSUME Init PROVE CoverInv
    OBVIOUS
  <2>1. live = {} /\ inflight = {} /\ pending = {} /\ \A path \in Path : ~HasLimit(path)
    BY DEF Init, HasLimit
  <2>2. IsFiniteSet(live) /\ SequencesUsed /\ PendingLive
    BY <2>1, FS_EmptySet DEF SequencesUsed, PendingLive
  <2>3. \A path \in Path : CoversPath(path)
    BY <2>1 DEF CoversPath
  <2> QED BY <2>2, <2>3, CoversMeans DEF CoverInv
<1>2. CoverInv => OutflowCoversLive
  BY DEF CoverInv
<1> QED BY <1>1, <1>2, CoverStep, RateLimitInvariant, PTL DEF Spec
=============================================================================
