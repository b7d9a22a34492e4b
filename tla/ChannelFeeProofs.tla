-------------------------- MODULE ChannelFeeProofs --------------------------
(***************************************************************************)
(* Proofs about the fees: they make and lose no coin, with the bridge      *)
(* below backed and its supplies preserved; what the store keeps under a   *)
(* sequence was stored there for a fee and neither paid back nor           *)
(* forgotten; and a packet that times out brings its fee back, where no    *)
(* packet of another channel has used its sequence.                        *)
(***************************************************************************)
EXTENDS ChannelFee, TransferMiddlewareProofs

(* Sequences stay within the places of the store, from 1 on.                *)
SequencesBounded ==
  /\ \A c \in Channel : nextSeq[c] >= 1
  /\ \A p \in inflight : p.seq >= 1 /\ p.seq <= MaxSeq[p.channel]

(* The fee is of the packet's own coin, or of the native coin that the      *)
(* packet's voucher was converted from.                                     *)
FeeOf(p, d) == d = p.denom \/ \E e \in Catalogue : e.ibc = p.denom /\ e.native = d

(* A packet whose sequence is its own has its last fee in the store, and    *)
(* sequences yet to come have none.                                         *)
OwnFeesKept ==
  /\ \A p \in inflight :
       LET fee == ownFee[p.channel][p.seq]
       IN  SequenceUnshared(p) /\ fee # NoFee => sequenceFee[p.seq] = fee /\ FeeOf(p, fee.denom)
  /\ \A c \in Channel, s \in Sequence : s >= nextSeq[c] => ownFee[c][s] = NoFee

(* The invariant behind the theorems of this module.                        *)
FeeInv ==
  /\ RegistryInv
  /\ BridgeInv
  /\ ConservedInv
  /\ FeeTypeOK
  /\ SequencesBounded
  /\ PromisesCovered
  /\ OwnFeesKept

-----------------------------------------------------------------------------
(* A whole quotient is no more than what is divided.                        *)
LEMMA QuotientBounds ==
  ASSUME NEW a \in Nat, NEW b \in Nat, b # 0 PROVE a \div b \in Nat /\ a \div b <= a
<1> DEFINE q == a \div b
           r == a % b
<1>1. q \in Int /\ r \in 0 .. b - 1 /\ a = b * q + r
  OBVIOUS
<1> HIDE DEF q, r
<1>2. q >= 0
  BY <1>1
<1>3. b * q >= q
  BY <1>1, <1>2
<1> QED
  BY <1>1, <1>2, <1>3 DEF q

(* The keeper never takes more than the amount (Transfer, msg_server.go).   *)
LEMMA ChargeBounds ==
  ASSUME NEW t \in Terms, NEW prio \in BOOLEAN, NEW x \in Nat
  PROVE  Charge(t, prio, x) \in Nat /\ Charge(t, prio, x) <= x
<1>1. t.minFee \in Nat /\ t.priorityFee \in Nat /\ t.percentage \in Nat
  BY FeeAssumption
<1> DEFINE least == LeastFee(t, prio)
<1>2. least \in Nat
  BY <1>1 DEF LeastFee
<1> HIDE DEF least
<1>3. CASE least > x
  BY <1>3 DEF Charge, least
<1>4. CASE ~(least > x)
  <2> DEFINE rest == x - least
  <2>1. rest \in Nat /\ least + rest = x
    BY <1>2, <1>4
  <2> HIDE DEF rest
  <2>2. ShareOf(t, rest) \in Nat /\ ShareOf(t, rest) <= rest
    BY <1>1, <2>1, QuotientBounds DEF ShareOf
  <2>3. Charge(t, prio, x) = least + ShareOf(t, rest)
    BY <1>4 DEF Charge, least, rest
  <2> QED
    BY <1>2, <2>1, <2>2, <2>3
<1> QED
  BY <1>3, <1>4

-----------------------------------------------------------------------------
(* What a channel's configuration says of a coin that may leave over it.    *)
LEMMA AllowedTerms ==
  ASSUME FeeTypeOK, NEW c \in Channel, NEW d \in Denom, IsAllowed(c, d)
  PROVE  TermsOf(c, d) \in Terms /\ channelFees[c].feeAddress \in User
<1>1. channelFees[c] \in FeeConfig
  BY DEF FeeTypeOK, IsAllowed
<1> QED
  BY <1>1, FeeAssumption DEF IsAllowed, TermsOf, FeeConfig

(* Paying a fee is a payment between users, and leaves what is to be sent   *)
(* (Transfer).                                                              *)
LEMMA FeePaid ==
  ASSUME BridgeInv, FeeTypeOK, NEW L, Midway(L), BooksBalance(L), NEW u \in User,
         NEW c \in Channel, NEW d \in Denom, IsAllowed(c, d), NEW prio \in BOOLEAN,
         NEW x \in Nat, CanSpend(L, u, d, x)
  PROVE  LET k == Charge(TermsOf(c, d), prio, x)
             M == PayFee(L, u, c, d, k)
         IN  /\ Midway(M) /\ BooksBalance(M)
             /\ k \in Nat /\ k <= x
             /\ CanSpend(M, u, d, x - k)
<1> DEFINE k == Charge(TermsOf(c, d), prio, x)
           to == channelFees[c].feeAddress
           M == PayFee(L, u, c, d, k)
<1>1. TermsOf(c, d) \in Terms /\ to \in User
  BY AllowedTerms
<1>2. k \in Nat /\ k <= x
  BY <1>1, ChargeBounds
<1>3. L \in Ledger /\ User \subseteq Account
  BY TransferAssumption DEF Midway
<1>4. L.bal[u][d] \in Nat /\ L.bal[u][d] >= x
  BY <1>3 DEF Ledger, CanSpend
<1>5. M = SendCoins(L, u, to, d, k)
  BY DEF PayFee
<1> HIDE DEF k, to, M
<1>6. CanSpend(L, u, d, k)
  BY <1>2, <1>4 DEF CanSpend
<1>7. Midway(M)
  BY <1>1, <1>2, <1>5, <1>6, MidwayPaid
<1>8. BooksBalance(M)
  BY <1>1, <1>2, <1>3, <1>5, <1>6, SendKeepsBooks
<1>9. M.bal[u][d] = L.bal[u][d] - k + (IF u = to THEN k ELSE 0)
  <2>1. \A a \in Account, e \in Denom :
          M.bal[a][e] = L.bal[a][e] - (IF a = u /\ e = d THEN k ELSE 0)
                                    + (IF a = to /\ e = d THEN k ELSE 0)
    BY <1>1, <1>2, <1>3, <1>5, <1>6, SendCoinsEffect
  <2> QED
    BY <1>3, <2>1
<1>10. CanSpend(M, u, d, x - k)
  BY <1>2, <1>4, <1>9 DEF CanSpend
<1> QED
  BY <1>2, <1>7, <1>8, <1>10 DEF k, M

(* The bridge below, with its invariants.                                   *)
FeeBridgeInv == RegistryInv /\ BridgeInv /\ ConservedInv

(* A handler may also end where it has sent nothing.                        *)
LEMMA KeptStep ==
  ASSUME BridgeInv, ConservedInv, Midway(ledger'), BooksBalance(ledger'),
         UNCHANGED <<inflight, nextSeq, remote, donated>>
  PROVE  BridgeInv' /\ ConservedInv'
<1>1. BridgeInv'
  BY DEF BridgeInv, BridgeTypeOK, Midway, BackedBy
<1>2. /\ IsFiniteSet(inflight') /\ PacketsSound' /\ remote' = remote
      /\ \A c, d : Pending(c, d)' = Pending(c, d)
  BY DEF ConservedInv, PacketsSound, Pending, PendingPackets
<1>3. \A c \in Channel, a \in Asset : Voucher(c, a) \in Ibc
  BY TransferAssumption DEF Voucher
<1>4. Conserved'
  BY <1>2, <1>3 DEF ConservedInv, Conserved, Midway
<1>5. EscrowSolvent'
  BY <1>2 DEF ConservedInv, EscrowSolvent, EscrowAddress, Midway
<1> QED
  BY <1>1, <1>2, <1>4, <1>5 DEF ConservedInv

(* The fee takes the whole amount.                                          *)
LEMMA UsedUpBridge ==
  ASSUME FeeBridgeInv, FeeTypeOK, NEW u \in User, NEW c \in Channel, NEW d \in Denom,
         NEW x \in Amount, NEW prio \in BOOLEAN, CanSpend(ledger, u, d, x),
         TransferUsedUp(u, c, d, x, prio)
  PROVE  BridgeInv' /\ ConservedInv'
<1>1. /\ IsAllowed(c, d)
      /\ ledger' = PayFee(ledger, u, c, d, Charge(TermsOf(c, d), prio, x))
      /\ UNCHANGED <<inflight, nextSeq, remote, donated>>
  BY DEF TransferUsedUp
<1>2. BridgeInv /\ ConservedInv /\ BooksBalance(ledger) /\ Midway(ledger)
  BY MidwayAtFirst DEF FeeBridgeInv, ConservedInv
<1>3. x \in Nat
  BY TransferAssumption
<1>4. Midway(ledger') /\ BooksBalance(ledger')
  BY <1>1, <1>2, <1>3, FeePaid
<1> QED
  BY <1>1, <1>2, <1>4, KeptStep

(* A fee is paid and the rest of the coin sent off.                         *)
LEMMA ChargedBridge ==
  ASSUME FeeBridgeInv, FeeTypeOK, NEW u \in User, NEW c \in Channel, NEW d \in Denom,
         NEW x \in Amount, NEW prio \in BOOLEAN, CanSpend(ledger, u, d, x),
         TransferCharged(u, c, d, x, prio)
  PROVE  BridgeInv' /\ ConservedInv'
<1> DEFINE k == Charge(TermsOf(c, d), prio, x)
           L == PayFee(ledger, u, c, d, k)
<1>1. /\ IsAllowed(c, d) /\ k < x /\ UNCHANGED <<remote, donated>>
      /\ ledger' = SendTransfer(L, u, c, d, x - k)
      /\ EmitPacket(u, c, d, x - k)
  BY DEF TransferCharged, PaysAndSends
<1>2. BridgeInv /\ ConservedInv /\ BooksBalance(ledger) /\ Midway(ledger)
  BY MidwayAtFirst DEF FeeBridgeInv, ConservedInv
<1>3. x \in Nat
  BY TransferAssumption
<1>4. Midway(L) /\ BooksBalance(L) /\ k \in Nat /\ CanSpend(L, u, d, x - k)
  BY <1>1, <1>2, <1>3, FeePaid
<1> HIDE DEF k, L
<1>5. x - k \in Nat \ {0}
  BY <1>1, <1>3, <1>4
<1> QED
  BY <1>1, <1>2, <1>4, <1>5, SentStep, SentConserves

(* The native coin's fee is paid, the rest converted, the voucher's fee     *)
(* paid, and what is left of the voucher sent off.                          *)
LEMMA ChargedTwiceBridge ==
  ASSUME FeeBridgeInv, FeeTypeOK, NEW u \in User, NEW c \in Channel, NEW n \in Native,
         NEW x \in Amount, NEW prio \in BOOLEAN, CanSpend(ledger, u, n, x),
         TransferChargedTwice(u, c, n, x, prio)
  PROVE  BridgeInv' /\ ConservedInv'
<1> DEFINE k == Charge(TermsOf(c, n), prio, x)
           i == infoByNative[n]
           v == i.ibc
           L == PayFee(ledger, u, c, n, k)
           M == VoucherReleased(L, u, c, n, x - k)
           j == Charge(TermsOf(c, v), prio, x - k)
           N == PayFee(M, u, c, v, j)
<1>1. /\ IsAllowed(c, n) /\ k < x /\ UNCHANGED <<remote, donated>>
      /\ IsConverted(c, n) /\ VoucherLocked(L, u, c, n, x - k) /\ IsAllowed(c, v)
      /\ \/ /\ j < x - k
            /\ ledger' = SendTransfer(N, u, c, v, x - k - j)
            /\ EmitPacket(u, c, v, x - k - j)
         \/ ledger' = N /\ UNCHANGED <<inflight, nextSeq>>
  BY DEF TransferChargedTwice, PaysAndSends, VoucherAfterFee
<1>2. RegistryInv /\ BridgeInv /\ ConservedInv /\ BooksBalance(ledger) /\ Midway(ledger)
  BY MidwayAtFirst DEF FeeBridgeInv, ConservedInv
<1>3. x \in Nat /\ n \in Denom
  BY TransferAssumption
<1>4. Midway(L) /\ BooksBalance(L) /\ k \in Nat /\ CanSpend(L, u, n, x - k)
  BY <1>1, <1>2, <1>3, FeePaid
<1>5. i \in Catalogue /\ i.channel = c /\ i.native = n /\ infoByNative[i.native] = i
  BY <1>1, <1>2, ConvertedInfo
<1>6. v \in Denom
  BY <1>5, CatalogueCoins
<1> HIDE DEF k, i, L
<1>7. x - k \in Nat
  BY <1>1, <1>3, <1>4
<1>8. Midway(M) /\ CanSpend(M, u, v, x - k)
  BY <1>1, <1>2, <1>4, <1>5, <1>7, MidwayReleased
<1>9. BooksBalance(M)
  BY <1>1, <1>4, <1>5, <1>7, ReleasedLedger DEF Midway
<1> HIDE DEF v, M
<1>10. Midway(N) /\ BooksBalance(N) /\ j \in Nat /\ CanSpend(N, u, v, x - k - j)
  BY <1>1, <1>2, <1>6, <1>7, <1>8, <1>9, FeePaid
<1> HIDE DEF j, N
<1>11. CASE /\ j < x - k
            /\ ledger' = SendTransfer(N, u, c, v, x - k - j)
            /\ EmitPacket(u, c, v, x - k - j)
  <2>1. x - k - j \in Nat \ {0}
    BY <1>7, <1>10, <1>11
  <2> QED
    BY <1>1, <1>2, <1>6, <1>10, <1>11, <2>1, SentStep, SentConserves
<1>12. CASE ledger' = N /\ UNCHANGED <<inflight, nextSeq>>
  BY <1>1, <1>2, <1>10, <1>12, KeptStep
<1> QED
  BY <1>1, <1>11, <1>12

-----------------------------------------------------------------------------
(* Where a fee comes back from, and in what.                                *)
LEMMA FeeStored ==
  ASSUME BridgeInv, FeeTypeOK, SequencesBounded, NEW p \in inflight, NEW L, CanPayFeeBack(L, p)
  PROVE  /\ p \in Packet /\ p.seq \in Sequence
         /\ channelFees[p.channel].feeAddress \in User /\ p.sender \in User
         /\ sequenceFee[p.seq].denom \in Denom /\ sequenceFee[p.seq].amount \in Nat \ {0}
         /\ CanSpend(L, channelFees[p.channel].feeAddress,
                     sequenceFee[p.seq].denom, sequenceFee[p.seq].amount)
<1>1. p \in Packet /\ p.channel \in Channel /\ p.sender \in User /\ p.seq \in Nat
  BY DEF BridgeInv, BridgeTypeOK, Packet
<1>2. p.seq >= 1 /\ p.seq <= MaxSeq[p.channel] /\ MaxSeq[p.channel] \in Nat
  BY <1>1, TransferAssumption DEF SequencesBounded
<1>3. p.seq \in Sequence
  BY <1>1, <1>2 DEF Sequence
<1>4. /\ sequenceFee[p.seq] # NoFee /\ channelFees[p.channel] # NoFee
      /\ CanSpend(L, channelFees[p.channel].feeAddress,
                  sequenceFee[p.seq].denom, sequenceFee[p.seq].amount)
  BY DEF CanPayFeeBack
<1>5. channelFees[p.channel] \in FeeConfig
  BY <1>1, <1>4 DEF FeeTypeOK
<1>6. channelFees[p.channel].feeAddress \in User
  BY <1>5, FeeAssumption DEF FeeConfig
<1>7. sequenceFee[p.seq] \in [denom: Denom, amount: Nat \ {0}]
  BY <1>3, <1>4 DEF FeeTypeOK
<1> QED
  BY <1>1, <1>3, <1>4, <1>6, <1>7

(* A timeout: the amount comes back, and the fee out of the purse of the    *)
(* fee address, or not (OnTimeoutPacket).                                   *)
LEMMA TimeoutBridge ==
  ASSUME FeeBridgeInv, FeeTypeOK, SequencesBounded, NEW p \in inflight, TimeoutWithFee(p)
  PROVE  BridgeInv' /\ ConservedInv'
<1> DEFINE R == Refunded(p)
           a == channelFees[p.channel].feeAddress
           d == sequenceFee[p.seq].denom
           y == sequenceFee[p.seq].amount
<1>1. /\ p.status # "ok" /\ CanRefund(p) /\ inflight' = inflight \ {p}
      /\ UNCHANGED <<nextSeq, remote, donated>>
      /\ (CanPayFeeBack(R, p) /\ ledger' = SendCoins(R, a, p.sender, d, y)) \/ ledger' = R
  BY DEF TimeoutWithFee, PayFeeBack, FeePaidBack, Refunded
<1>2. RegistryInv /\ BridgeInv /\ ConservedInv /\ BooksBalance(ledger) /\ ledger \in Ledger
      /\ p \in Packet /\ donated \in [Ibc -> Nat]
  BY DEF FeeBridgeInv, ConservedInv, BridgeInv, BridgeTypeOK
<1>3. R \in Ledger /\ BackedBy(R, donated)
  BY <1>1, <1>2, RefundBacked
<1>4. BooksBalance(R)
  BY <1>1, <1>2, RefundLedger DEF CanRefund, Refunded
<1>5. /\ ledger' \in Ledger /\ BackedBy(ledger', donated)
      /\ BooksBalance(ledger') /\ SameEscrows(ledger', R)
  <2>1. CASE ledger' = R
    BY <1>3, <1>4, <2>1 DEF SameEscrows
  <2>2. CASE CanPayFeeBack(R, p) /\ ledger' = SendCoins(R, a, p.sender, d, y)
    <3>1. a \in User /\ p.sender \in User /\ d \in Denom /\ y \in Nat /\ CanSpend(R, a, d, y)
      BY <1>2, <2>2, FeeStored
    <3>2. /\ a \in Account /\ p.sender \in Account /\ Channel \subseteq Account
          /\ a \notin Channel /\ p.sender \notin Channel
      BY <3>1, TransferAssumption
    <3>3. \A e \in Catalogue :
            /\ e.channel # a /\ e.channel # p.sender
            /\ donated[e.ibc] = donated[e.ibc] + 0 /\ donated[e.ibc] \in Nat
      BY <1>2, <3>2, CatalogueCoins
    <3> HIDE DEF R, a, d, y
    <3>4. ledger' \in Ledger /\ BackedBy(ledger', donated)
      BY <1>2, <1>3, <2>2, <3>1, <3>2, <3>3, BackedBySend
    <3>5. BooksBalance(ledger')
      BY <1>3, <1>4, <2>2, <3>1, <3>2, SendKeepsBooks
    <3>6. /\ ledger'.supply = R.supply
          /\ \A b \in Account, f \in Denom :
               ledger'.bal[b][f] = R.bal[b][f] - (IF b = a /\ f = d THEN y ELSE 0)
                                               + (IF b = p.sender /\ f = d THEN y ELSE 0)
      BY <1>3, <2>2, <3>1, <3>2, SendCoinsEffect
    <3>7. \A b \in Channel, f \in Denom : ledger'.bal[b][f] = R.bal[b][f]
      <4>1. \A b \in Channel, f \in Denom : R.bal[b][f] \in Nat
        BY <1>3, <3>2 DEF Ledger
      <4> QED
        BY <3>2, <3>6, <4>1
    <3> QED
      BY <3>4, <3>5, <3>6, <3>7 DEF SameEscrows
  <2> QED
    BY <1>1, <2>1, <2>2
<1>6. inflight' \subseteq inflight
  BY <1>1
<1>7. BridgeInv'
  BY <1>1, <1>2, <1>5, <1>6 DEF BridgeInv, BridgeTypeOK, BackedBy
<1>8. ConservedInv'
  BY <1>1, <1>2, <1>5, RefundSettles
<1> QED
  BY <1>7, <1>8

(* Every step of the stack with fees keeps the bridge's invariants.         *)
LEMMA FeeBridgeStep ==
  ASSUME FeeBridgeInv, FeeTypeOK, SequencesBounded, [FeeNext]_allVars
  PROVE  FeeBridgeInv'
<1>1. RegistryInv /\ BridgeInv /\ ConservedInv
  BY DEF FeeBridgeInv
<1>2. RegistryInv'
  <2>1. [RegistryNext]_registryVars
    BY DEF FeeNext, RestartForgetsFees, FeeGovernance, RegistryNext, allVars, vars
  <2> QED
    BY <1>1, <2>1, RegistryStepInv
<1>3. CASE UNCHANGED bridgeVars
  <2>1. BridgeInv'
    BY <1>1, <1>3 DEF bridgeVars, BridgeInv, BridgeTypeOK, BackedBy
  <2>2. ConservedInv'
    BY <1>1, <1>3 DEF bridgeVars, ConservedInv, PacketsSound, Conserved, EscrowSolvent, Pending,
              PendingPackets
  <2> QED
    BY <1>2, <2>1, <2>2 DEF FeeBridgeInv
<1>4. CASE FeeTransfer
  <2>1. PICK u \in User, d \in Denom, x \in Amount, c \in Channel :
          /\ CanSpend(ledger, u, d, x)
          /\ \/ TransferFree(u, c, d, x)
             \/ \E prio \in BOOLEAN :
                  \/ TransferUsedUp(u, c, d, x, prio)
                  \/ TransferCharged(u, c, d, x, prio)
                  \/ d \in Native /\ TransferChargedTwice(u, c, d, x, prio)
    BY <1>4 DEF FeeTransfer
  <2>2. CASE TransferFree(u, c, d, x)
    <3>1. CASE TransferPassedOn(u, c, d, x)
      BY <1>1, <1>2, <3>1, TransferPassedOnStep, PassedOnConserves DEF FeeBridgeInv
    <3>2. CASE d \in Native /\ TransferConverted(u, c, d, x)
      BY <1>1, <1>2, <3>2, TransferConvertedStep, ConvertedConserves DEF FeeBridgeInv
    <3> QED
      BY <2>2, <3>1, <3>2 DEF TransferFree
  <2>3. ASSUME NEW prio \in BOOLEAN, TransferUsedUp(u, c, d, x, prio) PROVE FeeBridgeInv'
    BY <1>2, <2>1, <2>3, UsedUpBridge DEF FeeBridgeInv
  <2>4. ASSUME NEW prio \in BOOLEAN, TransferCharged(u, c, d, x, prio) PROVE FeeBridgeInv'
    BY <1>2, <2>1, <2>4, ChargedBridge DEF FeeBridgeInv
  <2>5. ASSUME NEW prio \in BOOLEAN, d \in Native, TransferChargedTwice(u, c, d, x, prio)
        PROVE  FeeBridgeInv'
    BY <1>2, <2>1, <2>5, ChargedTwiceBridge DEF FeeBridgeInv
  <2> QED
    BY <2>1, <2>2, <2>3, <2>4, <2>5
<1>5. CASE FeePacketStep
  <2>1. PICK p \in inflight :
          TimeoutWithFee(p) \/ AcknowledgementWithFee(p) \/ (Deliver(p) /\ UNCHANGED feeVars)
    BY <1>5 DEF FeePacketStep
  <2>2. CASE TimeoutWithFee(p)
    BY <1>2, <2>2, TimeoutBridge DEF FeeBridgeInv
  <2>3. CASE p.status # "ok" /\ Refund(p)
    BY <1>1, <1>2, <2>3, RefundStep, RefundConserves DEF FeeBridgeInv
  <2>4. CASE /\ p.status = "ok" /\ inflight' = inflight \ {p}
             /\ UNCHANGED <<ledger, nextSeq, remote, donated>>
    <3>1. BridgeInv'
      BY <1>1, <2>4 DEF BridgeInv, BridgeTypeOK, BackedBy
    <3> QED
      BY <1>1, <1>2, <2>4, <3>1, AcknowledgedConserves DEF FeeBridgeInv
  <2>5. CASE Deliver(p)
    BY <1>1, <1>2, <2>5, DeliverStep, DeliverConserves DEF FeeBridgeInv
  <2> QED
    BY <2>1, <2>2, <2>3, <2>4, <2>5 DEF AcknowledgementWithFee, OnAcknowledgementPacket
<1>6. CASE OtherStep
  <2>1. User \subseteq Account
    BY TransferAssumption
  <2>2. ASSUME NEW c \in Channel, NEW a \in Asset, NEW x \in Amount, NEW to \in User,
               OnRecvAsset(c, a, x, to)
        PROVE  FeeBridgeInv'
    BY <1>1, <1>2, <2>1, <2>2, OnRecvAssetStep, RecvAssetConserves DEF FeeBridgeInv
  <2>3. ASSUME NEW c \in Channel, NEW d \in Denom, NEW x \in Amount, NEW to \in User,
               OnRecvReturned(c, d, x, to)
        PROVE  FeeBridgeInv'
    BY <1>1, <1>2, <2>1, <2>3, OnRecvReturnedStep, RecvReturnedConserves DEF FeeBridgeInv
  <2>4. ASSUME NEW u \in User, NEW d \in Denom, NEW x \in Amount, NEW to \in User,
               BankSend(u, to, d, x)
        PROVE  FeeBridgeInv'
    BY <1>1, <1>2, <2>1, <2>4, BankSendStep, BankSendConserves DEF FeeBridgeInv
  <2> QED
    BY <1>6, <2>2, <2>3, <2>4 DEF OtherStep
<1>7. FeeTransfer \/ FeePacketStep \/ OtherStep \/ UNCHANGED bridgeVars
  BY DEF FeeNext, RestartForgetsFees, FeeGovernance, allVars, vars
<1> QED
  BY <1>3, <1>4, <1>5, <1>6, <1>7

-----------------------------------------------------------------------------
(* What the store may keep under a sequence, and a history of a packet.     *)
FeeOrNone == [denom: Denom, amount: Nat \ {0}] \cup {NoFee}

(* The types of the store and of its histories.                             *)
FeeBooksOK ==
  /\ sequenceFee \in [Sequence -> FeeOrNone]
  /\ promised \in [Sequence -> [Denom -> Nat]]
  /\ ownFee \in [Channel -> [Sequence -> FeeOrNone]]

(* What the keeper has to store for what it took.                           *)
LEMMA FeeForType ==
  ASSUME NEW d \in Denom, NEW k \in Nat
  PROVE  /\ FeeFor(d, k) \in FeeOrNone
         /\ FeeFor(d, k) # NoFee => FeeFor(d, k).denom = d
         /\ k # 0 => Coin(d, k) \in FeeOrNone /\ Coin(d, k).denom = d
BY DEF FeeFor, Coin, FeeOrNone

(* Storing a fee covers it (SetSequenceFee).                                *)
LEMMA StoreFee ==
  ASSUME FeeBooksOK, PromisesCovered, NEW s \in Sequence, NEW fee \in FeeOrNone,
         SetSequenceFee(s, fee)
  PROVE  /\ sequenceFee' \in [Sequence -> FeeOrNone]
         /\ promised' \in [Sequence -> [Denom -> Nat]]
         /\ PromisesCovered'
         /\ \A r \in Sequence : r # s => sequenceFee'[r] = sequenceFee[r]
         /\ fee # NoFee => sequenceFee'[s] = fee
<1>1. CASE fee = NoFee
  BY <1>1 DEF SetSequenceFee, FeeBooksOK, PromisesCovered
<1>2. CASE fee # NoFee
  <2> DEFINE d == fee.denom
             y == fee.amount
  <2>1. d \in Denom /\ y \in Nat \ {0}
    BY <1>2 DEF FeeOrNone
  <2>2. /\ sequenceFee' = [sequenceFee EXCEPT ![s] = fee]
        /\ promised' = [promised EXCEPT ![s][d] = @ + y]
    BY <1>2 DEF SetSequenceFee
  <2> HIDE DEF d, y
  <2>3. promised[s] \in [Denom -> Nat] /\ promised[s][d] \in Nat
    BY <2>1 DEF FeeBooksOK
  <2>4. promised' \in [Sequence -> [Denom -> Nat]]
    <3>1. [promised[s] EXCEPT ![d] = @ + y] \in [Denom -> Nat]
      BY <2>1, <2>3
    <3> QED
      BY <2>2, <3>1 DEF FeeBooksOK
  <2>5. sequenceFee' \in [Sequence -> FeeOrNone]
    BY <2>2 DEF FeeBooksOK
  <2>6. \A r \in Sequence : r # s => sequenceFee'[r] = sequenceFee[r] /\ promised'[r] = promised[r]
    BY <2>2 DEF FeeBooksOK
  <2>7. sequenceFee'[s] = fee /\ promised'[s][d] = promised[s][d] + y
    BY <2>1, <2>2, <2>3 DEF FeeBooksOK
  <2>8. ASSUME NEW r \in Sequence, sequenceFee'[r] # NoFee
        PROVE  sequenceFee'[r].amount <= promised'[r][sequenceFee'[r].denom]
    <3>1. CASE r = s
      BY <2>1, <2>3, <2>7, <3>1 DEF d, y
    <3>2. CASE r # s
      BY <2>6, <2>8, <3>2 DEF PromisesCovered
    <3> QED
      BY <3>1, <3>2
  <2> QED
    BY <2>4, <2>5, <2>6, <2>7, <2>8 DEF PromisesCovered
<1> QED
  BY <1>1, <1>2

(* Paying back what is under a sequence, once (PayFeeBack).                 *)
LEMMA PaidBack ==
  ASSUME FeeBooksOK, PromisesCovered, NEW p, p.seq \in Sequence, sequenceFee[p.seq] # NoFee,
         NoLongerPromised(p), sequenceFee' = [sequenceFee EXCEPT ![p.seq] = NoFee]
  PROVE  /\ sequenceFee' \in [Sequence -> FeeOrNone]
         /\ promised' \in [Sequence -> [Denom -> Nat]]
         /\ PromisesCovered'
<1> DEFINE s == p.seq
           d == sequenceFee[s].denom
           y == sequenceFee[s].amount
<1>1. s \in Sequence /\ d \in Denom /\ y \in Nat \ {0}
  BY DEF FeeBooksOK, FeeOrNone
<1>2. /\ sequenceFee' = [sequenceFee EXCEPT ![s] = NoFee]
      /\ promised' = [promised EXCEPT ![s][d] = @ - y]
  BY DEF NoLongerPromised
<1>3. y <= promised[s][d]
  BY DEF PromisesCovered
<1> HIDE DEF s, d, y
<1>4. promised[s] \in [Denom -> Nat] /\ promised[s][d] \in Nat /\ promised[s][d] - y \in Nat
  BY <1>1, <1>3 DEF FeeBooksOK
<1>5. promised' \in [Sequence -> [Denom -> Nat]]
  <2>1. [promised[s] EXCEPT ![d] = @ - y] \in [Denom -> Nat]
    BY <1>1, <1>4
  <2> QED
    BY <1>1, <1>2, <2>1 DEF FeeBooksOK
<1>6. sequenceFee' \in [Sequence -> FeeOrNone]
  BY <1>1, <1>2 DEF FeeBooksOK, FeeOrNone
<1>7. \A r \in Sequence : r # s => sequenceFee'[r] = sequenceFee[r] /\ promised'[r] = promised[r]
  BY <1>1, <1>2 DEF FeeBooksOK
<1>8. sequenceFee'[s] = NoFee
  BY <1>1, <1>2 DEF FeeBooksOK
<1> QED
  BY <1>5, <1>6, <1>7, <1>8 DEF PromisesCovered

(* Forgetting what is under a sequence (OnAcknowledgementPacket).           *)
LEMMA Forgotten ==
  ASSUME FeeBooksOK, PromisesCovered, NEW s \in Sequence,
         sequenceFee' = [sequenceFee EXCEPT ![s] = NoFee],
         promised' = [promised EXCEPT ![s] = NoPromise]
  PROVE  /\ sequenceFee' \in [Sequence -> FeeOrNone]
         /\ promised' \in [Sequence -> [Denom -> Nat]]
         /\ PromisesCovered'
<1>1. NoPromise \in [Denom -> Nat]
  BY DEF NoPromise
<1>2. /\ sequenceFee' \in [Sequence -> FeeOrNone]
      /\ promised' \in [Sequence -> [Denom -> Nat]]
  BY <1>1 DEF FeeBooksOK, FeeOrNone
<1>3. \A r \in Sequence : r # s => sequenceFee'[r] = sequenceFee[r] /\ promised'[r] = promised[r]
  BY DEF FeeBooksOK
<1>4. sequenceFee'[s] = NoFee
  BY DEF FeeBooksOK
<1> QED
  BY <1>2, <1>3, <1>4 DEF PromisesCovered
-----------------------------------------------------------------------------
(* The invariants of the store and its histories.                           *)
FeeStoreInv == FeeBooksOK /\ PromisesCovered /\ SequencesBounded /\ OwnFeesKept

(* A send moves its channel's sequence on, stores its last fee there, and   *)
(* leaves the packets of other channels that had the place without it.      *)
LEMMA SentStore ==
  ASSUME PacketsSound, FeeStoreInv, NEW u \in User, NEW c \in Channel, NEW d \in Denom, NEW x,
         EmitPacket(u, c, d, x), NEW fee \in FeeOrNone,
         fee # NoFee => fee.denom = d \/ \E e \in Catalogue : e.ibc = d /\ e.native = fee.denom,
         Sent(c, fee)
  PROVE  FeeStoreInv'
<1> DEFINE s == nextSeq[c]
           q == [seq |-> nextSeq[c], channel |-> c, denom |-> d, amount |-> x,
                 sender |-> u, status |-> "sent"]
<1>1. q.seq = s /\ q.channel = c /\ q.denom = d
  OBVIOUS
<1>2. /\ s <= MaxSeq[c] /\ nextSeq' = [nextSeq EXCEPT ![c] = @ + 1]
      /\ inflight' = inflight \cup {q}
  BY DEF EmitPacket
<1>3. s \in Nat /\ s >= 1 /\ MaxSeq[c] \in Nat /\ \A b \in Channel : nextSeq[b] \in Nat
  BY TransferAssumption DEF FeeStoreInv, SequencesBounded, PacketsSound
<1> HIDE DEF q
<1>4. s \in Sequence
  BY <1>2, <1>3 DEF Sequence
<1>5. /\ nextSeq'[c] = s + 1 /\ \A b \in Channel : b # c => nextSeq'[b] = nextSeq[b]
      /\ \A b \in Channel : nextSeq'[b] >= nextSeq[b]
  BY <1>2, <1>3 DEF PacketsSound
<1>6. FeeBooksOK /\ PromisesCovered /\ SequencesBounded /\ OwnFeesKept
  BY DEF FeeStoreInv
<1>7. SetSequenceFee(s, fee) /\ ownFee' = [ownFee EXCEPT ![c][s] = fee]
  BY DEF Sent
<1>8. /\ sequenceFee' \in [Sequence -> FeeOrNone]
      /\ promised' \in [Sequence -> [Denom -> Nat]]
      /\ PromisesCovered'
      /\ \A r \in Sequence : r # s => sequenceFee'[r] = sequenceFee[r]
      /\ fee # NoFee => sequenceFee'[s] = fee
  BY <1>4, <1>6, <1>7, StoreFee
<1> HIDE DEF s
<1>9. ownFee' \in [Channel -> [Sequence -> FeeOrNone]]
  <2>1. [ownFee[c] EXCEPT ![s] = fee] \in [Sequence -> FeeOrNone]
    BY <1>4, <1>6 DEF FeeBooksOK
  <2> QED
    BY <1>6, <1>7, <2>1 DEF FeeBooksOK
<1>10. \A b \in Channel, r \in Sequence :
         ownFee'[b][r] = IF b = c /\ r = s THEN fee ELSE ownFee[b][r]
  BY <1>4, <1>6, <1>7 DEF FeeBooksOK
<1>11. SequencesBounded'
  BY <1>1, <1>2, <1>3, <1>5, <1>6 DEF SequencesBounded
<1>12. ASSUME NEW p \in inflight', SequenceUnshared(p)', ownFee'[p.channel][p.seq] # NoFee
       PROVE  /\ sequenceFee'[p.seq] = ownFee'[p.channel][p.seq]
              /\ FeeOf(p, ownFee'[p.channel][p.seq].denom)
  <2>1. CASE p = q
    BY <1>1, <1>4, <1>8, <1>10, <1>12, <2>1 DEF FeeOf
  <2>2. CASE p \in inflight
    <3>1. /\ p.channel \in Channel /\ p.seq \in Nat /\ p.seq < nextSeq[p.channel]
          /\ p.seq >= 1 /\ p.seq <= MaxSeq[p.channel] /\ MaxSeq[p.channel] \in Nat
      BY <1>6, <2>2, TransferAssumption DEF PacketsSound, SequencesBounded
    <3>2. p.seq \in Sequence
      BY <3>1 DEF Sequence
    <3>3. p.seq # s
      <4>1. CASE p.channel = c
        BY <1>3, <3>1, <4>1 DEF s
      <4>2. CASE p.channel # c
        <5>1. nextSeq'[c] <= p.seq
          BY <1>12, <4>2 DEF SequenceUnshared
        <5> QED
          BY <1>3, <1>5, <3>1, <5>1
      <4> QED
        BY <4>1, <4>2
    <3>4. ownFee'[p.channel][p.seq] = ownFee[p.channel][p.seq]
          /\ sequenceFee'[p.seq] = sequenceFee[p.seq]
      BY <1>8, <1>10, <3>1, <3>2, <3>3
    <3>5. SequenceUnshared(p)
      <4>1. ASSUME NEW b \in Channel, b # p.channel PROVE nextSeq[b] <= p.seq
        <5>1. nextSeq'[b] <= p.seq
          BY <1>12, <4>1 DEF SequenceUnshared
        <5>2. nextSeq'[b] = nextSeq[b] \/ nextSeq'[b] = nextSeq[b] + 1
          BY <1>5, s = nextSeq[c] DEF s
        <5> QED
          BY <1>3, <3>1, <5>1, <5>2
      <4> QED
        BY <4>1 DEF SequenceUnshared
    <3> QED
      BY <1>6, <1>12, <2>2, <3>4, <3>5 DEF OwnFeesKept
  <2> QED
    BY <1>2, <2>1, <2>2
<1>13. ASSUME NEW b \in Channel, NEW r \in Sequence, r >= nextSeq'[b] PROVE ownFee'[b][r] = NoFee
  <2>1. r \in Nat
    BY TransferAssumption DEF Sequence
  <2>2. r >= nextSeq[b] /\ ~(b = c /\ r = s)
    BY <1>3, <1>5, <1>13, <2>1 DEF s
  <2> QED
    BY <1>6, <1>10, <2>2 DEF OwnFeesKept
<1>14. OwnFeesKept'
  BY <1>12, <1>13 DEF OwnFeesKept, FeeOf
<1> QED
  BY <1>8, <1>9, <1>11, <1>14 DEF FeeStoreInv, FeeBooksOK

(* A send without fees leaves the store alone; its own place in the history *)
(* is empty.                                                                *)
LEMMA FreeStore ==
  ASSUME PacketsSound, FeeStoreInv, NEW u \in User, NEW c \in Channel, NEW d \in Denom, NEW x,
         EmitPacket(u, c, d, x), UNCHANGED feeVars
  PROVE  FeeStoreInv'
<1>1. NoFee \in FeeOrNone
  BY DEF FeeOrNone
<1>2. nextSeq[c] \in Sequence
  <2>1. /\ nextSeq[c] \in Nat /\ nextSeq[c] >= 1 /\ MaxSeq[c] \in Nat
        /\ nextSeq[c] <= MaxSeq[c]
    BY TransferAssumption DEF FeeStoreInv, SequencesBounded, PacketsSound, EmitPacket
  <2> QED
    BY <2>1 DEF Sequence
<1>3. ownFee[c][nextSeq[c]] = NoFee
  <2>1. nextSeq[c] \in Nat
    BY DEF PacketsSound
  <2> QED
    BY <1>2, <2>1 DEF FeeStoreInv, OwnFeesKept
<1>4. ownFee' = [ownFee EXCEPT ![c][nextSeq[c]] = NoFee]
  <2>1. ownFee \in [Channel -> [Sequence -> FeeOrNone]]
    BY DEF FeeStoreInv, FeeBooksOK
  <2>2. [ownFee[c] EXCEPT ![nextSeq[c]] = NoFee] = ownFee[c]
    BY <1>2, <1>3, <2>1
  <2>3. ownFee' = ownFee
    BY DEF feeVars
  <2> QED
    BY <2>1, <2>2, <2>3
<1>5. Sent(c, NoFee)
  BY <1>4 DEF Sent, SetSequenceFee, feeVars
<1> QED
  BY <1>1, <1>5, SentStore

(* A packet leaves: whatever its step did with the fee under its sequence,  *)
(* no other packet had a fee of its own there.                              *)
LEMMA SettledStore ==
  ASSUME PacketsSound, FeeStoreInv, NEW p \in inflight, inflight' = inflight \ {p},
         UNCHANGED nextSeq, OwnFeeDone(p),
         sequenceFee' \in [Sequence -> FeeOrNone],
         promised' \in [Sequence -> [Denom -> Nat]],
         PromisesCovered',
         \A r \in Sequence : r # p.seq => sequenceFee'[r] = sequenceFee[r]
  PROVE  FeeStoreInv'
<1>1. FeeBooksOK /\ SequencesBounded /\ OwnFeesKept
  BY DEF FeeStoreInv
<1>2. ownFee' = [ownFee EXCEPT ![p.channel][p.seq] = NoFee]
  BY DEF OwnFeeDone
<1>3. \A q \in inflight : /\ q.channel \in Channel /\ q.seq \in Nat /\ q.seq \in Sequence
                          /\ q.seq < nextSeq[q.channel]
  <2>1. \A q \in inflight : /\ q.channel \in Channel /\ q.seq \in Nat
                            /\ q.seq < nextSeq[q.channel]
                            /\ q.seq >= 1 /\ q.seq <= MaxSeq[q.channel]
    BY <1>1 DEF PacketsSound, SequencesBounded
  <2>2. \A c \in Channel : MaxSeq[c] \in Nat
    BY TransferAssumption
  <2> QED
    BY <2>1, <2>2 DEF Sequence
<1>4. ownFee' \in [Channel -> [Sequence -> FeeOrNone]]
  <2>1. [ownFee[p.channel] EXCEPT ![p.seq] = NoFee] \in [Sequence -> FeeOrNone]
    BY <1>1, <1>3 DEF FeeBooksOK, FeeOrNone
  <2> QED
    BY <1>1, <1>2, <2>1 DEF FeeBooksOK
<1>5. \A b \in Channel, r \in Sequence :
        ownFee'[b][r] = IF b = p.channel /\ r = p.seq THEN NoFee ELSE ownFee[b][r]
  BY <1>1, <1>2, <1>3 DEF FeeBooksOK
<1>6. SequencesBounded'
  BY <1>1 DEF SequencesBounded
<1>7. ASSUME NEW q \in inflight', SequenceUnshared(q)', ownFee'[q.channel][q.seq] # NoFee
      PROVE  /\ sequenceFee'[q.seq] = ownFee'[q.channel][q.seq]
             /\ FeeOf(q, ownFee'[q.channel][q.seq].denom)
  <2>1. q \in inflight /\ SequenceUnshared(q)
    BY <1>7 DEF SequenceUnshared
  <2>2. ~(q.channel = p.channel /\ q.seq = p.seq)
    BY <1>3, <1>5, <1>7, <2>1
  <2>3. q.seq # p.seq
    <3>1. ASSUME q.seq = p.seq PROVE FALSE
      <4>1. p.channel # q.channel
        BY <2>2, <3>1
      <4>2. nextSeq[p.channel] <= q.seq
        BY <1>3, <2>1, <4>1 DEF SequenceUnshared
      <4>3. nextSeq[p.channel] \in Nat
        BY <1>3 DEF PacketsSound
      <4> QED
        BY <1>3, <2>1, <3>1, <4>2, <4>3
    <3> QED
      BY <3>1
  <2>4. ownFee'[q.channel][q.seq] = ownFee[q.channel][q.seq] /\ sequenceFee'[q.seq] = sequenceFee[q.seq]
    BY <1>3, <1>5, <2>1, <2>3
  <2> QED
    BY <1>1, <1>7, <2>1, <2>4 DEF OwnFeesKept
<1>8. \A b \in Channel, r \in Sequence : r >= nextSeq'[b] => ownFee'[b][r] = NoFee
  BY <1>1, <1>5 DEF OwnFeesKept
<1>9. OwnFeesKept'
  BY <1>7, <1>8 DEF OwnFeesKept, FeeOf
<1> QED
  BY <1>4, <1>6, <1>9 DEF FeeStoreInv, FeeBooksOK

(* A timeout, whether or not the fee could be paid back.                    *)
LEMMA TimeoutStore ==
  ASSUME PacketsSound, FeeStoreInv, NEW p \in inflight, p.seq \in Sequence, TimeoutWithFee(p)
  PROVE  FeeStoreInv'
<1>1. FeeBooksOK /\ PromisesCovered
  BY DEF FeeStoreInv
<1>2. inflight' = inflight \ {p} /\ UNCHANGED nextSeq /\ OwnFeeDone(p)
  BY DEF TimeoutWithFee
<1>3. CASE UNCHANGED <<sequenceFee, promised>>
  BY <1>1, <1>2, <1>3, SettledStore DEF FeeBooksOK, PromisesCovered
<1>4. CASE /\ sequenceFee[p.seq] # NoFee /\ NoLongerPromised(p)
           /\ sequenceFee' = [sequenceFee EXCEPT ![p.seq] = NoFee]
  <2>1. /\ sequenceFee' \in [Sequence -> FeeOrNone]
        /\ promised' \in [Sequence -> [Denom -> Nat]]
        /\ PromisesCovered'
    BY <1>1, <1>4, PaidBack
  <2>2. \A r \in Sequence : r # p.seq => sequenceFee'[r] = sequenceFee[r]
    BY <1>1, <1>4 DEF FeeBooksOK
  <2> QED
    BY <1>2, <2>1, <2>2, SettledStore
<1> QED
  BY <1>3, <1>4 DEF TimeoutWithFee, CanPayFeeBack, PayFeeBack

(* An acknowledgement, of either kind.                                      *)
LEMMA AcknowledgedStore ==
  ASSUME PacketsSound, FeeStoreInv, NEW p \in inflight, p.seq \in Sequence,
         AcknowledgementWithFee(p)
  PROVE  FeeStoreInv'
<1>1. FeeBooksOK /\ PromisesCovered
  BY DEF FeeStoreInv
<1>2. /\ inflight' = inflight \ {p} /\ UNCHANGED nextSeq /\ OwnFeeDone(p)
      /\ sequenceFee' = [sequenceFee EXCEPT ![p.seq] = NoFee]
      /\ promised' = [promised EXCEPT ![p.seq] = NoPromise]
  BY DEF AcknowledgementWithFee, OnAcknowledgementPacket, Refund, FeeForgotten
<1>3. /\ sequenceFee' \in [Sequence -> FeeOrNone]
      /\ promised' \in [Sequence -> [Denom -> Nat]]
      /\ PromisesCovered'
  BY <1>1, <1>2, Forgotten
<1>4. \A r \in Sequence : r # p.seq => sequenceFee'[r] = sequenceFee[r]
  BY <1>1, <1>2 DEF FeeBooksOK
<1> QED
  BY <1>2, <1>3, <1>4, SettledStore

(* A delivery leaves packets where they are.                                *)
LEMMA DeliveredStore ==
  ASSUME PacketsSound, FeeStoreInv, NEW p \in inflight, p \in Packet, Deliver(p),
         UNCHANGED feeVars
  PROVE  FeeStoreInv'
<1>1. PICK st : inflight' = (inflight \ {p}) \cup {[p EXCEPT !.status = st]}
  BY DEF Deliver
<1> DEFINE q == [p EXCEPT !.status = st]
<1>2. q.channel = p.channel /\ q.seq = p.seq /\ q.denom = p.denom
  BY DEF Packet
<1>3. nextSeq' = nextSeq /\ sequenceFee' = sequenceFee /\ promised' = promised /\ ownFee' = ownFee
  BY DEF Deliver, feeVars
<1>4. inflight' = (inflight \ {p}) \cup {q}
  BY <1>1
<1> HIDE DEF q
<1>5. SequencesBounded'
  BY <1>2, <1>3, <1>4 DEF FeeStoreInv, SequencesBounded
<1>6. ASSUME NEW r \in inflight', SequenceUnshared(r)', ownFee'[r.channel][r.seq] # NoFee
      PROVE  /\ sequenceFee'[r.seq] = ownFee'[r.channel][r.seq]
             /\ FeeOf(r, ownFee'[r.channel][r.seq].denom)
  <2>1. PICK s \in inflight : s.channel = r.channel /\ s.seq = r.seq /\ s.denom = r.denom
    BY <1>2, <1>4
  <2>2. SequenceUnshared(s)
    BY <1>3, <1>6, <2>1 DEF SequenceUnshared
  <2>3. ownFee[s.channel][s.seq] # NoFee
    BY <1>3, <1>6, <2>1
  <2>4. sequenceFee[s.seq] = ownFee[s.channel][s.seq] /\ FeeOf(s, ownFee[s.channel][s.seq].denom)
    BY <2>1, <2>2, <2>3 DEF FeeStoreInv, OwnFeesKept
  <2> QED
    BY <1>3, <2>1, <2>4 DEF FeeOf
<1>7. OwnFeesKept'
  BY <1>3, <1>6 DEF FeeStoreInv, OwnFeesKept, FeeOf
<1> QED
  BY <1>3, <1>5, <1>7 DEF FeeStoreInv, FeeBooksOK, PromisesCovered

(* A second run of the keeper that has nothing left to send stores the      *)
(* first run's fee under no sequence at all.                                *)
LEMMA NothingSentStore ==
  ASSUME PacketsSound, FeeStoreInv, NEW fee \in FeeOrNone, SetSequenceFee(0, fee),
         UNCHANGED <<inflight, nextSeq, ownFee>>
  PROVE  FeeStoreInv'
<1>1. 0 \in Sequence
  BY DEF Sequence
<1>2. /\ sequenceFee' \in [Sequence -> FeeOrNone]
      /\ promised' \in [Sequence -> [Denom -> Nat]]
      /\ PromisesCovered'
      /\ \A r \in Sequence : r # 0 => sequenceFee'[r] = sequenceFee[r]
  BY <1>1, StoreFee DEF FeeStoreInv
<1>3. \A p \in inflight : p.seq \in Sequence /\ p.seq # 0
  <2>1. \A p \in inflight : /\ p.channel \in Channel /\ p.seq \in Nat
                            /\ p.seq >= 1 /\ p.seq <= MaxSeq[p.channel]
    BY DEF PacketsSound, FeeStoreInv, SequencesBounded
  <2>2. \A c \in Channel : MaxSeq[c] \in Nat
    BY TransferAssumption
  <2> QED
    BY <2>1, <2>2 DEF Sequence
<1>4. SequencesBounded'
  BY DEF FeeStoreInv, SequencesBounded
<1>5. \A p : SequenceUnshared(p)' <=> SequenceUnshared(p)
  BY DEF SequenceUnshared
<1>6. OwnFeesKept'
  BY <1>2, <1>3, <1>5 DEF FeeStoreInv, OwnFeesKept, FeeOf
<1> QED
  BY <1>2, <1>4, <1>6 DEF FeeStoreInv, FeeBooksOK

(* A step that leaves packets, store and history alone.                     *)
LEMMA SameStore ==
  ASSUME FeeStoreInv, UNCHANGED <<inflight, nextSeq, sequenceFee, promised, ownFee>>
  PROVE  FeeStoreInv'
BY DEF FeeStoreInv, FeeBooksOK, PromisesCovered, SequencesBounded, OwnFeesKept, SequenceUnshared,
       FeeOf

(* An empty store owes nobody anything.                                     *)
LEMMA EmptyStore ==
  ASSUME SequencesBounded', sequenceFee' = [s \in Sequence |-> NoFee],
         promised' = [s \in Sequence |-> NoPromise],
         ownFee' = [c \in Channel |-> [s \in Sequence |-> NoFee]],
         nextSeq' \in [Channel -> Nat], inflight' \subseteq Packet
  PROVE  FeeStoreInv'
<1>1. FeeBooksOK' /\ PromisesCovered'
  BY DEF FeeBooksOK, FeeOrNone, NoPromise, PromisesCovered
<1>2. \A p \in inflight' : p.channel \in Channel /\ p.seq \in Nat /\ p.seq \in Sequence
  <2>1. \A p \in inflight' : p.channel \in Channel /\ p.seq \in Nat
                            /\ p.seq >= 1 /\ p.seq <= MaxSeq[p.channel]
    BY DEF Packet, SequencesBounded
  <2>2. \A c \in Channel : MaxSeq[c] \in Nat
    BY TransferAssumption
  <2> QED
    BY <2>1, <2>2 DEF Sequence
<1>3. OwnFeesKept'
  BY <1>2 DEF OwnFeesKept
<1> QED
  BY <1>1, <1>3 DEF FeeStoreInv

-----------------------------------------------------------------------------
(* Every step keeps the store and its histories.                            *)
LEMMA FeeStoreStep ==
  ASSUME FeeBridgeInv, FeeTypeOK, FeeStoreInv, [FeeNext]_allVars
  PROVE  FeeStoreInv'
<1>1. PacketsSound /\ BridgeInv /\ RegistryInv
  BY DEF FeeBridgeInv, ConservedInv
<1>2. CASE FeeTransfer
  <2>1. PICK u \in User, d \in Denom, x \in Amount, c \in Channel :
          \/ TransferFree(u, c, d, x)
          \/ \E prio \in BOOLEAN :
               \/ TransferUsedUp(u, c, d, x, prio)
               \/ TransferCharged(u, c, d, x, prio)
               \/ d \in Native /\ TransferChargedTwice(u, c, d, x, prio)
    BY <1>2 DEF FeeTransfer
  <2>2. x \in Nat
    BY TransferAssumption
  <2>3. CASE TransferFree(u, c, d, x)
    <3>1. CASE TransferPassedOn(u, c, d, x)
      BY <1>1, <2>3, <3>1, FreeStore DEF TransferPassedOn, TransferFree
    <3>2. CASE d \in Native /\ TransferConverted(u, c, d, x)
      <4>1. infoByNative[d].ibc \in Denom
        BY <1>1, <3>2, ConvertedMidway DEF TransferConverted
      <4> QED
        BY <1>1, <2>3, <3>2, <4>1, FreeStore DEF TransferConverted, TransferFree
    <3> QED
      BY <2>3, <3>1, <3>2 DEF TransferFree
  <2>4. ASSUME NEW prio \in BOOLEAN, TransferUsedUp(u, c, d, x, prio) PROVE FeeStoreInv'
    BY <2>4, SameStore DEF TransferUsedUp, feeVars
  <2>5. ASSUME NEW prio \in BOOLEAN, TransferCharged(u, c, d, x, prio) PROVE FeeStoreInv'
    <3> DEFINE k == Charge(TermsOf(c, d), prio, x)
    <3>1. IsAllowed(c, d) /\ EmitPacket(u, c, d, x - k) /\ Sent(c, FeeFor(d, k))
      BY <2>5 DEF TransferCharged, PaysAndSends
    <3>2. k \in Nat
      BY <2>2, <3>1, AllowedTerms, ChargeBounds
    <3> HIDE DEF k
    <3>3. FeeFor(d, k) \in FeeOrNone /\ (FeeFor(d, k) # NoFee => FeeFor(d, k).denom = d)
      BY <3>2, FeeForType
    <3> QED
      BY <1>1, <3>1, <3>3, SentStore
  <2>6. ASSUME NEW prio \in BOOLEAN, d \in Native, TransferChargedTwice(u, c, d, x, prio)
        PROVE  FeeStoreInv'
    <3> DEFINE k == Charge(TermsOf(c, d), prio, x)
               i == infoByNative[d]
               v == i.ibc
               j == Charge(TermsOf(c, v), prio, x - k)
               fee == IF k = 0 THEN FeeFor(v, j) ELSE Coin(d, k)
    <3>1. /\ IsAllowed(c, d) /\ k < x /\ IsConverted(c, d) /\ IsAllowed(c, v)
          /\ \/ EmitPacket(u, c, v, x - k - j) /\ Sent(c, fee)
             \/ SetSequenceFee(0, FeeFor(d, k)) /\ UNCHANGED <<inflight, nextSeq, ownFee>>
      BY <2>6 DEF TransferChargedTwice, PaysAndSends
    <3>2. i \in Catalogue /\ i.native = d
      BY <1>1, <2>6, <3>1, ConvertedInfo
    <3>3. v \in Denom
      BY <3>2, CatalogueCoins
    <3>4. k \in Nat
      BY <2>2, <3>1, AllowedTerms, ChargeBounds
    <3> HIDE DEF k, i
    <3>5. x - k \in Nat
      BY <2>2, <3>1, <3>4
    <3>6. j \in Nat
      BY <3>1, <3>3, <3>5, AllowedTerms, ChargeBounds
    <3>7. \E e \in Catalogue : e.ibc = v /\ e.native = d
      BY <3>2
    <3> HIDE DEF v, j
    <3>8. /\ fee \in FeeOrNone
          /\ fee # NoFee => fee.denom = v \/ \E e \in Catalogue : e.ibc = v /\ e.native = fee.denom
      BY <3>3, <3>4, <3>6, <3>7, FeeForType
    <3>9. FeeFor(d, k) \in FeeOrNone
      BY <3>4, FeeForType
    <3> HIDE DEF fee
    <3> QED
      BY <1>1, <3>1, <3>3, <3>8, <3>9, SentStore, NothingSentStore
  <2> QED
    BY <2>1, <2>3, <2>4, <2>5, <2>6
<1>3. CASE FeePacketStep
  <2>1. PICK p \in inflight :
          TimeoutWithFee(p) \/ AcknowledgementWithFee(p) \/ (Deliver(p) /\ UNCHANGED feeVars)
    BY <1>3 DEF FeePacketStep
  <2>2. p \in Packet
    BY <1>1 DEF BridgeInv, BridgeTypeOK
  <2>3. p.seq \in Sequence
    <3>1. /\ p.channel \in Channel /\ p.seq \in Nat /\ p.seq >= 1 /\ p.seq <= MaxSeq[p.channel]
          /\ MaxSeq[p.channel] \in Nat
      BY <2>2, TransferAssumption DEF Packet, FeeStoreInv, SequencesBounded
    <3> QED
      BY <3>1 DEF Sequence
  <2> QED
    BY <1>1, <2>1, <2>2, <2>3, TimeoutStore, AcknowledgedStore, DeliveredStore
<1>4. CASE OtherStep \/ (UNCHANGED <<inflight, nextSeq, sequenceFee, promised, ownFee>>)
  <2>1. UNCHANGED <<inflight, nextSeq, sequenceFee, promised, ownFee>>
    BY <1>4 DEF OtherStep, OnRecvAsset, OnRecvReturned, BankSend, feeVars
  <2> QED
    BY <2>1, SameStore
<1>5. CASE RestartForgetsFees
  <2>1. /\ inflight' = inflight /\ nextSeq' = nextSeq
        /\ sequenceFee' = [s \in Sequence |-> NoFee]
        /\ promised' = [s \in Sequence |-> NoPromise]
        /\ ownFee' = [c \in Channel |-> [s \in Sequence |-> NoFee]]
    BY <1>5 DEF RestartForgetsFees, bridgeVars
  <2>2. SequencesBounded'
    BY <2>1 DEF FeeStoreInv, SequencesBounded
  <2>3. nextSeq' \in [Channel -> Nat] /\ inflight' \subseteq Packet
    BY <1>1, <2>1 DEF BridgeInv, BridgeTypeOK
  <2> QED
    BY <2>1, <2>2, <2>3, EmptyStore
<1>6. \/ FeeTransfer \/ FeePacketStep \/ OtherStep \/ RestartForgetsFees
      \/ UNCHANGED <<inflight, nextSeq, sequenceFee, promised, ownFee>>
  BY DEF FeeNext, FeeGovernance, allVars, feeVars, vars, bridgeVars
<1> QED
  BY <1>2, <1>3, <1>4, <1>5, <1>6

(* Configurations stay configurations (MsgUpdateCustomIbcParams and the     *)
(* messages of the fee authority).                                          *)
LEMMA ConfigStep ==
  ASSUME FeeTypeOK, [FeeNext]_allVars
  PROVE  channelFees' \in [Channel -> FeeConfig \cup {NoFee}]
<1> DEFINE Configs == [Channel -> FeeConfig \cup {NoFee}]
<1>1. channelFees \in Configs
  BY DEF FeeTypeOK
<1>2. ASSUME NEW params \in FeeParams, UpdateCustomIbcParams(params) PROVE channelFees' \in Configs
  BY <1>2, FeeAssumption DEF UpdateCustomIbcParams
<1>3. ASSUME NEW c \in Channel, NEW address \in FeeAddress, AddIBCFeeConfig(c, address)
      PROVE  channelFees' \in Configs
  <2> DEFINE old == channelFees[c]
             new == [feeAddress |-> address,
                     allowedTokens |-> IF old = NoFee THEN NoTokens ELSE old.allowedTokens]
  <2>1. NoTokens \in [Denom -> Terms \cup {NoFee}]
    BY DEF NoTokens
  <2>2. old \in FeeConfig \cup {NoFee}
    BY <1>1
  <2>3. new \in FeeConfig
    BY <2>1, <2>2 DEF FeeConfig
  <2>4. channelFees' = [channelFees EXCEPT ![c] = new]
    BY <1>3 DEF AddIBCFeeConfig
  <2> HIDE DEF new
  <2> QED
    BY <1>1, <2>3, <2>4
<1>4. ASSUME NEW c \in Channel, RemoveIBCFeeConfig(c) PROVE channelFees' \in Configs
  BY <1>1, <1>4 DEF RemoveIBCFeeConfig
<1>5. ASSUME NEW c \in Channel, NEW d \in Denom, NEW t \in Terms \cup {NoFee},
             channelFees[c] # NoFee,
             channelFees' = [channelFees EXCEPT ![c].allowedTokens[d] = t]
      PROVE  channelFees' \in Configs
  <2> DEFINE new == [channelFees[c] EXCEPT !.allowedTokens[d] = t]
  <2>1. channelFees[c] \in FeeConfig
    BY <1>1, <1>5
  <2>2. channelFees[c].allowedTokens \in [Denom -> Terms \cup {NoFee}]
    BY <2>1 DEF FeeConfig
  <2>3. [channelFees[c].allowedTokens EXCEPT ![d] = t] \in [Denom -> Terms \cup {NoFee}]
    BY <2>2
  <2>4. new \in FeeConfig
    BY <2>1, <2>3 DEF FeeConfig
  <2>5. channelFees' = [channelFees EXCEPT ![c] = new]
    BY <1>1, <1>5
  <2> HIDE DEF new
  <2> QED
    BY <1>1, <2>4, <2>5
<1>6. ASSUME NEW l \in Listing,
             \/ AddAllowedIbcToken(l.channel, l.denom, l.terms)
             \/ RemoveAllowedIbcToken(l.channel, l.denom)
      PROVE  channelFees' \in Configs
  <2>1. l.channel \in Channel /\ l.denom \in Denom /\ l.terms \in Terms
    BY FeeAssumption
  <2> QED
    BY <1>5, <1>6, <2>1 DEF AddAllowedIbcToken, RemoveAllowedIbcToken
<1>7. CASE FeeGovernance
  BY <1>2, <1>3, <1>4, <1>6, <1>7 DEF FeeGovernance
<1>8. CASE UNCHANGED channelFees
  BY <1>1, <1>8
<1>9. FeeTransfer => UNCHANGED channelFees
  BY DEF FeeTransfer, TransferFree, TransferUsedUp, TransferCharged, TransferChargedTwice,
         PaysAndSends, feeVars
<1>10. FeePacketStep => UNCHANGED channelFees
  BY DEF FeePacketStep, TimeoutWithFee, AcknowledgementWithFee, feeVars
<1>11. OtherStep \/ RestartForgetsFees => UNCHANGED channelFees
  BY DEF OtherStep, RestartForgetsFees, feeVars
<1> QED
  BY <1>7, <1>8, <1>9, <1>10, <1>11 DEF FeeNext, allVars, feeVars

(* The type invariant is what the parts say.                                *)
LEMMA FeeTypeParts ==
  FeeTypeOK <=> /\ ledger \in Ledger
                /\ channelFees \in [Channel -> FeeConfig \cup {NoFee}]
                /\ FeeBooksOK
BY DEF FeeTypeOK, FeeBooksOK, FeeOrNone

(* At genesis nothing is stored.                                            *)
LEMMA FeeInitInv == FeeInit => FeeInv
<1> SUFFICES ASSUME FeeInit PROVE FeeInv
  OBVIOUS
<1>1. RegistryInv /\ BridgeInv /\ ConservedInv
  BY RegistryInitInv, BridgeInitInv, ConservedInitInv DEF FeeInit, Init
<1>2. /\ sequenceFee = [s \in Sequence |-> NoFee]
      /\ promised = [s \in Sequence |-> NoPromise]
      /\ ownFee = [c \in Channel |-> [s \in Sequence |-> NoFee]]
      /\ inflight = {} /\ nextSeq = [c \in Channel |-> 1]
  BY DEF FeeInit, Init
<1>3. FeeTypeOK
  <2>1. NoPromise \in [Denom -> Nat]
    BY DEF NoPromise
  <2>2. channelFees \in [Channel -> FeeConfig \cup {NoFee}]
    BY FeeAssumption DEF FeeInit
  <2>3. FeeBooksOK
    BY <1>2, <2>1 DEF FeeBooksOK, FeeOrNone
  <2> QED
    BY <1>1, <2>2, <2>3, FeeTypeParts DEF BridgeInv, BridgeTypeOK
<1>4. SequencesBounded /\ PromisesCovered /\ OwnFeesKept
  BY <1>2 DEF SequencesBounded, PromisesCovered, OwnFeesKept
<1> QED
  BY <1>1, <1>3, <1>4 DEF FeeInv

(* The invariant is inductive.                                              *)
LEMMA FeeStepInv == FeeInv /\ [FeeNext]_allVars => FeeInv'
<1> SUFFICES ASSUME FeeInv, [FeeNext]_allVars PROVE FeeInv'
  OBVIOUS
<1>1. FeeTypeOK /\ SequencesBounded /\ FeeBridgeInv /\ FeeStoreInv
  BY FeeTypeParts DEF FeeInv, FeeBridgeInv, FeeStoreInv
<1>2. FeeBridgeInv'
  BY <1>1, FeeBridgeStep
<1>3. FeeStoreInv'
  BY <1>1, FeeStoreStep
<1>4. channelFees' \in [Channel -> FeeConfig \cup {NoFee}]
  BY <1>1, ConfigStep
<1>5. FeeTypeOK'
  BY <1>2, <1>3, <1>4 DEF FeeTypeOK, FeeBridgeInv, BridgeInv, BridgeTypeOK, FeeStoreInv,
                          FeeBooksOK, FeeOrNone
<1> QED
  BY <1>2, <1>3, <1>5 DEF FeeInv, FeeBridgeInv, FeeStoreInv

(* The bridge is backed and conserves supplies, and the store of fees is in *)
(* order, after any interleaving of transfers, timeouts, acknowledgements,  *)
(* receipts, governance of registry and fees, and restarts.                 *)
THEOREM FeeInvariant == FeeSpec => []FeeInv
BY FeeInitInv, FeeStepInv, PTL DEF FeeSpec

(* The store's variables always have their types, and no fee drives a       *)
(* balance below zero (FeeTypeOK; Transfer, OnTimeoutPacket).               *)
THEOREM FeesTypeCorrect == FeeSpec => []FeeTypeOK
BY FeeInvariant, PTL DEF FeeInv

(* No fee is paid back twice or that was not paid: what is under a sequence *)
(* was stored there for a fee and neither paid back nor forgotten           *)
(* (PromisesCovered; OnTimeoutPacket, OnAcknowledgementPacket).             *)
THEOREM PromisesAlwaysCovered == FeeSpec => []PromisesCovered
BY FeeInvariant, PTL DEF FeeInv

(* Fees make and lose no coin of a shared supply, and no escrow account     *)
(* pays one: SharedSupply and EscrowSolvent hold with fees too (Transfer).  *)
THEOREM FeesKeepSupply == FeeSpec => [](SharedSupply /\ EscrowSolvent)
<1>1. FeeInv => SharedSupply /\ EscrowSolvent
  BY SharedSupplyFollows DEF FeeInv, ConservedInv
<1> QED
  BY <1>1, FeeInvariant, PTL

(* Minted native coins stay backed and redeemable when their senders pay    *)
(* fees, in the native coin and in the voucher it is converted into         *)
(* (Backing, NativeRedeemable; ics4wrapper.go, keeper.go).                  *)
THEOREM FeesKeepBacking == FeeSpec => [](Backing /\ NativeRedeemable)
<1>1. FeeInv => Backing /\ NativeRedeemable
  BY NativeRedeemableFollows DEF FeeInv, BridgeInv, BackedBy, Backing, EscrowAddress
<1> QED
  BY <1>1, FeeInvariant, PTL

-----------------------------------------------------------------------------
(* A payment in the coin, or in the native coin of a voucher, adds to what  *)
(* an account holds of it.                                                  *)
LEMMA PaymentHeld ==
  ASSUME NEW L \in Ledger, NEW from \in Account, NEW to \in Account, from # to, NEW f \in Denom,
         NEW y \in Nat, CanSpend(L, from, f, y), NEW d \in Denom, CountsAs(f, d)
  PROVE  Holding(SendCoins(L, from, to, f, y), to, d) = Holding(L, to, d) + y
<1> DEFINE M == SendCoins(L, from, to, f, y)
<1>1. /\ M \in Ledger
      /\ \A a \in Account, e \in Denom :
           M.bal[a][e] = L.bal[a][e] - (IF a = from /\ e = f THEN y ELSE 0)
                                     + (IF a = to /\ e = f THEN y ELSE 0)
  BY SendCoinsEffect
<1> HIDE DEF M
<1>2. \A e \in Denom : M.bal[to][e] = L.bal[to][e] + (IF e = f THEN y ELSE 0)
  <2>1. \A e \in Denom : L.bal[to][e] \in Nat
    BY DEF Ledger
  <2> QED
    BY <1>1, <2>1
<1>3. Holding(M, to, d) = Holding(L, to, d) + y
  BY ONLY <1>1, <1>2, HoldingShift, CountsAs(f, d), L \in Ledger, to \in Account,
          f \in Denom, d \in Denom, y \in Nat, Nat \subseteq Int
<1> QED
  BY <1>3 DEF M

(* The refund leaves the fee address, which is no escrow account, with no   *)
(* less than it had.                                                        *)
LEMMA RefundSparesUsers ==
  ASSUME RegistryInv, BridgeInv, NEW p \in inflight, CanRefund(p), NEW a \in User,
         NEW d \in Denom, NEW y \in Nat, CanSpend(ledger, a, d, y)
  PROVE  CanSpend(Refunded(p), a, d, y)
<1>1. /\ ledger \in Ledger /\ p \in Packet /\ p.amount \in Nat /\ a \in Account
      /\ a # p.channel
  BY TransferAssumption DEF BridgeInv, BridgeTypeOK, Packet
<1> DEFINE conv == IsRefundConverted(p)
           n == RefundInfo(p).native
           x == p.amount
           M == Refunded(p)
<1>2. \A b \in Account, f \in Denom : M.bal[b][f] = ledger.bal[b][f]
        - (IF b = p.channel /\ f = p.denom /\ p.denom \notin VouchersOf(p.channel) THEN x ELSE 0)
        + (IF conv THEN (IF b = p.channel /\ f = p.denom THEN x ELSE 0)
                        + (IF b = p.sender /\ f = n THEN x ELSE 0)
                   ELSE (IF b = p.sender /\ f = p.denom THEN x ELSE 0))
  BY <1>1, RefundLedger DEF CanRefund, Refunded
<1>3. ledger.bal[a][d] \in Nat /\ x \in Nat
  BY <1>1 DEF Ledger
<1> HIDE DEF conv, n, x, M
<1>4. M.bal[a][d] >= ledger.bal[a][d] /\ M.bal[a][d] \in Nat
  BY <1>1, <1>2, <1>3
<1> QED
  BY <1>3, <1>4 DEF CanSpend, M

(* A packet that times out comes back with its fee, whatever the registry,  *)
(* other packets and the parameters have gone through since it was sent, if *)
(* its sequence is its own and the fee address can pay (OnTimeoutPacket).   *)
THEOREM TimeoutsPayBack == FeeSpec => TimeoutPaysBack
<1> DEFINE PaysBack == \A p \in inflight :
       LET fee     == ownFee[p.channel][p.seq]
           address == channelFees[p.channel].feeAddress
       IN  /\ TimeoutWithFee(p)
           /\ SequenceUnshared(p)
           /\ fee # NoFee
           /\ channelFees[p.channel] # NoFee
           /\ address # p.sender
           /\ CanSpend(ledger, address, fee.denom, fee.amount)
           => Holding(ledger', p.sender, p.denom)
                = Holding(ledger, p.sender, p.denom) + p.amount + fee.amount
<1>1. ASSUME FeeInv, [FeeNext]_allVars PROVE [PaysBack]_allVars
  <2> DEFINE fee(p) == ownFee[p.channel][p.seq]
             address(p) == channelFees[p.channel].feeAddress
  <2> SUFFICES ASSUME NEW p \in inflight, TimeoutWithFee(p), SequenceUnshared(p), fee(p) # NoFee,
                      channelFees[p.channel] # NoFee, address(p) # p.sender,
                      CanSpend(ledger, address(p), fee(p).denom, fee(p).amount)
               PROVE  Holding(ledger', p.sender, p.denom)
                        = Holding(ledger, p.sender, p.denom) + p.amount + fee(p).amount
    OBVIOUS
  <2> DEFINE R == Refunded(p)
             a == address(p)
             d == fee(p).denom
             y == fee(p).amount
  <2>1. RegistryInv /\ BridgeInv /\ FeeTypeOK /\ SequencesBounded /\ OwnFeesKept
    BY <1>1 DEF FeeInv
  <2>2. sequenceFee[p.seq] = fee(p) /\ FeeOf(p, d)
    BY <2>1 DEF OwnFeesKept
  <2>3. /\ p \in Packet /\ p.channel \in Channel /\ p.seq \in Nat /\ p.sender \in User
        /\ p.denom \in Denom /\ p.amount \in Nat /\ ledger \in Ledger
    BY <2>1 DEF BridgeInv, BridgeTypeOK, Packet
  <2>4. p.seq \in Sequence
    <3>1. p.seq >= 1 /\ p.seq <= MaxSeq[p.channel] /\ MaxSeq[p.channel] \in Nat
      BY <2>1, <2>3, TransferAssumption DEF SequencesBounded
    <3> QED
      BY <2>3, <3>1 DEF Sequence
  <2>5. d \in Denom /\ y \in Nat
    <3>1. ownFee[p.channel][p.seq] \in [denom: Denom, amount: Nat \ {0}] \cup {NoFee}
      BY <2>1, <2>3, <2>4 DEF FeeTypeOK
    <3> QED
      BY <3>1
  <2>6. a \in User
    <3>1. channelFees[p.channel] \in FeeConfig
      BY <2>1, <2>3 DEF FeeTypeOK
    <3> QED
      BY <3>1, FeeAssumption DEF FeeConfig
  <2>7. CanRefund(p)
    BY DEF TimeoutWithFee
  <2>8. CanSpend(R, a, d, y)
    BY <2>1, <2>5, <2>6, <2>7, RefundSparesUsers
  <2>9. ledger' = SendCoins(R, a, p.sender, d, y)
    <3>1. CanPayFeeBack(R, p)
      BY <2>2, <2>8 DEF CanPayFeeBack
    <3> QED
      BY <2>2, <3>1 DEF TimeoutWithFee, PayFeeBack, FeePaidBack, Refunded
  <2>10. R \in Ledger
    BY <2>1, <2>7, RefundBacked
  <2>11. Holding(R, p.sender, p.denom) = Holding(ledger, p.sender, p.denom) + p.amount
    BY <2>1, <2>7, RefundPays
  <2>12. a \in Account /\ p.sender \in Account /\ a # p.sender
    BY <2>3, <2>6, TransferAssumption
  <2>13. CountsAs(d, p.denom)
    BY <2>2 DEF FeeOf, CountsAs
  <2> HIDE DEF R, a, d
  <2>14. Holding(ledger', p.sender, p.denom) = Holding(R, p.sender, p.denom) + y
    BY <2>3, <2>5, <2>8, <2>9, <2>10, <2>12, <2>13, PaymentHeld
  <2> QED
    BY <2>11, <2>14 DEF y
<1> QED
  BY <1>1, FeeInvariant, PTL DEF FeeSpec, TimeoutPaysBack
=============================================================================
