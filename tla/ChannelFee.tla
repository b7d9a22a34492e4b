----------------------------- MODULE ChannelFee -----------------------------
(***************************************************************************)
(* Fees on transfers: the transfer keeper of custom/ibc-transfer and the   *)
(* store of x/ibctransfermiddleware, on top of TransferMiddleware.         *)
(*                                                                         *)
(* A channel may have a fee address and a list of the coins that may leave *)
(* over it, each with its terms.  The sender pays the fee in the coin that *)
(* is sent; the rest goes on to the transfer application.  What was paid   *)
(* is kept under the sequence of the packet, to be paid back if the packet *)
(* times out; any acknowledgement forgets it.  A converted send runs the   *)
(* keeper twice, on the native coin and on the voucher, and pays twice.    *)
(*                                                                         *)
(* The test on the timeout of a message only refuses it, and the model's   *)
(* messages have passed it.                                                *)
(***************************************************************************)
EXTENDS TransferMiddleware

CONSTANTS
  FeeAddress,   \* addresses that fees go to
  Terms,        \* the terms governance gives a coin
  FeeParams,    \* parameters of a genesis and of MsgUpdateCustomIbcParams
  Listing,      \* the coins governance lists on a channel, with their terms
  NoFee         \* no configuration, no terms, or no fee in the store

FeeConfig ==
  [feeAddress: FeeAddress, allowedTokens: [Denom -> Terms \cup {NoFee}]]

ASSUME FeeAssumption ==
  /\ FeeAddress \subseteq User
  /\ Terms \subseteq [minFee: Nat, priorityFee: Nat, percentage: Nat]
  /\ Listing \subseteq [channel: Channel, denom: Denom, terms: Terms]
  /\ FeeParams \subseteq [Channel -> FeeConfig \cup {NoFee}]
  /\ NoFee \notin Terms \cup FeeConfig

VARIABLES
  channelFees,   \* Params.ChannelFees
  sequenceFee,   \* fee kept under a packet's sequence, whatever its channel
  promised,      \* history: fees stored under each sequence, by denomination,
                 \* and neither paid back nor forgotten
  ownFee         \* history: what the sender of a packet paid for it last

feeVars == <<channelFees, sequenceFee, promised, ownFee>>
allVars == <<vars, feeVars>>

(* A sequence of 0 stands for no packet: what a transfer that the fee used  *)
(* up returns.                                                              *)
Sequence == {0} \cup UNION {1 .. MaxSeq[c] : c \in Channel}

NoPromise == [d \in Denom |-> 0]

FeeInit ==
  /\ Init
  /\ channelFees \in FeeParams
  /\ sequenceFee = [s \in Sequence |-> NoFee]
  /\ promised = [s \in Sequence |-> NoPromise]
  /\ ownFee = [c \in Channel |-> [s \in Sequence |-> NoFee]]

Coin(d, x) == [denom |-> d, amount |-> x]
-----------------------------------------------------------------------------
(* What Transfer takes of an amount x: the minimum, with the priority fee   *)
(* the memo may ask for, and a share of what that leaves.                   *)
LeastFee(t, prio) == t.minFee + (IF prio THEN t.priorityFee ELSE 0)

ShareOf(t, rest) == IF rest > 0 /\ t.percentage # 0 THEN rest \div t.percentage ELSE 0

Charge(t, prio, x) ==
  IF LeastFee(t, prio) > x THEN x
  ELSE LeastFee(t, prio) + ShareOf(t, x - LeastFee(t, prio))

(* keeper.go divides by the percentage without msg_server.go's test: a      *)
(* voucher with none, and something left to take it of, fails the send.     *)
ChargePanics(t, prio, x) == t.percentage = 0 /\ LeastFee(t, prio) < x

TermsOf(c, d) == channelFees[c].allowedTokens[d]
IsAllowed(c, d) == channelFees[c] # NoFee /\ TermsOf(c, d) # NoFee

PayFee(L, u, c, d, k) == SendCoins(L, u, channelFees[c].feeAddress, d, k)

SetSequenceFee(s, fee) ==
  IF fee = NoFee
    THEN UNCHANGED <<sequenceFee, promised>>
    ELSE /\ sequenceFee' = [sequenceFee EXCEPT ![s] = fee]
         /\ promised' = [promised EXCEPT ![s][fee.denom] = @ + fee.amount]

FeeFor(d, k) == IF k = 0 THEN NoFee ELSE Coin(d, k)

Sent(c, fee) ==
  /\ SetSequenceFee(nextSeq[c], fee)
  /\ ownFee' = [ownFee EXCEPT ![c][nextSeq[c]] = fee]

(* MsgTransfer on a channel without fees.                                   *)
TransferFree(u, c, d, x) ==
  /\ channelFees[c] = NoFee
  /\ TransferPassedOn(u, c, d, x) \/ (d \in Native /\ TransferConverted(u, c, d, x))
  /\ UNCHANGED feeVars

(* The fee uses up the amount: the sender pays, and nothing is sent.        *)
TransferUsedUp(u, c, d, x, prio) ==
  /\ IsAllowed(c, d)
  /\ Charge(TermsOf(c, d), prio, x) = x
  /\ ledger' = PayFee(ledger, u, c, d, x)
  /\ UNCHANGED <<inflight, nextSeq, remote, donated, feeVars>>

(* The sender has paid the fee and has the rest of the amount to send.      *)
PaysAndSends(u, c, d, x, prio) ==
  /\ IsAllowed(c, d)
  /\ Charge(TermsOf(c, d), prio, x) < x
  /\ UNCHANGED <<remote, donated, channelFees>>

TransferCharged(u, c, d, x, prio) ==
  LET k == Charge(TermsOf(c, d), prio, x)
  IN  /\ PaysAndSends(u, c, d, x, prio)
      /\ ~IsConverted(c, d)
      /\ ledger' = SendTransfer(PayFee(ledger, u, c, d, k), u, c, d, x - k)
      /\ EmitPacket(u, c, d, x - k)
      /\ Sent(c, FeeFor(d, k))

(* A mutation of VoucherAfterFee: the voucher of the whole amount is sent.  *)
VoucherOfWhole(L, u, c, v, x, k) == SendTransfer(PayFee(L, u, c, v, k), u, c, v, x)

VoucherAfterFee(L, u, c, v, x, k) == SendTransfer(PayFee(L, u, c, v, k), u, c, v, x - k)

(* The keeper has taken k of the native coin and the middleware turned the  *)
(* rest into a voucher, of which it takes j: the voucher's fee is stored    *)
(* first and the native coin's over it.                                     *)
TransferChargedTwice(u, c, n, x, prio) ==
  LET k        == Charge(TermsOf(c, n), prio, x)
      voucher  == infoByNative[n].ibc
      paid     == PayFee(ledger, u, c, n, k)
      released == VoucherReleased(paid, u, c, n, x - k)
      terms    == TermsOf(c, voucher)
      j        == Charge(terms, prio, x - k)
  IN  /\ PaysAndSends(u, c, n, x, prio)
      /\ IsConverted(c, n)
      /\ VoucherLocked(paid, u, c, n, x - k)
      /\ IsAllowed(c, voucher)
      /\ ~ChargePanics(terms, prio, x - k)
      /\ \/ /\ j < x - k
            /\ ledger' = VoucherAfterFee(released, u, c, voucher, x - k, j)
            /\ EmitPacket(u, c, voucher, x - k - j)
            /\ Sent(c, IF k = 0 THEN FeeFor(voucher, j) ELSE Coin(n, k))
         \/ /\ j = x - k
            /\ ledger' = PayFee(released, u, c, voucher, j)
            /\ SetSequenceFee(0, FeeFor(n, k))
            /\ UNCHANGED <<inflight, nextSeq, ownFee>>
-----------------------------------------------------------------------------
FeePaidBack(L, p) ==
  SendCoins(L, channelFees[p.channel].feeAddress, p.sender,
            sequenceFee[p.seq].denom, sequenceFee[p.seq].amount)

NoLongerPromised(p) ==
  promised' = [promised EXCEPT ![p.seq][sequenceFee[p.seq].denom] = @ - sequenceFee[p.seq].amount]

(* The packet has left: what its sender paid for it is of no more interest. *)
OwnFeeDone(p) == ownFee' = [ownFee EXCEPT ![p.channel][p.seq] = NoFee]

(* Mutations of PayFeeBack: the fee is not deleted; the ledger is the one   *)
(* from before the refund.                                                  *)
PayFeeBackKept(L, p) ==
  /\ ledger' = FeePaidBack(L, p)
  /\ NoLongerPromised(p)
  /\ UNCHANGED sequenceFee
PayFeeBackStale(L, p) ==
  /\ ledger' = FeePaidBack(ledger, p)
  /\ NoLongerPromised(p)
  /\ sequenceFee' = [sequenceFee EXCEPT ![p.seq] = NoFee]

PayFeeBack(L, p) ==
  /\ ledger' = FeePaidBack(L, p)
  /\ NoLongerPromised(p)
  /\ sequenceFee' = [sequenceFee EXCEPT ![p.seq] = NoFee]

(* The fee stays where it is, and in the store, if the channel has lost its *)
(* fee address or that address can not pay.                                 *)
CanPayFeeBack(L, p) ==
  LET fee == sequenceFee[p.seq]
  IN  /\ fee # NoFee
      /\ channelFees[p.channel] # NoFee
      /\ CanSpend(L, channelFees[p.channel].feeAddress, fee.denom, fee.amount)

(* OnTimeoutPacket: the amount comes back first, then the fee.              *)
TimeoutWithFee(p) ==
  LET refunded == RefundToken(RefundPacketToken(ledger, p), p)
  IN  /\ p.status = "sent"
      /\ CanRefund(p)
      /\ inflight' = inflight \ {p}
      /\ \/ CanPayFeeBack(refunded, p) /\ PayFeeBack(refunded, p)
         \/ ~CanPayFeeBack(refunded, p) /\ ledger' = refunded /\ UNCHANGED <<sequenceFee, promised>>
      /\ OwnFeeDone(p)
      /\ UNCHANGED <<nextSeq, remote, donated, channelFees>>

FeeForgotten(p) == sequenceFee' = [sequenceFee EXCEPT ![p.seq] = NoFee]

AcknowledgementWithFee(p) ==
  /\ OnAcknowledgementPacket(p)
  /\ FeeForgotten(p)
  /\ promised' = [promised EXCEPT ![p.seq] = NoPromise]
  /\ OwnFeeDone(p)
  /\ UNCHANGED channelFees
-----------------------------------------------------------------------------
(* Governance and the addresses it trusts.                                  *)
UpdateCustomIbcParams(params) == channelFees' = params

NoTokens == [d \in Denom |-> NoFee]

AddIBCFeeConfig(c, address) ==
  channelFees' = [channelFees EXCEPT ![c] =
    [feeAddress |-> address,
     allowedTokens |-> IF @ = NoFee THEN NoTokens ELSE @.allowedTokens]]

RemoveIBCFeeConfig(c) == channelFees' = [channelFees EXCEPT ![c] = NoFee]

AddAllowedIbcToken(c, d, t) ==
  /\ channelFees[c] # NoFee
  /\ channelFees' = [channelFees EXCEPT ![c].allowedTokens[d] = t]

RemoveAllowedIbcToken(c, d) ==
  /\ channelFees[c] # NoFee
  /\ channelFees' = [channelFees EXCEPT ![c].allowedTokens[d] = NoFee]

FeeGovernance ==
  /\ \/ \E params \in FeeParams : UpdateCustomIbcParams(params)
     \/ \E c \in Channel, address \in FeeAddress : AddIBCFeeConfig(c, address)
     \/ \E c \in Channel : RemoveIBCFeeConfig(c)
     \/ \E l \in Listing :
          \/ AddAllowedIbcToken(l.channel, l.denom, l.terms)
          \/ RemoveAllowedIbcToken(l.channel, l.denom)
  /\ UNCHANGED <<vars, sequenceFee, promised, ownFee>>

(* The module's genesis holds the parameters alone: a restart forgets the   *)
(* fees of the packets under way.                                           *)
RestartForgetsFees ==
  /\ RestartFromGenesis
  /\ sequenceFee' = [s \in Sequence |-> NoFee]
  /\ promised' = [s \in Sequence |-> NoPromise]
  /\ ownFee' = [c \in Channel |-> [s \in Sequence |-> NoFee]]
  /\ UNCHANGED <<bridgeVars, channelFees>>

FeeTransfer ==
  \E u \in User, d \in Denom, x \in Amount :
    /\ CanSpend(ledger, u, d, x)
    /\ \E c \in Channel :
         \/ TransferFree(u, c, d, x)
         \/ \E prio \in BOOLEAN :
              \/ TransferUsedUp(u, c, d, x, prio)
              \/ TransferCharged(u, c, d, x, prio)
              \/ d \in Native /\ TransferChargedTwice(u, c, d, x, prio)

FeePacketStep ==
  \E p \in inflight :
    \/ TimeoutWithFee(p)
    \/ AcknowledgementWithFee(p)
    \/ Deliver(p) /\ UNCHANGED feeVars

(* Receipts, and sends between users; what reaches an escrow account        *)
(* otherwise is TransferMiddleware's concern.                               *)
OtherStep ==
  /\ \E x \in Amount, to \in User :
       \/ \E c \in Channel, a \in Asset : OnRecvAsset(c, a, x, to)
       \/ \E c \in Channel, d \in Denom : OnRecvReturned(c, d, x, to)
       \/ \E u \in User, d \in Denom : BankSend(u, to, d, x)
  /\ UNCHANGED feeVars

FeeNext ==
  \/ (FeeTransfer \/ FeePacketStep \/ OtherStep) /\ UNCHANGED registryVars
  \/ (GovernanceTx \/ NewBlock) /\ UNCHANGED <<bridgeVars, feeVars>>
  \/ RestartForgetsFees
  \/ FeeGovernance

FeeSpec == FeeInit /\ [][FeeNext]_allVars
-----------------------------------------------------------------------------
FeeTypeOK ==
  /\ ledger \in Ledger
  /\ channelFees \in [Channel -> FeeConfig \cup {NoFee}]
  /\ sequenceFee \in [Sequence -> [denom: Denom, amount: Nat \ {0}] \cup {NoFee}]
  /\ promised \in [Sequence -> [Denom -> Nat]]
  /\ ownFee \in [Channel -> [Sequence -> [denom: Denom, amount: Nat \ {0}] \cup {NoFee}]]

(* No fee is paid back twice, or before it was paid, or after it was        *)
(* forgotten, whatever packets of other channels share its sequence: what   *)
(* the store holds under a sequence was stored there for a fee, and neither *)
(* paid back nor forgotten yet (ibc_middleware.go, OnTimeoutPacket and      *)
(* OnAcknowledgementPacket).                                                *)
PromisesCovered ==
  \A s \in Sequence :
    sequenceFee[s] # NoFee => sequenceFee[s].amount <= promised[s][sequenceFee[s].denom]

(* The packet's sequence has not been used on another channel, whose packet *)
(* would share the place of its fee.                                        *)
SequenceUnshared(p) == \A c \in Channel \ {p.channel} : nextSeq[c] <= p.seq

(* A packet that times out leaves its sender with the amount and with what  *)
(* the last fee of the transfer was, if its sequence is its own and the     *)
(* channel still has a fee address that can pay, through all that the       *)
(* registry, other packets and the parameters have gone through since       *)
(* (ibc_middleware.go, OnTimeoutPacket; the fees of both runs of the keeper *)
(* are not paid back, only the last one stored).                            *)
TimeoutPaysBack ==
  [][\A p \in inflight :
       LET fee     == ownFee[p.channel][p.seq]
           address == channelFees[p.channel].feeAddress
       IN  /\ TimeoutWithFee(p)
           /\ SequenceUnshared(p)
           /\ fee # NoFee
           /\ channelFees[p.channel] # NoFee
           /\ address # p.sender
           /\ CanSpend(ledger, address, fee.denom, fee.amount)
           => Holding(ledger', p.sender, p.denom)
                = Holding(ledger, p.sender, p.denom) + p.amount + fee.amount]_allVars
=============================================================================
