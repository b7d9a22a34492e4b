------------------------- MODULE TransferMiddleware -------------------------
(***************************************************************************)
(* Token transfers through x/transfermiddleware, above the registry of     *)
(* ParachainRegistry.                                                      *)
(*                                                                         *)
(* The middleware sits over the ICS-20 transfer application.  A voucher    *)
(* that arrives over the channel its info names is locked in the channel's *)
(* escrow account and the same amount of the native denomination is minted *)
(* (OnRecvPacket); a native coin sent back over that channel is burned and *)
(* the voucher released and sent in its place (SendPacket); a voucher that *)
(* an error acknowledgement or a timeout refunds is converted again        *)
(* (refundToken).  Registrations come and go between those steps.          *)
(*                                                                         *)
(* The counterparty chains, the relayers and core IBC are the environment: *)
(* a packet is delivered at most once, or times out, and never both; the   *)
(* counterparty only releases coins it holds.  No channel fee and no rate  *)
(* limit is configured here (the default parameters): ChannelFee puts the  *)
(* fees on top of this module, RateLimit is modelled on its own.           *)
(***************************************************************************)
EXTENDS ParachainRegistry, Bank, FiniteSetsExt

CONSTANTS
  User,           \* accounts that sign transactions
  Amount,         \* the amounts of a transfer
  GenesisBalance, \* [User -> [Native -> Nat]]: native coins at genesis
  GenesisSupply,  \* [Native -> Nat]: their sums
  RemoteSupply,   \* [Channel -> [Asset -> Nat]]: assets on the counterparties
  MaxSeq          \* [Channel -> Nat]: bound on the packets sent over a channel

(* A voucher is the hash of its trace: this chain's end of the channel it   *)
(* came over and its name on the counterparty.                              *)
Voucher(c, a) == <<c, a>>
VouchersOf(c) == {Voucher(c, a) : a \in Asset}

(* GetEscrowAddress is injective on channels.                               *)
EscrowAddress(c) == c

ASSUME TransferAssumption ==
  /\ Ibc = Channel \X Asset
  /\ Denom = Native \cup Ibc
  /\ Native \cap Ibc = {}
  /\ Asset \cap Denom = {}
  /\ Account = User \cup Channel
  /\ User \cap Channel = {}
  /\ IsFiniteSet(User) /\ IsFiniteSet(Channel)
  /\ Amount \subseteq Nat \ {0}
  /\ GenesisBalance \in [User -> [Native -> Nat]]
  /\ GenesisSupply \in [Native -> Nat]
  /\ \A n \in Native :
       GenesisSupply[n] = SumFunctionOnSet([u \in User |-> GenesisBalance[u][n]], User)
  /\ RemoteSupply \in [Channel -> [Asset -> Nat]]
  /\ MaxSeq \in [Channel -> Nat]

(* Governance registers the voucher that the asset has on the channel, and  *)
(* one native denomination per voucher.                                     *)
ASSUME CatalogueAssumption ==
  /\ \A e \in Catalogue : e.ibc = Voucher(e.channel, e.asset)
  /\ \A e, f \in Catalogue : e.native = f.native \/ e.ibc = f.ibc => e = f

VARIABLES
  ledger,    \* bank state
  inflight,  \* packets sent and neither acknowledged nor timed out
  nextSeq,   \* next send sequence of each channel
  remote,    \* per channel: coins at large on the counterparty
  donated    \* history: vouchers put in their escrow account by hand

bridgeVars == <<ledger, inflight, nextSeq, remote, donated>>
vars == <<registryVars, bridgeVars>>

Packet == [seq: Nat, channel: Channel, denom: Denom, amount: Nat \ {0},
           sender: User, status: {"sent", "ok", "error"}]

Init ==
  /\ RegistryInit
  /\ ledger = [bal |-> [a \in Account |-> [d \in Denom |->
                          IF a \in User /\ d \in Native THEN GenesisBalance[a][d] ELSE 0]],
               supply |-> [d \in Denom |-> IF d \in Native THEN GenesisSupply[d] ELSE 0]]
  /\ inflight = {}
  /\ nextSeq = [c \in Channel |-> 1]
  /\ remote = [c \in Channel |-> [d \in Asset \cup Denom |->
                 IF d \in Asset THEN RemoteSupply[c][d] ELSE 0]]
  /\ donated = [v \in Ibc |-> 0]

-----------------------------------------------------------------------------
(* A coin whose trace starts with the channel came over it; any other coin  *)
(* has this chain as its source there (transfertypes.SenderChainIsSource).  *)
SenderChainIsSource(c, d) == d \notin VouchersOf(c)

(* A voucher that reaches its own escrow account without being converted.   *)
DonationTo(a, d, x) ==
  donated' = [v \in Ibc |-> IF v = d /\ a = EscrowAddress(v[1]) THEN donated[v] + x ELSE donated[v]]

EmitPacket(u, c, d, x) ==
  /\ nextSeq[c] <= MaxSeq[c]
  /\ nextSeq' = [nextSeq EXCEPT ![c] = @ + 1]
  /\ inflight' = inflight \cup
       {[seq |-> nextSeq[c], channel |-> c, denom |-> d, amount |-> x,
         sender |-> u, status |-> "sent"]}
-----------------------------------------------------------------------------
(* The transfer application's SendTransfer: a coin of this chain is locked  *)
(* in the channel's escrow account, a voucher going home is burned.         *)
SendTransfer(L, u, c, d, x) ==
  IF SenderChainIsSource(c, d) THEN SendCoins(L, u, EscrowAddress(c), d, x)
                               ELSE BurnFrom(L, u, d, x)

(* A mutation of IsConverted: whatever the channel.                         *)
IsConvertedOnAnyChannel(c, d) == InfoOfNative(d).native = d

(* SendPacket's test that the coin is a registered native coin going back   *)
(* over the channel of its info.                                            *)
IsConverted(c, d) ==
  /\ InfoOfNative(d).channel = c
  /\ InfoOfNative(d).native = d

(* A transfer the middleware passes on.                                     *)
TransferPassedOn(u, c, d, x) ==
  /\ ~IsConverted(c, d)
  /\ CanSpend(ledger, u, d, x)
  /\ ledger' = SendTransfer(ledger, u, c, d, x)
  /\ EmitPacket(u, c, d, x)
  /\ UNCHANGED <<remote, donated>>

(* A mutation of NativeBurned: the coin stays in the escrow account.        *)
NativeNotBurned(L, u, c, n, x) == SendTransfer(L, u, c, n, x)

(* handleOverrideSendPacketTransferLogic: the application has locked the    *)
(* native coin; it is burned out of the escrow account, the voucher locked  *)
(* there goes to the sender, and a second transfer sends the voucher home.  *)
(* If the escrow account lacks the voucher the transaction fails.           *)
NativeBurned(L, u, c, n, x) ==
  BurnFrom(SendTransfer(L, u, c, n, x), EscrowAddress(c), n, x)

(* A mutation of VoucherLocked: the error of SendCoins is dropped.          *)
VoucherNotChecked(L, u, c, n, x) == TRUE

VoucherLocked(L, u, c, n, x) ==
  CanSpend(NativeBurned(L, u, c, n, x), EscrowAddress(c), infoByNative[n].ibc, x)

VoucherReleased(L, u, c, n, x) ==
  SendCoins(NativeBurned(L, u, c, n, x), EscrowAddress(c), u, infoByNative[n].ibc, x)

TransferConverted(u, c, n, x) ==
  LET voucher == infoByNative[n].ibc
  IN  /\ IsConverted(c, n)
      /\ CanSpend(ledger, u, n, x)
      /\ VoucherLocked(ledger, u, c, n, x)
      /\ ledger' = SendTransfer(VoucherReleased(ledger, u, c, n, x), u, c, voucher, x)
      /\ EmitPacket(u, c, voucher, x)
      /\ UNCHANGED <<remote, donated>>

-----------------------------------------------------------------------------
(* The application's refundPacketToken, shared by error acknowledgements    *)
(* and timeouts.                                                            *)
RefundPacketToken(L, p) ==
  IF SenderChainIsSource(p.channel, p.denom)
    THEN SendCoins(L, EscrowAddress(p.channel), p.sender, p.denom, p.amount)
    ELSE MintTo(L, p.sender, p.denom, p.amount)

(* The info refundToken converts by, found through the voucher's key.       *)
RefundInfo(p) == InfoOfNative(NativeOfIbc(p.denom))

IsRefundConverted(p) ==
  /\ ~SenderChainIsSource(p.channel, p.denom)
  /\ RefundInfo(p) # EmptyInfo
  /\ p.channel = RefundInfo(p).channel

(* Mutations of RefundToken: the voucher is not locked; the native coin is  *)
(* not minted.                                                              *)
RefundTokenUnlocked(L, p) ==
  IF IsRefundConverted(p) THEN MintTo(L, p.sender, RefundInfo(p).native, p.amount) ELSE L
RefundTokenUnminted(L, p) ==
  IF IsRefundConverted(p)
    THEN SendCoins(L, p.sender, EscrowAddress(RefundInfo(p).channel), p.denom, p.amount)
    ELSE L

(* The keeper's refundToken, on the ledger the application left.            *)
RefundToken(L, p) ==
  IF IsRefundConverted(p)
    THEN MintTo(SendCoins(L, p.sender, EscrowAddress(RefundInfo(p).channel), p.denom, p.amount),
                p.sender, RefundInfo(p).native, p.amount)
    ELSE L

(* The application fails, and the packet stays, if it cannot pay.           *)
CanRefund(p) ==
  SenderChainIsSource(p.channel, p.denom) =>
    CanSpend(ledger, EscrowAddress(p.channel), p.denom, p.amount)

Refund(p) ==
  /\ CanRefund(p)
  /\ ledger' = RefundToken(RefundPacketToken(ledger, p), p)
  /\ inflight' = inflight \ {p}
  /\ UNCHANGED <<nextSeq, remote, donated>>

OnTimeoutPacket(p) == p.status = "sent" /\ Refund(p)

OnAcknowledgementPacket(p) ==
  \/ p.status = "error" /\ Refund(p)
  \/ /\ p.status = "ok"
     /\ inflight' = inflight \ {p}
     /\ UNCHANGED <<ledger, nextSeq, remote, donated>>

-----------------------------------------------------------------------------
(* A mutation of IsReceivedConverted: by the asset's key alone.             *)
IsAssetRegistered(c, a) == InfoOfAsset(a) # EmptyInfo

(* A packet of the counterparty with its own asset a.  The application      *)
(* mints the voucher to the receiver; then OnRecvPacket locks it and mints  *)
(* the native coin if the voucher's key and the asset's key name the same   *)
(* native denomination and the info is for this channel.                    *)
IsReceivedConverted(c, a) ==
  /\ NativeOfIbc(Voucher(c, a)) = InfoOfAsset(a).native
  /\ InfoOfAsset(a).channel = c

ReceivedLedger(c, a, x, to) ==
  LET vouchered == MintTo(ledger, to, Voucher(c, a), x)
  IN  IF IsReceivedConverted(c, a)
        THEN MintTo(SendCoins(vouchered, to, EscrowAddress(c), Voucher(c, a), x),
                    to, infoByAsset[a].native, x)
        ELSE vouchered

OnRecvAsset(c, a, x, to) ==
  /\ remote[c][a] >= x
  /\ remote' = [remote EXCEPT ![c][a] = @ - x]
  /\ ledger' = ReceivedLedger(c, a, x, to)
  /\ IF IsReceivedConverted(c, a) THEN UNCHANGED donated ELSE DonationTo(to, Voucher(c, a), x)
  /\ UNCHANGED <<inflight, nextSeq>>

(* A packet that brings a coin of this chain back: the application unlocks  *)
(* it and the middleware does nothing (ReceiverChainIsSource).  If the      *)
(* escrow account lacks it, the packet is answered with an error and its    *)
(* effects are dropped.                                                     *)
OnRecvReturned(c, d, x, to) ==
  /\ remote[c][d] >= x
  /\ SenderChainIsSource(c, d)
  /\ CanSpend(ledger, EscrowAddress(c), d, x)
  /\ remote' = [remote EXCEPT ![c][d] = @ - x]
  /\ ledger' = SendCoins(ledger, EscrowAddress(c), to, d, x)
  /\ DonationTo(to, d, x)
  /\ UNCHANGED <<inflight, nextSeq>>

-----------------------------------------------------------------------------
(* The environment: a plain bank send, to an escrow account too.            *)
BankSend(u, to, d, x) ==
  /\ CanSpend(ledger, u, d, x)
  /\ ledger' = SendCoins(ledger, u, to, d, x)
  /\ DonationTo(to, d, x)
  /\ UNCHANGED <<inflight, nextSeq, remote>>

RemoteName(c, d) == IF SenderChainIsSource(c, d) THEN d ELSE d[2]

(* The environment: the counterparty receives a packet, or refuses it.      *)
Deliver(p) ==
  /\ p.status = "sent"
  /\ \/ /\ inflight' = (inflight \ {p}) \cup {[p EXCEPT !.status = "ok"]}
        /\ remote' = [remote EXCEPT ![p.channel][RemoteName(p.channel, p.denom)] = @ + p.amount]
     \/ /\ inflight' = (inflight \ {p}) \cup {[p EXCEPT !.status = "error"]}
        /\ UNCHANGED remote
  /\ UNCHANGED <<ledger, nextSeq, donated>>

UserTx ==
  \E u \in User, x \in Amount :
    \/ \E c \in Channel, d \in Denom : TransferPassedOn(u, c, d, x)
    \/ \E c \in Channel, n \in Native : TransferConverted(u, c, n, x)
    \/ \E to \in Account, d \in Denom : BankSend(u, to, d, x)

ReceiveTx ==
  \E c \in Channel, x \in Amount, to \in Account :
    \/ \E a \in Asset : OnRecvAsset(c, a, x, to)
    \/ \E d \in Denom : OnRecvReturned(c, d, x, to)

PacketStep ==
  \E p \in inflight : OnTimeoutPacket(p) \/ OnAcknowledgementPacket(p) \/ Deliver(p)

BridgeStep == (UserTx \/ ReceiveTx \/ PacketStep) /\ UNCHANGED registryVars
RegistryStep == RegistryNext /\ UNCHANGED bridgeVars

Next == BridgeStep \/ RegistryStep
Spec == Init /\ [][Next]_vars
-----------------------------------------------------------------------------
(* Balances, like sequences, are naturals: no handler takes out of an       *)
(* account what it has not checked to be there.                             *)
TypeOK ==
  /\ RegistryTypeOK
  /\ ledger \in Ledger
  /\ inflight \subseteq Packet
  /\ nextSeq \in [Channel -> Nat]
  /\ remote \in [Channel -> [Asset \cup Denom -> Nat]]
  /\ donated \in [Ibc -> Nat]

(* Coins on their way out over c as d that nobody holds at the moment.      *)
PendingPackets(c, d) == {p \in inflight : p.channel = c /\ p.denom = d /\ p.status # "ok"}

Pending(c, d) == SumFunctionOnSet([p \in inflight |-> p.amount], PendingPackets(c, d))

(* Every native coin minted against a voucher has that voucher locked in    *)
(* the escrow account, and every locked voucher that nobody gave away has   *)
(* its native coin, however sends, receipts, refunds, registrations and     *)
(* removals interleave (ics4wrapper.go, relay.go).                          *)
Backing ==
  \A e \in Catalogue :
    ledger.bal[EscrowAddress(e.channel)][e.ibc]
      = ledger.supply[e.native] - GenesisSupply[e.native] + donated[e.ibc]

(* The total supply shared with the counterparty stays what it was: what is *)
(* at large there, on its way, held here as voucher or as minted native     *)
(* coin, and given away (spec/readme.md, "shared total supply").            *)
SharedSupply ==
  \A e \in Catalogue :
    LET c == e.channel
        held == SumFunctionOnSet([a \in Account |-> ledger.bal[a][e.ibc]],
                                 Account \ {EscrowAddress(c)})
        minted == ledger.supply[e.native] - GenesisSupply[e.native]
    IN  remote[c][e.asset] + Pending(c, e.ibc) + held + minted + donated[e.ibc]
          = RemoteSupply[c][e.asset]

(* Conversions never use up coins of this chain that an escrow account      *)
(* holds for the other side: it can always pay what is out there.           *)
EscrowSolvent ==
  \A c \in Channel : \A d \in Denom \ VouchersOf(c) :
    ledger.bal[EscrowAddress(c)][d] >= remote[c][d] + Pending(c, d)

(* What an account holds of d, as the coin itself or as the native coin its *)
(* voucher may be converted into.                                           *)
Holding(L, a, d) ==
  L.bal[a][d]
    + SumFunctionOnSet([e \in Catalogue |-> L.bal[a][e.native]], {e \in Catalogue : e.ibc = d})

(* A refused or timed out packet pays its amount back to its sender, once,  *)
(* as the coin sent or as its native coin, whatever was registered or       *)
(* removed since it left; and no other step takes it out of flight.         *)
RefundsReachSender ==
  [][\A p \in inflight \ inflight' :
       \/ \E q \in inflight' : q.channel = p.channel /\ q.seq = p.seq
       \/ p.status = "ok" /\ ledger' = ledger
       \/ Holding(ledger', p.sender, p.denom)
            = Holding(ledger, p.sender, p.denom) + p.amount]_vars

(* If the native coins of genesis were backed when the bridge was launched, *)
(* by vouchers put in the escrow account (spec/readme.md, relay_test.go),   *)
(* any holder's coins can be sent home: no send fails in the middle for     *)
(* want of a locked voucher.                                                *)
NativeRedeemable ==
  \A e \in Catalogue :
    donated[e.ibc] >= GenesisSupply[e.native] =>
      \A u \in User : CanSpend(ledger, EscrowAddress(e.channel), e.ibc, ledger.bal[u][e.native])
-----------------------------------------------------------------------------
(* What an account has of the coin that the info e stands for: as voucher   *)
(* or as native coin.  A voucher in its escrow account is the cover of a    *)
(* native coin somewhere, unless it was put there by hand.                  *)
PurseOf(e, a) ==
  ledger.bal[a][e.native] +
    (IF a = EscrowAddress(e.channel) THEN donated[e.ibc] ELSE ledger.bal[a][e.ibc])

ParcelsOf(e) ==
  {[coin |-> e, sender |-> p.sender, amount |-> p.amount, number |-> p.seq] :
     p \in {p \in inflight : p.denom = e.ibc /\ p.channel = e.channel /\ p.status # "ok"}}

ParcelsUnderWay == UNION {ParcelsOf(e) : e \in Catalogue}

(* The bridge's state, as SharedLedger's variables.                         *)
SharedAbroad == [e \in Catalogue |-> remote[e.channel][e.asset]]
SharedPurse == [e \in Catalogue |-> [a \in Account |-> PurseOf(e, a)]]

Shared == INSTANCE SharedLedger WITH
  Coin     <- Catalogue,
  Holder   <- Account,
  Quantity <- Amount,
  Abroad0  <- [e \in Catalogue |-> RemoteSupply[e.channel][e.asset]],
  Purse0   <- [e \in Catalogue |-> [a \in Account |->
                IF a \in User THEN GenesisBalance[a][e.native] ELSE 0]],
  abroad   <- SharedAbroad,
  purse    <- SharedPurse,
  parcels  <- ParcelsUnderWay

(* The bridge is one shared coin to those who use it: whatever form a coin  *)
(* has, and whatever is registered, removed or converted meanwhile, every   *)
(* step is a payment, a receipt, a sending, an arrival or a return of       *)
(* SharedLedger, or changes nothing there (ics4wrapper.go, relay.go).       *)
ImplementsSharedLedger == Shared!SharedSpec
=============================================================================
