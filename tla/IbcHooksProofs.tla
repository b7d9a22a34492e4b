---------------------------- MODULE IbcHooksProofs ----------------------------
(***************************************************************************)
(* Proofs about the hooks: the store has a callback for each packet under  *)
(* way that asked for one, unless a restart lost it, and for no other; a   *)
(* contract is told of a packet at most once and told the truth, a packet  *)
(* that calls a contract strands no coins, and the bridge stays backed and *)
(* its books balance with contracts called in the middle of its receipts,  *)
(* for any channels, contracts and bounds.                                 *)
(*                                                                         *)
(* The first two are not inductive alone. That the callback of a new       *)
(* packet does not meet one of an old packet rests on the sequences: what  *)
(* is under way, was asked for or told is below its channel's next         *)
(* sequence. StrandInv is what makes the last one inductive: what an       *)
(* intermediary holds is what it was given outside of packets, and no      *)
(* packet under way would refund one.                                      *)
(***************************************************************************)
EXTENDS IbcHooks, TransferMiddlewareProofs

HasCallback == {Key(b) : b \in callbacks}

CallbacksSound ==
  /\ asked \subseteq Channel \X Nat
  /\ \A k \in asked : k[2] < nextSeq[k[1]]
  /\ callbacks \subseteq Callback
  /\ HasCallback = asked \cap UnderWay
  /\ \A b, q \in callbacks : Key(b) = Key(q) => b = q

Telling == [channel: Channel, seq: Nat, outcome: {"ok", "error", "timeout"}]

ToldSound ==
  /\ told \in Seq(Telling)
  /\ \A m, n \in DOMAIN told : Key(told[m]) = Key(told[n]) => m = n
  /\ \A m \in DOMAIN told : Key(told[m]) \in asked \ UnderWay

(* The invariant behind the theorem on callbacks.                           *)
HookInv == PacketsSound /\ CallbacksSound /\ ToldSound

(* At genesis there is no packet and no callback.                           *)
LEMMA HookInitInv == HookInit => HookInv
<1> SUFFICES ASSUME HookInit PROVE HookInv
  OBVIOUS
<1>1. /\ inflight = {} /\ nextSeq = [c \in Channel |-> 1]
      /\ callbacks = {} /\ asked = {} /\ told = <<>>
  BY DEF HookInit, Init
<1> QED
  BY ONLY <1>1 DEF HookInv, PacketsSound, CallbacksSound, ToldSound, HasCallback, UnderWay
-----------------------------------------------------------------------------
(* A step that leaves packets and hooks alone.                              *)
LEMMA NothingKeepsInv ==
  ASSUME HookInv, UNCHANGED <<inflight, nextSeq, callbacks, asked, told>>
  PROVE  HookInv'
BY DEF HookInv, PacketsSound, CallbacksSound, ToldSound, HasCallback, UnderWay

-----------------------------------------------------------------------------
(* The counterparty's answer concerns no hook.                              *)
LEMMA DeliverKeepsInv ==
  ASSUME HookInv, NEW p \in inflight, Deliver(p), UNCHANGED hookVars
  PROVE  HookInv'
<1>1. PacketsSound' /\ UNCHANGED nextSeq /\ UnderWay' = UnderWay
  BY DeliverKeepsPackets DEF HookInv
<1>2. UNCHANGED <<callbacks, asked, told>>
  BY DEF hookVars
<1>3. CallbacksSound' /\ ToldSound'
  BY <1>1, <1>2 DEF HookInv, CallbacksSound, ToldSound, HasCallback
<1> QED BY <1>1, <1>3 DEF HookInv

(* A transfer, with a callback or without.                                  *)
LEMMA SendKeepsInv ==
  ASSUME HookInv, NEW u, NEW c \in Channel, NEW d, NEW x, EmitPacket(u, c, d, x),
         UNCHANGED told,
         \/ UNCHANGED <<callbacks, asked>>
         \/ \E k \in Contract : /\ SendPacketOverride(c, k)
                                /\ asked' = asked \cup {<<c, nextSeq[c]>>}
  PROVE  HookInv'
<1> DEFINE new == <<c, nextSeq[c]>>
<1>1. /\ PacketsSound'
      /\ new \notin UnderWay
      /\ UnderWay' = UnderWay \cup {new}
      /\ \A b \in Channel : nextSeq[b] \in Nat /\ nextSeq'[b] \in Nat /\ nextSeq[b] <= nextSeq'[b]
      /\ nextSeq[c] < nextSeq'[c]
  BY EmitKeepsPackets DEF HookInv
<1>2. asked \subseteq Channel \X Nat /\ \A k \in asked : k[2] < nextSeq[k[1]]
  BY DEF HookInv, CallbacksSound
<1>3. new \notin asked
  BY <1>1, <1>2
<1>4. \A k \in asked : k[2] < nextSeq'[k[1]]
  <2> SUFFICES ASSUME NEW k \in asked PROVE k[2] < nextSeq'[k[1]]
    OBVIOUS
  <2>1. PICK b \in Channel, s \in Nat : k = <<b, s>> /\ s < nextSeq[b]
    BY <1>2
  <2>2. s < nextSeq'[b]
    BY <1>1, <2>1
  <2> QED BY <2>1, <2>2
<1>5. CallbacksSound'
  <2>1. CASE UNCHANGED <<callbacks, asked>>
    BY <1>1, <1>3, <1>4, <2>1 DEF HookInv, CallbacksSound, HasCallback
  <2>2. ASSUME NEW k \in Contract, SendPacketOverride(c, k), asked' = asked \cup {new}
        PROVE  CallbacksSound'
    <3> DEFINE kept == [channel |-> c, seq |-> nextSeq[c], contract |-> k]
    <3>1. kept \in Callback /\ Key(kept) = new
      BY <1>1 DEF Callback, Key
    <3>2. callbacks' = callbacks \cup {kept}
      BY <2>2 DEF SendPacketOverride
    <3> HIDE DEF kept, new
    <3>3. callbacks' \subseteq Callback
      BY <3>1, <3>2 DEF HookInv, CallbacksSound
    <3>4. asked' \subseteq Channel \X Nat /\ \A a \in asked' : a[2] < nextSeq'[a[1]]
      BY <1>1, <1>2, <1>4, <2>2 DEF new
    <3>5. HasCallback' = HasCallback \cup {new}
      BY <3>1, <3>2 DEF HasCallback, Key
    <3>6. HasCallback' = asked' \cap UnderWay'
      BY <1>1, <1>3, <2>2, <3>5 DEF HookInv, CallbacksSound
    <3>7. \A b \in callbacks : Key(b) # new
      BY <1>1 DEF HookInv, CallbacksSound, HasCallback
    <3>8. \A b, q \in callbacks' : Key(b) = Key(q) => b = q
      BY <3>1, <3>2, <3>7 DEF HookInv, CallbacksSound
    <3> QED BY <3>3, <3>4, <3>6, <3>8 DEF CallbacksSound, Key
  <2> QED BY <2>1, <2>2
<1>6. asked \subseteq asked'
  OBVIOUS
<1>7. ToldSound'
  BY <1>1, <1>3, <1>6 DEF HookInv, ToldSound
<1> QED BY <1>1, <1>5, <1>7 DEF HookInv

(* A packet is answered: its callback goes with it, told or not.            *)
LEMMA AnswerKeepsInv ==
  ASSUME HookInv, NEW p \in inflight, inflight' = inflight \ {p}, UNCHANGED <<nextSeq, asked>>,
         \/ PacketCallback(p) = {} /\ UNCHANGED <<callbacks, told>>
         \/ /\ PacketCallback(p) # {}
            /\ DeletePacketCallback(p)
            /\ \/ UNCHANGED told
               \/ \E o \in {"ok", "error", "timeout"} : Tell(p, o)
  PROVE  HookInv'
<1>1. PacketsSound' /\ UnderWay' = UnderWay \ {Key(p)}
  BY RemoveKeepsPackets DEF HookInv
<1>2. p.channel \in Channel /\ p.seq \in Nat /\ Key(p) \in UnderWay
  BY DEF HookInv, PacketsSound, UnderWay
<1>3. callbacks' = callbacks \ PacketCallback(p)
  BY DEF DeletePacketCallback
<1>4. CallbacksSound'
  <2>1. HasCallback' = HasCallback \ {Key(p)}
    BY <1>3 DEF HasCallback, PacketCallback, Key
  <2>2. HasCallback' = asked' \cap UnderWay'
    BY <1>1, <2>1 DEF HookInv, CallbacksSound
  <2>3. callbacks' \subseteq callbacks
    BY <1>3
  <2>4. /\ callbacks' \subseteq Callback
        /\ \A b, q \in callbacks' : Key(b) = Key(q) => b = q
    BY <2>3 DEF HookInv, CallbacksSound
  <2>5. asked' \subseteq Channel \X Nat /\ \A k \in asked' : k[2] < nextSeq'[k[1]]
    BY DEF HookInv, CallbacksSound
  <2> QED BY <2>2, <2>4, <2>5 DEF CallbacksSound, Key
<1>5. ToldSound'
  <2>1. CASE UNCHANGED told
    BY <1>1, <2>1 DEF HookInv, ToldSound
  <2>2. ASSUME NEW o \in {"ok", "error", "timeout"}, Tell(p, o), PacketCallback(p) # {}
        PROVE  ToldSound'
    <3> DEFINE t == [channel |-> p.channel, seq |-> p.seq, outcome |-> o]
    <3>1. t \in Telling /\ Key(t) = Key(p)
      BY <1>2 DEF Telling, Key
    <3>2. told' = Append(told, t)
      BY <2>2 DEF Tell
    <3> HIDE DEF t
    <3>3. told \in Seq(Telling)
      BY DEF HookInv, ToldSound
    <3>4. /\ told' \in Seq(Telling)
          /\ DOMAIN told' = DOMAIN told \cup {Len(told) + 1}
          /\ \A m \in DOMAIN told : told'[m] = told[m]
          /\ told'[Len(told) + 1] = t
      BY <3>1, <3>2, <3>3
    <3>5. Key(p) \in asked
      <4>1. PICK b \in PacketCallback(p) : TRUE
        BY <2>2
      <4>2. b \in callbacks /\ Key(b) = Key(p)
        BY <4>1 DEF PacketCallback, Key
      <4> QED BY <4>2 DEF HookInv, CallbacksSound, HasCallback
    <3>6. \A m \in DOMAIN told : Key(told[m]) \in asked \ UnderWay
      BY DEF HookInv, ToldSound
    <3>7. \A m \in DOMAIN told : Key(told'[m]) = Key(told[m])
      BY <3>4
    <3>8. Key(told'[Len(told) + 1]) = Key(p)
      BY <3>1, <3>4
    <3>9. ASSUME NEW m \in DOMAIN told', NEW n \in DOMAIN told',
                 Key(told'[m]) = Key(told'[n])
          PROVE  m = n
      BY <1>2, <3>4, <3>6, <3>7, <3>8, <3>9 DEF HookInv, ToldSound
    <3>10. \A m \in DOMAIN told' : Key(told'[m]) \in asked' \ UnderWay'
      BY <1>1, <3>4, <3>5, <3>6, <3>7, <3>8
    <3> QED BY <3>4, <3>9, <3>10 DEF ToldSound, Key
  <2> QED BY <2>1, <2>2
<1> QED BY <1>1, <1>4, <1>5 DEF HookInv

(* A restart loses the callbacks of all packets under way that asked, and   *)
(* what was told is of no packet under way.                                 *)
LEMMA ForgetKeepsInv ==
  ASSUME HookInv, RestartForgetsCallbacks
  PROVE  HookInv'
<1>1. /\ callbacks' = {} /\ asked' = asked \ HasCallback
      /\ UNCHANGED <<inflight, nextSeq, told>>
  BY DEF RestartForgetsCallbacks, bridgeVars, HasCallback, Key
<1>2. PacketsSound' /\ UnderWay' = UnderWay
  BY <1>1 DEF HookInv, PacketsSound, UnderWay
<1>3. HasCallback = asked \cap UnderWay /\ HasCallback' = {}
  BY <1>1 DEF HookInv, CallbacksSound, HasCallback
<1>4. HasCallback' = asked' \cap UnderWay'
  BY <1>1, <1>2, <1>3
<1>5. CallbacksSound'
  BY <1>1, <1>4 DEF HookInv, CallbacksSound
<1>6. ToldSound'
  BY <1>1, <1>2, <1>3 DEF HookInv, ToldSound
<1> QED BY <1>2, <1>5, <1>6 DEF HookInv
-----------------------------------------------------------------------------
(* It is inductive.                                                         *)
LEMMA HookStepInv == HookInv /\ [HookNext]_allVars => HookInv'
<1> SUFFICES ASSUME HookInv, [HookNext]_allVars
             PROVE  HookInv'
  OBVIOUS
<1>1. CASE OnRecvPacketOverride
  <2>1. UNCHANGED <<inflight, nextSeq, callbacks, asked, told>>
    BY <1>1 DEF OnRecvPacketOverride, OnRecvAssetOverride, OnRecvReturnedOverride, OnRecvPlain,
                OnRecvAsset, OnRecvReturned, hookVars
  <2> QED BY <2>1, NothingKeepsInv
<1>2. CASE HookedTransfer
  <2>1. PICK u \in Signer \cup Contract, c \in Channel, d \in Denom, x \in Amount :
          TransferPlain(u, c, d, x) \/ \E k \in Contract : TransferWithCallback(u, c, d, x, k)
    BY <1>2 DEF HookedTransfer
  <2>2. ASSUME UserTransfer(u, c, d, x)
        PROVE  \E v : EmitPacket(u, c, v, x)
    BY <2>2 DEF UserTransfer, TransferPassedOn, TransferConverted
  <2>3. CASE TransferPlain(u, c, d, x)
    BY <2>2, <2>3, SendKeepsInv DEF TransferPlain, hookVars
  <2>4. ASSUME NEW k \in Contract, TransferWithCallback(u, c, d, x, k)
        PROVE  HookInv'
    BY <2>2, <2>4, SendKeepsInv DEF TransferWithCallback
  <2> QED BY <2>1, <2>3, <2>4
<1>3. CASE HookedPacketStep
  <2>1. PICK p \in inflight : \/ OnAcknowledgementPacketOverride(p)
                              \/ OnTimeoutPacketOverride(p)
                              \/ Deliver(p) /\ UNCHANGED hookVars
    BY <1>3 DEF HookedPacketStep
  <2>2. CASE OnAcknowledgementPacketOverride(p)
    <3>1. inflight' = inflight \ {p} /\ UNCHANGED nextSeq /\ p.status \in {"ok", "error"}
      BY <2>2 DEF OnAcknowledgementPacketOverride, OnAcknowledgementPacket, Refund
    <3> QED BY <2>2, <3>1, AnswerKeepsInv DEF OnAcknowledgementPacketOverride, OutcomeOf
  <2>3. CASE OnTimeoutPacketOverride(p)
    <3>1. inflight' = inflight \ {p} /\ UNCHANGED nextSeq
      BY <2>3 DEF OnTimeoutPacketOverride, OnTimeoutPacket, Refund
    <3> QED BY <2>3, <3>1, AnswerKeepsInv DEF OnTimeoutPacketOverride
  <2>4. CASE Deliver(p) /\ UNCHANGED hookVars
    BY <2>4, DeliverKeepsInv
  <2> QED BY <2>1, <2>2, <2>3, <2>4
<1>4. CASE GiveCoins
  BY <1>4, NothingKeepsInv DEF GiveCoins, BankSend
<1>5. CASE UNCHANGED <<bridgeVars, hookVars>>
  BY <1>5, NothingKeepsInv DEF bridgeVars, hookVars
<1>6. CASE RestartForgetsCallbacks
  BY <1>6, ForgetKeepsInv
<1> QED BY <1>1, <1>2, <1>3, <1>4, <1>5, <1>6 DEF HookNext, allVars, vars

(* So it holds always.                                                      *)
LEMMA HookInvariance == HookSpec => []HookInv
BY HookInitInv, HookStepInv, PTL DEF HookSpec

(* The store's callbacks are those of the packets under way that asked for  *)
(* one and did not lose it to a restart, each once: a packet never finds    *)
(* the callback of another channel's packet, or of one before it            *)
(* (CallbacksOfPackets).                                                    *)
THEOREM CallbacksAreOfPackets == HookSpec => []CallbacksOfPackets
<1>1. HookInv => CallbacksOfPackets
  BY DEF HookInv, CallbacksSound, CallbacksOfPackets, HasCallback, UnderWay, Key
<1> QED BY <1>1, HookInvariance, PTL

(* No contract is told twice how a packet ended, or of a packet that is     *)
(* still under way or did not ask (ToldOnce).                               *)
THEOREM ContractsToldOnce == HookSpec => []ToldOnce
<1>1. HookInv => ToldOnce
  BY DEF HookInv, ToldSound, ToldOnce, UnderWay, Key
<1> QED BY <1>1, HookInvariance, PTL
-----------------------------------------------------------------------------
(* Contracts called on receipt: the coins of a received packet go on from   *)
(* the intermediary to the contract, none of which is an escrow account, so *)
(* that the bridge's invariant survives the step that is no step of         *)
(* TransferMiddleware.                                                      *)
LEMMA ActorsAreUsers ==
  /\ \A c \in Channel : Intermediary[c] \subseteq User
  /\ Contract \subseteq User /\ Signer \subseteq User
BY HookAssumption

(* A payment between two users, who are no escrow accounts, keeps backing.  *)
LEMMA BackedByUsers ==
  ASSUME NEW L \in Ledger, NEW u \in User, NEW w \in User, NEW d \in Denom, NEW x \in Nat,
         CanSpend(L, u, d, x), NEW g \in [Ibc -> Nat], BackedBy(L, g)
  PROVE  SendCoins(L, u, w, d, x) \in Ledger /\ BackedBy(SendCoins(L, u, w, d, x), g)
<1>1. u \in Account /\ w \in Account
  BY TransferAssumption
<1>2. \A e \in Catalogue : e.channel # u /\ e.channel # w /\ g[e.ibc] \in Nat
  BY CatalogueCoins
<1> QED BY <1>1, <1>2, BackedBySend

(* A receipt from abroad that calls a contract: the stack below receives    *)
(* for the intermediary, and the contract takes the coins                   *)
(* (OnRecvPacketOverride).                                                  *)
LEMMA OnRecvAssetOverrideStep ==
  ASSUME RegistryInv, BridgeInv, NEW c \in Channel, NEW a \in Asset, NEW x \in Amount,
         NEW i \in User, NEW k \in User, OnRecvAssetOverride(c, a, x, i, k)
  PROVE  BridgeInv'
<1> DEFINE M == ReceivedLedger(c, a, x, i)
<1>1. /\ x \in Nat /\ Voucher(c, a) \in Denom /\ i \in Account /\ donated \in [Ibc -> Nat]
      /\ a \in Asset \cup Denom
  BY TransferAssumption DEF BridgeInv, BridgeTypeOK, Voucher
<1>2. M \in Ledger /\ BackedBy(M, donated)
  <2>1. M \in Ledger
    BY <1>1, ReceivedLedgerBacked
  <2>2. ASSUME NEW e \in Catalogue
        PROVE  M.bal[e.channel][e.ibc]
                 = M.supply[e.native] - GenesisSupply[e.native] + donated[e.ibc]
    <3>1. e.channel # i
      BY CatalogueCoins
    <3>2. M.supply[e.native] - GenesisSupply[e.native] + donated[e.ibc] \in Int
      BY <1>1, <2>1, CatalogueCoins DEF Ledger
    <3>3. M.bal[e.channel][e.ibc]
            = M.supply[e.native] - GenesisSupply[e.native] + donated[e.ibc]
                + (IF ~IsReceivedConverted(c, a) /\ e.channel = i /\ e.ibc = Voucher(c, a)
                     THEN x ELSE 0)
      BY <1>1, ReceivedLedgerBacked
    <3> HIDE DEF M
    <3> QED BY <3>1, <3>2, <3>3
  <2> QED BY <2>1, <2>2 DEF BackedBy
<1> HIDE DEF M
<1>3. ledger' \in Ledger /\ BackedBy(ledger', donated)
  BY <1>1, <1>2, BackedByUsers DEF OnRecvAssetOverride, CanExecute, ExecuteContract, M
<1>4. remote' \in [Channel -> [Asset \cup Denom -> Nat]]
  <2>1. remote \in [Channel -> [Asset \cup Denom -> Nat]]
    BY DEF BridgeInv, BridgeTypeOK
  <2>2. remote' = [remote EXCEPT ![c][a] = @ - x] /\ remote[c][a] >= x
    BY DEF OnRecvAssetOverride
  <2>3. remote[c][a] \in Nat
    BY <1>1, <2>1
  <2>4. remote[c][a] - x \in Nat
    BY <1>1, <2>2, <2>3
  <2> QED BY <1>1, <2>1, <2>2, <2>4
<1>5. UNCHANGED <<inflight, nextSeq, donated>>
  BY DEF OnRecvAssetOverride
<1> QED BY <1>3, <1>4, <1>5 DEF BridgeInv, BridgeTypeOK, BackedBy

(* The same for a coin of this chain that comes back out of escrow.         *)
LEMMA OnRecvReturnedOverrideStep ==
  ASSUME BridgeInv, NEW c \in Channel, NEW d \in Denom, NEW x \in Amount,
         NEW i \in User, NEW k \in User, OnRecvReturnedOverride(c, d, x, i, k)
  PROVE  BridgeInv'
<1> DEFINE M == SendCoins(ledger, c, i, d, x)
<1>1. /\ x \in Nat /\ i \in Account /\ c \in Account /\ donated \in [Ibc -> Nat]
      /\ ledger \in Ledger /\ BackedBy(ledger, donated)
      /\ d \in Asset \cup Denom
  BY TransferAssumption DEF BridgeInv, BridgeTypeOK
<1>2. M \in Ledger /\ BackedBy(M, donated)
  <2>1. CanSpend(ledger, c, d, x) /\ d \notin VouchersOf(c)
    BY DEF OnRecvReturnedOverride, EscrowAddress, SenderChainIsSource
  <2>2. \A e \in Catalogue : ~(e.channel = c /\ e.ibc = d)
    BY <2>1, CatalogueCoins
  <2>3. \A e \in Catalogue : e.channel # i /\ donated[e.ibc] \in Nat
    BY <1>1, CatalogueCoins
  <2> QED BY <1>1, <2>1, <2>2, <2>3, BackedBySend
<1> HIDE DEF M
<1>3. ledger' \in Ledger /\ BackedBy(ledger', donated)
  BY <1>1, <1>2, BackedByUsers
     DEF OnRecvReturnedOverride, CanExecute, ExecuteContract, EscrowAddress, M
<1>4. remote' \in [Channel -> [Asset \cup Denom -> Nat]]
  <2>1. remote \in [Channel -> [Asset \cup Denom -> Nat]]
    BY DEF BridgeInv, BridgeTypeOK
  <2>2. remote' = [remote EXCEPT ![c][d] = @ - x] /\ remote[c][d] >= x
    BY DEF OnRecvReturnedOverride
  <2>3. remote[c][d] \in Nat
    BY <1>1, <2>1
  <2>4. remote[c][d] - x \in Nat
    BY <1>1, <2>2, <2>3
  <2> QED BY <1>1, <2>1, <2>2, <2>4
<1>5. UNCHANGED <<inflight, nextSeq, donated>>
  BY DEF OnRecvReturnedOverride
<1> QED BY <1>3, <1>4, <1>5 DEF BridgeInv, BridgeTypeOK, BackedBy

-----------------------------------------------------------------------------
(* The supplies survive it too: what goes from user to user is nothing to   *)
(* the escrow accounts.                                                     *)
LEMMA PaidAmongUsers ==
  ASSUME NEW L \in Ledger, NEW u \in User, NEW w \in User, NEW d \in Denom, NEW x \in Nat,
         CanSpend(L, u, d, x), BooksBalance(L)
  PROVE  /\ SameEscrows(SendCoins(L, u, w, d, x), L)
         /\ BooksBalance(SendCoins(L, u, w, d, x))
<1> DEFINE M == SendCoins(L, u, w, d, x)
<1>1. /\ u \in Account /\ w \in Account /\ Channel \subseteq Account
      /\ u \notin Channel /\ w \notin Channel
  BY TransferAssumption
<1>2. BooksBalance(M)
  BY <1>1, SendKeepsBooks
<1>3. /\ M.supply = L.supply
      /\ \A a \in Account, e \in Denom :
           M.bal[a][e] = L.bal[a][e] - (IF a = u /\ e = d THEN x ELSE 0)
                                     + (IF a = w /\ e = d THEN x ELSE 0)
  BY <1>1, SendCoinsEffect
<1> HIDE DEF M
<1>4. \A a \in Account, e \in Denom : L.bal[a][e] \in Nat
  BY DEF Ledger
<1>5. SameEscrows(M, L)
  BY <1>1, <1>3, <1>4 DEF SameEscrows
<1> QED BY <1>2, <1>5 DEF M

(* A received coin of the counterparty that goes on to a contract.          *)
LEMMA OnRecvAssetOverrideConserves ==
  ASSUME RegistryInv, BridgeInv, ConservedInv, NEW c \in Channel, NEW a \in Asset,
         NEW x \in Amount, NEW i \in User, NEW k \in User, OnRecvAssetOverride(c, a, x, i, k)
  PROVE  ConservedInv'
<1> DEFINE M == ReceivedLedger(c, a, x, i)
           v == Voucher(c, a)
<1>1. /\ x \in Nat /\ v \in Denom /\ i \in Account /\ ledger \in Ledger /\ BooksBalance(ledger)
  BY TransferAssumption DEF BridgeInv, BridgeTypeOK, ConservedInv, Voucher
<1>2. M \in Ledger /\ BooksBalance(M)
  BY <1>1, ReceivedLedgerEffect
<1>3. CanSpend(M, i, v, x) /\ ledger' = SendCoins(M, i, k, v, x)
  BY DEF OnRecvAssetOverride, CanExecute, ExecuteContract
<1> HIDE DEF M, v
<1>4. BooksBalance(ledger') /\ SameEscrows(ledger', M)
  BY <1>1, <1>2, <1>3, PaidAmongUsers
<1>5. /\ remote[c][a] >= x /\ remote' = [remote EXCEPT ![c][a] = @ - x]
      /\ UNCHANGED <<inflight, nextSeq>>
  BY DEF OnRecvAssetOverride
<1> QED BY <1>1, <1>4, <1>5, RecvAssetSettles DEF M

(* A coin of this chain that came back and goes on to a contract.           *)
LEMMA OnRecvReturnedOverrideConserves ==
  ASSUME BridgeInv, ConservedInv, NEW c \in Channel, NEW d \in Denom, NEW x \in Amount,
         NEW i \in User, NEW k \in User, OnRecvReturnedOverride(c, d, x, i, k)
  PROVE  ConservedInv'
<1> DEFINE M == SendCoins(ledger, EscrowAddress(c), i, d, x)
<1>1. /\ x \in Nat /\ i \in Account /\ EscrowAddress(c) \in Account
      /\ ledger \in Ledger /\ BooksBalance(ledger)
  BY TransferAssumption DEF BridgeInv, BridgeTypeOK, ConservedInv, EscrowAddress
<1>2. /\ CanSpend(ledger, EscrowAddress(c), d, x) /\ SenderChainIsSource(c, d)
      /\ remote[c][d] >= x /\ remote' = [remote EXCEPT ![c][d] = @ - x]
      /\ CanSpend(M, i, d, x) /\ ledger' = SendCoins(M, i, k, d, x)
      /\ UNCHANGED <<inflight, nextSeq>>
  BY DEF OnRecvReturnedOverride, CanExecute, ExecuteContract
<1>3. M \in Ledger /\ BooksBalance(M)
  BY <1>1, <1>2, SendCoinsEffect, SendKeepsBooks
<1> HIDE DEF M
<1>4. BooksBalance(ledger') /\ SameEscrows(ledger', M)
  BY <1>1, <1>2, <1>3, PaidAmongUsers
<1> QED BY <1>1, <1>2, <1>4, RecvReturnedSettles DEF M

(* The type of what is given to intermediaries.                             *)
GivenTyped == given \in [Intermediaries -> [Ibc -> Nat]]

(* A gift keeps the record of gifts typed.                                  *)
LEMMA GiftTyped ==
  ASSUME GivenTyped, NEW to, NEW d, NEW x \in Amount, Gift(to, d, x)
  PROVE  GivenTyped'
<1>1. x \in Nat
  BY TransferAssumption
<1> QED BY <1>1 DEF GivenTyped, Gift

(* The bridge's invariant below the hooks.                                  *)
HookedInv == RegistryInv /\ BridgeInv /\ ConservedInv /\ GivenTyped

(* It is inductive.                                                         *)
LEMMA HookedStepInv == HookedInv /\ [HookNext]_allVars => HookedInv'
<1> SUFFICES ASSUME HookedInv, [HookNext]_allVars
             PROVE  HookedInv'
  OBVIOUS
<1>1. RegistryInv /\ BridgeInv /\ ConservedInv /\ GivenTyped
  BY DEF HookedInv
<1>2. RegistryInv'
  <2>1. [RegistryNext]_registryVars
    BY DEF HookNext, RestartForgetsCallbacks, RegistryNext, allVars, vars
  <2> QED BY <1>1, <2>1, RegistryStepInv
<1>3. CASE OnRecvPacketOverride
  <2>1. PICK c \in Channel, x \in Amount :
          \/ \E i \in Intermediary[c], k \in Contract :
               \/ \E a \in Asset : OnRecvAssetOverride(c, a, x, i, k)
               \/ \E d \in Denom : OnRecvReturnedOverride(c, d, x, i, k)
          \/ \E to \in Account : OnRecvPlain(c, x, to)
    BY <1>3 DEF OnRecvPacketOverride
  <2>2. ASSUME NEW i \in Intermediary[c], NEW k \in Contract, NEW a \in Asset,
               OnRecvAssetOverride(c, a, x, i, k)
        PROVE  BridgeInv' /\ ConservedInv' /\ GivenTyped'
    BY <1>1, <2>2, ActorsAreUsers, OnRecvAssetOverrideStep, OnRecvAssetOverrideConserves
       DEF OnRecvAssetOverride, GivenTyped, hookVars
  <2>3. ASSUME NEW i \in Intermediary[c], NEW k \in Contract, NEW d \in Denom,
               OnRecvReturnedOverride(c, d, x, i, k)
        PROVE  BridgeInv' /\ ConservedInv' /\ GivenTyped'
    BY <1>1, <2>3, ActorsAreUsers, OnRecvReturnedOverrideStep, OnRecvReturnedOverrideConserves
       DEF OnRecvReturnedOverride, GivenTyped, hookVars
  <2>4. ASSUME NEW to \in Account, OnRecvPlain(c, x, to)
        PROVE  BridgeInv' /\ ConservedInv' /\ GivenTyped'
    <3>1. ASSUME NEW a \in Asset, OnRecvAsset(c, a, x, to), Gift(to, Voucher(c, a), x)
          PROVE  BridgeInv' /\ ConservedInv' /\ GivenTyped'
      BY <1>1, <3>1, OnRecvAssetStep, RecvAssetConserves, GiftTyped
    <3>2. ASSUME NEW d \in Denom, OnRecvReturned(c, d, x, to), Gift(to, d, x)
          PROVE  BridgeInv' /\ ConservedInv' /\ GivenTyped'
      BY <1>1, <3>2, OnRecvReturnedStep, RecvReturnedConserves, GiftTyped
    <3> QED BY <2>4, <3>1, <3>2 DEF OnRecvPlain
  <2> QED BY <1>2, <2>1, <2>2, <2>3, <2>4 DEF HookedInv
<1>4. CASE HookedTransfer
  <2>1. PICK u \in User, c \in Channel, d \in Denom, x \in Amount :
          UserTransfer(u, c, d, x) /\ UNCHANGED given
    BY <1>4, ActorsAreUsers DEF HookedTransfer, TransferPlain, TransferWithCallback, hookVars
  <2>2. CASE TransferPassedOn(u, c, d, x)
    BY <1>1, <1>2, <2>1, <2>2, TransferPassedOnStep, PassedOnConserves DEF HookedInv, GivenTyped
  <2>3. CASE d \in Native /\ TransferConverted(u, c, d, x)
    BY <1>1, <1>2, <2>1, <2>3, TransferConvertedStep, ConvertedConserves DEF HookedInv, GivenTyped
  <2> QED BY <2>1, <2>2, <2>3 DEF UserTransfer
<1>5. CASE HookedPacketStep
  <2>1. PICK p \in inflight : /\ OnTimeoutPacket(p) \/ OnAcknowledgementPacket(p) \/ Deliver(p)
                              /\ UNCHANGED given
    BY <1>5 DEF HookedPacketStep, OnAcknowledgementPacketOverride, OnTimeoutPacketOverride, hookVars
  <2>2. CASE p.status # "ok" /\ Refund(p)
    BY <1>1, <1>2, <2>1, <2>2, RefundStep, RefundConserves DEF HookedInv, GivenTyped
  <2>3. CASE /\ p.status = "ok" /\ inflight' = inflight \ {p}
             /\ UNCHANGED <<ledger, nextSeq, remote, donated>>
    <3>1. BridgeInv'
      BY <1>1, <2>3 DEF BridgeInv, BridgeTypeOK, BackedBy
    <3> QED BY <1>1, <1>2, <2>1, <2>3, <3>1, AcknowledgedConserves DEF HookedInv, GivenTyped
  <2>4. CASE Deliver(p)
    BY <1>1, <1>2, <2>1, <2>4, DeliverStep, DeliverConserves DEF HookedInv, GivenTyped
  <2> QED BY <2>1, <2>2, <2>3, <2>4 DEF OnTimeoutPacket, OnAcknowledgementPacket
<1>6. CASE GiveCoins
  <2>1. PICK u \in User, to \in Account, d \in Denom, x \in Amount :
          BankSend(u, to, d, x) /\ Gift(to, d, x)
    BY <1>6, ActorsAreUsers DEF GiveCoins
  <2> QED
    BY <1>1, <1>2, <2>1, BankSendStep, BankSendConserves, GiftTyped DEF HookedInv
<1>7. CASE UNCHANGED <<bridgeVars, given>>
  <2>1. BridgeInv' /\ GivenTyped'
    BY <1>1, <1>7 DEF bridgeVars, BridgeInv, BridgeTypeOK, BackedBy, GivenTyped
  <2>2. ConservedInv'
    BY <1>1, <1>7 DEF bridgeVars, ConservedInv, PacketsSound, Conserved, EscrowSolvent, Pending,
              PendingPackets
  <2> QED BY <1>2, <2>1, <2>2 DEF HookedInv
<1> QED
  BY <1>3, <1>4, <1>5, <1>6, <1>7
     DEF HookNext, RestartForgetsCallbacks, allVars, vars, hookVars

(* So it holds always.                                                      *)
LEMMA HookedInvariance == HookSpec => []HookedInv
<1>1. ASSUME HookInit PROVE HookedInv
  <2>1. RegistryInv /\ BridgeInv /\ ConservedInv
    BY <1>1, RegistryInitInv, BridgeInitInv, ConservedInitInv DEF HookInit, Init
  <2>2. \A i \in Intermediaries, v \in Ibc : Holding(ledger, i, v) \in Nat
    BY <2>1, ActorsAreUsers, HoldingType, TransferAssumption
       DEF BridgeInv, BridgeTypeOK, Intermediaries
  <2> QED BY <1>1, <2>1, <2>2 DEF HookInit, HookedInv, GivenTyped
<1> QED BY <1>1, HookedStepInv, PTL DEF HookSpec

(* The variables of bridge and hooks always have their types: no contract   *)
(* is paid coins that the intermediary does not have (HookTypeOK).          *)
THEOREM HooksTypeCorrect == HookSpec => []HookTypeOK
<1>1. HookInv /\ HookedInv => HookTypeOK
  BY DEF HookInv, HookedInv, BridgeInv, BridgeTypeOK, CallbacksSound, ToldSound, Telling,
         GivenTyped, HookTypeOK
<1> QED BY <1>1, HookInvariance, HookedInvariance, PTL

(* Native coins stay matched by locked vouchers with contracts called on    *)
(* receipts, whose coins are converted before the call, attached to it as   *)
(* vouchers, or dropped with it (Backing, wasm_hook.go).                    *)
THEOREM HooksBacked == HookSpec => []Backing
<1>1. HookedInv => Backing
  BY DEF HookedInv, BridgeInv, BackedBy, Backing, EscrowAddress
<1> QED BY <1>1, HookedInvariance, PTL

(* Calling contracts with received coins neither makes nor loses a coin,    *)
(* and leaves every escrow account what it owes (SharedSupply and           *)
(* EscrowSolvent; wasm_hook.go, OnRecvPacketOverride).                      *)
THEOREM HooksKeepSupply == HookSpec => [](SharedSupply /\ EscrowSolvent)
<1>1. HookedInv => SharedSupply /\ EscrowSolvent
  BY SharedSupplyFollows DEF HookedInv, ConservedInv
<1> QED BY <1>1, HookedInvariance, PTL

(* Nor do they take the voucher of a native coin that somebody could send   *)
(* home (NativeRedeemable).                                                 *)
THEOREM HooksKeepRedeemable == HookSpec => []NativeRedeemable
<1>1. HookedInv => NativeRedeemable
  BY NativeRedeemableFollows DEF HookedInv
<1> QED BY <1>1, HookedInvariance, PTL

-----------------------------------------------------------------------------
(* A step that tells a contract something takes the packet it is about out  *)
(* of flight and appends to what was told before.                           *)
LEMMA ToldOfPacket ==
  ASSUME told \in Seq(Telling), [HookNext]_allVars, told' # told
  PROVE  \E p \in inflight \ inflight', o \in {"ok", "error", "timeout"} :
           /\ told'[Len(told')] = [channel |-> p.channel, seq |-> p.seq, outcome |-> o]
           /\ \/ o = "timeout" /\ OnTimeoutPacket(p)
              \/ o = p.status /\ OnAcknowledgementPacket(p)
<1>1. HookedPacketStep
  BY DEF HookNext, OnRecvPacketOverride, OnRecvAssetOverride, OnRecvReturnedOverride, OnRecvPlain,
         HookedTransfer, TransferPlain, TransferWithCallback, GiveCoins, RestartForgetsCallbacks,
         hookVars, allVars
<1>2. PICK p \in inflight :
        \/ OnAcknowledgementPacketOverride(p)
        \/ OnTimeoutPacketOverride(p)
        \/ Deliver(p) /\ UNCHANGED hookVars
  BY <1>1 DEF HookedPacketStep
<1>3. ASSUME NEW o, Tell(p, o)
      PROVE  told'[Len(told')] = [channel |-> p.channel, seq |-> p.seq, outcome |-> o]
  <2> DEFINE t == [channel |-> p.channel, seq |-> p.seq, outcome |-> o]
  <2>1. told' = Append(told, t)
    BY <1>3 DEF Tell
  <2> HIDE DEF t
  <2>2. told'[Len(told')] = t
    BY <2>1
  <2> QED BY <2>2 DEF t
<1>4. CASE OnAcknowledgementPacketOverride(p)
  <2>1. OnAcknowledgementPacket(p) /\ Tell(p, p.status)
    BY <1>4 DEF OnAcknowledgementPacketOverride, OutcomeOf
  <2>2. p.status \in {"ok", "error"} /\ p \notin inflight'
    BY <2>1 DEF OnAcknowledgementPacket, Refund
  <2> QED BY <1>3, <2>1, <2>2
<1>5. CASE OnTimeoutPacketOverride(p)
  <2>1. OnTimeoutPacket(p) /\ Tell(p, "timeout")
    BY <1>5 DEF OnTimeoutPacketOverride
  <2>2. p \notin inflight'
    BY <2>1 DEF OnTimeoutPacket, Refund
  <2> QED BY <1>3, <2>1, <2>2
<1> QED BY <1>2, <1>4, <1>5 DEF hookVars

(* A contract is told of an error or a timeout in the very step that pays   *)
(* the packet's sender back, and of success in one that pays nobody         *)
(* (ToldTheTruth; wasm_hook.go, OnAcknowledgementPacketOverride).           *)
THEOREM ContractsToldTheTruth == HookSpec => ToldTheTruth
<1> DEFINE Truth == told' # told =>
       \E p \in inflight \ inflight' :
         /\ p.channel = told'[Len(told')].channel
         /\ p.seq = told'[Len(told')].seq
         /\ IF told'[Len(told')].outcome = "ok"
              THEN ledger' = ledger
              ELSE Holding(ledger', p.sender, p.denom)
                     = Holding(ledger, p.sender, p.denom) + p.amount
<1>1. ASSUME HookInv, HookedInv, [HookNext]_allVars PROVE [Truth]_allVars
  <2> SUFFICES ASSUME told' # told PROVE Truth
    OBVIOUS
  <2>1. told \in Seq(Telling) /\ RegistryInv /\ BridgeInv
    BY <1>1 DEF HookInv, ToldSound, HookedInv
  <2>2. PICK p \in inflight \ inflight', o \in {"ok", "error", "timeout"} :
          /\ told'[Len(told')] = [channel |-> p.channel, seq |-> p.seq, outcome |-> o]
          /\ \/ o = "timeout" /\ OnTimeoutPacket(p)
             \/ o = p.status /\ OnAcknowledgementPacket(p)
    BY <1>1, <2>1, ToldOfPacket
  <2>3. IF o = "ok" THEN ledger' = ledger ELSE Refund(p)
    BY <2>2 DEF OnTimeoutPacket, OnAcknowledgementPacket
  <2>4. ASSUME Refund(p)
        PROVE  Holding(ledger', p.sender, p.denom)
                 = Holding(ledger, p.sender, p.denom) + p.amount
    BY <2>1, <2>4, RefundPays DEF Refund, Refunded
  <2> QED BY <2>2, <2>3, <2>4
<1> QED BY <1>1, HookInvariance, HookedInvariance, PTL DEF HookSpec, ToldTheTruth

-----------------------------------------------------------------------------
(* What an intermediary holds can only be what came to it by itself.  That  *)
(* is inductive once no packet under way has an intermediary for a sender,  *)
(* whom a refund would pay.                                                 *)
SendersHaveKeys == \A p \in inflight : p.sender \notin Intermediaries

StrandInv == SendersHaveKeys /\ IntermediaryKeepsNothing

(* Intermediaries among the accounts, and their coins.                      *)
LEMMA IntermediaryIsUser ==
  /\ \A i \in Intermediaries : i \in User /\ i \in Account /\ i \notin Channel
  /\ \A c \in Channel : Intermediary[c] \subseteq Intermediaries
  /\ (Signer \cup Contract) \cap Intermediaries = {}
  /\ Signer \cup Contract \subseteq User
  /\ Ibc \subseteq Denom
BY HookAssumption, TransferAssumption DEF Intermediaries

(* A step that leaves the intermediaries' balances alone strands nothing.   *)
LEMMA SparedIntermediaries ==
  ASSUME IntermediaryKeepsNothing, ledger \in Ledger, ledger' \in Ledger, UNCHANGED given,
         \A i \in Intermediaries, f \in Denom : ledger'.bal[i][f] = ledger.bal[i][f]
  PROVE  IntermediaryKeepsNothing'
<1> SUFFICES ASSUME NEW i \in Intermediaries, NEW v \in Ibc
             PROVE  Holding(ledger', i, v) = given[i][v]
  BY DEF IntermediaryKeepsNothing
<1>1. i \in Account /\ v \in Denom
  BY IntermediaryIsUser
<1>2. Holding(ledger', i, v) = Holding(ledger, i, v)
  BY <1>1, HoldingKept
<1> QED BY <1>2 DEF IntermediaryKeepsNothing

(* Coins that come to a user by themselves are recorded as the voucher that *)
(* they are or are the native coin of.                                      *)
LEMMA GiftCounted ==
  ASSUME IntermediaryKeepsNothing, GivenTyped, ledger \in Ledger, ledger' \in Ledger,
         NEW to, NEW g \in Denom, NEW d \in Denom, NEW x \in Amount, Gift(to, d, x),
         \A v \in Ibc : CountsAs(g, v) <=> CountsAs(d, v),
         \A i \in Intermediaries, f \in Denom :
           ledger'.bal[i][f] = ledger.bal[i][f] + (IF i = to /\ f = g THEN x ELSE 0)
  PROVE  IntermediaryKeepsNothing'
<1> SUFFICES ASSUME NEW i \in Intermediaries, NEW v \in Ibc
             PROVE  Holding(ledger', i, v) = given'[i][v]
  BY DEF IntermediaryKeepsNothing
<1>1. i \in Account /\ v \in Denom /\ x \in Nat
  BY IntermediaryIsUser, TransferAssumption
<1>2. /\ Holding(ledger, i, v) = given[i][v] /\ given[i][v] \in Nat
  BY DEF IntermediaryKeepsNothing, GivenTyped
<1>3. given'[i][v] = IF i = to /\ CountsAs(d, v) THEN given[i][v] + x ELSE given[i][v]
  BY DEF Gift, CountsAs
<1> DEFINE y == IF i = to THEN x ELSE 0
<1>4. \A f \in Denom : ledger'.bal[i][f] = ledger.bal[i][f] + (IF f = g THEN y ELSE 0)
  BY <1>1
<1>5. y \in Int /\ (i = to => y = x) /\ (i # to => y = 0)
  BY <1>1
<1> HIDE DEF y
<1>6. Holding(ledger', i, v) = Holding(ledger, i, v) + (IF CountsAs(g, v) THEN y ELSE 0)
  BY <1>1, <1>4, <1>5, HoldingShift
<1> QED BY <1>1, <1>2, <1>3, <1>5, <1>6

(* Of the coins that an asset arrives in, the voucher and the native coin   *)
(* count as the same voucher.                                               *)
LEMMA ArrivalCounts ==
  ASSUME RegistryInv, NEW c \in Channel, NEW a \in Asset, IsReceivedConverted(c, a),
         NEW v \in Ibc
  PROVE  CountsAs(infoByAsset[a].native, v) <=> CountsAs(Voucher(c, a), v)
<1>1. infoByAsset[a] \in Catalogue /\ infoByAsset[a].ibc = Voucher(c, a)
  BY ReceivedInfo
<1>2. CountsAs(infoByAsset[a].native, v) <=> v = Voucher(c, a)
  BY <1>1, CatalogueCoins, CatalogueDistinct DEF CountsAs
<1>3. CountsAs(Voucher(c, a), v) <=> v = Voucher(c, a)
  BY <1>1, CatalogueCoins DEF CountsAs
<1> QED BY <1>2, <1>3

(* What a receipt does to the balances of a user.                           *)
LEMMA ReceivedByUser ==
  ASSUME RegistryInv, ledger \in Ledger, NEW c \in Channel, NEW a \in Asset, NEW x \in Nat,
         NEW to \in Account
  PROVE  LET M == ReceivedLedger(c, a, x, to)
             got == IF IsReceivedConverted(c, a) THEN infoByAsset[a].native ELSE Voucher(c, a)
         IN  /\ M \in Ledger /\ got \in Denom
             /\ \A v \in Ibc : CountsAs(got, v) <=> CountsAs(Voucher(c, a), v)
             /\ \A u \in User, f \in Denom :
                  M.bal[u][f] = ledger.bal[u][f] + (IF u = to /\ f = got THEN x ELSE 0)
<1> DEFINE M == ReceivedLedger(c, a, x, to)
           v == Voucher(c, a)
           n == infoByAsset[a].native
           conv == IsReceivedConverted(c, a)
           got == IF conv THEN n ELSE v
<1>1. User \subseteq Account /\ c \notin User /\ v \in Denom
  BY TransferAssumption DEF Voucher
<1>2. got \in Denom /\ \A w \in Ibc : CountsAs(got, w) <=> CountsAs(v, w)
  BY <1>1, ReceivedInfo, CatalogueCoins, ArrivalCounts
<1>3. /\ M \in Ledger
      /\ \A b \in Account, f \in Denom :
           M.bal[b][f] = ledger.bal[b][f] + (IF b = (IF conv THEN c ELSE to) /\ f = v THEN x ELSE 0)
             + (IF conv /\ b = to /\ f = n THEN x ELSE 0)
  BY <1>1, ReceivedLedgerEffect
<1>4. (conv => got = n) /\ (~conv => got = v)
  OBVIOUS
<1> HIDE DEF M, v, n, conv, got
<1>5. \A u \in User, f \in Denom :
        M.bal[u][f] = ledger.bal[u][f] + (IF u = to /\ f = got THEN x ELSE 0)
  <2>1. \A b \in Account, f \in Denom : ledger.bal[b][f] \in Nat
    BY DEF Ledger
  <2>2. CASE conv
    BY <1>1, <1>3, <1>4, <2>1, <2>2
  <2>3. CASE ~conv
    BY <1>1, <1>3, <1>4, <2>1, <2>3
  <2> QED BY <2>2, <2>3
<1> QED BY <1>2, <1>3, <1>5 DEF M, v, n, conv, got

(* The receipt that calls a contract: what came is worth what goes on.      *)
LEMMA CalledWithAsset ==
  ASSUME RegistryInv, BridgeInv, IntermediaryKeepsNothing, NEW c \in Channel, NEW a \in Asset,
         NEW x \in Amount, NEW i \in Intermediary[c], NEW k \in Contract,
         OnRecvAssetOverride(c, a, x, i, k), ledger' \in Ledger
  PROVE  IntermediaryKeepsNothing'
<1> DEFINE M == ReceivedLedger(c, a, x, i)
           v == Voucher(c, a)
           got == IF IsReceivedConverted(c, a) THEN infoByAsset[a].native ELSE v
<1>1. /\ x \in Nat /\ v \in Denom /\ ledger \in Ledger /\ i \in User /\ i \in Account
      /\ i \in Intermediaries /\ k \in Account /\ k \notin Intermediaries
  BY IntermediaryIsUser, TransferAssumption DEF Voucher, BridgeInv, BridgeTypeOK
<1>2. /\ M \in Ledger /\ got \in Denom
      /\ \A w \in Ibc : CountsAs(got, w) <=> CountsAs(v, w)
      /\ \A u \in User, f \in Denom :
           M.bal[u][f] = ledger.bal[u][f] + (IF u = i /\ f = got THEN x ELSE 0)
  BY <1>1, ReceivedByUser
<1>3. /\ CanSpend(M, i, v, x) /\ ledger' = SendCoins(M, i, k, v, x) /\ given' = given
  BY DEF OnRecvAssetOverride, CanExecute, ExecuteContract, hookVars
<1> HIDE DEF M, v, got
<1>4. \A b \in Account, f \in Denom :
        ledger'.bal[b][f] = M.bal[b][f] - (IF b = i /\ f = v THEN x ELSE 0)
                                        + (IF b = k /\ f = v THEN x ELSE 0)
  BY <1>1, <1>2, <1>3, SendCoinsEffect
<1> SUFFICES ASSUME NEW j \in Intermediaries, NEW w \in Ibc
             PROVE  Holding(ledger', j, w) = given[j][w]
  BY <1>3 DEF IntermediaryKeepsNothing
<1>5. j \in User /\ j \in Account /\ w \in Denom /\ Holding(ledger, j, w) = given[j][w] /\ j # k
  BY <1>1, IntermediaryIsUser DEF IntermediaryKeepsNothing
<1>6. \A f \in Denom : ledger.bal[j][f] \in Nat /\ M.bal[j][f] \in Nat
  BY <1>1, <1>2, <1>5 DEF Ledger
<1>7. CASE j # i
  <2>1. \A f \in Denom : ledger'.bal[j][f] = ledger.bal[j][f]
    BY <1>2, <1>4, <1>5, <1>6, <1>7
  <2> QED BY <1>1, <1>5, <2>1, HoldingKept
<1>8. CASE j = i
  <2>1. \A f \in Denom : M.bal[j][f] = ledger.bal[j][f] + (IF f = got THEN x ELSE 0)
    BY <1>2, <1>5, <1>8
  <2>2. /\ Holding(ledger, j, w) \in Int
        /\ Holding(M, j, w) = Holding(ledger, j, w) + (IF CountsAs(got, w) THEN x ELSE 0)
    <3>1. /\ M \in Ledger /\ got \in Denom /\ j \in Account /\ w \in Denom /\ x \in Int
          /\ ledger \in Ledger
      BY <1>1, <1>2, <1>5
    <3> QED BY ONLY <2>1, <3>1, HoldingShift
  <2> DEFINE y == 0 - x
  <2>3. y \in Int /\ x + y = 0
    BY <1>1
  <2>4. \A f \in Denom : ledger'.bal[j][f] = M.bal[j][f] + (IF f = v THEN y ELSE 0)
    BY <1>1, <1>4, <1>5, <1>6, <1>8
  <2> HIDE DEF y
  <2>5. Holding(ledger', j, w) = Holding(M, j, w) + (IF CountsAs(v, w) THEN y ELSE 0)
    <3>1. /\ M \in Ledger /\ v \in Denom /\ j \in Account /\ w \in Denom
          /\ ledger' \in Ledger
      BY <1>1, <1>2, <1>5
    <3> QED BY ONLY <2>3, <2>4, <3>1, HoldingShift
  <2>6. Holding(ledger', j, w) = Holding(ledger, j, w)
    BY <1>1, <1>2, <2>2, <2>3, <2>5
  <2> QED BY <1>5, <2>6
<1> QED BY <1>7, <1>8

(* The same with a coin of this chain: it passes through.                   *)
LEMMA CalledWithReturned ==
  ASSUME BridgeInv, IntermediaryKeepsNothing, NEW c \in Channel, NEW d \in Denom,
         NEW x \in Amount, NEW i \in Intermediary[c], NEW k \in Contract,
         OnRecvReturnedOverride(c, d, x, i, k), ledger' \in Ledger
  PROVE  IntermediaryKeepsNothing'
<1> DEFINE M == SendCoins(ledger, c, i, d, x)
<1>1. /\ x \in Nat /\ ledger \in Ledger /\ i \in Account /\ c \in Account
      /\ i \in Intermediaries /\ k \in Account /\ k \notin Intermediaries
      /\ \A j \in Intermediaries : j \in Account /\ j # c
  BY IntermediaryIsUser, TransferAssumption DEF BridgeInv, BridgeTypeOK
<1>2. /\ CanSpend(ledger, c, d, x) /\ CanSpend(M, i, d, x) /\ given' = given
      /\ ledger' = SendCoins(M, i, k, d, x)
  BY DEF OnRecvReturnedOverride, CanExecute, ExecuteContract, EscrowAddress, hookVars
<1>3. /\ M \in Ledger
      /\ \A b \in Account, f \in Denom :
           M.bal[b][f] = ledger.bal[b][f] - (IF b = c /\ f = d THEN x ELSE 0)
                                          + (IF b = i /\ f = d THEN x ELSE 0)
  BY <1>1, <1>2, SendCoinsEffect
<1> HIDE DEF M
<1>4. \A b \in Account, f \in Denom :
        ledger'.bal[b][f] = M.bal[b][f] - (IF b = i /\ f = d THEN x ELSE 0)
                                        + (IF b = k /\ f = d THEN x ELSE 0)
  BY <1>1, <1>2, <1>3, SendCoinsEffect
<1>5. \A b \in Account, f \in Denom : ledger.bal[b][f] \in Nat /\ M.bal[b][f] \in Nat
  BY <1>1, <1>3 DEF Ledger
<1>6. \A j \in Intermediaries, f \in Denom : ledger'.bal[j][f] = ledger.bal[j][f]
  <2> TAKE j \in Intermediaries, f \in Denom
  <2>1. j \in Account /\ j # c /\ j # k
    BY <1>1
  <2>2. M.bal[j][f] = ledger.bal[j][f] + (IF j = i /\ f = d THEN x ELSE 0)
    BY <1>1, <1>3, <1>5, <2>1
  <2>3. ledger'.bal[j][f] = M.bal[j][f] - (IF j = i /\ f = d THEN x ELSE 0)
    BY <1>1, <1>4, <1>5, <2>1
  <2> QED BY <1>1, <1>5, <2>1, <2>2, <2>3
<1> QED BY <1>1, <1>2, <1>6, SparedIntermediaries

(* A receipt that calls nothing, and a gift: recorded as they come.         *)
LEMMA ReceivedPlainly ==
  ASSUME HookedInv, HookedInv', IntermediaryKeepsNothing, NEW c \in Channel, NEW x \in Amount,
         NEW to \in Account, OnRecvPlain(c, x, to)
  PROVE  IntermediaryKeepsNothing'
<1>1. /\ RegistryInv /\ GivenTyped /\ ledger \in Ledger /\ ledger' \in Ledger /\ x \in Nat
      /\ to \in Account /\ c \in Account /\ EscrowAddress(c) = c
  BY TransferAssumption DEF HookedInv, BridgeInv, BridgeTypeOK, EscrowAddress
<1>2. ASSUME NEW a \in Asset, OnRecvAsset(c, a, x, to), Gift(to, Voucher(c, a), x)
      PROVE  IntermediaryKeepsNothing'
  <2> DEFINE M == ReceivedLedger(c, a, x, to)
             got == IF IsReceivedConverted(c, a) THEN infoByAsset[a].native ELSE Voucher(c, a)
  <2>1. /\ got \in Denom
        /\ \A v \in Ibc : CountsAs(got, v) <=> CountsAs(Voucher(c, a), v)
        /\ \A u \in User, f \in Denom :
             M.bal[u][f] = ledger.bal[u][f] + (IF u = to /\ f = got THEN x ELSE 0)
    BY <1>1, ReceivedByUser
  <2>2. ledger' = M /\ Voucher(c, a) \in Denom
    BY <1>2, TransferAssumption DEF OnRecvAsset, Voucher
  <2> HIDE DEF M, got
  <2>3. \A i \in Intermediaries, f \in Denom :
          ledger'.bal[i][f] = ledger.bal[i][f] + (IF i = to /\ f = got THEN x ELSE 0)
    BY <2>1, <2>2, IntermediaryIsUser
  <2> QED BY <1>1, <1>2, <2>1, <2>2, <2>3, GiftCounted
<1>3. ASSUME NEW d \in Denom, OnRecvReturned(c, d, x, to), Gift(to, d, x)
      PROVE  IntermediaryKeepsNothing'
  <2>1. CanSpend(ledger, c, d, x) /\ ledger' = SendCoins(ledger, c, to, d, x)
    BY <1>1, <1>3 DEF OnRecvReturned
  <2>2. \A b \in Account, f \in Denom :
          ledger'.bal[b][f] = ledger.bal[b][f] - (IF b = c /\ f = d THEN x ELSE 0)
                                               + (IF b = to /\ f = d THEN x ELSE 0)
    BY <1>1, <2>1, SendCoinsEffect
  <2>3. \A b \in Account, f \in Denom : ledger.bal[b][f] \in Nat
    BY <1>1 DEF Ledger
  <2>4. \A i \in Intermediaries, f \in Denom :
          ledger'.bal[i][f] = ledger.bal[i][f] + (IF i = to /\ f = d THEN x ELSE 0)
    BY <2>2, <2>3, IntermediaryIsUser
  <2> QED BY <1>1, <1>3, <2>4, GiftCounted
<1> QED BY <1>2, <1>3 DEF OnRecvPlain

(* A bank send by somebody with a key.                                      *)
LEMMA GivenByUser ==
  ASSUME HookedInv, HookedInv', IntermediaryKeepsNothing, NEW u \in Signer \cup Contract,
         NEW to \in Account, NEW d \in Denom, NEW x \in Amount, BankSend(u, to, d, x), Gift(to, d, x)
  PROVE  IntermediaryKeepsNothing'
<1>1. /\ GivenTyped /\ ledger \in Ledger /\ ledger' \in Ledger /\ x \in Nat
      /\ to \in Account /\ u \in Account /\ u \notin Intermediaries
  BY TransferAssumption, IntermediaryIsUser DEF HookedInv, BridgeInv, BridgeTypeOK
<1>2. CanSpend(ledger, u, d, x) /\ ledger' = SendCoins(ledger, u, to, d, x)
  BY DEF BankSend
<1>3. \A b \in Account, f \in Denom :
        ledger'.bal[b][f] = ledger.bal[b][f] - (IF b = u /\ f = d THEN x ELSE 0)
                                             + (IF b = to /\ f = d THEN x ELSE 0)
  BY <1>1, <1>2, SendCoinsEffect
<1>4. \A b \in Account, f \in Denom : ledger.bal[b][f] \in Nat
  BY <1>1 DEF Ledger
<1>5. \A i \in Intermediaries, f \in Denom :
        ledger'.bal[i][f] = ledger.bal[i][f] + (IF i = to /\ f = d THEN x ELSE 0)
  BY <1>1, <1>3, <1>4, IntermediaryIsUser
<1> QED BY <1>1, <1>5, GiftCounted

(* Transfers take coins from who signs them and from escrow accounts.       *)
LEMMA TransferSpares ==
  ASSUME HookedInv, HookedInv', IntermediaryKeepsNothing, NEW u \in Signer \cup Contract,
         NEW c \in Channel, NEW d \in Denom, NEW x \in Amount, UserTransfer(u, c, d, x),
         UNCHANGED given
  PROVE  IntermediaryKeepsNothing'
<1>1. /\ RegistryInv /\ ledger \in Ledger /\ ledger' \in Ledger /\ x \in Nat /\ u \in User
      /\ \A i \in Intermediaries : i \in Account /\ i # u /\ i \notin Channel
  BY TransferAssumption, IntermediaryIsUser DEF HookedInv, BridgeInv, BridgeTypeOK
<1>4. \A b \in Account, f \in Denom : ledger.bal[b][f] \in Nat
  BY <1>1 DEF Ledger
<1>2. CASE TransferPassedOn(u, c, d, x)
  <2>1. CanSpend(ledger, u, d, x) /\ ledger' = SendTransfer(ledger, u, c, d, x)
    BY <1>2 DEF TransferPassedOn
  <2>2. \A b \in Account, f \in Denom :
          ledger'.bal[b][f] = ledger.bal[b][f] - (IF b = u /\ f = d THEN x ELSE 0)
            + (IF b = c /\ f = d /\ d \notin VouchersOf(c) THEN x ELSE 0)
    BY <1>1, <2>1, PassedOnLedger
  <2>3. \A i \in Intermediaries, f \in Denom : ledger'.bal[i][f] = ledger.bal[i][f]
    BY <1>1, <1>4, <2>2
  <2> QED BY <1>1, <2>3, SparedIntermediaries
<1>3. CASE d \in Native /\ TransferConverted(u, c, d, x)
  <2> DEFINE e == infoByNative[d]
  <2>1. e \in Catalogue /\ e.channel = c /\ e.native = d
    BY <1>1, <1>3, ConvertedInfo DEF TransferConverted
  <2>2. /\ CanSpend(ledger, u, d, x) /\ VoucherLocked(ledger, u, c, d, x)
        /\ ledger' = SendTransfer(VoucherReleased(ledger, u, c, d, x), u, c, e.ibc, x)
    BY <1>3 DEF TransferConverted
  <2>3. infoByNative[e.native] = e
    BY <2>1
  <2> HIDE DEF e
  <2>4. \A b \in Account, f \in Denom : ledger'.bal[b][f] = ledger.bal[b][f]
          - (IF b = u /\ f = e.native THEN x ELSE 0) - (IF b = e.channel /\ f = e.ibc THEN x ELSE 0)
    BY <1>1, <2>1, <2>2, <2>3, ConvertedLedger
  <2>5. ASSUME NEW i \in Intermediaries, NEW f \in Denom
        PROVE  ledger'.bal[i][f] = ledger.bal[i][f]
    <3>1. i \in Account /\ i # u /\ i # e.channel /\ ledger.bal[i][f] \in Nat
      BY <1>1, <1>4, <2>1
    <3> QED BY <2>4, <3>1
  <2> QED BY <1>1, <2>5, SparedIntermediaries
<1> QED BY <1>2, <1>3 DEF UserTransfer

(* Refunds go to senders, who have keys.                                    *)
LEMMA RefundSpares ==
  ASSUME HookedInv, HookedInv', StrandInv, NEW p \in inflight, Refund(p), UNCHANGED given
  PROVE  IntermediaryKeepsNothing'
<1>1. /\ RegistryInv /\ ledger \in Ledger /\ ledger' \in Ledger /\ p \in Packet
  BY DEF HookedInv, BridgeInv, BridgeTypeOK
<1>5. /\ p.channel \in Channel /\ p.amount \in Nat
      /\ \A i \in Intermediaries : i \in Account /\ i # p.sender /\ i # p.channel
  BY <1>1, IntermediaryIsUser DEF Packet, StrandInv, SendersHaveKeys
<1>6. \A b \in Account, f \in Denom : ledger.bal[b][f] \in Nat
  BY <1>1 DEF Ledger
<1> DEFINE x == p.amount
           n == RefundInfo(p).native
<1>2. \A b \in Account, f \in Denom : ledger'.bal[b][f] = ledger.bal[b][f]
        - (IF b = p.channel /\ f = p.denom /\ p.denom \notin VouchersOf(p.channel) THEN x ELSE 0)
        + (IF IsRefundConverted(p)
             THEN (IF b = p.channel /\ f = p.denom THEN x ELSE 0)
                  + (IF b = p.sender /\ f = n THEN x ELSE 0)
             ELSE (IF b = p.sender /\ f = p.denom THEN x ELSE 0))
  BY <1>1, RefundLedger DEF Refund, CanRefund
<1>3. x \in Nat
  BY <1>5
<1> HIDE DEF x, n
<1>4. \A i \in Intermediaries, f \in Denom : ledger'.bal[i][f] = ledger.bal[i][f]
  BY <1>2, <1>3, <1>5, <1>6
<1> QED BY <1>1, <1>4, SparedIntermediaries DEF StrandInv

(* Packets keep their senders.                                              *)
LEMMA SendersStep ==
  ASSUME SendersHaveKeys, inflight \subseteq Packet, [HookNext]_allVars
  PROVE  SendersHaveKeys'
<1>1. CASE inflight' \subseteq inflight
  BY <1>1 DEF SendersHaveKeys
<1>2. CASE HookedTransfer
  <2>1. PICK u \in Signer \cup Contract, c \in Channel, d \in Denom, x \in Amount :
          \E v : EmitPacket(u, c, v, x)
    BY <1>2 DEF HookedTransfer, TransferPlain, TransferWithCallback, UserTransfer,
                TransferPassedOn, TransferConverted
  <2>2. u \notin Intermediaries
    BY IntermediaryIsUser
  <2> QED BY <2>1, <2>2 DEF SendersHaveKeys, EmitPacket
<1>3. ASSUME NEW p \in inflight, Deliver(p) PROVE SendersHaveKeys'
  <2>1. PICK st : inflight' = (inflight \ {p}) \cup {[p EXCEPT !.status = st]}
    BY <1>3 DEF Deliver
  <2>2. [p EXCEPT !.status = st].sender = p.sender
    BY DEF Packet
  <2> QED BY <2>1, <2>2 DEF SendersHaveKeys
<1>4. \/ inflight' \subseteq inflight
      \/ HookedTransfer
      \/ \E p \in inflight : Deliver(p)
  <2>1. CASE HookedPacketStep
    BY <2>1 DEF HookedPacketStep, OnAcknowledgementPacketOverride, OnTimeoutPacketOverride,
                OnAcknowledgementPacket, OnTimeoutPacket, Refund
  <2>2. CASE OnRecvPacketOverride \/ GiveCoins
    BY <2>2 DEF OnRecvPacketOverride, OnRecvAssetOverride, OnRecvReturnedOverride, OnRecvPlain,
                OnRecvAsset, OnRecvReturned, GiveCoins, BankSend
  <2>3. CASE UNCHANGED bridgeVars
    BY <2>3 DEF bridgeVars
  <2> QED BY <2>1, <2>2, <2>3 DEF HookNext, RestartForgetsCallbacks, allVars, vars
<1> QED BY <1>1, <1>2, <1>3, <1>4

(* Every step keeps what an intermediary holds at what others gave it.      *)
LEMMA StrandStep == HookedInv /\ HookedInv' /\ StrandInv /\ [HookNext]_allVars => StrandInv'
<1> SUFFICES ASSUME HookedInv, HookedInv', StrandInv, [HookNext]_allVars
             PROVE  StrandInv'
  OBVIOUS
<1>1. /\ RegistryInv /\ BridgeInv /\ GivenTyped /\ ledger \in Ledger /\ ledger' \in Ledger
      /\ inflight \subseteq Packet /\ SendersHaveKeys /\ IntermediaryKeepsNothing
  BY DEF HookedInv, BridgeInv, BridgeTypeOK, StrandInv
<1>2. SendersHaveKeys'
  BY <1>1, SendersStep
<1>3. ASSUME UNCHANGED <<ledger, given>> PROVE IntermediaryKeepsNothing'
  BY <1>1, <1>3, SparedIntermediaries
<1>4. CASE OnRecvPacketOverride
  <2>1. PICK c \in Channel, x \in Amount :
          \/ \E i \in Intermediary[c], k \in Contract :
               \/ \E a \in Asset : OnRecvAssetOverride(c, a, x, i, k)
               \/ \E d \in Denom : OnRecvReturnedOverride(c, d, x, i, k)
          \/ \E to \in Account : OnRecvPlain(c, x, to)
    BY <1>4 DEF OnRecvPacketOverride
  <2>2. ASSUME NEW i \in Intermediary[c], NEW k \in Contract, NEW a \in Asset,
               OnRecvAssetOverride(c, a, x, i, k)
        PROVE  IntermediaryKeepsNothing'
    BY <1>1, <2>2, CalledWithAsset
  <2>3. ASSUME NEW i \in Intermediary[c], NEW k \in Contract, NEW d \in Denom,
               OnRecvReturnedOverride(c, d, x, i, k)
        PROVE  IntermediaryKeepsNothing'
    BY <1>1, <2>3, CalledWithReturned
  <2>4. ASSUME NEW to \in Account, OnRecvPlain(c, x, to)
        PROVE  IntermediaryKeepsNothing'
    BY <1>1, <2>4, ReceivedPlainly
  <2> QED BY <1>2, <2>1, <2>2, <2>3, <2>4 DEF StrandInv
<1>5. CASE HookedTransfer
  <2>1. PICK u \in Signer \cup Contract, c \in Channel, d \in Denom, x \in Amount :
          UserTransfer(u, c, d, x) /\ UNCHANGED given
    BY <1>5 DEF HookedTransfer, TransferPlain, TransferWithCallback, hookVars
  <2> QED BY <1>1, <1>2, <2>1, TransferSpares DEF StrandInv
<1>6. CASE HookedPacketStep
  <2>1. PICK p \in inflight : /\ OnTimeoutPacket(p) \/ OnAcknowledgementPacket(p) \/ Deliver(p)
                              /\ UNCHANGED given
    BY <1>6 DEF HookedPacketStep, OnAcknowledgementPacketOverride, OnTimeoutPacketOverride, hookVars
  <2>2. Refund(p) \/ ledger' = ledger
    BY <2>1 DEF OnTimeoutPacket, OnAcknowledgementPacket, Deliver
  <2>3. CASE Refund(p)
    BY <1>2, <2>1, <2>3, RefundSpares DEF StrandInv
  <2> QED BY <1>2, <1>3, <2>1, <2>2, <2>3 DEF StrandInv
<1>7. CASE GiveCoins
  <2>1. PICK u \in Signer \cup Contract, to \in Account, d \in Denom, x \in Amount :
          BankSend(u, to, d, x) /\ Gift(to, d, x)
    BY <1>7 DEF GiveCoins
  <2> QED BY <1>1, <1>2, <2>1, GivenByUser DEF StrandInv
<1>8. CASE UNCHANGED <<bridgeVars, given>>
  BY <1>2, <1>3, <1>8 DEF bridgeVars, StrandInv
<1> QED
  BY <1>4, <1>5, <1>6, <1>7, <1>8
     DEF HookNext, RestartForgetsCallbacks, allVars, vars, hookVars

(* At genesis intermediaries have nothing.                                  *)
LEMMA StrandInit == HookInit => StrandInv
<1> SUFFICES ASSUME HookInit PROVE StrandInv
  OBVIOUS
<1>1. SendersHaveKeys
  BY DEF HookInit, Init, SendersHaveKeys
<1>2. ASSUME NEW i \in Intermediaries, NEW v \in Ibc
      PROVE  Holding(ledger, i, v) = given[i][v]
  BY DEF HookInit
<1> QED BY <1>1, <1>2 DEF StrandInv, IntermediaryKeepsNothing

(* A packet that calls a contract leaves nothing of its coins with the      *)
(* intermediary, from where nobody could take them, whether they come as    *)
(* vouchers, converted or back from abroad: it only ever has what it was    *)
(* given otherwise (IntermediaryKeepsNothing; wasm_hook.go).                *)
THEOREM NothingStranded == HookSpec => []IntermediaryKeepsNothing
<1>1. HookInit => StrandInv
  BY StrandInit
<1>2. StrandInv => IntermediaryKeepsNothing
  BY DEF StrandInv
<1> QED BY <1>1, <1>2, StrandStep, HookedInvariance, PTL DEF HookSpec
=============================================================================
