------------------------------ MODULE IbcHooks ------------------------------
(***************************************************************************)
(* Contract calls tied to packets: x/ibc-hooks, on top of                  *)
(* TransferMiddleware.                                                     *)
(*                                                                         *)
(* A packet whose memo calls a contract is received by an intermediary, an *)
(* address of the channel and the packet's sender that nobody has the key  *)
(* of, in whose name the contract is called with the coins received; if    *)
(* that fails, everything the receipt did is dropped and an error goes     *)
(* back.  A transfer whose memo asks for it leaves a callback under its    *)
(* packet: the contract is told how the packet ended.                      *)
(*                                                                         *)
(* Contracts are external: any call may succeed or fail.  The limits of    *)
(* x/ratelimit and packets forwarded to other chains are left out.         *)
(***************************************************************************)
EXTENDS TransferMiddleware, Sequences

CONSTANTS
  Signer,       \* users with a key
  Contract,     \* contracts, which hold and send coins like users
  Intermediary  \* [Channel -> SUBSET User]: one for each sender over a channel

Intermediaries == UNION {Intermediary[c] : c \in Channel}

ASSUME HookAssumption ==
  /\ Intermediary \in [Channel -> SUBSET User]
  /\ User = Signer \cup Contract \cup Intermediaries
  /\ Intermediaries \cap (Signer \cup Contract) = {}

VARIABLES
  callbacks,  \* the hook's store: packets with the contract to tell
  asked,      \* history: the packets whose transfers asked for a callback, but
              \* for those whose callback a restart lost
  told,       \* history: how contracts were told that the packets ended
  given       \* history: what intermediaries have got other than by a hook

hookVars == <<callbacks, asked, told, given>>
allVars == <<vars, hookVars>>

Callback == [channel: Channel, seq: Nat, contract: Contract]

HookInit ==
  /\ Init
  /\ callbacks = {}
  /\ asked = {}
  /\ told = <<>>
  /\ given = [i \in Intermediaries |-> [v \in Ibc |-> Holding(ledger, i, v)]]

-----------------------------------------------------------------------------
UserTransfer(u, c, d, x) ==
  TransferPassedOn(u, c, d, x) \/ (d \in Native /\ TransferConverted(u, c, d, x))

(* A mutation of SendPacketOverride: the callback is stored for the packet  *)
(* that will be sent next.                                                  *)
SendPacketOverrideLate(c, k) ==
  callbacks' = callbacks \cup {[channel |-> c, seq |-> nextSeq'[c], contract |-> k]}

(* The channel has given the packet its sequence; a callback that is no     *)
(* address is ignored, as if the memo had none.                             *)
SendPacketOverride(c, k) ==
  callbacks' = callbacks \cup {[channel |-> c, seq |-> nextSeq[c], contract |-> k]}

TransferWithCallback(u, c, d, x, k) ==
  /\ UserTransfer(u, c, d, x)
  /\ SendPacketOverride(c, k)
  /\ asked' = asked \cup {<<c, nextSeq[c]>>}
  /\ UNCHANGED <<told, given>>

TransferPlain(u, c, d, x) == UserTransfer(u, c, d, x) /\ UNCHANGED hookVars
-----------------------------------------------------------------------------
(* A mutation of PacketCallback: by the sequence alone.                     *)
CallbackOfSequence(p) == {b \in callbacks : b.seq = p.seq}

(* GetPacketCallback and DeletePacketCallback: by channel and sequence.     *)
PacketCallback(p) == {b \in callbacks : b.channel = p.channel /\ b.seq = p.seq}

(* A mutation of DeletePacketCallback: it does nothing.                     *)
KeepPacketCallback(p) == UNCHANGED callbacks

DeletePacketCallback(p) == callbacks' = callbacks \ PacketCallback(p)

Tell(p, outcome) ==
  told' = Append(told, [channel |-> p.channel, seq |-> p.seq, outcome |-> outcome])

(* Mutations of OutcomeOf: success is read off any acknowledgement.         *)
OutcomeAlwaysOk(p) == "ok"

OutcomeOf(p) == p.status

(* The transfer stack takes the acknowledgement first.  If the contract     *)
(* fails then, the transaction does, the packet and its callback stay, and  *)
(* so does a refund that was due.                                           *)
OnAcknowledgementPacketOverride(p) ==
  /\ OnAcknowledgementPacket(p)
  /\ IF PacketCallback(p) = {}
       THEN UNCHANGED <<callbacks, told>>
       ELSE Tell(p, OutcomeOf(p)) /\ DeletePacketCallback(p)
  /\ UNCHANGED <<asked, given>>

(* A timeout goes through even if the contract fails, which is not told     *)
(* again.                                                                   *)
OnTimeoutPacketOverride(p) ==
  /\ OnTimeoutPacket(p)
  /\ IF PacketCallback(p) = {}
       THEN UNCHANGED <<callbacks, told>>
       ELSE /\ Tell(p, "timeout") \/ UNCHANGED told
            /\ DeletePacketCallback(p)
  /\ UNCHANGED <<asked, given>>
-----------------------------------------------------------------------------
(* Coins that came to i by themselves, counted as what their voucher is.    *)
Gift(to, d, x) ==
  given' = [i \in Intermediaries |-> [v \in Ibc |->
    IF i = to /\ (v = d \/ \E e \in Catalogue : e.ibc = v /\ e.native = d)
      THEN given[i][v] + x ELSE given[i][v]]]

(* A mutation of ExecuteContract: the call is made without coins.           *)
ExecuteWithoutFunds(L, i, k, d, x) == L

ExecuteContract(L, i, k, d, x) == SendCoins(L, i, k, d, x)

(* A mutation of CanExecute: the call is made whatever i has.               *)
AlwaysExecutes(L, i, d, x) == TRUE

CanExecute(L, i, d, x) == CanSpend(L, i, d, x)

(* The contract is called with the coin of the packet's denomination, so it *)
(* fails on coins the middleware converted, unless the intermediary has as  *)
(* much of the voucher.                                                     *)
OnRecvAssetOverride(c, a, x, i, k) ==
  /\ remote[c][a] >= x
  /\ remote' = [remote EXCEPT ![c][a] = @ - x]
  /\ CanExecute(ReceivedLedger(c, a, x, i), i, Voucher(c, a), x)
  /\ ledger' = ExecuteContract(ReceivedLedger(c, a, x, i), i, k, Voucher(c, a), x)
  /\ UNCHANGED <<inflight, nextSeq, donated, hookVars>>

OnRecvReturnedOverride(c, d, x, i, k) ==
  LET returned == SendCoins(ledger, EscrowAddress(c), i, d, x)
  IN  /\ SenderChainIsSource(c, d)
      /\ remote[c][d] >= x
      /\ CanSpend(ledger, EscrowAddress(c), d, x)
      /\ CanExecute(returned, i, d, x)
      /\ remote' = [remote EXCEPT ![c][d] = @ - x]
      /\ ledger' = ExecuteContract(returned, i, k, d, x)
      /\ UNCHANGED <<inflight, nextSeq, donated, hookVars>>

(* Without a memo that calls a contract, the packet is passed on.           *)
OnRecvPlain(c, x, to) ==
  /\ \/ \E a \in Asset : OnRecvAsset(c, a, x, to) /\ Gift(to, Voucher(c, a), x)
     \/ \E d \in Denom : OnRecvReturned(c, d, x, to) /\ Gift(to, d, x)
  /\ UNCHANGED <<callbacks, asked, told>>

OnRecvPacketOverride ==
  \E c \in Channel, x \in Amount :
    \/ \E i \in Intermediary[c], k \in Contract :
         \/ \E a \in Asset : OnRecvAssetOverride(c, a, x, i, k)
         \/ \E d \in Denom : OnRecvReturnedOverride(c, d, x, i, k)
    \/ \E to \in Account : OnRecvPlain(c, x, to)

HookedTransfer ==
  \E u \in Signer \cup Contract, c \in Channel, d \in Denom, x \in Amount :
    TransferPlain(u, c, d, x) \/ \E k \in Contract : TransferWithCallback(u, c, d, x, k)

HookedPacketStep ==
  \E p \in inflight :
    \/ OnAcknowledgementPacketOverride(p)
    \/ OnTimeoutPacketOverride(p)
    \/ Deliver(p) /\ UNCHANGED hookVars

GiveCoins ==
  \E u \in Signer \cup Contract, to \in Account, d \in Denom, x \in Amount :
    BankSend(u, to, d, x) /\ Gift(to, d, x) /\ UNCHANGED <<callbacks, asked, told>>

(* The genesis file has nothing of the hooks' store: a restart loses every  *)
(* callback, and the packets stay.                                          *)
RestartForgetsCallbacks ==
  /\ RestartFromGenesis
  /\ callbacks' = {}
  /\ asked' = asked \ {<<b.channel, b.seq>> : b \in callbacks}
  /\ UNCHANGED <<bridgeVars, told, given>>

HookNext ==
  \/ /\ OnRecvPacketOverride \/ HookedTransfer \/ HookedPacketStep \/ GiveCoins
     /\ UNCHANGED registryVars
  \/ (GovernanceTx \/ NewBlock) /\ UNCHANGED <<bridgeVars, hookVars>>
  \/ RestartForgetsCallbacks

HookSpec == HookInit /\ [][HookNext]_allVars
-----------------------------------------------------------------------------
HookTypeOK ==
  /\ ledger \in Ledger
  /\ callbacks \subseteq Callback
  /\ asked \subseteq Channel \X Nat
  /\ told \in Seq([channel: Channel, seq: Nat, outcome: {"ok", "error", "timeout"}])
  /\ given \in [Intermediaries -> [Ibc -> Nat]]

(* The store has one callback for each packet under way that asked for one, *)
(* and none for any other, however packets of several channels are sent,    *)
(* answered and timed out: no contract is told of a packet that reuses a    *)
(* key, and none is forgotten but by a restart from an exported genesis     *)
(* (wasm_hook.go, keeper.go, module.go).                                    *)
CallbacksOfPackets ==
  /\ {<<b.channel, b.seq>> : b \in callbacks}
       = asked \cap {<<p.channel, p.seq>> : p \in inflight}
  /\ \A b, q \in callbacks : b.channel = q.channel /\ b.seq = q.seq => b = q

(* A contract is told of a packet at most once, after it left the channel,  *)
(* and only if its transfer asked for it.                                   *)
ToldOnce ==
  /\ \A m, n \in DOMAIN told :
       told[m].channel = told[n].channel /\ told[m].seq = told[n].seq => m = n
  /\ \A m \in DOMAIN told :
       /\ <<told[m].channel, told[m].seq>> \in asked
       /\ \A p \in inflight : p.channel = told[m].channel => p.seq # told[m].seq

(* What a contract is told is what becomes of the coins: it is told of an   *)
(* error or a timeout in the step that pays the sender back, and of success *)
(* in one that pays nobody (wasm_hook.go, OnAcknowledgementPacketOverride). *)
ToldTheTruth ==
  [][told' # told =>
       \E p \in inflight \ inflight' :
         /\ p.channel = told'[Len(told')].channel
         /\ p.seq = told'[Len(told')].seq
         /\ IF told'[Len(told')].outcome = "ok"
              THEN ledger' = ledger
              ELSE Holding(ledger', p.sender, p.denom)
                     = Holding(ledger, p.sender, p.denom) + p.amount]_allVars

(* A packet that calls a contract leaves nothing of its coins with the      *)
(* intermediary, for which nobody could sign: it has, as vouchers and as    *)
(* the native coins they may be converted into, what it was given otherwise *)
(* (wasm_hook.go, OnRecvPacketOverride).                                    *)
IntermediaryKeepsNothing ==
  \A i \in Intermediaries, v \in Ibc : Holding(ledger, i, v) = given[i][v]
=============================================================================
