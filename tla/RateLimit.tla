------------------------------ MODULE RateLimit ------------------------------
(***************************************************************************)
(* x/ratelimit: quotas on what leaves and enters over a channel.           *)
(*                                                                         *)
(* A limit belongs to a path (denomination, channel).  It counts outflow   *)
(* and inflow since its flow was last set to zero and refuses a packet     *)
(* that would take their difference past a share of the supply it saw      *)
(* then.  A packet that was counted is pending until it is acknowledged;   *)
(* when it fails, its amount is taken off again.  Quotas expire by the     *)
(* epochs of EpochClock; governance adds, updates, resets and removes      *)
(* limits at any time in between.                                          *)
(*                                                                         *)
(* The token registry only matters here through the infos it holds: a      *)
(* limit named by a native denomination is kept under its voucher.  The    *)
(* supply of a denomination is whatever the bank says when it is read.     *)
(* A step that fails, and a packet answered with an error, leave no trace, *)
(* as the transaction or core IBC drops their writes.                      *)
(***************************************************************************)
EXTENDS EpochClock, FiniteSetsExt

CONSTANTS
  Channel, Denom,
  Info,         \* the infos the registry may hold: [native, ibc, channel]
  Quota,        \* [send, recv: percentages, hours, min: minimal threshold]
  Value,        \* what the bank may report as a supply
  Amount,       \* amounts of packets
  Pair,         \* sender and receiver of a packet
  Whitelisted,  \* the pairs of the genesis whitelist
  Extending,    \* [Channel -> SUBSET Channel]: identifiers it is a prefix of
  Governed,     \* the paths governance names
  MaxSeq,       \* bound on the packets sent over a channel
  MaxInflow,    \* bound on a recorded inflow
  NoLimit

Path == Denom \X Channel
Limit == [quota: Quota, inflow: Nat, outflow: Int, value: Nat]

ASSUME RateLimitAssumption ==
  /\ Info \subseteq [native: Denom, ibc: Denom, channel: Channel]
  /\ Quota \subseteq [send: 0..100, recv: 0..100, hours: Nat \ {0}, min: Nat \ {0}]
  /\ Value \subseteq Nat
  /\ Amount \subseteq Nat \ {0}
  /\ Extending \in [Channel -> SUBSET Channel]
  /\ \A c \in Channel : c \in Extending[c]
  /\ Governed \subseteq Path
  /\ MaxSeq \in [Channel -> Nat] /\ MaxInflow \in Nat
  /\ NoLimit \notin Limit

VARIABLES
  limits,     \* the limit of each path, or NoLimit
  pending,    \* <<channel, sequence>> of packets sent during this quota
  registered, \* the infos the registry holds
  inflight,   \* packets sent and neither acknowledged nor timed out
  nextSeq,    \* next send sequence of each channel
  live,       \* history: packets counted since their path's flow was zeroed,
              \* without those that failed
  replaced    \* history: paths whose flow was zeroed with packets pending

limitVars == <<limits, pending, registered, inflight, nextSeq, live, replaced>>
vars == <<clockVars, limitVars>>

Packet == [seq: Nat, channel: Channel, denom: Denom, amount: Amount]
PathOf(p) == <<p.denom, p.channel>>
IdOf(p) == <<p.channel, p.seq>>

Init ==
  /\ ClockInit
  /\ limits = [path \in Path |-> NoLimit]
  /\ pending = {} /\ registered = {} /\ inflight = {} /\ live = {} /\ replaced = {}
  /\ nextSeq = [c \in Channel |-> 1]

-----------------------------------------------------------------------------
HasLimit(path) == limits[path] # NoLimit

(* CheckExceedsQuota: the threshold is the larger of the share and the      *)
(* minimum, and there is none if the supply was zero.                       *)
WithinQuota(l, percent, net) ==
  l.value = 0 \/ net <= (l.value * percent) \div 100 \/ net <= l.quota.min

(* Packets without a limit, and those of a whitelisted pair, pass uncounted.*)
IsCounted(path, pair) == HasLimit(path) /\ pair \notin Whitelisted

(* A mutation of AddOutflow: the packet itself is not weighed.              *)
AddOutflowUnweighed(l, x) == WithinQuota(l, l.quota.send, l.outflow - l.inflow)

AddOutflow(l, x) == WithinQuota(l, l.quota.send, l.outflow - l.inflow + x)
AddInflow(l, x) == WithinQuota(l, l.quota.recv, l.inflow - l.outflow + x)

(* A counted packet's sequence is stored until it is answered.              *)
PendingSend(c, d, pair) == IsCounted(<<d, c>>, pair)

SendPacket(c, d, x, pair) ==
  LET path == <<d, c>>
      p == [seq |-> nextSeq[c], channel |-> c, denom |-> d, amount |-> x]
  IN  /\ nextSeq[c] <= MaxSeq[c]
      /\ nextSeq' = [nextSeq EXCEPT ![c] = @ + 1]
      /\ inflight' = inflight \cup {p}
      /\ pending' = IF PendingSend(c, d, pair) THEN pending \cup {IdOf(p)} ELSE pending
      /\ IF IsCounted(path, pair)
           THEN /\ AddOutflow(limits[path], x)
                /\ limits' = [limits EXCEPT ![path].outflow = @ + x]
                /\ live' = live \cup {p}
           ELSE UNCHANGED <<limits, live>>
      /\ UNCHANGED <<registered, replaced>>

(* A packet that arrives and is not answered with an error.                 *)
RecvPacket(c, d, x, pair) ==
  LET path == <<d, c>>
  IN  /\ IsCounted(path, pair)
      /\ limits[path].inflow + x <= MaxInflow
      /\ AddInflow(limits[path], x)
      /\ limits' = [limits EXCEPT ![path].inflow = @ + x]
      /\ UNCHANGED <<pending, registered, inflight, nextSeq, live, replaced>>

(* A mutation of UndoSendPacket: the amount is taken off the inflow.        *)
UndoFromInflow(p) ==
  IF HasLimit(PathOf(p)) /\ IdOf(p) \in pending
    THEN /\ limits' = [limits EXCEPT ![PathOf(p)].inflow = @ - p.amount]
         /\ pending' = pending \ {IdOf(p)}
    ELSE UNCHANGED <<limits, pending>>

(* A packet that failed, by an error acknowledgement or a timeout, is taken *)
(* off the outflow of the limit its path has now, if it is still pending.   *)
UndoSendPacket(p) ==
  IF HasLimit(PathOf(p)) /\ IdOf(p) \in pending
    THEN /\ limits' = [limits EXCEPT ![PathOf(p)].outflow = @ - p.amount]
         /\ pending' = pending \ {IdOf(p)}
    ELSE UNCHANGED <<limits, pending>>

AcknowledgePacket(p, success) ==
  /\ IF success
       THEN pending' = pending \ {IdOf(p)} /\ UNCHANGED <<limits, live>>
       ELSE UndoSendPacket(p) /\ live' = live \ {p}
  /\ inflight' = inflight \ {p}
  /\ UNCHANGED <<registered, nextSeq, replaced>>

TimeoutPacket(p) ==
  /\ UndoSendPacket(p)
  /\ live' = live \ {p}
  /\ inflight' = inflight \ {p}
  /\ UNCHANGED <<registered, nextSeq, replaced>>

-----------------------------------------------------------------------------
(* A limit named by the native denomination of an info of the channel is    *)
(* the limit of its voucher.                                                *)
LimitPath(d, c) ==
  IF \E i \in registered : i.native = d /\ i.channel = c
    THEN <<(CHOOSE i \in registered : i.native = d).ibc, c>>
    ELSE <<d, c>>

NewLimit(q, v) == [quota |-> q, inflow |-> 0, outflow |-> 0, value |-> v]

LivePending(path) == {p \in inflight : PathOf(p) = path /\ IdOf(p) \in pending}

(* The history of a limit that is replaced or removed.                      *)
Replace(path) ==
  /\ live' = {p \in live : PathOf(p) # path}
  /\ replaced' = IF LivePending(path) = {} THEN replaced ELSE replaced \cup {path}
  /\ UNCHANGED <<pending, registered, inflight, nextSeq>>

AddRateLimit(d, c, q, v) ==
  LET path == LimitPath(d, c)
  IN  /\ ~HasLimit(path) /\ v # 0
      /\ limits' = [limits EXCEPT ![path] = NewLimit(q, v)]
      /\ Replace(path)

UpdateRateLimit(d, c, q, v) ==
  LET path == LimitPath(d, c)
  IN  /\ HasLimit(path)
      /\ limits' = [limits EXCEPT ![path] = NewLimit(q, v)]
      /\ Replace(path)

RemoveRateLimit(d, c) ==
  LET path == LimitPath(d, c)
  IN  /\ HasLimit(path)
      /\ limits' = [limits EXCEPT ![path] = NoLimit]
      /\ Replace(path)

-----------------------------------------------------------------------------
(* A mutation of RemoveAllChannelPendingSendPackets: it keeps them.         *)
KeepPendingSendPackets(C) == pending' = pending

(* The sequences under every key that starts with one of the identifiers.   *)
RemoveAllChannelPendingSendPackets(C) ==
  pending' = {id \in pending : \A c \in C : id[1] \notin Extending[c]}

(* ResetRateLimit on each named path: the flow of the limit found there is  *)
(* zeroed, the supply read again, the channel's pending sequences removed.  *)
ResetRateLimits(named, supply) ==
  LET reset == {path \in {LimitPath(n[1], n[2]) : n \in named} : HasLimit(path)}
  IN  /\ limits' = [path \in Path |->
           IF path \in reset THEN NewLimit(limits[path].quota, supply[path[1]])
                             ELSE limits[path]]
      /\ RemoveAllChannelPendingSendPackets({path[2] : path \in reset})
      /\ live' = {p \in live : PathOf(p) \notin reset}
      /\ replaced' = replaced \ reset
      /\ UNCHANGED <<registered, inflight, nextSeq>>

ResetRateLimit(d, c) ==
  /\ HasLimit(LimitPath(d, c))
  /\ \E supply \in [Denom -> Value] : ResetRateLimits({<<d, c>>}, supply)

Expiring == {path \in Path : HasLimit(path) /\ clock.epoch % limits[path].quota.hours = 0}

(* BeginBlocker, with AfterEpochEnd for the epoch that ends.                *)
BeginBlocker(t) ==
  /\ AdvanceClock(t)
  /\ IF EpochEnds(t)
       THEN \E supply \in [Denom -> Value] : ResetRateLimits(Expiring, supply)
       ELSE UNCHANGED limitVars

(* Genesis carries limits, whitelist and pending sequences over; the epoch  *)
(* is counted from the beginning.                                           *)
RestartFromGenesis == RestartClock /\ UNCHANGED limitVars

(* The registry's side: an info comes, or goes after its notice.            *)
ChangeRegistry ==
  /\ \/ \E i \in Info : /\ \A j \in registered : j.native # i.native
                        /\ registered' = registered \cup {i}
     \/ \E i \in registered : registered' = registered \ {i}
  /\ UNCHANGED <<limits, pending, inflight, nextSeq, live, replaced>>

-----------------------------------------------------------------------------
PacketStep ==
  \/ \E c \in Channel, d \in Denom, x \in Amount, pair \in Pair :
       SendPacket(c, d, x, pair) \/ RecvPacket(c, d, x, pair)
  \/ \E p \in inflight :
       \/ \E success \in BOOLEAN : AcknowledgePacket(p, success)
       \/ TimeoutPacket(p)

GovernanceStep ==
  \E path \in Governed :
    LET d == path[1]
        c == path[2]
    IN  \/ \E q \in Quota, v \in Value : AddRateLimit(d, c, q, v) \/ UpdateRateLimit(d, c, q, v)
        \/ RemoveRateLimit(d, c)
        \/ ResetRateLimit(d, c)

Next ==
  \/ (PacketStep \/ GovernanceStep \/ ChangeRegistry) /\ UNCHANGED clockVars
  \/ \E t \in 1..MaxTime : BeginBlocker(t)
  \/ RestartFromGenesis

Spec == Init /\ [][Next]_vars
-----------------------------------------------------------------------------
(* Limits, sequences and packets have their types; outflow is an integer,   *)
(* which the code lets go below zero.                                       *)
TypeOK ==
  /\ ClockTypeOK
  /\ limits \in [Path -> Limit \cup {NoLimit}]
  /\ pending \subseteq Channel \X Nat
  /\ registered \subseteq Info
  /\ inflight \subseteq Packet
  /\ nextSeq \in [Channel -> Nat]
  /\ live \subseteq Packet
  /\ replaced \subseteq Path

(* What has left over a path, less what has come in and what has failed, is *)
(* within the share or the minimum that its limit grants, whatever is sent, *)
(* received, undone, updated and reset, and in whatever order (flow.go,     *)
(* quota.go).                                                               *)
NetOutflowBounded ==
  \A path \in Path : HasLimit(path) =>
    WithinQuota(limits[path], limits[path].quota.send,
                limits[path].outflow - limits[path].inflow)

TotalAmount(P) == SumFunctionOnSet([p \in P |-> p.amount], P)
LiveOn(path) == {p \in live : PathOf(p) = path}

(* The recorded outflow covers every packet that was counted in this quota  *)
(* and has not failed: no failure of a packet from an earlier quota makes   *)
(* room for more (UndoSendPacket, ResetRateLimit).  The code gives this up  *)
(* for a limit that was updated, or removed and added, with packets         *)
(* pending, until its next reset.                                           *)
OutflowCoversLive ==
  \A path \in Path : HasLimit(path) /\ path \notin replaced =>
    limits[path].outflow >= TotalAmount(LiveOn(path))

(* What UndoSendPacket's comment says: a packet not sent during this quota  *)
(* "can be ignored".                                                        *)
StaleUndoIgnored ==
  [][\A p \in inflight \ inflight' : p \notin live => limits' = limits]_vars

(* The same comment: "if the packet was sent during this quota, decrement   *)
(* the outflow".                                                            *)
FreshUndoApplied ==
  [][\A p \in inflight \ inflight' : p \in live \ live' =>
       limits'[PathOf(p)].outflow = limits[PathOf(p)].outflow - p.amount]_vars

(* What ResetRateLimit's comment says: after its expiration a limit's       *)
(* "inflow and outflow should get reset to 0".                              *)
ResetAtExpiration ==
  [][\A path \in Path : clock'.epoch > clock.epoch /\ clock.started /\ path \in Expiring =>
       limits'[path].inflow = 0 /\ limits'[path].outflow = 0]_vars
=============================================================================
