---------------------------- MODULE SharedLedger ----------------------------
(***************************************************************************)
(* What the bridge promises, without vouchers, native denominations,       *)
(* escrow accounts or a registry: a coin shared with another chain is one  *)
(* coin.  Part of it is abroad, part is in the purses of holders here, and *)
(* part is in parcels under way to the other chain.  A parcel arrives, or  *)
(* goes back to the holder who sent it, once.                              *)
(***************************************************************************)
EXTENDS Integers

CONSTANTS
  Coin, Holder, Quantity,
  Abroad0,   \* [Coin -> Nat]: what is abroad at first
  Purse0     \* [Coin -> [Holder -> Nat]]: and what holders have then

VARIABLES abroad, purse, parcels

sharedVars == <<abroad, purse, parcels>>

SharedInit ==
  /\ abroad = Abroad0
  /\ purse = Purse0
  /\ parcels = {}

Credit(k, a, x) == purse' = [purse EXCEPT ![k][a] = @ + x]
Debit(k, a, x) == purse[k][a] >= x /\ purse' = [purse EXCEPT ![k][a] = @ - x]

Passed(f, a, b, x) == [[f EXCEPT ![a] = @ - x] EXCEPT ![b] = @ + x]

Pay ==
  /\ UNCHANGED abroad
  /\ UNCHANGED parcels
  /\ \E k \in Coin, a, b \in Holder, x \in Quantity :
       /\ purse[k][a] >= x
       /\ purse' = [purse EXCEPT ![k] = Passed(purse[k], a, b, x)]

Receive ==
  /\ UNCHANGED parcels
  /\ \E k \in Coin, x \in Quantity :
       /\ abroad[k] >= x
       /\ abroad' = [abroad EXCEPT ![k] = @ - x]
       /\ \E b \in Holder : Credit(k, b, x)

(* No other parcel of the coin under way has the new one's number.          *)
Send ==
  /\ UNCHANGED abroad
  /\ \E q \in parcels' \ parcels :
       /\ parcels' = parcels \cup {q}
       /\ \A r \in parcels : r.coin = q.coin => r.number # q.number
       /\ Debit(q.coin, q.sender, q.amount)

Arrive(q) ==
  /\ abroad' = [abroad EXCEPT ![q.coin] = @ + q.amount]
  /\ UNCHANGED purse

Return(q) ==
  /\ UNCHANGED abroad
  /\ Credit(q.coin, q.sender, q.amount)

Settle == \E q \in parcels \ parcels' : parcels' = parcels \ {q} /\ (Arrive(q) \/ Return(q))

SharedNext == Pay \/ Receive \/ Send \/ Settle

SharedSpec == SharedInit /\ [][SharedNext]_sharedVars
=============================================================================
