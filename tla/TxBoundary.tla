------------------------------ MODULE TxBoundary ------------------------------
(***************************************************************************)
(* The limits on staking transactions: x/tx-boundary.                      *)
(*                                                                         *)
(* Every address has one counter of delegations and one of redelegations.  *)
(* The ante handler counts each staking message of a transaction, those    *)
(* wrapped in a MsgExec too, and denies the transaction when a counter is  *)
(* at its limit.  Counters are not reset; they regenerate, one for every   *)
(* BlocksPerGeneration blocks since the block the record holds, five at    *)
(* most, when the next message of the address is looked at.                *)
(*                                                                         *)
(* The messages of a transaction write to a branch of the store.  It       *)
(* becomes the store when all of them have passed, and is dropped, what    *)
(* regenerated in it too, when one is denied or a later decorator fails.   *)
(***************************************************************************)
EXTENDS Integers

CONSTANTS
  Delegator,   \* addresses
  Boundary,    \* the boundaries a genesis may have
  Window,      \* a number of consecutive blocks to count messages over
  MaxTxMsgs,   \* bound on the staking messages of a transaction
  MaxHeight    \* bound on the height of the chain

Kind == {"delegate", "redelegate"}

(* SetDelegateBoundary and SetRedelegateBoundary refuse zero blocks.        *)
ASSUME BoundaryAssumption ==
  /\ Boundary \subseteq [txLimit: Nat, blocksPerGeneration: Nat \ {0}]
  /\ Window \in Nat \ {0}
  /\ MaxHeight \in Nat
  /\ MaxTxMsgs \in Nat

VARIABLES
  height,       \* of the current block
  boundary,     \* the boundary of each kind of message
  store,        \* what the last successful ante handler left
  branch,       \* what the ante handler at work has written
  txMsgs,       \* staking messages it has looked at
  windowStart,  \* first of the blocks that messages are counted over
  settled       \* the chain was not restarted since then

vars == <<height, boundary, store, branch, txMsgs, windowStart, settled>>

LimitPerAddr == [count: [Kind -> Nat], latestUpdateBlock: Nat]

(* History: messages of an address counted in the window, and the block in  *)
(* which one last passed.                                                   *)
Tally == [inWindow: [Kind -> Nat], lastPassed: Nat]

Store == [limit: [Delegator -> LimitPerAddr], tally: [Delegator -> Tally]]

(* An address without a record reads as zeros.                              *)
NoRecord == [count |-> [k \in Kind |-> 0], latestUpdateBlock |-> 0]
NoTally == [inWindow |-> [k \in Kind |-> 0], lastPassed |-> 0]

Init ==
  /\ height = 1
  /\ boundary \in [Kind -> Boundary]
  /\ store = [limit |-> [a \in Delegator |-> NoRecord],
              tally |-> [a \in Delegator |-> NoTally]]
  /\ branch = store
  /\ txMsgs = 0
  /\ windowStart \in 1 .. MaxHeight
  /\ settled = TRUE
-----------------------------------------------------------------------------
(* A mutation of Regenerated: the unsigned subtraction is not guarded.      *)
RegeneratedUnguarded(count, generated) == count - generated

Regenerated(count, generated) ==
  IF generated > count THEN 0 ELSE count - generated

GeneratedTx(duration, blocks) ==
  IF duration \div blocks > 5 THEN 5 ELSE duration \div blocks

(* Mutations of UpdateLimitPerAddr: the block of the record is not moved;   *)
(* one block late.                                                          *)
UpdateLimitKeepingBlock(r) ==
  LET blocks == boundary["delegate"].blocksPerGeneration
      generated == GeneratedTx(height - r.latestUpdateBlock, blocks)
  IN  IF r.latestUpdateBlock = 0 \/ r.latestUpdateBlock + blocks > height
        THEN r
        ELSE [r EXCEPT !.count = [k \in Kind |-> Regenerated(@[k], generated)]]
UpdateLimitLate(r) ==
  LET blocks == boundary["delegate"].blocksPerGeneration
      generated == GeneratedTx(height - r.latestUpdateBlock, blocks)
  IN  IF r.latestUpdateBlock = 0 \/ r.latestUpdateBlock + blocks >= height
        THEN r
        ELSE [count |-> [k \in Kind |-> Regenerated(r.count[k], generated)],
              latestUpdateBlock |-> height]

(* Both counters regenerate by the boundary of delegations.                 *)
UpdateLimitPerAddr(r) ==
  LET blocks == boundary["delegate"].blocksPerGeneration
      generated == GeneratedTx(height - r.latestUpdateBlock, blocks)
  IN  IF r.latestUpdateBlock = 0 \/ r.latestUpdateBlock + blocks > height
        THEN r
        ELSE [count |-> [k \in Kind |-> Regenerated(r.count[k], generated)],
              latestUpdateBlock |-> height]

(* IncrementDelegateCount and IncrementRedelegateCount; the first message   *)
(* of an address creates its record.                                        *)
IncrementCount(r, k) ==
  [count |-> [r.count EXCEPT ![k] = @ + 1],
   latestUpdateBlock |-> IF r.latestUpdateBlock = 0 THEN height ELSE r.latestUpdateBlock]

InWindow == settled /\ height \in windowStart .. windowStart + Window - 1

Tallied(t, k) ==
  [inWindow |-> IF InWindow THEN [t.inWindow EXCEPT ![k] = @ + 1] ELSE t.inWindow,
   lastPassed |-> height]

(* validDelegateMsg and validRedelegateMsg.  A limit of zero is no limit    *)
(* and nothing is counted under it.  A denied message ends in AnteFail.     *)
StakingMsgUnlimited(a, k) ==
  /\ txMsgs < MaxTxMsgs
  /\ txMsgs' = txMsgs + 1
  /\ boundary[k].txLimit = 0
  /\ branch' = [limit |-> [branch.limit EXCEPT ![a] = UpdateLimitPerAddr(@)],
                tally |-> [branch.tally EXCEPT ![a].lastPassed = height]]
  /\ UNCHANGED <<height, boundary, store, windowStart, settled>>

StakingMsgCounted(a, k) ==
  /\ txMsgs < MaxTxMsgs
  /\ txMsgs' = txMsgs + 1
  /\ boundary[k].txLimit # 0
  /\ UpdateLimitPerAddr(branch.limit[a]).count[k] < boundary[k].txLimit
  /\ branch' = [limit |-> [branch.limit EXCEPT ![a] = IncrementCount(UpdateLimitPerAddr(@), k)],
                tally |-> [branch.tally EXCEPT ![a] = Tallied(@, k)]]
  /\ UNCHANGED <<height, boundary, store, windowStart, settled>>

AntePass ==
  /\ txMsgs > 0
  /\ txMsgs' = 0
  /\ store' = branch
  /\ UNCHANGED <<height, boundary, branch, windowStart, settled>>

AnteFail ==
  /\ txMsgs > 0
  /\ txMsgs' = 0
  /\ branch' = store
  /\ UNCHANGED <<height, boundary, store, windowStart, settled>>

NextBlock ==
  /\ txMsgs = 0
  /\ height < MaxHeight
  /\ height' = height + 1
  /\ UNCHANGED <<boundary, store, branch, txMsgs, windowStart, settled>>

(* A chain restarted from its exported genesis keeps the boundaries alone,  *)
(* which who prepares the file may change.  Nothing else changes them: the  *)
(* messages that would have no server.  What was counted in an open window  *)
(* tells nothing any more.                                                  *)
RestartFromGenesis ==
  /\ txMsgs = 0
  /\ boundary' \in [Kind -> Boundary]
  /\ store' = [limit |-> [a \in Delegator |-> NoRecord],
               tally |-> [a \in Delegator |-> [store.tally[a] EXCEPT !.inWindow = NoTally.inWindow]]]
  /\ branch' = store'
  /\ settled' = (settled /\ height < windowStart)
  /\ UNCHANGED <<height, txMsgs, windowStart>>

Next ==
  \/ \E a \in Delegator, k \in Kind : StakingMsgUnlimited(a, k) \/ StakingMsgCounted(a, k)
  \/ AntePass
  \/ AnteFail
  \/ NextBlock
  \/ RestartFromGenesis

Spec == Init /\ [][Next]_vars
-----------------------------------------------------------------------------
(* The counters are unsigned: none may be taken below zero.                 *)
TypeOK ==
  /\ height \in Nat \ {0}
  /\ boundary \in [Kind -> Boundary]
  /\ store \in Store
  /\ branch \in Store
  /\ txMsgs \in Nat
  /\ windowStart \in Nat \ {0}
  /\ settled \in BOOLEAN

(* The rate the boundaries promise: in Window consecutive blocks, wherever  *)
(* they start, an address gets no more messages of a kind through than the  *)
(* limit and one for every further generation, one being under way when the *)
(* window opens; both kinds at the pace of delegations (keeper.go,          *)
(* UpdateLimitPerAddr), as long as the chain is not restarted.              *)
WindowBounded ==
  \A a \in Delegator, k \in Kind :
    settled /\ boundary[k].txLimit # 0 =>
      LET blocks == boundary["delegate"].blocksPerGeneration
      IN  store.tally[a].inWindow[k]
            <= boundary[k].txLimit + (Window + blocks - 2) \div blocks

Denied(a, k) ==
  /\ boundary[k].txLimit # 0
  /\ UpdateLimitPerAddr(store.limit[a]).count[k] >= boundary[k].txLimit

(* A denial is never about the past alone: an address that is denied now    *)
(* got a message through less than one generation ago, though a denied      *)
(* transaction also drops what regenerated in it (decorate.go).             *)
DenialIsRecent ==
  \A a \in Delegator, k \in Kind :
    Denied(a, k) => height < store.tally[a].lastPassed + boundary["delegate"].blocksPerGeneration
=============================================================================
