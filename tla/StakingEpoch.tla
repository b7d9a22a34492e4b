---------------------------- MODULE StakingEpoch ----------------------------
(***************************************************************************)
(* Staking by epochs: custom/staking over the SDK's staking module, with   *)
(* the parameters of x/stakingmiddleware.                                  *)
(*                                                                         *)
(* Stake moves in every block, but the validator set follows it only at    *)
(* the end of a block whose height is a multiple of BlocksPerEpoch; what   *)
(* unbonds is paid at the end of any block.  Undelegate and                *)
(* BeginRedelegate do nothing in the first blocks of an epoch, and report  *)
(* success all the same.  What a slash reports to have burned is minted    *)
(* again for the community pool: not what it burns of stake that is        *)
(* unbonding or was redelegated, which the SDK does not report.            *)
(*                                                                         *)
(* The SDK's keeper is external: its delegations are summed up by          *)
(* validator, one token is one unit of consensus power, and times are      *)
(* counted in blocks.                                                      *)
(***************************************************************************)
EXTENDS Integers, FiniteSetsExt

CONSTANTS
  Validator,
  MaxValidators,   \* size of the validator set
  Coins,           \* what delegators hold at genesis
  EpochParams,     \* the parameters governance may choose
  MinBlocksPerEpoch, \* 5 in the code
  MintOutcome,     \* how minting for the community pool may end
  UnbondingBlocks, \* the unbonding time
  Cycle            \* bound: heights are read modulo the epochs it is a multiple of

ASSUME StakingAssumption ==
  /\ IsFiniteSet(Validator)
  /\ UnbondingBlocks \in Nat \ {0}
  /\ MinBlocksPerEpoch \in Nat \ {0}
  /\ Coins \in Nat
  /\ MaxValidators \in Nat \ {0}
  /\ MintOutcome \subseteq {"funded", "unfunded", "unminted"}
  /\ Cycle \in Nat \ {0, 1}

(* SetParams: what it lets pass.                                            *)
ValidParams(p) == p.blocks >= MinBlocksPerEpoch /\ p.allowAfter <= p.blocks

ASSUME EpochAssumption ==
  \A p \in EpochParams :
    p.blocks \in Nat /\ p.allowAfter \in Nat /\ (ValidParams(p) => Cycle % p.blocks = 0)

VARIABLES
  height,        \* of the current block, modulo Cycle
  epoch,         \* the stored parameters
  liquid,        \* coins of delegators that are not staked
  tokens,        \* [Validator -> Nat]: stake of each validator
  jailed,
  power,         \* consensus power last sent to CometBFT; 0: not in the set
  leaving,       \* blocks until an unbonding validator is unbonded
  unbonding,     \* [Validator -> [Left -> Nat]]: stake on its way out
  moved,         \* [Validator -> [Validator -> [Left -> Nat]]]: redelegations
  communityPool,
  mintAccount,   \* what slashes left in the mint module's account
  age,           \* history: blocks since the set was last updated
  paramsChanged, \* history: epoch changed since then
  slashed,       \* history: what slashes took since then of the stake of then
  burned         \* history: what slashes burned and nobody minted again, in all

stake == <<liquid, tokens, unbonding, moved>>
pools == <<communityPool, mintAccount>>
history == <<age, paramsChanged, slashed, burned>>
vars == <<height, epoch, stake, jailed, power, leaving, pools, history>>

(* The ends of blocks a stake still has before it, the last of which pays.  *)
Term == UnbondingBlocks + 1
Left == 1..Term

Bonded(v) == power[v] > 0
Unbonded(v) == power[v] = 0 /\ leaving[v] = 0

Nothing == [k \in Left |-> 0]
Total(f, S) == SumFunctionOnSet(f, S)

Init ==
  /\ height = 1
  /\ epoch \in {p \in EpochParams : ValidParams(p)}
  /\ liquid = Coins
  /\ tokens = [v \in Validator |-> 0]
  /\ jailed = {}
  /\ power = tokens
  /\ leaving = tokens
  /\ unbonding = [v \in Validator |-> Nothing]
  /\ moved = [v \in Validator |-> [w \in Validator |-> Nothing]]
  /\ communityPool = 0
  /\ mintAccount = 0
  /\ age = 1
  /\ paramsChanged = FALSE
  /\ slashed = tokens
  /\ burned = 0
-----------------------------------------------------------------------------
(* Delegate and CreateValidator are passed on.                              *)
Delegate(v, x) ==
  /\ liquid >= x
  /\ liquid' = liquid - x
  /\ tokens' = [tokens EXCEPT ![v] = @ + x]
  /\ UNCHANGED <<unbonding, moved>>

(* A mutation of UnbondAllowed: the block that ends the epoch is forgotten.  *)
UnbondAllowedBefore == height % epoch.blocks > epoch.allowAfter

(* The messages that take stake away are carried out only late in an epoch, *)
(* or in the block that ends it.                                            *)
UnbondAllowed ==
  LET progress == height % epoch.blocks
  IN  progress > epoch.allowAfter \/ progress = 0

Undelegate(v, x) ==
  /\ UnbondAllowed
  /\ tokens[v] >= x
  /\ tokens' = [tokens EXCEPT ![v] = @ - x]
  /\ unbonding' = [unbonding EXCEPT ![v][Term] = @ + x]
  /\ UNCHANGED <<liquid, moved>>

(* A mutation of TermOf: a redelegation ends with the current block.        *)
NoTerm(v) == 1

(* A redelegation is followed as long as its source can still be slashed.   *)
TermOf(v) == IF Bonded(v) THEN Term ELSE leaving[v]

BeginRedelegate(v, w, x) ==
  /\ UnbondAllowed
  /\ v # w
  /\ tokens[v] >= x
  /\ \A u \in Validator : moved[u][v] = Nothing
  /\ tokens' = [tokens EXCEPT ![v] = @ - x, ![w] = @ + x]
  /\ moved' = IF Unbonded(v) THEN moved ELSE [moved EXCEPT ![v][w][TermOf(v)] = @ + x]
  /\ UNCHANGED <<liquid, unbonding>>

CancelUnbondingDelegation(v, k, x) ==
  /\ v \notin jailed
  /\ unbonding[v][k] >= x
  /\ unbonding' = [unbonding EXCEPT ![v][k] = @ - x]
  /\ tokens' = [tokens EXCEPT ![v] = @ + x]
  /\ UNCHANGED <<liquid, moved>>

StakingTx ==
  /\ \E v \in Validator :
       \/ Delegate(v, 1) \/ Undelegate(v, 1)
       \/ \E w \in Validator : BeginRedelegate(v, w, 1)
       \/ \E k \in Left : CancelUnbondingDelegation(v, k, 1)
  /\ UNCHANGED <<height, epoch, jailed, power, leaving, pools, history>>

(* UpdateEpochParams, by governance.                                        *)
UpdateEpochParams ==
  /\ epoch' \in {p \in EpochParams : ValidParams(p)}
  /\ paramsChanged' = (paramsChanged \/ epoch' # epoch)
  /\ UNCHANGED <<height, stake, jailed, power, leaving, pools, age, slashed, burned>>
-----------------------------------------------------------------------------
(* Stake that left v since the set was updated, with k blocks before it.    *)
LeftSince(k) == k > Term - age

(* A mutation of MintReported: for a payment that failed it mints again.    *)
MintReportedAgain(x, outcome) ==
  /\ communityPool' = communityPool + (IF outcome = "unminted" THEN 0 ELSE x)
  /\ mintAccount' = mintAccount + (IF outcome = "unfunded" THEN x ELSE 0)

(* What a slash reports, x, is minted in the mint module's account and goes *)
(* on to the community pool.  Either call may fail, which is only logged.   *)
MintReported(x, outcome) ==
  /\ communityPool' = communityPool + (IF outcome = "funded" THEN x ELSE 0)
  /\ mintAccount' = mintAccount + (IF outcome = "unfunded" THEN x ELSE 0)

(* An entry with so many blocks before it, and what is slashed of it; one   *)
(* with this block only is mature, and is not slashed.                      *)
NoCut == [left |-> Term, amount |-> 0]
Cuts == {NoCut} \cup [left : Left \ {1}, amount : {1}]

(* The SDK's Slash burns x of the validator's stake, which it reports, and, *)
(* unreported, some of the stake that is unbonding from it, u, and of that  *)
(* of a validator w where stake redelegated from v still is, r.  The record *)
(* of a redelegation stays.                                                 *)
SlashWithInfractionReason(v, x, u, w, r) ==
  /\ ~Unbonded(v)
  /\ tokens[v] >= x
  /\ unbonding[v][u.left] >= u.amount
  /\ moved[v][w][r.left] >= r.amount /\ tokens[w] >= r.amount
  /\ w = v => r = NoCut
  /\ tokens' = [tokens EXCEPT ![w] = @ - r.amount, ![v] = @ - x]
  /\ unbonding' = [unbonding EXCEPT ![v][u.left] = @ - u.amount]
  /\ slashed' = [slashed EXCEPT ![w] = @ + r.amount,
                   ![v] = @ + x + (IF LeftSince(u.left) THEN u.amount ELSE 0)]
  /\ \E outcome \in MintOutcome :
       /\ MintReported(x, outcome)
       /\ burned' = burned + u.amount + r.amount + (IF outcome = "unminted" THEN x ELSE 0)
  /\ UNCHANGED <<liquid, moved, age, paramsChanged>>

Slash ==
  /\ \E v, w \in Validator, x \in {0, 1}, u, r \in Cuts : SlashWithInfractionReason(v, x, u, w, r)
  /\ UNCHANGED <<height, epoch, jailed, power, leaving>>

Jail(v) == v \notin jailed /\ jailed' = jailed \cup {v}
Unjail(v) == v \in jailed /\ tokens[v] > 0 /\ jailed' = jailed \ {v}

JailOrUnjail ==
  /\ \E v \in Validator : Jail(v) \/ Unjail(v)
  /\ UNCHANGED <<height, epoch, stake, power, leaving, pools, history>>
-----------------------------------------------------------------------------
(* ApplyAndReturnValidatorSetUpdates: the set is the validators with most   *)
(* stake; no jailed one, and none without stake, is among them.             *)
Eligible == {v \in Validator \ jailed : tokens[v] > 0}

TopValidators ==
  {S \in SUBSET Eligible :
     /\ Cardinality(S) = Min({MaxValidators, Cardinality(Eligible)})
     /\ \A v \in S, w \in Eligible \ S : tokens[v] >= tokens[w]}

PowerUpdates(S) == [v \in Validator |-> IF v \in S THEN tokens[v] ELSE 0]

(* A mutation of OneBlockLess: it counts on below zero.                     *)
OneBlockLessUnchecked(v) == leaving[v] - 1

OneBlockLess(v) == Max({0, leaving[v] - 1})

ApplyValidatorSet(S) ==
  /\ power' = PowerUpdates(S)
  /\ leaving' = [v \in Validator |->
       IF v \in S THEN 0 ELSE IF Bonded(v) THEN UnbondingBlocks ELSE OneBlockLess(v)]
  /\ age' = 1
  /\ paramsChanged' = FALSE
  /\ slashed' = [v \in Validator |-> 0]

(* age stops just past the unbonding time, where it says no more.           *)
KeepValidatorSet ==
  /\ leaving' = [v \in Validator |-> OneBlockLess(v)]
  /\ age' = Min({age + 1, UnbondingBlocks + 1})
  /\ UNCHANGED <<power, paramsChanged, slashed>>

Shifted(f) == [k \in Left |-> IF k = Term THEN 0 ELSE f[k + 1]]

(* Mutations of ShouldExecuteBatch: an epoch has a block too many; the      *)
(* other parameter is used.                                                 *)
AfterOneMoreBlock == height % (epoch.blocks + 1) = 0
AfterAllowedProgress == height % epoch.blocks > epoch.allowAfter

ShouldExecuteBatch == height % epoch.blocks = 0

(* The end of a block: the set is updated if its epoch ends, then whatever  *)
(* is mature is paid or forgotten.                                          *)
BlockValidatorUpdates ==
  /\ IF ShouldExecuteBatch THEN \E S \in TopValidators : ApplyValidatorSet(S)
                           ELSE KeepValidatorSet
  /\ liquid' = liquid + Total([v \in Validator |-> unbonding[v][1]], Validator)
  /\ unbonding' = [v \in Validator |-> Shifted(unbonding[v])]
  /\ moved' = [v \in Validator |-> [w \in Validator |-> Shifted(moved[v][w])]]
  /\ height' = (height + 1) % Cycle
  /\ UNCHANGED <<epoch, tokens, jailed, pools, burned>>

Next == StakingTx \/ UpdateEpochParams \/ Slash \/ JailOrUnjail \/ BlockValidatorUpdates

(* Blocks keep coming: consensus is outside the program, and it is what     *)
(* calls EndBlocker.                                                        *)
Spec == Init /\ [][Next]_vars /\ WF_vars(BlockValidatorUpdates)
-----------------------------------------------------------------------------
StakingTypeOK ==
  /\ height \in 0..(Cycle - 1)
  /\ epoch \in EpochParams
  /\ ValidParams(epoch)
  /\ liquid \in Nat
  /\ tokens \in [Validator -> Nat]
  /\ jailed \subseteq Validator
  /\ power \in [Validator -> Nat]
  /\ leaving \in [Validator -> 0..UnbondingBlocks]
  /\ unbonding \in [Validator -> [Left -> Nat]]
  /\ moved \in [Validator -> [Validator -> [Left -> Nat]]]
  /\ communityPool \in Nat
  /\ mintAccount \in Nat
  /\ age \in 1..(UnbondingBlocks + 1)
  /\ paramsChanged \in BOOLEAN
  /\ slashed \in [Validator -> Nat]
  /\ burned \in Nat

(* What left v, unbonded or redelegated, since the set was updated, and is  *)
(* still on the records a slash of v goes by.                               *)
OnRecord(v) ==
  LET since == {k \in Left : LeftSince(k)}
  IN  Total(unbonding[v], since) + Total([w \in Validator |-> Total(moved[v][w], since)], Validator)

(* Validators vote with the stake they had when the set was last updated.   *)
(* As long as that is no longer ago than the unbonding time, none of it is  *)
(* out of sight: it is still stake of theirs, on the records that a slash   *)
(* of theirs goes by, or was slashed since, whatever moved, unbonded and    *)
(* was cancelled in whichever blocks of the epoch (keeper.go,               *)
(* BlockValidatorUpdates pays unbonded stake and drops redelegations in any *)
(* block, but updates the set once an epoch).                               *)
VotingStakeTraced ==
  age <= UnbondingBlocks =>
    \A v \in Validator : power[v] <= tokens[v] + OnRecord(v) + slashed[v]

(* The set is never older than an epoch, unless governance changed the      *)
(* epoch in the meantime: then the next multiple of the new length may be   *)
(* further away than the old epoch's end was (keeper.go, msg_server.go).    *)
SetNotStale == ~paramsChanged => age <= epoch.blocks

(* The coins of delegators: held, staked or unbonding.                      *)
InPlay == liquid + Total(tokens, Validator) + Total([v \in Validator |-> Total(unbonding[v], Left)], Validator)

(* Slashing makes no coin and loses track of none: what is not with a       *)
(* delegator is in the community pool or in the mint module's account, or   *)
(* is what slashes burned of unbonding and redelegated stake or failed to   *)
(* mint again (keeper.go, SlashWithInfractionReason, with its two errors).  *)
SlashedCoinsAccounted == Coins = InPlay + communityPool + mintAccount + burned

(* If governance leaves the epoch alone from some time on, a delegator gets *)
(* the chance to leave again and again, although the window may lie past    *)
(* the epoch's last block but one (msg_server.go; SetParams allows that).   *)
LeavingAllowed == <>[][UNCHANGED epoch]_vars => []<>UnbondAllowed

(* The powers CometBFT has are those of the stake: the greatest validators, *)
(* none of them jailed.                                                     *)
InSync == \E S \in TopValidators : power = PowerUpdates(S)

(* If governance leaves the epoch alone from some time on, the set catches  *)
(* up with the stake again and again: a change of stake, a jailing or a     *)
(* return from jail is not passed over for good.                            *)
SetCatchesUp == <>[][UNCHANGED epoch]_vars => []<>InSync
=============================================================================
