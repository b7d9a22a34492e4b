# A verification model of Composable's Centauri chain

Centauri is a Cosmos SDK chain that bridges Polkadot parachains into IBC. Most of
its own logic lies in how it treats tokens that cross an IBC channel: it swaps
vouchers for coins of its own, limits what may leave, charges for it, and calls
contracts on the way. Beside that it changes two modules of the SDK, staking and
minting, and limits staking transactions. These modules model that logic in TLA+,
check it with TLC on small instances, and prove its safety properties with TLAPS
for all instances.

Paths are relative to the repository's root.

## Inventory

| Part | State | Operations | Status |
|---|---|---|---|
| Parachain token registry, `x/transfermiddleware/keeper` | token infos under three keys (native denomination, asset id, voucher), remove list, relayer allow list, notice parameter | add, queue a removal, remove when a block finds the notice has passed, allow a relayer, export and start again | `ParachainRegistry`, proved but for liveness |
| Transfer middleware, `x/transfermiddleware` | none of its own: bank balances, supplies and packets | convert on receipt (`relay.go`), on sending and on refund (`ics4wrapper.go`) | `TransferMiddleware`, an implementation of `SharedLedger`, proved |
| Channel fees, `custom/ibc-transfer`, `x/ibctransfermiddleware` | fee table per channel and token, fee charged per packet sequence | charge a transfer, refund on timeout, forget on acknowledgement, change the table | `ChannelFee`, over `TransferMiddleware`, proved |
| IBC hooks, `x/ibc-hooks` | callback contract per packet | call a contract on receipt, call back on acknowledgement and timeout | `IbcHooks`, over `TransferMiddleware`, proved |
| Rate limits, `x/ratelimit` | limits by path, pending sequences, whitelist | count or refuse a packet, undo a failed one, add, update, remove, reset, expire | `RateLimit`, proved |
| Rate limit epochs, `x/ratelimit` | one epoch info | advance with the block, end an epoch | `EpochClock`, proved |
| Staking transaction limits, `x/tx-boundary` | two limits, two counters per address and the height of their last update | count, refuse, regenerate with height | `TxBoundary`, proved |
| Epoch staking, `custom/staking`, `x/stakingmiddleware` | blocks per epoch, the window in which unbonding is allowed | apply validator changes once per epoch, ignore undelegations outside the window, mint slashed coins again | `StakingEpoch`, proved but for liveness |
| Mint, `x/mint` | minter (inflation), prefunded account, funder allow list, parameters | pay a block's provision, fund the account | `Mint`, proved |
| Transfer stack, `app/keepers/keepers.go` | none | the order of the above on a packet's way | in `ChannelFee` and `IbcHooks`, without rate limits |
| Bank queries, `custom/bank` | none | total supply less escrowed duplicates | not modelled: reads only |
| Ante handlers, `app/ante` | none | filter on the relayer allow list, staking limits | the limits in `TxBoundary`; the filter is stateless |
| Application, upgrades, bech32 migration, daemon, CLI, test chains, simulation, generated code | | | not modelled: wiring, one-off migrations, input and output |

How they interact. On its way out, a transfer passes the fee-charging message
server, the ICS-20 transfer application, the transfer middleware, the rate limits,
the hooks and the channel. When the middleware converts a coin it runs the transfer
keeper a second time, inside the first call, and drops the first packet. On its
way in, a packet passes the hooks, the rate limits, the packet forward middleware
(a dependency), the transfer middleware and the application. Rate limits read the
registry to translate a native denomination into its voucher; the middleware reads
and deletes the fee kept for a sequence. All of this runs in one transaction at a
time: a transaction that fails, and a received packet that is answered with an
error, leave no state behind. What is concurrent is the order of transactions,
blocks, packets, acknowledgements and timeouts, and governance in between. Staking,
minting and the staking limits share nothing with the transfer stack but the bank.

What makes each part correct:

- Registry: the three keys describe the same infos; no info goes before a removal
  time recorded for its denomination has passed, and a queued removal that is not
  asked for again is carried out.
- Middleware: each minted native coin is backed by a locked voucher, no coin is
  created or lost across the two chains, the escrow can pay what it owes, and a
  refund reaches its sender exactly once, whatever was registered meanwhile.
- Rate limits: net outflow within the quota at any time; the recorded outflow covers
  what left; a failed packet is undone in its own quota and in no other; every
  limit expires. Epochs: no drift, none skipped.
- Fees: a fee is paid back at most once and from what was charged; a timeout returns
  the amount and the fee; charging neither makes nor loses a coin.
- Hooks: a callback belongs to one packet, is made at most once and says what became
  of the coins; a packet that calls a contract strands no funds.
- Staking limits: no address gets more messages through in a window than its limit
  and the regeneration grant, and none is denied for what is long past.
- Epoch staking: power changes only at an epoch's end, and an epoch's end comes; what
  votes stays traced to stake or to the records a slash goes by; a slash mints no more
  than it reports to have burned, and every coin is accounted for.
- Mint: a year pays within its bounds and out of the prefunded account alone.

What is hard about this code is listed, line by line, under `hazards` in
`PROJECT.json`: registrations that change between the two ends of a packet's life,
answers that arrive in another quota than the packet left in, keys that are looked
up one way and deleted another, state shared by packets of different channels,
transactions that fail half way, restarts that lose half of the state.

## The modules

    ParachainRegistry    Bank    EpochClock      TxBoundary   StakingEpoch   Mint
          |               |          |
          +-------+-------+      RateLimit
                  |
         TransferMiddleware  - - implements - ->  SharedLedger
            |          |
       ChannelFee   IbcHooks

### ParachainRegistry (`x/transfermiddleware/keeper/{keeper,abci,genesis,msg_server}.go`)

`infoByNative`, `infoByAsset` and `nativeByIbc` are the store's prefixes 0x01, 0x02,
0x03; a missing key reads as the zero value, as the getters return it. `removeList`
holds, for each native denomination, no removal time or one. There is no clock: the
code compares a removal time only with the time of the block, so the model keeps
what is left of it, and each block takes off the time since the one before
(`Elapsed`); all times that have passed are -1. So nothing bounds how long a
behaviour lasts. `AddParachainIBCInfo` writes three keys after three duplicate tests;
`AddParachainIBCInfoToRemoveList` records block time plus the `Duration` parameter,
which governance may change (the constant `Notice` is the set of its values) and
which the code lets be zero or negative; it overwrites a time that is recorded
already. `BeginBlocker(dt)` removes what a block passes that comes `dt` later. An
entry stays in the list for good, as in the code. `RestartFromGenesis` is export followed by
import: infos come back through the asset keys, list and allow list are lost.
`InitGenesis` ignores an info that `AddParachainIBCInfo` refuses; exported infos
never collide, by `IndexAgreement`.

### TransferMiddleware, over Bank (`x/transfermiddleware/{ibc_middleware,keeper/ics4wrapper,keeper/relay}.go`)

`Bank` models the bank keeper of the SDK (not part of the repository) as operators
on a ledger value, so that a handler with several bank calls is their composition.
`TransferPassedOn` and `TransferConverted` are the two branches of `SendPacket`; the
latter composes the lock of the outer transfer, the burn, the release of the voucher
and the inner transfer of `handleOverrideSendPacketTransferLogic`. `OnRecvAsset` and
`OnRecvReturned` are receipts, `OnAcknowledgementPacket` and `OnTimeoutPacket` the
answers, with the application's refund followed by `refundToken`. The ICS-20
application, core IBC and the counterparty are the environment: packets in flight
are a set, answered once, by an acknowledgement or a timeout, in any order;
`Deliver` is the counterparty, which only sends what it holds (`remote`). Users may
send any coin to any account, the escrow accounts included, and receive on behalf
of an escrow account. `donated` is a history variable: vouchers put in their escrow
account by a transfer or a bank send instead of a conversion. That is how the
repository's own documentation launches a bridge for an existing native supply
(`x/transfermiddleware/spec/readme.md`), and it is counted, not forbidden.

Two assumptions on the catalogue of infos: an info's voucher is the hash of its
channel and asset, and infos of the catalogue do not share a native denomination or
a voucher. The first is what `relay.go` computes; the second is a limit of the
model: with it lifted, governance can register one native denomination first for one
voucher and later for another, and coins minted against the first would then be paid
out of the second. Nothing in the code prevents that, so `Backing` is a statement
about chains whose governance keeps a native denomination to its voucher.

### SharedLedger: what the bridge promises

A coin shared with another chain is one coin: part of it is abroad, part in purses
here, part in parcels under way, and a parcel arrives or goes back to its sender,
once. There are no vouchers, no native denominations, no escrow accounts and no
registry. `TransferMiddleware` instantiates it: a purse is what a holder has of a
voucher and of its native denomination together (for the escrow account of the
voucher's own channel, what was donated to it), `abroad` is what the counterparty
holds, parcels are the packets that still have coins with them; an acknowledged
packet has delivered them.
`ImplementsSharedLedger` says that conversions, registrations, removals and restarts
are invisible at this level, and that every other step is one payment, receipt,
dispatch or settlement.

### ChannelFee, over TransferMiddleware (`custom/ibc-transfer/keeper`, `x/ibctransfermiddleware`, `ibc_middleware.go`)

`channelFees` is the parameters' list by channel, `sequenceFee` the store of fees by
sequence, which packets of all channels share. A transfer is one of four: over a
channel without fees; one the fee uses up, which pays and sends nothing;
`TransferCharged`; and `TransferChargedTwice`, where the middleware converts what
the first fee left and the transfer keeper it calls charges the voucher again.
There the keeper stores the voucher's fee first and the message server the native
coin's over it, and a voucher the fee uses up returns sequence 0, under which the
native coin's fee is then kept. `ChargePanics` is the division by a percentage of
zero that only the keeper makes; the transaction fails and the action is disabled.
`TimeoutWithFee` refunds, then pays the fee back from the fee address the channel
has by then, if it can pay. `promised`, by sequence and denomination, and `ownFee` are
history variables.

### IbcHooks, over TransferMiddleware (`x/ibc-hooks/{wasm_hook,keeper/keeper}.go`)

`callbacks` is the module's store. `TransferWithCallback` is a transfer whose memo
names a contract; `OnAcknowledgementPacketOverride` and `OnTimeoutPacketOverride`
run the stack below, then the callback. A contract that fails takes the
acknowledgement down with it, so the action does not happen and the packet stays; on
a timeout the failure is swallowed, so telling is one outcome and silence the other.
`OnRecvAssetOverride` and `OnRecvReturnedOverride` receive for an intermediary, an
address derived from channel and sender for which nobody can sign, and call a
contract in its name with the coins of the packet. The call attaches the packet's
voucher: if the middleware converted it the call fails, unless the intermediary
happens to hold as much of the voucher. `RestartForgetsCallbacks` is the export and
restart: `module.go` exports nothing and imports nothing, so the store is empty
afterwards, while the packets, which core IBC exports, stay under way and their
answers tell nobody. `GiveCoins` is a bank send, to an escrow account too, where it
is a donation. `asked`, `told` and `given` are history variables; `asked` drops the
packets whose callback a restart lost, `given` starts with what intermediaries hold
at genesis.

### EpochClock and RateLimit (`x/ratelimit`)

`EpochClock` is the epoch info the default genesis contains; `AdvanceClock(t)` is
`BeginBlocker`, which ends at most one epoch per block. `RateLimit` extends it.
`limits` is the store of limits by path, `pending` the pending sequences, `inflight`
the packets core IBC still has to answer. `SendPacket` and `RecvPacket` check and
count; `AcknowledgePacket` and `TimeoutPacket` undo through `UndoSendPacket`;
`AddRateLimit`, `UpdateRateLimit`, `RemoveRateLimit`, `ResetRateLimit` and the
expiry in `BeginBlocker` go through `LimitPath`, which replaces a native denomination
by its voucher when the registry has an info for the channel. The packet handlers do
not translate, as in the code: the middleware above has sent the voucher already.
`RemoveAllChannelPendingSendPackets` walks a prefix of the store without a
terminator, hence the constant `Extending`: the channels whose identifiers start with
a given one. The supply a limit sees (`Value`) is whatever the bank may report.
`live` and `replaced` are history variables: the packets counted since their flow was
last zeroed and not failed, and the limits whose flow governance zeroed, by an update
or by removing and adding, while packets were pending.

### TxBoundary (`x/tx-boundary/{keeper/keeper,ante/decorate}.go`)

An ante handler looks at the staking messages of a transaction one by one and writes
to a branch of the store: `StakingMsgCounted` and `StakingMsgUnlimited` move
`branch`, `AntePass` makes it the store, `AnteFail` drops it, with everything that
regenerated in it. `UpdateLimitPerAddr` is the regeneration: both counters, by the
boundary of delegations, at most five, from a block that only a regeneration moves.
The boundaries come from genesis and change only with a restart: the module has
messages to change them, and a command line for them, but `msg_server.go` is empty
and `module.go` registers no server, so no message reaches them. `windowStart`,
`settled` and the tallies are history, for counting messages over a window.

### StakingEpoch (`custom/staking/keeper`, `x/stakingmiddleware`)

`BlockValidatorUpdates` is the end of a block: if the height is a multiple of
`BlocksPerEpoch` the validator set becomes the greatest validators by stake, and in
every block unbonding stake and redelegations mature. `Undelegate` and
`BeginRedelegate` are carried out only where `UnbondAllowed`; elsewhere they do
nothing and report success. `SlashWithInfractionReason` has what the SDK's `Slash`
does: it burns some of the validator's own stake, some of what is unbonding from it,
and, at the validator where it is now, some of what was redelegated from it. Only the
first is in the amount the SDK returns, and only that amount is minted again. The two
error paths are outcomes of the mint (`MintOutcome`): if minting fails the amount is
gone, if the community pool cannot be funded it stays in `mintAccount`. That is the
account `Mint` pays rewards from; the two models do not share it. The SDK's keeper
below is external: delegations are summed up by validator, one token is one unit of
power, unbonding times are counted in blocks. Heights are kept modulo `Cycle`, a
multiple of every admissible epoch, since the code reads a height only modulo the
epoch's length.

Summing delegations up by validator leaves one thing out: whose stake it is. A
redelegation's record outlives an undelegation of the same stake from where it went;
the pinned SDK then slashes what the delegator still has there, which may be nothing.
So the record says what a slash goes by, not what it can take, and
`VotingStakeTraced` is about the records. In the model a slash of redelegated stake
takes from the destination as much as the record and the destination's stake allow,
or nothing.

### Mint (`x/mint/{abci,keeper/*,types/minter,types/params}.go`)

`BeginBlocker` computes a rate and a block's share of the year, and moves it from
the module's account to the fee collector if the account has it. A decimal is the
integer of its units in the last place, and `Mul`, `Quo` and the two truncations
round as the SDK's decimals do, `Precision` being 10^18 in the code and 10 in the
run. A share below nought panics in `sdk.NewCoin`: there is no such block, and what
the model still does from there are transactions of the block before. `AsInt64` is the
conversion of `BlocksPerYear`, a `uint64` without an upper bound, with the width
`MaxInt64`. `RestartFromGenesis` mints what the pool holds a second time, as `InitGenesis`
does with what `ExportGenesis` found; `reminted` counts it. `year` is history: the
blocks since the parameters were set, by years.

## Runs

`MC*.tla` give the constants their values. All passing runs are exhaustive.

| Run | Question | Properties | Bounds |
|---|---|---|---|
| `Registry` | Do the three keys agree, is the notice kept, does a queued removal happen? | `RegistryTypeOK`, `IndexAgreement`, `InfoKeptUntilNotice`, `QueuedRemovalHappens` | 2 native denominations, vouchers, assets and channels; 4 infos that compete for each kind of key; notice 0 or 2; 1 or 2 units of time between blocks, without end |
| `Bridge` | Are native coins backed and redeemable, supplies preserved, escrows solvent, refunds paid once? Is the whole one shared ledger? | `TypeOK`, `Backing`, `SharedSupply`, `EscrowSolvent`, `NativeRedeemable`, `RefundsReachSender`, `ImplementsSharedLedger` | 2 channels with the same asset, 2 infos that compete for it, 1 user, amount 1, 2 coins abroad and 1 native coin of genesis, 1 packet on the bridge's channel and 2 on the other; a notice that has passed with the next block |
| `Fees` | Is a fee paid back once, out of what was charged, and with the amount? | `FeeTypeOK`, `SharedSupply`, `PromisesCovered`, `TimeoutPaysBack` | 2 channels, one packet each, of the same sequence; a user and a fee address that spends; amounts 1 and 3, 3 coins abroad; the bridge's channel charges a flat fee on the native coin and a share with a priority fee on the voucher, the other channel what governance adds; notice as in `Bridge` |
| `IbcHooks` | Is every callback made once, for its packet, with the truth? Do contract calls strand coins? | `HookTypeOK`, `CallbacksOfPackets`, `ToldOnce`, `IntermediaryKeepsNothing`, `ToldTheTruth` | 2 channels, 2 and 1 packets, 2 coins abroad; a contract, which sends as a user would, and an intermediary; notice as in `Bridge` |
| `RateLimit` | Is the quota kept for any supply, does the outflow cover what is live, and do epochs keep their grid through halts and restarts? | `TypeOK`, `NetOutflowBounded`, `OutflowCoversLive`, `EpochsOnGrid` | 1 channel; a voucher and its native denomination; supplies 0 and 3 and a quota of 50 %, for two epochs with a minimum of 1 or for one with a minimum of 2; 2 packets, inflow to 1, block times to 4 with epochs of 1 |
| `TxBoundary` | Do the limits hold in every window, and does a denial end? | `TypeOK`, `WindowBounded`, `DenialIsRecent` | 1 address, 3 boundaries of different limit and pace, one without a limit; windows of 3 blocks anywhere in 8; 2 messages per transaction |
| `StakingEpoch` | Is the power in use traced, the set fresh, and every coin accounted for? Does the set catch up, and may delegators leave, again and again? | `StakingTypeOK`, `VotingStakeTraced`, `SetNotStale`, `SlashedCoinsAccounted`, `SetCatchesUp`, `LeavingAllowed` | 2 validators for 1 place, 2 coins; epochs of 2 and 3 blocks and parameters that are refused; unbonding in 2 blocks; slashes of one coin in each place at a time; both errors of the mint |
| `Mint` | Does a year pay within its bounds, and only what was funded? | `MintTypeOK`, `YearWithinMax`, `YearAboveMin`, `RewardsFunded` | decimals of one place; years of 2 and 3 blocks, parameters with a negative minimum, with 5 blocks where an int64 ends at 3, and refused ones; 3 bonded ratios; supplies 0, 3 and 11; a pool of 5 and a funder of 3; restarts that mint up to 3 |
| `RegistryRemoveTime` | Is an info removed at its `remove_time`? No | `RemovedAtRemoveTime` | as `Registry` |
| `RateLimitStaleUndo` | Is a packet of an earlier quota ignored when it fails? No | `StaleUndoIgnored` | 2 channels, one identifier a prefix of the other, 2 and 1 packets; supply 3 and quota 50 % for one epoch; block times to 3 |
| `RateLimitFreshUndo` | Is a packet of this quota undone when it fails? No | `FreshUndoApplied` | as `RateLimitStaleUndo` |
| `RateLimitExpiration` | Does every limit start from zero after it expires? No | `ResetAtExpiration` | as `RateLimitStaleUndo` |

Why the bounds are enough.

- `Registry`: two denominations are the fewest that can compete for a key. Time is
  not bounded: removals, new requests and registrations alternate for ever, and a
  block may come before, at or after a removal time.
- `Bridge`: two coins from abroad and one of genesis let a refund cross a conversion
  of another coin of the same denomination, a donation pay for a redemption, and
  both launches of a bridge occur, from nothing and for an existing coin; the second
  channel is not where the coins come from, so a packet there is the application's
  own escrow, and two of them may be answered in either order.
- `Fees`: one packet per channel is enough for two packets of one sequence to store,
  overwrite and delete each other's fee; the amount 3 leaves a rest after both fees
  of a conversion and the amount 1 is used up by each. The run starts with one fee
  table, and governance changes it from there.
- `IbcHooks`: the sequences of the two channels coincide, one channel has a second
  packet after the first was answered, and coins come converted and as vouchers.
- `RateLimit`: a supply of 3 at 50 % is a share of 1.5, rounded to one unit, so that
  the second of two packets is refused until the first has failed or the quota has
  been reset or relieved by an inflow; the other quota's minimum of 2 exceeds the
  share, and a supply of 0 switches either off. Block times to 4 hold three epochs:
  one may be missed and caught up by a later block, a limit of two epochs is carried
  over the first and expires with the second, with packets pending and packets after
  it, and a restart may come anywhere. A second channel shares nothing with the first
  but the prefix iterator, which can only leave the outflow too large; the violation
  runs have two.
- `TxBoundary`: a window is longer than one generation and shorter than two of every
  pace, 8 blocks hold a full counter, more than five missed generations at the pace
  of one block, and a window after them.
- `StakingEpoch`: unbonding takes as long as the shorter epoch and not as long as the
  longer, so that stake matures before, with and after the set's update. The
  code's `SetParams` wants at least 5 blocks; `MinBlocksPerEpoch` scales that to 2.
- `Mint`: one decimal place makes every rounding matter, and years end within the
  few blocks that the pool lasts. The least number of tokens is large enough for
  `YearAboveMin` to ask for a payment.

`MaxSeq`, `MaxTime` (of `RateLimit` alone), `MaxInflow`, `MaxTxMsgs`, `MaxHeight` and
`MaxReminted` are the bounds on counters; they occur in guards, not in the code's
handlers. `ParachainRegistry`, `Mint` and `StakingEpoch` are finite without, and their
runs check for deadlock; the other runs turn that off because these bounds end them.

Fairness. `Registry` assumes weak fairness of `NewBlock`, `StakingEpoch` of
`BlockValidatorUpdates`: consensus keeps producing blocks, each with a later time,
and calls `BeginBlocker` and `EndBlocker`. Nothing is assumed of users, relayers or
governance. A queued removal is then carried out, unless a restart from an exported
genesis dropped the queue, or governance asks for it again and again: each request
overwrites the time of the one before (`keeper.go`, line 116), so repeated requests
can put a removal off for ever, and `QueuedRemovalHappens` says so in its condition
`RequestsEnd`. The validator set agrees with the stake again and again, and delegators
are let out again and again, unless governance changes the epoch's length for ever,
which can put off its end for ever.

### What the violation runs show

- `RemovedAtRemoveTime`: `parachain_token_info.proto` calls `remove_time` "the time
  at which the parachain token info will be removed". `BeginBlocker` removes in the
  first block strictly after it, and never deletes the list entry: a denomination
  that is removed and registered again is removed by the next block, on the old
  entry, with no notice.
- `StaleUndoIgnored`: `UndoSendPacket` says a packet from before the current quota
  "can be ignored". `UpdateRateLimit` zeroes the flow and keeps the pending
  sequences, so such a packet is taken off the new outflow, below zero too.
- `FreshUndoApplied`: the same comment says a packet of this quota is decremented.
  A reset of one denomination's limit clears the pending sequences of the whole
  channel, and of channels whose identifier it prefixes.
- `ResetAtExpiration`: `ResetRateLimit` says inflow and outflow get reset to zero
  after expiration. A limit created under a native denomination that governance
  registers later is looked up under the voucher from then on and never reset.

`NetOutflowBounded` holds all the same: these defects move the recorded outflow,
and the quota is enforced against what is recorded. What they break is that the
record covers what left; `OutflowCoversLive` states how far it still does, which
is for every limit that was not replaced with packets pending.

### How far some properties go

Several properties are stated with a condition that the code does need; each marks
the edge of what can be relied on.

- `TimeoutPaysBack` holds for packets whose sequence no other channel has used, and
  for the fee stored last: of a converted transfer's two fees only one comes back.
- `IntermediaryKeepsNothing` counts a voucher and its native denomination together:
  a contract call on a converted coin succeeds when the intermediary has vouchers
  from elsewhere, which are then spent in place of the coin that came.
- `DenialIsRecent` is what makes it harmless that a denied transaction drops the
  regeneration it computed.
- `InfoKeptUntilNotice` is about the times recorded, old ones included: an info that
  is registered again may go at once by the entry of its predecessor, as
  `RegistryRemoveTime` shows.
- `VotingStakeTraced` speaks of sets no older than the unbonding time; with an epoch
  longer than that, stake that still votes can have been paid out. And it speaks of
  records, see above: that all of it can still be slashed is not so in the code.
- `SlashedCoinsAccounted` has terms for what is burned and not minted again and for
  what an error leaves in the mint module's account. `SlashWithInfractionReason`
  says "mint burned coinds into community pool" (`keeper.go`, line 145), but what
  `Slash` returns leaves out what was burned of unbonding and of redelegated stake:
  that is gone for good, and without its term the property fails.
- `MintTypeOK` lets the inflation rate be negative. `Params.Validate` lets a negative
  `MinTokenPerYear` pass, below which nothing else keeps the rate when more is bonded
  than the goal; `ValidateMinter`, which wants a rate that is not negative, is not
  asked about the one a block stores. The block panics once its share is a negative
  token.
- `YearWithinMax` and `YearAboveMin` are about parameters whose `BlocksPerYear` fits in
  an int64, the former also about a maximum that is not negative; `Params.Validate`
  demands neither. `YearAboveMin` holds for years in which the pool was never short,
  since a block the pool cannot pay is not made up for.
- `CallbacksOfPackets` leaves out the packets whose callback a restart lost.
- `RewardsFunded` counts what a restart from an exported genesis mints, because the
  pool is in the exported balances and is minted again.

## Proofs

Every invariant and every action property that a passing run checks is also a
theorem, for every value of the constants. Proofs are in modules of their own; each
is checked to the last leaf, from the named assumptions of the constants
(`RegistryAssumption`, `TransferAssumption`, `CatalogueAssumption`, `FeeAssumption`,
`HookAssumption`, `ClockAssumption`, `RateLimitAssumption`, `BoundaryAssumption`,
`StakingAssumption`, `EpochAssumption`, `MintAssumption`, `MintParamsAssumption`) and
nothing else. What the assumptions say beyond types: denominations of the two sides
and of the assets abroad are different names, accounts are finitely many, the supply
of genesis is what the accounts of genesis hold, packets carry positive amounts, the
catalogue is as said above, validators and funders are finitely many, and a cycle of
heights is a multiple of every admissible epoch.

    SumProofs
      +-- TransferMiddlewareProofs        RateLimitProofs   StakingEpochProofs
      |      +-- ChannelFeeProofs         MintProofs
      |      +-- IbcHooksProofs                             TxBoundaryProofs

- `SumProofs` has what all books need: a sum over a finite set with one element
  more or less, of two functions, of one that is larger, of a function that changes
  at one place, and of a renamed one. The sums are the library's folds, which are
  recursive functions; what they compute is proved by an induction over the subsets of
  a finite set, stated of the set of those subsets for which the claim holds: strict
  inclusion is well founded, so a set of subsets that lacks one lacks a minimal one.
  Sets and functions take the place of the operator parameter that no installed
  prover could instantiate.

- `TransferMiddlewareProofs`, the registry. `RegistryInvariant`: the type invariant
  and `IndexAgreement` are inductive together. The argument for a removal: an info is
  found under its native denomination, agreement says its asset key and its voucher
  key are its own and no other's, so deleting the three leaves the others' agreement
  alone. `InfoKept`: from that invariant, no step of `RegistryNext` changes an info
  except a block past a recorded time. `RegistryTypeCorrect` follows.

- `TransferMiddlewareProofs`, the bridge. First, what the ledger operations do to a
  balance and a supply; the handlers' proofs use these facts only. `BridgeBacked`:
  `Backing` is not inductive alone, since a send looks its info up by native
  denomination, a receipt by asset id, a refund by voucher, and only the registry's
  invariant makes the three move the same pair of coins. `BridgeInv` is therefore
  proved beside `RegistryInv`: each handler changes the escrowed voucher, the native
  supply and `donated` by amounts that cancel, for the info it uses, and not at all
  for every other info. `BridgeConserved` adds `ConservedInv`, which is what the sums
  need: the balances of a coin add up to its supply (`BooksBalance`), every voucher is
  abroad, under way or in the supply (`Conserved`), an escrow account holds what may
  still come back (`EscrowSolvent`), and packets under way are told apart by
  channel and sequence (`PacketsSound`). A conversion is several bank calls
  and a second transfer, so its effect is composed from the ledgers midway.
  `SharedSupplyHolds`, `EscrowsSolvent` and `NativeCoinsRedeemable` follow; the last
  also needs `Backing`. `RefundsPaid`: an answered packet that failed raises what its
  sender holds of voucher and native denomination together by exactly its amount,
  whichever of the two paid and whatever was registered since.
  `BridgeImplementsSharedLedger`: initial states map to initial states, and every
  step is one payment, receipt, dispatch or settlement of `SharedLedger`, or none;
  the mapping is computed for each handler from what it does to the ledger and to the
  packets, and a conversion leaves each purse as it was.

- `ChannelFeeProofs`. `FeeInv` is the bridge's invariants with `FeeTypeOK`, the
  sequences below their bound, `PromisesCovered` and `OwnFeesKept`: what is kept under
  a sequence was promised, and while no other channel has used the sequence it is the
  packet's own. Each charge is a payment between two users before or between the
  bridge's ledgers, and a payment between users keeps backing, books and escrows; so
  the bridge's lemmas, which are stated for ledgers and not for the state, carry over
  to the second charge inside a conversion. `PromisesAlwaysCovered`, `TimeoutsPayBack`
  (the sender has amount and fee again), `FeesKeepSupply` and `FeesKeepBacking` follow.

- `IbcHooksProofs`. `CallbacksAreOfPackets` and `ContractsToldOnce` rest on
  sequences: what is under way, was asked for or told is below the next sequence of
  its channel, so that a new packet's callback meets none that is kept, and a packet
  that was told of cannot be under way again (`HookInv`). `ContractsToldTheTruth`: the
  packet a contract is told of was the one under way by that channel and sequence,
  and what it is told agrees with what the same step did to the sender's coins.
  `HooksTypeCorrect`, `HooksBacked`, `HooksKeepSupply` and `HooksKeepRedeemable` reuse
  the bridge's lemmas; what is new there is the receipt that calls a contract, which
  is no step of the bridge: the received ledger is sound, and what goes on from an
  intermediary to a contract is a payment between users. `NothingStranded`:
  `IntermediaryKeepsNothing` is inductive once no packet under way has an intermediary
  for its sender, whom a refund would pay.

- `RateLimitProofs`. `EpochsAlwaysOnGrid` from the clock's own invariant;
  `RateLimitTypeCorrect`; `NetOutflowAlwaysBounded`, where the steps that matter are
  those that lower the inflow or change the quota: there are none but the ones that
  zero the whole flow, and undoing a packet only lowers the outflow.
  `OutflowAlwaysCovers`: a failed packet is taken off an outflow only if it is pending,
  and then it has to be live there, or the outflow would fall below what is. So the
  invariant (`CoverInv`) adds that a packet that is pending, on a path whose limit was
  not replaced, is live, and that what is pending, live or under way has a sequence its
  channel has used, which keeps a new packet from being taken for an old one. A reset
  forgets more than it zeroes, which keeps this implication: it fails the other way, and
  that is what `RateLimitFreshUndo` shows.

- `TxBoundaryProofs`. `WindowsBounded`, `DenialsRecent` and `TxBoundaryTypeCorrect`
  from one invariant on every record of store and branch: a counter is at most its
  limit, and the messages of the window exceed the counter by at most one for each
  generation that the record has moved on since the window opened. The unsigned
  subtraction is safe because it is guarded, and the cap of five regenerated at a
  time only makes the counters larger.

- `StakingEpochProofs`. `SetNeverStale`: a block keeps the age of the set at most the
  progress in the epoch, the block that ends an epoch counting as its last, also
  where the model's heights start again. `StakingTypeCorrect`. `CoinsAlwaysAccounted`:
  liquid, bonded and unbonding coins, the pool, the mint account and what was burned
  make a constant;
  the sums run over validators and over the blocks left, and a block that matures
  stake moves every schedule by one, which drops what is due and renames the rest.
  `VotingStakeAlwaysTraced`: by induction on the set's age, what has left a validator
  since the set was made is still on the records of unbonding or redelegation, with more
  blocks left than the age takes away; what a slash takes is counted for the validator
  it was taken from.

- `MintProofs`. `MintTypeCorrect`. `NeverAboveMax` and `NeverBelowMin`: the rate a
  block computes is one of the two bounds over the supply or lies between them; times
  the supply it is within one unit in the last place for each coin of the tokens, and
  the block's truncated share is within one token of the year's part. A year's bound
  is the sum of these, block by block, with the largest supply it met. A negative
  minimum makes a rate that is not positive, and a share that is a coin is then nought.
  None of it depends on the precision. `RewardsAlwaysFunded`: what a block pays leaves the pool.

Only model-checked: `QueuedRemovalHappens`, `SetCatchesUp` and `LeavingAllowed`, which
are liveness under fairness and out of the prover's reach, and the four properties that
the violation runs refute.

## Not modelled, and why

- Rate limits inside the stack. `RateLimit` is checked by itself: it refuses a
  packet, which the transaction then undoes, or counts it, and moves no coin. The
  environment of `TransferMiddleware` may leave out any packet.
- Packet forwarding: a dependency that the model's environment covers, since it sends
  and receives like any user.
- The bank's `TotalSupply` query (`custom/bank/keeper/keeper.go`): the supply less
  what the escrow accounts of registered infos hold. It writes nothing and nothing in
  the program reads it. It subtracts from a single page of the supply, and fails when
  a registered denomination is on another page; the model has no pages.
- The IBC permission decorator (`app/ante`): a filter on the relayer allow list,
  which `ParachainRegistry` keeps.
- The minimum timeout of a channel's fee terms: it only refuses messages.
- The rate limiter's whitelist changes, and its blacklist: no message writes them.
- The block heights of epochs: recorded for a query only.
- Contracts' state: what a failing callback may have written before a timeout
  swallows its failure is between the hooks and the contract engine.
- Memo, timeouts' values, addresses and other data no property tells apart.
- Upgrades and the bech32 migration: each runs once, at a height the binary fixes,
  over every store.
- Start-up, export and wiring in `app`, the daemon, the command line, the test
  chains of `app/ibctesting`, simulation, and the code generated from the protocol
  files, which is most of the repository's lines.

## What is left

1. The rate limits under the middleware, so that a refused inner transfer of a
   conversion is a step of its own, and `OutflowCoversLive` beside the bridge's books.
2. Fees and hooks in one composition: a transfer with a callback that is charged, and
   whose timeout pays the fee back before it calls the contract.
3. That `ChannelFee` and `IbcHooks` implement `SharedLedger` too, with payments
   between users as the abstract steps that a charge or a contract call adds.
