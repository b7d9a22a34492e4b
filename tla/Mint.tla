-------------------------------- MODULE Mint --------------------------------
(***************************************************************************)
(* The rewards of x/mint.  Every block computes an inflation rate and from *)
(* it the block's share of a year's tokens; it mints nothing, but pays the *)
(* share out of the module's account, the pool, into the fee collector, if *)
(* the pool has that much.  The pool is filled at genesis and by accounts  *)
(* that governance allows to.  What happens between two blocks are the     *)
(* transactions of one.                                                    *)
(*                                                                         *)
(* A decimal (sdk.Dec) is the integer of its units in the last place, of   *)
(* which Precision make one; 10^18 in the code.  Amounts are of the mint   *)
(* denomination.  The bonded ratio and the supply of the staking token are *)
(* the staking module's.                                                   *)
(***************************************************************************)
EXTENDS Integers, FiniteSetsExt

CONSTANTS
  Precision,
  MintParams,       \* the parameters governance may choose
  BondedRatio,      \* the ratios there may be, as decimals
  StakingSupply,    \* the supplies there may be
  Funder,           \* accounts that may fund the pool
  Wallet0,          \* [Funder -> Nat]: their coins at genesis
  Fund,             \* the amounts they fund it with
  IncentivesSupply, \* what genesis mints into the pool
  Inflation0,       \* the inflation rate of genesis
  MaxReminted,      \* bound on what restarts mint
  MaxInt64          \* greatest signed number: 2^63 - 1 in the code

(* Params.Validate: what SetParams lets pass.  It has no lower bound for    *)
(* the tokens of a year, and BlocksPerYear is a uint64.                     *)
ValidMintParams(p) ==
  /\ p.InflationRateChange \in 0..Precision
  /\ p.GoalBonded \in 1..Precision
  /\ p.BlocksPerYear > 0
  /\ p.MaxTokenPerYear >= p.MinTokenPerYear

ASSUME MintAssumption ==
  /\ Precision \in Nat \ {0}
  /\ BondedRatio \subseteq 0..Precision
  /\ StakingSupply \subseteq Nat
  /\ IsFiniteSet(Funder)
  /\ Wallet0 \in [Funder -> Nat]
  /\ Fund \subseteq Nat
  /\ IncentivesSupply \in Nat
  /\ Inflation0 \in Int
  /\ MaxInt64 \in Nat

ASSUME MintParamsAssumption ==
  \A p \in MintParams :
    /\ p.InflationRateChange \in Int
    /\ p.GoalBonded \in Int
    /\ p.BlocksPerYear \in 0..(2 * MaxInt64 + 1)
    /\ p.MaxTokenPerYear \in Int
    /\ p.MinTokenPerYear \in Int

VARIABLES
  params,
  inflation,   \* the minter's, a decimal
  supply,      \* of the staking token
  pool,        \* balance of the module's account
  collected,   \* what the fee collector was paid
  wallet,      \* [Funder -> Nat]
  allowed,     \* the accounts that may fund the pool
  year,        \* history: the blocks since the parameters were set, by years
  reminted     \* history: what restarts minted

mintVars == <<params, inflation, supply, pool, collected, wallet, allowed, year, reminted>>

(* A year that has just begun.  paid: what its blocks paid; top: the        *)
(* greatest supply they saw; full: the supply was never 0, and the pool     *)
(* never short of a block's share.                                          *)
NewYear == [blocks |-> 0, paid |-> 0, top |-> 0, full |-> TRUE]

Init ==
  /\ params \in {p \in MintParams : ValidMintParams(p)}
  /\ inflation = Inflation0
  /\ supply \in StakingSupply
  /\ pool = IncentivesSupply
  /\ collected = 0
  /\ wallet = Wallet0
  /\ allowed = {}
  /\ year = NewYear
  /\ reminted = 0
-----------------------------------------------------------------------------
(* Quotients of integers, d # 0: rounded towards zero as in Go; and by      *)
(* Precision to the nearest, a tie to the even neighbour                    *)
(* (chopPrecisionAndRound).                                                 *)
Size(n) == IF n >= 0 THEN n ELSE -n

Truncated(n, d) ==
  IF n >= 0 <=> d > 0 THEN Size(n) \div Size(d) ELSE -(Size(n) \div Size(d))

ChoppedNat(n) ==
  LET q == n \div Precision
      twice == 2 * (n % Precision)
  IN  IF twice < Precision \/ (twice = Precision /\ q % 2 = 0) THEN q ELSE q + 1

Chopped(n) == IF n >= 0 THEN ChoppedNat(n) ELSE -ChoppedNat(-n)

(* Dec.Mul, and Dec.Quo by a decimal or integer other than zero.            *)
Mul(a, b) == Chopped(a * b)
Quo(a, b) == Chopped(Truncated(a * Precision * Precision, b))
DecFromInt(n) == n * Precision

(* int64 of a uint64: the upper half wraps around to the negative numbers.  *)
AsInt64(n) == IF n > MaxInt64 THEN n - 2 * (MaxInt64 + 1) ELSE n

(* Mutations of Clipped: by one of the bounds only.                         *)
ClippedBelow(i, lo, hi) == Max({i, lo})
ClippedAbove(i, lo, hi) == Min({i, hi})

Clipped(i, lo, hi) == Max({Min({i, hi}), lo})

(* The rate moves towards more inflation the less of the supply is bonded,  *)
(* within the bounds that the tokens per year set.                          *)
NextInflationRate(bondedRatio) ==
  LET perYear == Mul(DecFromInt(1) - Quo(bondedRatio, params.GoalBonded),
                     params.InflationRateChange)
      change == Quo(perYear, DecFromInt(AsInt64(params.BlocksPerYear)))
      rateOf(tokens) == Quo(DecFromInt(tokens), DecFromInt(supply))
  IN  IF supply = 0
        THEN inflation
        ELSE Clipped(inflation + change,
                     rateOf(params.MinTokenPerYear), rateOf(params.MaxTokenPerYear))

NextAnnualProvisions(rate) == rate * supply

BlockProvision(annual) ==
  Truncated(Truncated(annual, AsInt64(params.BlocksPerYear)), Precision)

(* A mutation of CanPay: the account is not checked.                        *)
CanAlwaysPay(x) == TRUE

CanPay(x) == pool >= x

(* A mutation of AddCollectedFees: the coins are minted.                    *)
MintCollectedFees(x) == collected' = collected + x /\ UNCHANGED pool

AddCollectedFees(x) == collected' = collected + x /\ pool' = pool - x

InYear(x, pays) ==
  LET y == IF year.blocks = params.BlocksPerYear THEN NewYear ELSE year
  IN  [blocks |-> y.blocks + 1,
       paid   |-> y.paid + (IF pays THEN x ELSE 0),
       top    |-> Max({y.top, supply}),
       full   |-> y.full /\ pays /\ supply > 0]

(* A share below nought is no coin: sdk.NewCoin panics, and there is no     *)
(* such block.                                                              *)
BeginBlocker(bondedRatio) ==
  LET rate == NextInflationRate(bondedRatio)
      x == BlockProvision(NextAnnualProvisions(rate))
  IN  /\ x >= 0
      /\ inflation' = rate
      /\ IF CanPay(x) THEN AddCollectedFees(x) ELSE UNCHANGED <<collected, pool>>
      /\ year' = InYear(x, CanPay(x))
      /\ UNCHANGED <<params, supply, wallet, allowed, reminted>>
-----------------------------------------------------------------------------
FundModuleAccount(f, x) ==
  /\ f \in allowed
  /\ wallet[f] >= x
  /\ wallet' = [wallet EXCEPT ![f] = @ - x]
  /\ pool' = pool + x
  /\ UNCHANGED <<params, inflation, supply, collected, allowed, year, reminted>>

AddAccountToFundModuleSet(f) ==
  /\ allowed' = allowed \cup {f}
  /\ UNCHANGED <<params, inflation, supply, pool, collected, wallet, year, reminted>>

UpdateParams(p) ==
  /\ ValidMintParams(p)
  /\ params' = p
  /\ year' = NewYear
  /\ UNCHANGED <<inflation, supply, pool, collected, wallet, allowed, reminted>>

(* The chain is exported and started again from the file.  The bank's part  *)
(* of it has the pool already, and InitGenesis mints it a second time:      *)
(* ExportGenesis gives what is left in the pool as IncentivesSupply.  The   *)
(* accounts that may fund the pool are not exported.                        *)
RestartFromGenesis ==
  /\ reminted + pool <= MaxReminted
  /\ pool' = pool + pool
  /\ supply' = supply + pool
  /\ reminted' = reminted + pool
  /\ allowed' = {}
  /\ UNCHANGED <<params, inflation, collected, wallet, year>>

(* The environment: burning and minting elsewhere.                          *)
ChangeSupply ==
  /\ supply' \in StakingSupply
  /\ UNCHANGED <<params, inflation, pool, collected, wallet, allowed, year, reminted>>

Next ==
  \/ \E r \in BondedRatio : BeginBlocker(r)
  \/ \E f \in Funder : AddAccountToFundModuleSet(f) \/ \E x \in Fund : FundModuleAccount(f, x)
  \/ \E p \in MintParams : UpdateParams(p)
  \/ RestartFromGenesis
  \/ ChangeSupply

Spec == Init /\ [][Next]_mintVars
-----------------------------------------------------------------------------
MintTypeOK ==
  /\ params \in MintParams
  /\ ValidMintParams(params)
  /\ inflation \in Int
  /\ supply \in Nat
  /\ pool \in Nat
  /\ collected \in Nat
  /\ wallet \in [Funder -> Nat]
  /\ allowed \subseteq Funder
  /\ year \in [blocks: Nat, paid: Nat, top: Nat, full: BOOLEAN]
  /\ reminted \in Nat

(* The blocks of a year pay no more than MaxTokenPerYear, but for the last  *)
(* place of the inflation rate, which the greatest supply of the year       *)
(* multiplies, however the bonded ratio and the supply move and whenever    *)
(* the parameters change (minter.go; mint.proto, max_token_per_year): of    *)
(* parameters whose blocks fit in an int64 and whose maximum is natural.    *)
YearWithinMax ==
  params.BlocksPerYear <= MaxInt64 /\ params.MaxTokenPerYear >= 0 =>
    year.paid * params.BlocksPerYear * Precision
      <= year.blocks * (params.MaxTokenPerYear * Precision + year.top)

(* And no less than MinTokenPerYear, but for that and for the fraction of a *)
(* token each block leaves out, if the pool had enough (minter.go): of      *)
(* parameters whose blocks fit in an int64.                                 *)
YearAboveMin ==
  params.BlocksPerYear <= MaxInt64 /\ year.full =>
    year.paid * params.BlocksPerYear * Precision
      >= year.blocks * (params.MinTokenPerYear * Precision - year.top
                          - params.BlocksPerYear * Precision)

(* Rewards come out of what was put in the pool, and nothing else does      *)
(* (abci.go, msg_server.go); a restart from an exported genesis is the one  *)
(* step that makes coins (genesis.go).                                      *)
RewardsFunded ==
  pool + collected + SumFunctionOnSet(wallet, Funder)
    = IncentivesSupply + reminted + SumFunctionOnSet(Wallet0, Funder)
=============================================================================
