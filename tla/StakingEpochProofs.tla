-------------------------- MODULE StakingEpochProofs --------------------------
(***************************************************************************)
(* Proofs about epoch staking, for every number of validators and every    *)
(* length of the epoch and of the unbonding time.                          *)
(*                                                                         *)
(* The validator set is never older than an epoch, whatever governance     *)
(* changes the epoch to, as long as it was not changed since the set was   *)
(* made.  That the set's age is at most an epoch says nothing of the next  *)
(* block; what a block keeps is that the age is at most the progress in    *)
(* the epoch, where the block that ends it counts as the last of it.       *)
(*                                                                         *)
(* Every coin is accounted for, and so is the stake a validator votes with *)
(* while the set is no older than the unbonding time.  These two are       *)
(* inductive with the types; they rest on what a message, a slash and the  *)
(* end of a block do to sums over validators and over the blocks a stake   *)
(* has left.                                                               *)
(***************************************************************************)
EXTENDS StakingEpoch, SumProofs

(* How many blocks of an epoch of b blocks the block at h is.               *)
Progress(h, b) == IF h % b = 0 THEN b ELSE h % b

EpochInv ==
  /\ height \in 0..(Cycle - 1)
  /\ epoch \in EpochParams /\ ValidParams(epoch)
  /\ age \in Nat
  /\ paramsChanged \in BOOLEAN
  /\ ~paramsChanged => age <= Progress(height, epoch.blocks)

(* An admissible epoch is at least one block, and a whole number of epochs  *)
(* is a cycle.                                                              *)
LEMMA EpochLength ==
  ASSUME NEW p \in EpochParams, ValidParams(p)
  PROVE  p.blocks \in Nat \ {0} /\ Cycle % p.blocks = 0
BY EpochAssumption, StakingAssumption DEF ValidParams

(* A remainder is what is left over a multiple.                             *)
LEMMA RemainderUnique ==
  ASSUME NEW b \in Nat \ {0}, NEW q \in Nat, NEW r \in 0..(b - 1)
  PROVE  (b * q + r) % b = r
<1> DEFINE x == b * q + r
           s == x % b
           p == x \div b
<1>1. x \in Nat
  BY SMT
<1>2. s \in 0..(b - 1) /\ p \in Nat /\ x = b * p + s
  BY <1>1, SMT
<1>3. b * q + r = b * p + s
  BY <1>2
<1> HIDE DEF x, s, p
<1>4. ASSUME q > p PROVE FALSE
  <2>1. b * q >= b * (p + 1)
    BY <1>2, <1>4, SMT
  <2> QED BY <1>2, <1>3, <2>1, SMT
<1>5. ASSUME p > q PROVE FALSE
  <2>1. b * p >= b * (q + 1)
    BY <1>2, <1>5, SMT
  <2> QED BY <1>2, <1>3, <2>1, SMT
<1>6. p = q
  BY <1>2, <1>4, <1>5
<1>7. s = r
  BY <1>2, <1>3, <1>6, SMT
<1> QED BY <1>7 DEF s, x

(* The remainder of the number after h.                                     *)
LEMMA NextRemainder ==
  ASSUME NEW h \in Nat, NEW b \in Nat \ {0}
  PROVE  /\ h % b \in 0..(b - 1)
         /\ (h + 1) % b = IF h % b = b - 1 THEN 0 ELSE (h % b) + 1
<1> DEFINE r == h % b
           q == h \div b
<1>1. r \in 0..(b - 1) /\ q \in Nat /\ h = b * q + r
  BY SMT
<1> HIDE DEF r, q
<1>2. CASE r = b - 1
  <2>1. h + 1 = b * (q + 1) + 0
    BY <1>1, <1>2, SMT
  <2>2. (b * (q + 1) + 0) % b = 0
    BY <1>1, RemainderUnique
  <2> QED BY <1>1, <1>2, <2>1, <2>2 DEF r
<1>3. CASE r # b - 1
  <2>1. h + 1 = b * q + (r + 1) /\ r + 1 \in 0..(b - 1)
    BY <1>1, <1>3, SMT
  <2>2. (b * q + (r + 1)) % b = r + 1
    BY <1>1, <2>1, RemainderUnique
  <2> QED BY <1>1, <1>3, <2>1, <2>2 DEF r
<1> QED BY <1>2, <1>3

(* The least of two numbers.                                                *)
LEMMA MinOfPair ==
  ASSUME NEW a \in Int, NEW b \in Int
  PROVE  Min({a, b}) = IF a <= b THEN a ELSE b
BY DEF Min

(* A block that does not end the epoch is followed by one further on in it, *)
(* and one that ends it by the first, also where heights start again.       *)
LEMMA NextProgress ==
  ASSUME NEW h \in 0..(Cycle - 1), NEW b \in Nat \ {0}, Cycle % b = 0
  PROVE  /\ (h + 1) % Cycle \in 0..(Cycle - 1)
         /\ h % b = 0 => Progress((h + 1) % Cycle, b) = 1
         /\ h % b # 0 => Progress((h + 1) % Cycle, b) = Progress(h, b) + 1
<1>1. Cycle \in Nat \ {0}
  BY StakingAssumption
<1>2. (h + 1) % Cycle = IF h = Cycle - 1 THEN 0 ELSE h + 1
  BY <1>1
<1>3. ((h + 1) % Cycle) % b = (h + 1) % b
  <2>1. 0 % b = 0
    BY SMT
  <2> QED BY <1>1, <1>2, <2>1
<1>4. /\ h % b \in 0..(b - 1)
      /\ (h + 1) % b = IF h % b = b - 1 THEN 0 ELSE (h % b) + 1
  <2>1. h \in Nat
    BY <1>1
  <2> QED BY <2>1, NextRemainder
<1>5. (h + 1) % Cycle \in 0..(Cycle - 1)
  BY <1>1, <1>2
<1> DEFINE n == (h + 1) % Cycle
           r == h % b
<1>6. n % b = IF r = b - 1 THEN 0 ELSE r + 1
  BY <1>3, <1>4
<1>7. r \in 0..(b - 1)
  BY <1>4
<1> HIDE DEF n, r
<1>8. /\ r = 0 => Progress(n, b) = 1
      /\ r # 0 => Progress(n, b) = r + 1
  BY <1>6, <1>7 DEF Progress
<1> QED BY <1>5, <1>8 DEF Progress, n, r

(* The age of the set is within the epoch at genesis.                       *)
LEMMA EpochInitInv == Init => EpochInv
<1> SUFFICES ASSUME Init PROVE EpochInv
  OBVIOUS
<1>1. /\ epoch \in EpochParams /\ ValidParams(epoch)
      /\ height = 1 /\ age = 1 /\ paramsChanged = FALSE
  BY DEF Init
<1> DEFINE b == epoch.blocks
<1>2. b \in Nat \ {0}
  BY <1>1, EpochLength
<1>3. 0 % b = 0
  BY <1>2, SMT
<1> HIDE DEF b
<1>4. (0 + 1) % b = IF 0 % b = b - 1 THEN 0 ELSE (0 % b) + 1
  BY <1>2, NextRemainder
<1>5. 1 % b = IF b = 1 THEN 0 ELSE 1
  BY <1>2, <1>3, <1>4
<1>6. age <= Progress(height, b)
  BY <1>1, <1>2, <1>5 DEF Progress
<1>7. height \in 0..(Cycle - 1) /\ age \in Nat
  BY <1>1, StakingAssumption
<1>8. paramsChanged \in BOOLEAN
  BY <1>1, Zenon
<1> QED BY <1>1, <1>6, <1>7, <1>8 DEF EpochInv, b

(* The end of a block: either the set is made anew, or it ages by a block   *)
(* and the epoch moves on by one.                                           *)
LEMMA BlockKeepsInv ==
  ASSUME EpochInv, BlockValidatorUpdates
  PROVE  EpochInv'
<1> DEFINE b == epoch.blocks
<1>1. b \in Nat \ {0} /\ Cycle % b = 0
  BY EpochLength DEF EpochInv
<1>2. height' = (height + 1) % Cycle /\ epoch' = epoch
  BY DEF BlockValidatorUpdates
<1>3. /\ height' \in 0..(Cycle - 1)
      /\ height % b = 0 => Progress(height', b) = 1
      /\ height % b # 0 => Progress(height', b) = Progress(height, b) + 1
  BY <1>1, <1>2, NextProgress DEF EpochInv
<1>4. CASE height % b = 0
  <2>1. age' = 1 /\ paramsChanged' = FALSE
    BY <1>4 DEF BlockValidatorUpdates, ShouldExecuteBatch, ApplyValidatorSet
  <2>2. age' <= Progress(height', b)
    BY <1>3, <1>4, <2>1
  <2> QED BY <1>2, <1>3, <2>1, <2>2 DEF EpochInv, ValidParams
<1>5. CASE height % b # 0
  <2>1. age' = Min({age + 1, UnbondingBlocks + 1}) /\ paramsChanged' = paramsChanged
    BY <1>5 DEF BlockValidatorUpdates, ShouldExecuteBatch, KeepValidatorSet
  <2>2. age' \in Nat /\ age' <= age + 1
    BY <2>1, MinOfPair, StakingAssumption DEF EpochInv
  <2>3. height % b \in 0..(b - 1)
    <3>1. height \in Nat
      BY StakingAssumption DEF EpochInv
    <3> QED BY <1>1, <3>1, NextRemainder
  <2>4. Progress(height, b) \in Nat
    BY <1>1, <2>3 DEF Progress
  <2>5. ~paramsChanged' => age' <= Progress(height', b)
    BY <1>3, <1>5, <2>1, <2>2, <2>4 DEF EpochInv
  <2> QED BY <1>2, <1>3, <2>1, <2>2, <2>5 DEF EpochInv, ValidParams
<1> QED BY <1>4, <1>5

(* Every step keeps the age of the set within the epoch.                    *)
LEMMA EpochStepInv == EpochInv /\ [Next]_vars => EpochInv'
<1> SUFFICES ASSUME EpochInv, [Next]_vars
             PROVE  EpochInv'
  OBVIOUS
<1>1. CASE UNCHANGED <<height, epoch, age, paramsChanged>>
  BY <1>1 DEF EpochInv, ValidParams, Progress
<1>2. CASE UpdateEpochParams
  <2>1. /\ epoch' \in EpochParams /\ ValidParams(epoch')
        /\ paramsChanged' = (paramsChanged \/ epoch' # epoch)
        /\ UNCHANGED <<height, age>>
    BY <1>2 DEF UpdateEpochParams
  <2>2. (epoch' = epoch /\ paramsChanged' = paramsChanged) \/ paramsChanged' = TRUE
    BY <2>1 DEF EpochInv
  <2> QED BY <2>1, <2>2 DEF EpochInv, ValidParams, Progress
<1>3. CASE StakingTx
  BY <1>1, <1>3 DEF StakingTx, history
<1>4. CASE Slash
  BY <1>1, <1>4 DEF Slash, SlashWithInfractionReason
<1>5. CASE JailOrUnjail
  BY <1>1, <1>5 DEF JailOrUnjail, history
<1>6. CASE BlockValidatorUpdates
  BY <1>6, BlockKeepsInv
<1>7. CASE UNCHANGED vars
  BY <1>1, <1>7 DEF vars, history
<1> QED BY <1>2, <1>3, <1>4, <1>5, <1>6, <1>7 DEF Next

(* The set in use was made no longer ago than one epoch, unless the epoch's *)
(* length was changed meanwhile (SetNotStale).                              *)
THEOREM SetNeverStale == Spec => []SetNotStale
<1>1. ASSUME EpochInv PROVE SetNotStale
  <2> DEFINE b == epoch.blocks
  <2>1. b \in Nat \ {0}
    BY <1>1, EpochLength DEF EpochInv
  <2>2. height % b \in 0..(b - 1)
    BY <1>1, <2>1, StakingAssumption, NextRemainder DEF EpochInv
  <2>3. Progress(height, b) \in Nat /\ Progress(height, b) <= b
    BY <2>1, <2>2 DEF Progress
  <2> QED BY <1>1, <2>1, <2>3 DEF EpochInv, SetNotStale
<1> QED BY <1>1, EpochInitInv, EpochStepInv, PTL DEF Spec
-----------------------------------------------------------------------------
(* Stake on its way out, by the blocks it has left.                         *)
Schedule == [Left -> Nat]

(* Sums are over finite sets: the validators and the blocks left.           *)
LEMMA LeftFinite ==
  /\ IsFiniteSet(Left) /\ IsFiniteSet(Validator)
  /\ Term \in Nat /\ Term > 1 /\ Term \in Left /\ 1 \in Left
<1>1. UnbondingBlocks \in Nat \ {0} /\ IsFiniteSet(Validator)
  BY StakingAssumption
<1>2. Term \in Nat /\ Term > 1
  BY <1>1 DEF Term
<1>3. IsFiniteSet(Left)
  BY <1>2, FS_Interval DEF Left
<1> QED BY <1>1, <1>2, <1>3 DEF Left

(* A sum of natural numbers is one.                                         *)
LEMMA TotalNat ==
  ASSUME NEW I, IsFiniteSet(I), NEW f, \A i \in I : f[i] \in Nat
  PROVE  Total(f, I) \in Nat
BY SumNat DEF Total

(* Stake that moves in one place changes the total by as much, if the place *)
(* is counted.                                                              *)
DifferAt(f, g, j, S) ==
  \A i \in S : f[i] \in Nat /\ g[i] \in Nat /\ (i # j => g[i] = f[i])

(* A sum over a function that changes at one place only.                    *)
LEMMA TotalMoves ==
  ASSUME NEW S, IsFiniteSet(S), NEW f, NEW g, NEW j, DifferAt(f, g, j, S)
  PROVE  /\ Total(f, S) \in Nat /\ Total(g, S) \in Nat
         /\ Total(g, S) = IF j \in S THEN Total(f, S) - f[j] + g[j] ELSE Total(f, S)
<1>1. Total(f, S) \in Nat /\ Total(g, S) \in Nat
  BY TotalNat DEF DifferAt
<1>2. j \in S => Total(g, S) = Total(f, S) - f[j] + g[j]
  <2>1. \A i \in S : f[i] \in Int /\ g[i] \in Int /\ (i # j => g[i] = f[i])
    BY DEF DifferAt
  <2> QED BY <2>1, SumChange DEF Total
<1>3. j \notin S => Total(g, S) = Total(f, S)
  <2>1. ASSUME j \notin S PROVE \A i \in S : f[i] \in Int /\ g[i] = f[i]
    BY <2>1 DEF DifferAt
  <2> QED BY <2>1, SumCongruence DEF Total
<1> QED BY <1>1, <1>2, <1>3

(* At the end of a block, what had more than n + 1 blocks left has more     *)
(* than n.                                                                  *)
LEMMA ShiftedTotal ==
  ASSUME NEW f \in Schedule, NEW n \in 0..(Term - 1)
  PROVE  /\ Shifted(f) \in Schedule
         /\ Total(Shifted(f), {k \in Left : k > n}) = Total(f, {k \in Left : k > n + 1})
<1> DEFINE A == {k \in Left : k > n /\ k # Term}
           B == {k \in Left : k > n + 1}
           h == [k \in A |-> k + 1]
<1>0. Term \in Nat /\ Term > 1 /\ n \in Nat /\ n < Term
  BY LeftFinite
<1>1. A \in SUBSET Left /\ B \in SUBSET Left
  OBVIOUS
<1>2. h \in [A -> Left] /\ (\A x, y \in A : h[x] = h[y] => x = y)
  BY <1>0 DEF Left
<1>3. {h[x] : x \in A} = B
  <2>1. ASSUME NEW k \in B PROVE k \in {h[x] : x \in A}
    <3>1. k - 1 \in A /\ h[k - 1] = k
      BY <1>0, <2>1 DEF Left
    <3> QED BY <3>1
  <2>2. ASSUME NEW x \in A PROVE h[x] \in B
    BY <1>0, <2>2 DEF Left
  <2> QED BY <2>1, <2>2
<1>4. \A k \in A : f[h[k]] \in Int /\ Shifted(f)[k] = f[h[k]]
  BY <1>0, <1>2 DEF Shifted, Schedule, Left
<1>5. Shifted(f) \in Schedule
  BY <1>0 DEF Shifted, Schedule, Left
<1>6. Shifted(f)[Term] = 0
  BY LeftFinite DEF Shifted
<1>7. {k \in Left : k > n} = A \cup {Term}
  BY <1>0, LeftFinite
<1>8. IsFiniteSet(A) /\ IsFiniteSet(B) /\ IsFiniteSet({Term})
  BY <1>1, LeftFinite, FS_Subset, FS_Singleton
<1>9. \A k \in A : Shifted(f)[k] \in Int
  BY <1>4
<1> HIDE DEF A, B, h
<1>10. SumFunctionOnSet(Shifted(f), A) = SumFunctionOnSet(f, B)
  <2>1. SumFunctionOnSet(Shifted(f), A) = SumFunctionOnSet(f, {h[x] : x \in A})
    BY <1>2, <1>4, <1>8, LeftFinite, SumRenamed
  <2> QED BY <1>3, <2>1
<1>11. SumFunctionOnSet(Shifted(f), A \cup {Term}) = SumFunctionOnSet(Shifted(f), A)
  BY <1>6, <1>8, <1>9, SumZeroPart
<1> QED BY <1>5, <1>7, <1>10, <1>11 DEF B, Total

-----------------------------------------------------------------------------
(* The genesis state has its types.                                         *)
LEMMA StakingTypeInit == Init => StakingTypeOK
<1> SUFFICES ASSUME Init PROVE StakingTypeOK
  OBVIOUS
<1>1. UnbondingBlocks \in Nat /\ Cycle \in Nat /\ Cycle > 1 /\ Coins \in Nat
  BY StakingAssumption
<1>2. height \in 0..(Cycle - 1) /\ age \in 1..(UnbondingBlocks + 1)
  BY <1>1 DEF Init
<1>3. Nothing \in Schedule
  BY DEF Nothing, Schedule
<1>4. unbonding \in [Validator -> Schedule] /\ moved \in [Validator -> [Validator -> Schedule]]
  BY <1>3 DEF Init
<1>5. tokens \in [Validator -> Nat] /\ leaving \in [Validator -> 0..UnbondingBlocks]
  BY <1>1 DEF Init
<1>6. paramsChanged \in BOOLEAN
  BY Zenon DEF Init
<1> QED BY <1>1, <1>2, <1>4, <1>5, <1>6 DEF Init, StakingTypeOK, Schedule

(* The types of the staking state, one by one.                              *)
LEMMA StakeTypes ==
  ASSUME StakingTypeOK
  PROVE  /\ liquid \in Nat /\ communityPool \in Nat /\ mintAccount \in Nat /\ burned \in Nat
         /\ tokens \in [Validator -> Nat] /\ power \in [Validator -> Nat]
         /\ slashed \in [Validator -> Nat]
         /\ leaving \in [Validator -> 0..UnbondingBlocks]
         /\ unbonding \in [Validator -> Schedule]
         /\ moved \in [Validator -> [Validator -> Schedule]]
         /\ age \in 1..(UnbondingBlocks + 1)
BY DEF StakingTypeOK, Schedule

(* What can still be slashed has a block left.                              *)
LEMMA TermWithinLeft ==
  ASSUME StakingTypeOK, NEW v \in Validator, ~Unbonded(v)
  PROVE  TermOf(v) \in Left
<1>1. power[v] \in Nat /\ leaving[v] \in 0..UnbondingBlocks /\ UnbondingBlocks \in Nat
  BY StakeTypes, StakingAssumption
<1>2. Bonded(v) \/ leaving[v] # 0
  BY <1>1 DEF Unbonded, Bonded
<1> QED BY <1>1, <1>2, LeftFinite DEF TermOf, Left, Term

StakeType ==
  /\ liquid \in Nat
  /\ tokens \in [Validator -> Nat]
  /\ unbonding \in [Validator -> Schedule]
  /\ moved \in [Validator -> [Validator -> Schedule]]

(* One of the messages moves a coin of stake.                               *)
StakeMoves(v, w, k, x) ==
  \/ Delegate(v, x) \/ Undelegate(v, x)
  \/ BeginRedelegate(v, w, x) \/ CancelUnbondingDelegation(v, k, x)

(* Stake that leaves a validator, or moves to another, keeps the types.     *)
LEMMA StakeMovesType ==
  ASSUME StakingTypeOK, NEW v \in Validator, NEW w \in Validator, NEW k \in Left,
         NEW x \in Nat, StakeMoves(v, w, k, x)
  PROVE  StakeType'
<1> USE StakeTypes, LeftFinite
<1>1. CASE Delegate(v, x)
  BY <1>1 DEF Delegate, StakeType
<1>2. CASE Undelegate(v, x)
  <2>1. tokens' \in [Validator -> Nat] /\ liquid' \in Nat
    BY <1>2 DEF Undelegate
  <2>2. unbonding' \in [Validator -> Schedule]
    BY <1>2 DEF Undelegate, Schedule
  <2> QED BY <1>2, <2>1, <2>2 DEF Undelegate, StakeType
<1>3. CASE BeginRedelegate(v, w, x)
  <2>1. tokens' \in [Validator -> Nat] /\ liquid' \in Nat
    <3>1. /\ v # w /\ tokens[v] >= x /\ liquid' = liquid
          /\ tokens' = [tokens EXCEPT ![v] = @ - x, ![w] = @ + x]
      BY <1>3 DEF BeginRedelegate
    <3>2. tokens \in [Validator -> Nat] /\ tokens[v] - x \in Nat /\ tokens[w] + x \in Nat
      BY <3>1
    <3>3. \A u \in Validator :
            tokens'[u] = IF u = v THEN tokens[v] - x ELSE IF u = w THEN tokens[w] + x ELSE tokens[u]
      BY <3>1, <3>2
    <3>4. \A u \in Validator : tokens'[u] \in Nat
      BY <3>2, <3>3
    <3>5. tokens' = [u \in Validator |-> tokens'[u]]
      BY <3>1, <3>2
    <3>6. tokens' \in [Validator -> Nat]
      BY <3>4, <3>5
    <3>7. liquid' = liquid /\ liquid \in Nat
      BY <1>3 DEF BeginRedelegate
    <3> QED BY ONLY <3>6, <3>7
  <2>2. moved' \in [Validator -> [Validator -> Schedule]]
    <3>1. CASE Unbonded(v)
      BY <1>3, <3>1 DEF BeginRedelegate
    <3>2. CASE ~Unbonded(v)
      <4>1. moved' = [moved EXCEPT ![v][w][TermOf(v)] = @ + x]
        BY <1>3, <3>2 DEF BeginRedelegate
      <4>2. TermOf(v) \in Left
        BY <3>2, TermWithinLeft
      <4>3. moved \in [Validator -> [Validator -> Schedule]]
        OBVIOUS
      <4> QED BY ONLY <4>1, <4>2, <4>3, x \in Nat, v \in Validator, w \in Validator DEF Schedule
    <3> QED BY <3>1, <3>2
  <2> QED BY <1>3, <2>1, <2>2 DEF BeginRedelegate, StakeType
<1>4. CASE CancelUnbondingDelegation(v, k, x)
  <2>1. tokens' \in [Validator -> Nat] /\ liquid' \in Nat
    BY <1>4 DEF CancelUnbondingDelegation
  <2>2. unbonding' \in [Validator -> Schedule]
    BY <1>4 DEF CancelUnbondingDelegation, Schedule
  <2> QED BY <1>4, <2>1, <2>2 DEF CancelUnbondingDelegation, StakeType
<1> QED BY <1>1, <1>2, <1>3, <1>4 DEF StakeMoves

(* The greater of a number and nought.                                      *)
LEMMA MaxWithNought ==
  ASSUME NEW a \in Int PROVE Max({0, a}) = IF a <= 0 THEN 0 ELSE a
BY DEF Max

(* What is slashed of an entry with some blocks left.                       *)
LEMMA CutTypes ==
  /\ \A u \in Cuts : u.left \in Left /\ u.amount \in Nat
  /\ NoCut.amount = 0
BY LeftFinite DEF Cuts, NoCut

(* What a slash does to stake and to the pools.                             *)
LEMMA SlashEffect ==
  ASSUME StakingTypeOK, NEW v \in Validator, NEW w \in Validator, NEW x \in Nat,
         NEW u \in Cuts, NEW r \in Cuts, SlashWithInfractionReason(v, x, u, w, r)
  PROVE  /\ u.left \in Left /\ u.amount \in Nat /\ r.amount \in Nat
         /\ w = v => r.amount = 0
         /\ tokens[v] >= x /\ tokens[w] >= r.amount /\ unbonding[v][u.left] >= u.amount
         /\ tokens' = [tokens EXCEPT ![w] = @ - r.amount, ![v] = @ - x]
         /\ unbonding' = [unbonding EXCEPT ![v][u.left] = @ - u.amount]
         /\ slashed' = [slashed EXCEPT ![w] = @ + r.amount,
                          ![v] = @ + x + (IF LeftSince(u.left) THEN u.amount ELSE 0)]
         /\ communityPool' \in Nat /\ mintAccount' \in Nat /\ burned' \in Nat
         /\ communityPool' + mintAccount' + burned'
              = communityPool + mintAccount + burned + x + u.amount + r.amount
         /\ UNCHANGED <<liquid, moved, age>>
<1>1. /\ u.left \in Left /\ u.amount \in Nat /\ r.amount \in Nat
      /\ w = v => r.amount = 0
  BY CutTypes DEF SlashWithInfractionReason
<1>2. PICK outcome \in MintOutcome :
        /\ MintReported(x, outcome)
        /\ burned' = burned + u.amount + r.amount + (IF outcome = "unminted" THEN x ELSE 0)
  BY DEF SlashWithInfractionReason
<1>3. outcome \in {"funded", "unfunded", "unminted"}
  BY StakingAssumption
<1>4. communityPool \in Nat /\ mintAccount \in Nat /\ burned \in Nat
  BY StakeTypes
<1> DEFINE ua == u.amount
           ra == r.amount
<1>5. ua \in Nat /\ ra \in Nat
  BY <1>1
<1>6. /\ communityPool' = communityPool + (IF outcome = "funded" THEN x ELSE 0)
      /\ mintAccount' = mintAccount + (IF outcome = "unfunded" THEN x ELSE 0)
      /\ burned' = burned + ua + ra + (IF outcome = "unminted" THEN x ELSE 0)
  BY <1>2 DEF MintReported
<1> HIDE DEF ua, ra
<1>7. /\ communityPool' \in Nat /\ mintAccount' \in Nat /\ burned' \in Nat
      /\ communityPool' + mintAccount' + burned'
           = communityPool + mintAccount + burned + x + ua + ra
  <2>1. CASE outcome = "funded"
    BY ONLY <1>4, <1>5, <1>6, <2>1, x \in Nat
  <2>2. CASE outcome = "unfunded"
    BY ONLY <1>4, <1>5, <1>6, <2>2, x \in Nat
  <2>3. CASE outcome = "unminted"
    BY ONLY <1>4, <1>5, <1>6, <2>3, x \in Nat
  <2> QED BY <1>3, <2>1, <2>2, <2>3
<1> QED BY <1>1, <1>7 DEF SlashWithInfractionReason, ua, ra

(* Stake and what was slashed of it, validator by validator.                *)
LEMMA SlashedStake ==
  ASSUME StakingTypeOK, NEW v \in Validator, NEW w \in Validator, NEW x \in Nat,
         NEW u \in Cuts, NEW r \in Cuts, SlashWithInfractionReason(v, x, u, w, r),
         NEW z \in Validator
  PROVE  LET since == IF LeftSince(u.left) THEN u.amount ELSE 0
         IN  /\ tokens'[z] = IF z = v THEN tokens[z] - x
                              ELSE IF z = w THEN tokens[z] - r.amount ELSE tokens[z]
             /\ slashed'[z] = IF z = v THEN slashed[z] + x + since
                               ELSE IF z = w THEN slashed[z] + r.amount ELSE slashed[z]
<1> DEFINE ra == r.amount
           since == IF LeftSince(u.left) THEN u.amount ELSE 0
<1>1. /\ ra \in Nat /\ since \in Nat /\ (w = v => ra = 0)
      /\ tokens' = [tokens EXCEPT ![w] = @ - ra, ![v] = @ - x]
      /\ slashed' = [slashed EXCEPT ![w] = @ + ra, ![v] = @ + x + since]
  BY SlashEffect
<1>2. tokens \in [Validator -> Nat] /\ slashed \in [Validator -> Nat]
  BY StakeTypes
<1> HIDE DEF ra, since
<1>3. CASE w = v
  BY ONLY <1>1, <1>2, <1>3, x \in Nat, z \in Validator, v \in Validator DEF ra, since
<1>4. CASE w # v
  BY ONLY <1>1, <1>2, <1>4, x \in Nat, z \in Validator, v \in Validator, w \in Validator DEF ra, since
<1> QED BY <1>3, <1>4

(* A slash keeps the types.                                                 *)
LEMMA SlashType ==
  ASSUME StakingTypeOK, NEW v \in Validator, NEW w \in Validator, NEW x \in Nat,
         NEW u \in Cuts, NEW r \in Cuts, SlashWithInfractionReason(v, x, u, w, r)
  PROVE  /\ StakeType'
         /\ communityPool' \in Nat /\ mintAccount' \in Nat /\ burned' \in Nat
         /\ slashed' \in [Validator -> Nat]
<1> USE StakeTypes, LeftFinite
<1> DEFINE since == IF LeftSince(u.left) THEN u.amount ELSE 0
           ra == r.amount
<1>1. /\ u.left \in Left /\ u.amount \in Nat /\ ra \in Nat /\ since \in Nat
      /\ tokens[v] >= x /\ tokens[w] >= ra /\ unbonding[v][u.left] >= u.amount
      /\ tokens' = [tokens EXCEPT ![w] = @ - ra, ![v] = @ - x]
      /\ unbonding' = [unbonding EXCEPT ![v][u.left] = @ - u.amount]
      /\ slashed' = [slashed EXCEPT ![w] = @ + ra, ![v] = @ + x + since]
      /\ communityPool' \in Nat /\ mintAccount' \in Nat /\ burned' \in Nat
      /\ liquid' = liquid /\ moved' = moved
  BY SlashEffect
<1>2. \A z \in Validator :
        /\ tokens'[z] = IF z = v THEN tokens[z] - x
                         ELSE IF z = w THEN tokens[z] - ra ELSE tokens[z]
        /\ slashed'[z] = IF z = v THEN slashed[z] + x + since
                          ELSE IF z = w THEN slashed[z] + ra ELSE slashed[z]
  BY SlashedStake
<1>3. unbonding' \in [Validator -> Schedule]
  <2> DEFINE k == u.left
             n == unbonding[v][k] - u.amount
  <2>1. k \in Left /\ n \in Nat /\ unbonding' = [unbonding EXCEPT ![v][k] = n]
    BY <1>1 DEF Schedule
  <2> HIDE DEF k, n
  <2> QED BY <2>1 DEF Schedule
<1> HIDE DEF since, ra
<1>4. \A z \in Validator : tokens'[z] \in Nat /\ slashed'[z] \in Nat
  BY <1>1, <1>2
<1>5. tokens' = [z \in Validator |-> tokens'[z]] /\ slashed' = [z \in Validator |-> slashed'[z]]
  BY <1>1
<1>6. tokens' \in [Validator -> Nat] /\ slashed' \in [Validator -> Nat]
  BY <1>4, <1>5
<1> QED BY <1>1, <1>3, <1>6 DEF StakeType

(* What the end of a block pays.                                            *)
Matured == [v \in Validator |-> unbonding[v][1]]

(* Stake that matures at the end of a block keeps the types.                *)
LEMMA BlockStakeType ==
  ASSUME StakingTypeOK, BlockValidatorUpdates
  PROVE  StakeType' /\ Total(Matured, Validator) \in Nat
<1> USE StakeTypes, LeftFinite
<1>1. /\ liquid' = liquid + Total(Matured, Validator)
      /\ unbonding' = [v \in Validator |-> Shifted(unbonding[v])]
      /\ moved' = [v \in Validator |-> [w \in Validator |-> Shifted(moved[v][w])]]
      /\ tokens' = tokens
  BY DEF BlockValidatorUpdates, Matured
<1>2. Total(Matured, Validator) \in Nat
  <2>1. \A v \in Validator : Matured[v] \in Nat
    BY DEF Matured, Schedule
  <2> QED BY <2>1, TotalNat
<1>3. \A f \in Schedule : Shifted(f) \in Schedule
  <2>1. 0 \in 0..(Term - 1)
    OBVIOUS
  <2> QED BY <2>1, ShiftedTotal
<1>4. unbonding' \in [Validator -> Schedule]
  BY <1>1, <1>3
<1>5. moved' \in [Validator -> [Validator -> Schedule]]
  BY <1>1, <1>3
<1> QED BY <1>1, <1>2, <1>4, <1>5 DEF StakeType

(* The end of a block keeps the types.                                      *)
LEMMA BlockKeepsType ==
  ASSUME StakingTypeOK, BlockValidatorUpdates
  PROVE  StakingTypeOK'
<1>1. UnbondingBlocks \in Nat \ {0} /\ Cycle \in Nat /\ Cycle > 1
  BY StakingAssumption
<1>2. StakeType'
  BY BlockStakeType
<1>3. height' \in 0..(Cycle - 1)
  BY <1>1 DEF BlockValidatorUpdates, StakingTypeOK
<1>4. /\ epoch' \in EpochParams /\ ValidParams(epoch')
      /\ jailed' \subseteq Validator /\ communityPool' \in Nat /\ mintAccount' \in Nat /\ burned' \in Nat
  BY DEF BlockValidatorUpdates, pools, StakingTypeOK, ValidParams
<1>5. \A v \in Validator : OneBlockLess(v) \in 0..UnbondingBlocks
  <2>1. ASSUME NEW v \in Validator PROVE OneBlockLess(v) \in 0..UnbondingBlocks
    <3>1. leaving[v] \in 0..UnbondingBlocks
      BY StakeTypes
    <3>2. OneBlockLess(v) = IF leaving[v] - 1 <= 0 THEN 0 ELSE leaving[v] - 1
      BY <1>1, <3>1, MaxWithNought DEF OneBlockLess
    <3> QED BY <1>1, <3>1, <3>2
  <2> QED BY <2>1
<1> DEFINE Rest == /\ power' \in [Validator -> Nat]
                   /\ leaving' \in [Validator -> 0..UnbondingBlocks]
                   /\ age' \in 1..(UnbondingBlocks + 1)
                   /\ slashed' \in [Validator -> Nat]
<1>6. ASSUME ShouldExecuteBatch PROVE Rest
  <2>1. PICK S \in TopValidators : ApplyValidatorSet(S)
    BY <1>6 DEF BlockValidatorUpdates
  <2>2. power' \in [Validator -> Nat] /\ slashed' \in [Validator -> Nat]
    BY <2>1, StakeTypes DEF ApplyValidatorSet, PowerUpdates
  <2>3. leaving' \in [Validator -> 0..UnbondingBlocks]
    BY <1>1, <1>5, <2>1 DEF ApplyValidatorSet
  <2>4. age' \in 1..(UnbondingBlocks + 1)
    BY <1>1, <2>1 DEF ApplyValidatorSet
  <2> QED BY <2>2, <2>3, <2>4
<1>7. ASSUME ~ShouldExecuteBatch PROVE Rest
  <2>1. /\ leaving' = [v \in Validator |-> OneBlockLess(v)]
        /\ age' = Min({age + 1, UnbondingBlocks + 1})
        /\ power' = power /\ paramsChanged' = paramsChanged /\ slashed' = slashed
    BY <1>7 DEF BlockValidatorUpdates, KeepValidatorSet
  <2>2. leaving' \in [Validator -> 0..UnbondingBlocks]
    BY <1>5, <2>1
  <2>3. age' \in 1..(UnbondingBlocks + 1)
    <3>1. age \in 1..(UnbondingBlocks + 1)
      BY StakeTypes
    <3> QED BY <1>1, <2>1, <3>1, MinOfPair
  <2> QED BY <2>1, <2>2, <2>3, StakeTypes
<1> HIDE DEF Rest
<1>8. Rest
  BY <1>6, <1>7
<1>9. paramsChanged' = FALSE \/ paramsChanged' = paramsChanged
  BY DEF BlockValidatorUpdates, ApplyValidatorSet, KeepValidatorSet
<1>10. paramsChanged \in BOOLEAN
  BY DEF StakingTypeOK
<1>11. paramsChanged' \in BOOLEAN
  BY ONLY <1>9, <1>10, Zenon
<1> QED BY <1>2, <1>3, <1>4, <1>8, <1>11 DEF StakingTypeOK, StakeType, Schedule, Rest

(* Every step keeps the types.                                              *)
LEMMA StakingTypeStep == StakingTypeOK /\ [Next]_vars => StakingTypeOK'
<1> SUFFICES ASSUME StakingTypeOK, [Next]_vars PROVE StakingTypeOK'
  OBVIOUS
<1>1. CASE StakingTx
  <2>1. UNCHANGED <<height, epoch, jailed, power, leaving, communityPool, mintAccount, history>>
    BY <1>1 DEF StakingTx, pools
  <2>2. PICK v \in Validator, w \in Validator, k \in Left : StakeMoves(v, w, k, 1)
    BY <1>1, LeftFinite DEF StakingTx, StakeMoves
  <2>3. StakeType'
    BY <2>2, StakeMovesType
  <2> QED BY <2>1, <2>3 DEF StakingTypeOK, StakeType, Schedule, history, ValidParams
<1>2. CASE UpdateEpochParams
  <2>1. epoch' \in EpochParams /\ ValidParams(epoch')
    BY <1>2 DEF UpdateEpochParams, ValidParams
  <2>2. paramsChanged' \in BOOLEAN
    BY <1>2 DEF UpdateEpochParams, StakingTypeOK
  <2> QED BY <1>2, <2>1, <2>2 DEF UpdateEpochParams, StakingTypeOK, stake, pools, ValidParams
<1>3. CASE Slash
  <2>1. PICK v \in Validator, w \in Validator, x \in {0, 1}, u \in Cuts, r \in Cuts :
          SlashWithInfractionReason(v, x, u, w, r)
    BY <1>3 DEF Slash
  <2>2. /\ StakeType'
        /\ communityPool' \in Nat /\ mintAccount' \in Nat /\ burned' \in Nat
        /\ slashed' \in [Validator -> Nat]
    BY <2>1, SlashType
  <2>3. UNCHANGED <<height, epoch, jailed, power, leaving, age, paramsChanged>>
    BY <1>3, <2>1 DEF Slash, SlashWithInfractionReason
  <2> QED BY <2>2, <2>3 DEF StakingTypeOK, StakeType, Schedule, ValidParams
<1>4. CASE JailOrUnjail
  <2>1. jailed' \subseteq Validator
    BY <1>4 DEF JailOrUnjail, Jail, Unjail, StakingTypeOK
  <2> QED BY <1>4, <2>1 DEF JailOrUnjail, StakingTypeOK, stake, pools, history, ValidParams
<1>5. CASE BlockValidatorUpdates
  BY <1>5, BlockKeepsType
<1>6. CASE UNCHANGED vars
  BY <1>6 DEF vars, stake, pools, history, StakingTypeOK, ValidParams
<1> QED BY <1>1, <1>2, <1>3, <1>4, <1>5, <1>6 DEF Next

(* The variables keep their types: no stake falls below zero, whatever is   *)
(* unbonded, redelegated, cancelled and slashed (StakingTypeOK).            *)
THEOREM StakingTypeCorrect == Spec => []StakingTypeOK
BY StakingTypeInit, StakingTypeStep, PTL DEF Spec

-----------------------------------------------------------------------------
(* Parts of a schedule.                                                     *)
Slots == SUBSET Left

(* Over all validators.                                                     *)
AllOf(u) == Total([v \in Validator |-> Total(u[v], Left)], Validator)

(* One entry of one validator's stake on its way out changes.               *)
WithEntry(u, v, k, n) == [u EXCEPT ![v][k] = n]

LEMMA EntryChanges ==
  ASSUME NEW u \in [Validator -> Schedule], NEW v \in Validator, NEW k \in Left, NEW n \in Nat
  PROVE  /\ WithEntry(u, v, k, n) \in [Validator -> Schedule]
         /\ \A w \in Validator : w # v => WithEntry(u, v, k, n)[w] = u[w]
         /\ \A S \in Slots :
              /\ Total(u[v], S) \in Nat /\ Total(WithEntry(u, v, k, n)[v], S) \in Nat
              /\ Total(WithEntry(u, v, k, n)[v], S) =
                   IF k \in S THEN Total(u[v], S) - u[v][k] + n ELSE Total(u[v], S)
<1> DEFINE t == WithEntry(u, v, k, n)
<1>1. t \in [Validator -> Schedule] /\ (\A w \in Validator : w # v => t[w] = u[w])
  BY DEF Schedule, WithEntry
<1>2. t[v] \in Schedule /\ u[v] \in Schedule /\ t[v] = [u[v] EXCEPT ![k] = n]
  BY <1>1 DEF Schedule, WithEntry
<1>3. /\ t[v][k] = n
      /\ \A i \in Left : u[v][i] \in Nat /\ t[v][i] \in Nat /\ (i # k => t[v][i] = u[v][i])
  BY <1>2 DEF Schedule
<1>4. ASSUME NEW S \in Slots
      PROVE  /\ Total(u[v], S) \in Nat /\ Total(t[v], S) \in Nat
             /\ Total(t[v], S) = IF k \in S THEN Total(u[v], S) - u[v][k] + n
                                            ELSE Total(u[v], S)
  <2> HIDE DEF t
  <2> DEFINE f == u[v]
             g == t[v]
  <2>1. DifferAt(f, g, k, S) /\ IsFiniteSet(S)
    BY <1>3, LeftFinite, FS_Subset DEF DifferAt, Slots
  <2>2. g[k] = n
    BY <1>3
  <2> HIDE DEF f, g
  <2>3. /\ Total(f, S) \in Nat /\ Total(g, S) \in Nat
        /\ Total(g, S) = IF k \in S THEN Total(f, S) - f[k] + g[k] ELSE Total(f, S)
    BY <2>1, TotalMoves
  <2> QED BY <2>2, <2>3 DEF f, g
<1> QED BY <1>1, <1>4

(* One validator's sum when one entry changes.                              *)
LEMMA EntryTotal ==
  ASSUME NEW u \in [Validator -> Schedule], NEW v \in Validator, NEW k \in Left, NEW n \in Nat,
         NEW w \in Validator, NEW S \in Slots
  PROVE  Total(WithEntry(u, v, k, n)[w], S) =
           IF w = v /\ k \in S THEN Total(u[w], S) - u[w][k] + n ELSE Total(u[w], S)
<1>1. /\ \A z \in Validator : z # v => WithEntry(u, v, k, n)[z] = u[z]
      /\ Total(WithEntry(u, v, k, n)[v], S) =
           IF k \in S THEN Total(u[v], S) - u[v][k] + n ELSE Total(u[v], S)
  BY EntryChanges
<1>2. CASE w = v
  BY <1>1, <1>2
<1>3. CASE w # v
  BY <1>1, <1>3
<1> QED BY <1>2, <1>3

(* The sum over all validators of what is on its way out.                   *)
LEMMA AllOfNat ==
  ASSUME NEW u \in [Validator -> Schedule]
  PROVE  /\ AllOf(u) \in Nat
         /\ \A v \in Validator : Total(u[v], Left) \in Nat
<1>1. \A v \in Validator : Total(u[v], Left) \in Nat
  BY LeftFinite, TotalNat DEF Schedule
<1> DEFINE row == [v \in Validator |-> Total(u[v], Left)]
<1>2. \A v \in Validator : row[v] \in Nat
  BY <1>1
<1>3. AllOf(u) = Total(row, Validator)
  BY DEF AllOf
<1> HIDE DEF row
<1>4. Total(row, Validator) \in Nat
  BY <1>2, LeftFinite, TotalNat
<1> QED BY <1>1, <1>3, <1>4

(* That sum when one entry changes.                                         *)
LEMMA AllOfChanges ==
  ASSUME NEW u \in [Validator -> Schedule], NEW v \in Validator, NEW k \in Left, NEW n \in Nat
  PROVE  AllOf(WithEntry(u, v, k, n)) = AllOf(u) - u[v][k] + n
<1> DEFINE t == WithEntry(u, v, k, n)
           f == [w \in Validator |-> Total(u[w], Left)]
           g == [w \in Validator |-> Total(t[w], Left)]
<1>1. /\ t \in [Validator -> Schedule]
      /\ \A w \in Validator : w # v => t[w] = u[w]
      /\ \A S \in Slots :
           Total(t[v], S) = IF k \in S THEN Total(u[v], S) - u[v][k] + n ELSE Total(u[v], S)
  BY EntryChanges
<1>2. Total(t[v], Left) = Total(u[v], Left) - u[v][k] + n
  BY <1>1 DEF Slots
<1>3. \A w \in Validator : Total(u[w], Left) \in Nat /\ Total(t[w], Left) \in Nat
  BY <1>1, AllOfNat
<1>4. AllOf(u) = Total(f, Validator) /\ AllOf(t) = Total(g, Validator)
  BY DEF AllOf
<1>5. u[v][k] \in Nat
  BY DEF Schedule
<1> HIDE DEF t
<1>6. DifferAt(f, g, v, Validator)
  BY <1>1, <1>3 DEF DifferAt
<1>7. f[v] = Total(u[v], Left) /\ g[v] = Total(t[v], Left)
  OBVIOUS
<1> HIDE DEF f, g
<1>8. Total(g, Validator) = Total(f, Validator) - f[v] + g[v] /\ Total(f, Validator) \in Nat
  BY <1>6, LeftFinite, TotalMoves
<1>9. AllOf(t) = AllOf(u) - u[v][k] + n
  BY <1>2, <1>3, <1>4, <1>5, <1>7, <1>8
<1> QED BY <1>9 DEF t

(* The sum of the stake of all validators when that of one changes.         *)
LEMMA TokensChange ==
  ASSUME NEW f \in [Validator -> Nat], NEW v \in Validator, NEW n \in Nat
  PROVE  /\ Total(f, Validator) \in Nat
         /\ Total([f EXCEPT ![v] = n], Validator) = Total(f, Validator) - f[v] + n
<1> DEFINE g == [f EXCEPT ![v] = n]
<1>1. g[v] = n /\ DifferAt(f, g, v, Validator)
  BY DEF DifferAt
<1> HIDE DEF g
<1>2. /\ Total(f, Validator) \in Nat
      /\ Total(g, Validator) = Total(f, Validator) - f[v] + g[v]
  BY <1>1, LeftFinite, TotalMoves
<1> QED BY <1>1, <1>2 DEF g

(* What matures and what stays is what there was.                           *)
LEMMA MaturedLeaves ==
  ASSUME NEW u \in [Validator -> Schedule]
  PROVE  AllOf(u) = AllOf([v \in Validator |-> Shifted(u[v])])
                      + Total([v \in Validator |-> u[v][1]], Validator)
<1> DEFINE t == [v \in Validator |-> Shifted(u[v])]
           f == [v \in Validator |-> Total(t[v], Left)]
           g == [v \in Validator |-> u[v][1]]
           h == [v \in Validator |-> Total(u[v], Left)]
<1>1. ASSUME NEW s \in Schedule
      PROVE  /\ Shifted(s) \in Schedule
             /\ Total(s, Left) = Total(Shifted(s), Left) + s[1]
  <2>1. 0 \in 0..(Term - 1)
    BY LeftFinite
  <2>2. {k \in Left : k > 0} = Left /\ {k \in Left : k > 0 + 1} = Left \ {1}
    BY LeftFinite DEF Left
  <2>3. Shifted(s) \in Schedule /\ Total(Shifted(s), Left) = Total(s, Left \ {1})
    BY <2>1, <2>2, ShiftedTotal
  <2>4. \A k \in Left : s[k] \in Int
    BY DEF Schedule
  <2>5. Total(s, Left) = s[1] + Total(s, Left \ {1}) /\ Total(s, Left \ {1}) \in Int
    BY <2>4, LeftFinite, SumElement DEF Total
  <2> QED BY <2>3, <2>4, <2>5, LeftFinite
<1>2. \A v \in Validator : f[v] \in Int /\ g[v] \in Int /\ h[v] = f[v] + g[v]
  <2>1. ASSUME NEW v \in Validator PROVE f[v] \in Int /\ g[v] \in Int /\ h[v] = f[v] + g[v]
    <3>1. u[v] \in Schedule /\ t[v] = Shifted(u[v]) /\ u[v][1] \in Nat
      BY LeftFinite DEF Schedule
    <3>2. Total(u[v], Left) = Total(t[v], Left) + u[v][1] /\ t[v] \in Schedule
      BY <1>1, <3>1
    <3>3. Total(t[v], Left) \in Nat
      BY <3>2, LeftFinite, TotalNat DEF Schedule
    <3> QED BY <3>1, <3>2, <3>3
  <2> QED BY <2>1
<1>3. AllOf(u) = SumFunctionOnSet(h, Validator) /\ AllOf(t) = SumFunctionOnSet(f, Validator)
  BY DEF AllOf, Total
<1>4. Total(g, Validator) = SumFunctionOnSet(g, Validator)
  BY DEF Total
<1> HIDE DEF f, g, h, t
<1>5. SumFunctionOnSet(h, Validator) = SumFunctionOnSet(f, Validator) + SumFunctionOnSet(g, Validator)
  BY <1>2, LeftFinite, SumOfSums
<1>6. AllOf(u) = AllOf(t) + Total(g, Validator)
  BY <1>3, <1>4, <1>5
<1> QED BY <1>6 DEF t, g

(* SlashedCoinsAccounted in the terms of these lemmas.                      *)
CoinsKept(l, t, u, c, m, b) == Coins = l + Total(t, Validator) + AllOf(u) + c + m + b

LEMMA CoinsKeptMeans ==
  SlashedCoinsAccounted <=> CoinsKept(liquid, tokens, unbonding, communityPool, mintAccount, burned)
BY DEF SlashedCoinsAccounted, InPlay, CoinsKept, AllOf

(* Delegating, undelegating and redelegating move coins, and make none.     *)
LEMMA MessagesKeepCoins ==
  ASSUME StakingTypeOK, CoinsKept(liquid, tokens, unbonding, communityPool, mintAccount, burned),
         NEW v \in Validator, NEW w \in Validator, NEW k \in Left,
         NEW x \in Nat, StakeMoves(v, w, k, x),
         communityPool' = communityPool, mintAccount' = mintAccount, burned' = burned
  PROVE  CoinsKept(liquid', tokens', unbonding', communityPool', mintAccount', burned')
<1>1. /\ liquid \in Nat /\ communityPool \in Nat /\ mintAccount \in Nat /\ burned \in Nat
      /\ tokens \in [Validator -> Nat] /\ unbonding \in [Validator -> Schedule]
  BY StakeTypes
<1>2. Total(tokens, Validator) \in Nat /\ AllOf(unbonding) \in Nat
  BY <1>1, TokensChange, AllOfNat
<1>3. tokens[v] \in Nat /\ tokens[w] \in Nat /\ (\A i \in Left : unbonding[v][i] \in Nat)
  BY <1>1 DEF Schedule
<1>4. CASE Delegate(v, x)
  <2>1. /\ liquid' = liquid - x /\ unbonding' = unbonding
        /\ tokens' = [tokens EXCEPT ![v] = tokens[v] + x]
    BY <1>4 DEF Delegate
  <2>2. Total(tokens', Validator) = Total(tokens, Validator) + x
    <3>1. tokens[v] + x \in Nat
      BY <1>3
    <3>2. Total(tokens', Validator) = Total(tokens, Validator) - tokens[v] + (tokens[v] + x)
      BY <1>1, <2>1, <3>1, TokensChange
    <3> QED BY <1>2, <1>3, <3>2
  <2> QED BY <1>1, <1>2, <2>1, <2>2 DEF CoinsKept
<1>5. CASE Undelegate(v, x)
  <2>1. /\ liquid' = liquid /\ tokens[v] >= x
        /\ tokens' = [tokens EXCEPT ![v] = tokens[v] - x]
        /\ unbonding' = [unbonding EXCEPT ![v][Term] = unbonding[v][Term] + x]
    BY <1>5 DEF Undelegate
  <2>2. Total(tokens', Validator) = Total(tokens, Validator) - x
    <3>1. tokens[v] - x \in Nat
      BY <1>3, <2>1
    <3>2. Total(tokens', Validator) = Total(tokens, Validator) - tokens[v] + (tokens[v] - x)
      BY <1>1, <2>1, <3>1, TokensChange
    <3> QED BY <1>2, <1>3, <3>2
  <2>3. AllOf(unbonding') = AllOf(unbonding) + x
    <3>1. Term \in Left /\ unbonding[v][Term] \in Nat /\ unbonding[v][Term] + x \in Nat
      BY <1>3, LeftFinite
    <3>2. AllOf(unbonding') = AllOf(unbonding) - unbonding[v][Term] + (unbonding[v][Term] + x)
      BY <1>1, <2>1, <3>1, AllOfChanges DEF WithEntry
    <3> QED BY <1>2, <3>1, <3>2
  <2> QED BY <1>1, <1>2, <2>1, <2>2, <2>3 DEF CoinsKept
<1>6. CASE BeginRedelegate(v, w, x)
  <2>1. /\ liquid' = liquid /\ unbonding' = unbonding /\ tokens[v] >= x /\ v # w
        /\ tokens' = [tokens EXCEPT ![v] = @ - x, ![w] = @ + x]
    BY <1>6 DEF BeginRedelegate
  <2> DEFINE t == [tokens EXCEPT ![v] = tokens[v] - x]
  <2>2. tokens[v] - x \in Nat /\ tokens[w] + x \in Nat
    BY <1>3, <2>1
  <2>3. t \in [Validator -> Nat] /\ t[w] = tokens[w]
    BY <1>1, <2>1, <2>2
  <2>4. tokens' = [t EXCEPT ![w] = tokens[w] + x]
    BY <1>1, <2>1, <2>2
  <2>5. Total(t, Validator) = Total(tokens, Validator) - tokens[v] + (tokens[v] - x)
    BY <1>1, <2>2, TokensChange
  <2> HIDE DEF t
  <2>6. Total(tokens', Validator) = Total(t, Validator) - tokens[w] + (tokens[w] + x)
    <3>1. \A n \in Nat : Total([t EXCEPT ![w] = n], Validator) = Total(t, Validator) - t[w] + n
      BY ONLY <2>3, TokensChange, w \in Validator
    <3> QED BY ONLY <2>2, <2>3, <2>4, <3>1
  <2>7. Total(tokens', Validator) = Total(tokens, Validator)
    BY ONLY <1>2, <1>3, <2>5, <2>6, x \in Nat
  <2>8. unbonding' = unbonding /\ liquid' = liquid
    BY <1>6 DEF BeginRedelegate
  <2> QED BY <2>7, <2>8 DEF CoinsKept
<1>7. CASE CancelUnbondingDelegation(v, k, x)
  <2>1. /\ liquid' = liquid /\ unbonding[v][k] >= x
        /\ tokens' = [tokens EXCEPT ![v] = tokens[v] + x]
        /\ unbonding' = [unbonding EXCEPT ![v][k] = unbonding[v][k] - x]
    BY <1>7 DEF CancelUnbondingDelegation
  <2>2. Total(tokens', Validator) = Total(tokens, Validator) + x
    <3>1. tokens[v] + x \in Nat
      BY <1>3
    <3>2. Total(tokens', Validator) = Total(tokens, Validator) - tokens[v] + (tokens[v] + x)
      BY <1>1, <2>1, <3>1, TokensChange
    <3> QED BY <1>2, <1>3, <3>2
  <2>3. AllOf(unbonding') = AllOf(unbonding) - x
    <3>1. unbonding[v][k] \in Nat /\ unbonding[v][k] - x \in Nat
      BY <1>3, <2>1
    <3>2. AllOf(unbonding') = AllOf(unbonding) - unbonding[v][k] + (unbonding[v][k] - x)
      BY <1>1, <2>1, <3>1, AllOfChanges DEF WithEntry
    <3> QED BY <1>2, <3>1, <3>2
  <2> QED BY <1>1, <1>2, <2>1, <2>2, <2>3 DEF CoinsKept
<1> QED BY <1>4, <1>5, <1>6, <1>7 DEF StakeMoves

(* What a slash takes is in the pools or burned, coin for coin.             *)
LEMMA SlashKeepsCoins ==
  ASSUME StakingTypeOK, CoinsKept(liquid, tokens, unbonding, communityPool, mintAccount, burned),
         NEW v \in Validator, NEW w \in Validator, NEW x \in Nat,
         NEW u \in Cuts, NEW r \in Cuts, SlashWithInfractionReason(v, x, u, w, r)
  PROVE  CoinsKept(liquid', tokens', unbonding', communityPool', mintAccount', burned')
<1> DEFINE ua == u.amount
           ra == r.amount
           k == u.left
<1>1. /\ liquid \in Nat /\ communityPool \in Nat /\ mintAccount \in Nat /\ burned \in Nat
      /\ tokens \in [Validator -> Nat] /\ unbonding \in [Validator -> Schedule]
  BY StakeTypes
<1>2. Total(tokens, Validator) \in Nat /\ AllOf(unbonding) \in Nat
  BY <1>1, TokensChange, AllOfNat
<1>3. /\ k \in Left /\ ua \in Nat /\ ra \in Nat /\ (w = v => ra = 0)
      /\ tokens[v] >= x /\ tokens[w] >= ra /\ unbonding[v][k] >= ua
      /\ tokens' = [tokens EXCEPT ![w] = @ - ra, ![v] = @ - x]
      /\ unbonding' = [unbonding EXCEPT ![v][k] = @ - ua]
      /\ communityPool' \in Nat /\ mintAccount' \in Nat /\ burned' \in Nat
      /\ communityPool' + mintAccount' + burned'
           = communityPool + mintAccount + burned + x + ua + ra
      /\ liquid' = liquid
  BY SlashEffect
<1>4. tokens[v] \in Nat /\ tokens[w] \in Nat /\ unbonding[v][k] \in Nat
  BY <1>1, <1>3 DEF Schedule
<1> HIDE DEF ua, ra, k
<1>5. Total(tokens', Validator) = Total(tokens, Validator) - ra - x
  <2> DEFINE n == tokens[w] - ra
             t == [tokens EXCEPT ![w] = n]
             m == tokens[v] - x
  <2>1. n \in Nat /\ m \in Nat
    BY <1>3, <1>4
  <2>2. t \in [Validator -> Nat] /\ t[v] = tokens[v]
    BY <1>1, <1>3, <1>4, <2>1
  <2>3. tokens' = [t EXCEPT ![v] = m]
    BY <1>1, <1>3, <2>2
  <2>4. Total(t, Validator) = Total(tokens, Validator) - tokens[w] + n
    BY <1>1, <2>1, TokensChange
  <2> HIDE DEF t, m
  <2>5. Total([t EXCEPT ![v] = m], Validator) = Total(t, Validator) - t[v] + m
    BY ONLY <2>1, <2>2, TokensChange, v \in Validator
  <2>6. m = tokens[v] - x /\ ra \in Nat
    BY <1>3 DEF m
  <2>7. Total(tokens', Validator) = Total(t, Validator) - t[v] + m
    BY ONLY <2>3, <2>5
  <2> QED BY ONLY <1>2, <1>4, <2>2, <2>4, <2>6, <2>7, x \in Nat
<1>6. AllOf(unbonding') = AllOf(unbonding) - ua
  <2> DEFINE n == unbonding[v][k] - ua
  <2>1. n \in Nat /\ unbonding' = WithEntry(unbonding, v, k, n)
    BY <1>3, <1>4 DEF WithEntry
  <2>2. n = unbonding[v][k] - ua
    OBVIOUS
  <2> HIDE DEF n
  <2>3. AllOf(WithEntry(unbonding, v, k, n)) = AllOf(unbonding) - unbonding[v][k] + n
    BY ONLY <1>1, <1>3, <2>1, AllOfChanges, v \in Validator
  <2>4. AllOf(unbonding') = AllOf(unbonding) - unbonding[v][k] + n /\ ua \in Nat
    BY ONLY <1>3, <2>1, <2>3
  <2> QED BY ONLY <1>2, <1>4, <2>2, <2>4
<1>7. /\ ua \in Nat /\ ra \in Nat /\ liquid' = liquid
      /\ communityPool' \in Nat /\ mintAccount' \in Nat /\ burned' \in Nat
      /\ communityPool' + mintAccount' + burned'
           = communityPool + mintAccount + burned + x + ua + ra
  BY ONLY <1>3
<1>8. Coins = liquid + Total(tokens, Validator) + AllOf(unbonding)
                + communityPool + mintAccount + burned
  BY DEF CoinsKept
<1> DEFINE T == Total(tokens, Validator)
           A == AllOf(unbonding)
           T1 == Total(tokens', Validator)
           A1 == AllOf(unbonding')
           l1 == liquid'
           c1 == communityPool'
           m1 == mintAccount'
           b1 == burned'
<1>9. /\ T \in Nat /\ A \in Nat /\ ua \in Nat /\ ra \in Nat
      /\ liquid \in Nat /\ communityPool \in Nat /\ mintAccount \in Nat /\ burned \in Nat
      /\ c1 \in Nat /\ m1 \in Nat /\ b1 \in Nat
  BY <1>1, <1>2, <1>7
<1>10. /\ T1 = T - ra - x /\ A1 = A - ua /\ l1 = liquid
       /\ c1 + m1 + b1 = communityPool + mintAccount + burned + x + ua + ra
       /\ Coins = liquid + T + A + communityPool + mintAccount + burned
  BY <1>5, <1>6, <1>7, <1>8
<1> HIDE DEF T, A, T1, A1, l1, c1, m1, b1
<1>11. Coins = l1 + T1 + A1 + c1 + m1 + b1
  BY ONLY <1>9, <1>10, x \in Nat
<1> QED BY <1>11 DEF CoinsKept, T1, A1, l1, c1, m1, b1

(* Stake that matures goes to the liquid coins.                             *)
LEMMA BlockKeepsCoins ==
  ASSUME StakingTypeOK, CoinsKept(liquid, tokens, unbonding, communityPool, mintAccount, burned),
         BlockValidatorUpdates
  PROVE  CoinsKept(liquid', tokens', unbonding', communityPool', mintAccount', burned')
<1>1. /\ liquid \in Nat /\ communityPool \in Nat /\ mintAccount \in Nat /\ burned \in Nat
      /\ tokens \in [Validator -> Nat] /\ unbonding \in [Validator -> Schedule]
  BY StakeTypes
<1>2. /\ liquid' = liquid + Total(Matured, Validator)
      /\ unbonding' = [v \in Validator |-> Shifted(unbonding[v])]
      /\ tokens' = tokens /\ burned' = burned
      /\ communityPool' = communityPool /\ mintAccount' = mintAccount
  BY DEF BlockValidatorUpdates, Matured, pools
<1>3. AllOf(unbonding) = AllOf(unbonding') + Total(Matured, Validator)
  BY <1>1, <1>2, MaturedLeaves DEF Matured
<1>4. Total(Matured, Validator) \in Nat /\ AllOf(unbonding') \in Nat
  <2>1. StakeType'
    BY BlockStakeType
  <2>2. AllOf(unbonding') \in Nat
    BY <2>1, AllOfNat DEF StakeType
  <2> QED BY <2>2, BlockStakeType
<1>5. Total(tokens, Validator) \in Nat
  BY <1>1, LeftFinite, TotalNat
<1> QED BY <1>1, <1>2, <1>3, <1>4, <1>5 DEF CoinsKept

(* No coin is missing at genesis.                                           *)
LEMMA CoinsInit == Init => SlashedCoinsAccounted
<1> SUFFICES ASSUME Init PROVE SlashedCoinsAccounted
  OBVIOUS
<1>1. StakingTypeOK
  BY StakingTypeInit
<1>2. tokens = [v \in Validator |-> 0] /\ unbonding = [v \in Validator |-> Nothing]
  BY DEF Init
<1>3. Total(tokens, Validator) = 0
  BY <1>2, LeftFinite, SumZero DEF Total
<1>4. \A v \in Validator : Total(unbonding[v], Left) = 0
  <2>1. \A k \in Left : Nothing[k] = 0
    BY DEF Nothing
  <2>2. Total(Nothing, Left) = 0
    BY <2>1, LeftFinite, SumZero DEF Total
  <2> QED BY <1>2, <2>2
<1>5. AllOf(unbonding) = 0
  BY <1>4, LeftFinite, SumZero DEF AllOf, Total
<1>6. liquid = Coins /\ communityPool = 0 /\ mintAccount = 0 /\ burned = 0 /\ Coins \in Nat
  BY StakingAssumption DEF Init
<1> QED BY <1>3, <1>5, <1>6, CoinsKeptMeans DEF CoinsKept

(* Every step keeps the coins.                                              *)
LEMMA CoinsStep == StakingTypeOK /\ SlashedCoinsAccounted /\ [Next]_vars => SlashedCoinsAccounted'
<1> SUFFICES ASSUME StakingTypeOK, SlashedCoinsAccounted, [Next]_vars PROVE SlashedCoinsAccounted'
  OBVIOUS
<1>1. CoinsKept(liquid, tokens, unbonding, communityPool, mintAccount, burned)
  BY CoinsKeptMeans
<1>2. SUFFICES CoinsKept(liquid', tokens', unbonding', communityPool', mintAccount', burned')
  BY DEF SlashedCoinsAccounted, InPlay, CoinsKept, AllOf
<1>3. CASE StakingTx
  <2>1. PICK v \in Validator, w \in Validator, k \in Left : StakeMoves(v, w, k, 1)
    BY <1>3, LeftFinite DEF StakingTx, StakeMoves
  <2>2. communityPool' = communityPool /\ mintAccount' = mintAccount /\ burned' = burned
    BY <1>3 DEF StakingTx, pools, history
  <2> QED BY <1>1, <2>1, <2>2, MessagesKeepCoins
<1>4. CASE Slash
  <2>1. PICK v \in Validator, w \in Validator, x \in {0, 1}, u \in Cuts, r \in Cuts :
          SlashWithInfractionReason(v, x, u, w, r)
    BY <1>4 DEF Slash
  <2> QED BY <1>1, <2>1, SlashKeepsCoins
<1>5. CASE BlockValidatorUpdates
  BY <1>1, <1>5, BlockKeepsCoins
<1>6. CASE UNCHANGED <<liquid, tokens, unbonding, communityPool, mintAccount, burned>>
  BY <1>1, <1>6
<1>7. CASE UpdateEpochParams
  BY <1>6, <1>7 DEF UpdateEpochParams, stake, pools
<1>8. CASE JailOrUnjail
  BY <1>6, <1>8 DEF JailOrUnjail, stake, pools, history
<1>9. CASE UNCHANGED vars
  BY <1>6, <1>9 DEF vars, stake, pools, history
<1> QED BY <1>3, <1>4, <1>5, <1>7, <1>8, <1>9 DEF Next

(* Every coin is accounted for, however stake is moved, unbonded, paid and  *)
(* slashed and however minting it again ends: what a slash takes is in the  *)
(* community pool, in the mint module's account, or burned of unbonding or  *)
(* redelegated stake or for want of minting (SlashedCoinsAccounted).        *)
THEOREM CoinsAlwaysAccounted == Spec => []SlashedCoinsAccounted
BY StakingTypeInit, StakingTypeStep, CoinsInit, CoinsStep, PTL DEF Spec

-----------------------------------------------------------------------------
(* What has left v, and has one of the numbers of blocks in S left.         *)
Moves(m, v, S) == Total([w \in Validator |-> Total(m[v][w], S)], Validator)
Reach(u, m, v, S) == Total(u[v], S) + Moves(m, v, S)

(* The blocks left to what left within the last a blocks.                   *)
Recent(a) == {k \in Left : k > Term - a}

Covered(p, t, u, m, v, S, s) == p[v] <= t[v] + Reach(u, m, v, S) + s[v]

(* VotingStakeTraced in the terms of these lemmas.                          *)
LEMMA TracedMeans ==
  /\ VotingStakeTraced <=>
       (age <= UnbondingBlocks =>
          \A v \in Validator : Covered(power, tokens, unbonding, moved, v, Recent(age), slashed))
  /\ VotingStakeTraced' <=>
       (age' <= UnbondingBlocks =>
          \A v \in Validator :
            Covered(power', tokens', unbonding', moved', v, Recent(age'), slashed'))
<1>1. /\ \A v \in Validator : OnRecord(v) = Reach(unbonding, moved, v, Recent(age))
      /\ \A v \in Validator : OnRecord(v)' = Reach(unbonding', moved', v, Recent(age'))
  BY DEF OnRecord, Reach, Moves, Recent, LeftSince
<1> QED BY <1>1 DEF VotingStakeTraced, Covered

(* The sums over the records a slash goes by are natural numbers.           *)
LEMMA ReachNat ==
  ASSUME NEW u \in [Validator -> Schedule], NEW m \in [Validator -> [Validator -> Schedule]],
         NEW v \in Validator, NEW S \in Slots
  PROVE  /\ \A w \in Validator : Total(m[v][w], S) \in Nat
         /\ Total(u[v], S) \in Nat /\ Moves(m, v, S) \in Nat /\ Reach(u, m, v, S) \in Nat
<1>1. IsFiniteSet(S) /\ IsFiniteSet(Validator)
  BY LeftFinite, FS_Subset DEF Slots
<1>2. \A f \in Schedule : \A k \in S : f[k] \in Nat
  BY DEF Schedule, Slots
<1>3. \A f \in Schedule : Total(f, S) \in Nat
  BY <1>1, <1>2, TotalNat
<1>4. \A w \in Validator : Total(m[v][w], S) \in Nat
  BY <1>3
<1> DEFINE row == [w \in Validator |-> Total(m[v][w], S)]
<1>5. \A w \in Validator : row[w] \in Nat
  BY <1>4
<1>6. Moves(m, v, S) = Total(row, Validator)
  BY DEF Moves
<1> HIDE DEF row
<1>7. Moves(m, v, S) \in Nat
  BY <1>1, <1>5, <1>6, TotalNat
<1> QED BY <1>3, <1>4, <1>7 DEF Reach

(* A redelegation from v is added to what left v.                           *)
Redelegated(m, v, w, k, x) == [m EXCEPT ![v][w][k] = @ + x]

LEMMA MovesGrow ==
  ASSUME NEW m \in [Validator -> [Validator -> Schedule]], NEW v \in Validator,
         NEW w \in Validator, NEW k \in Left, NEW x \in Nat, NEW S \in Slots
  PROVE  Moves(Redelegated(m, v, w, k, x), v, S)
           = Moves(m, v, S) + (IF k \in S THEN x ELSE 0)
<1> DEFINE n == m[v][w][k] + x
           r == WithEntry(m[v], w, k, n)
           f == [u \in Validator |-> Total(m[v][u], S)]
           g == [u \in Validator |-> Total(r[u], S)]
<1>1. m[v] \in [Validator -> Schedule] /\ m[v][w][k] \in Nat /\ n \in Nat
  BY DEF Schedule
<1>2. Redelegated(m, v, w, k, x)[v] = r
  BY DEF WithEntry, Redelegated
<1> HIDE DEF r
<1>3. \A z \in Validator :
        Total(r[z], S) = IF z = w /\ k \in S THEN Total(m[v][w], S) - m[v][w][k] + n
                                             ELSE Total(m[v][z], S)
  <2> DEFINE q == m[v]
  <2>1. q \in [Validator -> Schedule] /\ r = WithEntry(q, w, k, n)
    BY <1>1 DEF r
  <2>2. q[w][k] = m[v][w][k] /\ (\A z \in Validator : q[z] = m[v][z])
    OBVIOUS
  <2> HIDE DEF n, q
  <2>3. \A z \in Validator :
          Total(WithEntry(q, w, k, n)[z], S) =
            IF z = w /\ k \in S THEN Total(q[z], S) - q[z][k] + n ELSE Total(q[z], S)
    BY <1>1, <2>1, EntryTotal
  <2> QED BY <2>1, <2>2, <2>3
<1>4. \A u \in Validator : Total(m[v][u], S) \in Nat
  BY ReachNat, <1>1
<1>5. Total(r[w], S) = Total(m[v][w], S) + (IF k \in S THEN x ELSE 0)
  BY <1>1, <1>3, <1>4
<1>6. DifferAt(f, g, w, Validator)
  BY <1>3, <1>4, <1>5 DEF DifferAt
<1>7. f[w] = Total(m[v][w], S) /\ g[w] = Total(r[w], S)
  OBVIOUS
<1>8. /\ Moves(m, v, S) = Total(f, Validator)
      /\ Moves(Redelegated(m, v, w, k, x), v, S) = Total(g, Validator)
  BY <1>2 DEF Moves
<1> HIDE DEF f, g
<1>9. Total(g, Validator) = Total(f, Validator) - f[w] + g[w] /\ Total(f, Validator) \in Nat
  BY <1>6, LeftFinite, TotalMoves
<1> QED BY <1>4, <1>5, <1>7, <1>8, <1>9

(* What left in the last a blocks has, a block later, left in the last      *)
(* a + 1: at the end of a block none of it is lost.                         *)
LEMMA RecentShifts ==
  ASSUME NEW a \in 1..(UnbondingBlocks - 1),
         NEW u \in [Validator -> Schedule], NEW m \in [Validator -> [Validator -> Schedule]],
         NEW v \in Validator
  PROVE  Reach([w \in Validator |-> Shifted(u[w])],
               [w \in Validator |-> [z \in Validator |-> Shifted(m[w][z])]], v, Recent(a + 1))
           = Reach(u, m, v, Recent(a))
<1> DEFINE n == Term - (a + 1)
<1>1. /\ Term \in Nat /\ n \in 0..(Term - 1)
      /\ Recent(a + 1) = {k \in Left : k > n} /\ Recent(a) = {k \in Left : k > n + 1}
  BY StakingAssumption DEF Recent, Term, Left
<1> HIDE DEF n
<1>2. \A f \in Schedule : Total(Shifted(f), Recent(a + 1)) = Total(f, Recent(a))
  BY <1>1, ShiftedTotal
<1>3. Total(Shifted(u[v]), Recent(a + 1)) = Total(u[v], Recent(a))
  BY <1>2
<1>4. \A z \in Validator : Total(Shifted(m[v][z]), Recent(a + 1)) = Total(m[v][z], Recent(a))
  BY <1>2
<1>5. Moves([w \in Validator |-> [z \in Validator |-> Shifted(m[w][z])]], v, Recent(a + 1))
        = Moves(m, v, Recent(a))
  BY <1>4 DEF Moves
<1> QED BY <1>3, <1>5 DEF Reach

(* Stake that leaves now left after a set of any age that can still be      *)
(* slashed for was made.                                                    *)
LEMMA RecentBlocks ==
  ASSUME NEW a \in 1..(UnbondingBlocks + 1)
  PROVE  Recent(a) \in Slots /\ Term \in Recent(a)
BY LeftFinite, StakingAssumption DEF Recent, Left, Term, Slots


(* Stake that moves goes where it is counted, or was not voting.            *)
LEMMA MessagesKeepCover ==
  ASSUME StakingTypeOK, NEW v \in Validator, NEW w \in Validator, NEW k \in Left,
         NEW x \in Nat, StakeMoves(v, w, k, x), NEW z \in Validator,
         Covered(power, tokens, unbonding, moved, z, Recent(age), slashed),
         power' = power, slashed' = slashed, age' = age
  PROVE  Covered(power', tokens', unbonding', moved', z, Recent(age'), slashed')
<1> DEFINE S == Recent(age)
           R == Reach(unbonding, moved, z, S)
           R1 == Reach(unbonding', moved', z, S)
<1>1. /\ tokens \in [Validator -> Nat] /\ unbonding \in [Validator -> Schedule]
      /\ moved \in [Validator -> [Validator -> Schedule]]
      /\ power[z] \in Nat /\ slashed[z] \in Nat /\ tokens[z] \in Nat /\ tokens[v] \in Nat
      /\ S \in Slots /\ Term \in S
  BY StakeTypes, RecentBlocks
<1>2. StakeType'
  BY StakeMovesType
<1>3. /\ R \in Nat /\ R1 \in Nat /\ Total(unbonding[z], S) \in Nat /\ Moves(moved, z, S) \in Nat
      /\ R = Total(unbonding[z], S) + Moves(moved, z, S)
      /\ R1 = Total(unbonding'[z], S) + Moves(moved', z, S)
      /\ tokens'[z] \in Nat
  <2>1. R \in Nat /\ Total(unbonding[z], S) \in Nat /\ Moves(moved, z, S) \in Nat
    BY <1>1, ReachNat
  <2>2. R1 \in Nat /\ tokens'[z] \in Nat
    BY <1>1, <1>2, ReachNat DEF StakeType
  <2> QED BY <2>1, <2>2 DEF Reach
<1>4. power[z] <= tokens[z] + R + slashed[z]
  BY DEF Covered
<1>5. SUFFICES power[z] <= tokens'[z] + R1 + slashed[z]
  BY DEF Covered
<1> HIDE DEF S, R, R1
<1>6. CASE Delegate(v, x)
  <2>1. unbonding' = unbonding /\ moved' = moved /\ tokens'[z] >= tokens[z]
    BY <1>1, <1>6 DEF Delegate
  <2> QED BY <1>1, <1>3, <1>4, <2>1
<1>7. CASE Undelegate(v, x)
  <2>1. /\ moved' = moved
        /\ unbonding' = WithEntry(unbonding, v, Term, unbonding[v][Term] + x)
        /\ tokens'[z] = IF z = v THEN tokens[z] - x ELSE tokens[z]
    BY <1>1, <1>7 DEF Undelegate, WithEntry
  <2>2. unbonding[v][Term] \in Nat /\ unbonding[v][Term] + x \in Nat
    BY <1>1, LeftFinite DEF Schedule
  <2>3. Total(unbonding'[z], S) = Total(unbonding[z], S) + (IF z = v THEN x ELSE 0)
    <3>1. Total(unbonding'[z], S) =
            IF z = v /\ Term \in S
            THEN Total(unbonding[z], S) - unbonding[z][Term] + (unbonding[v][Term] + x)
            ELSE Total(unbonding[z], S)
      <4>1. Term \in Left
        BY LeftFinite
      <4>2. \A n \in Nat :
              Total(WithEntry(unbonding, v, Term, n)[z], S) =
                IF z = v /\ Term \in S THEN Total(unbonding[z], S) - unbonding[z][Term] + n
                                       ELSE Total(unbonding[z], S)
        <5>1. unbonding \in [Validator -> Schedule] /\ S \in Slots
          BY <1>1
        <5> QED BY ONLY <4>1, <5>1, EntryTotal, v \in Validator, z \in Validator
      <4> QED BY <2>1, <2>2, <4>2
    <3> QED BY <1>1, <1>3, <2>2, <3>1
  <2> QED BY <1>1, <1>3, <1>4, <2>1, <2>3
<1>8. CASE BeginRedelegate(v, w, x)
  <2>1. /\ v # w /\ tokens[v] >= x /\ unbonding' = unbonding
        /\ tokens' = [tokens EXCEPT ![v] = @ - x, ![w] = @ + x]
        /\ moved' = IF Unbonded(v) THEN moved ELSE [moved EXCEPT ![v][w][TermOf(v)] = @ + x]
    BY <1>8 DEF BeginRedelegate
  <2>2. CASE z # v
    <3>1. tokens'[z] >= tokens[z]
      BY <1>1, <2>1, <2>2
    <3>2. moved'[z] = moved[z]
      BY <1>1, <2>1, <2>2
    <3>3. Moves(moved', z, S) = Moves(moved, z, S)
      BY <3>2 DEF Moves
    <3>4. Total(unbonding'[z], S) = Total(unbonding[z], S)
      BY <2>1
    <3> QED BY ONLY <1>1, <1>3, <1>4, <3>1, <3>3, <3>4
  <2>3. CASE z = v /\ ~Bonded(v)
    <3>1. power[z] = 0
      BY <1>1, <2>3 DEF Bonded
    <3> QED BY <1>1, <1>3, <3>1
  <2>4. CASE z = v /\ Bonded(v)
    <3>1. ~Unbonded(v) /\ TermOf(v) = Term
      BY <1>1, <2>4 DEF Bonded, Unbonded, TermOf
    <3>2. moved' = Redelegated(moved, v, w, Term, x)
      BY <2>1, <3>1 DEF Redelegated
    <3>3. Moves(moved', v, S) = Moves(moved, v, S) + x
      <4>1. Moves(moved', v, S) = Moves(moved, v, S) + (IF Term \in S THEN x ELSE 0)
        <5>1. Moves(Redelegated(moved, v, w, Term, x), v, S)
                = Moves(moved, v, S) + (IF Term \in S THEN x ELSE 0)
          <6>1. Term \in Left
            BY LeftFinite
          <6>2. moved \in [Validator -> [Validator -> Schedule]] /\ S \in Slots
            BY <1>1
          <6> QED BY ONLY <6>1, <6>2, MovesGrow, v \in Validator, w \in Validator, x \in Nat
        <5> QED BY ONLY <3>2, <5>1
      <4> QED BY <1>1, <4>1
    <3>4. tokens'[v] = tokens[v] - x
      BY <1>1, <2>1
    <3>5. Total(unbonding'[z], S) = Total(unbonding[z], S)
      BY <2>1
    <3> QED BY ONLY <1>1, <1>3, <1>4, <2>4, <3>3, <3>4, <3>5, x \in Nat
  <2> QED BY <2>2, <2>3, <2>4
<1>9. CASE CancelUnbondingDelegation(v, k, x)
  <2>1. /\ moved' = moved /\ unbonding[v][k] >= x
        /\ unbonding' = WithEntry(unbonding, v, k, unbonding[v][k] - x)
        /\ tokens'[z] = IF z = v THEN tokens[z] + x ELSE tokens[z]
    BY <1>1, <1>9 DEF CancelUnbondingDelegation, WithEntry
  <2>2. unbonding[v][k] \in Nat /\ unbonding[v][k] - x \in Nat
    BY <1>1, <2>1, LeftFinite DEF Schedule
  <2>3. Total(unbonding'[z], S) >= Total(unbonding[z], S) - (IF z = v THEN x ELSE 0)
    <3>1. Total(unbonding'[z], S) =
            IF z = v /\ k \in S
            THEN Total(unbonding[z], S) - unbonding[z][k] + (unbonding[v][k] - x)
            ELSE Total(unbonding[z], S)
      BY <1>1, <2>1, <2>2, EntryTotal
    <3> QED BY <1>3, <2>2, <3>1
  <2>4. Total(unbonding'[z], S) \in Nat
    BY <1>1, <1>2, ReachNat DEF StakeType
  <2> QED BY <1>1, <1>3, <1>4, <2>1, <2>3, <2>4
<1> QED BY <1>6, <1>7, <1>8, <1>9 DEF StakeMoves

(* What a slash takes from stake that is counted, it counts as slashed.     *)
LEMMA SlashKeepsCover ==
  ASSUME StakingTypeOK, NEW v \in Validator, NEW w \in Validator, NEW x \in Nat,
         NEW u \in Cuts, NEW r \in Cuts, SlashWithInfractionReason(v, x, u, w, r),
         NEW z \in Validator,
         Covered(power, tokens, unbonding, moved, z, Recent(age), slashed),
         power' = power
  PROVE  Covered(power', tokens', unbonding', moved', z, Recent(age'), slashed')
<1> DEFINE S == Recent(age)
           ua == u.amount
           ra == r.amount
           k == u.left
           since == IF k \in S THEN ua ELSE 0
<1>1. /\ unbonding \in [Validator -> Schedule]
      /\ moved \in [Validator -> [Validator -> Schedule]]
      /\ power[z] \in Nat /\ slashed[z] \in Nat /\ tokens[z] \in Nat
      /\ S \in Slots
  BY StakeTypes, RecentBlocks
<1>2. Total(unbonding[z], S) \in Nat /\ Moves(moved, z, S) \in Nat
  BY <1>1, ReachNat
<1>3. power[z] <= tokens[z] + (Total(unbonding[z], S) + Moves(moved, z, S)) + slashed[z]
  BY DEF Covered, Reach
<1>4. /\ k \in Left /\ ua \in Nat /\ ra \in Nat
      /\ unbonding[v][k] >= ua /\ moved' = moved /\ age' = age
      /\ unbonding' = [unbonding EXCEPT ![v][k] = @ - ua]
  BY SlashEffect
<1>5. LeftSince(k) <=> k \in S
  BY <1>4 DEF LeftSince, Recent
<1>6. /\ tokens'[z] = IF z = v THEN tokens[z] - x
                       ELSE IF z = w THEN tokens[z] - ra ELSE tokens[z]
      /\ slashed'[z] = IF z = v THEN slashed[z] + x + since
                        ELSE IF z = w THEN slashed[z] + ra ELSE slashed[z]
  BY <1>5, SlashedStake
<1>7. unbonding[v][k] \in Nat
  BY <1>1, <1>4 DEF Schedule
<1> HIDE DEF S, ua, ra, k
<1>8. Total(unbonding'[z], S) = Total(unbonding[z], S) - (IF z = v THEN since ELSE 0)
  <2>1. \A n \in Nat :
          Total(WithEntry(unbonding, v, k, n)[z], S) =
            IF z = v /\ k \in S THEN Total(unbonding[z], S) - unbonding[z][k] + n
                                ELSE Total(unbonding[z], S)
    BY ONLY <1>1, <1>4, EntryTotal, v \in Validator, z \in Validator
  <2> DEFINE m == unbonding[v][k] - ua
  <2>2. m \in Nat /\ unbonding' = WithEntry(unbonding, v, k, m)
    BY <1>4, <1>7 DEF WithEntry
  <2> HIDE DEF m
  <2>3. Total(unbonding'[z], S) =
          IF z = v /\ k \in S THEN Total(unbonding[z], S) - unbonding[z][k] + m
                              ELSE Total(unbonding[z], S)
    BY ONLY <2>1, <2>2
  <2>4. CASE z = v /\ k \in S
    <3>1. Total(unbonding'[z], S) = Total(unbonding[z], S) - unbonding[v][k] + m
      BY ONLY <2>3, <2>4
    <3>2. m = unbonding[v][k] - ua
      BY DEF m
    <3> QED BY ONLY <1>2, <1>4, <1>7, <2>4, <3>1, <3>2
  <2>5. CASE ~(z = v /\ k \in S)
    BY ONLY <1>2, <2>3, <2>5
  <2> QED BY <2>4, <2>5
<1>9. since \in Nat
  BY <1>4
<1> HIDE DEF since
<1>10. power[z] <= tokens'[z] + (Total(unbonding'[z], S) + Moves(moved, z, S)) + slashed'[z]
  <2>1. CASE z = v
    BY ONLY <1>1, <1>2, <1>3, <1>6, <1>8, <1>9, <2>1, x \in Nat
  <2>2. CASE z # v
    BY ONLY <1>1, <1>2, <1>3, <1>4, <1>6, <1>8, <2>2
  <2> QED BY <2>1, <2>2
<1>11. Recent(age') = S /\ moved' = moved
  BY <1>4 DEF S
<1> QED BY <1>10, <1>11 DEF Covered, Reach

(* A new set votes with the stake there is; an old one keeps what is left.  *)
LEMMA BlockKeepsCover ==
  ASSUME StakingTypeOK, VotingStakeTraced, BlockValidatorUpdates
  PROVE  VotingStakeTraced'
<1>1. /\ unbonding' = [v \in Validator |-> Shifted(unbonding[v])]
      /\ moved' = [v \in Validator |-> [w \in Validator |-> Shifted(moved[v][w])]]
      /\ tokens' = tokens
  BY DEF BlockValidatorUpdates
<1>2. /\ unbonding \in [Validator -> Schedule]
      /\ moved \in [Validator -> [Validator -> Schedule]]
      /\ \A z \in Validator : tokens[z] \in Nat
  BY StakeTypes
<1>3. StakeType'
  BY BlockStakeType
<1>4. CASE ShouldExecuteBatch
  <2>1. PICK S \in TopValidators : ApplyValidatorSet(S)
    BY <1>4 DEF BlockValidatorUpdates
  <2>2. ASSUME NEW z \in Validator
        PROVE  Covered(power', tokens', unbonding', moved', z, Recent(age'), slashed')
    <3>1. power'[z] \in {0, tokens[z]} /\ slashed'[z] = 0 /\ age' = 1 /\ tokens'[z] = tokens[z]
      BY <1>1, <2>1 DEF ApplyValidatorSet, PowerUpdates
    <3>2. Recent(age') \in Slots
      BY DEF Recent, Slots
    <3>3. Reach(unbonding', moved', z, Recent(age')) \in Nat
      BY <1>3, <3>2, ReachNat DEF StakeType
    <3> QED BY <1>2, <3>1, <3>3 DEF Covered
  <2> QED BY <2>2, TracedMeans
<1>5. CASE ~ShouldExecuteBatch
  <2>1. /\ age' = Min({age + 1, UnbondingBlocks + 1})
        /\ power' = power /\ slashed' = slashed
    BY <1>5 DEF BlockValidatorUpdates, KeepValidatorSet
  <2>2. SUFFICES ASSUME age' <= UnbondingBlocks, NEW z \in Validator
                 PROVE  Covered(power', tokens', unbonding', moved', z, Recent(age'), slashed')
    BY TracedMeans
  <2>3. age \in 1..(UnbondingBlocks - 1) /\ age' = age + 1
    <3>1. age \in 1..(UnbondingBlocks + 1) /\ UnbondingBlocks \in Nat
      BY StakeTypes, StakingAssumption
    <3> QED BY <2>1, <2>2, <3>1, MinOfPair
  <2>4. Covered(power, tokens, unbonding, moved, z, Recent(age), slashed)
    <3>1. age <= UnbondingBlocks
      BY <2>3, StakingAssumption
    <3> QED BY <3>1, TracedMeans
  <2>5. Reach(unbonding', moved', z, Recent(age')) = Reach(unbonding, moved, z, Recent(age))
    BY <1>1, <1>2, <2>3, RecentShifts
  <2> QED BY <1>1, <2>1, <2>4, <2>5 DEF Covered
<1> QED BY <1>4, <1>5

(* At genesis the power is the stake.                                       *)
LEMMA TracedInit == Init => VotingStakeTraced
<1> SUFFICES ASSUME Init, NEW z \in Validator
             PROVE  Covered(power, tokens, unbonding, moved, z, Recent(age), slashed)
  BY TracedMeans
<1>1. /\ unbonding \in [Validator -> Schedule]
      /\ moved \in [Validator -> [Validator -> Schedule]]
  BY StakingTypeInit, StakeTypes
<1>2. Recent(age) \in Slots
  BY DEF Recent, Slots
<1>3. Reach(unbonding, moved, z, Recent(age)) \in Nat
  BY <1>1, <1>2, ReachNat
<1>4. power[z] = 0 /\ tokens[z] = 0 /\ slashed[z] = 0
  BY DEF Init
<1> QED BY <1>3, <1>4 DEF Covered

(* Every step keeps the voting power covered.                               *)
LEMMA TracedStep == StakingTypeOK /\ VotingStakeTraced /\ [Next]_vars => VotingStakeTraced'
<1> SUFFICES ASSUME StakingTypeOK, VotingStakeTraced, [Next]_vars PROVE VotingStakeTraced'
  OBVIOUS
<1>1. CASE UNCHANGED <<power, tokens, unbonding, moved, age, slashed>>
  BY <1>1, TracedMeans DEF Covered, Reach, Moves, Recent
<1>2. CASE StakingTx
  <2>1. PICK v \in Validator, w \in Validator, k \in Left : StakeMoves(v, w, k, 1)
    BY <1>2, LeftFinite DEF StakingTx, StakeMoves
  <2>2. power' = power /\ slashed' = slashed /\ age' = age
    BY <1>2 DEF StakingTx, history
  <2>3. SUFFICES ASSUME age <= UnbondingBlocks, NEW z \in Validator
                 PROVE  Covered(power', tokens', unbonding', moved', z, Recent(age'), slashed')
    BY <2>2, TracedMeans
  <2>4. Covered(power, tokens, unbonding, moved, z, Recent(age), slashed)
    BY <2>3, TracedMeans
  <2> QED BY <2>1, <2>2, <2>4, MessagesKeepCover
<1>3. CASE Slash
  <2>1. PICK v \in Validator, w \in Validator, x \in {0, 1}, u \in Cuts, r \in Cuts :
          SlashWithInfractionReason(v, x, u, w, r)
    BY <1>3 DEF Slash
  <2>2. power' = power /\ age' = age
    BY <1>3, <2>1 DEF Slash, SlashWithInfractionReason
  <2>3. SUFFICES ASSUME age <= UnbondingBlocks, NEW z \in Validator
                 PROVE  Covered(power', tokens', unbonding', moved', z, Recent(age'), slashed')
    BY <2>2, TracedMeans
  <2>4. Covered(power, tokens, unbonding, moved, z, Recent(age), slashed)
    BY <2>3, TracedMeans
  <2>5. x \in Nat
    OBVIOUS
  <2> QED BY <2>1, <2>2, <2>4, <2>5, SlashKeepsCover
<1>4. CASE BlockValidatorUpdates
  BY <1>4, BlockKeepsCover
<1>5. CASE UpdateEpochParams
  BY <1>1, <1>5 DEF UpdateEpochParams, stake
<1>6. CASE JailOrUnjail
  BY <1>1, <1>6 DEF JailOrUnjail, stake, history
<1>7. CASE UNCHANGED vars
  BY <1>1, <1>7 DEF vars, stake, history
<1> QED BY <1>2, <1>3, <1>4, <1>5, <1>6, <1>7 DEF Next

(* While the set is no older than the unbonding time, the stake each        *)
(* validator votes with is still with it, on the records a slash of it goes *)
(* by, or was slashed, for every length of an epoch (VotingStakeTraced).    *)
THEOREM VotingStakeAlwaysTraced == Spec => []VotingStakeTraced
BY StakingTypeInit, StakingTypeStep, TracedInit, TracedStep, PTL DEF Spec
=============================================================================
