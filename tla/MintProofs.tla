----------------------------- MODULE MintProofs -----------------------------
(***************************************************************************)
(* Proofs about the rewards of x/mint: what the blocks of a year pay lies  *)
(* between the bounds that the parameters set, but for what the decimals   *)
(* round off, for every precision, supply and course of the bonded ratio;  *)
(* and rewards are paid out of what was put in the pool.                   *)
(*                                                                         *)
(* The rate a block computes is a bound of the year's tokens divided by    *)
(* the supply, or lies between the two.  Multiplied by the supply again,   *)
(* it misses the tokens by less than one unit in the last place for each   *)
(* coin of the supply; the block's share of it misses less than one token. *)
(* The sums over a year follow block by block.                             *)
(***************************************************************************)
EXTENDS Mint, SumProofs

-----------------------------------------------------------------------------
(* Quotients.                                                               *)
LEMMA Quotient ==
  ASSUME NEW n \in Nat, NEW d \in Nat \ {0}
  PROVE  /\ n \div d \in Nat
         /\ n % d \in 0..(d - 1)
         /\ n = d * (n \div d) + (n % d)
BY SMT

(* Rounding down misses less than one unit.                                 *)
LEMMA TruncatedNat ==
  ASSUME NEW n \in Nat, NEW d \in Nat \ {0}
  PROVE  /\ Truncated(n, d) \in Nat
         /\ Truncated(n, d) * d <= n
         /\ n < Truncated(n, d) * d + d
<1> DEFINE q == n \div d
           r == n % d
<1>1. q \in Nat /\ r \in 0..(d - 1) /\ n = d * q + r
  BY Quotient
<1>2. Truncated(n, d) = q
  BY DEF Truncated, Size
<1> HIDE DEF q, r
<1>3. d * q = q * d /\ d * q \in Nat
  BY <1>1
<1> QED BY <1>1, <1>2, <1>3

(* A truncated quotient is an integer, and has the sign of the numbers.     *)
LEMMA TruncatedInt ==
  ASSUME NEW n \in Int, NEW d \in Int \ {0}
  PROVE  /\ Truncated(n, d) \in Int
         /\ n <= 0 /\ d > 0 => Truncated(n, d) <= 0
<1> DEFINE q == Size(n) \div Size(d)
<1>1. Size(n) \in Nat /\ Size(d) \in Nat \ {0}
  BY DEF Size
<1>2. q \in Nat
  <2> DEFINE u == Size(n)
             v == Size(d)
  <2>1. u \in Nat /\ v \in Nat \ {0}
    BY <1>1
  <2> HIDE DEF u, v
  <2>2. u \div v \in Nat
    BY <2>1, Quotient
  <2> QED BY <2>2 DEF u, v
<1>3. n = 0 => q = 0
  <2> DEFINE v == Size(d)
  <2>1. v \in Nat \ {0}
    BY <1>1
  <2> HIDE DEF v
  <2>2. 0 \div v = 0
    BY <2>1
  <2> QED BY <2>2 DEF Size, v
<1>4. Truncated(n, d) = IF n >= 0 <=> d > 0 THEN q ELSE -q
  BY DEF Truncated
<1> HIDE DEF q
<1> QED BY <1>2, <1>3, <1>4

(* Rounding moves a number by less than one unit.                           *)
LEMMA ChoppedNear ==
  ASSUME NEW n \in Nat
  PROVE  /\ Chopped(n) \in Nat
         /\ Chopped(n) * Precision <= n + (Precision - 1)
         /\ n <= Chopped(n) * Precision + (Precision - 1)
<1> DEFINE P == Precision
           q == n \div P
           r == n % P
           c == Chopped(n)
<1>1. P \in Nat \ {0}
  BY MintAssumption
<1>2. q \in Nat /\ r \in 0..(P - 1) /\ n = P * q + r
  BY <1>1, Quotient
<1>3. c = q \/ (c = q + 1 /\ ~(2 * r < P))
  BY DEF Chopped, ChoppedNat
<1> HIDE DEF q, r, c, P
<1>4. P * q = q * P /\ q * P \in Nat /\ (q + 1) * P = q * P + P
  BY <1>1, <1>2
<1>5. CASE c = q
  BY <1>1, <1>2, <1>4, <1>5 DEF P, c
<1>6. CASE c = q + 1 /\ ~(2 * r < P)
  <2>1. r >= 1
    BY <1>1, <1>2, <1>6
  <2>2. c * P = q * P + P
    BY <1>4, <1>6
  <2> QED BY <1>1, <1>2, <1>4, <1>6, <2>1, <2>2 DEF P, c
<1> QED BY <1>3, <1>5, <1>6

(* Factors that can be divided out.                                         *)
LEMMA CancelFactor ==
  ASSUME NEW a \in Int, NEW b \in Int, NEW d \in Nat \ {0}, a * d <= b * d
  PROVE  a <= b
BY SMT

(* Multiplying by a natural number keeps the order.                         *)
LEMMA TimesMonotone ==
  ASSUME NEW a \in Int, NEW b \in Int, NEW d \in Nat, a <= b
  PROVE  a * d <= b * d
BY SMT

(* A decimal chopped is an integer, and does not change its sign.           *)
LEMMA ChoppedInt ==
  ASSUME NEW n \in Int
  PROVE  Chopped(n) \in Int /\ (n <= 0 => Chopped(n) <= 0)
<1>1. CASE n >= 0
  <2>1. Chopped(n) \in Nat /\ Chopped(n) * Precision <= n + (Precision - 1)
    BY <1>1, ChoppedNear
  <2>2. n = 0 => Chopped(n) <= 0
    <3> DEFINE c == Chopped(n)
               P == Precision
    <3>1. P \in Nat \ {0} /\ c \in Nat /\ c * P <= n + (P - 1)
      BY <2>1, MintAssumption
    <3> HIDE DEF c, P
    <3>2. c >= 1 => P <= c * P
      <4>1. 1 * P = P
        BY <3>1
      <4> QED BY <3>1, <4>1, TimesMonotone
    <3>3. n = 0 => c <= 0
      BY <3>1, <3>2
    <3> QED BY <3>3 DEF c
  <2> QED BY <1>1, <2>1, <2>2
<1>2. CASE n < 0
  <2>1. -n \in Nat /\ -n >= 0
    BY <1>2
  <2>2. ChoppedNat(-n) \in Nat
    <3>1. Chopped(-n) = ChoppedNat(-n)
      BY <2>1 DEF Chopped
    <3> QED BY <2>1, <3>1, ChoppedNear
  <2> QED BY <1>2, <2>2 DEF Chopped
<1> QED BY <1>1, <1>2

-----------------------------------------------------------------------------
(* The rate at which a supply earns so many tokens a year.                  *)
RateOf(tokens) == Quo(DecFromInt(tokens), DecFromInt(supply))

(* That rate of the supply, in units of the last place, is the tokens, but  *)
(* for less than one unit per coin of the supply.                           *)
LEMMA RateNear ==
  ASSUME NEW m \in Nat, supply \in Nat \ {0}
  PROVE  /\ RateOf(m) \in Nat
         /\ RateOf(m) * supply <= m * Precision + supply
         /\ m * Precision - supply <= RateOf(m) * supply
<1> DEFINE P == Precision
           s == supply
           n == m * P * P * P
           d == s * P
           t == Truncated(n, d)
           c == Chopped(t)
<1>1. P \in Nat \ {0} /\ s \in Nat \ {0} /\ RateOf(m) = c
  BY MintAssumption DEF RateOf, Quo, DecFromInt
<1> HIDE DEF P, s
<1>2. n \in Nat /\ d \in Nat \ {0}
  <2>1. m * P \in Nat
    BY <1>1
  <2>2. m * P * P \in Nat
    BY <1>1, <2>1
  <2>3. n \in Nat
    BY <1>1, <2>2
  <2>4. d \in Nat \ {0}
    BY <1>1, SMT
  <2> QED BY <2>3, <2>4
<1>3. t \in Nat /\ t * d <= n /\ n < t * d + d
  <2> HIDE DEF n, d
  <2> QED BY <1>2, TruncatedNat
<1>4. c \in Nat /\ c * P <= t + (P - 1) /\ t <= c * P + (P - 1)
  BY <1>3, ChoppedNear DEF P
<1> HIDE DEF t, c
<1> DEFINE a == m * P
           u == t * s
           e == c * s
<1>5. a \in Nat /\ u \in Nat /\ e \in Nat
  BY <1>1, <1>3, <1>4
<1>6. n = (a * P) * P /\ t * d = u * P /\ d = s * P
  <2>1. t * (s * P) = (t * s) * P
    BY <1>1, <1>3
  <2> QED BY <2>1
(* The two divisions, with Precision divided out of the first.              *)
<1>7. u <= a * P /\ a * P < u + s
  <2>1. u * P <= (a * P) * P /\ (a * P) * P < (u + s) * P
    <3>1. (u + s) * P = u * P + s * P
      BY <1>1, <1>5
    <3> HIDE DEF n, d, a, u
    <3> QED BY <1>3, <1>6, <3>1
  <2>2. a * P \in Nat
    BY <1>1, <1>5
  <2> HIDE DEF a, u
  <2>3. u <= a * P
    BY <1>1, <1>5, <2>1, <2>2, CancelFactor
  <2>4. ~(u + s <= a * P)
    BY <1>1, <1>5, <2>1, <2>2, TimesMonotone
  <2> QED BY <1>1, <1>5, <2>2, <2>3, <2>4
<1>8. e * P <= u + (P - 1) * s /\ u <= e * P + (P - 1) * s
  <2>1. (c * P) * s = e * P /\ (c * P) * s \in Nat
    BY <1>1, <1>4
  <2>2. (t + (P - 1)) * s = u + (P - 1) * s
    BY <1>1, <1>3
  <2>3. (c * P) * s <= (t + (P - 1)) * s
    <3>1. c * P \in Int /\ t + (P - 1) \in Int
      BY <1>1, <1>3, <1>4
    <3> QED BY <1>1, <1>4, <3>1, TimesMonotone
  <2>4. (c * P + (P - 1)) * s = (c * P) * s + (P - 1) * s
    BY <1>1, <1>4
  <2>5. t * s <= (c * P + (P - 1)) * s
    <3>1. c * P + (P - 1) \in Int
      BY <1>1, <1>4
    <3> QED BY <1>1, <1>3, <1>4, <3>1, TimesMonotone
  <2>6. (P - 1) * s \in Nat
    BY <1>1
  <2> HIDE DEF e
  <2> QED BY <1>5, <2>1, <2>2, <2>3, <2>4, <2>5, <2>6
<1>9. e <= a + s
  <2>1. (P - 1) * s = P * s - s /\ P * s = s * P /\ s * P \in Nat
    BY <1>1
  <2>2. (a + s) * P = a * P + s * P /\ a * P \in Nat
    BY <1>1, <1>5
  <2> HIDE DEF a, e, u
  <2>3. e * P <= (a + s) * P
    BY <1>1, <1>5, <1>7, <1>8, <2>1, <2>2
  <2> QED BY <1>1, <1>5, <2>3, CancelFactor
<1>10. a - s <= e
  <2>1. (P - 1) * s = P * s - s /\ P * s = s * P /\ s * P \in Nat
    BY <1>1
  <2>2. (a - s) * P = a * P - s * P /\ a * P \in Nat
    BY <1>1, <1>5
  <2> HIDE DEF a, e, u
  <2>3. (a - s) * P <= e * P
    BY <1>1, <1>5, <1>7, <1>8, <2>1, <2>2
  <2>4. a - s \in Int
    BY <1>1, <1>5
  <2> QED BY <1>1, <1>5, <2>3, <2>4, CancelFactor
<1> QED BY <1>1, <1>4, <1>9, <1>10 DEF P, s

(* A rate is an integer, and below nought only for tokens below nought.     *)
LEMMA RateSign ==
  ASSUME NEW m \in Int, supply \in Nat \ {0}
  PROVE  RateOf(m) \in Int /\ (m <= 0 => RateOf(m) <= 0)
<1> DEFINE P == Precision
           n == m * P * P * P
           d == supply * P
           t == Truncated(n, d)
<1>1. P \in Nat \ {0} /\ RateOf(m) = Chopped(t)
  BY MintAssumption DEF RateOf, Quo, DecFromInt
<1> HIDE DEF P
<1>2. \A i \in Int : i * P \in Int /\ (i <= 0 => i * P <= 0)
  BY <1>1
<1>3. n \in Int /\ (m <= 0 => n <= 0)
  BY <1>2
<1>4. d \in Int \ {0} /\ d > 0
  BY <1>1, SMT
<1> HIDE DEF n, d
<1>5. t \in Int /\ (m <= 0 => t <= 0)
  BY <1>3, <1>4, TruncatedInt
<1> HIDE DEF t
<1> QED BY <1>1, <1>5, ChoppedInt

(* A clipped number is at least the lower bound, and above the upper one    *)
(* only if it is the lower.                                                 *)
LEMMA ClippedBetween ==
  ASSUME NEW i \in Int, NEW lo \in Int, NEW hi \in Int
  PROVE  /\ Clipped(i, lo, hi) \in Int
         /\ lo <= Clipped(i, lo, hi)
         /\ Clipped(i, lo, hi) = lo \/ Clipped(i, lo, hi) <= hi
<1>1. Min({i, hi}) = IF i <= hi THEN i ELSE hi
  BY DEF Min
<1>2. \A j \in Int : Max({j, lo}) = IF lo <= j THEN j ELSE lo
  BY DEF Max
<1> QED BY <1>1, <1>2 DEF Clipped

(* The blocks of a year, as the number that divides by them.                *)
LEMMA BlocksFit ==
  ASSUME NEW p \in MintParams, ValidMintParams(p)
  PROVE  /\ p.BlocksPerYear \in Nat \ {0} /\ AsInt64(p.BlocksPerYear) \in Int \ {0}
         /\ p.BlocksPerYear <= MaxInt64 => AsInt64(p.BlocksPerYear) = p.BlocksPerYear
<1>1. /\ p.BlocksPerYear \in 0..(2 * MaxInt64 + 1) /\ p.BlocksPerYear > 0
      /\ MaxInt64 \in Nat
  BY MintAssumption, MintParamsAssumption DEF ValidMintParams
<1> QED BY <1>1 DEF AsInt64

(* The rate a block computes gives the supply between the least and the     *)
(* most tokens of a year, but for one unit per coin.                        *)
LEMMA NextRateBetween ==
  ASSUME MintTypeOK, NEW r \in BondedRatio
  PROVE  /\ NextInflationRate(r) \in Int
         /\ params.MaxTokenPerYear >= 0 =>
              NextInflationRate(r) * supply <= params.MaxTokenPerYear * Precision + supply
         /\ params.MinTokenPerYear >= 0 /\ supply > 0 =>
              params.MinTokenPerYear * Precision - supply <= NextInflationRate(r) * supply
<1> DEFINE P == Precision
           lo == params.MinTokenPerYear
           hi == params.MaxTokenPerYear
           rate == NextInflationRate(r)
<1>1. /\ P \in Nat \ {0} /\ lo \in Int /\ hi \in Int /\ lo <= hi
      /\ supply \in Nat /\ inflation \in Int
  <2>1. params \in MintParams /\ ValidMintParams(params)
    BY DEF MintTypeOK
  <2>2. lo \in Int /\ hi \in Int /\ hi >= lo
    BY <2>1, MintParamsAssumption DEF ValidMintParams
  <2> QED BY <2>2, MintAssumption DEF MintTypeOK
<1>2. CASE supply = 0
  <2>1. rate = inflation
    BY <1>2 DEF NextInflationRate
  <2>2. rate * supply = 0 /\ (hi >= 0 => hi * P >= 0) /\ hi * P \in Int
    BY <1>1, <1>2, <2>1
  <2> QED BY <1>1, <1>2, <2>1, <2>2
<1>3. CASE supply # 0
  <2> DEFINE perYear == Mul(DecFromInt(1) - Quo(r, params.GoalBonded), params.InflationRateChange)
             change == Quo(perYear, DecFromInt(AsInt64(params.BlocksPerYear)))
  <2>1. rate = Clipped(inflation + change, RateOf(lo), RateOf(hi))
    BY <1>3 DEF NextInflationRate, RateOf
  <2>2. change \in Int
    <3>1. /\ params.GoalBonded \in Nat \ {0} /\ params.InflationRateChange \in Int
          /\ AsInt64(params.BlocksPerYear) \in Int \ {0} /\ r \in Int
      <4>1. params \in MintParams /\ ValidMintParams(params)
        BY DEF MintTypeOK
      <4>2. params.GoalBonded \in 1..Precision /\ params.InflationRateChange \in 0..Precision
        BY <4>1 DEF ValidMintParams
      <4>3. AsInt64(params.BlocksPerYear) \in Int \ {0}
        BY <4>1, BlocksFit
      <4> QED BY <4>2, <4>3, MintAssumption
    <3>2. \A a \in Int : \A b \in Int \ {0} : Quo(a, b) \in Int
      <4>1. ASSUME NEW a \in Int, NEW b \in Int \ {0} PROVE Quo(a, b) \in Int
        <5>1. a * P * P \in Int
          <6>1. a * P \in Int
            BY <1>1
          <6> QED BY <1>1, <6>1
        <5> QED BY <5>1, TruncatedInt, ChoppedInt DEF Quo
      <4> QED BY <4>1
    <3>3. DecFromInt(1) \in Int /\ DecFromInt(AsInt64(params.BlocksPerYear)) \in Int \ {0}
      BY <1>1, <3>1, SMT DEF DecFromInt
    <3>4. perYear \in Int
      <4>1. Quo(r, params.GoalBonded) \in Int
        BY <3>1, <3>2
      <4>2. (DecFromInt(1) - Quo(r, params.GoalBonded)) * params.InflationRateChange \in Int
        BY <3>1, <3>3, <4>1
      <4> QED BY <4>2, ChoppedInt DEF Mul
    <3> HIDE DEF perYear
    <3> QED BY <3>2, <3>3, <3>4
  <2> HIDE DEF change, perYear
  <2>3. /\ RateOf(lo) \in Int /\ RateOf(hi) \in Int /\ (lo <= 0 => RateOf(lo) <= 0)
        /\ lo >= 0 => /\ RateOf(lo) * supply <= lo * P + supply
                      /\ lo * P - supply <= RateOf(lo) * supply
        /\ hi >= 0 => RateOf(hi) * supply <= hi * P + supply
    <3>1. supply \in Nat \ {0}
      BY <1>1, <1>3
    <3>2. /\ RateOf(lo) \in Int /\ (lo <= 0 => RateOf(lo) <= 0)
          /\ RateOf(hi) \in Int
      BY <1>1, <3>1, RateSign
    <3>3. lo >= 0 => /\ RateOf(lo) * supply <= lo * P + supply
                     /\ lo * P - supply <= RateOf(lo) * supply
      BY <1>1, <3>1, RateNear
    <3>4. hi >= 0 => RateOf(hi) * supply <= hi * P + supply
      BY <1>1, <3>1, RateNear
    <3> HIDE DEF lo, hi, P
    <3> QED BY <3>2, <3>3, <3>4
  <2>4. rate \in Int /\ RateOf(lo) <= rate /\ (rate = RateOf(lo) \/ rate <= RateOf(hi))
    <3>1. inflation + change \in Int
      BY <1>1, <2>2
    <3>2. RateOf(lo) \in Int /\ RateOf(hi) \in Int
      BY <2>3
    <3> DEFINE z == inflation + change
               l == RateOf(lo)
               h == RateOf(hi)
    <3>3. z \in Int /\ l \in Int /\ h \in Int /\ rate = Clipped(z, l, h)
      BY <2>1, <3>1, <3>2
    <3> HIDE DEF z, l, h, rate
    <3>4. rate \in Int /\ l <= rate /\ (rate = l \/ rate <= h)
      BY <3>3, ClippedBetween
    <3> QED BY <3>4 DEF l, h
  <2> HIDE DEF rate, lo, hi
  <2>5. /\ lo * P <= hi * P /\ lo * P \in Int /\ hi * P \in Int
        /\ hi >= 0 => hi * P >= 0
    BY <1>1, TimesMonotone
  <2>6. /\ rate \in Int /\ rate * supply \in Int
        /\ RateOf(lo) * supply \in Int /\ RateOf(hi) * supply \in Int
    BY <1>1, <2>3, <2>4
  <2>7. RateOf(lo) * supply <= rate * supply
    BY <1>1, <2>3, <2>4, TimesMonotone
  <2>8. ASSUME hi >= 0 PROVE rate * supply <= hi * P + supply
    <3>1. CASE rate = RateOf(lo) /\ lo >= 0
      <4>1. rate * supply <= lo * P + supply
        BY <2>3, <3>1
      <4> QED BY <1>1, <2>5, <2>6, <4>1
    <3>2. CASE rate = RateOf(lo) /\ lo < 0
      <4>1. rate <= 0
        BY <1>1, <2>3, <3>2
      <4>2. rate * supply <= 0 * supply /\ 0 * supply = 0
        BY <1>1, <2>6, <4>1, TimesMonotone
      <4> QED BY <1>1, <2>5, <2>6, <2>8, <4>2
    <3>3. CASE rate <= RateOf(hi)
      <4>1. rate * supply <= RateOf(hi) * supply
        BY <1>1, <2>3, <2>4, <3>3, TimesMonotone
      <4> QED BY <1>1, <2>3, <2>5, <2>6, <2>8, <4>1
    <3> QED BY <1>1, <2>4, <3>1, <3>2, <3>3
  <2>9. ASSUME lo >= 0 PROVE lo * P - supply <= rate * supply
    BY <1>1, <2>3, <2>5, <2>6, <2>7, <2>9
  <2> QED BY <2>6, <2>8, <2>9 DEF rate, lo, hi
<1> QED BY <1>2, <1>3

(* The share of a block is the year's tokens by the blocks of the year, but *)
(* for less than a token.                                                   *)
LEMMA ProvisionNear ==
  ASSUME NEW a \in Nat, params.BlocksPerYear \in Nat \ {0},
         AsInt64(params.BlocksPerYear) = params.BlocksPerYear
  PROVE  /\ BlockProvision(a) \in Nat
         /\ BlockProvision(a) * params.BlocksPerYear * Precision <= a
         /\ a - params.BlocksPerYear * Precision
              <= BlockProvision(a) * params.BlocksPerYear * Precision
<1> DEFINE P == Precision
           b == params.BlocksPerYear
           t == Truncated(a, b)
           x == BlockProvision(a)
<1>1. P \in Nat \ {0} /\ b \in Nat \ {0}
  BY MintAssumption
<1> HIDE DEF P
<1>2. t \in Nat /\ t * b <= a /\ a < t * b + b
  <2> HIDE DEF b
  <2> QED BY <1>1, TruncatedNat
<1>3. x = Truncated(t, P)
  BY DEF BlockProvision, P
<1> HIDE DEF t, x, b
<1>4. x \in Nat /\ x * P <= t /\ t < x * P + P
  BY <1>1, <1>2, <1>3, TruncatedNat
<1>5. x * P \in Nat /\ x * P + P \in Nat /\ (x * P) * b \in Nat
  BY <1>1, <1>4
<1>6. (x * P) * b <= t * b
  BY <1>1, <1>2, <1>4, <1>5, TimesMonotone
<1>7. (t + 1) * b <= (x * P + P) * b
  BY <1>1, <1>2, <1>4, <1>5, TimesMonotone
<1>8. /\ (t + 1) * b = t * b + b /\ t * b \in Nat
      /\ (x * P + P) * b = (x * P) * b + P * b
      /\ (x * P) * b = x * b * P /\ P * b = b * P /\ b * P \in Nat
  BY <1>1, <1>2, <1>4
<1>9. (x * P) * b <= a /\ a - P * b <= (x * P) * b
  BY <1>1, <1>2, <1>5, <1>6, <1>7, <1>8
<1>10. x * b * P <= a /\ a - b * P <= x * b * P
  BY <1>8, <1>9
<1> QED BY <1>4, <1>10 DEF P, b, x

-----------------------------------------------------------------------------
(* A share is an integer, and of provisions below nought none.              *)
LEMMA ProvisionSign ==
  ASSUME NEW a \in Int, NEW p \in MintParams, ValidMintParams(p), params = p
  PROVE  /\ BlockProvision(a) \in Int
         /\ a <= 0 /\ p.BlocksPerYear <= MaxInt64 => BlockProvision(a) <= 0
<1> DEFINE P == Precision
           b == AsInt64(p.BlocksPerYear)
           t == Truncated(a, b)
<1>1. /\ P \in Nat \ {0} /\ P > 0 /\ b \in Int \ {0}
      /\ p.BlocksPerYear <= MaxInt64 => b > 0
  BY MintAssumption, BlocksFit
<1>2. BlockProvision(a) = Truncated(t, P)
  BY DEF BlockProvision
<1> HIDE DEF P, b
<1>3. t \in Int /\ (a <= 0 /\ b > 0 => t <= 0)
  BY <1>1, TruncatedInt
<1> HIDE DEF t
<1>4. Truncated(t, P) \in Int /\ (t <= 0 => Truncated(t, P) <= 0)
  BY <1>1, <1>3, TruncatedInt
<1> QED BY <1>1, <1>2, <1>3, <1>4

(* A share that is a coin is within the bounds of the year's tokens, for    *)
(* one block.                                                               *)
LEMMA BlockShare ==
  ASSUME MintTypeOK, NEW r \in BondedRatio
  PROVE  LET rate == NextInflationRate(r)
             x == BlockProvision(NextAnnualProvisions(rate))
             p == params
         IN  /\ rate \in Int /\ x \in Int
             /\ p.BlocksPerYear <= MaxInt64 /\ p.MaxTokenPerYear >= 0 /\ x >= 0 =>
                  x * p.BlocksPerYear * Precision <= p.MaxTokenPerYear * Precision + supply
             /\ p.BlocksPerYear <= MaxInt64 /\ supply > 0 /\ x >= 0 =>
                  p.MinTokenPerYear * Precision - supply - p.BlocksPerYear * Precision
                    <= x * p.BlocksPerYear * Precision
<1> DEFINE rate == NextInflationRate(r)
           a == rate * supply
           x == BlockProvision(a)
           b == params.BlocksPerYear
           P == Precision
           lo == params.MinTokenPerYear
           hi == params.MaxTokenPerYear
<1>1. /\ P \in Nat \ {0} /\ b \in Nat \ {0} /\ lo \in Int /\ hi \in Int /\ supply \in Nat
      /\ MaxInt64 \in Nat /\ (b <= MaxInt64 => AsInt64(b) = b)
      /\ params \in MintParams /\ ValidMintParams(params)
  <2>1. params \in MintParams /\ ValidMintParams(params) /\ supply \in Nat
    BY DEF MintTypeOK
  <2>2. /\ params.BlocksPerYear \in Nat \ {0}
        /\ params.BlocksPerYear <= MaxInt64 =>
             AsInt64(params.BlocksPerYear) = params.BlocksPerYear
    BY <2>1, BlocksFit
  <2> QED BY <2>1, <2>2, MintAssumption, MintParamsAssumption
<1>2. /\ rate \in Int
      /\ hi >= 0 => a <= hi * P + supply
      /\ lo >= 0 /\ supply > 0 => lo * P - supply <= a
  BY NextRateBetween
<1>3. NextAnnualProvisions(rate) = a
  BY DEF NextAnnualProvisions
<1> HIDE DEF rate
<1>4. a \in Int
  BY <1>1, <1>2
<1> HIDE DEF a
<1>5. x \in Int /\ (a <= 0 /\ b <= MaxInt64 => x <= 0)
  BY <1>1, <1>4, ProvisionSign
<1>6. a >= 0 /\ b <= MaxInt64 => x * b * P <= a /\ a - b * P <= x * b * P
  BY <1>1, <1>4, ProvisionNear
<1> HIDE DEF x, b, P, lo, hi
<1>7. /\ x * b * P \in Int /\ b * P \in Nat /\ lo * P \in Int /\ hi * P \in Int
      /\ x = 0 => x * b * P = 0
      /\ x >= 0 => x * b * P >= 0
      /\ hi >= 0 => hi * P >= 0
      /\ lo < 0 => lo * P <= 0
  <2>1. x * b \in Int /\ (x = 0 => x * b = 0) /\ (x >= 0 => x * b >= 0)
    BY <1>1, <1>5
  <2>2. \A i \in Int : /\ i * P \in Int /\ (i = 0 => i * P = 0)
                        /\ (i >= 0 => i * P >= 0) /\ (i <= 0 => i * P <= 0)
    BY <1>1
  <2>3. b * P \in Nat
    BY <1>1
  <2> QED BY <1>1, <2>1, <2>2, <2>3
<1>8. ASSUME b <= MaxInt64, hi >= 0, x >= 0 PROVE x * b * P <= hi * P + supply
  <2>1. CASE a >= 0
    BY <1>1, <1>2, <1>4, <1>6, <1>7, <1>8, <2>1
  <2>2. CASE a <= 0
    BY <1>1, <1>4, <1>5, <1>7, <1>8, <2>2
  <2> QED BY <1>4, <2>1, <2>2
<1>9. ASSUME b <= MaxInt64, supply > 0, x >= 0 PROVE lo * P - supply - b * P <= x * b * P
  <2>1. CASE lo >= 0 /\ a >= 0
    BY <1>1, <1>2, <1>4, <1>6, <1>7, <1>9, <2>1
  <2>2. CASE lo >= 0 /\ a <= 0
    BY <1>1, <1>2, <1>4, <1>7, <1>9, <2>2
  <2>3. CASE lo < 0
    BY <1>1, <1>7, <1>9, <2>3
  <2> QED BY <1>1, <1>4, <2>1, <2>2, <2>3
<1> QED BY <1>2, <1>3, <1>5, <1>8, <1>9 DEF rate, x, b, P, lo, hi

(* The greatest of two natural numbers.                                     *)
LEMMA MaxNat ==
  ASSUME NEW a \in Nat, NEW b \in Nat
  PROVE  Max({a, b}) \in Nat /\ a <= Max({a, b}) /\ b <= Max({a, b})
<1>1. Max({a, b}) = IF b <= a THEN a ELSE b
  BY DEF Max
<1> QED BY <1>1

YearType == [blocks: Nat, paid: Nat, top: Nat, full: BOOLEAN]

(* A block more leaves a year a year.                                       *)
LEMMA YearTypes ==
  ASSUME MintTypeOK, NEW x \in Nat, NEW pays \in BOOLEAN
  PROVE  InYear(x, pays) \in YearType
<1> DEFINE y == IF year.blocks = params.BlocksPerYear THEN NewYear ELSE year
<1>1. y \in YearType /\ supply \in Nat
  BY DEF MintTypeOK, NewYear, YearType
<1>2. InYear(x, pays) = [blocks |-> y.blocks + 1,
                         paid   |-> y.paid + (IF pays THEN x ELSE 0),
                         top    |-> Max({y.top, supply}),
                         full   |-> y.full /\ pays /\ supply > 0]
  BY DEF InYear
<1> HIDE DEF y
<1>3. y.blocks \in Nat /\ y.paid \in Nat /\ y.top \in Nat /\ y.full \in BOOLEAN
  BY <1>1 DEF YearType
<1>4. Max({y.top, supply}) \in Nat
  BY <1>1, <1>3, MaxNat
<1>5. y.blocks + 1 \in Nat /\ y.paid + (IF pays THEN x ELSE 0) \in Nat
  BY <1>3
<1>6. (y.full /\ pays /\ supply > 0) \in BOOLEAN
  OBVIOUS
<1> QED BY <1>2, <1>4, <1>5, <1>6 DEF YearType

(* The genesis state has its types.                                         *)
LEMMA MintTypeInit == Init => MintTypeOK
<1> SUFFICES ASSUME Init PROVE MintTypeOK
  OBVIOUS
<1>1. NewYear \in YearType
  BY DEF NewYear, YearType
<1> QED BY <1>1, MintAssumption DEF Init, MintTypeOK, YearType

(* Every step keeps the types.                                              *)
LEMMA MintTypeStep == MintTypeOK /\ [Next]_mintVars => MintTypeOK'
<1> SUFFICES ASSUME MintTypeOK, [Next]_mintVars PROVE MintTypeOK'
  OBVIOUS
<1>1. ASSUME NEW r \in BondedRatio, BeginBlocker(r) PROVE MintTypeOK'
  <2> DEFINE rate == NextInflationRate(r)
             x == BlockProvision(NextAnnualProvisions(rate))
  <2>1. rate \in Int /\ x \in Nat
    <3>1. rate \in Int /\ x \in Int
      BY BlockShare
    <3>2. x >= 0
      BY <1>1 DEF BeginBlocker
    <3> HIDE DEF rate, x
    <3> QED BY <3>1, <3>2
  <2>2. /\ inflation' = rate /\ year' = InYear(x, CanPay(x))
        /\ IF CanPay(x) THEN AddCollectedFees(x) ELSE UNCHANGED <<collected, pool>>
        /\ UNCHANGED <<params, supply, wallet, allowed, reminted>>
    BY <1>1 DEF BeginBlocker
  <2> HIDE DEF rate, x
  <2>3. pool' \in Nat /\ collected' \in Nat
    <3>1. CASE CanPay(x)
      BY <2>1, <2>2, <3>1 DEF CanPay, AddCollectedFees, MintTypeOK
    <3>2. CASE ~CanPay(x)
      BY <2>2, <3>2 DEF MintTypeOK
    <3> QED BY <3>1, <3>2
  <2>4. year' \in YearType
    <3>1. CanPay(x) \in BOOLEAN
      BY DEF CanPay
    <3> QED BY <2>1, <2>2, <3>1, YearTypes
  <2> QED BY <2>1, <2>2, <2>3, <2>4 DEF MintTypeOK, YearType, ValidMintParams
<1>2. ASSUME NEW f \in Funder, NEW x \in Fund, FundModuleAccount(f, x) PROVE MintTypeOK'
  <2>1. x \in Nat
    BY MintAssumption
  <2>2. wallet' \in [Funder -> Nat] /\ pool' \in Nat
    BY <1>2, <2>1 DEF FundModuleAccount, MintTypeOK
  <2> QED BY <1>2, <2>2 DEF FundModuleAccount, MintTypeOK, ValidMintParams
<1>3. ASSUME NEW f \in Funder, AddAccountToFundModuleSet(f) PROVE MintTypeOK'
  BY <1>3 DEF AddAccountToFundModuleSet, MintTypeOK, ValidMintParams
<1>4. ASSUME NEW p \in MintParams, UpdateParams(p) PROVE MintTypeOK'
  <2>1. NewYear \in YearType
    BY DEF NewYear, YearType
  <2> QED BY <1>4, <2>1 DEF UpdateParams, MintTypeOK, YearType, ValidMintParams
<1>5. CASE RestartFromGenesis
  BY <1>5 DEF RestartFromGenesis, MintTypeOK, ValidMintParams
<1>6. CASE ChangeSupply
  BY <1>6, MintAssumption DEF ChangeSupply, MintTypeOK, ValidMintParams
<1>7. CASE UNCHANGED mintVars
  BY <1>7 DEF mintVars, MintTypeOK, ValidMintParams
<1> QED BY <1>1, <1>2, <1>3, <1>4, <1>5, <1>6, <1>7 DEF Next

(* Whatever parameters pass validation, no block pays more than the pool    *)
(* has: the pool, the wallets and what was paid never fall below nought     *)
(* (MintTypeOK).                                                            *)
THEOREM MintTypeCorrect == Spec => []MintTypeOK
BY MintTypeInit, MintTypeStep, PTL DEF Spec

-----------------------------------------------------------------------------
(* The bounds of a year's payments, of the values they are about.           *)
AtMost(y, p) ==
  p.BlocksPerYear <= MaxInt64 /\ p.MaxTokenPerYear >= 0 =>
    y.paid * p.BlocksPerYear * Precision <= y.blocks * (p.MaxTokenPerYear * Precision + y.top)

AtLeast(y, p) ==
  p.BlocksPerYear <= MaxInt64 /\ y.full =>
    y.paid * p.BlocksPerYear * Precision
      >= y.blocks * (p.MinTokenPerYear * Precision - y.top - p.BlocksPerYear * Precision)

(* The two properties of a year in the terms of these lemmas.               *)
LEMMA YearBounds ==
  /\ YearWithinMax <=> AtMost(year, params)
  /\ YearWithinMax' <=> AtMost(year', params')
  /\ YearAboveMin <=> AtLeast(year, params)
  /\ YearAboveMin' <=> AtLeast(year', params')
BY DEF YearWithinMax, YearAboveMin, AtMost, AtLeast

(* What validation says of parameters.                                      *)
LEMMA ParamTypes ==
  ASSUME NEW p \in MintParams, ValidMintParams(p)
  PROVE  /\ p.BlocksPerYear \in Nat \ {0} /\ p.MaxTokenPerYear \in Int
         /\ p.MinTokenPerYear \in Int /\ Precision \in Nat \ {0}
BY MintAssumption, MintParamsAssumption DEF ValidMintParams

(* A year without a block has paid nothing, which is within any bounds.     *)
LEMMA NewYearBounds ==
  ASSUME NEW p \in MintParams, ValidMintParams(p)
  PROVE  AtMost(NewYear, p) /\ AtLeast(NewYear, p)
<1> DEFINE b == p.BlocksPerYear
           hi == p.MaxTokenPerYear * Precision
           lo == p.MinTokenPerYear * Precision
<1>1. b \in Nat /\ hi \in Int /\ lo \in Int /\ Precision \in Nat /\ b * Precision \in Nat
  BY ParamTypes
<1>2. 0 * b * Precision = 0 /\ 0 * (hi + 0) = 0 /\ 0 * (lo - 0 - b * Precision) = 0
  <2> HIDE DEF b, hi, lo
  <2> QED BY <1>1
<1> QED BY <1>2 DEF AtMost, AtLeast, NewYear

(* One block more: it adds within its own bounds, and the greatest supply   *)
(* only grows.                                                              *)
LEMMA OneBlockMore ==
  ASSUME NEW n \in Nat, NEW paid \in Int, NEW x \in Int, NEW c \in Int,
         NEW top \in Int, NEW s \in Int, NEW t \in Int, top <= t, s <= t
  PROVE  /\ paid <= n * (c + top) /\ x <= c + s => paid + x <= (n + 1) * (c + t)
         /\ n * (c - top) <= paid /\ c - s <= x => (n + 1) * (c - t) <= paid + x
<1>1. (n + 1) * (c + t) = n * (c + t) + (c + t) /\ (n + 1) * (c - t) = n * (c - t) + (c - t)
  OBVIOUS
<1>2. (c + top) * n <= (c + t) * n /\ (c - t) * n <= (c - top) * n
  <2>1. c + top <= c + t /\ c - t <= c - top
    OBVIOUS
  <2>2. c + top \in Int /\ c + t \in Int /\ c - t \in Int /\ c - top \in Int
    OBVIOUS
  <2> DEFINE a1 == c + top
             a2 == c + t
             b1 == c - t
             b2 == c - top
  <2>3. a1 <= a2 /\ b1 <= b2 /\ a1 \in Int /\ a2 \in Int /\ b1 \in Int /\ b2 \in Int
    BY <2>1, <2>2
  <2> HIDE DEF a1, a2, b1, b2
  <2>4. a1 * n <= a2 * n /\ b1 * n <= b2 * n
    BY <2>3, TimesMonotone
  <2> QED BY <2>4 DEF a1, a2, b1, b2
<1>3. /\ n * (c + top) = (c + top) * n /\ n * (c + t) = (c + t) * n
      /\ n * (c - top) = (c - top) * n /\ n * (c - t) = (c - t) * n
      /\ n * (c + t) \in Int /\ n * (c - t) \in Int
      /\ n * (c + top) \in Int /\ n * (c - top) \in Int
  OBVIOUS
<1> QED BY <1>1, <1>2, <1>3

(* A block keeps the year within its bounds: its share is added to what was *)
(* paid, and its bound to the bounds.                                       *)
LEMMA BlockKeepsYear ==
  ASSUME MintTypeOK, AtMost(year, params), AtLeast(year, params),
         NEW r \in BondedRatio, BeginBlocker(r)
  PROVE  AtMost(year', params') /\ AtLeast(year', params')
<1> DEFINE rate == NextInflationRate(r)
           x == BlockProvision(NextAnnualProvisions(rate))
           y == IF year.blocks = params.BlocksPerYear THEN NewYear ELSE year
           b == params.BlocksPerYear
           P == Precision
           lo == params.MinTokenPerYear * P
           hi == params.MaxTokenPerYear * P
           z == IF CanPay(x) THEN x ELSE 0
           t == Max({y.top, supply})
           fits == b <= MaxInt64
           most == fits /\ params.MaxTokenPerYear >= 0
<1>1. /\ params \in MintParams /\ ValidMintParams(params) /\ supply \in Nat
      /\ b \in Nat \ {0} /\ P \in Nat \ {0} /\ lo \in Int /\ hi \in Int
  <2>1. params \in MintParams /\ ValidMintParams(params) /\ supply \in Nat
    BY DEF MintTypeOK
  <2>2. /\ params.BlocksPerYear \in Nat \ {0} /\ params.MaxTokenPerYear \in Int
        /\ params.MinTokenPerYear \in Int /\ Precision \in Nat \ {0}
    BY <2>1, ParamTypes
  <2> QED BY <2>1, <2>2
<1>2. AtMost(y, params) /\ AtLeast(y, params) /\ y \in YearType
  BY <1>1, NewYearBounds DEF MintTypeOK, YearType, NewYear
<1>3. /\ x \in Nat
      /\ most => x * b * P <= hi + supply
      /\ fits /\ supply > 0 => lo - supply - b * P <= x * b * P
  <2>1. x >= 0
    BY DEF BeginBlocker
  <2>2. /\ x \in Int
        /\ most /\ x >= 0 => x * b * P <= hi + supply
        /\ fits /\ supply > 0 /\ x >= 0 => lo - supply - b * P <= x * b * P
    BY BlockShare
  <2> HIDE DEF x, most, fits
  <2> QED BY <2>1, <2>2
<1>4. /\ params' = params
      /\ year' = InYear(x, CanPay(x))
      /\ InYear(x, CanPay(x)) = [blocks |-> y.blocks + 1, paid |-> y.paid + z, top |-> t,
                                 full |-> y.full /\ CanPay(x) /\ supply > 0]
  BY DEF BeginBlocker, InYear
<1> HIDE DEF x, y, rate
<1>5. /\ year'.blocks = y.blocks + 1 /\ year'.paid = y.paid + z /\ year'.top = t
      /\ year'.full => y.full /\ CanPay(x) /\ supply > 0
  <2> DEFINE k == y.blocks + 1
             p == y.paid + z
             f == y.full /\ CanPay(x) /\ supply > 0
  <2>1. year' = [blocks |-> k, paid |-> p, top |-> t, full |-> f]
    BY <1>4, Zenon
  <2> HIDE DEF k, p, f, t
  <2>2. year'.blocks = k /\ year'.paid = p /\ year'.top = t /\ year'.full = f
    BY ONLY <2>1
  <2> USE DEF k, p, f
  <2>3. year'.full => f
    BY ONLY <2>2, Zenon
  <2> QED BY <2>2, <2>3, Zenon
<1>6. y.blocks \in Nat /\ y.paid \in Nat /\ y.top \in Nat /\ y.full \in BOOLEAN
  BY <1>2 DEF YearType
<1>7. t \in Nat /\ y.top <= t /\ supply <= t
  BY <1>1, <1>6, MaxNat
<1>8. /\ z \in Nat
      /\ most => z * b * P <= hi + supply
      /\ fits /\ CanPay(x) /\ supply > 0 => lo - supply - b * P <= z * b * P
  <2>1. CASE CanPay(x)
    BY <1>3, <2>1
  <2>2. CASE ~CanPay(x)
    <3>1. 0 * b * P = 0
      <4> HIDE DEF b, P
      <4> QED BY <1>1
    <3>2. most => hi >= 0
      <4>1. \A i \in Int : i >= 0 => i * P >= 0
        BY <1>1
      <4>2. params.MaxTokenPerYear \in Int
        BY <1>1, ParamTypes
      <4> QED BY <4>1, <4>2
    <3> HIDE DEF b, P, hi, most, fits
    <3> QED BY <1>1, <2>2, <3>1, <3>2
  <2> QED BY <2>1, <2>2
<1> HIDE DEF z, t, lo, hi, b, P, fits, most
<1> DEFINE paid == y.paid * b * P
           more == z * b * P
<1>9. /\ paid \in Nat /\ more \in Nat /\ b * P \in Nat
      /\ (y.paid + z) * b * P = paid + more
  <2>1. paid \in Nat /\ more \in Nat /\ b * P \in Nat
    BY <1>1, <1>6, <1>8
  <2>2. (y.paid + z) * b = y.paid * b + z * b
    BY <1>1, <1>6, <1>8
  <2>3. y.paid * b \in Nat /\ z * b \in Nat
    BY <1>1, <1>6, <1>8
  <2>4. (y.paid * b + z * b) * P = y.paid * b * P + z * b * P
    BY <1>1, <2>3
  <2> QED BY <2>1, <2>2, <2>4
<1>10. /\ most => paid <= y.blocks * (hi + y.top)
       /\ fits /\ y.full => y.blocks * (lo - y.top - b * P) <= paid
  BY <1>2 DEF AtMost, AtLeast, hi, lo, b, P, most, fits
<1> HIDE DEF paid, more
<1>11. most => more <= hi + supply
  BY <1>8 DEF more
<1>12. most => paid + more <= (y.blocks + 1) * (hi + t)
  BY <1>1, <1>6, <1>7, <1>9, <1>10, <1>11, OneBlockMore
<1>13. AtMost(year', params')
  BY <1>4, <1>5, <1>9, <1>12 DEF AtMost, hi, b, P, most, fits
<1>14. ASSUME fits, year'.full
       PROVE  (y.blocks + 1) * (lo - t - b * P) <= paid + more
  <2> DEFINE c == lo - b * P
  <2>1. c \in Int /\ lo - y.top - b * P = c - y.top /\ lo - t - b * P = c - t
        /\ lo - supply - b * P = c - supply
    BY <1>1, <1>6, <1>7, <1>9
  <2>2. y.blocks * (lo - y.top - b * P) <= paid /\ lo - supply - b * P <= more
    BY <1>5, <1>8, <1>10, <1>14 DEF more
  <2> HIDE DEF c
  <2>3. y.blocks * (c - y.top) <= paid /\ c - supply <= more
    BY <2>1, <2>2
  <2>4. (y.blocks + 1) * (c - t) <= paid + more
    BY <1>1, <1>6, <1>7, <1>9, <2>1, <2>3, OneBlockMore
  <2> QED BY <2>1, <2>4
<1>15. AtLeast(year', params')
  BY <1>4, <1>5, <1>9, <1>14 DEF AtLeast, lo, b, P, fits
<1> QED BY <1>13, <1>15

YearInv == YearWithinMax /\ YearAboveMin

(* Every step keeps a year within its bounds; new parameters begin a new    *)
(* year.                                                                    *)
LEMMA YearStep == MintTypeOK /\ YearInv /\ [Next]_mintVars => YearInv'
<1> SUFFICES ASSUME MintTypeOK, YearInv, [Next]_mintVars PROVE YearInv'
  OBVIOUS
<1>1. AtMost(year, params) /\ AtLeast(year, params)
  BY YearBounds DEF YearInv
<1>2. SUFFICES AtMost(year', params') /\ AtLeast(year', params')
  BY YearBounds DEF YearInv
<1>3. ASSUME NEW r \in BondedRatio, BeginBlocker(r)
      PROVE  AtMost(year', params') /\ AtLeast(year', params')
  BY <1>1, <1>3, BlockKeepsYear
<1>4. ASSUME NEW p \in MintParams, UpdateParams(p)
      PROVE  AtMost(year', params') /\ AtLeast(year', params')
  BY <1>4, NewYearBounds DEF UpdateParams
<1>5. CASE UNCHANGED <<year, params>>
  BY <1>1, <1>5
<1>6. ASSUME NEW f \in Funder,
             AddAccountToFundModuleSet(f) \/ (\E x \in Fund : FundModuleAccount(f, x))
      PROVE  UNCHANGED <<year, params>>
  BY <1>6 DEF AddAccountToFundModuleSet, FundModuleAccount
<1>7. ASSUME RestartFromGenesis \/ ChangeSupply \/ UNCHANGED mintVars
      PROVE  UNCHANGED <<year, params>>
  BY <1>7 DEF RestartFromGenesis, ChangeSupply, mintVars
<1> QED BY <1>3, <1>4, <1>5, <1>6, <1>7 DEF Next

(* A year begins within its bounds.                                         *)
LEMMA YearInit == Init => YearInv
<1> SUFFICES ASSUME Init PROVE YearInv
  OBVIOUS
<1>1. params \in MintParams /\ ValidMintParams(params) /\ year = NewYear
  BY DEF Init
<1> QED BY <1>1, NewYearBounds, YearBounds DEF YearInv

(* A year's blocks never pay more than the greatest number of tokens its    *)
(* parameters set, but for what the rate is rounded up by (YearWithinMax):  *)
(* of parameters with a natural maximum, whose blocks fit in an int64.      *)
THEOREM NeverAboveMax == Spec => []YearWithinMax
<1>1. YearInv => YearWithinMax
  BY DEF YearInv
<1> QED BY <1>1, YearInit, YearStep, MintTypeInit, MintTypeStep, PTL DEF Spec

(* Nor less than the least number, but for what is rounded down and unless  *)
(* the pool was short (YearAboveMin): of parameters whose blocks fit in an  *)
(* int64.                                                                   *)
THEOREM NeverBelowMin == Spec => []YearAboveMin
<1>1. YearInv => YearAboveMin
  BY DEF YearInv
<1> QED BY <1>1, YearInit, YearStep, MintTypeInit, MintTypeStep, PTL DEF Spec

-----------------------------------------------------------------------------
(* Rewards come out of what was put in the pool (RewardsFunded).            *)
LEMMA FundingMoves ==
  ASSUME MintTypeOK, RewardsFunded, NEW f \in Funder, NEW x \in Nat, FundModuleAccount(f, x)
  PROVE  RewardsFunded'
<1>1. /\ wallet \in [Funder -> Nat] /\ pool \in Nat /\ collected \in Nat /\ reminted \in Nat
      /\ IsFiniteSet(Funder) /\ IncentivesSupply \in Nat
  BY MintAssumption DEF MintTypeOK
<1>2. /\ wallet' = [wallet EXCEPT ![f] = @ - x] /\ pool' = pool + x
      /\ collected' = collected /\ reminted' = reminted
  BY DEF FundModuleAccount
<1>3. /\ wallet'[f] = wallet[f] - x
      /\ \A g \in Funder : wallet[g] \in Int /\ wallet'[g] \in Int
                           /\ (g # f => wallet'[g] = wallet[g])
  BY <1>1, <1>2
<1>4. SumFunctionOnSet(wallet', Funder) = SumFunctionOnSet(wallet, Funder) - wallet[f] + wallet'[f]
  BY <1>1, <1>3, SumChange
<1>5. SumFunctionOnSet(wallet, Funder) \in Int
  BY <1>1, SumType
<1>6. pool' + collected' + SumFunctionOnSet(wallet', Funder)
        = pool + collected + SumFunctionOnSet(wallet, Funder)
  BY <1>1, <1>2, <1>3, <1>4, <1>5
<1> QED BY <1>2, <1>6 DEF RewardsFunded

(* Every step moves coins between the pool, the collected fees and the      *)
(* wallets.                                                                 *)
LEMMA FundedStep == MintTypeOK /\ RewardsFunded /\ [Next]_mintVars => RewardsFunded'
<1> SUFFICES ASSUME MintTypeOK, RewardsFunded, [Next]_mintVars PROVE RewardsFunded'
  OBVIOUS
<1>1. /\ pool \in Nat /\ collected \in Nat /\ reminted \in Nat
      /\ SumFunctionOnSet(wallet, Funder) \in Int /\ SumFunctionOnSet(Wallet0, Funder) \in Int
      /\ IncentivesSupply \in Nat
  <2>1. \A f \in Funder : wallet[f] \in Int /\ Wallet0[f] \in Int
    BY MintAssumption DEF MintTypeOK
  <2> QED BY <2>1, MintAssumption, SumType DEF MintTypeOK
<1>2. ASSUME NEW r \in BondedRatio, BeginBlocker(r) PROVE RewardsFunded'
  <2> DEFINE x == BlockProvision(NextAnnualProvisions(NextInflationRate(r)))
  <2>1. x \in Nat
    <3>1. x \in Int /\ x >= 0
      BY <1>2, BlockShare DEF BeginBlocker
    <3> HIDE DEF x
    <3> QED BY <3>1
  <2>2. /\ IF CanPay(x) THEN AddCollectedFees(x) ELSE UNCHANGED <<collected, pool>>
        /\ UNCHANGED <<wallet, reminted>>
    BY <1>2 DEF BeginBlocker
  <2> HIDE DEF x
  <2>3. pool' + collected' = pool + collected
    BY <1>1, <2>1, <2>2 DEF AddCollectedFees
  <2> QED BY <2>2, <2>3 DEF RewardsFunded
<1>3. ASSUME NEW f \in Funder, NEW x \in Fund, FundModuleAccount(f, x) PROVE RewardsFunded'
  <2>1. x \in Nat
    BY MintAssumption
  <2> QED BY <1>3, <2>1, FundingMoves
<1>4. CASE RestartFromGenesis
  <2>1. pool' = pool + pool /\ reminted' = reminted + pool /\ UNCHANGED <<collected, wallet>>
    BY <1>4 DEF RestartFromGenesis
  <2> QED BY <1>1, <2>1 DEF RewardsFunded
<1>5. CASE UNCHANGED <<pool, collected, wallet, reminted>>
  BY <1>5 DEF RewardsFunded
<1>6. ASSUME NEW f \in Funder, AddAccountToFundModuleSet(f) PROVE RewardsFunded'
  BY <1>5, <1>6 DEF AddAccountToFundModuleSet
<1>7. ASSUME NEW p \in MintParams, UpdateParams(p) PROVE RewardsFunded'
  BY <1>5, <1>7 DEF UpdateParams
<1>8. ASSUME ChangeSupply \/ UNCHANGED mintVars PROVE RewardsFunded'
  BY <1>5, <1>8 DEF ChangeSupply, mintVars
<1> QED BY <1>2, <1>3, <1>4, <1>6, <1>7, <1>8 DEF Next

(* Coins are only made by a restart from an exported genesis; a block pays  *)
(* none that was not put in the pool (RewardsFunded).                       *)
THEOREM RewardsAlwaysFunded == Spec => []RewardsFunded
<1>1. Init => RewardsFunded
  <2> SUFFICES ASSUME Init PROVE RewardsFunded
    OBVIOUS
  <2>1. IncentivesSupply \in Nat /\ SumFunctionOnSet(Wallet0, Funder) \in Int
    <3>1. \A f \in Funder : Wallet0[f] \in Int
      BY MintAssumption
    <3> QED BY <3>1, MintAssumption, SumType
  <2> QED BY <2>1 DEF Init, RewardsFunded
<1> QED BY <1>1, FundedStep, MintTypeInit, MintTypeStep, PTL DEF Spec
=============================================================================
