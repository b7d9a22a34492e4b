--------------------------- MODULE TxBoundaryProofs ---------------------------
(***************************************************************************)
(* TypeOK, WindowBounded and DenialIsRecent are invariants of TxBoundary,  *)
(* for every set of addresses and boundaries, every window and every       *)
(* bound.  The bound on a window needs to know how far what was counted in *)
(* it may exceed the counter: by one for each generation that the record   *)
(* was moved on since less than a generation before the window.            *)
(***************************************************************************)
EXTENDS TxBoundary, TLAPS

Blocks == boundary["delegate"].blocksPerGeneration
Limit(k) == boundary[k].txLimit

(* A record and its history agree.                                          *)
RecordSound(r, t) ==
  /\ r.latestUpdateBlock <= t.lastPassed
  /\ t.lastPassed <= height
  /\ r.latestUpdateBlock = 0 => \A k \in Kind : r.count[k] = 0
  /\ \A k \in Kind : r.count[k] <= Limit(k)

(* What was counted in the window, against the counter and in all.          *)
WindowSound(r, t, k) ==
  settled /\ t.inWindow[k] > 0 =>
    /\ r.latestUpdateBlock > windowStart - Blocks
    /\ Blocks * (t.inWindow[k] - r.count[k]) <= r.latestUpdateBlock - (windowStart - Blocks + 1)
    /\ Blocks * (t.inWindow[k] - Limit(k)) <= Window + Blocks - 2

AddressSound(r, t) == RecordSound(r, t) /\ \A k \in Kind : WindowSound(r, t, k)

StoreSound(S) == \A a \in Delegator : AddressSound(S.limit[a], S.tally[a])

IInv == TypeOK /\ StoreSound(store) /\ StoreSound(branch)
-----------------------------------------------------------------------------
(* What regenerates in a time takes at least that many generations of it.   *)
LEMMA GeneratedTxBounds ==
  ASSUME NEW d \in Nat, NEW b \in Nat \ {0}
  PROVE  /\ GeneratedTx(d, b) \in Nat
         /\ b * GeneratedTx(d, b) <= d
         /\ d >= b => GeneratedTx(d, b) >= 1
<1>1. d \div b \in Nat /\ b * (d \div b) <= d /\ d < b * (d \div b) + b
  BY SMT
<1>2. d >= b => d \div b >= 1
  BY <1>1, SMT
<1>3. d \div b > 5 => b * 5 <= b * (d \div b)
  BY <1>1, SMT
<1> QED BY <1>1, <1>2, <1>3 DEF GeneratedTx

(* A quotient is the largest factor that fits.                              *)
LEMMA QuotientLargest ==
  ASSUME NEW b \in Nat \ {0}, NEW q \in Int, NEW x \in Nat, b * q <= x
  PROVE  q <= x \div b
<1>1. x \div b \in Nat /\ x < b * (x \div b) + b
  BY SMT
<1>2. ASSUME q >= x \div b + 1 PROVE FALSE
  <2>1. b * q >= b * (x \div b + 1)
    BY <1>1, <1>2, SMT
  <2> QED BY <2>1, <1>1, SMT
<1> QED BY <1>1, <1>2

(* UpdateLimitPerAddr moves a record on to the present generation; its      *)
(* counters fall by no more than the generations it was moved on by, and    *)
(* fall if there was one.                                                   *)
LEMMA UpdateLimitMoves ==
  ASSUME NEW r \in LimitPerAddr, TypeOK, r.latestUpdateBlock <= height
  PROVE  LET u == UpdateLimitPerAddr(r)
         IN  /\ u \in LimitPerAddr
             /\ u.latestUpdateBlock <= height
             /\ u.latestUpdateBlock >= r.latestUpdateBlock
             /\ u.latestUpdateBlock = 0 <=> r.latestUpdateBlock = 0
             /\ r.latestUpdateBlock # 0 => height < u.latestUpdateBlock + Blocks
             /\ r.latestUpdateBlock = 0 => u = r
             /\ \A k \in Kind :
                  /\ u.count[k] <= r.count[k]
                  /\ Blocks * (r.count[k] - u.count[k]) <= u.latestUpdateBlock - r.latestUpdateBlock
                  /\ u # r => u.count[k] < r.count[k] \/ u.count[k] = 0
<1> DEFINE u == UpdateLimitPerAddr(r)
           g == GeneratedTx(height - r.latestUpdateBlock, Blocks)
<1>1. Blocks \in Nat \ {0} /\ height \in Nat \ {0}
  BY BoundaryAssumption DEF TypeOK, Blocks, Kind
<1>2. r.count \in [Kind -> Nat] /\ r.latestUpdateBlock \in Nat
  BY DEF LimitPerAddr
<1>3. CASE r.latestUpdateBlock = 0 \/ r.latestUpdateBlock + Blocks > height
  <2>1. u = r
    BY <1>3 DEF UpdateLimitPerAddr, Blocks
  <2>2. \A k \in Kind : r.count[k] - r.count[k] = 0 /\ Blocks * 0 = 0
    BY <1>1, <1>2
  <2> QED BY <1>1, <1>2, <1>3, <2>1, <2>2
<1>4. CASE ~(r.latestUpdateBlock = 0 \/ r.latestUpdateBlock + Blocks > height)
  <2>1. u = [count |-> [k \in Kind |-> Regenerated(r.count[k], g)], latestUpdateBlock |-> height]
    BY <1>4 DEF UpdateLimitPerAddr, Blocks
  <2>2. height - r.latestUpdateBlock \in Nat /\ height - r.latestUpdateBlock >= Blocks
    BY <1>1, <1>2, <1>4
  <2>3. g \in Nat /\ Blocks * g <= height - r.latestUpdateBlock /\ g >= 1
    BY <1>1, <2>2, GeneratedTxBounds
  <2> HIDE DEF g
  <2>4. ASSUME NEW k \in Kind
        PROVE  /\ Regenerated(r.count[k], g) \in Nat
               /\ Regenerated(r.count[k], g) <= r.count[k]
               /\ r.count[k] - Regenerated(r.count[k], g) <= g
               /\ Regenerated(r.count[k], g) < r.count[k] \/ Regenerated(r.count[k], g) = 0
    BY <1>2, <2>3 DEF Regenerated
  <2>5. ASSUME NEW k \in Kind
        PROVE  Blocks * (r.count[k] - u.count[k]) <= height - r.latestUpdateBlock
    <3> DEFINE f == r.count[k] - u.count[k]
    <3>1. f \in Nat /\ f <= g
      BY <2>1, <2>4, <1>2
    <3> HIDE DEF f
    <3>2. Blocks * f <= Blocks * g
      BY <1>1, <2>3, <3>1, SMT
    <3>3. Blocks * f \in Int /\ Blocks * g \in Int
      BY <1>1, <2>3, <3>1
    <3>4. Blocks * f <= height - r.latestUpdateBlock
      BY <3>2, <3>3, <2>3, <2>2
    <3> QED BY <3>4 DEF f
  <2>6. u \in LimitPerAddr
    BY <2>1, <2>4, <1>1 DEF LimitPerAddr
  <2> QED BY <1>1, <1>2, <1>4, <2>1, <2>4, <2>5, <2>6
<1> QED BY <1>3, <1>4
-----------------------------------------------------------------------------
(* A message that passes uncounted leaves a sound record.                   *)
LEMMA UncountedSound ==
  ASSUME TypeOK, NEW r \in LimitPerAddr, NEW t \in Tally, AddressSound(r, t)
  PROVE  /\ UpdateLimitPerAddr(r) \in LimitPerAddr
         /\ AddressSound(UpdateLimitPerAddr(r), [t EXCEPT !.lastPassed = height])
<1> DEFINE u == UpdateLimitPerAddr(r)
           s == [t EXCEPT !.lastPassed = height]
<1>1. Blocks \in Nat \ {0} /\ height \in Nat \ {0} /\ windowStart \in Nat
  BY BoundaryAssumption DEF TypeOK, Blocks, Kind
<1>2. /\ r.count \in [Kind -> Nat] /\ r.latestUpdateBlock \in Nat
      /\ t.inWindow \in [Kind -> Nat] /\ t.lastPassed \in Nat
      /\ s.inWindow = t.inWindow /\ s.lastPassed = height /\ s \in Tally
  BY <1>1 DEF LimitPerAddr, Tally
<1>3. r.latestUpdateBlock <= height
  BY <1>1, <1>2 DEF AddressSound, RecordSound
<1>4. /\ u \in LimitPerAddr
      /\ u.latestUpdateBlock <= height
      /\ u.latestUpdateBlock >= r.latestUpdateBlock
      /\ u.latestUpdateBlock = 0 <=> r.latestUpdateBlock = 0
      /\ r.latestUpdateBlock = 0 => u = r
      /\ \A k \in Kind :
           /\ u.count[k] <= r.count[k]
           /\ Blocks * (r.count[k] - u.count[k]) <= u.latestUpdateBlock - r.latestUpdateBlock
  BY <1>3, UpdateLimitMoves
<1> HIDE DEF u, s
<1>5. u.count \in [Kind -> Nat] /\ u.latestUpdateBlock \in Nat
  BY <1>4 DEF LimitPerAddr
<1>6. RecordSound(u, s)
  <2>1. \A k \in Kind : Limit(k) \in Nat
    BY BoundaryAssumption DEF Limit, TypeOK
  <2> QED BY <1>1, <1>2, <1>4, <1>5, <2>1 DEF AddressSound, RecordSound
<1>7. ASSUME NEW k \in Kind PROVE WindowSound(u, s, k)
  <2> SUFFICES ASSUME settled, t.inWindow[k] > 0
               PROVE  /\ u.latestUpdateBlock > windowStart - Blocks
                      /\ Blocks * (t.inWindow[k] - u.count[k])
                           <= u.latestUpdateBlock - (windowStart - Blocks + 1)
                      /\ Blocks * (t.inWindow[k] - Limit(k)) <= Window + Blocks - 2
    BY <1>2 DEF WindowSound
  <2>1. /\ r.latestUpdateBlock > windowStart - Blocks
        /\ Blocks * (t.inWindow[k] - r.count[k])
             <= r.latestUpdateBlock - (windowStart - Blocks + 1)
        /\ Blocks * (t.inWindow[k] - Limit(k)) <= Window + Blocks - 2
    BY DEF AddressSound, WindowSound
  <2>2. Limit(k) \in Nat
    BY BoundaryAssumption DEF Limit, TypeOK
  <2>3. r.count[k] \in Nat /\ u.count[k] \in Nat /\ t.inWindow[k] \in Nat
    BY <1>2, <1>5
  <2>4. Blocks * (t.inWindow[k] - u.count[k])
          = Blocks * (t.inWindow[k] - r.count[k]) + Blocks * (r.count[k] - u.count[k])
    BY <1>1, <2>3, SMT
  <2>5. /\ Blocks * (t.inWindow[k] - r.count[k]) \in Int
        /\ Blocks * (r.count[k] - u.count[k]) \in Int
    BY <1>1, <2>3
  <2> QED BY <1>1, <1>2, <1>4, <1>5, <2>1, <2>2, <2>3, <2>4, <2>5
<1> QED BY <1>4, <1>6, <1>7 DEF AddressSound, u, s

(* So does one that is counted: a counter under its limit rises by one with *)
(* the count of the window.                                                 *)
LEMMA CountedSound ==
  ASSUME TypeOK, NEW r \in LimitPerAddr, NEW t \in Tally, NEW k \in Kind,
         AddressSound(r, t), UpdateLimitPerAddr(r).count[k] < Limit(k)
  PROVE  /\ IncrementCount(UpdateLimitPerAddr(r), k) \in LimitPerAddr
         /\ AddressSound(IncrementCount(UpdateLimitPerAddr(r), k), Tallied(t, k))
<1> DEFINE u == UpdateLimitPerAddr(r)
           s == [t EXCEPT !.lastPassed = height]
           v == IncrementCount(u, k)
           w == Tallied(t, k)
<1>1. Blocks \in Nat \ {0} /\ height \in Nat \ {0} /\ windowStart \in Nat /\ Window \in Nat \ {0}
  BY BoundaryAssumption DEF TypeOK, Blocks, Kind
<1>2. /\ t.inWindow \in [Kind -> Nat] /\ t.lastPassed \in Nat
      /\ s.inWindow = t.inWindow /\ s.lastPassed = height
  BY <1>1 DEF Tally
<1>3. u \in LimitPerAddr /\ AddressSound(u, s)
  BY UncountedSound
<1>4. u.count \in [Kind -> Nat] /\ u.latestUpdateBlock \in Nat
  BY <1>3 DEF LimitPerAddr
<1>5. u.latestUpdateBlock # 0 => height < u.latestUpdateBlock + Blocks
  <2>1. r.latestUpdateBlock \in Nat /\ r.latestUpdateBlock <= height
    BY <1>1, <1>2 DEF LimitPerAddr, AddressSound, RecordSound
  <2> QED BY <2>1, UpdateLimitMoves
<1> HIDE DEF u, s
<1>6. /\ v \in LimitPerAddr
      /\ v.count = [u.count EXCEPT ![k] = @ + 1]
      /\ v.latestUpdateBlock # 0 /\ v.latestUpdateBlock <= height
      /\ v.latestUpdateBlock >= u.latestUpdateBlock
      /\ height < v.latestUpdateBlock + Blocks
  BY <1>1, <1>2, <1>3, <1>4, <1>5 DEF IncrementCount, LimitPerAddr, AddressSound, RecordSound
<1>7. /\ w.lastPassed = height
      /\ InWindow => w.inWindow = [t.inWindow EXCEPT ![k] = @ + 1]
      /\ ~InWindow => w.inWindow = t.inWindow
  BY DEF Tallied
<1> HIDE DEF v, w
<1>8. v.count \in [Kind -> Nat] /\ v.latestUpdateBlock \in Nat
  BY <1>6 DEF LimitPerAddr
<1>9. RecordSound(v, w)
  <2>1. ASSUME NEW j \in Kind PROVE v.count[j] <= Limit(j)
    <3>1. Limit(j) \in Nat /\ u.count[j] \in Nat /\ u.count[j] <= Limit(j)
      BY <1>3, <1>4, BoundaryAssumption DEF Limit, TypeOK, AddressSound, RecordSound
    <3>2. v.count[j] = IF j = k THEN u.count[j] + 1 ELSE u.count[j]
      BY <1>4, <1>6
    <3> QED BY <3>1, <3>2 DEF u
  <2> QED BY <1>1, <1>6, <1>7, <1>8, <2>1 DEF RecordSound
<1>10. ASSUME NEW j \in Kind PROVE WindowSound(v, w, j)
  <2> SUFFICES ASSUME settled, w.inWindow[j] > 0
               PROVE  /\ v.latestUpdateBlock > windowStart - Blocks
                      /\ Blocks * (w.inWindow[j] - v.count[j])
                           <= v.latestUpdateBlock - (windowStart - Blocks + 1)
                      /\ Blocks * (w.inWindow[j] - Limit(j)) <= Window + Blocks - 2
    BY DEF WindowSound
  <2>1. /\ Limit(j) \in Nat /\ u.count[j] \in Nat /\ t.inWindow[j] \in Nat
        /\ v.count[j] \in Nat /\ w.inWindow[j] \in Nat
    BY <1>2, <1>4, <1>6, <1>7, <1>8, BoundaryAssumption DEF Limit, TypeOK
  <2>2. t.inWindow[j] > 0 =>
          /\ u.latestUpdateBlock > windowStart - Blocks
          /\ Blocks * (t.inWindow[j] - u.count[j])
               <= u.latestUpdateBlock - (windowStart - Blocks + 1)
          /\ Blocks * (t.inWindow[j] - Limit(j)) <= Window + Blocks - 2
    BY <1>2, <1>3 DEF AddressSound, WindowSound
  <2>3. CASE InWindow /\ j = k
    <3>1. v.count[j] = u.count[j] + 1 /\ w.inWindow[j] = t.inWindow[j] + 1
      BY <1>2, <1>4, <1>6, <1>7, <2>3
    <3>2. v.count[j] <= Limit(j)
      BY <1>9 DEF RecordSound
    <3>3. v.latestUpdateBlock > windowStart - Blocks
      BY <1>1, <1>6, <1>8, <2>3 DEF InWindow
    <3>4. Blocks * (w.inWindow[j] - v.count[j])
            <= v.latestUpdateBlock - (windowStart - Blocks + 1)
      <4>1. CASE t.inWindow[j] > 0
        <5>1. w.inWindow[j] - v.count[j] = t.inWindow[j] - u.count[j]
          BY <2>1, <3>1
        <5>2. Blocks * (t.inWindow[j] - u.count[j]) \in Int
          BY <1>1, <2>1
        <5> QED BY <1>1, <1>4, <1>6, <1>8, <2>2, <4>1, <5>1, <5>2
      <4>2. CASE t.inWindow[j] = 0
        <5>1. w.inWindow[j] - v.count[j] <= 0 /\ w.inWindow[j] - v.count[j] \in Int
          BY <2>1, <3>1, <4>2
        <5>2. Blocks * (w.inWindow[j] - v.count[j]) <= 0
          BY <1>1, <5>1, SMT
        <5>3. Blocks * (w.inWindow[j] - v.count[j]) \in Int
          BY <1>1, <5>1
        <5> QED BY <1>1, <1>8, <3>3, <5>2, <5>3
      <4> QED BY <2>1, <4>1, <4>2
    <3>5. Blocks * (w.inWindow[j] - Limit(j)) <= Window + Blocks - 2
      <4>1. Blocks * (w.inWindow[j] - Limit(j)) <= Blocks * (w.inWindow[j] - v.count[j])
        BY <1>1, <2>1, <3>2, SMT
      <4>2. /\ Blocks * (w.inWindow[j] - Limit(j)) \in Int
            /\ Blocks * (w.inWindow[j] - v.count[j]) \in Int
        BY <1>1, <2>1
      <4>3. v.latestUpdateBlock <= windowStart + Window - 1
        BY <1>1, <1>6, <1>8, <2>3 DEF InWindow
      <4> QED BY <1>1, <1>8, <3>4, <4>1, <4>2, <4>3
    <3> QED BY <3>3, <3>4, <3>5
  <2>4. CASE ~(InWindow /\ j = k)
    <3>1. w.inWindow[j] = t.inWindow[j] /\ u.count[j] <= v.count[j]
      BY <1>2, <1>4, <1>6, <1>7, <2>1, <2>4
    <3>2. Blocks * (t.inWindow[j] - v.count[j]) <= Blocks * (t.inWindow[j] - u.count[j])
      BY <1>1, <2>1, <3>1, SMT
    <3>3. /\ Blocks * (t.inWindow[j] - v.count[j]) \in Int
          /\ Blocks * (t.inWindow[j] - u.count[j]) \in Int
      BY <1>1, <2>1
    <3> QED BY <1>1, <1>4, <1>6, <1>8, <2>1, <2>2, <3>1, <3>2, <3>3
  <2> QED BY <2>3, <2>4
<1> QED BY <1>6, <1>9, <1>10 DEF AddressSound, u, v, w
-----------------------------------------------------------------------------
(* Soundness of a store speaks of the rest of the state only through the    *)
(* height, the boundaries and the window.                                   *)
LEMMA SoundUnchanged ==
  ASSUME UNCHANGED <<height, boundary, windowStart, settled>>
  PROVE  /\ \A a \in Delegator :
              AddressSound(branch'.limit[a], branch'.tally[a]) => AddressSound(branch.limit[a], branch.tally[a])'
         /\ \A a \in Delegator :
              AddressSound(store'.limit[a], store'.tally[a]) => AddressSound(store.limit[a], store.tally[a])'
  BY DEF AddressSound, RecordSound, WindowSound, Blocks, Limit

(* An empty record is sound with a window in which nothing was counted.     *)
LEMMA NoRecordSound ==
  ASSUME TypeOK, NEW t, t.lastPassed \in Nat, t.lastPassed <= height,
         t.inWindow = [k \in Kind |-> 0]
  PROVE  AddressSound(NoRecord, t)
<1>1. \A k \in Kind : Limit(k) \in Nat
  BY BoundaryAssumption DEF Limit, TypeOK
<1>2. RecordSound(NoRecord, t)
  BY <1>1 DEF RecordSound, NoRecord
<1>3. \A k \in Kind : t.inWindow[k] = 0
  BY Zenon
<1> QED BY <1>2, <1>3 DEF AddressSound, WindowSound

LEMMA InitSound == Init => IInv
<1> SUFFICES ASSUME Init PROVE IInv
  OBVIOUS
<1>1. NoRecord \in LimitPerAddr /\ NoTally \in Tally
  BY DEF NoRecord, NoTally, LimitPerAddr, Tally
<1>2. TypeOK
  BY <1>1, BoundaryAssumption DEF Init, TypeOK, Store
<1>3. AddressSound(NoRecord, NoTally)
  BY NoRecordSound, <1>2 DEF Init, NoTally
<1>4. StoreSound(store) /\ StoreSound(branch)
  BY <1>3 DEF Init, StoreSound
<1> QED BY <1>2, <1>4 DEF IInv

LEMMA StakingMsgUnlimitedStep ==
  ASSUME IInv, NEW a \in Delegator, NEW k \in Kind, StakingMsgUnlimited(a, k)
  PROVE  IInv'
<1> DEFINE u == UpdateLimitPerAddr(branch.limit[a])
           s == [branch.tally[a] EXCEPT !.lastPassed = height]
<1>1. /\ branch.limit \in [Delegator -> LimitPerAddr]
      /\ branch.tally \in [Delegator -> Tally]
  BY DEF IInv, TypeOK, Store
<1>2. u \in LimitPerAddr /\ AddressSound(u, s)
  BY <1>1, UncountedSound DEF IInv, StoreSound
<1>3. s \in Tally
  BY <1>1 DEF Tally, IInv, TypeOK
<1> HIDE DEF u, s
<1>4. /\ branch'.limit = [branch.limit EXCEPT ![a] = u]
      /\ branch'.tally = [branch.tally EXCEPT ![a] = s]
      /\ branch' = [limit |-> branch'.limit, tally |-> branch'.tally]
  BY <1>1 DEF StakingMsgUnlimited, u, s
<1>5. branch' \in Store
  BY <1>1, <1>2, <1>3, <1>4 DEF Store
<1>6. UNCHANGED <<height, boundary, store, windowStart, settled>>
  BY DEF StakingMsgUnlimited
<1>7. TypeOK'
  BY <1>5, <1>6 DEF IInv, TypeOK, StakingMsgUnlimited
<1>8. \A b \in Delegator : AddressSound(branch'.limit[b], branch'.tally[b])
  BY <1>1, <1>2, <1>4 DEF IInv, StoreSound
<1> QED BY <1>6, <1>7, <1>8, SoundUnchanged DEF IInv, StoreSound

LEMMA StakingMsgCountedStep ==
  ASSUME IInv, NEW a \in Delegator, NEW k \in Kind, StakingMsgCounted(a, k)
  PROVE  IInv'
<1> DEFINE v == IncrementCount(UpdateLimitPerAddr(branch.limit[a]), k)
           w == Tallied(branch.tally[a], k)
<1>1. /\ branch.limit \in [Delegator -> LimitPerAddr]
      /\ branch.tally \in [Delegator -> Tally]
  BY DEF IInv, TypeOK, Store
<1>2. v \in LimitPerAddr /\ AddressSound(v, w)
  BY <1>1, CountedSound DEF IInv, StoreSound, StakingMsgCounted, Limit
<1>3. w \in Tally
  BY <1>1 DEF Tally, Tallied, IInv, TypeOK
<1> HIDE DEF v, w
<1>4. /\ branch'.limit = [branch.limit EXCEPT ![a] = v]
      /\ branch'.tally = [branch.tally EXCEPT ![a] = w]
      /\ branch' = [limit |-> branch'.limit, tally |-> branch'.tally]
  BY <1>1 DEF StakingMsgCounted, v, w
<1>5. branch' \in Store
  BY <1>1, <1>2, <1>3, <1>4 DEF Store
<1>6. UNCHANGED <<height, boundary, store, windowStart, settled>>
  BY DEF StakingMsgCounted
<1>7. TypeOK'
  BY <1>5, <1>6 DEF IInv, TypeOK, StakingMsgCounted
<1>8. \A b \in Delegator : AddressSound(branch'.limit[b], branch'.tally[b])
  BY <1>1, <1>2, <1>4 DEF IInv, StoreSound
<1> QED BY <1>6, <1>7, <1>8, SoundUnchanged DEF IInv, StoreSound

(* A block only makes the past older.                                       *)
LEMMA NextBlockStep ==
  ASSUME IInv, NextBlock
  PROVE  IInv'
<1>1. height \in Nat /\ height' = height + 1
  BY DEF IInv, TypeOK, NextBlock
<1>2. UNCHANGED <<boundary, store, branch, txMsgs, windowStart, settled>>
  BY DEF NextBlock
<1>3. TypeOK'
  BY <1>1, <1>2 DEF IInv, TypeOK
<1>4. ASSUME NEW S \in Store, StoreSound(S), NEW a \in Delegator
      PROVE  AddressSound(S.limit[a], S.tally[a])'
  <2>1. S.tally[a].lastPassed \in Nat
    BY DEF Store, Tally
  <2>2. RecordSound(S.limit[a], S.tally[a])'
    BY <1>1, <1>2, <1>4, <2>1 DEF StoreSound, AddressSound, RecordSound, Limit
  <2>3. ASSUME NEW k \in Kind PROVE WindowSound(S.limit[a], S.tally[a], k)'
    BY <1>2, <1>4 DEF StoreSound, AddressSound, WindowSound, Blocks, Limit
  <2> QED BY <2>2, <2>3 DEF AddressSound
<1>5. StoreSound(store)' /\ StoreSound(branch)'
  BY <1>2, <1>4 DEF IInv, TypeOK, StoreSound
<1> QED BY <1>3, <1>5 DEF IInv

(* A restart leaves empty records, under whatever boundaries.               *)
LEMMA RestartStep ==
  ASSUME IInv, RestartFromGenesis
  PROVE  IInv'
<1>1. store.tally \in [Delegator -> Tally]
  BY DEF IInv, TypeOK, Store
<1>2. NoRecord \in LimitPerAddr /\ NoTally.inWindow = [k \in Kind |-> 0]
  BY DEF NoRecord, NoTally, LimitPerAddr
<1> DEFINE fresh(t) == [t EXCEPT !.inWindow = NoTally.inWindow]
<1>3. \A t \in Tally : /\ fresh(t) \in Tally
                      /\ fresh(t).lastPassed = t.lastPassed
                      /\ fresh(t).inWindow = [k \in Kind |-> 0]
  BY <1>2 DEF Tally
<1>4. /\ store'.limit = [a \in Delegator |-> NoRecord]
      /\ store'.tally = [a \in Delegator |-> fresh(store.tally[a])]
      /\ store' = [limit |-> store'.limit, tally |-> store'.tally]
      /\ branch' = store'
  BY DEF RestartFromGenesis
<1> HIDE DEF fresh
<1>5. ASSUME NEW a \in Delegator
      PROVE  /\ store'.limit[a] = NoRecord
             /\ store'.tally[a] \in Tally
             /\ store'.tally[a].lastPassed = store.tally[a].lastPassed
             /\ store'.tally[a].inWindow = [k \in Kind |-> 0]
  BY <1>1, <1>3, <1>4
<1>6. store' \in Store /\ branch' = store'
  BY <1>2, <1>5, <1>4 DEF Store
<1>7. TypeOK'
  BY <1>6 DEF IInv, TypeOK, RestartFromGenesis
<1>8. ASSUME NEW a \in Delegator PROVE AddressSound(store.limit[a], store.tally[a])'
  <2>1. store.tally[a].lastPassed \in Nat /\ store.tally[a].lastPassed <= height
    BY <1>1 DEF IInv, StoreSound, AddressSound, RecordSound, Tally
  <2>2. height' = height
    BY DEF RestartFromGenesis
  <2> DEFINE t == store'.tally[a]
  <2>3. t.lastPassed \in Nat /\ t.lastPassed <= height' /\ t.inWindow = [k \in Kind |-> 0]
    BY <1>5, <2>1, <2>2
  <2>4. \A k \in Kind : Limit(k)' \in Nat
    BY <1>7, BoundaryAssumption DEF Limit, TypeOK
  <2>5. RecordSound(store.limit[a], store.tally[a])'
    BY <1>5, <2>3, <2>4 DEF RecordSound, NoRecord
  <2>6. \A k \in Kind : t.inWindow[k] = 0
    BY <2>3, Zenon
  <2>7. \A k \in Kind : WindowSound(store.limit[a], store.tally[a], k)'
    BY <2>6 DEF WindowSound
  <2> QED BY <2>5, <2>7 DEF AddressSound
<1>9. StoreSound(store)'
  BY <1>8 DEF StoreSound
<1>10. StoreSound(branch)'
  BY <1>8, <1>6 DEF StoreSound, AddressSound, RecordSound, WindowSound
<1> QED BY <1>7, <1>9, <1>10 DEF IInv

LEMMA StepSound == IInv /\ [Next]_vars => IInv'
<1> SUFFICES ASSUME IInv, [Next]_vars PROVE IInv'
  OBVIOUS
<1>1. ASSUME NEW a \in Delegator, NEW k \in Kind,
             StakingMsgUnlimited(a, k) \/ StakingMsgCounted(a, k)
      PROVE  IInv'
  BY <1>1, StakingMsgUnlimitedStep, StakingMsgCountedStep
<1>2. CASE AntePass
  <2>1. TypeOK'
    BY <1>2 DEF IInv, TypeOK, AntePass
  <2>2. UNCHANGED <<height, boundary, windowStart, settled>> /\ store' = branch /\ branch' = branch
    BY <1>2 DEF AntePass
  <2> QED BY <2>1, <2>2, SoundUnchanged DEF IInv, StoreSound
<1>3. CASE AnteFail
  <2>1. TypeOK'
    BY <1>3 DEF IInv, TypeOK, AnteFail
  <2>2. UNCHANGED <<height, boundary, windowStart, settled>> /\ branch' = store /\ store' = store
    BY <1>3 DEF AnteFail
  <2> QED BY <2>1, <2>2, SoundUnchanged DEF IInv, StoreSound
<1>4. CASE NextBlock
  BY <1>4, NextBlockStep
<1>5. CASE RestartFromGenesis
  BY <1>5, RestartStep
<1>6. CASE UNCHANGED vars
  <2>1. TypeOK'
    BY <1>6 DEF IInv, TypeOK, vars
  <2>2. UNCHANGED <<height, boundary, windowStart, settled, store, branch>>
    BY <1>6 DEF vars
  <2> QED BY <2>1, <2>2, SoundUnchanged DEF IInv, StoreSound
<1> QED BY <1>1, <1>2, <1>3, <1>4, <1>5, <1>6 DEF Next
-----------------------------------------------------------------------------
THEOREM Invariance == Spec => []IInv
  BY InitSound, StepSound, PTL DEF Spec

(* Records and counters always have their types: the unsigned subtraction   *)
(* of what regenerated never goes below zero (TypeOK).                      *)
THEOREM TxBoundaryTypeCorrect == Spec => []TypeOK
<1>1. IInv => TypeOK
  BY DEF IInv
<1> QED BY <1>1, Invariance, PTL

(* The rate the boundaries promise holds in every run of consecutive        *)
(* blocks, for every limit and pace (WindowBounded).                        *)
THEOREM WindowsBounded == Spec => []WindowBounded
<1>1. ASSUME IInv PROVE WindowBounded
  <2> SUFFICES ASSUME NEW a \in Delegator, NEW k \in Kind, settled
               PROVE  store.tally[a].inWindow[k]
                        <= Limit(k) + (Window + Blocks - 2) \div Blocks
    BY DEF WindowBounded, Limit, Blocks
  <2> DEFINE n == store.tally[a].inWindow[k]
  <2>1. n \in Nat
    BY <1>1 DEF IInv, TypeOK, Store, Tally
  <2>2. Blocks \in Nat \ {0} /\ Limit(k) \in Nat /\ Window \in Nat \ {0}
    BY <1>1, BoundaryAssumption DEF IInv, TypeOK, Limit, Blocks, Kind
  <2>3. n > 0 => Blocks * (n - Limit(k)) <= Window + Blocks - 2
    BY <1>1 DEF IInv, StoreSound, AddressSound, WindowSound
  <2> HIDE DEF n
  <2>4. Window + Blocks - 2 \in Nat /\ n - Limit(k) \in Int
    BY <2>1, <2>2
  <2>5. n > 0 => n - Limit(k) <= (Window + Blocks - 2) \div Blocks
    BY <2>2, <2>3, <2>4, QuotientLargest
  <2>6. (Window + Blocks - 2) \div Blocks \in Nat
    BY <2>2, <2>4, SMT
  <2> QED BY <2>1, <2>2, <2>5, <2>6 DEF n
<1> QED BY <1>1, Invariance, PTL

(* Nobody is denied for what they sent a generation or more ago: a counter  *)
(* is never above its limit (DenialIsRecent).                               *)
THEOREM DenialsRecent == Spec => []DenialIsRecent
<1>1. ASSUME IInv PROVE DenialIsRecent
  <2> SUFFICES ASSUME NEW a \in Delegator, NEW k \in Kind, Denied(a, k)
               PROVE  height < store.tally[a].lastPassed + Blocks
    BY DEF DenialIsRecent, Blocks
  <2> DEFINE r == store.limit[a]
             u == UpdateLimitPerAddr(r)
  <2>1. /\ TypeOK /\ r \in LimitPerAddr /\ store.tally[a].lastPassed \in Nat
        /\ height \in Nat /\ Blocks \in Nat \ {0} /\ Limit(k) \in Nat
    BY <1>1, BoundaryAssumption DEF IInv, TypeOK, Store, Tally, Limit, Blocks, Kind
  <2>2. /\ r.latestUpdateBlock <= store.tally[a].lastPassed
        /\ store.tally[a].lastPassed <= height
        /\ r.latestUpdateBlock = 0 => r.count[k] = 0
        /\ r.count[k] <= Limit(k)
    BY <1>1 DEF IInv, StoreSound, AddressSound, RecordSound
  <2>3. /\ r.count \in [Kind -> Nat] /\ r.latestUpdateBlock \in Nat
    BY <2>1 DEF LimitPerAddr
  <2>4. r.latestUpdateBlock <= height
    BY <2>1, <2>2, <2>3
  <2>5. /\ u \in LimitPerAddr
        /\ r.latestUpdateBlock # 0 => height < u.latestUpdateBlock + Blocks
        /\ r.latestUpdateBlock = 0 => u = r
        /\ u.count[k] <= r.count[k]
        /\ u # r => u.count[k] < r.count[k] \/ u.count[k] = 0
    BY <2>1, <2>4, UpdateLimitMoves
  <2>6. Limit(k) # 0 /\ u.count[k] >= Limit(k)
    BY DEF Denied, Limit
  <2> HIDE DEF u
  <2>7. u.count[k] \in Nat /\ u.latestUpdateBlock \in Nat
    BY <2>5 DEF LimitPerAddr
  <2>8. u = r /\ r.latestUpdateBlock # 0
    BY <2>1, <2>2, <2>3, <2>5, <2>6, <2>7
  <2> QED BY <2>1, <2>2, <2>3, <2>5, <2>8
<1> QED BY <1>1, Invariance, PTL
=============================================================================
