---------------------- MODULE TransferMiddlewareProofs ----------------------
(***************************************************************************)
(* Proofs about x/transfermiddleware: first its registry, whose infos are  *)
(* kept until their notice has run out, then the bridge: its types, the    *)
(* backing of the native coins it mints, the total supply shared with the  *)
(* counterparty, the escrow accounts' cover, the refunds, and that it      *)
(* implements SharedLedger.                                                *)
(*                                                                         *)
(* Two invariants carry the bridge. BridgeInv, on top of RegistryInv, is   *)
(* Backing made inductive: a conversion looks its info up by the native    *)
(* denomination, a receipt by the asset id and a refund by the voucher,    *)
(* and only the agreement of those keys makes the three move the same pair *)
(* of coins. ConservedInv adds that what the accounts hold of a coin adds  *)
(* up to its supply, and that every voucher is abroad, on its way or in an *)
(* account here.                                                           *)
(***************************************************************************)
EXTENDS TransferMiddleware, SumProofs

-----------------------------------------------------------------------------
(* The registry: its type invariant, that its three keys always agree, and  *)
(* that an info is kept until its notice has run out, for any catalogue.    *)
(* Type correctness and the agreement of the keys are inductive together.   *)

RegistryInv == RegistryTypeOK /\ IndexAgreement

(* A catalogue info is not the empty info, and its fields are keys.         *)
LEMMA CatalogueInfo ==
  ASSUME NEW e \in Catalogue
  PROVE  /\ e # EmptyInfo
         /\ e.native \in Native /\ e.native # Empty
         /\ e.ibc \in Ibc /\ e.ibc # Empty
         /\ e.asset \in Asset /\ e.asset # Empty
         /\ e.channel \in Channel /\ e.channel # Empty
BY RegistryAssumption DEF TokenInfo, EmptyInfo

(* The empty registry is well formed.                                       *)
LEMMA RegistryInitInv == RegistryInit => RegistryInv
BY RegistryAssumption
   DEF RegistryInit, RegistryInv, RegistryTypeOK, IndexAgreement, HasNative, EmptyInfo

(* Adding an info keeps the keys in agreement (AddParachainIBCInfo).        *)
LEMMA AddKeepsInv ==
  ASSUME RegistryInv, NEW info \in Catalogue, AddParachainIBCInfo(info)
  PROVE  RegistryInv'
<1>1. /\ info # EmptyInfo
      /\ info.native \in Native /\ info.native # Empty
      /\ info.ibc \in Ibc /\ info.asset \in Asset
  BY CatalogueInfo
<1>2. RegistryTypeOK'
  BY <1>1 DEF RegistryInv, RegistryTypeOK, AddParachainIBCInfo
<1>3. /\ infoByNative' = [infoByNative EXCEPT ![info.native] = info]
      /\ infoByAsset' = [infoByAsset EXCEPT ![info.asset] = info]
      /\ nativeByIbc' = [nativeByIbc EXCEPT ![info.ibc] = info.native]
      /\ infoByAsset[info.asset] = EmptyInfo
      /\ nativeByIbc[info.ibc] = Empty
      /\ infoByNative[info.native] = EmptyInfo
  BY DEF AddParachainIBCInfo, KeysFree
<1>4. ASSUME NEW n \in Native, HasNative(n)'
      PROVE  /\ infoByNative'[n].native = n
             /\ infoByAsset'[infoByNative'[n].asset] = infoByNative'[n]
             /\ nativeByIbc'[infoByNative'[n].ibc] = n
  <2>1. CASE n = info.native
    BY <2>1, <1>1, <1>3 DEF RegistryInv, RegistryTypeOK
  <2>2. CASE n # info.native
    <3>1. infoByNative'[n] = infoByNative[n] /\ HasNative(n)
      BY <2>2, <1>3, <1>4 DEF HasNative, RegistryInv, RegistryTypeOK
    <3>2. infoByNative[n] \in Catalogue
      BY <3>1 DEF RegistryInv, RegistryTypeOK, HasNative
    <3>3. /\ infoByNative[n].native = n
          /\ infoByAsset[infoByNative[n].asset] = infoByNative[n]
          /\ nativeByIbc[infoByNative[n].ibc] = n
      BY <3>1 DEF RegistryInv, IndexAgreement
    <3>4. n # Empty /\ infoByNative[n] # EmptyInfo
      BY <3>1, RegistryAssumption DEF HasNative
    <3>5. infoByNative[n].asset # info.asset /\ infoByNative[n].ibc # info.ibc
      BY <3>3, <3>4, <1>3
    <3> QED
      BY <3>1, <3>2, <3>3, <3>5, <1>3, CatalogueInfo DEF RegistryInv, RegistryTypeOK
  <2> QED
    BY <2>1, <2>2
<1>5. ASSUME NEW a \in Asset, infoByAsset'[a] # EmptyInfo
      PROVE  /\ infoByAsset'[a].asset = a
             /\ infoByNative'[infoByAsset'[a].native] = infoByAsset'[a]
  <2>1. CASE a = info.asset
    BY <2>1, <1>1, <1>3 DEF RegistryInv, RegistryTypeOK
  <2>2. CASE a # info.asset
    <3>1. infoByAsset'[a] = infoByAsset[a] /\ infoByAsset[a] # EmptyInfo
      BY <2>2, <1>3, <1>5 DEF RegistryInv, RegistryTypeOK
    <3>2. infoByAsset[a].asset = a /\ infoByNative[infoByAsset[a].native] = infoByAsset[a]
      BY <3>1 DEF RegistryInv, IndexAgreement
    <3>3. infoByAsset[a].native # info.native
      BY <3>1, <3>2, <1>3
    <3> QED
      BY <3>1, <3>2, <3>3, <1>1, <1>3, CatalogueInfo DEF RegistryInv, RegistryTypeOK
  <2> QED
    BY <2>1, <2>2
<1>6. ASSUME NEW v \in Ibc, nativeByIbc'[v] # Empty
      PROVE  infoByNative'[nativeByIbc'[v]].ibc = v
  <2>1. CASE v = info.ibc
    BY <2>1, <1>1, <1>3 DEF RegistryInv, RegistryTypeOK
  <2>2. CASE v # info.ibc
    <3>1. nativeByIbc'[v] = nativeByIbc[v] /\ nativeByIbc[v] \in Native
      BY <2>2, <1>3, <1>6 DEF RegistryInv, RegistryTypeOK
    <3>2. infoByNative[nativeByIbc[v]].ibc = v
      BY <3>1, <1>6 DEF RegistryInv, IndexAgreement
    <3>3. v # Empty
      BY RegistryAssumption
    <3>4. nativeByIbc[v] # info.native
      BY <3>2, <3>3, <1>3 DEF EmptyInfo
    <3> QED
      BY <3>1, <3>2, <3>4, <1>1, <1>3 DEF RegistryInv, RegistryTypeOK
  <2> QED
    BY <2>1, <2>2
<1>7. IndexAgreement'
  BY <1>4, <1>5, <1>6 DEF IndexAgreement
<1> QED
  BY <1>2, <1>7 DEF RegistryInv

(* Removing any set of registered infos keeps the keys in agreement         *)
(* (RemoveParachainIBCInfo).                                                *)
LEMMA RemoveKeepsInv ==
  ASSUME RegistryInv, NEW S \in SUBSET Native, \A n \in S : HasNative(n),
         RemoveParachainIBCInfo(S), UNCHANGED allowedRelayer,
         removeList' \in [Native -> SUBSET Int],
         \A n \in Native : \A r, s \in removeList'[n] : r = s
  PROVE  RegistryInv'
<1>1. RegistryTypeOK'
  BY DEF RegistryInv, RegistryTypeOK, RemoveParachainIBCInfo
<1>2. IndexAgreement'
  <2>1. ASSUME NEW n \in Native, HasNative(n)'
        PROVE  /\ infoByNative'[n].native = n
               /\ infoByAsset'[infoByNative'[n].asset] = infoByNative'[n]
               /\ nativeByIbc'[infoByNative'[n].ibc] = n
    <3>1. n \notin S /\ infoByNative'[n] = infoByNative[n] /\ HasNative(n)
      BY <2>1 DEF RemoveParachainIBCInfo, HasNative
    <3>2. infoByNative[n] \in Catalogue
      BY <3>1 DEF RegistryInv, RegistryTypeOK, HasNative
    <3>3. \A m \in S : /\ infoByNative[m].asset # infoByNative[n].asset
                       /\ infoByNative[m].ibc # infoByNative[n].ibc
      BY <3>1 DEF RegistryInv, IndexAgreement
    <3> QED
      BY <3>1, <3>2, <3>3, CatalogueInfo DEF RemoveParachainIBCInfo, RegistryInv, IndexAgreement
  <2>2. ASSUME NEW a \in Asset, infoByAsset'[a] # EmptyInfo
        PROVE  /\ infoByAsset'[a].asset = a
               /\ infoByNative'[infoByAsset'[a].native] = infoByAsset'[a]
    <3>1. infoByAsset'[a] = infoByAsset[a] /\ \A n \in S : infoByNative[n].asset # a
      BY <2>2 DEF RemoveParachainIBCInfo
    <3>2. infoByAsset[a] \in Catalogue /\ infoByAsset[a].native \in Native
      BY <2>2, <3>1, CatalogueInfo DEF RegistryInv, RegistryTypeOK
    <3>3. infoByAsset[a].asset = a /\ infoByNative[infoByAsset[a].native] = infoByAsset[a]
      BY <2>2, <3>1 DEF RegistryInv, IndexAgreement
    <3>4. infoByAsset[a].native \notin S
      BY <3>1, <3>3
    <3> QED
      BY <3>1, <3>2, <3>3, <3>4 DEF RemoveParachainIBCInfo
  <2>3. ASSUME NEW v \in Ibc, nativeByIbc'[v] # Empty
        PROVE  infoByNative'[nativeByIbc'[v]].ibc = v
    <3>1. nativeByIbc'[v] = nativeByIbc[v] /\ \A n \in S : infoByNative[n].ibc # v
      BY <2>3 DEF RemoveParachainIBCInfo
    <3>2. nativeByIbc[v] \in Native /\ infoByNative[nativeByIbc[v]].ibc = v
      BY <2>3, <3>1 DEF RegistryInv, RegistryTypeOK, IndexAgreement
    <3> QED
      BY <3>1, <3>2 DEF RemoveParachainIBCInfo
  <2> QED
    BY <2>1, <2>2, <2>3 DEF IndexAgreement
<1> QED
  BY <1>1, <1>2 DEF RegistryInv

(* Exporting and importing the genesis rebuilds the three keys as they were *)
(* (ExportGenesis, InitGenesis); only the queue and the allow list go.      *)
LEMMA RestartKeepsKeys ==
  ASSUME RegistryInv, RestartFromGenesis
  PROVE  UNCHANGED <<infoByNative, infoByAsset, nativeByIbc>>
<1> DEFINE X == ExportGenesis
<1>1. \A i \in X : /\ i \in Catalogue /\ i # EmptyInfo
                   /\ i.native \in Native /\ i.asset \in Asset /\ i.ibc \in Ibc
                   /\ infoByNative[i.native] = i /\ infoByAsset[i.asset] = i
                   /\ nativeByIbc[i.ibc] = i.native
  <2>1. ASSUME NEW a \in Asset, infoByAsset[a] # EmptyInfo
        PROVE  LET i == infoByAsset[a]
               IN  /\ i \in Catalogue
                   /\ i.native \in Native /\ i.asset = a /\ i.ibc \in Ibc
                   /\ infoByNative[i.native] = i /\ nativeByIbc[i.ibc] = i.native
    BY <2>1, CatalogueInfo DEF RegistryInv, RegistryTypeOK, IndexAgreement, HasNative
  <2> QED
    BY <2>1 DEF ExportGenesis
<1>2. \A n \in Native : HasNative(n) => infoByNative[n] \in X /\ infoByNative[n].native = n
  BY CatalogueInfo
     DEF RegistryInv, RegistryTypeOK, IndexAgreement, HasNative, ExportGenesis
<1>3. \A a \in Asset : infoByAsset[a] # EmptyInfo => infoByAsset[a] \in X /\ infoByAsset[a].asset = a
  BY DEF RegistryInv, IndexAgreement, ExportGenesis
<1>4. \A v \in Ibc : nativeByIbc[v] # Empty =>
        \E i \in X : i.ibc = v /\ i.native = nativeByIbc[v]
  <2> SUFFICES ASSUME NEW v \in Ibc, nativeByIbc[v] # Empty
               PROVE  \E i \in X : i.ibc = v /\ i.native = nativeByIbc[v]
    OBVIOUS
  <2>1. nativeByIbc[v] \in Native /\ infoByNative[nativeByIbc[v]].ibc = v
    BY DEF RegistryInv, RegistryTypeOK, IndexAgreement
  <2>2. HasNative(nativeByIbc[v])
    BY <2>1, RegistryAssumption DEF HasNative, EmptyInfo
  <2> QED
    BY <2>1, <2>2, <1>2
<1>5. infoByNative' = infoByNative
  <2>1. ASSUME NEW n \in Native
        PROVE  (IF \E i \in X : i.native = n THEN CHOOSE i \in X : i.native = n ELSE EmptyInfo)
                 = infoByNative[n]
    BY <1>1, <1>2 DEF HasNative
  <2> HIDE DEF X
  <2>2. infoByNative' = [n \in Native |->
          IF \E i \in X : i.native = n THEN CHOOSE i \in X : i.native = n ELSE EmptyInfo]
    BY DEF RestartFromGenesis, InitGenesis, X
  <2> QED
    BY <2>1, <2>2 DEF RegistryInv, RegistryTypeOK
<1>6. infoByAsset' = infoByAsset
  <2>1. ASSUME NEW a \in Asset
        PROVE  (IF \E i \in X : i.asset = a THEN CHOOSE i \in X : i.asset = a ELSE EmptyInfo)
                 = infoByAsset[a]
    BY <1>1, <1>3
  <2> HIDE DEF X
  <2>2. infoByAsset' = [a \in Asset |->
          IF \E i \in X : i.asset = a THEN CHOOSE i \in X : i.asset = a ELSE EmptyInfo]
    BY DEF RestartFromGenesis, InitGenesis, X
  <2> QED
    BY <2>1, <2>2 DEF RegistryInv, RegistryTypeOK
<1>7. nativeByIbc' = nativeByIbc
  <2>1. ASSUME NEW v \in Ibc
        PROVE  (IF \E i \in X : i.ibc = v THEN (CHOOSE i \in X : i.ibc = v).native ELSE Empty)
                 = nativeByIbc[v]
    <3>1. CASE \E i \in X : i.ibc = v
      <4> DEFINE i0 == CHOOSE i \in X : i.ibc = v
      <4>1. i0 \in X /\ i0.ibc = v
        BY <3>1
      <4>2. nativeByIbc[v] = i0.native
        BY <4>1, <1>1
      <4> QED
        BY <3>1, <4>2
    <3>2. CASE ~\E i \in X : i.ibc = v
      BY <3>2, <1>4
    <3> QED
      BY <3>1, <3>2
  <2> HIDE DEF X
  <2>2. nativeByIbc' = [v \in Ibc |->
          IF \E i \in X : i.ibc = v THEN (CHOOSE i \in X : i.ibc = v).native ELSE Empty]
    BY DEF RestartFromGenesis, InitGenesis, X
  <2> QED
    BY <2>1, <2>2 DEF RegistryInv, RegistryTypeOK
<1> QED
  BY <1>5, <1>6, <1>7

(* Exporting the registry and importing it again keeps the invariant.       *)
LEMMA RestartKeepsInv ==
  ASSUME RegistryInv, RestartFromGenesis
  PROVE  RegistryInv'
<1>1. UNCHANGED <<infoByNative, infoByAsset, nativeByIbc>>
  BY RestartKeepsKeys
<1>2. allowedRelayer' = {} /\ removeList' = [n \in Native |-> {}]
  BY DEF RestartFromGenesis, InitGenesis
<1> QED
  BY <1>1, <1>2 DEF RegistryInv, RegistryTypeOK, IndexAgreement, HasNative

(* The list keeps one time for a denomination as time passes.               *)
LEMMA TimePasses ==
  ASSUME RegistryInv, NEW dt \in Elapsed, BeginBlocker(dt)
  PROVE  /\ removeList' \in [Native -> SUBSET Int]
         /\ \A n \in Native : \A r, s \in removeList'[n] : r = s
<1>1. /\ removeList \in [Native -> SUBSET Int]
      /\ \A n \in Native : \A r, s \in removeList[n] : r = s
  BY DEF RegistryInv, RegistryTypeOK
<1>2. removeList' = [n \in Native |-> {Remaining(r, dt) : r \in removeList[n]}]
  BY DEF BeginBlocker
<1>3. \A r \in Int : Remaining(r, dt) \in Int
  BY RegistryAssumption DEF Remaining
<1> QED
  BY <1>1, <1>2, <1>3

(* Every step of the registry keeps the invariant.                          *)
LEMMA RegistryStepInv == RegistryInv /\ [RegistryNext]_registryVars => RegistryInv'
<1> SUFFICES ASSUME RegistryInv, [RegistryNext]_registryVars
             PROVE  RegistryInv'
  OBVIOUS
<1>1. ASSUME NEW info \in Catalogue, AddParachainIBCInfo(info)
      PROVE  RegistryInv'
  BY <1>1, AddKeepsInv
<1>2. ASSUME NEW n \in Native, NEW d \in Notice, AddParachainIBCInfoToRemoveList(n, d)
      PROVE  RegistryInv'
  <2>1. d \in Int
    BY RegistryAssumption
  <2> QED
    BY <1>2, <2>1 DEF RegistryInv, RegistryTypeOK, IndexAgreement, HasNative,
                      AddParachainIBCInfoToRemoveList
<1>3. ASSUME NEW r \in Relayer, AddRlyAddress(r)
      PROVE  RegistryInv'
  BY <1>3 DEF RegistryInv, RegistryTypeOK, IndexAgreement, HasNative, AddRlyAddress
<1>4. ASSUME NEW dt \in Elapsed, BeginBlocker(dt)
      PROVE  RegistryInv'
  <2>1. Expired(dt) \in SUBSET Native /\ \A n \in Expired(dt) : HasNative(n)
    BY DEF Expired
  <2>2. /\ removeList' \in [Native -> SUBSET Int]
        /\ \A n \in Native : \A r, s \in removeList'[n] : r = s
    BY <1>4, TimePasses
  <2> QED
    BY <1>4, <2>1, <2>2, RemoveKeepsInv DEF BeginBlocker
<1>5. CASE RestartFromGenesis
  BY <1>5, RestartKeepsInv
<1>6. CASE UNCHANGED registryVars
  BY <1>6 DEF RegistryInv, RegistryTypeOK, IndexAgreement, HasNative, registryVars
<1> QED
  BY <1>1, <1>2, <1>3, <1>4, <1>5, <1>6 DEF RegistryNext, GovernanceTx, NewBlock

(* The registry is type correct and its three keys agree in every state.    *)
THEOREM RegistryInvariant == RegistrySpec => [](RegistryTypeOK /\ IndexAgreement)
<1>1. RegistrySpec => []RegistryInv
  BY RegistryInitInv, RegistryStepInv, PTL DEF RegistrySpec
<1> QED
  BY <1>1, PTL DEF RegistryInv

(* The store's keys and lists always have their types (RegistryTypeOK).      *)
THEOREM RegistryTypeCorrect == RegistrySpec => []RegistryTypeOK
BY RegistryInvariant, PTL

(* An info is kept until a notice for its denomination has run out.         *)
THEOREM InfoKept == RegistrySpec => InfoKeptUntilNotice
<1> DEFINE Kept == \A n \in Native : HasNative(n) /\ infoByNative'[n] # infoByNative[n] =>
                     /\ infoByNative'[n] = EmptyInfo
                     /\ \E r \in removeList'[n] : r < 0
<1>1. ASSUME RegistryInv, [RegistryNext]_registryVars
      PROVE  [Kept]_registryVars
  <2> SUFFICES ASSUME NEW n \in Native, HasNative(n), infoByNative'[n] # infoByNative[n]
               PROVE  /\ infoByNative'[n] = EmptyInfo
                      /\ \E r \in removeList'[n] : r < 0
    OBVIOUS
  <2>1. ASSUME NEW info \in Catalogue, AddParachainIBCInfo(info)
        PROVE  FALSE
    BY <2>1, CatalogueInfo
       DEF AddParachainIBCInfo, KeysFree, HasNative, RegistryInv, RegistryTypeOK
  <2>2. ASSUME NEW dt \in Elapsed, BeginBlocker(dt)
        PROVE  /\ infoByNative'[n] = EmptyInfo
               /\ \E r \in removeList'[n] : r < 0
    <3>1. n \in Expired(dt) /\ infoByNative'[n] = EmptyInfo
      BY <2>2 DEF BeginBlocker, RemoveParachainIBCInfo, Expired
    <3>2. PICK r \in removeList[n] : dt > r
      BY <3>1 DEF Expired
    <3>3. r \in Int /\ dt \in Nat
      BY <1>1, RegistryAssumption DEF RegistryInv, RegistryTypeOK
    <3>4. Remaining(r, dt) = -1
      BY <3>2, <3>3 DEF Remaining
    <3>5. Remaining(r, dt) \in removeList'[n]
      BY <2>2 DEF BeginBlocker
    <3> QED
      BY <3>1, <3>4, <3>5
  <2>3. ~RestartFromGenesis
    BY <1>1, RestartKeepsKeys
  <2>4. \A m \in Native, d \in Notice : ~AddParachainIBCInfoToRemoveList(m, d)
    BY DEF AddParachainIBCInfoToRemoveList
  <2>5. \A r \in Relayer : ~AddRlyAddress(r)
    BY DEF AddRlyAddress
  <2>6. ~UNCHANGED registryVars
    BY DEF registryVars
  <2> QED
    BY <1>1, <2>1, <2>2, <2>3, <2>4, <2>5, <2>6 DEF RegistryNext, GovernanceTx, NewBlock
<1>2. RegistrySpec => []RegistryInv
  BY RegistryInitInv, RegistryStepInv, PTL DEF RegistrySpec
<1> QED
  BY <1>1, <1>2, PTL DEF RegistrySpec, InfoKeptUntilNotice

-----------------------------------------------------------------------------
(* What the bank operators do to each balance and each supply.  The proofs  *)
(* about the handlers use these facts and never open the operators.         *)

(* A covered send yields a ledger, moves x and leaves every supply alone.   *)
LEMMA SendCoinsEffect ==
  ASSUME NEW L \in Ledger, NEW from \in Account, NEW to \in Account,
         NEW d \in Denom, NEW x \in Nat, CanSpend(L, from, d, x)
  PROVE  LET M == SendCoins(L, from, to, d, x)
         IN  /\ M \in Ledger
             /\ M.supply = L.supply
             /\ \A a \in Account, e \in Denom :
                  M.bal[a][e] = L.bal[a][e] - (IF a = from /\ e = d THEN x ELSE 0)
                                            + (IF a = to /\ e = d THEN x ELSE 0)
<1> DEFINE debited == [L.bal EXCEPT ![from][d] = @ - x]
           credited == [debited EXCEPT ![to][d] = @ + x]
           M == SendCoins(L, from, to, d, x)
<1>1. L.bal \in [Account -> [Denom -> Nat]] /\ L.supply \in [Denom -> Int]
  BY DEF Ledger
<1>2. /\ debited \in [Account -> [Denom -> Nat]]
      /\ \A a \in Account, e \in Denom :
           debited[a][e] = L.bal[a][e] - (IF a = from /\ e = d THEN x ELSE 0)
  BY <1>1 DEF CanSpend
<1> HIDE DEF debited
<1>3. /\ credited \in [Account -> [Denom -> Nat]]
      /\ \A a \in Account, e \in Denom :
           credited[a][e] = debited[a][e] + (IF a = to /\ e = d THEN x ELSE 0)
  BY <1>2
<1>4. M = [L EXCEPT !.bal = credited]
  BY DEF SendCoins, debited
<1> HIDE DEF credited, M
<1>5. M.bal = credited /\ M.supply = L.supply /\ M \in Ledger
  BY <1>1, <1>3, <1>4 DEF Ledger
<1>6. \A a \in Account, e \in Denom :
        M.bal[a][e] = L.bal[a][e] - (IF a = from /\ e = d THEN x ELSE 0)
                                  + (IF a = to /\ e = d THEN x ELSE 0)
  BY <1>1, <1>2, <1>3, <1>5
<1> QED
  BY <1>5, <1>6 DEF M

(* Minting adds x to one balance and to one supply.                         *)
LEMMA MintToEffect ==
  ASSUME NEW L \in Ledger, NEW a \in Account, NEW d \in Denom, NEW x \in Nat
  PROVE  LET M == MintTo(L, a, d, x)
         IN  /\ M \in Ledger
             /\ \A e \in Denom : M.supply[e] = L.supply[e] + (IF e = d THEN x ELSE 0)
             /\ \A b \in Account, e \in Denom :
                  M.bal[b][e] = L.bal[b][e] + (IF b = a /\ e = d THEN x ELSE 0)
<1>1. L.bal \in [Account -> [Denom -> Nat]] /\ L.supply \in [Denom -> Int]
  BY DEF Ledger
<1> QED
  BY <1>1 DEF Ledger, MintTo

(* Burning covered coins takes x from one balance and from one supply.      *)
LEMMA BurnFromEffect ==
  ASSUME NEW L \in Ledger, NEW a \in Account, NEW d \in Denom, NEW x \in Nat,
         CanSpend(L, a, d, x)
  PROVE  LET M == BurnFrom(L, a, d, x)
         IN  /\ M \in Ledger
             /\ \A e \in Denom : M.supply[e] = L.supply[e] - (IF e = d THEN x ELSE 0)
             /\ \A b \in Account, e \in Denom :
                  M.bal[b][e] = L.bal[b][e] - (IF b = a /\ e = d THEN x ELSE 0)
<1>1. L.bal \in [Account -> [Denom -> Nat]] /\ L.supply \in [Denom -> Int]
  BY DEF Ledger
<1> QED
  BY <1>1 DEF Ledger, BurnFrom, CanSpend

-----------------------------------------------------------------------------
(* Balances of d, and what they add up to.                                  *)
Purses(L, d) == [a \in Account |-> L.bal[a][d]]
Circulating(L, d) == SumFunctionOnSet(Purses(L, d), Account)
BooksBalance(L) == \A d \in Denom : Circulating(L, d) = L.supply[d]

(* Users sign and channels have escrow accounts: there are finitely many.  *)
LEMMA FiniteAccounts == IsFiniteSet(Account)
BY TransferAssumption, FS_Union

(* Taking x from one account and giving y to another changes the sum by     *)
(* the difference, in the denomination concerned.                           *)
LEMMA CirculatingType ==
  ASSUME NEW L \in Ledger PROVE \A d \in Denom : Circulating(L, d) \in Int
<1> TAKE d \in Denom
<1>1. \A a \in Account : Purses(L, d)[a] \in Int
  BY DEF Ledger, Purses
<1> QED
  BY <1>1, FiniteAccounts, SumType DEF Circulating

(* M differs from L in what is paid out of one account and into another,   *)
(* and in what that adds to or takes from the supply.                      *)
Moved(L, M, from, x, to, y, d) ==
  \A b \in Account, f \in Denom :
    M.bal[b][f] = L.bal[b][f] - (IF b = from /\ f = d THEN x ELSE 0)
                              + (IF b = to /\ f = d THEN y ELSE 0)

(* Such a step changes what the accounts hold together by what is paid in  *)
(* less what is paid out, also when both accounts are the same.            *)
LEMMA CirculatingMove ==
  ASSUME NEW L \in Ledger, NEW M \in Ledger, NEW from \in Account, NEW to \in Account,
         NEW d \in Denom, NEW x \in Nat, NEW y \in Nat, Moved(L, M, from, x, to, y, d)
  PROVE  \A f \in Denom : Circulating(M, f) = Circulating(L, f) + (IF f = d THEN y - x ELSE 0)
<1> TAKE f \in Denom
<1> DEFINE less == IF f = d THEN x ELSE 0
           more == IF f = d THEN y ELSE 0
           p == Purses(L, f)
           q == [b \in Account |-> IF b = from THEN p[b] - less ELSE p[b]]
           r == Purses(M, f)
<1>1. less \in Nat /\ more \in Nat
  OBVIOUS
<1>2. \A b \in Account : p[b] \in Nat /\ r[b] \in Nat
  BY DEF Ledger, Purses
<1>3. \A b \in Account : q[b] = IF b = from THEN p[b] - less ELSE p[b]
  OBVIOUS
<1>4. \A b \in Account : r[b] = p[b] - (IF b = from THEN less ELSE 0) + (IF b = to THEN more ELSE 0)
  BY DEF Purses, Moved
<1>5. /\ f = d => less = x /\ more = y
      /\ f # d => less = 0 /\ more = 0
  OBVIOUS
<1> HIDE DEF less, more, p, q, r
<1>6. \A b \in Account : q[b] \in Int /\ r[b] = q[b] + (IF b = to THEN more ELSE 0)
  BY <1>1, <1>2, <1>3, <1>4
<1>7. SumFunctionOnSet(q, Account) = SumFunctionOnSet(p, Account) - p[from] + q[from]
  <2>1. \A b \in Account : p[b] \in Int /\ q[b] \in Int /\ (b # from => q[b] = p[b])
    BY <1>2, <1>3, <1>6
  <2> QED
    BY <2>1, FiniteAccounts, SumChange
<1>8. SumFunctionOnSet(r, Account) = SumFunctionOnSet(q, Account) - q[to] + r[to]
  <2>1. \A b \in Account : q[b] \in Int /\ r[b] \in Int /\ (b # to => r[b] = q[b])
    BY <1>2, <1>6
  <2> QED
    BY <2>1, FiniteAccounts, SumChange
<1>9. p[from] \in Nat /\ q[from] = p[from] - less /\ q[to] \in Int /\ r[to] = q[to] + more
  BY <1>2, <1>3, <1>6
<1>12. SumFunctionOnSet(p, Account) \in Int
  BY <1>2, FiniteAccounts, SumType
<1>10. SumFunctionOnSet(r, Account) = SumFunctionOnSet(p, Account) + (more - less)
  BY <1>1, <1>7, <1>8, <1>9, <1>12
<1>11. Circulating(L, f) = SumFunctionOnSet(p, Account) /\ Circulating(M, f) = SumFunctionOnSet(r, Account)
  BY DEF Circulating, p, r
<1> QED
  BY <1>1, <1>5, <1>10, <1>11, <1>12

(* The three bank operations keep the books balanced.                       *)
LEMMA SendKeepsBooks ==
  ASSUME NEW L \in Ledger, NEW from \in Account, NEW to \in Account,
         NEW d \in Denom, NEW x \in Nat, CanSpend(L, from, d, x), BooksBalance(L)
  PROVE  BooksBalance(SendCoins(L, from, to, d, x))
<1> DEFINE M == SendCoins(L, from, to, d, x)
<1>1. M \in Ledger /\ M.supply = L.supply /\ Moved(L, M, from, x, to, x, d)
  BY SendCoinsEffect DEF Moved
<1> HIDE DEF M
<1>2. \A f \in Denom : Circulating(M, f) = Circulating(L, f) + (IF f = d THEN x - x ELSE 0)
  BY <1>1, CirculatingMove
<1>3. BooksBalance(M)
  BY <1>1, <1>2, CirculatingType DEF BooksBalance
<1> QED
  BY <1>3 DEF M

(* Each bank call keeps the sum of the balances at the supply.             *)
LEMMA MintKeepsBooks ==
  ASSUME NEW L \in Ledger, NEW a \in Account, NEW d \in Denom, NEW x \in Nat, BooksBalance(L)
  PROVE  BooksBalance(MintTo(L, a, d, x))
<1> DEFINE M == MintTo(L, a, d, x)
<1>1. /\ M \in Ledger
      /\ \A f \in Denom : M.supply[f] = L.supply[f] + (IF f = d THEN x ELSE 0)
      /\ \A b \in Account, f \in Denom :
           M.bal[b][f] = L.bal[b][f] + (IF b = a /\ f = d THEN x ELSE 0)
  BY MintToEffect
<1> HIDE DEF M
<1>2. Moved(L, M, a, 0, a, x, d)
  BY <1>1 DEF Moved, Ledger
<1>3. \A f \in Denom : Circulating(M, f) = Circulating(L, f) + (IF f = d THEN x - 0 ELSE 0)
  BY <1>1, <1>2, CirculatingMove
<1>4. BooksBalance(M)
  BY <1>1, <1>3, CirculatingType DEF BooksBalance
<1> QED
  BY <1>4 DEF M

(* A burn takes the same out of the supply.                                 *)
LEMMA BurnKeepsBooks ==
  ASSUME NEW L \in Ledger, NEW a \in Account, NEW d \in Denom, NEW x \in Nat,
         CanSpend(L, a, d, x), BooksBalance(L)
  PROVE  BooksBalance(BurnFrom(L, a, d, x))
<1> DEFINE M == BurnFrom(L, a, d, x)
<1>1. /\ M \in Ledger
      /\ \A f \in Denom : M.supply[f] = L.supply[f] - (IF f = d THEN x ELSE 0)
      /\ \A b \in Account, f \in Denom :
           M.bal[b][f] = L.bal[b][f] - (IF b = a /\ f = d THEN x ELSE 0)
  BY BurnFromEffect
<1> HIDE DEF M
<1>2. Moved(L, M, a, x, a, 0, d)
  BY <1>1 DEF Moved, Ledger
<1>3. \A f \in Denom : Circulating(M, f) = Circulating(L, f) + (IF f = d THEN 0 - x ELSE 0)
  BY <1>1, <1>2, CirculatingMove
<1>4. BooksBalance(M)
  BY <1>1, <1>3, CirculatingType DEF BooksBalance
<1> QED
  BY <1>4 DEF M

-----------------------------------------------------------------------------
(* The part of TypeOK that is not the registry's.                           *)
BridgeTypeOK ==
  /\ ledger \in Ledger
  /\ inflight \subseteq Packet
  /\ nextSeq \in [Channel -> Nat]
  /\ remote \in [Channel -> [Asset \cup Denom -> Nat]]
  /\ donated \in [Ibc -> Nat]

(* Backing, for any ledger and any gifts: a handler goes through ledgers   *)
(* that are not the state.                                                 *)
BackedBy(L, gifts) ==
  \A e \in Catalogue :
    L.bal[e.channel][e.ibc] = L.supply[e.native] - GenesisSupply[e.native] + gifts[e.ibc]

(* The names of a catalogue info as accounts and coins.                     *)
LEMMA CatalogueCoins ==
  ASSUME NEW e \in Catalogue
  PROVE  /\ e.channel \in Channel /\ e.channel \in Account /\ e.channel \notin User
         /\ e.native \in Native /\ e.native \in Denom /\ e.native \notin Ibc
         /\ e.ibc \in Ibc /\ e.ibc \in Denom /\ e.ibc \notin Native
         /\ e.asset \in Asset /\ e.ibc = <<e.channel, e.asset>> /\ e.ibc[1] = e.channel
         /\ \A c \in Channel : e.ibc \in VouchersOf(c) <=> c = e.channel
         /\ GenesisSupply[e.native] \in Nat
BY CatalogueInfo, CatalogueAssumption, TransferAssumption DEF Voucher, VouchersOf

(* Two infos of the catalogue share neither coin nor cross over.            *)
LEMMA CatalogueDistinct ==
  ASSUME NEW e \in Catalogue, NEW f \in Catalogue, e # f
  PROVE  e.native # f.native /\ e.ibc # f.ibc
BY CatalogueAssumption

(* What refundToken converts by is the info of the voucher it refunds, and  *)
(* the key of the voucher leads to it.                                      *)
LEMMA RefundInfoOfVoucher ==
  ASSUME RegistryInv, NEW p \in Packet, IsRefundConverted(p)
  PROVE  /\ RefundInfo(p) \in Catalogue
         /\ RefundInfo(p).ibc = p.denom
         /\ RefundInfo(p).channel = p.channel
<1>1. RefundInfo(p) # EmptyInfo /\ RefundInfo(p).channel = p.channel
  BY DEF IsRefundConverted
<1>2. NativeOfIbc(p.denom) \in Native /\ RefundInfo(p) = infoByNative[NativeOfIbc(p.denom)]
  BY <1>1 DEF RefundInfo, InfoOfNative
<1>3. p.denom \in Ibc /\ nativeByIbc[p.denom] # Empty
      /\ NativeOfIbc(p.denom) = nativeByIbc[p.denom]
  BY <1>2, RegistryAssumption DEF NativeOfIbc
<1> QED
  BY <1>1, <1>2, <1>3 DEF RegistryInv, RegistryTypeOK, IndexAgreement

(* The info a receipt converts by is the one of the voucher it mints: the   *)
(* asset's key and the voucher's key lead to it.                            *)
LEMMA ReceivedInfo ==
  ASSUME RegistryInv, NEW c \in Channel, NEW a \in Asset, IsReceivedConverted(c, a)
  PROVE  /\ infoByAsset[a] \in Catalogue
         /\ infoByAsset[a].channel = c
         /\ infoByAsset[a].ibc = Voucher(c, a)
<1>1. infoByAsset[a].channel = c
  BY DEF IsReceivedConverted, InfoOfAsset
<1>2. infoByAsset[a] # EmptyInfo
  BY <1>1, RegistryAssumption DEF EmptyInfo
<1>3. infoByAsset[a] \in Catalogue /\ infoByAsset[a].asset = a
  BY <1>2 DEF RegistryInv, RegistryTypeOK, IndexAgreement
<1> QED
  BY <1>1, <1>3, CatalogueAssumption

(* What SendPacket looks up for a coin it converts.                        *)
LEMMA ConvertedInfo ==
  ASSUME RegistryInv, NEW c \in Channel, NEW n \in Native, IsConverted(c, n)
  PROVE  infoByNative[n] \in Catalogue /\ infoByNative[n].channel = c /\ infoByNative[n].native = n
<1>1. infoByNative[n].channel = c /\ infoByNative[n].native = n
  BY DEF IsConverted, InfoOfNative
<1>2. infoByNative[n] # EmptyInfo
  BY <1>1, RegistryAssumption DEF EmptyInfo
<1> QED
  BY <1>1, <1>2 DEF RegistryInv, RegistryTypeOK

-----------------------------------------------------------------------------
(* The bank steps of a transfer that is passed on (SendTransfer).          *)
LEMMA PassedOnLedger ==
  ASSUME NEW L \in Ledger, NEW u \in User, NEW c \in Channel, NEW d \in Denom,
         NEW x \in Nat, CanSpend(L, u, d, x)
  PROVE  LET M == SendTransfer(L, u, c, d, x)
         IN  /\ M \in Ledger
             /\ BooksBalance(L) => BooksBalance(M)
             /\ \A f \in Denom :
                  M.supply[f] = L.supply[f] - (IF f = d /\ d \in VouchersOf(c) THEN x ELSE 0)
             /\ \A b \in Account, f \in Denom :
                  M.bal[b][f] = L.bal[b][f] - (IF b = u /\ f = d THEN x ELSE 0)
                    + (IF b = c /\ f = d /\ d \notin VouchersOf(c) THEN x ELSE 0)
<1> DEFINE M == SendTransfer(L, u, c, d, x)
<1>1. u \in Account /\ c \in Account
  BY TransferAssumption
<1>0. /\ \A b \in Account, f \in Denom : L.bal[b][f] \in Nat
      /\ \A f \in Denom : L.supply[f] \in Int
  BY DEF Ledger
<1>2. CASE d \notin VouchersOf(c)
  <2>1. M = SendCoins(L, u, c, d, x)
    BY <1>2 DEF SendTransfer, EscrowAddress, SenderChainIsSource
  <2>2. BooksBalance(L) => BooksBalance(M)
    BY <1>1, <2>1, SendKeepsBooks
  <2> HIDE DEF M
  <2>3. /\ M \in Ledger
        /\ M.supply = L.supply
        /\ \A a \in Account, e \in Denom :
             M.bal[a][e] = L.bal[a][e] - (IF a = u /\ e = d THEN x ELSE 0)
                                       + (IF a = c /\ e = d THEN x ELSE 0)
    BY <1>1, <2>1, SendCoinsEffect
  <2> QED
    BY <1>0, <1>2, <2>2, <2>3 DEF M
<1>3. CASE d \in VouchersOf(c)
  <2>1. M = BurnFrom(L, u, d, x)
    BY <1>3 DEF SendTransfer, SenderChainIsSource
  <2>2. BooksBalance(L) => BooksBalance(M)
    BY <1>1, <2>1, BurnKeepsBooks
  <2> HIDE DEF M
  <2>3. /\ M \in Ledger
        /\ \A f \in Denom : M.supply[f] = L.supply[f] - (IF f = d THEN x ELSE 0)
        /\ \A b \in Account, f \in Denom :
             M.bal[b][f] = L.bal[b][f] - (IF b = u /\ f = d THEN x ELSE 0)
    BY <1>1, <2>1, BurnFromEffect
  <2> QED
    BY <1>0, <1>3, <2>2, <2>3 DEF M
<1> QED
  BY <1>2, <1>3

(* The bank steps that turn a native coin back into its voucher: the first  *)
(* is locked and burned, the second released to the same account.           *)
LEMMA ReleasedLedger ==
  ASSUME NEW L \in Ledger, NEW i \in Catalogue, infoByNative[i.native] = i, NEW u \in User,
         NEW x \in Nat, CanSpend(L, u, i.native, x), VoucherLocked(L, u, i.channel, i.native, x)
  PROVE  LET M == VoucherReleased(L, u, i.channel, i.native, x)
         IN  /\ M \in Ledger
             /\ CanSpend(M, u, i.ibc, x)
             /\ BooksBalance(L) => BooksBalance(M)
             /\ \A f \in Denom : M.supply[f] = L.supply[f] - (IF f = i.native THEN x ELSE 0)
             /\ \A b \in Account, f \in Denom : M.bal[b][f] = L.bal[b][f]
                  - (IF b = u /\ f = i.native THEN x ELSE 0)
                  + (IF b = u /\ f = i.ibc THEN x ELSE 0)
                  - (IF b = i.channel /\ f = i.ibc THEN x ELSE 0)
<1> DEFINE c == i.channel
           n == i.native
           v == i.ibc
           L1 == SendTransfer(L, u, c, n, x)
           L2 == BurnFrom(L1, c, n, x)
           L3 == SendCoins(L2, c, u, v, x)
<1>1. /\ u \in Account /\ c \in Channel /\ c \in Account /\ u # c
      /\ n \in Denom /\ v \in Denom /\ n # v
      /\ n \notin VouchersOf(c) /\ v \in VouchersOf(c)
  BY CatalogueCoins, TransferAssumption DEF VouchersOf, Voucher
<1>2. L2 = NativeBurned(L, u, c, n, x) /\ L3 = VoucherReleased(L, u, c, n, x)
      /\ CanSpend(L2, c, v, x)
  BY DEF NativeBurned, VoucherReleased, VoucherLocked, EscrowAddress
<1>3. L3 = VoucherReleased(L, u, i.channel, i.native, x)
  BY <1>2
<1>4. CanSpend(L, u, n, x)
  OBVIOUS
<1> HIDE DEF c, n, v, L1
<1>5. /\ L1 \in Ledger
      /\ BooksBalance(L) => BooksBalance(L1)
      /\ \A f \in Denom :
           L1.supply[f] = L.supply[f] - (IF f = n /\ n \in VouchersOf(c) THEN x ELSE 0)
      /\ \A b \in Account, f \in Denom :
           L1.bal[b][f] = L.bal[b][f] - (IF b = u /\ f = n THEN x ELSE 0)
             + (IF b = c /\ f = n /\ n \notin VouchersOf(c) THEN x ELSE 0)
  BY <1>1, <1>4, PassedOnLedger DEF L1
<1>6. /\ \A b \in Account, f \in Denom : L.bal[b][f] \in Nat
      /\ \A f \in Denom : L.supply[f] \in Int
  BY DEF Ledger
<1>7. CanSpend(L1, c, n, x)
  BY <1>1, <1>5, <1>6 DEF CanSpend
<1>8. /\ L2 \in Ledger
      /\ \A f \in Denom : L2.supply[f] = L1.supply[f] - (IF f = n THEN x ELSE 0)
      /\ \A a \in Account, f \in Denom :
           L2.bal[a][f] = L1.bal[a][f] - (IF a = c /\ f = n THEN x ELSE 0)
  BY <1>1, <1>5, <1>7, BurnFromEffect
<1>9. BooksBalance(L1) => BooksBalance(L2)
  BY <1>1, <1>5, <1>7, BurnKeepsBooks
<1> HIDE DEF L2
<1>10. /\ L3 \in Ledger
       /\ L3.supply = L2.supply
       /\ \A a \in Account, f \in Denom :
            L3.bal[a][f] = L2.bal[a][f] - (IF a = c /\ f = v THEN x ELSE 0)
                                        + (IF a = u /\ f = v THEN x ELSE 0)
  BY <1>1, <1>2, <1>8, SendCoinsEffect
<1>11. BooksBalance(L2) => BooksBalance(L3)
  BY <1>1, <1>2, <1>8, SendKeepsBooks
<1> HIDE DEF L3
<1>12. CanSpend(L3, u, v, x)
  <2>1. L2.bal[u][v] \in Nat
    BY <1>1, <1>8 DEF Ledger
  <2>2. L3.bal[u][v] = L2.bal[u][v] + x
    BY <1>1, <1>10, <2>1
  <2> QED
    BY <2>1, <2>2 DEF CanSpend
<1>13. \A f \in Denom : L3.supply[f] = L.supply[f] - (IF f = n THEN x ELSE 0)
  BY <1>1, <1>5, <1>6, <1>8, <1>10
<1>14. ASSUME NEW b \in Account, NEW f \in Denom
       PROVE  L3.bal[b][f] = L.bal[b][f] - (IF b = u /\ f = n THEN x ELSE 0)
                + (IF b = u /\ f = v THEN x ELSE 0) - (IF b = c /\ f = v THEN x ELSE 0)
  <2>1. L.bal[b][f] \in Nat /\ L2.bal[b][f] \in Nat
    BY <1>6, <1>8 DEF Ledger
  <2>2. L2.bal[b][f] = L.bal[b][f] - (IF b = u /\ f = n THEN x ELSE 0)
    BY <1>1, <1>5, <1>8, <2>1
  <2> QED
    BY <1>1, <1>10, <2>1, <2>2
<1>15. BooksBalance(L) => BooksBalance(L3)
  BY <1>5, <1>9, <1>11
<1> QED
  BY <1>3, <1>10, <1>12, <1>13, <1>14, <1>15 DEF c, n, v

(* The bank steps of a converted transfer: the native coin and the voucher *)
(* each disappear once (handleOverrideSendPacketTransferLogic).            *)
LEMMA ConvertedLedger ==
  ASSUME NEW L \in Ledger, NEW i \in Catalogue, infoByNative[i.native] = i, NEW u \in User,
         NEW x \in Nat, CanSpend(L, u, i.native, x), VoucherLocked(L, u, i.channel, i.native, x)
  PROVE  LET M == SendTransfer(VoucherReleased(L, u, i.channel, i.native, x), u, i.channel, i.ibc, x)
         IN  /\ M \in Ledger
             /\ BooksBalance(L) => BooksBalance(M)
             /\ \A f \in Denom : M.supply[f] = L.supply[f]
                  - (IF f = i.native THEN x ELSE 0) - (IF f = i.ibc THEN x ELSE 0)
             /\ \A b \in Account, f \in Denom : M.bal[b][f] = L.bal[b][f]
                  - (IF b = u /\ f = i.native THEN x ELSE 0)
                  - (IF b = i.channel /\ f = i.ibc THEN x ELSE 0)
<1> DEFINE R == VoucherReleased(L, u, i.channel, i.native, x)
           M == SendTransfer(R, u, i.channel, i.ibc, x)
<1>1. /\ i.channel \in Channel /\ i.ibc \in Denom /\ i.ibc \in VouchersOf(i.channel)
      /\ u \in Account
  BY CatalogueCoins, TransferAssumption
<1>2. /\ R \in Ledger
      /\ CanSpend(R, u, i.ibc, x)
      /\ BooksBalance(L) => BooksBalance(R)
      /\ \A f \in Denom : R.supply[f] = L.supply[f] - (IF f = i.native THEN x ELSE 0)
      /\ \A b \in Account, f \in Denom : R.bal[b][f] = L.bal[b][f]
           - (IF b = u /\ f = i.native THEN x ELSE 0)
           + (IF b = u /\ f = i.ibc THEN x ELSE 0)
           - (IF b = i.channel /\ f = i.ibc THEN x ELSE 0)
  BY ReleasedLedger
<1> HIDE DEF R
<1>3. /\ M \in Ledger
      /\ BooksBalance(R) => BooksBalance(M)
      /\ \A f \in Denom : M.supply[f] = R.supply[f]
           - (IF f = i.ibc /\ i.ibc \in VouchersOf(i.channel) THEN x ELSE 0)
      /\ \A b \in Account, f \in Denom : M.bal[b][f] = R.bal[b][f]
           - (IF b = u /\ f = i.ibc THEN x ELSE 0)
           + (IF b = i.channel /\ f = i.ibc /\ i.ibc \notin VouchersOf(i.channel) THEN x ELSE 0)
  BY <1>1, <1>2, PassedOnLedger
<1> HIDE DEF M
<1>4. \A f \in Denom : M.supply[f] = L.supply[f]
        - (IF f = i.native THEN x ELSE 0) - (IF f = i.ibc THEN x ELSE 0)
  <2>1. \A f \in Denom : L.supply[f] \in Int
    BY DEF Ledger
  <2> QED
    BY <1>1, <1>2, <1>3, <2>1
<1>5. \A b \in Account, f \in Denom : M.bal[b][f] = L.bal[b][f]
        - (IF b = u /\ f = i.native THEN x ELSE 0) - (IF b = i.channel /\ f = i.ibc THEN x ELSE 0)
  <2>1. \A b \in Account, f \in Denom : L.bal[b][f] \in Nat
    BY DEF Ledger
  <2> QED
    BY <1>1, <1>2, <1>3, <2>1
<1> QED
  BY <1>2, <1>3, <1>4, <1>5 DEF M, R

(* A coin that is locked and its native coin minted to the same account.    *)
LEMMA LockAndMintLedger ==
  ASSUME NEW L \in Ledger, NEW i \in Catalogue, NEW a \in Account, NEW x \in Nat,
         CanSpend(L, a, i.ibc, x)
  PROVE  LET M == MintTo(SendCoins(L, a, i.channel, i.ibc, x), a, i.native, x)
         IN  /\ M \in Ledger
             /\ BooksBalance(L) => BooksBalance(M)
             /\ \A f \in Denom : M.supply[f] = L.supply[f] + (IF f = i.native THEN x ELSE 0)
             /\ \A b \in Account, f \in Denom :
                  M.bal[b][f] = L.bal[b][f] - (IF b = a /\ f = i.ibc THEN x ELSE 0)
                    + (IF b = i.channel /\ f = i.ibc THEN x ELSE 0)
                    + (IF b = a /\ f = i.native THEN x ELSE 0)
<1> DEFINE K == SendCoins(L, a, i.channel, i.ibc, x)
           M == MintTo(K, a, i.native, x)
<1>0. i.ibc \in Denom /\ i.native \in Denom /\ i.channel \in Account
  BY CatalogueCoins
<1>1. /\ K \in Ledger
      /\ K.supply = L.supply
      /\ \A b \in Account, f \in Denom :
           K.bal[b][f] = L.bal[b][f] - (IF b = a /\ f = i.ibc THEN x ELSE 0)
                                     + (IF b = i.channel /\ f = i.ibc THEN x ELSE 0)
  BY <1>0, SendCoinsEffect
<1>2. BooksBalance(L) => BooksBalance(K)
  BY <1>0, SendKeepsBooks
<1> HIDE DEF K
<1>3. /\ M \in Ledger
      /\ \A f \in Denom : M.supply[f] = K.supply[f] + (IF f = i.native THEN x ELSE 0)
      /\ \A b \in Account, f \in Denom :
           M.bal[b][f] = K.bal[b][f] + (IF b = a /\ f = i.native THEN x ELSE 0)
  <2>1. K \in Ledger /\ i.native \in Denom
    BY <1>0, <1>1
  <2>2. M \in Ledger
    BY ONLY <2>1, MintToEffect, a \in Account, x \in Nat
  <2>3. \A f \in Denom : M.supply[f] = K.supply[f] + (IF f = i.native THEN x ELSE 0)
    BY ONLY <2>1, MintToEffect, a \in Account, x \in Nat
  <2>4. \A b \in Account, f \in Denom :
          M.bal[b][f] = K.bal[b][f] + (IF b = a /\ f = i.native THEN x ELSE 0)
    BY ONLY <2>1, MintToEffect, a \in Account, x \in Nat
  <2> QED BY <2>2, <2>3, <2>4
<1>4. BooksBalance(K) => BooksBalance(M)
  BY <1>0, <1>1, MintKeepsBooks
<1> HIDE DEF M
<1>5. \A f \in Denom : M.supply[f] = L.supply[f] + (IF f = i.native THEN x ELSE 0)
  BY <1>1, <1>3
<1>6. \A b \in Account, f \in Denom :
        M.bal[b][f] = L.bal[b][f] - (IF b = a /\ f = i.ibc THEN x ELSE 0)
          + (IF b = i.channel /\ f = i.ibc THEN x ELSE 0)
          + (IF b = a /\ f = i.native THEN x ELSE 0)
  <2>1. \A b \in Account, f \in Denom : L.bal[b][f] \in Nat /\ K.bal[b][f] \in Nat
    BY <1>1 DEF Ledger
  <2> QED
    BY <1>1, <1>3, <2>1
<1> QED
  BY <1>2, <1>3, <1>4, <1>5, <1>6 DEF K, M

(* The bank steps of a refund: the application's, then refundToken's.      *)
LEMMA RefundLedger ==
  ASSUME RegistryInv, NEW L \in Ledger, NEW p \in Packet,
         SenderChainIsSource(p.channel, p.denom) =>
           CanSpend(L, EscrowAddress(p.channel), p.denom, p.amount)
  PROVE  LET M == RefundToken(RefundPacketToken(L, p), p)
             i == RefundInfo(p)
         IN  /\ M \in Ledger
             /\ BooksBalance(L) => BooksBalance(M)
             /\ \A f \in Denom :
                  M.supply[f] = L.supply[f]
                    + (IF f = p.denom /\ p.denom \in VouchersOf(p.channel) THEN p.amount ELSE 0)
                    + (IF IsRefundConverted(p) /\ f = i.native THEN p.amount ELSE 0)
             /\ \A b \in Account, f \in Denom :
                  M.bal[b][f] = L.bal[b][f]
                    - (IF b = p.channel /\ f = p.denom /\ p.denom \notin VouchersOf(p.channel)
                         THEN p.amount ELSE 0)
                    + (IF IsRefundConverted(p)
                         THEN (IF b = p.channel /\ f = p.denom THEN p.amount ELSE 0)
                              + (IF b = p.sender /\ f = i.native THEN p.amount ELSE 0)
                         ELSE (IF b = p.sender /\ f = p.denom THEN p.amount ELSE 0))
<1> DEFINE u == p.sender
           c == p.channel
           d == p.denom
           x == p.amount
           K == RefundPacketToken(L, p)
           M == RefundToken(K, p)
           i == RefundInfo(p)
<1>1. u \in User /\ u \in Account /\ c \in Channel /\ c \in Account /\ d \in Denom /\ x \in Nat
  BY TransferAssumption DEF Packet
<1>0. /\ \A b \in Account, f \in Denom : L.bal[b][f] \in Nat
      /\ \A f \in Denom : L.supply[f] \in Int
  BY DEF Ledger
<1>2. CASE d \notin VouchersOf(c)
  <2>1. K = SendCoins(L, c, u, d, x) /\ CanSpend(L, c, d, x) /\ ~IsRefundConverted(p) /\ M = K
    BY <1>2 DEF RefundPacketToken, EscrowAddress, SenderChainIsSource, RefundToken,
                IsRefundConverted
  <2>2. BooksBalance(L) => BooksBalance(K)
    BY <1>1, <2>1, SendKeepsBooks
  <2> HIDE DEF M, K, u, c, d, x
  <2>3. /\ K \in Ledger
        /\ K.supply = L.supply
        /\ \A a \in Account, f \in Denom :
             K.bal[a][f] = L.bal[a][f] - (IF a = c /\ f = d THEN x ELSE 0)
                                       + (IF a = u /\ f = d THEN x ELSE 0)
    BY <1>1, <2>1, SendCoinsEffect
  <2> QED
    BY <1>0, <1>2, <2>1, <2>2, <2>3 DEF M, K, u, c, d, x
<1>3. CASE d \in VouchersOf(c)
  <2>1. K = MintTo(L, u, d, x)
    BY <1>3 DEF RefundPacketToken, SenderChainIsSource
  <2>2. BooksBalance(L) => BooksBalance(K)
    BY <1>1, <2>1, MintKeepsBooks
  <2>9. M = RefundToken(K, p)
    OBVIOUS
  <2> HIDE DEF M, K, u, c, d, x
  <2>3. /\ K \in Ledger
        /\ \A f \in Denom : K.supply[f] = L.supply[f] + (IF f = d THEN x ELSE 0)
        /\ \A b \in Account, f \in Denom :
             K.bal[b][f] = L.bal[b][f] + (IF b = u /\ f = d THEN x ELSE 0)
    BY <1>1, <2>1, MintToEffect
  <2>4. CASE ~IsRefundConverted(p)
    <3>1. M = K
      BY <2>4, <2>9 DEF RefundToken
    <3>2. /\ \A f \in Denom : M.supply[f] = L.supply[f] + (IF f = d THEN x ELSE 0) + 0
          /\ \A b \in Account, f \in Denom :
               M.bal[b][f] = L.bal[b][f] - 0 + (IF b = u /\ f = d THEN x ELSE 0)
      BY <1>0, <1>1, <2>3, <3>1
    <3>3. M \in Ledger /\ (BooksBalance(L) => BooksBalance(M))
      BY <2>2, <2>3, <3>1
    <3> QED
      BY <1>3, <2>4, <3>2, <3>3 DEF M, K, u, c, d, x
  <2>5. CASE IsRefundConverted(p)
    <3>1. i \in Catalogue /\ i.ibc = d /\ i.channel = c
      BY <2>5, RefundInfoOfVoucher DEF d, c
    <3>2. M = MintTo(SendCoins(K, u, i.channel, i.ibc, x), u, i.native, x)
      BY <2>5, <2>9, <3>1 DEF RefundToken, EscrowAddress, u, x, d
    <3> HIDE DEF i
    <3>3. CanSpend(K, u, i.ibc, x)
      BY <1>0, <1>1, <2>3, <3>1 DEF CanSpend
    <3>4. /\ M \in Ledger
          /\ BooksBalance(K) => BooksBalance(M)
          /\ \A f \in Denom : M.supply[f] = K.supply[f] + (IF f = i.native THEN x ELSE 0)
          /\ \A b \in Account, f \in Denom :
               M.bal[b][f] = K.bal[b][f] - (IF b = u /\ f = i.ibc THEN x ELSE 0)
                 + (IF b = i.channel /\ f = i.ibc THEN x ELSE 0)
                 + (IF b = u /\ f = i.native THEN x ELSE 0)
      BY <1>1, <2>3, <3>1, <3>2, <3>3, LockAndMintLedger
    <3>5. \A f \in Denom :
            M.supply[f] = L.supply[f] + (IF f = d THEN x ELSE 0) + (IF f = i.native THEN x ELSE 0)
      BY <2>3, <3>4
    <3>6. \A b \in Account, f \in Denom :
            M.bal[b][f] = L.bal[b][f] + (IF b = c /\ f = d THEN x ELSE 0)
                            + (IF b = u /\ f = i.native THEN x ELSE 0)
      BY <1>0, <1>1, <2>3, <3>1, <3>4
    <3>7. M \in Ledger /\ (BooksBalance(L) => BooksBalance(M))
      BY <2>2, <3>4
    <3>8. \A b \in Account, f \in Denom :
            M.bal[b][f] = L.bal[b][f] - 0 + ((IF b = c /\ f = d THEN x ELSE 0)
                            + (IF b = u /\ f = i.native THEN x ELSE 0))
      BY <1>0, <1>1, <3>6
    <3> QED
      BY <1>3, <2>5, <3>5, <3>7, <3>8 DEF M, K, u, c, d, x, i
  <2> QED
    BY <2>4, <2>5
<1> QED
  BY <1>2, <1>3

(* The bank steps of a receipt: the application's, then OnRecvPacket's.    *)
LEMMA ReceivedLedgerEffect ==
  ASSUME RegistryInv, ledger \in Ledger, NEW c \in Channel, NEW a \in Asset, NEW x \in Nat,
         NEW to \in Account
  PROVE  LET v == Voucher(c, a)
             n == infoByAsset[a].native
             M == ReceivedLedger(c, a, x, to)
             home == IF IsReceivedConverted(c, a) THEN c ELSE to
         IN  /\ M \in Ledger
             /\ BooksBalance(ledger) => BooksBalance(M)
             /\ \A f \in Denom :
                  M.supply[f] = ledger.supply[f] + (IF f = v THEN x ELSE 0)
                    + (IF IsReceivedConverted(c, a) /\ f = n THEN x ELSE 0)
             /\ \A b \in Account, f \in Denom :
                  M.bal[b][f] = ledger.bal[b][f] + (IF b = home /\ f = v THEN x ELSE 0)
                    + (IF IsReceivedConverted(c, a) /\ b = to /\ f = n THEN x ELSE 0)
<1> DEFINE v == Voucher(c, a)
           K == MintTo(ledger, to, v, x)
           M == ReceivedLedger(c, a, x, to)
           i == infoByAsset[a]
<1>0. /\ \A b \in Account, f \in Denom : ledger.bal[b][f] \in Nat
      /\ \A f \in Denom : ledger.supply[f] \in Int
  BY DEF Ledger
<1>1. v \in Denom /\ c \in Account
  BY TransferAssumption DEF Voucher
<1>2. M = IF IsReceivedConverted(c, a)
            THEN MintTo(SendCoins(K, to, c, v, x), to, i.native, x) ELSE K
  BY DEF ReceivedLedger, EscrowAddress
<1>3. BooksBalance(ledger) => BooksBalance(K)
  BY <1>1, MintKeepsBooks
<1> HIDE DEF K, M, v, i
<1>4. /\ K \in Ledger
      /\ \A f \in Denom : K.supply[f] = ledger.supply[f] + (IF f = v THEN x ELSE 0)
      /\ \A b \in Account, f \in Denom :
           K.bal[b][f] = ledger.bal[b][f] + (IF b = to /\ f = v THEN x ELSE 0)
  BY <1>1, MintToEffect DEF K
<1>5. CASE ~IsReceivedConverted(c, a)
  BY <1>0, <1>2, <1>3, <1>4, <1>5 DEF M, v
<1>6. CASE IsReceivedConverted(c, a)
  <2>1. i \in Catalogue /\ i.channel = c /\ i.ibc = v
    BY <1>6, ReceivedInfo DEF v, i
  <2>2. M = MintTo(SendCoins(K, to, i.channel, i.ibc, x), to, i.native, x)
    BY <1>2, <1>6, <2>1
  <2>3. CanSpend(K, to, i.ibc, x)
    BY <1>0, <1>1, <1>4, <2>1 DEF CanSpend
  <2>4. /\ M \in Ledger
        /\ BooksBalance(K) => BooksBalance(M)
        /\ \A f \in Denom : M.supply[f] = K.supply[f] + (IF f = i.native THEN x ELSE 0)
        /\ \A b \in Account, f \in Denom :
             M.bal[b][f] = K.bal[b][f] - (IF b = to /\ f = i.ibc THEN x ELSE 0)
               + (IF b = i.channel /\ f = i.ibc THEN x ELSE 0)
               + (IF b = to /\ f = i.native THEN x ELSE 0)
    BY <1>4, <2>1, <2>2, <2>3, LockAndMintLedger
  <2>5. \A f \in Denom :
          M.supply[f] = ledger.supply[f] + (IF f = v THEN x ELSE 0) + (IF f = i.native THEN x ELSE 0)
    BY <1>4, <2>4
  <2>6. \A b \in Account, f \in Denom :
          M.bal[b][f] = ledger.bal[b][f] + (IF b = c /\ f = v THEN x ELSE 0)
                          + (IF b = to /\ f = i.native THEN x ELSE 0)
    BY <1>0, <1>4, <2>1, <2>4
  <2> QED
    BY <1>3, <1>6, <2>4, <2>5, <2>6 DEF M, v, i
<1> QED
  BY <1>5, <1>6

(* What the history variable of gifts records.                             *)
LEMMA DonationEffect ==
  ASSUME donated \in [Ibc -> Nat], NEW a \in Account, NEW d \in Denom, NEW x \in Nat,
         DonationTo(a, d, x)
  PROVE  /\ donated' \in [Ibc -> Nat]
         /\ \A e \in Catalogue :
              donated'[e.ibc] = donated[e.ibc] + (IF e.channel = a /\ e.ibc = d THEN x ELSE 0)
<1>1. donated' \in [Ibc -> Nat]
  BY DEF DonationTo
<1>2. ASSUME NEW e \in Catalogue
      PROVE  donated'[e.ibc] = donated[e.ibc] + (IF e.channel = a /\ e.ibc = d THEN x ELSE 0)
  BY CatalogueCoins DEF DonationTo, EscrowAddress
<1> QED
  BY <1>1, <1>2

(* A packet that is emitted is well formed.                                 *)
LEMMA EmitPacketEffect ==
  ASSUME BridgeTypeOK, NEW u \in User, NEW c \in Channel, NEW d \in Denom,
         NEW x \in Nat \ {0}, EmitPacket(u, c, d, x)
  PROVE  inflight' \subseteq Packet /\ nextSeq' \in [Channel -> Nat]
<1>1. x \in Nat \ {0} /\ nextSeq[c] \in Nat
  BY DEF BridgeTypeOK
<1> QED
  BY <1>1 DEF EmitPacket, BridgeTypeOK, Packet

-----------------------------------------------------------------------------
(* The invariant behind the theorems on backing.                            *)
BridgeInv == BridgeTypeOK /\ BackedBy(ledger, donated)

(* A send that takes no locked voucher out of its escrow account, with the  *)
(* gift it may be recorded, keeps the vouchers and the supplies in step.    *)
LEMMA BackedBySend ==
  ASSUME NEW L \in Ledger, NEW from \in Account, NEW to \in Account, NEW d \in Denom,
         NEW x \in Nat, CanSpend(L, from, d, x),
         \A e \in Catalogue : ~(e.channel = from /\ e.ibc = d),
         NEW g \in [Ibc -> Nat], NEW h, BackedBy(L, g),
         \A e \in Catalogue :
           h[e.ibc] = g[e.ibc] + (IF e.channel = to /\ e.ibc = d THEN x ELSE 0)
  PROVE  /\ SendCoins(L, from, to, d, x) \in Ledger
         /\ BackedBy(SendCoins(L, from, to, d, x), h)
<1> DEFINE M == SendCoins(L, from, to, d, x)
<1>1. /\ M \in Ledger
      /\ M.supply = L.supply
      /\ \A a \in Account, f \in Denom :
           M.bal[a][f] = L.bal[a][f] - (IF a = from /\ f = d THEN x ELSE 0)
                                     + (IF a = to /\ f = d THEN x ELSE 0)
  BY SendCoinsEffect
<1> HIDE DEF M
<1>2. ASSUME NEW e \in Catalogue
      PROVE  M.bal[e.channel][e.ibc] = M.supply[e.native] - GenesisSupply[e.native] + h[e.ibc]
  <2>1. L.bal[e.channel][e.ibc] \in Nat /\ L.supply[e.native] \in Int
        /\ g[e.ibc] \in Nat /\ GenesisSupply[e.native] \in Nat
    BY CatalogueCoins DEF Ledger
  <2>2. M.bal[e.channel][e.ibc]
          = L.bal[e.channel][e.ibc] + (IF e.channel = to /\ e.ibc = d THEN x ELSE 0)
    BY <1>1, <2>1, CatalogueCoins
  <2>3. L.bal[e.channel][e.ibc] = L.supply[e.native] - GenesisSupply[e.native] + g[e.ibc]
    BY DEF BackedBy
  <2> QED
    BY <1>1, <2>1, <2>2, <2>3
<1> QED
  BY <1>1, <1>2 DEF BackedBy, M

(* A ledger that a handler may have come to before it emits its packet: the *)
(* pairs are in step, no voucher has gone, and no escrow account owes more. *)
Midway(L) ==
  /\ L \in Ledger
  /\ BackedBy(L, donated)
  /\ \A v \in Ibc : L.supply[v] = ledger.supply[v]
  /\ \A c \in Channel : \A d \in Denom \ VouchersOf(c) : L.bal[c][d] = ledger.bal[c][d]

(* A handler starts from such a ledger.                                     *)
LEMMA MidwayAtFirst ==
  ASSUME BridgeInv PROVE Midway(ledger)
BY DEF BridgeInv, BridgeTypeOK, Midway

(* A payment among users touches neither pairs nor escrow accounts.         *)
LEMMA MidwayPaid ==
  ASSUME BridgeInv, NEW L, Midway(L), NEW from \in User, NEW to \in User, NEW d \in Denom,
         NEW x \in Nat, CanSpend(L, from, d, x)
  PROVE  Midway(SendCoins(L, from, to, d, x))
<1> DEFINE M == SendCoins(L, from, to, d, x)
<1>1. /\ L \in Ledger /\ donated \in [Ibc -> Nat] /\ from \in Account /\ to \in Account
      /\ from \notin Channel /\ to \notin Channel /\ Channel \subseteq Account
  BY TransferAssumption DEF BridgeInv, BridgeTypeOK, Midway
<1>2. /\ M \in Ledger
      /\ M.supply = L.supply
      /\ \A a \in Account, f \in Denom :
           M.bal[a][f] = L.bal[a][f] - (IF a = from /\ f = d THEN x ELSE 0)
                                     + (IF a = to /\ f = d THEN x ELSE 0)
  BY <1>1, SendCoinsEffect
<1>3. \A e \in Catalogue : e.channel \in Channel /\ donated[e.ibc] \in Nat
  BY <1>1, CatalogueCoins
<1>4. \A e \in Catalogue : donated[e.ibc]
        = donated[e.ibc] + (IF e.channel = to /\ e.ibc = d THEN x ELSE 0)
  BY <1>1, <1>3
<1>5. BackedBy(M, donated)
  <2>1. BackedBy(L, donated) /\ \A e \in Catalogue : ~(e.channel = from /\ e.ibc = d)
    BY <1>1, <1>3 DEF Midway
  <2> QED
    BY <1>1, <1>4, <2>1, BackedBySend
<1> HIDE DEF M
<1>6. \A c \in Channel, f \in Denom : M.bal[c][f] = L.bal[c][f]
  <2>1. \A c \in Channel, f \in Denom : L.bal[c][f] \in Nat /\ c \in Account
    BY <1>1 DEF Ledger
  <2> QED
    BY <1>1, <1>2, <2>1
<1> QED
  BY <1>2, <1>5, <1>6 DEF Midway, M

(* A conversion takes a voucher out of the escrow account of its own        *)
(* channel, with the supply of its native coin                              *)
(* (handleOverrideSendPacketTransferLogic).                                 *)
LEMMA MidwayReleased ==
  ASSUME BridgeInv, NEW L, Midway(L), NEW i \in Catalogue, infoByNative[i.native] = i,
         NEW u \in User, NEW x \in Nat,
         CanSpend(L, u, i.native, x), VoucherLocked(L, u, i.channel, i.native, x)
  PROVE  LET M == VoucherReleased(L, u, i.channel, i.native, x)
         IN  Midway(M) /\ CanSpend(M, u, i.ibc, x)
<1> DEFINE M == VoucherReleased(L, u, i.channel, i.native, x)
<1>1. L \in Ledger /\ donated \in [Ibc -> Nat] /\ u \notin Channel /\ Channel \subseteq Account
  BY TransferAssumption DEF BridgeInv, BridgeTypeOK, Midway
<1>2. /\ M \in Ledger
      /\ CanSpend(M, u, i.ibc, x)
      /\ \A f \in Denom : M.supply[f] = L.supply[f] - (IF f = i.native THEN x ELSE 0)
      /\ \A b \in Account, f \in Denom : M.bal[b][f] = L.bal[b][f]
           - (IF b = u /\ f = i.native THEN x ELSE 0)
           + (IF b = u /\ f = i.ibc THEN x ELSE 0)
           - (IF b = i.channel /\ f = i.ibc THEN x ELSE 0)
  BY <1>1, ReleasedLedger
<1> HIDE DEF M
<1>3. /\ \A b \in Account, f \in Denom : L.bal[b][f] \in Nat
      /\ \A f \in Denom : L.supply[f] \in Int
  BY <1>1 DEF Ledger
<1>4. \A b \in Channel, f \in Denom :
        M.bal[b][f] = L.bal[b][f] - (IF b = i.channel /\ f = i.ibc THEN x ELSE 0)
  BY <1>1, <1>2, <1>3
<1>5. ASSUME NEW e \in Catalogue
      PROVE  M.bal[e.channel][e.ibc] = M.supply[e.native] - GenesisSupply[e.native] + donated[e.ibc]
  <2>1. /\ e.channel \in Channel /\ e.channel \in Account /\ e.ibc \in Denom /\ e.native \in Denom
        /\ (e.native = i.native <=> e = i) /\ (e.ibc = i.ibc <=> e = i)
        /\ donated[e.ibc] \in Nat /\ GenesisSupply[e.native] \in Nat
    BY <1>1, CatalogueCoins, CatalogueDistinct
  <2>2. L.bal[e.channel][e.ibc] = L.supply[e.native] - GenesisSupply[e.native] + donated[e.ibc]
    BY DEF Midway, BackedBy
  <2>3. M.supply[e.native] = L.supply[e.native] - (IF e = i THEN x ELSE 0)
    BY <1>2, <1>3, <2>1
  <2>4. M.bal[e.channel][e.ibc] = L.bal[e.channel][e.ibc] - (IF e = i THEN x ELSE 0)
    BY <1>4, <2>1
  <2> QED
    BY <1>3, <2>1, <2>2, <2>3, <2>4
<1>6. ASSUME NEW v \in Ibc PROVE M.supply[v] = ledger.supply[v]
  <2>1. v # i.native /\ v \in Denom
    BY CatalogueCoins, TransferAssumption
  <2>2. L.supply[v] = ledger.supply[v]
    BY DEF Midway
  <2> QED
    BY <1>2, <1>3, <2>1, <2>2
<1>7. ASSUME NEW c \in Channel, NEW d \in Denom \ VouchersOf(c)
      PROVE  M.bal[c][d] = ledger.bal[c][d]
  <2>1. ~(c = i.channel /\ d = i.ibc) /\ c \in Account
    BY <1>1, CatalogueCoins
  <2>2. L.bal[c][d] = ledger.bal[c][d]
    BY DEF Midway
  <2> QED
    BY <1>3, <1>4, <2>1, <2>2
<1> QED
  BY <1>2, <1>5, <1>6, <1>7 DEF Midway, BackedBy, M

(* Sending a coin off touches no pair (SendTransfer).                       *)
LEMMA SentStep ==
  ASSUME BridgeInv, NEW L, Midway(L), NEW u \in User, NEW c \in Channel, NEW d \in Denom,
         NEW x \in Nat \ {0}, CanSpend(L, u, d, x), ledger' = SendTransfer(L, u, c, d, x),
         EmitPacket(u, c, d, x), UNCHANGED <<remote, donated>>
  PROVE  BridgeInv'
<1>1. L \in Ledger /\ x \in Nat /\ u \notin Channel
  BY TransferAssumption DEF Midway
<1>2. /\ ledger' \in Ledger
      /\ \A f \in Denom :
           ledger'.supply[f] = L.supply[f] - (IF f = d /\ d \in VouchersOf(c) THEN x ELSE 0)
      /\ \A b \in Account, f \in Denom :
           ledger'.bal[b][f] = L.bal[b][f] - (IF b = u /\ f = d THEN x ELSE 0)
             + (IF b = c /\ f = d /\ d \notin VouchersOf(c) THEN x ELSE 0)
  BY <1>1, PassedOnLedger
<1>3. ASSUME NEW e \in Catalogue
      PROVE  /\ ledger'.bal[e.channel][e.ibc] = L.bal[e.channel][e.ibc]
             /\ ledger'.supply[e.native] = L.supply[e.native]
  <2>1. /\ e.channel \in Account /\ e.channel # u /\ e.ibc \in Denom /\ e.native \in Denom
        /\ ~(e.channel = c /\ e.ibc = d /\ d \notin VouchersOf(c))
        /\ ~(e.native = d /\ d \in VouchersOf(c))
    BY <1>1, CatalogueCoins, TransferAssumption DEF VouchersOf, Voucher
  <2>2. L.bal[e.channel][e.ibc] \in Nat /\ L.supply[e.native] \in Int
    BY <1>1, <2>1 DEF Ledger
  <2> QED
    BY <1>2, <2>1, <2>2
<1>4. inflight' \subseteq Packet /\ nextSeq' \in [Channel -> Nat]
  BY EmitPacketEffect DEF BridgeInv
<1>5. BridgeTypeOK'
  BY <1>2, <1>4 DEF BridgeTypeOK, BridgeInv
<1>6. BackedBy(ledger', donated')
  BY <1>3 DEF Midway, BackedBy
<1> QED
  BY <1>5, <1>6 DEF BridgeInv

(* A transfer passed on touches no pair (SendPacket).                       *)
LEMMA TransferPassedOnStep ==
  ASSUME BridgeInv, NEW u \in User, NEW c \in Channel, NEW d \in Denom, NEW x \in Amount,
         TransferPassedOn(u, c, d, x)
  PROVE  BridgeInv'
<1>1. x \in Nat \ {0}
  BY TransferAssumption
<1> QED
  BY <1>1, MidwayAtFirst, SentStep DEF TransferPassedOn

(* A converted transfer burns the native coin and takes the same amount of  *)
(* its voucher out of the escrow account, of one pair only                  *)
(* (handleOverrideSendPacketTransferLogic).                                 *)
LEMMA ConvertedMidway ==
  ASSUME RegistryInv, BridgeInv, NEW u \in User, NEW c \in Channel, NEW n \in Native,
         NEW x \in Amount, TransferConverted(u, c, n, x)
  PROVE  LET M == VoucherReleased(ledger, u, c, n, x)
             v == infoByNative[n].ibc
         IN  /\ Midway(M) /\ CanSpend(M, u, v, x) /\ v \in Denom
             /\ BooksBalance(ledger) => BooksBalance(M)
             /\ ledger' = SendTransfer(M, u, c, v, x) /\ EmitPacket(u, c, v, x)
             /\ UNCHANGED <<remote, donated>>
<1> DEFINE i == infoByNative[n]
<1>1. i \in Catalogue /\ i.channel = c /\ i.native = n
  BY ConvertedInfo DEF TransferConverted
<1>2. infoByNative[i.native] = i /\ i.ibc \in Denom
  BY <1>1, CatalogueCoins
<1>3. /\ CanSpend(ledger, u, n, x) /\ VoucherLocked(ledger, u, c, n, x)
      /\ ledger' = SendTransfer(VoucherReleased(ledger, u, c, n, x), u, c, i.ibc, x)
      /\ EmitPacket(u, c, i.ibc, x) /\ UNCHANGED <<remote, donated>>
  BY DEF TransferConverted
<1>4. x \in Nat /\ ledger \in Ledger /\ Midway(ledger)
  BY MidwayAtFirst, TransferAssumption DEF BridgeInv, BridgeTypeOK
<1> HIDE DEF i
<1>5. CanSpend(ledger, u, i.native, x) /\ VoucherLocked(ledger, u, i.channel, i.native, x)
  BY <1>1, <1>3
<1>6. /\ Midway(VoucherReleased(ledger, u, i.channel, i.native, x))
      /\ CanSpend(VoucherReleased(ledger, u, i.channel, i.native, x), u, i.ibc, x)
  BY <1>1, <1>2, <1>4, <1>5, MidwayReleased
<1>7. BooksBalance(ledger) => BooksBalance(VoucherReleased(ledger, u, i.channel, i.native, x))
  BY <1>1, <1>2, <1>4, <1>5, ReleasedLedger
<1> QED
  BY <1>1, <1>2, <1>3, <1>6, <1>7 DEF i

(* A converted transfer keeps the bridge backed.                            *)
LEMMA TransferConvertedStep ==
  ASSUME RegistryInv, BridgeInv, NEW u \in User, NEW c \in Channel, NEW n \in Native,
         NEW x \in Amount, TransferConverted(u, c, n, x)
  PROVE  BridgeInv'
<1> DEFINE M == VoucherReleased(ledger, u, c, n, x)
           v == infoByNative[n].ibc
<1>1. /\ Midway(M) /\ CanSpend(M, u, v, x) /\ v \in Denom
      /\ ledger' = SendTransfer(M, u, c, v, x) /\ EmitPacket(u, c, v, x)
      /\ UNCHANGED <<remote, donated>>
  BY ConvertedMidway
<1>2. x \in Nat \ {0}
  BY TransferAssumption
<1> HIDE DEF M, v
<1> QED
  BY <1>1, <1>2, SentStep

(* The ledger that the application's refund and refundToken leave.          *)
Refunded(p) == RefundToken(RefundPacketToken(ledger, p), p)

(* A refund leaves every pair alone, or locks a voucher and mints its       *)
(* native coin (refundToken).                                               *)
LEMMA RefundBacked ==
  ASSUME RegistryInv, BridgeInv, NEW p \in inflight, CanRefund(p)
  PROVE  Refunded(p) \in Ledger /\ BackedBy(Refunded(p), donated)
<1> DEFINE c == p.channel
           d == p.denom
           x == p.amount
           u == p.sender
           conv == IsRefundConverted(p)
           n == RefundInfo(p).native
           M == Refunded(p)
<1>1. SenderChainIsSource(p.channel, p.denom) =>
        CanSpend(ledger, EscrowAddress(p.channel), p.denom, p.amount)
  BY DEF CanRefund
<1>2. /\ ledger \in Ledger /\ p \in Packet /\ x \in Nat /\ c \in Channel /\ u \notin Channel
      /\ d \in Denom
  BY TransferAssumption DEF BridgeInv, BridgeTypeOK, Packet
<1>3. /\ M \in Ledger
      /\ \A f \in Denom : M.supply[f] = ledger.supply[f]
           + (IF f = d /\ d \in VouchersOf(c) THEN x ELSE 0) + (IF conv /\ f = n THEN x ELSE 0)
      /\ \A b \in Account, f \in Denom : M.bal[b][f] = ledger.bal[b][f]
           - (IF b = c /\ f = d /\ d \notin VouchersOf(c) THEN x ELSE 0)
           + (IF conv THEN (IF b = c /\ f = d THEN x ELSE 0) + (IF b = u /\ f = n THEN x ELSE 0)
                      ELSE (IF b = u /\ f = d THEN x ELSE 0))
  BY <1>1, <1>2, RefundLedger DEF Refunded
<1>4. conv => RefundInfo(p) \in Catalogue /\ RefundInfo(p).ibc = d /\ RefundInfo(p).channel = c
  BY <1>2, RefundInfoOfVoucher
<1>5. \A e \in Catalogue : conv => (e.native = n <=> e.ibc = d) /\ (e.ibc = d => e.channel = c)
  <2>1. \A e \in Catalogue, f \in Catalogue : (e.native = f.native <=> e.ibc = f.ibc)
                                              /\ (e.ibc = f.ibc => e.channel = f.channel)
    BY CatalogueDistinct
  <2> QED
    BY <1>4, <2>1
<1> HIDE DEF c, d, x, u, conv, n, M
<1>6. ASSUME NEW e \in Catalogue
      PROVE  M.bal[e.channel][e.ibc]
               = M.supply[e.native] - GenesisSupply[e.native] + donated[e.ibc]
  <2>1. /\ e.channel \in Account /\ e.channel # u /\ e.ibc \in Denom /\ e.native \in Denom
        /\ ~(e.channel = c /\ e.ibc = d /\ d \notin VouchersOf(c))
        /\ ~(e.native = d /\ d \in VouchersOf(c))
    BY <1>2, CatalogueCoins, TransferAssumption DEF VouchersOf, Voucher
  <2>2. /\ ledger.bal[e.channel][e.ibc] \in Nat /\ ledger.supply[e.native] \in Int
        /\ donated[e.ibc] \in Nat /\ GenesisSupply[e.native] \in Nat
    BY CatalogueCoins DEF Ledger, BridgeInv, BridgeTypeOK
  <2>3. ledger.bal[e.channel][e.ibc]
          = ledger.supply[e.native] - GenesisSupply[e.native] + donated[e.ibc]
    BY DEF BridgeInv, BackedBy
  <2>4. M.supply[e.native] = ledger.supply[e.native] + (IF conv /\ e.ibc = d THEN x ELSE 0)
    BY <1>2, <1>3, <1>5, <2>1, <2>2
  <2>5. M.bal[e.channel][e.ibc]
          = ledger.bal[e.channel][e.ibc] + (IF conv /\ e.ibc = d THEN x ELSE 0)
    BY <1>2, <1>3, <1>5, <2>1, <2>2
  <2> QED
    BY <1>1, <1>2, <2>2, <2>3, <2>4, <2>5
<1> QED
  BY <1>3, <1>6 DEF BackedBy, M

(* So does a refund, of either kind.                                        *)
LEMMA RefundStep ==
  ASSUME RegistryInv, BridgeInv, NEW p \in inflight, Refund(p)
  PROVE  BridgeInv'
<1>1. Refunded(p) \in Ledger /\ BackedBy(Refunded(p), donated)
  BY RefundBacked DEF Refund
<1>2. /\ ledger' = Refunded(p) /\ donated' = donated /\ remote' = remote /\ nextSeq' = nextSeq
      /\ inflight' \subseteq inflight
  BY DEF Refund, Refunded
<1> QED
  BY <1>1, <1>2 DEF BridgeInv, BridgeTypeOK, BackedBy

(* A receipt from the counterparty keeps the pairs in step: the voucher it  *)
(* brings is locked and its native coin minted, or it stays a voucher, and  *)
(* is a gift if its receiver is the escrow account (OnRecvPacket).          *)
LEMMA ReceivedLedgerBacked ==
  ASSUME RegistryInv, BridgeInv, NEW c \in Channel, NEW a \in Asset, NEW x \in Amount,
         NEW to \in Account
  PROVE  LET v == Voucher(c, a)
             M == ReceivedLedger(c, a, x, to)
         IN  /\ M \in Ledger
             /\ \A e \in Catalogue :
                  M.bal[e.channel][e.ibc]
                    = M.supply[e.native] - GenesisSupply[e.native] + donated[e.ibc]
                        + (IF ~IsReceivedConverted(c, a) /\ e.channel = to /\ e.ibc = v
                             THEN x ELSE 0)
<1> DEFINE v == Voucher(c, a)
           n == infoByAsset[a].native
           conv == IsReceivedConverted(c, a)
           home == IF conv THEN c ELSE to
           M == ReceivedLedger(c, a, x, to)
<1>1. x \in Nat /\ ledger \in Ledger /\ v \in Ibc /\ v \in Denom /\ v \notin Native
  BY TransferAssumption DEF BridgeInv, BridgeTypeOK, Voucher
<1>2. /\ M \in Ledger
      /\ \A f \in Denom : M.supply[f] = ledger.supply[f] + (IF f = v THEN x ELSE 0)
           + (IF conv /\ f = n THEN x ELSE 0)
      /\ \A b \in Account, f \in Denom : M.bal[b][f] = ledger.bal[b][f]
           + (IF b = home /\ f = v THEN x ELSE 0) + (IF conv /\ b = to /\ f = n THEN x ELSE 0)
  BY <1>1, ReceivedLedgerEffect
<1>3. conv => infoByAsset[a] \in Catalogue /\ infoByAsset[a].ibc = v /\ n \in Native
  BY ReceivedInfo, CatalogueCoins
<1>4. \A e \in Catalogue : (conv => (e.native = n <=> e.ibc = v)) /\ (e.ibc = v => e.channel = c)
  <2>1. \A e \in Catalogue, f \in Catalogue : e.native = f.native <=> e.ibc = f.ibc
    BY CatalogueDistinct
  <2>2. \A e \in Catalogue : e.ibc = v => e.channel = c
    BY CatalogueCoins DEF Voucher
  <2> QED
    BY <1>3, <2>1, <2>2
<1> HIDE DEF v, n, conv, M
<1>5. ASSUME NEW e \in Catalogue
      PROVE  M.bal[e.channel][e.ibc]
               = M.supply[e.native] - GenesisSupply[e.native] + donated[e.ibc]
                   + (IF ~conv /\ e.channel = to /\ e.ibc = v THEN x ELSE 0)
  <2>1. /\ e.channel \in Account /\ e.ibc \in Denom /\ e.native \in Denom
        /\ e.native # v /\ (conv => e.ibc # n)
    BY <1>1, <1>3, CatalogueCoins
  <2>2. /\ ledger.bal[e.channel][e.ibc] \in Nat /\ ledger.supply[e.native] \in Int
        /\ donated[e.ibc] \in Nat /\ GenesisSupply[e.native] \in Nat
    BY CatalogueCoins DEF Ledger, BridgeInv, BridgeTypeOK
  <2>3. ledger.bal[e.channel][e.ibc]
          = ledger.supply[e.native] - GenesisSupply[e.native] + donated[e.ibc]
    BY DEF BridgeInv, BackedBy
  <2>4. M.supply[e.native] = ledger.supply[e.native] + (IF conv /\ e.ibc = v THEN x ELSE 0)
    BY <1>1, <1>2, <1>4, <2>1, <2>2
  <2>5. M.bal[e.channel][e.ibc] = ledger.bal[e.channel][e.ibc]
          + (IF e.channel = home /\ e.ibc = v THEN x ELSE 0)
    BY <1>1, <1>2, <2>1, <2>2
  <2> QED
    BY <1>1, <1>4, <2>2, <2>3, <2>4, <2>5
<1> QED
  BY <1>2, <1>5 DEF v, conv, M

(* A receipt: what is not converted and goes to the escrow account itself   *)
(* is a gift.                                                               *)
LEMMA OnRecvAssetStep ==
  ASSUME RegistryInv, BridgeInv, NEW c \in Channel, NEW a \in Asset, NEW x \in Amount,
         NEW to \in Account, OnRecvAsset(c, a, x, to)
  PROVE  BridgeInv'
<1> DEFINE v == Voucher(c, a)
<1>1. x \in Nat /\ v \in Ibc /\ v \in Denom /\ remote[c][a] \in Nat
  BY TransferAssumption DEF BridgeInv, BridgeTypeOK, Voucher
<1>2. /\ remote' \in [Channel -> [Asset \cup Denom -> Nat]]
      /\ inflight' = inflight /\ nextSeq' = nextSeq
  <2>1. remote \in [Channel -> [Asset \cup Denom -> Nat]] /\ a \in Asset \cup Denom
    BY DEF BridgeInv, BridgeTypeOK
  <2>2. remote' = [remote EXCEPT ![c][a] = @ - x] /\ remote[c][a] >= x
    BY DEF OnRecvAsset
  <2>3. remote[c][a] - x \in Nat
    BY <1>1, <2>2
  <2>4. remote' \in [Channel -> [Asset \cup Denom -> Nat]]
    BY ONLY <2>1, <2>2, <2>3, c \in Channel
  <2> QED
    BY <2>4 DEF OnRecvAsset
<1>3. /\ ledger' \in Ledger
      /\ \A e \in Catalogue :
           ledger'.bal[e.channel][e.ibc]
             = ledger'.supply[e.native] - GenesisSupply[e.native] + donated[e.ibc]
                 + (IF ~IsReceivedConverted(c, a) /\ e.channel = to /\ e.ibc = v THEN x ELSE 0)
  BY ReceivedLedgerBacked DEF OnRecvAsset
<1> HIDE DEF v
<1>4. /\ donated' \in [Ibc -> Nat]
      /\ \A e \in Catalogue :
           donated'[e.ibc] = donated[e.ibc]
             + (IF ~IsReceivedConverted(c, a) /\ e.channel = to /\ e.ibc = v THEN x ELSE 0)
  <2>1. CASE IsReceivedConverted(c, a)
    <3>1. donated' = donated /\ donated \in [Ibc -> Nat]
      BY <2>1 DEF OnRecvAsset, BridgeInv, BridgeTypeOK
    <3>2. \A e \in Catalogue : donated[e.ibc] \in Nat
      BY <3>1, CatalogueCoins
    <3> QED
      BY <2>1, <3>1, <3>2
  <2>2. CASE ~IsReceivedConverted(c, a)
    <3>1. DonationTo(to, v, x) /\ donated \in [Ibc -> Nat]
      BY <2>2 DEF OnRecvAsset, v, BridgeInv, BridgeTypeOK
    <3> QED
      BY <1>1, <2>2, <3>1, DonationEffect
  <2> QED
    BY <2>1, <2>2
<1>5. ASSUME NEW e \in Catalogue
      PROVE  ledger'.bal[e.channel][e.ibc]
               = ledger'.supply[e.native] - GenesisSupply[e.native] + donated'[e.ibc]
  <2>1. ledger'.supply[e.native] \in Int /\ GenesisSupply[e.native] \in Nat /\ donated[e.ibc] \in Nat
    BY <1>3, CatalogueCoins DEF Ledger, BridgeInv, BridgeTypeOK
  <2> QED
    BY <1>1, <1>3, <1>4, <2>1
<1> QED
  BY <1>2, <1>3, <1>4, <1>5 DEF BridgeInv, BridgeTypeOK, BackedBy

(* A coin of this chain that comes back is unlocked; it is no voucher of    *)
(* the channel it comes over (ReceiverChainIsSource).                       *)
LEMMA OnRecvReturnedStep ==
  ASSUME BridgeInv, NEW c \in Channel, NEW d \in Denom, NEW x \in Amount,
         NEW to \in Account, OnRecvReturned(c, d, x, to)
  PROVE  BridgeInv'
<1>1. x \in Nat /\ ledger \in Ledger /\ c \in Account /\ remote[c][d] \in Nat
      /\ donated \in [Ibc -> Nat] /\ BackedBy(ledger, donated)
  BY TransferAssumption DEF BridgeInv, BridgeTypeOK
<1>2. /\ CanSpend(ledger, c, d, x) /\ ledger' = SendCoins(ledger, c, to, d, x)
      /\ DonationTo(to, d, x) /\ inflight' = inflight /\ nextSeq' = nextSeq
      /\ d \notin VouchersOf(c)
  BY DEF OnRecvReturned, EscrowAddress, SenderChainIsSource
<1>3. remote' \in [Channel -> [Asset \cup Denom -> Nat]]
  <2>1. remote \in [Channel -> [Asset \cup Denom -> Nat]] /\ d \in Asset \cup Denom
    BY DEF BridgeInv, BridgeTypeOK
  <2>2. remote' = [remote EXCEPT ![c][d] = @ - x] /\ remote[c][d] >= x
    BY DEF OnRecvReturned
  <2>3. remote[c][d] - x \in Nat
    BY <1>1, <2>2
  <2> QED
    BY <2>1, <2>2, <2>3
<1>4. /\ donated' \in [Ibc -> Nat]
      /\ \A e \in Catalogue :
           donated'[e.ibc] = donated[e.ibc] + (IF e.channel = to /\ e.ibc = d THEN x ELSE 0)
  BY <1>1, <1>2, DonationEffect
<1>5. \A e \in Catalogue : ~(e.channel = c /\ e.ibc = d)
  BY <1>2, CatalogueCoins
<1>6. ledger' \in Ledger /\ BackedBy(ledger', donated')
  BY <1>1, <1>2, <1>4, <1>5, BackedBySend
<1> QED
  BY <1>2, <1>3, <1>4, <1>6 DEF BridgeInv, BridgeTypeOK, BackedBy

(* A user's bank send takes nothing out of an escrow account, and what it   *)
(* puts there is a gift.                                                    *)
LEMMA BankSendStep ==
  ASSUME BridgeInv, NEW u \in User, NEW to \in Account, NEW d \in Denom, NEW x \in Amount,
         BankSend(u, to, d, x)
  PROVE  BridgeInv'
<1>1. x \in Nat /\ ledger \in Ledger /\ u \in Account
      /\ donated \in [Ibc -> Nat] /\ BackedBy(ledger, donated)
  BY TransferAssumption DEF BridgeInv, BridgeTypeOK
<1>2. /\ CanSpend(ledger, u, d, x) /\ ledger' = SendCoins(ledger, u, to, d, x)
      /\ DonationTo(to, d, x) /\ inflight' = inflight /\ nextSeq' = nextSeq /\ remote' = remote
  BY DEF BankSend
<1>3. /\ donated' \in [Ibc -> Nat]
      /\ \A e \in Catalogue :
           donated'[e.ibc] = donated[e.ibc] + (IF e.channel = to /\ e.ibc = d THEN x ELSE 0)
  BY <1>1, <1>2, DonationEffect
<1>4. \A e \in Catalogue : ~(e.channel = u /\ e.ibc = d)
  BY CatalogueCoins
<1>5. ledger' \in Ledger /\ BackedBy(ledger', donated')
  BY <1>1, <1>2, <1>3, <1>4, BackedBySend
<1> QED
  BY <1>2, <1>3, <1>5 DEF BridgeInv, BridgeTypeOK, BackedBy

(* A delivery touches no ledger.                                            *)
LEMMA DeliverStep ==
  ASSUME BridgeInv, NEW p \in inflight, Deliver(p)
  PROVE  BridgeInv'
<1>1. p \in Packet /\ p.channel \in Channel /\ p.denom \in Denom /\ p.amount \in Nat
      /\ ledger' = ledger /\ nextSeq' = nextSeq /\ donated' = donated
  BY TransferAssumption DEF BridgeInv, BridgeTypeOK, Packet, Deliver
<1>2. RemoteName(p.channel, p.denom) \in Asset \cup Denom
  BY <1>1 DEF RemoteName, SenderChainIsSource, VouchersOf, Voucher
<1>3. inflight' \subseteq Packet
  <2>1. [p EXCEPT !.status = "ok"] \in Packet /\ [p EXCEPT !.status = "error"] \in Packet
    BY <1>1 DEF Packet
  <2> QED
    BY <2>1 DEF Deliver, BridgeInv, BridgeTypeOK
<1>4. remote' \in [Channel -> [Asset \cup Denom -> Nat]]
  <2> DEFINE r == RemoteName(p.channel, p.denom)
  <2>1. remote \in [Channel -> [Asset \cup Denom -> Nat]]
        /\ (remote' = remote \/ remote' = [remote EXCEPT ![p.channel][r] = @ + p.amount])
    BY DEF Deliver, BridgeInv, BridgeTypeOK
  <2> HIDE DEF r
  <2>2. r \in Asset \cup Denom
    BY <1>2 DEF r
  <2>3. remote[p.channel][r] + p.amount \in Nat
    BY <1>1, <2>1, <2>2
  <2>4. CASE remote' = remote
    BY <2>1, <2>4
  <2>5. CASE remote' = [remote EXCEPT ![p.channel][r] = @ + p.amount]
    <3>1. [remote[p.channel] EXCEPT ![r] = @ + p.amount] \in [Asset \cup Denom -> Nat]
      BY <1>1, <2>1, <2>3
    <3> QED
      BY <1>1, <2>1, <2>5, <3>1
  <2> QED
    BY <2>1, <2>4, <2>5
<1> QED
  BY <1>1, <1>3, <1>4 DEF BridgeInv, BridgeTypeOK, BackedBy

(* At genesis nothing is minted, locked or given.                           *)
LEMMA BridgeInitInv == Init => BridgeInv
<1> SUFFICES ASSUME Init PROVE BridgeInv
  OBVIOUS
<1>1. ledger \in Ledger
  BY TransferAssumption DEF Init, Ledger
<1>2. /\ inflight \subseteq Packet /\ nextSeq \in [Channel -> Nat] /\ donated \in [Ibc -> Nat]
      /\ remote \in [Channel -> [Asset \cup Denom -> Nat]]
  BY TransferAssumption DEF Init
<1>3. ASSUME NEW e \in Catalogue
      PROVE  ledger.bal[e.channel][e.ibc]
               = ledger.supply[e.native] - GenesisSupply[e.native] + donated[e.ibc]
  <2>1. /\ e.channel \in Account /\ e.channel \notin User /\ e.ibc \in Denom /\ e.ibc \in Ibc
        /\ e.native \in Native /\ e.native \in Denom /\ GenesisSupply[e.native] \in Nat
    BY CatalogueCoins
  <2> QED
    BY <2>1 DEF Init
<1> QED
  BY <1>1, <1>2, <1>3 DEF BridgeInv, BridgeTypeOK, BackedBy

(* Every step keeps the registry's keys in agreement and the bridge backed. *)
LEMMA StepInv == RegistryInv /\ BridgeInv /\ [Next]_vars => RegistryInv' /\ BridgeInv'
<1> SUFFICES ASSUME RegistryInv, BridgeInv, [Next]_vars
             PROVE  RegistryInv' /\ BridgeInv'
  OBVIOUS
<1>1. CASE RegistryStep
  <2>1. RegistryInv'
    BY <1>1, RegistryStepInv DEF RegistryStep
  <2>2. BridgeInv'
    BY <1>1 DEF RegistryStep, bridgeVars, BridgeInv, BridgeTypeOK, BackedBy
  <2> QED
    BY <2>1, <2>2
<1>2. CASE BridgeStep
  <2>1. RegistryInv'
    BY <1>2, RegistryStepInv DEF BridgeStep
  <2>2. CASE UserTx
    BY <2>1, <2>2, TransferPassedOnStep, TransferConvertedStep, BankSendStep DEF UserTx
  <2>3. CASE ReceiveTx
    BY <2>1, <2>3, OnRecvAssetStep, OnRecvReturnedStep DEF ReceiveTx
  <2>4. CASE PacketStep
    <3>1. PICK p \in inflight :
            OnTimeoutPacket(p) \/ OnAcknowledgementPacket(p) \/ Deliver(p)
      BY <2>4 DEF PacketStep
    <3>2. CASE Refund(p)
      BY <2>1, <3>2, RefundStep
    <3>3. CASE inflight' = inflight \ {p} /\ UNCHANGED <<ledger, nextSeq, remote, donated>>
      BY <2>1, <3>3 DEF BridgeInv, BridgeTypeOK, BackedBy
    <3>4. CASE Deliver(p)
      BY <2>1, <3>4, DeliverStep
    <3> QED
      BY <3>1, <3>2, <3>3, <3>4 DEF OnTimeoutPacket, OnAcknowledgementPacket
  <2> QED
    BY <1>2, <2>1, <2>2, <2>3, <2>4 DEF BridgeStep
<1>3. CASE UNCHANGED vars
  <2>1. UNCHANGED registryVars /\ UNCHANGED bridgeVars
    BY <1>3 DEF vars
  <2>2. RegistryInv'
    BY <2>1, RegistryStepInv
  <2>3. BridgeInv'
    BY <2>1 DEF bridgeVars, BridgeInv, BridgeTypeOK, BackedBy
  <2> QED
    BY <2>2, <2>3
<1> QED
  BY <1>1, <1>2, <1>3 DEF Next

(* The registry's keys agree and every minted native coin is backed, after *)
(* any interleaving of transfers, receipts, refunds and governance.        *)
THEOREM BridgeInvariant == Spec => [](RegistryInv /\ BridgeInv)
<1>1. Init => RegistryInv /\ BridgeInv
  BY RegistryInitInv, BridgeInitInv DEF Init
<1> QED
  BY <1>1, StepInv, PTL DEF Spec

(* The variables of registry and middleware always have their types: no     *)
(* handler drives a balance below zero (TypeOK).                            *)
THEOREM BridgeTypeCorrect == Spec => []TypeOK
<1>1. RegistryInv /\ BridgeInv => TypeOK
  BY DEF RegistryInv, BridgeInv, BridgeTypeOK, TypeOK
<1> QED
  BY <1>1, BridgeInvariant, PTL

(* Native coins minted by the bridge are matched, one for one, by vouchers  *)
(* locked for them in the escrow account (Backing).                         *)
THEOREM BridgeBacked == Spec => []Backing
<1>1. RegistryInv /\ BridgeInv => Backing
  BY DEF BridgeInv, BackedBy, Backing, EscrowAddress
<1> QED
  BY <1>1, BridgeInvariant, PTL

-----------------------------------------------------------------------------
(* A packet, or what is kept for it, is known by its channel and sequence.  *)
Key(r) == <<r.channel, r.seq>>
UnderWay == {Key(p) : p \in inflight}

(* Packets under way are records of their own channel and sequence.         *)
PacketsSound ==
  /\ nextSeq \in [Channel -> Nat]
  /\ \A p \in inflight :
       /\ {"channel", "seq", "status"} \subseteq DOMAIN p
       /\ p.channel \in Channel /\ p.seq \in Nat /\ p.seq < nextSeq[p.channel]
       /\ p.status \in {"sent", "ok", "error"}
  /\ \A p, q \in inflight : Key(p) = Key(q) => p = q

(* Sending a packet.                                                        *)
LEMMA EmitKeepsPackets ==
  ASSUME PacketsSound, NEW u, NEW c \in Channel, NEW d, NEW x, EmitPacket(u, c, d, x)
  PROVE  /\ PacketsSound'
         /\ <<c, nextSeq[c]>> \notin UnderWay
         /\ UnderWay' = UnderWay \cup {<<c, nextSeq[c]>>}
         /\ \A b \in Channel : nextSeq[b] \in Nat /\ nextSeq'[b] \in Nat /\ nextSeq[b] <= nextSeq'[b]
         /\ nextSeq[c] < nextSeq'[c]
<1> DEFINE p == [seq |-> nextSeq[c], channel |-> c, denom |-> d, amount |-> x,
                 sender |-> u, status |-> "sent"]
<1>1. /\ p.channel = c /\ p.seq = nextSeq[c] /\ p.status = "sent"
      /\ {"channel", "seq", "status"} \subseteq DOMAIN p
  OBVIOUS
<1>2. inflight' = inflight \cup {p} /\ nextSeq' = [nextSeq EXCEPT ![c] = @ + 1]
  BY DEF EmitPacket
<1> HIDE DEF p
<1>3. nextSeq[c] \in Nat /\ nextSeq' \in [Channel -> Nat] /\ nextSeq'[c] = nextSeq[c] + 1
  BY <1>2 DEF PacketsSound
<1>4. \A b \in Channel : nextSeq[b] \in Nat /\ nextSeq'[b] \in Nat /\ nextSeq[b] <= nextSeq'[b]
  BY <1>2, <1>3 DEF PacketsSound
<1>5. \A q \in inflight : ~(q.channel = c /\ q.seq = nextSeq[c])
  BY <1>3 DEF PacketsSound
<1>6. /\ <<c, nextSeq[c]>> \notin UnderWay
      /\ UnderWay' = UnderWay \cup {<<c, nextSeq[c]>>}
  BY <1>1, <1>2, <1>5 DEF UnderWay, Key
<1>7. ASSUME NEW q \in inflight'
      PROVE  /\ {"channel", "seq", "status"} \subseteq DOMAIN q
             /\ q.channel \in Channel /\ q.seq \in Nat /\ q.seq < nextSeq'[q.channel]
             /\ q.status \in {"sent", "ok", "error"}
  <2>1. CASE q \in inflight
    <3>1. /\ {"channel", "seq", "status"} \subseteq DOMAIN q
          /\ q.channel \in Channel /\ q.seq \in Nat /\ q.seq < nextSeq[q.channel]
          /\ q.status \in {"sent", "ok", "error"}
      BY <2>1 DEF PacketsSound
    <3> DEFINE b == q.channel
    <3>2. nextSeq[b] \in Nat /\ nextSeq'[b] \in Nat /\ nextSeq[b] <= nextSeq'[b]
      BY <1>4, <3>1
    <3>3. q.seq < nextSeq'[b]
      BY <3>1, <3>2
    <3> QED BY <3>1, <3>3
  <2>2. CASE q = p
    BY <1>1, <1>3, <2>2
  <2> QED BY <1>2, <1>7, <2>1, <2>2
<1>8. ASSUME NEW q \in inflight', NEW r \in inflight', Key(q) = Key(r)
      PROVE  q = r
  <2>1. CASE q \in inflight /\ r \in inflight
    BY <1>8, <2>1 DEF PacketsSound
  <2>2. CASE q = p \/ r = p
    BY <1>1, <1>2, <1>5, <1>8, <2>2 DEF Key
  <2> QED BY <1>2, <2>1, <2>2
<1>9. PacketsSound'
  BY <1>3, <1>7, <1>8 DEF PacketsSound, Key
<1>10. nextSeq[c] < nextSeq'[c]
  BY <1>3
<1> QED BY <1>4, <1>6, <1>9, <1>10

(* A packet that is answered leaves; no other does.                         *)
LEMMA RemoveKeepsPackets ==
  ASSUME PacketsSound, NEW p \in inflight, inflight' = inflight \ {p}, UNCHANGED nextSeq
  PROVE  PacketsSound' /\ UnderWay' = UnderWay \ {Key(p)}
<1>1. PacketsSound'
  BY DEF PacketsSound, Key
<1>2. \A q \in inflight : Key(p) = Key(q) => p = q
  BY DEF PacketsSound
<1>3. UnderWay' = UnderWay \ {Key(p)}
  BY <1>2 DEF UnderWay, Key
<1> QED BY <1>1, <1>3

(* The counterparty's answer changes a packet's status.                     *)
LEMMA DeliverKeepsPackets ==
  ASSUME PacketsSound, NEW p \in inflight, Deliver(p)
  PROVE  PacketsSound' /\ UNCHANGED nextSeq /\ UnderWay' = UnderWay
<1>1. PICK st \in {"ok", "error"} : inflight' = (inflight \ {p}) \cup {[p EXCEPT !.status = st]}
  BY DEF Deliver
<1>2. UNCHANGED nextSeq
  BY DEF Deliver
<1> DEFINE q == [p EXCEPT !.status = st]
<1>3. /\ q.channel = p.channel /\ q.seq = p.seq /\ q.status = st
      /\ {"channel", "seq", "status"} \subseteq DOMAIN q
  BY DEF PacketsSound
<1> HIDE DEF q
<1>4. inflight' = (inflight \ {p}) \cup {q}
  BY <1>1 DEF q
<1>5. ASSUME NEW r \in inflight'
      PROVE  /\ {"channel", "seq", "status"} \subseteq DOMAIN r
             /\ r.channel \in Channel /\ r.seq \in Nat /\ r.seq < nextSeq'[r.channel]
             /\ r.status \in {"sent", "ok", "error"}
  BY <1>2, <1>3, <1>4 DEF PacketsSound
<1>6. ASSUME NEW r \in inflight', NEW t \in inflight', Key(r) = Key(t)
      PROVE  r = t
  BY <1>3, <1>4, <1>6 DEF PacketsSound, Key
<1>7. PacketsSound'
  BY <1>2, <1>5, <1>6 DEF PacketsSound, Key
<1>8. UnderWay' = UnderWay
  BY <1>3, <1>4 DEF UnderWay, Key
<1> QED BY <1>2, <1>7, <1>8

-----------------------------------------------------------------------------
(* The amounts of a set of packets; what is pending is one.                 *)
Amounts(T) == SumFunctionOnSet([p \in Packet |-> p.amount], T)

(* The amount of a packet is a natural number.                             *)
LEMMA PacketAmount ==
  ASSUME NEW p \in Packet
  PROVE  p.amount \in Nat
BY DEF Packet

(* The sum does not depend on the set of packets it is written over.       *)
LEMMA AmountsOfPackets ==
  ASSUME NEW I, I \subseteq Packet, NEW T, T \subseteq I, IsFiniteSet(T)
  PROVE  /\ SumFunctionOnSet([p \in I |-> p.amount], T) = Amounts(T)
         /\ Amounts(T) \in Nat
<1> DEFINE g == [p \in I |-> p.amount]
           h == [p \in Packet |-> p.amount]
<1>1. \A p \in T : h[p] \in Nat /\ h[p] \in Int /\ g[p] = h[p]
  BY PacketAmount
<1> HIDE DEF g, h
<1>2. SumFunctionOnSet(g, T) = SumFunctionOnSet(h, T)
  BY <1>1, SumCongruence
<1>3. SumFunctionOnSet(h, T) \in Nat
  BY <1>1, SumNat
<1> QED
  BY <1>2, <1>3 DEF Amounts, g, h

(* One packet more.                                                        *)
LEMMA AmountsInsert ==
  ASSUME NEW T, T \subseteq Packet, IsFiniteSet(T), NEW p \in Packet, p \notin T
  PROVE  Amounts(T \cup {p}) = Amounts(T) + p.amount
<1> DEFINE h == [q \in Packet |-> q.amount]
<1>1. \A q \in Packet : h[q] = q.amount /\ h[q] \in Int
  BY PacketAmount
<1> HIDE DEF h
<1>2. SumFunctionOnSet(h, T \cup {p}) = h[p] + SumFunctionOnSet(h, T)
  BY <1>1, SumInsert
<1>3. SumFunctionOnSet(h, T) \in Int
  BY <1>1, SumType
<1> QED
  BY <1>1, <1>2, <1>3 DEF Amounts, h

(* PendingPackets, in any set of packets.                                  *)
PendingIn(I, c, d) == {p \in I : p.channel = c /\ p.denom = d /\ p.status # "ok"}

(* Pending depends on the packets under way only.                           *)
LEMMA PendingIsAmounts ==
  ASSUME inflight \subseteq Packet, IsFiniteSet(inflight), NEW c, NEW d
  PROVE  Pending(c, d) = Amounts(PendingIn(inflight, c, d)) /\ Pending(c, d) \in Nat
<1> DEFINE T == PendingIn(inflight, c, d)
<1>1. T \subseteq inflight /\ PendingPackets(c, d) = T
  BY DEF PendingIn, PendingPackets
<1>2. IsFiniteSet(T)
  BY <1>1, FS_Subset
<1> HIDE DEF T
<1> QED
  BY <1>1, <1>2, AmountsOfPackets DEF Pending, T
(* The same in the next state.                                             *)
LEMMA PendingIsAmountsNext ==
  ASSUME inflight' \subseteq Packet, IsFiniteSet(inflight'), NEW c, NEW d
  PROVE  Pending(c, d)' = Amounts(PendingIn(inflight', c, d))
<1> DEFINE T == PendingIn(inflight', c, d)
<1>1. T \subseteq inflight' /\ PendingPackets(c, d)' = T
  BY DEF PendingIn, PendingPackets
<1>2. IsFiniteSet(T)
  BY <1>1, FS_Subset
<1> HIDE DEF T
<1> QED
  BY <1>1, <1>2, AmountsOfPackets DEF Pending, T

(* What a packet adds to the amount pending over c as d.                   *)
Counted(q, c, d) == IF q.channel = c /\ q.denom = d /\ q.status # "ok" THEN q.amount ELSE 0

(* A packet that comes, or goes, changes what is pending by what it        *)
(* counts.                                                                 *)
LEMMA PendingInsert ==
  ASSUME NEW I, I \subseteq Packet, IsFiniteSet(I), NEW q \in Packet, q \notin I, NEW c, NEW d
  PROVE  Amounts(PendingIn(I \cup {q}, c, d)) = Amounts(PendingIn(I, c, d)) + Counted(q, c, d)
<1> DEFINE T == PendingIn(I, c, d)
<1>1. T \subseteq I
  BY DEF PendingIn
<1>2. IsFiniteSet(T)
  BY <1>1, FS_Subset
<1>3. PendingIn(I \cup {q}, c, d)
        = IF q.channel = c /\ q.denom = d /\ q.status # "ok" THEN T \cup {q} ELSE T
  BY DEF PendingIn
<1> HIDE DEF T
<1>4. Amounts(T) \in Nat
  BY <1>1, <1>2, AmountsOfPackets
<1>5. Amounts(T \cup {q}) = Amounts(T) + q.amount
  BY <1>1, <1>2, AmountsInsert
<1> QED
  BY <1>3, <1>4, <1>5 DEF T, Counted

(* And one packet less.                                                     *)
LEMMA PendingRemove ==
  ASSUME NEW I, I \subseteq Packet, IsFiniteSet(I), NEW p \in I, NEW c, NEW d
  PROVE  Amounts(PendingIn(I, c, d)) = Amounts(PendingIn(I \ {p}, c, d)) + Counted(p, c, d)
<1> DEFINE J == I \ {p}
<1>1. J \subseteq Packet /\ IsFiniteSet(J) /\ p \notin J /\ p \in Packet /\ J \cup {p} = I
  BY FS_RemoveElement
<1> HIDE DEF J
<1>2. Amounts(PendingIn(J \cup {p}, c, d)) = Amounts(PendingIn(J, c, d)) + Counted(p, c, d)
  BY <1>1, PendingInsert
<1> QED
  BY <1>1, <1>2 DEF J

(* Pending packets after each kind of step.                                 *)
LEMMA EmitPending ==
  ASSUME BridgeTypeOK, PacketsSound, IsFiniteSet(inflight), NEW u \in User, NEW c \in Channel,
         NEW d \in Denom, NEW x \in Nat \ {0}, EmitPacket(u, c, d, x)
  PROVE  /\ IsFiniteSet(inflight')
         /\ \A b \in Channel, f \in Denom :
              Pending(b, f)' = Pending(b, f) + (IF b = c /\ f = d THEN x ELSE 0)
<1> DEFINE q == [seq |-> nextSeq[c], channel |-> c, denom |-> d, amount |-> x,
                 sender |-> u, status |-> "sent"]
<1>1. inflight' = inflight \cup {q} /\ inflight \subseteq Packet /\ inflight' \subseteq Packet
  BY EmitPacketEffect DEF EmitPacket, BridgeTypeOK
<1>2. q \in Packet
  BY <1>1
<1>3. q \notin inflight
  BY DEF PacketsSound
<1>4. \A b \in Channel, f \in Denom : Counted(q, b, f) = IF b = c /\ f = d THEN x ELSE 0
  BY DEF Counted
<1> HIDE DEF q
<1>5. IsFiniteSet(inflight')
  BY <1>1, FS_AddElement
<1>6. ASSUME NEW b \in Channel, NEW f \in Denom
      PROVE  Pending(b, f)' = Pending(b, f) + (IF b = c /\ f = d THEN x ELSE 0)
  <2>1. Pending(b, f) = Amounts(PendingIn(inflight, b, f))
    BY <1>1, PendingIsAmounts
  <2>2. Pending(b, f)' = Amounts(PendingIn(inflight', b, f))
    BY <1>1, <1>5, PendingIsAmountsNext
  <2>3. Amounts(PendingIn(inflight \cup {q}, b, f)) = Amounts(PendingIn(inflight, b, f)) + Counted(q, b, f)
    BY <1>1, <1>2, <1>3, PendingInsert
  <2>4. PendingIn(inflight', b, f) = PendingIn(inflight \cup {q}, b, f)
    BY <1>1
  <2> QED
    BY <1>4, <2>1, <2>2, <2>3, <2>4
<1> QED
  BY <1>5, <1>6

(* Pending after a packet is acknowledged, timed out or refused.           *)
LEMMA RemovePending ==
  ASSUME BridgeTypeOK, IsFiniteSet(inflight), NEW p \in inflight, inflight' = inflight \ {p}
  PROVE  /\ IsFiniteSet(inflight')
         /\ \A b \in Channel, f \in Denom : Pending(b, f) = Pending(b, f)' + Counted(p, b, f)
<1>1. inflight \subseteq Packet /\ inflight' \subseteq Packet
  BY DEF BridgeTypeOK
<1>2. IsFiniteSet(inflight')
  BY FS_RemoveElement
<1>3. ASSUME NEW b \in Channel, NEW f \in Denom
      PROVE  Pending(b, f) = Pending(b, f)' + Counted(p, b, f)
  <2>1. Pending(b, f) = Amounts(PendingIn(inflight, b, f))
    BY <1>1, PendingIsAmounts
  <2>2. Pending(b, f)' = Amounts(PendingIn(inflight', b, f))
    BY <1>1, <1>2, PendingIsAmountsNext
  <2>3. Amounts(PendingIn(inflight, b, f)) = Amounts(PendingIn(inflight \ {p}, b, f)) + Counted(p, b, f)
    BY <1>1, PendingRemove
  <2>4. PendingIn(inflight', b, f) = PendingIn(inflight \ {p}, b, f)
    OBVIOUS
  <2> QED
    BY <2>1, <2>2, <2>3, <2>4
<1> QED
  BY <1>2, <1>3

(* Pending after the counterparty has answered.                            *)
LEMMA DeliverPending ==
  ASSUME BridgeInv, PacketsSound, IsFiniteSet(inflight), NEW p \in inflight, Deliver(p)
  PROVE  /\ IsFiniteSet(inflight')
         /\ \A b \in Channel, f \in Denom :
              Pending(b, f) = Pending(b, f)'
                + (IF remote' # remote THEN Counted(p, b, f) ELSE 0)
<1>1. PICK st \in {"ok", "error"} :
        /\ inflight' = (inflight \ {p}) \cup {[p EXCEPT !.status = st]}
        /\ st = "error" => remote' = remote
        /\ st = "ok" => remote' = [remote EXCEPT ![p.channel][RemoteName(p.channel, p.denom)]
                                                   = @ + p.amount]
  BY DEF Deliver
<1> DEFINE q == [p EXCEPT !.status = st]
           J == inflight \ {p}
<1>2. p \in Packet /\ p.amount \in Nat /\ p.status = "sent" /\ inflight \subseteq Packet
      /\ inflight' \subseteq Packet
  BY DeliverStep, TransferAssumption DEF Deliver, BridgeInv, BridgeTypeOK, Packet
<1>3. q \in Packet /\ q.channel = p.channel /\ q.denom = p.denom /\ q.amount = p.amount
      /\ q.status = st /\ q.seq = p.seq
  BY <1>2 DEF Packet
<1>4. q \notin J
  BY <1>3 DEF PacketsSound, Key
<1>5. remote' # remote <=> st = "ok"
  <2>1. CASE st = "error"
    BY <1>1, <2>1
  <2>2. CASE st = "ok"
    <3> DEFINE c == p.channel
               r == RemoteName(p.channel, p.denom)
    <3>1. c \in Channel /\ r \in Asset \cup Denom /\ p.amount # 0
      BY <1>2, TransferAssumption DEF Packet, RemoteName, SenderChainIsSource, VouchersOf, Voucher
    <3>2. remote \in [Channel -> [Asset \cup Denom -> Nat]]
      BY DEF BridgeInv, BridgeTypeOK
    <3>3. remote' = [remote EXCEPT ![c][r] = @ + p.amount]
      BY <1>1, <2>2
    <3> HIDE DEF c, r
    <3>4. remote'[c][r] = remote[c][r] + p.amount /\ remote[c][r] \in Nat
      BY <3>1, <3>2, <3>3
    <3>5. remote'[c][r] # remote[c][r]
      BY <1>2, <3>1, <3>4
    <3> QED
      BY <2>2, <3>5
  <2> QED
    BY <2>1, <2>2
<1>6. inflight' = J \cup {q} /\ J \subseteq Packet /\ IsFiniteSet(J)
  BY <1>1, <1>2, FS_RemoveElement
<1> HIDE DEF q, J
<1>7. IsFiniteSet(inflight')
  BY <1>6, FS_AddElement
<1>8. ASSUME NEW b \in Channel, NEW f \in Denom
      PROVE  Pending(b, f) = Pending(b, f)' + (IF remote' # remote THEN Counted(p, b, f) ELSE 0)
  <2>1. Pending(b, f) = Amounts(PendingIn(inflight, b, f))
    BY <1>2, PendingIsAmounts
  <2>2. Pending(b, f)' = Amounts(PendingIn(inflight', b, f))
    BY <1>2, <1>7, PendingIsAmountsNext
  <2>3. Amounts(PendingIn(inflight, b, f)) = Amounts(PendingIn(J, b, f)) + Counted(p, b, f)
    BY <1>2, PendingRemove DEF J
  <2>4. Amounts(PendingIn(J \cup {q}, b, f)) = Amounts(PendingIn(J, b, f)) + Counted(q, b, f)
    BY <1>3, <1>4, <1>6, PendingInsert
  <2>5. PendingIn(inflight', b, f) = PendingIn(J \cup {q}, b, f)
    BY <1>6
  <2>6. Counted(q, b, f) = IF st = "ok" THEN 0 ELSE Counted(p, b, f)
    BY <1>2, <1>3 DEF Counted
  <2>7. Amounts(PendingIn(J, b, f)) \in Nat /\ Counted(p, b, f) \in Nat
    <3>1. PendingIn(J, b, f) \subseteq J
      BY DEF PendingIn
    <3>2. IsFiniteSet(PendingIn(J, b, f))
      BY <1>6, <3>1, FS_Subset
    <3>3. Amounts(PendingIn(J, b, f)) \in Nat
      BY <1>6, <3>1, <3>2, AmountsOfPackets
    <3> QED
      BY <1>2, <3>3 DEF Counted
  <2> QED
    BY <1>5, <2>1, <2>2, <2>3, <2>4, <2>5, <2>6, <2>7
<1> QED
  BY <1>7, <1>8

-----------------------------------------------------------------------------
(* A voucher is out there, on its way or in somebody's account here, for    *)
(* every channel and asset, registered or not.                              *)
Conserved ==
  \A c \in Channel, a \in Asset :
    remote[c][a] + Pending(c, Voucher(c, a)) + ledger.supply[Voucher(c, a)] = RemoteSupply[c][a]

(* The invariant behind the supply theorems.                               *)
ConservedInv ==
  /\ IsFiniteSet(inflight)
  /\ PacketsSound
  /\ BooksBalance(ledger)
  /\ Conserved
  /\ EscrowSolvent

(* The types of what the two sums compare.                                  *)
LEMMA TallyTypes ==
  ASSUME BridgeTypeOK, IsFiniteSet(inflight)
  PROVE  /\ \A c \in Channel, d \in Asset \cup Denom : remote[c][d] \in Nat
         /\ \A c \in Channel, d \in Denom : Pending(c, d) \in Nat
         /\ \A d \in Denom : ledger.supply[d] \in Int
         /\ \A b \in Account, d \in Denom : ledger.bal[b][d] \in Nat
         /\ \A c \in Channel, a \in Asset :
              Voucher(c, a) \in Denom /\ Voucher(c, a) \in Ibc /\ RemoteSupply[c][a] \in Nat
         /\ Channel \subseteq Account /\ User \subseteq Account /\ Amount \subseteq Nat
<1>1. /\ \A c \in Channel, d \in Asset \cup Denom : remote[c][d] \in Nat
      /\ \A d \in Denom : ledger.supply[d] \in Int
      /\ \A b \in Account, d \in Denom : ledger.bal[b][d] \in Nat
  BY DEF BridgeTypeOK, Ledger
<1>2. \A c \in Channel, d \in Denom : Pending(c, d) \in Nat
  BY PendingIsAmounts DEF BridgeTypeOK
<1> QED
  BY <1>1, <1>2, TransferAssumption DEF Voucher

(* Vouchers of a channel.                                                   *)
LEMMA VoucherOfChannel ==
  /\ \A c, b \in Channel, a \in Asset : Voucher(b, a) \in VouchersOf(c) <=> b = c
  /\ \A c \in Channel : \A d \in VouchersOf(c) : \E a \in Asset : d = Voucher(c, a)
  /\ \A c, b \in Channel, a, e \in Asset : Voucher(b, a) = Voucher(c, e) => b = c /\ a = e
BY DEF Voucher, VouchersOf

(* Sending a coin off: it leaves for the escrow account, or is burned and   *)
(* under way.                                                               *)
LEMMA SentConserves ==
  ASSUME BridgeInv, ConservedInv, NEW L, Midway(L), BooksBalance(L), NEW u \in User,
         NEW c \in Channel, NEW d \in Denom, NEW x \in Nat \ {0}, CanSpend(L, u, d, x),
         ledger' = SendTransfer(L, u, c, d, x), EmitPacket(u, c, d, x), remote' = remote
  PROVE  ConservedInv'
<1>1. /\ \A v \in Ibc : L.supply[v] = ledger.supply[v]
      /\ \A b \in Channel : \A f \in Denom \ VouchersOf(b) : L.bal[b][f] = ledger.bal[b][f]
  BY DEF Midway
<1>2. BridgeTypeOK /\ L \in Ledger /\ x \in Nat /\ u \notin Channel
  BY TransferAssumption DEF BridgeInv, Midway
<1>3. /\ IsFiniteSet(inflight')
      /\ \A b \in Channel, f \in Denom :
           Pending(b, f)' = Pending(b, f) + (IF b = c /\ f = d THEN x ELSE 0)
  BY <1>2, EmitPending DEF ConservedInv
<1>4. PacketsSound'
  BY EmitKeepsPackets DEF ConservedInv
<1>5. /\ BooksBalance(ledger')
      /\ \A f \in Denom :
           ledger'.supply[f] = L.supply[f] - (IF f = d /\ d \in VouchersOf(c) THEN x ELSE 0)
      /\ \A b \in Account, f \in Denom :
           ledger'.bal[b][f] = L.bal[b][f] - (IF b = u /\ f = d THEN x ELSE 0)
             + (IF b = c /\ f = d /\ d \notin VouchersOf(c) THEN x ELSE 0)
  BY <1>2, PassedOnLedger
<1>6. ASSUME NEW b \in Channel, NEW a \in Asset
      PROVE  remote'[b][a] + Pending(b, Voucher(b, a))' + ledger'.supply[Voucher(b, a)]
               = RemoteSupply[b][a]
  <2> DEFINE v == Voucher(b, a)
  <2>1. v = d /\ d \in VouchersOf(c) <=> b = c /\ v = d
    BY VoucherOfChannel
  <2>2. remote[b][a] + Pending(b, v) + ledger.supply[v] = RemoteSupply[b][a]
    BY DEF ConservedInv, Conserved
  <2>3. remote[b][a] \in Nat /\ Pending(b, v) \in Nat /\ ledger.supply[v] \in Int /\ v \in Denom
        /\ v \in Ibc
    BY <1>2, TallyTypes DEF ConservedInv
  <2> HIDE DEF v
  <2>4. Pending(b, v)' = Pending(b, v) + (IF b = c /\ v = d THEN x ELSE 0)
    BY <1>3, <2>3
  <2>5. ledger'.supply[v] = ledger.supply[v] - (IF b = c /\ v = d THEN x ELSE 0)
    BY <1>1, <1>5, <2>1, <2>3
  <2>6. remote'[b][a] + Pending(b, v)' + ledger'.supply[v] = RemoteSupply[b][a]
    BY <1>2, <2>2, <2>3, <2>4, <2>5
  <2> QED
    BY <2>6 DEF v
<1>7. ASSUME NEW b \in Channel, NEW f \in Denom \ VouchersOf(b)
      PROVE  ledger'.bal[EscrowAddress(b)][f] >= remote'[b][f] + Pending(b, f)'
  <2>1. ledger.bal[b][f] >= remote[b][f] + Pending(b, f)
    BY DEF ConservedInv, EscrowSolvent, EscrowAddress
  <2>2. remote[b][f] \in Nat /\ Pending(b, f) \in Nat /\ ledger.bal[b][f] \in Nat /\ b \in Account
    BY <1>2, TallyTypes DEF ConservedInv
  <2>3. Pending(b, f)' = Pending(b, f) + (IF b = c /\ f = d THEN x ELSE 0)
    BY <1>3
  <2>4. ledger'.bal[b][f] = ledger.bal[b][f] + (IF b = c /\ f = d THEN x ELSE 0)
    BY <1>1, <1>2, <1>5, <2>2
  <2> QED
    BY <1>2, <2>1, <2>2, <2>3, <2>4 DEF EscrowAddress
<1> QED
  BY <1>3, <1>4, <1>5, <1>6, <1>7 DEF ConservedInv, Conserved, EscrowSolvent

(* A transfer passed on sends the user's coin off.                          *)
LEMMA PassedOnConserves ==
  ASSUME BridgeInv, ConservedInv, NEW u \in User, NEW c \in Channel, NEW d \in Denom,
         NEW x \in Amount, TransferPassedOn(u, c, d, x)
  PROVE  ConservedInv'
<1>1. x \in Nat \ {0}
  BY TransferAssumption
<1>2. BooksBalance(ledger)
  BY DEF ConservedInv
<1> QED
  BY <1>1, <1>2, MidwayAtFirst, SentConserves DEF TransferPassedOn

(* A converted transfer: the minted coin becomes a voucher under way.      *)
LEMMA ConvertedConserves ==
  ASSUME RegistryInv, BridgeInv, ConservedInv, NEW u \in User, NEW c \in Channel,
         NEW n \in Native, NEW x \in Amount, TransferConverted(u, c, n, x)
  PROVE  ConservedInv'
<1> DEFINE M == VoucherReleased(ledger, u, c, n, x)
           v == infoByNative[n].ibc
<1>1. /\ Midway(M) /\ CanSpend(M, u, v, x) /\ v \in Denom
      /\ BooksBalance(ledger) => BooksBalance(M)
      /\ ledger' = SendTransfer(M, u, c, v, x) /\ EmitPacket(u, c, v, x)
      /\ UNCHANGED <<remote, donated>>
  BY ConvertedMidway
<1>2. x \in Nat \ {0} /\ BooksBalance(ledger)
  BY TransferAssumption DEF ConservedInv
<1> HIDE DEF M, v
<1> QED
  BY <1>1, <1>2, SentConserves

(* A bank send moves a coin, to an escrow account too.                     *)
LEMMA BankSendConserves ==
  ASSUME BridgeInv, ConservedInv, NEW u \in User, NEW to \in Account, NEW d \in Denom,
         NEW x \in Amount, BankSend(u, to, d, x)
  PROVE  ConservedInv'
<1>1. /\ CanSpend(ledger, u, d, x) /\ ledger' = SendCoins(ledger, u, to, d, x)
      /\ inflight' = inflight /\ nextSeq' = nextSeq /\ remote' = remote
  BY DEF BankSend
<1>2. BridgeTypeOK /\ ledger \in Ledger /\ x \in Nat /\ u \notin Channel /\ u \in Account
  BY TransferAssumption DEF BridgeInv, BridgeTypeOK
<1>3. BooksBalance(ledger')
  BY <1>1, <1>2, SendKeepsBooks DEF ConservedInv
<1>4. /\ ledger'.supply = ledger.supply
      /\ \A b \in Account, f \in Denom :
           ledger'.bal[b][f] = ledger.bal[b][f] - (IF b = u /\ f = d THEN x ELSE 0)
                                                + (IF b = to /\ f = d THEN x ELSE 0)
  BY <1>1, <1>2, SendCoinsEffect
<1>5. \A b, f : Pending(b, f)' = Pending(b, f)
  BY <1>1 DEF Pending, PendingPackets
<1>6. PacketsSound' /\ IsFiniteSet(inflight')
  BY <1>1 DEF ConservedInv, PacketsSound
<1>7. Conserved'
  BY <1>1, <1>4, <1>5 DEF ConservedInv, Conserved
<1>8. ASSUME NEW b \in Channel, NEW f \in Denom \ VouchersOf(b)
      PROVE  ledger'.bal[EscrowAddress(b)][f] >= remote'[b][f] + Pending(b, f)'
  <2>1. ledger.bal[b][f] >= remote[b][f] + Pending(b, f)
    BY DEF ConservedInv, EscrowSolvent, EscrowAddress
  <2>2. remote[b][f] \in Nat /\ Pending(b, f) \in Nat /\ ledger.bal[b][f] \in Nat /\ b \in Account
    BY <1>2, TallyTypes DEF ConservedInv
  <2>3. ledger'.bal[b][f] = ledger.bal[b][f] + (IF b = to /\ f = d THEN x ELSE 0)
    BY <1>2, <1>4, <2>2
  <2> QED
    BY <1>1, <1>2, <1>5, <2>1, <2>2, <2>3 DEF EscrowAddress
<1> QED
  BY <1>3, <1>6, <1>7, <1>8 DEF ConservedInv, EscrowSolvent

(* Pending keeps its type over a step that keeps the packets' type.        *)
LEMMA PendingNextType ==
  ASSUME inflight' \subseteq Packet, IsFiniteSet(inflight'), NEW c, NEW d
  PROVE  Pending(c, d)' \in Nat
<1>1. PendingIn(inflight', c, d) \subseteq inflight'
  BY DEF PendingIn
<1>2. IsFiniteSet(PendingIn(inflight', c, d))
  BY <1>1, FS_Subset
<1>3. Amounts(PendingIn(inflight', c, d)) \in Nat
  BY <1>1, <1>2, AmountsOfPackets
<1> QED
  BY <1>3, PendingIsAmountsNext

(* Payments among users make no difference to the escrow accounts.          *)
SameEscrows(M, L) ==
  /\ M.supply = L.supply
  /\ \A c \in Channel, d \in Denom : M.bal[c][d] = L.bal[c][d]

(* A receipt: what leaves the counterparty is here, as voucher or as       *)
(* minted native coin.                                                     *)
LEMMA RecvAssetSettles ==
  ASSUME RegistryInv, BridgeInv, ConservedInv, NEW c \in Channel, NEW a \in Asset,
         NEW x \in Amount, NEW to \in Account,
         remote[c][a] >= x, remote' = [remote EXCEPT ![c][a] = @ - x],
         BooksBalance(ledger'), SameEscrows(ledger', ReceivedLedger(c, a, x, to)),
         UNCHANGED <<inflight, nextSeq>>
  PROVE  ConservedInv'
<1> DEFINE v == Voucher(c, a)
           n == infoByAsset[a].native
           conv == IsReceivedConverted(c, a)
           home == IF conv THEN c ELSE to
<1>1. inflight' = inflight /\ nextSeq' = nextSeq
  OBVIOUS
<1>2. BridgeTypeOK /\ ledger \in Ledger /\ x \in Nat /\ Channel \subseteq Account
      /\ remote \in [Channel -> [Asset \cup Denom -> Nat]]
  BY TransferAssumption DEF BridgeInv, BridgeTypeOK
<1>3. /\ \A f \in Denom : ledger'.supply[f] = ledger.supply[f] + (IF f = v THEN x ELSE 0)
           + (IF conv /\ f = n THEN x ELSE 0)
      /\ \A b \in Channel, f \in Denom : ledger'.bal[b][f] = ledger.bal[b][f]
           + (IF b = home /\ f = v THEN x ELSE 0) + (IF conv /\ b = to /\ f = n THEN x ELSE 0)
  <2> DEFINE M == ReceivedLedger(c, a, x, to)
  <2>1. /\ \A f \in Denom : M.supply[f] = ledger.supply[f] + (IF f = v THEN x ELSE 0)
             + (IF conv /\ f = n THEN x ELSE 0)
        /\ \A b \in Account, f \in Denom : M.bal[b][f] = ledger.bal[b][f]
             + (IF b = home /\ f = v THEN x ELSE 0) + (IF conv /\ b = to /\ f = n THEN x ELSE 0)
    BY <1>2, ReceivedLedgerEffect
  <2>2. /\ ledger'.supply = M.supply
        /\ \A b \in Channel, f \in Denom : ledger'.bal[b][f] = M.bal[b][f]
    BY DEF SameEscrows
  <2> HIDE DEF M, v, n, conv, home
  <2> QED
    BY <1>2, <2>1, <2>2
<1>4. conv => n \notin Ibc
  BY ReceivedInfo, CatalogueCoins
<1> HIDE DEF v, n, conv, home
<1>5. \A b, f : Pending(b, f)' = Pending(b, f)
  BY <1>1 DEF Pending, PendingPackets
<1>6. PacketsSound' /\ IsFiniteSet(inflight')
  BY <1>1 DEF ConservedInv, PacketsSound
<1>7. \A b \in Channel, f \in Asset \cup Denom :
        remote'[b][f] = remote[b][f] - (IF b = c /\ f = a THEN x ELSE 0)
  BY <1>1, <1>2
<1>8. ASSUME NEW b \in Channel, NEW e \in Asset
      PROVE  remote'[b][e] + Pending(b, Voucher(b, e))' + ledger'.supply[Voucher(b, e)]
               = RemoteSupply[b][e]
  <2> DEFINE w == Voucher(b, e)
  <2>1. w = v <=> b = c /\ e = a
    BY VoucherOfChannel DEF v
  <2>2. remote[b][e] + Pending(b, w) + ledger.supply[w] = RemoteSupply[b][e]
    BY DEF ConservedInv, Conserved
  <2>3. remote[b][e] \in Nat /\ Pending(b, w) \in Nat /\ ledger.supply[w] \in Int /\ w \in Denom
        /\ w \in Ibc
    BY <1>2, TallyTypes DEF ConservedInv
  <2> HIDE DEF w
  <2>4. remote'[b][e] = remote[b][e] - (IF w = v THEN x ELSE 0)
    BY <1>7, <2>1
  <2>5. ledger'.supply[w] = ledger.supply[w] + (IF w = v THEN x ELSE 0)
    BY <1>2, <1>3, <1>4, <2>3
  <2>6. remote'[b][e] + Pending(b, w)' + ledger'.supply[w] = RemoteSupply[b][e]
    BY <1>2, <1>5, <2>2, <2>3, <2>4, <2>5
  <2> QED
    BY <2>6 DEF w
<1>9. ASSUME NEW b \in Channel, NEW f \in Denom \ VouchersOf(b)
      PROVE  ledger'.bal[EscrowAddress(b)][f] >= remote'[b][f] + Pending(b, f)'
  <2>1. ledger.bal[b][f] >= remote[b][f] + Pending(b, f)
    BY DEF ConservedInv, EscrowSolvent, EscrowAddress
  <2>2. remote[b][f] \in Nat /\ Pending(b, f) \in Nat /\ ledger.bal[b][f] \in Nat /\ b \in Account
    BY <1>2, TallyTypes DEF ConservedInv
  <2>3. ledger'.bal[b][f] >= ledger.bal[b][f]
    BY <1>2, <1>3, <2>2
  <2>4. remote'[b][f] <= remote[b][f] /\ remote'[b][f] \in Int
    BY <1>2, <1>7, <2>2
  <2>5. ledger'.bal[b][f] \in Int
    BY <1>2, <1>3, <2>2
  <2> QED
    BY <1>5, <2>1, <2>2, <2>3, <2>4, <2>5 DEF EscrowAddress
<1> QED
  BY <1>3, <1>6, <1>8, <1>9 DEF ConservedInv, Conserved, EscrowSolvent

(* A receipt without hooks.                                                 *)
LEMMA RecvAssetConserves ==
  ASSUME RegistryInv, BridgeInv, ConservedInv, NEW c \in Channel, NEW a \in Asset,
         NEW x \in Amount, NEW to \in Account, OnRecvAsset(c, a, x, to)
  PROVE  ConservedInv'
<1>1. /\ remote[c][a] >= x /\ remote' = [remote EXCEPT ![c][a] = @ - x]
      /\ ledger' = ReceivedLedger(c, a, x, to) /\ UNCHANGED <<inflight, nextSeq>>
  BY DEF OnRecvAsset
<1>2. ledger \in Ledger /\ x \in Nat /\ BooksBalance(ledger)
  BY TransferAssumption DEF BridgeInv, BridgeTypeOK, ConservedInv
<1>3. BooksBalance(ledger')
  BY <1>1, <1>2, ReceivedLedgerEffect
<1>4. SameEscrows(ledger', ReceivedLedger(c, a, x, to))
  BY <1>1 DEF SameEscrows
<1> QED
  BY <1>1, <1>3, <1>4, RecvAssetSettles

(* A coin of this chain that returns is paid out of the escrow account.    *)
LEMMA RecvReturnedSettles ==
  ASSUME BridgeInv, ConservedInv, NEW c \in Channel, NEW d \in Denom, NEW x \in Amount,
         NEW to \in Account, remote[c][d] >= x, remote' = [remote EXCEPT ![c][d] = @ - x],
         SenderChainIsSource(c, d), CanSpend(ledger, EscrowAddress(c), d, x),
         BooksBalance(ledger'),
         SameEscrows(ledger', SendCoins(ledger, EscrowAddress(c), to, d, x)),
         UNCHANGED <<inflight, nextSeq>>
  PROVE  ConservedInv'
<1> DEFINE M == SendCoins(ledger, c, to, d, x)
<1>1. /\ remote[c][d] >= x /\ d \notin VouchersOf(c) /\ CanSpend(ledger, c, d, x)
      /\ ledger'.supply = M.supply
      /\ \A b \in Channel, f \in Denom : ledger'.bal[b][f] = M.bal[b][f]
      /\ inflight' = inflight /\ nextSeq' = nextSeq
  BY DEF SameEscrows, SenderChainIsSource, EscrowAddress
<1>2. BridgeTypeOK /\ ledger \in Ledger /\ x \in Nat /\ c \in Account /\ d \notin Asset
      /\ remote \in [Channel -> [Asset \cup Denom -> Nat]] /\ Channel \subseteq Account
  BY TransferAssumption DEF BridgeInv, BridgeTypeOK
<1>3. BooksBalance(ledger')
  OBVIOUS
<1>4. /\ ledger'.supply = ledger.supply
      /\ \A b \in Channel, f \in Denom :
           ledger'.bal[b][f] = ledger.bal[b][f] - (IF b = c /\ f = d THEN x ELSE 0)
                                                + (IF b = to /\ f = d THEN x ELSE 0)
  <2>1. /\ M.supply = ledger.supply
        /\ \A b \in Account, f \in Denom :
             M.bal[b][f] = ledger.bal[b][f] - (IF b = c /\ f = d THEN x ELSE 0)
                                            + (IF b = to /\ f = d THEN x ELSE 0)
    BY <1>1, <1>2, SendCoinsEffect
  <2> HIDE DEF M
  <2> QED
    BY <1>1, <1>2, <2>1
<1> HIDE DEF M
<1>5. \A b, f : Pending(b, f)' = Pending(b, f)
  BY <1>1 DEF Pending, PendingPackets
<1>6. PacketsSound' /\ IsFiniteSet(inflight')
  BY <1>1 DEF ConservedInv, PacketsSound
<1>7. \A b \in Channel, f \in Asset \cup Denom :
        remote'[b][f] = remote[b][f] - (IF b = c /\ f = d THEN x ELSE 0)
  BY <1>1, <1>2
<1>8. Conserved'
  <2>1. \A b \in Channel, e \in Asset : remote'[b][e] = remote[b][e]
    BY <1>2, <1>7
  <2> QED
    BY <1>4, <1>5, <2>1 DEF ConservedInv, Conserved
<1>9. ASSUME NEW b \in Channel, NEW f \in Denom \ VouchersOf(b)
      PROVE  ledger'.bal[EscrowAddress(b)][f] >= remote'[b][f] + Pending(b, f)'
  <2>1. ledger.bal[b][f] >= remote[b][f] + Pending(b, f)
    BY DEF ConservedInv, EscrowSolvent, EscrowAddress
  <2>2. remote[b][f] \in Nat /\ Pending(b, f) \in Nat /\ ledger.bal[b][f] \in Nat /\ b \in Account
    BY <1>2, TallyTypes DEF ConservedInv
  <2>3. ledger'.bal[b][f] >= ledger.bal[b][f] - (IF b = c /\ f = d THEN x ELSE 0)
        /\ ledger'.bal[b][f] \in Int
    BY <1>2, <1>4, <2>2
  <2>4. remote'[b][f] = remote[b][f] - (IF b = c /\ f = d THEN x ELSE 0)
    BY <1>7
  <2> QED
    BY <1>2, <1>5, <2>1, <2>2, <2>3, <2>4 DEF EscrowAddress
<1> QED
  BY <1>3, <1>6, <1>8, <1>9 DEF ConservedInv, EscrowSolvent

(* And one without hooks.                                                   *)
LEMMA RecvReturnedConserves ==
  ASSUME BridgeInv, ConservedInv, NEW c \in Channel, NEW d \in Denom, NEW x \in Amount,
         NEW to \in Account, OnRecvReturned(c, d, x, to)
  PROVE  ConservedInv'
<1>1. /\ remote[c][d] >= x /\ remote' = [remote EXCEPT ![c][d] = @ - x]
      /\ SenderChainIsSource(c, d) /\ CanSpend(ledger, EscrowAddress(c), d, x)
      /\ ledger' = SendCoins(ledger, EscrowAddress(c), to, d, x)
      /\ UNCHANGED <<inflight, nextSeq>>
  BY DEF OnRecvReturned
<1>2. ledger \in Ledger /\ x \in Nat /\ EscrowAddress(c) \in Account /\ BooksBalance(ledger)
  BY TransferAssumption DEF BridgeInv, BridgeTypeOK, ConservedInv, EscrowAddress
<1>3. BooksBalance(ledger')
  BY <1>1, <1>2, SendKeepsBooks
<1>4. SameEscrows(ledger', SendCoins(ledger, EscrowAddress(c), to, d, x))
  BY <1>1 DEF SameEscrows
<1> QED
  BY <1>1, <1>3, <1>4, RecvReturnedSettles

(* A refund: what was under way is with its sender again, and only there.  *)
LEMMA RefundSettles ==
  ASSUME RegistryInv, BridgeInv, ConservedInv, NEW p \in inflight, p.status # "ok", CanRefund(p),
         BooksBalance(ledger'), SameEscrows(ledger', Refunded(p)),
         inflight' = inflight \ {p}, UNCHANGED <<nextSeq, remote>>
  PROVE  ConservedInv'
<1> DEFINE c == p.channel
           d == p.denom
           x == p.amount
           u == p.sender
           conv == IsRefundConverted(p)
           n == RefundInfo(p).native
<1>1. SenderChainIsSource(p.channel, p.denom) =>
        CanSpend(ledger, EscrowAddress(p.channel), p.denom, p.amount)
  BY DEF CanRefund
<1>2. BridgeTypeOK /\ ledger \in Ledger /\ p \in Packet /\ x \in Nat /\ c \in Channel
      /\ d \in Denom /\ u \in User /\ u \notin Channel
  BY TransferAssumption DEF BridgeInv, BridgeTypeOK, Packet
<1>3. /\ \A f \in Denom : ledger'.supply[f] = ledger.supply[f]
           + (IF f = d /\ d \in VouchersOf(c) THEN x ELSE 0) + (IF conv /\ f = n THEN x ELSE 0)
      /\ \A b \in Channel, f \in Denom : ledger'.bal[b][f] = ledger.bal[b][f]
           - (IF b = c /\ f = d /\ d \notin VouchersOf(c) THEN x ELSE 0)
           + (IF conv /\ b = c /\ f = d THEN x ELSE 0)
  <2> DEFINE M == Refunded(p)
  <2>1. /\ \A f \in Denom : M.supply[f] = ledger.supply[f]
             + (IF f = d /\ d \in VouchersOf(c) THEN x ELSE 0) + (IF conv /\ f = n THEN x ELSE 0)
        /\ \A b \in Account, f \in Denom : M.bal[b][f] = ledger.bal[b][f]
             - (IF b = c /\ f = d /\ d \notin VouchersOf(c) THEN x ELSE 0)
             + (IF conv THEN (IF b = c /\ f = d THEN x ELSE 0) + (IF b = u /\ f = n THEN x ELSE 0)
                        ELSE (IF b = u /\ f = d THEN x ELSE 0))
    BY <1>1, <1>2, RefundLedger DEF Refunded
  <2>2. /\ ledger'.supply = M.supply
        /\ \A b \in Channel, f \in Denom : ledger'.bal[b][f] = M.bal[b][f]
    BY DEF SameEscrows
  <2>3. \A b \in Channel, f \in Denom : ledger.bal[b][f] \in Nat /\ b \in Account /\ b # u
    BY <1>2, TransferAssumption DEF Ledger
  <2> HIDE DEF M, c, d, x, u, conv, n
  <2> QED
    BY <1>2, <2>1, <2>2, <2>3
<1>4. conv => n \notin Ibc /\ d \in VouchersOf(c)
  BY <1>2, RefundInfoOfVoucher, CatalogueCoins DEF IsRefundConverted, SenderChainIsSource
<1>5. /\ IsFiniteSet(inflight')
      /\ \A b \in Channel, f \in Denom : Pending(b, f) = Pending(b, f)' + Counted(p, b, f)
  BY <1>1, <1>2, RemovePending DEF ConservedInv
<1>6. PacketsSound'
  BY <1>1, RemoveKeepsPackets DEF ConservedInv
<1>7. \A b, f : Counted(p, b, f) = IF b = c /\ f = d THEN x ELSE 0
  BY DEF Counted
<1>8. \A b \in Channel, f \in Denom : Pending(b, f)' \in Nat
  <2>1. inflight' \subseteq Packet
    BY <1>1, <1>2 DEF BridgeTypeOK
  <2> QED
    BY <1>5, <2>1, PendingNextType
<1> HIDE DEF c, d, x, u, conv, n
<1>9. ASSUME NEW b \in Channel, NEW e \in Asset
      PROVE  remote'[b][e] + Pending(b, Voucher(b, e))' + ledger'.supply[Voucher(b, e)]
               = RemoteSupply[b][e]
  <2> DEFINE w == Voucher(b, e)
  <2>1. w = d /\ d \in VouchersOf(c) <=> b = c /\ w = d
    BY <1>2, VoucherOfChannel
  <2>2. remote[b][e] + Pending(b, w) + ledger.supply[w] = RemoteSupply[b][e]
    BY DEF ConservedInv, Conserved
  <2>3. remote[b][e] \in Nat /\ Pending(b, w) \in Nat /\ ledger.supply[w] \in Int /\ w \in Denom
        /\ w \in Ibc
    BY <1>2, TallyTypes DEF ConservedInv
  <2> HIDE DEF w
  <2>4. Pending(b, w) = Pending(b, w)' + (IF b = c /\ w = d THEN x ELSE 0)
        /\ Pending(b, w)' \in Nat
    BY <1>5, <1>7, <1>8, <2>3
  <2>5. ledger'.supply[w] = ledger.supply[w] + (IF b = c /\ w = d THEN x ELSE 0)
    BY <1>2, <1>3, <1>4, <2>1, <2>3
  <2>6. remote'[b][e] + Pending(b, w)' + ledger'.supply[w] = RemoteSupply[b][e]
    BY <1>1, <1>2, <2>2, <2>3, <2>4, <2>5
  <2> QED
    BY <2>6 DEF w
<1>10. ASSUME NEW b \in Channel, NEW f \in Denom \ VouchersOf(b)
      PROVE  ledger'.bal[EscrowAddress(b)][f] >= remote'[b][f] + Pending(b, f)'
  <2>1. ledger.bal[b][f] >= remote[b][f] + Pending(b, f)
    BY DEF ConservedInv, EscrowSolvent, EscrowAddress
  <2>2. remote[b][f] \in Nat /\ Pending(b, f) \in Nat /\ ledger.bal[b][f] \in Nat /\ b \in Account
        /\ Pending(b, f)' \in Nat
    BY <1>2, <1>8, TallyTypes DEF ConservedInv
  <2>3. ledger'.bal[b][f] >= ledger.bal[b][f] - (IF b = c /\ f = d THEN x ELSE 0)
        /\ ledger'.bal[b][f] \in Int
    BY <1>2, <1>3, <2>2
  <2>4. Pending(b, f) = Pending(b, f)' + (IF b = c /\ f = d THEN x ELSE 0)
    BY <1>5, <1>7
  <2> QED
    BY <1>1, <1>2, <2>1, <2>2, <2>3, <2>4 DEF EscrowAddress
<1> QED
  BY <1>3, <1>5, <1>6, <1>9, <1>10 DEF ConservedInv, Conserved, EscrowSolvent

(* A refund without fees.                                                   *)
LEMMA RefundConserves ==
  ASSUME RegistryInv, BridgeInv, ConservedInv, NEW p \in inflight, p.status # "ok", Refund(p)
  PROVE  ConservedInv'
<1>1. /\ CanRefund(p) /\ ledger' = Refunded(p) /\ inflight' = inflight \ {p}
      /\ UNCHANGED <<nextSeq, remote>>
  BY DEF Refund, Refunded
<1>2. SameEscrows(ledger', Refunded(p))
  BY <1>1 DEF SameEscrows
<1>3. BooksBalance(ledger')
  <2>1. p \in Packet /\ ledger \in Ledger /\ BooksBalance(ledger)
    BY DEF BridgeInv, BridgeTypeOK, ConservedInv
  <2> QED
    BY <1>1, <2>1, RefundLedger DEF CanRefund, Refunded
<1> QED
  BY <1>1, <1>2, <1>3, RefundSettles

(* A packet that arrived no longer counts.                                  *)
LEMMA AcknowledgedConserves ==
  ASSUME BridgeInv, ConservedInv, NEW p \in inflight, p.status = "ok",
         inflight' = inflight \ {p}, UNCHANGED <<ledger, nextSeq, remote>>
  PROVE  ConservedInv'
<1>1. BridgeTypeOK /\ inflight \subseteq Packet /\ inflight' \subseteq Packet
  BY DEF BridgeInv, BridgeTypeOK
<1>2. /\ IsFiniteSet(inflight')
      /\ \A b \in Channel, f \in Denom : Pending(b, f) = Pending(b, f)' + Counted(p, b, f)
  BY <1>1, RemovePending DEF ConservedInv
<1>3. \A b, f : Counted(p, b, f) = 0
  BY DEF Counted
<1>4. \A b \in Channel, f \in Denom : Pending(b, f)' = Pending(b, f)
  <2> TAKE b \in Channel, f \in Denom
  <2>1. Pending(b, f)' \in Nat
    BY <1>1, <1>2, PendingNextType
  <2> QED
    BY <1>2, <1>3, <2>1
<1>5. PacketsSound'
  BY RemoveKeepsPackets DEF ConservedInv
<1>6. Conserved'
  <2>1. \A b \in Channel, a \in Asset : Voucher(b, a) \in Denom
    BY TransferAssumption DEF Voucher
  <2> QED
    BY <1>4, <2>1 DEF ConservedInv, Conserved
<1>7. EscrowSolvent'
  BY <1>4 DEF ConservedInv, EscrowSolvent
<1>8. BooksBalance(ledger')
  BY DEF ConservedInv
<1> QED
  BY <1>2, <1>5, <1>6, <1>7, <1>8 DEF ConservedInv

(* What arrives abroad was on its way.                                      *)
LEMMA DeliverConserves ==
  ASSUME BridgeInv, ConservedInv, NEW p \in inflight, Deliver(p)
  PROVE  ConservedInv'
<1> DEFINE c == p.channel
           d == p.denom
           x == p.amount
           r == RemoteName(p.channel, p.denom)
           y == IF remote' = remote THEN 0 ELSE x
<1>1. /\ ledger' = ledger /\ p.status = "sent"
      /\ remote' = remote \/ remote' = [remote EXCEPT ![c][r] = @ + x]
  BY DEF Deliver
<1>2. /\ BridgeTypeOK /\ p \in Packet /\ c \in Channel /\ d \in Denom /\ x \in Nat
      /\ remote \in [Channel -> [Asset \cup Denom -> Nat]] /\ y \in Nat
      /\ inflight' \subseteq Packet
  BY DeliverStep, TransferAssumption DEF BridgeInv, BridgeTypeOK, Packet
<1>3. /\ r \in Asset \cup Denom
      /\ \A b \in Channel, e \in Asset : Voucher(b, e) = d /\ b = c <=> b = c /\ e = r
      /\ \A f \in Denom \ VouchersOf(c) : f = d <=> f = r
  <2>1. CASE d \in VouchersOf(c)
    <3>1. PICK a \in Asset : d = Voucher(c, a)
      BY <1>2, <2>1, VoucherOfChannel
    <3>2. r = a
      BY <2>1, <3>1 DEF RemoteName, SenderChainIsSource, Voucher
    <3> HIDE DEF c, d, r
    <3> QED
      BY <1>2, <2>1, <3>1, <3>2, VoucherOfChannel, TransferAssumption
  <2>2. CASE d \notin VouchersOf(c)
    <3>1. r = d
      BY <2>2 DEF RemoteName, SenderChainIsSource
    <3> HIDE DEF c, d, r
    <3> QED
      BY <1>2, <2>2, <3>1, VoucherOfChannel, TransferAssumption
  <2> QED
    BY <2>1, <2>2
<1>4. /\ IsFiniteSet(inflight')
      /\ \A b \in Channel, f \in Denom :
           Pending(b, f) = Pending(b, f)' + (IF remote' # remote THEN Counted(p, b, f) ELSE 0)
  BY DeliverPending DEF ConservedInv
<1>5. \A b, f : Counted(p, b, f) = IF b = c /\ f = d THEN x ELSE 0
  BY <1>1 DEF Counted
<1>6. PacketsSound'
  BY DeliverKeepsPackets DEF ConservedInv
<1>7. \A b \in Channel, f \in Asset \cup Denom :
        remote'[b][f] = remote[b][f] + (IF b = c /\ f = r THEN y ELSE 0)
  <2> HIDE DEF c, r, x
  <2>1. CASE remote' = remote
    BY <1>2, <2>1
  <2>2. CASE remote' # remote
    BY <1>1, <1>2, <1>3, <2>2
  <2> QED
    BY <2>1, <2>2
<1>8. ASSUME NEW b \in Channel, NEW f \in Denom
      PROVE  /\ Pending(b, f) = Pending(b, f)' + (IF b = c /\ f = d THEN y ELSE 0)
             /\ Pending(b, f)' \in Nat
  <2>1. Pending(b, f)' \in Nat
    BY <1>2, <1>4, PendingNextType
  <2> QED
    BY <1>4, <1>5, <2>1
<1> HIDE DEF c, d, x, r, y
<1>9. ASSUME NEW b \in Channel, NEW e \in Asset
      PROVE  remote'[b][e] + Pending(b, Voucher(b, e))' + ledger'.supply[Voucher(b, e)]
               = RemoteSupply[b][e]
  <2> DEFINE w == Voucher(b, e)
  <2>1. w = d /\ b = c <=> b = c /\ e = r
    BY <1>3
  <2>2. remote[b][e] + Pending(b, w) + ledger.supply[w] = RemoteSupply[b][e]
    BY DEF ConservedInv, Conserved
  <2>3. remote[b][e] \in Nat /\ Pending(b, w) \in Nat /\ ledger.supply[w] \in Int /\ w \in Denom
    BY <1>2, TallyTypes DEF ConservedInv
  <2> HIDE DEF w
  <2>4. remote'[b][e] = remote[b][e] + (IF b = c /\ w = d THEN y ELSE 0)
    BY <1>7, <2>1
  <2>5. Pending(b, w) = Pending(b, w)' + (IF b = c /\ w = d THEN y ELSE 0) /\ Pending(b, w)' \in Nat
    BY <1>8, <2>3
  <2>6. remote'[b][e] + Pending(b, w)' + ledger'.supply[w] = RemoteSupply[b][e]
    BY <1>1, <1>2, <2>2, <2>3, <2>4, <2>5
  <2> QED
    BY <2>6 DEF w
<1>10. ASSUME NEW b \in Channel, NEW f \in Denom \ VouchersOf(b)
       PROVE  ledger'.bal[EscrowAddress(b)][f] >= remote'[b][f] + Pending(b, f)'
  <2>1. ledger.bal[b][f] >= remote[b][f] + Pending(b, f)
    BY DEF ConservedInv, EscrowSolvent, EscrowAddress
  <2>2. remote[b][f] \in Nat /\ Pending(b, f) \in Nat /\ ledger.bal[b][f] \in Nat /\ b \in Account
    BY <1>2, TallyTypes DEF ConservedInv
  <2>3. remote'[b][f] = remote[b][f] + (IF b = c /\ f = d THEN y ELSE 0)
    BY <1>3, <1>7
  <2>4. Pending(b, f) = Pending(b, f)' + (IF b = c /\ f = d THEN y ELSE 0) /\ Pending(b, f)' \in Nat
    BY <1>8
  <2> QED
    BY <1>1, <1>2, <2>1, <2>2, <2>3, <2>4 DEF EscrowAddress
<1>11. BooksBalance(ledger')
  BY <1>1 DEF ConservedInv
<1> QED
  BY <1>4, <1>6, <1>9, <1>10, <1>11 DEF ConservedInv, Conserved, EscrowSolvent

(* At genesis the balances add up to the supplies.                          *)
LEMMA BooksBalanceInit == Init => BooksBalance(ledger)
<1> SUFFICES ASSUME Init, NEW d \in Denom PROVE Circulating(ledger, d) = ledger.supply[d]
  BY DEF BooksBalance
<1> DEFINE f == Purses(ledger, d)
<1>1. \A a \in Account :
        f[a] = IF a \in User /\ d \in Native THEN GenesisBalance[a][d] ELSE 0
  BY DEF Init, Purses
<1>2. ledger.supply[d] = IF d \in Native THEN GenesisSupply[d] ELSE 0
  BY DEF Init
<1>3. Circulating(ledger, d) = SumFunctionOnSet(f, Account)
  BY DEF Circulating
<1> HIDE DEF f
<1>4. CASE d \notin Native
  <2>1. \A a \in Account : f[a] = 0
    BY <1>1, <1>4
  <2> QED
    BY <1>2, <1>3, <1>4, <2>1, FiniteAccounts, SumZero
<1>5. CASE d \in Native
  <2> DEFINE g == [u \in User |-> GenesisBalance[u][d]]
  <2>1. \A u \in User : f[u] = g[u] /\ f[u] \in Int
    BY <1>1, <1>5, TransferAssumption
  <2>2. GenesisSupply[d] = SumFunctionOnSet(g, User)
    BY <1>5, TransferAssumption
  <2>3. \A a \in Channel : f[a] = 0
    BY <1>1, TransferAssumption
  <2> HIDE DEF g
  <2>4. SumFunctionOnSet(f, User) = SumFunctionOnSet(g, User)
    BY <2>1, TransferAssumption, SumCongruence
  <2>5. SumFunctionOnSet(f, User \cup Channel) = SumFunctionOnSet(f, User)
    BY <2>1, <2>3, TransferAssumption, SumZeroPart
  <2> QED
    BY <1>2, <1>3, <1>5, <2>2, <2>4, <2>5, TransferAssumption
<1> QED
  BY <1>4, <1>5

(* At genesis everything is abroad and the users hold the native supply.   *)
LEMMA ConservedInitInv == Init => ConservedInv
<1> SUFFICES ASSUME Init PROVE ConservedInv
  OBVIOUS
<1>1. inflight = {} /\ IsFiniteSet(inflight)
  BY FS_EmptySet DEF Init
<1>2. PacketsSound
  BY DEF Init, PacketsSound
<1>3. \A c, d : Pending(c, d) = 0
  <2> TAKE c, d
  <2>1. PendingPackets(c, d) = {}
    BY <1>1 DEF PendingPackets
  <2> QED
    BY <2>1, SumEmpty DEF Pending
<1>4. ASSUME NEW c \in Channel, NEW a \in Asset
      PROVE  remote[c][a] + Pending(c, Voucher(c, a)) + ledger.supply[Voucher(c, a)] = RemoteSupply[c][a]
  <2>1. Voucher(c, a) \in Denom /\ Voucher(c, a) \notin Native /\ RemoteSupply[c][a] \in Nat
    BY TransferAssumption DEF Voucher
  <2>2. ledger.supply[Voucher(c, a)] = 0 /\ remote[c][a] = RemoteSupply[c][a]
    BY <2>1 DEF Init
  <2> QED
    BY <1>3, <2>1, <2>2
<1>5. EscrowSolvent
  <2> SUFFICES ASSUME NEW c \in Channel, NEW d \in Denom \ VouchersOf(c)
               PROVE  ledger.bal[EscrowAddress(c)][d] >= remote[c][d] + Pending(c, d)
    BY DEF EscrowSolvent
  <2>1. c \in Account /\ c \notin User /\ d \notin Asset
    BY TransferAssumption
  <2>2. ledger.bal[c][d] = 0 /\ remote[c][d] = 0
    BY <2>1 DEF Init
  <2> QED
    BY <1>3, <2>2 DEF EscrowAddress
<1> QED
  BY <1>1, <1>2, <1>4, <1>5, BooksBalanceInit DEF ConservedInv, Conserved

(* Every step keeps it, those of the registry by leaving the bank alone.   *)
LEMMA ConservedStepInv ==
  RegistryInv /\ BridgeInv /\ ConservedInv /\ [Next]_vars => ConservedInv'
<1> SUFFICES ASSUME RegistryInv, BridgeInv, ConservedInv, [Next]_vars PROVE ConservedInv'
  OBVIOUS
<1>1. CASE UNCHANGED bridgeVars
  BY <1>1 DEF bridgeVars, ConservedInv, PacketsSound, Conserved, EscrowSolvent, Pending,
              PendingPackets
<1>2. CASE BridgeStep
  <2>1. CASE UserTx
    BY <2>1, PassedOnConserves, ConvertedConserves, BankSendConserves DEF UserTx
  <2>2. CASE ReceiveTx
    BY <2>2, RecvAssetConserves, RecvReturnedConserves DEF ReceiveTx
  <2>3. CASE PacketStep
    <3>1. PICK p \in inflight :
            OnTimeoutPacket(p) \/ OnAcknowledgementPacket(p) \/ Deliver(p)
      BY <2>3 DEF PacketStep
    <3>2. CASE p.status # "ok" /\ Refund(p)
      BY <3>2, RefundConserves
    <3>3. CASE /\ p.status = "ok" /\ inflight' = inflight \ {p}
               /\ UNCHANGED <<ledger, nextSeq, remote, donated>>
      BY <3>3, AcknowledgedConserves
    <3>4. CASE Deliver(p)
      BY <3>4, DeliverConserves
    <3> QED
      BY <3>1, <3>2, <3>3, <3>4 DEF OnTimeoutPacket, OnAcknowledgementPacket
  <2> QED
    BY <1>2, <2>1, <2>2, <2>3 DEF BridgeStep
<1> QED
  BY <1>1, <1>2 DEF Next, RegistryStep, vars, bridgeVars

(* After any interleaving of transfers, receipts, refunds, bank sends and  *)
(* governance, the balances of each coin add up to its supply, each        *)
(* voucher is abroad, under way or here, and each escrow account covers    *)
(* what is abroad (SendPacket, OnRecvPacket, refundToken).                 *)
THEOREM BridgeConserved == Spec => []ConservedInv
<1>1. Init => ConservedInv
  BY ConservedInitInv
<1>2. RegistryInv /\ BridgeInv /\ ConservedInv /\ [Next]_vars => ConservedInv'
  BY ConservedStepInv
<1> QED
  BY <1>1, <1>2, BridgeInvariant, PTL DEF Spec

(* SharedSupply is Conserved, read with the locked vouchers as native coins. *)
LEMMA SharedSupplyFollows == BridgeInv /\ ConservedInv => SharedSupply
<1> SUFFICES ASSUME BridgeInv, ConservedInv, NEW e \in Catalogue
             PROVE  LET c == e.channel
                        held == SumFunctionOnSet([a \in Account |-> ledger.bal[a][e.ibc]],
                                                 Account \ {EscrowAddress(c)})
                        minted == ledger.supply[e.native] - GenesisSupply[e.native]
                    IN  remote[c][e.asset] + Pending(c, e.ibc) + held + minted + donated[e.ibc]
                          = RemoteSupply[c][e.asset]
  BY DEF SharedSupply
<1> DEFINE c == e.channel
           f == [a \in Account |-> ledger.bal[a][e.ibc]]
           held == SumFunctionOnSet(f, Account \ {EscrowAddress(c)})
<1>1. /\ c \in Channel /\ c \in Account /\ e.asset \in Asset /\ e.ibc = Voucher(c, e.asset)
      /\ e.ibc \in Denom /\ e.ibc \in Ibc /\ e.native \in Denom
      /\ GenesisSupply[e.native] \in Nat
  BY CatalogueCoins DEF Voucher
<1>2. /\ remote[c][e.asset] \in Nat /\ Pending(c, e.ibc) \in Nat /\ ledger.supply[e.ibc] \in Int
      /\ ledger.supply[e.native] \in Int /\ donated[e.ibc] \in Nat
      /\ RemoteSupply[c][e.asset] \in Nat
  BY <1>1, TallyTypes DEF BridgeInv, BridgeTypeOK, ConservedInv
<1>3. \A a \in Account : f[a] \in Int
  BY <1>1, TallyTypes DEF BridgeInv, ConservedInv
<1>4. SumFunctionOnSet(f, Account) = ledger.supply[e.ibc]
  BY <1>1 DEF ConservedInv, BooksBalance, Circulating, Purses
<1>5. f[c] = ledger.supply[e.native] - GenesisSupply[e.native] + donated[e.ibc]
  BY <1>1 DEF BridgeInv, BackedBy
<1>6. remote[c][e.asset] + Pending(c, e.ibc) + ledger.supply[e.ibc] = RemoteSupply[c][e.asset]
  BY <1>1 DEF ConservedInv, Conserved
<1> HIDE DEF f, c
<1>7. SumFunctionOnSet(f, Account) = f[c] + held /\ held \in Int
  <2>1. held = SumFunctionOnSet(f, Account \ {c})
    BY DEF EscrowAddress
  <2>2. SumFunctionOnSet(f, Account) = f[c] + SumFunctionOnSet(f, Account \ {c})
    BY <1>1, <1>3, FiniteAccounts, SumElement
  <2>3. SumFunctionOnSet(f, Account \ {c}) \in Int
    BY <1>1, <1>3, FiniteAccounts, SumElement
  <2> QED
    BY <2>1, <2>2, <2>3
<1> HIDE DEF held
<1>8. remote[c][e.asset] + Pending(c, e.ibc) + held
          + (ledger.supply[e.native] - GenesisSupply[e.native]) + donated[e.ibc]
        = RemoteSupply[c][e.asset]
  BY <1>1, <1>2, <1>4, <1>5, <1>6, <1>7
<1> QED
  BY <1>8, Zenon DEF f, c, held

(* The supply shared with the counterparty stays what it was, whatever the *)
(* conversions do to the form of a coin (SharedSupply; ics4wrapper.go,     *)
(* relay.go).                                                              *)
THEOREM SharedSupplyHolds == Spec => []SharedSupply
BY BridgeInvariant, BridgeConserved, SharedSupplyFollows, PTL

(* An escrow account always covers the coins of this chain that are abroad *)
(* or on their way there: burning native coins out of it and releasing     *)
(* vouchers from it never touches them (EscrowSolvent).                    *)
THEOREM EscrowsSolvent == Spec => []EscrowSolvent
<1>1. ConservedInv => EscrowSolvent
  BY DEF ConservedInv
<1> QED
  BY <1>1, BridgeConserved, PTL

(* An account holds at most the supply of a native coin, and the escrow    *)
(* account the minted part of that supply as voucher.                      *)
LEMMA NativeRedeemableFollows == BridgeInv /\ ConservedInv => NativeRedeemable
<1> SUFFICES ASSUME BridgeInv, ConservedInv, NEW e \in Catalogue,
                    donated[e.ibc] >= GenesisSupply[e.native], NEW u \in User
             PROVE  CanSpend(ledger, EscrowAddress(e.channel), e.ibc, ledger.bal[u][e.native])
  BY DEF NativeRedeemable
<1> DEFINE f == Purses(ledger, e.native)
<1>1. /\ e.channel \in Account /\ u \in Account /\ e.native \in Denom /\ e.ibc \in Denom
      /\ e.ibc \in Ibc /\ GenesisSupply[e.native] \in Nat /\ donated[e.ibc] \in Nat
      /\ ledger.supply[e.native] \in Int
  BY CatalogueCoins, TransferAssumption, TallyTypes DEF BridgeInv, ConservedInv, BridgeTypeOK
<1>2. /\ \A a \in Account : f[a] \in Nat
      /\ f[u] = ledger.bal[u][e.native]
      /\ ledger.bal[e.channel][e.ibc] \in Nat
  BY <1>1, TallyTypes DEF BridgeInv, ConservedInv, Purses
<1>3. SumFunctionOnSet(f, Account) = ledger.supply[e.native]
  BY <1>1 DEF ConservedInv, BooksBalance, Circulating
<1>4. ledger.bal[e.channel][e.ibc]
        = ledger.supply[e.native] - GenesisSupply[e.native] + donated[e.ibc]
  BY DEF BridgeInv, BackedBy
<1> HIDE DEF f
<1>5. f[u] <= SumFunctionOnSet(f, Account)
  BY <1>1, <1>2, FiniteAccounts, SumNat
<1> QED
  BY <1>1, <1>2, <1>3, <1>4, <1>5 DEF CanSpend, EscrowAddress

(* Whoever holds a minted native coin can send it home: the escrow account *)
(* always has the voucher that SendPacket releases (NativeRedeemable).     *)
THEOREM NativeCoinsRedeemable == Spec => []NativeRedeemable
BY BridgeInvariant, BridgeConserved, NativeRedeemableFollows, PTL

-----------------------------------------------------------------------------
(* The actions of SharedLedger, with the mapping in place of its           *)
(* variables, as facts about the bridge's state.                           *)
LEMMA PayIsRead ==
  ASSUME SharedAbroad' = SharedAbroad, ParcelsUnderWay' = ParcelsUnderWay,
         NEW k \in Catalogue, NEW a \in Account, NEW b \in Account, NEW x \in Amount,
         SharedPurse[k][a] >= x,
         SharedPurse' = [SharedPurse EXCEPT ![k] = Shared!Passed(SharedPurse[k], a, b, x)]
  PROVE  Shared!SharedNext
<1>1. Shared!Pay
  BY DEF Shared!Pay
<1> QED
  BY <1>1 DEF Shared!SharedNext

(* A receipt.                                                               *)
LEMMA ReceiveIsRead ==
  ASSUME ParcelsUnderWay' = ParcelsUnderWay,
         NEW k \in Catalogue, NEW b \in Account, NEW x \in Amount, SharedAbroad[k] >= x,
         SharedAbroad' = [SharedAbroad EXCEPT ![k] = @ - x],
         SharedPurse' = [SharedPurse EXCEPT ![k][b] = @ + x]
  PROVE  Shared!SharedNext
<1>1. \E h \in Account : Shared!Credit(k, h, x)
  BY DEF Shared!Credit
<1>2. Shared!Receive
  BY <1>1 DEF Shared!Receive
<1> QED
  BY <1>2 DEF Shared!SharedNext

(* A parcel sent.                                                           *)
LEMMA SendIsRead ==
  ASSUME SharedAbroad' = SharedAbroad, NEW q, q \notin ParcelsUnderWay,
         ParcelsUnderWay' = ParcelsUnderWay \cup {q},
         \A r \in ParcelsUnderWay : r.coin = q.coin => r.number # q.number,
         SharedPurse[q.coin][q.sender] >= q.amount,
         SharedPurse' = [SharedPurse EXCEPT ![q.coin][q.sender] = @ - q.amount]
  PROVE  Shared!SharedNext
<1>1. q \in ParcelsUnderWay' \ ParcelsUnderWay
  OBVIOUS
<1>2. Shared!Send
  BY <1>1 DEF Shared!Send, Shared!Debit
<1> QED
  BY <1>2 DEF Shared!SharedNext

(* A parcel that arrives.                                                   *)
LEMMA ArriveIsRead ==
  ASSUME NEW q \in ParcelsUnderWay, ParcelsUnderWay' = ParcelsUnderWay \ {q},
         SharedAbroad' = [SharedAbroad EXCEPT ![q.coin] = @ + q.amount],
         SharedPurse' = SharedPurse
  PROVE  Shared!SharedNext
<1>1. q \in ParcelsUnderWay \ ParcelsUnderWay'
  OBVIOUS
<1>2. Shared!Settle
  BY <1>1 DEF Shared!Settle, Shared!Arrive
<1> QED
  BY <1>2 DEF Shared!SharedNext

(* A parcel that returns.                                                   *)
LEMMA ReturnIsRead ==
  ASSUME NEW q \in ParcelsUnderWay, ParcelsUnderWay' = ParcelsUnderWay \ {q},
         SharedAbroad' = SharedAbroad,
         SharedPurse' = [SharedPurse EXCEPT ![q.coin][q.sender] = @ + q.amount]
  PROVE  Shared!SharedNext
<1>1. q \in ParcelsUnderWay \ ParcelsUnderWay'
  OBVIOUS
<1>2. Shared!Settle
  BY <1>1 DEF Shared!Settle, Shared!Return, Shared!Credit
<1> QED
  BY <1>2 DEF Shared!SharedNext

(* No step at all.                                                          *)
LEMMA StutterIsRead ==
  ASSUME SharedAbroad' = SharedAbroad, ParcelsUnderWay' = ParcelsUnderWay,
         SharedPurse' = SharedPurse
  PROVE  UNCHANGED Shared!sharedVars
BY DEF Shared!sharedVars

(* Genesis.                                                                 *)
LEMMA SharedInitIsRead ==
  ASSUME Init PROVE Shared!SharedInit
<1>1. \A e \in Catalogue : remote[e.channel][e.asset] = RemoteSupply[e.channel][e.asset]
  BY CatalogueCoins DEF Init
<1>2. \A e \in Catalogue, a \in Account :
        PurseOf(e, a) = IF a \in User THEN GenesisBalance[a][e.native] ELSE 0
  <2> TAKE e \in Catalogue, a \in Account
  <2>1. /\ e.native \in Native /\ e.native \in Denom /\ e.ibc \in Denom /\ e.ibc \notin Native
        /\ e.ibc \in Ibc /\ e.channel \notin User
    BY CatalogueCoins
  <2>2. /\ ledger.bal[a][e.ibc] = 0 /\ donated[e.ibc] = 0
        /\ ledger.bal[a][e.native] = IF a \in User THEN GenesisBalance[a][e.native] ELSE 0
    BY <2>1 DEF Init
  <2>3. a \in User => GenesisBalance[a][e.native] \in Nat
    BY <2>1, TransferAssumption
  <2> QED
    BY <2>1, <2>2, <2>3 DEF PurseOf, EscrowAddress
<1>3. ParcelsUnderWay = {}
  BY DEF Init, ParcelsUnderWay, ParcelsOf
<1> QED
  BY <1>1, <1>2, <1>3 DEF Shared!SharedInit, SharedAbroad, SharedPurse

-----------------------------------------------------------------------------
(* A packet as the parcel of a coin it may be.                              *)
ParcelOf(e, p) == [coin |-> e, sender |-> p.sender, amount |-> p.amount, number |-> p.seq]
Carries(p, e) == p.denom = e.ibc /\ p.channel = e.channel /\ p.status # "ok"

(* The packets that carry a coin are its parcels.                          *)
LEMMA ParcelsMembers ==
  /\ \A q : q \in ParcelsUnderWay
              <=> \E e \in Catalogue, p \in inflight : Carries(p, e) /\ q = ParcelOf(e, p)
  /\ \A q : q \in ParcelsUnderWay'
              <=> \E e \in Catalogue, p \in inflight' : Carries(p, e) /\ q = ParcelOf(e, p)
BY DEF ParcelsUnderWay, ParcelsOf, ParcelOf, Carries

(* A packet carries one coin at most.                                       *)
LEMMA CarriesOne ==
  ASSUME NEW p, NEW e \in Catalogue, NEW f \in Catalogue, Carries(p, e), Carries(p, f)
  PROVE  e = f
BY CatalogueDistinct DEF Carries

(* The purses that a step leaves, as functions.                             *)
LEMMA PursesAre ==
  ASSUME BridgeTypeOK
  PROVE  /\ \A e \in Catalogue, a \in Account : PurseOf(e, a) \in Nat
         /\ \A e \in Catalogue : donated[e.ibc] \in Nat
         /\ \A e \in Catalogue : remote[e.channel][e.asset] \in Nat
<1>1. /\ \A b \in Account, f \in Denom : ledger.bal[b][f] \in Nat
      /\ \A e \in Catalogue : donated[e.ibc] \in Nat
  BY CatalogueCoins DEF BridgeTypeOK, Ledger
<1>2. \A e \in Catalogue : remote[e.channel][e.asset] \in Nat
  BY CatalogueCoins DEF BridgeTypeOK
<1> QED
  BY <1>1, <1>2, CatalogueCoins DEF PurseOf

(* Who loses and who gains in a step.                                       *)
PaidOut(k, a, x) ==
  \A e \in Catalogue, h \in Account :
    PurseOf(e, h)' = PurseOf(e, h) - (IF e = k /\ h = a THEN x ELSE 0)
(* What one purse gains.                                                    *)
PaidIn(k, b, x) ==
  \A e \in Catalogue, h \in Account :
    PurseOf(e, h)' = PurseOf(e, h) + (IF e = k /\ h = b THEN x ELSE 0)
(* What goes from one purse to another.                                     *)
PaidOver(k, a, b, x) ==
  \A e \in Catalogue, h \in Account :
    PurseOf(e, h)' = PurseOf(e, h) - (IF e = k /\ h = a THEN x ELSE 0)
                                   + (IF e = k /\ h = b THEN x ELSE 0)

(* The purses as functions.                                                 *)
LEMMA PursesPaid ==
  ASSUME BridgeTypeOK, NEW k \in Catalogue, NEW a \in Account, NEW b \in Account, NEW x \in Nat,
         PaidOver(k, a, b, x)
  PROVE  SharedPurse' = [SharedPurse EXCEPT ![k] = Shared!Passed(SharedPurse[k], a, b, x)]
<1>1. \A e \in Catalogue, h \in Account : PurseOf(e, h) \in Nat
  BY PursesAre
<1>2. ASSUME NEW e \in Catalogue
      PROVE  [h \in Account |-> PurseOf(e, h)']
               = IF e = k THEN Shared!Passed(SharedPurse[k], a, b, x) ELSE SharedPurse[e]
  BY <1>1 DEF PaidOver, SharedPurse, Shared!Passed
<1>3. SharedPurse' = [e \in Catalogue |-> [h \in Account |-> PurseOf(e, h)']]
  BY DEF SharedPurse
<1> QED
  BY <1>2, <1>3 DEF SharedPurse

(* The purses of the next state, for each kind of payment.                 *)
LEMMA PursesGain ==
  ASSUME BridgeTypeOK, NEW k \in Catalogue, NEW b \in Account, NEW x \in Nat,
         PaidIn(k, b, x)
  PROVE  SharedPurse' = [SharedPurse EXCEPT ![k][b] = @ + x]
<1>1. \A e \in Catalogue, h \in Account : PurseOf(e, h) \in Nat
  BY PursesAre
<1>2. ASSUME NEW e \in Catalogue
      PROVE  [h \in Account |-> PurseOf(e, h)']
               = IF e = k THEN [SharedPurse[k] EXCEPT ![b] = @ + x] ELSE SharedPurse[e]
  BY <1>1 DEF PaidIn, SharedPurse
<1>3. SharedPurse' = [e \in Catalogue |-> [h \in Account |-> PurseOf(e, h)']]
  BY DEF SharedPurse
<1> QED
  BY <1>2, <1>3 DEF SharedPurse

(* A purse that has paid.                                                   *)
LEMMA PursesLose ==
  ASSUME BridgeTypeOK, NEW k \in Catalogue, NEW a \in Account, NEW x \in Nat,
         PaidOut(k, a, x)
  PROVE  SharedPurse' = [SharedPurse EXCEPT ![k][a] = @ - x]
<1>1. \A e \in Catalogue, h \in Account : PurseOf(e, h) \in Nat
  BY PursesAre
<1>2. ASSUME NEW e \in Catalogue
      PROVE  [h \in Account |-> PurseOf(e, h)']
               = IF e = k THEN [SharedPurse[k] EXCEPT ![a] = @ - x] ELSE SharedPurse[e]
  BY <1>1 DEF PaidOut, SharedPurse
<1>3. SharedPurse' = [e \in Catalogue |-> [h \in Account |-> PurseOf(e, h)']]
  BY DEF SharedPurse
<1> QED
  BY <1>2, <1>3 DEF SharedPurse

(* Purses that nothing happened to.                                         *)
LEMMA PursesKept ==
  ASSUME \A e \in Catalogue, h \in Account : PurseOf(e, h)' = PurseOf(e, h)
  PROVE  SharedPurse' = SharedPurse
BY DEF SharedPurse

(* The amounts abroad.                                                      *)
LEMMA AbroadLess ==
  ASSUME NEW k \in Catalogue, NEW x,
         \A e \in Catalogue : remote'[e.channel][e.asset]
           = IF e = k THEN remote[e.channel][e.asset] - x ELSE remote[e.channel][e.asset]
  PROVE  SharedAbroad' = [SharedAbroad EXCEPT ![k] = @ - x]
BY DEF SharedAbroad

(* What is abroad in the next state.                                       *)
LEMMA AbroadMore ==
  ASSUME NEW k \in Catalogue, NEW x,
         \A e \in Catalogue : remote'[e.channel][e.asset]
           = IF e = k THEN remote[e.channel][e.asset] + x ELSE remote[e.channel][e.asset]
  PROVE  SharedAbroad' = [SharedAbroad EXCEPT ![k] = @ + x]
BY DEF SharedAbroad

(* Nothing left or arrived abroad.                                          *)
LEMMA AbroadKept ==
  ASSUME \A e \in Catalogue : remote'[e.channel][e.asset] = remote[e.channel][e.asset]
  PROVE  SharedAbroad' = SharedAbroad
BY DEF SharedAbroad

-----------------------------------------------------------------------------
(* The parcels under way after each kind of step.                           *)
LEMMA EmitNoParcel ==
  ASSUME NEW q, inflight' = inflight \cup {q}, \A e \in Catalogue : ~Carries(q, e)
  PROVE  ParcelsUnderWay' = ParcelsUnderWay
BY ParcelsMembers

(* A packet that carries no coin of the catalogue comes or goes unseen.    *)
LEMMA RemoveNoParcel ==
  ASSUME NEW q, inflight' = inflight \ {q}, \A e \in Catalogue : ~Carries(q, e)
  PROVE  ParcelsUnderWay' = ParcelsUnderWay
BY ParcelsMembers

(* A packet that carries a coin is a new parcel, with a number of its own.  *)
LEMMA EmitParcel ==
  ASSUME PacketsSound, NEW q, inflight' = inflight \cup {q}, NEW k \in Catalogue, Carries(q, k),
         q.seq = nextSeq[q.channel]
  PROVE  /\ ParcelsUnderWay' = ParcelsUnderWay \cup {ParcelOf(k, q)}
         /\ \A r \in ParcelsUnderWay : r.coin = k => r.number # q.seq
         /\ ParcelOf(k, q) \notin ParcelsUnderWay
<1>1. \A e \in Catalogue : Carries(q, e) <=> e = k
  BY CarriesOne
<1>2. \A r : r \in ParcelsUnderWay' <=> r \in ParcelsUnderWay \/ r = ParcelOf(k, q)
  BY <1>1, ParcelsMembers
<1>3. ASSUME NEW r \in ParcelsUnderWay, r.coin = k PROVE r.number # q.seq
  <2>1. PICK e \in Catalogue, p \in inflight : Carries(p, e) /\ r = ParcelOf(e, p)
    BY ParcelsMembers
  <2>2. e = k /\ r.number = p.seq
    BY <2>1, <1>3 DEF ParcelOf
  <2>3. p.seq \in Nat /\ p.seq < nextSeq[p.channel] /\ p.channel \in Channel
        /\ nextSeq[p.channel] \in Nat
    BY DEF PacketsSound
  <2>4. p.channel = q.channel
    BY <2>1, <2>2 DEF Carries
  <2> QED
    BY <2>2, <2>3, <2>4
<1>4. ParcelOf(k, q).coin = k /\ ParcelOf(k, q).number = q.seq
  BY DEF ParcelOf
<1>5. ParcelOf(k, q) \notin ParcelsUnderWay
  BY <1>3, <1>4
<1> QED
  BY <1>2, <1>3, <1>5

(* A packet carries one coin at most.                                      *)
LEMMA OneParcelEach ==
  ASSUME PacketsSound, NEW q \in inflight, NEW k \in Catalogue, Carries(q, k)
  PROVE  \A e \in Catalogue, p \in inflight :
           Carries(p, e) /\ ParcelOf(e, p) = ParcelOf(k, q) => p = q
<1> SUFFICES ASSUME NEW e \in Catalogue, NEW p \in inflight, Carries(p, e),
                    ParcelOf(e, p) = ParcelOf(k, q)
             PROVE  p = q
  OBVIOUS
<1>1. e = k /\ p.seq = q.seq
  BY DEF ParcelOf
<1>2. p.channel = q.channel
  BY <1>1 DEF Carries
<1> QED
  BY <1>1, <1>2 DEF PacketsSound, Key

(* A packet that carries a coin settles its parcel when it goes.           *)
LEMMA RemoveParcel ==
  ASSUME PacketsSound, NEW q \in inflight, inflight' = inflight \ {q}, NEW k \in Catalogue,
         Carries(q, k)
  PROVE  /\ ParcelOf(k, q) \in ParcelsUnderWay
         /\ ParcelsUnderWay' = ParcelsUnderWay \ {ParcelOf(k, q)}
<1>1. \A e \in Catalogue, p \in inflight : Carries(p, e) /\ ParcelOf(e, p) = ParcelOf(k, q) => p = q
  BY OneParcelEach
<1>2. \A e \in Catalogue : Carries(q, e) <=> e = k
  BY CarriesOne
<1>3. ParcelOf(k, q) \in ParcelsUnderWay
  BY ParcelsMembers
<1>4. ASSUME NEW r
      PROVE  r \in ParcelsUnderWay' <=> r \in ParcelsUnderWay /\ r # ParcelOf(k, q)
  <2>1. r \in ParcelsUnderWay <=> \E e \in Catalogue, p \in inflight : Carries(p, e) /\ r = ParcelOf(e, p)
    BY ParcelsMembers
  <2>2. r \in ParcelsUnderWay'
          <=> \E e \in Catalogue, p \in inflight \ {q} : Carries(p, e) /\ r = ParcelOf(e, p)
    BY ParcelsMembers
  <2> QED
    BY <1>1, <1>2, <2>1, <2>2
<1> QED
  BY <1>3, <1>4

(* A packet that is answered: it stays as it was, or is carried no more.    *)
LEMMA ArrivedParcel ==
  ASSUME PacketsSound, NEW p \in inflight, NEW q, inflight' = (inflight \ {p}) \cup {q},
         \A e \in Catalogue : ~Carries(q, e), NEW k \in Catalogue, Carries(p, k)
  PROVE  /\ ParcelOf(k, p) \in ParcelsUnderWay
         /\ ParcelsUnderWay' = ParcelsUnderWay \ {ParcelOf(k, p)}
<1>1. ParcelOf(k, p) \in ParcelsUnderWay
  BY ParcelsMembers
<1>2. \A r : r \in ParcelsUnderWay'
              <=> \E e \in Catalogue, s \in inflight \ {p} : Carries(s, e) /\ r = ParcelOf(e, s)
  BY ParcelsMembers
<1>3. \A r : r \in ParcelsUnderWay
              <=> \E e \in Catalogue, s \in inflight : Carries(s, e) /\ r = ParcelOf(e, s)
  BY ParcelsMembers
<1>4. \A e \in Catalogue : Carries(p, e) <=> e = k
  BY CarriesOne
<1>5. \A e \in Catalogue, s \in inflight :
         Carries(s, e) /\ ParcelOf(e, s) = ParcelOf(k, p) => s = p
  BY OneParcelEach
<1>6. ASSUME NEW r
      PROVE  r \in ParcelsUnderWay' <=> r \in ParcelsUnderWay /\ r # ParcelOf(k, p)
  BY <1>2, <1>3, <1>4, <1>5
<1> QED
  BY <1>1, <1>6

(* A delivered packet that carries no coin is not seen either.             *)
LEMMA ReplacedNoParcel ==
  ASSUME NEW p \in inflight, NEW q, inflight' = (inflight \ {p}) \cup {q},
         \A e \in Catalogue : ~Carries(q, e), ~ \E e \in Catalogue : Carries(p, e)
  PROVE  ParcelsUnderWay' = ParcelsUnderWay
BY ParcelsMembers

(* A packet whose status alone changes.                                     *)
LEMMA RefusedParcels ==
  ASSUME NEW p \in inflight, NEW q, inflight' = (inflight \ {p}) \cup {q},
         \A e \in Catalogue : Carries(q, e) <=> Carries(p, e),
         \A e \in Catalogue : ParcelOf(e, q) = ParcelOf(e, p)
  PROVE  ParcelsUnderWay' = ParcelsUnderWay
<1>1. ASSUME NEW r PROVE r \in ParcelsUnderWay' <=> r \in ParcelsUnderWay
  <2>1. r \in ParcelsUnderWay <=> \E e \in Catalogue, s \in inflight : Carries(s, e) /\ r = ParcelOf(e, s)
    BY ParcelsMembers
  <2>2. r \in ParcelsUnderWay'
          <=> \E e \in Catalogue, s \in (inflight \ {p}) \cup {q} : Carries(s, e) /\ r = ParcelOf(e, s)
    BY ParcelsMembers
  <2> QED
    BY <2>1, <2>2
<1> QED
  BY <1>1

(* A step of SharedLedger, or none.                                        *)
SharedStep == Shared!SharedNext \/ UNCHANGED Shared!sharedVars

(* The coin is one that the info stands for.                                *)
StandsFor(e, d) == d = e.native \/ d = e.ibc

(* A coin stands for one info at most.                                     *)
LEMMA StandsForOne ==
  ASSUME NEW e \in Catalogue, NEW f \in Catalogue, NEW d, StandsFor(e, d), StandsFor(f, d)
  PROVE  e = f
BY CatalogueCoins, CatalogueDistinct DEF StandsFor

(* Coins that change hands, with the gift that is recorded.                 *)
LEMMA MovedIsRead ==
  ASSUME BridgeTypeOK, NEW from \in Account, NEW to \in Account, NEW d \in Denom, NEW x \in Amount,
         ledger.bal[from][d] >= x,
         \A b \in Account, f \in Denom :
           ledger'.bal[b][f] = ledger.bal[b][f] - (IF b = from /\ f = d THEN x ELSE 0)
                                                + (IF b = to /\ f = d THEN x ELSE 0),
         \A e \in Catalogue :
           donated'[e.ibc] = donated[e.ibc] + (IF e.channel = to /\ e.ibc = d THEN x ELSE 0),
         \A e \in Catalogue : ~(e.channel = from /\ e.ibc = d),
         SharedAbroad' = SharedAbroad, ParcelsUnderWay' = ParcelsUnderWay
  PROVE  SharedStep
<1>1. x \in Nat
  BY TransferAssumption
<1>2. /\ \A b \in Account, f \in Denom : ledger.bal[b][f] \in Nat
      /\ \A e \in Catalogue : donated[e.ibc] \in Nat
  BY CatalogueCoins DEF BridgeTypeOK, Ledger
<1>3. ASSUME NEW e \in Catalogue, NEW h \in Account
      PROVE  /\ PurseOf(e, h)' = PurseOf(e, h) - (IF StandsFor(e, d) /\ h = from THEN x ELSE 0)
                                               + (IF StandsFor(e, d) /\ h = to THEN x ELSE 0)
             /\ StandsFor(e, d) => PurseOf(e, from) >= x
  <2>1. /\ e.native \in Denom /\ e.ibc \in Denom /\ e.native # e.ibc /\ e.channel \in Account
        /\ ~(e.channel = from /\ e.ibc = d)
    BY CatalogueCoins
  <2>2. /\ ledger.bal[h][e.native] \in Nat /\ ledger.bal[h][e.ibc] \in Nat /\ donated[e.ibc] \in Nat
        /\ ledger.bal[from][e.native] \in Nat /\ ledger.bal[from][e.ibc] \in Nat
    BY <1>2, <2>1
  <2>3. /\ ledger'.bal[h][e.native]
             = ledger.bal[h][e.native] - (IF h = from /\ e.native = d THEN x ELSE 0)
                                       + (IF h = to /\ e.native = d THEN x ELSE 0)
        /\ ledger'.bal[h][e.ibc]
             = ledger.bal[h][e.ibc] - (IF h = from /\ e.ibc = d THEN x ELSE 0)
                                    + (IF h = to /\ e.ibc = d THEN x ELSE 0)
        /\ donated'[e.ibc] = donated[e.ibc] + (IF e.channel = to /\ e.ibc = d THEN x ELSE 0)
    BY <2>1
  <2>4. /\ PurseOf(e, h) = ledger.bal[h][e.native]
                             + (IF h = e.channel THEN donated[e.ibc] ELSE ledger.bal[h][e.ibc])
        /\ PurseOf(e, h)' = ledger'.bal[h][e.native]
                              + (IF h = e.channel THEN donated'[e.ibc] ELSE ledger'.bal[h][e.ibc])
        /\ PurseOf(e, from) = ledger.bal[from][e.native]
                             + (IF from = e.channel THEN donated[e.ibc] ELSE ledger.bal[from][e.ibc])
    BY DEF PurseOf, EscrowAddress
  <2>5. PurseOf(e, h)' = PurseOf(e, h) - (IF StandsFor(e, d) /\ h = from THEN x ELSE 0)
                                       + (IF StandsFor(e, d) /\ h = to THEN x ELSE 0)
    BY <1>1, <2>1, <2>2, <2>3, <2>4 DEF StandsFor
  <2>6. StandsFor(e, d) => PurseOf(e, from) >= x
    BY <1>1, <2>1, <2>2, <2>4 DEF StandsFor
  <2> QED
    BY <2>5, <2>6
<1>4. CASE \E k \in Catalogue : StandsFor(k, d)
  <2>1. PICK k \in Catalogue : StandsFor(k, d)
    BY <1>4
  <2>2. \A e \in Catalogue : StandsFor(e, d) <=> e = k
    BY <2>1, StandsForOne
  <2>3. PaidOver(k, from, to, x)
    BY <1>3, <2>2 DEF PaidOver
  <2>4. SharedPurse' = [SharedPurse EXCEPT ![k] = Shared!Passed(SharedPurse[k], from, to, x)]
    BY <1>1, <2>3, PursesPaid
  <2>5. SharedPurse[k][from] >= x
    BY <1>3, <2>1 DEF SharedPurse
  <2>6. Shared!SharedNext
    BY <2>4, <2>5, PayIsRead
  <2> QED
    BY <2>6 DEF SharedStep
<1>5. CASE ~ \E k \in Catalogue : StandsFor(k, d)
  <2>1. \A e \in Catalogue, h \in Account : PurseOf(e, h)' = PurseOf(e, h)
    BY <1>3, <1>5, PursesAre
  <2> QED
    BY <2>1, PursesKept, StutterIsRead DEF SharedStep
<1> QED
  BY <1>4, <1>5

(* A coin that comes into one purse, in one form or the other.              *)
LEMMA BankSendIsRead ==
  ASSUME BridgeInv, NEW u \in User, NEW to \in Account, NEW d \in Denom, NEW x \in Amount,
         BankSend(u, to, d, x)
  PROVE  SharedStep
<1>1. /\ u \in Account /\ u \notin Channel /\ x \in Nat /\ ledger \in Ledger
      /\ donated \in [Ibc -> Nat] /\ BridgeTypeOK
  BY TransferAssumption DEF BridgeInv, BridgeTypeOK
<1>2. /\ CanSpend(ledger, u, d, x) /\ ledger' = SendCoins(ledger, u, to, d, x)
      /\ DonationTo(to, d, x) /\ inflight' = inflight /\ remote' = remote
  BY DEF BankSend
<1>3. \A b \in Account, f \in Denom :
        ledger'.bal[b][f] = ledger.bal[b][f] - (IF b = u /\ f = d THEN x ELSE 0)
                                             + (IF b = to /\ f = d THEN x ELSE 0)
  BY <1>1, <1>2, SendCoinsEffect
<1>4. \A e \in Catalogue :
        donated'[e.ibc] = donated[e.ibc] + (IF e.channel = to /\ e.ibc = d THEN x ELSE 0)
  BY <1>1, <1>2, DonationEffect
<1>5. \A e \in Catalogue : ~(e.channel = u /\ e.ibc = d)
  BY <1>1, CatalogueCoins
<1>6. SharedAbroad' = SharedAbroad /\ ParcelsUnderWay' = ParcelsUnderWay
  BY <1>2 DEF SharedAbroad, ParcelsUnderWay, ParcelsOf
<1>7. ledger.bal[u][d] >= x
  BY <1>2 DEF CanSpend
<1> QED
  BY <1>1, <1>3, <1>4, <1>5, <1>6, <1>7, MovedIsRead

(* A returned native coin that stands for a shared one is a payment out of *)
(* the escrow account's purse.                                             *)
LEMMA OnRecvReturnedIsRead ==
  ASSUME BridgeInv, NEW c \in Channel, NEW d \in Denom, NEW x \in Amount, NEW to \in Account,
         OnRecvReturned(c, d, x, to)
  PROVE  SharedStep
<1>1. /\ c \in Account /\ x \in Nat /\ ledger \in Ledger /\ d \notin Asset
      /\ donated \in [Ibc -> Nat] /\ BridgeTypeOK
  BY TransferAssumption DEF BridgeInv, BridgeTypeOK
<1>2. /\ CanSpend(ledger, c, d, x) /\ ledger' = SendCoins(ledger, c, to, d, x)
      /\ d \notin VouchersOf(c) /\ DonationTo(to, d, x) /\ inflight' = inflight
      /\ remote' = [remote EXCEPT ![c][d] = @ - x]
  BY DEF OnRecvReturned, SenderChainIsSource, EscrowAddress
<1>3. \A b \in Account, f \in Denom :
        ledger'.bal[b][f] = ledger.bal[b][f] - (IF b = c /\ f = d THEN x ELSE 0)
                                             + (IF b = to /\ f = d THEN x ELSE 0)
  BY <1>1, <1>2, SendCoinsEffect
<1>4. \A e \in Catalogue :
        donated'[e.ibc] = donated[e.ibc] + (IF e.channel = to /\ e.ibc = d THEN x ELSE 0)
  BY <1>1, <1>2, DonationEffect
<1>5. \A e \in Catalogue : ~(e.channel = c /\ e.ibc = d)
  BY <1>2, CatalogueCoins
<1>6. SharedAbroad' = SharedAbroad
  <2>1. \A e \in Catalogue : remote'[e.channel][e.asset] = remote[e.channel][e.asset]
    BY <1>1, <1>2, CatalogueCoins DEF BridgeTypeOK
  <2> QED
    BY <2>1, AbroadKept
<1>7. ParcelsUnderWay' = ParcelsUnderWay
  BY <1>2 DEF ParcelsUnderWay, ParcelsOf
<1>8. ledger.bal[c][d] >= x
  BY <1>2 DEF CanSpend
<1> QED
  BY <1>1, <1>3, <1>4, <1>5, <1>6, <1>7, <1>8, MovedIsRead

(* Of a coin that does not go through the registry, nothing is read.        *)
LEMMA NothingIsRead ==
  ASSUME SharedAbroad' = SharedAbroad, ParcelsUnderWay' = ParcelsUnderWay,
         \A e \in Catalogue, h \in Account : PurseOf(e, h)' = PurseOf(e, h)
  PROVE  SharedStep
BY PursesKept, StutterIsRead DEF SharedStep

(* What a purse is made of, before and after a step.                        *)
LEMMA PurseParts ==
  ASSUME BridgeTypeOK, NEW e \in Catalogue, NEW h \in Account
  PROVE  /\ ledger.bal[h][e.native] \in Nat /\ ledger.bal[h][e.ibc] \in Nat
         /\ donated[e.ibc] \in Nat
         /\ PurseOf(e, h) = ledger.bal[h][e.native]
              + (IF h = e.channel THEN donated[e.ibc] ELSE ledger.bal[h][e.ibc])
         /\ PurseOf(e, h)' = ledger'.bal[h][e.native]
              + (IF h = e.channel THEN donated'[e.ibc] ELSE ledger'.bal[h][e.ibc])
BY CatalogueCoins DEF BridgeTypeOK, Ledger, PurseOf, EscrowAddress

(* A coin on its way out comes out of one purse.                            *)
LEMMA SentIsRead ==
  ASSUME BridgeTypeOK, PacketsSound, NEW u \in User, NEW k \in Catalogue, NEW x \in Amount,
         EmitPacket(u, k.channel, k.ibc, x), remote' = remote,
         PaidOut(k, u, x), PurseOf(k, u) >= x
  PROVE  SharedStep
<1> DEFINE p == [seq |-> nextSeq[k.channel], channel |-> k.channel, denom |-> k.ibc,
                 amount |-> x, sender |-> u, status |-> "sent"]
           q == ParcelOf(k, p)
<1>1. inflight' = inflight \cup {p} /\ Carries(p, k) /\ p.seq = nextSeq[p.channel]
  BY DEF EmitPacket, Carries
<1>2. q.coin = k /\ q.sender = u /\ q.amount = x /\ q.number = p.seq
  BY DEF ParcelOf
<1> HIDE DEF p
<1>3. /\ ParcelsUnderWay' = ParcelsUnderWay \cup {q}
      /\ \A r \in ParcelsUnderWay : r.coin = k => r.number # p.seq
      /\ q \notin ParcelsUnderWay
  BY <1>1, EmitParcel
<1> HIDE DEF q
<1>4. x \in Nat /\ u \in Account
  BY TransferAssumption
<1>5. SharedPurse' = [SharedPurse EXCEPT ![k][u] = @ - x]
  BY <1>4, PursesLose
<1>6. SharedPurse[k][u] >= x
  BY <1>4 DEF SharedPurse
<1>7. SharedAbroad' = SharedAbroad
  BY DEF SharedAbroad
<1>8. \A r \in ParcelsUnderWay : r.coin = q.coin => r.number # q.number
  BY <1>2, <1>3
<1>9. /\ SharedPurse[q.coin][q.sender] >= q.amount
      /\ SharedPurse' = [SharedPurse EXCEPT ![q.coin][q.sender] = @ - q.amount]
  BY <1>2, <1>5, <1>6
<1> QED
  BY <1>3, <1>7, <1>8, <1>9, SendIsRead DEF SharedStep

(* A transfer passed on sends a voucher home as a parcel, or pays a coin   *)
(* into the escrow account's purse.                                        *)
LEMMA TransferPassedOnIsRead ==
  ASSUME BridgeInv, PacketsSound, NEW u \in User, NEW c \in Channel, NEW d \in Denom,
         NEW x \in Amount, TransferPassedOn(u, c, d, x)
  PROVE  SharedStep
<1>1. /\ CanSpend(ledger, u, d, x) /\ ledger' = SendTransfer(ledger, u, c, d, x)
      /\ EmitPacket(u, c, d, x) /\ remote' = remote /\ donated' = donated
  BY DEF TransferPassedOn
<1>2. BridgeTypeOK /\ ledger \in Ledger /\ x \in Nat /\ u \notin Channel /\ u \in Account
      /\ c \in Account /\ ledger.bal[u][d] >= x
  BY <1>1, TransferAssumption DEF BridgeInv, BridgeTypeOK, CanSpend
<1>3. \A b \in Account, f \in Denom :
        ledger'.bal[b][f] = ledger.bal[b][f] - (IF b = u /\ f = d THEN x ELSE 0)
          + (IF b = c /\ f = d /\ d \notin VouchersOf(c) THEN x ELSE 0)
  BY <1>1, <1>2, PassedOnLedger
<1>4. SharedAbroad' = SharedAbroad
  BY <1>1 DEF SharedAbroad
<1>5. ASSUME \A e \in Catalogue : ~(e.ibc = d /\ e.channel = c)
      PROVE  ParcelsUnderWay' = ParcelsUnderWay
  <2> DEFINE p == [seq |-> nextSeq[c], channel |-> c, denom |-> d, amount |-> x,
                   sender |-> u, status |-> "sent"]
  <2>1. inflight' = inflight \cup {p} /\ \A e \in Catalogue : ~Carries(p, e)
    BY <1>1, <1>5 DEF EmitPacket, Carries
  <2> QED
    BY <2>1, EmitNoParcel
<1>6. CASE d \notin VouchersOf(c)
  <2>1. \A e \in Catalogue : ~(e.ibc = d /\ e.channel = c)
    BY <1>6, CatalogueCoins
  <2>2. \A b \in Account, f \in Denom :
          ledger'.bal[b][f] = ledger.bal[b][f] - (IF b = u /\ f = d THEN x ELSE 0)
                                               + (IF b = c /\ f = d THEN x ELSE 0)
    BY <1>3, <1>6
  <2>3. \A e \in Catalogue :
          donated'[e.ibc] = donated[e.ibc] + (IF e.channel = c /\ e.ibc = d THEN x ELSE 0)
    BY <1>1, <1>2, <2>1, PursesAre
  <2>4. \A e \in Catalogue : ~(e.channel = u /\ e.ibc = d)
    BY <1>2, CatalogueCoins
  <2>5. ParcelsUnderWay' = ParcelsUnderWay
    BY <1>5, <2>1
  <2> QED
    BY <1>2, <1>4, <2>2, <2>3, <2>4, <2>5, MovedIsRead
<1>7. CASE d \in VouchersOf(c)
  <2>1. d \notin Native
    BY <1>7, TransferAssumption DEF VouchersOf, Voucher
  <2>2. \A b \in Account, f \in Denom :
          ledger'.bal[b][f] = ledger.bal[b][f] - (IF b = u /\ f = d THEN x ELSE 0)
    <3>1. \A b \in Account, f \in Denom : ledger.bal[b][f] \in Nat
      BY <1>2 DEF Ledger
    <3> QED
      BY <1>2, <1>3, <1>7, <3>1
  <2>3. ASSUME NEW e \in Catalogue, NEW h \in Account
        PROVE  PurseOf(e, h)' = PurseOf(e, h) - (IF e.ibc = d /\ h = u THEN x ELSE 0)
    <3>1. /\ e.native \in Denom /\ e.ibc \in Denom /\ e.native # d /\ e.channel # u
      BY <1>2, <2>1, CatalogueCoins
    <3>2. ledger'.bal[h][e.native] = ledger.bal[h][e.native]
      BY <1>2, <2>2, <3>1, PurseParts
    <3>3. ledger'.bal[h][e.ibc] = ledger.bal[h][e.ibc] - (IF h = u /\ e.ibc = d THEN x ELSE 0)
      BY <2>2, <3>1
    <3> QED
      BY <1>1, <1>2, <3>1, <3>2, <3>3, PurseParts
  <2>4. CASE \E k \in Catalogue : k.ibc = d
    <3>1. PICK k \in Catalogue : k.ibc = d
      BY <2>4
    <3>2. k.channel = c /\ \A e \in Catalogue : e.ibc = d <=> e = k
      BY <1>7, <3>1, CatalogueCoins, CatalogueDistinct
    <3>3. PaidOut(k, u, x)
      BY <2>3, <3>2 DEF PaidOut
    <3>4. PurseOf(k, u) >= x
      BY <1>2, <3>1, PurseParts, CatalogueCoins
    <3>5. EmitPacket(u, k.channel, k.ibc, x)
      BY <1>1, <3>1, <3>2
    <3> QED
      BY <1>1, <1>2, <3>3, <3>4, <3>5, SentIsRead
  <2>5. CASE ~ \E k \in Catalogue : k.ibc = d
    <3>1. \A e \in Catalogue, h \in Account : PurseOf(e, h)' = PurseOf(e, h)
      BY <1>2, <2>3, <2>5, PursesAre
    <3>2. ParcelsUnderWay' = ParcelsUnderWay
      BY <1>5, <2>5
    <3> QED
      BY <1>4, <3>1, <3>2, NothingIsRead
  <2> QED
    BY <2>4, <2>5
<1> QED
  BY <1>6, <1>7

(* A converted transfer sends a parcel.                                    *)
LEMMA TransferConvertedIsRead ==
  ASSUME RegistryInv, BridgeInv, PacketsSound, NEW u \in User, NEW c \in Channel, NEW n \in Native,
         NEW x \in Amount, TransferConverted(u, c, n, x)
  PROVE  SharedStep
<1> DEFINE k == infoByNative[n]
<1>1. k \in Catalogue /\ k.channel = c /\ k.native = n
  BY ConvertedInfo DEF TransferConverted
<1>2. infoByNative[k.native] = k
  BY <1>1
<1>3. /\ CanSpend(ledger, u, n, x) /\ VoucherLocked(ledger, u, c, n, x)
      /\ ledger' = SendTransfer(VoucherReleased(ledger, u, c, n, x), u, c, k.ibc, x)
      /\ EmitPacket(u, c, k.ibc, x) /\ remote' = remote /\ donated' = donated
  BY DEF TransferConverted
<1> HIDE DEF k
<1>4. CanSpend(ledger, u, k.native, x) /\ VoucherLocked(ledger, u, k.channel, k.native, x)
      /\ ledger' = SendTransfer(VoucherReleased(ledger, u, k.channel, k.native, x), u, k.channel, k.ibc, x)
      /\ EmitPacket(u, k.channel, k.ibc, x)
  BY <1>1, <1>3
<1>5. BridgeTypeOK /\ ledger \in Ledger /\ x \in Nat /\ u \notin Channel /\ u \in Account
      /\ ledger.bal[u][k.native] >= x
  BY <1>4, TransferAssumption DEF BridgeInv, BridgeTypeOK, CanSpend
<1>6. \A b \in Account, f \in Denom : ledger'.bal[b][f] = ledger.bal[b][f]
        - (IF b = u /\ f = k.native THEN x ELSE 0) - (IF b = k.channel /\ f = k.ibc THEN x ELSE 0)
  BY <1>1, <1>2, <1>4, <1>5, ConvertedLedger
<1>7. ASSUME NEW e \in Catalogue, NEW h \in Account
      PROVE  PurseOf(e, h)' = PurseOf(e, h) - (IF e = k /\ h = u THEN x ELSE 0)
  <2>1. /\ e.native \in Denom /\ e.ibc \in Denom /\ e.channel # u /\ k.channel # u
        /\ e.native # k.ibc /\ e.ibc # k.native
        /\ (e.native = k.native <=> e = k) /\ (e.ibc = k.ibc <=> e = k)
    BY <1>1, <1>5, CatalogueCoins, CatalogueDistinct
  <2>2. ledger'.bal[h][e.native] = ledger.bal[h][e.native] - (IF h = u /\ e = k THEN x ELSE 0)
    BY <1>5, <1>6, <2>1, PurseParts
  <2>3. h # e.channel => ledger'.bal[h][e.ibc] = ledger.bal[h][e.ibc]
    BY <1>5, <1>6, <2>1, PurseParts
  <2> QED
    BY <1>3, <1>5, <2>1, <2>2, <2>3, PurseParts
<1>8. PaidOut(k, u, x)
  BY <1>7 DEF PaidOut
<1>9. PurseOf(k, u) >= x
  BY <1>1, <1>5, PurseParts, CatalogueCoins
<1> QED
  BY <1>1, <1>3, <1>4, <1>5, <1>8, <1>9, SentIsRead

(* A coin from abroad comes into its receiver's purse, or, if no info of    *)
(* the catalogue stands for it, is of no matter here.                       *)
LEMMA OnRecvAssetIsRead ==
  ASSUME RegistryInv, BridgeInv, NEW c \in Channel, NEW a \in Asset, NEW x \in Amount,
         NEW to \in Account, OnRecvAsset(c, a, x, to)
  PROVE  SharedStep
<1> DEFINE v == Voucher(c, a)
           n == infoByAsset[a].native
           conv == IsReceivedConverted(c, a)
           home == IF conv THEN c ELSE to
<1>1. /\ remote[c][a] >= x /\ remote' = [remote EXCEPT ![c][a] = @ - x]
      /\ ledger' = ReceivedLedger(c, a, x, to) /\ inflight' = inflight
      /\ IF conv THEN donated' = donated ELSE DonationTo(to, v, x)
  BY DEF OnRecvAsset
<1>2. BridgeTypeOK /\ ledger \in Ledger /\ x \in Nat /\ donated \in [Ibc -> Nat]
      /\ remote \in [Channel -> [Asset \cup Denom -> Nat]] /\ v \in Denom
  BY TransferAssumption DEF BridgeInv, BridgeTypeOK, Voucher
<1>3. \A b \in Account, f \in Denom : ledger'.bal[b][f] = ledger.bal[b][f]
        + (IF b = home /\ f = v THEN x ELSE 0) + (IF conv /\ b = to /\ f = n THEN x ELSE 0)
  BY <1>1, <1>2, ReceivedLedgerEffect
<1>4. conv => infoByAsset[a] \in Catalogue /\ infoByAsset[a].ibc = v
  BY ReceivedInfo
<1>5. \A e \in Catalogue : e.ibc = v <=> e.channel = c /\ e.asset = a
  BY CatalogueCoins DEF Voucher
<1>6. \A e \in Catalogue : donated'[e.ibc] = donated[e.ibc]
        + (IF ~conv /\ e.channel = to /\ e.ibc = v THEN x ELSE 0)
  <2>1. CASE conv
    BY <1>1, <1>2, <2>1, PursesAre
  <2>2. CASE ~conv
    BY <1>1, <1>2, <2>2, DonationEffect
  <2> QED
    BY <2>1, <2>2
<1>7. \A e \in Catalogue : remote'[e.channel][e.asset]
        = IF e.ibc = v THEN remote[e.channel][e.asset] - x ELSE remote[e.channel][e.asset]
  BY <1>1, <1>2, <1>5, CatalogueCoins
<1>8. \A e \in Catalogue : conv => (e.native = n <=> e.ibc = v)
  <2>1. \A e \in Catalogue, f \in Catalogue : e.native = f.native <=> e.ibc = f.ibc
    BY CatalogueDistinct
  <2> QED
    BY <1>4, <2>1
<1>9. ParcelsUnderWay' = ParcelsUnderWay
  BY <1>1 DEF ParcelsUnderWay, ParcelsOf
<1> HIDE DEF v, n, conv
<1>10. ASSUME NEW e \in Catalogue, NEW h \in Account
       PROVE  PurseOf(e, h)' = PurseOf(e, h) + (IF e.ibc = v /\ h = to THEN x ELSE 0)
  <2>1. /\ e.native \in Denom /\ e.ibc \in Denom /\ e.channel \in Account
        /\ e.native \in Native /\ e.ibc \notin Native
        /\ (e.ibc = v => e.channel = c)
    BY <1>5, CatalogueCoins
  <2>2. v \notin Native /\ (conv => n \in Native)
    BY <1>4, CatalogueCoins, TransferAssumption DEF v, n, Voucher
  <2>3. ledger'.bal[h][e.native]
          = ledger.bal[h][e.native] + (IF conv /\ h = to /\ e.ibc = v THEN x ELSE 0)
    BY <1>2, <1>3, <1>8, <2>1, <2>2, PurseParts
  <2>4. ledger'.bal[h][e.ibc]
          = ledger.bal[h][e.ibc] + (IF h = home /\ e.ibc = v THEN x ELSE 0)
    BY <1>2, <1>3, <2>1, <2>2, PurseParts
  <2>5. /\ donated'[e.ibc] = donated[e.ibc]
             + (IF ~conv /\ e.channel = to /\ e.ibc = v THEN x ELSE 0)
        /\ ledger.bal[h][e.native] \in Nat /\ ledger.bal[h][e.ibc] \in Nat
        /\ donated[e.ibc] \in Nat
        /\ PurseOf(e, h) = ledger.bal[h][e.native]
             + (IF h = e.channel THEN donated[e.ibc] ELSE ledger.bal[h][e.ibc])
        /\ PurseOf(e, h)' = ledger'.bal[h][e.native]
             + (IF h = e.channel THEN donated'[e.ibc] ELSE ledger'.bal[h][e.ibc])
    BY <1>2, <1>6, PurseParts
  <2> QED
    BY <1>2, <2>1, <2>3, <2>4, <2>5
<1>11. CASE \E k \in Catalogue : k.ibc = v
  <2>1. PICK k \in Catalogue : k.ibc = v
    BY <1>11
  <2>2. \A e \in Catalogue : e.ibc = v <=> e = k
    BY <2>1, CatalogueDistinct
  <2>3. PaidIn(k, to, x)
    BY <1>10, <2>2 DEF PaidIn
  <2>4. SharedPurse' = [SharedPurse EXCEPT ![k][to] = @ + x]
    BY <1>2, <2>3, PursesGain
  <2>5. \A e \in Catalogue : remote'[e.channel][e.asset]
          = IF e = k THEN remote[e.channel][e.asset] - x ELSE remote[e.channel][e.asset]
    BY <1>7, <2>2
  <2>6. SharedAbroad' = [SharedAbroad EXCEPT ![k] = @ - x]
    BY <2>5, AbroadLess
  <2>7. SharedAbroad[k] >= x
    BY <1>1, <1>5, <2>1 DEF SharedAbroad
  <2> QED
    BY <1>9, <2>4, <2>6, <2>7, ReceiveIsRead DEF SharedStep
<1>12. CASE ~ \E k \in Catalogue : k.ibc = v
  <2>1. \A e \in Catalogue, h \in Account : PurseOf(e, h)' = PurseOf(e, h)
    BY <1>2, <1>10, <1>12, PursesAre
  <2>2. \A e \in Catalogue : remote'[e.channel][e.asset] = remote[e.channel][e.asset]
    BY <1>7, <1>12
  <2>3. SharedAbroad' = SharedAbroad
    BY <2>2, AbroadKept
  <2> QED
    BY <1>9, <2>1, <2>3, NothingIsRead
<1> QED
  BY <1>11, <1>12

(* A packet that comes back puts its amount back into its sender's purse.   *)
LEMMA RefundIsRead ==
  ASSUME RegistryInv, BridgeInv, PacketsSound, NEW p \in inflight, p.amount \in Amount,
         p.status # "ok", Refund(p)
  PROVE  SharedStep
<1> DEFINE c == p.channel
           d == p.denom
           x == p.amount
           u == p.sender
           conv == IsRefundConverted(p)
           n == RefundInfo(p).native
<1>1. /\ ledger' = RefundToken(RefundPacketToken(ledger, p), p)
      /\ inflight' = inflight \ {p} /\ remote' = remote /\ donated' = donated
      /\ SenderChainIsSource(p.channel, p.denom) =>
           CanSpend(ledger, EscrowAddress(p.channel), p.denom, p.amount)
  BY DEF Refund, CanRefund
<1>2. BridgeTypeOK /\ ledger \in Ledger /\ p \in Packet /\ x \in Amount /\ x \in Nat
      /\ c \in Channel /\ c \in Account
      /\ d \in Denom /\ u \in User /\ u \in Account /\ u \notin Channel
  BY TransferAssumption DEF BridgeInv, BridgeTypeOK, Packet
<1>3. \A b \in Account, f \in Denom : ledger'.bal[b][f] = ledger.bal[b][f]
        - (IF b = c /\ f = d /\ d \notin VouchersOf(c) THEN x ELSE 0)
        + (IF conv THEN (IF b = c /\ f = d THEN x ELSE 0) + (IF b = u /\ f = n THEN x ELSE 0)
                   ELSE (IF b = u /\ f = d THEN x ELSE 0))
  BY <1>1, <1>2, RefundLedger
<1>4. conv => RefundInfo(p) \in Catalogue /\ RefundInfo(p).ibc = d /\ d \in VouchersOf(c)
  BY <1>2, RefundInfoOfVoucher DEF IsRefundConverted, SenderChainIsSource
<1>5. \A e \in Catalogue : Carries(p, e) <=> e.ibc = d /\ e.channel = c
  BY DEF Carries
<1>6. SharedAbroad' = SharedAbroad
  BY <1>1 DEF SharedAbroad
<1>7. /\ \A k \in Catalogue : ParcelOf(k, p).coin = k /\ ParcelOf(k, p).sender = u
                              /\ ParcelOf(k, p).amount = x
      /\ SenderChainIsSource(c, d) <=> d \notin VouchersOf(c)
  BY DEF ParcelOf, SenderChainIsSource
<1>8. d \notin VouchersOf(c) => ledger.bal[c][d] >= x
  BY <1>1, <1>7 DEF CanSpend, EscrowAddress
<1> HIDE DEF c, d, x, u, conv, n
<1>9. CASE d \notin VouchersOf(c)
  <2>1. \A e \in Catalogue : ~(e.channel = c /\ e.ibc = d)
    BY <1>9, CatalogueCoins
  <2>2. \A b \in Account, f \in Denom :
          ledger'.bal[b][f] = ledger.bal[b][f] - (IF b = c /\ f = d THEN x ELSE 0)
                                               + (IF b = u /\ f = d THEN x ELSE 0)
    BY <1>3, <1>4, <1>9
  <2>3. \A e \in Catalogue :
          donated'[e.ibc] = donated[e.ibc] + (IF e.channel = u /\ e.ibc = d THEN x ELSE 0)
    BY <1>1, <1>2, CatalogueCoins, PursesAre
  <2>4. ParcelsUnderWay' = ParcelsUnderWay
    BY <1>1, <1>5, <2>1, RemoveNoParcel
  <2> QED
    <3>1. ledger.bal[c][d] >= x
      BY <1>8, <1>9
    <3> QED
      BY <1>2, <1>6, <2>1, <2>2, <2>3, <2>4, <3>1, MovedIsRead
<1>10. CASE d \in VouchersOf(c)
  <2>1. d \notin Native /\ (conv => n \in Native)
    BY <1>2, <1>4, <1>10, CatalogueCoins, TransferAssumption DEF VouchersOf, Voucher, n
  <2>2. \A e \in Catalogue : conv => (e.native = n <=> e.ibc = d)
    <3>1. \A e \in Catalogue, f \in Catalogue : e.native = f.native <=> e.ibc = f.ibc
      BY CatalogueDistinct
    <3> QED
      BY <1>4, <3>1 DEF n
  <2>3. ASSUME NEW e \in Catalogue, NEW h \in Account
        PROVE  PurseOf(e, h)' = PurseOf(e, h) + (IF e.ibc = d /\ h = u THEN x ELSE 0)
    <3>1. /\ e.native \in Denom /\ e.ibc \in Denom /\ e.channel \in Account
          /\ e.native \in Native /\ e.ibc \notin Native /\ e.channel # u
          /\ (e.ibc = d => e.channel = c)
      BY <1>2, <1>10, CatalogueCoins
    <3>2. ledger.bal[h][e.native] \in Nat /\ ledger.bal[h][e.ibc] \in Nat
      BY <1>2, PurseParts
    <3>3. ledger'.bal[h][e.native]
            = ledger.bal[h][e.native] + (IF conv /\ h = u /\ e.ibc = d THEN x ELSE 0)
      BY <1>2, <1>3, <1>10, <2>1, <2>2, <3>1, <3>2
    <3>4. ledger'.bal[h][e.ibc] = ledger.bal[h][e.ibc]
            + (IF e.ibc = d /\ h = (IF conv THEN c ELSE u) THEN x ELSE 0)
      BY <1>2, <1>3, <1>10, <2>1, <3>1, <3>2
    <3>5. /\ donated[e.ibc] \in Nat /\ donated'[e.ibc] = donated[e.ibc]
          /\ PurseOf(e, h) = ledger.bal[h][e.native]
               + (IF h = e.channel THEN donated[e.ibc] ELSE ledger.bal[h][e.ibc])
          /\ PurseOf(e, h)' = ledger'.bal[h][e.native]
               + (IF h = e.channel THEN donated'[e.ibc] ELSE ledger'.bal[h][e.ibc])
      BY <1>1, <1>2, PurseParts
    <3> QED
      BY <1>2, <3>1, <3>2, <3>3, <3>4, <3>5
  <2>4. CASE \E k \in Catalogue : k.ibc = d
    <3>1. PICK k \in Catalogue : k.ibc = d
      BY <2>4
    <3>2. k.channel = c /\ \A e \in Catalogue : e.ibc = d <=> e = k
      BY <1>2, <1>10, <3>1, CatalogueCoins, CatalogueDistinct
    <3>3. PaidIn(k, u, x)
      BY <2>3, <3>2 DEF PaidIn
    <3>4. SharedPurse' = [SharedPurse EXCEPT ![k][u] = @ + x]
      BY <1>2, <3>3, PursesGain
    <3> DEFINE q == ParcelOf(k, p)
    <3>5. Carries(p, k)
      BY <1>5, <3>1, <3>2
    <3>6. q \in ParcelsUnderWay /\ ParcelsUnderWay' = ParcelsUnderWay \ {q}
      BY <1>1, <3>5, RemoveParcel
    <3>7. q.coin = k /\ q.sender = u /\ q.amount = x
      BY <1>7
    <3> HIDE DEF q
    <3>8. SharedPurse' = [SharedPurse EXCEPT ![q.coin][q.sender] = @ + q.amount]
      BY <3>4, <3>7
    <3> QED
      BY <1>6, <3>6, <3>8, ReturnIsRead DEF SharedStep
  <2>5. CASE ~ \E k \in Catalogue : k.ibc = d
    <3>1. \A e \in Catalogue, h \in Account : PurseOf(e, h)' = PurseOf(e, h)
      BY <1>2, <2>3, <2>5, PursesAre
    <3>2. ParcelsUnderWay' = ParcelsUnderWay
      BY <1>1, <1>5, <2>5, RemoveNoParcel
    <3> QED
      BY <1>6, <3>1, <3>2, NothingIsRead
  <2> QED
    BY <2>4, <2>5
<1> QED
  BY <1>9, <1>10

(* The acknowledgement of a delivered packet is not seen: its parcel has   *)
(* arrived already.                                                        *)
LEMMA AcknowledgedIsRead ==
  ASSUME NEW p \in inflight, p.status = "ok", inflight' = inflight \ {p},
         UNCHANGED <<ledger, remote, donated>>
  PROVE  SharedStep
<1>1. ParcelsUnderWay' = ParcelsUnderWay
  <2>1. \A e \in Catalogue : ~Carries(p, e)
    BY DEF Carries
  <2> QED
    BY <2>1, RemoveNoParcel
<1>2. \A e \in Catalogue, h \in Account : PurseOf(e, h)' = PurseOf(e, h)
  BY DEF PurseOf
<1>3. SharedAbroad' = SharedAbroad
  BY DEF SharedAbroad
<1> QED
  BY <1>1, <1>2, <1>3, NothingIsRead

(* A packet's arrival is its parcel's; a refusal changes nothing yet.       *)
LEMMA DeliverIsRead ==
  ASSUME BridgeInv, PacketsSound, NEW p \in inflight, Deliver(p)
  PROVE  SharedStep
<1>1. PICK st \in {"ok", "error"} :
        /\ inflight' = (inflight \ {p}) \cup {[p EXCEPT !.status = st]}
        /\ st = "error" => remote' = remote
        /\ st = "ok" => remote' = [remote EXCEPT ![p.channel][RemoteName(p.channel, p.denom)]
                                                   = @ + p.amount]
  BY DEF Deliver
<1> DEFINE q == [p EXCEPT !.status = st]
           c == p.channel
           d == p.denom
           x == p.amount
           r == RemoteName(p.channel, p.denom)
<1>2. /\ p \in Packet /\ x \in Nat /\ c \in Channel /\ d \in Denom
      /\ p.status = "sent" /\ BridgeTypeOK /\ donated' = donated /\ ledger' = ledger
  BY TransferAssumption DEF BridgeInv, BridgeTypeOK, Packet, Deliver
<1>3. q.channel = c /\ q.denom = d /\ q.amount = x /\ q.status = st /\ q.seq = p.seq
      /\ q.sender = p.sender
  BY <1>2 DEF Packet
<1>4. \A e \in Catalogue, h \in Account : PurseOf(e, h)' = PurseOf(e, h)
  BY <1>2 DEF PurseOf
<1>5. SharedPurse' = SharedPurse
  BY <1>4, PursesKept
<1>6. \A e \in Catalogue : /\ Carries(p, e) <=> e.ibc = d /\ e.channel = c
                           /\ Carries(q, e) <=> e.ibc = d /\ e.channel = c /\ st # "ok"
                           /\ ParcelOf(e, q) = ParcelOf(e, p)
                           /\ ParcelOf(e, p).coin = e /\ ParcelOf(e, p).amount = x
  BY <1>2, <1>3 DEF Carries, ParcelOf
<1>7. inflight' = (inflight \ {p}) \cup {q}
  BY <1>1
<1>8. st = "ok" => remote' = [remote EXCEPT ![c][r] = @ + x]
  BY <1>1
<1>9. \A e \in Catalogue : Carries(p, e) <=> e.channel = c /\ e.asset = r
  <2>1. CASE d \in VouchersOf(c)
    <3>1. PICK a \in Asset : d = <<c, a>>
      BY <2>1 DEF VouchersOf, Voucher
    <3>2. r = a
      BY <2>1, <3>1 DEF RemoteName, SenderChainIsSource
    <3> QED
      BY <1>6, <3>1, <3>2, CatalogueCoins
  <2>2. CASE d \notin VouchersOf(c)
    <3>1. r = d
      BY <2>2 DEF RemoteName, SenderChainIsSource
    <3>2. \A e \in Catalogue : e.asset # d
      BY <1>2, CatalogueCoins, TransferAssumption
    <3>3. \A e \in Catalogue : ~(e.ibc = d /\ e.channel = c)
      BY <1>2, <2>2, CatalogueCoins
    <3> QED
      BY <1>6, <3>1, <3>2, <3>3
  <2> QED
    BY <2>1, <2>2
<1> HIDE DEF q, c, d, x, r
<1>10. CASE st = "error"
  <2>1. ParcelsUnderWay' = ParcelsUnderWay
    BY <1>6, <1>7, <1>10, RefusedParcels
  <2>2. SharedAbroad' = SharedAbroad
    BY <1>1, <1>10 DEF SharedAbroad
  <2> QED
    BY <1>4, <2>1, <2>2, NothingIsRead
<1>11. CASE st = "ok"
  <2>1. \A e \in Catalogue : remote'[e.channel][e.asset]
          = IF Carries(p, e) THEN remote[e.channel][e.asset] + x ELSE remote[e.channel][e.asset]
    BY <1>2, <1>8, <1>9, <1>11, CatalogueCoins DEF BridgeTypeOK
  <2>2. \A e \in Catalogue : ~Carries(q, e)
    BY <1>6, <1>11
  <2>3. CASE \E k \in Catalogue : Carries(p, k)
    <3>1. PICK k \in Catalogue : Carries(p, k)
      BY <2>3
    <3>2. \A e \in Catalogue : Carries(p, e) <=> e = k
      BY <3>1, CarriesOne
    <3>3. \A e \in Catalogue : remote'[e.channel][e.asset]
            = IF e = k THEN remote[e.channel][e.asset] + x ELSE remote[e.channel][e.asset]
      BY <2>1, <3>2
    <3>4. SharedAbroad' = [SharedAbroad EXCEPT ![k] = @ + x]
      BY <3>3, AbroadMore
    <3> DEFINE parcel == ParcelOf(k, p)
    <3>5. parcel \in ParcelsUnderWay /\ ParcelsUnderWay' = ParcelsUnderWay \ {parcel}
      BY <1>7, <2>2, <3>1, ArrivedParcel
    <3>6. parcel.coin = k /\ parcel.amount = x
      BY <1>6
    <3> HIDE DEF parcel
    <3>7. SharedAbroad' = [SharedAbroad EXCEPT ![parcel.coin] = @ + parcel.amount]
      BY <3>4, <3>6
    <3> QED
      BY <1>5, <3>5, <3>7, ArriveIsRead DEF SharedStep
  <2>4. CASE ~ \E k \in Catalogue : Carries(p, k)
    <3>1. \A e \in Catalogue : remote'[e.channel][e.asset] = remote[e.channel][e.asset]
      BY <2>1, <2>4
    <3>2. SharedAbroad' = SharedAbroad
      BY <3>1, AbroadKept
    <3>3. ParcelsUnderWay' = ParcelsUnderWay
      BY <1>7, <2>2, <2>4, ReplacedNoParcel
    <3> QED
      BY <1>4, <3>2, <3>3, NothingIsRead
  <2> QED
    BY <2>3, <2>4
<1> QED
  BY <1>10, <1>11

(* Without fees, a packet carries an amount that somebody asked to send.    *)
Sized == \A p \in inflight : p.amount \in Amount

(* No step makes a packet of another amount.                                *)
LEMMA AmountsSized == Spec => []Sized
<1>1. Init => Sized
  BY DEF Init, Sized
<1>2. ASSUME Sized, [Next]_vars PROVE Sized'
  <2>1. CASE UNCHANGED inflight
    BY <1>2, <2>1 DEF Sized
  <2>2. ASSUME NEW u, NEW c, NEW d, NEW x \in Amount, EmitPacket(u, c, d, x) PROVE Sized'
    BY <1>2, <2>2 DEF Sized, EmitPacket
  <2>3. CASE PacketStep
    <3>1. PICK p \in inflight : OnTimeoutPacket(p) \/ OnAcknowledgementPacket(p) \/ Deliver(p)
      BY <2>3 DEF PacketStep
    <3>2. inflight' \subseteq inflight \/ \E st : inflight' = (inflight \ {p}) \cup {[p EXCEPT !.status = st]}
      BY <3>1 DEF OnTimeoutPacket, OnAcknowledgementPacket, Refund, Deliver
    <3>3. \A st : [p EXCEPT !.status = st].amount = p.amount
      OBVIOUS
    <3> QED
      BY <1>2, <3>2, <3>3 DEF Sized
  <2>4. CASE UserTx
    BY <2>1, <2>2, <2>4 DEF UserTx, TransferPassedOn, TransferConverted, BankSend
  <2>5. CASE ReceiveTx
    BY <2>1, <2>5 DEF ReceiveTx, OnRecvAsset, OnRecvReturned
  <2> QED
    BY <1>2, <2>1, <2>3, <2>4, <2>5 DEF Next, BridgeStep, RegistryStep, vars, bridgeVars
<1> QED
  BY <1>1, <1>2, PTL DEF Spec

(* Every step of the bridge is one step of SharedLedger, or none; those of *)
(* the registry are none.                                                  *)
LEMMA SharedStepInv ==
  RegistryInv /\ BridgeInv /\ ConservedInv /\ Sized /\ [Next]_vars
    => [Shared!SharedNext]_(Shared!sharedVars)
<1> SUFFICES ASSUME RegistryInv, BridgeInv, ConservedInv, Sized, [Next]_vars PROVE SharedStep
  BY DEF SharedStep
<1>1. PacketsSound
  BY DEF ConservedInv
<1>2. CASE UNCHANGED bridgeVars
  <2>1. /\ \A e \in Catalogue, h \in Account : PurseOf(e, h)' = PurseOf(e, h)
        /\ ParcelsUnderWay' = ParcelsUnderWay
        /\ SharedAbroad' = SharedAbroad
    BY <1>2 DEF bridgeVars, PurseOf, ParcelsUnderWay, ParcelsOf, SharedAbroad
  <2> QED
    BY <2>1, NothingIsRead
<1>3. CASE BridgeStep
  <2>1. CASE UserTx
    BY <1>1, <2>1, TransferPassedOnIsRead, TransferConvertedIsRead, BankSendIsRead DEF UserTx
  <2>2. CASE ReceiveTx
    BY <2>2, OnRecvAssetIsRead, OnRecvReturnedIsRead DEF ReceiveTx
  <2>3. CASE PacketStep
    <3>1. PICK p \in inflight :
            OnTimeoutPacket(p) \/ OnAcknowledgementPacket(p) \/ Deliver(p)
      BY <2>3 DEF PacketStep
    <3>2. CASE p.status # "ok" /\ Refund(p)
      BY <1>1, <3>2, RefundIsRead DEF Sized
    <3>3. CASE /\ p.status = "ok" /\ inflight' = inflight \ {p}
               /\ UNCHANGED <<ledger, nextSeq, remote, donated>>
      BY <3>3, AcknowledgedIsRead
    <3>4. CASE Deliver(p)
      BY <1>1, <3>4, DeliverIsRead
    <3> QED
      BY <3>1, <3>2, <3>3, <3>4 DEF OnTimeoutPacket, OnAcknowledgementPacket
  <2> QED
    BY <1>3, <2>1, <2>2, <2>3 DEF BridgeStep
<1> QED
  BY <1>2, <1>3 DEF Next, RegistryStep, vars, bridgeVars

(* The bridge, with its vouchers, native denominations, escrow accounts    *)
(* and registry, does nothing that SharedLedger does not allow: no coin is *)
(* in two places, none is lost, and each parcel arrives or returns once    *)
(* (ics4wrapper.go, relay.go).                                             *)
THEOREM BridgeImplementsSharedLedger == Spec => ImplementsSharedLedger
<1>1. Init => Shared!SharedInit
  BY SharedInitIsRead
<1>2. RegistryInv /\ BridgeInv /\ ConservedInv /\ Sized /\ [Next]_vars
        => [Shared!SharedNext]_(Shared!sharedVars)
  BY SharedStepInv
<1> QED
  BY <1>1, <1>2, BridgeInvariant, BridgeConserved, AmountsSized, PTL
     DEF Spec, ImplementsSharedLedger, Shared!SharedSpec

-----------------------------------------------------------------------------
(* What an account holds of a coin, if the catalogue has an info for it.    *)
LEMMA HoldingAs ==
  ASSUME NEW L \in Ledger, NEW a \in Account, NEW k \in Catalogue
  PROVE  Holding(L, a, k.ibc) = L.bal[a][k.ibc] + L.bal[a][k.native]
<1> DEFINE f == [e \in Catalogue |-> L.bal[a][e.native]]
<1>1. {e \in Catalogue : e.ibc = k.ibc} = {k}
  BY CatalogueDistinct
<1>2. f[k] = L.bal[a][k.native] /\ f[k] \in Int
  BY CatalogueCoins DEF Ledger
<1>3. Holding(L, a, k.ibc) = L.bal[a][k.ibc] + SumFunctionOnSet(f, {k})
  BY <1>1 DEF Holding
<1> HIDE DEF f
<1>4. SumFunctionOnSet(f, {k}) = f[k]
  BY <1>2, SumSingleton
<1> QED
  BY <1>2, <1>3, <1>4

(* And if it has none.                                                     *)
LEMMA HoldingPlain ==
  ASSUME NEW L \in Ledger, NEW a \in Account, NEW d \in Denom, ~ \E k \in Catalogue : k.ibc = d
  PROVE  Holding(L, a, d) = L.bal[a][d]
<1> DEFINE f == [e \in Catalogue |-> L.bal[a][e.native]]
<1>1. {e \in Catalogue : e.ibc = d} = {}
  OBVIOUS
<1>2. Holding(L, a, d) = L.bal[a][d] + SumFunctionOnSet(f, {})
  BY <1>1 DEF Holding
<1>3. L.bal[a][d] \in Nat
  BY DEF Ledger
<1> HIDE DEF f
<1>4. SumFunctionOnSet(f, {}) = 0
  BY SumEmpty
<1> QED
  BY <1>2, <1>3, <1>4

(* Nobody holds less than nothing.                                          *)
LEMMA HoldingType ==
  ASSUME NEW L \in Ledger, NEW a \in Account, NEW d \in Denom
  PROVE  Holding(L, a, d) \in Nat
<1>1. \A g \in Denom : L.bal[a][g] \in Nat
  BY DEF Ledger
<1>2. CASE \E k \in Catalogue : k.ibc = d
  BY <1>1, <1>2, HoldingAs, CatalogueCoins
<1>3. CASE ~ \E k \in Catalogue : k.ibc = d
  BY <1>1, <1>3, HoldingPlain
<1> QED
  BY <1>2, <1>3

(* Whether a payment in f counts in what an account holds of d.             *)
CountsAs(f, d) == f = d \/ \E e \in Catalogue : e.ibc = d /\ e.native = f

(* A change of y in one of an account's balances changes what it holds of   *)
(* the coins that this balance counts in, and of no other.                  *)
LEMMA HoldingShift ==
  ASSUME NEW L \in Ledger, NEW M \in Ledger, NEW a \in Account, NEW f \in Denom, NEW y \in Int,
         \A g \in Denom : M.bal[a][g] = L.bal[a][g] + (IF g = f THEN y ELSE 0),
         NEW d \in Denom
  PROVE  /\ Holding(L, a, d) \in Int
         /\ Holding(M, a, d) = Holding(L, a, d) + (IF CountsAs(f, d) THEN y ELSE 0)
<1>1. \A g \in Denom : L.bal[a][g] \in Nat
  BY DEF Ledger
<1>2. CASE \E k \in Catalogue : k.ibc = d
  <2>1. PICK k \in Catalogue : k.ibc = d
    BY <1>2
  <2>2. CountsAs(f, d) <=> f = d \/ f = k.native
    BY <2>1, CatalogueDistinct DEF CountsAs
  <2>3. k.native \in Denom /\ k.native # d
    BY <2>1, CatalogueCoins
  <2>4. /\ Holding(L, a, d) = L.bal[a][d] + L.bal[a][k.native]
        /\ Holding(M, a, d) = M.bal[a][d] + M.bal[a][k.native]
    BY <2>1, HoldingAs
  <2> QED
    BY <1>1, <2>2, <2>3, <2>4
<1>3. CASE ~ \E k \in Catalogue : k.ibc = d
  <2>1. /\ Holding(L, a, d) = L.bal[a][d]
        /\ Holding(M, a, d) = M.bal[a][d]
    BY <1>3, HoldingPlain
  <2>2. CountsAs(f, d) <=> f = d
    BY <1>3 DEF CountsAs
  <2> QED
    BY <1>1, <2>1, <2>2
<1> QED
  BY <1>2, <1>3

(* An account whose balances stay holds what it held.                       *)
LEMMA HoldingKept ==
  ASSUME NEW L \in Ledger, NEW M \in Ledger, NEW a \in Account, NEW d \in Denom,
         \A g \in Denom : M.bal[a][g] = L.bal[a][g]
  PROVE  Holding(M, a, d) = Holding(L, a, d)
<1>1. \A g \in Denom : M.bal[a][g] = L.bal[a][g] + (IF g = d THEN 0 ELSE 0)
  BY DEF Ledger
<1>2. /\ Holding(L, a, d) \in Int
      /\ Holding(M, a, d) = Holding(L, a, d) + (IF CountsAs(d, d) THEN 0 ELSE 0)
  BY <1>1, HoldingShift
<1> QED
  BY <1>2

(* A refund pays its sender, in one form or the other, what the packet had. *)
LEMMA RefundPays ==
  ASSUME RegistryInv, BridgeInv, NEW p \in inflight, CanRefund(p)
  PROVE  Holding(Refunded(p), p.sender, p.denom) = Holding(ledger, p.sender, p.denom) + p.amount
<1> DEFINE c == p.channel
           d == p.denom
           x == p.amount
           u == p.sender
           conv == IsRefundConverted(p)
           n == RefundInfo(p).native
           M == Refunded(p)
<1>1. SenderChainIsSource(p.channel, p.denom) =>
        CanSpend(ledger, EscrowAddress(p.channel), p.denom, p.amount)
  BY DEF CanRefund
<1>2. /\ ledger \in Ledger /\ p \in Packet /\ x \in Nat /\ d \in Denom /\ u \in User
      /\ u \in Account /\ u # c
  BY TransferAssumption DEF BridgeInv, BridgeTypeOK, Packet
<1>3. /\ M \in Ledger
      /\ \A b \in Account, f \in Denom : M.bal[b][f] = ledger.bal[b][f]
           - (IF b = c /\ f = d /\ d \notin VouchersOf(c) THEN x ELSE 0)
           + (IF conv THEN (IF b = c /\ f = d THEN x ELSE 0) + (IF b = u /\ f = n THEN x ELSE 0)
                      ELSE (IF b = u /\ f = d THEN x ELSE 0))
  BY <1>1, <1>2, RefundLedger DEF Refunded
<1>4. conv => RefundInfo(p) \in Catalogue /\ RefundInfo(p).ibc = d
  BY <1>2, RefundInfoOfVoucher
<1> HIDE DEF c, d, x, u, conv, n, M
<1>5. \A f \in Denom : /\ ledger.bal[u][f] \in Nat
                       /\ M.bal[u][f]
                            = ledger.bal[u][f] + (IF f = (IF conv THEN n ELSE d) THEN x ELSE 0)
  <2>1. \A f \in Denom : ledger.bal[u][f] \in Nat
    BY <1>2 DEF Ledger
  <2> QED
    BY <1>2, <1>3, <2>1
<1>6. CASE \E k \in Catalogue : k.ibc = d
  <2>1. PICK k \in Catalogue : k.ibc = d
    BY <1>6
  <2>2. conv => n = k.native
    <3>1. conv => RefundInfo(p) = k
      BY <1>4, <2>1, CatalogueDistinct
    <3> QED
      BY <3>1 DEF n
  <2>3. /\ Holding(ledger, u, d) = ledger.bal[u][d] + ledger.bal[u][k.native]
        /\ Holding(M, u, d) = M.bal[u][d] + M.bal[u][k.native]
    BY <1>2, <1>3, <2>1, HoldingAs
  <2>4. k.native \in Denom /\ k.native # d
    BY <2>1, CatalogueCoins
  <2>5. Holding(M, u, d) = Holding(ledger, u, d) + x
    BY <1>2, <1>5, <2>2, <2>3, <2>4
  <2> QED
    BY <2>5 DEF u, d, x, M
<1>7. CASE ~ \E k \in Catalogue : k.ibc = d
  <2>1. /\ Holding(ledger, u, d) = ledger.bal[u][d]
        /\ Holding(M, u, d) = M.bal[u][d]
    BY <1>2, <1>3, <1>7, HoldingPlain
  <2>2. ~conv
    BY <1>4, <1>7
  <2>3. Holding(M, u, d) = Holding(ledger, u, d) + x
    BY <1>2, <1>5, <2>1, <2>2
  <2> QED
    BY <2>3 DEF u, d, x, M
<1> QED
  BY <1>6, <1>7

(* A refused or timed out packet pays back its sender, in one form of the  *)
(* coin or the other and no more than it had (RefundsReachSender;          *)
(* refundToken).                                                           *)
THEOREM RefundsPaid == Spec => RefundsReachSender
<1> DEFINE Paid == \A p \in inflight \ inflight' :
              \/ \E q \in inflight' : q.channel = p.channel /\ q.seq = p.seq
              \/ p.status = "ok" /\ ledger' = ledger
              \/ Holding(ledger', p.sender, p.denom)
                   = Holding(ledger, p.sender, p.denom) + p.amount
<1>1. ASSUME RegistryInv, BridgeInv, [Next]_vars PROVE [Paid]_vars
  <2> SUFFICES ASSUME NEW p \in inflight, p \notin inflight'
               PROVE  \/ \E q \in inflight' : q.channel = p.channel /\ q.seq = p.seq
                      \/ p.status = "ok" /\ ledger' = ledger
                      \/ Holding(ledger', p.sender, p.denom)
                           = Holding(ledger, p.sender, p.denom) + p.amount
    OBVIOUS
  <2>1. PacketStep
    BY <1>1 DEF Next, BridgeStep, RegistryStep, bridgeVars, vars, UserTx, TransferPassedOn,
                TransferConverted, BankSend, EmitPacket, ReceiveTx, OnRecvAsset, OnRecvReturned
  <2>2. PICK s \in inflight : OnTimeoutPacket(s) \/ OnAcknowledgementPacket(s) \/ Deliver(s)
    BY <2>1 DEF PacketStep
  <2>3. s = p
    BY <2>2 DEF OnTimeoutPacket, OnAcknowledgementPacket, Refund, Deliver
  <2>4. CASE Refund(p)
    BY <1>1, <2>4, RefundPays DEF Refund, Refunded
  <2>5. CASE p.status = "ok" /\ ledger' = ledger
    BY <2>5
  <2>6. CASE Deliver(p)
    <3>1. PICK st : inflight' = (inflight \ {p}) \cup {[p EXCEPT !.status = st]}
      BY <2>6 DEF Deliver
    <3>2. p \in Packet
      BY <1>1 DEF BridgeInv, BridgeTypeOK
    <3>3. [p EXCEPT !.status = st].channel = p.channel /\ [p EXCEPT !.status = st].seq = p.seq
      BY <3>2 DEF Packet
    <3> QED
      BY <3>1, <3>3
  <2> QED
    BY <2>2, <2>3, <2>4, <2>5, <2>6 DEF OnTimeoutPacket, OnAcknowledgementPacket
<1> QED
  BY <1>1, BridgeInvariant, PTL DEF Spec, RefundsReachSender
=============================================================================
