------------------------- MODULE ParachainRegistry -------------------------
(***************************************************************************)
(* The parachain token registry of x/transfermiddleware: which voucher of  *)
(* which channel is converted into which native denomination.              *)
(*                                                                         *)
(* The module keeps one token info under two keys (native denomination and *)
(* asset id) and a third key from the voucher to the native denomination.  *)
(* Governance adds an info at once and removes it after a notice period:   *)
(* the removal is queued in a remove list that every block's BeginBlocker  *)
(* scans.  The three keys and the list are the state.  Times are relative   *)
(* to the block time, which only moves on: the list holds the time that is  *)
(* left until a removal.                                                    *)
(*                                                                         *)
(* A key the store does not have reads as the zero value of its type (an   *)
(* empty string, an info with empty fields), as the Go getters return it;  *)
(* Empty is the empty string.                                              *)
(***************************************************************************)
EXTENDS Integers

CONSTANTS
  Native,      \* denominations minted on this chain
  Ibc,         \* voucher denominations ("ibc/...")
  Asset,       \* asset ids: the base denominations on the counterparty
  Channel,     \* channel identifiers
  Relayer,     \* addresses that may be put on the relayer allow list
  Catalogue,   \* the token infos governance may register
  Notice,      \* the values the Duration parameter may have
  Elapsed,     \* the times that may pass from one block to the next
  Empty        \* the empty string

TokenInfo == [ibc: Ibc, channel: Channel, native: Native, asset: Asset]

ASSUME RegistryAssumption ==
  /\ Catalogue \subseteq TokenInfo
  /\ Empty \notin Native \cup Ibc \cup Asset \cup Channel
  /\ Notice \subseteq Int
  /\ Elapsed \subseteq Nat \ {0}

VARIABLES
  infoByNative,   \* 0x01: native denomination -> token info
  infoByAsset,    \* 0x02: asset id -> token info
  nativeByIbc,    \* 0x03: voucher -> native denomination
  allowedRelayer, \* 0x04: relayers that may submit wasm client headers
  removeList      \* 0x05: native denomination -> time left to its removal (none or one)

registryVars == <<infoByNative, infoByAsset, nativeByIbc, allowedRelayer, removeList>>

-----------------------------------------------------------------------------
EmptyInfo == [ibc |-> Empty, channel |-> Empty, native |-> Empty, asset |-> Empty]

(* GetParachainIBCTokenInfoByNativeDenom and ...ByAssetID on a key that may *)
(* be the empty string, which no key of the store is.                       *)
InfoOfNative(n) == IF n \in Native THEN infoByNative[n] ELSE EmptyInfo
InfoOfAsset(a) == IF a \in Asset THEN infoByAsset[a] ELSE EmptyInfo
NativeOfIbc(v) == IF v \in Ibc THEN nativeByIbc[v] ELSE Empty

HasNative(n) == infoByNative[n] # EmptyInfo

RegistryInit ==
  /\ infoByNative = [n \in Native |-> EmptyInfo]
  /\ infoByAsset = [a \in Asset |-> EmptyInfo]
  /\ nativeByIbc = [v \in Ibc |-> Empty]
  /\ allowedRelayer = {}
  /\ removeList = [n \in Native |-> {}]

(* The tests of AddParachainIBCInfo: none of the three keys is taken.       *)
KeysFree(info) ==
  /\ infoByAsset[info.asset] = EmptyInfo
  /\ nativeByIbc[info.ibc] = Empty
  /\ infoByNative[info.native] = EmptyInfo

AddParachainIBCInfo(info) ==
  /\ KeysFree(info)
  /\ infoByNative' = [infoByNative EXCEPT ![info.native] = info]
  /\ infoByAsset' = [infoByAsset EXCEPT ![info.asset] = info]
  /\ nativeByIbc' = [nativeByIbc EXCEPT ![info.ibc] = info.native]
  /\ UNCHANGED <<allowedRelayer, removeList>>

(* A mutation of AddParachainIBCInfoToRemoveList: it keeps the older times. *)
AddToRemoveListOnce(n, duration) ==
  /\ HasNative(n)
  /\ removeList' = [removeList EXCEPT ![n] = @ \cup {duration}]
  /\ UNCHANGED <<infoByNative, infoByAsset, nativeByIbc, allowedRelayer>>

(* A second request for the same denomination replaces the first one's      *)
(* time, as the store's Set does.                                           *)
AddParachainIBCInfoToRemoveList(n, duration) ==
  /\ HasNative(n)
  /\ removeList' = [removeList EXCEPT ![n] = {duration}]
  /\ UNCHANGED <<infoByNative, infoByAsset, nativeByIbc, allowedRelayer>>

AddRlyAddress(r) ==
  /\ r \notin allowedRelayer
  /\ allowedRelayer' = allowedRelayer \cup {r}
  /\ UNCHANGED <<infoByNative, infoByAsset, nativeByIbc, removeList>>

-----------------------------------------------------------------------------
(* A mutation of RemoveParachainIBCInfo: the asset key is left behind.      *)
RemoveParachainIBCInfoButAsset(S) ==
  /\ infoByNative' = [n \in Native |-> IF n \in S THEN EmptyInfo ELSE infoByNative[n]]
  /\ UNCHANGED infoByAsset
  /\ nativeByIbc' = [v \in Ibc |->
       IF \E n \in S : infoByNative[n].ibc = v THEN Empty ELSE nativeByIbc[v]]

(* RemoveParachainIBCInfo for every denomination of S: each of the three    *)
(* keys of each info goes; the remove list is not touched.                  *)
RemoveParachainIBCInfo(S) ==
  /\ infoByNative' = [n \in Native |-> IF n \in S THEN EmptyInfo ELSE infoByNative[n]]
  /\ infoByAsset' = [a \in Asset |->
       IF \E n \in S : infoByNative[n].asset = a THEN EmptyInfo ELSE infoByAsset[a]]
  /\ nativeByIbc' = [v \in Ibc |->
       IF \E n \in S : infoByNative[n].ibc = v THEN Empty ELSE nativeByIbc[v]]

(* A mutation of Expired: the comparison is the wrong way round.            *)
ExpiredReversed(dt) == {n \in Native : HasNative(n) /\ \E r \in removeList[n] : r > dt}

(* The denominations whose removal time a block passes that comes dt after  *)
(* its predecessor; an entry whose info is gone already makes               *)
(* RemoveParachainIBCInfo fail, and BeginBlocker ignores that.              *)
Expired(dt) == {n \in Native : HasNative(n) /\ \E r \in removeList[n] : dt > r}

(* What is left of a time after dt; all that has passed is the same.        *)
Remaining(r, dt) == IF r >= dt THEN r - dt ELSE -1

(* A new block comes some time after its predecessor, and BeginBlocker runs *)
(* before its transactions.  It deletes no entry of the list.               *)
BeginBlocker(dt) ==
  /\ RemoveParachainIBCInfo(Expired(dt))
  /\ removeList' = [n \in Native |-> {Remaining(r, dt) : r \in removeList[n]}]
  /\ UNCHANGED allowedRelayer

(* The chain is exported and started again from the file: ExportGenesis     *)
(* takes the infos from the asset keys, InitGenesis adds each of them to an *)
(* empty store.  The remove list and the allow list are not exported.       *)
ExportGenesis == {infoByAsset[a] : a \in Asset} \ {EmptyInfo}

InitGenesis(infos) ==
  /\ infoByNative' = [n \in Native |->
       IF \E i \in infos : i.native = n THEN CHOOSE i \in infos : i.native = n ELSE EmptyInfo]
  /\ infoByAsset' = [a \in Asset |->
       IF \E i \in infos : i.asset = a THEN CHOOSE i \in infos : i.asset = a ELSE EmptyInfo]
  /\ nativeByIbc' = [v \in Ibc |->
       IF \E i \in infos : i.ibc = v THEN (CHOOSE i \in infos : i.ibc = v).native ELSE Empty]
  /\ removeList' = [n \in Native |-> {}]
  /\ allowedRelayer' = {}

RestartFromGenesis == InitGenesis(ExportGenesis)

-----------------------------------------------------------------------------
GovernanceTx ==
  \/ \E info \in Catalogue : AddParachainIBCInfo(info)
  \/ \E n \in Native, d \in Notice : AddParachainIBCInfoToRemoveList(n, d)
  \/ \E r \in Relayer : AddRlyAddress(r)

NewBlock == \E dt \in Elapsed : BeginBlocker(dt)

RegistryNext == GovernanceTx \/ NewBlock \/ RestartFromGenesis

RegistrySpec == RegistryInit /\ [][RegistryNext]_registryVars

(* Blocks keep coming: consensus is outside the program, and it is what     *)
(* calls BeginBlocker.                                                      *)
FairRegistrySpec == RegistrySpec /\ WF_registryVars(NewBlock)

-----------------------------------------------------------------------------
(* The keys hold catalogue infos, denominations and times.                  *)
RegistryTypeOK ==
  /\ infoByNative \in [Native -> Catalogue \cup {EmptyInfo}]
  /\ infoByAsset \in [Asset -> Catalogue \cup {EmptyInfo}]
  /\ nativeByIbc \in [Ibc -> Native \cup {Empty}]
  /\ allowedRelayer \subseteq Relayer
  /\ removeList \in [Native -> SUBSET Int]
  /\ \A n \in Native : \A r, s \in removeList[n] : r = s

(* The three keys of the store always describe the same set of infos: the   *)
(* info under a native denomination is the info under its asset id, its     *)
(* voucher leads back to it, and no asset or voucher key is left over.      *)
(* SendPacket goes by the first key, OnRecvPacket by the second and third,  *)
(* refundToken by the third and first (keeper.go, relay.go, ics4wrapper.go):*)
(* a disagreement converts a token one way and not back.                    *)
IndexAgreement ==
  /\ \A n \in Native : HasNative(n) =>
       /\ infoByNative[n].native = n
       /\ infoByAsset[infoByNative[n].asset] = infoByNative[n]
       /\ nativeByIbc[infoByNative[n].ibc] = n
  /\ \A a \in Asset : infoByAsset[a] # EmptyInfo =>
       /\ infoByAsset[a].asset = a
       /\ infoByNative[infoByAsset[a].native] = infoByAsset[a]
  /\ \A v \in Ibc : nativeByIbc[v] # Empty =>
       infoByNative[nativeByIbc[v]].ibc = v

(* An info never goes away, and is never exchanged for another one, before  *)
(* a removal time recorded for its denomination has passed: not by a new    *)
(* registration, not by another denomination's removal sharing a key with   *)
(* it, not by a restart from an exported genesis (abci.go, genesis.go).     *)
InfoKeptUntilNotice ==
  [][\A n \in Native : HasNative(n) /\ infoByNative'[n] # infoByNative[n] =>
       /\ infoByNative'[n] = EmptyInfo
       /\ \E r \in removeList'[n] : r < 0]_registryVars

(* Governance asks for the removal of n no more: only blocks change its     *)
(* entry, unless a restart from an exported genesis drops it.               *)
RequestsEnd(n) ==
  <>[][NewBlock \/ RestartFromGenesis \/ removeList'[n] = removeList[n]]_registryVars

(* A queued removal happens, whatever is added or removed in the meantime   *)
(* and whatever else is queued, unless the queue is dropped or the removal  *)
(* is asked for again and again: each request starts the notice anew        *)
(* (AddParachainIBCInfoToRemoveList in keeper.go, abci.go).                 *)
QueuedRemovalHappens ==
  \A n \in Native :
    RequestsEnd(n) =>
      ((HasNative(n) /\ removeList[n] # {}) ~> (~HasNative(n) \/ removeList[n] = {}))

(* What parachain_token_info.proto says of remove_time, "the time at which  *)
(* the parachain token info will be removed": an info is removed by the     *)
(* first block after its remove_time, and by no later one.                  *)
RemovedAtRemoveTime ==
  [][\A n \in Native : HasNative(n) /\ infoByNative'[n] = EmptyInfo =>
       \E r \in removeList[n] : r >= 0]_registryVars

=============================================================================
