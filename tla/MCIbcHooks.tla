----------------------------- MODULE MCIbcHooks -----------------------------
(***************************************************************************)
(* Hooks on a small instance: one asset bridged over c1, and c2; a         *)
(* contract, which sends and receives as a user would, and the             *)
(* intermediary of one sender.                                             *)
(***************************************************************************)
EXTENDS IbcHooks

CONSTANTS n1, pica, c1, c2, k1, i1

MCIbc == Channel \X Asset
MCDenom == Native \cup Ibc
MCAccount == User \cup Channel
MCCatalogue == {[ibc |-> Voucher(c1, pica), channel |-> c1, native |-> n1, asset |-> pica]}
MCGenesisBalance == [u \in User |-> [n \in Native |-> 0]]
MCGenesisSupply == [n \in Native |-> 0]
MCRemoteSupply == [c \in Channel |-> [a \in Asset |-> IF c = c1 THEN 2 ELSE 0]]
MCNotice == {-1}
MCElapsed == {1}
MCMaxSeq == [c \in Channel |-> IF c = c1 THEN 2 ELSE 1]
MCIntermediary == [c \in Channel |-> IF c = c1 THEN {i1} ELSE {}]
=============================================================================
