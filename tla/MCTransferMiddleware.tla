----------------------- MODULE MCTransferMiddleware -----------------------
(***************************************************************************)
(* The bridge on a small instance: two channels, one native denomination   *)
(* per channel's voucher, one user.  The two infos compete for the asset's *)
(* key, so that at most one is registered.  Two coins may come over c1,    *)
(* beside one native coin of genesis that no voucher backs; two packets    *)
(* may leave over c2, which is not where any of these coins comes from.    *)
(***************************************************************************)
EXTENDS TransferMiddleware

CONSTANTS n1, n2, pica, c1, c2, u1

MCIbc == Channel \X Asset
MCDenom == Native \cup Ibc
MCAccount == User \cup Channel

MCCatalogue ==
  {[ibc |-> Voucher(c1, pica), channel |-> c1, native |-> n1, asset |-> pica],
   [ibc |-> Voucher(c2, pica), channel |-> c2, native |-> n2, asset |-> pica]}

MCGenesisBalance == [u \in User |-> [n \in Native |-> IF n = n1 THEN 1 ELSE 0]]
MCGenesisSupply == [n \in Native |-> IF n = n1 THEN 1 ELSE 0]
MCRemoteSupply == [c \in Channel |-> [a \in Asset |-> IF c = c1 THEN 2 ELSE 0]]
MCNotice == {0}
MCElapsed == {1}
MCMaxSeq == [c \in Channel |-> IF c = c1 THEN 1 ELSE 2]
=============================================================================
