----------------------------- MODULE MCRateLimit -----------------------------
(***************************************************************************)
(* Rate limits on a small instance: a voucher and the native denomination  *)
(* it may be registered for, over one channel, or over two of which one's  *)
(* identifier is a prefix of the other's ("channel-1" and "channel-10").   *)
(***************************************************************************)
EXTENDS RateLimit

CONSTANTS c1, c10, n1, v1, anyone, trusted

MCInfo == {i \in {[native |-> n1, ibc |-> v1, channel |-> c1]} : i.native \in Denom}
MCQuota == {[send |-> 50, recv |-> 50, hours |-> 1, min |-> 1]}
MCTwoQuotas ==
  {[send |-> 50, recv |-> 50, hours |-> 2, min |-> 1],
   [send |-> 50, recv |-> 50, hours |-> 1, min |-> 2]}
MCExtending == [c \in Channel |-> IF c = c1 THEN {c1, c10} \cap Channel ELSE {c}]
MCMaxSeq == [c \in Channel |-> IF c = c1 THEN 2 ELSE 1]
MCGoverned == {<<n1, c1>>, <<v1, c1>>, <<v1, c10>>} \cap Path
=============================================================================
