----------------------------- MODULE MCChannelFee -----------------------------
(***************************************************************************)
(* Fees on a small instance: one asset bridged over c1, and c2, whose      *)
(* packets share sequences with those of c1; a user, and a fee address     *)
(* that may spend what it received.                                        *)
(***************************************************************************)
EXTENDS ChannelFee

CONSTANTS n1, pica, c1, c2, u1, f1

MCIbc == Channel \X Asset
MCDenom == Native \cup Ibc
MCAccount == User \cup Channel
MCCatalogue == {[ibc |-> Voucher(c1, pica), channel |-> c1, native |-> n1, asset |-> pica]}
MCGenesisBalance == [u \in User |-> [n \in Native |-> 0]]
MCGenesisSupply == [n \in Native |-> 0]
MCRemoteSupply == [c \in Channel |-> [a \in Asset |-> IF c = c1 THEN 3 ELSE 0]]
MCNotice == {-1}
MCElapsed == {1}
MCMaxSeq == [c \in Channel |-> 1]

MCShare == [minFee |-> 0, priorityFee |-> 2, percentage |-> 2]
MCFlat == [minFee |-> 1, priorityFee |-> 0, percentage |-> 0]
MCTerms == {MCShare, MCFlat}

MCConfig(tokens) == [feeAddress |-> f1, allowedTokens |-> tokens]
MCBothCoins == [d \in Denom |-> CASE d = n1 -> MCFlat
                                  [] d = Voucher(c1, pica) -> MCShare
                                  [] OTHER -> NoFee]
MCListing == {[channel |-> c2, denom |-> n1, terms |-> MCShare]}
MCFeeParams == {[c \in Channel |-> IF c = c1 THEN MCConfig(MCBothCoins) ELSE NoFee]}
=============================================================================
