------------------------ MODULE MCParachainRegistry ------------------------
(***************************************************************************)
(* The registry on a small instance: two native denominations, two         *)
(* vouchers, two asset ids on two channels, and a catalogue in which infos *)
(* compete for each of the three keys.                                     *)
(***************************************************************************)
EXTENDS ParachainRegistry

CONSTANTS n1, n2, v1, v2, a1, a2, c1, c2

MCCatalogue == {
  [ibc |-> v1, channel |-> c1, native |-> n1, asset |-> a1],
  [ibc |-> v2, channel |-> c2, native |-> n2, asset |-> a2],
  [ibc |-> v2, channel |-> c2, native |-> n1, asset |-> a2],
  [ibc |-> v1, channel |-> c1, native |-> n2, asset |-> a2]}

MCNotice == {0, 2}
MCElapsed == {1, 2}
=============================================================================
