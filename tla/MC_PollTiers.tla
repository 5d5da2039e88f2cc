---------------------------- MODULE MC_PollTiers ----------------------------
(***************************************************************************)
(* Instances of PollTiers for TLC.  One item per tier is enough for every  *)
(* race: items of one tier are fetched independently and stored together.  *)
(***************************************************************************)
EXTENDS PollTiers

CONSTANTS adblock, service, a1, a2

=============================================================================
