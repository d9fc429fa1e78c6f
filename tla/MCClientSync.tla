---------------------------- MODULE MCClientSync ----------------------------
(* Small instances of ClientSync.                                          *)
EXTENDS ClientSync, TLC

CONSTANTS card, edge

\* The one edge is attached to the one card.
AtC == edge :> card
=============================================================================
