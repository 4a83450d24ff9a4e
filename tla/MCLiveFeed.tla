----------------------------- MODULE MCLiveFeed -----------------------------
(***************************************************************************)
(* LiveFeed for TLC: batches of two rows at most, so that three rows take  *)
(* two polls and a client can come or go between any two sends.            *)
(***************************************************************************)
EXTENDS LiveFeed

CONSTANTS ws1, ws2

TwoConnections == {ws1, ws2}
=============================================================================
