---------------------------- MODULE MCDashboard -----------------------------
(***************************************************************************)
(* Dashboard for TLC: limits small enough for rows to fall out of them.    *)
(***************************************************************************)
EXTENDS Dashboard

TwoPolls == {"poll1", "poll2"}
=============================================================================
