---------------------------- MODULE MCLifecycle -----------------------------
(***************************************************************************)
(* Lifecycle for TLC: a template of one server and one of two that wants   *)
(* the same port as the first, with different times to live.               *)
(***************************************************************************)
EXTENDS Lifecycle, TLC

CONSTANTS e1, e2

MCServicesOf == ("beginner" :> {"ssh"}) @@ ("bot" :> {"ssh", "telnet"})
MCTtlOf == ("beginner" :> 2) @@ ("bot" :> 1)
=============================================================================
