----------------------------- MODULE MCPipeline -----------------------------
(***************************************************************************)
(* Pipeline for TLC: two threads, which is what a race takes, and lines    *)
(* that are stored, passed over and die of.                                *)
(***************************************************************************)
EXTENDS Pipeline

Plain == [form |-> "object", src |-> "valid", ts |-> "valid", fields |-> "valid",
          event |-> "session.connect", tool |-> NoTool]

Banner == [Plain EXCEPT !.event = "client.version", !.tool = "brute_forcer"]
Untimed == [Plain EXCEPT !.ts = "bad"]
Anonymous == [Plain EXCEPT !.src = "none"]

TwoCollectors == {"cowrie", "zeek-http"}

FewInputs ==
  [c \in TwoCollectors |->
     IF c = "cowrie" THEN {Banner, Untimed} ELSE {Untimed, Anonymous}]

FewLines == [c \in TwoCollectors |-> IF c = "cowrie" THEN 2 ELSE 1]
=============================================================================
