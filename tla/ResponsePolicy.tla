--------------------------- MODULE ResponsePolicy ---------------------------
(***************************************************************************)
(* The pure decisions of the response path: which actions a threat score   *)
(* calls for, in which order, and whether the default alert rule matches   *)
(* it.  No state.                                                          *)
(***************************************************************************)
EXTENDS Naturals, Sequences

Scores == 0 .. 100

\* Actions that insert an iptables rule.
FirewallActions == {"slow", "redirect", "isolate", "block"}

\* Actions with an effect outside the process: rules, notices, captures.
HostActions == FirewallActions \cup {"alert", "forensic_capture"}

Actions == HostActions \cup {"log"}

\* Mutation: the alert goes out before the attacker is isolated.
decide_alert_first(score) ==
  IF score < 40 THEN << "log" >>
  ELSE IF score < 70 THEN << "slow", "redirect" >>
  ELSE IF score < 90 THEN << "alert", "isolate" >>
  ELSE << "block", "alert", "forensic_capture" >>

\* The ordered actions for a score (response/engine.py, decide).
decide(score) ==
  IF score < 40 THEN << "log" >>
  ELSE IF score < 70 THEN << "slow", "redirect" >>
  ELSE IF score < 90 THEN << "isolate", "alert" >>
  ELSE << "block", "alert", "forensic_capture" >>

\* The actions of a score as a set.
Called(score) == { decide(score)[i] : i \in DOMAIN decide(score) }

\* DEFAULT_RULES has one rule, any attack type, any severity, min_score 70.
AlertMinScore == 70

\* AlertRule.matches for the default rule and the severity "high" that the
\* engine always passes.
matches(score) == score >= AlertMinScore
=============================================================================
