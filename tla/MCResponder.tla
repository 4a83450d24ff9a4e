----------------------------- MODULE MCResponder ----------------------------
(***************************************************************************)
(* Instances of Responder for TLC: two attackers of one session each, or   *)
(* one attacker of two.  The scores make the verdict depend on how much of *)
(* the session was seen and on the classifier, and between them call for   *)
(* every band.                                                             *)
(***************************************************************************)
EXTENDS Responder, TLC

CONSTANTS s1, s2, ip1, ip2, trained, heuristic

MCTwoAttackers == (s1 :> ip1) @@ (s2 :> ip2)
MCOneAttacker == [s \in Sessions |-> ip1]

\* s2 is isolated when all of it is seen, or blocked by a trained classifier;
\* s1 is redirected, or by a trained classifier isolated; an empty session,
\* and a part of s2, are only logged.
MCScores ==
  [m \in Models |-> [s \in Sessions |-> [seen \in SUBSET EventNrs |->
     CASE seen = {} \/ (seen # EventNrs /\ s = s2)        -> 8
       [] seen = EventNrs /\ s = s2 /\ m = trained        -> 90
       [] seen = EventNrs /\ s = s2 /\ m = heuristic      -> 75
       [] seen = EventNrs /\ s = s1 /\ m = trained        -> 75
       [] seen # {} /\ s = s1 /\ ~(seen = EventNrs /\ m = trained) -> 55]]]
=============================================================================
