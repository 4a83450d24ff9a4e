----------------------------- MODULE MCBehavior -----------------------------
(***************************************************************************)
(* Behavior for TLC: two attackers, one of them with two sessions, the     *)
(* first of which lacks its start; sessions that score little, enough for  *)
(* an isolation, and as much as there is.                                  *)
(***************************************************************************)
EXTENDS Behavior

CONSTANTS s1, s2, s3, ip1, ip2

MCIpOf == [s \in Sessions |-> IF s = s3 THEN ip2 ELSE ip1]
MCStartOf == [s \in Sessions |-> IF s = s1 THEN 0 ELSE IF s = s2 THEN 2 ELSE 1]
MCEndOf == [s \in Sessions |-> IF s = s1 THEN 3 ELSE IF s = s2 THEN 0 ELSE 4]

Look ==
  [commands |-> {[techniques |-> {"T1082"}, marks |-> {}]},
   login_success |-> FALSE, downloads |-> FALSE, tcpip_requests |-> FALSE]

Fetch ==
  [commands |-> {[techniques |-> {"T1105", "T1222.002"}, marks |-> {"transfer", "execution"}],
                 [techniques |-> {"T1053.003"}, marks |-> {"crontab"}]},
   login_success |-> TRUE, downloads |-> TRUE, tcpip_requests |-> FALSE]

Everything ==
  [commands |-> {[techniques |-> Techniques, marks |-> Marks]},
   login_success |-> TRUE, downloads |-> TRUE, tcpip_requests |-> TRUE]

MCContentsOf ==
  [s \in Sessions |-> IF s = s1 THEN {Look, Everything}
                      ELSE IF s = s2 THEN {Fetch} ELSE {Look, Fetch}]

MCModelAnswers ==
  {[intent |-> "Reconnaissance", conf |-> 0], [intent |-> "Lateral Movement", conf |-> 100]}
=============================================================================
