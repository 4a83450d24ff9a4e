------------------------------ MODULE Scoring -------------------------------
(***************************************************************************)
(* From a parsed session to its band (behavior/classifier.py, mitre.py,    *)
(* ttp_extractor.py, threat_score.py), and the copies of the band          *)
(* thresholds elsewhere in the program.  No state.                         *)
(*                                                                         *)
(* A command line is represented by what the code's tests make of it: the  *)
(* techniques whose rule it matches and the marks the other tests look     *)
(* for (what the end of a line and the start of the next make together is  *)
(* taken as the next one's).  Python's decimals are integers here: risks, weights and           *)
(* confidences in hundredths, components in ten-thousandths and the        *)
(* composite in millionths, which makes the sums exact.                    *)
(***************************************************************************)
EXTENDS ResponsePolicy, FiniteSets

Intents == {"Reconnaissance", "Credential Harvesting", "Malware Deployment",
            "Lateral Movement", "Cryptomining", "Bot Enrollment"}

\* The techniques RULES knows, by weight.
Techniques20 == {"T1082", "T1033", "T1057", "T1016"}
Techniques45 == {"T1046", "T1222.002"}
Techniques50 == {"T1105", "T1140"}
Techniques55 == {"T1059.004", "T1070.003"}
Techniques60 == {"T1136.001", "T1562.004", "T1095"}
Techniques70 == {"T1053.003", "T1098.004", "T1021.004", "T1485"}
Techniques75 == {"T1552.001", "T1552.004"}

Techniques ==
  Techniques20 \cup Techniques45 \cup Techniques50 \cup Techniques55
    \cup Techniques60 \cup Techniques70 \cup Techniques75
    \cup {"T1003.008", "T1496"}

weight(technique) ==
  IF technique \in Techniques20 THEN 20
  ELSE IF technique \in Techniques45 THEN 45
  ELSE IF technique \in Techniques50 THEN 50
  ELSE IF technique \in Techniques55 THEN 55
  ELSE IF technique \in Techniques60 THEN 60
  ELSE IF technique \in Techniques70 THEN 70
  ELSE IF technique \in Techniques75 THEN 75
  ELSE IF technique = "T1003.008" THEN 80
  ELSE 85

\* What the other tests look for in a line.
Marks == {"miner", "transfer", "crontab", "rc.local", "authorized_keys",
          "sensitive path", "secret word", "ssh or scp", "execution"}

\* The tests overlap: what one of them finds, others find too.
Command ==
  {command \in [techniques : SUBSET Techniques, marks : SUBSET Marks] :
     /\ "transfer" \in command.marks => "T1105" \in command.techniques
     /\ "crontab" \in command.marks => "T1053.003" \in command.techniques
     /\ "authorized_keys" \in command.marks =>
          /\ "T1098.004" \in command.techniques
          /\ "sensitive path" \in command.marks}

\* What parse_sessions collects, as far as intent and score depend on it.
Session == [commands : SUBSET Command, login_success : BOOLEAN,
            downloads : BOOLEAN, tcpip_requests : BOOLEAN]

Marked(session, mark) == \E command \in session.commands : mark \in command.marks

\* extract_ttps, without the optional fuzzy pass: every confidence is 1.
extract_ttps(session) == UNION {command.techniques : command \in session.commands}
-----------------------------------------------------------------------------
(* The intent. *)

Predictions == [intent : Intents, conf : 0 .. 100]

has_dl(session) == session.downloads \/ Marked(session, "transfer")

persistence(session) ==
  \E mark \in {"crontab", "rc.local", "authorized_keys"} : Marked(session, mark)

secrets(session) == Marked(session, "sensitive path") \/ Marked(session, "secret word")

lateral(session) == Marked(session, "ssh or scp") \/ session.tcpip_requests

\* The rules that classify when there is no trained model.
heuristic_intent(session) ==
  IF Marked(session, "miner") THEN [intent |-> "Cryptomining", conf |-> 80]
  ELSE IF persistence(session) /\ has_dl(session)
  THEN [intent |-> "Bot Enrollment", conf |-> 70]
  ELSE IF has_dl(session) /\ Marked(session, "execution")
  THEN [intent |-> "Malware Deployment", conf |-> 75]
  ELSE IF secrets(session) THEN [intent |-> "Credential Harvesting", conf |-> 70]
  ELSE IF lateral(session) THEN [intent |-> "Lateral Movement", conf |-> 65]
  ELSE [intent |-> "Reconnaissance", conf |-> 55]
-----------------------------------------------------------------------------
(* The score. *)

INTENT_RISK(intent) ==
  IF intent = "Reconnaissance" THEN 20
  ELSE IF intent = "Credential Harvesting" THEN 75
  ELSE IF intent = "Lateral Movement" THEN 85
  ELSE IF intent = "Cryptomining" THEN 70
  ELSE 80

AtLeast(n, low) == IF n < low THEN low ELSE n
AtMost(n, high) == IF n > high THEN high ELSE n

\* The risk of the intent, in ten-thousandths.
intent_risk(prediction) ==
  INTENT_RISK(prediction.intent) * AtLeast(prediction.conf, 50)

\* The weight of the severest technique, 0 if there is none.
strongest(ttps) ==
  IF ttps = {} THEN 0
  ELSE CHOOSE w \in {weight(t) : t \in ttps} : \A t \in ttps : weight(t) <= w

\* Mutation: the number of techniques is not capped.
breadth_uncapped(ttps) == 375 * Cardinality(ttps)

\* The bonus for several techniques, 0.3 times a share of eight.
breadth(ttps) == 375 * AtMost(Cardinality(ttps), 8)

ttp_component(ttps) ==
  IF ttps = {} THEN 0 ELSE AtMost(70 * strongest(ttps) + breadth(ttps), 10000)

\* hundredths if the condition holds.
Points(cond, hundredths) == IF cond THEN hundredths ELSE 0

behavior_component(session) ==
  AtMost(Points(session.login_success, 30)
           + Points(session.downloads, 25)
           + Points(Marked(session, "sensitive path"), 25)
           + Points(Marked(session, "crontab") \/ Marked(session, "authorized_keys"), 20)
           + Points(session.tcpip_requests, 15),
         100)

composite(session, prediction, ttps) ==
  40 * intent_risk(prediction) + 35 * ttp_component(ttps)
    + 2500 * behavior_component(session)

\* int(round(x * 100)): a floating-point sum at the half may fall to either side.
Rounded(millionths) ==
  {n \in Scores : /\ millionths <= 10000 * n + 5000
                  /\ 10000 * n <= millionths + 5000}

\* The scores score_session may return.
score_session(session, prediction, ttps) ==
  Rounded(AtMost(composite(session, prediction, ttps), 1000000))
-----------------------------------------------------------------------------
(* The thresholds, written out four times: here and in decide. *)

Bands == {"log", "slow_redirect", "isolate", "block"}

\* Mutation: a threshold is exclusive, as the documents have it.
band_above_90(score) ==
  IF score < 40 THEN "log"
  ELSE IF score < 70 THEN "slow_redirect"
  ELSE IF score <= 90 THEN "isolate"
  ELSE "block"

\* threat_score.band, stored with every verdict.
band(score) ==
  IF score < 40 THEN "log"
  ELSE IF score < 70 THEN "slow_redirect"
  ELSE IF score < 90 THEN "isolate"
  ELSE "block"

\* engine._score_band, for callers of respond() that give no band.
score_band(score) ==
  IF score < 40 THEN "log"
  ELSE IF score < 70 THEN "slow_redirect"
  ELSE IF score < 90 THEN "isolate"
  ELSE "block"

\* app.js bandFor, the badge of a profile.
bandFor(score) ==
  IF score < 40 THEN "log"
  ELSE IF score < 70 THEN "slow_redirect"
  ELSE IF score < 90 THEN "isolate"
  ELSE "block"

\* The actions that belong to a band (response/engine.py:8-11).
PlanOf(b) ==
  IF b = "log" THEN << "log" >>
  ELSE IF b = "slow_redirect" THEN << "slow", "redirect" >>
  ELSE IF b = "isolate" THEN << "isolate", "alert" >>
  ELSE << "block", "alert", "forensic_capture" >>
=============================================================================
