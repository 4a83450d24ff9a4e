--------------------------- MODULE BehaviorProofs ---------------------------
(***************************************************************************)
(* What the scores and bands of the behaviour engine can be, and what its  *)
(* profiles hold, in memory and in the table: for any sessions, any        *)
(* contents found in them, any prediction of a trained model, and any      *)
(* number of analyses, batches and deaths.                                 *)
(***************************************************************************)
EXTENDS Behavior, Sums

\* A set of at most four elements is finite.
LEMMA FourAreFinite ==
  ASSUME NEW a, NEW b, NEW c, NEW d
  PROVE  IsFiniteSet({a, b, c, d})
PROOF
<1>1. IsFiniteSet({} \cup {a})
  BY FS_EmptySet, FS_AddElement
<1>2. IsFiniteSet(({} \cup {a}) \cup {b})
  BY <1>1, FS_AddElement
<1>3. IsFiniteSet((({} \cup {a}) \cup {b}) \cup {c})
  BY <1>2, FS_AddElement
<1>4. IsFiniteSet(((({} \cup {a}) \cup {b}) \cup {c}) \cup {d})
  BY <1>3, FS_AddElement
<1>5. {a, b, c, d} = ((({} \cup {a}) \cup {b}) \cup {c}) \cup {d}
  OBVIOUS
<1> QED
  BY <1>4, <1>5

\* The rule table is finite, so the number of techniques of a session is a number.
LEMMA TechniquesFinite == IsFiniteSet(Techniques)
PROOF
<1>1. IsFiniteSet(Techniques20)
  BY FourAreFinite DEF Techniques20
<1>2. IsFiniteSet(Techniques45)
  <2>1. Techniques45 = {"T1046", "T1222.002", "T1046", "T1046"}
    BY DEF Techniques45
  <2> QED
    BY <2>1, FourAreFinite
<1>3. IsFiniteSet(Techniques50)
  <2>1. Techniques50 = {"T1105", "T1140", "T1105", "T1105"}
    BY DEF Techniques50
  <2> QED
    BY <2>1, FourAreFinite
<1>4. IsFiniteSet(Techniques55)
  <2>1. Techniques55 = {"T1059.004", "T1070.003", "T1070.003", "T1070.003"}
    BY DEF Techniques55
  <2> QED
    BY <2>1, FourAreFinite
<1>5. IsFiniteSet(Techniques60)
  <2>1. Techniques60 = {"T1136.001", "T1562.004", "T1095", "T1095"}
    BY DEF Techniques60
  <2> QED
    BY <2>1, FourAreFinite
<1>6. IsFiniteSet(Techniques70)
  BY FourAreFinite DEF Techniques70
<1>7. IsFiniteSet(Techniques75 \cup {"T1003.008", "T1496"})
  <2>1. Techniques75 \cup {"T1003.008", "T1496"}
          = {"T1552.001", "T1552.004", "T1003.008", "T1496"}
    BY DEF Techniques75
  <2>2. IsFiniteSet({"T1552.001", "T1552.004", "T1003.008", "T1496"})
    BY FourAreFinite
  <2> QED
    BY <2>1, <2>2
<1>8. /\ IsFiniteSet(Techniques20 \cup Techniques45)
      /\ IsFiniteSet(Techniques50 \cup Techniques55)
      /\ IsFiniteSet(Techniques60 \cup Techniques70)
  BY <1>1, <1>2, <1>3, <1>4, <1>5, <1>6, FS_Union
<1>9. IsFiniteSet((Techniques20 \cup Techniques45) \cup (Techniques50 \cup Techniques55))
  BY <1>8, FS_Union
<1>10. IsFiniteSet((Techniques60 \cup Techniques70)
                     \cup (Techniques75 \cup {"T1003.008", "T1496"}))
  BY <1>7, <1>8, FS_Union
<1>11. Techniques =
         ((Techniques20 \cup Techniques45) \cup (Techniques50 \cup Techniques55))
           \cup ((Techniques60 \cup Techniques70)
                   \cup (Techniques75 \cup {"T1003.008", "T1496"}))
  BY DEF Techniques
<1> QED
  BY <1>9, <1>10, <1>11, FS_Union

\* The severest technique of a nonempty set exists, so the CHOOSE of strongest
\* is a weight of the table.
LEMMA StrongestBounds ==
  ASSUME NEW ttps \in SUBSET Techniques
  PROVE  strongest(ttps) \in 0 .. 85
PROOF
<1>1. CASE ttps = {}
  BY <1>1 DEF strongest
<1>2. CASE ttps # {}
  <2> DEFINE W == {weight(t) : t \in ttps}
             Top(w) == w \in W /\ \A v \in W : v <= w
  <2>1. \A t \in ttps : weight(t) \in {20, 45, 50, 55, 60, 70, 75, 80, 85}
    BY DEF weight
  <2>2. W \subseteq {20, 45, 50, 55, 60, 70, 75, 80, 85} /\ W # {}
    BY <1>2, <2>1
  <2>3. \E w \in W : \A v \in W : v <= w
    <3> HIDE DEF W
    <3>1. CASE 85 \in W
      BY <2>2, <3>1
    <3>2. CASE 80 \in W /\ 85 \notin W
      BY <2>2, <3>2
    <3>3. CASE 75 \in W /\ {80, 85} \cap W = {}
      BY <2>2, <3>3
    <3>4. CASE 70 \in W /\ {75, 80, 85} \cap W = {}
      BY <2>2, <3>4
    <3>5. CASE 60 \in W /\ {70, 75, 80, 85} \cap W = {}
      BY <2>2, <3>5
    <3>6. CASE 55 \in W /\ {60, 70, 75, 80, 85} \cap W = {}
      BY <2>2, <3>6
    <3>7. CASE 50 \in W /\ {55, 60, 70, 75, 80, 85} \cap W = {}
      BY <2>2, <3>7
    <3>8. CASE 45 \in W /\ {50, 55, 60, 70, 75, 80, 85} \cap W = {}
      BY <2>2, <3>8
    <3>9. CASE {45, 50, 55, 60, 70, 75, 80, 85} \cap W = {}
      <4>1. \A w \in W : w \notin {45, 50, 55, 60, 70, 75, 80, 85}
        BY <3>9
      <4>2. \A w \in W : w = 20
        BY <2>2, <4>1
      <4>3. PICK w \in W : TRUE
        BY <2>2
      <4>4. w = 20 /\ \A v \in W : v <= w
        BY <4>2
      <4>5. QED  BY <4>4
    <3> QED
      BY <3>1, <3>2, <3>3, <3>4, <3>5, <3>6, <3>7, <3>8, <3>9
  <2>4. PICK w \in W : \A v \in W : v <= w
    BY <2>3
  <2>5. \A t \in ttps : weight(t) <= w
    BY <2>4
  <2>6. strongest(ttps) \in W
    BY <1>2, <2>4, <2>5 DEF strongest
  <2> QED
    BY <2>2, <2>6
<1> QED
  BY <1>1, <1>2

\* The technique component reaches 0.895 at most: 0.7 of the severest weight and
\* 0.3 for breadth.
LEMMA TtpBounds ==
  ASSUME NEW ttps \in SUBSET Techniques
  PROVE  ttp_component(ttps) \in Nat /\ ttp_component(ttps) <= 8950
PROOF
<1>1. Cardinality(ttps) \in Nat
  BY TechniquesFinite, FS_Subset, FS_CardinalityType
<1>2. AtMost(Cardinality(ttps), 8) \in 0 .. 8
  BY <1>1 DEF AtMost
<1>3. breadth(ttps) \in Nat /\ breadth(ttps) <= 3000
  BY <1>2 DEF breadth
<1>4. strongest(ttps) \in Nat /\ strongest(ttps) <= 85
  BY StrongestBounds
<1>5. AtMost(70 * strongest(ttps) + breadth(ttps), 10000) =
        70 * strongest(ttps) + breadth(ttps)
  BY <1>3, <1>4 DEF AtMost
<1> QED
  BY <1>3, <1>4, <1>5 DEF ttp_component

\* The behaviour component is a share of one.
LEMMA BehaviorBounds ==
  ASSUME NEW session
  PROVE  behavior_component(session) \in 0 .. 100
PROOF
<1> DEFINE login == Points(session.login_success, 30)
           download == Points(session.downloads, 25)
           read == Points(Marked(session, "sensitive path"), 25)
           persist == Points(Marked(session, "crontab") \/ Marked(session, "authorized_keys"), 20)
           pivot == Points(session.tcpip_requests, 15)
<1>1. login \in Nat /\ download \in Nat /\ read \in Nat /\ persist \in Nat /\ pivot \in Nat
  BY DEF Points
<1>2. behavior_component(session) = AtMost(login + download + read + persist + pivot, 100)
  BY DEF behavior_component
<1> HIDE DEF login, download, read, persist, pivot
<1> QED
  BY <1>1, <1>2 DEF AtMost

\* The risk of an intent is at most 0.85, and 0.6 when the rules predicted it.
LEMMA IntentBounds ==
  /\ \A prediction \in Predictions :
       /\ intent_risk(prediction) \in Nat
       /\ intent_risk(prediction) <= 8500
  /\ \A session :
       /\ intent_risk(heuristic_intent(session)) \in Nat
       /\ intent_risk(heuristic_intent(session)) <= 6000
PROOF
<1>1. ASSUME NEW prediction \in Predictions
      PROVE  intent_risk(prediction) \in Nat /\ intent_risk(prediction) <= 8500
  <2>1. INTENT_RISK(prediction.intent) \in {20, 70, 75, 80, 85}
    BY DEF INTENT_RISK
  <2>2. AtLeast(prediction.conf, 50) \in 50 .. 100
    BY DEF Predictions, AtLeast
  <2> QED
    BY <2>1, <2>2 DEF intent_risk
<1>2. ASSUME NEW session
      PROVE  /\ intent_risk(heuristic_intent(session)) \in Nat
             /\ intent_risk(heuristic_intent(session)) <= 6000
  <2> DEFINE p == heuristic_intent(session)
  <2>1. \/ p.intent = "Cryptomining" /\ p.conf = 80
        \/ p.intent = "Bot Enrollment" /\ p.conf = 70
        \/ p.intent = "Malware Deployment" /\ p.conf = 75
        \/ p.intent = "Credential Harvesting" /\ p.conf = 70
        \/ p.intent = "Lateral Movement" /\ p.conf = 65
        \/ p.intent = "Reconnaissance" /\ p.conf = 55
    BY DEF heuristic_intent
  <2> HIDE DEF p
  <2>2. \/ INTENT_RISK(p.intent) = 70 /\ AtLeast(p.conf, 50) = 80
        \/ INTENT_RISK(p.intent) = 80 /\ AtLeast(p.conf, 50) = 70
        \/ INTENT_RISK(p.intent) = 80 /\ AtLeast(p.conf, 50) = 75
        \/ INTENT_RISK(p.intent) = 75 /\ AtLeast(p.conf, 50) = 70
        \/ INTENT_RISK(p.intent) = 85 /\ AtLeast(p.conf, 50) = 65
        \/ INTENT_RISK(p.intent) = 20 /\ AtLeast(p.conf, 50) = 55
    <3>1. /\ INTENT_RISK("Cryptomining") = 70
          /\ INTENT_RISK("Bot Enrollment") = 80
          /\ INTENT_RISK("Malware Deployment") = 80
          /\ INTENT_RISK("Credential Harvesting") = 75
          /\ INTENT_RISK("Lateral Movement") = 85
          /\ INTENT_RISK("Reconnaissance") = 20
      BY DEF INTENT_RISK
    <3>2. \A conf \in {55, 65, 70, 75, 80} : AtLeast(conf, 50) = conf
      BY DEF AtLeast
    <3>3. /\ AtLeast(80, 50) = 80 /\ AtLeast(70, 50) = 70 /\ AtLeast(75, 50) = 75
          /\ AtLeast(65, 50) = 65 /\ AtLeast(55, 50) = 55
      BY <3>2
    <3>4. CASE p.intent = "Cryptomining" /\ p.conf = 80
      BY <3>1, <3>3, <3>4
    <3>5. CASE p.intent = "Bot Enrollment" /\ p.conf = 70
      BY <3>1, <3>3, <3>5
    <3>6. CASE p.intent = "Malware Deployment" /\ p.conf = 75
      BY <3>1, <3>3, <3>6
    <3>7. CASE p.intent = "Credential Harvesting" /\ p.conf = 70
      BY <3>1, <3>3, <3>7
    <3>8. CASE p.intent = "Lateral Movement" /\ p.conf = 65
      BY <3>1, <3>3, <3>8
    <3>9. CASE p.intent = "Reconnaissance" /\ p.conf = 55
      BY <3>1, <3>3, <3>9
    <3> QED
      BY <2>1, <3>4, <3>5, <3>6, <3>7, <3>8, <3>9
  <2>3. intent_risk(p) \in Nat /\ intent_risk(p) <= 6000
    BY <2>2 DEF intent_risk
  <2> QED
    BY <2>3 DEF p
<1> QED
  BY <1>1, <1>2

\* What the rules predict is a prediction.
LEMMA HeuristicPredicts ==
  ASSUME NEW session
  PROVE  heuristic_intent(session) \in Predictions
BY DEF heuristic_intent, Predictions, Intents

\* "threat_score_0_100" (threat_score.py:62): in fact no session scores above 90
\* whatever a trained model answers, so the documented block band (> 90) is empty,
\* and the one the code has is the single score 90.
THEOREM ScoresAtMost90 ==
  ASSUME NEW session, NEW prediction \in Predictions, NEW ttps \in SUBSET Techniques
  PROVE  score_session(session, prediction, ttps) \subseteq 0 .. 90
PROOF
<1>1. /\ intent_risk(prediction) \in Nat /\ intent_risk(prediction) <= 8500
      /\ ttp_component(ttps) \in Nat /\ ttp_component(ttps) <= 8950
      /\ behavior_component(session) \in 0 .. 100
  BY IntentBounds, TtpBounds, BehaviorBounds
<1>2. /\ composite(session, prediction, ttps) \in Nat
      /\ composite(session, prediction, ttps) <= 903250
  BY <1>1, SMT DEF composite
<1> QED
  BY <1>2, SMT DEF score_session, Rounded, AtMost, Scores

\* Without a trained model no session reaches the block band: blocking needs the model.
THEOREM HeuristicNeverBlocks ==
  ASSUME NEW session, NEW ttps \in SUBSET Techniques
  PROVE  score_session(session, heuristic_intent(session), ttps) \subseteq 0 .. 80
PROOF
<1>1. /\ intent_risk(heuristic_intent(session)) \in Nat
      /\ intent_risk(heuristic_intent(session)) <= 6000
      /\ ttp_component(ttps) \in Nat /\ ttp_component(ttps) <= 8950
      /\ behavior_component(session) \in 0 .. 100
  BY IntentBounds, TtpBounds, BehaviorBounds
<1>2. /\ composite(session, heuristic_intent(session), ttps) \in Nat
      /\ composite(session, heuristic_intent(session), ttps) <= 803250
  BY <1>1, SMT DEF composite
<1> QED
  BY <1>2, SMT DEF score_session, Rounded, AtMost, Scores
-----------------------------------------------------------------------------
(* The stored scores and bands. *)

\* What the analyses of this process and the stored verdicts are: their scores were
\* computed from a prediction this process could make, their bands from their scores.
ScoreInv ==
  /\ learning \in Learning
  /\ analysed \in Seq([session : Sessions, prediction : Predictions,
                       ttps : SUBSET Techniques, score : Scores])
  /\ \A i \in DOMAIN analysed : analysed[i].score <= IF trained THEN 90 ELSE 89
  /\ \A s \in Sessions : session_analysis[s] # NoVerdict =>
       /\ session_analysis[s].threat_score \in Scores
       /\ session_analysis[s].band = band(session_analysis[s].threat_score)
  /\ session_analysis \in [Sessions -> {NoVerdict} \cup VerdictSet]

\* What one analysis returns.
LEMMA AnalysisBounds ==
  ASSUME BehaviorConstants, trained \in BOOLEAN,
         NEW s \in Sessions, NEW content \in ContentsOf[s],
         NEW prediction \in predict(content),
         NEW score \in score_session(content, prediction, extract_ttps(content))
  PROVE  /\ prediction \in Predictions
         /\ extract_ttps(content) \in SUBSET Techniques
         /\ score \in Scores
         /\ score <= IF trained THEN 90 ELSE 89
PROOF
<1>1. content \in Session
  BY DEF BehaviorConstants
<1>2. extract_ttps(content) \in SUBSET Techniques
  <2>1. \A command \in content.commands : command.techniques \in SUBSET Techniques
    BY <1>1 DEF Session, Command
  <2> QED
    BY <2>1 DEF extract_ttps
<1>3. prediction \in Predictions
  BY HeuristicPredicts DEF predict, BehaviorConstants
<1>4. score \in 0 .. 90
  BY <1>2, <1>3, ScoresAtMost90
<1>5. ~trained => score \in 0 .. 80
  BY <1>2, HeuristicNeverBlocks DEF predict
<1> QED
  BY <1>2, <1>3, <1>4, <1>5 DEF Scores

\* Every band is the band of its score after an analysis too.
LEMMA AnalyzeKeepsScores ==
  ASSUME BehaviorConstants, ScoreInv, NEW s \in Sessions, analyze_session(s)
  PROVE  ScoreInv'
PROOF
<1>1. PICK content \in ContentsOf[s] : analyze(s, content)
  BY DEF analyze_session
<1>2. PICK prediction \in predict(content) :
        \E score \in score_session(content, prediction, extract_ttps(content)) :
          /\ session_analysis' =
               [session_analysis EXCEPT ![s] =
                  Verdict(prediction, extract_ttps(content), score)]
          /\ analysed' = Append(analysed,
               [session |-> s, prediction |-> prediction,
                ttps |-> extract_ttps(content), score |-> score])
  BY <1>1 DEF analyze, write_session_analysis
<1>3. PICK score \in score_session(content, prediction, extract_ttps(content)) :
          /\ session_analysis' =
               [session_analysis EXCEPT ![s] =
                  Verdict(prediction, extract_ttps(content), score)]
          /\ analysed' = Append(analysed,
               [session |-> s, prediction |-> prediction,
                ttps |-> extract_ttps(content), score |-> score])
  BY <1>2
<1>4. learning \in Learning /\ trained \in BOOLEAN
  BY DEF ScoreInv, trained
<1>5. /\ prediction \in Predictions
      /\ extract_ttps(content) \in SUBSET Techniques
      /\ score \in Scores
      /\ score <= IF trained THEN 90 ELSE 89
  BY <1>4, AnalysisBounds
<1>6. learning' = learning /\ trained' = trained
  BY DEF analyze_session, trained
<1> DEFINE entry == [session |-> s, prediction |-> prediction,
                     ttps |-> extract_ttps(content), score |-> score]
           Entries == [session : Sessions, prediction : Predictions,
                       ttps : SUBSET Techniques, score : Scores]
<1>7. entry \in Entries /\ entry.score = score
  BY <1>5
<1>8. analysed \in Seq(Entries) /\ analysed' = Append(analysed, entry)
  BY <1>3 DEF ScoreInv
<1>9. \A i \in DOMAIN analysed : analysed[i].score <= IF trained THEN 90 ELSE 89
  BY DEF ScoreInv
<1> HIDE DEF entry, Entries
<1>10. analysed' \in Seq(Entries)
  BY <1>7, <1>8
<1>11. \A i \in DOMAIN analysed' : analysed'[i] = entry \/ (i \in DOMAIN analysed /\ analysed'[i] = analysed[i])
  BY <1>8
<1>12. \A i \in DOMAIN analysed' : analysed'[i].score <= IF trained' THEN 90 ELSE 89
  BY <1>5, <1>6, <1>7, <1>9, <1>11
<1> DEFINE verdict == Verdict(prediction, extract_ttps(content), score)
<1>13. /\ verdict \in VerdictSet
       /\ verdict.threat_score = score
       /\ verdict.band = band(score)
  BY <1>5 DEF Verdict, VerdictSet, Predictions, band, Bands
<1>14. session_analysis' = [session_analysis EXCEPT ![s] = verdict]
  BY <1>3
<1> HIDE DEF verdict
<1>15. session_analysis' \in [Sessions -> {NoVerdict} \cup VerdictSet]
  BY <1>13, <1>14 DEF ScoreInv
<1>16. \A r \in Sessions : session_analysis'[r] = verdict
                             \/ session_analysis'[r] = session_analysis[r]
  BY <1>14 DEF ScoreInv
<1>17. \A r \in Sessions : session_analysis'[r] # NoVerdict =>
         /\ session_analysis'[r].threat_score \in Scores
         /\ session_analysis'[r].band = band(session_analysis'[r].threat_score)
  BY <1>5, <1>13, <1>16 DEF ScoreInv
<1> QED
  BY <1>4, <1>6, <1>10, <1>12, <1>15, <1>17 DEF ScoreInv, Entries

\* The invariant is inductive.
LEMMA ScoreInvariant == Spec => []ScoreInv
PROOF
<1> USE BehaviorConstants
<1>1. Init => ScoreInv
  BY DEF Init, ScoreInv
<1>2. ScoreInv /\ [Next]_vars => ScoreInv'
  <2> SUFFICES ASSUME ScoreInv, [Next]_vars
               PROVE  ScoreInv'
    OBVIOUS
  <2>1. ASSUME NEW batch \in SUBSET Sessions, analyze_sessions(batch)
        PROVE  ScoreInv'
    BY <2>1 DEF ScoreInv, analyze_sessions, memory, tables, history, trained
  <2>2. ASSUME NEW s \in Sessions, analyze_session(s)
        PROVE  ScoreInv'
    BY <2>2, AnalyzeKeepsScores
  <2>3. CASE cluster_campaigns
    BY <2>3 DEF ScoreInv, cluster_campaigns, tables, trained
  <2>4. ASSUME NEW ip \in Attackers, upsert_profile(ip)
        PROVE  ScoreInv'
    BY <2>4 DEF ScoreInv, upsert_profile, memory, trained
  <2>5. CASE Crash
    BY <2>5 DEF ScoreInv, Crash, tables
  <2>6. CASE UNCHANGED vars
    BY <2>6 DEF ScoreInv, vars, memory, tables, history, trained
  <2> QED
    BY <2>1, <2>2, <2>3, <2>4, <2>5, <2>6 DEF Next
<1> QED
  BY <1>1, <1>2, PTL DEF Spec

\* No analysis of any process scores above 90, and none above 89 where there is no
\* trained model: without one the responder never blocks, whatever the sessions are.
THEOREM ScoresAlwaysLow == Spec => []ScoresStayLow
PROOF
<1>1. ScoreInv => ScoresStayLow
  BY DEF ScoreInv, ScoresStayLow
<1> QED
  BY <1>1, ScoreInvariant, PTL

\* The four copies of the thresholds agree: a stored verdict's band is the band of
\* the responder and of the dashboard, and decide takes the actions of that band.
THEOREM BandsAlwaysAgree == Spec => []BandsAgree
PROOF
<1>1. \A score \in Scores :
        /\ PlanOf(band(score)) = decide(score)
        /\ score_band(score) = band(score)
        /\ bandFor(score) = band(score)
  BY DEF PlanOf, band, decide, score_band, bandFor, Scores
<1>2. ScoreInv => BandsAgree
  BY <1>1 DEF ScoreInv, BandsAgree
<1> QED
  BY <1>2, ScoreInvariant, PTL
-----------------------------------------------------------------------------
(* The votes of a profile. *)

\* The first of the largest values.
Top(f, i) ==
  /\ i \in DOMAIN f
  /\ \A j \in DOMAIN f : f[j] <= f[i]
  /\ \A j \in DOMAIN f : f[j] = f[i] => i <= j

\* One more value.
LEMMA TopOfLonger ==
  ASSUME NEW n \in Nat, NEW f \in [1 .. n -> Nat], NEW i, Top(f, i),
         NEW g \in [1 .. n + 1 -> Nat], \A j \in 1 .. n : g[j] = f[j]
  PROVE  \E m \in DOMAIN g : Top(g, m)
<1>1. /\ i \in 1 .. n
      /\ \A j \in 1 .. n : f[j] <= f[i]
      /\ \A j \in 1 .. n : f[j] = f[i] => i <= j
  BY DEF Top
<1>2. CASE g[n + 1] > f[i]
  <2>1. Top(g, n + 1)
    BY <1>1, <1>2 DEF Top
  <2>2. QED  BY <2>1
<1>3. CASE ~(g[n + 1] > f[i])
  <2>1. Top(g, i)
    BY <1>1, <1>3 DEF Top
  <2>2. QED  BY <1>1, <2>1
<1>4. QED  BY <1>2, <1>3

\* One value grows.
LEMMA TopOfGrown ==
  ASSUME NEW n \in Nat, NEW f \in [1 .. n -> Nat], NEW i, Top(f, i),
         NEW g \in [1 .. n -> Nat],
         \E k \in 1 .. n : g[k] > f[k] /\ \A j \in 1 .. n : j # k => g[j] = f[j]
  PROVE  \E m \in DOMAIN g : Top(g, m)
<1>0. PICK k \in 1 .. n : g[k] > f[k] /\ \A j \in 1 .. n : j # k => g[j] = f[j]
  OBVIOUS
<1>1. /\ i \in 1 .. n
      /\ \A j \in 1 .. n : f[j] <= f[i]
      /\ \A j \in 1 .. n : f[j] = f[i] => i <= j
  <2>1. DOMAIN f = 1 .. n
    OBVIOUS
  <2>2. /\ i \in DOMAIN f
        /\ \A j \in DOMAIN f : f[j] <= f[i]
        /\ \A j \in DOMAIN f : f[j] = f[i] => i <= j
    BY ONLY Top(f, i) DEF Top
  <2>3. QED  BY ONLY <2>1, <2>2
<1>2. CASE i = k \/ g[k] > f[i] \/ (g[k] = f[i] /\ k < i)
  <2>1. g[k] >= f[i] /\ (i = k => g[k] > f[i]) /\ (g[k] = f[i] => k < i)
    BY <1>0, <1>1, <1>2
  <2>2. ASSUME NEW j \in 1 .. n, j # k
        PROVE  g[j] <= g[k] /\ (g[j] = g[k] => k <= j)
    <3>1. g[j] = f[j] /\ f[j] <= f[i] /\ (f[j] = f[i] => i <= j)
      BY <1>0, <1>1, <2>2
    <3>2. QED  BY <1>1, <2>1, <3>1
  <2>3. \A j \in 1 .. n : g[j] <= g[k] /\ (g[j] = g[k] => k <= j)
    BY <2>2
  <2>4. DOMAIN g = 1 .. n
    OBVIOUS
  <2>5. Top(g, k)
    BY <2>3, <2>4 DEF Top
  <2>6. QED  BY <2>4, <2>5
<1>3. CASE i # k /\ ~(g[k] > f[i] \/ (g[k] = f[i] /\ k < i))
  <2>1. g[i] = f[i] /\ g[k] <= f[i] /\ (g[k] = f[i] => i <= k)
    BY <1>0, <1>1, <1>3
  <2>2. \A j \in 1 .. n : g[j] <= g[i] /\ (g[j] = g[i] => i <= j)
    BY <1>0, <1>1, <2>1
  <2>3. Top(g, i)
    BY <1>1, <2>2 DEF Top
  <2>4. QED  BY <1>1, <2>3
<1>4. QED  BY <1>2, <1>3

\* The minimum of a set is the element below all others.
LEMMA MinIs ==
  ASSUME NEW S, NEW i \in Nat, i \in S, \A k \in S : k \in Nat /\ i <= k
  PROVE  Min(S) = i
<1>1. Min(S) \in S /\ \A k \in S : Min(S) <= k
  BY DEF Min
<1>2. Min(S) \in Nat /\ Min(S) <= i /\ i <= Min(S)
  BY <1>1
<1> DEFINE m == Min(S)
<1> HIDE DEF m
<1>3. m \in Nat /\ m <= i /\ i <= m => m = i
  OBVIOUS
<1>4. QED  BY <1>2, <1>3 DEF m

\* The maximum of a set is the element above all others.
LEMMA MaxIs ==
  ASSUME NEW S, NEW i \in Nat, i \in S, \A k \in S : k \in Nat /\ k <= i
  PROVE  Max(S) = i
<1>1. Max(S) \in S /\ \A k \in S : k <= Max(S)
  BY DEF Max
<1>2. Max(S) \in Nat /\ Max(S) <= i /\ i <= Max(S)
  BY <1>1
<1> DEFINE m == Max(S)
<1> HIDE DEF m
<1>3. m \in Nat /\ m <= i /\ i <= m => m = i
  OBVIOUS
<1>4. QED  BY <1>2, <1>3 DEF m

Weights(votes) == [i \in DOMAIN votes |-> votes[i].weight]

\* One vote per intent, and, once there are votes, a winner.
OneEach(votes) ==
  \A i, j \in DOMAIN votes : votes[i].intent = votes[j].intent => i = j
Decided(votes) == \E i \in DOMAIN votes : Top(Weights(votes), i)

LEMMA VoteFields ==
  ASSUME NEW votes \in Seq(Vote)
  PROVE  /\ DOMAIN votes = 1 .. Len(votes) /\ Len(votes) \in Nat
         /\ \A i \in DOMAIN votes : /\ votes[i] \in Vote
                                   /\ votes[i].weight \in Nat
                                   /\ votes[i].intent \in Intents
         /\ Weights(votes) \in [1 .. Len(votes) -> Nat]
         /\ \A i \in 1 .. Len(votes) : Weights(votes)[i] = votes[i].weight
<1>1. \A i \in DOMAIN votes : votes[i] \in Vote
  OBVIOUS
<1>2. \A vote \in Vote : vote.weight \in Nat /\ vote.intent \in Intents
  BY DEF Vote
<1>3. DOMAIN votes = 1 .. Len(votes) /\ Len(votes) \in Nat
  OBVIOUS
<1>4. \A i \in 1 .. Len(votes) : votes[i].weight \in Nat
  BY <1>1, <1>2, <1>3
<1>5. Weights(votes) \in [1 .. Len(votes) -> Nat]
  BY <1>3, <1>4 DEF Weights
<1>6. QED  BY <1>1, <1>2, <1>3, <1>5 DEF Weights

LEMMA WinnerIsIntent ==
  ASSUME NEW votes \in Seq(Vote), Decided(votes)
  PROVE  Winner(votes) \in Intents
<1> DEFINE f == Weights(votes)
           best == {k \in DOMAIN votes : \A j \in DOMAIN votes :
                      votes[j].weight <= votes[k].weight}
<1>1. PICK i \in DOMAIN votes : Top(f, i)
  BY DEF Decided
<1>2. /\ f \in [1 .. Len(votes) -> Nat] /\ DOMAIN votes = 1 .. Len(votes)
      /\ Len(votes) \in Nat
      /\ \A k \in 1 .. Len(votes) : f[k] = votes[k].weight
  BY VoteFields
<1>3. best = {k \in 1 .. Len(votes) : \A j \in 1 .. Len(votes) : f[j] <= f[k]}
  BY <1>2
<1>4. Winner(votes) = votes[Min(best)].intent
  BY DEF Winner
<1> HIDE DEF f, best
<1>5. i \in best /\ i \in Nat /\ \A k \in best : k \in Nat /\ i <= k
  BY <1>1, <1>2, <1>3 DEF Top
<1>6. Min(best) = i
  BY <1>5, MinIs
<1>7. QED  BY <1>4, <1>6, VoteFields

\* The winner has as many votes as any intent.
LEMMA WinnerHasMost ==
  ASSUME NEW votes \in Seq(Vote), Decided(votes)
  PROVE  \E m \in DOMAIN votes :
           /\ votes[m].intent = Winner(votes)
           /\ \A k \in DOMAIN votes : votes[k].weight <= votes[m].weight
<1> DEFINE f == Weights(votes)
           best == {k \in DOMAIN votes : \A j \in DOMAIN votes :
                      votes[j].weight <= votes[k].weight}
<1>1. PICK i \in DOMAIN votes : Top(f, i)
  BY DEF Decided
<1>2. /\ f \in [1 .. Len(votes) -> Nat] /\ DOMAIN votes = 1 .. Len(votes)
      /\ Len(votes) \in Nat
      /\ \A k \in 1 .. Len(votes) : f[k] = votes[k].weight
  BY VoteFields
<1>3. best = {k \in 1 .. Len(votes) : \A j \in 1 .. Len(votes) : f[j] <= f[k]}
  BY <1>2
<1>4. Winner(votes) = votes[Min(best)].intent
  BY DEF Winner
<1>5. \A k \in best : k \in DOMAIN votes
                      /\ \A j \in DOMAIN votes : votes[j].weight <= votes[k].weight
  OBVIOUS
<1> HIDE DEF f, best
<1>6. i \in best /\ i \in Nat /\ \A k \in best : k \in Nat /\ i <= k
  BY <1>1, <1>2, <1>3 DEF Top
<1>7. Min(best) = i
  BY <1>6, MinIs
<1>8. QED  BY <1>4, <1>5, <1>6, <1>7

\* A vote more keeps one entry per intent, and there is a winner.
LEMMA VotedType ==
  ASSUME NEW votes \in Seq(Vote), OneEach(votes), votes = << >> \/ Decided(votes),
         NEW intent \in Intents, NEW conf \in 0 .. 100
  PROVE  LET after == Voted(votes, intent, conf)
         IN  after \in Seq(Vote) /\ OneEach(after) /\ Decided(after)
<1> DEFINE w == AtLeast(conf, 1)
           known == {i \in DOMAIN votes : votes[i].intent = intent}
           after == Voted(votes, intent, conf)
           n == Len(votes)
<1>1. w \in Nat /\ w >= 1
  BY DEF AtLeast
<1>2. \A i \in DOMAIN votes : votes[i] \in Vote /\ votes[i].weight \in Nat /\ votes[i].intent \in Intents
  BY VoteFields
<1>3. DOMAIN votes = 1 .. n /\ n \in Nat
  BY VoteFields DEF n
<1>4. /\ Weights(votes) \in [1 .. n -> Nat]
      /\ \A i \in 1 .. n : Weights(votes)[i] = votes[i].weight
  BY VoteFields
<1> HIDE DEF w, n
<1>5. CASE known = {}
  <2> DEFINE vote == [intent |-> intent, weight |-> w]
  <2>1. after = Append(votes, vote)
    BY <1>5 DEF Voted, w
  <2>2. vote \in Vote /\ vote.weight = w /\ vote.intent = intent
    BY <1>1 DEF Vote
  <2> HIDE DEF vote, after
  <2>3. /\ after \in Seq(Vote)
        /\ Len(after) = n + 1
        /\ DOMAIN after = 1 .. n + 1
        /\ after[n + 1] = vote
        /\ \A i \in DOMAIN votes : after[i] = votes[i]
    BY <2>1, <2>2 DEF n
  <2>4. OneEach(after)
    <3> SUFFICES ASSUME NEW i \in DOMAIN after, NEW j \in DOMAIN after,
                        after[i].intent = after[j].intent
                 PROVE  i = j
      BY DEF OneEach
    <3>1. CASE i \in DOMAIN votes /\ j \in DOMAIN votes
      BY <2>3, <3>1 DEF OneEach
    <3>2. CASE i \in DOMAIN votes /\ j \notin DOMAIN votes
      BY <1>3, <1>5, <2>2, <2>3, <3>2
    <3>3. CASE i \notin DOMAIN votes /\ j \in DOMAIN votes
      BY <1>3, <1>5, <2>2, <2>3, <3>3
    <3>4. CASE i \notin DOMAIN votes /\ j \notin DOMAIN votes
      BY <1>3, <2>3, <3>4
    <3>5. QED  BY <3>1, <3>2, <3>3, <3>4
  <2>5. /\ Weights(after) \in [1 .. n + 1 -> Nat]
        /\ \A i \in 1 .. n + 1 : Weights(after)[i] = after[i].weight
    BY <2>3, VoteFields
  <2>6. Decided(after)
    <3>1. CASE votes = << >>
      <4>1. n = 0
        BY <3>1 DEF n
      <4>2. Top(Weights(after), 1)
        BY <4>1, <2>5 DEF Top
      <4>3. QED  BY <4>1, <4>2, <2>3 DEF Decided
    <3>2. CASE Decided(votes)
      <4>1. PICK i \in DOMAIN votes : Top(Weights(votes), i)
        BY <3>2 DEF Decided
      <4>2. \A j \in 1 .. n : Weights(after)[j] = Weights(votes)[j]
        <5> SUFFICES ASSUME NEW j \in 1 .. n
                     PROVE  Weights(after)[j] = Weights(votes)[j]
          OBVIOUS
        <5>1. j \in 1 .. n + 1 /\ j \in DOMAIN votes
          BY <1>3
        <5>2. QED  BY <1>4, <2>3, <2>5, <5>1
      <4>3. \E m \in DOMAIN Weights(after) : Top(Weights(after), m)
        BY <1>3, <1>4, <2>5, <4>1, <4>2, TopOfLonger
      <4>4. QED  BY <2>3, <2>5, <4>3 DEF Decided
    <3>3. QED  BY <3>1, <3>2
  <2>7. QED  BY <2>3, <2>4, <2>6 DEF after
<1>6. CASE known # {}
  <2>1. PICK k \in DOMAIN votes : votes[k].intent = intent
    BY <1>6
  <2>2. \A i \in DOMAIN votes : i \in known <=> i = k
    BY <2>1 DEF OneEach
  <2>3. after = [i \in DOMAIN votes |->
                   IF i \in known THEN [votes[i] EXCEPT !.weight = @ + w]
                   ELSE votes[i]]
    BY <1>6 DEF Voted, w
  <2> HIDE DEF after, known
  <2>4. /\ DOMAIN after = DOMAIN votes
        /\ \A i \in DOMAIN votes : i # k => after[i] = votes[i]
        /\ after[k] = [votes[k] EXCEPT !.weight = @ + w]
    BY <2>1, <2>2, <2>3
  <2>5. /\ after[k] \in Vote
        /\ after[k].intent = votes[k].intent
        /\ after[k].weight = votes[k].weight + w
    <3>1. \A vote \in Vote : LET new == [vote EXCEPT !.weight = @ + w]
                             IN  /\ new \in Vote /\ new.intent = vote.intent
                                 /\ new.weight = vote.weight + w
      BY <1>1 DEF Vote
    <3>2. QED  BY <1>2, <2>1, <2>4, <3>1
  <2>6. after \in Seq(Vote) /\ Len(after) = n
    <3>1. \A i \in 1 .. n : after[i] \in Vote
      BY <1>2, <1>3, <2>4, <2>5
    <3>2. after \in [1 .. n -> Vote]
      BY <1>3, <2>3, <3>1
    <3>3. \A m \in Nat : \A f \in [1 .. m -> Vote] : f \in Seq(Vote) /\ Len(f) = m
      OBVIOUS
    <3>4. QED  BY <1>3, <3>2, <3>3
  <2>7. \A i \in DOMAIN after : after[i].intent = votes[i].intent
    BY <2>4, <2>5
  <2>8. OneEach(after)
    BY <2>4, <2>7 DEF OneEach
  <2>9. /\ Weights(after) \in [1 .. n -> Nat]
        /\ \A i \in 1 .. n : Weights(after)[i] = after[i].weight
    BY <2>6, VoteFields
  <2>10. votes # << >>
    BY <2>1
  <2>11. PICK i \in DOMAIN votes : Top(Weights(votes), i)
    BY <2>10 DEF Decided
  <2>12. \A j \in 1 .. n : j # k => Weights(after)[j] = Weights(votes)[j]
    BY <1>3, <1>4, <2>4, <2>9
  <2>13. \E m \in 1 .. n :
           /\ Weights(after)[m] > Weights(votes)[m]
           /\ \A j \in 1 .. n : j # m => Weights(after)[j] = Weights(votes)[j]
    <3>1. k \in 1 .. n /\ Weights(after)[k] > Weights(votes)[k]
      BY <1>1, <1>2, <1>3, <1>4, <2>1, <2>5, <2>9
    <3>2. QED  BY <2>12, <3>1
  <2>14. \E m \in DOMAIN Weights(after) : Top(Weights(after), m)
    BY <1>3, <1>4, <2>9, <2>11, <2>13, TopOfGrown
  <2>15. Decided(after)
    BY <1>3, <2>4, <2>9, <2>14 DEF Decided
  <2>16. QED  BY <2>6, <2>8, <2>15 DEF after
<1>7. QED  BY <1>5, <1>6
-----------------------------------------------------------------------------
(* Profiles. *)

USE BehaviorConstants, ProfileConstants

Entries == [session : Sessions, prediction : Predictions, ttps : SUBSET Techniques,
            score : Scores]

\* A profile in memory: its votes have one entry per intent and a winner.
Voting(profile) == OneEach(profile.votes) /\ Decided(profile.votes)

\* What the types rest on: every profile was made from a vote, and a batch is of
\* some session, whose attacker is known by its end.
KnownInv ==
  /\ \A ip \in Known : Decided(profiles[ip].votes)
  /\ pc = "analyze" => todo # {} \/ Known # {}

\* A profile or the one that is made for a new attacker.
ProfileSoFar ==
  [first_seen : Nat, last_seen : Nat, sessions : SUBSET Sessions, votes : Seq(Vote),
   classified_intent : Intents \cup {NoIntent}, intent_confidence : 0 .. 100,
   ttps : SUBSET Techniques, threat_score : Scores, campaign_id : CampaignIds]

\* The profile an analysis begins with.
LEMMA ProfileBefore ==
  ASSUME TypeOK, KnownInv, NEW ip \in Attackers
  PROVE  LET p == Profile(ip)
         IN  /\ p \in ProfileSoFar
             /\ OneEach(p.votes)
             /\ p.votes = << >> \/ Decided(p.votes)
<1>1. CASE profiles[ip] = NoProfile
  <2>1. Profile(ip) = NewProfile
    BY <1>1 DEF Profile
  <2>2. << >> \in Seq(Vote) /\ 0 \in Scores
    BY DEF Scores
  <2>3. OneEach(<< >>)
    BY DEF OneEach
  <2>4. /\ Profile(ip) = [first_seen |-> 0, last_seen |-> 0, sessions |-> {},
                           votes |-> << >>, classified_intent |-> NoIntent,
                           intent_confidence |-> 0, ttps |-> {}, threat_score |-> 0,
                           campaign_id |-> NoCampaign]
        /\ Profile(ip).votes = << >>
    BY <2>1 DEF NewProfile
  <2>5. NoCampaign \in CampaignIds
    BY DEF CampaignIds
  <2>6. QED  BY <2>2, <2>3, <2>4, <2>5 DEF ProfileSoFar
<1>2. CASE profiles[ip] # NoProfile
  <2>1. Profile(ip) = profiles[ip] /\ ip \in Known
    BY <1>2 DEF Profile, Known
  <2>2. profiles[ip] \in ProfileSet
    BY <1>2 DEF TypeOK
  <2>3. OneEach(profiles[ip].votes)
    BY <2>1 DEF TypeOK, IsInjective, OneEach
  <2>4. Decided(profiles[ip].votes)
    BY <2>1 DEF KnownInv
  <2>5. QED  BY <2>1, <2>2, <2>3, <2>4 DEF ProfileSet, ProfileSoFar
<1>3. QED  BY <1>1, <1>2

\* What an analysis that finds these techniques and this score makes of a profile.
Accumulated(before, s, ttps, score, after) ==
  /\ after \in ProfileSet /\ after # NoProfile
  /\ OneEach(after.votes) /\ Decided(after.votes)
  /\ after.sessions = before.sessions \cup {s}
  /\ after.ttps = before.ttps \cup ttps
  /\ before.threat_score <= after.threat_score
  /\ score <= after.threat_score
  /\ after.campaign_id = before.campaign_id

LEMMA UpdatedProfile ==
  ASSUME TypeOK, KnownInv, NEW s \in Sessions, NEW prediction \in Predictions,
         NEW ttps \in SUBSET Techniques, NEW score \in Scores
  PROVE  LET p == Profile(IpOf[s])
         IN  Accumulated(p, s, ttps, score, updated(p, s, prediction, ttps, score))
<1> DEFINE p == Profile(IpOf[s])
           votes == Voted(p.votes, prediction.intent, prediction.conf)
           new == updated(p, s, prediction, ttps, score)
<1>1. IpOf[s] \in Attackers /\ StartOf[s] \in Nat /\ EndOf[s] \in Nat
  BY DEF BehaviorConstants
<1>2. prediction.intent \in Intents /\ prediction.conf \in 0 .. 100
  BY DEF Predictions
<1>3. /\ p \in ProfileSoFar
      /\ OneEach(p.votes)
      /\ p.votes = << >> \/ Decided(p.votes)
  BY <1>1, ProfileBefore
<1> HIDE DEF p
<1>4. votes \in Seq(Vote) /\ OneEach(votes) /\ Decided(votes)
  <2>1. p.votes \in Seq(Vote)
    BY <1>3 DEF ProfileSoFar
  <2>2. QED  BY <1>2, <1>3, <2>1, VotedType
<1>5. Winner(votes) \in Intents
  BY <1>4, WinnerIsIntent
<1> DEFINE first == Earlier(p.first_seen, StartOf[s])
           last == Later(p.last_seen, IF EndOf[s] # 0 THEN EndOf[s] ELSE StartOf[s])
           conf == Larger(p.intent_confidence, prediction.conf)
           top == peak(p.threat_score, score)
<1>6. first \in Nat /\ last \in Nat
  BY <1>1, <1>3 DEF ProfileSoFar, Earlier, Later, Larger
<1>7. conf \in 0 .. 100
  BY <1>2, <1>3 DEF ProfileSoFar, Larger
<1>8. top \in Scores /\ p.threat_score <= top /\ score <= top
  <2>1. p.threat_score \in Scores
    BY <1>3 DEF ProfileSoFar
  <2>2. QED  BY <2>1 DEF peak, Larger, Scores
<1>9. new = [p EXCEPT !.first_seen = first, !.last_seen = last,
               !.sessions = @ \cup {s}, !.votes = votes,
               !.classified_intent = Winner(votes), !.intent_confidence = conf,
               !.ttps = @ \cup ttps, !.threat_score = top]
  BY DEF updated
<1> HIDE DEF votes, new, first, last, conf, top
<1>10. /\ p.sessions \in SUBSET Sessions /\ p.ttps \in SUBSET Techniques
       /\ p.campaign_id \in CampaignIds
       /\ p = [first_seen |-> p.first_seen, last_seen |-> p.last_seen,
               sessions |-> p.sessions, votes |-> p.votes,
               classified_intent |-> p.classified_intent,
               intent_confidence |-> p.intent_confidence, ttps |-> p.ttps,
               threat_score |-> p.threat_score, campaign_id |-> p.campaign_id]
  BY <1>3 DEF ProfileSoFar
<1>11. new = [first_seen |-> first, last_seen |-> last, sessions |-> p.sessions \cup {s},
              votes |-> votes, classified_intent |-> Winner(votes),
              intent_confidence |-> conf, ttps |-> p.ttps \cup ttps,
              threat_score |-> top, campaign_id |-> p.campaign_id]
  <2> DEFINE old == [first_seen |-> p.first_seen, last_seen |-> p.last_seen,
               sessions |-> p.sessions, votes |-> p.votes,
               classified_intent |-> p.classified_intent,
               intent_confidence |-> p.intent_confidence, ttps |-> p.ttps,
               threat_score |-> p.threat_score, campaign_id |-> p.campaign_id]
  <2>1. new = [old EXCEPT !.first_seen = first, !.last_seen = last,
                 !.sessions = @ \cup {s}, !.votes = votes,
                 !.classified_intent = Winner(votes), !.intent_confidence = conf,
                 !.ttps = @ \cup ttps, !.threat_score = top]
    BY <1>9, <1>10
  <2>2. QED  BY <2>1
<1>12. new \in ProfileSet
  BY <1>4, <1>5, <1>6, <1>7, <1>8, <1>10, <1>11 DEF ProfileSet
<1>13. new # NoProfile
  BY <1>12 DEF ProfileConstants
<1>14. QED  BY <1>4, <1>8, <1>11, <1>12, <1>13 DEF new, p, Accumulated

\* One analysis, for the profile and the history.
Analysed(s, after, entry) ==
  /\ entry \in Entries /\ entry.session = s
  /\ Accumulated(Profile(IpOf[s]), s, entry.ttps, entry.score, after)
  /\ after = updated(Profile(IpOf[s]), s, entry.prediction, entry.ttps, entry.score)
  /\ profiles' = [profiles EXCEPT ![IpOf[s]] = after]
  /\ analysed' = Append(analysed, entry)

LEMMA AnalysisStep ==
  ASSUME TypeOK, ScoreInv, KnownInv, NEW s \in Sessions, analyze_session(s)
  PROVE  /\ \E after, entry : Analysed(s, after, entry)
         /\ clustered' = clustered \cup {s}
<1>1. PICK content \in ContentsOf[s] : analyze(s, content)
  BY DEF analyze_session
<1> DEFINE found == extract_ttps(content)
<1>2. PICK prediction \in predict(content) :
        \E score \in score_session(content, prediction, found) :
          /\ update(s, prediction, found, score)
          /\ analysed' = Append(analysed, [session |-> s, prediction |-> prediction,
                                          ttps |-> found, score |-> score])
  BY <1>1 DEF analyze
<1>3. PICK score \in score_session(content, prediction, found) :
        /\ update(s, prediction, found, score)
        /\ analysed' = Append(analysed, [session |-> s, prediction |-> prediction,
                                        ttps |-> found, score |-> score])
  BY <1>2
<1>4. /\ prediction \in Predictions /\ found \in SUBSET Techniques /\ score \in Scores
  BY AnalysisBounds DEF ScoreInv, trained
<1> HIDE DEF found
<1> DEFINE before == Profile(IpOf[s])
           after == updated(before, s, prediction, found, score)
           entry == [session |-> s, prediction |-> prediction, ttps |-> found, score |-> score]
<1>5. Accumulated(before, s, found, score, after)
  BY <1>4, UpdatedProfile
<1>6. /\ profiles' = [profiles EXCEPT ![IpOf[s]] = after]
      /\ clustered' = clustered \cup {s}
      /\ analysed' = Append(analysed, entry)
  BY <1>3 DEF update
<1>7. /\ entry \in Entries /\ entry.session = s /\ entry.prediction = prediction
      /\ entry.ttps = found /\ entry.score = score
  BY <1>4 DEF Entries
<1> HIDE DEF entry
<1>10. after = updated(before, s, entry.prediction, entry.ttps, entry.score)
  BY <1>7
<1> HIDE DEF after
<1>8. Analysed(s, after, entry)
  BY <1>5, <1>6, <1>7, <1>10 DEF Analysed
<1>9. QED  BY <1>6, <1>8

\* The profiles that are there after an analysis.
LEMMA KnownAfter ==
  ASSUME TypeOK, NEW s \in Sessions, NEW after, NEW entry, Analysed(s, after, entry)
  PROVE  /\ IpOf[s] \in Attackers
         /\ profiles'[IpOf[s]] = after
         /\ \A ip \in Attackers \ {IpOf[s]} : profiles'[ip] = profiles[ip]
         /\ Known' = Known \cup {IpOf[s]}
<1>1. IpOf[s] \in Attackers
  BY DEF BehaviorConstants
<1>2. /\ profiles'[IpOf[s]] = after
      /\ \A ip \in Attackers \ {IpOf[s]} : profiles'[ip] = profiles[ip]
  BY <1>1 DEF Analysed, Accumulated, TypeOK
<1>3. QED  BY <1>1, <1>2 DEF Known, Analysed, Accumulated

\* Labellings are labels, and a stamp is one of them.
LEMMA LabelTypes ==
  ASSUME NEW sessions, NEW label \in Labellings(sessions)
  PROVE  /\ label \in [sessions -> Labels]
         /\ Range(label) \subseteq Labels
<1>1. label \in [sessions -> Labels]
  <2>1. CASE Cardinality(sessions) < min_samples
    BY <2>1 DEF Labellings, Labels
  <2>2. CASE ~(Cardinality(sessions) < min_samples)
    <3>1. label \in [sessions -> -1 .. Cardinality(sessions) - 1]
      BY <2>2 DEF Labellings
    <3>2. -1 .. Cardinality(sessions) - 1 \subseteq Labels
      BY DEF Labels
    <3>3. QED  BY <3>1, <3>2
  <2>3. QED  BY <2>1, <2>2
<1>2. Range(label) \subseteq Labels
  BY <1>1 DEF Range
<1>3. QED  BY <1>1, <1>2

\* What the end of a batch does.
LEMMA ClusterStep ==
  ASSUME cluster_campaigns
  PROVE  \E label \in [clustered -> Labels], stamp \in [Known -> Labels] :
           /\ label \in Labellings(clustered)
           /\ \A ip \in Known : stamp[ip] \in MostCommon(label, ip)
           /\ profiles' = [ip \in Attackers |->
                IF ip \in Known THEN [profiles[ip] EXCEPT !.campaign_id = stamp[ip]]
                ELSE NoProfile]
           /\ labels' = label
<1>1. PICK label \in Labellings(clustered) :
        \E stamp \in [Known -> Range(label)] :
          /\ \A ip \in Known : stamp[ip] \in MostCommon(label, ip)
          /\ profiles' = [ip \in Attackers |->
               IF ip \in Known THEN [profiles[ip] EXCEPT !.campaign_id = stamp[ip]]
               ELSE NoProfile]
          /\ labels' = label
  BY DEF cluster_campaigns
<1>2. PICK stamp \in [Known -> Range(label)] :
          /\ \A ip \in Known : stamp[ip] \in MostCommon(label, ip)
          /\ profiles' = [ip \in Attackers |->
               IF ip \in Known THEN [profiles[ip] EXCEPT !.campaign_id = stamp[ip]]
               ELSE NoProfile]
          /\ labels' = label
  BY <1>1
<1>3. label \in [clustered -> Labels] /\ Range(label) \subseteq Labels
  BY LabelTypes
<1>4. stamp \in [Known -> Labels]
  BY <1>2, <1>3
<1>5. QED  BY <1>2, <1>3, <1>4

\* A step of TypeOK and KnownInv, where ScoreInv has the verdicts' types.
LEMMA TypesInductive ==
  ASSUME TypeOK, KnownInv, ScoreInv, ScoreInv', [Next]_vars
  PROVE  TypeOK' /\ KnownInv'
<1>0. session_analysis' \in [Sessions -> {NoVerdict} \cup VerdictSet]
  BY DEF ScoreInv
<1> USE DEF memory, batchVars, tables, history, bounds
<1>1. ASSUME NEW batch \in SUBSET Sessions, analyze_sessions(batch)
      PROVE  TypeOK' /\ KnownInv'
  <2>1. Known' = Known
    BY <1>1 DEF analyze_sessions, Known
  <2>2. TypeOK'
    BY <1>0, <1>1, <2>1 DEF analyze_sessions, TypeOK
  <2>3. KnownInv'
    BY <1>1, <2>1 DEF analyze_sessions, KnownInv
  <2>4. QED  BY <2>2, <2>3
<1>2. ASSUME NEW s \in Sessions, analyze_session(s)
      PROVE  TypeOK' /\ KnownInv'
  <2>1. PICK after, entry : Analysed(s, after, entry)
    BY <1>2, AnalysisStep
  <2>2. /\ IpOf[s] \in Attackers /\ profiles'[IpOf[s]] = after
        /\ \A ip \in Attackers \ {IpOf[s]} : profiles'[ip] = profiles[ip]
        /\ Known' = Known \cup {IpOf[s]}
    BY <2>1, KnownAfter
  <2>3. /\ clustered' = clustered \cup {s}
        /\ pc = "idle" \/ s \in todo
        /\ analyses < MaxAnalyses /\ analyses' = analyses + 1
        /\ todo' = todo \ {s}
        /\ UNCHANGED <<learning, pc, unsaved, profile_rows, labels, stored, crashes>>
    BY <1>2, AnalysisStep DEF analyze_session
  <2>4. profiles' \in [Attackers -> {NoProfile} \cup ProfileSet]
    BY <2>1, <2>2 DEF Analysed, Accumulated, TypeOK
  <2>5. \A ip \in Known' : IsInjective([i \in DOMAIN profiles[ip].votes |->
                                        profiles[ip].votes[i].intent])'
    <3> SUFFICES ASSUME NEW ip \in Known'
                 PROVE  IsInjective([i \in DOMAIN profiles'[ip].votes |->
                                        profiles'[ip].votes[i].intent])
      OBVIOUS
    <3>1. CASE ip = IpOf[s]
      BY <2>1, <2>2, <3>1 DEF Analysed, Accumulated, OneEach, IsInjective
    <3>2. CASE ip # IpOf[s]
      <4>1. ip \in Known /\ profiles'[ip] = profiles[ip]
        BY <2>2, <3>2 DEF Known
      <4>2. QED  BY <4>1 DEF TypeOK
    <3>3. QED  BY <3>1, <3>2
  <2>6. unsaved = {} /\ pc \in {"idle", "analyze"} /\ pc # "store"
    BY <2>3 DEF TypeOK
  <2>7. stored \in 0 .. Len(analysed')
    BY <2>1 DEF Analysed, TypeOK, ScoreInv
  <2>8. analyses' \in 0 .. MaxAnalyses
    BY <2>3 DEF TypeOK, BehaviorConstants
  <2>9. TypeOK'
    BY <1>0, <2>2, <2>3, <2>4, <2>5, <2>6, <2>7, <2>8 DEF TypeOK
  <2>10. KnownInv'
    <3>1. \A ip \in Known' : Decided(profiles'[ip].votes)
      BY <2>1, <2>2 DEF KnownInv, Analysed, Accumulated, Known
    <3>2. QED  BY <2>2, <3>1 DEF KnownInv
  <2>11. QED  BY <2>9, <2>10
<1>3. CASE cluster_campaigns
  <2>1. PICK label \in [clustered -> Labels], stamp \in [Known -> Labels] :
          /\ profiles' = [ip \in Attackers |->
               IF ip \in Known THEN [profiles[ip] EXCEPT !.campaign_id = stamp[ip]]
               ELSE NoProfile]
          /\ labels' = label
    BY <1>3, ClusterStep
  <2>2. label \in [clustered -> Labels]
    OBVIOUS
  <2>3. \A ip \in Known : /\ profiles'[ip] \in ProfileSet /\ profiles'[ip] # NoProfile
                         /\ profiles'[ip].votes = profiles[ip].votes
                         /\ profiles'[ip].campaign_id = stamp[ip]
    <3> SUFFICES ASSUME NEW ip \in Known
                 PROVE  /\ profiles'[ip] \in ProfileSet /\ profiles'[ip] # NoProfile
                        /\ profiles'[ip].votes = profiles[ip].votes
                        /\ profiles'[ip].campaign_id = stamp[ip]
      OBVIOUS
    <3>1. profiles[ip] \in ProfileSet /\ ip \in Attackers
      BY DEF Known, TypeOK
    <3>2. profiles'[ip] = [profiles[ip] EXCEPT !.campaign_id = stamp[ip]]
      BY <2>1, <3>1
    <3>3. stamp[ip] \in Labels
      OBVIOUS
    <3>4. /\ profiles'[ip] \in ProfileSet
          /\ profiles'[ip].votes = profiles[ip].votes
          /\ profiles'[ip].campaign_id = stamp[ip]
      BY <3>1, <3>2, <3>3 DEF ProfileSet, CampaignIds
    <3>5. QED  BY <3>4 DEF ProfileConstants
  <2>4. Known' = Known
    BY <2>1, <2>3 DEF Known
  <2>5. profiles' \in [Attackers -> {NoProfile} \cup ProfileSet]
    BY <2>1, <2>3
  <2>6. /\ pc = "analyze" /\ todo = {} /\ pc' = "store" /\ unsaved' = Known
        /\ UNCHANGED <<learning, clustered, todo, tables, analysed, stored, bounds>>
    BY <1>3 DEF cluster_campaigns, ToStore
  <2>7. Known # {}
    BY <2>6 DEF KnownInv
  <2>8. \A ip \in Known : profiles'[ip].campaign_id # NoCampaign
    BY <2>3 DEF BehaviorConstants, Labels
  <2>9. TypeOK'
    <3>1. \A ip \in Known' : IsInjective([i \in DOMAIN profiles'[ip].votes |->
                                          profiles'[ip].votes[i].intent])
      BY <2>3, <2>4 DEF TypeOK
    <3>2. labels' \in [DOMAIN labels' -> Labels] /\ DOMAIN labels' \subseteq clustered'
      BY <2>1, <2>2, <2>6
    <3>3. profile_rows' \in [Attackers -> {NoProfile} \cup ProfileSet]
      BY <2>6 DEF TypeOK
    <3>4. /\ learning' \in Learning /\ clustered' \subseteq Sessions
          /\ stored' \in 0 .. Len(analysed') /\ analyses' \in 0 .. MaxAnalyses
          /\ crashes' \in 0 .. MaxCrashes
      BY <2>6 DEF TypeOK
    <3>5. /\ pc' \in {"idle", "analyze", "store"}
          /\ todo' \subseteq Sessions /\ (todo' # {} => pc' = "analyze")
          /\ unsaved' \subseteq Known' /\ (unsaved' # {} <=> pc' = "store")
          /\ \A ip \in unsaved' : profiles'[ip].campaign_id # NoCampaign
      BY <2>4, <2>6, <2>7, <2>8
    <3>6. QED  BY <1>0, <2>5, <3>1, <3>2, <3>3, <3>4, <3>5 DEF TypeOK
  <2>10. KnownInv'
    BY <2>3, <2>4, <2>6 DEF KnownInv
  <2>11. QED  BY <2>9, <2>10
<1>4. ASSUME NEW ip \in Attackers, upsert_profile(ip)
      PROVE  TypeOK' /\ KnownInv'
  <2>1. Known' = Known
    BY <1>4 DEF upsert_profile, Known
  <2>2. profile_rows' \in [Attackers -> {NoProfile} \cup ProfileSet]
    BY <1>4 DEF upsert_profile, TypeOK
  <2>3. CASE unsaved = {ip}
    <3>1. TypeOK'
      BY <1>0, <1>4, <2>1, <2>2, <2>3 DEF upsert_profile, TypeOK, ScoreInv
    <3>2. QED  BY <1>4, <2>1, <2>3, <3>1 DEF upsert_profile, KnownInv
  <2>4. CASE unsaved # {ip}
    <3>1. TypeOK'
      BY <1>0, <1>4, <2>1, <2>2, <2>4 DEF upsert_profile, TypeOK
    <3>2. QED  BY <1>4, <2>1, <2>4, <3>1 DEF upsert_profile, KnownInv
  <2>5. QED  BY <2>3, <2>4
<1>5. CASE Crash
  <2>1. Known' = {}
    BY <1>5 DEF Crash, Known
  <2>2. TypeOK'
    BY <1>0, <1>5, <2>1 DEF Crash, TypeOK, BehaviorConstants
  <2>3. KnownInv'
    BY <1>5, <2>1 DEF Crash, KnownInv
  <2>4. QED  BY <2>2, <2>3
<1>6. CASE UNCHANGED vars
  <2>1. Known' = Known
    BY <1>6 DEF vars, Known
  <2>2. TypeOK'
    BY <1>6, <2>1 DEF vars, TypeOK
  <2>3. KnownInv'
    BY <1>6, <2>1 DEF vars, KnownInv
  <2>4. QED  BY <2>2, <2>3
<1>7. QED  BY <1>1, <1>2, <1>3, <1>4, <1>5, <1>6 DEF Next

LEMMA TypesInvariant == Spec => [](TypeOK /\ KnownInv)
<1>1. Init => TypeOK /\ KnownInv
  <2> SUFFICES ASSUME Init  PROVE TypeOK /\ KnownInv
    OBVIOUS
  <2>1. Known = {}
    BY DEF Init, Known
  <2>2. TypeOK
    BY <2>1 DEF Init, TypeOK, BehaviorConstants
  <2>3. KnownInv
    BY <2>1 DEF Init, KnownInv
  <2>4. QED  BY <2>2, <2>3
<1>2. TypeOK /\ KnownInv /\ ScoreInv /\ ScoreInv' /\ [Next]_vars => (TypeOK /\ KnownInv)'
  BY TypesInductive
<1>3. QED  BY <1>1, <1>2, ScoreInvariant, PTL DEF Spec

\* TypeOK: every variable holds what the code can put there; no profile ever
\* has two entries for one intent, and what waits to be stored has its campaign.
THEOREM TypeCorrect == Spec => []TypeOK
BY TypesInvariant, PTL
-----------------------------------------------------------------------------
(* What the table has of a process's analyses. *)

\* Nothing of this attacker's first n analyses is missing from the profile.
Covers(profile, ip, n) ==
  \A i \in Of(ip, n) :
    /\ profile # NoProfile
    /\ analysed[i].session \in profile.sessions
    /\ analysed[i].ttps \subseteq profile.ttps
    /\ analysed[i].score <= profile.threat_score

\* Profiles in memory cover all analyses, rows those up to the last whole batch,
\* and rows the current batch has written already all of them again.
CoverInv ==
  /\ \A ip \in Attackers : Covers(profiles[ip], ip, Len(analysed))
  /\ \A ip \in Attackers : Covers(profile_rows[ip], ip, stored)
  /\ pc = "store" =>
       \A ip \in Attackers \ unsaved : Covers(profile_rows[ip], ip, Len(analysed))

\* An analysis adds to the profile what it adds to the history.
LEMMA AnalysisKeepsCover ==
  ASSUME TypeOK, KnownInv, ScoreInv, CoverInv, NEW s \in Sessions, analyze_session(s)
  PROVE  CoverInv'
<1>1. PICK after, entry : Analysed(s, after, entry)
  BY AnalysisStep
<1>2. /\ IpOf[s] \in Attackers /\ profiles'[IpOf[s]] = after
      /\ \A ip \in Attackers \ {IpOf[s]} : profiles'[ip] = profiles[ip]
  BY <1>1, KnownAfter
<1>3. /\ UNCHANGED <<pc, profile_rows, stored>>
      /\ pc # "store"
  BY DEF analyze_session, TypeOK
<1> DEFINE n == Len(analysed)
<1>4. /\ n \in Nat /\ Len(analysed') = n + 1
      /\ analysed'[n + 1] = entry
      /\ \A i \in 1 .. n : analysed'[i] = analysed[i]
  BY <1>1 DEF Analysed, ScoreInv, Entries
<1>5. stored \in 0 .. n
  BY DEF TypeOK
<1> HIDE DEF n
<1>6. ASSUME NEW ip \in Attackers
      PROVE  Covers(profile_rows[ip], ip, stored)'
  <2>1. Covers(profile_rows[ip], ip, stored)
    BY DEF CoverInv
  <2>2. \A i \in 1 .. stored : analysed'[i] = analysed[i]
    BY <1>4, <1>5
  <2>3. QED  BY <1>3, <2>1, <2>2 DEF Covers, Of
<1>7. ASSUME NEW ip \in Attackers
      PROVE  Covers(profiles[ip], ip, Len(analysed))'
  <2>1. Covers(profiles[ip], ip, n)
    BY DEF CoverInv, n
  <2>2. SUFFICES ASSUME NEW i \in 1 .. n + 1, IpOf[analysed'[i].session] = ip
                 PROVE  /\ profiles'[ip] # NoProfile
                        /\ analysed'[i].session \in profiles'[ip].sessions
                        /\ analysed'[i].ttps \subseteq profiles'[ip].ttps
                        /\ analysed'[i].score <= profiles'[ip].threat_score
    BY <1>4 DEF Covers, Of
  <2>3. CASE i = n + 1
    <3>1. ip = IpOf[s] /\ profiles'[ip] = after /\ analysed'[i] = entry
      BY <1>1, <1>2, <1>4, <2>2, <2>3 DEF Analysed
    <3>2. QED  BY <1>1, <3>1 DEF Analysed, Accumulated
  <2>4. CASE i # n + 1 /\ ip # IpOf[s]
    <3>1. i \in 1 .. n /\ profiles'[ip] = profiles[ip]
      BY <1>2, <1>4, <2>4
    <3>2. QED  BY <1>4, <2>1, <2>2, <3>1 DEF Covers, Of
  <2>5. CASE i # n + 1 /\ ip = IpOf[s]
    <3>1. i \in 1 .. n /\ profiles'[ip] = after
      BY <1>2, <1>4, <2>5
    <3>2. /\ profiles[ip] # NoProfile
          /\ analysed[i].session \in profiles[ip].sessions
          /\ analysed[i].ttps \subseteq profiles[ip].ttps
          /\ analysed[i].score <= profiles[ip].threat_score
      BY <1>4, <2>1, <2>2, <3>1 DEF Covers, Of
    <3>3. Profile(ip) = profiles[ip]
      BY <3>2 DEF Profile
    <3>4. /\ after # NoProfile
          /\ profiles[ip].sessions \subseteq after.sessions
          /\ profiles[ip].ttps \subseteq after.ttps
          /\ profiles[ip].threat_score <= after.threat_score
      BY <1>1, <2>5, <3>3 DEF Analysed, Accumulated
    <3>5. /\ after \in ProfileSet /\ profiles[ip] \in ProfileSet
      BY <1>1, <3>2 DEF Analysed, Accumulated, TypeOK
    <3>6. analysed[i].score \in Scores
      <4>1. analysed \in Seq(Entries)
        BY DEF ScoreInv, Entries
      <4>2. analysed[i] \in Entries
        BY <3>1, <4>1 DEF n
      <4>3. QED  BY <4>2 DEF Entries
    <3>7. /\ after.threat_score \in Nat /\ profiles[ip].threat_score \in Nat
          /\ analysed[i].score \in Nat
      <4>1. \A p \in ProfileSet : p.threat_score \in Scores
        BY DEF ProfileSet
      <4>2. Scores \subseteq Nat
        BY DEF Scores
      <4>3. QED  BY <3>5, <3>6, <4>1, <4>2
    <3>8. analysed[i].score <= after.threat_score
      BY <3>2, <3>4, <3>7
    <3>9. QED  BY <1>4, <3>1, <3>2, <3>4, <3>8
  <2>6. QED  BY <2>3, <2>4, <2>5
<1>8. QED  BY <1>3, <1>6, <1>7 DEF CoverInv

LEMMA CoverInductive ==
  ASSUME TypeOK, KnownInv, ScoreInv, CoverInv, [Next]_vars
  PROVE  CoverInv'
<1> USE DEF memory, batchVars, tables, history, bounds
<1>1. ASSUME NEW batch \in SUBSET Sessions, analyze_sessions(batch)
      PROVE  CoverInv'
  BY <1>1 DEF analyze_sessions, CoverInv, Covers, Of
<1>2. ASSUME NEW s \in Sessions, analyze_session(s)
      PROVE  CoverInv'
  BY <1>2, AnalysisKeepsCover
<1>3. CASE cluster_campaigns
  <2>1. PICK label \in [clustered -> Labels], stamp \in [Known -> Labels] :
          profiles' = [ip \in Attackers |->
            IF ip \in Known THEN [profiles[ip] EXCEPT !.campaign_id = stamp[ip]]
            ELSE NoProfile]
    BY <1>3, ClusterStep
  <2>2. unsaved' = Known /\ UNCHANGED <<profile_rows, analysed, stored>>
    BY <1>3 DEF cluster_campaigns, ToStore
  <2>3. ASSUME NEW ip \in Attackers
        PROVE  Covers(profiles[ip], ip, Len(analysed))'
    <3>1. Covers(profiles[ip], ip, Len(analysed))
      BY DEF CoverInv
    <3>2. CASE ip \in Known
      <4>1. profiles[ip] \in ProfileSet
        BY <3>2 DEF Known, TypeOK
      <4>2. profiles'[ip] = [profiles[ip] EXCEPT !.campaign_id = stamp[ip]]
        BY <2>1, <3>2
      <4>3. stamp[ip] \in Labels
        BY <3>2
      <4>4. /\ profiles'[ip] \in ProfileSet
            /\ profiles'[ip].sessions = profiles[ip].sessions
            /\ profiles'[ip].ttps = profiles[ip].ttps
            /\ profiles'[ip].threat_score = profiles[ip].threat_score
        BY <4>1, <4>2, <4>3 DEF ProfileSet, CampaignIds
      <4>5. profiles'[ip] # NoProfile
        BY <4>4 DEF ProfileConstants
      <4>6. QED  BY <2>2, <3>1, <4>4, <4>5 DEF Covers, Of
    <3>3. CASE ip \notin Known
      <4>1. profiles[ip] = NoProfile /\ profiles'[ip] = NoProfile
        BY <2>1, <3>3 DEF Known
      <4>2. QED  BY <2>2, <3>1, <4>1 DEF Covers, Of
    <3>4. QED  BY <3>2, <3>3
  <2>4. ASSUME NEW ip \in Attackers
        PROVE  Covers(profile_rows[ip], ip, stored)'
    BY <2>2 DEF CoverInv, Covers, Of
  <2>5. ASSUME NEW ip \in Attackers \ Known
        PROVE  Covers(profile_rows[ip], ip, Len(analysed))'
    <3>1. profiles[ip] = NoProfile /\ Covers(profiles[ip], ip, Len(analysed))
      BY DEF CoverInv, Known
    <3>2. QED  BY <2>2, <3>1 DEF Covers, Of
  <2>6. QED  BY <2>2, <2>3, <2>4, <2>5 DEF CoverInv
<1>4. ASSUME NEW ip \in Attackers, upsert_profile(ip)
      PROVE  CoverInv'
  <2>1. /\ pc = "store" /\ unsaved' = unsaved \ {ip}
        /\ UNCHANGED <<profiles, analysed>>
        /\ profile_rows'[ip] = profiles[ip]
        /\ \A other \in Attackers \ {ip} : profile_rows'[other] = profile_rows[other]
    BY <1>4 DEF upsert_profile, TypeOK
  <2>2. ASSUME NEW other \in Attackers
        PROVE  Covers(profiles[other], other, Len(analysed))'
    BY <2>1 DEF CoverInv, Covers, Of
  <2>3. ASSUME NEW other \in Attackers, other \notin unsaved'
        PROVE  Covers(profile_rows[other], other, Len(analysed))'
    <3>1. CASE other = ip
      BY <2>1, <3>1 DEF CoverInv, Covers, Of
    <3>2. CASE other # ip
      <4>1. Covers(profile_rows[other], other, Len(analysed))
        BY <2>1, <2>3, <3>2 DEF CoverInv
      <4>2. QED  BY <2>1, <3>2, <4>1 DEF Covers, Of
    <3>3. QED  BY <3>1, <3>2
  <2>4. CASE unsaved = {ip}
    <3>1. stored' = Len(analysed) /\ unsaved' = {} /\ pc' = "idle"
      BY <1>4, <2>1, <2>4 DEF upsert_profile
    <3>2. ASSUME NEW other \in Attackers
          PROVE  Covers(profile_rows[other], other, stored)'
      BY <2>1, <2>3, <3>1 DEF Covers, Of
    <3>3. QED  BY <2>2, <3>1, <3>2 DEF CoverInv
  <2>5. CASE unsaved # {ip}
    <3>1. stored' = stored
      BY <1>4, <2>5 DEF upsert_profile
    <3>2. ASSUME NEW other \in Attackers
          PROVE  Covers(profile_rows[other], other, stored)'
      <4>1. CASE other = ip
        <5>1. Covers(profiles[ip], ip, Len(analysed))
          BY DEF CoverInv
        <5>2. \A i \in 1 .. stored : i \in 1 .. Len(analysed)
          BY DEF TypeOK, ScoreInv
        <5>3. QED  BY <2>1, <3>1, <4>1, <5>1, <5>2 DEF Covers, Of
      <4>2. CASE other # ip
        <5>1. Covers(profile_rows[other], other, stored)
          BY DEF CoverInv
        <5>2. QED  BY <2>1, <3>1, <4>2, <5>1 DEF Covers, Of
      <4>3. QED  BY <4>1, <4>2
    <3>3. QED  BY <2>2, <2>3, <3>2 DEF CoverInv
  <2>6. QED  BY <2>4, <2>5
<1>5. CASE Crash
  BY <1>5 DEF Crash, CoverInv, Covers, Of
<1>6. CASE UNCHANGED vars
  BY <1>6 DEF vars, CoverInv, Covers, Of
<1>7. QED  BY <1>1, <1>2, <1>3, <1>4, <1>5, <1>6 DEF Next

\* StoredProfilesSumUp: the stored row of an attacker misses no session, no
\* technique and no peak that this process analysed before its last whole batch,
\* whatever it has done since and wherever it is in the next one.
THEOREM StoredProfilesCover == Spec => []StoredProfilesSumUp
<1>1. Init => CoverInv
  BY DEF Init, CoverInv, Covers, Of
<1>2. TypeOK /\ KnownInv /\ ScoreInv /\ CoverInv /\ [Next]_vars => CoverInv'
  BY CoverInductive
<1>3. CoverInv => StoredProfilesSumUp
  BY DEF CoverInv, Covers, StoredProfilesSumUp
<1>4. QED  BY <1>1, <1>2, <1>3, TypesInvariant, ScoreInvariant, PTL DEF Spec
-----------------------------------------------------------------------------
(* Where a stored peak can fall. *)

\* What this process has stored of an attacker, in a whole batch or in the one it
\* is at, is not above what it knows.
RowBelow(ip) ==
  /\ profiles[ip] # NoProfile /\ profile_rows[ip] # NoProfile
  /\ profile_rows[ip].threat_score <= profiles[ip].threat_score

RowsBelow ==
  \A ip \in Attackers :
    /\ Of(ip, stored) # {} => RowBelow(ip)
    /\ pc = "store" /\ ip \in Known \ unsaved => RowBelow(ip)

\* Scores of profiles are numbers.
LEMMA PeaksAreNumbers ==
  ASSUME NEW p \in ProfileSet
  PROVE  p.threat_score \in Nat
<1>1. p.threat_score \in Scores
  BY DEF ProfileSet
<1>2. Scores \subseteq Nat
  BY DEF Scores
<1>3. QED  BY <1>1, <1>2

LEMMA RowsInductive ==
  ASSUME TypeOK, TypeOK', KnownInv, ScoreInv, CoverInv, RowsBelow, [Next]_vars
  PROVE  RowsBelow'
<1> USE DEF memory, batchVars, tables, history, bounds
<1>1. ASSUME NEW batch \in SUBSET Sessions, analyze_sessions(batch)
      PROVE  RowsBelow'
  BY <1>1 DEF analyze_sessions, RowsBelow, RowBelow, Of
<1>2. ASSUME NEW s \in Sessions, analyze_session(s)
      PROVE  RowsBelow'
  <2>1. PICK after, entry : Analysed(s, after, entry)
    BY <1>2, AnalysisStep
  <2>2. /\ IpOf[s] \in Attackers /\ profiles'[IpOf[s]] = after
        /\ \A ip \in Attackers \ {IpOf[s]} : profiles'[ip] = profiles[ip]
    BY <2>1, KnownAfter
  <2>3. /\ UNCHANGED <<pc, profile_rows, stored>>
        /\ pc # "store"
    BY <1>2 DEF analyze_session, TypeOK
  <2>4. \A i \in 1 .. stored : analysed'[i] = analysed[i]
    BY <2>1 DEF Analysed, ScoreInv, Entries, TypeOK
  <2>5. ASSUME NEW ip \in Attackers, Of(ip, stored)' # {}
        PROVE  RowBelow(ip)'
    <3>1. RowBelow(ip)
      BY <2>3, <2>4, <2>5 DEF Of, RowsBelow
    <3>2. CASE ip # IpOf[s]
      BY <2>2, <2>3, <3>1, <3>2 DEF RowBelow
    <3>3. CASE ip = IpOf[s]
      <4>1. Profile(ip) = profiles[ip]
        BY <3>1 DEF Profile, RowBelow
      <4>2. /\ after \in ProfileSet /\ after # NoProfile
            /\ profiles[ip].threat_score <= after.threat_score
        BY <2>1, <3>3, <4>1 DEF Analysed, Accumulated
      <4>3. profiles[ip] \in ProfileSet /\ profile_rows[ip] \in ProfileSet
        BY <3>1 DEF RowBelow, TypeOK
      <4>4. /\ after.threat_score \in Nat /\ profiles[ip].threat_score \in Nat
            /\ profile_rows[ip].threat_score \in Nat
        BY <4>2, <4>3, PeaksAreNumbers
      <4>5. QED  BY <2>2, <2>3, <3>1, <3>3, <4>2, <4>4 DEF RowBelow
    <3>4. QED  BY <3>2, <3>3
  <2>6. QED  BY <2>3, <2>5 DEF RowsBelow
<1>3. CASE cluster_campaigns
  <2>1. PICK label \in [clustered -> Labels], stamp \in [Known -> Labels] :
          profiles' = [ip \in Attackers |->
            IF ip \in Known THEN [profiles[ip] EXCEPT !.campaign_id = stamp[ip]]
            ELSE NoProfile]
    BY <1>3, ClusterStep
  <2>2. unsaved' = Known /\ UNCHANGED <<profile_rows, analysed, stored>>
    BY <1>3 DEF cluster_campaigns, ToStore
  <2>3. Known' \ unsaved' = {}
    BY <2>1, <2>2 DEF Known
  <2>4. ASSUME NEW ip \in Attackers, Of(ip, stored)' # {}
        PROVE  RowBelow(ip)'
    <3>1. RowBelow(ip)
      BY <2>2, <2>4 DEF Of, RowsBelow
    <3>2. ip \in Known /\ profiles[ip] \in ProfileSet
      BY <3>1 DEF Known, RowBelow, TypeOK
    <3>3. profiles'[ip] = [profiles[ip] EXCEPT !.campaign_id = stamp[ip]]
      BY <2>1, <3>2
    <3>4. stamp[ip] \in Labels
      BY <3>2
    <3>5. /\ profiles'[ip] \in ProfileSet
          /\ profiles'[ip].threat_score = profiles[ip].threat_score
      BY <3>2, <3>3, <3>4 DEF ProfileSet, CampaignIds
    <3>6. profiles'[ip] # NoProfile
      BY <3>5 DEF ProfileConstants
    <3>7. QED  BY <2>2, <3>1, <3>5, <3>6 DEF RowBelow
  <2>5. QED  BY <2>3, <2>4 DEF RowsBelow
<1>4. ASSUME NEW ip \in Attackers, upsert_profile(ip)
      PROVE  RowsBelow'
  <2>1. /\ pc = "store" /\ ip \in unsaved /\ unsaved' = unsaved \ {ip}
        /\ UNCHANGED <<profiles, analysed>>
        /\ profile_rows'[ip] = profiles[ip]
        /\ \A other \in Attackers \ {ip} : profile_rows'[other] = profile_rows[other]
    BY <1>4 DEF upsert_profile, TypeOK
  <2>2. RowBelow(ip)'
    <3>1. profiles[ip] # NoProfile /\ profiles[ip] \in ProfileSet
      BY <2>1 DEF Known, TypeOK
    <3>2. profiles[ip].threat_score \in Nat
      BY <3>1, PeaksAreNumbers
    <3>3. QED  BY <2>1, <3>1, <3>2 DEF RowBelow
  <2>3. ASSUME NEW other \in Known \ unsaved'
        PROVE  RowBelow(other)'
    <3>1. CASE other = ip
      BY <2>2, <3>1
    <3>2. CASE other # ip
      <4>1. other \in Attackers /\ RowBelow(other)
        BY <2>1, <2>3, <3>2 DEF RowsBelow, Known
      <4>2. QED  BY <2>1, <3>2, <4>1 DEF RowBelow
    <3>3. QED  BY <3>1, <3>2
  <2>4. Known' = Known
    BY <2>1 DEF Known
  <2>5. CASE unsaved = {ip}
    <3>1. stored' = Len(analysed) /\ unsaved' = {}
      BY <1>4, <2>1, <2>5 DEF upsert_profile
    <3>2. ASSUME NEW other \in Attackers, Of(other, stored)' # {}
          PROVE  other \in Known
      <4>1. Of(other, Len(analysed)) # {}
        BY <2>1, <3>1, <3>2 DEF Of
      <4>2. QED  BY <4>1 DEF CoverInv, Covers, Known
    <3>3. QED  BY <2>3, <2>4, <3>1, <3>2 DEF RowsBelow
  <2>6. CASE unsaved # {ip}
    <3>1. stored' = stored
      BY <1>4, <2>6 DEF upsert_profile
    <3>2. ASSUME NEW other \in Attackers, Of(other, stored)' # {}
          PROVE  RowBelow(other)'
      <4>1. CASE other = ip
        BY <2>2, <4>1
      <4>2. CASE other # ip
        <5>1. RowBelow(other)
          BY <2>1, <3>1, <3>2 DEF Of, RowsBelow
        <5>2. QED  BY <2>1, <4>2, <5>1 DEF RowBelow
      <4>3. QED  BY <4>1, <4>2
    <3>3. QED  BY <2>3, <2>4, <3>2 DEF RowsBelow
  <2>7. QED  BY <2>5, <2>6
<1>5. CASE Crash
  BY <1>5 DEF Crash, RowsBelow, Of
<1>6. CASE UNCHANGED vars
  BY <1>6 DEF vars, RowsBelow, RowBelow, Of, Known
<1>7. QED  BY <1>1, <1>2, <1>3, <1>4, <1>5, <1>6 DEF Next

\* A row changes only where its profile is stored, so the invariant says where
\* its score can be lower than it was.
LEMMA RowsFallAnew ==
  ASSUME TypeOK, RowsBelow, [Next]_vars, NEW ip \in Attackers,
         profile_rows[ip] # NoProfile,
         profile_rows'[ip].threat_score < profile_rows[ip].threat_score
  PROVE  Of(ip, stored) = {}
<1> USE DEF memory, batchVars, tables, history, bounds
<1>1. profile_rows[ip].threat_score \in Nat
  BY PeaksAreNumbers DEF TypeOK
<1>2. profile_rows'[ip] # profile_rows[ip]
  BY <1>1
<1>3. PICK other \in Attackers : upsert_profile(other)
  BY <1>2 DEF Next, vars, analyze_sessions, analyze_session, analyze, update,
              write_session_analysis, cluster_campaigns, Crash
<1>4. profile_rows'[ip] = profiles[ip]
  BY <1>2, <1>3 DEF upsert_profile, TypeOK
<1>5. SUFFICES ASSUME Of(ip, stored) # {}
               PROVE  FALSE
  OBVIOUS
<1>6. RowBelow(ip)
  BY <1>5 DEF RowsBelow
<1>7. profiles[ip].threat_score \in Nat
  BY <1>6, PeaksAreNumbers DEF RowBelow, TypeOK
<1>8. QED  BY <1>1, <1>4, <1>6, <1>7 DEF RowBelow

\* PeaksFallOnlyAnew: a stored peak falls only at a process's first row of the
\* attacker.
THEOREM StoredPeaksFallOnlyAnew == Spec => PeaksFallOnlyAnew
<1>1. Init => RowsBelow
  BY DEF Init, RowsBelow, Of
<1>2. /\ TypeOK /\ TypeOK' /\ KnownInv /\ ScoreInv /\ CoverInv /\ RowsBelow /\ [Next]_vars
      => RowsBelow'
  BY RowsInductive
<1>3. TypeOK /\ RowsBelow /\ [Next]_vars
      => [\A ip \in Attackers :
            /\ profile_rows[ip] # NoProfile
            /\ profile_rows'[ip].threat_score < profile_rows[ip].threat_score
            => Of(ip, stored) = {}]_vars
  BY RowsFallAnew
<1>4. Init => CoverInv
  BY DEF Init, CoverInv, Covers, Of
<1>5. TypeOK /\ KnownInv /\ ScoreInv /\ CoverInv /\ [Next]_vars => CoverInv'
  BY CoverInductive
<1>6. QED
  BY <1>1, <1>2, <1>3, <1>4, <1>5, TypesInvariant, ScoreInvariant, PTL
  DEF Spec, PeaksFallOnlyAnew
-----------------------------------------------------------------------------
(* Campaigns. *)

\* Attackers are known by their clustered sessions, and those are finitely many.
ClusterInv ==
  /\ IsFiniteSet(clustered)
  /\ \A s \in clustered : IpOf[s] \in Known
  /\ \A ip \in Known : \E s \in clustered : IpOf[s] = ip

\* What a campaign says of this attacker's sessions under these labels.
Follows(campaign, label, ip) ==
  /\ campaign = NoCampaign <=> \A s \in DOMAIN label : IpOf[s] # ip
  /\ campaign \in Nat =>
       /\ \E s \in DOMAIN label : IpOf[s] = ip /\ label[s] = campaign
       /\ HaveSklearn => \E s, t \in Members(label, campaign) : s # t
  /\ campaign = -1 => /\ \E s \in DOMAIN label : IpOf[s] = ip
                      /\ \A s \in DOMAIN label : IpOf[s] = ip => label[s] = -1

LEMMA FollowsEach ==
  CampaignsFollowSessions <=> \A ip \in Known : Follows(profiles[ip].campaign_id, labels, ip)
<1> DEFINE mine(ip) == {labels[s] : s \in {t \in DOMAIN labels : IpOf[t] = ip}}
<1>1. ASSUME NEW ip
      PROVE  /\ mine(ip) = {} <=> \A s \in DOMAIN labels : IpOf[s] # ip
             /\ \A c : c \in mine(ip) <=> \E s \in DOMAIN labels : IpOf[s] = ip /\ labels[s] = c
             /\ mine(ip) = {-1} <=>
                  /\ \E s \in DOMAIN labels : IpOf[s] = ip
                  /\ \A s \in DOMAIN labels : IpOf[s] = ip => labels[s] = -1
  <2>1. \A c : c \in mine(ip) <=> \E s \in DOMAIN labels : IpOf[s] = ip /\ labels[s] = c
    OBVIOUS
  <2> HIDE DEF mine
  <2>2. mine(ip) = {} <=> \A c : c \notin mine(ip)
    OBVIOUS
  <2>3. mine(ip) = {-1} <=> (-1 \in mine(ip) /\ \A c : c \in mine(ip) => c = -1)
    OBVIOUS
  <2>4. QED  BY <2>1, <2>2, <2>3
<1>2. CampaignsFollowSessions <=> \A ip \in Known :
        /\ profiles[ip].campaign_id = NoCampaign <=> mine(ip) = {}
        /\ profiles[ip].campaign_id \in Nat =>
             /\ profiles[ip].campaign_id \in mine(ip)
             /\ HaveSklearn =>
                  \E s, t \in Members(labels, profiles[ip].campaign_id) : s # t
        /\ profiles[ip].campaign_id = -1 => mine(ip) = {-1}
  BY DEF CampaignsFollowSessions
<1> HIDE DEF mine
<1>3. ASSUME NEW ip, NEW campaign
      PROVE  Follows(campaign, labels, ip) <=>
        /\ campaign = NoCampaign <=> mine(ip) = {}
        /\ campaign \in Nat =>
             /\ campaign \in mine(ip)
             /\ HaveSklearn => \E s, t \in Members(labels, campaign) : s # t
        /\ campaign = -1 => mine(ip) = {-1}
  BY <1>1 DEF Follows
<1>4. QED  BY <1>2, <1>3

\* What _stamp may choose for an attacker with a session among those labelled.
LEMMA StampFollows ==
  ASSUME NEW sessions \in SUBSET Sessions, IsFiniteSet(sessions),
         NEW label \in Labellings(sessions), NEW ip,
         \E s \in sessions : IpOf[s] = ip,
         NEW c \in MostCommon(label, ip)
  PROVE  /\ c \in Labels
         /\ c \in Nat =>
              /\ \E s \in sessions : IpOf[s] = ip /\ label[s] = c
              /\ HaveSklearn => \E s, t \in Members(label, c) : s # t
         /\ c = -1 => \A s \in sessions : IpOf[s] = ip => label[s] = -1
<1>1. label \in [sessions -> Labels] /\ Range(label) \subseteq Labels
  BY LabelTypes
<1>2. CASE \A s \in sessions : IpOf[s] = ip => label[s] = -1
  <2>1. c = -1
    BY <1>1, <1>2 DEF MostCommon
  <2>2. QED  BY <1>2, <2>1 DEF Labels
<1>3. CASE ~\A s \in sessions : IpOf[s] = ip => label[s] = -1
  <2>1. c \in Campaigns(label) /\ \A d \in Campaigns(label) :
          Cardinality(Share(label, ip, d)) <= Cardinality(Share(label, ip, c))
    BY <1>1, <1>3 DEF MostCommon
  <2>2. \A d : Share(label, ip, d) = {s \in sessions : IpOf[s] = ip /\ label[s] = d}
    BY <1>1 DEF Share, Members
  <2>3. \A d : /\ IsFiniteSet(Share(label, ip, d))
               /\ Cardinality(Share(label, ip, d)) \in Nat
    <3>1. \A d : Share(label, ip, d) \in SUBSET sessions
      BY <2>2
    <3>2. QED  BY <3>1, FS_Subset, FS_CardinalityType
  <2>4. PICK r \in sessions : IpOf[r] = ip /\ label[r] # -1
    BY <1>3
  <2>5. label[r] \in Campaigns(label) /\ r \in Share(label, ip, label[r])
    BY <1>1, <2>2, <2>4 DEF Campaigns, Range
  <2>6. Cardinality(Share(label, ip, label[r])) # 0
    BY <2>3, <2>5, FS_EmptySet
  <2>7. Cardinality(Share(label, ip, c)) # 0
    BY <2>1, <2>3, <2>5, <2>6
  <2>8. PICK s : s \in Share(label, ip, c)
    BY <2>3, <2>7, FS_EmptySet
  <2>9. s \in sessions /\ IpOf[s] = ip /\ label[s] = c
    BY <2>2, <2>8
  <2>10. c \in Labels /\ c # -1
    BY <1>1, <2>1 DEF Campaigns
  <2>11. ASSUME HaveSklearn
         PROVE  \E x, t \in Members(label, c) : x # t
    <3>1. ~(Cardinality(sessions) < min_samples)
      BY <2>9, <2>10 DEF Labellings
    <3>2. Clustered(label)
      BY <2>11, <3>1 DEF Labellings
    <3>3. Cardinality(Members(label, c)) >= min_samples
      BY <2>1, <3>2 DEF Clustered
    <3>4. IsFiniteSet(Members(label, c)) /\ s \in Members(label, c)
      <4>1. Members(label, c) \in SUBSET sessions
        BY <1>1 DEF Members
      <4>2. s \in Members(label, c)
        BY <1>1, <2>9 DEF Members
      <4>3. QED  BY <4>1, <4>2, FS_Subset
    <3>5. Members(label, c) # {s}
      <4>1. Cardinality({s}) = 1
        BY FS_Singleton
      <4>2. QED  BY <3>3, <4>1 DEF min_samples
    <3>6. QED  BY <3>4, <3>5
  <2>12. QED  BY <2>9, <2>10, <2>11
<1>4. QED  BY <1>2, <1>3

LEMMA CampaignsInductive ==
  ASSUME TypeOK, KnownInv, ScoreInv, ClusterInv, CampaignsFollowSessions, [Next]_vars
  PROVE  ClusterInv' /\ CampaignsFollowSessions'
<1> USE DEF memory, batchVars, tables, history, bounds
<1>1. ASSUME UNCHANGED <<learning, profiles, clustered, labels>>
      PROVE  ClusterInv' /\ CampaignsFollowSessions'
  <2>1. Known' = Known
    BY <1>1 DEF Known
  <2>2. ClusterInv'
    BY <1>1, <2>1 DEF ClusterInv
  <2>3. CampaignsFollowSessions'
    <3>1. HaveSklearn' <=> HaveSklearn
      BY <1>1 DEF HaveSklearn
    <3>2. \A c : Members(labels, c)' = Members(labels, c)
      BY <1>1 DEF Members
    <3>3. labels' = labels /\ profiles' = profiles
      BY <1>1
    <3>4. QED  BY <2>1, <3>1, <3>2, <3>3 DEF CampaignsFollowSessions
  <2>4. QED  BY <2>2, <2>3
<1>2. ASSUME NEW s \in Sessions, analyze_session(s)
      PROVE  ClusterInv' /\ CampaignsFollowSessions'
  <2>1. PICK after, entry : Analysed(s, after, entry)
    BY <1>2, AnalysisStep
  <2>2. /\ IpOf[s] \in Attackers /\ profiles'[IpOf[s]] = after
        /\ \A ip \in Attackers \ {IpOf[s]} : profiles'[ip] = profiles[ip]
        /\ Known' = Known \cup {IpOf[s]}
    BY <2>1, KnownAfter
  <2>3. clustered' = clustered \cup {s} /\ labels' = labels /\ learning' = learning
    BY <1>2, AnalysisStep DEF analyze_session
  <2>4. ClusterInv'
    <3>1. IsFiniteSet(clustered')
      BY <2>3, FS_AddElement DEF ClusterInv
    <3>2. QED  BY <2>2, <2>3, <3>1 DEF ClusterInv
  <2>5. after.campaign_id = Profile(IpOf[s]).campaign_id
    BY <2>1 DEF Analysed, Accumulated
  <2>6. DOMAIN labels \subseteq clustered
    BY DEF TypeOK
  <2>7. \A ip \in Known : profiles'[ip].campaign_id = profiles[ip].campaign_id
    BY <2>2, <2>5 DEF Known, Profile
  <2>8. \A ip \in Known' \ Known :
          /\ profiles'[ip].campaign_id = NoCampaign
          /\ \A t \in DOMAIN labels : IpOf[t] # ip
    <3>1. SUFFICES ASSUME IpOf[s] \notin Known
                   PROVE  /\ after.campaign_id = NoCampaign
                          /\ \A t \in DOMAIN labels : IpOf[t] # IpOf[s]
      BY <2>2
    <3>2. Profile(IpOf[s]) = NewProfile
      BY <2>2, <3>1 DEF Known, Profile
    <3>3. after.campaign_id = NoCampaign
      BY <2>5, <3>2 DEF NewProfile
    <3>4. QED  BY <2>6, <3>1, <3>3 DEF ClusterInv
  <2>9. ASSUME NEW ip \in Known'
        PROVE  Follows(profiles'[ip].campaign_id, labels, ip)
    <3>1. CASE ip \in Known
      <4>1. profiles'[ip].campaign_id = profiles[ip].campaign_id
        BY <2>7, <3>1
      <4>2. QED  BY <3>1, <4>1, FollowsEach
    <3>2. CASE ip \notin Known
      <4>1. /\ profiles'[ip].campaign_id = NoCampaign
            /\ \A t \in DOMAIN labels : IpOf[t] # ip
        BY <2>8, <3>2
      <4>2. NoCampaign \notin Nat /\ NoCampaign # -1
        BY DEF BehaviorConstants
      <4>3. QED  BY <4>1, <4>2 DEF Follows
    <3>3. QED  BY <3>1, <3>2
  <2>10. CampaignsFollowSessions'
    <3>1. (\A ip \in Known : Follows(profiles[ip].campaign_id, labels, ip))'
      BY <2>3, <2>9 DEF Follows, HaveSklearn, Members
    <3>2. QED  BY <3>1, FollowsEach, PTL
  <2>11. QED  BY <2>4, <2>10
<1>3. CASE cluster_campaigns
  <2>1. PICK label \in [clustered -> Labels], stamp \in [Known -> Labels] :
            /\ label \in Labellings(clustered)
            /\ \A ip \in Known : stamp[ip] \in MostCommon(label, ip)
            /\ profiles' = [ip \in Attackers |->
                 IF ip \in Known THEN [profiles[ip] EXCEPT !.campaign_id = stamp[ip]]
                 ELSE NoProfile]
            /\ labels' = label
    BY <1>3, ClusterStep
  <2>2. learning' = learning
    BY <1>3 DEF cluster_campaigns
  <2>4. \A ip \in Known : profiles'[ip] # NoProfile /\ profiles'[ip].campaign_id = stamp[ip]
    <3> SUFFICES ASSUME NEW ip \in Known
                 PROVE  profiles'[ip] # NoProfile /\ profiles'[ip].campaign_id = stamp[ip]
      OBVIOUS
    <3>1. profiles[ip] \in ProfileSet /\ ip \in Attackers
      BY DEF Known, TypeOK
    <3>2. profiles'[ip] = [profiles[ip] EXCEPT !.campaign_id = stamp[ip]]
      BY <2>1, <3>1
    <3>3. stamp[ip] \in Labels
      OBVIOUS
    <3>4. profiles'[ip] \in ProfileSet /\ profiles'[ip].campaign_id = stamp[ip]
      BY <3>1, <3>2, <3>3 DEF ProfileSet, CampaignIds
    <3>5. QED  BY <3>4 DEF ProfileConstants
  <2>5. Known' = Known
    BY <2>1, <2>4 DEF Known
  <2>6. ClusterInv'
    BY <1>3, <2>5 DEF cluster_campaigns, ClusterInv
  <2>7. ASSUME NEW ip \in Known
        PROVE  Follows(stamp[ip], label, ip)
    <3>1. clustered \in SUBSET Sessions /\ IsFiniteSet(clustered)
      BY DEF TypeOK, ClusterInv
    <3>2. \E r \in clustered : IpOf[r] = ip
      BY DEF ClusterInv
    <3>3. stamp[ip] \in MostCommon(label, ip)
      BY <2>1
    <3>4. /\ stamp[ip] \in Labels
          /\ stamp[ip] \in Nat =>
               /\ \E r \in clustered : IpOf[r] = ip /\ label[r] = stamp[ip]
               /\ HaveSklearn => \E r, t \in Members(label, stamp[ip]) : r # t
          /\ stamp[ip] = -1 => \A r \in clustered : IpOf[r] = ip => label[r] = -1
      BY <2>1, <3>1, <3>2, <3>3, StampFollows
    <3>5. stamp[ip] # NoCampaign
      BY <3>4 DEF BehaviorConstants, Labels
    <3>6. DOMAIN label = clustered
      BY <2>1
    <3>7. QED  BY <3>2, <3>4, <3>5, <3>6 DEF Follows
  <2>8. CampaignsFollowSessions'
    <3>1. HaveSklearn' = HaveSklearn
      BY <2>2 DEF HaveSklearn
    <3>2. ASSUME NEW ip \in Known'
          PROVE  Follows(profiles[ip].campaign_id, labels, ip)'
      <4>1. Follows(profiles'[ip].campaign_id, labels', ip)
        BY <2>1, <2>4, <2>5, <2>7
      <4>2. QED  BY <3>1, <4>1 DEF Follows, Members
    <3>3. (\A ip \in Known : Follows(profiles[ip].campaign_id, labels, ip))'
      BY <3>2
    <3>4. QED  BY <3>3, FollowsEach, PTL
  <2>9. QED  BY <2>6, <2>8
<1>4. CASE Crash
  <2>1. Known' = {} /\ clustered' = {}
    BY <1>4 DEF Crash, Known
  <2>2. QED  BY <2>1, FS_EmptySet DEF ClusterInv, CampaignsFollowSessions
<1>5. QED
  BY <1>1, <1>2, <1>3, <1>4 DEF Next, analyze_sessions, upsert_profile, vars

\* CampaignsFollowSessions: a stamp is a campaign one of the attacker's sessions is
\* in (with scikit-learn together with another session), noise only when none of
\* them is in any, and absent exactly before the first batch with them; whatever
\* DBSCAN or the fallback answers.
THEOREM CampaignsAreSessions == Spec => []CampaignsFollowSessions
<1>1. Init => ClusterInv /\ CampaignsFollowSessions
  <2> SUFFICES ASSUME Init  PROVE ClusterInv /\ CampaignsFollowSessions
    OBVIOUS
  <2>1. Known = {} /\ clustered = {}
    BY DEF Init, Known
  <2>2. QED  BY <2>1, FS_EmptySet DEF ClusterInv, CampaignsFollowSessions
<1>2. /\ TypeOK /\ KnownInv /\ ScoreInv
      /\ ClusterInv /\ CampaignsFollowSessions /\ [Next]_vars
      => ClusterInv' /\ CampaignsFollowSessions'
  BY CampaignsInductive
<1>3. QED  BY <1>1, <1>2, TypesInvariant, ScoreInvariant, PTL DEF Spec
-----------------------------------------------------------------------------
(* What a history of analyses says of an attacker. *)

Mine(an, ip) == {i \in DOMAIN an : IpOf[an[i].session] = ip}

\* The votes for an intent, with their weights.
Weighs(an) == [i \in DOMAIN an |-> AtLeast(an[i].prediction.conf, 1)]
Backing(an, intent, ip) == {i \in Mine(an, ip) : an[i].prediction.intent = intent}
Tally(an, intent, ip) == Cardinality(Units(Weighs(an), Backing(an, intent, ip)))

\* What these analyses show.
SessionsOf(an, S) == {an[i].session : i \in S}
TtpsOf(an, S) == UNION {an[i].ttps : i \in S}
StartsOf(an, S) == {StartOf[an[i].session] : i \in S} \ {0}
Starts(an, ip) == StartsOf(an, Mine(an, ip))

\* Sessions end after they start.
InOrder == \A s \in Sessions : EndOf[s] = 0 \/ StartOf[s] <= EndOf[s]

\* Each entry has all votes for its intent, and an intent without one has none.
Tallied(votes, an, ip) ==
  /\ \A k \in DOMAIN votes : votes[k].weight = Tally(an, votes[k].intent, ip)
  /\ \A intent \in Intents :
       (\A k \in DOMAIN votes : votes[k].intent # intent) => Tally(an, intent, ip) = 0

PeakOf(top, an, ip) ==
  /\ \A i \in Mine(an, ip) : an[i].score <= top
  /\ IF Mine(an, ip) = {} THEN top = 0 ELSE \E i \in Mine(an, ip) : an[i].score = top

FirstOf(first, an, ip) ==
  IF Starts(an, ip) = {} THEN first = 0
  ELSE first \in Starts(an, ip) /\ \A t \in Starts(an, ip) : first <= t

\* The profile is what the attacker's part of the history adds up to.
Summarised(p, an, ip) ==
  /\ p.sessions = SessionsOf(an, Mine(an, ip))
  /\ p.ttps = TtpsOf(an, Mine(an, ip))
  /\ PeakOf(p.threat_score, an, ip)
  /\ FirstOf(p.first_seen, an, ip)
  /\ InOrder => p.first_seen = 0 \/ p.first_seen <= p.last_seen
  /\ Tallied(p.votes, an, ip)

\* One analysis more, e, of a history.
Longer(an, e, more) ==
  /\ an \in Seq(Entries) /\ e \in Entries
  /\ more \in Seq(Entries)
  /\ Len(an) \in Nat /\ Len(more) = Len(an) + 1
  /\ DOMAIN an = 1 .. Len(an) /\ DOMAIN more = DOMAIN an \cup {Len(more)}
  /\ Len(more) \notin DOMAIN an
  /\ more[Len(more)] = e
  /\ \A i \in DOMAIN an : more[i] = an[i] /\ an[i] \in Entries

LEMMA LongerIs ==
  ASSUME NEW an \in Seq(Entries), NEW e \in Entries
  PROVE  Longer(an, e, Append(an, e))
<1> DEFINE more == Append(an, e)
<1>1. more \in Seq(Entries) /\ Len(an) \in Nat /\ Len(more) = Len(an) + 1
  OBVIOUS
<1>2. DOMAIN an = 1 .. Len(an) /\ DOMAIN more = 1 .. Len(an) + 1
  BY <1>1
<1>3. more[Len(an) + 1] = e /\ \A i \in 1 .. Len(an) : more[i] = an[i] /\ an[i] \in Entries
  OBVIOUS
<1> HIDE DEF more
<1>4. DOMAIN more = DOMAIN an \cup {Len(more)} /\ Len(more) \notin DOMAIN an
  BY <1>1, <1>2
<1>5. QED  BY <1>1, <1>2, <1>3, <1>4 DEF Longer, more

LEMMA EntryFields ==
  ASSUME NEW e \in Entries
  PROVE  /\ e.session \in Sessions /\ IpOf[e.session] \in Attackers
         /\ StartOf[e.session] \in Nat /\ EndOf[e.session] \in Nat
         /\ e.prediction.intent \in Intents /\ e.prediction.conf \in 0 .. 100
         /\ e.ttps \in SUBSET Techniques /\ e.score \in Nat
         /\ AtLeast(e.prediction.conf, 1) \in Nat
<1>1. /\ e.session \in Sessions /\ e.prediction \in Predictions
      /\ e.ttps \in SUBSET Techniques /\ e.score \in Scores
  BY DEF Entries
<1>2. e.prediction.intent \in Intents /\ e.prediction.conf \in 0 .. 100
  BY <1>1 DEF Predictions
<1>3. AtLeast(e.prediction.conf, 1) \in Nat
  BY <1>2 DEF AtLeast
<1>4. IpOf[e.session] \in Attackers /\ StartOf[e.session] \in Nat /\ EndOf[e.session] \in Nat
  <2>1. \A s \in Sessions : IpOf[s] \in Attackers /\ StartOf[s] \in Nat /\ EndOf[s] \in Nat
    BY DEF BehaviorConstants
  <2>2. QED  BY <1>1, <2>1
<1>5. e.score \in Nat
  BY <1>1 DEF Scores
<1>6. QED  BY <1>1, <1>2, <1>3, <1>4, <1>5

\* Whose analysis it is.
LEMMA MineAfter ==
  ASSUME NEW an, NEW e, NEW more, Longer(an, e, more), NEW ip
  PROVE  /\ Mine(an, ip) \subseteq DOMAIN an
         /\ Len(more) \notin Mine(an, ip)
         /\ \A i \in Mine(an, ip) : more[i] = an[i]
         /\ IpOf[e.session] = ip => Mine(more, ip) = Mine(an, ip) \cup {Len(more)}
         /\ IpOf[e.session] # ip => Mine(more, ip) = Mine(an, ip)
BY DEF Mine, Longer

\* The attacker's own history is longer by the analysis.
LEMMA MineMore ==
  ASSUME NEW an, NEW e, NEW more, Longer(an, e, more)
  PROVE  /\ Mine(more, IpOf[e.session]) = Mine(an, IpOf[e.session]) \cup {Len(more)}
         /\ more[Len(more)] = e /\ e \in Entries
         /\ \A i \in Mine(an, IpOf[e.session]) : more[i] = an[i] /\ an[i] \in Entries
<1> DEFINE ip == IpOf[e.session]
<1>1. /\ Mine(more, ip) = Mine(an, ip) \cup {Len(more)}
      /\ Mine(an, ip) \subseteq DOMAIN an
  BY MineAfter
<1> HIDE DEF ip
<1>2. /\ more[Len(more)] = e /\ e \in Entries
      /\ \A i \in DOMAIN an : more[i] = an[i] /\ an[i] \in Entries
  BY DEF Longer
<1>3. QED  BY <1>1, <1>2 DEF ip

\* What the attacker's history shows, after one more.
LEMMA HistoryAfter ==
  ASSUME NEW an, NEW e, NEW more, Longer(an, e, more)
  PROVE  LET mine == Mine(an, IpOf[e.session])
             now == Mine(more, IpOf[e.session])
         IN  /\ SessionsOf(more, now) = SessionsOf(an, mine) \cup {e.session}
             /\ TtpsOf(more, now) = TtpsOf(an, mine) \cup e.ttps
<1> DEFINE S == Mine(an, IpOf[e.session])
           x == Len(more)
           now == Mine(more, IpOf[e.session])
<1>1. now = S \cup {x} /\ more[x] = e /\ \A i \in S : more[i] = an[i]
  BY MineMore
<1> HIDE DEF S, x, now
<1> HIDE DEF Longer
<1>2. SessionsOf(more, now) = SessionsOf(an, S) \cup {e.session}
  BY <1>1 DEF SessionsOf
<1>3. TtpsOf(more, now) = TtpsOf(an, S) \cup e.ttps
  <2> DEFINE T == {an[i].ttps : i \in S}
  <2>1. {more[i].ttps : i \in now} = T \cup {e.ttps}
    BY <1>1
  <2>2. TtpsOf(more, now) = UNION (T \cup {e.ttps})
    BY <2>1 DEF TtpsOf
  <2> HIDE DEF T
  <2>3. UNION (T \cup {e.ttps}) = (UNION T) \cup e.ttps
    OBVIOUS
  <2>4. QED  BY <2>2, <2>3 DEF TtpsOf, T
<1>4. QED  BY <1>2, <1>3 DEF S, now

\* Units depend on the weights of the elements only.
LEMMA UnitsSame ==
  ASSUME NEW S, NEW w, NEW v, \A x \in S : v[x] = w[x]
  PROVE  Units(v, S) = Units(w, S)
BY DEF Units

LEMMA BackingFinite ==
  ASSUME NEW an \in Seq(Entries), NEW intent, NEW ip
  PROVE  /\ IsFiniteSet(Backing(an, intent, ip))
         /\ \A i \in Backing(an, intent, ip) : Weighs(an)[i] \in Nat
<1>1. Backing(an, intent, ip) \in SUBSET (1 .. Len(an)) /\ Len(an) \in Nat
  BY DEF Backing, Mine
<1>2. IsFiniteSet(1 .. Len(an))
  BY <1>1, FS_Interval
<1>3. IsFiniteSet(Backing(an, intent, ip))
  BY <1>1, <1>2, FS_Subset
<1>4. ASSUME NEW i \in Backing(an, intent, ip)
      PROVE  Weighs(an)[i] \in Nat
  <2>1. i \in DOMAIN an /\ an[i] \in Entries
    BY <1>1
  <2>2. AtLeast(an[i].prediction.conf, 1) \in Nat
    BY <2>1, EntryFields
  <2>3. QED  BY <2>1, <2>2 DEF Weighs
<1>5. QED  BY <1>3, <1>4

\* The tallies after one more analysis.
LEMMA TallyAfter ==
  ASSUME NEW an, NEW e, NEW more, Longer(an, e, more), NEW ip, NEW intent
  PROVE  Tally(more, intent, ip) =
           IF IpOf[e.session] = ip /\ e.prediction.intent = intent
           THEN Tally(an, intent, ip) + AtLeast(e.prediction.conf, 1)
           ELSE Tally(an, intent, ip)
<1> DEFINE B == Backing(an, intent, ip)
           x == Len(more)
<1>1. /\ an \in Seq(Entries) /\ more \in Seq(Entries) /\ e \in Entries
      /\ DOMAIN more = DOMAIN an \cup {x} /\ x \notin DOMAIN an /\ more[x] = e
      /\ \A i \in DOMAIN an : more[i] = an[i]
  BY DEF Longer
<1>2. \A i \in DOMAIN an : Weighs(more)[i] = Weighs(an)[i]
  BY <1>1 DEF Weighs
<1>3. Weighs(more)[x] = AtLeast(e.prediction.conf, 1)
  BY <1>1 DEF Weighs
<1>4. B \subseteq DOMAIN an /\ x \notin B
  BY <1>1 DEF Backing, Mine
<1>5. Units(Weighs(more), B) = Units(Weighs(an), B)
  BY <1>2, <1>4, UnitsSame
<1>6. CASE IpOf[e.session] = ip /\ e.prediction.intent = intent
  <2>1. Backing(more, intent, ip) = B \cup {x}
    BY <1>1, <1>6 DEF Backing, Mine
  <2>2. (B \cup {x}) \ {x} = B
    BY <1>4
  <2>3. IsFiniteSet(Units(Weighs(an), B))
    BY <1>1, BackingFinite, UnitsFinite
  <2>4. Weighs(more)[x] \in Nat
    BY <1>1, <1>3, EntryFields
  <2> HIDE DEF B, x
  <2>5. Cardinality(Units(Weighs(more), B \cup {x})) =
          Cardinality(Units(Weighs(more), B)) + Weighs(more)[x]
    BY <1>5, <2>2, <2>3, <2>4, UnitsOfMore
  <2>6. QED  BY <1>3, <1>5, <1>6, <2>1, <2>5 DEF Tally, B
<1>7. CASE ~(IpOf[e.session] = ip /\ e.prediction.intent = intent)
  <2>1. Backing(more, intent, ip) = B
    BY <1>1, <1>7 DEF Backing, Mine
  <2>2. QED  BY <1>5, <1>7, <2>1 DEF Tally
<1>8. QED  BY <1>6, <1>7

\* Another attacker's analysis changes nothing.
LEMMA SummaryOfOthers ==
  ASSUME NEW an, NEW e, NEW more, Longer(an, e, more), NEW ip, IpOf[e.session] # ip,
         NEW p, Summarised(p, an, ip)
  PROVE  Summarised(p, more, ip) /\ Mine(more, ip) = Mine(an, ip)
<1>1. /\ Mine(more, ip) = Mine(an, ip)
      /\ \A i \in Mine(an, ip) : more[i] = an[i]
  BY MineAfter
<1>2. \A intent : Tally(more, intent, ip) = Tally(an, intent, ip)
  BY TallyAfter
<1>3. Starts(more, ip) = Starts(an, ip)
  BY <1>1 DEF Starts, StartsOf
<1>4. /\ SessionsOf(more, Mine(more, ip)) = SessionsOf(an, Mine(an, ip))
      /\ TtpsOf(more, Mine(more, ip)) = TtpsOf(an, Mine(an, ip))
  BY <1>1 DEF SessionsOf, TtpsOf
<1>5. PeakOf(p.threat_score, more, ip)
  BY <1>1 DEF Summarised, PeakOf
<1>6. FirstOf(p.first_seen, more, ip)
  BY <1>3 DEF Summarised, FirstOf
<1>7. Tallied(p.votes, more, ip)
  BY <1>2 DEF Summarised, Tallied
<1>8. QED  BY <1>1, <1>4, <1>5, <1>6, <1>7 DEF Summarised

\* A vote more is counted.
LEMMA VotedTallies ==
  ASSUME NEW an, NEW e, NEW more, Longer(an, e, more),
         NEW votes \in Seq(Vote), OneEach(votes), Tallied(votes, an, IpOf[e.session])
  PROVE  Tallied(Voted(votes, e.prediction.intent, e.prediction.conf), more, IpOf[e.session])
<1> DEFINE intent == e.prediction.intent
           w == AtLeast(e.prediction.conf, 1)
           known == {i \in DOMAIN votes : votes[i].intent = intent}
           after == Voted(votes, intent, e.prediction.conf)
           ip == IpOf[e.session]
<1>1. w \in Nat /\ intent \in Intents
  BY EntryFields DEF Longer
<1>2. /\ Tally(more, intent, ip) = Tally(an, intent, ip) + w
      /\ \A other : other # intent => Tally(more, other, ip) = Tally(an, other, ip)
  BY TallyAfter
<1>3. /\ \A k \in DOMAIN votes : votes[k].weight = Tally(an, votes[k].intent, ip)
      /\ \A other \in Intents :
           (\A k \in DOMAIN votes : votes[k].intent # other) => Tally(an, other, ip) = 0
  BY DEF Tallied
<1>4. \A k \in DOMAIN votes : votes[k] \in Vote /\ votes[k].weight \in Nat
  BY VoteFields
<1>5. CASE known = {}
  <2> DEFINE vote == [intent |-> intent, weight |-> w]
             n == Len(votes)
  <2>1. after = Append(votes, vote)
    BY <1>5 DEF Voted
  <2>2. vote.intent = intent /\ vote.weight = w
    OBVIOUS
  <2> HIDE DEF vote, w
  <2>3. /\ DOMAIN votes = 1 .. n /\ n \in Nat
        /\ DOMAIN after = 1 .. n + 1
        /\ after[n + 1] = vote
        /\ \A k \in 1 .. n : after[k] = votes[k]
    BY <2>1
  <2> HIDE DEF after, n
  <2>4. \A k \in DOMAIN votes : votes[k].intent # intent
    BY <1>5
  <2>5. Tally(more, intent, ip) = w
    BY <1>1, <1>2, <1>3, <2>4
  <2> HIDE DEF intent, ip
  <2>6. ASSUME NEW k \in DOMAIN after
        PROVE  after[k].weight = Tally(more, after[k].intent, ip)
    <3>1. CASE k = n + 1
      BY <2>2, <2>3, <2>5, <3>1
    <3>2. CASE k # n + 1
      <4>1. k \in DOMAIN votes /\ after[k] = votes[k]
        BY <2>3, <3>2
      <4>2. QED  BY <1>2, <1>3, <2>4, <4>1
    <3>3. QED  BY <3>1, <3>2
  <2>7. ASSUME NEW other \in Intents, \A k \in DOMAIN after : after[k].intent # other
        PROVE  Tally(more, other, ip) = 0
    <3>1. other # intent
      <4>1. n + 1 \in DOMAIN after
        BY <2>3
      <4>2. QED  BY <2>2, <2>3, <2>7, <4>1
    <3>2. \A k \in DOMAIN votes : votes[k].intent # other
      <4>1. \A k \in DOMAIN votes : k \in DOMAIN after /\ after[k] = votes[k]
        BY <2>3
      <4>2. QED  BY <2>7, <4>1
    <3>3. QED  BY <1>2, <1>3, <3>1, <3>2
  <2>8. QED  BY <2>6, <2>7 DEF Tallied, after, intent, ip
<1>6. CASE known # {}
  <2>1. PICK k \in DOMAIN votes : votes[k].intent = intent
    BY <1>6
  <2>2. \A i \in DOMAIN votes : i \in known <=> i = k
    BY <2>1 DEF OneEach
  <2>3. after = [i \in DOMAIN votes |->
                   IF i \in known THEN [votes[i] EXCEPT !.weight = @ + w]
                   ELSE votes[i]]
    BY <1>6 DEF Voted
  <2> HIDE DEF after, known, w
  <2>4. /\ DOMAIN after = DOMAIN votes
        /\ \A i \in DOMAIN votes : i # k => after[i] = votes[i]
        /\ after[k] = [votes[k] EXCEPT !.weight = @ + w]
    BY <2>1, <2>2, <2>3
  <2>5. after[k].intent = intent /\ after[k].weight = votes[k].weight + w
    <3>1. \A vote \in Vote : LET new == [vote EXCEPT !.weight = @ + w]
                             IN  new.intent = vote.intent /\ new.weight = vote.weight + w
      BY DEF Vote
    <3>2. QED  BY <1>4, <2>1, <2>4, <3>1
  <2> HIDE DEF intent, ip
  <2>6. ASSUME NEW i \in DOMAIN after
        PROVE  after[i].weight = Tally(more, after[i].intent, ip)
    <3>1. CASE i = k
      BY <1>2, <1>3, <2>1, <2>5, <3>1
    <3>2. CASE i # k
      <4>1. i \in DOMAIN votes /\ after[i] = votes[i] /\ votes[i].intent # intent
        BY <2>1, <2>4, <3>2 DEF OneEach
      <4>2. QED  BY <1>2, <1>3, <4>1
    <3>3. QED  BY <3>1, <3>2
  <2>7. ASSUME NEW other \in Intents, \A i \in DOMAIN after : after[i].intent # other
        PROVE  Tally(more, other, ip) = 0
    <3>1. other # intent
      BY <2>1, <2>4, <2>5, <2>7
    <3>2. \A i \in DOMAIN votes : votes[i].intent # other
      BY <2>1, <2>4, <2>7, <3>1
    <3>3. QED  BY <1>2, <1>3, <3>1, <3>2
  <2>8. QED  BY <2>6, <2>7 DEF Tallied, after, intent, ip
<1>7. QED  BY <1>5, <1>6

\* The fields of a profile that an analysis works on.
LEMMA UpdatedFields ==
  ASSUME NEW p \in ProfileSoFar,
         NEW s, NEW prediction, NEW ttps, NEW score
  PROVE  LET new == updated(p, s, prediction, ttps, score)
         IN  /\ new.first_seen = Earlier(p.first_seen, StartOf[s])
             /\ new.last_seen = Later(p.last_seen, IF EndOf[s] # 0 THEN EndOf[s] ELSE StartOf[s])
             /\ new.sessions = p.sessions \cup {s}
             /\ new.votes = Voted(p.votes, prediction.intent, prediction.conf)
             /\ new.classified_intent = Winner(new.votes)
             /\ new.ttps = p.ttps \cup ttps
             /\ new.threat_score = peak(p.threat_score, score)
<1> DEFINE votes == Voted(p.votes, prediction.intent, prediction.conf)
           first == Earlier(p.first_seen, StartOf[s])
           last == Later(p.last_seen, IF EndOf[s] # 0 THEN EndOf[s] ELSE StartOf[s])
           conf == Larger(p.intent_confidence, prediction.conf)
           top == peak(p.threat_score, score)
           winner == Winner(votes)
           new == updated(p, s, prediction, ttps, score)
<1>1. new = [p EXCEPT !.first_seen = first, !.last_seen = last,
               !.sessions = @ \cup {s}, !.votes = votes,
               !.classified_intent = winner, !.intent_confidence = conf,
               !.ttps = @ \cup ttps, !.threat_score = top]
  BY DEF updated
<1> HIDE DEF votes, first, last, conf, top, winner, new
<1>2. /\ new.first_seen = first /\ new.last_seen = last /\ new.sessions = p.sessions \cup {s}
      /\ new.votes = votes /\ new.classified_intent = winner
      /\ new.ttps = p.ttps \cup ttps /\ new.threat_score = top
  BY <1>1 DEF ProfileSoFar
<1>3. QED  BY <1>2 DEF votes, first, last, top, winner, new

\* The peak of one score more.
LEMMA PeakAfter ==
  ASSUME NEW an, NEW e, NEW more, Longer(an, e, more), NEW old \in Nat,
         PeakOf(old, an, IpOf[e.session])
  PROVE  PeakOf(peak(old, e.score), more, IpOf[e.session])
<1> DEFINE ip == IpOf[e.session]
           top == peak(old, e.score)
<1>1. /\ Mine(more, ip) = Mine(an, ip) \cup {Len(more)}
      /\ more[Len(more)] = e
      /\ \A i \in Mine(an, ip) : more[i] = an[i] /\ an[i] \in Entries
  BY MineMore
<1>2. e.score \in Nat /\ \A i \in Mine(an, ip) : an[i].score \in Nat
  BY <1>1, EntryFields DEF Longer
<1>3. top \in Nat /\ old <= top /\ e.score <= top /\ (top = old \/ top = e.score)
  BY <1>2 DEF peak, Larger
<1>4. /\ \A i \in Mine(an, ip) : an[i].score <= old
      /\ IF Mine(an, ip) = {} THEN old = 0 ELSE \E i \in Mine(an, ip) : an[i].score = old
  BY DEF PeakOf
<1> HIDE DEF top, ip
<1>5. \A i \in Mine(more, ip) : more[i].score <= top
  BY <1>1, <1>2, <1>3, <1>4
<1>6. \E i \in Mine(more, ip) : more[i].score = top
  <2>1. CASE top = e.score
    BY <1>1, <2>1
  <2>2. CASE top # e.score
    <3>1. top = old /\ Mine(an, ip) # {}
      BY <1>2, <1>3, <1>4, <2>2
    <3>2. QED  BY <1>1, <1>4, <3>1
  <2>3. QED  BY <2>1, <2>2
<1>7. QED  BY <1>5, <1>6 DEF PeakOf, top, ip

\* The first of one start more.
LEMMA FirstAfter ==
  ASSUME NEW an, NEW e, NEW more, Longer(an, e, more), NEW old \in Nat,
         FirstOf(old, an, IpOf[e.session])
  PROVE  FirstOf(Earlier(old, StartOf[e.session]), more, IpOf[e.session])
<1> DEFINE ip == IpOf[e.session]
           start == StartOf[e.session]
           first == Earlier(old, start)
<1>1. /\ Mine(more, ip) = Mine(an, ip) \cup {Len(more)}
      /\ more[Len(more)] = e
      /\ \A i \in Mine(an, ip) : more[i] = an[i] /\ an[i] \in Entries
  BY MineMore
<1>2. start \in Nat /\ Starts(an, ip) \subseteq Nat
  <2>1. e \in Entries
    BY DEF Longer
  <2>2. start \in Nat
    BY <2>1, EntryFields
  <2>3. \A i \in Mine(an, ip) : StartOf[an[i].session] \in Nat
    BY <1>1, EntryFields
  <2>4. QED  BY <2>2, <2>3 DEF Starts, StartsOf
<1>3. Starts(more, ip) = Starts(an, ip) \cup ({start} \ {0})
  <2> DEFINE S == Mine(an, ip)
             x == Len(more)
  <2>1. \A i \in S : more[i] = an[i]
    BY <1>1
  <2> HIDE DEF S, x
  <2>2. StartsOf(more, S \cup {x}) =
          StartsOf(an, S) \cup ({StartOf[more[x].session]} \ {0})
    BY <2>1 DEF StartsOf
  <2>3. QED  BY <1>1, <2>2 DEF Starts, S, x
<1>4. 0 \notin Starts(an, ip)
  BY DEF Starts, StartsOf
<1>5. IF Starts(an, ip) = {} THEN old = 0
      ELSE old \in Starts(an, ip) /\ \A t \in Starts(an, ip) : old <= t
  BY DEF FirstOf
<1>6. first = IF old = 0 THEN start ELSE IF start = 0 THEN old
              ELSE IF old < start THEN old ELSE start
  BY DEF Earlier
<1> HIDE DEF first, start, ip
<1>7. IF Starts(more, ip) = {} THEN first = 0
      ELSE first \in Starts(more, ip) /\ \A t \in Starts(more, ip) : first <= t
  <2>1. CASE start = 0
    BY <1>2, <1>3, <1>4, <1>5, <1>6, <2>1
  <2>2. CASE start # 0 /\ old = 0
    <3>1. Starts(an, ip) = {}
      BY <1>4, <1>5, <2>2
    <3>2. Starts(more, ip) = {start} /\ first = start
      BY <1>3, <1>6, <2>2, <3>1
    <3>3. QED  BY <1>2, <3>2
  <2>3. CASE start # 0 /\ old # 0
    <3>1. old \in Starts(an, ip) /\ \A t \in Starts(an, ip) : old <= t
      BY <1>5, <2>3
    <3>2. Starts(more, ip) = Starts(an, ip) \cup {start}
      BY <1>3, <2>3
    <3>3. first \in {old, start} /\ first <= old /\ first <= start
      BY <1>2, <1>6, <2>3
    <3>4. first \in Starts(more, ip)
      BY <3>1, <3>2, <3>3
    <3>5. \A t \in Starts(more, ip) : first <= t
      BY <1>2, <3>1, <3>2, <3>3
    <3>6. QED  BY <3>4, <3>5
  <2>4. QED  BY <2>1, <2>2, <2>3
<1>8. QED  BY <1>7 DEF FirstOf, first, start, ip

\* What one analysis more makes of a profile is what the longer history adds up to.
LEMMA SummaryAfter ==
  ASSUME NEW an, NEW e, NEW more, Longer(an, e, more),
         NEW p \in ProfileSoFar,
         OneEach(p.votes), Summarised(p, an, IpOf[e.session])
  PROVE  LET new == updated(p, e.session, e.prediction, e.ttps, e.score)
         IN  /\ Summarised(new, more, IpOf[e.session])
             /\ new.classified_intent = Winner(new.votes)
<1> DEFINE s == e.session
           ip == IpOf[s]
           new == updated(p, s, e.prediction, e.ttps, e.score)
<1>1. /\ Mine(more, ip) = Mine(an, ip) \cup {Len(more)}
      /\ more[Len(more)] = e
      /\ \A i \in Mine(an, ip) : more[i] = an[i]
  BY MineMore
<1>2. /\ new.first_seen = Earlier(p.first_seen, StartOf[s])
      /\ new.last_seen = Later(p.last_seen, IF EndOf[s] # 0 THEN EndOf[s] ELSE StartOf[s])
      /\ new.sessions = p.sessions \cup {s}
      /\ new.votes = Voted(p.votes, e.prediction.intent, e.prediction.conf)
      /\ new.ttps = p.ttps \cup e.ttps
      /\ new.threat_score = peak(p.threat_score, e.score)
      /\ new.classified_intent = Winner(new.votes)
  BY UpdatedFields
<1>3. /\ p.first_seen \in Nat /\ p.last_seen \in Nat /\ p.votes \in Seq(Vote)
      /\ p.threat_score \in Nat
  <2>1. p.threat_score \in Scores /\ Scores \subseteq Nat
    BY DEF Scores, ProfileSoFar
  <2>2. QED  BY <2>1 DEF ProfileSoFar
<1>4. /\ p.sessions = SessionsOf(an, Mine(an, ip))
      /\ p.ttps = TtpsOf(an, Mine(an, ip))
      /\ PeakOf(p.threat_score, an, ip)
      /\ FirstOf(p.first_seen, an, ip)
      /\ InOrder => p.first_seen = 0 \/ p.first_seen <= p.last_seen
      /\ Tallied(p.votes, an, ip)
  BY DEF Summarised
<1>5. /\ s \in Sessions /\ StartOf[s] \in Nat /\ EndOf[s] \in Nat
  BY EntryFields DEF Longer
<1> HIDE DEF new
<1>6. PeakOf(new.threat_score, more, ip)
  BY <1>2, <1>3, <1>4, PeakAfter
<1>7. FirstOf(new.first_seen, more, ip)
  BY <1>2, <1>3, <1>4, FirstAfter
<1>8. Tallied(new.votes, more, ip)
  BY <1>2, <1>3, <1>4, VotedTallies
<1>9. InOrder => new.first_seen = 0 \/ new.first_seen <= new.last_seen
  <2> SUFFICES ASSUME InOrder  PROVE new.first_seen = 0 \/ new.first_seen <= new.last_seen
    OBVIOUS
  <2> DEFINE start == StartOf[s]
             end == EndOf[s]
             first == p.first_seen
             last == p.last_seen
  <2>1. end = 0 \/ start <= end
    BY <1>5 DEF InOrder
  <2>2. first = 0 \/ first <= last
    BY <1>4
  <2>3. /\ new.first_seen = IF first = 0 THEN start ELSE IF start = 0 THEN first
                            ELSE IF first < start THEN first ELSE start
        /\ new.last_seen = Larger(last, IF end # 0 THEN end ELSE start)
    BY <1>2 DEF Earlier, Later
  <2>4. start \in Nat /\ end \in Nat /\ first \in Nat /\ last \in Nat
    BY <1>3, <1>5
  <2> HIDE DEF start, end, first, last
  <2>5. QED  BY <2>1, <2>2, <2>3, <2>4 DEF Larger
<1>10. new.sessions = SessionsOf(more, Mine(more, ip)) /\ new.ttps = TtpsOf(more, Mine(more, ip))
  <2>1. /\ SessionsOf(more, Mine(more, ip)) = SessionsOf(an, Mine(an, ip)) \cup {s}
        /\ TtpsOf(more, Mine(more, ip)) = TtpsOf(an, Mine(an, ip)) \cup e.ttps
    BY HistoryAfter
  <2>2. QED  BY <1>2, <1>4, <2>1
<1>11. Summarised(new, more, ip)
  BY <1>6, <1>7, <1>8, <1>9, <1>10 DEF Summarised
<1>12. QED  BY <1>2, <1>11 DEF new

\* Before the first analysis.
LEMMA SummaryOfNone ==
  ASSUME NEW ip
  PROVE  Summarised(NewProfile, << >>, ip) /\ Mine(<< >>, ip) = {}
<1>1. Mine(<< >>, ip) = {}
  BY DEF Mine
<1>2. ASSUME NEW intent
      PROVE  Tally(<< >>, intent, ip) = 0
  <2>1. Backing(<< >>, intent, ip) = {}
    BY <1>1 DEF Backing
  <2>2. QED  BY <2>1, UnitsOfNone, FS_EmptySet DEF Tally
<1>3. /\ NewProfile.sessions = {} /\ NewProfile.ttps = {} /\ NewProfile.threat_score = 0
      /\ NewProfile.first_seen = 0 /\ NewProfile.votes = << >>
  BY DEF NewProfile
<1>4. SessionsOf(<< >>, {}) = {} /\ TtpsOf(<< >>, {}) = {} /\ Starts(<< >>, ip) = {}
  BY <1>1 DEF SessionsOf, TtpsOf, Starts, StartsOf
<1>5. PeakOf(0, << >>, ip) /\ FirstOf(0, << >>, ip)
  BY <1>1, <1>4 DEF PeakOf, FirstOf
<1>6. Tallied(<< >>, << >>, ip)
  BY <1>2 DEF Tallied
<1>7. QED  BY <1>1, <1>3, <1>4, <1>5, <1>6 DEF Summarised
-----------------------------------------------------------------------------
(* What the profiles in memory are. *)

\* There is a profile of whoever was analysed, it is what his analyses add up to,
\* and its intent is the one its votes decide on.
SumInv ==
  \A ip \in Attackers :
    /\ profiles[ip] = NoProfile <=> Mine(analysed, ip) = {}
    /\ Summarised(Profile(ip), analysed, ip)
    /\ profiles[ip] # NoProfile =>
         profiles[ip].classified_intent = Winner(profiles[ip].votes)

LEMMA AnalysisSumsUp ==
  ASSUME TypeOK, KnownInv, ScoreInv, SumInv, NEW s \in Sessions, analyze_session(s)
  PROVE  SumInv'
<1>1. PICK after, entry : Analysed(s, after, entry)
  BY AnalysisStep
<1>2. /\ IpOf[s] \in Attackers /\ profiles'[IpOf[s]] = after
      /\ \A ip \in Attackers \ {IpOf[s]} : profiles'[ip] = profiles[ip]
  BY <1>1, KnownAfter
<1>3. analysed \in Seq(Entries) /\ entry \in Entries /\ entry.session = s
  BY <1>1 DEF ScoreInv, Entries, Analysed
<1>4. Longer(analysed, entry, analysed')
  BY <1>1, <1>3, LongerIs DEF Analysed
<1>5. after # NoProfile
  BY <1>1 DEF Analysed, Accumulated
<1>6. ASSUME NEW ip \in Attackers, ip # IpOf[s]
      PROVE  /\ profiles'[ip] = NoProfile <=> Mine(analysed', ip) = {}
             /\ Summarised(Profile(ip)', analysed', ip)
             /\ profiles'[ip] # NoProfile =>
                  profiles'[ip].classified_intent = Winner(profiles'[ip].votes)
  <2>1. profiles'[ip] = profiles[ip] /\ Profile(ip)' = Profile(ip)
    BY <1>2, <1>6 DEF Profile
  <2>2. Summarised(Profile(ip), analysed', ip) /\ Mine(analysed', ip) = Mine(analysed, ip)
    BY <1>3, <1>4, <1>6, SummaryOfOthers DEF SumInv
  <2>3. QED  BY <2>1, <2>2 DEF SumInv
<1>7. /\ profiles'[IpOf[s]] = NoProfile <=> Mine(analysed', IpOf[s]) = {}
      /\ Summarised(Profile(IpOf[s])', analysed', IpOf[s])
      /\ profiles'[IpOf[s]] # NoProfile =>
           profiles'[IpOf[s]].classified_intent = Winner(profiles'[IpOf[s]].votes)
  <2> DEFINE p == Profile(IpOf[s])
  <2>1. after = updated(p, s, entry.prediction, entry.ttps, entry.score)
    BY <1>1 DEF Analysed
  <2>2. /\ p \in ProfileSoFar
        /\ OneEach(p.votes)
    BY <1>2, ProfileBefore
  <2>3. Summarised(p, analysed, IpOf[s])
    BY <1>2 DEF SumInv
  <2>4. Profile(IpOf[s])' = after
    BY <1>2, <1>5 DEF Profile
  <2> DEFINE an == analysed
             more == analysed'
  <2>9. Longer(an, entry, more)
    BY <1>4
  <2>10. Summarised(p, an, IpOf[entry.session])
    BY <1>3, <2>3
  <2> HIDE DEF p, an, more
  <2>5. Summarised(after, more, IpOf[s]) /\ after.classified_intent = Winner(after.votes)
    <3> DEFINE new == updated(p, entry.session, entry.prediction, entry.ttps, entry.score)
    <3>1. /\ Summarised(new, more, IpOf[entry.session])
          /\ new.classified_intent = Winner(new.votes)
      BY <2>2, <2>9, <2>10, SummaryAfter
    <3>2. after = new
      BY <1>3, <2>1
    <3> HIDE DEF new
    <3>3. QED  BY <1>3, <3>1, <3>2
  <2>6. Mine(more, IpOf[s]) # {}
    <3>1. Mine(more, IpOf[entry.session]) = Mine(an, IpOf[entry.session]) \cup {Len(more)}
      BY <2>9, MineMore
    <3>2. Len(more) \in Mine(more, IpOf[entry.session])
      BY <3>1
    <3>3. IpOf[entry.session] = IpOf[s]
      BY <1>3
    <3>4. Len(more) \in Mine(more, IpOf[s])
      BY <3>2, <3>3
    <3>5. QED  BY <3>4
  <2>8. QED  BY <1>2, <1>5, <2>4, <2>5, <2>6 DEF more
<1>8. QED  BY <1>6, <1>7 DEF SumInv

LEMMA SumsInductive ==
  ASSUME TypeOK, KnownInv, ScoreInv, SumInv, [Next]_vars
  PROVE  SumInv'
<1> USE DEF memory, batchVars, tables, history, bounds
<1>1. ASSUME NEW batch \in SUBSET Sessions, analyze_sessions(batch)
      PROVE  SumInv'
  BY <1>1 DEF analyze_sessions, SumInv, Profile
<1>2. ASSUME NEW s \in Sessions, analyze_session(s)
      PROVE  SumInv'
  BY <1>2, AnalysisSumsUp
<1>3. CASE cluster_campaigns
  <2>1. PICK label \in [clustered -> Labels], stamp \in [Known -> Labels] :
          profiles' = [ip \in Attackers |->
            IF ip \in Known THEN [profiles[ip] EXCEPT !.campaign_id = stamp[ip]]
            ELSE NoProfile]
    BY <1>3, ClusterStep
  <2>2. UNCHANGED analysed
    BY <1>3 DEF cluster_campaigns
  <2>3. SUFFICES ASSUME NEW ip \in Attackers
                 PROVE  /\ profiles'[ip] = NoProfile <=> Mine(analysed', ip) = {}
                        /\ Summarised(Profile(ip)', analysed', ip)
                        /\ profiles'[ip] # NoProfile =>
                             profiles'[ip].classified_intent = Winner(profiles'[ip].votes)
    BY DEF SumInv
  <2>4. CASE ip \in Known
    <3>1. profiles[ip] \in ProfileSet /\ profiles[ip] # NoProfile
      BY <2>4 DEF Known, TypeOK
    <3>2. profiles'[ip] = [profiles[ip] EXCEPT !.campaign_id = stamp[ip]]
      BY <2>1, <2>4
    <3>3. stamp[ip] \in Labels
      BY <2>4
    <3>4. /\ profiles'[ip] \in ProfileSet
          /\ profiles'[ip].sessions = profiles[ip].sessions
          /\ profiles'[ip].ttps = profiles[ip].ttps
          /\ profiles'[ip].threat_score = profiles[ip].threat_score
          /\ profiles'[ip].first_seen = profiles[ip].first_seen
          /\ profiles'[ip].last_seen = profiles[ip].last_seen
          /\ profiles'[ip].votes = profiles[ip].votes
          /\ profiles'[ip].classified_intent = profiles[ip].classified_intent
      BY <3>1, <3>2, <3>3 DEF ProfileSet, CampaignIds
    <3>5. profiles'[ip] # NoProfile
      BY <3>4 DEF ProfileConstants
    <3>6. Profile(ip) = profiles[ip] /\ Profile(ip)' = profiles'[ip]
      BY <3>1, <3>5 DEF Profile
    <3>7. /\ Mine(analysed, ip) # {} /\ Summarised(profiles[ip], analysed, ip)
          /\ profiles[ip].classified_intent = Winner(profiles[ip].votes)
      BY <3>1, <3>6 DEF SumInv
    <3>8. Summarised(profiles'[ip], analysed, ip)
      BY <3>4, <3>7 DEF Summarised
    <3>9. QED  BY <2>2, <3>4, <3>5, <3>6, <3>7, <3>8
  <2>5. CASE ip \notin Known
    <3>1. profiles[ip] = NoProfile /\ profiles'[ip] = NoProfile
      BY <2>1, <2>5 DEF Known
    <3>2. Profile(ip)' = Profile(ip)
      BY <3>1 DEF Profile
    <3>3. QED  BY <2>2, <3>1, <3>2 DEF SumInv
  <2>6. QED  BY <2>4, <2>5
<1>4. ASSUME NEW ip \in Attackers, upsert_profile(ip)
      PROVE  SumInv'
  BY <1>4 DEF upsert_profile, SumInv, Profile
<1>5. CASE Crash
  <2>1. analysed' = << >> /\ \A ip \in Attackers : profiles'[ip] = NoProfile
    BY <1>5 DEF Crash
  <2>2. \A ip \in Attackers : Profile(ip)' = NewProfile
    BY <2>1 DEF Profile
  <2>3. QED  BY <2>1, <2>2, SummaryOfNone DEF SumInv
<1>6. CASE UNCHANGED vars
  BY <1>6 DEF vars, SumInv, Profile
<1>7. QED  BY <1>1, <1>2, <1>3, <1>4, <1>5, <1>6 DEF Next

\* VotesFor, the fold over the attacker's analyses, is their tally.
LEMMA VotesForIs ==
  ASSUME analysed \in Seq(Entries), NEW intent, NEW ip
  PROVE  VotesFor(intent, Mine(analysed, ip)) = Tally(analysed, intent, ip)
<1> DEFINE S == Backing(analysed, intent, ip)
           w == Weighs(analysed)
           Solves(f) == f = [t \in SUBSET S |->
                          IF t = {} THEN 0
                          ELSE f[t \ {CHOOSE x \in t : TRUE}]
                                 + AtLeast(analysed[CHOOSE x \in t : TRUE].prediction.conf, 1)]
           iter == CHOOSE f : Solves(f)
<1>1. VotesFor(intent, Mine(analysed, ip)) = iter[S]
  BY DEF VotesFor, FoldSet, MapThenFoldSet, Backing
<1>2. IsFiniteSet(S) /\ \A x \in S : w[x] \in Nat
  BY BackingFinite
<1>3. \A x \in S : w[x] = AtLeast(analysed[x].prediction.conf, 1)
  BY DEF Weighs, Backing, Mine
<1>4. ASSUME NEW f
      PROVE  Solves(f) <=> Sums(f, w, S)
  <2> HIDE DEF S, w
  <2>1. \A t \in SUBSET S :
          (IF t = {} THEN 0
           ELSE f[t \ {CHOOSE x \in t : TRUE}]
                  + AtLeast(analysed[CHOOSE x \in t : TRUE].prediction.conf, 1))
          = (IF t = {} THEN 0
             ELSE f[t \ {CHOOSE x \in t : TRUE}] + w[CHOOSE x \in t : TRUE])
    BY <1>3
  <2>2. QED  BY <2>1 DEF Sums
<1> HIDE DEF Solves, S, w
<1>5. Sums(iter, w, S)
  <2>1. \E f : Solves(f)
    BY <1>2, <1>4, SumsExist
  <2>2. Solves(iter)
    BY <2>1
  <2> HIDE DEF iter
  <2>3. QED  BY <1>4, <2>2
<1> HIDE DEF iter
<1>6. iter[S] = Cardinality(Units(w, S))
  BY <1>2, <1>5, SumsIsUnits
<1>7. QED  BY <1>1, <1>6 DEF S, w, Tally

\* What the profiles were found to be is what is promised of them.
LEMMA SumsSuffice ==
  ASSUME TypeOK, KnownInv, ScoreInv, SumInv
  PROVE  ProfilesAreSums
<1> SUFFICES ASSUME NEW ip \in Attackers
             PROVE  LET mine == Of(ip, Len(analysed))
                        p == profiles[ip]
                        starts == {StartOf[analysed[i].session] : i \in mine} \ {0}
                    IN  IF mine = {} THEN p = NoProfile
                        ELSE /\ p.sessions = {analysed[i].session : i \in mine}
                             /\ p.ttps = UNION {analysed[i].ttps : i \in mine}
                             /\ p.threat_score = Max({analysed[i].score : i \in mine})
                             /\ \A intent \in Intents :
                                  VotesFor(intent, mine) <= VotesFor(p.classified_intent, mine)
                             /\ p.first_seen = IF starts = {} THEN 0 ELSE Min(starts)
  BY DEF ProfilesAreSums
<1> DEFINE mine == Mine(analysed, ip)
           p == profiles[ip]
           starts == Starts(analysed, ip)
           scores == {analysed[i].score : i \in mine}
<1>1. analysed \in Seq(Entries)
  BY DEF ScoreInv, Entries
<1>2. Of(ip, Len(analysed)) = mine
  BY <1>1 DEF Of, Mine
<1>3. {StartOf[analysed[i].session] : i \in mine} \ {0} = starts
  BY DEF Starts, StartsOf
<1>4. CASE mine = {}
  BY <1>2, <1>4 DEF SumInv
<1>5. CASE mine # {}
  <2>1. /\ p # NoProfile /\ Summarised(p, analysed, ip)
        /\ p.classified_intent = Winner(p.votes)
    BY <1>5 DEF SumInv, Profile
  <2>2. p \in ProfileSet /\ Decided(p.votes)
    BY <2>1 DEF TypeOK, KnownInv, Known
  <2>3. /\ p.votes \in Seq(Vote) /\ p.threat_score \in Scores
        /\ p.first_seen \in Nat
    BY <2>2 DEF ProfileSet
  <2>4. \A i \in mine : analysed[i] \in Entries
    BY <1>1 DEF Mine
  <2> HIDE DEF p
  <2>5. p.threat_score = Max(scores)
    <3>1. \A i \in mine : analysed[i].score \in Nat
      BY <2>4, EntryFields
    <3>2. /\ \A i \in mine : analysed[i].score <= p.threat_score
          /\ \E i \in mine : analysed[i].score = p.threat_score
      BY <1>5, <2>1 DEF Summarised, PeakOf
    <3>3. p.threat_score \in Nat
      <4>1. Scores \subseteq Nat
        BY DEF Scores
      <4>2. QED  BY <2>3, <4>1
    <3>4. /\ p.threat_score \in scores
          /\ \A n \in scores : n \in Nat /\ n <= p.threat_score
      BY <3>1, <3>2
    <3> HIDE DEF scores
    <3>5. Max(scores) = p.threat_score
      BY <3>3, <3>4, MaxIs
    <3>6. QED  BY <3>5
  <2>6. p.first_seen = IF starts = {} THEN 0 ELSE Min(starts)
    <3>1. FirstOf(p.first_seen, analysed, ip)
      BY <2>1 DEF Summarised
    <3>2. CASE starts = {}
      BY <3>1, <3>2 DEF FirstOf
    <3>3. CASE starts # {}
      <4>1. p.first_seen \in starts /\ \A t \in starts : p.first_seen <= t
        BY <3>1, <3>3 DEF FirstOf
      <4>2. \A i \in mine : StartOf[analysed[i].session] \in Nat
        BY <2>4, EntryFields
      <4>3. \A t \in starts : t \in Nat
        BY <4>2 DEF Starts, StartsOf
      <4> HIDE DEF starts
      <4>4. Min(starts) = p.first_seen
        BY <2>3, <4>1, <4>3, MinIs
      <4>5. QED  BY <3>3, <4>4
    <3>4. QED  BY <3>2, <3>3
  <2>7. \A intent \in Intents : VotesFor(intent, mine) <= VotesFor(p.classified_intent, mine)
    <3>1. PICK m \in DOMAIN p.votes :
            /\ p.votes[m].intent = p.classified_intent
            /\ \A k \in DOMAIN p.votes : p.votes[k].weight <= p.votes[m].weight
      BY <2>1, <2>2, <2>3, WinnerHasMost
    <3>2. Tallied(p.votes, analysed, ip)
      BY <2>1 DEF Summarised
    <3>3. /\ Tally(analysed, p.classified_intent, ip) = p.votes[m].weight
          /\ p.votes[m].weight \in Nat
      <4>1. p.votes[m].weight \in Nat
        BY <2>3, VoteFields
      <4>2. p.votes[m].weight = Tally(analysed, p.votes[m].intent, ip)
        BY <3>2 DEF Tallied
      <4>3. QED  BY <3>1, <4>1, <4>2
    <3>4. ASSUME NEW intent \in Intents
          PROVE  Tally(analysed, intent, ip) <= Tally(analysed, p.classified_intent, ip)
      <4>1. CASE \E k \in DOMAIN p.votes : p.votes[k].intent = intent
        <5>1. PICK k \in DOMAIN p.votes : p.votes[k].intent = intent
          BY <4>1
        <5>2. p.votes[k].weight = Tally(analysed, intent, ip)
          BY <3>2, <5>1 DEF Tallied
        <5>3. p.votes[k].weight <= p.votes[m].weight
          BY <3>1
        <5>4. QED  BY <3>3, <5>2, <5>3
      <4>2. CASE ~ \E k \in DOMAIN p.votes : p.votes[k].intent = intent
        <5>1. Tally(analysed, intent, ip) = 0
          BY <3>2, <4>2 DEF Tallied
        <5>2. QED  BY <3>3, <5>1
      <4>3. QED  BY <4>1, <4>2
    <3>5. \A intent : VotesFor(intent, mine) = Tally(analysed, intent, ip)
      BY <1>1, VotesForIs
    <3>6. QED  BY <3>4, <3>5
  <2>8. /\ p.sessions = {analysed[i].session : i \in mine}
        /\ p.ttps = UNION {analysed[i].ttps : i \in mine}
    BY <2>1 DEF Summarised, SessionsOf, TtpsOf
  <2> HIDE DEF mine, starts, scores
  <2>9. QED  BY <1>2, <1>3, <1>5, <2>5, <2>6, <2>7, <2>8 DEF p, scores
<1>6. QED  BY <1>4, <1>5

\* ProfilesSumUp: accumulated one session at a time, in any order and with
\* sessions analysed again, a profile says what all analyses of the attacker in
\* this process say together: their sessions, the union of their techniques, the
\* highest score, the intent with the most votes and the first start.  In addition
\* it was first seen before it was last seen, and so the whole of the property
\* holds, if sessions end after they start: parse_sessions takes both times
\* from the log and does not compare them.
THEOREM ProfilesAlwaysSumUp ==
  Spec => [](ProfilesAreSums /\ (InOrder => ProfilesSumUp))
<1>1. Init => SumInv
  <2> SUFFICES ASSUME Init  PROVE SumInv
    OBVIOUS
  <2>1. analysed = << >> /\ \A ip \in Attackers : profiles[ip] = NoProfile
    BY DEF Init
  <2>2. \A ip \in Attackers : Profile(ip) = NewProfile
    BY <2>1 DEF Profile
  <2>3. QED  BY <2>1, <2>2, SummaryOfNone DEF SumInv
<1>2. TypeOK /\ KnownInv /\ ScoreInv /\ SumInv /\ [Next]_vars => SumInv'
  BY SumsInductive
<1>3. TypeOK /\ KnownInv /\ ScoreInv /\ SumInv => ProfilesAreSums
  BY SumsSuffice
<1>4. SumInv /\ InOrder => SeenInOrder
  <2> SUFFICES ASSUME SumInv, InOrder, NEW ip \in Known
               PROVE  profiles[ip].first_seen # 0
                        => profiles[ip].first_seen <= profiles[ip].last_seen
    BY DEF SeenInOrder
  <2>1. ip \in Attackers /\ Summarised(profiles[ip], analysed, ip)
    BY DEF SumInv, Known, Profile
  <2>2. QED  BY <2>1 DEF Summarised
<1>5. TypeOK /\ KnownInv /\ ScoreInv /\ SumInv
      => ProfilesAreSums /\ (InOrder => ProfilesSumUp)
  BY <1>3, <1>4 DEF ProfilesSumUp
<1>6. QED  BY <1>1, <1>2, <1>5, TypesInvariant, ScoreInvariant, PTL DEF Spec
=============================================================================
