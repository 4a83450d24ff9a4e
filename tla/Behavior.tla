------------------------------ MODULE Behavior ------------------------------
(***************************************************************************)
(* The behaviour engine (behavior/engine.py) with its profiler             *)
(* (behavior/profiler.py) and the two tables it writes: session_analysis,  *)
(* a verdict per session, and profiles, a row per attacker.  Profiles are  *)
(* accumulated in memory and written, replacing the row of the attacker,   *)
(* at the end of a batch (analyze_sessions) only; analyze_session, which   *)
(* is all the responder calls, writes the verdict alone.  The process may  *)
(* die between any two writes; the next one starts with no profiles.       *)
(* A row is represented by the profile it was written from: the votes are  *)
(* not stored, and sqlite stores the number of the sessions only.          *)
(***************************************************************************)
EXTENDS Scoring, Integers, FiniteSetsExt, Functions

CONSTANTS
  Sessions,      \* session ids
  Attackers,     \* source addresses
  IpOf,          \* the source address of each session
  ContentsOf,    \* what each session may be found to contain when analysed
  StartOf,       \* session.start_ts, or 0 for None
  EndOf,         \* session.end_ts, or 0 for None
  ModelAnswers,  \* bound: what a trained model predicts
  MaxAnalyses,   \* bound: analyses there are, over all processes
  MaxCrashes,    \* bound: deaths of the process
  NoProfile,     \* no profile in memory, no row in profiles
  NoVerdict,     \* no row in session_analysis
  NoCampaign     \* campaign_id None

ASSUME BehaviorConstants ==
  /\ IpOf \in [Sessions -> Attackers]
  /\ ContentsOf \in [Sessions -> SUBSET Session]
  /\ StartOf \in [Sessions -> Nat]
  /\ EndOf \in [Sessions -> Nat]
  /\ ModelAnswers \subseteq Predictions
  /\ MaxAnalyses \in Nat
  /\ MaxCrashes \in Nat
  /\ NoCampaign \notin Int

VARIABLES
  learning,          \* what this process found when it started: scikit-learn
                     \* "absent", no model file ("untrained"), "trained"
  profiles,          \* Profiler.profiles
  clustered,         \* sessions in _session_vectors
  pc,                \* "idle", or in a batch: "analyze", "store"
  todo,              \* sessions of the batch still to be analysed
  unsaved,           \* attackers whose row the batch still has to write
  session_analysis,  \* the table
  profile_rows,      \* the table profiles
  labels,            \* the last labels of the clustered sessions (history)
  analysed,          \* the analyses of this process, in order (history)
  stored,            \* how many of them the last whole batch covered (history)
  analyses,          \* analyses so far
  crashes            \* deaths so far

memory == <<learning, profiles, clustered>>
batchVars == <<pc, todo, unsaved>>
tables == <<session_analysis, profile_rows>>
history == <<labels, analysed, stored>>
bounds == <<analyses, crashes>>
vars == <<memory, batchVars, tables, history, bounds>>

\* IntentClassifier.load: without scikit-learn or a model file, no model.
Learning == {"absent", "untrained", "trained"}

trained == learning = "trained"
HaveSklearn == learning # "absent"

Init ==
  /\ learning \in Learning
  /\ profiles = [ip \in Attackers |-> NoProfile]
  /\ clustered = {}
  /\ pc = "idle"
  /\ todo = {}
  /\ unsaved = {}
  /\ session_analysis = [s \in Sessions |-> NoVerdict]
  /\ profile_rows = [ip \in Attackers |-> NoProfile]
  /\ labels = [s \in {} |-> -1]
  /\ analysed = << >>
  /\ stored = 0
  /\ analyses = 0
  /\ crashes = 0
-----------------------------------------------------------------------------
(* Profiler.update. *)

\* classified_intent None.
NoIntent == ""

NewProfile ==
  [first_seen |-> 0, last_seen |-> 0, sessions |-> {}, votes |-> << >>,
   classified_intent |-> NoIntent, intent_confidence |-> 0, ttps |-> {},
   threat_score |-> 0, campaign_id |-> NoCampaign]

Larger(m, n) == IF m > n THEN m ELSE n

\* min and max over the times that are there; 0 is None.
Earlier(t, u) == IF t = 0 THEN u ELSE IF u = 0 THEN t ELSE IF t < u THEN t ELSE u
Later(t, u) == Larger(t, u)

\* Mutation: an intent that is there already gets a second entry.
VotedAgain(votes, intent, conf) ==
  Append(votes, [intent |-> intent, weight |-> AtLeast(conf, 1)])

\* The votes after one more for this intent; the dictionary keeps the order
\* in which intents came first.
Voted(votes, intent, conf) ==
  LET known == {i \in DOMAIN votes : votes[i].intent = intent}
  IN  IF known = {}
      THEN Append(votes, [intent |-> intent, weight |-> AtLeast(conf, 1)])
      ELSE [i \in DOMAIN votes |->
              IF i \in known THEN [votes[i] EXCEPT !.weight = @ + AtLeast(conf, 1)]
              ELSE votes[i]]

\* The intent with the most votes, the first one of several.
Winner(votes) ==
  LET best == {i \in DOMAIN votes : \A j \in DOMAIN votes :
                 votes[j].weight <= votes[i].weight}
  IN  votes[Min(best)].intent

\* Mutation: the score of the last session stands.
last_score(old, new) == new

\* Peak threat.
peak(old, new) == Larger(old, new)

updated(profile, s, prediction, ttps, score) ==
  LET votes == Voted(profile.votes, prediction.intent, prediction.conf)
  IN  [profile EXCEPT
         !.first_seen = Earlier(@, StartOf[s]),
         !.last_seen = Later(@, IF EndOf[s] # 0 THEN EndOf[s] ELSE StartOf[s]),
         !.sessions = @ \cup {s},
         !.votes = votes,
         !.classified_intent = Winner(votes),
         !.intent_confidence = Larger(@, prediction.conf),
         !.ttps = @ \cup ttps,
         !.threat_score = peak(@, score)]

Profile(ip) == IF profiles[ip] = NoProfile THEN NewProfile ELSE profiles[ip]

update(s, prediction, ttps, score) ==
  /\ profiles' = [profiles EXCEPT ![IpOf[s]] =
                    updated(Profile(IpOf[s]), s, prediction, ttps, score)]
  /\ clustered' = clustered \cup {s}
-----------------------------------------------------------------------------
(* The engine. *)

\* IntentClassifier.predict: a trained model is a black box.
predict(content) == IF trained THEN ModelAnswers ELSE {heuristic_intent(content)}

Verdict(prediction, ttps, score) ==
  [intent |-> prediction.intent, threat_score |-> score, band |-> band(score),
   ttps |-> ttps]

\* One row per session, the last verdict's.
write_session_analysis(s, verdict) ==
  session_analysis' = [session_analysis EXCEPT ![s] = verdict]

\* classify, extract, score, update the profile, upsert the verdict.
analyze(s, content) ==
  LET ttps == extract_ttps(content)
  IN  \E prediction \in predict(content) :
        \E score \in score_session(content, prediction, ttps) :
          /\ update(s, prediction, ttps, score)
          /\ write_session_analysis(s, Verdict(prediction, ttps, score))
          /\ analysed' = Append(analysed,
               [session |-> s, prediction |-> prediction, ttps |-> ttps, score |-> score])

\* analyze_events and analyze_sessions, up to the first session.
analyze_sessions(batch) ==
  /\ pc = "idle"
  /\ batch # {}
  /\ pc' = "analyze"
  /\ todo' = batch
  /\ UNCHANGED <<memory, unsaved, tables, history, bounds>>

\* One session of the batch, or, when there is none, one that the responder
\* has seen close.
analyze_session(s) ==
  /\ pc = "idle" \/ s \in todo
  /\ analyses < MaxAnalyses
  /\ analyses' = analyses + 1
  /\ \E content \in ContentsOf[s] : analyze(s, content)
  /\ todo' = todo \ {s}
  /\ UNCHANGED <<learning, pc, unsaved, profile_rows, labels, stored, crashes>>

\* The fewest sessions a campaign has.
min_samples == 2

\* Labels number the campaigns from 0; -1 is noise.
Labels == Nat \cup {-1}

Campaigns(label) == Range(label) \ {-1}
Members(label, c) == {s \in DOMAIN label : label[s] = c}

\* DBSCAN: every campaign has min_samples sessions.
Clustered(label) == \A c \in Campaigns(label) : Cardinality(Members(label, c)) >= min_samples

\* _fallback_cluster: a session that is in no campaign yet starts one with all
\* sessions near it, which leave the campaigns they were in.  Nearness being
\* symmetric, nobody takes away the session that started a campaign; only the
\* last campaign is sure to keep the others.
Taken(label) == Campaigns(label) # {} =>
  Cardinality(Members(label, Max(Campaigns(label)))) >= min_samples

\* What the sessions may be labelled with.
Labellings(sessions) ==
  IF Cardinality(sessions) < min_samples THEN {[s \in sessions |-> -1]}
  ELSE {label \in [sessions -> -1 .. Cardinality(sessions) - 1] :
          /\ \A c \in Campaigns(label) : 0 .. c \subseteq Campaigns(label)
          /\ IF HaveSklearn THEN Clustered(label) ELSE Taken(label)}

\* Sessions of the attacker with this label.
Share(label, ip, c) == {s \in Members(label, c) : IpOf[s] = ip}

\* Mutation: noise counts as a campaign.
MostCommonOrNoise(label, ip) ==
  {c \in Range(label) : \A d \in Range(label) :
     Cardinality(Share(label, ip, d)) <= Cardinality(Share(label, ip, c))}

\* _stamp: the campaigns most common among the attacker's sessions, of which
\* max takes any; noise only if there is no other.
MostCommon(label, ip) ==
  IF \A s \in DOMAIN label : IpOf[s] = ip => label[s] = -1 THEN {-1}
  ELSE {c \in Campaigns(label) : \A d \in Campaigns(label) :
          Cardinality(Share(label, ip, d)) <= Cardinality(Share(label, ip, c))}

Known == {ip \in Attackers : profiles[ip] # NoProfile}

\* Mutation: only the attackers of the last session analysed are stored.
OnlyLast == {IpOf[analysed[i].session] : i \in {Len(analysed)}}

\* for p in self.profiler.all().
ToStore == Known

\* The end of the batch: cluster, stamp every profile, store them all.
cluster_campaigns ==
  /\ pc = "analyze"
  /\ todo = {}
  /\ \E label \in Labellings(clustered) :
       \E stamp \in [Known -> Range(label)] :
         /\ \A ip \in Known : stamp[ip] \in MostCommon(label, ip)
         /\ profiles' = [ip \in Attackers |->
              IF ip \in Known THEN [profiles[ip] EXCEPT !.campaign_id = stamp[ip]]
              ELSE NoProfile]
         /\ labels' = label
  /\ pc' = "store"
  /\ unsaved' = ToStore
  /\ UNCHANGED <<learning, clustered, todo, tables, analysed, stored, bounds>>

upsert_profile(ip) ==
  /\ pc = "store"
  /\ ip \in unsaved
  /\ profile_rows' = [profile_rows EXCEPT ![ip] = profiles[ip]]
  /\ unsaved' = unsaved \ {ip}
  /\ IF unsaved = {ip}
     THEN pc' = "idle" /\ stored' = Len(analysed)
     ELSE UNCHANGED <<pc, stored>>
  /\ UNCHANGED <<memory, todo, session_analysis, labels, analysed, bounds>>

\* The process ends, or dies, and a new one starts with nothing in memory.
Crash ==
  /\ crashes < MaxCrashes
  /\ crashes' = crashes + 1
  /\ learning' \in Learning
  /\ profiles' = [ip \in Attackers |-> NoProfile]
  /\ clustered' = {}
  /\ pc' = "idle"
  /\ todo' = {}
  /\ unsaved' = {}
  /\ labels' = [s \in {} |-> -1]
  /\ analysed' = << >>
  /\ stored' = 0
  /\ UNCHANGED <<tables, analyses>>

Next ==
  \/ \E batch \in SUBSET Sessions : analyze_sessions(batch)
  \/ \E s \in Sessions : analyze_session(s)
  \/ cluster_campaigns
  \/ \E ip \in Attackers : upsert_profile(ip)
  \/ Crash

Spec == Init /\ [][Next]_vars
-----------------------------------------------------------------------------
(* Properties. *)

VerdictSet == [intent : Intents, threat_score : Scores, band : Bands, ttps : SUBSET Techniques]

Vote == [intent : Intents, weight : Nat]

CampaignIds == {NoCampaign} \cup Labels

ProfileSet ==
  [first_seen : Nat, last_seen : Nat, sessions : SUBSET Sessions, votes : Seq(Vote),
   classified_intent : Intents, intent_confidence : 0 .. 100, ttps : SUBSET Techniques,
   threat_score : Scores, campaign_id : CampaignIds]

ASSUME ProfileConstants == NoProfile \notin ProfileSet

\* Every variable holds what the code can put there; in particular no profile
\* has two entries for one intent, and only known profiles wait to be stored,
\* each with its campaign.
TypeOK ==
  /\ learning \in Learning
  /\ profiles \in [Attackers -> {NoProfile} \cup ProfileSet]
  /\ \A ip \in Known : IsInjective([i \in DOMAIN profiles[ip].votes |->
                                      profiles[ip].votes[i].intent])
  /\ clustered \subseteq Sessions
  /\ pc \in {"idle", "analyze", "store"}
  /\ todo \subseteq Sessions /\ (todo # {} => pc = "analyze")
  /\ unsaved \subseteq Known /\ (unsaved # {} <=> pc = "store")
  /\ \A ip \in unsaved : profiles[ip].campaign_id # NoCampaign
  /\ session_analysis \in [Sessions -> {NoVerdict} \cup VerdictSet]
  /\ profile_rows \in [Attackers -> {NoProfile} \cup ProfileSet]
  /\ labels \in [DOMAIN labels -> Labels] /\ DOMAIN labels \subseteq clustered
  /\ stored \in 0 .. Len(analysed)
  /\ analyses \in 0 .. MaxAnalyses
  /\ crashes \in 0 .. MaxCrashes

\* The analyses of this attacker's sessions among the first n of this process.
Of(ip, n) == {i \in 1 .. n : IpOf[analysed[i].session] = ip}

VotesFor(intent, of) ==
  FoldSet(LAMBDA i, n : n + AtLeast(analysed[i].prediction.conf, 1), 0,
          {i \in of : analysed[i].prediction.intent = intent})

\* What a profile adds up is what was analysed of the attacker: sessions,
\* techniques, the highest score, an intent no other has more votes than, the
\* first start.
ProfilesAreSums ==
  \A ip \in Attackers :
    LET mine == Of(ip, Len(analysed))
        p == profiles[ip]
        starts == {StartOf[analysed[i].session] : i \in mine} \ {0}
    IN  IF mine = {} THEN p = NoProfile
        ELSE /\ p.sessions = {analysed[i].session : i \in mine}
             /\ p.ttps = UNION {analysed[i].ttps : i \in mine}
             /\ p.threat_score = Max({analysed[i].score : i \in mine})
             /\ \A intent \in Intents :
                  VotesFor(intent, mine) <= VotesFor(p.classified_intent, mine)
             /\ p.first_seen = IF starts = {} THEN 0 ELSE Min(starts)

\* A profile was seen first before it was seen last.
SeenInOrder ==
  \A ip \in Known :
    profiles[ip].first_seen # 0 => profiles[ip].first_seen <= profiles[ip].last_seen

\* A profile is "aggregated across all of that source's sessions (first/last
\* seen, dominant intent, union of TTPs, peak threat score)" (profiler.py:3-5):
\* accumulated one session at a time, in any order and with sessions analysed
\* again, it says that of all analyses of the attacker in this process.
ProfilesSumUp == ProfilesAreSums /\ SeenInOrder

\* The stored row of an attacker covers every analysis of the process up to its
\* last whole batch, whatever it has done since and wherever it is in the
\* next one: no session, no technique and no peak is missing.
StoredProfilesSumUp ==
  \A ip \in Attackers : \A i \in Of(ip, stored) :
    /\ profile_rows[ip] # NoProfile
    /\ analysed[i].session \in profile_rows[ip].sessions
    /\ analysed[i].ttps \subseteq profile_rows[ip].ttps
    /\ analysed[i].score <= profile_rows[ip].threat_score

\* A profile's campaign is one its own sessions belong to, and noise only when
\* none of them belongs to any; stamps made by an earlier batch do not survive the
\* next one.  With scikit-learn the campaign has another session too; the fallback,
\* which takes sessions from campaigns it has formed, may leave it one.
CampaignsFollowSessions ==
  \A ip \in Known :
    LET mine == {labels[s] : s \in {t \in DOMAIN labels : IpOf[t] = ip}}
        campaign == profiles[ip].campaign_id
    IN  /\ campaign = NoCampaign <=> mine = {}
        /\ campaign \in Nat =>
             /\ campaign \in mine
             /\ HaveSklearn => \E s, t \in Members(labels, campaign) : s # t
        /\ campaign = -1 => mine = {-1}

\* The score cannot exceed 90, and without a trained model it stays below the
\* block band.
ScoresStayLow ==
  \A i \in DOMAIN analysed :
    analysed[i].score <= IF trained THEN 90 ELSE 89

\* A stored verdict's band, the actions decide takes for its score, and the two
\* other places that derive a band from it agree.
BandsAgree ==
  \A s \in Sessions :
    session_analysis[s] # NoVerdict =>
      LET verdict == session_analysis[s] IN
        /\ PlanOf(verdict.band) = decide(verdict.threat_score)
        /\ score_band(verdict.threat_score) = verdict.band
        /\ bandFor(verdict.threat_score) = verdict.band

\* The threat score of a stored profile is the "peak across sessions"
\* (profiler.py:35): it never falls.
PeaksNeverFall ==
  [][\A ip \in Attackers : profile_rows[ip] # NoProfile =>
       profile_rows'[ip].threat_score >= profile_rows[ip].threat_score]_vars

\* What does hold of it: the peak of a stored row falls only where a process writes
\* the attacker's row for the first time, so that no whole batch of this process
\* had a session of the attacker; a crash before or in a batch, or a session
\* analysed alone or again in between, never lowers it otherwise.
PeaksFallOnlyAnew ==
  [][\A ip \in Attackers :
       /\ profile_rows[ip] # NoProfile
       /\ profile_rows'[ip].threat_score < profile_rows[ip].threat_score
       => Of(ip, stored) = {}]_vars
=============================================================================
