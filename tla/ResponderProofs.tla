--------------------------- MODULE ResponderProofs --------------------------
(***************************************************************************)
(* Theorems about Responder, for every set of sessions and attackers, every*)
(* scoring, both modes, both starting points and every bound: first what   *)
(* happened to the hosts, then the verdicts: what they are computed from,  *)
(* how often a session gets one, and that every action has one behind it.  *)
(***************************************************************************)
EXTENDS Responder, FiniteSetTheorems, TLAPS

\* What most proofs need of the constants.
LEMMA Bounds ==
  /\ IpOf \in [Sessions -> Attackers]
  /\ MaxEvents \in Nat
  /\ MaxCrashes \in Nat
  /\ IsFiniteSet(Requests)
  /\ Enforce \in BOOLEAN
  /\ FromStart \in BOOLEAN
BY ResponderConstants

USE Bounds

-----------------------------------------------------------------------------
(* The response policy. *)

\* decide() answers every score with one to three actions.
LEMMA DecideType ==
  ASSUME NEW score \in Scores
  PROVE  /\ decide(score) \in Seq(Actions)
         /\ Len(decide(score)) \in 1 .. 3
         /\ \A i \in 1 .. Len(decide(score)) : decide(score)[i] \in Actions
<1>1. CASE score < 40
  <2>1. decide(score) = << "log" >>
    BY <1>1 DEF decide, Scores
  <2>2. QED  BY <2>1 DEF Actions
<1>2. CASE score >= 40 /\ score < 70
  <2>1. decide(score) = << "slow", "redirect" >>
    BY <1>2 DEF decide, Scores
  <2>2. QED  BY <2>1 DEF Actions, HostActions, FirewallActions
<1>3. CASE score >= 70 /\ score < 90
  <2>1. decide(score) = << "isolate", "alert" >>
    BY <1>3 DEF decide, Scores
  <2>2. QED  BY <2>1 DEF Actions, HostActions, FirewallActions
<1>4. CASE score >= 90
  <2>1. decide(score) = << "block", "alert", "forensic_capture" >>
    BY <1>4 DEF decide, Scores
  <2>2. QED  BY <2>1 DEF Actions, HostActions, FirewallActions
<1>5. QED  BY <1>1, <1>2, <1>3, <1>4 DEF Scores
-----------------------------------------------------------------------------
(* Type correctness. *)

\* What a job in hand gives respond() to work with.
LEMMA JobType ==
  ASSUME TypeOK, pc \notin {"down", "tail"}
  PROVE  /\ job \in Job
         /\ job.session \in Sessions
         /\ job.evidence \in SUBSET EventNrs
         /\ job.step \in 1 .. 3
         /\ job.success \in BOOLEAN
         /\ JobScore \in Scores
         /\ JobIp \in Attackers
         /\ JobAction \in Actions
         /\ job.step \in 1 .. Len(decide(JobScore))
<1>1. /\ job \in Job
      /\ job.session \in Sessions
      /\ job.evidence \in SUBSET EventNrs
      /\ job.step \in 1 .. 3
      /\ job.success \in BOOLEAN
      /\ job.step <= Len(decide(JobScore))
  BY DEF TypeOK, Job
<1>2. JobScore \in Scores
  BY <1>1 DEF JobScore, Job
<1>3. JobIp \in Attackers
  BY <1>1 DEF JobIp
<1>4. /\ Len(decide(JobScore)) \in 1 .. 3
      /\ \A i \in 1 .. Len(decide(JobScore)) : decide(JobScore)[i] \in Actions
  BY <1>2, DecideType
<1>5. job.step \in 1 .. Len(decide(JobScore))
  BY <1>1, <1>4
<1>6. JobAction \in Actions
  BY <1>4, <1>5 DEF JobAction
<1>7. QED  BY <1>1, <1>2, <1>3, <1>5, <1>6

\* A line of the log is one of a session, and its number one of its events.
LEMMA LineType ==
  ASSUME TypeOK, pos < Len(log)
  PROVE  /\ log[pos + 1] \in Line
         /\ log[pos + 1].session \in Sessions
         /\ ~IsClose(log[pos + 1]) => log[pos + 1].nr \in EventNrs
         /\ log[pos + 1].nr \in EventNrs \cup {0}
         /\ pos + 1 \in 0 .. Len(log)
<1>1. Len(log) \in Nat /\ pos \in Nat /\ pos + 1 \in 1 .. Len(log)
  BY DEF TypeOK
<1>2. log[pos + 1] \in Line
  BY <1>1 DEF TypeOK
<1>3. QED  BY <1>1, <1>2 DEF Line, IsClose

\* Whatever is done has one of the results an action may have.
LEMMA NotifyResult ==
  ASSUME Notify
  PROVE  \E result \in Results : Returned(result) /\ result.success
<1>1. PICK sent \in BOOLEAN : Returned([applied |-> sent, success |-> TRUE])
  BY DEF Notify
<1>2. /\ [applied |-> sent, success |-> TRUE] \in Results
      /\ [applied |-> sent, success |-> TRUE].success
  BY DEF Results
<1>3. QED  BY <1>1, <1>2

LEMMA AnyResult ==
  ASSUME RunFirewall \/ Notify \/ ForensicCapture
  PROVE  \E result \in Results : Returned(result)
<1>1. CASE RunFirewall
  BY <1>1 DEF RunFirewall, RunnerResults, IptablesResults, Recorded
<1>2. CASE Notify
  BY <1>2, NotifyResult
<1>3. CASE ForensicCapture
  BY <1>3 DEF ForensicCapture, SpawnResults, Recorded
<1>4. QED  BY <1>1, <1>2, <1>3

\* The fields of the state that an outcome leaves well-typed.
LEMMA ReturnedType ==
  ASSUME TypeOK, pc \in {"act", "redirect"},
         JobAction \in HostActions,
         NEW result \in Results,
         Returned(result), UNCHANGED decoys
  PROVE  TypeOK'
<1>1. /\ job \in Job
      /\ job.session \in Sessions
      /\ job.evidence \in SUBSET EventNrs
      /\ job.step \in 1 .. 3
      /\ JobIp \in Attackers
      /\ job.step <= Len(decide(JobScore))
  BY JobType DEF TypeOK, Job
<1>2. job' = [session |-> job.session, evidence |-> job.evidence, score |-> job.score,
              step |-> job.step, success |-> result.success]
  BY <1>1 DEF Returned, Job
<1>3. job' \in Job /\ JobScore' = JobScore
  <2>1. job.score \in Scores /\ result.success \in BOOLEAN
    BY <1>1 DEF Job, Results
  <2>2. QED  BY <1>1, <1>2, <2>1 DEF Job, JobScore
<1>4. pc' = "record" /\ job'.step <= Len(decide(JobScore'))
  BY <1>1, <1>2, <1>3 DEF Returned
<1>5. effects' \in [Attackers -> [HostActions -> Nat]]
  <2>1. effects[JobIp] \in [HostActions -> Nat]
    BY <1>1 DEF TypeOK
  <2>2. effects[JobIp][JobAction] + 1 \in Nat
    BY <2>1
  <2>3. QED  BY <1>1, <2>1, <2>2 DEF Returned, TypeOK, Results
<1>6. QED
  BY <1>3, <1>4, <1>5
  DEF TypeOK, Returned, logVars, tailVars, verdictVars, PCs

\* Every row the daemon or the portal writes keeps the table well-typed.
LEMMA WriteType ==
  ASSUME responses \in [Attackers -> [Actions -> [{0, 1} -> Nat]]],
         NEW ip \in Attackers, NEW action \in Actions, NEW success \in BOOLEAN,
         write_response(ip, action, success)
  PROVE  responses' \in [Attackers -> [Actions -> [{0, 1} -> Nat]]]
BY DEF write_response, Count

\* What is written is a line, of the next event or the close.
LEMMA NextEvent ==
  ASSUME TypeOK, NEW s \in Sessions, LogData(s)
  PROVE  written[s] + 1 \in EventNrs
<1>1. written[s] \in 0 .. MaxEvents /\ written[s] < MaxEvents
  BY DEF LogData, TypeOK, EventNrs
<1>2. QED  BY <1>1 DEF EventNrs

LEMMA LineWritten ==
  ASSUME TypeOK, NEW s \in Sessions, LogData(s) \/ LogClose(s)
  PROVE  \E line \in Line : line.session = s /\ Write(line)
<1>1. CASE LogData(s)
  <2>1. written[s] + 1 \in EventNrs
    BY <1>1, NextEvent
  <2>2. [session |-> s, nr |-> written[s] + 1] \in Line
    BY <2>1 DEF Line
  <2>3. QED  BY <1>1, <2>2 DEF LogData
<1>2. CASE LogClose(s)
  <2>1. [session |-> s, nr |-> 0] \in Line
    BY DEF Line
  <2>2. QED  BY <1>2, <2>1 DEF LogClose
<1>3. QED  BY <1>1, <1>2

\* What a start skips are numbers of lines there are.
LEMMA SkippedType ==
  ASSUME TypeOK, NEW s \in Sessions
  PROVE  LinesOf(s, 1 .. Seek + Count(Midway)) \subseteq EventNrs \cup {0}
<1>1. Seek + Count(Midway) \in 0 .. Len(log)
  <2>1. Len(log) \in Nat /\ base \in 0 .. Len(log) /\ (torn => base < Len(log))
    BY DEF TypeOK
  <2>2. CASE FromStart
    BY <2>1, <2>2 DEF Seek, Midway, Count
  <2>3. CASE ~FromStart /\ torn
    BY <2>1, <2>3 DEF Seek, Midway, Count
  <2>4. CASE ~FromStart /\ ~torn
    BY <2>1, <2>4 DEF Seek, Midway, Count
  <2>5. QED  BY <2>2, <2>3, <2>4
<1>2. \A i \in 1 .. Seek + Count(Midway) : i \in 1 .. Len(log) /\ log[i] \in Line
  BY <1>1 DEF TypeOK
<1>3. QED  BY <1>2 DEF LinesOf, Line

\* Counting a verdict's actions keeps the counters numbers.
LEMMA CalledType ==
  ASSUME TypeOK, Persist
  PROVE  called' \in [Attackers -> [Actions -> Nat]]
<1>1. JobIp \in Attackers
  BY JobType DEF Persist
<1>2. called[JobIp] \in [Actions -> Nat]
  BY <1>1 DEF TypeOK
<1> DEFINE counts == [a \in Actions |-> called[JobIp][a] + Count(a \in Called(JobScore))]
<1>3. \A a \in Actions : called[JobIp][a] + Count(a \in Called(JobScore)) \in Nat
  BY <1>2 DEF Count
<1>4. counts \in [Actions -> Nat]
  BY <1>3
<1>5. called' = [called EXCEPT ![JobIp] = counts]
  BY DEF Persist
<1>6. called \in [Attackers -> [Actions -> Nat]]
  BY DEF TypeOK
<1>7. QED
  <2> HIDE DEF counts
  <2>1. QED  BY <1>1, <1>4, <1>5, <1>6

\* It holds at the start.
LEMMA InitType == Init => TypeOK
<1> SUFFICES ASSUME Init PROVE TypeOK
  OBVIOUS
<1>1. log \in Seq(Line) /\ Len(log) = 0
  BY DEF Init
<1>2. /\ called \in [Attackers -> [Actions -> Nat]]
      /\ responses \in [Attackers -> [Actions -> [{0, 1} -> Nat]]]
      /\ effects \in [Attackers -> [HostActions -> Nat]]
  BY DEF Init
<1>3. /\ written \in [Sessions -> EventNrs \cup {0}]
      /\ buffers \in [Sessions -> SUBSET EventNrs]
      /\ lost \in [Sessions -> SUBSET (EventNrs \cup {0})]
      /\ answered \in [Sessions -> Nat]
      /\ session_analysis \in [Sessions -> {NoVerdict} \cup Verdict]
      /\ removed \in [Attackers -> Nat] /\ decoys \in [Attackers -> Nat]
  BY DEF Init
<1>4. requests \in [Requests -> Request]
  BY DEF Init, Request
<1>5. /\ base \in 0 .. Len(log) /\ end \in 0 .. Len(log) /\ pos \in 0 .. Len(log)
      /\ crashes \in 0 .. MaxCrashes
  BY <1>1 DEF Init
<1>6. /\ torn = FALSE /\ half \in BOOLEAN
      /\ closed \subseteq Sessions /\ model \in Models
  BY DEF Init
<1>7. pc = "down" /\ pc \in PCs /\ job = Idle
  BY DEF Init, PCs
<1>8. QED  BY <1>1, <1>2, <1>3, <1>4, <1>5, <1>6, <1>7 DEF TypeOK

\* TypeOK: every variable holds what the code can put there.
THEOREM TypeCorrect == Spec => []TypeOK
<1>1. Init => TypeOK
  BY InitType
<1>2. TypeOK /\ [Next]_vars => TypeOK'
  <2> SUFFICES ASSUME TypeOK, [Next]_vars
               PROVE  TypeOK'
    OBVIOUS
  <2>1. ASSUME NEW s \in Sessions, LogData(s) \/ LogClose(s)
        PROVE  TypeOK'
    <3>1. PICK line \in Line : Write(line)
      BY <2>1, LineWritten
    <3>2. written' \in [Sessions -> EventNrs \cup {0}] /\ closed' \subseteq Sessions
      <4>1. CASE LogData(s)
        <5>1. written[s] + 1 \in EventNrs
          BY <4>1, NextEvent
        <5>2. QED  BY <4>1, <5>1 DEF LogData, TypeOK
      <4>2. CASE LogClose(s)
        BY <4>2 DEF LogClose, TypeOK
      <4>3. QED  BY <2>1, <4>1, <4>2
    <3>3. /\ log' \in Seq(Line) /\ Len(log') = Len(log) + 1 /\ Len(log) \in Nat
          /\ torn' \in BOOLEAN /\ base' = base
      <4>1. log' = Append(log, line) /\ torn' \in BOOLEAN /\ base' = base
        BY <3>1 DEF Write
      <4>2. log \in Seq(Line)
        BY DEF TypeOK
      <4>3. QED  BY <4>1, <4>2
    <3>4. /\ pos \in 0 .. Len(log') /\ end \in 0 .. Len(log')
          /\ base' \in 0 .. Len(log') /\ base' < Len(log')
      BY <3>3 DEF TypeOK
    <3>5. UNCHANGED <<tailVars, model, pc, buffers, job, verdictVars, responses,
                      hostVars, requests, crashes>>
      BY <3>1 DEF Write
    <3>6. QED
      BY <3>2, <3>3, <3>4, <3>5
      DEF TypeOK, tailVars, verdictVars, hostVars, JobScore, JobAction
  <2>2. CASE LogRest \/ Rotate
    <3>1. Len(log) \in Nat /\ Len(log) \in 0 .. Len(log)
      BY DEF TypeOK
    <3>2. /\ base' \in 0 .. Len(log) /\ end' \in 0 .. Len(log)
          /\ torn' = FALSE /\ log' = log
      BY <2>2, <3>1 DEF LogRest, Rotate, TypeOK, tailVars
    <3>3. QED
      BY <2>2, <3>2
      DEF LogRest, Rotate, TypeOK, tailVars, verdictVars, hostVars, JobScore, JobAction
  <2>3. CASE Start
    <3>1. pos' \in 0 .. Len(log) /\ end' \in 0 .. Len(log) /\ half' \in BOOLEAN
      BY <2>3 DEF Start, Seek, Midway, TypeOK
    <3>2. lost' \in [Sessions -> SUBSET (EventNrs \cup {0})]
      BY <2>3, SkippedType DEF Start, TypeOK
    <3>3. QED
      BY <2>3, <3>1, <3>2 DEF Start, TypeOK, logVars, verdictVars, hostVars, PCs
  <2>4. CASE ReadPart \/ ReadRest \/ ReadData
    <3>1. /\ pos < Len(log) /\ pc = "tail"
          /\ log[pos + 1].session \in Sessions
          /\ log[pos + 1].nr \in EventNrs \cup {0}
          /\ ~IsClose(log[pos + 1]) => log[pos + 1].nr \in EventNrs
          /\ pos + 1 \in 0 .. Len(log)
      BY <2>4, LineType DEF ReadPart, ReadRest, ReadLine, HasNext, ReadData, HasNext
    <3>2. /\ pos \in 0 .. Len(log) /\ half \in BOOLEAN
          /\ lost \in [Sessions -> SUBSET (EventNrs \cup {0})]
          /\ buffers \in [Sessions -> SUBSET EventNrs]
      BY DEF TypeOK
    <3>3. pos' \in 0 .. Len(log) /\ half' \in BOOLEAN
      BY <2>4, <3>1, <3>2 DEF ReadPart, ReadRest, ReadLine, HasNext, ReadData
    <3>4. /\ lost' \in [Sessions -> SUBSET (EventNrs \cup {0})]
          /\ buffers' \in [Sessions -> SUBSET EventNrs]
      <4>1. CASE ReadPart
        BY <3>1, <3>2, <4>1 DEF ReadPart
      <4>2. CASE ReadRest
        BY <3>2, <4>2 DEF ReadRest
      <4>3. CASE ReadData
        BY <3>1, <3>2, <4>3 DEF ReadData, ReadLine, HasNext, Held
      <4>4. QED  BY <2>4, <4>1, <4>2, <4>3
    <3>5. UNCHANGED <<logVars, model, end, pc, job, verdictVars, responses, hostVars,
                      requests, crashes>>
      BY <2>4 DEF ReadPart, ReadRest, ReadLine, HasNext, ReadData
    <3>6. QED
      BY <3>1, <3>3, <3>4, <3>5 DEF TypeOK, logVars, verdictVars, hostVars
  <2>5. CASE ReadClose
    <3> DEFINE line == log[pos + 1]
    <3> DEFINE seen == buffers[line.session]
               score == ScoreOf[model][line.session][seen]
    <3>1. /\ pos' \in 0 .. Len(log)
          /\ buffers' \in [Sessions -> SUBSET EventNrs]
      BY <2>5, LineType DEF ReadClose, ReadLine, HasNext, TypeOK
    <3>2. /\ job' = [session |-> line.session, evidence |-> seen, score |-> score,
                     step |-> 1, success |-> FALSE]
          /\ line.session \in Sessions /\ seen \in SUBSET EventNrs
          /\ pc' = "persist" /\ half' = half
      BY <2>5, LineType DEF ReadClose, ReadLine, HasNext, AfterClose, TypeOK
    <3>6. model \in Models
      BY DEF TypeOK
    <3>. score \in Scores
      BY <3>2, <3>6, ResponderConstants
    <3> HIDE DEF seen, score
    <3>3. job' \in Job /\ job'.step = 1 /\ JobScore' \in Scores
      BY <3>2 DEF Job, JobScore
    <3>4. job'.step <= Len(decide(JobScore'))
      <4>1. \A r \in Scores : Len(decide(r)) \in 1 .. 3
        BY DecideType
      <4>2. Len(decide(JobScore')) \in 1 .. 3
        BY <3>3, <4>1
      <4> DEFINE n == Len(decide(JobScore'))
      <4> HIDE DEF n
      <4>3. n \in 1 .. 3 => 1 <= n
        OBVIOUS
      <4>4. 1 <= n
        BY <4>2, <4>3 DEF n
      <4>5. QED  BY <3>3, <4>4 DEF n
    <3>5. QED
      BY <2>5, <3>1, <3>2, <3>3, <3>4
      DEF ReadClose, ReadLine, HasNext, TypeOK, logVars, verdictVars, hostVars, PCs
  <2>6. CASE Persist
    <3>1. pc' = "act" /\ job' = job /\ JobScore' = JobScore
      BY <2>6 DEF Persist, JobScore
    <3>2. job \in Job /\ job.step <= Len(decide(JobScore)) /\ job.session \in Sessions
          /\ job.evidence \in SUBSET EventNrs
      BY <2>6, JobType DEF Persist, TypeOK
    <3>3. /\ session_analysis' \in [Sessions -> {NoVerdict} \cup Verdict]
          /\ answered' \in [Sessions -> Nat]
      <4>1. [evidence |-> job.evidence, score |-> job.score] \in Verdict
        BY <3>2 DEF Job, Verdict
      <4>2. session_analysis \in [Sessions -> {NoVerdict} \cup Verdict]
        BY DEF TypeOK
      <4>3. answered \in [Sessions -> Nat]
        BY DEF TypeOK
      <4>4. session_analysis' \in [Sessions -> {NoVerdict} \cup Verdict]
        BY <2>6, <3>2, <4>1, <4>2 DEF Persist
      <4>5. answered' \in [Sessions -> Nat]
        BY <2>6, <3>2, <4>3 DEF Persist
      <4>6. QED  BY <4>4, <4>5
    <3>5. called' \in [Attackers -> [Actions -> Nat]]
      BY <2>6, CalledType
    <3>6. pc = "persist" /\ pc' = "act"
      BY <2>6 DEF Persist
    <3>7. UNCHANGED <<log, torn, base, written, closed, model, end, pos, half, buffers, lost,
                      responses, effects, removed, decoys, requests, crashes>>
      BY <2>6 DEF Persist, logVars, tailVars, hostVars
    <3>8. job' \in Job /\ job'.step <= Len(decide(JobScore'))
      BY <3>1, <3>2
    <3>4. QED
      BY <3>3, <3>5, <3>6, <3>7, <3>8 DEF TypeOK, PCs
  <2>7. CASE LogOnly
    <3>1. /\ job \in Job
          /\ job.step <= Len(decide(JobScore))
      BY <2>7, JobType DEF LogOnly, TypeOK
    <3>2. job' = [session |-> job.session, evidence |-> job.evidence,
                  score |-> job.score, step |-> job.step, success |-> TRUE]
      BY <2>7, <3>1 DEF LogOnly, Job
    <3>3. job' \in Job /\ JobScore' = JobScore /\ job'.step <= Len(decide(JobScore'))
      BY <3>1, <3>2 DEF Job, JobScore
    <3>4. QED
      BY <2>7, <3>3 DEF LogOnly, TypeOK, logVars, tailVars, verdictVars, hostVars, PCs
  <2>8. CASE SpawnDecoy
    <3>1. /\ job \in Job
          /\ job.step <= Len(decide(JobScore))
          /\ JobIp \in Attackers
      BY <2>8, JobType DEF SpawnDecoy, TypeOK
    <3>2. decoys' \in [Attackers -> Nat]
      BY <2>8, <3>1 DEF SpawnDecoy, TypeOK
    <3>3. /\ pc' = "redirect" /\ job' = job
          /\ JobScore' = JobScore /\ JobAction' = "redirect"
      BY <2>8 DEF SpawnDecoy, JobScore, JobAction
    <3>4. QED
      BY <2>8, <3>1, <3>2, <3>3 DEF SpawnDecoy, TypeOK, logVars, tailVars, verdictVars, PCs
  <2>9. CASE RunFirewall
    <3>1. PICK result \in RunnerResults : Returned(result)
      BY <2>9 DEF RunFirewall
    <3>2. result \in Results
      BY DEF RunnerResults, IptablesResults, Recorded
    <3>3. pc \in {"act", "redirect"} /\ UNCHANGED decoys
      BY <2>9 DEF RunFirewall
    <3>4. JobAction \in HostActions
      BY <2>9 DEF RunFirewall, TypeOK, HostActions, FirewallActions
    <3>5. QED
      BY <3>1, <3>2, <3>3, <3>4, ReturnedType
  <2>10. CASE Notify
    <3>1. PICK sent \in BOOLEAN : Returned([applied |-> sent, success |-> TRUE])
      BY <2>10 DEF Notify
    <3>2. [applied |-> sent, success |-> TRUE] \in Results
      BY DEF Results
    <3>3. JobAction \in HostActions
      BY <2>10 DEF Notify, HostActions
    <3>4. pc = "act" /\ UNCHANGED decoys
      BY <2>10 DEF Notify
    <3>5. QED
      BY <3>1, <3>2, <3>3, <3>4, ReturnedType
  <2>11. CASE ForensicCapture
    <3>1. PICK result \in (IF Enforce THEN SpawnResults ELSE Recorded) : Returned(result)
      BY <2>11 DEF ForensicCapture
    <3>2. result \in Results
      BY DEF SpawnResults, Recorded
    <3>3. pc = "act" /\ UNCHANGED decoys
      BY <2>11 DEF ForensicCapture
    <3>4. JobAction \in HostActions
      BY <2>11 DEF ForensicCapture, HostActions
    <3>5. QED
      BY <3>1, <3>2, <3>3, <3>4, ReturnedType
  <2>12. CASE Record
    <3>1. /\ job \in Job
          /\ JobIp \in Attackers
          /\ JobAction \in Actions
          /\ job.success \in BOOLEAN
          /\ job.step \in 1 .. 3
          /\ Len(decide(JobScore)) \in 1 .. 3
      BY <2>12, JobType, DecideType DEF Record
    <3>2. responses' \in [Attackers -> [Actions -> [{0, 1} -> Nat]]]
      BY <2>12, <3>1, WriteType DEF Record, TypeOK
    <3>3. CASE MoreActions
      <4>1. job' = [session |-> job.session, evidence |-> job.evidence,
                    score |-> job.score, step |-> job.step + 1, success |-> job.success]
        BY <2>12, <3>1, <3>3 DEF Record, Job
      <4>2. job.step + 1 \in 1 .. 3 /\ job.step + 1 <= Len(decide(JobScore))
        <5> DEFINE n == Len(decide(JobScore))
                   i == job.step
        <5>1. n \in 1 .. 3 /\ i \in 1 .. 3
          BY <3>1
        <5>2. i < n
          BY <3>3 DEF MoreActions
        <5> HIDE DEF n, i
        <5>3. i + 1 \in 1 .. 3 /\ i + 1 <= n
          BY <5>1, <5>2
        <5>4. QED  BY <5>3 DEF n, i
      <4>3. job' \in Job /\ JobScore' = JobScore /\ job'.step = job.step + 1
        BY <3>1, <4>1, <4>2 DEF Job, JobScore
      <4>4. QED
        BY <2>12, <3>2, <3>3, <4>2, <4>3
        DEF Record, TypeOK, logVars, tailVars, verdictVars, hostVars, PCs
    <3>4. CASE ~MoreActions
      BY <2>12, <3>2, <3>4
      DEF Record, TypeOK, logVars, tailVars, verdictVars, hostVars, PCs
    <3>5. QED  BY <3>3, <3>4
  <2>13. CASE Crash
    <3>1. Len(log) \in Nat /\ crashes \in 0 .. MaxCrashes
      BY DEF TypeOK
    <3>2. 0 \in 0 .. Len(log) /\ crashes' \in 0 .. MaxCrashes
      BY <2>13, <3>1 DEF Crash
    <3>3. QED
      BY <2>13, <3>2 DEF Crash, TypeOK, logVars, verdictVars, hostVars, PCs
  <2>14. ASSUME NEW q \in Requests, NEW ip \in Attackers, ApiBlock(q, ip)
         PROVE  TypeOK'
    <3> PICK result \in IptablesResults :
          /\ requests' = [requests EXCEPT ![q] =
               [status |-> "blocked", ip |-> ip, success |-> result.success]]
          /\ effects' = IF result.applied
                        THEN [effects EXCEPT ![ip]["block"] = @ + 1]
                        ELSE effects
      BY <2>14 DEF ApiBlock
    <3>1. requests' \in [Requests -> Request]
      <4>1. result.success \in BOOLEAN
        BY DEF IptablesResults, Results
      <4>2. [status |-> "blocked", ip |-> ip, success |-> result.success] \in Request
        BY <4>1 DEF Request
      <4>3. QED  BY <4>2 DEF TypeOK
    <3>2. effects' \in [Attackers -> [HostActions -> Nat]]
      <4>1. "block" \in HostActions
        BY DEF HostActions, FirewallActions
      <4>2. effects[ip] \in [HostActions -> Nat]
        BY DEF TypeOK
      <4>3. effects[ip]["block"] + 1 \in Nat
        BY <4>1, <4>2
      <4>4. QED  BY <4>1, <4>2, <4>3 DEF TypeOK
    <3>3. QED
      BY <2>14, <3>1, <3>2
      DEF ApiBlock, TypeOK, logVars, tailVars, verdictVars, JobScore, JobAction
  <2>15. ASSUME NEW q \in Requests, ApiRecord(q)
         PROVE  TypeOK'
    <3>1. /\ requests[q].status = "blocked"
          /\ requests[q].ip \in Attackers
          /\ requests[q].success \in BOOLEAN
          /\ requests' = [requests EXCEPT ![q].status = "recorded"]
      BY <2>15 DEF ApiRecord, TypeOK, Request
    <3>2. requests' \in [Requests -> Request]
      <4>1. PICK ip \in Attackers, success \in BOOLEAN :
              requests[q] = [status |-> "blocked", ip |-> ip, success |-> success]
        BY <3>1 DEF TypeOK, Request
      <4>2. [requests[q] EXCEPT !.status = "recorded"]
              = [status |-> "recorded", ip |-> ip, success |-> success]
        BY <4>1
      <4>3. [requests[q] EXCEPT !.status = "recorded"] \in Request
        BY <4>2 DEF Request
      <4>4. QED  BY <3>1, <4>3 DEF TypeOK
    <3>3. "block" \in Actions
      BY DEF Actions, HostActions, FirewallActions
    <3>4. responses' \in [Attackers -> [Actions -> [{0, 1} -> Nat]]]
      BY <2>15, <3>1, <3>3, WriteType DEF ApiRecord, TypeOK
    <3>5. QED
      BY <2>15, <3>2, <3>4
      DEF ApiRecord, TypeOK, logVars, tailVars, verdictVars, hostVars, JobScore, JobAction
  <2>16. ASSUME NEW ip \in Attackers, Unblock(ip)
         PROVE  TypeOK'
    <3>1. "block" \in HostActions
      BY DEF HostActions, FirewallActions
    <3>2. /\ effects' \in [Attackers -> [HostActions -> Nat]]
          /\ removed' \in [Attackers -> Nat]
      BY <2>16, <3>1 DEF Unblock, TypeOK
    <3>3. QED
      BY <2>16, <3>2 DEF Unblock, TypeOK, logVars, tailVars, verdictVars, JobScore, JobAction
  <2>17. CASE UNCHANGED vars
    BY <2>17 DEF vars, logVars, tailVars, verdictVars, hostVars, TypeOK, JobScore, JobAction
  <2>20. QED
    BY <2>1, <2>2, <2>3, <2>4, <2>5, <2>6, <2>7, <2>8, <2>9,
       <2>10, <2>11, <2>12, <2>13, <2>14, <2>15, <2>16, <2>17
    DEF Next, Honeypot, Daemon, Portal, vars
<1>3. QED  BY <1>1, <1>2, PTL DEF Spec
-----------------------------------------------------------------------------
(* What happened to the host is in the responses table. *)

\* Outcomes of manual blocks that the table lacks.
Unwritten(a, ip) == IF a = "block" THEN Cardinality(Blocked(ip)) ELSE 0

\* The conjunct of EffectsAreRecorded for one action and one attacker.
Accounted(a, ip) ==
  Effected(a, ip) <= Rows(a, ip) + crashes + Count(Awaiting(a, ip)) + Unwritten(a, ip)

\* The terms of Accounted are numbers.
LEMMA TermsType ==
  ASSUME TypeOK, NEW a \in HostActions, NEW ip \in Attackers
  PROVE  /\ Effected(a, ip) \in Nat
         /\ Rows(a, ip) \in Nat
         /\ Unwritten(a, ip) \in Nat
         /\ Count(Awaiting(a, ip)) \in {0, 1}
         /\ crashes \in Nat
         /\ IsFiniteSet(Blocked(ip))
         /\ Cardinality(Blocked(ip)) \in Nat
<1>1. effects[ip][a] \in Nat /\ removed[ip] \in Nat /\ crashes \in Nat
  BY DEF TypeOK
<1>2. responses[ip] \in [Actions -> [{0, 1} -> Nat]] /\ a \in Actions
  BY DEF TypeOK, Actions
<1>3. responses[ip][a] \in [{0, 1} -> Nat]
  BY <1>2
<1>4. Blocked(ip) \in SUBSET Requests
  BY DEF Blocked
<1>5. IsFiniteSet(Blocked(ip)) /\ Cardinality(Blocked(ip)) \in Nat
  BY <1>4, FS_Subset, FS_CardinalityType
<1>6. Effected(a, ip) \in Nat
  BY <1>1 DEF Effected
<1>7. Rows(a, ip) \in Nat
  BY <1>3 DEF Rows
<1>8. Unwritten(a, ip) \in Nat
  BY <1>5 DEF Unwritten
<1>9. Count(Awaiting(a, ip)) \in {0, 1}
  BY DEF Count, Awaiting
<1>10. QED
  BY <1>1, <1>5, <1>6, <1>7, <1>8, <1>9

\* A command took effect; a row was written.
TakesEffect(a0, ip0) == effects' = [effects EXCEPT ![ip0][a0] = @ + 1]
AddsRow(a0, ip0, column) == responses' = [responses EXCEPT ![ip0][a0][column] = @ + 1]

\* One more effect counts for its own action and attacker only.
LEMMA OneEffect ==
  ASSUME TypeOK, NEW a0 \in HostActions, NEW ip0 \in Attackers,
         TakesEffect(a0, ip0),
         NEW a \in HostActions, NEW ip \in Attackers
  PROVE  /\ effects'[ip][a] \in Nat
         /\ effects'[ip][a] = effects[ip][a] + (IF a = a0 /\ ip = ip0 THEN 1 ELSE 0)
<1>1. effects[ip] \in [HostActions -> Nat]
  BY DEF TypeOK
<1>2. effects[ip][a] \in Nat
  BY <1>1
<1>3. QED
  BY <1>1, <1>2 DEF TakesEffect, TypeOK

\* One more row counts for its own action and attacker only.
LEMMA OneRow ==
  ASSUME TypeOK, NEW a0 \in Actions, NEW ip0 \in Attackers, NEW column \in {0, 1},
         AddsRow(a0, ip0, column),
         NEW a \in HostActions, NEW ip \in Attackers
  PROVE  /\ responses'[ip][a][1] + responses'[ip][a][0]
              = responses[ip][a][1] + responses[ip][a][0]
                  + (IF a = a0 /\ ip = ip0 THEN 1 ELSE 0)
         /\ responses'[ip][a][1] = responses[ip][a][1]
              + (IF a = a0 /\ ip = ip0 /\ column = 1 THEN 1 ELSE 0)
<1>1. responses[ip] \in [Actions -> [{0, 1} -> Nat]] /\ a \in Actions
  BY DEF TypeOK, Actions
<1>2. responses[ip][a] \in [{0, 1} -> Nat]
  BY <1>1
<1>3. responses[ip][a][1] \in Nat /\ responses[ip][a][0] \in Nat
  BY <1>2
<1>4. CASE a = a0 /\ ip = ip0
  <2>1. responses'[ip][a] = [responses[ip][a] EXCEPT ![column] = @ + 1]
    BY <1>1, <1>4 DEF AddsRow, TypeOK
  <2>2. CASE column = 1
    <3>1. /\ responses'[ip][a][1] = responses[ip][a][1] + 1
          /\ responses'[ip][a][0] = responses[ip][a][0]
      BY <1>2, <2>1, <2>2
    <3>2. responses'[ip][a][1] + responses'[ip][a][0]
            = responses[ip][a][1] + responses[ip][a][0] + 1
      BY <1>3, <3>1
    <3>3. QED  BY <1>4, <2>2, <3>1, <3>2
  <2>3. CASE column = 0
    <3>1. /\ responses'[ip][a][1] = responses[ip][a][1]
          /\ responses'[ip][a][0] = responses[ip][a][0] + 1
      BY <1>2, <2>1, <2>3
    <3>2. QED  BY <1>3, <1>4, <2>3, <3>1
  <2>4. QED  BY <2>2, <2>3
<1>5. CASE ~(a = a0 /\ ip = ip0)
  <2>1. responses'[ip][a] = responses[ip][a]
    BY <1>1, <1>5 DEF AddsRow, TypeOK
  <2>2. QED  BY <1>3, <1>5, <2>1
<1>6. QED  BY <1>4, <1>5

\* An action that returned had at most its own effect.
LEMMA EffectOfReturned ==
  ASSUME TypeOK, pc \in {"act", "redirect"}, JobAction \in HostActions,
         NEW result \in Results, Returned(result),
         NEW a \in HostActions, NEW ip \in Attackers
  PROVE  /\ Effected(a, ip)' \in Nat
         /\ Effected(a, ip)'
              <= Effected(a, ip) + (IF a = JobAction /\ ip = JobIp THEN 1 ELSE 0)
<1>1. CASE result.applied
  <2>1. /\ effects' = [effects EXCEPT ![JobIp][JobAction] = @ + 1]
        /\ removed' = removed
    BY <1>1 DEF Returned
  <2>2. PICK a0 \in HostActions, ip0 \in Attackers : a0 = JobAction /\ ip0 = JobIp
    BY JobType
  <2>3. TakesEffect(a0, ip0) /\ removed' = removed
    BY <2>1, <2>2 DEF TakesEffect
  <2>4. /\ effects'[ip][a] \in Nat
        /\ effects'[ip][a] = effects[ip][a] + (IF a = a0 /\ ip = ip0 THEN 1 ELSE 0)
    BY <2>3, OneEffect
  <2>5. removed[ip] \in Nat
    BY DEF TypeOK
  <2>6. effects[ip] \in [HostActions -> Nat]
    BY DEF TypeOK
  <2>7. effects[ip][a] \in Nat
    BY <2>6
  <2>8. QED  BY <2>2, <2>3, <2>4, <2>5, <2>7 DEF Effected
<1>2. CASE ~result.applied
  <2>1. Effected(a, ip)' = Effected(a, ip)
    BY <1>2 DEF Returned, Effected
  <2>2. QED  BY <2>1, TermsType
<1>3. QED  BY <1>1, <1>2

\* _record writes one row, of the action in hand.
LEMMA RowOfRecord ==
  ASSUME TypeOK, Record, NEW a \in HostActions, NEW ip \in Attackers
  PROVE  Rows(a, ip)' = Rows(a, ip) + (IF a = JobAction /\ ip = JobIp THEN 1 ELSE 0)
<1>1. JobAction \in Actions /\ JobIp \in Attackers /\ job.success \in BOOLEAN
  BY JobType DEF Record
<1>2. PICK a0 \in Actions, ip0 \in Attackers, column \in {0, 1} :
        /\ a0 = JobAction /\ ip0 = JobIp
        /\ AddsRow(a0, ip0, column)
  BY <1>1 DEF Record, write_response, AddsRow, Count
<1>3. responses'[ip][a][1] + responses'[ip][a][0]
        = responses[ip][a][1] + responses[ip][a][0]
            + (IF a = a0 /\ ip = ip0 THEN 1 ELSE 0)
  BY <1>2, OneRow
<1>4. QED  BY <1>2, <1>3 DEF Rows

\* A manual block has at most its own effect, and awaits its row.
LEMMA BlockRequested ==
  ASSUME TypeOK, NEW q \in Requests, NEW ip0 \in Attackers, ApiBlock(q, ip0),
         NEW a \in HostActions, NEW ip \in Attackers
  PROVE  /\ Effected(a, ip)' \in Nat
         /\ Effected(a, ip)'
              <= Effected(a, ip) + (IF a = "block" /\ ip = ip0 THEN 1 ELSE 0)
         /\ Unwritten(a, ip)'
              = Unwritten(a, ip) + (IF a = "block" /\ ip = ip0 THEN 1 ELSE 0)
<1>1. PICK result \in IptablesResults :
        /\ requests' = [requests EXCEPT ![q] =
             [status |-> "blocked", ip |-> ip0, success |-> result.success]]
        /\ effects' = IF result.applied
                      THEN [effects EXCEPT ![ip0]["block"] = @ + 1]
                      ELSE effects
  BY DEF ApiBlock
<1>2. removed' = removed
  BY DEF ApiBlock
<1>3. /\ Effected(a, ip)' \in Nat
      /\ Effected(a, ip)'
           <= Effected(a, ip) + (IF a = "block" /\ ip = ip0 THEN 1 ELSE 0)
  <2>1. Effected(a, ip) \in Nat /\ "block" \in HostActions
    BY TermsType DEF HostActions, FirewallActions
  <2>2. CASE result.applied
    <3>1. effects' = [effects EXCEPT ![ip0]["block"] = @ + 1] /\ removed' = removed
      BY <1>1, <1>2, <2>2
    <3>2. /\ effects'[ip][a] \in Nat /\ effects[ip][a] \in Nat
          /\ removed[ip] \in Nat
          /\ effects'[ip][a]
               = effects[ip][a] + (IF a = "block" /\ ip = ip0 THEN 1 ELSE 0)
      <4>1. effects[ip][a] \in Nat /\ removed[ip] \in Nat
        BY DEF TypeOK
      <4>2. PICK a0 \in HostActions : a0 = "block"
        BY <2>1
      <4>3. TakesEffect(a0, ip0)
        BY <3>1, <4>2 DEF TakesEffect
      <4>4. /\ effects'[ip][a] \in Nat
            /\ effects'[ip][a]
                 = effects[ip][a] + (IF a = a0 /\ ip = ip0 THEN 1 ELSE 0)
        BY <4>3, OneEffect
      <4>5. QED  BY <4>1, <4>2, <4>4
    <3>3. QED  BY <3>1, <3>2 DEF Effected
  <2>3. CASE ~result.applied
    <3>1. Effected(a, ip)' = Effected(a, ip)
      BY <1>1, <1>2, <2>3 DEF Effected
    <3>2. QED  BY <2>1, <3>1
  <2>4. QED  BY <2>2, <2>3
<1>4. Unwritten(a, ip)'
        = Unwritten(a, ip) + (IF a = "block" /\ ip = ip0 THEN 1 ELSE 0)
  <2>1. Cardinality(Blocked(ip)) \in Nat /\ IsFiniteSet(Blocked(ip))
    BY TermsType
  <2>2. requests[q].status = "unused" /\ q \notin Blocked(ip)
    BY DEF ApiBlock, Blocked
  <2>3. requests'[q].status = "blocked" /\ requests'[q].ip = ip0
    BY <1>1 DEF TypeOK
  <2>4. \A other \in Requests \ {q} : requests'[other] = requests[other]
    BY <1>1 DEF TypeOK
  <2>5. CASE ip = ip0
    <3>1. Blocked(ip)' = Blocked(ip) \cup {q}
      BY <2>3, <2>4, <2>5 DEF Blocked
    <3>2. Cardinality(Blocked(ip))' = Cardinality(Blocked(ip)) + 1
      BY <2>1, <2>2, <3>1, FS_AddElement
    <3>3. QED  BY <2>1, <2>5, <3>2 DEF Unwritten
  <2>6. CASE ip # ip0
    <3>1. Blocked(ip)' = Blocked(ip)
      BY <2>2, <2>3, <2>4, <2>6 DEF Blocked
    <3>2. QED  BY <2>1, <2>6, <3>1 DEF Unwritten
  <2>7. QED  BY <2>5, <2>6
<1>5. QED  BY <1>3, <1>4

\* Its row is written.
LEMMA BlockRecorded ==
  ASSUME TypeOK, NEW q \in Requests, ApiRecord(q),
         NEW a \in HostActions, NEW ip \in Attackers
  PROVE  /\ Rows(a, ip)'
              = Rows(a, ip) + (IF a = "block" /\ ip = requests[q].ip THEN 1 ELSE 0)
         /\ Unwritten(a, ip)
              = Unwritten(a, ip)'
                  + (IF a = "block" /\ ip = requests[q].ip THEN 1 ELSE 0)
         /\ Unwritten(a, ip)' \in Nat
<1>1. /\ requests[q].status = "blocked"
      /\ requests[q].ip \in Attackers /\ requests[q].success \in BOOLEAN
      /\ "block" \in Actions
  BY DEF ApiRecord, TypeOK, Request, Actions, HostActions, FirewallActions
<1>2. PICK a0 \in Actions, ip0 \in Attackers, column \in {0, 1} :
        /\ a0 = "block" /\ ip0 = requests[q].ip
        /\ AddsRow(a0, ip0, column)
  BY <1>1 DEF ApiRecord, write_response, AddsRow, Count
<1>3. Rows(a, ip)' = Rows(a, ip) + (IF a = "block" /\ ip = ip0 THEN 1 ELSE 0)
  <2>1. responses'[ip][a][1] + responses'[ip][a][0]
          = responses[ip][a][1] + responses[ip][a][0]
              + (IF a = a0 /\ ip = ip0 THEN 1 ELSE 0)
    BY <1>2, OneRow
  <2>2. QED  BY <1>2, <2>1 DEF Rows
<1>4. Unwritten(a, ip)
        = Unwritten(a, ip)' + (IF a = "block" /\ ip = ip0 THEN 1 ELSE 0)
  <2>1. Cardinality(Blocked(ip)) \in Nat /\ IsFiniteSet(Blocked(ip))
    BY TermsType
  <2>2. requests'[q].status = "recorded"
    BY DEF ApiRecord, TypeOK
  <2>3. \A other \in Requests \ {q} : requests'[other] = requests[other]
    BY DEF ApiRecord, TypeOK
  <2>4. CASE ip = ip0
    <3>1. q \in Blocked(ip) /\ Blocked(ip)' = Blocked(ip) \ {q}
      BY <1>1, <1>2, <2>2, <2>3, <2>4 DEF Blocked
    <3>2. Cardinality(Blocked(ip))' = Cardinality(Blocked(ip)) - 1
      BY <2>1, <3>1, FS_RemoveElement
    <3>3. QED  BY <2>1, <2>4, <3>2 DEF Unwritten
  <2>5. CASE ip # ip0
    <3>1. Blocked(ip)' = Blocked(ip)
      BY <1>2, <2>2, <2>3, <2>5 DEF Blocked
    <3>2. QED  BY <2>1, <2>5, <3>1 DEF Unwritten
  <2>6. QED  BY <2>4, <2>5
<1>5. Unwritten(a, ip)' \in Nat
  <2>1. IsFiniteSet(Blocked(ip)')
    BY FS_Subset DEF Blocked
  <2>2. QED  BY <2>1, FS_CardinalityType DEF Unwritten
<1>6. QED  BY <1>2, <1>3, <1>4, <1>5

\* What the operator takes out has taken effect all the same.
LEMMA RuleTakenOut ==
  ASSUME TypeOK, NEW ip0 \in Attackers, Unblock(ip0),
         NEW a \in HostActions, NEW ip \in Attackers
  PROVE  Effected(a, ip)' = Effected(a, ip)
<1>1. /\ effects[ip] \in [HostActions -> Nat] /\ removed[ip] \in Nat
      /\ effects[ip][a] \in Nat
  BY DEF TypeOK
<1>2. CASE a = "block" /\ ip = ip0
  <2>1. /\ effects'[ip][a] = effects[ip][a] - 1
        /\ removed'[ip] = removed[ip] + 1
    BY <1>1, <1>2 DEF Unblock, TypeOK
  <2>2. QED  BY <1>1, <1>2, <2>1 DEF Effected
<1>3. CASE ~(a = "block" /\ ip = ip0)
  <2>1. /\ effects'[ip][a] = effects[ip][a]
        /\ a = "block" => removed'[ip] = removed[ip]
    BY <1>1, <1>3 DEF Unblock, TypeOK
  <2>2. QED  BY <1>1, <2>1 DEF Effected
<1>4. QED  BY <1>2, <1>3

\* A step that touches neither table, host nor requests, and starts or ends no
\* wait for _record, keeps the account.
LEMMA AccountFrame ==
  ASSUME TypeOK, TypeOK', EffectsAreRecorded,
         UNCHANGED <<responses, effects, removed, requests>>,
         crashes' \in Nat,
         \A a \in HostActions, ip \in Attackers :
           crashes + Count(Awaiting(a, ip)) <= crashes' + Count(Awaiting(a, ip))'
  PROVE  EffectsAreRecorded'
<1> SUFFICES ASSUME NEW a \in HostActions, NEW ip \in Attackers
             PROVE  Accounted(a, ip)'
  BY DEF EffectsAreRecorded, Accounted, Unwritten
<1>1. Accounted(a, ip)
  BY DEF EffectsAreRecorded, Accounted, Unwritten
<1>2. /\ Effected(a, ip)' = Effected(a, ip)
      /\ Rows(a, ip)' = Rows(a, ip)
      /\ Unwritten(a, ip)' = Unwritten(a, ip)
  BY DEF Effected, Rows, Unwritten, Blocked
<1>3. crashes + Count(Awaiting(a, ip)) <= crashes' + Count(Awaiting(a, ip))'
  OBVIOUS
<1>4. /\ Effected(a, ip) \in Nat /\ Rows(a, ip) \in Nat /\ Unwritten(a, ip) \in Nat
      /\ Count(Awaiting(a, ip)) \in {0, 1} /\ crashes \in Nat
      /\ Count(Awaiting(a, ip))' \in {0, 1} /\ crashes' \in Nat
  BY TermsType DEF Count, Awaiting
<1>5. QED  BY <1>1, <1>2, <1>3, <1>4 DEF Accounted

\* The outcome of an action waits for _record as soon as the action returned.
LEMMA AccountReturned ==
  ASSUME TypeOK, EffectsAreRecorded, pc \in {"act", "redirect"},
         JobAction \in HostActions,
         NEW result \in Results, Returned(result)
  PROVE  EffectsAreRecorded'
<1> SUFFICES ASSUME NEW a \in HostActions, NEW ip \in Attackers
             PROVE  Accounted(a, ip)'
  BY DEF EffectsAreRecorded, Accounted, Unwritten
<1>1. /\ Accounted(a, ip)
      /\ Effected(a, ip) \in Nat /\ Rows(a, ip) \in Nat
      /\ Unwritten(a, ip) \in Nat /\ crashes \in Nat
  BY TermsType DEF EffectsAreRecorded, Accounted, Unwritten
<1>2. /\ Rows(a, ip)' = Rows(a, ip) /\ crashes' = crashes
      /\ Unwritten(a, ip)' = Unwritten(a, ip)
  BY DEF Returned, tailVars, verdictVars, Rows, Unwritten, Blocked
<1>3. JobIp \in Attackers /\ job \in Job
  BY JobType
<1>4. /\ Effected(a, ip)' \in Nat
      /\ Effected(a, ip)'
           <= Effected(a, ip) + (IF a = JobAction /\ ip = JobIp THEN 1 ELSE 0)
  BY EffectOfReturned
<1>5. /\ Count(Awaiting(a, ip)) = 0
      /\ Count(Awaiting(a, ip))' = IF a = JobAction /\ ip = JobIp THEN 1 ELSE 0
  <2>1. JobAction' = JobAction /\ JobIp' = JobIp /\ pc' = "record"
    BY <1>3 DEF Returned, Job, JobAction, JobIp, JobScore
  <2>2. QED  BY <2>1 DEF Count, Awaiting
<1>6. QED  BY <1>1, <1>2, <1>4, <1>5 DEF Accounted

\* EffectsAreRecorded: what happened to the host is in the responses table,
\* but for one outcome per death of the daemon and those about to be written.
THEOREM AllEffectsAreRecorded == Spec => []EffectsAreRecorded
<1>1. Init => EffectsAreRecorded
  <2> SUFFICES ASSUME Init, NEW a \in HostActions, NEW ip \in Attackers
               PROVE  Accounted(a, ip)
    BY DEF EffectsAreRecorded, Accounted, Unwritten
  <2>1. TypeOK
    BY InitType
  <2>2. Effected(a, ip) = 0 /\ Rows(a, ip) = 0
    BY DEF Init, Effected, Rows, Actions
  <2>3. QED  BY <2>1, <2>2, TermsType DEF Accounted
<1>2. TypeOK /\ TypeOK' /\ EffectsAreRecorded /\ [Next]_vars => EffectsAreRecorded'
  <2> SUFFICES ASSUME TypeOK, TypeOK', EffectsAreRecorded, [Next]_vars
               PROVE  EffectsAreRecorded'
    OBVIOUS
  <2> crashes \in Nat /\ crashes' \in Nat
    BY DEF TypeOK
  <2>1. CASE Honeypot
    <3>1. UNCHANGED <<responses, effects, removed, requests, pc, job, crashes>>
      BY <2>1 DEF Honeypot, LogData, LogClose, LogRest, Rotate, Write, tailVars, verdictVars, hostVars
    <3>2. \A a \in HostActions, ip \in Attackers :
            /\ Count(Awaiting(a, ip))' = Count(Awaiting(a, ip))
            /\ Count(Awaiting(a, ip)) \in {0, 1}
      BY <3>1 DEF Awaiting, JobAction, JobIp, JobScore, Count
    <3>3. QED  BY <3>1, <3>2, AccountFrame
  <2>2. CASE Start \/ ReadPart \/ ReadRest \/ ReadData \/ ReadClose \/ Persist \/ SpawnDecoy
    <3>1. /\ UNCHANGED <<responses, effects, removed, requests, crashes>>
          /\ pc # "record"
      BY <2>2 DEF Start, ReadPart, ReadRest, ReadLine, HasNext, ReadData, ReadClose, Persist, SpawnDecoy, tailVars, verdictVars,
                  hostVars
    <3>2. \A a \in HostActions, ip \in Attackers :
            /\ Count(Awaiting(a, ip)) = 0
            /\ Count(Awaiting(a, ip))' \in {0, 1}
      BY <3>1 DEF Awaiting, Count
    <3>3. QED  BY <3>1, <3>2, AccountFrame
  <2>3. CASE LogOnly
    BY <2>3, AccountFrame DEF LogOnly, tailVars, verdictVars, hostVars, Awaiting, Count
  <2>4. CASE RunFirewall
    <3>1. PICK result \in RunnerResults : Returned(result)
      BY <2>4 DEF RunFirewall
    <3>2. /\ result \in Results /\ pc \in {"act", "redirect"}
          /\ JobAction \in HostActions
      BY <2>4 DEF RunnerResults, IptablesResults, Recorded, RunFirewall, TypeOK,
                  HostActions, FirewallActions
    <3>3. QED  BY <3>1, <3>2, AccountReturned
  <2>5. CASE Notify
    <3>1. PICK result \in Results : Returned(result)
      BY <2>5, NotifyResult
    <3>2. pc = "act" /\ JobAction \in HostActions
      BY <2>5 DEF Notify, HostActions
    <3>3. QED  BY <3>1, <3>2, AccountReturned
  <2>6. CASE ForensicCapture
    <3>1. PICK result \in (IF Enforce THEN SpawnResults ELSE Recorded) : Returned(result)
      BY <2>6 DEF ForensicCapture
    <3>2. result \in Results /\ pc = "act" /\ JobAction \in HostActions
      BY <2>6 DEF SpawnResults, Recorded, ForensicCapture, HostActions
    <3>3. QED  BY <3>1, <3>2, AccountReturned
  <2>7. CASE Record
    <3> SUFFICES ASSUME NEW a \in HostActions, NEW ip \in Attackers
                 PROVE  Accounted(a, ip)'
      BY DEF EffectsAreRecorded, Accounted, Unwritten
    <3>3. Rows(a, ip)' = Rows(a, ip) + (IF a = JobAction /\ ip = JobIp THEN 1 ELSE 0)
      BY <2>7, RowOfRecord
    <3>4. /\ Count(Awaiting(a, ip)) = IF a = JobAction /\ ip = JobIp THEN 1 ELSE 0
          /\ Count(Awaiting(a, ip))' = 0
      BY <2>7 DEF Record, Awaiting, Count
    <3>5. /\ Effected(a, ip)' = Effected(a, ip) /\ crashes' = crashes
          /\ Unwritten(a, ip)' = Unwritten(a, ip)
      BY <2>7 DEF Record, hostVars, Effected, Unwritten, Blocked
    <3>6. /\ Accounted(a, ip)
          /\ Effected(a, ip) \in Nat /\ Rows(a, ip) \in Nat /\ Unwritten(a, ip) \in Nat
      BY TermsType DEF EffectsAreRecorded, Accounted, Unwritten
    <3>7. QED  BY <3>3, <3>4, <3>5, <3>6 DEF Accounted
  <2>8. CASE Crash
    <3>1. /\ UNCHANGED <<responses, effects, removed, requests>>
          /\ crashes' = crashes + 1 /\ pc' = "down"
      BY <2>8 DEF Crash, tailVars, verdictVars, hostVars
    <3>2. \A a \in HostActions, ip \in Attackers :
            Count(Awaiting(a, ip)) \in {0, 1} /\ Count(Awaiting(a, ip))' = 0
      BY <3>1 DEF Count, Awaiting
    <3>3. QED  BY <3>1, <3>2, AccountFrame
  <2>9. ASSUME NEW q \in Requests, NEW ip0 \in Attackers, ApiBlock(q, ip0)
        PROVE  EffectsAreRecorded'
    <3> SUFFICES ASSUME NEW a \in HostActions, NEW ip \in Attackers
                 PROVE  Accounted(a, ip)'
      BY DEF EffectsAreRecorded, Accounted, Unwritten
    <3>1. /\ Rows(a, ip)' = Rows(a, ip) /\ crashes' = crashes
          /\ Count(Awaiting(a, ip))' = Count(Awaiting(a, ip))
      BY <2>9 DEF ApiBlock, Rows, Awaiting, Count, JobAction, JobIp, JobScore
    <3>2. /\ Effected(a, ip)' \in Nat
          /\ Effected(a, ip)'
               <= Effected(a, ip) + (IF a = "block" /\ ip = ip0 THEN 1 ELSE 0)
          /\ Unwritten(a, ip)'
               = Unwritten(a, ip) + (IF a = "block" /\ ip = ip0 THEN 1 ELSE 0)
      BY <2>9, BlockRequested
    <3>3. /\ Accounted(a, ip)
          /\ Effected(a, ip) \in Nat /\ Rows(a, ip) \in Nat /\ Unwritten(a, ip) \in Nat
          /\ Count(Awaiting(a, ip)) \in {0, 1}
      BY TermsType DEF EffectsAreRecorded, Accounted, Unwritten
    <3>4. QED  BY <3>1, <3>2, <3>3 DEF Accounted
  <2>10. ASSUME NEW q \in Requests, ApiRecord(q)
         PROVE  EffectsAreRecorded'
    <3> SUFFICES ASSUME NEW a \in HostActions, NEW ip \in Attackers
                 PROVE  Accounted(a, ip)'
      BY DEF EffectsAreRecorded, Accounted, Unwritten
    <3>1. /\ Effected(a, ip)' = Effected(a, ip) /\ crashes' = crashes
          /\ Count(Awaiting(a, ip))' = Count(Awaiting(a, ip))
      BY <2>10 DEF ApiRecord, hostVars, Effected, Awaiting, Count, JobAction,
                   JobIp, JobScore
    <3>2. /\ Accounted(a, ip)
          /\ Effected(a, ip) \in Nat /\ Rows(a, ip) \in Nat /\ Unwritten(a, ip) \in Nat
          /\ Count(Awaiting(a, ip)) \in {0, 1}
      BY TermsType DEF EffectsAreRecorded, Accounted, Unwritten
    <3>3. QED  BY <2>10, <3>1, <3>2, BlockRecorded DEF Accounted
  <2>11. ASSUME NEW ip0 \in Attackers, Unblock(ip0)
         PROVE  EffectsAreRecorded'
    <3> SUFFICES ASSUME NEW a \in HostActions, NEW ip \in Attackers
                 PROVE  Accounted(a, ip)'
      BY DEF EffectsAreRecorded, Accounted, Unwritten
    <3>1. /\ Rows(a, ip)' = Rows(a, ip) /\ crashes' = crashes
          /\ Unwritten(a, ip)' = Unwritten(a, ip)
          /\ Count(Awaiting(a, ip))' = Count(Awaiting(a, ip))
      BY <2>11 DEF Unblock, tailVars, verdictVars, Rows, Unwritten, Blocked, Awaiting, Count,
                   JobAction, JobIp, JobScore
    <3>2. Effected(a, ip)' = Effected(a, ip)
      BY <2>11, RuleTakenOut
    <3>3. QED
      BY <3>1, <3>2 DEF EffectsAreRecorded, Accounted, Unwritten
  <2>12. CASE UNCHANGED vars
    BY <2>12, AccountFrame
    DEF vars, tailVars, verdictVars, hostVars, Awaiting, JobAction, JobIp, JobScore, Count
  <2>13. QED
    BY <2>1, <2>2, <2>3, <2>4, <2>5, <2>6, <2>7, <2>8, <2>9, <2>10, <2>11, <2>12
    DEF Next, Daemon, Portal
<1>3. QED  BY <1>1, <1>2, TypeCorrect, PTL DEF Spec
-----------------------------------------------------------------------------
(* Observe mode. *)

\* Manual requests are never taken back.
LEMMA PassiveFrame ==
  ASSUME ObserveIsPassive, UNCHANGED <<effects, removed>>,
         requests' = requests \/ \E q \in Requests : ApiRecord(q),
         TypeOK
  PROVE  ObserveIsPassive'
<1>1. \A ip \in Attackers : ManuallyBlocked(ip) => ManuallyBlocked(ip)'
  <2>1. CASE requests' = requests
    BY <2>1 DEF ManuallyBlocked, ManualRequests
  <2>2. ASSUME NEW q \in Requests, ApiRecord(q)
        PROVE  \A ip \in Attackers : ManuallyBlocked(ip) => ManuallyBlocked(ip)'
    <3>1. /\ requests[q].status = "blocked"
          /\ requests' = [requests EXCEPT ![q].status = "recorded"]
      BY <2>2 DEF ApiRecord
    <3>2. requests[q] \in Request /\ requests[q].status # "unused"
      BY <3>1 DEF TypeOK
    <3>3. requests'[q].status = "recorded" /\ requests'[q].ip = requests[q].ip
      BY <3>1, <3>2 DEF TypeOK, Request
    <3>4. \A other \in Requests \ {q} : requests'[other] = requests[other]
      BY <3>1 DEF TypeOK
    <3>5. QED  BY <3>3, <3>4 DEF ManuallyBlocked, ManualRequests
  <2>3. QED  BY <2>1, <2>2
<1>2. QED  BY <1>1 DEF ObserveIsPassive, Effected

\* An action of the daemon that has no effect, or is a notice.
LEMMA PassiveReturned ==
  ASSUME TypeOK, ObserveIsPassive, pc \in {"act", "redirect"},
         NEW result \in Results, Returned(result),
         ~Enforce => ~result.applied \/ JobAction = "alert"
  PROVE  ObserveIsPassive'
<1>1. CASE Enforce
  BY <1>1 DEF ObserveIsPassive
<1>2. CASE ~Enforce
  <2>1. removed' = removed /\ requests' = requests
    BY DEF Returned
  <2>2. CASE ~result.applied
    BY <2>1, <2>2, PassiveFrame DEF Returned
  <2>3. CASE result.applied
    <3>1. /\ effects' = [effects EXCEPT ![JobIp]["alert"] = @ + 1]
          /\ JobIp \in Attackers
      BY <1>2, <2>3, JobType DEF Returned
    <3>2. \A a \in HostActions \ {"alert"}, ip \in Attackers :
            effects'[ip][a] = effects[ip][a]
      BY <3>1 DEF TypeOK
    <3>3. \A ip \in Attackers : ManuallyBlocked(ip)' = ManuallyBlocked(ip)
      BY <2>1 DEF ManuallyBlocked, ManualRequests
    <3>4. QED  BY <2>1, <3>2, <3>3 DEF ObserveIsPassive, Effected
  <2>4. QED  BY <2>2, <2>3
<1>3. QED  BY <1>1, <1>2

\* ObserveIsPassive: without RESPONDER_ENFORCE every rule on the host is one
\* that a manual request put there, and no capture is started.
THEOREM ObserveModeIsPassive == Spec => []ObserveIsPassive
<1>1. Init => ObserveIsPassive
  BY DEF Init, ObserveIsPassive, Effected
<1>2. TypeOK /\ ObserveIsPassive /\ [Next]_vars => ObserveIsPassive'
  <2> SUFFICES ASSUME TypeOK, ObserveIsPassive, [Next]_vars
               PROVE  ObserveIsPassive'
    OBVIOUS
  <2> USE DEF tailVars, verdictVars, hostVars
  <2>1. CASE Honeypot \/ Start \/ ReadPart \/ ReadRest \/ ReadData \/ ReadClose \/ Persist \/ LogOnly
             \/ SpawnDecoy \/ Record \/ Crash
    BY <2>1, PassiveFrame
       DEF Honeypot, LogData, LogClose, LogRest, Rotate, Write, Start, ReadPart, ReadRest, ReadLine, HasNext, ReadData, ReadClose, Persist,
           LogOnly, SpawnDecoy, Record, Crash
  <2>2. CASE RunFirewall
    <3>1. PICK result \in RunnerResults : Returned(result)
      BY <2>2 DEF RunFirewall
    <3>2. /\ result \in Results /\ pc \in {"act", "redirect"}
          /\ ~Enforce => ~result.applied
      BY <2>2, <3>1 DEF RunnerResults, IptablesResults, Recorded, RunFirewall
    <3>3. QED  BY <3>1, <3>2, PassiveReturned
  <2>3. CASE Notify
    <3>1. PICK result \in Results : Returned(result)
      BY <2>3, NotifyResult
    <3>2. QED  BY <2>3, <3>1, PassiveReturned DEF Notify
  <2>4. CASE ForensicCapture
    <3>1. PICK result \in (IF Enforce THEN SpawnResults ELSE Recorded) : Returned(result)
      BY <2>4 DEF ForensicCapture
    <3>2. /\ result \in Results /\ pc = "act"
          /\ ~Enforce => ~result.applied
      BY <2>4, <3>1 DEF SpawnResults, Recorded, ForensicCapture
    <3>3. QED  BY <3>1, <3>2, PassiveReturned
  <2>5. ASSUME NEW q \in Requests, NEW ip0 \in Attackers, ApiBlock(q, ip0)
        PROVE  ObserveIsPassive'
    <3>1. /\ removed' = removed
          /\ \A a \in HostActions, ip \in Attackers :
               a # "block" \/ ip # ip0 => effects'[ip][a] = effects[ip][a]
      BY <2>5 DEF ApiBlock, TypeOK
    <3>2. /\ requests'[q].status = "blocked" /\ requests'[q].ip = ip0
          /\ \A other \in Requests \ {q} : requests'[other] = requests[other]
          /\ requests[q].status = "unused"
      BY <2>5 DEF ApiBlock, TypeOK
    <3>3. /\ ManuallyBlocked(ip0)'
          /\ \A ip \in Attackers : ManuallyBlocked(ip) => ManuallyBlocked(ip)'
      BY <3>2 DEF ManuallyBlocked, ManualRequests
    <3>4. QED  BY <3>1, <3>3 DEF ObserveIsPassive, Effected
  <2>6. ASSUME NEW q \in Requests, ApiRecord(q)
        PROVE  ObserveIsPassive'
    BY <2>6, PassiveFrame DEF ApiRecord
  <2>7. ASSUME NEW ip0 \in Attackers, Unblock(ip0)
        PROVE  ObserveIsPassive'
    <3>1. /\ effects[ip0]["block"] > 0 /\ requests' = requests
          /\ "block" \in HostActions \ {"alert"}
      BY <2>7 DEF Unblock, HostActions, FirewallActions
    <3>2. \A a \in HostActions, ip \in Attackers :
            a # "block" \/ ip # ip0 => /\ effects'[ip][a] = effects[ip][a]
                                       /\ a = "block" => removed'[ip] = removed[ip]
      BY <2>7 DEF Unblock, TypeOK
    <3>3. Effected("block", ip0) > 0
      BY <3>1 DEF Effected, TypeOK
    <3>4. \A ip \in Attackers : ManuallyBlocked(ip)' = ManuallyBlocked(ip)
      BY <3>1 DEF ManuallyBlocked, ManualRequests
    <3>5. ASSUME ~Enforce, NEW a \in HostActions \ {"alert"}, NEW ip \in Attackers,
                 Effected(a, ip)' > 0
          PROVE  a = "block" /\ ManuallyBlocked(ip)'
      <4>1. CASE a = "block" /\ ip = ip0
        BY <3>1, <3>3, <3>4, <3>5, <4>1 DEF ObserveIsPassive
      <4>2. CASE a # "block" \/ ip # ip0
        BY <3>2, <3>4, <3>5, <4>2 DEF ObserveIsPassive, Effected
      <4>3. QED  BY <4>1, <4>2
    <3>6. QED  BY <3>5 DEF ObserveIsPassive
  <2>8. CASE UNCHANGED vars
    BY <2>8, PassiveFrame DEF vars
  <2>9. QED
    BY <2>1, <2>2, <2>3, <2>4, <2>5, <2>6, <2>7, <2>8 DEF Next, Daemon, Portal
<1>3. QED  BY <1>1, <1>2, TypeCorrect, PTL DEF Spec
-----------------------------------------------------------------------------
(* Decoys. *)

\* The daemon is between a decoy for this attacker and the row of its redirect.
Redirecting(ip) == pc \in {"redirect", "record"} /\ JobAction = "redirect" /\ JobIp = ip

Explained(ip) ==
  decoys[ip] <= Rows("redirect", ip) + crashes + Count(Redirecting(ip))

LEMMA DecoyTerms ==
  ASSUME TypeOK, NEW ip \in Attackers
  PROVE  /\ decoys[ip] \in Nat /\ Rows("redirect", ip) \in Nat /\ crashes \in Nat
         /\ Count(Redirecting(ip)) \in {0, 1}
<1>1. "redirect" \in HostActions
  BY DEF HostActions, FirewallActions
<1>2. Rows("redirect", ip) \in Nat
  BY <1>1, TermsType
<1>3. decoys[ip] \in Nat /\ crashes \in Nat
  BY DEF TypeOK
<1>4. Count(Redirecting(ip)) \in {0, 1}
  BY DEF Count
<1>5. QED  BY <1>2, <1>3, <1>4

\* DecoysAreExplained: every deeper honeypot belongs to a redirect that is in
\* the table, is being carried out, or was cut short by a death of the daemon.
THEOREM AllDecoysAreExplained == Spec => []DecoysAreExplained
<1>1. Init => DecoysAreExplained
  <2> SUFFICES ASSUME Init, NEW ip \in Attackers
               PROVE  Explained(ip)
    BY DEF DecoysAreExplained, Explained, Redirecting
  <2>1. "redirect" \in Actions
    BY DEF Actions, HostActions, FirewallActions
  <2>2. decoys[ip] = 0 /\ Rows("redirect", ip) = 0 /\ crashes = 0
    BY <2>1 DEF Init, Rows
  <2>3. Count(Redirecting(ip)) \in {0, 1}
    BY DEF Count
  <2>4. QED  BY <2>2, <2>3 DEF Explained
<1>2. TypeOK /\ TypeOK' /\ DecoysAreExplained /\ [Next]_vars => DecoysAreExplained'
  <2> SUFFICES ASSUME TypeOK, TypeOK', DecoysAreExplained, [Next]_vars,
                      NEW ip \in Attackers
               PROVE  Explained(ip)'
    BY DEF DecoysAreExplained, Explained, Redirecting
  <2>1. /\ Explained(ip)
        /\ decoys[ip] \in Nat /\ Rows("redirect", ip) \in Nat /\ crashes \in Nat
        /\ Count(Redirecting(ip)) \in {0, 1} /\ Count(Redirecting(ip))' \in {0, 1}
        /\ crashes' \in Nat
    <3>1. Explained(ip)
      BY DEF DecoysAreExplained, Explained, Redirecting
    <3>2. Count(Redirecting(ip))' \in {0, 1}
      BY DEF Count
    <3>3. crashes \in Nat /\ crashes' \in Nat /\ decoys[ip] \in Nat
      BY DEF TypeOK
    <3>4. QED  BY <3>1, <3>2, <3>3, DecoyTerms
  <2>2. ASSUME UNCHANGED <<decoys, responses>>, crashes <= crashes',
               crashes = crashes' => (Redirecting(ip) => Redirecting(ip)')
        PROVE  Explained(ip)'
    <3>1. decoys'[ip] = decoys[ip] /\ Rows("redirect", ip)' = Rows("redirect", ip)
      BY <2>2 DEF Rows
    <3>2. crashes = crashes' => Count(Redirecting(ip)) <= Count(Redirecting(ip))'
      BY <2>2 DEF Count
    <3>3. QED  BY <2>1, <2>2, <3>1, <3>2 DEF Explained
  <2> USE DEF tailVars, verdictVars, hostVars
  <2>3. CASE \/ Honeypot
             \/ (\E q \in Requests, ip0 \in Attackers : ApiBlock(q, ip0))
             \/ (\E ip0 \in Attackers : Unblock(ip0)) \/ UNCHANGED vars
    <3>1. UNCHANGED <<decoys, responses, crashes, pc, job>>
      BY <2>3 DEF Honeypot, LogData, LogClose, LogRest, Rotate, Write, ApiBlock, Unblock, vars
    <3>2. Redirecting(ip)' = Redirecting(ip)
      BY <3>1 DEF Redirecting, JobAction, JobIp, JobScore
    <3>3. QED  BY <2>1, <2>2, <3>1, <3>2
  <2>4. CASE Start \/ ReadPart \/ ReadRest \/ ReadData \/ ReadClose \/ Persist \/ LogOnly
    <3>1. ~Redirecting(ip) /\ UNCHANGED <<decoys, responses, crashes>>
      BY <2>4 DEF Start, ReadPart, ReadRest, ReadLine, HasNext, ReadData, ReadClose, Persist, LogOnly, Redirecting
    <3>2. QED  BY <2>1, <2>2, <3>1
  <2>5. CASE SpawnDecoy
    <3>1. /\ pc = "act" /\ pc' = "redirect" /\ JobAction = "redirect"
          /\ UNCHANGED <<job, responses, crashes>>
          /\ \/ decoys' = decoys
             \/ decoys' = [decoys EXCEPT ![JobIp] = @ + 1]
      BY <2>5 DEF SpawnDecoy
    <3>2. JobIp' = JobIp /\ JobAction' = JobAction /\ JobIp \in Attackers
      BY <3>1, JobType DEF JobIp, JobAction, JobScore
    <3>3. Rows("redirect", ip)' = Rows("redirect", ip)
      BY <3>1 DEF Rows
    <3>4. Count(Redirecting(ip)) = 0
      BY <3>1 DEF Redirecting, Count
    <3>5. CASE ip = JobIp
      <4>1. decoys'[ip] <= decoys[ip] + 1
        BY <2>1, <3>1, <3>2, <3>5 DEF TypeOK
      <4>2. Count(Redirecting(ip))' = 1
        BY <3>1, <3>2, <3>5 DEF Redirecting, Count
      <4>3. decoys'[ip] \in Nat
        BY DEF TypeOK
      <4>4. QED  BY <2>1, <3>1, <3>3, <3>4, <4>1, <4>2, <4>3 DEF Explained
    <3>6. CASE ip # JobIp
      <4>1. decoys'[ip] = decoys[ip]
        BY <3>1, <3>6 DEF TypeOK
      <4>2. QED  BY <2>1, <3>1, <3>3, <3>4, <4>1 DEF Explained
    <3>7. QED  BY <3>5, <3>6
  <2>6. ASSUME pc \in {"act", "redirect"}, NEW result \in Results, Returned(result),
               decoys' = decoys
        PROVE  Explained(ip)'
    <3>1. /\ UNCHANGED <<responses, crashes>>
          /\ pc' = "record" /\ job' = [job EXCEPT !.success = result.success]
          /\ job \in Job
      BY <2>6, JobType DEF Returned
    <3>2. JobIp' = JobIp /\ JobAction' = JobAction
      BY <3>1 DEF JobIp, JobAction, JobScore, Job
    <3>3. Redirecting(ip) => Redirecting(ip)'
      BY <3>1, <3>2 DEF Redirecting
    <3>4. QED  BY <2>1, <2>2, <2>6, <3>1, <3>3
  <2>7. CASE RunFirewall \/ Notify \/ ForensicCapture
    <3>1. pc \in {"act", "redirect"} /\ decoys' = decoys
      BY <2>7 DEF RunFirewall, Notify, ForensicCapture
    <3>2. \E result \in Results : Returned(result)
      BY <2>7, AnyResult
    <3>3. QED  BY <2>6, <3>1, <3>2
  <2>8. CASE Record
    <3>1. /\ JobAction \in Actions /\ JobIp \in Attackers /\ job.success \in BOOLEAN
          /\ pc = "record" /\ UNCHANGED <<decoys, crashes>>
      BY <2>8, JobType DEF Record
    <3>2. PICK a0 \in Actions, ip0 \in Attackers, column \in {0, 1} :
            /\ a0 = JobAction /\ ip0 = JobIp
            /\ AddsRow(a0, ip0, column)
      BY <2>8, <3>1 DEF Record, write_response, AddsRow, Count
    <3>3. PICK a \in HostActions : a = "redirect"
      BY DEF HostActions, FirewallActions
    <3>4. Rows(a, ip)' = Rows(a, ip) + (IF a = a0 /\ ip = ip0 THEN 1 ELSE 0)
      <4>1. responses'[ip][a][1] + responses'[ip][a][0]
              = responses[ip][a][1] + responses[ip][a][0]
                  + (IF a = a0 /\ ip = ip0 THEN 1 ELSE 0)
        BY <3>2, OneRow
      <4>2. QED  BY <4>1 DEF Rows
    <3>5. Count(Redirecting(ip)) = IF a = a0 /\ ip = ip0 THEN 1 ELSE 0
      BY <3>1, <3>2, <3>3 DEF Redirecting, Count
    <3>6. QED  BY <2>1, <3>1, <3>3, <3>4, <3>5 DEF Explained
  <2>9. CASE Crash
    BY <2>1, <2>2, <2>9 DEF Crash
  <2>10. ASSUME NEW q \in Requests, ApiRecord(q)
         PROVE  Explained(ip)'
    <3>1. /\ requests[q].ip \in Attackers /\ requests[q].success \in BOOLEAN
          /\ "block" \in Actions
      BY <2>10 DEF ApiRecord, TypeOK, Request, Actions, HostActions, FirewallActions
    <3>2. PICK a0 \in Actions, ip0 \in Attackers, column \in {0, 1} :
            a0 = "block" /\ AddsRow(a0, ip0, column)
      BY <2>10, <3>1 DEF ApiRecord, write_response, AddsRow, Count
    <3>3. PICK a \in HostActions : a = "redirect"
      BY DEF HostActions, FirewallActions
    <3>4. Rows(a, ip)' = Rows(a, ip) + (IF a = a0 /\ ip = ip0 THEN 1 ELSE 0)
      <4>1. responses'[ip][a][1] + responses'[ip][a][0]
              = responses[ip][a][1] + responses[ip][a][0]
                  + (IF a = a0 /\ ip = ip0 THEN 1 ELSE 0)
        BY <3>2, OneRow
      <4>2. QED  BY <4>1 DEF Rows
    <3>5. Rows("redirect", ip)' = Rows("redirect", ip)
      BY <2>1, <3>2, <3>3, <3>4
    <3>6. UNCHANGED <<decoys, crashes, pc, job>>
      BY <2>10 DEF ApiRecord
    <3>7. Redirecting(ip)' = Redirecting(ip)
      BY <3>6 DEF Redirecting, JobAction, JobIp, JobScore
    <3>8. QED  BY <2>1, <3>5, <3>6, <3>7 DEF Explained
  <2>11. QED
    BY <2>3, <2>4, <2>5, <2>7, <2>8, <2>9, <2>10 DEF Next, Daemon, Portal
<1>3. QED  BY <1>1, <1>2, TypeCorrect, PTL DEF Spec
-----------------------------------------------------------------------------
(* The order of the rows. *)

\* The response in hand is this attacker's, of the band that begins with this
\* action, and at this step.
At(first, k, ip) ==
  /\ pc \notin {"down", "tail"}
  /\ JobIp = ip
  /\ decide(JobScore)[1] = first
  /\ job.step = k

\* RowsFollowThePlan for one attacker, with the rows that the response in hand
\* has still to write counted exactly.
Plan(ip) ==
  /\ Rows("redirect", ip) + Count(At("slow", 2, ip)) <= Rows("slow", ip)
  /\ Rows("slow", ip) <= Rows("redirect", ip) + crashes + Count(At("slow", 2, ip))
  /\ Rows("alert", ip) + Count(At("isolate", 2, ip)) + Count(At("block", 2, ip))
       <= Rows("isolate", ip) + Rows("block", ip)
  /\ Rows("isolate", ip) <= Rows("alert", ip) + crashes + Count(At("isolate", 2, ip))
  /\ Rows("forensic_capture", ip) + Count(At("block", 3, ip)) <= Rows("alert", ip)

PlanInv == \A ip \in Attackers : Plan(ip)

\* A row written counts for its own action and attacker only.
LEMMA OneMoreRow ==
  ASSUME TypeOK, NEW a0 \in Actions, NEW ip0 \in Attackers, NEW column \in {0, 1},
         AddsRow(a0, ip0, column), NEW ip \in Attackers
  PROVE  \A a \in HostActions :
           /\ Rows(a, ip) \in Nat
           /\ Rows(a, ip)' = Rows(a, ip) + (IF a = a0 /\ ip = ip0 THEN 1 ELSE 0)
<1> SUFFICES ASSUME NEW a \in HostActions
             PROVE  /\ Rows(a, ip) \in Nat
                    /\ Rows(a, ip)' = Rows(a, ip) + (IF a = a0 /\ ip = ip0 THEN 1 ELSE 0)
  OBVIOUS
<1>1. responses'[ip][a][1] + responses'[ip][a][0]
        = responses[ip][a][1] + responses[ip][a][0]
            + (IF a = a0 /\ ip = ip0 THEN 1 ELSE 0)
  BY OneRow
<1>2. QED  BY <1>1, TermsType DEF Rows

\* The actions that have rows of their own.
LEMMA PlanTerms ==
  ASSUME TypeOK, NEW ip \in Attackers
  PROVE  /\ Rows("slow", ip) \in Nat /\ Rows("redirect", ip) \in Nat
         /\ Rows("isolate", ip) \in Nat /\ Rows("block", ip) \in Nat
         /\ Rows("alert", ip) \in Nat /\ Rows("forensic_capture", ip) \in Nat
         /\ crashes \in Nat
<1>1. {"slow", "redirect", "isolate", "block", "alert", "forensic_capture"}
        \subseteq HostActions
  BY DEF HostActions, FirewallActions
<1>2. crashes \in Nat
  BY DEF TypeOK
<1>3. \A a \in HostActions : Rows(a, ip) \in Nat
  BY TermsType
<1>4. QED  BY <1>1, <1>2, <1>3

\* A step that writes no row and leaves the response in hand where it is, or
\* ends it with the daemon's death.
LEMMA PlanFrame ==
  ASSUME TypeOK, PlanInv, UNCHANGED responses,
         \A ip \in Attackers :
           \/ /\ crashes' = crashes
              /\ (At("slow", 2, ip)' <=> At("slow", 2, ip))
              /\ (At("isolate", 2, ip)' <=> At("isolate", 2, ip))
              /\ (At("block", 2, ip)' <=> At("block", 2, ip))
              /\ (At("block", 3, ip)' <=> At("block", 3, ip))
           \/ crashes' = crashes + 1 /\ pc' = "down"
  PROVE  PlanInv'
<1> SUFFICES ASSUME NEW ip \in Attackers PROVE Plan(ip)'
  BY DEF PlanInv
<1>1. Plan(ip)
  BY DEF PlanInv
<1>2. \A a \in HostActions : Rows(a, ip)' = Rows(a, ip)
  BY DEF Rows
<1>3. \A a : Rows(a, ip)' = Rows(a, ip)
  BY DEF Rows
<1>4. CASE /\ crashes' = crashes
           /\ (At("slow", 2, ip)' <=> At("slow", 2, ip))
           /\ (At("isolate", 2, ip)' <=> At("isolate", 2, ip))
           /\ (At("block", 2, ip)' <=> At("block", 2, ip))
           /\ (At("block", 3, ip)' <=> At("block", 3, ip))
  BY <1>1, <1>3, <1>4 DEF Plan, Count
<1>5. CASE crashes' = crashes + 1 /\ pc' = "down"
  <2>1. \A first, k : ~At(first, k, ip)'
    BY <1>5 DEF At
  <2>2. /\ Count(At("slow", 2, ip))' = 0 /\ Count(At("isolate", 2, ip))' = 0
        /\ Count(At("block", 2, ip))' = 0 /\ Count(At("block", 3, ip))' = 0
        /\ Count(At("slow", 2, ip)) \in {0, 1} /\ Count(At("isolate", 2, ip)) \in {0, 1}
        /\ Count(At("block", 2, ip)) \in {0, 1} /\ Count(At("block", 3, ip)) \in {0, 1}
    BY <2>1 DEF Count
  <2>3. QED  BY <1>1, <1>3, <1>5, <2>2, PlanTerms DEF Plan
<1>6. QED  BY <1>4, <1>5

\* The same place in the same response.
LEMMA SamePlace ==
  ASSUME TypeOK, pc \notin {"down", "tail"}, pc' \notin {"down", "tail"},
         \/ job' = job
         \/ \E success \in BOOLEAN : job' = [job EXCEPT !.success = success]
  PROVE  \A first, k : \A ip \in Attackers : (At(first, k, ip)' <=> At(first, k, ip))
<1>1. job \in Job
  BY JobType
<1>2. job'.session = job.session /\ job'.score = job.score /\ job'.step = job.step
  BY <1>1 DEF Job
<1>3. JobIp' = JobIp /\ JobScore' = JobScore
  BY <1>2 DEF JobIp, JobScore
<1>4. QED  BY <1>2, <1>3 DEF At

\* The bands of decide().
LEMMA DecideBands ==
  ASSUME NEW score \in Scores
  PROVE  \/ decide(score) = << "log" >>
         \/ decide(score) = << "slow", "redirect" >>
         \/ decide(score) = << "isolate", "alert" >>
         \/ decide(score) = << "block", "alert", "forensic_capture" >>
BY DEF decide

\* _record writes the row that is next in the plan.
LEMMA PlanRecord ==
  ASSUME TypeOK, PlanInv, Record
  PROVE  PlanInv'
<1> SUFFICES ASSUME NEW ip \in Attackers PROVE Plan(ip)'
  BY DEF PlanInv
<1>1. /\ JobAction \in Actions /\ JobIp \in Attackers /\ job.success \in BOOLEAN
      /\ JobScore \in Scores /\ pc = "record" /\ crashes' = crashes
      /\ job \in Job /\ job.step \in 1 .. 3 /\ job.step \in 1 .. Len(decide(JobScore))
      /\ JobAction = decide(JobScore)[job.step]
  BY JobType DEF Record, JobAction
<1>2. PICK a0 \in Actions, ip0 \in Attackers, column \in {0, 1} :
        /\ a0 = JobAction /\ ip0 = JobIp
        /\ AddsRow(a0, ip0, column)
  BY <1>1 DEF Record, write_response, AddsRow, Count
<1>3. \A a \in HostActions :
        /\ Rows(a, ip) \in Nat
        /\ Rows(a, ip)' = Rows(a, ip) + (IF a = a0 /\ ip = ip0 THEN 1 ELSE 0)
  BY <1>2, OneMoreRow
<1>4. Plan(ip)
  BY DEF PlanInv
<1>5. {"slow", "redirect", "isolate", "block", "alert", "forensic_capture"}
        \subseteq HostActions
  BY DEF HostActions, FirewallActions
<1>6. CASE ip # ip0
  <2>1. \A first, k : ~At(first, k, ip)
    BY <1>2, <1>6 DEF At
  <2>2. \A first, k : ~At(first, k, ip)'
    <3>1. CASE MoreActions
      <4>1. job' = [job EXCEPT !.step = @ + 1]
        BY <3>1 DEF Record
      <4>2. JobIp' = JobIp
        BY <1>1, <4>1 DEF JobIp, Job
      <4>3. QED  BY <1>2, <1>6, <4>2 DEF At
    <3>2. CASE ~MoreActions
      BY <3>2 DEF Record, At
    <3>3. QED  BY <3>1, <3>2
  <2>3. \A a \in HostActions : Rows(a, ip)' = Rows(a, ip)
    BY <1>3, <1>6
  <2>4. /\ Rows("slow", ip)' = Rows("slow", ip)
        /\ Rows("redirect", ip)' = Rows("redirect", ip)
        /\ Rows("isolate", ip)' = Rows("isolate", ip)
        /\ Rows("block", ip)' = Rows("block", ip)
        /\ Rows("alert", ip)' = Rows("alert", ip)
        /\ Rows("forensic_capture", ip)' = Rows("forensic_capture", ip)
    BY <1>5, <2>3
  <2>5. QED  BY <1>1, <1>4, <2>1, <2>2, <2>4 DEF Plan, Count
<1>7. CASE ip = ip0
  <2> DEFINE seq == decide(JobScore)
  <2>1. \A first, k : At(first, k, ip) <=> seq[1] = first /\ job.step = k
    BY <1>1, <1>2, <1>7 DEF At
  <2>2. \A first, k : At(first, k, ip)' <=>
          job.step < Len(seq) /\ seq[1] = first /\ job.step + 1 = k
    <3>1. CASE MoreActions
      <4>1. job' = [job EXCEPT !.step = @ + 1] /\ pc' = "act" /\ job.step < Len(seq)
        BY <3>1 DEF Record, MoreActions
      <4>2. JobIp' = JobIp /\ JobScore' = JobScore /\ job'.step = job.step + 1
        BY <1>1, <4>1 DEF JobIp, JobScore, Job
      <4>3. QED  BY <1>2, <1>7, <4>1, <4>2 DEF At
    <3>2. CASE ~MoreActions
      BY <3>2 DEF Record, MoreActions, At
    <3>3. QED  BY <3>1, <3>2
  <2>3. /\ Rows("slow", ip)' = Rows("slow", ip) + Count(JobAction = "slow")
        /\ Rows("redirect", ip)' = Rows("redirect", ip) + Count(JobAction = "redirect")
        /\ Rows("isolate", ip)' = Rows("isolate", ip) + Count(JobAction = "isolate")
        /\ Rows("block", ip)' = Rows("block", ip) + Count(JobAction = "block")
        /\ Rows("alert", ip)' = Rows("alert", ip) + Count(JobAction = "alert")
        /\ Rows("forensic_capture", ip)'
             = Rows("forensic_capture", ip) + Count(JobAction = "forensic_capture")
    BY <1>2, <1>3, <1>5, <1>7 DEF Count
  <2>4. CASE seq = << "log" >>
    <3>1. job.step = 1 /\ JobAction = "log" /\ Len(seq) = 1 /\ seq[1] = "log"
      BY <1>1, <2>4
    <3>2. QED  BY <1>1, <1>4, <2>1, <2>2, <2>3, <3>1, PlanTerms DEF Plan, Count
  <2>5. CASE seq = << "slow", "redirect" >>
    <3>1. /\ Len(seq) = 2 /\ seq[1] = "slow"
          /\ \/ job.step = 1 /\ JobAction = "slow"
             \/ job.step = 2 /\ JobAction = "redirect"
      BY <1>1, <2>5
    <3>2. QED  BY <1>1, <1>4, <2>1, <2>2, <2>3, <3>1, PlanTerms DEF Plan, Count
  <2>6. CASE seq = << "isolate", "alert" >>
    <3>1. /\ Len(seq) = 2 /\ seq[1] = "isolate"
          /\ \/ job.step = 1 /\ JobAction = "isolate"
             \/ job.step = 2 /\ JobAction = "alert"
      BY <1>1, <2>6
    <3>2. QED  BY <1>1, <1>4, <2>1, <2>2, <2>3, <3>1, PlanTerms DEF Plan, Count
  <2>7. CASE seq = << "block", "alert", "forensic_capture" >>
    <3>1. /\ Len(seq) = 3 /\ seq[1] = "block"
          /\ \/ job.step = 1 /\ JobAction = "block"
             \/ job.step = 2 /\ JobAction = "alert"
             \/ job.step = 3 /\ JobAction = "forensic_capture"
      BY <1>1, <2>7
    <3>2. QED  BY <1>1, <1>4, <2>1, <2>2, <2>3, <3>1, PlanTerms DEF Plan, Count
  <2>8. QED  BY <1>1, <2>4, <2>5, <2>6, <2>7, DecideBands
<1>8. QED  BY <1>6, <1>7

\* RowsFollowThePlan: rows are written in the order of decide(), and what a
\* later action lacks is accounted for by deaths and the response in hand.
THEOREM AllRowsFollowThePlan == Spec => []RowsFollowThePlan
<1>1. Init => PlanInv
  <2> SUFFICES ASSUME Init, NEW ip \in Attackers PROVE Plan(ip)
    BY DEF PlanInv
  <2>1. \A a \in Actions : Rows(a, ip) = 0
    BY DEF Init, Rows
  <2>2. {"slow", "redirect", "isolate", "block", "alert", "forensic_capture"}
          \subseteq Actions
    BY DEF Actions, HostActions, FirewallActions
  <2>3. \A first, k : ~At(first, k, ip)
    BY DEF Init, At
  <2>4. /\ Rows("slow", ip) = 0 /\ Rows("redirect", ip) = 0 /\ Rows("isolate", ip) = 0
        /\ Rows("block", ip) = 0 /\ Rows("alert", ip) = 0
        /\ Rows("forensic_capture", ip) = 0 /\ crashes = 0
    BY <2>1, <2>2 DEF Init
  <2>5. QED  BY <2>3, <2>4 DEF Plan, Count
<1>2. TypeOK /\ PlanInv /\ [Next]_vars => PlanInv'
  <2> SUFFICES ASSUME TypeOK, PlanInv, [Next]_vars
               PROVE  PlanInv'
    OBVIOUS
  <2> USE DEF tailVars, verdictVars, hostVars
  <2>1. ASSUME UNCHANGED <<responses, crashes, pc, job>>
        PROVE  PlanInv'
    <3>1. \A first, k : \A ip \in Attackers : (At(first, k, ip)' <=> At(first, k, ip))
      BY <2>1 DEF At, JobIp, JobScore
    <3>2. QED  BY <2>1, <3>1, PlanFrame
  <2>2. CASE Honeypot \/ UNCHANGED vars
             \/ (\E q \in Requests, ip \in Attackers : ApiBlock(q, ip))
             \/ (\E ip \in Attackers : Unblock(ip))
    BY <2>1, <2>2 DEF Honeypot, LogData, LogClose, LogRest, Rotate, Write, ApiBlock, Unblock, vars
  <2>3. CASE Start \/ ReadPart \/ ReadRest \/ ReadData
    <3>1. /\ pc \in {"down", "tail"} /\ pc' \in {"down", "tail"}
          /\ UNCHANGED <<responses, crashes>>
      BY <2>3 DEF Start, ReadPart, ReadRest, ReadData, ReadLine, HasNext
    <3>2. \A first, k : \A ip \in Attackers : ~At(first, k, ip) /\ ~At(first, k, ip)'
      BY <3>1 DEF At
    <3>3. QED  BY <3>1, <3>2, PlanFrame
  <2>4. CASE ReadClose
    <3>1. /\ pc = "tail" /\ job'.step = 1 /\ UNCHANGED <<responses, crashes>>
      BY <2>4 DEF ReadClose, ReadLine, HasNext
    <3>2. \A first : \A k \in {2, 3} : \A ip \in Attackers :
            ~At(first, k, ip) /\ ~At(first, k, ip)'
      BY <3>1 DEF At
    <3>3. QED  BY <3>1, <3>2, PlanFrame
  <2>5. CASE Persist \/ LogOnly \/ SpawnDecoy
    <3>1. /\ pc \notin {"down", "tail"} /\ pc' \notin {"down", "tail"}
          /\ UNCHANGED <<responses, crashes>>
          /\ job' = job \/ job' = [job EXCEPT !.success = TRUE]
      BY <2>5 DEF Persist, LogOnly, SpawnDecoy
    <3>2. QED  BY <3>1, SamePlace, PlanFrame
  <2>6. CASE RunFirewall \/ Notify \/ ForensicCapture
    <3>2. PICK result \in Results : Returned(result)
      BY <2>6, AnyResult
    <3>3. /\ pc \notin {"down", "tail"} /\ pc' \notin {"down", "tail"}
          /\ UNCHANGED <<responses, crashes>>
          /\ job' = [job EXCEPT !.success = result.success]
          /\ result.success \in BOOLEAN
      BY <2>6, <3>2 DEF RunFirewall, Notify, ForensicCapture, Returned, Results
    <3>4. QED  BY <3>3, SamePlace, PlanFrame
  <2>7. CASE Record
    BY <2>7, PlanRecord
  <2>8. CASE Crash
    BY <2>8, PlanFrame DEF Crash
  <2>9. ASSUME NEW q \in Requests, ApiRecord(q), NEW ip \in Attackers
        PROVE  Plan(ip)'
    <3>1. /\ requests[q].ip \in Attackers /\ requests[q].success \in BOOLEAN
          /\ "block" \in Actions
      BY <2>9 DEF ApiRecord, TypeOK, Request, Actions, HostActions, FirewallActions
    <3>2. PICK a0 \in Actions, ip0 \in Attackers, column \in {0, 1} :
            a0 = "block" /\ AddsRow(a0, ip0, column)
      BY <2>9, <3>1 DEF ApiRecord, write_response, AddsRow, Count
    <3>3. \A a \in HostActions :
            /\ Rows(a, ip) \in Nat
            /\ Rows(a, ip)' = Rows(a, ip) + (IF a = a0 /\ ip = ip0 THEN 1 ELSE 0)
      BY <3>2, OneMoreRow
    <3>4. {"slow", "redirect", "isolate", "block", "alert", "forensic_capture"}
            \subseteq HostActions
      BY DEF HostActions, FirewallActions
    <3>5. /\ Rows("slow", ip)' = Rows("slow", ip)
          /\ Rows("redirect", ip)' = Rows("redirect", ip)
          /\ Rows("isolate", ip)' = Rows("isolate", ip)
          /\ Rows("block", ip)' >= Rows("block", ip) /\ Rows("block", ip)' \in Nat
          /\ Rows("alert", ip)' = Rows("alert", ip)
          /\ Rows("forensic_capture", ip)' = Rows("forensic_capture", ip)
      BY <3>2, <3>3, <3>4
    <3>6. UNCHANGED <<crashes, pc, job>>
      BY <2>9 DEF ApiRecord
    <3>7. \A first, k : (At(first, k, ip)' <=> At(first, k, ip))
      BY <3>6 DEF At, JobIp, JobScore
    <3>8. Plan(ip)
      BY DEF PlanInv
    <3>9. QED  BY <3>5, <3>6, <3>7, <3>8, PlanTerms DEF Plan, Count
  <2>10. QED
    BY <2>2, <2>3, <2>4, <2>5, <2>6, <2>7, <2>8, <2>9
       DEF Next, Daemon, Portal, PlanInv
<1>3. TypeOK /\ PlanInv => RowsFollowThePlan
  <2> SUFFICES ASSUME TypeOK, NEW ip \in Attackers, Plan(ip)
               PROVE  /\ Rows("redirect", ip) <= Rows("slow", ip)
                      /\ Rows("slow", ip)
                           <= Rows("redirect", ip) + crashes + Count(pc # "tail")
                      /\ Rows("isolate", ip) + Rows("block", ip) >= Rows("alert", ip)
                      /\ Rows("isolate", ip)
                           <= Rows("alert", ip) + crashes + Count(pc # "tail")
                      /\ Rows("forensic_capture", ip) <= Rows("alert", ip)
    BY DEF PlanInv, RowsFollowThePlan
  <2>1. \A first, k : At(first, k, ip) => pc # "tail"
    BY DEF At
  <2>2. /\ Count(At("slow", 2, ip)) \in {0, 1} /\ Count(At("isolate", 2, ip)) \in {0, 1}
        /\ Count(At("block", 2, ip)) \in {0, 1} /\ Count(At("block", 3, ip)) \in {0, 1}
        /\ Count(At("slow", 2, ip)) <= Count(pc # "tail")
        /\ Count(At("isolate", 2, ip)) <= Count(pc # "tail")
        /\ Count(pc # "tail") \in {0, 1}
    BY <2>1 DEF Count
  <2>3. QED  BY <2>2, PlanTerms DEF Plan
<1>4. QED  BY <1>1, <1>2, <1>3, TypeCorrect, PTL DEF Spec
-----------------------------------------------------------------------------
(* Truthful outcomes. *)

\* A success that the daemon, or the portal, is about to write.
Claiming(a, ip) == Awaiting(a, ip) /\ job.success
Succeeded(ip) == {q \in Blocked(ip) : requests[q].success}
Unclaimed(a, ip) == IF a = "block" THEN Cardinality(Succeeded(ip)) ELSE 0

\* OutcomesAreTruthful for one action and one attacker, with those successes
\* counted as if they were written.
Truthful(a, ip) ==
  responses[ip][a][1] + Count(Claiming(a, ip)) + Unclaimed(a, ip) <= Effected(a, ip)

TruthInv == \A a \in FirewallActions, ip \in Attackers : Truthful(a, ip)

\* The terms of Truthful are numbers.
LEMMA TruthTerms ==
  ASSUME TypeOK, NEW a \in FirewallActions, NEW ip \in Attackers
  PROVE  /\ responses[ip][a][1] \in Nat
         /\ Effected(a, ip) \in Nat
         /\ Unclaimed(a, ip) \in Nat
         /\ Count(Claiming(a, ip)) \in {0, 1}
         /\ IsFiniteSet(Succeeded(ip))
         /\ Cardinality(Succeeded(ip)) \in Nat
<1>1. /\ responses[ip] \in [Actions -> [{0, 1} -> Nat]]
      /\ a \in Actions /\ a \in HostActions
  BY DEF TypeOK, Actions, HostActions
<1>2. responses[ip][a] \in [{0, 1} -> Nat]
  BY <1>1
<1>3. Succeeded(ip) \in SUBSET Requests
  BY DEF Succeeded, Blocked
<1>4. IsFiniteSet(Succeeded(ip)) /\ Cardinality(Succeeded(ip)) \in Nat
  BY <1>3, FS_Subset, FS_CardinalityType
<1>5. QED  BY <1>1, <1>2, <1>4, TermsType DEF Unclaimed, Count

\* A step that touches neither table, host nor requests, and claims nothing.
LEMMA TruthFrame ==
  ASSUME TypeOK, TruthInv, UNCHANGED <<responses, effects, removed, requests>>,
         \A a \in FirewallActions, ip \in Attackers :
           Claiming(a, ip)' => Claiming(a, ip)
  PROVE  TruthInv'
<1> SUFFICES ASSUME NEW a \in FirewallActions, NEW ip \in Attackers
             PROVE  Truthful(a, ip)'
  BY DEF TruthInv
<1>1. /\ Truthful(a, ip)
      /\ responses[ip][a][1] \in Nat /\ Effected(a, ip) \in Nat
      /\ Unclaimed(a, ip) \in Nat
  BY TruthTerms DEF TruthInv
<1>2. /\ responses'[ip][a][1] = responses[ip][a][1]
      /\ Effected(a, ip)' = Effected(a, ip)
      /\ Unclaimed(a, ip)' = Unclaimed(a, ip)
  BY DEF Effected, Unclaimed, Succeeded, Blocked
<1>3. /\ Count(Claiming(a, ip)) \in {0, 1} /\ Count(Claiming(a, ip))' \in {0, 1}
      /\ Count(Claiming(a, ip))' <= Count(Claiming(a, ip))
  BY DEF Count
<1>4. QED  BY <1>1, <1>2, <1>3 DEF Truthful

\* A success is claimed of a firewall action only if it took effect.
LEMMA TruthReturned ==
  ASSUME TypeOK, TruthInv, pc \in {"act", "redirect"}, JobAction \in HostActions,
         NEW result \in Results, Returned(result),
         JobAction \in FirewallActions /\ result.success => result.applied
  PROVE  TruthInv'
<1> SUFFICES ASSUME NEW a \in FirewallActions, NEW ip \in Attackers
             PROVE  Truthful(a, ip)'
  BY DEF TruthInv
<1>1. /\ Truthful(a, ip)
      /\ responses[ip][a][1] \in Nat /\ Effected(a, ip) \in Nat
      /\ Unclaimed(a, ip) \in Nat
  BY TruthTerms DEF TruthInv
<1>2. /\ responses' = responses /\ removed' = removed
      /\ Unclaimed(a, ip)' = Unclaimed(a, ip)
  BY DEF Returned, tailVars, verdictVars, Unclaimed, Succeeded, Blocked
<1>3. PICK a0 \in HostActions, ip0 \in Attackers : a0 = JobAction /\ ip0 = JobIp
  BY JobType
<1>4. Count(Claiming(a, ip)) = 0
  BY DEF Claiming, Awaiting, Count
<1>5. Count(Claiming(a, ip))'
        = IF a = a0 /\ ip = ip0 /\ result.success THEN 1 ELSE 0
  <2>1. job \in Job
    BY JobType
  <2>2. /\ JobAction' = JobAction /\ JobIp' = JobIp /\ pc' = "record"
        /\ job'.success = result.success
    BY <2>1 DEF Returned, Job, JobAction, JobIp, JobScore
  <2>3. QED  BY <1>3, <2>2 DEF Claiming, Awaiting, Count
<1>6. Effected(a, ip)'
        = Effected(a, ip) + (IF a = a0 /\ ip = ip0 /\ result.applied THEN 1 ELSE 0)
  <2>1. effects[ip][a] \in Nat /\ removed[ip] \in Nat /\ a \in HostActions
    BY DEF TypeOK, HostActions
  <2>2. CASE result.applied
    <3>1. TakesEffect(a0, ip0)
      BY <1>3, <2>2 DEF TakesEffect, Returned
    <3>2. effects'[ip][a] = effects[ip][a] + (IF a = a0 /\ ip = ip0 THEN 1 ELSE 0)
      BY <2>1, <3>1, OneEffect
    <3>3. QED  BY <1>2, <2>1, <2>2, <3>2 DEF Effected
  <2>3. CASE ~result.applied
    <3>1. effects' = effects
      BY <2>3 DEF Returned
    <3>2. Effected(a, ip)' = Effected(a, ip)
      BY <1>2, <3>1 DEF Effected
    <3>3. QED  BY <1>1, <2>3, <3>2
  <2>4. QED  BY <2>2, <2>3
<1>7. a = a0 /\ result.success => result.applied
  BY <1>3
<1>8. QED  BY <1>1, <1>2, <1>4, <1>5, <1>6, <1>7 DEF Truthful

\* OutcomesAreTruthful: with RESPONDER_ENFORCE=1 there are never more rows that
\* report a firewall action's success than rules that it inserted.
THEOREM EnforcedOutcomesAreTruthful ==
  ASSUME Enforce
  PROVE  Spec => []OutcomesAreTruthful
<1>1. Init => TruthInv
  <2> SUFFICES ASSUME Init, NEW a \in FirewallActions, NEW ip \in Attackers
               PROVE  Truthful(a, ip)
    BY DEF TruthInv
  <2>1. TypeOK
    BY InitType
  <2>2. a \in Actions /\ responses[ip][a][1] = 0
    BY DEF Init, Actions, HostActions
  <2>3. ~Claiming(a, ip)
    BY DEF Init, Claiming, Awaiting
  <2>4. Succeeded(ip) = {}
    BY DEF Init, Succeeded, Blocked
  <2>5. Unclaimed(a, ip) = 0
    BY <2>4, FS_EmptySet DEF Unclaimed
  <2>6. QED  BY <2>1, <2>2, <2>3, <2>5, TruthTerms DEF Truthful, Count
<1>2. TypeOK /\ TypeOK' /\ TruthInv /\ [Next]_vars => TruthInv'
  <2> SUFFICES ASSUME TypeOK, TypeOK', TruthInv, [Next]_vars
               PROVE  TruthInv'
    OBVIOUS
  <2> USE DEF tailVars, verdictVars, hostVars
  <2>1. CASE Honeypot \/ UNCHANGED vars
    <3>1. UNCHANGED <<responses, effects, removed, requests, pc, job>>
      BY <2>1 DEF Honeypot, LogData, LogClose, LogRest, Rotate, Write, vars
    <3>2. \A a \in FirewallActions, ip \in Attackers : Claiming(a, ip)' = Claiming(a, ip)
      BY <3>1 DEF Claiming, Awaiting, JobAction, JobIp, JobScore
    <3>3. QED  BY <3>1, <3>2, TruthFrame
  <2>2. CASE Start \/ ReadPart \/ ReadRest \/ ReadData \/ ReadClose \/ Persist \/ SpawnDecoy \/ Crash
    <3>1. UNCHANGED <<responses, effects, removed, requests>> /\ pc' # "record"
      BY <2>2 DEF Start, ReadPart, ReadRest, ReadLine, HasNext, ReadData, ReadClose, AfterClose, Persist, SpawnDecoy, Crash
    <3>2. \A a \in FirewallActions, ip \in Attackers : ~Claiming(a, ip)'
      BY <3>1 DEF Claiming, Awaiting
    <3>3. QED  BY <3>1, <3>2, TruthFrame
  <2>3. CASE LogOnly
    <3>1. /\ UNCHANGED <<responses, effects, removed, requests>>
          /\ pc = "act" /\ JobAction = "log" /\ job' = [job EXCEPT !.success = TRUE]
      BY <2>3 DEF LogOnly
    <3>2. JobAction' = "log"
      <4>1. job \in Job
        BY <3>1, JobType
      <4>2. QED  BY <3>1, <4>1 DEF JobAction, JobScore, Job
    <3>3. \A a \in FirewallActions, ip \in Attackers : ~Claiming(a, ip)'
      BY <3>2 DEF Claiming, Awaiting, FirewallActions
    <3>4. QED  BY <3>1, <3>3, TruthFrame
  <2>4. CASE RunFirewall
    <3>1. PICK result \in IptablesResults : Returned(result)
      BY <2>4 DEF RunFirewall, RunnerResults
    <3>2. /\ result \in Results
          /\ result.success => result.applied
          /\ pc \in {"act", "redirect"} /\ JobAction \in HostActions
      BY <2>4 DEF IptablesResults, RunFirewall, TypeOK, HostActions, FirewallActions
    <3>3. QED  BY <3>1, <3>2, TruthReturned
  <2>5. CASE Notify \/ ForensicCapture
    <3>1. PICK result \in Results : Returned(result)
      BY <2>5, AnyResult
    <3>2. /\ pc = "act" /\ JobAction \in HostActions
          /\ JobAction \notin FirewallActions
      BY <2>5 DEF Notify, ForensicCapture, HostActions, FirewallActions
    <3>3. QED  BY <3>1, <3>2, TruthReturned
  <2>6. CASE Record
    <3> SUFFICES ASSUME NEW a \in FirewallActions, NEW ip \in Attackers
                 PROVE  Truthful(a, ip)'
      BY DEF TruthInv
    <3>1. /\ JobAction \in Actions /\ JobIp \in Attackers /\ job.success \in BOOLEAN
          /\ pc = "record" /\ pc' # "record"
          /\ UNCHANGED <<effects, removed, requests>>
      BY <2>6, JobType DEF Record
    <3>2. PICK a0 \in Actions, ip0 \in Attackers, column \in {0, 1} :
            /\ a0 = JobAction /\ ip0 = JobIp /\ column = Count(job.success)
            /\ AddsRow(a0, ip0, column)
      BY <2>6, <3>1 DEF Record, write_response, AddsRow, Count
    <3>3. responses'[ip][a][1] = responses[ip][a][1]
            + (IF a = a0 /\ ip = ip0 /\ column = 1 THEN 1 ELSE 0)
      BY <3>2, OneRow DEF HostActions
    <3>4. /\ Count(Claiming(a, ip))
               = IF a = a0 /\ ip = ip0 /\ column = 1 THEN 1 ELSE 0
          /\ Count(Claiming(a, ip))' = 0
      BY <3>1, <3>2 DEF Claiming, Awaiting, Count
    <3>5. /\ Effected(a, ip)' = Effected(a, ip)
          /\ Unclaimed(a, ip)' = Unclaimed(a, ip)
      BY <3>1 DEF Effected, Unclaimed, Succeeded, Blocked
    <3>6. /\ Truthful(a, ip)
          /\ responses[ip][a][1] \in Nat /\ Effected(a, ip) \in Nat
          /\ Unclaimed(a, ip) \in Nat
      BY TruthTerms DEF TruthInv
    <3>7. QED  BY <3>3, <3>4, <3>5, <3>6 DEF Truthful
  <2>7. ASSUME NEW q \in Requests, NEW ip0 \in Attackers, ApiBlock(q, ip0)
        PROVE  TruthInv'
    <3> SUFFICES ASSUME NEW a \in FirewallActions, NEW ip \in Attackers
                 PROVE  Truthful(a, ip)'
      BY DEF TruthInv
    <3>1. PICK result \in IptablesResults :
            /\ requests' = [requests EXCEPT ![q] =
                 [status |-> "blocked", ip |-> ip0, success |-> result.success]]
            /\ effects' = IF result.applied
                          THEN [effects EXCEPT ![ip0]["block"] = @ + 1]
                          ELSE effects
      BY <2>7 DEF ApiBlock
    <3>2. /\ responses' = responses /\ removed' = removed
          /\ Count(Claiming(a, ip))' = Count(Claiming(a, ip))
      BY <2>7 DEF ApiBlock, Claiming, Awaiting, Count, JobAction, JobIp, JobScore
    <3>3. result.applied \in BOOLEAN /\ result.success \in BOOLEAN
          /\ (result.success => result.applied)
      BY DEF IptablesResults, Results
    <3>4. Effected(a, ip)' = Effected(a, ip)
            + (IF a = "block" /\ ip = ip0 /\ result.applied THEN 1 ELSE 0)
      <4>1. effects[ip][a] \in Nat /\ removed[ip] \in Nat /\ a \in HostActions
        BY DEF TypeOK, HostActions
      <4>2. PICK a0 \in HostActions : a0 = "block"
        BY DEF HostActions, FirewallActions
      <4>3. CASE result.applied
        <5>1. TakesEffect(a0, ip0)
          BY <3>1, <4>2, <4>3 DEF TakesEffect
        <5>2. effects'[ip][a] = effects[ip][a] + (IF a = a0 /\ ip = ip0 THEN 1 ELSE 0)
          BY <4>1, <5>1, OneEffect
        <5>3. QED  BY <3>2, <4>1, <4>2, <4>3, <5>2 DEF Effected
      <4>4. CASE ~result.applied
        <5>1. Effected(a, ip)' = Effected(a, ip) /\ Effected(a, ip) \in Nat
          BY <3>1, <3>2, <4>1, <4>4 DEF Effected
        <5>2. QED  BY <4>4, <5>1
      <4>5. QED  BY <4>3, <4>4
    <3>5. Unclaimed(a, ip)' = Unclaimed(a, ip)
            + (IF a = "block" /\ ip = ip0 /\ result.success THEN 1 ELSE 0)
      <4>1. Cardinality(Succeeded(ip)) \in Nat /\ IsFiniteSet(Succeeded(ip))
        BY TruthTerms
      <4>2. requests[q].status = "unused" /\ q \notin Succeeded(ip)
        BY <2>7 DEF ApiBlock, Succeeded, Blocked
      <4>3. /\ requests'[q].status = "blocked" /\ requests'[q].ip = ip0
            /\ requests'[q].success = result.success
        BY <3>1 DEF TypeOK
      <4>4. \A other \in Requests \ {q} : requests'[other] = requests[other]
        BY <3>1 DEF TypeOK
      <4>5. CASE ip = ip0 /\ result.success
        <5>1. Succeeded(ip)' = Succeeded(ip) \cup {q}
          BY <4>3, <4>4, <4>5 DEF Succeeded, Blocked
        <5>2. Cardinality(Succeeded(ip))' = Cardinality(Succeeded(ip)) + 1
          BY <4>1, <4>2, <5>1, FS_AddElement
        <5>3. QED  BY <4>1, <4>5, <5>2 DEF Unclaimed
      <4>6. CASE ip # ip0 \/ ~result.success
        <5>1. Succeeded(ip)' = Succeeded(ip)
          BY <4>2, <4>3, <4>4, <4>6 DEF Succeeded, Blocked
        <5>2. QED  BY <4>1, <4>6, <5>1 DEF Unclaimed
      <4>7. QED  BY <4>5, <4>6
    <3>6. /\ Truthful(a, ip)
          /\ responses[ip][a][1] \in Nat /\ Effected(a, ip) \in Nat
          /\ Unclaimed(a, ip) \in Nat
      BY TruthTerms DEF TruthInv
    <3>7. Count(Claiming(a, ip)) \in {0, 1}
      BY DEF Count
    <3>8. QED  BY <3>2, <3>3, <3>4, <3>5, <3>6, <3>7 DEF Truthful
  <2>8. ASSUME NEW q \in Requests, ApiRecord(q)
        PROVE  TruthInv'
    <3> SUFFICES ASSUME NEW a \in FirewallActions, NEW ip \in Attackers
                 PROVE  Truthful(a, ip)'
      BY DEF TruthInv
    <3>1. /\ requests[q].status = "blocked"
          /\ requests[q].ip \in Attackers /\ requests[q].success \in BOOLEAN
          /\ "block" \in Actions
      BY <2>8 DEF ApiRecord, TypeOK, Request, Actions, HostActions, FirewallActions
    <3>2. PICK a0 \in Actions, ip0 \in Attackers, column \in {0, 1} :
            /\ a0 = "block" /\ ip0 = requests[q].ip
            /\ column = Count(requests[q].success)
            /\ AddsRow(a0, ip0, column)
      BY <2>8, <3>1 DEF ApiRecord, write_response, AddsRow, Count
    <3>3. responses'[ip][a][1] = responses[ip][a][1]
            + (IF a = a0 /\ ip = ip0 /\ column = 1 THEN 1 ELSE 0)
      BY <3>2, OneRow DEF HostActions
    <3>4. /\ Effected(a, ip)' = Effected(a, ip)
          /\ Count(Claiming(a, ip))' = Count(Claiming(a, ip))
          /\ Count(Claiming(a, ip)) \in {0, 1}
      BY <2>8 DEF ApiRecord, Effected, Claiming, Awaiting, Count, JobAction, JobIp,
                  JobScore
    <3>5. Unclaimed(a, ip)
            = Unclaimed(a, ip)' + (IF a = "block" /\ ip = ip0 /\ column = 1 THEN 1 ELSE 0)
      <4>1. Cardinality(Succeeded(ip)) \in Nat /\ IsFiniteSet(Succeeded(ip))
        BY TruthTerms
      <4>2. requests'[q].status = "recorded"
        BY <2>8 DEF ApiRecord, TypeOK
      <4>3. \A other \in Requests \ {q} : requests'[other] = requests[other]
        BY <2>8 DEF ApiRecord, TypeOK
      <4>4. column = 1 <=> requests[q].success
        BY <3>2 DEF Count
      <4>5. CASE ip = ip0 /\ column = 1
        <5>1. q \in Succeeded(ip) /\ Succeeded(ip)' = Succeeded(ip) \ {q}
          BY <3>1, <3>2, <4>2, <4>3, <4>4, <4>5 DEF Succeeded, Blocked
        <5>2. Cardinality(Succeeded(ip))' = Cardinality(Succeeded(ip)) - 1
          BY <4>1, <5>1, FS_RemoveElement
        <5>3. QED  BY <4>1, <4>5, <5>2 DEF Unclaimed
      <4>6. CASE ip # ip0 \/ column # 1
        <5>1. Succeeded(ip)' = Succeeded(ip)
          BY <3>2, <4>2, <4>3, <4>4, <4>6 DEF Succeeded, Blocked
        <5>2. QED  BY <4>1, <4>6, <5>1 DEF Unclaimed
      <4>7. QED  BY <4>5, <4>6
    <3>6. /\ Truthful(a, ip)
          /\ responses[ip][a][1] \in Nat /\ Effected(a, ip) \in Nat
          /\ Unclaimed(a, ip) \in Nat
      BY TruthTerms DEF TruthInv
    <3>7. Unclaimed(a, ip)' \in Int
      <4>1. IsFiniteSet(Succeeded(ip)')
        BY FS_Subset DEF Succeeded, Blocked
      <4>2. QED  BY <4>1, FS_CardinalityType DEF Unclaimed
    <3>8. QED  BY <3>2, <3>3, <3>4, <3>5, <3>6, <3>7 DEF Truthful
  <2>9. ASSUME NEW ip0 \in Attackers, Unblock(ip0)
         PROVE  TruthInv'
    <3> SUFFICES ASSUME NEW a \in FirewallActions, NEW ip \in Attackers
                 PROVE  Truthful(a, ip)'
      BY DEF TruthInv
    <3>1. /\ responses' = responses
          /\ Unclaimed(a, ip)' = Unclaimed(a, ip)
          /\ Count(Claiming(a, ip))' = Count(Claiming(a, ip))
      BY <2>9 DEF Unblock, Unclaimed, Succeeded, Blocked, Claiming, Awaiting, Count,
                   JobAction, JobIp, JobScore
    <3>2. Effected(a, ip)' = Effected(a, ip)
      BY <2>9, RuleTakenOut DEF HostActions
    <3>3. QED  BY <3>1, <3>2 DEF TruthInv, Truthful
  <2>10. QED
    BY <2>1, <2>2, <2>3, <2>4, <2>5, <2>6, <2>7, <2>8, <2>9
       DEF Next, Daemon, Portal
<1>3. TypeOK /\ TruthInv => OutcomesAreTruthful
  <2> SUFFICES ASSUME TypeOK, TruthInv, NEW a \in FirewallActions, NEW ip \in Attackers
               PROVE  responses[ip][a][1] <= Effected(a, ip)
    BY DEF OutcomesAreTruthful
  <2>1. /\ Truthful(a, ip)
        /\ responses[ip][a][1] \in Nat /\ Effected(a, ip) \in Nat
        /\ Unclaimed(a, ip) \in Nat /\ Count(Claiming(a, ip)) \in {0, 1}
    BY TruthTerms DEF TruthInv
  <2>2. QED  BY <2>1 DEF Truthful
<1>4. QED  BY <1>1, <1>2, <1>3, TypeCorrect, PTL DEF Spec
-----------------------------------------------------------------------------
(* The log. *)

CloseLine(s) == [session |-> s, nr |-> 0]

\* The data events of a session in the first lines of the log.
Data(s, lines) ==
  {nr \in EventNrs : \E i \in 1 .. lines : log[i] = [session |-> s, nr |-> nr]}

\* A close line is a session's last, and its data events are all there.
LogInv ==
  /\ \A i, j \in DOMAIN log :
       i < j /\ log[i].session = log[j].session => ~IsClose(log[i])
  /\ \A s \in Sessions \ closed : \A i \in DOMAIN log : log[i] # CloseLine(s)
  /\ \A s \in Sessions : Data(s, Len(log)) = 1 .. written[s]

\* The lines there are stay as they are.
LEMMA LogGrows ==
  ASSUME TypeOK, NEW line \in Line, log' = Append(log, line)
  PROVE  /\ Len(log) \in Nat /\ Len(log') = Len(log) + 1
         /\ \A i \in 1 .. Len(log) : log'[i] = log[i]
         /\ log'[Len(log) + 1] = line
         /\ DOMAIN log = 1 .. Len(log) /\ DOMAIN log' = 1 .. Len(log) + 1
         /\ \A s : \A lines \in 0 .. Len(log) : Data(s, lines)' = Data(s, lines)
         /\ \A s : Data(s, Len(log))'
              = Data(s, Len(log)) \cup {nr \in EventNrs : line = [session |-> s, nr |-> nr]}
<1>1. /\ Len(log) \in Nat /\ Len(log') = Len(log) + 1
      /\ \A i \in 1 .. Len(log) : log'[i] = log[i]
      /\ log'[Len(log) + 1] = line
      /\ DOMAIN log = 1 .. Len(log) /\ DOMAIN log' = 1 .. Len(log) + 1
  BY DEF TypeOK
<1>2. \A s : \A lines \in 0 .. Len(log) : Data(s, lines)' = Data(s, lines)
  BY <1>1 DEF Data
<1>3. ASSUME NEW s
      PROVE  Data(s, Len(log))'
               = Data(s, Len(log)) \cup {nr \in EventNrs : line = [session |-> s, nr |-> nr]}
  <2>1. \A nr : (\E i \in 1 .. Len(log) + 1 : log'[i] = [session |-> s, nr |-> nr])
                  <=> \/ \E i \in 1 .. Len(log) : log[i] = [session |-> s, nr |-> nr]
                      \/ line = [session |-> s, nr |-> nr]
    BY <1>1
  <2>2. Data(s, Len(log))'
          = {nr \in EventNrs : \E i \in 1 .. Len(log) + 1 : log'[i] = [session |-> s, nr |-> nr]}
    BY <1>1 DEF Data
  <2>3. QED  BY <2>1, <2>2 DEF Data
<1>4. QED  BY <1>1, <1>2, <1>3

LEMMA LogInvInductive ==
  ASSUME TypeOK, LogInv, [Next]_vars
  PROVE  LogInv'
<1> USE DEF logVars, tailVars, verdictVars, hostVars
<1>1. ASSUME NEW s0 \in Sessions, LogData(s0)
      PROVE  LogInv'
  <2>1. PICK line \in Line : /\ line = [session |-> s0, nr |-> written[s0] + 1]
                             /\ log' = Append(log, line)
    <3>1. written[s0] + 1 \in EventNrs
      BY <1>1, NextEvent
    <3>2. [session |-> s0, nr |-> written[s0] + 1] \in Line
      BY <3>1 DEF Line
    <3>3. QED  BY <1>1, <3>2 DEF LogData, Write
  <2>2. /\ s0 \notin closed /\ closed' = closed /\ written[s0] \in Nat
        /\ written[s0] + 1 \in EventNrs
        /\ written' = [written EXCEPT ![s0] = written[s0] + 1]
    <3>1. written[s0] \in 0 .. MaxEvents /\ written[s0] < MaxEvents
      BY <1>1 DEF LogData, TypeOK, EventNrs
    <3>2. QED  BY <1>1, <3>1 DEF LogData, EventNrs
  <2>3. /\ line.session = s0 /\ line.nr # 0
    BY <2>1, <2>2 DEF EventNrs
  <2>4. \A i \in DOMAIN log : log[i].session = s0 => ~IsClose(log[i])
    <3>1. \A i \in DOMAIN log : log[i] \in Line
      BY DEF TypeOK
    <3>2. \A i \in DOMAIN log : log[i].session = s0 /\ IsClose(log[i])
                                  => log[i] = CloseLine(s0)
      BY <3>1 DEF Line, IsClose, CloseLine
    <3>3. QED  BY <2>2, <3>2 DEF LogInv
  <2>5. \A i, j \in DOMAIN log' :
          i < j /\ log'[i].session = log'[j].session => ~IsClose(log'[i])
    BY <2>1, <2>3, <2>4, LogGrows DEF LogInv, IsClose
  <2>6. \A s \in Sessions \ closed' : \A i \in DOMAIN log' : log'[i] # CloseLine(s)
    BY <2>1, <2>2, <2>3, LogGrows DEF LogInv, CloseLine
  <2>7. ASSUME NEW s \in Sessions
        PROVE  Data(s, Len(log))' = 1 .. written'[s]
    <3>1. /\ Data(s, Len(log)) = 1 .. written[s]
          /\ Data(s, Len(log))' = Data(s, Len(log)) \cup
                                    {nr \in EventNrs : line = [session |-> s, nr |-> nr]}
      BY <2>1, LogGrows DEF LogInv
    <3>2. CASE s = s0
      <4>1. {nr \in EventNrs : line = [session |-> s, nr |-> nr]} = {written[s0] + 1}
        BY <2>1, <2>2, <3>2
      <4>2. written'[s] = written[s0] + 1
        BY <2>2, <3>2 DEF TypeOK
      <4>3. QED  BY <2>2, <3>1, <3>2, <4>1, <4>2
    <3>3. CASE s # s0
      <4>1. {nr \in EventNrs : line = [session |-> s, nr |-> nr]} = {}
        BY <2>3, <3>3
      <4>2. written'[s] = written[s]
        BY <2>2, <3>3 DEF TypeOK
      <4>3. QED  BY <3>1, <4>1, <4>2
    <3>4. QED  BY <3>2, <3>3
  <2>8. QED  BY <2>5, <2>6, <2>7 DEF LogInv
<1>2. ASSUME NEW s0 \in Sessions, LogClose(s0)
      PROVE  LogInv'
  <2>1. PICK line \in Line : line = CloseLine(s0) /\ log' = Append(log, line)
    BY <1>2 DEF LogClose, Write, CloseLine, Line
  <2>2. s0 \notin closed /\ closed' = closed \cup {s0} /\ written' = written
    BY <1>2 DEF LogClose
  <2>3. line.session = s0 /\ line.nr = 0
    BY <2>1 DEF CloseLine
  <2>4. \A i \in DOMAIN log : log[i].session = s0 => ~IsClose(log[i])
    <3>1. \A i \in DOMAIN log : log[i] \in Line
      BY DEF TypeOK
    <3>2. \A i \in DOMAIN log : log[i].session = s0 /\ IsClose(log[i])
                                  => log[i] = CloseLine(s0)
      BY <3>1 DEF Line, IsClose, CloseLine
    <3>3. QED  BY <2>2, <3>2 DEF LogInv
  <2>5. \A i, j \in DOMAIN log' :
          i < j /\ log'[i].session = log'[j].session => ~IsClose(log'[i])
    BY <2>1, <2>3, <2>4, LogGrows DEF LogInv, IsClose
  <2>6. \A s \in Sessions \ closed' : \A i \in DOMAIN log' : log'[i] # CloseLine(s)
    BY <2>1, <2>2, <2>3, LogGrows DEF LogInv, CloseLine
  <2>7. ASSUME NEW s \in Sessions
        PROVE  Data(s, Len(log))' = 1 .. written'[s]
    <3>1. /\ Data(s, Len(log)) = 1 .. written[s]
          /\ Data(s, Len(log))' = Data(s, Len(log)) \cup
                                    {nr \in EventNrs : line = [session |-> s, nr |-> nr]}
      BY <2>1, LogGrows DEF LogInv
    <3>2. {nr \in EventNrs : line = [session |-> s, nr |-> nr]} = {}
      BY <2>3 DEF EventNrs
    <3>3. QED  BY <2>2, <3>1, <3>2
  <2>8. QED  BY <2>5, <2>6, <2>7 DEF LogInv
<1>3. CASE UNCHANGED <<log, written, closed>>
  BY <1>3 DEF LogInv, Data
<1>4. CASE LogRest \/ Rotate \/ Start \/ Daemon \/ Crash \/ Portal \/ (\E ip \in Attackers : Unblock(ip))
           \/ UNCHANGED vars
  BY <1>3, <1>4 DEF LogRest, Rotate, Start, Daemon, ReadPart, ReadRest, ReadLine, ReadData, ReadClose, Persist, LogOnly, SpawnDecoy,
                    RunFirewall, Notify, ForensicCapture, Returned, Record, Crash,
                    Portal, ApiBlock, ApiRecord, Unblock, vars
<1>5. QED  BY <1>1, <1>2, <1>4 DEF Next, Honeypot
-----------------------------------------------------------------------------
(* What a verdict is computed from. *)

\* The running daemon has read this session's close line.
CloseRead(s) == \E i \in 1 .. pos : log[i] = CloseLine(s)

InJob == pc \notin {"down", "tail"}

\* All events of a session, but for those whose lines were lost.
Whole(s, evidence) ==
  evidence \subseteq 1 .. written[s] /\ (1 .. written[s]) \ lost[s] \subseteq evidence

\* A line half read is a lost one; a buffer holds what was read of an open
\* session, and a job or a verdict the whole of a closed one.
WholeInv ==
  /\ half => pos < Len(log) /\ log[pos + 1].nr \in lost[log[pos + 1].session]
  /\ \A s \in Sessions : pc # "down" /\ ~CloseRead(s) =>
       buffers[s] \subseteq Data(s, pos) /\ Data(s, pos) \ lost[s] \subseteq buffers[s]
  /\ InJob => /\ job.session \in closed /\ ~CloseAhead(job.session)
              /\ Whole(job.session, job.evidence)
  /\ \A s \in Sessions : session_analysis[s] # NoVerdict =>
       s \in closed /\ Whole(s, session_analysis[s].evidence)

\* The line read next is the last of its session, when it closes it.
LEMMA CloseIsLast ==
  ASSUME TypeOK, LogInv, pos < Len(log), IsClose(log[pos + 1])
  PROVE  LET s == log[pos + 1].session
         IN  /\ s \in closed /\ s \in Sessions /\ log[pos + 1] = CloseLine(s)
             /\ ~CloseRead(s)
             /\ \A i \in pos + 2 .. Len(log) : log[i].session # s
             /\ Data(s, pos) = 1 .. written[s]
<1> DEFINE s == log[pos + 1].session
<1>1. /\ pos \in Nat /\ Len(log) \in Nat /\ pos + 1 \in DOMAIN log
      /\ DOMAIN log = 1 .. Len(log)
      /\ \A i \in DOMAIN log : log[i] \in Line
  BY DEF TypeOK
<1>2. s \in Sessions /\ log[pos + 1] = CloseLine(s)
  BY <1>1 DEF Line, IsClose, CloseLine
<1>3. s \in closed
  BY <1>1, <1>2 DEF LogInv
<1>4. ~CloseRead(s)
  <2> SUFFICES ASSUME NEW i \in 1 .. pos, log[i] = CloseLine(s)
               PROVE  FALSE
    BY DEF CloseRead
  <2>1. i \in DOMAIN log /\ i < pos + 1 /\ log[i].session = s /\ IsClose(log[i])
    BY <1>1 DEF CloseLine, IsClose
  <2>2. QED  BY <1>1, <2>1 DEF LogInv
<1>5. \A i \in pos + 2 .. Len(log) : log[i].session # s
  <2>1. \A i \in pos + 2 .. Len(log) : i \in DOMAIN log /\ pos + 1 < i
    BY <1>1
  <2>2. QED  BY <1>1, <2>1 DEF LogInv
<1>6. Data(s, pos) = Data(s, Len(log))
  <2>1. ASSUME NEW nr \in EventNrs, NEW i \in 1 .. Len(log),
               log[i] = [session |-> s, nr |-> nr]
        PROVE  i \in 1 .. pos
    <3>1. log[i].session = s /\ log[i].nr # 0
      BY <2>1 DEF EventNrs
    <3>2. i # pos + 1
      BY <3>1 DEF IsClose
    <3>3. QED  BY <1>1, <1>5, <3>1, <3>2
  <2>2. \A i \in 1 .. pos : i \in 1 .. Len(log)
    BY <1>1
  <2>3. QED  BY <2>1, <2>2 DEF Data
<1>7. QED  BY <1>2, <1>3, <1>4, <1>5, <1>6 DEF LogInv

\* A step that leaves the log, and what is known of it, alone.
LEMMA WholeFrame ==
  ASSUME WholeInv, TypeOK,
         UNCHANGED <<log, written, closed, pos, half, lost, buffers, session_analysis>>,
         \A s : CloseAhead(s)' => CloseAhead(s),
         InJob' => InJob /\ job'.session = job.session /\ job'.evidence = job.evidence,
         pc' # "down" => pc # "down"
  PROVE  WholeInv'
<1>1. \A s : CloseRead(s)' = CloseRead(s) /\ Data(s, pos)' = Data(s, pos)
  BY DEF CloseRead, Data
<1>2. InJob' => /\ job'.session \in closed' /\ ~CloseAhead(job.session)'
                /\ Whole(job.session, job.evidence)'
  <2> SUFFICES ASSUME InJob'
               PROVE  /\ job'.session \in closed' /\ ~CloseAhead(job.session)'
                      /\ Whole(job.session, job.evidence)'
    OBVIOUS
  <2>1. /\ InJob /\ job'.session = job.session /\ job'.evidence = job.evidence
        /\ job.session \in closed /\ ~CloseAhead(job.session)
        /\ Whole(job.session, job.evidence)
    BY DEF WholeInv
  <2>2. CloseAhead(job.session)' => CloseAhead(job.session)
    BY <2>1 DEF CloseAhead
  <2>3. QED  BY <2>1, <2>2 DEF Whole
<1>3. \A s \in Sessions : session_analysis'[s] # NoVerdict =>
        s \in closed' /\ Whole(s, session_analysis[s].evidence)'
  BY DEF WholeInv, Whole
<1>4. QED  BY <1>1, <1>2, <1>3 DEF WholeInv

\* A new line brings no other session's close line ahead.
LEMMA OthersAhead ==
  ASSUME TypeOK, NEW line \in Line, log' = Append(log, line),
         UNCHANGED <<pos, end>>, NEW s, line.session # s
  PROVE  CloseAhead(s)' => CloseAhead(s)
<1> SUFFICES ASSUME CloseAhead(s)'
             PROVE  CloseAhead(s)
  OBVIOUS
<1>1. PICK i \in pos + 1 .. Len(log) + 1 :
        (end = 0 \/ i <= end) /\ log'[i] = [session |-> s, nr |-> 0]
  BY LogGrows DEF CloseAhead
<1>2. pos \in Nat /\ Len(log) \in Nat
  BY DEF TypeOK
<1>3. i # Len(log) + 1
  BY <1>1, LogGrows
<1>4. i \in pos + 1 .. Len(log) /\ log[i] = log'[i]
  BY <1>1, <1>2, <1>3, LogGrows
<1>5. QED  BY <1>1, <1>4 DEF CloseAhead

\* Nor does the rest of a line, or a rotation.
LEMMA RestAhead ==
  ASSUME TypeOK, LogRest \/ Rotate
  PROVE  \A s : CloseAhead(s)' => CloseAhead(s)
<1>1. log' = log /\ pos' = pos /\ (end' = end \/ end = 0)
  BY DEF LogRest, Rotate, tailVars
<1>2. QED  BY <1>1 DEF CloseAhead

\* One more line of the log.
LEMMA WholeLine ==
  ASSUME TypeOK, WholeInv, NEW s0 \in Sessions, LogData(s0) \/ LogClose(s0)
  PROVE  WholeInv'
<1>1. PICK line \in Line : line.session = s0 /\ Write(line)
  BY LineWritten
<1>2. /\ log' = Append(log, line)
      /\ UNCHANGED <<pos, end, half, lost, buffers, session_analysis, pc, job>>
  BY <1>1 DEF Write, tailVars, verdictVars
<1>3. /\ s0 \notin closed /\ closed \subseteq closed'
      /\ \A s \in Sessions \ {s0} : written'[s] = written[s]
      /\ pos \in 0 .. Len(log)
  BY DEF LogData, LogClose, TypeOK
<1>4. \A s : Data(s, pos)' = Data(s, pos) /\ CloseRead(s)' = CloseRead(s)
  <2>1. \A i \in 1 .. pos : i \in 1 .. Len(log)
    BY <1>3, LogGrows, <1>2
  <2>2. QED  BY <1>2, <1>3, <2>1, LogGrows DEF CloseRead, Data
<1>5. \A s \in Sessions \ {s0} : CloseAhead(s)' => CloseAhead(s)
  BY <1>1, <1>2, <1>3, OthersAhead
<1>6. half' => pos' < Len(log') /\ log'[pos' + 1].nr \in lost'[log'[pos' + 1].session]
  <2>1. half => pos + 1 \in 1 .. Len(log) /\ log[pos + 1].nr \in lost[log[pos + 1].session]
    BY <1>2, <1>3, LogGrows DEF WholeInv
  <2>2. QED  BY <1>2, <1>3, <2>1, LogGrows
<1>7. InJob' => /\ job'.session \in closed' /\ ~CloseAhead(job.session)'
                /\ Whole(job.session, job.evidence)'
  <2> SUFFICES ASSUME InJob'
               PROVE  /\ job'.session \in closed' /\ ~CloseAhead(job.session)'
                      /\ Whole(job.session, job.evidence)'
    OBVIOUS
  <2>1. InJob /\ job.session \in Sessions /\ job' = job
    BY <1>2, JobType DEF InJob
  <2>2. /\ job.session \in closed /\ ~CloseAhead(job.session)
        /\ Whole(job.session, job.evidence)
    BY <2>1 DEF WholeInv
  <2>3. job.session \in Sessions \ {s0}
    BY <1>3, <2>1, <2>2
  <2>4. Whole(job.session, job.evidence)'
    BY <1>2, <1>3, <2>1, <2>2, <2>3 DEF Whole
  <2>5. ~CloseAhead(job.session)'
    <3>1. \A s : s = job.session => (CloseAhead(s)' <=> CloseAhead(job.session)')
      BY <2>1 DEF CloseAhead
    <3>2. QED  BY <1>5, <2>2, <2>3, <3>1
  <2>6. QED  BY <1>3, <2>1, <2>2, <2>4, <2>5
<1>8. \A s \in Sessions : session_analysis'[s] # NoVerdict =>
        s \in closed' /\ Whole(s, session_analysis[s].evidence)'
  <2> SUFFICES ASSUME NEW s \in Sessions, session_analysis[s] # NoVerdict
               PROVE  s \in closed' /\ Whole(s, session_analysis[s].evidence)'
    BY <1>2
  <2>1. s \in closed /\ s # s0 /\ Whole(s, session_analysis[s].evidence)
    BY <1>3 DEF WholeInv
  <2>2. QED  BY <1>2, <1>3, <2>1 DEF Whole
<1>9. QED  BY <1>2, <1>4, <1>6, <1>7, <1>8 DEF WholeInv

\* A part of a line is read.
LEMMA WholePart ==
  ASSUME TypeOK, WholeInv, ReadPart
  PROVE  WholeInv'
<1>1. /\ pc = "tail" /\ pc' = "tail" /\ pos < Len(log) /\ half' = TRUE
      /\ UNCHANGED <<log, written, closed, pos, buffers, session_analysis>>
      /\ lost' = [lost EXCEPT ![log[pos + 1].session] = @ \cup {log[pos + 1].nr}]
      /\ log[pos + 1].session \in Sessions
  BY LineType DEF ReadPart, HasNext, logVars, verdictVars
<1>2. /\ log[pos + 1].nr \in lost'[log[pos + 1].session]
      /\ \A s \in Sessions : lost[s] \subseteq lost'[s]
  BY <1>1 DEF TypeOK
<1>3. \A s : CloseRead(s)' = CloseRead(s) /\ Data(s, pos)' = Data(s, pos)
  BY <1>1 DEF CloseRead, Data
<1>4. ~InJob'
  BY <1>1 DEF InJob
<1>5. \A s \in Sessions : session_analysis'[s] # NoVerdict =>
        s \in closed' /\ Whole(s, session_analysis[s].evidence)'
  BY <1>1, <1>2 DEF WholeInv, Whole
<1>6. \A s \in Sessions : pc' # "down" /\ ~CloseRead(s)' =>
        /\ buffers'[s] \subseteq Data(s, pos)'
        /\ Data(s, pos)' \ lost'[s] \subseteq buffers'[s]
  BY <1>1, <1>2, <1>3 DEF WholeInv
<1>7. QED  BY <1>1, <1>2, <1>4, <1>5, <1>6 DEF WholeInv

\* The line at the position counts as read once the position is past it.
LEMMA DataGrows ==
  ASSUME TypeOK, pos < Len(log), pos' = pos + 1, log' = log, NEW s
  PROVE  /\ Data(s, pos)' = Data(s, pos) \cup
              {nr \in EventNrs : log[pos + 1] = [session |-> s, nr |-> nr]}
         /\ ~CloseRead(s)' => ~CloseRead(s) /\ log[pos + 1] # CloseLine(s)
<1>1. pos \in Nat /\ Len(log) \in Nat
  BY DEF TypeOK
<1>2. \A nr : (\E i \in 1 .. pos + 1 : log[i] = [session |-> s, nr |-> nr])
                <=> \/ \E i \in 1 .. pos : log[i] = [session |-> s, nr |-> nr]
                    \/ log[pos + 1] = [session |-> s, nr |-> nr]
  BY <1>1
<1>3. Data(s, pos)' = {nr \in EventNrs :
                         \E i \in 1 .. pos + 1 : log[i] = [session |-> s, nr |-> nr]}
  BY DEF Data
<1>4. ~CloseRead(s)' => ~CloseRead(s) /\ log[pos + 1] # CloseLine(s)
  BY <1>1 DEF CloseRead
<1>5. QED  BY <1>2, <1>3, <1>4 DEF Data

\* The rest of a line is read: it was lost.
LEMMA WholeRest ==
  ASSUME TypeOK, WholeInv, ReadRest
  PROVE  WholeInv'
<1> DEFINE line == log[pos + 1]
<1>1. /\ pc = "tail" /\ pc' = "tail" /\ pos < Len(log) /\ half /\ half' = FALSE
      /\ pos' = pos + 1
      /\ UNCHANGED <<log, written, closed, lost, buffers, session_analysis>>
  BY DEF ReadRest, HasNext, logVars, verdictVars
<1>2. line.nr \in lost[line.session]
  BY <1>1 DEF WholeInv
<1>3. ASSUME NEW s \in Sessions, ~CloseRead(s)'
      PROVE  /\ buffers'[s] \subseteq Data(s, pos)'
             /\ Data(s, pos)' \ lost'[s] \subseteq buffers'[s]
  <2>1. /\ ~CloseRead(s)
        /\ Data(s, pos)' = Data(s, pos) \cup
             {nr \in EventNrs : line = [session |-> s, nr |-> nr]}
    BY <1>1, <1>3, DataGrows
  <2>2. buffers[s] \subseteq Data(s, pos) /\ Data(s, pos) \ lost[s] \subseteq buffers[s]
    BY <1>1, <2>1 DEF WholeInv
  <2>3. \A nr \in EventNrs : line = [session |-> s, nr |-> nr] => nr \in lost[s]
    BY <1>2
  <2>4. QED  BY <1>1, <2>1, <2>2, <2>3
<1>4. ~InJob'
  BY <1>1 DEF InJob
<1>5. \A s \in Sessions : session_analysis'[s] # NoVerdict =>
        s \in closed' /\ Whole(s, session_analysis[s].evidence)'
  BY <1>1 DEF WholeInv, Whole
<1>6. QED  BY <1>1, <1>3, <1>4, <1>5 DEF WholeInv

\* The daemon reads a line.
LEMMA WholeRead ==
  ASSUME TypeOK, LogInv, WholeInv, ReadData \/ ReadClose
  PROVE  WholeInv'
<1> DEFINE line == log[pos + 1]
<1>1. /\ pc = "tail" /\ pc' \in {"tail", "persist"} /\ pos' = pos + 1 /\ pos < Len(log)
      /\ half' = FALSE
      /\ UNCHANGED <<log, written, closed, lost, session_analysis>>
      /\ pos \in Nat /\ Len(log) \in Nat
      /\ line \in Line /\ line.session \in Sessions
      /\ ~IsClose(line) => line.nr \in EventNrs
  BY LineType
  DEF ReadData, ReadClose, ReadLine, HasNext, AfterClose, TypeOK, logVars, verdictVars
<1>2. ASSUME NEW s \in Sessions, ~CloseRead(s)'
      PROVE  /\ buffers'[s] \subseteq Data(s, pos)'
             /\ Data(s, pos)' \ lost'[s] \subseteq buffers'[s]
  <2>1. /\ ~CloseRead(s) /\ line # CloseLine(s)
        /\ Data(s, pos)' = Data(s, pos) \cup
             {nr \in EventNrs : line = [session |-> s, nr |-> nr]}
    BY <1>1, <1>2, DataGrows
  <2>2. buffers[s] \subseteq Data(s, pos) /\ Data(s, pos) \ lost[s] \subseteq buffers[s]
    BY <1>1, <2>1 DEF WholeInv
  <2>3. CASE line.session # s
    <3>1. buffers'[s] = buffers[s]
      BY <2>3 DEF ReadData, ReadClose, TypeOK
    <3>2. {nr \in EventNrs : line = [session |-> s, nr |-> nr]} = {}
      BY <2>3
    <3>3. QED  BY <1>1, <2>1, <2>2, <3>1, <3>2
  <2>4. CASE line.session = s
    <3>1. ~IsClose(line)
      BY <1>1, <2>1, <2>4 DEF IsClose, Line, CloseLine
    <3>2. buffers'[s] = buffers[s] \cup {line.nr}
      BY <2>4, <3>1 DEF ReadData, ReadClose, TypeOK, Held
    <3>3. {nr \in EventNrs : line = [session |-> s, nr |-> nr]} = {line.nr}
      BY <1>1, <2>4, <3>1 DEF Line
    <3>4. QED  BY <1>1, <2>1, <2>2, <3>2, <3>3
  <2>5. QED  BY <2>3, <2>4
<1>3. ASSUME InJob'
      PROVE  /\ job'.session \in closed' /\ ~CloseAhead(job.session)'
             /\ Whole(job.session, job.evidence)'
  <2>1. ReadClose /\ IsClose(line)
    BY <1>1, <1>3 DEF InJob, ReadData, ReadClose
  <2>2. job'.session = line.session /\ job'.evidence = buffers[line.session]
    BY <2>1 DEF ReadClose
  <2>3. /\ line.session \in closed /\ ~CloseRead(line.session)
        /\ \A i \in pos + 2 .. Len(log) : log[i].session # line.session
        /\ Data(line.session, pos) = 1 .. written[line.session]
    BY <1>1, <2>1, CloseIsLast
  <2>4. ~CloseAhead(job.session)'
    <3>1. \A i \in pos + 2 .. Len(log) : log[i] # [session |-> line.session, nr |-> 0]
      BY <2>3
    <3>2. pos' + 1 .. Len(log') = pos + 2 .. Len(log)
      BY <1>1
    <3>3. CloseAhead(job.session)' =>
            \E i \in pos' + 1 .. Len(log') : log'[i] = [session |-> job'.session, nr |-> 0]
      BY DEF CloseAhead
    <3>4. QED  BY <1>1, <2>2, <3>1, <3>2, <3>3
  <2>5. Whole(job.session, job.evidence)'
    <3>1. /\ buffers[line.session] \subseteq 1 .. written[line.session]
          /\ (1 .. written[line.session]) \ lost[line.session]
               \subseteq buffers[line.session]
      BY <1>1, <2>3 DEF WholeInv
    <3>2. QED  BY <1>1, <2>2, <3>1 DEF Whole
  <2>6. QED  BY <1>1, <2>2, <2>3, <2>4, <2>5
<1>4. \A s \in Sessions : session_analysis'[s] # NoVerdict =>
        s \in closed' /\ Whole(s, session_analysis[s].evidence)'
  BY <1>1 DEF WholeInv, Whole
<1>5. QED  BY <1>1, <1>2, <1>3, <1>4 DEF WholeInv

\* The daemon starts; what it skips is lost.
LEMMA WholeStart ==
  ASSUME TypeOK, WholeInv, Start
  PROVE  WholeInv'
<1>1. /\ pc' = "tail" /\ buffers' = [s \in Sessions |-> {}]
      /\ pos' = Seek /\ half' = Midway
      /\ lost' = [s \in Sessions |->
                    lost[s] \cup LinesOf(s, 1 .. Seek + Count(Midway))]
      /\ UNCHANGED <<log, written, closed, session_analysis>>
  BY DEF Start, logVars, verdictVars
<1>2. /\ Len(log) \in Nat /\ log \in Seq(Line) /\ base \in 0 .. Len(log)
      /\ (torn => base < Len(log))
  BY DEF TypeOK
<1>3. Seek \in 0 .. Len(log) /\ (Midway => Seek = Len(log) - 1 /\ Len(log) >= 1)
  BY <1>2 DEF Seek, Midway
<1>4. /\ Seek + Count(Midway) \in Int /\ Seek <= Seek + Count(Midway)
      /\ Midway => Seek + Count(Midway) = Len(log)
  <2> DEFINE c == Count(Midway)
  <2>1. c \in {0, 1} /\ (Midway => c = 1)
    BY DEF Count
  <2> HIDE DEF c
  <2>2. c \in {0, 1} /\ Seek \in Int => Seek + c \in Int /\ Seek <= Seek + c
    OBVIOUS
  <2>3. c = 1 /\ Seek = Len(log) - 1 => Seek + c = Len(log)
    BY <1>2
  <2>4. Seek + c \in Int /\ Seek <= Seek + c
    BY <1>2, <1>3, <2>1, <2>2
  <2>5. Midway => Seek + c = Len(log)
    BY <1>3, <2>1, <2>3
  <2>6. QED  BY <2>4, <2>5 DEF c
<1>5. half' => pos' < Len(log') /\ log'[pos' + 1].nr \in lost'[log'[pos' + 1].session]
  <2> SUFFICES ASSUME Midway
               PROVE  Seek < Len(log) /\ log[Seek + 1].nr \in lost'[log[Seek + 1].session]
    BY <1>1
  <2> DEFINE n == Len(log)
  <2>1. n \in 1 .. n /\ Seek + 1 = n /\ Seek < n
    BY <1>2, <1>3
  <2>2. Seek + Count(Midway) = n
    BY <1>4
  <2>3. log[n] \in Line
    BY <1>2, <2>1
  <2>4. log[n].session \in Sessions
    BY <2>3 DEF Line
  <2>5. log[n].nr \in LinesOf(log[n].session, 1 .. n)
    BY <2>1 DEF LinesOf
  <2>6. QED  BY <1>1, <2>1, <2>4, <2>5, <2>2
<1>6. ASSUME NEW s \in Sessions
      PROVE  /\ buffers'[s] \subseteq Data(s, pos)'
             /\ Data(s, pos)' \ lost'[s] \subseteq buffers'[s]
  <2>1. Data(s, pos)' =
          {nr \in EventNrs : \E i \in 1 .. Seek : log[i] = [session |-> s, nr |-> nr]}
    BY <1>1 DEF Data
  <2>2. \A i \in 1 .. Seek : i \in 1 .. Seek + Count(Midway)
    BY <1>3, <1>4
  <2>3. Data(s, pos)' \subseteq LinesOf(s, 1 .. Seek + Count(Midway))
    BY <2>1, <2>2 DEF LinesOf
  <2>4. QED  BY <1>1, <2>3
<1>7. ~InJob'
  BY <1>1 DEF InJob
<1>8. \A s \in Sessions : session_analysis'[s] # NoVerdict =>
        s \in closed' /\ Whole(s, session_analysis[s].evidence)'
  BY <1>1 DEF WholeInv, Whole
<1>9. QED  BY <1>5, <1>6, <1>7, <1>8 DEF WholeInv

\* The verdict is stored.
LEMMA WholePersist ==
  ASSUME TypeOK, WholeInv, Persist
  PROVE  WholeInv'
<1>1. /\ InJob /\ job.session \in Sessions /\ pc # "down"
      /\ session_analysis' = [session_analysis EXCEPT ![job.session] =
                                [evidence |-> job.evidence, score |-> job.score]]
      /\ UNCHANGED <<log, written, closed, end, pos, half, lost, buffers, job>>
  BY JobType DEF Persist, InJob, logVars, tailVars
<1>2. \A s : /\ CloseRead(s)' = CloseRead(s) /\ CloseAhead(s)' = CloseAhead(s)
             /\ Data(s, pos)' = Data(s, pos)
  BY <1>1 DEF CloseRead, CloseAhead, Data
<1>3. /\ job.session \in closed /\ ~CloseAhead(job.session)
      /\ Whole(job.session, job.evidence)
  BY <1>1 DEF WholeInv
<1>4. /\ job'.session \in closed' /\ ~CloseAhead(job.session)'
      /\ Whole(job.session, job.evidence)'
  <2>1. CloseAhead(job.session)' = CloseAhead(job.session)
    BY <1>1 DEF CloseAhead
  <2>2. QED  BY <1>1, <1>3, <2>1 DEF Whole
<1>5. ASSUME NEW s \in Sessions, session_analysis'[s] # NoVerdict
      PROVE  s \in closed' /\ Whole(s, session_analysis[s].evidence)'
  <2>1. CASE s = job.session
    <3>1. session_analysis'[s].evidence = job.evidence
      BY <1>1, <2>1 DEF TypeOK
    <3>2. QED  BY <1>1, <1>3, <2>1, <3>1 DEF Whole
  <2>2. CASE s # job.session
    <3>1. session_analysis'[s] = session_analysis[s]
      BY <1>1, <2>2 DEF TypeOK
    <3>2. QED  BY <1>1, <1>5, <3>1 DEF WholeInv, Whole
  <2>3. QED  BY <2>1, <2>2
<1>6. QED  BY <1>1, <1>2, <1>4, <1>5 DEF WholeInv

LEMMA WholeInvInductive ==
  ASSUME TypeOK, LogInv, WholeInv, [Next]_vars
  PROVE  WholeInv'
<1> USE DEF logVars, tailVars, verdictVars, hostVars
<1>1. CASE LogRest \/ Rotate
  <2>1. UNCHANGED <<log, written, closed, pos, half, lost, buffers, session_analysis,
                    pc, job>>
    BY <1>1 DEF LogRest, Rotate
  <2>2. \A s : CloseAhead(s)' => CloseAhead(s)
    BY <1>1, RestAhead
  <2>3. QED  BY <2>1, <2>2, WholeFrame DEF InJob
<1>2. CASE LogOnly \/ SpawnDecoy \/ RunFirewall \/ Notify \/ ForensicCapture
  <2>1. /\ InJob /\ pc # "down"
        /\ UNCHANGED <<log, written, closed, end, pos, half, lost, buffers,
                       session_analysis>>
    BY <1>2 DEF LogOnly, SpawnDecoy, RunFirewall, Notify, ForensicCapture, Returned, InJob
  <2>2. job' = job \/ \E success : job' = [job EXCEPT !.success = success]
    BY <1>2 DEF LogOnly, SpawnDecoy, RunFirewall, Notify, ForensicCapture, Returned
  <2>3. job'.session = job.session /\ job'.evidence = job.evidence
    BY <2>1, <2>2, JobType DEF InJob, Job
  <2>4. \A s : CloseAhead(s)' => CloseAhead(s)
    BY <2>1 DEF CloseAhead
  <2>5. QED  BY <2>1, <2>3, <2>4, WholeFrame
<1>3. CASE Record
  <2>1. /\ InJob /\ pc # "down" /\ job \in Job
        /\ UNCHANGED <<log, written, closed, end, pos, half, lost, buffers,
                       session_analysis>>
    BY <1>3, JobType DEF Record, InJob
  <2>2. InJob' => job'.session = job.session /\ job'.evidence = job.evidence
    BY <1>3, <2>1 DEF Record, InJob, Job
  <2>3. \A s : CloseAhead(s)' => CloseAhead(s)
    BY <2>1 DEF CloseAhead
  <2>4. QED  BY <2>1, <2>2, <2>3, WholeFrame
<1>4. CASE Crash
  <2>1. /\ pc' = "down" /\ ~InJob' /\ half' = FALSE
        /\ UNCHANGED <<log, written, closed, lost, session_analysis>>
    BY <1>4 DEF Crash, InJob
  <2>2. \A s \in Sessions : session_analysis'[s] # NoVerdict =>
          s \in closed' /\ Whole(s, session_analysis[s].evidence)'
    BY <2>1 DEF WholeInv, Whole
  <2>3. QED  BY <2>1, <2>2 DEF WholeInv
<1>5. CASE Portal \/ (\E ip \in Attackers : Unblock(ip)) \/ UNCHANGED vars
  <2>1. UNCHANGED <<log, written, closed, end, pos, half, lost, buffers,
                    session_analysis, pc, job>>
    BY <1>5 DEF Portal, ApiBlock, ApiRecord, Unblock, vars
  <2>2. \A s : CloseAhead(s)' => CloseAhead(s)
    BY <2>1 DEF CloseAhead
  <2>3. QED  BY <2>1, <2>2, WholeFrame DEF InJob
<1>6. QED
  BY <1>1, <1>2, <1>3, <1>4, <1>5,
     WholeLine, WholePart, WholeRest, WholeRead, WholeStart, WholePersist
  DEF Next, Honeypot, Daemon

LEMMA WholeInvariant == Spec => [](LogInv /\ WholeInv)
<1>1. Init => LogInv /\ WholeInv
  <2> SUFFICES ASSUME Init PROVE LogInv /\ WholeInv
    OBVIOUS
  <2>1. LogInv
    <3>1. log = << >> /\ Len(log) = 0 /\ \A s \in Sessions : written[s] = 0
      BY DEF Init
    <3>2. \A s : Data(s, Len(log)) = {}
      BY <3>1 DEF Data
    <3>3. DOMAIN log = {}
      BY <3>1
    <3>4. \A s \in Sessions : 1 .. written[s] = {}
      BY <3>1
    <3>5. QED  BY <3>2, <3>3, <3>4 DEF LogInv
  <2>2. WholeInv
    BY DEF Init, WholeInv, InJob
  <2>3. QED  BY <2>1, <2>2
<1>2. TypeOK /\ LogInv /\ WholeInv /\ [Next]_vars => LogInv' /\ WholeInv'
  BY LogInvInductive, WholeInvInductive
<1>3. QED  BY <1>1, <1>2, TypeCorrect, PTL DEF Spec

\* VerdictsAreWhole: a verdict is computed from all events of its session but
\* those that some run of the daemon began after, or read in pieces.
THEOREM AllVerdictsAreWhole == Spec => []VerdictsAreWhole
<1>1. WholeInv => VerdictsAreWhole
  BY DEF WholeInv, Whole, VerdictsAreWhole
<1>2. QED  BY <1>1, WholeInvariant, PTL
-----------------------------------------------------------------------------
(* How often a session is answered. *)

\* Verdicts of one session that earlier runs of the daemon may have stored.
Earlier == IF FromStart THEN crashes ELSE 0

\* The running daemon has the close line ahead of it, and not half of it read.
ToAnswer(s) == pc # "down" /\ CloseAhead(s) /\ ~TornClose(s)

\* Before its close line is there a session has no verdict; while the running
\* daemon still has the line ahead, or the verdict in hand, it has at most
\* those of earlier runs.
AnswerInv ==
  \A s \in Sessions :
    /\ answered[s] <= Earlier + 1
    /\ s \notin closed => answered[s] = 0
    /\ pc = "down" /\ FromStart => answered[s] <= crashes
    /\ ToAnswer(s) => answered[s] <= Earlier
    /\ pc = "persist" /\ job.session = s => answered[s] <= Earlier
    /\ session_analysis[s] # NoVerdict => answered[s] >= 1

\* A step that stores no verdict and brings no close line ahead.
LEMMA AnswerFrame ==
  ASSUME AnswerInv, UNCHANGED <<answered, closed, crashes, session_analysis>>,
         \A s \in Sessions : ToAnswer(s)' => ToAnswer(s),
         pc' = "down" => pc = "down",
         pc' = "persist" => pc = "persist" /\ job' = job
  PROVE  AnswerInv'
BY DEF AnswerInv, Earlier

LEMMA AnswerInvInductive ==
  ASSUME TypeOK, LogInv, WholeInv, AnswerInv, [Next]_vars
  PROVE  AnswerInv'
<1> USE DEF logVars, tailVars, verdictVars, hostVars
<1>0. /\ \A s \in Sessions : answered[s] \in Nat
      /\ crashes \in Nat /\ Earlier \in Nat /\ pos \in Nat /\ Len(log) \in Nat
  BY DEF TypeOK, Earlier
<1>1. ASSUME NEW s0 \in Sessions, LogData(s0) \/ LogClose(s0)
      PROVE  AnswerInv'
  <2>1. PICK line \in Line : line.session = s0 /\ Write(line)
    BY <1>1, LineWritten
  <2>2. /\ UNCHANGED <<answered, crashes, session_analysis, pc, job, pos, end, half>>
        /\ s0 \notin closed /\ closed \subseteq closed' /\ log' = Append(log, line)
    BY <1>1, <2>1 DEF LogData, LogClose, Write
  <2>3. ASSUME NEW s \in Sessions \ {s0}, ToAnswer(s)'
        PROVE  ToAnswer(s)
    <3>1. CloseAhead(s)
      BY <2>1, <2>2, <2>3, OthersAhead DEF ToAnswer
    <3>2. TornClose(s) => TornClose(s)'
      <4>1. pos < Len(log) => pos < Len(log') /\ log'[pos + 1] = log[pos + 1]
        BY <1>0, <2>2, LogGrows
      <4>2. QED  BY <2>2, <4>1 DEF TornClose
    <3>3. QED  BY <2>2, <2>3, <3>1, <3>2 DEF ToAnswer
  <2>4. answered[s0] = 0 /\ Earlier' = Earlier
    BY <2>2 DEF AnswerInv, Earlier
  <2>5. QED  BY <1>0, <2>2, <2>3, <2>4 DEF AnswerInv
<1>2. CASE LogRest \/ Rotate
  <2>1. UNCHANGED <<log, pos, half, pc, job, answered, closed, crashes, session_analysis>>
    BY <1>2 DEF LogRest, Rotate
  <2>2. \A s : ToAnswer(s)' => ToAnswer(s)
    BY <1>2, <2>1, RestAhead DEF ToAnswer, TornClose
  <2>3. QED  BY <2>1, <2>2, AnswerFrame
<1>3. CASE Start
  <2>1. /\ pc = "down" /\ pc' = "tail" /\ pos' = Seek /\ half' = Midway
        /\ UNCHANGED <<log, answered, closed, crashes, session_analysis>>
    BY <1>3 DEF Start
  <2>2. ASSUME NEW s \in Sessions, ToAnswer(s)'
        PROVE  answered[s] <= Earlier
    <3>1. CASE FromStart
      BY <2>1, <3>1 DEF AnswerInv, Earlier
    <3>2. CASE ~FromStart /\ torn
      <4>1. pos' = Len(log) - 1 /\ half' /\ Len(log) \in Nat /\ log' = log
        <5>1. Seek = Len(log) - 1
          BY <3>2 DEF Seek
        <5>2. Midway
          BY <3>2 DEF Midway
        <5>3. QED  BY <1>0, <2>1, <5>1, <5>2
      <4>2. \A i \in pos' + 1 .. Len(log') : i = pos' + 1
        BY <2>1, <4>1
      <4>3. ToAnswer(s)' => TornClose(s)'
        <5> SUFFICES ASSUME CloseAhead(s)'
                     PROVE  TornClose(s)'
          BY DEF ToAnswer
        <5>1. PICK i \in pos' + 1 .. Len(log') : log'[i] = [session |-> s, nr |-> 0]
          BY DEF CloseAhead
        <5>2. i = pos' + 1 /\ pos' < Len(log')
          BY <4>1, <5>1
        <5>3. QED  BY <4>1, <5>1, <5>2 DEF TornClose
      <4>4. QED  BY <2>2, <4>3 DEF ToAnswer
    <3>3. CASE ~FromStart /\ ~torn
      BY <1>0, <2>1, <2>2, <3>3 DEF ToAnswer, CloseAhead, Seek
    <3>4. QED  BY <3>1, <3>2, <3>3
  <2>3. Earlier' = Earlier
    BY <2>1 DEF Earlier
  <2>4. QED  BY <2>1, <2>2, <2>3 DEF AnswerInv
<1>4. CASE ReadPart
  <2>1. /\ pc = "tail" /\ pc' = "tail" /\ half = FALSE
        /\ UNCHANGED <<log, pos, end, answered, closed, crashes, session_analysis>>
    BY <1>4 DEF ReadPart, HasNext, TypeOK
  <2>2. \A s : ToAnswer(s)' => ToAnswer(s)
    BY <2>1 DEF ToAnswer, CloseAhead, TornClose
  <2>3. QED  BY <2>1, <2>2, AnswerFrame
<1>5. CASE ReadRest
  <2>1. /\ pc = "tail" /\ pc' = "tail" /\ half' = FALSE /\ pos' = pos + 1
        /\ pos < Len(log)
        /\ UNCHANGED <<log, end, answered, closed, crashes, session_analysis>>
    BY <1>5 DEF ReadRest, HasNext
  <2>2. ASSUME NEW s \in Sessions, ToAnswer(s)'
        PROVE  ToAnswer(s)
    <3>1. PICK i \in pos + 2 .. Len(log) :
            (end = 0 \/ i <= end) /\ log[i] = [session |-> s, nr |-> 0]
      BY <1>0, <2>1, <2>2 DEF ToAnswer, CloseAhead
    <3>2. CloseAhead(s)
      BY <1>0, <3>1 DEF CloseAhead
    <3>3. ~TornClose(s)
      <4>1. CASE IsClose(log[pos + 1])
        <5>1. log[i].session = s /\ log[i].session # log[pos + 1].session
          BY <2>1, <3>1, <4>1, CloseIsLast
        <5>2. QED  BY <5>1 DEF TornClose
      <4>2. CASE ~IsClose(log[pos + 1])
        BY <4>2 DEF TornClose, IsClose
      <4>3. QED  BY <4>1, <4>2
    <3>4. QED  BY <2>1, <3>2, <3>3 DEF ToAnswer
  <2>3. QED  BY <2>1, <2>2, AnswerFrame
<1>6. CASE ReadData
  <2>1. /\ pc = "tail" /\ pc' = "tail" /\ pos' = pos + 1 /\ half = FALSE
        /\ UNCHANGED <<log, end, answered, closed, crashes, session_analysis>>
    BY <1>6 DEF ReadData, ReadLine, HasNext, TypeOK
  <2>2. \A s : ToAnswer(s)' => ToAnswer(s)
    BY <1>0, <2>1 DEF ToAnswer, CloseAhead, TornClose
  <2>3. QED  BY <2>1, <2>2, AnswerFrame
<1>7. CASE ReadClose
  <2>1. /\ pc = "tail" /\ pc' = "persist" /\ pos' = pos + 1 /\ half = FALSE
        /\ UNCHANGED <<log, end, answered, closed, crashes, session_analysis>>
        /\ job'.session = log[pos + 1].session
        /\ pos < Len(log) /\ IsClose(log[pos + 1]) /\ (end = 0 \/ pos < end)
    BY <1>7 DEF ReadClose, ReadLine, HasNext, AfterClose, TypeOK
  <2>2. \A s : ToAnswer(s)' => ToAnswer(s)
    BY <1>0, <2>1 DEF ToAnswer, CloseAhead, TornClose
  <2>3. ToAnswer(log[pos + 1].session)
    <3>1. log[pos + 1] = [session |-> log[pos + 1].session, nr |-> 0]
      BY <2>1, LineType DEF Line, IsClose
    <3>2. pos + 1 \in pos + 1 .. Len(log) /\ (end = 0 \/ pos + 1 <= end)
      BY <1>0, <2>1 DEF TypeOK
    <3>3. CloseAhead(log[pos + 1].session)
      BY <3>1, <3>2 DEF CloseAhead
    <3>4. QED  BY <2>1, <3>3 DEF ToAnswer, TornClose
  <2>4. Earlier' = Earlier
    BY <2>1 DEF Earlier
  <2>5. QED  BY <2>1, <2>2, <2>3, <2>4 DEF AnswerInv
<1>8. CASE Persist
  <2>1. /\ pc = "persist" /\ pc' = "act" /\ job' = job /\ InJob
        /\ UNCHANGED <<log, pos, end, half, closed, crashes>>
        /\ session_analysis' = [session_analysis EXCEPT ![job.session] =
                                  [evidence |-> job.evidence, score |-> job.score]]
        /\ answered' = [answered EXCEPT ![job.session] = @ + 1]
        /\ job.session \in Sessions
    BY <1>8, JobType DEF Persist, InJob
  <2>2. job.session \in closed /\ ~CloseAhead(job.session)
    BY <2>1 DEF WholeInv
  <2>3. /\ answered'[job.session] = answered[job.session] + 1
        /\ \A s \in Sessions \ {job.session} :
             answered'[s] = answered[s] /\ session_analysis'[s] = session_analysis[s]
    BY <2>1 DEF TypeOK
  <2>4. /\ \A s : ToAnswer(s)' <=> ToAnswer(s)
        /\ Earlier' = Earlier
    BY <2>1 DEF ToAnswer, CloseAhead, TornClose, Earlier
  <2>5. ~ToAnswer(job.session)
    BY <2>2 DEF ToAnswer
  <2>6. QED  BY <1>0, <2>1, <2>2, <2>3, <2>4, <2>5 DEF AnswerInv
<1>9. CASE LogOnly \/ SpawnDecoy \/ RunFirewall \/ Notify \/ ForensicCapture \/ Record
  <2>1. /\ pc # "down" /\ pc' \notin {"down", "persist"}
        /\ UNCHANGED <<log, pos, end, half, answered, closed, crashes, session_analysis>>
    BY <1>9 DEF LogOnly, SpawnDecoy, RunFirewall, Notify, ForensicCapture, Returned,
                Record
  <2>2. \A s : ToAnswer(s)' => ToAnswer(s)
    BY <2>1 DEF ToAnswer, CloseAhead, TornClose
  <2>3. QED  BY <2>1, <2>2, AnswerFrame
<1>10. CASE Crash
  <2>1. /\ pc' = "down" /\ crashes' = crashes + 1
        /\ UNCHANGED <<answered, closed, session_analysis>>
    BY <1>10 DEF Crash
  <2>2. Earlier' >= Earlier /\ (FromStart => crashes' = Earlier + 1)
    BY <1>0, <2>1 DEF Earlier
  <2>3. Earlier' \in Nat /\ crashes' \in Nat
    BY <1>0, <2>1 DEF Earlier
  <2>4. QED  BY <1>0, <2>1, <2>2, <2>3 DEF AnswerInv, ToAnswer
<1>11. CASE Portal \/ (\E ip \in Attackers : Unblock(ip)) \/ UNCHANGED vars
  <2>1. UNCHANGED <<log, pos, end, half, pc, job, answered, closed, crashes,
                    session_analysis>>
    BY <1>11 DEF Portal, ApiBlock, ApiRecord, Unblock, vars
  <2>2. \A s : ToAnswer(s)' => ToAnswer(s)
    BY <2>1 DEF ToAnswer, CloseAhead, TornClose
  <2>3. QED  BY <2>1, <2>2, AnswerFrame
<1>12. QED
  BY <1>1, <1>2, <1>3, <1>4, <1>5, <1>6, <1>7, <1>8, <1>9, <1>10, <1>11
  DEF Next, Honeypot, Daemon

LEMMA AnswerInvariant == Spec => []AnswerInv
<1>1. Init => AnswerInv
  BY DEF Init, AnswerInv, ToAnswer, Earlier
<1>2. TypeOK /\ LogInv /\ WholeInv /\ AnswerInv /\ [Next]_vars => AnswerInv'
  BY AnswerInvInductive
<1>3. QED  BY <1>1, <1>2, TypeCorrect, WholeInvariant, PTL DEF Spec

\* AnsweredOncePerRun: one run of the daemon answers a session at most once,
\* and without replay no session is answered twice.
THEOREM SessionsAreAnsweredOncePerRun == Spec => []AnsweredOncePerRun
<1>1. TypeOK /\ AnswerInv => AnsweredOncePerRun
  BY DEF TypeOK, AnswerInv, AnsweredOncePerRun, Earlier
<1>2. QED  BY <1>1, TypeCorrect, AnswerInvariant, PTL
-----------------------------------------------------------------------------
(* What every action stands on. *)

\* A response takes no action twice.
LEMMA DecideDistinct ==
  ASSUME NEW score \in Scores,
         NEW i \in 1 .. Len(decide(score)), NEW j \in 1 .. Len(decide(score)),
         decide(score)[i] = decide(score)[j]
  PROVE  i = j
<1>1. CASE score < 40
  <2>1. decide(score) = << "log" >>
    BY <1>1 DEF decide, Scores
  <2>2. QED  BY <2>1
<1>2. CASE score >= 40 /\ score < 70
  <2>1. decide(score) = << "slow", "redirect" >>
    BY <1>2 DEF decide, Scores
  <2>2. QED  BY <2>1
<1>3. CASE score >= 70 /\ score < 90
  <2>1. decide(score) = << "isolate", "alert" >>
    BY <1>3 DEF decide, Scores
  <2>2. QED  BY <2>1
<1>4. CASE score >= 90
  <2>1. decide(score) = << "block", "alert", "forensic_capture" >>
    BY <1>4 DEF decide, Scores
  <2>2. QED  BY <2>1
<1>5. QED  BY <1>1, <1>2, <1>3, <1>4 DEF Scores

Responding == pc \in {"act", "redirect", "record"}

\* The action is one of the response in hand, from this step on.
Planned(a, ip, from) ==
  /\ Responding
  /\ JobIp = ip
  /\ \E i \in from .. Len(decide(JobScore)) : decide(JobScore)[i] = a

\* It has not been done yet; it has not been written yet.
Undone(a, ip) ==
  Count(Planned(a, ip, IF pc = "record" THEN job.step + 1 ELSE job.step))
Unreported(a, ip) == Count(Planned(a, ip, job.step))

\* What was done, and what was reported, with what is going to be.
Bounded(a, ip) ==
  /\ Effected(a, ip) + Undone(a, ip) <= AskedFor(a, ip)
  /\ Rows(a, ip) + Unreported(a, ip) + Unwritten(a, ip) <= AskedFor(a, ip)

\* What a verdict called for has that verdict behind it, unless it was replaced.
Standing(a, ip) == NoneReplaced(ip) /\ called[ip][a] > 0 => Justified(a, ip)

JustInv ==
  /\ pc = "persist" => job.step = 1
  /\ \A a \in HostActions, ip \in Attackers : Bounded(a, ip) /\ Standing(a, ip)

\* The terms of Bounded are numbers.
LEMMA JustTerms ==
  ASSUME TypeOK, NEW a \in HostActions, NEW ip \in Attackers
  PROVE  /\ Effected(a, ip) \in Nat /\ Rows(a, ip) \in Nat
         /\ Unwritten(a, ip) \in Nat
         /\ Undone(a, ip) \in {0, 1} /\ Unreported(a, ip) \in {0, 1}
         /\ called[ip][a] \in Nat /\ AskedFor(a, ip) \in Nat
         /\ IsFiniteSet(ManualRequests(ip))
         /\ Cardinality(ManualRequests(ip)) \in Nat
         /\ a # "block" => AskedFor(a, ip) = called[ip][a]
         /\ a = "block" =>
              AskedFor(a, ip) = called[ip][a] + Cardinality(ManualRequests(ip))
<1>1. called[ip] \in [Actions -> Nat] /\ a \in Actions
  BY DEF TypeOK, Actions
<1>2. called[ip][a] \in Nat
  BY <1>1
<1>3. ManualRequests(ip) \in SUBSET Requests
  BY DEF ManualRequests
<1>4. IsFiniteSet(ManualRequests(ip)) /\ Cardinality(ManualRequests(ip)) \in Nat
  BY <1>3, FS_Subset, FS_CardinalityType
<1>5. Undone(a, ip) \in {0, 1} /\ Unreported(a, ip) \in {0, 1}
  BY DEF Undone, Unreported, Count
<1>6. QED  BY <1>2, <1>4, <1>5, TermsType DEF AskedFor

\* The plan from a step on is the action of the step and the plan from the next.
LEMMA PlanSplits ==
  ASSUME TypeOK, Responding, NEW a, NEW ip
  PROVE  /\ a = JobAction /\ ip = JobIp =>
              Planned(a, ip, job.step) /\ ~Planned(a, ip, job.step + 1)
         /\ ~(a = JobAction /\ ip = JobIp) =>
              (Planned(a, ip, job.step) <=> Planned(a, ip, job.step + 1))
<1> DEFINE n == Len(decide(JobScore))
<1>1. JobScore \in Scores /\ job.step \in 1 .. 3 /\ job.step \in 1 .. n
  BY JobType DEF Responding
<1>2. n \in 1 .. 3
  BY <1>1, DecideType
<1>3. JobAction = decide(JobScore)[job.step]
  BY DEF JobAction
<1>4. \A i \in job.step .. n : i \in 1 .. n /\ (i = job.step \/ i \in job.step + 1 .. n)
  BY <1>1, <1>2
<1>5. \A i \in job.step + 1 .. n : i \in 1 .. n /\ i # job.step /\ i \in job.step .. n
  BY <1>1, <1>2
<1>6. job.step \in job.step .. n
  BY <1>1, <1>2
<1>7. \A i \in job.step + 1 .. n : decide(JobScore)[i] # JobAction
  BY <1>1, <1>3, <1>5, DecideDistinct
<1>8. CASE a = JobAction /\ ip = JobIp
  BY <1>3, <1>6, <1>7, <1>8 DEF Planned
<1>9. CASE ~(a = JobAction /\ ip = JobIp)
  BY <1>3, <1>4, <1>5, <1>9 DEF Planned
<1>10. QED  BY <1>8, <1>9

\* The plan depends on the job's session and score.
LEMMA SamePlan ==
  ASSUME TypeOK, Responding, Responding',
         job'.session = job.session, job'.score = job.score
  PROVE  \A a, ip, from : Planned(a, ip, from)' <=> Planned(a, ip, from)
<1>1. JobIp' = JobIp /\ JobScore' = JobScore
  BY DEF JobIp, JobScore
<1>2. QED  BY <1>1 DEF Planned

\* A step that does nothing, reports nothing and asks for nothing.
LEMMA JustFrame ==
  ASSUME TypeOK, JustInv,
         UNCHANGED <<effects, removed, responses, requests, answered, called,
                     session_analysis>>,
         pc' = "persist" => job'.step = 1,
         \A a \in HostActions, ip \in Attackers :
           /\ Undone(a, ip)' <= Undone(a, ip)
           /\ Unreported(a, ip)' <= Unreported(a, ip)
  PROVE  JustInv'
<1> SUFFICES ASSUME NEW a \in HostActions, NEW ip \in Attackers
             PROVE  Bounded(a, ip)' /\ Standing(a, ip)'
  BY DEF JustInv
<1>1. Bounded(a, ip) /\ Standing(a, ip)
  BY DEF JustInv
<1>2. /\ Effected(a, ip)' = Effected(a, ip) /\ Rows(a, ip)' = Rows(a, ip)
      /\ Unwritten(a, ip)' = Unwritten(a, ip)
      /\ AskedFor(a, ip)' = AskedFor(a, ip)
  BY DEF Effected, Rows, Unwritten, Blocked, AskedFor, ManualRequests
<1>3. Undone(a, ip)' \in {0, 1} /\ Unreported(a, ip)' \in {0, 1}
  BY DEF Undone, Unreported, Count
<1>4. Bounded(a, ip)'
  BY <1>1, <1>2, <1>3, JustTerms DEF Bounded
<1>5. Standing(a, ip)'
  BY <1>1 DEF Standing, NoneReplaced, Justified
<1>6. QED  BY <1>4, <1>5

\* The verdict is stored: its actions are asked for, and planned.
LEMMA JustPersist ==
  ASSUME TypeOK, AnswerInv, JustInv, Persist
  PROVE  JustInv'
<1> DEFINE score == JobScore
<1>1. /\ pc = "persist" /\ pc' = "act" /\ job' = job /\ job.step = 1
      /\ job \in Job /\ job.session \in Sessions /\ JobIp \in Attackers
      /\ JobScore \in Scores
      /\ UNCHANGED <<effects, removed, responses, requests>>
  BY JobType DEF Persist, hostVars, JustInv
<1>2. /\ answered' = [answered EXCEPT ![job.session] = @ + 1]
      /\ session_analysis' = [session_analysis EXCEPT ![job.session] =
                                [evidence |-> job.evidence, score |-> job.score]]
  BY DEF Persist
<1>3. called' = [called EXCEPT ![JobIp] =
                   [a \in Actions |-> called[JobIp][a] + Count(a \in Called(JobScore))]]
  BY DEF Persist
<1> SUFFICES ASSUME NEW a \in HostActions, NEW ip \in Attackers
             PROVE  Bounded(a, ip)' /\ Standing(a, ip)'
  BY <1>1 DEF JustInv
<1>4. called'[ip][a]
        = called[ip][a] + (IF ip = JobIp /\ a \in Called(JobScore) THEN 1 ELSE 0)
  <2>1. called[ip][a] \in Nat /\ a \in Actions
    BY JustTerms DEF Actions
  <2>2. CASE ip = JobIp
    <3>1. called'[ip] = [b \in Actions |-> called[JobIp][b] + Count(b \in Called(JobScore))]
      BY <1>1, <1>3, <2>2 DEF TypeOK
    <3>2. QED  BY <2>1, <2>2, <3>1 DEF Count
  <2>3. CASE ip # JobIp
    <3>1. called'[ip] = called[ip]
      BY <1>3, <2>3 DEF TypeOK
    <3>2. QED  BY <2>1, <2>3, <3>1
  <2>4. QED  BY <2>2, <2>3
<1>5. /\ Undone(a, ip) = 0 /\ Unreported(a, ip) = 0
      /\ Undone(a, ip)' = (IF ip = JobIp /\ a \in Called(JobScore) THEN 1 ELSE 0)
      /\ Unreported(a, ip)' = (IF ip = JobIp /\ a \in Called(JobScore) THEN 1 ELSE 0)
  <2>1. \A from : ~Planned(a, ip, from)
    BY <1>1 DEF Planned, Responding
  <2>2. DOMAIN decide(JobScore) = 1 .. Len(decide(JobScore))
    BY <1>1, DecideType
  <2>3. a \in Called(JobScore)
          <=> \E i \in 1 .. Len(decide(JobScore)) : decide(JobScore)[i] = a
    BY <2>2 DEF Called
  <2>4. JobIp' = JobIp /\ JobScore' = JobScore
    BY <1>1 DEF JobIp, JobScore
  <2>5. Planned(a, ip, 1)' <=> ip = JobIp /\ a \in Called(JobScore)
    BY <1>1, <2>3, <2>4 DEF Planned, Responding
  <2>6. /\ Undone(a, ip)' = Count(Planned(a, ip, 1)')
        /\ Unreported(a, ip)' = Count(Planned(a, ip, 1)')
    BY <1>1 DEF Undone, Unreported
  <2>7. QED  BY <2>1, <2>5, <2>6 DEF Undone, Unreported, Count
<1>6. /\ Effected(a, ip)' = Effected(a, ip) /\ Rows(a, ip)' = Rows(a, ip)
      /\ Unwritten(a, ip)' = Unwritten(a, ip)
      /\ AskedFor(a, ip)' = AskedFor(a, ip)
                              + (IF ip = JobIp /\ a \in Called(JobScore) THEN 1 ELSE 0)
  <2>1. /\ Effected(a, ip)' = Effected(a, ip) /\ Rows(a, ip)' = Rows(a, ip)
        /\ Unwritten(a, ip)' = Unwritten(a, ip)
        /\ ManualRequests(ip)' = ManualRequests(ip)
    BY <1>1 DEF Effected, Rows, Unwritten, Blocked, ManualRequests
  <2>2. called[ip][a] \in Nat /\ Cardinality(ManualRequests(ip)) \in Nat
    BY JustTerms
  <2>3. QED  BY <1>4, <2>1, <2>2 DEF AskedFor
<1>7. Bounded(a, ip)'
  <2>1. Bounded(a, ip)
    BY DEF JustInv
  <2>2. QED  BY <1>5, <1>6, <2>1, JustTerms DEF Bounded
<1>8. Standing(a, ip)'
  <2> SUFFICES ASSUME NoneReplaced(ip)', called'[ip][a] > 0
               PROVE  Justified(a, ip)'
    BY DEF Standing
  <2>1. CASE ip = JobIp /\ a \in Called(JobScore)
    <3>1. session_analysis'[job.session] = [evidence |-> job.evidence, score |-> job.score]
      BY <1>1, <1>2 DEF TypeOK
    <3>2. [evidence |-> job.evidence, score |-> job.score] \in Verdict
      BY <1>1 DEF Job, Verdict
    <3>3. /\ session_analysis'[job.session] # NoVerdict
          /\ session_analysis'[job.session].score = JobScore
      BY <3>1, <3>2, ResponderConstants DEF JobScore
    <3>4. IpOf[job.session] = ip
      BY <2>1 DEF JobIp
    <3>5. QED  BY <1>1, <2>1, <3>3, <3>4 DEF Justified
  <2>2. CASE ~(ip = JobIp /\ a \in Called(JobScore))
    <3>1. called[ip][a] > 0
      BY <1>4, <2>2, JustTerms
    <3>2. /\ \A s \in Sessions : answered[s] \in Nat
          /\ \A s \in Sessions \ {job.session} :
               /\ answered'[s] = answered[s]
               /\ session_analysis'[s] = session_analysis[s]
          /\ answered'[job.session] = answered[job.session] + 1
      BY <1>1, <1>2 DEF TypeOK
    <3>3. \A s \in Sessions : answered[s] <= answered'[s]
      BY <1>1, <3>2
    <3>4. NoneReplaced(ip)
      BY <1>1, <3>2, <3>3 DEF NoneReplaced
    <3>5. Justified(a, ip)
      BY <3>1, <3>4 DEF JustInv, Standing
    <3>6. PICK s \in Sessions : /\ IpOf[s] = ip /\ session_analysis[s] # NoVerdict
                                /\ a \in Called(session_analysis[s].score)
      BY <3>5 DEF Justified
    <3>7. s # job.session
      <4>1. answered[s] >= 1 /\ answered'[s] <= 1
        BY <3>6 DEF AnswerInv, NoneReplaced
      <4>2. QED  BY <1>1, <3>2, <4>1
    <3>8. session_analysis'[s] = session_analysis[s]
      BY <3>2, <3>7
    <3>9. QED  BY <3>6, <3>8 DEF Justified
  <2>3. QED  BY <2>1, <2>2
<1>9. QED  BY <1>7, <1>8

\* The action in hand is done, or has failed: either way it is not ahead.
LEMMA JustReturned ==
  ASSUME TypeOK, JustInv, pc \in {"act", "redirect"}, JobAction \in HostActions,
         NEW result \in Results, Returned(result)
  PROVE  JustInv'
<1>1. /\ pc' = "record" /\ Responding /\ Responding' /\ job \in Job
      /\ job' = [job EXCEPT !.success = result.success]
      /\ UNCHANGED <<removed, responses, requests, answered, called, session_analysis>>
  BY JobType DEF Returned, Responding, verdictVars
<1>2. job'.session = job.session /\ job'.score = job.score /\ job'.step = job.step
  BY <1>1 DEF Job
<1> SUFFICES ASSUME NEW a \in HostActions, NEW ip \in Attackers
             PROVE  Bounded(a, ip)' /\ Standing(a, ip)'
  BY <1>1 DEF JustInv
<1>3. \A from : Planned(a, ip, from)' <=> Planned(a, ip, from)
  BY <1>1, <1>2, SamePlan
<1>4. /\ Undone(a, ip) = Count(Planned(a, ip, job.step))
      /\ Undone(a, ip)' = Count(Planned(a, ip, job.step + 1))
      /\ Unreported(a, ip)' = Unreported(a, ip)
  <2>1. Undone(a, ip) = Count(Planned(a, ip, job.step))
    BY DEF Undone
  <2>2. Undone(a, ip)' = Count(Planned(a, ip, job.step + 1)')
    BY <1>1, <1>2 DEF Undone
  <2>3. Planned(a, ip, job.step + 1)' <=> Planned(a, ip, job.step + 1)
    BY <1>2, <1>3
  <2>4. Undone(a, ip)' = Count(Planned(a, ip, job.step + 1))
    BY <2>2, <2>3 DEF Count
  <2>5. Planned(a, ip, job.step)' <=> Planned(a, ip, job.step)
    BY <1>2, <1>3
  <2>6. Unreported(a, ip)' = Unreported(a, ip)
    BY <1>1, <2>5 DEF Unreported, Count
  <2>7. QED  BY <2>1, <2>4, <2>6
<1>5. Undone(a, ip)' + (IF a = JobAction /\ ip = JobIp THEN 1 ELSE 0) = Undone(a, ip)
  BY <1>1, <1>4, PlanSplits DEF Count
<1>6. /\ Effected(a, ip)' \in Nat
      /\ Effected(a, ip)'
           <= Effected(a, ip) + (IF a = JobAction /\ ip = JobIp THEN 1 ELSE 0)
  BY EffectOfReturned
<1>7. /\ Rows(a, ip)' = Rows(a, ip) /\ Unwritten(a, ip)' = Unwritten(a, ip)
      /\ AskedFor(a, ip)' = AskedFor(a, ip)
  BY <1>1 DEF Rows, Unwritten, Blocked, AskedFor, ManualRequests
<1>8. Bounded(a, ip) /\ Standing(a, ip) /\ Undone(a, ip)' \in {0, 1}
  BY DEF JustInv, Undone, Count
<1>9. Bounded(a, ip)'
  BY <1>4, <1>5, <1>6, <1>7, <1>8, JustTerms DEF Bounded
<1>10. Standing(a, ip)'
  BY <1>1, <1>8 DEF Standing, NoneReplaced, Justified
<1>11. QED  BY <1>9, <1>10

\* Its row is written: it is not to be reported any more.
LEMMA JustRecord ==
  ASSUME TypeOK, JustInv, Record
  PROVE  JustInv'
<1>1. /\ pc = "record" /\ Responding /\ job \in Job /\ job.step \in 1 .. 3
      /\ UNCHANGED <<effects, removed, requests, answered, called, session_analysis>>
  BY JobType DEF Record, Responding, verdictVars, hostVars
<1>2. \/ /\ pc' = "act" /\ Responding' /\ job'.step = job.step + 1
         /\ job'.session = job.session /\ job'.score = job.score
      \/ pc' = "tail" /\ ~Responding'
  <2>1. CASE MoreActions
    <3>1. job' = [job EXCEPT !.step = job.step + 1] /\ pc' = "act"
      BY <2>1 DEF Record
    <3>2. QED  BY <1>1, <3>1 DEF Job, Responding
  <2>2. CASE ~MoreActions
    BY <2>2 DEF Record, Responding
  <2>3. QED  BY <2>1, <2>2
<1> SUFFICES ASSUME NEW a \in HostActions, NEW ip \in Attackers
             PROVE  Bounded(a, ip)' /\ Standing(a, ip)'
  BY <1>2 DEF JustInv
<1>3. /\ Undone(a, ip) = Count(Planned(a, ip, job.step + 1))
      /\ Undone(a, ip)' <= Count(Planned(a, ip, job.step + 1))
      /\ Unreported(a, ip)' <= Count(Planned(a, ip, job.step + 1))
      /\ Undone(a, ip)' \in {0, 1} /\ Unreported(a, ip)' \in {0, 1}
  <2>1. Undone(a, ip) = Count(Planned(a, ip, job.step + 1))
    BY <1>1 DEF Undone
  <2>2. CASE pc' = "act"
    <3>1. \A from : Planned(a, ip, from)' <=> Planned(a, ip, from)
      BY <1>1, <1>2, <2>2, SamePlan
    <3>2. /\ Undone(a, ip)' = Count(Planned(a, ip, job.step)')
          /\ Unreported(a, ip)' = Count(Planned(a, ip, job.step)')
      BY <2>2 DEF Undone, Unreported
    <3>3. Planned(a, ip, job.step)' <=> Planned(a, ip, job.step + 1)
      BY <1>2, <2>2, <3>1 DEF Planned
    <3>4. QED  BY <2>1, <3>2, <3>3 DEF Count
  <2>3. CASE pc' = "tail"
    <3>1. \A from : ~Planned(a, ip, from)'
      BY <2>3 DEF Planned, Responding
    <3>2. QED  BY <2>1, <3>1 DEF Undone, Unreported, Count
  <2>4. QED  BY <1>2, <2>2, <2>3
<1>4. Unreported(a, ip)
        = Count(Planned(a, ip, job.step + 1)) + (IF a = JobAction /\ ip = JobIp THEN 1 ELSE 0)
  BY <1>1, PlanSplits DEF Unreported, Count
<1>5. Rows(a, ip)' = Rows(a, ip) + (IF a = JobAction /\ ip = JobIp THEN 1 ELSE 0)
  BY RowOfRecord
<1>6. /\ Effected(a, ip)' = Effected(a, ip) /\ Unwritten(a, ip)' = Unwritten(a, ip)
      /\ AskedFor(a, ip)' = AskedFor(a, ip)
  BY <1>1 DEF Effected, Unwritten, Blocked, AskedFor, ManualRequests
<1>7. Bounded(a, ip) /\ Standing(a, ip)
  BY DEF JustInv
<1>8. Bounded(a, ip)'
  <2>1. Count(Planned(a, ip, job.step + 1)) \in {0, 1}
    BY DEF Count
  <2>2. QED  BY <1>3, <1>4, <1>5, <1>6, <1>7, <2>1, JustTerms DEF Bounded
<1>9. Standing(a, ip)'
  BY <1>1, <1>7 DEF Standing, NoneReplaced, Justified
<1>10. QED  BY <1>8, <1>9

\* A manual block is asked for, then carried out.
LEMMA JustBlock ==
  ASSUME TypeOK, JustInv, NEW q \in Requests, NEW ip0 \in Attackers, ApiBlock(q, ip0)
  PROVE  JustInv'
<1>1. /\ requests[q].status = "unused"
      /\ UNCHANGED <<pc, job, responses, answered, called, session_analysis>>
      /\ requests'[q].status = "blocked" /\ requests'[q].ip = ip0
      /\ \A other \in Requests \ {q} : requests'[other] = requests[other]
  BY DEF ApiBlock, TypeOK, verdictVars
<1> SUFFICES ASSUME NEW a \in HostActions, NEW ip \in Attackers
             PROVE  Bounded(a, ip)' /\ Standing(a, ip)'
  BY <1>1 DEF JustInv
<1>2. AskedFor(a, ip)'
        = AskedFor(a, ip) + (IF a = "block" /\ ip = ip0 THEN 1 ELSE 0)
  <2>1. /\ IsFiniteSet(ManualRequests(ip)) /\ Cardinality(ManualRequests(ip)) \in Nat
        /\ called[ip][a] \in Nat /\ q \notin ManualRequests(ip)
    BY <1>1, JustTerms DEF ManualRequests
  <2>2. CASE ip = ip0
    <3>1. ManualRequests(ip)' = ManualRequests(ip) \cup {q}
      BY <1>1, <2>2 DEF ManualRequests
    <3>2. Cardinality(ManualRequests(ip))' = Cardinality(ManualRequests(ip)) + 1
      BY <2>1, <3>1, FS_AddElement
    <3>3. QED  BY <1>1, <2>1, <2>2, <3>2 DEF AskedFor
  <2>3. CASE ip # ip0
    <3>1. ManualRequests(ip)' = ManualRequests(ip)
      BY <1>1, <2>1, <2>3 DEF ManualRequests
    <3>2. QED  BY <1>1, <2>1, <2>3, <3>1 DEF AskedFor
  <2>4. QED  BY <2>2, <2>3
<1>3. /\ Effected(a, ip)' \in Nat
      /\ Effected(a, ip)'
           <= Effected(a, ip) + (IF a = "block" /\ ip = ip0 THEN 1 ELSE 0)
      /\ Unwritten(a, ip)'
           = Unwritten(a, ip) + (IF a = "block" /\ ip = ip0 THEN 1 ELSE 0)
  BY BlockRequested
<1>4. /\ Rows(a, ip)' = Rows(a, ip)
      /\ Undone(a, ip)' = Undone(a, ip) /\ Unreported(a, ip)' = Unreported(a, ip)
  BY <1>1 DEF Rows, Undone, Unreported, Planned, Responding, JobIp, JobScore, Count
<1>5. Bounded(a, ip) /\ Standing(a, ip)
  BY DEF JustInv
<1>6. Bounded(a, ip)'
  BY <1>2, <1>3, <1>4, <1>5, JustTerms DEF Bounded
<1>7. Standing(a, ip)'
  BY <1>1, <1>5 DEF Standing, NoneReplaced, Justified
<1>8. QED  BY <1>6, <1>7

\* Then its row is written.
LEMMA JustBlockRecorded ==
  ASSUME TypeOK, JustInv, NEW q \in Requests, ApiRecord(q)
  PROVE  JustInv'
<1>1. /\ requests[q].status = "blocked"
      /\ UNCHANGED <<pc, job, effects, removed, answered, called, session_analysis>>
      /\ requests' = [requests EXCEPT ![q].status = "recorded"]
  BY DEF ApiRecord, verdictVars, hostVars
<1> SUFFICES ASSUME NEW a \in HostActions, NEW ip \in Attackers
             PROVE  Bounded(a, ip)' /\ Standing(a, ip)'
  BY <1>1 DEF JustInv
<1>2. AskedFor(a, ip)' = AskedFor(a, ip)
  <2>1. requests[q] \in Request
    BY DEF TypeOK
  <2>2. requests'[q].status = "recorded" /\ requests'[q].ip = requests[q].ip
    BY <1>1, <2>1 DEF TypeOK, Request
  <2>3. \A other \in Requests \ {q} : requests'[other] = requests[other]
    BY <1>1 DEF TypeOK
  <2>4. ManualRequests(ip)' = ManualRequests(ip)
    BY <1>1, <2>2, <2>3 DEF ManualRequests
  <2>5. QED  BY <1>1, <2>4 DEF AskedFor
<1>3. /\ Rows(a, ip)'
           = Rows(a, ip) + (IF a = "block" /\ ip = requests[q].ip THEN 1 ELSE 0)
      /\ Unwritten(a, ip)
           = Unwritten(a, ip)' + (IF a = "block" /\ ip = requests[q].ip THEN 1 ELSE 0)
      /\ Unwritten(a, ip)' \in Nat
  BY BlockRecorded
<1>4. /\ Effected(a, ip)' = Effected(a, ip)
      /\ Undone(a, ip)' = Undone(a, ip) /\ Unreported(a, ip)' = Unreported(a, ip)
  BY <1>1 DEF Effected, Undone, Unreported, Planned, Responding, JobIp, JobScore, Count
<1>5. Bounded(a, ip) /\ Standing(a, ip)
  BY DEF JustInv
<1>6. Bounded(a, ip)'
  BY <1>2, <1>3, <1>4, <1>5, JustTerms DEF Bounded
<1>7. Standing(a, ip)'
  BY <1>1, <1>5 DEF Standing, NoneReplaced, Justified
<1>8. QED  BY <1>6, <1>7

LEMMA JustInvInductive ==
  ASSUME TypeOK, AnswerInv, JustInv, [Next]_vars
  PROVE  JustInv'
<1> USE DEF logVars, tailVars, verdictVars, hostVars
<1>1. CASE Honeypot \/ UNCHANGED vars
  <2>1. UNCHANGED <<effects, removed, responses, requests, answered, called,
                    session_analysis, pc, job>>
    BY <1>1 DEF Honeypot, LogData, LogClose, LogRest, Rotate, Write, vars
  <2>2. \A a \in HostActions, ip \in Attackers :
          /\ Undone(a, ip)' = Undone(a, ip) /\ Unreported(a, ip)' = Unreported(a, ip)
          /\ Undone(a, ip) \in {0, 1} /\ Unreported(a, ip) \in {0, 1}
    BY <2>1
    DEF Undone, Unreported, Planned, Responding, JobIp, JobScore, Count
  <2>3. QED  BY <2>1, <2>2, JustFrame DEF JustInv
<1>2. CASE Start \/ ReadPart \/ ReadRest \/ ReadData \/ ReadClose \/ Crash
  <2>1. /\ UNCHANGED <<effects, removed, responses, requests, answered, called,
                       session_analysis>>
        /\ pc' \in {"down", "tail", "persist"}
        /\ pc' = "persist" => job'.step = 1
    BY <1>2 DEF Start, ReadPart, ReadRest, ReadLine, HasNext, ReadData, ReadClose,
                AfterClose, Crash
  <2>2. \A a \in HostActions, ip \in Attackers :
          /\ Undone(a, ip)' = 0 /\ Unreported(a, ip)' = 0
          /\ Undone(a, ip) \in {0, 1} /\ Unreported(a, ip) \in {0, 1}
    BY <2>1 DEF Undone, Unreported, Planned, Responding, Count
  <2>3. QED  BY <2>1, <2>2, JustFrame
<1>3. CASE SpawnDecoy
  <2>1. /\ UNCHANGED <<effects, removed, responses, requests, answered, called,
                       session_analysis, job>>
        /\ pc = "act" /\ pc' = "redirect"
    BY <1>3 DEF SpawnDecoy
  <2>2. \A a \in HostActions, ip \in Attackers :
          /\ Undone(a, ip)' = Undone(a, ip) /\ Unreported(a, ip)' = Unreported(a, ip)
          /\ Undone(a, ip) \in {0, 1} /\ Unreported(a, ip) \in {0, 1}
    BY <2>1
    DEF Undone, Unreported, Planned, Responding, JobIp, JobScore, Count
  <2>3. QED  BY <2>1, <2>2, JustFrame
<1>4. CASE LogOnly
  <2>1. /\ UNCHANGED <<effects, removed, responses, requests, answered, called,
                       session_analysis>>
        /\ pc = "act" /\ pc' = "record" /\ Responding /\ Responding'
        /\ job \in Job /\ job' = [job EXCEPT !.success = TRUE] /\ JobAction = "log"
    BY <1>4, JobType DEF LogOnly, Responding
  <2>2. job'.session = job.session /\ job'.score = job.score /\ job'.step = job.step
    BY <2>1 DEF Job
  <2>3. \A a, ip, from : Planned(a, ip, from)' <=> Planned(a, ip, from)
    BY <2>1, <2>2, SamePlan
  <2>4. ASSUME NEW a \in HostActions, NEW ip \in Attackers
        PROVE  /\ Undone(a, ip)' = Undone(a, ip) /\ Unreported(a, ip)' = Unreported(a, ip)
               /\ Undone(a, ip) \in {0, 1} /\ Unreported(a, ip) \in {0, 1}
    <3>1. a # JobAction
      BY <2>1 DEF HostActions, FirewallActions
    <3>2. Planned(a, ip, job.step) <=> Planned(a, ip, job.step + 1)
      BY <2>1, <3>1, PlanSplits
    <3>3. /\ Undone(a, ip)' = Count(Planned(a, ip, job.step + 1)')
          /\ Unreported(a, ip)' = Count(Planned(a, ip, job.step)')
          /\ Undone(a, ip) = Count(Planned(a, ip, job.step))
      BY <2>1, <2>2 DEF Undone, Unreported
    <3>4. Planned(a, ip, job.step + 1)' <=> Planned(a, ip, job.step + 1)
      BY <2>2, <2>3
    <3>5. Planned(a, ip, job.step)' <=> Planned(a, ip, job.step)
      BY <2>2, <2>3
    <3>6. Undone(a, ip)' = Undone(a, ip) /\ Undone(a, ip) \in {0, 1}
      BY <3>2, <3>3, <3>4 DEF Count
    <3>7. Unreported(a, ip)' = Unreported(a, ip) /\ Unreported(a, ip) \in {0, 1}
      BY <2>1, <3>5 DEF Unreported, Count
    <3>8. QED  BY <3>6, <3>7
  <2>5. QED  BY <2>1, <2>4, JustFrame
<1>5. CASE RunFirewall \/ Notify \/ ForensicCapture
  <2>1. PICK result \in Results : Returned(result)
    BY <1>5, AnyResult
  <2>2. pc \in {"act", "redirect"} /\ JobAction \in HostActions
    BY <1>5 DEF RunFirewall, Notify, ForensicCapture, TypeOK, HostActions,
                FirewallActions
  <2>3. QED  BY <2>1, <2>2, JustReturned
<1>6. ASSUME NEW ip0 \in Attackers, Unblock(ip0)
      PROVE  JustInv'
  <2>1. UNCHANGED <<responses, requests, answered, called, session_analysis, pc, job>>
    BY <1>6 DEF Unblock
  <2> SUFFICES ASSUME NEW a \in HostActions, NEW ip \in Attackers
               PROVE  Bounded(a, ip)' /\ Standing(a, ip)'
    BY <2>1 DEF JustInv
  <2>2. Effected(a, ip)' = Effected(a, ip)
    BY <1>6, RuleTakenOut
  <2>3. /\ Rows(a, ip)' = Rows(a, ip) /\ Unwritten(a, ip)' = Unwritten(a, ip)
        /\ AskedFor(a, ip)' = AskedFor(a, ip)
        /\ Undone(a, ip)' = Undone(a, ip) /\ Unreported(a, ip)' = Unreported(a, ip)
    BY <2>1 DEF Rows, Unwritten, Blocked, AskedFor, ManualRequests, Undone, Unreported,
                Planned, Responding, JobIp, JobScore, Count
  <2>4. Bounded(a, ip) /\ Standing(a, ip)
    BY DEF JustInv
  <2>5. Bounded(a, ip)'
    BY <2>2, <2>3, <2>4 DEF Bounded
  <2>6. Standing(a, ip)'
    BY <2>1, <2>4 DEF Standing, NoneReplaced, Justified
  <2>7. QED  BY <2>5, <2>6
<1>7. QED
  BY <1>1, <1>2, <1>3, <1>4, <1>5, <1>6,
     JustPersist, JustRecord, JustBlock, JustBlockRecorded
  DEF Next, Daemon, Portal

\* ActionsAreJustified: nothing is done to an attacker, and nothing reported
\* done, more often than their verdicts and manual requests called for it; and
\* unless a replay has replaced one, the verdict is still stored.
THEOREM AllActionsAreJustified == Spec => []ActionsAreJustified
<1>1. Init => JustInv
  <2> SUFFICES ASSUME Init, NEW a \in HostActions, NEW ip \in Attackers
               PROVE  Bounded(a, ip) /\ Standing(a, ip)
    BY DEF JustInv, Init
  <2>1. TypeOK
    BY InitType
  <2>2. /\ Effected(a, ip) = 0 /\ Rows(a, ip) = 0 /\ called[ip][a] = 0
    BY DEF Init, Effected, Rows, Actions
  <2>3. Undone(a, ip) = 0 /\ Unreported(a, ip) = 0
    BY DEF Init, Undone, Unreported, Planned, Responding, Count
  <2>4. Blocked(ip) = {}
    BY DEF Init, Blocked
  <2>5. Unwritten(a, ip) = 0
    BY <2>4, FS_EmptySet DEF Unwritten
  <2>6. QED  BY <2>1, <2>2, <2>3, <2>5, JustTerms DEF Bounded, Standing
<1>2. TypeOK /\ AnswerInv /\ JustInv /\ [Next]_vars => JustInv'
  BY JustInvInductive
<1>3. TypeOK /\ JustInv => ActionsAreJustified
  <2> SUFFICES ASSUME TypeOK, JustInv, NEW a \in HostActions, NEW ip \in Attackers
               PROVE  /\ Effected(a, ip) <= AskedFor(a, ip)
                      /\ Rows(a, ip) <= AskedFor(a, ip)
                      /\ NoneReplaced(ip) /\ (Effected(a, ip) > 0 \/ Rows(a, ip) > 0) =>
                           Justified(a, ip) \/ (a = "block" /\ ManuallyBlocked(ip))
    BY DEF ActionsAreJustified
  <2>1. Bounded(a, ip) /\ Standing(a, ip)
    BY DEF JustInv
  <2>2. Effected(a, ip) <= AskedFor(a, ip) /\ Rows(a, ip) <= AskedFor(a, ip)
    BY <2>1, JustTerms DEF Bounded
  <2>3. ASSUME NoneReplaced(ip), AskedFor(a, ip) > 0
        PROVE  Justified(a, ip) \/ (a = "block" /\ ManuallyBlocked(ip))
    <3>1. CASE called[ip][a] > 0
      BY <2>1, <2>3, <3>1 DEF Standing
    <3>2. CASE ~(called[ip][a] > 0)
      <4>1. a = "block" /\ Cardinality(ManualRequests(ip)) > 0
        BY <2>3, <3>2, JustTerms
      <4>2. ManualRequests(ip) # {}
        BY <4>1, FS_EmptySet
      <4>3. QED  BY <4>1, <4>2 DEF ManuallyBlocked
    <3>3. QED  BY <3>1, <3>2
  <2>4. QED  BY <2>2, <2>3, JustTerms
<1>4. QED  BY <1>1, <1>2, <1>3, TypeCorrect, AnswerInvariant, PTL DEF Spec
=============================================================================
