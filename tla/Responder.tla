----------------------------- MODULE Responder ------------------------------
(***************************************************************************)
(* The live responder daemon (response/run_responder.py) with everything   *)
(* it drives: the Cowrie log it tails, the behaviour engine's verdict, the *)
(* store's session_analysis and responses tables, the host's firewall,     *)
(* alerting, packet captures and decoys; and the two other actors on the   *)
(* same host state, the portal's manual block request and the operator's   *)
(* unblock command.  The daemon may die between any two of its steps and   *)
(* be started again; lines reach the log in pieces, and the log is rotated.*)
(*                                                                         *)
(* A session's data events are numbered; what the behaviour engine makes   *)
(* of a session depends on the set of its events that were seen (the       *)
(* evidence) and on the classifier that the process loaded at its start.   *)
(***************************************************************************)
EXTENDS ResponsePolicy, FiniteSets

CONSTANTS
  Sessions,     \* keys of the session buffers
  Attackers,    \* source addresses
  IpOf,         \* the source address of each session
  MaxEvents,    \* bound: data events of one session
  MaxLines,     \* bound: lines of the log
  MayTear,      \* bound: numbers of the lines that may be written in pieces
  MaxRotated,   \* bound: the log is rotated only while fewer lines than
                \* this are in rotated files
  Models,       \* classifiers a process may find: a trained one, or none
  ScoreOf,      \* threat score by classifier, session and evidence
  Enforce,      \* RESPONDER_ENFORCE=1: real firewall; else RecordingRunner
  FromStart,    \* RESPONDER_FROM_START=1: replay the log at every start
  MaxCrashes,   \* bound: deaths of the daemon
  Requests,     \* bound: manual block requests, each used once
  NoVerdict,    \* no row in session_analysis
  Idle          \* the daemon has no job in hand

EventNrs == 1 .. MaxEvents

\* A row of session_analysis: what it was computed from, and threat_score.
Verdict == [evidence : SUBSET EventNrs, score : Scores]

ASSUME ResponderConstants ==
  /\ IpOf \in [Sessions -> Attackers]
  /\ MaxEvents \in Nat
  /\ MaxLines \in Nat
  /\ MaxRotated \in Nat
  /\ ScoreOf \in [Models -> [Sessions -> [SUBSET EventNrs -> Scores]]]
  /\ Enforce \in BOOLEAN
  /\ FromStart \in BOOLEAN
  /\ MaxCrashes \in Nat
  /\ IsFiniteSet(Requests)
  /\ NoVerdict \notin Verdict

VARIABLES
  log,              \* every line Cowrie ever wrote, rotated files included
  torn,             \* the last line is written only in part so far
  base,             \* lines in rotated files: the current one begins after
  written,          \* data events logged of each session
  closed,           \* sessions whose cowrie.session.closed is logged
  pc,               \* where the daemon is
  model,            \* the classifier this process has loaded
  end,              \* where the file it has open ends, once it is rotated;
                    \* 0 before
  pos,              \* lines tail_json is through with in this run
  half,             \* it has read a part of the next line
  buffers,          \* buffers[session]: data events held, by number
  job,              \* the closed session in hand
  lost,             \* per session: lines some run began after or read in
                    \* pieces (history)
  answered,         \* verdicts stored per session so far (history)
  called,           \* called[attacker][action]: verdicts stored so far that
                    \* call for the action (history)
  session_analysis, \* the table: each session's verdict
  responses,        \* the table: rows per attacker, action and success
  effects,          \* per attacker: rules present, notices, captures started
  removed,          \* per attacker: rules the operator took out (history)
  decoys,           \* deeper honeypots generated so far, per attacker
  requests,         \* manual block requests
  crashes           \* deaths of the daemon so far

logVars     == <<log, torn, base, written, closed>>
tailVars    == <<end, pos, half, lost>>
verdictVars == <<session_analysis, answered, called>>
hostVars    == <<effects, removed, decoys>>
vars == <<logVars, tailVars, model, pc, buffers, job, verdictVars, responses,
          hostVars, requests, crashes>>

Line == [session : Sessions, nr : EventNrs \cup {0}]
IsClose(line) == line.nr = 0

\* A condition as a number: the success column, and one more or none.
Count(cond) == IF cond THEN 1 ELSE 0

\* Mutation: only successes are recorded.
write_success_only(ip, action, success) ==
  responses' = IF success THEN [responses EXCEPT ![ip][action][1] = @ + 1]
               ELSE responses

\* One more row in responses (write_response); the columns that the score
\* determines (threat_score, band) and the wording are left out.
write_response(ip, action, success) ==
  responses' = [responses EXCEPT ![ip][action][Count(success)] = @ + 1]

Job == [session : Sessions, evidence : SUBSET EventNrs, score : Scores,
        step : 1 .. 3, success : BOOLEAN]

\* What a command did to this host, and what the code is told of it.
Results == [applied : BOOLEAN, success : BOOLEAN]

\* Mutation: the return code is not looked at.
AnyReturnCode == {result \in Results : result.success}

\* What an iptables command may do: CommandRunner.run returns 0, a failure,
\* or 124 when it gave up waiting on a command that did change the table.
IptablesResults == {result \in Results : result.success => result.applied}

\* RecordingRunner.run and .spawn: nothing happens, success is reported.
Recorded == {result \in Results : ~result.applied /\ result.success}

\* Mutation: the mode is not consulted.
AlwaysCommandRunner == IptablesResults

\* The runner main() gives the actuator.
RunnerResults == IF Enforce THEN IptablesResults ELSE Recorded

\* Popen of tcpdump: not installed, or started, which says nothing of what it
\* captures: it may exit at once.
SpawnResults == {result \in Results : result.applied => result.success}

Init ==
  /\ log = << >>
  /\ torn = FALSE
  /\ base = 0
  /\ written = [s \in Sessions |-> 0]
  /\ closed = {}
  /\ pc = "down"
  /\ model \in Models
  /\ end = 0
  /\ pos = 0
  /\ half = FALSE
  /\ buffers = [s \in Sessions |-> {}]
  /\ job = Idle
  /\ lost = [s \in Sessions |-> {}]
  /\ answered = [s \in Sessions |-> 0]
  /\ called = [ip \in Attackers |-> [a \in Actions |-> 0]]
  /\ session_analysis = [s \in Sessions |-> NoVerdict]
  /\ responses = [ip \in Attackers |-> [a \in Actions |-> [success \in {0, 1} |-> 0]]]
  /\ effects = [ip \in Attackers |-> [a \in HostActions |-> 0]]
  /\ removed = [ip \in Attackers |-> 0]
  /\ decoys = [ip \in Attackers |-> 0]
  /\ requests = [q \in Requests |-> [status |-> "unused"]]
  /\ crashes = 0
-----------------------------------------------------------------------------
(* Cowrie appends to its log, one session's events in order, and rotates it. *)

\* A line is appended, whole or its first part only.
Write(line) ==
  /\ ~torn
  /\ Len(log) < MaxLines
  /\ log' = Append(log, line)
  /\ torn' \in BOOLEAN /\ (torn' => Len(log) + 1 \in MayTear)
  /\ UNCHANGED <<base, tailVars, model, pc, buffers, job, verdictVars, responses,
                 hostVars, requests, crashes>>

LogData(s) ==
  /\ s \notin closed
  /\ written[s] < MaxEvents
  /\ written' = [written EXCEPT ![s] = @ + 1]
  /\ Write([session |-> s, nr |-> written[s] + 1])
  /\ UNCHANGED closed

LogClose(s) ==
  /\ s \notin closed
  /\ closed' = closed \cup {s}
  /\ Write([session |-> s, nr |-> 0])
  /\ UNCHANGED written

LogRest ==
  /\ torn
  /\ torn' = FALSE
  /\ UNCHANGED <<log, base, written, closed, tailVars, model, pc, buffers, job,
                 verdictVars, responses, hostVars, requests, crashes>>

\* The file is renamed and an empty one takes its place.
Rotate ==
  /\ ~torn
  /\ base < Len(log) /\ base < MaxRotated
  /\ base' = Len(log)
  /\ end' = IF pc # "down" /\ end = 0 THEN Len(log) ELSE end
  /\ UNCHANGED <<log, torn, written, closed, pos, half, lost, model, pc, buffers,
                 job, verdictVars, responses, hostVars, requests, crashes>>
-----------------------------------------------------------------------------
(* The daemon. *)

\* Mutation: the seek to the end is lost.
SeekLost == base

\* Where tail_json starts reading; the end may be in the middle of a line.
Seek == IF FromStart THEN base ELSE IF torn THEN Len(log) - 1 ELSE Len(log)
Midway == ~FromStart /\ torn

\* The lines of a session among these.
LinesOf(s, lines) == {log[i].nr : i \in {k \in lines : log[k].session = s}}

\* main() up to the loop, and tail_json's open and seek: the classifier is
\* what there is now, the buffers are new, and what is in rotated files, or
\* without FromStart in any, is skipped.
Start ==
  /\ pc = "down"
  /\ pc' = "tail"
  /\ model' \in Models
  /\ end' = 0
  /\ pos' = Seek
  /\ half' = Midway
  /\ lost' = [s \in Sessions |->
                lost[s] \cup LinesOf(s, 1 .. Seek + Count(Midway))]
  /\ buffers' = [s \in Sessions |-> {}]
  /\ UNCHANGED <<logVars, job, verdictVars, responses, hostVars, requests, crashes>>

\* readline has something of the next line: the file it is in is the open one,
\* which is the old one for good once it is rotated.
HasNext == pc = "tail" /\ pos < Len(log) /\ (end = 0 \/ pos < end)
Torn == torn /\ pos + 1 = Len(log)

\* A part of a line is read: it does not parse and is passed over.
ReadPart ==
  /\ HasNext /\ Torn /\ ~half
  /\ half' = TRUE
  /\ lost' = [lost EXCEPT ![log[pos + 1].session] = @ \cup {log[pos + 1].nr}]
  /\ UNCHANGED <<logVars, model, end, pos, pc, buffers, job, verdictVars, responses,
                 hostVars, requests, crashes>>

\* So is the rest of it.
ReadRest ==
  /\ HasNext /\ ~Torn /\ half
  /\ half' = FALSE
  /\ pos' = pos + 1
  /\ UNCHANGED <<logVars, model, end, lost, pc, buffers, job, verdictVars, responses,
                 hostVars, requests, crashes>>

\* A line is read whole.
ReadLine ==
  /\ HasNext /\ ~Torn /\ ~half
  /\ pos' = pos + 1
  /\ UNCHANGED <<logVars, model, end, half, lost, verdictVars, responses, hostVars,
                 requests, crashes>>

\* Mutation: the list is assigned instead of appended to.
HeldLastOnly(line) == {line.nr}

\* buffers.setdefault(sid, []).append(ev).
Held(line) == buffers[line.session] \cup {line.nr}

\* One line of an open session goes into its buffer.
ReadData ==
  /\ ReadLine
  /\ LET line == log[pos + 1] IN
       /\ ~IsClose(line)
       /\ buffers' = [buffers EXCEPT ![line.session] = Held(line)]
  /\ UNCHANGED <<pc, job>>

\* Mutation: sessions without events are skipped.
SkipEmpty(evidence) == IF evidence = {} THEN "tail" ELSE "persist"

\* What follows a close line: parse_sessions finds the session in its own
\* buffer, so the test for None never skips it.
AfterClose(evidence) == "persist"

\* A close line: the buffer is popped, parsed and analysed.
ReadClose ==
  /\ ReadLine
  /\ LET line == log[pos + 1]
         seen == buffers[line.session]
     IN  /\ IsClose(line)
         /\ buffers' = [buffers EXCEPT ![line.session] = {}]
         /\ job' = [session |-> line.session, evidence |-> seen,
                    score |-> ScoreOf[model][line.session][seen],
                    step |-> 1, success |-> FALSE]
         /\ pc' = AfterClose(seen)

\* Mutation: the verdict is not stored (persist=False).
PersistNothing ==
  /\ pc = "persist"
  /\ pc' = "act"
  /\ UNCHANGED <<logVars, tailVars, model, buffers, job, verdictVars, responses,
                 hostVars, requests, crashes>>

\* What respond() was called with for the job in hand.
JobScore  == job.score
JobIp     == IpOf[job.session]
JobAction == decide(JobScore)[job.step]

\* The end of analyze_session: the verdict is upserted.
Persist ==
  /\ pc = "persist"
  /\ session_analysis' = [session_analysis EXCEPT ![job.session] =
                            [evidence |-> job.evidence, score |-> job.score]]
  /\ answered' = [answered EXCEPT ![job.session] = @ + 1]
  /\ called' = [called EXCEPT ![JobIp] =
                  [a \in Actions |-> @[a] + Count(a \in Called(JobScore))]]
  /\ pc' = "act"
  /\ UNCHANGED <<logVars, tailVars, model, buffers, job, responses, hostVars,
                 requests, crashes>>

\* The action has returned: its outcome awaits _record, its effect is real.
Returned(result) ==
  /\ job' = [job EXCEPT !.success = result.success]
  /\ pc' = "record"
  /\ effects' = IF result.applied
                THEN [effects EXCEPT ![JobIp][JobAction] = @ + 1]
                ELSE effects
  /\ UNCHANGED <<logVars, tailVars, model, buffers, verdictVars, responses, removed,
                 requests, crashes>>

LogOnly ==
  /\ pc = "act"
  /\ JobAction = "log"
  /\ job' = [job EXCEPT !.success = TRUE]
  /\ pc' = "record"
  /\ UNCHANGED <<logVars, tailVars, model, buffers, verdictVars, responses, hostVars,
                 requests, crashes>>

\* Mutation: both actions of the redirect band ask for a decoy.
SpawnDecoyTwice ==
  /\ pc = "act"
  /\ JobAction \in {"slow", "redirect"}
  /\ \E built \in BOOLEAN :
       decoys' = IF built THEN [decoys EXCEPT ![JobIp] = @ + 1] ELSE decoys
  /\ pc' = "redirect"
  /\ UNCHANGED <<logVars, tailVars, model, buffers, job, verdictVars, responses,
                 effects, removed, requests, crashes>>

\* _do for the redirect action first asks the deception engine for a deeper
\* honeypot; an exception there is swallowed and nothing is registered.
SpawnDecoy ==
  /\ pc = "act"
  /\ JobAction = "redirect"
  /\ \E built \in BOOLEAN :
       decoys' = IF built THEN [decoys EXCEPT ![JobIp] = @ + 1] ELSE decoys
  /\ pc' = "redirect"
  /\ UNCHANGED <<logVars, tailVars, model, buffers, job, verdictVars, responses,
                 effects, removed, requests, crashes>>

\* slow, isolate, block, and redirect once its decoy has been asked for: one
\* iptables -I, which inserts a rule whether or not the same one is there.
RunFirewall ==
  /\ \/ pc = "act" /\ JobAction \in FirewallActions \ {"redirect"}
     \/ pc = "redirect"
  /\ \E result \in RunnerResults :
       Returned(result)
  /\ UNCHANGED decoys

\* AlertManager.notify: where a rule matches, the channels are tried, and a
\* notice goes out if there is one and it does not raise; the outcome is a
\* success all the same.
Notify ==
  /\ pc = "act"
  /\ JobAction = "alert"
  /\ \E sent \in BOOLEAN :
       /\ sent => matches(JobScore)
       /\ Returned([applied |-> sent, success |-> TRUE])
  /\ UNCHANGED decoys

ForensicCapture ==
  /\ pc = "act"
  /\ JobAction = "forensic_capture"
  /\ \E result \in (IF Enforce THEN SpawnResults ELSE Recorded) :
       Returned(result)
  /\ UNCHANGED decoys

\* Mutation: off by one at the end of the list.
MoreActionsPastEnd == job.step <= Len(decide(JobScore))
MoreActions == job.step < Len(decide(JobScore))

\* _record, then the next action of the list or the next line of the log.
Record ==
  /\ pc = "record"
  /\ write_response(JobIp, JobAction, job.success)
  /\ IF MoreActions
     THEN /\ pc' = "act"
          /\ job' = [job EXCEPT !.step = @ + 1]
     ELSE /\ pc' = "tail"
          /\ job' = Idle
  /\ UNCHANGED <<logVars, tailVars, model, buffers, verdictVars, hostVars, requests,
                 crashes>>

\* Any exception of the loop, a kill or a power-off: the job and the buffers
\* are gone; tables, firewall and decoys stay.
Crash ==
  /\ pc # "down"
  /\ crashes < MaxCrashes
  /\ crashes' = crashes + 1
  /\ pc' = "down"
  /\ end' = 0
  /\ pos' = 0
  /\ half' = FALSE
  /\ job' = Idle
  /\ buffers' = [s \in Sessions |-> {}]
  /\ UNCHANGED <<logVars, model, lost, verdictVars, responses, hostVars, requests>>
-----------------------------------------------------------------------------
(* The portal and the operator, on the same firewall and table. *)

\* POST /api/response/block: the portal's own actuator, always a real runner.
ApiBlock(q, ip) ==
  /\ requests[q].status = "unused"
  /\ \E result \in IptablesResults :
       /\ requests' = [requests EXCEPT ![q] =
            [status |-> "blocked", ip |-> ip, success |-> result.success]]
       /\ effects' = IF result.applied
                     THEN [effects EXCEPT ![ip]["block"] = @ + 1]
                     ELSE effects
  /\ UNCHANGED <<logVars, tailVars, model, pc, buffers, job, verdictVars, responses,
                 removed, decoys, crashes>>

\* The handler's _record, with score 100 and band "block".
ApiRecord(q) ==
  /\ requests[q].status = "blocked"
  /\ write_response(requests[q].ip, "block", requests[q].success)
  /\ requests' = [requests EXCEPT ![q].status = "recorded"]
  /\ UNCHANGED <<logVars, tailVars, model, pc, buffers, job, verdictVars, hostVars,
                 crashes>>

\* ResponseActuator.unblock, or the command line the operator manual gives:
\* iptables -D takes out one matching rule and fails when there is none.
Unblock(ip) ==
  /\ effects[ip]["block"] > 0
  /\ effects' = [effects EXCEPT ![ip]["block"] = @ - 1]
  /\ removed' = [removed EXCEPT ![ip] = @ + 1]
  /\ UNCHANGED <<logVars, tailVars, model, pc, buffers, job, verdictVars, responses,
                 decoys, requests, crashes>>
-----------------------------------------------------------------------------
Honeypot ==
  \/ \E s \in Sessions : LogData(s) \/ LogClose(s)
  \/ LogRest
  \/ Rotate

\* The daemon's own progress, without its starts and its deaths.
Daemon ==
  \/ ReadPart \/ ReadRest \/ ReadData \/ ReadClose \/ Persist
  \/ LogOnly \/ SpawnDecoy \/ RunFirewall \/ Notify \/ ForensicCapture
  \/ Record

Portal ==
  \E q \in Requests : ApiRecord(q) \/ \E ip \in Attackers : ApiBlock(q, ip)

Next ==
  \/ Honeypot
  \/ Start
  \/ Daemon
  \/ Crash
  \/ Portal
  \/ \E ip \in Attackers : Unblock(ip)

Spec == Init /\ [][Next]_vars

\* A running daemon keeps running: its loop waits on nothing but the log, and
\* every command and every alert channel it calls has a timeout.
FairSpec == Spec /\ WF_vars(Daemon)
-----------------------------------------------------------------------------
(* Properties. *)

Request == [status : {"unused"}] \cup
           [status : {"blocked", "recorded"}, ip : Attackers, success : BOOLEAN]

PCs == {"down", "tail", "persist", "act", "redirect", "record"}

\* Every variable holds what the code can put there; in particular a job is
\* in hand exactly between a close line and the last row of its response, and
\* its step is always one the response policy has for its score.
TypeOK ==
  /\ log \in Seq(Line)
  /\ torn \in BOOLEAN
  /\ base \in 0 .. Len(log)
  /\ torn => base < Len(log)
  /\ written \in [Sessions -> EventNrs \cup {0}]
  /\ closed \subseteq Sessions
  /\ pc \in PCs
  /\ model \in Models
  /\ end \in 0 .. Len(log)
  /\ pos \in 0 .. Len(log)
  /\ half \in BOOLEAN
  /\ buffers \in [Sessions -> SUBSET EventNrs]
  /\ IF pc \in {"down", "tail"} THEN job = Idle
     ELSE job \in Job /\ job.step <= Len(decide(JobScore))
  /\ pc = "redirect" => JobAction = "redirect"
  /\ lost \in [Sessions -> SUBSET (EventNrs \cup {0})]
  /\ answered \in [Sessions -> Nat]
  /\ called \in [Attackers -> [Actions -> Nat]]
  /\ session_analysis \in [Sessions -> {NoVerdict} \cup Verdict]
  /\ responses \in [Attackers -> [Actions -> [{0, 1} -> Nat]]]
  /\ effects \in [Attackers -> [HostActions -> Nat]]
  /\ removed \in [Attackers -> Nat]
  /\ decoys \in [Attackers -> Nat]
  /\ requests \in [Requests -> Request]
  /\ crashes \in 0 .. MaxCrashes

\* Rows of the responses table for one action on one attacker.
Rows(a, ip) == responses[ip][a][1] + responses[ip][a][0]

\* Times an action took effect on the host.
Effected(a, ip) == effects[ip][a] + (IF a = "block" THEN removed[ip] ELSE 0)

\* The daemon's outcome of this action has not reached the table yet.
Awaiting(a, ip) == pc = "record" /\ JobAction = a /\ JobIp = ip

\* Manual blocks of an attacker whose outcome has not reached the table yet.
Blocked(ip) == {q \in Requests : requests[q].status = "blocked" /\ requests[q].ip = ip}

\* "The outcome is reported truthfully" (response/actions.py:12-13), for the
\* firewall: per action and attacker there are never more rows that report
\* success than rules that were inserted.  Of alerts and captures it is not
\* true: their rows report success whatever came of them.
OutcomesAreTruthful ==
  \A a \in FirewallActions, ip \in Attackers : responses[ip][a][1] <= Effected(a, ip)

\* What happened to the host is in the responses table, as a success or a
\* failure: per action and attacker all that can be missing is one outcome for
\* each death of the daemon, the one it is about to write, and those of manual
\* blocks the portal has not written yet.
EffectsAreRecorded ==
  \A a \in HostActions, ip \in Attackers :
    Effected(a, ip) <= Rows(a, ip) + crashes + Count(Awaiting(a, ip))
                         + (IF a = "block" THEN Cardinality(Blocked(ip)) ELSE 0)

\* A verdict is computed from its own session's events and from all of them,
\* but for those that this or an earlier run of the daemon began after, or
\* read in pieces: the other lines between them, of this session and of
\* others, cost it nothing.
VerdictsAreWhole ==
  \A s \in Sessions :
    session_analysis[s] # NoVerdict =>
      /\ session_analysis[s].evidence \subseteq 1 .. written[s]
      /\ (1 .. written[s]) \ lost[s] \subseteq session_analysis[s].evidence

\* One run of the daemon answers a session at most once; without replay no
\* session is answered twice, however often the daemon dies.
AnsweredOncePerRun ==
  \A s \in Sessions : answered[s] <= IF FromStart THEN crashes + 1 ELSE 1

ManualRequests(ip) == {q \in Requests : requests[q].status # "unused" /\ requests[q].ip = ip}
ManuallyBlocked(ip) == ManualRequests(ip) # {}

\* Times the action was asked for: by verdicts, each as it was when it was
\* stored, or by hand.
AskedFor(a, ip) ==
  called[ip][a] + (IF a = "block" THEN Cardinality(ManualRequests(ip)) ELSE 0)

\* A session of this attacker has a stored verdict that calls for this action.
Justified(a, ip) ==
  \E s \in Sessions :
    /\ IpOf[s] = ip
    /\ session_analysis[s] # NoVerdict
    /\ a \in Called(session_analysis[s].score)

\* No verdict of this attacker was replaced by that of a replay, which another
\* classifier, or a line read in pieces, may let come out otherwise.
NoneReplaced(ip) == \A s \in Sessions : IpOf[s] = ip => answered[s] <= 1

\* Nothing is done to an attacker, and nothing is reported done, more often
\* than verdicts of theirs (or manual requests) called for it: the verdict is
\* stored first, and each one is carried out at most once, whatever the daemon
\* dies of and however often it is started.  Unless a replay has replaced one,
\* the verdict is still there to see.
ActionsAreJustified ==
  \A a \in HostActions, ip \in Attackers :
    /\ Effected(a, ip) <= AskedFor(a, ip)
    /\ Rows(a, ip) <= AskedFor(a, ip)
    /\ NoneReplaced(ip) /\ (Effected(a, ip) > 0 \/ Rows(a, ip) > 0) =>
         Justified(a, ip) \/ (a = "block" /\ ManuallyBlocked(ip))

\* Without RESPONDER_ENFORCE the daemon never touches the firewall and starts
\* no capture; whatever rule is there, a manual request put there.
ObserveIsPassive ==
  ~Enforce =>
    \A a \in HostActions \ {"alert"}, ip \in Attackers :
      Effected(a, ip) > 0 => a = "block" /\ ManuallyBlocked(ip)

\* The rows of one response are written in the order of decide(), and all of
\* them are unless the daemon dies: per attacker no later action of a band has
\* more rows than an earlier one, nor fewer by more than the deaths and the
\* response in hand account for.
RowsFollowThePlan ==
  \A ip \in Attackers :
    /\ Rows("redirect", ip) <= Rows("slow", ip)
    /\ Rows("slow", ip) <= Rows("redirect", ip) + crashes + Count(pc # "tail")
    /\ Rows("isolate", ip) + Rows("block", ip) >= Rows("alert", ip)
    /\ Rows("isolate", ip)
         <= Rows("alert", ip) + crashes + Count(pc # "tail")
    /\ Rows("forensic_capture", ip) <= Rows("alert", ip)

\* Every deeper honeypot generated belongs to a redirect that was recorded, is
\* being carried out, or was cut short by a death of the daemon.
DecoysAreExplained ==
  \A ip \in Attackers :
    decoys[ip] <= Rows("redirect", ip) + crashes
                    + Count(/\ pc \in {"redirect", "record"}
                            /\ JobAction = "redirect" /\ JobIp = ip)

\* A close line that the running daemon has not read yet, in the file it has
\* open; and one it has read the first part of.
CloseAhead(s) ==
  \E i \in pos + 1 .. Len(log) :
    (end = 0 \/ i <= end) /\ log[i] = [session |-> s, nr |-> 0]
TornClose(s) ==
  half /\ pos < Len(log) /\ log[pos + 1] = [session |-> s, nr |-> 0]

\* While the daemon lives, every session that closes in the file it has open
\* gets its verdict and its whole response, unless the close line itself is
\* read in pieces: then the session is never answered.
EveryCloseIsAnswered ==
  \A s \in Sessions :
    (pc # "down" /\ CloseAhead(s))
      ~> \/ pc = "down"
         \/ TornClose(s)
         \/ session_analysis[s] # NoVerdict /\ pc = "tail"

\* "Unblock (host): iptables -D INPUT -s 1.2.3.4 -j DROP"
\* (docs/operator-manual.md:35): after it the attacker is not blocked.
UnblockUnblocks ==
  [][\A ip \in Attackers : Unblock(ip) => effects'[ip]["block"] = 0]_vars
=============================================================================
