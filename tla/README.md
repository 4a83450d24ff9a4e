# NeuroTrap in TLA+

A model of NeuroTrap (CADN): a honeypot platform that watches attackers, scores
their sessions, responds (firewall rules, alerts, captures, decoys) and shows
what it sees on a live dashboard. The modules here are translated from the
Python and JavaScript under `src/`; TLC checks them on small instances and TLAPS
proves the most important properties for every value of the constants.

## 1. The system

| Component | Source | State | Operations | Talks to |
|---|---|---|---|---|
| Responder daemon | `response/run_responder.py`, `pipeline/collectors/cowrie_collector.py` | position in the log, a buffer per open session | tail, buffer, on close: analyse and respond | Cowrie's log, behaviour engine, response engine |
| Behaviour engine | `behavior/` | profiles in memory | parse sessions, intent, TTPs, score, band, upsert the verdict | event store |
| Profiler | `behavior/profiler.py` | profile per source, campaign labels | update, cluster, stamp | behaviour engine, event store |
| Response engine, actuator | `response/engine.py`, `response/actions.py` | none; acts on iptables, tcpdump | decide, act, record | host, event store, alerting, deception |
| Alerting | `response/alerting.py` | configuration | match rules, send to channels | SMTP, Slack, Telegram |
| Deception engine, lifecycle | `deception/` | registry of environments (in memory), containers, directories | generate, health, close, teardown, tick | Docker, file system |
| Packet monitor, detectors | `detection/` | a deque and a last alert per source | observe a packet | standard output only |
| Log pipeline | `pipeline/run_pipeline.py`, `pipeline/collectors/`, `pipeline/normalizer.py` | a thread and a position per log, one shared connection | tail, normalise, insert | logs, event store |
| Event store | `pipeline/db.py` | tables events, session_analysis, profiles, responses | insert, upsert, query | everything |
| Portal | `api/app.py`, `api/auth.py` | none | login, queries, manual block | event store, actuator |
| Live feed | `api/live.py` | clients, last id seen | register, poll, broadcast, unregister | event store, WebSockets |
| Dashboard | `dashboard/static/app.js` | token, table on screen, WebSocket, polling position | login, load, feed, poll, reload | portal |

The pipeline, the responder and the portal are three processes. They share the
event store, and the responder and the portal share the host's firewall; nothing
else coordinates them. What is hard here:

- the daemon can die between any two steps of a response, and what it did to the
  host stays; started again it either skips or replays the log;
- two processes and an operator insert and delete rules for the same attacker;
- a command may change the host and be reported as failed;
- the feed works on a snapshot of its clients while handlers change the set, and a
  send waits for as long as its peer does;
- an environment is a registry entry, files and containers, and any part of its
  deployment or teardown may fail in silence;
- thresholds and windows meet exactly at their boundaries;
- six threads write over one sqlite connection without a lock, and Python's sqlite3 issues
  BEGIN and COMMIT after looking at a state that another thread can change meanwhile;
- a log line may be read while it is written, and its file renamed under the reader;
- the dashboard has three ways to a row (first load, feed, polls), whose answers
  overlap, overtake each other and leave gaps between them.

`PROJECT.json` lists every such hazard with its line and the property that would
catch it, or the reason why none does yet.

What makes each component correct: the responder does only what a stored verdict
calls for, does all of it, once per run, and leaves a row for it, which for the firewall
says what came of it; a verdict is computed from all of the session that was read whole; the feed is a live tail of the store for each
client independently; an environment in use is not taken away, one that is over
is, and what containers it leaves on the host has a cause the code was told of; a detector reports exactly what its
window contains, once per window; a row of the pipeline is a line of its log, once and in
order, and one thread's failure costs the others nothing; the dashboard shows what came to
it, and each of its ways shows a row once.

## 2. Modules

| Module | What it is |
|---|---|
| `ResponsePolicy` | `decide()` and the default alert rule, without state |
| `Responder` | the daemon, its tables, the host, the portal's manual block, the operator's unblock, deaths and restarts |
| `ResponderProofs` | theorems about `Responder`: rows, effects, decoys, verdicts and what they justify |
| `LiveTail` | what a live feed promises: each connection gets the rows after some point, in order, once each |
| `LiveFeed` | `api/live.py` with the WebSocket handlers and the pipeline's inserts; implements `LiveTail` |
| `LiveFeedProofs` | theorems about `LiveFeed`, the refinement among them and what follows from it |
| `Lifecycle` | deception environments: registry, fake servers, Docker, files, time |
| `LifecycleProofs` | theorems about `Lifecycle` |
| `Detectors` | port scan, brute force and tool fingerprint behind `handle()` |
| `DetectorsProofs` | theorems about `Detectors` |
| `Scoring` | intent, techniques, score and bands of a session, without state |
| `Behavior` | the behaviour engine and its profiler: analyses, batches, the tables `session_analysis` and `profiles` |
| `BehaviorProofs` | theorems about `Scoring` and `Behavior`: scores and verdicts, profiles, their rows and campaigns |
| `Normalizer` | what one log line becomes, without state |
| `Pipeline` | collector threads, `tail_json`, `EventStore.write` on the shared connection, sensors that write and rotate |
| `PipelineProofs` | theorems about `Pipeline` |
| `Dashboard` | the event table of a browser tab, over REST and a `LiveTail` |
| `DashboardProofs` | theorems about `Dashboard` |
| `Sums` | lemmas: what a fold that adds up weights is, used for the counts of `Detectors` and the votes of `Behavior` |
| `MCResponder`, `MCLiveFeed`, `MCLifecycle`, `MCDetectors`, `MCBehavior`, `MCPipeline`, `MCDashboard` | constants for TLC |

`Dashboard` stands on the specification the live feed implements (`LiveTail`), not on the feed
itself: `LiveFeed` shows that the portal keeps the promise on sqlite, `Dashboard` what the page
makes of it. `Responder` and `Behavior` use the pure modules `ResponsePolicy` and `Scoring`,
`Pipeline` uses `Normalizer`.

### Responder

One action per step at which the process can be interrupted with something
different on the host or in the tables. `Start` is `main()` up to the loop with
`tail_json`'s open and seek; `ReadData` and `ReadClose` are the two ways through
the loop for a line that is read whole, `ReadPart` and `ReadRest` for one that is not; `Persist` is the end of `analyze_session`; `LogOnly`,
`SpawnDecoy`, `RunFirewall`, `Notify` and `ForensicCapture` are the branches of
`_do`; `Record` is `_record` and the loop of `respond()`. `Crash` can follow any of
them. `ApiBlock`, `ApiRecord` are the two halves of the portal's handler, `Unblock`
the operator's `iptables -D`.

- `log` is Cowrie's file: per session data events numbered from 1, then the close
  event (number 0). Which of a session's events the behaviour engine saw is its
  *evidence*; the score is a function of it and of the classifier the process found when it
  started (`ScoreOf`, `Models`, `IntentClassifier.load`), so a replayed session may score otherwise
  than before. A verdict in `session_analysis` is its evidence and its score. The content of
  events is left out, and so are events without session and address, which the loop skips.
- The tail is the one of `Pipeline`: a line may be there only in part (`torn`), and what
  `readline()` returns of it does not parse, nor does the rest, so a data event is missing from its
  session's verdict and a session whose close line is torn is never answered. The log may be
  renamed (`Rotate`): the daemon reads the old file to its `end` and never opens the new one.
- `responses` counts rows by attacker, action and success; score, band and wording
  of a row follow from the action or are not read again.
- `effects` is the host: rules present, notices given, captures started. A command's
  result has two sides, whether it took effect and whether it reports success.
  `CommandRunner.run` may give up after its timeout on a command that did take
  effect; it never reports success without effect. `RecordingRunner` always does,
  `CommandRunner.spawn` may (tcpdump starts and exits at once), and so may an alert, whose row reports
  success whether channels sent it, failed, or were not configured.
- `lost`, `answered`, `called`, `removed` and `crashes` are history for the properties.
- The decoy of a redirect is one step here; `Lifecycle` has what happens inside it.

### LiveFeed and LiveTail

The thread's steps are those between which a handler can run: `Poll` (fetch),
`TakeRow` (advance the position, take the snapshot), one `Send` per client of the
snapshot, `Reap`, `Sleep`. A handler's two operations are `register` and
`unregister`; a peer may stall, resume or leave at any time; `Restart` is a new
portal process. Rows are numbered by their ids. A stalled peer blocks `Send`,
because `ws.send` has no timeout. An exception inside `_tick` before the first row
is swallowed and polled again, which changes nothing.

`Cursor` is the refinement mapping: a connection is served up to `_last_id`, or to
the row before it while the current row is still to be sent to it.

### Lifecycle

`generate_environment` builds files, starts the servers one by one and registers;
it is one step, in which Docker may refuse any start, create the container
and not run it, or run it and answer too late: `containers.run` raises in all three cases and the
id stays unknown (`StartOutcomes`). If the process dies in the middle, the host looks as it does after the
step in which all later calls failed, followed by `Crash`, so nothing is lost by
taking it whole; the same holds for `teardown` and `tick`. `remaining` is the
time to live that is left, in clock steps; a `tick` of the code reads the clock
itself (no caller passes `now`). `Managed` says whether somebody calls `tick`,
`teardown` and `mark_session_closed`: in the repository only tests do. An id is free
again when the host has nothing of it left, so `Envs` bounds how many environments
exist at a time and not how many there ever are. `raised` and `refused` are history.

### Detectors

A stored time is represented by its age, and all ages past every window by one
value, so that the clock needs no bound; the time 0 the code uses for "never" is
such an age. `sighted` and `attempts` record what a source really sent. The flag test
of `anomaly.py` has no state and is left out, as are the signatures
`identify_tool` looks for. Time does not step backwards here.

### Scoring and Behavior

`Scoring` is `heuristic_intent`, the technique rules and their weights,
`score_session` and the band functions. A command line is the set of techniques whose rule it
matches and of marks the other tests find in it; the regular expressions themselves
are left out. Decimals are integers (a composite score counts
millionths), and rounding may go either way at a half, because the code sums floats.

`Behavior` composes them: `analyze_session` is one analysis (predict, extract, score,
update the profile, upsert the verdict), `analyze_sessions` begins a batch,
`cluster_campaigns` ends it, and `upsert_profile` writes one row. The writes are
separate steps because the process can die between them; within an analysis only one
thing outlives the process, so it is one step. `Crash` also stands for an ordinary
end: the next process has no profiles, no session vectors, and finds again whether there
is scikit-learn and a trained model (`learning`, `IntentClassifier.load`).

- A trained model answers anything in `ModelAnswers`; DBSCAN any labelling in which a campaign
  has at least `min_samples` sessions (`Clustered`). Without scikit-learn `_fallback_cluster` takes
  sessions out of campaigns it has formed already: every campaign keeps the session that started it, and only the
  last is sure to have `min_samples` (`Taken`). The optional fuzzy pass, which no program enables, is
  left out.
- What a session contains when it is analysed is chosen from `ContentsOf`: the same session can be
  analysed twice, with more of it the second time.
- `labels`, `analysed` and `stored` are history for the properties.
- Only a batch stores profiles. The responder calls `analyze_session` alone, so in the
  program as it runs the table `profiles`, which the dashboard reads, is filled by whatever
  script or operator runs batches; `Responder` and `Behavior` share `session_analysis` in the
  code and are composed only through the score: `Responder` takes any score per classifier,
  session and evidence.

### Normalizer and Pipeline

A log line is reduced to what the code tells apart in it: whether it is JSON and an
object, whether its address, time and other validated fields are there and valid (a time that is a
number out of `datetime`'s range raises in `_ts_to_iso`, where any other invalid one is replaced), which event
it is, and which tool its banner or user agent gives away. `Outcome` is what `normalize`,
`write` and `AlertEvent`'s validators make of it: nothing, an exception, or an event.

- A thread waits for its file (`Open`), reads a whole line (`Read`) or the part of one that is
  there (`ReadPart`), and writes the event. `readline()` on half a line returns the half, which does
  not parse; so the rest does not either, and the event is passed over. A line is in two pieces at
  most; of three, a middle one that is itself a JSON value would end the thread at `.get`, which the
  line of form "other" stands for. `log` numbers every
  line ever written; a rotated file ends at `end`, and the thread that has it open never
  opens the new one.
- `EventStore.write` is a sequence of steps, because sqlite3 releases the interpreter lock inside:
  `Execute` looks whether a transaction is open, `Begin` issues BEGIN, `Insert` the INSERT (which
  commits itself if another thread has committed the transaction), `Commit` looks again,
  `Committing` issues COMMIT. A BEGIN inside a transaction fails: the thread dies with
  "cannot start a transaction within a transaction", or, if another thread's success overwrites the
  error before it is read, `execute()` returns without having inserted. A COMMIT without a
  transaction kills the thread with "cannot commit - no transaction is active". This is how
  CPython's module behaves under threads (`check_same_thread=False`), 3.11 as the CI uses among
  them, not what its documentation promises; the sharing of cached statements between threads
  depends on the version.
- `InsertLocked`, `CommitLocked`: another process (portal, responder) holds the database beyond
  the connection's timeout.
- `Exit` is a death of the process, or its end when no thread is left to join. `Start` reads from the
  start of the files or from their end (`PIPELINE_FROM_START`).
- `begun`, `missed`, `overlap` and `cause` are history.

### Dashboard

One tab: `login` and `Reload` start a page, which sends its first three requests together
(`start`), connects when all are there, and polls once its WebSocket has closed. Any request may
fail, be refused, be answered late or out of order; a refused one ends in the login form. A page
whose first requests fail is stuck, with no feed and no timer: `page = "stuck"`.

- A request is answered from the rows there are at that moment (`answer`) and arrives later.
- `shown` lists, per path, the ids put into the table: what an answer adds is a range of ids,
  because ids are handed out in order; a poll's answer adds what is above `lastPollId`. Shown means
  added: the page drops what is beyond 80 entries at the end of the table (`app.js:134`).
- Each page has a connection of its own in `LiveTail`; what it received and has not handled is
  lost when it closes.
- Map, timeline, gauge, cards and the limit of 80 entries are drawing and left out.
  `loaded` and `joined` are history.

## 3. What the runs check

| Run | Instance | Question | Result |
|---|---|---|---|
| `responder_enforce` | enforcing, replay, 2 attackers of 1 session each, sessions of 1 event, 3 lines of which the first may be torn, 2 classifiers, 1 manual block, 1 death; 2,143,059 states | do rules and rows add up when daemon, portal and operator work on them, is everything done called for by a verdict, and does it follow the plan? | holds |
| `responder_observe` | observing, no replay, 1 attacker of 2 sessions of 2 events, 4 lines of which two may be torn, 1 rotation, 2 classifiers, 1 manual block, 1 death, fairness; 918,038 states | is observe mode passive, is a verdict made of all that was read whole, and is every close answered, once? | holds |
| `responder_unblock` | enforcing | does the documented unblock unblock? | no |
| `livefeed_sqlite` | 2 connections, 3 rows, pages of 2, 1 restart, fairness; 111,000 states | is the feed a live tail? | holds |
| `livefeed_mongo` | the same with MongoDB | is a row sent once? | no |
| `lifecycle_managed` | 2 environments, 2 services, 2 templates sharing a port, fairness; 518,300 states | are environments reaped without touching others, and is what is left of them explained? | holds |
| `lifecycle_shipped` | the same, nobody manages the registry | are environments reaped? | no |
| `detectors` | 2 sources, 2 ports, windows of 1 and 2 steps; 449,000 states | are the deques exact windows? | holds |
| `behavior_profiles` | 2 attackers, 3 sessions with 1 or 2 contents, 3 analyses, 1 death, with scikit-learn, a model, or neither; 483,016 states | do profiles, campaigns, scores and bands say what the analyses said? | holds |
| `behavior_peaks` | the same | is a stored peak kept? | no |
| `pipeline` | Cowrie with 2 lines and Zeek's HTTP log with 1, 2 runs of the process, fairness; 190,793 states | does each line end as it should whatever the other thread does to the connection? | holds |
| `dashboard` | pages of 2 rows, 2 polls in flight, 4 rows, 2 page loads, fairness; 182,396 states | does the table show what came to the page? | holds |

The properties:

- `OutcomesAreTruthful`: for the firewall, never more success rows for an action than rules it
  inserted. `EffectsAreRecorded`: never more effects than rows, but for one outcome per
  death and those in flight. Together they tie the table to the host in both directions.
- `RowsFollowThePlan`: the rows of a response appear in `decide()`'s order and
  completely, up to deaths. `AnsweredOncePerRun`: no session is answered twice
  without a replay. `ActionsAreJustified`: nothing is done or reported more often than stored verdicts
  (or requests) called for it, also after a death, and unless a replay has replaced one, the verdict is
  still there. `DecoysAreExplained`: every decoy has its redirect, or a death.
- `VerdictsAreWhole`: a verdict is computed from its own session's events and from all of them but those
  in `lost`, which some run began after or read in pieces, however sessions interleave.
- `ObserveIsPassive`; `EveryCloseIsAnswered` (liveness): a session that closes in the file the daemon has
  open gets its verdict and response, unless its close line is torn or the daemon dies.
- `NothingIsSkipped`, `IsALiveTail` (refinement), `EveryRowArrives` (liveness), which
  excepts the time in which some client stalls: one stalled client does hold up all others.
- `LeftoversAreExplained`: a container that teardown cannot remove is one whose start raised, and
  an environment that is torn down has a container only for that reason or because its removal was
  refused. `HealthyMeansStarted`, `TeardownIsContained`, `EveryEnvironmentIsReaped` (liveness).
- `AlertsAreExact`: an alert of the port scan and the brute force detector is recent if and
  only if what the source really sent deserved one. `Debounced`: once per window.
- `ProfilesSumUp`: a profile, accumulated one analysis at a time, is the summary of all of
  them (sessions, techniques, peak, winning intent, times). `StoredProfilesSumUp`: a
  row misses nothing its process analysed before its last whole batch, wherever the
  process is now. `CampaignsFollowSessions`: a stamp is a campaign of the attacker's own
  sessions, shared with another session if scikit-learn found it, noise only without any.
  `PeaksFallOnlyAnew`: a stored peak falls only where a process first writes the attacker's row.
- `ScoresStayLow`, `BandsAgree`: scores stay at or below 90, below the block band without a
  model, and the four copies of the thresholds agree on every stored verdict.
- `LinesAreAccountedFor`: the rows of a source are the event lines its thread has read, except
  those it read in halves or failed to write. `RowsKeepLogOrder`: once and in order, except for a
  replay. `OnlyUnfinishedIsUncommitted`: a death loses at most the write each thread has not
  finished. `LoneWritesSucceed`: a write that overlaps with no other is stored, whatever
  failed writes have left behind. `EveryLineIsStored` (liveness): a whole line is stored although
  other threads die. `ToolsAreGradedAlike`: the two copies of the tool grades agree.
- `EachPathShowsOnce`: each of load, feed and polls adds a row once and in order.
  `OnlyGapsAreMissed`: a live page shows all it was told of. `PollingCatchesUp`
  (liveness): a polling page comes to show every row, unless more than a poll's limit came at once.

**Bounds.** Two sessions are enough for buffers to be confused, and with a replay and a manual
block one attacker is acted on three times; two events make the whole of a session differ from a
part of it; one death separates two runs, and the properties are proved for any number of deaths. `MaxLines`, `MayTear` and
`MaxRotated` bound the responder's log: with four lines one session is whole and the other meets a torn data or close
line, or the end of a rotated file; the proofs have no use for these numbers. Two classifiers let a replay call for another band.
Three rows in pages of two take two polls; two connections suffice for one to disturb the other.
Two environments can conflict on a port and on a teardown. Three attempts and two
distinct ports pass the thresholds of the `detectors` run with entries on both sides of the
window. Three analyses are two of one session or attacker and one of another, in one batch, two or
none; the contents in `MCBehavior` include the highest score there is. The scores in `MCResponder`
call for every band between the responder runs. Two threads are what a race takes, and a second
line of one of them meets what the first has left; one rotation, one replay and lines that are
stored, passed over and raise are among three lines and two runs. With two polls in flight one
answer can overtake the other; four rows exceed the limits of load and poll by two. Deadlock
is not checked where a bound (events, rows, environment ids, analyses, lines, page loads) stops the
environment; `Detectors` has none such.

**Fairness.** `Responder`: the running daemon's steps, because its loop waits for
nothing but the log and every command and channel it calls has a timeout; not its
start, because nothing restarts it. `LiveFeed`: the thread's steps only; nothing is assumed of
peers, so a stalled peer may stay so.
`Lifecycle`: time passes, and `tick` is called periodically as
`deception/lifecycle.py:5-6` says; `lifecycle_shipped` takes exactly that caller away.
`Pipeline`: a thread that can go on does (it waits for its file and for the database lock, both with
a timeout or a sleep), and a sensor finishes a line it has begun; nothing starts the process.
`Dashboard`: the interval timer fires, answers and refusals arrive (weak fairness), and the portal does not fail a
request every time (strong fairness: each poll may fail, not all of them).

**Mutants.** Every property of a passing run has a mutant, an operator beside the
one it replaces (its comment starts with "Mutation"), that makes TLC find the property violated.

## 4. What the violations show

1. `responder_unblock`: `block` inserts a rule whether or not there is one, so after
   two blocks the unblock of `docs/operator-manual.md:35` leaves one.
2. `livefeed_mongo`: with MongoDB `get_events` ignores `since_id`
   (`pipeline/db.py:197-206`) and the feed repeats rows at every poll.
3. `lifecycle_shipped`: nothing calls `tick()`, so no environment is ever torn
   down.
4. `behavior_peaks`: `upsert_profile` replaces the stored row by a profile that knows this
   process's sessions only (`pipeline/db.py:148`, `behavior/engine.py:57`), so after a
   restart the "peak across sessions" of `behavior/profiler.py:35` can fall.

Remarks without a run of their own:

- The documents block above 90 and the code from 90 on. Since no score exceeds 90
  (`ScoresAtMost90`), the documented band would be empty and the code's is the single score
  90; without a trained model scores end at 80 (`HeuristicNeverBlocks`) and nothing is ever blocked.
- A row of an alert reports success whatever came of it: `response/engine.py:111` does not look at what
  `notify` returned, which is an error or "skipped" per channel, or nothing at all. A row of a capture reports success once
  tcpdump's process exists (`response/actions.py:122-123`), though it may exit at once. `OutcomesAreTruthful` is
  therefore stated of the firewall only, against `response/actions.py:12-13`, which says it of every action.
- A close line read in two pieces, or one in a log rotated while the daemon runs, is never answered, and what the daemon
  skips or reads in pieces is missing from verdicts: `lost` and `TornClose` say which.
- A container whose start raised after Docker had run it is out of reach for ever: no teardown finds it, and
  its host port stays taken.
- In observe mode, the default, the responses table reports rules and captures that do not exist as
  successes (`response/actions.py:55`; the promise is at `response/actions.py:12-13`), which is why
  `OutcomesAreTruthful` is stated for enforcement.
- A write of the pipeline can return without a row: `begin`'s error is overwritten, and
  `pipeline/run_pipeline.py:41` prints the event as stored. That every written row is stored is
  therefore not among the properties; `missed` says which are not, and `LoneWritesSucceed`
  that it takes a second thread. The same races kill threads for good.
- A page never shows rows inserted between its first load and its feed's connection, nor more than
  20 rows between two polls; its first poll shows rows a second time that load or feed have shown. With
  MongoDB, which `docs/operator-manual.md:50-51` offers, rows have no id and polling shows
  none. A first request that fails leaves the page without feed and timers until it is reloaded.

## 5. What is proved

All proofs are checked by TLAPS to the last leaf, from the named assumptions on the
constants (`ResponderConstants`, `FeedConstants`, `LifecycleConstants`, `DetectorConstants`,
`BehaviorConstants`, `ProfileConstants`, `PipelineConstants`, `DashboardConstants`) only; they hold for any number of
sessions, attackers, deaths, connections, rows, environments, packets, analyses, threads, lines, pages and polls. Every
safety invariant and action property of a passing run is stated by a theorem. Where a theorem needs more than
the assumptions (`Backend = "sqlite"`, `Enforce`, `InOrder`), its statement says so. Each module's
`TypeCorrect` comes first; it carries the conditions that tie the control state to the data (a job
is in hand exactly when `pc` says so, rows wait only in an open transaction).

**Responder** (all of its safety properties).

- `AllEffectsAreRecorded`: inductive with the types. Per attacker and action the difference
  between effects and rows changes by one when an action returns, back when its row is written, and
  moves to `crashes` when the daemon dies; `Accounted`, `AccountFrame` and `AccountReturned` state
  those movements once, for the daemon and for manual requests.
- `AllRowsFollowThePlan` by `PlanInv`: between two rows of a plan the difference is the number of
  deaths and the response in hand, if it is between the two. `AllDecoysAreExplained` likewise.
- `EnforcedOutcomesAreTruthful` assumes `Enforce` (see the remarks above). `TruthInv`
  counts, beside the rows, the success in flight of the daemon and the successful requests not
  yet recorded; a firewall rule an operator removes stays counted in `removed`.
- `ObserveModeIsPassive`: the host is only changed by a runner that runs.
- `AllVerdictsAreWhole`: `LogInv` describes the log (a session's data events are all there before its
  close, which comes last) and `WholeInv` what a buffer holds of it, namely the session's events
  up to the position but those in `lost`, as long as its close is not read, and that a line read in part is lost.
  `WholeStart`, `WholePart`, `WholeRest` and `WholeRead` are the steps of the tail.
- `SessionsAreAnsweredOncePerRun`: `AnswerInv` says that a session whose close is still ahead and will be
  read whole (`ToAnswer`) has no answers but those of earlier runs, and those only with a replay.
- `AllActionsAreJustified`: `JustInv` adds what the response in hand is still going to do and to report
  (`Undone`, `Unreported`) to what was done and reported; the sum stays within what was asked for (`Bounded`): storing
  a verdict adds to both sides (`JustPersist`), an action and its row move along the left side (`PlanSplits`), a death
  takes from it. `Standing` is the second half: a verdict that was not replaced is still there.

**LiveFeed**, on sqlite: neither property is inductive alone. `FeedInv` adds that the batch in hand
continues the position without a gap, that connected clients are registered, and that each of them
has been served up to its cursor. The step simulation then maps `Send` to `Deliver` or a stutter,
and `TakeRow` to the empty step for every client outside the snapshot (`FeedIsALiveTail`). `NoRowIsSentTwice` then follows from the promise: `OnlyAhead`, that rows
were sent in the order of their ids up to the cursor, is kept by every step of `LiveTail` (`TailGoesAhead`), and no
step of the feed has to be looked at again. It is the sqlite side of what `livefeed_mongo` refutes.

**Lifecycle**: `RegistryInv` says of each server of a registered environment that its container has a
known id or its start raised, that after a teardown the start raised or the removal was refused, and that "running" in
the registry means started in Docker; with the types it is inductive and gives `LeftoversStayExplained` and `HealthIsEarned`.
`TeardownStaysContained` is an action property from the types.

**Pipeline** (all of its safety properties).

- `UncommittedIsUnfinished`: an uncommitted row belongs to the write its thread is in (or died
  in), so a thread has one at most.
- `LoneWritesAreStored`: `LoneInv` says where the row in hand is at each step of a write without
  overlap; that no other thread writes means nobody commits or begins in between.
- `ReadLinesAreStored`: `AccountInv` adds to the property that rows of a run come from lines its
  thread has read, so that a new row is nobody else's.
- `RowsAreInLogOrder`: `OrderInv` adds that a thread that reads is through with the line of every row,
  of this run or an earlier one, unless there was a replay since, and that nobody writes a torn line.

**Dashboard** (all of its safety properties), by `TableInv`: between two pages nothing is left of the first
(`PageInv`), the feed's messages continue after `joined` without a gap (`FeedInv`), and the list of the
polls is increasing, ends at `lastPollId` and holds the whole window before it (`WindowInv`);
`PollContinues` is the lemma that an answer, late or not, continues that list.

**Scoring and Behavior**: `ScoresAtMost90` and `HeuristicNeverBlocks` bound the parts of a score one
by one: the technique table is finite, so the strongest weight (0.85) exists and the breadth is a
number; risk of intent, techniques and behaviour are then at most 0.85 (0.6 by the rules), 0.895
and 1. `ScoreInv` says that every analysis and verdict was made from such a score; it is inductive
and gives `ScoresAlwaysLow` and `BandsAlwaysAgree`.

**Detectors** (all of its properties), for any windows, thresholds, sources, ports and lengths of the deques.

- `TypeCorrect`: the type invariant is inductive only with the order of arrival in the port scan's deque too
  (`TypesInv`). Where the oldest come first, `popleft()` drops what is out of the window and nothing else
  (`EvictDrops`); `SeenWithIs` and `HitsWithIs` say what a deque holds once a packet is in.
- `AlertsAreDebounced`: only a due alert makes an age smaller; the clock makes none smaller (`OlderIs`).
- `AlertsAreAlwaysExact` compares two records of what a source did, the deque and the history. `ScanInv`: no entry
  is younger than the last packet to its port, and that packet is there while it is in the window (`Mirrors`), so the
  distinct ports of a freshly evicted deque are those really sighted. `BruteInv`: of every age in the window the deque
  holds as many entries as there were attempts. The property's sum over the ages is then the length of the
  evicted deque (`CountByAge`, `AttemptsInIs`).

**Sums.** A fold over a set that adds up weights is the cardinality of a set: each element as often as it
weighs (`Units`, `FoldIsUnits`). The usual induction over finite sets cannot be cited here, so the proof takes a
smallest subset on which the two differ; strict inclusion is well-founded on the subsets of a finite set.

**Profiles** (in `BehaviorProofs`), from `BehaviorConstants` and `ProfileConstants` (the mark of a missing
profile is not a profile):

- `TypeCorrect` is about the votes above all: one more vote keeps the list well formed with one entry per
  intent, and keeps a first entry among those with the most votes (`TopOfLonger`, `TopOfGrown`,
  `VotedType`), so that `Winner` is an intent (`WinnerIsIntent`). `KnownInv` adds that every profile in
  memory has such an entry and that a batch without sessions left has a known attacker.
- `StoredProfilesCover` by `CoverInv`: profiles in memory cover all analyses of the process; rows
  cover those up to the last whole batch and, when the current batch has written them, all. The property
  alone is not inductive: the last row of a batch moves `stored` for every attacker.
- `CampaignsAreSessions` by `ClusterInv`: an attacker is known exactly by its clustered
  sessions, and those are finitely many. `StampFollows` says what `_stamp` can choose for it: a
  label other than noise is counted at least once among its own sessions, and a campaign of DBSCAN has at least `min_samples`.
- `ProfilesAlwaysSumUp` by `SumInv`: every profile in memory is the summary of its attacker's analyses (`Summarised`):
  the same sessions and techniques, the largest score (`PeakOf`), the earliest start (`FirstOf`), and one vote
  entry per intent whose weight is the sum of the votes for that intent (`Tallied`, with `Sums`). `SummaryAfter` is the
  step: one analysis more in the history and one update of the profile agree, part by part (`PeakAfter`, `FirstAfter`,
  `VotedTallies`). The theorem states all that a profile adds
  up (`ProfilesAreSums`) without a condition, and the whole property where no session of the log ends before it starts
  (`InOrder`), which its last part, `SeenInOrder`, needs: `parse_sessions` takes both times from the log and compares
  neither, and events without a session id are one session per address (`behavior/features.py:156-163`),
  so that a close of one connection can come before the connect of the next.
- `StoredPeaksFallOnlyAnew` is an action property, and the other half of what `behavior_peaks` shows: a stored peak falls only
  where a process writes the attacker's row for the first time, never later in the same process. `RowsBelow`: what this
  process has stored of an attacker is not above what it knows.

**Only model-checked.** The five liveness properties, `EveryCloseIsAnswered`, `EveryRowArrives`,
`EveryEnvironmentIsReaped`, `EveryLineIsStored` and `PollingCatchesUp`: they rest on fairness, which is defined by
`ENABLED`, and that is out of the prover's reach. `Normalizer` and `ResponsePolicy` have no state; what
their operators return is used in the proofs of `Pipeline` and `Responder`.

## 6. What is not modelled

- The numeric side of behaviour analysis: feature vectors, the trained classifier and
  DBSCAN (any answer is allowed), the fuzzy technique pass; training and evaluation scripts.
- Login and tokens except for their validity, GeoIP, the read-only endpoints: they change no state
  another component depends on.
- The dashboard's cards, statistics, map and table of responses. Refreshes of the cards can overlap
  when the portal is slow and leave doubled cards until the next one.
- Wording, rendering, credentials and file contents of decoys: data no property is about.
- Deployment files and honeypot configuration; what they decide (one portal worker, no
  restart of the responder) is used above.
- A clock that steps backwards (`Detectors`), and the memory that grows with every source
  address ever seen (`detection/detectors/port_scan.py:12`) or every session that never closes
  (`response/run_responder.py:58`): the code puts no bound on either and promises none.
- What a death leaves behind for ever (containers and directories of a lost registry, rules after
  a host restart, `response/engine.py:85`): the code makes no promise there.

## 7. Plan

Everything the plan named is modelled: `ResponsePolicy`, `Responder`, `LiveTail`, `LiveFeed`,
`Lifecycle`, `Detectors`, `Scoring`, `Behavior`, `Normalizer`, `Pipeline`, `Dashboard`. What the plan
named as worth proving is proved, up to liveness, which stays with TLC.
