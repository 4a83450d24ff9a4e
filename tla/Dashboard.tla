----------------------------- MODULE Dashboard ------------------------------
(***************************************************************************)
(* The event table of the dashboard (dashboard/static/app.js): one browser *)
(* tab over the portal's REST endpoints and its live feed, which is taken  *)
(* from LiveTail, the promise that LiveFeed keeps on sqlite.  A page first *)
(* loads, then connects to the feed, and when the feed closes it polls     *)
(* from then on.  Requests fail, answers overtake each other, the token    *)
(* becomes invalid and pages are reloaded.                                 *)
(*                                                                         *)
(* Map, timeline, gauge and cards are drawing and left out, and so is that *)
(* the table drops its oldest entry when there are more than 80.           *)
(***************************************************************************)
EXTENDS Integers, Sequences, FiniteSets, SequencesExt

CONSTANTS
  LoadLimit,    \* rows of the first load (50 in the code)
  PollLimit,    \* rows of a poll (20 in the code)
  Polls,        \* bound: polls in flight at once
  MaxRows,      \* bound: rows the pipeline inserts
  MaxLoads,     \* bound: pages loaded
  Off           \* LiveTail's cursor of a connection that is not connected

\* The requests of a page's start, awaited together.
Initial == {"stats", "events", "responses"}

ASSUME DashboardConstants ==
  /\ LoadLimit \in Nat \ {0}
  /\ PollLimit \in Nat \ {0}
  /\ Polls \subseteq STRING \ Initial
  /\ MaxRows \in Nat
  /\ MaxLoads \in Nat
  /\ Off \notin Nat

VARIABLES
  rows,         \* rows committed to the event store; their ids are 1 .. rows
  received,     \* what the feed sent on each connection
  cursor,       \* the last row a connection is not to be sent any more
  token,        \* in local storage: "none", "valid" or "invalid"
  page,         \* "login", "loading", "live", or "stuck" without feed or timers
  load,         \* pages loaded so far; each has a connection of its own
  request,      \* what became of each request
  answer,       \* rows when it was answered, until the answer arrives
  ws,           \* this page's WebSocket: "none", "open" or "closed"
  got,          \* messages of it that are handled
  polling,      \* pollTimer is set
  lastPollId,
  shown,        \* ids added to the table by each path, in order
  loaded,       \* rows the first load knew of (history)
  joined        \* rows not sent because they are older than the connection
                \* (history)

feedVars == <<rows, received, cursor>>
pageVars == <<ws, got, polling, lastPollId, shown, loaded, joined>>
vars == <<feedVars, token, page, load, request, answer, pageVars>>

Requests == Initial \cup Polls
Paths == {"load", "feed", "poll"}

Feed == INSTANCE LiveTail WITH Connections <- 1 .. MaxLoads

Init ==
  /\ rows = 0
  /\ received = [conn \in 1 .. MaxLoads |-> << >>]
  /\ cursor = [conn \in 1 .. MaxLoads |-> Off]
  /\ token = "none"
  /\ page = "login"
  /\ load = 0
  /\ request = [r \in Requests |-> "idle"]
  /\ answer = [r \in Requests |-> 0]
  /\ ws = "none"
  /\ got = 0
  /\ polling = FALSE
  /\ lastPollId = 0
  /\ shown = [path \in Paths |-> << >>]
  /\ loaded = 0
  /\ joined = 0
-----------------------------------------------------------------------------
(* The pipeline and the portal. *)

write ==
  /\ rows < MaxRows
  /\ Feed!Insert
  /\ UNCHANGED <<token, page, load, request, answer, pageVars>>

\* The feed thread sends the connection its next row.
Deliver ==
  /\ load # 0
  /\ Feed!Deliver(load)
  /\ UNCHANGED <<token, page, load, request, answer, pageVars>>

\* The portal restarts, or the network drops the connection.
Disconnect ==
  /\ load # 0
  /\ cursor[load] # Off
  /\ Feed!Disconnect({load})
  /\ UNCHANGED <<token, page, load, request, answer, pageVars>>

\* The token's time is over, or a restarted portal has another secret.
Expire ==
  /\ token = "valid"
  /\ token' = "invalid"
  /\ UNCHANGED <<feedVars, page, load, request, answer, pageVars>>

\* require_auth, then the handler reads the store.
Answer(r) ==
  /\ request[r] = "asked"
  /\ IF token = "valid"
     THEN /\ request' = [request EXCEPT ![r] = "answered"]
          /\ answer' = [answer EXCEPT ![r] = rows]
     ELSE /\ request' = [request EXCEPT ![r] = "denied"]
          /\ UNCHANGED answer
  /\ UNCHANGED <<feedVars, token, page, load, pageVars>>
-----------------------------------------------------------------------------
(* Pages. *)

\* What a new page starts with.
Fresh ==
  /\ ws' = "none"
  /\ got' = 0
  /\ polling' = FALSE
  /\ lastPollId' = 0
  /\ shown' = [path \in Paths |-> << >>]
  /\ loaded' = 0
  /\ joined' = 0
  /\ answer' = [r \in Requests |-> 0]

\* start(): the three requests go out together.
start ==
  /\ load < MaxLoads
  /\ load' = load + 1
  /\ page' = "loading"
  /\ request' = [r \in Requests |-> IF r \in Initial THEN "asked" ELSE "idle"]
  /\ Fresh

login ==
  /\ page = "login"
  /\ token' = "valid"
  /\ start
  /\ UNCHANGED feedVars

\* The user reloads the page: the stored token is used again.
Reload ==
  /\ page # "login"
  /\ start
  /\ Feed!Disconnect({load})
  /\ UNCHANGED token

\* The page is reloaded without a token.
ToLogin ==
  /\ token' = "none"
  /\ page' = "login"
  /\ request' = [r \in Requests |-> "idle"]
  /\ Fresh
  /\ Feed!Disconnect({load})
  /\ UNCHANGED load

logout == page # "login" /\ ToLogin

\* Mutation: the token is dropped and the page stays.
DeniedStays(r) ==
  /\ request[r] = "denied"
  /\ token' = "none"
  /\ UNCHANGED <<feedVars, page, load, request, answer, pageVars>>

\* api(): an answer of 401 ends in the login form.
Denied(r) == request[r] = "denied" /\ ToLogin

\* The refreshes of statistics and responses, every few seconds, are told that
\* the token is invalid too.
RefreshDenied == page = "live" /\ token = "invalid" /\ ToLogin

\* A request fails.  If it is one of the first three, start() ends there.
Fail(r) ==
  /\ request[r] = "asked"
  /\ request' = [request EXCEPT ![r] = "idle"]
  /\ page' = IF r \in Initial THEN "stuck" ELSE page
  /\ UNCHANGED <<feedVars, token, load, answer, pageVars>>
-----------------------------------------------------------------------------
(* The three ways into the table. *)

\* The ids after a up to b, in order.
Ids(a, b) == [i \in 1 .. b - a |-> a + i]

\* The rows of an answer begin after this one.
Older(n, limit) == IF n > limit THEN n - limit ELSE 0

\* An initial answer arrives; that of loadEvents is shown, oldest first.
Arrive(r) ==
  /\ r \in Initial
  /\ request[r] = "answered"
  /\ request' = [request EXCEPT ![r] = "idle"]
  /\ answer' = [answer EXCEPT ![r] = 0]
  /\ IF r = "events"
     THEN /\ shown' = [shown EXCEPT !["load"] =
                         Ids(Older(answer[r], LoadLimit), answer[r])]
          /\ loaded' = answer[r]
     ELSE UNCHANGED <<shown, loaded>>
  /\ UNCHANGED <<feedVars, token, page, load, ws, got, polling, lastPollId,
                 joined>>

\* connectFeed, when all three are there; the portal closes a connection with
\* an invalid token at once.
connectFeed ==
  /\ page = "loading"
  /\ \A r \in Initial : request[r] = "idle"
  /\ page' = "live"
  /\ ws' = "open"
  /\ IF token = "valid"
     THEN Feed!Connect(load) /\ joined' = cursor'[load]
     ELSE UNCHANGED <<feedVars, joined>>
  /\ UNCHANGED <<token, load, request, answer, got, polling, lastPollId, shown,
                 loaded>>

onmessage ==
  /\ ws = "open"
  /\ got < Len(received[load])
  /\ got' = got + 1
  /\ shown' = [shown EXCEPT !["feed"] = Append(@, received[load][got + 1])]
  /\ UNCHANGED <<feedVars, token, page, load, request, answer, ws, polling,
                 lastPollId, loaded, joined>>

\* What was on the wire is lost; nothing connects again.
onclose ==
  /\ ws = "open"
  /\ cursor[load] = Off
  /\ ws' = "closed"
  /\ polling' = TRUE
  /\ UNCHANGED <<feedVars, token, page, load, request, answer, got, lastPollId,
                 shown, loaded, joined>>

\* Mutation: setTimeout, not setInterval.
PollOnce(r) ==
  /\ polling
  /\ r \in Polls
  /\ lastPollId = 0
  /\ request[r] = "idle"
  /\ request' = [request EXCEPT ![r] = "asked"]
  /\ UNCHANGED <<feedVars, token, page, load, answer, pageVars>>

\* The timer fires, whether or not earlier polls are answered.
Poll(r) ==
  /\ polling
  /\ r \in Polls
  /\ request[r] = "idle"
  /\ request' = [request EXCEPT ![r] = "asked"]
  /\ UNCHANGED <<feedVars, token, page, load, answer, pageVars>>

\* Mutation: the answer is not reversed, so that its newest row hides the rest.
AlreadyShownNewestFirst(n) == IF n > lastPollId THEN n - 1 ELSE n

\* Rows of a poll's answer up to this one are not shown: an earlier poll has
\* shown them, or they are beyond the answer's limit.
AlreadyShown(n) ==
  IF lastPollId > Older(n, PollLimit) THEN lastPollId ELSE Older(n, PollLimit)

\* Mutation: the last answer counts.
NewestLast(n) == n

\* lastPollId once an answer of n rows is shown.
Newest(n) == IF n > lastPollId THEN n ELSE lastPollId

\* A poll's answer arrives, perhaps after that of a later one.
PollArrives(r) ==
  /\ r \in Polls
  /\ request[r] = "answered"
  /\ request' = [request EXCEPT ![r] = "idle"]
  /\ shown' = [shown EXCEPT !["poll"] = @ \o Ids(AlreadyShown(answer[r]), answer[r])]
  /\ lastPollId' = Newest(answer[r])
  /\ answer' = [answer EXCEPT ![r] = 0]
  /\ UNCHANGED <<feedVars, token, page, load, ws, got, polling, loaded, joined>>
-----------------------------------------------------------------------------
Portal == Deliver \/ Disconnect \/ Expire \/ \E r \in Requests : Answer(r)

User == login \/ logout \/ Reload

Page ==
  \/ \E r \in Requests :
       Denied(r) \/ Fail(r) \/ Arrive(r) \/ Poll(r) \/ PollArrives(r)
  \/ RefreshDenied
  \/ connectFeed
  \/ onmessage
  \/ onclose

Next == write \/ Portal \/ User \/ Page

Spec == Init /\ [][Next]_vars

\* The timer fires, answers arrive, and the portal does not fail every request.
FairSpec ==
  /\ Spec
  /\ \A r \in Polls :
       /\ WF_vars(Poll(r)) /\ SF_vars(Answer(r))
       /\ WF_vars(PollArrives(r)) /\ WF_vars(Denied(r))
-----------------------------------------------------------------------------
(* Properties. *)

\* Every variable holds what the code can put there.  Only a live page has a
\* WebSocket, and it polls when that has closed.
TypeOK ==
  /\ rows \in Nat
  /\ received \in [1 .. MaxLoads -> Seq(Nat)]
  /\ cursor \in [1 .. MaxLoads -> Nat \cup {Off}]
  /\ token \in {"none", "valid", "invalid"}
  /\ page \in {"login", "loading", "live", "stuck"}
  /\ load \in 0 .. MaxLoads
  /\ request \in [Requests -> {"idle", "asked", "answered", "denied"}]
  /\ answer \in [Requests -> 0 .. rows]
  /\ ws \in {"none", "open", "closed"}
  /\ got \in Nat
  /\ polling \in BOOLEAN
  /\ lastPollId \in 0 .. rows
  /\ shown \in [Paths -> Seq(1 .. rows)]
  /\ loaded \in 0 .. rows
  /\ joined \in 0 .. rows
  /\ page = "login" <=> token = "none"
  /\ page = "live" <=> ws # "none"
  /\ polling <=> ws = "closed"
  /\ page # "login" => load # 0

\* Each path adds a row once, and in the order of the store: polls too, whose
\* answers overlap and overtake each other.
EachPathShowsOnce ==
  \A path \in Paths : \A i, j \in DOMAIN shown[path] :
    i < j => shown[path][i] < shown[path][j]

\* The last row the page got from the feed, or missed by connecting to it.
Followed == IF got = 0 THEN joined ELSE received[load][got]

\* The rows a live page knew of: those of its first load, those the feed sent,
\* and those of its polls.
Known ==
  (Older(loaded, LoadLimit) + 1 .. loaded)
    \cup (joined + 1 .. Followed)
    \cup (Older(lastPollId, PollLimit) + 1 .. lastPollId)

\* Nothing that came to a page is missing: rows that were never added to the table
\* (which drops entries beyond 80 at its end, app.js:134) were
\* older than the first load, or inserted between it and the connection, on
\* the wire when that broke, or more than a poll's limit between two polls.
OnlyGapsAreMissed ==
  page = "live" => Known \subseteq UNION {ToSet(shown[path]) : path \in Paths}

\* Once the page polls, every row is shown, unless a poll's limit of rows came
\* after it, or the page is left.
PollingCatchesUp ==
  \A id \in 1 .. MaxRows :
    polling /\ id <= rows
      ~> \/ \E path \in Paths : id \in ToSet(shown[path])
         \/ rows >= id + PollLimit
         \/ ~polling
=============================================================================
