------------------------------ MODULE LiveFeed ------------------------------
(***************************************************************************)
(* The portal's live feed (api/live.py): a thread that polls the event     *)
(* store and broadcasts what it finds, the WebSocket handlers that         *)
(* register and unregister their connection under the feed's lock, and     *)
(* the pipeline that inserts rows from another process.                    *)
(*                                                                         *)
(* The lock covers single set operations only, so a connection may appear, *)
(* break or be unregistered between the snapshot broadcast() takes of the  *)
(* clients and each of its sends.  send() has no timeout: it does not      *)
(* return while its peer is stalled.                                       *)
(***************************************************************************)
EXTENDS Naturals, Sequences, FiniteSets, SequencesExt

CONSTANTS
  Connections,  \* WebSocket connections, each used once
  Backend,      \* EventStore's mode, "sqlite" or "mongo"
  Limit,        \* rows one get_events call returns at most (200 in the code)
  MaxRows,      \* bound: rows the pipeline inserts
  MaxRestarts,  \* bound: restarts of the portal
  Off           \* LiveTail's cursor of a connection that is not connected

ASSUME FeedConstants ==
  /\ Backend \in {"sqlite", "mongo"}
  /\ Limit \in Nat \ {0}
  /\ MaxRows \in Nat
  /\ MaxRestarts \in Nat
  /\ Off \notin Nat

VARIABLES
  rows,         \* rows committed to the event store; their ids are 1 .. rows
  _last_id,     \* the newest id the feed has seen
  _clients,     \* registered connections
  pc,           \* the feed thread: "poll", "loop" over a batch, or "send"
  batch,        \* rows fetched and not broadcast yet
  unsent,       \* clients of the snapshot the current row is not sent to yet
  current,      \* the row being broadcast
  dead,         \* clients whose send raised during this broadcast
  peer,         \* each connection: "new", "open", "stalled" or "gone"
  received,     \* the ids each connection got, in order
  joined,       \* rows when the connection registered (history)
  restarts      \* restarts of the portal so far

feedVars == <<_last_id, pc, batch, unsent, current, dead>>
peerVars == <<peer, received, joined>>
vars == <<rows, feedVars, _clients, peerVars, restarts>>

\* The end of the table: LiveFeed starts there; mongo has no ids.
latest_event_id == IF Backend = "mongo" THEN 0 ELSE rows

\* Rows of one answer when n are asked for.
Page(n) == IF n < Limit THEN n ELSE Limit

\* Mutation: of more rows than the limit the newest are taken.
newest_page ==
  [i \in 1 .. Page(rows - _last_id) |-> rows - Page(rows - _last_id) + i]

\* get_events(limit, since_id): in sqlite the first Limit rows after since_id,
\* oldest first; mongo ignores since_id and returns the newest, newest first.
get_events ==
  IF Backend = "sqlite"
  THEN [i \in 1 .. Page(rows - _last_id) |-> _last_id + i]
  ELSE [i \in 1 .. Page(rows) |-> rows + 1 - i]

\* Mutations: the position moves a page ahead, or not at all.
seen_page(id) == _last_id + Limit
seen_nothing(id) == _last_id

\* max(self._last_id, ev.get("id", self._last_id)): mongo's rows have no id.
seen(id) == IF Backend = "sqlite" /\ id > _last_id THEN id ELSE _last_id

Init ==
  /\ rows = 0
  /\ _last_id = latest_event_id
  /\ _clients = {}
  /\ pc = "poll"
  /\ batch = << >>
  /\ unsent = {}
  /\ current = 0
  /\ dead = {}
  /\ peer = [ws \in Connections |-> "new"]
  /\ received = [ws \in Connections |-> << >>]
  /\ joined = [ws \in Connections |-> 0]
  /\ restarts = 0
-----------------------------------------------------------------------------
(* The pipeline, in its own process. *)

write ==
  /\ rows < MaxRows
  /\ rows' = rows + 1
  /\ UNCHANGED <<feedVars, _clients, peerVars, restarts>>
-----------------------------------------------------------------------------
(* The feed thread. *)

\* _tick up to its loop.  When the store raises, _run swallows it and polls
\* again, which changes nothing.
Poll ==
  /\ pc = "poll"
  /\ get_events # << >>
  /\ batch' = get_events
  /\ pc' = "loop"
  /\ UNCHANGED <<rows, _last_id, unsent, current, dead, _clients, peerVars,
                 restarts>>

\* One turn of _tick's loop up to the sends: the position moves first, then
\* broadcast takes its snapshot of the clients.
TakeRow ==
  /\ pc = "loop"
  /\ batch # << >>
  /\ _last_id' = seen(Head(batch))
  /\ current' = Head(batch)
  /\ batch' = Tail(batch)
  /\ unsent' = _clients
  /\ dead' = {}
  /\ pc' = "send"
  /\ UNCHANGED <<rows, _clients, peerVars, restarts>>

\* Mutation: a failed send stops the broadcast.
SendStopsAtDead(ws) ==
  /\ pc = "send"
  /\ ws \in unsent
  /\ IF peer[ws] = "gone"
     THEN dead' = dead \cup {ws} /\ unsent' = {} /\ UNCHANGED received
     ELSE /\ peer[ws] = "open"
          /\ unsent' = unsent \ {ws}
          /\ received' = [received EXCEPT ![ws] = Append(@, current)]
          /\ UNCHANGED dead
  /\ UNCHANGED <<rows, _last_id, pc, batch, current, _clients, peer, joined,
                 restarts>>

\* ws.send: delivered to an open peer, raised for one that is gone; it waits
\* while the peer is stalled.
Send(ws) ==
  /\ pc = "send"
  /\ ws \in unsent
  /\ unsent' = unsent \ {ws}
  /\ IF peer[ws] = "gone"
     THEN dead' = dead \cup {ws} /\ UNCHANGED received
     ELSE /\ peer[ws] = "open"
          /\ received' = [received EXCEPT ![ws] = Append(@, current)]
          /\ UNCHANGED dead
  /\ UNCHANGED <<rows, _last_id, pc, batch, current, _clients, peer, joined,
                 restarts>>

\* The end of broadcast: connections whose send raised are unregistered.
Reap ==
  /\ pc = "send"
  /\ unsent = {}
  /\ _clients' = _clients \ dead
  /\ dead' = {}
  /\ pc' = "loop"
  /\ UNCHANGED <<rows, _last_id, batch, unsent, current, peerVars, restarts>>

\* The batch is done; _run sleeps and polls again.
Sleep ==
  /\ pc = "loop"
  /\ batch = << >>
  /\ pc' = "poll"
  /\ UNCHANGED <<rows, _last_id, batch, unsent, current, dead, _clients,
                 peerVars, restarts>>
-----------------------------------------------------------------------------
(* The WebSocket handlers and their peers. *)

\* A connection with a valid token is registered.
register(ws) ==
  /\ peer[ws] = "new"
  /\ peer' = [peer EXCEPT ![ws] = "open"]
  /\ joined' = [joined EXCEPT ![ws] = rows]
  /\ _clients' = _clients \cup {ws}
  /\ UNCHANGED <<rows, feedVars, received, restarts>>

\* The peer stops reading, or starts again.
Stall(ws) ==
  /\ peer[ws] = "open"
  /\ peer' = [peer EXCEPT ![ws] = "stalled"]
  /\ UNCHANGED <<rows, feedVars, _clients, received, joined, restarts>>

Resume(ws) ==
  /\ peer[ws] = "stalled"
  /\ peer' = [peer EXCEPT ![ws] = "open"]
  /\ UNCHANGED <<rows, feedVars, _clients, received, joined, restarts>>

\* The peer closes, or the network breaks the connection.
Leave(ws) ==
  /\ peer[ws] \in {"open", "stalled"}
  /\ peer' = [peer EXCEPT ![ws] = "gone"]
  /\ UNCHANGED <<rows, feedVars, _clients, received, joined, restarts>>

\* receive() raises in the handler of a broken connection; its finally clause
\* unregisters it.
unregister(ws) ==
  /\ peer[ws] = "gone"
  /\ ws \in _clients
  /\ _clients' = _clients \ {ws}
  /\ UNCHANGED <<rows, feedVars, peerVars, restarts>>
-----------------------------------------------------------------------------
\* The portal is restarted: every connection is gone, the feed starts at the
\* end of the table.
Restart ==
  /\ restarts < MaxRestarts
  /\ restarts' = restarts + 1
  /\ _last_id' = latest_event_id
  /\ _clients' = {}
  /\ pc' = "poll"
  /\ batch' = << >>
  /\ unsent' = {}
  /\ current' = 0
  /\ dead' = {}
  /\ peer' = [ws \in Connections |-> IF peer[ws] = "new" THEN "new" ELSE "gone"]
  /\ UNCHANGED <<rows, received, joined>>

Feed == Poll \/ TakeRow \/ (\E ws \in Connections : Send(ws)) \/ Reap \/ Sleep

Handler(ws) == register(ws) \/ unregister(ws)

Peer(ws) == Stall(ws) \/ Resume(ws) \/ Leave(ws)

Next ==
  \/ write
  \/ Feed
  \/ \E ws \in Connections : Handler(ws) \/ Peer(ws)
  \/ Restart

Spec == Init /\ [][Next]_vars

\* The feed thread runs; nothing makes peers come, read on or leave, nor their
\* handlers unregister them.
FairSpec == Spec /\ WF_vars(Feed)
-----------------------------------------------------------------------------
(* Properties. *)

\* Every variable holds what the code can put there; a batch is in hand only
\* inside _tick and a snapshot only inside broadcast.
TypeOK ==
  /\ rows \in 0 .. MaxRows
  /\ _last_id \in 0 .. rows
  /\ _clients \subseteq Connections
  /\ pc \in {"poll", "loop", "send"}
  /\ batch \in Seq(1 .. rows)
  /\ pc = "poll" => batch = << >>
  /\ unsent \subseteq Connections
  /\ current \in 0 .. rows
  /\ pc = "send" => current # 0
  /\ dead \subseteq Connections
  /\ pc # "send" => unsent = {} /\ dead = {}
  /\ peer \in [Connections -> {"new", "open", "stalled", "gone"}]
  /\ received \in [Connections -> Seq(1 .. rows)]
  /\ joined \in [Connections -> 0 .. rows]
  /\ restarts \in 0 .. MaxRestarts

Connected(ws) == peer[ws] \in {"open", "stalled"}

\* "Streams ... for every new row" (docs/api-reference.md:47-48): no
\* connection is sent the same row twice.
NoRowTwice == \A ws \in Connections : IsInjective(received[ws])

\* A connected client that the current row is not still to be sent to has
\* every row that was inserted after it registered and that the feed has
\* passed, whatever happened to the other clients of the broadcast.
NothingIsSkipped ==
  \A ws \in Connections :
    Connected(ws) /\ ws \notin unsent =>
      joined[ws] + 1 .. _last_id \subseteq ToSet(received[ws])

\* The last row a connection is not to be sent any more.
Cursor ==
  [ws \in Connections |->
     IF ~Connected(ws) THEN Off
     ELSE IF ws \in unsent THEN _last_id - 1
     ELSE _last_id]

Promise == INSTANCE LiveTail WITH cursor <- Cursor

\* The feed is a live tail of the event store, connection by connection.
IsALiveTail == Promise!Spec

\* Every row inserted while a client is connected reaches it, unless it leaves
\* or some client, it or another, stalls.
EveryRowArrives ==
  \A ws \in Connections, id \in 1 .. MaxRows :
    (Connected(ws) /\ joined[ws] < id /\ id <= rows)
      ~> \/ id \in ToSet(received[ws])
         \/ peer[ws] = "gone"
         \/ \E other \in Connections : peer[other] = "stalled"
=============================================================================
