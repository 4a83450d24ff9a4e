--------------------------- MODULE LiveFeedProofs ---------------------------
(***************************************************************************)
(* Theorems about LiveFeed on an sqlite store, for every set of            *)
(* connections, every page size and every bound.                           *)
(***************************************************************************)
EXTENDS LiveFeed, SequenceTheorems, TLAPS

USE FeedConstants
-----------------------------------------------------------------------------
(* Type correctness. *)

\* An answer of the store is a sequence of ids of rows.
LEMMA AnswerType ==
  ASSUME TypeOK
  PROVE  get_events \in Seq(1 .. rows)
<1>1. /\ rows \in Nat /\ _last_id \in Nat /\ _last_id <= rows
      /\ Page(rows - _last_id) \in Nat /\ Page(rows - _last_id) <= rows - _last_id
      /\ Page(rows) \in Nat /\ Page(rows) <= rows
  BY DEF TypeOK, Page
<1>2. CASE Backend = "sqlite"
  <2> DEFINE n == Page(rows - _last_id)
  <2>1. get_events = [i \in 1 .. n |-> _last_id + i]
    BY <1>2 DEF get_events
  <2>2. \A i \in 1 .. n : _last_id + i \in 1 .. rows
    BY <1>1
  <2> HIDE DEF n
  <2>3. n \in Nat
    BY <1>1 DEF n
  <2>4. QED  BY <2>1, <2>2, <2>3
<1>3. CASE Backend # "sqlite"
  <2> DEFINE n == Page(rows)
  <2>1. get_events = [i \in 1 .. n |-> rows + 1 - i]
    BY <1>3 DEF get_events
  <2>2. \A i \in 1 .. n : rows + 1 - i \in 1 .. rows
    BY <1>1
  <2> HIDE DEF n
  <2>3. n \in Nat
    BY <1>1 DEF n
  <2>4. QED  BY <2>1, <2>2, <2>3
<1>4. QED  BY <1>2, <1>3

\* TypeOK: every variable holds what the code can put there.
THEOREM TypeCorrect == Spec => []TypeOK
<1>1. Init => TypeOK
  BY DEF Init, TypeOK, latest_event_id
<1>2. TypeOK /\ [Next]_vars => TypeOK'
  <2> SUFFICES ASSUME TypeOK, [Next]_vars
               PROVE  TypeOK'
    OBVIOUS
  <2>1. CASE write
    <3>1. rows' = rows + 1 /\ rows' \in 0 .. MaxRows /\ 1 .. rows \subseteq 1 .. rows'
      BY <2>1 DEF write, TypeOK
    <3>2. \A ws \in Connections : received[ws] \in Seq(1 .. rows')
      BY <3>1 DEF TypeOK
    <3>3. batch \in Seq(1 .. rows')
      BY <3>1 DEF TypeOK
    <3>4. QED
      BY <2>1, <3>1, <3>2, <3>3 DEF write, TypeOK, feedVars, peerVars
  <2>2. CASE Poll
    BY <2>2, AnswerType DEF Poll, TypeOK, peerVars
  <2>3. CASE TakeRow
    <3>1. Head(batch) \in 1 .. rows /\ Tail(batch) \in Seq(1 .. rows)
      BY <2>3 DEF TakeRow, TypeOK
    <3>2. seen(Head(batch)) \in 0 .. rows
      BY <3>1 DEF seen, TypeOK
    <3>3. QED
      BY <2>3, <3>1, <3>2 DEF TakeRow, TypeOK, peerVars
  <2>4. ASSUME NEW ws \in Connections, Send(ws)
        PROVE  TypeOK'
    <3>1. CASE peer[ws] = "gone"
      BY <2>4, <3>1 DEF Send, TypeOK
    <3>2. CASE peer[ws] # "gone"
      <4>1. current \in 1 .. rows /\ received[ws] \in Seq(1 .. rows)
        BY <2>4 DEF Send, TypeOK
      <4>2. Append(received[ws], current) \in Seq(1 .. rows)
        BY <4>1
      <4>3. received' = [received EXCEPT ![ws] = Append(received[ws], current)]
        BY <2>4, <3>2 DEF Send
      <4>4. received' \in [Connections -> Seq(1 .. rows)]
        BY <4>2, <4>3 DEF TypeOK
      <4>5. QED
        BY <2>4, <3>2, <4>4 DEF Send, TypeOK
    <3>3. QED  BY <3>1, <3>2
  <2>5. CASE Reap
    BY <2>5 DEF Reap, TypeOK, peerVars
  <2>6. CASE Sleep
    BY <2>6 DEF Sleep, TypeOK, peerVars
  <2>7. ASSUME NEW ws \in Connections, Handler(ws) \/ Peer(ws)
        PROVE  TypeOK'
    <3>1. CASE register(ws)
      BY <3>1 DEF register, TypeOK, feedVars
    <3>2. CASE unregister(ws)
      BY <3>2 DEF unregister, TypeOK, feedVars, peerVars
    <3>3. CASE Stall(ws) \/ Resume(ws) \/ Leave(ws)
      BY <3>3 DEF Stall, Resume, Leave, TypeOK, feedVars
    <3>4. QED  BY <2>7, <3>1, <3>2, <3>3 DEF Handler, Peer
  <2>8. CASE Restart
    BY <2>8 DEF Restart, latest_event_id, TypeOK
  <2>9. CASE UNCHANGED vars
    BY <2>9 DEF vars, feedVars, peerVars, TypeOK
  <2>10. QED
    BY <2>1, <2>2, <2>3, <2>4, <2>5, <2>6, <2>7, <2>8, <2>9 DEF Next, Feed
<1>3. QED  BY <1>1, <1>2, PTL DEF Spec
-----------------------------------------------------------------------------
(* The inductive invariant. *)

\* The batch continues where the feed stands, and the row being broadcast is
\* the last one it passed.
BatchContinues ==
  /\ \A i \in 1 .. Len(batch) : batch[i] = _last_id + i
  /\ pc = "send" => current = _last_id

\* Every client that is connected is registered, and only connections that
\* were registered are in a snapshot or have received anything; sends fail only
\* on connections that are gone.
OnlyRegistered ==
  \A ws \in Connections :
    /\ Connected(ws) => ws \in _clients
    /\ peer[ws] = "new" => /\ ws \notin _clients /\ ws \notin unsent
                           /\ received[ws] = << >>
    /\ ws \in dead => peer[ws] = "gone"

\* A connected client has every row inserted after it registered, up to the
\* row it is to be sent next.
ServedUpTo ==
  \A ws \in Connections : Connected(ws) =>
    \A id \in joined[ws] + 1 .. _last_id :
      id \in ToSet(received[ws]) \/ (ws \in unsent /\ id = _last_id)

FeedInv == TypeOK /\ BatchContinues /\ OnlyRegistered /\ ServedUpTo

\* What a store in sqlite mode answers continues where the feed stands.
LEMMA AnswerContinues ==
  ASSUME TypeOK, Backend = "sqlite"
  PROVE  \A i \in 1 .. Len(get_events) : get_events[i] = _last_id + i
<1> DEFINE n == Page(rows - _last_id)
<1>1. n \in Nat /\ get_events = [i \in 1 .. n |-> _last_id + i]
  BY DEF TypeOK, Page, get_events
<1> HIDE DEF n
<1>2. Len(get_events) = n
  BY <1>1
<1>3. QED  BY <1>1, <1>2

\* Appending to a connection's rows adds that row and loses none.
LEMMA AppendServes ==
  ASSUME NEW s \in Seq(Nat), NEW id \in Nat
  PROVE  ToSet(Append(s, id)) = ToSet(s) \cup {id}
<1> DEFINE n == Len(s)
           longer == Append(s, id)
<1>1. /\ n \in Nat /\ DOMAIN s = 1 .. n /\ DOMAIN longer = 1 .. n + 1
      /\ longer[n + 1] = id /\ \A i \in 1 .. n : longer[i] = s[i]
  OBVIOUS
<1> HIDE DEF n, longer
<1>2. ToSet(longer) \subseteq ToSet(s) \cup {id}
  <2> SUFFICES ASSUME NEW i \in 1 .. n + 1, longer[i] # id
               PROVE  longer[i] \in ToSet(s)
    BY <1>1 DEF ToSet
  <2>1. i \in 1 .. n
    BY <1>1
  <2>2. QED  BY <1>1, <2>1 DEF ToSet
<1>3. ToSet(s) \cup {id} \subseteq ToSet(longer)
  <2>1. n + 1 \in 1 .. n + 1 /\ 1 .. n \subseteq 1 .. n + 1
    BY <1>1
  <2>2. id \in ToSet(longer)
    BY <1>1, <2>1 DEF ToSet
  <2>3. \A i \in 1 .. n : s[i] \in ToSet(longer)
    BY <1>1, <2>1 DEF ToSet
  <2>4. QED  BY <1>1, <2>2, <2>3 DEF ToSet
<1>4. QED  BY <1>2, <1>3 DEF longer

\* The first state satisfies the invariant.
LEMMA InvInit == Init => FeedInv
BY DEF Init, FeedInv, TypeOK, latest_event_id, BatchContinues, OnlyRegistered,
       ServedUpTo, Connected

\* Every step keeps the invariant.
LEMMA InvStep ==
  ASSUME Backend = "sqlite", FeedInv, TypeOK', [Next]_vars
  PROVE  FeedInv'
<1> USE DEF FeedInv
<1>1. CASE write
  BY <1>1 DEF write, feedVars, peerVars, BatchContinues, OnlyRegistered,
              ServedUpTo, Connected
<1>2. CASE Poll
  <2>1. BatchContinues'
    <3>1. /\ batch' = get_events /\ _last_id' = _last_id /\ pc' = "loop"
      BY <1>2 DEF Poll
    <3>2. QED  BY <3>1, AnswerContinues DEF BatchContinues
  <2>2. QED
    BY <1>2, <2>1 DEF Poll, peerVars, OnlyRegistered, ServedUpTo, Connected
<1>3. CASE TakeRow
  <2>1. /\ batch \in Seq(1 .. rows) /\ batch # << >> /\ _last_id \in Nat
        /\ batch' = Tail(batch) /\ current' = Head(batch)
        /\ _last_id' = seen(Head(batch)) /\ unsent' = _clients /\ unsent = {}
        /\ UNCHANGED <<_clients, peer, received, joined>> /\ dead' = {}
    BY <1>3 DEF TakeRow, TypeOK, peerVars
  <2>2. Head(batch) = _last_id + 1
    BY <2>1 DEF BatchContinues
  <2>3. _last_id' = _last_id + 1 /\ current' = _last_id'
    BY <2>1, <2>2 DEF seen
  <2>4. \A i \in 1 .. Len(batch') : batch'[i] = _last_id' + i
    <3>1. Len(batch') = Len(batch) - 1 /\ \A i \in 1 .. Len(batch') : batch'[i] = batch[i + 1]
      BY <2>1
    <3>2. \A i \in 1 .. Len(batch') : i + 1 \in 1 .. Len(batch) /\ i \in Nat
      BY <2>1, <3>1
    <3>3. \A i \in 1 .. Len(batch') : batch'[i] = _last_id + (i + 1)
      BY <3>1, <3>2 DEF BatchContinues
    <3>4. QED  BY <2>1, <2>3, <3>2, <3>3
  <2>5. OnlyRegistered'
    BY <2>1 DEF OnlyRegistered, Connected
  <2>6. ServedUpTo'
    <3> SUFFICES ASSUME NEW ws \in Connections, Connected(ws)',
                        NEW id \in (joined[ws] + 1 .. _last_id)'
                 PROVE  (id \in ToSet(received[ws]) \/ (ws \in unsent /\ id = _last_id))'
      BY DEF ServedUpTo
    <3>1. Connected(ws) /\ ws \in unsent' /\ joined[ws] \in Nat
      BY <2>1 DEF Connected, OnlyRegistered, TypeOK
    <3>2. id = _last_id' \/ id \in joined[ws] + 1 .. _last_id
      BY <2>1, <2>3, <3>1
    <3>3. QED
      BY <2>1, <3>1, <3>2 DEF ServedUpTo
  <2>7. QED  BY <2>3, <2>4, <2>5, <2>6 DEF BatchContinues
<1>4. ASSUME NEW ws \in Connections, Send(ws)
      PROVE  FeedInv'
  <2>1. /\ pc = "send" /\ pc' = pc /\ ws \in unsent /\ unsent' = unsent \ {ws}
        /\ UNCHANGED <<_last_id, batch, current, _clients, peer, joined>>
    BY <1>4 DEF Send
  <2>2. BatchContinues'
    BY <2>1 DEF BatchContinues
  <2>3. peer[ws] # "new"
    BY <2>1 DEF OnlyRegistered
  <2>4. CASE peer[ws] = "gone"
    <3>1. received' = received /\ dead' = dead \cup {ws}
      BY <1>4, <2>4 DEF Send
    <3>2. QED
      BY <2>1, <2>2, <2>4, <3>1 DEF OnlyRegistered, ServedUpTo, Connected
  <2>5. CASE peer[ws] # "gone"
    <3>1. /\ received' = [received EXCEPT ![ws] = Append(@, current)]
          /\ received[ws] \in Seq(1 .. rows) /\ current \in 1 .. rows
          /\ current = _last_id /\ dead' = dead
      BY <1>4, <2>1, <2>5 DEF Send, TypeOK, BatchContinues
    <3>2. /\ ToSet(received'[ws]) = ToSet(received[ws]) \cup {_last_id}
          /\ \A other \in Connections \ {ws} : received'[other] = received[other]
      <4>1. received'[ws] = Append(received[ws], current)
        BY <3>1 DEF TypeOK
      <4>2. ToSet(Append(received[ws], current)) = ToSet(received[ws]) \cup {current}
        <5>1. received[ws] \in Seq(Nat) /\ current \in Nat
          BY <3>1 DEF TypeOK
        <5>2. QED  BY <5>1, AppendServes
      <4>3. QED  BY <3>1, <4>1, <4>2 DEF TypeOK
    <3>3. ServedUpTo'
      BY <2>1, <3>2 DEF ServedUpTo, Connected
    <3>4. OnlyRegistered'
      BY <2>1, <2>3, <3>1, <3>2 DEF OnlyRegistered, Connected
    <3>5. QED  BY <2>2, <3>3, <3>4
  <2>6. QED  BY <2>4, <2>5
<1>5. CASE Reap
  <2>1. /\ UNCHANGED <<_last_id, batch, current, peer, received, joined, unsent>>
        /\ unsent = {} /\ pc' # "send" /\ _clients' = _clients \ dead /\ dead' = {}
    BY <1>5 DEF Reap, peerVars
  <2>2. \A ws \in dead : peer[ws] = "gone"
    BY <1>5 DEF OnlyRegistered, TypeOK
  <2>3. QED
    BY <2>1, <2>2 DEF BatchContinues, OnlyRegistered, ServedUpTo, Connected
<1>6. CASE Sleep
  BY <1>6 DEF Sleep, peerVars, BatchContinues, OnlyRegistered, ServedUpTo, Connected
<1>7. ASSUME NEW ws \in Connections, register(ws)
      PROVE  FeedInv'
  <2>1. /\ peer[ws] = "new" /\ peer' = [peer EXCEPT ![ws] = "open"]
        /\ joined' = [joined EXCEPT ![ws] = rows] /\ _clients' = _clients \cup {ws}
        /\ UNCHANGED <<rows, _last_id, pc, batch, unsent, current, dead, received>>
    BY <1>7 DEF register, feedVars
  <2>2. rows + 1 .. _last_id = {}
    BY DEF TypeOK
  <2>3. BatchContinues' /\ OnlyRegistered'
    BY <2>1 DEF BatchContinues, OnlyRegistered, Connected, TypeOK
  <2>4. ServedUpTo'
    BY <2>1, <2>2 DEF ServedUpTo, Connected, TypeOK
  <2>5. QED  BY <2>3, <2>4
<1>8. ASSUME NEW ws \in Connections, unregister(ws)
      PROVE  FeedInv'
  BY <1>8 DEF unregister, feedVars, peerVars, BatchContinues, OnlyRegistered,
              ServedUpTo, Connected
<1>9. ASSUME NEW ws \in Connections, Stall(ws) \/ Resume(ws) \/ Leave(ws)
      PROVE  FeedInv'
  BY <1>9 DEF Stall, Resume, Leave, feedVars, BatchContinues, OnlyRegistered,
              ServedUpTo, Connected, TypeOK
<1>10. CASE Restart
  BY <1>10 DEF Restart, BatchContinues, OnlyRegistered, ServedUpTo, Connected, TypeOK
<1>11. CASE UNCHANGED vars
  BY <1>11 DEF vars, feedVars, peerVars, BatchContinues, OnlyRegistered,
               ServedUpTo, Connected
<1>12. QED
  BY <1>1, <1>2, <1>3, <1>4, <1>5, <1>6, <1>7, <1>8, <1>9, <1>10, <1>11
  DEF Next, Feed, Handler, Peer

\* The invariant holds in every state of a feed on sqlite.
LEMMA InvCorrect ==
  ASSUME Backend = "sqlite"
  PROVE  Spec => []FeedInv
<1>1. FeedInv /\ TypeOK' /\ [Next]_vars => FeedInv'
  BY InvStep
<1>2. QED  BY <1>1, InvInit, TypeCorrect, PTL DEF Spec
-----------------------------------------------------------------------------
(* What the feed promises. *)

\* NothingIsSkipped: a connected client has every row that was inserted after
\* it registered and that the feed has passed.
THEOREM NothingIsEverSkipped ==
  ASSUME Backend = "sqlite"
  PROVE  Spec => []NothingIsSkipped
<1>1. FeedInv => NothingIsSkipped
  BY DEF FeedInv, ServedUpTo, NothingIsSkipped
<1>2. QED  BY <1>1, InvCorrect, PTL

\* The first state of the feed is one of the live tail's.
LEMMA TailInit == Init => Promise!Init
<1> SUFFICES ASSUME Init PROVE Promise!Init
  OBVIOUS
<1>1. Cursor = [ws \in Connections |-> Off]
  BY DEF Init, Cursor, Connected
<1>2. QED  BY <1>1 DEF Init, Promise!Init

\* Every step of the feed is one of the live tail's, or none.
LEMMA TailStep ==
  ASSUME Backend = "sqlite", FeedInv, [Next]_vars
  PROVE  [Promise!Next]_Promise!vars
<1> USE DEF FeedInv
<1>1. CASE write
  <2>1. Cursor' = Cursor /\ rows' = rows + 1 /\ received' = received
    BY <1>1 DEF write, feedVars, peerVars, Cursor, Connected
  <2>2. QED  BY <2>1 DEF Promise!Next, Promise!Insert
<1>2. CASE Poll \/ Reap \/ Sleep
  <2>1. Cursor' = Cursor /\ rows' = rows /\ received' = received
    BY <1>2 DEF Poll, Reap, Sleep, peerVars, Cursor, Connected
  <2>2. QED  BY <2>1 DEF Promise!vars
<1>3. CASE TakeRow
  <2>1. /\ _last_id' = _last_id + 1 /\ _last_id \in Nat /\ unsent = {}
        /\ unsent' = _clients
        /\ UNCHANGED <<rows, peer, received>>
    <3>1. Head(batch) = _last_id + 1 /\ _last_id \in Nat
      BY <1>3 DEF TakeRow, TypeOK, BatchContinues
    <3>2. QED  BY <1>3, <3>1 DEF TakeRow, TypeOK, seen, peerVars
  <2>2. \A ws \in Connections : Connected(ws)' = Connected(ws)
    BY <2>1 DEF Connected
  <2>3. Cursor' = Cursor
    BY <2>1, <2>2 DEF Cursor, OnlyRegistered
  <2>4. QED  BY <2>1, <2>3 DEF Promise!vars
<1>4. ASSUME NEW ws \in Connections, Send(ws)
      PROVE  [Promise!Next]_Promise!vars
  <2>1. /\ pc = "send" /\ ws \in unsent /\ unsent' = unsent \ {ws}
        /\ UNCHANGED <<rows, _last_id, peer>>
        /\ _last_id \in 1 .. rows /\ current = _last_id
    BY <1>4 DEF Send, TypeOK, BatchContinues
  <2>2. CASE peer[ws] = "gone"
    <3>1. received' = received
      BY <1>4, <2>2 DEF Send
    <3>2. Cursor' = Cursor
      BY <2>1, <2>2 DEF Cursor, Connected
    <3>3. QED  BY <2>1, <3>1, <3>2 DEF Promise!vars
  <2>3. CASE peer[ws] # "gone"
    <3>1. /\ peer[ws] = "open" /\ Connected(ws)
          /\ received' = [received EXCEPT ![ws] = Append(@, current)]
      BY <1>4, <2>3 DEF Send, Connected
    <3>2. Cursor[ws] = _last_id - 1 /\ Cursor[ws] \in Nat /\ Cursor[ws] < rows
      <4>1. Cursor[ws] = _last_id - 1
        BY <2>1, <3>1 DEF Cursor
      <4>2. rows \in Nat /\ _last_id \in Nat /\ 1 <= _last_id /\ _last_id <= rows
        BY <2>1 DEF TypeOK
      <4>3. QED  BY <4>1, <4>2
    <3>3. Cursor' = [Cursor EXCEPT ![ws] = @ + 1]
      <4>1. Cursor[ws] + 1 = _last_id
        BY <2>1, <3>2 DEF TypeOK
      <4>2. Cursor' = [other \in Connections |->
                         IF other = ws THEN _last_id ELSE Cursor[other]]
        BY <2>1, <3>1 DEF Cursor, Connected
      <4>3. DOMAIN Cursor = Connections
        BY DEF Cursor
      <4>4. QED  BY <4>1, <4>2, <4>3
    <3>4. received' = [received EXCEPT ![ws] = Append(@, Cursor[ws] + 1)]
      <4>1. Cursor[ws] + 1 = current
        BY <2>1, <3>2 DEF TypeOK
      <4>2. QED  BY <3>1, <4>1
    <3>5. Promise!Deliver(ws)
      BY <2>1, <3>2, <3>3, <3>4 DEF Promise!Deliver
    <3>6. QED  BY <3>5 DEF Promise!Next
  <2>4. QED  BY <2>2, <2>3
<1>5. ASSUME NEW ws \in Connections, register(ws)
      PROVE  [Promise!Next]_Promise!vars
  <2>1. /\ peer[ws] = "new" /\ peer' = [peer EXCEPT ![ws] = "open"]
        /\ UNCHANGED <<rows, _last_id, unsent, received>>
        /\ _last_id \in 0 .. rows
    BY <1>5 DEF register, feedVars, TypeOK
  <2>2. Cursor[ws] = Off /\ received[ws] = << >> /\ ws \notin unsent
    BY <2>1 DEF Cursor, Connected, OnlyRegistered
  <2>3. Cursor' = [Cursor EXCEPT ![ws] = _last_id]
    BY <2>1, <2>2 DEF Cursor, Connected, TypeOK
  <2>4. Promise!Connect(ws)
    BY <2>1, <2>2, <2>3 DEF Promise!Connect
  <2>5. QED  BY <2>4 DEF Promise!Next
<1>6. ASSUME NEW ws \in Connections, unregister(ws) \/ Stall(ws) \/ Resume(ws)
      PROVE  [Promise!Next]_Promise!vars
  <2>1. /\ UNCHANGED <<rows, received, unsent, _last_id>>
        /\ \A other \in Connections : Connected(other)' = Connected(other)
    BY <1>6 DEF unregister, Stall, Resume, feedVars, peerVars, Connected, TypeOK
  <2>2. Cursor' = Cursor
    BY <2>1 DEF Cursor
  <2>3. QED  BY <2>1, <2>2 DEF Promise!vars
<1>7. ASSUME NEW ws \in Connections, Leave(ws)
      PROVE  [Promise!Next]_Promise!vars
  <2>1. /\ UNCHANGED <<rows, received, unsent, _last_id>>
        /\ peer' = [peer EXCEPT ![ws] = "gone"]
    BY <1>7 DEF Leave, feedVars
  <2>2. Cursor' = [other \in Connections |->
                     IF other \in {ws} THEN Off ELSE Cursor[other]]
    BY <2>1 DEF Cursor, Connected, TypeOK
  <2>3. Promise!Disconnect({ws})
    BY <2>1, <2>2 DEF Promise!Disconnect
  <2>4. QED  BY <2>3 DEF Promise!Next
<1>8. CASE Restart
  <2>1. /\ UNCHANGED <<rows, received>>
        /\ \A ws \in Connections : peer'[ws] \in {"new", "gone"}
    BY <1>8 DEF Restart
  <2>2. Cursor' = [ws \in Connections |-> IF ws \in Connections THEN Off ELSE Cursor[ws]]
    BY <2>1 DEF Cursor, Connected
  <2>3. Promise!Disconnect(Connections)
    BY <2>1, <2>2 DEF Promise!Disconnect
  <2>4. QED  BY <2>3 DEF Promise!Next
<1>9. CASE UNCHANGED vars
  BY <1>9 DEF vars, feedVars, peerVars, Promise!vars, Cursor, Connected
<1>10. QED
  BY <1>1, <1>2, <1>3, <1>4, <1>5, <1>6, <1>7, <1>8, <1>9
  DEF Next, Feed, Handler, Peer

\* IsALiveTail: on sqlite the feed implements the live tail of LiveTail.tla,
\* connection by connection.
THEOREM FeedIsALiveTail ==
  ASSUME Backend = "sqlite"
  PROVE  Spec => IsALiveTail
<1>1. FeedInv /\ [Next]_vars => [Promise!Next]_Promise!vars
  BY TailStep
<1>2. QED  BY <1>1, TailInit, InvCorrect, PTL DEF Spec, IsALiveTail, Promise!Spec
-----------------------------------------------------------------------------
(* What follows from the promise. *)

\* Rows were sent in the order of their ids, up to the cursor.
OnlyAhead ==
  \A ws \in Connections :
    /\ \A i, j \in DOMAIN received[ws] : i < j => received[ws][i] < received[ws][j]
    /\ Cursor[ws] # Off => \A i \in DOMAIN received[ws] : received[ws][i] <= Cursor[ws]

\* A live tail goes ahead only: no step of it needs to be looked at again in the feed.
LEMMA TailGoesAhead ==
  ASSUME Backend = "sqlite", FeedInv, OnlyAhead, [Promise!Next]_Promise!vars
  PROVE  OnlyAhead'
<1> USE DEF FeedInv
<1>1. /\ received \in [Connections -> Seq(Nat)]
      /\ DOMAIN Cursor = Connections
  <2>1. \A ws \in Connections : received[ws] \in Seq(1 .. rows)
    BY DEF TypeOK
  <2>2. 1 .. rows \subseteq Nat
    BY DEF TypeOK
  <2>3. ASSUME NEW ws \in Connections
        PROVE  received[ws] \in Seq(Nat)
    <3> DEFINE s == received[ws]
    <3>1. s \in Seq(1 .. rows)
      BY <2>1
    <3> HIDE DEF s
    <3>2. Len(s) \in Nat /\ s \in [1 .. Len(s) -> 1 .. rows]
      BY <3>1, LenProperties
    <3>3. s \in Seq(Nat)
      <4>1. s \in [1 .. Len(s) -> Nat]
        BY <2>2, <3>2
      <4>2. \A m \in Nat : \A f \in [1 .. m -> Nat] : f \in Seq(Nat)
        OBVIOUS
      <4>3. QED  BY <3>2, <4>1, <4>2
    <3>4. QED  BY <3>3 DEF s
  <2>4. QED  BY <2>1, <2>3 DEF TypeOK, Cursor
<1>2. CASE Promise!Insert \/ UNCHANGED Promise!vars
  BY <1>2 DEF Promise!Insert, Promise!vars, OnlyAhead
<1>3. ASSUME NEW ws \in Connections, Promise!Connect(ws)
      PROVE  OnlyAhead'
  <2>1. /\ received' = received /\ received[ws] = << >>
        /\ \A other \in Connections \ {ws} : Cursor'[other] = Cursor[other]
    BY <1>1, <1>3 DEF Promise!Connect
  <2>2. QED  BY <2>1 DEF OnlyAhead
<1>4. ASSUME NEW ws \in Connections, Promise!Deliver(ws)
      PROVE  OnlyAhead'
  <2> DEFINE from == Cursor[ws]
             old == received[ws]
             n == Len(old)
  <2>1. /\ from # Off
        /\ received' = [received EXCEPT ![ws] = Append(old, from + 1)]
        /\ Cursor' = [Cursor EXCEPT ![ws] = from + 1]
    BY <1>4 DEF Promise!Deliver
  <2>2. from \in Nat
    <3>1. ws \in unsent => _last_id \in Nat \ {0}
      BY DEF TypeOK, BatchContinues
    <3>2. QED  BY <2>1, <3>1 DEF Cursor, TypeOK
  <2>3. /\ received'[ws] = Append(old, from + 1) /\ Cursor'[ws] = from + 1
        /\ \A other \in Connections \ {ws} : /\ received'[other] = received[other]
                                             /\ Cursor'[other] = Cursor[other]
    BY <1>1, <2>1
  <2>4. old \in Seq(Nat) /\ n \in Nat /\ DOMAIN old = 1 .. n
    BY <1>1
  <2>5. /\ \A i, j \in 1 .. n : i < j => old[i] < old[j]
        /\ \A i \in 1 .. n : old[i] <= from /\ old[i] \in Nat
    BY <2>1, <2>4 DEF OnlyAhead
  <2> DEFINE new == Append(old, from + 1)
  <2>6. /\ DOMAIN new = 1 .. n + 1 /\ new[n + 1] = from + 1
        /\ \A i \in 1 .. n : new[i] = old[i]
    BY <2>2, <2>4
  <2> HIDE DEF new, from, old, n
  <2>7. /\ \A i, j \in DOMAIN new : i < j => new[i] < new[j]
        /\ \A i \in DOMAIN new : new[i] <= from + 1
    <3>1. ASSUME NEW i \in 1 .. n + 1
          PROVE  new[i] <= from + 1
      BY <2>2, <2>4, <2>5, <2>6
    <3>2. ASSUME NEW i \in 1 .. n + 1, NEW j \in 1 .. n + 1, i < j
          PROVE  new[i] < new[j]
      BY <2>2, <2>4, <2>5, <2>6, <3>2
    <3>3. QED  BY <2>6, <3>1, <3>2
  <2>8. /\ received'[ws] = new /\ Cursor'[ws] = from + 1
    BY <2>3 DEF new
  <2>9. QED  BY <2>3, <2>7, <2>8 DEF OnlyAhead
<1>5. ASSUME NEW gone \in SUBSET Connections, Promise!Disconnect(gone)
      PROVE  OnlyAhead'
  <2>1. /\ received' = received
        /\ \A ws \in Connections : Cursor'[ws] = Off \/ Cursor'[ws] = Cursor[ws]
    BY <1>5 DEF Promise!Disconnect
  <2>2. QED  BY <2>1 DEF OnlyAhead
<1>6. QED  BY <1>2, <1>3, <1>4, <1>5 DEF Promise!Next

\* NoRowTwice: on sqlite no connection is sent a row twice, over any polls, stalls
\* and restarts.  It follows from the promise; with MongoDB, whose rows have no id,
\* the feed does not keep it.
THEOREM NoRowIsSentTwice ==
  ASSUME Backend = "sqlite"
  PROVE  Spec => []NoRowTwice
<1>1. Init => OnlyAhead
  BY DEF Init, OnlyAhead
<1>2. FeedInv /\ [Next]_vars => [Promise!Next]_Promise!vars
  BY TailStep
<1>3. FeedInv => TypeOK
  BY DEF FeedInv
<1>4. FeedInv /\ OnlyAhead /\ [Promise!Next]_Promise!vars => OnlyAhead'
  BY TailGoesAhead
<1>5. TypeOK /\ OnlyAhead => NoRowTwice
  <2> SUFFICES ASSUME TypeOK, OnlyAhead, NEW ws \in Connections
               PROVE  IsInjective(received[ws])
    BY DEF NoRowTwice
  <2> DEFINE s == received[ws]
  <2>1. /\ DOMAIN s = 1 .. Len(s) /\ Len(s) \in Nat
        /\ \A i \in DOMAIN s : s[i] \in Nat
    <3>1. s \in Seq(1 .. rows)
      BY DEF TypeOK
    <3>2. rows \in Nat /\ 1 .. rows \subseteq Nat
      BY DEF TypeOK
    <3> HIDE DEF s
    <3>3. QED  BY <3>1, <3>2
  <2>2. \A i, j \in DOMAIN s : i < j => s[i] < s[j]
    BY DEF OnlyAhead
  <2> HIDE DEF s
  <2>3. \A i, j \in DOMAIN s : s[i] = s[j] => i = j
    BY <2>1, <2>2
  <2>4. QED  BY <2>3 DEF IsInjective, s
<1>6. QED  BY <1>1, <1>2, <1>3, <1>4, <1>5, InvCorrect, PTL DEF Spec
=============================================================================
