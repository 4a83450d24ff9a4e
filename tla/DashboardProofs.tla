--------------------------- MODULE DashboardProofs --------------------------
(***************************************************************************)
(* Theorems about Dashboard, for every limit, every number of rows, pages  *)
(* and polls in flight.                                                    *)
(***************************************************************************)
EXTENDS Dashboard, TLAPS

USE DashboardConstants
-----------------------------------------------------------------------------
(* What a page's three paths have put in the table. *)

\* Between two pages nothing is left of the first, no connection and no
\* request; and only a live page polls.
PageInv ==
  /\ page = "login" => \A r \in Requests : request[r] = "idle"
  /\ page = "live" => \A r \in Initial : request[r] = "idle"
  /\ page # "live" => \A r \in Polls : request[r] = "idle"
  /\ \A conn \in 1 .. MaxLoads :
       cursor[conn] # Off => conn = load /\ page = "live" /\ cursor[conn] <= rows
  /\ \A conn \in 1 .. MaxLoads :
       conn > load \/ (conn = load /\ page \in {"loading", "stuck"})
         => received[conn] = << >>

\* The feed's messages are the rows after the one the connection began with.
FeedInv ==
  IF page = "live"
  THEN /\ got <= Len(received[load])
       /\ joined + Len(received[load]) <= rows
       /\ \A i \in 1 .. Len(received[load]) : received[load][i] = joined + i
       /\ cursor[load] # Off => cursor[load] = joined + Len(received[load])
       /\ shown["feed"] = [i \in 1 .. got |-> joined + i]
  ELSE got = 0 /\ joined = 0 /\ shown["feed"] = << >> /\ lastPollId = 0

\* The first load and the polls: windows of the store, the polls' without what
\* an earlier one has shown.
WindowInv ==
  /\ shown["load"] = Ids(Older(loaded, LoadLimit), loaded)
  /\ \A i, j \in DOMAIN shown["poll"] : i < j => shown["poll"][i] < shown["poll"][j]
  /\ \A i \in DOMAIN shown["poll"] : shown["poll"][i] <= lastPollId
  /\ \A id \in Older(lastPollId, PollLimit) + 1 .. lastPollId :
       \E i \in DOMAIN shown["poll"] : shown["poll"][i] = id

TableInv == TypeOK /\ PageInv /\ FeedInv /\ WindowInv
-----------------------------------------------------------------------------
(* Windows. *)

LEMMA OlderType ==
  ASSUME NEW n \in Nat, NEW limit \in Nat \ {0}
  PROVE  Older(n, limit) \in Nat /\ Older(n, limit) <= n
BY DEF Older

\* Ids(a, b) is empty, or counts from a + 1 to b.
LEMMA IdsType ==
  ASSUME NEW a \in Nat, NEW b \in Nat
  PROVE  /\ Len(Ids(a, b)) = IF b > a THEN b - a ELSE 0
         /\ DOMAIN Ids(a, b) = 1 .. Len(Ids(a, b))
         /\ \A i \in 1 .. Len(Ids(a, b)) : Ids(a, b)[i] = a + i
         /\ Ids(a, b) \in Seq(1 .. b)
         /\ \A i \in 1 .. Len(Ids(a, b)) : Ids(a, b)[i] <= b
         /\ \A id \in a + 1 .. b : \E i \in 1 .. Len(Ids(a, b)) : Ids(a, b)[i] = id
<1>1. CASE b > a
  <2>1. b - a \in Nat
    BY <1>1
  <2>2. Ids(a, b) \in [1 .. b - a -> 1 .. b]
    BY <1>1 DEF Ids
  <2>3. Ids(a, b) \in Seq(1 .. b) /\ Len(Ids(a, b)) = b - a
    BY <2>1, <2>2
  <2>4. ASSUME NEW id \in a + 1 .. b
        PROVE  \E i \in 1 .. b - a : Ids(a, b)[i] = id
    <3>1. id - a \in 1 .. b - a /\ a + (id - a) = id
      BY <2>1
    <3>2. QED  BY <3>1 DEF Ids
  <2>5. QED  BY <1>1, <2>1, <2>2, <2>3, <2>4 DEF Ids
<1>2. CASE ~(b > a)
  <2>1. 1 .. b - a = {} /\ a + 1 .. b = {}
    BY <1>2
  <2>2. Ids(a, b) = << >>
    BY <2>1 DEF Ids
  <2>3. QED  BY <1>2, <2>1, <2>2
<1>3. QED  BY <1>1, <1>2

\* Rows that are there stay there.
LEMMA RowsGrow ==
  ASSUME NEW n \in Nat, NEW m \in Nat, n <= m, NEW s \in Seq(1 .. n)
  PROVE  s \in Seq(1 .. m)
<1>1. s \in [1 .. Len(s) -> 1 .. n] /\ Len(s) \in Nat
  OBVIOUS
<1>2. s \in [1 .. Len(s) -> 1 .. m]
  BY <1>1
<1>3. QED  BY <1>1, <1>2
-----------------------------------------------------------------------------
(* Steps of the table. *)

\* A poll's answer continues what the polls have shown.
LEMMA PollContinues ==
  ASSUME TypeOK, WindowInv, NEW r \in Polls, PollArrives(r)
  PROVE  WindowInv' /\ shown' \in [Paths -> Seq(1 .. rows)]
                    /\ lastPollId' \in 0 .. rows
<1> DEFINE n == answer[r]
           a == AlreadyShown(n)
           polls == shown["poll"]
           new == Ids(a, n)
<1>1. /\ n \in Nat /\ n <= rows /\ rows \in Nat
      /\ lastPollId \in Nat /\ lastPollId <= rows
      /\ polls \in Seq(1 .. rows) /\ Len(polls) \in Nat /\ DOMAIN polls = 1 .. Len(polls)
  BY DEF TypeOK, Requests, Paths
<1>2. /\ Older(n, PollLimit) \in Nat /\ Older(n, PollLimit) <= n
      /\ a \in Nat /\ a >= lastPollId /\ a >= Older(n, PollLimit)
      /\ a = lastPollId \/ a = Older(n, PollLimit)
  <2> HIDE DEF n
  <2>1. Older(n, PollLimit) \in Nat /\ Older(n, PollLimit) <= n
    BY <1>1, OlderType
  <2>2. a = IF lastPollId > Older(n, PollLimit) THEN lastPollId ELSE Older(n, PollLimit)
    BY DEF AlreadyShown
  <2> HIDE DEF a
  <2>3. QED  BY <1>1, <2>1, <2>2
<1>3. /\ lastPollId' = IF n > lastPollId THEN n ELSE lastPollId
      /\ shown' = [shown EXCEPT !["poll"] = polls \o new]
      /\ UNCHANGED <<rows, loaded>>
  BY DEF PollArrives, Newest, feedVars
<1>4. /\ Len(new) \in Nat /\ DOMAIN new = 1 .. Len(new)
      /\ \A i \in 1 .. Len(new) : new[i] = a + i /\ new[i] <= n
      /\ new \in Seq(1 .. rows)
      /\ \A id \in a + 1 .. n : \E i \in 1 .. Len(new) : new[i] = id
  <2> HIDE DEF n, a
  <2>1. a \in Nat /\ n \in Nat
    BY <1>1, <1>2
  <2>2. new \in Seq(1 .. n)
    BY <2>1, IdsType
  <2>3. new \in Seq(1 .. rows)
    <3> HIDE DEF new
    <3>1. QED  BY <1>1, <2>2, RowsGrow
  <2>4. \A i \in 1 .. Len(new) : new[i] <= n
    BY <2>1, IdsType
  <2>5. DOMAIN new = 1 .. Len(new) /\ \A i \in 1 .. Len(new) : new[i] = a + i
    BY <2>1, IdsType
  <2>6. \A id \in a + 1 .. n : \E i \in 1 .. Len(new) : new[i] = id
    BY <2>1, IdsType
  <2> HIDE DEF new
  <2>7. Len(new) \in Nat
    BY <2>2
  <2>8. QED  BY <2>3, <2>4, <2>5, <2>6, <2>7
<1> HIDE DEF new, a, polls, n
<1>5. /\ shown'["poll"] = polls \o new /\ shown'["load"] = shown["load"]
      /\ polls \o new \in Seq(1 .. rows)
      /\ shown' \in [Paths -> Seq(1 .. rows)]
  <2>1. polls \o new \in Seq(1 .. rows)
    BY <1>1, <1>4
  <2>2. shown \in [Paths -> Seq(1 .. rows)] /\ "poll" \in Paths /\ "load" \in Paths
    BY DEF TypeOK, Paths
  <2>3. shown' \in [Paths -> Seq(1 .. rows)]
    BY <1>3, <2>1, <2>2
  <2>4. shown'["poll"] = polls \o new /\ shown'["load"] = shown["load"]
    BY <1>3, <2>2
  <2>5. QED  BY <2>1, <2>3, <2>4
<1>6. /\ Len(polls \o new) = Len(polls) + Len(new)
      /\ DOMAIN (polls \o new) = 1 .. Len(polls) + Len(new)
      /\ \A i \in 1 .. Len(polls) : (polls \o new)[i] = polls[i]
      /\ \A i \in Len(polls) + 1 .. Len(polls) + Len(new) :
           (polls \o new)[i] = new[i - Len(polls)]
  BY <1>1, <1>4
<1>7. /\ \A i, j \in DOMAIN polls : i < j => polls[i] < polls[j]
      /\ \A i \in DOMAIN polls : polls[i] <= lastPollId /\ polls[i] \in 1 .. rows
  BY <1>1 DEF WindowInv, polls
<1>8. ASSUME NEW i \in DOMAIN (polls \o new), NEW j \in DOMAIN (polls \o new), i < j
      PROVE  (polls \o new)[i] < (polls \o new)[j]
  <2>1. CASE j <= Len(polls)
    BY <1>1, <1>6, <1>7, <1>8, <2>1
  <2>2. CASE i > Len(polls)
    <3>1. /\ i - Len(polls) \in 1 .. Len(new) /\ j - Len(polls) \in 1 .. Len(new)
          /\ i - Len(polls) < j - Len(polls)
      BY <1>1, <1>4, <1>6, <1>8, <2>2
    <3>2. (polls \o new)[i] = a + (i - Len(polls)) /\ (polls \o new)[j] = a + (j - Len(polls))
      BY <1>1, <1>4, <1>6, <1>8, <2>2, <3>1
    <3>3. QED  BY <1>2, <3>1, <3>2
  <2>3. CASE i <= Len(polls) /\ j > Len(polls)
    <3>1. i \in 1 .. Len(polls) /\ j - Len(polls) \in 1 .. Len(new)
      BY <1>1, <1>4, <1>6, <2>3
    <3>2. (polls \o new)[i] <= lastPollId /\ (polls \o new)[i] \in Nat
      BY <1>1, <1>6, <1>7, <3>1
    <3>3. (polls \o new)[j] = a + (j - Len(polls))
      BY <1>1, <1>4, <1>6, <2>3, <3>1
    <3>4. QED  BY <1>1, <1>2, <3>1, <3>2, <3>3
  <2>4. i \in 1 .. Len(polls) + Len(new) /\ j \in 1 .. Len(polls) + Len(new)
    BY <1>6
  <2>5. j <= Len(polls) \/ i > Len(polls) \/ (i <= Len(polls) /\ j > Len(polls))
    BY <1>1, <1>4, <2>4
  <2>6. QED  BY <2>1, <2>2, <2>3, <2>5
<1>9. ASSUME NEW i \in DOMAIN (polls \o new)
      PROVE  (polls \o new)[i] <= lastPollId'
  <2>1. CASE i \in 1 .. Len(polls)
    BY <1>1, <1>3, <1>6, <1>7, <2>1
  <2>2. CASE i \in Len(polls) + 1 .. Len(polls) + Len(new)
    <3>1. i - Len(polls) \in 1 .. Len(new)
      BY <1>1, <1>4, <2>2
    <3>2. (polls \o new)[i] <= n /\ (polls \o new)[i] \in Nat
      <4>1. (polls \o new)[i] = new[i - Len(polls)]
        BY <1>6, <2>2
      <4>2. new[i - Len(polls)] <= n /\ new[i - Len(polls)] = a + (i - Len(polls))
        BY <1>4, <3>1
      <4>3. a \in Nat /\ i - Len(polls) \in Nat
        BY <1>2, <1>4, <3>1
      <4>4. a + (i - Len(polls)) \in Nat
        BY <4>3
      <4>5. QED  BY <4>1, <4>2, <4>4
    <3>3. QED  BY <1>1, <1>3, <3>2 DEF n
  <2>3. QED  BY <1>1, <1>4, <1>6, <2>1, <2>2
<1>10. ASSUME NEW id \in Older(lastPollId', PollLimit) + 1 .. lastPollId'
       PROVE  \E i \in DOMAIN (polls \o new) : (polls \o new)[i] = id
  <2>1. /\ \A old \in Older(lastPollId, PollLimit) + 1 .. lastPollId :
             \E i \in DOMAIN polls : polls[i] = old
        /\ \A i \in DOMAIN polls : i \in DOMAIN (polls \o new)
    BY <1>1, <1>4, <1>6 DEF WindowInv, polls
  <2>2. Older(lastPollId, PollLimit) \in Nat
    BY <1>1, OlderType
  <2>3. CASE n > lastPollId
    <3>1. lastPollId' = n
      BY <1>3, <2>3 DEF n
    <3>2. id \in Nat /\ id > Older(n, PollLimit) /\ id <= n
      BY <1>1, <1>2, <1>10, <3>1
    <3>3. CASE id > a
      <4>1. PICK i \in 1 .. Len(new) : new[i] = id
        BY <1>2, <1>4, <3>2, <3>3
      <4>2. Len(polls) + i \in Len(polls) + 1 .. Len(polls) + Len(new)
        BY <1>1, <1>4
      <4>3. (polls \o new)[Len(polls) + i] = id
        <5>1. (Len(polls) + i) - Len(polls) = i
          BY <1>1, <1>4
        <5>2. (polls \o new)[Len(polls) + i] = new[(Len(polls) + i) - Len(polls)]
          BY <1>6, <4>2
        <5>3. QED  BY <4>1, <5>1, <5>2
      <4>4. Len(polls) + i \in DOMAIN (polls \o new)
        BY <1>1, <1>4, <1>6, <4>2
      <4>5. QED  BY <4>3, <4>4
    <3>4. CASE id <= a
      <4>1. a = lastPollId
        BY <1>2, <3>2, <3>4
      <4>2. Older(n, PollLimit) >= Older(lastPollId, PollLimit)
        BY <1>1, <2>3 DEF Older
      <4>3. id \in Older(lastPollId, PollLimit) + 1 .. lastPollId
        BY <1>1, <1>2, <2>2, <3>2, <3>4, <4>1, <4>2
      <4>4. QED  BY <1>1, <1>6, <2>1, <4>3
    <3>5. QED  BY <1>2, <3>2, <3>3, <3>4
  <2>4. CASE ~(n > lastPollId)
    <3>1. lastPollId' = lastPollId
      BY <1>3, <2>4 DEF n
    <3>2. QED  BY <1>1, <1>6, <1>10, <2>1, <3>1
  <2>5. QED  BY <2>3, <2>4
<1>11. lastPollId' \in 0 .. rows
  BY <1>1, <1>3 DEF n
<1>12. QED
  BY <1>3, <1>5, <1>8, <1>9, <1>10, <1>11 DEF WindowInv
-----------------------------------------------------------------------------
(* The feed's steps. *)

\* A step that moves no page and no path into the table.
LEMMA WindowFrame ==
  ASSUME WindowInv, UNCHANGED <<shown, loaded, lastPollId>>
  PROVE  WindowInv'
BY DEF WindowInv

LEMMA WriteKeeps ==
  ASSUME TableInv, write
  PROVE  TableInv'
<1>1. /\ rows' = rows + 1 /\ rows \in Nat
      /\ UNCHANGED <<received, cursor, token, page, load, request, answer, pageVars>>
  BY DEF TableInv, TypeOK, write, Feed!Insert
<1>2. TypeOK'
  <2>1. \A path \in Paths : shown[path] \in Seq(1 .. rows + 1)
    <3>1. \A path \in Paths : shown[path] \in Seq(1 .. rows)
      BY DEF TableInv, TypeOK
    <3>2. QED  BY <1>1, <3>1, RowsGrow
  <2>2. shown \in [Paths -> Seq(1 .. rows + 1)]
    BY <2>1 DEF TableInv, TypeOK
  <2>3. 0 .. rows \subseteq 0 .. rows + 1
    BY <1>1
  <2>4. /\ answer \in [Requests -> 0 .. rows + 1]
        /\ lastPollId \in 0 .. rows + 1 /\ loaded \in 0 .. rows + 1
        /\ joined \in 0 .. rows + 1
    BY <2>3 DEF TableInv, TypeOK
  <2>5. QED  BY <1>1, <2>2, <2>4 DEF TableInv, TypeOK, pageVars
<1>3. PageInv'
  <2>1. \A conn \in 1 .. MaxLoads : cursor[conn] \in Nat \cup {Off}
    BY DEF TableInv, TypeOK
  <2>2. QED  BY <1>1, <2>1 DEF TableInv, PageInv
<1>4. FeedInv'
  <2>1. CASE page = "live"
    <3>1. received[load] \in Seq(Nat) /\ Len(received[load]) \in Nat /\ joined \in Nat
      BY <2>1 DEF TableInv, TypeOK
    <3>2. QED  BY <1>1, <2>1, <3>1 DEF TableInv, FeedInv, pageVars
  <2>2. CASE page # "live"
    BY <1>1, <2>2 DEF TableInv, FeedInv, pageVars
  <2>3. QED  BY <2>1, <2>2
<1>5. WindowInv'
  BY <1>1, WindowFrame DEF TableInv, pageVars
<1>6. QED  BY <1>2, <1>3, <1>4, <1>5 DEF TableInv

LEMMA DeliverKeeps ==
  ASSUME TableInv, Deliver
  PROVE  TableInv'
<1>1. /\ load \in 1 .. MaxLoads /\ cursor[load] # Off /\ cursor[load] \in Nat
      /\ cursor[load] < rows /\ rows \in Nat
      /\ cursor' = [cursor EXCEPT ![load] = cursor[load] + 1]
      /\ received' = [received EXCEPT ![load] = Append(received[load], cursor[load] + 1)]
      /\ UNCHANGED <<rows, token, page, load, request, answer, pageVars>>
  BY DEF TableInv, TypeOK, Deliver, Feed!Deliver
<1>2. /\ page = "live" /\ received[load] \in Seq(Nat) /\ Len(received[load]) \in Nat
      /\ joined \in Nat /\ got \in Nat
  BY <1>1 DEF TableInv, TypeOK, PageInv
<1>3. /\ cursor'[load] = cursor[load] + 1
      /\ received'[load] = Append(received[load], cursor[load] + 1)
      /\ \A conn \in (1 .. MaxLoads) \ {load} :
           cursor'[conn] = cursor[conn] /\ received'[conn] = received[conn]
  BY <1>1 DEF TableInv, TypeOK
<1>4. /\ Len(received'[load]) = Len(received[load]) + 1
      /\ received'[load] \in Seq(Nat)
      /\ \A i \in 1 .. Len(received[load]) : received'[load][i] = received[load][i]
      /\ received'[load][Len(received[load]) + 1] = cursor[load] + 1
  BY <1>1, <1>2, <1>3
<1>5. TypeOK'
  <2>1. received' \in [1 .. MaxLoads -> Seq(Nat)]
    BY <1>1, <1>2 DEF TableInv, TypeOK
  <2>2. cursor' \in [1 .. MaxLoads -> Nat \cup {Off}]
    BY <1>1 DEF TableInv, TypeOK
  <2>3. QED  BY <1>1, <2>1, <2>2 DEF TableInv, TypeOK, pageVars
<1>6. PageInv'
  BY <1>1, <1>2, <1>3 DEF TableInv, PageInv
<1>7. FeedInv'
  <2>1. /\ got <= Len(received[load])
        /\ \A i \in 1 .. Len(received[load]) : received[load][i] = joined + i
        /\ cursor[load] = joined + Len(received[load])
        /\ shown["feed"] = [i \in 1 .. got |-> joined + i]
    BY <1>1, <1>2 DEF TableInv, FeedInv
  <2>2. \A i \in 1 .. Len(received'[load]) : received'[load][i] = joined + i
    <3>1. ASSUME NEW i \in 1 .. Len(received[load]) + 1
          PROVE  received'[load][i] = joined + i
      <4>1. CASE i = Len(received[load]) + 1
        BY <1>2, <1>4, <2>1, <4>1
      <4>2. CASE i \in 1 .. Len(received[load])
        BY <1>4, <2>1, <4>2
      <4>3. QED  BY <1>2, <3>1, <4>1, <4>2
    <3>2. QED  BY <1>4, <3>1
  <2>3. /\ got <= Len(received'[load])
        /\ joined + Len(received'[load]) <= rows
        /\ cursor'[load] = joined + Len(received'[load])
    BY <1>1, <1>2, <1>3, <1>4, <2>1
  <2>4. QED  BY <1>1, <1>2, <2>1, <2>2, <2>3 DEF FeedInv, pageVars
<1>8. WindowInv'
  BY <1>1, WindowFrame DEF TableInv, pageVars
<1>9. QED  BY <1>5, <1>6, <1>7, <1>8 DEF TableInv

\* Connections that end leave what was received.
LEMMA DisconnectKeeps ==
  ASSUME TableInv, Disconnect
  PROVE  TableInv'
<1>1. /\ load \in 1 .. MaxLoads
      /\ cursor' = [conn \in 1 .. MaxLoads |-> IF conn \in {load} THEN Off ELSE cursor[conn]]
      /\ UNCHANGED <<rows, received, token, page, load, request, answer, pageVars>>
  BY DEF TableInv, TypeOK, Disconnect, Feed!Disconnect
<1>2. /\ cursor' \in [1 .. MaxLoads -> Nat \cup {Off}] /\ cursor'[load] = Off
      /\ \A conn \in 1 .. MaxLoads : cursor'[conn] # Off => cursor'[conn] = cursor[conn]
  BY <1>1 DEF TableInv, TypeOK
<1>3. TypeOK'
  BY <1>1, <1>2 DEF TableInv, TypeOK, pageVars
<1>4. PageInv'
  BY <1>1, <1>2 DEF TableInv, PageInv
<1>5. FeedInv'
  BY <1>1, <1>2 DEF TableInv, FeedInv, pageVars
<1>6. QED  BY <1>1, <1>3, <1>4, <1>5, WindowFrame DEF TableInv, pageVars
-----------------------------------------------------------------------------
(* The page's steps. *)

\* A request and its answer: nothing else moves.
LEMMA RequestKeeps ==
  ASSUME TableInv, NEW r \in Requests,
         \/ Answer(r) \/ Fail(r) \/ Poll(r)
         \/ Expire
  PROVE  TableInv'
<1>1. UNCHANGED <<feedVars, load, pageVars>>
  BY DEF Answer, Fail, Poll, Expire
<1>2. /\ request' \in [Requests -> {"idle", "asked", "answered", "denied"}]
      /\ answer' \in [Requests -> 0 .. rows]
      /\ rows \in Nat
  <2>1. /\ request \in [Requests -> {"idle", "asked", "answered", "denied"}]
        /\ answer \in [Requests -> 0 .. rows]
        /\ rows \in Nat /\ rows \in 0 .. rows
    BY DEF TableInv, TypeOK
  <2>2. \/ request' = request
        \/ request' = [request EXCEPT ![r] = "idle"]
        \/ request' = [request EXCEPT ![r] = "asked"]
        \/ request' = [request EXCEPT ![r] = "answered"]
        \/ request' = [request EXCEPT ![r] = "denied"]
    BY DEF Answer, Fail, Poll, Expire
  <2>3. answer' = answer \/ answer' = [answer EXCEPT ![r] = rows]
    BY DEF Answer, Fail, Poll, Expire
  <2>4. QED  BY <2>1, <2>2, <2>3
<1>3. CASE Answer(r) \/ Poll(r) \/ Expire
  <2>1. page' = page /\ token' \in {"none", "valid", "invalid"}
        /\ (token' = "none" <=> token = "none")
    BY <1>3 DEF TableInv, TypeOK, Answer, Poll, Expire
  <2>2. TypeOK'
    BY <1>1, <1>2, <2>1 DEF TableInv, TypeOK, feedVars, pageVars
  <2>3. /\ page = "login" => \A q \in Requests : request'[q] = "idle"
        /\ page = "live" => \A q \in Initial : request'[q] = "idle"
        /\ page # "live" => \A q \in Polls : request'[q] = "idle"
    <3>1. CASE Answer(r)
      BY <3>1 DEF TableInv, TypeOK, PageInv, Answer, Requests
    <3>2. CASE Poll(r)
      <4>1. page = "live" /\ r \in Polls /\ r \notin Initial
        BY <3>2 DEF TableInv, TypeOK, Poll
      <4>2. QED  BY <3>2, <4>1 DEF TableInv, TypeOK, PageInv, Poll, Requests
    <3>3. CASE Expire
      BY <3>3 DEF TableInv, TypeOK, PageInv, Expire, Requests
    <3>4. QED  BY <1>3, <3>1, <3>2, <3>3
  <2>4. PageInv'
    BY <1>1, <2>1, <2>3 DEF TableInv, PageInv, feedVars
  <2>5. FeedInv'
    BY <1>1, <2>1 DEF TableInv, FeedInv, feedVars, pageVars
  <2>6. QED  BY <1>1, <2>2, <2>4, <2>5, WindowFrame DEF TableInv, pageVars
<1>4. CASE Fail(r)
  <2>1. page \in {"loading", "stuck"} \/ r \in Polls
    BY <1>4 DEF TableInv, TypeOK, PageInv, Fail, Requests
  <2>2. CASE r \in Initial
    <3>1. page \in {"loading", "stuck"} /\ page' = "stuck" /\ token' = token
      BY <1>4, <2>1, <2>2 DEF Fail
    <3>2. TypeOK'
      BY <1>1, <1>2, <3>1 DEF TableInv, TypeOK, feedVars, pageVars
    <3>3. PageInv'
      <4>1. \A q \in Polls : request'[q] = request[q]
        BY <1>4, <2>2 DEF Fail, TableInv, TypeOK, Requests
      <4>2. QED  BY <1>1, <3>1, <4>1 DEF TableInv, PageInv, feedVars
    <3>4. FeedInv'
      BY <1>1, <3>1 DEF TableInv, FeedInv, feedVars, pageVars
    <3>5. QED  BY <1>1, <3>2, <3>3, <3>4, WindowFrame DEF TableInv, pageVars
  <2>3. CASE r \notin Initial
    <3>1. page' = page /\ token' = token
      BY <1>4, <2>3 DEF Fail
    <3>2. TypeOK'
      BY <1>1, <1>2, <3>1 DEF TableInv, TypeOK, feedVars, pageVars
    <3>3. /\ page = "login" => \A q \in Requests : request'[q] = "idle"
          /\ page = "live" => \A q \in Initial : request'[q] = "idle"
          /\ page # "live" => \A q \in Polls : request'[q] = "idle"
      BY <1>4, <2>3 DEF TableInv, TypeOK, PageInv, Fail, Requests
    <3>4. PageInv'
      BY <1>1, <3>1, <3>3 DEF TableInv, PageInv, feedVars
    <3>5. FeedInv'
      BY <1>1, <3>1 DEF TableInv, FeedInv, feedVars, pageVars
    <3>6. QED  BY <1>1, <3>2, <3>4, <3>5, WindowFrame DEF TableInv, pageVars
  <2>4. QED  BY <2>2, <2>3
<1>5. QED  BY <1>3, <1>4

\* A new page starts with an empty table and without a connection.
LEMMA FreshKeeps ==
  ASSUME TableInv, Fresh,
         \/ login
         \/ Reload
         \/ ToLogin
  PROVE  TableInv'
<1>1. /\ ws' = "none" /\ got' = 0 /\ polling' = FALSE /\ lastPollId' = 0
      /\ shown' = [path \in Paths |-> << >>]
      /\ loaded' = 0 /\ joined' = 0
      /\ answer' = [r \in Requests |-> 0]
  BY DEF Fresh
<1>2. /\ UNCHANGED <<rows, received>>
      /\ cursor' = [conn \in 1 .. MaxLoads |-> Off]
  <2>1. /\ cursor \in [1 .. MaxLoads -> Nat \cup {Off}]
        /\ \A conn \in 1 .. MaxLoads : conn # load \/ page = "login" => cursor[conn] = Off
    BY DEF TableInv, TypeOK, PageInv
  <2>2. CASE login
    BY <2>1, <2>2 DEF login, feedVars
  <2>3. CASE Reload \/ ToLogin
    BY <2>1, <2>3 DEF Reload, ToLogin, Feed!Disconnect
  <2>4. QED  BY <2>2, <2>3
<1>3. /\ load \in 0 .. MaxLoads /\ load' \in 0 .. MaxLoads /\ load' >= load
      /\ \/ page' = "loading" /\ load' = load + 1 /\ token' \in {"valid", "invalid"}
            /\ request' = [r \in Requests |-> IF r \in Initial THEN "asked" ELSE "idle"]
         \/ page' = "login" /\ load' = load /\ token' = "none"
            /\ request' = [r \in Requests |-> "idle"]
  <2>1. load \in 0 .. MaxLoads /\ MaxLoads \in Nat
        /\ token \in {"none", "valid", "invalid"} /\ (page = "login" <=> token = "none")
    BY DEF TableInv, TypeOK
  <2>2. CASE login \/ Reload
    BY <2>1, <2>2 DEF login, Reload, start
  <2>3. CASE ToLogin
    BY <2>1, <2>3 DEF ToLogin
  <2>4. QED  BY <2>2, <2>3
<1>4. Ids(0, 0) = << >> /\ Older(0, LoadLimit) = 0 /\ Older(0, PollLimit) = 0
  <2>1. 1 .. 0 - 0 = {}
    OBVIOUS
  <2>2. QED  BY <2>1 DEF Ids, Older
<1>5. TypeOK'
  <2>1. 0 \in 0 .. rows /\ << >> \in Seq(1 .. rows)
    BY DEF TableInv, TypeOK
  <2>2. /\ request' \in [Requests -> {"idle", "asked", "answered", "denied"}]
        /\ answer' \in [Requests -> 0 .. rows]
        /\ shown' \in [Paths -> Seq(1 .. rows)]
        /\ cursor' \in [1 .. MaxLoads -> Nat \cup {Off}]
    BY <1>1, <1>2, <1>3, <2>1
  <2>3. /\ page' = "login" <=> token' = "none"
        /\ page' \in {"loading", "login"}
        /\ page' # "login" => load' # 0
        /\ token' \in {"none", "valid", "invalid"}
    BY <1>3
  <2>4. QED  BY <1>1, <1>2, <1>3, <2>1, <2>2, <2>3 DEF TableInv, TypeOK
<1>6. PageInv'
  <2>1. \A conn \in 1 .. MaxLoads :
          conn > load' \/ (conn = load' /\ page' \in {"loading", "stuck"})
            => received'[conn] = << >>
    BY <1>2, <1>3 DEF TableInv, PageInv
  <2>2. /\ page' = "login" => \A r \in Requests : request'[r] = "idle"
        /\ page' # "live"
        /\ \A r \in Polls : request'[r] = "idle"
    BY <1>3 DEF Requests
  <2>3. \A conn \in 1 .. MaxLoads : cursor'[conn] = Off
    BY <1>2
  <2>4. QED  BY <2>1, <2>2, <2>3 DEF PageInv
<1>7. FeedInv'
  BY <1>1, <1>3 DEF FeedInv, Paths
<1>8. WindowInv'
  <2>1. /\ shown'["load"] = << >> /\ DOMAIN shown'["poll"] = {}
        /\ 0 + 1 .. 0 = {}
    BY <1>1 DEF Paths
  <2>2. QED  BY <1>1, <1>4, <2>1 DEF WindowInv
<1>9. QED  BY <1>5, <1>6, <1>7, <1>8 DEF TableInv

\* The answers of the first load.
LEMMA ArriveKeeps ==
  ASSUME TableInv, NEW r \in Requests, Arrive(r)
  PROVE  TableInv'
<1>1. /\ r \in Initial /\ request[r] = "answered"
      /\ request' = [request EXCEPT ![r] = "idle"]
      /\ answer' = [answer EXCEPT ![r] = 0]
      /\ UNCHANGED <<rows, received, cursor, token, page, load, ws, got, polling,
                     lastPollId, joined>>
  BY DEF Arrive, feedVars
<1>2. answer[r] \in Nat /\ answer[r] <= rows /\ rows \in Nat /\ loaded \in Nat
  BY DEF TableInv, TypeOK
<1>3. /\ shown' \in [Paths -> Seq(1 .. rows)] /\ loaded' \in 0 .. rows
      /\ shown'["feed"] = shown["feed"] /\ shown'["poll"] = shown["poll"]
      /\ shown'["load"] = Ids(Older(loaded', LoadLimit), loaded')
  <2>1. CASE r = "events"
    <3>1. /\ loaded' = answer[r]
          /\ shown' = [shown EXCEPT !["load"] = Ids(Older(answer[r], LoadLimit), answer[r])]
      BY <2>1 DEF Arrive
    <3>2. Ids(Older(answer[r], LoadLimit), answer[r]) \in Seq(1 .. answer[r])
      BY <1>2, OlderType, IdsType
    <3>3. Ids(Older(answer[r], LoadLimit), answer[r]) \in Seq(1 .. rows)
      BY <1>2, <3>2, RowsGrow
    <3>4. QED  BY <1>2, <3>1, <3>3 DEF TableInv, TypeOK, Paths
  <2>2. CASE r # "events"
    <3>1. shown' = shown /\ loaded' = loaded
      BY <2>2 DEF Arrive
    <3>2. QED  BY <3>1 DEF TableInv, TypeOK, WindowInv
  <2>3. QED  BY <2>1, <2>2
<1>4. TypeOK'
  <2>1. /\ request' \in [Requests -> {"idle", "asked", "answered", "denied"}]
        /\ answer' \in [Requests -> 0 .. rows]
    BY <1>1, <1>2 DEF TableInv, TypeOK
  <2>2. QED  BY <1>1, <1>3, <2>1 DEF TableInv, TypeOK
<1>5. PageInv'
  <2>1. \A q \in Requests : request[q] = "idle" => request'[q] = "idle"
    BY <1>1 DEF TableInv, TypeOK
  <2>2. Initial \subseteq Requests /\ Polls \subseteq Requests
    BY DEF Requests
  <2>3. QED  BY <1>1, <2>1, <2>2 DEF TableInv, PageInv
<1>6. FeedInv'
  BY <1>1, <1>3 DEF TableInv, FeedInv
<1>7. WindowInv'
  BY <1>1, <1>3 DEF TableInv, WindowInv
<1>8. QED  BY <1>4, <1>5, <1>6, <1>7 DEF TableInv

\* The page connects; an invalid token gets no connection.
LEMMA ConnectKeeps ==
  ASSUME TableInv, connectFeed
  PROVE  TableInv'
<1>1. /\ page = "loading" /\ page' = "live" /\ ws = "none" /\ ws' = "open"
      /\ load \in 1 .. MaxLoads /\ received[load] = << >>
      /\ cursor[load] = Off /\ got = 0 /\ joined = 0 /\ shown["feed"] = << >>
      /\ \A r \in Initial : request[r] = "idle"
      /\ UNCHANGED <<rows, received, token, load, request, answer, got, polling,
                     lastPollId, shown, loaded>>
  <2>1. load \in 1 .. MaxLoads
    BY DEF connectFeed, TableInv, TypeOK
  <2>2. QED
    BY <2>1 DEF connectFeed, TableInv, TypeOK, PageInv, FeedInv, Feed!Connect, feedVars
<1>2. /\ joined' \in 0 .. rows
      /\ \/ cursor' = cursor /\ joined' = joined
         \/ cursor' = [cursor EXCEPT ![load] = joined'] /\ joined' \in Nat
  <2>1. CASE token = "valid"
    <3>1. PICK from \in 0 .. rows : cursor' = [cursor EXCEPT ![load] = from]
      BY <2>1 DEF connectFeed, Feed!Connect
    <3>2. cursor'[load] = from /\ joined' = cursor'[load] /\ from \in Nat
      BY <1>1, <2>1, <3>1 DEF connectFeed, TableInv, TypeOK
    <3>3. QED  BY <3>1, <3>2
  <2>2. CASE token # "valid"
    BY <2>2 DEF connectFeed, feedVars, TableInv, TypeOK
  <2>3. QED  BY <2>1, <2>2
<1>3. /\ cursor' \in [1 .. MaxLoads -> Nat \cup {Off}]
      /\ cursor'[load] # Off => cursor'[load] = joined' /\ cursor'[load] <= rows
      /\ \A conn \in (1 .. MaxLoads) \ {load} : cursor'[conn] = Off
  <2>1. /\ cursor \in [1 .. MaxLoads -> Nat \cup {Off}] /\ rows \in Nat
        /\ \A conn \in 1 .. MaxLoads : cursor[conn] = Off
    BY <1>1 DEF TableInv, TypeOK, PageInv
  <2>2. CASE cursor' = cursor
    BY <1>1, <2>1, <2>2
  <2>3. CASE cursor' = [cursor EXCEPT ![load] = joined'] /\ joined' \in Nat
    BY <1>1, <1>2, <2>1, <2>3
  <2>4. QED  BY <1>2, <2>2, <2>3
<1>4. TypeOK'
  BY <1>1, <1>2, <1>3 DEF TableInv, TypeOK
<1>5. PageInv'
  BY <1>1, <1>3 DEF TableInv, PageInv
<1>6. FeedInv'
  <2>1. Len(received[load]) = 0 /\ joined' + 0 = joined' /\ joined' <= rows
    <3>1. rows \in Nat
      BY DEF TableInv, TypeOK
    <3>2. \A n \in 0 .. rows : n + 0 = n /\ n <= rows
      BY <3>1
    <3>3. joined' + 0 = joined' /\ joined' <= rows
      BY <1>2, <3>2
    <3>4. Len(received[load]) = 0
      BY <1>1
    <3>5. QED  BY <3>3, <3>4
  <2>2. [i \in 1 .. 0 |-> joined' + i] = << >>
    BY IdsType DEF Ids
  <2>3. QED  BY <1>1, <1>3, <2>1, <2>2 DEF FeedInv
<1>7. QED  BY <1>1, <1>4, <1>5, <1>6, WindowFrame DEF TableInv

\* The feed's next message is added to the table.
LEMMA MessageKeeps ==
  ASSUME TableInv, onmessage
  PROVE  TableInv'
<1>1. /\ ws = "open" /\ page = "live" /\ got \in Nat
      /\ load \in 1 .. MaxLoads /\ received[load] \in Seq(Nat)
      /\ Len(received[load]) \in Nat /\ got < Len(received[load])
      /\ got' = got + 1 /\ joined \in Nat /\ rows \in Nat
      /\ shown' = [shown EXCEPT !["feed"] = Append(shown["feed"], received[load][got + 1])]
      /\ UNCHANGED <<rows, received, cursor, token, page, load, request, answer, ws,
                     polling, lastPollId, loaded, joined>>
  BY DEF onmessage, TableInv, TypeOK, feedVars
<1>2. /\ received[load][got + 1] = joined + (got + 1)
      /\ joined + Len(received[load]) <= rows
      /\ shown["feed"] = [i \in 1 .. got |-> joined + i]
  <2>1. got + 1 \in 1 .. Len(received[load])
    BY <1>1
  <2>2. QED  BY <1>1, <2>1 DEF TableInv, FeedInv
<1>3. received[load][got + 1] \in 1 .. rows
  BY <1>1, <1>2
<1>4. /\ shown' \in [Paths -> Seq(1 .. rows)]
      /\ shown'["load"] = shown["load"] /\ shown'["poll"] = shown["poll"]
      /\ shown'["feed"] = Append(shown["feed"], joined + (got + 1))
  BY <1>1, <1>2, <1>3 DEF TableInv, TypeOK, Paths
<1>5. shown'["feed"] = [i \in 1 .. got + 1 |-> joined + i]
  <2>1. Append([i \in 1 .. got |-> joined + i], joined + (got + 1))
          = [i \in 1 .. got + 1 |-> joined + i]
    BY <1>1
  <2>2. QED  BY <1>2, <1>4, <2>1
<1>6. TypeOK'
  BY <1>1, <1>4 DEF TableInv, TypeOK
<1>7. PageInv'
  BY <1>1 DEF TableInv, PageInv
<1>8. FeedInv'
  BY <1>1, <1>5 DEF TableInv, FeedInv
<1>9. WindowInv'
  BY <1>1, <1>4 DEF TableInv, WindowInv
<1>10. QED  BY <1>6, <1>7, <1>8, <1>9 DEF TableInv

LEMMA TableInvInductive ==
  ASSUME TableInv, [Next]_vars
  PROVE  TableInv'
<1>1. CASE write \/ Portal
  <2>1. \E r : r \in Requests
    BY DEF Requests, Initial
  <2>2. QED
    BY <1>1, <2>1, WriteKeeps, DeliverKeeps, DisconnectKeeps, RequestKeeps DEF Portal
<1>2. CASE User \/ RefreshDenied \/ \E r \in Requests : Denied(r)
  BY <1>2, FreshKeeps
  DEF User, login, logout, Reload, start, ToLogin, RefreshDenied, Denied
<1>3. ASSUME NEW r \in Requests, Fail(r) \/ Arrive(r) \/ Poll(r)
      PROVE  TableInv'
  BY <1>3, RequestKeeps, ArriveKeeps
<1>4. ASSUME NEW r \in Requests, PollArrives(r)
      PROVE  TableInv'
  <2>1. /\ r \in Polls /\ request[r] = "answered"
        /\ request' = [request EXCEPT ![r] = "idle"]
        /\ answer' = [answer EXCEPT ![r] = 0]
        /\ UNCHANGED <<rows, received, cursor, token, page, load, ws, got, polling,
                       loaded, joined>>
        /\ shown'["feed"] = shown["feed"]
    BY <1>4 DEF PollArrives, feedVars, TableInv, TypeOK, Paths
  <2>2. /\ WindowInv' /\ shown' \in [Paths -> Seq(1 .. rows)]
        /\ lastPollId' \in 0 .. rows
    BY <1>4, <2>1, PollContinues DEF TableInv
  <2>3. TypeOK'
    <3>1. /\ request' \in [Requests -> {"idle", "asked", "answered", "denied"}]
          /\ answer' \in [Requests -> 0 .. rows]
      BY <2>1 DEF TableInv, TypeOK
    <3>2. QED  BY <2>1, <2>2, <3>1 DEF TableInv, TypeOK
  <2>4. page = "live"
    BY <2>1 DEF TableInv, PageInv
  <2>5. PageInv'
    <3>1. \A q \in Requests : request[q] = "idle" => request'[q] = "idle"
      BY <2>1 DEF TableInv, TypeOK
    <3>2. Initial \subseteq Requests
      BY DEF Requests
    <3>3. QED  BY <2>1, <2>4, <3>1, <3>2 DEF TableInv, PageInv
  <2>6. FeedInv'
    BY <2>1, <2>4 DEF TableInv, FeedInv
  <2>7. QED  BY <2>2, <2>3, <2>5, <2>6 DEF TableInv
<1>5. CASE connectFeed \/ onmessage
  BY <1>5, ConnectKeeps, MessageKeeps
<1>6. CASE onclose
  BY <1>6 DEF onclose, TableInv, TypeOK, PageInv, FeedInv, WindowInv, feedVars
<1>7. CASE UNCHANGED vars
  BY <1>7 DEF vars, feedVars, pageVars, TableInv, TypeOK, PageInv, FeedInv, WindowInv
<1>8. QED
  BY <1>1, <1>2, <1>3, <1>4, <1>5, <1>6, <1>7 DEF Next, Page

LEMMA TableInvariant == Spec => []TableInv
<1>1. Init => TableInv
  <2> SUFFICES ASSUME Init PROVE TableInv
    OBVIOUS
  <2>1. TypeOK
    <3>1. 0 \in 0 .. rows /\ rows \in Nat /\ load \in 0 .. MaxLoads
      BY DEF Init
    <3>2. /\ << >> \in Seq(1 .. rows) /\ << >> \in Seq(Nat)
      OBVIOUS
    <3>3. /\ received \in [1 .. MaxLoads -> Seq(Nat)]
          /\ cursor \in [1 .. MaxLoads -> Nat \cup {Off}]
          /\ request \in [Requests -> {"idle", "asked", "answered", "denied"}]
          /\ answer \in [Requests -> 0 .. rows]
          /\ shown \in [Paths -> Seq(1 .. rows)]
      BY <3>1, <3>2 DEF Init
    <3>4. QED  BY <3>1, <3>3 DEF Init, TypeOK
  <2>2. PageInv
    BY DEF Init, PageInv, Requests
  <2>3. FeedInv
    BY DEF Init, FeedInv, Paths
  <2>4. WindowInv
    <3>1. /\ shown["load"] = << >> /\ DOMAIN shown["poll"] = {}
          /\ loaded = 0 /\ lastPollId = 0
      BY DEF Init, Paths
    <3>2. Ids(0, 0) = << >> /\ Older(0, LoadLimit) = 0 /\ Older(0, PollLimit) = 0
      <4>1. 1 .. 0 - 0 = {}
        OBVIOUS
      <4>2. QED  BY <4>1 DEF Ids, Older
    <3>3. 0 + 1 .. 0 = {}
      OBVIOUS
    <3>4. QED  BY <3>1, <3>2, <3>3 DEF WindowInv
  <2>5. QED  BY <2>1, <2>2, <2>3, <2>4 DEF TableInv
<1>2. TableInv /\ [Next]_vars => TableInv'
  BY TableInvInductive
<1>3. QED  BY <1>1, <1>2, PTL DEF Spec
-----------------------------------------------------------------------------
(* What a page shows. *)

\* TypeOK: every variable holds what the code can put there.
THEOREM TypeCorrect == Spec => []TypeOK
<1>1. TableInv => TypeOK
  BY DEF TableInv
<1>2. QED  BY <1>1, TableInvariant, PTL

\* EachPathShowsOnce: the first load, the feed and the polls each add a row
\* once and in the order of the store, however polls overtake each other.
THEOREM EveryPathShowsOnce == Spec => []EachPathShowsOnce
<1>1. TableInv => EachPathShowsOnce
  <2> SUFFICES ASSUME TableInv, NEW path \in Paths,
                      NEW i \in DOMAIN shown[path], NEW j \in DOMAIN shown[path], i < j
               PROVE  shown[path][i] < shown[path][j]
    BY DEF EachPathShowsOnce
  <2>1. CASE path = "load"
    <3>1. loaded \in Nat /\ Older(loaded, LoadLimit) \in Nat
      <4>1. loaded \in Nat
        BY DEF TableInv, TypeOK
      <4>2. QED  BY <4>1, OlderType
    <3>2. PICK a \in Nat : a = Older(loaded, LoadLimit)
      BY <3>1
    <3>3. shown[path] = Ids(a, loaded)
      BY <2>1, <3>2 DEF TableInv, WindowInv
    <3>4. /\ DOMAIN shown[path] = 1 .. Len(shown[path])
          /\ \A k \in 1 .. Len(shown[path]) : shown[path][k] = a + k
      BY <3>1, <3>3, IdsType
    <3>5. shown[path][i] = a + i /\ shown[path][j] = a + j /\ i \in Int /\ j \in Int
      BY <3>4
    <3>6. QED  BY <3>2, <3>5
  <2>2. CASE path = "feed"
    <3>1. CASE page = "live"
      <4>1. /\ shown[path] = [k \in 1 .. got |-> joined + k]
            /\ joined \in Nat /\ got \in Nat
        BY <2>2, <3>1 DEF TableInv, TypeOK, FeedInv
      <4>2. i \in 1 .. got /\ j \in 1 .. got
        BY <4>1
      <4>3. QED  BY <4>1, <4>2
    <3>2. CASE page # "live"
      <4>1. DOMAIN shown[path] = {}
        BY <2>2, <3>2 DEF TableInv, FeedInv
      <4>2. QED  BY <4>1
    <3>3. QED  BY <3>1, <3>2
  <2>3. CASE path = "poll"
    BY <2>3 DEF TableInv, WindowInv
  <2>4. QED  BY <2>1, <2>2, <2>3 DEF Paths
<1>2. QED  BY <1>1, TableInvariant, PTL

\* OnlyGapsAreMissed: a live page shows every row it knew of, from each path.
THEOREM NothingKnownIsMissing == Spec => []OnlyGapsAreMissed
<1>1. TableInv => OnlyGapsAreMissed
  <2> SUFFICES ASSUME TableInv, page = "live", NEW id \in Known
               PROVE  \E path \in Paths : id \in ToSet(shown[path])
    BY DEF OnlyGapsAreMissed
  <2>1. /\ loaded \in Nat /\ joined \in Nat /\ got \in Nat /\ lastPollId \in Nat
        /\ Older(loaded, LoadLimit) \in Nat
    <3>1. loaded \in Nat /\ joined \in Nat /\ got \in Nat /\ lastPollId \in Nat
      BY DEF TableInv, TypeOK
    <3>2. QED  BY <3>1, OlderType
  <2>2. CASE id \in Older(loaded, LoadLimit) + 1 .. loaded
    <3>1. PICK a \in Nat : a = Older(loaded, LoadLimit)
      BY <2>1
    <3>2. shown["load"] = Ids(a, loaded) /\ id \in a + 1 .. loaded
      BY <2>2, <3>1 DEF TableInv, WindowInv
    <3>3. /\ DOMAIN Ids(a, loaded) = 1 .. Len(Ids(a, loaded))
          /\ \A n \in a + 1 .. loaded :
               \E i \in 1 .. Len(Ids(a, loaded)) : Ids(a, loaded)[i] = n
      BY <2>1, <3>1, IdsType
    <3>4. \E i \in DOMAIN shown["load"] : shown["load"][i] = id
      BY <3>2, <3>3
    <3>5. QED  BY <3>4 DEF ToSet, Paths
  <2>3. CASE id \in joined + 1 .. Followed
    <3>1. CASE got = 0
      BY <2>1, <2>3, <3>1 DEF Followed
    <3>2. CASE got # 0
      <4>1. /\ got \in 1 .. Len(received[load])
            /\ shown["feed"] = [i \in 1 .. got |-> joined + i]
        <5>1. load \in 1 .. MaxLoads
          BY DEF TableInv, TypeOK
        <5>2. Len(received[load]) \in Nat
          BY <5>1 DEF TableInv, TypeOK
        <5>3. QED  BY <2>1, <3>2, <5>2 DEF TableInv, FeedInv
      <4>2. Followed = joined + got
        BY <3>2, <4>1 DEF Followed, TableInv, FeedInv
      <4>3. id - joined \in 1 .. got /\ joined + (id - joined) = id
        BY <2>1, <2>3, <4>2
      <4>4. shown["feed"][id - joined] = id /\ id - joined \in DOMAIN shown["feed"]
        BY <4>1, <4>3
      <4>5. QED  BY <4>4 DEF ToSet, Paths
    <3>3. QED  BY <3>1, <3>2
  <2>4. CASE id \in Older(lastPollId, PollLimit) + 1 .. lastPollId
    <3>1. \E i \in DOMAIN shown["poll"] : shown["poll"][i] = id
      BY <2>4 DEF TableInv, WindowInv
    <3>2. QED  BY <3>1 DEF ToSet, Paths
  <2>5. QED  BY <2>2, <2>3, <2>4 DEF Known
<1>2. QED  BY <1>1, TableInvariant, PTL
=============================================================================
