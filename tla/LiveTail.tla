------------------------------ MODULE LiveTail ------------------------------
(***************************************************************************)
(* What the live feed promises its clients (docs/api-reference.md,         *)
(* "WS /ws/live-feed": a live tail of the event store): a connection gets  *)
(* every row from some row on that was there when it connected, or the     *)
(* next one, in order and once each, for as long as it stays connected.    *)
(***************************************************************************)
EXTENDS Naturals, Sequences

CONSTANTS
  Connections,  \* WebSocket connections, each used once
  Off           \* the cursor of a connection that is not connected, not a number

VARIABLES
  rows,         \* rows committed to the event store; their ids are 1 .. rows
  received,     \* the ids each connection got, in order
  cursor        \* the last row a connection is not to be sent any more

vars == <<rows, received, cursor>>

Init ==
  /\ rows \in Nat
  /\ received = [ws \in Connections |-> << >>]
  /\ cursor = [ws \in Connections |-> Off]

Insert ==
  /\ rows' = rows + 1
  /\ UNCHANGED <<received, cursor>>

\* A fresh connection starts at the end of the table, or a little before it.
Connect(ws) ==
  /\ cursor[ws] = Off
  /\ received[ws] = << >>
  /\ \E from \in 0 .. rows : cursor' = [cursor EXCEPT ![ws] = from]
  /\ UNCHANGED <<rows, received>>

Deliver(ws) ==
  /\ cursor[ws] # Off
  /\ cursor[ws] < rows
  /\ cursor' = [cursor EXCEPT ![ws] = @ + 1]
  /\ received' = [received EXCEPT ![ws] = Append(@, cursor[ws] + 1)]
  /\ UNCHANGED rows

\* Connections end, one of them or, when the portal stops, all of them.
Disconnect(gone) ==
  /\ cursor' = [ws \in Connections |-> IF ws \in gone THEN Off ELSE cursor[ws]]
  /\ UNCHANGED <<rows, received>>

Next ==
  \/ Insert
  \/ \E ws \in Connections : Connect(ws) \/ Deliver(ws)
  \/ \E gone \in SUBSET Connections : Disconnect(gone)

Spec == Init /\ [][Next]_vars
=============================================================================
