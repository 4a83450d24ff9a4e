----------------------------- MODULE Detectors ------------------------------
(***************************************************************************)
(* The packet monitor's stateful detectors (detection/detectors): port     *)
(* scan, brute force and tool fingerprint, each a window over what a       *)
(* source did and a debounce over what was reported of it.  handle() feeds *)
(* every packet to all of them.                                            *)
(*                                                                         *)
(* A stored time is represented by its age in clock steps; every age past  *)
(* all windows is Past, and so is the time 0 that stands for "never".      *)
(***************************************************************************)
EXTENDS Naturals, Sequences, FiniteSets, FiniteSetsExt

CONSTANTS
  Sources,          \* source addresses
  Ports,            \* destination ports
  AUTH_PORTS,       \* ports of services with a login
  Tools,            \* tools identify_tool knows
  NoTool,           \* a payload without a signature, or none
  PORT_SCAN_WINDOW, PORT_SCAN_THRESHOLD,
  BF_WINDOW, BF_THRESHOLD,
  DEBOUNCE_WINDOW,
  MaxHeld           \* bound: entries the monitor's deques hold together

ASSUME DetectorConstants ==
  /\ AUTH_PORTS \subseteq Ports
  /\ NoTool \notin Tools
  /\ PORT_SCAN_WINDOW \in Nat /\ PORT_SCAN_THRESHOLD \in Nat
  /\ BF_WINDOW \in Nat /\ BF_THRESHOLD \in Nat
  /\ DEBOUNCE_WINDOW \in Nat
  /\ MaxHeld \in Nat

Past == Max({PORT_SCAN_WINDOW, BF_WINDOW, DEBOUNCE_WINDOW}) + 1
Ages == 0 .. Past
Older(age) == IF age = Past THEN Past ELSE age + 1

VARIABLES
  _seen,         \* PortScanDetector: per source a deque of ages and ports
  _hits,         \* BruteForceDetector: per source a deque of ages
  scan_alerted,  \* the last port-scan alert of each source
  bf_alerted,    \* the last brute-force alert of each source
  tool_alerted,  \* the last alert of each source and tool
  sighted,       \* the last packet of each source to each port (history)
  attempts       \* login attempts of each source, by age (history)

vars == <<_seen, _hits, scan_alerted, bf_alerted, tool_alerted, sighted, attempts>>

Init ==
  /\ _seen = [src \in Sources |-> << >>]
  /\ _hits = [src \in Sources |-> << >>]
  /\ scan_alerted = [src \in Sources |-> Past]
  /\ bf_alerted = [src \in Sources |-> Past]
  /\ tool_alerted = [src \in Sources |-> [tool \in Tools |-> Past]]
  /\ sighted = [src \in Sources |-> [port \in Ports |-> Past]]
  /\ attempts = [src \in Sources |-> [age \in Ages |-> 0]]
-----------------------------------------------------------------------------
(* The detectors. *)

\* popleft() while the oldest of the entries, so old, is out of the window.
Evict(dq, ages, window) ==
  LET kept == {i \in DOMAIN dq : ages[i] <= window}
  IN  IF kept = {} THEN << >> ELSE SubSeq(dq, Min(kept), Len(dq))

\* What the deques hold once this packet is in.
SeenWith(src, port) ==
  LET dq == Append(_seen[src], [age |-> 0, port |-> port])
  IN  Evict(dq, [i \in DOMAIN dq |-> dq[i].age], PORT_SCAN_WINDOW)

\* Mutation: the deque is filled from the other end.
HitsFromLeft(src) == LET dq == << 0 >> \o _hits[src] IN Evict(dq, dq, BF_WINDOW)

HitsWith(src) == LET dq == Append(_hits[src], 0) IN Evict(dq, dq, BF_WINDOW)

\* The number of distinct ports in the deque.
distinct_ports(dq) == Cardinality({dq[i].port : i \in DOMAIN dq})

\* Mutation: no debounce.
AlwaysDue(alerted, window) == TRUE

\* The last alert is more than a window ago.
DueAgain(alerted, window) == alerted > window

port_scan_observe(src, port) ==
  /\ _seen' = [_seen EXCEPT ![src] = SeenWith(src, port)]
  /\ scan_alerted' =
       IF distinct_ports(SeenWith(src, port)) > PORT_SCAN_THRESHOLD
          /\ DueAgain(scan_alerted[src], PORT_SCAN_WINDOW)
       THEN [scan_alerted EXCEPT ![src] = 0]
       ELSE scan_alerted

IsAttempt(port, is_syn) == port \in AUTH_PORTS /\ is_syn

\* Mutation: an attempt too many is waited for.
TooManyLate(dq) == Len(dq) > BF_THRESHOLD + 1

TooMany(dq) == Len(dq) > BF_THRESHOLD

brute_observe(src, port, is_syn) ==
  IF IsAttempt(port, is_syn)
  THEN /\ _hits' = [_hits EXCEPT ![src] = HitsWith(src)]
       /\ bf_alerted' =
            IF TooMany(HitsWith(src)) /\ DueAgain(bf_alerted[src], BF_WINDOW)
            THEN [bf_alerted EXCEPT ![src] = 0]
            ELSE bf_alerted
  ELSE UNCHANGED <<_hits, bf_alerted>>

tool_observe(src, tool) ==
  tool_alerted' =
    IF tool # NoTool /\ DueAgain(tool_alerted[src][tool], DEBOUNCE_WINDOW)
    THEN [tool_alerted EXCEPT ![src][tool] = 0]
    ELSE tool_alerted

\* What really came in, for the properties.
Witnessed(src, port, attempt) ==
  /\ sighted' = [sighted EXCEPT ![src][port] = 0]
  /\ attempts' = IF attempt THEN [attempts EXCEPT ![src][0] = @ + 1] ELSE attempts
-----------------------------------------------------------------------------
(* The monitor. *)

\* Entries held once a packet of src to port is in.
HeldWith(src, port) ==
  Len(SeenWith(src, port))
    + FoldSet(LAMBDA other, n : n + Len(_seen[other]), 0, Sources \ {src})

\* handle(): a TCP packet, with the tool its payload gives away.
handle_tcp(src, port, is_syn, tool) ==
  /\ port_scan_observe(src, port)
  /\ brute_observe(src, port, is_syn)
  /\ tool_observe(src, tool)
  /\ Witnessed(src, port, IsAttempt(port, is_syn))

\* handle(): a UDP packet counts as part of a scan only.
handle_udp(src, port) ==
  /\ port_scan_observe(src, port)
  /\ Witnessed(src, port, FALSE)
  /\ UNCHANGED <<_hits, bf_alerted, tool_alerted>>

\* The clock moves on.
Elapse ==
  /\ _seen' = [src \in Sources |-> [i \in DOMAIN _seen[src] |->
       [_seen[src][i] EXCEPT !.age = Older(@)]]]
  /\ _hits' = [src \in Sources |-> [i \in DOMAIN _hits[src] |-> Older(_hits[src][i])]]
  /\ scan_alerted' = [src \in Sources |-> Older(scan_alerted[src])]
  /\ bf_alerted' = [src \in Sources |-> Older(bf_alerted[src])]
  /\ tool_alerted' = [src \in Sources |-> [tool \in Tools |-> Older(tool_alerted[src][tool])]]
  /\ sighted' = [src \in Sources |-> [port \in Ports |-> Older(sighted[src][port])]]
  /\ attempts' = [src \in Sources |-> [age \in Ages |->
       IF age = 0 \/ age = Past THEN 0 ELSE attempts[src][age - 1]]]

Next ==
  \/ \E src \in Sources, port \in Ports :
       /\ HeldWith(src, port) <= MaxHeld
       /\ \/ \E is_syn \in BOOLEAN, tool \in Tools \cup {NoTool} :
               handle_tcp(src, port, is_syn, tool)
          \/ handle_udp(src, port)
  \/ Elapse

Spec == Init /\ [][Next]_vars
-----------------------------------------------------------------------------
(* Properties. *)

\* Every variable holds what the code can put there; the login attempts are in
\* the order of arrival.
TypeOK ==
  /\ _seen \in [Sources -> Seq([age : Ages, port : Ports])]
  /\ _hits \in [Sources -> Seq(Ages)]
  /\ scan_alerted \in [Sources -> Ages]
  /\ bf_alerted \in [Sources -> Ages]
  /\ tool_alerted \in [Sources -> [Tools -> Ages]]
  /\ sighted \in [Sources -> [Ports -> Ages]]
  /\ attempts \in [Sources -> [Ages -> Nat]]
  /\ \A src \in Sources : \A i, j \in DOMAIN _hits[src] :
       i <= j => _hits[src][i] >= _hits[src][j]

\* This instant the source sent something.
Sending(src) == \E port \in Ports : sighted[src][port] = 0

Scanned(src) == {port \in Ports : sighted[src][port] <= PORT_SCAN_WINDOW}

\* ">10 distinct dst ports from one src IP within 5 seconds"
\* (port_scan.py:1): whenever a packet makes that true of what the source has
\* really sent there is an alert no older than the window, and there is none
\* otherwise; the debounce never swallows a scan that outlives it.
ScanAlertsAreExact ==
  \A src \in Sources :
    /\ Sending(src) /\ Cardinality(Scanned(src)) > PORT_SCAN_THRESHOLD
         => scan_alerted[src] <= PORT_SCAN_WINDOW
    /\ scan_alerted[src] = 0 => Cardinality(Scanned(src)) > PORT_SCAN_THRESHOLD

AttemptsIn(src, window) ==
  FoldSet(LAMBDA age, n : n + attempts[src][age], 0, 0 .. window)

\* ">5 auth-port connection attempts per minute from one src"
\* (brute_force.py:1), in the same two directions.
BruteAlertsAreExact ==
  \A src \in Sources :
    /\ attempts[src][0] > 0 /\ AttemptsIn(src, BF_WINDOW) > BF_THRESHOLD
         => bf_alerted[src] <= BF_WINDOW
    /\ bf_alerted[src] = 0 => AttemptsIn(src, BF_WINDOW) > BF_THRESHOLD

\* Both detectors report what their windows hold, no more and no less, although
\* the same packets pass through both.
AlertsAreExact == ScanAlertsAreExact /\ BruteAlertsAreExact

\* A source that keeps doing the same thing is reported at most once a window,
\* whichever detectors its packets reach.
Debounced ==
  [][\A src \in Sources :
       /\ scan_alerted'[src] < scan_alerted[src] => scan_alerted[src] > PORT_SCAN_WINDOW
       /\ bf_alerted'[src] < bf_alerted[src] => bf_alerted[src] > BF_WINDOW
       /\ \A tool \in Tools :
            tool_alerted'[src][tool] < tool_alerted[src][tool]
              => tool_alerted[src][tool] > DEBOUNCE_WINDOW]_vars
=============================================================================
