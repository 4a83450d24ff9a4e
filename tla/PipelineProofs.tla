--------------------------- MODULE PipelineProofs ---------------------------
(***************************************************************************)
(* Theorems about Pipeline, for any number of collector threads, lines and *)
(* restarts.                                                               *)
(***************************************************************************)
EXTENDS Pipeline, TLAPS

USE PipelineConstants
-----------------------------------------------------------------------------
(* Type correctness. *)

\* A line that makes an event makes one of the events of the table.
LEMMA EventType ==
  ASSUME NEW source \in Sources, NEW line \in Lines
  PROVE  /\ normalize(source, line).attack_type \in
              CowrieEvents \cup {"automated_tool", "connection", "http_request",
                                 "ssh_connection", "dns_query"}
         /\ normalize(source, line).severity \in {"low", "medium", "high"}
BY DEF normalize, from_cowrie, from_dionaea, from_zeek_conn, from_zeek_http,
       from_zeek_ssh, from_zeek_dns, Fingerprinted, Event, _TOOL_SEV,
       _sev_for_cowrie, Lines

\* A writing thread has a line of its log in hand.
LEMMA InHandType ==
  ASSUME TypeOK, NEW c \in Collectors, Writing(c)
  PROVE  /\ pos[c] \in 1 .. Len(log[c])
         /\ log[c][pos[c]] \in Lines
         /\ c \in Sources
         /\ run \in 1 .. MaxRuns
<1>1. /\ begun[c] \in Nat /\ pos[c] \in Nat /\ pos[c] > begun[c]
      /\ pos[c] <= Len(log[c]) /\ log[c] \in Seq(Lines)
      /\ run \in 0 .. MaxRuns /\ run # 0 /\ c \in Sources
  BY DEF TypeOK, Writing, WriteSteps
<1>2. QED  BY <1>1

\* The row of the line in hand is a row of the table.
LEMMA RowType ==
  ASSUME TypeOK, NEW c \in Collectors, Writing(c)
  PROVE  RowOf(c) \in Row
<1>1. /\ pos[c] \in Nat /\ log[c][pos[c]] \in Lines /\ c \in Sources
      /\ run \in 1 .. MaxRuns
  BY InHandType
<1> HIDE DEF normalize
<1>2. QED  BY <1>1, EventType DEF RowOf, Row

\* TypeOK: every variable holds what the code can put there.
THEOREM TypeCorrect == Spec => []TypeOK
<1>1. ASSUME Init
      PROVE  TypeOK
  <2>1. \A c \in Collectors : Growing(c) \in Nat /\ MaxLines[c] \in Nat
    BY DEF Growing
  <2>2. /\ log \in [Collectors -> Seq(Lines)]
        /\ \A c \in Collectors : Len(log[c]) = 0
        /\ end \in [Collectors -> Nat]
        /\ pending \in Seq(Row) /\ events \in Seq(Row) /\ pending = << >>
    BY <1>1, <2>1 DEF Init
  <2>3. /\ missed \in [Collectors -> SUBSET Nat]
        /\ replays \subseteq 1 .. run /\ run \in 0 .. MaxRuns
        /\ pos \in [Collectors -> Nat] /\ base \in [Collectors -> Nat]
        /\ begun \in [Collectors -> Nat]
    BY <1>1 DEF Init
  <2>4. \A c \in Collectors : /\ begun[c] = 0 /\ pos[c] = 0 /\ base[c] = 0
                              /\ pc[c] = "down" /\ ~Writing(c)
    BY <1>1 DEF Init, Writing, WriteSteps
  <2>5. QED
    <3>1. /\ torn \in [Collectors -> BOOLEAN] /\ half \in [Collectors -> BOOLEAN]
          /\ overlap \in [Collectors -> BOOLEAN] /\ open \in BOOLEAN
          /\ cause \in [Collectors -> {"none", "line", "race", "locked"}]
          /\ pc \in [Collectors -> {"down", "wait", "tail", "dead"} \cup WriteSteps]
      BY <1>1 DEF Init
    <3>2. \A c \in Collectors :
            /\ begun[c] <= pos[c] /\ pos[c] <= Len(log[c])
            /\ base[c] <= Len(log[c]) /\ Len(log[c]) <= MaxLines[c]
            /\ Writing(c) => pos[c] > begun[c]
            /\ pc[c] # "down" => run # 0
      BY <2>1, <2>2, <2>4
    <3>3. QED
      BY <2>2, <2>3, <3>1, <3>2 DEF TypeOK
<1>2. TypeOK /\ [Next]_vars => TypeOK'
  <2> SUFFICES ASSUME TypeOK, [Next]_vars
               PROVE  TypeOK'
    OBVIOUS
  <2> USE DEF logVars, tailVars, fateVars, storeVars, runVars, Writing, WriteSteps
  <2>1. ASSUME NEW c \in Collectors, NEW line \in Inputs[c], NEW part \in BOOLEAN,
               WriteLine(c, line, part)
        PROVE  TypeOK'
    <3>1. line \in Lines /\ log[c] \in Seq(Lines)
      BY DEF TypeOK
    <3>2. log' = [log EXCEPT ![c] = Append(log[c], line)]
      BY <2>1 DEF WriteLine
    <3>3. Append(log[c], line) \in Seq(Lines) /\ Len(Append(log[c], line)) = Len(log[c]) + 1
      BY <3>1
    <3>4. log' \in [Collectors -> Seq(Lines)]
      BY <3>2, <3>3 DEF TypeOK
    <3>5. \A d \in Collectors : Len(log[d]) \in Nat /\ Len(log'[d]) \in Nat
                                /\ Len(log[d]) <= Len(log'[d])
                                /\ Len(log'[d]) <= MaxLines[d]
      BY <2>1, <3>2, <3>3 DEF WriteLine, TypeOK
    <3>6. QED
      BY <2>1, <3>4, <3>5 DEF WriteLine, TypeOK
  <2>2. ASSUME NEW c \in Collectors, FinishLine(c)
        PROVE  TypeOK'
    BY <2>2 DEF FinishLine, TypeOK
  <2>3. ASSUME NEW c \in Collectors, Rotate(c)
        PROVE  TypeOK'
    BY <2>3 DEF Rotate, TypeOK
  <2>4. ASSUME NEW from_start \in BOOLEAN, Start(from_start)
        PROVE  TypeOK'
    BY <2>4 DEF Start, TypeOK
  <2>5. ASSUME NEW c \in Collectors, Open(c)
        PROVE  TypeOK'
    <3>1. Len(log[c]) \in Nat \ {0} /\ base[c] \in Nat /\ base[c] <= Len(log[c])
      BY <2>5 DEF Open, TypeOK
    <3>2. ResumePoint(c) \in Nat /\ ResumePoint(c) <= Len(log[c])
      BY <3>1 DEF ResumePoint
    <3>3. QED
      BY <2>5, <3>1, <3>2 DEF Open, TypeOK, Growing
  <2>6. ASSUME NEW c \in Collectors, ReadPart(c)
        PROVE  TypeOK'
    BY <2>6 DEF ReadPart, TypeOK
  <2>7. ASSUME NEW c \in Collectors, Read(c)
        PROVE  TypeOK'
    <3>1. /\ pos[c] \in Nat /\ pos[c] + 1 <= Len(log[c]) /\ begun[c] \in Nat
          /\ begun[c] <= pos[c] /\ pc[c] = "tail"
      BY <2>7 DEF Read, HasNext, TypeOK
    <3>2. /\ pos' = [pos EXCEPT ![c] = pos[c] + 1]
          /\ pos' \in [Collectors -> Nat]
          /\ half' \in [Collectors -> BOOLEAN]
      BY <2>7, <3>1 DEF Read, TypeOK
    <3>3. overlap' \in [Collectors -> BOOLEAN]
      BY <2>7 DEF Read, TypeOK
    <3>4. /\ pc' \in [Collectors -> {"down", "wait", "tail", "dead"} \cup WriteSteps]
          /\ cause' \in [Collectors -> {"none", "line", "race", "locked"}]
          /\ \A d \in Collectors \ {c} : pc'[d] = pc[d]
      BY <2>7 DEF Read, TypeOK
    <3>5. \A d \in Collectors : /\ begun[d] <= pos'[d] /\ pos'[d] <= Len(log[d])
                                /\ Writing(d)' => pos'[d] > begun[d]
                                /\ pc'[d] # "down" => run # 0
      BY <2>7, <3>1, <3>2, <3>4 DEF Read, TypeOK
    <3>6. QED
      BY <2>7, <3>2, <3>3, <3>4, <3>5 DEF Read, TypeOK
  <2>8. ASSUME NEW c \in Collectors, Write(c)
        PROVE  TypeOK'
    <3>1. CASE Execute(c)
      BY <3>1 DEF Execute, TypeOK
    <3>2. CASE Begin(c)
      <4>1. CASE ~open
        BY <3>2, <4>1 DEF Begin, TypeOK
      <4>2. CASE open
        <5>1. missed[c] \cup {pos[c]} \in SUBSET Nat
          BY DEF TypeOK
        <5>2. missed' \in [Collectors -> SUBSET Nat]
          <6>1. missed' = [missed EXCEPT ![c] = missed[c] \cup {pos[c]}]
            BY <3>2, <4>2 DEF Begin
          <6>2. missed \in [Collectors -> SUBSET Nat]
            BY DEF TypeOK
          <6>3. QED  BY <5>1, <6>1, <6>2
        <5>3. CASE pc' = [pc EXCEPT ![c] = "dead"]
          BY <3>2, <4>2, <5>2, <5>3 DEF Begin, TypeOK
        <5>4. CASE pc' = [pc EXCEPT ![c] = "commit"]
          <6>1. /\ pc' \in [Collectors -> {"down", "wait", "tail", "dead"} \cup WriteSteps]
                /\ \A d \in Collectors : Writing(d)' => Writing(d)
                /\ \A d \in Collectors : pc'[d] # "down" => pc[d] # "down"
            BY <3>2, <5>4 DEF Begin, TypeOK
          <6>2. cause' = cause /\ open' = TRUE
            BY <3>2, <4>2, <5>4 DEF Begin, TypeOK
          <6>3. QED  BY <3>2, <4>2, <5>2, <6>1, <6>2 DEF Begin, TypeOK
        <5>5. QED  BY <3>2, <4>2, <5>3, <5>4 DEF Begin
      <4>3. QED  BY <4>1, <4>2 DEF TypeOK
    <3>3. CASE Insert(c)
      <4>1. RowOf(c) \in Row
        BY <3>3, RowType DEF Insert
      <4>2. Append(pending, RowOf(c)) \in Seq(Row) /\ Append(events, RowOf(c)) \in Seq(Row)
        BY <4>1 DEF TypeOK
      <4>3. QED
        BY <3>3, <4>2 DEF Insert, TypeOK
    <3>4. CASE InsertLocked(c)
      BY <3>4 DEF InsertLocked, TypeOK
    <3>5. CASE Commit(c)
      BY <3>5 DEF Commit, TypeOK
    <3>6. CASE Committing(c)
      <4>1. events \o pending \in Seq(Row) /\ << >> \in Seq(Row)
        BY DEF TypeOK
      <4>2. /\ pc' \in [Collectors -> {"down", "wait", "tail", "dead"} \cup WriteSteps]
            /\ cause' \in [Collectors -> {"none", "line", "race", "locked"}]
            /\ \A d \in Collectors : Writing(d)' => Writing(d)
            /\ \A d \in Collectors : pc'[d] # "down" => pc[d] # "down"
        BY <3>6 DEF Committing, TypeOK
      <4>3. QED
        BY <3>6, <4>1, <4>2 DEF Committing, TypeOK
    <3>7. CASE CommitLocked(c)
      BY <3>7 DEF CommitLocked, TypeOK
    <3>8. QED
      BY <2>8, <3>1, <3>2, <3>3, <3>4, <3>5, <3>6, <3>7 DEF Write
  <2>9. CASE Exit
    <3>1. \A c \in Collectors : Growing(c) \in Nat
      BY DEF Growing
    <3>2. /\ end' \in [Collectors -> Nat] /\ missed' \in [Collectors -> SUBSET Nat]
          /\ pos' \in [Collectors -> Nat] /\ begun' \in [Collectors -> Nat]
          /\ pending' \in Seq(Row) /\ pending' = << >>
      BY <2>9, <3>1 DEF Exit
    <3>3. /\ half' \in [Collectors -> BOOLEAN] /\ overlap' \in [Collectors -> BOOLEAN]
          /\ open' \in BOOLEAN
          /\ pc' \in [Collectors -> {"down", "wait", "tail", "dead"} \cup WriteSteps]
          /\ cause' \in [Collectors -> {"none", "line", "race", "locked"}]
      BY <2>9 DEF Exit
    <3>4. \A c \in Collectors : /\ begun'[c] = 0 /\ pos'[c] = 0 /\ pc'[c] = "down"
                                /\ ~Writing(c)' /\ Len(log[c]) \in Nat
      BY <2>9 DEF Exit, TypeOK
    <3>5. \A c \in Collectors : begun'[c] <= pos'[c] /\ pos'[c] <= Len(log[c])
      BY <3>4
    <3>6. QED
      BY <2>9, <3>2, <3>3, <3>4, <3>5 DEF Exit, TypeOK
  <2>10. CASE UNCHANGED vars
    BY <2>10 DEF vars, TypeOK
  <2>11. QED
    BY <2>1, <2>2, <2>3, <2>4, <2>5, <2>6, <2>7, <2>8, <2>9, <2>10
       DEF Next, Sensor, Thread
<1>3. QED  BY <1>1, <1>2, PTL DEF Spec
-----------------------------------------------------------------------------
(* What is not committed. *)

\* OnlyUnfinishedIsUncommitted, and every such row is of one of the threads.
UncommittedInv ==
  /\ OnlyUnfinishedIsUncommitted
  /\ \A i \in DOMAIN pending : pending[i].source \in Collectors

\* A step that leaves the transaction alone, and the line that any thread past
\* its insert has in hand.
LEMMA UncommittedFrame ==
  ASSUME UncommittedInv, pending' = pending,
         \A c \in Collectors : pc[c] \in {"commit", "committing", "dead"} =>
           /\ pc'[c] \in {"commit", "committing", "dead"} \/ pending = << >>
           /\ pos'[c] = pos[c] /\ run' = run
  PROVE  UncommittedInv'
BY DEF UncommittedInv, OnlyUnfinishedIsUncommitted

\* OnlyUnfinishedIsUncommitted: a death of the process loses at most one row of
\* each thread, whose write has not returned.
THEOREM UncommittedIsUnfinished == Spec => []OnlyUnfinishedIsUncommitted
<1>1. Init => UncommittedInv
  BY DEF Init, UncommittedInv, OnlyUnfinishedIsUncommitted
<1>2. TypeOK /\ UncommittedInv /\ [Next]_vars => UncommittedInv'
  <2> SUFFICES ASSUME TypeOK, UncommittedInv, [Next]_vars
               PROVE  UncommittedInv'
    OBVIOUS
  <2> USE DEF logVars, tailVars, fateVars, storeVars, runVars
  <2>1. ASSUME NEW c \in Collectors, Sensor(c)
        PROVE  UncommittedInv'
    BY <2>1, UncommittedFrame DEF Sensor, WriteLine, FinishLine, Rotate
  <2>2. ASSUME NEW from_start \in BOOLEAN, Start(from_start)
        PROVE  UncommittedInv'
    BY <2>2, UncommittedFrame DEF Start
  <2>3. ASSUME NEW c \in Collectors, Open(c) \/ ReadPart(c) \/ Read(c)
        PROVE  UncommittedInv'
    <3>1. /\ pc[c] \in {"wait", "tail"} /\ pending' = pending /\ run' = run
          /\ \A d \in Collectors \ {c} : pc'[d] = pc[d] /\ pos'[d] = pos[d]
      <4>1. CASE Open(c)
        BY <4>1 DEF Open, TypeOK
      <4>2. CASE ReadPart(c)
        BY <4>2 DEF ReadPart
      <4>3. CASE Read(c)
        BY <4>3 DEF Read, TypeOK
      <4>4. QED  BY <2>3, <4>1, <4>2, <4>3
    <3>2. QED  BY <3>1, UncommittedFrame
  <2>4. ASSUME NEW c \in Collectors, Write(c)
        PROVE  UncommittedInv'
    <3>1. CASE Execute(c) \/ InsertLocked(c) \/ CommitLocked(c)
      <4>1. /\ pending' = pending /\ pos' = pos /\ run' = run
            /\ pc[c] \notin {"commit", "dead"}
            /\ pc[c] = "committing" => pc'[c] = "dead"
            /\ \A d \in Collectors \ {c} : pc'[d] = pc[d]
        BY <3>1 DEF Execute, InsertLocked, CommitLocked, TypeOK
      <4>2. QED  BY <4>1, UncommittedFrame
    <3>2. CASE Begin(c)
      <4>1. pc[c] = "begin" /\ \A d \in Collectors \ {c} : pc'[d] = pc[d]
        BY <3>2 DEF Begin, TypeOK
      <4>2. QED  BY <3>2, <4>1, UncommittedFrame DEF Begin
    <3>3. CASE Insert(c)
      <4>1. CASE open
        <5>1. /\ pending' = Append(pending, RowOf(c)) /\ pending \in Seq(Row)
              /\ pos' = pos /\ run' = run
              /\ pc[c] = "insert" /\ pc'[c] = "commit"
              /\ \A d \in Collectors \ {c} : pc'[d] = pc[d]
          BY <3>3, <4>1 DEF Insert, TypeOK
        <5>2. RowOf(c).source = c /\ RowOf(c).nr = pos[c] /\ RowOf(c).run = run
          BY DEF RowOf
        <5>3. \A i \in DOMAIN pending' :
                \/ i \in DOMAIN pending /\ pending'[i] = pending[i]
                \/ pending'[i] = RowOf(c)
          BY <5>1
        <5>4. \A i \in DOMAIN pending : pending[i].source \in Collectors \ {c}
          BY <5>1 DEF UncommittedInv, OnlyUnfinishedIsUncommitted
        <5>5. \A i \in DOMAIN pending' :
                /\ pending'[i].source \in Collectors
                /\ pc'[pending'[i].source] \in {"commit", "committing", "dead"}
                /\ pending'[i].nr = pos'[pending'[i].source]
                /\ pending'[i].run = run'
          <6> SUFFICES ASSUME NEW i \in DOMAIN pending'
                       PROVE  /\ pending'[i].source \in Collectors
                              /\ pc'[pending'[i].source] \in {"commit", "committing", "dead"}
                              /\ pending'[i].nr = pos'[pending'[i].source]
                              /\ pending'[i].run = run'
            OBVIOUS
          <6>1. CASE pending'[i] = RowOf(c)
            BY <5>1, <5>2, <6>1
          <6>2. CASE i \in DOMAIN pending /\ pending'[i] = pending[i]
            <7>1. /\ pc[pending[i].source] \in {"commit", "committing", "dead"}
                  /\ pending[i].nr = pos[pending[i].source]
                  /\ pending[i].run = run
              BY <6>2 DEF UncommittedInv, OnlyUnfinishedIsUncommitted
            <7>2. QED  BY <5>1, <5>4, <6>2, <7>1
          <6>3. QED  BY <5>3, <6>1, <6>2
        <5>6. QED
          BY <5>5 DEF UncommittedInv, OnlyUnfinishedIsUncommitted
      <4>2. CASE ~open
        BY <3>3, <4>2, UncommittedFrame DEF Insert, TypeOK
      <4>3. QED  BY <4>1, <4>2
    <3>4. CASE Commit(c)
      <4>1. pc' = [pc EXCEPT ![c] = "committing"] \/ pending = << >>
        BY <3>4 DEF Commit, TypeOK
      <4>2. QED  BY <3>4, <4>1, UncommittedFrame DEF Commit, TypeOK
    <3>5. CASE Committing(c)
      BY <3>5 DEF Committing, UncommittedInv, OnlyUnfinishedIsUncommitted
    <3>6. QED
      BY <2>4, <3>1, <3>2, <3>3, <3>4, <3>5 DEF Write
  <2>5. CASE Exit
    BY <2>5 DEF Exit, UncommittedInv, OnlyUnfinishedIsUncommitted
  <2>6. CASE UNCHANGED vars
    BY <2>6, UncommittedFrame DEF vars
  <2>7. QED
    BY <2>1, <2>2, <2>3, <2>4, <2>5, <2>6 DEF Next, Thread
<1>3. UncommittedInv => OnlyUnfinishedIsUncommitted
  BY DEF UncommittedInv
<1>4. QED
  BY <1>1, <1>2, <1>3, TypeCorrect, PTL DEF Spec
-----------------------------------------------------------------------------
(* Writes that overlap with no other. *)

\* A write disturbs no other thread.
LEMMA WriteFrame ==
  ASSUME TypeOK, NEW c \in Collectors, Write(c)
  PROVE  /\ Writing(c)
         /\ \A d \in Collectors \ {c} : pc'[d] = pc[d]
         /\ pc'[c] \in WriteSteps \cup {"tail", "dead"}
         /\ UNCHANGED <<log, torn, base, end, pos, half, begun, overlap, run, replays>>
<1> USE DEF Writing, WriteSteps, logVars, tailVars, fateVars, storeVars, runVars
<1>1. CASE Execute(c)
  BY <1>1 DEF Execute, TypeOK
<1>2. CASE Begin(c)
  BY <1>2 DEF Begin, TypeOK
<1>3. CASE Insert(c)
  BY <1>3 DEF Insert, TypeOK
<1>4. CASE InsertLocked(c)
  BY <1>4 DEF InsertLocked, TypeOK
<1>5. CASE Commit(c)
  BY <1>5 DEF Commit, TypeOK
<1>6. CASE Committing(c)
  BY <1>6 DEF Committing, TypeOK
<1>7. CASE CommitLocked(c)
  BY <1>7 DEF CommitLocked, TypeOK
<1>8. QED  BY <1>1, <1>2, <1>3, <1>4, <1>5, <1>6, <1>7 DEF Write

\* Nor does reading a log.
LEMMA TailFrame ==
  ASSUME TypeOK, NEW c \in Collectors, Open(c) \/ ReadPart(c) \/ Read(c)
  PROVE  /\ pc[c] \in {"wait", "tail"} /\ pc'[c] \in {"tail", "execute", "dead"}
         /\ \A d \in Collectors \ {c} : /\ pc'[d] = pc[d] /\ pos'[d] = pos[d]
                                        /\ begun'[d] = begun[d] /\ half'[d] = half[d]
                                        /\ missed'[d] = missed[d]
         /\ UNCHANGED <<logVars, storeVars, runVars>>
<1>1. CASE Open(c)
  BY <1>1 DEF Open, TypeOK
<1>2. CASE ReadPart(c)
  BY <1>2 DEF ReadPart, TypeOK
<1>3. CASE Read(c)
  BY <1>3 DEF Read, TypeOK
<1>4. QED  BY <1>1, <1>2, <1>3

\* How far a write that has been alone so far has come.
Alone(c) ==
  /\ \A d \in Collectors \ {c} : ~Writing(d)
  /\ pc[c] = "begin" => ~open
  /\ pc[c] \in {"insert", "commit", "committing"} => open
  /\ pc[c] \in {"commit", "committing"} =>
       \E i \in DOMAIN pending :
         pending[i].source = c /\ pending[i].nr = pos[c] /\ pending[i].run = run

LoneInv == \A c \in Collectors : Writing(c) /\ ~overlap[c] => Alone(c)

\* A write that has been alone stays so or ends.
LEMMA AloneStep ==
  ASSUME TypeOK, NEW c \in Collectors, Alone(c), Write(c)
  PROVE  Alone(c)'
<1>1. \A d \in Collectors \ {c} : ~Writing(d)'
  BY WriteFrame DEF Alone, Writing
<1>2. /\ pos' = pos /\ run' = run
      /\ Writing(c)
  BY WriteFrame
<1> USE DEF Writing, WriteSteps, logVars, tailVars, fateVars, storeVars, runVars
<1>3. CASE Execute(c)
  BY <1>1, <1>3 DEF Execute, Alone, TypeOK
<1>4. CASE Begin(c)
  <2>1. pc'[c] = "insert" /\ open'
    BY <1>4 DEF Begin, Alone, TypeOK
  <2>2. QED  BY <1>1, <2>1 DEF Alone
<1>5. CASE Insert(c)
  <2>1. /\ pending' = Append(pending, RowOf(c)) /\ pending \in Seq(Row)
        /\ open' /\ pc'[c] = "commit"
    BY <1>5 DEF Insert, Alone, TypeOK
  <2>2. RowOf(c).source = c /\ RowOf(c).nr = pos[c] /\ RowOf(c).run = run
    BY DEF RowOf
  <2>3. /\ Len(pending) + 1 \in DOMAIN pending'
        /\ pending'[Len(pending) + 1] = RowOf(c)
    BY <2>1
  <2>4. QED  BY <1>1, <1>2, <2>1, <2>2, <2>3 DEF Alone
<1>6. CASE InsertLocked(c)
  BY <1>1, <1>6 DEF InsertLocked, Alone, TypeOK
<1>7. CASE Commit(c)
  <2>1. /\ pc'[c] = "committing" /\ open' /\ pending' = pending
        /\ pc[c] = "commit"
    BY <1>7 DEF Commit, Alone, TypeOK
  <2>2. QED  BY <1>1, <1>2, <2>1 DEF Alone
<1>8. CASE Committing(c)
  BY <1>1, <1>8 DEF Committing, Alone, TypeOK
<1>9. CASE CommitLocked(c)
  BY <1>1, <1>9 DEF CommitLocked, Alone, TypeOK
<1>10. QED
  BY <1>3, <1>4, <1>5, <1>6, <1>7, <1>8, <1>9 DEF Write

\* A write that has been alone and ends has its row in the table, unless the
\* database was locked.
LEMMA AloneEnd ==
  ASSUME TypeOK, NEW c \in Collectors, Alone(c), Write(c), pc'[c] \in {"tail", "dead"}
  PROVE  Committed(c)' \/ cause'[c] = "locked"
<1>1. CASE Committing(c)
  <2>1. /\ events' = events \o pending /\ events \in Seq(Row) /\ pending \in Seq(Row)
        /\ pos' = pos /\ run' = run /\ pc[c] = "committing"
    BY <1>1 DEF Committing, TypeOK, tailVars, runVars
  <2>2. PICK i \in DOMAIN pending :
          pending[i].source = c /\ pending[i].nr = pos[c] /\ pending[i].run = run
    BY <2>1 DEF Alone
  <2>3. /\ Len(events) + i \in DOMAIN events'
        /\ events'[Len(events) + i] = pending[i]
    BY <2>1
  <2>4. pending[i] \in ToSet(events')
    BY <2>3 DEF ToSet
  <2>5. QED  BY <2>1, <2>2, <2>4 DEF Committed
<1>2. CASE InsertLocked(c) \/ CommitLocked(c)
  BY <1>2 DEF InsertLocked, CommitLocked, TypeOK
<1>3. CASE Execute(c) \/ Begin(c) \/ Insert(c) \/ Commit(c)
  BY <1>3 DEF Execute, Begin, Insert, Commit, Alone, TypeOK
<1>4. QED
  BY <1>1, <1>2, <1>3 DEF Write

\* LoneInv is inductive.
LEMMA LoneInvInductive ==
  ASSUME TypeOK, LoneInv, [Next]_vars
  PROVE  LoneInv'
<1> USE DEF logVars, tailVars, fateVars, storeVars, runVars
<1>1. ASSUME NEW c \in Collectors, Sensor(c)
      PROVE  LoneInv'
  BY <1>1 DEF Sensor, WriteLine, FinishLine, Rotate, LoneInv, Alone, Writing
<1>2. CASE (\E from_start \in BOOLEAN : Start(from_start)) \/ Exit
  BY <1>2 DEF Start, Exit, LoneInv, Writing, WriteSteps
<1>3. ASSUME NEW c \in Collectors, Open(c) \/ ReadPart(c)
      PROVE  LoneInv'
  <2>1. /\ ~Writing(c) /\ ~Writing(c)'
        /\ \A d \in Collectors \ {c} : pc'[d] = pc[d] /\ pos'[d] = pos[d]
        /\ UNCHANGED <<overlap, open, pending, run>>
    BY <1>3 DEF Open, ReadPart, TypeOK, Writing, WriteSteps
  <2>2. \A d \in Collectors \ {c} : Writing(d)' = Writing(d)
    BY <2>1 DEF Writing
  <2>3. ASSUME NEW d \in Collectors, Writing(d)', ~overlap'[d]
        PROVE  Alone(d)'
    <3>1. d # c /\ Alone(d)
      BY <2>1, <2>2, <2>3 DEF LoneInv
    <3>2. QED  BY <2>1, <2>2, <3>1 DEF Alone
  <2>4. QED  BY <2>3 DEF LoneInv
<1>4. ASSUME NEW c \in Collectors, Read(c)
      PROVE  LoneInv'
  <2>1. /\ ~Writing(c) /\ pc'[c] \in {"tail", "dead", "execute"}
        /\ \A d \in Collectors \ {c} : pc'[d] = pc[d] /\ pos'[d] = pos[d]
        /\ UNCHANGED <<open, pending, run>>
    BY <1>4 DEF Read, TypeOK, Writing, WriteSteps
  <2>2. \A d \in Collectors \ {c} : Writing(d)' = Writing(d)
    BY <2>1 DEF Writing
  <2>3. CASE pc'[c] = "execute"
    <3>1. overlap' = [d \in Collectors |->
                        IF d = c THEN \E e \in Collectors \ {c} : Writing(e)
                        ELSE overlap[d] \/ Writing(d)]
      BY <1>4, <2>1, <2>3 DEF Read, Writing, WriteSteps, TypeOK
    <3>2. ASSUME NEW d \in Collectors, Writing(d)', ~overlap'[d]
          PROVE  Alone(d)'
      <4>1. d = c /\ \A e \in Collectors \ {c} : ~Writing(e)
        BY <2>2, <3>1, <3>2
      <4>2. QED  BY <2>2, <2>3, <4>1 DEF Alone
    <3>3. QED  BY <3>2 DEF LoneInv
  <2>4. CASE pc'[c] # "execute"
    <3>1. overlap' = overlap /\ ~Writing(c)'
      BY <1>4, <2>1, <2>4 DEF Read, TypeOK, Writing, WriteSteps
    <3>2. ASSUME NEW d \in Collectors, Writing(d)', ~overlap'[d]
          PROVE  Alone(d)'
      <4>1. d # c /\ Alone(d)
        BY <2>2, <3>1, <3>2 DEF LoneInv
      <4>2. QED  BY <2>1, <2>2, <3>1, <4>1 DEF Alone
    <3>3. QED  BY <3>2 DEF LoneInv
  <2>5. QED  BY <2>3, <2>4
<1>5. ASSUME NEW c \in Collectors, Write(c)
      PROVE  LoneInv'
  <2>1. /\ Writing(c) /\ overlap' = overlap
        /\ \A d \in Collectors \ {c} : pc'[d] = pc[d]
    BY <1>5, WriteFrame
  <2>2. ASSUME NEW d \in Collectors, Writing(d)', ~overlap'[d]
        PROVE  Alone(d)'
    <3>1. Writing(d)
      BY <2>1, <2>2 DEF Writing
    <3>2. Alone(d)
      BY <2>1, <2>2, <3>1 DEF LoneInv
    <3>3. d = c
      BY <2>1, <3>2 DEF Alone
    <3>4. QED  BY <1>5, <3>2, <3>3, AloneStep
  <2>3. QED  BY <2>2 DEF LoneInv
<1>6. CASE UNCHANGED vars
  BY <1>6 DEF vars, LoneInv, Alone, Writing
<1>7. QED
  BY <1>1, <1>2, <1>3, <1>4, <1>5, <1>6 DEF Next, Thread

\* LoneWritesSucceed: a write that overlaps with no other ends with its row in
\* the table, whatever failed writes have left behind, unless another process
\* keeps the database locked.
THEOREM LoneWritesAreStored == Spec => LoneWritesSucceed
<1>1. Init => LoneInv
  BY DEF Init, LoneInv, Writing, WriteSteps
<1>2. TypeOK /\ LoneInv /\ [Next]_vars => LoneInv'
  BY LoneInvInductive
<1>3. ASSUME TypeOK, LoneInv, Next, NEW c \in Collectors, Writing(c), ~overlap[c],
             pc'[c] \in {"tail", "dead"}
      PROVE  Committed(c)' \/ cause'[c] = "locked"
  <2> USE DEF logVars, tailVars, fateVars, storeVars, runVars
  <2>1. ASSUME NEW d \in Collectors, Sensor(d) \/ Open(d) \/ ReadPart(d) \/ Read(d)
        PROVE  FALSE
    <3>1. CASE Sensor(d)
      BY <1>3, <3>1 DEF Sensor, WriteLine, FinishLine, Rotate, Writing, WriteSteps
    <3>2. CASE Open(d) \/ ReadPart(d) \/ Read(d)
      <4>1. pc[d] \in {"wait", "tail"} /\ \A e \in Collectors \ {d} : pc'[e] = pc[e]
        BY <1>3, <3>2, TailFrame
      <4>2. d # c
        BY <1>3, <4>1 DEF Writing, WriteSteps
      <4>3. pc'[c] = pc[c]
        BY <4>1, <4>2
      <4>4. QED  BY <1>3, <4>3 DEF Writing, WriteSteps
    <3>3. QED  BY <2>1, <3>1, <3>2
  <2>2. ASSUME NEW from_start \in BOOLEAN, Start(from_start)
        PROVE  FALSE
    BY <1>3, <2>2 DEF Start, Writing, WriteSteps
  <2>3. CASE Exit
    BY <1>3, <2>3 DEF Exit
  <2>4. ASSUME NEW d \in Collectors, Write(d)
        PROVE  Committed(c)' \/ cause'[c] = "locked"
    <3>1. Alone(c) /\ Writing(d)
      BY <1>3, <2>4, WriteFrame DEF LoneInv
    <3>2. d = c
      BY <3>1 DEF Alone
    <3>3. QED  BY <1>3, <2>4, <3>1, <3>2, AloneEnd
  <2>5. QED
    BY <1>3, <2>1, <2>2, <2>3, <2>4 DEF Next, Thread
<1>4. TypeOK /\ LoneInv /\ [Next]_vars =>
        [\A c \in Collectors :
           Writing(c) /\ ~overlap[c] /\ pc'[c] \in {"tail", "dead"} =>
             Committed(c)' \/ cause'[c] = "locked"]_vars
  BY <1>3
<1>5. QED
  BY <1>1, <1>2, <1>4, TypeCorrect, PTL DEF Spec, LoneWritesSucceed
-----------------------------------------------------------------------------
(* The rows inserted. *)

LEMMA ToSetOfAppend ==
  ASSUME NEW s \in Seq(Row), NEW row
  PROVE  ToSet(Append(s, row)) = ToSet(s) \cup {row}
<1>1. /\ DOMAIN Append(s, row) = DOMAIN s \cup {Len(s) + 1}
      /\ \A i \in DOMAIN s : Append(s, row)[i] = s[i]
      /\ Append(s, row)[Len(s) + 1] = row
  OBVIOUS
<1>2. QED  BY <1>1 DEF ToSet

\* An insert adds the row of the line in hand behind the others, committed or
\* not.
LEMMA InsertAppends ==
  ASSUME TypeOK, NEW c \in Collectors, Insert(c)
  PROVE  /\ Inserted \in Seq(Row)
         /\ Inserted' = Append(Inserted, RowOf(c))
         /\ ToSet(Inserted)' = ToSet(Inserted) \cup {RowOf(c)}
<1>1. /\ events \in Seq(Row) /\ pending \in Seq(Row) /\ RowOf(c) \in Row
      /\ ~open => pending = << >>
  BY RowType DEF Insert, TypeOK, Writing, WriteSteps
<1>2. Inserted \in Seq(Row)
  BY <1>1 DEF Inserted
<1>3. Inserted' = Append(Inserted, RowOf(c))
  <2>1. CASE open
    <3>1. pending' = Append(pending, RowOf(c)) /\ events' = events
      BY <2>1 DEF Insert
    <3>2. QED  BY <1>1, <3>1 DEF Inserted
  <2>2. CASE ~open
    <3>1. events' = Append(events, RowOf(c)) /\ pending' = << >> /\ pending = << >>
      BY <1>1, <2>2 DEF Insert
    <3>2. Inserted = events /\ Inserted' = events'
      BY <1>1, <3>1 DEF Inserted
    <3>3. QED  BY <3>1, <3>2
  <2>3. QED  BY <2>1, <2>2
<1>4. QED  BY <1>2, <1>3, ToSetOfAppend

\* All other steps but the end of the process leave them as they are.
LEMMA InsertedFrame ==
  ASSUME TypeOK,
         \/ UNCHANGED <<pending, events>>
         \/ events' = events \o pending /\ pending' = << >>
  PROVE  Inserted' = Inserted
<1>1. events \o pending \in Seq(Row)
  BY DEF TypeOK
<1>2. (events \o pending) \o << >> = events \o pending
  BY <1>1
<1>3. QED  BY <1>2 DEF Inserted

\* The writes that insert nothing.
LEMMA OtherWrites ==
  ASSUME TypeOK, NEW c \in Collectors, Write(c), ~Insert(c)
  PROVE  Inserted' = Inserted
<1> USE DEF storeVars
<1>1. CASE Committing(c)
  BY <1>1, InsertedFrame DEF Committing
<1>2. CASE ~Committing(c)
  BY <1>2, InsertedFrame
     DEF Write, Execute, Begin, InsertLocked, Commit, CommitLocked
<1>3. QED  BY <1>1, <1>2

\* The end of the process takes back those that are not committed.
LEMMA ExitDropsPending ==
  ASSUME TypeOK, Exit
  PROVE  /\ Inserted' = events
         /\ \A i \in DOMAIN events : i \in DOMAIN Inserted /\ Inserted[i] = events[i]
         /\ ToSet(Inserted)' \subseteq ToSet(Inserted)
<1>1. /\ events \in Seq(Row) /\ pending \in Seq(Row)
      /\ events' = events /\ pending' = << >>
  BY DEF Exit, TypeOK
<1>2. Inserted' = events
  BY <1>1 DEF Inserted
<1>3. \A i \in DOMAIN events : i \in DOMAIN Inserted /\ Inserted[i] = events[i]
  BY <1>1 DEF Inserted
<1>4. QED  BY <1>2, <1>3 DEF ToSet
-----------------------------------------------------------------------------
(* The account of the lines read. *)

\* The lines of this run whose rows were inserted, and those that should be.
StoredLines(c) == {row.nr : row \in Of(c)}

DueLines(c) ==
  {i \in begun[c] + 1 .. pos[c] : Outcome(c, log[c][i]) = "event"}
    \ (missed[c] \cup InHand(c))

\* A line is missed because half of it has been read, or because its write has
\* failed, and not both inserted and missed.
Account(c) ==
  /\ pc[c] = "wait" => Of(c) = {}
  /\ pc[c] \in {"down", "wait"} =>
       begun[c] = 0 /\ pos[c] = 0 /\ missed[c] = {} /\ ~half[c]
  /\ Writing(c) => Outcome(c, log[c][pos[c]]) = "event"
  /\ InHand(c) \cap missed[c] = {}
  /\ \A i \in missed[c] : begun[c] < i /\ (i <= pos[c] \/ (half[c] /\ i = pos[c] + 1))
  /\ half[c] => pos[c] + 1 \in missed[c]
  /\ pc[c] # "down" => StoredLines(c) = DueLines(c)

RunsInv == \A row \in ToSet(Inserted) : row.run <= run

AccountInv == RunsInv /\ \A c \in Collectors : Account(c)

\* The account of a thread is its own.
LEMMA AccountFrame ==
  ASSUME TypeOK, NEW c \in Collectors, Account(c), Of(c)' = Of(c),
         pc'[c] = pc[c], pos'[c] = pos[c], begun'[c] = begun[c],
         half'[c] = half[c], missed'[c] = missed[c],
         \A i \in 1 .. Len(log[c]) : log'[c][i] = log[c][i]
  PROVE  Account(c)'
<1>1. /\ begun[c] \in Nat /\ pos[c] \in Nat /\ Len(log[c]) \in Nat
      /\ pos[c] <= Len(log[c])
      /\ Writing(c) => pos[c] > begun[c]
  BY DEF TypeOK
<1>2. \A i \in begun[c] + 1 .. pos[c] : log'[c][i] = log[c][i]
  BY <1>1
<1>3. InHand(c)' = InHand(c) /\ Writing(c)' = Writing(c)
  BY DEF InHand, Writing
<1>4. StoredLines(c)' = StoredLines(c)
  BY DEF StoredLines
<1>5. DueLines(c)' = DueLines(c)
  BY <1>2, <1>3 DEF DueLines
<1>6. Writing(c) => log'[c][pos[c]] = log[c][pos[c]]
  BY <1>1, <1>2
<1>7. QED  BY <1>3, <1>4, <1>5, <1>6 DEF Account

\* A step of a thread on its log, or of a write that inserts nothing, concerns
\* its own account only.
LEMMA AccountOfOne ==
  ASSUME TypeOK, AccountInv, NEW c \in Collectors, Inserted' = Inserted,
         run' = run, log' = log,
         \A d \in Collectors \ {c} :
           /\ pc'[d] = pc[d] /\ pos'[d] = pos[d] /\ begun'[d] = begun[d]
           /\ half'[d] = half[d] /\ missed'[d] = missed[d],
         Of(c)' = Of(c) => Account(c)'
  PROVE  AccountInv'
<1>1. \A d \in Collectors : Of(d)' = Of(d)
  BY DEF Of
<1>2. \A d \in Collectors \ {c} : Account(d)'
  BY <1>1, AccountFrame DEF AccountInv
<1>3. RunsInv'
  BY DEF AccountInv, RunsInv
<1>4. QED  BY <1>1, <1>2, <1>3 DEF AccountInv

\* A line read: it is in hand, or is none of those that are due.
LEMMA AccountRead ==
  ASSUME TypeOK, NEW c \in Collectors, Account(c), Read(c), Of(c)' = Of(c)
  PROVE  Account(c)'
<1> USE DEF logVars, storeVars, runVars
<1>1. /\ pc[c] = "tail" /\ pos'[c] = pos[c] + 1 /\ ~half'[c]
      /\ UNCHANGED <<log, begun, missed, run>>
      /\ pos[c] \in Nat /\ begun[c] \in Nat /\ begun[c] <= pos[c]
      /\ missed[c] \subseteq Nat
  BY DEF Read, TypeOK
<1>2. /\ InHand(c) = {} /\ StoredLines(c)' = DueLines(c)
  BY <1>1 DEF Account, InHand, StoredLines
<1>3. DueLines(c) = {i \in begun[c] + 1 .. pos[c] : Outcome(c, log[c][i]) = "event"}
                      \ missed[c]
  BY <1>2 DEF DueLines
<1>4. \A i \in missed[c] : begun[c] < i /\ i <= pos'[c]
  BY <1>1 DEF Account
<1>5. CASE half[c]
  <2>1. pc'[c] = "tail" /\ pos[c] + 1 \in missed[c]
    BY <1>1, <1>5 DEF Read, Account, TypeOK
  <2>2. InHand(c)' = {} /\ ~Writing(c)'
    BY <2>1 DEF InHand, Writing, WriteSteps
  <2>3. DueLines(c)' = DueLines(c)
    BY <1>1, <1>3, <2>1, <2>2 DEF DueLines
  <2>4. QED  BY <1>1, <1>2, <1>4, <2>1, <2>2, <2>3 DEF Account
<1>6. CASE ~half[c] /\ Outcome(c, log[c][pos[c] + 1]) = "event"
  <2>1. pc'[c] = "execute"
    BY <1>1, <1>6 DEF Read, TypeOK
  <2>2. InHand(c)' = {pos[c] + 1} /\ Writing(c)'
    BY <1>1, <2>1 DEF InHand, Writing, WriteSteps
  <2>3. pos[c] + 1 \notin missed[c]
    BY <1>1, <1>6 DEF Account
  <2>4. DueLines(c)' = DueLines(c)
    BY <1>1, <1>3, <2>2 DEF DueLines
  <2>5. QED  BY <1>1, <1>2, <1>4, <1>6, <2>1, <2>2, <2>3, <2>4 DEF Account
<1>7. CASE ~half[c] /\ Outcome(c, log[c][pos[c] + 1]) # "event"
  <2>1. pc'[c] \in {"tail", "dead"}
    BY <1>1, <1>7 DEF Read, TypeOK
  <2>2. InHand(c)' = {} /\ ~Writing(c)'
    BY <2>1 DEF InHand, Writing, WriteSteps
  <2>3. DueLines(c)' = DueLines(c)
    BY <1>1, <1>3, <1>7, <2>2 DEF DueLines
  <2>4. QED  BY <1>1, <1>2, <1>4, <2>1, <2>2, <2>3 DEF Account
<1>8. QED  BY <1>5, <1>6, <1>7

\* A write that inserts nothing keeps the line in hand or has missed it.
LEMMA AccountWrite ==
  ASSUME TypeOK, NEW c \in Collectors, Account(c), Write(c), ~Insert(c),
         Of(c)' = Of(c)
  PROVE  Account(c)'
<1> USE DEF logVars, tailVars, fateVars, storeVars, runVars
<1>1. /\ Writing(c) /\ UNCHANGED <<log, pos, begun, half, run>>
      /\ pc'[c] \in WriteSteps \cup {"tail", "dead"}
  BY WriteFrame
<1>2. /\ pos[c] \in Nat /\ begun[c] \in Nat /\ begun[c] < pos[c]
      /\ pc[c] \notin {"down", "wait"} /\ pc'[c] \notin {"down", "wait"}
  BY <1>1 DEF TypeOK, Writing, WriteSteps
<1>3. \/ InHand(c)' = InHand(c) /\ missed'[c] = missed[c]
      \/ InHand(c) = {pos[c]} /\ InHand(c)' = {} /\ missed'[c] = missed[c] \cup {pos[c]}
  <2>1. CASE Execute(c)
    BY <2>1 DEF Execute, InHand, TypeOK
  <2>2. CASE Begin(c)
    <3>1. CASE open
      BY <2>2, <3>1 DEF Begin, InHand, TypeOK
    <3>2. CASE ~open
      BY <2>2, <3>2 DEF Begin, InHand, TypeOK
    <3>3. QED  BY <3>1, <3>2
  <2>3. CASE InsertLocked(c)
    BY <2>3 DEF InsertLocked, InHand, TypeOK
  <2>4. CASE Commit(c) \/ Committing(c) \/ CommitLocked(c)
    BY <2>4 DEF Commit, Committing, CommitLocked, InHand, TypeOK
  <2>5. QED  BY <2>1, <2>2, <2>3, <2>4 DEF Write
<1>4. StoredLines(c)' = DueLines(c)
  BY <1>2 DEF Account, StoredLines
<1>5. DueLines(c)' = DueLines(c)
  BY <1>1, <1>3 DEF DueLines
<1>6. Outcome(c, log[c][pos[c]]) = "event"
  BY <1>1 DEF Account
<1>7. /\ InHand(c)' \cap missed'[c] = {}
      /\ \A i \in missed'[c] :
           begun[c] < i /\ (i <= pos[c] \/ (half[c] /\ i = pos[c] + 1))
      /\ half[c] => pos[c] + 1 \in missed'[c]
  BY <1>2, <1>3 DEF Account
<1>8. QED  BY <1>1, <1>2, <1>4, <1>5, <1>6, <1>7 DEF Account

\* The row inserted is that of the line in hand.
LEMMA AccountInsert ==
  ASSUME TypeOK, AccountInv, NEW c \in Collectors, Insert(c)
  PROVE  AccountInv'
<1>1. /\ Writing(c) /\ pc[c] = "insert" /\ pc'[c] = "commit"
      /\ \A d \in Collectors \ {c} : pc'[d] = pc[d]
      /\ UNCHANGED <<log, pos, begun, half, missed, run>>
  BY DEF Insert, Writing, WriteSteps, TypeOK, logVars, tailVars, fateVars, runVars
<1>2. /\ ToSet(Inserted)' = ToSet(Inserted) \cup {RowOf(c)}
      /\ RowOf(c).source = c /\ RowOf(c).nr = pos[c] /\ RowOf(c).run = run
      /\ run \in Nat
  <2>1. RowOf(c).source = c /\ RowOf(c).nr = pos[c] /\ RowOf(c).run = run
    BY DEF RowOf
  <2>2. run \in Nat
    BY DEF TypeOK
  <2>3. QED  BY <2>1, <2>2, InsertAppends
<1>3. Of(c)' = Of(c) \cup {RowOf(c)} /\ \A d \in Collectors \ {c} : Of(d)' = Of(d)
  BY <1>1, <1>2 DEF Of
<1>4. \A d \in Collectors \ {c} : Account(d)'
  BY <1>1, <1>3, AccountFrame DEF AccountInv
<1>5. RunsInv'
  BY <1>1, <1>2 DEF AccountInv, RunsInv
<1>6. Account(c)'
  <2>1. StoredLines(c)' = StoredLines(c) \cup {pos[c]}
    BY <1>2, <1>3 DEF StoredLines
  <2>2. InHand(c) = {pos[c]} /\ InHand(c)' = {}
    BY <1>1 DEF InHand
  <2>3. /\ begun[c] \in Nat /\ pos[c] \in Nat /\ begun[c] < pos[c]
        /\ Outcome(c, log[c][pos[c]]) = "event" /\ pos[c] \notin missed[c]
        /\ StoredLines(c) = DueLines(c) /\ Account(c)
    BY <1>1, <2>2 DEF AccountInv, Account, TypeOK
  <2>4. DueLines(c)' = DueLines(c) \cup {pos[c]}
    BY <1>1, <2>2, <2>3 DEF DueLines
  <2>5. QED  BY <1>1, <2>1, <2>2, <2>3, <2>4 DEF Account
<1>7. QED  BY <1>4, <1>5, <1>6 DEF AccountInv

\* LinesAreAccountedFor: whatever the other threads do, commit or die of, the
\* lines of this run with an event in them are inserted, and no others, except
\* for those read in halves and those whose write failed.
THEOREM ReadLinesAreStored == Spec => []LinesAreAccountedFor
<1>1. Init => AccountInv
  <2> SUFFICES ASSUME Init PROVE AccountInv
    OBVIOUS
  <2>1. Inserted = << >> /\ ToSet(Inserted) = {}
    BY DEF Init, Inserted, ToSet
  <2>2. QED
    BY <2>1 DEF Init, AccountInv, RunsInv, Account, Of, InHand, Writing, WriteSteps
<1>2. TypeOK /\ AccountInv /\ [Next]_vars => AccountInv'
  <2> SUFFICES ASSUME TypeOK, AccountInv, [Next]_vars
               PROVE  AccountInv'
    OBVIOUS
  <2> USE DEF logVars, tailVars, fateVars, storeVars, runVars
  <2>1. ASSUME NEW c \in Collectors, Sensor(c)
        PROVE  AccountInv'
    <3>1. /\ UNCHANGED <<tailVars, pc, fateVars, storeVars, runVars>> \/ Rotate(c)
          /\ UNCHANGED <<pos, half, begun, pc, fateVars, storeVars, runVars>>
      BY <2>1 DEF Sensor, WriteLine, FinishLine, Rotate
    <3>2. \A d \in Collectors : \A i \in 1 .. Len(log[d]) : log'[d][i] = log[d][i]
      <4>1. CASE log' = log
        BY <4>1
      <4>2. ASSUME NEW line \in Lines, log' = [log EXCEPT ![c] = Append(log[c], line)]
            PROVE  \A d \in Collectors : \A i \in 1 .. Len(log[d]) : log'[d][i] = log[d][i]
        BY <4>2 DEF TypeOK
      <4>3. QED
        BY <2>1, <4>1, <4>2 DEF Sensor, WriteLine, FinishLine, Rotate
    <3>3. Inserted' = Inserted
      BY <3>1, InsertedFrame
    <3>4. \A d \in Collectors : Of(d)' = Of(d)
      BY <3>1, <3>3 DEF Of
    <3>5. \A d \in Collectors : Account(d)'
      BY <3>1, <3>2, <3>4, AccountFrame DEF AccountInv
    <3>6. QED  BY <3>1, <3>3, <3>5 DEF AccountInv, RunsInv
  <2>2. ASSUME NEW from_start \in BOOLEAN, Start(from_start)
        PROVE  AccountInv'
    <3>1. /\ Inserted' = Inserted /\ run' = run + 1 /\ run \in Nat
          /\ UNCHANGED <<log, pos, begun, half, missed>>
          /\ \A c \in Collectors : pc[c] = "down" /\ pc'[c] = "wait"
      BY <2>2, InsertedFrame DEF Start, TypeOK
    <3>2. \A row \in ToSet(Inserted') : row.run <= run
      BY <3>1 DEF AccountInv, RunsInv
    <3>3. \A row \in ToSet(Inserted') : row.run # run'
      BY <3>1, <3>2
    <3>4. RunsInv'
      <4>1. ToSet(Inserted') = ToSet(Inserted)
        BY <3>1
      <4>2. Inserted \in Seq(Row)
        BY DEF Inserted, TypeOK
      <4>3. \A row \in ToSet(Inserted) : row.run \in Nat
        <5>1. \A row \in Row : row.run \in Nat
          BY DEF Row
        <5>2. QED  BY <4>2, <5>1 DEF ToSet
      <4>4. QED  BY <3>1, <3>2, <4>1, <4>3 DEF RunsInv
    <3>5. ASSUME NEW c \in Collectors
          PROVE  Account(c)'
      <4>1. Of(c)' = {}
        BY <3>3 DEF Of
      <4>2. begun[c] = 0 /\ pos[c] = 0 /\ missed[c] = {} /\ ~half[c]
        BY <3>1 DEF AccountInv, Account
      <4>3. ~Writing(c)' /\ InHand(c)' = {}
        BY <3>1 DEF Writing, WriteSteps, InHand
      <4>4. StoredLines(c)' = {} /\ DueLines(c)' = {}
        BY <3>1, <4>1, <4>2 DEF StoredLines, DueLines
      <4>5. QED  BY <3>1, <4>1, <4>2, <4>3, <4>4 DEF Account
    <3>6. QED  BY <3>4, <3>5 DEF AccountInv
  <2>3. ASSUME NEW c \in Collectors, Open(c) \/ ReadPart(c) \/ Read(c)
        PROVE  AccountInv'
    <3>1. /\ Inserted' = Inserted /\ run' = run /\ log' = log
          /\ \A d \in Collectors \ {c} :
               /\ pc'[d] = pc[d] /\ pos'[d] = pos[d] /\ begun'[d] = begun[d]
               /\ half'[d] = half[d] /\ missed'[d] = missed[d]
      BY <2>3, TailFrame, InsertedFrame
    <3>2. ASSUME Of(c)' = Of(c), Open(c)
          PROVE  Account(c)'
      <4>1. /\ Of(c)' = {} /\ pc'[c] = "tail" /\ pos'[c] = begun'[c]
            /\ log[c] # << >>
        BY <3>2 DEF Open, AccountInv, Account, TypeOK
      <4>2. pos'[c] = ResumePoint(c) /\ Len(log[c]) \in Nat /\ base[c] \in Nat
        BY <3>2 DEF Open, TypeOK
      <4>3. InHand(c)' = {} /\ ~Writing(c)'
        BY <4>1 DEF InHand, Writing, WriteSteps
      <4>4. ResumePoint(c) \in Int
        BY <4>2 DEF ResumePoint
      <4>5. DueLines(c)' = {} /\ StoredLines(c)' = {}
        BY <4>1, <4>2, <4>4 DEF DueLines, StoredLines
      <4>6. CASE torn[c] /\ ~FromStart
        <5>1. /\ half'[c] /\ missed'[c] = {Len(log[c])}
              /\ ResumePoint(c) = Len(log[c]) - 1
          BY <3>2, <4>6 DEF Open, TypeOK, ResumePoint
        <5>2. QED  BY <4>1, <4>2, <4>3, <4>5, <5>1 DEF Account
      <4>7. CASE ~(torn[c] /\ ~FromStart)
        <5>1. ~half'[c] /\ missed'[c] = {}
          BY <3>2, <4>7 DEF Open, TypeOK
        <5>2. QED  BY <4>1, <4>3, <4>5, <5>1 DEF Account
      <4>8. QED  BY <4>6, <4>7
    <3>3. ASSUME Of(c)' = Of(c), ReadPart(c)
          PROVE  Account(c)'
      <4>1. /\ pc[c] = "tail" /\ pc' = pc /\ half'[c] /\ ~half[c]
            /\ missed'[c] = missed[c] \cup {pos[c] + 1}
            /\ UNCHANGED <<log, pos, begun, run>>
            /\ pos[c] \in Nat /\ begun[c] \in Nat /\ begun[c] <= pos[c]
            /\ Account(c)
        BY <3>3 DEF ReadPart, TypeOK, AccountInv
      <4>2. InHand(c) = {} /\ InHand(c)' = {} /\ ~Writing(c)'
        BY <4>1 DEF InHand, Writing, WriteSteps
      <4>3. DueLines(c)' = DueLines(c) /\ StoredLines(c)' = StoredLines(c)
        BY <3>3, <4>1, <4>2 DEF DueLines, StoredLines
      <4>4. \A i \in missed'[c] :
              begun[c] < i /\ (i <= pos[c] \/ (half'[c] /\ i = pos[c] + 1))
        BY <4>1 DEF Account
      <4>5. QED  BY <4>1, <4>2, <4>3, <4>4 DEF Account
    <3>4. ASSUME Of(c)' = Of(c), Read(c)
          PROVE  Account(c)'
      BY <3>4, AccountRead DEF AccountInv
    <3>5. Of(c)' = Of(c) => Account(c)'
      BY <2>3, <3>2, <3>3, <3>4
    <3>6. QED  BY <3>1, <3>5, AccountOfOne
  <2>4. ASSUME NEW c \in Collectors, Write(c), ~Insert(c)
        PROVE  AccountInv'
    <3>1. /\ Inserted' = Inserted
          /\ UNCHANGED <<log, pos, begun, half, run>>
          /\ \A d \in Collectors \ {c} : pc'[d] = pc[d]
      BY <2>4, OtherWrites, WriteFrame
    <3>2. \A d \in Collectors \ {c} : missed'[d] = missed[d]
      BY <2>4 DEF Write, Execute, Begin, InsertLocked, Commit, Committing,
                  CommitLocked, TypeOK
    <3>3. Of(c)' = Of(c) => Account(c)'
      BY <2>4, AccountWrite DEF AccountInv
    <3>4. QED  BY <3>1, <3>2, <3>3, AccountOfOne
  <2>5. ASSUME NEW c \in Collectors, Insert(c)
        PROVE  AccountInv'
    BY <2>5, AccountInsert
  <2>6. CASE Exit
    <3>1. RunsInv'
      BY <2>6, ExitDropsPending DEF Exit, AccountInv, RunsInv
    <3>2. \A c \in Collectors :
            /\ pc'[c] = "down" /\ begun'[c] = 0 /\ pos'[c] = 0
            /\ missed'[c] = {} /\ ~half'[c]
      BY <2>6 DEF Exit
    <3>3. \A c \in Collectors : ~Writing(c)' /\ InHand(c)' = {}
      BY <3>2 DEF Writing, WriteSteps, InHand
    <3>4. QED  BY <3>1, <3>2, <3>3 DEF AccountInv, Account
  <2>7. CASE UNCHANGED vars
    <3>1. Inserted' = Inserted
      BY <2>7 DEF vars, Inserted
    <3>2. \A d \in Collectors : Of(d)' = Of(d)
      BY <2>7, <3>1 DEF vars, Of
    <3>3. \A d \in Collectors : Account(d)'
      BY <2>7, <3>2, AccountFrame DEF vars, AccountInv
    <3>4. QED  BY <2>7, <3>1, <3>3 DEF vars, AccountInv, RunsInv
  <2>8. QED
    BY <2>1, <2>2, <2>3, <2>4, <2>5, <2>6, <2>7 DEF Next, Thread
<1>3. AccountInv => LinesAreAccountedFor
  BY DEF AccountInv, Account, StoredLines, DueLines, LinesAreAccountedFor
<1>4. QED
  BY <1>1, <1>2, <1>3, TypeCorrect, PTL DEF Spec
-----------------------------------------------------------------------------
(* The order of the rows. *)

\* No process has replayed its log since the one that inserted the row.
Settled(row) == ~\E r \in replays : row.run < r /\ r <= run

\* A row stands for a whole line that there is, which a thread does not come
\* back to but in a replay.
RowOK(row) ==
  /\ row.source \in Collectors
  /\ row.run <= run
  /\ 1 <= row.nr /\ row.nr <= Len(log[row.source])
  /\ torn[row.source] => row.nr < Len(log[row.source])
  /\ pc[row.source] = "wait" => row.run < run
  /\ pc[row.source] \notin {"down", "wait"} /\ Settled(row) =>
       row.nr <= pos[row.source] /\ row.nr \notin InHand(row.source)

OrderInv ==
  /\ \A row \in ToSet(Inserted) : RowOK(row)
  /\ \A c \in Collectors : torn[c] /\ Writing(c) => pos[c] < Len(log[c])

LEMMA RowsHaveTypes ==
  ASSUME TypeOK
  PROVE  \A row \in ToSet(Inserted) : row.nr \in Nat /\ row.run \in Nat
<1>1. Inserted \in Seq(Row)
  BY DEF Inserted, TypeOK
<1>2. \A row \in Row : row.nr \in Nat /\ row.run \in Nat
  BY DEF Row
<1>3. QED  BY <1>1, <1>2 DEF ToSet

\* The order is disturbed by new rows only.
LEMMA OrderFrame ==
  ASSUME TypeOK, RowsKeepLogOrder, replays \subseteq replays',
         \A i \in DOMAIN Inserted' : i \in DOMAIN Inserted /\ Inserted'[i] = Inserted[i]
  PROVE  RowsKeepLogOrder'
BY DEF RowsKeepLogOrder

\* An insert goes on where the thread, or the one of an earlier run, stopped.
LEMMA OrderInsert ==
  ASSUME TypeOK, OrderInv, RowsKeepLogOrder, NEW c \in Collectors, Insert(c)
  PROVE  OrderInv' /\ RowsKeepLogOrder'
<1>1. /\ Writing(c) /\ pc[c] = "insert" /\ pc'[c] = "commit"
      /\ \A d \in Collectors \ {c} : pc'[d] = pc[d]
      /\ UNCHANGED <<log, torn, pos, run, replays>>
  BY DEF Insert, Writing, WriteSteps, TypeOK, logVars, tailVars, fateVars, runVars
<1>2. /\ Inserted \in Seq(Row)
      /\ Inserted' = Append(Inserted, RowOf(c))
      /\ ToSet(Inserted)' = ToSet(Inserted) \cup {RowOf(c)}
  BY InsertAppends
<1>3. RowOf(c).source = c /\ RowOf(c).nr = pos[c] /\ RowOf(c).run = run
  BY DEF RowOf
<1>4. /\ pos[c] \in 1 .. Len(log[c]) /\ run \in Nat
      /\ torn[c] => pos[c] < Len(log[c])
  BY <1>1, InHandType DEF OrderInv
<1>5. /\ InHand(c) = {pos[c]} /\ InHand(c)' = {}
      /\ \A d \in Collectors \ {c} : InHand(d)' = InHand(d)
  BY <1>1 DEF InHand
<1>6. ASSUME NEW row, row = RowOf(c)
      PROVE  RowOK(row)'
  BY <1>1, <1>3, <1>4, <1>5, <1>6 DEF RowOK
<1>7. ASSUME NEW row \in ToSet(Inserted)
      PROVE  RowOK(row)'
  <2>1. RowOK(row)
    BY DEF OrderInv
  <2>2. Settled(row)' = Settled(row)
    BY <1>1 DEF Settled
  <2>3. CASE row.source = c
    BY <1>1, <1>5, <2>1, <2>2, <2>3 DEF RowOK
  <2>4. CASE row.source # c
    BY <1>1, <1>5, <2>1, <2>2, <2>4 DEF RowOK
  <2>5. QED  BY <2>3, <2>4
<1>8. OrderInv'
  <2>1. \A d \in Collectors : torn'[d] /\ Writing(d)' => pos'[d] < Len(log'[d])
    BY <1>1 DEF OrderInv, Writing
  <2>2. QED  BY <1>2, <1>6, <1>7, <2>1 DEF OrderInv
<1>9. RowsKeepLogOrder'
  <2> SUFFICES ASSUME NEW i \in DOMAIN Inserted', NEW j \in DOMAIN Inserted',
                      i < j, Inserted'[i].source = Inserted'[j].source,
                      Inserted'[i].nr >= Inserted'[j].nr
               PROVE  \E r \in replays : Inserted'[i].run < r /\ r <= Inserted'[j].run
    BY <1>1 DEF RowsKeepLogOrder
  <2>1. /\ i \in DOMAIN Inserted /\ Inserted'[i] = Inserted[i]
        /\ \/ j \in DOMAIN Inserted /\ Inserted'[j] = Inserted[j]
           \/ Inserted'[j] = RowOf(c)
    BY <1>2
  <2>2. CASE j \in DOMAIN Inserted /\ Inserted'[j] = Inserted[j]
    BY <2>1, <2>2 DEF RowsKeepLogOrder
  <2>3. CASE Inserted'[j] = RowOf(c)
    <3>1. Inserted[i] \in ToSet(Inserted)
      BY <2>1 DEF ToSet
    <3>2. /\ RowOK(Inserted[i]) /\ Inserted[i].source = c
          /\ Inserted[i].nr >= pos[c] /\ Inserted[i].nr \in Nat
      BY <1>3, <2>1, <2>3, <3>1, RowsHaveTypes DEF OrderInv
    <3>3. ~Settled(Inserted[i])
      BY <1>1, <1>4, <1>5, <3>2 DEF RowOK
    <3>4. QED  BY <1>3, <2>1, <2>3, <3>3 DEF Settled
  <2>4. QED  BY <2>1, <2>2, <2>3
<1>10. QED  BY <1>8, <1>9

\* A thread that opens its log begins behind the rows there are, or replays.
LEMMA OrderOpen ==
  ASSUME TypeOK, OrderInv, NEW c \in Collectors, Open(c)
  PROVE  \A row \in ToSet(Inserted) : RowOK(row)'
<1> SUFFICES ASSUME NEW row \in ToSet(Inserted)
             PROVE  RowOK(row)'
  OBVIOUS
<1>1. /\ pc[c] = "wait" /\ pc'[c] = "tail" /\ pos'[c] = ResumePoint(c)
      /\ \A d \in Collectors \ {c} : pc'[d] = pc[d] /\ pos'[d] = pos[d]
      /\ UNCHANGED <<log, torn, run, replays>>
      /\ Len(log[c]) \in Nat /\ run \in Nat
  BY DEF Open, TypeOK, logVars, runVars
<1>2. RowOK(row) /\ row.nr \in Nat
  BY RowsHaveTypes DEF OrderInv
<1>3. /\ InHand(c)' = {}
      /\ \A d \in Collectors \ {c} : InHand(d)' = InHand(d)
      /\ Settled(row)' = Settled(row)
  BY <1>1 DEF InHand, Settled
<1>4. CASE row.source = c
  <2>1. row.run < run /\ row.nr <= Len(log[c]) /\ (torn[c] => row.nr < Len(log[c]))
    BY <1>1, <1>2, <1>4 DEF RowOK
  <2>2. Settled(row) => ~FromStart
    BY <1>1, <2>1 DEF Settled, FromStart
  <2>3. Settled(row) => row.nr <= ResumePoint(c)
    BY <1>1, <1>2, <2>1, <2>2 DEF ResumePoint
  <2>4. QED  BY <1>1, <1>2, <1>3, <1>4, <2>3 DEF RowOK
<1>5. CASE row.source # c
  BY <1>1, <1>2, <1>3, <1>5 DEF RowOK
<1>6. QED  BY <1>4, <1>5

\* A thread that reads goes on behind the rows there are.
LEMMA OrderRead ==
  ASSUME TypeOK, OrderInv, NEW c \in Collectors, Read(c)
  PROVE  \A row \in ToSet(Inserted) : RowOK(row)'
<1> SUFFICES ASSUME NEW row \in ToSet(Inserted)
             PROVE  RowOK(row)'
  OBVIOUS
<1>1. /\ pc[c] = "tail" /\ pc'[c] \in {"tail", "execute", "dead"}
      /\ pos'[c] = pos[c] + 1 /\ pos[c] \in Nat
      /\ \A d \in Collectors \ {c} : pc'[d] = pc[d] /\ pos'[d] = pos[d]
      /\ UNCHANGED <<log, torn, run, replays>>
  BY DEF Read, TypeOK, logVars, runVars
<1>2. RowOK(row) /\ row.nr \in Nat
  BY RowsHaveTypes DEF OrderInv
<1>3. /\ InHand(c)' \subseteq {pos[c] + 1}
      /\ \A d \in Collectors \ {c} : InHand(d)' = InHand(d)
      /\ Settled(row)' = Settled(row)
  BY <1>1 DEF InHand, Settled
<1>4. CASE row.source = c
  BY <1>1, <1>2, <1>3, <1>4 DEF RowOK
<1>5. CASE row.source # c
  BY <1>1, <1>2, <1>3, <1>5 DEF RowOK
<1>6. QED  BY <1>4, <1>5

\* The invariant behind the order of the rows.
LEMMA OrderInvariant == Spec => [](OrderInv /\ RowsKeepLogOrder)
<1>1. Init => OrderInv /\ RowsKeepLogOrder
  <2> SUFFICES ASSUME Init PROVE OrderInv /\ RowsKeepLogOrder
    OBVIOUS
  <2>1. Inserted = << >> /\ ToSet(Inserted) = {}
    BY DEF Init, Inserted, ToSet
  <2>2. QED  BY <2>1 DEF Init, OrderInv, RowsKeepLogOrder
<1>2. TypeOK /\ OrderInv /\ RowsKeepLogOrder /\ [Next]_vars
        => OrderInv' /\ RowsKeepLogOrder'
  <2> SUFFICES ASSUME TypeOK, OrderInv, RowsKeepLogOrder, [Next]_vars
               PROVE  OrderInv' /\ RowsKeepLogOrder'
    OBVIOUS
  <2> USE DEF logVars, tailVars, fateVars, storeVars, runVars
  <2>1. ASSUME Inserted' = Inserted, replays \subseteq replays',
               \A row \in ToSet(Inserted) : RowOK(row)',
               \A c \in Collectors : torn'[c] /\ Writing(c)' => pos'[c] < Len(log'[c])
        PROVE  OrderInv' /\ RowsKeepLogOrder'
    BY <2>1, OrderFrame DEF OrderInv
  <2>2. ASSUME NEW c \in Collectors, NEW line \in Inputs[c], NEW part \in BOOLEAN,
               WriteLine(c, line, part)
        PROVE  OrderInv' /\ RowsKeepLogOrder'
    <3>1. /\ Inserted' = Inserted
          /\ UNCHANGED <<pc, pos, run, replays>>
          /\ \A d \in Collectors \ {c} : log'[d] = log[d] /\ torn'[d] = torn[d]
          /\ Len(log'[c]) = Len(log[c]) + 1 /\ Len(log[c]) \in Nat
          /\ pos[c] \in Nat /\ pos[c] <= Len(log[c])
      BY <2>2, InsertedFrame DEF WriteLine, TypeOK
    <3>2. \A row \in ToSet(Inserted) :
            RowOK(row) /\ row.nr \in Nat /\ (Settled(row)' = Settled(row))
      BY <3>1, RowsHaveTypes DEF OrderInv, Settled
    <3>3. \A d \in Collectors : InHand(d)' = InHand(d) /\ Writing(d)' = Writing(d)
      BY <3>1 DEF InHand, Writing
    <3>4. ASSUME NEW row \in ToSet(Inserted)
          PROVE  RowOK(row)'
      <4>1. CASE row.source = c
        BY <3>1, <3>2, <3>3, <4>1 DEF RowOK
      <4>2. CASE row.source # c
        BY <3>1, <3>2, <3>3, <4>2 DEF RowOK
      <4>3. QED  BY <4>1, <4>2
    <3>5. \A d \in Collectors : torn'[d] /\ Writing(d)' => pos'[d] < Len(log'[d])
      BY <3>1, <3>3 DEF OrderInv
    <3>6. QED  BY <2>1, <3>1, <3>4, <3>5
  <2>3. ASSUME NEW c \in Collectors, FinishLine(c) \/ Rotate(c) \/ ReadPart(c)
        PROVE  OrderInv' /\ RowsKeepLogOrder'
    <3>1. /\ Inserted' = Inserted
          /\ UNCHANGED <<log, pc, pos, run, replays>>
          /\ \A d \in Collectors : torn'[d] => torn[d]
      BY <2>3, InsertedFrame DEF FinishLine, Rotate, ReadPart, TypeOK
    <3>2. \A row \in ToSet(Inserted) : RowOK(row) /\ (Settled(row)' = Settled(row))
      BY <3>1 DEF OrderInv, Settled
    <3>3. \A d \in Collectors : InHand(d)' = InHand(d) /\ Writing(d)' = Writing(d)
      BY <3>1 DEF InHand, Writing
    <3>4. \A row \in ToSet(Inserted) : RowOK(row)'
      BY <3>1, <3>2, <3>3 DEF RowOK
    <3>5. \A d \in Collectors : torn'[d] /\ Writing(d)' => pos'[d] < Len(log'[d])
      BY <3>1, <3>3 DEF OrderInv
    <3>6. QED  BY <2>1, <3>1, <3>4, <3>5
  <2>4. ASSUME NEW from_start \in BOOLEAN, Start(from_start)
        PROVE  OrderInv' /\ RowsKeepLogOrder'
    <3>1. /\ Inserted' = Inserted /\ run' = run + 1 /\ run \in Nat
          /\ UNCHANGED <<log, torn, pos>> /\ replays \subseteq replays'
          /\ \A c \in Collectors : pc'[c] = "wait"
      BY <2>4, InsertedFrame DEF Start, TypeOK
    <3>2. \A c \in Collectors : ~Writing(c)'
      BY <3>1 DEF Writing, WriteSteps
    <3>3. \A row \in ToSet(Inserted) : RowOK(row) /\ row.run \in Nat
      BY RowsHaveTypes DEF OrderInv
    <3>4. \A row \in ToSet(Inserted) : RowOK(row)'
      BY <3>1, <3>3 DEF RowOK
    <3>5. QED  BY <2>1, <3>1, <3>2, <3>4
  <2>5. ASSUME NEW c \in Collectors, Open(c) \/ Read(c)
        PROVE  OrderInv' /\ RowsKeepLogOrder'
    <3>1. /\ Inserted' = Inserted /\ UNCHANGED <<log, torn, replays>>
          /\ \A d \in Collectors \ {c} : pc'[d] = pc[d] /\ pos'[d] = pos[d]
      BY <2>5, TailFrame, InsertedFrame
    <3>2. \A row \in ToSet(Inserted) : RowOK(row)'
      BY <2>5, OrderOpen, OrderRead
    <3>3. torn[c] /\ Writing(c)' => pos'[c] < Len(log[c])
      <4>1. CASE Open(c)
        BY <4>1 DEF Open, TypeOK, Writing, WriteSteps
      <4>2. CASE Read(c)
        BY <4>2 DEF Read, HasNext, Torn, TypeOK
      <4>3. QED  BY <2>5, <4>1, <4>2
    <3>4. \A d \in Collectors : torn'[d] /\ Writing(d)' => pos'[d] < Len(log'[d])
      <4>1. \A d \in Collectors \ {c} : Writing(d)' = Writing(d)
        BY <3>1 DEF Writing
      <4>2. QED  BY <3>1, <3>3, <4>1 DEF OrderInv
    <3>5. QED  BY <2>1, <3>1, <3>2, <3>4
  <2>6. ASSUME NEW c \in Collectors, Write(c), ~Insert(c)
        PROVE  OrderInv' /\ RowsKeepLogOrder'
    <3>1. /\ Inserted' = Inserted /\ Writing(c)
          /\ UNCHANGED <<log, torn, pos, run, replays>>
          /\ \A d \in Collectors \ {c} : pc'[d] = pc[d]
          /\ pc'[c] \in WriteSteps \cup {"tail", "dead"}
      BY <2>6, OtherWrites, WriteFrame
    <3>2. \A d \in Collectors : Writing(d)' => Writing(d)
      BY <3>1 DEF Writing
    <3>3. \A d \in Collectors : InHand(d)' \subseteq InHand(d)
      <4>1. pc'[c] \in {"execute", "begin", "insert"} =>
              pc[c] \in {"execute", "begin", "insert"}
        <5>1. CASE Execute(c) \/ Begin(c) \/ InsertLocked(c)
          BY <5>1 DEF Execute, Begin, InsertLocked
        <5>2. CASE Commit(c) \/ Committing(c) \/ CommitLocked(c)
          BY <5>2 DEF Commit, Committing, CommitLocked, TypeOK
        <5>3. QED  BY <2>6, <5>1, <5>2 DEF Write
      <4>2. QED  BY <3>1, <4>1 DEF InHand
    <3>4. \A row \in ToSet(Inserted) : RowOK(row) /\ (Settled(row)' = Settled(row))
      BY <3>1 DEF OrderInv, Settled
    <3>5. ASSUME NEW row \in ToSet(Inserted)
          PROVE  RowOK(row)'
      <4>1. CASE row.source = c
        <5>1. /\ pc[c] \notin {"down", "wait"} /\ pc'[c] # "wait"
          BY <3>1 DEF Writing, WriteSteps
        <5>2. QED  BY <3>1, <3>3, <3>4, <4>1, <5>1 DEF RowOK
      <4>2. CASE row.source # c
        BY <3>1, <3>3, <3>4, <4>2 DEF RowOK
      <4>3. QED  BY <4>1, <4>2
    <3>6. \A d \in Collectors : torn'[d] /\ Writing(d)' => pos'[d] < Len(log'[d])
      BY <3>1, <3>2 DEF OrderInv
    <3>7. QED  BY <2>1, <3>1, <3>5, <3>6
  <2>7. ASSUME NEW c \in Collectors, Insert(c)
        PROVE  OrderInv' /\ RowsKeepLogOrder'
    BY <2>7, OrderInsert
  <2>8. CASE Exit
    <3>1. /\ ToSet(Inserted)' \subseteq ToSet(Inserted)
          /\ \A i \in DOMAIN Inserted' :
               i \in DOMAIN Inserted /\ Inserted'[i] = Inserted[i]
      BY <2>8, ExitDropsPending
    <3>2. /\ \A c \in Collectors : pc'[c] = "down"
          /\ UNCHANGED <<log, torn, run, replays>>
      BY <2>8 DEF Exit
    <3>3. RowsKeepLogOrder'
      BY <3>1, <3>2, OrderFrame
    <3>4. \A row \in ToSet(Inserted) : RowOK(row)'
      BY <3>2 DEF OrderInv, RowOK
    <3>5. \A c \in Collectors : ~Writing(c)'
      BY <3>2 DEF Writing, WriteSteps
    <3>6. QED  BY <3>1, <3>3, <3>4, <3>5 DEF OrderInv
  <2>9. CASE UNCHANGED vars
    <3>1. UNCHANGED <<Inserted, log, torn, pc, pos, run, replays>>
      BY <2>9 DEF vars, Inserted
    <3>2. \A row \in ToSet(Inserted) : RowOK(row)'
      BY <3>1 DEF OrderInv, RowOK, Settled, InHand
    <3>3. QED  BY <2>1, <3>1, <3>2 DEF OrderInv, Writing
  <2>10. QED
    BY <2>2, <2>3, <2>4, <2>5, <2>6, <2>7, <2>8, <2>9 DEF Next, Sensor, Thread
<1>3. QED
  BY <1>1, <1>2, TypeCorrect, PTL DEF Spec

\* RowsKeepLogOrder: the rows of a source are in the order of its log and no
\* line is there twice, but where a process was told to replay the log.
THEOREM RowsAreInLogOrder == Spec => []RowsKeepLogOrder
BY OrderInvariant, PTL
-----------------------------------------------------------------------------
(* The grades of tools. *)

\* A row says of its line what the source's function makes of it.
GradeInv ==
  \A row \in ToSet(Inserted) :
    LET event == normalize(row.source, log[row.source][row.nr])
    IN  row.attack_type = event.attack_type /\ row.severity = event.severity

\* The two tables of grades, each written out, agree.
LEMMA GradesAgree ==
  ASSUME NEW source \in Sources, NEW line \in Lines,
         normalize(source, line).attack_type = "automated_tool"
  PROVE  normalize(source, line).severity = _SEVERITY(line.tool)
<1>1. line.event # "automated_tool"
  BY DEF Lines, CowrieEvents
<1>2. normalize(source, line) = Event("automated_tool", _TOOL_SEV(line.tool))
  <2> USE DEF normalize, from_cowrie, from_dionaea, from_zeek_conn, from_zeek_http,
              from_zeek_ssh, from_zeek_dns, Fingerprinted, Event
  <2>1. CASE source = "cowrie"
    BY <1>1, <2>1
  <2>2. CASE source \in {"dionaea", "zeek-conn", "zeek-dns"}
    BY <2>2
  <2>3. CASE source \in {"zeek-http", "zeek-ssh"}
    BY <2>3
  <2>4. QED  BY <2>1, <2>2, <2>3 DEF Sources
<1>3. line.tool \in Categories
  <2>1. line.tool # NoTool
    <3> USE DEF normalize, from_cowrie, from_dionaea, from_zeek_conn, from_zeek_http,
                from_zeek_ssh, from_zeek_dns, Fingerprinted, Event
    <3>1. CASE source = "cowrie"
      BY <1>1, <3>1
    <3>2. CASE source \in {"dionaea", "zeek-conn", "zeek-dns"}
      BY <3>2
    <3>3. CASE source \in {"zeek-http", "zeek-ssh"}
      BY <3>3
    <3>4. QED  BY <3>1, <3>2, <3>3 DEF Sources
  <2>2. QED  BY <2>1 DEF Lines
<1>4. \A category \in Categories : _TOOL_SEV(category) = _SEVERITY(category)
  BY DEF Categories, _TOOL_SEV, _SEVERITY
<1>5. QED  BY <1>2, <1>3, <1>4 DEF Event

\* ToolsAreGradedAlike: a tool's severity in the table is the one the packet
\* monitor gives its category, for every source and line.
THEOREM GradesMirrorEachOther == Spec => []ToolsAreGradedAlike
<1>1. Init => GradeInv
  <2> SUFFICES ASSUME Init PROVE GradeInv
    OBVIOUS
  <2>1. ToSet(Inserted) = {}
    BY DEF Init, Inserted, ToSet
  <2>2. QED  BY <2>1 DEF GradeInv
<1>2. TypeOK /\ OrderInv /\ GradeInv /\ [Next]_vars => GradeInv'
  <2> SUFFICES ASSUME TypeOK, OrderInv, GradeInv, [Next]_vars
               PROVE  GradeInv'
    OBVIOUS
  <2> USE DEF logVars, tailVars, fateVars, storeVars, runVars
  <2>1. ASSUME ToSet(Inserted)' \subseteq ToSet(Inserted),
               \A row \in ToSet(Inserted) :
                 log'[row.source][row.nr] = log[row.source][row.nr]
        PROVE  GradeInv'
    BY <2>1 DEF GradeInv
  <2>2. ASSUME Inserted' = Inserted, log' = log
        PROVE  GradeInv'
    BY <2>1, <2>2
  <2>3. ASSUME NEW c \in Collectors, NEW line \in Inputs[c], NEW part \in BOOLEAN,
               WriteLine(c, line, part)
        PROVE  GradeInv'
    <3>1. Inserted' = Inserted
      BY <2>3, InsertedFrame DEF WriteLine
    <3>2. \A d \in Collectors : \A i \in 1 .. Len(log[d]) : log'[d][i] = log[d][i]
      <4>1. line \in Lines /\ log' = [log EXCEPT ![c] = Append(log[c], line)]
        BY <2>3 DEF WriteLine
      <4>2. QED  BY <4>1 DEF TypeOK
    <3>3. \A row \in ToSet(Inserted) :
            row.source \in Collectors /\ row.nr \in 1 .. Len(log[row.source])
      <4>1. \A row \in ToSet(Inserted) :
              /\ row.source \in Collectors /\ row.nr \in Nat
              /\ 1 <= row.nr /\ row.nr <= Len(log[row.source])
        BY RowsHaveTypes DEF OrderInv, RowOK
      <4>2. \A d \in Collectors : Len(log[d]) \in Nat
        BY DEF TypeOK
      <4>3. QED  BY <4>1, <4>2
    <3>4. QED  BY <2>1, <3>1, <3>2, <3>3
  <2>4. ASSUME NEW c \in Collectors,
               FinishLine(c) \/ Rotate(c) \/ Open(c) \/ ReadPart(c) \/ Read(c)
        PROVE  GradeInv'
    BY <2>2, <2>4, InsertedFrame DEF FinishLine, Rotate, Open, ReadPart, Read
  <2>5. CASE \E from_start \in BOOLEAN : Start(from_start)
    BY <2>2, <2>5, InsertedFrame DEF Start
  <2>6. ASSUME NEW c \in Collectors, Write(c), ~Insert(c)
        PROVE  GradeInv'
    BY <2>2, <2>6, OtherWrites, WriteFrame
  <2>7. ASSUME NEW c \in Collectors, Insert(c)
        PROVE  GradeInv'
    <3>1. /\ ToSet(Inserted)' = ToSet(Inserted) \cup {RowOf(c)}
          /\ log' = log
      BY <2>7, InsertAppends DEF Insert
    <3>2. ASSUME NEW row, row = RowOf(c)
          PROVE  LET event == normalize(row.source, log[row.source][row.nr])
                 IN  row.attack_type = event.attack_type /\ row.severity = event.severity
      <4> HIDE DEF normalize
      <4>1. QED  BY <3>2 DEF RowOf
    <3>3. QED  BY <3>1, <3>2 DEF GradeInv
  <2>8. CASE Exit
    BY <2>1, <2>8, ExitDropsPending DEF Exit
  <2>9. CASE UNCHANGED vars
    BY <2>2, <2>9 DEF vars, Inserted
  <2>10. QED
    BY <2>3, <2>4, <2>5, <2>6, <2>7, <2>8, <2>9 DEF Next, Sensor, Thread
<1>3. TypeOK /\ OrderInv /\ GradeInv => ToolsAreGradedAlike
  <2> SUFFICES ASSUME TypeOK, OrderInv, GradeInv, NEW row \in ToSet(Inserted),
                      row.attack_type = "automated_tool"
               PROVE  row.severity = _SEVERITY(log[row.source][row.nr].tool)
    BY DEF ToolsAreGradedAlike
  <2>1. /\ row.source \in Collectors /\ row.nr \in Nat
        /\ 1 <= row.nr /\ row.nr <= Len(log[row.source])
    BY RowsHaveTypes DEF OrderInv, RowOK
  <2>2. row.source \in Sources /\ log[row.source][row.nr] \in Lines
    BY <2>1 DEF TypeOK
  <2>3. QED  BY <2>2, GradesAgree DEF GradeInv
<1>4. QED
  BY <1>1, <1>2, <1>3, TypeCorrect, OrderInvariant, PTL DEF Spec
=============================================================================
