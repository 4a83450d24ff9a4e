------------------------------ MODULE Pipeline ------------------------------
(***************************************************************************)
(* The log pipeline (pipeline/run_pipeline.py): one thread per sensor log, *)
(* each tailing its file (tail_json), normalising a line at a time and     *)
(* inserting the event over the one sqlite connection that all of them     *)
(* share without a lock (EventStore.write).  Sensors append, sometimes     *)
(* half a line at a time, and rotate their logs; the process may die       *)
(* between any two steps and be started again.                             *)
(*                                                                         *)
(* Python's sqlite3 looks whether a transaction is open before it issues   *)
(* BEGIN, and again before COMMIT, and lets other threads run in between,  *)
(* so each is two steps here.  When its BEGIN fails, the error may also be *)
(* overwritten by another thread's success before it is read: execute()    *)
(* then returns without having inserted and without an exception.          *)
(***************************************************************************)
EXTENDS Normalizer, Sequences, FiniteSets, SequencesExt

CONSTANTS
  Collectors,   \* the sources whose logs are tailed
  Inputs,       \* lines each source may write
  MaxLines,     \* bounds: lines of each log
  MaxRuns       \* bound: starts of the process

ASSUME PipelineConstants ==
  /\ Collectors \subseteq Sources
  /\ IsFiniteSet(Collectors)
  /\ Inputs \in [Collectors -> SUBSET Lines]
  /\ MaxLines \in [Collectors -> Nat]
  /\ MaxRuns \in Nat

VARIABLES
  log,          \* every line a sensor ever wrote, rotated files included
  torn,         \* the last line is written only in part so far
  base,         \* lines in rotated files: the current one begins after them
  end,          \* lines of the file a thread has open, once it is rotated
  pc,           \* each thread: "down", "wait" for the file, "tail", the steps
                \* of a write, or "dead" of an exception
  pos,          \* lines of its log a thread is through with or working on
  half,         \* the thread has read a part of the next line
  begun,        \* where the thread began (history)
  missed,       \* lines of this run read in halves, or whose write failed,
                \* silently or not (history)
  overlap,      \* another thread was writing during this write (history)
  cause,        \* what a thread died of (history)
  open,         \* the connection is in a transaction
  pending,      \* rows inserted in that transaction
  events,       \* the table
  run,          \* starts of the process so far
  replays       \* those with PIPELINE_FROM_START=1

logVars   == <<log, torn, base>>
tailVars  == <<end, pos, half, begun>>
fateVars  == <<missed, overlap, cause>>
storeVars == <<open, pending, events>>
runVars   == <<run, replays>>
vars == <<logVars, tailVars, pc, fateVars, storeVars, runVars>>

\* The end of a file that is still written to.
Growing(c) == MaxLines[c] + 1

Row == [source : Sources, nr : Nat, run : 1 .. MaxRuns,
        attack_type : CowrieEvents \cup {"automated_tool", "connection",
          "http_request", "ssh_connection", "dns_query"},
        severity : {"low", "medium", "high"}]

WriteSteps == {"execute", "begin", "insert", "commit", "committing"}
Writing(c) == pc[c] \in WriteSteps
Down(c) == pc[c] \in {"down", "dead"}

Init ==
  /\ log = [c \in Collectors |-> << >>]
  /\ torn = [c \in Collectors |-> FALSE]
  /\ base = [c \in Collectors |-> 0]
  /\ end = [c \in Collectors |-> Growing(c)]
  /\ pc = [c \in Collectors |-> "down"]
  /\ pos = [c \in Collectors |-> 0]
  /\ half = [c \in Collectors |-> FALSE]
  /\ begun = [c \in Collectors |-> 0]
  /\ missed = [c \in Collectors |-> {}]
  /\ overlap = [c \in Collectors |-> FALSE]
  /\ cause = [c \in Collectors |-> "none"]
  /\ open = FALSE
  /\ pending = << >>
  /\ events = << >>
  /\ run = 0
  /\ replays = {}
-----------------------------------------------------------------------------
(* The sensors. *)

\* A line is appended, whole or its first part only.
WriteLine(c, line, part) ==
  /\ ~torn[c]
  /\ Len(log[c]) < MaxLines[c]
  /\ log' = [log EXCEPT ![c] = Append(@, line)]
  /\ torn' = [torn EXCEPT ![c] = part]
  /\ UNCHANGED <<base, tailVars, pc, fateVars, storeVars, runVars>>

FinishLine(c) ==
  /\ torn[c]
  /\ torn' = [torn EXCEPT ![c] = FALSE]
  /\ UNCHANGED <<log, base, tailVars, pc, fateVars, storeVars, runVars>>

\* The file is renamed and an empty one takes its place.
Rotate(c) ==
  /\ ~torn[c]
  /\ Len(log[c]) > base[c]
  /\ base' = [base EXCEPT ![c] = Len(log[c])]
  /\ end' = IF pc[c] \notin {"down", "wait"} /\ end[c] = Growing(c)
            THEN [end EXCEPT ![c] = Len(log[c])]
            ELSE end
  /\ UNCHANGED <<log, torn, pos, half, begun, pc, fateVars, storeVars, runVars>>
-----------------------------------------------------------------------------
(* tail_json and run: one thread per log. *)

\* The process is started, from the start of the files or from their end.
Start(from_start) ==
  /\ \A c \in Collectors : pc[c] = "down"
  /\ run < MaxRuns
  /\ run' = run + 1
  /\ replays' = IF from_start THEN replays \cup {run + 1} ELSE replays
  /\ pc' = [c \in Collectors |-> "wait"]
  /\ UNCHANGED <<logVars, tailVars, fateVars, storeVars>>

FromStart == run \in replays

\* Mutation: tailing begins with the last line there is.
ResumePointEarly(c) ==
  IF FromStart \/ log[c] = << >> THEN base[c] ELSE Len(log[c]) - 1

\* Lines before the place where a thread begins to read; a line that is being
\* written is begun in the middle.
ResumePoint(c) ==
  IF FromStart THEN base[c]
  ELSE IF torn[c] THEN Len(log[c]) - 1
  ELSE Len(log[c])

\* The file exists once the sensor has written to it.
Open(c) ==
  /\ pc[c] = "wait"
  /\ log[c] # << >>
  /\ pc' = [pc EXCEPT ![c] = "tail"]
  /\ end' = [end EXCEPT ![c] = Growing(c)]
  /\ pos' = [pos EXCEPT ![c] = ResumePoint(c)]
  /\ begun' = [begun EXCEPT ![c] = ResumePoint(c)]
  /\ half' = [half EXCEPT ![c] = torn[c] /\ ~FromStart]
  /\ missed' = [missed EXCEPT ![c] = IF torn[c] /\ ~FromStart THEN {Len(log[c])} ELSE {}]
  /\ UNCHANGED <<logVars, overlap, cause, storeVars, runVars>>

\* Mutation: a line is not read before the next one is there.
HasNextLate(c) == pos[c] + 1 < Len(log[c]) /\ pos[c] < end[c]

\* readline has something of the next line of the open file.
HasNext(c) == pos[c] < Len(log[c]) /\ pos[c] < end[c]

Torn(c) == torn[c] /\ pos[c] + 1 = Len(log[c])

\* A part of a line is read: it does not parse.
ReadPart(c) ==
  /\ pc[c] = "tail"
  /\ HasNext(c) /\ Torn(c) /\ ~half[c]
  /\ half' = [half EXCEPT ![c] = TRUE]
  /\ missed' = [missed EXCEPT ![c] = @ \cup {pos[c] + 1}]
  /\ UNCHANGED <<logVars, end, pos, begun, pc, overlap, cause, storeVars, runVars>>

\* A whole line is read, or the rest of one, which does not parse either.
Read(c) ==
  /\ pc[c] = "tail"
  /\ HasNext(c) /\ ~Torn(c)
  /\ pos' = [pos EXCEPT ![c] = @ + 1]
  /\ half' = [half EXCEPT ![c] = FALSE]
  /\ LET outcome == IF half[c] THEN "skip" ELSE Outcome(c, log[c][pos[c] + 1])
     IN  /\ pc' = IF outcome = "event" THEN [pc EXCEPT ![c] = "execute"]
                  ELSE IF outcome = "raise" THEN [pc EXCEPT ![c] = "dead"]
                  ELSE pc
         /\ cause' = IF outcome = "raise" THEN [cause EXCEPT ![c] = "line"] ELSE cause
         /\ overlap' = IF outcome = "event"
                       THEN [d \in Collectors |->
                               IF d = c THEN \E e \in Collectors \ {c} : Writing(e)
                               ELSE overlap[d] \/ Writing(d)]
                       ELSE overlap
  /\ UNCHANGED <<logVars, end, begun, missed, storeVars, runVars>>
-----------------------------------------------------------------------------
(* EventStore.write on the shared connection. *)

\* Mutation: every execute() begins a transaction.
ExecuteBlind(c) ==
  /\ pc[c] = "execute"
  /\ pc' = [pc EXCEPT ![c] = "begin"]
  /\ UNCHANGED <<logVars, tailVars, fateVars, storeVars, runVars>>

\* execute() looks whether a transaction is open.
Execute(c) ==
  /\ pc[c] = "execute"
  /\ pc' = [pc EXCEPT ![c] = IF open THEN "insert" ELSE "begin"]
  /\ UNCHANGED <<logVars, tailVars, fateVars, storeVars, runVars>>

\* Mutation: the connection is rolled back after an error.
BeginOrRollback(c) ==
  /\ pc[c] = "begin"
  /\ open' = ~open
  /\ pending' = << >>
  /\ pc' = [pc EXCEPT ![c] = IF open THEN "commit" ELSE "insert"]
  /\ missed' = IF open THEN [missed EXCEPT ![c] = @ \cup {pos[c]}] ELSE missed
  /\ UNCHANGED <<logVars, tailVars, overlap, cause, events, runVars>>

\* BEGIN fails in a transaction: execute() raises, or returns as if all were
\* well.
Begin(c) ==
  /\ pc[c] = "begin"
  /\ open' = TRUE
  /\ IF ~open
     THEN pc' = [pc EXCEPT ![c] = "insert"] /\ UNCHANGED <<missed, cause>>
     ELSE /\ missed' = [missed EXCEPT ![c] = @ \cup {pos[c]}]
          /\ \/ pc' = [pc EXCEPT ![c] = "dead"] /\ cause' = [cause EXCEPT ![c] = "race"]
             \/ pc' = [pc EXCEPT ![c] = "commit"] /\ UNCHANGED cause
  /\ UNCHANGED <<logVars, tailVars, overlap, pending, events, runVars>>

\* The row of the line in hand.
RowOf(c) ==
  LET event == normalize(c, log[c][pos[c]])
  IN  [source |-> c, nr |-> pos[c], run |-> run,
       attack_type |-> event.attack_type, severity |-> event.severity]

\* Without a transaction, because another thread has committed it meanwhile,
\* the INSERT commits itself.
Insert(c) ==
  /\ pc[c] = "insert"
  /\ pc' = [pc EXCEPT ![c] = "commit"]
  /\ IF open
     THEN pending' = Append(pending, RowOf(c)) /\ UNCHANGED events
     ELSE events' = Append(events, RowOf(c)) /\ UNCHANGED pending
  /\ UNCHANGED <<logVars, tailVars, fateVars, open, runVars>>

\* Another process holds the write lock longer than the connection's timeout.
\* It cannot once this connection has the lock.
InsertLocked(c) ==
  /\ pc[c] = "insert"
  /\ pending = << >>
  /\ pc' = [pc EXCEPT ![c] = "dead"]
  /\ cause' = [cause EXCEPT ![c] = "locked"]
  /\ missed' = [missed EXCEPT ![c] = @ \cup {pos[c]}]
  /\ UNCHANGED <<logVars, tailVars, overlap, storeVars, runVars>>

\* Mutation: the commit is left to somebody else.
CommitLater(c) ==
  /\ pc[c] = "commit"
  /\ pc' = [pc EXCEPT ![c] = "tail"]
  /\ UNCHANGED <<logVars, tailVars, fateVars, storeVars, runVars>>

\* commit() looks whether there is anything to commit.
Commit(c) ==
  /\ pc[c] = "commit"
  /\ pc' = [pc EXCEPT ![c] = IF open THEN "committing" ELSE "tail"]
  /\ UNCHANGED <<logVars, tailVars, fateVars, storeVars, runVars>>

\* Mutation: committed rows are kept for a next commit.
CommittingAgain(c) ==
  /\ pc[c] = "committing"
  /\ open' = FALSE
  /\ events' = events \o pending
  /\ pc' = [pc EXCEPT ![c] = "tail"]
  /\ UNCHANGED <<logVars, tailVars, fateVars, pending, runVars>>

\* COMMIT takes what every thread has inserted; if another thread was faster,
\* there is no transaction any more and it fails.
Committing(c) ==
  /\ pc[c] = "committing"
  /\ open' = FALSE
  /\ events' = events \o pending
  /\ pending' = << >>
  /\ IF open
     THEN pc' = [pc EXCEPT ![c] = "tail"] /\ UNCHANGED cause
     ELSE pc' = [pc EXCEPT ![c] = "dead"] /\ cause' = [cause EXCEPT ![c] = "race"]
  /\ UNCHANGED <<logVars, tailVars, missed, overlap, runVars>>

\* A reader in another process outlasts the timeout: the transaction stays
\* open, with its rows.
CommitLocked(c) ==
  /\ pc[c] = "committing"
  /\ open
  /\ pc' = [pc EXCEPT ![c] = "dead"]
  /\ cause' = [cause EXCEPT ![c] = "locked"]
  /\ UNCHANGED <<logVars, tailVars, missed, overlap, storeVars, runVars>>
-----------------------------------------------------------------------------
\* The process ends: it is killed, or no thread is left for main to join.
\* What was not committed is rolled back.
Exit ==
  /\ \E c \in Collectors : pc[c] # "down"
  /\ pc' = [c \in Collectors |-> "down"]
  /\ open' = FALSE
  /\ pending' = << >>
  /\ end' = [c \in Collectors |-> Growing(c)]
  /\ pos' = [c \in Collectors |-> 0]
  /\ half' = [c \in Collectors |-> FALSE]
  /\ begun' = [c \in Collectors |-> 0]
  /\ missed' = [c \in Collectors |-> {}]
  /\ overlap' = [c \in Collectors |-> FALSE]
  /\ cause' = [c \in Collectors |-> "none"]
  /\ UNCHANGED <<logVars, events, runVars>>
-----------------------------------------------------------------------------
Write(c) ==
  \/ Execute(c)
  \/ Begin(c)
  \/ Insert(c)
  \/ InsertLocked(c)
  \/ Commit(c)
  \/ Committing(c)
  \/ CommitLocked(c)

Thread(c) == Open(c) \/ ReadPart(c) \/ Read(c) \/ Write(c)

Sensor(c) ==
  \/ \E line \in Inputs[c], part \in BOOLEAN : WriteLine(c, line, part)
  \/ FinishLine(c)
  \/ Rotate(c)

Next ==
  \/ \E c \in Collectors : Sensor(c) \/ Thread(c)
  \/ \E from_start \in BOOLEAN : Start(from_start)
  \/ Exit

Spec == Init /\ [][Next]_vars

\* A thread that can go on does, and a sensor finishes the line it has begun.
\* Nothing starts the process.
FairSpec ==
  /\ Spec
  /\ \A c \in Collectors : WF_vars(Thread(c)) /\ WF_vars(FinishLine(c))
-----------------------------------------------------------------------------
(* Properties. *)

\* Every variable holds what the code can put there.  Rows wait only in an
\* open transaction, and a thread reads only what its file holds.
TypeOK ==
  /\ log \in [Collectors -> Seq(Lines)]
  /\ torn \in [Collectors -> BOOLEAN]
  /\ base \in [Collectors -> Nat]
  /\ end \in [Collectors -> Nat]
  /\ pc \in [Collectors -> {"down", "wait", "tail", "dead"} \cup WriteSteps]
  /\ pos \in [Collectors -> Nat]
  /\ half \in [Collectors -> BOOLEAN]
  /\ begun \in [Collectors -> Nat]
  /\ missed \in [Collectors -> SUBSET Nat]
  /\ overlap \in [Collectors -> BOOLEAN]
  /\ cause \in [Collectors -> {"none", "line", "race", "locked"}]
  /\ open \in BOOLEAN
  /\ pending \in Seq(Row)
  /\ events \in Seq(Row)
  /\ run \in 0 .. MaxRuns
  /\ replays \subseteq 1 .. run
  /\ ~open => pending = << >>
  /\ \A c \in Collectors :
       /\ begun[c] <= pos[c] /\ pos[c] <= Len(log[c])
       /\ base[c] <= Len(log[c]) /\ Len(log[c]) <= MaxLines[c]
       /\ Writing(c) => pos[c] > begun[c]
       /\ pc[c] # "down" => run # 0

\* The rows inserted, committed or not.
Inserted == events \o pending

Of(c) == {row \in ToSet(Inserted) : row.source = c /\ row.run = run}

\* The line a thread works on and has not inserted yet.
InHand(c) ==
  IF pc[c] \in {"execute", "begin", "insert"} THEN {pos[c]} ELSE {}

\* Of the lines a thread has read in this run, those that make an event are in
\* the table or in the open transaction, those and no others, except for lines
\* read in halves and those whose write failed: whatever other threads do,
\* commit or die of.
LinesAreAccountedFor ==
  \A c \in Collectors :
    pc[c] # "down" =>
      {row.nr : row \in Of(c)} =
        {i \in begun[c] + 1 .. pos[c] : Outcome(c, log[c][i]) = "event"}
          \ (missed[c] \cup InHand(c))

\* The rows of a source are in the order of its log, each line once, but where
\* a process was told to replay the log.
RowsKeepLogOrder ==
  \A i, j \in DOMAIN Inserted :
    LET a == Inserted[i]  b == Inserted[j]
    IN  i < j /\ a.source = b.source /\ a.nr >= b.nr =>
          \E r \in replays : a.run < r /\ r <= b.run

\* What a death of the process can lose: rows whose write has not returned, or
\* died in its commit, one per thread at most.
OnlyUnfinishedIsUncommitted ==
  \A i \in DOMAIN pending :
    LET row == pending[i]
    IN  /\ pc[row.source] \in {"commit", "committing", "dead"}
        /\ row.nr = pos[row.source] /\ row.run = run

\* The row of the line in hand, in the table.
Committed(c) ==
  \E row \in ToSet(events) : row.source = c /\ row.nr = pos[c] /\ row.run = run

\* A write that overlaps with no other thread's ends with its row in the table,
\* whatever state failed writes have left the connection in, unless another
\* process keeps the database locked.
LoneWritesSucceed ==
  [][\A c \in Collectors :
       Writing(c) /\ ~overlap[c] /\ pc'[c] \in {"tail", "dead"} =>
         Committed(c)' \/ cause'[c] = "locked"]_vars

\* A tool is graded by the pipeline as by the packet monitor ("mirrors
\* tool_fingerprint", normalizer.py:10).
ToolsAreGradedAlike ==
  \A row \in ToSet(Inserted) :
    row.attack_type = "automated_tool" =>
      row.severity = _SEVERITY(log[row.source][row.nr].tool)

\* A whole line with an event in it, in the file a thread has open, is stored,
\* whichever other threads die, unless its own write fails or its own thread or
\* the process dies.
EveryLineIsStored ==
  \A c \in Collectors : \A i \in 1 .. MaxLines[c], r \in 1 .. MaxRuns :
    (/\ run = r /\ pc[c] \notin {"down", "wait", "dead"}
     /\ pos[c] < i /\ i <= Len(log[c]) /\ i <= end[c]
     /\ Outcome(c, log[c][i]) = "event")
    ~> \/ \E row \in ToSet(events) : row.source = c /\ row.nr = i /\ row.run = r
       \/ i \in missed[c]
       \/ Down(c)
=============================================================================
