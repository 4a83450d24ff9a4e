----------------------------- MODULE Lifecycle ------------------------------
(***************************************************************************)
(* Deception environments from deployment to teardown: the engine that     *)
(* generates them (deception/engine.py), the registry that starts, watches *)
(* and reaps them (deception/lifecycle.py), their fake servers             *)
(* (deception/fake_server.py), and what those leave on the host: Docker    *)
(* containers and a directory of fake files.  The registry lives in the    *)
(* process and dies with it; containers and directories do not.            *)
(*                                                                         *)
(* An operation is one step: the process runs them one after the other,    *)
(* and dying inside one leaves the host as a run of that operation whose   *)
(* remaining Docker calls all fail, followed by Crash.                     *)
(***************************************************************************)
EXTENDS Naturals, FiniteSets

CONSTANTS
  Envs,        \* bound: environments on the host at any time, by env_id
  Services,    \* services of fake servers; each has one fixed host port
  Tiers,       \* templates
  ServicesOf,  \* the services of each template
  TtlOf,       \* ttl_seconds of each template, in clock steps
  Docker,      \* dry_run is off and the docker package is there
  Managed      \* somebody outside src/ calls tick, teardown, mark_session_closed

ASSUME LifecycleConstants ==
  /\ ServicesOf \in [Tiers -> SUBSET Services]
  /\ TtlOf \in [Tiers -> Nat]
  /\ Docker \in BOOLEAN
  /\ Managed \in BOOLEAN

VARIABLES
  status,        \* Environment.status, "none" when not in the registry
  remaining,     \* Environment.remaining, in clock steps
  session_open,  \* environments whose session is open
  server,        \* FakeServer.status, "absent" when not in the template
  container_id,  \* per environment: servers that know their container
  containers,    \* Docker's view of each server's container
  dirs,          \* environments with a directory on disk
  raised,        \* servers whose start raised (history)
  refused        \* servers whose removal the last teardown did not get (history)

registryVars == <<status, remaining, session_open, server, container_id>>
hostVars     == <<containers, dirs>>
history      == <<raised, refused>>
vars == <<registryVars, hostVars, history>>

Active(e) == status[e] = "active"

\* The host has nothing of this environment: its id may stand for a new one.
Unused(e) ==
  /\ status[e] = "none"
  /\ e \notin dirs
  /\ \A s \in Services : containers[e][s] = "absent"

PortFree(s) == \A e \in Envs : containers[e][s] # "running"

\* How the start of one server ends: pretended; running; refused by Docker; or,
\* as containers.run creates, then starts, and may give up waiting for an answer,
\* with an exception and a container that was created or that runs all the same.
Outcomes == {"pretended", "started", "refused", "left", "orphaned"}

Running == {"started", "orphaned"}

StartOutcomes(s) ==
  IF ~Docker THEN {"pretended"}
  ELSE {o \in Outcomes \ {"pretended"} : o \in Running => PortFree(s)}

Raises(outcome) == outcome \in {"refused", "left", "orphaned"}

\* Mutation: a failed start is not noticed.
StatusAlwaysRunning(outcome) == "running"

\* FakeServer.status after start(); any exception makes it "error".
StatusAfter(outcome) ==
  IF Raises(outcome) THEN "error" ELSE "running"

\* Mutation: the id is taken before the container runs, and lost if it does.
IdOfLeft(outcome) == outcome = "left"

\* container_id is assigned only when containers.run returned.
IdKnown(outcome) == outcome = "started"

ContainerAfter(outcome) ==
  IF outcome \in Running THEN "running"
  ELSE IF outcome = "left" THEN "created"
  ELSE "absent"

Init ==
  /\ status = [e \in Envs |-> "none"]
  /\ remaining = [e \in Envs |-> 0]
  /\ session_open = {}
  /\ server = [e \in Envs |-> [s \in Services |-> "absent"]]
  /\ container_id = [e \in Envs |-> {}]
  /\ containers = [e \in Envs |-> [s \in Services |-> "absent"]]
  /\ dirs = {}
  /\ raised = {}
  /\ refused = {}
-----------------------------------------------------------------------------
(* The engine and the registry. *)

\* generate_environment and register: files, then the servers one by one, then
\* the registry.
generate_environment(e, tier) ==
  /\ Unused(e)
  /\ \E outcome \in [ServicesOf[tier] -> Outcomes] :
       /\ \A s \in ServicesOf[tier] : outcome[s] \in StartOutcomes(s)
       /\ server' = [server EXCEPT ![e] = [s \in Services |->
            IF s \in ServicesOf[tier] THEN StatusAfter(outcome[s]) ELSE "absent"]]
       /\ container_id' = [container_id EXCEPT ![e] =
            {s \in ServicesOf[tier] : IdKnown(outcome[s])}]
       /\ containers' = [containers EXCEPT ![e] = [s \in Services |->
            IF s \in ServicesOf[tier] THEN ContainerAfter(outcome[s]) ELSE "absent"]]
       /\ raised' = raised \cup ({e} \X {s \in ServicesOf[tier] : Raises(outcome[s])})
  /\ dirs' = dirs \cup {e}
  /\ UNCHANGED refused
  /\ status' = [status EXCEPT ![e] = "active"]
  /\ remaining' = [remaining EXCEPT ![e] = TtlOf[tier]]
  /\ session_open' = session_open \cup {e}

\* The file system factory raises half-way; the caller swallows it.
BuildFails(e) ==
  /\ Unused(e)
  /\ dirs' = dirs \cup {e}
  /\ UNCHANGED <<registryVars, containers, history>>

\* Mutation: the container is looked up by its service.
RemovableByService(over) ==
  {e \in Envs : status[e] # "none"} \X Services

\* stop() removes a container only if its id is known.
Removable(over) == {known \in over \X Services : known[2] \in container_id[known[1]]}

\* teardown of each of these: servers are stopped and files deleted, and what
\* Docker or the file system refuses is passed over in silence.
TearDown(over) ==
  /\ \E failed \in SUBSET Removable(over), kept \in SUBSET over :
       /\ containers' = [e \in Envs |-> [s \in Services |->
            IF <<e, s>> \in Removable(over) \ failed THEN "absent"
            ELSE containers[e][s]]]
       /\ dirs' = dirs \ (over \ kept)
       /\ refused' = (refused \ (over \X Services)) \cup failed
  /\ server' = [e \in Envs |-> [s \in Services |->
       IF e \in over /\ server[e][s] # "absent" THEN "stopped" ELSE server[e][s]]]
  /\ status' = [e \in Envs |-> IF e \in over THEN "torndown" ELSE status[e]]
  /\ UNCHANGED <<remaining, session_open, container_id, raised>>

\* DeceptionEngine.teardown, also on an environment that is torn down already.
teardown(e) ==
  /\ Managed
  /\ status[e] # "none"
  /\ TearDown({e})

\* Mutation: only sessions that ended count.
ClosedOnly(e, reap_closed) == reap_closed /\ e \notin session_open

\* What tick finds expired or, if asked to look, closed.
Due(e, reap_closed) == remaining[e] = 0 \/ (reap_closed /\ e \notin session_open)

tick(reap_closed) ==
  /\ Managed
  /\ LET due == {e \in Envs : Active(e) /\ Due(e, reap_closed)} IN
       /\ due # {}
       /\ TearDown(due)

mark_session_closed(e) ==
  /\ Managed
  /\ status[e] # "none"
  /\ session_open' = session_open \ {e}
  /\ UNCHANGED <<status, remaining, server, container_id, hostVars, history>>
-----------------------------------------------------------------------------
(* Time, Docker, and the process that holds the registry. *)

\* Mutation: the time left may become negative.
LeftBelowZero(steps) == steps - 1

\* One clock step less, but never less than none.
Left(steps) == IF steps = 0 THEN 0 ELSE steps - 1

Advance ==
  /\ \E e \in Envs : Active(e) /\ remaining[e] > 0
  /\ remaining' = [e \in Envs |-> Left(remaining[e])]
  /\ UNCHANGED <<status, session_open, server, container_id, hostVars, history>>

\* A container exits on its own, or the host restarts; nobody tells the code.
ContainerDies(e, s) ==
  /\ containers[e][s] = "running"
  /\ containers' = [containers EXCEPT ![e][s] = "exited"]
  /\ UNCHANGED <<registryVars, dirs, history>>

\* The process dies; the next one starts with an empty registry.
Crash ==
  /\ \E e \in Envs : status[e] # "none"
  /\ status' = [e \in Envs |-> "none"]
  /\ remaining' = [e \in Envs |-> 0]
  /\ session_open' = {}
  /\ server' = [e \in Envs |-> [s \in Services |-> "absent"]]
  /\ container_id' = [e \in Envs |-> {}]
  /\ raised' = {}
  /\ refused' = {}
  /\ UNCHANGED hostVars

Operation(e) ==
  \/ \E tier \in Tiers : generate_environment(e, tier)
  \/ BuildFails(e)
  \/ teardown(e)
  \/ mark_session_closed(e)

Next ==
  \/ \E e \in Envs : Operation(e)
  \/ \E reap_closed \in BOOLEAN : tick(reap_closed)
  \/ Advance
  \/ \E e \in Envs, s \in Services : ContainerDies(e, s)
  \/ Crash

Spec == Init /\ [][Next]_vars

\* Time passes, and whoever manages the registry calls tick() periodically,
\* as the docstring of lifecycle.py has it.
FairSpec == Spec /\ WF_vars(Advance) /\ WF_vars(tick(TRUE))
-----------------------------------------------------------------------------
(* Properties. *)

\* Every variable holds what the code can put there; a server that is not in
\* the registry has no status and no container_id.
TypeOK ==
  /\ status \in [Envs -> {"none", "active", "torndown"}]
  /\ remaining \in [Envs -> Nat]
  /\ session_open \subseteq Envs
  /\ server \in [Envs -> [Services -> {"absent", "running", "stopped", "error"}]]
  /\ container_id \in [Envs -> SUBSET Services]
  /\ containers \in [Envs -> [Services -> {"absent", "created", "running", "exited"}]]
  /\ dirs \subseteq Envs
  /\ raised \subseteq Envs \X Services
  /\ refused \subseteq Envs \X Services
  /\ \A e \in Envs, s \in Services :
       server[e][s] = "absent" => s \notin container_id[e]
  /\ \A e \in Envs : status[e] = "none" => e \notin session_open

\* As long as the process lives, teardown can remove each container of an
\* environment, also at a second attempt after a removal that failed, unless its
\* server's start raised; and an environment counts as torn down while a container
\* of it is there only if the start raised or the removal was refused.
LeftoversAreExplained ==
  \A e \in Envs, s \in Services :
    containers[e][s] # "absent" =>
      /\ status[e] # "none" => s \in container_id[e] \/ <<e, s>> \in raised
      /\ status[e] = "torndown" => <<e, s>> \in raised \cup refused

\* LifecycleManager.health.
healthy(e) ==
  /\ Active(e)
  /\ \A s \in Services : server[e][s] \in {"absent", "running"}

\* An environment reported healthy has a container for each of its servers
\* that did start and that nobody has removed, other environments' teardowns
\* included (it may have exited since).
HealthyMeansStarted ==
  Docker =>
    \A e \in Envs, s \in Services :
      healthy(e) /\ server[e][s] # "absent" => containers[e][s] \in {"running", "exited"}

\* Tearing one environment down takes nothing from another: containers and
\* directories disappear only from environments that are then torn down.
TeardownIsContained ==
  [][\A e \in Envs :
       \/ status'[e] = "torndown"
       \/ /\ e \in dirs => e \in dirs'
          /\ \A s \in Services :
               containers[e][s] # "absent" => containers'[e][s] # "absent"]_vars

\* "reaps environments whose TTL has elapsed" (deception/lifecycle.py:3-4),
\* "auto-teardown on TTL or session close" (docs/architecture.md:51-52): no
\* environment stays active for ever.
EveryEnvironmentIsReaped == \A e \in Envs : Active(e) ~> ~Active(e)
=============================================================================
