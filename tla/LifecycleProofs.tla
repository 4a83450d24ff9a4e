--------------------------- MODULE LifecycleProofs --------------------------
(***************************************************************************)
(* Theorems about Lifecycle, for any environments, services and templates, *)
(* with or without Docker, managed or not.                                 *)
(***************************************************************************)
EXTENDS Lifecycle, TLAPS

\* What tick and teardown have in common keeps the types.
LEMMA TearDownTypes ==
  ASSUME TypeOK, NEW over \in SUBSET {e \in Envs : status[e] # "none"}, TearDown(over)
  PROVE  TypeOK'
PROOF
<1>1. /\ UNCHANGED <<remaining, session_open, container_id, raised>>
      /\ over \subseteq Envs
      /\ \A e \in over : status[e] # "none"
  BY DEF TearDown
<1>2. containers' \in [Envs -> [Services -> {"absent", "created", "running", "exited"}]]
  BY DEF TypeOK, TearDown
<1>3. dirs' \subseteq Envs
  BY DEF TypeOK, TearDown
<1>4. /\ server' \in [Envs -> [Services -> {"absent", "running", "stopped", "error"}]]
      /\ \A e \in Envs, s \in Services :
           server'[e][s] = "absent" => server[e][s] = "absent"
  BY DEF TypeOK, TearDown
<1>5. /\ status' \in [Envs -> {"none", "active", "torndown"}]
      /\ \A e \in Envs : status'[e] = "none" => status[e] = "none"
  BY <1>1 DEF TypeOK, TearDown
<1>6. refused' \subseteq Envs \X Services
  <2>1. PICK failed \in SUBSET Removable(over) :
          refused' = (refused \ (over \X Services)) \cup failed
    BY DEF TearDown
  <2>2. Removable(over) \subseteq Envs \X Services
    BY <1>1 DEF Removable
  <2> QED
    BY <2>1, <2>2 DEF TypeOK
<1> QED
  BY <1>1, <1>2, <1>3, <1>4, <1>5, <1>6 DEF TypeOK

\* Every step keeps the types.
LEMMA StepTypes ==
  ASSUME LifecycleConstants, TypeOK, [Next]_vars
  PROVE  TypeOK'
PROOF
<1>1. ASSUME NEW e \in Envs, NEW tier \in Tiers, generate_environment(e, tier)
      PROVE  TypeOK'
  <2>1. PICK outcome \in [ServicesOf[tier] -> Outcomes] :
          /\ server' = [server EXCEPT ![e] = [s \in Services |->
               IF s \in ServicesOf[tier] THEN StatusAfter(outcome[s]) ELSE "absent"]]
          /\ container_id' = [container_id EXCEPT ![e] =
               {s \in ServicesOf[tier] : IdKnown(outcome[s])}]
          /\ containers' = [containers EXCEPT ![e] = [s \in Services |->
               IF s \in ServicesOf[tier] THEN ContainerAfter(outcome[s]) ELSE "absent"]]
          /\ raised' = raised \cup ({e} \X {s \in ServicesOf[tier] : Raises(outcome[s])})
    BY <1>1 DEF generate_environment
  <2>2. ServicesOf[tier] \subseteq Services /\ TtlOf[tier] \in Nat
    BY DEF LifecycleConstants
  <2>3. server' \in [Envs -> [Services -> {"absent", "running", "stopped", "error"}]]
    BY <2>1 DEF TypeOK, StatusAfter, Raises
  <2>4. container_id' \in [Envs -> SUBSET Services]
    BY <2>1, <2>2 DEF TypeOK
  <2>5. containers' \in [Envs -> [Services -> {"absent", "created", "running", "exited"}]]
    BY <2>1 DEF TypeOK, ContainerAfter
  <2>6. ASSUME NEW other \in Envs, NEW s \in Services, server'[other][s] = "absent"
        PROVE  s \notin container_id'[other]
    <3>1. CASE other = e
      BY <2>1, <2>2, <2>6, <3>1 DEF TypeOK, StatusAfter, Raises
    <3>2. CASE other # e
      BY <2>1, <2>6, <3>2 DEF TypeOK
    <3> QED
      BY <3>1, <3>2
  <2>7. /\ dirs' \subseteq Envs
        /\ status' \in [Envs -> {"none", "active", "torndown"}]
        /\ remaining' \in [Envs -> Nat]
        /\ session_open' \subseteq Envs
        /\ \A other \in Envs : status'[other] = "none" => other \notin session_open'
        /\ refused' \subseteq Envs \X Services
    BY <1>1, <2>2 DEF TypeOK, generate_environment
  <2>8. raised' \subseteq Envs \X Services
    BY <2>1, <2>2 DEF TypeOK
  <2> QED
    BY <2>3, <2>4, <2>5, <2>6, <2>7, <2>8 DEF TypeOK
<1>2. ASSUME NEW e \in Envs, BuildFails(e)
      PROVE  TypeOK'
  BY <1>2 DEF TypeOK, BuildFails, registryVars, history
<1>3. ASSUME NEW e \in Envs, teardown(e)
      PROVE  TypeOK'
  BY <1>3, TearDownTypes DEF teardown
<1>4. ASSUME NEW e \in Envs, mark_session_closed(e)
      PROVE  TypeOK'
  BY <1>4 DEF TypeOK, mark_session_closed, hostVars, history
<1>5. ASSUME NEW reap_closed \in BOOLEAN, tick(reap_closed)
      PROVE  TypeOK'
  <2>1. {e \in Envs : Active(e) /\ Due(e, reap_closed)}
          \in SUBSET {e \in Envs : status[e] # "none"}
    BY DEF Active
  <2> QED
    BY <1>5, <2>1, TearDownTypes DEF tick
<1>6. CASE Advance
  BY <1>6 DEF TypeOK, Advance, Left, hostVars, history
<1>7. ASSUME NEW e \in Envs, NEW s \in Services, ContainerDies(e, s)
      PROVE  TypeOK'
  BY <1>7 DEF TypeOK, ContainerDies, registryVars, history
<1>8. CASE Crash
  BY <1>8 DEF TypeOK, Crash, hostVars
<1>9. CASE UNCHANGED vars
  BY <1>9 DEF TypeOK, vars, registryVars, hostVars, history
<1> QED
  BY <1>1, <1>2, <1>3, <1>4, <1>5, <1>6, <1>7, <1>8, <1>9 DEF Next, Operation

\* Every reachable state has the right types (deception/lifecycle.py).
THEOREM TypeCorrect == Spec => []TypeOK
PROOF
<1>1. Init => TypeOK
  BY DEF Init, TypeOK
<1>2. TypeOK /\ [Next]_vars => TypeOK'
  BY LifecycleConstants, StepTypes
<1> QED
  BY <1>1, <1>2, PTL DEF Spec
-----------------------------------------------------------------------------
\* The servers and containers of the environment a step generates, and that a
\* step generates nothing for any other.
LEMMA Generated ==
  ASSUME LifecycleConstants, TypeOK, NEW e \in Envs, NEW tier \in Tiers,
         generate_environment(e, tier)
  PROVE  /\ \A s \in Services :
              \/ server'[e][s] = "absent" /\ containers'[e][s] = "absent"
              \/ /\ ~Docker
                 /\ containers'[e][s] = "absent"
              \/ /\ server'[e][s] = "running"
                 /\ containers'[e][s] = "running"
                 /\ s \in container_id'[e]
              \/ server'[e][s] = "error" /\ <<e, s>> \in raised'
         /\ \A other \in Envs \ {e} :
              /\ status'[other] = status[other]
              /\ server'[other] = server[other]
              /\ container_id'[other] = container_id[other]
              /\ containers'[other] = containers[other]
         /\ raised \subseteq raised' /\ refused' = refused
         /\ status'[e] = "active"
PROOF
<1>1. PICK outcome \in [ServicesOf[tier] -> Outcomes] :
        /\ \A s \in ServicesOf[tier] : outcome[s] \in StartOutcomes(s)
        /\ server' = [server EXCEPT ![e] = [s \in Services |->
             IF s \in ServicesOf[tier] THEN StatusAfter(outcome[s]) ELSE "absent"]]
        /\ container_id' = [container_id EXCEPT ![e] =
             {s \in ServicesOf[tier] : IdKnown(outcome[s])}]
        /\ containers' = [containers EXCEPT ![e] = [s \in Services |->
             IF s \in ServicesOf[tier] THEN ContainerAfter(outcome[s]) ELSE "absent"]]
        /\ raised' = raised \cup ({e} \X {s \in ServicesOf[tier] : Raises(outcome[s])})
  BY DEF generate_environment
<1>2. ASSUME NEW s \in Services
      PROVE  \/ server'[e][s] = "absent" /\ containers'[e][s] = "absent"
             \/ /\ ~Docker
                /\ containers'[e][s] = "absent"
             \/ /\ server'[e][s] = "running"
                /\ containers'[e][s] = "running"
                /\ s \in container_id'[e]
             \/ server'[e][s] = "error" /\ <<e, s>> \in raised'
  <2>1. CASE s \notin ServicesOf[tier]
    BY <1>1, <2>1 DEF TypeOK
  <2>2. CASE s \in ServicesOf[tier]
    <3>1. /\ server'[e][s] = StatusAfter(outcome[s])
          /\ containers'[e][s] = ContainerAfter(outcome[s])
          /\ IdKnown(outcome[s]) => s \in container_id'[e]
          /\ Raises(outcome[s]) => <<e, s>> \in raised'
      BY <1>1, <2>2 DEF TypeOK
    <3>2. outcome[s] \in Outcomes /\ (outcome[s] = "pretended" => ~Docker)
      BY <1>1, <2>2 DEF StartOutcomes
    <3> QED
      BY <3>1, <3>2 DEF Outcomes, StatusAfter, ContainerAfter, IdKnown, Raises, Running
  <2> QED
    BY <2>1, <2>2
<1>3. ASSUME NEW other \in Envs \ {e}
      PROVE  /\ status'[other] = status[other]
             /\ server'[other] = server[other]
             /\ container_id'[other] = container_id[other]
             /\ containers'[other] = containers[other]
  BY <1>1 DEF TypeOK, generate_environment
<1>4. raised \subseteq raised' /\ refused' = refused /\ status'[e] = "active"
  BY <1>1 DEF TypeOK, generate_environment
<1> QED
  BY <1>2, <1>3, <1>4

\* A teardown starts no container, and a server whose environment it does not
\* tear down keeps its status and its container.
LEMMA TornDown ==
  ASSUME TypeOK, NEW over \in SUBSET {e \in Envs : status[e] # "none"}, TearDown(over)
  PROVE  \A e \in Envs, s \in Services :
           /\ containers'[e][s] \in {containers[e][s], "absent"}
           /\ container_id'[e] = container_id[e]
           /\ status'[e] # "none" => status[e] # "none"
           /\ e \in over => status'[e] = "torndown"
           /\ e \notin over => /\ containers'[e][s] = containers[e][s]
                               /\ server'[e][s] = server[e][s]
                               /\ status'[e] = status[e]
                               /\ <<e, s>> \in refused => <<e, s>> \in refused'
           /\ e \in over /\ s \in container_id[e] /\ containers'[e][s] # "absent"
                => <<e, s>> \in refused'
           /\ raised' = raised
PROOF
<1>1. PICK failed \in SUBSET Removable(over) :
        /\ containers' = [e \in Envs |-> [s \in Services |->
             IF <<e, s>> \in Removable(over) \ failed THEN "absent"
             ELSE containers[e][s]]]
        /\ refused' = (refused \ (over \X Services)) \cup failed
  BY DEF TearDown
<1>2. ASSUME NEW e \in Envs, NEW s \in Services
      PROVE  /\ containers'[e][s] \in {containers[e][s], "absent"}
             /\ e \notin over => containers'[e][s] = containers[e][s]
             /\ e \notin over => (<<e, s>> \in refused => <<e, s>> \in refused')
             /\ e \in over /\ s \in container_id[e] /\ containers'[e][s] # "absent"
                  => <<e, s>> \in refused'
  <2>1. <<e, s>> \in Removable(over) <=> e \in over /\ s \in container_id[e]
    BY DEF Removable
  <2> QED
    BY <1>1, <2>1
<1>3. ASSUME NEW e \in Envs, NEW s \in Services
      PROVE  /\ container_id'[e] = container_id[e]
             /\ status'[e] # "none" => status[e] # "none"
             /\ e \in over => status'[e] = "torndown"
             /\ e \notin over => /\ server'[e][s] = server[e][s]
                                 /\ status'[e] = status[e]
             /\ raised' = raised
  BY DEF TypeOK, TearDown
<1> QED
  BY <1>2, <1>3

\* What the registry says of one server and what Docker has of it.
ServerInv(e, s) ==
  /\ status[e] # "none" /\ containers[e][s] # "absent" =>
       s \in container_id[e] \/ <<e, s>> \in raised
  /\ status[e] = "torndown" /\ containers[e][s] # "absent" =>
       <<e, s>> \in raised \cup refused
  /\ Docker /\ Active(e) /\ server[e][s] = "running"
       => containers[e][s] \in {"running", "exited"}

\* Both properties for all servers: inductive with the types.
RegistryInv == \A e \in Envs, s \in Services : ServerInv(e, s)

\* A teardown preserves the invariant.
LEMMA TearDownInv ==
  ASSUME TypeOK, RegistryInv,
         NEW over \in SUBSET {e \in Envs : status[e] # "none"}, TearDown(over)
  PROVE  RegistryInv'
PROOF
<1> SUFFICES ASSUME NEW e \in Envs, NEW s \in Services
             PROVE  ServerInv(e, s)'
  BY DEF RegistryInv
<1>1. ServerInv(e, s)
  BY DEF RegistryInv
<1>2. /\ containers'[e][s] \in {containers[e][s], "absent"}
      /\ container_id'[e] = container_id[e]
      /\ status'[e] # "none" => status[e] # "none"
      /\ e \in over => status'[e] = "torndown"
      /\ e \notin over => /\ containers'[e][s] = containers[e][s]
                          /\ server'[e][s] = server[e][s]
                          /\ status'[e] = status[e]
                          /\ <<e, s>> \in refused => <<e, s>> \in refused'
      /\ e \in over /\ s \in container_id[e] /\ containers'[e][s] # "absent"
           => <<e, s>> \in refused'
      /\ e \in over => status[e] # "none"
      /\ raised' = raised
  BY TornDown
<1> QED
  BY <1>1, <1>2 DEF ServerInv, Active

\* Every step preserves the invariant.
LEMMA StepInv ==
  ASSUME LifecycleConstants, TypeOK, RegistryInv, [Next]_vars
  PROVE  RegistryInv'
PROOF
<1>1. ASSUME NEW e \in Envs, NEW tier \in Tiers, generate_environment(e, tier)
      PROVE  RegistryInv'
  <2> SUFFICES ASSUME NEW other \in Envs, NEW s \in Services
               PROVE  ServerInv(other, s)'
    BY DEF RegistryInv
  <2>1. CASE other = e
    BY <1>1, <2>1, Generated DEF ServerInv
  <2>2. CASE other # e
    <3>1. /\ status'[other] = status[other]
          /\ server'[other] = server[other]
          /\ container_id'[other] = container_id[other]
          /\ containers'[other] = containers[other]
          /\ raised \subseteq raised' /\ refused' = refused
      BY <1>1, <2>2, Generated
    <3>2. ServerInv(other, s)
      BY DEF RegistryInv
    <3> QED
      BY <3>1, <3>2 DEF ServerInv, Active
  <2> QED
    BY <2>1, <2>2
<1>2. ASSUME NEW e \in Envs, BuildFails(e)
      PROVE  RegistryInv'
  BY <1>2 DEF RegistryInv, ServerInv, Active, BuildFails, registryVars, history
<1>3. ASSUME NEW e \in Envs, teardown(e)
      PROVE  RegistryInv'
  BY <1>3, TearDownInv DEF teardown
<1>4. ASSUME NEW e \in Envs, mark_session_closed(e)
      PROVE  RegistryInv'
  BY <1>4 DEF RegistryInv, ServerInv, Active, mark_session_closed, hostVars, history
<1>5. ASSUME NEW reap_closed \in BOOLEAN, tick(reap_closed)
      PROVE  RegistryInv'
  <2>1. {e \in Envs : Active(e) /\ Due(e, reap_closed)}
          \in SUBSET {e \in Envs : status[e] # "none"}
    BY DEF Active
  <2> QED
    BY <1>5, <2>1, TearDownInv DEF tick
<1>6. CASE Advance
  BY <1>6 DEF RegistryInv, ServerInv, Active, Advance, hostVars, history
<1>7. ASSUME NEW e \in Envs, NEW s \in Services, ContainerDies(e, s)
      PROVE  RegistryInv'
  <2> SUFFICES ASSUME NEW other \in Envs, NEW t \in Services
               PROVE  ServerInv(other, t)'
    BY DEF RegistryInv
  <2>1. /\ containers'[other][t] = containers[other][t]
           \/ containers'[other][t] = "exited"
        /\ containers'[other][t] # "absent" => containers[other][t] # "absent"
        /\ UNCHANGED <<registryVars, history>>
    BY <1>7 DEF TypeOK, ContainerDies
  <2>2. ServerInv(other, t)
    BY DEF RegistryInv
  <2> QED
    BY <2>1, <2>2 DEF ServerInv, Active, registryVars, history
<1>8. CASE Crash
  BY <1>8 DEF RegistryInv, ServerInv, Active, Crash
<1>9. CASE UNCHANGED vars
  BY <1>9 DEF RegistryInv, ServerInv, Active, vars, registryVars, hostVars, history
<1> QED
  BY <1>1, <1>2, <1>3, <1>4, <1>5, <1>6, <1>7, <1>8, <1>9 DEF Next, Operation

\* The invariant holds in every reachable state.
LEMMA AlwaysRegistryInv == Spec => []RegistryInv
PROOF
<1>1. Init => RegistryInv
  BY DEF Init, RegistryInv, ServerInv, Active
<1>2. TypeOK /\ RegistryInv /\ [Next]_vars => RegistryInv'
  BY LifecycleConstants, StepInv
<1> QED
  BY <1>1, <1>2, TypeCorrect, PTL DEF Spec
-----------------------------------------------------------------------------
\* A container is out of teardown's reach, or outlives it, only where its start
\* raised or its removal was refused (FakeServer.start and stop).
THEOREM LeftoversStayExplained == Spec => []LeftoversAreExplained
PROOF
<1>1. TypeOK /\ RegistryInv => LeftoversAreExplained
  BY DEF RegistryInv, ServerInv, LeftoversAreExplained
<1> QED
  BY <1>1, AlwaysRegistryInv, TypeCorrect, PTL

\* A healthy environment (LifecycleManager.health) is one whose servers all
\* started and were not removed.
THEOREM HealthIsEarned == Spec => []HealthyMeansStarted
PROOF
<1>1. TypeOK /\ RegistryInv => HealthyMeansStarted
  BY DEF RegistryInv, ServerInv, HealthyMeansStarted, healthy
<1> QED
  BY <1>1, AlwaysRegistryInv, TypeCorrect, PTL

\* A step that is not a teardown of an environment leaves it its directory and
\* its containers (TearDown, FakeServer.stop, _rm_fs).
THEOREM TeardownStaysContained == Spec => TeardownIsContained
PROOF
<1> DEFINE Kept(e) ==
      \/ status'[e] = "torndown"
      \/ /\ e \in dirs => e \in dirs'
         /\ \A s \in Services :
              containers[e][s] # "absent" => containers'[e][s] # "absent"
<1>1. ASSUME TypeOK, NEW over \in SUBSET {e \in Envs : status[e] # "none"},
             TearDown(over), NEW e \in Envs
      PROVE  Kept(e)
  <2>1. /\ e \notin over => (e \in dirs => e \in dirs')
        /\ e \in over => status'[e] = "torndown"
    BY <1>1 DEF TypeOK, TearDown
  <2>2. ASSUME NEW s \in Services, e \notin over
        PROVE  containers'[e][s] = containers[e][s]
    <3>1. PICK failed \in SUBSET Removable(over) :
            containers' = [d \in Envs |-> [r \in Services |->
              IF <<d, r>> \in Removable(over) \ failed THEN "absent"
              ELSE containers[d][r]]]
      BY <1>1 DEF TearDown
    <3>2. <<e, s>> \notin Removable(over)
      BY <2>2 DEF Removable
    <3> QED
      BY <3>1, <3>2
  <2> QED
    BY <2>1, <2>2
<1>2. TypeOK /\ [Next]_vars => \A e \in Envs : Kept(e)
  <2> SUFFICES ASSUME TypeOK, [Next]_vars, NEW e \in Envs
               PROVE  Kept(e)
    OBVIOUS
  <2>1. ASSUME NEW new \in Envs, NEW tier \in Tiers, generate_environment(new, tier)
        PROVE  Kept(e)
    BY <2>1, Generated, LifecycleConstants DEF generate_environment, Unused
  <2>2. ASSUME NEW new \in Envs, BuildFails(new)
        PROVE  Kept(e)
    BY <2>2 DEF BuildFails
  <2>3. ASSUME NEW old \in Envs, teardown(old)
        PROVE  Kept(e)
    BY <1>1, <2>3 DEF teardown
  <2>4. ASSUME NEW reap_closed \in BOOLEAN, tick(reap_closed)
        PROVE  Kept(e)
    <3>1. {old \in Envs : Active(old) /\ Due(old, reap_closed)}
            \in SUBSET {old \in Envs : status[old] # "none"}
      BY DEF Active
    <3> QED
      BY <1>1, <2>4, <3>1 DEF tick
  <2>5. CASE \/ \E old \in Envs : mark_session_closed(old)
             \/ Advance
             \/ Crash
             \/ UNCHANGED vars
    BY <2>5 DEF mark_session_closed, Advance, Crash, hostVars, vars
  <2>6. ASSUME NEW old \in Envs, NEW t \in Services, ContainerDies(old, t)
        PROVE  Kept(e)
    BY <2>6 DEF TypeOK, ContainerDies
  <2> QED
    BY <2>1, <2>2, <2>3, <2>4, <2>5, <2>6 DEF Next, Operation
<1>3. TypeOK /\ [Next]_vars => [\A e \in Envs : Kept(e)]_vars
  BY <1>2
<1> QED
  BY <1>3, TypeCorrect, PTL DEF Spec, TeardownIsContained
=============================================================================
