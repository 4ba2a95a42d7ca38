--------------------------- MODULE JobOwnershipProof ---------------------------
(***************************************************************************)
(* Proofs about JobOwnership, for any number of processes, of revisions,   *)
(* of jobs and of failures.                                                *)
(***************************************************************************)
EXTENDS JobOwnership, TLAPS

(***************************************************************************)
(* The inductive invariant.                                                *)
(***************************************************************************)
\* Once stop() has asked the instance to stop, nothing opens another one.
StoppingIsFinal ==
  \A r \in Replicas : replica[r].stop \in {"stopping", "done"} => replica[r].pgBoss # "open"

\* A start that is opening has nothing to call yet; what a process is about to
\* unschedule is not a job of its revision, what it is about to schedule is, and
\* comes after.
CallsFit ==
  \A r \in Replicas :
    /\ At(r, "opening") => replica[r].calls = {}
    /\ \A j \in Jobs : <<"unschedule", j>> \in replica[r].calls => j \notin JobsOf(r)
    /\ \A j \in Jobs : <<"schedule", j>> \in replica[r].calls
                        => j \in JobsOf(r) /\ ~At(r, "unscheduling")

IInv == TypeOK /\ StoppingIsFinal /\ CallsFit

\* What is left of a process by a step of it.
Fits(r, state) ==
  /\ state.flow = "opening" => state.calls = {}
  /\ \A j \in Jobs : <<"unschedule", j>> \in state.calls => j \notin JobsOf(r)
  /\ \A j \in Jobs : <<"schedule", j>> \in state.calls
                      => j \in JobsOf(r) /\ state.flow # "unscheduling"

Sound(r, state) ==
  /\ state \in Replica
  /\ state.stop \in {"stopping", "done"} => state.pgBoss # "open"
  /\ Fits(r, state)

\* A process that becomes a sound one leaves the others sound.
LEMMA BecomesSound ==
  ASSUME IInv, NEW r \in Replicas, NEW state, Becomes(r, state), Sound(r, state)
  PROVE  /\ replica' \in [Replicas -> Replica]
         /\ StoppingIsFinal'
         /\ CallsFit'
<1>1. \A q \in Replicas : replica'[q] = IF q = r THEN state ELSE replica[q]
  BY DEF IInv, TypeOK, Becomes
<1>2. replica' \in [Replicas -> Replica] /\ StoppingIsFinal'
  BY DEF IInv, TypeOK, Becomes, Sound, StoppingIsFinal
<1>3. CallsFit'
  BY <1>1 DEF IInv, CallsFit, Sound, Fits, At, JobsOf
<1> QED BY <1>2, <1>3

\* The processes are sound.
LEMMA ProcessesSound ==
  ASSUME IInv, NEW r \in Replicas
  PROVE  Sound(r, replica[r])
BY DEF IInv, TypeOK, Sound, Fits, StoppingIsFinal, CallsFit, At

\* What is a call.
LEMMA CallsTyped ==
  ASSUME NEW jobs \in SUBSET Jobs, NEW call \in {"unschedule", "schedule", "work"}
  PROVE  /\ Calls(call, jobs) \subseteq Call
         /\ \A j : <<call, j>> \in Calls(call, jobs) <=> j \in jobs
         /\ \A name, j : <<name, j>> \in Calls(call, jobs) => name = call
BY DEF Calls, Call

\* A process that exits, stops its pg-boss, or fails with some of its calls left,
\* is sound.
LEMMA HelpersSound ==
  ASSUME NEW r \in Replicas, NEW state, Sound(r, state)
  PROVE  /\ Sound(r, Down)
         /\ Sound(r, stopBoss(state))
         /\ Sound(r, HasStoppedPgBoss(state))
         /\ Sound(r, AfterFailure(state))
         /\ Sound(r, [stopBoss(state) EXCEPT !.flow = "stopping"])
         /\ stopBoss(state).pgBoss # "open"
         /\ \A left \in SUBSET state.calls : Sound(r, [state EXCEPT !.calls = left])
<1>1. Sound(r, Down)
  BY DEF Sound, Fits, Down, Replica, Flow, Starting
<1>2. Sound(r, stopBoss(state)) /\ stopBoss(state).pgBoss # "open"
  BY DEF Sound, Fits, stopBoss, Replica
<1>3. Sound(r, AfterFailure(state))
  <2>1. Sound(r, [state EXCEPT !.flow = "idle"])
    BY DEF Sound, Fits, Replica, Flow, Starting
  <2> QED BY <1>1, <2>1 DEF AfterFailure
<1>4. Sound(r, [stopBoss(state) EXCEPT !.flow = "stopping"])
  BY <1>2 DEF Sound, Fits, Replica, Flow, Starting
<1>5. Sound(r, HasStoppedPgBoss(state))
  BY DEF Sound, Fits, HasStoppedPgBoss, Replica
<1>6. \A left \in SUBSET state.calls : Sound(r, [state EXCEPT !.calls = left])
  BY DEF Sound, Fits, Replica
<1> QED BY <1>1, <1>2, <1>3, <1>4, <1>5, <1>6

\* What a failed start leaves of a process.
LEMMA FailedStart ==
  ASSUME NEW r \in Replicas, StartFails(r), replica[r] \in Replica
  PROVE  \E left \in SUBSET replica[r].calls :
           LET state == [replica[r] EXCEPT !.calls = left] IN
           Becomes(r, IF state.pgBoss = "open" THEN [stopBoss(state) EXCEPT !.flow = "stopping"]
                      ELSE AfterFailure(state))
BY DEF StartFails, LeftAfterFailure

\* Every step of a process leaves it sound.
LEMMA ReplicaStep ==
  ASSUME IInv, Next
  PROVE  \E r \in Replicas : \E state : Becomes(r, state) /\ Sound(r, state)
<1> USE DEF IInv, TypeOK
<1>1. PICK r \in Replicas :
        \/ Boots(r) \/ Exits(r)
        \/ Progress(r)
        \/ PgBossStops(r) \/ StopsPgBoss(r) \/ HasStopped(r)
        \/ TrackerFails(r) \/ StartFails(r) \/ IsAskedToStop(r)
        \/ \E j \in Jobs : AnswersFence(r, j) \/ RunsHandler(r, j)
  BY DEF Next
<1> DEFINE state == replica[r]
<1>2. Sound(r, state) /\ state \in Replica
  BY ProcessesSound DEF Sound
<1>3. /\ Sound(r, Down) /\ Sound(r, stopBoss(state)) /\ Sound(r, AfterFailure(state))
      /\ Sound(r, HasStoppedPgBoss(state))
      /\ Sound(r, [stopBoss(state) EXCEPT !.flow = "stopping"])
      /\ stopBoss(state).pgBoss # "open"
  BY <1>2, HelpersSound
<1>4. CASE Boots(r)
  <2>1. Sound(r, [Down EXCEPT !.flow = "booting"])
    BY DEF Sound, Fits, Down, Replica, Flow, Starting
  <2> QED BY <1>4, <2>1 DEF Boots
<1>5. CASE Exits(r) \/ TrackerFails(r)
  BY <1>3, <1>5 DEF Exits, TrackerFails
<1>6. CASE PgBossStops(r)
  BY <1>3, <1>6 DEF PgBossStops
<1>7. CASE StopsPgBoss(r)
  <2>1. Sound(r, [stopBoss(state) EXCEPT !.stop = "stopping"])
    BY <1>3 DEF Sound, Fits, Replica
  <2> QED BY <1>7, <2>1 DEF StopsPgBoss
<1>8. CASE HasStopped(r)
  <2>1. state.stop = "stopping" => Sound(r, [state EXCEPT !.stop = "done"])
    BY <1>2 DEF Sound, Fits, Replica
  <2> QED BY <1>8, <2>1 DEF HasStopped
<1>9. CASE IsAskedToStop(r)
  <2>1. Sound(r, [state EXCEPT !.stop = "requested"])
    BY <1>2 DEF Sound, Fits, Replica
  <2> QED BY <1>9, <2>1 DEF IsAskedToStop
<1>10. CASE \E j \in Jobs : AnswersFence(r, j) \/ RunsHandler(r, j)
  <2>1. PICK j \in Jobs : AnswersFence(r, j) \/ RunsHandler(r, j)
    BY <1>10
  <2>2. Sound(r, [state EXCEPT !.passed = @ \cup {j}]) /\ Sound(r, [state EXCEPT !.passed = @ \ {j}])
    BY <1>2 DEF Sound, Fits, Replica
  <2>3. CASE AnswersFence(r, j)
    BY <1>3, <2>2, <2>3 DEF AnswersFence
  <2>4. CASE RunsHandler(r, j)
    BY <2>2, <2>4 DEF RunsHandler
  <2> QED BY <2>1, <2>3, <2>4
<1>11. CASE RegistersRevision(r) \/ Ticks(r)
  <2>1. Sound(r, [state EXCEPT !.flow = "asking"])
    BY <1>2 DEF Sound, Fits, Replica, Flow, Starting
  <2> QED BY <1>11, <2>1 DEF RegistersRevision, Ticks
<1>12. CASE TrackerAnswers(r)
  <2>1. Sound(r, [state EXCEPT !.flow = "answered", !.answer = IsLatest(Revision[r])])
    BY <1>2 DEF Sound, Fits, Replica, Flow, Starting, IsLatest
  <2> QED BY <1>12, <2>1 DEF TrackerAnswers
<1>13. CASE reconcile(r)
  <2>1. Sound(r, [state EXCEPT !.flow = "idle", !.answer = FALSE])
    BY <1>2 DEF Sound, Fits, Replica, Flow, Starting
  <2>2. state.stop = "no" =>
          /\ Sound(r, Opens(state))
          /\ Sound(r, [state EXCEPT !.flow = "idle", !.answer = FALSE, !.started = TRUE])
    BY <1>2 DEF Opens, Sound, Fits, Replica, Flow, Starting
  <2> QED BY <1>3, <1>13, <2>1, <2>2 DEF reconcile
<1>14. CASE ListsStaleSchedules(r)
  <2> DEFINE stale == {j \in Jobs : schedules[j] # NoRevision} \ JobsOf(r)
  <2>1. /\ Calls("unschedule", stale) \subseteq Call
        /\ \A j : <<"unschedule", j>> \in Calls("unschedule", stale) <=> j \in stale
        /\ \A name, j : <<name, j>> \in Calls("unschedule", stale) => name = "unschedule"
    BY CallsTyped
  <2>2. \A j \in stale : j \notin JobsOf(r)
    OBVIOUS
  <2>3. Becomes(r, [state EXCEPT !.flow = "unscheduling", !.calls = Calls("unschedule", stale)])
    BY <1>14 DEF ListsStaleSchedules
  <2> HIDE DEF stale
  <2>4. Sound(r, [state EXCEPT !.flow = "unscheduling", !.calls = Calls("unschedule", stale)])
    BY <1>2, <2>1, <2>2 DEF Sound, Fits, Replica, Flow, Starting
  <2> QED BY <2>3, <2>4
<1>15. CASE HasUnscheduled(r)
  <2>1. JobsOf(r) \subseteq Jobs
    BY RegisteredAssumption, RevisionAssumption DEF JobsOf
  <2>2. /\ Calls("schedule", JobsOf(r)) \subseteq Call
        /\ \A j : <<"schedule", j>> \in Calls("schedule", JobsOf(r)) <=> j \in JobsOf(r)
        /\ \A name, j : <<name, j>> \in Calls("schedule", JobsOf(r)) => name = "schedule"
    BY <2>1, CallsTyped
  <2>3. Sound(r, [state EXCEPT !.flow = "registering", !.calls = Calls("schedule", JobsOf(r))])
    BY <1>2, <2>2 DEF Sound, Fits, Replica, Flow, Starting
  <2> QED BY <1>15, <2>3 DEF HasUnscheduled
<1>16. CASE HasStarted(r)
  <2>1. Sound(r, [state EXCEPT !.flow = "idle", !.started = TRUE])
    BY <1>2 DEF Sound, Fits, Replica, Flow, Starting
  <2> QED BY <1>16, <2>1 DEF HasStarted
<1>17. CASE AwaitsPgBoss(r)
  BY <1>3, <1>17 DEF AwaitsPgBoss
<1>18. CASE \E j \in Jobs : Unschedules(r, j) \/ Schedules(r, j) \/ Works(r, j)
  <2>1. PICK j \in Jobs : Unschedules(r, j) \/ Schedules(r, j) \/ Works(r, j)
    BY <1>18
  <2>2. /\ Sound(r, [state EXCEPT !.calls = @ \ {<<"unschedule", j>>}])
        /\ Sound(r, [state EXCEPT !.calls = @ \ {<<"work", j>>}, !.working = @ \cup {j}])
    BY <1>2 DEF Sound, Fits, Replica
  <2>3. state.calls # {} =>
          Sound(r, [state EXCEPT !.calls = (@ \ {<<"schedule", j>>}) \cup {<<"work", j>>}])
    <3>1. <<"work", j>> \in Call
      BY DEF Call
    <3>2. /\ \A i : <<"unschedule", i>> # <<"work", j>>
          /\ \A i : <<"schedule", i>> # <<"work", j>>
      OBVIOUS
    <3> QED BY <1>2, <3>1, <3>2 DEF Sound, Fits, Replica
  <2> QED BY <2>1, <2>2, <2>3 DEF Unschedules, Schedules, Works, Pending
<1>19. CASE StartFails(r)
  <2>1. PICK left \in SUBSET state.calls :
          LET next == [state EXCEPT !.calls = left] IN
          Becomes(r, IF next.pgBoss = "open" THEN [stopBoss(next) EXCEPT !.flow = "stopping"]
                     ELSE AfterFailure(next))
    BY <1>2, <1>19, FailedStart
  <2>2. Sound(r, [state EXCEPT !.calls = left])
    BY <1>2, HelpersSound
  <2> QED BY <2>1, <2>2, HelpersSound
<1> QED
  BY <1>1, <1>4, <1>5, <1>6, <1>7, <1>8, <1>9, <1>10, <1>11, <1>12, <1>13, <1>14, <1>15,
     <1>16, <1>17, <1>18, <1>19 DEF Progress

\* A step preserves the invariant.
LEMMA InvStep == ASSUME IInv, [Next]_vars PROVE IInv'
<1>1. CASE UNCHANGED vars
  BY <1>1 DEF IInv, TypeOK, StoppingIsFinal, CallsFit, At, JobsOf, vars
<1>2. CASE Next
  <2>1. /\ replica' \in [Replicas -> Replica]
        /\ StoppingIsFinal'
        /\ CallsFit'
    BY <1>2, ReplicaStep, BecomesSound
  <2>2. PICK r \in Replicas :
          \/ Boots(r) \/ Exits(r)
          \/ Progress(r)
          \/ PgBossStops(r) \/ StopsPgBoss(r) \/ HasStopped(r)
          \/ TrackerFails(r) \/ StartFails(r) \/ IsAskedToStop(r)
          \/ \E j \in Jobs : AnswersFence(r, j) \/ RunsHandler(r, j)
    BY <1>2 DEF Next
  <2>3. generation' \in [Revisions -> Nat] /\ serial' \in Nat
    <3>1. CASE RegistersRevision(r)
      BY <3>1 DEF IInv, TypeOK, RegistersRevision, register
    <3>2. CASE ~RegistersRevision(r)
      <4>1. UNCHANGED <<generation, serial>>
        BY <2>2, <3>2
        DEF Boots, Exits, Progress, PgBossStops, StopsPgBoss, HasStopped, TrackerFails,
            StartFails, IsAskedToStop, AnswersFence, RunsHandler, Ticks, TrackerAnswers, reconcile,
            ListsStaleSchedules, HasUnscheduled, HasStarted, AwaitsPgBoss, Unschedules,
            Schedules, Works
      <4> QED BY <4>1 DEF IInv, TypeOK
    <3> QED BY <3>1, <3>2
  <2>4. schedules' \in [Jobs -> Revisions \cup {NoRevision}]
    BY <2>2, RevisionAssumption
       DEF IInv, TypeOK, Boots, Exits, Progress, PgBossStops, StopsPgBoss, HasStopped,
           TrackerFails, StartFails, IsAskedToStop, AnswersFence, RunsHandler, RegistersRevision,
           Ticks, TrackerAnswers, reconcile, ListsStaleSchedules, HasUnscheduled,
           HasStarted, AwaitsPgBoss, Unschedules, Schedules, Works
  <2>5. faults' \in 0..MaxFaults
    <3>1. Fault \/ faults' = faults
      BY <2>2
      DEF Boots, Exits, Progress, PgBossStops, StopsPgBoss, HasStopped, TrackerFails,
          StartFails, IsAskedToStop, AnswersFence, RunsHandler, RegistersRevision, Ticks,
          TrackerAnswers, reconcile, ListsStaleSchedules, HasUnscheduled, HasStarted,
          AwaitsPgBoss, Unschedules, Schedules, Works
    <3> QED BY <3>1, FaultsAssumption DEF IInv, TypeOK, Fault
  <2> QED BY <2>1, <2>3, <2>4, <2>5 DEF IInv, TypeOK
<1> QED BY <1>1, <1>2

\* The invariant holds in every state of the program.
LEMMA Invariance == Spec => []IInv
<1>1. Init => IInv
  BY FaultsAssumption
  DEF Init, IInv, TypeOK, StoppingIsFinal, CallsFit, JobsOf, Down, Replica, Flow, Starting
<1> QED BY <1>1, InvStep, PTL DEF Spec

(***************************************************************************)
(* Theorems.                                                               *)
(***************************************************************************)
\* The table, the schedules and the processes have their types.
THEOREM TypeCorrect == Spec => []TypeOK
<1>1. IInv => TypeOK
  BY DEF IInv
<1> QED BY <1>1, Invariance, PTL

\* A process whose stop() has returned has no pg-boss open, whatever start or
\* ownership check was in flight when it was called.
THEOREM StopIsComplete == Spec => []StopLeavesNoPgBoss
<1>1. IInv => StopLeavesNoPgBoss
  BY DEF IInv, StoppingIsFinal, StopLeavesNoPgBoss
<1> QED BY <1>1, Invariance, PTL

\* A revision that a newer one has superseded stays superseded, and is never the
\* latest again: registering again leaves the table as it is.
THEOREM NeverLatestAgain ==
  Spec => SupersededForGood /\ [][\A v \in Revisions : Superseded(v) => ~IsLatest(v)']_vars
<1>1. ASSUME IInv, Next, NEW v \in Revisions, Superseded(v)
      PROVE  Superseded(v)' /\ ~IsLatest(v)'
  <2>1. \A w \in Revisions : generation[w] # 0 => generation'[w] = generation[w]
    <3>1. PICK r \in Replicas : RegistersRevision(r) \/ UNCHANGED generation
      BY <1>1 DEF Next, Boots, Exits, Progress, PgBossStops, StopsPgBoss, HasStopped,
                  TrackerFails, StartFails, IsAskedToStop, AnswersFence, RunsHandler,
                  Ticks, TrackerAnswers, reconcile, ListsStaleSchedules, HasUnscheduled,
                  HasStarted, AwaitsPgBoss, Unschedules, Schedules, Works
    <3> QED BY <1>1, <3>1 DEF IInv, TypeOK, RegistersRevision, register
  <2>2. generation \in [Revisions -> Nat] /\ generation' \in [Revisions -> Nat]
    BY <1>1, InvStep DEF IInv, TypeOK
  <2>3. PICK w \in Revisions : generation[w] > generation[v]
    BY <1>1 DEF Superseded
  <2>4. generation'[v] = generation[v] /\ generation'[w] = generation[w]
    BY <1>1, <2>1, <2>2, <2>3 DEF Superseded
  <2> QED BY <1>1, <2>2, <2>3, <2>4 DEF Superseded, IsLatest
<1>2. ASSUME IInv, [Next]_vars
      PROVE  /\ [\A v \in Revisions : Superseded(v) => Superseded(v)']_vars
             /\ [\A v \in Revisions : Superseded(v) => ~IsLatest(v)']_vars
  BY <1>1, <1>2
<1> QED BY <1>2, Invariance, PTL DEF Spec, SupersededForGood

(***************************************************************************)
(* The contract of the lease.                                              *)
(***************************************************************************)
\* No revision has a later number than the last one given.
Numbered == \A v \in Revisions : generation[v] <= serial

\* What the contract sees of the state.
Latest == {v \in Revisions : IsLatest(v)}
Past == {v \in Revisions : Superseded(v)}
ToldOnes == {r \in Replicas : IsTold(replica[r])}
Writables == [r \in Replicas |-> ToWrite(r, replica[r])]
PassSets == [r \in Replicas |-> replica[r].passed]

LeaseVars == <<Latest, Past, ToldOnes, Writables, PassSets, schedules>>

\* It sees of a process's step what becomes of that process.
LEMMA StepSeen ==
  ASSUME IInv, NEW r \in Replicas, NEW state, Becomes(r, state), UNCHANGED generation
  PROVE  /\ Latest' = Latest /\ Past' = Past
         /\ ToldOnes' = IF IsTold(state) THEN ToldOnes \cup {r} ELSE ToldOnes \ {r}
         /\ Writables' = [Writables EXCEPT ![r] = ToWrite(r, state)]
         /\ PassSets' = [PassSets EXCEPT ![r] = state.passed]
         /\ Writables[r] = ToWrite(r, replica[r])
         /\ PassSets[r] = replica[r].passed
         /\ ToWrite(r, state) = ToWrite(r, replica[r]) => Writables' = Writables
         /\ state.passed = replica[r].passed => PassSets' = PassSets
         /\ replica[r] \in Replica
<1>1. \A q \in Replicas : replica'[q] = IF q = r THEN state ELSE replica[q]
  BY DEF IInv, TypeOK, Becomes
<1>2. Latest' = Latest /\ Past' = Past
  BY DEF Latest, Past, IsLatest, Superseded
<1>3. ToldOnes' = IF IsTold(state) THEN ToldOnes \cup {r} ELSE ToldOnes \ {r}
  BY <1>1 DEF ToldOnes, IsTold
<1>4. \A q \in Replicas : ToWrite(q, replica[q])' = ToWrite(q, replica'[q])
  BY DEF ToWrite, JobsOf
<1>5. Writables' = [Writables EXCEPT ![r] = ToWrite(r, state)]
  BY <1>1, <1>4 DEF Writables
<1>6. PassSets' = [PassSets EXCEPT ![r] = state.passed]
  BY <1>1 DEF PassSets
<1>7. /\ ToWrite(r, state) = ToWrite(r, replica[r]) => Writables' = Writables
      /\ state.passed = replica[r].passed => PassSets' = PassSets
  BY <1>1, <1>4 DEF Writables, PassSets
<1> QED BY <1>2, <1>3, <1>5, <1>6, <1>7 DEF Writables, PassSets, IInv, TypeOK

\* A process that is told nothing, and has no more to write or to start than it
\* had, takes a step of the contract.
Within(r, next, state) ==
  /\ IsTold(next) => IsTold(state)
  /\ ToWrite(r, next) \subseteq ToWrite(r, state)
  /\ next.passed \subseteq state.passed

LEMMA WithinLetsGo ==
  ASSUME IInv, NEW r \in Replicas, NEW state, Becomes(r, state), UNCHANGED <<generation, schedules>>,
         Within(r, state, replica[r])
  PROVE  Lease!LetsGo(r)
<1>1. ToldOnes' \in {ToldOnes, ToldOnes \ {r}}
  BY StepSeen DEF Within, ToldOnes
<1>2. \E jobs \in SUBSET Writables[r] : Writables' = [Writables EXCEPT ![r] = jobs]
  BY StepSeen DEF Within
<1>3. \E jobs \in SUBSET PassSets[r] : PassSets' = [PassSets EXCEPT ![r] = jobs]
  BY StepSeen DEF Within
<1>4. Latest' = Latest /\ Past' = Past
  BY StepSeen
<1> QED BY <1>1, <1>2, <1>3, <1>4 DEF Lease!LetsGo, Latest, Past, ToldOnes, Writables, PassSets

\* A process whose start goes on, with no more calls, or has ended, has no more to
\* write.
LEMMA FewerWrites ==
  ASSUME NEW r \in Replicas, NEW state, NEW next, next.calls \subseteq state.calls,
         next.flow \in {"opening", "unscheduling"} => next.flow = state.flow
  PROVE  ToWrite(r, next) \subseteq ToWrite(r, state)
BY DEF ToWrite

\* The states a process fails or stops to.
LEMMA HelpersWithin ==
  ASSUME NEW r \in Replicas, NEW state \in Replica
  PROVE  /\ Within(r, Down, state)
         /\ Within(r, [Down EXCEPT !.flow = "booting"], state)
         /\ Within(r, stopBoss(state), state)
         /\ Within(r, [stopBoss(state) EXCEPT !.flow = "stopping"], state)
         /\ Within(r, [stopBoss(state) EXCEPT !.stop = "stopping"], state)
         /\ Within(r, HasStoppedPgBoss(state), state)
         /\ Within(r, AfterFailure(state), state)
<1>1. /\ Down.calls = {} /\ Down.flow = "down" /\ Down.passed = {}
      /\ [Down EXCEPT !.flow = "booting"].calls = {}
      /\ [Down EXCEPT !.flow = "booting"].flow = "booting"
      /\ [Down EXCEPT !.flow = "booting"].passed = {}
  BY DEF Down
<1>2. /\ Within(r, Down, state)
      /\ Within(r, [Down EXCEPT !.flow = "booting"], state)
  <2>1. /\ ToWrite(r, Down) \subseteq ToWrite(r, state)
        /\ ToWrite(r, [Down EXCEPT !.flow = "booting"]) \subseteq ToWrite(r, state)
    BY <1>1 DEF ToWrite
  <2> QED BY <1>1, <2>1 DEF Within, IsTold
<1>3. /\ Within(r, stopBoss(state), state)
      /\ Within(r, [stopBoss(state) EXCEPT !.flow = "stopping"], state)
      /\ Within(r, [stopBoss(state) EXCEPT !.stop = "stopping"], state)
  <2>1. /\ stopBoss(state) \in Replica
        /\ stopBoss(state).calls = state.calls
        /\ stopBoss(state).flow = state.flow
        /\ stopBoss(state).answer = state.answer
        /\ stopBoss(state).passed = state.passed
    BY DEF stopBoss, Replica
  <2> DEFINE next == stopBoss(state)
  <2> HIDE DEF next
  <2>2. next \in Replica => /\ [next EXCEPT !.flow = "stopping"].calls = next.calls
                            /\ [next EXCEPT !.flow = "stopping"].flow = "stopping"
                            /\ [next EXCEPT !.flow = "stopping"].passed = next.passed
                            /\ [next EXCEPT !.stop = "stopping"].calls = next.calls
                            /\ [next EXCEPT !.stop = "stopping"].flow = next.flow
                            /\ [next EXCEPT !.stop = "stopping"].answer = next.answer
                            /\ [next EXCEPT !.stop = "stopping"].passed = next.passed
    BY DEF Replica
  <2> USE DEF next
  <2>3. /\ ToWrite(r, stopBoss(state)) \subseteq ToWrite(r, state)
        /\ ToWrite(r, [stopBoss(state) EXCEPT !.flow = "stopping"]) \subseteq ToWrite(r, state)
        /\ ToWrite(r, [stopBoss(state) EXCEPT !.stop = "stopping"]) \subseteq ToWrite(r, state)
    BY <2>1, <2>2, FewerWrites
  <2> QED BY <2>1, <2>2, <2>3 DEF Within, IsTold
<1>4. Within(r, HasStoppedPgBoss(state), state)
  <2>1. /\ HasStoppedPgBoss(state).calls \subseteq state.calls
        /\ HasStoppedPgBoss(state).flow = state.flow
        /\ HasStoppedPgBoss(state).answer = state.answer
        /\ HasStoppedPgBoss(state).passed = state.passed
    BY DEF HasStoppedPgBoss, Replica
  <2> QED BY <2>1, FewerWrites DEF Within, IsTold
<1>5. Within(r, [state EXCEPT !.flow = "idle"], state)
  <2>1. /\ [state EXCEPT !.flow = "idle"].calls = state.calls
        /\ [state EXCEPT !.flow = "idle"].flow = "idle"
        /\ [state EXCEPT !.flow = "idle"].passed = state.passed
    BY DEF Replica
  <2> QED BY <2>1, FewerWrites DEF Within, IsTold
<1> QED BY <1>2, <1>3, <1>4, <1>5 DEF AfterFailure

\* A revision registers: for the first time, and it has the lease, or again.
LEMMA RegistrationDeploys ==
  ASSUME IInv, Numbered, NEW r \in Replicas, RegistersRevision(r)
  PROVE  (\E v \in Revisions : Lease!Deploys(v)) \/ LeaseVars' = LeaseVars
<1> DEFINE v == Revision[r]
           state == [replica[r] EXCEPT !.flow = "asking"]
<1>1. v \in Revisions /\ generation \in [Revisions -> Nat] /\ serial \in Nat
  BY RevisionAssumption DEF IInv, TypeOK
<1>2. /\ \A q \in Replicas : replica'[q] = IF q = r THEN state ELSE replica[q]
      /\ schedules' = schedules /\ replica[r].flow = "booting" /\ replica[r] \in Replica
  BY DEF RegistersRevision, Becomes, IInv, TypeOK, At
<1>3. /\ state.passed = replica[r].passed /\ state.calls = replica[r].calls
      /\ state.flow = "asking"
  BY <1>2 DEF Replica
<1> HIDE DEF state
<1>4. /\ IsTold(state) <=> IsTold(replica[r])
      /\ ToWrite(r, state) = ToWrite(r, replica[r])
      /\ \A q \in Replicas : ToWrite(q, replica[q])' = ToWrite(q, replica'[q])
  BY <1>2, <1>3 DEF IsTold, ToWrite, JobsOf
<1>5. ToldOnes' = ToldOnes /\ Writables' = Writables /\ PassSets' = PassSets
  <2>1. \A q \in Replicas : IsTold(replica[q])' <=> IsTold(replica[q])
    BY <1>2, <1>4 DEF IsTold
  <2>2. \A q \in Replicas : ToWrite(q, replica[q])' = ToWrite(q, replica[q])
    BY <1>2, <1>4
  <2>3. \A q \in Replicas : replica'[q].passed = replica[q].passed
    BY <1>2, <1>3
  <2> QED BY <2>1, <2>2, <2>3 DEF ToldOnes, Writables, PassSets
<1>6. CASE generation[v] # 0
  <2>1. generation' = generation
    BY <1>6 DEF RegistersRevision, register
  <2>2. Latest' = Latest /\ Past' = Past
    BY <2>1 DEF Latest, Past, IsLatest, Superseded
  <2> QED BY <1>2, <1>5, <2>2 DEF LeaseVars
<1>7. CASE generation[v] = 0
  <2>1. generation' = [generation EXCEPT ![v] = serial + 1]
    BY <1>7 DEF RegistersRevision, register
  <2> HIDE DEF v
  <2>2. \A w \in Revisions : generation'[w] = IF w = v THEN serial + 1 ELSE generation[w]
    BY <1>1, <2>1
  <2>3. \A w \in Revisions : IsLatest(w)' <=> w = v
    BY <1>1, <2>2 DEF IsLatest, Numbered
  <2>4. \A w \in Revisions : Superseded(w)' <=> w # v /\ generation[w] # 0
    BY <1>1, <2>2 DEF Superseded, Numbered
  <2>5. \A w \in Revisions : IsLatest(w) \/ Superseded(w) <=> generation[w] # 0
    BY <1>1 DEF IsLatest, Superseded
  <2>6. /\ v \notin {w \in Revisions : IsLatest(w)} \cup {w \in Revisions : Superseded(w)}
        /\ {w \in Revisions : IsLatest(w)'} = {v}
        /\ {w \in Revisions : Superseded(w)'}
             = {w \in Revisions : Superseded(w)} \cup {w \in Revisions : IsLatest(w)}
    BY <1>1, <1>7, <2>3, <2>4, <2>5
  <2>7. PICK u \in Revisions : u = v
    BY <1>1
  <2>8. Lease!Deploys(u)
    BY <1>2, <1>5, <2>6, <2>7 DEF Lease!Deploys, ToldOnes, Writables, PassSets
  <2> QED BY <2>8
<1> QED BY <1>6, <1>7

\* A process is told that it has the lease while it has it.
LEMMA AnswerTells ==
  ASSUME IInv, NEW r \in Replicas, TrackerAnswers(r)
  PROVE  Lease!IsTold(r) \/ Lease!LetsGo(r)
<1> DEFINE state == [replica[r] EXCEPT !.flow = "answered", !.answer = IsLatest(Revision[r])]
<1>1. /\ Becomes(r, state) /\ UNCHANGED <<generation, schedules>> /\ At(r, "asking")
      /\ replica[r] \in Replica /\ Revision[r] \in Revisions
  BY RevisionAssumption DEF TrackerAnswers, IInv, TypeOK
<1>2. /\ state.passed = replica[r].passed /\ state.calls = replica[r].calls
      /\ state.flow = "answered" /\ state.answer = IsLatest(Revision[r])
  BY <1>1 DEF Replica
<1> HIDE DEF state
<1>3. ToWrite(r, state) = ToWrite(r, replica[r])
  BY <1>1, <1>2 DEF ToWrite, At
<1>4. CASE ~IsLatest(Revision[r])
  <2>1. Within(r, state, replica[r])
    BY <1>2, <1>3, <1>4 DEF Within, IsTold
  <2> QED BY <1>1, <2>1, WithinLetsGo
<1>5. CASE IsLatest(Revision[r])
  <2>1. ToldOnes' = ToldOnes \cup {r}
    BY <1>1, <1>2, <1>5, StepSeen DEF IsTold
  <2>2. Writables' = Writables /\ PassSets' = PassSets /\ Latest' = Latest /\ Past' = Past
    BY <1>1, <1>2, <1>3, StepSeen
  <2> QED BY <1>1, <1>5, <2>1, <2>2 DEF Lease!IsTold, Latest, Past, ToldOnes, Writables, PassSets
<1> QED BY <1>4, <1>5

\* Acting on the answer uses it up.
LEMMA ReconciliationTakesOver ==
  ASSUME IInv, NEW r \in Replicas, reconcile(r)
  PROVE  Lease!TakesOver(r) \/ Lease!LetsGo(r)
<1> DEFINE state == replica[r]
<1>1. /\ UNCHANGED <<generation, schedules>> /\ state \in Replica /\ state.flow = "answered"
  BY DEF reconcile, IInv, TypeOK, At
<1>2. CASE state.answer /\ Becomes(r, Opens(state))
  <2>1. /\ Opens(state).flow = "opening" /\ Opens(state).passed = state.passed
    BY <1>1 DEF Opens, Replica
  <2>2. ~IsTold(Opens(state)) /\ ToWrite(r, Opens(state)) = Jobs /\ r \in ToldOnes
    BY <1>1, <1>2, <2>1 DEF IsTold, ToWrite, ToldOnes
  <2>3. /\ ToldOnes' = ToldOnes \ {r} /\ Writables' = [Writables EXCEPT ![r] = Jobs]
        /\ PassSets' = PassSets /\ Latest' = Latest /\ Past' = Past
    BY <1>1, <1>2, <2>1, <2>2, StepSeen
  <2> QED BY <1>1, <2>2, <2>3 DEF Lease!TakesOver, Latest, Past, ToldOnes, Writables, PassSets
<1>3. CASE \/ Becomes(r, [state EXCEPT !.flow = "idle", !.answer = FALSE])
           \/ Becomes(r, [state EXCEPT !.flow = "idle", !.answer = FALSE, !.started = TRUE])
  <2>1. /\ [state EXCEPT !.flow = "idle", !.answer = FALSE].calls = state.calls
        /\ [state EXCEPT !.flow = "idle", !.answer = FALSE].flow = "idle"
        /\ [state EXCEPT !.flow = "idle", !.answer = FALSE].passed = state.passed
        /\ [state EXCEPT !.flow = "idle", !.answer = FALSE, !.started = TRUE].calls = state.calls
        /\ [state EXCEPT !.flow = "idle", !.answer = FALSE, !.started = TRUE].flow = "idle"
        /\ [state EXCEPT !.flow = "idle", !.answer = FALSE, !.started = TRUE].passed = state.passed
    BY <1>1 DEF Replica
  <2>2. /\ Within(r, [state EXCEPT !.flow = "idle", !.answer = FALSE], state)
        /\ Within(r, [state EXCEPT !.flow = "idle", !.answer = FALSE, !.started = TRUE], state)
    BY <2>1, FewerWrites DEF Within, IsTold
  <2> QED BY <1>1, <1>3, <2>2, WithinLetsGo
<1>4. CASE Becomes(r, [stopBoss(state) EXCEPT !.flow = "stopping"])
  BY <1>1, <1>4, HelpersWithin, WithinLetsGo
<1> QED BY <1>2, <1>3, <1>4 DEF reconcile

\* Every schedule written is one its process may still write, and it holds what
\* the revision says of the job.
LEMMA ScheduleWrites ==
  ASSUME IInv, NEW r \in Replicas, NEW j \in Jobs, Unschedules(r, j) \/ Schedules(r, j)
  PROVE  Lease!Writes(r, j)
<1> DEFINE state == replica[r]
<1>1. Sound(r, state) /\ state \in Replica
  BY ProcessesSound DEF Sound
<1>2. PICK next : /\ Becomes(r, next) /\ UNCHANGED generation
                  /\ next.flow = state.flow /\ next.answer = state.answer
                  /\ next.passed = state.passed /\ state.flow # "opening"
                  /\ j \in ToWrite(r, state)
                  /\ ToWrite(r, next) = ToWrite(r, state) \ {j}
                  /\ schedules' = [schedules EXCEPT
                       ![j] = IF j \in Registered[Revision[r]] THEN Revision[r] ELSE NoRevision]
  <2>1. CASE Unschedules(r, j)
    <3> DEFINE next == [state EXCEPT !.calls = @ \ {<<"unschedule", j>>}]
    <3>1. /\ Becomes(r, next) /\ UNCHANGED generation /\ <<"unschedule", j>> \in state.calls
          /\ schedules' = [schedules EXCEPT ![j] = NoRevision]
      BY <2>1 DEF Unschedules, Pending
    <3>2. /\ next.flow = state.flow /\ next.answer = state.answer /\ next.passed = state.passed
          /\ next.calls = state.calls \ {<<"unschedule", j>>}
      BY <1>1 DEF Replica
    <3> HIDE DEF next
    <3>3. j \notin JobsOf(r) /\ state.flow # "opening" /\ <<"schedule", j>> \notin state.calls
      BY <1>1, <3>1 DEF Sound, Fits
    <3>4. j \in ToWrite(r, state) /\ ToWrite(r, next) = ToWrite(r, state) \ {j}
      BY <3>1, <3>2, <3>3 DEF ToWrite
    <3> QED BY <3>1, <3>2, <3>3, <3>4 DEF JobsOf
  <2>2. CASE Schedules(r, j)
    <3> DEFINE next == [state EXCEPT !.calls = (@ \ {<<"schedule", j>>}) \cup {<<"work", j>>}]
    <3>1. /\ Becomes(r, next) /\ UNCHANGED generation /\ <<"schedule", j>> \in state.calls
          /\ schedules' = [schedules EXCEPT ![j] = Revision[r]]
      BY <2>2 DEF Schedules, Pending
    <3>2. /\ next.flow = state.flow /\ next.answer = state.answer /\ next.passed = state.passed
          /\ next.calls = (state.calls \ {<<"schedule", j>>}) \cup {<<"work", j>>}
      BY <1>1 DEF Replica
    <3> HIDE DEF next
    <3>3. /\ j \in JobsOf(r) /\ state.flow \notin {"opening", "unscheduling"}
          /\ <<"unschedule", j>> \notin state.calls
      BY <1>1, <3>1 DEF Sound, Fits
    <3>4. j \in ToWrite(r, state) /\ ToWrite(r, next) = ToWrite(r, state) \ {j}
      BY <3>1, <3>2, <3>3 DEF ToWrite
    <3> QED BY <3>1, <3>2, <3>3, <3>4 DEF JobsOf
  <2> QED BY <2>1, <2>2
<1>3. ToldOnes' = ToldOnes
  BY <1>2, StepSeen DEF ToldOnes, IsTold
<1>4. /\ j \in Writables[r] /\ Writables' = [Writables EXCEPT ![r] = @ \ {j}]
      /\ PassSets' = PassSets /\ Latest' = Latest /\ Past' = Past
  BY <1>2, StepSeen
<1> QED BY <1>2, <1>3, <1>4 DEF Lease!Writes, Latest, Past, ToldOnes, Writables, PassSets

\* A job gets past its fence while its revision has the lease, and a handler that
\* starts uses up its pass.
LEMMA FencePasses ==
  ASSUME IInv, NEW r \in Replicas, NEW j \in Jobs, AnswersFence(r, j) \/ RunsHandler(r, j)
  PROVE  Lease!Passes(r, j) \/ Lease!Starts(r, j) \/ Lease!LetsGo(r)
<1>1. /\ UNCHANGED <<generation, schedules>> /\ replica[r] \in Replica /\ Revision[r] \in Revisions
  BY RevisionAssumption DEF AnswersFence, RunsHandler, IInv, TypeOK
<1>2. ASSUME NEW jobs, Becomes(r, [replica[r] EXCEPT !.passed = jobs])
      PROVE  /\ ToldOnes' = ToldOnes /\ Writables' = Writables
             /\ PassSets' = [PassSets EXCEPT ![r] = jobs]
             /\ Latest' = Latest /\ Past' = Past
  <2> DEFINE state == [replica[r] EXCEPT !.passed = jobs]
  <2>1. /\ state.passed = jobs /\ state.flow = replica[r].flow
        /\ state.answer = replica[r].answer /\ state.calls = replica[r].calls
    BY <1>1 DEF Replica
  <2>2. Becomes(r, state)
    BY <1>2
  <2> HIDE DEF state
  <2>3. /\ IsTold(state) <=> IsTold(replica[r])
        /\ ToWrite(r, state) = ToWrite(r, replica[r])
    BY <2>1 DEF IsTold, ToWrite
  <2>4. ToldOnes' = ToldOnes
    BY <1>1, <2>2, <2>3, StepSeen DEF ToldOnes
  <2> QED BY <1>1, <2>1, <2>2, <2>3, <2>4, StepSeen
<1>3. PassSets[r] = replica[r].passed
  BY DEF PassSets
<1>4. CASE RunsHandler(r, j)
  <2>1. j \in PassSets[r] /\ Becomes(r, [replica[r] EXCEPT !.passed = replica[r].passed \ {j}])
    BY <1>3, <1>4 DEF RunsHandler
  <2>2. PassSets' = [PassSets EXCEPT ![r] = @ \ {j}]
    BY <1>2, <1>3, <2>1
  <2> QED
    BY <1>1, <1>2, <2>1, <2>2
       DEF Lease!Starts, Latest, Past, ToldOnes, Writables, PassSets
<1>5. CASE AnswersFence(r, j) /\ IsLatest(Revision[r])
  <2>1. Becomes(r, [replica[r] EXCEPT !.passed = replica[r].passed \cup {j}])
    BY <1>5 DEF AnswersFence
  <2>2. PassSets' = [PassSets EXCEPT ![r] = @ \cup {j}]
    BY <1>2, <1>3, <2>1
  <2>3. Revision[r] \in Latest
    BY <1>1, <1>5 DEF Latest
  <2> QED
    BY <1>1, <1>2, <2>1, <2>2, <2>3
       DEF Lease!Passes, Latest, Past, ToldOnes, Writables, PassSets
<1>6. CASE AnswersFence(r, j) /\ ~IsLatest(Revision[r])
  <2>1. Becomes(r, stopBoss(replica[r]))
    BY <1>6 DEF AnswersFence
  <2> QED BY <1>1, <2>1, HelpersWithin, WithinLetsGo
<1> QED BY <1>4, <1>5, <1>6

\* The other steps of a process give it nothing to write or to start.
LEMMA OthersLetGo ==
  ASSUME IInv, NEW r \in Replicas,
         \/ Boots(r) \/ Exits(r) \/ Ticks(r)
         \/ ListsStaleSchedules(r) \/ HasUnscheduled(r) \/ HasStarted(r) \/ AwaitsPgBoss(r)
         \/ PgBossStops(r) \/ StopsPgBoss(r) \/ HasStopped(r)
         \/ TrackerFails(r) \/ StartFails(r) \/ IsAskedToStop(r)
         \/ \E j \in Jobs : Works(r, j)
  PROVE  Lease!LetsGo(r)
<1> DEFINE state == replica[r]
           Fine(next) == Within(r, next, state)
<1>1. state \in Replica
  BY DEF IInv, TypeOK
<1>2. /\ Fine(Down) /\ Fine([Down EXCEPT !.flow = "booting"]) /\ Fine(AfterFailure(state))
      /\ Fine([stopBoss(state) EXCEPT !.stop = "stopping"]) /\ Fine(HasStoppedPgBoss(state))
  BY <1>1, HelpersWithin
<1>3. \E next : Becomes(r, next) /\ Fine(next)
  <2>1. CASE Boots(r) \/ Exits(r) \/ AwaitsPgBoss(r) \/ TrackerFails(r) \/ StopsPgBoss(r) \/ PgBossStops(r)
    BY <1>2, <2>1 DEF Boots, Exits, AwaitsPgBoss, TrackerFails, StopsPgBoss, PgBossStops
  <2>2. CASE Ticks(r) \/ HasStarted(r)
    <3>1. /\ [state EXCEPT !.flow = "asking"].calls = state.calls
          /\ [state EXCEPT !.flow = "asking"].flow = "asking"
          /\ [state EXCEPT !.flow = "asking"].passed = state.passed
          /\ [state EXCEPT !.flow = "idle", !.started = TRUE].calls = state.calls
          /\ [state EXCEPT !.flow = "idle", !.started = TRUE].flow = "idle"
          /\ [state EXCEPT !.flow = "idle", !.started = TRUE].passed = state.passed
      BY <1>1 DEF Replica
    <3>2. Fine([state EXCEPT !.flow = "asking"]) /\ Fine([state EXCEPT !.flow = "idle", !.started = TRUE])
      BY <3>1, FewerWrites DEF Within, IsTold
    <3> QED BY <2>2, <3>2 DEF Ticks, HasStarted
  <2>3. CASE ListsStaleSchedules(r)
    <3> DEFINE calls == Calls("unschedule", {j \in Jobs : schedules[j] # NoRevision} \ JobsOf(r))
               next == [state EXCEPT !.flow = "unscheduling", !.calls = calls]
    <3>1. next.flow = "unscheduling" /\ next.passed = state.passed
      BY <1>1 DEF Replica
    <3>2. Becomes(r, next) /\ state.flow = "opening"
      BY <2>3 DEF ListsStaleSchedules, At
    <3> HIDE DEF next
    <3>3. JobsOf(r) \subseteq Jobs
      BY RegisteredAssumption, RevisionAssumption DEF JobsOf
    <3>4. Fine(next)
      BY <3>1, <3>2, <3>3 DEF Within, IsTold, ToWrite
    <3> QED BY <3>2, <3>4
  <2>4. CASE HasUnscheduled(r)
    <3> DEFINE next == [state EXCEPT !.flow = "registering", !.calls = Calls("schedule", JobsOf(r))]
    <3>1. /\ next.flow = "registering" /\ next.passed = state.passed
          /\ next.calls = Calls("schedule", JobsOf(r))
      BY <1>1 DEF Replica
    <3>2. Becomes(r, next) /\ state.flow = "unscheduling"
      BY <2>4 DEF HasUnscheduled, At
    <3> HIDE DEF next
    <3>3. \A name, j : <<name, j>> \in next.calls => j \in JobsOf(r)
      BY <3>1 DEF Calls
    <3>4. Fine(next)
      BY <3>1, <3>2, <3>3 DEF Within, IsTold, ToWrite
    <3> QED BY <3>2, <3>4
  <2>5. CASE HasStopped(r) \/ IsAskedToStop(r)
    <3>1. \A stop : /\ [state EXCEPT !.stop = stop].calls = state.calls
                    /\ [state EXCEPT !.stop = stop].flow = state.flow
                    /\ [state EXCEPT !.stop = stop].answer = state.answer
                    /\ [state EXCEPT !.stop = stop].passed = state.passed
      BY <1>1 DEF Replica
    <3>2. \A stop : Fine([state EXCEPT !.stop = stop])
      BY <3>1, FewerWrites DEF Within, IsTold
    <3> QED BY <2>5, <3>2 DEF HasStopped, IsAskedToStop
  <2>6. CASE \E j \in Jobs : Works(r, j)
    <3>1. PICK j \in Jobs : Works(r, j)
      BY <2>6
    <3> DEFINE next == [state EXCEPT !.calls = @ \ {<<"work", j>>}, !.working = @ \cup {j}]
    <3>2. /\ next.calls \subseteq state.calls /\ next.flow = state.flow
          /\ next.answer = state.answer /\ next.passed = state.passed
      BY <1>1 DEF Replica
    <3>3. Fine(next)
      BY <3>2, FewerWrites DEF Within, IsTold
    <3> QED BY <3>1, <3>3 DEF Works
  <2>7. CASE StartFails(r)
    <3>1. PICK left \in SUBSET state.calls :
            LET some == [state EXCEPT !.calls = left] IN
            Becomes(r, IF some.pgBoss = "open" THEN [stopBoss(some) EXCEPT !.flow = "stopping"]
                       ELSE AfterFailure(some))
      BY <1>1, <2>7, FailedStart
    <3> DEFINE some == [state EXCEPT !.calls = left]
    <3>2. /\ some \in Replica /\ some.calls \subseteq state.calls /\ some.flow = state.flow
          /\ some.answer = state.answer /\ some.passed = state.passed
      BY <1>1 DEF Replica
    <3>3. Fine(some)
      BY <3>2, FewerWrites DEF Within, IsTold
    <3>4. /\ Within(r, [stopBoss(some) EXCEPT !.flow = "stopping"], some)
          /\ Within(r, AfterFailure(some), some)
      BY <3>2, HelpersWithin
    <3> HIDE DEF some
    <3>5. Fine([stopBoss(some) EXCEPT !.flow = "stopping"]) /\ Fine(AfterFailure(some))
      BY <3>3, <3>4 DEF Within
    <3> QED BY <3>1, <3>5 DEF some
  <2> QED BY <2>1, <2>2, <2>3, <2>4, <2>5, <2>6, <2>7
<1>4. UNCHANGED <<generation, schedules>>
  BY DEF Boots, Exits, Ticks, ListsStaleSchedules, HasUnscheduled, HasStarted,
         AwaitsPgBoss, PgBossStops, StopsPgBoss, HasStopped, TrackerFails, StartFails,
         IsAskedToStop, Works
<1> QED BY <1>3, <1>4, WithinLetsGo

\* Every step is one of the contract.
LEMMA LeaseStep ==
  ASSUME IInv, Numbered, [Next]_vars
  PROVE  Lease!Next \/ LeaseVars' = LeaseVars
<1>1. CASE UNCHANGED vars
  BY <1>1 DEF vars, LeaseVars, Latest, Past, ToldOnes, Writables, PassSets, IsLatest, Superseded,
              IsTold, ToWrite, JobsOf
<1>2. CASE Next
  <2>1. PICK r \in Replicas :
          \/ Boots(r) \/ Exits(r)
          \/ Progress(r)
          \/ PgBossStops(r) \/ StopsPgBoss(r) \/ HasStopped(r)
          \/ TrackerFails(r) \/ StartFails(r) \/ IsAskedToStop(r)
          \/ \E j \in Jobs : AnswersFence(r, j) \/ RunsHandler(r, j)
    BY <1>2 DEF Next
  <2>2. CASE RegistersRevision(r)
    BY <2>2, RegistrationDeploys DEF Lease!Next
  <2>3. CASE TrackerAnswers(r)
    BY <2>3, AnswerTells DEF Lease!Next
  <2>4. CASE reconcile(r)
    BY <2>4, ReconciliationTakesOver DEF Lease!Next
  <2>5. CASE \E j \in Jobs : Unschedules(r, j) \/ Schedules(r, j)
    BY <2>5, ScheduleWrites DEF Lease!Next
  <2>6. CASE \E j \in Jobs : AnswersFence(r, j) \/ RunsHandler(r, j)
    BY <2>6, FencePasses DEF Lease!Next
  <2>7. CASE \/ Boots(r) \/ Exits(r) \/ Ticks(r)
             \/ ListsStaleSchedules(r) \/ HasUnscheduled(r) \/ HasStarted(r) \/ AwaitsPgBoss(r)
             \/ PgBossStops(r) \/ StopsPgBoss(r) \/ HasStopped(r)
             \/ TrackerFails(r) \/ StartFails(r) \/ IsAskedToStop(r)
             \/ \E j \in Jobs : Works(r, j)
    BY <2>7, OthersLetGo DEF Lease!Next
  <2> QED BY <2>1, <2>2, <2>3, <2>4, <2>5, <2>6, <2>7 DEF Progress
<1> QED BY <1>1, <1>2

\* The numbers are given in order.
LEMMA AlwaysNumbered == Spec => []Numbered
<1>1. Init => Numbered
  BY DEF Init, Numbered
<1>2. ASSUME IInv, Numbered, [Next]_vars PROVE Numbered'
  <2>1. CASE \E r \in Replicas : RegistersRevision(r)
    BY <1>2, <2>1, RevisionAssumption DEF RegistersRevision, register, IInv, TypeOK, Numbered
  <2>2. CASE ~\E r \in Replicas : RegistersRevision(r)
    <3>1. UNCHANGED <<generation, serial>>
      BY <1>2, <2>2 DEF Next, vars, Boots, Exits, Progress, PgBossStops, StopsPgBoss, HasStopped,
                  TrackerFails, StartFails, IsAskedToStop, AnswersFence, RunsHandler,
                  Ticks, TrackerAnswers, reconcile, ListsStaleSchedules, HasUnscheduled,
                  HasStarted, AwaitsPgBoss, Unschedules, Schedules, Works
    <3> QED BY <1>2, <3>1 DEF Numbered
  <2> QED BY <2>1, <2>2
<1> QED BY <1>1, <1>2, Invariance, PTL DEF Spec

\* The schedulers implement the lease of the jobs, whatever deployments, late
\* answers, failures, crashes and shutdowns come between their awaits.
THEOREM ImplementsLease == Spec => JobsAreLeased
<1>1. Init => Lease!Init
  <2> SUFFICES ASSUME Init PROVE Lease!Init
    OBVIOUS
  <2>1. Latest = {} /\ Past = {}
    BY DEF Init, Latest, Past, IsLatest, Superseded
  <2>2. \A r \in Replicas : /\ ~IsTold(replica[r]) /\ replica[r].passed = {}
                            /\ ToWrite(r, replica[r]) = {}
    BY DEF Init, Down, IsTold, ToWrite
  <2>3. /\ ToldOnes = {} /\ Writables = [r \in Replicas |-> {}]
        /\ PassSets = [r \in Replicas |-> {}]
    BY <2>2 DEF ToldOnes, Writables, PassSets
  <2> QED BY <2>1, <2>3 DEF Init, Lease!Init, Latest, Past, ToldOnes, Writables, PassSets
<1>2. ASSUME IInv, Numbered, [Next]_vars PROVE [Lease!Next]_(Lease!vars)
  BY <1>2, LeaseStep
     DEF Lease!vars, LeaseVars, Latest, Past, ToldOnes, Writables, PassSets
<1> QED
  BY <1>1, <1>2, Invariance, AlwaysNumbered, PTL DEF Spec, JobsAreLeased, Lease!Spec

\* A superseded revision runs out of jobs: none gets past its fence any more, and
\* its handlers start what had got past it before.
THEOREM RunsOut == Spec => SupersededRunsOut
<1>1. ASSUME IInv, Numbered, [Next]_vars, NEW r \in Replicas, Superseded(Revision[r])
      PROVE  replica'[r].passed \subseteq replica[r].passed
  <2>1. Revision[r] \notin Latest
    BY <1>1, RevisionAssumption DEF Latest, IsLatest, Superseded, IInv, TypeOK
  <2>2. /\ \A q \in Replicas : PassSets[q] = replica[q].passed
        /\ \A q \in Replicas : PassSets'[q] = replica'[q].passed
        /\ DOMAIN PassSets = Replicas
    BY DEF PassSets
  <2>3. PassSets'[r] \subseteq PassSets[r]
    <3>1. CASE LeaseVars' = LeaseVars
      BY <3>1 DEF LeaseVars
    <3>2. CASE Lease!Next
      <4>1. \/ PassSets' = PassSets
            \/ \E q \in Replicas, j \in Jobs : Revision[q] \in Latest
                  /\ PassSets' = [PassSets EXCEPT ![q] = @ \cup {j}]
            \/ \E q \in Replicas, j \in Jobs : PassSets' = [PassSets EXCEPT ![q] = @ \ {j}]
            \/ \E q \in Replicas : \E jobs \in SUBSET PassSets[q] : PassSets' = [PassSets EXCEPT ![q] = jobs]
        BY <3>2 DEF Lease!Next, Lease!Deploys, Lease!IsTold, Lease!TakesOver, Lease!LetsGo,
                    Lease!Writes, Lease!Passes, Lease!Starts, PassSets, Latest
      <4> HIDE DEF PassSets
      <4> QED BY <2>1, <2>2, <4>1
    <3> QED BY <1>1, <3>1, <3>2, LeaseStep
  <2> QED BY <2>2, <2>3
<1>2. ASSUME IInv, Numbered, [Next]_vars
      PROVE  [\A r \in Replicas : Superseded(Revision[r])
                => replica'[r].passed \subseteq replica[r].passed]_vars
  BY <1>1, <1>2
<1> QED BY <1>2, Invariance, AlwaysNumbered, PTL DEF Spec, SupersededRunsOut
===============================================================================
