------------------------------ MODULE JobOwnership ------------------------------
(***************************************************************************)
(* Which revision of ced-portal-be runs the scheduled jobs: the revision   *)
(* tracker, a Postgres table that orders revisions by first registration,  *)
(* and the scheduler of each replica, which starts pg-boss while its       *)
(* revision is the latest and stops it when it no longer is.               *)
(*                                                                         *)
(* The processes share the tracker's table and pg-boss's schedules.  An    *)
(* ownership check is a query whose answer is acted upon later, and the    *)
(* start of pg-boss is a row of awaited calls: a deployment, a demotion by *)
(* the fence of a job or a shutdown comes in between.  So does the start   *)
(* of a handler follow the answer its fence waits for.  A process can      *)
(* crash and be started again, and every call can fail; those issued with  *)
(* one that failed go on without it.                                       *)
(*                                                                         *)
(* One scheduler per process is modelled: the prod and the test scheduler  *)
(* each have a tracker and a pg-boss of their own, and what the failure of *)
(* one does to the other, the end of the process, is Exits.                *)
(***************************************************************************)
EXTENDS Naturals

CONSTANTS
  Replicas,    \* the processes
  Revisions,   \* the revisions deployed
  Revision,    \* the revision of a process
  Jobs,        \* the names of jobs
  Registered,  \* the jobs each revision registers
  NoRevision,  \* who scheduled a job that is not scheduled
  MaxFaults    \* bound: failures, crashes and shutdowns

ASSUME RevisionAssumption == Revision \in [Replicas -> Revisions]
ASSUME RegisteredAssumption == Registered \in [Revisions -> SUBSET Jobs]
ASSUME NoRevisionAssumption == NoRevision \notin Revisions
ASSUME FaultsAssumption == MaxFaults \in Nat

VARIABLES
  generation,  \* the tracker's table: 0 for a revision that is not in it
  serial,      \* the last value of its BIGSERIAL
  schedules,   \* pg-boss's schedules: the revision that wrote each
  replica,     \* the state of each process
  faults       \* the failures so far

vars == <<generation, serial, schedules, replica, faults>>

(***************************************************************************)
(* A process.  flow: where start() or the reconciliation in flight is;     *)
(* started: start() has returned and the timer ticks; answer: what the     *)
(* tracker said; stop: how far stop() is; pgBoss: the instance, which boss *)
(* refers to while it is open; calls: what startAsOwner has still to do on *)
(* it; working: the jobs it has a worker for; passed: the jobs whose fence *)
(* has let them through and whose handler has not started yet.             *)
(***************************************************************************)
Starting == {"opening", "unscheduling", "registering"}

Flow == {"down", "booting", "idle", "asking", "answered", "stopping"} \cup Starting

Call == {"unschedule", "schedule", "work"} \X Jobs

Replica == [flow : Flow, started : BOOLEAN, answer : BOOLEAN,
            stop : {"no", "requested", "stopping", "done"},
            pgBoss : {"none", "open", "stopping", "stopped"},
            calls : SUBSET Call, working : SUBSET Jobs, passed : SUBSET Jobs]

Down == [flow |-> "down", started |-> FALSE, answer |-> FALSE, stop |-> "no",
         pgBoss |-> "none", calls |-> {}, working |-> {}, passed |-> {}]

At(r, flow) == replica[r].flow = flow
JobsOf(r) == Registered[Revision[r]]
Becomes(r, state) == replica' = [replica EXCEPT ![r] = state]

Fault == /\ faults < MaxFaults
         /\ faults' = faults + 1

(***************************************************************************)
(* The tracker.                                                            *)
(***************************************************************************)
\* The insertion of a revision already there does nothing (but for a gap in the
\* serials, left out).
register(v) ==
  IF generation[v] # 0 THEN UNCHANGED <<generation, serial>>
  ELSE /\ serial' = serial + 1
       /\ generation' = [generation EXCEPT ![v] = serial + 1]

IsLatest(v) == generation[v] # 0 /\ \A w \in Revisions : generation[w] <= generation[v]

Superseded(v) == generation[v] # 0 /\ \E w \in Revisions : generation[w] > generation[v]

(***************************************************************************)
(* pg-boss.  boss is undefined as soon as stopBoss asks the instance to    *)
(* stop; an instance that is stopping still reaches its database.          *)
(***************************************************************************)
\* A slip: boss is forgotten, and its instance with it.
forgetsBoss(state) == IF state.pgBoss = "open" THEN [state EXCEPT !.pgBoss = "undefined"] ELSE state

stopBoss(state) == IF state.pgBoss = "open" THEN [state EXCEPT !.pgBoss = "stopping"] ELSE state

HasPgBoss(r) == replica[r].pgBoss \in {"open", "stopping"}

\* What nobody waits for is not called any more.
HasStoppedPgBoss(state) ==
  [state EXCEPT !.pgBoss = "stopped", !.working = {},
                !.calls = IF state.flow \in Starting THEN @ ELSE {}]

\* The graceful stop ends, with the handlers or with the timeout.
PgBossStops(r) ==
  /\ replica[r].pgBoss = "stopping"
  /\ Becomes(r, HasStoppedPgBoss(replica[r]))
  /\ UNCHANGED <<generation, serial, schedules, faults>>

(***************************************************************************)
(* The process.                                                            *)
(***************************************************************************)
\* It serves and is ready before it registers its revision.
Boots(r) ==
  /\ At(r, "down")
  /\ Becomes(r, [Down EXCEPT !.flow = "booting"])
  /\ UNCHANGED <<generation, serial, schedules, faults>>

RegistersRevision(r) ==
  /\ At(r, "booting")
  /\ register(Revision[r])
  /\ Becomes(r, [replica[r] EXCEPT !.flow = "asking"])
  /\ UNCHANGED <<schedules, faults>>

\* start() has failed, stop() has returned, or the process crashes.
Exits(r) ==
  /\ ~At(r, "down")
  /\ IF replica[r].stop = "done" THEN faults' = faults ELSE Fault
  /\ Becomes(r, Down)
  /\ UNCHANGED <<generation, serial, schedules>>

\* What follows a failure: start() rejects and the process exits, a
\* reconciliation traces it.
AfterFailure(state) == IF state.started THEN [state EXCEPT !.flow = "idle"] ELSE Down

(***************************************************************************)
(* The ownership check.                                                    *)
(***************************************************************************)
Ticks(r) ==
  /\ At(r, "idle")
  /\ replica[r].started
  /\ replica[r].stop = "no"
  /\ Becomes(r, [replica[r] EXCEPT !.flow = "asking"])
  /\ UNCHANGED <<generation, serial, schedules, faults>>

\* A slip: the table is read in ascending order.
TrackerAnswersOldest(r) ==
  /\ At(r, "asking")
  /\ replica[r].stop # "done"
  /\ Becomes(r, [replica[r] EXCEPT
       !.flow = "answered",
       !.answer = \A v \in Revisions :
                    generation[v] # 0 => generation[Revision[r]] <= generation[v]])
  /\ UNCHANGED <<generation, serial, schedules, faults>>

\* The tracker is closed when stop() has returned.
TrackerAnswers(r) ==
  /\ At(r, "asking")
  /\ replica[r].stop # "done"
  /\ Becomes(r, [replica[r] EXCEPT !.flow = "answered", !.answer = IsLatest(Revision[r])])
  /\ UNCHANGED <<generation, serial, schedules, faults>>

TrackerFails(r) ==
  /\ At(r, "asking")
  /\ Fault
  /\ Becomes(r, AfterFailure(replica[r]))
  /\ UNCHANGED <<generation, serial, schedules>>

\* startAsOwner makes a new instance.  One that is still stopping has no call left
\* to lose: only a demotion leaves calls behind unawaited, and a process once
\* demoted is not told again that it is the owner.
Opens(state) ==
  [state EXCEPT !.flow = "opening", !.answer = FALSE, !.pgBoss = "open", !.calls = {}]

\* A slip: the answer is acted upon although stop() has run.
reconcileUnlessDone(r) ==
  /\ At(r, "answered")
  /\ LET state == replica[r] IN
     \/ /\ state.answer /\ state.pgBoss # "open"
        /\ Becomes(r, Opens(state))
     \/ /\ ~state.answer /\ state.pgBoss = "open"
        /\ Becomes(r, [stopBoss(state) EXCEPT !.flow = "stopping"])
     \/ /\ state.answer = (state.pgBoss = "open")
        /\ Becomes(r, [state EXCEPT !.flow = "idle", !.answer = FALSE, !.started = TRUE])
  /\ UNCHANGED <<generation, serial, schedules, faults>>

\* A slip: the check that finds the ownership lost does not demote.
reconcileWithoutDemotion(r) ==
  /\ At(r, "answered")
  /\ LET state == replica[r] IN
     \/ /\ state.stop = "no" /\ state.answer /\ state.pgBoss # "open"
        /\ Becomes(r, Opens(state))
     \/ /\ state.stop # "no" \/ state.answer => state.pgBoss = "open"
        /\ Becomes(r, [state EXCEPT !.flow = "idle", !.answer = FALSE, !.started = state.started \/ state.stop = "no"])
  /\ UNCHANGED <<generation, serial, schedules, faults>>

\* stop() may have run meanwhile; the owner starts pg-boss if it has none, a
\* replica that is not the owner stops the one it has.
reconcile(r) ==
  /\ At(r, "answered")
  /\ LET state == replica[r] IN
     \/ /\ state.stop # "no"
        /\ Becomes(r, [state EXCEPT !.flow = "idle", !.answer = FALSE])
     \/ /\ state.stop = "no" /\ state.answer /\ state.pgBoss # "open"
        /\ Becomes(r, Opens(state))
     \/ /\ state.stop = "no" /\ ~state.answer /\ state.pgBoss = "open"
        /\ Becomes(r, [stopBoss(state) EXCEPT !.flow = "stopping"])
     \/ /\ state.stop = "no" /\ state.answer = (state.pgBoss = "open")
        /\ Becomes(r, [state EXCEPT !.flow = "idle", !.answer = FALSE, !.started = TRUE])
  /\ UNCHANGED <<generation, serial, schedules, faults>>

(***************************************************************************)
(* startAsOwner.                                                           *)
(***************************************************************************)
Pending(r, call, j) == HasPgBoss(r) /\ <<call, j>> \in replica[r].calls

Calls(call, jobs) == {call} \X jobs

\* pg-boss has started and its schedules have been read.
ListsStaleSchedules(r) ==
  /\ At(r, "opening")
  /\ HasPgBoss(r)
  /\ LET scheduled == {j \in Jobs : schedules[j] # NoRevision} IN
     Becomes(r, [replica[r] EXCEPT !.flow = "unscheduling",
                                   !.calls = Calls("unschedule", scheduled \ JobsOf(r))])
  /\ UNCHANGED <<generation, serial, schedules, faults>>

Unschedules(r, j) ==
  /\ Pending(r, "unschedule", j)
  /\ schedules' = [schedules EXCEPT ![j] = NoRevision]
  /\ Becomes(r, [replica[r] EXCEPT !.calls = @ \ {<<"unschedule", j>>}])
  /\ UNCHANGED <<generation, serial, faults>>

HasUnscheduled(r) ==
  /\ At(r, "unscheduling")
  /\ replica[r].calls = {}
  /\ Becomes(r, [replica[r] EXCEPT !.flow = "registering",
                                   !.calls = Calls("schedule", JobsOf(r))])
  /\ UNCHANGED <<generation, serial, schedules, faults>>

\* registerWorker: createQueue, updateQueue and schedule, then work; the jobs
\* are registered concurrently.
Schedules(r, j) ==
  /\ Pending(r, "schedule", j)
  /\ schedules' = [schedules EXCEPT ![j] = Revision[r]]
  /\ Becomes(r, [replica[r] EXCEPT !.calls = (@ \ {<<"schedule", j>>}) \cup {<<"work", j>>}])
  /\ UNCHANGED <<generation, serial, faults>>

Works(r, j) ==
  /\ Pending(r, "work", j)
  /\ Becomes(r, [replica[r] EXCEPT !.calls = @ \ {<<"work", j>>}, !.working = @ \cup {j}])
  /\ UNCHANGED <<generation, serial, schedules, faults>>

HasStarted(r) ==
  /\ At(r, "registering")
  /\ replica[r].calls = {}
  /\ Becomes(r, [replica[r] EXCEPT !.flow = "idle", !.started = TRUE])
  /\ UNCHANGED <<generation, serial, schedules, faults>>

\* The calls that go on when one has failed; all of them fail once the instance
\* has stopped.
LeftAfterFailure(r) ==
  IF HasPgBoss(r) THEN {replica[r].calls \ {call} : call \in replica[r].calls} ELSE {{}}

\* A call of startAsOwner fails: what was issued with it is not awaited, and the
\* instance, unless it is stopping already, is stopped.
StartFails(r) ==
  /\ replica[r].flow \in Starting
  /\ At(r, "opening") \/ replica[r].calls # {}
  /\ IF HasPgBoss(r) THEN Fault ELSE faults' = faults
  /\ \E left \in IF At(r, "opening") THEN {{}} ELSE LeftAfterFailure(r) :
       LET state == [replica[r] EXCEPT !.calls = left] IN
       Becomes(r, IF state.pgBoss = "open" THEN [stopBoss(state) EXCEPT !.flow = "stopping"]
                  ELSE AfterFailure(state))
  /\ UNCHANGED <<generation, serial, schedules>>

\* The stop awaited by a demotion, or by startAsOwner before it rethrows.
AwaitsPgBoss(r) ==
  /\ At(r, "stopping")
  /\ replica[r].pgBoss = "stopped"
  /\ Becomes(r, AfterFailure(replica[r]))
  /\ UNCHANGED <<generation, serial, schedules, faults>>

(***************************************************************************)
(* The worker of a job, with its fence.                                    *)
(***************************************************************************)
\* A slip: the fence is missing.
fetchesUnfenced(r, j) ==
  /\ HasPgBoss(r)
  /\ j \in replica[r].working \ replica[r].passed
  /\ Becomes(r, [replica[r] EXCEPT !.passed = @ \cup {j}])
  /\ UNCHANGED <<generation, serial, schedules, faults>>

\* A job is fetched and the tracker answers its fence: it lets the job through, or
\* the job is rejected and the replica demoted.  (A check that fails rejects the
\* job and changes nothing.)
AnswersFence(r, j) ==
  /\ HasPgBoss(r)
  /\ j \in replica[r].working \ replica[r].passed
  /\ Becomes(r, IF IsLatest(Revision[r]) THEN [replica[r] EXCEPT !.passed = @ \cup {j}]
                ELSE stopBoss(replica[r]))
  /\ UNCHANGED <<generation, serial, schedules, faults>>

\* The handler starts when the answer has come back, whatever was deployed, demoted
\* or stopped meanwhile.
RunsHandler(r, j) ==
  /\ j \in replica[r].passed
  /\ Becomes(r, [replica[r] EXCEPT !.passed = @ \ {j}])
  /\ UNCHANGED <<generation, serial, schedules, faults>>

(***************************************************************************)
(* stop().                                                                 *)
(***************************************************************************)
IsAskedToStop(r) ==
  /\ ~At(r, "down")
  /\ replica[r].stop = "no"
  /\ Fault
  /\ Becomes(r, [replica[r] EXCEPT !.stop = "requested"])
  /\ UNCHANGED <<generation, serial, schedules>>

\* A reconciliation in flight is awaited, a start() in flight is not.
StopsPgBoss(r) ==
  /\ replica[r].stop = "requested"
  /\ replica[r].started => At(r, "idle")
  /\ Becomes(r, [stopBoss(replica[r]) EXCEPT !.stop = "stopping"])
  /\ UNCHANGED <<generation, serial, schedules, faults>>

HasStopped(r) ==
  /\ replica[r].stop = "stopping"
  /\ replica[r].pgBoss # "stopping"
  /\ Becomes(r, [replica[r] EXCEPT !.stop = "done"])
  /\ UNCHANGED <<generation, serial, schedules, faults>>

(***************************************************************************)
(* Specification.                                                          *)
(***************************************************************************)
Init ==
  /\ generation = [v \in Revisions |-> 0]
  /\ serial = 0
  /\ schedules = [j \in Jobs |-> NoRevision]
  /\ replica = [r \in Replicas |-> Down]
  /\ faults = 0

\* The steps a process that keeps running takes in the end.
Progress(r) ==
  \/ RegistersRevision(r) \/ Ticks(r) \/ TrackerAnswers(r) \/ reconcile(r)
  \/ ListsStaleSchedules(r) \/ HasUnscheduled(r) \/ HasStarted(r)
  \/ AwaitsPgBoss(r) \/ (~HasPgBoss(r) /\ StartFails(r))
  \/ \E j \in Jobs : Unschedules(r, j) \/ Schedules(r, j) \/ Works(r, j)

Next ==
  \E r \in Replicas :
    \/ Boots(r) \/ Exits(r)
    \/ Progress(r)
    \/ PgBossStops(r) \/ StopsPgBoss(r) \/ HasStopped(r)
    \/ TrackerFails(r) \/ StartFails(r) \/ IsAskedToStop(r)
    \/ \E j \in Jobs : AnswersFence(r, j) \/ RunsHandler(r, j)

\* The event loop and the database get to every call; pg-boss's stop has a
\* timeout; a process whose stop() has returned exits.
Fairness ==
  \A r \in Replicas :
    /\ WF_vars(Progress(r))
    /\ WF_vars(PgBossStops(r))
    /\ WF_vars(StopsPgBoss(r))
    /\ WF_vars(HasStopped(r))
    /\ WF_vars(replica[r].stop = "done" /\ Exits(r))

Spec == Init /\ [][Next]_vars

FairSpec == Spec /\ Fairness

(***************************************************************************)
(* Refinement.                                                             *)
(***************************************************************************)
\* The tracker said it has the lease, and it has not acted on the answer yet.
IsTold(state) == state.flow = "answered" /\ state.answer

\* The schedules that a process may still write before it asks again: it writes
\* each once, those it does not know first.
ToWrite(r, state) ==
  LET called == {j \in Jobs : <<"unschedule", j>> \in state.calls \/ <<"schedule", j>> \in state.calls}
  IN IF state.flow = "opening" THEN Jobs
     ELSE IF state.flow = "unscheduling" THEN called \cup JobsOf(r)
     ELSE called

Lease == INSTANCE JobLease
           WITH latest <- {v \in Revisions : IsLatest(v)},
                superseded <- {v \in Revisions : Superseded(v)},
                told <- {r \in Replicas : IsTold(replica[r])},
                toWrite <- [r \in Replicas |-> ToWrite(r, replica[r])],
                passed <- [r \in Replicas |-> replica[r].passed]

\* However deployments, answers acted upon late, failures, crashes and shutdowns
\* meet, the jobs are on lease to the revision deployed last: a job gets past its
\* fence only while its revision has the lease, one answer of the tracker lets a
\* process write each schedule once, and no restart brings a lost lease back.
JobsAreLeased == Lease!Spec

(***************************************************************************)
(* Properties.                                                             *)
(***************************************************************************)
\* The table, the schedules and the processes have their types.
TypeOK ==
  /\ generation \in [Revisions -> Nat]
  /\ serial \in Nat
  /\ schedules \in [Jobs -> Revisions \cup {NoRevision}]
  /\ replica \in [Replicas -> Replica]
  /\ faults \in 0..MaxFaults

\* "or an old revision restarting would look unseen and take the latest
\* position back": a revision another one has superseded never is the latest
\* again, however often its processes restart and register.
SupersededForGood ==
  [][\A v \in Revisions : Superseded(v) => Superseded(v)']_vars

\* A superseded revision runs out of jobs: no further one gets past its fence,
\* and what its handlers still start had got past it before.
SupersededRunsOut ==
  [][\A r \in Replicas : Superseded(Revision[r])
       => replica'[r].passed \subseteq replica[r].passed]_vars

\* stop() leaves no pg-boss running, "so its pg-boss gets stopped", whatever
\* ownership check was pending or promotion underway when it was called.
StopLeavesNoPgBoss ==
  \A r \in Replicas : replica[r].stop = "done" => replica[r].pgBoss # "open"

\* A revision that is superseded lets go of the jobs: its processes stop their
\* pg-boss for good.
SupersededLetsGo ==
  \A r \in Replicas :
    <>[](Superseded(Revision[r]) => replica[r].pgBoss \in {"none", "stopped"})

\* The latest revision takes the jobs over: a process of it that keeps running
\* ends up with a worker for each of its jobs, whatever failed before.
LatestTakesOver ==
  \A r \in Replicas :
    <>[](~At(r, "down") /\ IsLatest(Revision[r]))
      => <>[](replica[r].pgBoss = "open" /\ replica[r].working = JobsOf(r))
===============================================================================
