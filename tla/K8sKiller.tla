----------------------------- MODULE K8sKiller ------------------------------
(***************************************************************************)
(* core/k8s_killer.py: the poll thread runs handle_kill, which kills the   *)
(* container's cgroup itself and leaves the Event and the API delete to a  *)
(* queue; worker threads take requests off the queue.  _in_flight, under   *)
(* a lock, keeps the same pod from being queued twice.                     *)
(*                                                                         *)
(* handle_kill is one step per access to something another thread or the   *)
(* node may change meanwhile: the checks, cgroup.kill, the test of         *)
(* _in_flight, put_nowait, and the discard after queue.Full.               *)
(***************************************************************************)
EXTENDS PodResolver, RepeatTracker

CONSTANTS
    NoKey,              \* stands for "no request"
    Workers,            \* the kubewarden-api-i threads
    QueueSize,          \* maxsize of _api_queue
    ExcludeNamespaces,
    WarnOnlyNamespaces,
    DryRun,             \* no --enforce
    RepeatEnabled,      \* whether there is a RepeatTracker
    RepeatAction,       \* "alert" or "kill"
    CgroupKillFails     \* whether cgroup.kill may be missing or refused

ASSUME KillerAssumption ==
    /\ NoKey \notin Keys
    /\ QueueSize \in Nat
    /\ DryRun \in BOOLEAN
    /\ RepeatEnabled \in BOOLEAN
    /\ RepeatAction \in {"alert", "kill"}
    /\ CgroupKillFails \in BOOLEAN

\* _history is a defaultdict: any identifier a detection is counted under has
\* a deque.
ASSUME OwnersAssumption ==
    \A p \in Pods : OwnerOf[p] \in OwnerKeys /\ Key(p) \in OwnerKeys

VARIABLES
    pc,             \* where the poll thread is in handle_kill
    job,            \* the cgroup it is called for
    queue,          \* _api_queue: keys, oldest first
    in_flight,      \* _in_flight
    wpc,            \* where each worker is in its loop
    wkey,           \* the request each worker holds, NoKey between two
    condemned,      \* history: pods handle_kill decided to kill
    deleted,        \* history: pods the agent deleted through the API
    promised,       \* history: pods reported as KILLED whose delete is due
    overtaken       \* history: those of them whose request came too late

pollVars == <<pc, job>>
workerVars == <<wpc, wkey>>
historyVars == <<condemned, deleted, promised, overtaken>>
killerVars == <<pollVars, queue, in_flight, workerVars, historyVars>>
vars == <<clusterVars, resolverVars, trackerVars, killerVars>>

jobPod == PodOf[job]
jobKey == Key(jobPod)

KillerTypeOK ==
    /\ pc \in {"idle", "cgroup_kill", "dedup", "put", "full", "return"}
    /\ job \in Cgroups
    /\ queue \in Seq(Keys)
    /\ Len(queue) <= QueueSize
    /\ in_flight \subseteq Keys
    /\ wpc \in [Workers -> {"get", "delete", "finish"}]
    /\ wkey \in [Workers -> Keys \cup {NoKey}]
    /\ condemned \subseteq Pods
    /\ deleted \subseteq Pods
    /\ promised \subseteq Pods
    /\ overtaken \subseteq promised

TypeOK ==
    /\ ClusterTypeOK
    /\ ResolverTypeOK
    /\ TrackerTypeOK
    /\ KillerTypeOK

KillerInit ==
    /\ pc = "idle"
    /\ job \in Cgroups
    /\ queue = <<>>
    /\ in_flight = {}
    /\ wpc = [w \in Workers |-> "get"]
    /\ wkey = [w \in Workers |-> NoKey]
    /\ condemned = {}
    /\ deleted = {}
    /\ promised = {}
    /\ overtaken = {}

Init == ClusterInit /\ ResolverInit /\ TrackerInit /\ KillerInit

-----------------------------------------------------------------------------
(* The poll thread.                                                        *)

\* handle_kill counts the detection, in a warn_only namespace only.
Counted(c) ==
    IF NsOf[PodOf[c]] \in WarnOnlyNamespaces \ ExcludeNamespaces
       /\ RepeatEnabled
    THEN Record(OwnerKey(c))
    ELSE UNCHANGED trackerVars

Escalated(c) == RepeatEnabled /\ Escalates(OwnerKey(c))

\* The mutated form: the test of exclude_namespaces is missing.
SparedUnlessExcluded(c) ==
    \/ /\ NsOf[PodOf[c]] \in WarnOnlyNamespaces
       /\ ~(Escalated(c) /\ RepeatAction = "kill")
    \/ DryRun

\* The early returns of handle_kill, after the pod is known.
Spared(c) ==
    \/ NsOf[PodOf[c]] \in ExcludeNamespaces
    \/ /\ NsOf[PodOf[c]] \in WarnOnlyNamespaces
       /\ ~(Escalated(c) /\ RepeatAction = "kill")
    \/ DryRun

\* handle_kill(c) returns False, or raises: the pod is unknown or spared.
HandleKillSpares(c) ==
    /\ pc = "idle"
    /\ \/ (Unresolved(c) \/ ResolveRaises(c)) /\ UNCHANGED trackerVars
       \/ Resolved(c) /\ Counted(c) /\ Spared(c)
    /\ UNCHANGED <<clusterVars, killerVars>>

\* handle_kill(c) gets past all the checks.
HandleKillProceeds(c) ==
    /\ pc = "idle"
    /\ Resolved(c)
    /\ Counted(c)
    /\ ~Spared(c)
    /\ pc' = "cgroup_kill"
    /\ job' = c
    /\ condemned' = condemned \cup {PodOf[c]}
    /\ UNCHANGED <<clusterVars, queue, in_flight, workerVars, deleted, promised,
                   overtaken>>

\* The mutated form: the cgroup is frozen and not killed.
CgroupFreeze ==
    /\ pc = "cgroup_kill"
    /\ pc' = "dedup"
    /\ UNCHANGED <<clusterVars, resolverVars, trackerVars, job, queue,
                   in_flight, workerVars, historyVars>>

\* freeze_and_kill_cgroup, on the cgroup directory of this container.
CgroupKill ==
    /\ pc = "cgroup_kill"
    /\ \/ /\ procs[job] \in {"running", "killed"}
          /\ procs' = [procs EXCEPT ![job] = "killed"]
       \/ /\ CgroupKillFails \/ procs[job] \notin {"running", "killed"}
          /\ UNCHANGED procs
    /\ pc' = "dedup"
    /\ UNCHANGED <<created, apiPods, resolverVars, trackerVars, job, queue,
                   in_flight, workerVars, historyVars>>

\* The mutated form: the test of _in_flight is missing.
DedupAlwaysPuts ==
    /\ pc = "dedup"
    /\ in_flight' = in_flight \cup {jobKey}
    /\ pc' = "put"
    /\ promised' = promised \cup {jobPod}
    /\ overtaken' = overtaken \ {jobPod}
    /\ UNCHANGED <<clusterVars, resolverVars, trackerVars, job, queue,
                   workerVars, condemned, deleted>>

\* The requests that are over, but for the discard of their mark.
Ended == (IF pc = "full" THEN {jobKey} ELSE {})
            \cup {wkey[w] : w \in {v \in Workers : wpc[v] = "finish"}}

\* The test of _in_flight and the entry in it, in one critical section.  From
\* here on the delete of the pod is promised.  A marked request stands for it,
\* too late if its call is over.
Dedup ==
    /\ pc = "dedup"
    /\ in_flight' = in_flight \cup {jobKey}
    /\ pc' = IF jobKey \in in_flight THEN "return" ELSE "put"
    /\ promised' = promised \cup {jobPod}
    /\ overtaken' = IF jobKey \in Ended THEN overtaken \cup {jobPod}
                                        ELSE overtaken \ {jobPod}
    /\ UNCHANGED <<clusterVars, resolverVars, trackerVars, job, queue,
                   workerVars, condemned, deleted>>

\* The mutated form: a queue without a bound.
PutUnbounded ==
    /\ pc = "put"
    /\ queue' = Append(queue, jobKey)
    /\ pc' = "return"
    /\ UNCHANGED <<clusterVars, resolverVars, trackerVars, job, in_flight,
                   workerVars, historyVars>>

\* put_nowait: queued, or queue.Full.
Put ==
    /\ pc = "put"
    /\ IF Len(queue) < QueueSize
       THEN queue' = Append(queue, jobKey) /\ pc' = "return"
       ELSE pc' = "full" /\ UNCHANGED queue
    /\ UNCHANGED <<clusterVars, resolverVars, trackerVars, job, in_flight,
                   workerVars, historyVars>>

\* The log says what became of the deletes that were due under this name: done,
\* already gone, failed, or not to come.
Answer(k) ==
    /\ promised' = {p \in promised : Key(p) # k}
    /\ overtaken' = {p \in overtaken : Key(p) # k}

\* The mutated form: the handler of queue.Full forgets the discard.
DiscardForgotten ==
    /\ pc = "full"
    /\ Answer(jobKey)
    /\ pc' = "return"
    /\ UNCHANGED <<clusterVars, resolverVars, trackerVars, job, queue,
                   in_flight, workerVars, condemned, deleted>>

\* The handler of queue.Full, which logs that the pod stays.
Discard ==
    /\ pc = "full"
    /\ in_flight' = in_flight \ {jobKey}
    /\ Answer(jobKey)
    /\ pc' = "return"
    /\ UNCHANGED <<clusterVars, resolverVars, trackerVars, job, queue,
                   workerVars, condemned, deleted>>

\* handle_kill returns True.
Return ==
    /\ pc = "return"
    /\ pc' = "idle"
    /\ UNCHANGED <<clusterVars, resolverVars, trackerVars, job, queue,
                   in_flight, workerVars, historyVars>>

-----------------------------------------------------------------------------
(* The worker threads, _api_worker.                                        *)

\* The mutated form: an Event that cannot be created ends the request.
GetOrDrop(w) ==
    /\ wpc[w] = "get"
    /\ queue # <<>>
    /\ wkey' = [wkey EXCEPT ![w] = Head(queue)]
    /\ queue' = Tail(queue)
    /\ \E next \in {"delete", "finish"} : wpc' = [wpc EXCEPT ![w] = next]
    /\ UNCHANGED <<clusterVars, resolverVars, trackerVars, pollVars,
                   in_flight, historyVars>>

\* The mutated form: the mark is taken back when the worker takes the request.
GetUnmarks(w) ==
    /\ wpc[w] = "get"
    /\ queue # <<>>
    /\ wkey' = [wkey EXCEPT ![w] = Head(queue)]
    /\ queue' = Tail(queue)
    /\ in_flight' = in_flight \ {Head(queue)}
    /\ wpc' = [wpc EXCEPT ![w] = "delete"]
    /\ UNCHANGED <<clusterVars, resolverVars, trackerVars, pollVars, historyVars>>

\* get; the Event that follows has no effect on anything modelled, whether
\* or not it can be created.
Get(w) ==
    /\ wpc[w] = "get"
    /\ queue # <<>>
    /\ wkey' = [wkey EXCEPT ![w] = Head(queue)]
    /\ queue' = Tail(queue)
    /\ wpc' = [wpc EXCEPT ![w] = "delete"]
    /\ UNCHANGED <<clusterVars, resolverVars, trackerVars, pollVars,
                   in_flight, historyVars>>

\* kill_pod: the pod that has this name now is deleted, there is none (a
\* 404), or the call fails.
Delete(w) ==
    /\ wpc[w] = "delete"
    /\ \/ \E p \in apiPods :
            /\ Key(p) = wkey[w]
            /\ apiPods' = apiPods \ {p}
            /\ deleted' = deleted \cup {p}
       \/ /\ ApiFails \/ wkey[w] \notin {Key(p) : p \in apiPods}
          /\ UNCHANGED <<apiPods, deleted>>
    /\ Answer(wkey[w])
    /\ wpc' = [wpc EXCEPT ![w] = "finish"]
    /\ UNCHANGED <<created, procs, resolverVars, trackerVars, pollVars, queue,
                   in_flight, wkey, condemned>>

\* The mutated form: the discard is not in the finally block, so a request
\* whose delete raised stays in _in_flight.
FinishIfDeleted(w) ==
    /\ wpc[w] = "finish"
    /\ in_flight' = IF wkey[w] \in {Key(p) : p \in apiPods}
                    THEN in_flight ELSE in_flight \ {wkey[w]}
    /\ wpc' = [wpc EXCEPT ![w] = "get"]
    /\ wkey' = [wkey EXCEPT ![w] = NoKey]
    /\ UNCHANGED <<clusterVars, resolverVars, trackerVars, pollVars, queue,
                   historyVars>>

\* The finally block.
Finish(w) ==
    /\ wpc[w] = "finish"
    /\ in_flight' = in_flight \ {wkey[w]}
    /\ wpc' = [wpc EXCEPT ![w] = "get"]
    /\ wkey' = [wkey EXCEPT ![w] = NoKey]
    /\ UNCHANGED <<clusterVars, resolverVars, trackerVars, pollVars, queue,
                   historyVars>>

-----------------------------------------------------------------------------

\* The agent exits or crashes and is started again: caches, history, queue
\* and marks are in its memory, and its threads are daemons that do not end
\* their work.  What is recorded is recorded of the new agent.
Restart ==
    /\ ResolverReset
    /\ history' = [k \in OwnerKeys |-> <<>>]
    /\ recorded' = [k \in OwnerKeys |-> <<>>]
    /\ pc' = "idle"
    /\ queue' = <<>>
    /\ in_flight' = {}
    /\ wpc' = [w \in Workers |-> "get"]
    /\ wkey' = [w \in Workers |-> NoKey]
    /\ condemned' = {}
    /\ deleted' = {}
    /\ promised' = {}
    /\ overtaken' = {}
    /\ UNCHANGED <<clusterVars, now, job>>

PollStep == CgroupKill \/ Dedup \/ Put \/ Discard \/ Return

WorkerStep(w) == Get(w) \/ Delete(w) \/ Finish(w)

\* A detection may come for any container that ever ran: events of a dead
\* one may still be in the perf buffer.
HandleKill ==
    \E c \in Cgroups :
        /\ procs[c] # "absent"
        /\ HandleKillSpares(c) \/ HandleKillProceeds(c)

\* What goes on around the killer.
Surroundings ==
    \/ ClusterNext /\ UNCHANGED <<resolverVars, trackerVars, killerVars>>
    \/ SyncNext /\ UNCHANGED <<trackerVars, killerVars>>
    \/ Tick /\ UNCHANGED <<clusterVars, resolverVars, killerVars>>

Next ==
    \/ Surroundings
    \/ HandleKill
    \/ PollStep
    \/ \E w \in Workers : WorkerStep(w)
    \/ Restart

\* The threads of the agent keep running; the cluster and the detections are
\* under no obligation.  A worker's API call is assumed to come back.
Fairness == WF_vars(PollStep) /\ \A w \in Workers : WF_vars(WorkerStep(w))

Spec == Init /\ [][Next]_vars

FairSpec == Spec /\ Fairness

-----------------------------------------------------------------------------
(* Properties.                                                             *)

Busy == {w \in Workers : wpc[w] # "get"}

\* The requests that are somewhere between the test of _in_flight and the
\* discard: with the poll thread, in the queue, or with a worker.
Pending ==
    (IF pc \in {"put", "full"} THEN {jobKey} ELSE {})
    \cup {queue[i] : i \in DOMAIN queue}
    \cup {wkey[w] : w \in Busy}

\* A pod is marked in _in_flight exactly while a request for it exists: no
\* failure of a put, an Event or a delete leaves a mark behind, which would
\* keep the pod from ever being deleted again.
InFlightExact == in_flight = Pending

\* "the same pod must not be queued twice while the previous request is
\* still being processed" (k8s_killer.py:54): of a pod there is one request.
NoDuplicateRequest ==
    /\ \A i, j \in DOMAIN queue : queue[i] = queue[j] => i = j
    /\ \A w, v \in Busy : wkey[w] = wkey[v] => w = v
    /\ \A i \in DOMAIN queue, w \in Busy : queue[i] # wkey[w]
    /\ pc \in {"put", "full"} =>
          /\ \A i \in DOMAIN queue : queue[i] # jobKey
          /\ \A w \in Busy : wkey[w] # jobKey

\* The policy on a namespace, as policies.yaml words it.
Protected(ns) ==
    \/ ns \in ExcludeNamespaces
    \/ ns \in WarnOnlyNamespaces /\ ~(RepeatEnabled /\ RepeatAction = "kill")
    \/ DryRun

\* Whatever is detected and however requests wait and names are reused, no
\* container of a protected namespace is killed and no pod of one deleted;
\* in a dry run, none at all (k8s_killer.py:9, policy_engine.py:27).
ProtectedUntouched ==
    /\ \A p \in condemned \cup deleted : ~Protected(NsOf[p])
    /\ \A c \in Cgroups : procs[c] = "killed" => ~Protected(NsOf[PodOf[c]])
    /\ \A k \in in_flight : ~Protected(k[1])

\* A pod of a warn_only namespace is condemned only by an owner (or, before
\* its owner is known, a pod name) with enough detections in the window.
EscalationJustified ==
    [][\A p \in condemned' \ condemned :
          NsOf[p] \in WarnOnlyNamespaces =>
              \E k \in {OwnerOf[p], Key(p)} :
                  Cardinality(Recent(k)) >= RepeatThreshold]_vars

\* Every request is eventually worked off, whatever fails on the way.
RequestsDrain == \A k \in Keys : []<>(k \notin in_flight)

\* The names whose delete is still to be called.
ToCome ==
    {queue[i] : i \in DOMAIN queue}
    \cup {wkey[w] : w \in {v \in Workers : wpc[v] = "delete"}}

\* handle_kill reports a pod as "KILLED ... API-delete queued" and returns
\* True, "if the pod was actually dealt with" (k8s_killer.py:145, 239): as long
\* as neither the pod is gone nor the log says what became of its delete, that
\* delete is to come, under its name.  There is one exception, and no more:
\* a pod taken for a duplicate (k8s_killer.py:224) of a request whose call is
\* over and whose mark is not yet discarded.  That may be the pod itself, if
\* the call failed, or a replacement of the same name.
PromisesKept ==
    \A p \in promised :
        \/ p \notin apiPods
        \/ p \in overtaken
        \/ Key(p) \in ToCome
        \/ pc \in {"put", "full"} /\ p = jobPod

\* And the delete does come: a pod reported as killed leaves the API server,
\* or the log says that its delete failed or was dropped, however the workers
\* and the queue are doing.  It is never forgotten in silence, but for a
\* restart and for the exception of PromisesKept.
CondemnedDeleted ==
    \A p \in Pods : p \in promised ~>
        p \notin promised \/ p \notin apiPods \/ p \in overtaken

\* How far the request for a key is, seen from outside.
StageOf == [k \in Keys |-> IF k \in Ended THEN "ended"
                           ELSE IF k \in in_flight THEN "asked" ELSE "none"]

KillServiceSpec == INSTANCE KillService WITH stage <- StageOf

\* With all its threads the killer is the service of KillService: each mark
\* in _in_flight stands for one request, which makes one API call, under the
\* name it was made for and while it is marked, or is given up; no pod is
\* deleted without a request; and every request comes to its end.
Service == KillServiceSpec!FairSpec

\* "Finds the pod behind a cgroup_id (via PodResolver) and kills it"
\* (k8s_killer.py:4): the pod that is deleted is one that was condemned.
DeletesOnlyCondemned == deleted \subseteq condemned

=============================================================================
