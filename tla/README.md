# KubeWarden: a verification project

KubeWarden is a node agent. eBPF probes report syscalls of containers; the
agent scores chains of them per container and reacts: WARN arms the
container's cgroup in the kernel, KILL writes `cgroup.kill` and deletes the pod
through the API server. This directory holds TLA+ modules of the agent, the TLC
configurations that check them, and TLAPS proofs. Paths below are relative to
`src/`.

## The system

| part | state | operations | used by |
|---|---|---|---|
| probes and maps (`bpf/syscall_tracer.py`, C part) | `cgroup_class`, `armed_cgroups`, one perf buffer per CPU | a probe per syscall: skip, stamp, kill, submit | every process of the node |
| `SyscallTracer` (Python part) | statistics, latency | `__init__` (attach, prefill), `_handle_event`, `arm`, `disarm`, `poll_loop` | `main.py`; runs the poll thread |
| `on_event` (`main.py`) | `last_decision` | filter, score, transition test, arm, `handle_kill`, cleanup | called by the tracer |
| `AttackCorrelator`, `AttackStory` (`core/correlator.py`) | a deque of scored events and a score per cgroup | `process`, `_score_event`, `_evict_old`, `forget` | `on_event` |
| `PolicyEngine` (`core/policy_engine.py`) | thresholds and lists of `policies.yaml` | `evaluate`, `reason` | `on_event`, constructors |
| `PodResolver` (`core/pod_resolver.py`) | four caches, no lock | `is_pod_cgroup`, `resolve`, `owner_of`, `lookup_pod` | poll thread and CgroupSync thread |
| `K8sKiller` (`core/k8s_killer.py`) | `_api_queue`, `_in_flight` under a lock | `handle_kill`, `_api_worker` | `on_event`; two worker threads |
| `RepeatTracker` (`core/repeat_tracker.py`) | a deque of times per owner | `record` (`forget` has no caller) | `handle_kill` |
| `CgroupSync` (`core/cgroup_sync.py`) | none but statistics; writes `cgroup_class` | `scan_once` every few seconds | a thread of its own |
| `Metrics` (`core/metrics.py`) | counters and gauges under a lock | `inc`, `on_*`, `set_gauges`, `render` | everybody; a server and a gauge thread |

The threads meet in the perf buffers and the two maps (kernel and poll thread),
the resolver's caches (poll thread and CgroupSync), and the queue and
`_in_flight` (poll thread and workers), and the counters (all of them and the
server). The API server and kubelet change pods and cgroups under all of them.

What is hard here, and what would make each part correct:

- **Order and time.** Events of different CPUs arrive out of order and the
  window is kept by dropping from the head of a deque. The score must be the
  sum of the story, no event of the window may be lost, and the error in the
  other direction must have a bound.
- **A reaction in several steps.** The level, the story, the armed map and
  `_in_flight` are set and cleared in different places, with calls in between
  that may raise. Nothing may be left behind that suppresses the next reaction.
- **Names that are reused.** A request in the queue is a namespace and a name.
- **Shared caches without a lock.** A container must never be taken for a host
  process, and a pod known by owner must stay so.
- **A map that is filled late.** The kernel decides with what the map says now:
  it must be blind to excluded namespaces only, and spare protected ones.
- **Bounds.** A full queue, a full map, a full perf buffer.
- **Names that look alike.** A file has many names, and a harmless file a name
  that resembles one of a rule; every sign must count, and once.
- **A restart.** Queue and marks are in memory only.
- **Numbers read while they change.** A scrape must not show half an update.
- **Progress.** A decided kill reaches the processes and the API server,
  marks are removed, and classifications arrive, although calls fail.

`PROJECT.json` lists these hazards at their lines, with the properties for each.

## Modules

| module | models | how it corresponds |
|---|---|---|
| `Correlator` | detection path | `Emit` is a probe, `AddToStory` the start of `AttackStory.add`, `Evict` one iteration of `_evict_old`, `React` and `ReactKilled` the rest of `on_event`. The clock may tick between any two. An event is its cgroup, kernel time and score. |
| `Detector` | what `Correlator` promises | abstract: a decision rests on the scores of the window that ends when the event is taken up, and may count events that left it for no longer than the largest latency. |
| `Scoring` | `_score_event` | the tables as sequences of rules, the two loops as the sets of rules that hit and what those weigh together, the base name, the syscall. The state is one event being made up: `Descend` lengthens its name, `SeeThrough` puts a mount point in front. |
| `Cluster` | API server, kubelet | external: pods (uids) with a namespace and a name that may be used again, containers with a cgroup each. |
| `PodResolver` | the resolver | extends `Cluster`. Cached values never change, so a cache is the set of its keys. Calls of the poll thread are atomic; the loop of `lookup_pod` in the CgroupSync thread is `SyncList`, then `SyncCachePod` and `SyncCacheOwner` for each pod. |
| `RepeatTracker` | the tracker | `Record`, which `K8sKiller` calls; `recorded` is a history variable. |
| `K8sKiller` | the killer | extends both. `handle_kill` is cut where another thread or the node can interfere: `HandleKillProceeds`, `CgroupKill`, `Dedup`, `Put`, `Discard`, `Return`; `HandleKillSpares` is every early return and the exception. A worker does `Get`, `Delete`, `Finish`. `Restart` loses all the agent has in memory. |
| `KillService` | what `K8sKiller` promises | abstract: a request for a name is asked, attempted once, closed; one at a time. |
| `Agent` | `on_event` around the killer | extends `K8sKiller` with a perf buffer, `last_decision` and the armed map, for one life of the agent; `Surroundings` is everything that is no step of the poll thread or a worker. Any decision may follow any other: `Correlator` says how scores come about. |
| `KernelFilter` | probes, maps, `CgroupSync` | extends `PodResolver`. Probes are grouped by what they may do: `Observe`, `Armable` (`maybe_kill`), `RedLine` (`red_line_kill`). A pass visits one directory per step; containers start and stop during it, `LookupRaises` aborts it, `AgentStops` and `Attach` are a crash and a restart. |
| `Metrics` | the counters and who updates them | poll thread, workers, gauge refresh and a scrape. A method that updates one field is a step; `on_event`, `set_gauges` and `render` are as many as they access fields, with `lock` held between them. `OpenPerfBuffer` comes after the probes have begun to `Submit`. |

`Agent` composes resolver, tracker, killer, `on_event` and the cluster;
`KernelFilter` composes resolver, scan, probes and the cluster, with the
reaction of `on_event` reduced to its effect on the caches and on the armed
map. `Metrics` follows the same threads by the points at which they count, with
everything the policy, the resolver and the API server decide left open. There
is no module that composes `Correlator` with `Agent`.

File names in `Scoring` are sequences of components, so the rules of the source
are about leading and trailing components: `_path_matches` is `IsPrefix`, and
`endswith` of a suffix that begins with a slash is equality of the last
components. Look-alikes are components no rule has.

A definition introduced as "the mutated form" is no part of the model. It is a
definition with a plausible mistake in it, kept to show that the property it is
listed with in `PROJECT.json` notices the mistake.

History variables (`handled`, `recorded`, `condemned`, `deleted`, `promised`,
`overtaken`, `signalled`, `emitted`, `unseen`) record what happened, for the
properties only. `promised` holds the pods that `handle_kill` reported as killed
and whose delete nothing is known of yet; `overtaken` those of them that the
test of `_in_flight` took for a duplicate of a request whose call was over.

## Runs

| run | module | what it shows | bounds |
|---|---|---|---|
| `correlator` | `MCCorrelator` | score = sum of the story at every step; staleness bounded by the largest latency; no event of the window lost; level remembered = level of the story; implements `Detector` | 2 containers, 2 CPUs, clock to 4, window 1, scores 0 to 2 with thresholds 2 and 3, 2 events waiting, 3 in a story |
| `scoring` | `MCScoring` | each sign scores once; no single suspicion kills; look-alikes score nothing; the kernel's red lines are a KILL in user space; a sensitive file scores through any mount | all syscalls, 16 pieces of names, 6 components |
| `resolver` | `MCPodResolver` | negative cache sound; name and owner caches differ in one pod at most | 3 pods, two with one name; 4 containers |
| `killer_requests` | `MCK8sKiller` | `_in_flight` exact; one request per pod; marks drain; a pod reported as killed has its delete to come, or an answer in the log, but for those overtaken; implements `KillService` | 2 pods of two names, 2 workers, a queue of 1, every call may fail, restarts |
| `killer_policy` | `MCK8sKiller` | excluded namespaces untouched; warn_only pods condemned on a burst only; the count of a burst exact | a warn_only and an excluded pod, 1 worker, threshold 2, window 1, clock to 2, CgroupSync, restarts |
| `killer_same_name` | `MCK8sKiller` | *violated*: a pod is deleted that nothing was detected in | 2 pods of one name |
| `agent` | `MCAgent` | a decided kill reaches the processes; a pod reported as killed goes away or is answered for, but for those overtaken | 2 pods of one name with a container each, 1 worker, room to arm one, API calls fail |
| `agent_kill_lost` | `MCAgent` | *violated*: a lookup that raises loses the reaction | 1 container |
| `filter` | `MCKernelFilter` | blind by policy only; protection sticks | a warn_only and an excluded container, lookups fail, restarts |
| `filter_reached` | `MCKernelFilter` | a running container gets its class, or the map is full | 1 container, 1 host cgroup, a map of 1, lookups fail |
| `filter_warn_only` | `MCKernelFilter` | *violated*: a warn_only container is killed before it is classified | 1 container |
| `metrics` | `Metrics` | a scrape is balanced, shows no effect without its cause and gauges of one refresh; every event since the perf buffer is open is counted once | 1 worker, buffer and queue of 1, 2 events, 2 refreshes |

Why the bounds are enough. Three events on two CPUs suffice for every relation
of two positions in a story (older behind younger, boundary, evicted before
kept), and the properties relate at most two; four ticks let an event expire
while another waits. Six components are the longest rule (five) behind a mount,
so every rule occurs at the front, at the end, in the middle and next to
another. The queue of one, two workers and two names reach every combination of
full queue, held request and duplicate; a third name only repeats one of the
two. A name that goes from a pod to its replacement is the matter of `agent`:
the replacement may be detected while the request of the pod before it is
queued, called, or over and still marked. There the queue, with one name, never
fills, and the clock stands still, because without a tracker nothing reads it.
In `killer_policy` three detections of a pod fall in one window, in two that
overlap, or apart; the fill of the caches between two of them splits them
between the owner's key and the pod's own. A map with room for one makes the
scan fail on the second cgroup, in either order. In `metrics` two events fill
the buffer and overflow it, or are submitted before it is open, one request
each is open, and a scrape may begin at any step of the update of two fields.
`MaxBacklog` (perf buffer), `MaxHeld` (events in a story's life), `MaxRecords`
(detections of an owner), `MaxEvents`, `MaxRounds`, `MaxComponents` and
`MaxTime` stop growth and nothing else: no property is about reaching them.
`MapSize`, `ArmedSize`, `QueueSize` and `BufferSize` are limits of the system,
scaled down. What is proved holds for every value of all of these.

Simplifications of `Metrics`: the server's threads are one scrape at a time,
which is no loss because a scrape changes nothing and each holds the lock from
its first read to its last; losses are reported at any time once the perf
buffer is polled; two gauges stand for the five that one call sets. The probes
run from the initial state on, the perf buffer is opened later
(`OpenPerfBuffer`), and the first refresh and the poll loop come after it.

Deadlock is not checked: with the clock and the pods used up nothing is left to
do. In the agent, too, threads may wait for ever when nothing happens.

Symmetry is used for CPUs, containers and workers, and in runs without liveness
only (`Detection` states no fairness).

## Fault model

- Calls of the API server may fail in every way the code tells apart
  (`ApiFails`), `cgroup.kill` may be missing or refused (`CgroupKillFails`), a
  map may be full, a perf buffer may lose an event.
- The agent may stop at any step and start again. `Restart` (`K8sKiller`) keeps
  the cluster, and empties caches, deques, queue, marks and the hands of the
  workers, which are daemon threads; `AgentStops` and `Attach` (`KernelFilter`)
  do so for the two maps, which are not pinned. The history variables begin
  again too: what one life of the agent promised, the next does not know of.
  `PromisesKept` and `CondemnedDeleted` are about one life of the agent: the
  requests in its memory are lost with it, and nothing says so.
- `Agent` and `Correlator` follow one life.

## Fairness

`FairSpec` and `AgentFairSpec`: weak fairness of the poll thread and of each
worker. They are loops that block only on an empty buffer or queue, in which
case they are disabled here too, and no step of theirs waits for another
thread (the lock is held for a set operation). The assumption hidden in it is
that an API call comes back; the code sets no timeout, so a call that hangs
is outside these results. Clusters, detections, restarts and the clock are
under no obligation. The fairness of `KillService` (an asked request is
attempted, an attempted one closed) is not assumed: `Service` derives it.

`FilterFairSpec`: weak fairness of the CgroupSync thread, which runs every
`interval_sec`, and strong fairness of `VisitPod`: list calls may fail again
and again, but not in every pass for ever. Without the latter a container is
never classified while the API server is down, which is the fail-open rule and
no mistake. `PolicyReached` is stated for a container that keeps running, a pod
that stays listed and an agent that stays up, and promises a class or a full
map.

## Refinements

- `Correlator!Detection`: `log` is `handled`, the story together with what was
  evicted from it since it began, `latency` the largest one measured, `due` the
  decision under way. `Correlator` does in several steps, and in the order in
  which buffers are drained, what `Detector` does in one; the decision is one
  the ideal window allows, up to the latency.
- `K8sKiller!Service`: a key is `ended` when its API call is over, or given up
  because the queue is full, and the mark remains; `asked` when it is marked
  otherwise. Queue, threads, lock and `cgroup.kill` are hidden. The run checks
  the refinement with its fairness; `K8sKillerProofs` proves its steps.

## Proofs

Checked by tlapm with Z3, Zenon and LS4, for all values of the constants that
satisfy the named assumptions beside them. Every safety property that a passing
run checks, and the steps of both refinements, are theorems.

Scores are sums, which the models compute with a recursive function, term by
term like the loops of the code. `SumProofs` shows once that there is such a
function and that it has one value, and compares the sums of two sequences.
Its induction runs over sets of naturals and rests on the well-foundedness of
`<`: a set without a least member is empty. The other modules cite its lemmas.

- `CorrelatorProofs`. `TypeCorrect`, `BoundedStaleness`, `WindowKept`,
  `ScoreIsSum`, `DecisionIsCurrent`, `DetectionImplemented`. None of the
  properties is inductive. `IInv` adds to `TypeOK`: no time lies in the future
  (`PastInv`); of two entries of a story the earlier one is at most the largest
  latency younger than the later one (`SkewInv`, which holds because an entry
  is appended when its latency is accounted for); a story is the handled events
  minus a prefix that is out of the window (`SuffixInv`); the cutoff is not
  later than the clock's (`CutoffInv`). A decision is taken when the head is
  not expired, and by `SkewInv` nothing behind it can be older by more than the
  latency. `ScoreIsSum` needs only what appending to and cutting off a sequence
  do to its sum. For the refinement `SuffixInv` is stated with `Limit`, the
  limit of the eviction under way, or that of the clock when there is none: in
  the steps between, what was evicted was out of the window already, so the
  score lies between the sums the ideal window allows (`DecisionRests`).
  `DecisionIsCurrent` assumes positive thresholds: with a threshold of 0 an
  empty story is a WARN for the policy, while `main.py` remembers ALLOW of a
  container it has not seen. The thresholds of `policies.yaml` are 40 and 90.
- `ScoringProofs`. `SignsCountOnce`, `SuspicionIsNoVerdict`,
  `LookAlikesAreHarmless`, `KernelLinesKept`, `SensitiveThroughMounts`, for
  names of any length of any components. The tables are those of the source:
  `PrefixPaths`, `SuffixPaths` and `BookRules` write them out, and `WeighBook`
  what they add up to. `MatchMeaning` and `EndMeaning` say in components when a
  rule matches. The heart is `MatchedShadow`: the one rule that is in both
  tables matches as a prefix only where no other prefix does, so the loop need
  remember no more than one. `KernelLinesKept` is about thresholds up to 40 and
  100, which the weights are made for; no other theorem restricts them.
- `PodResolverProofs`. `ResolverTypeCorrect`, `NoContainerHidden`,
  `OwnerWindow`. `GoneForGood`: a cgroup in the negative cache is removed, not
  merely not there, and no removed cgroup comes back. That ids are not used
  again is an assumption of `Cluster`.
- `K8sKillerProofs`. `TypeCorrect`, `MarksExact`, `OneRequestPerPod`,
  `ProtectedSafe`, `PromisesAreKept`. `Exact` and `Apart` say that `_in_flight`
  is the disjoint union of what the poll thread asks for, what is queued and
  what workers hold, each at most once; the two are proved together, because a
  discard is only right when no second request has the key. `PolicyInv` carries
  the check of `handle_kill` to the later steps: a request names its namespace,
  and the container that is killed is of a pod that passed the check.
  `PromiseInv` adds to `PromisesKept` that a pod that is promised was created
  (`OfCreatedPods`): so a pod that comes later under the same name is not one
  of the promised, and by `Exact` a mark found by the test of `_in_flight`
  stands for a request that is to come or for one that is over
  (`MarkedIsToCome`). All of it holds across restarts (`RestartType`,
  `RestartRequests`, `RestartPromises`). `CountIsExact`, `EscalationIsBurst`,
  `EscalationIsJustified` rest on `TrackerInv`: the times recorded of an owner
  never decrease and are not later than the clock, its deque is the end of
  them, and what was dropped is out of the window. Only then are "cut at the
  first fresh time" and "count the fresh times" the same. `OwnersAssumption` of
  `K8sKiller` is used here: every owner and every pod key is one that the
  history has a deque for, as `_history` is a defaultdict.
  `KillerImplementsService`: under the refinement mapping each step of the
  killer is a step of `KillService` or leaves its variables alone. It rests on
  `Exact` and `Apart`: a worker's delete is the one attempt of its key because
  nobody else has the key.
- `AgentProofs`. `AgentTypeCorrect`, `AgentMarksExact`,
  `AgentOneRequestPerPod`, `AgentProtectedSafe`, `AgentPromisesKept`.
  `AgentTypeOK` says where the poll thread is: in `handle_kill` only for the
  cgroup `on_event` reacts to, so that `on_event` starts the killer when it is
  idle. `AgentInv` adds that the containers in the perf buffer and the one
  reacted to have run at some time, which is what the killer's own `HandleKill`
  asks of a detection. Each step of the killer under `on_event` is then one
  that `K8sKillerProofs` has a lemma about.
- `KernelFilterProofs`. `FilterTypeCorrect`, `FailOpen`, `WarnOnlyKept`.
  `MapInv`: an entry `excluded` or `warn_only` is what the policy says, and a
  pod with the entry `warn_only` is in `pod_cache`, from which nothing is
  removed while the agent runs; so a later scan finds the same class, though
  the pod is long deleted. That the maps do not outgrow their sizes needs
  `MapFits`: a key that is there is overwritten, and a new one checked for
  room.
- `MetricsProofs`. `EventsAccounted`, `BalancedScrape`, `WholeRefresh`,
  `CauseShown`. `LockInv` says who holds the lock where; `SumInv` that the sums
  are off by one exactly while `on_event` or `set_gauges` is between its two
  updates; `ReplyInv` that a reply in the making agrees with the fields, which
  nobody can change meanwhile, and that a complete one keeps the sums. So the
  lock that `Metrics` takes in three methods is what the two scrape properties
  need, for any number of threads. `CauseInv` counts what is on its way: an
  outcome, together with the requests that have not led to one yet, is at most
  what was detected, and a detection at most what passed. `EventsAccounted` is
  about the events since the perf buffer is open, and says of those before it
  that they are in no count.

Only model-checked: all liveness (`RequestsDrain`, `CondemnedDeleted`,
`KillReachesProcesses`, `PolicyReached`), and the part of `Service` that is
about fairness. It needs ENABLED, which is out of the prover's reach.

## Where the code and its documentation disagree

Held by a run:

- `killer_same_name`: `kill_pod` deletes by namespace and name, without a uid
  precondition. If a StatefulSet pod was replaced while its request waited, the
  replacement is deleted (`core/k8s_killer.py:4`, `:244`).
- `agent_kill_lost`: `last_decision` is set before the pod is resolved for the
  metrics. If that raises, no `handle_kill` follows, and further events are
  ignored because the level is KILL already (`main.py:141-150`).
- `filter_warn_only`: an unknown class allows red-line kills, so a container of
  a warn_only namespace is not protected until a scan has met it
  (`bpf/syscall_tracer.py:118-123`; `ARCHITECTURE.md:365` says "never kill").

Reachable in the modules and described here only:

- The window is not exact with several CPUs: `_evict_old` stops at the first
  young entry (`core/correlator.py:123` says older events are evicted).
  `BoundedStaleness` says by how much it can be off.
- A read through `/host` scores 30 (`core/correlator.py:54`), less than WARN;
  `README.md:174-177` lists it among the conclusive signals.
- `README.md:276-277` gives 90 for the read of `/etc/shadow` with a `chroot`
  and 140 for `/proc/1/root/etc/shadow`; the tables give 110 and 160.
- An event of a cgroup that is no pod's is counted in `events_passed`, before
  `main.py:122` looks; `core/metrics.py:55-56` says it is filtered, and that
  what passed reached the correlation. A failed delete is counted only if the
  failure is an `ApiException` (`core/k8s_killer.py:91-92`).
- `handle_kill` returns True also when `cgroup.kill` failed and the queue was
  full, though its text says "if the pod was actually dealt with"
  (`core/k8s_killer.py:145`). `PromisesKept` counts the log line of a full queue
  or a failed delete as an answer; it does not say that the pod is gone.
- `cgroup.kill` is written for one container; `core/k8s_killer.py:211` says
  every process in the pod.
- A detection that comes between the API call of a request and the discard of
  its mark is taken for a duplicate (`core/k8s_killer.py:224`). No request
  follows, nothing is logged, and `handle_kill` returns True: the pod, whose
  own delete failed or which replaced a deleted one of its name, stays. Both
  `agent` and `killer_requests` reach this; `PromisesKept` and
  `CondemnedDeleted` say that no other pod is forgotten while the agent lives.
- What the probes submit between the load of the program and
  `open_perf_buffer` is lost without a lost record
  (`bpf/syscall_tracer.py:600`, `:637`). `lost_total` is meant to account for
  losses (`:633-636`), and the startup losses that `:603-609` reports as
  measured are those after the buffer is open. `NothingUncounted` is about the
  events since then.
- `owner_of` finds no owner between the two cache writes and its `lookup_pod`
  fills nothing then, whatever `core/pod_resolver.py:176` says; the detection
  is counted under the name of the pod. `OwnerWindow` bounds this to one pod.
- A score that falls back to ALLOW does not disarm (`main.py:137-139`; the
  comment at `bpf/syscall_tracer.py:702` says when it should), and events of a
  killed container alert again after `forget` (`main.py:170`).
- With `--kernel-enforce` the kernel kills whether or not `--enforce` is given,
  and without the kernel filter or the API no cgroup is ever `warn_only`.
- Arming fails when the map is full (`bpf/syscall_tracer.py:695`); the level
  WARN stays and nobody tries again (`main.py:156` speaks of arming in advance
  as the key part of the scheme).
- `cgroup_class` entries are never removed, so a full map stays full; host
  cgroups that appear after a pass are traced until the next
  (`main.py:241-242` says they never leave the kernel).

## Not modelled

- `NOISE_COMMS`: a function of a string. That an event is dropped as noise is a
  free choice in every module.
- In `Scoring`: names cut off by the 256 bytes of the probe (a shorter name),
  and `last_comm`, which only words the reason.
- In `Metrics`: latency, uptime, the labels of a detection, HTTP paths other
  than `/metrics`, and failures of the server.
- `RepeatTracker.forget` (no caller), `describe` and the summaries.
- Texts: reasons, Events, logs. Creating an Event may fail without effect on
  the state; that is part of `Get` and `HandleKillSpares`.
- Which process a signal kills: `signalled` names its container.
- Reading `policies.yaml` and the command line: the values are constants.
- Inode reuse, two agents on one node, the Go and C internals of what the agent
  runs on, manifests and the image.

## Plan

Done: all modules above, their runs and refinements, and the theorems above.

Left:

1. A composition of `Correlator` with `Agent`, so that the decisions are those
   of the score and `forget` meets residual events.
2. Theorems about the lemmas' own subject where it is worth stating: that
   `Scoring` and `Correlator` agree on what a score is (`Deltas` contains the
   scores that `ScoreEvent` can give, and no negative one).
3. Single steps of the liveness arguments that need no ENABLED: that a request
   in the queue only moves forward, and what a worker does next with it.
