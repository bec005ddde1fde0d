------------------------------ MODULE Metrics -------------------------------
(***************************************************************************)
(* core/metrics.py and the threads that use it: the poll thread counts     *)
(* what becomes of an event, in bpf/syscall_tracer.py, main.py and         *)
(* k8s_killer.py; workers count the API calls; main.py refreshes gauges,   *)
(* first by itself and then in a thread; and the server renders a reply    *)
(* for each scrape.  One lock is around every update and around render.    *)
(*                                                                         *)
(* A method that updates one field is one step, as it holds the lock from  *)
(* its first access to its last.  on_event, set_gauges and render are as   *)
(* many steps as they access fields.  What the policy, the resolver and    *)
(* the API server say is left open; K8sKiller and Agent have them.         *)
(***************************************************************************)
EXTENDS Integers, SequencesExt

CONSTANTS
    Workers,    \* the kubewarden-api-i threads
    BufferSize, \* events the perf buffer has room for
    QueueSize,  \* maxsize of _api_queue
    MaxEvents,  \* bound of the events the kernel submits
    MaxRounds   \* bound of the refreshes of the gauges

ASSUME MetricsAssumption ==
    /\ BufferSize \in Nat
    /\ QueueSize \in Nat
    /\ MaxEvents \in Nat
    /\ MaxRounds \in Nat

\* The fields of Metrics in the order of render; "warn" and "kill" are the
\* detections by decision.  The gauges are two of those set_gauges writes.
RenderOrder == <<
    "events_total", "events_dropped", "events_filtered", "events_passed",
    "kill", "warn", "escalations", "killed_in_kernel", "cgroup_kills",
    "api_deletes", "api_errors", "events_emitted", "resolve_failures",
    "armed_count", "cache_entries" >>

Fields == Range(RenderOrder)

VARIABLES
    opened,     \* whether the perf buffer is open
    perf,       \* the perf buffer: events, oldest first
    unreported, \* events the kernel lost and lost_cb was not told of
    emitted,    \* history: the events the kernel submitted
    unseen,     \* history: those it submitted before the buffer was open
    lock,       \* _lock: who holds it, "nobody" if free
    field,      \* field[f]: the attributes of Metrics
    ppc,        \* where the poll thread is
    event,      \* the event it is handling
    queued,     \* the requests in _api_queue
    wpc,        \* where each worker is in its loop
    gpc,        \* where the refresh of the gauges is
    round,      \* how many refreshes are over
    reply       \* what render has written, one value for each field

pollVars == <<ppc, event>>
gaugeVars == <<gpc, round>>
apiVars == <<queued, wpc>>
kernelVars == <<opened, perf, unreported, emitted, unseen>>
vars == <<kernelVars, lock, field, pollVars, apiVars, gaugeVars, reply>>

Event == [noise : BOOLEAN, killed : BOOLEAN]

Init ==
    /\ opened = FALSE
    /\ perf = <<>>
    /\ unreported = 0
    /\ emitted = 0
    /\ unseen = 0
    /\ lock = "nobody"
    /\ field = [f \in Fields |-> 0]
    /\ ppc = "poll"
    /\ event = [noise |-> FALSE, killed |-> FALSE]
    /\ queued = 0
    /\ wpc = [w \in Workers |-> "get"]
    /\ gpc = "gather"
    /\ round = 0
    /\ reply = <<>>

\* inc, on_detection, on_escalation, on_lost: one field under the lock.
Add(f, n) ==
    /\ lock = "nobody"
    /\ field' = [field EXCEPT ![f] = @ + n]
    /\ UNCHANGED lock

-----------------------------------------------------------------------------
(* The kernel.                                                             *)

\* perf_submit: in the buffer, or lost and counted there.  The probes run as
\* soon as the program is loaded; until the buffer is open there is nothing
\* to put the event in, nor to count it.
Submit(e) ==
    /\ emitted < MaxEvents
    /\ emitted' = emitted + 1
    /\ \/ ~opened /\ UNCHANGED <<perf, unreported>>
       \/ /\ opened /\ Len(perf) < BufferSize
          /\ perf' = Append(perf, e)
          /\ UNCHANGED unreported
       \/ /\ opened /\ Len(perf) >= BufferSize
          /\ unreported' = unreported + 1
          /\ UNCHANGED perf
    /\ UNCHANGED <<opened, unseen, lock, field, pollVars, apiVars, gaugeVars,
                   reply>>

\* open_perf_buffer, at the end of SyscallTracer's constructor.
OpenPerfBuffer ==
    /\ ~opened
    /\ opened' = TRUE
    /\ unseen' = emitted
    /\ UNCHANGED <<perf, unreported, emitted, lock, field, pollVars, apiVars,
                   gaugeVars, reply>>

-----------------------------------------------------------------------------
(* The poll thread.  It polls once main has refreshed the gauges.          *)

\* _handle_lost
HandleLost ==
    /\ ppc = "poll" /\ round > 0
    /\ unreported > 0
    /\ Add("events_dropped", unreported)
    /\ unreported' = 0
    /\ UNCHANGED <<opened, perf, emitted, unseen, pollVars, apiVars, gaugeVars,
                   reply>>

\* _handle_event, up to its call of on_event of Metrics.
HandleEvent ==
    /\ ppc = "poll" /\ round > 0
    /\ perf # <<>>
    /\ event' = Head(perf)
    /\ perf' = Tail(perf)
    /\ ppc' = "arrived"
    /\ UNCHANGED <<opened, unreported, emitted, unseen, lock, field, apiVars,
                   gaugeVars, reply>>

\* The mutated form: noise is returned on before it is counted.
CountEventPassed ==
    /\ ppc = "arrived"
    /\ IF event.noise
       THEN UNCHANGED <<lock, field>> /\ ppc' = "poll"
       ELSE /\ lock = "nobody"
            /\ lock' = "poll"
            /\ field' = [field EXCEPT !["events_total"] = @ + 1]
            /\ ppc' = "counted"
    /\ UNCHANGED <<kernelVars, event, apiVars, gaugeVars, reply>>

\* The mutated form: on_event without the lock.
CountEventUnlocked ==
    /\ ppc = "arrived"
    /\ field' = [field EXCEPT !["events_total"] = @ + 1]
    /\ ppc' = "counted"
    /\ UNCHANGED <<kernelVars, lock, event, apiVars, gaugeVars, reply>>

\* on_event of Metrics takes the lock and counts the event ...
CountEvent ==
    /\ ppc = "arrived"
    /\ lock = "nobody"
    /\ lock' = "poll"
    /\ field' = [field EXCEPT !["events_total"] = @ + 1]
    /\ ppc' = "counted"
    /\ UNCHANGED <<kernelVars, event, apiVars, gaugeVars, reply>>

\* Where a counted event goes: noise is dropped.
Onward == IF event.noise THEN "poll" ELSE "on_event"

\* ... and once more by its fate, and gives the lock back.
CountFate ==
    /\ ppc = "counted"
    /\ LET fate == IF event.noise THEN "events_filtered" ELSE "events_passed"
       IN  field' = [field EXCEPT ![fate] = @ + 1]
    /\ lock' = IF lock = "poll" THEN "nobody" ELSE lock
    /\ ppc' = IF event.killed THEN "signalled" ELSE Onward
    /\ UNCHANGED <<kernelVars, event, apiVars, gaugeVars, reply>>

CountSignal ==
    /\ ppc = "signalled"
    /\ Add("killed_in_kernel", 1)
    /\ ppc' = Onward
    /\ UNCHANGED <<kernelVars, event, apiVars, gaugeVars, reply>>

\* on_event of main.py: the end of it (not a pod's, ALLOW, no transition, or
\* an exception), or a transition to WARN or KILL.
OnEvent ==
    /\ ppc = "on_event"
    /\ ppc' \in {"poll", "warn", "kill"}
    /\ UNCHANGED <<kernelVars, lock, field, event, apiVars, gaugeVars, reply>>

CountDetection ==
    /\ ppc \in {"warn", "kill"}
    /\ Add(ppc, 1)
    /\ ppc' = IF ppc = "kill" THEN "handle_kill" ELSE "poll"
    /\ UNCHANGED <<kernelVars, event, apiVars, gaugeVars, reply>>

\* handle_kill: spared or raised, not resolved, in a warn_only namespace
\* (escalated or not, the Event created or not), or past the checks, with a
\* cgroup.kill that works or does not.
HandleKill ==
    /\ ppc = "handle_kill"
    /\ ppc' \in {"poll", "resolve_failures", "escalations", "events_emitted",
                 "cgroup_kills", "put"}
    /\ UNCHANGED <<kernelVars, lock, field, event, apiVars, gaugeVars, reply>>

CountOutcome ==
    /\ ppc \in {"resolve_failures", "escalations", "events_emitted", "cgroup_kills"}
    /\ Add(ppc, 1)
    /\ CASE ppc = "escalations"  -> ppc' \in {"poll", "events_emitted",
                                              "cgroup_kills", "put"}
         [] ppc = "cgroup_kills" -> ppc' = "put"
         [] OTHER                -> ppc' = "poll"
    /\ UNCHANGED <<kernelVars, event, apiVars, gaugeVars, reply>>

\* put_nowait, unless the pod is in flight or the queue is full.
Put ==
    /\ ppc = "put"
    /\ ppc' = "poll"
    /\ \/ queued < QueueSize /\ queued' = queued + 1
       \/ UNCHANGED queued
    /\ UNCHANGED <<kernelVars, lock, field, event, wpc, gaugeVars, reply>>

-----------------------------------------------------------------------------
(* The workers.                                                            *)

\* get, and the Event, which is created or not.
Get(w) ==
    /\ wpc[w] = "get"
    /\ queued > 0
    /\ queued' = queued - 1
    /\ \E next \in {"events_emitted", "delete"} : wpc' = [wpc EXCEPT ![w] = next]
    /\ UNCHANGED <<kernelVars, lock, field, pollVars, gaugeVars, reply>>

\* The mutated form: the count comes before the call that may fail.
DeleteCounted(w) ==
    /\ wpc[w] = "delete"
    /\ Add("api_deletes", 1)
    /\ \E next \in {"get", "api_errors"} : wpc' = [wpc EXCEPT ![w] = next]
    /\ UNCHANGED <<kernelVars, pollVars, queued, gaugeVars, reply>>

\* kill_pod: deleted, refused, or neither is counted (a 404, or an exception
\* that is no ApiException).
Delete(w) ==
    /\ wpc[w] = "delete"
    /\ \E next \in {"api_deletes", "api_errors", "get"} :
            wpc' = [wpc EXCEPT ![w] = next]
    /\ UNCHANGED <<kernelVars, lock, field, pollVars, queued, gaugeVars, reply>>

CountCall(w) ==
    /\ wpc[w] \in {"events_emitted", "api_deletes", "api_errors"}
    /\ Add(wpc[w], 1)
    /\ wpc' = [wpc EXCEPT ![w] = IF @ = "events_emitted" THEN "delete" ELSE "get"]
    /\ UNCHANGED <<kernelVars, pollVars, queued, gaugeVars, reply>>

-----------------------------------------------------------------------------
(* The gauges, which main refreshes once it has the tracer.                *)

\* The numbers of a refresh are known by its round; gathering them raises
\* when a dictionary changes while it is gone through (RuntimeError), and
\* then none is set.
GatherRaises ==
    /\ gpc = "gather"
    /\ opened /\ round < MaxRounds
    /\ round' = round + 1
    /\ UNCHANGED <<kernelVars, lock, field, pollVars, apiVars, gpc, reply>>

\* The mutated form: set_gauges without the lock.
SetArmedUnlocked ==
    /\ gpc = "gather"
    /\ opened /\ round < MaxRounds
    /\ field' = [field EXCEPT !["armed_count"] = round + 1]
    /\ gpc' = "set"
    /\ UNCHANGED <<kernelVars, lock, pollVars, apiVars, round, reply>>

\* set_gauges sets one attribute after the other.
SetArmed ==
    /\ gpc = "gather"
    /\ opened /\ round < MaxRounds
    /\ lock = "nobody"
    /\ lock' = "gauges"
    /\ field' = [field EXCEPT !["armed_count"] = round + 1]
    /\ gpc' = "set"
    /\ UNCHANGED <<kernelVars, pollVars, apiVars, round, reply>>

SetCaches ==
    /\ gpc = "set"
    /\ field' = [field EXCEPT !["cache_entries"] = round + 1]
    /\ lock' = IF lock = "gauges" THEN "nobody" ELSE lock
    /\ round' = round + 1
    /\ gpc' = "gather"
    /\ UNCHANGED <<kernelVars, pollVars, apiVars, reply>>

-----------------------------------------------------------------------------
(* The server: do_GET calls render, which reads field after field.         *)

RenderStarts ==
    /\ reply = <<>>
    /\ lock = "nobody"
    /\ lock' = "render"
    /\ reply' = <<field[RenderOrder[1]]>>
    /\ UNCHANGED <<kernelVars, field, pollVars, apiVars, gaugeVars>>

Render ==
    /\ lock = "render"
    /\ LET n == Len(reply) + 1
       IN  /\ reply' = Append(reply, field[RenderOrder[n]])
           /\ lock' = IF n = Len(RenderOrder) THEN "nobody" ELSE lock
    /\ UNCHANGED <<kernelVars, field, pollVars, apiVars, gaugeVars>>

\* The reply is sent.
Send ==
    /\ Len(reply) = Len(RenderOrder)
    /\ reply' = <<>>
    /\ UNCHANGED <<kernelVars, lock, field, pollVars, apiVars, gaugeVars>>

-----------------------------------------------------------------------------

Poll ==
    \/ HandleLost \/ HandleEvent \/ CountEvent \/ CountFate \/ CountSignal
    \/ OnEvent \/ CountDetection \/ HandleKill \/ CountOutcome \/ Put

Next ==
    \/ \E e \in Event : Submit(e)
    \/ OpenPerfBuffer
    \/ Poll
    \/ \E w \in Workers : Get(w) \/ Delete(w) \/ CountCall(w)
    \/ GatherRaises \/ SetArmed \/ SetCaches
    \/ RenderStarts \/ Render \/ Send

Spec == Init /\ [][Next]_vars

-----------------------------------------------------------------------------

\* What a complete reply says of a field.
Scraped == Len(reply) = Len(RenderOrder)
Value(f) == reply[CHOOSE i \in DOMAIN RenderOrder : RenderOrder[i] = f]

\* A scrape never sees half an event: whatever the threads do, the events of
\* a reply are those that were dropped by the filter and those that passed.
ScrapeBalanced ==
    Scraped => Value("events_total") = Value("events_filtered") + Value("events_passed")

\* In a reply nothing is done without what it was done for: no response
\* without its detection, no detection without its event, and of each
\* request at most one result, though three threads count them.
CauseBeforeEffect ==
    Scraped =>
        /\ Value("killed_in_kernel") <= Value("events_total")
        /\ Value("kill") + Value("warn") <= Value("events_passed")
        /\ Value("cgroup_kills") + Value("resolve_failures") <= Value("kill")
        /\ Value("escalations") <= Value("kill")
        /\ Value("api_deletes") + Value("api_errors") <= Value("kill")
        /\ Value("events_emitted") <= Value("kill")

\* The gauges of a reply are of one refresh.
GaugesOfOneRefresh ==
    Scraped => Value("armed_count") = Value("cache_entries")

\* The event that is out of the buffer and not counted yet.
Arriving == IF ppc = "arrived" THEN 1 ELSE 0

\* No event is lost in silence once the perf buffer is open, and none counted
\* twice: each one the kernel submitted since is counted as delivered or as
\* lost, or is still on its way.  What the probes submitted before, from the
\* load of the program (syscall_tracer.py:600) to open_perf_buffer (:637), is
\* in no count: that is the one silent loss.
NothingUncounted ==
    field["events_total"] + field["events_dropped"]
        + unreported + Len(perf) + Arriving
      = IF opened THEN emitted - unseen ELSE 0

=============================================================================
