----------------------------- MODULE Correlator -----------------------------
(***************************************************************************)
(* The detection path of the agent: kernel probes stamp an event and put   *)
(* it in the perf buffer of the CPU they ran on (bpf/syscall_tracer.py),   *)
(* the poll thread takes one event at a time, whichever CPU's buffer it    *)
(* drains next, adds it to the story of its cgroup (core/correlator.py),   *)
(* evicts what left the window, and reacts to a change of the decision     *)
(* (core/policy_engine.py, main.py on_event).                              *)
(*                                                                         *)
(* An event is its cgroup, its kernel time and the score _score_event      *)
(* gives it.  Time is a discrete CLOCK_MONOTONIC shared by the kernel and  *)
(* the agent; it may advance between any two steps of the poll thread.     *)
(***************************************************************************)
EXTENDS Integers, SequencesExt

CONSTANTS
    Cgroups,        \* cgroup ids of pod containers
    Cpus,           \* CPUs, each with a perf buffer of its own
    Deltas,         \* the scores a single event can get
    Window,         \* CORRELATION_WINDOW_SEC
    WarnThreshold,  \* thresholds.warn of policies.yaml
    KillThreshold,  \* thresholds.kill of policies.yaml
    MaxTime,        \* bound of the clock
    MaxBacklog,     \* bound of each CPU's perf buffer
    MaxHeld         \* bound of the events in buffers and since the stories began

ASSUME DeltasAssumption == Deltas \subseteq Nat
ASSUME WindowAssumption == Window \in Nat
ASSUME BoundsAssumption ==
    /\ MaxTime \in Nat
    /\ MaxBacklog \in Nat
    /\ MaxHeld \in Nat
ASSUME ThresholdsAssumption ==
    /\ WarnThreshold \in Nat
    /\ KillThreshold \in Nat

VARIABLES
    now,            \* CLOCK_MONOTONIC
    perf,           \* perf[cpu]: events submitted by the kernel, oldest first
    latency_max,    \* stats["latency_max"] of the tracer
    events,         \* events[c]: the deque of the story of c, <<>> if none
    threat_score,   \* threat_score[c]: the score of that story, 0 if none
    last_decision,  \* the level main.py reacted to last, "ALLOW" if absent
    pc,             \* where the poll thread is: "poll" or "evict"
    cur,            \* the cgroup of the event being handled
    cutoff,         \* the local variable of _evict_old
    handled         \* history: the events added to the story of c since it began

vars == <<now, perf, latency_max, events, threat_score, last_decision,
          pc, cur, cutoff, handled>>

Decisions == {"ALLOW", "WARN", "KILL"}

\* An entry of a story: the event's kernel time and its score.
Entry == [ts : Nat, delta : Deltas]

\* A record of the perf buffer.
Event == [cgroup : Cgroups, ts : Nat, delta : Deltas]

\* PolicyEngine.evaluate
Evaluate(score) ==
    IF score >= KillThreshold THEN "KILL"
    ELSE IF score >= WarnThreshold THEN "WARN" ELSE "ALLOW"

\* The mutated forms: eviction with the wrong comparison or a late cutoff.
HeadExpiredInclusive(story, limit) == story # <<>> /\ story[1].ts <= limit
HeadExpiredLate(story, limit) == story # <<>> /\ story[1].ts < limit - 1

\* The loop condition of _evict_old: only the head of the deque is looked at.
HeadExpired(story, limit) == story # <<>> /\ story[1].ts < limit

\* The sum over a story, by its prefixes.
ScoreOf(story) ==
    LET total[n \in 0 .. Len(story)] ==
            IF n = 0 THEN 0 ELSE total[n-1] + story[n].delta
    IN  total[Len(story)]

Held == FoldFunctionOnSet(+, 0, [c \in Cgroups |-> Len(handled[c])], Cgroups)
          + FoldFunctionOnSet(+, 0, [cpu \in Cpus |-> Len(perf[cpu])], Cpus)

TypeOK ==
    /\ now \in Nat
    /\ perf \in [Cpus -> Seq(Event)]
    /\ latency_max \in Nat
    /\ events \in [Cgroups -> Seq(Entry)]
    /\ threat_score \in [Cgroups -> Int]
    /\ last_decision \in [Cgroups -> Decisions]
    /\ pc \in {"poll", "evict"}
    /\ cur \in Cgroups
    /\ cutoff \in Int
    /\ handled \in [Cgroups -> Seq(Entry)]

Init ==
    /\ now = 0
    /\ perf = [cpu \in Cpus |-> <<>>]
    /\ latency_max = 0
    /\ events = [c \in Cgroups |-> <<>>]
    /\ threat_score = [c \in Cgroups |-> 0]
    /\ last_decision = [c \in Cgroups |-> "ALLOW"]
    /\ pc = "poll"
    /\ cur \in Cgroups
    /\ cutoff = 0
    /\ handled = [c \in Cgroups |-> <<>>]

-----------------------------------------------------------------------------

Tick ==
    /\ now < MaxTime
    /\ now' = now + 1
    /\ UNCHANGED <<perf, latency_max, events, threat_score, last_decision,
                   pc, cur, cutoff, handled>>

\* A probe on cpu: fill_common stamps the event, perf_submit appends it to
\* the buffer of that CPU.  An event that finds the buffer full is lost and
\* leaves no trace here.
Emit(cpu, c, delta) ==
    /\ Len(perf[cpu]) < MaxBacklog
    /\ Held < MaxHeld
    /\ perf' = [perf EXCEPT ![cpu] =
                  Append(@, [cgroup |-> c, ts |-> now, delta |-> delta])]
    /\ UNCHANGED <<now, latency_max, events, threat_score, last_decision,
                   pc, cur, cutoff, handled>>

\* The mutated form: the latency is taken with the wrong sign, and the last
\* one is kept.
TakeEventSwapped(cpu) ==
    /\ pc = "poll"
    /\ perf[cpu] # <<>>
    /\ perf' = [perf EXCEPT ![cpu] = Tail(@)]
    /\ latency_max' = perf[cpu][1].ts - now

\* The start of _handle_event for the oldest event of one CPU's buffer.
TakeEvent(cpu) ==
    /\ pc = "poll"
    /\ perf[cpu] # <<>>
    /\ perf' = [perf EXCEPT ![cpu] = Tail(@)]
    /\ latency_max' = LET latency == now - perf[cpu][1].ts
                      IN  IF latency > latency_max THEN latency
                                                   ELSE latency_max

\* _handle_event drops the event as noise, or on_event as not a pod's.
DropEvent(cpu) ==
    /\ TakeEvent(cpu)
    /\ UNCHANGED <<now, events, threat_score, last_decision, pc, cur, cutoff,
                   handled>>

\* The entry of AttackStory.add, up to the cutoff that _evict_old computes.
AddToStory(cpu) ==
    /\ TakeEvent(cpu)
    /\ LET e == perf[cpu][1]
           c == e.cgroup
           entry == [ts |-> e.ts, delta |-> e.delta]
       IN  /\ cur' = c
           /\ events' = [events EXCEPT ![c] = Append(@, entry)]
           /\ threat_score' = [threat_score EXCEPT ![c] = @ + e.delta]
           /\ handled' = [handled EXCEPT ![c] = Append(@, entry)]
    /\ cutoff' = now - Window
    /\ pc' = "evict"
    /\ UNCHANGED <<now, last_decision>>

\* The mutated form: the score of the evicted event is not subtracted.
EvictWithoutSubtract ==
    /\ pc = "evict"
    /\ HeadExpired(events[cur], cutoff)
    /\ events' = [events EXCEPT ![cur] = Tail(@)]
    /\ UNCHANGED <<now, perf, latency_max, threat_score, last_decision, pc,
                   cur, cutoff, handled>>

\* One iteration of the loop of _evict_old.
Evict ==
    /\ pc = "evict"
    /\ HeadExpired(events[cur], cutoff)
    /\ events' = [events EXCEPT ![cur] = Tail(@)]
    /\ threat_score' = [threat_score EXCEPT ![cur] = @ - events[cur][1].delta]
    /\ UNCHANGED <<now, perf, latency_max, last_decision, pc, cur, cutoff,
                   handled>>

\* The loop of _evict_old is over: process returns the story.
Scored == pc = "evict" /\ ~HeadExpired(events[cur], cutoff)

\* on_event after process, when the pod is not dealt with: the level is
\* recorded (ALLOW removes the entry), the story stays.
React ==
    /\ Scored
    /\ last_decision' = [last_decision EXCEPT
                           ![cur] = Evaluate(threat_score[cur])]
    /\ pc' = "poll"
    /\ UNCHANGED <<now, perf, latency_max, events, threat_score, cur, cutoff,
                   handled>>

\* The mutated form: the story goes but its score stays.
ReactKilledKeepsScore ==
    /\ Scored
    /\ Evaluate(threat_score[cur]) = "KILL"
    /\ last_decision[cur] # "KILL"
    /\ events' = [events EXCEPT ![cur] = <<>>]
    /\ last_decision' = [last_decision EXCEPT ![cur] = "ALLOW"]
    /\ handled' = [handled EXCEPT ![cur] = <<>>]
    /\ pc' = "poll"
    /\ UNCHANGED <<now, perf, latency_max, threat_score, cur, cutoff>>

\* on_event when a transition into KILL makes handle_kill return True:
\* correlator.forget and last_decision.pop.
ReactKilled ==
    /\ Scored
    /\ Evaluate(threat_score[cur]) = "KILL"
    /\ last_decision[cur] # "KILL"
    /\ events' = [events EXCEPT ![cur] = <<>>]
    /\ threat_score' = [threat_score EXCEPT ![cur] = 0]
    /\ last_decision' = [last_decision EXCEPT ![cur] = "ALLOW"]
    /\ handled' = [handled EXCEPT ![cur] = <<>>]
    /\ pc' = "poll"
    /\ UNCHANGED <<now, perf, latency_max, cur, cutoff>>

Next ==
    \/ Tick
    \/ \E cpu \in Cpus, c \in Cgroups, delta \in Deltas : Emit(cpu, c, delta)
    \/ \E cpu \in Cpus : DropEvent(cpu)
    \/ \E cpu \in Cpus : AddToStory(cpu)
    \/ Evict
    \/ React
    \/ ReactKilled

Spec == Init /\ [][Next]_vars

-----------------------------------------------------------------------------

\* The score the policy compares with its thresholds is the sum over the
\* events of the story, at every step: what correlator.py:166-171 insists on.
ScoreMatchesStory ==
    \A c \in Cgroups : threat_score[c] = ScoreOf(events[c])

\* Events of different CPUs are handled out of order and _evict_old looks at
\* the head of the deque only, so a decision may count an event older than
\* the window; but never older by more than the largest latency measured.
StalenessBounded ==
    Scored => \A i \in DOMAIN events[cur] :
                  events[cur][i].ts >= cutoff - latency_max

\* Eviction never costs a detection: of the events handled since the story
\* began, those in the window are in the story, in their order.
StoryKeepsWindow ==
    \A c \in Cgroups :
        LET gone == Len(handled[c]) - Len(events[c])
        IN  \A i \in DOMAIN handled[c] :
                handled[c][i].ts >= now - Window =>
                    i > gone /\ events[c][i - gone] = handled[c][i]

\* Between events, the level main.py keeps is the level of the story: a level
\* is never remembered for a story that was dropped, nor for another score.
DecisionFollowsScore ==
    \A c \in Cgroups :
        ~(pc = "evict" /\ c = cur) =>
            last_decision[c] = Evaluate(threat_score[c])

DetectorSpec == INSTANCE Detector WITH
    latency <- latency_max,
    log     <- handled,
    level   <- last_decision,
    due     <- IF pc = "evict"
               THEN {[cgroup |-> cur, time |-> cutoff + Window]} ELSE {}

\* Buffers, deque, running score and step-by-step eviction amount to the
\* detector of module Detector: no decision counts less than the window that
\* ends when its event is taken up, nor more than that window widened by the
\* largest latency measured, and only a kill forgets.
Detection == DetectorSpec!Spec

=============================================================================
