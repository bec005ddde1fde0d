------------------------------ MODULE Detector ------------------------------
(***************************************************************************)
(* What Correlator promises, without buffers, deques and running sums: the *)
(* level of a container is decided anew for every event of it, as of the   *)
(* moment the event is taken up, by the scores of the events in the window *)
(* that ends then.  The decision may also count events that left the       *)
(* window, but only as many as fit in the largest latency measured.        *)
(*                                                                         *)
(* Correlator is shown to implement this module (Correlator!Detection).    *)
(***************************************************************************)
EXTENDS Integers, Sequences

CONSTANTS
    Cgroups, Deltas, Window, WarnThreshold, KillThreshold

VARIABLES
    now,
    latency,    \* the largest latency measured
    log,        \* log[c]: the events of c since its story began
    level,      \* level[c]: the decision about c that stands
    due         \* the decision to be made, if any: about whom, and as of when

detectorVars == <<now, latency, log, level, due>>

Init ==
    /\ now = 0
    /\ latency = 0
    /\ log = [c \in Cgroups |-> <<>>]
    /\ level = [c \in Cgroups |-> "ALLOW"]
    /\ due = {}

Decide(score) ==
    IF score >= KillThreshold THEN "KILL"
    ELSE IF score >= WarnThreshold THEN "WARN" ELSE "ALLOW"

\* The sum of the scores of the events no older than limit.
ScoreSince(story, limit) ==
    LET total[n \in 0 .. Len(story)] ==
            IF n = 0 THEN 0
            ELSE total[n-1]
                   + (IF story[n].ts >= limit THEN story[n].delta ELSE 0)
    IN  total[Len(story)]

\* The scores a decision may rest on.
ScoresAsOf(c, time) ==
    ScoreSince(log[c], time - Window)
        .. ScoreSince(log[c], time - Window - latency)

Tick ==
    /\ now' = now + 1
    /\ UNCHANGED <<latency, log, level, due>>

\* An event, old by its own clock, is taken up, and is counted or is not.
Measure(ts) == latency' = IF now - ts > latency THEN now - ts ELSE latency

Pass(ts) ==
    /\ Measure(ts)
    /\ UNCHANGED <<now, log, level, due>>

TakeUp(c, ts, delta) ==
    /\ due = {}
    /\ Measure(ts)
    /\ log' = [log EXCEPT ![c] = Append(@, [ts |-> ts, delta |-> delta])]
    /\ due' = {[cgroup |-> c, time |-> now]}
    /\ UNCHANGED <<now, level>>

\* The decision stands until the next event, unless it is to kill and the
\* container is dealt with: then all about it is forgotten.
Conclude(c, score) ==
    /\ \/ /\ level' = [level EXCEPT ![c] = Decide(score)]
          /\ UNCHANGED log
       \/ /\ Decide(score) = "KILL"
          /\ level[c] # "KILL"
          /\ level' = [level EXCEPT ![c] = "ALLOW"]
          /\ log' = [log EXCEPT ![c] = <<>>]
    /\ due' = {}
    /\ UNCHANGED <<now, latency>>

Next ==
    \/ Tick
    \/ \E ts \in 0 .. now : Pass(ts)
    \/ \E c \in Cgroups, ts \in 0 .. now, delta \in Deltas : TakeUp(c, ts, delta)
    \/ \E d \in due : \E score \in ScoresAsOf(d.cgroup, d.time) :
          Conclude(d.cgroup, score)

Spec == Init /\ [][Next]_detectorVars

=============================================================================
