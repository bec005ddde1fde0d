--------------------------- MODULE RepeatTracker ----------------------------
(***************************************************************************)
(* core/repeat_tracker.py: how often a KILL was decided for one owner      *)
(* within the window.  Only the poll thread records, in handle_kill, so    *)
(* the module has no behaviours of its own: K8sKiller calls Record.        *)
(* forget, which nothing in the agent calls, is left out.                  *)
(***************************************************************************)
EXTENDS Integers, SequencesExt

CONSTANTS
    OwnerKeys,          \* the identifiers detections are counted under
    RepeatWindow,       \* window_sec
    RepeatThreshold,    \* threshold
    MaxTime,            \* bound of the clock
    MaxRecords          \* bound of the detections recorded for one key

ASSUME TrackerAssumption ==
    /\ RepeatWindow \in Nat
    /\ RepeatThreshold \in Nat \ {0}
    /\ MaxTime \in Nat
    /\ MaxRecords \in Nat

VARIABLES
    now,        \* CLOCK_MONOTONIC
    history,    \* history[k]: the deque of detection times of k
    recorded    \* history variable: every detection of k since the agent started

trackerVars == <<now, history, recorded>>

TrackerTypeOK ==
    /\ now \in Nat
    /\ history \in [OwnerKeys -> Seq(Nat)]
    /\ recorded \in [OwnerKeys -> Seq(Nat)]

TrackerInit ==
    /\ now = 0
    /\ history = [k \in OwnerKeys |-> <<>>]
    /\ recorded = [k \in OwnerKeys |-> <<>>]

Tick ==
    /\ now < MaxTime
    /\ now' = now + 1
    /\ UNCHANGED <<history, recorded>>

\* The mutated forms: the boundary goes with the expired times, or only one
\* expired time is dropped.
DropExpiredInclusive(times, limit) ==
    LET fresh == {i \in DOMAIN times : times[i] > limit}
    IN  IF fresh = {} THEN <<>> ELSE SubSeq(times, Min(fresh), Len(times))
DropOneExpired(times, limit) ==
    IF times[1] < limit THEN Tail(times) ELSE times

\* The loop of record: drop times from the left until one is fresh.
DropExpired(times, limit) ==
    LET fresh == {i \in DOMAIN times : times[i] >= limit}
    IN  IF fresh = {} THEN <<>> ELSE SubSeq(times, Min(fresh), Len(times))

Record(k) ==
    /\ Len(recorded[k]) < MaxRecords
    /\ history' = [history EXCEPT
                     ![k] = DropExpired(Append(@, now), now - RepeatWindow)]
    /\ recorded' = [recorded EXCEPT ![k] = Append(@, now)]
    /\ UNCHANGED now

\* The mutated form: one detection too early.
EscalatesEarly(k) == Len(history'[k]) + 1 >= RepeatThreshold

\* What record returns next to the new history: count and escalated.
Escalates(k) == Len(history'[k]) >= RepeatThreshold

-----------------------------------------------------------------------------

Detected(k) == Len(recorded'[k]) > Len(recorded[k])

Recent(k) == {i \in DOMAIN recorded'[k] : recorded'[k][i] >= now - RepeatWindow}

\* The count that record returns, on which escalation depends, is the number
\* of detections of the owner in the window that ends now: none too old, and
\* none of them lost.
CountExact ==
    [][\A k \in OwnerKeys :
          Detected(k) => Len(history'[k]) = Cardinality(Recent(k))]_trackerVars

\* Escalation needs a burst: one owner, RepeatThreshold detections, all
\* within one window of each other.
EscalationNeedsBurst ==
    [][\A k \in OwnerKeys :
          Detected(k) /\ Escalates(k) =>
              LET last == Len(recorded'[k])
                  first == last - RepeatThreshold + 1
              IN  /\ first >= 1
                  /\ recorded'[k][last] - recorded'[k][first] <= RepeatWindow
      ]_trackerVars

=============================================================================
