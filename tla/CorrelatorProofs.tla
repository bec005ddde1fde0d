-------------------------- MODULE CorrelatorProofs --------------------------
(***************************************************************************)
(* Proofs about Correlator, for any cgroups, CPUs, scores, window and      *)
(* bounds: which events a story holds, what its score is, which level it   *)
(* has, and that all this implements the detector of module Detector.      *)
(*                                                                         *)
(* The score of a story is a recursive function of its prefixes.  What it  *)
(* is for a longer or a shorter story follows from the facts about sums of *)
(* SumProofs.                                                              *)
(***************************************************************************)
EXTENDS Correlator, SumProofs, SequenceTheorems, TLAPS

\* A score is an integer.
LEMMA DeltaIsInt == \A d \in Deltas : d \in Int
<1>1. \A d \in Deltas : d \in Nat
  BY DeltasAssumption, Zenon
<1> QED
  BY <1>1

\* A later clock gives a later limit.
LEMMA LimitMonotone ==
    \A a, b, w \in Int : b >= a => /\ a - w \in Int
                                    /\ b - w \in Int
                                    /\ b - w >= a - w
  OBVIOUS

-----------------------------------------------------------------------------

\* The terms of the score of a story, and of its part since limit.
TermsOf(story) == [n \in 1 .. Len(story) |-> story[n].delta]
TermsSince(story, limit) ==
    [n \in 1 .. Len(story) |->
        IF story[n].ts >= limit THEN story[n].delta ELSE 0]

\* The scores and times of a story are integers, and no score is negative.
LEMMA TermsAreScores ==
    ASSUME NEW story \in Seq(Entry), NEW limit
    PROVE  /\ Len(story) \in Nat
           /\ TermsOf(story) \in [1 .. Len(story) -> Int]
           /\ TermsSince(story, limit) \in [1 .. Len(story) -> Int]
           /\ \A n \in 1 .. Len(story) :
                /\ story[n].ts \in Int
                /\ story[n].delta \in Int
                /\ story[n].delta >= 0
                /\ TermsOf(story)[n] = story[n].delta
<1>1. Len(story) \in Nat
  BY LenProperties
<1>2. ASSUME NEW i \in 1 .. Len(story)
      PROVE  /\ story[i].ts \in Int
             /\ story[i].delta \in Int
             /\ story[i].delta >= 0
  <2>1. story[i] \in Entry
    BY ElementOfSeq
  <2>2. story[i].ts \in Nat /\ story[i].delta \in Deltas
    BY <2>1 DEF Entry
  <2>3. story[i].delta \in Nat
    BY <2>2, DeltasAssumption, Zenon
  <2> QED
    BY <2>2, <2>3
<1> QED
  BY <1>1, <1>2 DEF TermsOf, TermsSince

\* ScoreOf is the last of the sums of the scores of the story.
LEMMA ScoreMeaning ==
    ASSUME NEW story \in Seq(Entry)
    PROVE  \E f : /\ SumsOf(f, TermsOf(story), Len(story))
                  /\ ScoreOf(story) = f[Len(story)]
<1> DEFINE N == Len(story)
           d == TermsOf(story)
           total == CHOOSE t : t = [n \in 0 .. N |->
                       IF n = 0 THEN 0 ELSE t[n-1] + story[n].delta]
<1>1. N \in Nat /\ d \in [1 .. N -> Int]
  BY TermsAreScores
<1>2. ScoreOf(story) = total[N]
  BY DEF ScoreOf
<1>3. ASSUME NEW t
      PROVE  [n \in 0 .. N |-> IF n = 0 THEN 0 ELSE t[n-1] + story[n].delta]
               = [n \in 0 .. N |-> IF n = 0 THEN 0 ELSE t[n-1] + d[n]]
  BY <1>1 DEF TermsOf
<1>4. PICK t \in [0 .. N -> Int] : SumsOf(t, d, N)
  BY <1>1, SumsExist
<1>5. t = [n \in 0 .. N |-> IF n = 0 THEN 0 ELSE t[n-1] + story[n].delta]
  <2> HIDE DEF d, total
  <2>1. t = [n \in 0 .. N |-> IF n = 0 THEN 0 ELSE t[n-1] + d[n]]
    BY <1>1, <1>4, SumsRecurse
  <2> QED
    BY <1>3, <2>1
<1>6. total = [n \in 0 .. N |->
                 IF n = 0 THEN 0 ELSE total[n-1] + story[n].delta]
  BY <1>5
<1> HIDE DEF total, d
<1>7. SumsOf(total, d, N)
  BY <1>1, <1>3, <1>6, RecursionSums
<1> QED
  BY <1>2, <1>7 DEF d

\* ScoreSince is the last of the sums of the scores since limit.
LEMMA ScoreSinceMeaning ==
    ASSUME NEW story \in Seq(Entry), NEW limit
    PROVE  \E f : /\ SumsOf(f, TermsSince(story, limit), Len(story))
                  /\ DetectorSpec!ScoreSince(story, limit) = f[Len(story)]
<1> DEFINE N == Len(story)
           d == TermsSince(story, limit)
           term(n) == IF story[n].ts >= limit THEN story[n].delta ELSE 0
           total == CHOOSE t : t = [n \in 0 .. N |->
                       IF n = 0 THEN 0 ELSE t[n-1] + term(n)]
<1>1. N \in Nat /\ d \in [1 .. N -> Int]
  BY TermsAreScores
<1>2. DetectorSpec!ScoreSince(story, limit) = total[N]
  BY DEF DetectorSpec!ScoreSince
<1>3. ASSUME NEW t
      PROVE  [n \in 0 .. N |-> IF n = 0 THEN 0 ELSE t[n-1] + term(n)]
               = [n \in 0 .. N |-> IF n = 0 THEN 0 ELSE t[n-1] + d[n]]
  BY <1>1 DEF TermsSince
<1>4. PICK t \in [0 .. N -> Int] : SumsOf(t, d, N)
  BY <1>1, SumsExist
<1>5. t = [n \in 0 .. N |-> IF n = 0 THEN 0 ELSE t[n-1] + term(n)]
  <2> HIDE DEF d, total
  <2>1. t = [n \in 0 .. N |-> IF n = 0 THEN 0 ELSE t[n-1] + d[n]]
    BY <1>1, <1>4, SumsRecurse
  <2> QED
    BY <1>3, <2>1
<1>6. total = [n \in 0 .. N |-> IF n = 0 THEN 0 ELSE total[n-1] + term(n)]
  BY <1>5
<1> HIDE DEF total, d
<1>7. SumsOf(total, d, N)
  BY <1>1, <1>3, <1>6, RecursionSums
<1> QED
  BY <1>2, <1>7 DEF d

\* A story without events has no score.
LEMMA ScoreOfEmpty == ScoreOf(<<>>) = 0
<1>1. <<>> \in Seq(Entry) /\ Len(<<>>) = 0
  BY EmptySeq
<1>2. PICK f : SumsOf(f, TermsOf(<<>>), 0) /\ ScoreOf(<<>>) = f[0]
  BY <1>1, ScoreMeaning
<1> QED
  BY <1>2 DEF SumsOf

\* An event that is added adds its score.
LEMMA ScoreOfAppend ==
    ASSUME NEW story \in Seq(Entry), NEW entry \in Entry
    PROVE  /\ ScoreOf(story) \in Int
           /\ ScoreOf(Append(story, entry)) = ScoreOf(story) + entry.delta
<1> DEFINE N == Len(story)
           longer == Append(story, entry)
<1>1. /\ longer \in Seq(Entry) /\ N \in Nat /\ Len(longer) = N + 1
      /\ \A n \in 1 .. N : longer[n] = story[n]
      /\ longer[N + 1] = entry
  BY AppendProperties, LenProperties
<1> HIDE DEF longer
<1>2. PICK f : SumsOf(f, TermsOf(story), N) /\ ScoreOf(story) = f[N]
  BY ScoreMeaning
<1>3. PICK g : SumsOf(g, TermsOf(longer), N + 1) /\ ScoreOf(longer) = g[N + 1]
  BY <1>1, ScoreMeaning
<1>4. SumsOf(g, TermsOf(longer), N)
  BY <1>1, <1>3 DEF SumsOf
<1>5. \A n \in 1 .. N : /\ TermsOf(story)[n] \in Int
                         /\ TermsOf(story)[n] = TermsOf(longer)[0 + n]
  BY <1>1, TermsAreScores DEF TermsOf
<1>6. \A n \in 0 .. N : g[0 + n] = g[0] + f[n]
  <2>1. Continues(f, TermsOf(story), N, g, TermsOf(longer), N, 0)
    BY <1>1, <1>2, <1>4, <1>5 DEF Continues
  <2> QED
    BY <2>1, SumsAgree
<1>7. f[N] \in Int /\ g[N] = f[N]
  BY <1>1, <1>2, <1>3, <1>6 DEF SumsOf
<1>8. TermsOf(longer)[N + 1] = entry.delta
  BY <1>1 DEF TermsOf
<1>9. g[N + 1] = g[N] + entry.delta
  BY <1>1, <1>3, <1>8 DEF SumsOf
<1> QED
  BY <1>2, <1>3, <1>7, <1>9 DEF longer

\* An event that is evicted takes its score along.
LEMMA ScoreOfTail ==
    ASSUME NEW story \in Seq(Entry), story # <<>>
    PROVE  ScoreOf(Tail(story)) = ScoreOf(story) - story[1].delta
<1> DEFINE N == Len(Tail(story))
           rest == Tail(story)
<1>1. /\ rest \in Seq(Entry) /\ N \in Nat /\ Len(story) = 1 + N
      /\ \A n \in 1 .. N : rest[n] = story[1 + n]
  <2>1. /\ rest \in Seq(Entry) /\ N = Len(story) - 1
        /\ \A n \in 1 .. N : rest[n] = story[n + 1]
    BY HeadTailProperties
  <2>2. N \in Nat /\ Len(story) \in Nat
    BY <2>1, LenProperties
  <2> QED
    BY <2>1, <2>2
<1> HIDE DEF rest
<1>2. PICK f : SumsOf(f, TermsOf(rest), N) /\ ScoreOf(rest) = f[N]
  BY <1>1, ScoreMeaning DEF rest
<1>3. PICK g : SumsOf(g, TermsOf(story), 1 + N) /\ ScoreOf(story) = g[1 + N]
  BY <1>1, ScoreMeaning
<1>4. \A n \in 1 .. N : /\ TermsOf(rest)[n] \in Int
                         /\ TermsOf(rest)[n] = TermsOf(story)[1 + n]
  BY <1>1, TermsAreScores DEF TermsOf, rest
<1>5. \A n \in 0 .. N : g[1 + n] = g[1] + f[n]
  <2>1. Continues(f, TermsOf(rest), N, g, TermsOf(story), 1 + N, 1)
    BY <1>1, <1>2, <1>3, <1>4 DEF Continues
  <2> QED
    BY <2>1, SumsAgree
<1>6. g[1] = story[1].delta /\ story[1].delta \in Int /\ f[N] \in Int
  <2>1. 1 \in 1 .. 1 + N /\ 1 - 1 = 0 /\ N \in 0 .. N
    BY <1>1
  <2>2. g[1] = g[0] + TermsOf(story)[1] /\ g[0] = 0 /\ f[N] \in Int
    BY <2>1, <1>2, <1>3 DEF SumsOf
  <2>3. story[1].delta \in Int /\ TermsOf(story)[1] = story[1].delta
    BY <2>1, <1>1, TermsAreScores
  <2> QED
    BY <2>2, <2>3
<1> QED
  BY <1>2, <1>3, <1>5, <1>6 DEF rest

-----------------------------------------------------------------------------

\* What taking an event off the buffer of a CPU does to the types, and to
\* latency_max: it does not decrease and covers the event that was taken.
LEMMA TakeEventFacts ==
    ASSUME TypeOK, NEW cpu \in Cpus, TakeEvent(cpu)
    PROVE  /\ perf[cpu] \in Seq(Event)
           /\ Len(perf[cpu]) >= 1
           /\ perf[cpu][1] \in Event
           /\ perf' \in [Cpus -> Seq(Event)]
           /\ latency_max' \in Int
           /\ latency_max' >= latency_max
           /\ latency_max' >= now - perf[cpu][1].ts
<1>1. perf[cpu] \in Seq(Event) /\ perf[cpu] # <<>>
  BY DEF TypeOK, TakeEvent
<1>2. Len(perf[cpu]) >= 1 /\ Tail(perf[cpu]) \in Seq(Event)
  BY <1>1, EmptySeq, LenProperties, HeadTailProperties
<1>3. perf[cpu][1] \in Event
  BY <1>1, <1>2, ElementOfSeq, LenProperties
<1>4. perf' \in [Cpus -> Seq(Event)]
  BY <1>2 DEF TypeOK, TakeEvent
<1>5. perf[cpu][1].ts \in Nat
  BY <1>3 DEF Event
<1>6. /\ latency_max' \in Int
      /\ latency_max' >= latency_max
      /\ latency_max' >= now - perf[cpu][1].ts
  <2> DEFINE ts == perf[cpu][1].ts
  <2>1. latency_max' = IF now - ts > latency_max THEN now - ts
                                                 ELSE latency_max
    BY DEF TakeEvent
  <2>2. ts \in Nat /\ now \in Nat /\ latency_max \in Nat
    BY <1>5 DEF TypeOK
  <2> HIDE DEF ts
  <2>3. /\ latency_max' \in Int
        /\ latency_max' >= latency_max
        /\ latency_max' >= now - ts
    BY <2>1, <2>2
  <2> QED
    BY <2>3 DEF ts
<1> QED
  BY <1>1, <1>2, <1>3, <1>4, <1>6

\* Every action keeps the types of the variables.
LEMMA TypeStep == TypeOK /\ [Next]_vars => TypeOK'
<1> SUFFICES ASSUME TypeOK, [Next]_vars PROVE TypeOK'
  OBVIOUS
<1>1. CASE Tick
  BY <1>1 DEF Tick, TypeOK
<1>2. ASSUME NEW cpu \in Cpus, NEW c \in Cgroups, NEW delta \in Deltas,
             Emit(cpu, c, delta)
      PROVE  TypeOK'
  <2> DEFINE e == [cgroup |-> c, ts |-> now, delta |-> delta]
  <2>1. e \in Event
    BY DEF Event, TypeOK
  <2>2. Append(perf[cpu], e) \in Seq(Event)
    BY <2>1, AppendProperties DEF TypeOK
  <2>3. perf' = [perf EXCEPT ![cpu] = Append(@, e)]
    BY <1>2 DEF Emit
  <2> HIDE DEF e
  <2>4. perf' \in [Cpus -> Seq(Event)]
    BY <2>2, <2>3 DEF TypeOK
  <2> QED
    BY <1>2, <2>4 DEF Emit, TypeOK
<1>3. ASSUME NEW cpu \in Cpus, DropEvent(cpu)
      PROVE  TypeOK'
  <2>1. TakeEvent(cpu)
    BY <1>3 DEF DropEvent
  <2>2. latency_max' \in Nat
    BY <2>1, TakeEventFacts DEF TypeOK
  <2> QED
    BY <1>3, <2>1, <2>2, TakeEventFacts DEF DropEvent, TypeOK
<1>4. ASSUME NEW cpu \in Cpus, AddToStory(cpu)
      PROVE  TypeOK'
  <2> DEFINE e == perf[cpu][1]
             entry == [ts |-> e.ts, delta |-> e.delta]
  <2>1. TakeEvent(cpu)
    BY <1>4 DEF AddToStory
  <2>2. e.cgroup \in Cgroups /\ e.ts \in Nat /\ e.delta \in Deltas
    BY <2>1, TakeEventFacts DEF Event
  <2>3. entry \in Entry
    BY <2>2 DEF Entry
  <2>4. /\ events' = [events EXCEPT ![e.cgroup] = Append(@, entry)]
        /\ handled' = [handled EXCEPT ![e.cgroup] = Append(@, entry)]
        /\ threat_score' = [threat_score EXCEPT ![e.cgroup] = @ + e.delta]
        /\ cur' = e.cgroup
    BY <1>4 DEF AddToStory
  <2>5. latency_max' \in Nat /\ perf' \in [Cpus -> Seq(Event)]
    BY <2>1, TakeEventFacts DEF TypeOK
  <2>6. e.delta \in Int
    BY <2>2, DeltaIsInt
  <2> HIDE DEF e, entry
  <2>7. /\ events' \in [Cgroups -> Seq(Entry)]
        /\ handled' \in [Cgroups -> Seq(Entry)]
    BY <2>2, <2>3, <2>4, AppendProperties DEF TypeOK
  <2>8. threat_score' \in [Cgroups -> Int]
    BY <2>2, <2>4, <2>6 DEF TypeOK
  <2>9. now' = now /\ last_decision' = last_decision /\ pc' = "evict"
        /\ cutoff' = now - Window
    BY <1>4 DEF AddToStory
  <2>10. cutoff' \in Int
    BY <2>9, WindowAssumption DEF TypeOK
  <2>11. now' \in Nat /\ last_decision' \in [Cgroups -> Decisions]
    BY <2>9 DEF TypeOK
  <2> QED
    BY <2>2, <2>4, <2>5, <2>7, <2>8, <2>9, <2>10, <2>11 DEF TypeOK
<1>5. CASE Evict
  <2>1. events[cur] \in Seq(Entry) /\ events[cur] # <<>>
    BY <1>5 DEF Evict, HeadExpired, TypeOK
  <2>2. events[cur][1] \in Entry /\ Tail(events[cur]) \in Seq(Entry)
    BY <2>1, EmptySeq, LenProperties, ElementOfSeq, HeadTailProperties
  <2>3. events[cur][1].delta \in Int
    BY <2>2, DeltaIsInt DEF Entry
  <2> QED
    BY <1>5, <2>2, <2>3 DEF Evict, TypeOK
<1>6. CASE React
  BY <1>6 DEF React, Evaluate, Decisions, TypeOK
<1>7. CASE ReactKilled
  BY <1>7 DEF ReactKilled, Decisions, TypeOK
<1>8. CASE UNCHANGED vars
  BY <1>8 DEF vars, TypeOK
<1> QED
  BY <1>1, <1>2, <1>3, <1>4, <1>5, <1>6, <1>7, <1>8 DEF Next

\* The types of the variables of the detection path, in every behaviour.
THEOREM TypeCorrect == Spec => []TypeOK
<1>1. Init => TypeOK
  BY EmptySeq DEF Init, TypeOK, Decisions
<1> QED
  BY <1>1, TypeStep, PTL DEF Spec

-----------------------------------------------------------------------------

\* Nothing carries a time of the future.
PastInv ==
    /\ \A cpu \in Cpus : \A i \in 1..Len(perf[cpu]) : perf[cpu][i].ts <= now
    /\ \A c \in Cgroups : \A i \in 1..Len(events[c]) : events[c][i].ts <= now

\* In a story an event is not older than one handled before it by more than
\* its own latency.
SkewInv ==
    \A c \in Cgroups : \A i, j \in 1..Len(events[c]) :
        i < j => events[c][i].ts <= events[c][j].ts + latency_max

\* A story is what is left of the handled events after dropping a prefix of
\* events that are out of the window.
Suffix(story, all, limit) ==
    LET gone == Len(all) - Len(story)
    IN  /\ gone >= 0
        /\ \A i \in 1..Len(story) : story[i] = all[gone + i]
        /\ \A i \in 1..gone : all[i].ts < limit

\* What is gone was out of the window of an eviction that is over, or of the
\* one that runs.
Limit == IF pc = "evict" THEN cutoff ELSE now - Window

SuffixInv == \A c \in Cgroups : Suffix(events[c], handled[c], Limit)

CutoffInv == pc = "evict" => cutoff <= now - Window

IInv == TypeOK /\ PastInv /\ SkewInv /\ SuffixInv /\ CutoffInv

\* Before the first event there is nothing to keep.
LEMMA IInvInit == Init => IInv
<1> SUFFICES ASSUME Init PROVE IInv
  OBVIOUS
<1>1. TypeOK
  BY EmptySeq DEF Init, TypeOK, Decisions
<1>2. /\ \A cpu \in Cpus : Len(perf[cpu]) = 0
      /\ \A c \in Cgroups : Len(events[c]) = 0 /\ Len(handled[c]) = 0
  BY EmptySeq DEF Init
<1>3. PastInv
  BY <1>2 DEF PastInv
<1>4. SkewInv
  BY <1>2 DEF SkewInv
<1>5. SuffixInv
  <2>1. ASSUME NEW c \in Cgroups
        PROVE  Suffix(events[c], handled[c], Limit)
    <3>1. Len(handled[c]) - Len(events[c]) = 0 /\ Len(events[c]) = 0
      BY <1>2
    <3> QED
      BY <3>1 DEF Suffix
  <2> QED
    BY <2>1 DEF SuffixInv
<1>6. CutoffInv
  BY DEF Init, CutoffInv
<1> QED
  BY <1>1, <1>3, <1>4, <1>5, <1>6 DEF IInv

\* What AddToStory does to the story, the history and the score of each
\* cgroup.
LEMMA AddToStoryFacts ==
    ASSUME TypeOK, NEW cpu \in Cpus, AddToStory(cpu), NEW c \in Cgroups
    PROVE  \/ /\ events'[c] = events[c]
              /\ handled'[c] = handled[c]
              /\ threat_score'[c] = threat_score[c]
           \/ /\ c = cur'
              /\ \E entry \in Entry :
                   /\ entry.ts = perf[cpu][1].ts
                   /\ events'[c] = Append(events[c], entry)
                   /\ handled'[c] = Append(handled[c], entry)
                   /\ threat_score'[c] = threat_score[c] + entry.delta
<1> DEFINE e == perf[cpu][1]
           entry == [ts |-> e.ts, delta |-> e.delta]
<1>1. e.cgroup \in Cgroups /\ e.ts \in Nat /\ e.delta \in Deltas
  BY TakeEventFacts DEF Event, AddToStory
<1>2. entry \in Entry /\ entry.ts = e.ts
  BY <1>1 DEF Entry
<1>3. /\ events' = [events EXCEPT ![e.cgroup] = Append(@, entry)]
      /\ handled' = [handled EXCEPT ![e.cgroup] = Append(@, entry)]
      /\ threat_score' = [threat_score EXCEPT ![e.cgroup] = @ + entry.delta]
      /\ cur' = e.cgroup
  BY DEF AddToStory
<1> HIDE DEF entry
<1>4. CASE c = e.cgroup
  <2>1. /\ events'[c] = Append(events[c], entry)
        /\ handled'[c] = Append(handled[c], entry)
        /\ threat_score'[c] = threat_score[c] + entry.delta
    BY <1>1, <1>3, <1>4 DEF TypeOK
  <2> QED
    BY <1>2, <1>3, <1>4, <2>1
<1>5. CASE c # e.cgroup
  BY <1>1, <1>3, <1>5 DEF TypeOK
<1> QED
  BY <1>4, <1>5

\* What Evict does to the story and the score of each cgroup.
LEMMA EvictFacts ==
    ASSUME TypeOK, Evict, NEW c \in Cgroups
    PROVE  \/ events'[c] = events[c] /\ threat_score'[c] = threat_score[c]
           \/ /\ c = cur
              /\ events[c] # <<>>
              /\ events'[c] = Tail(events[c])
              /\ threat_score'[c] = threat_score[c] - events[c][1].delta
              /\ Len(events[c]) >= 1
              /\ events[c][1].ts < cutoff
              /\ Len(events'[c]) = Len(events[c]) - 1
              /\ \A i \in 1..Len(events'[c]) : events'[c][i] = events[c][i+1]
<1>1. CASE c = cur
  <2>1. events[c] \in Seq(Entry) /\ events[c] # <<>>
    BY <1>1 DEF Evict, HeadExpired, TypeOK
  <2>2. /\ events'[c] = Tail(events[c])
        /\ events[c][1].ts < cutoff
        /\ threat_score'[c] = threat_score[c] - events[c][1].delta
    BY <1>1 DEF Evict, HeadExpired, TypeOK
  <2>3. Len(events[c]) >= 1
    BY <2>1, EmptySeq, LenProperties
  <2> QED
    BY <1>1, <2>1, <2>2, <2>3, HeadTailProperties
<1>2. CASE c # cur
  BY <1>2 DEF Evict, TypeOK
<1> QED
  BY <1>1, <1>2

\* Times are integers, wherever an event is.
LEMMA TimesAreIntegers ==
    ASSUME TypeOK
    PROVE  /\ now \in Int
           /\ latency_max \in Int
           /\ \A cpu \in Cpus : \A i \in 1..Len(perf[cpu]) :
                perf[cpu][i].ts \in Int
           /\ \A c \in Cgroups : \A i \in 1..Len(events[c]) :
                events[c][i].ts \in Int
           /\ \A c \in Cgroups : \A i \in 1..Len(handled[c]) :
                handled[c][i].ts \in Int
           /\ \A cpu \in Cpus : Len(perf[cpu]) \in Nat
           /\ \A c \in Cgroups : Len(events[c]) \in Nat
           /\ \A c \in Cgroups : Len(handled[c]) \in Nat
<1>1. now \in Int /\ latency_max \in Int
  BY DEF TypeOK
<1>2. ASSUME NEW cpu \in Cpus
      PROVE  /\ Len(perf[cpu]) \in Nat
             /\ \A i \in 1..Len(perf[cpu]) : perf[cpu][i].ts \in Int
  <2>1. perf[cpu] \in Seq(Event)
    BY DEF TypeOK
  <2>2. \A i \in 1..Len(perf[cpu]) : perf[cpu][i] \in Event
    BY <2>1, ElementOfSeq
  <2> QED
    BY <2>1, <2>2, LenProperties DEF Event
<1>3. ASSUME NEW s \in Seq(Entry)
      PROVE  /\ Len(s) \in Nat
             /\ \A i \in 1..Len(s) : s[i].ts \in Int
  <2>1. \A i \in 1..Len(s) : s[i] \in Entry
    BY ElementOfSeq
  <2> QED
    BY <2>1, LenProperties DEF Entry
<1>4. \A c \in Cgroups : events[c] \in Seq(Entry) /\ handled[c] \in Seq(Entry)
  BY DEF TypeOK
<1> QED
  BY <1>1, <1>2, <1>3, <1>4

\* The clock never goes back.
LEMMA ClockMonotone ==
    ASSUME TypeOK, [Next]_vars
    PROVE  now' \in Int /\ now' >= now
<1>1. now \in Int
  BY DEF TypeOK
<1>2. CASE Tick
  BY <1>1, <1>2 DEF Tick
<1>3. CASE ~Tick
  <2>1. now' = now
    BY <1>3, Zenon DEF Next, vars, Emit, DropEvent, AddToStory, Evict, React,
                       ReactKilled
  <2> QED
    BY <1>1, <2>1
<1> QED
  BY <1>2, <1>3

\* The clock of the events and of the agent is one and never goes back, so no
\* step makes an event of the future.
LEMMA PastStep == TypeOK /\ PastInv /\ [Next]_vars => PastInv'
<1> SUFFICES ASSUME TypeOK, PastInv, [Next]_vars PROVE PastInv'
  OBVIOUS
<1>t. TypeOK'
  BY TypeStep
<1>n. now' \in Int /\ now' >= now
  BY ClockMonotone
<1>1. ASSUME perf' = perf, events' = events PROVE PastInv'
  BY <1>1, <1>n, TimesAreIntegers DEF PastInv
<1>2. ASSUME NEW cpu \in Cpus, TakeEvent(cpu)
      PROVE  /\ \A k \in Cpus : \A i \in 1..Len(perf'[k]) :
                    perf'[k][i].ts <= now'
             /\ perf[cpu][1].ts <= now'
  <2>1. /\ perf[cpu] \in Seq(Event)
        /\ perf[cpu] # <<>>
        /\ Len(perf[cpu]) >= 1
        /\ perf' = [perf EXCEPT ![cpu] = Tail(@)]
    BY <1>2, TakeEventFacts DEF TakeEvent
  <2>2. /\ Len(Tail(perf[cpu])) = Len(perf[cpu]) - 1
        /\ \A i \in 1..Len(Tail(perf[cpu])) :
             Tail(perf[cpu])[i] = perf[cpu][i+1]
    BY <2>1, HeadTailProperties
  <2>3. ASSUME NEW k \in Cpus, NEW i \in 1..Len(perf'[k])
        PROVE  perf'[k][i].ts <= now'
    <3>1. CASE k = cpu
      <4>1. perf'[k] = Tail(perf[cpu])
        BY <2>1, <3>1 DEF TypeOK
      <4>2. i + 1 \in 1..Len(perf[cpu]) /\ perf'[k][i] = perf[cpu][i+1]
        BY <2>2, <4>1, TimesAreIntegers
      <4> QED
        BY <4>2, <1>n, TimesAreIntegers DEF PastInv
    <3>2. CASE k # cpu
      <4>1. perf'[k] = perf[k]
        BY <2>1, <3>2 DEF TypeOK
      <4> QED
        BY <4>1, <1>n, TimesAreIntegers DEF PastInv
    <3> QED
      BY <3>1, <3>2
  <2>4. perf[cpu][1].ts <= now'
    BY <2>1, <1>n, TimesAreIntegers DEF PastInv
  <2> QED
    BY <2>3, <2>4
<1>3. ASSUME NEW cpu \in Cpus, NEW c \in Cgroups, NEW delta \in Deltas,
             Emit(cpu, c, delta)
      PROVE  PastInv'
  <2> DEFINE e == [cgroup |-> c, ts |-> now, delta |-> delta]
  <2>1. e \in Event /\ e.ts = now
    BY DEF Event, TypeOK
  <2>2. perf' = [perf EXCEPT ![cpu] = Append(@, e)] /\ events' = events
    BY <1>3 DEF Emit
  <2> HIDE DEF e
  <2>3. /\ Len(Append(perf[cpu], e)) = Len(perf[cpu]) + 1
        /\ \A i \in 1..Len(perf[cpu]) : Append(perf[cpu], e)[i] = perf[cpu][i]
        /\ Append(perf[cpu], e)[Len(perf[cpu]) + 1] = e
    BY <2>1, AppendProperties DEF TypeOK
  <2>4. ASSUME NEW k \in Cpus, NEW i \in 1..Len(perf'[k])
        PROVE  perf'[k][i].ts <= now'
    <3>1. CASE k # cpu
      BY <2>2, <3>1, <1>n, TimesAreIntegers DEF PastInv, TypeOK
    <3>2. CASE k = cpu /\ i <= Len(perf[cpu])
      <4>1. i \in 1..Len(perf[cpu])
        BY <3>2, TimesAreIntegers
      <4>2. perf'[k][i] = perf[cpu][i]
        BY <2>2, <2>3, <3>2, <4>1 DEF TypeOK
      <4> QED
        BY <4>1, <4>2, <1>n, TimesAreIntegers DEF PastInv
    <3>3. CASE k = cpu /\ i > Len(perf[cpu])
      <4>1. perf'[k] = Append(perf[cpu], e)
        BY <2>2, <3>3 DEF TypeOK
      <4>2. i = Len(perf[cpu]) + 1
        BY <2>3, <3>3, <4>1, TimesAreIntegers
      <4> QED
        BY <2>1, <2>3, <4>1, <4>2, <1>n, TimesAreIntegers
    <3> QED
      BY <3>1, <3>2, <3>3, TimesAreIntegers
  <2>5. \A k \in Cgroups : \A i \in 1..Len(events'[k]) : events'[k][i].ts <= now'
    BY <2>2, <1>n, TimesAreIntegers DEF PastInv
  <2> QED
    BY <2>4, <2>5 DEF PastInv
<1>4. ASSUME NEW cpu \in Cpus, DropEvent(cpu) PROVE PastInv'
  <2>1. TakeEvent(cpu) /\ events' = events
    BY <1>4 DEF DropEvent
  <2> QED
    BY <2>1, <1>2, <1>n, TimesAreIntegers DEF PastInv
<1>5. ASSUME NEW cpu \in Cpus, AddToStory(cpu) PROVE PastInv'
  <2>1. TakeEvent(cpu)
    BY <1>5 DEF AddToStory
  <2>2. ASSUME NEW c \in Cgroups, NEW i \in 1..Len(events'[c])
        PROVE  events'[c][i].ts <= now'
    <3>1. CASE events'[c] = events[c]
      BY <3>1, <1>n, TimesAreIntegers DEF PastInv
    <3>2. ASSUME NEW entry \in Entry,
                 entry.ts = perf[cpu][1].ts,
                 events'[c] = Append(events[c], entry)
          PROVE  events'[c][i].ts <= now'
      <4>1. /\ Len(events'[c]) = Len(events[c]) + 1
            /\ \A j \in 1..Len(events[c]) : events'[c][j] = events[c][j]
            /\ events'[c][Len(events[c]) + 1] = entry
        BY <3>2, AppendProperties DEF TypeOK
      <4>2. CASE i \in 1..Len(events[c])
        BY <4>1, <4>2, <1>n, TimesAreIntegers DEF PastInv
      <4>3. CASE i \notin 1..Len(events[c])
        <5>1. i = Len(events[c]) + 1
          BY <4>1, <4>3, TimesAreIntegers
        <5> QED
          BY <2>1, <1>2, <3>2, <4>1, <5>1
      <4> QED
        BY <4>2, <4>3
    <3> QED
      BY <1>5, <3>1, <3>2, AddToStoryFacts
  <2> QED
    BY <2>1, <2>2, <1>2 DEF PastInv
<1>6. CASE Evict
  <2>1. ASSUME NEW c \in Cgroups, NEW i \in 1..Len(events'[c])
        PROVE  events'[c][i].ts <= now'
    <3>1. CASE events'[c] = events[c]
      BY <3>1, <1>n, TimesAreIntegers DEF PastInv
    <3>2. CASE /\ Len(events[c]) >= 1
               /\ Len(events'[c]) = Len(events[c]) - 1
               /\ \A j \in 1..Len(events'[c]) : events'[c][j] = events[c][j+1]
      <4>1. i + 1 \in 1..Len(events[c]) /\ events'[c][i] = events[c][i+1]
        BY <3>2, TimesAreIntegers
      <4> QED
        BY <4>1, <1>n, TimesAreIntegers DEF PastInv
    <3> QED
      BY <1>6, <3>1, <3>2, EvictFacts
  <2> QED
    BY <1>6, <1>n, <2>1, TimesAreIntegers DEF PastInv, Evict
<1>7. CASE ReactKilled
  <2>1. perf' = perf /\ events' = [events EXCEPT ![cur] = <<>>] /\ cur \in Cgroups
    BY <1>7 DEF ReactKilled, TypeOK
  <2>2. ASSUME NEW c \in Cgroups, NEW i \in 1..Len(events'[c])
        PROVE  events'[c][i].ts <= now'
    <3>1. c # cur
      BY <2>1, EmptySeq DEF TypeOK
    <3> QED
      BY <2>1, <3>1, <1>n, TimesAreIntegers DEF PastInv, TypeOK
  <2> QED
    BY <2>1, <2>2, <1>n, TimesAreIntegers DEF PastInv
<1> QED
  BY <1>1, <1>3, <1>4, <1>5, <1>6, <1>7
     DEF Next, vars, Tick, React

\* latency_max never decreases.
LEMMA LatencyMonotone ==
    ASSUME TypeOK, [Next]_vars
    PROVE  latency_max' \in Int /\ latency_max' >= latency_max
<1>1. ASSUME NEW cpu \in Cpus, DropEvent(cpu) \/ AddToStory(cpu)
      PROVE  latency_max' \in Int /\ latency_max' >= latency_max
  BY <1>1, TakeEventFacts DEF DropEvent, AddToStory
<1>2. CASE ~\E cpu \in Cpus : DropEvent(cpu) \/ AddToStory(cpu)
  <2>1. latency_max' = latency_max
    BY <1>2, Zenon DEF Next, vars, Tick, Emit, Evict, React, ReactKilled
  <2> QED
    BY <2>1, TimesAreIntegers
<1> QED
  BY <1>1, <1>2

\* The event that joins a story was handled after every event of the story,
\* which bounds how much older it can be by its own latency.
LEMMA SkewStep == TypeOK /\ PastInv /\ SkewInv /\ [Next]_vars => SkewInv'
<1> SUFFICES ASSUME TypeOK, PastInv, SkewInv, [Next]_vars PROVE SkewInv'
  OBVIOUS
<1>t. TypeOK'
  BY TypeStep
<1>l. latency_max' \in Int /\ latency_max' >= latency_max
  BY LatencyMonotone
<1>1. ASSUME NEW c \in Cgroups, events'[c] = events[c],
             NEW i \in 1..Len(events'[c]), NEW j \in 1..Len(events'[c]), i < j
      PROVE  events'[c][i].ts <= events'[c][j].ts + latency_max'
  BY <1>1, <1>l, TimesAreIntegers DEF SkewInv
<1>2. ASSUME events' = events PROVE SkewInv'
  BY <1>1, <1>2 DEF SkewInv
<1>3. ASSUME NEW cpu \in Cpus, AddToStory(cpu) PROVE SkewInv'
  <2>1. TakeEvent(cpu)
    BY <1>3 DEF AddToStory
  <2>2. /\ perf[cpu][1].ts \in Int
        /\ latency_max' >= now - perf[cpu][1].ts
    BY <2>1, TakeEventFacts DEF Event
  <2>3. ASSUME NEW c \in Cgroups,
               NEW i \in 1..Len(events'[c]), NEW j \in 1..Len(events'[c]),
               i < j
        PROVE  events'[c][i].ts <= events'[c][j].ts + latency_max'
    <3>1. CASE events'[c] = events[c]
      BY <2>3, <3>1, <1>1
    <3>2. ASSUME NEW entry \in Entry,
                 entry.ts = perf[cpu][1].ts,
                 events'[c] = Append(events[c], entry)
          PROVE  events'[c][i].ts <= events'[c][j].ts + latency_max'
      <4>1. /\ Len(events'[c]) = Len(events[c]) + 1
            /\ \A k \in 1..Len(events[c]) : events'[c][k] = events[c][k]
            /\ events'[c][Len(events[c]) + 1] = entry
        BY <3>2, AppendProperties DEF TypeOK
      <4>2. i \in 1..Len(events[c])
        BY <2>3, <4>1, TimesAreIntegers
      <4>3. CASE j \in 1..Len(events[c])
        <5>1. events'[c][i] = events[c][i] /\ events'[c][j] = events[c][j]
          BY <4>1, <4>2, <4>3
        <5>2. events[c][i].ts <= events[c][j].ts + latency_max
          BY <2>3, <4>2, <4>3 DEF SkewInv
        <5>3. events[c][i].ts \in Int /\ events[c][j].ts \in Int
          BY <4>2, <4>3, TimesAreIntegers
        <5>4. events[c][i].ts <= events[c][j].ts + latency_max'
          <6>1. latency_max \in Int
            BY TimesAreIntegers
          <6> QED
            BY <5>2, <5>3, <6>1, <1>l
        <5> QED
          BY <5>1, <5>4
      <4>4. CASE j \notin 1..Len(events[c])
        <5>1. j = Len(events[c]) + 1
          BY <4>1, <4>4, TimesAreIntegers
        <5>2. events[c][i].ts <= now /\ events[c][i].ts \in Int
          BY <4>2, TimesAreIntegers DEF PastInv
        <5>3. events'[c][i] = events[c][i] /\ events'[c][j] = entry
          BY <4>1, <4>2, <5>1
        <5>4. entry.ts \in Int /\ latency_max' >= now - entry.ts
          BY <2>2, <3>2
        <5>5. events[c][i].ts <= entry.ts + latency_max'
          BY <5>2, <5>4, <1>l, TimesAreIntegers
        <5> QED
          BY <5>3, <5>5
      <4> QED
        BY <4>3, <4>4
    <3> QED
      BY <1>3, <3>1, <3>2, AddToStoryFacts
  <2> QED
    BY <2>3 DEF SkewInv
<1>4. CASE Evict
  <2>1. ASSUME NEW c \in Cgroups,
               NEW i \in 1..Len(events'[c]), NEW j \in 1..Len(events'[c]),
               i < j
        PROVE  events'[c][i].ts <= events'[c][j].ts + latency_max'
    <3>1. CASE events'[c] = events[c]
      BY <2>1, <3>1, <1>1
    <3>2. CASE /\ Len(events[c]) >= 1
               /\ Len(events'[c]) = Len(events[c]) - 1
               /\ \A k \in 1..Len(events'[c]) : events'[c][k] = events[c][k+1]
      <4>1. /\ i + 1 \in 1..Len(events[c]) /\ events'[c][i] = events[c][i+1]
            /\ j + 1 \in 1..Len(events[c]) /\ events'[c][j] = events[c][j+1]
            /\ i + 1 < j + 1
        BY <2>1, <3>2, TimesAreIntegers
      <4>2. events[c][i+1].ts <= events[c][j+1].ts + latency_max
        BY <4>1 DEF SkewInv
      <4>3. events[c][i+1].ts \in Int /\ events[c][j+1].ts \in Int
        BY <4>1, TimesAreIntegers
      <4>4. latency_max \in Int
        BY TimesAreIntegers
      <4>5. events[c][i+1].ts <= events[c][j+1].ts + latency_max'
        BY <4>2, <4>3, <4>4, <1>l
      <4> QED
        BY <4>1, <4>5
    <3> QED
      BY <1>4, <3>1, <3>2, EvictFacts
  <2> QED
    BY <2>1 DEF SkewInv
<1>5. CASE ReactKilled
  <2>1. events' = [events EXCEPT ![cur] = <<>>] /\ cur \in Cgroups
    BY <1>5 DEF ReactKilled, TypeOK
  <2>2. ASSUME NEW c \in Cgroups,
               NEW i \in 1..Len(events'[c]), NEW j \in 1..Len(events'[c]),
               i < j
        PROVE  events'[c][i].ts <= events'[c][j].ts + latency_max'
    <3>1. c # cur
      BY <2>1, EmptySeq DEF TypeOK
    <3>2. events'[c] = events[c]
      BY <2>1, <3>1 DEF TypeOK
    <3> QED
      BY <2>2, <3>2, <1>1
  <2> QED
    BY <2>2 DEF SkewInv
<1> QED
  BY <1>2, <1>3, <1>4, <1>5
     DEF Next, vars, Tick, Emit, DropEvent, React

\* The cutoff of a running eviction was the start of the window when it was
\* computed, and the window only moves on.
LEMMA CutoffStep == TypeOK /\ CutoffInv /\ [Next]_vars => CutoffInv'
<1> SUFFICES ASSUME TypeOK, CutoffInv, [Next]_vars PROVE CutoffInv'
  OBVIOUS
<1>1. now \in Int /\ cutoff \in Int /\ Window \in Int
  BY WindowAssumption DEF TypeOK
<1>2. now' \in Int /\ now' >= now
  BY ClockMonotone
<1>3. CASE pc' = pc /\ cutoff' = cutoff
  <2>1. CASE pc = "evict"
    <3>1. cutoff <= now - Window
      BY <2>1 DEF CutoffInv
    <3>2. cutoff <= now' - Window
      <4>1. now - Window \in Int /\ now' - Window \in Int
            /\ now' - Window >= now - Window
        BY <1>1, <1>2, LimitMonotone, Zenon
      <4> QED
        BY <1>1, <3>1, <4>1
    <3> QED
      BY <1>3, <3>2 DEF CutoffInv
  <2>2. CASE pc # "evict"
    BY <1>3, <2>2 DEF CutoffInv
  <2> QED
    BY <2>1, <2>2
<1>4. CASE pc' = "poll"
  BY <1>4 DEF CutoffInv
<1>5. CASE pc' = "evict" /\ cutoff' = now - Window
  <2>1. now' - Window >= now - Window
    BY <1>1, <1>2, LimitMonotone
  <2> QED
    BY <1>5, <2>1, <1>1, <1>2, LimitMonotone DEF CutoffInv
<1> QED
  BY <1>3, <1>4, <1>5
     DEF Next, vars, Tick, Emit, DropEvent, AddToStory, Evict, React,
         ReactKilled

\* So the limit never goes back.
LEMMA LimitStep ==
    ASSUME TypeOK, CutoffInv, [Next]_vars
    PROVE  /\ Limit \in Int
           /\ Limit' \in Int
           /\ Limit' >= Limit
<1>1. /\ now \in Int /\ cutoff \in Int /\ Window \in Int
      /\ now' \in Int /\ now' >= now
      /\ cutoff' \in Int
  <2>1. TypeOK'
    BY TypeStep
  <2>2. now' \in Int /\ now' >= now
    BY ClockMonotone
  <2>3. cutoff' \in Int
    BY <2>1 DEF TypeOK
  <2> QED
    BY <2>2, <2>3, WindowAssumption DEF TypeOK
<1>2. now - Window \in Int /\ now' - Window \in Int
      /\ now' - Window >= now - Window
  BY <1>1, LimitMonotone, Zenon
<1>3. Limit \in Int /\ Limit' \in Int
  BY <1>1, <1>2 DEF Limit
<1>4. \/ pc' = pc /\ cutoff' = cutoff
      \/ pc = "evict" /\ pc' = "poll"
      \/ pc = "poll" /\ pc' = "evict" /\ cutoff' = now - Window
  BY DEF Next, vars, Tick, Emit, DropEvent, AddToStory, TakeEvent, Evict,
         React, ReactKilled, Scored
<1>5. \A old, new, k \in Int : k <= old /\ new >= old => new >= k
  OBVIOUS
<1>6. pc = "evict" => cutoff <= now' - Window
  <2>1. pc = "evict" => cutoff <= now - Window
    BY DEF CutoffInv
  <2> QED
    BY <1>1, <1>2, <1>5, <2>1
<1> DEFINE old == now - Window
           new == now' - Window
<1> HIDE DEF old, new
<1>7. /\ Limit = IF pc = "evict" THEN cutoff ELSE old
      /\ Limit' = IF pc' = "evict" THEN cutoff' ELSE new
      /\ pc' = "evict" /\ pc = "poll" => cutoff' = old
  BY <1>4 DEF Limit, old, new
<1>8. old \in Int /\ new \in Int /\ new >= old /\ (pc = "evict" => cutoff <= new)
  BY <1>2, <1>6 DEF old, new
<1>9. Limit' >= Limit
  <2>1. CASE pc' = pc /\ cutoff' = cutoff
    BY <1>1, <1>7, <1>8, <2>1
  <2>2. CASE pc = "evict" /\ pc' = "poll"
    BY <1>1, <1>7, <1>8, <2>2
  <2>3. CASE pc = "poll" /\ pc' = "evict"
    BY <1>1, <1>7, <1>8, <2>3
  <2> QED
    BY <1>4, <2>1, <2>2, <2>3
<1> QED
  BY <1>3, <1>9

\* A story stays such a suffix as the window moves on ...
LEMMA SuffixKept ==
    ASSUME NEW story \in Seq(Entry), NEW all \in Seq(Entry),
           NEW limit \in Int, NEW later \in Int, later >= limit,
           Suffix(story, all, limit)
    PROVE  Suffix(story, all, later)
<1>1. \A i \in 1..Len(all) : all[i].ts \in Int
  <2>1. \A i \in 1..Len(all) : all[i] \in Entry
    BY ElementOfSeq
  <2> QED
    BY <2>1 DEF Entry
<1>2. Len(all) \in Nat /\ Len(story) \in Nat
  BY LenProperties
<1>3. ASSUME NEW i \in 1..(Len(all) - Len(story))
      PROVE  all[i].ts < later
  <2>1. all[i].ts < limit
    BY DEF Suffix
  <2>2. all[i].ts \in Int
    BY <1>1, <1>2
  <2> QED
    BY <2>1, <2>2
<1> QED
  BY <1>3 DEF Suffix

\* ... when an event is added to it, and to the handled events ...
LEMMA SuffixAppended ==
    ASSUME NEW story \in Seq(Entry), NEW all \in Seq(Entry),
           NEW limit \in Int, NEW entry \in Entry,
           Suffix(story, all, limit)
    PROVE  Suffix(Append(story, entry), Append(all, entry), limit)
<1> DEFINE s == Append(story, entry)
           a == Append(all, entry)
           gone == Len(all) - Len(story)
<1>1. Len(all) \in Nat /\ Len(story) \in Nat
  BY LenProperties
<1>2. /\ Len(s) = Len(story) + 1
      /\ \A i \in 1..Len(story) : s[i] = story[i]
      /\ s[Len(story) + 1] = entry
  BY AppendProperties
<1>3. /\ Len(a) = Len(all) + 1
      /\ \A i \in 1..Len(all) : a[i] = all[i]
      /\ a[Len(all) + 1] = entry
  BY AppendProperties
<1>4. /\ gone \in Nat
      /\ \A i \in 1..Len(story) : story[i] = all[gone + i]
      /\ \A i \in 1..gone : all[i].ts < limit
  BY <1>1 DEF Suffix
<1> HIDE DEF s, a
<1>5. Len(a) - Len(s) = gone
  BY <1>1, <1>2, <1>3
<1>6. ASSUME NEW i \in 1..Len(s) PROVE s[i] = a[gone + i]
  <2>1. CASE i \in 1..Len(story)
    <3>1. s[i] = story[i] /\ story[i] = all[gone + i]
      BY <2>1, <1>2, <1>4
    <3>2. gone + i \in 1..Len(all)
      BY <2>1, <1>1, <1>4
    <3> QED
      BY <3>1, <3>2, <1>3
  <2>2. CASE i \notin 1..Len(story)
    <3>1. i = Len(story) + 1 /\ gone + i = Len(all) + 1
      BY <2>2, <1>1, <1>2
    <3> QED
      BY <3>1, <1>2, <1>3
  <2> QED
    BY <2>1, <2>2
<1>7. ASSUME NEW i \in 1..gone PROVE a[i].ts < limit
  BY <1>1, <1>3, <1>4
<1>8. Suffix(s, a, limit)
  BY <1>4, <1>5, <1>6, <1>7 DEF Suffix
<1> QED
  BY <1>8 DEF s, a

\* ... and when its first event is evicted because it is out of the window.
LEMMA SuffixEvicted ==
    ASSUME NEW story \in Seq(Entry), NEW all \in Seq(Entry),
           NEW limit \in Int, NEW rest \in Seq(Entry),
           Suffix(story, all, limit),
           Len(story) >= 1,
           story[1].ts < limit,
           Len(rest) = Len(story) - 1,
           \A i \in 1..Len(rest) : rest[i] = story[i+1]
    PROVE  Suffix(rest, all, limit)
<1> DEFINE gone == Len(all) - Len(story)
<1>1. Len(all) \in Nat /\ Len(story) \in Nat
  BY LenProperties
<1>2. /\ gone \in Nat
      /\ \A i \in 1..Len(story) : story[i] = all[gone + i]
      /\ \A i \in 1..gone : all[i].ts < limit
  BY <1>1 DEF Suffix
<1>3. Len(all) - Len(rest) = gone + 1
  BY <1>1
<1>4. ASSUME NEW i \in 1..Len(rest) PROVE rest[i] = all[(gone + 1) + i]
  <2>1. i + 1 \in 1..Len(story) /\ gone + (i + 1) = (gone + 1) + i
    BY <1>1, <1>2
  <2> QED
    BY <2>1, <1>2
<1>5. ASSUME NEW i \in 1..(gone + 1) PROVE all[i].ts < limit
  <2>1. CASE i \in 1..gone
    BY <2>1, <1>2
  <2>2. CASE i = gone + 1
    BY <2>2, <1>1, <1>2
  <2> QED
    BY <2>1, <2>2, <1>2
<1> HIDE DEF gone
<1> QED
  BY <1>2, <1>3, <1>4, <1>5 DEF Suffix

\* Every step keeps each story a suffix of the handled events: add appends to
\* both, _evict_old drops an expired head, forget drops both.
LEMMA SuffixStep ==
    TypeOK /\ SuffixInv /\ CutoffInv /\ [Next]_vars => SuffixInv'
<1> SUFFICES ASSUME TypeOK, SuffixInv, CutoffInv, [Next]_vars,
                    NEW c \in Cgroups
             PROVE  Suffix(events'[c], handled'[c], Limit')
  BY DEF SuffixInv
<1>2. Limit \in Int /\ Limit' \in Int /\ Limit' >= Limit
  BY LimitStep
<1>3. /\ events[c] \in Seq(Entry) /\ handled[c] \in Seq(Entry)
      /\ events'[c] \in Seq(Entry) /\ handled'[c] \in Seq(Entry)
  BY TypeStep DEF TypeOK
<1>4. Suffix(events[c], handled[c], Limit)
  BY DEF SuffixInv
<1>5. Suffix(events[c], handled[c], Limit')
  BY <1>2, <1>3, <1>4, SuffixKept
<1>6. CASE events' = events /\ handled' = handled
  BY <1>5, <1>6
<1>7. ASSUME NEW cpu \in Cpus, AddToStory(cpu)
      PROVE  Suffix(events'[c], handled'[c], Limit')
  <2>1. CASE events'[c] = events[c] /\ handled'[c] = handled[c]
    BY <1>5, <2>1
  <2>2. ASSUME NEW entry \in Entry,
               events'[c] = Append(events[c], entry),
               handled'[c] = Append(handled[c], entry)
        PROVE  Suffix(events'[c], handled'[c], Limit')
    BY <1>2, <1>3, <1>5, <2>2, SuffixAppended
  <2> QED
    BY <1>7, <2>1, <2>2, AddToStoryFacts
<1>8. CASE Evict
  <2>1. handled' = handled /\ pc = "evict"
    BY <1>8 DEF Evict
  <2>2. CASE events'[c] = events[c]
    BY <1>5, <2>1, <2>2
  <2>3. CASE /\ Len(events[c]) >= 1
             /\ events[c][1].ts < cutoff
             /\ Len(events'[c]) = Len(events[c]) - 1
             /\ \A i \in 1..Len(events'[c]) : events'[c][i] = events[c][i+1]
    <3>1. events[c][1].ts \in Int
      BY <2>3, TimesAreIntegers
    <3>2. Limit = cutoff
      BY <2>1 DEF Limit
    <3>3. events[c][1].ts < Limit'
      BY <1>2, <2>3, <3>1, <3>2
    <3> QED
      BY <1>2, <1>3, <1>5, <2>1, <2>3, <3>3, SuffixEvicted
  <2> QED
    BY <1>8, <2>2, <2>3, EvictFacts
<1>9. CASE ReactKilled
  <2>1. CASE c = cur
    <3>1. events'[c] = <<>> /\ handled'[c] = <<>>
      BY <1>9, <2>1 DEF ReactKilled, TypeOK
    <3>2. Len(events'[c]) = 0 /\ Len(handled'[c]) = 0
      BY <3>1, EmptySeq
    <3>3. Len(handled'[c]) - Len(events'[c]) = 0
      BY <3>2
    <3> QED
      BY <3>2, <3>3 DEF Suffix
  <2>2. CASE c # cur
    <3>1. events'[c] = events[c] /\ handled'[c] = handled[c]
      BY <1>9, <2>2 DEF ReactKilled, TypeOK
    <3> QED
      BY <1>5, <3>1
  <2> QED
    BY <2>1, <2>2
<1> QED
  BY <1>6, <1>7, <1>8, <1>9
     DEF Next, vars, Tick, Emit, DropEvent, React

\* The inductive invariant holds throughout.
LEMMA IInvInductive == Spec => []IInv
<1>1. IInv /\ [Next]_vars => IInv'
  BY TypeStep, PastStep, SkewStep, SuffixStep, CutoffStep DEF IInv
<1> QED
  BY <1>1, IInvInit, PTL DEF Spec

\* No event of a story is older than its first one by more than the latency.
LEMMA StalenessFollows == IInv => StalenessBounded
<1> SUFFICES ASSUME IInv, Scored, NEW i \in DOMAIN events[cur]
             PROVE  events[cur][i].ts >= cutoff - latency_max
  BY DEF StalenessBounded
<1> DEFINE story == events[cur]
<1>1. story \in Seq(Entry) /\ cur \in Cgroups /\ cutoff \in Int
      /\ latency_max \in Nat
  BY DEF IInv, TypeOK
<1>2. i \in 1..Len(story) /\ 1 \in 1..Len(story) /\ Len(story) \in Nat
  BY <1>1, LenProperties
<1>3. story # <<>>
  BY <1>1, <1>2, EmptySeq
<1>4. story[1].ts \in Int /\ story[i].ts \in Int
  BY <1>1, <1>2, TimesAreIntegers DEF IInv
<1>5. ~(story[1].ts < cutoff)
  BY <1>3 DEF Scored, HeadExpired
<1>6. CASE i = 1
  <2>1. story[i].ts >= cutoff
    BY <1>4, <1>5, <1>6, <1>1
  <2> QED
    BY <1>1, <1>4, <2>1
<1>7. CASE i # 1
  <2>1. story[1].ts <= story[i].ts + latency_max
    <3>1. 1 < i
      BY <1>2, <1>7
    <3> QED
      BY <1>1, <1>2, <3>1 DEF IInv, SkewInv
  <2> HIDE DEF story
  <2>2. story[i].ts >= cutoff - latency_max
    BY <1>1, <1>4, <1>5, <2>1
  <2> QED
    BY <2>2 DEF story
<1> QED
  BY <1>6, <1>7

\* However the CPUs' buffers are drained, a decision of the poll thread never
\* counts an event that is out of the window by more than the largest
\* latency it has measured: _evict_old stops at the first event that is not
\* expired, and every event behind that one is at most that much older.
THEOREM BoundedStaleness == Spec => []StalenessBounded
  BY StalenessFollows, IInvInductive, PTL

\* Eviction never drops an event of the window: of the events handled since
\* the story began, the story lost a prefix, and all of it is expired.
THEOREM WindowKept == Spec => []StoryKeepsWindow
<1>1. IInv => StoryKeepsWindow
  <2> SUFFICES ASSUME IInv, NEW c \in Cgroups, NEW i \in DOMAIN handled[c],
                      handled[c][i].ts >= now - Window
               PROVE  LET gone == Len(handled[c]) - Len(events[c])
                      IN  i > gone /\ events[c][i - gone] = handled[c][i]
    BY DEF StoryKeepsWindow
  <2> DEFINE gone == Len(handled[c]) - Len(events[c])
  <2>1. /\ events[c] \in Seq(Entry) /\ handled[c] \in Seq(Entry)
        /\ now \in Int /\ Window \in Int
    BY WindowAssumption DEF IInv, TypeOK
  <2>2. /\ i \in 1..Len(handled[c])
        /\ Len(handled[c]) \in Nat /\ Len(events[c]) \in Nat
    BY <2>1, LenProperties
  <2>3. handled[c][i].ts \in Int
    BY <2>2, TimesAreIntegers DEF IInv
  <2>4. /\ gone >= 0
        /\ \A k \in 1..Len(events[c]) : events[c][k] = handled[c][gone + k]
        /\ \A k \in 1..gone : handled[c][k].ts < now - Window
    <3>1. Limit \in Int /\ now - Window \in Int /\ now - Window >= Limit
      BY <2>1 DEF Limit, IInv, CutoffInv, TypeOK
    <3>2. Suffix(events[c], handled[c], Limit)
      BY DEF IInv, SuffixInv
    <3>3. Suffix(events[c], handled[c], now - Window)
      BY <2>1, <3>1, <3>2, SuffixKept
    <3> QED
      BY <3>3 DEF Suffix
  <2>5. i > gone
    <3>1. CASE i \in 1..gone
      <4>1. handled[c][i].ts < now - Window
        BY <2>4, <3>1
      <4>2. now - Window \in Int
        BY <2>1
      <4> QED
        BY <2>3, <4>1, <4>2
    <3>2. CASE i \notin 1..gone
      <4>1. gone \in Int
        BY <2>2
      <4> HIDE DEF gone
      <4> QED
        BY <2>2, <3>2, <4>1
    <3> QED
      BY <3>1, <3>2
  <2>6. i - gone \in 1..Len(events[c]) /\ gone + (i - gone) = i
    <3>1. \A len, all, k \in Int :
             /\ k >= 1 /\ k <= all /\ k > all - len
             => /\ k - (all - len) \in 1..len
                /\ (all - len) + (k - (all - len)) = k
      OBVIOUS
    <3>2. /\ Len(events[c]) \in Int /\ Len(handled[c]) \in Int /\ i \in Int
          /\ i >= 1 /\ i <= Len(handled[c])
      BY <2>2
    <3> QED
      BY <2>5, <3>1, <3>2, Zenon
  <2> QED
    BY <2>4, <2>5, <2>6
<1> QED
  BY <1>1, IInvInductive, PTL

-----------------------------------------------------------------------------

\* Each step of add, _evict_old and forget that changes a story changes its
\* score by as much.
LEMMA ScoreStep ==
    TypeOK /\ ScoreMatchesStory /\ [Next]_vars => ScoreMatchesStory'
<1> SUFFICES ASSUME TypeOK, ScoreMatchesStory, [Next]_vars,
                    NEW c \in Cgroups
             PROVE  threat_score'[c] = ScoreOf(events'[c])
  BY DEF ScoreMatchesStory
<1>1. /\ events[c] \in Seq(Entry)
      /\ threat_score[c] = ScoreOf(events[c])
  BY DEF TypeOK, ScoreMatchesStory
<1>2. CASE events'[c] = events[c] /\ threat_score'[c] = threat_score[c]
  BY <1>1, <1>2
<1>3. ASSUME NEW cpu \in Cpus, AddToStory(cpu)
      PROVE  threat_score'[c] = ScoreOf(events'[c])
  <2>1. ASSUME NEW entry \in Entry,
               events'[c] = Append(events[c], entry),
               threat_score'[c] = threat_score[c] + entry.delta
        PROVE  threat_score'[c] = ScoreOf(events'[c])
    BY <1>1, <2>1, ScoreOfAppend
  <2> QED
    BY <1>2, <1>3, <2>1, AddToStoryFacts
<1>4. CASE Evict
  <2>1. CASE /\ events[c] # <<>>
             /\ events'[c] = Tail(events[c])
             /\ threat_score'[c] = threat_score[c] - events[c][1].delta
    BY <1>1, <2>1, ScoreOfTail
  <2> QED
    BY <1>2, <1>4, <2>1, EvictFacts
<1>5. CASE ReactKilled
  <2>1. CASE c = cur
    <3>1. events'[c] = <<>> /\ threat_score'[c] = 0
      BY <1>5, <2>1 DEF ReactKilled, TypeOK
    <3> QED
      BY <3>1, ScoreOfEmpty
  <2>2. CASE c # cur
    BY <1>2, <1>5, <2>2 DEF ReactKilled, TypeOK
  <2> QED
    BY <2>1, <2>2
<1> QED
  BY <1>2, <1>3, <1>4, <1>5
     DEF Next, vars, Tick, Emit, DropEvent, React

\* The running score is the sum over the story, whatever is added, evicted or
\* forgotten and in whatever order: the score that evaluate compares with the
\* thresholds never drifts from the events that are there to explain it.
THEOREM ScoreIsSum == Spec => []ScoreMatchesStory
<1>1. Init => ScoreMatchesStory
  BY ScoreOfEmpty DEF Init, ScoreMatchesStory
<1> QED
  BY <1>1, ScoreStep, TypeCorrect, PTL DEF Spec

\* The level kept for a cgroup changes only where its score is settled.
LEMMA DecisionStep ==
    ASSUME WarnThreshold > 0, KillThreshold > 0,
           TypeOK, DecisionFollowsScore, [Next]_vars
    PROVE  DecisionFollowsScore'
<1> SUFFICES ASSUME NEW c \in Cgroups, ~(pc' = "evict" /\ c = cur')
             PROVE  last_decision'[c] = Evaluate(threat_score'[c])
  BY DEF DecisionFollowsScore, Evaluate
<1>1. ~(pc = "evict" /\ c = cur) => last_decision[c] = Evaluate(threat_score[c])
  BY DEF DecisionFollowsScore
<1>2. CASE UNCHANGED <<threat_score, last_decision, pc, cur>>
  BY <1>1, <1>2
<1>3. ASSUME NEW cpu \in Cpus, AddToStory(cpu)
      PROVE  last_decision'[c] = Evaluate(threat_score'[c])
  <2>1. /\ pc = "poll"
        /\ pc' = "evict"
        /\ last_decision' = last_decision
    BY <1>3 DEF AddToStory, TakeEvent
  <2>2. threat_score'[c] = threat_score[c]
    BY <1>3, <2>1, AddToStoryFacts
  <2> QED
    BY <1>1, <2>1, <2>2
<1>4. CASE Evict
  <2>1. /\ pc' = pc
        /\ cur' = cur
        /\ last_decision' = last_decision
    BY <1>4 DEF Evict
  <2>2. pc = "evict" /\ c # cur
    BY <1>4, <2>1 DEF Evict
  <2>3. threat_score'[c] = threat_score[c]
    BY <1>4, <2>2, EvictFacts
  <2> QED
    BY <1>1, <2>1, <2>2, <2>3
<1>5. CASE React
  <2>1. /\ threat_score' = threat_score
        /\ last_decision' = [last_decision EXCEPT
                               ![cur] = Evaluate(threat_score[cur])]
    BY <1>5 DEF React
  <2>2. CASE c = cur
    BY <2>1, <2>2 DEF TypeOK
  <2>3. CASE c # cur
    BY <1>1, <2>1, <2>3 DEF TypeOK
  <2> QED
    BY <2>2, <2>3
<1>6. CASE ReactKilled
  <2>1. CASE c = cur
    <3>1. last_decision'[c] = "ALLOW" /\ threat_score'[c] = 0
      BY <1>6, <2>1 DEF ReactKilled, TypeOK
    <3>2. Evaluate(0) = "ALLOW"
      BY ThresholdsAssumption DEF Evaluate
    <3> QED
      BY <3>1, <3>2
  <2>2. CASE c # cur
    BY <1>1, <1>6, <2>2 DEF ReactKilled, TypeOK
  <2> QED
    BY <2>1, <2>2
<1> QED
  BY <1>2, <1>3, <1>4, <1>5, <1>6 DEF Next, vars, Tick, Emit, DropEvent, TakeEvent

\* Between two events the level main.py remembers is the level of the score,
\* for thresholds above 0: with a threshold of 0 a story that was forgotten
\* has a score that reaches it, and no level.
THEOREM DecisionIsCurrent ==
    ASSUME WarnThreshold > 0, KillThreshold > 0
    PROVE  Spec => []DecisionFollowsScore
<1>1. Init => DecisionFollowsScore
  <2>1. Evaluate(0) = "ALLOW"
    BY ThresholdsAssumption DEF Evaluate
  <2> QED
    BY <2>1 DEF Init, DecisionFollowsScore
<1>2. TypeOK /\ DecisionFollowsScore /\ [Next]_vars => DecisionFollowsScore'
  BY DecisionStep
<1> QED
  BY <1>1, <1>2, TypeCorrect, PTL DEF Spec

-----------------------------------------------------------------------------

\* A story that lost only events older than limit, and keeps none older than
\* low, has a score between the scores since limit and since low of all the
\* events handled.
LEMMA SuffixScore ==
    ASSUME NEW story \in Seq(Entry), NEW all \in Seq(Entry),
           NEW limit \in Int, NEW low \in Int,
           Suffix(story, all, limit),
           \A i \in 1 .. Len(story) : story[i].ts >= low
    PROVE  ScoreOf(story) \in DetectorSpec!ScoreSince(all, limit)
                                .. DetectorSpec!ScoreSince(all, low)
<1> DEFINE n == Len(story)
           N == Len(all)
           gone == Len(all) - Len(story)
           d == [i \in 1 .. N |-> IF i <= gone THEN 0 ELSE all[i].delta]
<1>1. /\ n \in Nat /\ N \in Nat /\ gone \in Nat /\ N = gone + n
      /\ \A i \in 1 .. n : story[i] = all[gone + i]
      /\ \A i \in 1 .. gone : all[i].ts < limit
  BY LenProperties DEF Suffix
<1> HIDE DEF n, N, gone
<1>2. \A i \in 1 .. N : /\ all[i].ts \in Int
                         /\ all[i].delta \in Int
                         /\ all[i].delta >= 0
  BY TermsAreScores DEF N
<1>3. /\ \A i \in 1 .. N : d[i] \in Int
      /\ \A i \in 1 .. gone : d[i] = 0
      /\ \A i \in 1 .. n : d[gone + i] = all[gone + i].delta
  <2>1. \A i \in 1 .. N : i <= gone => d[i] = 0
    OBVIOUS
  <2>2. \A i \in 1 .. N : ~(i <= gone) => d[i] = all[i].delta
    OBVIOUS
  <2>3. \A i \in 1 .. gone : i \in 1 .. N /\ i <= gone
    BY <1>1
  <2>4. \A i \in 1 .. n : gone + i \in 1 .. N /\ ~(gone + i <= gone)
    BY <1>1
  <2> HIDE DEF d
  <2> QED
    BY <1>2, <2>1, <2>2, <2>3, <2>4
<1>4. d \in [1 .. N -> Int]
  BY <1>3
<1> HIDE DEF d
<1>5. PICK h : SumsOf(h, d, N)
  BY <1>1, <1>4, SumsExist
<1>6. h[gone] = 0
  <2> DEFINE z == [i \in 0 .. gone |-> 0]
  <2>1. SumsOf(h, d, gone)
    <3>1. /\ \A i \in 0 .. gone : i \in 0 .. N
          /\ \A i \in 1 .. gone : i \in 1 .. N
      BY <1>1
    <3> QED
      BY <1>5, <3>1 DEF SumsOf
  <2>2. SumsOf(z, z, gone) /\ z[gone] = 0 /\ \A i \in 1 .. gone : z[i] = 0
    BY <1>1 DEF SumsOf
  <2> HIDE DEF z
  <2>3. /\ \A i \in 1 .. gone : d[i] \in Int /\ z[i] \in Int /\ d[i] <= z[i]
        /\ \A i \in 1 .. gone : z[i] \in Int /\ d[i] \in Int /\ z[i] <= d[i]
    BY <1>3, <2>2
  <2>4. h[gone] <= z[gone] /\ z[gone] <= h[gone]
    BY <1>1, <2>1, <2>2, <2>3, SumsOrdered
  <2>5. h[gone] \in Int
    BY <1>1, <2>1 DEF SumsOf
  <2> QED
    BY <2>2, <2>4, <2>5
<1>7. PICK f : SumsOf(f, TermsOf(story), n) /\ ScoreOf(story) = f[n]
  BY ScoreMeaning DEF n
<1>8. \A i \in 1 .. n : /\ TermsOf(story)[i] \in Int
                         /\ TermsOf(story)[i] = d[gone + i]
  <2>1. \A i \in 1 .. n : /\ story[i].delta \in Int
                           /\ TermsOf(story)[i] = story[i].delta
    BY TermsAreScores DEF n
  <2> QED
    BY <1>1, <1>3, <2>1
<1>9. Continues(f, TermsOf(story), n, h, d, N, gone)
  BY <1>1, <1>5, <1>7, <1>8 DEF Continues
<1>10. ScoreOf(story) = h[N] /\ h[N] \in Int
  <2>1. h[gone + n] = h[gone] + f[n]
    BY <1>1, <1>9, SumsAgree
  <2>2. f[n] \in Int /\ h[N] \in Int
    BY <1>1, <1>5, <1>7 DEF SumsOf
  <2> QED
    BY <1>1, <1>6, <1>7, <2>1, <2>2
<1>11. ASSUME NEW bound \in Int
       PROVE  /\ \A i \in 1 .. N : TermsSince(all, bound)[i] \in Int
              /\ \A i \in 1 .. N : all[i].ts < bound
                                    => TermsSince(all, bound)[i] = 0
              /\ \A i \in 1 .. N : all[i].ts >= bound
                                    => TermsSince(all, bound)[i] = all[i].delta
  BY <1>2 DEF TermsSince, N
<1>12. \A i \in 1 .. N : \/ i \in 1 .. gone
                          \/ \E k \in 1 .. n : i = gone + k
  <2>1. ASSUME NEW i \in 1 .. N, i \notin 1 .. gone
        PROVE  i - gone \in 1 .. n /\ i = gone + (i - gone)
    BY <1>1, <2>1
  <2> QED
    BY <2>1
<1>13. DetectorSpec!ScoreSince(all, limit) <= ScoreOf(story)
       /\ DetectorSpec!ScoreSince(all, limit) \in Int
  <2>1. PICK g : /\ SumsOf(g, TermsSince(all, limit), N)
                 /\ DetectorSpec!ScoreSince(all, limit) = g[N]
    BY ScoreSinceMeaning DEF N
  <2>2. ASSUME NEW i \in 1 .. N
        PROVE  TermsSince(all, limit)[i] <= d[i]
    <3>1. CASE i \in 1 .. gone
      <4>1. d[i] = 0 /\ all[i].ts < limit
        BY <1>1, <1>3, <3>1
      <4>2. TermsSince(all, limit)[i] = 0
        BY <1>11, <4>1
      <4> QED
        BY <4>1, <4>2
    <3>2. ASSUME NEW k \in 1 .. n, i = gone + k
          PROVE  TermsSince(all, limit)[i] <= d[i]
      <4>1. d[i] = all[i].delta
        BY <1>3, <3>2
      <4>2. CASE all[i].ts < limit
        <5>1. TermsSince(all, limit)[i] = 0
          BY <1>11, <4>2
        <5> QED
          BY <1>2, <4>1, <5>1
      <4>3. CASE all[i].ts >= limit
        <5>1. TermsSince(all, limit)[i] = all[i].delta
          BY <1>11, <4>3
        <5> QED
          BY <1>2, <4>1, <5>1
      <4> QED
        BY <1>2, <4>2, <4>3
    <3> QED
      BY <1>12, <3>1, <3>2
  <2>3. \A i \in 1 .. N : /\ TermsSince(all, limit)[i] \in Int
                           /\ d[i] \in Int
                           /\ TermsSince(all, limit)[i] <= d[i]
    BY <1>3, <1>11, <2>2
  <2>4. g[N] <= h[N]
    BY <1>1, <1>5, <2>1, <2>3, SumsOrdered
  <2>5. g[N] \in Int
    BY <1>1, <2>1 DEF SumsOf
  <2> QED
    BY <1>10, <2>1, <2>4, <2>5
<1>14. ScoreOf(story) <= DetectorSpec!ScoreSince(all, low)
       /\ DetectorSpec!ScoreSince(all, low) \in Int
  <2>1. PICK g : /\ SumsOf(g, TermsSince(all, low), N)
                 /\ DetectorSpec!ScoreSince(all, low) = g[N]
    BY ScoreSinceMeaning DEF N
  <2>2. ASSUME NEW i \in 1 .. N
        PROVE  d[i] <= TermsSince(all, low)[i]
    <3>1. CASE i \in 1 .. gone
      <4>1. d[i] = 0
        BY <1>3, <3>1
      <4>2. all[i].ts < low \/ all[i].ts >= low
        BY <1>2
      <4> QED
        BY <1>2, <1>11, <4>1, <4>2
    <3>2. ASSUME NEW k \in 1 .. n, i = gone + k
          PROVE  d[i] <= TermsSince(all, low)[i]
      <4>1. d[i] = all[i].delta
        BY <1>3, <3>2
      <4>2. all[i].ts >= low
        BY <1>1, <3>2 DEF n
      <4> QED
        BY <1>2, <1>11, <4>1, <4>2
    <3> QED
      BY <1>12, <3>1, <3>2
  <2>3. \A i \in 1 .. N : /\ d[i] \in Int
                           /\ TermsSince(all, low)[i] \in Int
                           /\ d[i] <= TermsSince(all, low)[i]
    BY <1>3, <1>11, <2>2
  <2>4. h[N] <= g[N]
    BY <1>1, <1>5, <2>1, <2>3, SumsOrdered
  <2>5. g[N] \in Int
    BY <1>1, <2>1 DEF SumsOf
  <2> QED
    BY <1>10, <2>1, <2>4, <2>5
<1> QED
  BY <1>10, <1>13, <1>14

\* So the score a decision is made from is one that the detector may take.
LEMMA DecisionRests ==
    ASSUME IInv, ScoreMatchesStory, Scored
    PROVE  threat_score[cur] \in
             DetectorSpec!ScoreSince(handled[cur], cutoff)
               .. DetectorSpec!ScoreSince(handled[cur], cutoff - latency_max)
<1>1. /\ cur \in Cgroups
      /\ events[cur] \in Seq(Entry)
      /\ handled[cur] \in Seq(Entry)
      /\ cutoff \in Int
      /\ cutoff - latency_max \in Int
  BY DEF IInv, TypeOK
<1>2. Suffix(events[cur], handled[cur], cutoff)
  BY <1>1 DEF IInv, SuffixInv, Limit, Scored
<1>3. \A i \in 1 .. Len(events[cur]) : events[cur][i].ts >= cutoff - latency_max
  <2>1. DOMAIN events[cur] = 1 .. Len(events[cur])
    BY <1>1, LenProperties
  <2> QED
    BY <2>1, StalenessFollows DEF StalenessBounded
<1>4. threat_score[cur] = ScoreOf(events[cur])
  BY <1>1 DEF ScoreMatchesStory
<1> QED
  BY <1>1, <1>2, <1>3, <1>4, SuffixScore

\* Every step of the detection path is a step of the detector or none: adding
\* is taking up, the first events that _evict_old drops are not seen, and the
\* reaction is the conclusion.
LEMMA DetectorStep ==
    ASSUME IInv, ScoreMatchesStory, [Next]_vars
    PROVE  [DetectorSpec!Next]_(DetectorSpec!detectorVars)
<1> DEFINE due == IF pc = "evict"
                  THEN {[cgroup |-> cur, time |-> cutoff + Window]} ELSE {}
<1>1. /\ TypeOK
      /\ now \in Int /\ Window \in Int /\ cutoff \in Int /\ latency_max \in Int
  BY WindowAssumption DEF IInv, TypeOK
<1>2. UNCHANGED <<pc, cur, cutoff>> => due' = due
  OBVIOUS
<1>3. ASSUME UNCHANGED <<now, latency_max, handled, last_decision, due>>
      PROVE  UNCHANGED DetectorSpec!detectorVars
  BY <1>3 DEF DetectorSpec!detectorVars
<1>4. CASE Tick
  <2>1. /\ now' = now + 1
        /\ UNCHANGED <<latency_max, handled, last_decision, due>>
    BY <1>2, <1>4 DEF Tick
  <2>2. DetectorSpec!Tick
    BY <2>1 DEF DetectorSpec!Tick
  <2> QED
    BY <2>2 DEF DetectorSpec!Next
<1>5. ASSUME NEW cpu \in Cpus, NEW c \in Cgroups, NEW delta \in Deltas,
             Emit(cpu, c, delta)
      PROVE  UNCHANGED DetectorSpec!detectorVars
  BY <1>2, <1>3, <1>5 DEF Emit
<1>6. ASSUME NEW cpu \in Cpus, TakeEvent(cpu)
      PROVE  /\ perf[cpu][1].ts \in 0 .. now
             /\ DetectorSpec!Measure(perf[cpu][1].ts)
  <2>1. /\ perf[cpu][1].ts \in Nat
        /\ 1 \in 1 .. Len(perf[cpu])
    BY <1>1, <1>6, TakeEventFacts, TimesAreIntegers DEF Event
  <2>2. perf[cpu][1].ts <= now
    BY <2>1 DEF IInv, PastInv
  <2>3. DetectorSpec!Measure(perf[cpu][1].ts)
    BY <1>6 DEF TakeEvent, DetectorSpec!Measure
  <2> QED
    BY <1>1, <2>1, <2>2, <2>3
<1>7. ASSUME NEW cpu \in Cpus, DropEvent(cpu)
      PROVE  DetectorSpec!Next
  <2>1. TakeEvent(cpu) /\ UNCHANGED <<now, handled, last_decision, due>>
    BY <1>2, <1>7 DEF DropEvent
  <2>2. DetectorSpec!Pass(perf[cpu][1].ts)
    BY <1>6, <2>1 DEF DetectorSpec!Pass
  <2> QED
    BY <1>6, <2>1, <2>2 DEF DetectorSpec!Next
<1>8. ASSUME NEW cpu \in Cpus, AddToStory(cpu)
      PROVE  DetectorSpec!Next
  <2> DEFINE e == perf[cpu][1]
  <2>1. /\ TakeEvent(cpu)
        /\ pc = "poll"
        /\ pc' = "evict"
        /\ cur' = e.cgroup
        /\ cutoff' = now - Window
        /\ handled' = [handled EXCEPT ![e.cgroup] =
                          Append(@, [ts |-> e.ts, delta |-> e.delta])]
        /\ UNCHANGED <<now, last_decision>>
    BY <1>8 DEF AddToStory, TakeEvent
  <2>2. e.cgroup \in Cgroups /\ e.delta \in Deltas
    BY <1>1, <2>1, TakeEventFacts DEF Event
  <2>3. due = {}
    BY <2>1
  <2>4. due' = {[cgroup |-> e.cgroup, time |-> now]}
    <3>1. cutoff' + Window = now
      BY <1>1, <2>1
    <3> QED
      BY <2>1, <3>1
  <2>5. e.ts \in 0 .. now /\ DetectorSpec!Measure(e.ts)
    BY <1>6, <2>1
  <2> HIDE DEF e, due
  <2>6. DetectorSpec!TakeUp(e.cgroup, e.ts, e.delta)
    BY <2>1, <2>3, <2>4, <2>5 DEF DetectorSpec!TakeUp, due
  <2> QED
    BY <2>2, <2>5, <2>6 DEF DetectorSpec!Next
<1>9. CASE Evict
  BY <1>2, <1>3, <1>9 DEF Evict
<1>10. ASSUME Scored, pc' = "poll", UNCHANGED <<now, latency_max>>,
              \/ /\ last_decision' = [last_decision EXCEPT
                       ![cur] = Evaluate(threat_score[cur])]
                 /\ UNCHANGED handled
              \/ /\ Evaluate(threat_score[cur]) = "KILL"
                 /\ last_decision[cur] # "KILL"
                 /\ last_decision' = [last_decision EXCEPT ![cur] = "ALLOW"]
                 /\ handled' = [handled EXCEPT ![cur] = <<>>]
       PROVE  DetectorSpec!Next
  <2> DEFINE d == [cgroup |-> cur, time |-> cutoff + Window]
             score == threat_score[cur]
  <2>1. d \in due /\ d.cgroup = cur /\ d.time = cutoff + Window
    BY <1>10 DEF Scored
  <2>2. due' = {}
    BY <1>10
  <2>3. score \in DetectorSpec!ScoresAsOf(d.cgroup, d.time)
    <3>1. d.time - Window = cutoff
      BY <1>1, <2>1
    <3> QED
      BY <1>10, <2>1, <3>1, DecisionRests DEF DetectorSpec!ScoresAsOf
  <2>4. Evaluate(score) = DetectorSpec!Decide(score)
    BY DEF Evaluate, DetectorSpec!Decide
  <2>5. DetectorSpec!Conclude(cur, score)
    BY <1>10, <2>2, <2>4 DEF DetectorSpec!Conclude
  <2> QED
    BY <2>1, <2>3, <2>5 DEF DetectorSpec!Next
<1>11. CASE React
  BY <1>10, <1>11 DEF React
<1>12. CASE ReactKilled
  BY <1>10, <1>12 DEF ReactKilled
<1>13. CASE UNCHANGED vars
  BY <1>2, <1>3, <1>13 DEF vars
<1> QED
  BY <1>4, <1>5, <1>7, <1>8, <1>9, <1>11, <1>12, <1>13 DEF Next

\* The detection path implements the detector: whatever the buffers, the deque
\* and the running score do, each level rests on the events that the handler
\* had seen of the window, and on none that had left it for longer than the
\* largest latency measured.
THEOREM DetectionImplemented == Spec => Detection
<1>1. Init => DetectorSpec!Init
  BY DEF Init, DetectorSpec!Init
<1>2. Init => ScoreMatchesStory
  BY ScoreOfEmpty DEF Init, ScoreMatchesStory
<1>3. IInv /\ ScoreMatchesStory /\ [Next]_vars
        => [DetectorSpec!Next]_(DetectorSpec!detectorVars)
  BY DetectorStep
<1> QED
  BY <1>1, <1>3, IInvInductive, ScoreIsSum, PTL
     DEF Spec, Detection, DetectorSpec!Spec

=============================================================================
