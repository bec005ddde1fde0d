-------------------------- MODULE K8sKillerProofs ---------------------------
(***************************************************************************)
(* Proofs about K8sKiller, for any cluster, any number of workers, any     *)
(* queue size, any policy and any failures of the API server and of        *)
(* cgroup.kill: the types, the bookkeeping of _in_flight, that protected   *)
(* namespaces are left alone, what an escalation means, and that all this  *)
(* implements the service of KillService.  That requests come to their end *)
(* is liveness and is left to model checking.                              *)
(***************************************************************************)
EXTENDS K8sKiller, PodResolverProofs, SumProofs, SequenceTheorems,
        FiniteSetTheorems

-----------------------------------------------------------------------------
(* The tracker, for any owners, window and threshold: the deque of an      *)
(* owner is the end of what was recorded of it, and exactly the part of it *)
(* that is in the window.  RepeatTracker has no behaviours of its own, so  *)
(* the facts are about its steps.                                          *)

\* The loop of record leaves the times from the first fresh one on.
LEMMA DropExpiredCuts ==
    ASSUME NEW times \in Seq(Nat), NEW limit \in Int,
           \E i \in 1 .. Len(times) : times[i] >= limit
    PROVE  \E m \in 1 .. Len(times) :
              /\ DropExpired(times, limit) = SubSeq(times, m, Len(times))
              /\ times[m] >= limit
              /\ \A i \in 1 .. m - 1 : times[i] < limit
<1> DEFINE fresh == {i \in DOMAIN times : times[i] >= limit}
<1>1. DropExpired(times, limit) =
        IF fresh = {} THEN <<>> ELSE SubSeq(times, Min(fresh), Len(times))
  BY Zenon DEF DropExpired
<1>2. Len(times) \in Nat /\ DOMAIN times = 1 .. Len(times)
  BY LenProperties
<1>3. fresh \subseteq Nat /\ fresh # {}
  BY <1>2
<1>4. \A i \in 1 .. Len(times) : times[i] \in Nat
  BY ElementOfSeq
<1>5. PICK m \in fresh : \A i \in fresh : m <= i
  <2> HIDE DEF fresh
  <2> QED
    BY <1>3, LeastNatural
<1>6. Min(fresh) = m
  <2> HIDE DEF fresh
  <2>1. \A x \in fresh : (\A y \in fresh : x <= y) => x = m
    BY <1>3, <1>5
  <2>2. /\ Min(fresh) \in fresh
        /\ \A y \in fresh : Min(fresh) <= y
    BY <1>5, Zenon DEF Min
  <2> QED
    BY <2>1, <2>2
<1>7. m \in 1 .. Len(times) /\ times[m] >= limit
  BY <1>2
<1>8. \A i \in 1 .. m - 1 : times[i] < limit
  BY <1>2, <1>4, <1>5
<1>9. DropExpired(times, limit) = SubSeq(times, m, Len(times))
  <2> HIDE DEF fresh
  <2> QED
    BY <1>1, <1>3, <1>6
<1> QED
  BY <1>7, <1>8, <1>9

\* What is left is a sequence again.
LEMMA DropExpiredType ==
    ASSUME NEW times \in Seq(Nat), NEW limit \in Int
    PROVE  DropExpired(times, limit) \in Seq(Nat)
<1>1. Len(times) \in Nat /\ DOMAIN times = 1 .. Len(times)
  BY LenProperties
<1>2. CASE \E i \in 1 .. Len(times) : times[i] >= limit
  <2>1. PICK m \in 1 .. Len(times) :
            DropExpired(times, limit) = SubSeq(times, m, Len(times))
    BY <1>2, DropExpiredCuts
  <2>2. m \in Int /\ \A i \in m .. Len(times) : times[i] \in Nat
    BY <1>1, ElementOfSeq
  <2> QED
    BY <1>1, <2>1, <2>2, SubSeqProperties
<1>3. CASE ~ \E i \in 1 .. Len(times) : times[i] >= limit
  <2>1. {i \in DOMAIN times : times[i] >= limit} = {}
    BY <1>1, <1>3
  <2>2. DropExpired(times, limit) = <<>>
    BY <2>1 DEF DropExpired
  <2> QED
    BY <2>2
<1> QED
  BY <1>2, <1>3

\* A detection keeps the types of the tracker.
LEMMA RecordType ==
    ASSUME TrackerTypeOK, NEW k, Record(k)
    PROVE  TrackerTypeOK'
<1>1. now \in Nat /\ now - RepeatWindow \in Int
  BY TrackerAssumption DEF TrackerTypeOK
<1>2. \A s \in Seq(Nat) : /\ Append(s, now) \in Seq(Nat)
                          /\ DropExpired(Append(s, now), now - RepeatWindow)
                               \in Seq(Nat)
  BY <1>1, AppendProperties, DropExpiredType
<1>3. history' \in [OwnerKeys -> Seq(Nat)]
  BY <1>2 DEF Record, TrackerTypeOK
<1>4. recorded' \in [OwnerKeys -> Seq(Nat)]
  BY <1>2 DEF Record, TrackerTypeOK
<1> QED
  BY <1>1, <1>3, <1>4 DEF Record, TrackerTypeOK

-----------------------------------------------------------------------------
(* The deque and what was recorded.                                        *)

\* The times are in order, and none is later than t.
InOrder(times, t) ==
    /\ \A i, j \in 1 .. Len(times) : i <= j => times[i] <= times[j]
    /\ \A i \in 1 .. Len(times) : times[i] <= t

\* kept is all from times but the first ones, which are before the window
\* that ends at t.
KeepsWindow(kept, times, t) ==
    LET gone == Len(times) - Len(kept)
    IN  /\ gone >= 0
        /\ \A i \in 1 .. Len(kept) : kept[i] = times[gone + i]
        /\ \A i \in 1 .. gone : times[i] < t - RepeatWindow

\* The inductive invariant: nothing is lost of the deque but what is too old
\* to count, now and at any later time.
TrackerInv ==
    \A k \in OwnerKeys :
        /\ InOrder(recorded[k], now)
        /\ KeepsWindow(history[k], recorded[k], now)

\* A detection, recorded and counted as record does.  The last two facts say
\* what is left: all in the window, and none else.
LEMMA CountingCuts ==
    ASSUME NEW times \in Seq(Nat), NEW kept \in Seq(Nat), NEW t \in Nat,
           InOrder(times, t), KeepsWindow(kept, times, t),
           NEW after, after = Append(times, t),
           NEW left, left = DropExpired(Append(kept, t), t - RepeatWindow)
    PROVE  /\ InOrder(after, t)
           /\ KeepsWindow(left, after, t)
           /\ Len(left) \in 1 .. Len(after)
           /\ \A i \in Len(after) - Len(left) + 1 .. Len(after) :
                 after[i] >= t - RepeatWindow
<1> DEFINE limit == t - RepeatWindow
           grown == Append(kept, t)
           gone == Len(times) - Len(kept)
<1>1. /\ Len(times) \in Nat
      /\ Len(kept) \in Nat
      /\ \A i \in 1 .. Len(times) : times[i] \in Nat
      /\ \A i \in 1 .. Len(kept) : kept[i] \in Nat
  BY LenProperties, ElementOfSeq
<1>2. /\ grown \in Seq(Nat)
      /\ Len(grown) = Len(kept) + 1
      /\ grown[Len(kept) + 1] = t
      /\ \A i \in 1 .. Len(kept) : grown[i] = kept[i]
  BY AppendProperties
<1>3. /\ after \in Seq(Nat)
      /\ Len(after) = Len(times) + 1
      /\ after[Len(times) + 1] = t
      /\ \A i \in 1 .. Len(times) : after[i] = times[i]
  BY AppendProperties
<1>4. limit \in Int /\ limit <= t
  BY TrackerAssumption
<1> HIDE DEF grown
<1>5. PICK m \in 1 .. Len(grown) :
        /\ left = SubSeq(grown, m, Len(grown))
        /\ grown[m] >= limit
        /\ \A i \in 1 .. m - 1 : grown[i] < limit
  <2>1. grown[Len(grown)] >= limit /\ Len(grown) \in 1 .. Len(grown)
    BY <1>1, <1>2, <1>4
  <2>2. left = DropExpired(grown, limit)
    BY DEF grown
  <2> HIDE DEF limit
  <2> QED
    BY <1>2, <1>4, <2>1, <2>2, DropExpiredCuts
<1> HIDE DEF limit
<1>6. /\ Len(left) = Len(grown) - m + 1
      /\ \A i \in 1 .. Len(grown) - m + 1 : left[i] = grown[m + i - 1]
  <2>1. /\ m \in Int /\ Len(grown) \in Int /\ m <= Len(grown)
        /\ \A i \in m .. Len(grown) : grown[i] \in Nat
    BY <1>1, <1>2
  <2>2. /\ Len(left) = IF m <= Len(grown) THEN Len(grown) - m + 1 ELSE 0
        /\ \A i \in 1 .. Len(grown) - m + 1 : left[i] = grown[m + i - 1]
    <3>1. \A n \in Int :
            (\A i \in m .. n : grown[i] \in Nat) =>
               /\ Len(SubSeq(grown, m, n)) = IF m <= n THEN n - m + 1 ELSE 0
               /\ \A i \in 1 .. n - m + 1 :
                     SubSeq(grown, m, n)[i] = grown[m + i - 1]
      BY <2>1, SubSeqProperties
    <3> QED
      BY <1>5, <2>1, <3>1, Zenon
  <2> QED
    BY <2>1, <2>2
<1>7. gone \in Nat /\ Len(times) = gone + Len(kept)
  BY <1>1 DEF KeepsWindow
<1> HIDE DEF gone
<1>8. Len(after) - Len(left) = gone + m - 1
  <2>1. m \in Int /\ gone \in Int /\ Len(kept) \in Int
    BY <1>1, <1>2, <1>5, <1>7
  <2>2. Len(after) = gone + Len(kept) + 1
    BY <1>3, <1>7
  <2>3. Len(left) = Len(kept) + 2 - m
    BY <1>2, <1>6, <2>1
  <2>4. \A a, b, c \in Int : (a + b + 1) - (b + 2 - c) = a + c - 1
    OBVIOUS
  <2>5. (gone + Len(kept) + 1) - (Len(kept) + 2 - m) = gone + m - 1
    BY <2>1, <2>4
  <2> QED
    BY <2>2, <2>3, <2>5
<1>9. \A i \in 1 .. Len(kept) + 1 : grown[i] = after[gone + i]
  <2>1. \A i \in 1 .. Len(kept) : kept[i] = times[gone + i]
    BY DEF KeepsWindow, gone
  <2>2. \A i \in 1 .. Len(kept) : gone + i \in 1 .. Len(times)
    BY <1>1, <1>7
  <2>3. \A i \in 1 .. Len(kept) : grown[i] = after[gone + i]
    BY <1>2, <1>3, <2>1, <2>2
  <2>4. grown[Len(kept) + 1] = after[gone + (Len(kept) + 1)]
    BY <1>1, <1>2, <1>3, <1>7
  <2>5. \A i \in 1 .. Len(kept) + 1 : i \in 1 .. Len(kept) \/ i = Len(kept) + 1
    BY <1>1
  <2> QED
    BY <2>3, <2>4, <2>5
<1>10. InOrder(after, t)
  <2>1. \A i \in 1 .. Len(after) : i \in 1 .. Len(times) \/ i = Len(times) + 1
    BY <1>1, <1>3
  <2>2. \A i \in 1 .. Len(after) : after[i] <= t
    BY <1>3, <2>1 DEF InOrder
  <2>3. ASSUME NEW i \in 1 .. Len(after), NEW j \in 1 .. Len(after), i <= j
        PROVE  after[i] <= after[j]
    <3>1. CASE j = Len(times) + 1
      BY <1>3, <2>2, <3>1
    <3>2. CASE j \in 1 .. Len(times)
      <4>1. i \in 1 .. Len(times)
        BY <1>1, <2>3, <3>2
      <4> QED
        BY <1>3, <2>3, <3>2, <4>1 DEF InOrder
    <3> QED
      BY <2>1, <3>1, <3>2
  <2> QED
    BY <2>2, <2>3 DEF InOrder
<1>11. \A i \in 1 .. Len(left) : left[i] = after[(gone + m - 1) + i]
  <2> SUFFICES ASSUME NEW i \in 1 .. Len(left)
               PROVE  left[i] = after[(gone + m - 1) + i]
    OBVIOUS
  <2>1. m + i - 1 \in 1 .. Len(kept) + 1
    BY <1>1, <1>2, <1>5, <1>6
  <2>2. left[i] = grown[m + i - 1]
    BY <1>6
  <2>3. gone + (m + i - 1) = (gone + m - 1) + i
    BY <1>5, <1>7, <1>6
  <2> QED
    BY <1>9, <2>1, <2>2, <2>3
<1>12. \A i \in 1 .. gone + m - 1 : after[i] < limit
  <2> SUFFICES ASSUME NEW i \in 1 .. gone + m - 1 PROVE after[i] < limit
    OBVIOUS
  <2>1. CASE i <= gone
    <3>1. i \in 1 .. Len(times) /\ i \in 1 .. gone
      BY <1>1, <1>5, <1>7, <2>1
    <3>2. times[i] < limit
      BY <3>1 DEF KeepsWindow, gone, limit
    <3> QED
      BY <1>3, <3>1, <3>2
  <2>2. CASE i > gone
    <3>1. i - gone \in 1 .. m - 1 /\ i - gone \in 1 .. Len(kept) + 1
          /\ gone + (i - gone) = i
      BY <1>1, <1>2, <1>5, <1>7, <2>2
    <3>2. grown[i - gone] < limit
      BY <1>5, <3>1
    <3> QED
      BY <1>9, <3>1, <3>2
  <2>3. i <= gone \/ i > gone
    BY <1>7
  <2> QED
    BY <2>1, <2>2, <2>3
<1>13. \A i \in gone + m .. Len(after) : after[i] >= limit
  <2> SUFFICES ASSUME NEW i \in gone + m .. Len(after)
               PROVE  after[i] >= limit
    OBVIOUS
  <2>1. after[gone + m] >= limit
    BY <1>2, <1>5, <1>9
  <2>2. /\ gone + m \in 1 .. Len(after) /\ i \in 1 .. Len(after)
        /\ gone + m <= i
    BY <1>1, <1>3, <1>5, <1>7
  <2>3. after[gone + m] <= after[i]
    BY <1>10, <2>2 DEF InOrder
  <2>4. after[gone + m] \in Nat /\ after[i] \in Nat
    BY <1>3, <2>2, ElementOfSeq
  <2>5. \A x, y \in Nat : x >= limit /\ x <= y => y >= limit
    BY <1>4
  <2> QED
    BY <2>1, <2>3, <2>4, <2>5
<1>14. Len(left) \in 1 .. Len(after)
  BY <1>1, <1>2, <1>3, <1>5, <1>6, <1>7
<1>15. KeepsWindow(left, after, t)
  <2>1. gone + m - 1 >= 0
    BY <1>5, <1>7
  <2> QED
    BY <1>8, <1>11, <1>12, <2>1 DEF KeepsWindow, limit
<1>16. \A i \in Len(after) - Len(left) + 1 .. Len(after) : after[i] >= limit
  <2>1. Len(after) - Len(left) + 1 = gone + m
    BY <1>5, <1>7, <1>8
  <2> QED
    BY <1>13, <2>1
<1> QED
  BY <1>10, <1>14, <1>15, <1>16 DEF limit

\* What a detection of k does to each key: only k is recorded and counted.
LEMMA RecordedKeys ==
    ASSUME TrackerTypeOK, NEW k, Record(k), NEW j \in OwnerKeys
    PROVE  /\ now' = now
           /\ \/ /\ recorded'[j] = Append(recorded[j], now)
                 /\ history'[j] = DropExpired(Append(history[j], now),
                                              now - RepeatWindow)
              \/ UNCHANGED <<recorded[j], history[j]>>
<1>1. /\ now' = now
      /\ history' = [history EXCEPT ![k] = DropExpired(Append(@, now),
                                                       now - RepeatWindow)]
      /\ recorded' = [recorded EXCEPT ![k] = Append(@, now)]
  BY DEF Record
<1>2. history \in [OwnerKeys -> Seq(Nat)] /\ recorded \in [OwnerKeys -> Seq(Nat)]
  BY DEF TrackerTypeOK
<1>3. CASE j = k
  BY <1>1, <1>2, <1>3, Zenon
<1>4. CASE j # k
  BY <1>1, <1>2, <1>4, Zenon
<1> QED
  BY <1>1, <1>3, <1>4, Zenon

\* A detection keeps the invariant.
LEMMA RecordInv ==
    ASSUME TrackerTypeOK, TrackerInv, NEW k, Record(k)
    PROVE  TrackerInv'
<1> SUFFICES ASSUME NEW j \in OwnerKeys
             PROVE  /\ InOrder(recorded'[j], now')
                    /\ KeepsWindow(history'[j], recorded'[j], now')
  BY DEF TrackerInv, InOrder, KeepsWindow
<1>1. /\ history[j] \in Seq(Nat) /\ recorded[j] \in Seq(Nat) /\ now \in Nat
      /\ InOrder(recorded[j], now)
      /\ KeepsWindow(history[j], recorded[j], now)
  BY DEF TrackerTypeOK, TrackerInv
<1>2. CASE /\ recorded'[j] = Append(recorded[j], now)
           /\ history'[j] = DropExpired(Append(history[j], now),
                                        now - RepeatWindow)
  <2>1. /\ InOrder(recorded'[j], now)
        /\ KeepsWindow(history'[j], recorded'[j], now)
    BY <1>1, <1>2, CountingCuts
  <2> QED
    BY <2>1, RecordedKeys
<1>3. CASE UNCHANGED <<recorded[j], history[j]>>
  BY <1>1, <1>3, RecordedKeys
<1> QED
  BY <1>2, <1>3, RecordedKeys, Zenon

\* So does the clock: what is too old stays too old.
LEMMA TickInv ==
    ASSUME TrackerTypeOK, TrackerInv, Tick
    PROVE  TrackerInv'
<1>1. /\ now \in Nat /\ now' = now + 1 /\ RepeatWindow \in Nat
      /\ history' = history /\ recorded' = recorded
  BY TrackerAssumption DEF TrackerTypeOK, Tick
<1> SUFFICES ASSUME NEW j \in OwnerKeys
             PROVE  /\ InOrder(recorded[j], now')
                    /\ KeepsWindow(history[j], recorded[j], now')
  BY <1>1 DEF TrackerInv, InOrder, KeepsWindow
<1>2. /\ history[j] \in Seq(Nat) /\ recorded[j] \in Seq(Nat)
      /\ InOrder(recorded[j], now)
      /\ KeepsWindow(history[j], recorded[j], now)
  BY DEF TrackerTypeOK, TrackerInv
<1>3. /\ Len(history[j]) \in Nat /\ Len(recorded[j]) \in Nat
      /\ \A i \in 1 .. Len(recorded[j]) : recorded[j][i] \in Nat
  BY <1>2, LenProperties, ElementOfSeq
<1>4. InOrder(recorded[j], now')
  BY <1>1, <1>2, <1>3 DEF InOrder
<1>5. \A i \in 1 .. Len(recorded[j]) - Len(history[j]) :
          recorded[j][i] < now' - RepeatWindow
  <2> SUFFICES ASSUME NEW i \in 1 .. Len(recorded[j]) - Len(history[j])
               PROVE  recorded[j][i] < now' - RepeatWindow
    OBVIOUS
  <2>1. recorded[j][i] < now - RepeatWindow
    BY <1>2 DEF KeepsWindow
  <2>2. i \in 1 .. Len(recorded[j])
    BY <1>3
  <2>3. recorded[j][i] \in Nat
    BY <1>3, <2>2
  <2> QED
    BY <1>1, <2>1, <2>3
<1> QED
  BY <1>2, <1>4, <1>5 DEF KeepsWindow

\* A tracker that has recorded nothing satisfies the invariant: this is how
\* the agent starts, for the first time and again.
LEMMA NothingRecorded ==
    /\ TrackerInit => TrackerInv
    /\ history' = [k \in OwnerKeys |-> <<>>] /\
       recorded' = [k \in OwnerKeys |-> <<>>] => TrackerInv'
<1>1. \A t : InOrder(<<>>, t) /\ KeepsWindow(<<>>, <<>>, t)
  BY DEF InOrder, KeepsWindow
<1>2. TrackerInit => TrackerInv
  BY <1>1 DEF TrackerInit, TrackerInv
<1>3. ASSUME history' = [k \in OwnerKeys |-> <<>>],
             recorded' = [k \in OwnerKeys |-> <<>>]
      PROVE  TrackerInv'
  BY <1>1, <1>3 DEF TrackerInv, InOrder, KeepsWindow
<1> QED
  BY <1>2, <1>3

-----------------------------------------------------------------------------
(* What the count means.                                                   *)

\* The count is the number of detections in the window, and when it reaches
\* the threshold there was a burst.
LEMMA CountMeaning ==
    ASSUME TrackerTypeOK, TrackerInv, NEW k, Record(k),
           NEW j \in OwnerKeys, Detected(j)
    PROVE  /\ Len(history'[j]) = Cardinality(Recent(j))
           /\ Escalates(j) =>
                 LET last == Len(recorded'[j])
                     first == last - RepeatThreshold + 1
                 IN  /\ first >= 1
                     /\ recorded'[j][last] - recorded'[j][first] <= RepeatWindow
<1> DEFINE after == recorded'[j]
           left == history'[j]
           limit == now - RepeatWindow
<1>1. /\ history[j] \in Seq(Nat) /\ recorded[j] \in Seq(Nat) /\ now \in Nat
      /\ InOrder(recorded[j], now)
      /\ KeepsWindow(history[j], recorded[j], now)
  BY DEF TrackerTypeOK, TrackerInv
<1>2. /\ after = Append(recorded[j], now)
      /\ left = DropExpired(Append(history[j], now), limit)
  <2>1. Len(recorded[j]) \in Nat
    BY <1>1, LenProperties
  <2>2. recorded'[j] # recorded[j]
    BY <2>1 DEF Detected
  <2> QED
    BY <2>2, RecordedKeys
<1>3. after \in Seq(Nat) /\ Len(after) \in Nat
  BY <1>1, <1>2, AppendProperties, LenProperties
<1>4. limit \in Int
  BY <1>1, TrackerAssumption
<1>5. /\ InOrder(after, now)
      /\ KeepsWindow(left, after, now)
      /\ Len(left) \in 1 .. Len(after)
      /\ \A i \in Len(after) - Len(left) + 1 .. Len(after) : after[i] >= limit
  BY <1>1, <1>2, CountingCuts
<1>6. DOMAIN after = 1 .. Len(after) /\ \A i \in 1 .. Len(after) : after[i] \in Nat
  BY <1>3, LenProperties, ElementOfSeq
<1>7. \A i \in 1 .. Len(after) - Len(left) : after[i] < limit
  BY <1>5 DEF KeepsWindow
<1>8. Recent(j) = {i \in DOMAIN after : after[i] >= limit}
  BY DEF Recent
<1> HIDE DEF after, left, limit
<1>9. Len(left) = Cardinality(Recent(j))
  <2>1. ASSUME NEW i \in 1 .. Len(after)
        PROVE  after[i] >= limit <=> i \in Len(after) - Len(left) + 1 .. Len(after)
    <3>1. \/ i \in 1 .. Len(after) - Len(left)
          \/ i \in Len(after) - Len(left) + 1 .. Len(after)
      BY <1>3, <1>5
    <3>2. i \in 1 .. Len(after) - Len(left) =>
             i \notin Len(after) - Len(left) + 1 .. Len(after)
      BY <1>3, <1>5
    <3>3. after[i] < limit => ~(after[i] >= limit)
      BY <1>4, <1>6
    <3> QED
      BY <1>5, <1>7, <3>1, <3>2, <3>3, Zenon
  <2>2. Len(after) - Len(left) + 1 .. Len(after) \subseteq 1 .. Len(after)
    BY <1>3, <1>5
  <2>3. Recent(j) = Len(after) - Len(left) + 1 .. Len(after)
    BY <1>6, <1>8, <2>1, <2>2, Zenon
  <2>4. /\ Len(after) - Len(left) + 1 \in Int
        /\ Len(after) - Len(left) + 1 <= Len(after)
        /\ Len(after) - (Len(after) - Len(left) + 1) + 1 = Len(left)
    BY <1>3, <1>5
  <2>5. \A a \in Int : a <= Len(after) =>
           Cardinality(a .. Len(after)) = Len(after) - a + 1
    BY <1>3, FS_Interval
  <2> QED
    BY <2>3, <2>4, <2>5
<1>10. ASSUME Len(left) >= RepeatThreshold
       PROVE  /\ Len(after) - RepeatThreshold + 1 >= 1
              /\ after[Len(after)] - after[Len(after) - RepeatThreshold + 1]
                    <= RepeatWindow
  <2> DEFINE first == Len(after) - RepeatThreshold + 1
  <2>1. RepeatThreshold \in Nat \ {0} /\ RepeatWindow \in Nat
    BY TrackerAssumption
  <2>2. /\ first \in Len(after) - Len(left) + 1 .. Len(after)
        /\ first \in 1 .. Len(after)
        /\ Len(after) \in 1 .. Len(after)
    BY <1>3, <1>5, <1>10, <2>1
  <2> HIDE DEF first
  <2>3. after[first] >= limit
    BY <1>5, <2>2
  <2>4. after[Len(after)] <= now
    BY <1>5, <2>2 DEF InOrder
  <2>5. after[first] \in Nat /\ after[Len(after)] \in Nat
    BY <1>6, <2>2
  <2>6. after[Len(after)] - after[first] <= RepeatWindow
    BY <1>1, <2>1, <2>3, <2>4, <2>5 DEF limit
  <2>7. first >= 1
    BY <2>2
  <2> QED
    BY <2>6, <2>7 DEF first
<1> QED
  BY <1>9, <1>10 DEF Escalates, after, left

-----------------------------------------------------------------------------
(* Types.                                                                  *)

\* Keys of pods are what requests are made of.
LEMMA JobKey == ASSUME KillerTypeOK PROVE jobPod \in Pods /\ jobKey \in Keys
  BY ClusterAssumption DEF KillerTypeOK, jobPod, jobKey, Keys

\* Counting a detection, or not, keeps the types of the tracker.
LEMMA CountedType ==
    ASSUME TrackerTypeOK, NEW c, Counted(c)
    PROVE  TrackerTypeOK'
<1>1. CASE Record(OwnerKey(c))
  BY <1>1, RecordType, Zenon
<1>2. CASE UNCHANGED trackerVars
  BY <1>2 DEF trackerVars, TrackerTypeOK
<1> QED
  BY <1>1, <1>2, Zenon DEF Counted

\* A call of handle_kill that ends in its checks keeps the types.
LEMMA SparesType ==
    ASSUME TypeOK, NEW c \in Cgroups, HandleKillSpares(c)
    PROVE  TypeOK'
<1>1. ClusterTypeOK'
  BY DEF TypeOK, ClusterTypeOK, HandleKillSpares, clusterVars
<1>2. ResolverTypeOK'
  BY ResolveType, Zenon DEF TypeOK, HandleKillSpares
<1>3. TrackerTypeOK'
  <2>1. CASE UNCHANGED trackerVars
    BY <2>1 DEF TypeOK, TrackerTypeOK, trackerVars
  <2>2. CASE Counted(c)
    BY <2>2, CountedType, Zenon DEF TypeOK
  <2> QED
    BY <2>1, <2>2, Zenon DEF HandleKillSpares
<1>4. KillerTypeOK'
  BY DEF TypeOK, KillerTypeOK, HandleKillSpares, killerVars, pollVars,
         workerVars, historyVars
<1> QED
  BY <1>1, <1>2, <1>3, <1>4 DEF TypeOK

\* A call of handle_kill that gets past its checks keeps the types.
LEMMA ProceedsType ==
    ASSUME TypeOK, NEW c \in Cgroups, HandleKillProceeds(c)
    PROVE  TypeOK'
<1>1. ClusterTypeOK'
  BY DEF TypeOK, ClusterTypeOK, HandleKillProceeds, clusterVars
<1>2. ResolverTypeOK'
  BY ResolveType, Zenon DEF TypeOK, HandleKillProceeds
<1>3. TrackerTypeOK'
  BY CountedType, Zenon DEF TypeOK, HandleKillProceeds
<1>4. KillerTypeOK'
  BY ClusterAssumption DEF TypeOK, KillerTypeOK, HandleKillProceeds, workerVars
<1> QED
  BY <1>1, <1>2, <1>3, <1>4 DEF TypeOK

\* The rest of handle_kill keeps the types.
LEMMA PollStepType == TypeOK /\ PollStep => TypeOK'
<1> SUFFICES ASSUME TypeOK, PollStep PROVE TypeOK'
  OBVIOUS
<1>1. jobKey \in Keys
  BY JobKey DEF TypeOK
<1>2. ResolverTypeOK' /\ TrackerTypeOK'
  BY DEF PollStep, CgroupKill, Dedup, Put, Discard, Return, TypeOK,
         ResolverTypeOK, TrackerTypeOK, resolverVars, cacheVars, syncVars,
         trackerVars
<1>3. ClusterTypeOK'
  BY DEF PollStep, CgroupKill, Dedup, Put, Discard, Return, TypeOK,
         ClusterTypeOK, ProcStates, clusterVars
<1> HIDE DEF jobKey
<1>4. KillerTypeOK'
  <2> USE DEF TypeOK, KillerTypeOK, workerVars, historyVars
  <2>1. CASE CgroupKill
    BY <2>1 DEF CgroupKill
  <2>2. CASE Dedup
    BY <1>1, <2>2, JobKey DEF Dedup
  <2>3. CASE Put
    <3>1. CASE Len(queue) < QueueSize /\ queue' = Append(queue, jobKey)
      <4>1. queue' \in Seq(Keys) /\ Len(queue') = Len(queue) + 1
        BY <1>1, <3>1, AppendProperties
      <4>2. Len(queue') <= QueueSize
        BY <3>1, <4>1, KillerAssumption, LenProperties
      <4> QED
        BY <2>3, <4>1, <4>2 DEF Put
    <3>2. CASE UNCHANGED queue
      BY <2>3, <3>2 DEF Put
    <3> QED
      BY <2>3, <3>1, <3>2 DEF Put
  <2>4. CASE Discard
    BY <2>4, JobKey DEF Discard, Answer
  <2>5. CASE Return
    BY <2>5 DEF Return
  <2> QED
    BY <2>1, <2>2, <2>3, <2>4, <2>5 DEF PollStep
<1> QED
  BY <1>2, <1>3, <1>4 DEF TypeOK

\* A step of a worker keeps the types.
LEMMA WorkerStepType ==
    ASSUME TypeOK, NEW w \in Workers, WorkerStep(w)
    PROVE  TypeOK'
<1>1. ResolverTypeOK' /\ TrackerTypeOK'
  BY DEF WorkerStep, Get, Delete, Finish, TypeOK, ResolverTypeOK,
         TrackerTypeOK, resolverVars, cacheVars, syncVars, trackerVars
<1>2. ClusterTypeOK'
  BY DEF WorkerStep, Get, Delete, Finish, TypeOK, ClusterTypeOK, clusterVars
<1>3. KillerTypeOK'
  <2> USE DEF TypeOK, KillerTypeOK, pollVars, historyVars
  <2>1. CASE Get(w)
    <3>1. queue \in Seq(Keys) /\ queue # <<>>
      BY <2>1 DEF Get
    <3>2. /\ Head(queue) \in Keys
          /\ Tail(queue) \in Seq(Keys)
          /\ Len(Tail(queue)) = Len(queue) - 1
      BY <3>1, HeadTailProperties
    <3>3. Len(Tail(queue)) <= QueueSize
      BY <3>1, <3>2, LenProperties, KillerAssumption
    <3> QED
      BY <2>1, <3>2, <3>3 DEF Get
  <2>2. CASE Delete(w)
    BY <2>2 DEF Delete, Answer, ClusterTypeOK
  <2>3. CASE Finish(w)
    BY <2>3 DEF Finish
  <2> QED
    BY <2>1, <2>2, <2>3 DEF WorkerStep
<1> QED
  BY <1>1, <1>2, <1>3 DEF TypeOK

\* The state of a new agent has the types: what is gone is gone, and the
\* cluster goes on as it was.
LEMMA RestartType == TypeOK /\ Restart => TypeOK'
<1> SUFFICES ASSUME TypeOK, Restart PROVE TypeOK'
  OBVIOUS
<1>1. ClusterTypeOK' /\ ResolverTypeOK'
  BY DEF TypeOK, Restart, ResolverReset, ClusterTypeOK, ResolverTypeOK,
         clusterVars
<1>2. TrackerTypeOK'
  BY DEF TypeOK, Restart, TrackerTypeOK
<1>3. KillerTypeOK'
  <2>1. queue' \in Seq(Keys) /\ Len(queue') <= QueueSize
    BY KillerAssumption DEF Restart
  <2> QED
    BY <2>1 DEF TypeOK, Restart, KillerTypeOK
<1> QED
  BY <1>1, <1>2, <1>3 DEF TypeOK

\* Every action keeps the types of the variables.
LEMMA TypeStep == TypeOK /\ [Next]_vars => TypeOK'
<1> SUFFICES ASSUME TypeOK, [Next]_vars PROVE TypeOK'
  OBVIOUS
<1>1. CASE ClusterNext /\ UNCHANGED <<resolverVars, trackerVars, killerVars>>
  BY <1>1, ClusterType DEF TypeOK, ResolverTypeOK, TrackerTypeOK, KillerTypeOK,
     resolverVars, cacheVars, syncVars, trackerVars, killerVars, pollVars,
     workerVars, historyVars
<1>2. CASE SyncNext /\ UNCHANGED <<trackerVars, killerVars>>
  BY <1>2, SyncType DEF TypeOK, TrackerTypeOK, KillerTypeOK, trackerVars,
     killerVars, pollVars, workerVars, historyVars
<1>3. CASE Tick /\ UNCHANGED <<clusterVars, resolverVars, killerVars>>
  BY <1>3 DEF Tick, TypeOK, ClusterTypeOK, ResolverTypeOK, TrackerTypeOK,
     KillerTypeOK, clusterVars, resolverVars, cacheVars, syncVars, killerVars,
     pollVars, workerVars, historyVars
<1>4. CASE HandleKill
  BY <1>4, SparesType, ProceedsType DEF HandleKill
<1>5. CASE PollStep
  BY <1>5, PollStepType
<1>6. CASE \E w \in Workers : WorkerStep(w)
  BY <1>6, WorkerStepType
<1>7. CASE Restart
  BY <1>7, RestartType
<1>8. CASE UNCHANGED vars
  BY <1>8 DEF TypeOK, ClusterTypeOK, ResolverTypeOK, TrackerTypeOK,
     KillerTypeOK, vars, clusterVars, resolverVars, cacheVars, syncVars,
     trackerVars, killerVars, pollVars, workerVars, historyVars
<1> QED
  BY <1>1, <1>2, <1>3, <1>4, <1>5, <1>6, <1>7, <1>8
     DEF Next, Surroundings

\* The initial states have the types.
LEMMA TypeInit == Init => TypeOK
<1> SUFFICES ASSUME Init PROVE TypeOK
  OBVIOUS
<1>1. ClusterTypeOK /\ ResolverTypeOK
  BY DEF Init, ClusterInit, ResolverInit, ClusterTypeOK, ProcStates,
         ResolverTypeOK
<1>2. TrackerTypeOK
  BY DEF Init, TrackerInit, TrackerTypeOK
<1>3. KillerTypeOK
  <2>1. queue = <<>> /\ QueueSize \in Nat
    BY KillerAssumption DEF Init, KillerInit
  <2>2. queue \in Seq(Keys) /\ Len(queue) <= QueueSize
    BY <2>1
  <2> QED
    BY <2>2 DEF Init, KillerInit, KillerTypeOK
<1> QED
  BY <1>1, <1>2, <1>3 DEF TypeOK

\* The caches, the queue, the marks and the workers always hold what the code
\* expects of them; the queue never holds more than its maxsize.
THEOREM TypeCorrect == Spec => []TypeOK
  BY TypeInit, TypeStep, PTL DEF Spec

-----------------------------------------------------------------------------
(* The bookkeeping of requests.                                            *)

\* The three places a request can be in.
Asked == IF pc \in {"put", "full"} THEN {jobKey} ELSE {}
Queued == {queue[i] : i \in DOMAIN queue}
HeldKeys == {wkey[w] : w \in Busy}

\* A sequence without repetition.
Distinct(s) == \A i, j \in DOMAIN s : s[i] = s[j] => i = j

\* What is in the queue after put_nowait.
LEMMA PutQueue ==
    ASSUME NEW S, NEW s \in Seq(S), NEW e \in S
    PROVE  /\ {Append(s, e)[i] : i \in DOMAIN Append(s, e)}
                = {s[i] : i \in DOMAIN s} \cup {e}
           /\ Distinct(s) /\ e \notin {s[i] : i \in DOMAIN s}
                => Distinct(Append(s, e))
<1> DEFINE t == Append(s, e)
<1>1. /\ Len(s) \in Nat
      /\ Len(t) = Len(s) + 1
      /\ DOMAIN s = 1 .. Len(s)
      /\ DOMAIN t = 1 .. Len(s) + 1
      /\ t[Len(s) + 1] = e
      /\ \A i \in 1 .. Len(s) : t[i] = s[i]
  BY AppendProperties, LenProperties
<1> HIDE DEF t
<1>2. {t[i] : i \in DOMAIN t} = {s[i] : i \in DOMAIN s} \cup {e}
  BY <1>1
<1>3. Distinct(s) /\ e \notin {s[i] : i \in DOMAIN s} => Distinct(t)
  BY <1>1 DEF Distinct
<1> QED
  BY <1>2, <1>3 DEF t

\* What is in the queue after get.
LEMMA GetQueue ==
    ASSUME NEW S, NEW s \in Seq(S), s # <<>>
    PROVE  /\ {s[i] : i \in DOMAIN s}
                = {Tail(s)[i] : i \in DOMAIN Tail(s)} \cup {Head(s)}
           /\ Distinct(s) => /\ Distinct(Tail(s))
                             /\ Head(s) \notin {Tail(s)[i] : i \in DOMAIN Tail(s)}
<1> DEFINE t == Tail(s)
<1>1. /\ Len(s) \in Nat \ {0}
      /\ DOMAIN s = 1 .. Len(s)
      /\ DOMAIN t = 1 .. Len(s) - 1
      /\ Head(s) = s[1]
      /\ \A i \in 1 .. Len(s) - 1 : t[i] = s[i + 1]
  BY HeadTailProperties, LenProperties, EmptySeq
<1> HIDE DEF t
<1>2. {s[i] : i \in DOMAIN s} = {t[i] : i \in DOMAIN t} \cup {Head(s)}
  <2>1. \A i \in DOMAIN s : i = 1 \/ (i - 1 \in DOMAIN t /\ s[i] = t[i - 1])
    BY <1>1
  <2>2. \A i \in DOMAIN t : i + 1 \in DOMAIN s /\ t[i] = s[i + 1]
    BY <1>1
  <2>3. 1 \in DOMAIN s
    BY <1>1
  <2> QED
    BY <1>1, <2>1, <2>2, <2>3
<1>3. ASSUME Distinct(s)
      PROVE  Distinct(t) /\ Head(s) \notin {t[i] : i \in DOMAIN t}
  <2>1. \A i, j \in 1 .. Len(s) : s[i] = s[j] => i = j
    BY <1>1, <1>3 DEF Distinct
  <2>2. ASSUME NEW i \in DOMAIN t, NEW j \in DOMAIN t, t[i] = t[j] PROVE i = j
    <3>1. i + 1 \in 1 .. Len(s) /\ j + 1 \in 1 .. Len(s)
      BY <1>1
    <3>2. s[i + 1] = s[j + 1]
      BY <1>1, <2>2
    <3>3. i + 1 = j + 1
      BY <2>1, <3>1, <3>2
    <3> QED
      BY <1>1, <3>3
  <2>3. ASSUME NEW i \in DOMAIN t PROVE t[i] # Head(s)
    <3>1. i + 1 \in 1 .. Len(s) /\ 1 \in 1 .. Len(s) /\ i + 1 # 1
      BY <1>1
    <3>2. s[i + 1] # s[1]
      BY <2>1, <3>1
    <3> QED
      BY <1>1, <3>2
  <2> QED
    BY <2>2, <2>3 DEF Distinct
<1> QED
  BY <1>2, <1>3 DEF t

\* The two properties of requests, in terms of the three places.
Exact == in_flight = Asked \cup Queued \cup HeldKeys

Apart ==
    /\ Distinct(queue)
    /\ \A w, v \in Busy : wkey[w] = wkey[v] => w = v
    /\ Queued \cap HeldKeys = {}
    /\ Asked \cap (Queued \cup HeldKeys) = {}

\* They are the properties as K8sKiller states them.
LEMMA Restated == /\ InFlightExact <=> Exact
                  /\ NoDuplicateRequest <=> Apart
<1>1. InFlightExact <=> Exact
  BY DEF InFlightExact, Pending, Exact, Asked, Queued, HeldKeys
<1>2. NoDuplicateRequest <=> Apart
  BY DEF NoDuplicateRequest, Apart, Distinct, Asked, Queued, HeldKeys
<1> QED
  BY <1>1, <1>2

\* What no step of the cluster, of the CgroupSync thread or of the clock
\* changes, and no call of handle_kill that has just begun.
LEMMA Untouched ==
    ASSUME Exact, Apart, UNCHANGED <<queue, in_flight, wpc, wkey>>,
           \/ UNCHANGED <<pc, job>>
           \/ pc \notin {"put", "full"} /\ pc' \notin {"put", "full"}
    PROVE  Exact' /\ Apart'
<1>1. Asked' = Asked
  BY DEF Asked, jobKey, jobPod
<1>2. Queued' = Queued /\ Busy' = Busy
  BY DEF Queued, Busy
<1>3. HeldKeys' = HeldKeys
  BY <1>2 DEF HeldKeys
<1> QED
  BY <1>1, <1>2, <1>3 DEF Exact, Apart

\* The steps of handle_kill keep the bookkeeping.
LEMMA PollStepRequests ==
    ASSUME KillerTypeOK, Exact, Apart, PollStep
    PROVE  Exact' /\ Apart'
<1>1. CASE CgroupKill
  BY <1>1, Untouched DEF CgroupKill, workerVars
<1>2. CASE Return
  BY <1>2, Untouched DEF Return, workerVars
<1>3. CASE Dedup
  <2>1. UNCHANGED <<job, queue, wpc, wkey>> /\ Asked = {}
    BY <1>3 DEF Dedup, workerVars, Asked
  <2>2. Queued' = Queued /\ Busy' = Busy /\ HeldKeys' = HeldKeys /\ jobKey' = jobKey
    BY <2>1 DEF Queued, Busy, HeldKeys, jobKey, jobPod
  <2>3. CASE jobKey \in in_flight
    <3>1. Asked' = {} /\ in_flight' = in_flight
      BY <1>3, <2>3 DEF Dedup, Asked
    <3> QED
      BY <2>1, <2>2, <3>1 DEF Exact, Apart
  <2>4. CASE jobKey \notin in_flight
    <3>1. Asked' = {jobKey} /\ in_flight' = in_flight \cup {jobKey}
      BY <1>3, <2>2, <2>4 DEF Dedup, Asked
    <3>2. jobKey \notin Queued \cup HeldKeys
      BY <2>4 DEF Exact
    <3> QED
      BY <2>1, <2>2, <3>1, <3>2 DEF Exact, Apart
  <2> QED
    BY <2>3, <2>4
<1>4. CASE Put
  <2>1. UNCHANGED <<job, in_flight, wpc, wkey>> /\ Asked = {jobKey}
    BY <1>4 DEF Put, workerVars, Asked
  <2>2. Busy' = Busy /\ HeldKeys' = HeldKeys /\ jobKey' = jobKey
    BY <2>1 DEF Busy, HeldKeys, jobKey, jobPod
  <2>3. CASE Len(queue) < QueueSize
    <3>1. Asked' = {} /\ queue' = Append(queue, jobKey)
      BY <1>4, <2>3 DEF Put, Asked
    <3>2. /\ queue \in Seq(Keys)
          /\ jobKey \in Keys
          /\ jobKey \notin Queued \cup HeldKeys
          /\ Distinct(queue)
      BY JobKey, <2>1 DEF KillerTypeOK, Apart
    <3>3. Queued' = Queued \cup {jobKey} /\ Distinct(queue)'
      BY <3>1, <3>2, PutQueue DEF Queued, Distinct
    <3> QED
      BY <2>1, <2>2, <3>1, <3>2, <3>3 DEF Exact, Apart
  <2>4. CASE ~(Len(queue) < QueueSize)
    <3>1. Asked' = {jobKey} /\ UNCHANGED queue
      BY <1>4, <2>2, <2>4 DEF Put, Asked
    <3>2. Queued' = Queued
      BY <3>1 DEF Queued
    <3> QED
      BY <2>1, <2>2, <3>1, <3>2 DEF Exact, Apart
  <2> QED
    BY <2>3, <2>4
<1>5. CASE Discard
  <2>1. /\ UNCHANGED <<job, queue, wpc, wkey>>
        /\ in_flight' = in_flight \ {jobKey}
        /\ Asked = {jobKey} /\ Asked' = {}
    BY <1>5 DEF Discard, workerVars, Asked
  <2>2. Queued' = Queued /\ Busy' = Busy /\ HeldKeys' = HeldKeys
    BY <2>1 DEF Queued, Busy, HeldKeys
  <2> QED
    BY <2>1, <2>2 DEF Exact, Apart
<1> QED
  BY <1>1, <1>2, <1>3, <1>4, <1>5 DEF PollStep

\* The steps of a worker keep the bookkeeping.
LEMMA WorkerStepRequests ==
    ASSUME KillerTypeOK, Exact, Apart, NEW w \in Workers, WorkerStep(w)
    PROVE  Exact' /\ Apart'
<1>1. UNCHANGED <<pc, job>> /\ Asked' = Asked
  BY DEF WorkerStep, Get, Delete, Finish, pollVars, Asked, jobKey, jobPod
<1>2. CASE Get(w)
  <2>1. /\ queue \in Seq(Keys) /\ queue # <<>>
        /\ queue' = Tail(queue)
        /\ wkey' = [wkey EXCEPT ![w] = Head(queue)]
        /\ wpc' = [wpc EXCEPT ![w] = "delete"]
        /\ in_flight' = in_flight
        /\ w \notin Busy
    BY <1>2 DEF Get, KillerTypeOK, Busy
  <2>2. /\ Queued = Queued' \cup {Head(queue)}
        /\ Distinct(queue)' /\ Head(queue) \notin Queued'
    <3>1. Queued' = {Tail(queue)[i] : i \in DOMAIN Tail(queue)}
      BY <2>1 DEF Queued
    <3>2. Distinct(queue)' <=> Distinct(Tail(queue))
      BY <2>1 DEF Distinct
    <3> DEFINE rest == {Tail(queue)[i] : i \in DOMAIN Tail(queue)}
    <3>3. /\ {queue[i] : i \in DOMAIN queue} = rest \cup {Head(queue)}
          /\ Distinct(queue) => Distinct(Tail(queue)) /\ Head(queue) \notin rest
      BY <2>1, GetQueue
    <3> HIDE DEF rest
    <3>4. Queued' = rest /\ Queued = rest \cup {Head(queue)}
      BY <3>1, <3>3 DEF Queued, rest
    <3> QED
      BY <3>2, <3>3, <3>4 DEF Apart
  <2>3. Busy' = Busy \cup {w}
    BY <2>1 DEF KillerTypeOK, Busy
  <2>4. wkey'[w] = Head(queue) /\ \A v \in Busy : wkey'[v] = wkey[v]
    BY <2>1 DEF KillerTypeOK, Busy
  <2>5. HeldKeys' = HeldKeys \cup {Head(queue)}
    BY <2>3, <2>4 DEF HeldKeys
  <2>6. Exact'
    BY <1>1, <2>1, <2>2, <2>5 DEF Exact
  <2>7. Head(queue) \notin HeldKeys /\ Head(queue) \notin Asked
    BY <2>2 DEF Apart
  <2>8. \A v, u \in Busy' : wkey'[v] = wkey'[u] => v = u
    BY <2>3, <2>4, <2>7 DEF Apart, HeldKeys
  <2> QED
    BY <1>1, <2>2, <2>5, <2>6, <2>7, <2>8 DEF Apart
<1>3. CASE Delete(w)
  <2>1. /\ UNCHANGED <<queue, in_flight, wkey>>
        /\ wpc[w] = "delete"
        /\ wpc' = [wpc EXCEPT ![w] = "finish"]
    BY <1>3 DEF Delete
  <2>2. Busy' = Busy
    BY <2>1 DEF KillerTypeOK, Busy
  <2>3. Queued' = Queued /\ HeldKeys' = HeldKeys
    BY <2>1, <2>2 DEF Queued, HeldKeys
  <2> QED
    BY <1>1, <2>1, <2>2, <2>3 DEF Exact, Apart
<1>4. CASE Finish(w)
  <2>1. /\ UNCHANGED queue
        /\ wpc[w] = "finish" /\ w \in Busy
        /\ wpc' = [wpc EXCEPT ![w] = "get"]
        /\ wkey' = [wkey EXCEPT ![w] = NoKey]
        /\ in_flight' = in_flight \ {wkey[w]}
    BY <1>4 DEF Finish, Busy
  <2>2. Busy' = Busy \ {w} /\ Queued' = Queued
    BY <2>1 DEF KillerTypeOK, Busy, Queued
  <2>3. \A v \in Busy' : wkey'[v] = wkey[v]
    BY <2>1, <2>2 DEF KillerTypeOK, Busy
  <2>4. HeldKeys' = HeldKeys \ {wkey[w]}
    BY <2>1, <2>2, <2>3 DEF HeldKeys, Apart
  <2>5. wkey[w] \in HeldKeys
    BY <2>1 DEF HeldKeys
  <2>6. Exact'
    BY <1>1, <2>1, <2>2, <2>4, <2>5 DEF Exact, Apart
  <2>7. \A v, u \in Busy' : wkey'[v] = wkey'[u] => v = u
    BY <2>2, <2>3 DEF Apart
  <2> QED
    BY <1>1, <2>1, <2>2, <2>4, <2>6, <2>7 DEF Apart
<1> QED
  BY <1>2, <1>3, <1>4 DEF WorkerStep

\* Without requests and marks the bookkeeping is right: this is how the agent
\* starts, for the first time and again.
LEMMA NoRequests ==
    pc = "idle" /\ queue = <<>> /\ in_flight = {} /\ Busy = {}
      => Exact /\ Apart
<1> SUFFICES ASSUME pc = "idle", queue = <<>>, in_flight = {}, Busy = {}
             PROVE  Exact /\ Apart
  OBVIOUS
<1>1. Asked = {} /\ Queued = {} /\ HeldKeys = {} /\ Distinct(queue)
  BY DEF Asked, Queued, HeldKeys, Distinct
<1> QED
  BY <1>1 DEF Exact, Apart

\* A restart forgets requests and marks together.
LEMMA RestartRequests == Restart => Exact' /\ Apart'
<1> SUFFICES ASSUME Restart PROVE Exact' /\ Apart'
  OBVIOUS
<1>1. /\ pc' = "idle" /\ queue' = <<>> /\ in_flight' = {}
      /\ Busy' = {}
  BY DEF Restart, Busy
<1>2. Asked' = {} /\ Queued' = {} /\ HeldKeys' = {} /\ Distinct(queue)'
  BY <1>1 DEF Asked, Queued, HeldKeys, Distinct
<1> QED
  BY <1>1, <1>2 DEF Exact, Apart

\* So does everything outside the killer.
LEMMA RequestsElsewhere ==
    Exact /\ Apart /\ UNCHANGED killerVars => Exact' /\ Apart'
  BY Untouched DEF killerVars, pollVars, workerVars

\* Every action keeps the bookkeeping.
LEMMA RequestsStep ==
    TypeOK /\ Exact /\ Apart /\ [Next]_vars => Exact' /\ Apart'
<1> SUFFICES ASSUME TypeOK, Exact, Apart, [Next]_vars PROVE Exact' /\ Apart'
  OBVIOUS
<1>1. CASE UNCHANGED killerVars
  BY <1>1, RequestsElsewhere
<1>2. CASE HandleKill
  <2>1. CASE \E c \in Cgroups : HandleKillSpares(c)
    BY <1>1, <2>1 DEF HandleKillSpares
  <2>2. CASE \E c \in Cgroups : HandleKillProceeds(c)
    BY <2>2, Untouched DEF HandleKillProceeds, workerVars
  <2> QED
    BY <1>2, <2>1, <2>2 DEF HandleKill
<1>3. CASE PollStep
  BY <1>3, PollStepRequests DEF TypeOK
<1>4. CASE \E w \in Workers : WorkerStep(w)
  BY <1>4, WorkerStepRequests DEF TypeOK
<1>5. CASE Restart
  BY <1>5, RestartRequests
<1>6. \/ UNCHANGED killerVars
      \/ HandleKill
      \/ PollStep
      \/ \E w \in Workers : WorkerStep(w)
      \/ Restart
  BY DEF Next, Surroundings, vars
<1> QED
  BY <1>1, <1>2, <1>3, <1>4, <1>5, <1>6

\* There are no requests to begin with.
LEMMA RequestsInit == Init => Exact /\ Apart
<1> SUFFICES ASSUME Init PROVE Exact /\ Apart
  OBVIOUS
<1>1. pc = "idle" /\ queue = <<>> /\ in_flight = {} /\ Busy = {}
  BY DEF Init, KillerInit, Busy
<1> QED
  BY <1>1, NoRequests

\* With any number of workers and whatever fails, a pod is marked in
\* _in_flight exactly while a request for it exists: no path through
\* handle_kill or _api_worker forgets a mark, and none drops it early.
THEOREM MarksExact == Spec => []InFlightExact
<1>1. Exact => InFlightExact
  BY Restated
<1> QED
  BY <1>1, TypeCorrect, RequestsInit, RequestsStep, PTL DEF Spec

\* Of a pod there is at most one request at a time, wherever it is.
THEOREM OneRequestPerPod == Spec => []NoDuplicateRequest
<1>1. Apart => NoDuplicateRequest
  BY Restated
<1> QED
  BY <1>1, TypeCorrect, RequestsInit, RequestsStep, PTL DEF Spec

-----------------------------------------------------------------------------
(* The policy on namespaces.                                               *)

\* A detection that handle_kill does not spare is in an unprotected namespace.
LEMMA UnsparedUnprotected ==
    ASSUME NEW c, ~Spared(c)
    PROVE  ~Protected(NsOf[PodOf[c]])
  BY KillerAssumption DEF Spared, Escalated, Protected

\* The namespace of a request is the one of every pod that has its name.
LEMMA KeyNamespace == \A p : Key(p)[1] = NsOf[p]
  BY DEF Key

\* The strengthening: from the checks on, the pod in handle_kill is one that
\* may be killed, and so is every request, by the namespace in its name.
PolicyInv ==
    /\ ProtectedUntouched
    /\ pc # "idle" => ~Protected(NsOf[jobPod])

\* The steps of handle_kill touch no protected namespace.
LEMMA PollStepPolicy ==
    ASSUME ClusterTypeOK, KillerTypeOK, PolicyInv, PollStep
    PROVE  PolicyInv'
<1>1. /\ jobPod' = jobPod
      /\ condemned' = condemned /\ deleted' = deleted
      /\ pc # "idle" /\ ~Protected(NsOf[jobPod])
  BY DEF PollStep, CgroupKill, Dedup, Put, Discard, Return, jobPod, PolicyInv,
         historyVars
<1>2. procs' = procs \/ procs' = [procs EXCEPT ![job] = "killed"]
  BY DEF PollStep, CgroupKill, Dedup, Put, Discard, Return, clusterVars
<1>3. in_flight' \subseteq in_flight \cup {jobKey}
  BY DEF PollStep, CgroupKill, Dedup, Put, Discard, Return
<1>4. jobKey[1] = NsOf[jobPod]
  BY KeyNamespace DEF jobKey
<1>5. \A ns : Protected(ns)' <=> Protected(ns)
  BY DEF Protected
<1>6. \A c \in Cgroups : procs'[c] = "killed" => ~Protected(NsOf[PodOf[c]])
  <2>1. \A c \in Cgroups : procs'[c] = "killed" => procs[c] = "killed" \/ c = job
    BY <1>2 DEF ClusterTypeOK
  <2> QED
    BY <1>1, <2>1 DEF PolicyInv, ProtectedUntouched, jobPod
<1>7. \A k \in in_flight' : ~Protected(k[1])
  BY <1>1, <1>3, <1>4 DEF PolicyInv, ProtectedUntouched
<1>8. ProtectedUntouched'
  BY <1>1, <1>5, <1>6, <1>7 DEF PolicyInv, ProtectedUntouched
<1> QED
  BY <1>1, <1>5, <1>8 DEF PolicyInv

\* The steps of a worker touch no protected namespace: the pod it deletes may
\* not be the one that was condemned, but has its namespace.
LEMMA WorkerStepPolicy ==
    ASSUME KillerTypeOK, Exact, PolicyInv, NEW w \in Workers, WorkerStep(w)
    PROVE  PolicyInv'
<1>1. UNCHANGED <<pc, job, condemned, procs>>
  BY DEF WorkerStep, Get, Delete, Finish, pollVars, historyVars, clusterVars
<1>2. in_flight' \subseteq in_flight
  BY DEF WorkerStep, Get, Delete, Finish
<1>3. \A ns : Protected(ns)' <=> Protected(ns)
  BY DEF Protected
<1>4. \A p \in deleted' : ~Protected(NsOf[p])
  <2>1. CASE deleted' = deleted
    BY <2>1 DEF PolicyInv, ProtectedUntouched
  <2>2. CASE deleted' # deleted
    <3>1. Delete(w) /\ w \in Busy
      BY <2>2 DEF WorkerStep, Get, Delete, Finish, historyVars, Busy
    <3>2. wkey[w] \in in_flight
      BY <3>1 DEF Exact, HeldKeys
    <3>3. PICK q \in apiPods : Key(q) = wkey[w] /\ deleted' = deleted \cup {q}
      BY <2>2, <3>1 DEF Delete
    <3>4. ~Protected(NsOf[q])
      BY <3>2, <3>3, KeyNamespace DEF PolicyInv, ProtectedUntouched
    <3> QED
      BY <3>3, <3>4 DEF PolicyInv, ProtectedUntouched
  <2> QED
    BY <2>1, <2>2
<1>5. ProtectedUntouched'
  BY <1>1, <1>2, <1>3, <1>4 DEF PolicyInv, ProtectedUntouched
<1> QED
  BY <1>1, <1>3, <1>5 DEF PolicyInv, jobPod

\* Nothing outside the killer kills a container or touches a pod.
LEMMA PolicyElsewhere ==
    ASSUME ClusterTypeOK, PolicyInv, UNCHANGED killerVars,
           ClusterNext \/ UNCHANGED clusterVars
    PROVE  PolicyInv'
<1>1. \A c \in Cgroups : procs'[c] = "killed" => procs[c] = "killed"
  BY DEF ClusterNext, CreatePod, StartContainer, DeletePod, RemoveCgroup,
         ClusterTypeOK, clusterVars
<1> QED
  BY <1>1 DEF killerVars, pollVars, historyVars, PolicyInv, ProtectedUntouched,
     Protected, jobPod

\* What goes on around the killer does nothing to it.
LEMMA AroundTheKiller ==
    ASSUME Surroundings
    PROVE  UNCHANGED killerVars /\ (ClusterNext \/ UNCHANGED clusterVars)
  BY DEF Surroundings, SyncNext, SyncList, SyncCachePod, SyncCacheOwner

\* Every action keeps the strengthening.
LEMMA PolicyStep == TypeOK /\ Exact /\ PolicyInv /\ [Next]_vars => PolicyInv'
<1> SUFFICES ASSUME TypeOK, Exact, PolicyInv, [Next]_vars PROVE PolicyInv'
  OBVIOUS
<1>1. CASE UNCHANGED killerVars /\ (ClusterNext \/ UNCHANGED clusterVars)
  BY <1>1, PolicyElsewhere DEF TypeOK
<1>2. CASE HandleKill
  <2>1. CASE \E c \in Cgroups : HandleKillSpares(c)
    BY <1>1, <2>1 DEF HandleKillSpares
  <2>2. CASE \E c \in Cgroups : HandleKillProceeds(c)
    <3>1. PICK c \in Cgroups : HandleKillProceeds(c)
      BY <2>2
    <3>2. ~Protected(NsOf[PodOf[c]])
      BY <3>1, UnsparedUnprotected DEF HandleKillProceeds
    <3>3. /\ job' = c /\ condemned' = condemned \cup {PodOf[c]}
          /\ UNCHANGED <<in_flight, deleted, procs>>
      BY <3>1 DEF HandleKillProceeds, clusterVars
    <3> QED
      BY <3>2, <3>3 DEF PolicyInv, ProtectedUntouched, Protected, jobPod
  <2> QED
    BY <1>2, <2>1, <2>2 DEF HandleKill
<1>3. CASE PollStep
  BY <1>3, PollStepPolicy DEF TypeOK
<1>4. CASE \E w \in Workers : WorkerStep(w)
  BY <1>4, WorkerStepPolicy DEF TypeOK
<1>5. CASE Restart
  BY <1>5 DEF Restart, PolicyInv, ProtectedUntouched, Protected, clusterVars
<1>6. \/ UNCHANGED killerVars /\ (ClusterNext \/ UNCHANGED clusterVars)
      \/ HandleKill
      \/ PollStep
      \/ \E w \in Workers : WorkerStep(w)
      \/ Restart
  BY AroundTheKiller DEF Next, vars
<1> QED
  BY <1>1, <1>2, <1>3, <1>4, <1>5, <1>6

\* However detections, requests, names and failures interleave, no container
\* of a protected namespace is killed and no pod of one is deleted.
THEOREM ProtectedSafe == Spec => []ProtectedUntouched
<1>1. Init => PolicyInv
  BY DEF Init, ClusterInit, KillerInit, PolicyInv, ProtectedUntouched
<1>2. PolicyInv => ProtectedUntouched
  BY DEF PolicyInv
<1> QED
  BY <1>1, <1>2, TypeCorrect, RequestsInit, RequestsStep, PolicyStep, PTL
     DEF Spec

-----------------------------------------------------------------------------
(* What handle_kill promises.                                              *)

\* The strengthening: a container that ran has a pod that was created, so the
\* pods that are promised are no new ones: a pod that comes later is not one
\* of them, even under the same name.
OfCreatedPods ==
    /\ \A c \in Cgroups : procs[c] # "absent" => PodOf[c] \in created
    /\ pc # "idle" => jobPod \in created
    /\ promised \subseteq created

PromiseInv == OfCreatedPods /\ PromisesKept

\* A step that takes nothing from the requests keeps the promises.
LEMMA NothingTaken ==
    ASSUME PromisesKept, UNCHANGED <<promised, overtaken>>,
           ToCome \subseteq ToCome',
           pc \in {"put", "full"} =>
               jobKey \in ToCome' \/ (pc' \in {"put", "full"} /\ job' = job),
           \A p \in promised : p \in apiPods' => p \in apiPods
    PROVE  PromisesKept'
  BY DEF PromisesKept, jobKey, jobPod

\* What is to come depends on the queue and the workers.
LEMMA ToComeKept ==
    ASSUME UNCHANGED <<queue, wpc, wkey>>
    PROVE  ToCome' = ToCome
  BY DEF ToCome

\* A marked request is to come, unless it is over.
LEMMA MarkedIsToCome ==
    ASSUME Exact, KillerTypeOK, pc \notin {"put", "full"},
           NEW k \in in_flight, k \notin Ended
    PROVE  k \in ToCome
  BY DEF Exact, Asked, Queued, HeldKeys, Busy, KillerTypeOK, Ended, ToCome

\* Nothing outside the killer breaks a promise: the pods that come are new.
LEMMA PromiseElsewhere ==
    ASSUME ClusterTypeOK, PromiseInv, UNCHANGED killerVars,
           ClusterNext \/ UNCHANGED clusterVars
    PROVE  PromiseInv'
<1>1. UNCHANGED <<pc, job, queue, wpc, wkey, promised, overtaken>>
  BY DEF killerVars, pollVars, workerVars, historyVars
<1>2. /\ created \subseteq created'
      /\ \A p \in created : p \in apiPods' => p \in apiPods
      /\ \A c \in Cgroups : procs'[c] # "absent" =>
            procs[c] # "absent" \/ PodOf[c] \in created
  BY DEF ClusterNext, CreatePod, StartContainer, DeletePod, RemoveCgroup,
         ClusterTypeOK, clusterVars
<1>3. OfCreatedPods'
  BY <1>1, <1>2 DEF PromiseInv, OfCreatedPods, jobPod
<1>4. PromisesKept'
  BY <1>1, <1>2, ToComeKept, NothingTaken DEF PromiseInv, OfCreatedPods
<1> QED
  BY <1>3, <1>4 DEF PromiseInv

\* The steps of handle_kill keep the promises: the test of _in_flight finds a
\* request that is to come, one that is over, or none, and queue.Full answers.
LEMMA PollStepPromises ==
    ASSUME ClusterTypeOK, KillerTypeOK, Exact, PromiseInv, PollStep
    PROVE  PromiseInv'
<1>1. /\ pc # "idle" /\ UNCHANGED <<job, created, apiPods>>
      /\ jobPod' = jobPod /\ jobKey' = jobKey
      /\ promised' \subseteq promised \cup {jobPod}
  BY DEF PollStep, CgroupKill, Dedup, Put, Discard, Return, Answer, jobKey,
         jobPod, clusterVars, historyVars
<1>2. \A c \in Cgroups : procs'[c] # "absent" => procs[c] # "absent"
  BY DEF PollStep, CgroupKill, Dedup, Put, Discard, Return, ClusterTypeOK,
         clusterVars
<1>3. OfCreatedPods'
  BY <1>1, <1>2 DEF PromiseInv, OfCreatedPods
<1>4. PromisesKept
  BY DEF PromiseInv
<1>5. CASE CgroupKill \/ Return
  <2>1. UNCHANGED <<queue, wpc, wkey, promised, overtaken>>
    BY <1>5 DEF CgroupKill, Return, workerVars, historyVars
  <2>2. pc \notin {"put", "full"}
    BY <1>5 DEF CgroupKill, Return
  <2> QED
    BY <1>1, <1>3, <1>4, <2>1, <2>2, ToComeKept, NothingTaken DEF PromiseInv
<1>6. CASE Dedup
  <2>1. /\ UNCHANGED <<queue, wpc, wkey>> /\ pc = "dedup"
        /\ pc' = IF jobKey \in in_flight THEN "return" ELSE "put"
        /\ promised' = promised \cup {jobPod}
        /\ overtaken' = IF jobKey \in Ended THEN overtaken \cup {jobPod}
                                            ELSE overtaken \ {jobPod}
    BY <1>6 DEF Dedup, workerVars
  <2>2. ToCome' = ToCome
    BY <2>1, ToComeKept
  <2>3. \/ jobPod \in overtaken'
        \/ jobKey \in ToCome
        \/ pc' = "put"
    BY <2>1, MarkedIsToCome
  <2>4. ASSUME NEW p \in promised, p # jobPod
        PROVE  p \notin apiPods \/ p \in overtaken' \/ Key(p) \in ToCome
    BY <1>4, <2>1, <2>4 DEF PromisesKept
  <2>5. PromisesKept'
    BY <1>1, <2>1, <2>2, <2>3, <2>4 DEF PromisesKept, jobKey
  <2> QED
    BY <1>3, <2>5 DEF PromiseInv
<1>7. CASE Put
  <2>1. /\ UNCHANGED <<wpc, wkey, promised, overtaken>> /\ pc = "put"
        /\ \/ queue' = Append(queue, jobKey)
           \/ pc' = "full" /\ UNCHANGED queue
    BY <1>7 DEF Put, workerVars, historyVars
  <2>2. CASE queue' = Append(queue, jobKey)
    <3>1. queue \in Seq(Keys) /\ jobKey \in Keys
      BY JobKey DEF KillerTypeOK
    <3>2. Queued' = Queued \cup {jobKey}
      BY <2>2, <3>1, PutQueue DEF Queued
    <3>3. ToCome' = ToCome \cup {jobKey}
      BY <2>1, <3>2 DEF ToCome, Queued
    <3> QED
      BY <1>1, <1>3, <1>4, <2>1, <3>3, NothingTaken DEF PromiseInv
  <2>3. CASE pc' = "full" /\ UNCHANGED queue
    BY <1>1, <1>3, <1>4, <2>1, <2>3, ToComeKept, NothingTaken DEF PromiseInv
  <2> QED
    BY <2>1, <2>2, <2>3
<1>8. CASE Discard
  <2>1. /\ UNCHANGED <<queue, wpc, wkey>>
        /\ promised' = {p \in promised : Key(p) # jobKey}
        /\ overtaken' = {p \in overtaken : Key(p) # jobKey}
    BY <1>8 DEF Discard, Answer, workerVars
  <2>2. ToCome' = ToCome
    BY <2>1, ToComeKept
  <2>3. \A p \in promised' : p \in promised /\ p # jobPod
                             /\ (p \in overtaken => p \in overtaken')
    BY <2>1 DEF jobKey
  <2>4. PromisesKept'
    BY <1>1, <1>4, <2>2, <2>3 DEF PromisesKept
  <2> QED
    BY <1>3, <2>4 DEF PromiseInv
<1> QED
  BY <1>5, <1>6, <1>7, <1>8 DEF PollStep

\* The steps of a worker keep the promises: what it takes off the queue it
\* calls, and what it called is answered, under that name.
LEMMA WorkerStepPromises ==
    ASSUME ClusterTypeOK, KillerTypeOK, PromiseInv,
           NEW w \in Workers, WorkerStep(w)
    PROVE  PromiseInv'
<1>1. /\ UNCHANGED <<pc, job, created, procs>>
      /\ promised' \subseteq promised
      /\ apiPods' \subseteq apiPods
  BY DEF WorkerStep, Get, Delete, Finish, Answer, pollVars, clusterVars,
         historyVars
<1>2. OfCreatedPods'
  BY <1>1 DEF PromiseInv, OfCreatedPods, jobPod
<1>3. PromisesKept
  BY DEF PromiseInv
<1>4. CASE Get(w)
  <2>1. /\ UNCHANGED <<promised, overtaken>>
        /\ queue \in Seq(Keys) /\ queue # <<>> /\ queue' = Tail(queue)
        /\ wpc[w] = "get"
        /\ wpc' = [wpc EXCEPT ![w] = "delete"]
        /\ wkey' = [wkey EXCEPT ![w] = Head(queue)]
    BY <1>4 DEF Get, historyVars, KillerTypeOK
  <2>2. Queued = Queued' \cup {Head(queue)}
    BY <2>1, GetQueue DEF Queued
  <2>3. /\ wpc'[w] = "delete" /\ wkey'[w] = Head(queue)
        /\ \A v \in Workers : wpc[v] = "delete" =>
              wpc'[v] = "delete" /\ wkey'[v] = wkey[v]
    BY <2>1 DEF KillerTypeOK
  <2>4. ToCome \subseteq ToCome'
    BY <2>2, <2>3 DEF ToCome, Queued
  <2> QED
    BY <1>1, <1>2, <1>3, <2>1, <2>4, NothingTaken DEF PromiseInv
<1>5. CASE Delete(w)
  <2>1. /\ UNCHANGED <<queue, wkey>>
        /\ wpc' = [wpc EXCEPT ![w] = "finish"]
        /\ promised' = {p \in promised : Key(p) # wkey[w]}
        /\ overtaken' = {p \in overtaken : Key(p) # wkey[w]}
    BY <1>5 DEF Delete, Answer
  <2>2. \A v \in Workers : v # w => wpc'[v] = wpc[v]
    BY <2>1 DEF KillerTypeOK
  <2>3. ToCome \ {wkey[w]} \subseteq ToCome'
    BY <2>1, <2>2 DEF ToCome
  <2>4. PromisesKept'
    BY <1>1, <1>3, <2>1, <2>3 DEF PromisesKept, jobPod
  <2> QED
    BY <1>2, <2>4 DEF PromiseInv
<1>6. CASE Finish(w)
  <2>1. /\ UNCHANGED <<queue, promised, overtaken>>
        /\ wpc[w] = "finish"
        /\ wpc' = [wpc EXCEPT ![w] = "get"]
        /\ wkey' = [wkey EXCEPT ![w] = NoKey]
    BY <1>6 DEF Finish, historyVars
  <2>2. \A v \in Workers : wpc[v] = "delete" =>
            wpc'[v] = "delete" /\ wkey'[v] = wkey[v]
    BY <2>1 DEF KillerTypeOK
  <2>3. ToCome \subseteq ToCome'
    BY <2>1, <2>2 DEF ToCome
  <2> QED
    BY <1>1, <1>2, <1>3, <2>1, <2>3, NothingTaken DEF PromiseInv
<1> QED
  BY <1>4, <1>5, <1>6 DEF WorkerStep

\* A restart forgets the promises with the requests.
LEMMA RestartPromises == PromiseInv /\ Restart => PromiseInv'
  BY DEF Restart, PromiseInv, OfCreatedPods, PromisesKept, clusterVars

\* handle_kill starts for a container that ran.
LEMMA ProceedsPromises ==
    ASSUME PromiseInv, NEW c \in Cgroups, procs[c] # "absent",
           HandleKillProceeds(c)
    PROVE  PromiseInv'
<1>1. /\ pc = "idle" /\ job' = c
      /\ UNCHANGED <<created, apiPods, procs, queue, wpc, wkey, promised,
                     overtaken>>
  BY DEF HandleKillProceeds, clusterVars, workerVars
<1>2. OfCreatedPods'
  BY <1>1 DEF PromiseInv, OfCreatedPods, jobPod
<1>3. PromisesKept'
  BY <1>1, ToComeKept, NothingTaken DEF PromiseInv
<1> QED
  BY <1>2, <1>3 DEF PromiseInv

\* Every action keeps the promises.
LEMMA PromiseStep ==
    TypeOK /\ Exact /\ PromiseInv /\ [Next]_vars => PromiseInv'
<1> SUFFICES ASSUME TypeOK, Exact, PromiseInv, [Next]_vars PROVE PromiseInv'
  OBVIOUS
<1>1. CASE UNCHANGED killerVars /\ (ClusterNext \/ UNCHANGED clusterVars)
  BY <1>1, PromiseElsewhere DEF TypeOK
<1>2. CASE HandleKill
  <2>1. PICK c \in Cgroups : /\ procs[c] # "absent"
                             /\ HandleKillSpares(c) \/ HandleKillProceeds(c)
    BY <1>2 DEF HandleKill
  <2>2. CASE HandleKillSpares(c)
    BY <1>1, <2>2 DEF HandleKillSpares
  <2>3. CASE HandleKillProceeds(c)
    BY <2>1, <2>3, ProceedsPromises
  <2> QED
    BY <2>1, <2>2, <2>3
<1>3. CASE PollStep
  BY <1>3, PollStepPromises DEF TypeOK
<1>4. CASE \E w \in Workers : WorkerStep(w)
  BY <1>4, WorkerStepPromises DEF TypeOK
<1>5. CASE Restart
  BY <1>5, RestartPromises
<1>6. \/ UNCHANGED killerVars /\ (ClusterNext \/ UNCHANGED clusterVars)
      \/ HandleKill
      \/ PollStep
      \/ \E w \in Workers : WorkerStep(w)
      \/ Restart
  BY AroundTheKiller DEF Next, vars
<1> QED
  BY <1>1, <1>2, <1>3, <1>4, <1>5, <1>6

\* Nothing is promised to begin with.
LEMMA PromiseBegins == Init => PromiseInv
  BY DEF Init, ClusterInit, KillerInit, PromiseInv, OfCreatedPods, PromisesKept

\* A pod that handle_kill reported as killed is gone, or its delete is on its
\* way under its name, or the log says what became of it, with any number of
\* workers, any size of the queue, any reuse of names and any failures.  The
\* one exception is the pod that was taken for a duplicate of a request whose
\* call was over.
THEOREM PromisesAreKept == Spec => []PromisesKept
<1>1. PromiseInv => PromisesKept
  BY DEF PromiseInv
<1> QED
  BY <1>1, TypeCorrect, RequestsInit, RequestsStep, PromiseBegins, PromiseStep,
     PTL DEF Spec

-----------------------------------------------------------------------------
(* Escalation by repetition.                                               *)

\* handle_kill counts a detection, or leaves the tracker alone.
LEMMA CountedInv ==
    ASSUME TrackerTypeOK, TrackerInv, NEW c, Counted(c)
    PROVE  TrackerInv'
<1>1. CASE Record(OwnerKey(c))
  BY <1>1, RecordInv, Zenon
<1>2. CASE UNCHANGED trackerVars
  BY <1>2 DEF trackerVars, TrackerInv
<1> QED
  BY <1>1, <1>2, Zenon DEF Counted

\* What an action of the killer does to the tracker.
LEMMA TrackerMoves ==
    ASSUME [Next]_vars
    PROVE  \/ UNCHANGED trackerVars
           \/ Tick
           \/ \E c \in Cgroups : Counted(c)
           \/ Restart
<1>1. CASE HandleKill
  BY <1>1 DEF HandleKill, HandleKillSpares, HandleKillProceeds
<1>2. CASE PollStep
  BY <1>2 DEF PollStep, CgroupKill, Dedup, Put, Discard, Return
<1>3. CASE \E w \in Workers : WorkerStep(w)
  BY <1>3 DEF WorkerStep, Get, Delete, Finish
<1>4. \/ UNCHANGED trackerVars
      \/ Tick
      \/ HandleKill
      \/ PollStep
      \/ \E w \in Workers : WorkerStep(w)
      \/ Restart
  BY DEF Next, Surroundings, vars
<1> QED
  BY <1>1, <1>2, <1>3, <1>4

\* Every action keeps the invariant of the tracker.
LEMMA TrackerStep == TypeOK /\ TrackerInv /\ [Next]_vars => TrackerInv'
<1> SUFFICES ASSUME TypeOK, TrackerInv, [Next]_vars PROVE TrackerInv'
  OBVIOUS
<1>1. TrackerTypeOK
  BY DEF TypeOK
<1>2. CASE UNCHANGED trackerVars
  BY <1>2 DEF trackerVars, TrackerInv
<1>3. CASE Tick
  BY <1>1, <1>3, TickInv
<1>4. CASE \E c \in Cgroups : Counted(c)
  BY <1>1, <1>4, CountedInv
<1>5. CASE Restart
  BY <1>5, NothingRecorded DEF Restart
<1> QED
  BY <1>2, <1>3, <1>4, <1>5, TrackerMoves

\* The tracker begins with the invariant.
LEMMA TrackerBegins == Init => TrackerInv
  BY NothingRecorded DEF Init

\* A key has one more detection recorded only in a step that records.
LEMMA OnlyRecordDetects ==
    ASSUME TypeOK, [Next]_vars, NEW k \in OwnerKeys, Detected(k)
    PROVE  \E c \in Cgroups : Record(OwnerKey(c))
<1>1. Len(recorded[k]) \in Nat
  BY LenProperties DEF TypeOK, TrackerTypeOK
<1>2. recorded' # recorded
  BY <1>1 DEF Detected
<1>3. ~Restart
  <2>1. Restart => Len(recorded'[k]) = 0
    BY DEF Restart
  <2> QED
    BY <1>1, <2>1 DEF Detected
<1>4. PICK c \in Cgroups : Counted(c)
  BY <1>2, <1>3, TrackerMoves DEF trackerVars, Tick
<1> QED
  BY <1>2, <1>4 DEF Counted, trackerVars

\* The count that record returns is the number of detections of the owner in
\* the window that ends now, whatever was recorded and dropped before: none
\* too old counts, and none is lost.
THEOREM CountIsExact == Spec => CountExact
<1>1. TypeOK /\ TrackerInv /\ [Next]_vars =>
        [\A k \in OwnerKeys :
            Detected(k) => Len(history'[k]) = Cardinality(Recent(k))]_trackerVars
  BY OnlyRecordDetects, CountMeaning DEF TypeOK
<1> QED
  BY <1>1, TypeCorrect, TrackerBegins, TrackerStep, PTL DEF Spec, CountExact

\* An owner is escalated only on a burst: RepeatThreshold detections of it
\* within one window of each other.
THEOREM EscalationIsBurst == Spec => EscalationNeedsBurst
<1>1. TypeOK /\ TrackerInv /\ [Next]_vars =>
        [\A k \in OwnerKeys :
            Detected(k) /\ Escalates(k) =>
                LET last == Len(recorded'[k])
                    first == last - RepeatThreshold + 1
                IN  /\ first >= 1
                    /\ recorded'[k][last] - recorded'[k][first] <= RepeatWindow
        ]_trackerVars
  <2> SUFFICES ASSUME TypeOK, TrackerInv, [Next]_vars,
                      NEW k \in OwnerKeys, Detected(k), Escalates(k)
               PROVE  LET last == Len(recorded'[k])
                          first == last - RepeatThreshold + 1
                      IN  /\ first >= 1
                          /\ recorded'[k][last] - recorded'[k][first]
                                <= RepeatWindow
    OBVIOUS
  <2>1. \E c \in Cgroups : Record(OwnerKey(c))
    BY OnlyRecordDetects
  <2> QED
    BY <2>1, CountMeaning DEF TypeOK
<1> QED
  BY <1>1, TypeCorrect, TrackerBegins, TrackerStep, PTL
     DEF Spec, EscalationNeedsBurst

\* A pod in a warn_only namespace that handle_kill goes on to kill was counted,
\* and the count of its owner, or of its name, has reached the threshold.
LEMMA WarnOnlyEscalated ==
    ASSUME TypeOK, TrackerInv, NEW c \in Cgroups, HandleKillProceeds(c),
           NsOf[PodOf[c]] \in WarnOnlyNamespaces
    PROVE  \E k \in {OwnerOf[PodOf[c]], Key(PodOf[c])} :
              Cardinality(Recent(k)) >= RepeatThreshold
<1> DEFINE k == OwnerKey(c)
<1>1. k \in {OwnerOf[PodOf[c]], Key(PodOf[c])}
  BY DEF OwnerKey
<1>2. k \in OwnerKeys
  BY <1>1, ClusterAssumption, OwnersAssumption
<1>3. Counted(c) /\ ~Spared(c)
  BY DEF HandleKillProceeds
<1>4. NsOf[PodOf[c]] \notin ExcludeNamespaces /\ RepeatEnabled /\ Escalates(k)
  BY <1>3 DEF Spared, Escalated
<1>5. Record(k)
  BY <1>3, <1>4 DEF Counted
<1>6. TrackerTypeOK
  BY DEF TypeOK
<1> HIDE DEF k
<1>7. Detected(k)
  <2>1. recorded[k] \in Seq(Nat) /\ now \in Nat
    BY <1>2, <1>6 DEF TrackerTypeOK
  <2>2. recorded'[k] = Append(recorded[k], now)
    BY <1>2, <1>5, <1>6 DEF Record, TrackerTypeOK
  <2>3. Len(Append(recorded[k], now)) = Len(recorded[k]) + 1
    BY <2>1, AppendProperties
  <2>4. Len(recorded[k]) \in Nat
    BY <2>1, LenProperties
  <2> QED
    BY <2>2, <2>3, <2>4 DEF Detected
<1>8. Cardinality(Recent(k)) >= RepeatThreshold
  BY <1>2, <1>4, <1>5, <1>6, <1>7, CountMeaning DEF Escalates
<1> QED
  BY <1>1, <1>8

\* handle_kill decides to kill a pod of a warn_only namespace only when the
\* window holds enough detections of its owner, or of its name while the
\* owner is not known yet.
THEOREM EscalationIsJustified == Spec => EscalationJustified
<1>1. TypeOK /\ TrackerInv /\ [Next]_vars =>
        [\A p \in condemned' \ condemned :
            NsOf[p] \in WarnOnlyNamespaces =>
                \E k \in {OwnerOf[p], Key(p)} :
                    Cardinality(Recent(k)) >= RepeatThreshold]_vars
  <2> SUFFICES ASSUME TypeOK, TrackerInv, [Next]_vars,
                      NEW p \in condemned' \ condemned,
                      NsOf[p] \in WarnOnlyNamespaces
               PROVE  \E k \in {OwnerOf[p], Key(p)} :
                         Cardinality(Recent(k)) >= RepeatThreshold
    OBVIOUS
  <2>1. PICK c \in Cgroups : HandleKillProceeds(c)
    <3>1. condemned' # condemned /\ condemned' # {}
      OBVIOUS
    <3>2. ~UNCHANGED killerVars /\ ~Restart
      BY <3>1 DEF killerVars, historyVars, Restart
    <3>3. ~PollStep
      BY <3>1 DEF PollStep, CgroupKill, Dedup, Put, Discard, Return, historyVars
    <3>4. \A w \in Workers : ~WorkerStep(w)
      BY <3>1 DEF WorkerStep, Get, Delete, Finish, historyVars
    <3>5. HandleKill
      BY <3>2, <3>3, <3>4 DEF Next, Surroundings, vars
    <3> QED
      BY <3>2, <3>5 DEF HandleKill, HandleKillSpares
  <2>2. p = PodOf[c]
    BY <2>1 DEF HandleKillProceeds
  <2> QED
    BY <2>1, <2>2, WarnOnlyEscalated
<1> QED
  BY <1>1, TypeCorrect, TrackerBegins, TrackerStep, PTL
     DEF Spec, EscalationJustified

-----------------------------------------------------------------------------
(* The killer is the service.                                              *)

\* The step of the service, or none, that a step of the killer amounts to.
ServiceStep == [KillServiceSpec!Next]_(KillServiceSpec!serviceVars)

\* Both modules name pods alike.
LEMMA SameKeys == /\ KillServiceSpec!Keys = Keys
                  /\ \A p : KillServiceSpec!Key(p) = Key(p)
  BY DEF KillServiceSpec!Keys, KillServiceSpec!Key, Keys, Key

-----------------------------------------------------------------------------
(* The stage of a request.                                                 *)

\* A stage depends on what has ended and what is marked.
LEMMA StageKept ==
    ASSUME Ended' = Ended, in_flight' = in_flight
    PROVE  StageOf' = StageOf
  BY DEF StageOf

\* A step that concerns one key moves the stage of that key only.
LEMMA StageMoves ==
    ASSUME NEW k \in Keys, NEW s \in {"none", "asked", "ended"},
           \A j \in Keys \ {k} : /\ j \in Ended' <=> j \in Ended
                                 /\ j \in in_flight' <=> j \in in_flight,
           s = IF k \in Ended' THEN "ended"
               ELSE IF k \in in_flight' THEN "asked" ELSE "none"
    PROVE  StageOf' = [StageOf EXCEPT ![k] = s]
  BY DEF StageOf

\* A request that has ended is still marked.
LEMMA EndedMarked == ASSUME Exact PROVE Ended \subseteq in_flight
  BY DEF Exact, Ended, Asked, HeldKeys, Busy

\* What has ended changes with the poll thread and with the workers only.
LEMMA EndedKept ==
    ASSUME UNCHANGED <<wpc, wkey>>,
           UNCHANGED <<pc, job>> \/ (pc # "full" /\ pc' # "full")
    PROVE  Ended' = Ended
  BY DEF Ended, jobKey, jobPod

\* Steps that touch nothing of a request, no pod and no deletion, are none
\* of the service.
LEMMA Stutters ==
    ASSUME UNCHANGED <<created, apiPods, deleted, in_flight, wpc, wkey>>,
           UNCHANGED <<pc, job>> \/ (pc # "full" /\ pc' # "full")
    PROVE  ServiceStep
  BY EndedKept, StageKept DEF ServiceStep, KillServiceSpec!serviceVars

-----------------------------------------------------------------------------
(* The steps.                                                              *)

\* The service does not see containers; pods come and go for both.
LEMMA ClusterServes ==
    ASSUME TypeOK, ClusterNext, UNCHANGED killerVars
    PROVE  ServiceStep
<1>1. StageOf' = StageOf /\ UNCHANGED deleted
  BY EndedKept, StageKept DEF killerVars, pollVars, workerVars, historyVars
<1>2. CASE \E p \in Pods : CreatePod(p)
  BY <1>1, <1>2 DEF CreatePod, ServiceStep, KillServiceSpec!Next,
     KillServiceSpec!Environment
<1>3. CASE \E p \in Pods : DeletePod(p)
  BY <1>1, <1>3 DEF DeletePod, ServiceStep, KillServiceSpec!Next,
     KillServiceSpec!Environment
<1>4. CASE \E c \in Cgroups : StartContainer(c) \/ RemoveCgroup(c)
  BY <1>1, <1>4 DEF StartContainer, RemoveCgroup, ServiceStep,
     KillServiceSpec!serviceVars
<1> QED
  BY <1>2, <1>3, <1>4 DEF ClusterNext

\* The test of _in_flight asks; a full queue is the attempt, given up; and
\* the discard closes the request.
LEMMA PollStepServes ==
    ASSUME KillerTypeOK, Exact, Apart, PollStep
    PROVE  ServiceStep
<1> USE SameKeys DEF ServiceStep, KillServiceSpec!Next
<1>0. jobKey \in Keys
  BY JobKey
<1>1. CASE CgroupKill \/ Return
  BY <1>1, Stutters DEF CgroupKill, Return, workerVars, historyVars, clusterVars
<1>2. CASE Dedup
  <2>1. /\ UNCHANGED <<created, apiPods, deleted, job, wpc, wkey>>
        /\ pc # "full" /\ pc' # "full"
    BY <1>2 DEF Dedup, clusterVars, workerVars, historyVars
  <2>2. CASE jobKey \in in_flight
    BY <1>2, <2>1, <2>2, Stutters DEF Dedup
  <2>3. CASE jobKey \notin in_flight
    <3>1. Ended' = Ended /\ in_flight' = in_flight \cup {jobKey}
      BY <1>2, <2>1, EndedKept DEF Dedup
    <3>2. jobKey \notin Ended
      BY <2>3, EndedMarked
    <3>3. StageOf' = [StageOf EXCEPT ![jobKey] = "asked"]
      BY <1>0, <3>1, <3>2, StageMoves
    <3>4. StageOf[jobKey] = "none"
      BY <1>0, <2>3, <3>2 DEF StageOf
    <3>5. KillServiceSpec!Ask(jobKey)
      BY <2>1, <3>3, <3>4 DEF KillServiceSpec!Ask
    <3> QED
      BY <1>0, <3>5
  <2> QED
    BY <2>2, <2>3
<1>3. CASE Put
  <2>1. UNCHANGED <<created, apiPods, deleted, job, in_flight, wpc, wkey>>
    BY <1>3 DEF Put, clusterVars, workerVars, historyVars
  <2>2. CASE Len(queue) < QueueSize
    BY <1>3, <2>1, <2>2, Stutters DEF Put
  <2>3. CASE ~(Len(queue) < QueueSize)
    <3>1. pc = "put" /\ pc' = "full" /\ jobKey' = jobKey
      BY <1>3, <2>1, <2>3 DEF Put, jobKey, jobPod
    <3>2. Ended' = Ended \cup {jobKey}
      BY <2>1, <3>1 DEF Ended
    <3>3. jobKey \in in_flight /\ jobKey \notin Ended
      BY <3>1 DEF Exact, Apart, Asked, HeldKeys, Ended, Busy
    <3>4. StageOf' = [StageOf EXCEPT ![jobKey] = "ended"]
      BY <1>0, <2>1, <3>2, StageMoves
    <3>5. StageOf[jobKey] = "asked"
      BY <1>0, <3>3 DEF StageOf
    <3>6. KillServiceSpec!Attempt(jobKey)
      BY <2>1, <3>4, <3>5 DEF KillServiceSpec!Attempt
    <3> QED
      BY <1>0, <3>6
  <2> QED
    BY <2>2, <2>3
<1>4. CASE Discard
  <2>1. /\ UNCHANGED <<created, apiPods, deleted, job, wpc, wkey>>
        /\ pc = "full" /\ pc' = "return"
        /\ in_flight' = in_flight \ {jobKey}
    BY <1>4 DEF Discard, clusterVars, workerVars
  <2>2. jobKey \notin {wkey[w] : w \in {v \in Workers : wpc[v] = "finish"}}
    BY <2>1 DEF Apart, Asked, HeldKeys, Busy
  <2>3. Ended' = Ended \ {jobKey} /\ jobKey \in Ended
    BY <2>1, <2>2 DEF Ended
  <2>4. StageOf' = [StageOf EXCEPT ![jobKey] = "none"]
    BY <1>0, <2>1, <2>3, StageMoves
  <2>5. StageOf[jobKey] = "ended"
    BY <1>0, <2>3 DEF StageOf
  <2>6. KillServiceSpec!Close(jobKey)
    BY <2>1, <2>4, <2>5 DEF KillServiceSpec!Close
  <2> QED
    BY <1>0, <2>6
<1> QED
  BY <1>1, <1>2, <1>3, <1>4 DEF PollStep

\* The delete is the one attempt of its request, and the finally block
\* closes the request of the worker and no other.
LEMMA WorkerStepServes ==
    ASSUME KillerTypeOK, Exact, Apart, NEW w \in Workers, WorkerStep(w)
    PROVE  ServiceStep
<1> USE SameKeys DEF ServiceStep, KillServiceSpec!Next
<1>1. CASE Get(w)
  <2>1. /\ UNCHANGED <<created, apiPods, deleted, pc, job, in_flight>>
        /\ wpc[w] = "get"
        /\ wpc' = [wpc EXCEPT ![w] = "delete"]
        /\ wkey' = [wkey EXCEPT ![w] = Head(queue)]
    BY <1>1 DEF Get, clusterVars, pollVars, historyVars
  <2>2. \A v \in Workers : /\ wpc'[v] = "finish" <=> wpc[v] = "finish"
                           /\ wpc[v] = "finish" => wkey'[v] = wkey[v]
    BY <2>1 DEF KillerTypeOK
  <2>3. Ended' = Ended
    BY <2>1, <2>2 DEF Ended, jobKey, jobPod
  <2>4. StageOf' = StageOf
    BY <2>1, <2>3, StageKept
  <2> QED
    BY <2>1, <2>4 DEF KillServiceSpec!serviceVars
<1>2. CASE Delete(w)
  <2> DEFINE k == wkey[w]
  <2>1. /\ UNCHANGED <<created, pc, job, in_flight, wkey>>
        /\ wpc[w] = "delete"
        /\ wpc' = [wpc EXCEPT ![w] = "finish"]
        /\ w \in Busy
    BY <1>2 DEF Delete, pollVars, Busy
  <2>2. k \in in_flight /\ k \in Keys
    BY <2>1 DEF Exact, HeldKeys, KillerTypeOK
  <2>3. k \notin Ended
    <3>1. \A v \in Workers : wpc[v] = "finish" => wkey[v] # k
      BY <2>1 DEF Apart, Busy
    <3>2. pc = "full" => jobKey # k
      BY <2>1 DEF Apart, Asked, HeldKeys
    <3> QED
      BY <3>1, <3>2 DEF Ended
  <2>4. Ended' = Ended \cup {k}
    <3>1. \A v \in Workers : wpc'[v] = "finish" <=> wpc[v] = "finish" \/ v = w
      BY <2>1 DEF KillerTypeOK
    <3> QED
      BY <2>1, <3>1 DEF Ended, jobKey, jobPod
  <2>5. StageOf' = [StageOf EXCEPT ![k] = "ended"]
    BY <2>1, <2>2, <2>4, StageMoves
  <2>6. StageOf[k] = "asked"
    BY <2>2, <2>3 DEF StageOf
  <2>7. \/ \E p \in apiPods : /\ Key(p) = k
                              /\ apiPods' = apiPods \ {p}
                              /\ deleted' = deleted \cup {p}
        \/ UNCHANGED <<apiPods, deleted>>
    BY <1>2 DEF Delete
  <2>8. KillServiceSpec!Attempt(k)
    BY <2>1, <2>5, <2>6, <2>7 DEF KillServiceSpec!Attempt
  <2> QED
    BY <2>2, <2>8
<1>3. CASE Finish(w)
  <2> DEFINE k == wkey[w]
  <2>1. /\ UNCHANGED <<created, apiPods, deleted, pc, job>>
        /\ wpc[w] = "finish"
        /\ wpc' = [wpc EXCEPT ![w] = "get"]
        /\ wkey' = [wkey EXCEPT ![w] = NoKey]
        /\ in_flight' = in_flight \ {k}
        /\ w \in Busy
    BY <1>3 DEF Finish, clusterVars, pollVars, historyVars, Busy
  <2>2. k \in in_flight /\ k \in Keys
    BY <2>1 DEF Exact, HeldKeys, KillerTypeOK
  <2>3. k \in Ended
    BY <2>1 DEF Ended
  <2>4. Ended' = Ended \ {k}
    <3>1. \A v \in Workers : wpc[v] = "finish" /\ v # w => wkey[v] # k
      BY <2>1 DEF Apart, Busy
    <3>2. pc = "full" => jobKey # k
      BY <2>1 DEF Apart, Asked, HeldKeys
    <3>3. \A v \in Workers :
            /\ wpc'[v] = "finish" <=> wpc[v] = "finish" /\ v # w
            /\ v # w => wkey'[v] = wkey[v]
      BY <2>1 DEF KillerTypeOK
    <3> QED
      BY <2>1, <3>1, <3>2, <3>3 DEF Ended, jobKey, jobPod
  <2>5. StageOf' = [StageOf EXCEPT ![k] = "none"]
    BY <2>1, <2>2, <2>4, StageMoves
  <2>6. StageOf[k] = "ended"
    BY <2>2, <2>3 DEF StageOf
  <2>7. KillServiceSpec!Close(k)
    BY <2>1, <2>5, <2>6 DEF KillServiceSpec!Close
  <2> QED
    BY <2>2, <2>7
<1> QED
  BY <1>1, <1>2, <1>3 DEF WorkerStep

\* A restart is the one of the service.
LEMMA RestartServes == ASSUME Restart PROVE ServiceStep
<1>1. Ended' = {} /\ in_flight' = {}
  BY DEF Restart, Ended
<1>2. StageOf' = [k \in Keys |-> "none"]
  BY <1>1 DEF StageOf
<1> QED
  BY <1>2, SameKeys DEF Restart, clusterVars, ServiceStep,
     KillServiceSpec!Next, KillServiceSpec!Restart

\* Every step of the killer is a step of the service or none.
LEMMA StepServes ==
    TypeOK /\ Exact /\ Apart /\ [Next]_vars => ServiceStep
<1> SUFFICES ASSUME TypeOK, Exact, Apart, [Next]_vars PROVE ServiceStep
  OBVIOUS
<1>1. CASE ClusterNext /\ UNCHANGED <<resolverVars, trackerVars, killerVars>>
  BY <1>1, ClusterServes
<1>2. CASE UNCHANGED <<clusterVars, killerVars>>
  BY <1>2, Stutters DEF clusterVars, killerVars, pollVars, workerVars,
     historyVars
<1>3. CASE \E c \in Cgroups : HandleKillProceeds(c)
  BY <1>3, Stutters DEF HandleKillProceeds, clusterVars, workerVars
<1>4. CASE PollStep
  BY <1>4, PollStepServes DEF TypeOK
<1>5. CASE \E w \in Workers : WorkerStep(w)
  BY <1>5, WorkerStepServes DEF TypeOK
<1>6. CASE Restart
  BY <1>6, RestartServes
<1>7. SyncNext => UNCHANGED clusterVars
  BY DEF SyncNext, SyncList, SyncCachePod, SyncCacheOwner
<1>8. (\E c \in Cgroups : HandleKillSpares(c)) => UNCHANGED <<clusterVars, killerVars>>
  BY DEF HandleKillSpares
<1> QED
  BY <1>1, <1>2, <1>3, <1>4, <1>5, <1>6, <1>7, <1>8
     DEF Next, Surroundings, HandleKill, vars

\* The queue, the worker threads, the marks and their lock amount to the
\* service: one attempt for a mark, under the name it was made for, and no
\* deletion without one, with any number of workers and whatever fails.
THEOREM KillerImplementsService == Spec => KillServiceSpec!Spec
<1>1. Init => KillServiceSpec!Init
  <2> SUFFICES ASSUME Init PROVE KillServiceSpec!Init
    OBVIOUS
  <2>1. Ended = {} /\ in_flight = {}
    BY DEF Init, KillerInit, Ended
  <2>2. StageOf = [k \in Keys |-> "none"]
    BY <2>1 DEF StageOf
  <2> QED
    BY <2>2, SameKeys DEF Init, ClusterInit, KillerInit, KillServiceSpec!Init
<1> QED
  BY <1>1, StepServes, TypeCorrect, RequestsInit, RequestsStep, PTL
     DEF Spec, ServiceStep, KillServiceSpec!Spec

=============================================================================
