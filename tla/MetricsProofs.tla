--------------------------- MODULE MetricsProofs ----------------------------
(***************************************************************************)
(* Proofs about Metrics, for any number of workers, any sizes of the perf  *)
(* buffer and of the queue and any number of events and refreshes: no      *)
(* event is lost in silence, a scrape shows whole updates only, and none   *)
(* of them without what caused it.                                         *)
(***************************************************************************)
EXTENDS Metrics, FiniteSetTheorems, SequenceTheorems, TLAPS

-----------------------------------------------------------------------------
(* Types.                                                                  *)

\* The states of the threads, by their next step.
PollStates == {"poll", "arrived", "counted", "signalled", "on_event", "warn",
               "kill", "handle_kill", "resolve_failures", "escalations",
               "events_emitted", "cgroup_kills", "put"}
WorkerStates == {"get", "delete", "events_emitted", "api_deletes", "api_errors"}
Holders == {"nobody", "poll", "gauges", "render"}

TypeInv ==
    /\ perf \in Seq(Event)
    /\ unreported \in Nat
    /\ emitted \in Nat
    /\ opened \in BOOLEAN
    /\ unseen \in Nat
    /\ lock \in Holders
    /\ field \in [Fields -> Int]
    /\ ppc \in PollStates
    /\ event \in Event
    /\ queued \in Int
    /\ wpc \in [Workers -> WorkerStates]
    /\ gpc \in {"gather", "set"}
    /\ round \in Nat
    /\ reply \in Seq(Int)

\* Who holds the lock: on_event between its two counts, set_gauges between
\* its two gauges, and render until the reply is complete.
LockInv ==
    /\ lock = "poll" <=> ppc = "counted"
    /\ lock = "gauges" <=> gpc = "set"
    /\ lock = "render" => 1 <= Len(reply) /\ Len(reply) <= 14
    /\ lock # "render" => Len(reply) = 0 \/ Len(reply) = 15

\* The fields by name.
LEMMA FieldNames ==
    /\ Len(RenderOrder) = 15
    /\ DOMAIN RenderOrder = 1 .. 15
    /\ Fields = {"events_total", "events_dropped", "events_filtered",
                 "events_passed", "kill", "warn", "escalations",
                 "killed_in_kernel", "cgroup_kills", "api_deletes",
                 "api_errors", "events_emitted", "resolve_failures",
                 "armed_count", "cache_entries"}
<1>1. Len(RenderOrder) = 15 /\ DOMAIN RenderOrder = 1 .. 15
  BY DEF RenderOrder
<1>2. Fields = {RenderOrder[i] : i \in 1 .. 15}
  BY <1>1 DEF Fields, Range
<1>3. 1 .. 15 = {1, 2, 3, 4, 5, 6, 7, 8, 9, 10, 11, 12, 13, 14, 15}
  OBVIOUS
<1>4. Fields = {RenderOrder[1], RenderOrder[2], RenderOrder[3],
                RenderOrder[4], RenderOrder[5], RenderOrder[6],
                RenderOrder[7], RenderOrder[8], RenderOrder[9],
                RenderOrder[10], RenderOrder[11], RenderOrder[12],
                RenderOrder[13], RenderOrder[14], RenderOrder[15]}
  BY <1>2, <1>3
<1> QED
  BY <1>1, <1>4 DEF RenderOrder

\* The initial states have the types.
LEMMA TypeInit == Init => TypeInv
<1> SUFFICES ASSUME Init PROVE TypeInv
  OBVIOUS
<1>1. field \in [Fields -> Int]
  BY DEF Init
<1>2. perf \in Seq(Event) /\ reply \in Seq(Int)
  BY DEF Init
<1>3. opened \in BOOLEAN
  BY DEF Init
<1>4. event \in Event
  BY DEF Init, Event
<1>5. wpc \in [Workers -> WorkerStates]
  BY DEF Init, WorkerStates
<1> QED
  BY <1>1, <1>2, <1>3, <1>4, <1>5 DEF Init, TypeInv, PollStates, Holders

\* A field that is set keeps the types.
LEMMA SetType ==
    ASSUME TypeInv, NEW f \in Fields, NEW n \in Int,
           field' = [field EXCEPT ![f] = n]
    PROVE  field' \in [Fields -> Int]
  BY DEF TypeInv

\* A count keeps the types.
LEMMA AddType ==
    ASSUME TypeInv, NEW f \in Fields, NEW n \in Nat, Add(f, n)
    PROVE  field' \in [Fields -> Int] /\ lock' = lock
  BY DEF TypeInv, Add

\* Every action keeps the types.
LEMMA TypeStep == TypeInv /\ LockInv /\ [Next]_vars => TypeInv'
<1> SUFFICES ASSUME TypeInv, LockInv, [Next]_vars PROVE TypeInv'
  OBVIOUS
<1> USE DEF kernelVars, pollVars, apiVars, gaugeVars
<1>1. CASE \E e \in Event : Submit(e)
  <2>1. PICK e \in Event : Submit(e)
    BY <1>1
  <2>2. Append(perf, e) \in Seq(Event)
    BY AppendProperties DEF TypeInv
  <2>3. perf' \in {perf, Append(perf, e)} /\ unreported' \in {unreported, unreported + 1}
    BY <2>1 DEF Submit
  <2>4. perf' \in Seq(Event)
    BY <2>2, <2>3 DEF TypeInv
  <2>5. unreported' \in Nat
    BY <2>3 DEF TypeInv
  <2>6. emitted' \in Nat
    BY <2>1 DEF Submit, TypeInv
  <2> QED
    BY <2>1, <2>4, <2>5, <2>6 DEF Submit, TypeInv
<1>2. CASE HandleLost
  BY <1>2, AddType, FieldNames DEF HandleLost, TypeInv
<1>3. CASE HandleEvent
  BY <1>3, HeadTailProperties DEF HandleEvent, TypeInv, PollStates
<1>4. CASE CountEvent
  <2>1. field' \in [Fields -> Int]
    <3>1. "events_total" \in Fields /\ field["events_total"] + 1 \in Int
      BY FieldNames DEF TypeInv
    <3> QED
      BY <1>4, <3>1, SetType DEF CountEvent
  <2>2. lock' \in Holders /\ ppc' \in PollStates
    BY <1>4 DEF CountEvent, Holders, PollStates
  <2>3. UNCHANGED <<opened, perf, unreported, emitted, unseen, event, queued,
                    wpc, gpc, round, reply>>
    BY <1>4 DEF CountEvent
  <2> QED
    BY <2>1, <2>2, <2>3 DEF TypeInv
<1>5. CASE CountFate
  <2>1. field' \in [Fields -> Int]
    <3>1. PICK fate \in {"events_filtered", "events_passed"} :
                 field' = [field EXCEPT ![fate] = @ + 1]
      BY <1>5 DEF CountFate
    <3>2. field \in [Fields -> Int] /\ fate \in Fields
      BY FieldNames DEF TypeInv
    <3> QED
      BY <3>1, <3>2
  <2>2. lock' \in Holders
    BY <1>5 DEF CountFate, TypeInv, Holders
  <2>3. ppc' \in PollStates
    BY <1>5 DEF CountFate, Onward, PollStates
  <2>4. UNCHANGED <<opened, perf, unreported, emitted, unseen, event, queued,
                    wpc, gpc, round, reply>>
    BY <1>5 DEF CountFate
  <2> QED
    BY <2>1, <2>2, <2>3, <2>4 DEF TypeInv
<1>6. CASE CountSignal
  <2>1. field' \in [Fields -> Int] /\ lock' = lock
    BY <1>6, AddType, FieldNames DEF CountSignal
  <2> QED
    BY <1>6, <2>1 DEF CountSignal, TypeInv, Onward, PollStates
<1>7. CASE OnEvent
  BY <1>7 DEF OnEvent, TypeInv, PollStates
<1>8. CASE CountDetection
  <2>1. field' \in [Fields -> Int] /\ lock' = lock
    BY <1>8, AddType, FieldNames DEF CountDetection
  <2> QED
    BY <1>8, <2>1 DEF CountDetection, TypeInv, PollStates
<1>9. CASE HandleKill
  BY <1>9 DEF HandleKill, TypeInv, PollStates
<1>10. CASE CountOutcome
  <2>1. field' \in [Fields -> Int] /\ lock' = lock
    BY <1>10, AddType, FieldNames DEF CountOutcome
  <2>2. ppc' \in PollStates
    BY <1>10 DEF CountOutcome, PollStates
  <2> QED
    BY <1>10, <2>1, <2>2 DEF CountOutcome, TypeInv
<1>11. CASE Put
  BY <1>11 DEF Put, TypeInv, PollStates
<1>12. CASE \E w \in Workers : Get(w)
  BY <1>12 DEF Get, TypeInv, WorkerStates
<1>13. CASE \E w \in Workers : Delete(w)
  BY <1>13 DEF Delete, TypeInv, WorkerStates
<1>14. CASE \E w \in Workers : CountCall(w)
  <2>1. PICK w \in Workers : CountCall(w)
    BY <1>14
  <2>2. field' \in [Fields -> Int] /\ lock' = lock
    BY <2>1, AddType, FieldNames DEF CountCall
  <2> QED
    BY <2>1, <2>2 DEF CountCall, TypeInv, WorkerStates
<1>15. CASE GatherRaises
  BY <1>15 DEF GatherRaises, TypeInv
<1>16. CASE SetArmed
  <2>1. field' \in [Fields -> Int]
    <3>1. "armed_count" \in Fields /\ round + 1 \in Int
      BY FieldNames DEF TypeInv
    <3> QED
      BY <1>16, <3>1, SetType DEF SetArmed
  <2> QED
    BY <1>16, <2>1 DEF SetArmed, TypeInv, Holders
<1>17. CASE SetCaches
  <2>1. field' \in [Fields -> Int]
    <3>1. "cache_entries" \in Fields /\ round + 1 \in Int
      BY FieldNames DEF TypeInv
    <3> QED
      BY <1>17, <3>1, SetType DEF SetCaches
  <2>2. lock' \in Holders
    BY <1>17 DEF SetCaches, TypeInv, Holders
  <2> QED
    BY <1>17, <2>1, <2>2 DEF SetCaches, TypeInv
<1>18. CASE RenderStarts
  <2>1. reply' \in Seq(Int)
    <3>1. field["events_total"] \in Int
      BY FieldNames DEF TypeInv
    <3>2. RenderOrder[1] = "events_total"
      BY DEF RenderOrder
    <3> QED
      BY <1>18, <3>1, <3>2 DEF RenderStarts
  <2>2. lock' \in Holders
    BY <1>18 DEF RenderStarts, Holders
  <2>3. UNCHANGED <<kernelVars, field, pollVars, apiVars, gaugeVars>>
    BY <1>18 DEF RenderStarts
  <2> QED
    BY <2>1, <2>2, <2>3 DEF TypeInv
<1>19. CASE Render
  <2> DEFINE n == Len(reply) + 1
  <2>1. n \in 1 .. 15
    <3>1. 1 <= Len(reply) /\ Len(reply) <= 14
      BY <1>19 DEF Render, LockInv
    <3>2. Len(reply) \in Nat
      BY LenProperties DEF TypeInv
    <3> QED
      BY <3>1, <3>2
  <2>2. RenderOrder[n] \in Fields
    BY <2>1, FieldNames DEF Fields, Range
  <2>3. field[RenderOrder[n]] \in Int
    BY <2>2 DEF TypeInv
  <2> HIDE DEF n
  <2>4. reply' = Append(reply, field[RenderOrder[n]]) /\ lock' \in {"nobody", lock}
    BY <1>19 DEF Render, n
  <2>5. reply' \in Seq(Int)
    BY <2>3, <2>4, AppendProperties DEF TypeInv
  <2> QED
    BY <1>19, <2>4, <2>5 DEF Render, TypeInv, Holders
<1>20. CASE Send
  <2>1. reply' \in Seq(Int)
    BY <1>20 DEF Send
  <2> QED
    BY <1>20, <2>1 DEF Send, TypeInv
<1>21. CASE UNCHANGED vars
  BY <1>21 DEF vars, TypeInv
<1>22. CASE OpenPerfBuffer
  BY <1>22 DEF OpenPerfBuffer, TypeInv
<1> QED
  BY <1>1, <1>2, <1>3, <1>4, <1>5, <1>6, <1>7, <1>8, <1>9, <1>10, <1>11,
     <1>12, <1>13, <1>14, <1>15, <1>16, <1>17, <1>18, <1>19, <1>20, <1>21, <1>22
     DEF Next, Poll

-----------------------------------------------------------------------------
(* The lock.                                                               *)

\* The steps of the threads that neither take the lock nor give it back.
LEMMA LockKept ==
    ASSUME LockInv, UNCHANGED <<lock, gpc, reply>>,
           ppc = "counted" <=> ppc' = "counted"
    PROVE  LockInv'
  BY DEF LockInv

\* Every action keeps the order of the lock.
LEMMA LockStep == TypeInv /\ LockInv /\ [Next]_vars => LockInv'
<1> SUFFICES ASSUME TypeInv, LockInv, [Next]_vars PROVE LockInv'
  OBVIOUS
<1> USE DEF kernelVars, pollVars, apiVars, gaugeVars
<1>1. CASE OpenPerfBuffer \/ \E e \in Event : Submit(e)
  BY <1>1, LockKept DEF OpenPerfBuffer, Submit
<1>2. CASE HandleLost \/ HandleEvent
  BY <1>2, LockKept DEF HandleLost, HandleEvent, Add
<1>3. CASE CountEvent
  BY <1>3 DEF CountEvent, LockInv
<1>4. CASE CountFate
  BY <1>4 DEF CountFate, Onward, LockInv
<1>5. CASE CountSignal
  BY <1>5, LockKept DEF CountSignal, Onward, Add
<1>6. CASE OnEvent \/ CountDetection \/ HandleKill \/ CountOutcome \/ Put
  BY <1>6, LockKept DEF OnEvent, CountDetection, HandleKill, CountOutcome, Put, Add
<1>7. CASE \E w \in Workers : Get(w) \/ Delete(w) \/ CountCall(w)
  BY <1>7, LockKept DEF Get, Delete, CountCall, Add
<1>8. CASE GatherRaises
  BY <1>8, LockKept DEF GatherRaises
<1>9. CASE SetArmed
  BY <1>9 DEF SetArmed, LockInv
<1>10. CASE SetCaches
  BY <1>10 DEF SetCaches, LockInv
<1>11. CASE RenderStarts
  <2>1. Len(reply') = 1
    BY <1>11 DEF RenderStarts
  <2> QED
    BY <1>11, <2>1 DEF RenderStarts, LockInv
<1>12. CASE Render
  <2>1. /\ lock = "render" /\ UNCHANGED <<ppc, gpc>>
        /\ Len(reply') = Len(reply) + 1
        /\ lock' = IF Len(reply) + 1 = 15 THEN "nobody" ELSE lock
    BY <1>12, FieldNames, AppendProperties DEF Render, TypeInv
  <2>2. Len(reply) \in Nat
    BY LenProperties DEF TypeInv
  <2> QED
    BY <2>1, <2>2 DEF LockInv
<1>13. CASE Send
  <2>1. Len(reply') = 0 /\ lock # "render" /\ UNCHANGED <<lock, ppc, gpc>>
    BY <1>13, FieldNames DEF Send, LockInv
  <2> QED
    BY <2>1 DEF LockInv
<1>14. CASE UNCHANGED vars
  BY <1>14, LockKept DEF vars
<1> QED
  BY <1>1, <1>2, <1>3, <1>4, <1>5, <1>6, <1>7, <1>8, <1>9, <1>10, <1>11,
     <1>12, <1>13, <1>14 DEF Next, Poll

-----------------------------------------------------------------------------
(* No event is lost in silence.                                            *)

\* What is counted besides events changes none of the terms.
LEMMA AccountKept ==
    ASSUME NothingUncounted, UNCHANGED kernelVars,
           field'["events_total"] = field["events_total"],
           field'["events_dropped"] = field["events_dropped"],
           ppc = "arrived" <=> ppc' = "arrived"
    PROVE  NothingUncounted'
<1>1. Arriving' = Arriving
  BY DEF Arriving
<1> QED
  BY <1>1 DEF NothingUncounted, kernelVars

\* A count of another field leaves the two.
LEMMA AddElsewhere ==
    ASSUME TypeInv, NEW f \in Fields, NEW n, Add(f, n)
    PROVE  /\ lock = "nobody" /\ lock' = lock
           /\ \A g \in Fields \ {f} : field'[g] = field[g]
  BY DEF TypeInv, Add

\* Every action keeps the account.
LEMMA AccountStep ==
    TypeInv /\ NothingUncounted /\ [Next]_vars => NothingUncounted'
<1> SUFFICES ASSUME TypeInv, NothingUncounted, [Next]_vars
             PROVE  NothingUncounted'
  OBVIOUS
<1> USE DEF kernelVars, pollVars, apiVars, gaugeVars
<1>0. /\ Len(perf) \in Nat /\ unreported \in Nat /\ emitted \in Nat
      /\ unseen \in Nat
      /\ field["events_total"] \in Int /\ field["events_dropped"] \in Int
      /\ Arriving \in Int
  BY FieldNames, LenProperties DEF TypeInv, Arriving
<1>1. CASE \E e \in Event : Submit(e)
  <2>1. PICK e \in Event : Submit(e)
    BY <1>1
  <2>2. /\ UNCHANGED <<opened, unseen, field>>
        /\ emitted' = emitted + 1 /\ Arriving' = Arriving
    BY <2>1 DEF Submit, Arriving
  <2>3. CASE opened /\ perf' = Append(perf, e) /\ UNCHANGED unreported
    <3>1. perf \in Seq(Event)
      BY DEF TypeInv
    <3>2. Len(perf') = Len(perf) + 1
      BY <2>3, <3>1, AppendProperties
    <3> QED
      BY <1>0, <2>2, <2>3, <3>2 DEF NothingUncounted
  <2>4. CASE opened /\ unreported' = unreported + 1 /\ UNCHANGED perf
    BY <1>0, <2>2, <2>4 DEF NothingUncounted
  <2>5. CASE ~opened /\ UNCHANGED <<perf, unreported>>
    BY <2>2, <2>5 DEF NothingUncounted
  <2> QED
    BY <2>1, <2>3, <2>4, <2>5 DEF Submit
<1>2. CASE HandleLost
  <2>1. /\ UNCHANGED <<opened, perf, emitted, unseen, ppc>>
        /\ unreported' = 0
        /\ field'["events_dropped"] = field["events_dropped"] + unreported
        /\ field'["events_total"] = field["events_total"]
        /\ Arriving' = Arriving
    BY <1>2, FieldNames DEF HandleLost, Add, TypeInv, Arriving
  <2> QED
    BY <1>0, <2>1 DEF NothingUncounted
<1>3. CASE HandleEvent
  <2>1. /\ UNCHANGED <<opened, unreported, emitted, unseen, field>>
        /\ perf # <<>> /\ perf' = Tail(perf)
        /\ Arriving = 0 /\ Arriving' = 1
    BY <1>3 DEF HandleEvent, Arriving
  <2>2. Len(perf') = Len(perf) - 1
    BY <2>1, HeadTailProperties DEF TypeInv
  <2> QED
    BY <1>0, <2>1, <2>2 DEF NothingUncounted
<1>4. CASE CountEvent
  <2>1. /\ UNCHANGED <<opened, perf, unreported, emitted, unseen>>
        /\ Arriving = 1 /\ Arriving' = 0
        /\ field'["events_total"] = field["events_total"] + 1
        /\ field'["events_dropped"] = field["events_dropped"]
    BY <1>4, FieldNames DEF CountEvent, TypeInv, Arriving
  <2> QED
    BY <1>0, <2>1 DEF NothingUncounted
<1>5. CASE CountFate
  <2>1. /\ field'["events_total"] = field["events_total"]
        /\ field'["events_dropped"] = field["events_dropped"]
    BY <1>5, FieldNames DEF CountFate, TypeInv
  <2> QED
    BY <1>5, <2>1, AccountKept DEF CountFate, Onward
<1>6. CASE CountSignal
  <2>1. /\ field'["events_total"] = field["events_total"]
        /\ field'["events_dropped"] = field["events_dropped"]
    BY <1>6, FieldNames, AddElsewhere DEF CountSignal
  <2> QED
    BY <1>6, <2>1, AccountKept DEF CountSignal, Onward
<1>7. CASE OnEvent \/ HandleKill \/ Put
  BY <1>7, AccountKept DEF OnEvent, HandleKill, Put
<1>8. CASE CountDetection \/ CountOutcome
  <2>1. PICK f \in Fields \ {"events_total", "events_dropped"} : Add(f, 1)
    BY <1>8, FieldNames DEF CountDetection, CountOutcome
  <2>2. /\ field'["events_total"] = field["events_total"]
        /\ field'["events_dropped"] = field["events_dropped"]
    BY <2>1, FieldNames, AddElsewhere
  <2> QED
    BY <1>8, <2>2, AccountKept DEF CountDetection, CountOutcome
<1>9. CASE \E w \in Workers : Get(w) \/ Delete(w)
  BY <1>9, AccountKept DEF Get, Delete
<1>10. CASE \E w \in Workers : CountCall(w)
  <2>1. PICK f \in Fields \ {"events_total", "events_dropped"} : Add(f, 1)
    BY <1>10, FieldNames DEF CountCall
  <2>2. /\ field'["events_total"] = field["events_total"]
        /\ field'["events_dropped"] = field["events_dropped"]
    BY <2>1, FieldNames, AddElsewhere
  <2> QED
    BY <1>10, <2>2, AccountKept DEF CountCall
<1>11. CASE GatherRaises \/ SetArmed \/ SetCaches
  <2>1. /\ field'["events_total"] = field["events_total"]
        /\ field'["events_dropped"] = field["events_dropped"]
    BY <1>11, FieldNames DEF GatherRaises, SetArmed, SetCaches, TypeInv
  <2> QED
    BY <1>11, <2>1, AccountKept DEF GatherRaises, SetArmed, SetCaches
<1>12. CASE RenderStarts \/ Render \/ Send \/ UNCHANGED vars
  BY <1>12, AccountKept DEF RenderStarts, Render, Send, vars
<1>13. CASE OpenPerfBuffer
  <2>1. /\ opened' = TRUE /\ ~opened /\ unseen' = emitted
        /\ UNCHANGED <<perf, unreported, emitted, field>>
        /\ Arriving' = Arriving
    BY <1>13 DEF OpenPerfBuffer, Arriving
  <2> QED
    BY <1>0, <2>1 DEF NothingUncounted
<1> QED
  BY <1>1, <1>2, <1>3, <1>4, <1>5, <1>6, <1>7, <1>8, <1>9, <1>10, <1>11,
     <1>12, <1>13 DEF Next, Poll

\* Nothing is lost or counted to begin with.
LEMMA AccountInit == Init => LockInv /\ NothingUncounted
<1> SUFFICES ASSUME Init PROVE LockInv /\ NothingUncounted
  OBVIOUS
<1>1. Len(perf) = 0 /\ Len(reply) = 0
  BY DEF Init
<1>2. field["events_total"] = 0 /\ field["events_dropped"] = 0
  BY FieldNames DEF Init
<1> QED
  BY <1>1, <1>2 DEF Init, LockInv, NothingUncounted, Arriving

\* Every event the kernel submitted since the perf buffer is open is counted
\* as delivered or as lost, once, or is still on its way, with any number of
\* threads and any buffer.  Those before are never counted.
THEOREM EventsAccounted == Spec => []NothingUncounted
  BY TypeInit, TypeStep, LockStep, AccountInit, AccountStep, PTL DEF Spec

-----------------------------------------------------------------------------
(* What a scrape shows.                                                    *)

\* The sums that hold of the fields when nobody is in the middle of an
\* update, and what is missing from them when somebody is.
SumInv ==
    /\ field["events_total"] = field["events_filtered"] + field["events_passed"]
                                + (IF lock = "poll" THEN 1 ELSE 0)
    /\ lock # "gauges" => field["armed_count"] = field["cache_entries"]
    /\ lock = "gauges" => field["armed_count"] = round + 1

\* A reply in the making says what the fields say, and a complete one keeps
\* the sums of the moment it was made.
ReplyInv ==
    /\ lock = "render" => \A i \in 1 .. 15 :
            i <= Len(reply) => reply[i] = field[RenderOrder[i]]
    /\ Len(reply) = 15 => /\ reply[1] = reply[3] + reply[4]
                          /\ reply[14] = reply[15]

SumFields == {"events_total", "events_filtered", "events_passed",
              "armed_count", "cache_entries"}

\* The steps that have no part in any of this.
Apart ==
    /\ UNCHANGED <<lock, reply>>
    /\ lock = "nobody" \/ UNCHANGED field
    /\ \A f \in SumFields : field'[f] = field[f]
    /\ lock # "gauges" \/ UNCHANGED round

\* They keep the sums and the reply.
LEMMA ApartKeeps == ASSUME SumInv, ReplyInv, Apart PROVE SumInv' /\ ReplyInv'
  BY DEF SumInv, ReplyInv, Apart, SumFields

\* Counting an outcome is such a step.
LEMMA AddApart ==
    ASSUME TypeInv, NEW f \in Fields \ SumFields, NEW n, Add(f, n),
           UNCHANGED <<reply, round>>
    PROVE  Apart
  BY AddElsewhere, FieldNames DEF Apart, SumFields

\* The steps that update one of the sums do so with the lock, which keeps
\* render out.
LEMMA UpdateKeeps ==
    ASSUME TypeInv, LockInv, SumInv, ReplyInv,
           CountEvent \/ CountFate \/ SetArmed \/ SetCaches
    PROVE  SumInv' /\ ReplyInv'
<1> USE FieldNames DEF kernelVars, pollVars, apiVars, gaugeVars
<1>0. \A f \in SumFields : f \in Fields /\ field[f] \in Int
  BY DEF TypeInv, SumFields
<1>1. lock # "render" /\ lock' # "render" /\ UNCHANGED reply
  BY DEF CountEvent, CountFate, SetArmed, SetCaches, LockInv
<1>2. ReplyInv'
  BY <1>1 DEF ReplyInv
<1>3. CASE CountEvent
  <2>1. /\ lock = "nobody" /\ lock' = "poll"
        /\ field'["events_total"] = field["events_total"] + 1
        /\ \A f \in SumFields \ {"events_total"} : field'[f] = field[f]
    BY <1>3 DEF CountEvent, TypeInv, SumFields
  <2> QED
    BY <1>0, <1>2, <2>1 DEF SumInv, SumFields
<1>4. CASE CountFate
  <2>1. lock = "poll" /\ lock' = "nobody"
    BY <1>4 DEF CountFate, LockInv
  <2>2. \E fate \in {"events_filtered", "events_passed"} :
            /\ field'[fate] = field[fate] + 1
            /\ \A f \in SumFields \ {fate} : field'[f] = field[f]
    BY <1>4 DEF CountFate, TypeInv, SumFields
  <2> QED
    BY <1>0, <1>2, <2>1, <2>2 DEF SumInv, SumFields
<1>5. CASE SetArmed
  <2>1. /\ lock = "nobody" /\ lock' = "gauges" /\ round' = round
        /\ field'["armed_count"] = round + 1
        /\ \A f \in SumFields \ {"armed_count"} : field'[f] = field[f]
    BY <1>5 DEF SetArmed, TypeInv, SumFields
  <2> QED
    BY <1>0, <1>2, <2>1 DEF SumInv, SumFields
<1>6. CASE SetCaches
  <2>1. lock = "gauges" /\ lock' = "nobody"
    BY <1>6 DEF SetCaches, LockInv
  <2>2. /\ field'["cache_entries"] = round + 1
        /\ \A f \in SumFields \ {"cache_entries"} : field'[f] = field[f]
    BY <1>6 DEF SetCaches, TypeInv, SumFields
  <2> QED
    BY <1>0, <1>2, <2>1, <2>2 DEF SumInv, SumFields
<1> QED
  BY <1>3, <1>4, <1>5, <1>6

\* render reads while nothing changes.
LEMMA RenderKeeps ==
    ASSUME TypeInv, LockInv, SumInv, ReplyInv, RenderStarts \/ Render \/ Send
    PROVE  SumInv' /\ ReplyInv'
<1> USE FieldNames DEF kernelVars, pollVars, apiVars, gaugeVars
<1>1. UNCHANGED <<field, round>>
  BY DEF RenderStarts, Render, Send
<1>2. \/ lock \notin {"poll", "gauges"} /\ lock' \notin {"poll", "gauges"}
      \/ UNCHANGED lock
  BY DEF RenderStarts, Render, Send
<1>3. SumInv'
  BY <1>1, <1>2 DEF SumInv
<1>4. CASE RenderStarts
  <2>1. Len(reply') = 1 /\ reply'[1] = field[RenderOrder[1]]
    BY <1>4 DEF RenderStarts
  <2> QED
    BY <1>1, <1>3, <2>1 DEF ReplyInv
<1>5. CASE Render
  <2> DEFINE n == Len(reply) + 1
  <2>0. Len(reply) \in Nat /\ 1 <= Len(reply) /\ Len(reply) <= 14
    BY <1>5, LenProperties DEF Render, LockInv, TypeInv
  <2>1. n \in 1 .. 15
    BY <2>0
  <2>2. field[RenderOrder[n]] \in Int
    BY <2>1 DEF TypeInv, Fields, Range
  <2>3. /\ Len(reply') = n /\ reply'[n] = field[RenderOrder[n]]
        /\ \A i \in 1 .. 15 : i <= Len(reply) => reply'[i] = reply[i]
    BY <1>5, <2>0, <2>2, AppendProperties DEF Render, TypeInv
  <2>4. \A i \in 1 .. 15 : i <= n => reply'[i] = field[RenderOrder[i]]
    <3>1. \A i \in 1 .. 15 : i <= n => i <= Len(reply) \/ i = n
      BY <2>0
    <3>2. \A i \in 1 .. 15 : i <= Len(reply) => reply[i] = field[RenderOrder[i]]
      BY <1>5 DEF Render, ReplyInv
    <3> QED
      BY <2>3, <3>1, <3>2
  <2> HIDE DEF n
  <2>5. ASSUME Len(reply') = 15
        PROVE  reply'[1] = reply'[3] + reply'[4] /\ reply'[14] = reply'[15]
    <3>0. \A i \in 1 .. 15 : i <= n
      BY <2>3, <2>5
    <3>1. \A i \in 1 .. 15 : reply'[i] = field[RenderOrder[i]]
      BY <2>4, <3>0, Zenon
    <3>2. /\ reply'[1] = field["events_total"]
          /\ reply'[3] = field["events_filtered"]
          /\ reply'[4] = field["events_passed"]
          /\ reply'[14] = field["armed_count"]
          /\ reply'[15] = field["cache_entries"]
      BY <3>1 DEF RenderOrder
    <3>3. /\ field["events_total"] = field["events_filtered"] + field["events_passed"] + 0
          /\ field["armed_count"] = field["cache_entries"]
      BY <1>5 DEF Render, SumInv
    <3>4. field["events_filtered"] \in Int /\ field["events_passed"] \in Int
      BY DEF TypeInv
    <3> QED
      BY <3>2, <3>3, <3>4
  <2> QED
    BY <1>1, <1>3, <2>3, <2>4, <2>5 DEF ReplyInv
<1>6. CASE Send
  <2>1. Len(reply') = 0 /\ lock' # "render"
    BY <1>6 DEF Send, LockInv
  <2> QED
    BY <1>3, <2>1 DEF ReplyInv
<1> QED
  BY <1>4, <1>5, <1>6

\* Every action keeps the sums and the reply.
LEMMA ReplyStep ==
    TypeInv /\ LockInv /\ SumInv /\ ReplyInv /\ [Next]_vars => SumInv' /\ ReplyInv'
<1> SUFFICES ASSUME TypeInv, LockInv, SumInv, ReplyInv, [Next]_vars
             PROVE  SumInv' /\ ReplyInv'
  OBVIOUS
<1> USE DEF kernelVars, pollVars, apiVars, gaugeVars
<1>1. CASE OpenPerfBuffer \/ \E e \in Event : Submit(e)
  BY <1>1, ApartKeeps DEF OpenPerfBuffer, Submit, Apart
<1>2. CASE HandleLost
  <2>1. Add("events_dropped", unreported) /\ UNCHANGED <<reply, round>>
    BY <1>2 DEF HandleLost
  <2> QED
    BY <2>1, FieldNames, AddApart, ApartKeeps DEF SumFields
<1>3. CASE HandleEvent \/ OnEvent \/ HandleKill \/ Put
  BY <1>3, ApartKeeps DEF HandleEvent, OnEvent, HandleKill, Put, Apart
<1>4. CASE CountSignal \/ CountDetection \/ CountOutcome
  <2>1. UNCHANGED <<reply, round>> /\ \E f \in Fields \ SumFields : Add(f, 1)
    BY <1>4, FieldNames DEF CountSignal, CountDetection, CountOutcome, SumFields
  <2> QED
    BY <2>1, AddApart, ApartKeeps
<1>5. CASE \E w \in Workers : Get(w) \/ Delete(w)
  BY <1>5, ApartKeeps DEF Get, Delete, Apart
<1>6. CASE \E w \in Workers : CountCall(w)
  <2>1. UNCHANGED <<reply, round>> /\ \E f \in Fields \ SumFields : Add(f, 1)
    BY <1>6, FieldNames DEF CountCall, SumFields
  <2> QED
    BY <2>1, AddApart, ApartKeeps
<1>7. CASE GatherRaises
  BY <1>7, ApartKeeps DEF GatherRaises, Apart, LockInv
<1>8. CASE CountEvent \/ CountFate \/ SetArmed \/ SetCaches
  BY <1>8, UpdateKeeps
<1>9. CASE RenderStarts \/ Render \/ Send
  BY <1>9, RenderKeeps
<1>10. CASE UNCHANGED vars
  BY <1>10, ApartKeeps DEF vars, Apart
<1> QED
  BY <1>1, <1>2, <1>3, <1>4, <1>5, <1>6, <1>7, <1>8, <1>9, <1>10 DEF Next, Poll

\* The sums hold of zeros.
LEMMA ReplyInit == Init => SumInv /\ ReplyInv
<1> SUFFICES ASSUME Init PROVE SumInv /\ ReplyInv
  OBVIOUS
<1>1. \A f \in SumFields : field[f] = 0
  BY FieldNames DEF Init, SumFields
<1>2. Len(reply) = 0 /\ lock = "nobody"
  BY DEF Init
<1> QED
  BY <1>1, <1>2 DEF SumInv, ReplyInv, SumFields

\* Where a reply has a field.
LEMMA ValueAt ==
    ASSUME NEW k \in 1 .. 15
    PROVE  Value(RenderOrder[k]) = reply[k]
<1>1. \A i \in 1 .. 15 : RenderOrder[i] = RenderOrder[k] => i = k
  BY DEF RenderOrder
<1>2. (CHOOSE i \in DOMAIN RenderOrder : RenderOrder[i] = RenderOrder[k]) = k
  BY <1>1, FieldNames
<1> QED
  BY <1>2 DEF Value

\* The fields that the sums compare.
LEMMA Values ==
    /\ Value("events_total") = reply[1]
    /\ Value("events_filtered") = reply[3]
    /\ Value("events_passed") = reply[4]
    /\ Value("armed_count") = reply[14]
    /\ Value("cache_entries") = reply[15]
<1>1. /\ Value(RenderOrder[1]) = reply[1]
      /\ Value(RenderOrder[3]) = reply[3]
      /\ Value(RenderOrder[4]) = reply[4]
      /\ Value(RenderOrder[14]) = reply[14]
      /\ Value(RenderOrder[15]) = reply[15]
  BY ValueAt
<1> QED
  BY <1>1 DEF RenderOrder

\* However the threads interleave, a scrape never shows an event that is
\* counted and neither filtered nor passed.
THEOREM BalancedScrape == Spec => []ScrapeBalanced
<1>1. ReplyInv => ScrapeBalanced
  BY Values, FieldNames DEF ReplyInv, ScrapeBalanced, Scraped
<1> QED
  BY <1>1, TypeInit, TypeStep, LockStep, AccountInit, ReplyInit, ReplyStep, PTL
     DEF Spec

\* The gauges of a scrape are of one refresh.
THEOREM WholeRefresh == Spec => []GaugesOfOneRefresh
<1>1. ReplyInv => GaugesOfOneRefresh
  BY Values, FieldNames DEF ReplyInv, GaugesOfOneRefresh, Scraped
<1> QED
  BY <1>1, TypeInit, TypeStep, LockStep, AccountInit, ReplyInit, ReplyStep, PTL
     DEF Spec

-----------------------------------------------------------------------------
(* Nothing is counted before its cause.                                    *)

\* The workers that have a request, and those that have its Event to count.
Busy == {w \in Workers : wpc[w] # "get"}
Noting == {w \in Workers : wpc[w] = "events_emitted"}

\* Results of requests, those counted and those that may yet be; and the
\* Events, likewise.
Results == field["api_deletes"] + field["api_errors"] + queued + Cardinality(Busy)
Notes == field["events_emitted"] + queued + Cardinality(Noting)

\* What is counted by a does not exceed what is counted by b, and is behind
\* it while the poll thread is at one of the stages, on its way to a.
Before(a, b, stages) == a <= b /\ (ppc \in stages => a < b)

\* The inductive invariant: each event is behind its signal and detection,
\* each KILL behind its outcomes, and each KILL behind its request, which is
\* with the poll thread, in the queue, with a worker or done.
EventCauses ==
    /\ Before(field["killed_in_kernel"], field["events_total"],
              {"counted", "signalled"})
    /\ Before(field["kill"] + field["warn"], field["events_passed"],
              {"on_event", "warn", "kill"})
    /\ ppc = "signalled" /\ ~event.noise =>
          field["kill"] + field["warn"] < field["events_passed"]

KillCauses ==
    /\ Before(field["cgroup_kills"] + field["resolve_failures"], field["kill"],
              {"handle_kill", "resolve_failures", "escalations", "cgroup_kills"})
    /\ Before(field["escalations"], field["kill"], {"handle_kill", "escalations"})

RequestCauses ==
    /\ Before(Results, field["kill"],
              {"handle_kill", "escalations", "cgroup_kills", "put"})
    /\ Before(Notes, field["kill"],
              {"handle_kill", "escalations", "events_emitted", "cgroup_kills",
               "put"})

\* No request is less than none.
QueueInv == queued >= 0 /\ IsFiniteSet(Busy)

CauseInv == EventCauses /\ KillCauses /\ RequestCauses /\ QueueInv

CauseFields == {"events_total", "events_passed", "kill", "warn", "escalations",
                "killed_in_kernel", "cgroup_kills", "api_deletes",
                "api_errors", "events_emitted", "resolve_failures"}

\* What the leaves below know of the numbers.
LEMMA CauseNumbers ==
    ASSUME TypeInv
    PROVE  /\ \A f \in CauseFields : f \in Fields /\ field[f] \in Int
           /\ queued \in Int
           /\ IsFiniteSet(Busy) =>
                 /\ Cardinality(Busy) \in Nat
                 /\ Cardinality(Noting) \in Nat
                 /\ IsFiniteSet(Noting)
<1>1. \A f \in CauseFields : f \in Fields /\ field[f] \in Int
  BY FieldNames DEF TypeInv, CauseFields
<1>2. ASSUME IsFiniteSet(Busy)
      PROVE  /\ Cardinality(Busy) \in Nat
             /\ Cardinality(Noting) \in Nat
             /\ IsFiniteSet(Noting)
  <2>1. Noting \in SUBSET Busy
    BY DEF Noting, Busy
  <2>2. IsFiniteSet(Noting)
    BY <1>2, <2>1, FS_Subset
  <2> QED
    BY <1>2, <2>2, FS_CardinalityType
<1> QED
  BY <1>1, <1>2 DEF TypeInv

\* A count of one field, seen by the others.
LEMMA AddOne ==
    ASSUME TypeInv, NEW f \in CauseFields, Add(f, 1)
    PROVE  /\ field'[f] = field[f] + 1
           /\ \A g \in CauseFields \ {f} : field'[g] = field[g]
<1>1. /\ field \in [Fields -> Int] /\ CauseFields \subseteq Fields
      /\ field' = [field EXCEPT ![f] = field[f] + 1]
  BY CauseNumbers DEF TypeInv, Add
<1> QED
  BY <1>1

\* Steps that count none of these and leave the threads where they are.
LEMMA CausesKept ==
    ASSUME CauseInv, UNCHANGED <<ppc, event, queued, wpc>>,
           \A f \in CauseFields : field'[f] = field[f]
    PROVE  CauseInv'
<1>1. Busy' = Busy /\ Noting' = Noting
  BY DEF Busy, Noting
<1>2. Results' = Results /\ Notes' = Notes
  BY <1>1 DEF Results, Notes, CauseFields
<1>3. EventCauses' /\ KillCauses'
  BY DEF CauseInv, EventCauses, KillCauses, Before, CauseFields
<1>4. RequestCauses' /\ QueueInv'
  BY <1>1, <1>2 DEF CauseInv, RequestCauses, QueueInv, Before, CauseFields
<1> QED
  BY <1>3, <1>4 DEF CauseInv

\* The steps of the poll thread before handle_kill.
LEMMA EventStepCauses ==
    ASSUME TypeInv, CauseInv,
           HandleEvent \/ CountEvent \/ CountFate \/ CountSignal \/ OnEvent
    PROVE  CauseInv'
<1>1. UNCHANGED <<queued, wpc>>
  BY DEF HandleEvent, CountEvent, CountFate, CountSignal, OnEvent, apiVars
<1>2. Busy' = Busy /\ Noting' = Noting
  BY <1>1 DEF Busy, Noting
<1>3. /\ ppc \in {"poll", "arrived", "counted", "signalled", "on_event"}
      /\ ppc' \in {"poll", "arrived", "counted", "signalled", "on_event", "warn",
                   "kill"}
  BY DEF HandleEvent, CountEvent, CountFate, CountSignal, OnEvent, Onward
<1>4. \A f \in CauseFields \ {"events_total", "events_passed",
                              "killed_in_kernel"} : field'[f] = field[f]
  <2>1. CASE HandleEvent \/ OnEvent
    BY <2>1 DEF HandleEvent, OnEvent
  <2>2. CASE CountEvent
    BY <2>2, CauseNumbers DEF CountEvent, TypeInv
  <2>3. CASE CountFate
    BY <2>3, CauseNumbers DEF CountFate, TypeInv, CauseFields
  <2>4. CASE CountSignal
    BY <2>4, AddOne DEF CountSignal, CauseFields
  <2> QED
    BY <2>1, <2>2, <2>3, <2>4
<1>5. KillCauses'
  BY <1>3, <1>4 DEF CauseInv, KillCauses, Before, CauseFields
<1>6. RequestCauses' /\ QueueInv'
  <2>1. Results' = Results /\ Notes' = Notes /\ field'["kill"] = field["kill"]
    BY <1>1, <1>2, <1>4 DEF Results, Notes, CauseFields
  <2> QED
    BY <1>1, <1>2, <1>3, <2>1 DEF CauseInv, RequestCauses, QueueInv, Before
<1>7. EventCauses'
  <2>1. /\ field'["kill"] = field["kill"] /\ field'["warn"] = field["warn"]
        /\ \A f \in {"killed_in_kernel", "events_total", "events_passed",
                     "kill", "warn"} : f \in CauseFields /\ field[f] \in Int
    BY <1>4, CauseNumbers DEF CauseFields
  <2>2. CASE HandleEvent
    <3>1. field' = field /\ ppc' = "arrived"
      BY <2>2 DEF HandleEvent
    <3> QED
      BY <3>1 DEF CauseInv, EventCauses, Before
  <2>3. CASE CountEvent
    <3>1. /\ ppc' = "counted"
          /\ field'["events_total"] = field["events_total"] + 1
          /\ field'["events_passed"] = field["events_passed"]
          /\ field'["killed_in_kernel"] = field["killed_in_kernel"]
      BY <2>3, CauseNumbers DEF CountEvent, TypeInv, CauseFields
    <3> QED
      BY <2>1, <3>1 DEF CauseInv, EventCauses, Before
  <2>4. CASE CountFate
    <3>1. /\ ppc = "counted" /\ event' = event
          /\ ppc' \in {"signalled", Onward}
          /\ field'["events_total"] = field["events_total"]
          /\ field'["killed_in_kernel"] = field["killed_in_kernel"]
      BY <2>4, CauseNumbers DEF CountFate, TypeInv, CauseFields, pollVars
    <3>2. IF event.noise
          THEN field'["events_passed"] = field["events_passed"]
          ELSE field'["events_passed"] = field["events_passed"] + 1
      BY <2>4, CauseNumbers DEF CountFate, TypeInv, CauseFields
    <3>3. ppc' = "signalled" \/ ppc' = IF event.noise THEN "poll" ELSE "on_event"
      BY <3>1 DEF Onward
    <3> QED
      BY <2>1, <3>1, <3>2, <3>3 DEF CauseInv, EventCauses, Before
  <2>5. CASE CountSignal
    <3>1. /\ ppc = "signalled" /\ ppc' = Onward /\ event' = event
          /\ field'["killed_in_kernel"] = field["killed_in_kernel"] + 1
          /\ field'["events_total"] = field["events_total"]
          /\ field'["events_passed"] = field["events_passed"]
      BY <2>5, AddOne DEF CountSignal, CauseFields, pollVars
    <3> QED
      BY <2>1, <3>1 DEF CauseInv, EventCauses, Before, Onward
  <2>6. CASE OnEvent
    <3>1. field' = field /\ ppc = "on_event" /\ ppc' \in {"poll", "warn", "kill"}
      BY <2>6 DEF OnEvent
    <3> QED
      BY <3>1 DEF CauseInv, EventCauses, Before
  <2> QED
    BY <2>2, <2>3, <2>4, <2>5, <2>6
<1> QED
  BY <1>5, <1>6, <1>7 DEF CauseInv

\* A transition to WARN or KILL.
LEMMA DetectionCauses ==
    ASSUME TypeInv, CauseInv, CountDetection
    PROVE  CauseInv'
<1>1. UNCHANGED <<queued, wpc>> /\ Busy' = Busy /\ Noting' = Noting
  BY DEF CountDetection, apiVars, Busy, Noting
<1>2. \A f \in CauseFields : field[f] \in Int
  BY CauseNumbers
<1>3. \A f \in CauseFields \ {"kill", "warn"} : field'[f] = field[f]
  BY AddOne DEF CountDetection, CauseFields
<1>4. \/ /\ ppc = "warn" /\ ppc' = "poll"
         /\ field'["warn"] = field["warn"] + 1 /\ field'["kill"] = field["kill"]
      \/ /\ ppc = "kill" /\ ppc' = "handle_kill"
         /\ field'["kill"] = field["kill"] + 1 /\ field'["warn"] = field["warn"]
  BY AddOne DEF CountDetection, CauseFields
<1>5. EventCauses'
  BY <1>2, <1>3, <1>4 DEF CauseInv, EventCauses, Before, CauseFields
<1>6. KillCauses'
  BY <1>2, <1>3, <1>4 DEF CauseInv, KillCauses, Before, CauseFields
<1>7. RequestCauses' /\ QueueInv'
  <2>1. Results' = Results /\ Notes' = Notes
    BY <1>1, <1>3 DEF Results, Notes, CauseFields
  <2>2. Results \in Int /\ Notes \in Int /\ field["kill"] \in Int
    BY CauseNumbers DEF CauseInv, QueueInv, Results, Notes, CauseFields
  <2> QED
    BY <1>1, <1>4, <2>1, <2>2 DEF CauseInv, RequestCauses, QueueInv, Before
<1> QED
  BY <1>5, <1>6, <1>7 DEF CauseInv

\* The steps of handle_kill.
LEMMA KillStepCauses ==
    ASSUME TypeInv, CauseInv, HandleKill \/ CountOutcome \/ Put
    PROVE  CauseInv'
<1> DEFINE outcomes == {"resolve_failures", "escalations", "events_emitted",
                        "cgroup_kills"}
<1>1. wpc' = wpc /\ Busy' = Busy /\ Noting' = Noting
  BY DEF HandleKill, CountOutcome, Put, apiVars, Busy, Noting
<1>2. \A f \in CauseFields : field[f] \in Int
  BY CauseNumbers
<1>3. \A f \in CauseFields \ outcomes : field'[f] = field[f]
  BY AddOne DEF HandleKill, CountOutcome, Put, CauseFields
<1>4. EventCauses'
  <2>1. ppc' \in {"poll", "put", "handle_kill"} \cup outcomes
    BY DEF HandleKill, CountOutcome, Put
  <2> QED
    BY <1>3, <2>1 DEF CauseInv, EventCauses, Before, CauseFields
<1>5. CASE HandleKill
  <2>1. /\ field' = field /\ queued' = queued
        /\ ppc = "handle_kill"
        /\ ppc' \in {"poll", "put"} \cup outcomes
    BY <1>5 DEF HandleKill, apiVars
  <2>2. KillCauses'
    BY <2>1 DEF CauseInv, KillCauses, Before
  <2>3. RequestCauses' /\ QueueInv'
    BY <1>1, <2>1 DEF CauseInv, RequestCauses, QueueInv, Before, Results, Notes
  <2> QED
    BY <1>4, <2>2, <2>3 DEF CauseInv
<1>6. CASE CountOutcome
  <2>1. /\ ppc \in outcomes /\ queued' = queued
        /\ field'[ppc] = field[ppc] + 1
        /\ \A f \in CauseFields \ {ppc} : field'[f] = field[f]
    BY <1>6, AddOne DEF CountOutcome, CauseFields, apiVars
  <2>2. /\ ppc = "escalations" =>
              ppc' \in {"poll", "events_emitted", "cgroup_kills", "put"}
        /\ ppc = "cgroup_kills" => ppc' = "put"
        /\ ppc \in {"resolve_failures", "events_emitted"} => ppc' = "poll"
    BY <1>6 DEF CountOutcome
  <2>3. KillCauses'
    BY <1>2, <2>1, <2>2 DEF CauseInv, KillCauses, Before, CauseFields
  <2>4. /\ Results' = Results
        /\ ppc # "events_emitted" => Notes' = Notes
        /\ ppc = "events_emitted" => Notes' = Notes + 1
    <3>1. Results' = Results
      BY <1>1, <2>1 DEF Results, CauseFields
    <3>2. ppc # "events_emitted" => Notes' = Notes
      BY <1>1, <2>1 DEF Notes, CauseFields
    <3>3. ASSUME ppc = "events_emitted" PROVE Notes' = Notes + 1
      <4>1. /\ field'["events_emitted"] = field["events_emitted"] + 1
            /\ field["events_emitted"] \in Int
        BY <1>2, <2>1, <3>3 DEF CauseFields
      <4>2. Cardinality(Noting) \in Int /\ queued \in Int
        BY CauseNumbers DEF CauseInv, QueueInv
      <4> QED
        BY <1>1, <2>1, <4>1, <4>2 DEF Notes
    <3> QED
      BY <3>1, <3>2, <3>3
  <2>5. field'["kill"] = field["kill"]
    BY <1>3 DEF CauseFields
  <2>6. Notes \in Int /\ field["kill"] \in Int
    BY CauseNumbers DEF CauseInv, QueueInv, Notes, CauseFields
  <2>7. RequestCauses'
    BY <2>1, <2>2, <2>4, <2>5, <2>6 DEF CauseInv, RequestCauses, Before
  <2>8. QueueInv'
    BY <1>1, <2>1 DEF CauseInv, QueueInv
  <2> QED
    BY <1>4, <2>3, <2>7, <2>8 DEF CauseInv
<1>7. CASE Put
  <2>1. /\ ppc = "put" /\ ppc' = "poll" /\ field' = field
        /\ queued' \in {queued, queued + 1}
    BY <1>7 DEF Put
  <2>2. KillCauses'
    BY <2>1 DEF CauseInv, KillCauses, Before
  <2>3. /\ queued \in Int /\ queued >= 0
        /\ Cardinality(Busy) \in Int /\ Cardinality(Noting) \in Int
        /\ \A f \in {"api_deletes", "api_errors", "events_emitted", "kill"} :
              field[f] \in Int
    BY CauseNumbers DEF CauseInv, QueueInv, CauseFields
  <2>4. Results' \in {Results, Results + 1} /\ Notes' \in {Notes, Notes + 1}
    BY <1>1, <2>1, <2>3 DEF Results, Notes
  <2>5. Results < field["kill"] /\ Notes < field["kill"]
    BY <2>1 DEF CauseInv, RequestCauses, Before
  <2>6. Results \in Int /\ Notes \in Int
    BY <2>3 DEF Results, Notes
  <2>7. RequestCauses'
    BY <2>1, <2>3, <2>4, <2>5, <2>6 DEF RequestCauses, Before
  <2>8. QueueInv'
    BY <1>1, <2>1, <2>3 DEF CauseInv, QueueInv
  <2> QED
    BY <1>4, <2>2, <2>7, <2>8 DEF CauseInv
<1> QED
  BY <1>5, <1>6, <1>7

\* A worker that enters or leaves one of the sets it is counted in.
LEMMA Entering ==
    ASSUME NEW S, IsFiniteSet(S), NEW w
    PROVE  /\ IsFiniteSet(S \cup {w}) /\ IsFiniteSet(S \ {w})
           /\ Cardinality(S) \in Nat
           /\ w \notin S => Cardinality(S \cup {w}) = Cardinality(S) + 1
           /\ w \in S => Cardinality(S \ {w}) = Cardinality(S) - 1
           /\ w \notin S => S \ {w} = S
<1>1. Cardinality(S) \in Nat
  BY FS_CardinalityType
<1>2. IsFiniteSet(S \cup {w}) /\ (w \notin S => Cardinality(S \cup {w}) = Cardinality(S) + 1)
  BY FS_AddElement
<1>3. IsFiniteSet(S \ {w}) /\ (w \in S => Cardinality(S \ {w}) = Cardinality(S) - 1)
  BY FS_RemoveElement
<1> QED
  BY <1>1, <1>2, <1>3

\* The steps of a worker: a request changes hands, or its result is counted.
LEMMA WorkerStepCauses ==
    ASSUME TypeInv, CauseInv, NEW w \in Workers,
           Get(w) \/ Delete(w) \/ CountCall(w)
    PROVE  CauseInv'
<1>1. UNCHANGED <<ppc, event>>
  BY DEF Get, Delete, CountCall, pollVars
<1>2. \A f \in CauseFields \ {"api_deletes", "api_errors", "events_emitted"} :
          field'[f] = field[f]
  BY AddOne DEF Get, Delete, CountCall, CauseFields
<1>3. EventCauses' /\ KillCauses' /\ field'["kill"] = field["kill"]
  BY <1>1, <1>2 DEF CauseInv, EventCauses, KillCauses, Before, CauseFields
<1>4. /\ IsFiniteSet(Busy) /\ IsFiniteSet(Noting)
      /\ Cardinality(Busy) \in Nat /\ Cardinality(Noting) \in Nat
      /\ queued \in Int /\ queued >= 0
      /\ \A f \in {"api_deletes", "api_errors", "events_emitted", "kill"} :
            field[f] \in Int
  BY CauseNumbers DEF CauseInv, QueueInv, CauseFields
<1>5. Results \in Int /\ Notes \in Int
  BY <1>4 DEF Results, Notes
<1>6. wpc \in [Workers -> WorkerStates]
  BY DEF TypeInv
<1>7. SUFFICES /\ queued' >= 0 /\ IsFiniteSet(Busy')
               /\ Results' <= Results /\ Notes' <= Notes
               /\ Results' \in Int /\ Notes' \in Int
  <2>1. field["kill"] \in Int
    BY <1>4
  <2>2. RequestCauses'
    BY <1>1, <1>3, <1>5, <1>7, <2>1 DEF CauseInv, RequestCauses, Before
  <2> QED
    BY <1>3, <1>7, <2>2 DEF CauseInv, QueueInv
<1>8. CASE Get(w)
  <2>1. /\ wpc[w] = "get" /\ queued > 0 /\ queued' = queued - 1 /\ field' = field
        /\ wpc' = [wpc EXCEPT ![w] = wpc'[w]]
        /\ wpc'[w] \in {"events_emitted", "delete"}
    BY <1>6, <1>8 DEF Get
  <2>2. w \notin Busy /\ w \notin Noting /\ Busy' = Busy \cup {w}
    BY <1>6, <2>1 DEF Busy, Noting
  <2>3. Noting' \in {Noting, Noting \cup {w}}
    BY <1>6, <2>1 DEF Noting
  <2>4. Cardinality(Busy') = Cardinality(Busy) + 1 /\ IsFiniteSet(Busy')
    BY <1>4, <2>2, Entering
  <2>5. Cardinality(Noting') \in {Cardinality(Noting), Cardinality(Noting) + 1}
    BY <1>4, <2>2, <2>3, Entering
  <2>6. Results' = Results
    <3>1. queued' + Cardinality(Busy') = queued + Cardinality(Busy)
      BY <1>4, <2>1, <2>4
    <3>2. /\ field'["api_deletes"] = field["api_deletes"]
          /\ field'["api_errors"] = field["api_errors"]
          /\ queued' \in Int /\ Cardinality(Busy') \in Int
      BY <1>4, <2>1, <2>4
    <3> QED
      BY <1>4, <3>1, <3>2 DEF Results
  <2>7. Notes' \in {Notes, Notes - 1}
    BY <1>4, <2>1, <2>5 DEF Notes
  <2>8. queued' >= 0
    BY <1>4, <2>1
  <2> QED
    BY <1>5, <2>4, <2>6, <2>7, <2>8
<1>9. CASE Delete(w)
  <2>1. /\ wpc[w] = "delete" /\ queued' = queued /\ field' = field
        /\ wpc' = [wpc EXCEPT ![w] = wpc'[w]]
        /\ wpc'[w] \in {"api_deletes", "api_errors", "get"}
    BY <1>6, <1>9 DEF Delete
  <2>2. w \in Busy /\ Busy' \in {Busy, Busy \ {w}} /\ Noting' = Noting
    BY <1>6, <2>1 DEF Busy, Noting
  <2>3. /\ Cardinality(Busy') \in {Cardinality(Busy), Cardinality(Busy) - 1}
        /\ IsFiniteSet(Busy')
    BY <1>4, <2>2, Entering
  <2>4. Results' \in {Results, Results - 1} /\ Notes' = Notes
    BY <1>4, <2>1, <2>2, <2>3 DEF Results, Notes
  <2> QED
    BY <1>4, <1>5, <2>1, <2>3, <2>4
<1>10. CASE CountCall(w)
  <2>1. /\ queued' = queued
        /\ wpc[w] \in {"events_emitted", "api_deletes", "api_errors"}
        /\ wpc' = [wpc EXCEPT ![w] = IF wpc[w] = "events_emitted"
                                     THEN "delete" ELSE "get"]
        /\ field'[wpc[w]] = field[wpc[w]] + 1
        /\ \A f \in CauseFields \ {wpc[w]} : field'[f] = field[f]
    BY <1>10, AddOne DEF CountCall, CauseFields
  <2>2. CASE wpc[w] = "events_emitted"
    <3>1. Busy' = Busy /\ w \in Noting /\ Noting' = Noting \ {w}
      BY <1>6, <2>1, <2>2 DEF Busy, Noting
    <3>2. Cardinality(Noting') = Cardinality(Noting) - 1
      BY <1>4, <3>1, Entering
    <3>3. /\ field'["events_emitted"] = field["events_emitted"] + 1
          /\ field'["api_deletes"] = field["api_deletes"]
          /\ field'["api_errors"] = field["api_errors"]
      BY <2>1, <2>2 DEF CauseFields
    <3>4. Results' = Results
      BY <2>1, <3>1, <3>3 DEF Results
    <3>5. Notes' = Notes
      BY <1>4, <2>1, <3>2, <3>3 DEF Notes
    <3> QED
      BY <1>4, <1>5, <2>1, <3>1, <3>4, <3>5
  <2>3. CASE wpc[w] \in {"api_deletes", "api_errors"}
    <3>1. w \in Busy /\ Busy' = Busy \ {w} /\ Noting' = Noting
      BY <1>6, <2>1, <2>3 DEF Busy, Noting
    <3>2. Cardinality(Busy') = Cardinality(Busy) - 1 /\ IsFiniteSet(Busy')
      BY <1>4, <3>1, Entering
    <3>3. field'["api_deletes"] + field'["api_errors"]
            = field["api_deletes"] + field["api_errors"] + 1
      BY <1>4, <2>1, <2>3 DEF CauseFields
    <3>4. field'["events_emitted"] = field["events_emitted"]
      BY <2>1, <2>3 DEF CauseFields
    <3>5. field'["api_deletes"] \in Int /\ field'["api_errors"] \in Int
      BY <1>4, <2>1, <2>3 DEF CauseFields
    <3>6. Results' = Results
      BY <1>4, <2>1, <3>2, <3>3, <3>5 DEF Results
    <3>7. Notes' = Notes
      BY <2>1, <3>1, <3>4 DEF Notes
    <3> QED
      BY <1>4, <1>5, <2>1, <3>2, <3>6, <3>7
  <2> QED
    BY <2>1, <2>2, <2>3
<1> QED
  BY <1>8, <1>9, <1>10

\* Every action keeps the invariant.
LEMMA CauseStep ==
    TypeInv /\ CauseInv /\ [Next]_vars => CauseInv'
<1> SUFFICES ASSUME TypeInv, CauseInv, [Next]_vars PROVE CauseInv'
  OBVIOUS
<1> USE DEF pollVars, apiVars
<1>1. CASE OpenPerfBuffer \/ \E e \in Event : Submit(e)
  BY <1>1, CausesKept DEF OpenPerfBuffer, Submit
<1>2. CASE HandleLost
  <2>1. \A f \in CauseFields : field'[f] = field[f]
    BY <1>2, CauseNumbers DEF HandleLost, Add, TypeInv, CauseFields
  <2> QED
    BY <1>2, <2>1, CausesKept DEF HandleLost
<1>3. CASE HandleEvent \/ CountEvent \/ CountFate \/ CountSignal \/ OnEvent
  BY <1>3, EventStepCauses
<1>4. CASE CountDetection
  BY <1>4, DetectionCauses
<1>5. CASE HandleKill \/ CountOutcome \/ Put
  BY <1>5, KillStepCauses
<1>6. CASE \E w \in Workers : Get(w) \/ Delete(w) \/ CountCall(w)
  BY <1>6, WorkerStepCauses
<1>7. CASE GatherRaises \/ RenderStarts \/ Render \/ Send
  BY <1>7, CausesKept DEF GatherRaises, RenderStarts, Render, Send
<1>8. CASE SetArmed \/ SetCaches
  <2>1. \A f \in CauseFields : field'[f] = field[f]
    BY <1>8, CauseNumbers DEF SetArmed, SetCaches, TypeInv, CauseFields
  <2> QED
    BY <1>8, <2>1, CausesKept DEF SetArmed, SetCaches
<1>9. CASE UNCHANGED vars
  BY <1>9, CausesKept DEF vars
<1> QED
  BY <1>1, <1>2, <1>3, <1>4, <1>5, <1>6, <1>7, <1>8, <1>9 DEF Next, Poll

\* Nothing is counted to begin with.
LEMMA CauseInit == Init => CauseInv
<1> SUFFICES ASSUME Init PROVE CauseInv
  OBVIOUS
<1>1. \A f \in CauseFields : field[f] = 0
  BY FieldNames DEF Init, CauseFields
<1>2. Busy = {} /\ Noting = {} /\ queued = 0 /\ ppc = "poll"
  BY DEF Init, Busy, Noting
<1>3. Cardinality({}) = 0 /\ IsFiniteSet({})
  BY FS_EmptySet
<1>4. Results = 0 /\ Notes = 0
  BY <1>1, <1>2, <1>3 DEF Results, Notes, CauseFields
<1>5. EventCauses /\ KillCauses
  BY <1>1, <1>2 DEF EventCauses, KillCauses, Before, CauseFields
<1>6. RequestCauses /\ QueueInv
  BY <1>1, <1>2, <1>3, <1>4 DEF RequestCauses, QueueInv, Before, CauseFields
<1> QED
  BY <1>5, <1>6 DEF CauseInv

\* Where a reply has what CauseBeforeEffect compares.
LEMMA CauseValues ==
    /\ Value("events_total") = reply[1]
    /\ Value("events_passed") = reply[4]
    /\ Value("kill") = reply[5]
    /\ Value("warn") = reply[6]
    /\ Value("escalations") = reply[7]
    /\ Value("killed_in_kernel") = reply[8]
    /\ Value("cgroup_kills") = reply[9]
    /\ Value("api_deletes") = reply[10]
    /\ Value("api_errors") = reply[11]
    /\ Value("events_emitted") = reply[12]
    /\ Value("resolve_failures") = reply[13]
<1>1. /\ Value(RenderOrder[1]) = reply[1]
      /\ Value(RenderOrder[4]) = reply[4]
      /\ Value(RenderOrder[5]) = reply[5]
      /\ Value(RenderOrder[6]) = reply[6]
      /\ Value(RenderOrder[7]) = reply[7]
      /\ Value(RenderOrder[8]) = reply[8]
      /\ Value(RenderOrder[9]) = reply[9]
      /\ Value(RenderOrder[10]) = reply[10]
      /\ Value(RenderOrder[11]) = reply[11]
      /\ Value(RenderOrder[12]) = reply[12]
      /\ Value(RenderOrder[13]) = reply[13]
  BY ValueAt
<1> QED
  BY <1>1 DEF RenderOrder

\* The inequalities between the numbers of a reply.
Caused(r) ==
    /\ r[8] <= r[1]
    /\ r[5] + r[6] <= r[4]
    /\ r[9] + r[13] <= r[5]
    /\ r[7] <= r[5]
    /\ r[10] + r[11] <= r[5]
    /\ r[12] <= r[5]

\* A complete reply has them: render read the fields of one moment.
CausedReply == Len(reply) = 15 => Caused(reply)

\* What the invariant says of the fields when nobody is looking.
LEMMA FieldsCaused ==
    ASSUME TypeInv, CauseInv
    PROVE  /\ field["killed_in_kernel"] <= field["events_total"]
           /\ field["kill"] + field["warn"] <= field["events_passed"]
           /\ field["cgroup_kills"] + field["resolve_failures"] <= field["kill"]
           /\ field["escalations"] <= field["kill"]
           /\ field["api_deletes"] + field["api_errors"] <= field["kill"]
           /\ field["events_emitted"] <= field["kill"]
<1>1. EventCauses /\ KillCauses /\ RequestCauses /\ queued >= 0
  BY DEF CauseInv, QueueInv
<1>2. /\ queued \in Int /\ Cardinality(Busy) \in Nat /\ Cardinality(Noting) \in Nat
      /\ \A f \in {"api_deletes", "api_errors", "events_emitted", "kill"} :
            field[f] \in Int
  BY CauseNumbers DEF CauseInv, QueueInv, CauseFields
<1>3. Results <= field["kill"] /\ Notes <= field["kill"]
  BY <1>1 DEF RequestCauses, Before
<1>4. field["api_deletes"] + field["api_errors"] <= field["kill"]
  BY <1>1, <1>2, <1>3 DEF Results
<1>5. field["events_emitted"] <= field["kill"]
  BY <1>1, <1>2, <1>3 DEF Notes
<1> QED
  BY <1>1, <1>4, <1>5 DEF EventCauses, KillCauses, Before

\* A reply becomes complete in the last step of render, and only there.
LEMMA CausedStep ==
    /\ TypeInv /\ LockInv /\ SumInv /\ ReplyInv /\ CauseInv /\ CausedReply
    /\ [Next]_vars
    => CausedReply'
<1> SUFFICES ASSUME TypeInv, LockInv, SumInv, ReplyInv, CauseInv, CausedReply,
                    [Next]_vars, Len(reply') = 15
             PROVE  Caused(reply')
  BY DEF CausedReply, Caused
<1>1. CASE UNCHANGED reply
  BY <1>1 DEF CausedReply
<1>2. CASE Render
  <2> DEFINE n == Len(reply) + 1
  <2>0. Len(reply) \in Nat /\ 1 <= Len(reply) /\ Len(reply) <= 14
    BY <1>2, LenProperties DEF Render, LockInv, TypeInv
  <2>1. n \in 1 .. 15
    BY <2>0
  <2>2. field[RenderOrder[n]] \in Int
    BY <2>1, FieldNames DEF TypeInv, Fields, Range
  <2>3. /\ Len(reply') = n /\ reply'[n] = field[RenderOrder[n]]
        /\ \A i \in 1 .. 15 : i <= Len(reply) => reply'[i] = reply[i]
    BY <1>2, <2>0, <2>2, AppendProperties DEF Render, TypeInv
  <2>4. n = 15
    BY <2>3
  <2> HIDE DEF n
  <2>5. \A i \in 1 .. 15 : i = n \/ i <= Len(reply)
    BY <2>0, <2>4 DEF n
  <2>6. \A i \in 1 .. 15 : reply'[i] = field[RenderOrder[i]]
    BY <1>2, <2>3, <2>5 DEF Render, ReplyInv
  <2>7. /\ reply'[1] = field["events_total"]
        /\ reply'[4] = field["events_passed"]
        /\ reply'[5] = field["kill"]
        /\ reply'[6] = field["warn"]
        /\ reply'[7] = field["escalations"]
        /\ reply'[8] = field["killed_in_kernel"]
        /\ reply'[9] = field["cgroup_kills"]
        /\ reply'[10] = field["api_deletes"]
        /\ reply'[11] = field["api_errors"]
        /\ reply'[12] = field["events_emitted"]
        /\ reply'[13] = field["resolve_failures"]
    BY <2>6 DEF RenderOrder
  <2> QED
    BY <2>7, FieldsCaused DEF Caused
<1>3. CASE RenderStarts \/ Send
  <2>1. reply' = <<field[RenderOrder[1]]>> \/ reply' = <<>>
    BY <1>3 DEF RenderStarts, Send
  <2>2. Len(reply') # 15
    <3>1. \A x : Len(<<x>>) = 1
      OBVIOUS
    <3>2. CASE reply' = <<>>
      BY <3>2
    <3>3. CASE reply' = <<field[RenderOrder[1]]>>
      BY <3>1, <3>3
    <3> QED
      BY <2>1, <3>2, <3>3
  <2> QED
    BY <2>2
<1>4. UNCHANGED reply \/ Render \/ RenderStarts \/ Send
  BY DEF Next, Poll, vars, OpenPerfBuffer, Submit, HandleLost, HandleEvent,
         CountEvent, CountFate, CountSignal, OnEvent, CountDetection,
         HandleKill, CountOutcome, Put, Get, Delete, CountCall, GatherRaises,
         SetArmed, SetCaches
<1> QED
  BY <1>1, <1>2, <1>3, <1>4

\* However the poll thread, the workers and the server interleave, a scrape
\* shows no response without its detection, no detection without its event
\* and no result without its request.
THEOREM CauseShown == Spec => []CauseBeforeEffect
<1>1. CausedReply => CauseBeforeEffect
  BY CauseValues, FieldNames DEF CausedReply, Caused, CauseBeforeEffect, Scraped
<1>2. Init => CausedReply
  BY DEF Init, CausedReply
<1> QED
  BY <1>1, <1>2, TypeInit, TypeStep, LockStep, AccountInit, ReplyInit,
     ReplyStep, CauseInit, CauseStep, CausedStep, PTL DEF Spec

=============================================================================
