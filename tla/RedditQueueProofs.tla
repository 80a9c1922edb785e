------------------------- MODULE RedditQueueProofs -------------------------
(***************************************************************************)
(* Proofs about RedditQueue: type correctness, that no caller is lost and  *)
(* that an answer is final, for any number of requests, processors, stops, *)
(* and any configuration.                                                  *)
(***************************************************************************)
EXTENDS RedditQueue, FiniteSetTheorems, WellFoundedInduction, TLAPS

---------------------------------------------------------------------------
(* The operators the actions are built from *)

\* A nonempty set of naturals has a least element.
LEMMA LeastNatural ==
    ASSUME NEW T \in SUBSET Nat, T # {}
    PROVE  \E x \in T : \A y \in T : x <= y
<1>1. PICK x \in T : \A y \in T : ~(<<y, x>> \in OpToRel(<, Nat))
    BY NatLessThanWellFounded, WFMin
<1>2. \A y \in T : ~(y < x)
    BY <1>1 DEF OpToRel
<1>. QED  BY <1>2

\* The requests of the last minute are counted by a natural number.
LEMMA RecentFinite == IsFiniteSet(Recent) /\ Cardinality(Recent) \in Nat
BY ConfigAssumption, FS_Subset, FS_CardinalityType DEF Recent

\* With a recent request, the window has a definite reset time: the moment
\* at which one of the recent requests is a full window old.
LEMMA OldestLeaves ==
    ASSUME TypeOK, Recent # {}
    PROVE  /\ UntilReset \in Nat
           /\ \E i \in Recent : startedAt[i] + Window = now + UntilReset
<1>. DEFINE T == {startedAt[i] : i \in Recent}
<1>1. T \in SUBSET Nat /\ T # {}
    BY DEF TypeOK, Recent
<1>2. \E t \in T : \A i \in Recent : t <= startedAt[i]
    <2>1. PICK t \in T : \A u \in T : t <= u
        BY <1>1, LeastNatural
    <2>2. \A i \in Recent : startedAt[i] \in T
        OBVIOUS
    <2>. QED  BY <2>1, <2>2
<1>. DEFINE oldest == CHOOSE t \in T : \A i \in Recent : t <= startedAt[i]
<1>3. oldest \in T
    BY <1>2
<1>4. PICK i \in Recent : oldest = startedAt[i]
    BY <1>3
<1>5. oldest \in Nat /\ oldest + Window >= now
    BY <1>4 DEF TypeOK, Recent
<1>6. UntilReset = oldest + Window - now
    BY DEF UntilReset
<1>7. UntilReset \in Nat /\ oldest + Window = now + UntilReset
    BY <1>5, <1>6, ConfigAssumption DEF TypeOK
<1>. QED  BY <1>4, <1>7

\* The delay is a natural number of ticks in every state and configuration:
\* no division by zero, no negative sleep, no oldest request of an empty set.
LEMMA CalculateDelayType ==
    ASSUME TypeOK
    PROVE  CalculateDelay \in Nat
<1>. DEFINE recent == Cardinality(Recent)
            spread == 2 * (MaxPerMinute - recent)
<1>1. recent \in Nat
    BY RecentFinite
<1>2. CASE backoffUntil > now
    BY <1>2 DEF CalculateDelay, TypeOK
<1>3. CASE ~(backoffUntil > now) /\ LimitReached(recent)
    <2>1. recent # 0
        BY <1>1, <1>3, ConfigAssumption DEF LimitReached
    <2>2. UntilReset \in Nat
        BY <2>1, FS_EmptySet, OldestLeaves
    <2>. QED  BY <1>3, <2>2 DEF CalculateDelay
<1>4. CASE ~(backoffUntil > now) /\ ~LimitReached(recent) /\ recent >= Threshold /\ spread > 0
    <2>1. recent # 0
        BY <1>1, <1>4, ConfigAssumption
    <2>2. UntilReset \in Nat
        BY <2>1, FS_EmptySet, OldestLeaves
    <2>3. spread \in Nat /\ spread > 0
        BY <1>1, <1>4, ConfigAssumption
    <2>4. \A a, b \in Nat : b > 0 => (a + b - 1) \div b \in Nat
        OBVIOUS
    <2>5. (UntilReset + spread - 1) \div spread \in Nat
        BY <2>2, <2>3, <2>4
    <2>. QED  BY <1>4, <2>5 DEF CalculateDelay
<1>5. CASE ~(backoffUntil > now) /\ ~LimitReached(recent) /\ ~(recent >= Threshold /\ spread > 0)
    BY <1>5 DEF CalculateDelay
<1>. QED  BY <1>2, <1>3, <1>4, <1>5

\* set_backoff imposes a natural number of ticks.
LEMMA BackoffDelayType ==
    ASSUME NEW status \in {429, 403}, NEW ra \in RetryAfters, NEW dd \in DefaultDelays
    PROVE  BackoffDelay(status, ra, dd) \in Nat
BY ConfigAssumption DEF BackoffDelay, Sooner

\* A removed head and the remaining queue make up the queue.
LEMMA QueuedAfterDequeue ==
    ASSUME TypeOK, NEW p \in Procs, NEW i \in Items, Dequeue(p, i)
    PROVE  /\ queue' \in Seq(Items)
           /\ Queued \subseteq Queued' \cup {i}
<1>1. queue \in Seq(Items) /\ queue # <<>> /\ queue' = Tail(queue) /\ i = queue[1]
    BY DEF TypeOK, Dequeue
<1>2. Len(queue) \in Nat /\ Len(queue') = Len(queue) - 1
    BY <1>1
<1>3. ASSUME NEW k \in 1..Len(queue)
      PROVE  queue[k] \in Queued' \cup {i}
    <2>1. CASE k = 1
        BY <2>1, <1>1
    <2>2. CASE k # 1
        <3>1. k - 1 \in 1..Len(queue') /\ queue'[k - 1] = queue[k]
            BY <2>2, <1>1, <1>2
        <3>. QED  BY <3>1 DEF Queued
    <2>. QED  BY <2>1, <2>2
<1>. QED  BY <1>1, <1>3 DEF Queued

\* An appended request joins those that are queued.
LEMMA QueuedAfterEnqueue ==
    ASSUME TypeOK, NEW i \in Items, queue' = Append(queue, i)
    PROVE  /\ queue' \in Seq(Items)
           /\ Queued' = Queued \cup {i}
<1>1. queue \in Seq(Items) /\ Len(queue) \in Nat /\ Len(queue') = Len(queue) + 1
    BY DEF TypeOK
<1>2. \A k \in 1..Len(queue) : queue'[k] = queue[k]
    BY <1>1
<1>3. queue'[Len(queue) + 1] = i
    BY <1>1
<1>4. 1..Len(queue') = 1..Len(queue) \cup {Len(queue) + 1}
    BY <1>1
<1>. QED  BY <1>1, <1>2, <1>3, <1>4 DEF Queued

---------------------------------------------------------------------------
(* Type correctness *)

\* The state of the queue always has its type: in particular every sleep ends
\* at a natural number of ticks and every answer is one a future can hold.
THEOREM TypeCorrect == Spec => []TypeOK
<1>1. Init => TypeOK
    <2>1. <<>> \in Seq(Items)
        OBVIOUS
    <2>2. Init => pc \in [Procs -> {"unused", "created", "head", "getting", "sleeping", "calling", "done"}]
        BY DEF Init
    <2>3. Init => future \in [Items -> {"idle", "pending"} \cup Resolved]
        BY DEF Init
    <2>4. Init => call \in [Items -> {"none", "running", "cancelling", "ended"} \cup Outcome]
        BY DEF Init
    <2>5. Init => running \in BOOLEAN /\ task \in Procs \cup {NoProc} /\ stopping \in Procs \cup {NoProc}
        BY DEF Init
    <2>. QED  BY <2>1, <2>2, <2>3, <2>4, <2>5 DEF Init, TypeOK
<1>2. TypeOK /\ [Next]_vars => TypeOK'
    <2>. SUFFICES ASSUME TypeOK, [Next]_vars  PROVE TypeOK'
        OBVIOUS
    <2>. USE DEF TypeOK
    <2>1. ASSUME NEW i \in Items, Enqueue(i)  PROVE TypeOK'
        BY <2>1, QueuedAfterEnqueue DEF Enqueue, Appended
    <2>2. ASSUME NEW i \in Items, Abandon(i)  PROVE TypeOK'
        BY <2>2 DEF Abandon, procVars, Resolved
    <2>3. ASSUME NEW i \in Items, SetBackoff(i)  PROVE TypeOK'
        <3>1. backoffUntil' \in Nat
            BY <2>3, BackoffDelayType DEF SetBackoff, Later
        <3>. QED  BY <2>3, <3>1 DEF SetBackoff, procVars
    <2>4. ASSUME NEW i \in Items, Forget(i)  PROVE TypeOK'
        BY <2>4 DEF Forget, procVars
    <2>5. ASSUME NEW i \in Items, Return(i)  PROVE TypeOK'
        BY <2>5 DEF Return, procVars
    <2>6. ASSUME NEW p \in Procs, Begin(p)  PROVE TypeOK'
        BY <2>6 DEF Begin, itemVars
    <2>7. ASSUME NEW p \in Procs, Retire(p)  PROVE TypeOK'
        BY <2>7 DEF Retire, itemVars
    <2>8. ASSUME NEW p \in Procs, Park(p)  PROVE TypeOK'
        BY <2>8 DEF Park, itemVars
    <2>9. ASSUME NEW p \in Procs, Interrupt(p)  PROVE TypeOK'
        BY <2>9 DEF Interrupt, CancelPending, Resolved
    <2>10. ASSUME NEW p \in Procs, NEW i \in Items, SkipAbandoned(p, i)  PROVE TypeOK'
        BY <2>10, QueuedAfterDequeue DEF SkipAbandoned, Dequeue, itemVars
    <2>11. ASSUME NEW p \in Procs, NEW i \in Items, Expire(p, i)  PROVE TypeOK'
        BY <2>11, QueuedAfterDequeue DEF Expire, Dequeue, Settled, Resolved
    <2>12. ASSUME NEW p \in Procs, NEW i \in Items, Sleep(p, i)  PROVE TypeOK'
        <3>1. now + CalculateDelay \in Nat
            BY CalculateDelayType
        <3>2. queue' \in Seq(Items)
            BY <2>12, QueuedAfterDequeue DEF Sleep
        <3>. QED  BY <2>12, <3>1, <3>2 DEF Sleep, Dequeue, itemVars
    <2>13. ASSUME NEW p \in Procs, NEW i \in Items, StartNow(p, i)  PROVE TypeOK'
        BY <2>13, QueuedAfterDequeue DEF StartNow, Dequeue, StartCall
    <2>14. ASSUME NEW p \in Procs, NEW i \in Items, StartAfterSleep(p, i)  PROVE TypeOK'
        BY <2>14 DEF StartAfterSleep, StartCall
    <2>15. ASSUME NEW p \in Procs, NEW i \in Items, DropAfterSleep(p, i)  PROVE TypeOK'
        BY <2>15 DEF DropAfterSleep, itemVars
    <2>16. ASSUME NEW p \in Procs, NEW i \in Items, Complete(p, i)  PROVE TypeOK'
        <3>1. Answer(call[i]) \in Resolved
            BY DEF Answer, Resolved
        <3>2. future' \in [Items -> {"idle", "pending"} \cup Resolved]
            BY <2>16, <3>1 DEF Complete, Settled
        <3>. QED  BY <2>16, <3>2 DEF Complete
    <2>17. ASSUME NEW p \in Procs, NEW i \in Items, Detach(p, i)  PROVE TypeOK'
        BY <2>17 DEF Detach, CancelledCall
    <2>18. CASE StopBegin
        BY <2>18 DEF StopBegin, itemVars
    <2>19. CASE StopIdle
        <3>1. future' \in [Items -> {"idle", "pending"} \cup Resolved]
            BY <2>19 DEF StopIdle, Drain, CancelPending, Resolved
        <3>2. queue' \in Seq(Items)
            BY <2>19 DEF StopIdle, Drain
        <3>3. running' \in BOOLEAN
            BY <2>19 DEF StopIdle
        <3>. QED  BY <2>19, <3>1, <3>2, <3>3 DEF StopIdle, procVars
    <2>20. CASE StopFinish
        BY <2>20 DEF StopFinish, Drain, CancelPending, Resolved
    <2>21. CASE Tick
        BY <2>21 DEF Tick, procVars, itemVars
    <2>22. CASE UNCHANGED vars
        BY <2>22 DEF vars, procVars, itemVars
    <2>. QED
        BY <2>1, <2>2, <2>3, <2>4, <2>5, <2>6, <2>7, <2>8, <2>9, <2>10, <2>11, <2>12,
           <2>13, <2>14, <2>15, <2>16, <2>17, <2>18, <2>19, <2>20, <2>21, <2>22
        DEF Next, Serve, Stop, CallerStep, Works, Ends, ItemStep
<1>. QED  BY <1>1, <1>2, PTL DEF Spec

---------------------------------------------------------------------------
(* No caller is lost *)

\* A pending request is queued or held by a processor that works on it.
InHands(i) == \E p \in Procs : held[p] = i /\ pc[p] \in {"sleeping", "calling"}

\* What a step of a processor that takes an item leaves of the invariant: the
\* item itself is for the caller of the lemma to account for.
LEMMA DequeuePreserves ==
    ASSUME TypeOK, ServiceInv, NEW p \in Procs, NEW i \in Items, Dequeue(p, i),
           NEW c \in {"head", "sleeping", "calling"}, pc' = [pc EXCEPT ![p] = c],
           \A q \in Procs \ {p} : held'[q] = held[q],
           \A j \in Items \ {i} : future'[j] = "pending" => future[j] = "pending",
           future'[i] = "pending" => held'[p] = i /\ c \in {"sleeping", "calling"}
    PROVE  ServiceInv'
<1>. USE DEF TypeOK
<1>1. pc[p] \in {"getting", "head"} /\ p \notin interrupted /\ queue # <<>>
    BY DEF Dequeue, Scheduled
<1>2. UNCHANGED <<running, task, stopping, interrupted>>
    BY DEF Dequeue
<1>3. (running => Serving)'
    BY <1>1, <1>2 DEF ServiceInv, Serving, Live
<1>4. (queue # <<>> => stopping # NoProc \/ running)'
    BY <1>1, <1>2 DEF ServiceInv
<1>5. (task # NoProc => pc[task] # "unused")' /\ (\A q \in interrupted : pc[q] # "unused")'
    BY <1>1, <1>2 DEF ServiceInv
<1>6. ASSUME NEW j \in Items, future'[j] = "pending"
      PROVE  (j \in Queued \/ InHands(j))'
    <2>1. CASE j = i
        BY <2>1, <1>6 DEF InHands
    <2>2. CASE j # i /\ j \in Queued
        BY <2>2, QueuedAfterDequeue
    <2>3. CASE j # i /\ InHands(j)
        <3>1. PICK q \in Procs : held[q] = j /\ pc[q] \in {"sleeping", "calling"}
            BY <2>3 DEF InHands
        <3>2. q # p
            BY <3>1, <1>1
        <3>. QED  BY <3>1, <3>2 DEF InHands
    <2>. QED  BY <2>1, <2>2, <2>3, <1>6 DEF ServiceInv, InHands
<1>. QED  BY <1>3, <1>4, <1>5, <1>6 DEF ServiceInv, InHands

\* What a processor that gives up the item it holds leaves of the invariant.
LEMMA ReleasePreserves ==
    ASSUME TypeOK, ServiceInv, NEW p \in Procs, NEW c \in {"head", "done"},
           pc[p] \in {"created", "getting", "sleeping", "calling"},
           pc' = [pc EXCEPT ![p] = c],
           \A q \in Procs \ {p} : held'[q] = held[q],
           \A j \in Items : future'[j] = "pending" => future[j] = "pending" /\ j # held[p],
           UNCHANGED <<queue, running, task, stopping>>,
           interrupted' \subseteq interrupted,
           c = "done" => p \in interrupted
    PROVE  ServiceInv'
<1>. USE DEF TypeOK
<1>1. (running => Serving)'
    <2>. SUFFICES ASSUME running PROVE Serving'
        OBVIOUS
    <2>1. PICK q \in Procs : Live(q) /\ q \notin interrupted
        BY DEF ServiceInv, Serving
    <2>2. Live(q)' /\ q \notin interrupted'
        BY <2>1 DEF Live
    <2>. QED  BY <2>2 DEF Serving
<1>2. (queue # <<>> => stopping # NoProc \/ running)'
    BY DEF ServiceInv
<1>3. (task # NoProc => pc[task] # "unused")' /\ (\A q \in interrupted : pc[q] # "unused")'
    BY DEF ServiceInv
<1>4. ASSUME NEW j \in Items, future'[j] = "pending"
      PROVE  (j \in Queued \/ InHands(j))'
    <2>1. CASE j \in Queued
        BY <2>1 DEF Queued
    <2>2. CASE InHands(j)
        <3>1. PICK q \in Procs : held[q] = j /\ pc[q] \in {"sleeping", "calling"}
            BY <2>2 DEF InHands
        <3>2. q # p
            BY <3>1, <1>4
        <3>. QED  BY <3>1, <3>2 DEF InHands
    <2>. QED  BY <2>1, <2>2, <1>4 DEF ServiceInv, InHands
<1>. QED  BY <1>1, <1>2, <1>3, <1>4 DEF ServiceInv, InHands

\* Every step preserves the strengthened invariant.
LEMMA ServiceInvStep ==
    ASSUME TypeOK, TypeOK', ServiceInv, [Next]_vars
    PROVE  ServiceInv'
<1>. USE DEF TypeOK
<1>1. ASSUME NEW i \in Items, Enqueue(i)  PROVE ServiceInv'
    <2>1. Queued' = Queued \cup {i} /\ running' /\ UNCHANGED <<stopping, interrupted, held>>
        BY <1>1, QueuedAfterEnqueue DEF Enqueue, Appended
    <2>2. \A q \in Procs : pc[q] # "unused" => pc'[q] = pc[q]
        BY <1>1 DEF Enqueue
    <2>3. \A j \in Items : j # i => future'[j] = future[j]
        BY <1>1 DEF Enqueue
    <2>4. Serving'
        <3>1. CASE running
            BY <3>1, <2>1, <2>2 DEF ServiceInv, Serving, Live
        <3>2. CASE ~running
            <4>1. PICK p \in Procs : pc[p] = "unused" /\ pc' = [pc EXCEPT ![p] = "created"]
                BY <1>1, <3>2 DEF Enqueue
            <4>2. p \notin interrupted
                BY <4>1 DEF ServiceInv
            <4>. QED  BY <4>1, <4>2, <2>1 DEF Serving, Live
        <3>. QED  BY <3>1, <3>2
    <2>5. (task # NoProc => pc[task] # "unused")'
        <3>1. CASE running
            BY <3>1, <1>1 DEF Enqueue, ServiceInv
        <3>2. CASE ~running
            BY <3>2, <1>1 DEF Enqueue
        <3>. QED  BY <3>1, <3>2
    <2>6. \A q \in interrupted' : pc'[q] # "unused"
        BY <2>1, <2>2 DEF ServiceInv
    <2>7. \A j \in Items : future'[j] = "pending" => (j \in Queued \/ InHands(j))'
        BY <2>1, <2>2, <2>3 DEF ServiceInv, InHands
    <2>. QED  BY <2>1, <2>4, <2>5, <2>6, <2>7 DEF ServiceInv, InHands
<1>2. ASSUME UNCHANGED <<queue, running, task, stopping, interrupted, pc, held>>,
             \A j \in Items : future'[j] = "pending" => future[j] = "pending"
      PROVE  ServiceInv'
    <2>1. (running => Serving)'
        BY <1>2 DEF ServiceInv, Serving, Live
    <2>2. \A j \in Items : future'[j] = "pending" => (j \in Queued \/ InHands(j))'
        <3>1. Queued' = Queued
            BY <1>2 DEF Queued
        <3>2. \A j \in Items : InHands(j) => InHands(j)'
            BY <1>2 DEF InHands
        <3>3. \A j \in Items : future[j] = "pending" => j \in Queued \/ InHands(j)
            BY DEF ServiceInv, InHands
        <3>. QED  BY <1>2, <3>1, <3>2, <3>3
    <2>. QED  BY <1>2, <2>1, <2>2 DEF ServiceInv, InHands
<1>3. ASSUME NEW i \in Items, Abandon(i) \/ SetBackoff(i) \/ Forget(i) \/ Return(i)
      PROVE  ServiceInv'
    BY <1>2, <1>3 DEF Abandon, SetBackoff, Forget, Return, procVars
<1>4. ASSUME NEW p \in Procs, Begin(p) \/ Park(p)  PROVE ServiceInv'
    <2>1. /\ pc[p] \in {"created", "head"}
          /\ \E c \in {"head", "getting"} : pc' = [pc EXCEPT ![p] = c]
          /\ UNCHANGED <<queue, running, task, stopping, interrupted, held, future>>
        BY <1>4 DEF Begin, Park, itemVars
    <2>2. \A q \in Procs : Live(q) => Live(q)'
        BY <2>1 DEF Live
    <2>3. \A q \in Procs : pc[q] \in {"sleeping", "calling"} => pc'[q] = pc[q]
        BY <2>1
    <2>4. Queued' = Queued
        BY <2>1 DEF Queued
    <2>5. (running => Serving)'
        BY <2>1, <2>2 DEF ServiceInv, Serving
    <2>6. \A j \in Items : future'[j] = "pending" => (j \in Queued \/ InHands(j))'
        BY <2>1, <2>3, <2>4 DEF ServiceInv, InHands
    <2>7. \A q \in Procs : pc[q] # "unused" => pc'[q] # "unused"
        BY <2>1
    <2>8. /\ (task # NoProc => pc[task] # "unused")'
          /\ (\A q \in interrupted : pc[q] # "unused")'
        BY <2>1, <2>7 DEF ServiceInv, TypeOK
    <2>9. (queue # <<>> => stopping # NoProc \/ running)'
        BY <2>1 DEF ServiceInv
    <2>. QED  BY <2>5, <2>6, <2>8, <2>9 DEF ServiceInv, InHands
<1>5. ASSUME NEW p \in Procs, Retire(p)  PROVE ServiceInv'
    <2>1. /\ pc[p] \in {"head", "getting"}
          /\ ~running
          /\ pc' = [pc EXCEPT ![p] = "done"]
          /\ UNCHANGED <<queue, running, task, stopping, interrupted, held, future>>
        BY <1>5 DEF Retire, itemVars
    <2>2. Queued' = Queued
        BY <2>1 DEF Queued
    <2>. QED  BY <2>1, <2>2 DEF ServiceInv
<1>6. ASSUME NEW p \in Procs, Interrupt(p)  PROVE ServiceInv'
    <2>1. \A j \in Items : future'[j] = "pending" => future[j] = "pending" /\ j # held[p]
        BY <1>6 DEF Interrupt, CancelPending
    <2>. QED  BY <1>6, <2>1, ReleasePreserves DEF Interrupt
<1>7. ASSUME NEW p \in Procs, NEW i \in Items, DropAfterSleep(p, i)  PROVE ServiceInv'
    BY <1>7, ReleasePreserves DEF DropAfterSleep, Awake, Wanted, itemVars
<1>8. ASSUME NEW p \in Procs, NEW i \in Items, Complete(p, i)  PROVE ServiceInv'
    <2>1. Answer(call[i]) # "pending"
        BY DEF Answer
    <2>2. \A j \in Items : future'[j] = "pending" => future[j] = "pending" /\ j # held[p]
        BY <1>8, <2>1 DEF Complete, Settled
    <2>. QED  BY <1>8, <2>2, ReleasePreserves DEF Complete
<1>9. ASSUME NEW p \in Procs, NEW i \in Items, Detach(p, i)  PROVE ServiceInv'
    BY <1>9, ReleasePreserves DEF Detach, Wanted
<1>10. ASSUME NEW p \in Procs, NEW i \in Items, SkipAbandoned(p, i)  PROVE ServiceInv'
    BY <1>10, DequeuePreserves DEF SkipAbandoned, Wanted, itemVars
<1>11. ASSUME NEW p \in Procs, NEW i \in Items, Expire(p, i)  PROVE ServiceInv'
    BY <1>11, DequeuePreserves DEF Expire, Settled
<1>12. ASSUME NEW p \in Procs, NEW i \in Items, Sleep(p, i)  PROVE ServiceInv'
    BY <1>12, DequeuePreserves DEF Sleep, itemVars
<1>13. ASSUME NEW p \in Procs, NEW i \in Items, StartNow(p, i)  PROVE ServiceInv'
    BY <1>13, DequeuePreserves DEF StartNow, StartCall
<1>14. ASSUME NEW p \in Procs, NEW i \in Items, StartAfterSleep(p, i)  PROVE ServiceInv'
    <2>1. /\ pc[p] = "sleeping"
          /\ pc' = [pc EXCEPT ![p] = "calling"]
          /\ UNCHANGED <<queue, running, task, stopping, interrupted, held, future>>
        BY <1>14 DEF StartAfterSleep, Awake, StartCall
    <2>2. Queued' = Queued
        BY <2>1 DEF Queued
    <2>3. \A q \in Procs : Live(q) => Live(q)'
        BY <2>1 DEF Live
    <2>4. (running => Serving)'
        BY <2>1, <2>3 DEF ServiceInv, Serving
    <2>5. \A j \in Items : InHands(j) => InHands(j)'
        BY <2>1 DEF InHands
    <2>6. \A q \in Procs : pc[q] # "unused" => pc'[q] # "unused"
        BY <2>1
    <2>7. \A j \in Items : future'[j] = "pending" => (j \in Queued \/ InHands(j))'
        BY <2>1, <2>2, <2>5 DEF ServiceInv, InHands
    <2>8. /\ (task # NoProc => pc[task] # "unused")'
          /\ (\A q \in interrupted : pc[q] # "unused")'
        BY <2>1, <2>6 DEF ServiceInv, TypeOK
    <2>9. (queue # <<>> => stopping # NoProc \/ running)'
        BY <2>1 DEF ServiceInv
    <2>. QED  BY <2>4, <2>7, <2>8, <2>9 DEF ServiceInv, InHands
<1>15. CASE StopBegin
    <2>1. Queued' = Queued
        BY <1>15 DEF StopBegin, Queued
    <2>. QED  BY <1>15, <2>1 DEF StopBegin, ServiceInv, itemVars
<1>16. ASSUME Drain, UNCHANGED <<pc, held, interrupted>>, task' = NoProc, running' => running
      PROVE  ServiceInv'
    <2>1. \A j \in Items : future'[j] = "pending" => InHands(j)
        BY <1>16 DEF Drain, CancelPending, ServiceInv, InHands
    <2>. QED  BY <1>16, <2>1 DEF Drain, ServiceInv, Serving, Live, InHands
<1>17. CASE StopIdle
    BY <1>16, <1>17 DEF StopIdle, procVars
<1>18. CASE StopFinish
    BY <1>16, <1>18 DEF StopFinish
<1>19. CASE Tick \/ UNCHANGED vars
    BY <1>2, <1>19 DEF Tick, vars, procVars, itemVars
<1>. QED
    BY <1>1, <1>3, <1>4, <1>5, <1>6, <1>7, <1>8, <1>9, <1>10, <1>11, <1>12, <1>13,
       <1>14, <1>15, <1>17, <1>18, <1>19
    DEF Next, Serve, Stop, CallerStep, Works, Ends, ItemStep

\* However stop(), enqueue(), cancellations and abandonments interleave, a
\* caller that waits is queued or served, and the queue is attended to.
THEOREM NoCallerLost == Spec => []NoLostCaller
<1>1. Init => ServiceInv
    BY DEF Init, ServiceInv
<1>2. TypeOK /\ TypeOK' /\ ServiceInv /\ [Next]_vars => ServiceInv'
    BY ServiceInvStep
<1>3. ServiceInv => NoLostCaller
    BY DEF ServiceInv, NoLostCaller
<1>. QED  BY <1>1, <1>2, <1>3, TypeCorrect, PTL DEF Spec

---------------------------------------------------------------------------
(* Answers *)

\* Whoever resolves a future first decides it: the processor's result, an
\* expiry, a cancellation by the caller or by stop() is never replaced.
THEOREM AnswersFinal == Spec => AnswerIsFinal
<1>1. ASSUME TypeOK, [Next]_vars
      PROVE  [\A i \in Items : future[i] \in Resolved => future'[i] = future[i]]_vars
    <2>. SUFFICES ASSUME Next, NEW i \in Items, future[i] \in Resolved
                  PROVE  future'[i] = future[i]
        BY <1>1
    <2>. USE DEF TypeOK
    <2>1. future[i] # "pending" /\ future[i] # "idle"
        BY DEF Resolved
    <2>2. ASSUME NEW j \in Items, CallerStep(j) \/ Return(j)  PROVE future'[i] = future[i]
        BY <1>1, <2>1, <2>2 DEF CallerStep, Enqueue, Abandon, SetBackoff, Forget, Return
    <2>3. ASSUME NEW p \in Procs, Begin(p) \/ Retire(p) \/ Park(p) \/ Interrupt(p)
          PROVE  future'[i] = future[i]
        BY <1>1, <2>1, <2>3 DEF Begin, Retire, Park, Interrupt, CancelPending, itemVars
    <2>4. ASSUME NEW p \in Procs, NEW j \in Items, ItemStep(p, j)
          PROVE  future'[i] = future[i]
        <3>1. future' = future \/ \E v : future' = Settled(j, v)
            BY <2>4 DEF ItemStep, SkipAbandoned, Expire, Sleep, StartNow, StartAfterSleep,
                        StartCall, DropAfterSleep, Complete, Detach, itemVars
        <3>. QED  BY <1>1, <2>1, <3>1 DEF Settled
    <2>5. CASE Stop
        BY <1>1, <2>1, <2>5 DEF Stop, StopBegin, StopIdle, StopFinish, Drain, CancelPending, itemVars
    <2>6. CASE Tick
        BY <2>6 DEF Tick, itemVars
    <2>. QED  BY <2>2, <2>3, <2>4, <2>5, <2>6 DEF Next, Serve, Works, Ends
<1>. QED  BY <1>1, TypeCorrect, PTL DEF Spec, AnswerIsFinal

\* No quota is spent on a caller that has gone, whichever way the request
\* comes to its start.
THEOREM AbandonedNeverSent == Spec => NotSentWhenAbandoned
<1>1. ASSUME TypeOK, [Next]_vars
      PROVE  [\A i \in Items : call[i] = "none" /\ call'[i] = "running" => future[i] = "pending"]_vars
    <2>. SUFFICES ASSUME Next, NEW i \in Items, call[i] = "none", call'[i] = "running"
                  PROVE  future[i] = "pending"
        BY <1>1
    <2>. USE DEF TypeOK
    <2>1. ASSUME NEW j \in Items, CallerStep(j) \/ Return(j)  PROVE FALSE
        BY <1>1, <2>1 DEF CallerStep, Enqueue, Abandon, SetBackoff, Forget, Return
    <2>2. ASSUME NEW p \in Procs, Begin(p) \/ Retire(p) \/ Park(p) \/ Interrupt(p)  PROVE FALSE
        BY <1>1, <2>2 DEF Begin, Retire, Park, Interrupt, itemVars
    <2>3. ASSUME NEW p \in Procs, NEW j \in Items, ItemStep(p, j)  PROVE future[i] = "pending"
        <3>1. CASE StartNow(p, j) \/ StartAfterSleep(p, j)
            BY <1>1, <3>1 DEF StartNow, StartAfterSleep, StartCall, Wanted
        <3>2. CASE Complete(p, j) \/ Detach(p, j)
            BY <1>1, <3>2 DEF Complete, Detach, CancelledCall
        <3>3. CASE SkipAbandoned(p, j) \/ Expire(p, j) \/ Sleep(p, j) \/ DropAfterSleep(p, j)
            BY <3>3 DEF SkipAbandoned, Expire, Sleep, DropAfterSleep, itemVars
        <3>. QED  BY <2>3, <3>1, <3>2, <3>3 DEF ItemStep
    <2>4. CASE Stop
        BY <2>4 DEF Stop, StopBegin, StopIdle, StopFinish, itemVars
    <2>5. CASE Tick
        BY <2>5 DEF Tick, itemVars
    <2>. QED  BY <2>1, <2>2, <2>3, <2>4, <2>5 DEF Next, Serve, Works, Ends
<1>. QED  BY <1>1, TypeCorrect, PTL DEF Spec, NotSentWhenAbandoned

---------------------------------------------------------------------------
(* The sleep *)

\* A processor that sleeps holds a request that was enqueued, whose clock has
\* therefore stopped, and wakes before that request has waited too long.
SleepInv ==
    \A p \in Procs : pc[p] = "sleeping" =>
        /\ held[p] \in Items
        /\ future[held[p]] # "idle"
        /\ wake[p] <= enqueuedAt[held[p]] + MaxQueueWait

\* A step that puts nobody to sleep, and enqueues nothing again.
LEMMA SleepUndisturbed ==
    ASSUME TypeOK, SleepInv,
           \A p \in Procs : pc'[p] = "sleeping" =>
               pc[p] = "sleeping" /\ held'[p] = held[p] /\ wake'[p] = wake[p],
           \A i \in Items : future[i] # "idle" =>
               future'[i] # "idle" /\ enqueuedAt'[i] = enqueuedAt[i]
    PROVE  SleepInv'
BY DEF SleepInv, TypeOK

\* Every step preserves the bound on the sleeps.
LEMMA SleepInvStep ==
    ASSUME TypeOK, SleepInv, [Next]_vars
    PROVE  SleepInv'
<1>. USE DEF TypeOK
<1>1. ASSUME NEW i \in Items, CallerStep(i) \/ Return(i)  PROVE SleepInv'
    BY <1>1, SleepUndisturbed
    DEF CallerStep, Enqueue, Abandon, SetBackoff, Forget, Return, procVars
<1>2. ASSUME NEW p \in Procs, Begin(p) \/ Park(p) \/ Retire(p)  PROVE SleepInv'
    BY <1>2, SleepUndisturbed DEF Begin, Park, Retire, itemVars
<1>3. ASSUME NEW p \in Procs, Interrupt(p)  PROVE SleepInv'
    BY <1>3, SleepUndisturbed DEF Interrupt, CancelPending
<1>4. ASSUME NEW p \in Procs, NEW i \in Items, Sleep(p, i)  PROVE SleepInv'
    <2>1. CalculateDelay \in Nat
        BY CalculateDelayType
    <2>2. /\ held'[p] = i /\ wake'[p] = now + CalculateDelay
          /\ future[i] = "pending"
          /\ now - enqueuedAt[i] + CalculateDelay <= MaxQueueWait
          /\ UNCHANGED <<future, enqueuedAt>>
        BY <1>4 DEF Sleep, Wanted, Waited, itemVars
    <2>3. now + CalculateDelay <= enqueuedAt[i] + MaxQueueWait
        BY <2>1, <2>2, ConfigAssumption
    <2>4. \A q \in Procs \ {p} : pc'[q] = pc[q] /\ held'[q] = held[q] /\ wake'[q] = wake[q]
        BY <1>4 DEF Sleep
    <2>. QED  BY <2>2, <2>3, <2>4 DEF SleepInv
<1>5. ASSUME NEW p \in Procs, NEW i \in Items, SkipAbandoned(p, i) \/ DropAfterSleep(p, i)
      PROVE  SleepInv'
    BY <1>5, SleepUndisturbed DEF SkipAbandoned, DropAfterSleep, itemVars
<1>6. ASSUME NEW p \in Procs, NEW i \in Items, Expire(p, i)  PROVE SleepInv'
    BY <1>6, SleepUndisturbed DEF Expire, Settled
<1>7. ASSUME NEW p \in Procs, NEW i \in Items, StartNow(p, i) \/ StartAfterSleep(p, i)
      PROVE  SleepInv'
    BY <1>7, SleepUndisturbed DEF StartNow, StartAfterSleep, StartCall
<1>8. ASSUME NEW p \in Procs, NEW i \in Items, Complete(p, i)  PROVE SleepInv'
    <2>1. Answer(call[i]) # "idle"
        BY DEF Answer
    <2>2. \A j \in Items : future[j] # "idle" => future'[j] # "idle"
        BY <1>8, <2>1 DEF Complete, Settled
    <2>. QED  BY <1>8, <2>2, SleepUndisturbed DEF Complete
<1>9. ASSUME NEW p \in Procs, NEW i \in Items, Detach(p, i)  PROVE SleepInv'
    BY <1>9, SleepUndisturbed DEF Detach
<1>10. CASE Stop
    BY <1>10, SleepUndisturbed
    DEF Stop, StopBegin, StopIdle, StopFinish, Drain, CancelPending, procVars, itemVars
<1>11. CASE Tick \/ UNCHANGED vars
    BY <1>11, SleepUndisturbed DEF Tick, vars, procVars, itemVars
<1>. QED
    BY <1>1, <1>2, <1>3, <1>4, <1>5, <1>6, <1>7, <1>8, <1>9, <1>10, <1>11
    DEF Next, Serve, Works, Ends, ItemStep

\* No delay holds a caller past max_queue_wait, counted from its enqueue:
\* also with stops, several processors and a backoff of any length.
THEOREM SleepsWithinBound == Spec => []SleepWithinBound
<1>1. Init => SleepInv
    BY DEF Init, SleepInv
<1>2. TypeOK /\ SleepInv /\ [Next]_vars => SleepInv'
    BY SleepInvStep
<1>3. SleepInv => SleepWithinBound
    BY DEF SleepInv, SleepWithinBound
<1>. QED  BY <1>1, <1>2, <1>3, TypeCorrect, PTL DEF Spec

---------------------------------------------------------------------------
(* A server that is never stopped *)

\* A processor exists once _running is set, and never a second one; what runs
\* is the request it holds, and what it holds at a call was sent.
OneProcessor ==
    /\ \A p, q \in Procs : pc[p] # "unused" /\ pc[q] # "unused" => p = q
    /\ running \/ \A p \in Procs : pc[p] = "unused"
    /\ \A i \in Items : call[i] = "running" =>
           \E p \in Procs : pc[p] = "calling" /\ held[p] = i
    /\ \A p \in Procs : pc[p] = "calling" => call[held[p]] # "none"

LEMMA ServeIsNext == ServeSpec => Spec
<1>1. [Serve]_vars => [Next]_vars
    BY DEF Next
<1>. QED  BY <1>1, PTL DEF ServeSpec, Spec

\* The step of the one processor p, to control point c.
LEMMA ProcessorMoves ==
    ASSUME TypeOK, OneProcessor, NEW p \in Procs, pc[p] # "unused",
           NEW c, pc' = [pc EXCEPT ![p] = c], running' = running,
           \A i \in Items : call'[i] = "running" => c = "calling" /\ held'[p] = i,
           c = "calling" => call'[held'[p]] # "none"
    PROVE  OneProcessor'
<1>. USE DEF TypeOK, OneProcessor
<1>1. \A q \in Procs \ {p} : pc'[q] = "unused"
    OBVIOUS
<1>2. (\A q, r \in Procs : pc[q] # "unused" /\ pc[r] # "unused" => q = r)'
    BY <1>1
<1>3. (running \/ \A q \in Procs : pc[q] = "unused")'
    OBVIOUS
<1>4. (\A i \in Items : call[i] = "running" =>
           \E q \in Procs : pc[q] = "calling" /\ held[q] = i)'
    OBVIOUS
<1>5. (\A q \in Procs : pc[q] = "calling" => call[held[q]] # "none")'
    BY <1>1
<1>. QED  BY <1>2, <1>3, <1>4, <1>5

\* Only the request that the processor holds while it calls is running.
LEMMA OnlyTheHeldRuns ==
    ASSUME TypeOK, OneProcessor, NEW p \in Procs, pc[p] # "unused"
    PROVE  \A i \in Items : call[i] = "running" => pc[p] = "calling" /\ held[p] = i
BY DEF OneProcessor

\* Every step of a server that is never stopped keeps the processor single.
LEMMA OneProcessorStep ==
    ASSUME TypeOK, OneProcessor, [Serve]_vars
    PROVE  OneProcessor'
<1>. USE DEF TypeOK
<1>1. ASSUME NEW i \in Items, Enqueue(i)  PROVE OneProcessor'
    <2>1. CASE running
        BY <1>1, <2>1 DEF Enqueue, OneProcessor
    <2>2. CASE ~running
        <3>1. PICK p \in Procs : running' /\ pc' = [pc EXCEPT ![p] = "created"]
            BY <1>1, <2>2 DEF Enqueue
        <3>2. \A q \in Procs : pc[q] = "unused"
            BY <2>2 DEF OneProcessor
        <3>3. \A q \in Procs \ {p} : pc'[q] = "unused"
            BY <3>1, <3>2
        <3>4. \A j \in Items : call'[j] # "running"
            BY <1>1, <3>2 DEF Enqueue, OneProcessor
        <3>. QED  BY <3>1, <3>3, <3>4 DEF OneProcessor
    <2>. QED  BY <2>1, <2>2
<1>2. ASSUME UNCHANGED <<running, pc, held>>,
             \A j \in Items : call'[j] = "running" => call[j] = "running",
             \A j : call[j] # "none" => call'[j] # "none"
      PROVE  OneProcessor'
    BY <1>2 DEF OneProcessor
<1>3. ASSUME NEW i \in Items, Abandon(i) \/ SetBackoff(i) \/ Forget(i) \/ Return(i)
      PROVE  OneProcessor'
    <2>1. "running" \notin {"ended"} /\ (\A o \in Outcome : o # "running")
        BY DEF Outcome
    <2>2. "none" \notin {"ended"} /\ (\A o \in Outcome : o # "none")
        BY DEF Outcome
    <2>3. CASE Return(i)
        <3>1. PICK o \in Outcome \cup {"ended"} : call' = [call EXCEPT ![i] = o]
            BY <2>3 DEF Return
        <3>. QED  BY <1>2, <2>1, <2>2, <2>3, <3>1 DEF Return, procVars
    <2>. QED  BY <1>2, <1>3, <2>3 DEF Abandon, SetBackoff, Forget, procVars
<1>4. ASSUME NEW p \in Procs, Begin(p) \/ Park(p)  PROVE OneProcessor'
    BY <1>4, ProcessorMoves, OnlyTheHeldRuns DEF Begin, Park, itemVars
<1>5. ASSUME NEW p \in Procs, NEW i \in Items, Dequeue(p, i)
      PROVE  /\ pc[p] # "unused" /\ running' = running
             /\ \A j \in Items : call[j] # "running"
    BY <1>5, OnlyTheHeldRuns DEF Dequeue
<1>6. ASSUME NEW p \in Procs, NEW i \in Items,
             SkipAbandoned(p, i) \/ Expire(p, i) \/ Sleep(p, i)
      PROVE  OneProcessor'
    BY <1>5, <1>6, ProcessorMoves DEF SkipAbandoned, Expire, Sleep, itemVars
<1>7. ASSUME NEW p \in Procs, NEW i \in Items, StartNow(p, i) \/ StartAfterSleep(p, i)
      PROVE  OneProcessor'
    <2>1. /\ pc[p] # "unused" /\ running' = running
          /\ \A j \in Items : call[j] # "running"
        BY <1>5, <1>7, OnlyTheHeldRuns DEF StartNow, StartAfterSleep, Awake
    <2>2. /\ call' = [call EXCEPT ![i] = "running"]
          /\ pc' = [pc EXCEPT ![p] = "calling"]
          /\ held'[p] = i
        BY <1>7 DEF StartNow, StartAfterSleep, StartCall
    <2>. QED  BY <2>1, <2>2, ProcessorMoves
<1>8. ASSUME NEW p \in Procs, NEW i \in Items,
             DropAfterSleep(p, i) \/ Complete(p, i) \/ Detach(p, i)
      PROVE  OneProcessor'
    <2>1. pc[p] \in {"sleeping", "calling"} /\ pc[p] # "unused"
        BY <1>8 DEF DropAfterSleep, Awake, Complete, Detach
    <2>2. \A j \in Items : call[j] = "running" => pc[p] = "calling" /\ held[p] = j
        BY <2>1, OnlyTheHeldRuns
    <2>3. CASE DropAfterSleep(p, i)
        BY <2>2, <2>3, ProcessorMoves DEF DropAfterSleep, Awake, itemVars
    <2>4. CASE Complete(p, i) \/ Detach(p, i)
        <3>1. \A j \in Items : call'[j] # "running"
            BY <2>2, <2>4 DEF Complete, Detach, CancelledCall
        <3>. QED  BY <2>1, <2>4, <3>1, ProcessorMoves DEF Complete, Detach
    <2>. QED  BY <1>8, <2>3, <2>4
<1>9. CASE Tick \/ UNCHANGED vars
    BY <1>2, <1>9 DEF Tick, vars, procVars, itemVars
<1>. QED
    BY <1>1, <1>3, <1>4, <1>6, <1>7, <1>8, <1>9 DEF Serve, CallerStep, Works, ItemStep

\* A server that is never stopped runs its requests one at a time: however
\* callers come, leave and are answered, no second processor appears.
LEMMA OneProcessorAlways == ServeSpec => []OneProcessor
<1>1. Init => OneProcessor
    BY DEF Init, OneProcessor
<1>2. TypeOK /\ OneProcessor /\ [Serve]_vars => OneProcessor'
    BY OneProcessorStep
<1>. QED  BY <1>1, <1>2, TypeCorrect, ServeIsNext, PTL DEF ServeSpec

\* "Runs them one at a time": two callbacks that nobody cancelled never run
\* together on a server that is never stopped.
THEOREM RunsOneAtATime == ServeSpec => []OneAtATime
<1>1. OneProcessor => OneAtATime
    BY DEF OneProcessor, OneAtATime
<1>. QED  BY <1>1, OneProcessorAlways, PTL

---------------------------------------------------------------------------
(* The rolling budget *)

\* Every backoff outlasts the window by a tick: in whole ticks, as the delays
\* are, a backoff of one window that begins after a request of the same tick
\* ends a tick after that request has left the window.
LongBackoffs ==
    \A status \in {429, 403}, ra \in RetryAfters, dd \in DefaultDelays :
        BackoffDelay(status, ra, dd) > Window

Sent == {i \in Items : call[i] # "none"}

\* The requests of S, sent at the given times, that are in the window of t.
InWindow(S, sentAt, t) == {i \in S : sentAt[i] + Window >= t}

\* The window is never overfull, nor will it be when the sleeper wakes; and
\* until a backoff ends, at most the sleeper it found asleep is sent.
BudgetInv ==
    /\ \A i \in Sent : startedAt[i] <= now
    /\ Cardinality(InWindow(Sent, startedAt, now)) <= MaxPerMinute
    /\ \A p \in Procs : pc[p] = "sleeping" =>
           Cardinality(InWindow(Sent, startedAt, wake[p])) < MaxPerMinute
    /\ backoffUntil > now =>
           /\ Cardinality(InWindow(Sent, startedAt, backoffUntil)) <= 1
           /\ InWindow(Sent, startedAt, backoffUntil) # {} =>
                  \A p \in Procs : pc[p] = "sleeping" => wake[p] >= backoffUntil

\* A window holds finitely many requests, and a later one no more.
LEMMA WindowSize ==
    ASSUME NEW S \in SUBSET Items, NEW sentAt \in [Items -> Nat],
           NEW t \in Nat, NEW u \in Nat, t <= u
    PROVE  /\ IsFiniteSet(InWindow(S, sentAt, t))
           /\ Cardinality(InWindow(S, sentAt, t)) \in Nat
           /\ InWindow(S, sentAt, u) \subseteq InWindow(S, sentAt, t)
           /\ Cardinality(InWindow(S, sentAt, u)) \in Nat
           /\ Cardinality(InWindow(S, sentAt, u)) <= Cardinality(InWindow(S, sentAt, t))
<1>1. \A v \in Nat : InWindow(S, sentAt, v) \subseteq Items
    BY DEF InWindow
<1>2. \A v \in Nat : IsFiniteSet(InWindow(S, sentAt, v))
    BY <1>1, ConfigAssumption, FS_Subset
<1>3. InWindow(S, sentAt, u) \subseteq InWindow(S, sentAt, t)
    BY ConfigAssumption DEF InWindow
<1>4. Cardinality(InWindow(S, sentAt, u)) <= Cardinality(InWindow(S, sentAt, t))
    BY <1>2, <1>3, FS_Subset
<1>. QED  BY <1>2, <1>3, <1>4, FS_CardinalityType

\* The window that the model counts is the window of the present.
LEMMA RecentIsWindow == Recent = InWindow(Sent, startedAt, now)
BY DEF Recent, InWindow, Sent

\* Sending one more request adds at most that request to a window.
LEMMA WindowAfterSending ==
    ASSUME TypeOK, NEW i \in Items, NEW t \in Nat,
           startedAt' = [startedAt EXCEPT ![i] = now],
           call' = [call EXCEPT ![i] = "running"]
    PROVE  Cardinality(InWindow(Sent', startedAt', t))
               <= Cardinality(InWindow(Sent, startedAt, t)) + 1
<1>. DEFINE W == InWindow(Sent, startedAt, t)
            X == InWindow(Sent', startedAt', t)
<1>1. Sent' \subseteq Sent \cup {i} /\ Sent' \in SUBSET Items /\ Sent \in SUBSET Items
    BY DEF TypeOK, Sent
<1>2. X \subseteq W \cup {i}
    BY <1>1 DEF InWindow, TypeOK
<1>3. IsFiniteSet(W) /\ Cardinality(W) \in Nat
    <2>1. startedAt \in [Items -> Nat] /\ t <= t
        BY DEF TypeOK
    <2>. QED  BY <1>1, <2>1, WindowSize
<1>. HIDE DEF W, X
<1>4. IsFiniteSet(W \cup {i}) /\ Cardinality(W \cup {i}) <= Cardinality(W) + 1
    <2>1. /\ IsFiniteSet(W \cup {i})
          /\ Cardinality(W \cup {i}) = IF i \in W THEN Cardinality(W) ELSE Cardinality(W) + 1
        BY <1>3, FS_AddElement
    <2>. QED  BY <1>3, <2>1
<1>5. Cardinality(X) <= Cardinality(W \cup {i})
    BY <1>2, <1>4, FS_Subset
<1>6. Cardinality(X) \in Nat /\ Cardinality(W \cup {i}) \in Nat
    BY <1>2, <1>4, FS_Subset, FS_CardinalityType
<1>7. Cardinality(X) <= Cardinality(W) + 1
    BY <1>3, <1>4, <1>5, <1>6
<1>. QED  BY <1>7 DEF W, X

\* The delay leads to a moment with room for one more request.
LEMMA DelayMakesRoom ==
    ASSUME TypeOK, BudgetInv, MaxPerMinute >= 2
    PROVE  Cardinality(InWindow(Sent, startedAt, now + CalculateDelay)) < MaxPerMinute
<1>. DEFINE Room(t) == Cardinality(InWindow(Sent, startedAt, t))
            recent == Cardinality(Recent)
            spread == 2 * (MaxPerMinute - recent)
            slow == (UntilReset + spread - 1) \div spread
<1>0. Sent \in SUBSET Items /\ startedAt \in [Items -> Nat] /\ now \in Nat
    BY DEF TypeOK, Sent
<1>1. \A t \in Nat : t >= now => Room(t) \in Nat /\ Room(t) <= Room(now)
    BY <1>0, WindowSize
<1>2. recent = Room(now) /\ recent \in Nat
    BY RecentIsWindow, RecentFinite
<1>3. CalculateDelay \in Nat
    BY CalculateDelayType
<1>4. CASE backoffUntil > now
    <2>1. now + CalculateDelay = backoffUntil
        BY <1>4 DEF CalculateDelay, TypeOK
    <2>2. Room(backoffUntil) <= 1
        BY <1>4 DEF BudgetInv
    <2>3. Room(backoffUntil) \in Nat
        BY <1>1, <1>4 DEF TypeOK
    <2>. HIDE DEF Room
    <2>4. Room(now + CalculateDelay) < MaxPerMinute
        BY <2>1, <2>2, <2>3, ConfigAssumption
    <2>. QED  BY <2>4 DEF Room
<1>5. CASE ~(backoffUntil > now) /\ ~LimitReached(recent)
    <2>1. recent < MaxPerMinute
        BY <1>2, <1>5, ConfigAssumption DEF LimitReached
    <2>2. Room(now + CalculateDelay) \in Nat /\ Room(now + CalculateDelay) <= Room(now)
        BY <1>0, <1>1, <1>3
    <2>. HIDE DEF Room, recent
    <2>3. Room(now + CalculateDelay) < MaxPerMinute
        BY <1>2, <2>1, <2>2, ConfigAssumption
    <2>. QED  BY <2>3 DEF Room
<1>6. CASE ~(backoffUntil > now) /\ LimitReached(recent)
    <2>1. CalculateDelay = UntilReset + 1
        BY <1>6 DEF CalculateDelay
    <2>2. Recent # {}
        BY <1>2, <1>6, FS_EmptySet, ConfigAssumption DEF LimitReached
    <2>3. PICK i \in Recent : startedAt[i] + Window = now + UntilReset
        BY <2>2, OldestLeaves
    <2>4. InWindow(Sent, startedAt, now + CalculateDelay) \subseteq Recent \ {i}
        <3>1. i \notin InWindow(Sent, startedAt, now + CalculateDelay)
            BY <1>0, <2>1, <2>3, <2>2, OldestLeaves, ConfigAssumption DEF InWindow
        <3>2. InWindow(Sent, startedAt, now + CalculateDelay) \subseteq Recent
            BY <1>0, <1>3, WindowSize, RecentIsWindow
        <3>. QED  BY <3>1, <3>2
    <2>5. IsFiniteSet(Recent \ {i}) /\ Cardinality(Recent \ {i}) = recent - 1
        BY <2>3, RecentFinite, FS_RemoveElement
    <2>6. Room(now + CalculateDelay) <= recent - 1
        BY <2>4, <2>5, FS_Subset
    <2>7. recent <= MaxPerMinute
        BY <1>2 DEF BudgetInv
    <2>8. Room(now + CalculateDelay) \in Nat
        BY <1>0, <1>1, <1>3
    <2>. HIDE DEF Room, recent
    <2>9. Room(now + CalculateDelay) < MaxPerMinute
        BY <1>2, <2>6, <2>7, <2>8, ConfigAssumption
    <2>. QED  BY <2>9 DEF Room
<1>. QED  BY <1>4, <1>5, <1>6

\* A step that sends nothing, puts nobody to sleep and imposes no backoff.
LEMMA BudgetUndisturbed ==
    ASSUME TypeOK, TypeOK', BudgetInv, now' \in {now, now + 1},
           backoffUntil' = backoffUntil, startedAt' = startedAt, Sent' = Sent,
           \A p \in Procs : pc'[p] = "sleeping" => pc[p] = "sleeping" /\ wake'[p] = wake[p]
    PROVE  BudgetInv'
<1>1. Sent \in SUBSET Items /\ startedAt \in [Items -> Nat] /\ now \in Nat /\ now' \in Nat /\ now <= now'
    BY DEF TypeOK, Sent
<1>2. /\ Cardinality(InWindow(Sent, startedAt, now')) \in Nat
      /\ Cardinality(InWindow(Sent, startedAt, now)) \in Nat
      /\ Cardinality(InWindow(Sent, startedAt, now')) <= Cardinality(InWindow(Sent, startedAt, now))
    BY <1>1, WindowSize
<1>3. Cardinality(InWindow(Sent, startedAt, now')) <= MaxPerMinute
    BY <1>2, ConfigAssumption DEF BudgetInv
<1>4. \A i \in Sent : startedAt[i] <= now'
    BY <1>1 DEF BudgetInv
<1>5. backoffUntil > now' => backoffUntil > now
    BY <1>1 DEF TypeOK
<1>. QED  BY <1>3, <1>4, <1>5 DEF BudgetInv

\* A request is sent when its window has room, and while a backoff runs only
\* by the sleeper that the backoff found asleep.
LEMMA BudgetAfterSending ==
    ASSUME TypeOK, TypeOK', OneProcessor, BudgetInv, NEW p \in Procs, NEW i \in Items,
           StartCall(p, i), now' = now, backoffUntil' = backoffUntil,
           pc[p] # "unused",
           Cardinality(InWindow(Sent, startedAt, now)) < MaxPerMinute,
           backoffUntil > now => pc[p] = "sleeping" /\ wake[p] <= now
    PROVE  BudgetInv'
<1>1. /\ startedAt' = [startedAt EXCEPT ![i] = now]
      /\ call' = [call EXCEPT ![i] = "running"]
      /\ pc' = [pc EXCEPT ![p] = "calling"]
    BY DEF StartCall
<1>2. Sent' \subseteq Sent \cup {i} /\ Sent' \in SUBSET Items /\ Sent \in SUBSET Items
    BY <1>1 DEF TypeOK, Sent
<1>3. \A j \in Sent' : startedAt'[j] <= now'
    BY <1>1, <1>2 DEF BudgetInv, TypeOK
<1>4. \A q \in Procs : pc'[q] # "sleeping"
    BY <1>1 DEF OneProcessor, TypeOK
<1>5. ASSUME NEW t \in Nat
      PROVE  /\ Cardinality(InWindow(Sent', startedAt', t)) \in Nat
             /\ Cardinality(InWindow(Sent, startedAt, t)) \in Nat
             /\ Cardinality(InWindow(Sent', startedAt', t))
                    <= Cardinality(InWindow(Sent, startedAt, t)) + 1
    <2>1. startedAt \in [Items -> Nat] /\ startedAt' \in [Items -> Nat] /\ t <= t
        BY DEF TypeOK
    <2>2. Cardinality(InWindow(Sent', startedAt', t)) \in Nat
        BY <1>2, <2>1, WindowSize
    <2>3. Cardinality(InWindow(Sent, startedAt, t)) \in Nat
        BY <1>2, <2>1, WindowSize
    <2>. QED  BY <1>1, <2>2, <2>3, WindowAfterSending
<1>6. Cardinality(InWindow(Sent', startedAt', now')) <= MaxPerMinute
    <2>1. now \in Nat
        BY DEF TypeOK
    <2>2. Cardinality(InWindow(Sent', startedAt', now)) <= MaxPerMinute
        BY <1>5, <2>1, ConfigAssumption
    <2>. QED  BY <2>2
<1>7. backoffUntil > now => Cardinality(InWindow(Sent', startedAt', backoffUntil)) <= 1
    <2>. SUFFICES ASSUME backoffUntil > now
                  PROVE  Cardinality(InWindow(Sent', startedAt', backoffUntil)) <= 1
        OBVIOUS
    <2>1. ~(wake[p] >= backoffUntil) /\ pc[p] = "sleeping"
        BY DEF TypeOK
    <2>2. InWindow(Sent, startedAt, backoffUntil) = {}
        BY <2>1 DEF BudgetInv
    <2>3. Cardinality(InWindow(Sent, startedAt, backoffUntil)) = 0
        BY <2>2, FS_EmptySet
    <2>. QED  BY <1>5, <2>3 DEF TypeOK
<1>. QED  BY <1>3, <1>4, <1>6, <1>7 DEF BudgetInv

\* Every step of a server that is never stopped keeps the budget.
LEMMA BudgetInvStep ==
    ASSUME TypeOK, TypeOK', OneProcessor, BudgetInv, [Serve]_vars,
           MaxPerMinute >= 2, LongBackoffs
    PROVE  BudgetInv'
<1>. USE DEF TypeOK
<1>1. ASSUME NEW i \in Items, Enqueue(i) \/ Abandon(i) \/ Forget(i)  PROVE BudgetInv'
    <2>1. Sent' = Sent /\ UNCHANGED <<now, backoffUntil, startedAt, wake>>
        BY <1>1 DEF Enqueue, Abandon, Forget, procVars, Sent
    <2>2. \A p \in Procs : pc'[p] = "sleeping" => pc[p] = "sleeping"
        BY <1>1 DEF Enqueue, Abandon, Forget, procVars
    <2>. QED  BY <2>1, <2>2, BudgetUndisturbed
<1>2. ASSUME NEW i \in Items, Return(i)  PROVE BudgetInv'
    <2>1. Sent' = Sent
        BY <1>2 DEF Return, Sent, Outcome
    <2>. QED  BY <1>2, <2>1, BudgetUndisturbed DEF Return, procVars
<1>3. ASSUME NEW i \in Items, SetBackoff(i)  PROVE BudgetInv'
    <2>1. PICK b \in Nat : b > Window /\ backoffUntil' = Later(backoffUntil, now + b)
        BY <1>3, BackoffDelayType DEF SetBackoff, LongBackoffs
    <2>2. /\ Sent' = Sent /\ UNCHANGED <<now, startedAt, wake, pc>>
          /\ Sent \in SUBSET Items
        BY <1>3 DEF SetBackoff, procVars, Sent
    <2>3. CASE backoffUntil' = backoffUntil
        BY <2>2, <2>3, BudgetUndisturbed
    <2>4. CASE backoffUntil' = now + b
        <3>1. \A i1 \in Sent : ~(startedAt[i1] + Window >= backoffUntil')
            BY <2>1, <2>2, <2>4, ConfigAssumption DEF BudgetInv
        <3>2. InWindow(Sent', startedAt', backoffUntil') = {}
            BY <2>2, <3>1 DEF InWindow
        <3>3. Cardinality(InWindow(Sent', startedAt', backoffUntil')) <= 1
            BY <3>2, FS_EmptySet
        <3>. QED  BY <2>2, <3>2, <3>3 DEF BudgetInv
    <2>. QED  BY <2>1, <2>3, <2>4 DEF Later
<1>4. ASSUME NEW p \in Procs, Begin(p) \/ Park(p)  PROVE BudgetInv'
    <2>1. Sent' = Sent
        BY <1>4 DEF Begin, Park, itemVars, Sent
    <2>. QED  BY <1>4, <2>1, BudgetUndisturbed DEF Begin, Park, itemVars
<1>5. ASSUME NEW p \in Procs, NEW i \in Items,
             SkipAbandoned(p, i) \/ Expire(p, i) \/ DropAfterSleep(p, i)
      PROVE  BudgetInv'
    <2>1. Sent' = Sent
        BY <1>5 DEF SkipAbandoned, Expire, DropAfterSleep, itemVars, Sent
    <2>. QED  BY <1>5, <2>1, BudgetUndisturbed
              DEF SkipAbandoned, Expire, DropAfterSleep, Dequeue, itemVars
<1>6. ASSUME NEW p \in Procs, NEW i \in Items, Complete(p, i) \/ Detach(p, i)
      PROVE  BudgetInv'
    <2>1. i \in Items /\ call[i] # "none" /\ \A j \in Items : j # i => call'[j] = call[j]
        BY <1>6 DEF Complete, Detach, CancelledCall, OneProcessor
    <2>2. call'[i] # "none"
        BY <1>6 DEF Complete, Detach, CancelledCall
    <2>3. Sent' = Sent
        BY <2>1, <2>2 DEF Sent
    <2>. QED  BY <1>6, <2>3, BudgetUndisturbed DEF Complete, Detach
<1>7. ASSUME NEW p \in Procs, NEW i \in Items, Sleep(p, i)  PROVE BudgetInv'
    <2>1. /\ UNCHANGED <<now, backoffUntil, startedAt, call>>
          /\ wake'[p] = now + CalculateDelay
          /\ pc[p] # "unused" /\ pc[p] # "sleeping"
          /\ \A q \in Procs \ {p} : pc'[q] = pc[q]
        BY <1>7 DEF Sleep, Dequeue, itemVars
    <2>2. Sent' = Sent
        BY <2>1 DEF Sent
    <2>3. \A q \in Procs : pc'[q] = "sleeping" => q = p
        BY <2>1 DEF OneProcessor
    <2>4. Cardinality(InWindow(Sent, startedAt, wake'[p])) < MaxPerMinute
        BY <2>1, DelayMakesRoom
    <2>5. backoffUntil > now => wake'[p] = backoffUntil
        BY <2>1 DEF CalculateDelay
    <2>. QED  BY <2>1, <2>2, <2>3, <2>4, <2>5 DEF BudgetInv
<1>8. ASSUME NEW p \in Procs, NEW i \in Items, StartNow(p, i)  PROVE BudgetInv'
    <2>1. /\ StartCall(p, i) /\ CalculateDelay = 0
          /\ now' = now /\ backoffUntil' = backoffUntil /\ pc[p] # "unused"
        BY <1>8 DEF StartNow, Dequeue
    <2>2. ~(backoffUntil > now)
        BY <2>1 DEF CalculateDelay
    <2>3. Cardinality(InWindow(Sent, startedAt, now)) < MaxPerMinute
        <3>1. now + CalculateDelay = now
            BY <2>1
        <3>. QED  BY <3>1, DelayMakesRoom
    <2>. QED  BY <2>1, <2>2, <2>3, BudgetAfterSending
<1>9. ASSUME NEW p \in Procs, NEW i \in Items, StartAfterSleep(p, i)  PROVE BudgetInv'
    <2>1. /\ StartCall(p, i) /\ pc[p] = "sleeping" /\ wake[p] <= now
          /\ now' = now /\ backoffUntil' = backoffUntil
        BY <1>9 DEF StartAfterSleep, Awake
    <2>2. Sent \in SUBSET Items
        BY DEF Sent
    <2>3. /\ Cardinality(InWindow(Sent, startedAt, wake[p])) < MaxPerMinute
          /\ Cardinality(InWindow(Sent, startedAt, wake[p])) \in Nat
          /\ Cardinality(InWindow(Sent, startedAt, now)) \in Nat
          /\ Cardinality(InWindow(Sent, startedAt, now)) <= Cardinality(InWindow(Sent, startedAt, wake[p]))
        BY <2>1, <2>2, WindowSize DEF BudgetInv
    <2>4. Cardinality(InWindow(Sent, startedAt, now)) < MaxPerMinute
        BY <2>3, ConfigAssumption
    <2>. QED  BY <2>1, <2>4, BudgetAfterSending
<1>10. CASE Tick \/ UNCHANGED vars
    <2>1. Sent' = Sent
        BY <1>10 DEF Tick, vars, procVars, itemVars, Sent
    <2>. QED  BY <1>10, <2>1, BudgetUndisturbed DEF Tick, vars, procVars, itemVars
<1>. QED
    BY <1>1, <1>2, <1>3, <1>4, <1>5, <1>6, <1>7, <1>8, <1>9, <1>10
    DEF Serve, CallerStep, Works, ItemStep

\* "At most max_requests_per_minute within any minute", on a server that is
\* never stopped, for a budget of two requests or more, as long as no backoff
\* is shorter than the window: a shorter one, as a Retry-After can impose,
\* breaks it.
THEOREM StaysWithinBudget ==
    ASSUME MaxPerMinute >= 2, LongBackoffs
    PROVE  ServeSpec => []WithinBudget
<1>1. Init => BudgetInv
    <2>. SUFFICES ASSUME Init PROVE BudgetInv
        OBVIOUS
    <2>1. Sent = {} /\ now = 0 /\ backoffUntil = 0
        BY DEF Init, Sent
    <2>2. InWindow(Sent, startedAt, now) = {}
        BY <2>1 DEF InWindow
    <2>3. Cardinality(InWindow(Sent, startedAt, now)) <= MaxPerMinute
        BY <2>2, FS_EmptySet, ConfigAssumption
    <2>4. \A p \in Procs : pc[p] # "sleeping"
        BY DEF Init
    <2>. QED  BY <2>1, <2>3, <2>4 DEF BudgetInv
<1>2. TypeOK /\ TypeOK' /\ OneProcessor /\ BudgetInv /\ [Serve]_vars => BudgetInv'
    BY BudgetInvStep
<1>3. TypeOK /\ BudgetInv => WithinBudget
    <2>. SUFFICES ASSUME TypeOK, BudgetInv PROVE WithinBudget
        OBVIOUS
    <2>. DEFINE W == {i \in Items : call[i] # "none" /\ now - startedAt[i] < Window}
    <2>1. W \subseteq Recent
        BY ConfigAssumption DEF TypeOK, Recent
    <2>2. Cardinality(Recent) <= MaxPerMinute
        BY RecentIsWindow DEF BudgetInv
    <2>3. Cardinality(W) <= Cardinality(Recent) /\ Cardinality(W) \in Nat
        BY <2>1, RecentFinite, FS_Subset, FS_CardinalityType
    <2>. HIDE DEF W
    <2>4. Cardinality(W) <= MaxPerMinute
        BY <2>2, <2>3, RecentFinite, ConfigAssumption
    <2>. QED  BY <2>4 DEF W, WithinBudget
<1>. QED  BY <1>1, <1>2, <1>3, TypeCorrect, ServeIsNext, OneProcessorAlways, PTL DEF ServeSpec

=============================================================================
