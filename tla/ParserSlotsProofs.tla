-------------------------- MODULE ParserSlotsProofs --------------------------
(***************************************************************************)
(* Proofs about ParserSlots, for any number of calls and slots: the slots  *)
(* are conserved, and in the boundary whose start thread holds the slot a  *)
(* slot covers its child until the final stop is cut.                      *)
(***************************************************************************)
EXTENDS ParserSlots, FiniteSetTheorems, TLAPS

\* A call that has not taken a slot has nothing else either.
Fresh(c) ==
    /\ c.task = "acquire" => c.start = "none"
    /\ c.start = "none" => c.slot = "none" /\ c.stop = "none" /\ c.child = "none" /\ ~c.cleaner
    /\ c.slot = "none" => c.start = "none"

\* The task owns its slot for as long as it awaits something, and until then
\* nobody was told of a cancellation.
Owned(c) ==
    /\ c.task \in {"start", "poll", "stop"} => c.slot = "task"
    /\ c.task # "left" => ~c.cancelled /\ ~c.claimed
    /\ c.slot = "task" => c.task # "left"
    /\ c.start = "reaping" => c.claimed
    /\ c.cleaner => c.task = "left" /\ c.start = "done"
    /\ c.task \in {"poll", "stop"} => c.start = "done"

\* The child runs only between its fork and its end.
ChildKnown(c) ==
    /\ c.child = "alive" => c.start \in {"forked", "reaping", "done"}
    /\ c.stop = "done" => c.child = "gone"
    /\ c.stop # "none" => c.start = "done"

\* A thread that may start or reap a child keeps the slot from coming back.
Covered(c) ==
    StartHoldsSlot =>
        /\ c.start \in {"queued", "running", "forked", "reaping"} => c.slot # "released"
        /\ c.child = "alive" /\ c.slot = "released" => c.cut

CallOK(c) == Fresh(c) /\ Owned(c) /\ ChildKnown(c) /\ Covered(c)

\* The state is well typed, except that nothing bounds free yet.
Typed ==
    /\ free \in Nat
    /\ returning \subseteq Calls
    /\ call \in [Calls -> Call]

Inv == Typed /\ (\A r \in Calls : CallOK(call[r])) /\ SlotsConserved

---------------------------------------------------------------------------
(* Counting slots *)

\* The state in hand after one call changed.
LEMMA HandAfter ==
    ASSUME SlotsAssumption, call \in [Calls -> Call], NEW r \in Calls, NEW d \in Call,
           call' = [call EXCEPT ![r] = d]
    PROVE  InHand' = IF d.slot \in {"task", "thread"} THEN InHand \cup {r} ELSE InHand \ {r}
BY DEF InHand

LEMMA HandFinite ==
    ASSUME SlotsAssumption, Typed
    PROVE  /\ IsFiniteSet(InHand) /\ IsFiniteSet(returning)
           /\ Cardinality(InHand) \in Nat /\ Cardinality(returning) \in Nat
BY FS_Subset, FS_CardinalityType DEF SlotsAssumption, InHand, Typed

\* One call changed and the others are as they were.
LEMMA CallsAfter ==
    ASSUME SlotsAssumption, Inv, NEW r \in Calls, NEW d \in Call, CallOK(d), call' = [call EXCEPT ![r] = d]
    PROVE  call' \in [Calls -> Call] /\ (\A q \in Calls : CallOK(call'[q]))
<1>1. call' \in [Calls -> Call]
    BY DEF Inv, Typed
<1>2. \A q \in Calls : call'[q] = IF q = r THEN d ELSE call[q]
    BY DEF Inv, Typed
<1>. QED  BY <1>1, <1>2 DEF Inv

\* A step of one call that moves no slot.
LEMMA QuietStep ==
    ASSUME SlotsAssumption, Inv, NEW r \in Calls, NEW d \in Call, CallOK(d), call' = [call EXCEPT ![r] = d],
           d.slot = call[r].slot \/ {d.slot, call[r].slot} \subseteq {"task", "thread"},
           UNCHANGED <<free, returning>>
    PROVE  Inv'
<1>1. call' \in [Calls -> Call] /\ (\A q \in Calls : CallOK(call'[q]))
    BY CallsAfter
<1>2. InHand' = InHand
    <2>1. InHand' = IF d.slot \in {"task", "thread"} THEN InHand \cup {r} ELSE InHand \ {r}
        BY HandAfter DEF Inv, Typed
    <2>2. r \in InHand <=> d.slot \in {"task", "thread"}
        BY DEF InHand
    <2>. QED  BY <2>1, <2>2
<1>3. \A q \in returning' : call'[q].slot = "released"
    BY DEF Inv, Typed, SlotsConserved
<1>. QED  BY <1>1, <1>2, <1>3 DEF Inv, Typed, SlotsConserved

\* A step of one call that gives its slot straight back.
LEMMA GiveStep ==
    ASSUME SlotsAssumption, Inv, NEW r \in Calls, NEW d \in Call, CallOK(d), call' = [call EXCEPT ![r] = d],
           call[r].slot \in {"task", "thread"}, d.slot = "released",
           free' = free + 1, UNCHANGED returning
    PROVE  Inv'
<1>1. call' \in [Calls -> Call] /\ (\A q \in Calls : CallOK(call'[q]))
    BY CallsAfter
<1>2. InHand' = InHand \ {r} /\ r \in InHand
    BY HandAfter DEF Inv, Typed, InHand
<1>3. Cardinality(InHand') = Cardinality(InHand) - 1
    BY <1>2, HandFinite, FS_RemoveElement DEF Inv
<1>4. \A q \in returning' : call'[q].slot = "released"
    BY DEF Inv, Typed, SlotsConserved
<1>5. free' + Cardinality(InHand') + Cardinality(returning') = MaxProcesses
    BY <1>3, HandFinite DEF SlotsAssumption, Inv, Typed, SlotsConserved
<1>. QED  BY <1>1, <1>4, <1>5 DEF Inv, Typed, SlotsConserved

\* A step of one call that sends its slot back through the loop.
LEMMA HandStep ==
    ASSUME SlotsAssumption, Inv, NEW r \in Calls, NEW d \in Call, CallOK(d), call' = [call EXCEPT ![r] = d],
           call[r].slot \in {"task", "thread"}, d.slot = "released",
           returning' = returning \cup {r}, UNCHANGED free
    PROVE  Inv'
<1>1. call' \in [Calls -> Call] /\ (\A q \in Calls : CallOK(call'[q]))
    BY CallsAfter
<1>2. InHand' = InHand \ {r} /\ r \in InHand
    BY HandAfter DEF Inv, Typed, InHand
<1>3. r \notin returning
    BY DEF Inv, SlotsConserved
<1>4. Cardinality(InHand') = Cardinality(InHand) - 1
    BY <1>2, HandFinite, FS_RemoveElement DEF Inv
<1>5. Cardinality(returning') = Cardinality(returning) + 1
    BY <1>3, HandFinite, FS_AddElement DEF Inv
<1>6. \A q \in returning' : call'[q].slot = "released"
    BY DEF Inv, Typed, SlotsConserved
<1>7. free' + Cardinality(InHand') + Cardinality(returning') = MaxProcesses
    BY <1>4, <1>5, HandFinite DEF SlotsAssumption, Inv, Typed, SlotsConserved
<1>. QED  BY <1>1, <1>6, <1>7 DEF Inv, Typed, SlotsConserved

\* A call takes a slot.
LEMMA TakeStep ==
    ASSUME SlotsAssumption, Inv, NEW r \in Calls, NEW d \in Call, CallOK(d), call' = [call EXCEPT ![r] = d],
           call[r].slot = "none", d.slot = "task", free > 0,
           free' = free - 1, UNCHANGED returning
    PROVE  Inv'
<1>1. call' \in [Calls -> Call] /\ (\A q \in Calls : CallOK(call'[q]))
    BY CallsAfter
<1>2. InHand' = InHand \cup {r} /\ r \notin InHand
    BY HandAfter DEF Inv, Typed, InHand
<1>3. Cardinality(InHand') = Cardinality(InHand) + 1
    BY <1>2, HandFinite, FS_AddElement DEF Inv
<1>4. \A q \in returning' : call'[q].slot = "released"
    BY DEF Inv, Typed, SlotsConserved
<1>5. free' + Cardinality(InHand') + Cardinality(returning') = MaxProcesses /\ free' \in Nat
    BY <1>3, HandFinite DEF SlotsAssumption, Inv, Typed, SlotsConserved
<1>. QED  BY <1>1, <1>4, <1>5 DEF Inv, Typed, SlotsConserved

\* The loop returns a slot to the semaphore.
LEMMA ReturnStep ==
    ASSUME SlotsAssumption, Inv, NEW r \in Calls, Return(r)
    PROVE  Inv'
<1>1. InHand' = InHand
    BY DEF Return, InHand
<1>2. Cardinality(returning') = Cardinality(returning) - 1
    BY HandFinite, FS_RemoveElement DEF Inv, Return
<1>3. free' + Cardinality(InHand') + Cardinality(returning') = MaxProcesses
    BY <1>1, <1>2, HandFinite DEF SlotsAssumption, Inv, Typed, SlotsConserved, Return
<1>. QED  BY <1>1, <1>3 DEF Inv, Typed, SlotsConserved, Return

\* What a call is once its task left.
Left(c) == [c EXCEPT !.task = "left", !.slot = IF c.slot = "task" THEN "released" ELSE c.slot]

LEMMA LeaveStep ==
    ASSUME SlotsAssumption, Inv, NEW r \in Calls, NEW d \in Call, CallOK(Left(d)), Leave(r, d),
           d.slot = call[r].slot \/ {d.slot, call[r].slot} \subseteq {"task", "thread"},
           UNCHANGED returning
    PROVE  Inv'
<1>1. Left(d) \in Call
    BY DEF Left, Call, TaskStates, SlotStates
<1>2. CASE d.slot = "task"
    <2>1. /\ Left(d) = [d EXCEPT !.task = "left", !.slot = "released"]
          /\ Left(d).slot = "released"
        BY <1>2 DEF Left, Call
    <2>2. call' = [call EXCEPT ![r] = Left(d)] /\ free' = free + 1
        BY <1>2, <2>1 DEF Leave
    <2>. QED  BY <1>1, <1>2, <2>1, <2>2, GiveStep
<1>3. CASE d.slot # "task"
    <2>1. Left(d) = [d EXCEPT !.task = "left"] /\ Left(d).slot = d.slot
        BY <1>3 DEF Left, Call
    <2>2. call' = [call EXCEPT ![r] = Left(d)] /\ UNCHANGED free
        BY <1>3, <2>1 DEF Leave
    <2>. QED  BY <1>1, <2>1, <2>2, QuietStep
<1>. QED  BY <1>2, <1>3

\* What a call is once a thread released its slot.
Released(c) == [c EXCEPT !.slot = "released"]

LEMMA ReleaseStep ==
    ASSUME SlotsAssumption, Inv, NEW r \in Calls, NEW d \in Call, CallOK(Released(d)), ReleaseFromThread(r, d),
           d.slot # "none",
           d.slot = call[r].slot \/ {d.slot, call[r].slot} \subseteq {"task", "thread"}
    PROVE  Inv'
<1>1. Released(d) \in Call /\ Released(d).slot = "released"
    BY DEF Released, Call, SlotStates
<1>2. call' = [call EXCEPT ![r] = Released(d)]
    BY DEF ReleaseFromThread, Released
<1>3. CASE d.slot = "released"
    BY <1>1, <1>2, <1>3, QuietStep DEF ReleaseFromThread
<1>4. CASE d.slot # "released"
    <2>1. call[r].slot \in {"task", "thread"}
        BY <1>4 DEF Call, SlotStates
    <2>2. returning' = returning \cup {r} /\ UNCHANGED free
        BY <1>4 DEF ReleaseFromThread
    <2>. QED  BY <1>1, <1>2, <2>1, <2>2, HandStep
<1>. QED  BY <1>3, <1>4

---------------------------------------------------------------------------
(* Each action preserves the invariant *)

LEMMA InitOK == ASSUME SlotsAssumption PROVE Init => Inv
<1>. SUFFICES ASSUME Init PROVE Inv
    OBVIOUS
<1>1. Typed
    BY DEF SlotsAssumption, Init, Typed, Call, TaskStates, StartStates, StopStates, SlotStates
<1>2. \A r \in Calls : CallOK(call[r])
    BY DEF Init, CallOK, Fresh, Owned, ChildKnown, Covered
<1>3. InHand = {}
    BY DEF Init, InHand
<1>4. SlotsConserved
    BY <1>3, FS_EmptySet DEF SlotsAssumption, Init, SlotsConserved
<1>. QED  BY <1>1, <1>2, <1>4 DEF Inv

\* Two calls agree on what only the task and the cleanup change.
Same(c, d) ==
    /\ d.task = c.task /\ d.stop = c.stop
    /\ d.cancelled <=> c.cancelled
    /\ d.cut <=> c.cut

USE DEF CallOK, Fresh, Owned, ChildKnown, Covered,
        Call, TaskStates, StartStates, StopStates, SlotStates

LEMMA ThreadOK ==
    ASSUME SlotsAssumption, Inv, NEW r \in Calls, Thread(r)
    PROVE  Inv'
<1>. DEFINE c == call[r]
<1>0. c \in Call /\ CallOK(c)
    BY DEF Inv, Typed
<1>1. CASE Begin(r)
    <2>. DEFINE d == [c EXCEPT !.start = "running"]
    <2>1. d \in Call /\ CallOK(d) /\ d.slot = c.slot
        BY <1>0, <1>1 DEF Begin
    <2>. QED  BY <1>1, <2>1, QuietStep DEF Begin
<1>2. CASE Fork(r)
    <2>. DEFINE d == [c EXCEPT !.start = "forked", !.child = "alive"]
    <2>0. /\ d \in Call /\ Same(c, d)
          /\ d.start = "forked" /\ d.child = "alive" /\ d.slot = c.slot
          /\ d.cleaner <=> c.cleaner
          /\ d.claimed <=> c.claimed
        <3>1. d \in Call
            BY <1>0
        <3>2. /\ d.task = c.task /\ d.stop = c.stop
              /\ d.start = "forked" /\ d.child = "alive" /\ d.slot = c.slot
            BY <1>0
        <3>3. /\ d.cleaner = c.cleaner /\ d.claimed = c.claimed
              /\ d.cancelled = c.cancelled /\ d.cut = c.cut
            BY <1>0
        <3>. QED  BY <3>1, <3>2, <3>3 DEF Same
    <2>1. d \in Call /\ CallOK(d) /\ d.slot = c.slot
        BY <1>0, <1>2, <2>0 DEF Fork, Same
    <2>. QED  BY <1>2, <2>1, QuietStep DEF Fork
<1>3. CASE StartFails(r)
    <2>. DEFINE mine == StartHoldsSlot /\ c.cancelled /\ ~c.claimed
                d == [c EXCEPT !.start = "failed", !.claimed = c.claimed \/ mine]
    <2>1. c.start = "running" /\ c.slot # "none"
        BY <1>0, <1>3 DEF StartFails
    <2>2. /\ d \in Call /\ Same(c, d) /\ d.slot = c.slot
          /\ d.start = "failed" /\ d.child = c.child
          /\ d.cleaner <=> c.cleaner
        BY <1>0 DEF Same
    <2>3. CASE mine
        <3>1. ReleaseFromThread(r, d)
            BY <1>3, <2>3 DEF StartFails
        <3>2. c.cancelled
            BY <2>3
        <3>. HIDE DEF d
        <3>3. /\ Same(c, Released(d)) /\ Released(d).start = "failed"
              /\ Released(d).slot = "released" /\ Released(d).child = c.child
              /\ Released(d).cleaner <=> c.cleaner
            BY <2>2 DEF Same, Released
        <3>4. CallOK(Released(d))
            BY <1>0, <2>1, <3>2, <3>3 DEF Same
        <3>. QED  BY <2>1, <2>2, <3>1, <3>4, ReleaseStep
    <2>4. CASE ~mine
        <3>1. call' = [call EXCEPT ![r] = d] /\ UNCHANGED <<free, returning>>
            BY <1>3, <2>4 DEF StartFails
        <3>2. d.claimed <=> c.claimed
            BY <1>0, <2>4
        <3>. HIDE DEF d
        <3>3. CallOK(d)
            BY <1>0, <2>1, <2>2, <3>2 DEF Same
        <3>. QED  BY <2>2, <3>1, <3>3, QuietStep
    <2>. QED  BY <2>3, <2>4
<1>4. CASE Publish(r)
    <2>1. Published(c) \in Call /\ CallOK(Published(c)) /\ Published(c).slot = c.slot
        BY <1>0, <1>4 DEF Publish, Published
    <2>. QED  BY <1>4, <2>1, QuietStep DEF Publish
<1>5. CASE Reap(r)
    <2>. DEFINE d == [c EXCEPT !.start = "done", !.child = "gone"]
    <2>1. d \in Call /\ d.slot = c.slot /\ d.slot # "none" /\ CallOK(d) /\ CallOK(Released(d))
        BY <1>0, <1>5 DEF Reap, Released
    <2>2. CASE StartHoldsSlot
        <3>1. ReleaseFromThread(r, d)
            BY <1>5, <2>2 DEF Reap
        <3>. HIDE DEF d
        <3>. QED  BY <2>1, <3>1, ReleaseStep
    <2>3. CASE ~StartHoldsSlot
        <3>1. call' = [call EXCEPT ![r] = d] /\ UNCHANGED <<free, returning>>
            BY <1>5, <2>3 DEF Reap
        <3>. HIDE DEF d
        <3>. QED  BY <2>1, <3>1, QuietStep
    <2>. QED  BY <2>2, <2>3
<1>6. CASE BeginStop(r)
    <2>. DEFINE d == [c EXCEPT !.stop = "running"]
    <2>1. d \in Call /\ CallOK(d) /\ d.slot = c.slot
        BY <1>0, <1>6 DEF BeginStop
    <2>. QED  BY <1>6, <2>1, QuietStep DEF BeginStop
<1>7. CASE EndStop(r)
    <2>. DEFINE d == [c EXCEPT !.stop = "done", !.child = "gone"]
    <2>1. d \in Call /\ CallOK(d) /\ d.slot = c.slot
        BY <1>0, <1>7 DEF EndStop
    <2>. QED  BY <1>7, <2>1, QuietStep DEF EndStop
<1>8. CASE CleanUp(r)
    <2>. DEFINE d == [c EXCEPT !.cleaner = FALSE, !.child = "gone"]
    <2>2. /\ d \in Call /\ Same(c, d) /\ d.slot = c.slot /\ d.start = c.start
          /\ d.claimed <=> c.claimed
          /\ d.child = "gone" /\ ~d.cleaner
        BY <1>0 DEF Same
    <2>. HIDE DEF d
    <2>0. /\ Same(c, Released(d)) /\ Released(d).start = c.start
          /\ Released(d).claimed <=> c.claimed
          /\ Released(d).slot = "released" /\ Released(d).child = "gone" /\ ~Released(d).cleaner
        BY <1>0, <2>2 DEF Same, Released
    <2>1. d \in Call /\ d.slot = c.slot /\ d.slot # "none" /\ CallOK(Released(d))
        BY <1>0, <1>8, <2>0, <2>2 DEF CleanUp, Same
    <2>. USE DEF d
    <2>. QED  BY <1>8, <2>1, ReleaseStep DEF CleanUp
<1>. QED  BY <1>1, <1>2, <1>3, <1>4, <1>5, <1>6, <1>7, <1>8 DEF Thread

LEMMA TaskOK ==
    ASSUME SlotsAssumption, Inv, NEW r \in Calls, Task(r)
    PROVE  Inv'
<1>. DEFINE c == call[r]
<1>0. c \in Call /\ CallOK(c)
    BY DEF Inv, Typed
<1>1. CASE Acquire(r)
    <2>. DEFINE d == [c EXCEPT !.task = "start", !.start = "queued", !.slot = "task"]
    <2>1. c.task = "acquire" /\ c.start = "none" /\ c.slot = "none"
        BY <1>0, <1>1 DEF Acquire
    <2>2. /\ d \in Call /\ d.slot = "task" /\ d.start = "queued" /\ d.task = "start"
          /\ d.stop = c.stop /\ d.child = c.child
          /\ d.cleaner <=> c.cleaner
          /\ d.cancelled <=> c.cancelled
          /\ d.claimed <=> c.claimed
        <3>1. d \in Call
            BY <1>0
        <3>2. d.cleaner = c.cleaner /\ d.cancelled = c.cancelled /\ d.claimed = c.claimed
            BY <1>0
        <3>. QED  BY <1>0, <3>1, <3>2
    <2>3. call' = [call EXCEPT ![r] = d] /\ free > 0 /\ free' = free - 1 /\ UNCHANGED returning
        BY <1>1 DEF Acquire
    <2>. HIDE DEF d
    <2>4. CallOK(d)
        BY <1>0, <2>1, <2>2
    <2>. QED  BY <2>1, <2>2, <2>3, <2>4, TakeStep
<1>2. CASE Started(r)
    <2>. DEFINE d == [c EXCEPT !.task = "poll"]
    <2>1. d \in Call /\ CallOK(d) /\ d.slot = c.slot
        BY <1>0, <1>2 DEF Started
    <2>. QED  BY <1>2, <2>1, QuietStep DEF Started
<1>3. CASE NotStarted(r)
    <2>1. CallOK(Left(c))
        BY <1>0, <1>3 DEF NotStarted, Left
    <2>. QED  BY <1>0, <1>3, <2>1, LeaveStep DEF NotStarted
<1>4. CASE Collect(r)
    <2>. DEFINE d == [c EXCEPT !.task = "stop", !.stop = "queued"]
    <2>1. d \in Call /\ CallOK(d) /\ d.slot = c.slot
        BY <1>0, <1>4 DEF Collect
    <2>. QED  BY <1>4, <2>1, QuietStep DEF Collect
<1>5. CASE Stopped(r)
    <2>1. CallOK(Left(c))
        BY <1>0, <1>5 DEF Stopped, Left
    <2>. QED  BY <1>0, <1>5, <2>1, LeaveStep DEF Stopped
<1>6. CASE Return(r)
    BY <1>6, ReturnStep
<1>. QED  BY <1>1, <1>2, <1>3, <1>4, <1>5, <1>6 DEF Task

LEMMA CancelOK ==
    ASSUME SlotsAssumption, Inv, NEW r \in Calls, Cancel(r)
    PROVE  Inv'
<1>. DEFINE c == call[r]
<1>0. c \in Call /\ CallOK(c)
    BY DEF Inv, Typed
<1>1. CASE CancelAcquire(r)
    <2>1. CallOK(Left(c))
        BY <1>0, <1>1 DEF CancelAcquire, Left
    <2>. QED  BY <1>0, <1>1, <2>1, LeaveStep DEF CancelAcquire
<1>2. CASE CancelStart(r)
    <2>1. PICK job \in Dropped(c.start) :
              LET e == [Held(c) EXCEPT !.start = job, !.cancelled = TRUE]
              IN  IF e.start = "done" /\ ~e.claimed
                  THEN DeferCleanup(r, [e EXCEPT !.claimed = TRUE])
                  ELSE IF StartHoldsSlot /\ e.start = "failed" /\ ~e.claimed
                  THEN ReleaseFromThread(r, [e EXCEPT !.claimed = TRUE, !.task = "left"])
                  ELSE Leave(r, e) /\ UNCHANGED returning
        BY <1>2 DEF CancelStart
    <2>. DEFINE e == [Held(c) EXCEPT !.start = job, !.cancelled = TRUE]
    <2>2. c.task = "start" /\ c.slot = "task" /\ ~c.claimed
        BY <1>0, <1>2 DEF CancelStart
    <2>3. job \in StartStates /\ (job = c.start \/ (c.start = "queued" /\ job = "dropped"))
        BY <1>0 DEF Dropped
    <2>4. Held(c) \in Call /\ Held(c).slot = IF StartHoldsSlot THEN "thread" ELSE "task"
        BY <1>0, <2>2 DEF Held, Transferred
    <2>5. /\ Held(c).task = c.task /\ Held(c).stop = c.stop /\ Held(c).child = c.child
          /\ Held(c).cleaner = c.cleaner /\ Held(c).claimed = c.claimed
        BY <1>0, <2>2 DEF Held, Transferred
    <2>6. /\ e \in Call
          /\ e.start = job /\ e.cancelled /\ ~e.claimed /\ e.slot = Held(c).slot
          /\ e.task = "start" /\ e.stop = c.stop /\ e.child = c.child
          /\ e.cleaner = c.cleaner
        BY <2>2, <2>3, <2>4, <2>5
    <2>7. {e.slot, c.slot} \subseteq {"task", "thread"}
        BY <2>2, <2>4, <2>6
    <2>. HIDE DEF e
    <2>8. CASE job = "done"
        <3>. DEFINE d == [e EXCEPT !.claimed = TRUE]
                    t == [Transferred(d) EXCEPT !.cleaner = TRUE]
                    u == [Untransferred(d) EXCEPT !.child = "gone"]
        <3>1. (Leave(r, t) \/ Leave(r, u)) /\ UNCHANGED returning
            BY <2>1, <2>6, <2>8 DEF DeferCleanup, e
        <3>2. CASE Leave(r, t)
            <4>1. /\ Transferred(d) \in Call /\ Transferred(d).slot = "thread"
                  /\ Transferred(d).start = "done" /\ Transferred(d).stop = c.stop
                  /\ Transferred(d).child = c.child
                BY <2>6, <2>7, <2>8 DEF Transferred
            <4>2. /\ t \in Call /\ t.slot = "thread" /\ t.start = "done" /\ t.stop = c.stop
                  /\ t.child = c.child
                BY <4>1
            <4>. HIDE DEF t
            <4>3. CallOK(Left(t))
                BY <1>0, <4>2 DEF Left
            <4>. QED  BY <2>2, <3>1, <3>2, <4>2, <4>3, LeaveStep
        <3>3. CASE Leave(r, u)
            <4>1. /\ Untransferred(d) \in Call /\ Untransferred(d).slot = "task"
                  /\ Untransferred(d).start = "done" /\ Untransferred(d).stop = c.stop
                  /\ Untransferred(d).cleaner = c.cleaner
                BY <2>6, <2>7, <2>8 DEF Untransferred
            <4>2. /\ u \in Call /\ u.slot = "task" /\ u.start = "done" /\ u.stop = c.stop
                  /\ u.cleaner = c.cleaner /\ u.child = "gone"
                BY <4>1
            <4>3. ~c.cleaner
                BY <1>0, <2>2
            <4>. HIDE DEF u
            <4>4. CallOK(Left(u))
                BY <4>2, <4>3 DEF Left
            <4>. QED  BY <2>2, <3>1, <3>3, <4>2, <4>4, LeaveStep
        <3>. QED  BY <3>1, <3>2, <3>3
    <2>9. CASE job = "failed" /\ StartHoldsSlot
        <3>. DEFINE d == [e EXCEPT !.claimed = TRUE, !.task = "left"]
        <3>1. ReleaseFromThread(r, d)
            BY <2>1, <2>6, <2>9 DEF e
        <3>2. d \in Call /\ d.slot = e.slot /\ d.slot # "none"
            BY <2>6, <2>7
        <3>3. CallOK(Released(d))
            BY <1>0, <2>2, <2>3, <2>6, <2>9 DEF Released
        <3>. QED  BY <2>7, <3>1, <3>2, <3>3, ReleaseStep
    <2>10. CASE job # "done" /\ ~(job = "failed" /\ StartHoldsSlot)
        <3>1. Leave(r, e) /\ UNCHANGED returning
            BY <2>1, <2>6, <2>10 DEF e
        <3>2. CallOK(Left(e))
            BY <1>0, <2>2, <2>3, <2>4, <2>6, <2>10 DEF Left
        <3>. QED  BY <2>6, <2>7, <3>1, <3>2, LeaveStep
    <2>. QED  BY <2>8, <2>9, <2>10
<1>3. CASE CancelPoll(r)
    <2>. DEFINE t == [Transferred(c) EXCEPT !.cleaner = TRUE]
                u == [Untransferred(c) EXCEPT !.task = "stop", !.stop = "queued"]
    <2>1. c.task = "poll" /\ c.slot = "task" /\ c.start = "done"
        BY <1>0, <1>3 DEF CancelPoll
    <2>2. CASE Leave(r, t) /\ UNCHANGED returning
        <3>1. t \in Call /\ t.slot = "thread" /\ CallOK(Left(t))
            BY <1>0, <2>1 DEF Transferred, Left
        <3>. QED  BY <2>1, <2>2, <3>1, LeaveStep
    <2>3. CASE call' = [call EXCEPT ![r] = u] /\ UNCHANGED <<free, returning>>
        <3>1. u \in Call /\ u.slot = "task" /\ CallOK(u)
            BY <1>0, <2>1 DEF Untransferred
        <3>. QED  BY <2>1, <2>3, <3>1, QuietStep
    <2>. QED  BY <1>3, <2>2, <2>3 DEF CancelPoll
<1>4. CASE CancelStop(r)
    <2>1. PICK job \in Dropped(c.stop) :
              Leave(r, [c EXCEPT !.stop = job, !.cut = TRUE]) /\ UNCHANGED returning
        BY <1>4 DEF CancelStop
    <2>. DEFINE d == [c EXCEPT !.stop = job, !.cut = TRUE]
    <2>2. c.task = "stop" /\ c.slot = "task" /\ c.start = "done"
        BY <1>0, <1>4 DEF CancelStop
    <2>3. job \in StopStates /\ (job = "done" => c.stop = "done")
        BY <1>0 DEF Dropped
    <2>4. d \in Call /\ d.slot = c.slot /\ CallOK(Left(d))
        BY <1>0, <2>2, <2>3 DEF Left
    <2>. QED  BY <2>1, <2>4, LeaveStep
<1>. QED  BY <1>1, <1>2, <1>3, <1>4 DEF Cancel

---------------------------------------------------------------------------
(* The theorems *)

LEMMA NextOK == ASSUME SlotsAssumption PROVE Inv /\ [Next]_vars => Inv'
<1>. SUFFICES ASSUME Inv, [Next]_vars PROVE Inv'
    OBVIOUS
<1>1. CASE Next
    <2>1. PICK r \in Calls : Thread(r) \/ Exit(r) \/ Task(r) \/ Cancel(r)
        BY <1>1 DEF Next
    <2>2. CASE Exit(r)
        <3>. DEFINE d == [call[r] EXCEPT !.child = "gone"]
        <3>1. call[r] \in Call /\ CallOK(call[r])
            BY DEF Inv, Typed
        <3>2. d \in Call /\ CallOK(d) /\ d.slot = call[r].slot
            BY <2>2, <3>1 DEF Exit
        <3>. QED  BY <2>2, <3>2, QuietStep DEF Exit
    <2>. QED  BY <2>1, <2>2, ThreadOK, TaskOK, CancelOK
<1>2. CASE UNCHANGED vars
    <2>1. InHand' = InHand
        BY <1>2 DEF vars, InHand
    <2>. QED  BY <1>2, <2>1 DEF vars, Inv, Typed, SlotsConserved
<1>. QED  BY <1>1, <1>2

LEMMA InvAlways == ASSUME SlotsAssumption PROVE Spec => []Inv
BY InitOK, NextOK, PTL DEF Spec

\* The state is well typed: in particular the semaphore never holds more
\* than the configured number of slots, nor a negative number.
THEOREM TypeCorrect == ASSUME SlotsAssumption PROVE Spec => []TypeOK
<1>1. Inv => TypeOK
    <2>. SUFFICES ASSUME Inv PROVE TypeOK
        OBVIOUS
    <2>1. free <= MaxProcesses
        BY HandFinite DEF SlotsAssumption, Inv, Typed, SlotsConserved
    <2>. QED  BY <2>1 DEF SlotsAssumption, Inv, Typed, TypeOK
<1>. QED  BY <1>1, InvAlways, PTL

\* Every slot is released exactly once, however task, start thread, pool and
\* cleanup thread interleave (SlotHandle).
THEOREM NoSlotReleasedTwice == ASSUME SlotsAssumption PROVE Spec => []SlotsConserved
BY InvAlways, PTL DEF Inv

\* Where the start thread holds the slot (run_isolated), no slot comes back
\* before its child is gone, unless the final stop was cancelled.
THEOREM SlotHeldUntilReaped ==
    ASSUME SlotsAssumption, StartHoldsSlot
    PROVE  Spec => []SlotCoversChild
<1>1. Inv => SlotCoversChild
    BY DEF Inv, SlotCoversChild, HasChild
<1>. QED  BY <1>1, InvAlways, PTL

=============================================================================
