------------------------------ MODULE SitesProofs ------------------------------
(***************************************************************************)
(* Theorems about the clients of sites that MCSites puts side by side:     *)
(* DuckDuckGo's pages, Home Depot's gateway hold, the job boards and the   *)
(* minimization of a discovered request, for any number of readers, calls, *)
(* pages and fields, and, through the theorems of MTopClientProofs and     *)
(* ParserSlotsProofs, of all that TLC checks of the MTop client and the    *)
(* parser slots.                                                           *)
(***************************************************************************)
EXTENDS MCSites, MTopClientProofs, FiniteSetTheorems

\* A behaviour of the parts is one of each part, which stutters while another
\* part, or none, takes a step.
LEMMA StepsOfParts ==
    ASSUME [PartsNext]_allVars
    PROVE  /\ [Next]_mtopVars /\ [Ddg!Next]_ddgVars /\ [Hold!Next]_holdVars
           /\ [GoJobs!Next \/ GcJobs!Next]_boardVars
           /\ [Mini!Next]_miniVars /\ [Slots!Next]_slotsVars
<1>1. CASE PartsNext
    BY <1>1 DEF PartsNext, MTopStep, DdgStep, HoldStep, BoardStep, MiniStep, SlotsStep
<1>2. CASE UNCHANGED allVars
    BY <1>2 DEF allVars
<1>. QED
    BY <1>1, <1>2

---------------------------------------------------------------------------
(* The job boards *)

\* The exchange is held by whoever waits for an answer in one; while its pages
\* are read, the server keeps its search.
ExchangeHeld(c) ==
    /\ exchangeLock = c <=> place[c] \in GoJobs!Reading
    /\ place[c] = "page" => stored = c

BoardFlags == firstPage \in BOOLEAN /\ cached \in BOOLEAN
BoardTypes ==
    /\ stored \in Calls \cup {"none", "everything"}
    /\ {vocabLock, exchangeLock} \subseteq Calls \cup {NoCall}
    /\ place \in [Calls -> GoJobs!Reading \cup
                            {"new", "vocabLock", "vocabExchange", "exchange", "done"}]
    /\ walked \in [Calls -> 0 .. MaxPages]
    /\ rows \in [Calls -> SUBSET (Calls \cup {"none", "everything"})]
    /\ whole \subseteq Calls

BoardInv ==
    /\ BoardFlags /\ BoardTypes
    /\ \A c \in Calls : ExchangeHeld(c)
    /\ GoJobs!OwnResults /\ GoJobs!WholeVocabularyKept

LEMMA BoardsTyped == BoardFlags /\ BoardTypes => GoJobs!TypeOK
BY DEF BoardFlags, BoardTypes, GoJobs!TypeOK

LEMMA BoardInvInit == ASSUME GoJobs!BoardsAssumption, GoJobs!Init PROVE BoardInv
<1>1. BoardFlags
    BY DEF GoJobs!Init, BoardFlags
<1>2. BoardTypes
    BY DEF GoJobs!Init, BoardTypes, GoJobs!Reading, GoJobs!BoardsAssumption
<1>3. ASSUME NEW c \in Calls PROVE ExchangeHeld(c)
    BY <1>3 DEF GoJobs!Init, GoJobs!Reading, GoJobs!BoardsAssumption, ExchangeHeld
<1>. QED
    BY <1>1, <1>2, <1>3 DEF GoJobs!Init, BoardInv, GoJobs!OwnResults, GoJobs!WholeVocabularyKept

LEMMA BoardInvStep ==
    ASSUME GoJobs!BoardsAssumption, BoardInv, [GoJobs!Next \/ GcJobs!Next]_boardVars
    PROVE  BoardInv'
<1>. USE DEF BoardInv, BoardTypes, GoJobs!Reading, ExchangeHeld, GoJobs!OwnResults,
             GoJobs!WholeVocabularyKept, GoJobs!BoardsAssumption,
             GoJobs!GoesTo, GcJobs!GoesTo, GoJobs!Serves, GcJobs!Serves,
             GoJobs!Released, GcJobs!Released, GoJobs!TakeExchange, GcJobs!TakeExchange
<1>1. ASSUME NEW c \in Calls, GoJobs!Start(c) \/ GcJobs!Start(c) PROVE BoardInv'
    BY <1>1 DEF BoardFlags, GoJobs!Start, GcJobs!Start
<1>2. ASSUME NEW c \in Calls, GoJobs!EnterVocab(c) \/ GcJobs!EnterVocab(c) PROVE BoardInv'
    BY <1>2 DEF BoardFlags, GoJobs!EnterVocab, GcJobs!EnterVocab
<1>3. ASSUME NEW c \in Calls, GoJobs!AskVocab(c) \/ GcJobs!AskVocab(c) PROVE BoardInv'
    BY <1>3 DEF BoardFlags, GoJobs!AskVocab, GcJobs!AskVocab
<1>4. ASSUME NEW c \in Calls, GoJobs!ReadVocab(c) \/ GcJobs!ReadVocab(c) PROVE BoardInv'
    <2>1. BoardFlags'
        BY <1>4 DEF BoardFlags, GoJobs!ReadVocab, GcJobs!ReadVocab,
                    GoJobs!Kept, GcJobs!Kept, GoJobs!WholePage, GcJobs!WholePage
    <2>2. BoardTypes'
        BY <1>4 DEF GoJobs!ReadVocab, GcJobs!ReadVocab,
                    GoJobs!Kept, GcJobs!Kept, GoJobs!WholePage, GcJobs!WholePage
    <2>3. ASSUME NEW d \in Calls PROVE ExchangeHeld(d)'
        BY <1>4, <2>3 DEF GoJobs!ReadVocab, GcJobs!ReadVocab,
                    GoJobs!Kept, GcJobs!Kept, GoJobs!WholePage, GcJobs!WholePage
    <2>4. (GoJobs!OwnResults /\ GoJobs!WholeVocabularyKept)'
        BY <1>4 DEF GoJobs!ReadVocab, GcJobs!ReadVocab,
                    GoJobs!Kept, GcJobs!Kept, GoJobs!WholePage, GcJobs!WholePage
    <2>. QED
        BY <2>1, <2>2, <2>3, <2>4
<1>5. ASSUME NEW c \in Calls, GoJobs!Open(c) \/ GcJobs!Open(c) PROVE BoardInv'
    BY <1>5 DEF BoardFlags, GoJobs!Open, GcJobs!Open
<1>6. ASSUME NEW c \in Calls, GoJobs!Opened(c) \/ GcJobs!Opened(c) PROVE BoardInv'
    <2>1. BoardFlags'
        BY <1>6 DEF BoardFlags, GoJobs!Opened, GcJobs!Opened
    <2>2. BoardTypes'
        BY <1>6 DEF GoJobs!Opened, GcJobs!Opened
    <2>3. ASSUME NEW d \in Calls PROVE ExchangeHeld(d)'
        BY <1>6, <2>3 DEF GoJobs!Opened, GcJobs!Opened
    <2>4. (GoJobs!OwnResults /\ GoJobs!WholeVocabularyKept)'
        BY <1>6 DEF GoJobs!Opened, GcJobs!Opened
    <2>. QED
        BY <2>1, <2>2, <2>3, <2>4
<1>7. ASSUME NEW c \in Calls, GoJobs!ReadPage(c) \/ GcJobs!ReadPage(c) PROVE BoardInv'
    BY <1>7 DEF BoardFlags, GoJobs!ReadPage, GcJobs!ReadPage
<1>8. ASSUME NEW c \in Calls, GoJobs!GiveUp(c) \/ GcJobs!GiveUp(c) PROVE BoardInv'
    <2>1. BoardFlags'
        BY <1>8 DEF BoardFlags, GoJobs!GiveUp, GcJobs!GiveUp
    <2>2. BoardTypes'
        BY <1>8 DEF GoJobs!GiveUp, GcJobs!GiveUp
    <2>3. ASSUME NEW d \in Calls PROVE ExchangeHeld(d)'
        BY <1>8, <2>3 DEF GoJobs!GiveUp, GcJobs!GiveUp
    <2>4. (GoJobs!OwnResults /\ GoJobs!WholeVocabularyKept)'
        BY <1>8 DEF GoJobs!GiveUp, GcJobs!GiveUp
    <2>. QED
        BY <2>1, <2>2, <2>3, <2>4
<1>9. CASE UNCHANGED boardVars
    BY <1>9 DEF BoardFlags, boardVars
<1>. QED
    BY <1>1, <1>2, <1>3, <1>4, <1>5, <1>6, <1>7, <1>8, <1>9 DEF GoJobs!Next, GcJobs!Next

LEMMA BoardInvAlways == PartsSpec => []BoardInv
<1>. USE InstancesAssumption DEF InstancesAssumption
<1>1. PartsInit => BoardInv
    BY BoardInvInit DEF PartsInit
<1>2. BoardInv /\ [PartsNext]_allVars => BoardInv'
    BY BoardInvStep, StepsOfParts
<1>. QED
    BY <1>1, <1>2, PTL DEF PartsSpec

\* A search pages its own results (gojobs/api.py:70), however searches overlap
\* and wherever they are given up.
THEOREM SearchesPageTheirOwn == PartsSpec => []OwnResults
<1>1. BoardInv => OwnResults
    BY DEF BoardInv, OwnResults
<1>. QED
    BY <1>1, BoardInvAlways, PTL

\* ... a whole vocabulary alone is kept, and no call that is over, or waits for
\* no answer, keeps the exchange.
LEMMA BoardsInOrder ==
    BoardInv => GoJobs!TypeOK /\ GoJobs!WholeVocabularyKept /\ GoJobs!ExchangeIsLive
<1>1. ASSUME BoardInv PROVE GoJobs!ExchangeIsLive
    BY <1>1 DEF BoardInv, BoardTypes, ExchangeHeld, GoJobs!ExchangeIsLive
<1>. QED
    BY <1>1, BoardsTyped DEF BoardInv

---------------------------------------------------------------------------
(* Minimization *)

\* Each instance counts the elements of a set as FiniteSets does.
LEMMA OneCardinality ==
    ASSUME NEW S
    PROVE  /\ Mini!Cardinality(S) = Cardinality(S)
           /\ Mini!IsFiniteSet(S) <=> IsFiniteSet(S)
           /\ Ddg!Cardinality(S) = Cardinality(S)
<1>1. Mini!Cardinality(S) = Cardinality(S)
    BY Zenon DEF Mini!Cardinality, Cardinality
<1>2. Mini!IsFiniteSet(S) <=> IsFiniteSet(S)
    BY DEF Mini!IsFiniteSet, IsFiniteSet
<1>3. Ddg!Cardinality(S) = Cardinality(S)
    BY Zenon DEF Ddg!Cardinality, Cardinality
<1>. QED
    BY <1>1, <1>2, <1>3

\* In a round of complements, those tried have failed; there are never more
\* chunks than fields.
MiniInv ==
    /\ Mini!TypeOK /\ Mini!KeptPasses /\ Mini!OneMinimal
    /\ n <= Cardinality(current)
    /\ stage = "complements" => \A i \in 1 .. tried : current \ Mini!Chunk(current, n, i) \in failed

\* A field has a place among as many as there are fields, and it alone has it.
LEMMA PlacesDiffer ==
    ASSUME NEW S \in SUBSET Nat, IsFiniteSet(S), NEW x \in S
    PROVE  /\ Mini!Place(S, x) \in 1 .. Cardinality(S)
           /\ \A y \in S : Mini!Place(S, y) = Mini!Place(S, x) => y = x
<1> DEFINE Upto(m) == {u \in S : u <= m}
<1>1. ASSUME NEW y \in S
      PROVE  IsFiniteSet(Upto(y)) /\ Cardinality(Upto(y)) \in 1 .. Cardinality(S)
    <2>1. Upto(y) \in SUBSET S /\ y \in Upto(y)
        OBVIOUS
    <2>. HIDE DEF Upto
    <2>2. IsFiniteSet(Upto(y)) /\ Cardinality(Upto(y)) <= Cardinality(S)
        BY <2>1, FS_Subset
    <2>3. Cardinality(Upto(y)) \in Nat /\ Cardinality(S) \in Nat
        BY <2>2, FS_CardinalityType
    <2>4. Cardinality(Upto(y)) # 0
        BY <2>1, <2>2, FS_EmptySet
    <2>. QED
        BY <2>2, <2>3, <2>4
<1>2. ASSUME NEW y \in S, NEW z \in S, y < z
      PROVE  Cardinality(Upto(y)) # Cardinality(Upto(z))
    <2>1. y \in Nat /\ z \in Nat /\ \A u \in S : u \in Nat
        OBVIOUS
    <2>2. Upto(y) \subseteq Upto(z)
        <3>1. ASSUME NEW u \in S, u <= y PROVE u <= z
            BY <1>2, <2>1, <3>1
        <3>. QED
            BY <3>1
    <2>3. z \in Upto(z) /\ z \notin Upto(y)
        BY <1>2, <2>1
    <2>4. IsFiniteSet(Upto(z))
        BY <1>1
    <2>. HIDE DEF Upto
    <2>. QED
        BY <2>2, <2>3, <2>4, FS_Subset
<1>3. ASSUME NEW y \in S, Cardinality(Upto(y)) = Cardinality(Upto(x)) PROVE y = x
    <2>. HIDE DEF Upto
    <2>1. x \in Nat /\ y \in Nat
        OBVIOUS
    <2>. QED
        BY <1>2, <1>3, <2>1
<1>4. ASSUME NEW y \in S PROVE Mini!Place(S, y) = Cardinality(Upto(y))
    BY OneCardinality, Zenon DEF Mini!Place
<1>. QED
    BY <1>1, <1>3, <1>4

\* Where there are as many chunks as fields, each field is a chunk.
LEMMA FinestChunks ==
    ASSUME NEW S \in SUBSET Nat, IsFiniteSet(S), NEW x \in S
    PROVE  Mini!Chunk(S, Cardinality(S), Mini!Place(S, x)) = {x}
<1> DEFINE k == Cardinality(S)
           p == Mini!Place(S, x)
<1>1. k \in Nat /\ p \in 1 .. k
    BY FS_CardinalityType, PlacesDiffer
<1>. HIDE DEF k, p
<1>2. k \div k = 1 /\ k % k = 0
    BY <1>1
<1>3. ASSUME NEW i \in Nat PROVE i * 1 + Mini!Lesser(i, 0) = i
    BY DEF Mini!Lesser
<1>4. ASSUME NEW i \in Nat PROVE Mini!ChunkEnd(S, k, i) = i
    <2>1. Mini!ChunkEnd(S, k, i) = i * (k \div k) + Mini!Lesser(i, k % k)
        BY OneCardinality, Zenon DEF Mini!ChunkEnd, k
    <2>. QED
        BY <1>2, <1>3, <2>1, Zenon
<1>5. Mini!ChunkEnd(S, k, p - 1) = p - 1 /\ Mini!ChunkEnd(S, k, p) = p
    BY <1>1, <1>4
<1>6. \A y \in S : Mini!Place(S, y) \in Nat
    BY <1>1, PlacesDiffer DEF k
<1>7. \A y \in S : Mini!Place(S, y) = p => y = x
    BY PlacesDiffer DEF p
<1>8. ASSUME NEW y \in S PROVE (p - 1 < Mini!Place(S, y) /\ Mini!Place(S, y) <= p) <=> y = x
    BY <1>1, <1>6, <1>7 DEF p
<1>9. Mini!Chunk(S, k, p) = {y \in S : p - 1 < Mini!Place(S, y) /\ Mini!Place(S, y) <= p}
    BY <1>5 DEF Mini!Chunk
<1>. QED
    BY <1>8, <1>9 DEF k, p

LEMMA LesserFact ==
    ASSUME NEW a \in Nat, NEW b \in Nat
    PROVE  Mini!Lesser(a, b) \in Nat /\ Mini!Lesser(a, b) <= b
BY DEF Mini!Lesser

\* What is being minimized is finite.
LEMMA CurrentFinite ==
    ASSUME Mini!MinimizeAssumption, NEW S \in SUBSET Fields
    PROVE  IsFiniteSet(S) /\ Cardinality(S) \in Nat /\ S \in SUBSET Nat
<1>1. IsFiniteSet(S)
    BY FS_Subset, OneCardinality DEF Mini!MinimizeAssumption
<1>. QED
    BY <1>1, FS_CardinalityType DEF Mini!MinimizeAssumption

LEMMA MiniInvInit == ASSUME Mini!MinimizeAssumption, Mini!Init PROVE MiniInv
<1>1. n \in Nat /\ n <= Cardinality(current)
    BY CurrentFinite, LesserFact, OneCardinality DEF Mini!Init
<1>. QED
    BY <1>1 DEF Mini!Init, MiniInv, Mini!TypeOK, Mini!KeptPasses, Mini!OneMinimal, Mini!Ends

LEMMA MiniInvStep ==
    ASSUME Mini!MinimizeAssumption, MiniInv, [Mini!Next]_miniVars PROVE MiniInv'
<1>. USE DEF MiniInv, Mini!TypeOK, Mini!KeptPasses, Mini!OneMinimal, Mini!Ends
<1>1. CASE Mini!Whole
    BY <1>1 DEF Mini!Whole, Mini!Passes, Mini!DoesNotPass
<1>2. CASE Mini!SkipWhole
    BY <1>2 DEF Mini!SkipWhole
<1>3. CASE Mini!Shrink
    <2>1. current' \in SUBSET Fields /\ current' \in passed' /\ passed' \in SUBSET SUBSET Fields
        BY <1>3 DEF Mini!Shrink, Mini!Candidate, Mini!Chunk, Mini!Passes
    <2>2. n - 1 \in Nat
        BY <1>3 DEF Mini!Shrink
    <2>3. Mini!Greater(2, n - 1) \in Nat
        BY <2>2 DEF Mini!Greater
    <2>4. n' = Mini!Lesser(Mini!Greater(2, n - 1), Cardinality(current'))
        BY <1>3, OneCardinality DEF Mini!Shrink, Mini!Split
    <2>5. n' \in Nat /\ n' <= Cardinality(current')
        BY <2>1, <2>3, <2>4, CurrentFinite, LesserFact
    <2>. QED
        BY <1>3, <2>1, <2>5 DEF Mini!Shrink, Mini!Passes
<1>4. CASE Mini!Keep
    <2>1. Mini!Candidate \in SUBSET Fields
        BY DEF Mini!Candidate, Mini!Chunk
    <2>2. failed' = failed \cup {Mini!Candidate}
        BY <1>4 DEF Mini!Keep, Mini!DoesNotPass
    <2>3. ASSUME stage = "complements"
          PROVE  Mini!Candidate = current \ Mini!Chunk(current, n, tried + 1)
        BY <2>3 DEF Mini!Candidate
    <2>. QED
        BY <1>4, <2>1, <2>2, <2>3 DEF Mini!Keep, Mini!DoesNotPass
<1>5. CASE Mini!Exhaust
    BY <1>5 DEF Mini!Exhaust, Mini!Returned
<1>6. CASE Mini!ToComplements
    BY <1>6 DEF Mini!ToComplements
<1>7. CASE Mini!NextRound
    <2>1. IsFiniteSet(current) /\ Cardinality(current) \in Nat /\ current \in SUBSET Nat
        BY CurrentFinite
    <2>2. CASE Mini!Finest
        <3>1. n = Cardinality(current)
            BY <2>1, <2>2, OneCardinality DEF Mini!Finest
        <3>2. ASSUME NEW x \in current PROVE current \ {x} \in failed
            <4>1. /\ Mini!Place(current, x) \in 1 .. n
                  /\ Mini!Chunk(current, n, Mini!Place(current, x)) = {x}
                BY <2>1, <3>1, PlacesDiffer, FinestChunks
            <4>2. \A i \in 1 .. n : current \ Mini!Chunk(current, n, i) \in failed
                BY <1>7 DEF Mini!NextRound
            <4>. QED
                BY <4>1, <4>2
        <3>. QED
            BY <1>7, <2>2, <3>2 DEF Mini!NextRound
    <2>3. CASE ~Mini!Finest
        <3>1. n' = Mini!Lesser(Cardinality(current), 2 * n)
            BY <1>7, <2>3, OneCardinality DEF Mini!NextRound, Mini!Finer
        <3>2. n' \in Nat /\ n' <= Cardinality(current)
            BY <2>1, <3>1 DEF Mini!Lesser
        <3>. QED
            BY <1>7, <2>3, <3>2 DEF Mini!NextRound
    <2>. QED
        BY <2>2, <2>3
<1>8. CASE UNCHANGED miniVars
    BY <1>8 DEF miniVars
<1>. QED
    BY <1>1, <1>2, <1>3, <1>4, <1>5, <1>6, <1>7, <1>8 DEF Mini!Next

LEMMA MiniInvAlways == PartsSpec => []MiniInv
<1>. USE InstancesAssumption DEF InstancesAssumption
<1>1. PartsInit => MiniInv
    BY MiniInvInit DEF PartsInit
<1>2. MiniInv /\ [PartsNext]_allVars => MiniInv'
    BY MiniInvStep, StepsOfParts
<1>. QED
    BY <1>1, <1>2, PTL DEF PartsSpec

\* A result that was not cut short is 1-minimal (discovery/minimize.py): the
\* last round had a chunk for each field, and no complement of one passed.
THEOREM ResultsOneMinimal == PartsSpec => []OneMinimal
<1>1. MiniInv => OneMinimal
    BY DEF MiniInv, OneMinimal
<1>. QED
    BY <1>1, MiniInvAlways, PTL

---------------------------------------------------------------------------
(* Home Depot's gateway hold *)

\* A hold that was not released ends holdLength after it started.
HoldShape ==
    /\ holdLength = 0 \/ holdLength >= RefusalHold
    /\ holdUntil = 0 \/ (holdUntil = holdStarted + holdLength /\ holdLength > 0)

\* Whatever is in flight was sent before the hold began or after it ended,
\* and not longer ago than its timeout.
SentBesideHold(r) ==
    read[r] = "sent" =>
        /\ sentAt[r] <= clock /\ clock <= sentAt[r] + ReadTimeout
        /\ sentAt[r] < holdStarted \/ holdUntil <= sentAt[r]

HoldInv == Hold!TypeOK /\ HoldShape /\ \A r \in Reads : SentBesideHold(r)

LEMMA HoldInvInit == ASSUME Hold!EdgeHoldAssumption, Hold!Init PROVE HoldInv
BY DEF Hold!EdgeHoldAssumption, Hold!Init, HoldInv, Hold!TypeOK, HoldShape, SentBesideHold

LEMMA HoldInvStep ==
    ASSUME Hold!EdgeHoldAssumption, HoldInv, [Hold!Next]_holdVars PROVE HoldInv'
<1>. USE DEF Hold!EdgeHoldAssumption, HoldInv, Hold!TypeOK, HoldShape, SentBesideHold,
             Hold!Step, Hold!Leave
<1>1. ASSUME NEW r \in Reads, Hold!Ask(r) PROVE HoldInv'
    BY <1>1 DEF Hold!Ask
<1>2. ASSUME NEW r \in Reads, Hold!Send(r) PROVE HoldInv'
    BY <1>2 DEF Hold!Send
<1>3. ASSUME NEW r \in Reads, Hold!Answered(r) PROVE HoldInv'
    BY <1>3 DEF Hold!Answered, Hold!Release
<1>4. ASSUME NEW r \in Reads, Hold!Refused(r) PROVE HoldInv'
    <2>1. CASE clock < holdUntil
        BY <1>4, <2>1 DEF Hold!Refused, Hold!Hold
    <2>2. CASE ~(clock < holdUntil)
        <3>1. holdLength' \in Nat /\ holdLength' >= RefusalHold
            BY <1>4, <2>2 DEF Hold!Refused, Hold!Hold, Hold!Least
        <3>2. /\ holdUntil' = clock + holdLength' /\ holdStarted' = clock /\ clock' = clock
              /\ read' = [read EXCEPT ![r] = "idle"] /\ sentAt' = [sentAt EXCEPT ![r] = 0]
            BY <1>4, <2>2 DEF Hold!Refused, Hold!Hold
        <3>3. \A q \in Reads : read[q] = "sent" => sentAt[q] < clock
            BY <1>4 DEF Hold!Refused
        <3>. QED
            BY <3>1, <3>2, <3>3
    <2>. QED
        BY <2>1, <2>2
<1>5. ASSUME NEW r \in Reads, Hold!Lost(r) PROVE HoldInv'
    BY <1>5 DEF Hold!Lost
<1>6. CASE Hold!Tick
    BY <1>6 DEF Hold!Tick
<1>7. CASE UNCHANGED holdVars
    BY <1>7 DEF holdVars
<1>. QED
    BY <1>1, <1>2, <1>3, <1>4, <1>5, <1>6, <1>7 DEF Hold!Next

LEMMA HoldInvAlways == PartsSpec => []HoldInv
<1>. USE InstancesAssumption DEF InstancesAssumption
<1>1. PartsInit => HoldInv
    BY HoldInvInit DEF PartsInit
<1>2. HoldInv /\ [PartsNext]_allVars => HoldInv'
    BY HoldInvStep, StepsOfParts
<1>. QED
    BY <1>1, <1>2, PTL DEF PartsSpec

\* While a hold is on, what is in flight was sent before it began.
LEMMA SentBeforeHold ==
    ASSUME Hold!EdgeHoldAssumption, HoldInv,
           NEW r \in Reads, read[r] = "sent", clock < holdUntil
    PROVE  sentAt[r] < holdStarted
BY DEF Hold!EdgeHoldAssumption, HoldInv, Hold!TypeOK, SentBesideHold

\* After the hold is over, what is in flight was sent after it was over: the
\* rest has timed out.
LEMMA SentAfterHold ==
    ASSUME Hold!EdgeHoldAssumption, HoldInv,
           NEW r \in Reads, read[r] = "sent", holdUntil <= clock
    PROVE  holdUntil <= sentAt[r]
<1>. SUFFICES ASSUME sentAt[r] < holdStarted, holdUntil # 0 PROVE FALSE
    BY DEF HoldInv, Hold!TypeOK, SentBesideHold
<1>1. holdUntil = holdStarted + holdLength /\ holdLength >= RefusalHold
    BY DEF HoldInv, HoldShape, Hold!TypeOK
<1>. QED
    BY <1>1 DEF Hold!EdgeHoldAssumption, HoldInv, Hold!TypeOK, SentBesideHold

LEMMA HoldStands ==
    ASSUME Hold!EdgeHoldAssumption, HoldInv, Hold!Next, clock < holdUntil
    PROVE  holdUntil' = holdUntil
<1>1. ASSUME NEW r \in Reads, Hold!Answered(r) PROVE holdUntil' = holdUntil
    BY <1>1, SentBeforeHold DEF Hold!Answered, Hold!Release
<1>. QED
    BY <1>1 DEF Hold!Next, Hold!Ask, Hold!Send, Hold!Refused, Hold!Hold, Hold!Lost, Hold!Tick

LEMMA ProbeDoubles ==
    ASSUME Hold!EdgeHoldAssumption, HoldInv, Hold!Next, holdLength > 0, holdLength' > holdLength
    PROVE  \E r \in Reads : read[r] = "sent" /\ sentAt[r] >= holdUntil
<1>1. ASSUME NEW r \in Reads, Hold!Refused(r)
      PROVE  read[r] = "sent" /\ sentAt[r] >= holdUntil
    <2>1. read[r] = "sent" /\ holdUntil <= clock
        BY <1>1 DEF Hold!Refused, Hold!Hold, HoldInv, Hold!TypeOK
    <2>. QED
        BY <2>1, SentAfterHold DEF HoldInv, Hold!TypeOK
<1>2. ASSUME NEW r \in Reads, Hold!Answered(r) PROVE FALSE
    BY <1>2 DEF Hold!Answered, Hold!Release, HoldInv, Hold!TypeOK
<1>. QED
    BY <1>1, <1>2 DEF Hold!Next, Hold!Ask, Hold!Send, Hold!Lost, Hold!Tick, HoldInv, Hold!TypeOK

\* A hold runs its course: no late answer lifts or shortens it (com.py:126);
\* and it is doubled by a probe alone (com.py:110).
THEOREM HoldsRunTheirCourse == PartsSpec => HoldRunsItsCourse
<1>. USE InstancesAssumption DEF InstancesAssumption
<1>1. HoldInv /\ [PartsNext]_allVars => [clock < holdUntil => holdUntil' = holdUntil]_(Hold!vars)
    BY HoldStands, StepsOfParts DEF holdVars, Hold!vars
<1>2. HoldInv /\ [PartsNext]_allVars =>
          [holdLength > 0 /\ holdLength' > holdLength =>
               \E r \in Reads : read[r] = "sent" /\ sentAt[r] >= holdUntil]_(Hold!vars)
    BY ProbeDoubles, StepsOfParts DEF holdVars, Hold!vars
<1>. QED
    BY <1>1, <1>2, HoldInvAlways, PTL
    DEF PartsSpec, HoldRunsItsCourse, Hold!HoldRunsItsCourse, Hold!DoubledByProbe

---------------------------------------------------------------------------
(* DuckDuckGo's pages *)

\* Pages 1 to k were walked, each by the form of the one before it, and maybe
\* the last one has a form too.
WalkedTo(st, k) ==
    /\ st \in [urls : [1 .. k -> SUBSET Urls], forms : SUBSET (2 .. k + 1)]
    /\ 2 .. k \subseteq st.forms
WellKept(st) == st = Ddg!Unknown \/ \E k \in 1 .. MaxPage : WalkedTo(st, k)

DdgTypes ==
    /\ lock \in Readers \cup {NoReader}
    /\ at \in [Readers -> {"idle", "first", "lock", "refirst", "walk", "want"}]
    /\ want \in [Readers -> 1 .. MaxPage]
    /\ given \in [Readers -> SUBSET Urls]
    /\ reading \in [Readers -> 0 .. MaxPage]
DdgFlags ==
    /\ shown \in BOOLEAN /\ asked \in [Readers -> BOOLEAN] /\ twice = FALSE

\* What a walker under the lock knows of the state in its hands; once that is
\* no longer the live one, the walker rests on nothing that is remembered.
Walker(r) ==
    /\ lock = r <=> at[r] \in {"refirst", "walk", "want"}
    /\ at[r] \in {"idle", "first"} => want[r] = 1
    /\ at[r] \in {"lock", "refirst", "walk", "want"} => want[r] >= 2
    /\ at[r] = "walk" => Ddg!Last(hand) + 1 \in hand.forms /\ want[r] \notin hand.forms
    /\ at[r] = "want" => want[r] \in hand.forms
    /\ at[r] \in {"walk", "want"} /\ ~shown => reading[r] = 0

\* What a reader was given is in the pages that are remembered.
Remembered(r) ==
    reading[r] > 0 =>
        /\ reading[r] \in DOMAIN pages.urls
        /\ \A u \in given[r] : \E k \in 1 .. reading[r] : u \in pages.urls[k]

DdgInv ==
    /\ WellKept(pages) /\ WellKept(hand)
    /\ DdgTypes /\ DdgFlags
    /\ shown => hand = pages
    /\ \A r \in Readers : Walker(r) /\ Remembered(r)

LEMMA LastWalked ==
    ASSUME NEW k \in Nat, NEW st, WalkedTo(st, k)
    PROVE  Ddg!Last(st) = k
<1>1. Cardinality(1 .. k) = k
    BY FS_Interval
<1>2. DOMAIN st.urls = 1 .. k
    BY DEF WalkedTo
<1>. QED
    BY <1>1, <1>2, OneCardinality DEF Ddg!Last

\* A page is remembered first of all, after the last one, or again.
LEMMA FreshKept ==
    ASSUME Ddg!DdgAssumption, NEW us \in SUBSET Urls, NEW more \in BOOLEAN
    PROVE  /\ WalkedTo(Ddg!Fresh(us, more), 1)
           /\ Ddg!Fresh(us, more).urls[1] = us
<1>1. DOMAIN << >> = {}
    OBVIOUS
<1>2. DOMAIN Ddg!Unknown.urls \cup {1} = 1 .. 1 /\ Ddg!Unknown.forms = {}
    BY <1>1 DEF Ddg!Unknown
<1>3. /\ Ddg!Fresh(us, more).urls = [k \in 1 .. 1 |-> us]
      /\ Ddg!Fresh(us, more) \in [urls : [1 .. 1 -> SUBSET Urls], forms : SUBSET (2 .. 2)]
    BY <1>2 DEF Ddg!Fresh, Ddg!Remembering
<1>. QED
    BY <1>3 DEF WalkedTo

LEMMA PageKept ==
    ASSUME NEW k \in Nat \ {0}, NEW st, WalkedTo(st, k), NEW i \in st.forms,
           NEW us \in SUBSET Urls, NEW more \in BOOLEAN,
           NEW new, new = Ddg!Remembering(st, i, us, more)
    PROVE  /\ WalkedTo(new, IF i = k + 1 THEN k + 1 ELSE k)
           /\ new.urls[i] = us
           /\ \A j \in 1 .. k : j # i => new.urls[j] = st.urls[j]
<1> DEFINE m == IF i = k + 1 THEN k + 1 ELSE k
<1>1. DOMAIN st.urls = 1 .. k /\ i \in 2 .. k + 1 /\ m \in Nat
    BY DEF WalkedTo
<1>2. DOMAIN st.urls \cup {i} = 1 .. m
    BY <1>1
<1>3. new.urls = [j \in 1 .. m |-> IF j = i THEN us ELSE st.urls[j]]
    BY <1>2 DEF Ddg!Remembering
<1>4. new.urls \in [1 .. m -> SUBSET Urls]
    BY <1>1, <1>3 DEF WalkedTo
<1>5. new.forms \in SUBSET (2 .. m + 1) /\ 2 .. m \subseteq new.forms
    BY <1>1 DEF WalkedTo, Ddg!Remembering
<1>6. new = [urls |-> new.urls, forms |-> new.forms]
    BY DEF Ddg!Remembering
<1>7. WalkedTo(new, m)
    BY <1>4, <1>5, <1>6 DEF WalkedTo
<1>8. i \in 1 .. m /\ \A j \in 1 .. k : j \in 1 .. m
    BY <1>1
<1>. QED
    BY <1>3, <1>7, <1>8

\* The forms of a state lead on from its pages.
LEMMA FormsLead ==
    ASSUME Ddg!DdgAssumption, NEW st, WellKept(st), NEW i \in st.forms
    PROVE  1 .. i - 1 \subseteq DOMAIN st.urls
<1>1. st # Ddg!Unknown
    BY DEF Ddg!Unknown
<1>2. PICK k \in 1 .. MaxPage : WalkedTo(st, k)
    BY <1>1 DEF WellKept
<1>3. DOMAIN st.urls = 1 .. k /\ i \in 2 .. k + 1
    BY <1>2 DEF WalkedTo
<1>. QED
    BY <1>3 DEF Ddg!DdgAssumption

LEMMA DdgTyped == ASSUME Ddg!DdgAssumption, DdgInv PROVE Ddg!TypeOK
<1>1. ASSUME NEW st, WellKept(st) PROVE st \in Ddg!State \cup {Ddg!Unknown}
    <2>1. ASSUME NEW k \in 1 .. MaxPage, WalkedTo(st, k) PROVE st \in Ddg!State
        <3>1. st.urls \in UNION {[1 .. j -> SUBSET Urls] : j \in 1 .. MaxPage}
            BY <2>1 DEF WalkedTo
        <3>2. 2 .. k + 1 \subseteq 2 .. MaxPage + 1
            BY <2>1 DEF Ddg!DdgAssumption
        <3>3. st = [urls |-> st.urls, forms |-> st.forms] /\ st.forms \in SUBSET (2 .. MaxPage + 1)
            BY <2>1, <3>2 DEF WalkedTo
        <3>. QED
            BY <3>1, <3>3 DEF Ddg!State
    <2>. QED
        BY <1>1, <2>1 DEF WellKept
<1>2. {pages, hand} \subseteq Ddg!State \cup {Ddg!Unknown}
    BY <1>1 DEF DdgInv
<1>3. shown \in BOOLEAN /\ asked \in [Readers -> BOOLEAN] /\ twice \in BOOLEAN
    BY DEF DdgInv, DdgFlags
<1>4. \A r \in Readers : lock = r <=> at[r] \in {"refirst", "walk", "want"}
    BY DEF DdgInv, Walker
<1>. QED
    BY <1>2, <1>3, <1>4 DEF DdgInv, DdgTypes, Ddg!TypeOK

LEMMA DdgInvInit == ASSUME Ddg!DdgAssumption, Ddg!Init PROVE DdgInv
<1>1. DdgTypes
    BY DEF Ddg!Init, Ddg!DdgAssumption, DdgTypes
<1>2. ASSUME NEW r \in Readers PROVE Walker(r) /\ Remembered(r)
    BY <1>2 DEF Ddg!Init, Ddg!DdgAssumption, Walker, Remembered
<1>3. DdgFlags
    BY DEF Ddg!Init, DdgFlags
<1>. QED
    BY <1>1, <1>2, <1>3 DEF Ddg!Init, DdgInv, WellKept

---------------------------------------------------------------------------
(* Steps of DuckDuckGo's readers *)

\* What a step of r does to the walkers, apart from what is remembered.
LEMMA Returns ==
    ASSUME Ddg!DdgAssumption, DdgInv, NEW r \in Readers, Ddg!Return(r),
           \/ Ddg!Unlock /\ lock \in {r, NoReader}
           \/ lock # r /\ UNCHANGED <<lock, hand>> /\ shown' \in {FALSE, shown}
              /\ (shown' => pages' = pages)
              /\ \A q \in Readers : lock = q =>
                     reading'[q] = 0 \/ (shown' = shown /\ reading'[q] = reading[q])
    PROVE  /\ lock' \in Readers \cup {NoReader}
           /\ at' \in [Readers -> {"idle", "first", "lock", "refirst", "walk", "want"}]
           /\ want' \in [Readers -> 1 .. MaxPage]
           /\ shown' => hand' = pages'
           /\ WellKept(hand)' /\ \A q \in Readers : Walker(q)'
<1>1. /\ at' = [at EXCEPT ![r] = "idle"] /\ want' = [want EXCEPT ![r] = 1]
    BY DEF Ddg!Return, Ddg!Step
<1>2. CASE Ddg!Unlock /\ lock \in {r, NoReader}
    <2>1. lock' = NoReader /\ hand' = Ddg!Unknown /\ shown' = FALSE
        BY <1>2 DEF Ddg!Unlock
    <2>2. ASSUME NEW q \in Readers PROVE Walker(q)'
        BY <1>1, <1>2, <2>1, <2>2 DEF DdgInv, DdgTypes, Walker, Ddg!DdgAssumption
    <2>3. WellKept(hand)'
        BY <2>1 DEF WellKept, Ddg!Unknown
    <2>. QED
        BY <1>1, <2>1, <2>2, <2>3 DEF DdgInv, DdgTypes, Ddg!DdgAssumption
<1>3. CASE ~(Ddg!Unlock /\ lock \in {r, NoReader})
    <2>1. lock' = lock /\ hand' = hand /\ lock # r
        BY <1>3
    <2>2. Walker(r)'
        BY <1>1, <2>1 DEF DdgInv, DdgTypes, Walker
    <2>3. ASSUME NEW q \in Readers, q # r PROVE Walker(q)'
        <3>1. Walker(q) /\ at'[q] = at[q] /\ want'[q] = want[q]
            BY <1>1, <2>3 DEF DdgInv, DdgTypes
        <3>2. lock = q => reading'[q] = 0 \/ (shown' = shown /\ reading'[q] = reading[q])
            BY <1>3
        <3>. QED
            BY <2>1, <3>1, <3>2 DEF Walker, Ddg!Last
    <2>4. WellKept(hand)'
        BY <2>1 DEF DdgInv, WellKept, WalkedTo, Ddg!Unknown
    <2>5. ASSUME shown' PROVE hand' = pages'
        BY <1>3, <2>5 DEF DdgInv
    <2>6. lock' \in Readers \cup {NoReader} /\ want' \in [Readers -> 1 .. MaxPage]
        BY <1>1, <2>1 DEF DdgInv, DdgTypes, Ddg!DdgAssumption
    <2>7. at' \in [Readers -> {"idle", "first", "lock", "refirst", "walk", "want"}]
        BY <1>1 DEF DdgInv, DdgTypes
    <2>. QED
        BY <2>2, <2>3, <2>4, <2>5, <2>6, <2>7
<1>. QED
    BY <1>2, <1>3

LEMMA Walks ==
    ASSUME Ddg!DdgAssumption, DdgInv, NEW r \in Readers, NEW st, NEW live \in BOOLEAN,
           Ddg!Walking(r, st, live), WellKept(st), live => st = pages',
           at[r] \in {"lock", "refirst", "walk"}, lock \in {r, NoReader},
           ~live => reading'[r] = 0
    PROVE  /\ lock' \in Readers \cup {NoReader}
           /\ at' \in [Readers -> {"idle", "first", "lock", "refirst", "walk", "want"}]
           /\ want' \in [Readers -> 1 .. MaxPage]
           /\ shown' \in BOOLEAN /\ asked' \in [Readers -> BOOLEAN]
           /\ shown' => hand' = pages'
           /\ WellKept(hand)' /\ \A q \in Readers : Walker(q)'
<1>1. CASE Ddg!Last(st) + 1 \in st.forms \/ want[r] \in st.forms
    <2>1. /\ at' = [at EXCEPT ![r] = IF want[r] \in st.forms THEN "want" ELSE "walk"]
          /\ lock' = r /\ hand' = st /\ shown' = live /\ want' = want /\ asked' = asked
        BY <1>1 DEF Ddg!Walking, Ddg!Step
    <2>2. ASSUME NEW q \in Readers PROVE Walker(q)'
        BY <1>1, <2>1, <2>2 DEF DdgInv, DdgTypes, Walker, Ddg!DdgAssumption, Ddg!Last
    <2>3. WellKept(hand)'
        BY <2>1 DEF WellKept, WalkedTo, Ddg!Unknown
    <2>4. shown' \in BOOLEAN /\ asked' \in [Readers -> BOOLEAN] /\ (shown' => hand' = pages')
        BY <2>1 DEF DdgInv, DdgFlags
    <2>. QED
        BY <2>1, <2>2, <2>3, <2>4 DEF DdgInv, DdgTypes
<1>2. CASE ~(Ddg!Last(st) + 1 \in st.forms \/ want[r] \in st.forms)
    <2>1. Ddg!Return(r) /\ Ddg!Unlock
        BY <1>2 DEF Ddg!Walking
    <2>2. shown' \in BOOLEAN /\ asked' \in [Readers -> BOOLEAN]
        BY <2>1 DEF Ddg!Return, Ddg!Unlock, DdgInv, DdgFlags
    <2>. QED
        BY <2>1, <2>2, Returns
<1>. QED
    BY <1>1, <1>2

\* Whoever rests on pages that stay is not disturbed.
LEMMA RemembranceKept ==
    ASSUME DdgInv, NEW q \in Readers,
           \/ reading'[q] = 0
           \/ /\ reading'[q] = reading[q] /\ given'[q] \subseteq given[q]
              /\ reading[q] \in DOMAIN pages.urls => reading[q] \in DOMAIN pages'.urls
              /\ \A k \in 1 .. reading[q] :
                     k \in DOMAIN pages.urls => pages'.urls[k] = pages.urls[k]
    PROVE  Remembered(q)'
<1>1. CASE reading'[q] = 0
    BY <1>1 DEF Remembered
<1>2. CASE reading'[q] # 0
    <2>1. reading[q] > 0 /\ reading[q] \in DOMAIN pages.urls
        BY <1>2 DEF DdgInv, DdgTypes, Remembered
    <2>2. pages # Ddg!Unknown
        BY <2>1 DEF Ddg!Unknown, DdgInv, DdgTypes
    <2>3. PICK k \in 1 .. MaxPage : WalkedTo(pages, k)
        BY <2>2 DEF DdgInv, WellKept
    <2>4. 1 .. reading[q] \subseteq DOMAIN pages.urls
        BY <2>1, <2>3 DEF WalkedTo
    <2>. QED
        BY <1>2, <2>1, <2>4 DEF DdgInv, Remembered
<1>. QED
    BY <1>1, <1>2

LEMMA ReplacedFact ==
    ASSUME Ddg!DdgAssumption, DdgInv, NEW k \in Nat
    PROVE  /\ Ddg!Replaced(k) \in [Readers -> 0 .. MaxPage]
           /\ \A q \in Readers :
                  \/ Ddg!Replaced(k)[q] = 0
                  \/ Ddg!Replaced(k)[q] = reading[q] /\ reading[q] < k
BY DEF Ddg!Replaced, Ddg!DdgAssumption, DdgInv, DdgTypes

LEMMA NothingRead ==
    ASSUME Ddg!DdgAssumption, DdgInv
    PROVE  /\ Ddg!Replaced(0) \in [Readers -> 0 .. MaxPage]
           /\ \A q \in Readers : Ddg!Replaced(0)[q] = 0
<1>1. ASSUME NEW q \in Readers PROVE Ddg!Replaced(0)[q] = 0
    <2>1. reading[q] \in Nat
        BY DEF DdgInv, DdgTypes, Ddg!DdgAssumption
    <2>. QED
        BY <2>1 DEF Ddg!Replaced
<1>. QED
    BY <1>1, ReplacedFact

LEMMA UnreadFact ==
    ASSUME DdgInv, reading' \in [Readers -> 0 .. MaxPage], Ddg!Unread
    PROVE  /\ given' \in [Readers -> SUBSET Urls]
           /\ \A q \in Readers : given'[q] \subseteq given[q]
           /\ twice' = FALSE
BY DEF Ddg!Unread, DdgInv, DdgTypes, DdgFlags

\* r reads on with the page it wanted.
ReadsOn(r) == want[r] = 1 \/ reading[r] = want[r] - 1

LEMMA GivingFact ==
    ASSUME Ddg!DdgAssumption, DdgInv, NEW r \in Readers, NEW us \in SUBSET Urls,
           NEW seen \in [Readers -> 0 .. MaxPage], Ddg!Giving(r, us, seen)
    PROVE  /\ reading' \in [Readers -> 0 .. MaxPage] /\ given' \in [Readers -> SUBSET Urls]
           /\ \A q \in Readers : q # r => reading'[q] = seen[q] /\ given'[q] \subseteq given[q]
           /\ reading'[r] = IF ReadsOn(r) THEN want[r] ELSE 0
           /\ given'[r] \subseteq (IF want[r] = 1 THEN us ELSE given[r] \cup us)
           /\ ~(ReadsOn(r) /\ want[r] > 1 /\ us \cap given[r] # {}) => twice' = FALSE
<1>1. reading' = [seen EXCEPT ![r] = IF ReadsOn(r) THEN want[r] ELSE 0]
    BY DEF Ddg!Giving, ReadsOn
<1>2. given' = [q \in Readers |->
                   IF reading'[q] = 0 THEN {}
                   ELSE IF q = r THEN IF want[r] = 1 THEN us ELSE given[r] \cup us ELSE given[q]]
    BY DEF Ddg!Giving
<1>3. ~(ReadsOn(r) /\ want[r] > 1 /\ us \cap given[r] # {}) => twice' = FALSE
    BY DEF Ddg!Giving, ReadsOn, DdgInv, DdgFlags
<1>4. reading' \in [Readers -> 0 .. MaxPage]
    BY <1>1 DEF DdgInv, DdgTypes, Ddg!DdgAssumption
<1>5. given' \in [Readers -> SUBSET Urls]
    BY <1>2 DEF DdgInv, DdgTypes
<1>. QED
    BY <1>1, <1>2, <1>3, <1>4, <1>5

LEMMA AskStep ==
    ASSUME Ddg!DdgAssumption, DdgInv, NEW r \in Readers, NEW k \in 1 .. MaxPage, Ddg!Ask(r, k)
    PROVE  DdgInv'
<1>1. /\ at[r] = "idle" /\ want' = [want EXCEPT ![r] = k]
      /\ at' = [at EXCEPT ![r] = IF k = 1 THEN "first" ELSE "lock"]
      /\ UNCHANGED <<pages, lock, hand, shown, asked, given, reading, twice>>
    BY DEF Ddg!Ask, Ddg!Step
<1>2. ASSUME NEW q \in Readers PROVE Walker(q)' /\ Remembered(q)'
    <2>1. Walker(q) /\ Remembered(q) /\ Walker(r)
        BY DEF DdgInv
    <2>2. Remembered(q)'
        BY <1>1, <2>1 DEF Remembered
    <2>. QED
        BY <1>1, <2>1, <2>2 DEF Walker, Ddg!Last, DdgInv, DdgTypes
<1>3. DdgTypes'
    BY <1>1 DEF DdgInv, DdgTypes
<1>4. (WellKept(pages) /\ WellKept(hand) /\ DdgFlags)' /\ (shown' => hand' = pages')
    BY <1>1 DEF DdgInv, DdgFlags, WellKept, WalkedTo, Ddg!Unknown
<1>. QED
    BY <1>2, <1>3, <1>4 DEF DdgInv

LEMMA EmptyFirstStep ==
    ASSUME Ddg!DdgAssumption, DdgInv, NEW r \in Readers, Ddg!EmptyFirst(r)
    PROVE  DdgInv'
<1>1. /\ asked' = [asked EXCEPT ![r] = TRUE]
      /\ UNCHANGED <<pages, lock, hand, shown, at, want, given, reading, twice>>
    BY DEF Ddg!EmptyFirst
<1>2. ASSUME NEW q \in Readers PROVE Walker(q)' /\ Remembered(q)'
    BY <1>1 DEF DdgInv, Walker, Remembered, Ddg!Last
<1>3. DdgFlags'
    BY <1>1 DEF DdgFlags, DdgInv
<1>4. DdgTypes'
    BY <1>1 DEF DdgTypes, DdgInv
<1>5. (WellKept(pages) /\ WellKept(hand))' /\ (shown' => hand' = pages')
    BY <1>1 DEF DdgInv, WellKept, WalkedTo, Ddg!Unknown
<1>. QED
    BY <1>2, <1>3, <1>4, <1>5 DEF DdgInv

LEMMA FirstStep ==
    ASSUME Ddg!DdgAssumption, DdgInv, NEW r \in Readers,
           NEW us \in SUBSET Urls, NEW more \in BOOLEAN, Ddg!First(r, us, more)
    PROVE  DdgInv'
<1>1. /\ at[r] = "first" /\ pages' = Ddg!Fresh(us, more) /\ shown' = FALSE
      /\ Ddg!Return(r) /\ Ddg!Giving(r, us, Ddg!Replaced(0)) /\ UNCHANGED <<lock, hand>>
    BY DEF Ddg!First
<1>2. want[r] = 1 /\ lock # r
    BY <1>1 DEF DdgInv, Walker
<1>. DEFINE seen == Ddg!Replaced(0)
<1>3. seen \in [Readers -> 0 .. MaxPage] /\ \A q \in Readers : seen[q] = 0
    BY NothingRead
<1>. HIDE DEF seen
<1>4. /\ reading' \in [Readers -> 0 .. MaxPage] /\ given' \in [Readers -> SUBSET Urls]
      /\ \A q \in Readers : q # r => reading'[q] = 0
      /\ reading'[r] = 1 /\ given'[r] \subseteq us /\ twice' = FALSE
    <2>1. Ddg!Giving(r, us, seen) /\ ReadsOn(r)
        BY <1>1, <1>2 DEF seen, ReadsOn
    <2>2. /\ reading' \in [Readers -> 0 .. MaxPage] /\ given' \in [Readers -> SUBSET Urls]
          /\ \A q \in Readers : q # r => reading'[q] = seen[q]
          /\ reading'[r] = IF ReadsOn(r) THEN want[r] ELSE 0
          /\ given'[r] \subseteq (IF want[r] = 1 THEN us ELSE given[r] \cup us)
          /\ ~(ReadsOn(r) /\ want[r] > 1 /\ us \cap given[r] # {}) => twice' = FALSE
        BY <1>3, <2>1, GivingFact
    <2>. QED
        BY <1>2, <1>3, <2>1, <2>2
<1>5. WalkedTo(pages', 1) /\ pages'.urls[1] = us
    BY <1>1, FreshKept
<1>6. ASSUME NEW q \in Readers PROVE Remembered(q)'
    <2>1. CASE q = r
        BY <1>4, <1>5, <2>1 DEF Remembered, WalkedTo
    <2>2. CASE q # r
        BY <1>4, <2>2 DEF Remembered
    <2>. QED
        BY <2>1, <2>2
<1>7. /\ lock' \in Readers \cup {NoReader}
      /\ at' \in [Readers -> {"idle", "first", "lock", "refirst", "walk", "want"}]
      /\ want' \in [Readers -> 1 .. MaxPage]
      /\ WellKept(hand)' /\ \A q \in Readers : Walker(q)'
    BY <1>1, <1>2, <1>4, Returns
<1>8. DdgFlags'
    BY <1>1, <1>4 DEF Ddg!Return, DdgFlags, DdgInv
<1>9. WellKept(pages)'
    <2>1. 1 \in 1 .. MaxPage
        BY DEF Ddg!DdgAssumption
    <2>. QED
        BY <1>5, <2>1 DEF WellKept, WalkedTo
<1>. QED
    BY <1>1, <1>4, <1>6, <1>7, <1>8, <1>9 DEF DdgInv, DdgTypes

LEMMA EnterStep ==
    ASSUME Ddg!DdgAssumption, DdgInv, NEW r \in Readers, Ddg!Enter(r)
    PROVE  DdgInv'
<1>1. at[r] = "lock" /\ lock = NoReader /\ UNCHANGED <<pages, given, reading, twice>>
    BY DEF Ddg!Enter
<1>2. /\ WellKept(pages)' /\ given' \in [Readers -> SUBSET Urls]
      /\ reading' \in [Readers -> 0 .. MaxPage]
    BY <1>1 DEF DdgInv, WellKept, WalkedTo, Ddg!Unknown, DdgTypes
<1>3. ASSUME NEW q \in Readers PROVE Remembered(q)'
    BY <1>1 DEF DdgInv, Remembered
<1>4. CASE pages = Ddg!Unknown
    <2>1. /\ at' = [at EXCEPT ![r] = "refirst"] /\ lock' = r
          /\ UNCHANGED <<hand, shown, want, asked>>
        BY <1>4 DEF Ddg!Enter, Ddg!Step
    <2>2. ASSUME NEW q \in Readers PROVE Walker(q)'
        BY <1>1, <2>1 DEF DdgInv, DdgTypes, Walker, Ddg!DdgAssumption, Ddg!Last
    <2>3. WellKept(hand)' /\ (shown' => hand' = pages')
        BY <1>1, <2>1 DEF DdgInv, WellKept, WalkedTo, Ddg!Unknown
    <2>4. DdgTypes' /\ DdgFlags'
        BY <1>1, <2>1 DEF DdgInv, DdgTypes, DdgFlags
    <2>. QED
        BY <1>2, <1>3, <2>2, <2>3, <2>4 DEF DdgInv
<1>5. CASE pages # Ddg!Unknown
    <2>1. Ddg!Walking(r, pages, TRUE) /\ pages' = pages /\ WellKept(pages)
        BY <1>1, <1>5 DEF Ddg!Enter, DdgInv
    <2>2. /\ lock' \in Readers \cup {NoReader}
          /\ at' \in [Readers -> {"idle", "first", "lock", "refirst", "walk", "want"}]
          /\ want' \in [Readers -> 1 .. MaxPage]
          /\ shown' \in BOOLEAN /\ asked' \in [Readers -> BOOLEAN]
          /\ shown' => hand' = pages'
          /\ WellKept(hand)' /\ \A q \in Readers : Walker(q)'
        BY <1>1, <2>1, Walks
    <2>. QED
        BY <1>1, <1>2, <1>3, <2>2 DEF DdgInv, DdgTypes, DdgFlags
<1>. QED
    BY <1>4, <1>5

LEMMA ReFirstStep ==
    ASSUME Ddg!DdgAssumption, DdgInv, NEW r \in Readers,
           NEW us \in SUBSET Urls, NEW more \in BOOLEAN, Ddg!ReFirst(r, us, more)
    PROVE  DdgInv'
<1>1. /\ at[r] = "refirst" /\ pages' = Ddg!Fresh(us, more)
      /\ Ddg!Walking(r, pages', TRUE) /\ reading' = Ddg!Replaced(0) /\ Ddg!Unread
    BY DEF Ddg!ReFirst
<1>2. lock = r
    BY <1>1 DEF DdgInv, Walker
<1>3. WellKept(pages)' /\ WellKept(pages')
    <2>1. WalkedTo(pages', 1) /\ 1 \in 1 .. MaxPage
        BY <1>1, FreshKept DEF Ddg!DdgAssumption
    <2>. QED
        BY <2>1 DEF WellKept, WalkedTo
<1>4. reading' \in [Readers -> 0 .. MaxPage] /\ \A q \in Readers : reading'[q] = 0
    BY <1>1, NothingRead
<1>5. given' \in [Readers -> SUBSET Urls] /\ twice' = FALSE
    BY <1>1, <1>4, UnreadFact
<1>6. /\ lock' \in Readers \cup {NoReader}
      /\ at' \in [Readers -> {"idle", "first", "lock", "refirst", "walk", "want"}]
      /\ want' \in [Readers -> 1 .. MaxPage]
      /\ shown' \in BOOLEAN /\ asked' \in [Readers -> BOOLEAN]
      /\ shown' => hand' = pages'
      /\ WellKept(hand)' /\ \A q \in Readers : Walker(q)'
    BY <1>1, <1>2, <1>3, Walks
<1>7. ASSUME NEW q \in Readers PROVE Remembered(q)'
    BY <1>4 DEF Remembered
<1>. QED
    BY <1>3, <1>4, <1>5, <1>6, <1>7 DEF DdgInv, DdgTypes, DdgFlags

LEMMA FailStep ==
    ASSUME Ddg!DdgAssumption, DdgInv, NEW r \in Readers, Ddg!Fail(r)
    PROVE  DdgInv'
<1>1. Ddg!Return(r) /\ UNCHANGED <<pages, given, reading, twice>>
    BY DEF Ddg!Fail
<1>2. \/ lock = r /\ Ddg!Unlock
      \/ lock # r /\ UNCHANGED <<lock, hand, shown>>
    BY DEF Ddg!Fail
<1>3. /\ WellKept(pages)' /\ given' \in [Readers -> SUBSET Urls]
      /\ reading' \in [Readers -> 0 .. MaxPage]
    BY <1>1 DEF DdgInv, WellKept, WalkedTo, Ddg!Unknown, DdgTypes
<1>4. ASSUME NEW q \in Readers PROVE Remembered(q)'
    BY <1>1 DEF DdgInv, Remembered
<1>5. /\ lock' \in Readers \cup {NoReader}
      /\ at' \in [Readers -> {"idle", "first", "lock", "refirst", "walk", "want"}]
      /\ want' \in [Readers -> 1 .. MaxPage]
      /\ shown' => hand' = pages'
      /\ WellKept(hand)' /\ \A q \in Readers : Walker(q)'
    BY <1>1, <1>2, Returns
<1>6. DdgFlags'
    BY <1>1, <1>2 DEF Ddg!Return, Ddg!Unlock, DdgFlags, DdgInv
<1>. QED
    BY <1>3, <1>4, <1>5, <1>6 DEF DdgInv, DdgTypes

LEMMA ForgetStep ==
    ASSUME Ddg!DdgAssumption, DdgInv, Ddg!Forget
    PROVE  DdgInv'
<1>1. /\ pages' = Ddg!Unknown /\ shown' = FALSE
      /\ reading' = Ddg!Replaced(0) /\ Ddg!Unread /\ UNCHANGED <<lock, hand, at, want, asked>>
    BY DEF Ddg!Forget
<1>2. reading' \in [Readers -> 0 .. MaxPage] /\ \A q \in Readers : reading'[q] = 0
    BY <1>1, NothingRead
<1>3. given' \in [Readers -> SUBSET Urls] /\ twice' = FALSE
    BY <1>1, <1>2, UnreadFact
<1>4. ASSUME NEW q \in Readers PROVE Walker(q)' /\ Remembered(q)'
    BY <1>1, <1>2 DEF DdgInv, Walker, Remembered, Ddg!Last
<1>5. WellKept(hand)' /\ WellKept(pages)'
    BY <1>1 DEF DdgInv, WellKept, WalkedTo, Ddg!Unknown
<1>6. DdgFlags' /\ DdgTypes'
    BY <1>1, <1>2, <1>3 DEF DdgInv, DdgFlags, DdgTypes
<1>. QED
    BY <1>1, <1>4, <1>5, <1>6 DEF DdgInv

LEMMA WalkStep ==
    ASSUME Ddg!DdgAssumption, DdgInv, NEW r \in Readers,
           NEW us \in SUBSET Urls, NEW more \in BOOLEAN, Ddg!Walk(r, us, more)
    PROVE  DdgInv'
<1>1. at[r] = "walk" /\ lock = r /\ hand # Ddg!Unknown
      /\ want[r] \in 2 .. MaxPage /\ want[r] \notin hand.forms
      /\ (~shown => reading[r] = 0)
    BY DEF Ddg!Walk, DdgInv, DdgTypes, Walker, Ddg!Unknown
<1>2. PICK k \in 1 .. MaxPage : WalkedTo(hand, k)
    BY <1>1 DEF DdgInv, WellKept
<1>3. k \in Nat \ {0} /\ Ddg!Last(hand) = k
    BY <1>2, LastWalked DEF Ddg!DdgAssumption
<1>4. k + 1 \in hand.forms
    BY <1>1, <1>3 DEF DdgInv, Walker
<1> DEFINE st == Ddg!Remembering(hand, k + 1, us, more)
<1>5. /\ Ddg!Kept(st) /\ Ddg!Walking(r, st, shown) /\ Ddg!Unread
      /\ reading' = IF shown THEN Ddg!Replaced(Ddg!Last(st)) ELSE reading
    BY <1>3 DEF Ddg!Walk
<1>6. WalkedTo(st, k + 1) /\ \A j \in 1 .. k : st.urls[j] = hand.urls[j]
    BY <1>2, <1>3, <1>4, PageKept
<1>. HIDE DEF st
<1>7. k + 1 \in 1 .. MaxPage
    BY <1>1, <1>2, <1>4 DEF WalkedTo, Ddg!DdgAssumption
<1>8. WellKept(st) /\ Ddg!Last(st) = k + 1
    BY <1>3, <1>6, <1>7, LastWalked DEF WellKept
<1>9. pages' = IF shown THEN st ELSE pages
    BY <1>5 DEF Ddg!Kept
<1>10. /\ reading' \in [Readers -> 0 .. MaxPage]
       /\ \A q \in Readers : reading'[q] = 0
                             \/ (reading'[q] = reading[q] /\ (shown => reading[q] < k + 1))
    <2>1. CASE shown
        <3> DEFINE rest == Ddg!Replaced(k + 1)
        <3>1. /\ rest \in [Readers -> 0 .. MaxPage]
              /\ \A q \in Readers : rest[q] = 0 \/ (rest[q] = reading[q] /\ reading[q] < k + 1)
            BY <1>3, ReplacedFact
        <3>2. reading' = rest
            BY <1>5, <1>8, <2>1
        <3>. HIDE DEF rest
        <3>. QED
            BY <3>1, <3>2
    <2>2. CASE ~shown
        BY <1>5, <2>2 DEF DdgInv, DdgTypes
    <2>. QED
        BY <2>1, <2>2
<1>11. /\ given' \in [Readers -> SUBSET Urls] /\ twice' = FALSE
       /\ \A q \in Readers : given'[q] \subseteq given[q]
    BY <1>5, <1>10, UnreadFact
<1>12. WellKept(pages)'
    <2>1. WellKept(pages')
        BY <1>8, <1>9 DEF DdgInv
    <2>. QED
        BY <2>1 DEF WellKept, WalkedTo, Ddg!Unknown
<1>13. ASSUME NEW q \in Readers PROVE Remembered(q)'
    <2>1. CASE shown
        <3>1. pages = hand /\ pages' = st
            BY <1>9, <2>1 DEF DdgInv
        <3>2. DOMAIN pages.urls = 1 .. k /\ DOMAIN pages'.urls = 1 .. k + 1
            BY <1>2, <1>6, <3>1 DEF WalkedTo
        <3>. QED
            BY <1>3, <1>6, <1>10, <1>11, <3>1, <3>2, RemembranceKept
    <2>2. CASE ~shown
        BY <1>9, <1>10, <1>11, <2>2, RemembranceKept
    <2>. QED
        BY <2>1, <2>2
<1>14. /\ lock' \in Readers \cup {NoReader}
       /\ at' \in [Readers -> {"idle", "first", "lock", "refirst", "walk", "want"}]
       /\ want' \in [Readers -> 1 .. MaxPage]
       /\ shown' \in BOOLEAN /\ asked' \in [Readers -> BOOLEAN]
       /\ shown' => hand' = pages'
       /\ WellKept(hand)' /\ \A q \in Readers : Walker(q)'
    <2>1. shown \in BOOLEAN /\ (shown => st = pages') /\ (~shown => reading'[r] = 0)
        BY <1>1, <1>5, <1>9 DEF DdgInv, DdgFlags
    <2>. QED
        BY <1>1, <1>5, <1>8, <2>1, Walks
<1>. QED
    BY <1>10, <1>11, <1>12, <1>13, <1>14 DEF DdgInv, DdgTypes, DdgFlags

LEMMA WantStep ==
    ASSUME Ddg!DdgAssumption, DdgInv, NEW r \in Readers,
           NEW us \in SUBSET Urls, NEW more \in BOOLEAN, Ddg!Want(r, us, more)
    PROVE  DdgInv'
<1> DEFINE w == want[r]
           st == Ddg!Remembering(hand, w, us, more)
           news == us \ Ddg!Earlier(st, w)
           seen == IF shown THEN Ddg!Replaced(w) ELSE reading
<1>1. at[r] = "want" /\ lock = r /\ hand # Ddg!Unknown /\ w \in 2 .. MaxPage /\ w \in hand.forms
      /\ (~shown => reading[r] = 0)
    BY DEF Ddg!Want, DdgInv, DdgTypes, Walker, Ddg!Unknown
<1>2. PICK k \in 1 .. MaxPage : WalkedTo(hand, k)
    BY <1>1 DEF DdgInv, WellKept
<1>3. k \in Nat \ {0} /\ w \in 2 .. k + 1
    BY <1>1, <1>2 DEF Ddg!DdgAssumption, WalkedTo
<1>4. Ddg!Kept(st) /\ Ddg!Giving(r, news, seen) /\ Ddg!Return(r) /\ Ddg!Unlock
    BY DEF Ddg!Want
<1> DEFINE m == IF w = k + 1 THEN k + 1 ELSE k
<1>5. WalkedTo(st, m) /\ st.urls[w] = us /\ \A j \in 1 .. k : j # w => st.urls[j] = hand.urls[j]
    BY <1>1, <1>2, <1>3, PageKept
<1>6. m \in 1 .. MaxPage /\ w \in 1 .. m /\ k <= m
    BY <1>1, <1>2, <1>3
<1>7. DOMAIN hand.urls = 1 .. k /\ DOMAIN st.urls = 1 .. m
    BY <1>2, <1>5 DEF WalkedTo
<1>8. news \in SUBSET us /\ \A j \in 1 .. w - 1 : st.urls[j] \cap news = {}
    BY DEF Ddg!Earlier
<1>. HIDE DEF st, news, seen, m
<1>9. WellKept(st)
    BY <1>5, <1>6 DEF WellKept
<1>10. pages' = IF shown THEN st ELSE pages
    BY <1>4 DEF Ddg!Kept
<1>11. WellKept(pages)'
    <2>1. WellKept(pages')
        BY <1>9, <1>10 DEF DdgInv
    <2>. QED
        BY <2>1 DEF WellKept, WalkedTo, Ddg!Unknown
<1>12. /\ seen \in [Readers -> 0 .. MaxPage]
       /\ \A q \in Readers : seen[q] = 0 \/ (seen[q] = reading[q] /\ (shown => reading[q] < w))
    <2>1. CASE shown
        <3> DEFINE rest == Ddg!Replaced(w)
        <3>1. w \in Nat
            BY <1>3
        <3>2. /\ rest \in [Readers -> 0 .. MaxPage]
              /\ \A q \in Readers : rest[q] = 0 \/ (rest[q] = reading[q] /\ reading[q] < w)
            BY <3>1, ReplacedFact
        <3>3. seen = rest
            BY <2>1 DEF seen
        <3>. HIDE DEF rest
        <3>. QED
            BY <3>2, <3>3
    <2>2. CASE ~shown
        BY <2>2 DEF seen, DdgInv, DdgTypes
    <2>. QED
        BY <2>1, <2>2
<1>13. /\ reading' \in [Readers -> 0 .. MaxPage] /\ given' \in [Readers -> SUBSET Urls]
       /\ \A q \in Readers : q # r => reading'[q] = seen[q] /\ given'[q] \subseteq given[q]
       /\ reading'[r] = IF ReadsOn(r) THEN want[r] ELSE 0
       /\ given'[r] \subseteq (IF want[r] = 1 THEN news ELSE given[r] \cup news)
       /\ ~(ReadsOn(r) /\ want[r] > 1 /\ news \cap given[r] # {}) => twice' = FALSE
    <2>1. news \in SUBSET Urls
        BY <1>8
    <2>. QED
        BY <1>4, <1>12, <2>1, GivingFact
\* Whoever reads on has read pages of the live state.
<1>14. ASSUME ReadsOn(r)
       PROVE  /\ shown /\ pages = hand /\ reading[r] = w - 1
              /\ \A u \in given[r] : \E j \in 1 .. w - 1 : u \in st.urls[j]
    <2>1. reading[r] = w - 1 /\ reading[r] > 0
        BY <1>1, <1>14 DEF ReadsOn
    <2>2. shown /\ pages = hand
        BY <1>1, <2>1 DEF DdgInv
    <2>3. \A u \in given[r] : \E j \in 1 .. w - 1 : u \in hand.urls[j]
        BY <2>1, <2>2 DEF DdgInv, Remembered
    <2>4. \A j \in 1 .. w - 1 : st.urls[j] = hand.urls[j]
        BY <1>3, <1>5
    <2>. QED
        BY <2>1, <2>2, <2>3, <2>4
<1>15. twice' = FALSE
    BY <1>8, <1>13, <1>14
<1>16. ASSUME NEW q \in Readers, q # r PROVE Remembered(q)'
    <2>1. CASE shown
        <3>1. pages = hand /\ pages' = st
            BY <1>10, <2>1 DEF DdgInv
        <3>2. \A j \in 1 .. k : j < w => st.urls[j] = hand.urls[j]
            BY <1>1, <1>3, <1>5
        <3>3. \A j \in Nat : j \in 1 .. k => j \in 1 .. m
            BY <1>3, <1>6
        <3>4. reading[q] \in Nat
            BY DEF DdgInv, DdgTypes
        <3>5. \/ reading'[q] = 0
              \/ reading'[q] = reading[q] /\ given'[q] \subseteq given[q] /\ reading[q] < w
            BY <1>12, <1>13, <1>16, <2>1
        <3>6. reading[q] \in DOMAIN pages.urls => reading[q] \in DOMAIN pages'.urls
            BY <1>7, <3>1, <3>3, <3>4
        <3>7. ASSUME reading[q] < w, NEW j \in 1 .. reading[q], j \in DOMAIN pages.urls
              PROVE  pages'.urls[j] = pages.urls[j]
            BY <1>3, <1>7, <3>1, <3>2, <3>4, <3>7
        <3>. QED
            BY <3>5, <3>6, <3>7, RemembranceKept
    <2>2. CASE ~shown
        BY <1>10, <1>12, <1>13, <1>16, <2>2, RemembranceKept
    <2>. QED
        BY <2>1, <2>2
<1>17. Remembered(r)'
    <2>1. CASE ReadsOn(r)
        <3>1. pages' = st /\ reading'[r] = w /\ given'[r] \subseteq given[r] \cup news
            BY <1>1, <1>10, <1>13, <1>14, <2>1
        <3>2. \A u \in given[r] : \E j \in 1 .. w : u \in st.urls[j]
            BY <1>1, <1>14, <2>1
        <3>3. \A u \in news : u \in st.urls[w]
            BY <1>5, <1>8
        <3>. QED
            BY <1>1, <1>6, <1>7, <3>1, <3>2, <3>3 DEF Remembered
    <2>2. CASE ~ReadsOn(r)
        BY <1>13, <2>2 DEF Remembered
    <2>. QED
        BY <2>1, <2>2
<1>18. /\ lock' \in Readers \cup {NoReader}
       /\ at' \in [Readers -> {"idle", "first", "lock", "refirst", "walk", "want"}]
       /\ want' \in [Readers -> 1 .. MaxPage]
       /\ shown' => hand' = pages'
       /\ WellKept(hand)' /\ \A q \in Readers : Walker(q)'
    BY <1>1, <1>4, Returns
<1>19. DdgFlags'
    BY <1>4, <1>15 DEF Ddg!Return, Ddg!Unlock, DdgFlags, DdgInv
<1>. QED
    BY <1>11, <1>13, <1>16, <1>17, <1>18, <1>19 DEF DdgInv, DdgTypes

LEMMA DdgInvStep ==
    ASSUME Ddg!DdgAssumption, DdgInv, [Ddg!Next]_ddgVars PROVE DdgInv'
<1>1. CASE UNCHANGED ddgVars
    <2>1. DdgTypes' /\ DdgFlags'
        BY <1>1 DEF ddgVars, DdgInv, DdgTypes, DdgFlags
    <2>2. ASSUME NEW q \in Readers PROVE Walker(q)' /\ Remembered(q)'
        BY <1>1 DEF ddgVars, DdgInv, Walker, Remembered, Ddg!Last
    <2>3. (WellKept(pages) /\ WellKept(hand))' /\ (shown' => hand' = pages')
        BY <1>1 DEF ddgVars, DdgInv, WellKept, WalkedTo, Ddg!Unknown
    <2>. QED
        BY <2>1, <2>2, <2>3 DEF DdgInv
<1>2. CASE Ddg!Next
    BY <1>2, AskStep, EmptyFirstStep, FirstStep, EnterStep, ReFirstStep, WalkStep, WantStep,
       FailStep, ForgetStep DEF Ddg!Next, Ddg!Answer
<1>. QED
    BY <1>1, <1>2

LEMMA DdgInvAlways == PartsSpec => []DdgInv
<1>. USE InstancesAssumption DEF InstancesAssumption
<1>1. PartsInit => DdgInv
    BY DdgInvInit DEF PartsInit
<1>2. DdgInv /\ [PartsNext]_allVars => DdgInv'
    BY DdgInvStep, StepsOfParts
<1>. QED
    BY <1>1, <1>2, PTL DEF PartsSpec

\* Every form leads on from pages that are remembered (search/ddg.py), also
\* where page 1 was fetched anew while a walk was under way.
THEOREM FormsLeadOn == PartsSpec => []FormsFollowPages
<1>. USE InstancesAssumption DEF InstancesAssumption
<1>1. DdgInv => FormsFollowPages
    BY FormsLead DEF DdgInv, FormsFollowPages, Ddg!FormsFollowPages
<1>. QED
    BY <1>1, DdgInvAlways, PTL

---------------------------------------------------------------------------
(* The MTop client and the parser slots, whose theorems are elsewhere *)

LEMMA MTopBehaves == PartsSpec => Spec
<1>1. PartsInit => Init
    BY DEF PartsInit
<1>2. [PartsNext]_allVars => [Next]_vars
    BY StepsOfParts DEF mtopVars
<1>. QED
    BY <1>1, <1>2, PTL DEF PartsSpec, Spec

SlotsP == INSTANCE ParserSlotsProofs WITH StartHoldsSlot <- TRUE, call <- calls

LEMMA SameSlots ==
    /\ Slots!SlotsAssumption => SlotsP!SlotsAssumption
    /\ Slots!Init => SlotsP!Init
    /\ SlotsP!TypeOK => Slots!TypeOK
    /\ SlotsP!SlotsConserved => Slots!SlotsConserved
    /\ SlotsP!SlotCoversChild => Slots!SlotCoversChild
<1>1. ASSUME NEW S PROVE SlotsP!Cardinality(S) = Slots!Cardinality(S)
    BY Zenon DEF SlotsP!Cardinality, Slots!Cardinality
<1>2. Slots!SlotsAssumption => SlotsP!SlotsAssumption
    BY DEF SlotsP!SlotsAssumption, Slots!SlotsAssumption, SlotsP!IsFiniteSet, Slots!IsFiniteSet
<1>3. Slots!Init => SlotsP!Init
    BY DEF SlotsP!Init, Slots!Init
<1>4. SlotsP!TypeOK => Slots!TypeOK
    BY Zenon DEF SlotsP!TypeOK, Slots!TypeOK, SlotsP!Call, Slots!Call, SlotsP!TaskStates,
       Slots!TaskStates, SlotsP!StartStates, Slots!StartStates, SlotsP!StopStates,
       Slots!StopStates, SlotsP!SlotStates, Slots!SlotStates
<1>5. SlotsP!SlotsConserved => Slots!SlotsConserved
    BY <1>1 DEF SlotsP!SlotsConserved, Slots!SlotsConserved, SlotsP!InHand, Slots!InHand
<1>6. SlotsP!SlotCoversChild => Slots!SlotCoversChild
    BY DEF SlotsP!SlotCoversChild, Slots!SlotCoversChild, SlotsP!HasChild, Slots!HasChild
<1>. QED
    BY <1>2, <1>3, <1>4, <1>5, <1>6

LEMMA SameSlotsSteps == Slots!Next => SlotsP!Next
BY DEF SlotsP!Next, Slots!Next,
       SlotsP!Begin, Slots!Begin, SlotsP!Fork, Slots!Fork, SlotsP!StartFails,
       Slots!StartFails, SlotsP!Publish, Slots!Publish, SlotsP!Reap, Slots!Reap,
       SlotsP!BeginStop, Slots!BeginStop, SlotsP!EndStop, Slots!EndStop, SlotsP!CleanUp,
       Slots!CleanUp, SlotsP!Exit, Slots!Exit, SlotsP!Acquire, Slots!Acquire,
       SlotsP!Started, Slots!Started, SlotsP!NotStarted, Slots!NotStarted, SlotsP!Collect,
       Slots!Collect, SlotsP!Stopped, Slots!Stopped, SlotsP!Return, Slots!Return,
       SlotsP!CancelAcquire, Slots!CancelAcquire, SlotsP!CancelStart, Slots!CancelStart,
       SlotsP!CancelPoll, Slots!CancelPoll, SlotsP!CancelStop, Slots!CancelStop,
       SlotsP!Cancel, Slots!Cancel, SlotsP!Thread, Slots!Thread, SlotsP!Task, Slots!Task,
       SlotsP!Leave, Slots!Leave, SlotsP!ReleaseFromThread, Slots!ReleaseFromThread,
       SlotsP!Transferred, Slots!Transferred, SlotsP!Untransferred, Slots!Untransferred,
       SlotsP!Published, Slots!Published, SlotsP!Dropped, Slots!Dropped,
       SlotsP!DeferCleanup, Slots!DeferCleanup, SlotsP!Held, Slots!Held

LEMMA SlotsBehave == PartsSpec => SlotsP!Spec
<1>1. PartsInit => SlotsP!Init
    BY SameSlots DEF PartsInit
<1>2. [PartsNext]_allVars => [SlotsP!Next]_(SlotsP!vars)
    BY StepsOfParts, SameSlotsSteps DEF slotsVars, SlotsP!vars
<1>. QED
    BY <1>1, <1>2, PTL DEF PartsSpec, SlotsP!Spec

\* A slot covers its child until the final stop is cut (_isolated.py).
THEOREM SlotsCoverChildren == PartsSpec => []SlotCoversChild
<1>. USE InstancesAssumption DEF InstancesAssumption
<1>1. SlotsP!SlotCoversChild => SlotCoversChild
    BY SameSlots DEF SlotCoversChild
<1>2. SlotsP!Spec => []SlotsP!SlotCoversChild
    BY SlotsP!SlotHeldUntilReaped, SameSlots
<1>. QED
    BY <1>1, <1>2, SlotsBehave, PTL

\* Each part's variables keep their types, and what the parts promise holds:
\* whoever reads on in DuckDuckGo's pages is never given a result again
\* (search/ddg.py:317), only a whole vocabulary of a job board is kept
\* (gojobs/api.py:253), what minimization returns has passed
\* (discovery/minimize.py), and no parser slot is lost or given back twice.
THEOREM PartsInOrder == PartsSpec => []PartsInvariants
<1>. USE InstancesAssumption DEF InstancesAssumption
<1>1. PartsSpec => []TypeOK
    BY TypeCorrect, MTopBehaves, PTL
<1>2. PartsSpec => [](Slots!TypeOK /\ Slots!SlotsConserved)
    <2>1. SlotsP!Spec => []SlotsP!TypeOK
        BY SlotsP!TypeCorrect, SameSlots
    <2>2. SlotsP!Spec => []SlotsP!SlotsConserved
        BY SlotsP!NoSlotReleasedTwice, SameSlots
    <2>3. SlotsP!TypeOK /\ SlotsP!SlotsConserved => Slots!TypeOK /\ Slots!SlotsConserved
        BY SameSlots
    <2>. QED
        BY <2>1, <2>2, <2>3, SlotsBehave, PTL
<1>3. DdgInv => Ddg!TypeOK /\ Ddg!NothingGivenTwice
    BY DdgTyped DEF DdgInv, DdgFlags, Ddg!NothingGivenTwice
<1>4. TypeOK /\ DdgInv /\ HoldInv /\ BoardInv /\ MiniInv /\ Slots!TypeOK /\ Slots!SlotsConserved
          => PartsInvariants
    BY <1>3, BoardsInOrder DEF HoldInv, MiniInv, PartsInvariants
<1>. QED
    BY <1>1, <1>2, <1>4, DdgInvAlways, HoldInvAlways, BoardInvAlways, MiniInvAlways, PTL

=============================================================================
