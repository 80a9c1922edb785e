-------------------------------- MODULE MCSites --------------------------------
(***************************************************************************)
(* Small instances for TLC of the clients of sites: the MTop client of     *)
(* AliExpress, DuckDuckGo's pages, Home Depot's gateway hold, the job      *)
(* boards and the minimization of a discovered request; and of the parser  *)
(* processes of _isolated.py, which read what sites return.  No part reads *)
(* what another writes, so each behaviour exercises one of them.           *)
(***************************************************************************)
EXTENDS MTopClient

CONSTANTS
    Readers, NoReader, Urls, MaxPage,                     \* DdgPages
    Reads, RefusalHold, RefusalHoldMax, ReadTimeout, Horizon,   \* EdgeHold
    Calls, NoCall, MaxPages,                              \* JobBoards, ParserSlots
    Fields, MaxProbes,                                    \* Minimize
    MaxProcesses                                          \* ParserSlots

VARIABLES
    part,
    pages, lock, hand, shown, at, want, asked, given, reading, twice,
    clock, holdUntil, holdLength, holdStarted, read, sentAt,
    firstPage, stored, cached, vocabLock, exchangeLock, place, walked, rows, whole,
    passed, failed, current, n, tried, stage,
    free, returning, calls

mtopVars == vars
ddgVars == <<pages, lock, hand, shown, at, want, asked, given, reading, twice>>
holdVars == <<clock, holdUntil, holdLength, holdStarted, read, sentAt>>
boardVars == <<firstPage, stored, cached, vocabLock, exchangeLock, place, walked, rows, whole>>
miniVars == <<passed, failed, current, n, tried, stage>>
slotsVars == <<free, returning, calls>>
allVars == <<part, mtopVars, ddgVars, holdVars, boardVars, miniVars, slotsVars>>

Ddg == INSTANCE DdgPages WITH pc <- at, shared <- shown
Hold == INSTANCE EdgeHold WITH now <- clock, pc <- read
GoJobs == INSTANCE JobBoards WITH
              ColdOnly <- TRUE, cold <- firstPage, pc <- place, pages <- walked, hand <- whole
GcJobs == INSTANCE JobBoards WITH
              ColdOnly <- FALSE, cold <- firstPage, pc <- place, pages <- walked, hand <- whole
Mini == INSTANCE Minimize WITH pc <- stage
Slots == INSTANCE ParserSlots WITH StartHoldsSlot <- TRUE, call <- calls

\* The instances are ones the theorems speak of.
ASSUME InstancesAssumption ==
    /\ MTopAssumption /\ Ddg!DdgAssumption /\ Hold!EdgeHoldAssumption
    /\ GoJobs!BoardsAssumption /\ Mini!MinimizeAssumption /\ Slots!SlotsAssumption

PartsInit ==
    /\ part \in {"mtop", "ddg", "hold", "gojobs", "gcjobs", "mini", "slots"}
    /\ Init /\ Ddg!Init /\ Hold!Init /\ GoJobs!Init /\ Mini!Init /\ Slots!Init

MTopStep ==
    /\ part = "mtop" /\ Next
    /\ UNCHANGED <<part, ddgVars, holdVars, boardVars, miniVars, slotsVars>>
DdgStep ==
    /\ part = "ddg" /\ Ddg!Next
    /\ UNCHANGED <<part, mtopVars, holdVars, boardVars, miniVars, slotsVars>>
HoldStep ==
    /\ part = "hold" /\ Hold!Next
    /\ UNCHANGED <<part, mtopVars, ddgVars, boardVars, miniVars, slotsVars>>
BoardStep ==
    /\ \/ part = "gojobs" /\ GoJobs!Next
       \/ part = "gcjobs" /\ GcJobs!Next
    /\ UNCHANGED <<part, mtopVars, ddgVars, holdVars, miniVars, slotsVars>>
MiniStep ==
    /\ part = "mini" /\ Mini!Next
    /\ UNCHANGED <<part, mtopVars, ddgVars, holdVars, boardVars, slotsVars>>
SlotsStep ==
    /\ part = "slots" /\ Slots!Next
    /\ UNCHANGED <<part, mtopVars, ddgVars, holdVars, boardVars, miniVars>>

PartsNext ==
    MTopStep \/ DdgStep \/ HoldStep \/ BoardStep \/ MiniStep \/ SlotsStep

\* The fairness of the parts whose liveness is checked, those of their modules.
PartsSpec ==
    /\ PartsInit /\ [][PartsNext]_allVars
    /\ \A c \in Callers : WF_vars(part = "mtop" /\ Progress(c))
    /\ \A r \in Calls :
           /\ WF_slotsVars(part = "slots" /\ Slots!Thread(r))
           /\ WF_slotsVars(part = "slots" /\ Slots!Return(r))
           /\ WF_slotsVars(part = "slots" /\ (Slots!NotStarted(r) \/ Slots!Stopped(r)))
           /\ WF_slotsVars(part = "slots" /\ Slots!Cancel(r))

---------------------------------------------------------------------------
(* The properties of the parts, as their modules state them; those of the  *)
(* MTop client are the module's own.                                       *)

\* Each part's variables have their types, and the invariants of the parts
\* hold: whoever reads on in DuckDuckGo's pages is never given a result again,
\* only a whole vocabulary of a job board is kept and its exchange is held
\* while one runs, what minimization returns has passed, and no parser slot is
\* lost or given back twice.
PartsInvariants ==
    /\ TypeOK /\ Ddg!TypeOK /\ Hold!TypeOK /\ GoJobs!TypeOK /\ Mini!TypeOK /\ Slots!TypeOK
    /\ Ddg!NothingGivenTwice
    /\ GoJobs!WholeVocabularyKept /\ GoJobs!ExchangeIsLive
    /\ Mini!KeptPasses
    /\ Slots!SlotsConserved

\* ddg.py: every form leads on from pages that are remembered.
FormsFollowPages == Ddg!FormsFollowPages

\* homedepot/com.py: no answer lifts or shortens a hold, and a probe alone
\* doubles it.
HoldRunsItsCourse == Hold!HoldRunsItsCourse /\ Hold!DoubledByProbe

\* gojobs/api.py, gcjobs/api.py: a search pages its own results.
OwnResults == GoJobs!OwnResults

\* discovery/minimize.py: no field of an uncut result can be spared.
OneMinimal == Mini!OneMinimal

\* _isolated.py: a slot covers its child until the final stop is cut.
SlotCoversChild == Slots!SlotCoversChild

\* _isolated.py: slots come back and children are stopped, unless the pool
\* drops the job that was to do it.
CleanupCompletes == Slots!CleanupCompletes

=============================================================================
