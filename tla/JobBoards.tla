------------------------------- MODULE JobBoards -------------------------------
(***************************************************************************)
(* The searches of the two government job boards, gojobs/api.py and        *)
(* gcjobs/api.py under src/src/fetchaller.  The server keeps one search    *)
(* per session, and the session is shared by the whole process: a search   *)
(* is a conversation of several requests under _exchange_lock.  Before it, *)
(* the board's vocabulary is read once per process, in an exchange of its  *)
(* own.  Go Jobs serves the cities with the first page of a session only.  *)
(*                                                                         *)
(* Requests reach the server in the order in which they were sent; one     *)
(* that is given up may have reached it or not.                            *)
(***************************************************************************)
EXTENDS Naturals

CONSTANTS
    Calls, NoCall,
    ColdOnly,     \* gojobs: a session's first page alone has every vocabulary
    MaxPages      \* bound: pages that a search reads after its first answer

BoardsAssumption ==
    /\ NoCall \notin Calls
    /\ ColdOnly \in BOOLEAN
    /\ MaxPages \in Nat

VARIABLES
    cold,          \* the server has not served the session's first page
    stored,        \* the search that the server keeps for the session
    cached,        \* _vocab_cache, _department_cache is set
    vocabLock, exchangeLock,   \* who holds each asyncio.Lock
    pc,            \* where each call is
    pages,         \* pages it has read
    rows,          \* whose search its postings are from
    hand           \* calls that have a whole vocabulary in hand

vars == <<cold, stored, cached, vocabLock, exchangeLock, pc, pages, rows, hand>>

Reading == {"vocab", "open", "page"}   \* a request is with the server

TypeOK ==
    /\ cold \in BOOLEAN
    /\ stored \in Calls \cup {"none", "everything"}
    /\ cached \in BOOLEAN
    /\ {vocabLock, exchangeLock} \subseteq Calls \cup {NoCall}
    /\ pc \in [Calls -> Reading \cup {"new", "vocabLock", "vocabExchange", "exchange", "done"}]
    /\ pages \in [Calls -> 0 .. MaxPages]
    /\ rows \in [Calls -> SUBSET (Calls \cup {"none", "everything"})]
    /\ hand \subseteq Calls

Init ==
    /\ cold = TRUE
    /\ stored = "none"
    /\ cached = FALSE
    /\ vocabLock = NoCall
    /\ exchangeLock = NoCall
    /\ pc = [c \in Calls |-> "new"]
    /\ pages = [c \in Calls |-> 0]
    /\ rows = [c \in Calls |-> {}]
    /\ hand = {}

---------------------------------------------------------------------------
(* Locks *)

Released(lock, c) == IF lock = c THEN NoCall ELSE lock

\* An asyncio.Lock that is taken in an "async with".
TakeExchange(c) == exchangeLock = NoCall /\ exchangeLock' = c

GoesTo(c, place) == pc' = [pc EXCEPT ![c] = place]

---------------------------------------------------------------------------
(* The server *)

\* What a search page holds, and what serving it does.
WholePage == cold \/ ~ColdOnly
Serves(search) == stored' = search /\ cold' = FALSE

---------------------------------------------------------------------------
(* get_vocabularies, get_departments *)

\* A search of GC Jobs that names no department needs no vocabulary.
Start(c) ==
    /\ pc[c] = "new"
    /\ \/ cached /\ GoesTo(c, "exchange")
       \/ ~cached /\ GoesTo(c, "vocabLock")
       \/ ~ColdOnly /\ GoesTo(c, "exchange")
    /\ UNCHANGED <<cold, stored, cached, vocabLock, exchangeLock, pages, rows, hand>>

\* The cache is looked at again under the lock.
EnterVocab(c) ==
    /\ pc[c] = "vocabLock" /\ vocabLock = NoCall
    /\ \/ cached /\ GoesTo(c, "exchange") /\ UNCHANGED vocabLock
       \/ ~cached /\ GoesTo(c, "vocabExchange") /\ vocabLock' = c
    /\ UNCHANGED <<cold, stored, cached, exchangeLock, pages, rows, hand>>

AskVocabMutant(c) ==
    /\ pc[c] = "vocabExchange"
    /\ GoesTo(c, "vocab")
    /\ UNCHANGED <<cold, stored, cached, vocabLock, exchangeLock, pages, rows, hand>>
AskVocab(c) ==
    /\ pc[c] = "vocabExchange"
    /\ TakeExchange(c)
    /\ GoesTo(c, "vocab")
    /\ UNCHANGED <<cold, stored, cached, vocabLock, pages, rows, hand>>

\* A vocabulary without cities is used, but not kept.
KeptMutant(whole) == TRUE
Kept(whole) == cached \/ whole
ReadVocab(c) ==
    /\ pc[c] = "vocab"
    /\ Serves("everything")
    /\ cached' = Kept(WholePage)
    /\ hand' = IF WholePage THEN hand \cup {c} ELSE hand
    /\ vocabLock' = Released(vocabLock, c)
    /\ exchangeLock' = Released(exchangeLock, c)
    /\ GoesTo(c, "exchange")
    /\ UNCHANGED <<pages, rows>>

---------------------------------------------------------------------------
(* search_all *)

Open(c) ==
    /\ pc[c] = "exchange"
    /\ TakeExchange(c)
    /\ GoesTo(c, "open")
    /\ UNCHANGED <<cold, stored, cached, vocabLock, pages, rows, hand>>

\* The form, or the first page, is read and the next page is asked for.
Opened(c) ==
    /\ pc[c] = "open"
    /\ Serves(c)
    /\ GoesTo(c, "page")
    /\ UNCHANGED <<cached, vocabLock, exchangeLock, pages, rows, hand>>

\* A page shows postings of whichever search the server keeps; the walk ends
\* at the last one, or when a page brings nothing new.
ReadPage(c) ==
    /\ pc[c] = "page"
    /\ rows' = [rows EXCEPT ![c] = @ \cup {stored}]
    /\ \/ /\ pages[c] < MaxPages
          /\ pages' = [pages EXCEPT ![c] = @ + 1]
          /\ UNCHANGED <<exchangeLock, pc>>
       \/ /\ exchangeLock' = Released(exchangeLock, c)
          /\ GoesTo(c, "done")
          /\ UNCHANGED pages
    /\ UNCHANGED <<cold, stored, cached, vocabLock, hand>>

---------------------------------------------------------------------------
(* A timeout, a cancellation or a refusal *)

GiveUpMutant(c) ==
    /\ pc[c] \notin {"new", "done"}
    /\ GoesTo(c, "done")
    /\ vocabLock' = Released(vocabLock, c)
    /\ \/ UNCHANGED <<cold, stored>>
       \/ pc[c] = "vocab" /\ Serves("everything")
       \/ pc[c] = "open" /\ Serves(c)
    /\ UNCHANGED <<cached, exchangeLock, pages, rows, hand>>
GiveUp(c) ==
    /\ pc[c] \notin {"new", "done"}
    /\ GoesTo(c, "done")
    /\ vocabLock' = Released(vocabLock, c)
    /\ exchangeLock' = Released(exchangeLock, c)
    /\ \/ UNCHANGED <<cold, stored>>
       \/ pc[c] = "vocab" /\ Serves("everything")
       \/ pc[c] = "open" /\ Serves(c)
    /\ UNCHANGED <<cached, pages, rows, hand>>

Next ==
    \E c \in Calls :
        \/ Start(c) \/ EnterVocab(c) \/ AskVocab(c) \/ ReadVocab(c)
        \/ Open(c) \/ Opened(c) \/ ReadPage(c) \/ GiveUp(c)

Spec == Init /\ [][Next]_vars

---------------------------------------------------------------------------
(* Correctness *)

\* No search pages another's results, and none the unfiltered board's
\* ("Both answers were well-formed and plausible, and both were wrong",
\* gojobs/api.py:70): whatever calls overlap, time out or are refused.
OwnResults == \A c \in Calls : rows[c] \subseteq {c}

\* What is kept for the rest of the process is a whole vocabulary: some call
\* has read the cities.
WholeVocabularyKept == cached => hand # {}

\* No call that is over, or waits for no answer, keeps the exchange.
ExchangeIsLive ==
    exchangeLock # NoCall => pc[exchangeLock] \in Reading

\* "better to retry on the next call than to spend the rest of the process
\* unable to resolve a city" (gojobs/api.py:253): as long as the cities are not
\* known, a later call can still read them.
CitiesStayAvailable == cached \/ WholePage

=============================================================================
