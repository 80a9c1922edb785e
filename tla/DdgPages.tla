------------------------------- MODULE DdgPages -------------------------------
(***************************************************************************)
(* Reading DuckDuckGo page by page: search_ddg and its page state in       *)
(* src/src/fetchaller/search/ddg.py, for one query.  A later page is       *)
(* reached by posting the form that the page before it carried.  Page 1 is *)
(* fetched outside the pages lock and replaces the state that a walk under *)
(* the lock may have in hand; the walk goes on with the old one.           *)
(***************************************************************************)
EXTENDS Naturals, FiniteSets

CONSTANTS
    Readers, NoReader,
    Urls,
    MaxPage        \* MAX_DDG_PAGE

DdgAssumption == NoReader \notin Readers /\ MaxPage \in Nat \ {0}

VARIABLES
    pages,     \* _pages[query]: the live state, or Unknown
    lock,      \* the holder of _pages_lock
    hand,      \* the state in that walker's hands
    shared,    \* whether that state is still the one in _pages
    pc,        \* where each reader is in search_ddg
    want,      \* the page it asked for
    asked,     \* its second ask for page 1
    given,     \* history: what it was given since its page 1
    reading,   \* history: its last page, 0 once what it rests on was replaced
    twice      \* history: it was given a result again while reading on

vars == <<pages, lock, hand, shared, pc, want, asked, given, reading, twice>>

\* Pages are remembered from 1 on; a form leads from each to the next.
State == [urls : UNION {[1 .. k -> SUBSET Urls] : k \in 1 .. MaxPage}, forms : SUBSET (2 .. MaxPage + 1)]
Unknown == [urls |-> <<>>, forms |-> {}]
Last(st) == Cardinality(DOMAIN st.urls)

TypeOK ==
    /\ {pages, hand} \subseteq State \cup {Unknown}
    /\ lock \in Readers \cup {NoReader}
    /\ shared \in BOOLEAN
    /\ pc \in [Readers -> {"idle", "first", "lock", "refirst", "walk", "want"}]
    /\ \A r \in Readers : lock = r <=> pc[r] \in {"refirst", "walk", "want"}
    /\ want \in [Readers -> 1 .. MaxPage]
    /\ asked \in [Readers -> BOOLEAN]
    /\ given \in [Readers -> SUBSET Urls]
    /\ reading \in [Readers -> 0 .. MaxPage]
    /\ twice \in BOOLEAN

Init ==
    /\ pages = Unknown /\ hand = Unknown
    /\ lock = NoReader
    /\ shared = FALSE
    /\ pc = [r \in Readers |-> "idle"]
    /\ want = [r \in Readers |-> 1]
    /\ asked = [r \in Readers |-> FALSE]
    /\ given = [r \in Readers |-> {}]
    /\ reading = [r \in Readers |-> 0]
    /\ twice = FALSE

Step(r, to) == pc' = [pc EXCEPT ![r] = to]

\* The call returns or raises, and its locals are gone.
Return(r) ==
    /\ Step(r, "idle")
    /\ want' = [want EXCEPT ![r] = 1]
    /\ asked' = [asked EXCEPT ![r] = FALSE]
Unlock == lock' = NoReader /\ hand' = Unknown /\ shared' = FALSE

\* history: page n of the live state was fetched anew, so that whoever had
\* read it has something else in hand; n = 0 stands for the whole state.
Replaced(n) == [q \in Readers |-> IF reading[q] >= n THEN 0 ELSE reading[q]]
Unread ==
    /\ given' = [q \in Readers |-> IF reading'[q] = 0 THEN {} ELSE given[q]]
    /\ twice' = twice

\* history: r is given us as the page it wanted.
Giving(r, us, seen) ==
    LET next == want[r] = 1 \/ reading[r] = want[r] - 1
        new == IF want[r] = 1 THEN us ELSE given[r] \cup us
    IN  /\ reading' = [seen EXCEPT ![r] = IF next THEN want[r] ELSE 0]
        /\ given' = [q \in Readers |-> IF reading'[q] = 0 THEN {} ELSE IF q = r THEN new ELSE given[q]]
        /\ twice' = (twice \/ (next /\ want[r] > 1 /\ us \cap given[r] # {}))

---------------------------------------------------------------------------
(* Page 1, outside the lock *)

Ask(r, n) ==
    /\ pc[r] = "idle"
    /\ want' = [want EXCEPT ![r] = n]
    /\ Step(r, IF n = 1 THEN "first" ELSE "lock")
    /\ UNCHANGED <<pages, lock, hand, shared, asked, given, reading, twice>>

\* _remember: page n had these results and maybe a form for the next page.
Remembering(st, n, us, more) ==
    [urls |-> [k \in DOMAIN st.urls \cup {n} |-> IF k = n THEN us ELSE st.urls[k]],
     forms |-> st.forms \cup (IF more THEN {n + 1} ELSE {})]

\* "No results" for page 1 is asked again once; a second time it is an error,
\* which is among those of Fail.
EmptyFirst(r) ==
    /\ pc[r] \in {"first", "refirst"} /\ ~asked[r]
    /\ asked' = [asked EXCEPT ![r] = TRUE]
    /\ UNCHANGED <<pages, lock, hand, shared, pc, want, given, reading, twice>>

\* A fresh state for what page 1 had.
FreshMutant(us, more) == [Remembering(Unknown, 1, us, more) EXCEPT !.forms = @ \cup pages.forms]
Fresh(us, more) == Remembering(Unknown, 1, us, more)

First(r, us, more) ==
    /\ pc[r] = "first" /\ us # {}
    /\ pages' = Fresh(us, more)
    /\ shared' = FALSE
    /\ Return(r)
    /\ Giving(r, us, Replaced(0))
    /\ UNCHANGED <<lock, hand>>

---------------------------------------------------------------------------
(* Later pages, under the lock *)

\* Walk forward from st, the live state or not, until the form for the wanted
\* page is known.  Where the forms end before that, there is no such page.
Walking(r, st, live) ==
    IF Last(st) + 1 \in st.forms \/ want[r] \in st.forms
    THEN /\ Step(r, IF want[r] \in st.forms THEN "want" ELSE "walk")
         /\ lock' = r /\ hand' = st /\ shared' = live
         /\ UNCHANGED <<want, asked>>
    ELSE Return(r) /\ Unlock

Enter(r) ==
    /\ pc[r] = "lock" /\ lock = NoReader
    /\ IF pages = Unknown
       THEN Step(r, "refirst") /\ lock' = r /\ UNCHANGED <<hand, shared, want, asked>>
       ELSE Walking(r, pages, TRUE)
    /\ UNCHANGED <<pages, given, reading, twice>>

ReFirst(r, us, more) ==
    /\ pc[r] = "refirst" /\ us # {}
    /\ pages' = Fresh(us, more)
    /\ Walking(r, pages', TRUE)
    /\ reading' = Replaced(0)
    /\ Unread

\* The walker's state is written in place: it is the live one, or no longer.
KeptMutant(st) == pages' = st
Kept(st) == pages' = IF shared THEN st ELSE pages

\* A page on the way, perhaps an empty one.
Walk(r, us, more) ==
    LET st == Remembering(hand, Last(hand) + 1, us, more) IN
    /\ pc[r] = "walk" /\ (more => us # {})
    /\ Kept(st)
    /\ Walking(r, st, shared)
    /\ reading' = IF shared THEN Replaced(Last(st)) ELSE reading
    /\ Unread

\* What the pages before n had.
Earlier(st, n) == UNION {st.urls[k] : k \in 1 .. n - 1}

\* The wanted page, without what the pages before it had.
Want(r, us, more) ==
    LET st == Remembering(hand, want[r], us, more) IN
    /\ pc[r] = "want" /\ (more => us # {})
    /\ Kept(st)
    /\ Giving(r, us \ Earlier(st, want[r]), IF shared THEN Replaced(want[r]) ELSE reading)
    /\ Return(r) /\ Unlock

\* A request fails or is refused in a backoff, or the reader is cancelled.
Fail(r) ==
    /\ pc[r] # "idle"
    /\ Return(r)
    /\ IF lock = r THEN Unlock ELSE UNCHANGED <<lock, hand, shared>>
    /\ UNCHANGED <<pages, given, reading, twice>>

\* The state's TTL passes, or other queries evict it.
Forget ==
    /\ pages # Unknown
    /\ pages' = Unknown
    /\ shared' = FALSE
    /\ reading' = Replaced(0)
    /\ Unread /\ UNCHANGED <<lock, hand, pc, want, asked>>

Answer(r) ==
    \/ EmptyFirst(r)
    \/ \E us \in SUBSET Urls, more \in BOOLEAN :
           First(r, us, more) \/ ReFirst(r, us, more) \/ Walk(r, us, more) \/ Want(r, us, more)

Next ==
    \/ \E r \in Readers : Enter(r) \/ Answer(r) \/ Fail(r) \/ \E n \in 1 .. MaxPage : Ask(r, n)
    \/ Forget

---------------------------------------------------------------------------
(* Correctness *)

\* Every form leads on from pages that are remembered, also where page 1 was
\* fetched anew while a walk was under way: no walk skips a page, and what a
\* page is compared with is all of the pages before it.
FormsFollowPages ==
    \A st \in {pages, hand} : \A n \in st.forms : 1 .. n - 1 \subseteq DOMAIN st.urls

\* Whoever reads on page after page is never given a result again (ddg.py:317)
\* though DuckDuckGo ranks anew, whatever others read meanwhile, as long as
\* nobody fetched anew one of the pages it has read: a walk that was overtaken
\* by a fresh page 1 leaves the fresh state alone.
NothingGivenTwice == ~twice

=============================================================================
