---------------------------- MODULE SearchProviders ----------------------------
(***************************************************************************)
(* Web search: search() of src/src/fetchaller/search/__init__.py asks      *)
(* Google, DuckDuckGo and Brave, one after the other while they fail or    *)
(* all at once, each in a task of its own that a timeout or the caller's   *)
(* cancellation detaches.  A provider (google.py, ddg.py, brave.py) sends  *)
(* one request at a time, under a lock, and none while it is backing off.  *)
(* Time is not counted: a backoff, a cooldown and a TTL end at any moment. *)
(***************************************************************************)
EXTENDS Naturals, Sequences, FiniteSets

CONSTANTS
    Searches, NoSearch,
    Detached,       \* the holder of a lock whose search was cancelled
    Mode,           \* the provider asked for by each search, or "all"
    Page,           \* the page asked for by each search
    Documents, NoDocument,  \* the pool of Google document IDs
    Budget,         \* _REQUEST_BUDGET
    MaxDdgPage,     \* MAX_DDG_PAGE
    MaxWalk,        \* bound: DuckDuckGo exchanges of one search
    MaxCursors,     \* _MAX_CURSORS
    MaxCache        \* _CACHE_MAX_SIZE

Providers == {"google", "ddg", "brave"}

ASSUME SearchAssumption ==
    /\ NoSearch \notin Searches /\ Detached \notin Searches /\ NoSearch # Detached
    /\ Mode \in [Searches -> Providers \cup {"all"}]
    /\ Page \in [Searches -> Nat \ {0}]
    /\ NoDocument \notin Documents
    /\ {Budget, MaxDdgPage, MaxWalk, MaxCursors, MaxCache} \subseteq Nat \ {0}

VARIABLES
    phase,      \* each search: "idle", waiting for providers, or its last outcome
    task,       \* the provider tasks of each search
    result,     \* outcomes: what each provider came to, "none" while not known
    holder,     \* who holds the lock of each provider
    adrift,     \* Brave requests in flight whose search was cancelled
    backoff,    \* the providers whose _backoff_until is ahead
    told,       \* history: the providers that asked for a backoff still running
    cold,       \* _document_unavailable: the documents in cooldown
    cursors,    \* _cursors, oldest first: pages, and whether it says "no more"
    cache       \* _cache, oldest first: the searches answered from it

vars == <<phase, task, result, holder, adrift, backoff, told, cold, cursors, cache>>

\* Where a provider task is: at the lock, pacing itself under the lock, with
\* its request sent, or waiting for the parser process.
Places == {"none", "lock", "pace", "sent", "parse"}
Task == [at : Places, try : Nat,
         doc : Documents \cup {NoDocument},  \* Google: the document in use,
         healthy : SUBSET Documents]         \* and those to fall back on
NoTask == [at |-> "none", try |-> 0, doc |-> NoDocument, healthy |-> {}]

\* The lock is held while pacing and sending; Google keeps it while parsing.
Holds(s, p) == task[s][p].at \in {"pace", "sent"} \cup (IF p = "google" THEN {"parse"} ELSE {})

TypeOK ==
    /\ phase \in [Searches -> {"idle", "asking", "answered", "left"}]
    /\ task \in [Searches -> [Providers -> Task]]
    /\ result \in [Searches -> [Providers -> {"none", "hit", "empty", "error"}]]
    /\ holder \in [Providers -> Searches \cup {NoSearch, Detached}]
    /\ \A s \in Searches, p \in Providers : Holds(s, p) <=> holder[p] = s
    /\ adrift \in Nat /\ (adrift > 0 <=> holder["brave"] = Detached)
    /\ backoff \subseteq Providers /\ told \subseteq Providers
    /\ cold \subseteq Documents
    /\ cursors \in Seq([key : Nat, last : BOOLEAN]) /\ Len(cursors) <= MaxCursors
    /\ cache \in Seq([key : Searches]) /\ Len(cache) <= MaxCache

Nothing == [p \in Providers |-> "none"]

Init ==
    /\ phase = [s \in Searches |-> "idle"]
    /\ task = [s \in Searches |-> [p \in Providers |-> NoTask]]
    /\ result = [s \in Searches |-> Nothing]
    /\ holder = [p \in Providers |-> NoSearch]
    /\ adrift = 0
    /\ backoff = {} /\ told = {}
    /\ cold = {}
    /\ cursors = <<>>
    /\ cache = <<>>

---------------------------------------------------------------------------
(* Bounded pools, oldest entry first *)

\* A key has one entry at most, the one that an assignment replaces.
Without(pool, k) ==
    IF \A i \in 1 .. Len(pool) : pool[i].key # k THEN pool
    ELSE LET i == CHOOSE i \in 1 .. Len(pool) : pool[i].key = k
         IN  SubSeq(pool, 1, i - 1) \o SubSeq(pool, i + 1, Len(pool))

\* An insertion at capacity drops the oldest entry, whatever it replaces.
InsertedMutant(pool, e, cap) == Append(Without(pool, e.key), e)
Inserted(pool, e, cap) ==
    Append(Without(IF Len(pool) >= cap THEN Tail(pool) ELSE pool, e.key), e)

\* The TTL has taken the oldest entries, or none.
Expires(pool) == {SubSeq(pool, k, Len(pool)) : k \in 1 .. Len(pool) + 1}

---------------------------------------------------------------------------
(* search() *)

Asked(s) == {p \in Providers : task[s][p].at # "none" \/ result[s][p] # "none"}

Skipped(s, p) == p = "ddg" /\ Page[s] > MaxDdgPage

\* Tasks for the providers ps; DuckDuckGo's pages beyond the last are errors.
Asking(s, ps, outcome) ==
    /\ task' = [task EXCEPT ![s] = [p \in Providers |->
                   IF p \in ps /\ ~Skipped(s, p) THEN [NoTask EXCEPT !.at = "lock"] ELSE @[p]]]
    /\ result' = [result EXCEPT ![s] = [p \in Providers |->
                   IF p \in ps /\ Skipped(s, p) THEN "error" ELSE outcome[p]]]

\* A search with these parameters begins, unless the cache answers it.
Search(s) ==
    /\ phase[s] # "asking"
    /\ ~(Mode[s] = "ddg" /\ Page[s] > MaxDdgPage)
    /\ cache' \in Expires(cache)
    /\ IF \E i \in DOMAIN cache' : cache'[i].key = s
       THEN phase' = [phase EXCEPT ![s] = "answered"] /\ UNCHANGED <<task, result>>
       ELSE /\ phase' = [phase EXCEPT ![s] = "asking"]
            /\ Asking(s, IF Mode[s] = "all" THEN Providers ELSE {Mode[s]}, Nothing)
    /\ UNCHANGED <<holder, adrift, backoff, told, cold, cursors>>

\* The provider that Google's failure, and then DuckDuckGo's, leads to.
FallbackMutant(s) ==
    IF Mode[s] # "google" \/ result[s]["google"] = "hit" THEN {}
    ELSE IF "ddg" \notin Asked(s) THEN {"ddg"}
    ELSE IF "brave" \notin Asked(s) /\ result[s]["ddg"] # "hit" THEN {"brave"} ELSE {}
Fallback(s) ==
    IF Mode[s] # "google" \/ result[s]["google"] # "error" THEN {}
    ELSE IF "ddg" \notin Asked(s) THEN {"ddg"}
    ELSE IF "brave" \notin Asked(s) /\ result[s]["ddg"] = "error" THEN {"brave"} ELSE {}

\* The providers asked so far have come to something: fall back or answer, and
\* cache an answer with results to which no provider failed.
Conclude(s) ==
    /\ phase[s] = "asking"
    /\ \A p \in Asked(s) : result[s][p] # "none"
    /\ IF Fallback(s) # {}
       THEN Asking(s, Fallback(s), result[s]) /\ UNCHANGED <<phase, cache>>
       ELSE /\ phase' = [phase EXCEPT ![s] = "answered"]
            /\ cache' = IF /\ \E p \in Providers : result[s][p] = "hit"
                           /\ \A p \in Providers : result[s][p] # "error"
                        THEN Inserted(cache, [key |-> s], MaxCache)
                        ELSE cache
            /\ UNCHANGED <<task, result>>
    /\ UNCHANGED <<holder, adrift, backoff, told, cold, cursors>>

\* Cancellation of the tasks of s at ps: a lock is released, except that Brave
\* keeps it while its request is in flight.
CancellingMutant(s, ps) ==
    /\ task' = [task EXCEPT ![s] = [p \in Providers |-> IF p \in ps THEN NoTask ELSE @[p]]]
    /\ holder' = [p \in Providers |-> IF p \in ps /\ holder[p] = s THEN NoSearch ELSE holder[p]]
    /\ adrift' = adrift + (IF "brave" \in ps /\ task[s]["brave"].at = "sent" THEN 1 ELSE 0)
Cancelling(s, ps) ==
    /\ task' = [task EXCEPT ![s] = [p \in Providers |-> IF p \in ps THEN NoTask ELSE @[p]]]
    /\ holder' = [p \in Providers |->
                     IF p \in ps /\ holder[p] = s
                     THEN IF p = "brave" /\ task[s][p].at = "sent" THEN Detached ELSE NoSearch
                     ELSE holder[p]]
    /\ adrift' = adrift + (IF "brave" \in ps /\ task[s]["brave"].at = "sent" THEN 1 ELSE 0)

\* The time allowed covers the queue at the lock, not only the request.
TimeoutAtSend(s, p) ==
    /\ task[s][p].at = "sent"
    /\ Cancelling(s, {p})
    /\ result' = [result EXCEPT ![s][p] = "error"]
    /\ UNCHANGED <<phase, backoff, told, cold, cursors, cache>>
\* _run_engine runs out of time: the task is detached, the provider failed.
TimeoutMutant(s, p) ==
    /\ task[s][p].at # "none"
    /\ result' = [result EXCEPT ![s][p] = "error"]
    /\ UNCHANGED <<phase, task, holder, adrift, backoff, told, cold, cursors, cache>>
Timeout(s, p) ==
    /\ task[s][p].at # "none"
    /\ Cancelling(s, {p})
    /\ result' = [result EXCEPT ![s][p] = "error"]
    /\ UNCHANGED <<phase, backoff, told, cold, cursors, cache>>

\* The caller goes: all its tasks are detached.
Leave(s) ==
    /\ phase[s] = "asking"
    /\ phase' = [phase EXCEPT ![s] = "left"]
    /\ Cancelling(s, Providers)
    /\ result' = [result EXCEPT ![s] = Nothing]
    /\ UNCHANGED <<backoff, told, cold, cursors, cache>>

---------------------------------------------------------------------------
(* A provider task *)

Go(s, p, t) == task' = [task EXCEPT ![s][p] = t]

\* The task comes to r and lets go of the lock it has.
Settle(s, p, r) ==
    /\ Go(s, p, NoTask)
    /\ result' = [result EXCEPT ![s][p] = r]
    /\ holder' = [holder EXCEPT ![p] = IF @ = s THEN NoSearch ELSE @]

\* The lock is taken.  In a backoff the provider fails at once.
BackedOff(s, p) ==
    /\ task[s][p].at = "lock" /\ holder[p] = NoSearch
    /\ p \in backoff
    /\ Settle(s, p, "error")
    /\ UNCHANGED <<phase, adrift, backoff, told, cold, cursors, cache>>

Enter(s, p) ==
    /\ task[s][p].at = "lock" /\ holder[p] = NoSearch
    /\ p \in {"ddg", "brave"} \ backoff
    /\ Go(s, p, [task[s][p] EXCEPT !.at = "pace", !.try = @ + 1])
    /\ holder' = [holder EXCEPT ![p] = s]
    /\ UNCHANGED <<phase, result, adrift, backoff, told, cold, cursors, cache>>

\* Google also chooses a document that is not cooling down; there may be none,
\* or the previous page was the last.
EnterGoogle(s) ==
    /\ task[s]["google"].at = "lock" /\ holder["google"] = NoSearch
    /\ "google" \notin backoff
    /\ cursors' \in IF cold = Documents THEN {cursors} ELSE Expires(cursors)
    /\ IF cold = Documents THEN Settle(s, "google", "error")
       ELSE IF \E i \in DOMAIN cursors' : cursors'[i] = [key |-> Page[s], last |-> TRUE]
       THEN Settle(s, "google", "empty")
       ELSE /\ \E d \in Documents \ cold :
                   Go(s, "google", [at |-> "pace", try |-> 1, doc |-> d,
                                    healthy |-> (Documents \ cold) \ {d}])
            /\ holder' = [holder EXCEPT !["google"] = s]
            /\ UNCHANGED result
    /\ UNCHANGED <<phase, adrift, backoff, told, cold, cache>>

\* The limiter lets it pass; the request is sent.
Send(s, p) ==
    /\ task[s][p].at = "pace"
    /\ Go(s, p, [task[s][p] EXCEPT !.at = "sent"])
    /\ UNCHANGED <<phase, result, holder, adrift, backoff, told, cold, cursors, cache>>

\* 403, 429, a challenge (Google: 429): the provider backs off.
Blocked(s, p) ==
    /\ task[s][p].at = "sent"
    /\ backoff' = backoff \cup {p}
    /\ told' = told \cup {p}
    /\ Settle(s, p, "error")
    /\ UNCHANGED <<phase, adrift, cold, cursors, cache>>

\* Any other failure.  Google tries again once after a transient one.
Failed(s, p) ==
    /\ task[s][p].at = "sent"
    /\ \/ Settle(s, p, "error")
       \/ /\ p = "google" /\ task[s][p].try = 1 /\ Budget > 1
          /\ Go(s, p, [task[s][p] EXCEPT !.at = "pace", !.try = 2])
          /\ UNCHANGED <<result, holder>>
    /\ UNCHANGED <<phase, adrift, backoff, told, cold, cursors, cache>>

\* Google's document is gone: it cools down, and another that was healthy on
\* entry takes its place while the budget lasts.
DocumentGoneMutant(s) ==
    LET t == task[s]["google"]
    IN  /\ t.at = "sent"
        /\ cold' = cold \cup {t.doc}
        /\ Go(s, "google", [t EXCEPT !.at = "pace", !.try = @ + 1])
        /\ UNCHANGED <<phase, result, holder, adrift, backoff, told, cursors, cache>>
DocumentGone(s) ==
    LET t == task[s]["google"]
    IN  /\ t.at = "sent"
        /\ cold' = cold \cup {t.doc}
        /\ IF t.try < Budget /\ t.healthy # {}
           THEN /\ \E d \in t.healthy :
                       Go(s, "google", [at |-> "pace", try |-> t.try + 1, doc |-> d,
                                        healthy |-> t.healthy \ {d}])
                /\ UNCHANGED <<result, holder>>
           ELSE Settle(s, "google", "error")
        /\ UNCHANGED <<phase, adrift, backoff, told, cursors, cache>>

\* 200: parse it, without the lock but for Google.
Received(s, p) ==
    /\ task[s][p].at = "sent"
    /\ Go(s, p, [task[s][p] EXCEPT !.at = "parse"])
    /\ holder' = [holder EXCEPT ![p] = IF p = "google" THEN s ELSE NoSearch]
    /\ UNCHANGED <<phase, result, adrift, backoff, told, cold, cursors, cache>>

\* Parsed: results, an honest zero, or nothing it knows.
Parsed(s, p) ==
    /\ task[s][p].at = "parse"
    /\ p # "google"
    /\ \E r \in {"hit", "empty", "error"} : Settle(s, p, r)
    /\ UNCHANGED <<phase, adrift, backoff, told, cold, cursors, cache>>

\* DuckDuckGo asks again: an empty page 1, or the next page of its walk.
AskAgain(s) ==
    /\ task[s]["ddg"].at = "parse" /\ task[s]["ddg"].try < MaxWalk
    /\ Go(s, "ddg", [task[s]["ddg"] EXCEPT !.at = "lock"])
    /\ UNCHANGED <<phase, result, holder, adrift, backoff, told, cold, cursors, cache>>

ParsedGoogle(s) ==
    LET t == task[s]["google"]
    IN  /\ t.at = "parse"
        /\ \/ Settle(s, "google", "error") /\ UNCHANGED <<cold, cursors>>
           \/ /\ \E r \in {"hit", "empty"} : Settle(s, "google", r)
              /\ cold' = cold \ {t.doc}
              /\ \E last \in BOOLEAN : cursors' =
                     Inserted(cursors, [key |-> Page[s] + 1, last |-> last], MaxCursors)
        /\ UNCHANGED <<phase, adrift, backoff, told, cache>>

\* Brave's exchange ends after its search was cancelled: a block still counts.
DetachedEndsMutant ==
    /\ adrift > 0 /\ adrift' = adrift - 1
    /\ \/ UNCHANGED <<backoff, told>>
       \/ told' = told \cup {"brave"} /\ UNCHANGED backoff
    /\ holder' = [holder EXCEPT !["brave"] = IF @ = Detached THEN NoSearch ELSE @]
    /\ UNCHANGED <<phase, task, result, cold, cursors, cache>>
DetachedEnds ==
    /\ adrift > 0 /\ adrift' = adrift - 1
    /\ \/ UNCHANGED <<backoff, told>>
       \/ backoff' = backoff \cup {"brave"} /\ told' = told \cup {"brave"}
    /\ holder' = [holder EXCEPT !["brave"] = IF @ = Detached THEN NoSearch ELSE @]
    /\ UNCHANGED <<phase, task, result, cold, cursors, cache>>

\* Time passes: a backoff or a cooldown ends.
BackoffEnds(p) ==
    /\ p \in backoff
    /\ backoff' = backoff \ {p} /\ told' = told \ {p}
    /\ UNCHANGED <<phase, task, result, holder, adrift, cold, cursors, cache>>

Thaw(d) ==
    /\ d \in cold
    /\ cold' = cold \ {d}
    /\ UNCHANGED <<phase, task, result, holder, adrift, backoff, told, cursors, cache>>

Advance(s, p) ==
    \/ BackedOff(s, p) \/ Enter(s, p) \/ Send(s, p)
    \/ Blocked(s, p) \/ Failed(s, p) \/ Received(s, p) \/ Parsed(s, p)
    \/ p = "google" /\ (EnterGoogle(s) \/ DocumentGone(s) \/ ParsedGoogle(s))
    \/ p = "ddg" /\ AskAgain(s)

Next ==
    \/ \E s \in Searches :
           \/ Search(s) \/ Conclude(s) \/ Leave(s)
           \/ \E p \in Providers : Advance(s, p) \/ Timeout(s, p)
    \/ DetachedEnds
    \/ \E p \in Providers : BackoffEnds(p)
    \/ \E d \in Documents : Thaw(d)

Spec == Init /\ [][Next]_vars

\* The engine's timeouts expire, and what has ended is concluded.
FairSpec ==
    /\ Spec
    /\ \A s \in Searches : WF_vars(Conclude(s))
    /\ \A s \in Searches, p \in Providers : WF_vars(Timeout(s, p))

---------------------------------------------------------------------------
(* Correctness *)

\* A provider has one request of ours at a time, a detached one included.
OneRequestPerProvider ==
    \A p \in Providers :
        LET sent == {s \in Searches : task[s][p].at = "sent"}
        IN  Cardinality(sent) + (IF p = "brave" THEN adrift ELSE 0) <= 1

Sends(s, p) == task[s][p].at # "sent" /\ task'[s][p].at = "sent"

\* Nothing is sent to a provider that has asked us to wait, though the search
\* that was told has been cancelled since it sent its request.
BackoffRespected ==
    [][\A s \in Searches, p \in Providers : Sends(s, p) => p \notin told]_vars

\* Nothing is sent for a caller that has left or was given another outcome.
NothingSentInVain ==
    [][\A s \in Searches, p \in Providers :
           Sends(s, p) => phase[s] = "asking" /\ result[s][p] = "none"]_vars

\* With "google", another provider is asked only after those before it failed,
\* and an honest zero ends the search.
FallbackOnlyOnFailure ==
    [][\A s \in Searches : Mode[s] = "google" =>
           /\ Sends(s, "ddg") => result[s]["google"] = "error"
           /\ Sends(s, "brave") => result[s]["google"] = "error" /\ result[s]["ddg"] = "error"]_vars

\* Google gets no request with a document that is cooling down.
NoColdDocument ==
    \A s \in Searches : task[s]["google"].at \in {"pace", "sent"} => task[s]["google"].doc \notin cold

\* Every search ends, whatever its providers do and whoever holds their locks.
EverySearchEnds == \A s \in Searches : []<>(phase[s] # "asking")

=============================================================================
