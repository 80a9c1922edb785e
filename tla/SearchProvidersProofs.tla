------------------------- MODULE SearchProvidersProofs -------------------------
(***************************************************************************)
(* Theorems about web search, for any number of searches, providers'       *)
(* documents and bounds: a provider has one request of ours at a time and  *)
(* none while it asked us to wait, none is sent in vain, and the fallback  *)
(* follows failures alone.                                                 *)
(***************************************************************************)
EXTENDS SearchProviders, FiniteSetTheorems, TLAPS

\* The types of all but the two pools, on which nothing below depends.
Typed ==
    /\ phase \in [Searches -> {"idle", "asking", "answered", "left"}]
    /\ task \in [Searches -> [Providers -> Task]]
    /\ result \in [Searches -> [Providers -> {"none", "hit", "empty", "error"}]]
    /\ holder \in [Providers -> Searches \cup {NoSearch, Detached}]
    /\ adrift \in {0, 1}
    /\ backoff \subseteq Providers /\ told \subseteq backoff
    /\ cold \subseteq Documents

\* Only Brave's lock is kept for a request that was cancelled.
AdriftOK ==
    /\ adrift = 1 <=> holder["brave"] = Detached
    /\ holder["google"] # Detached /\ holder["ddg"] # Detached

\* A task runs for a search that waits for it, and who holds a lock was let
\* in when no backoff was running.
TaskOK(s, p) ==
    /\ Holds(s, p) <=> holder[p] = s
    /\ task[s][p].at # "none" => phase[s] = "asking" /\ result[s][p] = "none"
    /\ task[s][p].at \in {"pace", "sent"} => p \notin told

\* Nobody but the holder of Google's lock makes a document cold.
DocumentOK(s) ==
    task[s]["google"].at \in {"pace", "sent"} =>
        /\ task[s]["google"].doc \in Documents \ (cold \cup task[s]["google"].healthy)
        /\ task[s]["google"].healthy \cap cold = {}

\* A fallback follows a failure that stays known.
FallbackOK(s) ==
    Mode[s] = "google" =>
        /\ task[s]["ddg"].at # "none" \/ result[s]["ddg"] # "none" => result[s]["google"] = "error"
        /\ task[s]["brave"].at # "none" => result[s]["google"] = "error" /\ result[s]["ddg"] = "error"

SearchOK(s) == (\A p \in Providers : TaskOK(s, p)) /\ DocumentOK(s) /\ FallbackOK(s)

Inv == Typed /\ AdriftOK /\ \A s \in Searches : SearchOK(s)

LEMMA Joined ==
    ASSUME NEW E, NEW s \in Seq(E), NEW t \in Seq(E)
    PROVE  s \o t \in Seq(E) /\ Len(s \o t) = Len(s) + Len(t)
<1>1. s \o t \in Seq(E)
    OBVIOUS
<1>2. Len(s \o t) = Len(s) + Len(t)
    OBVIOUS
<1> QED BY <1>1, <1>2

USE SearchAssumption DEF Providers, Holds, Go

LEMMA NoTaskFact == NoTask \in Task /\ NoTask.at = "none"
BY DEF NoTask, Task, Places

---------------------------------------------------------------------------
(* A task settles *)

\* Two searches do not hold one lock.
LEMMA OneHolder ==
    ASSUME Inv, NEW s \in Searches, NEW p \in Providers, holder[p] = s
    PROVE  \A q \in Searches : q # s => ~Holds(q, p)
BY DEF Inv, SearchOK, TaskOK

\* A task that settles leaves the invariant as it found it.
LEMMA Settled ==
    ASSUME Inv, NEW s \in Searches, NEW p \in Providers, NEW o \in {"hit", "empty", "error"},
           task[s][p].at # "none", Settle(s, p, o),
           phase' = phase, adrift' = adrift,
           backoff' \subseteq Providers, told' \subseteq backoff',
           told' = told \/ (holder[p] = s /\ told' = told \cup {p}),
           cold' \subseteq cold
           \/ (p = "google" /\ holder[p] = s /\ cold' \subseteq Documents)
    PROVE  Inv'
<1>1. NoTask \in Task /\ NoTask.at = "none"
    BY NoTaskFact
<1>2. /\ task' \in [Searches -> [Providers -> Task]]
      /\ task'[s][p].at = "none"
      /\ \A q \in Searches, r \in Providers : q # s \/ r # p => task'[q][r] = task[q][r]
    BY <1>1 DEF Settle, Inv, Typed
<1>3. /\ result' \in [Searches -> [Providers -> {"none", "hit", "empty", "error"}]]
      /\ result'[s][p] = o
      /\ \A q \in Searches, r \in Providers : q # s \/ r # p => result'[q][r] = result[q][r]
    BY DEF Settle, Inv, Typed
<1>4. /\ holder' \in [Providers -> Searches \cup {NoSearch, Detached}]
      /\ holder'[p] = IF holder[p] = s THEN NoSearch ELSE holder[p]
      /\ \A r \in Providers : r # p => holder'[r] = holder[r]
    BY DEF Settle, Inv, Typed
<1>5. Typed' /\ AdriftOK'
    BY <1>2, <1>3, <1>4 DEF Inv, Typed, AdriftOK
<1>6. ASSUME NEW q \in Searches, NEW r \in Providers PROVE TaskOK(q, r)'
    <2>1. TaskOK(q, r) /\ TaskOK(s, p)
        BY DEF Inv, SearchOK
    <2>2. CASE r = p /\ q = s
        BY <2>1, <2>2, <1>2, <1>3, <1>4 DEF TaskOK, Inv, Typed
    <2>3. CASE r = p /\ q # s
        BY <2>1, <2>3, <1>2, <1>3, <1>4, OneHolder DEF TaskOK
    <2>4. CASE r # p
        BY <2>1, <2>4, <1>2, <1>3, <1>4 DEF TaskOK
    <2> QED BY <2>2, <2>3, <2>4
<1>7. ASSUME NEW q \in Searches PROVE DocumentOK(q)'
    <2>1. DocumentOK(q)
        BY DEF Inv, SearchOK
    <2>2. CASE q = s /\ p = "google"
        BY <2>2, <1>2 DEF DocumentOK
    <2>3. CASE q = s /\ p # "google"
        BY <2>1, <2>3, <1>2 DEF DocumentOK
    <2>4. CASE q # s
        BY <2>1, <2>4, <1>2, OneHolder DEF DocumentOK
    <2> QED BY <2>2, <2>3, <2>4
<1>8. ASSUME NEW q \in Searches PROVE FallbackOK(q)'
    <2>1. FallbackOK(q) /\ TaskOK(q, "google") /\ TaskOK(q, "ddg") /\ TaskOK(q, "brave")
        BY DEF Inv, SearchOK
    <2>2. CASE q # s
        BY <2>1, <2>2, <1>2, <1>3 DEF FallbackOK
    <2>3. CASE q = s /\ p = "google"
        BY <2>1, <2>3, <1>2, <1>3 DEF TaskOK, FallbackOK
    <2>4. CASE q = s /\ p = "ddg"
        BY <2>1, <2>4, <1>2, <1>3 DEF TaskOK, FallbackOK
    <2>5. CASE q = s /\ p = "brave"
        BY <2>1, <2>5, <1>2, <1>3 DEF TaskOK, FallbackOK
    <2> QED BY <2>2, <2>3, <2>4, <2>5
<1> QED BY <1>5, <1>6, <1>7, <1>8 DEF Inv, SearchOK

---------------------------------------------------------------------------
(* A task goes on *)

\* The task of s at p becomes t, and the lock of p goes to h.
Goes(s, p, t, h) ==
    /\ task' \in [Searches -> [Providers -> Task]]
    /\ task'[s][p] = t
    /\ \A q \in Searches, r \in Providers : q # s \/ r # p => task'[q][r] = task[q][r]
    /\ holder' \in [Providers -> Searches \cup {NoSearch, Detached}]
    /\ holder'[p] = h
    /\ \A r \in Providers : r # p => holder'[r] = holder[r]

LEMMA GoesOn ==
    ASSUME Inv, NEW s \in Searches, NEW p \in Providers, NEW t, NEW h,
           task[s][p].at # "none", t.at # "none", Goes(s, p, t, h),
           h = holder[p] \/ {h, holder[p]} \subseteq {s, NoSearch},
           t.at \in {"pace", "sent"} \cup (IF p = "google" THEN {"parse"} ELSE {}) <=> h = s,
           t.at \in {"pace", "sent"} => p \notin told,
           cold' = cold \/ (p = "google" /\ holder[p] = s /\ cold' \subseteq Documents),
           p = "google" /\ t.at \in {"pace", "sent"} =>
               t.doc \in Documents \ (cold' \cup t.healthy) /\ t.healthy \cap cold' = {},
           UNCHANGED <<phase, result, adrift, backoff, told>>
    PROVE  Inv'
<1>1. Typed' /\ AdriftOK'
    BY DEF Inv, Typed, AdriftOK, Goes
<1>2. holder[p] \in {s, NoSearch} => \A q \in Searches : q # s => ~Holds(q, p)
    BY DEF Inv, SearchOK, TaskOK
<1>3. ASSUME NEW q \in Searches, NEW r \in Providers PROVE TaskOK(q, r)'
    <2>1. TaskOK(q, r) /\ TaskOK(s, p)
        BY DEF Inv, SearchOK
    <2>2. CASE r = p /\ q = s
        BY <2>1, <2>2 DEF TaskOK, Goes
    <2>3. CASE r = p /\ q # s
        BY <2>1, <2>3, <1>2 DEF TaskOK, Goes
    <2>4. CASE r # p
        BY <2>1, <2>4 DEF TaskOK, Goes
    <2> QED BY <2>2, <2>3, <2>4
<1>4. ASSUME NEW q \in Searches PROVE DocumentOK(q)'
    <2>1. DocumentOK(q)
        BY DEF Inv, SearchOK
    <2>2. CASE q = s /\ p = "google"
        BY <2>2 DEF DocumentOK, Goes
    <2>3. CASE q = s /\ p # "google"
        BY <2>1, <2>3 DEF DocumentOK, Goes
    <2>4. CASE q # s
        BY <2>1, <2>4, <1>2 DEF DocumentOK, Goes
    <2> QED BY <2>2, <2>3, <2>4
<1>5. ASSUME NEW q \in Searches PROVE FallbackOK(q)'
    BY DEF Inv, SearchOK, FallbackOK, Goes
<1> QED BY <1>1, <1>3, <1>4, <1>5 DEF Inv, SearchOK

\* How a step that makes the task t and gives the lock to h is one of those.
LEMMA GoesBy ==
    ASSUME Inv, NEW s \in Searches, NEW p \in Providers, NEW t \in Task,
           NEW h \in Searches \cup {NoSearch, Detached},
           Go(s, p, t), holder' = [holder EXCEPT ![p] = h]
    PROVE  Goes(s, p, t, h)
<1> HIDE DEF Providers
<1> QED BY DEF Goes, Inv, Typed, Go

LEMMA TaskType ==
    ASSUME Inv, NEW s \in Searches, NEW p \in Providers
    PROVE  task[s][p] \in Task /\ task[s][p].try \in Nat
<1> HIDE DEF Providers
<1> QED BY DEF Inv, Typed, Task

LEMMA Moved ==
    ASSUME NEW u \in Task, NEW at \in Places
    PROVE  LET t == [u EXCEPT !.at = at]
           IN  t \in Task /\ t.at = at /\ t.doc = u.doc /\ t.healthy = u.healthy
BY DEF Task

\* DuckDuckGo and Brave are entered when no backoff runs.
LEMMA EnterStep ==
    ASSUME Inv, NEW s \in Searches, NEW p \in Providers, Enter(s, p)
    PROVE  Inv'
<1> DEFINE u == task[s][p]
           t == [u EXCEPT !.at = "pace", !.try = u.try + 1]
<1>1. t \in Task /\ t.at = "pace"
    <2>1. u \in Task /\ u.try + 1 \in Nat
        BY TaskType
    <2> HIDE DEF u
    <2> QED BY <2>1 DEF Task, Places
<1>2. /\ Go(s, p, t) /\ holder' = [holder EXCEPT ![p] = s]
      /\ p # "google" /\ p \notin told /\ task[s][p].at = "lock" /\ holder[p] = NoSearch
      /\ UNCHANGED <<phase, result, adrift, backoff, told, cold>>
    BY DEF Enter, Inv, Typed
<1> HIDE DEF t, Go
<1>3. Goes(s, p, t, s)
    BY <1>1, <1>2, GoesBy
<1> QED BY <1>1, <1>2, <1>3, GoesOn

\* Google's document on entry is not cold, and no other it may turn to is.
LEMMA EnterGoogleStep ==
    ASSUME Inv, NEW s \in Searches, EnterGoogle(s)
    PROVE  Inv'
<1>1. CASE \E o \in {"empty", "error"} : Settle(s, "google", o)
    <2>1. /\ task[s]["google"].at = "lock"
          /\ UNCHANGED <<phase, adrift, backoff, told, cold>>
          /\ backoff' \subseteq Providers /\ told' \subseteq backoff'
        BY DEF EnterGoogle, Inv, Typed
    <2> QED BY <1>1, <2>1, Settled
<1>2. ASSUME NEW d \in Documents \ cold,
             Go(s, "google", [at |-> "pace", try |-> 1, doc |-> d, healthy |-> (Documents \ cold) \ {d}]),
             holder' = [holder EXCEPT !["google"] = s], UNCHANGED result
      PROVE  Inv'
    <2> DEFINE t == [at |-> "pace", try |-> 1, doc |-> d, healthy |-> (Documents \ cold) \ {d}]
    <2>1. t \in Task /\ t.at = "pace" /\ t.doc = d /\ t.healthy = (Documents \ cold) \ {d}
        BY DEF Task, Places
    <2>2. /\ task[s]["google"].at = "lock" /\ holder["google"] = NoSearch
          /\ "google" \notin told
          /\ UNCHANGED <<phase, result, adrift, backoff, told, cold>>
        BY <1>2 DEF EnterGoogle, Inv, Typed
    <2>3. Go(s, "google", t)
        BY <1>2
    <2> HIDE DEF t, Go
    <2>4. Goes(s, "google", t, s)
        BY <2>1, <2>3, <1>2, GoesBy
    <2> QED BY <2>1, <2>2, <2>4, GoesOn
<1> HIDE DEF Go
<1> QED BY <1>1, <1>2 DEF EnterGoogle

LEMMA SendStep ==
    ASSUME Inv, NEW s \in Searches, NEW p \in Providers, Send(s, p)
    PROVE  Inv'
<1> DEFINE t == [task[s][p] EXCEPT !.at = "sent"]
<1>1. t \in Task /\ t.at = "sent" /\ t.doc = task[s][p].doc /\ t.healthy = task[s][p].healthy
    <2>1. "sent" \in Places
        BY DEF Places
    <2> QED BY <2>1, TaskType, Moved
<1>2. /\ Go(s, p, t) /\ UNCHANGED holder /\ task[s][p].at = "pace"
      /\ UNCHANGED <<phase, result, adrift, backoff, told, cold>>
    BY DEF Send
<1>3. holder[p] = s /\ p \notin told /\ DocumentOK(s)
    BY <1>2 DEF Inv, SearchOK, TaskOK
<1>4. holder' = [holder EXCEPT ![p] = s]
    BY <1>2, <1>3 DEF Inv, Typed
<1> HIDE DEF t, Go
<1>5. Goes(s, p, t, s)
    BY <1>1, <1>2, <1>4, GoesBy
<1> QED BY <1>1, <1>2, <1>3, <1>5, GoesOn DEF DocumentOK

\* A block is told to the holder of the lock, who leaves it.
LEMMA BlockedStep ==
    ASSUME Inv, NEW s \in Searches, NEW p \in Providers, Blocked(s, p)
    PROVE  Inv'
<1>1. /\ task[s][p].at = "sent" /\ Settle(s, p, "error")
      /\ backoff' = backoff \cup {p} /\ told' = told \cup {p}
      /\ UNCHANGED <<phase, adrift, cold>>
    BY DEF Blocked
<1>2. holder[p] = s
    BY <1>1 DEF Inv, SearchOK, TaskOK
<1>3. backoff' \subseteq Providers /\ told' \subseteq backoff'
    BY <1>1 DEF Inv, Typed
<1> QED BY <1>1, <1>2, <1>3, Settled

LEMMA FailedStep ==
    ASSUME Inv, NEW s \in Searches, NEW p \in Providers, Failed(s, p)
    PROVE  Inv'
<1>1. CASE Settle(s, p, "error")
    BY <1>1, Settled DEF Failed, Inv, Typed
<1>2. CASE /\ Go(s, p, [task[s][p] EXCEPT !.at = "pace", !.try = 2])
           /\ UNCHANGED <<result, holder>>
    <2> DEFINE u == task[s][p]
               t == [u EXCEPT !.at = "pace", !.try = 2]
    <2>1. t \in Task /\ t.at = "pace" /\ t.doc = u.doc /\ t.healthy = u.healthy
        <3>1. u \in Task
            BY TaskType
        <3> HIDE DEF u
        <3> QED BY <3>1 DEF Task, Places
    <2>2. /\ Go(s, p, t) /\ UNCHANGED holder /\ task[s][p].at = "sent"
          /\ UNCHANGED <<phase, result, adrift, backoff, told, cold>>
        BY <1>2 DEF Failed
    <2>3. holder[p] = s /\ p \notin told /\ DocumentOK(s)
        BY <2>2 DEF Inv, SearchOK, TaskOK
    <2>4. holder' = [holder EXCEPT ![p] = s]
        BY <2>2, <2>3 DEF Inv, Typed
    <2> HIDE DEF t, Go
    <2>5. Goes(s, p, t, s)
        BY <2>1, <2>2, <2>4, GoesBy
    <2> QED BY <2>1, <2>2, <2>3, <2>5, GoesOn DEF DocumentOK
<1> HIDE DEF Go
<1> QED BY <1>1, <1>2 DEF Failed

\* The document that is gone is the holder's, who goes on with another.
LEMMA DocumentGoneStep ==
    ASSUME Inv, NEW s \in Searches, DocumentGone(s)
    PROVE  Inv'
<1> DEFINE u == task[s]["google"]
<1>1. /\ u.at = "sent" /\ cold' = cold \cup {u.doc}
      /\ UNCHANGED <<phase, adrift, backoff, told>>
      /\ backoff' \subseteq Providers /\ told' \subseteq backoff'
    BY DEF DocumentGone, Inv, Typed
<1>2. holder["google"] = s /\ "google" \notin told /\ DocumentOK(s)
    BY <1>1 DEF Inv, SearchOK, TaskOK
<1>3. cold' \subseteq Documents /\ u.doc \in Documents /\ u.doc \notin u.healthy
      /\ u.healthy \cap cold = {}
    BY <1>1, <1>2 DEF DocumentOK, Inv, Typed
<1>4. CASE Settle(s, "google", "error")
    BY <1>1, <1>2, <1>3, <1>4, Settled
<1>5. ASSUME NEW d \in u.healthy, UNCHANGED <<result, holder>>,
             Go(s, "google", [at |-> "pace", try |-> u.try + 1, doc |-> d, healthy |-> u.healthy \ {d}])
      PROVE  Inv'
    <2> DEFINE t == [at |-> "pace", try |-> u.try + 1, doc |-> d, healthy |-> u.healthy \ {d}]
    <2>1. t \in Task /\ t.at = "pace" /\ t.doc = d /\ t.healthy = u.healthy \ {d} /\ d \in Documents
        <3>1. u \in Task /\ u.try \in Nat
            BY TaskType
        <3> HIDE DEF u
        <3> QED BY <3>1, <1>5 DEF Task, Places
    <2>2. Go(s, "google", t) /\ holder' = [holder EXCEPT !["google"] = s]
        BY <1>2, <1>5 DEF Inv, Typed
    <2> HIDE DEF t, u, Go
    <2>3. Goes(s, "google", t, s)
        BY <2>1, <2>2, GoesBy
    <2>4. t.doc \in Documents \ (cold' \cup t.healthy) /\ t.healthy \cap cold' = {}
        BY <1>1, <1>3, <1>5, <2>1
    <2> QED BY <1>1, <1>2, <1>3, <1>5, <2>1, <2>3, <2>4, GoesOn DEF u
<1> HIDE DEF Go
<1> QED BY <1>4, <1>5 DEF DocumentGone

\* An answer received is parsed, by Google's holder under its lock.
LEMMA ReceivedStep ==
    ASSUME Inv, NEW s \in Searches, NEW p \in Providers, Received(s, p)
    PROVE  Inv'
<1> DEFINE t == [task[s][p] EXCEPT !.at = "parse"]
<1>1. t \in Task /\ t.at = "parse"
    <2>1. "parse" \in Places
        BY DEF Places
    <2> QED BY <2>1, TaskType, Moved
<1>2. /\ Go(s, p, t) /\ holder' = [holder EXCEPT ![p] = IF p = "google" THEN s ELSE NoSearch]
      /\ task[s][p].at = "sent"
      /\ UNCHANGED <<phase, result, adrift, backoff, told, cold>>
    BY DEF Received
<1>3. holder[p] = s
    BY <1>2 DEF Inv, SearchOK, TaskOK
<1>4. CASE p = "google"
    <2>1. holder' = [holder EXCEPT ![p] = s]
        BY <1>2, <1>4
    <2> HIDE DEF t, Go
    <2>2. Goes(s, p, t, s)
        BY <1>1, <1>2, <2>1, GoesBy
    <2> QED BY <1>1, <1>2, <1>3, <1>4, <2>2, GoesOn
<1>5. CASE p # "google"
    <2>1. holder' = [holder EXCEPT ![p] = NoSearch]
        BY <1>2, <1>5
    <2> HIDE DEF t, Go
    <2>2. Goes(s, p, t, NoSearch)
        BY <1>1, <1>2, <2>1, GoesBy
    <2> QED BY <1>1, <1>2, <1>3, <1>5, <2>2, GoesOn
<1> QED BY <1>4, <1>5

\* DuckDuckGo's next request queues at the lock again.
LEMMA AskAgainStep ==
    ASSUME Inv, NEW s \in Searches, AskAgain(s)
    PROVE  Inv'
<1> DEFINE t == [task[s]["ddg"] EXCEPT !.at = "lock"]
<1>1. t \in Task /\ t.at = "lock"
    <2>1. "lock" \in Places
        BY DEF Places
    <2> QED BY <2>1, TaskType, Moved
<1>2. /\ Go(s, "ddg", t) /\ UNCHANGED holder /\ task[s]["ddg"].at = "parse"
      /\ UNCHANGED <<phase, result, adrift, backoff, told, cold>>
    BY DEF AskAgain
<1>3. holder["ddg"] # s
    BY <1>2 DEF Inv, SearchOK, TaskOK
<1>4. /\ holder' = [holder EXCEPT !["ddg"] = holder["ddg"]]
      /\ holder["ddg"] \in Searches \cup {NoSearch, Detached}
    BY <1>2 DEF Inv, Typed
<1> HIDE DEF t, Go
<1>5. Goes(s, "ddg", t, holder["ddg"])
    BY <1>1, <1>2, <1>4, GoesBy
<1> QED BY <1>1, <1>2, <1>3, <1>5, GoesOn

LEMMA ParsedStep ==
    ASSUME Inv, NEW s \in Searches, NEW p \in Providers, Parsed(s, p)
    PROVE  Inv'
<1>1. PICK o \in {"hit", "empty", "error"} : Settle(s, p, o)
    BY DEF Parsed
<1>2. /\ task[s][p].at = "parse"
      /\ UNCHANGED <<phase, adrift, backoff, told, cold>>
      /\ backoff' \subseteq Providers /\ told' \subseteq backoff'
    BY DEF Parsed, Inv, Typed
<1> QED BY <1>1, <1>2, Settled

LEMMA ParsedGoogleStep ==
    ASSUME Inv, NEW s \in Searches, ParsedGoogle(s)
    PROVE  Inv'
<1>1. PICK o \in {"hit", "empty", "error"} : Settle(s, "google", o)
    BY DEF ParsedGoogle
<1>2. /\ task[s]["google"].at = "parse"
      /\ UNCHANGED <<phase, adrift, backoff, told>> /\ cold' \subseteq cold
      /\ backoff' \subseteq Providers /\ told' \subseteq backoff'
    BY DEF ParsedGoogle, Inv, Typed
<1> QED BY <1>1, <1>2, Settled

LEMMA BackedOffStep ==
    ASSUME Inv, NEW s \in Searches, NEW p \in Providers, BackedOff(s, p)
    PROVE  Inv'
<1>1. /\ task[s][p].at = "lock" /\ Settle(s, p, "error")
      /\ UNCHANGED <<phase, adrift, backoff, told, cold>>
      /\ backoff' \subseteq Providers /\ told' \subseteq backoff'
    BY DEF BackedOff, Inv, Typed
<1> QED BY <1>1, Settled

---------------------------------------------------------------------------
(* Tasks are cancelled *)

LEMMA Cancelled ==
    ASSUME Inv, NEW s \in Searches, NEW ps \in SUBSET Providers, Cancelling(s, ps),
           phase' \in [Searches -> {"idle", "asking", "answered", "left"}],
           result' \in [Searches -> [Providers -> {"none", "hit", "empty", "error"}]],
           \A q \in Searches : q # s => phase'[q] = phase[q],
           phase'[s] = phase[s] \/ ps = Providers,
           \A q \in Searches, r \in Providers : q # s \/ r \notin ps => result'[q][r] = result[q][r],
           UNCHANGED <<backoff, told, cold>>
    PROVE  /\ Typed' /\ AdriftOK'
           /\ \A q \in Searches : q # s => SearchOK(q)'
           /\ DocumentOK(s)' /\ \A r \in Providers : TaskOK(s, r)'
           /\ \A r \in Providers : task'[s][r].at = IF r \in ps THEN "none" ELSE task[s][r].at
<1>1. NoTask \in Task /\ NoTask.at = "none"
    BY NoTaskFact
<1>2. /\ task' \in [Searches -> [Providers -> Task]]
      /\ \A r \in ps : task'[s][r] = NoTask
      /\ \A q \in Searches, r \in Providers : q # s \/ r \notin ps => task'[q][r] = task[q][r]
    BY <1>1 DEF Cancelling, Inv, Typed
<1>3. /\ holder' \in [Providers -> Searches \cup {NoSearch, Detached}]
      /\ \A r \in Providers : r \in ps /\ holder[r] = s => holder'[r] \in {NoSearch, Detached}
      /\ \A r \in Providers : r \in ps /\ holder[r] = s /\ r # "brave" => holder'[r] = NoSearch
      /\ \A r \in Providers : ~(r \in ps /\ holder[r] = s) => holder'[r] = holder[r]
      /\ "brave" \in ps /\ holder["brave"] = s =>
             holder'["brave"] = IF task[s]["brave"].at = "sent" THEN Detached ELSE NoSearch
    BY DEF Cancelling, Inv, Typed
<1>4. TaskOK(s, "brave")
    BY DEF Inv, SearchOK
<1>5. Typed' /\ AdriftOK'
    <2>1. CASE "brave" \in ps /\ task[s]["brave"].at = "sent"
        <3>1. holder["brave"] = s /\ adrift = 0 /\ adrift' = 1 /\ holder'["brave"] = Detached
            BY <2>1, <1>3, <1>4 DEF Inv, Typed, AdriftOK, Cancelling, TaskOK
        <3> QED BY <3>1, <1>2, <1>3 DEF Inv, Typed, AdriftOK
    <2>2. CASE ~("brave" \in ps /\ task[s]["brave"].at = "sent")
        <3>1. adrift' = adrift /\ (holder'["brave"] = Detached <=> holder["brave"] = Detached)
            BY <2>2, <1>3, <1>4 DEF Inv, Typed, AdriftOK, Cancelling, TaskOK
        <3> QED BY <3>1, <1>2, <1>3 DEF Inv, Typed, AdriftOK
    <2> QED BY <2>1, <2>2
<1>6. ASSUME NEW q \in Searches, NEW r \in Providers PROVE TaskOK(q, r)'
    <2>1. TaskOK(q, r) /\ TaskOK(s, r)
        BY DEF Inv, SearchOK
    <2>2. CASE q = s /\ r \in ps
        BY <2>1, <2>2, <1>1, <1>2, <1>3 DEF TaskOK
    <2>3. CASE q = s /\ r \notin ps
        BY <2>1, <2>3, <1>2, <1>3 DEF TaskOK
    <2>4. CASE q # s
        BY <2>1, <2>4, <1>2, <1>3 DEF TaskOK
    <2> QED BY <2>2, <2>3, <2>4
<1>7. ASSUME NEW q \in Searches PROVE DocumentOK(q)'
    BY <1>1, <1>2 DEF Inv, SearchOK, DocumentOK
<1>8. ASSUME NEW q \in Searches, q # s PROVE FallbackOK(q)'
    BY <1>8, <1>2 DEF Inv, SearchOK, FallbackOK
<1> QED BY <1>1, <1>2, <1>5, <1>6, <1>7, <1>8 DEF SearchOK

LEMMA TimeoutStep ==
    ASSUME Inv, NEW s \in Searches, NEW p \in Providers, Timeout(s, p)
    PROVE  Inv'
<1>1. /\ task[s][p].at # "none" /\ Cancelling(s, {p})
      /\ UNCHANGED <<phase, backoff, told, cold>>
      /\ result' \in [Searches -> [Providers -> {"none", "hit", "empty", "error"}]]
      /\ result'[s][p] = "error"
      /\ \A q \in Searches, r \in Providers : q # s \/ r # p => result'[q][r] = result[q][r]
    BY DEF Timeout, Inv, Typed
<1>2. /\ Typed' /\ AdriftOK'
      /\ \A q \in Searches : q # s => SearchOK(q)'
      /\ DocumentOK(s)' /\ \A r \in Providers : TaskOK(s, r)'
      /\ \A r \in Providers : task'[s][r].at = IF r \in {p} THEN "none" ELSE task[s][r].at
    <2>1. phase' \in [Searches -> {"idle", "asking", "answered", "left"}] /\ {p} \in SUBSET Providers
        BY <1>1 DEF Inv, Typed
    <2> QED BY <1>1, <2>1, Cancelled
<1>3. FallbackOK(s)'
    <2>1. FallbackOK(s) /\ TaskOK(s, "google") /\ TaskOK(s, "ddg") /\ TaskOK(s, "brave")
        BY DEF Inv, SearchOK
    <2>2. CASE p = "google"
        BY <1>1, <1>2, <2>1, <2>2 DEF TaskOK, FallbackOK
    <2>3. CASE p = "ddg"
        BY <1>1, <1>2, <2>1, <2>3 DEF TaskOK, FallbackOK
    <2>4. CASE p = "brave"
        BY <1>1, <1>2, <2>1, <2>4 DEF TaskOK, FallbackOK
    <2> QED BY <2>2, <2>3, <2>4
<1> QED BY <1>2, <1>3 DEF Inv, SearchOK

LEMMA LeaveStep ==
    ASSUME Inv, NEW s \in Searches, Leave(s)
    PROVE  Inv'
<1>1. /\ Cancelling(s, Providers)
      /\ UNCHANGED <<backoff, told, cold>>
      /\ phase' \in [Searches -> {"idle", "asking", "answered", "left"}]
      /\ \A q \in Searches : q # s => phase'[q] = phase[q]
      /\ result' \in [Searches -> [Providers -> {"none", "hit", "empty", "error"}]]
      /\ \A r \in Providers : result'[s][r] = "none"
      /\ \A q \in Searches, r \in Providers : q # s => result'[q][r] = result[q][r]
    BY DEF Leave, Inv, Typed, Nothing
<1>2. /\ Typed' /\ AdriftOK'
      /\ \A q \in Searches : q # s => SearchOK(q)'
      /\ DocumentOK(s)' /\ \A r \in Providers : TaskOK(s, r)'
      /\ \A r \in Providers : task'[s][r].at = "none"
    <2> HIDE DEF Providers
    <2>1. /\ Typed' /\ AdriftOK'
          /\ \A q \in Searches : q # s => SearchOK(q)'
          /\ DocumentOK(s)' /\ \A r \in Providers : TaskOK(s, r)'
          /\ \A r \in Providers : task'[s][r].at = IF r \in Providers THEN "none" ELSE task[s][r].at
        <3>1. Providers \in SUBSET Providers
            OBVIOUS
        <3> QED BY <1>1, <3>1, Cancelled
    <2> QED BY <2>1
<1>3. FallbackOK(s)'
    BY <1>1, <1>2 DEF FallbackOK
<1> QED BY <1>2, <1>3 DEF Inv, SearchOK

---------------------------------------------------------------------------
(* A search asks its providers *)

\* What Asking does to the tasks and outcomes.
Asks(s, ps, o) ==
    /\ task' \in [Searches -> [Providers -> Task]]
    /\ result' \in [Searches -> [Providers -> {"none", "hit", "empty", "error"}]]
    /\ \A r \in Providers : r \in ps /\ ~Skipped(s, r) =>
           task'[s][r].at = "lock" /\ result'[s][r] = o[r]
    /\ \A r \in Providers : r \in ps /\ Skipped(s, r) =>
           task'[s][r] = task[s][r] /\ result'[s][r] = "error"
    /\ \A r \in Providers : r \notin ps => task'[s][r] = task[s][r] /\ result'[s][r] = o[r]
    /\ \A q \in Searches, r \in Providers :
           q # s => task'[q][r] = task[q][r] /\ result'[q][r] = result[q][r]

LEMMA AskingFacts ==
    ASSUME Inv, NEW s \in Searches, NEW ps \in SUBSET Providers,
           NEW o \in [Providers -> {"none", "hit", "empty", "error"}], Asking(s, ps, o)
    PROVE  Asks(s, ps, o)
<1> HIDE DEF Providers
<1> DEFINE u == NoTask
           n == [u EXCEPT !.at = "lock"]
<1>1. n \in Task /\ n.at = "lock"
    <2>1. u \in Task
        BY NoTaskFact
    <2> HIDE DEF u
    <2> QED BY <2>1 DEF Task, Places
<1>2. task' = [task EXCEPT ![s] = [p \in Providers |-> IF p \in ps /\ ~Skipped(s, p) THEN n ELSE @[p]]]
    BY DEF Asking
<1>3. result' = [result EXCEPT ![s] = [p \in Providers |->
                    IF p \in ps /\ Skipped(s, p) THEN "error" ELSE o[p]]]
    BY DEF Asking
<1>4. /\ task \in [Searches -> [Providers -> Task]]
      /\ result \in [Searches -> [Providers -> {"none", "hit", "empty", "error"}]]
    BY DEF Inv, Typed
<1> HIDE DEF n, Skipped
<1>5. /\ task' \in [Searches -> [Providers -> Task]]
      /\ \A r \in Providers : task'[s][r] = IF r \in ps /\ ~Skipped(s, r) THEN n ELSE task[s][r]
      /\ \A q \in Searches, r \in Providers : q # s => task'[q][r] = task[q][r]
    BY <1>1, <1>2, <1>4
<1>6. /\ result' \in [Searches -> [Providers -> {"none", "hit", "empty", "error"}]]
      /\ \A r \in Providers : result'[s][r] = IF r \in ps /\ Skipped(s, r) THEN "error" ELSE o[r]
      /\ \A q \in Searches, r \in Providers : q # s => result'[q][r] = result[q][r]
    BY <1>3, <1>4
<1> QED BY <1>1, <1>5, <1>6 DEF Asks

\* Tasks at the lock disturb nobody.
LEMMA AsksStep ==
    ASSUME Inv, NEW s \in Searches, NEW ps \in SUBSET Providers, NEW o, Asks(s, ps, o),
           \A r \in ps : task[s][r].at = "none" /\ o[r] = "none",
           \A r \in Providers : task[s][r].at # "none" => o[r] = "none",
           phase' \in [Searches -> {"idle", "asking", "answered", "left"}],
           phase'[s] = "asking",
           \A q \in Searches : q # s => phase'[q] = phase[q],
           UNCHANGED <<holder, adrift, backoff, told, cold>>,
           FallbackOK(s)'
    PROVE  Inv'
<1>1. Typed' /\ AdriftOK'
    BY DEF Inv, Typed, AdriftOK, Asks
<1>2. ASSUME NEW q \in Searches, NEW r \in Providers PROVE TaskOK(q, r)'
    <2>1. TaskOK(q, r)
        BY DEF Inv, SearchOK
    <2>2. CASE q # s
        BY <2>1, <2>2 DEF TaskOK, Asks
    <2>3. CASE q = s /\ r \in ps /\ ~Skipped(s, r)
        <3>1. task'[s][r].at = "lock" /\ result'[s][r] = "none"
            BY <2>3 DEF Asks
        <3> QED BY <2>1, <2>3, <3>1 DEF TaskOK
    <2>4. CASE q = s /\ r \in ps /\ Skipped(s, r)
        <3>1. task'[s][r].at = "none"
            BY <2>4 DEF Asks
        <3> QED BY <2>1, <2>4, <3>1 DEF TaskOK
    <2>5. CASE q = s /\ r \notin ps
        <3>1. task'[s][r] = task[s][r] /\ result'[s][r] = o[r]
            BY <2>5 DEF Asks
        <3> QED BY <2>1, <2>5, <3>1 DEF TaskOK
    <2> QED BY <2>2, <2>3, <2>4, <2>5
<1>3. ASSUME NEW q \in Searches PROVE DocumentOK(q)'
    <2>1. DocumentOK(q)
        BY DEF Inv, SearchOK
    <2>2. task'[q]["google"] = task[q]["google"] \/ task'[q]["google"].at = "lock"
        BY DEF Asks
    <2> QED BY <2>1, <2>2 DEF DocumentOK
<1>4. ASSUME NEW q \in Searches, q # s PROVE FallbackOK(q)'
    BY <1>4 DEF Inv, SearchOK, FallbackOK, Asks
<1> QED BY <1>1, <1>2, <1>3, <1>4 DEF Inv, SearchOK

LEMMA SearchStep ==
    ASSUME Inv, NEW s \in Searches, Search(s)
    PROVE  Inv'
<1> DEFINE ps == IF Mode[s] = "all" THEN Providers ELSE {Mode[s]}
<1>1. /\ phase[s] # "asking" /\ UNCHANGED <<holder, adrift, backoff, told, cold>>
      /\ phase' \in [Searches -> {"idle", "asking", "answered", "left"}]
      /\ \A q \in Searches : q # s => phase'[q] = phase[q]
    BY DEF Search, Inv, Typed
<1>2. \A r \in Providers : task[s][r].at = "none"
    BY <1>1 DEF Inv, SearchOK, TaskOK
<1>3. CASE UNCHANGED <<task, result>>
    BY <1>1, <1>2, <1>3 DEF Inv, Typed, AdriftOK, SearchOK, TaskOK, DocumentOK, FallbackOK
<1>4. CASE Asking(s, ps, Nothing) /\ phase' = [phase EXCEPT ![s] = "asking"]
    <2>1. /\ ps \in SUBSET Providers /\ Nothing \in [Providers -> {"none", "hit", "empty", "error"}]
          /\ \A r \in Providers : Nothing[r] = "none"
          /\ Mode[s] = "google" => ps = {"google"}
        BY DEF Nothing
    <2>2. phase'[s] = "asking"
        BY <1>4 DEF Inv, Typed
    <2> HIDE DEF ps
    <2>3. Asks(s, ps, Nothing)
        BY <1>4, <2>1, AskingFacts
    <2>4. FallbackOK(s)'
        BY <1>2, <2>1, <2>3 DEF FallbackOK, Asks
    <2> QED BY <1>1, <1>2, <2>1, <2>2, <2>3, <2>4, AsksStep
<1> QED BY <1>3, <1>4 DEF Search

LEMMA ConcludeStep ==
    ASSUME Inv, NEW s \in Searches, Conclude(s)
    PROVE  Inv'
<1>1. /\ phase[s] = "asking" /\ UNCHANGED <<holder, adrift, backoff, told, cold>>
      /\ \A r \in Providers : task[s][r].at = "none"
    BY DEF Conclude, Asked, Inv, SearchOK, TaskOK
<1>2. CASE UNCHANGED <<task, result>> /\ phase' = [phase EXCEPT ![s] = "answered"]
    BY <1>1, <1>2 DEF Inv, Typed, AdriftOK, SearchOK, TaskOK, DocumentOK, FallbackOK
<1>3. CASE Fallback(s) # {} /\ Asking(s, Fallback(s), result[s]) /\ UNCHANGED phase
    <2>1. /\ Fallback(s) \in SUBSET Providers
          /\ Mode[s] = "google" /\ result[s]["google"] = "error"
          /\ \/ Fallback(s) = {"ddg"} /\ result[s]["ddg"] = "none"
             \/ /\ Fallback(s) = {"brave"} /\ result[s]["brave"] = "none"
                /\ result[s]["ddg"] = "error"
        BY <1>3 DEF Fallback, Asked, Inv, Typed
    <2>2. result[s] \in [Providers -> {"none", "hit", "empty", "error"}]
        BY DEF Inv, Typed
    <2>3. Asks(s, Fallback(s), result[s])
        BY <1>3, <2>1, <2>2, AskingFacts
    <2>4. /\ phase'[s] = "asking" /\ \A q \in Searches : q # s => phase'[q] = phase[q]
          /\ phase' \in [Searches -> {"idle", "asking", "answered", "left"}]
        BY <1>1, <1>3 DEF Inv, Typed
    <2>5. FallbackOK(s)'
        BY <1>1, <2>1, <2>3 DEF FallbackOK, Asks, Skipped
    <2> HIDE DEF Providers
    <2> QED BY <1>1, <2>1, <2>3, <2>4, <2>5, AsksStep
<1> QED BY <1>2, <1>3 DEF Conclude

LEMMA TimeSteps ==
    ASSUME Inv, \/ DetachedEnds
                \/ \E p \in Providers : BackoffEnds(p)
                \/ \E d \in Documents : Thaw(d)
                \/ UNCHANGED vars
    PROVE  Inv'
<1>1. CASE DetachedEnds
    <2>1. adrift = 1 /\ adrift' = 0 /\ holder["brave"] = Detached
        BY <1>1 DEF DetachedEnds, Inv, Typed, AdriftOK
    <2>2. \A s \in Searches : ~Holds(s, "brave")
        BY <2>1 DEF Inv, SearchOK, TaskOK
    <2>3. /\ holder' = [holder EXCEPT !["brave"] = NoSearch]
          /\ UNCHANGED <<phase, task, result, cold>>
          /\ \/ backoff' = backoff /\ told' = told
             \/ backoff' = backoff \cup {"brave"} /\ told' = told \cup {"brave"}
        BY <1>1, <2>1 DEF DetachedEnds
    <2>4. Typed' /\ AdriftOK'
        <3>1. /\ holder' \in [Providers -> Searches \cup {NoSearch, Detached}]
              /\ holder'["brave"] = NoSearch
              /\ holder'["google"] # Detached /\ holder'["ddg"] # Detached
            BY <2>3 DEF Inv, Typed, AdriftOK
        <3>2. backoff' \subseteq Providers /\ told' \subseteq backoff'
            BY <2>3 DEF Inv, Typed
        <3> QED BY <2>1, <2>3, <3>1, <3>2 DEF Inv, Typed, AdriftOK
    <2>5. ASSUME NEW s \in Searches, NEW p \in Providers PROVE TaskOK(s, p)'
        <3>1. TaskOK(s, p)
            BY DEF Inv, SearchOK
        <3>2. holder'[p] = s <=> holder[p] = s
            BY <2>1, <2>3 DEF Inv, Typed
        <3>3. p = "brave" => task[s][p].at \notin {"pace", "sent"}
            BY <2>2
        <3> QED BY <2>3, <3>1, <3>2, <3>3 DEF TaskOK
    <2>6. ASSUME NEW s \in Searches PROVE DocumentOK(s)' /\ FallbackOK(s)'
        BY <2>3 DEF Inv, SearchOK, DocumentOK, FallbackOK
    <2> QED BY <2>4, <2>5, <2>6 DEF Inv, SearchOK
<1>2. ASSUME NEW p \in Providers, BackoffEnds(p) PROVE Inv'
    BY <1>2 DEF BackoffEnds, Inv, Typed, AdriftOK, SearchOK, TaskOK, DocumentOK, FallbackOK
<1>3. ASSUME NEW d \in Documents, Thaw(d) PROVE Inv'
    BY <1>3 DEF Thaw, Inv, Typed, AdriftOK, SearchOK, TaskOK, DocumentOK, FallbackOK
<1>4. CASE UNCHANGED vars
    BY <1>4 DEF vars, Inv, Typed, AdriftOK, SearchOK, TaskOK, DocumentOK, FallbackOK
<1> QED BY <1>1, <1>2, <1>3, <1>4

---------------------------------------------------------------------------
LEMMA InvInit == Init => Inv
<1>1. NoTask \in Task /\ NoTask.at = "none"
    BY NoTaskFact
<1> QED BY <1>1 DEF Init, Inv, Typed, AdriftOK, SearchOK, TaskOK, DocumentOK, FallbackOK, Nothing

LEMMA InvNext == Inv /\ [Next]_vars => Inv'
<1> SUFFICES ASSUME Inv, [Next]_vars PROVE Inv'
    OBVIOUS
<1>1. ASSUME NEW s \in Searches, NEW p \in Providers, Advance(s, p) PROVE Inv'
    BY <1>1, BackedOffStep, EnterStep, SendStep, BlockedStep, FailedStep, ReceivedStep, ParsedStep,
       EnterGoogleStep, DocumentGoneStep, ParsedGoogleStep, AskAgainStep DEF Advance
<1>2. ASSUME NEW s \in Searches, Search(s) \/ Conclude(s) \/ Leave(s) PROVE Inv'
    BY <1>2, SearchStep, ConcludeStep, LeaveStep
<1>3. ASSUME NEW s \in Searches, NEW p \in Providers, Timeout(s, p) PROVE Inv'
    BY <1>3, TimeoutStep
<1>4. CASE \/ DetachedEnds
           \/ \E p \in Providers : BackoffEnds(p)
           \/ \E d \in Documents : Thaw(d)
           \/ UNCHANGED vars
    BY <1>4, TimeSteps
<1> QED BY <1>1, <1>2, <1>3, <1>4 DEF Next

LEMMA InvAlways == Spec => []Inv
BY InvInit, InvNext, PTL DEF Spec

---------------------------------------------------------------------------
(* The pools *)

IsPool(pool, E, cap) == pool \in Seq(E) /\ Len(pool) <= cap

Cursors == [key : Nat, last : BOOLEAN]
Cached == [key : Searches]

PoolsOK == IsPool(cursors, Cursors, MaxCursors) /\ IsPool(cache, Cached, MaxCache)

\* A removal keeps what is left, and no more than there was.
LEMMA WithoutKeeps ==
    ASSUME NEW E, NEW s \in Seq(E), NEW k
    PROVE  Without(s, k) \in Seq(E) /\ Len(Without(s, k)) <= Len(s)
<1>1. CASE \A i \in 1 .. Len(s) : s[i].key # k
    BY <1>1 DEF Without
<1>2. CASE \E i \in 1 .. Len(s) : s[i].key = k
    <2> DEFINE i == CHOOSE i \in 1 .. Len(s) : s[i].key = k
               front == SubSeq(s, 1, i - 1)
               rest == SubSeq(s, i + 1, Len(s))
    <2>1. i \in 1 .. Len(s) /\ Len(s) \in Nat
        BY <1>2
    <2>2. Without(s, k) = front \o rest
        BY <1>2 DEF Without
    <2> HIDE DEF i
    <2>3. front \in Seq(E) /\ Len(front) = i - 1
        BY <2>1
    <2>4. rest \in Seq(E) /\ Len(rest) = Len(s) - i
        BY <2>1
    <2> HIDE DEF front, rest
    <2>5. front \o rest \in Seq(E) /\ Len(front \o rest) = Len(front) + Len(rest)
        BY <2>3, <2>4, Joined
    <2>6. (i - 1) + (Len(s) - i) <= Len(s)
        BY <2>1
    <2> QED BY <2>2, <2>3, <2>4, <2>5, <2>6
<1> QED BY <1>1, <1>2

\* An insertion makes its own room.
LEMMA InsertedFits ==
    ASSUME NEW E, NEW cap \in Nat \ {0}, NEW pool, IsPool(pool, E, cap), NEW e \in E
    PROVE  IsPool(Inserted(pool, e, cap), E, cap)
<1> DEFINE room == IF Len(pool) >= cap THEN Tail(pool) ELSE pool
           left == Without(room, e.key)
<1>1. room \in Seq(E) /\ Len(room) < cap
    BY DEF IsPool
<1>2. Inserted(pool, e, cap) = Append(left, e)
    BY DEF Inserted
<1> HIDE DEF room
<1>3. left \in Seq(E) /\ Len(left) <= Len(room)
    BY <1>1, WithoutKeeps
<1> HIDE DEF left
<1>4. Append(left, e) \in Seq(E) /\ Len(Append(left, e)) = Len(left) + 1 /\ Len(room) \in Nat
    BY <1>1, <1>3
<1> QED BY <1>1, <1>2, <1>3, <1>4 DEF IsPool

LEMMA ExpiresFits ==
    ASSUME NEW E, NEW cap \in Nat, NEW pool, IsPool(pool, E, cap), NEW left \in Expires(pool)
    PROVE  IsPool(left, E, cap)
<1>1. pool \in Seq(E) /\ Len(pool) \in Nat /\ Len(pool) <= cap
    BY DEF IsPool
<1>2. PICK k \in 1 .. Len(pool) + 1 : left = SubSeq(pool, k, Len(pool))
    BY DEF Expires
<1>3. left \in Seq(E) /\ Len(left) = Len(pool) - k + 1
    BY <1>1, <1>2
<1> QED BY <1>1, <1>2, <1>3 DEF IsPool

\* The steps that touch neither pool.
LEMMA OtherSteps ==
    ASSUME [Next]_vars, \A s \in Searches : ~Search(s) /\ ~Conclude(s) /\ ~EnterGoogle(s) /\ ~ParsedGoogle(s)
    PROVE  UNCHANGED <<cursors, cache>>
<1>1. ASSUME NEW s \in Searches, NEW p \in Providers, Advance(s, p)
      PROVE  UNCHANGED <<cursors, cache>>
    BY <1>1 DEF Advance, BackedOff, Enter, Send, Blocked, Failed, Received, Parsed, DocumentGone, AskAgain
<1>2. ASSUME NEW s \in Searches, NEW p \in Providers, Timeout(s, p) \/ Leave(s)
      PROVE  UNCHANGED <<cursors, cache>>
    BY <1>2 DEF Timeout, Leave
<1>3. ASSUME \/ DetachedEnds
             \/ \E p \in Providers : BackoffEnds(p)
             \/ \E d \in Documents : Thaw(d)
             \/ UNCHANGED vars
      PROVE  UNCHANGED <<cursors, cache>>
    BY <1>3 DEF DetachedEnds, BackoffEnds, Thaw, vars
<1> QED BY <1>1, <1>2, <1>3 DEF Next

LEMMA PoolsNext == PoolsOK /\ [Next]_vars => PoolsOK'
<1> SUFFICES ASSUME PoolsOK, [Next]_vars PROVE PoolsOK'
    OBVIOUS
<1>1. IsPool(cursors, Cursors, MaxCursors) /\ IsPool(cache, Cached, MaxCache)
    BY DEF PoolsOK
<1>2. MaxCursors \in Nat \ {0} /\ MaxCache \in Nat \ {0}
    OBVIOUS
<1>3. ASSUME NEW s \in Searches, Search(s) PROVE PoolsOK'
    <2>1. cache' \in Expires(cache) /\ cursors' = cursors
        BY <1>3 DEF Search
    <2>2. IsPool(cache', Cached, MaxCache)
        BY <2>1, <1>1, <1>2, ExpiresFits
    <2> QED BY <1>1, <2>1, <2>2 DEF PoolsOK
<1>4. ASSUME NEW s \in Searches, Conclude(s) PROVE PoolsOK'
    <2>1. cursors' = cursors
        BY <1>4 DEF Conclude
    <2>2. cache' = cache \/ cache' = Inserted(cache, [key |-> s], MaxCache)
        BY <1>4 DEF Conclude
    <2>3. [key |-> s] \in Cached
        BY DEF Cached
    <2>4. IsPool(Inserted(cache, [key |-> s], MaxCache), Cached, MaxCache)
        BY <2>3, <1>1, <1>2, InsertedFits
    <2>5. IsPool(cache', Cached, MaxCache)
        BY <2>2, <2>4, <1>1
    <2> QED BY <1>1, <2>1, <2>5 DEF PoolsOK
<1>5. ASSUME NEW s \in Searches, EnterGoogle(s) PROVE PoolsOK'
    <2>1. cache' = cache /\ (cursors' = cursors \/ cursors' \in Expires(cursors))
        BY <1>5 DEF EnterGoogle
    <2>2. IsPool(cursors', Cursors, MaxCursors)
        BY <2>1, <1>1, <1>2, ExpiresFits
    <2> QED BY <1>1, <2>1, <2>2 DEF PoolsOK
<1>6. ASSUME NEW s \in Searches, ParsedGoogle(s) PROVE PoolsOK'
    <2>1. /\ cache' = cache
          /\ \/ cursors' = cursors
             \/ \E last \in BOOLEAN :
                    cursors' = Inserted(cursors, [key |-> Page[s] + 1, last |-> last], MaxCursors)
        BY <1>6 DEF ParsedGoogle
    <2>2. ASSUME NEW last \in BOOLEAN
          PROVE  IsPool(Inserted(cursors, [key |-> Page[s] + 1, last |-> last], MaxCursors), Cursors, MaxCursors)
        <3>1. Page[s] + 1 \in Nat
            OBVIOUS
        <3>2. [key |-> Page[s] + 1, last |-> last] \in Cursors
            BY <3>1, Zenon DEF Cursors
        <3> QED BY <3>2, <1>1, <1>2, InsertedFits
    <2>3. IsPool(cursors', Cursors, MaxCursors)
        BY <2>1, <2>2, <1>1
    <2> QED BY <1>1, <2>1, <2>3 DEF PoolsOK
<1>7. UNCHANGED <<cursors, cache>> => PoolsOK'
    BY <1>1 DEF PoolsOK
<1> QED BY <1>3, <1>4, <1>5, <1>6, <1>7, OtherSteps

LEMMA PoolsAlways == Spec => []PoolsOK
<1>1. Init => PoolsOK
    <2> SUFFICES ASSUME Init PROVE PoolsOK
        OBVIOUS
    <2>1. cursors = <<>> /\ cache = <<>>
        BY DEF Init
    <2>2. \A E : \A cap \in Nat : IsPool(<<>>, E, cap)
        BY DEF IsPool
    <2> QED BY <2>1, <2>2 DEF PoolsOK
<1> QED BY <1>1, PoolsNext, PTL DEF Spec

\* The state is of its type, a lock has the holder that uses it, and neither
\* pool outgrows its bound.
THEOREM TypeCorrect == Spec => []TypeOK
<1>1. Inv /\ PoolsOK => TypeOK
    <2> SUFFICES ASSUME Inv, PoolsOK PROVE TypeOK
        OBVIOUS
    <2>1. Typed /\ AdriftOK /\ \A s \in Searches, p \in Providers : TaskOK(s, p)
        BY DEF Inv, SearchOK
    <2>2. /\ phase \in [Searches -> {"idle", "asking", "answered", "left"}]
          /\ task \in [Searches -> [Providers -> Task]]
          /\ result \in [Searches -> [Providers -> {"none", "hit", "empty", "error"}]]
          /\ holder \in [Providers -> Searches \cup {NoSearch, Detached}]
        BY <2>1, Zenon DEF Typed
    <2>3. \A s \in Searches, p \in Providers : Holds(s, p) <=> holder[p] = s
        BY <2>1 DEF TaskOK
    <2>4. adrift \in Nat /\ (adrift > 0 <=> holder["brave"] = Detached)
        BY <2>1 DEF Typed, AdriftOK
    <2>5. backoff \subseteq Providers /\ told \subseteq Providers /\ cold \subseteq Documents
        BY <2>1 DEF Typed
    <2>6. cursors \in Seq([key : Nat, last : BOOLEAN]) /\ Len(cursors) <= MaxCursors
        BY DEF PoolsOK, IsPool, Cursors
    <2>7. cache \in Seq([key : Searches]) /\ Len(cache) <= MaxCache
        BY DEF PoolsOK, IsPool, Cached
    <2> HIDE DEF Providers, Holds
    <2> QED BY <2>2, <2>3, <2>4, <2>5, <2>6, <2>7, Zenon DEF TypeOK
<1> QED BY <1>1, InvAlways, PoolsAlways, PTL

---------------------------------------------------------------------------
\* The searches whose request is with the provider p.
Sent(p) == {s \in Searches : task[s][p].at = "sent"}

\* A provider has one request of ours at a time: whoever sent one holds its
\* lock, and Brave's stays taken while a cancelled one is in flight.
THEOREM OneRequest == Spec => []OneRequestPerProvider
<1>1. Inv => \A p \in Providers : Cardinality(Sent(p)) + (IF p = "brave" THEN adrift ELSE 0) <= 1
    <2> SUFFICES ASSUME Inv, NEW p \in Providers
                 PROVE  Cardinality(Sent(p)) + (IF p = "brave" THEN adrift ELSE 0) <= 1
        OBVIOUS
    <2>1. \A s \in Sent(p) : s \in Searches /\ holder[p] = s
        BY DEF Sent, Inv, SearchOK, TaskOK
    <2>2. adrift \in {0, 1}
        BY DEF Inv, Typed
    <2>3. CASE Sent(p) = {}
        BY <2>2, <2>3, FS_EmptySet
    <2>4. CASE Sent(p) # {}
        <3>1. Sent(p) = {holder[p]} /\ holder[p] \in Searches
            BY <2>1, <2>4
        <3>2. Cardinality(Sent(p)) = 1
            BY <3>1, FS_Singleton
        <3>3. p = "brave" => adrift = 0
            BY <3>1 DEF Inv, Typed, AdriftOK
        <3> QED BY <3>2, <3>3
    <2> QED BY <2>3, <2>4
<1>2. Inv => OneRequestPerProvider
    BY <1>1 DEF OneRequestPerProvider, Sent
<1> QED BY <1>2, InvAlways, PTL

\* Google gets no request with a document in its cooldown.
THEOREM ColdDocumentsRest == Spec => []NoColdDocument
<1>1. Inv => NoColdDocument
    BY DEF Inv, SearchOK, DocumentOK, NoColdDocument
<1> QED BY <1>1, InvAlways, PTL

\* A request is only ever sent by a task that has paced itself.
LEMMA OnlySendSends ==
    ASSUME Inv, [Next]_vars, NEW s \in Searches, NEW p \in Providers, Sends(s, p)
    PROVE  Send(s, p)
<1>1. task \in [Searches -> [Providers -> Task]]
    BY DEF Inv, Typed
<1>2. ASSUME NEW q \in Searches, NEW r \in Providers, NEW t, Go(q, r, t), t.at # "sent"
      PROVE  FALSE
    BY <1>1, <1>2 DEF Sends
<1>3. ASSUME NEW q \in Searches, NEW r \in Providers, NEW o, Settle(q, r, o)
      PROVE  FALSE
    <2>1. Go(q, r, NoTask) /\ NoTask.at # "sent"
        BY <1>3, NoTaskFact DEF Settle
    <2> QED BY <2>1, <1>2
<1>4. ASSUME NEW q \in Searches, NEW r \in Providers, NEW at \in Places \ {"sent"}, NEW try \in Nat,
             \/ Go(q, r, [task[q][r] EXCEPT !.at = at])
             \/ Go(q, r, [task[q][r] EXCEPT !.at = at, !.try = try])
      PROVE  FALSE
    <2> DEFINE u == task[q][r]
    <2>1. u \in Task
        BY TaskType
    <2>2. [u EXCEPT !.at = at].at = at /\ [u EXCEPT !.at = at, !.try = try].at = at
        <3> HIDE DEF u
        <3> QED BY <2>1 DEF Task
    <2> QED BY <1>2, <1>4, <2>2
<1>5. UNCHANGED task => FALSE
    BY DEF Sends
<1> HIDE DEF Go
<1>6. "pace" \in Places \ {"sent"} /\ "parse" \in Places \ {"sent"} /\ "lock" \in Places \ {"sent"}
    BY DEF Places
<1>7. ASSUME NEW q \in Searches, NEW r \in Providers, Advance(q, r)
      PROVE  Send(s, p)
    <2>1. CASE BackedOff(q, r) \/ Blocked(q, r) \/ Parsed(q, r)
        BY <2>1, <1>3 DEF BackedOff, Blocked, Parsed
    <2>2. CASE Enter(q, r)
        <3>1. task[q][r].try + 1 \in Nat
            BY TaskType
        <3> QED BY <2>2, <3>1, <1>4, <1>6 DEF Enter
    <2>3. CASE Send(q, r)
        <3>1. q = s /\ r = p
            BY <2>3, <1>1 DEF Send, Sends, Go
        <3> QED BY <2>3, <3>1
    <2>4. CASE Failed(q, r)
        BY <2>4, <1>3, <1>4, <1>6 DEF Failed
    <2>5. CASE Received(q, r)
        BY <2>5, <1>4, <1>6 DEF Received
    <2>6. CASE r = "google" /\ EnterGoogle(q)
        <3>1. \E t : Go(q, "google", t) /\ t.at # "sent"
            <4>1. CASE \E o : Settle(q, "google", o)
                BY <4>1, <1>3
            <4>2. ASSUME NEW d \in Documents,
                         Go(q, "google", [at |-> "pace", try |-> 1, doc |-> d,
                                          healthy |-> (Documents \ cold) \ {d}])
                  PROVE  \E t : Go(q, "google", t) /\ t.at # "sent"
                BY <4>2
            <4> QED BY <2>6, <4>1, <4>2 DEF EnterGoogle
        <3> QED BY <3>1, <1>2
    <2>7. CASE r = "google" /\ DocumentGone(q)
        <3>1. \E t : Go(q, "google", t) /\ t.at # "sent"
            <4>1. CASE \E o : Settle(q, "google", o)
                BY <4>1, <1>3
            <4>2. ASSUME NEW d \in task[q]["google"].healthy,
                         Go(q, "google", [at |-> "pace", try |-> task[q]["google"].try + 1, doc |-> d,
                                          healthy |-> task[q]["google"].healthy \ {d}])
                  PROVE  \E t : Go(q, "google", t) /\ t.at # "sent"
                BY <4>2
            <4> QED BY <2>7, <4>1, <4>2 DEF DocumentGone
        <3> QED BY <3>1, <1>2
    <2>8. CASE r = "google" /\ ParsedGoogle(q)
        BY <2>8, <1>3 DEF ParsedGoogle
    <2>9. CASE r = "ddg" /\ AskAgain(q)
        BY <2>9, <1>4, <1>6 DEF AskAgain
    <2> QED BY <1>7, <2>1, <2>2, <2>3, <2>4, <2>5, <2>6, <2>7, <2>8, <2>9 DEF Advance
<1>8. ASSUME NEW q \in Searches, Search(q) \/ Conclude(q) PROVE FALSE
    <2>1. ASSUME NEW ps, NEW o, Asking(q, ps, o) PROVE FALSE
        <3>1. [NoTask EXCEPT !.at = "lock"].at = "lock"
            BY DEF NoTask
        <3> QED BY <2>1, <3>1, <1>1 DEF Asking, Sends
    <2> QED BY <1>8, <2>1, <1>5 DEF Search, Conclude
<1>9. ASSUME NEW q \in Searches, NEW ps, Cancelling(q, ps) PROVE FALSE
    BY <1>1, <1>9, NoTaskFact DEF Cancelling, Sends
<1> QED BY <1>5, <1>7, <1>8, <1>9
           DEF Next, Leave, Timeout, DetachedEnds, BackoffEnds, Thaw, vars

LEMMA SendsKnown ==
    ASSUME Inv, [Next]_vars, NEW s \in Searches, NEW p \in Providers, Sends(s, p)
    PROVE  /\ p \notin told /\ phase[s] = "asking" /\ result[s][p] = "none"
           /\ task[s][p].at # "none" /\ FallbackOK(s)
<1>1. task[s][p].at = "pace"
    BY OnlySendSends DEF Send
<1> QED BY <1>1 DEF Inv, SearchOK, TaskOK

\* Nothing is sent to a provider that asked us to wait, whichever search it
\* told and whatever became of it.
THEOREM BackoffsRespected == Spec => BackoffRespected
<1>1. Inv /\ [Next]_vars =>
          [\A s \in Searches, p \in Providers : Sends(s, p) => p \notin told]_vars
    BY SendsKnown
<1> QED BY <1>1, InvAlways, PTL DEF Spec, BackoffRespected

\* Nothing is sent for a search that has left or knows another outcome.
THEOREM NoVainRequest == Spec => NothingSentInVain
<1>1. Inv /\ [Next]_vars =>
          [\A s \in Searches, p \in Providers :
               Sends(s, p) => phase[s] = "asking" /\ result[s][p] = "none"]_vars
    BY SendsKnown
<1> QED BY <1>1, InvAlways, PTL DEF Spec, NothingSentInVain

\* The next provider is asked after those before it failed.
THEOREM FallbackFollowsFailure == Spec => FallbackOnlyOnFailure
<1>1. Inv /\ [Next]_vars =>
          [\A s \in Searches : Mode[s] = "google" =>
               /\ Sends(s, "ddg") => result[s]["google"] = "error"
               /\ Sends(s, "brave") => result[s]["google"] = "error" /\ result[s]["ddg"] = "error"]_vars
    BY SendsKnown DEF FallbackOK
<1> QED BY <1>1, InvAlways, PTL DEF Spec, FallbackOnlyOnFailure

=============================================================================
