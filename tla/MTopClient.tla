------------------------------ MODULE MTopClient ------------------------------
(***************************************************************************)
(* The AliExpress MTop client of src/src/fetchaller/aliexpress/mtop.py:    *)
(* concurrent calls of request() share one signing token, the cookie jar   *)
(* of one session and three recoveries (bootstrap, browser prime, solving  *)
(* an issued TMD challenge), each under a lock of its own.  An action is   *)
(* the code from one await to the next.  A response writes the jar and     *)
(* resumes its call in one step: a call resumed in between would read the  *)
(* same jar and leave the same token.                                      *)
(***************************************************************************)
EXTENDS Naturals

CONSTANTS
    Callers, NoCaller,
    MaxMint        \* bound: how many signing cookies the server sets

MTopAssumption ==
    /\ NoCaller \notin Callers
    /\ MaxMint \in Nat

VARIABLES
    token,         \* _token (0 if empty), past its TTL or not, _token_generation
    jar,           \* the _m_h5_tk cookie of the session, 0 if none
    minted,        \* how many cookies the server has set; each is new
    bootLock, primeLock, tmdLock,  \* the holder of each asyncio.Lock
    tmdGeneration, \* _tmd_recovery_generation
    call,          \* the calls of request()
    stale,         \* history: calls in whose operation another changed the token
    cleared        \* history: calls since whose request another's solve succeeded

shared == <<token, jar, minted>>
locks == <<bootLock, primeLock, tmdLock>>
vars == <<shared, locks, tmdGeneration, call, stale, cleared>>

InFlight == {"sent", "boot", "priming", "solving"}
Waits == {"bootWait", "primeWait", "tmdWait"}
Ended == {"done", "gone"}

Call == [pc : {"new"} \cup InFlight \cup Waits \cup Ended,
         try : 1..3,       \* the request made, or to make next
         signed : Nat,     \* the token that signed it
         since : Nat,      \* the token generation its operation started from
         seen : Nat]       \* observed_generation of the challenge

TypeOK ==
    /\ token \in [value : Nat, aged : BOOLEAN, generation : Nat]
    /\ {jar, minted, tmdGeneration} \subseteq Nat
    /\ {bootLock, primeLock, tmdLock} \subseteq Callers \cup {NoCaller}
    /\ call \in [Callers -> Call]
    /\ stale \subseteq Callers
    /\ cleared \subseteq Callers
    /\ \A c \in Callers :
           /\ bootLock = c <=> call[c].pc = "boot"
           /\ primeLock = c <=> call[c].pc = "priming"
           /\ tmdLock = c <=> call[c].pc = "solving"

Init ==
    /\ token = [value |-> 0, aged |-> FALSE, generation |-> 0]
    /\ jar = 0
    /\ minted = 0
    /\ bootLock = NoCaller /\ primeLock = NoCaller /\ tmdLock = NoCaller
    /\ tmdGeneration = 0
    /\ call = [c \in Callers |-> [pc |-> "new", try |-> 1, signed |-> 0, since |-> 0, seen |-> 0]]
    /\ stale = {}
    /\ cleared = {}

---------------------------------------------------------------------------
(* The token *)

\* _token_expired
Expired(t) == t.value = 0 \/ t.aged

\* _set_token_cookie: nothing for an invalid cookie or the one it has.
Installed(t, cookie) ==
    IF cookie \in {0, t.value} THEN t
    ELSE [value |-> cookie, aged |-> FALSE, generation |-> t.generation + 1]

Cleared(t) == [value |-> 0, aged |-> FALSE, generation |-> t.generation + 1]

\* What a cookie received since generation g does to the token.
InstalledSinceMutant(t, g, cookie) == Installed(t, cookie)
InstalledSince(t, g, cookie) == IF t.generation = g THEN Installed(t, cookie) ELSE t

\* _clear_token_if_current
ClearedSinceMutant(t, g) == Cleared(t)
ClearedSince(t, g) == IF t.generation = g THEN Cleared(t) ELSE t

\* A response of the server writes the jar: maybe a new cookie in it.
Respond ==
    \/ UNCHANGED <<jar, minted>>
    \/ minted < MaxMint /\ minted' = minted + 1 /\ jar' = minted'

---------------------------------------------------------------------------
(* Where a call goes on *)

\* Bookkeeping of c's step: an operation it begins starts with no one
\* having interfered; a change it makes is news to all the others.
Witnessed(c) ==
    LET others(changed) == IF changed THEN Callers \ {c} ELSE {}
        starts(pcs) == IF call'[c].pc \in pcs THEN {c} ELSE {}
    IN  /\ stale' = (stale \cup others(token'.generation # token.generation)) \ starts(InFlight)
        /\ cleared' = (cleared \cup others(tmdGeneration' # tmdGeneration)) \ starts({"sent"})

\* c makes its request number k, signed with t.
Sending(c, t, k) ==
    call' = [call EXCEPT ![c].pc = "sent", ![c].try = k,
                         ![c].signed = t.value, ![c].since = t.generation]

Moving(c, pc) == call' = [call EXCEPT ![c].pc = pc]

\* After _bootstrap_token: the replay after a recovery needs a good token.
AfterBootMutant(c, t) == Sending(c, t, call[c].try)
AfterBoot(c, t) ==
    IF call[c].try = 3 /\ Expired(t) THEN Moving(c, "done") ELSE Sending(c, t, call[c].try)

\* request() after a successful recovery, with token t and jar j: a token the
\* jar no longer carries is dropped, a missing one bootstrapped.
AfterRecovery(c, t, j) ==
    LET u == IF ~Expired(t) /\ j # t.value THEN Cleared(t) ELSE t
    IN  /\ token' = u
        /\ IF Expired(u)
           THEN call' = [call EXCEPT ![c].pc = "bootWait", ![c].try = 3]
           ELSE Sending(c, u, 3)

---------------------------------------------------------------------------
(* request() *)

Start(c) ==
    /\ call[c].pc = "new"
    /\ IF Expired(token) THEN Moving(c, "bootWait") ELSE Sending(c, token, 1)
    /\ UNCHANGED <<shared, locks, tmdGeneration>>
    /\ Witnessed(c)

\* A usable answer, an error it does not know, or any answer to the last try.
AnswerFinal(c) ==
    /\ call[c].pc = "sent"
    /\ Respond
    /\ token' = InstalledSince(token, call[c].since, jar')
    /\ Moving(c, "done")
    /\ UNCHANGED <<locks, tmdGeneration>>
    /\ Witnessed(c)

\* FAIL_SYS_TOKEN_EXOIRED or FAIL_SYS_TOKEN_EMPTY, often with a new cookie.
AnswerExpired(c) ==
    /\ call[c].pc = "sent" /\ call[c].try = 1
    /\ Respond
    /\ token' = ClearedSince(InstalledSince(token, call[c].since, jar'), call[c].since)
    /\ call' = [call EXCEPT ![c].pc = "bootWait", ![c].try = 2]
    /\ UNCHANGED <<locks, tmdGeneration>>
    /\ Witnessed(c)

\* An x5sec block, with the URL of a challenge or without a usable one.
AnswerBlocked(c) ==
    /\ call[c].pc = "sent" /\ call[c].try < 3
    /\ Respond
    /\ token' = InstalledSince(token, call[c].since, jar')
    /\ \/ call' = [call EXCEPT ![c].pc = "tmdWait", ![c].seen = tmdGeneration]
       \/ call' = [call EXCEPT ![c].pc = "primeWait"]
    /\ UNCHANGED <<locks, tmdGeneration>>
    /\ Witnessed(c)

---------------------------------------------------------------------------
(* The recoveries *)

\* _bootstrap_token, once it has the lock: another may have been faster.
BootEnter(c) ==
    /\ call[c].pc = "bootWait" /\ bootLock = NoCaller
    /\ IF Expired(token)
       THEN /\ bootLock' = c
            /\ call' = [call EXCEPT ![c].pc = "boot", ![c].since = token.generation]
       ELSE /\ AfterBoot(c, token)
            /\ UNCHANGED bootLock
    /\ UNCHANGED <<shared, primeLock, tmdLock, tmdGeneration>>
    /\ Witnessed(c)

BootDone(c) ==
    /\ call[c].pc = "boot"
    /\ Respond
    /\ token' = InstalledSince(token, call[c].since, jar')
    /\ AfterBoot(c, token')
    /\ bootLock' = NoCaller
    /\ UNCHANGED <<primeLock, tmdLock, tmdGeneration>>
    /\ Witnessed(c)

\* _warm_origin_for_token: a token renewed since the blocked request will do.
PrimeEnter(c) ==
    /\ call[c].pc = "primeWait" /\ primeLock = NoCaller
    /\ IF token.generation # call[c].since
       THEN AfterRecovery(c, token, jar) /\ UNCHANGED primeLock
       ELSE primeLock' = c /\ Moving(c, "priming") /\ UNCHANGED token
    /\ UNCHANGED <<jar, minted, bootLock, tmdLock, tmdGeneration>>
    /\ Witnessed(c)

\* The prime ends, or raises; it succeeded if it earned a token or someone did.
PrimeDone(c) ==
    /\ call[c].pc = "priming"
    /\ Respond
    /\ \/ /\ token.generation # call[c].since \/ jar' # 0
          /\ AfterRecovery(c, InstalledSince(token, call[c].since, jar'), jar')
       \/ /\ token.generation = call[c].since
          /\ Moving(c, "done")
          /\ UNCHANGED token
    /\ primeLock' = NoCaller
    /\ UNCHANGED <<bootLock, tmdLock, tmdGeneration>>
    /\ Witnessed(c)

\* _solve_issued_tmd_challenge: a solve since this one was observed will do.
TmdEnterMutant(c) ==
    /\ call[c].pc = "tmdWait" /\ tmdLock = NoCaller
    /\ tmdLock' = c
    /\ call' = [call EXCEPT ![c].pc = "solving", ![c].since = token.generation]
    /\ UNCHANGED <<shared, bootLock, primeLock, tmdGeneration>>
    /\ Witnessed(c)
TmdEnter(c) ==
    /\ call[c].pc = "tmdWait" /\ tmdLock = NoCaller
    /\ IF tmdGeneration # call[c].seen
       THEN AfterRecovery(c, token, jar) /\ UNCHANGED tmdLock
       ELSE /\ tmdLock' = c
            /\ call' = [call EXCEPT ![c].pc = "solving", ![c].since = token.generation]
            /\ UNCHANGED token
    /\ UNCHANGED <<jar, minted, bootLock, primeLock, tmdGeneration>>
    /\ Witnessed(c)

\* The solver succeeds; it may have minted a cookie or have lost the one of the jar.
Solved(c) ==
    /\ call[c].pc = "solving"
    /\ Respond \/ (jar' = 0 /\ UNCHANGED minted)
    /\ tmdGeneration' = tmdGeneration + 1
    /\ AfterRecovery(c, InstalledSince(token, call[c].since, jar'), jar')
    /\ tmdLock' = NoCaller
    /\ UNCHANGED <<bootLock, primeLock>>
    /\ Witnessed(c)

\* The solver fails or raises: the blocked answer is what the caller gets.
NotSolved(c) ==
    /\ call[c].pc = "solving"
    /\ Respond
    /\ Moving(c, "done")
    /\ tmdLock' = NoCaller
    /\ UNCHANGED <<token, bootLock, primeLock, tmdGeneration>>
    /\ Witnessed(c)

Releasing(lock, c) == IF lock = c THEN NoCaller ELSE lock

\* The call is cancelled, its deadline passes while it waits for a lock, or the
\* session raises.  Its answer may have reached the jar.  Locks are released.
LeaveMutant(c) ==
    /\ call[c].pc \in InFlight \cup Waits
    /\ IF call[c].pc \in InFlight THEN Respond ELSE UNCHANGED <<jar, minted>>
    /\ Moving(c, "gone")
    /\ UNCHANGED <<locks, token, tmdGeneration>>
    /\ Witnessed(c)
Leave(c) ==
    /\ call[c].pc \in InFlight \cup Waits
    /\ IF call[c].pc \in InFlight THEN Respond ELSE UNCHANGED <<jar, minted>>
    /\ Moving(c, "gone")
    /\ bootLock' = Releasing(bootLock, c)
    /\ primeLock' = Releasing(primeLock, c)
    /\ tmdLock' = Releasing(tmdLock, c)
    /\ UNCHANGED <<token, tmdGeneration>>
    /\ Witnessed(c)

\* TOKEN_TTL passes.
Age ==
    /\ token.value # 0 /\ ~token.aged
    /\ token' = [token EXCEPT !.aged = TRUE]
    /\ UNCHANGED <<jar, minted, locks, tmdGeneration, call, stale, cleared>>

Progress(c) ==
    \/ AnswerFinal(c) \/ AnswerExpired(c) \/ AnswerBlocked(c)
    \/ BootEnter(c) \/ BootDone(c) \/ PrimeEnter(c) \/ PrimeDone(c)
    \/ TmdEnter(c) \/ Solved(c) \/ NotSolved(c)

Next == (\E c \in Callers : Start(c) \/ Progress(c) \/ Leave(c)) \/ Age

Spec == Init /\ [][Next]_vars

\* Requests, primes and solves run under timeouts, and the loop resumes whoever
\* can go on.  Nobody need be cancelled, and no token need grow old.
FairSpec == Spec /\ \A c \in Callers : WF_vars(Progress(c))

---------------------------------------------------------------------------
(* Correctness *)

Moves(c) == call'[c] # call[c]

\* A late result, good or bad, leaves the token alone that another call has
\* changed since the operation began; only a token that the jar has lost, as a
\* solved challenge may lose it, is dropped whoever installed it.
NewerTokenSurvives ==
    [][\A c \in stale : Moves(c) /\ token'.value # token.value =>
           token'.value = 0 /\ jar' # token.value]_vars

\* A token is invalidated only by a call whose request was signed with it, or
\* when the jar no longer sends its cookie: a failure never costs the other
\* calls a token that works.
OnlyRefusedTokenCleared ==
    [][token.value # 0 /\ token'.value = 0 =>
           \/ jar' # token.value
           \/ \E c \in Callers : Moves(c) /\ call[c].signed = token.value]_vars

\* A call that waited while another solved a challenge does not solve its own.
WaitersShareTheSolve ==
    \A c \in Callers : call[c].pc = "solving" => call[c].seen = tmdGeneration

\* The replay after a recovery is always signed: "Do not replay an unsigned
\* request when bootstrap still fails" (mtop.py:451).
ReplayIsSigned ==
    \A c \in Callers : call[c].pc = "sent" /\ call[c].try = 3 => call[c].signed # 0

\* Every call ends, though others be cancelled or fail with a lock in hand: each
\* is made once, and again and again none is under way.
EveryCallEnds == []<>(\A c \in Callers : call[c].pc \in {"new"} \cup Ended)

\* "concurrent MTop calls must share the clearance earned by the first solve"
\* (mtop.py:144): no call opens a challenge if another's solve succeeded since
\* its own request was sent.
ClearanceIsShared == \A c \in Callers : call[c].pc = "solving" => c \notin cleared

=============================================================================
