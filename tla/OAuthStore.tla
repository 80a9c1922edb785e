----------------------------- MODULE OAuthStore -----------------------------
(***************************************************************************)
(* The OAuth store of src/src/fetchaller/http/oauth.py and the token       *)
(* endpoint that uses it (http/routes.py): client registrations and        *)
(* refresh tokens live in memory and in one JSON file that every mutation  *)
(* rewrites; authorization codes live in memory only.                      *)
(*                                                                         *)
(* Every operation is synchronous, so it is one step for the other         *)
(* coroutines, but not for the disk: writing the file may fail before the  *)
(* rename (the old file stays), or after it (the new file is visible but   *)
(* its directory entry is not known to be durable), and the process may    *)
(* die in the middle.  A registry is what the file holds: clients and      *)
(* refresh tokens.  The store is one record, because an operation may      *)
(* commit twice.                                                           *)
(***************************************************************************)
EXTENDS Integers, FiniteSets, Functions

CONSTANTS
    Clients, Codes, Tokens,  \* identifiers that may be generated, once each
    MaxClients,              \* max_clients
    MaxAuthCodes,            \* max_auth_codes
    AuthCodeTTL, RefreshTokenTTL, ClientTTL, PendingClientTTL,
    Horizon                  \* bound on the clock

ASSUME StoreAssumption ==
    /\ MaxClients \in Nat \ {0}
    /\ MaxAuthCodes \in Nat \ {0}
    /\ {AuthCodeTTL, RefreshTokenTTL, ClientTTL, PendingClientTTL} \subseteq Nat
    /\ Horizon \in Nat

VARIABLES
    now,        \* time.time()
    up,         \* the process runs
    store,      \* memory and disk, below
    locked,     \* _persistence_locked: the file could not be read
    authCodes,  \* auth_codes: code |-> its client and expiry
    keyValid,   \* the API key the pairings were made with is configured
    tokenFate,  \* history: what the holder of each refresh token knows
    codeFate    \* history: what became of each authorization code

vars == <<now, up, store, locked, authCodes, keyValid, tokenFate, codeFate>>

Client == [created : Nat, used : Nat, paired : BOOLEAN]
Token == [client : Clients, expires : Nat]

\* f maps some elements of S to elements of T.
IsPartial(f, S, T) == DOMAIN f \subseteq S /\ f \in [DOMAIN f -> T]

\* A registry maps the known clients and tokens to their data.
IsRegistry(reg) ==
    /\ DOMAIN reg = {"clients", "tokens"}
    /\ IsPartial(reg.clients, Clients, Client)
    /\ IsPartial(reg.tokens, Tokens, Token)

\* Python's empty dict.
EmptyDict == [x \in {} |-> x]
Empty == [clients |-> EmptyDict, tokens |-> EmptyDict]

TypeOK ==
    /\ now \in Nat
    /\ up \in BOOLEAN
    /\ DOMAIN store = {"reg", "disk", "synced", "ready"}
    /\ \A reg \in {store.reg, store.disk, store.synced} : IsRegistry(reg)
    /\ store.ready \in BOOLEAN
    /\ locked \in BOOLEAN
    /\ IsPartial(authCodes, Codes, Token)
    /\ keyValid \in BOOLEAN
    /\ tokenFate \in [Tokens -> {"new", "given", "spent", "doubtful", "unseen"}]
    /\ codeFate \in [Codes -> {"new", "given", "spent", "misused"}]

\* A fresh data directory; the probing write may have failed.
Init ==
    /\ now = 0
    /\ up = TRUE
    /\ \E r \in BOOLEAN :
           store = [reg |-> Empty, disk |-> Empty, synced |-> Empty, ready |-> r]
    /\ locked = FALSE
    /\ authCodes = EmptyDict
    /\ keyValid = TRUE
    /\ tokenFate = [t \in Tokens |-> "new"]
    /\ codeFate = [c \in Codes |-> "new"]

---------------------------------------------------------------------------
(* The registry *)

Without(f, S) == Restrict(f, DOMAIN f \ S)
With(f, x, v) == [y \in DOMAIN f \cup {x} |-> IF y = x THEN v ELSE f[y]]

\* _remove_client, for a set of clients: their tokens go with them.
RemoveClients(reg, C) ==
    [clients |-> Without(reg.clients, C),
     tokens |-> Without(reg.tokens, {t \in DOMAIN reg.tokens : reg.tokens[t].client \in C})]

ClientExpired(c) ==
    \/ ~c.paired /\ c.created < now - PendingClientTTL
    \/ c.paired /\ c.used < now - ClientTTL

Expired(entry) == entry.expires < now

CleanedMutant(reg) ==
    [clients |-> Without(reg.clients, {c \in DOMAIN reg.clients : ClientExpired(reg.clients[c])}),
     tokens |-> Without(reg.tokens, {t \in DOMAIN reg.tokens : Expired(reg.tokens[t])})]

\* _cleanup's effect on the registry: stale clients, then expired tokens.
Cleaned(reg) ==
    LET r == RemoveClients(reg, {c \in DOMAIN reg.clients : ClientExpired(reg.clients[c])})
    IN  [r EXCEPT !.tokens =
            Without(@, {t \in DOMAIN @ : Expired(@[t]) \/ @[t].client \notin DOMAIN r.clients})]

\* _cleanup's effect on the codes.
LiveCodes == Without(authCodes, {c \in DOMAIN authCodes : Expired(authCodes[c])})

\* paired_at and last_used_at as create_auth_code sets them.
Paired(reg, c) ==
    [reg EXCEPT !.clients[c] = [@ EXCEPT !.paired = TRUE, !.used = now]]

NewTokenMutant(c) == [client |-> c, expires |-> now - RefreshTokenTTL]
NewToken(c) == [client |-> c, expires |-> now + RefreshTokenTTL]

---------------------------------------------------------------------------
(* _persist *)

\* The file now holds reg; the directory entry was synced, or that failed.
Commits(s, reg) ==
    IF locked THEN {}
    ELSE {[s EXCEPT !.reg = reg, !.disk = reg, !.synced = reg, !.ready = TRUE],
          [s EXCEPT !.reg = reg, !.disk = reg, !.ready = FALSE]}

\* The file was not replaced: the operation restores the memory it had.
FailsMutant(s, reg) == {[s EXCEPT !.reg = reg, !.ready = FALSE]}
Fails(s, reg) == {[s EXCEPT !.ready = FALSE]}

\* The process dies after the rename, before it can answer anybody.
Dies(s, reg) == [s EXCEPT !.reg = Empty, !.disk = reg, !.ready = FALSE]

Die(reg) ==
    /\ ~locked
    /\ up' = FALSE
    /\ store' = Dies(store, reg)
    /\ authCodes' = EmptyDict

---------------------------------------------------------------------------
(* Operations *)

\* The periodic _cleanup.
Cleanup ==
    /\ up
    /\ authCodes' = LiveCodes
    /\ IF Cleaned(store.reg) = store.reg
       THEN UNCHANGED store
       ELSE store' \in Commits(store, Cleaned(store.reg)) \cup Fails(store, Cleaned(store.reg))
    /\ UNCHANGED <<now, up, locked, keyValid, tokenFate, codeFate>>

\* The pending registrations that make room for one more: the oldest ones.
EvictableMutant(reg, n) == {E \in SUBSET DOMAIN reg.clients : Cardinality(E) = n}
Evictable(reg, n) ==
    LET pending == {c \in DOMAIN reg.clients : ~reg.clients[c].paired}
    IN  {E \in SUBSET pending :
            /\ Cardinality(E) = n
            /\ \A c \in E, d \in pending \ E : reg.clients[c].created <= reg.clients[d].created}

\* How many clients must go before one can be registered.
Excess(reg) ==
    LET n == Cardinality(DOMAIN reg.clients) - MaxClients + 1
    IN  IF n > 0 THEN n ELSE 0

\* register_client: clean up, evict, add; all or nothing in the registry.
Register(c) ==
    /\ up
    /\ c \notin DOMAIN store.reg.clients
    /\ authCodes' = LiveCodes
    /\ LET base == Cleaned(store.reg)
           new(E) == LET r == RemoveClients(base, E)
                     IN  [r EXCEPT !.clients =
                             With(@, c, [created |-> now, used |-> now, paired |-> FALSE])]
           evictions == Evictable(base, Excess(base))
       IN  IF evictions = {} THEN UNCHANGED store
           ELSE \E E \in evictions : store' \in Commits(store, new(E)) \cup Fails(store, new(E))
    /\ UNCHANGED <<now, up, locked, keyValid, tokenFate, codeFate>>

\* The stores in which create_auth_code goes on: at capacity it cleans up
\* first, which commits or not.
AfterCapacityCleanup ==
    LET cleaned == Cleaned(store.reg)
    IN  IF Cardinality(DOMAIN authCodes) < MaxAuthCodes \/ cleaned = store.reg
        THEN {store}
        ELSE Commits(store, cleaned) \cup Fails(store, cleaned)

\* create_auth_code for client c, approved with the API key.
Authorize(c, code) ==
    LET codes == IF Cardinality(DOMAIN authCodes) >= MaxAuthCodes THEN LiveCodes ELSE authCodes
    IN
    /\ up
    /\ keyValid
    /\ codeFate[code] = "new"
    /\ \E s \in AfterCapacityCleanup :
           IF Cardinality(DOMAIN codes) >= MaxAuthCodes \/ c \notin DOMAIN s.reg.clients
           THEN /\ store' = s
                /\ authCodes' = codes
                /\ UNCHANGED codeFate
           ELSE \/ /\ store' \in Commits(s, Paired(s.reg, c))
                   /\ authCodes' = With(codes, code, [client |-> c, expires |-> now + AuthCodeTTL])
                   /\ codeFate' = [codeFate EXCEPT ![code] = "given"]
                \/ /\ store' \in Fails(s, Paired(s.reg, c))
                   /\ authCodes' = codes
                   /\ UNCHANGED codeFate
    /\ UNCHANGED <<now, up, locked, keyValid, tokenFate>>

\* The registry with a refresh token n for client c.
Granted(reg, c, n) == [reg EXCEPT !.tokens = With(@, n, NewToken(c))]

\* restore_auth_code: setdefault of a code that was just consumed.
RestoredMutant(code) == Without(authCodes, {code})
Restored(code) == authCodes

ConsumedMutant(code) == authCodes
Consumed(code) == Without(authCodes, {code})

\* The token endpoint exchanges a valid code: consume it, create and persist
\* a refresh token, restore the code when that fails.
Exchange(code, n) ==
    LET entry == authCodes[code]
        c == entry.client
        reg == Granted(store.reg, c, n)
        pairedClient == c \in DOMAIN store.reg.clients /\ store.reg.clients[c].paired
    IN
    /\ up
    /\ code \in DOMAIN authCodes
    /\ ~Expired(entry)
    /\ tokenFate[n] = "new"
    /\ \/ /\ pairedClient
          /\ store' \in Commits(store, reg)
          /\ authCodes' = Consumed(code)
          /\ codeFate' = [codeFate EXCEPT ![code] = "spent"]
          /\ tokenFate' = [tokenFate EXCEPT ![n] = "given"]
       \/ /\ store' \in (IF pairedClient THEN Fails(store, reg) ELSE {store})
          /\ authCodes' = Restored(code)
          /\ UNCHANGED <<codeFate, tokenFate>>
    /\ UNCHANGED <<now, up, locked, keyValid>>

\* A code presented late, by another client, for another redirect or with a
\* wrong verifier, scope or resource: it is consumed, and nothing is given.
Misuse(code) ==
    /\ up
    /\ code \in DOMAIN authCodes
    /\ authCodes' = Consumed(code)
    /\ codeFate' = [codeFate EXCEPT ![code] = "misused"]
    /\ UNCHANGED <<now, up, store, locked, keyValid, tokenFate>>

\* The registry with t replaced by n, its client used now.
RotatedMutant(reg, t, n) ==
    LET c == reg.tokens[t].client
    IN  [Granted(reg, c, n) EXCEPT !.clients[c] = [@ EXCEPT !.used = now]]
Rotated(reg, t, n) ==
    LET c == reg.tokens[t].client
        r == [reg EXCEPT !.tokens = Without(@, {t})]
    IN  [Granted(r, c, n) EXCEPT !.clients[c] = [@ EXCEPT !.used = now]]

\* A rotation that could not be written puts t back.
UnrotatedMutant(t) ==
    {[store EXCEPT !.ready = FALSE, !.reg = [@ EXCEPT !.tokens = Without(@, {t})]]}
Unrotated(t) == {[store EXCEPT !.ready = FALSE]}

\* Somebody can present t: its raw value was sent to a client.
Redeemable(t) ==
    /\ up
    /\ tokenFate[t] # "unseen"
    /\ t \in DOMAIN store.reg.tokens
    /\ store.reg.tokens[t].client \in DOMAIN store.reg.clients

\* rotate_refresh_token with a live token of the client that presents it.
Rotate(t, n) ==
    /\ Redeemable(t)
    /\ keyValid
    /\ ~Expired(store.reg.tokens[t])
    /\ tokenFate[n] = "new"
    /\ LET reg == Rotated(store.reg, t, n)
       IN  \/ /\ store' \in Commits(store, reg)
              /\ tokenFate' = [tokenFate EXCEPT ![t] = "spent", ![n] = "given"]
           \/ /\ store' \in Unrotated(t)
              /\ UNCHANGED tokenFate
    /\ UNCHANGED <<now, up, locked, authCodes, keyValid, codeFate>>

\* rotate_refresh_token with an expired token, or one whose API key is no
\* longer configured: the token is deleted.
Reject(t) ==
    /\ Redeemable(t)
    /\ Expired(store.reg.tokens[t]) \/ ~keyValid
    /\ LET reg == [store.reg EXCEPT !.tokens = Without(@, {t})]
       IN  store' \in Commits(store, reg) \cup Fails(store, reg)
    /\ UNCHANGED <<now, up, locked, authCodes, keyValid, tokenFate, codeFate>>

---------------------------------------------------------------------------
(* Crashes and restarts *)

\* The process ends between two operations.
Crash ==
    /\ up
    /\ up' = FALSE
    /\ store' = [store EXCEPT !.reg = Empty, !.ready = FALSE]
    /\ authCodes' = EmptyDict
    /\ UNCHANGED <<now, locked, keyValid, tokenFate, codeFate>>

\* The process ends in the middle of a rotation or an exchange: the file is
\* replaced but the client never sees its new token.  (In the middle of any
\* other operation is the same as right after it: nobody waits for a token.)
CrashInRotate(t, n) ==
    /\ Redeemable(t)
    /\ keyValid
    /\ ~Expired(store.reg.tokens[t])
    /\ tokenFate[n] = "new"
    /\ Die(Rotated(store.reg, t, n))
    /\ tokenFate' = [tokenFate EXCEPT ![t] = "doubtful", ![n] = "unseen"]
    /\ UNCHANGED <<now, locked, keyValid, codeFate>>

CrashInExchange(code, n) ==
    /\ up
    /\ code \in DOMAIN authCodes
    /\ ~Expired(authCodes[code])
    /\ authCodes[code].client \in DOMAIN store.reg.clients
    /\ store.reg.clients[authCodes[code].client].paired
    /\ tokenFate[n] = "new"
    /\ Die(Granted(store.reg, authCodes[code].client, n))
    /\ tokenFate' = [tokenFate EXCEPT ![n] = "unseen"]
    /\ UNCHANGED <<now, locked, keyValid, codeFate>>

\* Memory after _load: what the file holds, cleaned.  A change is written
\* back; if that fails the cleaned registry stays.  A registry that is empty
\* may also be a file that does not exist yet: the probing write may fail.
Loaded ==
    LET s == [store EXCEPT !.reg = Cleaned(store.disk), !.ready = TRUE]
    IN  IF s.reg = store.disk
        THEN {[s EXCEPT !.ready = r] : r \in {TRUE, store.disk # Empty}}
        ELSE {[s EXCEPT !.disk = s.reg, !.synced = s.reg],
              [s EXCEPT !.disk = s.reg, !.ready = FALSE],
              [s EXCEPT !.ready = FALSE]}

\* __post_init__ of a new process; the configured API keys may have changed.
Restart ==
    /\ ~up
    /\ up' = TRUE
    /\ keyValid' \in BOOLEAN
    /\ \/ locked' = FALSE /\ store' \in Loaded
       \/ locked' = TRUE /\ store' = [store EXCEPT !.reg = Empty, !.ready = FALSE]
    /\ UNCHANGED <<now, authCodes, tokenFate, codeFate>>

\* The system writes the directory back when it likes, so that "synced" may be
\* any file since the last fsync.
WriteBack ==
    /\ store.synced # store.disk
    /\ store' = [store EXCEPT !.synced = store.disk]
    /\ UNCHANGED <<up, now, locked, keyValid, authCodes, tokenFate, codeFate>>

\* The machine stops: the directory may still hold the file that was synced
\* last, and with it tokens that were exchanged since.
PowerLoss ==
    /\ up' = FALSE
    /\ \E d \in {store.disk, store.synced} :
           /\ store' = [store EXCEPT !.reg = Empty, !.disk = d, !.synced = d, !.ready = FALSE]
           /\ tokenFate' = [t \in Tokens |->
                  IF tokenFate[t] = "spent" /\ t \in DOMAIN d.tokens THEN "doubtful"
                  ELSE tokenFate[t]]
    /\ authCodes' = EmptyDict
    /\ UNCHANGED <<now, locked, keyValid, codeFate>>

Tick ==
    /\ now < Horizon
    /\ now' = now + 1
    /\ UNCHANGED <<up, store, locked, authCodes, keyValid, tokenFate, codeFate>>

Serve ==
    \/ Cleanup
    \/ \E c \in Clients : Register(c) \/ \E code \in Codes : Authorize(c, code)
    \/ \E code \in Codes : Misuse(code) \/ \E n \in Tokens : Exchange(code, n)
    \/ \E t \in Tokens : Reject(t) \/ \E n \in Tokens : Rotate(t, n)

Stop ==
    \/ Crash
    \/ \E n \in Tokens :
           \/ \E t \in Tokens : CrashInRotate(t, n)
           \/ \E code \in Codes : CrashInExchange(code, n)

Next == Serve \/ Stop \/ Restart \/ WriteBack \/ PowerLoss \/ Tick

Spec == Init /\ [][Next]_vars

---------------------------------------------------------------------------
(* Correctness *)

\* Memory never runs ahead of the file, whichever write failed: each client
\* and token a request can use is in the visible file with the same data, and
\* while persistence is reported ready nothing else is in the file.
MemoryIsCommitted ==
    up /\ ~locked =>
        /\ IsRestriction(store.reg.clients, store.disk.clients)
        /\ IsRestriction(store.reg.tokens, store.disk.tokens)
        /\ store.ready => store.reg = store.disk

\* Each refresh token belongs to a client that is registered and paired, in
\* memory and in any file a restart may read.
NoOrphanToken ==
    \A reg \in {store.reg, store.disk, store.synced} : \A t \in DOMAIN reg.tokens :
        /\ reg.tokens[t].client \in DOMAIN reg.clients
        /\ reg.clients[reg.tokens[t].client].paired

\* What was honoured is not honoured again: a refresh token that was exchanged
\* for another, not after failed writes, crashes and restarts (only a power
\* loss that finds the directory unsynced brings it back), and an
\* authorization code, although a failed exchange puts it back.
GrantsSingleUse ==
    /\ \A t \in Tokens : tokenFate[t] = "spent" =>
           t \notin DOMAIN store.reg.tokens \cup DOMAIN store.disk.tokens
    /\ \A c \in Codes : codeFate[c] \in {"spent", "misused"} => c \notin DOMAIN authCodes

InUse(client) == client.paired /\ client.used >= now - ClientTTL

\* The power goes before the directory was synced.
UnsyncedLoss == store.disk # store.synced /\ ~up' /\ store'.disk = store.synced

\* No registration, eviction, cleanup, failed write or restart locks a user
\* out.  A paired client that is in use stays in the file, and so does the
\* unexpired token its holder was given, until it is exchanged or its API key
\* is withdrawn.
AccessKept ==
    [][UnsyncedLoss \/
       /\ \A c \in DOMAIN store.disk.clients :
             InUse(store.disk.clients[c]) => c \in DOMAIN store'.disk.clients
       /\ \A t \in DOMAIN store.disk.tokens :
             LET token == store.disk.tokens[t]
             IN  /\ token.expires >= now
                 /\ token.client \in DOMAIN store.disk.clients
                 /\ InUse(store.disk.clients[token.client])
                 /\ keyValid
                 /\ tokenFate[t] = "given"
                 => t \in DOMAIN store'.disk.tokens \/ tokenFate'[t] # "given"]_vars

\* A disk error does not cost the user the authorization: a code vanishes
\* from a running server only when it is honoured, misused or expired.
CodeNotBurnt ==
    [][\A c \in DOMAIN authCodes :
          up /\ up' /\ authCodes[c].expires >= now =>
              c \in DOMAIN authCodes' \/ codeFate'[c] # codeFate[c]]_vars

\* The endpoint that reports readiness promises what the commit primitive
\* promises: what was answered survives a power loss.
ReadyIsDurable == up /\ store.ready => store.synced = store.disk

=============================================================================
