-------------------------- MODULE OAuthStoreProofs --------------------------
(***************************************************************************)
(* Theorems about the OAuth store: for any capacities, lifetimes and       *)
(* numbers of clients, codes and tokens, and whichever writes fail and     *)
(* whenever the process or the machine stops.                              *)
(***************************************************************************)
EXTENDS OAuthStore, TLAPS

---------------------------------------------------------------------------
(* Registries *)

\* Each token's client is registered and paired.
Owned(reg) ==
    \A t \in DOMAIN reg.tokens :
        /\ reg.tokens[t].client \in DOMAIN reg.clients
        /\ reg.clients[reg.tokens[t].client].paired

Good(reg) == IsRegistry(reg) /\ Owned(reg)

\* InUse and Expired at a given time.
UsedAt(client, time) == client.paired /\ client.used >= time - ClientTTL

LiveAt(reg, t, time) ==
    /\ reg.tokens[t].expires >= time
    /\ reg.tokens[t].client \in DOMAIN reg.clients
    /\ UsedAt(reg.clients[reg.tokens[t].client], time)

\* The clients in use and the live tokens, but for those of dead, stay.
Keeps(old, new, time, dead) ==
    /\ \A c \in DOMAIN old.clients :
           UsedAt(old.clients[c], time) => c \in DOMAIN new.clients
    /\ \A t \in DOMAIN old.tokens \ dead :
           LiveAt(old, t, time) => t \in DOMAIN new.tokens

\* new is a registry that an operation may make of old: it spares who is in
\* use, and has no tokens besides old's and those of fresh.
Follows(old, new, time, dead, fresh) ==
    /\ Good(new)
    /\ DOMAIN new.tokens \subseteq DOMAIN old.tokens \cup fresh
    /\ Keeps(old, new, time, dead)

\* part has some of the entries of whole.
Within(part, whole) ==
    /\ IsRestriction(part.clients, whole.clients)
    /\ IsRestriction(part.tokens, whole.tokens)

LEMMA EmptyGood == Good(Empty) /\ \A reg : Within(Empty, reg)
  BY DEF Good, Owned, IsRegistry, IsPartial, Empty, EmptyDict, Within, IsRestriction

\* Clients leave with their tokens.
LEMMA RemovedFact ==
    ASSUME NEW reg, Good(reg), NEW C
    PROVE  /\ Good(RemoveClients(reg, C))
           /\ Within(RemoveClients(reg, C), reg)
           /\ DOMAIN RemoveClients(reg, C).clients = DOMAIN reg.clients \ C
           /\ DOMAIN RemoveClients(reg, C).tokens =
                  {t \in DOMAIN reg.tokens : reg.tokens[t].client \notin C}
<1> DEFINE gone == {t \in DOMAIN reg.tokens : reg.tokens[t].client \in C}
           new == RemoveClients(reg, C)
<1>1. new.clients = Without(reg.clients, C) /\ new.tokens = Without(reg.tokens, gone)
      /\ DOMAIN new = {"clients", "tokens"}
  BY DEF RemoveClients
<1>2. IsPartial(reg.clients, Clients, Client) /\ IsPartial(reg.tokens, Tokens, Token)
  BY DEF Good, IsRegistry
<1>3. /\ IsPartial(new.clients, Clients, Client)
      /\ DOMAIN new.clients = DOMAIN reg.clients \ C
      /\ \A c \in DOMAIN new.clients : new.clients[c] = reg.clients[c]
  <2> HIDE DEF new
  <2> QED BY <1>1, <1>2 DEF IsPartial, Without, Restrict
<1>4. /\ IsPartial(new.tokens, Tokens, Token)
      /\ DOMAIN new.tokens = DOMAIN reg.tokens \ gone
      /\ \A t \in DOMAIN new.tokens : new.tokens[t] = reg.tokens[t]
  <2> HIDE DEF new
  <2> QED BY <1>1, <1>2 DEF IsPartial, Without, Restrict
<1>5. Good(new) /\ Within(new, reg)
  <2> HIDE DEF new
  <2> QED BY <1>1, <1>3, <1>4 DEF Good, Owned, IsRegistry, Within, IsRestriction
<1> QED BY <1>3, <1>4, <1>5

\* Deleting tokens leaves the rest alone.
LEMMA DeletedFact ==
    ASSUME NEW reg, Good(reg), NEW S, NEW new,
           new = [reg EXCEPT !.tokens = Without(@, S)]
    PROVE  /\ Good(new)
           /\ Within(new, reg)
           /\ new.clients = reg.clients
           /\ DOMAIN new.tokens = DOMAIN reg.tokens \ S
           /\ \A t \in DOMAIN new.tokens : new.tokens[t] = reg.tokens[t]
<1>1. /\ DOMAIN new = {"clients", "tokens"}
      /\ new.clients = reg.clients
      /\ new.tokens = Without(reg.tokens, S)
  BY DEF Good, IsRegistry
<1>2. IsPartial(reg.tokens, Tokens, Token)
  BY DEF Good, IsRegistry
<1>3. /\ IsPartial(new.tokens, Tokens, Token)
      /\ DOMAIN new.tokens = DOMAIN reg.tokens \ S
      /\ \A t \in DOMAIN new.tokens : new.tokens[t] = reg.tokens[t]
  BY <1>1, <1>2 DEF IsPartial, Without, Restrict
<1> QED BY <1>1, <1>3 DEF Good, Owned, IsRegistry, Within, IsRestriction

\* _cleanup takes away nobody who is in use.
LEMMA CleanedFact ==
    ASSUME StoreAssumption, now \in Nat, NEW reg, Good(reg)
    PROVE  /\ Follows(reg, Cleaned(reg), now, {}, {})
           /\ Within(Cleaned(reg), reg)
<1> DEFINE stale == {c \in DOMAIN reg.clients : ClientExpired(reg.clients[c])}
           r == RemoveClients(reg, stale)
           dead == {t \in DOMAIN r.tokens :
                      Expired(r.tokens[t]) \/ r.tokens[t].client \notin DOMAIN r.clients}
           new == Cleaned(reg)
<1>1. /\ Good(r) /\ Within(r, reg)
      /\ DOMAIN r.clients = DOMAIN reg.clients \ stale
      /\ DOMAIN r.tokens = {t \in DOMAIN reg.tokens : reg.tokens[t].client \notin stale}
  BY RemovedFact
<1>2. new = [r EXCEPT !.tokens = Without(@, dead)]
  BY DEF Cleaned
<1>3. /\ Good(new) /\ Within(new, r)
      /\ new.clients = r.clients
      /\ DOMAIN new.tokens = DOMAIN r.tokens \ dead
  <2> HIDE DEF new, r, dead
  <2> QED BY <1>1, <1>2, DeletedFact
<1>4. Within(new, reg) /\ DOMAIN new.tokens \subseteq DOMAIN reg.tokens
  <2> HIDE DEF new, r
  <2> QED BY <1>1, <1>3 DEF Within, IsRestriction
<1>5. ASSUME NEW c \in DOMAIN reg.clients, UsedAt(reg.clients[c], now)
      PROVE  c \notin stale
  <2>1. reg.clients[c] \in Client
    BY <1>5 DEF Good, IsRegistry, IsPartial
  <2> QED BY <1>5, <2>1 DEF UsedAt, ClientExpired, Client, StoreAssumption
<1>6. ASSUME NEW t \in DOMAIN reg.tokens, LiveAt(reg, t, now)
      PROVE  t \in DOMAIN new.tokens
  <2>1. reg.tokens[t] \in Token
    BY <1>6 DEF Good, IsRegistry, IsPartial
  <2>2. reg.tokens[t].client \in DOMAIN reg.clients \ stale
    BY <1>5, <1>6 DEF LiveAt
  <2>3. t \in DOMAIN r.tokens /\ r.tokens[t] = reg.tokens[t]
    <3> HIDE DEF r, stale
    <3> QED BY <1>1, <2>2 DEF Within, IsRestriction
  <2>4. ~Expired(r.tokens[t])
    <3> HIDE DEF r
    <3> QED BY <1>6, <2>1, <2>3 DEF LiveAt, Expired, Token
  <2>5. r.tokens[t].client \in DOMAIN r.clients
    <3> HIDE DEF r, stale
    <3> QED BY <1>1, <2>2, <2>3
  <2> HIDE DEF r, new
  <2> QED BY <1>3, <2>3, <2>4, <2>5
<1>7. Follows(reg, new, now, {}, {})
  <2> HIDE DEF new, r
  <2> QED BY <1>1, <1>3, <1>4, <1>5, <1>6 DEF Follows, Keeps
<1> QED BY <1>4, <1>7

\* A registration evicts pending clients only.
LEMMA RegisteredFact ==
    ASSUME StoreAssumption, now \in Nat, NEW reg, Good(reg),
           NEW c \in Clients, c \notin DOMAIN reg.clients,
           NEW n, NEW E \in Evictable(Cleaned(reg), n), NEW new,
           new = [RemoveClients(Cleaned(reg), E) EXCEPT !.clients =
                     With(@, c, [created |-> now, used |-> now, paired |-> FALSE])]
    PROVE  Follows(reg, new, now, {}, {})
<1> DEFINE base == Cleaned(reg)
           r == RemoveClients(base, E)
           v == [created |-> now, used |-> now, paired |-> FALSE]
<1>1. Follows(reg, base, now, {}, {}) /\ Within(base, reg)
  BY CleanedFact
<1>2. /\ Good(r) /\ Within(r, base)
      /\ DOMAIN r.clients = DOMAIN base.clients \ E
      /\ DOMAIN r.tokens = {t \in DOMAIN base.tokens : base.tokens[t].client \notin E}
  <2>1. Good(base) BY <1>1 DEF Follows
  <2> HIDE DEF base
  <2> QED BY <2>1, RemovedFact
<1>3. \A d \in E : ~base.clients[d].paired
  BY DEF Evictable
<1>4. c \notin DOMAIN r.clients
  <2> HIDE DEF base, r
  <2> QED BY <1>1, <1>2 DEF Within, IsRestriction
<1>5. new = [r EXCEPT !.clients = With(@, c, v)]
  OBVIOUS
<1> HIDE DEF base, r
<1>6. /\ DOMAIN new = {"clients", "tokens"}
      /\ new.tokens = r.tokens
      /\ new.clients = With(r.clients, c, v)
  BY <1>2, <1>5 DEF Good, IsRegistry
<1>7. v \in Client
  BY DEF Client
<1> HIDE DEF v
<1>8. /\ IsPartial(new.clients, Clients, Client)
      /\ DOMAIN new.clients = DOMAIN r.clients \cup {c}
      /\ \A d \in DOMAIN r.clients : new.clients[d] = r.clients[d]
  BY <1>2, <1>4, <1>6, <1>7 DEF Good, IsRegistry, IsPartial, With
<1>9. Good(new)
  <2>1. IsRegistry(r) /\ Owned(r)
    BY <1>2 DEF Good
  <2>2. IsRegistry(new)
    BY <1>6, <1>8, <2>1 DEF IsRegistry
  <2>3. ASSUME NEW t \in DOMAIN new.tokens
        PROVE  LET d == new.tokens[t].client
               IN  d \in DOMAIN new.clients /\ new.clients[d].paired
    <3>1. new.tokens[t] = r.tokens[t] /\ t \in DOMAIN r.tokens
      BY <1>6
    <3>2. /\ r.tokens[t].client \in DOMAIN r.clients
          /\ r.clients[r.tokens[t].client].paired
      BY <2>1, <3>1 DEF Owned
    <3> QED BY <1>8, <3>1, <3>2
  <2> QED BY <2>2, <2>3 DEF Good, Owned
<1>10. ASSUME NEW d \in DOMAIN reg.clients, UsedAt(reg.clients[d], now)
       PROVE  d \in DOMAIN r.clients
  <2>1. d \in DOMAIN base.clients /\ base.clients[d] = reg.clients[d]
    BY <1>1, <1>10 DEF Follows, Keeps, Within, IsRestriction
  <2> QED BY <1>2, <1>3, <1>10, <2>1 DEF UsedAt
<1>11. ASSUME NEW t \in DOMAIN reg.tokens, LiveAt(reg, t, now)
       PROVE  t \in DOMAIN new.tokens
  <2>1. t \in DOMAIN base.tokens /\ base.tokens[t] = reg.tokens[t]
    BY <1>1, <1>11 DEF Follows, Keeps, Within, IsRestriction
  <2>2. reg.tokens[t].client \in DOMAIN r.clients
    BY <1>10, <1>11 DEF LiveAt
  <2> QED BY <1>2, <1>6, <2>1, <2>2
<1>12. DOMAIN new.tokens \subseteq DOMAIN reg.tokens
  BY <1>1, <1>2, <1>6 DEF Within, IsRestriction
<1> QED BY <1>8, <1>9, <1>10, <1>11, <1>12 DEF Follows, Keeps

\* A pairing, a grant and a rotation change one client, add one token and
\* replace one.
LEMMA PairedFact ==
    ASSUME now \in Nat, NEW reg, Good(reg), NEW c \in DOMAIN reg.clients,
           NEW new, new = Paired(reg, c)
    PROVE  Follows(reg, new, now, {}, {})
<1> DEFINE v == [reg.clients[c] EXCEPT !.paired = TRUE, !.used = now]
<1>1. reg.clients[c] \in Client
  BY DEF Good, IsRegistry, IsPartial
<1>2. v \in Client /\ v.paired
  BY <1>1 DEF Client
<1> HIDE DEF v
<1>3. /\ DOMAIN new = {"clients", "tokens"}
      /\ new.tokens = reg.tokens
      /\ new.clients = [reg.clients EXCEPT ![c] = v]
  BY DEF Good, IsRegistry, Paired, v
<1>4. /\ IsPartial(new.clients, Clients, Client)
      /\ DOMAIN new.clients = DOMAIN reg.clients
      /\ \A d \in DOMAIN reg.clients : new.clients[d] = IF d = c THEN v ELSE reg.clients[d]
  BY <1>2, <1>3 DEF Good, IsRegistry, IsPartial
<1>5. Good(new)
  BY <1>2, <1>3, <1>4 DEF Good, IsRegistry, Owned
<1> QED BY <1>3, <1>4, <1>5 DEF Follows, Keeps

LEMMA GrantedFact ==
    ASSUME StoreAssumption, now \in Nat, NEW reg, Good(reg), NEW n \in Tokens,
           NEW c \in DOMAIN reg.clients, reg.clients[c].paired,
           NEW new, new = Granted(reg, c, n)
    PROVE  /\ Follows(reg, new, now, {}, {n})
           /\ new.clients = reg.clients
           /\ DOMAIN new.tokens = DOMAIN reg.tokens \cup {n}
<1>1. c \in Clients
  BY DEF Good, IsRegistry, IsPartial
<1>2. NewToken(c) \in Token /\ NewToken(c).client = c
  BY <1>1 DEF NewToken, Token, StoreAssumption
<1>3. /\ DOMAIN new = {"clients", "tokens"}
      /\ new.clients = reg.clients
      /\ new.tokens = With(reg.tokens, n, NewToken(c))
  BY DEF Good, IsRegistry, Granted
<1>4. /\ IsPartial(new.tokens, Tokens, Token)
      /\ DOMAIN new.tokens = DOMAIN reg.tokens \cup {n}
      /\ \A t \in DOMAIN new.tokens :
             new.tokens[t] = IF t = n THEN NewToken(c) ELSE reg.tokens[t]
  BY <1>2, <1>3 DEF Good, IsRegistry, IsPartial, With
<1>5. Good(new)
  BY <1>2, <1>3, <1>4 DEF Good, IsRegistry, Owned
<1> QED BY <1>3, <1>4, <1>5 DEF Follows, Keeps

LEMMA RotatedFact ==
    ASSUME StoreAssumption, now \in Nat, NEW reg, Good(reg),
           NEW t \in DOMAIN reg.tokens, NEW n \in Tokens,
           NEW new, new = Rotated(reg, t, n)
    PROVE  /\ Follows(reg, new, now, {t}, {n})
           /\ t \in DOMAIN new.tokens => t = n
<1> DEFINE c == reg.tokens[t].client
           r == [reg EXCEPT !.tokens = Without(@, {t})]
           g == Granted(r, c, n)
           v == [g.clients[c] EXCEPT !.used = now]
<1>1. c \in DOMAIN reg.clients /\ reg.clients[c].paired
  BY DEF Good, Owned
<1>2. /\ Good(r) /\ r.clients = reg.clients
      /\ DOMAIN r.tokens = DOMAIN reg.tokens \ {t}
      /\ \A s \in DOMAIN r.tokens : r.tokens[s] = reg.tokens[s]
  BY DeletedFact
<1>3. new = [g EXCEPT !.clients[c] = v]
  BY DEF Rotated
<1> HIDE DEF r, c
<1>4. /\ Follows(r, g, now, {}, {n})
      /\ g.clients = reg.clients
      /\ DOMAIN g.tokens = DOMAIN r.tokens \cup {n}
  BY <1>1, <1>2, GrantedFact
<1> HIDE DEF g
<1>5. Good(g)
  BY <1>4 DEF Follows
<1>6. g.clients[c] \in Client
  BY <1>1, <1>4, <1>5 DEF Good, IsRegistry, IsPartial
<1>7. v \in Client /\ v.paired
  BY <1>1, <1>4, <1>6 DEF Client
<1> HIDE DEF v
<1>8. /\ DOMAIN new = {"clients", "tokens"}
      /\ new.tokens = g.tokens
      /\ new.clients = [g.clients EXCEPT ![c] = v]
  BY <1>3, <1>5 DEF Good, IsRegistry
<1>9. /\ IsPartial(new.clients, Clients, Client)
      /\ DOMAIN new.clients = DOMAIN g.clients
      /\ \A d \in DOMAIN g.clients : new.clients[d] = IF d = c THEN v ELSE g.clients[d]
  BY <1>5, <1>7, <1>8 DEF Good, IsRegistry, IsPartial
<1>10. Good(new)
  BY <1>5, <1>7, <1>8, <1>9 DEF Good, IsRegistry, Owned
<1> QED BY <1>2, <1>4, <1>8, <1>9, <1>10 DEF Follows, Keeps

---------------------------------------------------------------------------
(* The store *)

StoreOK(s) ==
    /\ DOMAIN s = {"reg", "disk", "synced", "ready"}
    /\ s.ready \in BOOLEAN
    /\ Good(s.reg) /\ Good(s.disk) /\ Good(s.synced)

\* Memory has only what the file has and everybody who is in use, and the
\* rest of the file too while ready.
Agrees(s, time) ==
    /\ Within(s.reg, s.disk)
    /\ s.ready => s.reg = s.disk
    /\ Keeps(s.disk, s.reg, time, {})

\* s2 is what an operation may leave of s, whether or not it was written.
Leaves(s, s2, dead, fresh) ==
    /\ StoreOK(s2)
    /\ ~locked => Agrees(s2, now)
    /\ DOMAIN s2.reg.tokens \subseteq DOMAIN s.reg.tokens \cup fresh
    /\ DOMAIN s2.disk.tokens \subseteq DOMAIN s.disk.tokens \cup fresh
    /\ Keeps(s.disk, s2.disk, now, dead)

LEMMA KeepsSelf == ASSUME NEW reg, NEW time, NEW dead PROVE Keeps(reg, reg, time, dead)
  BY DEF Keeps

LEMMA WithinTrans ==
    ASSUME NEW a, NEW b, NEW c, Within(a, b), Within(b, c) PROVE Within(a, c)
  BY DEF Within, IsRestriction

LEMMA WithinSelf == \A reg : Within(reg, reg)
  BY DEF Within, IsRestriction

LEMMA KeepsTrans ==
    ASSUME NEW a, NEW b, NEW c, NEW time, NEW dead,
           Keeps(a, b, time, {}), Within(b, a), Keeps(b, c, time, dead)
    PROVE  Keeps(a, c, time, dead)
<1>1. ASSUME NEW d \in DOMAIN a.clients, UsedAt(a.clients[d], time)
      PROVE  d \in DOMAIN b.clients /\ b.clients[d] = a.clients[d]
  BY <1>1 DEF Keeps, Within, IsRestriction
<1>2. ASSUME NEW t \in DOMAIN a.tokens \ dead, LiveAt(a, t, time)
      PROVE  t \in DOMAIN b.tokens /\ LiveAt(b, t, time)
  <2>1. t \in DOMAIN b.tokens /\ b.tokens[t] = a.tokens[t]
    BY <1>2 DEF Keeps, Within, IsRestriction
  <2> QED BY <1>1, <1>2, <2>1 DEF LiveAt
<1> QED BY <1>1, <1>2 DEF Keeps

\* Time takes clients and tokens out of use, and puts none in.
LEMMA KeepsLater ==
    ASSUME StoreAssumption, NEW old, Good(old), NEW new, NEW time \in Nat,
           Keeps(old, new, time, {})
    PROVE  Keeps(old, new, time + 1, {})
<1>1. ASSUME NEW c \in DOMAIN old.clients, UsedAt(old.clients[c], time + 1)
      PROVE  UsedAt(old.clients[c], time)
  <2>1. old.clients[c] \in Client
    BY DEF Good, IsRegistry, IsPartial
  <2> QED BY <1>1, <2>1 DEF UsedAt, Client, StoreAssumption
<1>2. ASSUME NEW t \in DOMAIN old.tokens, LiveAt(old, t, time + 1)
      PROVE  LiveAt(old, t, time)
  <2>1. old.tokens[t] \in Token
    BY DEF Good, IsRegistry, IsPartial
  <2> QED BY <1>1, <1>2, <2>1 DEF LiveAt, Token
<1> QED BY <1>1, <1>2 DEF Keeps

LEMMA WrittenFact ==
    ASSUME NEW s, StoreOK(s), ~locked => Agrees(s, now), NEW dead, NEW fresh,
           NEW reg, Follows(s.reg, reg, now, dead, fresh),
           NEW s2 \in Commits(s, reg) \cup Fails(s, reg)
    PROVE  Leaves(s, s2, dead, fresh)
<1>1. CASE s2 \in Fails(s, reg)
  <2>1. /\ DOMAIN s2 = DOMAIN s /\ s2.ready = FALSE
        /\ s2.reg = s.reg /\ s2.disk = s.disk /\ s2.synced = s.synced
    BY <1>1 DEF Fails, StoreOK
  <2> QED BY <2>1, KeepsSelf DEF Leaves, StoreOK, Agrees
<1>2. CASE s2 \in Commits(s, reg)
  <2>1. /\ DOMAIN s2 = DOMAIN s /\ s2.ready \in BOOLEAN /\ ~locked
        /\ s2.reg = reg /\ s2.disk = reg /\ s2.synced \in {s.synced, reg}
    BY <1>2 DEF Commits, StoreOK
  <2>2. Good(reg) /\ DOMAIN reg.tokens \subseteq DOMAIN s.reg.tokens \cup fresh
        /\ Keeps(s.reg, reg, now, dead)
    BY DEF Follows
  <2>3. Within(s.reg, s.disk) /\ Keeps(s.disk, s.reg, now, {})
    BY <2>1 DEF Agrees
  <2>4. Keeps(s.disk, reg, now, dead)
    BY <2>2, <2>3, KeepsTrans
  <2>5. DOMAIN reg.tokens \subseteq DOMAIN s.disk.tokens \cup fresh
    BY <2>2, <2>3 DEF Within, IsRestriction
  <2>6. Agrees(s2, now)
    BY <2>1, KeepsSelf, WithinSelf DEF Agrees
  <2> QED BY <2>1, <2>2, <2>4, <2>5, <2>6 DEF Leaves, StoreOK
<1> QED BY <1>1, <1>2

\* The process dies after the rename.
LEMMA DiesFact ==
    ASSUME NEW s, StoreOK(s), Agrees(s, now), NEW dead, NEW fresh,
           NEW reg, Follows(s.reg, reg, now, dead, fresh),
           NEW s2, s2 = Dies(s, reg)
    PROVE  /\ StoreOK(s2)
           /\ s2.reg = Empty
           /\ DOMAIN s2.disk.tokens \subseteq DOMAIN s.disk.tokens \cup fresh
           /\ Keeps(s.disk, s2.disk, now, dead)
<1>1. /\ DOMAIN s2 = DOMAIN s /\ s2.ready = FALSE
      /\ s2.reg = Empty /\ s2.disk = reg /\ s2.synced = s.synced
  BY DEF Dies, StoreOK
<1>2. Good(reg) /\ DOMAIN reg.tokens \subseteq DOMAIN s.reg.tokens \cup fresh
      /\ Keeps(s.reg, reg, now, dead)
  BY DEF Follows
<1>3. Keeps(s.disk, reg, now, dead)
  BY <1>2, KeepsTrans DEF Agrees
<1>4. DOMAIN reg.tokens \subseteq DOMAIN s.disk.tokens \cup fresh
  BY <1>2 DEF Agrees, Within, IsRestriction
<1> QED BY <1>1, <1>2, <1>3, <1>4, EmptyGood DEF StoreOK

\* What a new process reads: the file, cleaned, written back or not.
LEMMA LoadedFact ==
    ASSUME StoreAssumption, now \in Nat, StoreOK(store), NEW s \in Loaded
    PROVE  /\ StoreOK(s)
           /\ Agrees(s, now)
           /\ DOMAIN s.reg.tokens \subseteq DOMAIN store.disk.tokens
           /\ DOMAIN s.disk.tokens \subseteq DOMAIN store.disk.tokens
           /\ Keeps(store.disk, s.disk, now, {})
<1> DEFINE reg == Cleaned(store.disk)
<1>1. /\ Good(reg) /\ Within(reg, store.disk)
      /\ DOMAIN reg.tokens \subseteq DOMAIN store.disk.tokens
      /\ Keeps(store.disk, reg, now, {})
  BY CleanedFact DEF StoreOK, Follows
<1>2. /\ DOMAIN s = DOMAIN store /\ s.ready \in BOOLEAN
      /\ s.reg = reg
      /\ s.disk \in {reg, store.disk}
      /\ s.synced \in {reg, store.synced}
      /\ s.ready => s.disk = reg
  <2> DEFINE l == [store EXCEPT !.reg = reg, !.ready = TRUE]
  <2>1. /\ DOMAIN l = DOMAIN store /\ l.ready = TRUE
        /\ l.reg = reg /\ l.disk = store.disk /\ l.synced = store.synced
    BY DEF StoreOK
  <2>2. CASE l.reg = store.disk
    <3>1. s \in {[l EXCEPT !.ready = r] : r \in {TRUE, store.disk # Empty}}
      BY <2>2 DEF Loaded
    <3>2. PICK r \in BOOLEAN : s = [l EXCEPT !.ready = r]
      <4> HIDE DEF l
      <4> QED BY <3>1
    <3> HIDE DEF l, reg
    <3> QED BY <2>1, <2>2, <3>2 DEF StoreOK
  <2>3. CASE l.reg # store.disk
    <3>1. s \in {[l EXCEPT !.disk = l.reg, !.synced = l.reg],
                 [l EXCEPT !.disk = l.reg, !.ready = FALSE],
                 [l EXCEPT !.ready = FALSE]}
      BY <2>3 DEF Loaded
    <3> HIDE DEF l, reg
    <3> QED BY <2>1, <3>1 DEF StoreOK
  <2> QED BY <2>2, <2>3
<1> HIDE DEF reg
<1> QED BY <1>1, <1>2, KeepsSelf, WithinSelf DEF StoreOK, Agrees

---------------------------------------------------------------------------
(* The operations *)

StoreInv == StoreOK(store) /\ (up /\ ~locked => Agrees(store, now))

Inv == TypeOK /\ StoreInv /\ GrantsSingleUse

\* What a step may not do: the bodies of AccessKept and CodeNotBurnt.
AccessStep ==
    UnsyncedLoss \/
       /\ \A c \in DOMAIN store.disk.clients :
             InUse(store.disk.clients[c]) => c \in DOMAIN store'.disk.clients
       /\ \A t \in DOMAIN store.disk.tokens :
             LET token == store.disk.tokens[t]
             IN  /\ token.expires >= now
                 /\ token.client \in DOMAIN store.disk.clients
                 /\ InUse(store.disk.clients[token.client])
                 /\ keyValid
                 /\ tokenFate[t] = "given"
                 => t \in DOMAIN store'.disk.tokens \/ tokenFate'[t] # "given"

CodeStep ==
    \A c \in DOMAIN authCodes :
        up /\ up' /\ authCodes[c].expires >= now =>
            c \in DOMAIN authCodes' \/ codeFate'[c] # codeFate[c]

Right == Inv' /\ AccessStep /\ CodeStep

\* The tokens that a step may take from the file.
Spares(dead) ==
    /\ Keeps(store.disk, store'.disk, now, dead)
    /\ \A t \in dead \cap DOMAIN store.disk.tokens :
           LiveAt(store.disk, t, now) /\ keyValid /\ tokenFate[t] = "given"
               => t \in DOMAIN store'.disk.tokens \/ tokenFate'[t] # "given"

LEMMA SparesFact == ASSUME NEW dead, Spares(dead) PROVE AccessStep
  BY DEF Spares, AccessStep, Keeps, LiveAt, UsedAt, InUse

\* The fates keep their types, and no grant that was honoured is usable.
FatesOK ==
    /\ tokenFate' \in [Tokens -> {"new", "given", "spent", "doubtful", "unseen"}]
    /\ codeFate' \in [Codes -> {"new", "given", "spent", "misused"}]
    /\ \A t \in Tokens : tokenFate'[t] = "spent" =>
           t \notin DOMAIN store'.reg.tokens \cup DOMAIN store'.disk.tokens
    /\ IsPartial(authCodes', Codes, Token)
    /\ \A c \in Codes : codeFate'[c] \in {"spent", "misused"} => c \notin DOMAIN authCodes'

\* A step of the server keeps the invariant if its parts do.
LEMMA OperationFact ==
    ASSUME Inv, up, up' = up, locked' = locked, keyValid' = keyValid, now' = now,
           NEW dead, NEW fresh, Leaves(store, store', dead, fresh), FatesOK
    PROVE  Inv'
<1>1. StoreOK(store') /\ (~locked' => Agrees(store', now'))
  BY DEF Leaves
<1>2. StoreInv'
  BY <1>1 DEF StoreInv
<1>3. TypeOK'
  BY <1>1 DEF Inv, TypeOK, FatesOK, StoreOK, Good
<1>4. GrantsSingleUse'
  BY DEF GrantsSingleUse, FatesOK
<1> QED BY <1>2, <1>3, <1>4 DEF Inv

\* Nothing becomes of the tokens.
LEMMA TokensKept ==
    ASSUME Inv, NEW dead, Leaves(store, store', dead, {}), tokenFate' = tokenFate
    PROVE  /\ tokenFate' \in [Tokens -> {"new", "given", "spent", "doubtful", "unseen"}]
           /\ \A t \in Tokens : tokenFate'[t] = "spent" =>
                 t \notin DOMAIN store'.reg.tokens \cup DOMAIN store'.disk.tokens
  BY DEF Inv, TypeOK, GrantsSingleUse, Leaves

\* Nothing becomes of the codes, unless they expire.
CodesOK ==
    /\ codeFate' \in [Codes -> {"new", "given", "spent", "misused"}]
    /\ IsPartial(authCodes', Codes, Token)
    /\ \A c \in Codes : codeFate'[c] \in {"spent", "misused"} => c \notin DOMAIN authCodes'
    /\ CodeStep

LEMMA LiveCodesFact ==
    ASSUME Inv
    PROVE  /\ IsPartial(LiveCodes, Codes, Token)
           /\ DOMAIN LiveCodes \subseteq DOMAIN authCodes
           /\ \A c \in DOMAIN authCodes : authCodes[c].expires >= now => c \in DOMAIN LiveCodes
<1>1. \A c \in DOMAIN authCodes : authCodes[c] \in Token
  BY DEF Inv, TypeOK, IsPartial
<1>2. DOMAIN LiveCodes = {c \in DOMAIN authCodes : ~Expired(authCodes[c])}
  BY DEF LiveCodes, Without, Restrict
<1>3. IsPartial(LiveCodes, Codes, Token)
  BY DEF Inv, TypeOK, IsPartial, LiveCodes, Without, Restrict
<1> QED BY <1>1, <1>2, <1>3 DEF Inv, TypeOK, Expired, Token

LEMMA CodesKept ==
    ASSUME Inv, authCodes' \in {authCodes, LiveCodes}, codeFate' = codeFate
    PROVE  CodesOK
  BY LiveCodesFact DEF Inv, TypeOK, GrantsSingleUse, CodesOK, CodeStep

LEMMA InvFacts ==
    ASSUME Inv, up
    PROVE  /\ now \in Nat
           /\ StoreOK(store)
           /\ Good(store.reg)
           /\ ~locked => Agrees(store, now)
  BY DEF Inv, TypeOK, StoreInv, StoreOK

LEMMA SameLeaves ==
    ASSUME Inv, up, store' = store PROVE Leaves(store, store', {}, {})
  BY InvFacts, KeepsSelf DEF Leaves

\* A step of the server is right if its parts are.
LEMMA RightFact ==
    ASSUME Inv, up, up' = up, locked' = locked, keyValid' = keyValid, now' = now,
           NEW dead, NEW fresh, Leaves(store, store', dead, fresh), Spares(dead),
           tokenFate' \in [Tokens -> {"new", "given", "spent", "doubtful", "unseen"}],
           \A t \in Tokens : tokenFate'[t] = "spent" =>
               t \notin DOMAIN store'.reg.tokens \cup DOMAIN store'.disk.tokens,
           CodesOK
    PROVE  Right
<1>1. FatesOK
  BY DEF FatesOK, CodesOK
<1>2. Inv'
  BY <1>1, OperationFact
<1> QED BY <1>2, SparesFact DEF Right, CodesOK

\* A step that gives and takes no token.
LEMMA QuietFact ==
    ASSUME Inv, up, up' = up, locked' = locked, keyValid' = keyValid, now' = now,
           Leaves(store, store', {}, {}), tokenFate' = tokenFate, CodesOK
    PROVE  Right
<1>1. Spares({})
  BY DEF Spares, Leaves
<1> QED BY <1>1, TokensKept, RightFact

LEMMA CleanupRight == ASSUME StoreAssumption, Inv, Cleanup PROVE Right
<1> USE InvFacts DEF Cleanup
<1>1. Leaves(store, store', {}, {})
  <2>1. CASE store' = store
    BY <2>1, SameLeaves
  <2>2. CASE store' # store
    <3>1. Follows(store.reg, Cleaned(store.reg), now, {}, {})
      BY CleanedFact
    <3>2. store' \in Commits(store, Cleaned(store.reg)) \cup Fails(store, Cleaned(store.reg))
      BY <2>2
    <3> QED BY <3>1, <3>2, WrittenFact
  <2> QED BY <2>1, <2>2
<1> QED BY <1>1, CodesKept, QuietFact

LEMMA RegisterRight ==
    ASSUME StoreAssumption, Inv, NEW c \in Clients, Register(c) PROVE Right
<1> DEFINE base == Cleaned(store.reg)
           new(E) == [RemoveClients(base, E) EXCEPT !.clients =
                         With(@, c, [created |-> now, used |-> now, paired |-> FALSE])]
<1>1. /\ up /\ c \notin DOMAIN store.reg.clients
      /\ authCodes' = LiveCodes /\ codeFate' = codeFate
      /\ UNCHANGED <<now, up, locked, keyValid, tokenFate>>
  BY DEF Register
<1>2. Leaves(store, store', {}, {})
  <2>1. CASE store' = store
    BY <1>1, <2>1, SameLeaves
  <2>2. CASE store' # store
    <3>1. PICK E \in Evictable(base, Excess(base)) :
              store' \in Commits(store, new(E)) \cup Fails(store, new(E))
      BY <2>2 DEF Register
    <3>2. Follows(store.reg, new(E), now, {}, {})
      BY <1>1, InvFacts, RegisteredFact
    <3> HIDE DEF new
    <3> QED BY <1>1, <3>1, <3>2, InvFacts, WrittenFact
  <2> QED BY <2>1, <2>2
<1> QED BY <1>1, <1>2, CodesKept, QuietFact

\* Two writes in a row are like one.
LEMMA LeavesTwice ==
    ASSUME NEW s, Leaves(store, s, {}, {}), Within(s.disk, store.disk),
           Leaves(s, store', {}, {})
    PROVE  Leaves(store, store', {}, {})
<1>1. Keeps(store.disk, store'.disk, now, {})
  BY KeepsTrans DEF Leaves
<1> QED BY <1>1 DEF Leaves

LEMMA AfterCleanupFact ==
    ASSUME StoreAssumption, Inv, up, NEW s \in AfterCapacityCleanup
    PROVE  Leaves(store, s, {}, {}) /\ Within(s.disk, store.disk)
<1>1. CASE s = store
  BY <1>1, InvFacts, KeepsSelf, WithinSelf DEF Leaves
<1>2. CASE s # store
  <2> DEFINE reg == Cleaned(store.reg)
  <2>1. s \in Commits(store, reg) \cup Fails(store, reg)
    BY <1>2 DEF AfterCapacityCleanup
  <2>2. Follows(store.reg, reg, now, {}, {}) /\ Within(reg, store.reg)
    BY InvFacts, CleanedFact
  <2> HIDE DEF reg
  <2>3. Leaves(store, s, {}, {})
    BY <2>1, <2>2, InvFacts, WrittenFact
  <2>4. s.disk = store.disk \/ (s.disk = reg /\ ~locked)
    BY <2>1, InvFacts DEF Commits, Fails, StoreOK
  <2>5. ~locked => Within(reg, store.disk)
    BY <2>2, InvFacts, WithinTrans DEF Agrees
  <2> QED BY <2>3, <2>4, <2>5, WithinSelf
<1> QED BY <1>1, <1>2

LEMMA AuthorizeRight ==
    ASSUME StoreAssumption, Inv, NEW c \in Clients, NEW code \in Codes, Authorize(c, code)
    PROVE  Right
<1> DEFINE codes == IF Cardinality(DOMAIN authCodes) >= MaxAuthCodes THEN LiveCodes ELSE authCodes
<1>1. codes \in {authCodes, LiveCodes}
  OBVIOUS
<1>2. /\ up /\ codeFate[code] = "new"
      /\ UNCHANGED <<now, up, locked, keyValid, tokenFate>>
  BY DEF Authorize
<1>3. PICK s \in AfterCapacityCleanup :
           IF Cardinality(DOMAIN codes) >= MaxAuthCodes \/ c \notin DOMAIN s.reg.clients
           THEN /\ store' = s
                /\ authCodes' = codes
                /\ UNCHANGED codeFate
           ELSE \/ /\ store' \in Commits(s, Paired(s.reg, c))
                   /\ authCodes' = With(codes, code, [client |-> c, expires |-> now + AuthCodeTTL])
                   /\ codeFate' = [codeFate EXCEPT ![code] = "given"]
                \/ /\ store' \in Fails(s, Paired(s.reg, c))
                   /\ authCodes' = codes
                   /\ UNCHANGED codeFate
  BY DEF Authorize
<1>4. Leaves(store, s, {}, {}) /\ Within(s.disk, store.disk)
  BY <1>2, AfterCleanupFact
<1>5. ASSUME c \in DOMAIN s.reg.clients,
             store' \in Commits(s, Paired(s.reg, c)) \cup Fails(s, Paired(s.reg, c))
      PROVE  Leaves(store, store', {}, {})
  <2>1. StoreOK(s) /\ (~locked => Agrees(s, now))
    BY <1>4 DEF Leaves
  <2>2. Follows(s.reg, Paired(s.reg, c), now, {}, {})
    BY <1>2, <1>5, <2>1, InvFacts, PairedFact DEF StoreOK
  <2>3. Leaves(s, store', {}, {})
    BY <1>5, <2>1, <2>2, WrittenFact
  <2> QED BY <1>4, <2>3, LeavesTwice
<1> HIDE DEF codes
<1>6. CASE authCodes' = codes /\ UNCHANGED codeFate
  <2>1. Leaves(store, store', {}, {})
    BY <1>3, <1>4, <1>5
  <2> QED BY <1>1, <1>2, <1>6, <2>1, CodesKept, QuietFact
<1>7. CASE ~(authCodes' = codes /\ UNCHANGED codeFate)
  <2>1. /\ c \in DOMAIN s.reg.clients
        /\ store' \in Commits(s, Paired(s.reg, c))
        /\ authCodes' = With(codes, code, [client |-> c, expires |-> now + AuthCodeTTL])
        /\ codeFate' = [codeFate EXCEPT ![code] = "given"]
    BY <1>3, <1>7
  <2>2. Leaves(store, store', {}, {})
    BY <1>5, <2>1
  <2>3. IsPartial(codes, Codes, Token) /\ DOMAIN codes \subseteq DOMAIN authCodes
        /\ \A d \in DOMAIN authCodes : authCodes[d].expires >= now => d \in DOMAIN codes
    BY <1>1, LiveCodesFact DEF Inv, TypeOK
  <2>4. [client |-> c, expires |-> now + AuthCodeTTL] \in Token
    BY <1>2, InvFacts DEF Token, StoreAssumption
  <2>5. IsPartial(authCodes', Codes, Token) /\ DOMAIN authCodes' = DOMAIN codes \cup {code}
    BY <2>1, <2>3, <2>4 DEF IsPartial, With
  <2>6. /\ codeFate' \in [Codes -> {"new", "given", "spent", "misused"}]
        /\ codeFate'[code] = "given"
        /\ \A d \in Codes \ {code} : codeFate'[d] = codeFate[d]
    BY <2>1 DEF Inv, TypeOK
  <2>7. CodesOK
    BY <2>3, <2>5, <2>6 DEF CodesOK, CodeStep, Inv, GrantsSingleUse
  <2> QED BY <1>2, <2>2, <2>7, QuietFact
<1> QED BY <1>6, <1>7

\* A code that is consumed meets its fate at once.
LEMMA ConsumedFact ==
    ASSUME Inv, NEW code \in DOMAIN authCodes, NEW fate \in {"spent", "misused"},
           authCodes' = Consumed(code), codeFate' = [codeFate EXCEPT ![code] = fate]
    PROVE  CodesOK
<1>1. code \in Codes /\ codeFate[code] # fate
  BY DEF Inv, TypeOK, IsPartial, GrantsSingleUse
<1>2. /\ IsPartial(authCodes', Codes, Token)
      /\ DOMAIN authCodes' = DOMAIN authCodes \ {code}
  BY DEF Consumed, Without, Restrict, IsPartial, Inv, TypeOK
<1>3. /\ codeFate' \in [Codes -> {"new", "given", "spent", "misused"}]
      /\ codeFate'[code] = fate
      /\ \A d \in Codes \ {code} : codeFate'[d] = codeFate[d]
  BY <1>1 DEF Inv, TypeOK
<1> QED BY <1>1, <1>2, <1>3 DEF CodesOK, CodeStep, Inv, GrantsSingleUse

LEMMA ExchangeRight ==
    ASSUME StoreAssumption, Inv, NEW code \in Codes, NEW n \in Tokens, Exchange(code, n)
    PROVE  Right
<1> DEFINE c == authCodes[code].client
           reg == Granted(store.reg, c, n)
           pairedClient == c \in DOMAIN store.reg.clients /\ store.reg.clients[c].paired
<1>1. /\ up /\ code \in DOMAIN authCodes /\ tokenFate[n] = "new"
      /\ UNCHANGED <<now, up, locked, keyValid>>
  BY DEF Exchange
<1>2. pairedClient => Follows(store.reg, reg, now, {}, {n})
  BY <1>1, InvFacts, GrantedFact
<1>3. CASE /\ pairedClient
           /\ store' \in Commits(store, reg)
           /\ authCodes' = Consumed(code)
           /\ codeFate' = [codeFate EXCEPT ![code] = "spent"]
           /\ tokenFate' = [tokenFate EXCEPT ![n] = "given"]
  <2>1. Leaves(store, store', {}, {n})
    <3> HIDE DEF reg, pairedClient
    <3> QED BY <1>1, <1>2, <1>3, InvFacts, WrittenFact
  <2>2. Spares({})
    BY <2>1 DEF Spares, Leaves
  <2>3. /\ tokenFate' \in [Tokens -> {"new", "given", "spent", "doubtful", "unseen"}]
        /\ \A t \in Tokens : tokenFate'[t] = "spent" =>
               t \notin DOMAIN store'.reg.tokens \cup DOMAIN store'.disk.tokens
    BY <1>3, <2>1 DEF Leaves, Inv, TypeOK, GrantsSingleUse
  <2>4. CodesOK
    BY <1>1, <1>3, ConsumedFact
  <2> QED BY <1>1, <2>1, <2>2, <2>3, <2>4, RightFact
<1>4. CASE /\ store' \in (IF pairedClient THEN Fails(store, reg) ELSE {store})
           /\ authCodes' = Restored(code)
           /\ UNCHANGED <<codeFate, tokenFate>>
  <2>1. CASE pairedClient
    <3>1. store' \in Commits(store, reg) \cup Fails(store, reg)
      BY <1>4, <2>1
    <3>2. Leaves(store, store', {}, {n})
      <4> HIDE DEF reg, pairedClient
      <4> QED BY <1>1, <1>2, <2>1, <3>1, InvFacts, WrittenFact
    <3>3. store'.reg = store.reg /\ store'.disk = store.disk
      BY <1>1, <1>4, <2>1, InvFacts DEF Fails, StoreOK
    <3>4. Leaves(store, store', {}, {})
      BY <3>2, <3>3 DEF Leaves
    <3> QED BY <1>1, <1>4, <3>4, CodesKept, QuietFact DEF Restored
  <2>2. CASE ~pairedClient
    <3>1. Leaves(store, store', {}, {})
      BY <1>1, <1>4, <2>2, SameLeaves
    <3> QED BY <1>1, <1>4, <3>1, CodesKept, QuietFact DEF Restored
  <2> QED BY <2>1, <2>2
<1> QED BY <1>3, <1>4 DEF Exchange

LEMMA MisuseRight == ASSUME Inv, NEW code \in Codes, Misuse(code) PROVE Right
<1>1. Leaves(store, store', {}, {})
  BY SameLeaves DEF Misuse
<1>2. CodesOK
  BY ConsumedFact DEF Misuse
<1> QED BY <1>1, <1>2, QuietFact DEF Misuse

LEMMA RotateRight ==
    ASSUME StoreAssumption, Inv, NEW t \in Tokens, NEW n \in Tokens, Rotate(t, n)
    PROVE  Right
<1> DEFINE reg == Rotated(store.reg, t, n)
<1>1. /\ up /\ t \in DOMAIN store.reg.tokens /\ tokenFate[n] = "new"
      /\ UNCHANGED <<now, up, locked, authCodes, keyValid, codeFate>>
  BY DEF Rotate, Redeemable
<1>2. /\ Follows(store.reg, reg, now, {t}, {n})
      /\ t \in DOMAIN reg.tokens => t = n
  <2>1. now \in Nat /\ Good(store.reg) /\ reg = Rotated(store.reg, t, n)
    BY <1>1, InvFacts
  <2> HIDE DEF reg
  <2> QED BY <1>1, <2>1, RotatedFact
<1>3. CodesOK
  BY <1>1, CodesKept
<1>4. CASE store' \in Commits(store, reg) /\ tokenFate' = [tokenFate EXCEPT ![t] = "spent", ![n] = "given"]
  <2> HIDE DEF reg
  <2>1. Leaves(store, store', {t}, {n})
    BY <1>1, <1>2, <1>4, InvFacts, WrittenFact
  <2>2. store'.reg = reg /\ store'.disk = reg
    BY <1>1, <1>4, InvFacts DEF Commits, StoreOK
  <2>3. /\ tokenFate' \in [Tokens -> {"new", "given", "spent", "doubtful", "unseen"}]
        /\ \A s \in Tokens : tokenFate'[s] =
              IF s = n THEN "given" ELSE IF s = t THEN "spent" ELSE tokenFate[s]
    BY <1>4 DEF Inv, TypeOK
  <2>4. Spares({t})
    BY <1>1, <2>1, <2>3 DEF Spares, Leaves
  <2>5. \A s \in Tokens : tokenFate'[s] = "spent" =>
            s \notin DOMAIN store'.reg.tokens \cup DOMAIN store'.disk.tokens
    BY <1>2, <2>1, <2>2, <2>3 DEF Leaves, Inv, GrantsSingleUse
  <2> QED BY <1>1, <1>3, <2>1, <2>3, <2>4, <2>5, RightFact
<1>5. CASE store' \in Unrotated(t) /\ UNCHANGED tokenFate
  <2>1. store' = [store EXCEPT !.ready = FALSE]
    BY <1>5 DEF Unrotated
  <2>2. Leaves(store, store', {}, {})
    BY <1>1, <2>1, InvFacts, KeepsSelf DEF Leaves, StoreOK, Agrees
  <2> QED BY <1>1, <1>3, <1>5, <2>2, QuietFact
<1> QED BY <1>4, <1>5 DEF Rotate

LEMMA RejectRight == ASSUME StoreAssumption, Inv, NEW t \in Tokens, Reject(t) PROVE Right
<1> DEFINE reg == [store.reg EXCEPT !.tokens = Without(@, {t})]
<1>1. /\ up /\ t \in DOMAIN store.reg.tokens
      /\ Expired(store.reg.tokens[t]) \/ ~keyValid
      /\ store' \in Commits(store, reg) \cup Fails(store, reg)
      /\ UNCHANGED <<now, up, locked, authCodes, keyValid, tokenFate, codeFate>>
  BY DEF Reject, Redeemable
<1>2. Follows(store.reg, reg, now, {t}, {})
  <2>1. /\ Good(reg)
        /\ reg.clients = store.reg.clients
        /\ DOMAIN reg.tokens = DOMAIN store.reg.tokens \ {t}
    BY <1>1, InvFacts, DeletedFact
  <2> HIDE DEF reg
  <2> QED BY <2>1 DEF Follows, Keeps
<1>3. Leaves(store, store', {t}, {})
  <2> HIDE DEF reg
  <2> QED BY <1>1, <1>2, InvFacts, WrittenFact
<1>4. CodesOK
  BY <1>1, CodesKept
<1>5. Spares({t})
  <2>1. CASE locked
    <3>1. store'.disk = store.disk
      BY <1>1, <2>1, InvFacts DEF Commits, Fails, StoreOK
    <3> QED BY <1>3, <3>1 DEF Spares, Leaves
  <2>2. CASE ~locked
    <3>1. t \in DOMAIN store.disk.tokens /\ store.disk.tokens[t] = store.reg.tokens[t]
      BY <1>1, <2>2, InvFacts DEF Agrees, Within, IsRestriction
    <3>2. store.reg.tokens[t] \in Token
      BY <1>1, InvFacts DEF Good, IsRegistry, IsPartial
    <3>3. ~(LiveAt(store.disk, t, now) /\ keyValid)
      BY <1>1, <3>1, <3>2, InvFacts DEF LiveAt, Expired, Token
    <3> QED BY <1>3, <3>3 DEF Spares, Leaves
  <2> QED BY <2>1, <2>2
<1> QED BY <1>1, <1>3, <1>4, <1>5, TokensKept, RightFact

---------------------------------------------------------------------------
(* Crashes and restarts *)

\* The process is down: memory is gone, and only the file counts.
LEMMA DownFact ==
    ASSUME Inv, up' = FALSE, locked' = locked, keyValid' = keyValid, now' = now,
           authCodes' = EmptyDict, codeFate' = codeFate, StoreOK(store'), AccessStep,
           tokenFate' \in [Tokens -> {"new", "given", "spent", "doubtful", "unseen"}],
           \A t \in Tokens : tokenFate'[t] = "spent" =>
               t \notin DOMAIN store'.reg.tokens \cup DOMAIN store'.disk.tokens
    PROVE  Right
<1>1. StoreInv'
  BY DEF StoreInv
<1>2. IsPartial(authCodes', Codes, Token) /\ DOMAIN authCodes' = {}
  BY DEF EmptyDict, IsPartial
<1>3. TypeOK'
  BY <1>2 DEF Inv, TypeOK, StoreOK, Good
<1>4. GrantsSingleUse'
  BY <1>2 DEF GrantsSingleUse
<1>5. CodeStep
  BY DEF CodeStep
<1> QED BY <1>1, <1>3, <1>4, <1>5 DEF Inv, Right

LEMMA CrashRight == ASSUME Inv, Crash PROVE Right
<1>1. /\ up' = FALSE /\ authCodes' = EmptyDict
      /\ UNCHANGED <<now, locked, keyValid, tokenFate, codeFate>>
      /\ store' = [store EXCEPT !.reg = Empty, !.ready = FALSE]
  BY DEF Crash
<1>2. StoreOK(store') /\ store'.disk = store.disk /\ store'.reg = Empty
  BY <1>1, EmptyGood DEF Inv, StoreInv, StoreOK
<1>3. AccessStep
  BY <1>2 DEF AccessStep
<1>4. DOMAIN Empty.tokens = {}
  BY DEF Empty, EmptyDict
<1> QED BY <1>1, <1>2, <1>3, <1>4, DownFact DEF Inv, TypeOK, GrantsSingleUse

LEMMA CrashInRotateRight ==
    ASSUME StoreAssumption, Inv, NEW t \in Tokens, NEW n \in Tokens, CrashInRotate(t, n)
    PROVE  Right
<1> DEFINE reg == Rotated(store.reg, t, n)
<1>1. /\ up /\ ~locked /\ t \in DOMAIN store.reg.tokens /\ tokenFate[n] = "new"
      /\ up' = FALSE /\ authCodes' = EmptyDict /\ store' = Dies(store, reg)
      /\ tokenFate' = [tokenFate EXCEPT ![t] = "doubtful", ![n] = "unseen"]
      /\ UNCHANGED <<now, locked, keyValid, codeFate>>
  BY DEF CrashInRotate, Redeemable, Die
<1>2. Follows(store.reg, reg, now, {t}, {n})
  BY <1>1, InvFacts, RotatedFact
<1> HIDE DEF reg
<1>3. /\ StoreOK(store') /\ store'.reg = Empty
      /\ DOMAIN store'.disk.tokens \subseteq DOMAIN store.disk.tokens \cup {n}
      /\ Keeps(store.disk, store'.disk, now, {t})
  <2>1. StoreOK(store) /\ Agrees(store, now)
    BY <1>1, InvFacts
  <2> QED BY <1>1, <1>2, <2>1, DiesFact
<1>4. /\ tokenFate' \in [Tokens -> {"new", "given", "spent", "doubtful", "unseen"}]
      /\ \A s \in Tokens : tokenFate'[s] =
            IF s = n THEN "unseen" ELSE IF s = t THEN "doubtful" ELSE tokenFate[s]
  BY <1>1 DEF Inv, TypeOK
<1>5. AccessStep
  <2>1. Spares({t})
    BY <1>3, <1>4 DEF Spares
  <2> QED BY <2>1, SparesFact
<1>6. DOMAIN Empty.tokens = {}
  BY DEF Empty, EmptyDict
<1>7. \A s \in Tokens : tokenFate'[s] = "spent" =>
          s \notin DOMAIN store'.reg.tokens \cup DOMAIN store'.disk.tokens
  BY <1>3, <1>4, <1>6 DEF Inv, GrantsSingleUse
<1> QED BY <1>1, <1>3, <1>4, <1>5, <1>7, DownFact

LEMMA CrashInExchangeRight ==
    ASSUME StoreAssumption, Inv, NEW code \in Codes, NEW n \in Tokens, CrashInExchange(code, n)
    PROVE  Right
<1> DEFINE c == authCodes[code].client
           reg == Granted(store.reg, c, n)
<1>1. /\ up /\ ~locked /\ c \in DOMAIN store.reg.clients /\ store.reg.clients[c].paired
      /\ up' = FALSE /\ authCodes' = EmptyDict /\ store' = Dies(store, reg)
      /\ tokenFate[n] = "new" /\ tokenFate' = [tokenFate EXCEPT ![n] = "unseen"]
      /\ UNCHANGED <<now, locked, keyValid, codeFate>>
  BY DEF CrashInExchange, Die
<1>2. Follows(store.reg, reg, now, {}, {n})
  BY <1>1, InvFacts, GrantedFact
<1> HIDE DEF reg
<1>3. /\ StoreOK(store') /\ store'.reg = Empty
      /\ DOMAIN store'.disk.tokens \subseteq DOMAIN store.disk.tokens \cup {n}
      /\ Keeps(store.disk, store'.disk, now, {})
  <2>1. StoreOK(store) /\ Agrees(store, now)
    BY <1>1, InvFacts
  <2> QED BY <1>1, <1>2, <2>1, DiesFact
<1>4. /\ tokenFate' \in [Tokens -> {"new", "given", "spent", "doubtful", "unseen"}]
      /\ \A s \in Tokens : tokenFate'[s] = IF s = n THEN "unseen" ELSE tokenFate[s]
  BY <1>1 DEF Inv, TypeOK
<1>5. AccessStep
  <2>1. Spares({})
    BY <1>3 DEF Spares
  <2> QED BY <2>1, SparesFact
<1>6. DOMAIN Empty.tokens = {}
  BY DEF Empty, EmptyDict
<1>7. \A s \in Tokens : tokenFate'[s] = "spent" =>
          s \notin DOMAIN store'.reg.tokens \cup DOMAIN store'.disk.tokens
  BY <1>3, <1>4, <1>6 DEF Inv, GrantsSingleUse
<1> QED BY <1>1, <1>3, <1>4, <1>5, <1>7, DownFact

LEMMA RestartRight == ASSUME StoreAssumption, Inv, Restart PROVE Right
<1>1. /\ ~up /\ up' = TRUE /\ keyValid' \in BOOLEAN
      /\ UNCHANGED <<now, authCodes, tokenFate, codeFate>>
  BY DEF Restart
<1>2. now \in Nat /\ StoreOK(store)
  BY DEF Inv, TypeOK, StoreInv
<1>3. DOMAIN Empty.tokens = {}
  BY DEF Empty, EmptyDict
<1>4. /\ StoreOK(store') /\ locked' \in BOOLEAN
      /\ ~locked' => Agrees(store', now)
      /\ DOMAIN store'.reg.tokens \cup DOMAIN store'.disk.tokens \subseteq DOMAIN store.disk.tokens
      /\ Keeps(store.disk, store'.disk, now, {})
  <2>1. CASE locked' = FALSE /\ store' \in Loaded
    BY <1>2, <2>1, LoadedFact
  <2>2. CASE locked' = TRUE /\ store' = [store EXCEPT !.reg = Empty, !.ready = FALSE]
    <3>1. /\ DOMAIN store' = DOMAIN store /\ store'.ready = FALSE /\ store'.reg = Empty
          /\ store'.disk = store.disk /\ store'.synced = store.synced
      BY <1>2, <2>2 DEF StoreOK
    <3> QED BY <1>2, <1>3, <2>2, <3>1, EmptyGood, KeepsSelf DEF StoreOK
  <2> QED BY <2>1, <2>2 DEF Restart
<1>5. StoreInv'
  BY <1>1, <1>4 DEF StoreInv
<1>6. TypeOK'
  BY <1>1, <1>4 DEF Inv, TypeOK, StoreOK, Good
<1>7. GrantsSingleUse'
  BY <1>1, <1>4 DEF Inv, GrantsSingleUse
<1>8. AccessStep
  <2>1. Spares({})
    BY <1>4 DEF Spares
  <2> QED BY <2>1, SparesFact
<1>9. CodeStep
  BY <1>1 DEF CodeStep
<1> QED BY <1>5, <1>6, <1>7, <1>8, <1>9 DEF Inv, Right

\* What is written back is the file that a restart would read anyway.
LEMMA WriteBackRight == ASSUME Inv, WriteBack PROVE Right
<1>1. /\ store' = [store EXCEPT !.synced = store.disk]
      /\ UNCHANGED <<up, now, locked, keyValid, authCodes, tokenFate, codeFate>>
  BY DEF WriteBack
<1>2. StoreOK(store)
  BY DEF Inv, StoreInv
<1>3. /\ DOMAIN store' = DOMAIN store /\ store'.ready = store.ready
      /\ store'.reg = store.reg /\ store'.disk = store.disk /\ store'.synced = store.disk
  BY <1>1, <1>2 DEF StoreOK
<1>4. StoreOK(store')
  BY <1>2, <1>3 DEF StoreOK
<1>5. up /\ ~locked => Agrees(store', now)
  BY <1>3 DEF Inv, StoreInv, Agrees
<1>6. StoreInv'
  BY <1>1, <1>4, <1>5 DEF StoreInv
<1>7. TypeOK'
  BY <1>1, <1>4 DEF Inv, TypeOK, StoreOK, Good
<1>8. GrantsSingleUse'
  BY <1>1, <1>3 DEF Inv, GrantsSingleUse
<1>9. AccessStep /\ CodeStep
  BY <1>1, <1>3 DEF AccessStep, CodeStep
<1> QED BY <1>6, <1>7, <1>8, <1>9 DEF Inv, Right

LEMMA PowerLossRight == ASSUME Inv, PowerLoss PROVE Right
<1>1. /\ up' = FALSE /\ authCodes' = EmptyDict
      /\ UNCHANGED <<now, locked, keyValid, codeFate>>
  BY DEF PowerLoss
<1>2. PICK d \in {store.disk, store.synced} :
           /\ store' = [store EXCEPT !.reg = Empty, !.disk = d, !.synced = d, !.ready = FALSE]
           /\ tokenFate' = [t \in Tokens |->
                  IF tokenFate[t] = "spent" /\ t \in DOMAIN d.tokens THEN "doubtful"
                  ELSE tokenFate[t]]
  BY DEF PowerLoss
<1>3. StoreOK(store)
  BY DEF Inv, StoreInv
<1>4. /\ DOMAIN store' = DOMAIN store /\ store'.ready = FALSE /\ store'.reg = Empty
      /\ store'.disk = d /\ store'.synced = d
  BY <1>2, <1>3 DEF StoreOK
<1>5. StoreOK(store')
  BY <1>3, <1>4, EmptyGood DEF StoreOK
<1>6. DOMAIN Empty.tokens = {}
  BY DEF Empty, EmptyDict
<1>7. /\ tokenFate' \in [Tokens -> {"new", "given", "spent", "doubtful", "unseen"}]
      /\ \A t \in Tokens : tokenFate'[t] = "spent" =>
             t \notin DOMAIN store'.reg.tokens \cup DOMAIN store'.disk.tokens
  BY <1>2, <1>4, <1>6 DEF Inv, TypeOK
<1>8. AccessStep
  <2>1. CASE d = store.disk
    BY <1>4, <2>1 DEF AccessStep
  <2>2. CASE d # store.disk
    BY <1>1, <1>4, <2>2 DEF AccessStep, UnsyncedLoss
  <2> QED BY <2>1, <2>2
<1> QED BY <1>1, <1>5, <1>7, <1>8, DownFact

LEMMA TickRight == ASSUME StoreAssumption, Inv, Tick PROVE Right
<1>1. /\ now' = now + 1
      /\ UNCHANGED <<up, store, locked, authCodes, keyValid, tokenFate, codeFate>>
  BY DEF Tick
<1>2. now \in Nat
  BY DEF Inv, TypeOK
<1>3. ASSUME up, ~locked PROVE Agrees(store, now + 1)
  <2>1. Agrees(store, now) /\ Good(store.disk)
    BY <1>3 DEF Inv, StoreInv, StoreOK
  <2>2. Keeps(store.disk, store.reg, now + 1, {})
    BY <1>2, <2>1, KeepsLater DEF Agrees
  <2> QED BY <2>1, <2>2 DEF Agrees
<1>4. StoreInv'
  BY <1>1, <1>3 DEF Inv, StoreInv
<1>5. TypeOK' /\ GrantsSingleUse'
  BY <1>1, <1>2 DEF Inv, TypeOK, GrantsSingleUse
<1> QED BY <1>1, <1>4, <1>5 DEF Inv, Right, AccessStep, CodeStep

LEMMA StutterRight == ASSUME Inv, UNCHANGED vars PROVE Right
  BY DEF vars, Inv, TypeOK, StoreInv, GrantsSingleUse, Right, AccessStep, CodeStep

---------------------------------------------------------------------------
(* Theorems *)

LEMMA InvInit == ASSUME StoreAssumption, Init PROVE Inv
<1>1. PICK r \in BOOLEAN :
          store = [reg |-> Empty, disk |-> Empty, synced |-> Empty, ready |-> r]
  BY DEF Init
<1>2. StoreOK(store) /\ Agrees(store, now)
  BY <1>1, EmptyGood, KeepsSelf DEF StoreOK, Agrees
<1>3. IsPartial(authCodes, Codes, Token) /\ DOMAIN authCodes = {}
  BY DEF Init, EmptyDict, IsPartial
<1>4. TypeOK
  BY <1>2, <1>3 DEF Init, TypeOK, StoreOK, Good
<1>5. GrantsSingleUse
  BY <1>3 DEF Init, GrantsSingleUse
<1> QED BY <1>2, <1>4, <1>5 DEF Inv, StoreInv

LEMMA NextRight == ASSUME StoreAssumption, Inv, [Next]_vars PROVE Right
<1>1. CASE Serve
  BY <1>1, CleanupRight, RegisterRight, AuthorizeRight, MisuseRight, ExchangeRight,
     RejectRight, RotateRight DEF Serve
<1>2. CASE Stop
  BY <1>2, CrashRight, CrashInRotateRight, CrashInExchangeRight DEF Stop
<1> QED BY <1>1, <1>2, RestartRight, WriteBackRight, PowerLossRight, TickRight, StutterRight DEF Next

LEMMA Invariance == ASSUME StoreAssumption PROVE Spec => []Inv
<1>1. Inv /\ [Next]_vars => Inv'
  BY NextRight DEF Right
<1> QED BY <1>1, InvInit, PTL DEF Spec

\* The variables keep their types (oauth.py:106-132).
THEOREM TypeCorrect == ASSUME StoreAssumption PROVE Spec => []TypeOK
<1>1. Inv => TypeOK BY DEF Inv
<1> QED BY <1>1, Invariance, PTL

\* Memory has nothing that the file has not, whichever write failed
\* (_persist, oauth.py).
THEOREM MemoryCommitted == ASSUME StoreAssumption PROVE Spec => []MemoryIsCommitted
<1>1. Inv => MemoryIsCommitted
  BY DEF Inv, StoreInv, Agrees, Within, MemoryIsCommitted
<1> QED BY <1>1, Invariance, PTL

\* No token outlives its client's registration, in memory or in any file
\* that a restart may read (_remove_client, _cleanup).
THEOREM NoTokenOrphaned == ASSUME StoreAssumption PROVE Spec => []NoOrphanToken
<1>1. Inv => NoOrphanToken
  BY DEF Inv, StoreInv, StoreOK, Good, Owned, NoOrphanToken
<1> QED BY <1>1, Invariance, PTL

\* Neither a refresh token nor a code is honoured twice, through failed
\* writes, crashes and restarts (rotate_refresh_token, restore_auth_code).
THEOREM GrantsHonouredOnce == ASSUME StoreAssumption PROVE Spec => []GrantsSingleUse
<1>1. Inv => GrantsSingleUse BY DEF Inv
<1> QED BY <1>1, Invariance, PTL

\* Nobody in use is locked out by an operation, a failed write or a restart
\* (register_client, _cleanup, _load).
THEOREM AccessIsKept == ASSUME StoreAssumption PROVE Spec => AccessKept
<1>1. Inv /\ [Next]_vars => [AccessStep]_vars
  BY NextRight DEF Right
<1> QED BY <1>1, Invariance, PTL DEF Spec, AccessKept, AccessStep

\* A code vanishes from a running server only when it is honoured, misused or
\* expired (restore_auth_code).
THEOREM CodesNotBurnt == ASSUME StoreAssumption PROVE Spec => CodeNotBurnt
<1>1. Inv /\ [Next]_vars => [CodeStep]_vars
  BY NextRight DEF Right
<1> QED BY <1>1, Invariance, PTL DEF Spec, CodeNotBurnt, CodeStep

=============================================================================
