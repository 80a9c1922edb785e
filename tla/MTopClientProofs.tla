--------------------------- MODULE MTopClientProofs ---------------------------
(***************************************************************************)
(* Proofs about MTopClient, for any number of concurrent calls: the token  *)
(* generations protect a newer token from late results, and a solve is     *)
(* shared by all who waited for it.                                        *)
(***************************************************************************)
EXTENDS MTopClient, TLAPS

\* No operation started from a generation still to come, and one during which
\* another call changed the token started from an earlier one.
GenerationsKnown ==
    \A c \in Callers :
        /\ call[c].since <= token.generation
        /\ c \in stale /\ call[c].pc \in InFlight => call[c].since < token.generation

\* A request in flight was signed with the token of its generation.
SignedSince ==
    \A c \in Callers :
        call[c].pc = "sent" /\ call[c].since = token.generation => call[c].signed = token.value

Inv == TypeOK /\ GenerationsKnown /\ SignedSince /\ WaitersShareTheSolve /\ ReplayIsSigned

---------------------------------------------------------------------------
(* The token operators *)

Tokens == [value : Nat, aged : BOOLEAN, generation : Nat]

\* A change of the value is a new generation; no other generation counts.
Follows(t, u) ==
    /\ u.generation >= t.generation
    /\ u.generation = t.generation => u = t

\* What arrived since generation g changes a token of that generation only.
LEMMA InstalledFollows ==
    ASSUME NEW t \in Tokens, NEW g \in Nat, NEW j \in Nat
    PROVE  /\ InstalledSince(t, g, j) \in Tokens
           /\ Follows(t, InstalledSince(t, g, j))
           /\ t.generation # g => InstalledSince(t, g, j) = t
           /\ InstalledSince(t, g, j).value \in {t.value, j}
           /\ InstalledSince(t, g, j).value = 0 => t.value = 0
BY DEF InstalledSince, Installed, Tokens, Follows

LEMMA ClearedFollows ==
    ASSUME NEW t \in Tokens, NEW g \in Nat
    PROVE  /\ ClearedSince(t, g) \in Tokens
           /\ Follows(t, ClearedSince(t, g))
           /\ t.generation # g => ClearedSince(t, g) = t
           /\ ClearedSince(t, g).value # t.value => ClearedSince(t, g).value = 0
BY DEF ClearedSince, Cleared, Tokens, Follows

LEMMA FollowsTransitive ==
    ASSUME NEW t \in Tokens, NEW u \in Tokens, NEW v \in Tokens, Follows(t, u), Follows(u, v)
    PROVE  Follows(t, v)
BY DEF Follows, Tokens


---------------------------------------------------------------------------
(* What a step does to the call that makes it *)

\* The call of c changed and is in order with the token after the step.
Advanced(c) ==
    /\ call' = [call EXCEPT ![c] = call'[c]]
    /\ call'[c] \in Call
    /\ token' \in Tokens
    /\ Follows(token, token')
    /\ call'[c].since <= token'.generation
    /\ call'[c].pc = "sent" /\ call'[c].since = token'.generation =>
           call'[c].signed = token'.value
    /\ call'[c].pc = "sent" /\ call'[c].try = 3 => call'[c].signed # 0

LEMMA SendingAdvances ==
    ASSUME TypeOK, NEW c \in Callers, NEW k \in 1..3, token' \in Tokens, Follows(token, token'),
           Sending(c, token', k), k = 3 => ~Expired(token')
    PROVE  Advanced(c) /\ call'[c].pc = "sent"
<1> DEFINE d == [call[c] EXCEPT !.pc = "sent", !.try = k,
                                !.signed = token'.value, !.since = token'.generation]
<1>1. call[c] \in Call /\ call \in [Callers -> Call]
    BY DEF TypeOK
<1>2. call' = [call EXCEPT ![c] = d]
    BY DEF Sending
<1>3. call'[c] = d /\ d.pc = "sent" /\ d.try = k /\ d.signed = token'.value
      /\ d.since = token'.generation
    BY <1>1, <1>2 DEF Call
<1>4. d \in Call
    BY <1>1 DEF Call, InFlight, Tokens
<1>. QED  BY <1>1, <1>2, <1>3, <1>4 DEF Advanced, Tokens, Expired

LEMMA MovingAdvances ==
    ASSUME TypeOK, GenerationsKnown, NEW c \in Callers, NEW p \in Waits \cup Ended,
           token' \in Tokens, Follows(token, token'), Moving(c, p)
    PROVE  Advanced(c) /\ call'[c].pc = p
<1>1. call'[c] = [call[c] EXCEPT !.pc = p] /\ call' = [call EXCEPT ![c] = call'[c]]
    BY DEF Moving, TypeOK
<1>2. call'[c] \in Call /\ p # "sent" /\ call'[c].since = call[c].since /\ call'[c].pc = p
    BY <1>1 DEF TypeOK, Call, Waits, Ended
<1>3. call[c].since <= token'.generation
    BY DEF GenerationsKnown, Follows, TypeOK, Call, Tokens
<1>. QED  BY <1>1, <1>2, <1>3 DEF Advanced

LEMMA BootingAdvances ==
    ASSUME TypeOK, GenerationsKnown, NEW c \in Callers, NEW k \in 1..3,
           token' \in Tokens, Follows(token, token'),
           call' = [call EXCEPT ![c].pc = "bootWait", ![c].try = k]
    PROVE  Advanced(c) /\ call'[c].pc = "bootWait"
<1> DEFINE d == [call[c] EXCEPT !.pc = "bootWait", !.try = k]
<1>1. call[c] \in Call /\ call \in [Callers -> Call]
    BY DEF TypeOK
<1>2. call' = [call EXCEPT ![c] = d]
    OBVIOUS
<1>3. call'[c] = d /\ d.pc = "bootWait" /\ d.since = call[c].since
    BY <1>1, <1>2 DEF Call
<1>4. d \in Call
    BY <1>1 DEF Call, Waits
<1>5. call[c].since <= token'.generation
    BY <1>1 DEF GenerationsKnown, Follows, TypeOK, Call, Tokens
<1>. QED  BY <1>2, <1>3, <1>4, <1>5 DEF Advanced

LEMMA AfterBootAdvances ==
    ASSUME TypeOK, GenerationsKnown, NEW c \in Callers, token' \in Tokens,
           Follows(token, token'), AfterBoot(c, token')
    PROVE  Advanced(c) /\ call'[c].pc \in {"sent", "done"}
<1>1. CASE call[c].try = 3 /\ Expired(token')
    BY <1>1, MovingAdvances DEF AfterBoot, Ended
<1>2. CASE ~(call[c].try = 3 /\ Expired(token'))
    <2>1. call[c].try \in 1..3
        BY DEF TypeOK, Call
    <2>. QED  BY <1>2, <2>1, SendingAdvances DEF AfterBoot
<1>. QED  BY <1>1, <1>2

LEMMA AfterRecoveryAdvances ==
    ASSUME TypeOK, GenerationsKnown, NEW c \in Callers, NEW t \in Tokens, NEW j \in Nat,
           Follows(token, t), AfterRecovery(c, t, j)
    PROVE  /\ Advanced(c) /\ call'[c].pc \in {"sent", "bootWait"}
           /\ token' = t \/ (token'.value = 0 /\ j # t.value)
<1> DEFINE u == IF ~Expired(t) /\ j # t.value THEN Cleared(t) ELSE t
<1>1. token' = u /\ u \in Tokens /\ Follows(t, u) /\ (u = t \/ (u.value = 0 /\ j # t.value))
    BY DEF AfterRecovery, Cleared, Tokens, Follows
<1>2. token \in Tokens
    BY DEF TypeOK, Tokens
<1>3. Follows(token, token')
    BY <1>1, <1>2, FollowsTransitive
<1>4. CASE Expired(u)
    <2>. QED  BY <1>1, <1>3, <1>4, 3 \in 1..3, BootingAdvances DEF AfterRecovery
<1>5. CASE ~Expired(u)
    <2>1. Sending(c, token', 3)
        BY <1>1, <1>5 DEF AfterRecovery
    <2>. QED  BY <1>1, <1>3, <1>5, <2>1, SendingAdvances
<1>. QED  BY <1>4, <1>5

---------------------------------------------------------------------------
(* The invariant *)

LEMMA TypedToken ==
    ASSUME TypeOK
    PROVE  token \in Tokens /\ jar \in Nat /\ minted \in Nat
BY DEF TypeOK, Tokens

LEMMA ResponseTyped ==
    ASSUME MTopAssumption, TypeOK, Respond
    PROVE  jar' \in Nat /\ minted' \in Nat
BY DEF MTopAssumption, TypeOK, Respond

\* The calls that take no step are in order with the token after it, too.
LEMMA AdvancedKeeps ==
    ASSUME MTopAssumption, Inv, NEW c \in Callers, Advanced(c), Witnessed(c)
    PROVE  /\ GenerationsKnown' /\ SignedSince' /\ ReplayIsSigned'
           /\ call' \in [Callers -> Call] /\ stale' \subseteq Callers /\ cleared' \subseteq Callers
<1>1. /\ call \in [Callers -> Call] /\ call' \in [Callers -> Call]
      /\ \A e \in Callers \ {c} : call'[e] = call[e]
      /\ token \in Tokens /\ token' \in Tokens
    BY DEF Inv, TypeOK, Advanced, Tokens
<1>2. /\ stale' \subseteq Callers /\ cleared' \subseteq Callers
      /\ c \in stale' => call'[c].pc \notin InFlight
      /\ \A e \in stale' : e \in stale \/ token'.generation # token.generation
    BY DEF Inv, TypeOK, Witnessed
<1>3. GenerationsKnown'
    <2>1. ASSUME NEW e \in Callers \ {c}
          PROVE  /\ call'[e].since <= token'.generation
                 /\ e \in stale' /\ call'[e].pc \in InFlight =>
                        call'[e].since < token'.generation
        <3>1. call[e].since \in Nat /\ token.generation \in Nat /\ token'.generation \in Nat
            BY <1>1 DEF Call, Tokens
        <3>2. token'.generation >= token.generation
            BY DEF Advanced, Follows
        <3>. QED  BY <1>1, <1>2, <3>1, <3>2 DEF Inv, GenerationsKnown
    <2>. QED  BY <1>2, <2>1 DEF GenerationsKnown, Advanced
<1>4. SignedSince'
    <2>1. ASSUME NEW e \in Callers \ {c}, call'[e].pc = "sent", call'[e].since = token'.generation
          PROVE  call'[e].signed = token'.value
        <3>1. call[e].since \in Nat /\ token.generation \in Nat /\ token'.generation \in Nat
            BY <1>1 DEF Call, Tokens
        <3>2. token' = token
            BY <1>1, <2>1, <3>1 DEF Advanced, Follows, Inv, GenerationsKnown
        <3>. QED  BY <1>1, <2>1, <3>2 DEF Inv, SignedSince
    <2>. QED  BY <2>1 DEF SignedSince, Advanced
<1>5. ReplayIsSigned'
    BY <1>1 DEF Inv, ReplayIsSigned, Advanced
<1>. QED  BY <1>1, <1>2, <1>3, <1>4, <1>5

\* c takes or keeps the lock for its operation at pc, and otherwise lets it go.
Handled(lock, next, c, pc) ==
    IF call'[c].pc = pc THEN lock \in {c, NoCaller} /\ next = c
    ELSE next = IF lock = c THEN NoCaller ELSE lock

\* Whoever solves has the lock and has seen the latest solve.
SolveSeen(c) ==
    /\ call'[c].pc = "solving" => call'[c].seen = tmdGeneration'
    /\ tmdGeneration' # tmdGeneration => tmdLock = c /\ tmdGeneration' \in Nat

LEMMA StepPreserves ==
    ASSUME MTopAssumption, Inv, NEW c \in Callers, Advanced(c), Witnessed(c),
           jar' \in Nat, minted' \in Nat,
           Handled(bootLock, bootLock', c, "boot"),
           Handled(primeLock, primeLock', c, "priming"),
           Handled(tmdLock, tmdLock', c, "solving"),
           SolveSeen(c)
    PROVE  Inv'
<1>1. /\ call \in [Callers -> Call] /\ call' \in [Callers -> Call]
      /\ \A e \in Callers \ {c} : call'[e] = call[e]
    BY DEF Inv, TypeOK, Advanced
<1>2. ASSUME NEW lock, NEW next, NEW pc, Handled(lock, next, c, pc),
             lock \in Callers \cup {NoCaller}, \A e \in Callers : lock = e <=> call[e].pc = pc
      PROVE  /\ next \in Callers \cup {NoCaller}
             /\ \A e \in Callers : next = e <=> call'[e].pc = pc
    BY <1>1, <1>2 DEF MTopAssumption, Handled
<1>3. TypeOK'
    <2>1. /\ bootLock' \in Callers \cup {NoCaller}
          /\ \A e \in Callers : bootLock' = e <=> call'[e].pc = "boot"
        BY <1>2 DEF Inv, TypeOK
    <2>2. /\ primeLock' \in Callers \cup {NoCaller}
          /\ \A e \in Callers : primeLock' = e <=> call'[e].pc = "priming"
        BY <1>2 DEF Inv, TypeOK
    <2>3. /\ tmdLock' \in Callers \cup {NoCaller}
          /\ \A e \in Callers : tmdLock' = e <=> call'[e].pc = "solving"
        BY <1>2 DEF Inv, TypeOK
    <2>4. tmdGeneration' \in Nat
        BY DEF Inv, TypeOK, SolveSeen
    <2>5. token' \in [value : Nat, aged : BOOLEAN, generation : Nat]
        BY DEF Advanced, Tokens
    <2>6. call' \in [Callers -> Call] /\ stale' \subseteq Callers /\ cleared' \subseteq Callers
        BY AdvancedKeeps
    <2>. QED  BY <2>1, <2>2, <2>3, <2>4, <2>5, <2>6 DEF TypeOK
<1>4. WaitersShareTheSolve'
    <2>1. ASSUME NEW e \in Callers \ {c}, call'[e].pc = "solving"
          PROVE  call'[e].seen = tmdGeneration'
        <3>1. call[e].pc = "solving" /\ call'[e] = call[e]
            BY <1>1, <2>1
        <3>2. tmdLock = e
            BY <3>1 DEF Inv, TypeOK
        <3>. QED  BY <3>1, <3>2 DEF Inv, WaitersShareTheSolve, SolveSeen
    <2>. QED  BY <2>1 DEF WaitersShareTheSolve, SolveSeen
<1>. QED  BY <1>3, <1>4, AdvancedKeeps DEF Inv

---------------------------------------------------------------------------
(* The steps of a call: each preserves Inv and changes the token lawfully *)

\* What both action properties ask of a step of c.
Lawful(c) ==
    /\ c \in stale /\ token'.value # token.value => token'.value = 0 /\ jar' # token.value
    /\ token.value # 0 /\ token'.value = 0 =>
           jar' # token.value \/ (call'[c] # call[c] /\ call[c].signed = token.value)
    /\ \A e \in Callers \ {c} : call'[e] = call[e]

\* A call that awaits nothing under a lock holds none.
LEMMA HoldsNothing ==
    ASSUME MTopAssumption, Inv, NEW c \in Callers, UNCHANGED locks,
           call[c].pc \notin {"boot", "priming", "solving"},
           call'[c].pc \notin {"boot", "priming", "solving"}
    PROVE  /\ Handled(bootLock, bootLock', c, "boot")
           /\ Handled(primeLock, primeLock', c, "priming")
           /\ Handled(tmdLock, tmdLock', c, "solving")
BY DEF MTopAssumption, Inv, TypeOK, Handled, locks

LEMMA OthersStay ==
    ASSUME Inv, NEW c \in Callers, Advanced(c)
    PROVE  \A e \in Callers \ {c} : call'[e] = call[e]
BY DEF Inv, TypeOK, Advanced

LEMMA StartStep ==
    ASSUME MTopAssumption, Inv, NEW c \in Callers, Start(c)
    PROVE  Inv' /\ Lawful(c)
<1>1. token' = token /\ token \in Tokens /\ Follows(token, token')
    BY TypedToken DEF Start, shared, Inv, Follows, Tokens
<1>2. Advanced(c) /\ call'[c].pc \in {"sent", "bootWait"}
    <2>1. CASE Expired(token)
        BY <1>1, <2>1, MovingAdvances DEF Start, Inv, Waits
    <2>2. CASE ~Expired(token)
        BY <1>1, <2>2, SendingAdvances, 1 \in 1..3 DEF Start, Inv
    <2>. QED  BY <2>1, <2>2
<1>3. Inv'
    BY <1>1, <1>2, HoldsNothing, StepPreserves, TypedToken
       DEF Start, shared, Inv, SolveSeen
<1>. QED  BY <1>1, <1>2, <1>3, OthersStay DEF Lawful

LEMMA AnswerFinalStep ==
    ASSUME MTopAssumption, Inv, NEW c \in Callers, AnswerFinal(c)
    PROVE  Inv' /\ Lawful(c)
<1>1. /\ token \in Tokens /\ jar' \in Nat /\ minted' \in Nat /\ call[c].since \in Nat
      /\ call[c].pc = "sent"
    BY TypedToken, ResponseTyped DEF Inv, AnswerFinal, TypeOK, Call
<1>2. /\ token' \in Tokens /\ Follows(token, token')
      /\ token.generation # call[c].since => token' = token
      /\ token'.value = 0 => token.value = 0
    BY <1>1, InstalledFollows DEF AnswerFinal
<1>3. Advanced(c) /\ call'[c].pc = "done"
    BY <1>2, MovingAdvances DEF AnswerFinal, Inv, Ended
<1>4. Inv'
    BY <1>1, <1>3, HoldsNothing, StepPreserves DEF AnswerFinal, SolveSeen
<1>5. c \in stale => token.generation # call[c].since
    BY <1>1 DEF Inv, GenerationsKnown, InFlight, Tokens
<1>. QED  BY <1>2, <1>3, <1>4, <1>5, OthersStay DEF Lawful

LEMMA AnswerExpiredStep ==
    ASSUME MTopAssumption, Inv, NEW c \in Callers, AnswerExpired(c)
    PROVE  Inv' /\ Lawful(c)
<1> DEFINE t == InstalledSince(token, call[c].since, jar')
<1>1. /\ token \in Tokens /\ jar' \in Nat /\ minted' \in Nat /\ call[c].since \in Nat
      /\ call[c].pc = "sent"
    BY TypedToken, ResponseTyped DEF Inv, AnswerExpired, TypeOK, Call
<1>2. /\ t \in Tokens /\ Follows(token, t)
      /\ token.generation # call[c].since => t = token
    BY <1>1, InstalledFollows
<1>3. /\ token' \in Tokens /\ Follows(t, token')
      /\ t.generation # call[c].since => token' = t
    BY <1>1, <1>2, ClearedFollows DEF AnswerExpired
<1>4. Follows(token, token')
    BY <1>1, <1>2, <1>3, FollowsTransitive
<1>5. Advanced(c) /\ call'[c].pc = "bootWait"
    BY <1>3, <1>4, BootingAdvances, 2 \in 1..3 DEF AnswerExpired, Inv
<1>6. Inv'
    BY <1>1, <1>5, HoldsNothing, StepPreserves DEF AnswerExpired, SolveSeen
<1>7. token.generation # call[c].since => token' = token
    BY <1>2, <1>3
<1>8. c \in stale => token.generation # call[c].since
    BY <1>1 DEF Inv, GenerationsKnown, InFlight, Tokens
<1>9. token.generation = call[c].since => call[c].signed = token.value
    BY <1>1 DEF Inv, SignedSince
<1>10. call'[c] # call[c]
    BY <1>1, <1>5
<1>. QED  BY <1>5, <1>6, <1>7, <1>8, <1>9, <1>10, OthersStay DEF Lawful

LEMMA AnswerBlockedStep ==
    ASSUME MTopAssumption, Inv, NEW c \in Callers, AnswerBlocked(c)
    PROVE  Inv' /\ Lawful(c)
<1>1. /\ token \in Tokens /\ jar' \in Nat /\ minted' \in Nat
      /\ call[c] \in Call /\ call \in [Callers -> Call] /\ tmdGeneration \in Nat
      /\ call[c].pc = "sent" /\ call[c].since \in Nat
    BY TypedToken, ResponseTyped DEF Inv, AnswerBlocked, TypeOK, Call
<1>2. /\ token' \in Tokens /\ Follows(token, token')
      /\ token.generation # call[c].since => token' = token
      /\ token'.value = 0 => token.value = 0
    <2>1. token' = InstalledSince(token, call[c].since, jar')
        BY DEF AnswerBlocked
    <2>. QED  BY <1>1, <2>1, InstalledFollows
<1>3. Advanced(c) /\ call'[c].pc \in {"tmdWait", "primeWait"}
    <2>1. CASE call' = [call EXCEPT ![c].pc = "tmdWait", ![c].seen = tmdGeneration]
        <3> DEFINE d == [call[c] EXCEPT !.pc = "tmdWait", !.seen = tmdGeneration]
        <3>1. call' = [call EXCEPT ![c] = d]
            BY <2>1
        <3>2. call'[c] = d
            BY <1>1, <3>1
        <3>3. d \in Call /\ d.pc = "tmdWait" /\ d.since = call[c].since
            BY <1>1 DEF Call, Waits
        <3>4. call[c].since <= token'.generation
            BY <1>1, <1>2 DEF Inv, GenerationsKnown, Follows, Call, Tokens
        <3>. QED  BY <1>2, <3>1, <3>2, <3>3, <3>4 DEF Advanced
    <2>2. CASE call' = [call EXCEPT ![c].pc = "primeWait"]
        BY <1>2, <2>2, MovingAdvances DEF Moving, Inv, Waits
    <2>. QED  BY <2>1, <2>2 DEF AnswerBlocked
<1>4. Inv'
    BY <1>1, <1>3, HoldsNothing, StepPreserves DEF AnswerBlocked, SolveSeen
<1>5. c \in stale => token.generation # call[c].since
    BY <1>1 DEF Inv, GenerationsKnown, InFlight, Tokens
<1>. QED  BY <1>2, <1>3, <1>4, <1>5, OthersStay DEF Lawful

\* An operation begins with the generation it finds.
LEMMA BeginAdvances ==
    ASSUME TypeOK, NEW c \in Callers, NEW p \in {"boot", "solving"}, token' = token,
           call' = [call EXCEPT ![c].pc = p, ![c].since = token.generation]
    PROVE  Advanced(c) /\ call'[c].pc = p /\ call'[c].seen = call[c].seen
<1> DEFINE d == [call[c] EXCEPT !.pc = p, !.since = token.generation]
<1>1. call[c] \in Call /\ call \in [Callers -> Call] /\ token \in Tokens
    BY DEF TypeOK, Tokens
<1>2. call' = [call EXCEPT ![c] = d]
    OBVIOUS
<1>3. call'[c] = d /\ d.pc = p /\ d.since = token.generation /\ d.seen = call[c].seen
    BY <1>1, <1>2 DEF Call
<1>4. d \in Call
    BY <1>1 DEF Call, InFlight, Tokens
<1>5. token' \in Tokens /\ Follows(token, token') /\ d.since <= token'.generation
    BY <1>1, <1>3 DEF Follows, Tokens
<1>. QED  BY <1>2, <1>3, <1>4, <1>5 DEF Advanced

LEMMA BootEnterStep ==
    ASSUME MTopAssumption, Inv, NEW c \in Callers, BootEnter(c)
    PROVE  Inv' /\ Lawful(c)
<1>1. /\ token' = token /\ token \in Tokens /\ Follows(token, token')
      /\ call[c].pc = "bootWait" /\ jar' \in Nat /\ minted' \in Nat
    BY TypedToken DEF BootEnter, shared, Inv, Follows, Tokens
<1>2. Advanced(c) /\ SolveSeen(c) /\ Handled(bootLock, bootLock', c, "boot")
      /\ call'[c].pc \in {"boot", "sent", "done"}
    <2>1. CASE Expired(token)
        BY <2>1, <1>1, BeginAdvances DEF BootEnter, Inv, SolveSeen, Handled
    <2>2. CASE ~Expired(token)
        <3>1. Advanced(c) /\ call'[c].pc \in {"sent", "done"}
            BY <1>1, <2>2, AfterBootAdvances DEF BootEnter, Inv
        <3>. QED  BY <1>1, <2>2, <3>1 DEF MTopAssumption, BootEnter, SolveSeen, Handled
    <2>. QED  BY <2>1, <2>2
<1>3. /\ Handled(primeLock, primeLock', c, "priming")
      /\ Handled(tmdLock, tmdLock', c, "solving")
    BY <1>1, <1>2 DEF MTopAssumption, BootEnter, Handled, Inv, TypeOK
<1>4. Inv'
    BY <1>1, <1>2, <1>3, StepPreserves DEF BootEnter
<1>. QED  BY <1>1, <1>2, <1>4, OthersStay DEF Lawful

LEMMA BootDoneStep ==
    ASSUME MTopAssumption, Inv, NEW c \in Callers, BootDone(c)
    PROVE  Inv' /\ Lawful(c)
<1>1. /\ token \in Tokens /\ jar' \in Nat /\ minted' \in Nat /\ call[c].since \in Nat
      /\ call[c].pc = "boot" /\ bootLock = c
    BY TypedToken, ResponseTyped DEF Inv, BootDone, TypeOK, Call
<1>2. /\ token' \in Tokens /\ Follows(token, token')
      /\ token.generation # call[c].since => token' = token
      /\ token'.value = 0 => token.value = 0
    BY <1>1, InstalledFollows DEF BootDone
<1>3. Advanced(c) /\ call'[c].pc \in {"sent", "done"}
    BY <1>2, AfterBootAdvances DEF BootDone, Inv
<1>4. /\ Handled(bootLock, bootLock', c, "boot")
      /\ Handled(primeLock, primeLock', c, "priming")
      /\ Handled(tmdLock, tmdLock', c, "solving")
    BY <1>1, <1>3 DEF MTopAssumption, BootDone, Handled, Inv, TypeOK
<1>5. Inv'
    BY <1>1, <1>3, <1>4, StepPreserves DEF BootDone, SolveSeen
<1>6. c \in stale => token.generation # call[c].since
    BY <1>1 DEF Inv, GenerationsKnown, InFlight, Tokens
<1>. QED  BY <1>2, <1>3, <1>5, <1>6, OthersStay DEF Lawful

LEMMA PrimeEnterStep ==
    ASSUME MTopAssumption, Inv, NEW c \in Callers, PrimeEnter(c)
    PROVE  Inv' /\ Lawful(c)
<1>1. /\ token \in Tokens /\ jar' = jar /\ jar \in Nat /\ minted' \in Nat
      /\ call[c].pc = "primeWait" /\ primeLock = NoCaller
    BY TypedToken DEF PrimeEnter, Inv
<1>2. Follows(token, token)
    BY <1>1 DEF Follows, Tokens
<1>3. Advanced(c) /\ Handled(primeLock, primeLock', c, "priming")
      /\ call'[c].pc \in {"sent", "bootWait", "priming"}
      /\ (token' = token \/ (token'.value = 0 /\ jar' # token.value))
    <2>1. CASE token.generation # call[c].since
        <3>1. Advanced(c) /\ call'[c].pc \in {"sent", "bootWait"}
              /\ (token' = token \/ (token'.value = 0 /\ jar # token.value))
            BY <1>1, <1>2, <2>1, AfterRecoveryAdvances DEF PrimeEnter, Inv
        <3>. QED  BY <1>1, <2>1, <3>1 DEF MTopAssumption, PrimeEnter, Handled
    <2>2. CASE token.generation = call[c].since
        <3>1. token' = token /\ primeLock' = c
              /\ call' = [call EXCEPT ![c].pc = "priming", ![c].since = token.generation]
            BY <1>1, <2>2 DEF PrimeEnter, Moving, Inv, TypeOK, Call
        <3>2. Advanced(c) /\ call'[c].pc = "priming"
            <4> DEFINE d == [call[c] EXCEPT !.pc = "priming"]
            <4>1. call[c] \in Call /\ call \in [Callers -> Call]
                BY DEF Inv, TypeOK
            <4>2. call' = [call EXCEPT ![c] = d]
                BY <2>2 DEF PrimeEnter, Moving
            <4>3. call'[c] = d /\ d.pc = "priming" /\ d.since = call[c].since
                BY <4>1, <4>2 DEF Call
            <4>4. d \in Call
                BY <4>1 DEF Call, InFlight
            <4>5. token' \in Tokens /\ Follows(token, token') /\ d.since <= token'.generation
                BY <1>1, <1>2, <2>2, <3>1, <4>3 DEF Tokens
            <4>. QED  BY <4>2, <4>3, <4>4, <4>5 DEF Advanced
        <3>. QED  BY <1>1, <3>1, <3>2 DEF Handled
    <2>. QED  BY <2>1, <2>2
<1>4. /\ Handled(bootLock, bootLock', c, "boot")
      /\ Handled(tmdLock, tmdLock', c, "solving")
    BY <1>1, <1>3 DEF MTopAssumption, PrimeEnter, Handled, Inv, TypeOK
<1>5. Inv'
    BY <1>1, <1>3, <1>4, StepPreserves DEF PrimeEnter, SolveSeen
<1>. QED  BY <1>3, <1>5, OthersStay DEF Lawful

LEMMA PrimeDoneStep ==
    ASSUME MTopAssumption, Inv, NEW c \in Callers, PrimeDone(c)
    PROVE  Inv' /\ Lawful(c)
<1> DEFINE t == InstalledSince(token, call[c].since, jar')
<1>1. /\ token \in Tokens /\ jar' \in Nat /\ minted' \in Nat /\ call[c].since \in Nat
      /\ call[c].pc = "priming" /\ primeLock = c
    BY TypedToken, ResponseTyped DEF Inv, PrimeDone, TypeOK, Call
<1>2. /\ t \in Tokens /\ Follows(token, t)
      /\ token.generation # call[c].since => t = token
      /\ t.value \in {token.value, jar'} /\ (t.value = 0 => token.value = 0)
    BY <1>1, InstalledFollows
<1>7. Follows(token, token)
    BY <1>1 DEF Follows, Tokens
<1>3. /\ Advanced(c) /\ call'[c].pc \in {"sent", "bootWait", "done"}
      /\ token' \in {t, token} \/ (token'.value = 0 /\ jar' # t.value)
      /\ token.generation # call[c].since =>
             token' = token \/ (token'.value = 0 /\ jar' # token.value)
    <2>1. CASE AfterRecovery(c, t, jar')
        BY <1>1, <1>2, <2>1, AfterRecoveryAdvances DEF Inv
    <2>2. CASE token' = token /\ Moving(c, "done")
        BY <1>1, <1>7, <2>2, MovingAdvances DEF Inv, Ended
    <2>. QED  BY <2>1, <2>2 DEF PrimeDone
<1>4. /\ Handled(bootLock, bootLock', c, "boot")
      /\ Handled(primeLock, primeLock', c, "priming")
      /\ Handled(tmdLock, tmdLock', c, "solving")
    BY <1>1, <1>3 DEF MTopAssumption, PrimeDone, Handled, Inv, TypeOK
<1>5. Inv'
    BY <1>1, <1>3, <1>4, StepPreserves DEF PrimeDone, SolveSeen
<1>6. c \in stale => token.generation # call[c].since
    BY <1>1 DEF Inv, GenerationsKnown, InFlight, Tokens
<1>. QED  BY <1>2, <1>3, <1>5, <1>6, OthersStay DEF Lawful

LEMMA TmdEnterStep ==
    ASSUME MTopAssumption, Inv, NEW c \in Callers, TmdEnter(c)
    PROVE  Inv' /\ Lawful(c)
<1>1. /\ token \in Tokens /\ jar' = jar /\ jar \in Nat /\ minted' \in Nat
      /\ call[c].pc = "tmdWait" /\ tmdLock = NoCaller
    BY TypedToken DEF TmdEnter, Inv
<1>2. Follows(token, token)
    BY <1>1 DEF Follows, Tokens
<1>3. /\ Advanced(c) /\ Handled(tmdLock, tmdLock', c, "solving") /\ SolveSeen(c)
      /\ call'[c].pc \in {"sent", "bootWait", "solving"}
      /\ (token' = token \/ (token'.value = 0 /\ jar' # token.value))
    <2>1. CASE tmdGeneration # call[c].seen
        <3>1. Advanced(c) /\ call'[c].pc \in {"sent", "bootWait"}
              /\ (token' = token \/ (token'.value = 0 /\ jar # token.value))
            BY <1>1, <1>2, <2>1, AfterRecoveryAdvances DEF TmdEnter, Inv
        <3>. QED  BY <1>1, <2>1, <3>1 DEF MTopAssumption, TmdEnter, Handled, SolveSeen
    <2>2. CASE tmdGeneration = call[c].seen
        BY <1>1, <2>2, BeginAdvances DEF TmdEnter, Inv, Handled, SolveSeen
    <2>. QED  BY <2>1, <2>2
<1>4. /\ Handled(bootLock, bootLock', c, "boot")
      /\ Handled(primeLock, primeLock', c, "priming")
    BY <1>1, <1>3 DEF MTopAssumption, TmdEnter, Handled, Inv, TypeOK
<1>5. Inv'
    BY <1>1, <1>3, <1>4, StepPreserves DEF TmdEnter
<1>. QED  BY <1>3, <1>5, OthersStay DEF Lawful

LEMMA SolvedStep ==
    ASSUME MTopAssumption, Inv, NEW c \in Callers, Solved(c)
    PROVE  Inv' /\ Lawful(c)
<1> DEFINE t == InstalledSince(token, call[c].since, jar')
<1>1. /\ token \in Tokens /\ jar' \in Nat /\ minted' \in Nat /\ call[c].since \in Nat
      /\ call[c].pc = "solving" /\ tmdLock = c /\ tmdGeneration \in Nat
    BY TypedToken, ResponseTyped DEF Inv, Solved, TypeOK, Call
<1>2. /\ t \in Tokens /\ Follows(token, t)
      /\ token.generation # call[c].since => t = token
      /\ t.value \in {token.value, jar'} /\ (t.value = 0 => token.value = 0)
    BY <1>1, InstalledFollows
<1>3. /\ Advanced(c) /\ call'[c].pc \in {"sent", "bootWait"}
      /\ token' = t \/ (token'.value = 0 /\ jar' # t.value)
    BY <1>1, <1>2, AfterRecoveryAdvances DEF Solved, Inv
<1>4. /\ Handled(bootLock, bootLock', c, "boot")
      /\ Handled(primeLock, primeLock', c, "priming")
      /\ Handled(tmdLock, tmdLock', c, "solving")
    BY <1>1, <1>3 DEF MTopAssumption, Solved, Handled, Inv, TypeOK
<1>5. Inv'
    BY <1>1, <1>3, <1>4, StepPreserves DEF Solved, SolveSeen
<1>6. c \in stale => token.generation # call[c].since
    BY <1>1 DEF Inv, GenerationsKnown, InFlight, Tokens
<1>. QED  BY <1>2, <1>3, <1>5, <1>6, OthersStay DEF Lawful

\* The two ways to end that change no token.
LEMMA EndStep ==
    ASSUME MTopAssumption, Inv, NEW c \in Callers, NotSolved(c) \/ Leave(c)
    PROVE  Inv' /\ Lawful(c)
<1>1. /\ token' = token /\ token \in Tokens /\ Follows(token, token')
      /\ tmdGeneration' = tmdGeneration
    BY TypedToken DEF NotSolved, Leave, Inv, Follows, Tokens
<1>2. jar' \in Nat /\ minted' \in Nat
    BY ResponseTyped, TypedToken DEF NotSolved, Leave, Inv
<1>3. Advanced(c) /\ call'[c].pc \in {"done", "gone"}
    BY <1>1, MovingAdvances DEF NotSolved, Leave, Inv, Ended
<1>4. /\ Handled(bootLock, bootLock', c, "boot")
      /\ Handled(primeLock, primeLock', c, "priming")
      /\ Handled(tmdLock, tmdLock', c, "solving")
    BY <1>3 DEF MTopAssumption, NotSolved, Leave, Releasing, Handled, Inv, TypeOK
<1>5. Inv'
    BY <1>1, <1>2, <1>3, <1>4, StepPreserves DEF NotSolved, Leave, SolveSeen
<1>. QED  BY <1>1, <1>3, <1>5, OthersStay DEF Lawful

LEMMA CallStep ==
    ASSUME MTopAssumption, Inv, NEW c \in Callers, Start(c) \/ Progress(c) \/ Leave(c)
    PROVE  Inv' /\ Lawful(c)
BY StartStep, AnswerFinalStep, AnswerExpiredStep, AnswerBlockedStep, BootEnterStep, BootDoneStep,
   PrimeEnterStep, PrimeDoneStep, TmdEnterStep, SolvedStep, EndStep DEF Progress

LEMMA AgeStep ==
    ASSUME Inv, Age
    PROVE  Inv' /\ token'.value = token.value
<1>1. /\ token' \in [value : Nat, aged : BOOLEAN, generation : Nat]
      /\ token'.value = token.value /\ token'.generation = token.generation
    BY DEF Age, Inv, TypeOK
<1>. QED
    BY <1>1 DEF Age, locks, Inv, TypeOK, GenerationsKnown, SignedSince,
                WaitersShareTheSolve, ReplayIsSigned

---------------------------------------------------------------------------
(* The theorems *)

LEMMA InitInv == ASSUME MTopAssumption PROVE Init => Inv
BY DEF MTopAssumption, Init, Inv, TypeOK, GenerationsKnown, SignedSince, WaitersShareTheSolve,
                      ReplayIsSigned, Call, InFlight, Waits, Ended

LEMMA StutterInv == Inv /\ UNCHANGED vars => Inv'
BY DEF vars, shared, locks, Inv, TypeOK, GenerationsKnown, SignedSince, WaitersShareTheSolve,
       ReplayIsSigned

LEMMA NextInv == ASSUME MTopAssumption PROVE Inv /\ [Next]_vars => Inv'
BY CallStep, AgeStep, StutterInv DEF Next

LEMMA InvHolds == ASSUME MTopAssumption PROVE Spec => []Inv
BY InitInv, NextInv, PTL DEF Spec

\* Each value has its type, and a lock belongs to the call whose operation it
\* guards: request() and _deadline_lock never leave one behind.
THEOREM TypeCorrect == ASSUME MTopAssumption PROVE Spec => []TypeOK
<1>1. Inv => TypeOK
    BY DEF Inv
<1>. QED  BY <1>1, InvHolds, PTL

\* A call that waited for another's successful solve opens no challenge.
THEOREM SolveIsShared == ASSUME MTopAssumption PROVE Spec => []WaitersShareTheSolve
<1>1. Inv => WaitersShareTheSolve
    BY DEF Inv
<1>. QED  BY <1>1, InvHolds, PTL

\* No request is replayed without a signature.
THEOREM ReplaysSigned == ASSUME MTopAssumption PROVE Spec => []ReplayIsSigned
<1>1. Inv => ReplayIsSigned
    BY DEF Inv
<1>. QED  BY <1>1, InvHolds, PTL

\* The generations do their work for any number of calls: what a bootstrap, a
\* prime, a solve or an answer brings late changes nothing of a newer token.
THEOREM LateResultsIgnored == ASSUME MTopAssumption PROVE Spec => NewerTokenSurvives
<1>1. ASSUME Inv, [Next]_vars
      PROVE  [\A c \in stale : Moves(c) /\ token'.value # token.value =>
                  token'.value = 0 /\ jar' # token.value]_vars
    <2>1. ASSUME NEW c \in Callers, Start(c) \/ Progress(c) \/ Leave(c), NEW e \in stale, Moves(e),
                 token'.value # token.value
          PROVE  token'.value = 0 /\ jar' # token.value
        BY <1>1, <2>1, CallStep DEF Lawful, Moves, Inv, TypeOK
    <2>2. Age => token'.value = token.value
        BY <1>1, AgeStep
    <2>. QED  BY <1>1, <2>1, <2>2 DEF Next
<1>. QED  BY <1>1, InvHolds, PTL DEF Spec, NewerTokenSurvives

\* A failure invalidates the token it was signed with and no other.
THEOREM RefusedTokensOnly == ASSUME MTopAssumption PROVE Spec => OnlyRefusedTokenCleared
<1>1. ASSUME Inv, [Next]_vars
      PROVE  [token.value # 0 /\ token'.value = 0 =>
                  \/ jar' # token.value
                  \/ \E c \in Callers : Moves(c) /\ call[c].signed = token.value]_vars
    <2>1. ASSUME NEW c \in Callers, Start(c) \/ Progress(c) \/ Leave(c),
                 token.value # 0, token'.value = 0
          PROVE  jar' # token.value \/ (Moves(c) /\ call[c].signed = token.value)
        BY <1>1, <2>1, CallStep DEF Lawful, Moves
    <2>2. Age => token'.value = token.value
        BY <1>1, AgeStep
    <2>. QED  BY <1>1, <2>1, <2>2 DEF Next
<1>. QED  BY <1>1, InvHolds, PTL DEF Spec, OnlyRefusedTokenCleared

=============================================================================
