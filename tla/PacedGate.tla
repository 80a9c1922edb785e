------------------------------ MODULE PacedGate ------------------------------
(***************************************************************************)
(* What a domain rate limiter promises, whatever the order its callers     *)
(* come in, sleep and are cancelled: two passes are a minimum interval     *)
(* apart, longer for heavier requests, and nobody passes before the end of *)
(* a delay the site asked for, also not a caller that was waiting by then. *)
(***************************************************************************)
EXTENDS Naturals

CONSTANTS
    Callers,       \* the callers of wait(), each calls once
    MinInterval,   \* min_interval
    Extra,         \* the extra_delay of each caller
    Delays,        \* the delays defer() may be given
    Horizon        \* bound on the clock

VARIABLES
    now,       \* time.monotonic(), never 0
    last,      \* when the last caller passed, 0 if nobody did
    held,      \* the end of the longest delay asked for
    served     \* who has passed

vars == <<now, last, held, served>>

Init == now = 1 /\ last = 0 /\ held = 0 /\ served = {}

Later(a, b) == IF a >= b THEN a ELSE b

Pass(r) ==
    /\ r \notin served
    /\ now >= held
    /\ last > 0 => now >= last + MinInterval + Extra[r]
    /\ last' = now
    /\ served' = served \cup {r}
    /\ UNCHANGED <<now, held>>

Defer(s) ==
    /\ held' = Later(held, now + s)
    /\ UNCHANGED <<now, last, served>>

Tick ==
    /\ now < Horizon
    /\ now' = now + 1
    /\ UNCHANGED <<last, held, served>>

Next == (\E r \in Callers : Pass(r)) \/ (\E s \in Delays : Defer(s)) \/ Tick

Spec == Init /\ [][Next]_vars

=============================================================================
