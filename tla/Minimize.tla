------------------------------- MODULE Minimize -------------------------------
(***************************************************************************)
(* Delta debugging of a captured request, ddmin() in                       *)
(* src/src/fetchaller/discovery/minimize.py: which of the removable fields *)
(* does the server need?  Every probe is a live request, remembered in a   *)
(* memo and limited by a budget.  A candidate is the set of the removable  *)
(* fields in it; fields are numbered in the order of the request.  Nothing *)
(* is assumed of the server: a larger candidate may fail where a smaller   *)
(* one passes.  The server's answers are consistent only by the memo.      *)
(***************************************************************************)
EXTENDS Naturals, FiniteSets

CONSTANTS
    Fields,      \* the removable fields, a set of numbers
    MaxProbes    \* max_probes

VARIABLES
    passed, failed,  \* cache: the candidates probed, by their answer
    current,         \* the smallest candidate that is known to pass
    n,               \* how many chunks it is split into
    tried,           \* chunks tried in this round
    pc               \* "whole", "chunks", "complements", then how it ended

vars == <<passed, failed, current, n, tried, pc>>

MinimizeAssumption == IsFiniteSet(Fields) /\ Fields \subseteq Nat /\ MaxProbes \in Nat

Ends == {"untouched", "finished", "exhausted"}

TypeOK ==
    /\ passed \in SUBSET SUBSET Fields
    /\ failed \in SUBSET SUBSET Fields
    /\ current \subseteq Fields
    /\ n \in Nat
    /\ tried \in Nat
    /\ pc \in {"whole", "chunks", "complements"} \cup Ends

Lesser(a, b) == IF a <= b THEN a ELSE b
Greater(a, b) == IF a >= b THEN a ELSE b

Init ==
    /\ passed = {}
    /\ failed = {}
    /\ current = Fields
    /\ n = Lesser(2, Cardinality(Fields))
    /\ tried = 0
    /\ pc = "whole"

---------------------------------------------------------------------------
(* partition *)

\* The place of x in S, from 1.
Place(S, x) == Cardinality({y \in S : y <= x})

\* Where the i-th of k roughly equal chunks ends: the first ones have one more.
ChunkEnd(S, k, i) == i * (Cardinality(S) \div k) + Lesser(i, Cardinality(S) % k)

Chunk(S, k, i) ==
    {x \in S : ChunkEnd(S, k, i - 1) < Place(S, x) /\ Place(S, x) <= ChunkEnd(S, k, i)}

---------------------------------------------------------------------------
(* test *)

Probed == passed \cup failed
CanProbe(S) == S \in Probed \/ Cardinality(Probed) < MaxProbes

Passes(S) ==
    /\ CanProbe(S) /\ S \notin failed
    /\ passed' = passed \cup {S}
    /\ UNCHANGED failed

DoesNotPass(S) ==
    /\ CanProbe(S) /\ S \notin passed
    /\ failed' = failed \cup {S}
    /\ UNCHANGED passed

---------------------------------------------------------------------------
(* ddmin *)

\* What does not work as it is is handed back untouched.
Whole ==
    /\ pc = "whole"
    /\ tried' = 0
    /\ \/ Passes(Fields) /\ pc' = IF Fields = {} THEN "finished" ELSE "chunks"
       \/ DoesNotPass(Fields) /\ pc' = "untouched"
       \/ ~CanProbe(Fields) /\ pc' = "untouched" /\ UNCHANGED <<passed, failed>>
    /\ UNCHANGED <<current, n>>

\* The candidate of this step: the next chunk alone, or its complement.
Candidate ==
    LET chunk == Chunk(current, n, tried + 1)
    IN  IF pc = "chunks" THEN chunk ELSE current \ chunk

\* A chunk that is all there is is known to pass.
SkipWhole ==
    /\ pc = "chunks" /\ tried < n
    /\ Candidate = current
    /\ tried' = tried + 1
    /\ UNCHANGED <<passed, failed, current, n, pc>>

\* The smaller candidate passes: a new round, with about as many chunks.
Split(S) == Lesser(Greater(2, n - 1), Cardinality(S))
Shrink ==
    /\ pc \in {"chunks", "complements"} /\ tried < n
    /\ Candidate # current
    /\ Passes(Candidate)
    /\ current' = Candidate
    /\ n' = Split(Candidate)
    /\ tried' = 0
    /\ pc' = IF Candidate = {} THEN "finished" ELSE "chunks"

Keep ==
    /\ pc \in {"chunks", "complements"} /\ tried < n
    /\ Candidate # current
    /\ DoesNotPass(Candidate)
    /\ tried' = tried + 1
    /\ UNCHANGED <<current, n, pc>>

\* The budget is spent: what is known to pass is returned.
ReturnedMutant == Candidate
Returned == current
Exhaust ==
    /\ pc \in {"chunks", "complements"} /\ tried < n
    /\ Candidate # current
    /\ ~CanProbe(Candidate)
    /\ current' = Returned
    /\ pc' = "exhausted"
    /\ UNCHANGED <<passed, failed, n, tried>>

ToComplements ==
    /\ pc = "chunks" /\ tried = n
    /\ pc' = "complements"
    /\ tried' = 0
    /\ UNCHANGED <<passed, failed, current, n>>

\* No chunk and no complement passes: smaller chunks, or the end.
FinestMutant == 2 * n >= Cardinality(current)
Finest == n >= Cardinality(current)
Finer == Lesser(Cardinality(current), 2 * n)
NextRound ==
    /\ pc = "complements" /\ tried = n
    /\ tried' = 0
    /\ IF Finest
       THEN pc' = "finished" /\ UNCHANGED n
       ELSE pc' = "chunks" /\ n' = Finer
    /\ UNCHANGED <<passed, failed, current>>

Next == Whole \/ SkipWhole \/ Shrink \/ Keep \/ Exhaust \/ ToComplements \/ NextRound

Spec == Init /\ [][Next]_vars

---------------------------------------------------------------------------
(* Correctness *)

\* Whatever the budget, what ddmin returns has been probed and has passed,
\* unless the request as captured does not pass.
KeptPasses ==
    IF pc \in {"whole", "untouched"} THEN current = Fields ELSE current \in passed

\* A result that was not cut short is 1-minimal: the server was asked without
\* each of its fields and did not give the same answer.
OneMinimal == pc = "finished" => \A x \in current : current \ {x} \in failed

=============================================================================
