---------------------------- MODULE MCParserSlots ----------------------------
EXTENDS ParserSlots, TLC

\* Calls differ only in their identity.
Symmetry == Permutations(Calls)

=============================================================================
