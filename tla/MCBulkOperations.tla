-------------------------- MODULE MCBulkOperations ---------------------------
(* Finite values for the constants of BulkOperations.                       *)
EXTENDS BulkOperations, TLC

CONSTANTS i1, i2

\* A list that names an issue twice, and a list of one issue.
ScopeTwice  == {<<i1, i2, i1>>}
ScopeSingle == {<<i1>>}

\* Ticks, requests, tokens and keys are interchangeable.
Symmetry == Permutations(Tick) \cup Permutations(Req)
            \cup Permutations(Token) \cup Permutations(Key)
=============================================================================
