------------------------------ MODULE MCWatch ------------------------------
(***************************************************************************)
(* Instances of Watch: two watches of one client that share its strand.    *)
(***************************************************************************)
EXTENDS Watch

CONSTANTS w1, w2, n1, none

MCWatches == {w1, w2}
MCNotices == {n1}

\* A notice may be delivered twice.
MCMaxDispatch == [w \in MCWatches |-> 2]

\* A callback of w1 may drop its own Watch or the one of w2; those of w2 keep to the docs.
SomeDrops == {w1} \X {w1, w2}

=============================================================================
