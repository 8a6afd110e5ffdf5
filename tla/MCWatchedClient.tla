-------------------------- MODULE MCWatchedClient --------------------------
(***************************************************************************)
(* WatchedClient on two watches of one ioctx.                              *)
(***************************************************************************)
EXTENDS WatchedClient

CONSTANTS w1, w2

MCWatches == {w1, w2}

MCMaxDispatch == [w \in MCWatches |-> 1]

\* The callbacks of w1 may drop both watches.
SomeDrops == {<<w1, w1>>, <<w1, w2>>}

=============================================================================
