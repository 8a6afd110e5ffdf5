--------------------------- MODULE MCWatchNotify ---------------------------
(***************************************************************************)
(* WatchNotify with two watches and one call of IoCtx::notify.             *)
(***************************************************************************)
EXTENDS WatchNotify

CONSTANTS w1, w2

MCWatches == {w1, w2}

\* Only w1 may be notified twice.
MCMaxDispatch == [w \in MCWatches |-> IF w = w1 THEN 2 ELSE 1]

NoDrops == {}

=============================================================================
