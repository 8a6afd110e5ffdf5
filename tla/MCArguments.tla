---------------------------- MODULE MCArguments ----------------------------
(***************************************************************************)
(* Timeouts and RetryBuffers, whose calls share nothing: the Durations     *)
(* around each unit's boundaries, with integer types small enough to       *)
(* overflow, and values that fit the first buffers, just fit them, or do   *)
(* not.                                                                    *)
(***************************************************************************)
EXTENDS Timeouts, RetryBuffers, TLC

CONSTANTS x0, x2, x3, x9, l0, l1, l2, l3, p0, p3, p4, p7

\* The boundaries of a group of digits.  A lock may also be given no Duration.
Digits == {0, 1, 999}

MCDurations == [secs : 0 .. 6, millis : Digits \cup {500}, micros : Digits, nanos : Digits]

Xattr(n) == [value |-> n]
Lock(t, cl, co, ad) == [tag |-> t, clients |-> cl, cookies |-> co, addrs |-> ad]
Pools(n) == [names |-> n]

MCValues == [m \in Methods |->
  CASE m = "getxattr" -> {x0, x2, x3, x9}
    [] m = "list_lockers" -> {l0, l1, l2, l3}
    [] m = "list_pools" -> {p0, p3, p4, p7}]

\* l0 has no lockers; l2 and l3 need more than l1, and each less than the other somewhere.
MCBytes ==
  (x0 :> Xattr(0)) @@ (x2 :> Xattr(2)) @@ (x3 :> Xattr(3)) @@ (x9 :> Xattr(9)) @@
  (l0 :> Lock(1, 0, 0, 0)) @@ (l1 :> Lock(2, 2, 1, 2)) @@
  (l2 :> Lock(2, 4, 1, 3)) @@ (l3 :> Lock(2, 2, 5, 3)) @@
  (p0 :> Pools(0)) @@ (p3 :> Pools(3)) @@ (p4 :> Pools(4)) @@ (p7 :> Pools(7))

MCStart == [m \in Methods |-> IF m = "list_pools" THEN 3 ELSE 2]

-----------------------------------------------------------------------------

\* Since nothing is shared, one Duration to follow the buffers with is enough.
WithBuffers == asked = NoDuration

Converted == TimeoutsNext /\ UNCHANGED vars
Buffers == WithBuffers /\ Next /\ UNCHANGED tvars
Ended == ~ WithBuffers /\ status # "pending" /\ UNCHANGED <<tvars, vars>>

ArgumentsInit == TimeoutsInit /\ Init
ArgumentsNext == Converted \/ Buffers \/ Ended

ArgumentsSpec ==
  ArgumentsInit /\ [][ArgumentsNext]_<<tvars, vars>> /\ WF_vars(Rados) /\ WF_vars(Step)

=============================================================================
