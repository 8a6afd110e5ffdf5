----------------------------- MODULE MCFencing -----------------------------
(***************************************************************************)
(* Fencing with two clients of one thread each, in three setups.           *)
(***************************************************************************)
EXTENDS Fencing

CONSTANTS a, b

MCThreads == {a, b}
MCClientOf == [t \in MCThreads |-> t]

Of(x, y) == [t \in MCThreads |-> IF t = a THEN x ELSE y]

\* a holds the lock and writes, b takes it over.
Takeover ==
  [mayCall |-> Of({"lock", "write"}, {"list_lockers", "blocklist_add", "wait", "break_lock"}),
   leases |-> {0}, flags |-> {"may_renew"}, hasty |-> {a},
   calls |-> Of(3, 5), epochs |-> 3, time |-> 0]

\* Both compete for the lock.
Competition ==
  [mayCall |-> Of({"lock", "unlock"}, {"lock", "list_lockers", "break_lock"}),
   leases |-> {1, 2}, flags |-> {"may_renew", "must_renew"}, hasty |-> {a},
   calls |-> Of(3, 2), epochs |-> 1, time |-> 2]

\* a holds the lock and watches, b shuts it out.
Eviction ==
  [mayCall |-> Of({"lock", "watch"}, {"list_lockers", "blocklist_add", "wait"}),
   leases |-> {0}, flags |-> {"none"}, hasty |-> {a},
   calls |-> Of(2, 4), epochs |-> 3, time |-> 0]

MCSetups == {Takeover, Competition, Eviction}

=============================================================================
