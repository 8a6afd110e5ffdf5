--------------------------- MODULE WatchContract ---------------------------
(***************************************************************************)
(* What a registered watch promises to the code behind its callbacks       *)
(* (src/src/ioctx.rs, the docs of IoCtx::watch, WatchState and Watch):     *)
(* callbacks run one at a time, only while their state is allocated; each  *)
(* notification taken is answered once; the state is released once, after  *)
(* the last answer.                                                        *)
(***************************************************************************)
EXTENDS Naturals

CONSTANTS Watches, Notices

VARIABLES
  phase,  \* [Watches -> {"absent", "active", "released"}]: the callback state
  owed,   \* [Watches -> [Notices -> Nat]]: notifications taken and not answered
  busy    \* the watches whose callback is running: at most one

cvars == <<phase, owed, busy>>

Quiet == [n \in Notices |-> 0]

Init ==
  /\ phase = [w \in Watches |-> "absent"]
  /\ owed = [w \in Watches |-> Quiet]
  /\ busy = {}

Activate(w) ==
  /\ phase[w] = "absent"
  /\ phase' = [phase EXCEPT ![w] = "active"]
  /\ UNCHANGED <<owed, busy>>

Take(w, n) ==
  /\ phase[w] = "active"
  /\ owed' = [owed EXCEPT ![w][n] = @ + 1]
  /\ UNCHANGED <<phase, busy>>

Invoke(w) ==
  /\ phase[w] = "active"
  /\ busy = {}
  /\ busy' = {w}
  /\ UNCHANGED <<phase, owed>>

\* on_notify ran and its reply is sent
Answer(w, n) ==
  /\ w \in busy
  /\ owed[w][n] > 0
  /\ owed' = [owed EXCEPT ![w][n] = @ - 1]
  /\ busy' = {}
  /\ UNCHANGED phase

\* on_error ran
Return(w) ==
  /\ w \in busy
  /\ busy' = {}
  /\ UNCHANGED <<phase, owed>>

Release(w) ==
  /\ phase[w] = "active"
  /\ w \notin busy
  /\ owed[w] = Quiet
  /\ phase' = [phase EXCEPT ![w] = "released"]
  /\ UNCHANGED <<owed, busy>>

Next ==
  \E w \in Watches :
    \/ Activate(w) \/ Invoke(w) \/ Return(w) \/ Release(w)
    \/ \E n \in Notices : Take(w, n) \/ Answer(w, n)

Spec == Init /\ [][Next]_cvars

=============================================================================
