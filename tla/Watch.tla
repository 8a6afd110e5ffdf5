------------------------------- MODULE Watch -------------------------------
(***************************************************************************)
(* The life of the watches of one librados client: IoCtx::watch, the two   *)
(* trampolines and Watch::drop (src/src/ioctx.rs).                         *)
(*                                                                         *)
(* The wrapper leaks a WatchState box to librados, whose callbacks borrow  *)
(* it, and takes the box back in Watch::drop.  Three kinds of actors run   *)
(* concurrently: the threads that open and drop watches, the Objecter that *)
(* dispatches events, and the one finisher strand of the client, which     *)
(* runs the callbacks one at a time in dispatch order.                     *)
(*                                                                         *)
(* librados is not part of this repository.  Its part (Register, Dispatch, *)
(* the strand) is modelled from what the wrapper's SAFETY comments rely on.*)
(***************************************************************************)
EXTENDS Naturals, Sequences, FiniteSets

CONSTANTS
  Watches,        \* the watches a run may open, each at most once
  Notices,        \* notification ids
  NoNotice,       \* the notice field of an event that carries none
  CallbackDrops,  \* <<a, w>>: a callback of a may drop the Watch w
  MaxDispatch,    \* bound, [Watches -> Nat]: how often one notice is dispatched to a watch
  MaxErrors       \* bound: error events dispatched to one watch

ASSUME WatchAssumption ==
  /\ NoNotice \notin Notices
  /\ CallbackDrops \subseteq Watches \X Watches
  /\ MaxDispatch \in [Watches -> Nat]
  /\ MaxErrors \in Nat

VARIABLES
  pc,          \* [Watches -> Stage]: where the owner of the watch is
  box,         \* [Watches -> ...]: the WatchState allocation
  linger,      \* watches whose cookie the Objecter finds
  strand,      \* events of the finisher strand; the head is the one running
  callback,    \* what the handler at the head of the strand is doing
  nested,      \* watches the running callback is dropping
  dispatched,  \* history: notices dispatched to a watch
  acked,       \* history: rados_notify_ack calls
  errors       \* history: error events dispatched to a watch

vars == <<pc, box, linger, strand, callback, nested, dispatched, acked, errors>>

Stage ==
  { "new",       \* IoCtx::watch not called yet
    "opening",   \* inside rados_watch3
    "failed",    \* IoCtx::watch returned an error
    "held",      \* the Watch is owned by user code
    "unwatch",   \* Watch::drop, inside rados_unwatch2
    "flush",     \* rados_unwatch2 returned
    "flushing",  \* inside rados_watch_flush
    "reclaim",   \* rados_watch_flush returned
    "fields",    \* the box is freed, the fields of the Watch are not yet
    "gone" }     \* the Watch is fully dropped

Event ==
  [kind : {"notify"}, watch : Watches, notice : Notices]
    \cup [kind : {"error", "flush"}, watch : Watches, notice : {NoNotice}]

NotifyEvent(w, n) == [kind |-> "notify", watch |-> w, notice |-> n]
ErrorEvent(w) == [kind |-> "error", watch |-> w, notice |-> NoNotice]
FlushEvent(w) == [kind |-> "flush", watch |-> w, notice |-> NoNotice]

IsCallback(e) == e.kind # "flush"

\* What on_notify may do, and the reply the trampoline acks with: a panic is caught and a
\* reply longer than a c_int is cut, both to an empty reply.
Outcome == {"value", "empty", "panic", "oversize"}
ReplyForUncut(o) == IF o = "panic" THEN "empty" ELSE o  \* mutant: the length is not checked
ReplyFor(o) == IF o = "value" THEN "value" ELSE "empty"

Init ==
  /\ pc = [w \in Watches |-> "new"]
  /\ box = [w \in Watches |-> "none"]
  /\ linger = {}
  /\ strand = <<>>
  /\ callback = "idle"
  /\ nested = {}
  /\ dispatched = [w \in Watches |-> [n \in Notices |-> 0]]
  /\ acked = [w \in Watches |-> [n \in Notices |-> 0]]
  /\ errors = [w \in Watches |-> 0]

histories == <<dispatched, acked, errors>>

Goto(w, from, to) ==
  /\ pc[w] = from
  /\ pc' = [pc EXCEPT ![w] = to]

-----------------------------------------------------------------------------
(* IoCtx::watch *)

\* Box::into_raw, then the call of rados_watch3.
Open(w) ==
  /\ Goto(w, "new", "opening")
  /\ box' = [box EXCEPT ![w] = "live"]
  /\ UNCHANGED <<linger, strand, callback, nested, histories>>

\* librados registers the watch inside rados_watch3; callbacks may run before it returns.
Register(w) ==
  /\ pc[w] = "opening"
  /\ linger' = linger \cup {w}
  /\ UNCHANGED <<pc, box, strand, callback, nested, histories>>

OpenSucceeds(w) ==
  /\ w \in linger
  /\ Goto(w, "opening", "held")
  /\ UNCHANGED <<box, linger, strand, callback, nested, histories>>

\* mutant: a failure after the registration is treated like one before it
OpenFailsRegistered(w) ==
  /\ Goto(w, "opening", "failed")
  /\ box' = [box EXCEPT ![w] = "freed"]
  /\ UNCHANGED <<linger, strand, callback, nested, histories>>

\* rados_watch3 failed and registered nothing: the box is taken back here.
OpenFails(w) ==
  /\ w \notin linger
  /\ Goto(w, "opening", "failed")
  /\ box' = [box EXCEPT ![w] = "freed"]
  /\ UNCHANGED <<linger, strand, callback, nested, histories>>

-----------------------------------------------------------------------------
(* Watch::drop, by a thread or (against the documentation) by a callback *)

BeginDrop(w) ==
  /\ Goto(w, "held", "unwatch")
  /\ UNCHANGED <<box, linger, strand, callback, nested, histories>>

BeginDropInCallback(w) ==
  /\ callback = "running"
  /\ <<Head(strand).watch, w>> \in CallbackDrops
  /\ Goto(w, "held", "unwatch")
  /\ nested' = nested \cup {w}
  /\ UNCHANGED <<box, linger, strand, callback, histories>>

\* The first half of rados_unwatch2: from here on nothing new is dispatched.
CancelLinger(w) ==
  /\ pc[w] = "unwatch"
  /\ linger' = linger \ {w}
  /\ UNCHANGED <<pc, box, strand, callback, nested, histories>>

\* mutant: drop goes on to free the box without rados_watch_flush
UnwatchReturnsNoFlush(w) ==
  /\ w \notin linger
  /\ Goto(w, "unwatch", "reclaim")
  /\ UNCHANGED <<box, linger, strand, callback, nested, histories>>

\* rados_unwatch2 heard from the OSD; its return code is ignored.
UnwatchReturns(w) ==
  /\ w \notin linger
  /\ Goto(w, "unwatch", "flush")
  /\ UNCHANGED <<box, linger, strand, callback, nested, histories>>

\* mutant: the flush handler goes to the front of the queue, behind the running callback only
FlushAhead(w) ==
  /\ Goto(w, "flush", "flushing")
  /\ strand' = IF callback = "idle" THEN <<FlushEvent(w)>> \o strand
               ELSE <<Head(strand), FlushEvent(w)>> \o Tail(strand)
  /\ UNCHANGED <<box, linger, callback, nested, histories>>

\* rados_watch_flush defers a handler onto the strand and blocks until it has run.
Flush(w) ==
  /\ Goto(w, "flush", "flushing")
  /\ strand' = Append(strand, FlushEvent(w))
  /\ UNCHANGED <<box, linger, callback, nested, histories>>

\* drop(Box::from_raw(state))
Reclaim(w) ==
  /\ Goto(w, "reclaim", "fields")
  /\ box' = [box EXCEPT ![w] = "freed"]
  /\ UNCHANGED <<linger, strand, callback, nested, histories>>

DropFields(w) ==
  /\ Goto(w, "fields", "gone")
  /\ UNCHANGED <<box, linger, strand, callback, nested, histories>>

-----------------------------------------------------------------------------
(* The Objecter and the strand *)

DispatchNotice(w, n) ==
  /\ w \in linger
  /\ dispatched[w][n] < MaxDispatch[w]
  /\ strand' = Append(strand, NotifyEvent(w, n))
  /\ dispatched' = [dispatched EXCEPT ![w][n] = @ + 1]
  /\ UNCHANGED <<pc, box, linger, callback, nested, acked, errors>>

DispatchError(w) ==
  /\ w \in linger
  /\ errors[w] < MaxErrors
  /\ strand' = Append(strand, ErrorEvent(w))
  /\ errors' = [errors EXCEPT ![w] = @ + 1]
  /\ UNCHANGED <<pc, box, linger, callback, nested, dispatched, acked>>

\* The strand calls the trampoline of its head event, which borrows the box.
StartCallback ==
  /\ callback = "idle"
  /\ strand # <<>>
  /\ IsCallback(Head(strand))
  /\ callback' = "running"
  /\ UNCHANGED <<pc, box, linger, strand, nested, histories>>

\* The deferred handler of rados_watch_flush: it wakes the thread that waits for it.
RunFlush ==
  /\ callback = "idle"
  /\ strand # <<>>
  /\ Head(strand).kind = "flush"
  /\ Goto(Head(strand).watch, "flushing", "reclaim")
  /\ strand' = Tail(strand)
  /\ UNCHANGED <<box, linger, callback, nested, histories>>

-----------------------------------------------------------------------------
(* The trampolines *)

\* A drop started inside the callback must finish before user code can return.
UserCodeReturns ==
  /\ callback = "running"
  /\ \A w \in nested : pc[w] = "gone"
  /\ nested' = {}

OnNotifyReturns(o) ==
  /\ UserCodeReturns
  /\ Head(strand).kind = "notify"
  /\ callback' = ReplyFor(o)
  /\ UNCHANGED <<pc, box, linger, strand, histories>>

\* mutant: a notification whose reply is empty is not acked
NotifyAckReplies ==
  /\ callback \in {"value", "empty"}
  /\ LET e == Head(strand) IN
       acked' = IF callback = "value" THEN [acked EXCEPT ![e.watch][e.notice] = @ + 1] ELSE acked
  /\ strand' = Tail(strand)
  /\ callback' = "idle"
  /\ UNCHANGED <<pc, box, linger, nested, dispatched, errors>>

\* rados_notify_ack, through the ioctx and the oid in the box; then the callback returns.
NotifyAck ==
  /\ callback \in {"value", "empty"}
  /\ LET e == Head(strand) IN acked' = [acked EXCEPT ![e.watch][e.notice] = @ + 1]
  /\ strand' = Tail(strand)
  /\ callback' = "idle"
  /\ UNCHANGED <<pc, box, linger, nested, dispatched, errors>>

\* mutant: the trampoline takes a lock that Watch::drop holds
OnErrorReturnsLocked ==
  /\ UserCodeReturns
  /\ Head(strand).kind = "error"
  /\ pc[Head(strand).watch] \notin {"unwatch", "flush", "flushing"}
  /\ strand' = Tail(strand)
  /\ callback' = "idle"
  /\ UNCHANGED <<pc, box, linger, histories>>

\* on_error returned or panicked; nothing is acked.
OnErrorReturns ==
  /\ UserCodeReturns
  /\ Head(strand).kind = "error"
  /\ strand' = Tail(strand)
  /\ callback' = "idle"
  /\ UNCHANGED <<pc, box, linger, histories>>

-----------------------------------------------------------------------------

Terminated ==
  /\ \A w \in Watches : pc[w] \in {"gone", "failed"}
  /\ strand = <<>>
  /\ UNCHANGED vars

OwnerStep(w) ==
  \/ Open(w) \/ OpenSucceeds(w) \/ OpenFails(w)
  \/ BeginDrop(w) \/ BeginDropInCallback(w)
  \/ UnwatchReturns(w) \/ Flush(w) \/ Reclaim(w) \/ DropFields(w)

ObjecterStep(w) ==
  \/ Register(w) \/ CancelLinger(w) \/ DispatchError(w)
  \/ \E n \in Notices : DispatchNotice(w, n)

StrandStep ==
  \/ StartCallback \/ RunFlush \/ NotifyAck \/ OnErrorReturns
  \/ \E o \in Outcome : OnNotifyReturns(o)

Next ==
  \/ \E w \in Watches : OwnerStep(w) \/ ObjecterStep(w)
  \/ StrandStep
  \/ Terminated

Spec == Init /\ [][Next]_vars

\* A thread in Watch::drop keeps running, the OSD answers its unwatch, the strand keeps
\* running and user callbacks return.  Nothing obliges user code to open or drop a watch.
Fairness ==
  /\ \A w \in Watches :
       WF_vars(CancelLinger(w) \/ UnwatchReturns(w) \/ Flush(w) \/ Reclaim(w) \/ DropFields(w))
  /\ WF_vars(StrandStep)

FairSpec == Spec /\ Fairness

-----------------------------------------------------------------------------
(* Properties *)

\* Every variable stays within its range: in particular the trampoline never hands
\* rados_notify_ack a reply other than the callback's bytes or an empty one.
TypeOK ==
  /\ pc \in [Watches -> Stage]
  /\ box \in [Watches -> {"none", "live", "freed"}]
  /\ linger \in SUBSET Watches
  /\ strand \in Seq(Event)
  /\ callback \in {"idle", "running", "value", "empty"}
  /\ nested \in SUBSET Watches
  /\ dispatched \in [Watches -> [Notices -> Nat]]
  /\ acked \in [Watches -> [Notices -> Nat]]
  /\ errors \in [Watches -> Nat]

\* Every callback that is queued or running finds its WatchState allocated.  This is the
\* promise of the SAFETY comments of watch_notify_trampoline and Watch::drop, whatever the
\* timing of the drop, of the dispatches and of a failing rados_watch3.
NoUseAfterFree ==
  \A i \in DOMAIN strand : IsCallback(strand[i]) => box[strand[i].watch] = "live"

\* How often e is in the strand.
Queued(e) == Cardinality({i \in DOMAIN strand : strand[i] = e})

\* The wrapper acks every notification exactly once per dispatch, whether on_notify replied,
\* panicked or replied too much; nothing is acked that was not dispatched.
AckPerDispatch ==
  \A w \in Watches, n \in Notices :
    dispatched[w][n] = acked[w][n] + Queued(NotifyEvent(w, n))

\* Once Watch::drop is past rados_watch_flush, every notification the watch took has been
\* acked: a drop never leaves a notifier waiting for its timeout.
SettledOnDrop ==
  \A w \in Watches : pc[w] \in {"reclaim", "fields", "gone"} => dispatched[w] = acked[w]

\* A Watch dropped by a callback never gets past rados_watch_flush: the deadlock the
\* documentation of IoCtx::watch warns about, here also for the Watch of another object.
NestedDropHangs ==
  \A w \in nested : pc[w] \in {"unwatch", "flush", "flushing"}

\* Watch::drop returns, however many callbacks are queued ahead of its flush, unless a callback
\* drops a Watch.
DropCompletes ==
  \A w \in Watches : pc[w] = "unwatch" ~> pc[w] = "gone" \/ nested # {}

\* Every notification dispatched to a watch is acked in the end, also when the Watch is
\* dropped while it is queued, unless a callback drops a Watch.
DispatchAnswered ==
  \A w \in Watches, n \in Notices :
    \A k \in 1 .. MaxDispatch[w] : dispatched[w][n] = k ~> acked[w][n] >= k \/ nested # {}

-----------------------------------------------------------------------------
(* Refinement *)

Phase == [none |-> "absent", live |-> "active", freed |-> "released"]

phaseNow == [w \in Watches |-> Phase[box[w]]]
owedNow == [w \in Watches |-> [n \in Notices |-> dispatched[w][n] - acked[w][n]]]
busyNow == IF callback = "idle" THEN {} ELSE {Head(strand).watch}

Contract == INSTANCE WatchContract WITH phase <- phaseNow, owed <- owedNow, busy <- busyNow

\* The wrapper keeps the contract of a watch towards the code behind its callbacks.
KeepsContract == Contract!Spec

=============================================================================
