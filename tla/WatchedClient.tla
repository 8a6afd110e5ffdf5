--------------------------- MODULE WatchedClient ---------------------------
(***************************************************************************)
(* Watch and Handles composed: a Watch and the WatchState it leaks to      *)
(* librados each own an IoCtx (src/src/ioctx.rs), so the two decide        *)
(* together with the values user code holds when the ioctx is destroyed    *)
(* and the client shut down.                                               *)
(*                                                                         *)
(* Each step is a step of Watch, a step of Handles, or one of both at      *)
(* once.  Each watch is opened, and dropped, by a thread of its own, which *)
(* may make other calls before.                                            *)
(***************************************************************************)
EXTENDS Naturals, Sequences, FiniteSets

CONSTANTS
  Watches, Notices, NoNotice, CallbackDrops, MaxDispatch, MaxErrors,
  RadosValues, Cores, NoCore, Idle,
  UserIoCtxs     \* the IoCtx values of user code

StateIo(w) == <<"state", w>>  \* the field io of the WatchState of w
WatchIo(w) == <<"watch", w>>  \* the field io of the Watch w

IoCtxs == UserIoCtxs \cup {StateIo(w) : w \in Watches} \cup {WatchIo(w) : w \in Watches}

ASSUME WatchedClientAssumption ==
  /\ NoNotice \notin Notices
  /\ CallbackDrops \subseteq Watches \X Watches
  /\ MaxDispatch \in [Watches -> Nat]
  /\ MaxErrors \in Nat
  /\ NoCore \notin Cores
  /\ Idle \notin RadosValues \cup IoCtxs
  /\ RadosValues \cap IoCtxs = {}
  /\ \A w \in Watches : StateIo(w) \notin UserIoCtxs /\ WatchIo(w) \notin UserIoCtxs

VARIABLES
  pc, box, linger, strand, callback, nested, dispatched, acked, errors,
  cluster, rados, core, points, call

W == INSTANCE Watch
H == INSTANCE Handles WITH Calls <- Watches

wvars == <<pc, box, linger, strand, callback, nested, dispatched, acked, errors>>
hvars == <<cluster, rados, core, points, call>>
vars == <<wvars, hvars>>

Init == W!Init /\ H!Init

-----------------------------------------------------------------------------
(* IoCtx::watch *)

\* The clone for the WatchState; the thread of w is in a call on one of the user's IoCtx.
CloneForState(w) ==
  /\ pc[w] = "new"
  /\ call[w] \in UserIoCtxs
  /\ H!CloneIo(call[w], StateIo(w))
  /\ UNCHANGED wvars

Open(w) ==
  /\ points[StateIo(w)] # NoCore
  /\ W!Open(w)
  /\ UNCHANGED hvars

\* mutant: the Watch takes its IoCtx from nowhere, as if it kept a bare rados_ioctx_t
OpenSucceedsBare(w) ==
  /\ W!OpenSucceeds(w)
  /\ UNCHANGED hvars

OpenSucceeds(w) ==
  /\ W!OpenSucceeds(w)
  /\ H!CloneIo(call[w], WatchIo(w))

\* The box is dropped, and with it the IoCtx in it.
OpenFails(w) ==
  /\ W!OpenFails(w)
  /\ H!DropIo(StateIo(w))

-----------------------------------------------------------------------------
(* Watch::drop *)

\* The destructor calls librados through self.io, once IoCtx::watch has returned the Watch.
BeginDrop(w) ==
  /\ W!BeginDrop(w) \/ W!BeginDropInCallback(w)
  /\ H!BeginCall(w, WatchIo(w))

DropSteps(w) ==
  /\ W!UnwatchReturns(w) \/ W!Flush(w)
  /\ UNCHANGED hvars

\* mutant: the box is freed without dropping what is in it
ReclaimLeaks(w) ==
  /\ W!Reclaim(w)
  /\ UNCHANGED hvars

Reclaim(w) ==
  /\ W!Reclaim(w)
  /\ H!DropIo(StateIo(w))

DropFields(w) ==
  /\ W!DropFields(w)
  /\ H!DropIo(WatchIo(w))

-----------------------------------------------------------------------------
(* User code, the destructors, librados *)

UserStep ==
  /\ \/ \E r \in RadosValues : H!CreateRados(r) \/ H!DropRados(r)
     \/ \E r, s \in RadosValues : H!CloneRados(r, s)
     \/ \E c \in UserIoCtxs : H!DropIo(c)
     \/ \E c, d \in UserIoCtxs : H!CloneIo(c, d)
     \/ \E w \in Watches, h \in Cores, c \in UserIoCtxs : H!CreateIoctx(w, h, c)
     \/ \E w \in Watches, v \in RadosValues \cup UserIoCtxs : pc[w] = "new" /\ H!BeginCall(w, v)
  /\ UNCHANGED wvars

\* A call returns: another one, IoCtx::watch, or the body of Watch::drop.
ReturnFromCall(w) ==
  /\ pc[w] \in {"new", "held", "failed", "fields"}
  /\ pc[w] = "new" => points[StateIo(w)] = NoCore
  /\ H!EndCall(w)
  /\ UNCHANGED wvars

Destructor == H!Destructor /\ UNCHANGED wvars

ObjecterStep(w) == W!ObjecterStep(w) /\ UNCHANGED hvars

StrandStep == W!StrandStep /\ UNCHANGED hvars

Terminated ==
  /\ cluster = "shutdown"
  /\ UNCHANGED vars

OwnerStep(w) ==
  \/ OpenSucceeds(w) \/ OpenFails(w) \/ DropSteps(w) \/ Reclaim(w) \/ DropFields(w)
  \/ ReturnFromCall(w)

Next ==
  \/ \E w \in Watches :
       CloneForState(w) \/ Open(w) \/ BeginDrop(w) \/ OwnerStep(w) \/ ObjecterStep(w)
  \/ UserStep
  \/ Destructor
  \/ StrandStep
  \/ Terminated

Spec == Init /\ [][Next]_vars

\* Watch::drop, the strand, the OSD's answer to an unwatch and a destructor run to their end.
Fairness ==
  /\ \A w \in Watches :
       /\ WF_vars(W!CancelLinger(w) /\ UNCHANGED hvars)
       /\ WF_vars(DropSteps(w) \/ Reclaim(w) \/ DropFields(w) \/ (pc[w] = "fields" /\ ReturnFromCall(w)))
  /\ WF_vars(StrandStep)
  /\ WF_vars(Destructor)

FairSpec == Spec /\ Fairness

-----------------------------------------------------------------------------
(* Properties *)

OnLiveIoctx(c) ==
  /\ cluster = "live"
  /\ \E h \in Cores : points[c] = h /\ core[h] = "live"

\* A callback, queued or running, can ack through the IoCtx of its WatchState, and the
\* destructor of a Watch can unwatch and flush through its own, although user code may have
\* dropped every Rados and IoCtx it had.
WatchOnLiveIoctx ==
  /\ \A i \in DOMAIN strand : W!IsCallback(strand[i]) => OnLiveIoctx(StateIo(strand[i].watch))
  /\ \A w \in Watches :
       pc[w] \in {"held", "unwatch", "flush", "flushing", "reclaim"} => OnLiveIoctx(WatchIo(w))

\* rados_shutdown is never called with a watch registered or an event on the strand: in
\* particular never by a callback, which would wait for itself.
ShutdownIsQuiet ==
  cluster \in {"closing", "shutdown"} => linger = {} /\ strand = <<>>

\* When user code has dropped its values and its Watches, the client is shut down, unless a
\* callback has dropped a Watch.
ClientReleased ==
  ( /\ cluster = "live" /\ rados = {}
    /\ \A c \in UserIoCtxs : points[c] = NoCore
    /\ \A w \in Watches : pc[w] # "held" )
  ~> cluster = "shutdown" \/ nested # {}

=============================================================================
