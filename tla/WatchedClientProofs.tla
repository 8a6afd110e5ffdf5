------------------------ MODULE WatchedClientProofs ------------------------
(***************************************************************************)
(* Theorems about WatchedClient for any number of watches, values and      *)
(* ioctxs.  The composition implements each of its parts, so the           *)
(* invariants of WatchProofs and HandlesProofs hold in it; what is left is *)
(* which IoCtx a watch owns at which stage.                                *)
(***************************************************************************)
EXTENDS WatchedClient, TLAPS

WP == INSTANCE WatchProofs
HP == INSTANCE HandlesProofs WITH Calls <- Watches

(* The inductive invariant *)

\* The thread of a watch stays in its call on the user's IoCtx until IoCtx::watch returns.
OpensInCall ==
  \A w \in Watches :
    pc[w] = "opening" \/ (pc[w] = "new" /\ points[StateIo(w)] # NoCore) => call[w] \in UserIoCtxs

\* The WatchState owns its IoCtx from before the box is leaked until it is taken back.
StateOwnsIo ==
  \A w \in Watches :
    pc[w] \in {"opening", "held", "unwatch", "flush", "flushing", "reclaim"}
      => points[StateIo(w)] # NoCore

\* The Watch owns its IoCtx until its destructor has dropped its fields.
WatchOwnsIo ==
  \A w \in Watches :
    pc[w] \in {"held", "unwatch", "flush", "flushing", "reclaim", "fields"}
      => points[WatchIo(w)] # NoCore

OwnInv == OpensInCall /\ StateOwnsIo /\ WatchOwnsIo

-----------------------------------------------------------------------------
(* A step of the composition is a step of each part *)

LEMMA StepIsWatchStep == [Next]_vars => [W!Next]_W!vars
<1> SUFFICES ASSUME [Next]_vars PROVE [W!Next]_W!vars
  OBVIOUS
<1> USE DEF W!Next, W!OwnerStep, W!ObjecterStep, W!StrandStep, W!vars, wvars
<1>1. CASE UNCHANGED vars
  BY <1>1 DEF vars
<1>2. ASSUME NEW w \in Watches,
             CloneForState(w) \/ Open(w) \/ BeginDrop(w) \/ OwnerStep(w) \/ ObjecterStep(w)
      PROVE  [W!Next]_W!vars
  BY <1>2 DEF CloneForState, Open, BeginDrop, OwnerStep, OpenSucceeds, OpenFails, DropSteps,
     Reclaim, DropFields, ReturnFromCall, ObjecterStep
<1>3. CASE UserStep \/ Destructor \/ StrandStep \/ Terminated
  BY <1>3 DEF UserStep, Destructor, StrandStep, Terminated, vars
<1> QED
  BY <1>1, <1>2, <1>3 DEF Next

LEMMA StepIsHandlesStep == OpensInCall /\ [Next]_vars => [HP!Next]_HP!hvars
<1> SUFFICES ASSUME OpensInCall, [Next]_vars PROVE [HP!Next]_HP!hvars
  OBVIOUS
<1> USE DEF HP!Next, HP!hvars, hvars
<1>1. CASE UNCHANGED vars
  BY <1>1 DEF vars
<1>2. ASSUME NEW w \in Watches,
             CloneForState(w) \/ Open(w) \/ BeginDrop(w) \/ OwnerStep(w) \/ ObjecterStep(w)
      PROVE  [HP!Next]_HP!hvars
  <2>1. StateIo(w) \in IoCtxs /\ WatchIo(w) \in IoCtxs
    BY DEF IoCtxs
  <2>2. \A c \in IoCtxs, d \in IoCtxs : H!CloneIo(c, d) => HP!CloneIo(c, d)
    BY DEF H!CloneIo, HP!CloneIo
  <2>3. \A c \in IoCtxs : H!DropIo(c) => HP!DropIo(c)
    BY DEF H!DropIo, HP!DropIo, H!Borrowed, HP!Borrowed
  <2>4. CASE CloneForState(w)
    BY <2>1, <2>2, <2>4 DEF CloneForState, IoCtxs
  <2>5. CASE OpenSucceeds(w)
    <3>1. call[w] \in IoCtxs
      BY <2>5 DEF OpensInCall, OpenSucceeds, W!OpenSucceeds, W!Goto, IoCtxs
    <3> QED
      BY <2>1, <2>2, <2>5, <3>1 DEF OpenSucceeds
  <2>6. CASE OpenFails(w) \/ Reclaim(w) \/ DropFields(w)
    BY <2>1, <2>3, <2>6 DEF OpenFails, Reclaim, DropFields
  <2>7. CASE BeginDrop(w) \/ ReturnFromCall(w)
    BY <2>1, <2>7 DEF BeginDrop, ReturnFromCall, H!BeginCall, HP!BeginCall, H!EndCall, HP!EndCall
  <2>8. CASE Open(w) \/ DropSteps(w) \/ ObjecterStep(w)
    BY <2>8 DEF Open, DropSteps, ObjecterStep
  <2> QED
    BY <1>2, <2>4, <2>5, <2>6, <2>7, <2>8 DEF OwnerStep
<1>3. CASE UserStep
  BY <1>3 DEF UserStep, IoCtxs, H!CreateRados, H!DropRados, H!CloneRados, H!DropIo, H!CloneIo,
     H!CreateIoctx, H!BeginCall, HP!CreateRados, HP!DropRados, HP!CloneRados, HP!DropIo,
     HP!CloneIo, HP!CreateIoctx, HP!BeginCall, H!Borrowed, HP!Borrowed, H!Owning, HP!Owning
<1>4. CASE Destructor
  BY <1>4 DEF Destructor, H!Destructor, HP!Destructor, H!Shutdown, HP!Shutdown, H!DestroyIoctx,
     HP!DestroyIoctx, H!ReleaseCluster, HP!ReleaseCluster, H!Owning, HP!Owning
<1>5. CASE StrandStep \/ Terminated
  BY <1>5 DEF StrandStep, Terminated, vars
<1> QED
  BY <1>1, <1>2, <1>3, <1>4, <1>5 DEF Next

\* The watches behave on shared handles as they do alone.
THEOREM ClientWatches == Spec => W!Spec
  BY StepIsWatchStep, PTL DEF Spec, W!Spec, Init

LEMMA SpecWatchInv == Spec => []WP!IInv
<1>1. WP!Spec => []WP!IInv
  BY WatchedClientAssumption, WP!SpecIInv
<1>2. W!Init => WP!Init
  BY DEF W!Init, WP!Init
<1>3. [W!Next]_W!vars => [WP!Next]_WP!vars
  BY DEF W!Next, WP!Next, W!OwnerStep, WP!OwnerStep, W!ObjecterStep, WP!ObjecterStep,
     W!StrandStep, WP!StrandStep, W!Terminated, WP!Terminated, W!Open, WP!Open,
     W!OpenSucceeds, WP!OpenSucceeds, W!OpenFails, WP!OpenFails, W!BeginDrop, WP!BeginDrop,
     W!BeginDropInCallback, WP!BeginDropInCallback, W!UnwatchReturns, WP!UnwatchReturns,
     W!Flush, WP!Flush, W!Reclaim, WP!Reclaim, W!DropFields, WP!DropFields, W!Register,
     WP!Register, W!CancelLinger, WP!CancelLinger, W!DispatchError, WP!DispatchError,
     W!DispatchNotice, WP!DispatchNotice, W!StartCallback, WP!StartCallback, W!RunFlush,
     WP!RunFlush, W!NotifyAck, WP!NotifyAck, W!OnErrorReturns, WP!OnErrorReturns,
     W!OnNotifyReturns, WP!OnNotifyReturns, W!UserCodeReturns, WP!UserCodeReturns, W!Goto,
     WP!Goto, W!Outcome, WP!Outcome, W!ReplyFor, WP!ReplyFor, W!IsCallback, WP!IsCallback,
     W!NotifyEvent, WP!NotifyEvent, W!ErrorEvent, WP!ErrorEvent, W!FlushEvent, WP!FlushEvent,
     W!histories, WP!histories, W!vars, WP!vars
<1> QED
  BY <1>1, <1>2, <1>3, ClientWatches, PTL DEF W!Spec, WP!Spec

-----------------------------------------------------------------------------
(* The invariant is inductive *)

LEMMA IoNames ==
  \A w \in Watches :
    /\ StateIo(w) \in IoCtxs \ UserIoCtxs
    /\ WatchIo(w) \in IoCtxs \ UserIoCtxs
    /\ \A v \in Watches :
         /\ StateIo(w) # WatchIo(v)
         /\ v # w => StateIo(w) # StateIo(v) /\ WatchIo(w) # WatchIo(v)
  BY WatchedClientAssumption DEF IoCtxs, StateIo, WatchIo

LEMMA InitOwnInv == Init => OwnInv
  BY IoNames DEF Init, W!Init, H!Init, OwnInv, OpensInCall, StateOwnsIo, WatchOwnsIo

LEMMA NextOwnInv ==
  ASSUME WP!TypeOK, HP!TypeOK, OwnInv, [Next]_vars
  PROVE  OwnInv'
<1> USE IoNames DEF OwnInv, OpensInCall, StateOwnsIo, WatchOwnsIo
<1>0. /\ pc \in [Watches -> WP!Stage]
      /\ points \in [IoCtxs -> Cores \cup {NoCore}]
      /\ call \in [Watches -> RadosValues \cup IoCtxs \cup {Idle}]
  BY DEF WP!TypeOK, HP!TypeOK
<1>1. CASE UNCHANGED <<pc, points, call>>
  BY <1>1
<1>2. ASSUME NEW w \in Watches, CloneForState(w)
      PROVE  OwnInv'
  BY <1>0, <1>2 DEF CloneForState, H!CloneIo, wvars
<1>3. ASSUME NEW w \in Watches, Open(w)
      PROVE  OwnInv'
  BY <1>0, <1>3 DEF Open, W!Open, W!Goto, hvars
<1>4. ASSUME NEW w \in Watches, OpenSucceeds(w)
      PROVE  OwnInv'
  BY <1>0, <1>4 DEF OpenSucceeds, W!OpenSucceeds, W!Goto, H!CloneIo
<1>5. ASSUME NEW w \in Watches, OpenFails(w)
      PROVE  OwnInv'
  BY <1>0, <1>5 DEF OpenFails, W!OpenFails, W!Goto, H!DropIo
<1>6. ASSUME NEW w \in Watches, BeginDrop(w)
      PROVE  OwnInv'
  BY <1>0, <1>6 DEF BeginDrop, W!BeginDrop, W!BeginDropInCallback, W!Goto, H!BeginCall
<1>7. ASSUME NEW w \in Watches, DropSteps(w)
      PROVE  OwnInv'
  BY <1>0, <1>7 DEF DropSteps, W!UnwatchReturns, W!Flush, W!Goto, hvars
<1>8. ASSUME NEW w \in Watches, Reclaim(w)
      PROVE  OwnInv'
  BY <1>0, <1>8 DEF Reclaim, W!Reclaim, W!Goto, H!DropIo
<1>9. ASSUME NEW w \in Watches, DropFields(w)
      PROVE  OwnInv'
  BY <1>0, <1>9 DEF DropFields, W!DropFields, W!Goto, H!DropIo
<1>10. ASSUME NEW w \in Watches, ReturnFromCall(w)
       PROVE  OwnInv'
  BY <1>0, <1>10 DEF ReturnFromCall, H!EndCall, wvars
<1>11. ASSUME NEW w \in Watches, ObjecterStep(w)
       PROVE  OwnInv'
  BY <1>1, <1>11 DEF ObjecterStep, W!ObjecterStep, W!Register, W!CancelLinger, W!DispatchError,
     W!DispatchNotice, hvars
<1>12. CASE UserStep
  <2> UNCHANGED pc
    BY <1>12 DEF UserStep, wvars
  <2>1. CASE UNCHANGED <<points, call>>
    BY <2>1
  <2>2. ASSUME NEW c \in UserIoCtxs, H!DropIo(c) \/ \E d \in UserIoCtxs : H!CloneIo(d, c)
        PROVE  OwnInv'
    BY <1>0, <2>2 DEF H!DropIo, H!CloneIo
  <2>3. ASSUME NEW w \in Watches, NEW h \in Cores, NEW c \in UserIoCtxs, H!CreateIoctx(w, h, c)
        PROVE  OwnInv'
    BY <1>0, <2>3, WatchedClientAssumption DEF H!CreateIoctx, HP!TypeOK, IoCtxs
  <2>4. ASSUME NEW w \in Watches, NEW v \in RadosValues \cup UserIoCtxs, H!BeginCall(w, v)
        PROVE  OwnInv'
    BY <1>0, <2>4, WatchedClientAssumption DEF H!BeginCall, IoCtxs
  <2> QED
    BY <1>12, <2>1, <2>2, <2>3, <2>4 DEF UserStep, H!CreateRados, H!DropRados, H!CloneRados
<1>13. CASE Destructor
  BY <1>1, <1>13 DEF Destructor, H!Destructor, H!Shutdown, H!DestroyIoctx, H!ReleaseCluster, wvars
<1>14. CASE StrandStep
  <2>1. CASE W!RunFlush
    BY <1>0, <1>14, <2>1 DEF StrandStep, W!RunFlush, W!Goto, hvars
  <2>2. CASE ~ W!RunFlush
    BY <1>1, <1>14, <2>2 DEF StrandStep, W!StrandStep, W!StartCallback, W!NotifyAck,
       W!OnErrorReturns, W!OnNotifyReturns, hvars
  <2> QED
    BY <2>1, <2>2
<1>15. CASE UNCHANGED vars
  BY <1>1, <1>15 DEF vars, wvars, hvars
<1> QED
  BY <1>2, <1>3, <1>4, <1>5, <1>6, <1>7, <1>8, <1>9, <1>10, <1>11, <1>12, <1>13, <1>14, <1>15
  DEF Next, OwnerStep, Terminated

ClientInv == HP!HInv /\ OwnInv

LEMMA SpecClientInv == Spec => []ClientInv
<1>1. Init => ClientInv
  BY InitOwnInv, HP!InitHInv, WatchedClientAssumption DEF Init, H!Init, HP!Init, ClientInv
<1>2. ClientInv /\ [Next]_vars => HP!HInv'
  BY StepIsHandlesStep, HP!NextHInv, WatchedClientAssumption DEF ClientInv, OwnInv
<1>3. WP!IInv /\ ClientInv /\ [Next]_vars => ClientInv'
  BY <1>2, NextOwnInv DEF ClientInv, WP!IInv, HP!HInv
<1> QED
  BY <1>1, <1>3, SpecWatchInv, PTL DEF Spec

\* The handles behave under watches as they do alone.
THEOREM ClientHandles == Spec => H!Spec
<1>1. ClientInv /\ [Next]_vars => [HP!Next]_HP!hvars
  BY StepIsHandlesStep DEF ClientInv, OwnInv
<1>2. [HP!Next]_HP!hvars => [H!Next]_H!hvars
  BY DEF H!Next, HP!Next, H!hvars, HP!hvars, H!CreateRados, H!DropRados, H!CloneRados, H!DropIo,
     H!CloneIo, H!CreateIoctx, H!BeginCall, H!EndCall, H!Destructor, H!Shutdown, H!DestroyIoctx,
     H!ReleaseCluster, H!Terminated, HP!CreateRados, HP!DropRados, HP!CloneRados, HP!DropIo,
     HP!CloneIo, HP!CreateIoctx, HP!BeginCall, HP!EndCall, HP!Destructor, HP!Shutdown,
     HP!DestroyIoctx, HP!ReleaseCluster, HP!Terminated, H!Borrowed, HP!Borrowed, H!Owning, HP!Owning
<1> QED
  BY <1>1, <1>2, SpecClientInv, PTL DEF Spec, Init, H!Spec

-----------------------------------------------------------------------------
(* What a watch uses is alive *)

LEMMA LiveWhileOwned ==
  ASSUME HP!HInv, NEW c \in IoCtxs, points[c] # NoCore
  PROVE  OnLiveIoctx(c)
<1>1. points[c] \in Cores /\ core[points[c]] = "live"
  BY DEF HP!HInv, HP!TypeOK, HP!ValuesShareLive
<1> QED
  BY <1>1 DEF OnLiveIoctx, HP!HInv, HP!OwnedIsLive, HP!Owning

LEMMA LiveWhileQueued ==
  ASSUME WP!IInv, ClientInv, NEW i \in DOMAIN strand
  PROVE  /\ W!IsCallback(strand[i]) => OnLiveIoctx(StateIo(strand[i].watch))
         /\ cluster = "live"
<1> DEFINE w == strand[i].watch
<1>1. w \in Watches
  BY WP!StrandTypes, WatchedClientAssumption DEF WP!IInv
<1>2. CASE W!IsCallback(strand[i])
  <2>1. pc[w] \in {"opening", "held", "unwatch", "flush", "flushing"}
    BY <1>1, <1>2 DEF WP!IInv, WP!QueuedWhileWatched, WP!LingerFollowsOwner, W!IsCallback,
       WP!IsCallback
  <2> QED
    BY <1>1, <2>1, IoNames, LiveWhileOwned DEF ClientInv, OwnInv, StateOwnsIo, OnLiveIoctx
<1>3. CASE ~ W!IsCallback(strand[i])
  <2>1. pc[w] = "flushing"
    BY <1>1, <1>3 DEF WP!IInv, WP!QueuedWhileWatched, W!IsCallback, WP!IsCallback
  <2> QED
    BY <1>1, <1>3, <2>1, IoNames, LiveWhileOwned DEF ClientInv, OwnInv, WatchOwnsIo, OnLiveIoctx
<1> QED
  BY <1>2, <1>3

\* Acks and destructors of watches find a live ioctx on a live client, however many watches
\* and values there are and in whatever order they are dropped.
THEOREM WatchesKeepIoctxAlive == Spec => []WatchOnLiveIoctx
<1>1. WP!IInv /\ ClientInv => WatchOnLiveIoctx
  BY LiveWhileQueued, LiveWhileOwned, IoNames DEF ClientInv, OwnInv, WatchOwnsIo, WatchOnLiveIoctx
<1> QED
  BY <1>1, SpecWatchInv, SpecClientInv, PTL

\* rados_shutdown begins only when no watch is registered and the strand is empty.
THEOREM QuietShutdown == Spec => []ShutdownIsQuiet
<1>1. ASSUME WP!IInv, ClientInv PROVE ShutdownIsQuiet
  <2>1. strand # <<>> => cluster = "live"
    <3>1. strand # <<>> => 1 \in DOMAIN strand
      BY <1>1 DEF WP!IInv, WP!TypeOK
    <3> QED
      BY <1>1, <3>1, LiveWhileQueued
  <2>2. \A w \in linger : cluster = "live"
    <3>1. \A w \in linger : w \in Watches /\ points[StateIo(w)] # NoCore
      BY <1>1 DEF WP!IInv, WP!TypeOK, WP!LingerFollowsOwner, ClientInv, OwnInv, StateOwnsIo
    <3> QED
      BY <1>1, <3>1, IoNames, LiveWhileOwned DEF ClientInv, OnLiveIoctx
  <2> QED
    BY <2>1, <2>2 DEF ShutdownIsQuiet
<1> QED
  BY <1>1, SpecWatchInv, SpecClientInv, PTL

=============================================================================
