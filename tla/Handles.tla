------------------------------ MODULE Handles ------------------------------
(***************************************************************************)
(* Who keeps a librados client alive: RadosHandle and Rados                *)
(* (src/src/conn.rs), IoCtxHandle and IoCtx (src/src/ioctx.rs).            *)
(*                                                                         *)
(* Rados and IoCtx are cloneable values shared by Arc.  The last Rados or  *)
(* IoCtxHandle to go shuts the client down, the last IoCtx of an           *)
(* IoCtxHandle destroys the ioctx first.  User threads clone, drop and     *)
(* call concurrently.  An Arc is modelled by the set of its owners: its    *)
(* count is the size of that set, and the drop that empties it runs the    *)
(* destructor.  A value cannot be dropped while a call borrows it.         *)
(***************************************************************************)

CONSTANTS
  RadosValues,  \* values of type Rados
  IoCtxs,       \* values of type IoCtx
  Cores,        \* IoCtxHandle allocations
  Calls,        \* threads that may be inside a librados call
  NoCore,       \* the core of an IoCtx value that does not exist
  Idle          \* the value borrowed by a thread in no call

ASSUME HandlesAssumption ==
  /\ NoCore \notin Cores
  /\ Idle \notin RadosValues \cup IoCtxs
  /\ RadosValues \cap IoCtxs = {}

VARIABLES
  cluster,  \* the rados_t behind the RadosHandle
  rados,    \* the Rados values that exist
  core,     \* [Cores -> ...]: an IoCtxHandle and its rados_ioctx_t
  points,   \* [IoCtxs -> Cores \cup {NoCore}]: what an IoCtx value shares
  call      \* [Calls -> ...]: the value a running call borrows

hvars == <<cluster, rados, core, points, call>>

\* Cores whose Arc<RadosHandle> field has not been dropped.
Owning == {h \in Cores : core[h] \in {"live", "destroying", "releasing"}}

Borrowed(v) == \E k \in Calls : call[k] = v

Init ==
  /\ cluster = "none"
  /\ rados = {}
  /\ core = [h \in Cores |-> "none"]
  /\ points = [c \in IoCtxs |-> NoCore]
  /\ call = [k \in Calls |-> Idle]

-----------------------------------------------------------------------------
(* Rados *)

CreateRados(r) ==
  /\ cluster = "none"
  /\ cluster' = "live"
  /\ rados' = {r}
  /\ UNCHANGED <<core, points, call>>

CloneRados(r, s) ==
  /\ r \in rados
  /\ s \notin rados
  /\ rados' = rados \cup {s}
  /\ UNCHANGED <<cluster, core, points, call>>

\* mutant: an ioctx holds the rados_t and not an Arc of it
DropRadosAlone(r) ==
  /\ r \in rados
  /\ ~ Borrowed(r)
  /\ rados' = rados \ {r}
  /\ cluster' = IF rados = {r} THEN "closing" ELSE cluster
  /\ UNCHANGED <<core, points, call>>

\* The last owner of the RadosHandle drops it.
DropRados(r) ==
  /\ r \in rados
  /\ ~ Borrowed(r)
  /\ rados' = rados \ {r}
  /\ cluster' = IF rados = {r} /\ Owning = {} THEN "closing" ELSE cluster
  /\ UNCHANGED <<core, points, call>>

\* RadosHandle::drop: rados_shutdown
Shutdown ==
  /\ cluster = "closing"
  /\ cluster' = "shutdown"
  /\ UNCHANGED <<rados, core, points, call>>

\* The end of a call of create_ioctx that succeeds.
CreateIoctx(k, h, c) ==
  /\ call[k] \in rados
  /\ core[h] = "none"
  /\ points[c] = NoCore
  /\ core' = [core EXCEPT ![h] = "live"]
  /\ points' = [points EXCEPT ![c] = h]
  /\ call' = [call EXCEPT ![k] = Idle]
  /\ UNCHANGED <<cluster, rados>>

-----------------------------------------------------------------------------
(* IoCtx *)

CloneIo(c, d) ==
  /\ points[c] # NoCore
  /\ points[d] = NoCore
  /\ points' = [points EXCEPT ![d] = points[c]]
  /\ UNCHANGED <<cluster, rados, core, call>>

\* mutant: a drop destroys the ioctx although a clone still shares it
DropIoAlone(c) ==
  /\ points[c] # NoCore
  /\ ~ Borrowed(c)
  /\ points' = [points EXCEPT ![c] = NoCore]
  /\ core' = [core EXCEPT ![points[c]] = "destroying"]
  /\ UNCHANGED <<cluster, rados, call>>

\* The last owner of an IoCtxHandle drops it.
DropIo(c) ==
  /\ points[c] # NoCore
  /\ ~ Borrowed(c)
  /\ points' = [points EXCEPT ![c] = NoCore]
  /\ core' = IF \E d \in IoCtxs \ {c} : points[d] = points[c] THEN core
             ELSE [core EXCEPT ![points[c]] = "destroying"]
  /\ UNCHANGED <<cluster, rados, call>>

\* IoCtxHandle::drop: rados_ioctx_destroy, before its fields are dropped
DestroyIoctx(h) ==
  /\ core[h] = "destroying"
  /\ core' = [core EXCEPT ![h] = "releasing"]
  /\ UNCHANGED <<cluster, rados, points, call>>

\* mutant: only a Rados shuts the client down
ReleaseClusterLeaks(h) ==
  /\ core[h] = "releasing"
  /\ core' = [core EXCEPT ![h] = "gone"]
  /\ UNCHANGED <<cluster, rados, points, call>>

\* Then its field `cluster` is dropped.
ReleaseCluster(h) ==
  /\ core[h] = "releasing"
  /\ core' = [core EXCEPT ![h] = "gone"]
  /\ cluster' = IF rados = {} /\ Owning = {h} THEN "closing" ELSE cluster
  /\ UNCHANGED <<rados, points, call>>

-----------------------------------------------------------------------------
(* Calls *)

\* A call stands for any method that borrows the value; what the method does is left to the
\* other modules.
BeginCall(k, v) ==
  /\ call[k] = Idle
  /\ \/ v \in rados
     \/ v \in IoCtxs /\ points[v] # NoCore
  /\ call' = [call EXCEPT ![k] = v]
  /\ UNCHANGED <<cluster, rados, core, points>>

EndCall(k) ==
  /\ call[k] # Idle
  /\ call' = [call EXCEPT ![k] = Idle]
  /\ UNCHANGED <<cluster, rados, core, points>>

-----------------------------------------------------------------------------

Terminated ==
  /\ cluster = "shutdown"
  /\ UNCHANGED hvars

Destructor ==
  \/ Shutdown
  \/ \E h \in Cores : DestroyIoctx(h) \/ ReleaseCluster(h)

Next ==
  \/ \E r \in RadosValues : CreateRados(r) \/ DropRados(r)
  \/ \E r, s \in RadosValues : CloneRados(r, s)
  \/ \E c \in IoCtxs : DropIo(c)
  \/ \E c, d \in IoCtxs : CloneIo(c, d)
  \/ \E k \in Calls, h \in Cores, c \in IoCtxs : CreateIoctx(k, h, c)
  \/ \E k \in Calls, v \in RadosValues \cup IoCtxs : BeginCall(k, v)
  \/ \E k \in Calls : EndCall(k)
  \/ Destructor
  \/ Terminated

Spec == Init /\ [][Next]_hvars

\* A destructor that has started runs to its end; user code owes nothing.
FairSpec == Spec /\ WF_hvars(Destructor)

-----------------------------------------------------------------------------
(* Properties *)

\* Every variable stays within its range.
TypeOK ==
  /\ cluster \in {"none", "live", "closing", "shutdown"}
  /\ rados \in SUBSET RadosValues
  /\ core \in [Cores -> {"none", "live", "destroying", "releasing", "gone"}]
  /\ points \in [IoCtxs -> Cores \cup {NoCore}]
  /\ call \in [Calls -> RadosValues \cup IoCtxs \cup {Idle}]

\* A librados call in progress runs on a client that is not shut down, and on an ioctx that
\* is not being destroyed, whatever the other threads clone and drop meanwhile.
CallsOnLiveHandles ==
  \A k \in Calls :
    /\ call[k] \in RadosValues => cluster = "live"
    /\ call[k] \in IoCtxs =>
         /\ cluster = "live"
         /\ \E h \in Cores : points[call[k]] = h /\ core[h] = "live"

\* rados_ioctx_destroy runs before rados_shutdown begins, as librados requires and
\* IoCtxHandle::drop promises, also when every Rados was dropped first.
DestroyBeforeShutdown ==
  \A h \in Cores : core[h] \in {"live", "destroying"} => cluster = "live"

\* When user code has dropped every value, every ioctx is destroyed and the client shut down.
NothingLeaks ==
  cluster = "live" /\ rados = {} /\ (\A c \in IoCtxs : points[c] = NoCore)
    ~> cluster = "shutdown" /\ \A h \in Cores : core[h] \in {"none", "gone"}

=============================================================================
