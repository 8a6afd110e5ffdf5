--------------------------- MODULE HandlesProofs ---------------------------
(***************************************************************************)
(* Theorems about Handles for any number of values, ioctxs and threads.    *)
(***************************************************************************)
EXTENDS Handles, TLAPS

(* The inductive invariant *)

\* An IoCtx value shares an ioctx nobody has begun to destroy.
ValuesShareLive ==
  \A c \in IoCtxs : points[c] # NoCore => core[points[c]] = "live"

\* What a call borrows exists.
BorrowsExist ==
  \A k \in Calls :
    /\ call[k] \in RadosValues => call[k] \in rados
    /\ call[k] \in IoCtxs => points[call[k]] # NoCore

\* The client is up as long as its RadosHandle has an owner.
OwnedIsLive ==
  rados # {} \/ Owning # {} => cluster = "live"

HInv ==
  /\ TypeOK
  /\ ValuesShareLive
  /\ BorrowsExist
  /\ OwnedIsLive

LEMMA InitHInv == Init => HInv
  BY HandlesAssumption DEF Init, HInv, TypeOK, ValuesShareLive, BorrowsExist, OwnedIsLive, Owning

LEMMA RadosHInv ==
  ASSUME HInv, NEW r \in RadosValues,
         CreateRados(r) \/ DropRados(r) \/ \E s \in RadosValues : CloneRados(s, r)
  PROVE  HInv'
<1> USE DEF HInv
<1>1. TypeOK'
  BY DEF TypeOK, CreateRados, DropRados, CloneRados
<1>2. ValuesShareLive'
  BY DEF ValuesShareLive, CreateRados, DropRados, CloneRados
<1>3. BorrowsExist'
  BY DEF OwnedIsLive, BorrowsExist, Borrowed, CreateRados, DropRados, CloneRados
<1>4. OwnedIsLive'
  BY DEF TypeOK, OwnedIsLive, Owning, CreateRados, DropRados, CloneRados
<1> QED
  BY <1>1, <1>2, <1>3, <1>4

LEMMA IoCtxHInv ==
  ASSUME HInv, NEW c \in IoCtxs,
         \/ DropIo(c)
         \/ \E d \in IoCtxs : CloneIo(d, c)
         \/ \E k \in Calls, h \in Cores : CreateIoctx(k, h, c)
  PROVE  HInv'
<1> USE DEF HInv
<1>1. CASE DropIo(c)
  <2> DEFINE h == points[c]
  <2>1. h \in Cores /\ core[h] = "live"
    BY <1>1 DEF TypeOK, ValuesShareLive, DropIo
  <2>2. TypeOK'
    BY <1>1, <2>1 DEF TypeOK, DropIo
  <2>3. ValuesShareLive'
    BY <1>1, <2>1 DEF TypeOK, ValuesShareLive, DropIo
  <2>4. BorrowsExist'
    BY <1>1 DEF TypeOK, BorrowsExist, Borrowed, DropIo
  <2>5. OwnedIsLive'
    BY <1>1, <2>1 DEF TypeOK, OwnedIsLive, Owning, DropIo
  <2> QED
    BY <2>2, <2>3, <2>4, <2>5
<1>2. ASSUME NEW d \in IoCtxs, CloneIo(d, c) PROVE HInv'
  BY <1>2 DEF TypeOK, ValuesShareLive, BorrowsExist, OwnedIsLive, Owning, CloneIo
<1>3. ASSUME NEW k \in Calls, NEW h \in Cores, CreateIoctx(k, h, c) PROVE HInv'
  <2>1. TypeOK'
    BY <1>3 DEF TypeOK, CreateIoctx
  <2>2. ValuesShareLive'
    BY <1>3, HandlesAssumption DEF TypeOK, ValuesShareLive, CreateIoctx
  <2>3. BorrowsExist'
    BY <1>3, HandlesAssumption DEF TypeOK, BorrowsExist, CreateIoctx
  <2>4. OwnedIsLive'
    BY <1>3 DEF OwnedIsLive, CreateIoctx
  <2> QED
    BY <2>1, <2>2, <2>3, <2>4
<1> QED
  BY <1>1, <1>2, <1>3

LEMMA CallHInv ==
  ASSUME HInv, NEW k \in Calls,
         EndCall(k) \/ \E v \in RadosValues \cup IoCtxs : BeginCall(k, v)
  PROVE  HInv'
<1> USE DEF HInv
<1>1. TypeOK' /\ ValuesShareLive' /\ OwnedIsLive'
  BY DEF TypeOK, ValuesShareLive, OwnedIsLive, Owning, EndCall, BeginCall
<1>2. BorrowsExist'
  BY HandlesAssumption DEF TypeOK, BorrowsExist, EndCall, BeginCall
<1> QED
  BY <1>1, <1>2

LEMMA DestructorHInv ==
  ASSUME HInv, Destructor
  PROVE  HInv'
<1> USE DEF HInv
<1>1. CASE Shutdown
  BY <1>1 DEF Shutdown, TypeOK, ValuesShareLive, BorrowsExist, OwnedIsLive, Owning
<1>2. ASSUME NEW h \in Cores, DestroyIoctx(h) PROVE HInv'
  BY <1>2 DEF DestroyIoctx, TypeOK, ValuesShareLive, BorrowsExist, OwnedIsLive, Owning
<1>3. ASSUME NEW h \in Cores, ReleaseCluster(h) PROVE HInv'
  <2>1. TypeOK' /\ ValuesShareLive' /\ BorrowsExist'
    BY <1>3 DEF ReleaseCluster, TypeOK, ValuesShareLive, BorrowsExist
  <2>2. Owning' = Owning \ {h} /\ h \in Owning
    BY <1>3 DEF ReleaseCluster, TypeOK, Owning
  <2>3. OwnedIsLive'
    BY <1>3, <2>2 DEF ReleaseCluster, OwnedIsLive
  <2> QED
    BY <2>1, <2>3
<1> QED
  BY <1>1, <1>2, <1>3 DEF Destructor

LEMMA NextHInv == HInv /\ [Next]_hvars => HInv'
<1> SUFFICES ASSUME HInv, [Next]_hvars PROVE HInv'
  OBVIOUS
<1>1. CASE UNCHANGED hvars
  BY <1>1 DEF hvars, HInv, TypeOK, ValuesShareLive, BorrowsExist, OwnedIsLive, Owning
<1>2. CASE Next
  BY <1>1, <1>2, RadosHInv, IoCtxHInv, CallHInv, DestructorHInv DEF Next, Terminated
<1> QED
  BY <1>1, <1>2

LEMMA SpecHInv == Spec => []HInv
  BY InitHInv, NextHInv, PTL DEF Spec

-----------------------------------------------------------------------------

\* Every variable of Handles stays in its range.
THEOREM HandlesTypeCorrect == Spec => []TypeOK
  BY SpecHInv, PTL DEF HInv

\* No librados call runs on a client or an ioctx that a concurrent drop is tearing down.
THEOREM CallSafety == Spec => []CallsOnLiveHandles
<1>1. HInv => CallsOnLiveHandles
  BY DEF HInv, TypeOK, ValuesShareLive, BorrowsExist, OwnedIsLive, Owning, CallsOnLiveHandles
<1> QED
  BY <1>1, SpecHInv, PTL

\* rados_shutdown begins only after rados_ioctx_destroy has returned for every ioctx.
THEOREM TeardownOrder == Spec => []DestroyBeforeShutdown
<1>1. HInv => DestroyBeforeShutdown
  BY DEF HInv, OwnedIsLive, Owning, DestroyBeforeShutdown
<1> QED
  BY <1>1, SpecHInv, PTL

=============================================================================
