--------------------------- MODULE FencingProofs ---------------------------
(***************************************************************************)
(* Theorems about Fencing for any number of clients and threads, whatever  *)
(* they call and however long.                                             *)
(***************************************************************************)
EXTENDS Fencing, SequenceTheorems, TLAPS

-----------------------------------------------------------------------------
(* The inductive invariant *)

\* Every map from the epoch on blocklists the client.
KnownFrom(c, epoch) == \A e \in epoch .. Latest : c \in maps[e]

\* Those a thread has blocklisted are in the latest map.
ListedKnown == \A t \in Threads : \A c \in listed[t] : KnownFrom(c, Latest)

\* The epoch a wait is for is that of a map with them, or later.
WaitKnown ==
  \A t \in Threads :
    call[t].stage = "answered" /\ call[t].request.kind = "wait" /\ call[t].ret = "OK" =>
      call[t].epoch > 0 /\ \A c \in listed[t] : KnownFrom(c, call[t].epoch)

\* After the wait the client has such a map, and stamps its operations with the epoch of one.
BarrierKnown == \A t \in Threads : \A c \in barrier[t] : KnownFrom(c, mapOf[ClientOf[t]])

MessageKnown(m) == \A c \in m.behind : KnownFrom(c, m.stamp)
MessagesKnown == \A d \in Clients : \A i \in DOMAIN queue[d] : MessageKnown(queue[d][i])

\* An operation that a call still waits for is of a kind that the OSD answers.
MessageOwn(m) ==
  /\ m.no <= calls[m.thread]
  /\ m.no = calls[m.thread] /\ call[m.thread].stage # "idle" =>
       call[m.thread].request.kind \in OsdKinds
MessagesOwn == \A d \in Clients : \A i \in DOMAIN queue[d] : MessageOwn(queue[d][i])

\* The OSD that has executed one of them has such a map.
FencedKnown == \A c \in fenced : KnownFrom(c, osdEpoch)

FInv ==
  /\ TypeOK /\ ListedKnown /\ WaitKnown /\ BarrierKnown
  /\ MessagesKnown /\ MessagesOwn /\ FencedKnown

-----------------------------------------------------------------------------
(* Types *)

LEMMA SetupTypes ==
  ASSUME setup \in Setups
  PROVE  /\ setup.leases \subseteq Nat /\ setup.flags \subseteq Flags
         /\ setup.time \in Nat /\ setup.calls \in [Threads -> Nat]
  BY FencingAssumption DEF Setup

LEMMA RequestTypes ==
  ASSUME NEW t \in Threads
  PROVE  /\ \A d \in Nat, f \in Flags : Request("lock", t, d, f) \in Requests
         /\ \A k \in {"unlock", "break_lock", "blocklist_add"} : Request(k, t, 0, "none") \in Requests
         /\ \A k \in {"write", "list_lockers", "watch", "wait"} :
              Request(k, NoThread, 0, "none") \in Requests
  BY DEF Request, Requests, Flags

LEMMA UntilType ==
  ASSUME setup \in Setups, NEW s \in Nat, NEW d \in Nat
  PROVE  Until(s, d) \in Nat
  BY SetupTypes DEF Until, Never

CallRecord ==
  [request : Requests, stage : {"idle", "sent", "answered"}, start : Nat, epoch : 0 .. Latest,
   ret : {"OK", "EEXIST", "ENOENT", "EBUSY", "EIO", "EBLOCKLISTED"}]

LEMMA CallTypes ==
  ASSUME TypeOK, NEW r \in Requests, NEW s \in {"idle", "sent", "answered"}
  PROVE  Call(r, s) \in CallRecord /\ NotCalling \in CallRecord
<1>1. Latest \in Nat /\ clock \in Nat
  BY DEF TypeOK, Latest
<1>2. \A q \in Requests, z \in {"idle", "sent", "answered"} : Call(q, z) \in CallRecord
  BY <1>1 DEF Call, CallRecord
<1>3. Request("write", NoThread, 0, "none") \in Requests
  BY DEF Request, Requests
<1>4. Call(Request("write", NoThread, 0, "none"), "idle") \in CallRecord
  BY <1>2, <1>3
<1> QED
  BY <1>2, <1>4 DEF NotCalling, CallRecord

-----------------------------------------------------------------------------
(* The maps *)

LEMMA MapsAppend ==
  ASSUME TypeOK, NEW s \in SUBSET Clients, maps' = Append(maps, s)
  PROVE  /\ maps' \in Seq(SUBSET Clients)
         /\ Latest \in Nat \ {0} /\ Latest' = Latest + 1
         /\ \A e \in 1 .. Latest : maps'[e] = maps[e]
         /\ maps'[Latest'] = s
         /\ \A r \in CallRecord : r \in CallRecord'
         /\ \A m \in Message : m \in Message'
<1>1. maps \in Seq(SUBSET Clients) /\ Latest \in Nat \ {0}
  BY DEF TypeOK, Latest
<1>2. /\ maps' \in Seq(SUBSET Clients) /\ Latest' = Latest + 1
      /\ \A e \in 1 .. Latest : maps'[e] = maps[e]
      /\ maps'[Latest'] = s
  BY <1>1 DEF Latest
<1>3. 0 .. Latest \subseteq 0 .. Latest' /\ 1 .. Latest \subseteq 1 .. Latest'
  BY <1>1, <1>2
<1>4. \A r \in CallRecord : r \in CallRecord'
  BY <1>3 DEF CallRecord
<1>5. \A m \in Message : m \in Message'
  BY <1>3 DEF Message
<1> QED
  BY <1>1, <1>2, <1>4, <1>5

\* A map that keeps a client leaves what is known of it.
LEMMA KnownGrows ==
  ASSUME TypeOK, NEW s \in SUBSET Clients, maps' = Append(maps, s),
         NEW c \in s, NEW e \in 1 .. Latest, KnownFrom(c, e)
  PROVE  \A k \in e .. Latest' : c \in maps'[k]
<1>1. /\ Latest \in Nat \ {0} /\ Latest' = Latest + 1
      /\ \A k \in 1 .. Latest : maps'[k] = maps[k]
      /\ maps'[Latest'] = s
  BY MapsAppend
<1>2. ASSUME NEW k \in e .. Latest' PROVE c \in maps'[k]
  <2>1. CASE k = Latest'
    BY <1>1, <2>1
  <2>2. CASE k # Latest'
    <3>1. k \in e .. Latest /\ k \in 1 .. Latest
      BY <1>1, <1>2, <2>2
    <3> QED
      BY <1>1, <3>1 DEF KnownFrom
  <2> QED
    BY <2>1, <2>2
<1> QED
  BY <1>2

LEMMA KnownNow ==
  ASSUME TypeOK, NEW c, NEW e \in 1 .. Latest, KnownFrom(c, e)
  PROVE  c \in maps[Latest]
<1>1. Latest \in Nat
  BY DEF TypeOK, Latest
<1> QED
  BY <1>1 DEF KnownFrom

-----------------------------------------------------------------------------
(* Preservation *)

\* What a call of any kind that begins leaves in place.
LEMMA BeginFInv ==
  ASSUME FInv, NEW t \in Threads, NEW r \in Requests, Begin(t, r),
         lease' \in [Threads -> Nat],
         queue' \in [Clients -> Seq(Message)], MessagesKnown', MessagesOwn'
  PROVE  FInv'
<1> USE DEF FInv
<1>1. /\ UNCHANGED <<setup, maps, osdEpoch, mapOf, clock, object, seen, broken, listed, barrier, fenced>>
      /\ calls' = [calls EXCEPT ![t] = @ + 1]
      /\ call' = [call EXCEPT ![t] = Call(r, "sent")]
  BY DEF Begin
<1>2. Call(r, "sent") \in CallRecord
  BY CallTypes
<1>3. call' \in [Threads -> CallRecord]
  BY <1>1, <1>2 DEF TypeOK, CallRecord
<1>4. TypeOK'
  <2>1. Latest' = Latest /\ Message' = Message
    BY <1>1 DEF Latest, Message
  <2>2. calls' \in [Threads -> Nat]
    BY <1>1 DEF TypeOK
  <2> QED
    BY <1>1, <1>3, <2>1, <2>2 DEF TypeOK, object, CallRecord
<1>5. ListedKnown' /\ BarrierKnown' /\ FencedKnown'
  BY <1>1 DEF ListedKnown, BarrierKnown, FencedKnown, KnownFrom, Latest
<1>6. WaitKnown'
  BY <1>1, FencingAssumption DEF WaitKnown, KnownFrom, Latest, TypeOK, Call
<1> QED
  BY <1>4, <1>5, <1>6

\* MessageOwn(m) after the step, of a message from before it
OwnNext(m) ==
  /\ m.no <= calls'[m.thread]
  /\ m.no = calls'[m.thread] /\ call'[m.thread].stage # "idle" =>
       call'[m.thread].request.kind \in OsdKinds

LEMMA BeginKeepsOwn ==
  ASSUME FInv, NEW t \in Threads, NEW r \in Requests, Begin(t, r),
         NEW d \in Clients, NEW i \in DOMAIN queue[d]
  PROVE  OwnNext(queue[d][i])
<1> DEFINE m == queue[d][i]
<1>1. m \in Message /\ MessageOwn(m)
  BY DEF FInv, TypeOK, MessagesOwn
<1>2. m.thread \in Threads /\ m.no \in Nat
  BY <1>1 DEF Message
<1>3. calls \in [Threads -> Nat] /\ DOMAIN call = Threads
  BY DEF FInv, TypeOK
<1>4. calls' = [calls EXCEPT ![t] = @ + 1] /\ call' = [call EXCEPT ![t] = Call(r, "sent")]
  BY DEF Begin
<1>5. CASE m.thread = t
  BY <1>1, <1>2, <1>3, <1>4, <1>5 DEF OwnNext, MessageOwn
<1>6. CASE m.thread # t
  BY <1>1, <1>2, <1>3, <1>4, <1>6 DEF OwnNext, MessageOwn
<1> QED
  BY <1>5, <1>6

LEMMA SendFInv ==
  ASSUME FInv, NEW t \in Threads, NEW r \in Requests, r.kind \in OsdKinds, Send(t, r),
         lease' \in [Threads -> Nat]
  PROVE  FInv'
<1> USE DEF FInv
<1> DEFINE c == ClientOf[t]
           m == [thread |-> t, no |-> calls[t] + 1, request |-> r,
                 stamp |-> mapOf[c], behind |-> barrier[t]]
<1>1. c \in Clients
  BY FencingAssumption
<1>2. Begin(t, r) /\ queue' = [queue EXCEPT ![c] = Append(@, m)]
  BY DEF Send
<1>3. m \in Message
  BY <1>1 DEF TypeOK, Message
<1>4. UNCHANGED maps /\ Message' = Message
  BY <1>2 DEF Begin, Message, Latest, Requests
<1>5. queue \in [Clients -> Seq(Message)]
  BY DEF TypeOK
<1>6. queue' \in [Clients -> Seq(Message)]
  BY <1>1, <1>2, <1>3, <1>5
<1>7. MessageKnown(m)
  BY DEF BarrierKnown, MessageKnown
<1>8. OwnNext(m)
  BY <1>2, <1>3 DEF Begin, OwnNext, TypeOK, Call, Message
<1>9. ASSUME NEW d \in Clients, NEW i \in DOMAIN queue'[d]
      PROVE  MessageKnown(queue'[d][i]) /\ OwnNext(queue'[d][i])
  <2>1. CASE d = c
    <3>1. queue'[c] = Append(queue[c], m) /\ queue[c] \in Seq(Message)
      BY <1>1, <1>2, <1>5
    <3>2. i \in 1 .. Len(queue[c]) \/ i = Len(queue[c]) + 1
      BY <1>9, <2>1, <3>1
    <3>3. CASE i = Len(queue[c]) + 1
      BY <1>7, <1>8, <2>1, <3>1, <3>3
    <3>4. CASE i \in 1 .. Len(queue[c])
      <4>1. queue'[d][i] = queue[c][i] /\ i \in DOMAIN queue[c]
        BY <2>1, <3>1, <3>4
      <4> QED
        BY <1>1, <1>2, <4>1, BeginKeepsOwn DEF MessagesKnown
    <3> QED
      BY <3>2, <3>3, <3>4
  <2>2. CASE d # c
    <3>1. queue'[d] = queue[d]
      BY <1>2, <1>5, <2>2
    <3> QED
      BY <1>2, <1>9, <3>1, BeginKeepsOwn DEF MessagesKnown
  <2> QED
    BY <2>1, <2>2
<1>10. MessagesKnown'
  BY <1>4, <1>9 DEF MessagesKnown, MessageKnown, KnownFrom, Latest
<1>11. MessagesOwn'
  BY <1>9 DEF MessagesOwn, MessageOwn, OwnNext
<1> QED
  BY <1>2, <1>6, <1>10, <1>11, BeginFInv

LEMMA CallsFInv ==
  ASSUME FInv, NEW t \in Threads, Calls(t)
  PROVE  FInv'
<1> USE DEF FInv
<1>1. lease \in [Threads -> Nat] /\ setup \in Setups /\ clock \in Nat
  BY DEF TypeOK
<1>2. seen[t].holder # NoThread => seen[t].holder \in Threads
  BY DEF TypeOK
<1>3. ASSUME Write(t) \/ ListLockers(t) \/ Watch(t) PROVE FInv'
  <2>1. PICK k \in {"write", "list_lockers", "watch"} : Send(t, Request(k, NoThread, 0, "none"))
    BY <1>3 DEF Write, ListLockers, Watch
  <2>2. Request(k, NoThread, 0, "none") \in Requests
    BY RequestTypes
  <2>3. Request(k, NoThread, 0, "none").kind \in OsdKinds
    BY DEF Request, OsdKinds
  <2>4. UNCHANGED lease
    BY <1>3 DEF Write, ListLockers, Watch
  <2> QED
    BY <1>1, <2>1, <2>2, <2>3, <2>4, SendFInv
<1>4. CASE Unlock(t)
  <2>1. Request("unlock", t, 0, "none") \in Requests
    BY RequestTypes
  <2>2. Request("unlock", t, 0, "none").kind \in OsdKinds
    BY DEF Request, OsdKinds
  <2> QED
    BY <1>1, <1>4, <2>1, <2>2, SendFInv DEF Unlock
<1>5. CASE BreakLock(t)
  <2>1. Request("break_lock", seen[t].holder, 0, "none") \in Requests
    BY <1>2, <1>5, RequestTypes DEF BreakLock
  <2>2. Request("break_lock", seen[t].holder, 0, "none").kind \in OsdKinds
    BY DEF Request, OsdKinds
  <2> QED
    BY <1>1, <1>5, <2>1, <2>2, SendFInv DEF BreakLock
<1>6. ASSUME NEW d \in setup.leases, NEW f \in setup.flags, LockExclusive(t, d, f) PROVE FInv'
  <2>1. d \in Nat /\ f \in Flags
    BY <1>1, SetupTypes
  <2>2. Request("lock", t, d, f) \in Requests
    BY <2>1, RequestTypes
  <2>3. Request("lock", t, d, f).kind \in OsdKinds
    BY DEF Request, OsdKinds
  <2>4. Until(clock, d) \in Nat
    BY <1>1, <2>1, UntilType
  <2>5. lease' \in [Threads -> Nat]
    BY <1>1, <1>6, <2>4 DEF LockExclusive, Earlier
  <2> QED
    BY <1>6, <2>2, <2>3, <2>5, SendFInv DEF LockExclusive
<1>7. ASSUME BlocklistAdd(t) \/ WaitForLatestOsdmap(t) PROVE FInv'
  <2>1. PICK r \in Requests : Begin(t, r)
    BY <1>2, <1>7, RequestTypes DEF BlocklistAdd, WaitForLatestOsdmap
  <2>2. UNCHANGED <<queue, lease, maps>>
    BY <1>7 DEF BlocklistAdd, WaitForLatestOsdmap, Begin
  <2>3. queue' \in [Clients -> Seq(Message)] /\ MessagesKnown'
    BY <2>2 DEF TypeOK, MessagesKnown, MessageKnown, KnownFrom, Latest
  <2>4. \A d \in Clients : \A i \in DOMAIN queue[d] : OwnNext(queue[d][i])
    BY <2>1, BeginKeepsOwn
  <2>5. MessagesOwn'
    BY <2>2, <2>4 DEF MessagesOwn, MessageOwn, OwnNext
  <2> QED
    BY <1>1, <2>1, <2>2, <2>3, <2>5, BeginFInv
<1> QED
  BY <1>3, <1>4, <1>5, <1>6, <1>7 DEF Calls

\* A call ends: Return, GiveUp.
LEMMA EndFInv ==
  ASSUME FInv, NEW t \in Threads, call' = [call EXCEPT ![t] = NotCalling],
         UNCHANGED <<setup, maps, osdEpoch, mapOf, clock, object, queue, calls, seen, broken,
                     listed, fenced>>,
         lease' \in [Threads -> Nat], barrier' \in [Threads -> SUBSET Clients], BarrierKnown'
  PROVE  FInv'
<1> USE DEF FInv
<1>1. Latest' = Latest /\ Message' = Message
  BY DEF Latest, Message
<1>2. call' \in [Threads -> CallRecord]
  <2>1. call \in [Threads -> CallRecord]
    BY DEF TypeOK, CallRecord
  <2>2. NotCalling \in CallRecord
    BY CallTypes, RequestTypes
  <2> QED
    BY <2>1, <2>2
<1>3. TypeOK'
  BY <1>1, <1>2 DEF TypeOK, CallRecord, object
<1>4. ListedKnown' /\ MessagesKnown' /\ FencedKnown'
  BY DEF ListedKnown, MessagesKnown, MessageKnown, FencedKnown, KnownFrom, Latest
<1>5. NotCalling.stage = "idle"
  BY DEF NotCalling, Call
<1>6. WaitKnown'
  <2> SUFFICES ASSUME NEW u \in Threads, call'[u].stage = "answered",
                      call'[u].request.kind = "wait", call'[u].ret = "OK"
               PROVE  call'[u].epoch > 0 /\ \A c \in listed[u] : KnownFrom(c, call'[u].epoch)
    BY DEF WaitKnown, KnownFrom, Latest
  <2>1. u # t /\ call'[u] = call[u]
    BY <1>5 DEF TypeOK
  <2> QED
    BY <2>1 DEF WaitKnown
<1>7. MessagesOwn'
  <2> SUFFICES ASSUME NEW d \in Clients, NEW j \in DOMAIN queue[d]
               PROVE  OwnNext(queue[d][j])
    BY DEF MessagesOwn, MessageOwn, OwnNext
  <2>1. MessageOwn(queue[d][j]) /\ queue[d][j] \in Message
    BY DEF MessagesOwn, TypeOK
  <2>2. queue[d][j].thread \in Threads
    BY <2>1 DEF Message
  <2> QED
    BY <1>5, <2>1, <2>2 DEF OwnNext, MessageOwn, TypeOK
<1> QED
  BY <1>3, <1>4, <1>6, <1>7

LEMMA ReturnFInv ==
  ASSUME FInv, NEW t \in Threads, Return(t)
  PROVE  FInv'
<1> USE DEF FInv
<1>1. call[t] \in CallRecord
  BY DEF TypeOK, CallRecord
<1>2. call[t].start \in Nat /\ call[t].request.duration \in Nat
  BY <1>1 DEF CallRecord, Requests
<1>3. Until(call[t].start, call[t].request.duration) \in Nat
  BY <1>2, UntilType DEF TypeOK
<1>4. lease' \in [Threads -> Nat]
  BY <1>3 DEF Return, TypeOK
<1>5. barrier' \in [Threads -> SUBSET Clients]
  BY DEF Return, TypeOK
<1>6. BarrierKnown'
  <2> SUFFICES ASSUME NEW u \in Threads, NEW c \in barrier'[u]
               PROVE  KnownFrom(c, mapOf[ClientOf[u]])
    BY DEF BarrierKnown, Return, KnownFrom, Latest
  <2>1. CASE barrier'[u] = barrier[u]
    BY <2>1 DEF BarrierKnown
  <2>2. CASE barrier'[u] # barrier[u]
    <3>1. /\ u = t /\ barrier'[t] = listed[t]
          /\ call[t].request.kind = "wait" /\ CheckErr(call[t].ret) = Ok
      BY <2>2 DEF Return, TypeOK
    <3>2. call[t].ret = "OK"
      BY <1>1, <3>1 DEF CheckErr, Ok, CallRecord
    <3>3. call[t].epoch > 0 /\ KnownFrom(c, call[t].epoch)
      BY <3>1, <3>2 DEF WaitKnown, Return
    <3>4. call[t].epoch <= mapOf[ClientOf[t]]
      BY DEF Return, Arrived
    <3>5. Latest \in Nat
      BY DEF TypeOK, Latest
    <3>6. call[t].epoch \in Nat
      BY <1>1, <3>5 DEF CallRecord
    <3>7. mapOf[ClientOf[t]] \in Nat
      BY <3>5, FencingAssumption DEF TypeOK
    <3> QED
      BY <3>1, <3>3, <3>4, <3>5, <3>6, <3>7 DEF KnownFrom
  <2> QED
    BY <2>1, <2>2
<1> QED
  BY <1>4, <1>5, <1>6, EndFInv DEF Return

LEMMA GiveUpFInv ==
  ASSUME FInv, NEW t \in Threads, GiveUp(t)
  PROVE  FInv'
<1>1. lease' \in [Threads -> Nat] /\ barrier' \in [Threads -> SUBSET Clients] /\ BarrierKnown'
  BY DEF GiveUp, history, FInv, TypeOK, BarrierKnown, KnownFrom, Latest
<1> QED
  BY <1>1, EndFInv DEF GiveUp, history

-----------------------------------------------------------------------------
(* The OSD *)

Rets == {"OK", "EEXIST", "ENOENT", "EBUSY", "EIO", "EBLOCKLISTED"}

\* What an operation does to the object is in range, and it has an answer.
LEMMA EffectTypes ==
  ASSUME TypeOK, NEW m \in Message, UNCHANGED <<setup, clock>>,
         Grant(m) \/ Release(m) \/ List(m) \/ Change(m) \/ Reject(m)
  PROVE  /\ version' \in Nat /\ granted' \in Nat
         /\ lock' \in [holder : Threads \cup {NoThread}, expires : Nat, grant : Nat]
         /\ watch' \in [Clients -> {"none", "watching", "dropped", "informed"}]
         /\ seen' \in [Threads -> [holder : Threads \cup {NoThread}, grant : Nat, behind : BOOLEAN]]
         /\ broken' \in SUBSET Threads
         /\ \E ret \in Rets : Answer(m, ret)
<1>1. m.thread \in Threads /\ m.request \in Requests
  BY DEF Message
<1>2. m.request.duration \in Nat /\ m.request.who \in Threads \cup {NoThread}
  BY <1>1 DEF Requests
<1>3. ClientOf[m.thread] \in Clients
  BY <1>1, FencingAssumption
<1>4. CASE Grant(m)
  <2>1. LockRet(m.thread, m.request.flag) \in Rets
    BY DEF LockRet, Rets
  <2>2. Expires(m) \in Nat
    BY <1>2, UntilType DEF Expires, Sent, TypeOK
  <2>3. granted' \in Nat
    BY <1>4 DEF Grant, TypeOK
  <2>4. lock' \in [holder : Threads \cup {NoThread}, expires : Nat, grant : Nat]
    BY <1>1, <1>4, <2>2, <2>3 DEF Grant, TypeOK
  <2>5. UNCHANGED <<version, watch, seen>> /\ broken' \in SUBSET Threads
    BY <1>4 DEF Grant, TypeOK
  <2>6. Answer(m, LockRet(m.thread, m.request.flag))
    BY <1>4 DEF Grant
  <2> QED
    BY <2>1, <2>3, <2>4, <2>5, <2>6 DEF TypeOK
<1>5. CASE Release(m)
  <2>1. NoLock \in [holder : Threads \cup {NoThread}, expires : Nat, grant : Nat]
    BY DEF NoLock
  <2>2. lock' \in [holder : Threads \cup {NoThread}, expires : Nat, grant : Nat]
    BY <1>5, <2>1 DEF Release, TypeOK
  <2>3. Holds(m.request.who) => m.request.who \in Threads
    BY <1>2 DEF Holds, Held
  <2>4. broken' \in SUBSET Threads
    BY <1>5, <2>3 DEF Release, TypeOK
  <2>5. Answer(m, "OK") \/ Answer(m, "ENOENT")
    BY <1>5 DEF Release
  <2> QED
    BY <1>5, <2>2, <2>4, <2>5 DEF Release, TypeOK, Rets
<1>6. CASE List(m)
  <2>1. NothingSeen \in [holder : Threads \cup {NoThread}, grant : Nat, behind : BOOLEAN]
    BY DEF NothingSeen
  <2>2. (ClientOf[lock.holder] \in m.behind) \in BOOLEAN
    OBVIOUS
  <2>3. [holder |-> lock.holder, grant |-> lock.grant, behind |-> ClientOf[lock.holder] \in m.behind]
          \in [holder : Threads \cup {NoThread}, grant : Nat, behind : BOOLEAN]
    BY <2>2 DEF TypeOK
  <2>4. seen' \in [Threads -> [holder : Threads \cup {NoThread}, grant : Nat, behind : BOOLEAN]]
    BY <1>6, <2>1, <2>3 DEF List, TypeOK
  <2> QED
    BY <1>6, <2>4 DEF List, TypeOK, object, Rets
<1>7. CASE Change(m)
  <2>1. version' \in Nat
    BY <1>7 DEF Change, TypeOK
  <2>2. watch' \in [Clients -> {"none", "watching", "dropped", "informed"}]
    BY <1>3, <1>7 DEF Change, TypeOK
  <2> QED
    BY <1>7, <2>1, <2>2 DEF Change, TypeOK, Rets
<1>8. CASE Reject(m)
  BY <1>8 DEF Reject, TypeOK, object, Rets
<1> QED
  BY <1>4, <1>5, <1>6, <1>7, <1>8

\* The answer to an operation is for the call that asked for it, and for no wait.
LEMMA AnswerKeeps ==
  ASSUME FInv, NEW m \in Message, MessageOwn(m), NEW ret \in Rets, Answer(m, ret),
         UNCHANGED <<maps, calls, listed>>
  PROVE  /\ call' \in [Threads -> CallRecord]
         /\ WaitKnown'
         /\ \A x \in Message : MessageOwn(x) => OwnNext(x)
<1> USE DEF FInv
<1>1. call \in [Threads -> CallRecord] /\ m.thread \in Threads
  BY DEF TypeOK, CallRecord, Message
<1>2. CASE call' = call
  BY <1>1, <1>2 DEF WaitKnown, KnownFrom, Latest, OwnNext, MessageOwn
<1>3. CASE call' # call
  <2>1. /\ call[m.thread].stage = "sent" /\ calls[m.thread] = m.no
        /\ call' = [call EXCEPT ![m.thread].stage = "answered", ![m.thread].ret = ret]
    BY <1>3 DEF Answer
  <2>2. call[m.thread].request.kind \in OsdKinds
    BY <2>1 DEF MessageOwn
  <2>3. call' = [call EXCEPT ![m.thread] = [call[m.thread] EXCEPT !.stage = "answered", !.ret = ret]]
    BY <1>1, <2>1
  <2>4. [call[m.thread] EXCEPT !.stage = "answered", !.ret = ret] \in CallRecord
    BY <1>1 DEF CallRecord, Rets
  <2>5. call' \in [Threads -> CallRecord]
    BY <1>1, <2>3, <2>4
  <2>6. \A u \in Threads :
          call'[u].request = call[u].request /\ (u # m.thread => call'[u] = call[u])
    BY <1>1, <2>3 DEF CallRecord
  <2>7. WaitKnown'
    <3> SUFFICES ASSUME NEW u \in Threads, call'[u].stage = "answered",
                        call'[u].request.kind = "wait", call'[u].ret = "OK"
                 PROVE  call'[u].epoch > 0 /\ \A c \in listed[u] : KnownFrom(c, call'[u].epoch)
      BY DEF WaitKnown, KnownFrom, Latest
    <3>1. u # m.thread
      BY <2>2, <2>6 DEF OsdKinds
    <3> QED
      BY <2>6, <3>1 DEF WaitKnown
  <2>8. ASSUME NEW x \in Message, MessageOwn(x) PROVE OwnNext(x)
    <3>1. x.thread \in Threads
      BY DEF Message
    <3>2. CASE x.thread = m.thread
      BY <2>2, <2>6, <2>8, <3>1, <3>2 DEF OwnNext, MessageOwn
    <3>3. CASE x.thread # m.thread
      BY <2>6, <2>8, <3>1, <3>3 DEF OwnNext, MessageOwn
    <3> QED
      BY <3>2, <3>3
  <2> QED
    BY <2>5, <2>7, <2>8
<1> QED
  BY <1>2, <1>3

\* What is left of the queues when a client's first operation is taken was in them before.
LEMMA TailQueue ==
  ASSUME TypeOK, NEW c \in Clients, queue[c] # <<>>, queue' = [queue EXCEPT ![c] = Tail(@)]
  PROVE  /\ Head(queue[c]) = queue[c][1] /\ 1 \in DOMAIN queue[c]
         /\ Head(queue[c]) \in Message
         /\ queue' \in [Clients -> Seq(Message)]
         /\ \A d \in Clients : \A j \in DOMAIN queue'[d] :
              \E k \in DOMAIN queue[d] : queue'[d][j] = queue[d][k]
<1>1. queue \in [Clients -> Seq(Message)]
  BY DEF TypeOK
<1>2. queue[c] \in Seq(Message) /\ Len(queue[c]) > 0
  BY <1>1
<1>3. Head(queue[c]) = queue[c][1] /\ 1 \in DOMAIN queue[c] /\ Head(queue[c]) \in Message
  BY <1>2
<1>4. queue' \in [Clients -> Seq(Message)]
  BY <1>1, <1>2
<1>5. ASSUME NEW d \in Clients, NEW j \in DOMAIN queue'[d]
      PROVE  \E k \in DOMAIN queue[d] : queue'[d][j] = queue[d][k]
  <2>1. CASE d = c
    <3>1. queue'[d] = Tail(queue[c])
      BY <1>1, <2>1
    <3>2. j \in 1 .. Len(queue[c]) - 1 /\ queue'[d][j] = queue[c][j + 1]
      <4>1. /\ Tail(queue[c]) \in Seq(Message) /\ Len(Tail(queue[c])) = Len(queue[c]) - 1
            /\ \A i \in 1 .. Len(queue[c]) - 1 : Tail(queue[c])[i] = queue[c][i + 1]
        BY <1>2
      <4>2. j \in 1 .. Len(Tail(queue[c]))
        <5>1. DOMAIN Tail(queue[c]) = 1 .. Len(Tail(queue[c]))
          BY <4>1
        <5> QED
          BY <3>1, <5>1
      <4> QED
        BY <3>1, <4>1, <4>2
    <3>3. j + 1 \in DOMAIN queue[c]
      BY <1>2, <3>2
    <3> QED
      BY <2>1, <3>2, <3>3
  <2>2. CASE d # c
    BY <1>1, <1>5, <2>2
  <2> QED
    BY <2>1, <2>2
<1> QED
  BY <1>3, <1>4, <1>5

LEMMA ExecuteFInv ==
  ASSUME FInv, NEW c \in Clients, Execute(c)
  PROVE  FInv'
<1> USE DEF FInv
<1> DEFINE m == Head(queue[c])
<1>1. /\ queue[c] # <<>> /\ m.stamp <= osdEpoch /\ fenced' = fenced \cup m.behind
      /\ Grant(m) \/ Release(m) \/ List(m) \/ Change(m) \/ Reject(m)
      /\ queue' = [queue EXCEPT ![c] = Tail(@)]
      /\ UNCHANGED <<setup, maps, osdEpoch, mapOf, clock, calls, lease, listed, barrier>>
  BY DEF Execute
<1>2. m \in Message /\ m = queue[c][1] /\ 1 \in DOMAIN queue[c]
  BY <1>1, TailQueue
<1>3. MessageKnown(m) /\ MessageOwn(m)
  BY <1>2 DEF MessagesKnown, MessagesOwn
<1>4. /\ version' \in Nat /\ granted' \in Nat
      /\ lock' \in [holder : Threads \cup {NoThread}, expires : Nat, grant : Nat]
      /\ watch' \in [Clients -> {"none", "watching", "dropped", "informed"}]
      /\ seen' \in [Threads -> [holder : Threads \cup {NoThread}, grant : Nat, behind : BOOLEAN]]
      /\ broken' \in SUBSET Threads
      /\ \E ret \in Rets : Answer(m, ret)
  BY <1>1, <1>2, EffectTypes
<1>5. /\ call' \in [Threads -> CallRecord] /\ WaitKnown'
      /\ \A x \in Message : MessageOwn(x) => OwnNext(x)
  BY <1>1, <1>2, <1>3, <1>4, AnswerKeeps
<1>6. Latest' = Latest /\ Message' = Message
  BY <1>1 DEF Latest, Message
<1>7. fenced' \in SUBSET Clients
  BY <1>1, <1>2 DEF TypeOK, Message
<1>8. queue' \in [Clients -> Seq(Message)]
  BY <1>1, TailQueue
<1>9. TypeOK'
  BY <1>1, <1>4, <1>5, <1>6, <1>7, <1>8 DEF TypeOK, CallRecord
<1>10. ListedKnown' /\ BarrierKnown'
  BY <1>1 DEF ListedKnown, BarrierKnown, KnownFrom, Latest
<1>11. MessagesKnown'
  <2> SUFFICES ASSUME NEW d \in Clients, NEW j \in DOMAIN queue'[d]
               PROVE  MessageKnown(queue'[d][j])
    BY <1>1 DEF MessagesKnown, MessageKnown, KnownFrom, Latest
  <2> QED
    BY <1>1, TailQueue DEF MessagesKnown
<1>12. MessagesOwn'
  <2> SUFFICES ASSUME NEW d \in Clients, NEW j \in DOMAIN queue'[d]
               PROVE  OwnNext(queue'[d][j])
    BY DEF MessagesOwn, MessageOwn, OwnNext
  <2>1. PICK k \in DOMAIN queue[d] : queue'[d][j] = queue[d][k]
    BY <1>1, TailQueue
  <2>2. queue[d][k] \in Message /\ MessageOwn(queue[d][k])
    BY DEF MessagesOwn, TypeOK
  <2> QED
    BY <1>5, <2>1, <2>2
<1>13. FencedKnown'
  <2> SUFFICES ASSUME NEW d \in fenced' PROVE KnownFrom(d, osdEpoch)
    BY <1>1 DEF FencedKnown, KnownFrom, Latest
  <2>1. CASE d \in fenced
    BY <2>1 DEF FencedKnown
  <2>2. CASE d \in m.behind
    <3>1. KnownFrom(d, m.stamp)
      BY <1>3, <2>2 DEF MessageKnown
    <3>2. Latest \in Nat
      BY DEF TypeOK, Latest
    <3>3. m.stamp \in Nat /\ osdEpoch \in Nat
      BY <1>2, <3>2 DEF TypeOK, Message
    <3> QED
      BY <1>1, <3>1, <3>2, <3>3 DEF KnownFrom
  <2> QED
    BY <1>1, <2>1, <2>2
<1> QED
  BY <1>5, <1>9, <1>10, <1>11, <1>12, <1>13

LEMMA LoseFInv ==
  ASSUME FInv, NEW c \in Clients, Lose(c)
  PROVE  FInv'
<1> USE DEF FInv
<1>1. /\ queue[c] # <<>> /\ queue' = [queue EXCEPT ![c] = Tail(@)]
      /\ UNCHANGED <<setup, maps, osdEpoch, mapOf, clock, object, call, calls, seen, history>>
  BY DEF Lose
<1>2. Latest' = Latest /\ Message' = Message
  BY <1>1 DEF Latest, Message
<1>3. queue' \in [Clients -> Seq(Message)]
  BY <1>1, TailQueue
<1>4. TypeOK'
  BY <1>1, <1>2, <1>3 DEF TypeOK, object, history
<1>5. ListedKnown' /\ WaitKnown' /\ BarrierKnown' /\ FencedKnown'
  BY <1>1 DEF ListedKnown, WaitKnown, BarrierKnown, FencedKnown, KnownFrom, Latest, history
<1>6. MessagesKnown' /\ MessagesOwn'
  <2> SUFFICES ASSUME NEW d \in Clients, NEW j \in DOMAIN queue'[d]
               PROVE  MessageKnown(queue'[d][j]) /\ MessageOwn(queue'[d][j])
    BY <1>1 DEF MessagesKnown, MessageKnown, KnownFrom, Latest, MessagesOwn, MessageOwn
  <2> QED
    BY <1>1, TailQueue DEF MessagesKnown, MessagesOwn
<1> QED
  BY <1>4, <1>5, <1>6

-----------------------------------------------------------------------------
(* Monitors and maps *)

LEMMA MonBlocklistsFInv ==
  ASSUME FInv, NEW t \in Threads, MonBlocklists(t)
  PROVE  FInv'
<1> USE DEF FInv
<1> DEFINE x == ClientOf[call[t].request.who]
           s == maps[Latest] \cup {x}
<1>1. /\ call[t].stage = "sent" /\ call[t].request.kind = "blocklist_add"
      /\ maps' = Append(maps, s)
      /\ listed' = [listed EXCEPT ![t] = @ \cup {x}]
      /\ call' = [call EXCEPT ![t].stage = "answered"]
      /\ UNCHANGED <<setup, osdEpoch, mapOf, clock, object, queue, calls, seen, lease, broken,
                     barrier, fenced>>
  BY DEF MonBlocklists
<1>2. call \in [Threads -> CallRecord] /\ call[t].request \in Requests
  BY DEF TypeOK, CallRecord
<1>3. x \in Clients
  BY <1>1, <1>2, FencingAssumption DEF Requests
<1>4. Latest \in Nat \ {0} /\ maps[Latest] \in SUBSET Clients
  BY DEF TypeOK, Latest
<1>5. s \in SUBSET Clients
  BY <1>3, <1>4
<1>6. /\ maps' \in Seq(SUBSET Clients) /\ Latest' = Latest + 1 /\ maps'[Latest'] = s
      /\ \A r \in CallRecord : r \in CallRecord'
      /\ \A m \in Message : m \in Message'
  BY <1>1, <1>5, MapsAppend
<1>7. ASSUME NEW c, NEW e \in 1 .. Latest, KnownFrom(c, e)
      PROVE  \A k \in e .. Latest' : c \in maps'[k]
  BY <1>1, <1>5, <1>7, KnownGrows, KnownNow
<1>8. call' \in [Threads -> CallRecord]
  <2>1. call' = [call EXCEPT ![t] = [call[t] EXCEPT !.stage = "answered"]]
    BY <1>1, <1>2
  <2>2. [call[t] EXCEPT !.stage = "answered"] \in CallRecord
    BY <1>2 DEF CallRecord
  <2> QED
    BY <1>2, <2>1, <2>2
<1>9. TypeOK'
  <2>1. call' \in [Threads -> CallRecord']
    BY <1>6, <1>8
  <2>2. queue' \in [Clients -> Seq(Message)]
    BY <1>1 DEF TypeOK
  <2>3. Seq(Message) \subseteq Seq(Message')
    BY <1>6
  <2>4. queue' \in [Clients -> Seq(Message')]
    BY <2>2, <2>3
  <2>5. 1 .. Latest \subseteq 1 .. Latest' /\ Latest' > 0
    BY <1>4, <1>6
  <2>6. osdEpoch' \in 1 .. Latest' /\ mapOf' \in [Clients -> 1 .. Latest']
    BY <1>1, <2>5 DEF TypeOK
  <2>7. listed' \in [Threads -> SUBSET Clients]
    BY <1>1, <1>3 DEF TypeOK
  <2> QED
    BY <1>1, <1>6, <2>1, <2>4, <2>5, <2>6, <2>7 DEF TypeOK, CallRecord, object
<1>10. ListedKnown'
  <2> SUFFICES ASSUME NEW u \in Threads, NEW c \in listed'[u]
               PROVE  \A k \in Latest' .. Latest' : c \in maps'[k]
    BY DEF ListedKnown, KnownFrom, Latest
  <2>1. c \in listed[u] \/ c = x
    BY <1>1 DEF TypeOK
  <2>2. c \in listed[u] => c \in maps[Latest]
    BY <1>4, KnownNow DEF ListedKnown
  <2> QED
    BY <1>4, <1>6, <2>1, <2>2
<1>11. WaitKnown'
  <2> SUFFICES ASSUME NEW u \in Threads, call'[u].stage = "answered",
                      call'[u].request.kind = "wait", call'[u].ret = "OK"
               PROVE  /\ call'[u].epoch > 0
                      /\ \A c \in listed'[u] : \A k \in call'[u].epoch .. Latest' : c \in maps'[k]
    BY DEF WaitKnown, KnownFrom, Latest
  <2>1. call'[t].request = call[t].request
    BY <1>1, <1>2 DEF CallRecord
  <2>2. u # t
    BY <1>1, <2>1
  <2>3. call'[u] = call[u] /\ listed'[u] = listed[u]
    BY <1>1, <1>2, <2>2 DEF TypeOK
  <2>4. call[u].epoch > 0 /\ call[u].epoch \in 0 .. Latest
    BY <1>2, <2>3 DEF WaitKnown, CallRecord
  <2>5. call[u].epoch \in 1 .. Latest
    BY <1>4, <2>4
  <2> QED
    BY <1>7, <2>3, <2>5 DEF WaitKnown
<1>12. BarrierKnown'
  <2> SUFFICES ASSUME NEW u \in Threads, NEW c \in barrier[u]
               PROVE  \A k \in mapOf[ClientOf[u]] .. Latest' : c \in maps'[k]
    BY <1>1 DEF BarrierKnown, KnownFrom, Latest
  <2>1. mapOf[ClientOf[u]] \in 1 .. Latest
    BY FencingAssumption DEF TypeOK
  <2> QED
    BY <1>7, <2>1 DEF BarrierKnown
<1>13. MessagesKnown' /\ MessagesOwn'
  <2>1. ASSUME NEW d \in Clients, NEW j \in DOMAIN queue[d], NEW c \in queue[d][j].behind
        PROVE  \A k \in queue[d][j].stamp .. Latest' : c \in maps'[k]
    <3>1. queue[d][j] \in Message
      BY DEF TypeOK
    <3>2. queue[d][j].stamp \in 1 .. Latest
      BY <3>1 DEF Message
    <3> QED
      BY <1>7, <3>2, <2>1 DEF MessagesKnown, MessageKnown
  <2>2. ASSUME NEW d \in Clients, NEW j \in DOMAIN queue[d]
        PROVE  OwnNext(queue[d][j])
    <3>1. MessageOwn(queue[d][j]) /\ queue[d][j] \in Message
      BY DEF MessagesOwn, TypeOK
    <3>2. queue[d][j].thread \in Threads
      BY <3>1 DEF Message
    <3>3. call'[queue[d][j].thread].request = call[queue[d][j].thread].request
      BY <1>1, <1>2, <3>2 DEF CallRecord
    <3>4. call[queue[d][j].thread].stage = "idle" => call'[queue[d][j].thread].stage = "idle"
      BY <1>1, <1>2, <3>2
    <3> QED
      BY <1>1, <3>1, <3>3, <3>4 DEF MessageOwn, OwnNext
  <2> QED
    BY <1>1, <2>1, <2>2 DEF MessagesKnown, MessageKnown, KnownFrom, Latest, MessagesOwn, MessageOwn, OwnNext
<1>14. FencedKnown'
  <2> SUFFICES ASSUME NEW c \in fenced PROVE \A k \in osdEpoch .. Latest' : c \in maps'[k]
    BY <1>1 DEF FencedKnown, KnownFrom, Latest
  <2> QED
    BY <1>7 DEF FencedKnown, TypeOK
<1> QED
  BY <1>9, <1>10, <1>11, <1>12, <1>13, <1>14

\* Nobody who relies on a client's being blocklisted relies on it after its blocklisting has
\* expired.
LEMMA BlocklistExpiresFInv ==
  ASSUME FInv, NEW x \in Clients, BlocklistExpires(x)
  PROVE  FInv'
<1> USE DEF FInv
<1> DEFINE s == maps[Latest] \ {x}
           left(m) == [m EXCEPT !.behind = @ \ {x}]
<1>1. /\ maps' = Append(maps, s)
      /\ queue' = [d \in Clients |-> [i \in DOMAIN queue[d] |-> left(queue[d][i])]]
      /\ seen' = [t \in Threads |->
           IF seen[t].holder # NoThread /\ ClientOf[seen[t].holder] = x
           THEN [seen[t] EXCEPT !.behind = FALSE] ELSE seen[t]]
      /\ listed' = [t \in Threads |-> listed[t] \ {x}]
      /\ barrier' = [t \in Threads |-> barrier[t] \ {x}]
      /\ fenced' = fenced \ {x}
      /\ UNCHANGED <<setup, osdEpoch, mapOf, clock, object, call, calls, lease, broken>>
  BY DEF BlocklistExpires
<1>2. call \in [Threads -> CallRecord] /\ queue \in [Clients -> Seq(Message)]
  BY DEF TypeOK, CallRecord
<1>3. Latest \in Nat \ {0} /\ s \in SUBSET Clients
  BY DEF TypeOK, Latest
<1>4. /\ maps' \in Seq(SUBSET Clients) /\ Latest' = Latest + 1 /\ maps'[Latest'] = s
      /\ \A r \in CallRecord : r \in CallRecord'
      /\ \A m \in Message : m \in Message'
  BY <1>1, <1>3, MapsAppend
<1>5. ASSUME NEW c, c # x, NEW e \in 1 .. Latest, KnownFrom(c, e)
      PROVE  \A k \in e .. Latest' : c \in maps'[k]
  BY <1>1, <1>3, <1>5, KnownGrows, KnownNow
<1>6. ASSUME NEW m \in Message
      PROVE  /\ left(m) \in Message'
             /\ left(m).thread = m.thread /\ left(m).no = m.no /\ left(m).stamp = m.stamp
             /\ left(m).behind = m.behind \ {x}
  <2>1. /\ left(m) \in Message
        /\ left(m).thread = m.thread /\ left(m).no = m.no /\ left(m).stamp = m.stamp
        /\ left(m).behind = m.behind \ {x}
    BY DEF Message
  <2> QED
    BY <1>4, <2>1
<1>7. ASSUME NEW d \in Clients
      PROVE  /\ queue'[d] \in Seq(Message') /\ DOMAIN queue'[d] = DOMAIN queue[d]
             /\ \A i \in DOMAIN queue[d] : queue'[d][i] = left(queue[d][i]) /\ queue[d][i] \in Message
  <2>1. queue[d] \in Seq(Message)
    BY <1>2
  <2>2. queue'[d] = [i \in DOMAIN queue[d] |-> left(queue[d][i])]
    BY <1>1
  <2>3. DOMAIN queue[d] = 1 .. Len(queue[d]) /\ Len(queue[d]) \in Nat
    BY <2>1
  <2>4. \A i \in 1 .. Len(queue[d]) : queue[d][i] \in Message /\ left(queue[d][i]) \in Message'
    BY <1>6, <2>1
  <2>5. queue'[d] = [i \in 1 .. Len(queue[d]) |-> left(queue[d][i])]
    BY <2>2, <2>3
  <2>6. queue'[d] \in Seq(Message')
    BY <2>3, <2>4, <2>5
  <2> QED
    BY <2>2, <2>3, <2>4, <2>6
<1>8. TypeOK'
  <2>1. call' \in [Threads -> CallRecord']
    BY <1>1, <1>2, <1>4
  <2>2. queue' \in [Clients -> Seq(Message')]
    BY <1>1, <1>7
  <2>3. 1 .. Latest \subseteq 1 .. Latest' /\ Latest' > 0
    BY <1>3, <1>4
  <2>4. osdEpoch' \in 1 .. Latest' /\ mapOf' \in [Clients -> 1 .. Latest']
    BY <1>1, <2>3 DEF TypeOK
  <2>5. seen' \in [Threads -> [holder : Threads \cup {NoThread}, grant : Nat, behind : BOOLEAN]]
    <3> DEFINE S == [holder : Threads \cup {NoThread}, grant : Nat, behind : BOOLEAN]
    <3>1. \A v \in S : [v EXCEPT !.behind = FALSE] \in S
      OBVIOUS
    <3>2. \A t \in Threads : seen[t] \in S
      BY DEF TypeOK
    <3> HIDE DEF S
    <3>3. seen' \in [Threads -> S]
      BY <1>1, <3>1, <3>2
    <3> QED
      BY <3>3 DEF S
  <2>6. /\ listed' \in [Threads -> SUBSET Clients] /\ barrier' \in [Threads -> SUBSET Clients]
        /\ fenced' \in SUBSET Clients
    BY <1>1 DEF TypeOK
  <2> QED
    BY <1>1, <1>4, <2>1, <2>2, <2>3, <2>4, <2>5, <2>6 DEF TypeOK, CallRecord, object
<1>9. ListedKnown'
  <2> SUFFICES ASSUME NEW u \in Threads, NEW c \in listed'[u]
               PROVE  \A k \in Latest' .. Latest' : c \in maps'[k]
    BY DEF ListedKnown, KnownFrom, Latest
  <2>1. c \in listed[u] /\ c # x
    BY <1>1
  <2>2. c \in maps[Latest]
    BY <1>3, <2>1, KnownNow DEF ListedKnown
  <2> QED
    BY <1>3, <1>4, <2>1, <2>2
<1>10. WaitKnown'
  <2> SUFFICES ASSUME NEW u \in Threads, call[u].stage = "answered",
                      call[u].request.kind = "wait", call[u].ret = "OK"
               PROVE  /\ call[u].epoch > 0
                      /\ \A c \in listed'[u] : \A k \in call[u].epoch .. Latest' : c \in maps'[k]
    BY <1>1 DEF WaitKnown, KnownFrom, Latest
  <2>1. call[u].epoch > 0 /\ call[u].epoch \in 0 .. Latest
    BY <1>2 DEF WaitKnown, CallRecord
  <2>2. call[u].epoch \in 1 .. Latest
    BY <1>3, <2>1
  <2>3. \A c \in listed'[u] : c \in listed[u] /\ c # x
    BY <1>1
  <2> QED
    BY <1>5, <2>1, <2>2, <2>3 DEF WaitKnown
<1>11. BarrierKnown'
  <2> SUFFICES ASSUME NEW u \in Threads, NEW c \in barrier'[u]
               PROVE  \A k \in mapOf[ClientOf[u]] .. Latest' : c \in maps'[k]
    BY <1>1 DEF BarrierKnown, KnownFrom, Latest
  <2>1. mapOf[ClientOf[u]] \in 1 .. Latest
    BY FencingAssumption DEF TypeOK
  <2>2. c \in barrier[u] /\ c # x
    BY <1>1
  <2> QED
    BY <1>5, <2>1, <2>2 DEF BarrierKnown
<1>12. MessagesKnown'
  <2> SUFFICES ASSUME NEW d \in Clients, NEW j \in DOMAIN queue[d], NEW c \in queue'[d][j].behind
               PROVE  \A k \in queue'[d][j].stamp .. Latest' : c \in maps'[k]
    BY <1>7 DEF MessagesKnown, MessageKnown, KnownFrom, Latest
  <2>1. queue'[d][j] = left(queue[d][j]) /\ queue[d][j] \in Message
    BY <1>7
  <2>2. c \in queue[d][j].behind /\ c # x /\ queue'[d][j].stamp = queue[d][j].stamp
    BY <1>6, <2>1
  <2>3. queue[d][j].stamp \in 1 .. Latest
    BY <2>1 DEF Message
  <2> QED
    BY <1>5, <2>2, <2>3 DEF MessagesKnown, MessageKnown
<1>13. MessagesOwn'
  <2> SUFFICES ASSUME NEW d \in Clients, NEW j \in DOMAIN queue[d]
               PROVE  OwnNext(queue'[d][j])
    BY <1>7 DEF MessagesOwn, MessageOwn, OwnNext
  <2>1. queue'[d][j] = left(queue[d][j]) /\ queue[d][j] \in Message
    BY <1>7
  <2>2. queue'[d][j].thread = queue[d][j].thread /\ queue'[d][j].no = queue[d][j].no
    BY <1>6, <2>1
  <2>3. MessageOwn(queue[d][j])
    BY DEF MessagesOwn
  <2> QED
    BY <1>1, <2>2, <2>3 DEF MessageOwn, OwnNext
<1>14. FencedKnown'
  <2> SUFFICES ASSUME NEW c \in fenced' PROVE \A k \in osdEpoch .. Latest' : c \in maps'[k]
    BY <1>1 DEF FencedKnown, KnownFrom, Latest
  <2> QED
    BY <1>1, <1>5 DEF FencedKnown, TypeOK
<1> QED
  BY <1>8, <1>9, <1>10, <1>11, <1>12, <1>13, <1>14

LEMMA MonAnswersFInv ==
  ASSUME FInv, NEW t \in Threads, MonTellsLatest(t) \/ MonRefuses(t)
  PROVE  FInv'
<1> USE DEF FInv
<1>1. UNCHANGED <<setup, maps, osdEpoch, mapOf, clock, object, queue, calls, seen, history>>
  BY DEF MonTellsLatest, MonRefuses
<1>2. call \in [Threads -> CallRecord] /\ Latest \in Nat \ {0}
  BY DEF TypeOK, CallRecord, Latest
<1>3. PICK r \in CallRecord :
        /\ call' = [call EXCEPT ![t] = r]
        /\ r.request = call[t].request /\ r.stage = "answered" /\ call[t].stage # "idle"
        /\ r.ret = "EIO" \/ r.epoch = Latest
  <2>1. CASE MonTellsLatest(t)
    <3> DEFINE r == [call[t] EXCEPT !.stage = "answered", !.epoch = Latest]
    <3>1. Latest \in 0 .. Latest
      BY <1>2
    <3>2. call[t] \in CallRecord
      BY <1>2
    <3>3. r \in CallRecord /\ r.request = call[t].request /\ r.stage = "answered" /\ r.epoch = Latest
      BY <3>1, <3>2 DEF CallRecord
    <3>4. call' = [call EXCEPT ![t] = r] /\ call[t].stage # "idle"
      BY <1>2, <2>1 DEF MonTellsLatest
    <3> QED
      BY <3>3, <3>4
  <2>2. CASE MonRefuses(t)
    <3> DEFINE r == [call[t] EXCEPT !.stage = "answered", !.ret = "EIO"]
    <3>1. r \in CallRecord /\ r.request = call[t].request /\ r.stage = "answered" /\ r.ret = "EIO"
      BY <1>2 DEF CallRecord
    <3>2. call' = [call EXCEPT ![t] = r] /\ call[t].stage # "idle"
      BY <1>2, <2>2 DEF MonRefuses
    <3> QED
      BY <3>1, <3>2
  <2> QED
    BY <2>1, <2>2
<1>4. call' \in [Threads -> CallRecord]
  BY <1>2, <1>3
<1>5. Latest' = Latest /\ Message' = Message
  BY <1>1 DEF Latest, Message
<1>6. TypeOK'
  BY <1>1, <1>4, <1>5 DEF TypeOK, CallRecord, object, history
<1>7. ListedKnown' /\ BarrierKnown' /\ FencedKnown' /\ MessagesKnown'
  BY <1>1 DEF ListedKnown, BarrierKnown, FencedKnown, MessagesKnown, MessageKnown, KnownFrom,
     Latest, history
<1>8. WaitKnown'
  <2> SUFFICES ASSUME NEW u \in Threads, call'[u].stage = "answered",
                      call'[u].request.kind = "wait", call'[u].ret = "OK"
               PROVE  call'[u].epoch > 0 /\ \A c \in listed[u] : KnownFrom(c, call'[u].epoch)
    BY <1>1 DEF WaitKnown, KnownFrom, Latest, history
  <2>1. CASE u = t
    <3>1. call'[u].epoch = Latest
      BY <1>2, <1>3, <2>1
    <3> QED
      BY <1>2, <3>1 DEF ListedKnown
  <2>2. CASE u # t
    BY <1>2, <1>3, <2>2 DEF WaitKnown
  <2> QED
    BY <2>1, <2>2
<1>9. MessagesOwn'
  <2> SUFFICES ASSUME NEW d \in Clients, NEW j \in DOMAIN queue[d]
               PROVE  OwnNext(queue[d][j])
    BY <1>1 DEF MessagesOwn, MessageOwn, OwnNext
  <2>1. MessageOwn(queue[d][j]) /\ queue[d][j] \in Message
    BY DEF MessagesOwn, TypeOK
  <2>2. queue[d][j].thread \in Threads
    BY <2>1 DEF Message
  <2>3. CASE queue[d][j].thread = t
    BY <1>1, <1>2, <1>3, <2>1, <2>3 DEF MessageOwn, OwnNext
  <2>4. CASE queue[d][j].thread # t
    BY <1>1, <1>2, <1>3, <2>1, <2>2, <2>4 DEF MessageOwn, OwnNext
  <2> QED
    BY <2>3, <2>4
<1> QED
  BY <1>6, <1>7, <1>8, <1>9

\* Newer maps keep what is known since an older one.
LEMMA NewerFInv ==
  ASSUME FInv,
         UNCHANGED <<setup, maps, queue, call, calls, seen, history, version, lock, granted>>,
         clock' \in Nat, watch' \in [Clients -> {"none", "watching", "dropped", "informed"}],
         osdEpoch' \in 1 .. Latest, osdEpoch <= osdEpoch',
         mapOf' \in [Clients -> 1 .. Latest], \A c \in Clients : mapOf[c] <= mapOf'[c]
  PROVE  FInv'
<1> USE DEF FInv
<1>1. Latest' = Latest /\ Message' = Message /\ Latest \in Nat
  BY DEF Latest, Message, TypeOK
<1>2. TypeOK'
  BY <1>1 DEF TypeOK, history
<1>3. ListedKnown' /\ WaitKnown' /\ MessagesKnown' /\ MessagesOwn'
  BY DEF ListedKnown, WaitKnown, MessagesKnown, MessageKnown, MessagesOwn, MessageOwn, KnownFrom,
     Latest, history
<1>4. \A c : KnownFrom(c, osdEpoch) => KnownFrom(c, osdEpoch')
  BY <1>1 DEF KnownFrom, TypeOK
<1>5. FencedKnown'
  BY <1>4 DEF FencedKnown, KnownFrom, Latest, history
<1>6. BarrierKnown'
  <2> SUFFICES ASSUME NEW t \in Threads, NEW c \in barrier[t]
               PROVE  KnownFrom(c, mapOf'[ClientOf[t]])
    BY DEF BarrierKnown, KnownFrom, Latest, history
  <2>1. KnownFrom(c, mapOf[ClientOf[t]])
    BY DEF BarrierKnown
  <2>2. /\ mapOf[ClientOf[t]] \in 1 .. Latest /\ mapOf'[ClientOf[t]] \in 1 .. Latest
        /\ mapOf[ClientOf[t]] <= mapOf'[ClientOf[t]]
    BY FencingAssumption DEF TypeOK
  <2> QED
    BY <1>1, <2>1, <2>2 DEF KnownFrom
<1> QED
  BY <1>2, <1>3, <1>5, <1>6

LEMMA WorldFInv ==
  ASSUME FInv,
         Tick \/ OsdTakesMap \/ \E c \in Clients : ClientTakesMap(c) \/ Disconnect(c)
  PROVE  FInv'
<1> USE DEF FInv
<1>1. /\ Latest \in Nat /\ clock \in Nat /\ osdEpoch \in 1 .. Latest
      /\ mapOf \in [Clients -> 1 .. Latest]
      /\ watch \in [Clients -> {"none", "watching", "dropped", "informed"}]
  BY DEF TypeOK, Latest
<1>2. CASE Tick
  BY <1>1, <1>2, NewerFInv DEF Tick, object
<1>3. CASE OsdTakesMap
  <2>1. PICK e \in osdEpoch + 1 .. Latest : osdEpoch' = e /\ watch' = WatchesUnder(e)
    BY <1>3 DEF OsdTakesMap
  <2>2. watch' \in [Clients -> {"none", "watching", "dropped", "informed"}]
    BY <1>1, <2>1 DEF WatchesUnder
  <2>3. osdEpoch' \in 1 .. Latest /\ osdEpoch <= osdEpoch'
    BY <1>1, <2>1
  <2> QED
    BY <1>1, <1>3, <2>2, <2>3, NewerFInv DEF OsdTakesMap
<1>4. ASSUME NEW c \in Clients, ClientTakesMap(c) PROVE FInv'
  <2>1. PICK e \in mapOf[c] + 1 .. Latest : mapOf' = [mapOf EXCEPT ![c] = e]
    BY <1>4 DEF ClientTakesMap
  <2>2. mapOf[c] \in 1 .. Latest
    BY <1>1
  <2>3. e \in 1 .. Latest /\ mapOf[c] <= e
    BY <1>1, <2>1, <2>2
  <2>4. mapOf' \in [Clients -> 1 .. Latest]
    BY <1>1, <2>1, <2>3
  <2>5. \A d \in Clients : mapOf[d] <= mapOf'[d]
    BY <1>1, <2>1, <2>3
  <2> QED
    BY <1>1, <1>4, <2>4, <2>5, NewerFInv DEF ClientTakesMap, object
<1>5. ASSUME NEW c \in Clients, Disconnect(c) PROVE FInv'
  BY <1>1, <1>5, NewerFInv DEF Disconnect
<1> QED
  BY <1>2, <1>3, <1>4, <1>5

-----------------------------------------------------------------------------

LEMMA InitFInv == Init => FInv
<1> SUFFICES ASSUME Init PROVE FInv
  OBVIOUS
<1> USE DEF Init
<1>1. maps \in Seq(SUBSET Clients) /\ Latest = 1
  BY DEF Latest
<1>2. NotCalling \in CallRecord
  <2>1. clock \in Nat /\ Latest \in Nat
    BY <1>1
  <2>2. Request("write", NoThread, 0, "none") \in Requests
    BY RequestTypes DEF Request, Requests
  <2>3. Call(Request("write", NoThread, 0, "none"), "idle") \in CallRecord
    BY <2>1, <2>2 DEF Call, CallRecord
  <2> QED
    BY <2>3 DEF NotCalling, CallRecord
<1>3. TypeOK
  <2>1. call \in [Threads -> CallRecord]
    BY <1>2
  <2>2. lock \in [holder : Threads \cup {NoThread}, expires : Nat, grant : Nat]
    BY DEF NoLock
  <2>3. seen \in [Threads -> [holder : Threads \cup {NoThread}, grant : Nat, behind : BOOLEAN]]
    BY DEF NothingSeen
  <2>4. queue \in [Clients -> Seq(Message)]
    OBVIOUS
  <2> QED
    BY <1>1, <2>1, <2>2, <2>3, <2>4 DEF TypeOK, CallRecord
<1>4. \A t \in Threads : call[t].stage = "idle"
  BY DEF NotCalling, Call
<1>5. \A d \in Clients : DOMAIN queue[d] = {}
  OBVIOUS
<1> QED
  BY <1>3, <1>4, <1>5 DEF FInv, ListedKnown, WaitKnown, BarrierKnown, MessagesKnown, MessagesOwn,
     FencedKnown

LEMMA NextFInv == FInv /\ [Next]_vars => FInv'
<1> SUFFICES ASSUME FInv, [Next]_vars PROVE FInv'
  OBVIOUS
<1>1. CASE UNCHANGED vars
  BY <1>1 DEF vars, FInv, TypeOK, ListedKnown, WaitKnown, BarrierKnown, MessagesKnown, MessageKnown,
     MessagesOwn, MessageOwn, FencedKnown, KnownFrom, Latest, Message, object, history
<1>2. ASSUME NEW t \in Threads, Calls(t) \/ Return(t) \/ GiveUp(t) \/ MonAnswers(t) PROVE FInv'
  BY <1>2, CallsFInv, ReturnFInv, GiveUpFInv, MonBlocklistsFInv, MonAnswersFInv DEF MonAnswers
<1>3. ASSUME NEW c \in Clients,
             Execute(c) \/ Lose(c) \/ BlocklistExpires(c) \/ ClientTakesMap(c) \/ Disconnect(c)
      PROVE  FInv'
  BY <1>3, ExecuteFInv, LoseFInv, BlocklistExpiresFInv, WorldFInv
<1>4. CASE Tick \/ OsdTakesMap
  BY <1>4, WorldFInv
<1>5. CASE Terminated
  BY <1>1, <1>5 DEF Terminated
<1> QED
  BY <1>1, <1>2, <1>3, <1>4, <1>5 DEF Next

LEMMA SpecFInv == Spec => []FInv
  BY InitFInv, NextFInv, PTL DEF Spec

-----------------------------------------------------------------------------

\* The state of any number of clients, threads and maps stays in its ranges.
THEOREM FencingTypeCorrect == Spec => []TypeOK
  BY SpecFInv, PTL DEF FInv

\* What takes an operation of a client out of its queue is Execute or Lose.
LEMMA OnlyTail ==
  ASSUME FInv, [Next]_vars, NEW c \in Clients, queue[c] # <<>>, queue'[c] = Tail(queue[c])
  PROVE  Execute(c) \/ Lose(c)
<1>1. queue \in [Clients -> Seq(Message)] /\ queue[c] \in Seq(Message)
  BY DEF FInv, TypeOK
<1>2. Len(queue'[c]) = Len(queue[c]) - 1 /\ Len(queue[c]) \in Nat
  BY <1>1
<1>3. queue'[c] # queue[c]
  <2> SUFFICES ASSUME queue'[c] = queue[c] PROVE FALSE
    OBVIOUS
  <2>1. Len(queue'[c]) = Len(queue[c])
    OBVIOUS
  <2> QED
    BY <1>2, <2>1
<1>4. ASSUME NEW t \in Threads, Calls(t) PROVE FALSE
  <2>1. ASSUME NEW r, Send(t, r) PROVE FALSE
    <3>1. PICK m : queue' = [queue EXCEPT ![ClientOf[t]] = Append(@, m)]
      BY <2>1 DEF Send
    <3>2. queue'[c] = queue[c] \/ queue'[c] = Append(queue[c], m)
      BY <1>1, <3>1
    <3>3. Len(Append(queue[c], m)) = Len(queue[c]) + 1
      BY <1>1
    <3> QED
      BY <1>2, <1>3, <3>2, <3>3
  <2> QED
    BY <1>3, <1>4, <2>1 DEF Calls, Write, Unlock, BreakLock, ListLockers, Watch, LockExclusive,
       BlocklistAdd, WaitForLatestOsdmap
<1>5. ASSUME NEW d \in Clients, d # c, Execute(d) \/ Lose(d) PROVE FALSE
  <2>1. queue' = [queue EXCEPT ![d] = Tail(@)]
    BY <1>5 DEF Execute, Lose
  <2> QED
    BY <1>1, <1>3, <1>5, <2>1
<1>6. ASSUME NEW d \in Clients, BlocklistExpires(d) PROVE FALSE
  <2>1. DOMAIN queue'[c] = DOMAIN queue[c]
    BY <1>6 DEF BlocklistExpires
  <2>2. DOMAIN queue[c] = 1 .. Len(queue[c]) /\ DOMAIN queue'[c] = 1 .. Len(queue[c]) - 1
    BY <1>1, <1>2
  <2> QED
    BY <1>2, <2>1, <2>2
<1> QED
  BY <1>3, <1>4, <1>5, <1>6 DEF Next, vars, Return, GiveUp, MonAnswers, MonBlocklists, MonTellsLatest,
     MonRefuses, ClientTakesMap, Disconnect, Tick, OsdTakesMap, Terminated

\* No operation of a client has an effect once another has blocklisted it, waited for the map
\* and had an operation executed.
THEOREM FencedClientsStayOut == Spec => FencedStaysOut
<1>1. ASSUME FInv, [Next]_vars
      PROVE  [\A c \in fenced :
               queue[c] # <<>> /\ queue'[c] = Tail(queue[c]) => UNCHANGED object]_vars
  <2> SUFFICES ASSUME NEW c \in fenced, queue[c] # <<>>, queue'[c] = Tail(queue[c])
               PROVE  UNCHANGED object
    OBVIOUS
  <2>1. c \in Clients /\ c \in maps[osdEpoch]
    BY <1>1 DEF FInv, TypeOK, FencedKnown, KnownFrom, Latest
  <2>2. Execute(c) \/ Lose(c)
    BY <1>1, <2>1, OnlyTail
  <2> QED
    BY <2>1, <2>2 DEF Execute, Reject, Lose
<1> QED
  BY <1>1, SpecFInv, PTL DEF Spec, FencedStaysOut

-----------------------------------------------------------------------------
(* Leases: the inductive invariant *)

\* An operation is queued for the client of its thread, ...
AtHome == \A d \in Clients : \A i \in DOMAIN queue[d] : ClientOf[queue[d][i].thread] = d

\* ... behind those the thread sent before, ...
InOrder ==
  \A d \in Clients : \A i, j \in DOMAIN queue[d] :
    i < j /\ queue[d][i].thread = queue[d][j].thread => queue[d][i].no < queue[d][j].no

\* ... and is what its call has asked for, while the thread is in that call.  What it will do
\* to a lease has been allowed for when it was sent.
Fits(m) ==
  /\ m.no = calls[m.thread] /\ call[m.thread].stage # "idle" =>
       call[m.thread].request = m.request
  /\ m.request.kind = "unlock" => m.request.who = m.thread /\ lease[m.thread] = 0
  /\ m.request.kind = "lock" => lease[m.thread] <= Until(clock, m.request.duration)
AllFit == \A d \in Clients : \A i \in DOMAIN queue[d] : Fits(queue[d][i])

\* Nothing of a thread is on its way when the OSD has answered its call.
AnsweredIsLast ==
  \A t \in Threads :
    call[t].stage = "answered" /\ call[t].request.kind \in OsdKinds =>
      \A d \in Clients : \A i \in DOMAIN queue[d] : queue[d][i].thread # t

\* The lock expires no earlier than a lease that runs, ...
LeaseBacked ==
  \A t \in Threads :
    clock < lease[t] /\ t \notin broken => lock.holder = t /\ lease[t] <= lock.expires

\* ... or one that the thread is about to be told of.
Told(t) == Until(call[t].start, call[t].request.duration)
AnswerBacked ==
  \A t \in Threads :
    /\ call[t].stage = "answered" /\ call[t].request.kind = "lock" /\ call[t].ret = "OK"
    /\ t \notin broken /\ clock < Told(t)
    => lock.holder = t /\ Told(t) <= lock.expires

Started == \A t \in Threads : call[t].start <= clock

LInv ==
  /\ AtHome /\ InOrder /\ AllFit /\ AnsweredIsLast
  /\ LeaseBacked /\ AnswerBacked /\ Started

-----------------------------------------------------------------------------

LEMMA UntilGrows ==
  ASSUME setup \in Setups, NEW a \in Nat, NEW b \in Nat, a <= b, NEW d \in Nat
  PROVE  Until(a, d) <= Until(b, d) /\ Until(a, d) \in Nat /\ Until(b, d) \in Nat
  BY SetupTypes DEF Until, Never

LEMMA QueueTypes ==
  ASSUME TypeOK, NEW d \in Clients, NEW i \in DOMAIN queue[d]
  PROVE  /\ queue[d][i] \in Message /\ queue[d][i].thread \in Threads
         /\ queue[d][i].no \in Nat /\ queue[d][i].request \in Requests
         /\ queue[d][i].request.duration \in Nat
<1>1. queue[d][i] \in Message
  BY DEF TypeOK
<1>2. queue[d][i].request \in Requests
  BY <1>1 DEF Message
<1> QED
  BY <1>1, <1>2 DEF Message, Requests

LEMMA CallFields ==
  ASSUME TypeOK, NEW t \in Threads
  PROVE  /\ call \in [Threads -> CallRecord] /\ call[t].start \in Nat
         /\ call[t].request \in Requests /\ call[t].request.duration \in Nat
         /\ Told(t) \in Nat
<1>1. call \in [Threads -> CallRecord]
  BY DEF TypeOK, CallRecord
<1>2. call[t].start \in Nat /\ call[t].request \in Requests
  BY <1>1 DEF CallRecord
<1>3. call[t].request.duration \in Nat
  BY <1>2 DEF Requests
<1>4. Told(t) \in Nat
  BY <1>2, <1>3, UntilType DEF Told, TypeOK
<1> QED
  BY <1>1, <1>2, <1>3, <1>4

\* Fits(m) after the step, of a message from before it
FitsNext(m) ==
  /\ m.no = calls'[m.thread] /\ call'[m.thread].stage # "idle" =>
       call'[m.thread].request = m.request
  /\ m.request.kind = "unlock" => m.request.who = m.thread /\ lease'[m.thread] = 0
  /\ m.request.kind = "lock" =>
       lease'[m.thread] <= IF m.request.duration = 0 THEN setup'.time + 1
                           ELSE clock' + m.request.duration

LEMMA FitsNextIsFits == (\A d \in Clients : \A i \in DOMAIN queue'[d] : FitsNext(queue'[d][i])) <=> AllFit'
  BY DEF AllFit, Fits, FitsNext, Until, Never

-----------------------------------------------------------------------------
(* The calls *)

\* A lease is only cut when a call begins.
LEMMA BeginLInv ==
  ASSUME FInv, LInv, NEW t \in Threads, NEW r \in Requests, Begin(t, r),
         lease' \in [Threads -> Nat], \A u \in Threads : lease'[u] <= lease[u],
         AtHome', InOrder',
         \A d \in Clients : \A i \in DOMAIN queue'[d] :
           \/ i \in DOMAIN queue[d] /\ queue'[d][i] = queue[d][i]
           \/ queue'[d][i].thread = t /\ FitsNext(queue'[d][i])
  PROVE  LInv'
<1> USE DEF FInv, LInv
<1>1. /\ UNCHANGED <<setup, clock, lock, broken>>
      /\ calls' = [calls EXCEPT ![t] = @ + 1]
      /\ call' = [call EXCEPT ![t] = Call(r, "sent")]
  BY DEF Begin, object
<1>2. /\ call \in [Threads -> CallRecord] /\ calls \in [Threads -> Nat] /\ clock \in Nat
      /\ lease \in [Threads -> Nat]
  BY DEF TypeOK, CallRecord
<1>3. Call(r, "sent").stage = "sent" /\ Call(r, "sent").start = clock
  BY DEF Call
<1>4. ASSUME NEW d \in Clients, NEW i \in DOMAIN queue[d] PROVE FitsNext(queue[d][i])
  <2> DEFINE m == queue[d][i]
  <2>1. /\ m.thread \in Threads /\ m.no \in Nat /\ m.request.duration \in Nat
        /\ MessageOwn(m) /\ Fits(m)
    BY QueueTypes DEF MessagesOwn, AllFit
  <2>2. lease'[m.thread] \in Nat /\ lease'[m.thread] <= lease[m.thread] /\ lease[m.thread] \in Nat
    BY <1>2, <2>1
  <2>3. m.request.kind = "unlock" => m.request.who = m.thread /\ lease'[m.thread] = 0
    BY <2>1, <2>2 DEF Fits
  <2>4. m.request.kind = "lock" =>
          lease'[m.thread] <= IF m.request.duration = 0 THEN setup'.time + 1
                              ELSE clock' + m.request.duration
    <3> DEFINE z == Until(clock, m.request.duration)
    <3>1. z \in Nat
      BY <1>2, <2>1, UntilType DEF TypeOK
    <3>2. z = IF m.request.duration = 0 THEN setup'.time + 1 ELSE clock' + m.request.duration
      BY <1>1 DEF Until, Never
    <3>3. m.request.kind = "lock" => lease[m.thread] <= z
      BY <2>1 DEF Fits
    <3> HIDE DEF z
    <3>4. m.request.kind = "lock" => lease'[m.thread] <= z
      BY <2>2, <3>1, <3>3
    <3> QED
      BY <3>2, <3>4
  <2>5. m.no = calls'[m.thread] /\ call'[m.thread].stage # "idle" =>
          call'[m.thread].request = m.request
    <3>1. CASE m.thread = t
      BY <1>1, <1>2, <2>1, <3>1 DEF MessageOwn
    <3>2. CASE m.thread # t
      BY <1>1, <1>2, <2>1, <3>2 DEF Fits
    <3> QED
      BY <3>1, <3>2
  <2> QED
    BY <2>3, <2>4, <2>5 DEF FitsNext
<1>5. AllFit'
  BY <1>4, FitsNextIsFits
<1>6. AnsweredIsLast'
  <2> SUFFICES ASSUME NEW u \in Threads, call'[u].stage = "answered",
                      call'[u].request.kind \in OsdKinds,
                      NEW d \in Clients, NEW i \in DOMAIN queue'[d]
               PROVE  queue'[d][i].thread # u
    BY DEF AnsweredIsLast
  <2>1. u # t /\ call'[u] = call[u]
    BY <1>1, <1>2, <1>3
  <2> QED
    BY <2>1 DEF AnsweredIsLast
<1>7. LeaseBacked'
  <2> SUFFICES ASSUME NEW u \in Threads, clock < lease'[u], u \notin broken
               PROVE  lock.holder = u /\ lease'[u] <= lock.expires
    BY <1>1 DEF LeaseBacked
  <2>1. lease'[u] \in Nat /\ lease[u] \in Nat /\ lease'[u] <= lease[u] /\ lock.expires \in Nat
    BY <1>2 DEF TypeOK
  <2>2. lock.holder = u /\ lease[u] <= lock.expires
    BY <1>2, <2>1 DEF LeaseBacked
  <2> QED
    BY <2>1, <2>2
<1>8. AnswerBacked'
  <2> SUFFICES ASSUME NEW u \in Threads, call'[u].stage = "answered"
               PROVE  call'[u] = call[u]
    BY <1>1 DEF AnswerBacked, Told, Until, Never
  <2> QED
    BY <1>1, <1>2, <1>3
<1>9. Started'
  BY <1>1, <1>2, <1>3 DEF Started
<1> QED
  BY <1>5, <1>6, <1>7, <1>8, <1>9

LEMMA SendLInv ==
  ASSUME FInv, LInv, NEW t \in Threads, NEW r \in Requests, Send(t, r),
         lease' \in [Threads -> Nat], \A u \in Threads : lease'[u] <= lease[u],
         r.kind = "unlock" => r.who = t /\ lease'[t] = 0,
         r.kind = "lock" => lease'[t] <= Until(clock, r.duration)
  PROVE  LInv'
<1> USE DEF FInv, LInv
<1> DEFINE c == ClientOf[t]
           m == [thread |-> t, no |-> calls[t] + 1, request |-> r,
                 stamp |-> mapOf[c], behind |-> barrier[t]]
<1>1. c \in Clients /\ queue \in [Clients -> Seq(Message)] /\ queue[c] \in Seq(Message)
  BY FencingAssumption DEF TypeOK
<1>2. Begin(t, r) /\ queue' = [queue EXCEPT ![c] = Append(@, m)]
  BY DEF Send
<1>3. /\ calls' = [calls EXCEPT ![t] = @ + 1] /\ call' = [call EXCEPT ![t] = Call(r, "sent")]
      /\ UNCHANGED <<setup, clock>>
  BY <1>2 DEF Begin
<1>4. calls \in [Threads -> Nat] /\ DOMAIN call = Threads
  BY DEF TypeOK
<1>5. m.thread = t /\ m.no = calls[t] + 1 /\ m.request = r
  OBVIOUS
<1>6. Call(r, "sent").request = r
  BY DEF Call
<1>7. FitsNext(m)
  BY <1>3, <1>4, <1>5, <1>6 DEF FitsNext, Until, Never
<1> HIDE DEF m
<1>8. /\ queue'[c] = Append(queue[c], m) /\ Len(queue[c]) \in Nat
      /\ DOMAIN queue'[c] = 1 .. Len(queue[c]) + 1 /\ DOMAIN queue[c] = 1 .. Len(queue[c])
      /\ queue'[c][Len(queue[c]) + 1] = m
      /\ \A i \in DOMAIN queue[c] : queue'[c][i] = queue[c][i]
      /\ \A d \in Clients : d # c => queue'[d] = queue[d]
  BY <1>1, <1>2
<1>9. \A d \in Clients : \A i \in DOMAIN queue'[d] :
        \/ i \in DOMAIN queue[d] /\ queue'[d][i] = queue[d][i]
        \/ d = c /\ i = Len(queue[c]) + 1 /\ queue'[d][i] = m
  BY <1>8
<1>10. AtHome'
  BY <1>5, <1>9 DEF AtHome
<1>11. InOrder'
  <2> SUFFICES ASSUME NEW d \in Clients, NEW i \in DOMAIN queue'[d], NEW j \in DOMAIN queue'[d],
                      i < j, queue'[d][i].thread = queue'[d][j].thread
               PROVE  queue'[d][i].no < queue'[d][j].no
    BY DEF InOrder
  <2>1. CASE j \in DOMAIN queue[d] /\ queue'[d][j] = queue[d][j]
    <3>1. i \in DOMAIN queue[d] /\ queue'[d][i] = queue[d][i]
      BY <1>8, <1>9, <2>1
    <3> QED
      BY <2>1, <3>1 DEF InOrder
  <2>2. CASE d = c /\ j = Len(queue[c]) + 1 /\ queue'[d][j] = m
    <3>1. i \in DOMAIN queue[c] /\ queue'[d][i] = queue[c][i]
      BY <1>8, <1>9, <2>2
    <3>2. /\ queue[c][i].thread = t /\ queue[c][i].no \in Nat
          /\ queue[c][i].no <= calls[queue[c][i].thread]
      BY <1>1, <1>5, <2>2, <3>1, QueueTypes DEF MessagesOwn, MessageOwn
    <3> QED
      BY <1>4, <1>5, <2>2, <3>1, <3>2
  <2> QED
    BY <1>9, <2>1, <2>2
<1>12. \A d \in Clients : \A i \in DOMAIN queue'[d] :
         \/ i \in DOMAIN queue[d] /\ queue'[d][i] = queue[d][i]
         \/ queue'[d][i].thread = t /\ FitsNext(queue'[d][i])
  BY <1>5, <1>7, <1>9
<1> QED
  BY <1>2, <1>10, <1>11, <1>12, BeginLInv

LEMMA CallsLInv ==
  ASSUME FInv, LInv, NEW t \in Threads, Calls(t)
  PROVE  LInv'
<1>1. /\ lease \in [Threads -> Nat] /\ setup \in Setups /\ clock \in Nat
      /\ seen[t].holder # NoThread => seen[t].holder \in Threads
  BY DEF FInv, TypeOK
<1>2. \A u \in Threads : lease[u] <= lease[u]
  BY <1>1
<1>3. ASSUME Write(t) \/ ListLockers(t) \/ Watch(t) \/ BreakLock(t) PROVE LInv'
  <2>1. PICK k \in {"write", "list_lockers", "watch", "break_lock"}, who \in Threads \cup {NoThread} :
          /\ Send(t, Request(k, who, 0, "none"))
          /\ k = "break_lock" => who \in Threads
          /\ k # "break_lock" => who = NoThread
    BY <1>1, <1>3 DEF Write, ListLockers, Watch, BreakLock
  <2>2. Request(k, who, 0, "none") \in Requests
    BY <2>1, RequestTypes
  <2>3. /\ Request(k, who, 0, "none").kind \in OsdKinds
        /\ Request(k, who, 0, "none").kind \notin {"unlock", "lock"}
    BY DEF Request, OsdKinds
  <2>4. UNCHANGED lease
    BY <1>3 DEF Write, ListLockers, Watch, BreakLock
  <2> QED
    BY <1>1, <1>2, <2>1, <2>2, <2>3, <2>4, SendLInv
<1>4. CASE Unlock(t)
  <2> DEFINE r == Request("unlock", t, 0, "none")
  <2>1. r \in Requests
    BY RequestTypes
  <2>2. r.kind = "unlock" /\ r.who = t
    BY DEF Request
  <2>3. Send(t, r) /\ lease' = [lease EXCEPT ![t] = 0]
    BY <1>4 DEF Unlock
  <2>4. lease' \in [Threads -> Nat] /\ lease'[t] = 0 /\ \A u \in Threads : lease'[u] <= lease[u]
    BY <1>1, <2>3
  <2> HIDE DEF r
  <2> QED
    BY <2>1, <2>2, <2>3, <2>4, SendLInv
<1>5. ASSUME NEW d \in setup.leases, NEW f \in setup.flags, LockExclusive(t, d, f) PROVE LInv'
  <2> DEFINE r == Request("lock", t, d, f)
             z == Until(clock, d)
  <2>1. d \in Nat /\ f \in Flags
    BY <1>1, SetupTypes
  <2>2. r \in Requests
    BY <2>1, RequestTypes
  <2>3. r.kind = "lock" /\ r.duration = d
    BY DEF Request
  <2>4. z \in Nat
    BY <1>1, <2>1, UntilType
  <2>5. Send(t, r) /\ lease' = [lease EXCEPT ![t] = Earlier(@, z)]
    BY <1>5 DEF LockExclusive
  <2> HIDE DEF r, z
  <2>6. /\ lease' \in [Threads -> Nat] /\ lease'[t] <= z
        /\ \A u \in Threads : lease'[u] <= lease[u]
    BY <1>1, <2>4, <2>5 DEF Earlier
  <2> QED
    BY <2>2, <2>3, <2>5, <2>6, SendLInv DEF z
<1>6. ASSUME BlocklistAdd(t) \/ WaitForLatestOsdmap(t) PROVE LInv'
  <2>1. PICK r \in Requests : Begin(t, r)
    BY <1>1, <1>6, RequestTypes DEF BlocklistAdd, WaitForLatestOsdmap
  <2>2. UNCHANGED <<queue, lease>>
    BY <1>6 DEF BlocklistAdd, WaitForLatestOsdmap
  <2>3. AtHome' /\ InOrder'
    BY <2>2 DEF LInv, AtHome, InOrder
  <2> QED
    BY <1>1, <1>2, <2>1, <2>2, <2>3, BeginLInv
<1> QED
  BY <1>3, <1>4, <1>5, <1>6 DEF Calls

\* A lease is told when nothing of the thread is on its way.
LEMMA ReturnLInv ==
  ASSUME FInv, LInv, NEW t \in Threads, Return(t) \/ GiveUp(t)
  PROVE  LInv'
<1> USE DEF FInv, LInv
<1>1. /\ call' = [call EXCEPT ![t] = NotCalling]
      /\ UNCHANGED <<setup, clock, lock, queue, calls, broken>>
  BY DEF Return, GiveUp, object, history
<1>2. /\ call \in [Threads -> CallRecord] /\ clock \in Nat
      /\ lease \in [Threads -> Nat]
  BY DEF TypeOK, CallRecord
<1>3. NotCalling.stage = "idle" /\ NotCalling.start = 0
  BY DEF NotCalling, Call
<1>4. \/ UNCHANGED lease
      \/ /\ call[t].stage = "answered" /\ call[t].request.kind = "lock" /\ call[t].ret = "OK"
         /\ lease' = [lease EXCEPT ![t] = Told(t)]
  <2>1. call[t].ret \in {"OK", "EEXIST", "ENOENT", "EBUSY", "EIO", "EBLOCKLISTED"}
    BY <1>2 DEF CallRecord
  <2> QED
    BY <2>1 DEF Return, GiveUp, history, Told, CheckErr, Ok
<1>5. Told(t) \in Nat
  BY CallFields
<1>6. \A u \in Threads : u # t => lease'[u] = lease[u] /\ call'[u] = call[u]
  BY <1>1, <1>2, <1>4
<1>7. call'[t].stage = "idle" /\ call'[t].start = 0
  BY <1>1, <1>2, <1>3
<1>8. AtHome' /\ InOrder'
  BY <1>1 DEF AtHome, InOrder
<1>9. ASSUME NEW d \in Clients, NEW i \in DOMAIN queue[d] PROVE FitsNext(queue[d][i])
  <2> DEFINE m == queue[d][i]
  <2>1. m.thread \in Threads /\ Fits(m)
    BY QueueTypes DEF AllFit
  <2>2. CASE m.thread # t
    BY <1>1, <1>6, <2>1, <2>2 DEF Fits, FitsNext, Until, Never
  <2>3. CASE m.thread = t
    <3>1. UNCHANGED lease
      BY <1>4, <2>3 DEF AnsweredIsLast, OsdKinds
    <3> QED
      BY <1>1, <1>7, <2>1, <2>3, <3>1 DEF Fits, FitsNext, Until, Never
  <2> QED
    BY <2>2, <2>3
<1>10. AllFit'
  BY <1>1, <1>9, FitsNextIsFits
<1>11. AnsweredIsLast'
  BY <1>1, <1>6, <1>7 DEF AnsweredIsLast
<1>12. LeaseBacked'
  <2> SUFFICES ASSUME NEW u \in Threads, clock < lease'[u], u \notin broken
               PROVE  lock.holder = u /\ lease'[u] <= lock.expires
    BY <1>1 DEF LeaseBacked
  <2>1. CASE lease'[u] = lease[u]
    BY <2>1 DEF LeaseBacked
  <2>2. CASE lease'[u] # lease[u]
    <3>1. /\ u = t /\ lease'[t] = Told(t)
          /\ call[t].stage = "answered" /\ call[t].request.kind = "lock" /\ call[t].ret = "OK"
      BY <1>2, <1>4, <2>2
    <3> QED
      BY <3>1 DEF AnswerBacked
  <2> QED
    BY <2>1, <2>2
<1>13. AnswerBacked'
  BY <1>1, <1>6, <1>7 DEF AnswerBacked, Told, Until, Never
<1>14. Started'
  BY <1>1, <1>2, <1>6, <1>7 DEF Started
<1> QED
  BY <1>8, <1>10, <1>11, <1>12, <1>13, <1>14

-----------------------------------------------------------------------------
(* What leaves the lock and the leases alone *)

\* What was asked for stays asked for, and what is left of it on its way stays in order.
LEMMA StillFits ==
  ASSUME FInv, LInv, UNCHANGED <<setup, calls, lease>>, clock' \in Nat, clock <= clock',
         \A u \in Threads : /\ call'[u].request = call[u].request /\ call'[u].start = call[u].start
                            /\ call[u].stage = "idle" => call'[u].stage = "idle",
         \A d \in Clients : \A j \in DOMAIN queue'[d] : \E k \in DOMAIN queue[d] :
           /\ queue'[d][j].thread = queue[d][k].thread
           /\ queue'[d][j].no = queue[d][k].no
           /\ queue'[d][j].request = queue[d][k].request
  PROVE  AllFit' /\ AtHome' /\ Started'
<1> USE DEF FInv, LInv
<1>1. setup \in Setups /\ clock \in Nat /\ lease \in [Threads -> Nat]
  BY DEF TypeOK
<1>2. ASSUME NEW d \in Clients, NEW j \in DOMAIN queue'[d] PROVE FitsNext(queue'[d][j])
  <2>1. PICK k \in DOMAIN queue[d] : /\ queue'[d][j].thread = queue[d][k].thread
                                     /\ queue'[d][j].no = queue[d][k].no
                                     /\ queue'[d][j].request = queue[d][k].request
    OBVIOUS
  <2> DEFINE m == queue[d][k]
             n == queue'[d][j]
             dur == m.request.duration
  <2>2. m.thread \in Threads /\ dur \in Nat /\ Fits(m)
    BY QueueTypes DEF AllFit
  <2>3. /\ Until(clock, dur) \in Nat /\ Until(clock', dur) \in Nat
        /\ Until(clock, dur) <= Until(clock', dur) /\ lease[m.thread] \in Nat
    BY <1>1, <2>2, UntilGrows
  <2>4. m.request.kind = "lock" => lease[m.thread] <= Until(clock, dur)
    BY <2>2 DEF Fits
  <2>5. m.request.kind = "lock" => lease[m.thread] <= Until(clock', dur)
    BY <2>3, <2>4
  <2>6. Until(clock', dur) = IF dur = 0 THEN setup'.time + 1 ELSE clock' + dur
    BY DEF Until, Never
  <2>7. n.request.kind = "lock" =>
          lease'[n.thread] <= IF n.request.duration = 0 THEN setup'.time + 1
                              ELSE clock' + n.request.duration
    BY <2>1, <2>5, <2>6
  <2>8. /\ n.no = calls'[n.thread] /\ call'[n.thread].stage # "idle" =>
             call'[n.thread].request = n.request
        /\ n.request.kind = "unlock" => n.request.who = n.thread /\ lease'[n.thread] = 0
    BY <2>1, <2>2 DEF Fits
  <2> QED
    BY <2>7, <2>8 DEF FitsNext
<1>3. AllFit'
  BY <1>2, FitsNextIsFits
<1>4. AtHome'
  BY DEF AtHome
<1>5. Started'
  <2> SUFFICES ASSUME NEW u \in Threads PROVE call'[u].start <= clock'
    BY DEF Started
  <2>1. call[u].start \in Nat /\ call[u].start <= clock
    BY CallFields DEF Started
  <2> QED
    BY <1>1, <2>1
<1> QED
  BY <1>3, <1>4, <1>5

LEMMA KeepsLInv ==
  ASSUME FInv, LInv, UNCHANGED <<setup, calls, lease, lock, broken>>,
         clock' \in Nat, clock <= clock',
         \A u \in Threads : /\ call'[u].request = call[u].request /\ call'[u].start = call[u].start
                            /\ call[u].stage = "idle" => call'[u].stage = "idle"
                            /\ \/ call'[u].stage = call[u].stage /\ call'[u].ret = call[u].ret
                               \/ call[u].request.kind \notin OsdKinds,
         InOrder',
         \A d \in Clients : \A j \in DOMAIN queue'[d] : \E k \in DOMAIN queue[d] :
           /\ queue'[d][j].thread = queue[d][k].thread
           /\ queue'[d][j].no = queue[d][k].no
           /\ queue'[d][j].request = queue[d][k].request
  PROVE  LInv'
<1> USE DEF FInv, LInv
<1>1. AllFit' /\ AtHome' /\ Started'
  BY StillFits
<1>2. clock \in Nat /\ lease \in [Threads -> Nat]
  BY DEF TypeOK
<1>3. AnsweredIsLast'
  BY DEF AnsweredIsLast
<1>4. LeaseBacked'
  <2> SUFFICES ASSUME NEW u \in Threads, clock' < lease[u], u \notin broken
               PROVE  lock.holder = u /\ lease[u] <= lock.expires
    BY DEF LeaseBacked
  <2>1. clock < lease[u]
    BY <1>2
  <2> QED
    BY <2>1 DEF LeaseBacked
<1>5. AnswerBacked'
  <2> DEFINE Z(s, d) == IF d = 0 THEN setup.time + 1 ELSE s + d
  <2>1. \A u \in Threads : Told(u) = Z(call[u].start, call[u].request.duration) /\ Told(u) \in Nat
    BY CallFields DEF Told, Until, Never
  <2> SUFFICES ASSUME NEW u \in Threads, call'[u].stage = "answered",
                      call[u].request.kind = "lock", call'[u].ret = "OK", u \notin broken,
                      clock' < Z(call[u].start, call[u].request.duration)
               PROVE  lock.holder = u /\ Z(call[u].start, call[u].request.duration) <= lock.expires
    BY DEF AnswerBacked, Told, Until, Never
  <2>2. clock' < Told(u) /\ Told(u) \in Nat
    BY <2>1
  <2>3. clock < Told(u)
    BY <1>2, <2>2
  <2>4. call[u].stage = "answered" /\ call[u].ret = "OK"
    BY DEF OsdKinds
  <2> QED
    BY <2>1, <2>3, <2>4 DEF AnswerBacked
<1> QED
  BY <1>1, <1>3, <1>4, <1>5

-----------------------------------------------------------------------------
(* What leaves the lock and the leases alone *)

\* The rest of the queue was sent after its head, if it is of the same thread.
LEMMA TailInOrder ==
  ASSUME FInv, LInv, NEW c \in Clients, queue[c] # <<>>, queue' = [queue EXCEPT ![c] = Tail(@)]
  PROVE  /\ InOrder'
         /\ \A j \in DOMAIN queue'[c] :
              queue'[c][j].thread = queue[c][1].thread => queue[c][1].no < queue'[c][j].no
<1>1. queue \in [Clients -> Seq(Message)] /\ queue[c] \in Seq(Message)
  BY DEF FInv, TypeOK
<1>2. queue'[c] = Tail(queue[c])
  BY <1>1
<1>3. \A d \in Clients : d # c => queue'[d] = queue[d]
  BY <1>1
<1>4. /\ Len(queue[c]) \in Nat /\ Len(queue[c]) > 0 /\ DOMAIN queue[c] = 1 .. Len(queue[c])
      /\ Tail(queue[c]) \in Seq(Message) /\ Len(Tail(queue[c])) = Len(queue[c]) - 1
      /\ \A i \in 1 .. Len(queue[c]) - 1 : Tail(queue[c])[i] = queue[c][i + 1]
  BY <1>1
<1>5. DOMAIN Tail(queue[c]) = 1 .. Len(queue[c]) - 1
  BY <1>4
<1>6. ASSUME NEW j \in DOMAIN queue'[c]
      PROVE  /\ j \in Nat /\ 1 < j + 1 /\ j + 1 \in DOMAIN queue[c]
             /\ queue'[c][j] = queue[c][j + 1]
  <2>1. j \in 1 .. Len(queue[c]) - 1
    BY <1>2, <1>5
  <2>2. j \in Nat /\ 1 < j + 1 /\ j + 1 \in 1 .. Len(queue[c])
    BY <1>4, <2>1
  <2> QED
    BY <1>2, <1>4, <2>1, <2>2
<1>7. InOrder'
  <2> SUFFICES ASSUME NEW d \in Clients, NEW i \in DOMAIN queue'[d], NEW j \in DOMAIN queue'[d],
                      i < j, queue'[d][i].thread = queue'[d][j].thread
               PROVE  queue'[d][i].no < queue'[d][j].no
    BY DEF InOrder
  <2>1. CASE d = c
    <3>1. i + 1 < j + 1
      BY <1>6, <2>1
    <3> QED
      BY <1>6, <2>1, <3>1 DEF LInv, InOrder
  <2>2. CASE d # c
    BY <1>3, <2>2 DEF LInv, InOrder
  <2> QED
    BY <2>1, <2>2
<1>8. 1 \in DOMAIN queue[c]
  BY <1>4
<1> QED
  BY <1>6, <1>7, <1>8 DEF LInv, InOrder

LEMMA LoseLInv ==
  ASSUME FInv, LInv, NEW c \in Clients, Lose(c)
  PROVE  LInv'
<1>1. /\ queue[c] # <<>> /\ queue' = [queue EXCEPT ![c] = Tail(@)]
      /\ UNCHANGED <<setup, clock, lock, call, calls, lease, broken>>
  BY DEF Lose, object, history
<1>2. clock \in Nat /\ TypeOK
  BY DEF FInv, TypeOK
<1>3. InOrder'
  BY <1>1, TailInOrder
<1>4. \A d \in Clients : \A j \in DOMAIN queue'[d] : \E k \in DOMAIN queue[d] :
        queue'[d][j] = queue[d][k]
  BY <1>1, <1>2, TailQueue
<1> QED
  BY <1>1, <1>2, <1>3, <1>4, KeepsLInv

LEMMA MonitorLInv ==
  ASSUME FInv, LInv, NEW t \in Threads, MonAnswers(t)
  PROVE  LInv'
<1>1. /\ UNCHANGED <<setup, clock, lock, queue, calls, lease, broken>>
      /\ call[t].stage = "sent" /\ call[t].request.kind \notin OsdKinds
  BY DEF MonAnswers, MonBlocklists, MonTellsLatest, MonRefuses, object, history, OsdKinds
<1>2. call \in [Threads -> CallRecord] /\ clock \in Nat
  BY DEF FInv, TypeOK, CallRecord
<1>3. \/ call' = [call EXCEPT ![t] = [call[t] EXCEPT !.stage = "answered"]]
      \/ call' = [call EXCEPT ![t] = [call[t] EXCEPT !.stage = "answered", !.epoch = Latest]]
      \/ call' = [call EXCEPT ![t] = [call[t] EXCEPT !.stage = "answered", !.ret = "EIO"]]
  BY <1>2 DEF MonAnswers, MonBlocklists, MonTellsLatest, MonRefuses
<1>4. /\ call'[t].request = call[t].request /\ call'[t].start = call[t].start
      /\ \A u \in Threads : u # t => call'[u] = call[u]
  BY <1>2, <1>3 DEF CallRecord
<1>5. InOrder'
  BY <1>1 DEF LInv, InOrder
<1> QED
  BY <1>1, <1>2, <1>4, <1>5, KeepsLInv

LEMMA BlocklistExpiresLInv ==
  ASSUME FInv, LInv, NEW x \in Clients, BlocklistExpires(x)
  PROVE  LInv'
<1>1. /\ UNCHANGED <<setup, clock, lock, call, calls, lease, broken>>
      /\ queue' = [d \in Clients |-> [i \in DOMAIN queue[d] |-> [queue[d][i] EXCEPT !.behind = @ \ {x}]]]
  BY DEF BlocklistExpires, object
<1>2. clock \in Nat
  BY DEF FInv, TypeOK
<1>3. ASSUME NEW d \in Clients
      PROVE  /\ DOMAIN queue'[d] = DOMAIN queue[d]
             /\ \A i \in DOMAIN queue[d] : /\ queue'[d][i].thread = queue[d][i].thread
                                           /\ queue'[d][i].no = queue[d][i].no
                                           /\ queue'[d][i].request = queue[d][i].request
  <2>1. queue'[d] = [i \in DOMAIN queue[d] |-> [queue[d][i] EXCEPT !.behind = @ \ {x}]]
    BY <1>1
  <2>2. ASSUME NEW i \in DOMAIN queue[d]
        PROVE  /\ queue'[d][i].thread = queue[d][i].thread
               /\ queue'[d][i].no = queue[d][i].no
               /\ queue'[d][i].request = queue[d][i].request
    <3>1. queue[d][i] \in Message
      BY DEF FInv, TypeOK
    <3>2. queue'[d][i] = [queue[d][i] EXCEPT !.behind = @ \ {x}]
      BY <2>1
    <3> QED
      BY <3>1, <3>2 DEF Message
  <2> QED
    BY <2>1, <2>2
<1>4. InOrder'
  BY <1>3 DEF LInv, InOrder
<1> QED
  BY <1>1, <1>2, <1>3, <1>4, KeepsLInv

LEMMA WorldLInv ==
  ASSUME FInv, LInv,
         Tick \/ OsdTakesMap \/ \E c \in Clients : ClientTakesMap(c) \/ Disconnect(c)
  PROVE  LInv'
<1>1. UNCHANGED <<setup, lock, queue, call, calls, lease, broken>>
  BY DEF Tick, OsdTakesMap, ClientTakesMap, Disconnect, object, history
<1>2. clock \in Nat /\ clock' \in Nat /\ clock <= clock'
  BY DEF Tick, OsdTakesMap, ClientTakesMap, Disconnect, FInv, TypeOK
<1>3. InOrder'
  BY <1>1 DEF LInv, InOrder
<1> QED
  BY <1>1, <1>2, <1>3, KeepsLInv

-----------------------------------------------------------------------------
(* Execute *)

\* The lock of a thread that no other has broken outlasts what others do to it, and what the
\* thread does other than locking and unlocking.
LEMMA LockOutlasts ==
  ASSUME FInv, NEW m \in Message, Fits(m),
         Grant(m) \/ Release(m) \/ List(m) \/ Change(m) \/ Reject(m),
         NEW u \in Threads, u \notin broken',
         u # m.thread \/ m.request.kind \notin {"lock", "unlock"},
         u \notin broken => lock.holder = u /\ clock < lock.expires
  PROVE  u \notin broken /\ UNCHANGED lock
<1>1. Held <=> lock.holder # NoThread /\ clock < lock.expires
  BY DEF Held
<1>2. u # NoThread
  BY FencingAssumption
<1>3. CASE Grant(m)
  <2>1. u # m.thread /\ u \notin broken
    BY <1>3 DEF Grant, FInv, TypeOK
  <2>2. Held /\ lock.holder # m.thread
    BY <1>1, <1>2, <2>1
  <2>3. LockRet(m.thread, m.request.flag) # "OK"
    BY <2>2 DEF LockRet
  <2> QED
    BY <1>3, <2>1, <2>3 DEF Grant
<1>4. CASE Release(m)
  <2>1. u \notin broken
    BY <1>4 DEF Release
  <2>2. Held /\ lock.holder = u
    BY <1>1, <1>2, <2>1
  <2>3. ~Holds(m.request.who)
    <3> SUFFICES ASSUME m.request.who = u PROVE FALSE
      BY <2>2 DEF Holds
    <3>1. m.request.kind = "break_lock"
      BY <1>4 DEF Release, Fits
    <3> QED
      BY <1>4, <2>2, <3>1 DEF Release, Holds
  <2> QED
    BY <1>4, <2>1, <2>3 DEF Release
<1>5. CASE List(m) \/ Change(m) \/ Reject(m)
  BY <1>5 DEF List, Change, Reject, object
<1> QED
  BY <1>3, <1>4, <1>5

LEMMA ExecuteLInv ==
  ASSUME FInv, LInv, NEW c \in Clients, Execute(c)
  PROVE  LInv'
<1> USE DEF FInv, LInv
<1> DEFINE m == Head(queue[c])
<1>1. /\ queue[c] # <<>>
      /\ Grant(m) \/ Release(m) \/ List(m) \/ Change(m) \/ Reject(m)
      /\ queue' = [queue EXCEPT ![c] = Tail(@)]
      /\ UNCHANGED <<setup, clock, calls, lease>>
  BY DEF Execute
<1>2. m \in Message /\ m = queue[c][1] /\ 1 \in DOMAIN queue[c]
  BY <1>1, TailQueue
<1>3. /\ m.thread \in Threads /\ m.no \in Nat /\ m.request.duration \in Nat /\ Fits(m)
      /\ ClientOf[m.thread] = c
  BY <1>2, QueueTypes DEF AllFit, AtHome
<1>4. /\ call \in [Threads -> CallRecord] /\ clock \in Nat /\ lease \in [Threads -> Nat]
      /\ lock.expires \in Nat
  BY DEF TypeOK, CallRecord
<1>5. PICK ret \in Rets : /\ Answer(m, ret)
                          /\ ret = "OK" /\ m.request.kind = "lock" =>
                               Grant(m) /\ LockRet(m.thread, m.request.flag) = "OK"
  <2>1. CASE Grant(m)
    BY <2>1 DEF Grant, LockRet, Rets
  <2>2. CASE Release(m)
    BY <2>2 DEF Release, Rets
  <2>3. CASE List(m) \/ Change(m) \/ Reject(m)
    BY <2>3 DEF List, Change, Reject, Rets
  <2> QED
    BY <1>1, <2>1, <2>2, <2>3
<1> HIDE DEF m
<1>6. ASSUME NEW u \in Threads
      PROVE  /\ call'[u].request = call[u].request /\ call'[u].start = call[u].start
             /\ call[u].stage = "idle" => call'[u].stage = "idle"
             /\ \/ call'[u] = call[u]
                \/ /\ u = m.thread /\ call[u].stage = "sent" /\ calls[u] = m.no
                   /\ call'[u].ret = ret
  <2>1. CASE call' = call
    BY <2>1
  <2>2. CASE call' # call
    <3>1. /\ call[m.thread].stage = "sent" /\ calls[m.thread] = m.no
          /\ call' = [call EXCEPT ![m.thread].stage = "answered", ![m.thread].ret = ret]
      BY <1>5, <2>2 DEF Answer
    <3>2. call' = [call EXCEPT ![m.thread] = [call[m.thread] EXCEPT !.stage = "answered", !.ret = ret]]
      BY <1>3, <1>4, <3>1
    <3> QED
      BY <1>3, <1>4, <3>1, <3>2 DEF CallRecord
  <2> QED
    BY <2>1, <2>2
<1>7. \A d \in Clients : \A j \in DOMAIN queue'[d] : \E k \in DOMAIN queue[d] :
        queue'[d][j] = queue[d][k]
  BY <1>1, TailQueue
<1>8. InOrder' /\ \A j \in DOMAIN queue'[c] : queue'[c][j].thread = m.thread => m.no < queue'[c][j].no
  BY <1>1, <1>2, TailInOrder
<1>9. AllFit' /\ AtHome' /\ Started'
  <2>1. clock' \in Nat /\ clock <= clock'
    BY <1>1, <1>4
  <2>2. \A u \in Threads : /\ call'[u].request = call[u].request /\ call'[u].start = call[u].start
                           /\ call[u].stage = "idle" => call'[u].stage = "idle"
    BY <1>6
  <2>3. \A d \in Clients : \A j \in DOMAIN queue'[d] : \E k \in DOMAIN queue[d] :
          /\ queue'[d][j].thread = queue[d][k].thread
          /\ queue'[d][j].no = queue[d][k].no
          /\ queue'[d][j].request = queue[d][k].request
    <3> SUFFICES ASSUME NEW d \in Clients, NEW j \in DOMAIN queue'[d]
                 PROVE  \E k \in DOMAIN queue[d] :
                          /\ queue'[d][j].thread = queue[d][k].thread
                          /\ queue'[d][j].no = queue[d][k].no
                          /\ queue'[d][j].request = queue[d][k].request
      OBVIOUS
    <3>1. PICK k \in DOMAIN queue[d] : queue'[d][j] = queue[d][k]
      BY <1>7
    <3> QED
      BY <3>1
  <2> HIDE DEF FInv, LInv
  <2> QED
    BY <1>1, <2>1, <2>2, <2>3, StillFits
<1>10. AnsweredIsLast'
  <2> SUFFICES ASSUME NEW u \in Threads, call'[u].stage = "answered",
                      call'[u].request.kind \in OsdKinds,
                      NEW d \in Clients, NEW j \in DOMAIN queue'[d], queue'[d][j].thread = u
               PROVE  FALSE
    BY DEF AnsweredIsLast
  <2>1. PICK k \in DOMAIN queue[d] : queue'[d][j] = queue[d][k]
    BY <1>7
  <2>2. CASE call'[u] = call[u]
    BY <2>1, <2>2 DEF AnsweredIsLast
  <2>3. CASE call'[u] # call[u]
    <3>1. u = m.thread /\ calls[u] = m.no
      BY <1>6, <2>3
    <3>2. d = c
      BY <1>3, <2>1, <3>1 DEF AtHome
    <3>3. m.no < queue'[d][j].no
      BY <1>8, <3>1, <3>2
    <3>4. queue[d][k].no <= calls[u] /\ queue[d][k].no \in Nat
      BY <2>1, QueueTypes DEF MessagesOwn, MessageOwn
    <3> QED
      BY <1>3, <2>1, <3>1, <3>3, <3>4
  <2> QED
    BY <2>2, <2>3
<1>11. ASSUME Grant(m), LockRet(m.thread, m.request.flag) = "OK"
       PROVE  /\ lock'.holder = m.thread
              /\ lock'.expires = Until(clock, m.request.duration)
              /\ lock'.expires \in Nat
  <2>1. Until(clock, m.request.duration) \in Nat
    BY <1>3, <1>4, UntilType DEF TypeOK
  <2>2. lock' = [holder |-> m.thread, expires |-> Expires(m), grant |-> granted']
    BY <1>11 DEF Grant
  <2>3. Expires(m) = Until(clock, m.request.duration)
    BY DEF Expires, Sent
  <2> QED
    BY <2>1, <2>2, <2>3
<1>12. LeaseBacked'
  <2> SUFFICES ASSUME NEW u \in Threads, clock < lease[u], u \notin broken'
               PROVE  lock'.holder = u /\ lease[u] <= lock'.expires
    BY <1>1 DEF LeaseBacked
  <2>1. u \notin broken => lock.holder = u /\ lease[u] <= lock.expires /\ clock < lock.expires
    BY <1>4 DEF LeaseBacked
  <2>2. CASE u # m.thread \/ m.request.kind \notin {"lock", "unlock"}
    <3>1. u \notin broken /\ UNCHANGED lock
      BY <1>1, <1>2, <1>3, <2>1, <2>2, LockOutlasts
    <3> QED
      BY <2>1, <3>1
  <2>3. CASE u = m.thread /\ m.request.kind = "unlock"
    BY <1>3, <1>4, <2>3 DEF Fits
  <2>4. CASE u = m.thread /\ m.request.kind = "lock"
    <3>1. CASE Grant(m) /\ LockRet(m.thread, m.request.flag) = "OK"
      BY <1>3, <1>11, <2>4, <3>1 DEF Fits
    <3>2. CASE ~(Grant(m) /\ LockRet(m.thread, m.request.flag) = "OK")
      <4>1. UNCHANGED <<lock, broken>>
        BY <1>1, <2>4, <3>2 DEF Grant, Release, List, Change, Reject, object
      <4> QED
        BY <2>1, <4>1
    <3> QED
      BY <3>1, <3>2
  <2> QED
    BY <2>2, <2>3, <2>4
<1>13. AnswerBacked'
  <2> SUFFICES ASSUME NEW u \in Threads, call'[u].stage = "answered",
                      call'[u].request.kind = "lock", call'[u].ret = "OK",
                      u \notin broken', clock < Told(u)
               PROVE  lock'.holder = u /\ Told(u) <= lock'.expires
    BY <1>1, <1>6 DEF AnswerBacked, Told, Until, Never
  <2>1. call[u].request.kind = "lock" /\ Told(u) \in Nat
    BY <1>6, CallFields
  <2>2. CASE call'[u] = call[u]
    <3>1. u # m.thread
      BY <1>2, <2>1, <2>2 DEF AnsweredIsLast, OsdKinds
    <3>2. u \notin broken => lock.holder = u /\ Told(u) <= lock.expires /\ clock < lock.expires
      BY <1>4, <2>1, <2>2 DEF AnswerBacked
    <3>3. u \notin broken /\ UNCHANGED lock
      BY <1>1, <1>2, <1>3, <3>1, <3>2, LockOutlasts
    <3> QED
      BY <3>2, <3>3
  <2>3. CASE call'[u] # call[u]
    <3>1. u = m.thread /\ call[u].stage = "sent" /\ calls[u] = m.no /\ ret = "OK"
      BY <1>6, <2>3
    <3>2. call[u].request = m.request
      BY <1>3, <3>1 DEF Fits
    <3>3. Grant(m) /\ LockRet(m.thread, m.request.flag) = "OK"
      BY <1>5, <2>1, <3>1, <3>2
    <3>4. Told(u) <= Until(clock, m.request.duration)
      BY <1>3, <1>4, <3>2, CallFields, UntilGrows DEF Told, Started, TypeOK
    <3> QED
      BY <1>11, <3>1, <3>3, <3>4
  <2> QED
    BY <2>2, <2>3
<1> QED
  BY <1>8, <1>9, <1>10, <1>12, <1>13

-----------------------------------------------------------------------------

LEMMA InitLInv == Init => LInv
<1> SUFFICES ASSUME Init PROVE LInv
  OBVIOUS
<1>1. /\ \A t \in Threads : call[t].stage = "idle" /\ call[t].start = 0 /\ lease[t] = 0
      /\ clock = 0
  BY DEF Init, NotCalling, Call
<1>2. \A d \in Clients : DOMAIN queue[d] = {}
  BY DEF Init
<1> QED
  BY <1>1, <1>2 DEF LInv, AtHome, InOrder, AllFit, AnsweredIsLast, LeaseBacked, AnswerBacked, Started

LEMMA NextLInv == FInv /\ LInv /\ [Next]_vars => LInv'
<1> SUFFICES ASSUME FInv, LInv, [Next]_vars PROVE LInv'
  OBVIOUS
<1>1. CASE UNCHANGED vars
  <2>1. UNCHANGED <<setup, clock, lock, queue, call, calls, lease, broken>>
    BY <1>1 DEF vars, object, history
  <2> QED
    BY <2>1 DEF LInv, AtHome, InOrder, AllFit, Fits, AnsweredIsLast, LeaseBacked, AnswerBacked,
       Started, Told, Until, Never
<1>2. ASSUME NEW t \in Threads, Calls(t) \/ Return(t) \/ GiveUp(t) \/ MonAnswers(t) PROVE LInv'
  BY <1>2, CallsLInv, ReturnLInv, MonitorLInv
<1>3. ASSUME NEW c \in Clients,
             Execute(c) \/ Lose(c) \/ BlocklistExpires(c) \/ ClientTakesMap(c) \/ Disconnect(c)
      PROVE  LInv'
  BY <1>3, ExecuteLInv, LoseLInv, BlocklistExpiresLInv, WorldLInv
<1>4. CASE Tick \/ OsdTakesMap
  BY <1>4, WorldLInv
<1>5. CASE Terminated
  BY <1>1, <1>5 DEF Terminated
<1> QED
  BY <1>1, <1>2, <1>3, <1>4, <1>5 DEF Next

\* What lock_exclusive has promised holds, whatever calls are given up and whenever what they
\* asked for is done, until the thread unlocks, asks for less or is broken.
THEOREM LeasesHold == Spec => []LeaseHolds
<1>1. ASSUME FInv, LInv PROVE LeaseHolds
  <2> SUFFICES ASSUME NEW t \in Threads, clock < lease[t], t \notin broken
               PROVE  Held /\ lock.holder = t
    BY DEF LeaseHolds
  <2>1. lock.holder = t /\ lease[t] <= lock.expires
    BY <1>1 DEF LInv, LeaseBacked
  <2>2. clock \in Nat /\ lease[t] \in Nat /\ lock.expires \in Nat
    BY <1>1 DEF FInv, TypeOK
  <2> QED
    BY <2>1, <2>2, FencingAssumption DEF Held
<1> QED
  BY <1>1, InitLInv, NextLInv, SpecFInv, PTL DEF Spec

-----------------------------------------------------------------------------
(* Who is left behind, and what is broken: the inductive invariant *)

\* The operation of a call that waits for the OSD is on its way, ...
Queued(t) ==
  \E i \in DOMAIN queue[ClientOf[t]] :
    queue[ClientOf[t]][i].thread = t /\ queue[ClientOf[t]][i].no = calls[t]
SentQueued ==
  \A t \in Threads :
    call[t].stage = "sent" /\ call[t].request.kind \in OsdKinds => Queued(t)

\* ... the OSD keeps no watch of a client that its map blocklists, ...
WatchOutside == \A c \in Clients : watch[c] = "watching" => c \notin maps[osdEpoch]

\* ... and the one that was fenced before it was listed stays out, so that it does not take the
\* lock again.
SeenFenced ==
  \A u \in Threads : seen[u].behind =>
    /\ seen[u].holder \in Threads
    /\ KnownFrom(ClientOf[seen[u].holder], osdEpoch)
    /\ lock.holder = seen[u].holder => lock.grant = seen[u].grant

RInv == SentQueued /\ WatchOutside /\ SeenFenced

-----------------------------------------------------------------------------

\* Only the first operation of the client leaves the queues.
LEMMA RestQueued ==
  ASSUME TypeOK, NEW c \in Clients, queue[c] # <<>>, queue' = [queue EXCEPT ![c] = Tail(@)],
         NEW d \in Clients, NEW i \in DOMAIN queue[d], d # c \/ i # 1
  PROVE  \E j \in DOMAIN queue'[d] : queue'[d][j] = queue[d][i]
<1>1. queue \in [Clients -> Seq(Message)]
  BY DEF TypeOK
<1>2. CASE d # c
  <2>1. queue'[d] = queue[d]
    BY <1>1, <1>2
  <2> QED
    BY <2>1
<1>3. CASE d = c
  <2>1. queue[c] \in Seq(Message) /\ queue'[c] = Tail(queue[c]) /\ i # 1
    BY <1>1, <1>3
  <2>2. /\ i \in 2 .. Len(queue[c]) /\ Len(queue[c]) \in Nat
        /\ Tail(queue[c]) \in Seq(Message) /\ Len(Tail(queue[c])) = Len(queue[c]) - 1
        /\ \A k \in 1 .. Len(queue[c]) - 1 : Tail(queue[c])[k] = queue[c][k + 1]
    BY <1>3, <2>1
  <2>3. DOMAIN Tail(queue[c]) = 1 .. Len(queue[c]) - 1
    BY <2>2
  <2>4. i - 1 \in 1 .. Len(queue[c]) - 1 /\ (i - 1) + 1 = i
    BY <2>2
  <2>5. Tail(queue[c])[i - 1] = queue[c][i]
    BY <2>2, <2>4
  <2> QED
    BY <1>3, <2>1, <2>3, <2>4, <2>5
<1> QED
  BY <1>2, <1>3

\* What begins no call and takes no operation from a queue leaves the operations of calls there.
LEMMA StillQueued ==
  ASSUME SentQueued, UNCHANGED calls,
         \A t \in Threads : call'[t].stage = "sent" => call[t].stage = "sent",
         \A t \in Threads : call'[t].stage = "sent" => call'[t].request = call[t].request,
         \A d \in Clients : \A i \in DOMAIN queue[d] :
           /\ i \in DOMAIN queue'[d]
           /\ queue'[d][i].thread = queue[d][i].thread /\ queue'[d][i].no = queue[d][i].no
  PROVE  SentQueued'
<1> SUFFICES ASSUME NEW t \in Threads, call'[t].stage = "sent", call'[t].request.kind \in OsdKinds
             PROVE  \E i \in DOMAIN queue'[ClientOf[t]] :
                      /\ queue'[ClientOf[t]][i].thread = t
                      /\ queue'[ClientOf[t]][i].no = calls[t]
  BY DEF SentQueued, Queued
<1>1. PICK i \in DOMAIN queue[ClientOf[t]] :
        queue[ClientOf[t]][i].thread = t /\ queue[ClientOf[t]][i].no = calls[t]
  BY DEF SentQueued, Queued
<1>2. ClientOf[t] \in Clients
  BY FencingAssumption
<1> QED
  BY <1>1, <1>2

\* A newer map of the OSD, or none, leaves what is known of those that were seen.
LEMMA StillFenced ==
  ASSUME FInv, SeenFenced, UNCHANGED <<maps, lock, seen>>,
         osdEpoch' \in 1 .. Latest, osdEpoch <= osdEpoch'
  PROVE  SeenFenced'
<1>1. osdEpoch \in Nat /\ Latest \in Nat
  BY DEF FInv, TypeOK, Latest
<1>2. \A e \in osdEpoch' .. Latest : e \in osdEpoch .. Latest
  BY <1>1
<1> QED
  BY <1>2 DEF SeenFenced, KnownFrom, Latest

LEMMA SendRInv ==
  ASSUME FInv, RInv, NEW t \in Threads, NEW r, Send(t, r)
  PROVE  RInv'
<1> DEFINE c == ClientOf[t]
           m == [thread |-> t, no |-> calls[t] + 1, request |-> r,
                 stamp |-> mapOf[c], behind |-> barrier[t]]
<1>1. /\ UNCHANGED <<maps, osdEpoch, lock, watch, seen>>
      /\ calls' = [calls EXCEPT ![t] = @ + 1]
      /\ call' = [call EXCEPT ![t] = Call(r, "sent")]
      /\ queue' = [queue EXCEPT ![c] = Append(@, m)]
  BY DEF Send, Begin, object
<1>2. /\ queue \in [Clients -> Seq(Message)] /\ calls \in [Threads -> Nat]
      /\ DOMAIN call = Threads /\ c \in Clients
  BY FencingAssumption DEF FInv, TypeOK
<1>3. m.thread = t /\ m.no = calls[t] + 1
  OBVIOUS
<1> HIDE DEF m
<1>4. queue[c] \in Seq(Message) /\ Len(queue[c]) \in Nat /\ DOMAIN queue[c] = 1 .. Len(queue[c])
  BY <1>2
<1>5. /\ queue'[c] = Append(queue[c], m)
      /\ \A d \in Clients : d # c => queue'[d] = queue[d]
  BY <1>1, <1>2
<1>6. /\ DOMAIN queue'[c] = 1 .. Len(queue[c]) + 1
      /\ queue'[c][Len(queue[c]) + 1] = m
      /\ \A i \in 1 .. Len(queue[c]) : queue'[c][i] = queue[c][i]
  BY <1>4, <1>5
<1>7. SentQueued'
  <2> SUFFICES ASSUME NEW u \in Threads, call'[u].stage = "sent",
                      call'[u].request.kind \in OsdKinds
               PROVE  \E i \in DOMAIN queue'[ClientOf[u]] :
                        /\ queue'[ClientOf[u]][i].thread = u
                        /\ queue'[ClientOf[u]][i].no = calls'[u]
    BY DEF SentQueued, Queued
  <2>1. CASE u = t
    <3>1. Len(queue[c]) + 1 \in DOMAIN queue'[c] /\ calls'[u] = calls[t] + 1
      BY <1>1, <1>2, <1>4, <1>6, <2>1
    <3> QED
      BY <1>3, <1>6, <2>1, <3>1
  <2>2. CASE u # t
    <3>1. call'[u] = call[u] /\ calls'[u] = calls[u] /\ ClientOf[u] \in Clients
      BY <1>1, <1>2, <2>2, FencingAssumption
    <3>2. PICK i \in DOMAIN queue[ClientOf[u]] :
            queue[ClientOf[u]][i].thread = u /\ queue[ClientOf[u]][i].no = calls[u]
      BY <3>1 DEF RInv, SentQueued, Queued
    <3>3. i \in DOMAIN queue'[ClientOf[u]] /\ queue'[ClientOf[u]][i] = queue[ClientOf[u]][i]
      <4>1. CASE ClientOf[u] = c
        <5>1. i \in 1 .. Len(queue[c])
          BY <1>4, <4>1
        <5>2. i \in DOMAIN queue'[c] /\ queue'[c][i] = queue[c][i]
          BY <1>4, <1>6, <5>1
        <5> QED
          BY <4>1, <5>2
      <4>2. CASE ClientOf[u] # c
        <5>1. queue'[ClientOf[u]] = queue[ClientOf[u]]
          BY <1>5, <3>1, <4>2
        <5> QED
          BY <5>1
      <4> QED
        BY <4>1, <4>2
    <3> QED
      BY <3>1, <3>2, <3>3
  <2> QED
    BY <2>1, <2>2
<1> QED
  BY <1>1, <1>7 DEF RInv, WatchOutside, SeenFenced, KnownFrom, Latest

\* A call of the monitors puts nothing on its way to the OSD.
LEMMA AskRInv ==
  ASSUME FInv, RInv, NEW t \in Threads, NEW r, r.kind \notin OsdKinds, Begin(t, r), UNCHANGED queue
  PROVE  RInv'
<1>1. /\ UNCHANGED <<maps, osdEpoch, lock, watch, seen>>
      /\ calls' = [calls EXCEPT ![t] = @ + 1]
      /\ call' = [call EXCEPT ![t] = Call(r, "sent")]
      /\ calls \in [Threads -> Nat] /\ DOMAIN call = Threads
  BY DEF Begin, object, FInv, TypeOK
<1>2. Call(r, "sent").request = r
  BY DEF Call
<1>3. SentQueued'
  BY <1>1, <1>2 DEF RInv, SentQueued, Queued
<1> QED
  BY <1>1, <1>3 DEF RInv, WatchOutside, SeenFenced, KnownFrom, Latest

LEMMA CallsRInv ==
  ASSUME FInv, RInv, NEW t \in Threads, Calls(t)
  PROVE  RInv'
<1>1. CASE BlocklistAdd(t) \/ WaitForLatestOsdmap(t)
  BY <1>1, AskRInv DEF BlocklistAdd, WaitForLatestOsdmap, Request, OsdKinds
<1>2. CASE ~(BlocklistAdd(t) \/ WaitForLatestOsdmap(t))
  BY <1>2, SendRInv DEF Calls, Write, Unlock, BreakLock, ListLockers, Watch, LockExclusive
<1> QED
  BY <1>1, <1>2

\* The end of a call, and an answer of the monitors
LEMMA EndRInv ==
  ASSUME FInv, RInv, NEW t \in Threads, Return(t) \/ GiveUp(t)
  PROVE  RInv'
<1>1. /\ UNCHANGED <<maps, osdEpoch, lock, watch, seen, queue, calls>>
      /\ call' = [call EXCEPT ![t] = NotCalling]
  BY DEF Return, GiveUp, object
<1>2. NotCalling.stage = "idle" /\ DOMAIN call = Threads
  BY DEF NotCalling, Call, FInv, TypeOK
<1>3. \A u \in Threads : call'[u].stage = "sent" => call'[u] = call[u]
  BY <1>1, <1>2
<1>4. SentQueued'
  BY <1>1, <1>3, StillQueued DEF RInv
<1> QED
  BY <1>1, <1>4 DEF RInv, WatchOutside, SeenFenced, KnownFrom, Latest

LEMMA MonitorRInv ==
  ASSUME FInv, RInv, NEW t \in Threads, MonAnswers(t)
  PROVE  RInv'
<1> USE DEF FInv, RInv
<1>1. /\ UNCHANGED <<osdEpoch, lock, watch, seen, queue, calls>>
      /\ call[t].stage = "sent" /\ call[t].request.kind \notin OsdKinds
  BY DEF MonAnswers, MonBlocklists, MonTellsLatest, MonRefuses, object, history, OsdKinds
<1>2. call \in [Threads -> CallRecord]
  BY DEF TypeOK, CallRecord
<1>3. \/ call' = [call EXCEPT ![t] = [call[t] EXCEPT !.stage = "answered"]]
      \/ call' = [call EXCEPT ![t] = [call[t] EXCEPT !.stage = "answered", !.epoch = Latest]]
      \/ call' = [call EXCEPT ![t] = [call[t] EXCEPT !.stage = "answered", !.ret = "EIO"]]
  BY <1>2 DEF MonAnswers, MonBlocklists, MonTellsLatest, MonRefuses
<1>4. \A u \in Threads : call'[u].stage = "sent" => call'[u] = call[u]
  BY <1>2, <1>3 DEF CallRecord
<1>5. SentQueued'
  BY <1>1, <1>4, StillQueued
<1>6. CASE UNCHANGED maps
  BY <1>1, <1>5, <1>6 DEF WatchOutside, SeenFenced, KnownFrom, Latest
<1>7. CASE MonBlocklists(t)
  <2> DEFINE s == maps[Latest] \cup {ClientOf[call[t].request.who]}
  <2>1. call[t].request \in Requests /\ call[t].request.kind = "blocklist_add"
    BY <1>7, CallFields DEF MonBlocklists
  <2>2. ClientOf[call[t].request.who] \in Clients
    BY <2>1, FencingAssumption DEF Requests
  <2>3. Latest \in 1 .. Latest /\ maps \in Seq(SUBSET Clients) /\ osdEpoch \in 1 .. Latest
    BY DEF TypeOK, Latest
  <2>4. s \in SUBSET Clients /\ maps' = Append(maps, s)
    BY <1>7, <2>2, <2>3 DEF MonBlocklists, Latest
  <2> HIDE DEF s
  <2>5. maps'[osdEpoch] = maps[osdEpoch]
    BY <2>3, <2>4, MapsAppend
  <2>6. WatchOutside'
    BY <1>1, <2>5 DEF WatchOutside
  <2>7. SeenFenced'
    <3> SUFFICES ASSUME NEW u \in Threads, seen[u].behind
                 PROVE  \A e \in osdEpoch .. Latest' : ClientOf[seen[u].holder] \in maps'[e]
      BY <1>1 DEF SeenFenced, KnownFrom, Latest
    <3>1. KnownFrom(ClientOf[seen[u].holder], osdEpoch)
      BY DEF SeenFenced
    <3>2. ClientOf[seen[u].holder] \in s
      BY <2>3, <3>1, KnownNow DEF s
    <3> QED
      BY <2>3, <2>4, <3>1, <3>2, KnownGrows
  <2> QED
    BY <1>5, <2>6, <2>7
<1> QED
  BY <1>6, <1>7 DEF MonAnswers, MonTellsLatest, MonRefuses

LEMMA BlocklistExpiresRInv ==
  ASSUME FInv, RInv, NEW x \in Clients, BlocklistExpires(x)
  PROVE  RInv'
<1> USE DEF FInv, RInv
<1> DEFINE s == maps[Latest] \ {x}
<1>1. /\ UNCHANGED <<osdEpoch, lock, watch, call, calls>>
      /\ queue' = [d \in Clients |-> [i \in DOMAIN queue[d] |-> [queue[d][i] EXCEPT !.behind = @ \ {x}]]]
      /\ seen' = [t \in Threads |->
           IF seen[t].holder # NoThread /\ ClientOf[seen[t].holder] = x
           THEN [seen[t] EXCEPT !.behind = FALSE] ELSE seen[t]]
      /\ maps' = Append(maps, s)
  BY DEF BlocklistExpires, object
<1>2. maps \in Seq(SUBSET Clients) /\ Latest \in 1 .. Latest /\ osdEpoch \in 1 .. Latest
  BY DEF TypeOK, Latest
<1>3. s \in SUBSET Clients
  BY <1>2 DEF Latest
<1> HIDE DEF s
<1>4. ASSUME NEW d \in Clients, NEW i \in DOMAIN queue[d]
      PROVE  /\ i \in DOMAIN queue'[d]
             /\ queue'[d][i].thread = queue[d][i].thread /\ queue'[d][i].no = queue[d][i].no
  <2>1. queue'[d] = [j \in DOMAIN queue[d] |-> [queue[d][j] EXCEPT !.behind = @ \ {x}]]
    BY <1>1
  <2>2. queue[d][i] \in Message
    BY DEF TypeOK
  <2>3. queue'[d][i] = [queue[d][i] EXCEPT !.behind = @ \ {x}]
    BY <2>1
  <2> QED
    BY <2>1, <2>2, <2>3 DEF Message
<1>5. SentQueued'
  BY <1>1, <1>4, StillQueued
<1>6. WatchOutside'
  <2>1. maps'[osdEpoch] = maps[osdEpoch]
    BY <1>1, <1>2, <1>3, MapsAppend
  <2> QED
    BY <1>1, <2>1 DEF WatchOutside
<1>7. SeenFenced'
  <2> SUFFICES ASSUME NEW u \in Threads, seen'[u].behind
               PROVE  /\ seen'[u].holder \in Threads
                      /\ \A e \in osdEpoch .. Latest' : ClientOf[seen'[u].holder] \in maps'[e]
                      /\ lock.holder = seen'[u].holder => lock.grant = seen'[u].grant
    BY <1>1 DEF SeenFenced, KnownFrom, Latest
  <2>1. seen[u] \in [holder : Threads \cup {NoThread}, grant : Nat, behind : BOOLEAN]
    BY DEF TypeOK
  <2>2. seen'[u] = seen[u] /\ ~(seen[u].holder # NoThread /\ ClientOf[seen[u].holder] = x)
    BY <1>1, <2>1
  <2>3. /\ seen[u].holder \in Threads
        /\ KnownFrom(ClientOf[seen[u].holder], osdEpoch)
        /\ lock.holder = seen[u].holder => lock.grant = seen[u].grant
    BY <2>2 DEF SeenFenced
  <2>4. ClientOf[seen[u].holder] \in s
    BY <1>2, <2>2, <2>3, KnownNow, FencingAssumption DEF s
  <2> QED
    BY <1>1, <1>2, <1>3, <2>2, <2>3, <2>4, KnownGrows
<1> QED
  BY <1>5, <1>6, <1>7

LEMMA WorldRInv ==
  ASSUME FInv, RInv,
         Tick \/ OsdTakesMap \/ \E c \in Clients : ClientTakesMap(c) \/ Disconnect(c)
  PROVE  RInv'
<1> USE DEF FInv, RInv
<1>1. UNCHANGED <<maps, lock, seen, queue, call, calls>>
  BY DEF Tick, OsdTakesMap, ClientTakesMap, Disconnect, object
<1>2. SentQueued'
  BY <1>1 DEF SentQueued, Queued
<1>3. CASE OsdTakesMap
  <2>1. PICK e \in osdEpoch + 1 .. Latest : osdEpoch' = e /\ watch' = WatchesUnder(e)
    BY <1>3 DEF OsdTakesMap
  <2>2. osdEpoch' \in 1 .. Latest /\ osdEpoch <= osdEpoch'
    BY <2>1 DEF TypeOK, Latest
  <2>3. SeenFenced'
    BY <1>1, <2>2, StillFenced
  <2>4. WatchOutside'
    BY <1>1, <2>1 DEF WatchOutside, WatchesUnder
  <2> QED
    BY <1>2, <2>3, <2>4
<1>4. CASE UNCHANGED osdEpoch
  <2>1. SeenFenced'
    BY <1>1, <1>4 DEF SeenFenced, KnownFrom, Latest
  <2>2. \A c \in Clients : watch'[c] = "watching" => watch[c] = "watching"
    BY DEF Tick, OsdTakesMap, ClientTakesMap, Disconnect, object, TypeOK, WatchesUnder
  <2>3. WatchOutside'
    BY <1>1, <1>4, <2>2 DEF WatchOutside
  <2> QED
    BY <1>2, <2>1, <2>3
<1> QED
  BY <1>3, <1>4 DEF Tick, ClientTakesMap, Disconnect

\* A call that still waits when the operation at the head is gone has its own behind it.
LEMMA TailQueued ==
  ASSUME FInv, SentQueued, NEW c \in Clients, queue[c] # <<>>,
         queue' = [queue EXCEPT ![c] = Tail(@)], UNCHANGED calls,
         \A t \in Threads : call'[t].stage = "sent" =>
           /\ call[t].stage = "sent" /\ call'[t].request = call[t].request
           /\ t = Head(queue[c]).thread => calls[t] # Head(queue[c]).no
  PROVE  SentQueued'
<1> SUFFICES ASSUME NEW t \in Threads, call'[t].stage = "sent", call'[t].request.kind \in OsdKinds
             PROVE  \E i \in DOMAIN queue'[ClientOf[t]] :
                      /\ queue'[ClientOf[t]][i].thread = t
                      /\ queue'[ClientOf[t]][i].no = calls[t]
  BY DEF SentQueued, Queued
<1>1. PICK i \in DOMAIN queue[ClientOf[t]] :
        queue[ClientOf[t]][i].thread = t /\ queue[ClientOf[t]][i].no = calls[t]
  BY DEF SentQueued, Queued
<1>2. TypeOK /\ ClientOf[t] \in Clients
  BY FencingAssumption DEF FInv
<1>3. ClientOf[t] # c \/ i # 1
  <2> SUFFICES ASSUME ClientOf[t] = c, i = 1 PROVE FALSE
    OBVIOUS
  <2>1. Head(queue[c]) = queue[c][1]
    BY <1>2, TailQueue
  <2> QED
    BY <1>1, <2>1
<1>4. PICK j \in DOMAIN queue'[ClientOf[t]] : queue'[ClientOf[t]][j] = queue[ClientOf[t]][i]
  BY <1>1, <1>2, <1>3, RestQueued
<1> QED
  BY <1>1, <1>4

LEMMA LoseRInv ==
  ASSUME FInv, RInv, NEW c \in Clients, Lose(c)
  PROVE  RInv'
<1> DEFINE m == Head(queue[c])
<1>1. /\ queue[c] # <<>> /\ queue' = [queue EXCEPT ![c] = Tail(@)]
      /\ call[m.thread].stage # "sent" \/ calls[m.thread] # m.no
      /\ UNCHANGED <<maps, osdEpoch, lock, watch, call, calls, seen>>
  BY DEF Lose, object
<1>2. SentQueued'
  BY <1>1, TailQueued DEF RInv
<1> QED
  BY <1>1, <1>2 DEF RInv, WatchOutside, SeenFenced, KnownFrom, Latest

LEMMA ExecuteRInv ==
  ASSUME FInv, LInv, RInv, NEW c \in Clients, Execute(c)
  PROVE  RInv'
<1> USE DEF FInv, RInv
<1> DEFINE m == Head(queue[c])
<1>1. /\ queue[c] # <<>> /\ m.stamp <= osdEpoch
      /\ c \in maps[osdEpoch] => Reject(m)
      /\ Grant(m) \/ Release(m) \/ List(m) \/ Change(m) \/ Reject(m)
      /\ queue' = [queue EXCEPT ![c] = Tail(@)]
      /\ UNCHANGED <<maps, osdEpoch, calls>>
  BY DEF Execute
<1>2. m \in Message /\ m = queue[c][1] /\ 1 \in DOMAIN queue[c]
  BY <1>1, TailQueue
<1>3. m.thread \in Threads /\ m.stamp \in Nat /\ ClientOf[m.thread] = c /\ MessageKnown(m)
  BY <1>2, QueueTypes DEF LInv, AtHome, MessagesKnown, Message
<1>4. PICK ret : Answer(m, ret)
  BY <1>1 DEF Grant, Release, List, Change, Reject
<1> HIDE DEF m
<1>5. SentQueued'
  <2>1. call \in [Threads -> CallRecord]
    BY DEF TypeOK, CallRecord
  <2>2. ASSUME NEW t \in Threads, call'[t].stage = "sent"
        PROVE  /\ call[t].stage = "sent" /\ call'[t].request = call[t].request
               /\ t = m.thread => calls[t] # m.no
    <3>1. CASE call[m.thread].stage = "sent" /\ calls[m.thread] = m.no
      <4>1. call' = [call EXCEPT ![m.thread] = [call[m.thread] EXCEPT !.stage = "answered", !.ret = ret]]
        BY <1>3, <1>4, <2>1, <3>1 DEF Answer
      <4>2. call'[m.thread].stage = "answered"
        BY <1>3, <2>1, <4>1 DEF CallRecord
      <4>3. t # m.thread /\ call'[t] = call[t]
        BY <2>1, <2>2, <4>1, <4>2
      <4> QED
        BY <2>2, <4>3
    <3>2. CASE ~(call[m.thread].stage = "sent" /\ calls[m.thread] = m.no)
      <4>1. call' = call
        BY <1>4, <3>2 DEF Answer
      <4> QED
        BY <2>2, <3>2, <4>1
    <3> QED
      BY <3>1, <3>2
  <2> QED
    BY <1>1, <2>2, TailQueued DEF m
<1>6. WatchOutside'
  <2>1. \A d \in Clients : watch'[d] = "watching" => watch[d] = "watching" \/ d = c
    BY <1>1, <1>3 DEF Grant, Release, List, Change, Reject, object, TypeOK
  <2>2. ~UNCHANGED watch => c \notin maps[osdEpoch]
    BY <1>1 DEF Reject, object
  <2> QED
    BY <1>1, <2>1, <2>2 DEF WatchOutside
<1>7. SeenFenced'
  <2>1. ASSUME NEW u \in Threads, seen'[u].behind
        PROVE  /\ seen'[u].holder \in Threads
               /\ KnownFrom(ClientOf[seen'[u].holder], osdEpoch)
               /\ lock'.holder = seen'[u].holder => lock'.grant = seen'[u].grant
    <3>1. osdEpoch \in 1 .. Latest /\ Latest \in Nat
      BY DEF TypeOK, Latest
    <3>2. CASE UNCHANGED <<lock, seen>>
      BY <2>1, <3>2 DEF SeenFenced
    <3>3. CASE Grant(m) /\ LockRet(m.thread, m.request.flag) = "OK"
      <4>1. lock'.holder = m.thread /\ UNCHANGED seen
        BY <3>3 DEF Grant
      <4>2. seen[u].holder \in Threads /\ KnownFrom(ClientOf[seen[u].holder], osdEpoch)
        BY <2>1, <4>1 DEF SeenFenced
      <4>3. ClientOf[seen[u].holder] \in maps[osdEpoch]
        BY <3>1, <4>2 DEF KnownFrom
      <4>4. c \notin maps[osdEpoch] \/ UNCHANGED lock
        BY <1>1 DEF Reject, object
      <4>5. CASE UNCHANGED lock
        BY <2>1, <4>1, <4>5 DEF SeenFenced
      <4>6. CASE c \notin maps[osdEpoch]
        BY <1>3, <4>1, <4>2, <4>3, <4>6
      <4> QED
        BY <4>4, <4>5, <4>6
    <3>4. CASE Release(m) /\ Holds(m.request.who)
      <4>1. lock'.holder = NoThread /\ UNCHANGED seen
        BY <3>4 DEF Release, NoLock
      <4> QED
        BY <2>1, <4>1, FencingAssumption DEF SeenFenced
    <3>5. CASE List(m)
      <4>1. lock' = lock
        BY <3>5 DEF List, object
      <4>2. CASE u # m.thread
        BY <2>1, <3>5, <4>1, <4>2 DEF List, SeenFenced, TypeOK
      <4>3. CASE u = m.thread
        <5>1. /\ Held /\ seen'[u].holder = lock.holder /\ seen'[u].grant = lock.grant
              /\ ClientOf[lock.holder] \in m.behind
          BY <1>3, <2>1, <3>5, <4>3 DEF List, NothingSeen, TypeOK
        <5>2. lock.holder \in Threads
          BY <5>1 DEF Held, TypeOK
        <5>3. KnownFrom(ClientOf[lock.holder], m.stamp)
          BY <1>3, <5>1 DEF MessageKnown
        <5>4. KnownFrom(ClientOf[lock.holder], osdEpoch)
          BY <1>1, <1>3, <3>1, <5>3 DEF KnownFrom, m
        <5> QED
          BY <4>1, <5>1, <5>2, <5>4
      <4> QED
        BY <4>2, <4>3
    <3> QED
      BY <1>1, <3>2, <3>3, <3>4, <3>5 DEF Grant, Release, Change, Reject, object
  <2> QED
    BY <1>1, <2>1 DEF SeenFenced, KnownFrom, Latest
<1> QED
  BY <1>5, <1>6, <1>7

LEMMA InitRInv == Init => RInv
<1> SUFFICES ASSUME Init PROVE RInv
  OBVIOUS
<1>1. /\ \A t \in Threads : call[t].stage = "idle" /\ ~seen[t].behind
      /\ \A c \in Clients : watch[c] = "none"
  BY DEF Init, NotCalling, Call, NothingSeen
<1> QED
  BY <1>1 DEF RInv, SentQueued, WatchOutside, SeenFenced

LEMMA NextRInv == FInv /\ LInv /\ RInv /\ [Next]_vars => RInv'
<1> SUFFICES ASSUME FInv, LInv, RInv, [Next]_vars PROVE RInv'
  OBVIOUS
<1>1. CASE UNCHANGED vars
  BY <1>1 DEF vars, object, RInv, SentQueued, Queued, WatchOutside, SeenFenced, KnownFrom, Latest
<1>2. ASSUME NEW t \in Threads, Calls(t) \/ Return(t) \/ GiveUp(t) \/ MonAnswers(t) PROVE RInv'
  BY <1>2, CallsRInv, EndRInv, MonitorRInv
<1>3. ASSUME NEW c \in Clients,
             Execute(c) \/ Lose(c) \/ BlocklistExpires(c) \/ ClientTakesMap(c) \/ Disconnect(c)
      PROVE  RInv'
  BY <1>3, ExecuteRInv, LoseRInv, BlocklistExpiresRInv, WorldRInv
<1>4. CASE Tick \/ OsdTakesMap
  BY <1>4, WorldRInv
<1>5. CASE Terminated
  BY <1>1, <1>5 DEF Terminated
<1> QED
  BY <1>1, <1>2, <1>3, <1>4, <1>5 DEF Next

LEMMA SpecInvs == Spec => [](FInv /\ LInv /\ RInv)
  BY InitFInv, NextFInv, InitLInv, NextLInv, InitRInv, NextRInv, PTL DEF Spec

\* However calls, maps and answers pass each other, when all has arrived no call is left waiting
\* and no client that is shut out takes itself for watching.
THEOREM NobodyIsLeftBehind == Spec => []NoneLeftBehind
<1>1. ASSUME FInv, LInv, RInv PROVE NoneLeftBehind
  <2> USE <1>1 DEF FInv, RInv
  <2>1. ASSUME Settled, NEW t \in Threads
        PROVE  /\ call[t].stage = "sent" => call[t].request.kind \notin OsdKinds
               /\ call[t].stage = "answered" => Arrived(t)
    <3>1. ClientOf[t] \in Clients /\ queue[ClientOf[t]] = <<>> /\ mapOf[ClientOf[t]] = Latest
      BY <2>1, FencingAssumption DEF Settled
    <3>2. ~Queued(t)
      BY <3>1 DEF Queued
    <3>3. call[t].epoch \in 0 .. Latest
      BY CallFields DEF CallRecord
    <3>4. Arrived(t)
      BY <3>1, <3>3 DEF Arrived
    <3> QED
      BY <3>2, <3>4 DEF SentQueued
  <2>2. FencedWatcherLearns
    BY DEF FencedWatcherLearns, Settled, Blocklisted, WatchOutside
  <2> QED
    BY <2>1, <2>2 DEF NoneLeftBehind, NothingHeld
<1> QED
  BY <1>1, SpecInvs, PTL

\* The lock that break_lock takes away is the one that list_lockers has shown, if the client was
\* fenced by then: whatever is asked and given up in between.
THEOREM BreaksHitWhatWasSeen == Spec => BreakHitsSeen
<1> DEFINE Breaks(u) ==
      /\ queue[ClientOf[u]] # <<>>
      /\ Head(queue[ClientOf[u]]).thread = u
      /\ Head(queue[ClientOf[u]]).request.kind = "break_lock"
      /\ Head(queue[ClientOf[u]]).request.who = seen[u].holder
      /\ queue'[ClientOf[u]] = Tail(queue[ClientOf[u]])
      /\ lock' # lock
      /\ seen[u].behind
<1>1. ASSUME FInv, LInv, RInv, [Next]_vars
      PROVE  [\A u \in Threads : Breaks(u) => lock.grant = seen[u].grant]_vars
  <2> SUFFICES ASSUME NEW u \in Threads, Breaks(u) PROVE lock.grant = seen[u].grant
    OBVIOUS
  <2> DEFINE c == ClientOf[u]
             m == Head(queue[c])
  <2>1. c \in Clients
    BY FencingAssumption
  <2>2. Execute(c)
    BY <1>1, <2>1, OnlyTail DEF Lose, object
  <2>3. Release(m)
    BY <2>2 DEF Execute, Grant, List, Change, Reject, object
  <2>4. Holds(seen[u].holder)
    BY <2>3 DEF Release
  <2> QED
    BY <1>1, <2>4 DEF Holds, RInv, SeenFenced
<1> HIDE DEF Breaks
<1>2. Spec => [][\A u \in Threads : Breaks(u) => lock.grant = seen[u].grant]_vars
  BY <1>1, SpecInvs, PTL DEF Spec
<1> QED
  BY <1>2 DEF Breaks, BreakHitsSeen

=============================================================================
