------------------------------ MODULE Fencing ------------------------------
(***************************************************************************)
(* The calls with which a client takes an object over from another:        *)
(* lock_exclusive, unlock, break_lock, list_lockers and write              *)
(* (src/src/ioctx.rs), blocklist_add and wait_for_latest_osdmap            *)
(* (src/src/conn.rs), and the watch of a client that is shut out, as in    *)
(* blocklist_fences_the_old_writer (src/tests/integration.rs).             *)
(*                                                                         *)
(* Threads make these calls in any order.  Each has a cookie of its own,   *)
(* so that a thread stands for a locker.  The OSD that has the object, the *)
(* monitors and the network are external.                                  *)
(***************************************************************************)
EXTENDS Naturals, Sequences, Errors

CONSTANTS
  Threads,
  Clients,   \* a Rados, with an address of its own
  ClientOf,  \* [Threads -> Clients]
  NoThread,
  Setups     \* what the threads do, and the bounds

OsdKinds == {"write", "lock", "unlock", "break_lock", "list_lockers", "watch"}
Kinds == OsdKinds \cup {"blocklist_add", "wait"}
Flags == {"none", "may_renew", "must_renew"}

\* Of a lock's durations, 0 is None, or what is sent as zero.
Setup ==
  [mayCall : [Threads -> SUBSET Kinds],
   leases : SUBSET Nat,       \* durations of locks
   flags : SUBSET Flags,      \* flags of lock_exclusive
   hasty : SUBSET Threads,    \* threads whose librados has a timeout
   calls : [Threads -> Nat],  \* bound of the calls of a thread
   epochs : Nat \ {0},        \* bound of the osdmap's epochs
   time : Nat]                \* bound of the OSD's clock

ASSUME FencingAssumption ==
  /\ ClientOf \in [Threads -> Clients]
  /\ NoThread \notin Threads
  /\ \A s \in Setups : s \in Setup

VARIABLES
  setup,     \* one of Setups
  maps,      \* Seq(SUBSET Clients): whom the osdmap of each epoch blocklists
  osdEpoch,  \* the epoch of the OSD's map
  mapOf,     \* [Clients -> Nat]: the epoch of the client's map
  clock,     \* the OSD's
  version,   \* of the object
  lock,      \* the cls_lock on the object
  granted,   \* how often it was taken or renewed
  watch,     \* [Clients -> ...]: the client's watch on the object
  queue,     \* [Clients -> Seq(Message)]: on their way to the OSD
  call,      \* [Threads -> Call]: the call the thread is in
  calls,     \* [Threads -> Nat]: how many calls it has made
  seen,      \* [Threads -> ...]: what list_lockers showed it last
  lease,     \* history, [Threads -> Nat]: until when it may count on its lock
  broken,    \* history: the threads whose lock another one has broken
  listed,    \* history, [Threads -> SUBSET Clients]: whom it has blocklisted
  barrier,   \* history: those after whom it has waited for the map
  fenced     \* history: those whom the OSD must know to be blocklisted

object == <<version, lock, granted, watch>>
history == <<lease, broken, listed, barrier, fenced>>
vars == <<setup, maps, osdEpoch, mapOf, clock, object, queue, call, calls, seen, history>>

Latest == Len(maps)
Blocklisted(c) == c \in maps[Latest]

Never == setup.time + 1
Until(start, duration) == IF duration = 0 THEN Never ELSE start + duration
Earlier(m, n) == IF m < n THEN m ELSE n

NoLock == [holder |-> NoThread, expires |-> 0, grant |-> 0]
Held == lock.holder # NoThread /\ clock < lock.expires

\* Who: the locker whose lock is broken or whose address is blocklisted.
Request(kind, who, duration, flag) ==
  [kind |-> kind, who |-> who, duration |-> duration, flag |-> flag]

\* The epoch that a call of "wait" waits for is known when the monitors have answered.
Call(request, stage) ==
  [request |-> request, stage |-> stage, ret |-> "OK", start |-> clock, epoch |-> 0]
NotCalling == [Call(Request("write", NoThread, 0, "none"), "idle") EXCEPT !.start = 0]

NothingSeen == [holder |-> NoThread, grant |-> 0, behind |-> FALSE]

Init ==
  /\ setup \in Setups
  /\ maps = <<{}>>
  /\ osdEpoch = 1
  /\ mapOf = [c \in Clients |-> 1]
  /\ clock = 0
  /\ version = 0
  /\ lock = NoLock
  /\ granted = 0
  /\ watch = [c \in Clients |-> "none"]
  /\ queue = [c \in Clients |-> <<>>]
  /\ call = [t \in Threads |-> NotCalling]
  /\ calls = [t \in Threads |-> 0]
  /\ seen = [t \in Threads |-> NothingSeen]
  /\ lease = [t \in Threads |-> 0]
  /\ broken = {}
  /\ listed = [t \in Threads |-> {}]
  /\ barrier = [t \in Threads |-> {}]
  /\ fenced = {}

-----------------------------------------------------------------------------
(* The calls *)

Begin(t, request) ==
  /\ call[t].stage = "idle"
  /\ request.kind \in setup.mayCall[t]
  /\ calls[t] < setup.calls[t]
  /\ calls' = [calls EXCEPT ![t] = @ + 1]
  /\ call' = [call EXCEPT ![t] = Call(request, "sent")]
  /\ UNCHANGED <<setup, maps, osdEpoch, mapOf, clock, object, seen, broken, listed, barrier, fenced>>

\* An operation carries the epoch of its client's map.
Send(t, request) ==
  /\ Begin(t, request)
  /\ queue' = [queue EXCEPT ![ClientOf[t]] = Append(@,
       [thread |-> t, no |-> calls[t] + 1, request |-> request,
        stamp |-> mapOf[ClientOf[t]], behind |-> barrier[t]])]

Write(t) ==
  /\ Send(t, Request("write", NoThread, 0, "none"))
  /\ UNCHANGED lease

\* A renewal may shorten the lease, and may do so before it returns.
LockExclusive(t, duration, flag) ==
  /\ Send(t, Request("lock", t, duration, flag))
  /\ lease' = [lease EXCEPT ![t] = Earlier(@, Until(clock, duration))]

Unlock(t) ==
  /\ Send(t, Request("unlock", t, 0, "none"))
  /\ lease' = [lease EXCEPT ![t] = 0]

\* mutant: what list_lockers has shown is not looked at
BreakLockUnseen(t) ==
  /\ Send(t, Request("break_lock", seen[t].holder, 0, "none"))
  /\ UNCHANGED lease

\* Client and cookie are those list_lockers has shown.
BreakLock(t) ==
  /\ seen[t].holder # NoThread
  /\ Send(t, Request("break_lock", seen[t].holder, 0, "none"))
  /\ UNCHANGED lease

ListLockers(t) ==
  /\ Send(t, Request("list_lockers", NoThread, 0, "none"))
  /\ UNCHANGED lease

Watch(t) ==
  /\ Send(t, Request("watch", NoThread, 0, "none"))
  /\ UNCHANGED lease

\* The address is the one list_lockers has shown.
BlocklistAdd(t) ==
  /\ seen[t].holder # NoThread
  /\ Begin(t, Request("blocklist_add", seen[t].holder, 0, "none"))
  /\ UNCHANGED <<queue, lease>>

WaitForLatestOsdmap(t) ==
  /\ Begin(t, Request("wait", NoThread, 0, "none"))
  /\ UNCHANGED <<queue, lease>>

\* mutant: that the monitors have answered is enough
ArrivedUnseen(t) == TRUE

\* A wait ends when the client has the map of the epoch.
Arrived(t) == call[t].epoch <= mapOf[ClientOf[t]]

Return(t) ==
  LET request == call[t].request
      ok == CheckErr(call[t].ret) = Ok
  IN  /\ call[t].stage = "answered"
      /\ Arrived(t)
      /\ call' = [call EXCEPT ![t] = NotCalling]
      /\ lease' = IF request.kind = "lock" /\ ok
                  THEN [lease EXCEPT ![t] = Until(call[t].start, request.duration)]
                  ELSE lease
      /\ barrier' = IF request.kind = "wait" /\ ok
                    THEN [barrier EXCEPT ![t] = listed[t]]
                    ELSE barrier
      /\ UNCHANGED <<setup, maps, osdEpoch, mapOf, clock, object, queue, calls, seen, broken, listed, fenced>>

\* librados gives up, whether what was asked is done, will be done or is lost.
GiveUp(t) ==
  /\ t \in setup.hasty
  /\ call[t].stage # "idle"
  /\ call' = [call EXCEPT ![t] = NotCalling]
  /\ UNCHANGED <<setup, maps, osdEpoch, mapOf, clock, object, queue, calls, seen, history>>

-----------------------------------------------------------------------------
(* The OSD takes the operations of a client in order. *)

\* Nobody gets the answer to a call that was given up.
Answer(m, ret) ==
  call' = IF call[m.thread].stage = "sent" /\ calls[m.thread] = m.no
          THEN [call EXCEPT ![m.thread].stage = "answered", ![m.thread].ret = ret]
          ELSE call

LockRet(t, flag) ==
  IF Held /\ lock.holder = t THEN IF flag = "none" THEN "EEXIST" ELSE "OK"
  ELSE IF flag = "must_renew" THEN "ENOENT"
  ELSE IF Held THEN "EBUSY" ELSE "OK"

\* mutant: half of the duration is sent
SentHalf(duration) == duration \div 2

\* Less than a microsecond is lost (Timeouts).
Sent(duration) == duration

Expires(m) == Until(clock, Sent(m.request.duration))

Grant(m) ==
  LET ret == LockRet(m.thread, m.request.flag) IN
    /\ m.request.kind = "lock"
    /\ IF ret = "OK"
       THEN /\ granted' = granted + 1
            /\ lock' = [holder |-> m.thread, expires |-> Expires(m), grant |-> granted']
            /\ broken' = broken \ {m.thread}
       ELSE UNCHANGED <<granted, lock, broken>>
    /\ Answer(m, ret)
    /\ UNCHANGED <<version, watch, seen>>

Holds(who) == Held /\ lock.holder = who

\* unlock and break_lock: the lock of the client and the cookie that are named.
Release(m) ==
  LET who == m.request.who IN
    /\ m.request.kind \in {"unlock", "break_lock"}
    /\ lock' = IF Holds(who) THEN NoLock ELSE lock
    /\ broken' = IF Holds(who) /\ m.request.kind = "break_lock" THEN broken \cup {who} ELSE broken
    /\ Answer(m, IF Holds(who) THEN "OK" ELSE "ENOENT")
    /\ UNCHANGED <<version, granted, watch, seen>>

List(m) ==
  /\ m.request.kind = "list_lockers"
  /\ seen' = [seen EXCEPT ![m.thread] =
       IF Held THEN [holder |-> lock.holder, grant |-> lock.grant,
                     behind |-> ClientOf[lock.holder] \in m.behind]
       ELSE NothingSeen]
  /\ Answer(m, "OK")
  /\ UNCHANGED <<object, broken>>

Change(m) ==
  /\ \/ m.request.kind = "write" /\ version' = version + 1 /\ UNCHANGED watch
     \/ /\ m.request.kind = "watch"
        /\ watch' = [watch EXCEPT ![ClientOf[m.thread]] = "watching"]
        /\ UNCHANGED version
  /\ Answer(m, "OK")
  /\ UNCHANGED <<lock, granted, broken, seen>>

Reject(m) ==
  /\ Answer(m, "EBLOCKLISTED")
  /\ UNCHANGED <<object, broken, seen>>

\* An operation from a newer epoch is held until the OSD has that map.
Execute(c) ==
  /\ queue[c] # <<>>
  /\ LET m == Head(queue[c]) IN
       /\ m.stamp <= osdEpoch
       /\ fenced' = fenced \cup m.behind
       /\ IF c \in maps[osdEpoch] THEN Reject(m) ELSE Grant(m) \/ Release(m) \/ List(m) \/ Change(m)
  /\ queue' = [queue EXCEPT ![c] = Tail(@)]
  /\ UNCHANGED <<setup, maps, osdEpoch, mapOf, clock, calls, lease, listed, barrier>>

\* Only an operation that is no longer waited for is lost: others are sent again.
Lose(c) ==
  /\ queue[c] # <<>>
  /\ LET m == Head(queue[c]) IN call[m.thread].stage # "sent" \/ calls[m.thread] # m.no
  /\ queue' = [queue EXCEPT ![c] = Tail(@)]
  /\ UNCHANGED <<setup, maps, osdEpoch, mapOf, clock, object, call, calls, seen, history>>

Tick ==
  /\ clock < setup.time
  /\ clock' = clock + 1
  /\ UNCHANGED <<setup, maps, osdEpoch, mapOf, object, queue, call, calls, seen, history>>

-----------------------------------------------------------------------------
(* Monitors and maps *)

MonBlocklists(t) ==
  LET c == ClientOf[call[t].request.who] IN
    /\ call[t].stage = "sent" /\ call[t].request.kind = "blocklist_add"
    /\ Latest < setup.epochs
    /\ maps' = Append(maps, maps[Latest] \cup {c})
    /\ listed' = [listed EXCEPT ![t] = @ \cup {c}]
    /\ call' = [call EXCEPT ![t].stage = "answered"]
    /\ UNCHANGED <<setup, osdEpoch, mapOf, clock, object, queue, calls, seen, lease, broken, barrier, fenced>>

MonTellsLatest(t) ==
  /\ call[t].stage = "sent" /\ call[t].request.kind = "wait"
  /\ call' = [call EXCEPT ![t].stage = "answered", ![t].epoch = Latest]
  /\ UNCHANGED <<setup, maps, osdEpoch, mapOf, clock, object, queue, calls, seen, history>>

MonRefuses(t) ==
  /\ call[t].stage = "sent" /\ call[t].request.kind \notin OsdKinds
  /\ call' = [call EXCEPT ![t].stage = "answered", ![t].ret = "EIO"]
  /\ UNCHANGED <<setup, maps, osdEpoch, mapOf, clock, object, queue, calls, seen, history>>

\* A blocklisting expires, and nobody counts on it from then on.
BlocklistExpires(c) ==
  /\ Blocklisted(c)
  /\ Latest < setup.epochs
  /\ maps' = Append(maps, maps[Latest] \ {c})
  /\ queue' = [d \in Clients |-> [i \in DOMAIN queue[d] |-> [queue[d][i] EXCEPT !.behind = @ \ {c}]]]
  /\ seen' = [t \in Threads |->
       IF seen[t].holder # NoThread /\ ClientOf[seen[t].holder] = c
       THEN [seen[t] EXCEPT !.behind = FALSE] ELSE seen[t]]
  /\ listed' = [t \in Threads |-> listed[t] \ {c}]
  /\ barrier' = [t \in Threads |-> barrier[t] \ {c}]
  /\ fenced' = fenced \ {c}
  /\ UNCHANGED <<setup, osdEpoch, mapOf, clock, object, call, calls, lease, broken>>

ClientTakesMap(c) ==
  /\ \E e \in mapOf[c] + 1 .. Latest : mapOf' = [mapOf EXCEPT ![c] = e]
  /\ UNCHANGED <<setup, maps, osdEpoch, clock, object, queue, call, calls, seen, history>>

\* The watches of those it blocklists are dropped.
WatchesUnder(e) ==
  [c \in Clients |-> IF watch[c] = "watching" /\ c \in maps[e] THEN "dropped" ELSE watch[c]]

OsdTakesMap ==
  /\ \E e \in osdEpoch + 1 .. Latest : osdEpoch' = e /\ watch' = WatchesUnder(e)
  /\ UNCHANGED <<setup, maps, mapOf, clock, version, lock, granted, queue, call, calls, seen, history>>

\* mutant: the error is not handed on, and the client takes itself for watching
DisconnectMute(c) ==
  /\ watch[c] = "dropped"
  /\ watch' = [watch EXCEPT ![c] = "watching"]
  /\ UNCHANGED <<setup, maps, osdEpoch, mapOf, clock, version, lock, granted, queue, call, calls, seen, history>>

\* The client whose watch was dropped is told, by its on_error.
Disconnect(c) ==
  /\ watch[c] = "dropped"
  /\ watch' = [watch EXCEPT ![c] = "informed"]
  /\ UNCHANGED <<setup, maps, osdEpoch, mapOf, clock, version, lock, granted, queue, call, calls, seen, history>>

-----------------------------------------------------------------------------

Calls(t) ==
  \/ Write(t) \/ Unlock(t) \/ BreakLock(t) \/ ListLockers(t) \/ Watch(t)
  \/ \E d \in setup.leases, f \in setup.flags : LockExclusive(t, d, f)
  \/ BlocklistAdd(t) \/ WaitForLatestOsdmap(t)

MonAnswers(t) == MonBlocklists(t) \/ MonTellsLatest(t) \/ MonRefuses(t)

Terminated ==
  /\ \A t \in Threads : call[t].stage = "idle"
  /\ UNCHANGED vars

Next ==
  \/ \E t \in Threads : Calls(t) \/ Return(t) \/ GiveUp(t) \/ MonAnswers(t)
  \/ \E c \in Clients :
       Execute(c) \/ Lose(c) \/ BlocklistExpires(c) \/ ClientTakesMap(c) \/ Disconnect(c)
  \/ Tick \/ OsdTakesMap \/ Terminated

Spec == Init /\ [][Next]_vars

-----------------------------------------------------------------------------
(* Properties *)

Requests ==
  [kind : {"lock", "unlock", "break_lock", "blocklist_add"}, who : Threads,
   duration : Nat, flag : Flags] \cup
  [kind : {"write", "list_lockers", "watch", "wait"}, who : {NoThread}, duration : {0}, flag : {"none"}]

Message ==
  [thread : Threads, no : Nat, stamp : 1 .. Latest, behind : SUBSET Clients,
   request : {r \in Requests : r.kind \in OsdKinds}]

\* Every variable stays within its range.  No map is known before the monitors made it, and no
\* lock is broken and no client blocklisted that list_lockers did not show.
TypeOK ==
  /\ setup \in Setups
  /\ maps \in Seq(SUBSET Clients) /\ Latest > 0
  /\ osdEpoch \in 1 .. Latest
  /\ mapOf \in [Clients -> 1 .. Latest]
  /\ clock \in Nat /\ version \in Nat /\ granted \in Nat
  /\ lock \in [holder : Threads \cup {NoThread}, expires : Nat, grant : Nat]
  /\ watch \in [Clients -> {"none", "watching", "dropped", "informed"}]
  /\ queue \in [Clients -> Seq(Message)]
  /\ call \in [Threads ->
       [request : Requests,
        stage : {"idle", "sent", "answered"}, start : Nat, epoch : 0 .. Latest,
        ret : {"OK", "EEXIST", "ENOENT", "EBUSY", "EIO", "EBLOCKLISTED"}]]
  /\ calls \in [Threads -> Nat]
  /\ seen \in [Threads -> [holder : Threads \cup {NoThread}, grant : Nat, behind : BOOLEAN]]
  /\ lease \in [Threads -> Nat]
  /\ broken \in SUBSET Threads
  /\ listed \in [Threads -> SUBSET Clients] /\ barrier \in [Threads -> SUBSET Clients]
  /\ fenced \in SUBSET Clients

\* After a thread has blocklisted a client, waited for the map and then had an operation
\* executed, no operation of that client has an effect, also one that was sent before, until
\* the blocklisting expires.
FencedStaysOut ==
  [][\A c \in fenced :
       queue[c] # <<>> /\ queue'[c] = Tail(queue[c]) => UNCHANGED object]_vars

\* A thread to which lock_exclusive has returned holds the lock for the duration it asked for,
\* counted from the start of the call, unless it unlocks, renews it for less or another thread
\* breaks it: also when calls are given up and their operations run later.
LeaseHolds ==
  \A t \in Threads : clock < lease[t] /\ t \notin broken => Held /\ lock.holder = t

\* break_lock hits the very lock that list_lockers has shown, and no later one of the same
\* client and cookie, when that client was fenced before it was listed.
BreakHitsSeen ==
  [][\A u \in Threads :
       /\ queue[ClientOf[u]] # <<>>
       /\ Head(queue[ClientOf[u]]).thread = u
       /\ Head(queue[ClientOf[u]]).request.kind = "break_lock"
       /\ Head(queue[ClientOf[u]]).request.who = seen[u].holder
       /\ queue'[ClientOf[u]] = Tail(queue[ClientOf[u]])
       /\ lock' # lock
       /\ seen[u].behind
       => lock.grant = seen[u].grant]_vars

\* Everything that was sent has arrived, and everyone has the latest map.
Settled ==
  /\ \A c \in Clients : queue[c] = <<>> /\ mapOf[c] = Latest
  /\ osdEpoch = Latest

\* When all is settled no call waits for an answer of the OSD, or for a map: no operation is
\* held for a map that does not come, and none waits for a map that nobody makes.
NothingHeld ==
  Settled => \A t \in Threads :
    /\ call[t].stage = "sent" => call[t].request.kind \notin OsdKinds
    /\ call[t].stage = "answered" => Arrived(t)

\* When all is settled and delivered, no client that is blocklisted takes itself for watching:
\* it has been told by its on_error.
FencedWatcherLearns ==
  Settled /\ (\A c \in Clients : watch[c] # "dropped") =>
    \A c \in Clients : Blocklisted(c) => watch[c] # "watching"

\* No call and no watcher is left behind.
NoneLeftBehind == NothingHeld /\ FencedWatcherLearns

=============================================================================
