# TLA+ models of librados-rs

librados-rs is a synchronous Rust wrapper around Ceph's librados. Almost every call is one
foreign call; what can go wrong lies around it: memory and handles shared with librados'
threads, destructors that run at moments nobody chose, error paths that still hand out data,
buffers that are regrown in a loop, and compound operations that are atomic on the OSD but
report their parts one by one.

The models describe the wrapper. librados and the OSD are external: their part is modelled
only as far as the wrapper's comments and calls rely on it, and is marked so below and in
`PROJECT.json`.

## Inventory

Paths are below `src/`; line numbers are those of the modelled commit.

| Component | State | Operations | Talks to | What is hard | What makes it correct |
|---|---|---|---|---|---|
| **Watch** (`src/ioctx.rs:442-490`, `603-697`) | the `WatchState` box leaked to librados, the `Watch` value, the cookie | `IoCtx::watch`, `Watch::drop`, the notify and error trampolines | librados calls the trampolines on its finisher strand; a trampoline calls user code and `rados_notify_ack` | a drop races callbacks queued or running; callbacks before `rados_watch3` returns; a drop inside a callback; a panic or an oversized reply | no callback finds its box freed; each notification is acked once; a drop returns and leaves nothing unanswered; a drop in a callback hangs and does not corrupt |
| **Handles** (`src/conn.rs:10-47`, `128-138`, `src/ioctx.rs:18-75`) | `Arc<RadosHandle>`, `Arc<IoCtxHandle>` and the values that share them | create, clone, drop, `create_ioctx`, every call through a handle | each other: an `IoCtxHandle` owns a share of the cluster; a `Watch` and its `WatchState` each own an `IoCtx` | drops from many threads, in any order, while calls run | calls only on live handles; every ioctx destroyed before the shutdown; all released in the end |
| **Durations** (`src/ioctx.rs:313-323`, `507-509`, `src/conn.rs:108-109`) | none | the conversions of `notify`, `lock_exclusive`, `blocklist_add` | the integer types of librados | a non-zero duration that becomes zero, which means something else; overflow | what is sent is the value to the unit; zero only where it is known to be |
| **Notify** (`src/ioctx.rs:492-538`, `572-601`, `699-769`) | the reply buffer | `IoCtx::notify`, `decode_notify_response` | the watchers, through the OSD | acks racing the timeout; `-ETIMEDOUT` with a filled buffer; the buffer freed on each path | every watcher is in `acks` or in `timeouts`, and an ack in it was sent |
| **Cluster administration** (`src/conn.rs:49-126`) | the buffer of `list_pools` | `conf_*`, `connect`, pools, `list_pools`, `blocklist_add`, `wait_for_latest_osdmap` | monitors | the buffer of `list_pools` while pools come and go | the list is one that existed |
| **Object I/O** (`src/ioctx.rs:77-172`, `264-291`) | the ioctx's last version, shared by all clones; the buffer of `getxattr` | read, write, stat, remove, xattrs, `getxattr`, `last_version` | the OSD | `ERANGE` retries; `last_version` after another thread's call | one consistent value; the version of the caller's own operation |
| **Listing** (`src/ioctx.rs:174-211`, `541-551`) | the listing context | `list_objects` | the OSD | `-ENOENT` ends the list and also is an error; entries are freed by the next call; the context closed on each path | every object that exists throughout is listed, and nothing that never existed |
| **Write operations** (`src/write_op.rs`) | the steps of a `WriteOp`, the slots of `omap_cmp` | builders, `operate`, `operate_report` | the OSD applies the steps atomically | all or nothing; which comparison failed | no partial effect; the failed comparison is attributed to the step that failed |
| **Read operations** (`src/read_op.rs`) | the steps of a `ReadOp` and the out slots librados writes to | builders, `operate`, `take` | the OSD | pointers to slots that a growing `Vec` moves; a result taken twice or through a foreign handle | a slot is written where it is read; each result once |
| **Omap pages** (`src/omap.rs`, `src/ioctx.rs:213-262`, `src/read_op.rs:149-235`) | the cursor, held by the caller | `omap_get_vals`, `omap_get_keys` with paging | the OSD | keys that change between pages; a key the cursor cannot express | a scan sees each key that was there throughout, once |
| **Locks and fencing** (`src/ioctx.rs:293-440`, `src/conn.rs:101-126`, `tests/integration.rs:700-801`) | the four buffers of `list_lockers`; `cls_lock` is on the object | `lock_exclusive`, `unlock`, `break_lock`, `list_lockers`, `blocklist_add`, `wait_for_latest_osdmap` | OSDs and monitors | a lease that expires under its holder; a broken lock whose holder is still writing; osdmap epochs; `list_lockers` buffers | one writer after the fence |
| **Errors** (`src/error.rs`) | none | `check_err` | all of the above | none of its own | modelled with its callers |
| **Bindings, build, scripts, tests** (`src/ffi.rs`, `build.rs`, `hack/`, `tests/`) | none | generated or I/O | | | not modelled |

How they interact: user threads hold `Rados` and `IoCtx` values and call through them. A watch
adds two owners of an `IoCtx`, the `Watch` (dropped by user code) and the `WatchState` (dropped
by the destructor of the `Watch`), and the finisher strand of the client, which calls back into
user code. A notifier meets a watcher only through the OSD. Locks, blocklisting and the map
barrier are combined by the caller, as `tests/integration.rs` does.

## Modules

| Module | Contents |
|---|---|
| `Watch` | the life of the watches of one client, the Objecter that dispatches to them and the strand that runs their callbacks |
| `WatchContract` | what a watch promises to the code behind its callbacks; `Watch` implements it |
| `Handles` | shared ownership of the client and its ioctxs, calls, destructors |
| `WatchedClient` | `Watch` and `Handles` composed |
| `WatchNotify` | `IoCtx::notify`, the OSD and the watches of `Watch` composed |
| `CompoundOps` | `WriteOp`, `ReadOp`, their out slots and results, `last_version`, and an object at the OSD |
| `Timeouts` | the three conversions of a `Duration` |
| `Errors` | `check_err`, for the modules that branch on a return code |
| `RetryBuffers` | `getxattr`, `list_lockers` and `list_pools` with their buffers |
| `Fencing` | locks, leases, blocklisting and osdmap epochs |
| `OmapScan` | reading an omap page by page |
| `Listing` | `list_objects` and its context |
| `MCWatch`, `MCWatchedClient`, `MCWatchNotify`, `MCCompoundOps`, `MCArguments`, `MCFencing`, `MCOmapScan`, `MCListing` | instances for TLC; `Handles` needs none |
| `WatchProofs`, `HandlesProofs`, `WatchedClientProofs`, `WatchNotifyProofs`, `CompoundOpsProofs`, `ArgumentsProofs`, `FencingProofs`, `ScansProofs` | theorems and their proofs; `ArgumentsProofs` is about `Timeouts` and `RetryBuffers`, `ScansProofs` about `OmapScan` and `Listing` |

An operator named like one of the code's, or of librados', models it. A comment that starts
with "mutant" marks a definition with a plausible bug in it; it is not part of any `Next`, and
shows that a property can fail. `Timeouts` and `Listing` share a module of proofs with another
component, so their `Init`, `Next`, `Spec` and `TypeOK` have the module's name before them
(`ListingSpec`), and the variables of `Listing` have names of their own.

### Watch

`pc[w]` is where the owner of a watch is in `IoCtx::watch` or `Watch::drop`; each stage is a
point between two foreign calls, or inside one, where another thread may run. `box[w]` is the
allocation behind the raw pointer. `strand` is the finisher strand's queue: its head is the
handler that is running when `callback` is not "idle". `callback` goes from "running" (user
code) to the reply the trampoline has computed to "idle" (the callback returned).

| Action | Code |
|---|---|
| `Open`, `OpenSucceeds`, `OpenFails` | `IoCtx::watch`, up to `Box::into_raw`, and the two ways it ends |
| `BeginDrop`, `UnwatchReturns`, `Flush`, `Reclaim`, `DropFields` | `Watch::drop` statement by statement, then the fields |
| `BeginDropInCallback` | the same destructor, started by user code on the strand |
| `StartCallback`, `OnNotifyReturns`, `NotifyAck`, `OnErrorReturns` | the trampolines |
| `Register`, `CancelLinger`, `DispatchNotice`, `DispatchError`, `RunFlush` | librados (external) |

A failing `CString::new(oid)` returns before the box exists and leaves no trace, so it has no
action. `rados_unwatch2`'s return code is ignored by the code and by the model. What is assumed
of librados is what the SAFETY comments state: a failing `rados_watch3` registered nothing;
after `rados_unwatch2` nothing is dispatched to the cookie, whatever the call returns; there is
one strand per client, which runs its handlers one at a time in order; `rados_watch_flush`
defers a handler onto that strand and waits for it.

`WatchContract` forgets the threads, the queue and the stages: a watch is absent, active or
released; it takes notifications, is invoked while active and while no other callback runs,
answers each notification it owes, and is released only when it owes nothing and is not running.
The refinement maps the box to the phase, the difference between dispatches and acks to what is
owed, and the head of the strand to the running callback.

### Handles

An `Arc` is the set of its owners, so its count needs no variable and cannot disagree with it.
A value can be dropped only when no call borrows it: Rust's borrow checker enforces that
statically, and the guard `~ Borrowed(c)` is all that is left of it. A destructor is split where
another thread can observe its middle: the drop that empties an `IoCtxHandle` leaves "destroying"
(before `rados_ioctx_destroy`), then "releasing" (before the `Arc<RadosHandle>` field goes), then
"gone". `BeginCall`/`EndCall` stand for any method through the value; `create_ioctx` is the one
that also changes ownership. A call that fails changes nothing here and is an `EndCall`.

### WatchedClient

Each watch adds two `IoCtx` values, `StateIo(w)` and `WatchIo(w)`. `IoCtx::watch` clones the
first before the box is leaked and the second after `rados_watch3` succeeded; `Reclaim` drops
the first, `DropFields` the second. A step is one of `Watch`, one of `Handles`, or one of each
at once (`Reclaim` is `W!Reclaim` and `H!DropIo`). Each watch has a thread, whose calls are those
of `Handles`: it opens the watch inside a call on a user's `IoCtx`.

### WatchNotify

Each notice is one call of `IoCtx::notify`. `stage[n]` is where the call is: inside
`rados_notify2` ("waiting"), after it ("returned"), returned to the caller ("done"). `ret` and
`reply` are what librados left: its return code, and a buffer that is null, well formed or
malformed. A well-formed buffer stands for the two sets `acks[n]` and `missing[n]` of the OSD;
their byte layout is not modelled. `freed[n]` counts the frees of the buffer. A name with a NUL, and
a timeout or a payload that is too long, end a call before `rados_notify2` and leave no trace, so
they have no action. The arrays that `decode_notify_response` gets from librados are copied and
freed within one block without an early return, and are part of `Decoded`.

| Action | Code |
|---|---|
| `Notify` | `IoCtx::notify` up to the call of `rados_notify2` |
| `Error`, `Decode` | the code after it: the two ways out, each with the free of the buffer |
| `Decoded` | `decode_notify_response` |
| `NotifyAck` | the ack of the trampoline (`W!NotifyAck`) as a message to the OSD, `sent` |
| `OsdWatches`, `OsdForgets`, `Deliver`, `AckArrives` | the OSD and its messages (external) |
| `Completes`, `Expires`, `Fails` | the three ways `rados_notify2` returns (external) |

`OpenSucceeds`, `WatchStep`, `DropStep`, `StrandStep` are those of `Watch`; only `OpenSucceeds`
gains a condition, that the OSD has the watch when `rados_watch3` returns 0. Assumed of the OSD: a
notify goes to the watches it has at that moment; a message may be delivered more than once and
an ack may be late; the first ack of a watch counts; a watch that is unregistered is not
waited for; the reply lists who acked and, with `-ETIMEDOUT`, who did not. A callback that drops a
`Watch` is possible in the module and switched off in its runs, as `watch` covers it.

### CompoundOps

A thread takes an operation of `Programs` and adds its steps one by one. `given[t]` is what
librados has by then: each step, with the address of its slot, and whether the pointer to it is
`valid`. `boxes[t]` is the vector of the `WriteOp` or `ReadOp`, the addresses the wrapper reads
from. Both are kept, although in the code as it is the addresses always agree: that they do is what
`SlotsInPlace` says. A slot is its `prval` and, for a read, what was read. Addresses of boxes, and
of the `Arc` that identifies a `ReadOp`, are reused once nothing owns them, as an allocator may.

A `Box` that is passed by value invalidates the pointers taken from it before (`MoveBox`), by the
rule that a comment of `omap_cmp` states. `omap_cmp` pushes the box and then points
(`PushThenPoint`), the reads point and then push (`PointThenPush`). What a write through an invalid
pointer does is not defined; the model lets it land in the slot, as it does in the builds there
are, so the other properties are about those builds.

| Action | Code |
|---|---|
| `New`, `AssertVersion`, `AddStep`, `AddCmp`, `AddRead`, `DropOp` | the builders of both types; a builder that rejects a name with a NUL adds nothing, and its caller may go on or drop |
| `OperateNul`, `Operate`, `ReportWrite`, `CollectResults` | `operate_report` and `ReadOp::operate` before and after the foreign call |
| `Take`, `DropHandle`, `LastVersion` | `ReadResults::take`, a dropped `Handle`, `IoCtx::last_version` |
| `Execute`, `ReplyArrives`, `NoReply` | the OSD and librados (external) |

The object is its existence, its version and one value. Steps are told apart by what makes them
fail and by whether they have a slot: `put` is any step that sets data, xattrs or omap keys,
`clear` any that takes omap keys away and so needs the object, `get` any that reads. An operation
in which a step after a mutation could fail is left out (`IsProgram`), as what the OSD then
compares with is not stated in this repository. Assumed of the OSD and librados: an operation
takes effect as a whole or not at all; it fails at its first failing step, and only that step's
slot gets an error; a read that was executed but cannot be decoded has an error in its slot
although the operation succeeded. `NoReply` is any other error: the operation may have been
executed or not, and no slot is written. It is not executed later. `AssertVersion` takes the
version its thread last asked for, as in `assert_version_pins_the_object` of the tests. Threads
with clones of one `IoCtx` share its `lastVersion` (`IoctxOf`). `verdict`, `ownAnswer`, `basis`
and the fields `op`, `part` and `object` of handles and results are history: `ownAnswer[t]` says
that the answer that came last on the ioctx of t was its own.

### Timeouts

A `Duration` is seconds and three groups of three decimal digits, so that truncation is dropping
groups. `granted` is what is sent: whole seconds for `notify` and `blocklist_add`, microseconds
for a lock. Zero is sent, too, for a lock without a duration (`NoDuration`). It has a meaning of its
own for each: the default of librados or of the cluster, and no expiry of a lock. `MaxU32` and
`MaxTimeT` are parameters; `EOVERFLOW` is a status.

### RetryBuffers

One call of one of the three methods at a time, since the methods share nothing, against other
clients that may replace what is asked for (`Change`) at any moment. A value is known by the bytes
that each of its fields takes. `lens` are the lengths of the buffers, one each for `getxattr` and
`list_pools`, four for `list_lockers`; `answer` is what the last call of librados left.

| Action | Code |
|---|---|
| `Call` | the method is called, with its first buffers |
| `Getxattr` | doubles its buffer on `-ERANGE` |
| `ListLockers` | replaces all four lengths by those reported, on `-ERANGE` |
| `ListPools` | goes on until the length, less one, fits: the call succeeds all the same |
| `RadosGetxattr`, `RadosListLockers`, `RadosPoolList`, `Fails`, `Change` | librados, the OSD, other clients (external) |

Assumed of librados, as the code relies on it: `rados_getxattr` does not say how much it
needs; `rados_list_lockers` reports all lengths, whether it fills the buffers or not;
`rados_pool_list` returns one more than it needs and fills what fits.

### Fencing

A thread stands for a locker, a client and a cookie. A call is "sent", "answered", and returns.
An operation carries the epoch of its client's osdmap (`stamp`) and waits in the `queue` of its
client until the OSD executes it; the OSD holds an operation from an epoch it does not know, and
rejects one of a client its map blocklists. `maps` is all the osdmaps there have been; each client
and the OSD are at some epoch of it. `seen[t]` is what `list_lockers` showed last, from which
`break_lock` and `blocklist_add` take the client, cookie and address.

| Action | Code |
|---|---|
| `Write`, `LockExclusive`, `Unlock`, `BreakLock`, `ListLockers`, `Watch`, `BlocklistAdd`, `WaitForLatestOsdmap` | the methods up to the foreign call |
| `Return` | `check_err` of each; `wait_for_latest_osdmap` returns only with the map (`Arrived`) |
| `Disconnect` | the error trampoline of the watch that the OSD has dropped |
| `Execute` (`Grant`, `Release`, `List`, `Change`, `Reject`), `OsdTakesMap`, `Tick` | the OSD, `cls_lock` and its clock (external) |
| `MonBlocklists`, `MonTellsLatest`, `MonRefuses`, `BlocklistExpires`, `ClientTakesMap` | monitors and maps (external) |
| `GiveUp`, `Lose` | the operation timeout of librados: the call returns, and its operation is executed later, or never (external) |

`lease`, `broken`, `listed`, `barrier` and `fenced` are history. `lease[t]` is until when a thread
may count on its lock, by what the calls have told it. `barrier[t]` are the clients a thread has
blocklisted before a `wait_for_latest_osdmap` that succeeded; its next operations carry this along
(`behind`), and a client is `fenced` once the OSD has executed one of them. The wait alone is no
fence: it brings the map to the client, and it is the epoch on the client's next operation that
brings it to the OSD. A write that was sent under a lease may also be executed after the lease has
expired, unless its client is fenced; nothing in the wrapper prevents that, and no property says
so.

### OmapScan

The caller's loop of `omap_page_is_marked_truncated`: a page is asked for after the last key of
the one before, as long as `more` is set. Keys are numbers in the order of their bytes and 0 is
the empty key. Other clients set and remove keys, clear the omap, and remove and recreate the
object at any moment. The histories follow one `key`, which `Init` chooses freely, so that what is
shown of it holds for each.

| Action | Code |
|---|---|
| `AddStep` | the builders: `start_after` and the prefix become C strings, the keys of `omap_get_vals_by_keys` do not |
| `Take` | `check_err`, `OmapIter::pairs`, the result, and the loop: next page or the end |
| `OsdReads`, `OsdFails` | the OSD and librados (external) |
| `OmapSet`, `OmapRmKey`, `OmapClear`, `Remove` | the same methods of other clients; taking keys away needs the object |

A page has at least one key if any is eligible, and at most `PageSize`: the OSD may return fewer
than `max_return`. A `max_return` of 0, which the code passes on, is left out: its page is empty
and the scan gets nowhere. That there are finitely many keys is a bound of the model; an
omap has no last key. A null pointer stands for a value of
no bytes. An empty page with `more` set would make the caller of the test panic; `TypeOK` says
that this does not happen. No prefix is a key of the model (`OmapScanAssumption`): `HasNul` says
of both in one set which have a NUL.

### Listing

Objects are numbers in the order of the hashes by which OSDs list them. librados fetches them in
batches (`RadosFetch`) and hands them out one by one, the lowest first (`RadosNext`), so that a
batch is a set; the entry is freed by the next call.

| Action | Code |
|---|---|
| `Open`, `ListObjects` | `list_objects` after each foreign call: an error, the end at `-ENOENT`, or a name that is copied |
| `Return` | `list_objects` returns and `ObjectList` is dropped |
| `RadosOpen`, `RadosFetch`, `RadosNext`, `RadosDrained`, `RadosFails` | librados (external) |
| `CreateObject`, `RemoveObject`, `DeletePool` | other clients |

Two things follow from the code that a caller should know: a listing whose pool is deleted meanwhile
ends without an error, because librados reports that with `-ENOENT` too, and two objects whose names
are not UTF-8 may be listed under one name (`Lossy`). Neither contradicts the properties, which are
about objects that stay and names as they are shown. The positions of a listing are hashes, of which
there are finitely many; that the same holds of the names with one hash is a bound of the model.

## Runs

| Run | Asks | Bounds |
|---|---|---|
| `watch` (`MCWatch.cfg`) | safety of the watches, with drops in callbacks; the refinement of `WatchContract`; do drops return, is each notification answered, unless a callback drops a `Watch` | 2 watches, 1 notice dispatched up to twice to each, 1 error each |
| `handles` (`Handles.cfg`) | safety and release of the handles; deadlock | 2 `Rados`, 3 `IoCtx`, 2 ioctxs, 2 threads |
| `watched_client` (`MCWatchedClient.cfg`) | do the watches keep alive what they use, with drops in callbacks; is the client shut down in the end, unless there was one | 2 watches, 1 notice and 1 error each, 1 `Rados`, 2 user `IoCtx`, 1 ioctx |
| `watch_notify` (`MCWatchNotify.cfg`) | is the response true and complete, does a notify return without its timeout; deadlock | 2 watches, 1 call, one watch notified up to twice, no error events |
| `compound_ops` (`MCCompoundOps.cfg`) | are reports and results true, do slots stay in place, are pinned writes safe; deadlock | 2 threads with clones of one `IoCtx`, 2 operations of one and 1 of the other, out of 7; 4 boxes, 2 `Arc`s; symmetric in addresses |
| `slot_pointers` (`MCSlotPointers.cfg`) | the comments on the boxes of steps; violated | those of `compound_ops` |
| `take_doc` (`MCTakeDoc.cfg`) | the docs of `ReadResults::take` on steps that did not run; violated | those of `compound_ops` |
| `arguments` (`MCArguments.cfg`) | accuracy of the conversions, and what is sent as zero; is a result one value that was there, are buffers as large as needed, does each method return; deadlock | `None` for a lock, and each group of digits at and next to its boundaries, seconds across both overflows; 4 values of each method with a buffer, changing without end |
| `timeouts_doc` (`MCTimeoutsDoc.cfg`) | the sentence of the docs of `IoCtx::notify`; violated | the same |
| `fencing` (`MCFencing.cfg`) | is a fenced client out, is the right lock broken, does a lease hold, is nobody left behind; deadlock | 2 clients of 1 thread, in 3 setups of up to 5 calls, 3 epochs, clock to 2 |
| `omap_scan` (`MCOmapScan.cfg`) | is a scan complete and true, does it end once nobody changes the object; deadlock | 4 keys, 2 values, pages of up to 2, 2 prefixes, 3 lists of keys; changes without end |
| `listing` (`MCListing.cfg`) | is a listing exact, does it end; deadlock | 5 objects, batches of up to 2; changes without end |

Why the bounds are enough. Two watches are needed and suffice for what one watch can do to
another through the shared strand: events of one ahead of the flush of the other, and a callback
that drops the other watch. Two dispatches of one notice put a running and a queued callback of
one watch side by side, and make a missing and a double ack different; a second notice would
behave like the second dispatch. One error is queued with notifications in each order. The
theorems below hold for all bounds.

Three `IoCtx` values on two ioctxs give an ioctx with two owners beside one with a single owner,
and two `Rados` values let either be the last; two threads are the most two racing drops need.
In `watched_client` one ioctx suffices because the question is only whether it outlives the
watches; the second user `IoCtx` lets user code drop the one the watch was opened with.

In `watch_notify` two watches give each mix of an ack, a timeout and a watch that goes away, and
the second delivery to a watch gives a late second ack. Calls meet only in the strand, where a
second call would look like the second delivery. That only one watch is notified twice keeps the
liveness in reach; the second watch has nothing of its own in the module.

In `compound_ops` two operations of a thread let a handle outlive its operation and meet the
results of the next, with the same address or another, and are a read and a write that pins what
was read; one of the other thread is the change in between. The seven programs are an exclusive
create, a guarded write, three guards of which each can be the failing one, a pinned write, a
remove, a guarded clear, and two reads. Two comparisons and two reads make the vector grow once.
Addresses are only compared, so the symmetry is sound. With clones of one `IoCtx` the answer to one
thread may come between the other's own answer and its `last_version`, or not; an ioctx for each,
where it cannot, is left to the theorem.

In `arguments` each buffer meets a value that is smaller, one that just fits, one that is
larger by one and one that needs two more turns; two locker lists each need more than the other in
some buffer, which is what lets the lengths of `list_lockers` go back and forth. What other
clients do has no bound. `Timeouts` and `RetryBuffers` share nothing, so they are run as one, and
the buffers are followed beside a single duration.

The setups of `fencing` are what the calls are used for, and an instance with all calls for both
threads is out of reach. *Takeover* is the test: a locks and writes, b lists, blocklists, waits,
lists again and breaks. *Competition* has leases, renewals of both kinds, unlock and break, with a
clock: two ticks let a lease of one expire and be taken again. *Eviction* has a watch. Calls of a
may be given up, so that b meets operations that come late or never; with three epochs a
blocklisting also expires, or two are on their way.

In `omap_scan` three keys behind the empty one and pages of two make a scan with a full page, a
short one and one that ends where the next begins; one key has a NUL, and a prefix selects the two
last keys. Two values tell the empty one from others. In `listing` five objects and batches of two
need three batches, and two objects share a shown name.

Deadlock is checked where it cannot be meant. It is not in `watch` and `watched_client`, where a
`Watch` dropped by a callback waits for ever (`NestedDropHangs` says that it does).

### Fairness

- A thread inside `Watch::drop` is scheduled and the OSD answers its unwatch
  (weak fairness of the steps of each drop). An OSD that never answers blocks `rados_unwatch2`,
  and the destructor with it.
- The strand runs its handlers and user callbacks return (weak fairness of `StrandStep`). A
  callback that never returns blocks every drop of the client.
- A destructor that started ends (`Handles`, `WatchedClient`).
- In `watch_notify` threads, the strand and user callbacks run, messages between the OSD and the
  watches are delivered, and the OSD forgets a watch that nobody renews. Each of these happens
  finitely often, so that one of them is taken when one can be (weak fairness of `Progress`) is as
  much as fairness for each. `Expires` is not among them: nobody waits for it.
- librados answers and the thread in the method runs (`RetryBuffers`, `OmapScan`, `Listing`).
  Other clients have no fairness and need never stop: `EachReturns` and `ListingEnds` are about
  that. `ScanEnds` is about a scan whose object is left alone from some moment on: a client that
  adds keys ahead of it for ever could keep it going for ever.
- `Fencing` has none. What must not get stuck there is said by `NoneLeftBehind` of the states in
  which everything has arrived, and by the check for deadlock.

User code is never obliged to open, drop or call. The opening of a watch carries no fairness, as
no property needs it.

## What the runs show

- `NoUseAfterFree`: every queued or running callback finds its box. It needs the flush between
  the unwatch and the free, and the assumption that a failed `rados_watch3` registered nothing.
- `AckPerDispatch`, `SettledOnDrop`, `DispatchAnswered`: one ack per dispatch, none left when the
  drop passes its flush, and all in the end, also for panics and oversized replies.
- `NestedDropHangs`, `DropCompletes`: a drop from a callback hangs in `rados_watch_flush` and
  never reaches the free. The docs warn about a Watch dropped by its own callback; the same holds
  for the Watch of another object of the same client, because the strand is shared.
- `CallsOnLiveHandles`, `DestroyBeforeShutdown`, `NothingLeaks`: drops in any order tear down in
  librados' order and only when the last call ended.
- `WatchOnLiveIoctx`, `ShutdownIsQuiet`, `ClientReleased`: user code may drop everything but the
  `Watch`; acks and the destructor still find the ioctx; `rados_shutdown` runs with no watch
  registered and nothing on the strand, so never on the strand; and it does run.
- `EveryWatchReported`, `AcksWereSent`: a watch that is there from the notification to the
  response is in exactly one of `acks` and `timeouts`, and only with a reply its callback gave.
- `BufferHandled`: `-ETIMEDOUT` becomes a response with the missing watches, and each path frees the
  buffer once, when the call is done with it.
- `NotifyNeedsNoTimeout`: since each watch acks or is dropped and forgotten, a notify ends
  without its timeout.
- `SlotsInPlace`, `TruthfulReport`: the slots librados writes to are the ones the wrapper reads,
  and the pointers of `omap_cmp` are valid when it does (those of the reads are a finding), so
  `failed_cmp` names the comparison the OSD rejected, and none when something else failed.
- `HandlesFindResults`: `take` accepts a handle only for the results of its own operation, also
  when the address of an `Arc` is reused; it does not panic; what it returns is what that step
  read, and all steps read one state of the object. There are results only of an operation in
  which each step ran, so an empty one is not that of a step that did not.
- `NoLostUpdate`: a write that pins `last_version` replaces the very object of the answer that came
  last on the ioctx when its thread asked. That is the object the thread itself last read or wrote
  unless the answer of a clone came in between, as the docs of `last_version` warn; with an ioctx
  of its own it always is.
- `NotifyWaits`, `ExpiresWithinUnit`: from the unit on, what is sent is what was asked to the unit:
  a notify waits no more than a second longer, a lock and a blocklist entry are never asked for
  longer. Below the unit, and for a lock without a duration, zero is sent, which means the default
  of librados to a notify, for ever to a lock and the default of the cluster to a blocklist entry:
  a lease below 1 us never expires, although the docs give that meaning to `None`. This happens
  exactly there.
- `Snapshot`: a result is one value that was there during the call. No list of pools is cut short
  and no locker has the cookie of another, however the lengths go back and forth.
- `BuffersFit`, `EachReturns`: a buffer grows only for something that was there, to less than
  twice of it. `getxattr` and `list_pools` return even if what they ask for never stops changing;
  `list_lockers` may go on for ever, but only while the lockers keep changing, since it also gives
  up room it had.
- `FencedStaysOut`: after blocklisting, waiting for the map and one more operation, nothing of the
  blocklisted client has an effect, not even what was on its way, until the blocklisting expires.
- `BreakHitsSeen`: `break_lock` names a client and a cookie, so in general it may hit a later lock
  of the same locker. It hits the lock that was listed if the holder was fenced before
  `list_lockers`.
- `LeaseHolds`: a thread to which `lock_exclusive` returned has the lock for its duration, counted
  from the start of the call. That must be given up from the start of an unlock, and cut from the
  start of a renewal for less, because both may be executed although the call was given up.
- `NoneLeftBehind`: no operation is held for a map that does not come, no wait is for a map that
  nobody makes, and a blocklisted client does not take itself for watching once its `on_error` has
  been called.
- `ScanComplete`, `ScanTrue`, `ScanEnds`: a scan that succeeds has each key that was there
  throughout, has no key twice and none that was never there; a key with a NUL at the end of a
  page ends the scan with an error and not with a gap. It ends once nobody changes the object.
  The paged calls never show the empty key; `omap_get_vals_by_keys` does.
- `ListingExact`, `ListingEnds`: a listing that succeeds has each object that was there
  throughout, and no listing has an object twice or one that was never there.

### Findings

Three runs refute what a sentence of the repository says.

`timeouts_doc` refutes the docs of `IoCtx::notify`: the timeout is said to be "rounded up to
whole seconds" since "a sub-second value would otherwise reach the OSD as 0", and
`Duration::ZERO` to be the one value that keeps that meaning. `as_millis()` truncates before
`div_ceil`, so 1 ns (anything below 1 ms) is sent as 0 and the notifier waits for the default of
30 s.

`slot_pointers` sets two comments against each other. That of `omap_cmp` says of the box of its slot
that "moving a Box by value into the Vec afterwards would invalidate a pointer derived from it", and
pushes first. `ReadOp::read` and the omap reads of `ReadOp` point first and pass the box by value to
`push` afterwards, while `Step` is documented to stay put until librados has written through the
pointers. The slot does not move, so the write lands; the pointer is one the language does not
allow to be used.

`take_doc` refutes the docs of `ReadResults::take`, that a step that did not run since an earlier
one failed "reports `prval` 0 and yields its empty result": `operate` returns the error in that
case, and there are no results to take from.

## Proofs

`tlapm` checks these for all values of the constants that satisfy the modules' `ASSUME`s:

- `WatchProofs`: `TypeCorrect`, `MemorySafety`, `OneAckPerDispatch`, `DropSettles`,
  `NestedDropDeadlock` and `Refinement`, for any sets of watches and notices, any bounds and any
  choice of drops in callbacks. No fairness is used.
- `HandlesProofs`: `HandlesTypeCorrect`, `CallSafety`, `TeardownOrder`, for any number of values,
  ioctxs and threads.
- `WatchedClientProofs`: `ClientWatches` and `ClientHandles` (the composition implements each of
  its parts), `WatchesKeepIoctxAlive`, `QuietShutdown`.
- `WatchNotifyProofs`: `NotifiedWatches` (the composition implements `Watch`),
  `NotifyTypeCorrect`, `CompleteResponse`, `GenuineAcks`, `BufferCare`, for any number of watches
  and concurrent calls.
- `CompoundOpsProofs`: `CompoundOpsTypeCorrect`, `SlotsAreInPlace`, `ReportsAreTruthful`,
  `HandlesAlwaysFindResults`, `NoUpdateIsLost`, for any number of threads and ioctxs, however they
  are shared, operations of any length and any allocator.
- `ArgumentsProofs`: `NotifyAccuracy`, `ExpiryAccuracy`, for every `Duration`, or none, and every
  width of the integer types; `RetriesReturnSnapshots`, `RetriesFitBuffers`, for values and first
  buffers of any length and any number of retries.
- `FencingProofs`: `FencingTypeCorrect`, `FencedClientsStayOut`, `LeasesHold`, `NobodyIsLeftBehind`,
  `BreaksHitWhatWasSeen`, for any number of clients and threads that make any of the calls in any
  order, with any number of maps and any durations.
- `ScansProofs`: `OmapScanTypeCorrect`, `ScansAreComplete`, `ScansAreTrue`, for any number of keys
  and pages of any size; `ListingTypeCorrect`, `ListingsAreExact`, for any number of objects and
  batches of any size.

The invariant of `Watch`. `NoUseAfterFree` is not inductive: nothing in it says that the queue of
a watch is empty when its box is freed. `IInv` adds to it, and to the types,

- `BoxFollowsOwner` and `LingerFollowsOwner`: the stages in which the box is live, and those in
  which the watch may be registered;
- `QueuedWhileWatched`: an event of a watch is queued only while the watch is registered or its
  owner has yet to pass the flush, and a flush handler only while its owner waits for it;
- `FlushIsLast`: nothing of a watch stands behind its flush handler;
- `HeadIsRunning` and `DropsBlockCallback`: what `callback` and `nested` say about the head.

`FlushIsLast` is the argument of the SAFETY comment of `Watch::drop`. It survives each step because
an event is appended only for a registered watch, and a watch in "flushing" is not registered, so
when the flush handler reaches the head no event of its watch is left. `AckPerDispatch` adds a
count of events, carried by lemmas about `Cardinality` under `Append` and `Tail`.
`NestedDropHangs` is itself a part of `IInv`: the flush handler of a nested drop stands behind the
head, and the head cannot return before the drop does. `Refinement` uses the invariant at each step
to show that the mapped step is one of the contract or a stutter.

The invariant of `Handles` (`HInv`): values share only live ioctxs, calls borrow only existing
values, and the client is live as long as anything owns it.

The two compositions reuse these invariants: each first shows that its steps are steps of its
parts, instantiates the proof modules, and adds only what couples the parts.

- `WatchedClientProofs` adds `OwnInv`: the thread that opens a watch stays in a call on the user's
  `IoCtx` (`OpensInCall`), and the stages in which the box and the `Watch` own their `IoCtx`
  (`StateOwnsIo`, `WatchOwnsIo`). `OpensInCall` is what makes the clone into the `Watch` a legal
  step of `Handles`, so `ClientHandles` and the invariant are proved together. A queued callback
  then has a stage (`QueuedWhileWatched`), the stage an `IoCtx`, that a live ioctx, and that a
  live client.
- `WatchNotifyProofs` adds `NInv`: a watch the OSD has is registered or past `rados_watch3`,
  and one it has had is not opened anew (`OsdFollowsOwner`), each watch asked and not forgotten
  is missing or has one ack (`MissingOrAcked`), each ack was sent (`AcksBacked`), and what the
  stages of the call say about its results (`CallStage`). A dropped watch is never opened
  again, so a watch the OSD has when the call ends was never forgotten meanwhile.

The invariant of `CompoundOps` (`CInv`) has, for each thread,

- `BuildInv`: what librados was given is a prefix of the program, an operation has an `Arc` and
  boxes only while it exists, and the k-th box is the slot of the k-th step that has one
  (`BoxesInOrder`);
- `SlotsHold` and `ReplyTells`: what is in the slots and in the return code at each stage, by the
  verdict of the OSD;
- `HandlesOfOp` and `HandlesApart`: a handle with the `Arc` of the operation is one of its reads,
  a step has one handle, and the results that are kept never have the `Arc` of the operation;
- `ReportTrue` and `ResultsFound`, the properties of a thread;

and, of all threads, `BoxesApart`: no address is in two places. Since the position of a box is the
number of slots up to its step, `BoxesInOrder` is about cardinalities: a step with a slot counts
one more than those before it (`SlotsInCount`, `SlotsInAppend`), and so `failed_cmp` and the index
of a handle are right. The reuse of an `Arc` is where the properties are not inductive: `take`
compares addresses only, and it is `HandlesOfOp` with `HandlesApart` that excludes an old handle
with the address of new results. `VersionInv` adds for `NoUpdateIsLost` that an object a thread has
met is older than the one that is there, or the same (`Older`), and that what `last_version`
told it is the version of such an object, which is the one of its own operation if no other answer
came on the ioctx. Two such objects with one version are the same.

The invariant of `Fencing` that keeps a fenced client out (`FInv`) follows what is known of a
blocklisted client along the way of the calls. `KnownFrom(c, e)` says that every map from epoch e
on blocklists c. It holds of the latest map for those a thread has blocklisted (`ListedKnown`),
hence of the epoch a wait is for (`WaitKnown`), of the map of the client that has waited
(`BarrierKnown`), of the stamp of the operations it then sends (`MessagesKnown`), and of the map
of the OSD that executes one (`FencedKnown`). `MessagesOwn` says that the OSD never answers a
wait.

The invariant of leases (`LInv`) has the lock's expiry against what the thread was told: the lock
expires no earlier than a lease that is counted on (`LeaseBacked`) or is about to be told
(`AnswerBacked`). A renewal or an unlock that is still on its way has been allowed for when it was
sent (`AllFit`); nothing of a thread whose call is answered is on its way, since operations of a
client are executed in order (`InOrder`, `AnsweredIsLast`).

That nobody is left behind (`RInv`) needs three more facts: what waits for an answer of the OSD is
in a queue (`SentQueued`), the OSD keeps no watch of a client that its map blocklists
(`WatchOutside`), and, for `BreaksHitWhatWasSeen`, a holder that was fenced when it was listed stays
out, so its lock is still the one that was seen or is not there (`SeenFenced`).

`Timeouts` has one step, so its properties are inductive; the work is in the arithmetic of
`NotifyRounding` and `Truncation`, and of `UnderUnit` and `NotZero`, which tell what is sent as
zero. For the buffers (`BInv`) it is what an answer of librados says: `Tells(v)` gives the return
code, lengths and contents that a value v explains, and `AnswerTrue` says that there is one among
the values found during the call, and that it is the one found now unless that has changed since.

The invariant of a scan (`OInv`) says what is known of the key that is followed: the pages so far
have it if it is up to the cursor (`PagesDone`), and the page that was read has it or ends before
it (`PageTrue`). The key is chosen by `Init` and never changes, so what holds of it holds of each.
The invariant of a listing (`ListInv`) has a function from the places in the list to objects
(`NamesMatch`): no two names stand for one object, each was handed out, and no object that was
there throughout and lies up to the position is missing from both list and batch.
`ListingsAreExact` then compares cardinalities (`CountNames`), since two objects may share a name:
the function is one-to-one, and at the end it reaches every object that stayed. That pages and
batches are read in order rests on a least element of a set of numbers (`Least`), which follows
from well-founded minima.

Only model-checked is liveness, which `tlapm` cannot prove: `DropCompletes`, `DispatchAnswered`,
`NothingLeaks`, `ClientReleased`, `NotifyNeedsNoTimeout`, `EachReturns`, `ScanEnds`, `ListingEnds`.
Every safety property of a run that holds is proved. No module uses a recursive operator, so
nothing had to be left out for the induction over data that the provers cannot do.

## Not modelled

The generated bindings (`src/ffi.rs`), `build.rs`, the scripts in `hack/` and the tests hold no
state of the wrapper. `connect`, `conf_*` and the pool calls are one foreign call each with
nothing around it: they are calls through a live handle in `Handles`, and steps of other clients
in the later modules. `version()` of `lib.rs` keeps nothing. The byte layouts of the replies of
`rados_notify2`, `rados_list_lockers` and `rados_pool_list` are abstracted to what they stand for.

## Plan

1. `Watch`, `WatchContract`, `Handles`, `WatchedClient`, `WatchNotify`, `Timeouts`,
   `CompoundOps`, `RetryBuffers`, `Fencing`, `OmapScan`, `Listing`: done, with the proofs of all
   their safety properties.
2. An abstract specification of `CompoundOps`, an atomic object, and the refinement.
3. A second thread of one client in the run of `Fencing`, where both share a queue and a map; the
   theorems cover it already.
