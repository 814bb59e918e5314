# A verification of bee.lua

bee.lua is a runtime library for Lua written in C++: asynchronous I/O, sockets,
threads and channels, subprocesses, file watching, file system and platform
helpers. This directory holds TLA+ models of the parts whose correctness
depends on the order in which things happen, the TLC runs that check them, and
proofs about them that TLAPS checks. Every definition names, in `PROJECT.json`
("map"), the lines it stands for.

Run a check with `tlc -config MCChannel.cfg MCChannel`, a proof with
`tlapm EventProofs.tla`.

## 1. Inventory

One Lua state runs in one thread. Threads of `bee.thread` have a Lua state each
and share only what C++ shares between them: channels, the registry of channel
names, the error log and the atomics under semaphores. Everything else is
sequential code over callbacks, system calls and kernel queues: there the hard
orders come from what the script does between two calls, from what the kernel
and the peers do at any time, and from batches that are iterated while the
thing they describe changes.

| component | state | operations | interacts with | hard behaviour | what makes it correct |
|---|---|---|---|---|---|
| **luaref** `bee/lua/luaref.cpp` | the stack of a Lua thread, a free list in slot 1 | ref, unref, get, set, isvalid | pins of async, epoll and select bindings | releases in any order, twice, of any integer; the stack limit | a reference is nobody else's until released; freed slots hold nothing; the stack shrinks |
| **channel** `binding/lua_channel.cpp`, `bee/net/event.cpp`, `bee/thread/spinlock.cpp` | a queue, a spinlock, an event (flag and socket pair) | push, pop, clear, fd | every thread; pollers wait on fd | lock-free flag against the pipe, consumers that race | mutual exclusion, FIFO, no lost wakeup |
| **threads and the channel registry** `binding/lua_thread.cpp`, `simplethread_posix.cpp`, `channelmgr` of `binding/lua_channel.cpp` | OS threads, their ids and arguments, the error log, name to shared channel, the boxes of every Lua state | create, wait, errlog; channel create, query, destroy, reset | channels, the host | failure between two owners of a block, ids minted without a lock, a channel used after it was destroyed | every block has one owner and is freed once, one channel per name, no box outlives its channel, an error can be read after the join |
| **semaphore** `bee/thread/atomic_semaphore.h`, `atomic_sync.cpp` | a counter and a futex | release, acquire, timed acquire | GCD backend, crash handler | a release racing a timeout | no lost release |
| **async interface** `bee/async/async.h` | the requests accepted and not reported | submit_*, poll, wait, cancel, stop | bindings and backends | | every request is reported at most once, none invented or lost |
| **async backends** epoll, io_uring, kqueue, GCD, IOCP | per socket requests and registration masks, queue of synchronous completions; rings | the interface's | the kernel | readiness that changes, a span too short for the events, both directions in one event, cancel, numbers reused | they implement the interface; what is ready is served |
| **async binding** `binding/lua_async.cpp`, `write_buf.h`, `read_buf.h` | pins, queues of strings, ring buffers, the batch being iterated | submit_*, poll, wait, the iterator, cancel, stop, buffer methods | luaref, a backend, the script | partial writes resubmitted from the iterator, refusals, abandoned iterators, closes | buffers outlive requests, streams in order, every pin released |
| **epoll binding, bpoll** `binding/lua_epoll.cpp`, `bpoll_*.cpp` | fd to reference, a batch of events | add, mod, del, wait | luaref, the kernel, AFD on Windows | registrations that change while a batch is iterated | an event delivers its own registration's value |
| **select binding** `binding/lua_select.cpp` | fd to value, fd sets | add, mod, del, wait | | the same | the same |
| **AFD poller** `bee/win/afd/` | socket states, update queue, a poll per object in the driver | add, mod, del, wait | the AFD driver, a completion port | cancelled polls completing later, a queue changed under iteration, handles reused | the driver holds addresses of live objects only, every change of a mask reaches it, what is ready is reported |
| **subprocess** `bee/subprocess/`, `binding/lua_subprocess.cpp` | pid and status of each handle, descriptors of a spawn | spawn, wait, is_running, kill, detach, collection | the kernel's processes and descriptors, other threads | a pid waited for and reused; children reaped by others; failing halfway through spawn | a handle reaps and signals its own child or nobody; a descriptor is closed once, unless stderr shares stdout's |
| **filewatch** `bee/filewatch/` | descriptor to path, pending changes | add, remove, select | inotify | events of watches removed meanwhile | a path names a live watch |
| **flatmap** `bee/utility/flatmap.h` | robin-hood table | find, find_or_insert, insert_or_assign, erase, clear, reserve, rehash | AFD poller, async backends | displacement, backward shifts that wrap, growth and shrinking | it is a function from keys to values, and no entry is farther from home than there are entries |
| sockets, file system, platform, time, serialization, crash handler | none, or that of the system | wrappers | | | not modelled, section 7 |

`PROJECT.json` lists the hazards of this code at their lines, with the
properties that watch them; four have none, and a note says why.

## 2. Plan

In place:

1. `RefTable`, `LuaRef`: the references everything else pins with.
2. `Channel`, the only lock of the library, opened up; `Threads`, which takes a
   channel's operations as steps and follows what crosses threads: blocks, ids,
   errors, channel objects.
3. `AsyncIface`, what a backend of `bee.async` promises, and three backends that
   implement it: `AsyncEpoll`, `AsyncKqueue`, `AsyncUring`. `AsyncBinding` composes
   `AsyncEpoll` with `LuaRef` and the Lua side.
4. `EpollBinding`, which composes `LuaRef` with the kernel's registrations and a
   batch that is iterated while they change; `AfdPoller`, the same interface built by
   hand on Windows; `KeyMap` and `Flatmap`, the table under both.
5. `Subprocess` against the kernel's processes and descriptors.

Left, in order of worth:

1. `Semaphore`: the counter, the futex and the deadline of `atomic_semaphore.h`.
2. `ReadBuf`: the ring of `read_buf.h` (wrap, free region, find, consume) against a
   sequence of bytes, under the counts `AsyncBinding` keeps.
3. `Filewatch`: watches that end while their events are queued.
4. `SelectBinding`: the fd sets that are iterated while sockets are deleted.

One run per component asks all that is asked of it, and one more shows what the
library does against its own documentation. Each run keeps the properties that a
mutated definition can break and that no other property of the run implies.

## 3. The modules

**RefTable** is what `luaref.h` promises: a set of held references with values;
`Acquire` gives a reference nobody holds. **LuaRef** is `luaref.cpp`: `tbl.top`
is `lua_gettop(refL)`, `tbl.slot` the stack above the free list, `tbl.free` the
keys of the free list. `Ref` takes any free slot (the code takes what `lua_next`
gives first, in an order Lua does not define) or pushes. `Unref` is given every integer, held or not;
`AfterShrink` is the loop that pops free slots off the top. Its operators are
functions of a table, so that `AsyncBinding` uses them on its own.

**Channel** has one step per operation on shared memory or the socket pair of
`channel::push`, `pop` and `clear`, with the spinlock's inner load loop
(`Spin`) and the event's flag and byte (`SetFlag`, `Send`, `TestFlag`, `Recv`)
apart. A consumer may `Wait` until the pipe is readable, as a script does with
`channel:fd()` in an epoll loop.

**Threads** is a host and its workers, each with a Lua state, at the operations that
touch shared memory. A `Block` is what `malloc` returned for packed arguments or a
message; `live` are those not freed. `CreatePack` to `Spawn` or
`SpawnFails` are `lcreate`: it owns the arguments in `params` until the new thread has them,
which frees them when it has unpacked them (`Load`) or cannot (`LoadFails`).
`LoadId` and `SwapId` are the loop of `gen_threadid` (a spurious failure of the
weak exchange repeats it). `channels` is the registry, `mutex` the name a
`destroy` holds it for between emptying the channel and removing it, `boxes` the
`shared_ptr`s of every state; `alive` ends with the last of them. Creating a name
twice and an event that cannot be opened change nothing. History: `failed` and `read` (errors raised,
and returned by `errlog`), `cleared` and `late`: a block pushed on a channel after its `destroy`
emptied it is not freed when the channel's last box goes. That leak is real and bounded
by `EachBlockOneOwner`, which allows no other. Left out: memory running out inside
`luaL_openlibs` before the thread's script is loaded, and a second `wait` on a thread,
which the C++ library leaves undefined.

**AsyncIface** is the contract of `async.h`. **AsyncEpoll** is the Linux backend:
`state` is `m_fd_states`, `sync` is `m_sync_completions`, `armed` is what the
kernel has of it. `Submit` is a `submit_*` that was accepted (a refused one
changes nothing, and the binding's module models what follows from it);
`FdArm` chooses ADD or MOD as the code does and fails where the kernel fails.
`poll` and `wait` are cut where the outside world can interfere: `Begin` (the
synchronous completions), `Fetch` (epoll_wait), one `Handle` per event, `Return`.
`Arrive` and `Depart` change readiness between any two of them, so that
`recv`, `send` and `accept` may say wait after epoll said ready. `list` is epoll's own
ready list, in the kernel and so external: a socket enters it at the end when it shows an
event, `epoll_wait` looks at it from the front until it has `kMaxEvents` events
(`Reached`), puts what it reports back at the end, in order (`ListAfter`), and
`EPOLL_CTL_MOD` leaves a socket its place. Events are handled in that order, so that it is
this list, and no fairness, that says whose turn it is.

**AsyncKqueue** is the BSD and macOS backend. `pending` is `m_pending_ops`, which owns the
requests; `kq` the kernel's one-shot events by socket and filter, each with the address
of a request as its udata. `PollOrWait` starts a call with what was completed at once,
`kevent` fetches a `batch` (which ends those registrations), and each event is reported,
registered again (or reported with `EAGAIN` when the kernel refuses that, `rearm_refused`),
or, once the span is full, dropped. Three sets of history say how
a request can be given up: another of the same filter took its event over (`replaced`), its event was
fetched without room for it (`dropped`), or its socket was closed without `cancel`
(`lapsed`). Completions carry their id only.

**AsyncBinding** extends `AsyncEpoll` with the Lua side. A request id is the pair of
references that `pin` packs into `request_id`; `refs` is `lua_async::refs`, a
table of `LuaRef` whose operators it instantiates. With that table's stack at its limit
`luaref_ref` returns `LUA_NOREF`, for one value or both, and the request goes on with it, as
in the code; the values that a failed call leaves on the caller's stack are not modelled
(among them the light userdata of a file read's buffer, which is never freed then). `luaref_get` asserts
that the reference is valid: an iterator that comes to such a completion takes no step.
`OneUnpinned` is a bound: one such request at a time, since two could have the same id.
`MaxRequests` is another: how many requests may be outstanding with a given udata.
`async_completions` is one
step of the iterator and includes `wb_on_completion`, which resubmits what a
write left. Variables marked "history" hold no program state: they record what
was submitted (`asked`), written (`wrote`), taken by the kernel (`wire`) and
forgotten (`leaked`), so that properties can compare. Sums over a queue (`Unsent`, `Queued`)
and the loop of `write_buf::consume` (`Passes`, a `Pass` per string) are recursive
functions, not recursive operators, so that the proofs can unfold them.

**AsyncUring** is the io_uring backend. `sq` and `cq` are the two mapped rings
with their free-running counters (`% Wrap`), `iov` is `io_pending`. `wait` is cut
where the kernel can act: `Call` and `Probe` up to a system call, `Enter` (the
kernel takes any part of the submission ring, and waits only if it took it all), `Unblock`,
`Load` (the tail), `Copy` (the loop, and the head that is stored if anything was
copied), `Flush`. The kernel's side is external: `Complete` and `Expire` post to
the completion ring or, when it is full, to the kernel's list (`backlog`), which
it moves back only when it is entered for events. `extArg` is the kernel's
feature, `ext` what the backend believes of it. Locals of a call have their
initial value between calls, and the slots the kernel has taken are blank: neither
is read again.

**EpollBinding** is `bee.epoll`. A registration lives in `kernel` (by number), in
`refOf` (the user-value table, by the Lua object the script passed: a socket's
userdata or its number as lightuserdata) and, on kqueue, in `state`, the map
`bpoll_osx.cpp` keeps; its value is in `refs`, a table of `LuaRef`. `platform`
chooses between the two kernels' rules in the initial state. `event_add` is cut in
its outcomes: done, refused by the kernel (with its release of the reference), and
thrown out of by `luaL_checkinteger`. On kqueue an add is two changes, one for each direction: `half` holds
the numbers that are registered for one direction only, by an add that failed for the other
(`CtlAddHalf`), with the reference the binding has released; such a registration reports
events, and `event_mod` and `event_del` change it and fail (`CtlModHalf`, `CtlDelHalf`).
A registration does not end by being reported: `EPOLLONESHOT` only disables it on Linux, and
`bpoll_ctl` of kqueue refuses it with `EINVAL` (`AllowBpollEvents`, `bpoll_osx.cpp:15` and
58-61, has neither `oneshot` nor `et`, so the lines about `EV_ONESHOT` and `EV_CLEAR` are never reached
with the bit set). `wait` fetches any batch the kernel may report, and
`rest` is what the iterator has not reached. Event masks and readiness are left to
this choice. History: `said` (what the script last associated under a key), the
`key` of an event (`Gone` once its registration ended), and `strayed` (the script
closed a socket it had not deleted, mixed keys, or passed events that are no integer).

**AfdPoller** is `bee/win/afd/`: an object (`poller_fd`) per registered socket, with at
most one poll in the driver. `poll[o].at` says who has it: the kernel, the completion port,
or the batch `wait` is feeding. `wait` is cut into the loop over `update_queue` (its order
is a hash's, so it takes the objects as a set), `dequeue`, one `feed` per completion, and
the return. Submissions and cancels may fail, the driver may answer, fail, or find the socket closed
at any time. The update loop may erase the object it stands on and skip its successor:
`missed` records that, and the model shows that it takes a socket that was closed
before it was deleted (`strayed`). A poller that is closed leaks the objects that
await their poll; nothing runs after that. Event bits are a set of directions and `err`.

**KeyMap** is a function from keys to objects. **Flatmap** is the robin-hood table:
buckets with their distance from home, the displacing insertion, the backward shift of
an erasure, load factor, growth and the shrinking rehash. An entry pushed
`kMaxDistance - 1` from home makes the code rehash in the middle of an insertion; the model stops
there (`strained`), since it takes 127 entries with one hash to get there. The loops are
recursive functions of the number of turns (`Turns` of an insertion, `Backs` of an erasure,
`Rebuilt` of a growth), so that the proofs can follow them; since a bucket is always free, as
many turns as there are buckets end every loop, which the proofs show.

**Subprocess** is `subprocess_posix.cpp` and its binding. `proc` is the process table: a
pid that is reaped is free for other processes. `open` is the descriptor table, in which
other threads open and close too; `fds_` what a spawn holds in it until it has started the
child or failed; `Zero` is descriptor 0, which the loops of `spawn::exec` take for no
redirection (`fds_[i] > 0`): it is neither duplicated nor closed. A pipe whose `fdopen` fails is
left open at both ends, and the spawn goes on without it (`adrift`, history). `wait`, `is_running`, `kill`, `detach` and the collection of a handle are actions; a
program that ignores `SIGCHLD` (`autoreap`) has no zombies. History: the `code` each child ended with,
handles collected while their child ran (`warned`), handles whose signal hit another
process while their own child was in the table (`astray`), and spawns that closed a descriptor another thread had
been given meanwhile (`stolen`).

## 4. The runs

| run | instance | distinct states | what it shows |
|---|---|---|---|
| `luaref` | two values and nil, 8 stack slots | 3,018 | what is released is given back (the stack never exceeds the largest number of references held at once, and freed slots hold nothing), and `LuaRef` implements `RefTable` |
| `channel` | 2 producers, 2 consumers, 1 destroyer, 3 messages | about 1.3 million | readable, with one byte, exactly when a message is queued (outside the lock), FIFO, and under fairness every message leaves |
| `threads` | the host and 2 workers, 2 channel objects, 1 name, 2 blocks, ids up to 3, symmetric | 3.8 million | every block has one owner or is one of the late messages above, registry and boxes name live channels, ids differ, and the error of a thread that failed can be read once it is joined |
| `async_epoll` | 2 sockets, 6 requests, a span of 2 | 254,172 | masks agree with the kernel, no blocking while something is queued, `AsyncEpoll` implements `AsyncIface`, and what stays ready is served, under two premises, below |
| `async_kqueue` | 2 sockets, 4 requests, a span of 2, batches of 3 | 203,632 | every udata in the kernel or in a batch is a pending request, in one of them only, a request that is in neither was given up in one of the three ways above, `AsyncKqueue` implements `AsyncIface`, and what stays ready is served unless it was given up |
| `async_binding` | 1 socket whose number is reused once, 1 write_buf, 1 read_buf, all kinds of requests, 7 stack slots | 3.0 million | pins, streams and buffers, below |
| `async_uring` | 2 requests, rings of 2, counters modulo 4, a span of 1, both kinds of kernel, 2 timeouts | 44,645 | no entry is overwritten, lost or copied twice (`ImplementsIface`), the iovecs live exactly as long as the kernel may read them, and what completes is reported unless the backend's own timeouts have filled the ring |
| `epoll_binding` | 2 socket objects, 2 numbers, 1 value, 4 references, batches of 2, both kernels, symmetric in objects and numbers | 2.3 million | under every script, and adds that kqueue takes up by half, the reference in a registration that was accepted is live and kept under a key of that socket, an event delivers its own registration's current value while that is in place; under a careful script nothing leaks and kqueue's map agrees with the kernel |
| `afd_poller` | 2 sockets, 2 objects, 1 direction, room for 1 event | 394,212 | the driver and the port hold live objects only, every mask the script sets is asked for or queued, and what stays ready is reported |
| `flatmap` | 6 keys with colliding hashes, 2 objects, tables of 8 to 32 buckets, `kMaxDistance` 4 | 14,116 | the table implements `KeyMap`, and a distance stays within the number of entries |
| `subprocess` | 2 handles, 2 pids, 3 descriptors, one of them number 0, exit codes 0 and 1, symmetric | 850,142 | a status is the child's own, while a handle's child is in the process table its signals reach that child and nobody else, a spawn leaves none of its descriptors open but number 0 and pipes it gave up on, and closes one twice only if stderr shares stdout |
| `refused_resubmission` | as `async_binding`, two write_bufs, reads and writes only, no failures of `epoll_ctl` | | violation of `WriteSuccessMeansSent` |

The properties of `async_binding`: a request's references hold its own buffer and
udata until it is reported (`PinsHeld`); every reference that is held belongs to
a request that will be reported, or to one that `cancel`, `stop` or an abandoned
iterator dropped (`PinsAccounted`); a write_buf has one write under way, whose
strings are still in the queue, and its high-water mark counts what is queued
(`WriteBufSound`); that write starts at the first byte the kernel has not taken, after
any number of partial sends (`StreamInOrder`), and never goes to another socket with the same number
(`WritesStayOnSocket`); committing never exceeds the read_buf (`ReadBufWithinCap`).

### Why the bounds are enough

- `luaref`: the free list, the top and a released slot interact through at most
  three slots (the one released, its neighbour below, the next one taken); five
  references give every shape of free list around them.
- `channel`: one thread inside the lock, one about to enter, one beyond the pipe;
  two of each role and three messages let a push and a pop overtake each other
  twice. The proof covers any number.
- `async_epoll`: both directions of one socket, a second socket in the same
  batch, queued completions, and a span too short for all of them. Two requests take
  turns in the one direction of the first socket, which therefore always has one, and two
  file requests take turns in the queue, so that one slot of the span is left in each
  call: what they leave the read of the second socket is what `ReadyIsServed` is about.
  Here `kMaxEvents` is 2, so that one `epoll_wait` can report both sockets; in the code it is
  64. Requests are of one byte; partial transfers, accepts and connects are in `async_binding`.
- `async_binding`: two bytes per stream give a string sent in part and two
  strings of one byte. `luaref_ref` asks for three spare slots and the first slot is the
  free list, so seven slots hold four references: a read and a write of two each, after which
  (or after what cancelled and abandoned requests left behind) the next request is
  submitted with `LUA_NOREF` for its buffer, its udata or both. Writes, of which the code must
  keep one per write_buf itself, are outstanding beside at most one request of any other kind
  (`MaxRequests`): what else is under way meets a request only through the half of a socket it takes
  and through the references it holds, and dropped requests take references as well. The limit also stands for
  memory running out in `luaref_ref`, and is met although there are free slots
  below the top, as in the code. No request is `Wanted` there since the binding makes
  them.
- `async_uring`: counters that wrap after two rounds of the ring put every head and
  tail at every offset, two requests and two timeouts overfill both rings, and a
  span of one leaves entries behind. Requests reuse their ids for ever.
- `epoll_binding`: two numbers and two objects give a number that is reused by
  another object, two registrations in one batch, and four keys; the table of references
  is small enough to fill up ("Too many events."), and its slots are reused within a batch.
- `threads`: three minters of ids, a channel that is created, emptied and created
  again under its name by another thread, a block in every place that owns one, and a worker
  that starts another. Ids and OS threads run out, so the run does not check deadlock.
- `async_kqueue`: two requests of one filter on one socket (one takes the other's event
  over), both filters of it, and a batch one longer than the span, so that an event is dropped.
  Every event that can fire fits into a batch: the kernel's order does not matter.
- `afd_poller`: two objects, so that one is skipped while another is deleted, and
  addresses and handles reused by each other; a batch of one completion leaves one in
  the port. A closed poller stops.
- `flatmap`: six keys fill the smallest table to its load factor, grow it, and shrink it again;
  two hash values next to the end of the table make probes and shifts wrap. A strained
  table stops.
- `subprocess`: one pid per child and none to spare, so every pid is reused; both
  descriptors of a spawn and one more, which makes a pipe that is given up on beside one that
  is not, and another thread that is given any of them. Handles, pids and descriptors run out,
  so the run does not check deadlock.

In `async_uring` and `epoll_binding` a stopped backend and a closed binding do nothing more,
so these runs do not check deadlock either.

### Fairness

- `channel`: a thread inside an operation keeps running and a consumer keeps
  consuming (weak fairness of their steps). The spinlock is not fair, and no thread
  is promised that it gets in: a message needs only that somebody does. Producers
  and the destroyer are not obliged to call.
- `async_epoll`: the script keeps calling `poll` or `wait` and its calls run to
  their end; it does not for ever call only when synchronous completions are queued
  (`SF` of the call that reaches the sockets). Nothing is assumed of peers, nor of which
  socket is served: that follows from the ready list. `ReadyIsServed` shows what is
  true: a read that stays ready is served, a write is if reads on its socket do not keep
  completing, as long as one `epoll_wait` can report every socket and no other socket has
  requests in both directions again and again.
- `async_kqueue`: the same of the script: it keeps calling, not for ever only when queued
  completions keep `poll` from the kernel; its calls run to their end.
- `afd_poller`: `wait` runs on and is called again. A driver call that may fail does not
  fail every time (`SF` of the update that succeeds), the port is a queue (`SF` of a dequeue
  that includes the object), and the driver answers what it can.
- `async_uring`: the script keeps calling `poll` or `wait`, in any mixture; calls
  run on when the kernel lets them; timeouts expire. Requests need not complete.

### Where the code disagrees with what is said of it

`refused_resubmission` is a run: the rest of a write sent in part is dropped when its
resubmission is refused, and the completion says success.

The modules show more, which the passing runs leave out by a constant, an
exception in a property or a history variable; each is one change of a cfg away:

- `MCAsyncUring` with `Kernels = {FALSE}` and `CompletedIsReported`: before 5.11
  every timed wait that expires leaves an entry in the completion ring, since the head is
  stored only together with a request's completion. While one is there every later wait
  returns at once; when they fill the ring no completion is reported again.
- `MCEpollBinding` with `GetIsValid`: `event_del` releases the reference while events
  fetched before still carry it; the assertion of `luaref_get` fails, or, without
  assertions, the loop ends early on a nil or delivers another socket's value.
- `MCAsyncBinding` with `RequestsArePinned`, which a comment says of `pin` (`lua_async.cpp:282`): a
  request is submitted although `luaref_ref` failed for its buffer or udata (`pin`, `pin_udata` and
  `alloc_read_buf` do not look). The buffer may be collected under the kernel, and the completion
  runs into the assertion of `luaref_get` or, without assertions, reads a slot of another request.
- `MCEpollBinding` with `FetchedIsValid`: an `event_add` that kqueue refuses for one direction leaves the
  other one registered, with a reference that is free; its event runs into the same assertion.
- `MCAsyncEpoll` without the premise `OthersOneWay` of `ReadyIsServed`: a socket with a
  write that waits and a read that is always ready and submitted again is only ever modified, keeps
  its place ahead of the others, and with one slot left in each call takes it every time; the
  other socket's read starves. The run's instance shows it. Without `Cardinality(Fd) <= kMaxEvents`
  (three sockets, `kMaxEvents` 2, `Room` 1) it happens with reads alone: one of the two sockets that
  are reported takes the room, the other one goes back to the end of the list unserved, and comes second again.
- `MCAsyncEpoll` with `CancelFirst = FALSE`: a socket closed without `cancel`, which the
  documentation says matters on Windows only, leaves a mask behind that the kernel
  has forgotten; the next request on a socket with that number is refused.
- `MCAsyncBinding` with `OneReadPerBuf = FALSE` and `MaxRequests` as in `refused_resubmission`: two reads into one read_buf are given the same
  free space, and `size() <= cap` fails where the assertion is compiled out.
- `AsyncKqueue`'s `replaced`, `dropped` and `lapsed` are requests that are never reported.
- `Threads`' `late` messages are never freed.
- `AfdPoller`'s `missed` objects keep a mask the driver is not asked for.
- `Subprocess`: redirecting stderr to stdout closes one descriptor twice, and in between
  another thread may have been given its number (`stolen`); a stream redirected to
  descriptor 0 (stdin was closed) is not redirected and the descriptor stays open; both ends of a
  pipe stay open when `fdopen` fails (`Kept` excepts the two from `DescriptorsClosedOnce`);
  `kill` on a detached handle signals pid -1, everybody.

The passing binding run assumes a script that keeps one read per read_buf, cancels
a socket and closes its write_buf before it closes the socket
(`CancelFirst`, `OneReadPerBuf`, the guards of `wb_close` and `close`).

## 5. What is proved

For every value of the constants, by TLAPS:

- `LuaRefProofs!Invariance`: type correctness, `FreeBelowTop` and `ReleasedIsGivenBack`
  (`FreedSlotsHoldNothing` and `BoundedByPeak`). The conjunction is inductive: `BoundedByPeak`
  needs `FreeBelowTop`, since a push happens only when nothing is free, and the walk
  of `luaref_unref` (`ShrunkTopSpec`, by well-founded induction) keeps it.
- `LuaRefProofs!Refinement`: every step of `LuaRef` is a step of `RefTable`
  under the mapping that sends a table to its live slots.
- `EventProofs!ChannelTypeCorrect`, `LockExcludes`, `PollersSeeTheTruth`,
  `DeliveryOrder`: from an inductive invariant that says for every label what the
  thread at it knows of the queue, the flag and the byte (`Inside`), and that the
  lock is taken exactly when a thread is inside.
- `ThreadsProofs!TypeCorrect`, `BlocksOwned`, `ChannelsLive`, `IdsDiffer`, `ErrorsArrive`, for
  any number of threads, channels, names and blocks. The invariant adds to the properties where
  each thread may stand in which call (`Seated`), that an id in the making is at most the
  counter and a minted one nobody's (`IdsOK`), that an error is in the log, read or still
  to come (`LogOK`), that an object is alive as long as the registry, a box or a
  `destroy` holds it (`ChanOK`), and that no block is in two places (`BlockOK`).

- `AsyncProofs!TypeCorrect`, `NeverBlocksOnQueued`, and `Registered` (for a
  script that cancels before it closes, `CancelFirst`): the kernel watches exactly
  the directions that have a request, through every order of submissions, hang-ups,
  cancels, and events that complete both directions of one socket.
- `AsyncProofs!Refinement`: the epoll backend implements `AsyncIface`. The
  invariant behind it is `Distinct`: a request is in one place only, one direction of
  one socket, the queue of synchronous completions, or the span; reporting it from there
  therefore ends it.
- Of the binding, over that backend: `AsyncProofs!BindTypeCorrect`, `PinsAreHeld`, `PinsAreAccounted`,
  `WriteBufsSound`, `StreamsInOrder`, and, each under the script's part of the bargain,
  `WritesStay` (`CancelFirst`), `ReadBufsWithinCap` (`OneReadPerBuf`) and
  `SuccessMeansSent` (`OneWriter`). The argument is below.

- `AsyncKqueueProofs!TypeCorrect`, `UdataSafe` (no event holds the address of a request
  that is gone), `NothingStranded` and `Refinement` (kqueue implements `AsyncIface`). The invariant is that
  each registration is filed under its own socket and filter (`Keyed`), that the kernel and
  the batch hold pending requests only, and never the same one.
- `AfdPollerProofs!TypeCorrect`, `Memory` (the driver and the port hold live objects, one
  poll each) and `Watching` (every change of a mask reaches the driver or is queued, unless a
  socket was closed before it was deleted). The invariant adds that the driver was asked for exactly
  what the object remembers (`PendIsAsked`) and that a careful script's objects outlive
  the loop (`Careful`).
- `SubprocessProofs!TypeCorrect`, `StatusesAreOwn`, `SignalsSafe`, `SpawnsClose`: the process table
  keeps a child's pid from being reused until its handle reaps it (`ProcOK`), and a descriptor
  that a spawn counts on is its own until it is closed, or to the end if it is number 0 (`FileOK`).
- `EventProofs!EpollTypeCorrect`, `Registrations`, `OwnValues`, and, for a script
  that deletes before it closes under the key it added with, `NoLeaks` and
  `StateIsExact`, through adds that kqueue takes up for one direction only: what such an add leaves
  is apart from `kernel`, `state` and the keys, which the properties speak of. What the table of
  references does is cited from `LuaRefProofs` (`L!AfterRefOK` and the like) and never expanded. The invariant adds that every registration and
  every event that is still in place names a key, that the key still names the
  socket (`KernelInv`, `BatchInv`), and that keys do not share references
  (`KeysInv`): a key that is deleted or added again therefore disturbs its own
  registration only.

- `RingProofs!TypeCorrect`, `IovsHeld` and `Refinement`: the io_uring backend keeps its rings and
  its iovecs, and implements `AsyncIface`, for any ring sizes that divide the range of the
  counters. A ring is shown to be a queue (`PutIs`, `TakenIs`, `PrefixIs`): slots are
  indexed by counters that wrap, so every step rests on arithmetic modulo the size of the
  ring and modulo `Wrap` (`ModInner`, `ModDiffers`). The invariant adds that a request is in
  one place, submission ring, kernel, completion ring or overflow list (`Apart`), and that the tail
  `harvest_cqes` loaded is not ahead of the ring (`Snapshot`), which the kernel goes on filling.
- `RingProofs!MapTypeCorrect`, `DistancesInCrowds` and `MapRefinement`: the robin-hood table
  implements `KeyMap` and never records a distance above its number of entries, for any keys, any
  hash, any sizes and any `kMaxDistance`, as long as no insertion has strained it. The argument is below.

The inductive invariant of the binding is `BindInv`. No property of the binding is inductive
alone, since each rests on where a request is; `BindInv` says of every request that is
not reported, wherever it is:

- it is in one place, a slot, the queue of synchronous completions or the script's span
  (`IdsApart`), and asked for as what it is: a write for a write_buf, a read for a read_buf (`KindsKept`);
- the references it has (`LUA_NOREF` is none) hold what was pinned, nobody shares them, and no
  others are in use (`PinsKept`, with what `LuaRefProofs` proves of the table);
- of each queue: its counts are those of its strings, and bounded by what was written (`QueuesCounted`);
- of each stream, by where its write is (`StreamsKept`): with the backend, it starts at
  the first byte the kernel has not taken and points to no more than the queue holds; reported and not
  yet consumed, the kernel is ahead of the queue by exactly the bytes reported; at
  rest, kernel and queue agree. What was cut off by a refused resubmission can only put the kernel behind.

`Handle` moves a write from the first case to the second, the iterator from the second to the
first (resubmitted) or the third. That `consume` takes exactly the bytes it is given off the queue,
whatever strings they span, is `ConsumedSpec`, by induction along the loop; the induction is
`WellFoundedInduction`'s least-element fact applied to a set of counterexamples, which needs no operator
as a parameter. `SocketsKept` adds that a socket with a write is open and still the one it was; it
needs `CancelFirst`, since a number that is closed under a write is given to another socket.
`ReadsKept` adds that the free space a read was given is still free until its bytes are committed,
and needs `OneReadPerBuf`.

`SuccessMeansSent` is the other side of the run `refused_resubmission`. `WriteSuccessMeansSent` is false of the
code, because a write half can be refused, and the run shows how; but under `OneWriter` (one write_buf,
no connect, a script that cancels before it closes, an `epoll_ctl` that does not fail) it is a theorem.
Its invariant `SentInv` is that the kernel watches exactly what is asked for, that the
write half of a socket holds writes only, and that nothing was cut off while the backend is open: a resubmission then
always finds the write half free, so a success always covers all that the script wrote.
A write whose pin failed is submitted like any other and has its place in the argument up to its
completion, which reports nothing: the iterator's assertion stops it. TLC agreed before the proof,
on the instance of `async_binding` without connects and failures.

The invariant of the table is `MapInv`. It says that each entry lies where its distance says (`Placed`),
that no distance is more than one above that of the bucket before (`Smooth`), that keys are unique, that
`m_size` counts the entries, and that the load factor leaves a bucket free. `Smooth` is what the early
stop of `find_key` relies on: on the way from a key's home to its entry every bucket is at
least as far from home as the probe has come (`Chain`), so the probe does not stop before it (`FindIs`); and
that many buckets in a row are in use, hence the bound on distances (`Crowd`). None of it holds in the middle of a
loop, which has an invariant of its own, kept turn by turn by induction: `Inserting` says that the entry in hand would fit
where the loop stands and that it and the table together hold what they should; `Closing` that the
table of an erasure holds one entry too many, where the loop stands. `find_or_insert` differs from the loop it calls in that it
overwrites the displacing bucket afterwards: `InsertBeside` shows that the loop, started one
slot further with the displaced entry, never comes back to that bucket, so that the two
orders give the same table.

`FreeBelowTop`, the channel's mutual exclusion (`LockExcludes`) and most type invariants
are proved and not checked by a run of their own: what the runs check rests on them.

The assumptions on constants are stated and named in the modules (nil is a value, the
stack limit is a natural number, the null message is no message, ...) and evaluated
by TLC in every run.

## 6. What is only model-checked

Liveness under fairness (`EverythingLeaves`, `ReadyIsServed` of both backends, `ReportedUnlessStuffed`,
`ReadyIsReported`), which is beyond the prover. Every other property of a passing run is a theorem.

## 7. What is not modelled

- Sockets, endpoints, file system, platform, time, sys: wrappers without state of their
  own. Their results appear as nondeterminism in the modules above them.
- `3rd/` (Lua, lua-seri, fmt and others, most of the lines of the repository), tests, benchmarks, build files, `meta/`.
- The crash handler: signal handlers and stack walking.
- GCD and IOCP backends: their order of callbacks is a contract of systems outside
  the repository; a model would state that contract and little else.
- The semaphore, which only the GCD backend and the crash handler use; the select
  binding, filewatch, and where the bytes of a read_buf lie in its ring.
- Of subprocess: arguments, environment, stdin (as stdout), the parent's ends of the pipes, Windows.
- Of AFD: the translation of event bits. Of kqueue: what a completion carries besides its id.
Section 2 says what comes next.
