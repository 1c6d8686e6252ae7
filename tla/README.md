# A TLA+ model of ASE

ASE ("Any Script Engine") lets scripts written for different virtual machines
(Lua, JavaScript, Java, .NET, COM, C++) share objects.  An object of any engine
is an `ase_variant`; every operation on it goes through a vtable.  Because the
vtable of a variant may belong to a *proxy*, an object may also live in another
process: the remoting protocol makes calls on it over a socket.

This directory holds the TLA+ specification of the parts of ASE that have state
and several actors, the TLC runs that check them, and proofs for TLAPS.

## 1. Inventory

| Component | Source (`src/ase/`) | State | Hard behaviour | What makes it correct |
|---|---|---|---|---|
| Remoting protocol | `asermt_protocol.cpp` | per connection and side: proxies (`remoteobjmap`), reference counts, candidates for collection (`remoteobj_destr_cand`), exported objects (`localobjmap`), the stream, `last_op`; the C++ stack of nested calls | calls nested in both directions, distributed garbage collection in the middle of a call, exceptions and lost connections in every place, a timeout racing a late answer | no `abort()`, every reply reaches its call, no object is dropped that the peer can still name, none leaks, a close leaves nothing behind, calls return |
| Buffered stream, sockets | `aseio_bufstream.cpp`, `aseio_listener.cpp` | read buffer, file descriptor | partial reads, end of stream, send and receive timeouts | a packet is delivered whole and once |
| Concurrent server | `asermt_concurrent.cpp`, `asermtserver.cpp`, `aseio_thread.cpp` | worker threads and processes, listener, restart delay | accept retry, failing `start`, workers that never end, crash and restart | the configured number of workers serves, a crashed process is replaced |
| Delay-loaded engines | `asedelayscr.cpp`, `asedelayvar.cpp` | the engine once loaded, `real_variant_loaded`, the ASE global until it is imported | first use by several threads, failing loads, `wait_threads` without the lock | an engine is created by the main thread only, with the ASE global, and not while `wait_threads` runs |
| Runtime | `aseruntime.cpp`, `aserun.cpp`, `asedllhandle.cpp` | engines by name, global table, the engine mutex | order of `wait_threads`, `dispose_proxies` and destruction, exceptions | every thread has left the engines when they are destroyed |
| Lua binding | `aselua_sctx.cpp`, `aselua_aseimpl.cpp` | cached contexts, the mutex held by nested guards | calls back and forth between Lua and Java from several threads | one thread in Lua at a time, the mutex given back exactly, a context used by one call |
| Serializers | `aseserialize.cpp`, `aseasn1.cpp` | none (pure) | length and integer forms at their boundaries, framing | what is read is what was written |
| C/C++ loader | `aseccloader.cpp` | files and time stamps, the tables of loaded modules | threads and processes compiling the same file while it is edited | a stale library is not loaded, a process loads a module once |
| Strings of the virtual machines | `aseutfconv.cpp`, `aseutf16.cpp`, `asestr.cpp` | a conversion in progress | ill-formed strings, ends of ranges, full buffers | well-formed strings come back as they went, what is passed on is well formed |
| Variants, containers | `ase.cpp`, `asearray.cpp`, `asestrmap.cpp`, ... | reference counts | sharing between threads | released once |
| Language bindings | `aselua*`, `asejs*`, `asejni*`, `aseclr*`, `asecom*` | tables of the foreign virtual machine | finalizer threads of the foreign machine | each foreign object has one wrapper |
| List of Java proxies | `ase/aselist.hpp`, `asejni_priv.cpp`, `asejni_nprx.cpp`, `asejni_jobjpr.cpp`, `asejni_sctx.cpp` | a ring of nodes with one mutex in common, a variant in each | finalizers, insertions and the destruction of the engine at once, also after it | one ring, the mutex deleted once, each variant released once |
| SMTP proxy | `gtcpp/smtp_*.cpp` | the session with the client, the transaction of the backend | each side refuses, times out or vanishes between any two steps, a mail that ends before its end | both connections in step, an acknowledged mail was taken, as it was sent |
| Mail store | `gtcpp/piggyback_tr.cpp`, `gtcpp/smtputil_smtpd.cpp` | the queue of entries, the file of mails | one thread writes for others, writes and syncs fail, the power fails | an acknowledged mail is stored, no entry is used after its thread has left |
| Rest of gtcpp | `gtcpp/` | TCP server, buffered file, searching, mail parsing | independent library | |
| pmcjs | `../pmcjs/` | Perl and JavaScript interpreters | two garbage collectors | |

How they meet: `asermtserver.cpp` creates a runtime and its engines (delay
loaded), takes an object of theirs as the top object and gives it to the
concurrent server.  Each worker accepts a socket, wraps it in a buffered stream
and runs `ase_remote_server_execute`, that is, one end of the remoting protocol;
the client's end is made by `ase_remote_client_create`.  A packet is serialized
by the compact or the ASN.1 serializer, which calls back into the handle for
each object (`serialize_object`, `deserialize_object`).

`PROJECT.json` lists, for each component, its status and, under `hazards`, the
lines where something can go wrong that a test would hardly reach.

## 2. Plan

Done, in this order:

1. `RemoteProtocol`: one connection, both ends; it refines the abstract
   specification `RemoteCall`.
2. `UnifiedEngine`: the engine mutex, Lua's guards and contexts, delay-loaded
   engines, Java threads and the end of the program.
3. `ConcurrentServer`: the processes and threads that serve connections, each of
   which is an end of `RemoteProtocol`; the child-thread hooks and the delayed
   loading of engines as the workers see them.
4. `ProxyList`: the list of Java proxies, the part of the Java binding that its
   finalizer thread shares with the engines.
5. `CompactSerializer` and `PacketStream`: what `RemoteProtocol` takes for
   granted, that packets arrive whole, in order and once; the two refine the abstract
   specification `Channel`.
6. `SmtpProxy`: the SMTP proxy of gtcpp.
7. `MailStore`: the group commit of gtcpp under its mail server; it refines the
   abstract specification `StableStore`.
8. `RemoteDestructors`: `RemoteProtocol` with application objects whose destructors
   use the connection.
9. `CcLoader`: the loader of C++ files.
10. `UtfConv`: the strings that go to another virtual machine and come back.
11. Proofs for 1 to 10 (section 12).

Left, most important first:

- Several threads on one handle, which the code leaves to its callers.
- Destructors that run because `localobjmap` is cleared and call the connection.
- The TCP server of gtcpp (`gtcpp/tcp_server.cpp`) under the SMTP proxy.

## 3. The remoting protocol

### `RemoteProtocol`

The two ends are `"client"` and `"server"`; what follows exists once per end.

| Model | Code |
|---|---|
| `handle[p].remoteobjmap`, `.refcount`, `.owner` | `remote_handle::remoteobjmap`, `remote_object::refcount`, `is_handle_owner` |
| `handle[p].destr_cand`, `.localobjmap`, `.stream`, `.last_op` | the members of the same names |
| `stack[p]` | the C++ stack of the thread: one *activation* per request being executed, on top of the program (client) or the serving loop (server) |
| `chan[p]` | the socket towards `p`, packet by packet |
| `app[p]` | the variants holding proxies in the application's own data |
| `aborted[p]` | `abort()` was called by a `last_op` check |

An activation is application code, or that code inside a stub: `write` (in
`packet_write`, collecting or about to write), `gc` (in `garbage_collect`,
waiting for the answer to `op_destroy`), `wait` (in `remote_event_loop`, waiting
for a reply).  It carries the objects of the packet it is writing (`wres`) and of
the request it executes (`rpkt`): the variants in those vectors hold references,
so they are counted, and they are released where the C++ scopes end.

| Action | Code |
|---|---|
| `Invoke` | a stub of `remote_object`: `create_pkt`, enter `call_remote` |
| `Answer` | the end of `execute_request`, result or exception |
| `Keep`, `Drop` | `add_ref`, `release` by application code |
| `GcSkip`, `GcDestroy` | one iteration of `garbage_collect` with a stream |
| `WriteCall`, `WriteReply`, `WriteFails` | the rest of `packet_write`: a request (or the server's first packet), a reply with the end of the loop's iteration, an exception |
| `ReadRequest`, `ReadDestroy`, `ReadReply`, `ReadAck`, `ReadFails` | `packet_read` in `remote_event_loop`, by kind of packet and of waiter, or its exception |

`close_connection` runs inside the action that calls it: without a stream
`garbage_collect` sends nothing.  A packet is abstracted to its kind and the set
of objects it refers to.  The opcodes from `op_getattr` to `op_enumnext` differ
in the payload only and are one kind, `request`.  `ReadFails` and `WriteFails`
stand for every failure: the receive or send timeout, a broken connection, an
exception in a serializer; they may happen at any time, also when the answer
already waits in the channel.

### `RemoteCall`

The promise about control, without objects: one token (`side`, `msg`) passes
between the ends, a call adds one to the calls outstanding of its side, a reply
needs an outstanding call of the other side and takes one away; the connection
may be lost at any moment.  `RemoteProtocol!Call` maps the token to the side that
runs or that the packet travels to, and the outstanding calls to the activations
that wait; the run `protocol` checks that every step is a step of `RemoteCall` or
a stutter (`ImplementsCall`).

### Properties

- `NoAbort`, `FlipFlop`: the assertions of the code, and the rule behind them.
- `RepliesMatch`, `ImplementsCall`: replies carry no identifier; they reach the
  right call because calls alternate (`CallsAlternate`, proved at every depth).
- `ExportedWhileReferenced`, `NoLeakedExport`: the distributed collection drops an
  export neither too early nor never.
- `RefcountExact`, `OwnerKeepsOpen`: the bookkeeping of one end, through nested
  closes and exceptions.
- `TypeOK`, `ProxyLifetime`, `ClosedIsClean`, `DestroyIsFinal` and `CallsAlternate`
  say more of the same; they are proved (section 12), and no run repeats them.
- `CollectionEnds`, `CloseReachesPeer`, `CallsReturn`: liveness.

### Runs

| Run | Instance | Shows |
|---|---|---|
| `protocol` | two server objects, one client object, two references per proxy, two arguments, two activations per side | all safety properties and the refinement |
| `liveness` | the same objects, one reference and one argument, and destructors (`RemoteDestructors`) | the liveness properties, no `abort()` |
| `remote_destructor_calls` | one object on each side, destructors that call | the `abort()` |

Why the bounds are enough: two server objects give one proxy that owns the
connection and one that is collected; the client object gives traffic in the
other direction.  Two references to a proxy distinguish "still referenced" from
"unreferenced"; more only repeat the step.  Two activations per side are the
program and one nested request on each end, so a reply, a collection and a
failure can each happen above or below another call; deeper stacks are left to the
proofs.  `MaxDepth` bounds `Invoke` only, `MaxRefs` bounds `Keep` and what `ReadReply` keeps, `MaxArgs`
bounds the objects chosen by `Invoke` and `Answer`.  Deadlock is not checked: both
ends may have ended.

### Fairness

`Progress(p)` (weakly fair) is the library's own code and a read whose packet or
end of stream is there: a running thread is scheduled, and TCP delivers.  `Answer`
is strongly fair: the application code that executes a request returns in the
end, however many calls it makes and references it copies meanwhile; so is the end
of a destructor (`DestructorEnds`).  `DestructorsFairSpec` states all of it.  Nothing
makes timeouts, `WriteFails` on an open connection, `Invoke`, `Keep` or `Drop`
happen.

### `RemoteDestructors`

In `RemoteProtocol` the objects of the application have no destructors.  An exported
object loses the reference of `localobjmap` by `op_destroy`; the request, in the
variable `rpkt` of `remote_event_loop`, has the last one, and ends after the answer was
written.  `RunDestructor` is that step: the destructor then is an activation of
application code (`destructors[p]`), on top of the loop that waits for the next packet.
It may drop proxies, which may be its members, and copy them; `DestructorEnds` goes back
to the loop.  All other steps are those of `RemoteProtocol`.

The run `liveness` is about this specification: destructors neither stop a
collection, a close or a call, nor make anybody abort (the last is also
proved, section 12).  With `DestructorsCall` the
destructor may also call the other side, and `NoAbort` is **violated** (run
`remote_destructor_calls`): the answer to `op_destroy` was the last operation, so the call
is the second write in a row.  One object that is dropped by the other end is enough.

## 4. The unified engine

### `UnifiedEngine`

`aserun` creates a unified engine, loads the script in it, waits for the threads
the script has started and destroys it.  The engines behind it (Lua, Java,
others) are loaded when they are first used.  All of this, and the Lua virtual
machine, is protected by one recursive mutex.

| Model | Code |
|---|---|
| `main` | the progress of `aserun_main`: loading (and running) the script, `wait_threads`, `dispose_proxies`, the end; `todo` the engines still to visit; `joining` while in `Util.joinAll` |
| `mutex` | `ase_unified_engine::impl_type::mutex`: owner and depth |
| `stack[t]` | the guards of the mutex and the calls out of Lua on the C++ stack of thread `t` |
| `status[t]` | the life of a Java thread |
| `real[e]`, `aseglobal[e]` | `real_engine` and `aseglobal` of the delay engine of `e` |
| `imported[e]` | whether `import_ase_global` gave the real engine a non-void ASE global |
| `loaded[e]` | `real_variant_loaded` of the global variant of `e` |
| `cached`, `contexts` | `cached_contexts` of the Lua engine, the number of contexts created |

| Action | Code |
|---|---|
| `RunScript`, `LoadFile`, `EnterFile`, `LoadFails` | the two `load_file` functions and the Lua code they run |
| `UseGlobal`, `NeedEngine`, `KeepGlobal` | `load_real_variant` and `get_real_global` |
| `CreateEngine`, `CreateFails` | `get_real_engine`, its exception |
| `CallLua`, `Acquire`, `LuaReturns` | a Lua object used from outside: `callfromase_guard` |
| `CallOut`, `CallOutReturns` | Lua calls an object: `callfromlua_guard` |
| `StartThread`, `Join`, `EndThread` | Java threads |
| `WaitEngine`, `JoinAll`, `WaitEnds`, `Dispose`, `Destroy` | the end of the program |

A guard is pushed when its constructor calls `lock()`; `Acquire` is the return of
`lock()`.  Leaving guards is one step (`Leave`), which pops them, unlocks as often
and, when the last guard of the main thread goes, moves `aserun` on: to
`wait_threads` after a return, to destruction after an exception.  A failing
engine takes its caller's guard with it (`CreateFails`).  A lookup that finds
everything loaded locks, tests and unlocks; it changes nothing and is not a step.

### Properties

- `LockExact`: five kinds of guards nest through callbacks and
  exceptions on one recursive mutex; its depth is exactly theirs.
- `ContextsExact`: a context belongs to the cache or to one call.
- `EnginesFixedWhileWaiting`, `GlobalImported`: `wait_threads` and
  the delayed loading do not disturb each other, although the former takes no
  lock; the test of the thread in `get_real_engine` is what makes it so.
- `EnginesOutliveThreads`: destruction comes after the last thread.
- `WaitReturns`, `ThreadsEnd`: `wait_threads` returns, and no thread waits for the mutex
  for ever, unless the script itself is inside `join()`.
- `TypeOK`, `LuaExclusive` (one thread in Lua at a time) and `LoadedIsReal` (a global that
  counts as loaded has its engine) are proved, and no run repeats them.
- `JoinReturns` is **violated** (run `script_join`).  The script itself runs under
  three guards (the two `load_file` and Lua's); `callfromlua_guard` unlocks once,
  so the main thread still owns the mutex inside Java's `join()`, and a thread
  that needs Lua waits for it for ever.  `samples/javathread.lua:31-34` joins its
  threads in this way.

### Runs

| Run | Instance | Shows |
|---|---|---|
| `engines` | two Java threads, three engines, five calls of the main thread, two of each other; the script may join | all safety properties, and liveness with the exception for `join()` |
| `script_join` | one Java thread, four and one calls; the script joins | the deadlock |

Why the bounds are enough: the main thread needs three calls to have Java loaded
and to start a thread (out of Lua, use the Java global, out of Lua unlocked);
with five it also calls back into Lua and out again, or loads a third engine, with
the mutex two and more guards deep, while two other threads compete for the mutex
and one may start the other.  Two calls of a thread are a call into Lua and one
out of it, so its context is suspended while another takes one.  `MaxCalls` bounds
the calls across an engine boundary only.  Deadlock is not checked: the program
ends.

### Fairness

`MainProgram` and each thread's `Progress` are weakly fair: a thread inside ASE is
scheduled, and Lua code and Java code return in the end (the calls they make are
bounded, so they cannot go on for ever).  Weak fairness of `Progress(t)` does not
promise the mutex to a thread whose competitors come back again and again; here
they cannot, as their calls are bounded.  Nothing makes a thread start or call.

## 5. The concurrent server

### `ConcurrentServer`

`asermtserver` loads a file, waits for its threads and then serves the object it
got: it forks `num_procs` processes and replaces those that end; each starts
`num_threads` threads that accept connections and serve them.  With no processes
the program serves itself, with no threads a process serves in its main thread.

| Model | Code |
|---|---|
| `opts` | `ase_remote_concurrent_server_options`; `preloaded`: the script has used the engine before |
| `main`, `pids`, `delay_sec` | where `main_proc` is, and its variables |
| `status[p]` | the life of a process: in `worker_main` (`start`, `inline`, `join` in the destructors of the threads, `unwind` by an exception) or dead and not yet reaped |
| `started[p]` | the index of the loop that starts threads |
| `worker[p][w]`, `conn[p][w]` | where a thread is in `thr_main`, the connection it owns |
| `real[p]`, `attached[p]` | `real_engine` of the delay engine, the threads that told it of themselves |
| `client[c]`, `backlog` | the connections, and those in the kernel's queue |

| Action | Code |
|---|---|
| `Fork`, `Forked`, `Wait`, `WaitFails`, `Slept` | `main_proc` |
| `RunInline`, `StartThread`, `StartFails`, `AllStarted`, `Unwind` | `worker_main`, `ase_io_thread_impl::start` and destructor, `ase_server_file_main` |
| `ThreadInit`, `Accept`, `AcceptFails`, `AcceptDrops`, `Retry`, `Served` | `thr_main`, `workers_shared::accept`, `ase_io_listener_socket::accept` |
| `LoadEngine` | `get_real_engine`, reached from a request |
| `Connect`, `Crash` | a client; a signal |

Two things are noteworthy.  `start` may throw in the middle of the loop; then the
destructors join the threads that run, which never end, and the process serves
with fewer threads; only when none runs does the exception go on.  And the delay
after a core dump doubles until it overflows ("no problem even if it overflows"):
`Delay` computes with the width `DelayLimit`, and the program goes on.

### Properties

- `PoolExact`: `pids` is exactly the set of children not reaped; a child that is
  forgotten, or kept after its death, would be waited for for ever.
- `ConnectionOwned`: a connection has one owner until it is closed.
- `NoIdleProcess`: no process waits for threads that do not exist.
- `WorkersAttached`: an engine that exists knows every thread that serves, since
  only a main thread that serves alone may load one.
- `QueuedIsTaken`, `PoolRefilled`: liveness, through failing accepts, failing
  thread starts, crashes and the overflow of the delay.

The run `server` has two processes, two threads, two clients, one fault and a delay
of one bit.  Two processes and threads are the least with which one works while
another starts, fails or is reaped; one fault suffices to kill a process or to
stop the loop of starts at each of its indices, and the delay overflows at once.
Clients connect once each; two compete for a thread.  Deadlock is not checked: the
program that serves without forking may end.

Fairness: `MainStep`, `StartStep`, and the threads' own steps are weakly fair, as
running code is scheduled and a connection ends by its peer or the socket's
timeout.  `Reap` and `Accept` are strongly fair: `waitpid` and `accept` may be
interrupted or fail, but not for ever.  Weak fairness is stated for all
threads together where that is enough: nothing says which thread takes a
connection.

## 6. The list of Java proxies

### `ProxyList`

Each Java proxy of an ASE object has a node of a ring; `jniproxy_endnode` belongs to
the engine.  All nodes share one mutex, created by the first node and deleted by
the destructor that finds its node alone.  Java's finalizers delete nodes when they
like, also when the engine is gone.

| Model | Code |
|---|---|
| `life[n]` | where the one thread that uses the node is: constructor, linked, destructor (`delete` waits for the mutex, `unlink` has it, `unlinked` has unlocked it, `value` destroys the member `value`) |
| `next`, `prev`, `ring`, `deletes` | the members, the owner of the shared mutex, how often it was deleted |
| `engine` | the owner of the engine mutex |
| `value[n]`, `releases[n]` | the variant of the node |
| `phase`, `cursor`, `out` | the main thread in `~impl_type`: `dispose_proxies` of all engines under the engine mutex, then once more by the engine's destructor, without it; the loop variable and the variant swapped out |

`Create`, `InsertLock`, `Insert`, `LeaveEngine` are `ase_jni_jniproxy_new`; `Delete`,
`UnlinkLock`, `Unlink`, `DeleteMutex`, `ReleaseValue` the destructor of a node;
`DisposeProxies`, `WalkStart`, `Swap`, `Step`, `Destroyed` the main thread.  The two
assignments inside a critical section are one step: nobody reads the pointers
without the mutex but `this == next`, a step of its own (`DeleteMutex`).

### Properties

- `RingIntact`: one ring, at every moment.
- `MutexLifetime`: the unprotected test finds exactly one last node, when nobody
  holds the mutex or is going to lock it.
- `ReleasedOnce`: a variant goes either with its node or with `dispose_proxies`.
- `DisposedEmpty`: after `dispose_proxies` the ring holds no variant; a finalizer
  that had unlinked its node before may still have one (a hazard that the code
  leaves open).

The run `proxies` has three proxies: with the end node, a node between two others can
leave while both neighbours do.  Deadlock is checked: `dispose_proxies` releases
variants, which needs the engine mutex, with the ring's mutex held.  It is safe as the
first walk has the engine mutex before it takes the ring's, as insertions do, and the
second finds no variant left to release.

## 7. Packets

### `CompactSerializer`

A message is a sequence of tokens; the recursive functions of the code visit the
elements of arrays and maps in this order.  `Serialize`, `Deserialize` and `GetLength`
are `ase_serialize_compact`, `ase_deserialize_compact` and
`ase_deserialize_compact_get_length`; integers are given by their bytes.  `Minimal`
drops the bytes that repeat the sign, `Form` chooses between the short form (31
bytes at most) and the long one.  A long that fits comes back as an int (`Normal`).

### `PacketStream`

One direction of a connection: `Write` and `ShortWrite` are `packet_write` on
`ase_io_buffered_stream_impl::write`, `PacketRead`, `ReadMore` and `ReadFails` are
`packet_read` with `read_more`.  The socket (`transit`) returns as many bytes as it
likes.  A short write closes the stream; the reader then finds the beginning of a
packet, which must not be read.  The serializer is a parameter, `CompactSerializer`
in the run.

### `Channel`

What one direction of a connection promises: a queue of messages.  The writer puts a
message at its end until it closes or a write fails, the reader takes the one at its head
until it closes or a read fails; what was written before can be read after the writer has
closed.  It is the `chan` of `RemoteProtocol`.  `PacketStream!Pipe` maps the queue to the
messages written to their end and not yet returned by `packet_read` (`Undelivered`).

- `ImplementsChannel`: every step is a step of `Channel` or a stutter.  A packet arrives
  in the step that returns it, not before, and a packet that was cut off never does.

It implies `DeliveredExactly`, which is proved and which no run repeats: the messages read
are those written, whole, in order, once.

The run `packets` writes two of ten messages: integers at each boundary of their
length, strings of 0, 31, 32 and 256 bytes, packets of 31 and 32 bytes, nested arrays
and maps, bytes that look like tags.  Reads return one byte or all there is, so
every prefix of a packet is seen in the buffer; writes stop after 0, 1, 2 or all but
one byte.  Deadlock is not checked: the stream ends.

## 8. The SMTP proxy

### `SmtpProxy`

`smtp_server_worker::run` reads commands, `smtp_proxy_worker` repeats them to a
backend with an `smtp_client` and returns the code.

| Model | Code |
|---|---|
| `session` | where `run` is: no connection, before a command, reading a mail |
| `backend` | the backend of `backend_conn`: ready, refused, waiting for a mail, gone; its transaction |
| `client`, `view` | whether the client writes a command or a mail next; the transaction as it knows it by the answers |
| `replies` | answers of the proxy that lie unread in the client's `buffered_file` |
| `typed` | how many commands the proxy has read as lines of a mail |
| `mails`, `accepted`, `acked` | mails sent, taken by the backend, acknowledged |

`Open` is the constructor of `close_hook` with `on_open_connection`; `Request` is a
turn of the loop with its callback, the exchange with the backend and the response,
each of which may fail; `Mail` is the rest of DATA, with `on_body` (`OnBody`); `Closed`,
in each of them, is the destructor of `close_hook`.  The client sends mails with an
`smtp_client`, as `smtp_client::mail_transaction` does: it writes a request and reads one
answer, the oldest it has not read (`Hears`).  A mail is a sequence of characters, `.`, CR, LF
and any other: `Escape`, `ReadBody` and `Unescape` are `smtp_escape_body`,
`smtp_read_body` and `smtp_unescape_body`.  The backend is any that follows the
standard, may refuse a command and may vanish at any moment; the filter is the one of
the source, which changes nothing.

One form of mail puts the client out of step.  `smtp_escape_body` does not escape a last
line that is incomplete; if it is one period (`EndsInLonePeriod`) it ends the mail, and the
end that `smtp_escape_body` adds is one line more.  `run` reads it as a command and answers
it with 500 (`Leftover`, `smtp_server.cpp:303`).  The client, which reads one answer for
each request, finds this 500 in its buffer after the next command, the answer to that
command after the one that follows, and so on to the end of the connection.  It may then
take a 250 for the answer to its DATA while the proxy reads a mail, and write commands that
become lines of this mail (`Misread`); it writes the mail itself when it reads the 354.  The
proxy's own connection is never in this state: what it sends to the backend was unescaped
first, so all its lines are complete (the filter is always there), and has one end.

- `InStep`: the backend waits for a mail exactly when the proxy reads one, always, and the
  client, however many answers it is behind, never writes a mail while the proxy reads
  commands.  The client has read every answer, sends a mail exactly when the proxy reads one, and knows
  the backend's transaction, unless it has sent a mail on this connection that ends in a
  lone period (`CutShortBefore`).
- `AcceptedAsSent`: a mail acknowledged to a client in step was taken, for the client's
  recipients, and with the content that was sent (`ContentKept`); no mail is taken twice,
  in step or not.  (One that was taken may remain unacknowledged, if the answer is lost.)
  The exception that `ContentKept` makes is one of the code: an incomplete last line that
  begins with a period is not escaped (`EndsInPeriodLine`), so it loses its period or ends
  the mail.  A mail sent out of step is acknowledged by an answer to something else, so
  nothing is said of it: TLC shows one acknowledged for other recipients than it went to,
  with a command of the client as its first line.

The run `smtp` has two sessions, two mails and two recipients: one session that fails
and one after it, a mail refused and one taken, with different recipients, a mail after one
that ended in a lone period on the same connection and on a new one.  Its eleven
mails have empty, complete and incomplete lines with and without CR, and lines with one
and two periods.  Deadlock is not checked: sessions are bounded.

The model shows one more peculiarity.  `on_open_connection` returns 220 on success, and 0
when the backend refuses the connection or closes it (`OnOpen`); only a negative value
ends the session, so a client is greeted although no backend is there, and finds out by
its first command.  `smtp_server.hpp:91` says "should return 0 on success".

## 9. The mail store

### `MailStore`

With `single_file_mode` the threads of the mail server save all mails in one file.
Each thread queues an entry that lives on its stack; the one that finds no
transaction executing takes the queue, writes the mails of all, syncs the file and
wakes the others.

| Model | Code |
|---|---|
| `pc[t]` | where the thread is in `execute_piggyback_base`, in the transaction it leads, or in `on_body` |
| `queued`, `done`, `success`, `written` | `queued_flag`, the flags of the entry, `success` of the `smtp_save_savefile` |
| `q_waiting`, `executing_flag`, `q_executing`, `at` | the members, the leader's queue and its loop over it |
| `mbox`, `synced`, `file_open` | the file, the part that a loss of power leaves, `single_file_fd` |
| `acked` | mails answered with 250 |

`Body` is the call of `execute_piggyback` by `on_body`; `Return`, `Lead` and `Wait` are
one turn of the loop under the lock; `Begin`, `BeginThrows`, `WriteHeader`, `WriteBody`,
`WriteFails`, `Commit` and `CommitFails` are the transaction of `smtp_scf_save`, without
the lock; `Rewind` is the destructor of `rewind_hook`, also while an exception passes;
`Answer` returns the code.  An exception of `begin_transaction` ends the process
(`Abort`).  `Abort` and `PowerLoss` start a new process, which appends to the file.

### `StableStore`

What the mail server promises its clients, without queue, leader or file.  A client hands
a mail over and waits; mails become durable, some at a time; only a durable mail is
acknowledged, and any may be refused; a restart forgets the mails in hand and nothing
else.  A refused mail may be durable all the same.  `MailStore!Store` maps the mail in
hand to that of a thread between `Body` and `Answer` (`InHand`), the mails handed over to
those counted by `count` (`Taken`) and the durable ones to those with both fragments, whole
and side by side, in the synced part of the file (`Durable`).

- `ImplementsStore`: every step is a step of `StableStore` or a stutter.  `Commit` is its
  `Sync`, of as many mails as the leader's batch has, and `Abort` and `PowerLoss` are its
  `Restart`; all other steps of the transaction are hidden.  It implies
  `AcknowledgedIsStored`: what is answered with 250 is in the synced part, whole.
- `EntriesAlive`: the leader writes to entries of threads that are still inside.
- `Answered`: every thread comes back; no wakeup is lost.
- `TypeOK`, `AcknowledgedIsStored`, `WrittenOnce` and `MailsInOnePiece` (no mail twice, and
  no two mails mixed) are proved, and no run repeats them.

The run `mail_store` has three threads with one mail each and a queue of one or of two:
with one, a thread finds the queue full while another waits in it; with two, one thread
writes for two.  The power fails once, at any place.  Each thread's steps are weakly fair,
as running code is scheduled.  Deadlock is not checked: mails are bounded.
`piggyback_max` is positive; the program does not check its option, and with 0 all
threads wait for ever.

## 10. The C++ loader

### `CcLoader`

`CPP.ExecuteFile("m.cpp")` compiles `m.cpp` to `m.so`, unless `m.so` is newer, and loads
it unless the process has it.  Processes share nothing but the files.

| Model | Code |
|---|---|
| `source`, `library`, `now` | the two files with their time stamps; the clock of these, as coarse as it likes |
| `pc[t]`, `so_time[t]`, `klass[t]` | where the caller, a thread, is in `load_file` and what it calls; `sb1.st_mtime`; the class found |
| `compiling[t]` | the version its compiler has read |
| `modmap[p]`, `libmap[p]` | the tables, for this module |
| `since[t]`, `library.late` | history: the version when the thread called; whether the source was edited between the compiler's reading it and the linker's end |

`Check` is the first test of `compile_file`, `StatSo` and `StatSource` the two calls of
`stat` in `ase_newer_than`; `Compile` to `LinkKilled` are the command, whose linker writes
a new file in place of the old one; `Lookup`, `FindModule`, `LoadModule`, `LoadThrows`,
`Store` are `load_file` and `new_library_object`.

- `LoadedIsCurrent`: a module that is loaded was compiled from a source not older than
  the one the caller could see, or the edit was too late for its compiler.  It rests on the
  strict comparison: of two files of the same second the library may be the older one.
- `OneClass`: all threads of a process get the class of its only load.

The run `ccloader` has two threads in one process and one in another, two versions of
the source and three times: the library and the source may have the same time, and
either may be older.  The source is edited at any moment (`Edit`), also while it is
compiled, which takes seconds and which nothing in the code prevents.  A compiler that has
read the text before the edit makes a library of the old text with a time stamp after the
edit; `ase_newer_than` takes it for current, in this call and in each later one until the
next edit, and a slow compiler may so replace the library of a faster one that read the new
text.  The field `late` of `library` records this when the linker ends: the source is not
the one that was read.  `LoadedIsCurrent` says that there is no other way for an old
library to be loaded: not by the order of the two calls of `stat`, nor by several compilers
at once, one that is killed, a file replaced while it is filled, or a coarse clock.  A
library that another process is writing, or that a killed linker left, is newer than the
source too; then the load fails, until the source is edited.

## 11. Strings

### `UtfConv`

Strings of ASE are UTF-8, those of Java, JavaScript, .NET and COM are UTF-16.
`pmc_uconv_8to16` and `pmc_uconv_16to8` convert as far as they can; `create_u16buffer` and
`ase_string::init_16` allocate the buffer and throw, or, if permissive, replace what is
wrong and go on (`Replace`).  `To16` and `To8` are one turn of the loops, `Outcome8` and
`Outcome16` why they end.  `Back` converts the result back, as a string that a method of
another machine returns.

- `RoundTrip`: well-formed strings are converted and come back as they were.
- `OutputWellFormed`: whatever comes in, what goes out is well formed.
- `PermissiveGoesThrough`: permissive conversions do not throw, but for one case: the
  room for a surrogate pair is looked at before the rest of the form, so a string that
  ends with the first byte of a four-byte form throws, when each byte before it has
  become one unit, so that the room left is one.

The second byte of a two-byte form is not looked at (`Outcome8`): C2 41, which is no UTF-8,
becomes U+0081 without an error.  `OutputWellFormed` holds all the same.

`WellFormed8` is Unicode's table of forms, `WellFormed16` its rule for surrogates; the
code knows neither.  The run `utf` has all strings of up to four bytes and up to three
units from the ends of all ranges; a form has four bytes at most, and forms do not
depend on each other but for the room left.

## 12. Proofs

`RemoteProtocol_proofs` proves, for every set of objects and every bound (of
nesting, references and arguments):

- `TypeCorrect`: `Spec => []TypeOK`
- `NeverAborts`: `Spec => []NoAbort`
- `TokenUnique`: `Spec => []FlipFlop`

The assumptions are those of `RemoteProtocol`: the objects of the two sides are
disjoint, the top object is the server's, the bounds are natural numbers.  None of
the properties is inductive alone.  The invariant `IInv` adds

- `Shape`: every activation but the last waits; the serving loop is the first;
  an activation that writes a reply has one below it.  Without it the failure of
  a reply could unwind past the end of the stack, or leave a running activation
  under another one.
- `Discipline`: a side that waits did not read last, a side that runs on an open
  connection did not write last, a thread that ended left no stream.  It is what
  makes the `last_op` checks pass.

`SoundReplace`, `SoundPop`, `SoundPush` and `SoundFailure` show what the four ways
of changing the stack do to `Shape` and `Discipline`.  `SideStep`, with one lemma for
each action, shows that a step of one side keeps them there and moves the token as it
should (`Advances`), and asks nothing of the other side (`Steady`); `Advance` shows that
such a step keeps `IInv`.

On top of it stands `Nest`, how the activations of the two ends fit together, and
from it

- `RepliesFindCalls`: `Spec => []RepliesMatch`
- `CallsDoAlternate`: `Spec => []CallsAlternate`
- `ProtocolImplementsCall`: `Spec => ImplementsCall`

`Nest` says that only the last activation of an end may be in `garbage_collect`
(`Well`); that the packet on its way is one the last activation of its reader
waits for (`Fits`); and, while both ends are open, that the server has one
activation more than the client exactly while it runs a request or an answer to
it is due (`RunPair`, `FlightPair`).  A reply carries no identifier: that it finds
its call is this count.  The server's first activation, its serving loop, waits
for no reply, which is why the count starts even.  For the refinement,
`OutstandingIs` counts the calls outstanding from the length of the stack,
`AbstractRun` and `AbstractFlight` compute `side` and `msg`, `NoReopen` says that
a closed connection stays closed, and `MapNext` maps each action to the step of
`RemoteCall` it is.

Beside `Nest` stand three more invariants about the objects.  `Books`, the
bookkeeping of references, gives

- `ReferencesAreCounted`: `Spec => []RefcountExact`
- `ProxiesLiveExactly`: `Spec => []ProxyLifetime`
- `ClosingCleans`: `Spec => []ClosedIsClean`
- `DestroyStaysFinal`: `Spec => DestroyIsFinal`

For each end it says that the counter of a proxy is the number of its holders
(`Counted`), what an activation may hold where (`Tidy`: only one in
`garbage_collect` has a victim, and by `Well` only the last can), and which proxies
exist (`Alive`: those with a positive counter, the candidates and the victim, which
nothing refers to any more).  `Held` counts the holders on the stack; `HeldPush`,
`HeldPop`, `HeldReplace` and `HeldFailure` say how the four changes of the stack
change it.  A release may close the connection in the middle of a step and collect
what it can, so `Alive` is a statement about one handle and is carried through each
operator in turn (`AliveRelease`, `AliveClose`, `AliveDelete`, ...).

`Exports`, the registered objects of an open connection, needs `Nest` and `Books`:

- `NamedIsExported`: `Spec => []ExportedWhileReferenced`
- `ExportedIsNamed`: `Spec => []NoLeakedExport`

An object is unregistered by the `op_destroy` of its proxy only, which `Books` shows
to be unreferenced and `Nest` to be waited for by the end that wrote it; hence the
packets that pass meanwhile (the answer, and nothing else) name no object, and what
is erased is the victim and nothing else.  `ExportsSent`, `ExportsRead` and
`ExportsTaken` say what writing and reading a packet do to the maps of both ends.

`Owned`, the owner of the connection, gives `OwnersKeepOpen`:
`Spec => []OwnerKeepsOpen`.  Until the client has read the first packet the two ends
can only be `Connecting`; afterwards no step takes the last reference to the owner
without closing (`Owns`, one lemma for each operator of the handle).

`CallAlternation` is about the abstract protocol itself, in variables of its own
(`Abstract == INSTANCE RemoteCall`): its calls alternate in every behaviour, at every
depth.

`DestructorsNeverAbort` is about `RemoteDestructors`: with `DestructorsCall = FALSE`,
`DestructorsSpec => []NoAbort`.  `Discipline` and `FlipFlop` are no invariants there, as a
side whose destructor runs after it has written the answer runs and has written last.
`DInv` therefore speaks of `Below`, the stack without the destructor: `Sound` holds of it
all the time, since a destructor that does not call changes counters only (`Counts`).
Where no destructor runs `DInv` gives `Steady`, and the step is one of `SideStep`.

`UnifiedEngine_proofs` proves, for any number of threads, engines and calls, all
safety properties of the run `engines`, `TypeOK`, `LuaExclusive` and `LoadedIsReal`.
The assumptions are that the main thread, the Java threads and the no-thread value
differ, that Lua, Java and the other engines differ, and that the bounds are natural
numbers.

- `EngineTypeCorrect`, `LocksExact`, `LuaIsExclusive` come from `Inv`, which adds
  `Shape` to `TypeOK` and `LockExact`: only the top of a stack may be a guard that
  still waits, a call out of Lua is above Lua code, `get_real_engine` is above a
  load or a use.  `HeldNonNegative` is the heart: each frame that unlocked the
  mutex has a locked guard of its own right below it, so a stack never owes a
  lock, and a locked guard on top means that at least one is held.  `KeepStep`,
  `LockStep` and `UnlockStep` then are the only three things a step does.
- `GlobalsImported`, `LoadedAreReal`, `EnginesOutlive`, `EnginesFixed` come from
  `EngineInv` beside `Inv`: the main thread has guards on its stack only while it
  loads the script, so only then engines are created (`Loading`); threads exist
  only if the Java engine does (`ThreadsStarted`); once it has joined them no
  thread runs (`ThreadsJoined`), and nobody is left to start one.
- `ContextsAreExact` comes from `ContextInv`: each context is once in the cache or in one
  frame of one stack, and the contexts are numbered without a gap.

`ConcurrentServer_proofs` proves, for any number of processes, threads, clients and
faults and any width of the delay, all safety properties of the run `server`.

- `PoolIsExact` is inductive with the type alone: `pids` is the set of processes with
  a status, and `main` waits only when there are `num_procs` of them.
- `ThreadsAreExact` says which threads exist in each state of a process: below
  `started` in `start` and `join`, the first one `inline`, none otherwise.
  `NoProcessIdle` and `WorkersAreAttached` follow: an engine is loaded only where
  there is one thread, so a thread that found no engine is never among those that
  `WorkersAttached` is about.
- `ConnectionsAreOwned` comes from `ConnInv`: a connection waits in the backlog once if
  and only if it is `queued`; a thread holds one if and only if it serves, and no two
  hold the same.

`ProxyList_proofs` proves, for any number of proxies, all properties of the run
`proxies`.  `ListInv` says who holds the mutex (`LockInv`), what may exist in a phase of
the main thread (`PhaseInv`), and that the linked nodes are a ring (`RingInv`).  That
nothing is cut off is stated with sets closed under `next`, as paths would need
induction; `RingInsert` and `RingUnlink` carry it over the two updates.  `LastInv` is why
the unprotected test is right: a node that has left keeps `next` pointing to itself if
and only if it left as the last, and after that nobody can come, as the end node has
left too.  `ValueInv` and `WalkInv` follow the variants: the nodes visited by the main
thread are those between the end node and the cursor, and all of them are void.

`PacketStream_proofs` proves `DeliveredExactly` in two halves.  The first,
`PacketsAreExact`, is about any serializer with three properties (`Framing`): the length
of a packet is known from the packet whatever follows it, the beginning of a packet is
not taken for a packet, and reading a packet gives its message.  The invariant says that
the bytes in the buffer and on the way are the packets of the unread messages and
perhaps the beginning of one more.  The second half shows that the compact serializer is
such a serializer, for the messages of `Sendable`: any sequence of tokens whose data has
less than 2^24 bytes, the length that `Form` can write.

- `PacketsAreFramed`: the two properties about lengths.
- `ReadsBack`: `Deserialize(Serialize(m))` is `m`, with the longs that fit as ints.
  `MinimalIs` says that the bytes kept determine those dropped, so `IntBack` and
  `LongBack` hold; `TokenReads` says that a token is read as it was written wherever it
  stands; `NextPosition`, `TokensChain` and `Walk` say that the reader goes from the
  beginning of a token to the beginning of the next.
- `CompactIsExact`: `UsesCompact => (Spec => []DeliveredExactly)`, where `UsesCompact`
  says that the constants are those of the compact serializer, as in `MCPacketStream`.

From the same invariant follows the refinement, for any such serializer
(`StreamImplementsChannel`) and for the compact one (`CompactChannel`):
`Spec => ImplementsChannel`.  Each step of the stream has its lemma.  A write appends
the message to `Undelivered` (`PipePut`).  A read returns the message at its head, which
is that of the first packet under way, and leaves the rest (`PipeTake`): there is one, as
a part of a packet is not taken for a packet.  All other steps leave both sequences alone
(`SameUnderway`).

`SmtpProxy_proofs` proves both properties of the run `smtp`, for any mails.  `StaysInStep`
goes through all answers to a command (`CommandStep`, `CallbackStep`): a code that the
client gets leaves the backend as the client thinks.  The inductive invariant `IInv` adds
that no command of a client in step has become a line of a mail (`ClientInStep`).  That a
mail leaves such a client in step needs the form of mails: `LonePeriod` says that a line with its end
added terminates a mail only if it is a lone period, `NothingLeft` that every mail but
those of `EndsInLonePeriod` is read whole, so that `OneAnswer` is all the client gets; a
mail that does end in a lone period makes `Cut` true from then on.  For a client that is
out of step `Invited` is invariant: the 354 to a DATA is the last of the answers not yet
read, and none of them when the proxy reads commands, as whoever reads it is the client
that writes the mail, or it is behind the answers to earlier commands
(`OneGiven`, `OneRead`); what is left over of a mail adds 500s only (`LeftoverLines`).
`AcknowledgedAsSent` adds `Lists`,
which relates the mails sent, taken and acknowledged, and `MailComesThrough`: but for
those of `EndsInPeriodLine`, a mail that is escaped, read up to its end, unescaped and
escaped again for the backend has the content it had.  It rests on `LinesShape`, that a
mail is in one way a sequence of lines, `Escaped` and `EscapedComesBack`, that a period is
put before each line that begins with one and taken away from it, and
`LinesOfCanonical`, that joining lines and cutting the result gives these lines.

`UtfConv_proofs` proves, for any set of given strings of any length,

- `TypeCorrect`: `Spec => []TypeOK`
- `StringsComeBack`: `Spec => []RoundTrip`
- `WritesWellFormed`: `Spec => []OutputWellFormed`
- `PermissiveEnds`: `Spec => []PermissiveGoesThrough`

The assumption is that bytes and units are given.  `BytesForm` and `FormNumber` say that
`Bytes`, which writes a number in UTF-8, and the code, which reads it, undo each other,
`PairNumber` and `NextUnits` say it of UTF-16.  For the way back the two strings are
compared by `Marks`, a set of pairs of places: at each pair the same number stands in
both, and the pair of places behind it is in the set too.  Each step on the way there
adds a pair (`MarksGrow`); on the way back each step goes from one pair to the next, so
what it writes is what stands in the given string (`Returning`), and at the end of the
one is the end of the other.

`UnifiedEngine_proofs` also proves the loader of C++ files, which is an engine too, for any
number of callers and processes, any times and any number of edits:

- `LoadedOnce`: `LoaderSpec => []OneClass`
- `LoadsAreCurrent`: `LoaderSpec => LoadedIsCurrent`

`StampsHold` is why comparing two time stamps is enough: a whole library that looks newer
than the source has its text, or its compiler was late.  `EnoughFor` is what a thread has
from then on, whatever others do with the file: a library not older than what it saw, or a
late one, or one that is not whole and cannot be loaded; a linker that ends makes it whole
and either current or late.  `NewEnough` claims it for a thread between its two calls of
`stat` if they will find the library newer, for one whose linker works on a file that
another has replaced, and for one on its way to the load.

`MailStore_proofs` proves `TypeOK`, `EntriesAlive`, `AcknowledgedIsStored`, `WrittenOnce`
and `MailsInOnePiece`, and that the server implements `StableStore`, for any number of
threads, mails and crashes and any queue.  `QueueInv` says where an entry may
be: in `q_waiting` if its thread is queued and not done, in the batch of the one leader
(there is one if and only if `executing_flag` is set), never in both; it gives
`EntriesAreAlive`.  `FileInv` follows the leader through its batch: mails before `at` are
in the file or failed, those after it are not, the header of the present one is the
last fragment when its body is written.  `AcknowledgedAreStored` needs both, as the flag
`success` is set by the leader and `written` by the turn of the loop, and the answer is
given by a third step of another thread.  `ServerImplementsStore` (`Spec =>
ImplementsStore`) adds `TakenInv`: a thread that is not idle has taken a mail, and every
fragment in the file is of a mail that was taken, so that a commit makes no other mail
durable.  That a durable mail stays so holds for every step: the synced part is never cut,
not by an abort or a loss of power either.

Definitions by recursion need two things the provers do not give.  Tlapm takes a
recursive function `f[x \in S] == e` for `CHOOSE f : f = [x \in S |-> e]`, so its equation
has to be proved: `LinesExist` and `LinesRule`, `JoinExists`, `NextPosition` and their like
show by a witness that there is such a function.  And the induction theorems of the library
take an operator as a parameter, which the provers cannot instantiate; here every induction
is about a set: `Least` takes the least element of the set of numbers for which the claim
fails from the well-foundedness of `<`.

Only model-checked: liveness, which the prover does not treat (`CollectionEnds`,
`CloseReachesPeer`, `CallsReturn`, `WaitReturns`, `ThreadsEnd`, `JoinReturns`,
`QueuedIsTaken`, `PoolRefilled`, `Answered`).  Every invariant and action property of the
passing runs is proved.

## 13. Not modelled

- Application destructors that run in `localobjmap.clear` and call the connection: they
  would enter `clear` again, which is undefined.
- Several threads on one handle; the code has no lock there and leaves it to its
  callers.
- Objects that share an identifier: `get_local_object_id` uses the vtable address
  for a variant without a pointer, so such variants are one object of the model.
- Objects passed by value: they are payload.
- In the unified engine: `force_gc`; a release or
  collection of a Lua object is a call into Lua like another; emptying the table
  of ASE globals at the end; more than one unified engine (`efac_mutex`); daemon
  threads, which `joinAll` ignores; what threads do after an exception of
  `load_file` has destroyed the engines under them (the model stops them there).
- In the concurrent server: `set_shut`, which nothing calls, and what follows from it
  (`child_thread_terminated`, the end of `worker_main` without an exception); `fork` of
  a program that has loaded a Java virtual machine.
- In the serializer: packets of 2^24 bytes and more, and bytes that no writer makes
  beyond single tokens; the ASN.1 serializers, which wrap generated code.
- In the SMTP proxy: a filter that refuses a mail (the source has none; it would leave
  the backend waiting for the mail), the texts of responses, transparent proxying.
- In the mail store: the mode with one file for each mail, and `pgy=0`.
- In the loader: modules named without a file, a module that executes files while it is
  being loaded, two files with the same name (modules are found by name without the
  directory), and unprotected use of `libmap`, taken as atomic.
- Variants, containers and the searching and parsing parts of gtcpp are sequential code
  whose hard part is data, not control.  The bindings' class tables and `pmcjs` translate
  between virtual machines whose state and collectors are outside the repository.
- The remaining components of section 1 with status `not_modelled` in `PROJECT.json`.
