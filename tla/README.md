# A TLA+ model of lua-llsocket

lua-llsocket binds the BSD socket interface to Lua. Most of its methods are one
system call each. What is hard in it is what happens *around* the calls: who
owns a descriptor, what Lua code runs in the middle of a C function, which
userdata a C pointer keeps using, and whether a script can tell from a method's
results what the kernel did. These modules model that, TLC checks them on small
instances, and TLAPS proves the safety properties of every part for all instances.

Paths are relative to the repository: `src/socket.c`, `doc/socket.md`.

## 1. Inventory

| Component | Source | State | Operations |
|---|---|---|---|
| close functions (`llsocket.gcfn`) | `gcfn.c`, `socket.c` 903-915, 1983-2023 | per socket a doubly linked list of userdata, each kept alive by a registry reference; the static sentinel `GCFN_DONE` | `addgcfn`, `delgcfn`, `call_gcfn` from `close`, `__gc` and `unwrap` |
| descriptors (`llsocket.socket`) | `socket.c` 917-1083, 1942-2186 | `fd`, family, type; the kernel's table | `new`, `pair`, `wrap`, `accept`, `acceptfd`, `recvfd`, `dup`, `close`, `socket.close(fd)`, `unwrap`, `__gc` |
| waiting and connecting | `socket.c` 614-626, 967-1083, 1792-1898 | none of its own: the kernel's connection, its pending error, the backlog, and what the scripts know | `connect`, `sendable`, `recvable`, `error`, `listen`, `accept`, `acceptfd`, `bind` |
| sending, receiving | `socket.c` 1085-1790 | none of its own: the kernel's queue, and what the scripts know | `send`, `sendto`, `sendfd`, `sendmsg`, `write`, `sendfile`; `recv`, `recvfrom`, `recvfd`, `recvmsg`, `read` |
| control message lists (`llsocket.cmsghdrs`) | `cmsghdrs.c`, `socket.c` 1674-1701 | a buffer, its size, the length laid out | `push`, `shift`; `recvmsg` writes into it |
| control messages (`llsocket.cmsghdr`) | `cmsghdr.c` | immutable level, type, data | `new`, `rights`, `data`, getters |
| message headers (`llsocket.msghdr`) | `msghdr.c` | three pairs of a pointer and a registry reference | `name`, `iov`, `control`, `flags` |
| multicast | `socket.c` 42-610 | the kernel's memberships, source filters, outgoing interface, loop and ttl | `mcastjoin`, `mcastleave`, `mcastjoinsrc`, `mcastleavesrc`, `mcastblocksrc`, `mcastunblocksrc`, `mcastif`, `mcastloop`, `mcastttl` |
| device | `device.c` | none: a table made from the kernel's list | `getifaddrs` |
| flags, socket options | `socket.c` 626-882, `llsocket.h` 364-483 | the kernel's | one `fcntl`, `getsockopt` or `setsockopt` each, some after a read |
| address info, env, constants | `addrinfo.c`, `env.c`, `tmpl/`, `codegen.lua` | immutable | constructors and getters |

How they interact. There is one thread per Lua state, and no locks. Concurrency
comes from three sides:

* **Lua code inside C functions.** `call_gcfn` calls user-defined functions
  (UDFs) in the middle of `close`, `__gc` and `unwrap`; they may call every
  method again, of any socket.
* **The Lua collector.** It runs at any allocation, frees what is unreachable,
  and calls `__gc`, hence UDFs, on the way.
* **The kernel, the peer and the host.** Descriptor numbers are reused at once; a
  send may take any part of the data; a receive may be interrupted, or find the
  peer gone; a connection fails between two calls, and its error can be fetched
  once; two servers wake up for one connection; interface addresses come and go,
  also in the middle of a method that makes two system calls.

Objects share state through bare C pointers next to registry references
(`msghdr`), through the sentinel (all sockets), and through descriptor numbers.

What makes each part correct:

* close functions: each is called exactly once, newest first, before the
  descriptor is given up; no pointer leads to a freed node;
* descriptors: each open one has exactly one party who will close it, and a
  close hits the descriptor it means;
* sending and receiving: following the documented results, the sender repeats
  exactly what was not taken, the receiver loses nothing and ends at the end;
* waiting and connecting: a script that follows the results takes the socket for
  connected only when it is, gives up only for the true reason, and both sides come
  to an end;
* multicast: memberships, filters and the outgoing interface are on the interface
  that the script named;
* device: each interface has one table, with all its addresses;
* control message lists: they are a queue; `len` never leaves the buffer;
* message headers: the pointers used are those that were set, and are alive.

`PROJECT.json` lists under "hazards" each place of the code where one of these
could go wrong, with the properties that watch it.

## 2. Modules

| Module | Models | Checked by |
|---|---|---|
| `Gcfn` | the close functions of the sockets of one Lua state | `MCGcfn` |
| `GcfnStack`, `GcfnRefinement` | what they promise: a stack per socket; the refinement mapping | `MCGcfn` |
| `GcfnAlloc` | `addgcfn` in two steps, with finalisers in its allocations (extends `Gcfn`) | `MCGcfnAlloc` |
| `Gcfn_proofs` | theorems about `Gcfn`, with the refinement of `GcfnStack`, and about `GcfnAlloc` | TLAPS |
| `Socket` | the life of descriptors (instantiates `Gcfn`) | `MCSocket` |
| `Socket_proofs` | theorems about `Socket` (instantiates `Gcfn_proofs`) | TLAPS |
| `Connect` | connecting and accepting: client and server scripts, the kernel | `MCConnect` |
| `Connect_proofs` | theorems about `Connect` | TLAPS |
| `Stream` | the send and receive methods, the kernel's queue and two scripts | `MCStream` |
| `Stream_proofs` | theorems about `Stream` | TLAPS |
| `CmsgHdrs`, `CmsgQueue` | control message lists, and the queue they implement | `MCCmsgHdrs` |
| `CmsgHdrs_proofs` | theorems about `CmsgHdrs`, with the refinement of `CmsgQueue` | TLAPS |
| `MsgHdr` | message headers and the collector | `MCMsgHdr` |
| `MsgHdr_proofs` | theorems about `MsgHdr` | TLAPS |
| `Device` | `getifaddrs`, as a function of the kernel's list | through `Mcast` |
| `Mcast` | the multicast methods on a host whose addresses change (extends `Device`) | `MCMcast` |
| `Mcast_proofs` | theorems about `Mcast` and `Device` | TLAPS |
| `Induction` | induction over sets of numbers, and lemmas about sequences | TLAPS |

### Gcfn

`head[s]` is `lls_socket_t.gcfunc`; `prev`, `next`, `ref` are the fields of
`lls_gcfn_t` (`ref` is `ref_self # LUA_NOREF`; `ref_fn` always changes with it);
`mem` is whether the node's memory is still there. `stack` holds the activations
of `call_gcfn`: the node it visits, the `next` it has saved, and whether it is
inside `lua_pcall`. Lua code, that is any method or the collector, runs when
the stack is empty or its innermost frame is in a UDF (`ScriptRuns`); C code
otherwise. One iteration of the loop is `EnterUdf` and, after whatever the UDF
does, `UdfReturn`; or `SkipDeleted` for a node that has been deleted; or
`VisitSentinel` when the list is the sentinel itself: `unwrap` and a nested
`close` may start a walk of a socket that is `DONE`, `GCFN_DONE.ref_self` is 0
and not `LUA_NOREF`, `pcall` of registry slot 0 fails, and the sentinel is
"deleted". A read of freed memory may return anything (`NextRead`, `RefRead`).

The errors of a UDF are swallowed by `lua_pcall`, so that they are `UdfReturn`
too. `owner`, `stamp`, `clock` and `called` are history.

`ForeignDel` allows `delgcfn` with a handle of another socket. Nothing in the
code prevents it, and it breaks the lists of that socket (with `ForeignDel = TRUE`
TLC finds `AllCalledAtEnd` violated after a few steps). The runs and most theorems
assume that scripts do not do it; `TypeCorrect` does not.

### GcfnAlloc

`addgcfn_lua` tests for the sentinel, then `lls_gcfn_new` allocates. Here this is
`AddBegin` and `AddEnd`, and in between `Finaliser` may start the walk of another,
unreachable socket. `adding` records at which depth of the stack an `addgcfn` is
waiting: until the stack is back at that depth, it does not go on, and while it is
at that depth, no script does. The memory stays safe (`gcfn_alloc`), but a function
may end up registered with a socket that was closed (`gcfn_alloc_late`).

### Socket

`fd` and `life` describe the Lua objects: "none" before, "live", "bare" after
`unwrap` removed the metatable, "finalised" after `__gc`, and "lost" if `pair` failed
before it could return the object. `tab` is the kernel's
descriptor table: the opening that a number refers to, 0 if closed. Openings are
numbered, so that a number that was closed and opened again can be told from what
it was. `own` is the opening an object was made for, `raw` the openings a script
holds as numbers (from `acceptfd`, `unwrap`) and has to close itself. `calls`
runs parallel to `G!stack`: what `close_lua`, `gc_lua` or `unwrap_lua` keeps
for the time after `call_gcfn`. So `Close` is `close_lua` up to `call_gcfn`, with
the number saved, and `CloseEnd` the rest.

A new descriptor has the lowest free number (`Lowest`). `Pair` is both objects at
once, and `PairFails` the path on which `fcntl(2)` fails for the second number: both
numbers are closed, while the object of the first, which exists already, keeps its
number and closes it again when it is collected. `Dup`, `Accept` and `RecvFd` are
actions of their own; their failing paths close what they opened within the call.

A setup, chosen in `Init`, fixes what happens besides:

* "plain": UDFs may tear down every socket but their own. Everything is checked.
* "reenter": a UDF may also close or unwrap the socket it belongs to. That is legal
  Lua, but the descriptor is then released under the pending `close_lua`, which
  closes the number once more (`socket.c:961`).
* "pairfails": `pair` may fail half-way, as above.

In the last two a number may be closed that is another's by now, so `OneInCharge`
and `CloseHitsOwn` speak of plain runs only. The rest holds in all three setups:

* nothing leaks (`NoLeak`), and each teardown that has begun ends (`TeardownCompletes`);
* when a call of `close`, `unwrap` or `__gc` closes or hands out a descriptor, no function
  of its object is left (`TeardownAfterUdfs`). It looks at the kernel's table, since
  `gc_lua` closes the number and leaves it in the object. Where a function of a socket
  tears down that very socket, the descriptor does go before the older functions run:
  these calls, and no others, are exempt;
* what then becomes of the older functions: an object that has given up its descriptor is
  `DONE`, so that no function can be added (`ClosedIsDone`), and those still there are
  in front of the outer call's walk, which has not ended (`NoneStranded`).

`Usable` lets a function call methods of the socket whose `__gc` runs it: `lua_close`
finalises objects that are still reachable.
`__gc` leaves its number in the object; the model ends the object's life there,
although another finaliser of the same collection could still use it. Allocating
userdata is assumed to succeed.

### Connect

`phase` and `soerr` are those of the kernel's socket, `link` its transport, and
`cause`, for the properties, what ended the attempt. `ConnectResult`, `SelectResult`
and `AcceptResult` are the values that the methods return for an errno; `React`,
`Sendable` and `Error` are a script that does what `doc/socket.md` says with them: it
repeats `connect` while `again`; after an `EINPROGRESS` or `EALREADY` it waits with
`sendable()` and asks `error()`, or calls `connect` once more; after an interrupt it
gives up or tries again. The kernel's part follows Linux: the first `connect(2)` of a
TCP socket sends the SYN; later ones return `EALREADY`, success once, or the pending
error once, and `ECONNABORTED` if `SO_ERROR` was read before; a Unix domain socket is
connected or refused at once, and with a full backlog gives `EAGAIN` or waits.
`Answer`, `TimesOut` and `Reset` are the network's. `Accept` finds that the other
server was faster (`EAGAIN`, or it waits), or that the connection at the head was
reset: Linux hands that one out, other systems take it off with `ECONNABORTED`.

### CmsgHdrs

The buffer is the set of the messages that are intact in it, with their offsets: a
write destroys what it overlaps. `CMSG_LEN` and `CMSG_SPACE` keep their arithmetic
with small constants (`HDR`, `ALIGN`), and `len` wraps at `WORD` as `size_t`
does. `Delivered` is Linux's `put_cmsg`: without room for a header nothing is
written, else the data is cut to the room. The refinement to `CmsgQueue` reads the
list off the buffer from offset 0, as `CMSG_FIRSTHDR` and `CMSG_NXTHDR` do.

### MsgHdr

`ref` are the registry references, `ptr` the pointers that `sendmsg_lua` and
`recvmsg_lua` read. The three methods push the current object *before* they look
at `lua_gettop(L) > 1`, so that the condition always holds, and a getter sets the
object it has just pushed: `Get` is `Set` with the current object. `SetIov` is
`iov_lua` as written, with `msg->name = NULL`.

`RecvMsg` is what `recvmsg_lua` does to the address: it passes `&ai_addr`, the place
of the pointer, so that the kernel writes the sender's address over the pointer and
what follows it. `spoiled` collects the addresses to which that has happened. (Sending
passes the same place, hence a wrong address, but changes nothing.)

### Stream

One direction of a connected pair. `SendResult` and its relatives are the values
(len, err, again) the send methods return for what the system call returned;
`React` is a script that does what `doc/socket.md` says: repeat with the rest while
`again`. `RecvResult` and its relatives give the outcome of the receive methods:
a value, again, an error, or nothing at all ("closed"). `queue` is the kernel's: a
stream's segments (a segment with descriptors is not merged), or records. A send
takes any part of a stream's data; calls are interrupted, refused, or end with
`EPIPE`; the connection may be reset, which loses the queue and gives one
`ECONNRESET` and then 0. `INT` stands for 2^32: `lua_pushboolean` takes an `int`.
The variable `setup` is chosen in `Init` and never changes: the socket type, the
messages, the receiving method, and which `sendfile` was built.

Descriptors travel by `sendfd`, with one byte, or in the control list of `sendmsg`:
`Rights` is `cmsghdr.rights`, which writes each as four bytes, and `Data` is `h:data()`,
which reads them back. The kernel hands them over with the first bytes of the message.
The scripts do what the interface demands: the sender takes the list off the header
once a part of the message was sent; the receiver lays out a list of -1 before each
`recvmsg`, since `recvmsg_lua` offers no more room than what is laid out and leaves the
list as it is when none came (`socket.c:1693`). The control list itself, with its
offsets and padding, is `CmsgHdrs`.

Four corners are outside of the instance (`IsSetup` and the constants name them). Three,
because the property that would cover it fails there: an empty record on a
`SOCK_SEQPACKET` socket is reported as "closed" (`socket.c:1514`, `ClosedByPeer`), except
by `recvmsg` with descriptors; an unsent rest of a multiple of 2^32 bytes is reported
without `again` (`socket.c:1120`, `SenderInStep` with a small `INT`); and the portable
`sendfile` reports the end of a file that is shorter than asked as success
(`socket.c:1434`, `SenderInStep`). The fourth is the kernel's: descriptors sent without
a byte of data on a stream do not travel.

`doc/socket.md:520` says that `recvmsg` returns `again` also if the length is not
`mh:bytes()`. The code returns it only for the three errnos (`socket.c:1685-1689`,
`1702`), and so does `RecvMsgResult`: the model follows the code, its receiver asks for
more in any case, and no property depends on it.

### Device, Mcast

`GetIfAddrs` is the loop of `getifaddrs_lua` over the kernel's list: one table per
interface, found again by `TableOf` however far apart the entries are; entries without
an address are left out.

A script names an interface. For IPv6 the methods pass its index; for IPv4 they ask for
its address first (`Resolve`, SIOCGIFADDR) and then pass that, so that a method is
`Enter` and `Commit` (for `mcastif`, `EnterIf` and `CommitIf`), and `AddAddr` and
`DelAddr` may come between. `rules` are the kernel's memberships and filters, by
interface, `want` those that the results of the methods let the script expect; `out` is
the outgoing interface with the address it was set by, from which `mcastif()` finds the
name again (`FirstWith`). `raced` notes that an address changed inside of an IPv4 call.
`NullRead` is the read of the family of an entry that has no address. `SetOption` is
`lls_sockopt_int_lua`, for `mcastloop` and `mcastttl`: `was` is the value it returns, the
one before the change; without an argument, and when a system call fails, nothing
changes.

## 3. Runs

There are twelve; `PROJECT.json` lists them with what they show. A run with several
setups explores them all: the setup is a variable that `Init` chooses. Bounds:

* `gcfn`, `gcfn_alloc`: two sockets, three functions. Two sockets are needed for a UDF
  that closes another socket; three functions for a deletion in the middle of a list,
  and for one of the saved next while a third remains. Each function is added at most
  once, which bounds the runs; walks nest as deep as the functions allow.
* `socket`: two objects, two functions, two numbers; three openings (`maxopen`), so that
  a number is closed and opened again while a close is pending, two in the "reenter"
  setup, where teardowns nest.
* `cmsghdrs`: messages of 1, 3 and 4 bytes with `HDR` 4 and `ALIGN` 2: with padding
  (1, 3) and without (4), two or three in `MaxLen` 20 bytes, and room for a cut message.
  At most two messages are received at once.
* `msghdr`: two headers, two objects of each kind: an object shared by two headers, and
  one that replaces another.
* `stream`: messages of up to 5 bytes, a queue of 6, reads of 4: every message can be
  split, and the queue filled. Up to two descriptors per message (`Slots`). Twelve
  setups: data with both builds of `sendfile`, read by `recv` and `recvmsg`; datagrams,
  some empty; records; descriptors by `sendfd` between data, read by `recvfd` and
  `recvmsg`; control lists on streams, records and datagrams, also without data.
* `connect`: two clients, two servers and a backlog of one, so that a client meets a
  full backlog and two servers one connection; TCP and Unix domain sockets; clients that
  block, do not, or have SO_SNDTIMEO; both kinds of listeners. Two faults
  (`MaxFaults`): an interrupt, a lost and a reset connection, in any two combinations.
* `mcast`: two interfaces, one with an IPv6 address, two IPv4 addresses, one group, two
  sources, four changes of addresses: an address can be removed from one interface and
  given to the other during a call, and once more before the next. Every set of
  interfaces without hardware address is tried.

Symmetry is used only in runs without liveness properties. `CHECK_DEADLOCK FALSE`
is given where the system may stop: when the functions, openings, messages, clients or
changes of the instance are used up.

**Fairness.** C code does not stop in the middle: weak fairness of the steps of
`call_gcfn` and of the ends of its callers. Strong fairness of `UdfReturn` is the
assumption that UDFs return, which the code cannot enforce: it is strong since
walks nested inside a UDF disable it for a time. In `Stream` both scripts repeat
their calls, and the kernel does not interrupt one for ever; no fairness of the
network is assumed.
In `Connect` the scripts go on with their loops, the listener is set up some day, and a
host that gets a SYN answers it (unless the attempt times out first): weak fairness of
`ClientStep`, `ServerStep`, `Listen` and `Answer`. Faults are bounded, not fair.

**Violations.** Four runs end with a counterexample against what a comment, a
document or a test says; "findings" in `PROJECT.json` quotes each:

| Run | What the code does |
|---|---|
| `gcfn_alloc_late` | a finaliser inside `addgcfn`'s allocation closes the socket; the function is registered all the same and never called (`socket.c:2014`) |
| `msghdr_iov` | `iov(nil)` keeps using the iovec, and any `iov()` removes the address (`msghdr.c:76`) |
| `msghdr_name` | `recvmsg` with an address object has the kernel write over the object's pointer (`socket.c:1663`) |
| `mcast_null` | `mcastif()` reads the family of an interface entry that has no address (`socket.c:148`) |

## 4. Proofs

All theorems hold for every value of the constants that the named assumptions of the
modules allow: any number of sockets, functions, descriptors, clients, interfaces or
messages, and any bound. None of the properties is inductive alone. Each module has an
inductive invariant (`IInv`, `AllocInv`), a lemma for each action with a step for each
conjunct the action can disturb, and the theorems read their property off it.

| Module | Theorems (properties of the runs) | Hypotheses |
|---|---|---|
| `Gcfn_proofs` | `TypeOK`; `NoStalePointer`, `SavedNextIsCurrent`, `ListsIntact`, `AllCalledAtEnd` and the action properties `CalledOnceNewestFirst`, `DoneOnlyCalls`; `ImplementsStack` (refinement); for `GcfnAlloc`, `AllocTypeOK` and `NoFreedPointer` | `~ForeignDel`, except for `TypeOK` |
| `Socket_proofs` | `TypeOK`, `NoLeak`, `OneInCharge`, `CloseHitsOwn`, `ClosedIsDone`, `NoneStranded`; the action property `TeardownAfterUdfs` | `~ForeignDel`, for the last two |
| `Connect_proofs` | `TypeOK`, `DownIsFailed`; the action property `UpIsConnected` | none |
| `Stream_proofs` | `TypeOK`, `ClosedByPeer`, `SenderInStep`, `NoByteLost`, `FdsInOrder` | `Small` for `SenderInStep`, `Fits` for `NoByteLost` |
| `CmsgHdrs_proofs` | `TypeOK`, `WellFormed`, `HoldsWhatCame`, `ImplementsQueue` (refinement) | none |
| `MsgHdr_proofs` | `TypeOK`, `NameAndControlAsSet`, `NameAndControlAlive` | none |
| `Mcast_proofs` | `TypeOK`, `AsNamed`; the action properties `TellsInterface`, `DevicesComplete` | none |

`Small` says that no message has 2^32 bytes or more and that the portable `sendfile` is not
asked for more than the file has, `Fits` that a record is not longer than the buffer it is
received with. Where they fail, so do the properties (the corners of section 3 under
`Stream`); `MCStream` assumes both of its setups. The other assumptions say of the
constants what the program's values are: NULL is no node, nil no table, names
and numbers of different kinds differ, `HDR` is a multiple of `ALIGN`, and the length limit is less than
`SIZE_MAX`.

**Close functions.** `Gcfn`'s `IInv`:

* the links of registered nodes are mutual and sorted by the time of addition, and
  a node's `next` is the *newest older* one still registered (`WellLinked`). This
  form, with order instead of reachability, needs no recursion, and says that a list
  from its newest node on misses none (`NoneLost`);
* a head, or a walk's current node, has no `prev` (`StartsFirst`), so that deleting
  it leaves no dangling pointer to it behind: `delgcfn` handles the head, and
  `~ForeignDel` with `head # DONE` keeps it away from nodes that are being walked;
* of the walks of one socket only the outermost has a list, the others have walked
  the sentinel (`WalksOK`), since `call_gcfn` sets `DONE` before anything else;
* the saved `next` is the current `next` (`SavedNextIsCurrent`), since nothing can be
  deleted from, or added in front of, the list of a socket that is `DONE`.

That `Gcfn` implements `GcfnStack` follows from this order. The refinement mapping reads a
list along `next` (`Chain`). By induction over the stamps, what it reads from a node on is
that node and every older one of its socket, newest first (`FollowSorted`). Hence what is
left of a socket's list holds exactly the functions registered with it that are not running
(`PendingNow`), and since there is only one list of a set by descending stamp
(`SortedUnique`), the proof need not follow the pointers through a step: it is enough that
`addgcfn` adds to this set its newest, `call_gcfn` takes the newest from it, and `delgcfn`
takes the function it names. The recursion of `Chain` is bounded by `clock`, the number of
additions, because a list cannot be longer.

With finalisers inside `addgcfn` most of that is false: a late `addgcfn` puts a node in
front of the sentinel of a socket that is closed, or being walked. `AllocInv` is what is
left, without order: links between nodes are mutual and registered nodes have memory
(`NodesSafe`); the sentinel knows at most the last node that was linked before it
(`SentinelSafe`); and no walk of its socket had begun when an `addgcfn` was called
(`AddsSafe`).

**Descriptors.** `Socket` uses the actions of `Gcfn` as they are: each step is one of
`Gcfn`'s or leaves its variables alone (`WalksOfGcfn`), so that what `Gcfn_proofs` says of
the lists, instantiated with the variables of `Socket`, holds there too. `IInv` adds
that each open number is somebody's (`OwnersOK`); that the socket of a pending call is
`DONE`, and its number the one that `close_lua` has saved, or gone (`PendingOK`); that the
pending calls are of different sockets, unless functions reenter (`NotReentered`); and, for
plain runs, that the objects keep their number until their own call ends (`PlainOK`).
`FunctionsGoFirst` needs two facts: only the three ends let go of a descriptor
(`EndsLetGo`), and a call whose socket has no function running is the outermost of its
socket, because only the innermost walk is between two functions (`EndsUncalled`); at the
end of that walk none is left (`AllCalledAtEnd` of `Gcfn`). For `NobodyStranded`, a list
that is not empty starts at the head or at a walk (`NoneLost` of `Gcfn`), and the head is
the sentinel.

**Connecting.** `Outcome` ties, for each client, the kernel's phase, its transport, the
pending error and what the script does: an error is pending only for the reason the attempt
ended with, and a script that waits or checks has an attempt under way.

**Sending and receiving.** `SendingOK` and `QueueOK` say what a message under way and a
queued segment look like; on top of these, `SenderInStep`, `NoByteLost` (with
`RecordsFit`) and `FdsInOrder` (with `RightsOK`) are each preserved. The sums (`Total`)
are recursive functions, and lemmas say how they change when a segment is added, cut
or taken. That descriptors survive the four bytes each of `Rights` and `Data` is a lemma
(`DataOfRights`).

**Control message lists.** The invariant is that the buffer *holds a list*: there are messages
`q` and offsets `o` such that the messages lie end to end (`Tiles`), nothing else is intact,
and `len` is where the last one ends (`Laid`). From this, walking the buffer as
`CMSG_FIRSTHDR` and `CMSG_NXTHDR` do gives `q` (`LaidItems`: the gaps are shorter than a
header, so that no walk stops early or finds anything in them), hence each of `push`,
`shift` and `recvmsg` is the step of `CmsgQueue` (`IsQueue`). Since `q` and `o` range over
infinite sets TLC cannot evaluate this invariant; it checks what follows from it.

**Message headers.** The collector looks at references, never at pointers. `IInv` adds that
referenced objects have not been freed (`ReferencedAlive`), and that the control pointer is
the reference's object and the address pointer that or NULL, as after `iov()`
(`NameAndControlAsSet`). Nothing of the kind holds of the iovec: after `iov(nil)` it is still
used, which the run `msghdr_iov` shows.

**Multicast and device.** No two interfaces have an address in common (`AddressesOK`), and a
method between its two steps holds the index, or an address that is still the interface's
unless the addresses have changed since (`CallOK`). For `getifaddrs` a lemma says what one
entry does to the table of an interface (`FeedOne`), and that the parts of the kernel's list do
it one after the other (`MakesTwo`, `MakesPart`), wherever the interface's entries are.

**Induction.** Facts about recursive functions over sequences (`FlattenSeq`, `Total`, `Items`,
`GetIfAddrs`) are proved with `SetInduction`, which has a set in the place of a predicate and
follows from the well-foundedness of the natural numbers.

Only model-checked: the liveness properties `EventuallyCalled`, `TeardownCompletes`, `BothEnd`
and `Settles`, which rest on fairness, and the violations.
The inductive invariants of `Gcfn`, `GcfnAlloc`, `Socket`, `Connect`, `Stream`, `MsgHdr` and
`Mcast` were checked by TLC on the instances of the runs before they were proved.

## 5. Not modelled

* `bind`, `shutdown`, descriptor flags and socket options: one system call, or a
  read and a write of the kernel's value with no step of the process in between, and
  no state of the library. `nonblock` and the timeouts appear as the kinds of calls
  that `Connect` and `Stream` distinguish.
* `addrinfo`, `env` and the constants: values that do not change once made, except for
  what `recvmsg` does to an address (`MsgHdr`). Name resolution is libc's.
* `cmsghdr.new` and the getters of a control message; the flags, index and mtu of an
  interface.
* Lua's own errors: running out of memory between a system call and the
  allocation of its userdata loses the descriptor; wrong argument types raise errors
  before anything is changed.
* `sendfile` on macOS and BSD; raw sockets in `Stream`; message flags such as
  `MSG_PEEK`.

## 6. What is left to do

1. `push` of a control message list in two steps, with a finaliser in its allocation, as
   `GcfnAlloc` does for `addgcfn`.
2. The hazards in `PROJECT.json` that no property covers; each has a note.
