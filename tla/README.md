# libsession: TLA+ models and proofs

libsession runs a command in a *session* of its own: a mount namespace whose
`/dev` holds a graphics card and a tty that the session master, a setuid
helper, serves through CUSE. The program that starts the session links the
library and gets a callback for every modeset ioctl, for the exit of the
command, and for the end of the session. `xsubsession` is such a program.

This directory holds the models of the parts whose correctness depends on the
order of events, on what may fail, or on lengths. Paths below are relative to
`src/libsession/` unless they begin with `xsubsession/`.

## 1. Inventory

| part | state | operations | talks to |
|---|---|---|---|
| library, `lib/session.c` | `struct session`: the socket, its registration | `session_new`, `session_start`, `session_free`, `socket_event`, `handle_event` | the user's event loop and callbacks; the master over a stream socket |
| library, `lib/ioctls.c`, `lib/serialize.c` | none | decode an ioctl and call the user; encode `RUN_COMMAND` | called by `session.c` |
| master, `setuid/main.c` | `struct data`: `SESSION_REF`, `OUTSIDE_REF`, `HAVE_FORKED`, `child` | set-up ladder, epoll loop, `socket_event`, `sigfd_event`, `handle_message`, `notify_umount`, clean-up ladder | library, kernel (signals, clone, mounts), card, tty, umountfs |
| card, `setuid/card.c` | `struct card`: the wait list `ioctls_waiting`, poll flags | CUSE requests open, release, ioctl, mmap, poll, read; `card_modeset_ioctl_response` | kernel (CUSE), the real card, `main.c` for modeset ioctls |
| marshalling, `setuid/ioctls.c` (from `generate-ioctls.py`) | none between requests | decide per ioctl whether all its memory is there, else ask the kernel for more (retry) | called by `card.c`, calls `ioctls_render`, `ioctls_modeset`, `ioctls_retry`, `ioctls_return_error` |
| umountfs, `setuid/umountfs.c` | the FUSE descriptor and its registration | mount and handshake, `fuse_event`, `fuse_readable`, `umountfs_has_hup` | kernel (FUSE), `notify_umount` |
| messages, `setuid/message.c` | the blocks of the message being read | `message_in`, `message_in_free` | called by `main.c` |
| device tree, `setuid/symlinks.c` | none but the two path strings of the walk | mirror `/dev`, remove the copy | file system |
| tty, `setuid/tty.c` | the CUSE descriptor | CUSE requests | kernel (CUSE) |
| `xsubsession/main.c` | `struct data`: `to_exit`, and what its ladder took | set-up ladder, event loop, three callbacks, clean-up ladder | library, X, EGL |

What is hard about it: the library, the master, the processes of the session
and the kernel move independently; the socket has no message boundaries and
both ends write to it with blocking calls from their event loops; the SIGCHLD
of the child races with the end of its mount namespace; either side of the
socket may go away at any time, with ioctls outstanding; a process may be
killed between the master's `epoll_wait` and its read; the wait list keeps
pointers to freed nodes and is correct only because of the order in which
others act; lengths from the process are multiplied in 32 bits and compared
with limits larger than the buffers; any of dozens of steps may fail. `PROJECT.json` lists these
hazards with the line at which each bites and the properties aimed at it.

What makes each part correct:

- *library*: the callbacks come in a legal order and number (`KeepsContract`),
  `on_exit` comes and means that the session is over (`OnExitCalled`,
  `OnExitMeansOver`), and the session outlives the callbacks
  (`SessionIsThere`);
- *master*: it lives exactly as long as one of its two references is held
  (`MasterOutlivesSession`, `MasterEnds`); the exit of the child is reported
  when others outlive it and only then (`SigchldMeansOutlived`,
  `ChildExitReported`);
- *card*: no ioctl gets two answers, a success comes from the callback it was
  made for, and an ioctl whose message was not lost is answered
  (`AnswersAreFinal`, `SuccessIsServed`, `IoctlsAnswered`); the lookup of a
  response reads no freed memory (`LookupReadsLiveNodes`), nothing is freed
  twice (`NodeFoundIsLive`), and the list behaves like a table (`KeepsTable`),
  whichever requests were lost;
- *marshalling and dispatch*: an ioctl is handled with all of its memory or not
  at all (`HandledWhole`), answered in the length the kernel expects
  (`RepliesFit`) and after a bounded number of calls (`EveryIoctlEnds`); each
  array comes back with its own elements (`ArraysAreRight`), and whoever asks
  with the lengths it was told gets everything (`SecondCallGetsAll`). Counts
  whose 32-bit products wrap, and ioctls longer than the socket's buffers, are
  the exceptions that each of these states (section 6);
- *messages*: what is run is what was asked for (`RunsWhatWasAsked`); what is
  dropped, and why (`DroppedForItsCount`); what is allocated is freed once
  (`MemoryIsKept`);
- *set-up and clean-up*: whatever step fails, what was taken is given back in
  an order in which it can be (`StepsFindWhatTheyNeed`, `CleanUpIsWhole`;
  `UndoneInOrder` for xsubsession), and the caller hears of it
  (`SessionNewReturns`, `FailureKeepsNothing`);
- *the devices together*: where the one thread of the master may get stuck or
  end, and who waits for ever then (`StuckByAKill`, `OnlyCardAborts`,
  `KilledGoes`, `EndIsNoticed`);
- *device tree*: the copy is that of the directory being walked, although
  `/dev` changes meanwhile (`PathFollowsFrames`, `Mirrored`,
  `QuietDevIsCopied`);
- *a user and its session*: library and master do not block on each other
  (`NoDeadlock`), and the program ends when its session does (`ProgramEnds`).

## 2. Modules

| module | models | composed of |
|---|---|---|
| `SessionState` | the state that library, master and kernel share, `Init`, the socket | |
| `Library` | `lib/session.c` after `session_new` | extends `SessionState` |
| `Master` | the event loop of `setuid/main.c`, with `fuse_event` and the forwarding of modeset ioctls | extends `SessionState` |
| `Kernel` | processes, signals, mount namespace (external) | extends `SessionState` |
| `Session`, `MCSession` | the whole of a running session, and its safety properties; the symmetry for TLC | extends the three |
| `SessionLive` | what has to happen in a session, with a history of lost messages | extends `Session` |
| `UserContract` | what `lib/session.h` promises about the callbacks (abstract) | implemented by `Session` |
| `IoctlWait`, `MCIoctlWait` | the wait list of `setuid/card.c`, with its memory; the requests in the order of their numbers, for TLC | |
| `WaitTable` | what the wait list promises (abstract) | implemented by `IoctlWait` |
| `IoctlRetry` | the parsers of `setuid/ioctls.c` with the kernel's retries | |
| `IoctlService`, `MCIoctlService` | the memory of an ioctl with arrays on its way through `lib/ioctls.c` and xsubsession's `modeset_ioctl` | extends `IoctlRetry`, and implements its `Spec` |
| `RunCommand`, `MCRunCommand` | `lib/serialize.c` against `setuid/message.c`, with the heap of the master | |
| `MasterSetup` | the ladder of `main()` and of the four `*_new` functions | |
| `Startup` | `session_new` with the ladder, and the end of the master | extends `MasterSetup` |
| `Devices` | the requests to card, tty and umountfs, and the master that serves the three | |
| `DevTree`, `MCDevTree` | the copy of `/dev` (`setuid/symlinks.c`, `filter`); a small `/dev` for TLC | |
| `XSubsession` | `xsubsession/main.c` with library and master around bounded sockets | |
| `IoctlWaitProofs`, `SessionProofs`, `IoctlServiceProofs`, `RunCommandProofs`, `StartupProofs`, `DevicesProofs`, `DevTreeProofs`, `XSubsessionProofs` | the theorems (those about `IoctlRetry` are in `IoctlServiceProofs`, those about `SessionLive` in `SessionProofs`) | extend the module they are named after |

An operator whose comment begins "A bug to catch" is a changed copy of the
definition after it. No behaviour of a specification uses it; it is there to
see that a property fails when the code has that bug.

A run checks at most a handful of properties. Some of them are conjunctions of
parts, each named and commented in its module: `StepsFindWhatTheyNeed` and
`CleanUpIsWhole` (`Startup`), `UndoneInOrder` (`XSubsession`), `MemoryIsKept`
(`RunCommand`), `ArraysAreRight` (`IoctlService`).

### State and actions

**Session.** One action is one call of an event loop's callback, from the
return of `epoll_wait` to the return of the callback, since each side is one
thread; everything may happen between two of them.

- `started`, `fdReg`, `libOpen` are the library's: `session_start` was called,
  `s->fd_ptr` is set, the socket is open. `exits`, `sigchlds`, `served` count
  the calls of the user's three callbacks. `SocketEvent` is `socket_event` with
  `handle_event`: `OnSigchld`, `OnUmount`, `OnModeset` by the type of the
  message, `OnHangup` for the branch at `session.c:302`.
- `toLib` and `toMaster` are the two directions of the stream socket. A reader
  takes all there is with one `recvmsg` and acts on the first header
  (`session.c:315-328`, `main.c:407-431`), so a read empties the sequence.
- `outside`, `sess`, `forked`, `child`, `umountReg` are `OUTSIDE_REF`,
  `SESSION_REF`, `HAVE_FORKED`, `data.child` and `e->fuse_ptr`. `SocketHangup`,
  `RunCommand`, `ModesetResponse`, `Sigpipe`, `Sigchld`, `Umounted`, `Modeset`,
  `ReadAborts`, `LoopEnds` are what the loop's callbacks do, and its end.
- `status` of a request: *new*, *queued* in the kernel, *sent* to the library
  and on the wait list, *ok* or *error* when answered, *gone* when withdrawn or
  when the CUSE descriptor went away. `order` is a history variable.
- `sigs`, `mounted`, `alive`, `born`, `childSt`, `childHow`, `childLast` belong
  to the kernel.

`SessionLive` adds `lost`, the messages that were read behind another one, so
that its properties can say of each lost message what its loss costs, and that
it costs no more.

**IoctlWait** goes below `status = "sent"`: nodes have addresses, `next`,
`prev` (for `prev_p`) and `unique` fields and are allocated or not (`live`).
`Push` is `ioctl_wait_new`, with the write to the former head, which may be
freed. `free` leaves the node's first word, which is `next`, with anything in
it, and `unique` as it was. The lookup of `card_modeset_ioctl_response` is one
action per iteration. A send may fail at any time (`SendFails`); `damaged`
remembers that one did while the library was there.

`sent` is what was written to the socket, `done` the place in it of the last
request that a response was read for, `at` that of the one being looked up.
`Receive(i)` takes the response to any request after `done`: those before the
`i`th got none, as they were read behind a report or another ioctl
(`session.c:328`), or as their response was read behind another one
(`main.c:413`); they keep their node for ever. `intact`, whether the length is
right, is free: a report behind a single ioctl changes the length too
(`session.c:343`, 368). So all that `IoctlWait` assumes of the library is that
responses come in the order of the requests and not twice, which is
`ResponsesInOrder` and `AnswersAreFinal` of `Session`.

**IoctlRetry.** `req` is the ioctl: its kind, the counts in its struct
(`counts`), and the lengths of what it points to as the parsers compute them
(`parts`); `inSize` and `outSize` are the `in_size` and `out_size` of the FUSE
request in this round. The two dozen parsers have seven shapes, one action
each; arrays come as *strings* (lengths are `size_t`), as *arrays* with a count
each, and with one *shared* count. Sizes are in units: a struct, a pointer, a
chunk. `Product` is the multiplication in 32 bits (`count * 4`, `8 *
num_chunks`): `Wrap` elements are 2^32 bytes long, which is taken for none. Two
arrays stand for the up to four a struct may hold. `ArgRoom` and `Room` are
what the receive buffers of the library and of the master hold (both 16000
bytes, less the header in the master's). Elements of 8 bytes wrap at half as
many as those of 4; a shared count for which only one of the two products wraps
is over the limit for the other and refused, like any other that is too long.

**IoctlService** gives the request with two arrays its contents: `mem` is the
memory of the process, cell by cell, each cell named by where it comes from.
`Cut`, `Fill` and `PutBack` are the three parts of a parser of `lib/ioctls.c`,
`CopyOut` is the kernel. `known` is what the process was last told. The
transport is `Reads`: a `recvmsg` returns the message and what is behind it, as
far as the buffer holds it. The library sends back as many bytes as it read,
whatever its parser did (`session.c:367`), and the master reads that in the same
way (`ResponseLength`); it compares the length with that of the request
(`RightLength`) and passes the contents on (`Serve`) or makes an error of it
(`ServeWrong`).

**RunCommand.** A string is a name and its size, a number four bytes of `Base`
values. `SessionStart` is `session_start` with `serialize_message_in`;
`ReadType` to `ReadDone` are `message_in` and `argv`, one action per malloc,
each of which may fail and go to the label it goes to; then `HandleMessage` and
`MessageInFree`. `heap` holds the blocks, `stray` and `past` are set by a free
of what is not allocated and by a write past the end of `argv`.

**Startup.** `Up` lists the steps of the set-up with the label their failure
jumps to, `Down` the statements of the clean-up with the labels before them;
`StepFails` is the `goto`. `held` is what the master has taken. The clean-up of
`card()`, `tty()`, `symlinks()` and `umountfs()` is the same code for a failed
`*_new` and for `*_free`, so it stands once.

**Devices.** A process asks (`Ask`), its request is in `queue` of a device
until the master reads it, and it waits for the answer; `Kill` withdraws a
request that is still in the queue, and sends an interrupt after one that has
been read. The master is in `wait` (`epoll_wait`), `ready` (a callback before
its `readv`) or `blocked` (in a `readv` that found nothing and is not
`O_NONBLOCK`). `Answer`, `Keep`, `Ignore` and `Abort` are what
`request_context`, `process_tty` and `fuse_readable` do with an operation:
answer it, read and forget it, pass over an interrupt, fail an assertion.

**DevTree.** `frames` is the stack of calls of `link_dir` with the lengths they
remember, `path` the two strings `orig` and `from`, which differ only in their
beginning. `must` and `may` of a frame say what `readdir` has to and may still
return while entries come (`Appear`) and go (`Vanish`).

**XSubsession.** `Up` and `Down` are the ladder of its `main()`, as in
`Startup`. `SocketReadable` and `SocketHungUp` are `socket_event` up to the end
of the user's callback, `Unregister` and `Reply` what the library does after
it; `Draw` is the end of a round of the inner loop, where `to_exit` is looked
at. The sockets hold `Room` messages either way, and a send to a full one
blocks. Of the master there is what the socket sees of it, in steps that
`Session` has in one: a message is composed (`Modeset`, `Sigchld`, `Umounted`)
and then sent (`MasterSends`).

## 3. Runs

| run | instance | distinct states | shows |
|---|---|---|---|
| `wait_list` | 3 addresses, 4 requests, any of which may get no response or one of the wrong length; sends fail at any time | 781 000 | the never-unlinked list is not walked into freed memory until a send fails while the library is there, even then frees nothing twice, and implements `WaitTable`, its liveness included |
| `session` | 3 processes (the two daemons symmetric), 2 ioctls each; any may `read()` the card | 2 504 000 | the callbacks, the references, the answers; the order `ResponsesInOrder`; `Session` implements `UserContract` |
| `session_live` | 2 processes, 2 ioctls each; any may `read()` the card | 66 000 | every ioctl is answered, exits are reported, the master ends and its end is noticed, but for what a lost message was to bring about |
| `every_ioctl_calls_back` | 2 processes | violated | two messages in one read: the second is lost (section 6) |
| `freed_session` | 2 processes | violated | an ioctl outstanding at `session_free` never returns |
| `ioctl_retry` | counts up to 9, where 5 wrap to 0 and 3 fit; buffers of 6 and of 5 units; 3 chunks where 2 do; 2 elements in each array of the library | 4 900 | every shape with every combination of counts; the arrays' contents; `IoctlService` implements `IoctlRetry`, its liveness included |
| `run_command` | bytes of 4 values, two calls, commands with up to 7 arguments | 24 000 | what is run, what is dropped, what is freed, wherever a malloc fails |
| `devices` | 2 processes that may be killed at any time, 9 operations | 25 000 | where the master may get stuck or end, and for whom that is the end |
| `dev_tree` | every tree of 7 paths, 2 changes, one directory too deep | 184 000 | the walk of a changing `/dev` |
| `startup` | every step of both ladders may fail, but one | 256 | the clean-up, from every label |
| `startup_mount` | the registration of `/dev/fuse` fails | violated | the mount stays |
| `xsubsession` | 3 processes, sockets that hold one message, every step of the ladder may fail | 4 800 | callbacks and memory, blocking sends, the clean-up, the end of the program |

Why the bounds are enough. *Addresses*: a lookup that goes wrong needs a freed
node that was given to a newer request while an older one waits, or one behind
the node of a request that was passed over: three nodes. `MCIoctlWait` lets the
requests come in the order of their numbers, as nothing tells them apart.
*Processes of a session*: the command, a process that outlives it, and one more
whose ioctl lies between those two. *Ioctls*: with two per process an answered
process asks again while others wait. *Lengths*: the parsers
compare the products of the counts with zero and with the limits, so counts
from zero to one over the limit are enough, and once more from `Wrap` on, where
the products repeat. With `Max` 3, `ArgRoom` 6 and `Room` 5 two arrays within
the limits fit both buffers, fit the library's only, or fit neither. *Bytes*: with four values a byte is
zero, below the sign bit, or above it, and three arguments make the length of
`argv` wrap. *Paths*: a directory within a directory, which with `Depth` 2 is
too deep, the same name in two directories, and each kind. *Changes*: one path
that goes and comes back, or two paths. *Devices*: one process whose request
is withdrawn, and one that needs the master then. *Sockets*: `Room` 1 is the
smallest, and with three processes the largest session that the theorem says
cannot block. The ladders have no bound. For all of the safety properties the
theorems of section 4 do without any bound.

`CHECK_DEADLOCK FALSE` stands where the system may rest: a session that is
over, a list with every request answered, a finished walk, devices nobody uses.
`Startup`, `RunCommand` and `XSubsession` have a stuttering step for their ends
only, and `IoctlService` has none, so that any other state of these without a
successor is an error.

### Fairness

- `SessionLive`: weak fairness of each kind of event for both sides. The
  master's loop is level-triggered on its signal, FUSE and CUSE descriptors and
  takes one event per round (`main.c:283-292`); `epoll_wait` hands ready
  descriptors out in turn, so none is passed over for ever. The user's loop is
  required by `register_fd` to do the same. The kernel delivers an exit
  (`NotifyParent`). Nothing makes the user call `session_start` or
  `session_free`, and nothing makes a process do or end anything. The master's
  socket is edge-triggered (flag 4 at `main.c:158`): as one read takes all
  there is, a new message is a new edge.
- `IoctlWait`: the lookup is a loop and ends; nothing else is fair.
- `IoctlService`, and `IoctlRetry` below it: the kernel and the master go on,
  and so does the library with an ioctl that fits its buffer; with a longer one
  its parser runs past the end of `arg[]` and may not come back. The process
  need not go on.
- `Startup`: `session_new` and the master run on by themselves; no session ends
  by itself and nobody has to free it.
- `Devices`: a callback comes to its end (`Read`); a descriptor that is ready
  again and again is reported at some time, as epoll's list of ready
  descriptors goes round (strong fairness of `EpollWait(d)` and `Hangup`, which
  the master's being busy with another device disables); a killed process
  closes its files and goes, if no request holds it. The library need not
  answer.
- `XSubsession`: the program and the master go on unless they are blocked. The
  processes need not do anything, and the master may end but need not.

## 4. Proofs

`tlapm` checks 48 theorems, for every value of the constants. Among them is
every safety property of the runs that pass; TLC checks the same properties on
the instances above. The assumptions on the constants are
`HeapAssumption`, `SessionAssumption`, `RetryAssumption`, `ServiceAssumption`,
`RunCommandAssumption`, `DevTreeAssumption` and `XSubsessionAssumption`.

**The wait list** (`IoctlWaitProofs`): `TypeCorrect`, `LookupIsSafe`,
`NodesCorrespond`, `ListIsLinked`, `NoDoubleFree`, `RepliesStay`,
`PushesAreSafe`, `ListImplementsTable`, whatever sends fail, whichever requests
get no response, and whatever length the responses have. That the lookup stays
in allocated memory is not inductive, since the list does run into freed
memory. `ListInv` adds that nodes and unanswered requests correspond
(`NodesAreWaiting`, the requests passed over included) and that, until it is
`damaged`, the list is intact *as far as it will be walked*: the head is the
newest pending request, and each pending request but the oldest is linked to
the one sent before it (`PendingAreLinked`). Pending are the requests that a
response can still come for, those sent after the last one that was looked up.
As responses come in the order of the requests, the lookup starts at the newest
request and ends at the one it is for, and everything it frees or passes over
is behind that: `Found` is the hard step, and needs that no link of a younger
request leads to the node freed but that of the oldest of them, which no later
lookup follows. The node of a request passed over may get out of reach and
stays allocated. The write to the former head hits an allocated node as long as
a request is pending (`PushesAreSafe`); with none pending the head is a freed
node and so is what is written to (section 6). A damaged list may be walked into
anything, but a node whose `unique` field is that of a pending request is
allocated, because a freed node keeps the number of a request that has its
reply. The refinement goes action by action: `WalkOn` stutters, `Found` is
`Answer`, `NotFound` is `Ignore`, which needs `damaged`. It covers the safety
part of `WaitTable`.

**The session** (`SessionProofs`): one invariant per concern, each on top of
those before it.

- `SessionTypeCorrect`: `TypeOK`.
- `MasterIsThere`: `RefInv`, that nothing was started before `RUN_COMMAND` and
  that a living process implies `SESSION_REF` and the outer mount gone.
- `SigchldIsForOutlived`: `ChildInv`, the way out of the child, and
  `ReportInv`, that a `GOT_SIGCHLD` in the socket or delivered means a reaped
  child that exited and was not the last. It is `umountfs_has_hup` that keeps it.
- `OnExitIsForTheEnd`: `OverInv`, that a `GOT_UMOUNT` in the socket means the
  hang-up, which is for ever (`HupIsForEver`); otherwise the master is gone,
  for want of references or through an assertion.
- `AnswersStay`, `SuccessWasServed`: `IoctlInv` says where a request may be,
  given its status: not served while on its way to the callback, served once
  when there is a response. That one read empties the socket makes it inductive.
- `ResponsesComeInOrder`: `OrderInv` says that the requests in each direction
  stand in the order of `order`, and those on the way back before those on the
  way out. A response is appended by the step that takes its request from the
  front, and that step drops the rest.
- `CallbacksKeepContract`: `UserInv` says what the socket and the references
  look like before `session_start` and after the end; with it each step of
  `Session` is a step of `UserContract` or a stutter.
- `NothingGetsStuck` is the safety part of the liveness of `SessionLive`: an
  ioctl that waits, the exit of the child, the end of the session and that of an
  unneeded master each wait for a step that one of the event loops, or the
  kernel, can take, or for a message that was lost. `WayInv` says that a
  request on the wait list is in the socket, on its way out or back, or lost;
  `SentInv` that what is on its way out is on the wait list, so that its process
  is still there (`WaitingInv`); `EndInv` that a watched mount, a `GOT_UMOUNT`
  in the socket, or a call of `on_exit` is left of every session that is over;
  `ChildWayInv` the same of the SIGCHLD. With `WaitingInv` it follows that a
  `GOT_UMOUNT` is lost only behind a `GOT_SIGCHLD` (`EndIsLostBehindExit`),
  which is why the exit of the child is reported in one way or the other unless
  its own message is lost.

**The retries** (`IoctlServiceProofs`): `RetryTypeCorrect`, `IoctlsAreWhole`,
`RepliesAreExact`, `RetriesAskForMore`. `RequestShape` says what the products
leave of the counts of each kind, and that they leave all of them unless one is
at least `Wrap` (`WholeUnlessWraps`). The invariant pairs `inSize` and
`outSize`: they are one of the rounds the shape of the request has (`StateOK`,
sharper than `TypeOK`), checks that were passed stay passed (`Checked`), and
what is forwarded has both sizes the same (`Forwarded`). `RetriesAskForMore` is
the measure behind `EveryIoctlEnds`. It has one exception, and so has that
property: a radeon_cs whose number of chunks is not zero while their pointers
come out as zero bytes (`Circular`) is asked for the same again and again.

**The arrays** (`IoctlServiceProofs`): `ArraysComeRight`, `SecondCallIsWhole`,
`ServiceImplementsRetry`. Lemmas on sequences follow the memory: what is put
together by `\o` is taken apart again (`TakenApart`), the local copies begin
with what the process has (`CutFacts`), `modeset_ioctl` overwrites as many as
there is room for (`FillFacts`), the copies back have the old lengths and the
kernel puts them where they came from (`CopyOutIs`, `ServedMemory`). The
invariant is that the memory is untouched until there is an answer
(`FreshInv`), that a process is told what there is (`KnownInv`), and
`ArraysAreRight`. A response of the right length fitted both buffers, whatever
was read behind it (`RightFits`): only then the service takes a step that
`IoctlRetry` calls a success, so that what the parser cut up and put together
was there as a whole. Every other response is an error in both.

**Messages** (`RunCommandProofs`): `RunCommandTypeCorrect`, `MessagesAreFreed`.
`HeapInv` says exactly what is allocated in each state of `message_in`: the
blocks of the message in hand as far as it has been read, and the paths that
were left behind before. That `argv` is long enough needs arithmetic: what four
signed bytes are read as is below `Word`, and it is `Word - 1`, which makes the
length wrap to zero, only if the last byte is `Base - 1` (`ReadFacts`,
`SlotsFacts`).

`WholeCommandsAreRun` and `DroppedForASign` say what becomes of a command.
`ReadIs` is the arithmetic: four bytes put together with `<<` and `|` from
signed chars give the number itself if no byte has its sign bit set, and
otherwise more than the number. So a count that is read wrong
is too large, and `message_in` runs out of strings before it runs a command
with too few of them; too long a count cannot be one of a command that fits,
which needs `Room < Word \div 2` (`IN_BUFFER_SIZE` is 16000, `main.c` reads
counts of 32 bits). `FateInv` follows a message through `message_in`: what was
sent fits (`FitInv`), what has been read is a prefix of it (`PrefixInv`), what
was run was whole (`RanInv`). `Length`, the bytes of a command, is a sum over
its arguments; that it grows with each of them (`SumGrows`) is an induction
over the numbers up to the number of arguments, which is had from the
least element of a set (`WFMin` of `WellFoundedInduction`): the set of the
numbers for which the claim is false has none (`LeastIs`, `SetInduction`).

**Set-up and clean-up** (`StartupProofs`): `StartupTypeCorrect`,
`NothingKeptAfterFailure`, `CleanUpHolds`, `LadderIsInOrder`,
`LeavesTheMountAtMost`, `StartupEnds`, `NobodyWaitsForNothing`, for every set
`MayFail` of steps that fail. `Up` and `Down` are tables; lemmas read off them
what each row takes, gives back and needs, and that the two mirror each other:
behind a label of the clean-up stand just the releases of what was taken before
the step that jumps to it. On the way up `held` is what the rows passed so far
have taken; on the way down all that is still to be released is there and
nothing else is (`SetupInv`, `UndoInv`, of `LadderInv`); `LibInv` says what the
library holds in each of its states. One row has no mirror: the step `fuseReg`,
whose failure jumps past the `umount` (section 6, `startup_mount`). `CleanUpHolds` therefore assumes `"fuseReg" \notin MayFail`,
as does the run `startup`; `LeavesTheMountAtMost` and the other five do not, and
the former says that nothing but the mount and the directories that carry it
can stay even then.

The last two are the safety part of `SessionNewReturns` and
`UnneededMasterEnds`. `StartupEnds`: a count of the steps taken (`Rank`) rises
with each step and never passes 64, so that all of it ends if it goes on.
`NobodyWaitsForNothing`: it does go on. The library in `recv` has its result,
or the master is on its way to one, or the socket is closed; and a library that
has let a running master go has closed its end, so that the master sees the
hang-up.

**The devices** (`DevicesProofs`): `DevicesTypeCorrect`, `MessagesAreSo`,
`ReadsWaitAfterAKill`, `UmountfsAsserts`. `MessageInv` says that a queue holds
at most one message about a process, and of which kind given the state of that
process; so only a withdrawal, not another reader, can empty a queue that
`epoll_wait` reported (`ReadyInv`). No answer hands out a node but the root's
(`NodeInv`), which the assertions of `fuse_readable` need.

**The device tree** (`DevTreeProofs`): `WalkTypeCorrect`, `StringsFollowCalls`,
`SuccessMirrors`, `QuietDevSucceeds`, for any `/dev`. `FrameInv` and `PathInv`
are about the strings. `PendInv` says that what was there all the time is
copied, or the walk will still come by a directory that leads to it;
`CopiedInv` and `OnceInv` that nothing is come by twice unless it changed. That
`/dev` is a tree is stated as being closed under `Above`, so that no step needs
an induction over paths.

**xsubsession** (`XSubsessionProofs`): `ProgramTypeCorrect`,
`NeverBothBlocked`, `CallbacksHaveTheirSession`, `CleanUpIsOrdered`.
`FlightInv` says that every message, in either direction or in the hands of
either side, belongs to a process of the session, and each process has at most
one. Two full directions and two full hands then take `2 * Room + 2` processes.
`LadderInv` relates what is held to the place in the ladder.
`OnExitEndsTheProgram` is the safety part of `ProgramEnds`: once `on_exit` was
called (`OverInv`: a socket that was unregistered means that `to_exit` is set)
or a step of the set-up failed, every step of the program brings it nearer to
its end (`EndRank`), and there are at most 12 of them.

**Model-checked only.** Liveness and what is enabled are out of the prover's
reach: `MasterGoneIsNoticed`, `MasterEnds`, `IoctlsAnswered`,
`ChildExitReported`, `OnExitCalled`, `EveryIoctlEnds`, `SessionNewReturns`,
`UnneededMasterEnds`, `KilledGoes`, `EndIsNoticed`, `ProgramEnds`, and the
fairness in `KeepsTable` and `KeepsRetry`. For all of them but `KilledGoes`,
`EndIsNoticed` and the fairness there is a theorem about what makes them true:
a measure that every step brings nearer to its end (`RetriesAskForMore`,
`StartupEnds`, `OnExitEndsTheProgram`), or a step that is always possible
(`NobodyWaitsForNothing`, `NothingGetsStuck`), so that only the step from "can"
to "will at some time" is left to TLC. The runs that find a violation have no theorem.
No module uses a `RECURSIVE` operator.

## 5. What the models assume and leave out

- *Kernel*: the teardown of a mount namespace comes before the SIGCHLD of its
  last process (`main.c:373`, which relies on it); signalfd returns SIGPIPE
  before SIGCHLD; a process killed while the master has its ioctl waits for the
  answer; processes do not change the memory of an ioctl during it. Signals
  that do not kill, and what the kernel makes of an ENOSYS to an interrupt, are
  left out of `Devices`.
- *Library*: the user's event loop calls the callback when the socket is
  readable or hung up; the flag `SESSION_ON_SIGCHLD` is given. In `Session`
  callbacks do not call the library; in `XSubsession` they are the program's
  own. The socket handed over by a debugger (`session.c:212`) is left out.
- *Messages*: in `Session` sockets are unbounded, and a `recvmsg` buffer (16000
  bytes) holds what is in them; in `XSubsession` they are bounded and a read
  may return any number of messages. `IoctlService` has the buffers, and an
  ioctl or a response that is longer is cut off; it leaves out what becomes of
  the rest, which the next read takes for a message: it begins with bytes of the
  ioctl, and one that happens to be a `MODESET_IOCTL` for the master has a
  `unique` nobody asked for, whose lookup walks to the end of the list, or into
  freed memory. It also leaves out what the parser of the library does to the
  memory behind `arg[]` when it takes lengths from a struct whose arrays were
  cut off. `serialize_u32` writes past the buffer
  when a path is longer than it (`RunCommand` takes a command for too long
  then, which is what follows if nothing breaks).
- *Master*: `DISABLE_WAIT` is defined (`card.c:36`), so the polling of the real
  card is not compiled in, and the timer with `notify_poll` (`card.c:294-336`)
  has nothing to do. SIGHUP, SIGINT and SIGTERM are read and ignored.
  `Session` has a `RUN_COMMAND` that is always read well: a malformed one, and a
  malloc that fails, belong to `RunCommand`. `Devices` has a master that never
  waits in its `sendmsg` to the library (`main.c:658`), which `XSubsession` has;
  a library that reads nothing keeps all three devices waiting.
  `UMOUNTFS_PRESENT_OUTSIDE_NAMESPACE` is never cleared; the second `umount`
  fails harmlessly. The two rounds of FUSE's version negotiation are one step.
- *Children*: `ChildExitReported` is about a child that exits. One that is
  killed is not reported (section 6).
- *IoctlWait*: of a freed node the allocator overwrites the first word, and
  perhaps the second, which nobody reads; `unique` stays. The write to `prev_p`
  of a freed head may hit a block that malloc has given to another part of the
  master, or its own links; of its victims the model has the nodes of the list.
- *IoctlRetry*: parts of a struct that no length depends on have no contents;
  the sum of the data of chunks (`length_dw * 4` each) is right or has lost
  2^32 bytes.
- *DevTree*: a path keeps its kind; I/O errors and paths longer than `PATH_BUF`
  are left out. (`new_dev` and `old_dev` are of the same length, so that the
  unchecked `snprintf` at `symlinks.c:241` does not cut a path that
  `try_append` let through.)
- *XSubsession*: its callbacks do not free the session, so `SessionIsThere` says
  nothing of a program that does, which `session.h` does not forbid. X events and drawing keep no state that matters; a stream of
  X events that never stops would keep the inner loop from looking at
  `to_exit`, and is left out.

### Not modelled

`makejmp.c`, which nothing calls; `framebuffer` and `name_to_texture` of
xsubsession, which nothing calls; the contents of the structs of
`lib/ioctls.c`, but for the arrays; the pointers that `ioctls_render` takes out
and puts in around the call of the real card; the vendored headers (`drm.h`,
`drm_mode.h`, `radeon_drm.h`), which hold types and numbers; the build files.
More than half of `card.c` is compiled out (338-475, 511-1475).

## 6. Disagreements between the code and what it says

With a run (`findings` in `PROJECT.json`): a `MODESET_IOCTL` behind another
message is dropped (`every_ioctl_calls_back`); ioctls outstanding at
`session_free` never return (`freed_session`); a failed registration leaves the
mount (`startup_mount`).

Seen while modelling, without a run of their own:

- a `GOT_UMOUNT` behind another message is dropped too, and `on_exit` does not
  come (`session.c:328`); `session_live` shows that it comes otherwise;
- after a `sendmsg` that fails while the library is there, the wait list is cut
  and responses to older requests are ignored (`card.c:1763`);
- the exit of a child that was killed is never reported (`main.c:381`,
  `session.h:49`); `ChildExitReported` leaves it out;
- a `read()` of the card aborts the master (`card.c:2038`);
- when the master cannot be executed, the assertion at `session.c:100` ends the
  user's program, though its comment blames the helper;
- when clone fails in `spawn_master`, the `goto` at `session.c:194` passes over
  "Unblock signals" (200), and the program goes on with every signal blocked;
  `FailureKeepsNothing` says that this is the one way to that;
- requests of ioctls that are read behind a report, or behind another ioctl, are
  never answered and keep their node in the wait list (`card.c:1501`);
  `NodesAreWaiting` counts them;
- a new request writes to `prev_p` of the former head, also when that was the
  newest request and has been answered and freed (`card.c:1496`): with one
  ioctl at a time that is every ioctl but the first. `PushWritesLiveNodes` says
  when it does not;
- the limits on arrays are compared with products of 32 bits (`ioctls.c:131`,
  141-153, 182, 192-204, 483): a count of 2^30 passes as zero bytes, and the
  ioctl is handled without its array (`HandledWhole`, `RoomIsUsed`);
- `8 * cs.num_chunks` is zero for 2^29 chunks, so the kernel is asked for no
  pointers, again and again, before the number of chunks is looked at
  (`ioctls.c:784`, 876; the check at 787 comes later): such a `radeon_cs` never
  ends (`RetriesGrow`, `EveryIoctlEnds`);
- the limits on arrays let ioctls pass that are longer than the buffers of 16000
  bytes on both ends of the socket: 16448 bytes for `GETRESOURCES`, about 86 KB
  for `GETCONNECTOR` (`session.c:312`, `main.c:401`). They come back with the
  wrong length at best;
- the refusal of arrays that are too long is shorter or longer than the kernel
  expects (`card.c:1526-1528`); `RepliesFit` leaves it out;
- the tty and umountfs are not opened with `O_NONBLOCK`, so the master waits in
  their `readv` when a process is killed between `epoll_wait` and the read
  (`tty.c:240`); `StuckByAKill` says that this is the one way to that, and
  `EndIsNoticed` that on the tty it is for ever when no process is left;
- a process that uses the tty or the card in a way their handlers do not know
  waits for ever, killed or not (`KilledGoes`);
- `deserialize_u32` puts words together from signed chars, so a command with
  128 arguments is dropped (`DroppedForItsCount`), and one with 255 writes to
  an `argv` of length zero (`SlotsHold`);
- the labels `e_r1` and `e_r2` of `message.c` are the wrong way round: the path
  leaks when `argv()` fails, and a pointer that was never set is freed when the
  path cannot be read (`OnlyPathsStay`, `FreesWhatItHas`);
- two full sockets do block both sides for ever, with `2 * Room + 2` processes
  or more; `NoDeadlock` states the bound.

## 7. Plan

Done: the wait list and its refinement; the session, its contract and its
liveness; set-up and clean-up; retries and the arrays; messages; the devices;
the device tree; xsubsession and its sockets; theorems for each, and for every
safety property of the runs.

Worth doing next:

1. The safety part of `KilledGoes` and `EndIsNoticed` (`Devices`) as theorems,
   as for the other liveness properties.
2. `Session` with a user who calls `session_free` in a callback, as
   `session.h` does not forbid it (`XSubsession` has a user who does not).
3. `IoctlService` with the pointers of `ioctls_render`, where the card rather
   than the library fills the memory.
4. The rest of a message that was too long, read as the header of the next one,
   in `Session` and in `IoctlWait`.
