------------------------------- MODULE Devices -------------------------------
(***************************************************************************)
(* The files the master serves to the session: the card (card.c) and the   *)
(* tty (tty.c), which are CUSE devices, and umountfs (umountfs.c), an empty *)
(* FUSE file system.  One thread serves the three: epoll_wait names one    *)
(* that is readable, and its callback reads a request, and may answer.     *)
(* Only the card is opened with O_NONBLOCK.                                *)
(***************************************************************************)
EXTENDS Naturals, Sequences, SequencesExt

CONSTANTS Proc,   \* the processes of the session
          Asked   \* the operations they use

VARIABLES st,       \* idle, asks (queued), read (by the master), gone
          req,      \* what each process asks
          open,     \* the devices each process has open
          killed,   \* the processes that are to go
          lost,     \* of which devices a request has been withdrawn
          queue,    \* what can be read from each device
          mpc,      \* the master: wait, ready, blocked, aborted
          dev,      \* the device it serves
          waiting,  \* whose modeset ioctls are with the library
          nodes,    \* the nodes of umountfs the kernel knows
          notified  \* has notify_umount been called?

procVars == <<st, req, open, killed, lost>>
vars == <<procVars, queue, mpc, dev, waiting, nodes, notified>>

Dev == {"card", "tty", "fs"}
Devices == {"card", "tty"}
Node == {1, 2}

Entries == {"create", "symlink", "mknod", "mkdir"}

(* What processes ask; "modeset" is an ioctl that is forwarded.            *)
Ops == [card |-> {"open", "release", "ioctl", "modeset", "mmap", "poll", "read", "write"},
        tty |-> {"open", "release", "ioctl", "poll", "read", "write"},
        fs |-> Entries \cup {"getattr", "opendir", "readdir", "releasedir", "lookup",
                             "access", "flush", "statfs", "fsyncdir", "other"}]

Request == {r \in [dev : Dev, op : UNION {Ops[d] : d \in Dev}, node : Node] :
              r.op \in Ops[r.dev]}
NoRequest == [dev |-> "none", op |-> "none", node |-> 1]
Message == [p : Proc, kind : {"request", "interrupt"}]

TypeOK ==
  /\ st \in [Proc -> {"idle", "asks", "read", "gone"}]
  /\ req \in [Proc -> Request \cup {NoRequest}]
  /\ open \in [Proc -> SUBSET Devices]
  /\ killed \subseteq Proc /\ lost \subseteq Dev
  /\ queue \in [Dev -> Seq(Message)]
  /\ mpc \in {"wait", "ready", "blocked", "aborted"}
  /\ dev \in Dev \cup {"none"}
  /\ waiting \subseteq Proc
  /\ nodes \subseteq Node
  /\ notified \in BOOLEAN

Init ==
  /\ st = [p \in Proc |-> "idle"]
  /\ req = [p \in Proc |-> NoRequest]
  /\ open = [p \in Proc |-> {}]
  /\ killed = {} /\ lost = {}
  /\ queue = [d \in Dev |-> <<>>]
  /\ mpc = "wait" /\ dev = "none"
  /\ waiting = {} /\ nodes = {1} /\ notified = FALSE

Gone == \A p \in Proc : st[p] = "gone"

-----------------------------------------------------------------------------
(* The processes and the kernel.                                           *)

(* A request needs an open device, but for open itself; one who is to go   *)
(* only closes what it has open.                                           *)
May(p, r) ==
  /\ r.op \in Asked
  /\ r.dev \in Devices => r.op = "open" \/ r.dev \in open[p]
  /\ p \in killed => r.op = "release"
  /\ IF r.dev = "fs" THEN r.node \in nodes ELSE r.node = 1

Ask(p, r) ==
  /\ mpc # "aborted" /\ st[p] = "idle" /\ May(p, r)
  /\ st' = [st EXCEPT ![p] = "asks"]
  /\ req' = [req EXCEPT ![p] = r]
  /\ queue' = [queue EXCEPT ![r.dev] = Append(@, [p |-> p, kind |-> "request"])]
  /\ UNCHANGED <<open, killed, lost, mpc, dev, waiting, nodes, notified>>

(* What closes a file is not withdrawn.                                    *)
Forced(p) == req[p].op \in {"release", "releasedir"}

(* There is never more than one message about a process.                   *)
Without(s, p) ==
  IF \E i \in DOMAIN s : s[i].p = p
    THEN RemoveAt(s, CHOOSE i \in DOMAIN s : s[i].p = p)
    ELSE s

(* A fatal signal.  A request still in the queue is withdrawn; of one that *)
(* has been read the master is told, before all else, and it is waited for.*)
Kill(p) ==
  /\ p \notin killed /\ st[p] # "gone"
  /\ killed' = killed \cup {p}
  /\ LET d == req[p].dev IN
       \/ /\ st[p] = "asks" /\ ~Forced(p)
          /\ st' = [st EXCEPT ![p] = "idle"]
          /\ req' = [req EXCEPT ![p] = NoRequest]
          /\ queue' = [queue EXCEPT ![d] = Without(@, p)]
          /\ lost' = lost \cup {d}
       \/ /\ st[p] = "read" /\ ~Forced(p)
          /\ queue' = [queue EXCEPT ![d] = <<[p |-> p, kind |-> "interrupt"]>> \o @]
          /\ UNCHANGED <<st, req, lost>>
       \/ /\ st[p] = "idle" \/ Forced(p)
          /\ UNCHANGED <<st, req, queue, lost>>
  /\ UNCHANGED <<open, mpc, dev, waiting, nodes, notified>>

(* With the last of them goes the last copy of the mount.                  *)
Go(p) ==
  /\ p \in killed /\ st[p] = "idle"
  /\ open[p] = {} \/ mpc = "aborted"
  /\ st' = [st EXCEPT ![p] = "gone"]
  /\ UNCHANGED <<req, open, killed, lost, queue, mpc, dev, waiting, nodes, notified>>

-----------------------------------------------------------------------------
(* The master.  From its readv on a callback is one step: in between only  *)
(* an interrupt could come for what it has read, and the answer takes that *)
(* out of the queue.                                                       *)

(* epoll_wait: something can be read.                                      *)
EpollWait(d) ==
  /\ mpc = "wait" /\ queue[d] # <<>>
  /\ d = "fs" => ~Gone
  /\ mpc' = "ready" /\ dev' = d
  /\ UNCHANGED <<procVars, queue, waiting, nodes, notified>>

(* A bug to catch: a hang-up is looked for only with a request to read.    *)
HangupReadable ==
  /\ mpc = "wait" /\ Gone /\ ~notified /\ queue["fs"] # <<>>
  /\ notified' = TRUE
  /\ UNCHANGED <<procVars, queue, mpc, dev, waiting, nodes>>

(* fuse_event, hung up: the user of umountfs is told, and it is not polled *)
(* any more.                                                               *)
Hangup ==
  /\ mpc = "wait" /\ Gone /\ ~notified
  /\ notified' = TRUE
  /\ UNCHANGED <<procVars, queue, mpc, dev, waiting, nodes>>

(* A bug to catch: the card, too, is opened without O_NONBLOCK.            *)
NonBlockingNot == {}

(* The devices whose readv returns EAGAIN.                                 *)
NonBlocking == {"card"}

Reading == mpc \in {"ready", "blocked"}

(* The callback returns to the event loop.                                 *)
Return == mpc' = "wait" /\ dev' = "none"

(* readv when there is nothing to read any more: it returns at once, or,   *)
(* of umountfs, when that is unmounted (ENODEV), or it waits.              *)
ReadNothing ==
  /\ Reading /\ queue[dev] = <<>>
  /\ IF dev \in NonBlocking \/ (dev = "fs" /\ Gone)
       THEN Return
       ELSE mpc = "ready" /\ mpc' = "blocked" /\ UNCHANGED dev
  /\ UNCHANGED <<procVars, queue, waiting, nodes, notified>>

(* A bug to catch: the tty does not answer a close.                        *)
ServedNoRelease ==
  [card |-> {"open", "release", "ioctl", "mmap", "poll"},
   tty |-> {"open", "ioctl"},
   fs |-> Ops.fs]

(* What request_context, process_tty and fuse_readable answer.             *)
Served == [card |-> {"open", "release", "ioctl", "mmap", "poll"},
           tty |-> {"open", "release", "ioctl"},
           fs |-> Ops.fs]

(* A bug to catch: fuse_readable makes a directory.                        *)
ErrorMakes(op) ==
  CASE op = "lookup" -> "ENOENT"
    [] op \in Entries \ {"mkdir"} -> "EACCES"
    [] op = "other" -> "ENOSYS"
    [] OTHER -> "none"

(* The error of an answer.                                                 *)
Error(op) == CASE op = "lookup" -> "ENOENT"
               [] op \in Entries -> "EACCES"
               [] op = "other" -> "ENOSYS"
               [] OTHER -> "none"

(* The assertions of the handlers: of respond_to_dri_read always, of       *)
(* fuse_readable about nodes, of respond_to_dri_mmap when the card refuses.*)
MustAbort(r) ==
  \/ r.dev = "card" /\ r.op = "read"
  \/ r.dev = "fs" /\ r.op \in {"opendir", "access", "flush"} /\ r.node # 1

MayAbort(r) == MustAbort(r) \/ (r.dev = "card" /\ r.op = "mmap")

(* readv returns a request of p; what is left in the queues.               *)
Reads(p) == /\ Reading /\ queue[dev] # <<>>
            /\ Head(queue[dev]) = [p |-> p, kind |-> "request"]

Rest == [queue EXCEPT ![dev] = Tail(@)]

(* The reply reaches p; an interrupt left in the queue about it goes.      *)
Returns(p, left, error) ==
  LET r == req[p] IN
  /\ st' = [st EXCEPT ![p] = "idle"]
  /\ req' = [req EXCEPT ![p] = NoRequest]
  /\ queue' = [left EXCEPT ![r.dev] = Without(@, p)]
  /\ open' = [open EXCEPT ![p] = CASE r.op = "open" -> @ \cup {r.dev}
                                   [] r.op = "release" -> @ \ {r.dev}
                                   [] OTHER -> @]
  /\ nodes' = IF r.op \in Entries \cup {"lookup"} /\ error = "none"
                THEN nodes \cup {2} ELSE nodes
  /\ UNCHANGED <<killed, lost>>

(* The callback answers what it has read.                                  *)
Answer(p) ==
  /\ Reads(p) /\ req[p].op \in Served[dev] /\ ~MustAbort(req[p])
  /\ Returns(p, Rest, Error(req[p].op))
  /\ Return
  /\ UNCHANGED <<waiting, notified>>

(* respond_to_dri_ioctl forwards the modeset ioctls; what no handler knows *)
(* is read and forgotten.                                                  *)
Keep(p) ==
  /\ Reads(p) /\ req[p].op \notin Served[dev] /\ ~MustAbort(req[p])
  /\ st' = [st EXCEPT ![p] = "read"]
  /\ queue' = Rest
  /\ waiting' = IF req[p].op = "modeset" THEN waiting \cup {p} ELSE waiting
  /\ Return
  /\ UNCHANGED <<req, open, killed, lost, nodes, notified>>

(* An interrupt is an operation nobody knows; umountfs says so (ENOSYS).   *)
Ignore ==
  /\ Reading /\ queue[dev] # <<>> /\ Head(queue[dev]).kind = "interrupt"
  /\ queue' = Rest
  /\ Return
  /\ UNCHANGED <<procVars, waiting, nodes, notified>>

(* An assertion ends the master; its files are closed, and all that waits  *)
(* for an answer gets an error.                                            *)
Abort(p) ==
  /\ Reads(p) /\ MayAbort(req[p])
  /\ mpc' = "aborted"
  /\ st' = [q \in Proc |-> IF st[q] = "gone" THEN "gone" ELSE "idle"]
  /\ req' = [q \in Proc |-> NoRequest]
  /\ queue' = [d \in Dev |-> <<>>]
  /\ waiting' = {}
  /\ UNCHANGED <<open, killed, lost, dev, nodes, notified>>

(* card_modeset_ioctl_response: an answer of the library.                  *)
Respond(p) ==
  /\ mpc = "wait" /\ p \in waiting
  /\ waiting' = waiting \ {p}
  /\ Returns(p, queue, "none")
  /\ UNCHANGED <<mpc, dev, notified>>

Read == ReadNothing \/ Ignore \/ \E p \in Proc : Answer(p) \/ Keep(p) \/ Abort(p)

Next ==
  \/ \E p \in Proc, r \in Request : Ask(p, r)
  \/ \E p \in Proc : Kill(p) \/ Go(p) \/ Respond(p)
  \/ \E d \in Dev : EpollWait(d)
  \/ Hangup \/ Read

(* The master runs, epoll_wait comes round to every descriptor, and who is *)
(* to go closes its files and goes.  Nothing is assumed of the library.    *)
Closes(p) == p \in killed /\ \E r \in Request : Ask(p, r)

Fairness ==
  /\ WF_vars(Read) /\ SF_vars(Hangup)
  /\ \A d \in Dev : SF_vars(EpollWait(d))
  /\ \A p \in Proc : WF_vars(Go(p)) /\ WF_vars(Closes(p))

Spec == Init /\ [][Next]_vars /\ Fairness

-----------------------------------------------------------------------------
(* What can go wrong.                                                      *)

(* The master is stuck in a read only where it has lost a race: epoll_wait *)
(* reported a request on the tty or umountfs, and before readv its process *)
(* was killed and the request withdrawn.                                   *)
StuckByAKill ==
  mpc = "blocked" => dev \in {"tty", "fs"} \cap lost

(* Only a read or an mmap of the card ends the master.  The assertions of  *)
(* fuse_readable on the root's number hold, for no other node is ever      *)
(* handed out.                                                             *)
OnlyCardAborts ==
  mpc = "aborted" => dev = "card"

(* A request that has been read and is not answered: its operation is one  *)
(* the card or the tty does not know, or it is with the library.           *)
Kept(p) == /\ st[p] = "read"
           /\ \/ p \in waiting
              \/ req[p].dev = "card" /\ req[p].op = "write"
              \/ req[p].dev = "tty" /\ req[p].op \in {"poll", "read", "write"}

(* A process that is killed goes, whatever it had asked, unless one of its *)
(* requests is kept for ever, or the master is stuck in a read.            *)
KilledGoes ==
  \A p \in Proc : p \in killed ~> st[p] = "gone" \/ Kept(p) \/ mpc = "blocked"

(* When the last process has gone the library is told (notify_umount), or  *)
(* the master has aborted, or is stuck in a read of the tty, which nobody  *)
(* is left to end.  A read of umountfs ends with ENODEV.                   *)
EndIsNoticed ==
  Gone ~> notified \/ mpc = "aborted" \/ (mpc = "blocked" /\ dev = "tty")
=============================================================================
