---------------------------- MODULE SessionState -----------------------------
(***************************************************************************)
(* What the parts of a session share.  A session is                        *)
(*   - the library (lib/session.c) in the program that starts it,          *)
(*   - the session master (setuid/), a process of its own,                 *)
(*   - the stream socket between them, and                                 *)
(*   - the processes of the session, in a mount namespace of their own,    *)
(*     whose modeset ioctls the kernel queues for the master.              *)
(* Library, Master and Kernel say how each of them moves; Session puts     *)
(* them together.  The model begins after INIT_SUCCESS was received.       *)
(***************************************************************************)
EXTENDS Naturals, Sequences

CONSTANTS Proc,         \* the processes the session may ever have
          Child,        \* the one the master starts
          MaxIoctl,     \* how many modeset ioctls a process may issue
          ClientReads   \* do processes read() from the card device?

ASSUME SessionAssumption == /\ Child \in Proc
                            /\ MaxIoctl \in Nat
                            /\ ClientReads \in BOOLEAN

(* An ioctl is known by its process and its number there.                  *)
Request == Proc \X (1..MaxIoctl)

VARIABLES
  (* The library: struct session, and the calls it made to its user.       *)
  started,    \* has session_start been called?
  fdReg,      \* s->fd_ptr # NULL: the socket is registered for polling
  libOpen,    \* the library's end of the socket is open
  exits,      \* calls of on_exit
  sigchlds,   \* calls of on_sigchld
  served,     \* calls of modeset_ioctl, for each request
  (* The socket.                                                           *)
  toLib,      \* messages on their way to the library
  toMaster,   \* messages on their way to the master
  (* The master: struct data of main.c.                                    *)
  mode,       \* running, out of the event loop, or aborted
  outside,    \* OUTSIDE_REF
  sess,       \* SESSION_REF
  forked,     \* HAVE_FORKED
  child,      \* data.child # 0
  umountReg,  \* e->fuse_ptr # NULL: the mount is watched
  status,     \* what became of each request; "sent" is on the wait list
  order,      \* history: the requests forwarded, in order
  (* The kernel.                                                           *)
  sigs,       \* signals pending on the master's signalfd
  mounted,    \* is the umountfs mounted in the master's namespace?
  alive,      \* the processes of the session
  born,       \* those that ever were
  childSt,    \* how far the child is on its way out
  childHow,   \* did it exit or was it killed?
  childLast   \* was it the last process of the session?

libVars    == <<started, fdReg, libOpen, exits, sigchlds, served>>
masterVars == <<mode, outside, sess, forked, child, umountReg>>
kernelVars == <<mounted, alive, born, childSt, childHow, childLast>>
vars == <<libVars, masterVars, kernelVars, toLib, toMaster, status, order, sigs>>

MessageOut == [type : {"GOT_SIGCHLD", "GOT_UMOUNT"}]
                \cup [type : {"MODESET_IOCTL"}, request : Request]
MessageIn == [type : {"RUN_COMMAND"}]
                \cup [type : {"MODESET_IOCTL_RESPONSE"}, request : Request,
                      whole : BOOLEAN]

LibraryTypes == started \in BOOLEAN /\ fdReg \in BOOLEAN /\ libOpen \in BOOLEAN

CallbackTypes ==
  /\ exits \in Nat /\ sigchlds \in Nat
  /\ served \in [Request -> Nat]

SocketTypes == toLib \in Seq(MessageOut) /\ toMaster \in Seq(MessageIn)

MasterTypes ==
  /\ mode \in {"run", "exited", "aborted"}
  /\ outside \in BOOLEAN /\ sess \in BOOLEAN /\ forked \in BOOLEAN
  /\ child \in BOOLEAN /\ umountReg \in BOOLEAN

IoctlTypes ==
  /\ status \in [Request -> {"new", "queued", "sent", "ok", "error", "gone"}]
  /\ order \in Seq(Request)

KernelTypes ==
  /\ sigs \in SUBSET {"SIGCHLD", "SIGPIPE"}
  /\ mounted \in BOOLEAN
  /\ alive \in SUBSET Proc /\ born \in SUBSET Proc /\ alive \subseteq born
  /\ childSt \in {"none", "running", "exiting", "zombie", "reaped"}
  /\ childHow \in {"exit", "kill"}
  /\ childLast \in BOOLEAN

TypeOK == /\ LibraryTypes /\ CallbackTypes /\ SocketTypes
          /\ MasterTypes /\ IoctlTypes /\ KernelTypes

Init ==
  /\ started = FALSE /\ fdReg = TRUE /\ libOpen = TRUE
  /\ exits = 0 /\ sigchlds = 0
  /\ served = [r \in Request |-> 0]
  /\ toLib = <<>> /\ toMaster = <<>>
  /\ mode = "run"
  /\ outside = TRUE /\ sess = FALSE /\ forked = FALSE
  /\ child = FALSE /\ umountReg = TRUE
  /\ status = [r \in Request |-> "new"]
  /\ order = <<>>
  /\ sigs = {}
  /\ mounted = TRUE
  /\ alive = {} /\ born = {}
  /\ childSt = "none" /\ childHow = "exit" /\ childLast = FALSE

-----------------------------------------------------------------------------
(* A reader takes all there is in the socket and looks at the first        *)
(* message; it is whole only if nothing came behind it.                    *)
Alone(wire) == Len(wire) = 1

(* Every mount of the umountfs is gone: it was unmounted in the master's   *)
(* namespace, and the session's went with its last process.                *)
Hup == ~mounted /\ alive = {}

Waiting(r) == status[r] \in {"queued", "sent"}
Blocked(p, how) == \E n \in 1..MaxIoctl : status[<<p, n>>] \in how
Answered(r) == status[r] \in {"ok", "error", "gone"}

(* What its /dev/cuse being closed does to the ioctls left to the master.  *)
AbortIoctls ==
  status' = [r \in Request |-> IF Waiting(r) THEN "gone" ELSE status[r]]
=============================================================================
