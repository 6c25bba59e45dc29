------------------------------- MODULE Startup -------------------------------
(***************************************************************************)
(* How a session comes and goes: session_new of lib/session.c, which       *)
(* starts a master and waits for the result of its set-up, with the        *)
(* ladder of the master.  What a running session does is in Session; here  *)
(* it only takes the mount away and later ends.                            *)
(***************************************************************************)
EXTENDS MasterSetup

VARIABLES lib,      \* where session_new is, or how it ended
          libHeld,  \* what the library holds
          session   \* is there a session in the master's care?

vars == <<masterVars, lib, libHeld, session>>

MasterSteps == {Up[i].takes : i \in 1..Len(Up)}
LibrarySteps == {"malloc", "socketpair", "clone", "exec", "register"}

ASSUME StartupAssumption == MayFail \subseteq MasterSteps \cup LibrarySteps

LibThings == {"memory", "ours", "theirs", "registered", "masked"}

TypeOK ==
  /\ mpc \in {"none", "setup", "loop", "undo", "done"}
  /\ at \in 1..Len(Down) \cup 1..Len(Up)
  /\ held \subseteq MasterSteps \cup {"socket"}
  /\ told \in {"nothing", "INIT_SUCCESS", "INIT_FAILURE"}
  /\ lib \in {"idle", "spawn", "register", "recv", "running", "failed",
              "aborted", "freed"}
  /\ libHeld \subseteq LibThings
  /\ session \in BOOLEAN

Init == /\ mpc = "none" /\ at = 1 /\ held = {} /\ told = "nothing"
        /\ lib = "idle" /\ libHeld = {} /\ session = FALSE

-----------------------------------------------------------------------------
(* session_new up to the clone of spawn_master.                            *)
Prepare ==
  /\ lib = "idle"
  /\ \/ lib' = "spawn" /\ libHeld' = {"memory", "ours", "theirs", "masked"}
     \/ /\ {"malloc", "socketpair"} \cap MayFail # {}
        /\ lib' = "failed" /\ UNCHANGED libHeld
  /\ UNCHANGED <<masterVars, session>>

(* The first clone fails: e_vfork.                                         *)
SpawnFails ==
  /\ lib = "spawn" /\ "clone" \in MayFail
  /\ lib' = "failed"
  /\ libHeld' = libHeld \ {"memory", "ours", "theirs"}
  /\ UNCHANGED <<masterVars, session>>

(* A bug to catch: the parent keeps the master's end of the socket.        *)
SpawnedKeeping == libHeld \ {"masked"}

(* A bug to catch: the parent goes on with every signal blocked.           *)
SpawnedMasked == libHeld \ {"theirs"}

(* What the parent keeps once there is a child.                            *)
Spawned == libHeld \ {"theirs", "masked"}

(* The child runs the master in a grandchild, or neither clone nor exec    *)
(* works there, which the parent is not told.                              *)
Spawn ==
  /\ lib = "spawn"
  /\ lib' = "register"
  /\ libHeld' = Spawned
  /\ \/ mpc' = "setup" /\ held' = {"socket"}
     \/ "exec" \in MayFail /\ mpc' = "done" /\ UNCHANGED held
  /\ UNCHANGED <<at, told, session>>

(* A bug to catch: the failure leaves the socket open.                     *)
RegisterOpen ==
  /\ lib = "register"
  /\ \/ lib' = "recv" /\ libHeld' = libHeld \cup {"registered"}
     \/ /\ "register" \in MayFail
        /\ lib' = "failed" /\ libHeld' = libHeld \ {"memory"}
  /\ UNCHANGED <<masterVars, session>>

(* The socket is registered for polling, or e_register_fd.                 *)
Register ==
  /\ lib = "register"
  /\ \/ lib' = "recv" /\ libHeld' = libHeld \cup {"registered"}
     \/ /\ "register" \in MayFail
        /\ lib' = "failed" /\ libHeld' = libHeld \ {"ours", "memory"}
  /\ UNCHANGED <<masterVars, session>>

(* e_init: unregister_fd, close, free.                                     *)
Failed == libHeld \ {"registered", "ours", "memory"}

(* The blocking recv of session_new.  An end without a result fails the    *)
(* assertion, and the program with it.                                     *)
Recv ==
  /\ lib = "recv"
  /\ \/ told = "INIT_SUCCESS" /\ lib' = "running" /\ UNCHANGED libHeld
     \/ told = "INIT_FAILURE" /\ lib' = "failed" /\ libHeld' = Failed
     \/ /\ told = "nothing" /\ mpc # "none" /\ {"socket"} \cap held = {}
        /\ "theirs" \notin libHeld
        /\ lib' = "aborted" /\ libHeld' = {}
  /\ UNCHANGED <<masterVars, session>>

SessionFree ==
  /\ lib = "running"
  /\ lib' = "freed" /\ libHeld' = {}
  /\ UNCHANGED <<masterVars, session>>

LibraryNext == Prepare \/ SpawnFails \/ Spawn \/ Register \/ Recv \/ SessionFree

-----------------------------------------------------------------------------
(* The loop of the master: a session takes the outer mount away, and its   *)
(* end takes the mount off the watched descriptors.                        *)
RunCommand ==
  /\ mpc = "loop" /\ lib = "running" /\ "mount" \in held
  /\ session' = TRUE
  /\ held' = held \ {"mount"}
  /\ UNCHANGED <<mpc, at, told, lib, libHeld>>

SessionOver ==
  /\ mpc = "loop" /\ session
  /\ session' = FALSE
  /\ held' = held \ {"fuseReg"}
  /\ UNCHANGED <<mpc, at, told, lib, libHeld>>

(* Neither reference is left: the library's end is closed, no session.     *)
LoopEnds ==
  /\ mpc = "loop" /\ libHeld \cap {"ours"} = {} /\ ~session
  /\ LoopEnded
  /\ UNCHANGED <<lib, libHeld, session>>

MasterNext == \/ SetupNext /\ UNCHANGED <<lib, libHeld, session>>
              \/ RunCommand \/ SessionOver \/ LoopEnds

Terminated == /\ lib \in {"failed", "aborted", "freed"}
              /\ mpc \in {"none", "done"}
              /\ UNCHANGED vars

Next == LibraryNext \/ MasterNext \/ Terminated

(* session_new and the master run on by themselves; nothing ends a session *)
(* or makes the user free it.                                              *)
Spec == /\ Init /\ [][Next]_vars
        /\ WF_vars(Prepare \/ Spawn \/ SpawnFails \/ Register \/ Recv)
        /\ WF_vars(SetupNext /\ UNCHANGED <<lib, libHeld, session>>)
        /\ WF_vars(LoopEnds)

-----------------------------------------------------------------------------
(* Nothing is given back that was not taken or was given back before: no   *)
(* label runs a statement whose step had not been reached.                 *)
ReleasesWhatIsHeld ==
  mpc = "undo" => Down[at].frees \in held \cup Guarded \cup {"result"}

(* What epoll watches is open, and so is epoll: unregister_fd needs both.  *)
OpenWhileRegistered ==
  \A w \in { <<"socketReg", "socket">>, <<"sigfdReg", "sigfd">>,
             <<"cardCuseReg", "cardCuse">>, <<"timerReg", "timerfd">>,
             <<"ttyReg", "ttyCuse">>, <<"fuseReg", "fuse">> } :
    w[1] \in held => {w[2], "epoll"} \subseteq held

(* A master that ended left nothing in /tmp, in /dev or mounted.           *)
NothingLeft == mpc = "done" => held = {}

(* When the library hears of a failure everything is undone: it may try    *)
(* again at once.                                                          *)
FailureIsClean == told = "INIT_FAILURE" => held \subseteq {"socket"}

(* The clean-up is whole when it is over, and when its end is told.        *)
CleanUpIsWhole == NothingLeft /\ FailureIsClean

(* The new /dev is made when the two devices that take the place of the    *)
(* real ones are there (filter's lstat, main.c:500).                       *)
DevicesBeforeEntries ==
  mpc = "setup" /\ "entries" \in held => {"cardDevice", "ttyDevice"} \subseteq held

(* The ladder goes up and down in an order in which each step finds what   *)
(* it needs (the labels of main.c:294-331, card.c, tty.c and umountfs.c).  *)
StepsFindWhatTheyNeed ==
  ReleasesWhatIsHeld /\ OpenWhileRegistered /\ DevicesBeforeEntries

(* The signals that session_new blocks around its clone are blocked no     *)
(* longer than that.  The goto past "Unblock signals" (session.c:194) when *)
(* clone itself fails is the one way out with every signal blocked.        *)
MaskIsRestored ==
  "masked" \in libHeld => lib = "spawn" \/ (lib = "failed" /\ mpc = "none")

(* A session_new that fails leaves nothing behind in the program but that. *)
FailureKeepsNothing ==
  /\ lib = "failed" => libHeld \subseteq {"masked"}
  /\ MaskIsRestored

(* session_new does not hang: its recv gets a result or the end of the     *)
(* socket, whatever becomes of the master (session.c:100).                 *)
SessionNewReturns == lib = "spawn" ~> lib \in {"running", "failed", "aborted"}

(* A master that nobody needs ends: the library has let go and there is no *)
(* session (the two references, main.c:283).                               *)
UnneededMasterEnds ==
  (lib \in {"failed", "freed"} /\ mpc # "none" /\ ~session) ~> mpc = "done"
=============================================================================
