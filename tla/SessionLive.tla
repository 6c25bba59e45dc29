----------------------------- MODULE SessionLive ------------------------------
(***************************************************************************)
(* What has to happen in a session sooner or later.  A message that comes  *)
(* up behind another one in the same read is lost (Session); the history   *)
(* variable names the messages this happened to, so that the properties    *)
(* can say of each of them what its loss costs, and no more.               *)
(***************************************************************************)
EXTENDS Session

VARIABLE lost   \* the messages that were read behind another

liveVars == <<vars, lost>>

LiveTypeOK == TypeOK /\ lost \subseteq MessageOut \cup MessageIn

LiveInit == Init /\ lost = {}

(* What a read that empties the socket does not look at.                   *)
Behind(wire, left) == IF left = <<>> THEN {wire[i] : i \in 2..Len(wire)} ELSE {}

LiveNext ==
  /\ Next
  /\ lost' = lost \cup Behind(toMaster, toMaster')
                  \cup (IF libOpen' THEN Behind(toLib, toLib') ELSE {})

(* Both event loops get to every descriptor that is ready, and the kernel  *)
(* delivers the signal of an exit.  Nothing makes the user start or free   *)
(* the session, or a process of the session do anything.                   *)
Fairness ==
  /\ WF_vars(SocketEvent)
  /\ WF_vars(SocketHangup) /\ WF_vars(RunCommand) /\ WF_vars(ModesetResponse)
  /\ WF_vars(Sigpipe) /\ WF_vars(Sigchld) /\ WF_vars(Umounted)
  /\ WF_vars(LoopEnds)
  /\ \A r \in Request : WF_vars(Modeset(r))
  /\ WF_vars(NotifyParent)

LiveSpec == LiveInit /\ [][LiveNext]_liveVars /\ Fairness

-----------------------------------------------------------------------------
Lost(type) == \E m \in lost : m.type = type
LostFor(r) == \E m \in lost :
                m.type \in {"MODESET_IOCTL", "MODESET_IOCTL_RESPONSE"}
                  /\ m.request = r

(* A library whose master is gone is told so by on_exit (session.c:302),   *)
(* whatever was lost before.                                               *)
MasterGoneIsNoticed ==
  (mode # "run" /\ fdReg) ~> (exits > 0 \/ ~libOpen)

(* The master ends when the library has left and no process remains.       *)
MasterEnds == (~libOpen /\ alive = {}) ~> (mode # "run")

(* An ioctl gets its answer while the library is there, unless it or its   *)
(* own response was lost: no loss of another message holds it up.          *)
IoctlsAnswered ==
  \A r \in Request : Waiting(r) ~> (Answered(r) \/ ~libOpen \/ LostFor(r))

(* The exit of the child is reported: by on_sigchld, or by on_exit.        *)
ChildExitReported ==
  (childSt \in {"exiting", "zombie", "reaped"} /\ childHow = "exit")
    ~> (sigchlds > 0 \/ exits > 0 \/ ~libOpen \/ Lost("GOT_SIGCHLD"))

(* "Called when the last process in the session, including daemons, exits" *)
(* (session.h:23, of on_exit), unless the GOT_UMOUNT was lost.             *)
OnExitCalled ==
  (born # {} /\ alive = {}) ~> (exits > 0 \/ ~libOpen \/ Lost("GOT_UMOUNT"))

(* "Callback for every modeset ioctl in the session" (session.h:31).       *)
EveryIoctlCallsBack ==
  \A r \in Request : status[r] = "sent" ~> (served[r] > 0 \/ ~libOpen)

(* After session_free, processes of the session "will continue to run in   *)
(* the background" (session.h:53): their ioctls return, if not lost.       *)
IoctlsReturn == \A r \in Request : Waiting(r) ~> (Answered(r) \/ LostFor(r))
=============================================================================
