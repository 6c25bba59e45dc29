----------------------------- MODULE XSubsession ----------------------------
(***************************************************************************)
(* xsubsession/main.c, the repository's user of the library: the ladder of *)
(* its main(), and its event loop, in which the library reads, calls back  *)
(* and answers.  The socket holds Room messages in either direction; a     *)
(* send to a full one blocks its sender, the whole program or the whole    *)
(* master.  Of the master there is only what the socket sees of it:        *)
(* Session is about the rest.                                              *)
(***************************************************************************)
EXTENDS Naturals, Sequences, FiniteSets

CONSTANTS Proc,    \* the processes of the session
          Child,   \* the one the master starts
          Room,    \* messages that fit into the socket, one way
          MayFail  \* the steps of the ladder that may fail

ASSUME XSubsessionAssumption ==
  /\ IsFiniteSet(Proc) /\ Child \in Proc
  /\ Room \in Nat \ {0}

VARIABLES pc,       \* setup, start, drain, in a callback, undo, done, killed
          at,       \* the next step of the set-up, or of the clean-up
          held,     \* what the program has taken
          toExit,   \* data.to_exit
          reply,    \* the response the library is about to send
          toLib,    \* messages on their way to the library
          toMaster, \* messages on their way to the master
          mpc,      \* the master: none, loop, send, gone
          message,  \* what the master is about to send
          outside,  \* OUTSIDE_REF
          st,       \* what each process does
          reported  \* GOT_SIGCHLD, GOT_UMOUNT: which has been sent

progVars == <<pc, at, held, toExit, reply>>
masterVars == <<mpc, message, outside, st, reported>>
vars == <<progVars, toLib, toMaster, masterVars>>

Step(name, label) == [takes |-> name, label |-> label]

(* The steps of main; "nothing" takes nothing, the window and its colormap *)
(* come with the visual_info, and cannot fail.                             *)
Up == << Step("epoll", "e_epoll_create"), Step("display", "e_open_display"),
         Step("nothing", "e_egl_display"), Step("egl", "e_egl_init"),
         Step("nothing", "e_choose_egl_config"), Step("nothing", "e_get_x_visual"),
         Step("window", "e_get_visual_info"), Step("surface", "e_egl_surface"),
         Step("nothing", "e_bind_api"), Step("context", "e_egl_context"),
         Step("nothing", "e_get_proc_address"), Step("xReg", "e_register_x"),
         Step("session", "e_session") >>

Undo(labels, name) == [labels |-> labels, frees |-> name]

(* A bug to catch: the display is closed while EGL still uses it.          *)
DownSwapped ==
  << Undo({}, "session"), Undo({"e_session"}, "xReg"),
     Undo({"e_register_x", "e_get_proc_address"}, "context"),
     Undo({"e_egl_context", "e_bind_api"}, "surface"),
     Undo({"e_egl_surface"}, "window"),
     Undo({"e_egl_init", "e_egl_display"}, "display"),
     Undo({"e_get_visual_info", "e_get_x_visual", "e_choose_egl_config"}, "egl"),
     Undo({"e_open_display"}, "epoll"), Undo({"e_epoll_create"}, "nothing") >>

(* The clean-up: what each statement gives back, and the labels before it. *)
Down ==
  << Undo({}, "session"), Undo({"e_session"}, "xReg"),
     Undo({"e_register_x", "e_get_proc_address"}, "context"),
     Undo({"e_egl_context", "e_bind_api"}, "surface"),
     Undo({"e_egl_surface"}, "window"),
     Undo({"e_get_visual_info", "e_get_x_visual", "e_choose_egl_config"}, "egl"),
     Undo({"e_egl_init", "e_egl_display"}, "display"),
     Undo({"e_open_display"}, "epoll"), Undo({"e_epoll_create"}, "nothing") >>

Label(l) == CHOOSE i \in 1..Len(Down) : l \in Down[i].labels

(* session_new registers the socket, session_free unregisters it if on_exit*)
(* has not been called.                                                    *)
Takes(name) == IF name = "session" THEN {"session", "socketReg"}
               ELSE {name} \ {"nothing"}

LibOpen == "session" \in held /\ pc # "killed"

(* Every message belongs to a process: the one whose ioctl it is, the child*)
(* that is to start or has exited, or one of those that the mount outlived.*)
Message(type, p) == [type |-> type, p |-> p]

Init == /\ pc = "setup" /\ at = 1 /\ held = {} /\ toExit = FALSE
        /\ reply = <<>> /\ toLib = <<>> /\ toMaster = <<>>
        /\ mpc = "none" /\ message = <<>> /\ outside = TRUE
        /\ st = [p \in Proc |-> "unborn"] /\ reported = {}

-----------------------------------------------------------------------------
StepSucceeds ==
  /\ pc = "setup"
  /\ held' = held \cup Takes(Up[at].takes)
  /\ IF at = Len(Up) THEN pc' = "start" /\ mpc' = "loop" /\ UNCHANGED at
                     ELSE at' = at + 1 /\ UNCHANGED <<pc, mpc>>
  /\ UNCHANGED <<toExit, reply, toLib, toMaster, message, outside, st, reported>>

StepFails ==
  /\ pc = "setup" /\ Up[at].label \in MayFail
  /\ pc' = "undo" /\ at' = Label(Up[at].label)
  /\ UNCHANGED <<held, toExit, reply, toLib, toMaster, masterVars>>

(* A send of the library: it blocks while the socket is full, and SIGPIPE  *)
(* ends the program if there is no master.                                 *)
LibSends(m) ==
  \/ /\ mpc # "gone" /\ Len(toMaster) < Room
     /\ toMaster' = Append(toMaster, m)
     /\ pc' = "drain"
  \/ mpc = "gone" /\ pc' = "killed" /\ UNCHANGED toMaster

(* session_start; its result is ignored.                                   *)
Start == /\ pc = "start"
         /\ LibSends(Message("RUN_COMMAND", Child))
         /\ UNCHANGED <<at, held, toExit, reply, toLib, masterVars>>

(* A read takes the first message, and loses those that it gets with it.   *)
Reads(wire, left) == \E n \in 1..Len(wire) : left = SubSeq(wire, n + 1, Len(wire))

(* epoll_wait finds the socket readable: socket_event and handle_event, up *)
(* to the end of the first callback.                                       *)
SocketReadable ==
  /\ pc = "drain" /\ "socketReg" \in held /\ mpc # "gone"
  /\ toLib # <<>>
  /\ Reads(toLib, toLib')
  /\ LET m == Head(toLib) IN
     \/ /\ m.type = "GOT_SIGCHLD"
        /\ toExit' = TRUE
        /\ UNCHANGED <<pc, reply>>
     \/ m.type = "GOT_UMOUNT" /\ pc' = "on_exit" /\ UNCHANGED <<toExit, reply>>
     \/ /\ m.type = "MODESET_IOCTL"
        /\ reply' = <<Message("MODESET_IOCTL_RESPONSE", m.p)>>
        /\ pc' = "modeset"
        /\ UNCHANGED toExit
  /\ UNCHANGED <<at, held, toMaster, masterVars>>

(* epoll_wait finds the socket hung up.                                    *)
SocketHungUp ==
  /\ pc = "drain" /\ "socketReg" \in held /\ mpc = "gone"
  /\ pc' = "on_exit"
  /\ UNCHANGED <<at, held, toExit, reply, toLib, toMaster, masterVars>>

(* A bug to catch: the program frees the session in its callback.          *)
ExitCallbackFrees ==
  /\ pc = "on_exit"
  /\ toExit' = TRUE
  /\ pc' = "unregister"
  /\ held' = held \ {"session"}
  /\ UNCHANGED <<at, reply, toLib, toMaster, masterVars>>

ExitCallback ==
  /\ pc = "on_exit"
  /\ toExit' = TRUE
  /\ pc' = "unregister"
  /\ UNCHANGED <<at, held, reply, toLib, toMaster, masterVars>>

(* A bug to catch: the socket of a master that is gone stays registered.   *)
UnregisterNot ==
  /\ pc = "unregister"
  /\ pc' = "drain"
  /\ UNCHANGED <<at, held, toExit, reply, toLib, toMaster, masterVars>>

(* What socket_event does after on_exit returned.                          *)
Unregister ==
  /\ pc = "unregister"
  /\ held' = held \ {"socketReg"}
  /\ pc' = "drain"
  /\ UNCHANGED <<at, toExit, reply, toLib, toMaster, masterVars>>

(* What handle_event does after modeset_ioctl returned.                    *)
Reply == /\ pc = "modeset"
         /\ LibSends(Head(reply))
         /\ reply' = <<>>
         /\ UNCHANGED <<at, held, toExit, toLib, masterVars>>

(* Nothing is ready: the program draws, and looks at to_exit.              *)
Draw ==
  /\ pc = "drain"
  /\ "socketReg" \in held => toLib = <<>> /\ mpc # "gone"
  /\ IF toExit THEN pc' = "undo" /\ at' = 1 ELSE UNCHANGED <<pc, at>>
  /\ UNCHANGED <<held, toExit, reply, toLib, toMaster, masterVars>>

UndoStep ==
  /\ pc = "undo"
  /\ held' = held \ Takes(Down[at].frees)
  /\ toLib' = IF Down[at].frees = "session" THEN <<>> ELSE toLib
  /\ IF at = Len(Down) THEN pc' = "done" /\ UNCHANGED at
                       ELSE at' = at + 1 /\ UNCHANGED pc
  /\ UNCHANGED <<toExit, reply, toMaster, masterVars>>

Loop == SocketReadable \/ SocketHungUp \/ ExitCallback \/ Unregister \/ Draw
Program == StepSucceeds \/ StepFails \/ Start \/ Loop \/ Reply \/ UndoStep

-----------------------------------------------------------------------------
(* The master reads a message: it starts the command, or answers an ioctl. *)
MasterReads ==
  /\ mpc = "loop" /\ LibOpen /\ toMaster # <<>>
  /\ Reads(toMaster, toMaster')
  /\ LET m == Head(toMaster) IN
     \/ m.type = "RUN_COMMAND" /\ st' = [st EXCEPT ![Child] = "runs"]
     \/ m.type = "RUN_COMMAND" /\ UNCHANGED st
     \/ m.type = "MODESET_IOCTL_RESPONSE" /\ st' = [st EXCEPT ![m.p] = "runs"]
  /\ UNCHANGED <<progVars, toLib, mpc, message, outside, reported>>

(* A bug to catch: the ioctl of a process is forwarded a second time.      *)
MayAskAgain(p) == st[p] \in {"asks", "waits"}

(* A process has one ioctl at a time.                                      *)
MayAsk(p) == st[p] = "asks"

(* card_send_modeset_ioctl, or its refusal without OUTSIDE_REF.            *)
Modeset(p) ==
  /\ mpc = "loop" /\ MayAsk(p)
  /\ \/ /\ outside
        /\ st' = [st EXCEPT ![p] = "waits"]
        /\ mpc' = "send" /\ message' = <<Message("MODESET_IOCTL", p)>>
     \/ ~outside /\ st' = [st EXCEPT ![p] = "runs"] /\ UNCHANGED <<mpc, message>>
  /\ UNCHANGED <<progVars, toLib, toMaster, outside, reported>>

Alive == {p \in Proc : st[p] \in {"runs", "asks", "waits"}}
Report(type, p) == /\ mpc' = "send" /\ message' = <<Message(type, p)>>
                   /\ reported' = reported \cup {type}
                   /\ UNCHANGED <<progVars, toLib, toMaster, outside, st>>

(* The child's exit, when others outlived it (process_sigchld), and the end*)
(* of the session (notify_umount).                                         *)
Sigchld == /\ mpc = "loop" /\ outside /\ st[Child] = "gone"
           /\ Alive # {} /\ reported = {}
           /\ Report("GOT_SIGCHLD", Child)
Umounted == /\ mpc = "loop" /\ outside /\ st[Child] = "gone"
            /\ Alive = {} /\ "GOT_UMOUNT" \notin reported
            /\ \E p \in Proc :
                 /\ st[p] = "gone"
                 /\ (p = Child) = (reported = {})
                 /\ Report("GOT_UMOUNT", p)

(* A send of the master: it blocks while the socket is full; without the   *)
(* library it fails, and an ioctl is answered at once.                     *)
MasterSends ==
  /\ mpc = "send" /\ mpc' = "loop" /\ message' = <<>>
  /\ \/ /\ LibOpen /\ Len(toLib) < Room
        /\ toLib' = Append(toLib, Head(message))
        /\ UNCHANGED st
     \/ /\ ~LibOpen
        /\ st' = [p \in Proc |-> IF p = Head(message).p /\ st[p] = "waits"
                                 THEN "runs" ELSE st[p]]
        /\ UNCHANGED toLib
  /\ UNCHANGED <<progVars, toMaster, outside, reported>>

(* remove_outside_ref, and the end of the master: nobody needs it, or an   *)
(* assertion of card.c fails.                                              *)
Hangup == /\ mpc = "loop" /\ ~LibOpen /\ outside /\ outside' = FALSE
          /\ UNCHANGED <<progVars, toLib, toMaster, mpc, message, st, reported>>
MasterEnds == /\ mpc = "loop" /\ (outside => Alive # {})
              /\ mpc' = "gone"
              /\ UNCHANGED <<progVars, toLib, toMaster, message, outside, st, reported>>

Master == MasterReads \/ Sigchld \/ Umounted \/ MasterSends \/ Hangup
            \/ \E p \in Proc : Modeset(p)

(* A process asks, another one is started, one exits.                      *)
Move(p, from, to) == /\ st[p] = from /\ st' = [st EXCEPT ![p] = to]
                     /\ UNCHANGED <<progVars, toLib, toMaster, mpc, message,
                                    outside, reported>>
Kernel == \E p \in Proc :
  \/ mpc # "gone" /\ Move(p, "runs", "asks")
  \/ Alive # {} /\ p # Child /\ Move(p, "unborn", "runs")
  \/ Move(p, "runs", "gone")

Terminated == pc \in {"done", "killed"} /\ UNCHANGED vars

Next == Program \/ Master \/ MasterEnds \/ Kernel \/ Terminated

(* The program and the master go on by themselves, if they do not block.   *)
Spec == /\ Init /\ [][Next]_vars
        /\ WF_vars(Program) /\ WF_vars(Master)

-----------------------------------------------------------------------------
Types == {"RUN_COMMAND", "MODESET_IOCTL_RESPONSE", "GOT_SIGCHLD", "GOT_UMOUNT",
          "MODESET_IOCTL"}

TypeOK ==
  /\ pc \in {"setup", "start", "drain", "on_exit", "unregister", "modeset",
             "undo", "done", "killed"}
  /\ at \in 1..(Len(Up) + Len(Down))
  /\ toExit \in BOOLEAN /\ outside \in BOOLEAN
  /\ mpc \in {"none", "loop", "send", "gone"}
  /\ toLib \in Seq([type : Types, p : Proc]) /\ Len(toLib) <= Room
  /\ toMaster \in Seq([type : Types, p : Proc]) /\ Len(toMaster) <= Room
  /\ st \in [Proc -> {"unborn", "runs", "asks", "waits", "gone"}]
  /\ reported \subseteq {"GOT_SIGCHLD", "GOT_UMOUNT"}

(* The library does not go on with a session that a callback freed: after  *)
(* on_exit it unregisters the socket (session.c:307), after modeset_ioctl  *)
(* it sends (session.c:385).                                               *)
SessionIsThere == pc \in {"on_exit", "unregister", "modeset"} => "session" \in held

(* Library and master do not wait for each other, both in a send           *)
(* (session.c:385, main.c:658), as long as the session has too few         *)
(* processes to fill both directions and both hands.                       *)
LibBlocked == pc = "modeset" /\ mpc # "gone" /\ Len(toMaster) >= Room
MasterBlocked == mpc = "send" /\ LibOpen /\ Len(toLib) >= Room
NoDeadlock ==
  Cardinality(Proc) < 2 * Room + 2 => ~(LibBlocked /\ MasterBlocked)

(* Nothing outlives what it was made from: EGL needs the display, what is  *)
(* registered needs epoll, and so on (the order of the labels, 276-300).   *)
BasesAreHeld ==
  \A d \in { <<"egl", "display">>, <<"window", "display">>, <<"surface", "egl">>,
             <<"surface", "window">>, <<"context", "egl">>, <<"xReg", "epoll">>,
             <<"xReg", "display">>, <<"socketReg", "epoll">>,
             <<"socketReg", "session">> } :
    d[1] \in held => d[2] \in held

(* The program leaves nothing behind, whichever step failed.               *)
NothingLeft == pc = "done" => held = {}

(* The clean-up undoes all there is, in an order that each step stands.    *)
UndoneInOrder == BasesAreHeld /\ NothingLeft

(* A program whose session is over ends: its inner loop, which runs until  *)
(* nothing is ready (258), comes to an end and to_exit is looked at.       *)
ProgramEnds == (pc = "on_exit") ~> (pc \in {"done", "killed"})
=============================================================================
