------------------------------- MODULE Session -------------------------------
(***************************************************************************)
(* A session from session_new to the end of its master: the library, the   *)
(* master and the kernel, each moving on its own.                          *)
(***************************************************************************)
EXTENDS Library, Master, Kernel

Next == LibraryNext \/ MasterNext \/ KernelNext

SafeSpec == Init /\ [][Next]_vars

-----------------------------------------------------------------------------
(* The master runs on for as long as the session has a process, with or    *)
(* without the library (the event loop of main.c:283 and its two flags).   *)
MasterOutlivesSession == alive # {} => mode # "exited"

(* on_sigchld is called only for a child that exited by itself and that    *)
(* other processes of the session outlived: "Not called if that is the     *)
(* last process in the session" (session.h:50), by umountfs_has_hup.       *)
SigchldMeansOutlived ==
  sigchlds > 0 => childHow = "exit" /\ ~childLast

(* on_exit means that the session is over, or that a read() of the card    *)
(* ended the master under it (the assertion of card.c:2038).               *)
OnExitMeansOver == exits > 0 => alive = {} \/ mode = "aborted"

(* A modeset ioctl succeeds only after the user's callback saw it, and     *)
(* that callback saw it once (matching by unique, card.c:1764, and by      *)
(* length, card.c:1769).                                                   *)
SuccessIsServed == \A r \in Request : status[r] = "ok" => served[r] = 1

(* An ioctl is answered once, and what it was answered with stays.         *)
AnswersAreFinal ==
  [][\A r \in Request : Answered(r) => status'[r] = status[r]]_vars

(* The user of the library gets the callbacks session.h promises, in the   *)
(* order it promises.                                                      *)
Phase == IF ~libOpen THEN "freed" ELSE IF exits > 0 THEN "over"
         ELSE IF started THEN "running" ELSE "new"
Contract == INSTANCE UserContract WITH phase <- Phase
KeepsContract == Contract!Spec

-----------------------------------------------------------------------------
(* Where the ioctls are among the messages of one direction, and which of  *)
(* two requests was forwarded first.                                       *)
Ioctls(wire) == {i \in 1..Len(wire) :
                   wire[i].type \in {"MODESET_IOCTL", "MODESET_IOCTL_RESPONSE"}}
Precedes(r, q) == \E k, l \in 1..Len(order) : k < l /\ r = order[k] /\ q = order[l]
InOrder(wire) ==
  \A i, j \in Ioctls(wire) : i < j => Precedes(wire[i].request, wire[j].request)

(* The library answers in the order of the requests, whatever was lost in  *)
(* between: the order that IoctlWait assumes, not that every request gets  *)
(* an answer.  What is in the socket is in order, and what was answered    *)
(* comes before what is still to be.                                       *)
ResponsesInOrder ==
  /\ InOrder(toMaster) /\ InOrder(toLib)
  /\ \A i \in Ioctls(toMaster), j \in Ioctls(toLib) :
       Precedes(toMaster[i].request, toLib[j].request)
=============================================================================
