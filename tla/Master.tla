-------------------------------- MODULE Master -------------------------------
(***************************************************************************)
(* The session master's event loop (setuid/main.c), with the part of       *)
(* setuid/card.c that forwards modeset ioctls.  Every action is one call   *)
(* of the loop, from epoll_wait to the return of the callback.  The wait   *)
(* list is the set of requests whose status is "sent"; IoctlWait models    *)
(* the list itself.                                                        *)
(***************************************************************************)
EXTENDS SessionState

(* The condition of the event loop.                                        *)
Looping == mode = "run" /\ (sess \/ outside)

(* send_header: nothing without OUTSIDE_REF; SIGPIPE if the library has    *)
(* closed its end.                                                         *)
SendHeader(message, pending) ==
  /\ toLib' = IF outside /\ libOpen THEN Append(toLib, message) ELSE toLib
  /\ sigs' = IF outside /\ ~libOpen THEN pending \cup {"SIGPIPE"} ELSE pending

(* socket_event, hung up or error: remove_outside_ref.                     *)
SocketHangup ==
  /\ Looping
  /\ ~libOpen /\ outside
  /\ outside' = FALSE
  /\ UNCHANGED <<libVars, kernelVars, mode, sess, forked, child, umountReg,
                 toLib, toMaster, status, order, sigs>>

(* socket_event, readable: one recvmsg empties the socket, and its first   *)
(* message is handled.                                                     *)
MasterReads(type) ==
  /\ Looping
  /\ libOpen
  /\ toMaster # <<>> /\ Head(toMaster).type = type
  /\ toMaster' = <<>>

(* A bug to catch: the session holds no reference to the master.           *)
StartsUnreferenced ==
  /\ child' = TRUE
  /\ mounted' = FALSE
  /\ alive' = {Child} /\ born' = {Child} /\ childSt' = "running"
  /\ UNCHANGED sess

(* A bug to catch: the mount outside the session's namespace stays.        *)
StartsMounted ==
  /\ child' = TRUE
  /\ sess' = TRUE
  /\ alive' = {Child} /\ born' = {Child} /\ childSt' = "running"
  /\ UNCHANGED mounted

(* clone succeeds: the command runs in a mount namespace of its own, and   *)
(* the master's copy of the mount goes, so that the session holds the last.*)
CommandStarts ==
  /\ child' = TRUE
  /\ mounted' = FALSE
  /\ sess' = TRUE
  /\ alive' = {Child} /\ born' = {Child} /\ childSt' = "running"

(* A bug to catch: a reference is taken for a session that is not there.   *)
CloneFailsReferenced ==
  /\ sess' = TRUE
  /\ UNCHANGED <<child, mounted, alive, born, childSt>>

(* clone fails: nothing is said to the library.                            *)
CloneFails == UNCHANGED <<child, mounted, sess, alive, born, childSt>>

(* handle_message: the command is run once.  That the message may be       *)
(* malformed, or a malloc fail, is left to the module that reads it        *)
(* byte by byte.                                                           *)
RunCommand ==
  /\ MasterReads("RUN_COMMAND")
  /\ forked' = TRUE
  /\ \/ ~forked /\ CommandStarts
     \/ ~forked /\ CloneFails
     \/ forked /\ UNCHANGED <<child, mounted, sess, alive, born, childSt>>
  /\ UNCHANGED <<libVars, mode, outside, umountReg, childHow, childLast,
                 toLib, status, order, sigs>>

(* Bugs to catch: the head of the list, or its end, is taken for the node. *)
WaitNewest(m) == order[Len(order)]
WaitOldest(m) == order[1]

(* The request a response is for, which is on the wait list.               *)
WaitFor(m) == m.request

(* card_modeset_ioctl_response: an answer of the wrong length is an error, *)
(* one that nothing waits for is ignored.                                  *)
ModesetResponse ==
  /\ MasterReads("MODESET_IOCTL_RESPONSE")
  /\ LET m == Head(toMaster)
         r == WaitFor(m)
     IN status' = IF status[m.request] # "sent" THEN status
                  ELSE [status EXCEPT ![r] =
                          IF m.whole /\ Alone(toMaster) THEN "ok" ELSE "error"]
  /\ UNCHANGED <<libVars, masterVars, kernelVars, toLib, order, sigs>>

(* sigfd_event, SIGPIPE: remove_outside_ref.                               *)
Sigpipe ==
  /\ Looping
  /\ "SIGPIPE" \in sigs
  /\ sigs' = sigs \ {"SIGPIPE"}
  /\ outside' = FALSE
  /\ UNCHANGED <<libVars, kernelVars, mode, sess, forked, child, umountReg,
                 toLib, toMaster, status, order>>

(* A bug to catch: the race of main.c:373 is not handled.                  *)
ToReapUnchecked == child /\ childSt = "zombie"

(* There is a child to reap, and the session is not over already.          *)
ToReap == child /\ ~Hup /\ childSt = "zombie"

(* A bug to catch: the test of the wait status is the wrong way round.     *)
WIFSIGNALED == childHow = "kill"

WIFEXITED == childHow = "exit"

(* sigfd_event, SIGCHLD: the child is reaped, and reported if it exited.   *)
Sigchld ==
  /\ Looping
  /\ "SIGCHLD" \in sigs /\ "SIGPIPE" \notin sigs
  /\ LET pending == sigs \ {"SIGCHLD"} IN
       \/ /\ ToReap /\ WIFEXITED
          /\ childSt' = "reaped"
          /\ child' = FALSE
          /\ SendHeader([type |-> "GOT_SIGCHLD"], pending)
       \/ /\ ToReap /\ ~WIFEXITED
          /\ childSt' = "reaped"
          /\ sigs' = pending
          /\ UNCHANGED <<child, toLib>>
       \/ /\ ~ToReap
          /\ sigs' = pending
          /\ UNCHANGED <<childSt, child, toLib>>
  /\ UNCHANGED <<libVars, mode, outside, sess, forked, umountReg, mounted,
                 alive, born, childHow, childLast, toMaster, status, order>>

(* A bug to catch: any event on the FUSE descriptor is taken for the end.  *)
MountReadable == umountReg

(* fuse_event: the mount is watched and the event is a hang-up.            *)
MountHungUp == umountReg /\ Hup

(* fuse_event, hung up: notify_umount, and the watch ends.                 *)
Umounted ==
  /\ Looping
  /\ MountHungUp
  /\ sess' = FALSE
  /\ umountReg' = FALSE
  /\ SendHeader([type |-> "GOT_UMOUNT"], sigs)
  /\ UNCHANGED <<libVars, kernelVars, mode, outside, forked, child, toMaster,
                 status, order>>

(* The header card_send_modeset_ioctl writes.                              *)
ModesetMessage(r) == [type |-> "MODESET_IOCTL", request |-> r]

(* cuse_process to ioctls_modeset: the request is forwarded, or refused at *)
(* once: page flip, no memory, no library.                                 *)
Modeset(r) ==
  /\ Looping
  /\ status[r] = "queued"
  /\ \/ /\ outside /\ libOpen
        /\ toLib' = Append(toLib, ModesetMessage(r))
        /\ status' = [status EXCEPT ![r] = "sent"]
        /\ order' = Append(order, r)
        /\ UNCHANGED sigs
     \/ /\ sigs' = IF outside /\ ~libOpen THEN sigs \cup {"SIGPIPE"} ELSE sigs
        /\ status' = [status EXCEPT ![r] = "error"]
        /\ UNCHANGED <<toLib, order>>
  /\ UNCHANGED <<libVars, masterVars, kernelVars, toMaster>>

(* respond_to_dri_read is assert(0): a read() of the card by a process of  *)
(* the session ends the master.                                            *)
ReadAborts(p) ==
  /\ ClientReads
  /\ Looping
  /\ p \in alive /\ ~Blocked(p, {"queued", "sent"})
  /\ mode' = "aborted"
  /\ AbortIoctls
  /\ UNCHANGED <<libVars, kernelVars, outside, sess, forked, child, umountReg,
                 toLib, toMaster, order, sigs>>

(* Neither reference is left: the loop ends, and main with it.             *)
LoopEnds ==
  /\ mode = "run" /\ ~(sess \/ outside)
  /\ mode' = "exited"
  /\ AbortIoctls
  /\ UNCHANGED <<libVars, kernelVars, outside, sess, forked, child, umountReg,
                 toLib, toMaster, order, sigs>>

MasterNext ==
  \/ SocketHangup \/ RunCommand \/ ModesetResponse
  \/ Sigpipe \/ Sigchld \/ Umounted \/ LoopEnds
  \/ \E r \in Request : Modeset(r)
  \/ \E p \in Proc : ReadAborts(p)
=============================================================================
