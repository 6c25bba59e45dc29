------------------------------- MODULE Library -------------------------------
(***************************************************************************)
(* The library's side of a session (lib/session.c): session_start,         *)
(* session_free, and the socket callback run from the user's event loop.   *)
(***************************************************************************)
EXTENDS SessionState

(* session_start.  With the master gone the send fails.                    *)
SessionStart ==
  /\ libOpen /\ ~started
  /\ started' = TRUE
  /\ toMaster' = IF mode = "run" THEN Append(toMaster, [type |-> "RUN_COMMAND"])
                                 ELSE toMaster
  /\ UNCHANGED <<fdReg, libOpen, exits, sigchlds, served, masterVars,
                 kernelVars, toLib, status, order, sigs>>

(* A bug to catch: the user's event loop keeps the socket.                 *)
FreeRegistered ==
  /\ libOpen
  /\ libOpen' = FALSE
  /\ toLib' = <<>>
  /\ UNCHANGED <<started, fdReg, exits, sigchlds, served, masterVars,
                 kernelVars, toMaster, status, order, sigs>>

(* session_free, or the program exits.                                     *)
SessionFree ==
  /\ libOpen
  /\ libOpen' = FALSE /\ fdReg' = FALSE
  /\ toLib' = <<>>
  /\ UNCHANGED <<started, exits, sigchlds, served, masterVars, kernelVars,
                 toMaster, status, order, sigs>>

(* A bug to catch: the message is looked at but left in the socket.        *)
LibPeeks(type) ==
  /\ fdReg /\ mode = "run"
  /\ toLib # <<>> /\ Head(toLib).type = type
  /\ UNCHANGED toLib

(* socket_event, readable: one recvmsg empties the socket, and its first   *)
(* message is handled.                                                     *)
LibReads(type) ==
  /\ fdReg /\ mode = "run"
  /\ toLib # <<>> /\ Head(toLib).type = type
  /\ toLib' = <<>>

OnSigchld ==
  /\ LibReads("GOT_SIGCHLD")
  /\ sigchlds' = sigchlds + 1
  /\ UNCHANGED <<started, fdReg, libOpen, exits, served, masterVars,
                 kernelVars, toMaster, status, order, sigs>>

OnUmount ==
  /\ LibReads("GOT_UMOUNT")
  /\ exits' = exits + 1
  /\ fdReg' = FALSE
  /\ UNCHANGED <<started, libOpen, sigchlds, served, masterVars, kernelVars,
                 toMaster, status, order, sigs>>

(* A bug to catch: no response when the callback returns an error.         *)
OnModesetSilent ==
  /\ LibReads("MODESET_IOCTL")
  /\ served' = [served EXCEPT ![Head(toLib).request] = @ + 1]
  /\ UNCHANGED <<started, fdReg, libOpen, exits, sigchlds, masterVars,
                 kernelVars, toMaster, status, order, sigs>>

(* The user's modeset_ioctl is called and its result sent back, with as    *)
(* much payload as was read.                                               *)
OnModeset ==
  /\ LibReads("MODESET_IOCTL")
  /\ LET r == Head(toLib).request IN
       /\ served' = [served EXCEPT ![r] = @ + 1]
       /\ toMaster' = Append(toMaster, [type |-> "MODESET_IOCTL_RESPONSE",
                                        request |-> r, whole |-> Alone(toLib)])
  /\ UNCHANGED <<started, fdReg, libOpen, exits, sigchlds, masterVars,
                 kernelVars, status, order, sigs>>

(* A bug to catch: the hang-up waits for messages no read will return.     *)
OnHangupEmpty ==
  /\ fdReg /\ mode # "run"
  /\ toLib = <<>>
  /\ exits' = exits + 1
  /\ fdReg' = FALSE
  /\ UNCHANGED <<started, libOpen, sigchlds, served, masterVars, kernelVars,
                 toLib, toMaster, status, order, sigs>>

(* socket_event, hung up: the master is gone, whatever is left to read.    *)
OnHangup ==
  /\ fdReg /\ mode # "run"
  /\ exits' = exits + 1
  /\ fdReg' = FALSE
  /\ UNCHANGED <<started, libOpen, sigchlds, served, masterVars, kernelVars,
                 toLib, toMaster, status, order, sigs>>

SocketEvent == OnSigchld \/ OnUmount \/ OnModeset \/ OnHangup

LibraryNext == SessionStart \/ SessionFree \/ SocketEvent
=============================================================================
