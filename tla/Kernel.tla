------------------------------- MODULE Kernel --------------------------------
(***************************************************************************)
(* The processes of the session and what the kernel does for them.  They   *)
(* are not the repository's code; the master and the library rely on how   *)
(* they behave: a process waits for the answer to its ioctl, the mount     *)
(* namespace goes with its last process, and a child's SIGCHLD is sent     *)
(* after it left the namespace (the race that setuid/main.c:373 handles).  *)
(***************************************************************************)
EXTENDS SessionState

(* A process issues its next modeset ioctl and waits.                      *)
Ioctl(p) ==
  /\ mode = "run"
  /\ p \in alive
  /\ \E n \in 1..MaxIoctl :
       /\ status[<<p, n>>] = "new"
       /\ \A m \in 1..(n - 1) : Answered(<<p, m>>)
       /\ status' = [status EXCEPT ![<<p, n>>] = "queued"]
  /\ UNCHANGED <<libVars, masterVars, kernelVars, toLib, toMaster, order, sigs>>

Fork(p, q) ==
  /\ p \in alive /\ ~Blocked(p, {"queued", "sent"})
  /\ q \in Proc \ born
  /\ q # Child
  /\ alive' = alive \cup {q}
  /\ born' = born \cup {q}
  /\ UNCHANGED <<libVars, masterVars, mounted, childSt, childHow, childLast,
                 toLib, toMaster, status, order, sigs>>

(* A process leaves the namespace.  An ioctl the master has read keeps it; *)
(* one that is still queued is withdrawn when the process is killed.       *)
Exit(p, how) ==
  /\ p \in alive
  /\ ~Blocked(p, IF how = "kill" THEN {"sent"} ELSE {"queued", "sent"})
  /\ alive' = alive \ {p}
  /\ status' = [r \in Request |-> IF r[1] = p /\ status[r] = "queued"
                                    THEN "gone" ELSE status[r]]
  /\ IF p = Child THEN /\ childSt' = "exiting"
                       /\ childHow' = how
                       /\ childLast' = (alive = {p})
                  ELSE UNCHANGED <<childSt, childHow, childLast>>
  /\ UNCHANGED <<libVars, masterVars, mounted, born, toLib, toMaster, order, sigs>>

(* The child has left the namespace; its parent is told.                   *)
NotifyParent ==
  /\ childSt = "exiting"
  /\ childSt' = "zombie"
  /\ sigs' = IF mode = "run" THEN sigs \cup {"SIGCHLD"} ELSE sigs
  /\ UNCHANGED <<libVars, masterVars, mounted, alive, born, childHow,
                 childLast, toLib, toMaster, status, order>>

KernelNext ==
  \/ \E p \in Proc : \/ Ioctl(p)
                     \/ \E q \in Proc : Fork(p, q)
                     \/ \E how \in {"exit", "kill"} : Exit(p, how)
  \/ NotifyParent
=============================================================================
