---------------------------- MODULE UserContract -----------------------------
(***************************************************************************)
(* What lib/session.h promises the program that starts a session about     *)
(* the callbacks it gets: modeset_ioctl once per ioctl at most, on_sigchld *)
(* at most once, on_exit at most once and as the last of them, and none of *)
(* them before session_start or after session_free.                        *)
(***************************************************************************)
EXTENDS Naturals

CONSTANT Request   \* the modeset ioctls of the session

VARIABLES phase,     \* how far the session is, for its user
          exits,     \* calls of on_exit
          sigchlds,  \* calls of on_sigchld
          served     \* calls of modeset_ioctl, for each request

vars == <<phase, exits, sigchlds, served>>

Init == /\ phase = "new"
        /\ exits = 0 /\ sigchlds = 0
        /\ served = [r \in Request |-> 0]

Start == /\ phase = "new"
         /\ phase' = "running"
         /\ UNCHANGED <<exits, sigchlds, served>>

ModesetIoctl(r) == /\ phase = "running"
                   /\ served[r] = 0
                   /\ served' = [served EXCEPT ![r] = 1]
                   /\ UNCHANGED <<phase, exits, sigchlds>>

OnSigchld == /\ phase = "running"
             /\ sigchlds = 0
             /\ sigchlds' = 1
             /\ UNCHANGED <<phase, exits, served>>

OnExit == /\ phase = "running"
          /\ exits = 0
          /\ exits' = 1
          /\ phase' = "over"
          /\ UNCHANGED <<sigchlds, served>>

Free == /\ phase # "freed"
        /\ phase' = "freed"
        /\ UNCHANGED <<exits, sigchlds, served>>

Next == Start \/ (\E r \in Request : ModesetIoctl(r)) \/ OnSigchld \/ OnExit
          \/ Free

Spec == Init /\ [][Next]_vars
=============================================================================
