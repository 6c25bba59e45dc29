------------------------------ MODULE WaitTable ------------------------------
(***************************************************************************)
(* What the session master owes the kernel for the modeset ioctls it       *)
(* forwards to the library (setuid/card.c, setuid/card.h), with no list    *)
(* and no memory: a forwarded request waits; a response that has been      *)
(* received for it is turned into exactly one reply, a success only if it  *)
(* has the length of the request; a request that cannot be forwarded is    *)
(* refused at once.  Nothing says that a response comes for every request: *)
(* one whose message was lost waits for ever.  Once a request could not be *)
(* sent although the library was there, a response may come to nothing.    *)
(* IoctlWait implements this.                                              *)
(***************************************************************************)
CONSTANTS Request,   \* the FUSE "unique" numbers of modeset ioctl requests
          NoRequest  \* no response is being processed

VARIABLES waiting,    \* requests forwarded and not replied to
          answering,  \* the request whose response is being processed
          intact,     \* did that response arrive with the expected length?
          damaged,    \* has a request been refused by the socket itself?
          reply       \* what each request was answered with

vars == <<waiting, answering, intact, damaged, reply>>

Init == /\ waiting = {}
        /\ answering = NoRequest
        /\ intact = FALSE
        /\ damaged = FALSE
        /\ reply = [r \in Request |-> "none"]

Idle == answering = NoRequest

(* The request goes to the library.                                        *)
Forward(r) ==
  /\ Idle
  /\ reply[r] = "none" /\ r \notin waiting
  /\ waiting' = waiting \cup {r}
  /\ UNCHANGED <<answering, intact, damaged, reply>>

(* The request is answered with an error instead of being forwarded.       *)
Refuse(r) ==
  /\ Idle
  /\ reply[r] = "none" /\ r \notin waiting
  /\ reply' = [reply EXCEPT ![r] = "error"]
  /\ damaged' \in {damaged, TRUE}
  /\ UNCHANGED <<waiting, answering, intact>>

(* A response for r arrives, with or without the length r was sent with.   *)
Receive(r) ==
  /\ Idle
  /\ r \in waiting
  /\ answering' = r
  /\ intact' \in BOOLEAN
  /\ UNCHANGED <<waiting, damaged, reply>>

(* The way out of processing a response is to reply to its request.        *)
Answer ==
  /\ ~Idle
  /\ reply' = [reply EXCEPT ![answering] = IF intact THEN "success" ELSE "error"]
  /\ waiting' = waiting \ {answering}
  /\ answering' = NoRequest
  /\ intact' = FALSE
  /\ UNCHANGED damaged

(* There is no other, unless something was damaged before.                 *)
Ignore ==
  /\ ~Idle /\ damaged
  /\ answering' = NoRequest
  /\ intact' = FALSE
  /\ UNCHANGED <<waiting, damaged, reply>>

Next == \/ \E r \in Request : Forward(r) \/ Refuse(r) \/ Receive(r)
        \/ Answer \/ Ignore

SafeSpec == Init /\ [][Next]_vars

Spec == SafeSpec /\ WF_vars(~damaged /\ Answer)
=============================================================================
