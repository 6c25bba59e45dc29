---------------------------- MODULE SessionProofs -----------------------------
(***************************************************************************)
(* What is proved of Session, and in the end of SessionLive, for any       *)
(* number of processes and ioctls.                                         *)
(***************************************************************************)
EXTENDS SessionLive, TLAPS

(* An element of the socket to the library that names a request.           *)
LEMMA MessageOutType ==
  ASSUME NEW m \in MessageOut
  PROVE  /\ m.type \in {"GOT_SIGCHLD", "GOT_UMOUNT", "MODESET_IOCTL"}
         /\ m.type = "MODESET_IOCTL" => m.request \in Request
BY DEF MessageOut

LEMMA MessageInType ==
  ASSUME NEW m \in MessageIn
  PROVE  /\ m.type \in {"RUN_COMMAND", "MODESET_IOCTL_RESPONSE"}
         /\ m.type = "MODESET_IOCTL_RESPONSE"
              => m.request \in Request /\ m.whole \in BOOLEAN
BY DEF MessageIn

LEMMA PlainMessages ==
  /\ [type |-> "GOT_SIGCHLD"] \in MessageOut
  /\ [type |-> "GOT_UMOUNT"] \in MessageOut
  /\ [type |-> "RUN_COMMAND"] \in MessageIn
BY DEF MessageOut, MessageIn

LEMMA IoctlMessages ==
  ASSUME NEW r \in Request, NEW b \in BOOLEAN
  PROVE  /\ [type |-> "MODESET_IOCTL", request |-> r] \in MessageOut
         /\ [type |-> "MODESET_IOCTL_RESPONSE", request |-> r, whole |-> b]
              \in MessageIn
BY DEF MessageOut, MessageIn

LEMMA EmptySocket == <<>> \in Seq(MessageOut) /\ <<>> \in Seq(MessageIn)
OBVIOUS

LEMMA SentToLib ==
  ASSUME NEW m \in MessageOut, toLib \in Seq(MessageOut)
  PROVE  Append(toLib, m) \in Seq(MessageOut)
OBVIOUS

(* TypeOK is proved part by part: the provers treat the Boolean variables  *)
(* apart from the numbers and the sequences.                               *)
LEMMA InitTypeOK == Init => TypeOK
<1>1. Init => LibraryTypes /\ MasterTypes
  BY DEF Init, LibraryTypes, MasterTypes
<1>2. Init => CallbackTypes
  BY DEF Init, CallbackTypes
<1>3. Init => SocketTypes
  BY DEF Init, SocketTypes
<1>4. Init => IoctlTypes
  BY DEF Init, IoctlTypes
<1>5. Init => KernelTypes
  BY DEF Init, KernelTypes
<1> QED
  BY <1>1, <1>2, <1>3, <1>4, <1>5 DEF TypeOK

LEMMA LibraryTypeOK ==
  ASSUME TypeOK, LibraryNext
  PROVE  TypeOK'
<1> USE DEF TypeOK, LibReads
<1>1. LibraryTypes'
  BY DEF LibraryTypes, LibraryNext, SocketEvent, SessionStart, SessionFree, OnSigchld, OnUmount,
         OnModeset, OnHangup
<1>2. MasterTypes'
  BY DEF MasterTypes, masterVars, LibraryNext, SocketEvent, SessionStart, SessionFree, OnSigchld,
         OnUmount, OnModeset, OnHangup
<1>3. KernelTypes'
  BY DEF KernelTypes, kernelVars, LibraryNext, SocketEvent, SessionStart, SessionFree, OnSigchld,
         OnUmount, OnModeset, OnHangup
<1>4. IoctlTypes'
  BY DEF IoctlTypes, LibraryNext, SocketEvent, SessionStart, SessionFree, OnSigchld, OnUmount,
         OnModeset, OnHangup
<1>5. CallbackTypes'
  <2> USE DEF CallbackTypes
  <2>1. CASE SessionStart \/ SessionFree
    BY <2>1 DEF SessionStart, SessionFree
  <2>2. CASE OnSigchld \/ OnUmount \/ OnHangup
    BY <2>2 DEF OnSigchld, OnUmount, OnHangup
  <2>3. CASE OnModeset
    <3>1. toLib[1] \in MessageOut /\ Head(toLib) = toLib[1]
      BY <2>3 DEF OnModeset, SocketTypes
    <3>2. Head(toLib).request \in Request
      BY <2>3, <3>1, MessageOutType DEF OnModeset
    <3> QED
      BY <2>3, <3>2 DEF OnModeset
  <2> QED
    BY <2>1, <2>2, <2>3 DEF LibraryNext, SocketEvent
<1>6. SocketTypes'
  <2> USE DEF SocketTypes
  <2>1. CASE SessionStart
    BY <2>1, PlainMessages DEF SessionStart
  <2>2. CASE SessionFree \/ OnSigchld \/ OnUmount \/ OnHangup
    <3>1. toMaster' = toMaster /\ toLib' \in {toLib, <<>>}
      BY <2>2 DEF SessionFree, OnSigchld, OnUmount, OnHangup
    <3> QED
      BY <3>1, EmptySocket
  <2>3. CASE OnModeset
    <3>1. toLib[1] \in MessageOut /\ Head(toLib) = toLib[1]
      BY <2>3 DEF OnModeset
    <3>2. Head(toLib).request \in Request
      BY <2>3, <3>1, MessageOutType DEF OnModeset
    <3>3. Alone(toLib) \in BOOLEAN
      BY DEF Alone
    <3>4. [type |-> "MODESET_IOCTL_RESPONSE",
           request |-> Head(toLib).request, whole |-> Alone(toLib)] \in MessageIn
      BY <3>2, <3>3, IoctlMessages
    <3> QED
      BY <2>3, <3>4 DEF OnModeset
  <2> QED
    BY <2>1, <2>2, <2>3 DEF LibraryNext, SocketEvent
<1> QED
  BY <1>1, <1>2, <1>3, <1>4, <1>5, <1>6

LEMMA KernelTypeOK ==
  ASSUME TypeOK, KernelNext
  PROVE  TypeOK'
<1> USE DEF TypeOK
<1>1. LibraryTypes'
  BY DEF LibraryTypes, libVars, KernelNext, Ioctl, Fork, Exit, NotifyParent
<1>2. MasterTypes'
  BY DEF MasterTypes, masterVars, KernelNext, Ioctl, Fork, Exit, NotifyParent
<1>3. CallbackTypes'
  BY DEF CallbackTypes, libVars, KernelNext, Ioctl, Fork, Exit, NotifyParent
<1>4. SocketTypes'
  BY DEF SocketTypes, KernelNext, Ioctl, Fork, Exit, NotifyParent
<1>5. IoctlTypes' /\ KernelTypes'
  <2>1. ASSUME NEW p \in Proc, Ioctl(p) PROVE IoctlTypes' /\ KernelTypes'
    BY <2>1 DEF Ioctl, IoctlTypes, KernelTypes, kernelVars
  <2>2. ASSUME NEW p \in Proc, NEW q \in Proc, Fork(p, q)
        PROVE  IoctlTypes' /\ KernelTypes'
    BY <2>2 DEF Fork, IoctlTypes, KernelTypes
  <2>3. ASSUME NEW p \in Proc, NEW how \in {"exit", "kill"}, Exit(p, how)
        PROVE  IoctlTypes' /\ KernelTypes'
    <3>1. IoctlTypes'
      BY <2>3 DEF Exit, IoctlTypes
    <3>2. /\ sigs' \in SUBSET {"SIGCHLD", "SIGPIPE"}
          /\ alive' \in SUBSET Proc /\ born' \in SUBSET Proc
          /\ alive' \subseteq born'
      BY <2>3 DEF Exit, KernelTypes
    <3>3. childLast' \in BOOLEAN /\ mounted' \in BOOLEAN
      BY <2>3 DEF Exit, KernelTypes
    <3>4. /\ childSt' \in {"none", "running", "exiting", "zombie", "reaped"}
          /\ childHow' \in {"exit", "kill"}
      BY <2>3 DEF Exit, KernelTypes
    <3> QED
      BY <3>1, <3>2, <3>3, <3>4 DEF KernelTypes
  <2>4. CASE NotifyParent
    BY <2>4 DEF NotifyParent, IoctlTypes, KernelTypes
  <2> QED
    BY <2>1, <2>2, <2>3, <2>4 DEF KernelNext
<1> QED
  BY <1>1, <1>2, <1>3, <1>4, <1>5

LEMMA MasterTypeOK ==
  ASSUME TypeOK, MasterNext
  PROVE  TypeOK'
<1> USE DEF TypeOK, MasterReads, CommandStarts, CloneFails
<1>1. LibraryTypes' /\ CallbackTypes'
  BY DEF LibraryTypes, CallbackTypes, libVars, MasterNext, SocketHangup, RunCommand,
         ModesetResponse, Sigpipe, Sigchld, Umounted, LoopEnds, Modeset,
         ReadAborts
<1>2. MasterTypes'
  BY DEF MasterTypes, masterVars, MasterNext, SocketHangup, RunCommand, ModesetResponse,
         Sigpipe, Sigchld, Umounted, LoopEnds, Modeset, ReadAborts
<1>3. SocketTypes'
  <2> USE DEF SocketTypes
  <2>1. CASE Sigchld
    <3>1. Append(toLib, [type |-> "GOT_SIGCHLD"]) \in Seq(MessageOut)
      BY PlainMessages, SentToLib
    <3>2. toMaster' = toMaster
      BY <2>1 DEF Sigchld
    <3>3. toLib' \in {toLib, Append(toLib, [type |-> "GOT_SIGCHLD"])}
      BY <2>1 DEF Sigchld, SendHeader
    <3> QED
      BY <3>1, <3>2, <3>3
  <2>2. CASE Umounted
    BY <2>2, PlainMessages DEF Umounted, SendHeader
  <2>3. ASSUME NEW r \in Request, Modeset(r) PROVE SocketTypes'
    <3>1. ModesetMessage(r) \in MessageOut
      BY IoctlMessages DEF ModesetMessage
    <3>2. Append(toLib, ModesetMessage(r)) \in Seq(MessageOut)
      BY <3>1, SentToLib
    <3>3. toMaster' = toMaster
      BY <2>3 DEF Modeset
    <3>4. toLib' \in {toLib, Append(toLib, ModesetMessage(r))}
      BY <2>3 DEF Modeset
    <3> QED
      BY <3>2, <3>3, <3>4
  <2>4. CASE SocketHangup \/ RunCommand \/ ModesetResponse \/ Sigpipe
               \/ LoopEnds \/ \E p \in Proc : ReadAborts(p)
    <3>1. toLib' = toLib /\ toMaster' \in {toMaster, <<>>}
      BY <2>4 DEF SocketHangup, RunCommand, ModesetResponse, Sigpipe, LoopEnds,
                  ReadAborts
    <3> QED
      BY <3>1, EmptySocket
  <2> QED
    BY <2>1, <2>2, <2>3, <2>4 DEF MasterNext
<1>4. IoctlTypes'
  <2> USE DEF IoctlTypes
  <2>1. CASE SocketHangup \/ RunCommand \/ Sigpipe \/ Sigchld \/ Umounted
    BY <2>1 DEF SocketHangup, RunCommand, Sigpipe, Sigchld, Umounted
  <2>2. CASE ModesetResponse
    BY <2>2 DEF ModesetResponse, WaitFor
  <2>3. ASSUME NEW r \in Request, Modeset(r) PROVE IoctlTypes'
    <3>1. order' \in Seq(Request)
      BY <2>3 DEF Modeset
    <3>2. status' \in [Request -> {"new", "queued", "sent", "ok", "error", "gone"}]
      BY <2>3 DEF Modeset
    <3> QED
      BY <3>1, <3>2
  <2>4. CASE LoopEnds \/ \E p \in Proc : ReadAborts(p)
    BY <2>4 DEF LoopEnds, ReadAborts, AbortIoctls
  <2> QED
    BY <2>1, <2>2, <2>3, <2>4 DEF MasterNext
<1>5. KernelTypes'
  <2> USE DEF KernelTypes
  <2>1. CASE RunCommand
    BY <2>1, SessionAssumption DEF RunCommand
  <2>2. CASE Sigchld \/ Umounted \/ Sigpipe
    BY <2>2 DEF Sigchld, Umounted, Sigpipe, SendHeader, kernelVars
  <2>3. ASSUME NEW r \in Request, Modeset(r) PROVE KernelTypes'
    BY <2>3 DEF Modeset, kernelVars
  <2>4. CASE SocketHangup \/ ModesetResponse \/ LoopEnds
               \/ \E p \in Proc : ReadAborts(p)
    BY <2>4 DEF SocketHangup, ModesetResponse, LoopEnds, ReadAborts, kernelVars
  <2> QED
    BY <2>1, <2>2, <2>3, <2>4 DEF MasterNext
<1> QED
  BY <1>1, <1>2, <1>3, <1>4, <1>5

LEMMA StutterTypeOK == TypeOK /\ UNCHANGED vars => TypeOK'
BY DEF vars, libVars, masterVars, kernelVars, TypeOK, LibraryTypes,
       CallbackTypes, SocketTypes, MasterTypes, IoctlTypes, KernelTypes

LEMMA NextTypeOK == TypeOK /\ [Next]_vars => TypeOK'
BY LibraryTypeOK, MasterTypeOK, KernelTypeOK, StutterTypeOK DEF Next

(* Every variable keeps its type (SessionState!TypeOK).                    *)
THEOREM SessionTypeCorrect == SafeSpec => []TypeOK
BY InitTypeOK, NextTypeOK, PTL DEF SafeSpec

-----------------------------------------------------------------------------
(* Which actions change what: the invariants below are disturbed by few.   *)
LEMMA Frames ==
  ASSUME [Next]_vars
  PROVE  /\ UNCHANGED sigchlds \/ OnSigchld
         /\ UNCHANGED exits \/ OnUmount \/ OnHangup
         /\ UNCHANGED mode \/ LoopEnds \/ \E p \in Proc : ReadAborts(p)
         /\ UNCHANGED <<forked, mounted>> \/ RunCommand
         /\ UNCHANGED sess \/ RunCommand \/ Umounted
         /\ \/ UNCHANGED alive \/ RunCommand
            \/ \E p, q \in Proc : Fork(p, q)
            \/ \E p \in Proc, how \in {"exit", "kill"} : Exit(p, how)
         /\ \/ UNCHANGED childSt \/ RunCommand \/ NotifyParent \/ Sigchld
            \/ \E p \in Proc, how \in {"exit", "kill"} : Exit(p, how)
         /\ \/ UNCHANGED <<childHow, childLast>>
            \/ \E p \in Proc, how \in {"exit", "kill"} : Exit(p, how)
         /\ \/ toLib' \in {toLib, <<>>} \/ Sigchld \/ Umounted
            \/ \E r \in Request : Modeset(r)
<1> USE DEF libVars, masterVars, kernelVars
<1>1. CASE LibraryNext
  BY <1>1 DEF LibraryNext, SocketEvent, LibReads, SessionStart, SessionFree,
              OnSigchld, OnUmount, OnModeset, OnHangup
<1>2. CASE KernelNext
  BY <1>2 DEF KernelNext, Ioctl, Fork, Exit, NotifyParent
<1>3. CASE MasterNext
  BY <1>3 DEF MasterNext, SocketHangup, RunCommand, ModesetResponse, Sigpipe,
              Sigchld, Umounted, LoopEnds, Modeset, ReadAborts
<1>4. CASE UNCHANGED vars
  BY <1>4 DEF vars
<1> QED
  BY <1>1, <1>2, <1>3, <1>4 DEF Next

(* The reference the session holds on the master, and the mount.  Nothing  *)
(* was started before RUN_COMMAND, and the child starts as the mount goes. *)
RefInv == /\ ~forked => mounted /\ alive = {} /\ childSt = "none"
          /\ alive # {} => sess /\ ~mounted /\ mode # "exited"
          /\ childSt # "none" => ~mounted

LEMMA NextRefInv ==
  ASSUME TypeOK, RefInv, [Next]_vars
  PROVE  RefInv'
<1> USE DEF RefInv
<1>1. CASE RunCommand
  BY <1>1 DEF RunCommand, MasterReads, Looping, CommandStarts, CloneFails
<1>2. ASSUME NEW p \in Proc, NEW q \in Proc, Fork(p, q) PROVE RefInv'
  BY <1>2 DEF Fork, masterVars
<1>3. ASSUME NEW p \in Proc, NEW how \in {"exit", "kill"}, Exit(p, how)
      PROVE  RefInv'
  BY <1>3 DEF Exit, masterVars
<1>4. CASE NotifyParent
  BY <1>4 DEF NotifyParent, masterVars
<1>5. CASE Sigchld
  BY <1>5 DEF Sigchld, ToReap
<1>6. CASE Umounted
  BY <1>6 DEF Umounted, MountHungUp, Hup, kernelVars
<1>7. CASE LoopEnds
  BY <1>7 DEF LoopEnds, kernelVars
<1>8. ASSUME NEW p \in Proc, ReadAborts(p) PROVE RefInv'
  BY <1>8 DEF ReadAborts, kernelVars
<1>9. CASE UNCHANGED <<forked, mounted, alive, sess, mode, childSt>>
  BY <1>9
<1>10. \/ RunCommand \/ NotifyParent \/ Sigchld \/ Umounted \/ LoopEnds
       \/ \E p, q \in Proc : Fork(p, q)
       \/ \E p \in Proc, how \in {"exit", "kill"} : Exit(p, how)
       \/ \E p \in Proc : ReadAborts(p)
       \/ UNCHANGED <<forked, mounted, alive, sess, mode, childSt>>
  BY Frames
<1> QED
  BY <1>1, <1>2, <1>3, <1>4, <1>5, <1>6, <1>7, <1>8, <1>9, <1>10

(* The master runs on while the session has a process (the loop's two      *)
(* references, main.c:283).                                                *)
THEOREM MasterIsThere == SafeSpec => []MasterOutlivesSession
<1>1. Init => TypeOK /\ RefInv
  BY InitTypeOK DEF Init, RefInv
<1>2. TypeOK /\ RefInv /\ [Next]_vars => TypeOK' /\ RefInv'
  BY NextTypeOK, NextRefInv
<1>3. RefInv => MasterOutlivesSession
  BY DEF RefInv, MasterOutlivesSession
<1> QED
  BY <1>1, <1>2, <1>3, PTL DEF SafeSpec
-----------------------------------------------------------------------------
(* A message of this type is on its way to the library.                    *)
InToLib(type) == \E i \in 1..Len(toLib) : toLib[i].type = type

LEMMA ReadsAll == \A type : toLib' = <<>> => ~InToLib(type)'
BY DEF InToLib

LEMMA AppendedToLib ==
  ASSUME toLib \in Seq(MessageOut), NEW m \in MessageOut,
         toLib' = Append(toLib, m), NEW type, InToLib(type)'
  PROVE  InToLib(type) \/ m.type = type
<1>1. PICK i \in 1..Len(toLib') : toLib'[i].type = type
  BY DEF InToLib
<1>2. CASE i = Len(toLib) + 1
  BY <1>1, <1>2
<1>3. CASE i \in 1..Len(toLib)
  BY <1>1, <1>3 DEF InToLib
<1> QED
  BY <1>1, <1>2, <1>3

LEMMA PlainTypes ==
  /\ [type |-> "GOT_SIGCHLD"].type = "GOT_SIGCHLD"
  /\ [type |-> "GOT_UMOUNT"].type = "GOT_UMOUNT"
  /\ \A r : [type |-> "MODESET_IOCTL", request |-> r].type = "MODESET_IOCTL"
OBVIOUS

(* A report is written by the handler of its event only.                   *)
LEMMA ReportsSent ==
  ASSUME TypeOK, [Next]_vars
  PROVE  /\ InToLib("GOT_SIGCHLD")'
              => InToLib("GOT_SIGCHLD") \/ (Sigchld /\ ToReap /\ WIFEXITED)
         /\ InToLib("GOT_UMOUNT")' => InToLib("GOT_UMOUNT") \/ Umounted
<1> USE DEF TypeOK, SocketTypes
<1>1. CASE toLib' = toLib
  BY <1>1 DEF InToLib
<1>2. CASE toLib' = <<>>
  BY <1>2, ReadsAll
<1>3. CASE Sigchld /\ toLib' # toLib
  <2>1. /\ ToReap /\ WIFEXITED
        /\ toLib' = Append(toLib, [type |-> "GOT_SIGCHLD"])
    BY <1>3 DEF Sigchld, SendHeader
  <2> QED
    BY <1>3, <2>1, PlainMessages, PlainTypes, AppendedToLib
<1>4. CASE Umounted /\ toLib' # toLib
  <2>1. toLib' = Append(toLib, [type |-> "GOT_UMOUNT"])
    BY <1>4 DEF Umounted, SendHeader
  <2> QED
    BY <1>4, <2>1, PlainMessages, PlainTypes, AppendedToLib
<1>5. ASSUME NEW r \in Request, Modeset(r), toLib' # toLib
      PROVE  /\ ~InToLib("GOT_SIGCHLD") => ~InToLib("GOT_SIGCHLD")'
             /\ ~InToLib("GOT_UMOUNT") => ~InToLib("GOT_UMOUNT")'
  <2>1. toLib' = Append(toLib, [type |-> "MODESET_IOCTL", request |-> r])
    BY <1>5 DEF Modeset, ModesetMessage
  <2> QED
    BY <2>1, IoctlMessages, PlainTypes, AppendedToLib
<1> QED
  BY <1>1, <1>2, <1>3, <1>4, <1>5, Frames

-----------------------------------------------------------------------------
(* The way out of the child: it leaves the session once, and if it was the *)
(* last then the session is over.                                          *)
ChildInv ==
  /\ Child \in alive => childSt = "running"
  /\ childLast => alive = {} /\ ~mounted /\ childSt \notin {"none", "running"}

LEMMA NextChildInv ==
  ASSUME TypeOK, RefInv, ChildInv, [Next]_vars
  PROVE  ChildInv'
<1> USE DEF ChildInv, RefInv
<1>1. CASE RunCommand
  BY <1>1 DEF RunCommand, CommandStarts, CloneFails
<1>2. ASSUME NEW p \in Proc, NEW q \in Proc, Fork(p, q) PROVE ChildInv'
  BY <1>2 DEF Fork
<1>3. ASSUME NEW p \in Proc, NEW how \in {"exit", "kill"}, Exit(p, how)
      PROVE  ChildInv'
  BY <1>3 DEF Exit
<1>4. CASE NotifyParent
  BY <1>4 DEF NotifyParent
<1>5. CASE Sigchld
  BY <1>5 DEF Sigchld, ToReap
<1>6. CASE UNCHANGED <<mounted, alive, childSt, childLast>>
  BY <1>6
<1>7. \/ RunCommand \/ NotifyParent \/ Sigchld
      \/ \E p, q \in Proc : Fork(p, q)
      \/ \E p \in Proc, how \in {"exit", "kill"} : Exit(p, how)
      \/ UNCHANGED <<mounted, alive, childSt, childLast>>
  BY Frames
<1> QED
  BY <1>1, <1>2, <1>3, <1>4, <1>5, <1>6, <1>7

(* on_sigchld was called or is about to be: the child was reaped, had      *)
(* exited, and was not the last.                                           *)
ReportInv ==
  InToLib("GOT_SIGCHLD") \/ sigchlds # 0
    => childSt = "reaped" /\ childHow = "exit" /\ ~childLast

LEMMA NextReportInv ==
  ASSUME TypeOK, RefInv, ChildInv, ReportInv, [Next]_vars
  PROVE  ReportInv'
<1> DEFINE Reported == childSt = "reaped" /\ childHow = "exit" /\ ~childLast
<1>1. Reported => Reported'
  <2> SUFFICES ASSUME Reported PROVE Reported'
    OBVIOUS
  <2>1. ~RunCommand \/ UNCHANGED childSt
    BY DEF RunCommand, CloneFails, RefInv
  <2>2. ASSUME NEW p \in Proc, NEW how \in {"exit", "kill"}, Exit(p, how)
        PROVE  UNCHANGED <<childSt, childHow, childLast>>
    BY <2>2 DEF Exit, ChildInv
  <2>3. ~NotifyParent /\ (Sigchld => UNCHANGED childSt)
    BY DEF NotifyParent, Sigchld, ToReap
  <2> QED
    BY <2>1, <2>2, <2>3, Frames
<1>2. Sigchld /\ ToReap /\ WIFEXITED => Reported'
  <2> SUFFICES ASSUME Sigchld, ToReap, WIFEXITED PROVE Reported'
    OBVIOUS
  <2>1. childSt' = "reaped" /\ UNCHANGED <<childHow, childLast>>
    BY DEF Sigchld
  <2>2. childHow = "exit" /\ ~childLast
    BY DEF ToReap, WIFEXITED, Hup, ChildInv
  <2> QED
    BY <2>1, <2>2
<1>3. sigchlds' # 0 => sigchlds # 0 \/ InToLib("GOT_SIGCHLD")
  <2>1. OnSigchld => InToLib("GOT_SIGCHLD")
    BY DEF OnSigchld, LibReads, InToLib, TypeOK, SocketTypes
  <2> QED
    BY <2>1, Frames
<1> QED
  BY <1>1, <1>2, <1>3, ReportsSent DEF ReportInv

(* on_sigchld is for a child that exited and was outlived, whatever the    *)
(* race between its SIGCHLD and the end of the mount (main.c:373).         *)
THEOREM SigchldIsForOutlived == SafeSpec => []SigchldMeansOutlived
<1> DEFINE IInv == TypeOK /\ RefInv /\ ChildInv /\ ReportInv
<1>1. Init => IInv
  BY InitTypeOK, SessionAssumption
     DEF Init, RefInv, ChildInv, ReportInv, InToLib
<1>2. IInv /\ [Next]_vars => IInv'
  BY NextTypeOK, NextRefInv, NextChildInv, NextReportInv
<1>3. IInv => SigchldMeansOutlived
  <2>1. TypeOK => (sigchlds > 0 => sigchlds # 0)
    BY DEF TypeOK, CallbackTypes
  <2> QED
    BY <2>1 DEF ReportInv, SigchldMeansOutlived
<1> QED
  BY <1>1, <1>2, <1>3, PTL DEF SafeSpec

-----------------------------------------------------------------------------
(* on_exit was called or is about to be: the session is over, or its       *)
(* master.  And the master goes early only when a process reads the card.  *)
OverInv ==
  /\ InToLib("GOT_UMOUNT") => Hup
  /\ exits # 0 => Hup \/ mode # "run"
  /\ mode = "aborted" => ClientReads

LEMMA HupIsForEver == RefInv /\ [Next]_vars /\ Hup => Hup'
<1> SUFFICES ASSUME RefInv, [Next]_vars, Hup PROVE Hup'
  OBVIOUS
<1> USE DEF Hup
<1>1. CASE RunCommand
  BY <1>1 DEF RunCommand, CommandStarts, CloneFails, RefInv
<1>2. ASSUME NEW p \in Proc, NEW q \in Proc PROVE ~Fork(p, q)
  BY DEF Fork
<1>3. ASSUME NEW p \in Proc, NEW how \in {"exit", "kill"} PROVE ~Exit(p, how)
  BY DEF Exit
<1> QED
  BY <1>1, <1>2, <1>3, Frames

LEMMA NextOverInv ==
  ASSUME TypeOK, RefInv, OverInv, [Next]_vars
  PROVE  OverInv'
<1>1. Umounted => Hup
  BY DEF Umounted, MountHungUp
<1>2. OnUmount => InToLib("GOT_UMOUNT")
  BY DEF OnUmount, LibReads, InToLib, TypeOK, SocketTypes
<1>3. OnHangup => mode # "run"
  BY DEF OnHangup
<1>4. mode # "run" => UNCHANGED mode
  BY Frames DEF LoopEnds, ReadAborts, Looping
<1>5. mode' = "aborted" => mode = "aborted" \/ ClientReads
  BY Frames DEF LoopEnds, ReadAborts
<1>6. InToLib("GOT_UMOUNT")' => Hup'
  BY <1>1, ReportsSent, HupIsForEver DEF OverInv
<1>7. exits' # 0 => Hup' \/ mode' # "run"
  BY <1>2, <1>3, <1>4, Frames, HupIsForEver DEF OverInv
<1> QED
  BY <1>5, <1>6, <1>7 DEF OverInv

(* on_exit means that no process is left, unless one of them ended the     *)
(* master with a read() of the card (session.h:23, card.c:2038).           *)
THEOREM OnExitIsForTheEnd == SafeSpec => []OnExitMeansOver
<1> DEFINE IInv == TypeOK /\ RefInv /\ OverInv
<1>1. Init => IInv
  BY InitTypeOK DEF Init, RefInv, OverInv, InToLib
<1>2. IInv /\ [Next]_vars => IInv'
  BY NextTypeOK, NextRefInv, NextOverInv
<1>3. IInv => OnExitMeansOver
  <2>1. TypeOK => (exits > 0 => exits # 0)
    BY DEF TypeOK, CallbackTypes
  <2>2. TypeOK => mode \in {"run", "exited", "aborted"}
    BY DEF TypeOK, MasterTypes
  <2> QED
    BY <2>1, <2>2 DEF RefInv, OverInv, OnExitMeansOver, Hup
<1> QED
  BY <1>1, <1>2, <1>3, PTL DEF SafeSpec

-----------------------------------------------------------------------------
(* The way of a modeset ioctl: to the library, to the callback, and back.  *)
Forwarded(r) == \E i \in 1..Len(toLib) :
                  toLib[i].type = "MODESET_IOCTL" /\ toLib[i].request = r
Responded(r) == \E i \in 1..Len(toMaster) :
                  /\ toMaster[i].type = "MODESET_IOCTL_RESPONSE"
                  /\ toMaster[i].request = r

LEMMA IoctlFrames ==
  ASSUME [Next]_vars
  PROVE  /\ UNCHANGED served \/ OnModeset
         /\ \/ toMaster' \in {toMaster, <<>>} \/ OnModeset
            \/ toMaster' = Append(toMaster, [type |-> "RUN_COMMAND"])
         /\ \/ UNCHANGED status \/ ModesetResponse
            \/ AbortIoctls /\ mode' # "run"
            \/ \E p \in Proc : Ioctl(p)
            \/ \E p \in Proc, how \in {"exit", "kill"} : Exit(p, how)
            \/ \E r \in Request : Modeset(r)
<1> USE DEF libVars, masterVars, kernelVars
<1>1. CASE LibraryNext
  BY <1>1 DEF LibraryNext, SocketEvent, SessionStart, SessionFree, OnSigchld,
              OnUmount, OnModeset, OnHangup
<1>2. CASE KernelNext
  BY <1>2 DEF KernelNext, Ioctl, Fork, Exit, NotifyParent
<1>3. CASE MasterNext
  BY <1>3 DEF MasterNext, SocketHangup, RunCommand, MasterReads,
              ModesetResponse, Sigpipe, Sigchld, Umounted, LoopEnds, Modeset,
              ReadAborts
<1>4. CASE UNCHANGED vars
  BY <1>4 DEF vars
<1> QED
  BY <1>1, <1>2, <1>3, <1>4 DEF Next

(* What an action does to the status of a request.                         *)
LEMMA StatusSteps ==
  ASSUME TypeOK, [Next]_vars, NEW r \in Request
  PROVE  \/ UNCHANGED status[r]
         \/ status[r] = "new" /\ status'[r] = "queued"
         \/ status[r] = "queued" /\ status'[r] \in {"sent", "error", "gone"}
         \/ status[r] = "sent" /\ status'[r] = "gone" /\ mode' # "run"
         \/ status[r] = "sent" /\ status'[r] \in {"ok", "error"} /\ Responded(r)
<1> USE DEF TypeOK, IoctlTypes
<1>1. ASSUME NEW p \in Proc, Ioctl(p)
      PROVE  \/ UNCHANGED status[r]
             \/ status[r] = "new" /\ status'[r] = "queued"
  <2>1. PICK n \in 1..MaxIoctl :
          /\ status[<<p, n>>] = "new"
          /\ status' = [status EXCEPT ![<<p, n>>] = "queued"]
    BY <1>1 DEF Ioctl
  <2>2. CASE r = <<p, n>>
    <3>1. <<p, n>> \in Request
      BY <2>2
    <3>2. status'[<<p, n>>] = "queued" /\ status[<<p, n>>] = "new"
      BY <2>1, <3>1
    <3>3. status'[r] = "queued" /\ status[r] = "new"
      BY ONLY <2>2, <3>2
    <3> QED
      BY <3>3
  <2>3. CASE r # <<p, n>>
    BY <2>1, <2>3
  <2> QED
    BY <2>2, <2>3
<1>2. ASSUME NEW p \in Proc, NEW how \in {"exit", "kill"}, Exit(p, how)
      PROVE  \/ UNCHANGED status[r]
             \/ status[r] = "queued" /\ status'[r] = "gone"
  <2>1. status' = [q \in Request |-> IF q[1] = p /\ status[q] = "queued"
                                       THEN "gone" ELSE status[q]]
    BY <1>2 DEF Exit
  <2>2. status'[r] = IF r[1] = p /\ status[r] = "queued"
                       THEN "gone" ELSE status[r]
    BY <2>1
  <2> QED
    BY <2>2
<1>3. ASSUME NEW q \in Request, Modeset(q)
      PROVE  \/ UNCHANGED status[r]
             \/ status[r] = "queued" /\ status'[r] \in {"sent", "error"}
  BY <1>3 DEF Modeset
<1>4. CASE AbortIoctls /\ mode' # "run"
  BY <1>4 DEF AbortIoctls, Waiting
<1>5. CASE ModesetResponse
  <2>1. /\ toMaster # <<>> /\ Head(toMaster).type = "MODESET_IOCTL_RESPONSE"
        /\ Head(toMaster) = toMaster[1] /\ 1 \in 1..Len(toMaster)
    BY <1>5 DEF ModesetResponse, MasterReads, SocketTypes
  <2>2. CASE Head(toMaster).request = r
    <3>1. Responded(r)
      BY <2>1, <2>2 DEF Responded
    <3> QED
      BY <1>5, <2>2, <3>1 DEF ModesetResponse, WaitFor
  <2>3. CASE Head(toMaster).request # r
    BY <1>5, <2>3 DEF ModesetResponse, WaitFor
  <2> QED
    BY <2>2, <2>3
<1> QED
  BY <1>1, <1>2, <1>3, <1>4, <1>5, IoctlFrames

(* An ioctl is answered once: no later step changes its answer.            *)
THEOREM AnswersStay == SafeSpec => AnswersAreFinal
<1>1. TypeOK /\ [Next]_vars
        => [\A r \in Request : Answered(r) => status'[r] = status[r]]_vars
  BY StatusSteps DEF Answered
<1> QED
  BY InitTypeOK, NextTypeOK, <1>1, PTL DEF SafeSpec, AnswersAreFinal

-----------------------------------------------------------------------------
(* A request is under way to the callback only if it was just forwarded,   *)
(* and a response only if the callback was just called.                    *)
LEMMA ForwardedSteps ==
  ASSUME TypeOK, [Next]_vars, NEW r \in Request, Forwarded(r)'
  PROVE  Forwarded(r) \/ (Modeset(r) /\ status[r] = "queued")
<1> USE DEF TypeOK, SocketTypes
<1>1. PICK i \in 1..Len(toLib') :
        toLib'[i].type = "MODESET_IOCTL" /\ toLib'[i].request = r
  BY DEF Forwarded
<1>2. CASE toLib' \in {toLib, <<>>}
  BY <1>1, <1>2 DEF Forwarded
<1>3. ASSUME NEW m \in MessageOut, toLib' = Append(toLib, m)
      PROVE  Forwarded(r) \/ (m.type = "MODESET_IOCTL" /\ m.request = r)
  <2>1. CASE i = Len(toLib) + 1
    BY <1>1, <1>3, <2>1
  <2>2. CASE i \in 1..Len(toLib)
    BY <1>1, <1>3, <2>2 DEF Forwarded
  <2> QED
    BY <1>1, <1>3, <2>1, <2>2
<1>4. CASE Sigchld /\ toLib' \notin {toLib, <<>>}
  <2>1. toLib' = Append(toLib, [type |-> "GOT_SIGCHLD"])
    BY <1>4 DEF Sigchld, SendHeader
  <2> QED
    BY <1>3, <2>1, PlainMessages, PlainTypes
<1>5. CASE Umounted /\ toLib' \notin {toLib, <<>>}
  <2>1. toLib' = Append(toLib, [type |-> "GOT_UMOUNT"])
    BY <1>5 DEF Umounted, SendHeader
  <2> QED
    BY <1>3, <2>1, PlainMessages, PlainTypes
<1>6. ASSUME NEW q \in Request, Modeset(q), toLib' \notin {toLib, <<>>}
      PROVE  Forwarded(r) \/ (q = r /\ status[q] = "queued")
  <2>1. /\ status[q] = "queued"
        /\ toLib' = Append(toLib, [type |-> "MODESET_IOCTL", request |-> q])
    BY <1>6 DEF Modeset, ModesetMessage
  <2>2. [type |-> "MODESET_IOCTL", request |-> q].request = q
    OBVIOUS
  <2>3. Forwarded(r) \/ q = r
    BY <1>3, <2>1, <2>2, IoctlMessages
  <2> QED
    BY <2>1, <2>3
<1> QED
  BY <1>2, <1>4, <1>5, <1>6, Frames

LEMMA CallbackCalled ==
  ASSUME TypeOK, OnModeset, NEW r \in Request, Head(toLib).request = r
  PROVE  Forwarded(r) /\ ~Forwarded(r)' /\ served'[r] = served[r] + 1
<1>1. toLib # <<>> /\ Head(toLib).type = "MODESET_IOCTL" /\ toLib' = <<>>
  BY DEF OnModeset, LibReads
<1>2. Head(toLib) = toLib[1] /\ 1 \in 1..Len(toLib)
  BY <1>1 DEF TypeOK, SocketTypes
<1>3. Forwarded(r) /\ ~Forwarded(r)'
  BY <1>1, <1>2 DEF Forwarded
<1>4. served'[r] = served[r] + 1
  BY DEF OnModeset, TypeOK, CallbackTypes
<1> QED
  BY <1>3, <1>4

LEMMA ServedSteps ==
  ASSUME TypeOK, [Next]_vars, NEW r \in Request
  PROVE  UNCHANGED served[r] \/ (OnModeset /\ Head(toLib).request = r)
<1>1. OnModeset /\ Head(toLib).request # r => served'[r] = served[r]
  BY DEF OnModeset, TypeOK, CallbackTypes
<1> QED
  BY <1>1, IoctlFrames

LEMMA RespondedSteps ==
  ASSUME TypeOK, [Next]_vars, NEW r \in Request, Responded(r)'
  PROVE  Responded(r) \/ (OnModeset /\ Head(toLib).request = r)
<1> USE DEF TypeOK, SocketTypes
<1>1. PICK i \in 1..Len(toMaster') :
        /\ toMaster'[i].type = "MODESET_IOCTL_RESPONSE"
        /\ toMaster'[i].request = r
  BY DEF Responded
<1>2. CASE toMaster' \in {toMaster, <<>>}
  BY <1>1, <1>2 DEF Responded
<1>3. ASSUME NEW m, toMaster' = Append(toMaster, m)
      PROVE  Responded(r) \/ (m.type = "MODESET_IOCTL_RESPONSE" /\ m.request = r)
  <2>1. CASE i = Len(toMaster) + 1
    BY <1>1, <1>3, <2>1
  <2>2. CASE i \in 1..Len(toMaster)
    BY <1>1, <1>3, <2>2 DEF Responded
  <2> QED
    BY <1>1, <1>3, <2>1, <2>2
<1>4. CASE toMaster' = Append(toMaster, [type |-> "RUN_COMMAND"])
  BY <1>3, <1>4
<1>5. CASE OnModeset
  <2>1. PICK w : toMaster' = Append(toMaster,
                   [type |-> "MODESET_IOCTL_RESPONSE",
                    request |-> Head(toLib).request, whole |-> w])
    BY <1>5 DEF OnModeset
  <2>2. [type |-> "MODESET_IOCTL_RESPONSE", request |-> Head(toLib).request,
         whole |-> w].request = Head(toLib).request
    OBVIOUS
  <2> QED
    BY <1>3, <1>5, <2>1, <2>2
<1> QED
  BY <1>2, <1>4, <1>5, IoctlFrames

(* What is known of a request by where it is.  That a callback empties the *)
(* socket is what makes the second line inductive.                         *)
IoctlInv ==
  \A r \in Request :
    /\ status[r] \in {"new", "queued"} => served[r] = 0 /\ ~Forwarded(r)
    /\ Forwarded(r) => served[r] = 0
    /\ Responded(r) => served[r] = 1
    /\ status[r] = "ok" => served[r] = 1

LEMMA NextIoctlInv ==
  ASSUME TypeOK, IoctlInv, [Next]_vars
  PROVE  IoctlInv'
<1> SUFFICES ASSUME NEW r \in Request
             PROVE  /\ status'[r] \in {"new", "queued"}
                         => served'[r] = 0 /\ ~Forwarded(r)'
                    /\ Forwarded(r)' => served'[r] = 0
                    /\ Responded(r)' => served'[r] = 1
                    /\ status'[r] = "ok" => served'[r] = 1
  BY DEF IoctlInv
<1>1. /\ status[r] \in {"new", "queued"} => served[r] = 0 /\ ~Forwarded(r)
      /\ Forwarded(r) => served[r] = 0
      /\ Responded(r) => served[r] = 1
      /\ status[r] = "ok" => served[r] = 1
  BY DEF IoctlInv
<1>2. CASE OnModeset /\ Head(toLib).request = r
  <2>1. Forwarded(r) /\ ~Forwarded(r)' /\ served'[r] = served[r] + 1
    BY <1>2, CallbackCalled
  <2>2. served'[r] = 1
    BY <1>1, <2>1
  <2>3. UNCHANGED status
    BY <1>2 DEF OnModeset
  <2> QED
    BY <1>1, <2>1, <2>2, <2>3
<1>3. CASE ~(OnModeset /\ Head(toLib).request = r)
  <2>1. served'[r] = served[r]
    BY <1>3, ServedSteps
  <2>2. Responded(r)' => Responded(r)
    BY <1>3, RespondedSteps
  <2>3. Modeset(r) => status'[r] \notin {"new", "queued"}
    BY DEF Modeset, TypeOK, IoctlTypes
  <2>4. Forwarded(r)' => Forwarded(r) \/ (Modeset(r) /\ status[r] = "queued")
    BY ForwardedSteps
  <2>5. \/ UNCHANGED status[r]
        \/ status[r] = "new" /\ status'[r] = "queued"
        \/ status[r] = "queued" /\ status'[r] \in {"sent", "error", "gone"}
        \/ status[r] = "sent" /\ status'[r] = "gone"
        \/ status[r] = "sent" /\ status'[r] \in {"ok", "error"} /\ Responded(r)
    BY StatusSteps
  <2> QED
    BY <1>1, <2>1, <2>2, <2>3, <2>4, <2>5
<1> QED
  BY <1>2, <1>3

(* An ioctl succeeds after the user's callback saw it, once.               *)
THEOREM SuccessWasServed == SafeSpec => []SuccessIsServed
<1>1. Init => TypeOK /\ IoctlInv
  <2>1. Init => IoctlInv
    BY DEF Init, IoctlInv, Forwarded, Responded
  <2> QED
    BY <2>1, InitTypeOK
<1>2. TypeOK /\ IoctlInv /\ [Next]_vars => TypeOK' /\ IoctlInv'
  BY NextTypeOK, NextIoctlInv
<1>3. IoctlInv => SuccessIsServed
  BY DEF IoctlInv, SuccessIsServed
<1> QED
  BY <1>1, <1>2, <1>3, PTL DEF SafeSpec

-----------------------------------------------------------------------------
(* The contract of session.h: what changes what the user can see.          *)
LEMMA UserFrames ==
  ASSUME [Next]_vars
  PROVE  /\ UNCHANGED started \/ SessionStart
         /\ UNCHANGED libOpen \/ SessionFree
         /\ UNCHANGED fdReg \/ SessionFree \/ OnUmount \/ OnHangup
         /\ UNCHANGED outside \/ SocketHangup \/ Sigpipe
         /\ "SIGPIPE" \in sigs' => "SIGPIPE" \in sigs \/ ~libOpen
         /\ toMaster' \in {toMaster, <<>>} \/ OnModeset \/ SessionStart
         /\ UNCHANGED served \/ OnModeset
<1> USE DEF libVars, masterVars, kernelVars
<1>1. CASE LibraryNext
  BY <1>1 DEF LibraryNext, SocketEvent, SessionStart, SessionFree, OnSigchld,
              OnUmount, OnModeset, OnHangup
<1>2. CASE KernelNext
  BY <1>2 DEF KernelNext, Ioctl, Fork, Exit, NotifyParent
<1>3. CASE MasterNext
  BY <1>3 DEF MasterNext, SocketHangup, RunCommand, MasterReads,
              ModesetResponse, Sigpipe, Sigchld, SendHeader, Umounted,
              LoopEnds, Modeset, ReadAborts
<1>4. CASE UNCHANGED vars
  BY <1>4 DEF vars
<1> QED
  BY <1>1, <1>2, <1>3, <1>4 DEF Next

(* The callbacks come between session_start and session_free: what the     *)
(* socket, the master and its references look like before and after.       *)
UserInv ==
  /\ fdReg => libOpen /\ exits = 0
  /\ exits # 0 => started
  /\ ~started => toLib = <<>> /\ toMaster = <<>> /\ ~forked
  /\ ~forked => \A r \in Request : status[r] = "new"
  /\ ~outside \/ "SIGPIPE" \in sigs => ~libOpen
  /\ mode = "exited" => ~libOpen
  /\ mode = "aborted" => forked
  /\ InToLib("GOT_SIGCHLD") => sigchlds = 0

LEMMA HeardWhenRunning ==
  ASSUME TypeOK, UserInv
  PROVE  /\ \A type : LibReads(type) => libOpen /\ exits = 0 /\ started
         /\ OnHangup => libOpen /\ exits = 0 /\ started
<1>1. mode \in {"run", "exited", "aborted"}
  BY DEF TypeOK, MasterTypes
<1> QED
  BY <1>1 DEF UserInv, LibReads, OnHangup

LEMMA NothingSent ==
  ASSUME RefInv, UserInv, ~forked, [Next]_vars
  PROVE  toLib' \in {toLib, <<>>}
<1>1. \A q \in Request : ~Modeset(q)
  BY DEF UserInv, Modeset
<1>2. mounted /\ childSt = "none"
  BY DEF RefInv
<1>3. ~Umounted /\ (Sigchld => UNCHANGED toLib)
  BY <1>2 DEF Umounted, MountHungUp, Hup, Sigchld, ToReap
<1> QED
  BY <1>1, <1>3, Frames

LEMMA NothingAsked ==
  ASSUME TypeOK, RefInv, UserInv, ~forked, [Next]_vars, NEW r \in Request
  PROVE  status'[r] = "new"
<1>1. \A q \in Request : status[q] = "new"
  BY DEF UserInv
<1>2. \A q \in Request : ~Modeset(q)
  BY <1>1 DEF Modeset
<1>3. alive = {}
  BY DEF RefInv
<1>4. ASSUME NEW p \in Proc
      PROVE  ~Ioctl(p) /\ \A how \in {"exit", "kill"} : ~Exit(p, how)
  BY <1>3 DEF Ioctl, Exit
<1>5. AbortIoctls => status'[r] = "new"
  BY <1>1 DEF AbortIoctls, Waiting
<1>6. ModesetResponse => status'[r] \in {"new", "ok", "error"}
  BY <1>1 DEF ModesetResponse, TypeOK, IoctlTypes
<1>7. status'[r] \in {"new", "queued"}
  BY <1>1, StatusSteps
<1> QED
  BY <1>1, <1>2, <1>4, <1>5, <1>6, <1>7, IoctlFrames

LEMMA NextUserInv ==
  ASSUME TypeOK, RefInv, ChildInv, ReportInv, UserInv, [Next]_vars
  PROVE  UserInv'
<1>1. (fdReg => libOpen /\ exits = 0)'
  BY Frames, UserFrames DEF UserInv, SessionFree, OnUmount, OnHangup
<1>2. (exits # 0 => started)'
  <2>1. started => started'
    BY UserFrames DEF SessionStart
  <2> QED
    BY <2>1, HeardWhenRunning, Frames DEF UserInv, OnUmount
<1>3. (~started => toLib = <<>> /\ toMaster = <<>> /\ ~forked)'
  <2> SUFFICES ASSUME ~started'
               PROVE  toLib' = <<>> /\ toMaster' = <<>> /\ ~forked'
    OBVIOUS
  <2>1. ~SessionStart /\ ~started
    <3>1. SessionStart => started'
      BY DEF SessionStart
    <3> QED
      BY <3>1, UserFrames
  <2>2. toLib = <<>> /\ toMaster = <<>> /\ ~forked
    BY <2>1 DEF UserInv
  <2>3. ~OnModeset /\ ~RunCommand
    BY <2>2 DEF OnModeset, LibReads, RunCommand, MasterReads
  <2>4. toLib' \in {toLib, <<>>}
    BY <2>2, NothingSent
  <2> QED
    BY <2>1, <2>2, <2>3, <2>4, Frames, UserFrames
<1>4. (~forked => \A r \in Request : status[r] = "new")'
  <2>1. ~forked' => ~forked
    BY Frames DEF RunCommand
  <2> QED
    BY <2>1, NothingAsked
<1>5. (~outside \/ "SIGPIPE" \in sigs => ~libOpen)'
  BY UserFrames DEF UserInv, SessionFree, SocketHangup, Sigpipe, libVars
<1>6. (mode = "exited" => ~libOpen)'
  BY Frames, UserFrames DEF UserInv, SessionFree, LoopEnds, ReadAborts, libVars
<1>7. (mode = "aborted" => forked)'
  <2>1. forked => forked'
    BY Frames DEF RunCommand
  <2>2. ASSUME NEW p \in Proc, ReadAborts(p) PROVE forked
    BY <2>2 DEF ReadAborts, RefInv
  <2> QED
    BY <2>1, <2>2, Frames DEF UserInv, LoopEnds
<1>8. (InToLib("GOT_SIGCHLD") => sigchlds = 0)'
  <2>1. OnSigchld => ~InToLib("GOT_SIGCHLD")'
    BY ReadsAll DEF OnSigchld, LibReads
  <2>2. ToReap => sigchlds = 0
    BY DEF ToReap, ReportInv
  <2> QED
    BY <2>1, <2>2, Frames, ReportsSent DEF UserInv
<1> QED
  BY <1>1, <1>2, <1>3, <1>4, <1>5, <1>6, <1>7, <1>8 DEF UserInv

(* Every step is one of the contract's, or a stutter.                       *)
LEMMA ContractStep ==
  ASSUME TypeOK, RefInv, ChildInv, ReportInv, UserInv, IoctlInv, UserInv',
         [Next]_vars
  PROVE  [Contract!Next]_(Contract!vars)
<1> USE DEF Contract!Next, Contract!vars
<1>1. CASE SessionStart
  <2>1. Phase = "new" /\ Phase' = "running"
    BY <1>1 DEF SessionStart, UserInv, Phase
  <2> QED
    BY <1>1, <2>1 DEF SessionStart, Contract!Start
<1>2. CASE SessionFree
  <2>1. Phase # "freed" /\ Phase' = "freed"
    BY <1>2 DEF SessionFree, Phase
  <2> QED
    BY <1>2, <2>1 DEF SessionFree, Contract!Free
<1>3. CASE OnSigchld
  <2>1. Phase = "running" /\ sigchlds = 0
    BY <1>3, HeardWhenRunning DEF OnSigchld, LibReads, InToLib, UserInv, Phase,
       TypeOK, SocketTypes
  <2>2. sigchlds' = 1 /\ UNCHANGED <<Phase, exits, served>>
    BY <1>3, <2>1 DEF OnSigchld, Phase
  <2> QED
    BY <2>1, <2>2 DEF Contract!OnSigchld
<1>4. CASE OnUmount \/ OnHangup
  <2>1. libOpen /\ exits = 0 /\ started
    BY <1>4, HeardWhenRunning DEF OnUmount
  <2>2. UNCHANGED <<libOpen, sigchlds, served>> /\ exits' = exits + 1
    BY <1>4 DEF OnUmount, OnHangup
  <2>3. exits' = 1
    BY <2>1, <2>2
  <2>4. Phase = "running" /\ Phase' = "over"
    BY <2>1, <2>2, <2>3 DEF Phase
  <2> QED
    BY <2>1, <2>2, <2>3, <2>4 DEF Contract!OnExit
<1>5. CASE OnModeset
  <2> DEFINE r == Head(toLib).request
  <2>1. r \in Request
    BY <1>5, IoctlMessages DEF OnModeset, LibReads, TypeOK, SocketTypes, MessageOut
  <2>2. served[r] = 0
    BY <1>5, <2>1, CallbackCalled DEF IoctlInv
  <2>3. Phase = "running"
    BY <1>5, HeardWhenRunning DEF OnModeset, Phase
  <2>4. /\ served' = [served EXCEPT ![r] = 1]
        /\ UNCHANGED <<Phase, exits, sigchlds>>
    BY <1>5, <2>1, <2>2 DEF OnModeset, Phase
  <2> QED
    BY <2>1, <2>2, <2>3, <2>4 DEF Contract!ModesetIoctl
<1>6. CASE UNCHANGED <<started, libOpen, exits, sigchlds, served>>
  BY <1>6 DEF Phase
<1> QED
  BY <1>1, <1>2, <1>3, <1>4, <1>5, <1>6, Frames, UserFrames

(* The callbacks keep the contract of session.h, in every session.         *)
THEOREM CallbacksKeepContract == SafeSpec => KeepsContract
<1> DEFINE IInv == /\ TypeOK /\ RefInv /\ ChildInv
                   /\ ReportInv /\ UserInv /\ IoctlInv
<1>1. Init => IInv
  <2>1. Init => RefInv /\ ChildInv /\ ReportInv
    BY SessionAssumption DEF Init, RefInv, ChildInv, ReportInv, InToLib
  <2>2. Init => IoctlInv
    BY DEF Init, IoctlInv, Forwarded, Responded
  <2>3. Init => UserInv
    BY DEF Init, UserInv, InToLib
  <2> QED
    BY <2>1, <2>2, <2>3, InitTypeOK
<1>2. IInv /\ [Next]_vars => IInv'
  BY NextTypeOK, NextRefInv, NextChildInv, NextReportInv, NextUserInv,
     NextIoctlInv
<1>3. Init => Contract!Init
  BY DEF Init, Contract!Init, Phase
<1>4. IInv /\ IInv' /\ [Next]_vars => [Contract!Next]_(Contract!vars)
  BY ContractStep
<1> QED
  BY <1>1, <1>2, <1>3, <1>4, PTL DEF SafeSpec, KeepsContract, Contract!Spec
-----------------------------------------------------------------------------
(* Responses come in the order of the requests.  The parts of the argument *)
(* are stated of two wires and an order that are given, so that they can   *)
(* be used of a state and of the next one.                                 *)
Before(ord, r, q) == \E k, l \in 1..Len(ord) : k < l /\ r = ord[k] /\ q = ord[l]
Known(ord, wire) ==
  \A i \in Ioctls(wire) : \E k \in 1..Len(ord) : ord[k] = wire[i].request
Sorted(ord, wire) ==
  \A i, j \in Ioctls(wire) : i < j => Before(ord, wire[i].request, wire[j].request)
Across(ord, in, out) ==
  \A i \in Ioctls(in), j \in Ioctls(out) : Before(ord, in[i].request, out[j].request)
Ordered(ord, in, out) ==
  /\ Known(ord, in) /\ Known(ord, out)
  /\ Sorted(ord, in) /\ Sorted(ord, out)
  /\ Across(ord, in, out)

LEMMA BeforeGrows ==
  ASSUME NEW S, NEW ord \in Seq(S), NEW x \in S, NEW r, NEW q
  PROVE  /\ Before(ord, r, q) => Before(Append(ord, x), r, q)
         /\ (\E k \in 1..Len(ord) : ord[k] = r) => Before(Append(ord, x), r, x)
<1> DEFINE next == Append(ord, x)
<1>1. /\ Len(next) = Len(ord) + 1
      /\ \A k \in 1..Len(ord) : k \in 1..Len(next) /\ next[k] = ord[k]
      /\ next[Len(ord) + 1] = x /\ Len(ord) + 1 \in 1..Len(next)
      /\ \A k \in 1..Len(ord) : k < Len(ord) + 1
  OBVIOUS
<1> HIDE DEF next
<1>2. Before(ord, r, q) => Before(next, r, q)
  BY <1>1 DEF Before
<1>3. (\E k \in 1..Len(ord) : ord[k] = r) => Before(next, r, x)
  BY <1>1 DEF Before
<1> QED
  BY <1>2, <1>3 DEF next

(* What is found in a wire behind which a message was put.                 *)
Extends(next, wire, m) ==
  \A i \in Ioctls(next) :
    \/ i \in Ioctls(wire) /\ next[i] = wire[i] /\ i < Len(wire) + 1
    \/ /\ i = Len(wire) + 1 /\ next[i] = m
       /\ m.type \in {"MODESET_IOCTL", "MODESET_IOCTL_RESPONSE"}

LEMMA IoctlsAppended ==
  ASSUME NEW M, NEW wire \in Seq(M), NEW m \in M
  PROVE  Extends(Append(wire, m), wire, m)
<1> DEFINE next == Append(wire, m)
<1>1. ASSUME NEW i \in Ioctls(next)
      PROVE  \/ i \in Ioctls(wire) /\ next[i] = wire[i] /\ i < Len(wire) + 1
             \/ /\ i = Len(wire) + 1 /\ next[i] = m
                /\ m.type \in {"MODESET_IOCTL", "MODESET_IOCTL_RESPONSE"}
  <2>1. i \in 1..(Len(wire) + 1)
    BY DEF Ioctls
  <2>2. CASE i = Len(wire) + 1
    BY <2>2 DEF Ioctls
  <2>3. CASE i \in 1..Len(wire)
    BY <2>3 DEF Ioctls
  <2> QED
    BY <2>1, <2>2, <2>3
<1> HIDE DEF next
<1>2. Extends(next, wire, m)
  BY <1>1 DEF Extends
<1> QED
  BY <1>2 DEF next

LEMMA EmptyWire == Ioctls(<<>>) = {}
BY DEF Ioctls

LEMMA OrderedEmptied ==
  ASSUME NEW ord, NEW in, NEW out, Ordered(ord, in, out)
  PROVE  Ordered(ord, <<>>, out) /\ Ordered(ord, in, <<>>)
BY EmptyWire DEF Ordered, Known, Sorted, Across

(* A message that is no ioctl's disturbs nothing.                          *)
LEMMA OrderedPlain ==
  ASSUME NEW ord, NEW in \in Seq(MessageIn), NEW out \in Seq(MessageOut),
         Ordered(ord, in, out)
  PROVE  /\ \A m \in MessageIn : m.type = "RUN_COMMAND"
                                   => Ordered(ord, Append(in, m), out)
         /\ \A m \in MessageOut : m.type \in {"GOT_SIGCHLD", "GOT_UMOUNT"}
                                   => Ordered(ord, in, Append(out, m))
<1>1. ASSUME NEW m \in MessageIn, m.type = "RUN_COMMAND"
      PROVE  Ordered(ord, Append(in, m), out)
  <2>0. m.type \notin {"MODESET_IOCTL", "MODESET_IOCTL_RESPONSE"}
    BY <1>1
  <2> DEFINE next == Append(in, m)
  <2>1. Extends(next, in, m)
    BY IoctlsAppended
  <2> HIDE DEF next
  <2>2. Ordered(ord, next, out)
    BY <2>0, <2>1 DEF Extends, Ordered, Known, Sorted, Across
  <2> QED
    BY <2>2 DEF next
<1>2. ASSUME NEW m \in MessageOut, m.type \in {"GOT_SIGCHLD", "GOT_UMOUNT"}
      PROVE  Ordered(ord, in, Append(out, m))
  <2>0. m.type \notin {"MODESET_IOCTL", "MODESET_IOCTL_RESPONSE"}
    BY <1>2
  <2> DEFINE next == Append(out, m)
  <2>1. Extends(next, out, m)
    BY IoctlsAppended
  <2> HIDE DEF next
  <2>2. Ordered(ord, in, next)
    BY <2>0, <2>1 DEF Extends, Ordered, Known, Sorted, Across
  <2> QED
    BY <2>2 DEF next
<1> QED
  BY <1>1, <1>2

(* A request is forwarded: it is the last of the order.                    *)
LEMMA OrderedForwarded ==
  ASSUME NEW ord \in Seq(Request), NEW in \in Seq(MessageIn),
         NEW out \in Seq(MessageOut), NEW m \in MessageOut, NEW r \in Request,
         m.request = r, Ordered(ord, in, out)
  PROVE  Ordered(Append(ord, r), in, Append(out, m))
<1> DEFINE after == Append(ord, r)
           next  == Append(out, m)
<1>1. \A a, b : Before(ord, a, b) => Before(after, a, b)
  BY BeforeGrows
<1>2. \A a : (\E k \in 1..Len(ord) : ord[k] = a) => Before(after, a, r)
  BY BeforeGrows
<1>3. \A a : (\E k \in 1..Len(ord) : ord[k] = a)
               => \E k \in 1..Len(after) : after[k] = a
  BY <1>2 DEF Before
<1>4. \E k \in 1..Len(after) : after[k] = r
  <2>1. Len(ord) + 1 \in 1..Len(after) /\ after[Len(ord) + 1] = r
    OBVIOUS
  <2> HIDE DEF after
  <2> QED
    BY <2>1
<1>0. Extends(next, out, m)
  BY IoctlsAppended
<1> HIDE DEF after, next
<1>5. \A i \in Ioctls(next) :
        \/ i \in Ioctls(out) /\ next[i] = out[i] /\ i < Len(out) + 1
        \/ i = Len(out) + 1 /\ next[i] = m
  BY <1>0 DEF Extends
<1>6. Known(after, in) /\ Known(after, next)
  <2>1. Known(after, in)
    BY <1>3 DEF Ordered, Known
  <2>2. ASSUME NEW i \in Ioctls(next)
        PROVE  \E k \in 1..Len(after) : after[k] = next[i].request
    <3>1. CASE next[i] = m
      BY <1>4, <3>1
    <3>2. CASE i \in Ioctls(out) /\ next[i] = out[i]
      BY <1>3, <3>2 DEF Ordered, Known
    <3> QED
      BY <1>5, <3>1, <3>2
  <2> QED
    BY <2>1, <2>2 DEF Known
<1>7. Sorted(after, in) /\ Across(after, in, next)
  BY <1>1, <1>2, <1>5 DEF Ordered, Known, Sorted, Across
<1>8. ASSUME NEW i \in Ioctls(next), NEW j \in Ioctls(next), i < j
      PROVE  Before(after, next[i].request, next[j].request)
  <2>1. i \in Ioctls(out) /\ next[i] = out[i]
    <3>1. j < Len(out) + 1 \/ j = Len(out) + 1
      BY <1>5
    <3>2. i \in Nat /\ j \in Nat /\ Len(out) \in Nat
      <4>1. Len(next) \in Nat
        BY DEF next
      <4> QED
        BY <4>1 DEF Ioctls
    <3>3. i # Len(out) + 1
      BY <1>8, <3>1, <3>2
    <3> QED
      BY <1>5, <3>3
  <2>2. CASE j \in Ioctls(out) /\ next[j] = out[j]
    BY <1>1, <1>8, <2>1, <2>2 DEF Ordered, Sorted
  <2>3. CASE next[j] = m
    BY <1>2, <2>1, <2>3 DEF Ordered, Known
  <2> QED
    BY <1>5, <2>2, <2>3
<1>9. Sorted(after, next)
  BY <1>8 DEF Sorted
<1>10. Ordered(after, in, next)
  BY <1>6, <1>7, <1>9 DEF Ordered
<1> QED
  BY <1>10 DEF after, next

(* A request is answered: every answer before it was to an earlier one.    *)
LEMMA OrderedAnswered ==
  ASSUME NEW ord, NEW in \in Seq(MessageIn), NEW out \in Seq(MessageOut),
         NEW m \in MessageIn, NEW j \in Ioctls(out),
         m.request = out[j].request, Ordered(ord, in, out)
  PROVE  Ordered(ord, Append(in, m), <<>>)
<1> DEFINE next == Append(in, m)
<1>0. Extends(next, in, m)
  BY IoctlsAppended
<1>2. Len(in) \in Nat /\ Ioctls(next) \subseteq Nat
  <2>1. Len(next) \in Nat
    OBVIOUS
  <2> QED
    BY <2>1 DEF Ioctls
<1> HIDE DEF next
<1>1. \A i \in Ioctls(next) :
        \/ i \in Ioctls(in) /\ next[i] = in[i] /\ i < Len(in) + 1
        \/ i = Len(in) + 1 /\ next[i] = m
  BY <1>0 DEF Extends
<1>3. Known(ord, next)
  BY <1>1 DEF Ordered, Known
<1>4. ASSUME NEW i \in Ioctls(next), NEW k \in Ioctls(next), i < k
      PROVE  Before(ord, next[i].request, next[k].request)
  <2>1. i \in Ioctls(in) /\ next[i] = in[i]
    <3>1. i # Len(in) + 1
      BY <1>1, <1>2, <1>4
    <3> QED
      BY <1>1, <3>1
  <2>2. CASE k \in Ioctls(in) /\ next[k] = in[k]
    BY <1>4, <2>1, <2>2 DEF Ordered, Sorted
  <2>3. CASE next[k] = m
    BY <2>1, <2>3 DEF Ordered, Across
  <2> QED
    BY <1>1, <2>2, <2>3
<1>5. Sorted(ord, next)
  BY <1>4 DEF Sorted
<1>6. Ordered(ord, next, <<>>)
  BY <1>3, <1>5, EmptyWire DEF Ordered, Known, Sorted, Across
<1> QED
  BY <1>6 DEF next

OrderInv == Ordered(order, toMaster, toLib)

LEMMA OrderFrames ==
  ASSUME [Next]_vars
  PROVE  /\ UNCHANGED order \/ \E r \in Request : Modeset(r)
         /\ UNCHANGED toMaster \/ UNCHANGED toLib \/ OnModeset
         /\ \/ toMaster' \in {toMaster, <<>>} \/ OnModeset
            \/ toMaster' = Append(toMaster, [type |-> "RUN_COMMAND"])
         /\ \/ toLib' \in {toLib, <<>>}
            \/ toLib' = Append(toLib, [type |-> "GOT_SIGCHLD"])
            \/ toLib' = Append(toLib, [type |-> "GOT_UMOUNT"])
            \/ \E r \in Request : Modeset(r)
<1>1. CASE LibraryNext
  BY <1>1 DEF LibraryNext, SocketEvent, LibReads, SessionStart, SessionFree,
              OnSigchld, OnUmount, OnModeset, OnHangup
<1>2. CASE KernelNext
  BY <1>2 DEF KernelNext, Ioctl, Fork, Exit, NotifyParent
<1>3. CASE MasterNext
  BY <1>3 DEF MasterNext, SocketHangup, RunCommand, MasterReads,
              ModesetResponse, Sigpipe, Sigchld, SendHeader, Umounted,
              LoopEnds, Modeset, ReadAborts
<1>4. CASE UNCHANGED vars
  BY <1>4 DEF vars
<1> QED
  BY <1>1, <1>2, <1>3, <1>4 DEF Next

LEMMA NextOrderInv ==
  ASSUME TypeOK, OrderInv, [Next]_vars
  PROVE  OrderInv'
<1>1. /\ toMaster \in Seq(MessageIn) /\ toLib \in Seq(MessageOut)
      /\ order \in Seq(Request)
  BY DEF TypeOK, SocketTypes, IoctlTypes
<1>2. Ordered(order, toMaster, toLib)
  BY DEF OrderInv
<1>3. ASSUME NEW r \in Request, Modeset(r) PROVE OrderInv'
  <2>1. CASE UNCHANGED <<order, toMaster, toLib>>
    BY <1>2, <2>1 DEF OrderInv
  <2>2. CASE /\ toLib' = Append(toLib, ModesetMessage(r))
             /\ order' = Append(order, r)
             /\ toMaster' = toMaster
    <3>1. ModesetMessage(r) \in MessageOut /\ ModesetMessage(r).request = r
      BY IoctlMessages DEF ModesetMessage
    <3>2. Ordered(Append(order, r), toMaster, Append(toLib, ModesetMessage(r)))
      BY <1>1, <1>2, <3>1, OrderedForwarded
    <3> QED
      BY <2>2, <3>2 DEF OrderInv
  <2> QED
    BY <1>3, <2>1, <2>2 DEF Modeset
<1>4. CASE OnModeset
  <2>1. /\ toLib # <<>> /\ Head(toLib).type = "MODESET_IOCTL"
        /\ toLib' = <<>> /\ order' = order
    BY <1>4 DEF OnModeset, LibReads
  <2>2. Head(toLib) = toLib[1] /\ 1 \in Ioctls(toLib) /\ toLib[1] \in MessageOut
    BY <1>1, <2>1 DEF Ioctls
  <2>3. toLib[1].request \in Request
    BY <2>1, <2>2, MessageOutType
  <2>4. Alone(toLib) \in BOOLEAN
    BY DEF Alone
  <2> DEFINE m == [type |-> "MODESET_IOCTL_RESPONSE",
                   request |-> toLib[1].request, whole |-> Alone(toLib)]
  <2>5. m \in MessageIn /\ m.request = toLib[1].request
    BY <2>3, <2>4, IoctlMessages
  <2>6. toMaster' = Append(toMaster, m)
    BY <1>4, <2>2 DEF OnModeset
  <2> HIDE DEF m
  <2>7. Ordered(order, Append(toMaster, m), <<>>)
    BY <1>1, <1>2, <2>2, <2>5, OrderedAnswered
  <2> QED
    BY <2>1, <2>6, <2>7 DEF OrderInv
<1>5. CASE ~OnModeset /\ \A r \in Request : ~Modeset(r)
  <2>1. order' = order
    BY <1>5, OrderFrames
  <2>2. ASSUME toLib' = toLib PROVE OrderInv'
    <3>1. CASE toMaster' \in {toMaster, <<>>}
      BY <1>2, <2>1, <2>2, <3>1, OrderedEmptied DEF OrderInv
    <3>2. CASE toMaster' = Append(toMaster, [type |-> "RUN_COMMAND"])
      <4>1. Ordered(order, Append(toMaster, [type |-> "RUN_COMMAND"]), toLib)
        BY <1>1, <1>2, PlainMessages, OrderedPlain
      <4> QED
        BY <2>1, <2>2, <3>2, <4>1 DEF OrderInv
    <3> QED
      BY <1>5, <3>1, <3>2, OrderFrames
  <2>3. ASSUME toMaster' = toMaster PROVE OrderInv'
    <3>1. CASE toLib' \in {toLib, <<>>}
      BY <1>2, <2>1, <2>3, <3>1, OrderedEmptied DEF OrderInv
    <3>2. ASSUME NEW m \in {[type |-> "GOT_SIGCHLD"], [type |-> "GOT_UMOUNT"]},
                 toLib' = Append(toLib, m)
          PROVE  OrderInv'
      <4>1. m \in MessageOut /\ m.type \in {"GOT_SIGCHLD", "GOT_UMOUNT"}
        BY PlainMessages
      <4>2. Ordered(order, toMaster, Append(toLib, m))
        BY <1>1, <1>2, <4>1, OrderedPlain
      <4> QED
        BY <2>1, <2>3, <3>2, <4>2 DEF OrderInv
    <3> QED
      BY <1>5, <3>1, <3>2, OrderFrames
  <2> QED
    BY <1>5, <2>2, <2>3, OrderFrames
<1> QED
  BY <1>3, <1>4, <1>5

(* Responses come in the order of the requests, whatever was lost between  *)
(* (one recvmsg takes all there is): the order that IoctlWait assumes.     *)
THEOREM ResponsesComeInOrder == SafeSpec => []ResponsesInOrder
<1>1. Init => TypeOK /\ OrderInv
  <2>1. Init => OrderInv
    BY EmptyWire DEF Init, OrderInv, Ordered, Known, Sorted, Across
  <2> QED
    BY <2>1, InitTypeOK
<1>2. TypeOK /\ OrderInv /\ [Next]_vars => TypeOK' /\ OrderInv'
  BY NextTypeOK, NextOrderInv
<1>3. OrderInv => ResponsesInOrder
  BY DEF OrderInv, Ordered, Sorted, Across, Before, ResponsesInOrder, InOrder,
         Precedes
<1> QED
  BY <1>1, <1>2, <1>3, PTL DEF SafeSpec
-----------------------------------------------------------------------------
(* What SessionLive promises to happen is on its way.  With the history of *)
(* lost messages: a message is read, or lost behind the one that was, or   *)
(* still there.                                                            *)
LEMMA LiveFrames ==
  ASSUME [LiveNext]_liveVars
  PROVE  /\ [Next]_vars
         /\ lost \subseteq lost'
         /\ \A type : Lost(type) => Lost(type)'
         /\ \A r : LostFor(r) => LostFor(r)'
<1>1. [Next]_vars /\ lost \subseteq lost'
  BY DEF LiveNext, liveVars
<1> QED
  BY <1>1 DEF Lost, LostFor

LEMMA LibRead ==
  ASSUME TypeOK, [LiveNext]_liveVars, toLib' = <<>>, libOpen',
         NEW i \in 1..Len(toLib)
  PROVE  toLib[i] = Head(toLib) \/ toLib[i] \in lost'
<1>1. CASE LiveNext
  <2>1. i = 1 \/ toLib[i] \in Behind(toLib, toLib')
    BY DEF Behind, TypeOK, SocketTypes
  <2>2. toLib[1] = Head(toLib)
    BY DEF TypeOK, SocketTypes
  <2> QED
    BY <1>1, <2>1, <2>2 DEF LiveNext
<1>2. CASE UNCHANGED liveVars
  BY <1>2 DEF liveVars, vars
<1> QED
  BY <1>1, <1>2

LEMMA MasterRead ==
  ASSUME TypeOK, [LiveNext]_liveVars, toMaster' = <<>>,
         NEW i \in 1..Len(toMaster)
  PROVE  toMaster[i] = Head(toMaster) \/ toMaster[i] \in lost'
<1>1. CASE LiveNext
  <2>1. i = 1 \/ toMaster[i] \in Behind(toMaster, toMaster')
    BY DEF Behind, TypeOK, SocketTypes
  <2>2. toMaster[1] = Head(toMaster)
    BY DEF TypeOK, SocketTypes
  <2> QED
    BY <1>1, <2>1, <2>2 DEF LiveNext
<1>2. CASE UNCHANGED liveVars
  BY <1>2 DEF liveVars, vars
<1> QED
  BY <1>1, <1>2

(* What a step does to either direction.                                   *)
LEMMA WireSteps ==
  ASSUME [Next]_vars
  PROVE  /\ \/ toLib' = toLib
            \/ toLib' = <<>>
                 /\ (SessionFree \/ OnSigchld \/ OnUmount \/ OnModeset)
            \/ \E m : toLib' = Append(toLib, m)
         /\ \/ toMaster' = toMaster
            \/ toMaster' = <<>> /\ (RunCommand \/ ModesetResponse)
            \/ \E m : toMaster' = Append(toMaster, m)
<1> USE DEF libVars, masterVars, kernelVars
<1>1. CASE LibraryNext
  BY <1>1 DEF LibraryNext, SocketEvent, LibReads, SessionStart, SessionFree,
              OnSigchld, OnUmount, OnModeset, OnHangup
<1>2. CASE KernelNext
  BY <1>2 DEF KernelNext, Ioctl, Fork, Exit, NotifyParent
<1>3. CASE MasterNext
  BY <1>3 DEF MasterNext, SocketHangup, RunCommand, MasterReads, SendHeader,
              ModesetResponse, Sigpipe, Sigchld, Umounted, LoopEnds, Modeset,
              ReadAborts
<1>4. CASE UNCHANGED vars
  BY <1>4 DEF vars
<1> QED
  BY <1>1, <1>2, <1>3, <1>4 DEF Next

(* Who empties the socket while the library is there.                      *)
LEMMA LibEmptied ==
  ASSUME TypeOK, [Next]_vars, toLib # <<>>, toLib' = <<>>, libOpen'
  PROVE  /\ Head(toLib).type = "GOT_SIGCHLD" => OnSigchld
         /\ Head(toLib).type = "GOT_UMOUNT" => OnUmount
         /\ Head(toLib).type = "MODESET_IOCTL" => OnModeset
<1>1. toLib' # toLib /\ \A m : toLib' # Append(toLib, m)
  BY DEF TypeOK, SocketTypes
<1>2. OnSigchld \/ OnUmount \/ OnModeset
  BY <1>1, WireSteps DEF SessionFree
<1> QED
  BY <1>2 DEF OnSigchld, OnUmount, OnModeset, LibReads

(* A header in the socket is handled, or lost, or stays.                   *)
LEMMA ReportsStay ==
  ASSUME TypeOK, [LiveNext]_liveVars, NEW type, InToLib(type), libOpen'
  PROVE  \/ InToLib(type)' \/ Lost(type)'
         \/ toLib # <<>> /\ toLib' = <<>> /\ Head(toLib).type = type
<1>1. PICK i \in 1..Len(toLib) : toLib[i].type = type
  BY DEF InToLib
<1>2. CASE toLib' = toLib
  BY <1>1, <1>2 DEF InToLib
<1>3. CASE toLib' = <<>>
  <2>1. toLib[i] = Head(toLib) \/ toLib[i] \in lost'
    BY <1>3, LibRead
  <2>2. toLib # <<>>
    BY <1>1
  <2> QED
    BY <1>1, <1>3, <2>1, <2>2 DEF Lost
<1>4. ASSUME NEW m, toLib' = Append(toLib, m) PROVE InToLib(type)'
  <2>1. i \in 1..Len(toLib') /\ toLib'[i] = toLib[i]
    BY <1>4 DEF TypeOK, SocketTypes
  <2> QED
    BY <1>1, <2>1 DEF InToLib
<1> QED
  BY <1>2, <1>3, <1>4, LiveFrames, WireSteps

LEMMA ForwardedStay ==
  ASSUME TypeOK, [LiveNext]_liveVars, NEW r, Forwarded(r), libOpen'
  PROVE  \/ Forwarded(r)' \/ LostFor(r)'
         \/ toLib # <<>> /\ toLib' = <<>> /\ Head(toLib).type = "MODESET_IOCTL"
              /\ Head(toLib).request = r
<1>1. PICK i \in 1..Len(toLib) :
        toLib[i].type = "MODESET_IOCTL" /\ toLib[i].request = r
  BY DEF Forwarded
<1>2. CASE toLib' = toLib
  BY <1>1, <1>2 DEF Forwarded
<1>3. CASE toLib' = <<>>
  <2>1. toLib[i] = Head(toLib) \/ toLib[i] \in lost'
    BY <1>3, LibRead
  <2>2. toLib # <<>>
    BY <1>1
  <2> QED
    BY <1>1, <1>3, <2>1, <2>2 DEF LostFor
<1>4. ASSUME NEW m, toLib' = Append(toLib, m) PROVE Forwarded(r)'
  <2>1. i \in 1..Len(toLib') /\ toLib'[i] = toLib[i]
    BY <1>4 DEF TypeOK, SocketTypes
  <2> QED
    BY <1>1, <2>1 DEF Forwarded
<1> QED
  BY <1>2, <1>3, <1>4, LiveFrames, WireSteps

LEMMA RespondedStay ==
  ASSUME TypeOK, [LiveNext]_liveVars, NEW r, Responded(r)
  PROVE  \/ Responded(r)' \/ LostFor(r)'
         \/ /\ ModesetResponse
            /\ Head(toMaster).request = r
<1>1. PICK i \in 1..Len(toMaster) :
        /\ toMaster[i].type = "MODESET_IOCTL_RESPONSE"
        /\ toMaster[i].request = r
  BY DEF Responded
<1>2. CASE toMaster' = toMaster
  BY <1>1, <1>2 DEF Responded
<1>3. CASE toMaster' = <<>> /\ (RunCommand \/ ModesetResponse)
  <2>1. toMaster[i] = Head(toMaster) \/ toMaster[i] \in lost'
    BY <1>3, MasterRead
  <2>2. RunCommand => Head(toMaster).type = "RUN_COMMAND"
    BY DEF RunCommand, MasterReads
  <2> QED
    BY <1>1, <1>3, <2>1, <2>2 DEF LostFor
<1>4. ASSUME NEW m, toMaster' = Append(toMaster, m) PROVE Responded(r)'
  <2>1. i \in 1..Len(toMaster') /\ toMaster'[i] = toMaster[i]
    BY <1>4 DEF TypeOK, SocketTypes
  <2> QED
    BY <1>1, <2>1 DEF Responded
<1> QED
  BY <1>2, <1>3, <1>4, LiveFrames, WireSteps

-----------------------------------------------------------------------------
(* A process whose ioctl waits is in the session, and its master is there. *)
WaitingInv == \A r \in Request : Waiting(r) => r[1] \in alive /\ mode = "run"

LEMMA NextWaitingInv ==
  ASSUME TypeOK, RefInv, WaitingInv, [Next]_vars
  PROVE  WaitingInv'
<1> SUFFICES ASSUME NEW r \in Request, Waiting(r)'
             PROVE  r[1] \in alive' /\ mode' = "run"
  BY DEF WaitingInv
<1> USE DEF TypeOK, IoctlTypes
<1>0. r[1] \in Proc /\ \E n \in 1..MaxIoctl : r = <<r[1], n>>
  BY DEF Request
<1>1. CASE Waiting(r)
  <2>1. r[1] \in alive /\ mode = "run"
    BY <1>1 DEF WaitingInv
  <2>2. ~AbortIoctls
    BY <1>1 DEF AbortIoctls, Waiting
  <2>3. mode' = "run"
    BY <2>1, <2>2, Frames DEF LoopEnds, ReadAborts
  <2>4. CASE RunCommand
    BY <2>1, <2>4 DEF RunCommand, CommandStarts, CloneFails, RefInv
  <2>5. ASSUME NEW p \in Proc, NEW q \in Proc, Fork(p, q)
        PROVE  r[1] \in alive'
    BY <2>1, <2>5 DEF Fork
  <2>6. ASSUME NEW p \in Proc, NEW how \in {"exit", "kill"}, Exit(p, how)
        PROVE  r[1] \in alive'
    <3> SUFFICES ASSUME p = r[1] PROVE FALSE
      BY <2>1, <2>6 DEF Exit
    <3>1. status[r] = "sent" => Blocked(p, {"sent"}) /\ Blocked(p, {"queued", "sent"})
      BY <1>0 DEF Blocked
    <3>2. status[r] = "queued"
      BY <1>1, <2>6, <3>1 DEF Waiting, Exit
    <3>3. status'[r] = "gone"
      BY <2>6, <3>2 DEF Exit
    <3> QED
      BY <3>3 DEF Waiting
  <2> QED
    BY <2>1, <2>3, <2>4, <2>5, <2>6, Frames
<1>2. CASE ~Waiting(r)
  <2>1. status[r] = "new" /\ status'[r] = "queued"
    BY <1>2, StatusSteps DEF Waiting
  <2>2. ~ModesetResponse
    BY <2>1 DEF ModesetResponse
  <2>3. ~AbortIoctls
    BY <2>1 DEF AbortIoctls, Waiting
  <2>4. ASSUME NEW p \in Proc, NEW how \in {"exit", "kill"} PROVE ~Exit(p, how)
    BY <2>1 DEF Exit
  <2>5. ASSUME NEW q \in Request PROVE ~Modeset(q)
    BY <2>1 DEF Modeset
  <2>6. PICK p \in Proc : Ioctl(p)
    BY <2>1, <2>2, <2>3, <2>4, <2>5, IoctlFrames
  <2>7. PICK n \in 1..MaxIoctl : status' = [status EXCEPT ![<<p, n>>] = "queued"]
    BY <2>6 DEF Ioctl
  <2>8. r = <<p, n>>
    BY <2>1, <2>7
  <2>9. r[1] = p
    BY <2>8
  <2> QED
    BY <2>6, <2>9 DEF Ioctl, masterVars, kernelVars
<1> QED
  BY <1>1, <1>2

(* In the master's loop what is on its way out is on the wait list: only   *)
(* its own response, which is not there yet, would take it off.            *)
SentInv == mode = "run" => \A r \in Request : Forwarded(r) => status[r] = "sent"

LEMMA NextSentInv ==
  ASSUME TypeOK, IoctlInv, SentInv, [Next]_vars
  PROVE  SentInv'
<1> SUFFICES ASSUME mode' = "run", NEW r \in Request, Forwarded(r)'
             PROVE  status'[r] = "sent"
  BY DEF SentInv
<1> USE DEF TypeOK, IoctlTypes
<1>1. mode = "run"
  BY Frames DEF LoopEnds, ReadAborts, Looping
<1>2. CASE Modeset(r) /\ status[r] = "queued"
  <2>1. CASE status' = [status EXCEPT ![r] = "sent"]
    BY <2>1
  <2>2. CASE status' = [status EXCEPT ![r] = "error"] /\ toLib' = toLib
    <3>1. Forwarded(r)
      BY <2>2 DEF Forwarded
    <3> QED
      BY <1>2, <3>1 DEF IoctlInv
  <2> QED
    BY <1>2, <2>1, <2>2 DEF Modeset
<1>3. CASE Forwarded(r)
  <2>1. status[r] = "sent" /\ ~Responded(r)
    BY <1>1, <1>3 DEF SentInv, IoctlInv
  <2> QED
    BY <2>1, StatusSteps
<1> QED
  BY <1>2, <1>3, ForwardedSteps

(* An ioctl on the wait list is in the socket, on its way out or back,     *)
(* unless it or its response was lost, or the library is gone.             *)
WayInv ==
  \A r \in Request :
    status[r] = "sent" => ~libOpen \/ Forwarded(r) \/ Responded(r) \/ LostFor(r)

LEMMA SentIsForwarded ==
  ASSUME TypeOK, [Next]_vars, NEW r \in Request,
         status[r] # "sent", status'[r] = "sent"
  PROVE  Forwarded(r)'
<1> USE DEF TypeOK, IoctlTypes, SocketTypes
<1>1. status[r] = "queued"
  BY StatusSteps
<1>2. ~ModesetResponse /\ ~AbortIoctls
  BY <1>1 DEF ModesetResponse, AbortIoctls, Waiting
<1>3. ASSUME NEW p \in Proc PROVE ~Ioctl(p)
  BY <1>1 DEF Ioctl
<1>4. ASSUME NEW p \in Proc, NEW how \in {"exit", "kill"} PROVE ~Exit(p, how)
  BY <1>1 DEF Exit
<1>5. PICK q \in Request : Modeset(q)
  BY <1>1, <1>2, <1>3, <1>4, IoctlFrames
<1>6. q = r /\ toLib' = Append(toLib, [type |-> "MODESET_IOCTL", request |-> r])
  BY <1>1, <1>5 DEF Modeset, ModesetMessage
<1>7. Len(toLib') \in 1..Len(toLib')
      /\ toLib'[Len(toLib')] = [type |-> "MODESET_IOCTL", request |-> r]
  BY <1>6
<1> QED
  BY <1>7 DEF Forwarded

(* The callback sends back what it was called for.                         *)
LEMMA CallbackResponds ==
  ASSUME TypeOK, OnModeset, NEW r, Head(toLib).request = r
  PROVE  Responded(r)'
<1> USE DEF TypeOK, SocketTypes
<1>1. PICK w : toMaster' = Append(toMaster,
                 [type |-> "MODESET_IOCTL_RESPONSE",
                  request |-> Head(toLib).request, whole |-> w])
  BY DEF OnModeset
<1>2. Len(toMaster') \in 1..Len(toMaster')
      /\ toMaster'[Len(toMaster')] = [type |-> "MODESET_IOCTL_RESPONSE",
                  request |-> Head(toLib).request, whole |-> w]
  BY <1>1
<1> QED
  BY <1>2 DEF Responded

LEMMA NextWayInv ==
  ASSUME TypeOK, WayInv, [LiveNext]_liveVars
  PROVE  WayInv'
<1> SUFFICES ASSUME NEW r \in Request, status'[r] = "sent", libOpen'
             PROVE  Forwarded(r)' \/ Responded(r)' \/ LostFor(r)'
  BY DEF WayInv
<1>1. [Next]_vars
  BY LiveFrames
<1>2. libOpen
  BY <1>1, UserFrames DEF SessionFree
<1>3. CASE status[r] # "sent"
  BY <1>1, <1>3, SentIsForwarded
<1>4. CASE status[r] = "sent" /\ Forwarded(r)
  <2>1. CASE /\ toLib # <<>> /\ toLib' = <<>>
             /\ Head(toLib).type = "MODESET_IOCTL" /\ Head(toLib).request = r
    <3>1. OnModeset
      BY <1>1, <2>1, LibEmptied
    <3> QED
      BY <2>1, <3>1, CallbackResponds
  <2> QED
    BY <1>4, <2>1, ForwardedStay
<1>5. CASE status[r] = "sent" /\ Responded(r)
  <2>1. CASE ModesetResponse /\ Head(toMaster).request = r
    BY <1>5, <2>1 DEF ModesetResponse, WaitFor, TypeOK, IoctlTypes
  <2> QED
    BY <1>5, <2>1, RespondedStay
<1> QED
  BY <1>2, <1>3, <1>4, <1>5, LiveFrames DEF WayInv

-----------------------------------------------------------------------------
(* A report that was sent has come to its callback, or to nothing.         *)
Heard(type, calls) == InToLib(type) \/ Lost(type) \/ calls # 0 \/ ~libOpen

LEMMA CallsCount ==
  ASSUME TypeOK
  PROVE  /\ OnUmount \/ OnHangup => exits' # 0
         /\ OnSigchld => sigchlds' # 0
BY DEF OnUmount, OnHangup, OnSigchld, TypeOK, CallbackTypes

LEMMA EndStaysHeard ==
  ASSUME TypeOK, [LiveNext]_liveVars, Heard("GOT_UMOUNT", exits)
  PROVE  Heard("GOT_UMOUNT", exits)'
<1> SUFFICES ASSUME libOpen'
             PROVE  InToLib("GOT_UMOUNT")' \/ Lost("GOT_UMOUNT")' \/ exits' # 0
  BY DEF Heard
<1>1. [Next]_vars
  BY LiveFrames
<1>2. libOpen
  BY <1>1, UserFrames DEF SessionFree
<1>3. (exits # 0 => exits' # 0) /\ (OnUmount => exits' # 0)
  BY <1>1, CallsCount, Frames
<1>4. InToLib("GOT_UMOUNT")
        => InToLib("GOT_UMOUNT")' \/ Lost("GOT_UMOUNT")' \/ OnUmount
  BY <1>1, ReportsStay, LibEmptied
<1> QED
  BY <1>2, <1>3, <1>4, LiveFrames DEF Heard

LEMMA ExitStaysHeard ==
  ASSUME TypeOK, [LiveNext]_liveVars, Heard("GOT_SIGCHLD", sigchlds)
  PROVE  Heard("GOT_SIGCHLD", sigchlds)'
<1> SUFFICES ASSUME libOpen'
             PROVE  InToLib("GOT_SIGCHLD")' \/ Lost("GOT_SIGCHLD")' \/ sigchlds' # 0
  BY DEF Heard
<1>1. [Next]_vars
  BY LiveFrames
<1>2. libOpen
  BY <1>1, UserFrames DEF SessionFree
<1>3. (sigchlds # 0 => sigchlds' # 0) /\ (OnSigchld => sigchlds' # 0)
  BY <1>1, CallsCount, Frames
<1>4. InToLib("GOT_SIGCHLD")
        => InToLib("GOT_SIGCHLD")' \/ Lost("GOT_SIGCHLD")' \/ OnSigchld
  BY <1>1, ReportsStay, LibEmptied
<1> QED
  BY <1>2, <1>3, <1>4, LiveFrames DEF Heard

LEMMA SentReports ==
  ASSUME TypeOK, NEW type \in {"GOT_SIGCHLD", "GOT_UMOUNT"},
         toLib' = Append(toLib, [type |-> type])
  PROVE  InToLib(type)'
<1>1. /\ Len(toLib') \in 1..Len(toLib')
      /\ toLib'[Len(toLib')] = [type |-> type]
  BY DEF TypeOK, SocketTypes
<1> QED
  BY <1>1 DEF InToLib

(* Which actions change what else.                                         *)
LEMMA MoreFrames ==
  ASSUME [Next]_vars
  PROVE  /\ UNCHANGED born \/ RunCommand \/ \E p, q \in Proc : Fork(p, q)
         /\ UNCHANGED umountReg \/ Umounted
         /\ UNCHANGED child \/ RunCommand \/ Sigchld
         /\ "SIGCHLD" \in sigs => "SIGCHLD" \in sigs' \/ Sigchld
<1> USE DEF libVars, masterVars, kernelVars
<1>1. CASE LibraryNext
  BY <1>1 DEF LibraryNext, SocketEvent, SessionStart, SessionFree, OnSigchld,
              OnUmount, OnModeset, OnHangup
<1>2. CASE KernelNext
  BY <1>2 DEF KernelNext, Ioctl, Fork, Exit, NotifyParent
<1>3. CASE MasterNext
  BY <1>3 DEF MasterNext, SocketHangup, RunCommand, MasterReads,
              ModesetResponse, Sigpipe, Sigchld, SendHeader, Umounted,
              LoopEnds, Modeset, ReadAborts
<1>4. CASE UNCHANGED vars
  BY <1>4 DEF vars
<1> QED
  BY <1>1, <1>2, <1>3, <1>4 DEF Next

(* The library polls its socket until it hears of the end.                 *)
FreedInv == libOpen /\ exits = 0 => fdReg

LEMMA NextFreedInv ==
  ASSUME TypeOK, FreedInv, [Next]_vars
  PROVE  FreedInv'
<1>1. OnUmount \/ OnHangup => exits' # 0
  BY CallsCount
<1>2. exits' = 0 => exits = 0
  BY <1>1, Frames
<1>3. libOpen' => libOpen
  BY UserFrames DEF SessionFree
<1>4. SessionFree => ~libOpen'
  BY DEF SessionFree
<1> QED
  BY <1>1, <1>2, <1>3, <1>4, UserFrames DEF FreedInv

(* The end of the session: until the hang-up of its mount is handled the   *)
(* mount is watched.  The GOT_UMOUNT that follows is lost only behind a    *)
(* GOT_SIGCHLD: nobody is left whose ioctl could be on its way out.        *)
EndInv ==
  /\ born # {} => ~mounted
  /\ mounted => umountReg
  /\ sess => umountReg /\ ~mounted
  /\ ~umountReg => Heard("GOT_UMOUNT", exits)
  /\ Lost("GOT_UMOUNT") => sigchlds # 0 \/ exits # 0

LEMMA EndIsLostBehindExit ==
  ASSUME TypeOK, OverInv, WaitingInv, SentInv, [LiveNext]_liveVars,
         ~Lost("GOT_UMOUNT"), Lost("GOT_UMOUNT")'
  PROVE  OnSigchld \/ OnUmount
<1> USE DEF TypeOK, SocketTypes
<1>1. LiveNext /\ [Next]_vars
  BY LiveFrames DEF liveVars, Lost
<1>2. PICK m \in lost' : m.type = "GOT_UMOUNT"
  BY DEF Lost
<1>3. m \notin lost
  BY <1>2 DEF Lost
<1>4. m \notin Behind(toMaster, toMaster')
  <2>1. \A i \in 2..Len(toMaster) : toMaster[i].type # "GOT_UMOUNT"
    BY MessageInType
  <2> QED
    BY <1>2, <2>1 DEF Behind
<1>5. libOpen' /\ m \in Behind(toLib, toLib')
  BY <1>1, <1>2, <1>3, <1>4 DEF LiveNext
<1>6. PICK i \in 2..Len(toLib) : toLib' = <<>> /\ toLib[i] = m
  BY <1>5 DEF Behind
<1>7. InToLib("GOT_UMOUNT")
  BY <1>2, <1>6 DEF InToLib
<1>8. toLib # <<>> /\ Head(toLib) = toLib[1] /\ Head(toLib) \in MessageOut
        /\ 1 \in 1..Len(toLib)
  BY <1>6
<1>9. Head(toLib).type # "MODESET_IOCTL"
  <2> SUFFICES ASSUME Head(toLib).type = "MODESET_IOCTL" PROVE FALSE
    OBVIOUS
  <2>1. OnModeset
    BY <1>1, <1>5, <1>6, <1>8, LibEmptied
  <2>2. PICK r \in Request : r = Head(toLib).request
    BY <1>8, MessageOutType
  <2>3. Forwarded(r)
    BY <1>8, <2>2 DEF Forwarded
  <2>4. status[r] = "sent"
    BY <2>1, <2>3 DEF OnModeset, LibReads, SentInv
  <2>5. alive # {}
    BY <2>4 DEF WaitingInv, Waiting
  <2> QED
    BY <1>7, <2>5 DEF OverInv, Hup
<1> QED
  BY <1>1, <1>5, <1>6, <1>8, <1>9, LibEmptied, MessageOutType

LEMMA NextEndInv ==
  ASSUME TypeOK, RefInv, OverInv, UserInv, WaitingInv, SentInv, EndInv,
         [LiveNext]_liveVars
  PROVE  EndInv'
<1> USE DEF EndInv
<1>0. [Next]_vars
  BY LiveFrames
<1>1. mounted' => mounted
  BY <1>0, Frames DEF RunCommand, CommandStarts, CloneFails
<1>2. (born # {} => ~mounted)'
  <2>1. ASSUME NEW p \in Proc, NEW q \in Proc, Fork(p, q) PROVE ~mounted'
    BY <1>1, <2>1 DEF Fork, RefInv
  <2>2. RunCommand => ~mounted' \/ UNCHANGED born
    BY DEF RunCommand, CommandStarts, CloneFails
  <2> QED
    BY <1>0, <1>1, <2>1, <2>2, MoreFrames
<1>3. (mounted => umountReg)'
  BY <1>0, <1>1, MoreFrames DEF Umounted, MountHungUp, Hup
<1>4. (sess => umountReg /\ ~mounted)'
  <2>1. CASE RunCommand
    <3>1. UNCHANGED umountReg
      BY <2>1 DEF RunCommand
    <3>2. CASE ~forked /\ CommandStarts
      BY <3>1, <3>2 DEF CommandStarts, RefInv
    <3>3. CASE UNCHANGED <<mounted, sess>>
      BY <3>1, <3>3
    <3> QED
      BY <2>1, <3>2, <3>3 DEF RunCommand, CloneFails
  <2>2. Umounted => ~sess'
    BY DEF Umounted
  <2> QED
    BY <1>0, <1>1, <2>1, <2>2, Frames, MoreFrames
<1>5. (~umountReg => Heard("GOT_UMOUNT", exits))'
  <2>1. CASE Umounted
    <3>1. CASE outside /\ libOpen
      <4>1. toLib' = Append(toLib, [type |-> "GOT_UMOUNT"])
        BY <2>1, <3>1 DEF Umounted, SendHeader
      <4> QED
        BY <4>1, SentReports DEF Heard
    <3>2. CASE ~libOpen
      BY <2>1, <3>2 DEF Umounted, libVars, Heard
    <3> QED
      BY <3>1, <3>2 DEF UserInv
  <2> QED
    BY <1>0, <2>1, MoreFrames, EndStaysHeard
<1>6. (Lost("GOT_UMOUNT") => sigchlds # 0 \/ exits # 0)'
  BY <1>0, CallsCount, EndIsLostBehindExit, Frames
<1> QED
  BY <1>2, <1>3, <1>4, <1>5, <1>6

(* The way of the exit of the child: a SIGCHLD that is pending until it is *)
(* handled, unless the session is over before, then a report.              *)
ChildWayInv ==
  /\ childSt \in {"running", "exiting", "zombie"} => child
  /\ childSt = "zombie" /\ mode = "run" => "SIGCHLD" \in sigs \/ Hup
  /\ childSt = "reaped" /\ childHow = "exit" => Heard("GOT_SIGCHLD", sigchlds)

LEMMA NextChildWayInv ==
  ASSUME TypeOK, RefInv, ChildInv, UserInv, ChildWayInv, [LiveNext]_liveVars
  PROVE  ChildWayInv'
<1> USE DEF ChildWayInv
<1>0. [Next]_vars
  BY LiveFrames
<1>1. Heard("GOT_SIGCHLD", sigchlds) => Heard("GOT_SIGCHLD", sigchlds)'
  BY ExitStaysHeard
<1>2. Hup => Hup'
  BY <1>0, HupIsForEver
<1>3. mode' = "run" => mode = "run"
  BY <1>0, Frames DEF LoopEnds, ReadAborts, Looping
<1>4. CASE RunCommand
  <2>1. UNCHANGED <<childHow, sigs>>
    BY <1>4 DEF RunCommand
  <2>2. \/ childSt' = "running" /\ child'
        \/ UNCHANGED <<childSt, child>>
    BY <1>4 DEF RunCommand, CommandStarts, CloneFails
  <2> QED
    BY <1>1, <1>2, <1>3, <2>1, <2>2
<1>5. CASE NotifyParent
  BY <1>1, <1>2, <1>5 DEF NotifyParent, masterVars
<1>6. ASSUME NEW p \in Proc, NEW how \in {"exit", "kill"}, Exit(p, how)
      PROVE  ChildWayInv'
  <2>1. CASE p = Child
    BY <1>6, <2>1 DEF Exit, ChildInv, masterVars
  <2>2. CASE p # Child
    BY <1>1, <1>2, <1>6, <2>2 DEF Exit, masterVars
  <2> QED
    BY <2>1, <2>2
<1>7. CASE Sigchld
  <2>1. UNCHANGED <<childHow, mode, libOpen>>
    BY <1>7 DEF Sigchld, libVars
  <2>2. CASE ToReap /\ childSt' = "reaped"
    <3>1. CASE WIFEXITED /\ SendHeader([type |-> "GOT_SIGCHLD"], sigs \ {"SIGCHLD"})
      <4>1. CASE outside /\ libOpen
        <5>1. toLib' = Append(toLib, [type |-> "GOT_SIGCHLD"])
          BY <3>1, <4>1 DEF SendHeader
        <5> QED
          BY <2>2, <5>1, SentReports DEF Heard
      <4>2. CASE ~libOpen
        BY <2>1, <2>2, <4>2 DEF Heard
      <4> QED
        BY <4>1, <4>2 DEF UserInv
    <3>2. CASE ~WIFEXITED
      BY <2>1, <2>2, <3>2 DEF WIFEXITED
    <3> QED
      BY <1>7, <2>2, <3>1, <3>2 DEF Sigchld
  <2>3. CASE ~ToReap /\ UNCHANGED <<childSt, child>>
    BY <1>1, <1>2, <2>1, <2>3 DEF ToReap
  <2> QED
    BY <1>7, <2>2, <2>3 DEF Sigchld
<1>8. CASE /\ UNCHANGED <<childSt, childHow, child>>
           /\ "SIGCHLD" \in sigs => "SIGCHLD" \in sigs'
  BY <1>1, <1>2, <1>3, <1>8
<1> QED
  BY <1>0, <1>4, <1>5, <1>6, <1>7, <1>8, Frames, MoreFrames

-----------------------------------------------------------------------------
(* A handler whose turn is next: the conditions under which one of the     *)
(* event loops takes a step (Fairness of SessionLive).                     *)
LibraryHears == fdReg /\ (mode # "run" \/ toLib # <<>>)
MasterHears == Looping /\ libOpen /\ toMaster # <<>>

(* An ioctl waits for a step that is possible: the master reads it from    *)
(* the card, the library reads it, or the master reads its response.       *)
IoctlsMoveOn ==
  \A r \in Request : Waiting(r) /\ libOpen /\ ~LostFor(r) =>
    \/ Looping /\ status[r] = "queued"
    \/ LibraryHears /\ Forwarded(r)
    \/ MasterHears /\ Responded(r)

(* So does the exit of the child.                                          *)
ExitMovesOn ==
  /\ childSt \in {"exiting", "zombie", "reaped"} /\ childHow = "exit"
  /\ libOpen /\ sigchlds = 0 /\ exits = 0 /\ ~Lost("GOT_SIGCHLD")
  => \/ childSt = "exiting"
     \/ fdReg /\ mode # "run"
     \/ Looping /\ ("SIGCHLD" \in sigs \/ MountHungUp)
     \/ LibraryHears /\ (InToLib("GOT_SIGCHLD") \/ InToLib("GOT_UMOUNT"))

(* And the end of the session.                                             *)
EndMovesOn ==
  born # {} /\ alive = {} /\ libOpen /\ exits = 0 /\ ~Lost("GOT_UMOUNT")
  => \/ fdReg /\ mode # "run"
     \/ Looping /\ MountHungUp
     \/ LibraryHears /\ InToLib("GOT_UMOUNT")

(* And the master that nobody needs: it drops one of its two references,   *)
(* or its loop is over.                                                    *)
MasterMovesOn ==
  mode = "run" /\ ~libOpen /\ alive = {} =>
    (Looping /\ (outside \/ MountHungUp)) \/ ~(sess \/ outside)

NothingIsStuck == IoctlsMoveOn /\ ExitMovesOn /\ EndMovesOn /\ MasterMovesOn

LiveInv == /\ TypeOK /\ RefInv /\ ChildInv /\ ReportInv /\ OverInv /\ UserInv
           /\ IoctlInv /\ WaitingInv /\ SentInv /\ WayInv /\ FreedInv
           /\ EndInv /\ ChildWayInv

LEMMA LiveInvInit == LiveInit => LiveInv
<1> SUFFICES ASSUME LiveInit PROVE LiveInv
  OBVIOUS
<1>1. Init
  BY DEF LiveInit
<1>2. RefInv /\ ChildInv /\ ReportInv /\ OverInv
  BY <1>1, SessionAssumption
     DEF Init, RefInv, ChildInv, ReportInv, OverInv, InToLib
<1>3. IoctlInv /\ UserInv
  BY <1>1 DEF Init, IoctlInv, UserInv, Forwarded, Responded, InToLib
<1>4. WaitingInv /\ SentInv /\ WayInv
  BY <1>1 DEF Init, WaitingInv, SentInv, WayInv, Waiting, Forwarded
<1>5. FreedInv /\ ChildWayInv
  BY <1>1 DEF Init, FreedInv, ChildWayInv
<1>6. EndInv
  BY <1>1 DEF LiveInit, Init, EndInv, Lost
<1> QED
  BY <1>1, <1>2, <1>3, <1>4, <1>5, <1>6, InitTypeOK DEF LiveInv

LEMMA LiveInvStep == LiveInv /\ [LiveNext]_liveVars => LiveInv'
<1> SUFFICES ASSUME LiveInv, [LiveNext]_liveVars PROVE LiveInv'
  OBVIOUS
<1> USE DEF LiveInv
<1>1. [Next]_vars
  BY LiveFrames
<1>2. (TypeOK /\ RefInv /\ ChildInv /\ ReportInv /\ OverInv /\ UserInv /\ IoctlInv)'
  BY <1>1, NextTypeOK, NextRefInv, NextChildInv, NextReportInv, NextOverInv,
     NextUserInv, NextIoctlInv
<1>3. (WaitingInv /\ SentInv /\ WayInv /\ FreedInv)'
  BY <1>1, NextWaitingInv, NextSentInv, NextWayInv, NextFreedInv
<1>4. (EndInv /\ ChildWayInv)'
  BY NextEndInv, NextChildWayInv
<1> QED
  BY <1>2, <1>3, <1>4

LEMMA NotEmpty ==
  ASSUME TypeOK
  PROVE  /\ \A type : InToLib(type) => toLib # <<>>
         /\ \A r : Forwarded(r) => toLib # <<>>
         /\ \A r : Responded(r) => toMaster # <<>>
BY DEF InToLib, Forwarded, Responded, TypeOK, SocketTypes

LEMMA LiveInvMoves ==
  ASSUME LiveInv
  PROVE  NothingIsStuck
<1> USE DEF LiveInv
<1>1. libOpen => outside
  BY DEF UserInv
<1>2. IoctlsMoveOn
  <2> SUFFICES ASSUME NEW r \in Request, Waiting(r), libOpen, ~LostFor(r)
               PROVE  \/ Looping /\ status[r] = "queued"
                      \/ LibraryHears /\ Forwarded(r)
                      \/ MasterHears /\ Responded(r)
    BY DEF IoctlsMoveOn
  <2>1. mode = "run" /\ alive # {}
    BY DEF WaitingInv
  <2>2. Looping /\ fdReg
    <3>1. exits = 0
      BY <2>1 DEF OverInv, Hup
    <3> QED
      BY <1>1, <2>1, <3>1 DEF Looping, FreedInv
  <2> QED
    BY <2>2, NotEmpty DEF Waiting, WayInv, LibraryHears, MasterHears
<1>3. EndMovesOn
  <2> SUFFICES ASSUME born # {}, alive = {}, libOpen, exits = 0,
                      ~Lost("GOT_UMOUNT"), mode = "run"
               PROVE  \/ Looping /\ MountHungUp
                      \/ LibraryHears /\ InToLib("GOT_UMOUNT")
    BY DEF EndMovesOn, FreedInv
  <2>1. fdReg /\ Looping /\ Hup
    BY <1>1 DEF FreedInv, Looping, EndInv, Hup
  <2> QED
    BY <2>1, NotEmpty DEF EndInv, Heard, MountHungUp, LibraryHears
<1>4. ExitMovesOn
  <2> SUFFICES ASSUME childSt \in {"zombie", "reaped"}, childHow = "exit",
                      libOpen, sigchlds = 0, exits = 0, ~Lost("GOT_SIGCHLD"),
                      mode = "run"
               PROVE  \/ Looping /\ ("SIGCHLD" \in sigs \/ MountHungUp)
                      \/ LibraryHears /\ (InToLib("GOT_SIGCHLD")
                                            \/ InToLib("GOT_UMOUNT"))
    BY DEF ExitMovesOn, FreedInv
  <2>1. fdReg /\ Looping
    BY <1>1 DEF FreedInv, Looping
  <2>2. ~Lost("GOT_UMOUNT")
    BY DEF EndInv
  <2>3. CASE Hup
    BY <2>1, <2>2, <2>3, NotEmpty DEF EndInv, Heard, MountHungUp, LibraryHears
  <2>4. CASE childSt = "zombie" /\ ~Hup
    BY <2>1, <2>4 DEF ChildWayInv
  <2>5. CASE childSt = "reaped"
    BY <2>1, <2>5, NotEmpty DEF ChildWayInv, Heard, LibraryHears
  <2> QED
    BY <2>3, <2>4, <2>5
<1>5. MasterMovesOn
  BY DEF MasterMovesOn, Looping, EndInv, MountHungUp, Hup
<1> QED
  BY <1>2, <1>3, <1>4, <1>5 DEF NothingIsStuck

(* While the library is there nothing of what SessionLive says has to      *)
(* happen is stuck, in any session: an ioctl, the exit of the child, the   *)
(* end of the session and that of an unneeded master each wait for a step  *)
(* that is possible, or for a message that was lost behind another         *)
(* (session.c:328, main.c:431).                                            *)
THEOREM NothingGetsStuck == LiveSpec => []NothingIsStuck
BY LiveInvInit, LiveInvStep, LiveInvMoves, PTL DEF LiveSpec
=============================================================================
