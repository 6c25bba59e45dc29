--------------------------- MODULE XSubsessionProofs ---------------------------
(***************************************************************************)
(* The program and its session for any number of processes and any room in *)
(* the socket.  Library and master do not block on each other because what *)
(* is in flight between them is one message for each of several processes: *)
(* to fill both directions and both hands takes 2 * Room + 2 of them.      *)
(***************************************************************************)
EXTENDS XSubsession, FiniteSetTheorems, TLAPS

SafeSpec == Init /\ [][Next]_vars

AnyMessage == [type : Types, p : Proc]

-----------------------------------------------------------------------------
(* Type correctness.                                                       *)

(* Where the two ends are in their code, and what they hold in their hands.*)
HandsOK ==
  /\ reply \in Seq(AnyMessage) /\ message \in Seq(AnyMessage)
  /\ pc = "modeset" => Len(reply) = 1
  /\ pc # "modeset" => reply = <<>>
  /\ mpc = "send" => Len(message) = 1
  /\ mpc # "send" => message = <<>>

TypeInv == TypeOK /\ HandsOK
             /\ (pc = "setup" => at \in 1..Len(Up) /\ mpc = "none")
             /\ (pc = "undo" => at \in 1..Len(Down))

LEMMA LadderLengths == Len(Up) = 13 /\ Len(Down) = 9
BY DEF Up, Down

(* What is left after a read.                                              *)
LEMMA SuffixIs ==
  ASSUME NEW M, NEW s \in Seq(M), NEW t, s # <<>>, Reads(s, t)
  PROVE  /\ t \in Seq(M) /\ Len(t) <= Len(s)
         /\ \E n \in 1..Len(s) : \A i \in 1..Len(t) :
               t[i] = s[i + n] /\ i + n \in 1..Len(s)
<1>1. PICK n \in 1..Len(s) : t = SubSeq(s, n + 1, Len(s))
  BY DEF Reads
<1>2. n \in Nat /\ Len(s) \in Nat /\ n >= 1 /\ n <= Len(s)
  OBVIOUS
<1>3. t \in Seq(M) /\ Len(t) = Len(s) - n
  BY <1>1, <1>2
<1>4. \A i \in 1..Len(t) : t[i] = s[i + n] /\ i + n \in 1..Len(s)
  BY <1>1, <1>2, <1>3
<1> QED
  BY <1>2, <1>3, <1>4

LEMMA OneElement ==
  ASSUME NEW M
  PROVE  /\ \A s \in Seq(M) : s # <<>> =>
              /\ Len(s) \in Nat /\ 1 \in 1..Len(s)
              /\ Head(s) = s[1] /\ s[1] \in M
         /\ \A x \in M : /\ <<x>> \in Seq(M) /\ Len(<<x>>) = 1
                        /\ <<x>>[1] = x /\ Head(<<x>>) = x
         /\ \A s \in Seq(M) : Len(s) = 1 => s # <<>> /\ Head(s) \in M /\ Head(s) = s[1]
OBVIOUS

(* Every label is one of the clean-up's.                                   *)
LEMMA LabelIs ==
  /\ Label("e_epoll_create") = 9 /\ Label("e_open_display") = 8
  /\ Label("e_egl_display") = 7 /\ Label("e_egl_init") = 7
  /\ Label("e_choose_egl_config") = 6 /\ Label("e_get_x_visual") = 6
  /\ Label("e_get_visual_info") = 6 /\ Label("e_egl_surface") = 5
  /\ Label("e_bind_api") = 4 /\ Label("e_egl_context") = 4
  /\ Label("e_get_proc_address") = 3 /\ Label("e_register_x") = 3
  /\ Label("e_session") = 2
<1>1. ASSUME NEW l PROVE Label(l) = CHOOSE i \in 1..9 : l \in Down[i].labels
  BY LadderLengths DEF Label
<1>2. /\ Down[1].labels = {} /\ Down[2].labels = {"e_session"}
      /\ Down[3].labels = {"e_register_x", "e_get_proc_address"}
      /\ Down[4].labels = {"e_egl_context", "e_bind_api"}
      /\ Down[5].labels = {"e_egl_surface"}
      /\ Down[6].labels = {"e_get_visual_info", "e_get_x_visual", "e_choose_egl_config"}
      /\ Down[7].labels = {"e_egl_init", "e_egl_display"}
      /\ Down[8].labels = {"e_open_display"} /\ Down[9].labels = {"e_epoll_create"}
  BY DEF Down, Undo
<1>3. \A i \in 1..9 : i \in {1, 2, 3, 4, 5, 6, 7, 8, 9}
  OBVIOUS
<1>a. Label("e_epoll_create") = 9
  BY <1>1, <1>2, <1>3
<1>b. Label("e_open_display") = 8
  BY <1>1, <1>2, <1>3
<1>c. Label("e_egl_display") = 7
  BY <1>1, <1>2, <1>3
<1>d. Label("e_egl_init") = 7
  BY <1>1, <1>2, <1>3
<1>e. Label("e_choose_egl_config") = 6
  BY <1>1, <1>2, <1>3
<1>f. Label("e_get_x_visual") = 6
  BY <1>1, <1>2, <1>3
<1>g. Label("e_get_visual_info") = 6
  BY <1>1, <1>2, <1>3
<1>h. Label("e_egl_surface") = 5
  BY <1>1, <1>2, <1>3
<1>i. Label("e_bind_api") = 4
  BY <1>1, <1>2, <1>3
<1>j. Label("e_egl_context") = 4
  BY <1>1, <1>2, <1>3
<1>k. Label("e_get_proc_address") = 3
  BY <1>1, <1>2, <1>3
<1>l. Label("e_register_x") = 3
  BY <1>1, <1>2, <1>3
<1>m. Label("e_session") = 2
  BY <1>1, <1>2, <1>3
<1> QED
  BY <1>a, <1>b, <1>c, <1>d, <1>e, <1>f, <1>g, <1>h, <1>i, <1>j, <1>k, <1>l, <1>m

LEMMA LabelsAreSteps ==
  ASSUME NEW i \in 1..Len(Up)
  PROVE  Label(Up[i].label) \in 1..Len(Down)
<1>1. i \in {1, 2, 3, 4, 5, 6, 7, 8, 9, 10, 11, 12, 13}
  BY LadderLengths
<1>2. Up[i].label \in {"e_epoll_create", "e_open_display", "e_egl_display",
         "e_egl_init", "e_choose_egl_config", "e_get_x_visual", "e_get_visual_info",
         "e_egl_surface", "e_bind_api", "e_egl_context", "e_get_proc_address",
         "e_register_x", "e_session"}
  BY <1>1 DEF Up, Step
<1> QED
  BY <1>2, LabelIs, LadderLengths

LEMMA TypeInit == Init => TypeInv
<1> SUFFICES ASSUME Init PROVE TypeInv
  OBVIOUS
<1> USE XSubsessionAssumption
<1>1. TypeOK
  <2>1. 1 \in 1..(Len(Up) + Len(Down)) /\ 0 <= Room
    BY LadderLengths
  <2>2. /\ <<>> \in Seq([type : Types, p : Proc]) /\ Len(<<>>) = 0
        /\ [p \in Proc |-> "unborn"] \in [Proc -> {"unborn", "runs", "asks", "waits", "gone"}]
    OBVIOUS
  <2> QED
    BY <2>1, <2>2 DEF Init, TypeOK
<1>2. HandsOK
  BY DEF Init, HandsOK
<1> QED
  BY <1>1, <1>2, LadderLengths DEF Init, TypeInv

(* The library's send, wherever it is called.                              *)
LEMMA LibSendsType ==
  ASSUME TypeOK, NEW m \in AnyMessage, LibSends(m)
  PROVE  /\ toMaster' \in Seq(AnyMessage) /\ Len(toMaster') <= Room
         /\ pc' \in {"drain", "killed"}
<1> USE XSubsessionAssumption
<1>1. CASE mpc # "gone" /\ Len(toMaster) < Room
  <2>1. toMaster \in Seq(AnyMessage) /\ Len(toMaster) \in Nat
    BY DEF TypeOK, AnyMessage
  <2>2. CASE UNCHANGED toMaster
    BY <1>1, <2>1, <2>2 DEF LibSends
  <2>3. CASE toMaster' = Append(toMaster, m)
    BY <1>1, <2>1, <2>3 DEF LibSends
  <2> QED
    BY <2>2, <2>3 DEF LibSends
<1>2. CASE ~(mpc # "gone" /\ Len(toMaster) < Room)
  BY <1>2 DEF LibSends, TypeOK, AnyMessage
<1> QED
  BY <1>1, <1>2

LEMMA ProgramType ==
  ASSUME TypeInv, Program
  PROVE  TypeInv'
<1> USE XSubsessionAssumption
<1>0. /\ Len(Up) = 13 /\ Len(Down) = 9
      /\ reply \in Seq(AnyMessage) /\ toLib \in Seq(AnyMessage)
      /\ toMaster \in Seq(AnyMessage) /\ Len(toLib) <= Room
      /\ pc = "modeset" => Len(reply) = 1
      /\ pc # "modeset" => reply = <<>>
      /\ pc = "setup" => at \in 1..13
      /\ pc = "undo" => at \in 1..9
      /\ at \in 1..22
  BY LadderLengths DEF TypeInv, TypeOK, HandsOK, AnyMessage
<1>1. CASE StepSucceeds
  <2>1. /\ pc' = "setup" => at' \in 1..13
        /\ pc' # "undo" /\ pc' # "modeset" /\ pc # "modeset" /\ at' \in 1..22
    BY <1>0, <1>1 DEF StepSucceeds
  <2>2. /\ pc' \in {"setup", "start"} /\ mpc' \in {mpc, "loop"} /\ mpc' # "send"
        /\ UNCHANGED <<toExit, reply, toLib, toMaster, message, outside, st, reported>>
        /\ message' = <<>>
        /\ pc' = "setup" => mpc' = "none"
    BY <1>1 DEF StepSucceeds, TypeInv, TypeOK, HandsOK
  <2>3. /\ pc' = "setup" => at' \in 1..Len(Up) /\ mpc' = "none"
        /\ pc' = "undo" => at' \in 1..Len(Down)
        /\ at' \in 1..(Len(Up) + Len(Down))
    BY <1>0, <2>1, <2>2
  <2> QED
    BY <2>1, <2>2, <2>3 DEF TypeInv, TypeOK, HandsOK
<1>2. CASE StepFails
  <2>1. Label(Up[at].label) \in 1..Len(Down)
    BY <1>2, LabelsAreSteps DEF StepFails, TypeInv
  <2> QED
    BY <1>0, <1>2, <2>1 DEF StepFails, TypeInv, TypeOK, HandsOK, masterVars
<1>3. CASE Start
  <2>1. Message("RUN_COMMAND", Child) \in AnyMessage
    BY DEF Message, AnyMessage, Types
  <2>2. /\ toMaster' \in Seq(AnyMessage) /\ Len(toMaster') <= Room
        /\ pc' \in {"drain", "killed"}
    BY <1>3, <2>1, LibSendsType DEF Start, TypeInv
  <2>3. UNCHANGED <<at, held, toExit, reply, toLib, masterVars>> /\ pc = "start"
    BY <1>3 DEF Start
  <2> QED
    BY <1>0, <2>2, <2>3 DEF TypeInv, TypeOK, HandsOK, masterVars, AnyMessage
<1>4. CASE SocketReadable
  <2>1. toLib' \in Seq(AnyMessage) /\ Len(toLib') <= Len(toLib)
    BY <1>0, <1>4, SuffixIs DEF SocketReadable
  <2>2. Len(toLib') <= Room
    BY <1>0, <2>1
  <2>3. Head(toLib) \in AnyMessage
    BY <1>0, <1>4 DEF SocketReadable
  <2>4. Message("MODESET_IOCTL_RESPONSE", Head(toLib).p) \in AnyMessage
    BY <2>3 DEF Message, AnyMessage, Types
  <2>5. /\ reply' \in Seq(AnyMessage)
        /\ pc' = "modeset" => Len(reply') = 1
        /\ pc' # "modeset" => reply' = <<>>
    <3>1. \/ pc' \in {"drain", "on_exit"} /\ reply' = reply
          \/ /\ pc' = "modeset"
             /\ reply' = <<Message("MODESET_IOCTL_RESPONSE", Head(toLib).p)>>
      BY <1>4 DEF SocketReadable
    <3>2. reply = <<>>
      BY <1>0, <1>4 DEF SocketReadable
    <3>3. ASSUME NEW m \in AnyMessage PROVE <<m>> \in Seq(AnyMessage) /\ Len(<<m>>) = 1
      BY OneElement
    <3>4. <<>> \in Seq(AnyMessage)
      OBVIOUS
    <3> HIDE DEF AnyMessage
    <3> QED
      BY <2>4, <3>1, <3>2, <3>3, <3>4
  <2>7. pc' \in {"drain", "on_exit", "modeset"} /\ toExit' \in BOOLEAN
    BY <1>4 DEF SocketReadable, TypeInv, TypeOK
  <2>6. UNCHANGED <<at, held, toMaster, masterVars>>
    BY <1>4 DEF SocketReadable
  <2> QED
    BY <1>0, <2>1, <2>2, <2>5, <2>6, <2>7 DEF TypeInv, TypeOK, HandsOK, masterVars, AnyMessage
<1>5. CASE SocketHungUp
  BY <1>0, <1>5 DEF SocketHungUp, TypeInv, TypeOK, HandsOK, masterVars
<1>6. CASE ExitCallback
  BY <1>0, <1>6 DEF ExitCallback, TypeInv, TypeOK, HandsOK, masterVars
<1>7. CASE Unregister
  BY <1>0, <1>7 DEF Unregister, TypeInv, TypeOK, HandsOK, masterVars
<1>8. CASE Reply
  <2>1. reply # <<>> /\ Head(reply) \in AnyMessage
    <3>1. pc = "modeset"
      BY <1>8 DEF Reply
    <3>2. reply \in Seq(AnyMessage) /\ Len(reply) = 1
      BY <1>0, <3>1
    <3> QED
      BY <3>2, OneElement
  <2>2. /\ toMaster' \in Seq(AnyMessage) /\ Len(toMaster') <= Room
        /\ pc' \in {"drain", "killed"}
    BY <1>8, <2>1, LibSendsType DEF Reply, TypeInv
  <2>3. UNCHANGED <<at, held, toExit, toLib, masterVars>> /\ reply' = <<>>
    BY <1>8 DEF Reply
  <2> QED
    BY <1>0, <2>2, <2>3 DEF TypeInv, TypeOK, HandsOK, masterVars, AnyMessage
<1>9. CASE Draw
  <2>1. /\ pc' \in {"drain", "undo"} /\ pc = "drain"
        /\ pc' = "undo" => at' \in 1..9
        /\ at' \in 1..22
    <3>1. /\ pc = "drain"
          /\ (pc' = "undo" /\ at' = 1) \/ (pc' = pc /\ at' = at)
      BY <1>9 DEF Draw
    <3>2. at \in 1..22
      BY <1>0
    <3> QED
      BY <3>1, <3>2
  <2>2. UNCHANGED <<toExit, reply, toLib, toMaster, masterVars>>
    BY <1>9 DEF Draw
  <2> QED
    BY <1>0, <2>1, <2>2 DEF TypeInv, TypeOK, HandsOK, masterVars
<1>10. CASE UndoStep
  <2>1. /\ pc' \in {"undo", "done"} /\ pc = "undo"
        /\ pc' = "undo" => at' \in 1..9
        /\ at' \in 1..22
    BY <1>0, <1>10 DEF UndoStep
  <2>2. toLib' \in Seq(AnyMessage) /\ Len(toLib') <= Room
    BY <1>0, <1>10 DEF UndoStep
  <2>3. UNCHANGED <<toExit, reply, toMaster, masterVars>>
    BY <1>10 DEF UndoStep
  <2> QED
    BY <1>0, <2>1, <2>2, <2>3 DEF TypeInv, TypeOK, HandsOK, masterVars, AnyMessage
<1> QED
  BY <1>1, <1>2, <1>3, <1>4, <1>5, <1>6, <1>7, <1>8, <1>9, <1>10 DEF Program, Loop

LEMMA MasterType ==
  ASSUME TypeInv, Master \/ MasterEnds
  PROVE  TypeInv'
<1> USE XSubsessionAssumption
<1>0. /\ message \in Seq(AnyMessage) /\ toLib \in Seq(AnyMessage)
      /\ toMaster \in Seq(AnyMessage) /\ Len(toMaster) <= Room
      /\ Len(toLib) <= Room
      /\ mpc = "send" => Len(message) = 1
      /\ mpc # "send" => message = <<>>
      /\ st \in [Proc -> {"unborn", "runs", "asks", "waits", "gone"}]
  BY DEF TypeInv, TypeOK, HandsOK, AnyMessage
<1>1. CASE MasterReads
  <2>1. toMaster' \in Seq(AnyMessage) /\ Len(toMaster') <= Len(toMaster)
    BY <1>0, <1>1, SuffixIs DEF MasterReads
  <2>2. Len(toMaster') <= Room
    BY <1>0, <2>1
  <2>3. st' \in [Proc -> {"unborn", "runs", "asks", "waits", "gone"}]
    BY <1>0, <1>1 DEF MasterReads
  <2>4. UNCHANGED <<progVars, toLib, mpc, message, outside, reported>>
    BY <1>1 DEF MasterReads
  <2> QED
    BY <1>0, <2>1, <2>2, <2>3, <2>4 DEF TypeInv, TypeOK, HandsOK, progVars, AnyMessage
<1>2. ASSUME NEW p \in Proc, Modeset(p) PROVE TypeInv'
  <2>1. Message("MODESET_IOCTL", p) \in AnyMessage
    BY DEF Message, AnyMessage, Types
  <2>2. /\ message' \in Seq(AnyMessage)
        /\ mpc' = "send" => Len(message') = 1
        /\ mpc' # "send" => message' = <<>>
        /\ mpc' \in {"loop", "send"}
    <3>1. /\ mpc = "loop"
          /\ \/ mpc' = "send" /\ message' = <<Message("MODESET_IOCTL", p)>>
             \/ mpc' = mpc /\ message' = message
      BY <1>2 DEF Modeset
    <3>2. <<Message("MODESET_IOCTL", p)>> \in Seq(AnyMessage)
            /\ Len(<<Message("MODESET_IOCTL", p)>>) = 1
      BY <2>1, OneElement
    <3> QED
      BY <1>0, <3>1, <3>2
  <2>4. st' \in [Proc -> {"unborn", "runs", "asks", "waits", "gone"}]
    BY <1>0, <1>2 DEF Modeset
  <2>3. UNCHANGED <<progVars, toLib, toMaster, outside, reported>>
    BY <1>2 DEF Modeset
  <2> QED
    BY <1>2, <2>2, <2>3, <2>4 DEF Modeset, TypeInv, TypeOK, HandsOK, progVars
<1>3. ASSUME NEW type \in {"GOT_SIGCHLD", "GOT_UMOUNT"}, NEW p \in Proc, Report(type, p),
             mpc = "loop"
      PROVE TypeInv'
  <2>1. Message(type, p) \in AnyMessage
    BY DEF Message, AnyMessage, Types
  <2>2. /\ message' \in Seq(AnyMessage) /\ Len(message') = 1 /\ mpc' = "send"
        /\ reported' \subseteq {"GOT_SIGCHLD", "GOT_UMOUNT"}
    BY <1>3, <2>1 DEF Report, TypeInv, TypeOK
  <2>3. UNCHANGED <<progVars, toLib, toMaster, outside, st>>
    BY <1>3 DEF Report
  <2> QED
    BY <1>3, <2>2, <2>3 DEF TypeInv, TypeOK, HandsOK, progVars
<1>4. CASE MasterSends
  <2>1. message # <<>> /\ Head(message) \in AnyMessage
    <3>1. mpc = "send"
      BY <1>4 DEF MasterSends
    <3>2. message \in Seq(AnyMessage) /\ Len(message) = 1
      BY <1>0, <3>1
    <3> QED
      BY <3>2, OneElement
  <2>2. toLib' \in Seq(AnyMessage) /\ Len(toLib') <= Room
    <3>1. \/ Len(toLib) < Room /\ toLib' = Append(toLib, Head(message))
          \/ toLib' = toLib
      BY <1>4 DEF MasterSends
    <3> QED
      BY <1>0, <2>1, <3>1
  <2>3. st' \in [Proc -> {"unborn", "runs", "asks", "waits", "gone"}]
    BY <1>0, <1>4 DEF MasterSends
  <2>4. message' = <<>> /\ mpc' = "loop" /\ mpc = "send"
        /\ UNCHANGED <<progVars, toMaster, outside, reported>>
    BY <1>4 DEF MasterSends
  <2> QED
    BY <2>2, <2>3, <2>4 DEF TypeInv, TypeOK, HandsOK, progVars, AnyMessage
<1>5. CASE Hangup
  BY <1>5 DEF Hangup, TypeInv, TypeOK, HandsOK, progVars
<1>6. CASE MasterEnds
  BY <1>6 DEF MasterEnds, TypeInv, TypeOK, HandsOK, progVars
<1> QED
  BY <1>1, <1>2, <1>3, <1>4, <1>5, <1>6 DEF Master, Sigchld, Umounted

LEMMA KernelType ==
  ASSUME TypeInv, Kernel
  PROVE  TypeInv'
<1>1. \E p \in Proc : Move(p, "runs", "asks") \/ Move(p, "unborn", "runs") \/ Move(p, "runs", "gone")
  BY DEF Kernel
<1> QED
  BY <1>1 DEF Move, TypeInv, TypeOK, HandsOK, progVars

LEMMA TypeStep == TypeInv /\ [Next]_vars => TypeInv'
<1> SUFFICES ASSUME TypeInv, [Next]_vars PROVE TypeInv'
  OBVIOUS
<1>1. CASE UNCHANGED vars
  BY <1>1 DEF vars, progVars, masterVars, TypeInv, TypeOK, HandsOK
<1> QED
  BY <1>1, ProgramType, MasterType, KernelType DEF Next, Terminated

(* Every variable keeps its type, and an end that is about to send holds   *)
(* one message.                                                            *)
THEOREM ProgramTypeCorrect == Spec => [](TypeOK /\ HandsOK)
<1>1. Spec => []TypeInv
  BY TypeInit, TypeStep, PTL DEF Spec
<1>2. TypeInv => TypeOK /\ HandsOK
  BY DEF TypeInv
<1> QED
  BY <1>1, <1>2, PTL

-----------------------------------------------------------------------------
(* What is in flight: every message is that of a process which can do      *)
(* nothing before it has arrived, so that there is one of each at a time.  *)

(* The owner of m, when the processes are in the states s, the reports r   *)
(* have been sent, and the program is at c.                                *)
Owned(m, s, r, c) ==
  /\ m.type = "RUN_COMMAND" => m.p = Child /\ s[Child] = "unborn" /\ c # "start"
  /\ m.type \in {"MODESET_IOCTL", "MODESET_IOCTL_RESPONSE"} => s[m.p] = "waits"
  /\ m.type = "GOT_SIGCHLD" => m.p = Child /\ s[Child] = "gone" /\ "GOT_SIGCHLD" \in r
  /\ m.type = "GOT_UMOUNT" =>
       /\ s[m.p] = "gone" /\ "GOT_UMOUNT" \in r
       /\ m.p = Child => "GOT_SIGCHLD" \notin r

AllOwned(w, s, r, c) == \A i \in 1..Len(w) : Owned(w[i], s, r, c)

(* No two messages of one sequence, and none of two, have the same owner.  *)
Single(w) == \A i, j \in 1..Len(w) : i # j => w[i].p # w[j].p
Apart(w, v) == \A i \in 1..Len(w), j \in 1..Len(v) : w[i].p # v[j].p

OwnersOK ==
  /\ AllOwned(toLib, st, reported, pc) /\ AllOwned(toMaster, st, reported, pc)
  /\ AllOwned(reply, st, reported, pc) /\ AllOwned(message, st, reported, pc)
ApartOK == /\ Single(toLib) /\ Single(toMaster)
           /\ Apart(toLib, toMaster) /\ Apart(toLib, reply) /\ Apart(toLib, message)
           /\ Apart(toMaster, reply) /\ Apart(toMaster, message)
           /\ Apart(reply, message)

(* Nothing is in flight, and nobody lives, before session_start; nobody    *)
(* lives before the child, or when the mount has gone.                     *)
QuietOK == /\ pc \in {"setup", "start"} =>
                 toMaster = <<>> /\ toLib = <<>> /\ st[Child] = "unborn"
           /\ st[Child] = "unborn" => \A p \in Proc : st[p] = "unborn"
           /\ "GOT_UMOUNT" \in reported => Alive = {} /\ st[Child] = "gone"

FlightInv == OwnersOK /\ ApartOK /\ QuietOK

LEMMA OwnedStays ==
  ASSUME NEW w, NEW s, NEW t, NEW r, NEW c, NEW d,
         AllOwned(w, s, r, c),
         \A i \in 1..Len(w) : t[w[i].p] = s[w[i].p],
         d = "start" => c = "start"
  PROVE  AllOwned(w, t, r, d)
BY DEF AllOwned, Owned

LEMMA NoneOwned ==
  ASSUME NEW s, NEW r, NEW c
  PROVE  /\ AllOwned(<<>>, s, r, c) /\ Single(<<>>)
         /\ \A w : Apart(<<>>, w) /\ Apart(w, <<>>)
BY DEF AllOwned, Single, Apart

LEMMA OneOwned ==
  ASSUME NEW m, NEW s, NEW r, NEW c, Owned(m, s, r, c)
  PROVE  AllOwned(<<m>>, s, r, c) /\ Single(<<m>>)
<1>1. Len(<<m>>) = 1 /\ <<m>>[1] = m /\ \A i \in 1..1 : i = 1
  OBVIOUS
<1> QED
  BY <1>1 DEF AllOwned, Single

(* A message whose owner has no other one can join a sequence.             *)
LEMMA AppendOwned ==
  ASSUME NEW w \in Seq(AnyMessage), NEW m \in AnyMessage, NEW s, NEW r, NEW c,
         AllOwned(w, s, r, c), Owned(m, s, r, c)
  PROVE  AllOwned(Append(w, m), s, r, c)
<1>1. /\ Len(w) \in Nat /\ Len(Append(w, m)) = Len(w) + 1
      /\ \A i \in 1..Len(w) : Append(w, m)[i] = w[i]
      /\ Append(w, m)[Len(w) + 1] = m
  BY DEF AnyMessage
<1>2. \A i \in 1..(Len(w) + 1) : i \in 1..Len(w) \/ i = Len(w) + 1
  BY <1>1
<1> QED
  BY <1>1, <1>2 DEF AllOwned

LEMMA AppendSingle ==
  ASSUME NEW w \in Seq(AnyMessage), NEW m \in AnyMessage, NEW v,
         Apart(w, v), \A j \in 1..Len(v) : v[j].p # m.p
  PROVE  /\ Apart(Append(w, m), v)
         /\ Single(w) /\ Apart(w, <<m>>) => Single(Append(w, m))
<1>1. /\ Len(w) \in Nat /\ Len(Append(w, m)) = Len(w) + 1
      /\ \A i \in 1..Len(w) : Append(w, m)[i] = w[i]
      /\ Append(w, m)[Len(w) + 1] = m
  BY DEF AnyMessage
<1>2. \A i \in 1..(Len(w) + 1) : i \in 1..Len(w) \/ i = Len(w) + 1
  BY <1>1
<1>3. Apart(Append(w, m), v)
  BY <1>1, <1>2 DEF Apart
<1>4. Apart(w, <<m>>) => \A i \in 1..Len(w) : w[i].p # m.p
  <2>1. Len(<<m>>) = 1 /\ <<m>>[1] = m /\ 1 \in 1..1
    OBVIOUS
  <2> QED
    BY <2>1 DEF Apart
<1>5. Single(w) /\ Apart(w, <<m>>) => Single(Append(w, m))
  BY <1>1, <1>2, <1>4 DEF Single
<1> QED
  BY <1>3, <1>5

LEMMA ApartOne ==
  ASSUME NEW w, NEW m
  PROVE  /\ Apart(w, <<m>>) <=> \A i \in 1..Len(w) : w[i].p # m.p
         /\ Apart(<<m>>, w) <=> \A i \in 1..Len(w) : w[i].p # m.p
<1>1. Len(<<m>>) = 1 /\ <<m>>[1] = m /\ \A i : i \in 1..1 <=> i = 1
  OBVIOUS
<1> QED
  BY <1>1 DEF Apart

LEMMA ApartBothWays == ASSUME NEW w, NEW v PROVE Apart(w, v) <=> Apart(v, w)
BY DEF Apart

(* A read leaves fewer messages, and none of the owner of the first.       *)
LEMMA SuffixOwned ==
  ASSUME NEW w \in Seq(AnyMessage), w # <<>>, NEW v, Reads(w, v)
  PROVE  /\ \A s, r, c : AllOwned(w, s, r, c) => AllOwned(v, s, r, c)
         /\ \A u : Apart(w, u) => Apart(v, u)
         /\ Single(w) => Single(v)
         /\ Single(w) => \A i \in 1..Len(v) : v[i].p # Head(w).p
         /\ \A s, r, c : AllOwned(w, s, r, c) => Owned(Head(w), s, r, c)
         /\ \A u : Apart(w, u) => \A i \in 1..Len(u) : u[i].p # Head(w).p
<1>1. PICK n \in 1..Len(w) : \A i \in 1..Len(v) : v[i] = w[i + n] /\ i + n \in 1..Len(w)
  BY SuffixIs
<1>2. v \in Seq(AnyMessage) /\ Len(v) \in Nat /\ Len(w) \in Nat
  BY SuffixIs
<1>3. Head(w) = w[1] /\ 1 \in 1..Len(w)
  BY OneElement
<1>4. \A i, j \in 1..Len(v) : i # j => i + n # j + n
  BY <1>2
<1>5. \A i \in 1..Len(v) : i + n # 1
  BY <1>2
<1>a. \A s, r, c : AllOwned(w, s, r, c) => AllOwned(v, s, r, c)
  BY <1>1 DEF AllOwned
<1>b. \A u : Apart(w, u) => Apart(v, u)
  BY <1>1 DEF Apart
<1>c. Single(w) => Single(v)
  <2> SUFFICES ASSUME Single(w), NEW i \in 1..Len(v), NEW j \in 1..Len(v), i # j
               PROVE  v[i].p # v[j].p
    BY DEF Single
  <2>1. /\ v[i] = w[i + n] /\ i + n \in 1..Len(w)
        /\ v[j] = w[j + n] /\ j + n \in 1..Len(w)
    BY <1>1
  <2>2. i + n # j + n
    BY <1>4
  <2>3. w[i + n].p # w[j + n].p
    BY <2>1, <2>2 DEF Single
  <2> QED
    BY <2>1, <2>3
<1>d. Single(w) => \A i \in 1..Len(v) : v[i].p # Head(w).p
  BY <1>1, <1>3, <1>5 DEF Single
<1>e. \A s, r, c : AllOwned(w, s, r, c) => Owned(Head(w), s, r, c)
  BY <1>3 DEF AllOwned
<1>f. \A u : Apart(w, u) => \A i \in 1..Len(u) : u[i].p # Head(w).p
  BY <1>3 DEF Apart
<1> QED
  BY <1>a, <1>b, <1>c, <1>d, <1>e, <1>f

LEMMA SeqEqual ==
  ASSUME NEW M, NEW w \in Seq(M), NEW v \in Seq(M), Len(w) = Len(v),
         \A i \in 1..Len(w) : w[i] = v[i]
  PROVE  w = v
<1>1. DOMAIN w = 1..Len(w) /\ DOMAIN v = 1..Len(v)
  OBVIOUS
<1>2. w = [i \in 1..Len(w) |-> w[i]] /\ v = [i \in 1..Len(w) |-> v[i]]
  BY <1>1
<1> QED
  BY <1>2

LEMMA FlightTypes ==
  ASSUME TypeInv
  PROVE  /\ toLib \in Seq(AnyMessage) /\ toMaster \in Seq(AnyMessage)
         /\ reply \in Seq(AnyMessage) /\ message \in Seq(AnyMessage)
         /\ pc # "modeset" => reply = <<>>
         /\ mpc # "send" => message = <<>>
         /\ pc = "modeset" => reply # <<>> /\ reply = <<Head(reply)>>
         /\ mpc = "send" => message # <<>> /\ message = <<Head(message)>>
         /\ pc = "setup" => mpc = "none"
<1>1. /\ toLib \in Seq(AnyMessage) /\ toMaster \in Seq(AnyMessage)
      /\ reply \in Seq(AnyMessage) /\ message \in Seq(AnyMessage)
  BY DEF TypeInv, TypeOK, HandsOK, AnyMessage
<1>2. /\ pc # "modeset" => reply = <<>>
      /\ mpc # "send" => message = <<>>
      /\ pc = "modeset" => Len(reply) = 1
      /\ mpc = "send" => Len(message) = 1
      /\ pc = "setup" => mpc = "none"
  BY DEF TypeInv, HandsOK
<1>3. ASSUME NEW w \in Seq(AnyMessage), Len(w) = 1 PROVE w # <<>> /\ w = <<Head(w)>>
  <2> DEFINE v == <<Head(w)>>
  <2>1. w # <<>> /\ Head(w) \in AnyMessage /\ Head(w) = w[1]
    BY <1>3, OneElement
  <2>2. v \in Seq(AnyMessage) /\ Len(v) = 1 /\ v[1] = w[1]
    BY <2>1, OneElement
  <2> HIDE DEF v
  <2>3. \A i \in 1..1 : i = 1
    OBVIOUS
  <2>4. w = v
    BY <1>3, <2>2, <2>3, SeqEqual
  <2> QED
    BY <2>1, <2>4 DEF v
<1>4. /\ pc = "modeset" => reply # <<>> /\ reply = <<Head(reply)>>
      /\ mpc = "send" => message # <<>> /\ message = <<Head(message)>>
  <2> HIDE DEF AnyMessage
  <2>1. pc = "modeset" => reply # <<>> /\ reply = <<Head(reply)>>
    BY <1>1, <1>2, <1>3
  <2>2. mpc = "send" => message # <<>> /\ message = <<Head(message)>>
    BY <1>1, <1>2, <1>3
  <2> QED
    BY <2>1, <2>2
<1> HIDE DEF AnyMessage
<1> QED
  BY <1>1, <1>2, <1>4, Zenon

LEMMA FlightInit == Init => FlightInv
<1> SUFFICES ASSUME Init PROVE FlightInv
  OBVIOUS
<1>1. /\ toLib = <<>> /\ toMaster = <<>> /\ reply = <<>> /\ message = <<>>
      /\ reported = {} /\ \A p \in Proc : st[p] = "unborn"
  BY DEF Init
<1>2. OwnersOK
  BY <1>1, NoneOwned DEF OwnersOK
<1>3. ApartOK
  BY <1>1, NoneOwned DEF ApartOK
<1>4. QuietOK
  BY <1>1, XSubsessionAssumption DEF QuietOK
<1> QED
  BY <1>2, <1>3, <1>4 DEF FlightInv

(* Most steps touch nothing of this.                                       *)
LEMMA FlightUnchanged ==
  ASSUME FlightInv, UNCHANGED <<toLib, toMaster, reply, message, st, reported>>,
         pc' \notin {"setup", "start"} \/ pc' = pc
  PROVE  FlightInv'
<1>1. OwnersOK'
  BY OwnedStays DEF FlightInv, OwnersOK
<1>2. ApartOK'
  BY DEF FlightInv, ApartOK
<1>3. QuietOK'
  BY DEF FlightInv, QuietOK, Alive
<1> QED
  BY <1>1, <1>2, <1>3 DEF FlightInv

(* The program sends a message whose owner has no other.                   *)
LEMMA LibSendsFlight ==
  ASSUME TypeInv, FlightInv, NEW m \in AnyMessage, LibSends(m),
         UNCHANGED <<toLib, message, st, reported>>, reply' = <<>>,
         Owned(m, st, reported, "drain"),
         Apart(toMaster, <<m>>), Apart(toLib, <<m>>), Apart(message, <<m>>)
  PROVE  FlightInv'
<1>0. /\ toMaster' \in {toMaster, Append(toMaster, m)}
      /\ pc' \in {"drain", "killed"}
  BY DEF LibSends
<1>1. OwnersOK'
  <2>1. /\ AllOwned(toLib, st, reported, pc') /\ AllOwned(toMaster, st, reported, pc')
        /\ AllOwned(message, st, reported, pc')
    BY <1>0, OwnedStays DEF FlightInv, OwnersOK
  <2>2. Owned(m, st, reported, pc')
    BY <1>0 DEF Owned
  <2>3. AllOwned(toMaster', st, reported, pc')
    BY <1>0, <2>1, <2>2, AppendOwned, FlightTypes
  <2> QED
    BY <2>1, <2>3, NoneOwned DEF OwnersOK
<1>2. ApartOK'
  <2>1. /\ Single(toMaster') /\ Apart(toMaster', toLib) /\ Apart(toMaster', message)
    <3>1. /\ Single(toMaster) /\ Apart(toMaster, toLib) /\ Apart(toMaster, message)
      BY ApartBothWays DEF FlightInv, ApartOK
    <3>2. /\ \A j \in 1..Len(toLib) : toLib[j].p # m.p
          /\ \A j \in 1..Len(message) : message[j].p # m.p
      BY ApartOne
    <3>3. CASE toMaster' = toMaster
      BY <3>1, <3>3
    <3>4. CASE toMaster' = Append(toMaster, m)
      BY <3>1, <3>2, <3>4, AppendSingle, FlightTypes
    <3> QED
      BY <1>0, <3>3, <3>4
  <2>2. Single(toLib) /\ Apart(toLib, message)
    BY DEF FlightInv, ApartOK
  <2> QED
    BY <2>1, <2>2, NoneOwned, ApartBothWays DEF ApartOK
<1>3. QuietOK'
  BY <1>0 DEF FlightInv, QuietOK, Alive
<1> QED
  BY <1>1, <1>2, <1>3 DEF FlightInv

LEMMA ProgramFlight ==
  ASSUME TypeInv, FlightInv, Program
  PROVE  FlightInv'
<1> USE FlightTypes
<1>1. CASE StepSucceeds
  <2>1. /\ pc = "setup" /\ pc' \in {"setup", "start"}
        /\ UNCHANGED <<toLib, toMaster, reply, message, st, reported>>
    BY <1>1 DEF StepSucceeds
  <2>2. toLib = <<>> /\ toMaster = <<>> /\ reply = <<>> /\ message = <<>>
    BY <2>1 DEF FlightInv, QuietOK
  <2> QED
    BY <2>1, <2>2, NoneOwned DEF FlightInv, OwnersOK, ApartOK, QuietOK, Alive
<1>2. CASE StepFails
  <2>1. pc' = "undo" /\ UNCHANGED <<toLib, toMaster, reply, message, st, reported>>
    BY <1>2 DEF StepFails, masterVars
  <2> QED
    BY <2>1, FlightUnchanged
<1>3. CASE Start
  <2> DEFINE m == Message("RUN_COMMAND", Child)
  <2>1. /\ LibSends(m) /\ pc = "start"
        /\ UNCHANGED <<toLib, message, st, reported, reply>>
    BY <1>3 DEF Start, masterVars
  <2>2. m \in AnyMessage /\ m.type = "RUN_COMMAND" /\ m.p = Child
    BY XSubsessionAssumption DEF Message, AnyMessage, Types
  <2>3. toLib = <<>> /\ toMaster = <<>> /\ reply = <<>> /\ st[Child] = "unborn"
    BY <2>1 DEF FlightInv, QuietOK
  <2>4. Owned(m, st, reported, "drain")
    BY <2>2, <2>3 DEF Owned
  <2>5. Apart(message, <<m>>)
    <3>1. \A i \in 1..Len(message) : message[i].p # m.p
      <4> SUFFICES ASSUME NEW i \in 1..Len(message), message[i].p = Child PROVE FALSE
        BY <2>2
      <4>1. Owned(message[i], st, reported, pc)
        BY DEF FlightInv, OwnersOK, AllOwned
      <4>2. message[i] \in AnyMessage
        OBVIOUS
      <4>3. message[i].type \in Types
        BY <4>2 DEF AnyMessage
      <4> QED
        BY <2>1, <2>3, <4>1, <4>3 DEF Owned, Types
    <3> QED
      BY <3>1, ApartOne
  <2>6. Apart(toMaster, <<m>>) /\ Apart(toLib, <<m>>)
    BY <2>3, NoneOwned
  <2> HIDE DEF m
  <2> QED
    BY <2>1, <2>2, <2>3, <2>4, <2>5, <2>6, LibSendsFlight
<1>4. CASE SocketReadable
  <2>0. /\ pc = "drain" /\ toLib # <<>> /\ Reads(toLib, toLib')
        /\ UNCHANGED <<toMaster, message, st, reported>>
        /\ pc' \in {"drain", "on_exit", "modeset"}
        /\ \/ reply' = reply
           \/ /\ Head(toLib).type = "MODESET_IOCTL"
              /\ reply' = <<Message("MODESET_IOCTL_RESPONSE", Head(toLib).p)>>
    BY <1>4 DEF SocketReadable, masterVars
  <2>1. reply = <<>>
    BY <2>0
  <2> DEFINE m == Message("MODESET_IOCTL_RESPONSE", Head(toLib).p)
  <2>2. m.type = "MODESET_IOCTL_RESPONSE" /\ m.p = Head(toLib).p
    BY DEF Message
  <2>3. /\ AllOwned(toLib', st, reported, pc) /\ Single(toLib')
        /\ Apart(toLib', toMaster) /\ Apart(toLib', message)
        /\ Owned(Head(toLib), st, reported, pc)
        /\ \A i \in 1..Len(toLib') : toLib'[i].p # Head(toLib).p
        /\ \A i \in 1..Len(toMaster) : toMaster[i].p # Head(toLib).p
        /\ \A i \in 1..Len(message) : message[i].p # Head(toLib).p
    BY <2>0, SuffixOwned DEF FlightInv, OwnersOK, ApartOK
  <2>4. /\ AllOwned(toLib', st, reported, pc') /\ AllOwned(toMaster, st, reported, pc')
        /\ AllOwned(message, st, reported, pc')
    BY <2>0, <2>3, OwnedStays DEF FlightInv, OwnersOK
  <2>5. Single(toMaster) /\ Apart(toMaster, message)
    BY DEF FlightInv, ApartOK
  <2>6. QuietOK'
    BY <2>0 DEF FlightInv, QuietOK, Alive
  <2>7. CASE reply' = <<>>
    BY <2>0, <2>3, <2>4, <2>5, <2>6, <2>7, NoneOwned DEF FlightInv, OwnersOK, ApartOK
  <2>8. CASE Head(toLib).type = "MODESET_IOCTL" /\ reply' = <<m>>
    <3>1. Owned(m, st, reported, pc')
      BY <2>2, <2>3, <2>8 DEF Owned
    <3>2. AllOwned(reply', st, reported, pc')
      BY <2>8, <3>1, OneOwned
    <3>3. /\ Apart(toLib', reply') /\ Apart(toMaster, reply') /\ Apart(reply', message)
      BY <2>2, <2>3, <2>8, ApartOne
    <3> QED
      BY <2>0, <2>3, <2>4, <2>5, <2>6, <3>2, <3>3 DEF FlightInv, OwnersOK, ApartOK
  <2> QED
    BY <2>0, <2>1, <2>7, <2>8
<1>5. CASE SocketHungUp \/ ExitCallback \/ Unregister \/ Draw
  <2>1. /\ pc' \notin {"setup", "start"}
        /\ UNCHANGED <<toLib, toMaster, reply, message, st, reported>>
    BY <1>5 DEF SocketHungUp, ExitCallback, Unregister, Draw, masterVars
  <2> QED
    BY <2>1, FlightUnchanged
<1>6. CASE Reply
  <2>1. /\ LibSends(Head(reply)) /\ pc = "modeset" /\ reply' = <<>>
        /\ UNCHANGED <<toLib, message, st, reported>>
    BY <1>6 DEF Reply, masterVars
  <2>2. Head(reply) \in AnyMessage /\ reply # <<>> /\ reply = <<Head(reply)>>
    BY <2>1, OneElement
  <2>3. Owned(Head(reply), st, reported, pc)
    <3>1. Head(reply) = reply[1] /\ 1 \in 1..Len(reply)
      BY <2>2, OneElement
    <3> QED
      BY <3>1 DEF FlightInv, OwnersOK, AllOwned
  <2>4. Owned(Head(reply), st, reported, "drain")
    BY <2>3 DEF Owned
  <2>5. /\ Apart(toMaster, <<Head(reply)>>) /\ Apart(toLib, <<Head(reply)>>)
        /\ Apart(message, <<Head(reply)>>)
    BY <2>2, ApartBothWays DEF FlightInv, ApartOK
  <2> QED
    BY <2>1, <2>2, <2>4, <2>5, LibSendsFlight
<1>7. CASE UndoStep
  <2>1. /\ pc' \in {"undo", "done"} /\ toLib' \in {toLib, <<>>}
        /\ UNCHANGED <<toMaster, reply, message, st, reported>>
    BY <1>7 DEF UndoStep, masterVars
  <2>2. CASE toLib' = toLib
    BY <2>1, <2>2, FlightUnchanged
  <2>3. CASE toLib' = <<>>
    <3>1. OwnersOK'
      BY <2>1, <2>3, OwnedStays, NoneOwned DEF FlightInv, OwnersOK
    <3>2. ApartOK'
      BY <2>1, <2>3, NoneOwned DEF FlightInv, ApartOK
    <3>3. QuietOK'
      BY <2>1, <2>3 DEF FlightInv, QuietOK, Alive
    <3> QED
      BY <3>1, <3>2, <3>3 DEF FlightInv
  <2> QED
    BY <2>1, <2>2, <2>3
<1> QED
  BY <1>1, <1>2, <1>3, <1>4, <1>5, <1>6, <1>7 DEF Program, Loop

(* A process moves on: it is none that owns a message.                     *)
LEMMA MoveFlight ==
  ASSUME TypeInv, FlightInv, NEW p \in Proc, NEW to,
         UNCHANGED <<pc, toLib, toMaster, reply, message, reported>>,
         st' = [st EXCEPT ![p] = to],
         \/ st[p] \in {"runs", "asks"}
         \/ st[p] = "unborn" /\ p # Child
  PROVE  OwnersOK' /\ ApartOK'
<1> USE FlightTypes
<1>1. ASSUME NEW w \in Seq(AnyMessage), AllOwned(w, st, reported, pc)
      PROVE  AllOwned(w, st', reported, pc)
  <2>1. ASSUME NEW i \in 1..Len(w) PROVE st'[w[i].p] = st[w[i].p]
    <3>1. Owned(w[i], st, reported, pc)
      BY <1>1 DEF AllOwned
    <3>2. w[i] \in AnyMessage
      OBVIOUS
    <3>3. w[i].type \in Types /\ w[i].p \in Proc
      BY <3>2 DEF AnyMessage
    <3>4. w[i].p # p
      BY <3>1, <3>3 DEF Owned, Types
    <3>5. st \in [Proc -> {"unborn", "runs", "asks", "waits", "gone"}]
      BY DEF TypeInv, TypeOK
    <3> QED
      BY <3>3, <3>4, <3>5
  <2> QED
    BY <1>1, <2>1, OwnedStays
<1>2. OwnersOK'
  BY <1>1 DEF FlightInv, OwnersOK
<1> QED
  BY <1>2 DEF FlightInv, ApartOK

LEMMA KernelFlight ==
  ASSUME TypeInv, FlightInv, Kernel
  PROVE  FlightInv'
<1>1. PICK p \in Proc :
         \/ Move(p, "runs", "asks") \/ Move(p, "runs", "gone")
         \/ Alive # {} /\ p # Child /\ Move(p, "unborn", "runs")
  BY DEF Kernel
<1>2. PICK to \in {"asks", "gone", "runs"} :
         /\ st' = [st EXCEPT ![p] = to]
         /\ \/ st[p] = "runs" /\ to \in {"asks", "gone"}
            \/ st[p] = "unborn" /\ p # Child /\ Alive # {} /\ to = "runs"
  BY <1>1 DEF Move
<1>3. UNCHANGED <<pc, toLib, toMaster, reply, message, reported>>
  BY <1>1 DEF Move, progVars
<1>4. OwnersOK' /\ ApartOK'
  BY <1>2, <1>3, MoveFlight
<1>5. QuietOK'
  <2>1. st \in [Proc -> {"unborn", "runs", "asks", "waits", "gone"}] /\ Child \in Proc
    BY XSubsessionAssumption DEF TypeInv, TypeOK
  <2>2. Alive # {}
    BY <1>2, <2>1 DEF Alive
  <2>3. "GOT_UMOUNT" \notin reported /\ st[Child] # "unborn"
    BY <2>2 DEF FlightInv, QuietOK, Alive
  <2>4. st'[Child] # "unborn"
    BY <1>2, <2>1, <2>3
  <2> QED
    BY <1>3, <2>3, <2>4 DEF FlightInv, QuietOK
<1> QED
  BY <1>4, <1>5 DEF FlightInv

(* The master is about to send a message whose owner has no other.         *)
LEMMA MessageFlight ==
  ASSUME TypeInv, FlightInv, NEW m \in AnyMessage, message' = <<m>>,
         UNCHANGED <<pc, toLib, toMaster, reply>>,
         Owned(m, st', reported', pc),
         \A w \in Seq(AnyMessage) : AllOwned(w, st, reported, pc) =>
            AllOwned(w, st', reported', pc) /\ \A i \in 1..Len(w) : w[i].p # m.p
  PROVE  OwnersOK' /\ ApartOK'
<1> USE FlightTypes
<1>1. AllOwned(message', st', reported', pc')
  BY OneOwned
<1>2. OwnersOK'
  BY <1>1 DEF FlightInv, OwnersOK
<1>3. Apart(toLib, message') /\ Apart(toMaster, message') /\ Apart(reply, message')
  BY ApartOne DEF FlightInv, OwnersOK
<1> QED
  BY <1>2, <1>3 DEF FlightInv, ApartOK

LEMMA MasterFlight ==
  ASSUME TypeInv, FlightInv, Master \/ MasterEnds
  PROVE  FlightInv'
<1> USE FlightTypes
<1>0. st \in [Proc -> {"unborn", "runs", "asks", "waits", "gone"}] /\ Child \in Proc
  BY XSubsessionAssumption DEF TypeInv, TypeOK
<1>1. CASE MasterReads
  <2>0. /\ toMaster # <<>> /\ Reads(toMaster, toMaster')
        /\ UNCHANGED <<pc, reply, toLib, message, reported>>
    BY <1>1 DEF MasterReads, progVars
  <2> DEFINE m == Head(toMaster)
  <2>1. m \in AnyMessage /\ m.p \in Proc /\ m.type \in Types
    BY <2>0, OneElement DEF AnyMessage
  <2>2. /\ AllOwned(toMaster', st, reported, pc) /\ Single(toMaster')
        /\ Apart(toMaster', toLib) /\ Apart(toMaster', reply) /\ Apart(toMaster', message)
        /\ Owned(m, st, reported, pc)
        /\ \A i \in 1..Len(toMaster') : toMaster'[i].p # m.p
        /\ \A i \in 1..Len(toLib) : toLib[i].p # m.p
        /\ \A i \in 1..Len(reply) : reply[i].p # m.p
        /\ \A i \in 1..Len(message) : message[i].p # m.p
    BY <2>0, SuffixOwned, ApartBothWays DEF FlightInv, OwnersOK, ApartOK
  <2>3. st' = st \/ st' = [st EXCEPT ![m.p] = "runs"]
    BY <1>1, <2>2 DEF MasterReads, Owned
  <2>4. toMaster' \in Seq(AnyMessage)
    BY <2>0, SuffixIs
  <2>5. ASSUME NEW w \in Seq(AnyMessage), AllOwned(w, st, reported, pc),
               \A i \in 1..Len(w) : w[i].p # m.p
        PROVE  AllOwned(w, st', reported, pc)
    <3>1. ASSUME NEW i \in 1..Len(w) PROVE w[i].p \in Proc
      <4>1. w[i] \in AnyMessage
        OBVIOUS
      <4> QED
        BY <4>1 DEF AnyMessage
    <3>2. \A i \in 1..Len(w) : st'[w[i].p] = st[w[i].p]
      BY <1>0, <2>3, <2>5, <3>1
    <3> QED
      BY <2>5, <3>2, OwnedStays
  <2>6. OwnersOK'
    BY <2>0, <2>2, <2>4, <2>5 DEF FlightInv, OwnersOK
  <2>7. ApartOK'
    BY <2>0, <2>2, ApartBothWays DEF FlightInv, ApartOK
  <2>8. QuietOK'
    <3>1. pc \notin {"setup", "start"}
      BY <2>0 DEF FlightInv, QuietOK
    <3>2. CASE st' = st
      BY <2>0, <3>1, <3>2 DEF FlightInv, QuietOK, Alive
    <3>3. CASE st' = [st EXCEPT ![m.p] = "runs"] /\ st' # st
      <4>1. st[m.p] = "waits" \/ (m.p = Child /\ st[Child] = "unborn")
        BY <1>1, <2>2, <3>3 DEF MasterReads, Owned
      <4>2. st'[Child] # "unborn"
        BY <1>0, <2>1, <3>3, <4>1 DEF FlightInv, QuietOK
      <4>3. "GOT_UMOUNT" \notin reported
        BY <2>1, <4>1 DEF FlightInv, QuietOK, Alive
      <4> QED
        BY <2>0, <3>1, <4>2, <4>3 DEF QuietOK
    <3> QED
      BY <2>3, <3>2, <3>3
  <2> QED
    BY <2>6, <2>7, <2>8 DEF FlightInv
<1>2. ASSUME NEW p \in Proc, Modeset(p) PROVE FlightInv'
  <2> DEFINE m == Message("MODESET_IOCTL", p)
  <2>1. m \in AnyMessage /\ m.type = "MODESET_IOCTL" /\ m.p = p
    BY DEF Message, AnyMessage, Types
  <2> HIDE DEF m
  <2>2. /\ UNCHANGED <<pc, toLib, toMaster, reply, reported>> /\ st[p] = "asks"
        /\ \/ st' = [st EXCEPT ![p] = "waits"] /\ message' = <<m>>
           \/ st' = [st EXCEPT ![p] = "runs"] /\ message' = message
    BY <1>2 DEF Modeset, MayAsk, progVars, m
  <2>3. ASSUME NEW w \in Seq(AnyMessage), AllOwned(w, st, reported, pc)
        PROVE  /\ AllOwned(w, st', reported', pc)
               /\ \A i \in 1..Len(w) : w[i].p # m.p
    <3>1. ASSUME NEW i \in 1..Len(w) PROVE w[i].p # p /\ w[i].p \in Proc
      <4>1. w[i] \in AnyMessage
        OBVIOUS
      <4>2. w[i].type \in Types /\ w[i].p \in Proc
        BY <4>1 DEF AnyMessage
      <4>3. Owned(w[i], st, reported, pc)
        BY <2>3 DEF AllOwned
      <4> QED
        BY <2>2, <4>2, <4>3 DEF Owned, Types
    <3>2. \A i \in 1..Len(w) : st'[w[i].p] = st[w[i].p]
      BY <1>0, <2>2, <3>1
    <3> QED
      BY <2>1, <2>2, <2>3, <3>1, <3>2, OwnedStays
  <2>4. OwnersOK' /\ ApartOK'
    <3>1. CASE st' = [st EXCEPT ![p] = "waits"] /\ message' = <<m>>
      <4>1. Owned(m, st', reported', pc)
        BY <1>0, <2>1, <3>1 DEF Owned
      <4> QED
        BY <2>1, <2>2, <2>3, <3>1, <4>1, MessageFlight
    <3>2. CASE st' = [st EXCEPT ![p] = "runs"] /\ message' = message
      BY <2>2, <3>2, MoveFlight
    <3> QED
      BY <2>2, <3>1, <3>2
  <2>5. QuietOK'
    <3>1. Alive # {} /\ st[Child] # "unborn" /\ "GOT_UMOUNT" \notin reported
      BY <2>2 DEF FlightInv, QuietOK, Alive
    <3>2. st'[Child] # "unborn"
      BY <1>0, <2>2, <3>1
    <3> QED
      BY <2>2, <3>1, <3>2 DEF FlightInv, QuietOK
  <2> QED
    BY <2>4, <2>5 DEF FlightInv
<1>3. ASSUME NEW type \in {"GOT_SIGCHLD", "GOT_UMOUNT"}, NEW p \in Proc,
             Report(type, p), st[p] = "gone", st[Child] = "gone",
             "GOT_UMOUNT" \notin reported, type \notin reported,
             type = "GOT_SIGCHLD" => p = Child,
             type = "GOT_UMOUNT" => Alive = {} /\ (p = Child) = (reported = {})
      PROVE  FlightInv'
  <2> DEFINE m == Message(type, p)
  <2>1. m \in AnyMessage /\ m.type = type /\ m.p = p
    BY DEF Message, AnyMessage, Types
  <2> HIDE DEF m
  <2>2. /\ UNCHANGED <<pc, toLib, toMaster, reply, st>> /\ message' = <<m>>
        /\ reported' = reported \cup {type}
    BY <1>3 DEF Report, progVars, m
  <2>3. reported \subseteq {"GOT_SIGCHLD", "GOT_UMOUNT"}
    BY DEF TypeInv, TypeOK
  <2>4. ASSUME NEW w \in Seq(AnyMessage), AllOwned(w, st, reported, pc)
        PROVE  /\ AllOwned(w, st', reported', pc)
               /\ \A i \in 1..Len(w) : w[i].p # m.p
    <3>1. ASSUME NEW i \in 1..Len(w)
          PROVE  w[i].p # p /\ Owned(w[i], st', reported', pc)
      <4>1. w[i] \in AnyMessage
        OBVIOUS
      <4>2. w[i].type \in Types /\ w[i].p \in Proc
        BY <4>1 DEF AnyMessage
      <4>3. Owned(w[i], st, reported, pc)
        BY <2>4 DEF AllOwned
      <4>4. w[i].type # "GOT_UMOUNT"
        BY <1>3, <4>3 DEF Owned
      <4>5. w[i].type = "GOT_SIGCHLD" => type = "GOT_UMOUNT" /\ w[i].p = Child /\ p # Child
        BY <1>3, <4>3 DEF Owned
      <4>6. w[i].type # "RUN_COMMAND"
        BY <1>3, <4>3 DEF Owned
      <4>7. w[i].p # p
        BY <1>3, <4>2, <4>3, <4>4, <4>5, <4>6 DEF Owned, Types
      <4>8. Owned(w[i], st', reported', pc)
        BY <2>2, <4>3, <4>4, <4>6 DEF Owned
      <4> QED
        BY <4>7, <4>8
    <3> QED
      BY <2>1, <3>1 DEF AllOwned
  <2>5. Owned(m, st', reported', pc)
    BY <1>3, <2>1, <2>2, <2>3 DEF Owned
  <2>6. OwnersOK' /\ ApartOK'
    BY <2>1, <2>2, <2>4, <2>5, MessageFlight
  <2>7. QuietOK'
    BY <1>3, <2>2 DEF FlightInv, QuietOK, Alive
  <2> QED
    BY <2>6, <2>7 DEF FlightInv
<1>4. CASE MasterSends
  <2> DEFINE m == Head(message)
  <2>0. /\ mpc = "send" /\ message' = <<>>
        /\ UNCHANGED <<pc, reply, toMaster, reported>>
        /\ \/ toLib' = Append(toLib, m) /\ st' = st /\ LibOpen
           \/ /\ toLib' = toLib
              /\ st' = [p \in Proc |-> IF p = m.p /\ st[p] = "waits"
                                         THEN "runs" ELSE st[p]]
    BY <1>4 DEF MasterSends, progVars
  <2>1. m \in AnyMessage /\ message = <<m>> /\ 1 \in 1..Len(message) /\ m = message[1]
    BY <2>0, OneElement
  <2>2. Owned(m, st, reported, pc)
    BY <2>1 DEF FlightInv, OwnersOK, AllOwned
  <2>3. /\ \A i \in 1..Len(toLib) : toLib[i].p # m.p
        /\ \A i \in 1..Len(toMaster) : toMaster[i].p # m.p
        /\ \A i \in 1..Len(reply) : reply[i].p # m.p
    BY <2>1, ApartOne DEF FlightInv, ApartOK
  <2> HIDE DEF m
  <2>4. CASE toLib' = Append(toLib, m) /\ st' = st /\ LibOpen
    <3>1. OwnersOK'
      BY <2>0, <2>1, <2>2, <2>4, AppendOwned, NoneOwned DEF FlightInv, OwnersOK
    <3>2. /\ Single(toLib) /\ Apart(toLib, toMaster) /\ Apart(toLib, reply)
          /\ Apart(toLib, <<m>>)
      BY <2>3, ApartOne DEF FlightInv, ApartOK
    <3>3. Single(toLib') /\ Apart(toLib', toMaster) /\ Apart(toLib', reply)
      BY <2>1, <2>3, <2>4, <3>2, AppendSingle
    <3>4. ApartOK'
      BY <2>0, <3>3, NoneOwned DEF FlightInv, ApartOK
    <3>5. pc \notin {"setup", "start"}
      <4>1. ASSUME pc \in {"setup", "start"} PROVE st[Child] = "unborn"
        BY <4>1 DEF FlightInv, QuietOK
      <4>2. m.type \in Types /\ m.p \in Proc
        BY <2>1 DEF AnyMessage
      <4>3. ASSUME pc \in {"setup", "start"} PROVE pc = "start"
        BY <2>0, <4>3
      <4>4. ASSUME pc \in {"setup", "start"} PROVE st[m.p] = "unborn"
        BY <4>1, <4>2, <4>4 DEF FlightInv, QuietOK
      <4> QED
        BY <2>2, <4>1, <4>2, <4>3, <4>4 DEF Owned, Types
    <3>6. QuietOK'
      BY <2>0, <2>4, <3>5 DEF FlightInv, QuietOK, Alive
    <3> QED
      BY <3>1, <3>4, <3>6 DEF FlightInv
  <2>5. CASE /\ toLib' = toLib
             /\ st' = [p \in Proc |-> IF p = m.p /\ st[p] = "waits"
                                       THEN "runs" ELSE st[p]]
    <3>1. ASSUME NEW w \in Seq(AnyMessage), AllOwned(w, st, reported, pc),
                 \A i \in 1..Len(w) : w[i].p # m.p
          PROVE  AllOwned(w, st', reported, pc)
      <4>1. ASSUME NEW i \in 1..Len(w) PROVE w[i].p \in Proc
        <5>1. w[i] \in AnyMessage
          OBVIOUS
        <5> QED
          BY <5>1 DEF AnyMessage
      <4>2. \A i \in 1..Len(w) : st'[w[i].p] = st[w[i].p]
        BY <2>5, <3>1, <4>1
      <4> QED
        BY <3>1, <4>2, OwnedStays
    <3>2. OwnersOK'
      BY <2>0, <2>3, <2>5, <3>1, NoneOwned DEF FlightInv, OwnersOK
    <3>3. ApartOK'
      BY <2>0, <2>5, NoneOwned DEF FlightInv, ApartOK
    <3>4. /\ st'[Child] = "unborn" <=> st[Child] = "unborn"
          /\ \A p \in Proc : st[p] = "unborn" => st'[p] = "unborn"
          /\ \A p \in Proc : st'[p] \in {"runs", "asks", "waits"}
                                => st[p] \in {"runs", "asks", "waits"}
          /\ st[Child] = "gone" => st'[Child] = "gone"
      BY <1>0, <2>5
    <3>5. QuietOK'
      BY <2>0, <2>5, <3>4 DEF FlightInv, QuietOK, Alive
    <3> QED
      BY <3>2, <3>3, <3>5 DEF FlightInv
  <2> QED
    BY <2>0, <2>4, <2>5
<1>5. CASE Hangup \/ MasterEnds
  <2>1. UNCHANGED <<pc, toLib, toMaster, reply, message, st, reported>>
    BY <1>5 DEF Hangup, MasterEnds, progVars
  <2> QED
    BY <2>1, FlightUnchanged
<1>6. ASSUME Sigchld PROVE FlightInv'
  BY <1>0, <1>3, <1>6 DEF Sigchld
<1>7. ASSUME Umounted PROVE FlightInv'
  BY <1>0, <1>3, <1>7 DEF Umounted
<1> QED
  BY <1>1, <1>2, <1>4, <1>5, <1>6, <1>7 DEF Master

LEMMA FlightStep == TypeInv /\ FlightInv /\ [Next]_vars => FlightInv'
<1> SUFFICES ASSUME TypeInv, FlightInv, [Next]_vars PROVE FlightInv'
  OBVIOUS
<1>1. CASE UNCHANGED vars
  <2>1. UNCHANGED <<pc, toLib, toMaster, reply, message, st, reported>>
    BY <1>1 DEF vars, progVars, masterVars
  <2> QED
    BY <2>1, FlightUnchanged
<1> QED
  BY <1>1, ProgramFlight, MasterFlight, KernelFlight DEF Next, Terminated

-----------------------------------------------------------------------------
LEMMA IntervalSize ==
  ASSUME NEW n \in Nat
  PROVE  IsFiniteSet(1..n) /\ Cardinality(1..n) = n
<1>1. /\ IsFiniteSet(1..n)
      /\ Cardinality(1..n) = IF 1 > n THEN 0 ELSE n - 1 + 1
  BY FS_Interval
<1> QED
  BY <1>1

(* If both are blocked, both directions and both hands are full: a message *)
(* for each of 2 * Room + 2 numbers, no two of the same process.           *)
LEMMA BlockedTakesProcesses ==
  ASSUME TypeInv, FlightInv, LibBlocked, MasterBlocked
  PROVE  ~(Cardinality(Proc) < 2 * Room + 2)
<1> USE FlightTypes
<1> DEFINE slots == 1..(2 * Room + 2)
           f == [i \in slots |->
                   IF i <= Room THEN toLib[i].p
                   ELSE IF i <= 2 * Room THEN toMaster[i - Room].p
                   ELSE IF i = 2 * Room + 1 THEN reply[1].p
                   ELSE message[1].p]
<1>1. /\ Room \in Nat /\ IsFiniteSet(Proc)
      /\ Len(toLib) \in Nat /\ Len(toMaster) \in Nat
      /\ Room <= Len(toLib) /\ Room <= Len(toMaster)
  BY XSubsessionAssumption DEF LibBlocked, MasterBlocked
<1>2. reply # <<>> /\ message # <<>>
  BY DEF LibBlocked, MasterBlocked
<1>3. 1 \in 1..Len(reply) /\ 1 \in 1..Len(message)
  BY <1>2, OneElement
<1>4. ASSUME NEW w \in Seq(AnyMessage), NEW i \in 1..Len(w) PROVE w[i].p \in Proc
  <2>1. w[i] \in AnyMessage
    OBVIOUS
  <2> QED
    BY <2>1 DEF AnyMessage
<1>5. f \in [slots -> Proc]
  <2> SUFFICES ASSUME NEW i \in slots PROVE f[i] \in Proc
    OBVIOUS
  <2>1. CASE i <= Room
    BY <1>1, <1>4, <2>1
  <2>2. CASE i > Room /\ i <= 2 * Room
    BY <1>1, <1>4, <2>2
  <2>3. CASE i = 2 * Room + 1
    BY <1>1, <1>3, <1>4, <2>3
  <2>4. CASE i = 2 * Room + 2
    BY <1>1, <1>3, <1>4, <2>4
  <2> QED
    BY <1>1, <2>1, <2>2, <2>3, <2>4
<1>6. ASSUME NEW i \in slots, NEW j \in slots, i < j PROVE f[i] # f[j]
  <2> USE DEF Single, Apart
  <2>0. /\ Single(toLib) /\ Single(toMaster)
        /\ Apart(toLib, toMaster) /\ Apart(toLib, reply) /\ Apart(toLib, message)
        /\ Apart(toMaster, reply) /\ Apart(toMaster, message)
        /\ Apart(reply, message)
    BY DEF FlightInv, ApartOK
  <2>1. CASE i <= Room
    <3>1. i \in 1..Len(toLib) /\ f[i] = toLib[i].p
      BY <1>1, <2>1
    <3>2. CASE j <= Room
      BY <1>1, <1>6, <2>0, <3>1, <3>2
    <3>3. CASE j > Room /\ j <= 2 * Room
      BY <1>1, <2>0, <3>1, <3>3
    <3>4. CASE j = 2 * Room + 1
      BY <1>1, <1>3, <2>0, <3>1, <3>4
    <3>5. CASE j = 2 * Room + 2
      BY <1>1, <1>3, <2>0, <3>1, <3>5
    <3> QED
      BY <1>1, <3>2, <3>3, <3>4, <3>5
  <2>2. CASE i > Room /\ i <= 2 * Room
    <3>1. i - Room \in 1..Len(toMaster) /\ f[i] = toMaster[i - Room].p
      BY <1>1, <2>2
    <3>3. CASE j <= 2 * Room
      <4>1. /\ j - Room \in 1..Len(toMaster) /\ f[j] = toMaster[j - Room].p
            /\ j - Room # i - Room
        BY <1>1, <1>6, <2>2, <3>3
      <4> QED
        BY <2>0, <3>1, <4>1
    <3>4. CASE j = 2 * Room + 1
      BY <1>1, <1>3, <2>0, <3>1, <3>4
    <3>5. CASE j = 2 * Room + 2
      BY <1>1, <1>3, <2>0, <3>1, <3>5
    <3> QED
      BY <1>1, <3>3, <3>4, <3>5
  <2>3. CASE i = 2 * Room + 1
    <3>1. j = 2 * Room + 2
      BY <1>1, <1>6, <2>3
    <3> QED
      BY <1>1, <1>3, <2>0, <2>3, <3>1
  <2> QED
    BY <1>1, <1>6, <2>1, <2>2, <2>3
<1> HIDE DEF f
<1>7. IsFiniteSet(slots) /\ Cardinality(slots) = 2 * Room + 2
  <2> DEFINE n == 2 * Room + 2
  <2>1. n \in Nat
    BY <1>1
  <2> HIDE DEF n
  <2>2. IsFiniteSet(1..n) /\ Cardinality(1..n) = n
    BY <2>1, IntervalSize
  <2> QED
    BY <2>2 DEF n
<1>8. ASSUME Cardinality(Proc) < 2 * Room + 2 PROVE FALSE
  <2>1. PICK i, j \in slots : i # j /\ f[i] = f[j]
    BY <1>1, <1>5, <1>7, <1>8, FS_PigeonHole
  <2>2. i < j \/ j < i
    BY <1>1, <2>1
  <2> QED
    BY <1>6, <2>1, <2>2
<1> QED
  BY <1>8

(* Library and master never wait for each other when the session has fewer *)
(* than 2 * Room + 2 processes (session.c:385, main.c:658).                *)
THEOREM NeverBothBlocked == Spec => []NoDeadlock
<1> DEFINE IInv == TypeInv /\ FlightInv
<1>1. Init => IInv
  BY TypeInit, FlightInit
<1>2. IInv /\ [Next]_vars => IInv'
  BY TypeStep, FlightStep
<1>3. IInv => NoDeadlock
  BY BlockedTakesProcesses DEF NoDeadlock
<1> QED
  BY <1>1, <1>2, <1>3, PTL DEF Spec

-----------------------------------------------------------------------------
(* The ladder: the step of the set-up that takes a thing, and the step of  *)
(* the clean-up that gives it back.                                        *)
TakenAt == [epoll |-> 1, display |-> 2, egl |-> 4, window |-> 7, surface |-> 8,
            context |-> 10, xReg |-> 12, session |-> 13, socketReg |-> 13]
FreedAt == [session |-> 1, socketReg |-> 1, xReg |-> 2, context |-> 3, surface |-> 4,
            window |-> 5, egl |-> 6, display |-> 7, epoll |-> 8]
Things == {"epoll", "display", "egl", "window", "surface", "context", "xReg",
           "session", "socketReg"}

InSession == {"start", "drain", "on_exit", "unregister", "modeset"}

LadderInv ==
  /\ held \subseteq Things
  /\ pc = "setup" => held = {x \in Things : TakenAt[x] < at}
  /\ pc \in InSession => Things \ {"socketReg"} \subseteq held
  /\ pc = "undo" => \A x \in held : FreedAt[x] >= at
  /\ pc = "done" => held = {}
  /\ BasesAreHeld

LEMMA BasesAre ==
  BasesAreHeld <=>
    /\ "egl" \in held => "display" \in held
    /\ "window" \in held => "display" \in held
    /\ "surface" \in held => "egl" \in held
    /\ "surface" \in held => "window" \in held
    /\ "context" \in held => "egl" \in held
    /\ "xReg" \in held => "epoll" \in held
    /\ "xReg" \in held => "display" \in held
    /\ "socketReg" \in held => "epoll" \in held
    /\ "socketReg" \in held => "session" \in held
BY DEF BasesAreHeld

LEMMA TakesAre ==
  /\ Takes(Up[1].takes) = {"epoll"}
  /\ Takes(Up[2].takes) = {"display"}
  /\ Takes(Up[3].takes) = {}
  /\ Takes(Up[4].takes) = {"egl"}
  /\ Takes(Up[5].takes) = {}
  /\ Takes(Up[6].takes) = {}
  /\ Takes(Up[7].takes) = {"window"}
  /\ Takes(Up[8].takes) = {"surface"}
  /\ Takes(Up[9].takes) = {}
  /\ Takes(Up[10].takes) = {"context"}
  /\ Takes(Up[11].takes) = {}
  /\ Takes(Up[12].takes) = {"xReg"}
  /\ Takes(Up[13].takes) = {"session", "socketReg"}
BY DEF Up, Step, Takes

LEMMA FreesAre ==
  /\ Takes(Down[1].frees) = {"session", "socketReg"}
  /\ Takes(Down[2].frees) = {"xReg"}
  /\ Takes(Down[3].frees) = {"context"}
  /\ Takes(Down[4].frees) = {"surface"}
  /\ Takes(Down[5].frees) = {"window"}
  /\ Takes(Down[6].frees) = {"egl"}
  /\ Takes(Down[7].frees) = {"display"}
  /\ Takes(Down[8].frees) = {"epoll"}
  /\ Takes(Down[9].frees) = {}
BY DEF Down, Undo, Takes

LEMMA LabelsAre ==
  /\ Label(Up[1].label) = 9
  /\ Label(Up[2].label) = 8
  /\ Label(Up[3].label) = 7
  /\ Label(Up[4].label) = 7
  /\ Label(Up[5].label) = 6
  /\ Label(Up[6].label) = 6
  /\ Label(Up[7].label) = 6
  /\ Label(Up[8].label) = 5
  /\ Label(Up[9].label) = 4
  /\ Label(Up[10].label) = 4
  /\ Label(Up[11].label) = 3
  /\ Label(Up[12].label) = 3
  /\ Label(Up[13].label) = 2
BY LabelIs DEF Up, Step

LEMMA LadderInit == Init => LadderInv
<1> SUFFICES ASSUME Init PROVE LadderInv
  OBVIOUS
<1>1. held = {} /\ pc = "setup" /\ at = 1
  BY DEF Init
<1>2. \A x \in Things : ~(TakenAt[x] < 1)
  BY DEF Things, TakenAt
<1>3. BasesAreHeld
  BY <1>1, BasesAre
<1> QED
  BY <1>1, <1>2, <1>3 DEF LadderInv, InSession

(* A step of the set-up takes what the table says.                         *)
LEMMA LadderUp ==
  ASSUME NEW i \in 1..13
  PROVE  {x \in Things : TakenAt[x] < i} \cup Takes(Up[i].takes)
           = {x \in Things : TakenAt[x] < i + 1}
<1>1. CASE i = 1
  BY <1>1, TakesAre DEF Things, TakenAt
<1>2. CASE i = 2
  BY <1>2, TakesAre DEF Things, TakenAt
<1>3. CASE i = 3
  BY <1>3, TakesAre DEF Things, TakenAt
<1>4. CASE i = 4
  BY <1>4, TakesAre DEF Things, TakenAt
<1>5. CASE i = 5
  BY <1>5, TakesAre DEF Things, TakenAt
<1>6. CASE i = 6
  BY <1>6, TakesAre DEF Things, TakenAt
<1>7. CASE i = 7
  BY <1>7, TakesAre DEF Things, TakenAt
<1>8. CASE i = 8
  BY <1>8, TakesAre DEF Things, TakenAt
<1>9. CASE i = 9
  BY <1>9, TakesAre DEF Things, TakenAt
<1>10. CASE i = 10
  BY <1>10, TakesAre DEF Things, TakenAt
<1>11. CASE i = 11
  BY <1>11, TakesAre DEF Things, TakenAt
<1>12. CASE i = 12
  BY <1>12, TakesAre DEF Things, TakenAt
<1>13. CASE i = 13
  BY <1>13, TakesAre DEF Things, TakenAt
<1> QED
  BY <1>1, <1>2, <1>3, <1>4, <1>5, <1>6, <1>7, <1>8, <1>9, <1>10, <1>11, <1>12, <1>13

(* Whatever was taken before a step that fails is given back after its     *)
(* label.                                                                  *)
LEMMA LadderTurns ==
  ASSUME NEW i \in 1..13, NEW x \in Things, TakenAt[x] < i
  PROVE  FreedAt[x] >= Label(Up[i].label)
<1>1. CASE i = 1
  BY <1>1, LabelsAre DEF Things, TakenAt, FreedAt
<1>2. CASE i = 2
  BY <1>2, LabelsAre DEF Things, TakenAt, FreedAt
<1>3. CASE i = 3
  BY <1>3, LabelsAre DEF Things, TakenAt, FreedAt
<1>4. CASE i = 4
  BY <1>4, LabelsAre DEF Things, TakenAt, FreedAt
<1>5. CASE i = 5
  BY <1>5, LabelsAre DEF Things, TakenAt, FreedAt
<1>6. CASE i = 6
  BY <1>6, LabelsAre DEF Things, TakenAt, FreedAt
<1>7. CASE i = 7
  BY <1>7, LabelsAre DEF Things, TakenAt, FreedAt
<1>8. CASE i = 8
  BY <1>8, LabelsAre DEF Things, TakenAt, FreedAt
<1>9. CASE i = 9
  BY <1>9, LabelsAre DEF Things, TakenAt, FreedAt
<1>10. CASE i = 10
  BY <1>10, LabelsAre DEF Things, TakenAt, FreedAt
<1>11. CASE i = 11
  BY <1>11, LabelsAre DEF Things, TakenAt, FreedAt
<1>12. CASE i = 12
  BY <1>12, LabelsAre DEF Things, TakenAt, FreedAt
<1>13. CASE i = 13
  BY <1>13, LabelsAre DEF Things, TakenAt, FreedAt
<1> QED
  BY <1>1, <1>2, <1>3, <1>4, <1>5, <1>6, <1>7, <1>8, <1>9, <1>10, <1>11, <1>12, <1>13

LEMMA LadderDown ==
  ASSUME NEW i \in 1..9, NEW x \in Things, FreedAt[x] >= i
  PROVE  x \notin Takes(Down[i].frees) <=> FreedAt[x] >= i + 1
<1>1. CASE i = 1
  BY <1>1, FreesAre DEF Things, FreedAt
<1>2. CASE i = 2
  BY <1>2, FreesAre DEF Things, FreedAt
<1>3. CASE i = 3
  BY <1>3, FreesAre DEF Things, FreedAt
<1>4. CASE i = 4
  BY <1>4, FreesAre DEF Things, FreedAt
<1>5. CASE i = 5
  BY <1>5, FreesAre DEF Things, FreedAt
<1>6. CASE i = 6
  BY <1>6, FreesAre DEF Things, FreedAt
<1>7. CASE i = 7
  BY <1>7, FreesAre DEF Things, FreedAt
<1>8. CASE i = 8
  BY <1>8, FreesAre DEF Things, FreedAt
<1>9. CASE i = 9
  BY <1>9, FreesAre DEF Things, FreedAt
<1> QED
  BY <1>1, <1>2, <1>3, <1>4, <1>5, <1>6, <1>7, <1>8, <1>9

LEMMA LadderProgram ==
  ASSUME TypeInv, LadderInv, Program
  PROVE  LadderInv'
<1>0. Len(Up) = 13 /\ Len(Down) = 9
  BY LadderLengths
<1>1. CASE StepSucceeds
  <2>1. /\ pc = "setup" /\ at \in 1..13 /\ pc' \in {"setup", "start"}
        /\ held' = held \cup Takes(Up[at].takes)
        /\ pc' = "setup" => at' = at + 1
        /\ pc' = "start" => at = 13
    BY <1>0, <1>1 DEF StepSucceeds, TypeInv
  <2>2. held' = {x \in Things : TakenAt[x] < at + 1}
    BY <2>1, LadderUp DEF LadderInv
  <2>3. \A x \in Things : TakenAt[x] \in 1..13
    BY DEF Things, TakenAt
  <2>4. BasesAreHeld'
    <3>1. at \in Nat
      BY <2>1
    <3>2. /\ TakenAt["display"] <= TakenAt["egl"] /\ TakenAt["display"] <= TakenAt["window"]
          /\ TakenAt["egl"] <= TakenAt["surface"] /\ TakenAt["window"] <= TakenAt["surface"]
          /\ TakenAt["egl"] <= TakenAt["context"] /\ TakenAt["epoll"] <= TakenAt["xReg"]
          /\ TakenAt["display"] <= TakenAt["xReg"] /\ TakenAt["epoll"] <= TakenAt["socketReg"]
          /\ TakenAt["session"] <= TakenAt["socketReg"]
      BY DEF TakenAt
    <3>3. ASSUME NEW x \in Things, NEW y \in Things, TakenAt[y] <= TakenAt[x], x \in held'
          PROVE  y \in held'
      <4>1. TakenAt[x] < at + 1 /\ TakenAt[y] \in Int /\ TakenAt[x] \in Int
        BY <2>2, <2>3, <3>3
      <4> QED
        BY <2>2, <3>1, <3>3, <4>1
    <3>4. \A x \in {"display", "egl", "window", "surface", "context", "epoll", "xReg",
                    "session", "socketReg"} : x \in Things
      BY DEF Things
    <3> HIDE DEF Things, TakenAt
    <3>5. /\ "egl" \in held' => "display" \in held'
          /\ "window" \in held' => "display" \in held'
          /\ "surface" \in held' => "egl" \in held'
          /\ "surface" \in held' => "window" \in held'
          /\ "context" \in held' => "egl" \in held'
          /\ "xReg" \in held' => "epoll" \in held'
          /\ "xReg" \in held' => "display" \in held'
          /\ "socketReg" \in held' => "epoll" \in held'
          /\ "socketReg" \in held' => "session" \in held'
      BY <3>2, <3>3, <3>4
    <3> QED
      BY <3>5 DEF BasesAreHeld
  <2>5. pc' = "start" => Things \subseteq held'
    BY <2>1, <2>2, <2>3
  <2> QED
    BY <2>1, <2>2, <2>4, <2>5 DEF LadderInv, InSession
<1>2. CASE StepFails
  <2>1. /\ pc = "setup" /\ at \in 1..13 /\ pc' = "undo" /\ held' = held
        /\ at' = Label(Up[at].label)
    BY <1>0, <1>2 DEF StepFails, TypeInv
  <2>2. \A x \in held : FreedAt[x] >= at'
    BY <2>1, LadderTurns DEF LadderInv
  <2> QED
    BY <2>1, <2>2 DEF LadderInv, InSession, BasesAreHeld
<1>3. CASE Start \/ Reply \/ SocketReadable \/ SocketHungUp \/ ExitCallback
  <2>1. /\ held' = held /\ pc \in InSession
        /\ pc' \in InSession \cup {"killed"}
    BY <1>3 DEF Start, Reply, LibSends, SocketReadable, SocketHungUp, ExitCallback, InSession
  <2> QED
    BY <2>1 DEF LadderInv, InSession, BasesAreHeld
<1>4. CASE Unregister
  <2>1. held' = held \ {"socketReg"} /\ pc \in InSession /\ pc' = "drain"
    BY <1>4 DEF Unregister, InSession
  <2>2. BasesAreHeld'
    BY <2>1, BasesAre DEF LadderInv, BasesAreHeld
  <2> QED
    BY <2>1, <2>2 DEF LadderInv, InSession
<1>5. CASE Draw
  <2>1. /\ held' = held /\ pc = "drain"
        /\ (pc' = "drain") \/ (pc' = "undo" /\ at' = 1)
    BY <1>5 DEF Draw
  <2>2. \A x \in Things : FreedAt[x] >= 1
    BY DEF Things, FreedAt
  <2> QED
    BY <2>1, <2>2 DEF LadderInv, InSession, BasesAreHeld
<1>6. CASE UndoStep
  <2>1. /\ pc = "undo" /\ at \in 1..9 /\ pc' \in {"undo", "done"}
        /\ held' = held \ Takes(Down[at].frees)
        /\ pc' = "undo" => at' = at + 1
        /\ pc' = "done" => at = 9
    BY <1>0, <1>6 DEF UndoStep, TypeInv
  <2>2. held \subseteq Things /\ \A x \in held : FreedAt[x] >= at
    BY <2>1 DEF LadderInv
  <2>3. \A x \in held' : FreedAt[x] >= at + 1
    BY <2>1, <2>2, LadderDown
  <2>4. \A x \in held : FreedAt[x] >= at + 1 => x \in held'
    BY <2>1, <2>2, LadderDown
  <2>5. \A x \in Things : FreedAt[x] \in 1..8
    BY DEF Things, FreedAt
  <2>6. pc' = "done" => held' = {}
    <3> SUFFICES ASSUME pc' = "done", NEW x \in held' PROVE FALSE
      OBVIOUS
    <3>1. FreedAt[x] >= 10 /\ FreedAt[x] \in 1..8
      BY <2>1, <2>2, <2>3, <2>5
    <3> QED
      BY <3>1
  <2>7. BasesAreHeld'
    <3>1. at \in Nat
      BY <2>1
    <3>2. /\ FreedAt["egl"] < FreedAt["display"] /\ FreedAt["window"] < FreedAt["display"]
          /\ FreedAt["surface"] < FreedAt["egl"] /\ FreedAt["surface"] < FreedAt["window"]
          /\ FreedAt["context"] < FreedAt["egl"] /\ FreedAt["xReg"] < FreedAt["epoll"]
          /\ FreedAt["xReg"] < FreedAt["display"] /\ FreedAt["socketReg"] < FreedAt["epoll"]
          /\ FreedAt["socketReg"] <= FreedAt["session"]
      BY DEF FreedAt
    <3>3. ASSUME NEW x \in Things, NEW y \in Things, FreedAt[x] <= FreedAt[y],
                 x \in held', y \in held
          PROVE  y \in held'
      <4>1. FreedAt[x] >= at + 1 /\ FreedAt[x] \in Int /\ FreedAt[y] \in Int
        BY <2>3, <2>5, <3>3
      <4> QED
        BY <2>4, <3>1, <3>3, <4>1
    <3>4. \A x \in {"display", "egl", "window", "surface", "context", "epoll", "xReg",
                    "session", "socketReg"} : x \in Things /\ FreedAt[x] \in Int
      BY <2>5 DEF Things
    <3>5. ASSUME NEW x \in Things, NEW y \in Things,
                 FreedAt[x] < FreedAt[y] \/ FreedAt[x] <= FreedAt[y],
                 x \in held => y \in held
          PROVE  x \in held' => y \in held'
      <4>1. FreedAt[x] <= FreedAt[y]
        <5>1. FreedAt[x] \in Int /\ FreedAt[y] \in Int
          BY <2>5
        <5> QED
          BY <3>5, <5>1
      <4>2. x \in held' => x \in held
        BY <2>1
      <4> QED
        BY <3>3, <3>5, <4>1, <4>2
    <3> HIDE DEF Things, FreedAt
    <3>6. BasesAreHeld
      BY DEF LadderInv
    <3>7. /\ "egl" \in held' => "display" \in held'
          /\ "window" \in held' => "display" \in held'
          /\ "surface" \in held' => "egl" \in held'
          /\ "surface" \in held' => "window" \in held'
          /\ "context" \in held' => "egl" \in held'
          /\ "xReg" \in held' => "epoll" \in held'
          /\ "xReg" \in held' => "display" \in held'
          /\ "socketReg" \in held' => "epoll" \in held'
          /\ "socketReg" \in held' => "session" \in held'
      BY <3>2, <3>4, <3>5, <3>6, BasesAre
    <3> QED
      BY <3>7 DEF BasesAreHeld
  <2> QED
    BY <2>1, <2>2, <2>3, <2>6, <2>7 DEF LadderInv, InSession
<1> QED
  BY <1>1, <1>2, <1>3, <1>4, <1>5, <1>6 DEF Program, Loop

LEMMA LadderStep == TypeInv /\ LadderInv /\ [Next]_vars => LadderInv'
<1> SUFFICES ASSUME TypeInv, LadderInv, [Next]_vars PROVE LadderInv'
  OBVIOUS
<1>1. CASE Program
  BY <1>1, LadderProgram
<1>2. CASE UNCHANGED <<pc, at, held>>
  BY <1>2 DEF LadderInv, BasesAreHeld
<1>3. Master \/ MasterEnds \/ Kernel \/ Terminated \/ UNCHANGED vars => UNCHANGED <<pc, at, held>>
  BY DEF Master, MasterReads, Modeset, Sigchld, Umounted, Report, MasterSends, Hangup,
         MasterEnds, Kernel, Move, Terminated, vars, progVars
<1> QED
  BY <1>1, <1>2, <1>3 DEF Next

(* While a callback runs, and until the library has done with it, the      *)
(* session it belongs to has not been freed (session.c:307, 385).          *)
THEOREM CallbacksHaveTheirSession == Spec => []SessionIsThere
<1>1. Init => TypeInv /\ LadderInv
  BY TypeInit, LadderInit
<1>2. TypeInv /\ LadderInv /\ [Next]_vars => (TypeInv /\ LadderInv)'
  BY TypeStep, LadderStep
<1>3. LadderInv => SessionIsThere
  BY DEF LadderInv, SessionIsThere, InSession, Things
<1> QED
  BY <1>1, <1>2, <1>3, PTL DEF Spec

(* The clean-up of main() gives everything back, each thing before what it *)
(* was made from, whichever step failed (main.c:275-302).                  *)
THEOREM CleanUpIsOrdered == Spec => []UndoneInOrder
<1>1. Init => TypeInv /\ LadderInv
  BY TypeInit, LadderInit
<1>2. TypeInv /\ LadderInv /\ [Next]_vars => (TypeInv /\ LadderInv)'
  BY TypeStep, LadderStep
<1>3. LadderInv => UndoneInOrder
  BY DEF LadderInv, UndoneInOrder, NothingLeft
<1> QED
  BY <1>1, <1>2, <1>3, PTL DEF Spec

-----------------------------------------------------------------------------
(* The end of the program, without fairness.                               *)

(* How far a program is whose on_exit has been called or whose clean-up    *)
(* has begun: it draws once more, leaves its loop and undoes its ladder.   *)
EndRank == CASE pc = "on_exit"    -> 1
             [] pc = "unregister" -> 2
             [] pc = "drain"      -> IF "socketReg" \in held THEN 0 ELSE 3
             [] pc = "undo"       -> 3 + at
             [] pc = "done"       -> 13
             [] OTHER             -> 0

(* The loop goes on without the socket only when it is to end.             *)
OverInv ==
  /\ pc = "unregister" => toExit
  /\ (pc = "drain" /\ "socketReg" \notin held) => toExit
  /\ pc \in {"start", "on_exit", "unregister", "modeset"} => "socketReg" \in held

(* On its way to its end no step of the program is lost, and none is taken *)
(* back by the master or by a process.                                     *)
Ending == EndRank > 0 => UNCHANGED progVars \/ EndRank' > EndRank
EndAdvances == [][Ending]_vars

LEMMA OthersKeep ==
  Master \/ MasterEnds \/ Kernel \/ Terminated \/ UNCHANGED vars => UNCHANGED progVars
BY DEF Master, MasterReads, Modeset, Sigchld, Umounted, Report, MasterSends, Hangup,
       MasterEnds, Kernel, Move, Terminated, vars, progVars

LEMMA OverInit == Init => OverInv
BY DEF Init, OverInv

LEMMA EndStep ==
  ASSUME TypeInv, LadderInv, OverInv, Program
  PROVE  OverInv' /\ (EndRank > 0 => EndRank' > EndRank)
<1>1. CASE StepSucceeds
  <2>1. at \in 1..13 /\ pc = "setup"
    BY <1>1, LadderLengths DEF StepSucceeds, TypeInv
  <2>2. pc' = "start" => at = 13
    BY <1>1, <2>1, LadderLengths DEF StepSucceeds
  <2>3. pc' = "start" => "socketReg" \in held'
    BY <1>1, <2>2, TakesAre DEF StepSucceeds
  <2>4. pc' \in {"setup", "start"}
    BY <1>1 DEF StepSucceeds
  <2> QED
    BY <2>1, <2>3, <2>4 DEF OverInv, EndRank
<1>2. CASE StepFails
  BY <1>2 DEF StepFails, OverInv, EndRank
<1>3. CASE Start \/ Reply
  BY <1>3 DEF Start, Reply, LibSends, OverInv, EndRank
<1>4. CASE SocketReadable \/ SocketHungUp
  BY <1>4 DEF SocketReadable, SocketHungUp, OverInv, EndRank
<1>5. CASE ExitCallback
  BY <1>5 DEF ExitCallback, OverInv, EndRank
<1>6. CASE Unregister
  BY <1>6 DEF Unregister, OverInv, EndRank
<1>7. CASE Draw
  BY <1>7 DEF Draw, OverInv, EndRank
<1>8. CASE UndoStep
  <2>1. pc = "undo" /\ at \in 1..9 /\ EndRank = 3 + at
    BY <1>8, LadderLengths DEF UndoStep, TypeInv, EndRank
  <2>2. CASE pc' = "done"
    <3>1. EndRank' = 13
      BY <2>2 DEF EndRank
    <3> QED
      BY <2>1, <2>2, <3>1 DEF OverInv
  <2>3. CASE pc' # "done"
    <3>1. pc' = "undo" /\ at' = at + 1
      BY <1>8, <2>3 DEF UndoStep
    <3>2. EndRank' = 3 + at'
      BY <3>1 DEF EndRank
    <3> QED
      BY <2>1, <3>1, <3>2 DEF OverInv
  <2> QED
    BY <2>2, <2>3
<1> QED
  BY <1>1, <1>2, <1>3, <1>4, <1>5, <1>6, <1>7, <1>8 DEF Program, Loop

LEMMA OverStep ==
  ASSUME TypeInv, LadderInv, OverInv, [Next]_vars
  PROVE  OverInv' /\ Ending
<1>1. CASE Program
  BY <1>1, EndStep DEF Ending
<1>2. CASE UNCHANGED progVars
  BY <1>2 DEF progVars, OverInv, Ending
<1> QED
  BY <1>1, <1>2, OthersKeep DEF Next

(* A program whose session is over, or whose set-up failed, is at its end  *)
(* after at most 12 more steps of its own (258-302 of xsubsession/main.c): *)
(* on_exit, unregister_fd, one look at to_exit and its clean-up, none of   *)
(* which waits for anything.                                               *)
THEOREM OnExitEndsTheProgram == Spec => [](EndRank \in 0..13) /\ EndAdvances
<1>1. Init => TypeInv /\ LadderInv /\ OverInv
  BY TypeInit, LadderInit, OverInit
<1>2. TypeInv /\ LadderInv /\ OverInv /\ [Next]_vars => (TypeInv /\ LadderInv /\ OverInv)'
  BY TypeStep, LadderStep, OverStep
<1>3. TypeInv /\ LadderInv /\ OverInv /\ [Next]_vars => [Ending]_vars
  BY OverStep
<1>4. TypeInv => EndRank \in 0..13
  <2> SUFFICES ASSUME TypeInv PROVE EndRank \in 0..13
    OBVIOUS
  <2>1. CASE pc = "undo"
    <3>1. at \in 1..9 /\ EndRank = 3 + at
      BY <2>1, LadderLengths DEF TypeInv, EndRank
    <3> QED
      BY <3>1
  <2>2. CASE pc # "undo"
    BY <2>2 DEF EndRank
  <2> QED
    BY <2>1, <2>2
<1> QED
  BY <1>1, <1>2, <1>3, <1>4, PTL DEF Spec, EndAdvances
=============================================================================
