----------------------------- MODULE MasterSetup -----------------------------
(***************************************************************************)
(* The ladder of the session master: main() of setuid/main.c takes one     *)
(* thing after the other, by itself and in card_new, tty_new, symlinks_new *)
(* and umountfs_new; when a step fails, a goto runs the rest of the        *)
(* clean-up from a label on.  The *_new functions are ladders of the same  *)
(* form, whose clean-up is also that of *_free: their labels stand here in *)
(* the one clean-up of main.                                               *)
(***************************************************************************)
EXTENDS Naturals, Sequences

CONSTANT MayFail   \* the steps that may fail

VARIABLES mpc,   \* none, setup, loop, undo, done
          at,    \* the next step of the set-up, or of the clean-up
          held,  \* what the master has taken
          told   \* what it has told the library: nothing, or the result

masterVars == <<mpc, at, held, told>>

Step(name, label) == [takes |-> name, label |-> label]

(* The steps of main, up to the directories.  "root" stands for the signal *)
(* mask, the uid and the close-on-exec flag, "chmod" for the two chmod     *)
(* calls; those take nothing.                                              *)
ProcessUp == << Step("epoll", "e_epoll"),
                Step("socketReg", "e_register_socket"),
                Step("sigfd", "e_sigfd"),
                Step("sigfdReg", "e_register_sigfd"),
                Step("root", "e_mkdtemp") >>

DirectoriesUp == << Step("tmp", "e_mkdtemp"), Step("chmod", "e_chmod"),
                    Step("oldDev", "e_chmod"), Step("newDev", "e_new_dev"),
                    Step("nothing", "e_umountfs"),
                    Step("devDir", "e_mkdtemp_dev"),
                    Step("chmod", "e_chmod_dev"),
                    Step("cardFd", "e_chmod_dev") >>

CardUp == << Step("card", "e_card_new"), Step("cardCuse", "card:e_cuse"),
             Step("timerfd", "card:e_timerfd"),
             Step("cardCuseReg", "card:e_register_cuse"),
             Step("timerReg", "card:e_register_timerfd"),
             Step("cardDevice", "card:e_initialize") >>

TtyUp == << Step("tty", "e_tty_new"), Step("ttyCuse", "tty:e_open_dev_cuse"),
            Step("ttyReg", "tty:e_register_fd"),
            Step("ttyDevice", "tty:e_init") >>

SymlinksUp == << Step("symlinks", "e_symlinks_new"),
                 Step("entries", "symlinks:e_fill_new_dev") >>

UmountfsUp == << Step("umountfs", "e_umountfs_new"),
                 Step("fuse", "umountfs:e_open"),
                 Step("mount", "umountfs:e_mount"),
                 Step("fuseReg", "umountfs:e_register_fd") >>

Up == ProcessUp \o DirectoriesUp \o CardUp \o TtyUp \o SymlinksUp \o UmountfsUp

-----------------------------------------------------------------------------
(* The clean-up: what each statement gives back, and the labels before it. *)
Undo(labels, name) == [labels |-> labels, frees |-> name]

(* At umountfs:e_register_fd stands "if(!e) umount", where e is never NULL.*)
UmountfsDown == << Undo({}, "mount"), Undo({}, "fuseReg"),
                   Undo({"umountfs:e_register_fd", "umountfs:e_mount"}, "fuse"),
                   Undo({"umountfs:e_open"}, "umountfs") >>

SymlinksDown == << Undo({"e_umountfs_new", "symlinks:e_fill_new_dev"}, "entries"),
                   Undo({}, "symlinks") >>

TtyDown == << Undo({"e_symlinks_new", "tty:e_init"}, "ttyReg"),
              Undo({"tty:e_register_fd"}, "ttyCuse"),
              Undo({"tty:e_open_dev_cuse"}, "tty") >>

(* A bug to catch: the descriptor is closed before it is unregistered.     *)
CardDownSwapped == << Undo({"e_tty_new", "card:e_initialize"}, "timerReg"),
                      Undo({"card:e_register_timerfd"}, "timerfd"),
                      Undo({"card:e_register_cuse"}, "cardCuse"),
                      Undo({"card:e_timerfd"}, "cardCuseReg"),
                      Undo({"card:e_cuse"}, "card") >>

CardDown == << Undo({"e_tty_new", "card:e_initialize"}, "timerReg"),
               Undo({"card:e_register_timerfd"}, "cardCuseReg"),
               Undo({"card:e_register_cuse"}, "timerfd"),
               Undo({"card:e_timerfd"}, "cardCuse"),
               Undo({"card:e_cuse"}, "card") >>

DirectoriesDown == << Undo({"e_card_new"}, "cardFd"),
                      Undo({"e_chmod_dev"}, "devDir"),
                      Undo({"e_mkdtemp_dev"}, "nothing"),
                      Undo({"e_umountfs"}, "newDev"),
                      Undo({"e_new_dev"}, "oldDev"),
                      Undo({"e_chmod"}, "tmp") >>

(* A bug to catch: the result is sent first.                               *)
ProcessDownEager == << Undo({"e_mkdtemp"}, "result"), Undo({}, "sigfdReg"),
                       Undo({"e_register_sigfd"}, "sigfd"),
                       Undo({"e_sigfd"}, "socketReg"),
                       Undo({"e_register_socket"}, "epoll"),
                       Undo({"e_epoll"}, "socket") >>

(* "result" tells the library that the set-up failed, if it did.           *)
ProcessDown == << Undo({"e_mkdtemp"}, "sigfdReg"),
                  Undo({"e_register_sigfd"}, "sigfd"),
                  Undo({"e_sigfd"}, "socketReg"),
                  Undo({"e_register_socket"}, "epoll"),
                  Undo({"e_epoll"}, "result"), Undo({}, "socket") >>

Down == UmountfsDown \o SymlinksDown \o TtyDown \o CardDown
          \o DirectoriesDown \o ProcessDown

Label(l) == CHOOSE i \in 1..Len(Down) : l \in Down[i].labels

-----------------------------------------------------------------------------
(* What keeps a directory from being removed, and what goes with a thing.  *)
Inside(name) ==
  CASE name = "tmp"     -> {"oldDev", "newDev", "nothing"}
    [] name = "newDev"  -> {"entries"}
    [] name = "nothing" -> {"mount"}
    [] name = "devDir"  -> {"cardDevice", "ttyDevice"}
    [] OTHER            -> {}

GoneWith(name) ==
  CASE name = "cardCuse" -> {"cardCuse", "cardDevice"}
    [] name = "ttyCuse"  -> {"ttyCuse", "ttyDevice"}
    [] OTHER             -> {name}

Takes(name) == IF name \in {"root", "chmod"} THEN {} ELSE {name}

(* The statements that first ask whether there is something to give back,  *)
(* or do nothing if there is not.                                          *)
Guarded == {"mount", "fuseReg", "entries"}

(* A step succeeds; the last one is followed by INIT_SUCCESS.              *)
StepSucceeds ==
  /\ mpc = "setup"
  /\ held' = held \cup Takes(Up[at].takes)
  /\ IF at = Len(Up) THEN mpc' = "loop" /\ told' = "INIT_SUCCESS" /\ UNCHANGED at
                     ELSE at' = at + 1 /\ UNCHANGED <<mpc, told>>

(* The step fails and the clean-up starts at its label.  link_dir may fail *)
(* after it made some entries.                                             *)
StepFails ==
  /\ mpc = "setup"
  /\ Up[at].takes \in MayFail
  /\ \/ UNCHANGED held
     \/ Up[at].takes = "entries" /\ held' = held \cup {"entries"}
  /\ mpc' = "undo"
  /\ at' = Label(Up[at].label)
  /\ UNCHANGED told

(* The event loop has ended: the clean-up from its start.                  *)
LoopEnded ==
  /\ mpc' = "undo"
  /\ at' = 1
  /\ UNCHANGED <<held, told>>

(* One statement of the clean-up; after the last one main returns.         *)
UndoStep ==
  /\ mpc = "undo"
  /\ LET name == Down[at].frees IN
       /\ held' = IF Inside(name) \cap held # {} THEN held
                                                 ELSE held \ GoneWith(name)
       /\ told' = IF name = "result" /\ told = "nothing" THEN "INIT_FAILURE"
                                                         ELSE told
  /\ IF at = Len(Down) THEN mpc' = "done" /\ UNCHANGED at
                       ELSE at' = at + 1 /\ UNCHANGED mpc

SetupNext == StepSucceeds \/ StepFails \/ UndoStep
=============================================================================
