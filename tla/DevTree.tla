------------------------------- MODULE DevTree -------------------------------
(***************************************************************************)
(* The copy of /dev that a session sees (setuid/symlinks.c).  link_dir     *)
(* walks /dev, which changes under it: devices come and go, and so do the  *)
(* directories of other session masters.  Two strings, orig and from, name *)
(* the place in /dev and in the copy; the recursion appends to them and    *)
(* cuts them in place.  They only differ in their beginning, so one path   *)
(* stands for both.  Errors other than those of a path that is gone or     *)
(* there already, and paths too long for PATH_BUF, are left out.           *)
(***************************************************************************)
EXTENDS Naturals, Sequences

CONSTANTS Name,       \* the names of entries; a path is a sequence of them
          Kind,       \* what each path below /dev is: dir, node or other
          Own,        \* the nodes the session has a device of its own for
          Depth,      \* how deep link_dir goes
          MaxChanges  \* bound: how often /dev changes during the walk

Universe == DOMAIN Kind
Root == <<>>
Parent(p) == SubSeq(p, 1, Len(p) - 1)
Children(d) == {p \in Universe : Parent(p) = d}

(* What a path leads through.                                              *)
Above(p) == {SubSeq(p, 1, k) : k \in 1..(Len(p) - 1)}

ASSUME DevTreeAssumption ==
  /\ \A p \in Universe : p \in Seq(Name) /\ Len(p) > 0
                          /\ Kind[p] \in {"dir", "node", "other"}
  /\ \A p \in Universe : Above(p) \subseteq {d \in Universe : Kind[d] = "dir"}
  /\ Own \subseteq {p \in Universe : Kind[p] = "node"}
  /\ Depth \in Nat \ {0} /\ MaxChanges \in Nat

VARIABLES present,  \* what there is in /dev
          changed,  \* what came or went since the walk began
          changes,  \* how often
          path,     \* orig and from
          frames,   \* the calls of link_dir: the directory read, the length
                    \* of the path, the entries readdir must and may return
          pc,
          newDev    \* the copy

devVars == <<present, changed, changes>>
vars == <<present, changed, changes, path, frames, pc, newDev>>

IsTree(s) == \A p \in s : Above(p) \subseteq s

Frame == [dir : {Root} \cup Universe, len : Nat,
          must : SUBSET Universe, may : SUBSET Universe]
Entry == [path : Universe, as : {"dir", "node", "own", "link"}]

TypeOK ==
  /\ present \subseteq Universe /\ IsTree(present)
  /\ changed \subseteq Universe /\ changes \in 0..MaxChanges
  /\ path \in {Root} \cup Universe
  /\ frames \in Seq(Frame) /\ Len(frames) <= Depth
  /\ pc \in {"open", "read", "stat", "copy", "done", "failed", "cleared"}
  /\ newDev \subseteq Entry

Init == /\ present \in {s \in SUBSET Universe : IsTree(s)}
        /\ changed = {} /\ changes = 0
        /\ path = Root /\ frames = <<>>
        /\ pc = "open" /\ newDev = {}

-----------------------------------------------------------------------------
(* The rest of the system.  readdir returns what is there from opendir on; *)
(* whether it returns what comes or goes in between is open.               *)
Change(p) ==
  /\ changes < MaxChanges
  /\ changes' = changes + 1
  /\ changed' = changed \cup {p}
  /\ UNCHANGED <<path, pc, newDev>>

Appear(p) ==
  /\ p \notin present
  /\ Parent(p) \in present \cup {Root}
  /\ Change(p)
  /\ present' = present \cup {p}
  /\ frames' = [i \in DOMAIN frames |->
                  IF frames[i].dir = Parent(p)
                  THEN [frames[i] EXCEPT !.may = @ \cup {p}] ELSE frames[i]]

Vanish(p) ==
  /\ p \in present
  /\ Children(p) \cap present = {}
  /\ Change(p)
  /\ present' = present \ {p}
  /\ frames' = [i \in DOMAIN frames |->
                  [frames[i] EXCEPT !.must = @ \ {p}]]

-----------------------------------------------------------------------------
Top == frames[Len(frames)]
Pop == SubSeq(frames, 1, Len(frames) - 1)
Copied == {e.path : e \in newDev}
Cut(len) == SubSeq(path, 1, len)

Fail == pc' = "failed" /\ UNCHANGED <<devVars, path, frames, newDev>>

(* A bug to catch: the limit is taken for the depth of the last directory. *)
TooDeepByOne == Len(frames) + 1 = Depth

TooDeep == Len(frames) = Depth

(* The beginning of link_dir.                                              *)
Open ==
  /\ pc = "open"
  /\ \/ TooDeep /\ Fail
     \/ path \notin present \cup {Root} /\ Fail
     \/ /\ ~TooDeep
        /\ path \in present \cup {Root}
        /\ LET there == Children(path) \cap present IN
             frames' = Append(frames, [dir |-> path, len |-> Len(path),
                                       must |-> there, may |-> there])
        /\ pc' = "read"
        /\ UNCHANGED <<devVars, path, newDev>>

ReadEntry ==
  /\ pc = "read"
  /\ \E e \in Top.may :
       /\ path' = Append(path, e[Len(e)])
       /\ frames' = Append(Pop, [Top EXCEPT !.must = @ \ {e}, !.may = @ \ {e}])
  /\ pc' = "stat"
  /\ UNCHANGED <<devVars, newDev>>

(* A bug to catch: the path is not cut when a directory has been copied.   *)
EndOfDirUncut ==
  /\ pc = "read" /\ Top.must = {}
  /\ frames' = Pop
  /\ pc' = IF Len(frames) = 1 THEN "done" ELSE "read"
  /\ UNCHANGED <<devVars, newDev, path>>

(* readdir is at its end: link_dir returns, and its caller cuts the path.  *)
EndOfDir ==
  /\ pc = "read" /\ Top.must = {}
  /\ frames' = Pop
  /\ \/ Len(frames) = 1 /\ pc' = "done" /\ UNCHANGED path
     \/ /\ Len(frames) > 1 /\ pc' = "read"
        /\ path' = Cut(frames[Len(frames) - 1].len)
  /\ UNCHANGED <<devVars, newDev>>

(* lstat, and mkdir for a directory.                                       *)
Stat ==
  /\ pc = "stat"
  /\ \/ path \notin present /\ Fail
     \/ path \in present /\ Kind[path] = "dir" /\ path \in Copied /\ Fail
     \/ /\ path \in present /\ Kind[path] = "dir" /\ path \notin Copied
        /\ newDev' = newDev \cup {[path |-> path, as |-> "dir"]}
        /\ pc' = "open"
        /\ UNCHANGED <<devVars, path, frames>>
     \/ /\ path \in present /\ Kind[path] # "dir"
        /\ pc' = "copy"
        /\ UNCHANGED <<devVars, path, frames, newDev>>

(* A bug to catch: filter goes by the name of the entry.                   *)
RedirectedByName(p) == p[Len(p)] \in {q[Len(q)] : q \in Own}

(* filter of setuid/main.c goes by the whole path.                         *)
Redirected(p) == p \in Own

Copy(p) == [path |-> p,
            as |-> CASE Kind[p] = "dir"   -> "dir"
                     [] Kind[p] = "other" -> "link"
                     [] Kind[p] = "node" /\ Redirected(p) -> "own"
                     [] OTHER -> "node"]

(* copy_device, which asks lstat again, and the end of the loop.           *)
CopyDevice ==
  /\ pc = "copy"
  /\ \/ (path \notin present \/ path \in Copied) /\ Fail
     \/ /\ path \in present \ Copied
        /\ newDev' = newDev \cup {Copy(path)}
        /\ path' = Cut(Top.len)
        /\ pc' = "read"
        /\ UNCHANGED <<devVars, frames>>

(* clear_new_dev, when the walk failed and when the session is over.       *)
Clear ==
  /\ pc \in {"failed", "done"}
  /\ newDev' = {}
  /\ pc' = "cleared"
  /\ UNCHANGED <<devVars, path, frames>>

Walk == Open \/ ReadEntry \/ EndOfDir \/ Stat \/ CopyDevice \/ Clear

Next == Walk \/ \E p \in Universe : Appear(p) \/ Vanish(p)

Spec == Init /\ [][Next]_vars

-----------------------------------------------------------------------------
(* Each open directory is the one the strings name up to the length its    *)
(* call remembers, however deep the walk has been in between, and whatever *)
(* came and went (orig_len and from_len, symlinks.c:132).                  *)
PathFollowsFrames ==
  pc # "cleared" =>
    /\ \A i \in DOMAIN frames : frames[i].dir = Cut(frames[i].len)
    /\ pc = "read" => path = Top.dir
    /\ pc \in {"stat", "copy"} => Parent(path) = Top.dir

(* A walk that succeeds has copied all that was there all the time, each   *)
(* as what it is, and nothing that was not there at some time.             *)
Mirrored ==
  pc = "done" =>
    /\ {e \in newDev : e.path \notin changed} = {[path |-> p,
          as |-> IF p \in Own THEN "own"
                 ELSE IF Kind[p] = "other" THEN "link" ELSE Kind[p]] :
                                                     p \in present \ changed}
    /\ Copied \subseteq present \cup changed

(* Only a change of /dev, or a directory too deep, makes the walk fail:    *)
(* in a quiet /dev the two lstat agree and no entry is made twice.         *)
QuietDevIsCopied ==
  pc = "failed" => \/ changed # {}
                   \/ \E p \in present : Kind[p] = "dir" /\ Len(p) >= Depth
=============================================================================
