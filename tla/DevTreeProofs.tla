---------------------------- MODULE DevTreeProofs ----------------------------
(***************************************************************************)
(* What is proved of the walk through /dev, for any tree and any changes.  *)
(***************************************************************************)
EXTENDS DevTree, SequenceTheorems, TLAPS

Prefix(p, k) == SubSeq(p, 1, k)
Walking == pc \in {"open", "read", "stat", "copy"}

(* The frames are those of the directories the path leads through.         *)
FrameInv ==
  \A i \in 1..Len(frames) :
    /\ frames[i].len = i - 1 /\ i - 1 <= Len(path)
    /\ frames[i].dir = Prefix(path, i - 1)
    /\ frames[i].must \subseteq frames[i].may
    /\ frames[i].may \subseteq Children(frames[i].dir)
    /\ frames[i].may \subseteq present \cup changed

(* How long the path is, and what it names.                                *)
PathInv ==
  /\ pc = "open" => /\ Len(path) = Len(frames)
                    /\ path # Root => Kind[path] = "dir" /\ path \in Copied
  /\ pc = "read" => Len(frames) > 0 /\ Len(path) = Len(frames) - 1
  /\ pc \in {"stat", "copy"} => /\ Len(frames) > 0 /\ Len(path) = Len(frames)
                                /\ path \in present \cup changed
  /\ pc = "copy" => Kind[path] # "dir"
  /\ pc = "done" => frames = <<>>

Quiet == present \ changed

(* A path that was there all the time was led to all the time.             *)
QuietInv == \A p \in Quiet : \A k \in 1..Len(p) : Prefix(p, k) \in Quiet

As(p) == IF p \in Own THEN "own" ELSE IF Kind[p] = "other" THEN "link" ELSE Kind[p]

(* The copy holds what was there, as what it is.                           *)
SourceInv ==
  \A e \in newDev : e.path \in present \cup changed /\ e.as = As(e.path)

(* No directory the path leads through will be read again.                 *)
OnceInv ==
  Walking =>
    \A i \in 1..Len(frames), k \in 1..Len(path) :
      Prefix(path, k) \in frames[i].may => Prefix(path, k) \in changed

(* Nothing that was copied will be read again.                             *)
CopiedInv ==
  Walking =>
    /\ \A p \in Copied \ changed : \A k \in 1..Len(p) :
         /\ \A i \in 1..Len(frames) : Prefix(p, k) \notin frames[i].may
         /\ pc \in {"stat", "copy"} => Prefix(p, k) # path
         /\ pc = "open" /\ Prefix(p, k) = path => k = Len(p)
    /\ pc = "open" /\ path = Root => newDev = {}

(* What was there all the time is copied, or the walk will come by it.     *)
Pending(q) == \/ pc \in {"open", "stat", "copy"} /\ q = path
              \/ \E i \in 1..Len(frames) : q \in frames[i].must
PendInv ==
  Walking \/ pc = "done" =>
    \A p \in Quiet \ Copied : \E k \in 0..Len(p) : Pending(Prefix(p, k))

IInv == /\ TypeOK /\ FrameInv /\ PathInv /\ QuietInv /\ SourceInv
        /\ OnceInv /\ CopiedInv /\ PendInv /\ QuietDevIsCopied
-----------------------------------------------------------------------------
(* Paths and the paths above them.                                         *)
LEMMA PrefixFacts ==
  ASSUME NEW p \in Seq(Name), NEW k \in 0..Len(p)
  PROVE  /\ Prefix(p, k) \in Seq(Name) /\ Len(Prefix(p, k)) = k
         /\ \A j \in 1..k : Prefix(p, k)[j] = p[j]
BY DEF Prefix

LEMMA PrefixEqual ==
  ASSUME NEW p \in Seq(Name), NEW q \in Seq(Name), NEW k \in Nat,
         k <= Len(p), k <= Len(q), \A j \in 1..k : p[j] = q[j]
  PROVE  Prefix(p, k) = Prefix(q, k)
<1>1. Prefix(p, k) \in Seq(Name) /\ Prefix(q, k) \in Seq(Name)
  BY PrefixFacts
<1>2. Len(Prefix(p, k)) = k /\ Len(Prefix(q, k)) = k
  BY PrefixFacts
<1>3. \A j \in 1..k : Prefix(p, k)[j] = Prefix(q, k)[j]
  BY PrefixFacts
<1> QED
  BY <1>1, <1>2, <1>3, SeqEqual

LEMMA PrefixWhole ==
  ASSUME NEW p \in Seq(Name)
  PROVE  Prefix(p, Len(p)) = p
BY SubSeqFull DEF Prefix

LEMMA PrefixZero ==
  ASSUME NEW p \in Seq(Name)
  PROVE  Prefix(p, 0) = <<>>
BY SubSeqEmpty DEF Prefix

LEMMA PrefixOfPrefix ==
  ASSUME NEW p \in Seq(Name), NEW k \in 0..Len(p), NEW j \in 0..k
  PROVE  Prefix(Prefix(p, k), j) = Prefix(p, j)
<1>1. /\ Prefix(p, k) \in Seq(Name) /\ Len(Prefix(p, k)) = k
      /\ \A i \in 1..k : Prefix(p, k)[i] = p[i]
  BY PrefixFacts
<1> QED
  BY <1>1, PrefixEqual

LEMMA ParentOfPrefix ==
  ASSUME NEW p \in Seq(Name), NEW k \in 1..Len(p)
  PROVE  Parent(Prefix(p, k)) = Prefix(p, k - 1)
<1>1. Len(Prefix(p, k)) = k
  BY PrefixFacts
<1>2. Parent(Prefix(p, k)) = Prefix(Prefix(p, k), k - 1)
  BY <1>1 DEF Parent, Prefix
<1> QED
  BY <1>2, PrefixOfPrefix

LEMMA AppendedBack ==
  ASSUME NEW p \in Seq(Name), Len(p) > 0
  PROVE  Append(Parent(p), p[Len(p)]) = p
<1> DEFINE q == Append(Parent(p), p[Len(p)])
<1>1. Parent(p) = Prefix(p, Len(p) - 1)
  BY DEF Parent, Prefix
<1>2. /\ Parent(p) \in Seq(Name) /\ Len(Parent(p)) = Len(p) - 1
      /\ \A j \in 1..(Len(p) - 1) : Parent(p)[j] = p[j]
  BY <1>1, PrefixFacts
<1>3. p[Len(p)] \in Name
  OBVIOUS
<1>4. /\ q \in Seq(Name) /\ Len(q) = Len(Parent(p)) + 1
      /\ \A j \in 1..Len(Parent(p)) : q[j] = Parent(p)[j]
      /\ q[Len(Parent(p)) + 1] = p[Len(p)]
  BY <1>2, <1>3, AppendProperties
<1> HIDE DEF q
<1>5. Len(q) = Len(p)
  BY <1>2, <1>4
<1>6. \A j \in 1..Len(p) : q[j] = p[j]
  <2>1. \A j \in 1..(Len(p) - 1) : q[j] = p[j]
    BY <1>2, <1>4
  <2>2. q[Len(p)] = p[Len(p)]
    BY <1>2, <1>4
  <2> QED
    BY <2>1, <2>2
<1>7. q = p
  BY <1>4, <1>5, <1>6, SeqEqual
<1> QED
  BY <1>7 DEF q

(* Paths of the universe, and what is above them.                          *)
LEMMA UniverseFacts ==
  ASSUME NEW p \in Universe
  PROVE  /\ p \in Seq(Name) /\ Len(p) \in Nat /\ Len(p) > 0 /\ p # Root
         /\ Kind[p] \in {"dir", "node", "other"}
         /\ \A k \in 1..(Len(p) - 1) : Prefix(p, k) \in Universe /\ Kind[Prefix(p, k)] = "dir"
         /\ \A k \in 1..Len(p) : Prefix(p, k) \in Universe
<1>1. /\ p \in Seq(Name) /\ Len(p) > 0
      /\ Kind[p] \in {"dir", "node", "other"}
  BY DevTreeAssumption
<1>2. Len(p) \in Nat /\ p # Root
  BY <1>1 DEF Root
<1>3. \A k \in 1..(Len(p) - 1) : Prefix(p, k) \in Universe /\ Kind[Prefix(p, k)] = "dir"
  BY DevTreeAssumption DEF Above, Prefix
<1>4. Prefix(p, Len(p)) \in Universe
  BY <1>1, PrefixWhole
<1> QED
  BY <1>1, <1>2, <1>3, <1>4

LEMMA RootFacts == Root \in Seq(Name) /\ Len(Root) = 0
BY DEF Root

LEMMA ChildFacts ==
  ASSUME NEW d \in {Root} \cup Universe, NEW p \in Children(d)
  PROVE  /\ p \in Universe /\ Parent(p) = d
         /\ Len(d) \in Nat /\ Len(p) = Len(d) + 1
         /\ Append(d, p[Len(p)]) = p
         /\ \A k \in 0..Len(d) : Prefix(p, k) = Prefix(d, k)
<1>1. p \in Universe /\ Parent(p) = d
  BY DEF Children
<1>2. p \in Seq(Name) /\ Len(p) \in Nat /\ Len(p) > 0
  BY <1>1, UniverseFacts
<1>3. d = Prefix(p, Len(p) - 1)
  BY <1>1 DEF Parent, Prefix
<1>4. Len(d) = Len(p) - 1
  <2>1. Len(p) - 1 \in 0..Len(p)
    BY <1>2
  <2>2. Len(Prefix(p, Len(p) - 1)) = Len(p) - 1
    BY <1>2, <2>1, PrefixFacts
  <2> QED
    BY <1>3, <2>2
<1>5. \A k \in 0..Len(d) : Prefix(p, k) = Prefix(d, k)
  BY <1>2, <1>3, <1>4, PrefixOfPrefix
<1>6. Append(d, p[Len(p)]) = p
  BY <1>1, <1>2, AppendedBack
<1> QED
  BY <1>1, <1>2, <1>4, <1>5, <1>6

LEMMA TreeFacts ==
  ASSUME present \subseteq Universe, IsTree(present), NEW p \in present
  PROVE  \A k \in 1..Len(p) : Prefix(p, k) \in present
<1>1. p \in Seq(Name) /\ Len(p) \in Nat
  BY UniverseFacts
<1>2. \A k \in 1..(Len(p) - 1) : Prefix(p, k) \in present
  BY DEF IsTree, Above, Prefix
<1>3. Prefix(p, Len(p)) \in present
  BY <1>1, PrefixWhole
<1> QED
  BY <1>1, <1>2, <1>3

(* What has nothing below it is above nothing else.                        *)
LEMMA NothingBelow ==
  ASSUME present \subseteq Universe, IsTree(present),
         NEW p, Children(p) \cap present = {},
         NEW q \in present, q # p
  PROVE  \A k \in 1..Len(q) : Prefix(q, k) # p
<1>1. q \in Seq(Name) /\ Len(q) \in Nat
  BY UniverseFacts
<1>2. ASSUME NEW k \in 1..Len(q), Prefix(q, k) = p PROVE FALSE
  <2>1. k # Len(q)
    BY <1>1, <1>2, PrefixWhole
  <2>2. k + 1 \in 1..Len(q)
    BY <1>1, <2>1
  <2>3. Prefix(q, k + 1) \in present
    BY <2>2, TreeFacts
  <2>4. Parent(Prefix(q, k + 1)) = p
    BY <1>1, <1>2, <2>2, ParentOfPrefix
  <2> QED
    BY <2>3, <2>4 DEF Children
<1> QED
  BY <1>2
-----------------------------------------------------------------------------
(* What the steps do to the frames.                                        *)
LEMMA FrameFacts ==
  ASSUME NEW f \in Frame
  PROVE  /\ f.dir \in {Root} \cup Universe /\ f.len \in Nat
         /\ f.must \subseteq Universe /\ f.may \subseteq Universe
         /\ \A d \in {Root} \cup Universe, n \in Nat, a, b \in SUBSET Universe :
              [dir |-> d, len |-> n, must |-> a, may |-> b] \in Frame
         /\ f = [dir |-> f.dir, len |-> f.len, must |-> f.must, may |-> f.may]
BY DEF Frame

LEMMA FrameExcept ==
  ASSUME NEW f \in Frame, NEW a \in SUBSET Universe, NEW b \in SUBSET Universe
  PROVE  /\ [f EXCEPT !.may = b] = [dir |-> f.dir, len |-> f.len, must |-> f.must, may |-> b]
         /\ [f EXCEPT !.must = a] = [dir |-> f.dir, len |-> f.len, must |-> a, may |-> f.may]
         /\ [f EXCEPT !.may = b] \in Frame /\ [f EXCEPT !.must = a] \in Frame
<1>1. f = [dir |-> f.dir, len |-> f.len, must |-> f.must, may |-> f.may]
  BY DEF Frame
<1>2. [f EXCEPT !.may = b] = [dir |-> f.dir, len |-> f.len, must |-> f.must, may |-> b]
  BY <1>1
<1>3. [f EXCEPT !.must = a] = [dir |-> f.dir, len |-> f.len, must |-> a, may |-> f.may]
  BY <1>1
<1>4. [f EXCEPT !.may = b] \in Frame /\ [f EXCEPT !.must = a] \in Frame
  BY DEF Frame
<1> QED
  BY <1>2, <1>3, <1>4

LEMMA FrameWithout ==
  ASSUME NEW f \in Frame, NEW e
  PROVE  LET x == [f EXCEPT !.must = @ \ {e}, !.may = @ \ {e}] IN
           /\ x \in Frame /\ x.dir = f.dir /\ x.len = f.len
           /\ x.must = f.must \ {e} /\ x.may = f.may \ {e}
<1> DEFINE x == [f EXCEPT !.must = @ \ {e}, !.may = @ \ {e}]
<1>1. x \in Frame
  BY DEF Frame
<1>2. /\ x.dir = f.dir /\ x.len = f.len
      /\ x.must = f.must \ {e} /\ x.may = f.may \ {e}
  BY DEF Frame
<1> QED
  BY <1>1, <1>2

LEMMA FunctionIsSeq ==
  ASSUME NEW S, NEW n \in Nat, NEW s \in [1..n -> S]
  PROVE  s \in Seq(S) /\ Len(s) = n
<1>1. s \in Seq(S)
  BY SeqDef
<1>2. Len(s) \in Nat /\ DOMAIN s = 1..Len(s)
  BY <1>1, LenProperties
<1> QED
  BY <1>1, <1>2

LEMMA AppearStep ==
  ASSUME TypeOK, NEW p \in Universe, Appear(p)
  PROVE  /\ UNCHANGED <<path, pc, newDev>>
         /\ p \notin present /\ Parent(p) \in present \cup {Root}
         /\ present' = present \cup {p} /\ changed' = changed \cup {p}
         /\ changes' \in 0..MaxChanges
         /\ frames' \in Seq(Frame) /\ Len(frames') = Len(frames)
         /\ \A i \in 1..Len(frames) :
              /\ frames'[i].dir = frames[i].dir /\ frames'[i].len = frames[i].len
              /\ frames'[i].must = frames[i].must
              /\ frames'[i].may = IF frames[i].dir = Parent(p)
                                    THEN frames[i].may \cup {p} ELSE frames[i].may
<1> DEFINE g(i) == IF frames[i].dir = Parent(p)
                     THEN [frames[i] EXCEPT !.may = @ \cup {p}] ELSE frames[i]
<1>1. /\ UNCHANGED <<path, pc, newDev>>
      /\ p \notin present /\ Parent(p) \in present \cup {Root}
      /\ present' = present \cup {p} /\ changed' = changed \cup {p}
      /\ frames' = [i \in DOMAIN frames |-> g(i)]
  BY DEF Appear, Change
<1>2. changes' \in 0..MaxChanges
  BY DevTreeAssumption DEF Appear, Change, TypeOK
<1>3. frames \in Seq(Frame) /\ DOMAIN frames = 1..Len(frames) /\ Len(frames) \in Nat
  BY DEF TypeOK
<1>4. ASSUME NEW i \in 1..Len(frames)
      PROVE  /\ g(i) \in Frame
             /\ g(i).dir = frames[i].dir /\ g(i).len = frames[i].len
             /\ g(i).must = frames[i].must
             /\ g(i).may = IF frames[i].dir = Parent(p)
                             THEN frames[i].may \cup {p} ELSE frames[i].may
  <2>1. frames[i] \in Frame
    BY <1>3
  <2>2. frames[i].may \cup {p} \in SUBSET Universe
    BY <2>1, FrameFacts
  <2>3. /\ [frames[i] EXCEPT !.may = @ \cup {p}] \in Frame
        /\ [frames[i] EXCEPT !.may = @ \cup {p}]
             = [dir |-> frames[i].dir, len |-> frames[i].len,
                must |-> frames[i].must, may |-> frames[i].may \cup {p}]
    BY <2>1, <2>2, FrameFacts, FrameExcept
  <2> QED
    BY <2>1, <2>3
<1> HIDE DEF g
<1>5. frames' \in Seq(Frame) /\ Len(frames') = Len(frames)
  <2>1. frames' \in [1..Len(frames) -> Frame]
    BY <1>1, <1>3, <1>4
  <2> QED
    BY <1>3, <2>1, FunctionIsSeq
<1>6. \A i \in 1..Len(frames) : frames'[i] = g(i)
  BY <1>1, <1>3
<1> QED
  BY <1>1, <1>2, <1>4, <1>5, <1>6

LEMMA VanishStep ==
  ASSUME TypeOK, NEW p \in Universe, Vanish(p)
  PROVE  /\ UNCHANGED <<path, pc, newDev>>
         /\ p \in present /\ Children(p) \cap present = {}
         /\ present' = present \ {p} /\ changed' = changed \cup {p}
         /\ changes' \in 0..MaxChanges
         /\ frames' \in Seq(Frame) /\ Len(frames') = Len(frames)
         /\ \A i \in 1..Len(frames) :
              /\ frames'[i].dir = frames[i].dir /\ frames'[i].len = frames[i].len
              /\ frames'[i].must = frames[i].must \ {p}
              /\ frames'[i].may = frames[i].may
<1> DEFINE g(i) == [frames[i] EXCEPT !.must = @ \ {p}]
<1>1. /\ UNCHANGED <<path, pc, newDev>>
      /\ p \in present /\ Children(p) \cap present = {}
      /\ present' = present \ {p} /\ changed' = changed \cup {p}
      /\ frames' = [i \in DOMAIN frames |-> g(i)]
  BY DEF Vanish, Change
<1>2. changes' \in 0..MaxChanges
  BY DevTreeAssumption DEF Vanish, Change, TypeOK
<1>3. frames \in Seq(Frame) /\ DOMAIN frames = 1..Len(frames) /\ Len(frames) \in Nat
  BY DEF TypeOK
<1>4. ASSUME NEW i \in 1..Len(frames)
      PROVE  /\ g(i) \in Frame
             /\ g(i).dir = frames[i].dir /\ g(i).len = frames[i].len
             /\ g(i).must = frames[i].must \ {p} /\ g(i).may = frames[i].may
  <2>1. frames[i] \in Frame
    BY <1>3
  <2>2. frames[i].must \ {p} \in SUBSET Universe
    BY <2>1, FrameFacts
  <2>3. /\ g(i) \in Frame
        /\ g(i) = [dir |-> frames[i].dir, len |-> frames[i].len,
                   must |-> frames[i].must \ {p}, may |-> frames[i].may]
    BY <2>1, <2>2, FrameFacts, FrameExcept
  <2> QED
    BY <2>1, <2>3
<1> HIDE DEF g
<1>5. frames' \in Seq(Frame) /\ Len(frames') = Len(frames)
  <2>1. frames' \in [1..Len(frames) -> Frame]
    BY <1>1, <1>3, <1>4
  <2> QED
    BY <1>3, <2>1, FunctionIsSeq
<1>6. \A i \in 1..Len(frames) : frames'[i] = g(i)
  BY <1>1, <1>3
<1> QED
  BY <1>1, <1>2, <1>4, <1>5, <1>6

LEMMA PopFacts ==
  ASSUME NEW S, NEW s \in Seq(S), Len(s) > 0, NEW f \in S
  PROVE  LET pop == SubSeq(s, 1, Len(s) - 1) IN
         /\ pop \in Seq(S) /\ Len(pop) = Len(s) - 1
         /\ \A i \in 1..(Len(s) - 1) : pop[i] = s[i]
         /\ Append(pop, f) \in Seq(S) /\ Len(Append(pop, f)) = Len(s)
         /\ \A i \in 1..(Len(s) - 1) : Append(pop, f)[i] = s[i]
         /\ Append(pop, f)[Len(s)] = f
<1> DEFINE pop == SubSeq(s, 1, Len(s) - 1)
<1>1. /\ pop \in Seq(S) /\ Len(pop) = Len(s) - 1
      /\ \A i \in 1..(Len(s) - 1) : pop[i] = s[i]
  <2>1. PICK n \in 0..Len(s) : n = Len(s) - 1
    OBVIOUS
  <2>2. /\ SubSeq(s, 1, n) \in Seq(S) /\ Len(SubSeq(s, 1, n)) = n
        /\ \A i \in 1..n : SubSeq(s, 1, n)[i] = s[i]
    OBVIOUS
  <2> QED
    BY <2>1, <2>2
<1> HIDE DEF pop
<1>2. /\ Append(pop, f) \in Seq(S) /\ Len(Append(pop, f)) = Len(pop) + 1
      /\ \A i \in 1..Len(pop) : Append(pop, f)[i] = pop[i]
      /\ Append(pop, f)[Len(pop) + 1] = f
  BY <1>1, AppendProperties
<1>3. Len(pop) + 1 = Len(s)
  BY <1>1
<1> QED
  BY <1>1, <1>2, <1>3 DEF pop

(* The entry that is read is appended to the path.                         *)
LEMMA ReadStep ==
  ASSUME TypeOK, FrameInv, PathInv, ReadEntry
  PROVE  /\ pc = "read" /\ pc' = "stat" /\ UNCHANGED <<devVars, newDev>>
         /\ Len(frames) \in Nat /\ Len(frames) > 0 /\ Len(path) = Len(frames) - 1
         /\ Top.dir = path
         /\ frames' \in Seq(Frame) /\ Len(frames') = Len(frames)
         /\ \A i \in 1..(Len(frames) - 1) : frames'[i] = frames[i]
         /\ path' \in Top.may /\ path' \in Children(path)
         /\ LET f == frames'[Len(frames)] IN
              /\ f.dir = path /\ f.len = Len(path)
              /\ f.must = Top.must \ {path'} /\ f.may = Top.may \ {path'}
<1>1. PICK e \in Top.may :
        /\ path' = Append(path, e[Len(e)])
        /\ frames' = Append(Pop, [Top EXCEPT !.must = @ \ {e}, !.may = @ \ {e}])
  BY DEF ReadEntry
<1>2. /\ pc = "read" /\ pc' = "stat" /\ UNCHANGED <<devVars, newDev>>
  BY DEF ReadEntry
<1>3. /\ frames \in Seq(Frame) /\ Len(frames) \in Nat /\ Len(frames) > 0
      /\ Len(path) = Len(frames) - 1 /\ path \in {Root} \cup Universe
      /\ path \in Seq(Name)
  <2>1. /\ frames \in Seq(Frame) /\ Len(frames) > 0
        /\ Len(path) = Len(frames) - 1 /\ path \in {Root} \cup Universe
    BY <1>2 DEF TypeOK, PathInv
  <2>2. Len(frames) \in Nat
    BY <2>1, LenProperties
  <2>3. path \in Seq(Name)
    BY <2>1, UniverseFacts, RootFacts
  <2> QED
    BY <2>1, <2>2, <2>3
<1>4. Top = frames[Len(frames)] /\ Top \in Frame /\ Len(frames) \in 1..Len(frames)
  BY <1>3 DEF Top
<1>5. Top.dir = path /\ Top.len = Len(path) /\ Top.may \subseteq Children(path)
  BY <1>3, <1>4, PrefixWhole DEF FrameInv
<1>6. path' = e /\ e \in Children(path)
  BY <1>1, <1>3, <1>5, ChildFacts
<1> DEFINE f == [Top EXCEPT !.must = @ \ {e}, !.may = @ \ {e}]
<1>7. /\ f \in Frame /\ f.dir = Top.dir /\ f.len = Top.len
      /\ f.must = Top.must \ {e} /\ f.may = Top.may \ {e}
  BY <1>4, FrameWithout
<1>8. /\ f.dir = path /\ f.len = Len(path)
      /\ f.must = Top.must \ {e} /\ f.may = Top.may \ {e}
  BY <1>5, <1>7
<1> HIDE DEF f
<1>9. /\ frames' \in Seq(Frame) /\ Len(frames') = Len(frames)
       /\ \A i \in 1..(Len(frames) - 1) : frames'[i] = frames[i]
       /\ frames'[Len(frames)] = f
  BY <1>1, <1>3, <1>7, PopFacts DEF Pop, f
<1> QED
  BY <1>1, <1>2, <1>3, <1>5, <1>6, <1>8, <1>9

(* link_dir returns: the path is cut to the directory it was called from.  *)
LEMMA ReturnStep ==
  ASSUME TypeOK, FrameInv, PathInv, EndOfDir
  PROVE  /\ pc = "read" /\ UNCHANGED <<devVars, newDev>> /\ Top.must = {}
         /\ Len(frames) \in Nat /\ Len(frames) > 0 /\ Len(path) = Len(frames) - 1
         /\ frames' \in Seq(Frame) /\ Len(frames') = Len(frames) - 1
         /\ \A i \in 1..(Len(frames) - 1) : frames'[i] = frames[i]
         /\ \/ Len(frames) = 1 /\ pc' = "done" /\ path' = path /\ frames' = <<>>
            \/ Len(frames) > 1 /\ pc' = "read" /\ path' = Prefix(path, Len(frames) - 2)
<1>1. /\ pc = "read" /\ UNCHANGED <<devVars, newDev>> /\ Top.must = {}
      /\ frames' = Pop
      /\ \/ Len(frames) = 1 /\ pc' = "done" /\ path' = path
         \/ /\ Len(frames) > 1 /\ pc' = "read"
            /\ path' = Prefix(path, frames[Len(frames) - 1].len)
  BY DEF EndOfDir, Cut, Prefix
<1>2. /\ frames \in Seq(Frame) /\ Len(frames) \in Nat /\ Len(frames) > 0
      /\ Len(path) = Len(frames) - 1
  <2>1. frames \in Seq(Frame) /\ Len(frames) > 0 /\ Len(path) = Len(frames) - 1
    BY <1>1 DEF TypeOK, PathInv
  <2> QED
    BY <2>1, LenProperties
<1>3. /\ frames' \in Seq(Frame) /\ Len(frames') = Len(frames) - 1
      /\ \A i \in 1..(Len(frames) - 1) : frames'[i] = frames[i]
  <2>1. frames[1] \in Frame
    BY <1>2
  <2> QED
    BY <1>1, <1>2, <2>1, PopFacts DEF Pop
<1>4. Len(frames) > 1 => frames[Len(frames) - 1].len = Len(frames) - 2
  BY <1>2 DEF FrameInv
<1>5. Len(frames) = 1 => frames' = <<>>
  BY <1>3, EmptySeq
<1> QED
  BY <1>1, <1>2, <1>3, <1>4, <1>5

(* link_dir is called: it opens the directory the path names.              *)
LEMMA OpenStep ==
  ASSUME TypeOK, Open, ~Fail
  PROVE  /\ pc = "open" /\ pc' = "read" /\ UNCHANGED <<devVars, path, newDev>>
         /\ path \in present \cup {Root} /\ Len(frames) # Depth
         /\ frames' \in Seq(Frame) /\ Len(frames') = Len(frames) + 1
         /\ \A i \in 1..Len(frames) : frames'[i] = frames[i]
         /\ LET f == frames'[Len(frames) + 1] IN
              /\ f.dir = path /\ f.len = Len(path)
              /\ f.must = Children(path) \cap present
              /\ f.may = Children(path) \cap present
<1> DEFINE there == Children(path) \cap present
           f == [dir |-> path, len |-> Len(path), must |-> there, may |-> there]
<1>1. /\ pc = "open" /\ pc' = "read" /\ UNCHANGED <<devVars, path, newDev>>
      /\ path \in present \cup {Root} /\ Len(frames) # Depth
      /\ frames' = Append(frames, f)
  BY DEF Open, TooDeep
<1>2. f \in Frame
  <2>1. /\ path \in {Root} \cup Universe /\ Len(path) \in Nat
        /\ there \in SUBSET Universe
    BY UniverseFacts, RootFacts DEF TypeOK, Children
  <2> QED
    BY <2>1 DEF Frame
<1>3. f.dir = path /\ f.len = Len(path) /\ f.must = there /\ f.may = there
  OBVIOUS
<1> HIDE DEF f
<1>4. /\ frames' \in Seq(Frame) /\ Len(frames') = Len(frames) + 1
      /\ \A i \in 1..Len(frames) : frames'[i] = frames[i]
      /\ frames'[Len(frames) + 1] = f
  BY <1>1, <1>2, AppendProperties DEF TypeOK
<1> QED
  BY <1>1, <1>3, <1>4
-----------------------------------------------------------------------------
(* Facts of a state that several steps use.                                *)
LEMMA StateFacts ==
  ASSUME TypeOK
  PROVE  /\ present \subseteq Universe /\ changed \subseteq Universe
         /\ IsTree(present) /\ path \in {Root} \cup Universe /\ path \in Seq(Name)
         /\ Len(path) \in Nat /\ (path # Root => path \in Universe /\ Len(path) > 0)
         /\ frames \in Seq(Frame) /\ Len(frames) \in Nat /\ Len(frames) <= Depth
         /\ changes \in 0..MaxChanges
         /\ newDev \subseteq Entry /\ Copied \subseteq Universe
         /\ Depth \in Nat /\ Depth > 0
<1>1. /\ present \subseteq Universe /\ changed \subseteq Universe
      /\ IsTree(present) /\ path \in {Root} \cup Universe
      /\ frames \in Seq(Frame) /\ Len(frames) <= Depth
      /\ changes \in 0..MaxChanges /\ newDev \subseteq Entry
  BY DEF TypeOK
<1>2. path \in Seq(Name) /\ Len(path) \in Nat /\ (path # Root => Len(path) > 0)
  <2>1. CASE path = Root
    BY <2>1, RootFacts
  <2>2. CASE path \in Universe
    BY <2>2, UniverseFacts
  <2> QED
    BY <1>1, <2>1, <2>2
<1>3. Len(frames) \in Nat
  BY <1>1, LenProperties
<1>4. Copied \subseteq Universe
  BY <1>1 DEF Copied, Entry
<1>5. Depth \in Nat /\ Depth > 0
  BY DevTreeAssumption
<1> QED
  BY <1>1, <1>2, <1>3, <1>4, <1>5

(* A step that only fails.                                                 *)
LEMMA FailKeeps ==
  ASSUME TypeOK, FrameInv, PathInv, QuietInv, SourceInv, Fail
  PROVE  /\ TypeOK' /\ FrameInv' /\ PathInv' /\ QuietInv' /\ SourceInv'
         /\ OnceInv' /\ CopiedInv' /\ PendInv'
<1>1. /\ pc' = "failed"
      /\ UNCHANGED <<present, changed, changes, path, frames, newDev>>
  BY DEF Fail, devVars
<1>2. TypeOK' /\ FrameInv' /\ PathInv'
  BY <1>1 DEF TypeOK, FrameInv, PathInv
<1>3. QuietInv' /\ SourceInv'
  BY <1>1 DEF QuietInv, Quiet, SourceInv
<1>4. ~Walking' /\ pc' # "done"
  BY <1>1 DEF Walking
<1> QED
  BY <1>2, <1>3, <1>4 DEF OnceInv, CopiedInv, PendInv

LEMMA InitIInv == Init => IInv
<1> SUFFICES ASSUME Init PROVE IInv
  OBVIOUS
<1>1. /\ present \subseteq Universe /\ IsTree(present) /\ changed = {} /\ changes = 0
      /\ path = Root /\ frames = <<>> /\ pc = "open" /\ newDev = {}
  BY DEF Init
<1>2. Len(frames) = 0 /\ frames \in Seq(Frame) /\ Depth \in Nat /\ MaxChanges \in Nat
  BY <1>1, DevTreeAssumption, EmptySeq
<1>3. TypeOK
  BY <1>1, <1>2 DEF TypeOK
<1>4. FrameInv /\ OnceInv
  BY <1>1, <1>2 DEF FrameInv, OnceInv
<1>5. PathInv
  BY <1>1, <1>2, RootFacts DEF PathInv
<1>6. QuietInv
  BY <1>1, TreeFacts DEF QuietInv, Quiet
<1>7. SourceInv /\ CopiedInv
  BY <1>1 DEF SourceInv, CopiedInv, Copied
<1>8. PendInv
  <2> SUFFICES ASSUME NEW p \in present
               PROVE  \E k \in 0..Len(p) : Pending(Prefix(p, k))
    BY DEF PendInv, Quiet
  <2>1. p \in Seq(Name) /\ Len(p) \in Nat
    BY <1>1, UniverseFacts
  <2>2. Prefix(p, 0) = path /\ 0 \in 0..Len(p)
    BY <1>1, <2>1, PrefixZero DEF Root
  <2>3. Pending(Prefix(p, 0))
    BY <1>1, <2>2 DEF Pending
  <2> QED
    BY <2>2, <2>3
<1>9. QuietDevIsCopied
  BY <1>1 DEF QuietDevIsCopied
<1> QED
  BY <1>3, <1>4, <1>5, <1>6, <1>7, <1>8, <1>9 DEF IInv

-----------------------------------------------------------------------------
(* /dev changes.                                                           *)
LEMMA AppearKeeps ==
  ASSUME IInv, NEW p \in Universe, Appear(p)
  PROVE  IInv'
<1> USE DEF IInv
<1>1. /\ UNCHANGED <<path, pc, newDev>>
      /\ p \notin present /\ Parent(p) \in present \cup {Root}
      /\ present' = present \cup {p} /\ changed' = changed \cup {p}
      /\ changes' \in 0..MaxChanges
      /\ frames' \in Seq(Frame) /\ Len(frames') = Len(frames)
      /\ \A i \in 1..Len(frames) :
           /\ frames'[i].dir = frames[i].dir /\ frames'[i].len = frames[i].len
           /\ frames'[i].must = frames[i].must
           /\ frames'[i].may = IF frames[i].dir = Parent(p)
                                 THEN frames[i].may \cup {p} ELSE frames[i].may
  BY AppearStep
<1> HIDE DEF IInv
<1>2. /\ TypeOK /\ FrameInv /\ PathInv /\ QuietInv /\ SourceInv
      /\ OnceInv /\ CopiedInv /\ PendInv /\ QuietDevIsCopied
  BY DEF IInv
<1>3. TypeOK'
  <2>1. IsTree(present')
    <3> SUFFICES ASSUME NEW q \in present', NEW k \in 1..(Len(q) - 1)
                 PROVE  Prefix(q, k) \in present'
      BY DEF IsTree, Above, Prefix
    <3>1. q \in Universe /\ q \in Seq(Name) /\ Len(q) \in Nat
      BY <1>1, <1>2, StateFacts, UniverseFacts
    <3>2. CASE q \in present
      BY <1>1, <1>2, <3>1, <3>2, StateFacts, TreeFacts
    <3>3. CASE q = p
      <4>1. Parent(q) = Prefix(q, Len(q) - 1) /\ Len(Parent(q)) = Len(q) - 1
        <5>1. Len(q) - 1 \in 0..Len(q)
          BY <3>1
        <5> QED
          BY <3>1, <5>1, PrefixFacts DEF Parent, Prefix
      <4>2. Parent(q) \in present
        BY <1>1, <3>1, <3>3, <4>1, RootFacts
      <4>3. Prefix(Parent(q), k) \in present
        BY <1>2, <4>1, <4>2, StateFacts, TreeFacts
      <4>4. Prefix(Parent(q), k) = Prefix(q, k)
        <5>1. Len(q) - 1 \in 0..Len(q) /\ k \in 0..(Len(q) - 1)
          BY <3>1
        <5> QED
          BY <3>1, <4>1, <5>1, PrefixOfPrefix
      <4> QED
        BY <1>1, <4>3, <4>4
    <3> QED
      BY <1>1, <3>2, <3>3
  <2>2. present' \subseteq Universe /\ changed' \subseteq Universe
    BY <1>1, <1>2, StateFacts
  <2> QED
    BY <1>1, <1>2, <2>1, <2>2 DEF TypeOK
<1>4. FrameInv'
  <2> SUFFICES ASSUME NEW i \in 1..Len(frames)
               PROVE  /\ frames'[i].len = i - 1 /\ i - 1 <= Len(path)
                      /\ frames'[i].dir = Prefix(path, i - 1)
                      /\ frames'[i].must \subseteq frames'[i].may
                      /\ frames'[i].may \subseteq Children(frames'[i].dir)
                      /\ frames'[i].may \subseteq present' \cup changed'
    BY <1>1 DEF FrameInv
  <2>1. /\ frames[i].len = i - 1 /\ i - 1 <= Len(path)
        /\ frames[i].dir = Prefix(path, i - 1)
        /\ frames[i].must \subseteq frames[i].may
        /\ frames[i].may \subseteq Children(frames[i].dir)
        /\ frames[i].may \subseteq present \cup changed
    BY <1>2 DEF FrameInv
  <2>2. p \in Children(Parent(p))
    BY DEF Children
  <2> QED
    BY <1>1, <2>1, <2>2
<1>5. PathInv'
  BY <1>1, <1>2, EmptySeq DEF PathInv, Copied
<1>6. QuietInv' /\ Quiet' = Quiet
  <2>1. Quiet' = Quiet
    BY <1>1 DEF Quiet
  <2> QED
    BY <1>2, <2>1 DEF QuietInv
<1>7. SourceInv'
  BY <1>1, <1>2 DEF SourceInv
<1>8. OnceInv'
  BY <1>1, <1>2 DEF OnceInv, Walking
<1>9. CopiedInv'
  <2> SUFFICES ASSUME Walking'
               PROVE  /\ \A q \in Copied \ changed' : \A k \in 1..Len(q) :
                           /\ \A i \in 1..Len(frames) : Prefix(q, k) \notin frames'[i].may
                           /\ pc \in {"stat", "copy"} => Prefix(q, k) # path
                           /\ pc = "open" /\ Prefix(q, k) = path => k = Len(q)
                      /\ pc = "open" /\ path = Root => newDev = {}
    BY <1>1 DEF CopiedInv, Copied
  <2>1. Walking
    BY <1>1 DEF Walking
  <2>2. ASSUME NEW q \in Copied \ changed', NEW k \in 1..Len(q)
        PROVE  Prefix(q, k) # p
    <3>1. q \in Quiet
      BY <1>1, <1>2 DEF SourceInv, Copied, Quiet
    <3>2. Prefix(q, k) \in Quiet
      BY <1>2, <3>1 DEF QuietInv
    <3> QED
      BY <1>1, <3>2 DEF Quiet
  <2>3. \A i \in 1..Len(frames) : frames'[i].may \subseteq frames[i].may \cup {p}
    BY <1>1
  <2>4. Copied \ changed' \subseteq Copied \ changed
    BY <1>1
  <2>5. /\ \A q \in Copied \ changed : \A k \in 1..Len(q) :
             /\ \A i \in 1..Len(frames) : Prefix(q, k) \notin frames[i].may
             /\ pc \in {"stat", "copy"} => Prefix(q, k) # path
             /\ pc = "open" /\ Prefix(q, k) = path => k = Len(q)
        /\ pc = "open" /\ path = Root => newDev = {}
    BY <1>2, <2>1 DEF CopiedInv
  <2> QED
    BY <2>2, <2>3, <2>4, <2>5
<1>10. PendInv'
  <2> SUFFICES ASSUME Walking \/ pc = "done", NEW q \in Quiet \ Copied
               PROVE  \E k \in 0..Len(q) : Pending(Prefix(q, k))'
    BY <1>1, <1>6 DEF PendInv, Walking, Copied
  <2>1. PICK k \in 0..Len(q) : Pending(Prefix(q, k))
    BY <1>2 DEF PendInv
  <2>2. Pending(Prefix(q, k))'
    BY <1>1, <2>1 DEF Pending
  <2> QED
    BY <2>2
<1>11. QuietDevIsCopied'
  BY <1>1 DEF QuietDevIsCopied
<1> QED
  BY <1>3, <1>4, <1>5, <1>6, <1>7, <1>8, <1>9, <1>10, <1>11 DEF IInv

LEMMA VanishKeeps ==
  ASSUME IInv, NEW p \in Universe, Vanish(p)
  PROVE  IInv'
<1>1. /\ TypeOK /\ FrameInv /\ PathInv /\ QuietInv /\ SourceInv
      /\ OnceInv /\ CopiedInv /\ PendInv /\ QuietDevIsCopied
  BY DEF IInv
<1>2. /\ UNCHANGED <<path, pc, newDev>>
      /\ p \in present /\ Children(p) \cap present = {}
      /\ present' = present \ {p} /\ changed' = changed \cup {p}
      /\ changes' \in 0..MaxChanges
      /\ frames' \in Seq(Frame) /\ Len(frames') = Len(frames)
      /\ \A i \in 1..Len(frames) :
           /\ frames'[i].dir = frames[i].dir /\ frames'[i].len = frames[i].len
           /\ frames'[i].must = frames[i].must \ {p}
           /\ frames'[i].may = frames[i].may
  BY <1>1, VanishStep
<1>3. \A q \in present \ {p} : \A k \in 1..Len(q) :
        Prefix(q, k) # p /\ Prefix(q, k) \in present
  BY <1>1, <1>2, StateFacts, NothingBelow, TreeFacts
<1>4. TypeOK'
  <2>1. IsTree(present')
    <3> SUFFICES ASSUME NEW q \in present', NEW k \in 1..(Len(q) - 1)
                 PROVE  Prefix(q, k) \in present'
      BY DEF IsTree, Above, Prefix
    <3>1. Len(q) \in Nat
      BY <1>1, <1>2, StateFacts, UniverseFacts
    <3> QED
      BY <1>2, <1>3, <3>1
  <2>2. present' \subseteq Universe /\ changed' \subseteq Universe
    BY <1>1, <1>2, StateFacts
  <2> QED
    BY <1>1, <1>2, <2>1, <2>2 DEF TypeOK
<1>5. FrameInv'
  BY <1>1, <1>2 DEF FrameInv
<1>6. PathInv'
  BY <1>1, <1>2, EmptySeq DEF PathInv, Copied
<1>7. Quiet' = Quiet \ {p}
  BY <1>2 DEF Quiet
<1>8. QuietInv'
  BY <1>1, <1>3, <1>7 DEF QuietInv, Quiet
<1>9. SourceInv'
  BY <1>1, <1>2 DEF SourceInv
<1>10. OnceInv'
  BY <1>1, <1>2 DEF OnceInv, Walking
<1>11. CopiedInv'
  BY <1>1, <1>2 DEF CopiedInv, Copied, Walking
<1>12. PendInv'
  <2> SUFFICES ASSUME Walking \/ pc = "done", NEW q \in (Quiet \ {p}) \ Copied
               PROVE  \E k \in 0..Len(q) : Pending(Prefix(q, k))'
    BY <1>2, <1>7 DEF PendInv, Walking, Copied
  <2>1. PICK k \in 0..Len(q) : Pending(Prefix(q, k))
    BY <1>1 DEF PendInv
  <2>2. Prefix(q, k) # p
    <3>1. q \in present \ {p} /\ q \in Seq(Name) /\ Len(q) \in Nat
      BY <1>1, StateFacts, UniverseFacts DEF Quiet
    <3>2. k = 0 => Prefix(q, k) = Root
      BY <3>1, PrefixZero DEF Root
    <3> QED
      BY <1>3, <3>1, <3>2, UniverseFacts
  <2>3. Pending(Prefix(q, k))'
    BY <1>2, <2>1, <2>2 DEF Pending
  <2> QED
    BY <2>3
<1>13. QuietDevIsCopied'
  BY <1>2 DEF QuietDevIsCopied
<1> QED
  BY <1>4, <1>5, <1>6, <1>8, <1>9, <1>10, <1>11, <1>12, <1>13 DEF IInv
-----------------------------------------------------------------------------
(* The walk.                                                               *)
LEMMA MayFacts ==
  ASSUME TypeOK, FrameInv, NEW i \in 1..Len(frames), NEW p \in frames[i].may
  PROVE  p \in Universe /\ Len(p) = i /\ p \in present \cup changed
<1>1. /\ i - 1 <= Len(path) /\ frames[i].dir = Prefix(path, i - 1)
      /\ p \in Children(frames[i].dir) /\ p \in present \cup changed
  BY DEF FrameInv
<1>2. frames[i] \in Frame /\ path \in Seq(Name) /\ Len(path) \in Nat /\ i \in Nat /\ i > 0
  BY StateFacts
<1>3. frames[i].dir \in {Root} \cup Universe
  BY <1>2, FrameFacts
<1>4. Len(frames[i].dir) = i - 1
  BY <1>1, <1>2, PrefixFacts
<1> QED
  BY <1>1, <1>2, <1>3, <1>4, ChildFacts

LEMMA CopiedIsThere ==
  ASSUME SourceInv
  PROVE  Copied \subseteq present \cup changed
BY DEF SourceInv, Copied

LEMMA OpenKeeps ==
  ASSUME IInv, Open
  PROVE  IInv'
<1>1. /\ TypeOK /\ FrameInv /\ PathInv /\ QuietInv /\ SourceInv
      /\ OnceInv /\ CopiedInv /\ PendInv /\ QuietDevIsCopied
  BY DEF IInv
<1>2. /\ pc = "open" /\ Len(path) = Len(frames)
      /\ path # Root => Kind[path] = "dir" /\ path \in Copied
  BY <1>1 DEF Open, PathInv
<1>3. CASE Fail
  <2>1. QuietDevIsCopied'
    <3> SUFFICES ASSUME changed = {}
                 PROVE  \E p \in present : Kind[p] = "dir" /\ Len(p) >= Depth
      BY <1>3 DEF Fail, devVars, QuietDevIsCopied
    <3>1. path # Root => path \in present
      BY <1>1, <1>2, CopiedIsThere
    <3>2. TooDeep
      BY <3>1, <1>3 DEF Open, Fail
    <3>3. Len(path) = Depth /\ path # Root /\ Depth \in Nat
      BY <1>1, <1>2, <3>2, StateFacts, RootFacts DEF TooDeep
    <3> QED
      BY <1>2, <3>1, <3>3
  <2> QED
    BY <1>1, <1>3, <2>1, FailKeeps DEF IInv
<1>4. CASE ~Fail
  <2>1. /\ pc' = "read" /\ UNCHANGED <<devVars, path, newDev>>
        /\ path \in present \cup {Root} /\ Len(frames) # Depth
        /\ frames' \in Seq(Frame) /\ Len(frames') = Len(frames) + 1
        /\ \A i \in 1..Len(frames) : frames'[i] = frames[i]
        /\ frames'[Len(frames) + 1].dir = path
        /\ frames'[Len(frames) + 1].len = Len(path)
        /\ frames'[Len(frames) + 1].must = Children(path) \cap present
        /\ frames'[Len(frames) + 1].may = Children(path) \cap present
    BY <1>1, <1>4, OpenStep
  <2>2. UNCHANGED <<present, changed, changes, path, newDev>>
    BY <2>1 DEF devVars
  <2>3. /\ path \in Seq(Name) /\ Len(frames) \in Nat /\ Len(frames) <= Depth
        /\ path \in {Root} \cup Universe /\ Depth \in Nat
    BY <1>1, StateFacts
  <2>4. TypeOK'
    BY <1>1, <2>1, <2>2, <2>3 DEF TypeOK
  <2>5. \A i \in 1..Len(frames') : i \in 1..Len(frames) \/ i = Len(frames) + 1
    BY <2>1, <2>3
  <2>6. FrameInv'
    <3> SUFFICES ASSUME NEW i \in 1..Len(frames')
                 PROVE  /\ frames'[i].len = i - 1 /\ i - 1 <= Len(path)
                        /\ frames'[i].dir = Prefix(path, i - 1)
                        /\ frames'[i].must \subseteq frames'[i].may
                        /\ frames'[i].may \subseteq Children(frames'[i].dir)
                        /\ frames'[i].may \subseteq present \cup changed
      BY <2>2 DEF FrameInv
    <3>1. CASE i \in 1..Len(frames)
      BY <1>1, <2>1, <3>1 DEF FrameInv
    <3>2. CASE i = Len(frames) + 1
      <4>1. i - 1 = Len(path) /\ Prefix(path, i - 1) = path
        BY <1>2, <2>3, <3>2, PrefixWhole
      <4>2. Len(path) <= Len(path)
        BY <1>2, <2>3
      <4> QED
        BY <2>1, <3>2, <4>1, <4>2
    <3> QED
      BY <2>5, <3>1, <3>2
  <2>7. PathInv'
    BY <1>2, <2>1, <2>2, <2>3 DEF PathInv
  <2>8. QuietInv' /\ SourceInv'
    BY <1>1, <2>2 DEF QuietInv, Quiet, SourceInv
  <2>9. OnceInv'
    <3> SUFFICES ASSUME NEW i \in 1..Len(frames'), NEW k \in 1..Len(path),
                        Prefix(path, k) \in frames'[i].may
                 PROVE  Prefix(path, k) \in changed
      BY <2>2 DEF OnceInv
    <3>1. CASE i \in 1..Len(frames)
      BY <1>1, <1>2, <2>1, <3>1 DEF OnceInv, Walking
    <3>2. CASE i = Len(frames) + 1
      <4>1. Prefix(path, k) \in Children(path)
        BY <2>1, <3>2
      <4>2. Len(Prefix(path, k)) = Len(path) + 1 /\ Len(path) \in Nat
        BY <2>3, <4>1, ChildFacts
      <4>3. Len(Prefix(path, k)) = k
        BY <2>3, PrefixFacts
      <4> QED
        BY <4>2, <4>3
    <3> QED
      BY <2>5, <3>1, <3>2
  <2>10. CopiedInv'
    <3> SUFFICES ASSUME NEW p \in Copied \ changed, NEW k \in 1..Len(p),
                        NEW i \in 1..Len(frames'), Prefix(p, k) \in frames'[i].may
                 PROVE  FALSE
      BY <2>1, <2>2 DEF CopiedInv, Copied
    <3>0. p \in Seq(Name) /\ Len(p) \in Nat
      BY <1>1, StateFacts, UniverseFacts
    <3>1. CASE i \in 1..Len(frames)
      BY <1>1, <1>2, <2>1, <3>1 DEF CopiedInv, Walking
    <3>2. CASE i = Len(frames) + 1
      <4>1. Prefix(p, k) \in Children(path)
        BY <2>1, <3>2
      <4>2. Prefix(p, k - 1) = path
        BY <3>0, <4>1, ParentOfPrefix DEF Children
      <4>3. CASE k = 1
        <5>1. path = Root
          BY <3>0, <4>2, <4>3, PrefixZero DEF Root
        <5> QED
          BY <1>1, <1>2, <5>1 DEF CopiedInv, Walking, Copied
      <4>4. CASE k > 1
        <5>1. k - 1 \in 1..Len(p) /\ k - 1 # Len(p)
          BY <3>0, <4>4
        <5> QED
          BY <1>1, <1>2, <4>2, <5>1 DEF CopiedInv, Walking
      <4> QED
        BY <3>0, <4>3, <4>4
    <3> QED
      BY <2>5, <3>1, <3>2
  <2>11. PendInv'
    <3> SUFFICES ASSUME NEW q \in Quiet \ Copied
                 PROVE  \E k \in 0..Len(q) : Pending(Prefix(q, k))'
      BY <2>2 DEF PendInv, Quiet, Copied
    <3>0. q \in Seq(Name) /\ Len(q) \in Nat /\ q # Root
      BY <1>1, StateFacts, UniverseFacts DEF Quiet
    <3>1. PICK k \in 0..Len(q) : Pending(Prefix(q, k))
      BY <1>1, <1>2 DEF PendInv, Walking
    <3>2. CASE \E i \in 1..Len(frames) : Prefix(q, k) \in frames[i].must
      <4>1. Pending(Prefix(q, k))'
        BY <2>1, <2>3, <3>2 DEF Pending
      <4> QED
        BY <4>1
    <3>3. CASE Prefix(q, k) = path
      <4>1. q # path
        BY <1>2, <3>0
      <4>2. k + 1 \in 1..Len(q)
        BY <3>0, <3>3, <4>1, PrefixWhole
      <4>3. Prefix(q, k + 1) \in Quiet
        BY <1>1, <4>2 DEF QuietInv
      <4>4. Parent(Prefix(q, k + 1)) = path
        <5>1. (k + 1) - 1 = k
          BY <3>0
        <5> QED
          BY <3>0, <3>3, <4>2, <5>1, ParentOfPrefix
      <4>5. Prefix(q, k + 1) \in Children(path) \cap present
        BY <1>1, <4>3, <4>4, StateFacts DEF Quiet, Children
      <4>6. Len(frames) + 1 \in 1..Len(frames')
        BY <2>1, <2>3
      <4>7. Pending(Prefix(q, k + 1))'
        BY <2>1, <4>5, <4>6 DEF Pending
      <4> QED
        BY <3>0, <4>2, <4>7
    <3> QED
      BY <3>1, <3>2, <3>3 DEF Pending
  <2>12. QuietDevIsCopied'
    BY <2>1 DEF QuietDevIsCopied
  <2> QED
    BY <2>4, <2>6, <2>7, <2>8, <2>9, <2>10, <2>11, <2>12 DEF IInv
<1> QED
  BY <1>3, <1>4

LEMMA ReadKeeps ==
  ASSUME IInv, ReadEntry
  PROVE  IInv'
<1>1. /\ TypeOK /\ FrameInv /\ PathInv /\ QuietInv /\ SourceInv
      /\ OnceInv /\ CopiedInv /\ PendInv /\ QuietDevIsCopied
  BY DEF IInv
<1> DEFINE n == Len(frames)
<1>2. /\ pc = "read" /\ pc' = "stat" /\ UNCHANGED <<devVars, newDev>>
      /\ n \in Nat /\ n > 0 /\ Len(path) = n - 1
      /\ Top.dir = path
      /\ frames' \in Seq(Frame) /\ Len(frames') = n
      /\ \A i \in 1..(n - 1) : frames'[i] = frames[i]
      /\ path' \in Top.may /\ path' \in Children(path)
      /\ frames'[n].dir = path /\ frames'[n].len = Len(path)
      /\ frames'[n].must = Top.must \ {path'} /\ frames'[n].may = Top.may \ {path'}
  BY <1>1, ReadStep
<1>3. UNCHANGED <<present, changed, changes, newDev>> /\ Top = frames[n]
  BY <1>2 DEF devVars, Top
<1> HIDE DEF n
<1>4. /\ path' \in Universe /\ path' \in Seq(Name) /\ Len(path') = n
      /\ \A k \in 0..(n - 1) : Prefix(path', k) = Prefix(path, k)
      /\ path \in Seq(Name) /\ path \in {Root} \cup Universe
  <2>1. path \in Seq(Name) /\ path \in {Root} \cup Universe
    BY <1>1, StateFacts
  <2>2. /\ path' \in Universe /\ Len(path') = Len(path) + 1
        /\ \A k \in 0..Len(path) : Prefix(path', k) = Prefix(path, k)
    BY <1>2, <2>1, ChildFacts
  <2>3. path' \in Seq(Name)
    BY <2>2, UniverseFacts
  <2> QED
    BY <1>2, <2>1, <2>2, <2>3
<1>5. n \in 1..n /\ \A i \in 1..n : i \in 1..(n - 1) \/ i = n
  BY <1>2
<1>6. \A i \in 1..n : /\ frames'[i].dir = frames[i].dir /\ frames'[i].len = frames[i].len
                      /\ frames'[i].must \subseteq frames[i].must
                      /\ frames'[i].may \subseteq frames[i].may
                      /\ path' \notin frames'[i].may
                      /\ frames[i].must \subseteq frames'[i].must \cup {path'}
  <2>1. frames[n].dir = path /\ frames[n].len = Len(path)
    BY <1>1, <1>2, <1>3, <1>5 DEF FrameInv, n
  <2>2. \A i \in 1..(n - 1) : path' \notin frames[i].may
    <3> SUFFICES ASSUME NEW i \in 1..(n - 1), path' \in frames[i].may PROVE FALSE
      OBVIOUS
    <3>1. i \in 1..Len(frames) /\ i # n
      BY <1>2 DEF n
    <3> QED
      BY <1>1, <1>4, <3>1, MayFacts
  <2> QED
    BY <1>2, <1>3, <1>5, <2>1, <2>2
<1>7. TypeOK'
  BY <1>1, <1>2, <1>3, <1>4 DEF TypeOK, n
<1>8. FrameInv'
  <2> SUFFICES ASSUME NEW i \in 1..n
               PROVE  /\ frames'[i].len = i - 1 /\ i - 1 <= Len(path')
                      /\ frames'[i].dir = Prefix(path', i - 1)
                      /\ frames'[i].must \subseteq frames'[i].may
                      /\ frames'[i].may \subseteq Children(frames'[i].dir)
                      /\ frames'[i].may \subseteq present \cup changed
    BY <1>2, <1>3 DEF FrameInv
  <2>1. /\ frames[i].len = i - 1 /\ i - 1 <= Len(path)
        /\ frames[i].dir = Prefix(path, i - 1)
        /\ frames[i].must \subseteq frames[i].may
        /\ frames[i].may \subseteq Children(frames[i].dir)
        /\ frames[i].may \subseteq present \cup changed
    BY <1>1 DEF FrameInv, n
  <2>2. i - 1 \in 0..(n - 1) /\ i - 1 <= Len(path')
    BY <1>2, <1>4
  <2>3. frames'[i].must \subseteq frames'[i].may
    BY <1>2, <1>3, <1>5, <2>1
  <2> QED
    BY <1>4, <1>6, <2>1, <2>2, <2>3
<1>9. PathInv'
  <2>1. path' \in present \cup changed
    BY <1>1, <1>2, <1>3, <1>5, MayFacts DEF n
  <2> QED
    BY <1>2, <1>3, <1>4, <2>1 DEF PathInv
<1>10. QuietInv' /\ SourceInv'
  BY <1>1, <1>3 DEF QuietInv, Quiet, SourceInv
<1>11. OnceInv'
  <2> SUFFICES ASSUME NEW i \in 1..n, NEW k \in 1..n, Prefix(path', k) \in frames'[i].may
               PROVE  Prefix(path', k) \in changed
    BY <1>2, <1>3, <1>4 DEF OnceInv
  <2>1. CASE k = n
    BY <1>4, <1>6, <2>1, PrefixWhole
  <2>2. CASE k \in 1..(n - 1)
    <3>1. Prefix(path', k) = Prefix(path, k) /\ k \in 1..Len(path)
      BY <1>2, <1>4, <2>2
    <3> QED
      BY <1>1, <1>2, <1>6, <3>1 DEF OnceInv, Walking, n
  <2> QED
    BY <1>5, <2>1, <2>2
<1>12. CopiedInv'
  <2> SUFFICES ASSUME NEW p \in Copied \ changed, NEW k \in 1..Len(p)
               PROVE  /\ \A i \in 1..n : Prefix(p, k) \notin frames'[i].may
                      /\ Prefix(p, k) # path'
    BY <1>2, <1>3 DEF CopiedInv, Copied
  <2>1. \A i \in 1..n : Prefix(p, k) \notin frames[i].may
    BY <1>1, <1>2 DEF CopiedInv, Walking, n
  <2> QED
    BY <1>2, <1>3, <1>5, <1>6, <2>1
<1>13. PendInv'
  <2> SUFFICES ASSUME NEW q \in Quiet \ Copied
               PROVE  \E k \in 0..Len(q) : Pending(Prefix(q, k))'
    BY <1>3 DEF PendInv, Quiet, Copied
  <2>1. PICK k \in 0..Len(q) : Pending(Prefix(q, k))
    BY <1>1, <1>2 DEF PendInv, Walking
  <2>2. PICK i \in 1..n : Prefix(q, k) \in frames[i].must
    BY <1>2, <2>1 DEF Pending, n
  <2>3. Pending(Prefix(q, k))'
    BY <1>2, <1>6, <2>2 DEF Pending
  <2> QED
    BY <2>3
<1>14. QuietDevIsCopied'
  BY <1>2 DEF QuietDevIsCopied
<1> QED
  BY <1>7, <1>8, <1>9, <1>10, <1>11, <1>12, <1>13, <1>14 DEF IInv
LEMMA ReturnKeeps ==
  ASSUME IInv, EndOfDir
  PROVE  IInv'
<1>1. /\ TypeOK /\ FrameInv /\ PathInv /\ QuietInv /\ SourceInv
      /\ OnceInv /\ CopiedInv /\ PendInv /\ QuietDevIsCopied
  BY DEF IInv
<1> DEFINE n == Len(frames)
<1>2. /\ pc = "read" /\ UNCHANGED <<devVars, newDev>> /\ Top.must = {}
      /\ n \in Nat /\ n > 0 /\ Len(path) = n - 1
      /\ frames' \in Seq(Frame) /\ Len(frames') = n - 1
      /\ \A i \in 1..(n - 1) : frames'[i] = frames[i]
      /\ \/ n = 1 /\ pc' = "done" /\ path' = path /\ frames' = <<>>
         \/ n > 1 /\ pc' = "read" /\ path' = Prefix(path, n - 2)
  BY <1>1, ReturnStep
<1>3. UNCHANGED <<present, changed, changes, newDev>> /\ Top = frames[n]
  BY <1>2 DEF devVars, Top
<1> HIDE DEF n
<1>4. /\ path \in Seq(Name) /\ path \in {Root} \cup Universe
      /\ n <= Depth /\ Depth \in Nat
  BY <1>1, StateFacts DEF n
<1>5. /\ path' \in {Root} \cup Universe /\ Len(path') <= Len(path)
      /\ n > 1 => Len(path') = n - 2
      /\ \A k \in 0..(n - 2) : Prefix(path', k) = Prefix(path, k)
  <2>1. CASE n = 1
    <3>1. \A k \in 0..(n - 2) : FALSE
      BY <2>1
    <3> QED
      BY <1>2, <1>4, <2>1, <3>1
  <2>2. CASE n > 1
    <3>1. n - 2 \in 0..Len(path) /\ path' = Prefix(path, n - 2) /\ path # Root
      BY <1>2, <2>2, RootFacts
    <3>2. Len(path') = n - 2
      BY <1>4, <3>1, PrefixFacts
    <3>3. CASE n = 2
      <4>1. path' = Root
        BY <1>4, <3>1, <3>3, PrefixZero DEF Root
      <4> QED
        BY <1>2, <3>1, <3>2, <4>1, <3>3, PrefixOfPrefix, <1>4
    <3>4. CASE n > 2
      <4>1. n - 2 \in 1..Len(path)
        BY <1>2, <3>4
      <4>2. path' \in Universe
        BY <1>4, <3>1, <4>1, UniverseFacts
      <4>3. \A k \in 0..(n - 2) : Prefix(path', k) = Prefix(path, k)
        BY <1>4, <3>1, PrefixOfPrefix
      <4> QED
        BY <1>2, <3>2, <4>2, <4>3
    <3> QED
      BY <1>2, <2>2, <3>3, <3>4
  <2> QED
    BY <1>2, <2>1, <2>2
<1>6. TypeOK'
  BY <1>1, <1>2, <1>3, <1>4, <1>5 DEF TypeOK
<1>7. FrameInv'
  <2> SUFFICES ASSUME NEW i \in 1..(n - 1)
               PROVE  /\ frames[i].len = i - 1 /\ i - 1 <= Len(path')
                      /\ frames[i].dir = Prefix(path', i - 1)
                      /\ frames[i].must \subseteq frames[i].may
                      /\ frames[i].may \subseteq Children(frames[i].dir)
                      /\ frames[i].may \subseteq present \cup changed
    BY <1>2, <1>3 DEF FrameInv
  <2>1. /\ i \in 1..n /\ i - 1 \in 0..(n - 2) /\ n > 1 /\ i - 1 <= n - 2
    BY <1>2
  <2> QED
    BY <1>1, <1>5, <2>1 DEF FrameInv, n
<1>8. PathInv'
  BY <1>2, <1>5 DEF PathInv
<1>9. QuietInv' /\ SourceInv'
  BY <1>1, <1>3 DEF QuietInv, Quiet, SourceInv
<1>10. OnceInv'
  <2> SUFFICES ASSUME n > 1, NEW i \in 1..(n - 1), NEW k \in 1..(n - 2),
                      Prefix(path', k) \in frames[i].may
               PROVE  Prefix(path', k) \in changed
    BY <1>2, <1>3, <1>5 DEF OnceInv, Walking
  <2>1. k \in 0..(n - 2) /\ k \in 1..Len(path) /\ i \in 1..n
    BY <1>2
  <2>2. Prefix(path', k) = Prefix(path, k)
    BY <1>5, <2>1
  <2> QED
    BY <1>1, <1>2, <2>1, <2>2 DEF OnceInv, Walking, n
<1>11. CopiedInv'
  <2> SUFFICES ASSUME n > 1, NEW p \in Copied \ changed, NEW k \in 1..Len(p),
                      NEW i \in 1..(n - 1)
               PROVE  Prefix(p, k) \notin frames[i].may
    BY <1>2, <1>3 DEF CopiedInv, Copied, Walking
  <2>1. i \in 1..n
    BY <1>2
  <2> QED
    BY <1>1, <1>2, <2>1 DEF CopiedInv, Walking, n
<1>12. PendInv'
  <2> SUFFICES ASSUME NEW q \in Quiet \ Copied
               PROVE  \E k \in 0..Len(q) : Pending(Prefix(q, k))'
    BY <1>3 DEF PendInv, Quiet, Copied
  <2>1. PICK k \in 0..Len(q) : Pending(Prefix(q, k))
    BY <1>1, <1>2 DEF PendInv, Walking
  <2>2. PICK i \in 1..n : Prefix(q, k) \in frames[i].must
    BY <1>2, <2>1 DEF Pending, n
  <2>3. i \in 1..(n - 1)
    BY <1>2, <1>3, <2>2
  <2>4. Pending(Prefix(q, k))'
    BY <1>2, <2>2, <2>3 DEF Pending
  <2> QED
    BY <2>4
<1>13. QuietDevIsCopied'
  BY <1>2 DEF QuietDevIsCopied
<1> QED
  BY <1>6, <1>7, <1>8, <1>9, <1>10, <1>11, <1>12, <1>13 DEF IInv

(* What the path names between lstat and the end of the loop.              *)
LEMMA EntryFacts ==
  ASSUME IInv, pc \in {"stat", "copy"}
  PROVE  /\ Len(frames) \in Nat /\ Len(frames) > 0 /\ Len(path) = Len(frames)
         /\ path \in Universe /\ path \in Seq(Name) /\ path # Root
         /\ path \in present \cup changed
         /\ path \in Copied => path \in changed
         /\ path \in present \ changed => \A k \in 1..Len(path), i \in 1..Len(frames) :
                                            Prefix(path, k) \notin frames[i].may
<1>1. /\ TypeOK /\ FrameInv /\ PathInv /\ QuietInv /\ SourceInv
      /\ OnceInv /\ CopiedInv
  BY DEF IInv
<1>2. /\ Len(frames) > 0 /\ Len(path) = Len(frames)
      /\ path \in present \cup changed
  BY <1>1 DEF PathInv
<1>3. Len(frames) \in Nat /\ path \in Seq(Name) /\ path \in {Root} \cup Universe
  BY <1>1, StateFacts
<1>4. path # Root /\ path \in Universe
  BY <1>2, <1>3, RootFacts
<1>5. path \in Copied => path \in changed
  <2>1. Len(path) \in 1..Len(path) /\ Prefix(path, Len(path)) = path
    BY <1>2, <1>3, PrefixWhole
  <2> QED
    BY <1>1, <2>1 DEF CopiedInv, Walking
<1>6. ASSUME path \in present \ changed, NEW k \in 1..Len(path), NEW i \in 1..Len(frames)
      PROVE  Prefix(path, k) \notin frames[i].may
  <2>1. Prefix(path, k) \in Quiet
    BY <1>1, <1>6 DEF QuietInv, Quiet
  <2> QED
    BY <1>1, <2>1 DEF OnceInv, Walking, Quiet
<1> QED
  BY <1>2, <1>3, <1>4, <1>5, <1>6

LEMMA CopiedAlso ==
  ASSUME NEW e, newDev' = newDev \cup {e}
  PROVE  Copied' = Copied \cup {e.path}
BY DEF Copied

LEMMA OwnAreNodes == \A p \in Own : p \in Universe /\ Kind[p] = "node"
BY DevTreeAssumption

LEMMA StatKeeps ==
  ASSUME IInv, Stat
  PROVE  IInv'
<1>1. /\ TypeOK /\ FrameInv /\ PathInv /\ QuietInv /\ SourceInv
      /\ OnceInv /\ CopiedInv /\ PendInv /\ QuietDevIsCopied
  BY DEF IInv
<1>2. pc = "stat"
  BY DEF Stat
<1>3. /\ Len(frames) \in Nat /\ Len(frames) > 0 /\ Len(path) = Len(frames)
      /\ path \in Universe /\ path \in Seq(Name) /\ path # Root
      /\ path \in present \cup changed
      /\ path \in Copied => path \in changed
      /\ path \in present \ changed => \A k \in 1..Len(path), i \in 1..Len(frames) :
                                         Prefix(path, k) \notin frames[i].may
  BY <1>2, EntryFacts
<1>4. CASE Fail /\ (path \notin present \/ path \in Copied)
  <2>1. changed' # {}
    BY <1>3, <1>4 DEF Fail, devVars
  <2>2. QuietDevIsCopied'
    BY <2>1 DEF QuietDevIsCopied
  <2> QED
    BY <1>1, <1>4, <2>2, FailKeeps DEF IInv
<1>5. CASE /\ path \in present /\ Kind[path] = "dir" /\ path \notin Copied
           /\ newDev' = newDev \cup {[path |-> path, as |-> "dir"]}
           /\ pc' = "open"
           /\ UNCHANGED <<devVars, path, frames>>
  <2> DEFINE e == [path |-> path, as |-> "dir"]
  <2>1. UNCHANGED <<present, changed, changes, path, frames>>
    BY <1>5 DEF devVars
  <2>2. e \in Entry /\ e.path = path /\ e.as = As(path)
    BY <1>3, <1>5, OwnAreNodes DEF Entry, As
  <2>3. newDev' = newDev \cup {e}
    BY <1>5
  <2> HIDE DEF e
  <2>4. Copied' = Copied \cup {path}
    BY <2>2, <2>3, CopiedAlso
  <2>5. TypeOK'
    BY <1>1, <1>5, <2>1, <2>2, <2>3 DEF TypeOK
  <2>6. FrameInv' /\ QuietInv'
    BY <1>1, <2>1 DEF FrameInv, QuietInv, Quiet
  <2>7. PathInv'
    BY <1>3, <1>5, <2>1, <2>4 DEF PathInv
  <2>8. SourceInv'
    BY <1>1, <1>5, <2>1, <2>2, <2>3 DEF SourceInv
  <2>9. OnceInv'
    BY <1>1, <1>2, <2>1 DEF OnceInv, Walking
  <2>10. CopiedInv'
    <3> SUFFICES ASSUME NEW p \in (Copied \cup {path}) \ changed, NEW k \in 1..Len(p)
                 PROVE  /\ \A i \in 1..Len(frames) : Prefix(p, k) \notin frames[i].may
                        /\ Prefix(p, k) = path => k = Len(p)
      BY <1>3, <1>5, <2>1, <2>4 DEF CopiedInv
    <3>1. CASE p \in Copied
      BY <1>1, <1>2, <3>1 DEF CopiedInv, Walking
    <3>2. CASE p = path
      <4>1. Prefix(p, k) = path => k = Len(p)
        BY <1>3, <3>2, PrefixFacts
      <4> QED
        BY <1>3, <1>5, <3>2, <4>1
    <3> QED
      BY <3>1, <3>2
  <2>11. PendInv'
    BY <1>1, <1>2, <1>5, <2>1, <2>4 DEF PendInv, Walking, Quiet, Pending
  <2>12. QuietDevIsCopied'
    BY <1>5 DEF QuietDevIsCopied
  <2> QED
    BY <2>5, <2>6, <2>7, <2>8, <2>9, <2>10, <2>11, <2>12 DEF IInv
<1>6. CASE /\ path \in present /\ Kind[path] # "dir"
           /\ pc' = "copy"
           /\ UNCHANGED <<devVars, path, frames, newDev>>
  <2>1. UNCHANGED <<present, changed, changes, path, frames, newDev>>
    BY <1>6 DEF devVars
  <2>2. TypeOK' /\ FrameInv' /\ QuietInv' /\ SourceInv'
    BY <1>1, <1>6, <2>1 DEF TypeOK, FrameInv, QuietInv, Quiet, SourceInv
  <2>3. PathInv'
    BY <1>3, <1>6, <2>1 DEF PathInv
  <2>4. OnceInv' /\ CopiedInv'
    BY <1>1, <1>2, <1>6, <2>1 DEF OnceInv, CopiedInv, Walking, Copied
  <2>5. PendInv'
    BY <1>1, <1>2, <1>6, <2>1 DEF PendInv, Walking, Quiet, Pending, Copied
  <2>6. QuietDevIsCopied'
    BY <1>6 DEF QuietDevIsCopied
  <2> QED
    BY <2>2, <2>3, <2>4, <2>5, <2>6 DEF IInv
<1> QED
  BY <1>4, <1>5, <1>6 DEF Stat

LEMMA CopyKeeps ==
  ASSUME IInv, CopyDevice
  PROVE  IInv'
<1>1. /\ TypeOK /\ FrameInv /\ PathInv /\ QuietInv /\ SourceInv
      /\ OnceInv /\ CopiedInv /\ PendInv /\ QuietDevIsCopied
  BY DEF IInv
<1>2. pc = "copy" /\ Kind[path] # "dir"
  BY <1>1 DEF CopyDevice, PathInv
<1> DEFINE n == Len(frames)
<1>3. /\ n \in Nat /\ n > 0 /\ Len(path) = n
      /\ path \in Universe /\ path \in Seq(Name) /\ path # Root
      /\ path \in present \cup changed
      /\ path \in Copied => path \in changed
      /\ path \in present \ changed => \A k \in 1..Len(path), i \in 1..n :
                                         Prefix(path, k) \notin frames[i].may
  BY <1>2, EntryFacts
<1>4. CASE Fail
  <2>1. path \notin present \/ path \in Copied
    BY <1>4 DEF CopyDevice, Fail
  <2>2. changed' # {}
    BY <1>3, <1>4, <2>1 DEF Fail, devVars
  <2>3. QuietDevIsCopied'
    BY <2>2 DEF QuietDevIsCopied
  <2> QED
    BY <1>1, <1>4, <2>3, FailKeeps DEF IInv
<1>5. CASE ~Fail
  <2> DEFINE e == Copy(path)
  <2>1. /\ path \in present \ Copied /\ newDev' = newDev \cup {e}
        /\ path' = Cut(Top.len) /\ pc' = "read"
        /\ UNCHANGED <<present, changed, changes, frames>>
    BY <1>5 DEF CopyDevice, devVars
  <2>2. e \in Entry /\ e.path = path /\ e.as = As(path)
    <3>1. Kind[path] \in {"node", "other"} /\ (path \in Own => Kind[path] = "node")
      BY <1>2, <1>3, UniverseFacts, OwnAreNodes
    <3> QED
      BY <1>3, <3>1 DEF Copy, Redirected, Entry, As
  <2> HIDE DEF e
  <2>3. Copied' = Copied \cup {path}
    BY <2>1, <2>2, CopiedAlso
  <2>4. path' = Prefix(path, n - 1)
    <3>1. frames[n].len = n - 1
      BY <1>1, <1>3 DEF FrameInv
    <3> QED
      BY <2>1, <3>1 DEF Cut, Top, Prefix
  <2> HIDE DEF n
  <2>5. n - 1 \in 0..Len(path)
    BY <1>3
  <2>6. /\ Len(path') = n - 1
        /\ \A k \in 0..(n - 1) : Prefix(path', k) = Prefix(path, k)
    BY <1>3, <2>4, <2>5, PrefixFacts, PrefixOfPrefix
  <2>7. path' \in {Root} \cup Universe
    <3>1. CASE n = 1
      BY <1>3, <2>4, <3>1, PrefixZero DEF Root
    <3>2. CASE n > 1
      <4>1. n - 1 \in 1..Len(path)
        BY <1>3, <3>2
      <4> QED
        BY <1>3, <2>4, <4>1, UniverseFacts
    <3> QED
      BY <1>3, <3>1, <3>2
  <2>8. TypeOK'
    BY <1>1, <2>1, <2>2, <2>7 DEF TypeOK
  <2>9. FrameInv'
    <3> SUFFICES ASSUME NEW i \in 1..n
                 PROVE  /\ frames[i].len = i - 1 /\ i - 1 <= Len(path')
                        /\ frames[i].dir = Prefix(path', i - 1)
                        /\ frames[i].must \subseteq frames[i].may
                        /\ frames[i].may \subseteq Children(frames[i].dir)
                        /\ frames[i].may \subseteq present \cup changed
      BY <2>1 DEF FrameInv, n
    <3>1. i - 1 \in 0..(n - 1) /\ i - 1 <= Len(path')
      BY <1>3, <2>6
    <3> QED
      BY <1>1, <2>6, <3>1 DEF FrameInv, n
  <2>10. PathInv'
    BY <1>3, <2>1, <2>6 DEF PathInv, n
  <2>11. QuietInv' /\ SourceInv'
    BY <1>1, <2>1, <2>2 DEF QuietInv, Quiet, SourceInv
  <2>12. OnceInv'
    <3> SUFFICES ASSUME NEW i \in 1..n, NEW k \in 1..(n - 1),
                        Prefix(path', k) \in frames[i].may
                 PROVE  Prefix(path', k) \in changed
      BY <2>1, <2>6 DEF OnceInv, n
    <3>1. k \in 0..(n - 1) /\ k \in 1..Len(path)
      BY <1>3
    <3>2. Prefix(path', k) = Prefix(path, k)
      BY <2>6, <3>1
    <3> QED
      BY <1>1, <1>2, <3>1, <3>2 DEF OnceInv, Walking, n
  <2>13. CopiedInv'
    <3> SUFFICES ASSUME NEW p \in (Copied \cup {path}) \ changed, NEW k \in 1..Len(p),
                        NEW i \in 1..n
                 PROVE  Prefix(p, k) \notin frames[i].may
      BY <2>1, <2>3 DEF CopiedInv, n
    <3>1. CASE p \in Copied
      BY <1>1, <1>2, <3>1 DEF CopiedInv, Walking, n
    <3>2. CASE p = path
      BY <1>3, <2>1, <3>2
    <3> QED
      BY <3>1, <3>2
  <2>14. PendInv'
    <3> SUFFICES ASSUME NEW q \in Quiet \ (Copied \cup {path})
                 PROVE  \E k \in 0..Len(q) : Pending(Prefix(q, k))'
      BY <2>1, <2>3 DEF PendInv, Quiet
    <3>1. q \in Universe /\ q \in Seq(Name) /\ Len(q) \in Nat
      BY <1>1, StateFacts, UniverseFacts DEF Quiet
    <3>2. PICK k \in 0..Len(q) : Pending(Prefix(q, k))
      BY <1>1, <1>2 DEF PendInv, Walking
    <3>3. Prefix(q, k) # path
      <4> SUFFICES ASSUME Prefix(q, k) = path PROVE FALSE
        OBVIOUS
      <4>1. k # 0
        BY <1>3, <3>1, PrefixZero DEF Root
      <4>2. k # Len(q)
        BY <3>1, PrefixWhole
      <4>3. k \in 1..(Len(q) - 1)
        BY <3>1, <4>1, <4>2
      <4> QED
        BY <1>2, <3>1, <4>3, UniverseFacts
    <3>4. \E i \in 1..Len(frames) : Prefix(q, k) \in frames[i].must
      BY <3>2, <3>3 DEF Pending
    <3>5. Pending(Prefix(q, k))'
      BY <2>1, <3>4 DEF Pending
    <3> QED
      BY <3>5
  <2>15. QuietDevIsCopied'
    BY <2>1 DEF QuietDevIsCopied
  <2> QED
    BY <2>8, <2>9, <2>10, <2>11, <2>12, <2>13, <2>14, <2>15 DEF IInv
<1> QED
  BY <1>4, <1>5

LEMMA ClearKeeps ==
  ASSUME IInv, Clear
  PROVE  IInv'
<1>1. /\ TypeOK /\ FrameInv /\ QuietInv
  BY DEF IInv
<1>2. /\ pc' = "cleared" /\ newDev' = {}
      /\ UNCHANGED <<present, changed, changes, path, frames>>
  BY DEF Clear, devVars
<1>3. TypeOK' /\ FrameInv' /\ PathInv' /\ QuietInv'
  BY <1>1, <1>2 DEF TypeOK, FrameInv, PathInv, QuietInv, Quiet
<1>4. SourceInv' /\ OnceInv' /\ CopiedInv' /\ PendInv' /\ QuietDevIsCopied'
  BY <1>2 DEF SourceInv, OnceInv, CopiedInv, PendInv, QuietDevIsCopied, Walking
<1> QED
  BY <1>3, <1>4 DEF IInv

LEMMA NextIInv == IInv /\ [Next]_vars => IInv'
<1> SUFFICES ASSUME IInv, [Next]_vars PROVE IInv'
  OBVIOUS
<1>1. CASE UNCHANGED vars
  <2>1. UNCHANGED <<present, changed, changes, path, frames, pc, newDev>>
    BY <1>1 DEF vars
  <2>2. TypeOK' /\ FrameInv' /\ PathInv' /\ QuietInv' /\ SourceInv'
    BY <2>1 DEF IInv, TypeOK, FrameInv, PathInv, QuietInv, Quiet, SourceInv, Copied
  <2>3. OnceInv' /\ CopiedInv' /\ QuietDevIsCopied'
    BY <2>1 DEF IInv, OnceInv, CopiedInv, QuietDevIsCopied, Walking, Copied
  <2>4. PendInv'
    BY <2>1 DEF IInv, PendInv, Pending, Walking, Quiet, Copied
  <2> QED
    BY <2>2, <2>3, <2>4 DEF IInv
<1> QED
  BY <1>1, AppearKeeps, VanishKeeps, OpenKeeps, ReadKeeps, ReturnKeeps,
     StatKeeps, CopyKeeps, ClearKeeps DEF Next, Walk

LEMMA AlwaysIInv == Spec => []IInv
BY InitIInv, NextIInv, PTL DEF Spec

-----------------------------------------------------------------------------
(* What is there stays a tree, and the frames and the strings keep their   *)
(* types (DevTree!TypeOK).                                                 *)
THEOREM WalkTypeCorrect == Spec => []TypeOK
<1>1. IInv => TypeOK
  BY DEF IInv
<1> QED
  BY <1>1, AlwaysIInv, PTL

(* The two strings name the directory that is read, at every depth and     *)
(* whatever comes and goes (orig_len and from_len, symlinks.c:132).        *)
THEOREM StringsFollowCalls == Spec => []PathFollowsFrames
<1>1. IInv => PathFollowsFrames
  <2> SUFFICES ASSUME IInv PROVE PathFollowsFrames
    OBVIOUS
  <2>1. TypeOK /\ FrameInv /\ PathInv
    BY DEF IInv
  <2>2. DOMAIN frames = 1..Len(frames) /\ path \in Seq(Name) /\ Len(frames) \in Nat
    BY <2>1, StateFacts, LenProperties
  <2>3. \A i \in DOMAIN frames : frames[i].dir = Cut(frames[i].len)
    BY <2>1, <2>2 DEF FrameInv, Cut, Prefix
  <2>4. pc = "read" => path = Top.dir
    BY <2>1, <2>2, PrefixWhole DEF FrameInv, PathInv, Top
  <2>5. ASSUME pc \in {"stat", "copy"} PROVE Parent(path) = Top.dir
    <3>1. Len(frames) > 0 /\ Len(path) = Len(frames)
      BY <2>1, <2>5 DEF PathInv
    <3>2. frames[Len(frames)].dir = Prefix(path, Len(frames) - 1)
      BY <2>1, <2>2, <3>1 DEF FrameInv
    <3> QED
      BY <3>1, <3>2 DEF Top, Parent, Prefix
  <2> QED
    BY <2>3, <2>4, <2>5 DEF PathFollowsFrames
<1> QED
  BY <1>1, AlwaysIInv, PTL

(* A walk that succeeds has copied the tree: all that was there all the    *)
(* time, as what it is (link_dir and copy_device, symlinks.c:112-256).     *)
THEOREM SuccessMirrors == Spec => []Mirrored
<1>1. IInv => Mirrored
  <2> SUFFICES ASSUME IInv, pc = "done"
               PROVE  /\ {e \in newDev : e.path \notin changed} =
                           {[path |-> p, as |-> As(p)] : p \in present \ changed}
                      /\ Copied \subseteq present \cup changed
    BY DEF Mirrored, As
  <2>1. TypeOK /\ PathInv /\ SourceInv /\ PendInv
    BY DEF IInv
  <2>2. present \ changed \subseteq Copied
    <3>1. Len(frames) = 0
      BY <2>1, EmptySeq DEF PathInv
    <3>2. \A q : ~Pending(q)
      BY <3>1 DEF Pending
    <3> QED
      BY <2>1, <3>2 DEF PendInv, Quiet
  <2>3. Copied \subseteq present \cup changed
    BY <2>1, CopiedIsThere
  <2>4. \A e \in newDev : e = [path |-> e.path, as |-> As(e.path)]
    <3> SUFFICES ASSUME NEW e \in newDev PROVE e = [path |-> e.path, as |-> As(e.path)]
      OBVIOUS
    <3>1. e \in Entry /\ e.as = As(e.path)
      BY <2>1 DEF TypeOK, SourceInv
    <3>2. e = [path |-> e.path, as |-> e.as]
      BY <3>1 DEF Entry
    <3> QED
      BY <3>1, <3>2
  <2>5. ASSUME NEW e \in newDev, e.path \notin changed
        PROVE  \E p \in present \ changed : e = [path |-> p, as |-> As(p)]
    BY <2>3, <2>4, <2>5 DEF Copied
  <2>6. ASSUME NEW p \in present \ changed
        PROVE  /\ [path |-> p, as |-> As(p)] \in newDev
               /\ [path |-> p, as |-> As(p)].path \notin changed
    <3>1. PICK e \in newDev : e.path = p
      BY <2>2 DEF Copied
    <3> QED
      BY <2>4, <3>1
  <2> QED
    BY <2>3, <2>5, <2>6
<1> QED
  BY <1>1, AlwaysIInv, PTL

(* The walk fails only if /dev changed, or holds a directory too deep:     *)
(* the two lstat of an entry agree and no entry is made twice.             *)
THEOREM QuietDevSucceeds == Spec => []QuietDevIsCopied
<1>1. IInv => QuietDevIsCopied
  BY DEF IInv
<1> QED
  BY <1>1, AlwaysIInv, PTL
=============================================================================
