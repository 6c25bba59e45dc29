---------------------------- MODULE DevicesProofs ----------------------------
(***************************************************************************)
(* What is proved of the devices, for any set of processes and whatever    *)
(* operations they use.                                                    *)
(***************************************************************************)
EXTENDS Devices, SequenceTheorems, TLAPS

(* No process has two messages in a queue.                                 *)
Single(s) == \A i, j \in DOMAIN s : s[i].p = s[j].p => i = j

(* What a message in the queue of d says is so.                            *)
Holds(m, d, st0, req0, killed0) ==
  /\ req0[m.p].dev = d
  /\ m.kind = "request" => st0[m.p] = "asks"
  /\ m.kind = "interrupt" => st0[m.p] = "read" /\ m.p \in killed0

QueueOK(d, s, st0, req0, killed0) ==
  Single(s) /\ \A i \in DOMAIN s : Holds(s[i], d, st0, req0, killed0)

MessageInv == \A d \in Dev : QueueOK(d, queue[d], st, req, killed)

(* Processes name no other node than the root.                             *)
NodeInv == nodes = {1} /\ \A p \in Proc : req[p].node = 1

(* Whoever waits for an answer has asked something.                        *)
AskedInv == \A p \in Proc : st[p] \in {"asks", "read"} => req[p] # NoRequest

(* What the library has been sent is a modeset ioctl that was read.        *)
WaitingInv == \A p \in waiting : st[p] = "read" /\ req[p].op = "modeset"

(* A queue that epoll_wait found a request in is empty after a kill only.  *)
ReadyInv == mpc = "ready" /\ queue[dev] = <<>> => dev \in lost

DevInv == mpc # "wait" => dev \in Dev

IInv == /\ TypeOK /\ DevInv /\ MessageInv /\ NodeInv /\ AskedInv
        /\ WaitingInv /\ ReadyInv /\ StuckByAKill /\ OnlyCardAborts
-----------------------------------------------------------------------------
(* What the operations on a queue leave of it.                             *)

(* Every message of t is one of s.                                         *)
Within(t, s) == \A i \in DOMAIN t : \E j \in DOMAIN s : t[i] = s[j]

NoneAbout(p, s) == \A i \in DOMAIN s : s[i].p # p

LEMMA RemovedAt ==
  ASSUME NEW s \in Seq(Message), NEW k \in 1..Len(s)
  PROVE  LET t == RemoveAt(s, k) IN
           /\ t \in Seq(Message) /\ Len(t) = Len(s) - 1
           /\ \A i \in 1..(Len(s) - 1) : t[i] = s[IF i < k THEN i ELSE i + 1]
<1> DEFINE a == SubSeq(s, 1, k - 1)
           b == SubSeq(s, k + 1, Len(s))
<1>1. a \in Seq(Message) /\ Len(a) = k - 1 /\ \A i \in 1..(k - 1) : a[i] = s[i]
  OBVIOUS
<1>2. /\ b \in Seq(Message) /\ Len(b) = Len(s) - k
      /\ \A i \in 1..(Len(s) - k) : b[i] = s[k + i]
  OBVIOUS
<1>3. RemoveAt(s, k) = a \o b
  BY DEF RemoveAt
<1> HIDE DEF a, b
<1>4. /\ a \o b \in Seq(Message) /\ Len(a \o b) = Len(s) - 1
      /\ \A i \in 1..(Len(s) - 1) :
           (a \o b)[i] = IF i <= k - 1 THEN a[i] ELSE b[i - (k - 1)]
  <2>1. /\ a \o b \in Seq(Message) /\ Len(a \o b) = Len(a) + Len(b)
        /\ \A i \in 1..(Len(a) + Len(b)) :
             (a \o b)[i] = IF i <= Len(a) THEN a[i] ELSE b[i - Len(a)]
    BY <1>1, <1>2, ConcatProperties
  <2>2. Len(a) = k - 1 /\ Len(a) + Len(b) = Len(s) - 1
    BY <1>1, <1>2
  <2> QED
    BY <2>1, <2>2
<1>5. \A i \in 1..(Len(s) - 1) : i < k => (a \o b)[i] = s[i]
  BY <1>1, <1>4
<1>6. \A i \in 1..(Len(s) - 1) : ~(i < k) => (a \o b)[i] = s[i + 1]
  <2> SUFFICES ASSUME NEW i \in 1..(Len(s) - 1), ~(i < k)
               PROVE  (a \o b)[i] = s[i + 1]
    OBVIOUS
  <2>1. (a \o b)[i] = b[i - (k - 1)]
    BY <1>4
  <2>2. i - (k - 1) \in 1..(Len(s) - k) /\ k + (i - (k - 1)) = i + 1
    OBVIOUS
  <2> QED
    BY <2>1, <2>2, <1>2
<1> QED
  BY <1>3, <1>4, <1>5, <1>6

LEMMA WithoutFacts ==
  ASSUME NEW s \in Seq(Message), Single(s), NEW p \in Proc
  PROVE  /\ Without(s, p) \in Seq(Message)
         /\ Single(Without(s, p)) /\ Within(Without(s, p), s)
         /\ NoneAbout(p, Without(s, p))
<1>1. CASE \E i \in DOMAIN s : s[i].p = p
  <2> DEFINE k == CHOOSE i \in DOMAIN s : s[i].p = p
             t == RemoveAt(s, k)
  <2>1. k \in 1..Len(s) /\ s[k].p = p
    BY <1>1
  <2>2. Without(s, p) = t
    BY <1>1 DEF Without
  <2> HIDE DEF k
  <2>3. /\ t \in Seq(Message) /\ DOMAIN t = 1..(Len(s) - 1)
        /\ \A i \in 1..(Len(s) - 1) : t[i] = s[IF i < k THEN i ELSE i + 1]
    <3>1. t \in Seq(Message) /\ Len(t) = Len(s) - 1
      BY <2>1, RemovedAt
    <3>2. \A i \in 1..(Len(s) - 1) : t[i] = s[IF i < k THEN i ELSE i + 1]
      BY <2>1, RemovedAt
    <3> QED
      BY <3>1, <3>2
  <2> HIDE DEF t
  <2>4. \A i \in DOMAIN t : /\ (IF i < k THEN i ELSE i + 1) \in DOMAIN s
                            /\ (IF i < k THEN i ELSE i + 1) # k
    BY <2>1, <2>3
  <2>5. Within(t, s)
    BY <2>3, <2>4 DEF Within
  <2>6. Single(t)
    <3> SUFFICES ASSUME NEW i \in DOMAIN t, NEW j \in DOMAIN t, t[i].p = t[j].p
                 PROVE  i = j
      BY DEF Single
    <3>1. (IF i < k THEN i ELSE i + 1) = (IF j < k THEN j ELSE j + 1)
      BY <2>3, <2>4 DEF Single
    <3> QED
      BY <3>1, <2>1, <2>3
  <2>7. NoneAbout(p, t)
    BY <2>1, <2>3, <2>4 DEF Single, NoneAbout
  <2> QED
    BY <2>2, <2>3, <2>5, <2>6, <2>7
<1>2. CASE ~\E i \in DOMAIN s : s[i].p = p
  BY <1>2 DEF Without, Within, NoneAbout
<1> QED
  BY <1>1, <1>2

LEMMA TailFacts ==
  ASSUME NEW s \in Seq(Message), Single(s), s # <<>>
  PROVE  /\ Tail(s) \in Seq(Message) /\ Head(s) \in Message
         /\ Single(Tail(s)) /\ Within(Tail(s), s)
         /\ NoneAbout(Head(s).p, Tail(s))
<1>1. /\ Tail(s) \in Seq(Message) /\ Head(s) = s[1] /\ Head(s) \in Message
      /\ DOMAIN Tail(s) = 1..(Len(s) - 1)
      /\ \A i \in 1..(Len(s) - 1) : Tail(s)[i] = s[i + 1]
  OBVIOUS
<1>2. \A i \in 1..(Len(s) - 1) : i + 1 \in DOMAIN s
  OBVIOUS
<1>3. Single(Tail(s))
  BY <1>1, <1>2 DEF Single
<1>4. Within(Tail(s), s)
  BY <1>1, <1>2 DEF Within
<1>5. NoneAbout(Head(s).p, Tail(s))
  BY <1>1, <1>2 DEF NoneAbout, Single
<1> QED
  BY <1>1, <1>3, <1>4, <1>5

LEMMA AppendFacts ==
  ASSUME NEW s \in Seq(Message), Single(s), NEW m \in Message, NoneAbout(m.p, s)
  PROVE  LET t == Append(s, m) IN
           /\ t \in Seq(Message) /\ t # <<>> /\ Single(t)
           /\ \A i \in DOMAIN t : t[i] = m \/ \E j \in DOMAIN s : t[i] = s[j]
<1> DEFINE t == Append(s, m)
<1>1. /\ t \in Seq(Message) /\ t # <<>> /\ DOMAIN t = 1..(Len(s) + 1)
      /\ t[Len(s) + 1] = m
      /\ \A i \in 1..Len(s) : t[i] = s[i]
  OBVIOUS
<1>2. DOMAIN s = 1..Len(s)
  OBVIOUS
<1> HIDE DEF t
<1>3. \A i \in DOMAIN t : i = Len(s) + 1 \/ i \in DOMAIN s
  BY <1>1, <1>2
<1>4. Single(t)
  BY <1>1, <1>2, <1>3 DEF Single, NoneAbout
<1> QED
  BY <1>1, <1>2, <1>3, <1>4 DEF t

LEMMA InFrontFacts ==
  ASSUME NEW s \in Seq(Message), Single(s), NEW m \in Message, NoneAbout(m.p, s)
  PROVE  LET t == <<m>> \o s IN
           /\ t \in Seq(Message) /\ t # <<>> /\ Single(t)
           /\ \A i \in DOMAIN t : t[i] = m \/ \E j \in DOMAIN s : t[i] = s[j]
<1> DEFINE t == <<m>> \o s
<1>1. /\ t \in Seq(Message) /\ t # <<>> /\ DOMAIN t = 1..(Len(s) + 1)
      /\ t[1] = m
      /\ \A i \in 2..(Len(s) + 1) : t[i] = s[i - 1]
  OBVIOUS
<1>2. \A i \in DOMAIN t : i = 1 \/ (i \in 2..(Len(s) + 1) /\ i - 1 \in DOMAIN s)
  BY <1>1
<1> HIDE DEF t
<1>3. Single(t)
  <2> SUFFICES ASSUME NEW i \in DOMAIN t, NEW j \in DOMAIN t, t[i].p = t[j].p
               PROVE  i = j
    BY DEF Single
  <2>1. CASE i = 1
    BY <2>1, <1>1, <1>2 DEF NoneAbout
  <2>2. CASE j = 1
    BY <2>2, <1>1, <1>2 DEF NoneAbout
  <2>3. CASE i # 1 /\ j # 1
    <3>1. i - 1 = j - 1
      BY <2>3, <1>1, <1>2 DEF Single
    <3> QED
      BY <3>1, <1>1
  <2> QED
    BY <2>1, <2>2, <2>3
<1>4. \A i \in DOMAIN t : t[i] = m \/ \E j \in DOMAIN s : t[i] = s[j]
  BY <1>1, <1>2
<1> QED
  BY <1>1, <1>3, <1>4 DEF t

(* What a queue says stays so while nothing changes but for p, of which it *)
(* does not speak.                                                         *)
LEMMA KeptOK ==
  ASSUME NEW d, NEW s \in Seq(Message), NEW p, NEW st0, NEW req0, NEW killed0,
         NEW st1, NEW req1, NEW killed1,
         QueueOK(d, s, st0, req0, killed0), NoneAbout(p, s),
         \A q \in Proc \ {p} : st1[q] = st0[q] /\ req1[q] = req0[q],
         killed0 \subseteq killed1
  PROVE  QueueOK(d, s, st1, req1, killed1)
<1> SUFFICES ASSUME NEW i \in DOMAIN s
             PROVE  Holds(s[i], d, st1, req1, killed1)
  BY DEF QueueOK
<1>1. s[i] \in Message
  BY ElementOfSeq
<1>2. s[i].p \in Proc \ {p}
  BY <1>1 DEF Message, NoneAbout
<1>3. Holds(s[i], d, st0, req0, killed0)
  BY DEF QueueOK
<1> QED
  BY <1>2, <1>3 DEF Holds

LEMMA PartOK ==
  ASSUME NEW d, NEW s, NEW t, NEW st0, NEW req0, NEW killed0,
         QueueOK(d, s, st0, req0, killed0), Single(t), Within(t, s)
  PROVE  QueueOK(d, t, st0, req0, killed0)
BY DEF QueueOK, Within

-----------------------------------------------------------------------------
(* What the invariant says of messages.                                    *)

LEMMA QueueType ==
  ASSUME TypeOK, MessageInv, NEW d \in Dev
  PROVE  queue[d] \in Seq(Message) /\ QueueOK(d, queue[d], st, req, killed)
           /\ Single(queue[d])
BY DEF TypeOK, MessageInv, QueueOK

LEMMA RequestType ==
  ASSUME NEW r \in Request
  PROVE  r.dev \in Dev /\ r.node \in Node
BY DEF Request

LEMMA AboutP ==
  ASSUME TypeOK, MessageInv, NEW d \in Dev, NEW i \in DOMAIN queue[d]
  PROVE  LET m == queue[d][i] IN
           /\ m.p \in Proc /\ m.kind \in {"request", "interrupt"}
           /\ req[m.p].dev = d /\ st[m.p] \in {"asks", "read"}
           /\ m.kind = "request" <=> st[m.p] = "asks"
           /\ m.kind = "interrupt" => m.p \in killed
<1>1. queue[d][i] \in Message
  BY QueueType, ElementOfSeq
<1>2. Holds(queue[d][i], d, st, req, killed)
  BY DEF MessageInv, QueueOK
<1> QED
  BY <1>1, <1>2 DEF Message, Holds

LEMMA NoneAboutOther ==
  ASSUME TypeOK, MessageInv, NEW d \in Dev, NEW p \in Proc,
         st[p] \notin {"asks", "read"} \/ req[p].dev # d
  PROVE  NoneAbout(p, queue[d])
BY AboutP DEF NoneAbout

(* The request at the head of the queue the master reads.                  *)
LEMMA HeadIsAsked ==
  ASSUME IInv, NEW p \in Proc, Reads(p)
  PROVE  /\ dev \in Dev /\ req[p] \in Request /\ req[p].dev = dev
         /\ st[p] = "asks" /\ req[p].node = 1
<1>1. dev \in Dev
  BY DEF IInv, DevInv, Reads, Reading
<1>2. 1 \in DOMAIN queue[dev] /\ queue[dev][1] = Head(queue[dev])
  BY <1>1, QueueType DEF IInv, Reads
<1>3. queue[dev][1] = [p |-> p, kind |-> "request"]
  BY <1>2 DEF Reads
<1>4. req[p].dev = dev /\ st[p] = "asks"
  BY <1>1, <1>2, <1>3, AboutP DEF IInv
<1>5. req[p] # NoRequest
  BY <1>1, <1>4 DEF NoRequest, Dev
<1> QED
  BY <1>1, <1>4, <1>5 DEF IInv, TypeOK, NodeInv

-----------------------------------------------------------------------------
LEMMA InitIInv == Init => IInv
<1> SUFFICES ASSUME Init PROVE IInv
  OBVIOUS
<1>1. TypeOK
  <2>1. queue \in [Dev -> Seq(Message)]
    BY DEF Init
  <2>2. req \in [Proc -> Request \cup {NoRequest}]
    BY DEF Init
  <2>3. st \in [Proc -> {"idle", "asks", "read", "gone"}]
          /\ open \in [Proc -> SUBSET Devices]
    BY DEF Init
  <2> QED
    BY <2>1, <2>2, <2>3 DEF Init, TypeOK, Node
<1>2. MessageInv
  BY DEF Init, MessageInv, QueueOK, Single
<1>3. NodeInv
  BY DEF Init, NodeInv, NoRequest
<1> QED
  BY <1>1, <1>2, <1>3 DEF Init, IInv, AskedInv, WaitingInv, DevInv, ReadyInv, StuckByAKill, OnlyCardAborts

LEMMA AskKeeps ==
  ASSUME IInv, NEW p \in Proc, NEW r \in Request, Ask(p, r)
  PROVE  IInv'
<1> DEFINE m == [p |-> p, kind |-> "request"]
<1>1. TypeOK /\ MessageInv /\ r.dev \in Dev /\ m \in Message
  BY RequestType DEF IInv, Message
<1>2. \A d \in Dev : NoneAbout(p, queue[d])
  BY <1>1, NoneAboutOther DEF Ask
<1> DEFINE t == Append(queue[r.dev], m)
<1>3. /\ t \in Seq(Message) /\ t # <<>> /\ Single(t)
      /\ \A i \in DOMAIN t : t[i] = m \/ \E j \in DOMAIN queue[r.dev] :
                                           t[i] = queue[r.dev][j]
  BY <1>1, <1>2, QueueType, AppendFacts
<1> HIDE DEF t
<1>4. /\ queue' \in [Dev -> Seq(Message)]
      /\ queue'[r.dev] = t /\ \A d \in Dev \ {r.dev} : queue'[d] = queue[d]
  BY <1>1, <1>3 DEF Ask, TypeOK, t
<1>5. /\ st' \in [Proc -> {"idle", "asks", "read", "gone"}]
      /\ req' \in [Proc -> Request \cup {NoRequest}]
      /\ st'[p] = "asks" /\ req'[p] = r
      /\ \A q \in Proc \ {p} : st'[q] = st[q] /\ req'[q] = req[q]
  BY <1>1 DEF Ask, TypeOK
<1>6. TypeOK'
  BY <1>1, <1>4, <1>5 DEF Ask, TypeOK
<1>7. MessageInv'
  <2>1. \A d \in Dev : QueueOK(d, queue[d], st', req', killed')
    <3>1. \A d \in Dev : queue[d] \in Seq(Message) /\ QueueOK(d, queue[d], st, req, killed)
      BY <1>1, QueueType
    <3>2. killed \subseteq killed'
      BY DEF Ask
    <3> QED
      BY <3>1, <3>2, <1>2, <1>5, KeptOK
  <2>2. QueueOK(r.dev, t, st', req', killed')
    <3>1. Holds(m, r.dev, st', req', killed')
      BY <1>5 DEF Holds
    <3> QED
      BY <3>1, <2>1, <1>1, <1>3 DEF QueueOK
  <2> QED
    BY <2>1, <2>2, <1>4 DEF MessageInv
<1>8. NodeInv'
  <2>1. r.node = 1
    BY <1>1 DEF Ask, May, IInv, NodeInv
  <2> QED
    BY <2>1, <1>5 DEF Ask, IInv, NodeInv
<1>9. ReadyInv' /\ StuckByAKill' /\ DevInv' /\ OnlyCardAborts'
  <2>1. dev' = dev /\ mpc' = mpc /\ lost' = lost
    BY DEF Ask
  <2>2. queue'[dev] = <<>> => queue[dev] = <<>> \/ dev \notin Dev
    BY <1>3, <1>4
  <2> QED
    BY <2>1, <2>2 DEF IInv, DevInv, ReadyInv, StuckByAKill, OnlyCardAborts
<1>10. AskedInv'
  BY <1>1, <1>5 DEF IInv, AskedInv, NoRequest, Dev
<1>11. WaitingInv'
  BY <1>1, <1>5 DEF Ask, IInv, WaitingInv, TypeOK
<1> QED
  BY <1>6, <1>7, <1>8, <1>9, <1>10, <1>11 DEF IInv

(* A signal takes a request away, or puts an interrupt before all else.    *)
LEMMA KillKeeps ==
  ASSUME IInv, NEW p \in Proc, Kill(p)
  PROVE  IInv'
<1> DEFINE d == req[p].dev
<1>1. /\ TypeOK /\ MessageInv /\ killed' = killed \cup {p} /\ p \notin killed
      /\ UNCHANGED <<open, mpc, dev, waiting, nodes, notified>>
  BY DEF IInv, Kill
<1>2. \A e \in Dev : queue[e] \in Seq(Message) /\ QueueOK(e, queue[e], st, req, killed)
  BY <1>1, QueueType
<1>3. CASE /\ st[p] = "asks" /\ ~Forced(p)
           /\ st' = [st EXCEPT ![p] = "idle"]
           /\ req' = [req EXCEPT ![p] = NoRequest]
           /\ queue' = [queue EXCEPT ![d] = Without(@, p)]
           /\ lost' = lost \cup {d}
  <2>1. /\ st' \in [Proc -> {"idle", "asks", "read", "gone"}]
        /\ req' \in [Proc -> Request \cup {NoRequest}]
        /\ req'[p] = NoRequest
        /\ \A q \in Proc \ {p} : st'[q] = st[q] /\ req'[q] = req[q]
    BY <1>1, <1>3 DEF TypeOK
  <2>2. \A e \in Dev : e # d => queue'[e] = queue[e] /\ NoneAbout(p, queue[e])
    BY <1>1, <1>3, NoneAboutOther DEF TypeOK
  <2>3. d \in Dev => /\ queue'[d] = Without(queue[d], p)
                     /\ queue'[d] \in Seq(Message) /\ Single(queue'[d])
                     /\ Within(queue'[d], queue[d]) /\ NoneAbout(p, queue'[d])
    <3>1. d \in Dev => queue'[d] = Without(queue[d], p)
      BY <1>1, <1>3 DEF TypeOK
    <3> QED
      BY <3>1, <1>1, QueueType, WithoutFacts
  <2>4. \A e \in Dev : queue'[e] \in Seq(Message) /\ NoneAbout(p, queue'[e])
    BY <1>2, <2>2, <2>3
  <2>5. queue' \in [Dev -> Seq(Message)]
    <3>1. queue' = [e \in Dev |-> queue'[e]]
      BY <1>1, <1>3 DEF TypeOK
    <3> QED
      BY <3>1, <2>4
  <2>6. \A e \in Dev : QueueOK(e, queue'[e], st, req, killed)
    <3>1. d \in Dev => QueueOK(d, queue'[d], st, req, killed)
      BY <1>2, <2>3, PartOK
    <3> QED
      BY <3>1, <1>2, <2>2
  <2>7. MessageInv'
    <3>1. killed \subseteq killed'
      BY <1>1
    <3>2. \A e \in Dev : QueueOK(e, queue'[e], st', req', killed')
      BY <2>1, <2>4, <2>6, <3>1, KeptOK
    <3> QED
      BY <3>2 DEF MessageInv
  <2>8. st[p] \in {"asks"} /\ lost' \subseteq Dev
    <3>1. d \in Dev \/ req[p] = NoRequest
      BY <1>1, RequestType DEF TypeOK
    <3>2. req[p] # NoRequest
      BY <1>1, <1>3 DEF IInv, AskedInv
    <3> QED
      BY <3>1, <3>2, <1>1, <1>3 DEF TypeOK
  <2>9. TypeOK'
    BY <1>1, <2>1, <2>5, <2>8 DEF TypeOK
  <2>10. NodeInv'
    BY <1>1, <2>1 DEF IInv, NodeInv, NoRequest
  <2>11. ReadyInv' /\ StuckByAKill' /\ DevInv' /\ OnlyCardAborts'
    <3>1. \A e \in Dev : queue'[e] = <<>> => queue[e] = <<>> \/ e \in lost'
      BY <1>3, <2>2
    <3>2. lost \subseteq lost'
      BY <1>3
    <3> QED
      BY <3>1, <3>2, <1>1 DEF IInv, DevInv, ReadyInv, StuckByAKill, OnlyCardAborts
  <2>12. AskedInv' /\ WaitingInv'
    <3>1. st'[p] = "idle"
      BY <1>1, <1>3 DEF TypeOK
    <3> QED
      BY <3>1, <2>1, <1>1, <1>3 DEF IInv, AskedInv, WaitingInv, TypeOK
  <2> QED
    BY <2>7, <2>9, <2>10, <2>11, <2>12 DEF IInv
<1>4. CASE /\ st[p] = "read" /\ ~Forced(p)
           /\ queue' = [queue EXCEPT ![d] = <<[p |-> p, kind |-> "interrupt"]>> \o @]
           /\ UNCHANGED <<st, req, lost>>
  <2> DEFINE m == [p |-> p, kind |-> "interrupt"]
             t == <<m>> \o queue[d]
  <2>1. d \in Dev /\ m \in Message
    BY <1>1, <1>4, RequestType DEF IInv, AskedInv, TypeOK, Message
  <2>2. NoneAbout(p, queue[d])
    <3>1. \A i \in DOMAIN queue[d] : queue[d][i].p # p
      BY <2>1, <1>1, <1>4, AboutP
    <3> QED
      BY <3>1 DEF NoneAbout
  <2>3. /\ t \in Seq(Message) /\ t # <<>> /\ Single(t)
        /\ \A i \in DOMAIN t : t[i] = m \/ \E j \in DOMAIN queue[d] :
                                             t[i] = queue[d][j]
    BY <2>1, <2>2, <1>1, QueueType, InFrontFacts
  <2> HIDE DEF t
  <2>4. /\ queue' \in [Dev -> Seq(Message)]
        /\ queue'[d] = t /\ \A e \in Dev \ {d} : queue'[e] = queue[e]
    BY <1>1, <1>4, <2>1, <2>3 DEF TypeOK, t
  <2>5. MessageInv'
    <3>1. \A e \in Dev : QueueOK(e, queue[e], st', req', killed')
      BY <1>1, <1>2, <1>4 DEF QueueOK, Holds
    <3>2. Holds(m, d, st', req', killed')
      BY <1>1, <1>4 DEF Holds
    <3>3. QueueOK(d, t, st', req', killed')
      BY <2>1, <2>3, <3>1, <3>2 DEF QueueOK
    <3> QED
      BY <2>4, <3>1, <3>3 DEF MessageInv
  <2>6. TypeOK'
    BY <1>1, <1>4, <2>4 DEF TypeOK
  <2>7. NodeInv' /\ AskedInv' /\ WaitingInv'
    BY <1>1, <1>4 DEF IInv, NodeInv, AskedInv, WaitingInv
  <2>8. ReadyInv' /\ StuckByAKill' /\ DevInv' /\ OnlyCardAborts'
    BY <1>1, <1>4, <2>3, <2>4
       DEF IInv, DevInv, ReadyInv, StuckByAKill, OnlyCardAborts
  <2> QED
    BY <2>5, <2>6, <2>7, <2>8 DEF IInv
<1>5. CASE UNCHANGED <<st, req, queue, lost>>
  <2>1. TypeOK' /\ NodeInv' /\ AskedInv' /\ WaitingInv'
    BY <1>1, <1>5 DEF IInv, TypeOK, NodeInv, AskedInv, WaitingInv
  <2>2. MessageInv'
    BY <1>1, <1>2, <1>5 DEF MessageInv, QueueOK, Holds
  <2>3. ReadyInv' /\ StuckByAKill' /\ DevInv' /\ OnlyCardAborts'
    BY <1>1, <1>5 DEF IInv, DevInv, ReadyInv, StuckByAKill, OnlyCardAborts
  <2> QED
    BY <2>1, <2>2, <2>3 DEF IInv
<1> QED
  BY <1>3, <1>4, <1>5 DEF Kill

LEMMA GoKeeps ==
  ASSUME IInv, NEW p \in Proc, Go(p)
  PROVE  IInv'
<1>1. /\ TypeOK /\ MessageInv /\ st[p] = "idle" /\ st' = [st EXCEPT ![p] = "gone"]
      /\ UNCHANGED <<req, open, killed, lost, queue, mpc, dev, waiting, nodes, notified>>
  BY DEF IInv, Go
<1>2. /\ st' \in [Proc -> {"idle", "asks", "read", "gone"}]
      /\ st'[p] = "gone" /\ \A q \in Proc \ {p} : st'[q] = st[q]
  BY <1>1 DEF TypeOK
<1>3. TypeOK' /\ NodeInv' /\ AskedInv' /\ WaitingInv'
  BY <1>1, <1>2 DEF IInv, TypeOK, NodeInv, AskedInv, WaitingInv
<1>4. MessageInv'
  <2>1. \A d \in Dev : NoneAbout(p, queue[d])
    BY <1>1, NoneAboutOther
  <2>2. \A d \in Dev : queue[d] \in Seq(Message) /\ QueueOK(d, queue[d], st, req, killed)
    BY <1>1, QueueType
  <2>3. \A d \in Dev : QueueOK(d, queue[d], st', req', killed')
    BY <1>1, <1>2, <2>1, <2>2, KeptOK
  <2> QED
    BY <2>3, <1>1 DEF MessageInv
<1> QED
  BY <1>1, <1>3, <1>4 DEF IInv, DevInv, ReadyInv, StuckByAKill, OnlyCardAborts

(* An answer: no queue speaks of p any more, and p knows no new node.      *)
LEMMA ReturnsKeeps ==
  ASSUME IInv, NEW p \in Proc, NEW left \in [Dev -> Seq(Message)], NEW error,
         req[p] \in Request,
         \A d \in Dev : Single(left[d]) /\ Within(left[d], queue[d]),
         req[p].op \in Entries \cup {"lookup"} => error # "none",
         Returns(p, left, error)
  PROVE  /\ queue' \in [Dev -> Seq(Message)] /\ MessageInv' /\ NodeInv' /\ AskedInv'
         /\ st' \in [Proc -> {"idle", "asks", "read", "gone"}]
         /\ req' \in [Proc -> Request \cup {NoRequest}]
         /\ open' \in [Proc -> SUBSET Devices]
<1> DEFINE d == req[p].dev
<1>1. /\ TypeOK /\ MessageInv /\ d \in Dev
      /\ st' = [st EXCEPT ![p] = "idle"]
      /\ req' = [req EXCEPT ![p] = NoRequest]
      /\ queue' = [left EXCEPT ![d] = Without(@, p)]
      /\ UNCHANGED <<killed, lost>>
  BY RequestType DEF IInv, Returns
<1>2. /\ st' \in [Proc -> {"idle", "asks", "read", "gone"}]
      /\ req' \in [Proc -> Request \cup {NoRequest}]
      /\ st'[p] = "idle" /\ req'[p] = NoRequest
      /\ \A q \in Proc \ {p} : st'[q] = st[q] /\ req'[q] = req[q]
  BY <1>1 DEF TypeOK
<1>3. \A e \in Dev : QueueOK(e, left[e], st, req, killed)
  BY <1>1, QueueType, PartOK
<1>4. \A e \in Dev : e # d => queue'[e] = left[e] /\ NoneAbout(p, left[e])
  <2>1. \A e \in Dev : e # d => queue'[e] = left[e]
    BY <1>1
  <2>2. \A e \in Dev : e # d => NoneAbout(p, queue[e])
    BY <1>1, NoneAboutOther
  <2>3. \A e \in Dev : NoneAbout(p, queue[e]) => NoneAbout(p, left[e])
    BY DEF Within, NoneAbout
  <2> QED
    BY <2>1, <2>2, <2>3
<1>5. /\ queue'[d] \in Seq(Message) /\ Single(queue'[d])
      /\ Within(queue'[d], left[d]) /\ NoneAbout(p, queue'[d])
  <2>1. queue'[d] = Without(left[d], p)
    BY <1>1
  <2> QED
    BY <2>1, <1>1, WithoutFacts
<1>6. \A e \in Dev : /\ queue'[e] \in Seq(Message) /\ NoneAbout(p, queue'[e])
                     /\ QueueOK(e, queue'[e], st, req, killed)
  <2>1. QueueOK(d, queue'[d], st, req, killed)
    BY <1>1, <1>3, <1>5, PartOK
  <2> QED
    BY <2>1, <1>3, <1>4, <1>5
<1>7. queue' \in [Dev -> Seq(Message)]
  <2>1. queue' = [e \in Dev |-> queue'[e]]
    BY <1>1
  <2> QED
    BY <2>1, <1>6
<1>8. MessageInv'
  <2>1. \A e \in Dev : QueueOK(e, queue'[e], st', req', killed')
    BY <1>1, <1>2, <1>6, KeptOK
  <2> QED
    BY <2>1 DEF MessageInv
<1>9. nodes' = nodes
  <2>1. ~(req[p].op \in Entries \cup {"lookup"} /\ error = "none")
    OBVIOUS
  <2>2. nodes' = IF req[p].op \in Entries \cup {"lookup"} /\ error = "none"
                   THEN nodes \cup {2} ELSE nodes
    BY Zenon DEF Returns
  <2> QED
    BY <2>1, <2>2
<1>10. NodeInv' /\ AskedInv'
  <2>1. NoRequest.node = 1
    BY DEF NoRequest
  <2>2. \A q \in Proc : req'[q].node = 1
    BY <2>1, <1>2 DEF IInv, NodeInv
  <2>3. \A q \in Proc : st'[q] \in {"asks", "read"} => req'[q] # NoRequest
    BY <1>2 DEF IInv, AskedInv
  <2> QED
    BY <2>2, <2>3, <1>9 DEF IInv, NodeInv, AskedInv
<1>11. open' \in [Proc -> SUBSET Devices]
  <2>1. /\ open \in [Proc -> SUBSET Devices]
        /\ open' = [open EXCEPT ![p] = CASE req[p].op = "open" -> @ \cup {d}
                                         [] req[p].op = "release" -> @ \ {d}
                                         [] OTHER -> @]
    BY <1>1, Zenon DEF Returns, TypeOK
  <2>2. req[p].op = "open" => d \in Devices
    <3>1. req[p].op \in Ops[d]
      BY DEF Request
    <3>2. "open" \notin Ops["fs"]
      BY DEF Ops, Entries
    <3> QED
      BY <3>1, <3>2, <1>1 DEF Dev, Devices
  <2> QED
    BY <2>1, <2>2
<1> QED
  BY <1>2, <1>7, <1>8, <1>10, <1>11

(* What is left after a read is part of what was there.                    *)
LEMMA RestFacts ==
  ASSUME IInv, Reading, queue[dev] # <<>>
  PROVE  /\ Rest \in [Dev -> Seq(Message)]
         /\ \A d \in Dev : Single(Rest[d]) /\ Within(Rest[d], queue[d])
         /\ NoneAbout(Head(queue[dev]).p, Rest[dev])
<1>1. dev \in Dev /\ TypeOK /\ MessageInv
  BY DEF IInv, DevInv, Reading
<1>2. /\ Tail(queue[dev]) \in Seq(Message) /\ Single(Tail(queue[dev]))
      /\ Within(Tail(queue[dev]), queue[dev])
      /\ NoneAbout(Head(queue[dev]).p, Tail(queue[dev]))
  BY <1>1, QueueType, TailFacts
<1>3. Rest[dev] = Tail(queue[dev]) /\ \A d \in Dev \ {dev} : Rest[d] = queue[d]
  BY <1>1 DEF Rest, TypeOK
<1>4. \A d \in Dev : Single(queue[d]) /\ Within(queue[d], queue[d])
  BY <1>1, QueueType DEF Within
<1>5. Rest \in [Dev -> Seq(Message)]
  BY <1>1, <1>2 DEF Rest, TypeOK
<1> QED
  BY <1>2, <1>3, <1>4, <1>5

(* What holds of a master that waits holds whatever the queues hold.       *)
LEMMA WaitingKeeps ==
  ASSUME mpc' = "wait"
  PROVE  DevInv' /\ ReadyInv' /\ StuckByAKill' /\ OnlyCardAborts'
BY DEF DevInv, ReadyInv, StuckByAKill, OnlyCardAborts

LEMMA ErrorOfEntries ==
  ASSUME NEW op \in Entries \cup {"lookup"}
  PROVE  Error(op) # "none"
BY DEF Error, Entries

LEMMA AnswerKeeps ==
  ASSUME IInv, NEW p \in Proc, Answer(p)
  PROVE  IInv'
<1>1. /\ Reads(p) /\ Returns(p, Rest, Error(req[p].op)) /\ Return
      /\ UNCHANGED <<waiting, notified>>
  BY DEF Answer
<1>2. Reading /\ queue[dev] # <<>> /\ req[p] \in Request
  BY <1>1, HeadIsAsked DEF Reads
<1>3. /\ queue' \in [Dev -> Seq(Message)] /\ MessageInv' /\ NodeInv' /\ AskedInv'
      /\ st' \in [Proc -> {"idle", "asks", "read", "gone"}]
      /\ req' \in [Proc -> Request \cup {NoRequest}]
      /\ open' \in [Proc -> SUBSET Devices]
  BY <1>1, <1>2, RestFacts, ReturnsKeeps, ErrorOfEntries
<1>4. TypeOK'
  <2>1. nodes' \subseteq Node
    BY <1>3 DEF NodeInv, Node
  <2>2. killed' = killed /\ lost' = lost /\ mpc' = "wait" /\ dev' = "none"
    BY <1>1 DEF Returns, Return
  <2> QED
    BY <1>1, <1>3, <2>1, <2>2 DEF IInv, TypeOK
<1>5. WaitingInv'
  <2>1. st[p] = "asks"
    BY <1>1, HeadIsAsked
  <2> QED
    BY <2>1, <1>1 DEF IInv, WaitingInv, Returns, TypeOK
<1> QED
  BY <1>1, <1>3, <1>4, <1>5, WaitingKeeps DEF IInv, Return

LEMMA RespondKeeps ==
  ASSUME IInv, NEW p \in Proc, Respond(p)
  PROVE  IInv'
<1>1. /\ mpc = "wait" /\ p \in waiting /\ waiting' = waiting \ {p}
      /\ Returns(p, queue, "none") /\ UNCHANGED <<mpc, dev, notified>>
  BY DEF Respond
<1>2. st[p] = "read" /\ req[p].op = "modeset"
  BY <1>1 DEF IInv, WaitingInv
<1>3. req[p] \in Request
  BY <1>2 DEF IInv, TypeOK, AskedInv
<1>4. \A d \in Dev : Single(queue[d]) /\ Within(queue[d], queue[d])
  BY QueueType DEF IInv, Within
<1>5. /\ queue' \in [Dev -> Seq(Message)] /\ MessageInv' /\ NodeInv' /\ AskedInv'
      /\ st' \in [Proc -> {"idle", "asks", "read", "gone"}]
      /\ req' \in [Proc -> Request \cup {NoRequest}]
      /\ open' \in [Proc -> SUBSET Devices]
  <2>1. req[p].op \notin Entries \cup {"lookup"}
    BY <1>2 DEF Entries
  <2>2. queue \in [Dev -> Seq(Message)]
    BY DEF IInv, TypeOK
  <2> QED
    BY <1>1, <1>3, <1>4, <2>1, <2>2, ReturnsKeeps
<1>6. TypeOK'
  <2>1. nodes' \subseteq Node
    BY <1>5 DEF NodeInv, Node
  <2>2. killed' = killed /\ lost' = lost
    BY <1>1 DEF Returns
  <2> QED
    BY <1>1, <1>5, <2>1, <2>2 DEF IInv, TypeOK
<1>7. WaitingInv'
  BY <1>1 DEF IInv, WaitingInv, Returns, TypeOK
<1> QED
  BY <1>1, <1>5, <1>6, <1>7, WaitingKeeps DEF IInv

(* What is not answered is read and kept; the queue does not speak of it.  *)
LEMMA KeepKeeps ==
  ASSUME IInv, NEW p \in Proc, Keep(p)
  PROVE  IInv'
<1>1. /\ TypeOK /\ MessageInv /\ Reads(p) /\ Return
      /\ st' = [st EXCEPT ![p] = "read"] /\ queue' = Rest
      /\ waiting' = IF req[p].op = "modeset" THEN waiting \cup {p} ELSE waiting
      /\ UNCHANGED <<req, open, killed, lost, nodes, notified>>
  BY DEF IInv, Keep
<1>2. /\ dev \in Dev /\ req[p] \in Request /\ req[p].dev = dev /\ st[p] = "asks"
      /\ Head(queue[dev]).p = p /\ Reading /\ queue[dev] # <<>>
  BY <1>1, HeadIsAsked DEF Reads
<1>3. /\ Rest \in [Dev -> Seq(Message)]
      /\ \A d \in Dev : Single(Rest[d]) /\ Within(Rest[d], queue[d])
      /\ NoneAbout(p, Rest[dev])
  BY <1>2, RestFacts
<1>4. \A d \in Dev : NoneAbout(p, Rest[d])
  <2>1. \A d \in Dev \ {dev} : NoneAbout(p, queue[d])
    BY <1>1, <1>2, NoneAboutOther
  <2>2. \A d \in Dev : NoneAbout(p, queue[d]) => NoneAbout(p, Rest[d])
    BY <1>3 DEF Within, NoneAbout
  <2> QED
    BY <2>1, <2>2, <1>3
<1>5. \A d \in Dev : QueueOK(d, Rest[d], st, req, killed)
  BY <1>1, <1>3, QueueType, PartOK
<1>6. /\ st' \in [Proc -> {"idle", "asks", "read", "gone"}]
      /\ st'[p] = "read" /\ \A q \in Proc \ {p} : st'[q] = st[q]
  BY <1>1 DEF TypeOK
<1>7. MessageInv'
  <2>1. \A d \in Dev : Rest[d] \in Seq(Message)
    BY <1>3
  <2>2. \A d \in Dev : QueueOK(d, Rest[d], st', req', killed')
    BY <2>1, <1>1, <1>4, <1>5, <1>6, KeptOK
  <2> QED
    BY <2>2, <1>1 DEF MessageInv
<1>8. TypeOK'
  BY <1>1, <1>3, <1>6 DEF TypeOK, Return
<1>9. NodeInv' /\ AskedInv' /\ WaitingInv'
  <2>1. req[p] # NoRequest
    BY <1>2 DEF NoRequest, Dev
  <2>2. NodeInv' /\ AskedInv'
    BY <2>1, <1>1, <1>6 DEF IInv, NodeInv, AskedInv
  <2>3. \A q \in waiting' : q \in waiting \/ (q = p /\ req[p].op = "modeset")
    BY <1>1
  <2>4. \A q \in waiting : st'[q] = "read"
    BY <1>1, <1>6 DEF IInv, WaitingInv, TypeOK
  <2> QED
    BY <2>2, <2>3, <2>4, <1>1, <1>6 DEF IInv, WaitingInv
<1> QED
  BY <1>1, <1>7, <1>8, <1>9, WaitingKeeps DEF IInv, Return

LEMMA IgnoreKeeps ==
  ASSUME IInv, Ignore
  PROVE  IInv'
<1>1. /\ Reading /\ queue[dev] # <<>> /\ queue' = Rest /\ Return
      /\ UNCHANGED <<st, req, open, killed, lost, waiting, nodes, notified>>
  BY DEF Ignore, procVars
<1>2. /\ Rest \in [Dev -> Seq(Message)]
      /\ \A d \in Dev : Single(Rest[d]) /\ Within(Rest[d], queue[d])
  BY <1>1, RestFacts
<1>3. MessageInv'
  <2>1. \A d \in Dev : QueueOK(d, Rest[d], st, req, killed)
    BY <1>2, QueueType, PartOK DEF IInv
  <2> QED
    BY <2>1, <1>1 DEF MessageInv
<1>4. TypeOK' /\ NodeInv' /\ AskedInv' /\ WaitingInv'
  BY <1>1, <1>2 DEF IInv, TypeOK, NodeInv, AskedInv, WaitingInv, Return
<1> QED
  BY <1>1, <1>3, <1>4, WaitingKeeps DEF IInv, Return

(* The assertions about nodes hold: what aborts the master is the card's.  *)
LEMMA AbortKeeps ==
  ASSUME IInv, NEW p \in Proc, Abort(p)
  PROVE  IInv'
<1>1. /\ Reads(p) /\ MayAbort(req[p]) /\ mpc' = "aborted"
      /\ st' = [q \in Proc |-> IF st[q] = "gone" THEN "gone" ELSE "idle"]
      /\ req' = [q \in Proc |-> NoRequest]
      /\ queue' = [d \in Dev |-> <<>>]
      /\ waiting' = {}
      /\ UNCHANGED <<open, killed, lost, dev, nodes, notified>>
  BY DEF Abort
<1>2. dev = "card"
  <2>1. req[p].dev = dev /\ req[p].node = 1
    BY <1>1, HeadIsAsked
  <2> QED
    BY <2>1, <1>1 DEF MayAbort, MustAbort
<1>3. TypeOK'
  <2>1. queue' \in [Dev -> Seq(Message)]
    BY <1>1
  <2>2. /\ st' \in [Proc -> {"idle", "asks", "read", "gone"}]
        /\ req' \in [Proc -> Request \cup {NoRequest}]
    BY <1>1
  <2> QED
    BY <2>1, <2>2, <1>1 DEF IInv, TypeOK
<1>4. MessageInv'
  BY <1>1 DEF MessageInv, QueueOK, Single
<1>5. NodeInv'
  BY <1>1 DEF IInv, NodeInv, NoRequest
<1>6. AskedInv' /\ WaitingInv'
  BY <1>1 DEF AskedInv, WaitingInv
<1>7. DevInv' /\ ReadyInv' /\ StuckByAKill' /\ OnlyCardAborts'
  BY <1>1, <1>2 DEF DevInv, Dev, ReadyInv, StuckByAKill, OnlyCardAborts
<1> QED
  BY <1>3, <1>4, <1>5, <1>6, <1>7 DEF IInv

(* The rest of the master changes neither requests nor queues.             *)
LEMMA QuietKeeps ==
  ASSUME IInv, UNCHANGED <<st, req, open, killed, lost, queue, waiting, nodes>>,
         mpc' \in {"wait", "ready", "blocked", "aborted"},
         dev' \in Dev \cup {"none"}, notified' \in BOOLEAN
  PROVE  TypeOK' /\ MessageInv' /\ NodeInv' /\ AskedInv' /\ WaitingInv'
BY DEF IInv, TypeOK, MessageInv, NodeInv, AskedInv, WaitingInv

LEMMA EpollWaitKeeps ==
  ASSUME IInv, NEW d \in Dev, EpollWait(d)
  PROVE  IInv'
<1>1. /\ queue[d] # <<>> /\ mpc' = "ready" /\ dev' = d
      /\ UNCHANGED <<st, req, open, killed, lost, queue, waiting, nodes, notified>>
  BY DEF EpollWait, procVars
<1>2. TypeOK' /\ MessageInv' /\ NodeInv' /\ AskedInv' /\ WaitingInv'
  BY <1>1, QuietKeeps DEF IInv, TypeOK
<1> QED
  BY <1>1, <1>2 DEF IInv, DevInv, ReadyInv, StuckByAKill, OnlyCardAborts

LEMMA HangupKeeps ==
  ASSUME IInv, Hangup
  PROVE  IInv'
<1>1. /\ mpc = "wait" /\ notified' = TRUE
      /\ UNCHANGED <<st, req, open, killed, lost, queue, mpc, dev, waiting, nodes>>
  BY DEF Hangup, procVars
<1>2. TypeOK' /\ MessageInv' /\ NodeInv' /\ AskedInv' /\ WaitingInv'
  BY <1>1, QuietKeeps DEF IInv, TypeOK
<1> QED
  BY <1>1, <1>2, WaitingKeeps DEF IInv

LEMMA ReadNothingKeeps ==
  ASSUME IInv, ReadNothing
  PROVE  IInv'
<1>1. /\ Reading /\ queue[dev] = <<>> /\ dev \in Dev
      /\ UNCHANGED <<st, req, open, killed, lost, queue, waiting, nodes, notified>>
  BY DEF IInv, DevInv, ReadNothing, Reading, procVars
<1>2. CASE Return
  <2>1. TypeOK' /\ MessageInv' /\ NodeInv' /\ AskedInv' /\ WaitingInv'
    BY <1>1, <1>2, QuietKeeps DEF IInv, TypeOK, Return
  <2> QED
    BY <2>1, <1>2, WaitingKeeps DEF IInv, Return
<1>3. CASE /\ dev \notin NonBlocking
           /\ mpc = "ready" /\ mpc' = "blocked" /\ UNCHANGED dev
  <2>1. TypeOK' /\ MessageInv' /\ NodeInv' /\ AskedInv' /\ WaitingInv'
    BY <1>1, <1>3, QuietKeeps DEF IInv, TypeOK
  <2>2. dev \in lost
    BY <1>1, <1>3 DEF IInv, ReadyInv
  <2> QED
    BY <2>1, <2>2, <1>1, <1>3
       DEF IInv, DevInv, ReadyInv, StuckByAKill, OnlyCardAborts, NonBlocking, Dev
<1> QED
  BY <1>2, <1>3 DEF ReadNothing

LEMMA NextIInv ==
  ASSUME IInv, [Next]_vars
  PROVE  IInv'
<1>1. CASE UNCHANGED vars
  BY <1>1 DEF vars, procVars, IInv, TypeOK, DevInv, MessageInv, NodeInv, AskedInv,
              WaitingInv, ReadyInv, StuckByAKill, OnlyCardAborts
<1>2. CASE \E p \in Proc, r \in Request : Ask(p, r)
  BY <1>2, AskKeeps
<1>3. CASE \E p \in Proc : Kill(p) \/ Go(p) \/ Respond(p)
  BY <1>3, KillKeeps, GoKeeps, RespondKeeps
<1>4. CASE \E d \in Dev : EpollWait(d)
  BY <1>4, EpollWaitKeeps
<1>5. CASE Hangup
  BY <1>5, HangupKeeps
<1>6. CASE Read
  BY <1>6, ReadNothingKeeps, IgnoreKeeps, AnswerKeeps, KeepKeeps, AbortKeeps DEF Read
<1> QED
  BY <1>1, <1>2, <1>3, <1>4, <1>5, <1>6 DEF Next

LEMMA AlwaysIInv == Spec => []IInv
BY InitIInv, NextIInv, PTL DEF Spec

-----------------------------------------------------------------------------
(* Every variable keeps its type.                                          *)
THEOREM DevicesTypeCorrect == Spec => []TypeOK
<1>1. IInv => TypeOK
  BY DEF IInv
<1> QED
  BY <1>1, AlwaysIInv, PTL

(* What the kernel has put into a queue is so: a request is waited for     *)
(* there, an interrupt is about one the master has read, whose process is  *)
(* to go.  No queue speaks twice of a process.                             *)
THEOREM MessagesAreSo == Spec => []MessageInv
<1>1. IInv => MessageInv
  BY DEF IInv
<1> QED
  BY <1>1, AlwaysIInv, PTL

(* The blocking readv of tty.c:240 and umountfs.c waits only after a kill  *)
(* between epoll_wait and it has withdrawn a request.                      *)
THEOREM ReadsWaitAfterAKill == Spec => []StuckByAKill
<1>1. IInv => StuckByAKill
  BY DEF IInv
<1> QED
  BY <1>1, AlwaysIInv, PTL

(* No assertion of umountfs.c ever fails; those of card.c that do are      *)
(* about read and mmap.                                                    *)
THEOREM UmountfsAsserts == Spec => []OnlyCardAborts
<1>1. IInv => OnlyCardAborts
  BY DEF IInv
<1> QED
  BY <1>1, AlwaysIInv, PTL
=============================================================================
