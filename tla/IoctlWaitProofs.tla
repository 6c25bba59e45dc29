--------------------------- MODULE IoctlWaitProofs ---------------------------
(***************************************************************************)
(* The wait list of the session master, for every number of requests and   *)
(* addresses, whichever requests get no response: nodes and waiting        *)
(* requests correspond and no node is freed twice, whatever fails; until a *)
(* send fails that should not, every lookup stays within allocated nodes;  *)
(* and the list implements WaitTable.                                      *)
(***************************************************************************)
EXTENDS IoctlWait, TLAPS

LEMMA NextTypeOK == TypeOK /\ [Next]_vars => TypeOK'
<1> SUFFICES ASSUME TypeOK, [Next]_vars PROVE TypeOK'
  OBVIOUS
<1> USE DEF TypeOK, Pointer
<1>1. ASSUME NEW r \in Request, NEW a \in Addr, Forward(r, a) PROVE TypeOK'
  <2>1. /\ next' \in [Addr -> Pointer] /\ prev' \in [Addr -> Pointer]
        /\ unique' \in [Addr -> Request \cup {NoRequest}]
        /\ head' \in Pointer /\ live' \in SUBSET Addr
    BY <1>1 DEF Forward, Push, Linked
  <2>2. sent' \in Seq(Request) /\ Len(sent') = Len(sent) + 1 /\ at' = 0
    BY <1>1 DEF Forward, Push, Idle
  <2>3. UNCHANGED <<reply, done, intact, w, peer, damaged>>
    BY <1>1 DEF Forward
  <2> QED
    BY <2>1, <2>2, <2>3
<1>2. ASSUME NEW r \in Request, NEW a \in Addr, SendFails(r, a) PROVE TypeOK'
  <2>1. /\ next' \in [Addr -> Pointer] /\ prev' \in [Addr -> Pointer]
        /\ unique' \in [Addr -> Request \cup {NoRequest}]
        /\ head' \in Pointer
    BY <1>2 DEF SendFails, Push, Linked, Free
  <2>2. reply' \in [Request -> {"none", "success", "error"}] /\ damaged' \in BOOLEAN
    BY <1>2, Zenon DEF SendFails
  <2>3. UNCHANGED <<live, sent, done, at, intact, w, peer>>
    BY <1>2 DEF SendFails
  <2> QED
    BY <2>1, <2>2, <2>3
<1>3. ASSUME NEW r \in Request, Refuse(r) PROVE TypeOK'
  BY <1>3 DEF Refuse
<1>4. ASSUME NEW i \in 1..Len(sent), Receive(i) PROVE TypeOK'
  BY <1>4 DEF Receive, Idle, Pending
<1>5. CASE WalkOn
  BY <1>5 DEF WalkOn
<1>6. CASE Found
  <2>1. /\ next' \in [Addr -> Pointer] /\ live' \in SUBSET Addr
        /\ reply' \in [Request -> {"none", "success", "error"}]
    BY <1>6 DEF Found, Free
  <2>2. done' \in 0..Len(sent) /\ at' = 0 /\ intact' = FALSE /\ w' = NULL
    BY <1>6 DEF Found, LookupOver, Idle
  <2>3. UNCHANGED <<head, prev, unique, sent, peer, damaged>>
    BY <1>6 DEF Found
  <2> QED
    BY <2>1, <2>2, <2>3
<1>7. CASE NotFound
  <2>1. done' \in 0..Len(sent) /\ at' = 0 /\ intact' = FALSE /\ w' = NULL
    BY <1>7 DEF NotFound, LookupOver, Idle
  <2>2. UNCHANGED <<head, next, prev, unique, live, reply, sent, peer, damaged>>
    BY <1>7 DEF NotFound
  <2> QED
    BY <2>1, <2>2
<1>8. CASE PeerCloses
  BY <1>8 DEF PeerCloses
<1>9. CASE UNCHANGED vars
  BY <1>9 DEF vars
<1> QED
  BY <1>1, <1>2, <1>3, <1>4, <1>5, <1>6, <1>7, <1>8, <1>9 DEF Next, Lookup

LEMMA InitTypeOK == Init => TypeOK
<1> SUFFICES ASSUME Init PROVE TypeOK
  OBVIOUS
<1>1. peer \in BOOLEAN /\ damaged \in BOOLEAN
  BY DEF Init
<1>2. /\ sent \in Seq(Request) /\ done \in 0..Len(sent)
      /\ at \in {0} \cup (done + 1)..Len(sent)
  BY DEF Init
<1>4. intact \in BOOLEAN
  BY DEF Init
<1>3. /\ head \in Pointer /\ w \in Pointer
      /\ next \in [Addr -> Pointer] /\ prev \in [Addr -> Pointer]
      /\ unique \in [Addr -> Request \cup {NoRequest}]
      /\ live \in SUBSET Addr
      /\ reply \in [Request -> {"none", "success", "error"}]
  BY DEF Init, Pointer
<1> QED
  BY <1>1, <1>2, <1>3, <1>4 DEF TypeOK

(* The state of card.c's list keeps its types, whatever send fails,   *)
(* and a response that is processed is for a request that was sent after   *)
(* the last one with a response.                                           *)
THEOREM TypeCorrect == SafeSpec => []TypeOK
BY InitTypeOK, NextTypeOK, PTL DEF SafeSpec

-----------------------------------------------------------------------------
(* The inductive invariant.                                                *)
(* A node that was freed is that of a request with a reply.                *)
FreedAreReplied ==
  \A a \in Addr \ live : unique[a] \in Request => reply[unique[a]] # "none"

ListInv == TypeOK /\ NodesAreWaiting /\ PendingAreLinked /\ FreedAreReplied

LEMMA InitListInv == Init => ListInv
BY InitTypeOK, HeapAssumption
   DEF Init, ListInv, NodesAreWaiting, PendingAreLinked, FreedAreReplied,
       Pending, Idle

(* Pushing a node makes it the head, linked to the former head.            *)
LEMMA ForwardKeepsList ==
  ASSUME ListInv, NEW r \in Request, NEW a \in Addr, Forward(r, a), TypeOK'
  PROVE  ListInv'
<1> USE DEF ListInv, TypeOK, Pointer, Pending, Idle
<1>1. NodesAreWaiting'
  <2>1. /\ live' = live \cup {a} /\ a \notin live /\ r \notin Asked
        /\ unique' = [unique EXCEPT ![a] = r] /\ reply' = reply /\ reply[r] = "none"
        /\ sent' = Append(sent, r) /\ done' = done
    BY DEF Forward, Push, Fresh
  <2>2. Asked' = Asked \cup {r}
    BY <2>1 DEF Asked
  <2>3. \A i, j \in 1..Len(sent') : sent'[i] = sent'[j] => i = j
    BY <2>1 DEF NodesAreWaiting, Asked
  <2>4. \A b \in live' : reply'[unique'[b]] = "none" /\ unique'[b] \in Asked'
    BY <2>1, <2>2 DEF NodesAreWaiting
  <2>5. \A b, c \in live' : unique'[b] = unique'[c] => b = c
    BY <2>1 DEF NodesAreWaiting
  <2>6. \A i \in 1..Len(sent') :
          reply'[sent'[i]] = "none" => \E b \in live' : unique'[b] = sent'[i]
    BY <2>1 DEF NodesAreWaiting
  <2>7. \A i \in Pending' : reply'[sent'[i]] = "none"
    BY <2>1 DEF NodesAreWaiting
  <2> QED
    BY <2>3, <2>4, <2>5, <2>6, <2>7, Zenon DEF NodesAreWaiting
<1>2. PendingAreLinked'
  <2> SUFFICES ASSUME ~damaged PROVE PendingAreLinked'
    BY DEF Forward, PendingAreLinked
  <2>1. /\ live' = live \cup {a} /\ a \notin live /\ r \notin Asked
        /\ unique' = [unique EXCEPT ![a] = r] /\ next' = [next EXCEPT ![a] = head]
        /\ head' = a /\ sent' = Append(sent, r) /\ done' = done
        /\ at = 0 /\ at' = 0 /\ peer
    BY DEF Forward, Push, Linked, Fresh
  <2>2. head' \in live' /\ unique'[head'] = sent'[Len(sent')]
    BY <2>1
  <2>4. Len(sent') = Len(sent) + 1 /\ \A j \in 1..Len(sent) : sent'[j] = sent[j]
    BY <2>1
  <2>3. ASSUME NEW i \in Pending', NEW b \in live',
               i > done' + 1, unique'[b] = sent'[i]
        PROVE  next'[b] \in live' /\ unique'[next'[b]] = sent'[i - 1]
    <3>1. CASE i = Len(sent) + 1
      <4>1. b = a
        BY <2>1, <2>3, <3>1 DEF NodesAreWaiting
      <4>2. head \in live /\ unique[head] = sent[Len(sent)]
        BY <2>1, <2>3, <3>1 DEF PendingAreLinked
      <4> QED
        BY <2>1, <2>3, <2>4, <3>1, <4>1, <4>2
    <3>2. CASE i \in 1..Len(sent)
      <4>1. b \in live /\ unique[b] = sent[i]
        BY <2>1, <2>3, <3>2 DEF Asked
      <4>2. i \in Pending /\ i - 1 \in 1..Len(sent)
        BY <2>1, <2>3, <3>2
      <4>3. next[b] \in live /\ unique[next[b]] = sent[i - 1]
        BY <2>1, <2>3, <4>1, <4>2 DEF PendingAreLinked
      <4> QED
        BY <2>1, <4>1, <4>2, <4>3
    <3>3. i \in (done + 1)..(Len(sent) + 1)
      BY <2>1, <2>4
    <3> QED
      BY <3>1, <3>2, <3>3
  <2> QED
    BY <2>1, <2>2, <2>3 DEF PendingAreLinked
<1>3. FreedAreReplied'
  BY DEF Forward, Push, Linked, FreedAreReplied
<1> QED
  BY <1>1, <1>2, <1>3

(* A node that could not be sent is freed at once.  It was never live, and *)
(* the head that dangles is not followed if the library is gone.           *)
LEMMA SendFailsKeepsList ==
  ASSUME ListInv, NEW r \in Request, NEW a \in Addr,
         SendFails(r, a), TypeOK'
  PROVE  ListInv'
<1> USE DEF ListInv, TypeOK, Pointer, Pending, Idle
<1>1. NodesAreWaiting'
  <2>1. /\ a \notin live /\ r \notin Asked
        /\ unique' = [unique EXCEPT ![a] = r]
        /\ reply' = [reply EXCEPT ![r] = "error"]
        /\ UNCHANGED <<live, sent, done>>
    BY DEF SendFails, Push, Fresh
  <2>2. \A i \in 1..Len(sent) : reply'[sent[i]] = reply[sent[i]]
    BY <2>1 DEF Asked
  <2>3. \A b \in live : unique'[b] = unique[b] /\ reply'[unique[b]] = reply[unique[b]]
    BY <2>1 DEF NodesAreWaiting
  <2>4. Asked' = Asked /\ Pending' = Pending
    BY <2>1 DEF Asked
  <2> QED
    BY <2>1, <2>2, <2>3, <2>4 DEF NodesAreWaiting
<1>2. PendingAreLinked'
  BY DEF SendFails, Push, Linked, Free, PendingAreLinked
<1>3. FreedAreReplied'
  BY DEF SendFails, Push, Linked, FreedAreReplied
<1> QED
  BY <1>1, <1>2, <1>3

(* A request that is refused was not sent: it has no node.                 *)
LEMMA RefuseKeepsList ==
  ASSUME ListInv, NEW r \in Request, Refuse(r), TypeOK'
  PROVE  ListInv'
<1> USE DEF ListInv, TypeOK, Pointer, Pending, Idle
<1>1. NodesAreWaiting'
  BY DEF Refuse, NodesAreWaiting, Fresh, Asked
<1>2. PendingAreLinked'
  BY DEF Refuse, PendingAreLinked
<1>3. FreedAreReplied'
  BY DEF Refuse, FreedAreReplied
<1> QED
  BY <1>1, <1>2, <1>3

(* The loop starts at the newest pending request.                          *)
LEMMA ReceiveKeepsList ==
  ASSUME ListInv, NEW i \in 1..Len(sent), Receive(i), TypeOK'
  PROVE  ListInv'
<1> USE DEF ListInv, TypeOK, Pointer, Pending, Idle
<1>1. NodesAreWaiting'
  <2>1. UNCHANGED <<unique, live, reply, sent, done>>
    BY DEF Receive
  <2>2. Asked' = Asked /\ Pending' = Pending
    BY <2>1 DEF Asked
  <2> QED
    BY <2>1, <2>2, Zenon DEF NodesAreWaiting
<1>2. PendingAreLinked'
  BY DEF Receive, PendingAreLinked
<1>3. FreedAreReplied'
  BY DEF Receive, FreedAreReplied
<1> QED
  BY <1>1, <1>2, <1>3

(* The node the loop is at is not the one it looks for: the next one is    *)
(* that of the request sent before.                                        *)
LEMMA WalkOnKeepsList ==
  ASSUME ListInv, WalkOn, TypeOK'
  PROVE  ListInv'
<1> USE DEF ListInv, TypeOK, Pointer, Pending, Idle
<1>1. NodesAreWaiting'
  BY DEF WalkOn, NodesAreWaiting, Asked
<1>2. PendingAreLinked'
  <2> SUFFICES ASSUME ~damaged PROVE PendingAreLinked'
    BY DEF WalkOn, PendingAreLinked
  <2>1. PICK i \in at..Len(sent) : unique[w] = sent[i]
    BY DEF WalkOn, PendingAreLinked
  <2>2. i > at /\ at > done /\ i - 1 \in Pending
    BY <2>1 DEF WalkOn, Target
  <2>3. w \in live
    BY DEF WalkOn, PendingAreLinked
  <2>4. w' \in live /\ unique[w'] = sent[i - 1]
    BY <2>1, <2>2, <2>3 DEF WalkOn, PendingAreLinked
  <2> QED
    BY <2>2, <2>4 DEF WalkOn, PendingAreLinked
<1>3. FreedAreReplied'
  BY DEF WalkOn, FreedAreReplied
<1> QED
  BY <1>1, <1>2, <1>3

(* The node that matches a response is allocated, however the loop came    *)
(* there: those freed are done with.                                       *)
LEMMA FoundIsLive == ListInv => NodeFoundIsLive
<1> SUFFICES ASSUME ListInv, ~Idle, w # NULL, unique[w] = Target
             PROVE  w \in live
  BY DEF NodeFoundIsLive
<1> USE DEF ListInv, TypeOK
<1>1. w \in Addr
  BY DEF Pointer
<1>2. at \in Pending /\ Target \in Request
  BY DEF Idle, Pending, Target
<1>3. reply[Target] = "none"
  BY <1>2 DEF NodesAreWaiting, Target
<1> QED
  BY <1>1, <1>2, <1>3 DEF FreedAreReplied

(* Freeing the node of the response disturbs no link between the nodes of  *)
(* the younger requests.                                                   *)
LEMMA FoundKeepsList ==
  ASSUME ListInv, Found, TypeOK'
  PROVE  ListInv'
<1> USE DEF ListInv, TypeOK, Pointer, Pending, Idle
<1>1. NodesAreWaiting'
  <2>1. w \in live /\ unique[w] = sent[at] /\ at \in 1..Len(sent)
    BY FoundIsLive DEF Found, Target, NodeFoundIsLive
  <2>2. \A a \in live' : unique[a] # sent[at]
    BY <2>1 DEF Found, NodesAreWaiting
  <2>3. \A a \in live' : reply'[unique[a]] = "none" /\ unique[a] \in Asked
    BY <2>2 DEF Found, NodesAreWaiting, Target
  <2>4. \A j \in 1..Len(sent) :
          reply'[sent[j]] = "none" => \E a \in live' : unique[a] = sent[j]
    <3> SUFFICES ASSUME NEW j \in 1..Len(sent), reply'[sent[j]] = "none"
                 PROVE  \E a \in live' : unique[a] = sent[j]
      OBVIOUS
    <3>1. sent[j] # sent[at]
      BY <2>1 DEF Found, Target
    <3>2. reply[sent[j]] = "none"
      BY <3>1 DEF Found, Target
    <3> QED
      BY <2>1, <3>1, <3>2 DEF Found, NodesAreWaiting
  <2>5. \A a, b \in live' : unique[a] = unique[b] => a = b
    BY DEF Found, NodesAreWaiting
  <2>6. \A j \in Pending' : reply'[sent[j]] = "none"
    BY <2>1 DEF Found, NodesAreWaiting, LookupOver, Target
  <2>7. sent' = sent /\ unique' = unique /\ Asked' = Asked
    BY DEF Found, Asked
  <2>8. \A j, k \in 1..Len(sent) : sent[j] = sent[k] => j = k
    BY DEF NodesAreWaiting
  <2> QED
    BY <2>3, <2>4, <2>5, <2>6, <2>7, <2>8, Zenon DEF NodesAreWaiting
<1>2. PendingAreLinked'
  BY DEF Found, PendingAreLinked, NodesAreWaiting, LookupOver, Target, Free
<1>3. FreedAreReplied'
  BY DEF Found, FreedAreReplied, NodesAreWaiting, LookupOver, Target
<1> QED
  BY <1>1, <1>2, <1>3

(* The end of the list is met only after a send failed.                    *)
LEMMA NotFoundIsDamage == ListInv /\ NotFound => damaged
BY HeapAssumption DEF ListInv, TypeOK, PendingAreLinked, NotFound

(* The node of a response that is ignored stays allocated.                 *)
LEMMA NotFoundKeepsList ==
  ASSUME ListInv, NotFound, TypeOK'
  PROVE  ListInv'
<1> USE DEF ListInv, TypeOK, Pointer, Pending, Idle
<1>1. NodesAreWaiting'
  BY DEF NotFound, NodesAreWaiting, Asked, LookupOver
<1>2. PendingAreLinked'
  BY NotFoundIsDamage DEF NotFound, PendingAreLinked
<1>3. FreedAreReplied'
  BY DEF NotFound, FreedAreReplied, LookupOver
<1> QED
  BY <1>1, <1>2, <1>3

LEMMA NextListInv == ListInv /\ [Next]_vars => ListInv'
<1> SUFFICES ASSUME ListInv, [Next]_vars PROVE ListInv'
  OBVIOUS
<1>1. TypeOK'
  BY NextTypeOK DEF ListInv
<1>2. CASE PeerCloses
  BY <1>1, <1>2
     DEF PeerCloses, ListInv, NodesAreWaiting, PendingAreLinked, FreedAreReplied,
         Pending, Asked, Idle
<1>3. CASE UNCHANGED vars
  BY <1>1, <1>3
     DEF vars, ListInv, NodesAreWaiting, PendingAreLinked, FreedAreReplied,
         Pending, Asked, Idle
<1> QED
  BY <1>1, <1>2, <1>3, ForwardKeepsList, SendFailsKeepsList, RefuseKeepsList,
     ReceiveKeepsList, WalkOnKeepsList, FoundKeepsList, NotFoundKeepsList
     DEF Next, Lookup

LEMMA ListInvHolds == SafeSpec => []ListInv
BY InitListInv, NextListInv, PTL DEF SafeSpec

(* No lookup reads freed memory or misses its node, although nodes are     *)
(* never unlinked, until a send fails while the library is there.          *)
THEOREM LookupIsSafe == SafeSpec => []LookupReadsLiveNodes
<1>1. ListInv => LookupReadsLiveNodes
  BY DEF ListInv, PendingAreLinked, LookupReadsLiveNodes
<1> QED
  BY <1>1, ListInvHolds, PTL

(* The allocated nodes are those of the requests sent without a reply, one *)
(* each, those passed over included, whatever sends fail.                  *)
THEOREM NodesCorrespond == SafeSpec => []NodesAreWaiting
<1>1. ListInv => NodesAreWaiting
  BY DEF ListInv
<1> QED
  BY <1>1, ListInvHolds, PTL

(* From the head the links lead through the nodes of all the requests that *)
(* can still get a response.  A request that was passed over may be out of *)
(* reach: no response will come for it either.                             *)
THEOREM ListIsLinked == SafeSpec => []PendingAreLinked
<1>1. ListInv => PendingAreLinked
  BY DEF ListInv
<1> QED
  BY <1>1, ListInvHolds, PTL

(* No node is freed twice, whatever sends fail and wherever the walk went. *)
THEOREM NoDoubleFree == SafeSpec => []NodeFoundIsLive
BY FoundIsLive, ListInvHolds, PTL

(* No reply replaces another one: a request that was refused was not sent, *)
(* and one whose response is found was not replied to.                     *)
THEOREM RepliesStay == SafeSpec => RepliesAreFinal
<1>1. ListInv /\ [Next]_vars
        => [\A r \in Request : reply[r] # "none" => reply'[r] = reply[r]]_vars
  <2> SUFFICES ASSUME ListInv, [Next]_vars, NEW r \in Request,
                      reply[r] # "none"
               PROVE  reply'[r] = reply[r]
    OBVIOUS
  <2>1. ASSUME NEW q \in Request, NEW a \in Addr, SendFails(q, a)
        PROVE  reply'[r] = reply[r]
    BY <2>1 DEF SendFails, Push, Fresh, ListInv, TypeOK
  <2>2. ASSUME NEW q \in Request, Refuse(q)
        PROVE  reply'[r] = reply[r]
    BY <2>2 DEF Refuse, Fresh, ListInv, TypeOK
  <2>3. ASSUME Found
        PROVE  reply'[r] = reply[r]
    <3>1. w \in live /\ unique[w] = Target
      BY <2>3, FoundIsLive DEF Found, NodeFoundIsLive
    <3>2. reply[Target] = "none"
      BY <3>1 DEF ListInv, NodesAreWaiting
    <3> QED
      BY <2>3, <3>2 DEF Found, ListInv, TypeOK
  <2> QED
    BY <2>1, <2>2, <2>3
       DEF Next, Lookup, Forward, Receive, WalkOn, NotFound, PeerCloses, vars
<1> QED
  BY <1>1, ListInvHolds, PTL DEF SafeSpec, RepliesAreFinal

(* While a response can still come, the write to the former head hits the  *)
(* node of a request that waits: all other times it may hit freed memory.  *)
THEOREM PushesAreSafe == SafeSpec => PushWritesLiveNodes
<1>1. ListInv /\ [Next]_vars
        => [peer /\ ~damaged' /\ Pending # {} =>
              \A a \in Addr : prev'[a] # prev[a] => a \in live']_vars
  <2> SUFFICES ASSUME ListInv, [Next]_vars, peer, ~damaged', Pending # {},
                      NEW a \in Addr, prev'[a] # prev[a]
               PROVE  a \in live'
    OBVIOUS
  <2>1. ASSUME NEW r \in Request, NEW b \in Addr, Forward(r, b)
        PROVE  a \in live'
    <3>1. ~damaged /\ head \in live
      BY <2>1 DEF Forward, ListInv, PendingAreLinked
    <3>2. a = b \/ a = head
      BY <2>1 DEF Forward, Push, ListInv, TypeOK
    <3> QED
      BY <2>1, <3>1, <3>2 DEF Forward
  <2>2. ASSUME NEW r \in Request, NEW b \in Addr, SendFails(r, b)
        PROVE  FALSE
    BY <2>2 DEF SendFails
  <2> QED
    BY <2>1, <2>2
       DEF Next, Lookup, Refuse, Receive, WalkOn, Found, NotFound, PeerCloses,
           vars
<1> QED
  BY <1>1, ListInvHolds, PTL DEF SafeSpec, PushWritesLiveNodes

-----------------------------------------------------------------------------
(* The requests waiting in the table, under the refinement mapping.        *)
Waiting == {unique[a] : a \in live}
Answering == IF Idle THEN NoRequest ELSE Target

LEMMA InitRefines == Init => Table!Init
BY DEF Init, Table!Init, Idle

LEMMA ForwardRefines ==
  ASSUME ListInv, NEW r \in Request, NEW a \in Addr, Forward(r, a)
  PROVE  Table!Forward(r)
<1> USE DEF ListInv, TypeOK
<1>1. r \notin Waiting
  BY DEF Forward, Push, Linked, Fresh, NodesAreWaiting, Waiting
<1>2. Waiting' = Waiting \cup {r}
  BY DEF Forward, Push, Linked, Waiting
<1> QED
  BY <1>1, <1>2
     DEF Forward, Push, Fresh, Table!Forward, Table!Idle, Waiting, Idle

LEMMA SendFailsRefines ==
  ASSUME ListInv, NEW r \in Request, NEW a \in Addr, SendFails(r, a)
  PROVE  Table!Refuse(r)
<1> USE DEF ListInv, TypeOK
<1>1. r \notin Waiting
  BY DEF SendFails, Push, Linked, Fresh, NodesAreWaiting, Waiting
<1>2. Waiting' = Waiting
  BY DEF SendFails, Push, Linked, Waiting
<1> QED
  BY <1>1, <1>2
     DEF SendFails, Push, Fresh, Table!Refuse, Table!Idle, Waiting, Idle

LEMMA RefuseRefines ==
  ASSUME ListInv, NEW r \in Request, Refuse(r)
  PROVE  Table!Refuse(r)
<1>1. r \notin Waiting
  BY DEF Refuse, Fresh, ListInv, NodesAreWaiting, Waiting
<1> QED
  BY <1>1 DEF Refuse, Fresh, Table!Refuse, Table!Idle, Waiting, Idle

LEMMA ReceiveRefines ==
  ASSUME ListInv, NEW i \in 1..Len(sent), Receive(i)
  PROVE  \E r \in Request : Table!Receive(r)
<1> USE DEF ListInv, TypeOK
<1>1. i \in Pending /\ sent[i] \in Request
  BY DEF Receive, Pending
<1>2. sent[i] \in Waiting
  BY <1>1 DEF NodesAreWaiting, Waiting, Pending
<1>3. Answering' = sent[i] /\ sent[i] # NoRequest /\ Waiting' = Waiting
  BY <1>1, HeapAssumption DEF Receive, Answering, Idle, Target, Waiting, Pending
<1>4. Table!Receive(sent[i])
  BY <1>2, <1>3
     DEF Receive, Table!Receive, Table!Idle, Waiting, Answering, Idle
<1> QED
  BY <1>1, <1>4

LEMMA WalkOnRefines ==
  ASSUME WalkOn
  PROVE  UNCHANGED Table!vars
BY DEF WalkOn, Table!vars, Idle, Target

LEMMA NotFoundRefines ==
  ASSUME ListInv, NotFound
  PROVE  Table!Ignore
<1> USE DEF ListInv, TypeOK
<1>1. at \in Pending /\ Target \in Request /\ Target # NoRequest
  BY HeapAssumption DEF NotFound, Target, Pending, Idle
<1>2. Answering = Target /\ Answering' = NoRequest /\ intact' = FALSE
  BY DEF NotFound, LookupOver, Answering, Idle
<1>3. damaged
  BY NotFoundIsDamage
<1> QED
  BY <1>1, <1>2, <1>3
     DEF NotFound, Table!Ignore, Table!Idle, Waiting, Answering

LEMMA FoundRefines ==
  ASSUME ListInv, Found, ListInv'
  PROVE  Table!Answer
<1> USE DEF ListInv, TypeOK
<1>1. at \in Pending /\ Target \in Request /\ Target # NoRequest
  BY HeapAssumption DEF Found, Target, Pending, Idle
<1>2. w \in live /\ unique[w] = Target
  BY FoundIsLive DEF Found, NodeFoundIsLive
<1>3. Waiting' = Waiting \ {Target}
  BY <1>2 DEF Found, NodesAreWaiting, Waiting
<1>4. Answering = Target /\ Answering' = NoRequest
  BY DEF Found, LookupOver, Answering, Idle
<1>5. reply' = [reply EXCEPT ![Answering] = IF intact THEN "success"
                                            ELSE "error"]
  BY <1>4 DEF Found
<1>6. intact' = FALSE /\ damaged' = damaged
  BY DEF Found, LookupOver
<1> QED
  BY <1>1, <1>3, <1>4, <1>5, <1>6, Zenon
     DEF Table!Answer, Table!Idle, Waiting, Answering

(* The list of card.c keeps the promise of WaitTable, safety part: the     *)
(* allocated nodes are the waiting requests, and a response that is read   *)
(* ends in one reply to its request, or comes to nothing after a send      *)
(* failed that should not have.                                            *)
THEOREM ListImplementsTable == SafeSpec => Table!SafeSpec
<1>1. ListInv /\ ListInv' /\ [Next]_vars => [Table!Next]_(Table!vars)
  <2> SUFFICES ASSUME ListInv, ListInv', [Next]_vars
               PROVE  [Table!Next]_(Table!vars)
    OBVIOUS
  <2>1. CASE PeerCloses \/ UNCHANGED vars
    BY <2>1 DEF PeerCloses, vars, Table!vars, Idle, Target
  <2> QED
    BY <2>1, ForwardRefines, SendFailsRefines, RefuseRefines, ReceiveRefines,
       WalkOnRefines, FoundRefines, NotFoundRefines
       DEF Next, Lookup, Table!Next
<1> QED
  BY <1>1, InitRefines, ListInvHolds, PTL DEF SafeSpec, Table!SafeSpec
=============================================================================
