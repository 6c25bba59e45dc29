------------------------------ MODULE IoctlWait ------------------------------
(***************************************************************************)
(* The list of outstanding modeset ioctls of the session master            *)
(* (setuid/card.c): a singly walked list of malloc()ed nodes.  A node is   *)
(* pushed when a request is forwarded and free()d when it is answered or   *)
(* could not be sent, but it is never unlinked: the head and the next      *)
(* pointers of the list run through freed memory.  The memory is modelled: *)
(* addresses, what the allocator does to a freed node, and the loop that   *)
(* looks a response up, one pointer read at a time.                        *)
(*                                                                         *)
(* The other end of the socket is the library, which answers in the order  *)
(* of the requests but not every one of them.  The stream socket keeps no  *)
(* message boundaries and what is read at once is taken for one message:   *)
(* an ioctl read behind a report (session.c:328) or behind another ioctl   *)
(* gets no response, a response read behind another one is lost, and what  *)
(* was read together, on either side, comes with the wrong length.  So     *)
(* there is a response for some of the requests, in their order, with or   *)
(* without the right length, and the others keep their node for ever.      *)
(***************************************************************************)
EXTENDS Naturals, Sequences

CONSTANTS Addr,          \* the addresses malloc can return for a node
          Request,       \* FUSE request numbers ("unique")
          NULL,          \* the null pointer
          NoRequest      \* no response is being looked up

ASSUME HeapAssumption == /\ NULL \notin Addr
                         /\ NoRequest \notin Request

VARIABLES head,    \* c->ioctls_waiting
          next,    \* the next field of the node at an address
          prev,    \* the prev_p field: whose next points here, NULL: the head
          unique,  \* the unique field of the node at an address
          live,    \* the addresses that are allocated
          reply,   \* what the kernel was told about each request
          sent,    \* the requests written to the socket, in order
          done,    \* the last of them that a response was read for
          at,      \* the one whose response is being looked up, or 0
          intact,  \* has that response the length of its request?
          w,       \* the loop variable of card_modeset_ioctl_response
          peer,    \* has the library its end of the socket open?
          damaged  \* history: did a send fail while it had?

vars == <<head, next, prev, unique, live, reply, sent, done, at, intact, w,
          peer, damaged>>

Pointer == Addr \cup {NULL}

TypeOK ==
  /\ head \in Pointer
  /\ next \in [Addr -> Pointer] /\ prev \in [Addr -> Pointer]
  /\ unique \in [Addr -> Request \cup {NoRequest}]
  /\ live \in SUBSET Addr
  /\ reply \in [Request -> {"none", "success", "error"}]
  /\ sent \in Seq(Request)
  /\ done \in 0..Len(sent)
  /\ at \in {0} \cup (done + 1)..Len(sent)
  /\ intact \in BOOLEAN
  /\ w \in Pointer
  /\ peer \in BOOLEAN /\ damaged \in BOOLEAN

Init ==
  /\ head = NULL
  /\ next = [a \in Addr |-> NULL] /\ prev = [a \in Addr |-> NULL]
  /\ unique = [a \in Addr |-> NoRequest]
  /\ live = {}
  /\ reply = [r \in Request |-> "none"]
  /\ sent = <<>>
  /\ done = 0 /\ at = 0 /\ intact = FALSE
  /\ w = NULL
  /\ peer = TRUE /\ damaged = FALSE

-----------------------------------------------------------------------------
(* The master is one thread: it handles a request only when no response is *)
(* being looked up.                                                        *)
Idle == at = 0

Asked == {sent[i] : i \in 1..Len(sent)}

(* A request the kernel has not handed to the master yet.                  *)
Fresh(r) == reply[r] = "none" /\ r \notin Asked

(* The requests sent after the last one that a response was read for: a    *)
(* response can still come for these, and for no other.                    *)
Pending == (done + 1)..Len(sent)

(* free(): the allocator keeps its own link in the first word of the node, *)
(* which is the next field; the unique field stays as it was.  What it     *)
(* keeps in the second word is left out: nobody reads prev_p.              *)
Free(a, memory) ==
  \E garbage \in Pointer : next' = [memory EXCEPT ![a] = garbage]

(* ioctl_wait_new: the node becomes the head, and the former head is told  *)
(* so, whether it is allocated or not.  Its next field is Linked(a).       *)
Push(r, a) ==
  /\ Idle /\ Fresh(r)
  /\ a \notin live
  /\ unique' = [unique EXCEPT ![a] = r]
  /\ prev' = [b \in Addr |-> IF b = head THEN a
                             ELSE IF b = a THEN NULL ELSE prev[b]]
  /\ head' = a

Linked(a) == [next EXCEPT ![a] = head]

(* A bug to catch: the node is pushed without a link to the older ones.    *)
ForwardUnlinked(r, a) ==
  /\ peer /\ Push(r, a)
  /\ next' = [next EXCEPT ![a] = NULL]
  /\ live' = live \cup {a}
  /\ sent' = Append(sent, r)
  /\ UNCHANGED <<reply, done, at, intact, w, peer, damaged>>

(* ioctl_wait_new followed by a successful card_send_modeset_ioctl.        *)
Forward(r, a) ==
  /\ peer /\ Push(r, a)
  /\ next' = Linked(a)
  /\ live' = live \cup {a}
  /\ sent' = Append(sent, r)
  /\ UNCHANGED <<reply, done, at, intact, w, peer, damaged>>

(* A bug to catch: the request is answered with an error although the      *)
(* library got it and will respond.                                        *)
SendFailsLate(r, a) ==
  /\ Push(r, a)
  /\ Free(a, Linked(a))
  /\ reply' = [reply EXCEPT ![r] = "error"]
  /\ damaged' = (damaged \/ peer)
  /\ sent' = Append(sent, r)
  /\ UNCHANGED <<live, done, at, intact, w, peer>>

(* ioctl_wait_new followed by a failed send: the node is freed again while *)
(* the head points at it, and the request is answered with an error.       *)
SendFails(r, a) ==
  /\ Push(r, a)
  /\ Free(a, Linked(a))
  /\ reply' = [reply EXCEPT ![r] = "error"]
  /\ damaged' = (damaged \/ peer)
  /\ UNCHANGED <<live, sent, done, at, intact, w, peer>>

(* No node is made: malloc returned NULL, or the request is a page flip.   *)
Refuse(r) ==
  /\ Idle /\ Fresh(r)
  /\ reply' = [reply EXCEPT ![r] = "error"]
  /\ UNCHANGED <<head, next, prev, unique, live, sent, done, at, intact, w,
                 peer, damaged>>

(* The master reads the response to the ith request, looks at the first    *)
(* header of what it read and begins the lookup loop.  The responses to    *)
(* the pending requests before it will not come.                           *)
Receive(i) ==
  /\ Idle /\ peer
  /\ i \in Pending
  /\ at' = i
  /\ intact' \in BOOLEAN
  /\ w' = head
  /\ UNCHANGED <<head, next, prev, unique, live, reply, sent, done, peer, damaged>>

(* The request the response being looked up is for.                        *)
Target == sent[at]

LookupOver == /\ done' = at
              /\ at' = 0
              /\ intact' = FALSE
              /\ w' = NULL

(* One iteration of the loop: for(; w; w = w->next).                       *)
WalkOn ==
  /\ ~Idle
  /\ w # NULL /\ unique[w] # Target
  /\ w' = next[w]
  /\ UNCHANGED <<head, next, prev, unique, live, reply, sent, done, at, intact,
                 peer, damaged>>

(* A bug to catch: the error path replies but leaks the node.              *)
FoundLeaks ==
  /\ ~Idle
  /\ w # NULL /\ unique[w] = Target
  /\ reply' = [reply EXCEPT ![Target] = IF intact THEN "success" ELSE "error"]
  /\ IF intact THEN live' = live \ {w} /\ Free(w, next)
               ELSE UNCHANGED <<live, next>>
  /\ LookupOver
  /\ UNCHANGED <<head, prev, unique, sent, peer, damaged>>

(* The loop found the node: reply, with success only if the length is      *)
(* right, and free it.                                                     *)
Found ==
  /\ ~Idle
  /\ w # NULL /\ unique[w] = Target
  /\ reply' = [reply EXCEPT ![Target] = IF intact THEN "success" ELSE "error"]
  /\ live' = live \ {w}
  /\ Free(w, next)
  /\ LookupOver
  /\ UNCHANGED <<head, prev, unique, sent, peer, damaged>>

(* The loop ran off the end of the list: the response is ignored.          *)
NotFound ==
  /\ ~Idle
  /\ w = NULL
  /\ LookupOver
  /\ UNCHANGED <<head, next, prev, unique, live, reply, sent, peer, damaged>>

(* session_free() or the exit of the library's process.  From here on      *)
(* every send fails and the hang-up hides what is left to read.            *)
PeerCloses ==
  /\ peer
  /\ peer' = FALSE
  /\ UNCHANGED <<head, next, prev, unique, live, reply, sent, done, at, intact, w,
                 damaged>>

Lookup == WalkOn \/ Found \/ NotFound

Next ==
  \/ \E r \in Request : \/ \E a \in Addr : Forward(r, a) \/ SendFails(r, a)
                        \/ Refuse(r)
  \/ \E i \in 1..Len(sent) : Receive(i)
  \/ Lookup
  \/ PeerCloses

SafeSpec == Init /\ [][Next]_vars

(* The lookup is a loop of the master's code: it does not stop by itself.  *)
Spec == SafeSpec /\ WF_vars(Lookup)

-----------------------------------------------------------------------------
(* No request is sent twice, and the nodes allocated are those of requests *)
(* that were sent and have no reply, one each: those that can still get a  *)
(* response and those that were passed over.                               *)
NodesAreWaiting ==
  /\ \A i, j \in 1..Len(sent) : sent[i] = sent[j] => i = j
  /\ \A a \in live : reply[unique[a]] = "none" /\ unique[a] \in Asked
  /\ \A a, b \in live : unique[a] = unique[b] => a = b
  /\ \A i \in 1..Len(sent) :
       reply[sent[i]] = "none" => \E a \in live : unique[a] = sent[i]
  /\ \A i \in Pending : reply[sent[i]] = "none"

(* Unless a send failed, and while responses can still come, the list is   *)
(* intact as far as it will be walked: the head is the newest request, and *)
(* every pending request but the oldest leads to the one sent before it.   *)
(* What is behind, the node of a request passed over, is out of reach once *)
(* a node before it was freed.                                             *)
PendingAreLinked ==
  ~damaged =>
    /\ Pending # {} /\ (peer \/ ~Idle)
         => head \in live /\ unique[head] = sent[Len(sent)]
    /\ \A i \in Pending : \A a \in live :
         i > done + 1 /\ unique[a] = sent[i]
           => next[a] \in live /\ unique[next[a]] = sent[i - 1]
    /\ ~Idle => w \in live /\ \E i \in at..Len(sent) : unique[w] = sent[i]

(* The nodes are never unlinked, yet the lookup of a response reads only   *)
(* allocated nodes and never meets the end of the list, whichever requests *)
(* were passed over, as long as sends fail only once the library is gone   *)
(* (ioctl_wait_free, card.c:1501 and the loop, card.c:1763).               *)
LookupReadsLiveNodes == ~Idle /\ ~damaged => w \in live

(* The write to the former head (card.c:1496) hits freed memory whenever   *)
(* the newest request has been answered, that is in ordinary operation.    *)
(* While a response can still come it hits the node of a waiting request.  *)
PushWritesLiveNodes ==
  [][peer /\ ~damaged' /\ Pending # {} =>
       \A a \in Addr : prev'[a] # prev[a] => a \in live']_vars

(* Even when sends fail at any time, the node whose request matches a      *)
(* response is allocated: it is not freed twice (card.c:1771, 1777).       *)
NodeFoundIsLive == ~Idle /\ w # NULL /\ unique[w] = Target => w \in live

(* A request is answered once: no reply replaces another (card.c:1755,     *)
(* 1770 and 1776 each write one), whatever failed.                         *)
RepliesAreFinal ==
  [][\A r \in Request : reply[r] # "none" => reply'[r] = reply[r]]_vars

(* The list keeps the promise of WaitTable: the allocated nodes are the    *)
(* requests waiting, and processing a response ends in one reply to the    *)
(* request it is for (card_modeset_ioctl_response).                        *)
Table == INSTANCE WaitTable
           WITH waiting <- {unique[a] : a \in live},
                answering <- IF Idle THEN NoRequest ELSE Target

KeepsTable == Table!Spec
=============================================================================
