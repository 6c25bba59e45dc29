----------------------------- MODULE IoctlService ----------------------------
(***************************************************************************)
(* What an ioctl with arrays does to the memory of the process that issued *)
(* it.  IoctlRetry brings the memory to the library as one buffer; a       *)
(* parser of lib/ioctls.c cuts it up by the lengths in the struct, lets    *)
(* modeset_ioctl (here that of xsubsession) fill local arrays, and puts    *)
(* them together again in the buffer; the master passes on what it reads   *)
(* if the length is right, and the kernel copies it to where it was read   *)
(* from.  Only the struct with two arrays has contents here; the process   *)
(* leaves it alone during the ioctl.                                       *)
(***************************************************************************)
EXTENDS IoctlRetry, Sequences

CONSTANT Have   \* how many elements modeset_ioctl has for each array

ASSUME ServiceAssumption == Have \in [1..2 -> 0..Max]

VARIABLES mem,    \* the memory of the process: lengths and arrays
          known   \* the lengths the process was last told, if any

serviceVars == <<vars, mem, known>>

(* A cell holds an element for the nth array, or what no one filled in.    *)
Element(n, i) == <<"element", n, i>>
Own(n, i) == <<"own", n, i>>   \* what the process had there
Zero == <<"zero", 0, 0>>       \* padding
Junk == <<"junk", 0, 0>>       \* a local array of the library, not written

Lesser(m, n) == IF m < n THEN m ELSE n
Repeat(cell, n) == [i \in 1..n |-> cell]

ServiceInit == /\ Init
               /\ mem = [count |-> <<0, 0>>, array |-> <<<<>>, <<>>>>]
               /\ known = {}

-----------------------------------------------------------------------------
(* A parser of lib/ioctls.c.                                               *)

(* The kernel copies the struct and the arrays one after the other, each   *)
(* as long as the master asked for.                                        *)
Buffer(m) ==
  [count |-> m.count,
   cells |-> SubSeq(m.array[1], 1, Product(m.count[1]))
               \o SubSeq(m.array[2], 1, Product(m.count[2]))]

(* A bug to catch: buf is not moved on after the first array.              *)
CutSame(buf) ==
  [count |-> buf.count,
   array |-> [n \in 1..2 |->
                SubSeq(buf.cells, 1, Product(buf.count[n]))
                  \o Repeat(Junk, Max - Product(buf.count[n]))]]

(* The local copies: arrays of a fixed size, filled up to the lengths,     *)
(* which are computed as in the master.                                    *)
Cut(buf) ==
  LET from == <<0, Product(buf.count[1])>>
      len == <<Product(buf.count[1]), Product(buf.count[2])>>
  IN [count |-> buf.count,
      array |-> [n \in 1..2 |-> SubSeq(buf.cells, from[n] + 1, from[n] + len[n])
                                  \o Repeat(Junk, Max - len[n])]]

(* A bug to catch: the process is told how many elements it got.           *)
TellsWritten(n, count) == Lesser(count[n], Have[n])

(* COPY_ARRAY and fill_array: as many elements as the count has room for,  *)
(* which is all there are if it wraps.  The second array of a shared count *)
(* finds it already overwritten.                                           *)
Writes(n, count) ==
  IF req.kind = "shared" /\ n = 2 THEN Have[2] ELSE Lesser(count[n], Have[n])

(* The length the process is told.                                         *)
Tells(n, count) == Have[n]

(* modeset_ioctl, on the local copies; strncpy pads strings with zeros.    *)
Fill(local) ==
  [count |-> [n \in 1..2 |-> Tells(n, local.count)],
   array |-> [n \in 1..2 |-> [i \in 1..Max |->
     IF i <= Writes(n, local.count) THEN Element(n, i)
     ELSE IF req.kind = "strings" /\ i <= local.count[n] THEN Zero
     ELSE local.array[n][i]]]]

(* The arrays are copied back in the lengths they came with, then the      *)
(* struct with the lengths modeset_ioctl left.                             *)
PutBack(buf, local) ==
  [count |-> local.count,
   cells |-> SubSeq(local.array[1], 1, Product(buf.count[1]))
               \o SubSeq(local.array[2], 1, Product(buf.count[2]))]

(* The kernel copies the reply to where it read the request from.          *)
CopyOut(m, buf) ==
  LET from == <<0, Product(m.count[1])>>
      len == <<Product(m.count[1]), Product(m.count[2])>>
  IN [count |-> buf.count,
      array |-> [n \in 1..2 |-> [i \in 1..Len(m.array[n]) |->
                   IF i <= len[n] THEN buf.cells[from[n] + i] ELSE m.array[n][i]]]]

-----------------------------------------------------------------------------
(* The process asks with some room, and remembers what it was told.        *)
ServiceAsk ==
  /\ Ask
  /\ req'.kind = "shared" => Have[1] = Have[2]
  /\ mem' = [count |-> <<req'.counts[1], req'.counts[2]>>,
             array |-> [n \in 1..2 |-> [i \in 1..req'.counts[n] |-> Own(n, i)]]]
  /\ UNCHANGED known

(* What recvmsg returns: the message and what is behind it in the socket,  *)
(* as far as there is room.                                                *)
Reads(len, behind, room) == Lesser(len + behind, room)

(* The length of the response.  The library sends as much as it read       *)
(* (session.c:367), whatever its parser made of it.                        *)
ResponseLength(behind, after) ==
  Reads(Reads(inSize, behind, ArgRoom), after, Room)

(* A bug to catch: the length of the response is not looked at.            *)
AnyLength(len) == TRUE

RightLength(len) == len = inSize

(* The ioctl reaches the library, is served there, and the response        *)
(* reaches the master, each perhaps with another message behind it.  With  *)
(* the right length the contents are passed on; the rest of a message that *)
(* was too long is left out.                                               *)
Serve ==
  /\ phase = "forwarded" /\ req.kind \in ArrayKinds
  /\ \E behind, after \in 0..1 :
       LET len == ResponseLength(behind, after)
           buf == PutBack(Buffer(mem), Fill(Cut(Buffer(mem))))
       IN /\ RightLength(len)
          /\ Answer(len, TRUE)
          /\ mem' = CopyOut(mem, buf)
          /\ known' = {buf.count}

(* The response is of another length: an error, with a buffer of zeros     *)
(* (card.c:1774).                                                          *)
ServeWrong ==
  /\ phase = "forwarded" /\ req.kind \in ArrayKinds
  /\ \E behind, after \in 0..1 : ~RightLength(ResponseLength(behind, after))
  /\ ReturnError
  /\ mem' = CopyOut(mem, [count |-> <<0, 0>>,
                          cells |-> Repeat(Zero, Len(Buffer(mem).cells))])
  /\ UNCHANGED known

(* Everything else leaves the arrays alone.                                *)
ServiceRest ==
  /\ Fetch \/ Fault \/ Return \/ Parse \/ (req.kind \notin ArrayKinds /\ Respond)
  /\ UNCHANGED <<mem, known>>

ServiceNext == ServiceAsk \/ Serve \/ ServeWrong \/ ServiceRest

ServiceSpec == ServiceInit /\ [][ServiceNext]_serviceVars
                 /\ WF_serviceVars(ServiceRest)
                 /\ WF_serviceVars(inSize <= ArgRoom /\ (Serve \/ ServeWrong))

-----------------------------------------------------------------------------
ArraysServed ==
  phase = "answered" /\ req.kind \in ArrayKinds /\ reply.served

ServiceTypeOK ==
  /\ TypeOK
  /\ known \subseteq [1..2 -> 0..Max]
  /\ \A n \in 1..2 : DOMAIN mem.array[n] = 1..req.counts[n]

(* Every array gets its own elements, each in its place, and nothing else: *)
(* no element of the other array and nothing of the library's stack, for   *)
(* all that they go through one buffer whose lengths change on the way     *)
(* (lib/ioctls.c:124-186).                                                 *)
ArraysKeptApart ==
  \A n \in 1..2 : \A i \in DOMAIN mem.array[n] :
    mem.array[n][i] \in {Own(n, i), Zero, Element(n, i)}

(* Of what was brought, nothing is missing: a process gets the first       *)
(* elements, as many as it has room for.  Only if the length of its room   *)
(* wraps it gets no more than what is left of it.                          *)
RoomIsUsed ==
  ArraysServed => \A n \in 1..2 :
    \/ \A i \in 1..Lesser(req.counts[n], Have[n]) : mem.array[n][i] = Element(n, i)
    \/ /\ req.counts[n] >= Wrap
       /\ \A i \in 1..Lesser(req.parts[n], Have[n]) : mem.array[n][i] = Element(n, i)

(* The rest of the room is left as it was, but for the padding of strings. *)
RestIsLeftAlone ==
  ArraysServed => \A n \in 1..2 : \A i \in DOMAIN mem.array[n] :
    (i > req.parts[n] \/ (i > Have[n] /\ req.kind # "strings"))
      => mem.array[n][i] = Own(n, i)

(* Each array as it should be.                                             *)
ArraysAreRight == ArraysKeptApart /\ RoomIsUsed /\ RestIsLeftAlone

(* The two calls of a client of DRM: whoever asks again with the lengths   *)
(* that the last call returned gets all there is and is told the same.     *)
SecondCallGetsAll ==
  [][(ArraysServed' /\ ~ArraysServed
        /\ <<req.counts[1], req.counts[2]>> \in known) =>
       /\ known' = known
       /\ \A n \in 1..2 : mem'.array[n] = [i \in 1..Have[n] |-> Element(n, i)]
    ]_serviceVars

(* The library's part implements what IoctlRetry assumes of it: a success  *)
(* has the length of the request and fitted the buffers on both ends, and  *)
(* everything else is taken for an error.                                  *)
KeepsRetry == Spec
=============================================================================
