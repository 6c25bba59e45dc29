------------------------------ MODULE IoctlRetry ------------------------------
(***************************************************************************)
(* How the master gets at the memory an ioctl points to.  The kernel first *)
(* passes an ioctl on with nothing but its argument; the parsers of        *)
(* setuid/ioctls.c answer with a retry that names the memory they know of, *)
(* and are called again with its contents, until all of it is there.  Then *)
(* the ioctl goes to the library (modeset) or to the real card (render).   *)
(* One ioctl at a time: the parsers keep nothing between two calls.        *)
(*                                                                         *)
(* The parsers are generated from a table (generate-ioctls.py) and differ  *)
(* by the shape of what the ioctl points to:                               *)
(*   bare    nothing (SET_MASTER)       struct  a struct (GET_CAP)         *)
(*   strings a struct and two arrays whose lengths it holds (VERSION)      *)
(*   arrays  the same, the lengths are counts (GETRESOURCES)               *)
(*   shared  the same, one count for both arrays (GETCONNECTOR)            *)
(*   flip    the struct of PAGE_FLIP    render  a struct (GEM_INFO)        *)
(*   value   a struct and a word (RADEON_INFO)                             *)
(*   cs      a struct, its pointers to chunks, the chunks, their data      *)
(*   unknown anything else                                                 *)
(* Sizes are counted in units: a struct, a pointer and a chunk are one.    *)
(* The parsers multiply a count by the size of an element in 32 bits: what *)
(* they work with is the length that comes out, modulo Wrap.               *)
(***************************************************************************)
EXTENDS Naturals

CONSTANTS Max,        \* the longest array the parsers take
          MaxChunks,  \* the most chunks parse_drm_ioctl_radeon_cs takes
          MaxData,    \* and the most data in them
          Wrap,       \* so many elements are 2^32 bytes long, which is taken for 0
          ArgRoom,    \* the longest ioctl the library reads (OUT_BUFFER_SIZE)
          Room        \* the longest response the master reads (IN_BUFFER_SIZE
                      \* less the header)

ASSUME RetryAssumption == /\ {Max, MaxChunks, MaxData, Wrap, ArgRoom, Room} \subseteq Nat
                          /\ Max + 1 < Wrap /\ MaxChunks < Wrap
                          /\ 1 <= Room /\ Room <= ArgRoom

VARIABLES phase,    \* idle, asked, retry, forwarded, answered, faulted
          req,      \* the ioctl: its kind, its counts, and the lengths of
                    \* the parts as the products give them
          inSize,   \* how much the kernel passes on with it
          outSize,  \* how much it expects in the reply
          reply     \* how long the reply is, and was the ioctl carried out

vars == <<phase, req, inSize, outSize, reply>>

Header == 1
Plain == <<0, 0, 0>>

(* count * 4, count_props * 8, 8 * cs.num_chunks, in units: all of them    *)
(* are 32 bits wide.                                                       *)
Product(n) == n % Wrap

(* The counts a process may ask with.  One time round is enough: then the  *)
(* products repeat.                                                        *)
Counts == 0..Wrap + Max + 1

ArrayKinds == {"strings", "arrays", "shared"}

Ioctl(kind, counts, parts) == [kind |-> kind, counts |-> counts, parts |-> parts]

(* The lengths of strings are size_t and do not wrap, as if only the first *)
(* counts of an array occurred (the modes of GETCONNECTOR are like that);  *)
(* nor do the sizes of chunks; their data, length_dw * 4 each, add up to   *)
(* the right sum or have lost 2^32 bytes.  The two arrays of a shared      *)
(* count have elements of 4 and of 8 bytes: a count for which only one of  *)
(* the products wraps is too long for the other, as are those in between.  *)
Requests ==
  {Ioctl(kind, Plain, Plain) :
      kind \in {"bare", "struct", "flip", "render", "unknown", "cs"}}
    \cup {Ioctl("value", <<1, 0, 0>>, <<1, 0, 0>>)}
    \cup {Ioctl("strings", <<m, n, 0>>, <<m, n, 0>>) :
             m \in 0..Max + 1, n \in 0..Max + 1}
    \cup {Ioctl("arrays", <<m, n, 0>>, <<Product(m), Product(n), 0>>) :
             m \in Counts, n \in Counts}
    \cup {Ioctl("shared", <<n, n, 0>>, <<Product(n), Product(n), 0>>) :
             n \in Counts}
    \cup {Ioctl("cs", <<n, n, d + lost>>, <<Product(n), n, d>>) :
             n \in 1..Wrap + MaxChunks + 1, d \in 0..MaxData + 1,
             lost \in {0, Wrap}}

(* The struct and the parts up to the nth.                                 *)
Upto(r, n) == Header + (IF n >= 1 THEN r.parts[1] ELSE 0)
                     + (IF n >= 2 THEN r.parts[2] ELSE 0)
                     + (IF n >= 3 THEN r.parts[3] ELSE 0)

TooLong(r) == r.kind \in ArrayKinds /\ (r.parts[1] > Max \/ r.parts[2] > Max)
TooMany(r) == r.kind = "cs" /\ r.counts[1] > MaxChunks
TooMuch(r) == r.kind = "cs" /\ r.parts[3] > MaxData

NoReply == [len |-> 0, served |-> FALSE]

TypeOK ==
  /\ phase \in {"idle", "asked", "retry", "forwarded", "answered", "faulted"}
  /\ req \in Requests
  /\ {inSize, outSize} \subseteq {0} \cup {Upto(req, n) : n \in 0..3}
  /\ reply \in [len : Nat, served : BOOLEAN]

Init == /\ phase = "idle"
        /\ req = Ioctl("bare", Plain, Plain)
        /\ inSize = 0 /\ outSize = 0
        /\ reply = NoReply

-----------------------------------------------------------------------------
(* The kernel's side: the ioctl, the copying for a retry, and its end.     *)
Ask ==
  /\ phase = "idle"
  /\ \E r \in Requests : req' = r
  /\ phase' = "asked"
  /\ inSize' = 0 /\ outSize' = 0 /\ reply' = NoReply

Fetch ==
  /\ phase = "retry"
  /\ phase' = "asked"
  /\ UNCHANGED <<req, inSize, outSize, reply>>

(* The memory is not there, or more than the kernel copies.                *)
Fault ==
  /\ phase = "retry"
  /\ phase' = "faulted"
  /\ UNCHANGED <<req, inSize, outSize, reply>>

Return ==
  /\ phase \in {"answered", "faulted"}
  /\ phase' = "idle"
  /\ UNCHANGED <<req, inSize, outSize, reply>>

-----------------------------------------------------------------------------
(* What the parsers call.                                                  *)

Retry(in, out) ==
  /\ phase' = "retry"
  /\ inSize' = in /\ outSize' = out
  /\ UNCHANGED <<req, reply>>

Answer(len, served) ==
  /\ phase' = "answered"
  /\ reply' = [len |-> len, served |-> served]
  /\ UNCHANGED <<req, inSize, outSize>>

(* The reply carries what came with the ioctl, whatever is expected.       *)
ReturnError == Answer(inSize, FALSE)

Forward ==
  /\ phase' = "forwarded"
  /\ UNCHANGED <<req, inSize, outSize, reply>>

(* ioctls_modeset: a page flip is refused, and so is everything once the   *)
(* library has gone or cannot be sent to.                                  *)
Modeset == \/ req.kind # "flip" /\ Forward
           \/ ReturnError

Render(len) == Answer(len, TRUE)

Handles(kinds) == phase = "asked" /\ req.kind \in kinds

-----------------------------------------------------------------------------
(* The parsers.                                                            *)
ParseBare == Handles({"bare"}) /\ Modeset

ParseUnknown == Handles({"unknown"}) /\ ReturnError

ParseModesetStruct ==
  /\ Handles({"struct", "flip"})
  /\ \/ 0 \in {inSize, outSize} /\ Retry(Header, Header)
     \/ 0 \notin {inSize, outSize} /\ Modeset

ParseRenderStruct ==
  /\ Handles({"render"})
  /\ \/ 0 \in {inSize, outSize} /\ Retry(Header, Header)
     \/ 0 \notin {inSize, outSize} /\ Render(inSize)

ParseValue ==
  /\ Handles({"value"})
  /\ \/ inSize = 0 /\ Retry(Header, 0)
     \/ /\ inSize > 0
        /\ inSize = Header \/ outSize = 0
        /\ Retry(Upto(req, 1), Upto(req, 1))
     \/ inSize > Header /\ outSize > 0 /\ Render(inSize)

(* checkpoint_1: all of the memory, to be read and written, if the buffers *)
(* of the library can hold it.                                             *)
AskForArrays ==
  \/ TooLong(req) /\ ReturnError
  \/ ~TooLong(req) /\ Retry(Upto(req, 2), Upto(req, 2))

(* A bug to catch: outsize is not looked at.                               *)
ArraysMissingUnlessFirst == req.parts[1] # 0 /\ inSize = Header

(* Only the first array is looked for: when it is empty, outsize tells the *)
(* second call from the third.                                             *)
ArraysMissing == \/ req.parts[1] # 0 /\ inSize = Header
                 \/ outSize = 0

ParseArrays ==
  /\ Handles(ArrayKinds)
  /\ \/ inSize = 0 /\ Retry(Header, 0)
     \/ inSize > 0 /\ ArraysMissing /\ AskForArrays
     \/ inSize > 0 /\ ~ArraysMissing /\ Modeset

(* A bug to catch: last_retry is not set.                                  *)
CheckpointReadonly(n) == Retry(Upto(req, n), 0)

(* checkpoint_1 to checkpoint_3 of parse_drm_ioctl_radeon_cs.  Only the    *)
(* struct is written back.                                                 *)
Checkpoint(n) == Retry(Upto(req, n), IF n = 3 THEN Header ELSE 0)

(* The nth part is not empty and has not come with the request.  It is the *)
(* number of chunks that is looked at, not the length of the pointers.     *)
Missing(n) ==
  /\ inSize = Upto(req, n - 1)
  /\ IF n = 3 THEN req.parts[3] # 0 ELSE req.counts[n] # 0

(* A bug to catch: len0 where the kernel expects the struct only.          *)
CsReplyAll == inSize

CsReply == Header

(* The pointers, their number, the chunks, the data and its size are       *)
(* looked at in this order.                                                *)
ParseCs ==
  /\ Handles({"cs"})
  /\ \/ inSize = 0 /\ Retry(Header, 0)
     \/ /\ inSize > 0
        /\ \/ Missing(1) /\ Checkpoint(1)
           \/ ~Missing(1) /\ TooMany(req) /\ ReturnError
           \/ /\ ~Missing(1) /\ ~TooMany(req)
              /\ \/ Missing(2) /\ Checkpoint(2)
                 \/ ~Missing(2) /\ Missing(3) /\ Checkpoint(3)
                 \/ ~Missing(2) /\ ~Missing(3) /\ TooMuch(req) /\ ReturnError
                 \/ /\ ~Missing(2) /\ ~Missing(3) /\ ~TooMuch(req)
                    /\ IF outSize = 0 THEN Checkpoint(3) ELSE Render(CsReply)

(* The library's response: with all of the memory, if it fits the buffers  *)
(* on both ends of the socket, or of another length, which is made an      *)
(* error of the right length.                                              *)
Respond ==
  /\ phase = "forwarded"
  /\ \/ inSize <= Room /\ Answer(inSize, TRUE)
     \/ ReturnError

Parse == \/ ParseBare \/ ParseUnknown
         \/ ParseModesetStruct \/ ParseRenderStruct
         \/ ParseValue \/ ParseArrays \/ ParseCs

Next == Ask \/ Fetch \/ Fault \/ Return \/ Parse \/ Respond

(* The kernel and the master go on; the process may rest.  The library     *)
(* goes on unless it got more than its buffer holds: then the parser runs  *)
(* past the end of arg[], and may not come back.                           *)
Spec == Init /\ [][Next]_vars /\ WF_vars(Fetch \/ Fault) /\ WF_vars(Parse)
             /\ WF_vars(inSize <= ArgRoom /\ Respond)
-----------------------------------------------------------------------------
Served == \/ phase = "forwarded"
          \/ phase = "answered" /\ reply.served

Oversize(r) == TooLong(r) \/ TooMany(r) \/ TooMuch(r)

(* The pointers to the chunks are asked for and their length comes out as  *)
(* zero.                                                                   *)
Circular(r) == r.kind = "cs" /\ r.counts[1] # 0 /\ r.parts[1] = 0

(* What the struct says it points to, as opposed to what the products say. *)
Whole(r) == Header + r.counts[1] + r.counts[2] + r.counts[3]

(* Some count is so large that a product loses 2^32.                       *)
Wraps(r) == \E n \in 1..3 : r.counts[n] >= Wrap

(* An ioctl is forwarded or rendered with all of its memory, as laid out   *)
(* for its kind: what the parsers of lib/ioctls.c and the copies for the   *)
(* card will read.  Empty arrays must not be taken for missing ones, nor   *)
(* missing ones for empty (ioctls.c:83, "name_len != 0 && len == 0").      *)
(* What does not fit the buffers of master and library is not handled, at  *)
(* whichever call it shows (return_error, err).  The one exception: a      *)
(* count whose product wraps to a length within the limits passes for that *)
(* length, and the ioctl is handled with less than it points to            *)
(* (ioctls.c:131, 141).                                                    *)
HandledWhole ==
  Served => /\ inSize = IF req.kind = "bare" THEN 0 ELSE Upto(req, 3)
            /\ req.kind = "bare" \/ inSize = Whole(req) \/ Wraps(req)
            /\ ~Oversize(req)

(* The reply to any other ioctl is as long as the kernel expects in that   *)
(* call ("they must be correct", card.c:1527).                             *)
RepliesFit ==
  (phase = "answered" /\ ~Oversize(req)) => reply.len = outSize

(* A retry asks for more than the last one did, so that nobody is sent in  *)
(* circles, but for pointers to chunks whose length wraps to zero: they    *)
(* are asked for again and again (ioctls.c:784 and 876; the number of      *)
(* chunks is checked later, at 787).                                       *)
RetriesGrow ==
  [][(phase = "asked" /\ phase' = "retry") =>
       /\ inSize' >= inSize /\ outSize' >= outSize
       /\ <<inSize', outSize'>> = <<inSize, outSize>> => Circular(req)]_vars

(* What the library cannot read whole.                                     *)
Overruns(r) == r.kind \in ArrayKinds /\ ~TooLong(r) /\ Upto(r, 3) > ArgRoom

(* Every other ioctl comes to an end, after however many calls: but for    *)
(* the pointers whose length wraps to zero, and for what is too long for   *)
(* the library, which gets no answer if the library does not survive it.   *)
EveryIoctlEnds ==
  (phase = "asked" /\ ~Circular(req) /\ ~Overruns(req))
    ~> phase \in {"answered", "faulted"}
=============================================================================
