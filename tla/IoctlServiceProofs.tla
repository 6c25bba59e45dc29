-------------------------- MODULE IoctlServiceProofs --------------------------
(***************************************************************************)
(* What is proved of an ioctl, for any limit of the parsers, any counts    *)
(* whose products wrap or do not, and any number of elements.  First of    *)
(* the retry protocol: the two sizes of a call say which round it is, and  *)
(* so what has been checked and what has come.  Then of the arrays:        *)
(* through all the cutting up and putting back each process gets its own   *)
(* elements, each in its place.                                            *)
(***************************************************************************)
EXTENDS IoctlService, SequenceTheorems, TLAPS

SafeSpec == Init /\ [][Next]_vars

(* The sizes the kernel can pass on, round by round.                       *)
InRound(r, in, out) ==
  \/ in = 0 /\ out = 0
  \/ in = Header /\ out = 0 /\ r.kind \in ArrayKinds \cup {"value", "cs"}
  \/ in = Header /\ out = Header /\ r.kind \in {"struct", "flip", "render"}
  \/ in = Upto(r, 1) /\ out = Upto(r, 1) /\ r.kind = "value"
  \/ in = Upto(r, 2) /\ out = Upto(r, 2) /\ r.kind \in ArrayKinds
  \/ in \in {Upto(r, 1), Upto(r, 2)} /\ out = 0 /\ r.kind = "cs"
  \/ in = Upto(r, 3) /\ out = Header /\ r.kind = "cs"

StateOK == /\ phase \in {"idle", "asked", "retry", "forwarded", "answered", "faulted"}
           /\ req \in Requests
           /\ reply \in [len : Nat, served : BOOLEAN]
           /\ InRound(req, inSize, outSize)

(* What has been checked by that round.                                    *)
Checked == /\ TooLong(req) => outSize = 0
           /\ TooMany(req) => outSize = 0 /\ inSize <= Upto(req, 1)

Forwarded == phase = "forwarded" => outSize = inSize

IInv == StateOK /\ Checked /\ Forwarded
          /\ HandledWhole /\ RepliesFit

Grows == (phase = "asked" /\ phase' = "retry") =>
           /\ inSize' >= inSize /\ outSize' >= outSize
           /\ <<inSize', outSize'>> = <<inSize, outSize>> => Circular(req)

-----------------------------------------------------------------------------
LEMMA ProductIs ==
  ASSUME NEW n \in Nat
  PROVE  /\ Product(n) \in Nat /\ Product(n) <= n
         /\ n < Wrap => Product(n) = n
<1>1. Wrap \in Nat /\ Wrap > 0
  BY RetryAssumption
<1> QED
  BY <1>1 DEF Product

Small == {"bare", "struct", "flip", "render", "unknown"}

LEMMA RequestShape ==
  ASSUME NEW r \in Requests
  PROVE  /\ r.kind \in Small \cup ArrayKinds \cup {"value", "cs"}
         /\ r.counts[1] \in Nat /\ r.counts[2] \in Nat /\ r.counts[3] \in Nat
         /\ r.parts[1] \in Nat /\ r.parts[2] \in Nat /\ r.parts[3] \in Nat
         /\ r.kind \in Small =>
              /\ r.parts[1] = 0 /\ r.parts[2] = 0 /\ r.parts[3] = 0
              /\ r.counts[1] = 0 /\ r.counts[2] = 0 /\ r.counts[3] = 0
         /\ r.kind = "value" =>
              /\ r.parts[1] = 1 /\ r.parts[2] = 0 /\ r.parts[3] = 0
              /\ r.counts[1] = 1 /\ r.counts[2] = 0 /\ r.counts[3] = 0
         /\ r.kind \in ArrayKinds =>
              /\ r.parts[1] = Product(r.counts[1])
              /\ r.parts[2] = Product(r.counts[2])
              /\ r.parts[3] = 0 /\ r.counts[3] = 0
         /\ r.kind = "cs" =>
              /\ r.parts[1] = Product(r.counts[1])
              /\ r.parts[2] = r.counts[1] /\ r.counts[2] = r.counts[1]
              /\ r.counts[3] < Wrap => r.parts[3] = r.counts[3]
              /\ r.counts[1] = 0 => r.parts[3] = 0
<1>0. /\ Max \in Nat /\ MaxChunks \in Nat /\ MaxData \in Nat /\ Wrap \in Nat
      /\ Max + 1 < Wrap /\ Wrap > 0
  BY RetryAssumption
<1>1. Product(0) = 0 /\ Product(0) \in Nat
  BY <1>0, ProductIs
<1>2. CASE r \in {Ioctl(kind, Plain, Plain) : kind \in Small \cup {"cs"}}
  BY <1>0, <1>1, <1>2 DEF Ioctl, Plain, Small, ArrayKinds
<1>3. CASE r = Ioctl("value", <<1, 0, 0>>, <<1, 0, 0>>)
  BY <1>3 DEF Ioctl, Small, ArrayKinds
<1>4. CASE r \in {Ioctl("strings", <<m, n, 0>>, <<m, n, 0>>) :
                     m \in 0..Max + 1, n \in 0..Max + 1}
  <2> DEFINE Lengths == 0..Max + 1
  <2>0. r \in {Ioctl("strings", <<m, n, 0>>, <<m, n, 0>>) : m \in Lengths, n \in Lengths}
    BY <1>4
  <2> HIDE DEF Lengths
  <2>1. PICK m \in Lengths, n \in Lengths :
          r = Ioctl("strings", <<m, n, 0>>, <<m, n, 0>>)
    BY <2>0
  <2>2. m \in Nat /\ n \in Nat /\ Product(m) = m /\ Product(n) = n
    BY <1>0, ProductIs DEF Lengths
  <2> QED
    BY <2>1, <2>2 DEF Ioctl, Small, ArrayKinds
<1>5. CASE r \in {Ioctl("arrays", <<m, n, 0>>, <<Product(m), Product(n), 0>>) :
                     m \in Counts, n \in Counts}
  <2>1. PICK m \in Counts, n \in Counts :
          r = Ioctl("arrays", <<m, n, 0>>, <<Product(m), Product(n), 0>>)
    BY <1>5
  <2>2. m \in Nat /\ n \in Nat /\ Product(m) \in Nat /\ Product(n) \in Nat
    BY <1>0, ProductIs DEF Counts
  <2> QED
    BY <2>1, <2>2 DEF Ioctl, Small, ArrayKinds
<1>6. CASE r \in {Ioctl("shared", <<n, n, 0>>, <<Product(n), Product(n), 0>>) :
                     n \in Counts}
  <2>1. PICK n \in Counts :
          r = Ioctl("shared", <<n, n, 0>>, <<Product(n), Product(n), 0>>)
    BY <1>6
  <2>2. n \in Nat /\ Product(n) \in Nat
    BY <1>0, ProductIs DEF Counts
  <2> QED
    BY <2>1, <2>2 DEF Ioctl, Small, ArrayKinds
<1>7. CASE r \in {Ioctl("cs", <<n, n, d + lost>>, <<Product(n), n, d>>) :
                     n \in 1..Wrap + MaxChunks + 1, d \in 0..MaxData + 1,
                     lost \in {0, Wrap}}
  <2>1. PICK n \in 1..Wrap + MaxChunks + 1, d \in 0..MaxData + 1, lost \in {0, Wrap} :
          r = Ioctl("cs", <<n, n, d + lost>>, <<Product(n), n, d>>)
    BY <1>7
  <2>2. /\ n \in Nat /\ n # 0 /\ Product(n) \in Nat /\ d \in Nat
        /\ d + lost \in Nat /\ (d + lost < Wrap => d + lost = d)
    BY <1>0, ProductIs
  <2> DEFINE sum == d + lost
  <2>4. r = Ioctl("cs", <<n, n, sum>>, <<Product(n), n, d>>)
    BY <2>1
  <2>5. sum \in Nat /\ (sum < Wrap => sum = d)
    BY <2>2
  <2> HIDE DEF sum
  <2>6. /\ r.kind = "cs"
        /\ r.counts[1] = n /\ r.counts[2] = n /\ r.counts[3] = sum
        /\ r.parts[1] = Product(n) /\ r.parts[2] = n /\ r.parts[3] = d
    BY <2>4 DEF Ioctl
  <2> QED
    BY <2>2, <2>5, <2>6 DEF Small, ArrayKinds
<1> QED
  BY <1>2, <1>3, <1>4, <1>5, <1>6, <1>7 DEF Requests, Small

LEMMA UptoIs ==
  ASSUME NEW r
  PROVE  /\ Upto(r, 0) = Header + 0 + 0 + 0
         /\ Upto(r, 1) = Header + r.parts[1] + 0 + 0
         /\ Upto(r, 2) = Header + r.parts[1] + r.parts[2] + 0
         /\ Upto(r, 3) = Header + r.parts[1] + r.parts[2] + r.parts[3]
BY DEF Upto

(* Where no product wraps, the parts are what the struct says.             *)
LEMMA WholeUnlessWraps ==
  ASSUME NEW r \in Requests, ~Wraps(r)
  PROVE  Upto(r, 3) = Whole(r)
<1>1. r.counts[1] < Wrap /\ r.counts[2] < Wrap /\ r.counts[3] < Wrap
  BY RequestShape, RetryAssumption DEF Wraps
<1>2. /\ r.parts[1] = r.counts[1] /\ r.parts[2] = r.counts[2]
      /\ r.parts[3] = r.counts[3]
  BY <1>1, RequestShape, ProductIs
<1>3. r.counts[1] \in Nat /\ r.counts[2] \in Nat /\ r.counts[3] \in Nat
  BY RequestShape
<1> QED
  BY <1>2, <1>3, UptoIs DEF Whole, Header

(* The rounds of a request are among the sizes TypeOK allows.              *)
LEMMA RoundsAreSizes ==
  ASSUME NEW r \in Requests, NEW i, NEW o, InRound(r, i, o)
  PROVE  /\ {i, o} \subseteq {0} \cup {Upto(r, n) : n \in 0..3}
         /\ i \in Nat /\ o \in Nat
<1>1. Upto(r, 0) = Header
  BY UptoIs DEF Header
<1>2. \A n \in 0..3 : Upto(r, n) \in {Upto(r, m) : m \in 0..3}
  OBVIOUS
<1>3. {Upto(r, 0), Upto(r, 1), Upto(r, 2), Upto(r, 3)} \subseteq {Upto(r, n) : n \in 0..3}
  BY <1>2
<1>4. {i, o} \subseteq {0, Upto(r, 0), Upto(r, 1), Upto(r, 2), Upto(r, 3)}
  BY <1>1, RequestShape DEF InRound
<1>5. {0, Upto(r, 0), Upto(r, 1), Upto(r, 2), Upto(r, 3)} \subseteq Nat
  BY UptoIs, RequestShape DEF Header
<1> QED
  BY <1>3, <1>4, <1>5

LEMMA InitIInv == Init => IInv
<1>1. Ioctl("bare", Plain, Plain) \in Requests
  BY DEF Requests
<1>2. Init => ~Oversize(req) /\ ~TooLong(req) /\ ~TooMany(req)
  BY DEF Init, Ioctl, Oversize, TooLong, TooMany, TooMuch, ArrayKinds
<1> QED
  BY <1>1, <1>2 DEF Init, IInv, StateOK, Checked, Forwarded, HandledWhole,
     RepliesFit, Served, InRound, NoReply

-----------------------------------------------------------------------------
(* What the master does to a request: a retry, an error, an answer.        *)
LEMMA RetryKeeps ==
  ASSUME IInv, NEW in, NEW out, Retry(in, out), InRound(req, in, out),
         TooLong(req) => out = 0,
         TooMany(req) => out = 0 /\ in <= Upto(req, 1)
  PROVE  IInv'
BY DEF IInv, StateOK, Checked, Forwarded, HandledWhole,
       RepliesFit, Served, Retry, InRound, Upto, TooLong, TooMany

LEMMA AnswerKeeps ==
  ASSUME IInv, NEW len \in Nat, NEW served \in BOOLEAN, Answer(len, served),
         Oversize(req) \/ len = outSize,
         served => /\ ~Oversize(req)
                   /\ inSize = IF req.kind = "bare" THEN 0 ELSE Upto(req, 3)
  PROVE  IInv'
<1>1. served => req.kind = "bare" \/ inSize = Whole(req) \/ Wraps(req)
  BY WholeUnlessWraps DEF IInv, StateOK
<1> QED
  BY <1>1 DEF IInv, StateOK, Checked, Forwarded, HandledWhole,
       RepliesFit, Served, Answer, InRound, Upto, TooLong, TooMany, Oversize, TooMuch,
     Whole, Wraps

LEMMA ForwardKeeps ==
  ASSUME IInv, Forward, inSize = outSize, ~Oversize(req),
         inSize = IF req.kind = "bare" THEN 0 ELSE Upto(req, 3)
  PROVE  IInv'
<1>1. req.kind = "bare" \/ inSize = Whole(req) \/ Wraps(req)
  BY WholeUnlessWraps DEF IInv, StateOK
<1> QED
  BY <1>1 DEF IInv, StateOK, Checked, Forwarded, HandledWhole,
       RepliesFit, Served, Forward, InRound, Upto, TooLong, TooMany, Oversize, TooMuch,
     Whole, Wraps

(* A parser that hands an ioctl to ioctls_modeset must have all of it.     *)
LEMMA ModesetKeeps ==
  ASSUME IInv, Modeset, inSize = outSize, ~Oversize(req),
         inSize = IF req.kind = "bare" THEN 0 ELSE Upto(req, 3)
  PROVE  IInv'
<1>1. CASE Forward
  BY <1>1, ForwardKeeps
<1>2. inSize \in Nat
  BY RoundsAreSizes DEF IInv, StateOK
<1>3. CASE ReturnError
  BY <1>2, <1>3, AnswerKeeps DEF ReturnError
<1> QED
  BY <1>1, <1>3 DEF Modeset

-----------------------------------------------------------------------------
(* One lemma per parser: it keeps the invariant, and asks for more.        *)
LEMMA ReqFacts ==
  ASSUME IInv
  PROVE  /\ req \in Requests /\ inSize \in Nat /\ outSize \in Nat
         /\ InRound(req, inSize, outSize)
         /\ TooLong(req) => outSize = 0
         /\ TooMany(req) => outSize = 0 /\ inSize <= Upto(req, 1)
BY RoundsAreSizes DEF IInv, StateOK, Checked

LEMMA NoRetryGrows ==
  ASSUME phase' # "retry"
  PROVE  Grows
BY DEF Grows

LEMMA SmallParsers ==
  ASSUME IInv, ParseBare \/ ParseUnknown
  PROVE  IInv' /\ Grows
<1>1. CASE ParseBare
  <2>1. req.kind = "bare" /\ Modeset
    BY <1>1 DEF ParseBare, Handles
  <2>2. inSize = 0 /\ outSize = 0 /\ ~Oversize(req)
    BY <2>1, ReqFacts DEF InRound, Oversize, TooLong, TooMany, TooMuch, ArrayKinds
  <2>3. IInv'
    BY <2>1, <2>2, ModesetKeeps
  <2>4. phase' # "retry"
    BY <2>1 DEF Modeset, Forward, ReturnError, Answer
  <2> QED
    BY <2>3, <2>4, NoRetryGrows
<1>2. CASE ParseUnknown
  <2>1. req.kind = "unknown" /\ Answer(inSize, FALSE)
    BY <1>2 DEF ParseUnknown, Handles, ReturnError
  <2>2. inSize = 0 /\ outSize = 0
    BY <2>1, ReqFacts DEF InRound, ArrayKinds
  <2>3. IInv'
    BY <2>1, <2>2, AnswerKeeps
  <2>4. phase' # "retry"
    BY <2>1 DEF Answer
  <2> QED
    BY <2>3, <2>4, NoRetryGrows
<1> QED
  BY <1>1, <1>2

LEMMA StructParser ==
  ASSUME IInv, ParseModesetStruct \/ ParseRenderStruct
  PROVE  IInv' /\ Grows
<1>1. req.kind \in {"struct", "flip", "render"}
  BY DEF ParseModesetStruct, ParseRenderStruct, Handles
<1>2. ~Oversize(req) /\ ~TooLong(req) /\ ~TooMany(req)
  BY <1>1 DEF Oversize, TooLong, TooMany, TooMuch, ArrayKinds
<1>3. CASE 0 \in {inSize, outSize} /\ Retry(Header, Header)
  <2>1. InRound(req, Header, Header)
    BY <1>1 DEF InRound
  <2>2. IInv'
    BY <1>2, <1>3, <2>1, RetryKeeps
  <2>3. Grows
    BY <1>1, <1>3, ReqFacts DEF Grows, Retry, InRound, Header, ArrayKinds
  <2> QED
    BY <2>2, <2>3
<1>4. CASE /\ 0 \notin {inSize, outSize}
           /\ Modeset \/ (req.kind = "render" /\ Render(inSize))
  <2>1. inSize = Header /\ outSize = Header
    BY <1>1, <1>4, ReqFacts DEF InRound, ArrayKinds
  <2>2. Upto(req, 3) = Header
    BY <1>1, ReqFacts, RequestShape, UptoIs DEF Header, Small
  <2>3. Grows
    BY <1>4, NoRetryGrows DEF Render, Modeset, Forward, ReturnError, Answer
  <2>4. CASE req.kind = "render" /\ Render(inSize)
    BY <1>1, <1>2, <2>1, <2>2, <2>3, <2>4, ReqFacts, AnswerKeeps DEF Render
  <2>5. CASE Modeset
    BY <1>1, <1>2, <2>1, <2>2, <2>3, <2>5, ModesetKeeps
  <2> QED
    BY <1>4, <2>4, <2>5
<1> QED
  BY <1>3, <1>4 DEF ParseModesetStruct, ParseRenderStruct, Handles

LEMMA ValueParser ==
  ASSUME IInv, ParseValue
  PROVE  IInv' /\ Grows
<1>1. req.kind = "value"
  BY DEF ParseValue, Handles
<1>2. ~Oversize(req) /\ ~TooLong(req) /\ ~TooMany(req)
  BY <1>1 DEF Oversize, TooLong, TooMany, TooMuch, ArrayKinds
<1>3. Upto(req, 1) = Header + 1 /\ Upto(req, 3) = Header + 1
  BY <1>1, ReqFacts, RequestShape, UptoIs DEF Header
<1>4. CASE inSize = 0 /\ Retry(Header, 0)
  <2>1. InRound(req, Header, 0)
    BY <1>1 DEF InRound
  <2>2. IInv'
    BY <1>2, <1>4, <2>1, RetryKeeps
  <2>3. outSize = 0
    BY <1>1, <1>3, <1>4, ReqFacts DEF InRound, Header, ArrayKinds
  <2>4. Grows
    BY <1>4, <2>3 DEF Grows, Retry, Header
  <2> QED
    BY <2>2, <2>4
<1>5. CASE /\ inSize > 0
           /\ inSize = Header \/ outSize = 0
           /\ Retry(Upto(req, 1), Upto(req, 1))
  <2>1. InRound(req, Upto(req, 1), Upto(req, 1))
    BY <1>1 DEF InRound
  <2>2. IInv'
    BY <1>2, <1>5, <2>1, RetryKeeps
  <2>3. inSize = Header /\ outSize = 0
    BY <1>1, <1>3, <1>5, ReqFacts DEF InRound, Header, ArrayKinds
  <2>4. Grows
    BY <1>3, <1>5, <2>3 DEF Grows, Retry, Header
  <2> QED
    BY <2>2, <2>4
<1>6. CASE inSize > Header /\ outSize > 0 /\ Render(inSize)
  <2>1. inSize = Upto(req, 3) /\ outSize = inSize
    BY <1>1, <1>3, <1>6, ReqFacts DEF InRound, Header, ArrayKinds
  <2>2. IInv'
    BY <1>1, <1>2, <1>6, <2>1, ReqFacts, AnswerKeeps DEF Render
  <2>3. phase' # "retry"
    BY <1>6 DEF Render, Answer
  <2> QED
    BY <2>2, <2>3, NoRetryGrows
<1> QED
  BY <1>4, <1>5, <1>6 DEF ParseValue

LEMMA ArraysParser ==
  ASSUME IInv, ParseArrays
  PROVE  IInv' /\ Grows
<1>1. req.kind \in ArrayKinds /\ req.kind \notin {"bare", "cs", "value"} \cup Small
  BY DEF ParseArrays, Handles, ArrayKinds, Small
<1>2. ~TooMany(req) /\ (Oversize(req) <=> TooLong(req))
  BY <1>1 DEF Oversize, TooMany, TooMuch
<1>3. Upto(req, 2) = Header + req.parts[1] + req.parts[2]
      /\ Upto(req, 3) = Upto(req, 2)
  BY <1>1, ReqFacts, RequestShape, UptoIs DEF Header
<1>4. CASE inSize = 0 /\ Retry(Header, 0)
  <2>1. InRound(req, Header, 0)
    BY <1>1 DEF InRound
  <2>2. IInv'
    BY <1>2, <1>4, <2>1, RetryKeeps
  <2>3. outSize = 0
    BY <1>1, <1>3, <1>4, ReqFacts, RequestShape DEF InRound, Header, Small
  <2>4. Grows
    BY <1>4, <2>3 DEF Grows, Retry, Header
  <2> QED
    BY <2>2, <2>4
<1>5. CASE inSize > 0 /\ ArraysMissing /\ AskForArrays
  <2>1. outSize = 0 /\ inSize = Header
    BY <1>1, <1>3, <1>5, ReqFacts, RequestShape DEF InRound, Header, Small, ArraysMissing
  <2>2. CASE TooLong(req) /\ ReturnError
    <3>1. IInv'
      BY <1>2, <2>2, ReqFacts, AnswerKeeps DEF ReturnError
    <3>2. Grows
      BY <2>2, NoRetryGrows DEF ReturnError, Answer
    <3> QED
      BY <3>1, <3>2
  <2>3. CASE ~TooLong(req) /\ Retry(Upto(req, 2), Upto(req, 2))
    <3>1. InRound(req, Upto(req, 2), Upto(req, 2))
      BY <1>1 DEF InRound
    <3>2. IInv'
      BY <1>2, <2>3, <3>1, RetryKeeps
    <3>3. Grows
      BY <1>3, <2>1, <2>3, ReqFacts, RequestShape DEF Grows, Retry, Header
    <3> QED
      BY <3>2, <3>3
  <2> QED
    BY <1>5, <2>2, <2>3 DEF AskForArrays
<1>6. CASE inSize > 0 /\ ~ArraysMissing /\ Modeset
  <2>1. outSize # 0
    BY <1>6 DEF ArraysMissing
  <2>2. inSize = Upto(req, 3) /\ outSize = inSize /\ ~Oversize(req)
    BY <1>1, <1>2, <1>3, <2>1, ReqFacts DEF InRound, Small
  <2>3. IInv'
    BY <1>1, <1>6, <2>2, ModesetKeeps
  <2>4. Grows
    BY <1>6, NoRetryGrows DEF Modeset, Forward, ReturnError, Answer
  <2> QED
    BY <2>3, <2>4
<1> QED
  BY <1>4, <1>5, <1>6 DEF ParseArrays

LEMMA CsParser ==
  ASSUME IInv, ParseCs
  PROVE  IInv' /\ Grows
<1>1. req.kind = "cs" /\ ~TooLong(req) /\ (Oversize(req) <=> TooMany(req) \/ TooMuch(req))
  BY DEF ParseCs, Handles, Oversize, TooLong, ArrayKinds
<1>2. /\ req.parts[1] \in Nat /\ req.parts[2] \in Nat /\ req.parts[3] \in Nat
      /\ req.counts[1] = req.parts[2] /\ req.counts[2] = req.parts[2]
      /\ req.counts[1] = 0 => req.parts[1] = 0 /\ req.parts[3] = 0
      /\ ~TooMany(req) => req.parts[1] = req.parts[2]
  <2>1. req \in Requests /\ MaxChunks \in Nat /\ Wrap \in Nat /\ MaxChunks < Wrap
    BY ReqFacts, RetryAssumption
  <2>2. /\ req.counts[1] \in Nat
        /\ req.parts[1] \in Nat /\ req.parts[2] \in Nat /\ req.parts[3] \in Nat
        /\ req.parts[1] = Product(req.counts[1])
        /\ req.counts[1] = req.parts[2] /\ req.counts[2] = req.parts[2]
        /\ req.counts[1] = 0 => req.parts[3] = 0
    BY <1>1, <2>1, RequestShape
  <2>3. req.counts[1] < Wrap => req.parts[1] = req.counts[1]
    BY <2>2, ProductIs
  <2>4. ~TooMany(req) => req.counts[1] < Wrap
    BY <1>1, <2>1, <2>2 DEF TooMany
  <2>5. req.counts[1] = 0 => req.counts[1] < Wrap
    BY <2>1
  <2> QED
    BY <2>2, <2>3, <2>4, <2>5
<1>3. /\ Upto(req, 0) = 1
      /\ Upto(req, 1) = 1 + req.parts[1]
      /\ Upto(req, 2) = 1 + req.parts[1] + req.parts[2]
      /\ Upto(req, 3) = 1 + req.parts[1] + req.parts[2] + req.parts[3]
  BY <1>2, UptoIs DEF Header
<1>4. \/ inSize \in {0, 1, Upto(req, 1), Upto(req, 2)} /\ outSize = 0
      \/ inSize = Upto(req, 3) /\ outSize = 1
  BY <1>1, ReqFacts DEF InRound, Header, ArrayKinds
<1>5. CASE inSize = 0 /\ Retry(Header, 0)
  <2>1. InRound(req, Header, 0)
    BY <1>1 DEF InRound
  <2>2. IInv'
    BY <1>1, <1>2, <1>3, <1>5, <2>1, RetryKeeps DEF Header
  <2>3. Grows
    BY <1>2, <1>3, <1>4, <1>5 DEF Grows, Retry, Header
  <2> QED
    BY <2>2, <2>3
<1>6. CASE inSize > 0 /\ Missing(1) /\ Checkpoint(1)
  <2>1. inSize = 1 /\ outSize = 0 /\ req.counts[1] # 0
    BY <1>2, <1>3, <1>4, <1>6 DEF Missing
  <2>2. InRound(req, Upto(req, 1), 0) /\ Retry(Upto(req, 1), 0)
    BY <1>1, <1>6 DEF InRound, Checkpoint
  <2>3. IInv'
    BY <1>1, <1>2, <1>3, <2>2, RetryKeeps
  <2>4. Grows
    BY <1>1, <1>2, <1>3, <2>1, <2>2 DEF Grows, Retry, Circular
  <2> QED
    BY <2>3, <2>4
<1>7. CASE ReturnError /\ Oversize(req)
  <2>1. IInv'
    BY <1>7, ReqFacts, AnswerKeeps DEF ReturnError
  <2>2. Grows
    BY <1>7, NoRetryGrows DEF ReturnError, Answer
  <2> QED
    BY <2>1, <2>2
<1>8. CASE inSize > 0 /\ ~TooMany(req) /\ ~Missing(1) /\ Missing(2) /\ Checkpoint(2)
  <2>1. inSize = Upto(req, 1) /\ outSize = 0 /\ req.parts[1] > 0
    BY <1>2, <1>3, <1>4, <1>8 DEF Missing
  <2>2. InRound(req, Upto(req, 2), 0) /\ Retry(Upto(req, 2), 0)
    BY <1>1, <1>8 DEF InRound, Checkpoint
  <2>3. IInv'
    BY <1>1, <1>8, <2>2, RetryKeeps
  <2>4. Grows
    BY <1>2, <1>3, <2>1, <2>2 DEF Grows, Retry
  <2> QED
    BY <2>3, <2>4
<1>9. CASE /\ inSize > 0 /\ ~TooMany(req) /\ ~Missing(1) /\ ~Missing(2)
           /\ Missing(3) \/ outSize = 0
           /\ Checkpoint(3)
  <2>1. inSize = Upto(req, 2) /\ outSize = 0
    BY <1>2, <1>3, <1>4, <1>9 DEF Missing
  <2>2. InRound(req, Upto(req, 3), Header) /\ Retry(Upto(req, 3), Header)
    BY <1>1, <1>9 DEF InRound, Checkpoint
  <2>3. IInv'
    BY <1>1, <1>9, <2>2, RetryKeeps
  <2>4. Grows
    BY <1>2, <1>3, <2>1, <2>2 DEF Grows, Retry, Header
  <2> QED
    BY <2>3, <2>4
<1>10. CASE outSize # 0 /\ ~Oversize(req) /\ Render(CsReply)
  <2>1. inSize = Upto(req, 3) /\ outSize = Header
    BY <1>4, <1>10 DEF Header
  <2>2. IInv'
    BY <1>1, <1>10, <2>1, AnswerKeeps DEF Render, CsReply, Header
  <2>3. Grows
    BY <1>10, NoRetryGrows DEF Render, Answer
  <2> QED
    BY <2>2, <2>3
<1> QED
  BY <1>1, <1>5, <1>6, <1>7, <1>8, <1>9, <1>10 DEF ParseCs

-----------------------------------------------------------------------------
(* The other steps neither check nor retry.                                *)
LEMMA OtherSteps ==
  ASSUME IInv, Ask \/ Fetch \/ Fault \/ Return \/ Respond \/ UNCHANGED vars
  PROVE  IInv' /\ Grows
<1>1. CASE Ask
  <2>1. /\ phase' = "asked" /\ req' \in Requests /\ reply' = NoReply
        /\ inSize' = 0 /\ outSize' = 0
    BY <1>1 DEF Ask
  <2>2. StateOK' /\ Forwarded' /\ HandledWhole' /\ RepliesFit' /\ Grows
    BY <2>1 DEF StateOK, Forwarded, HandledWhole, RepliesFit, Served, InRound, Grows,
       NoReply
  <2>3. Upto(req', 1) \in Nat
    BY <2>1, RequestShape, UptoIs DEF Header
  <2>4. Checked'
    BY <2>1, <2>3 DEF Checked, Upto, TooMany, TooLong
  <2> QED
    BY <2>2, <2>4 DEF IInv
<1>2. CASE Fetch \/ Fault \/ Return \/ UNCHANGED vars
  BY <1>2 DEF Fetch, Fault, Return, vars, IInv, StateOK, Checked, Forwarded, Grows,
     HandledWhole, RepliesFit, Served, InRound, TooLong, TooMany,
     Upto, Oversize, TooMuch
<1>3. CASE Respond
  <2>1. /\ ~Oversize(req) /\ outSize = inSize
        /\ inSize = IF req.kind = "bare" THEN 0 ELSE Upto(req, 3)
    BY <1>3 DEF Respond, IInv, Forwarded, HandledWhole, Served
  <2>2. Answer(inSize, TRUE) \/ Answer(inSize, FALSE)
    BY <1>3 DEF Respond, ReturnError
  <2>3. IInv'
    BY <2>1, <2>2, ReqFacts, AnswerKeeps
  <2>4. Grows
    BY <2>2, NoRetryGrows DEF Answer
  <2> QED
    BY <2>3, <2>4
<1> QED
  BY <1>1, <1>2, <1>3

LEMMA NextIInv == IInv /\ [Next]_vars => IInv' /\ Grows
<1> SUFFICES ASSUME IInv, [Next]_vars PROVE IInv' /\ Grows
  OBVIOUS
<1>1. CASE Parse
  BY <1>1, SmallParsers, StructParser, ValueParser, ArraysParser, CsParser DEF Parse
<1>2. CASE Ask \/ Fetch \/ Fault \/ Return \/ Respond \/ UNCHANGED vars
  BY <1>2, OtherSteps
<1> QED
  BY <1>1, <1>2 DEF Next

LEMMA Invariant == SafeSpec => []IInv
BY InitIInv, NextIInv, PTL DEF SafeSpec

(* The request, and the two sizes the kernel can pass with it, keep their  *)
(* types in every round (ioctls_retry).                                    *)
THEOREM RetryTypeCorrect == SafeSpec => []TypeOK
<1>1. IInv => TypeOK
  BY RoundsAreSizes DEF IInv, StateOK, TypeOK
<1> QED
  BY <1>1, Invariant, PTL

(* Whatever the lengths of the arrays, empty ones among them, an ioctl is  *)
(* handled with as much memory as the parsers of lib/ioctls.c will take    *)
(* from it, which is all the struct points to unless one of its counts     *)
(* wraps in its product; and one that is longer than the buffers of master *)
(* and library is never handled (return_error, err of radeon_cs).          *)
THEOREM IoctlsAreWhole == SafeSpec => []HandledWhole
<1>1. IInv => HandledWhole
  BY DEF IInv
<1> QED
  BY <1>1, Invariant, PTL

(* A reply is as long as the kernel expects it, unless it refuses what is  *)
(* too long (card.c:1527).                                                 *)
THEOREM RepliesAreExact == SafeSpec => []RepliesFit
<1>1. IInv => RepliesFit
  BY DEF IInv
<1> QED
  BY <1>1, Invariant, PTL

(* No retry asks for less than the one before it, and only one repeats it: *)
(* that for pointers to chunks whose length wraps to zero (checkpoint_1 of *)
(* setuid/ioctls.c).                                                       *)
THEOREM RetriesAskForMore == SafeSpec => RetriesGrow
<1>1. IInv /\ [Next]_vars => [Grows]_vars
  BY NextIInv
<1>2. [][Grows]_vars <=> RetriesGrow
  BY DEF Grows, RetriesGrow
<1> QED
  BY <1>1, <1>2, Invariant, PTL DEF SafeSpec

-----------------------------------------------------------------------------
(* The arrays.                                                             *)

ServiceSafe == ServiceInit /\ [][ServiceNext]_serviceVars

Cell == {"element", "own", "zero", "junk"} \X Nat \X Nat

(* The memory as the process issues the ioctl.                             *)
Fresh(r) == [count |-> <<r.counts[1], r.counts[2]>>,
             array |-> [n \in 1..2 |-> [i \in 1..r.counts[n] |-> Own(n, i)]]]

(* Until there is an answer nobody has touched the memory.                 *)
FreshInv == phase \in {"asked", "retry", "forwarded", "faulted"} => mem = Fresh(req)

(* What the products leave of the counts, within the limits.               *)
Fits(r) == /\ r \in Requests /\ r.kind \in ArrayKinds
           /\ r.parts[1] <= Max /\ r.parts[2] <= Max

(* What a served process finds in its nth array.                           *)
Right(n, r, array) ==
  /\ DOMAIN array = 1..r.counts[n]
  /\ \A i \in 1..r.parts[n] :
       /\ array[i] \in {Own(n, i), Zero, Element(n, i)}
       /\ i <= Have[n] => array[i] = Element(n, i)
       /\ i > Have[n] /\ r.kind # "strings" => array[i] = Own(n, i)
  /\ \A i \in 1..r.counts[n] : i > r.parts[n] => array[i] = Own(n, i)

(* A process is told the lengths of what there is.                         *)
KnownInv == known \subseteq {Have}

ServiceInv == IInv /\ FreshInv /\ KnownInv /\ ArraysAreRight
-----------------------------------------------------------------------------
(* Sequences.                                                              *)

LEMMA CellsAre ==
  /\ \A n, i \in Nat : Element(n, i) \in Cell /\ Own(n, i) \in Cell
  /\ Zero \in Cell /\ Junk \in Cell
BY DEF Cell, Element, Own, Zero, Junk

LEMMA FrontFacts ==
  ASSUME NEW s \in Seq(Cell), NEW k \in 0..Len(s)
  PROVE  /\ SubSeq(s, 1, k) \in Seq(Cell) /\ Len(SubSeq(s, 1, k)) = k
         /\ \A i \in 1..k : SubSeq(s, 1, k)[i] = s[i]
OBVIOUS

(* What is put together is taken apart again.                              *)
LEMMA TakenApart ==
  ASSUME NEW s \in Seq(Cell), NEW t \in Seq(Cell)
  PROVE  /\ SubSeq(s \o t, 1, Len(s)) = s
         /\ SubSeq(s \o t, Len(s) + 1, Len(s) + Len(t)) = t
         /\ s \o t \in Seq(Cell) /\ Len(s \o t) = Len(s) + Len(t)
<1> DEFINE c == s \o t
<1>1. /\ c \in Seq(Cell) /\ Len(c) = Len(s) + Len(t)
      /\ \A i \in 1..(Len(s) + Len(t)) :
           c[i] = IF i <= Len(s) THEN s[i] ELSE t[i - Len(s)]
  BY ConcatProperties
<1>2. Len(s) \in Nat /\ Len(t) \in Nat
  OBVIOUS
<1> HIDE DEF c
<1>3. SubSeq(c, 1, Len(s)) = s
  <2> DEFINE a == SubSeq(c, 1, Len(s))
  <2>1. a \in Seq(Cell) /\ Len(a) = Len(s) /\ \A i \in 1..Len(s) : a[i] = c[i]
    BY <1>1, <1>2, FrontFacts
  <2>2. \A i \in 1..Len(s) : a[i] = s[i]
    BY <2>1, <1>1, <1>2
  <2> HIDE DEF a
  <2>3. a = s
    BY <2>1, <2>2, SeqEqual
  <2> QED
    BY <2>3 DEF a
<1>4. SubSeq(c, Len(s) + 1, Len(s) + Len(t)) = t
  <2> DEFINE b == SubSeq(c, Len(s) + 1, Len(s) + Len(t))
  <2>1. /\ b \in Seq(Cell) /\ Len(b) = Len(t)
        /\ \A i \in 1..Len(t) : b[i] = c[Len(s) + i]
    BY <1>1, <1>2
  <2>2. \A i \in 1..Len(t) : c[Len(s) + i] = t[i]
    BY <1>1, <1>2
  <2> HIDE DEF b
  <2>3. b = t
    BY <2>1, <2>2, SeqEqual
  <2> QED
    BY <2>3 DEF b
<1> QED
  BY <1>1, <1>3, <1>4 DEF c

-----------------------------------------------------------------------------
(* The way of the memory through the parser.                               *)

LEMMA Limits ==
  /\ Max \in Nat
  /\ Have[1] \in 0..Max /\ Have[2] \in 0..Max
BY RetryAssumption, ServiceAssumption

(* A parser takes no more of an array than the process has.                *)
LEMMA PartFacts ==
  ASSUME NEW r \in Requests, r.kind \in ArrayKinds, NEW n \in 1..2
  PROVE  /\ r.counts[n] \in Nat /\ r.parts[n] \in Nat
         /\ r.parts[n] = Product(r.counts[n])
         /\ r.parts[n] <= r.counts[n]
         /\ r.counts[n] < Wrap => r.parts[n] = r.counts[n]
<1>1. /\ r.counts[n] \in Nat /\ r.parts[n] \in Nat
      /\ r.parts[n] = Product(r.counts[n])
  <2>1. CASE n = 1
    BY <2>1, RequestShape
  <2>2. CASE n = 2
    BY <2>2, RequestShape
  <2> QED
    BY <2>1, <2>2
<1> QED
  BY <1>1, ProductIs

(* The arrays of the process are sequences.                                *)
LEMMA FreshFacts ==
  ASSUME NEW r \in Requests, NEW n \in 1..2
  PROVE  /\ r.counts[n] \in Nat
         /\ Fresh(r).count[n] = r.counts[n]
         /\ Fresh(r).array[n] \in Seq(Cell)
         /\ Len(Fresh(r).array[n]) = r.counts[n]
         /\ DOMAIN Fresh(r).array[n] = 1..r.counts[n]
         /\ \A i \in 1..r.counts[n] : Fresh(r).array[n][i] = Own(n, i)
<1> DEFINE c == r.counts[n]
           a == [i \in 1..c |-> Own(n, i)]
<1>1. c \in Nat
  <2>1. r.counts[1] \in Nat /\ r.counts[2] \in Nat
    BY RequestShape
  <2>2. n = 1 \/ n = 2
    OBVIOUS
  <2> QED
    BY <2>1, <2>2
<1>2. Fresh(r).array[n] = a
  BY DEF Fresh
<1>3. Fresh(r).count[n] = c
  BY DEF Fresh
<1> HIDE DEF c
<1>4. \A i \in 1..c : Own(n, i) \in Cell
  BY CellsAre
<1>5. a \in Seq(Cell) /\ Len(a) = c /\ DOMAIN a = 1..c
  BY <1>1, <1>4
<1> QED
  BY <1>1, <1>2, <1>3, <1>5 DEF c

(* What is cut out of the buffer, by the counts in it.                     *)
LEMMA CutIs ==
  ASSUME NEW buf
  PROVE  /\ Cut(buf).count = buf.count
         /\ Cut(buf).array[1] = SubSeq(buf.cells, 0 + 1, 0 + Product(buf.count[1]))
                                  \o Repeat(Junk, Max - Product(buf.count[1]))
         /\ Cut(buf).array[2] = SubSeq(buf.cells, Product(buf.count[1]) + 1,
                                       Product(buf.count[1]) + Product(buf.count[2]))
                                  \o Repeat(Junk, Max - Product(buf.count[2]))
<1> DEFINE from == <<0, Product(buf.count[1])>>
           len == <<Product(buf.count[1]), Product(buf.count[2])>>
           F(n) == SubSeq(buf.cells, from[n] + 1, from[n] + len[n])
                     \o Repeat(Junk, Max - len[n])
<1>1. Cut(buf) = [count |-> buf.count, array |-> [n \in 1..2 |-> F(n)]]
  BY Zenon DEF Cut
<1>2. /\ from[1] = 0 /\ from[2] = Product(buf.count[1])
      /\ len[1] = Product(buf.count[1]) /\ len[2] = Product(buf.count[2])
  OBVIOUS
<1> HIDE DEF F
<1>3. Cut(buf).count = buf.count /\ Cut(buf).array = [n \in 1..2 |-> F(n)]
  BY <1>1
<1>4. [n \in 1..2 |-> F(n)][1] = F(1) /\ [n \in 1..2 |-> F(n)][2] = F(2)
  OBVIOUS
<1> HIDE DEF from, len
<1> QED
  BY <1>2, <1>3, <1>4, Zenon DEF F

(* What goes into the buffer: the first cells of either array.             *)
LEMMA BufferIs ==
  ASSUME NEW r, Fits(r)
  PROVE  LET m == Fresh(r)
             s == SubSeq(m.array[1], 1, r.parts[1])
             t == SubSeq(m.array[2], 1, r.parts[2])
         IN /\ Buffer(m).count = m.count /\ Buffer(m).cells = s \o t
            /\ s \in Seq(Cell) /\ Len(s) = r.parts[1]
            /\ \A i \in 1..r.parts[1] : s[i] = Own(1, i)
            /\ t \in Seq(Cell) /\ Len(t) = r.parts[2]
            /\ \A i \in 1..r.parts[2] : t[i] = Own(2, i)
            /\ Product(m.count[1]) = r.parts[1] /\ Product(m.count[2]) = r.parts[2]
<1> DEFINE m == Fresh(r)
           s == SubSeq(m.array[1], 1, r.parts[1])
           t == SubSeq(m.array[2], 1, r.parts[2])
<1>1. /\ m.count[1] = r.counts[1] /\ m.count[2] = r.counts[2]
      /\ m.array[1] \in Seq(Cell) /\ Len(m.array[1]) = r.counts[1]
      /\ m.array[2] \in Seq(Cell) /\ Len(m.array[2]) = r.counts[2]
      /\ \A i \in 1..r.counts[1] : m.array[1][i] = Own(1, i)
      /\ \A i \in 1..r.counts[2] : m.array[2][i] = Own(2, i)
  BY FreshFacts DEF Fits
<1>2. /\ r.parts[1] \in 0..r.counts[1] /\ r.parts[2] \in 0..r.counts[2]
      /\ r.parts[1] = Product(r.counts[1]) /\ r.parts[2] = Product(r.counts[2])
      /\ r.counts[1] \in Nat /\ r.counts[2] \in Nat
  BY PartFacts DEF Fits
<1>3. Product(m.count[1]) = r.parts[1] /\ Product(m.count[2]) = r.parts[2]
  BY <1>1, <1>2, Zenon
<1>4. Buffer(m).count = m.count /\ Buffer(m).cells = s \o t
  <2> HIDE DEF m
  <2> QED
    BY <1>3 DEF Buffer
<1> HIDE DEF m
<1>5. /\ s \in Seq(Cell) /\ Len(s) = r.parts[1]
      /\ \A i \in 1..r.parts[1] : s[i] = m.array[1][i]
      /\ t \in Seq(Cell) /\ Len(t) = r.parts[2]
      /\ \A i \in 1..r.parts[2] : t[i] = m.array[2][i]
  BY <1>1, <1>2, FrontFacts
<1>6. /\ \A i \in 1..r.parts[1] : s[i] = Own(1, i)
      /\ \A i \in 1..r.parts[2] : t[i] = Own(2, i)
  <2>1. /\ \A i \in 1..r.parts[1] : i \in 1..r.counts[1]
        /\ \A i \in 1..r.parts[2] : i \in 1..r.counts[2]
    BY <1>2
  <2> HIDE DEF s, t
  <2> QED
    BY <1>1, <1>5, <2>1
<1> QED
  BY <1>3, <1>4, <1>5, <1>6 DEF m

(* An array and the rest of the local one.                                 *)
LEMMA PaddedFacts ==
  ASSUME NEW a \in Seq(Cell), Len(a) <= Max
  PROVE  LET b == a \o Repeat(Junk, Max - Len(a)) IN
           /\ \A i \in 1..Len(a) : b[i] = a[i]
           /\ \A i \in 1..Max : b[i] \in Cell
<1> DEFINE k == Max - Len(a)
           junk == Repeat(Junk, k)
           b == a \o junk
<1>1. k \in Nat /\ Len(a) \in Nat /\ Len(a) + k = Max
  BY Limits
<1>2. junk \in Seq(Cell) /\ Len(junk) = k
  <2> HIDE DEF k
  <2> QED
    BY <1>1, CellsAre DEF Repeat
<1> HIDE DEF junk, k
<1>3. /\ b \in Seq(Cell) /\ Len(b) = Max
      /\ \A i \in 1..Max : b[i] = IF i <= Len(a) THEN a[i] ELSE junk[i - Len(a)]
  BY <1>1, <1>2, ConcatProperties
<1>4. \A i \in 1..Len(a) : b[i] = a[i]
  BY <1>1, <1>3
<1>5. \A i \in 1..Max : b[i] \in Cell
  BY <1>3, ElementOfSeq
<1> QED
  BY <1>4, <1>5 DEF junk, k

(* The local copies begin with what the process has in its arrays.         *)
LEMMA CutFacts ==
  ASSUME NEW r, Fits(r)
  PROVE  LET loc == Cut(Buffer(Fresh(r))) IN
           /\ \A n \in 1..2 : loc.count[n] = r.counts[n]
           /\ \A n \in 1..2 : \A i \in 1..r.parts[n] : loc.array[n][i] = Own(n, i)
           /\ \A n \in 1..2 : \A i \in 1..Max : loc.array[n][i] \in Cell
<1> DEFINE m == Fresh(r)
           p == r.parts[1]
           q == r.parts[2]
           s == SubSeq(m.array[1], 1, p)
           t == SubSeq(m.array[2], 1, q)
           buf == Buffer(m)
           loc == Cut(buf)
<1>1. /\ p \in Nat /\ p <= Max /\ q \in Nat /\ q <= Max
      /\ m.count[1] = r.counts[1] /\ m.count[2] = r.counts[2]
  BY FreshFacts, PartFacts DEF Fits
<1>2. /\ buf.count = m.count /\ buf.cells = s \o t
      /\ s \in Seq(Cell) /\ Len(s) = p /\ \A i \in 1..p : s[i] = Own(1, i)
      /\ t \in Seq(Cell) /\ Len(t) = q /\ \A i \in 1..q : t[i] = Own(2, i)
      /\ Product(m.count[1]) = p /\ Product(m.count[2]) = q
  BY BufferIs
<1> HIDE DEF m, s, t, buf, p, q, loc
<1>3. /\ Product(buf.count[1]) = p /\ Product(buf.count[2]) = q
  BY <1>2
<1>4. /\ loc.count = buf.count
      /\ loc.array[1] = SubSeq(buf.cells, 0 + 1, 0 + p) \o Repeat(Junk, Max - p)
      /\ loc.array[2] = SubSeq(buf.cells, p + 1, p + q) \o Repeat(Junk, Max - q)
  <2>1. /\ loc.count = buf.count
        /\ loc.array[1] = SubSeq(buf.cells, 0 + 1, 0 + Product(buf.count[1]))
                             \o Repeat(Junk, Max - Product(buf.count[1]))
        /\ loc.array[2] = SubSeq(buf.cells, Product(buf.count[1]) + 1,
                                  Product(buf.count[1]) + Product(buf.count[2]))
                             \o Repeat(Junk, Max - Product(buf.count[2]))
    BY CutIs DEF loc
  <2> QED
    BY <1>3, <2>1, Zenon
<1>5. /\ SubSeq(buf.cells, 0 + 1, 0 + p) = s
      /\ SubSeq(buf.cells, p + 1, p + q) = t
  <2>0. /\ SubSeq(s \o t, 1, Len(s)) = s
        /\ SubSeq(s \o t, Len(s) + 1, Len(s) + Len(t)) = t
    BY <1>2, TakenApart, Zenon
  <2>1. SubSeq(s \o t, 1, p) = s /\ SubSeq(s \o t, p + 1, p + q) = t
    BY <1>2, <2>0, Zenon
  <2>2. 0 + 1 = 1 /\ 0 + p = p
    BY <1>1
  <2> QED
    BY <2>1, <2>2, <1>2
<1>6. /\ \A i \in 1..p : loc.array[1][i] = Own(1, i)
      /\ \A i \in 1..Max : loc.array[1][i] \in Cell
  <2>1. loc.array[1] = s \o Repeat(Junk, Max - Len(s))
    BY <1>2, <1>4, <1>5
  <2>2. Len(s) <= Max
    BY <1>1, <1>2
  <2> QED
    BY <2>1, <2>2, <1>2, PaddedFacts
<1>7. /\ \A i \in 1..q : loc.array[2][i] = Own(2, i)
      /\ \A i \in 1..Max : loc.array[2][i] \in Cell
  <2>1. loc.array[2] = t \o Repeat(Junk, Max - Len(t))
    BY <1>2, <1>4, <1>5
  <2>2. Len(t) <= Max
    BY <1>1, <1>2
  <2> QED
    BY <2>1, <2>2, <1>2, PaddedFacts
<1>8. loc.count[1] = r.counts[1] /\ loc.count[2] = r.counts[2]
  BY <1>1, <1>2, <1>4
<1>9. \A n \in 1..2 : n = 1 \/ n = 2
  OBVIOUS
<1>10. /\ \A i \in 1..r.parts[1] : loc.array[1][i] = Own(1, i)
       /\ \A i \in 1..r.parts[2] : loc.array[2][i] = Own(2, i)
  BY <1>6, <1>7 DEF p, q
<1>11. /\ \A n \in 1..2 : loc.count[n] = r.counts[n]
       /\ \A n \in 1..2 : \A i \in 1..r.parts[n] : loc.array[n][i] = Own(n, i)
       /\ \A n \in 1..2 : \A i \in 1..Max : loc.array[n][i] \in Cell
  BY <1>6, <1>7, <1>8, <1>9, <1>10
<1> QED
  BY <1>11 DEF loc, buf, m

(* As many elements as there is room for, then what was there or zeros.    *)
LEMMA FillFacts ==
  ASSUME NEW loc, NEW c, NEW p \in [1..2 -> 0..Max],
         \A n \in 1..2 : c[n] \in Nat /\ p[n] <= c[n] /\ loc.count[n] = c[n],
         \A n \in 1..2 : \A i \in 1..p[n] : loc.array[n][i] = Own(n, i),
         \A n \in 1..2 : \A i \in 1..Max : loc.array[n][i] \in Cell
  PROVE  LET new == Fill(loc) IN
           /\ new.count = Have
           /\ \A n \in 1..2 :
                /\ new.array[n] \in Seq(Cell) /\ Len(new.array[n]) = Max
                /\ \A i \in 1..p[n] :
                     /\ new.array[n][i] \in {Own(n, i), Zero, Element(n, i)}
                     /\ i <= Have[n] => new.array[n][i] = Element(n, i)
                     /\ i > Have[n] /\ req.kind # "strings" =>
                          new.array[n][i] = Own(n, i)
<1> DEFINE new == Fill(loc)
           G(n, i) == IF i <= Writes(n, loc.count) THEN Element(n, i)
                      ELSE IF req.kind = "strings" /\ i <= loc.count[n] THEN Zero
                      ELSE loc.array[n][i]
<1>1. /\ new.count = [n \in 1..2 |-> Have[n]]
      /\ new.array = [n \in 1..2 |-> [i \in 1..Max |-> G(n, i)]]
  BY DEF Fill, Tells
<1>2. new.count = Have
  BY <1>1, ServiceAssumption
<1> HIDE DEF new
<1>3. ASSUME NEW n \in 1..2
      PROVE  /\ new.array[n] \in Seq(Cell) /\ Len(new.array[n]) = Max
             /\ \A i \in 1..Max : new.array[n][i] = G(n, i)
  <2> DEFINE a == [i \in 1..Max |-> G(n, i)]
  <2>1. new.array[n] = a
    BY <1>1
  <2>2. \A i \in 1..Max : i \in Nat /\ loc.array[n][i] \in Cell
    OBVIOUS
  <2>3. \A i \in 1..Max : G(n, i) \in Cell
    BY <2>2, CellsAre, n \in Nat
  <2> HIDE DEF G
  <2>4. a \in Seq(Cell) /\ Len(a) = Max /\ \A i \in 1..Max : a[i] = G(n, i)
    BY <2>3, Limits
  <2> QED
    BY <2>1, <2>4
<1>4. ASSUME NEW n \in 1..2, NEW i \in 1..p[n]
      PROVE  /\ G(n, i) \in {Own(n, i), Zero, Element(n, i)}
             /\ i <= Have[n] => G(n, i) = Element(n, i)
             /\ i > Have[n] /\ req.kind # "strings" => G(n, i) = Own(n, i)
  <2>1. /\ p[n] \in Nat /\ Have[n] \in Nat /\ loc.count[n] = c[n]
        /\ c[n] \in Nat /\ p[n] <= c[n] /\ loc.array[n][i] = Own(n, i)
    BY ServiceAssumption
  <2>2. \/ Writes(n, loc.count) = Have[n]
        \/ Writes(n, loc.count) = Lesser(c[n], Have[n])
    BY <2>1 DEF Writes
  <2>3. i <= Writes(n, loc.count) <=> i <= Have[n]
    BY <2>1, <2>2 DEF Lesser
  <2>4. ~(i <= Have[n]) <=> i > Have[n]
    BY <2>1
  <2> QED
    BY <2>1, <2>3, <2>4, Zenon
<1>5. \A n \in 1..2 : \A i \in 1..p[n] : i \in 1..Max
  BY Limits
<1> HIDE DEF G
<1> QED
  BY <1>2, <1>3, <1>4, <1>5 DEF new

LEMMA ConcatCells ==
  ASSUME NEW a \in Seq(Cell), NEW b \in Seq(Cell)
  PROVE  /\ \A i \in 1..Len(a) : (a \o b)[i] = a[i]
         /\ \A i \in 1..Len(b) : (a \o b)[Len(a) + i] = b[i]
<1> DEFINE c == a \o b
<1>1. \A k \in 1..(Len(a) + Len(b)) : c[k] = IF k <= Len(a) THEN a[k] ELSE b[k - Len(a)]
  BY ConcatProperties
<1>2. Len(a) \in Nat /\ Len(b) \in Nat
  OBVIOUS
<1> HIDE DEF c
<1>3. \A i \in 1..Len(a) : c[i] = a[i]
  BY <1>1, <1>2
<1>4. \A i \in 1..Len(b) : c[Len(a) + i] = b[i]
  <2>1. \A i \in 1..Len(b) : /\ Len(a) + i \in 1..(Len(a) + Len(b))
                            /\ ~(Len(a) + i <= Len(a))
                            /\ (Len(a) + i) - Len(a) = i
    BY <1>2
  <2> QED
    BY <1>1, <2>1
<1> QED
  BY <1>3, <1>4 DEF c

(* What the kernel copies back, cell by cell.                              *)
LEMMA CopyOutIs ==
  ASSUME NEW r, Fits(r), NEW buf
  PROVE  LET got == CopyOut(Fresh(r), buf).array IN
           /\ \A n \in 1..2 : /\ DOMAIN got[n] = 1..r.counts[n]
                              /\ \A i \in 1..r.counts[n] :
                                   i > r.parts[n] => got[n][i] = Own(n, i)
           /\ \A i \in 1..r.parts[1] : got[1][i] = buf.cells[i]
           /\ \A i \in 1..r.parts[2] : got[2][i] = buf.cells[r.parts[1] + i]
<1> DEFINE m == Fresh(r)
           from == <<0, Product(m.count[1])>>
           len == <<Product(m.count[1]), Product(m.count[2])>>
           F(n, i) == IF i <= len[n] THEN buf.cells[from[n] + i] ELSE m.array[n][i]
           G(n) == [i \in 1..Len(m.array[n]) |-> F(n, i)]
           got == CopyOut(m, buf).array
<1>1. got = [n \in 1..2 |-> G(n)]
  BY Zenon DEF CopyOut
<1>2. \A n \in 1..2 : n = 1 \/ n = 2
  OBVIOUS
<1>3. /\ Product(m.count[1]) = r.parts[1] /\ Product(m.count[2]) = r.parts[2]
  BY BufferIs
<1>4. \A n \in 1..2 : /\ Len(m.array[n]) = r.counts[n] /\ r.counts[n] \in Nat
                     /\ \A i \in 1..r.counts[n] : m.array[n][i] = Own(n, i)
  BY FreshFacts DEF Fits
<1>5. \A n \in 1..2 : r.parts[n] \in Nat /\ r.parts[n] <= r.counts[n]
  BY PartFacts DEF Fits
<1>6. from[1] = 0 /\ from[2] = r.parts[1] /\ \A n \in 1..2 : len[n] = r.parts[n]
  BY <1>2, <1>3
<1> HIDE DEF m, from, len, got, F
<1>7. ASSUME NEW n \in 1..2
      PROVE  /\ DOMAIN got[n] = 1..r.counts[n]
             /\ \A i \in 1..r.counts[n] : got[n][i] = F(n, i)
  BY <1>1, <1>4
<1>8. ASSUME NEW n \in 1..2, NEW i \in 1..r.counts[n], i > r.parts[n]
      PROVE  got[n][i] = Own(n, i)
  <2>1. ~(i <= len[n])
    BY <1>4, <1>5, <1>6, <1>8
  <2> QED
    BY <1>4, <1>7, <2>1 DEF F
<1>9. ASSUME NEW n \in 1..2, NEW i \in 1..r.parts[n]
      PROVE  got[n][i] = buf.cells[from[n] + i]
  <2>1. i \in 1..r.counts[n] /\ i <= len[n]
    BY <1>4, <1>5, <1>6
  <2> QED
    BY <1>7, <2>1 DEF F
<1>10. \A i \in 1..r.parts[1] : got[1][i] = buf.cells[i]
  BY <1>6, <1>9
<1>11. \A i \in 1..r.parts[2] : got[2][i] = buf.cells[r.parts[1] + i]
  BY <1>6, <1>9
<1> QED
  BY <1>7, <1>8, <1>10, <1>11 DEF got, m

(* What the process finds in its memory after a served ioctl.              *)
LEMMA ServedMemory ==
  ASSUME NEW r, Fits(r), req.kind = r.kind
  PROVE  LET m   == Fresh(r)
             buf == PutBack(Buffer(m), Fill(Cut(Buffer(m))))
         IN /\ buf.count = Have
            /\ \A n \in 1..2 : Right(n, r, CopyOut(m, buf).array[n])
<1> DEFINE m == Fresh(r)
           loc == Cut(Buffer(m))
           new == Fill(loc)
           buf == PutBack(Buffer(m), new)
           got == CopyOut(m, buf).array
           p == [n \in 1..2 |-> r.parts[n]]
           a == SubSeq(new.array[1], 1, p[1])
           b == SubSeq(new.array[2], 1, p[2])
<1>1. \A n \in 1..2 : n = 1 \/ n = 2
  OBVIOUS
<1>2. \A n \in 1..2 : /\ r.parts[n] \in 0..Max /\ r.counts[n] \in Nat
                     /\ r.parts[n] <= r.counts[n]
  BY <1>1, PartFacts, Limits DEF Fits
<1>3. p \in [1..2 -> 0..Max] /\ \A n \in 1..2 : p[n] = r.parts[n]
  BY <1>2
<1>4. /\ Product(Buffer(m).count[1]) = p[1] /\ Product(Buffer(m).count[2]) = p[2]
  BY BufferIs, <1>3
<1>5. /\ \A n \in 1..2 : loc.count[n] = r.counts[n]
      /\ \A n \in 1..2 : \A i \in 1..r.parts[n] : loc.array[n][i] = Own(n, i)
      /\ \A n \in 1..2 : \A i \in 1..Max : loc.array[n][i] \in Cell
  BY CutFacts
<1> HIDE DEF p, m, loc
<1>6. /\ new.count = Have
      /\ \A n \in 1..2 :
           /\ new.array[n] \in Seq(Cell) /\ Len(new.array[n]) = Max
           /\ \A i \in 1..p[n] :
                /\ new.array[n][i] \in {Own(n, i), Zero, Element(n, i)}
                /\ i <= Have[n] => new.array[n][i] = Element(n, i)
                /\ i > Have[n] /\ req.kind # "strings" => new.array[n][i] = Own(n, i)
  <2>1. /\ \A n \in 1..2 : r.counts[n] \in Nat /\ p[n] <= r.counts[n]
                            /\ loc.count[n] = r.counts[n]
        /\ \A n \in 1..2 : \A i \in 1..p[n] : loc.array[n][i] = Own(n, i)
    BY <1>2, <1>3, <1>5
  <2> HIDE DEF new
  <2>2. PICK c : c = r.counts
    OBVIOUS
  <2> QED
    BY <1>3, <1>5, <2>1, <2>2, FillFacts DEF new
<1>7. buf.count = new.count /\ buf.cells = a \o b
  BY <1>4 DEF PutBack
<1> HIDE DEF new
<1>8. /\ a \in Seq(Cell) /\ Len(a) = p[1] /\ \A i \in 1..p[1] : a[i] = new.array[1][i]
      /\ b \in Seq(Cell) /\ Len(b) = p[2] /\ \A i \in 1..p[2] : b[i] = new.array[2][i]
  <2>1. p[1] \in 0..Max /\ p[2] \in 0..Max
    BY <1>3
  <2> QED
    BY <2>1, <1>6, FrontFacts
<1> HIDE DEF a, b, buf
<1>9. /\ Len(a) = r.parts[1] /\ Len(b) = r.parts[2]
      /\ \A i \in 1..r.parts[1] : buf.cells[i] = a[i]
      /\ \A i \in 1..r.parts[2] : buf.cells[r.parts[1] + i] = b[i]
  <2>1. Len(a) = r.parts[1] /\ Len(b) = r.parts[2]
    BY <1>3, <1>8
  <2>2. /\ \A i \in 1..Len(a) : (a \o b)[i] = a[i]
        /\ \A i \in 1..Len(b) : (a \o b)[Len(a) + i] = b[i]
    BY <1>8, ConcatCells
  <2>3. /\ \A i \in 1..Len(a) : buf.cells[i] = a[i]
        /\ \A i \in 1..Len(b) : buf.cells[Len(a) + i] = b[i]
    BY <1>7, <2>2, Zenon
  <2> QED
    BY <2>1, <2>3
<1>10. /\ \A n \in 1..2 : /\ DOMAIN got[n] = 1..r.counts[n]
                          /\ \A i \in 1..r.counts[n] :
                               i > r.parts[n] => got[n][i] = Own(n, i)
       /\ \A i \in 1..r.parts[1] : got[1][i] = a[i]
       /\ \A i \in 1..r.parts[2] : got[2][i] = b[i]
  <2>1. /\ \A n \in 1..2 : /\ DOMAIN got[n] = 1..r.counts[n]
                           /\ \A i \in 1..r.counts[n] :
                                i > r.parts[n] => got[n][i] = Own(n, i)
        /\ \A i \in 1..r.parts[1] : got[1][i] = buf.cells[i]
        /\ \A i \in 1..r.parts[2] : got[2][i] = buf.cells[r.parts[1] + i]
    BY CopyOutIs DEF m
  <2> HIDE DEF got
  <2> QED
    BY <1>9, <2>1
<1> HIDE DEF got
<1>11. \A n \in 1..2 : \A i \in 1..r.parts[n] : got[n][i] = new.array[n][i]
  BY <1>1, <1>3, <1>8, <1>10
<1>12. ASSUME NEW n \in 1..2
       PROVE  Right(n, r, got[n])
  BY <1>3, <1>6, <1>10, <1>11 DEF Right
<1>13. buf.count = Have
  BY <1>6, <1>7
<1> QED
  BY <1>12, <1>13 DEF got, buf, new, loc, m

-----------------------------------------------------------------------------
(* The steps of IoctlRetry that the service takes.                         *)

(* A request that is with the library fits its arrays.                     *)
LEMMA ForwardedFits ==
  ASSUME IInv, phase = "forwarded", req.kind \in ArrayKinds
  PROVE  Fits(req) /\ inSize \in Nat
<1>1. req \in Requests /\ ~TooLong(req) /\ inSize \in Nat
  BY ReqFacts DEF IInv, StateOK, HandledWhole, Served, Oversize
<1>2. req.parts[1] \in Nat /\ req.parts[2] \in Nat
  BY <1>1, RequestShape
<1> QED
  BY <1>1, <1>2, Limits DEF TooLong, Fits

(* A response of the right length was not cut off.                         *)
LEMMA RightFits ==
  ASSUME inSize \in Nat, NEW behind \in 0..1, NEW after \in 0..1,
         RightLength(ResponseLength(behind, after))
  PROVE  inSize <= Room
<1>1. ArgRoom \in Nat /\ Room \in Nat
  BY RetryAssumption
<1> DEFINE got == Reads(inSize, behind, ArgRoom)
<1>2. got \in Nat
  BY <1>1 DEF Reads, Lesser
<1> HIDE DEF got
<1>3. Reads(got, after, Room) <= Room
  BY <1>1, <1>2 DEF Reads, Lesser
<1> QED
  BY <1>3 DEF RightLength, ResponseLength, got

LEMMA ServeIs ==
  ASSUME IInv, FreshInv, Serve
  PROVE  /\ Respond /\ phase' = "answered" /\ req' = req /\ known' = {Have}
         /\ Fits(req)
         /\ \A n \in 1..2 : Right(n, req, mem'.array[n])
<1> DEFINE m == Fresh(req)
           buf == PutBack(Buffer(m), Fill(Cut(Buffer(m))))
<1>1. phase = "forwarded" /\ req.kind \in ArrayKinds /\ mem = m
  BY DEF Serve, FreshInv
<1>2. Fits(req) /\ inSize \in Nat
  BY <1>1, ForwardedFits
<1>3. PICK behind \in 0..1, after \in 0..1 :
        /\ RightLength(ResponseLength(behind, after))
        /\ Answer(ResponseLength(behind, after), TRUE)
        /\ mem' = CopyOut(m, buf) /\ known' = {buf.count}
  BY <1>1, Zenon DEF Serve
<1>4. buf.count = Have /\ \A n \in 1..2 : Right(n, req, CopyOut(m, buf).array[n])
  BY <1>2, ServedMemory
<1> HIDE DEF m, buf
<1>5. known' = {Have} /\ \A n \in 1..2 : Right(n, req, mem'.array[n])
  BY <1>3, <1>4, Zenon
<1>6. inSize <= Room
  BY <1>2, <1>3, RightFits
<1>7. Answer(inSize, TRUE)
  BY <1>3 DEF RightLength
<1>8. Respond /\ phase' = "answered" /\ req' = req
  BY <1>1, <1>6, <1>7 DEF Respond, Answer
<1> QED
  BY <1>2, <1>5, <1>8

LEMMA ServeWrongIs ==
  ASSUME FreshInv, IInv, ServeWrong
  PROVE  /\ Respond /\ phase' = "answered" /\ req' = req /\ ~reply'.served
         /\ known' = known
         /\ \A n \in 1..2 : \A i \in DOMAIN mem'.array[n] :
              mem'.array[n][i] \in {Own(n, i), Zero}
<1> DEFINE m == Fresh(req)
           k == Len(Buffer(m).cells)
           buf == [count |-> <<0, 0>>, cells |-> Repeat(Zero, k)]
<1>1. Respond /\ phase' = "answered" /\ req' = req /\ ~reply'.served /\ known' = known
  BY DEF ServeWrong, Respond, ReturnError, Answer
<1>2. phase = "forwarded" /\ req.kind \in ArrayKinds /\ mem = m
  BY DEF ServeWrong, FreshInv
<1>3. Fits(req)
  BY <1>2, ForwardedFits
<1>4. mem' = CopyOut(m, buf)
  BY <1>2, Zenon DEF ServeWrong
<1>5. req.parts[1] \in Nat /\ req.parts[2] \in Nat
  BY <1>3, RequestShape DEF Fits
<1>6. k = req.parts[1] + req.parts[2]
  <2> DEFINE s == SubSeq(m.array[1], 1, req.parts[1])
             t == SubSeq(m.array[2], 1, req.parts[2])
  <2>1. /\ Buffer(m).cells = s \o t
        /\ s \in Seq(Cell) /\ Len(s) = req.parts[1]
        /\ t \in Seq(Cell) /\ Len(t) = req.parts[2]
    BY <1>3, BufferIs
  <2> HIDE DEF s, t, m
  <2> QED
    BY <2>1, TakenApart
<1>7. /\ \A i \in 1..req.parts[1] : buf.cells[i] = Zero
      /\ \A i \in 1..req.parts[2] : buf.cells[req.parts[1] + i] = Zero
  <2>1. \A i \in 1..k : buf.cells[i] = Zero
    BY DEF Repeat
  <2> HIDE DEF buf, k
  <2>2. /\ \A i \in 1..req.parts[1] : i \in 1..k
        /\ \A i \in 1..req.parts[2] : req.parts[1] + i \in 1..k
    BY <1>5, <1>6
  <2> QED
    BY <2>1, <2>2
<1> HIDE DEF buf, m
<1>8. /\ \A n \in 1..2 : /\ DOMAIN mem'.array[n] = 1..req.counts[n]
                         /\ \A i \in 1..req.counts[n] :
                              i > req.parts[n] => mem'.array[n][i] = Own(n, i)
      /\ \A i \in 1..req.parts[1] : mem'.array[1][i] = Zero
      /\ \A i \in 1..req.parts[2] : mem'.array[2][i] = Zero
  <2>1. PICK got : got = mem'.array
    OBVIOUS
  <2>2. /\ \A n \in 1..2 : /\ DOMAIN got[n] = 1..req.counts[n]
                           /\ \A i \in 1..req.counts[n] :
                                i > req.parts[n] => got[n][i] = Own(n, i)
        /\ \A i \in 1..req.parts[1] : got[1][i] = buf.cells[i]
        /\ \A i \in 1..req.parts[2] : got[2][i] = buf.cells[req.parts[1] + i]
    BY <1>3, <1>4, <2>1, CopyOutIs DEF m
  <2> QED
    BY <1>7, <2>1, <2>2
<1>9. \A n \in 1..2 : /\ req.counts[n] \in Nat /\ req.parts[n] \in Nat
                      /\ \A i \in 1..req.parts[n] : mem'.array[n][i] = Zero
  <2>1. \A n \in 1..2 : n = 1 \/ n = 2
    OBVIOUS
  <2>2. \A n \in 1..2 : req.counts[n] \in Nat /\ req.parts[n] \in Nat
    BY <1>3, PartFacts DEF Fits
  <2> QED
    BY <1>8, <2>1, <2>2
<1>10. ASSUME NEW n \in 1..2, NEW i \in DOMAIN mem'.array[n]
       PROVE  mem'.array[n][i] \in {Own(n, i), Zero}
  <2>1. i \in 1..req.counts[n]
    BY <1>8
  <2>2. i > req.parts[n] \/ i \in 1..req.parts[n]
    BY <1>9, <2>1
  <2> QED
    BY <1>8, <1>9, <2>1, <2>2
<1> QED
  BY <1>1, <1>10

LEMMA AskIs ==
  ASSUME ServiceAsk
  PROVE  Ask /\ phase' = "asked" /\ mem' = Fresh(req)' /\ known' = known
BY DEF ServiceAsk, Ask, Fresh

(* An ioctl on its way stays what it is, and one with arrays is carried    *)
(* out by nobody but the library.                                          *)
Early == {"asked", "retry", "forwarded", "faulted"}

LEMMA RestIs ==
  ASSUME ServiceRest
  PROVE  /\ Next /\ req' = req /\ mem' = mem /\ known' = known
         /\ phase' \in Early => phase \in Early
         /\ ~ArraysServed'
<1>1. CASE Fetch \/ Fault \/ Return
  BY <1>1 DEF ServiceRest, Fetch, Fault, Return, Next, Early, ArraysServed
<1>2. CASE req.kind \notin ArrayKinds /\ Respond
  BY <1>2 DEF ServiceRest, Respond, ReturnError, Answer, Next, Early, ArraysServed
<1>3. CASE ParseArrays
  <2>1. phase = "asked" /\ (Modeset \/ ReturnError \/ \E i, o : Retry(i, o))
    BY <1>3 DEF ParseArrays, Handles, AskForArrays
  <2>2. req' = req /\ ~ArraysServed'
    BY <2>1 DEF Modeset, ReturnError, Forward, Retry, Answer, ArraysServed
  <2> QED
    BY <1>3, <2>1, <2>2 DEF Next, Parse, ServiceRest, Early
<1>4. CASE Parse /\ ~ParseArrays
  <2>1. phase = "asked" /\ req.kind \notin ArrayKinds
    BY <1>4 DEF Parse, ParseBare, ParseUnknown, ParseModesetStruct,
          ParseRenderStruct, ParseValue, ParseCs, Handles, ArrayKinds
  <2>2. req' = req
    BY <1>4 DEF Parse, ParseBare, ParseUnknown, ParseModesetStruct,
          ParseRenderStruct, ParseValue, ParseCs, Checkpoint, Render, Modeset,
          ReturnError, Forward, Retry, Answer
  <2> QED
    BY <1>4, <2>1, <2>2 DEF Next, ServiceRest, Early, ArraysServed
<1> QED
  BY <1>1, <1>2, <1>3, <1>4 DEF ServiceRest

-----------------------------------------------------------------------------
(* The invariant.                                                          *)

LEMMA InitServiceInv == ServiceInit => ServiceInv
<1> SUFFICES ASSUME ServiceInit PROVE ServiceInv
  OBVIOUS
<1>1. IInv
  BY InitIInv DEF ServiceInit
<1>2. FreshInv /\ KnownInv /\ ~ArraysServed
  BY DEF ServiceInit, Init, FreshInv, KnownInv, ArraysServed
<1>3. \A n \in 1..2 : DOMAIN mem.array[n] = {}
  BY DEF ServiceInit
<1> QED
  BY <1>1, <1>2, <1>3
     DEF ServiceInv, ArraysAreRight, ArraysKeptApart, RoomIsUsed, RestIsLeftAlone

(* Untouched memory is as it should be.                                    *)
LEMMA FreshIsRight ==
  ASSUME NEW r \in Requests
  PROVE  \A n \in 1..2 : \A i \in DOMAIN Fresh(r).array[n] :
           Fresh(r).array[n][i] \in {Own(n, i), Zero, Element(n, i)}
BY FreshFacts

LEMMA StepIsRetryStep ==
  ASSUME ServiceInv, [ServiceNext]_serviceVars
  PROVE  [Next]_vars /\ IInv'
<1>1. [Next]_vars
  BY ServeIs, ServeWrongIs, AskIs, RestIs DEF ServiceInv, ServiceNext, serviceVars, vars, Next
<1> QED
  BY <1>1, NextIInv DEF ServiceInv

(* What a step may do to a process that asks with what it was told.        *)
SecondCall ==
  (ArraysServed' /\ ~ArraysServed /\ <<req.counts[1], req.counts[2]>> \in known) =>
    /\ known' = known
    /\ \A n \in 1..2 : mem'.array[n] = [i \in 1..Have[n] |-> Element(n, i)]

(* An array that is right is what ArraysAreRight asks for.                 *)
LEMMA RightIs ==
  ASSUME NEW r, Fits(r), NEW n \in 1..2, NEW array, Right(n, r, array)
  PROVE  /\ \A i \in DOMAIN array : array[i] \in {Own(n, i), Zero, Element(n, i)}
         /\ \/ \A i \in 1..Lesser(r.counts[n], Have[n]) : array[i] = Element(n, i)
            \/ /\ r.counts[n] >= Wrap
               /\ \A i \in 1..Lesser(r.parts[n], Have[n]) : array[i] = Element(n, i)
         /\ \A i \in DOMAIN array :
              (i > r.parts[n] \/ (i > Have[n] /\ r.kind # "strings"))
                => array[i] = Own(n, i)
<1> DEFINE c == r.counts[n]
           p == r.parts[n]
           h == Have[n]
<1>1. /\ c \in Nat /\ p \in Nat /\ p <= c /\ h \in Nat /\ Wrap \in Nat
      /\ c < Wrap => p = c
  BY PartFacts, ServiceAssumption, RetryAssumption DEF Fits
<1>2. /\ DOMAIN array = 1..c
      /\ \A i \in 1..p : /\ array[i] \in {Own(n, i), Zero, Element(n, i)}
                         /\ i <= h => array[i] = Element(n, i)
                         /\ i > h /\ r.kind # "strings" => array[i] = Own(n, i)
      /\ \A i \in 1..c : i > p => array[i] = Own(n, i)
  BY DEF Right
<1> HIDE DEF c, p, h
<1>3. \A i \in 1..c : i \in 1..p \/ i > p
  BY <1>1
<1>4. \A i \in DOMAIN array : array[i] \in {Own(n, i), Zero, Element(n, i)}
  BY <1>2, <1>3
<1>5. \A i \in 1..Lesser(p, h) : array[i] = Element(n, i)
  <2>1. \A i \in 1..Lesser(p, h) : i \in 1..p /\ i <= h
    BY <1>1 DEF Lesser
  <2> QED
    BY <1>2, <2>1
<1>6. c >= Wrap \/ Lesser(p, h) = Lesser(c, h)
  BY <1>1
<1>7. \A i \in DOMAIN array :
        (i > p \/ (i > h /\ r.kind # "strings")) => array[i] = Own(n, i)
  BY <1>2, <1>3
<1>8. \/ \A i \in 1..Lesser(c, h) : array[i] = Element(n, i)
      \/ c >= Wrap /\ \A i \in 1..Lesser(p, h) : array[i] = Element(n, i)
  BY <1>5, <1>6
<1> QED
  BY <1>4, <1>7, <1>8 DEF c, p, h

LEMMA ServiceStep ==
  ASSUME ServiceInv, [ServiceNext]_serviceVars
  PROVE  ServiceInv' /\ SecondCall
<1>1. /\ IInv' /\ IInv /\ FreshInv /\ KnownInv
      /\ ArraysKeptApart /\ RoomIsUsed /\ RestIsLeftAlone
  BY StepIsRetryStep DEF ServiceInv, ArraysAreRight
<1>2. CASE ServiceAsk
  <2>1. phase' = "asked" /\ mem' = Fresh(req)' /\ known' = known /\ req' \in Requests
    BY <1>1, <1>2, AskIs DEF IInv, StateOK
  <2>2. mem' = Fresh(req')
    BY <2>1 DEF Fresh
  <2>3. ArraysKeptApart'
    BY <2>1, <2>2, FreshIsRight DEF ArraysKeptApart
  <2>4. ~ArraysServed'
    BY <2>1 DEF ArraysServed
  <2> QED
    BY <1>1, <2>1, <2>2, <2>3, <2>4 DEF ServiceInv, FreshInv, KnownInv,
       ArraysAreRight, RoomIsUsed, RestIsLeftAlone, SecondCall
<1>3. CASE Serve
  <2>1. /\ phase' = "answered" /\ req' = req /\ known' = {Have} /\ Fits(req)
        /\ \A n \in 1..2 : Right(n, req, mem'.array[n])
    BY <1>1, <1>3, ServeIs
  <2>2. PICK r : r = req
    OBVIOUS
  <2>3. PICK array : array = mem'.array
    OBVIOUS
  <2>4. Fits(r) /\ \A n \in 1..2 : Right(n, r, array[n])
    BY <2>1, <2>2, <2>3, Zenon
  <2>5. \A n \in 1..2 :
          /\ \A i \in DOMAIN array[n] : array[n][i] \in {Own(n, i), Zero, Element(n, i)}
          /\ \/ \A i \in 1..Lesser(r.counts[n], Have[n]) : array[n][i] = Element(n, i)
             \/ /\ r.counts[n] >= Wrap
                /\ \A i \in 1..Lesser(r.parts[n], Have[n]) : array[n][i] = Element(n, i)
          /\ \A i \in DOMAIN array[n] :
               (i > r.parts[n] \/ (i > Have[n] /\ r.kind # "strings"))
                 => array[n][i] = Own(n, i)
    BY <2>4, RightIs
  <2>6. ArraysKeptApart'
    BY <2>3, <2>5 DEF ArraysKeptApart
  <2>7. RoomIsUsed' /\ RestIsLeftAlone'
    BY <2>1, <2>2, <2>3, <2>5 DEF RoomIsUsed, RestIsLeftAlone
  <2>8. FreshInv' /\ KnownInv'
    BY <2>1 DEF FreshInv, KnownInv
  <2>9. ASSUME <<req.counts[1], req.counts[2]>> \in known
        PROVE  /\ known' = known
               /\ \A n \in 1..2 : mem'.array[n] = [i \in 1..Have[n] |-> Element(n, i)]
    <3>1. known = {Have} /\ <<req.counts[1], req.counts[2]>> = Have
      BY <1>1, <2>9 DEF KnownInv
    <3>2. r.counts[1] = Have[1] /\ r.counts[2] = Have[2]
      BY <2>2, <3>1
    <3>3. ASSUME NEW n \in 1..2
          PROVE  array[n] = [i \in 1..Have[n] |-> Element(n, i)]
      <4>1. r.counts[n] = Have[n] /\ Have[n] \in Nat /\ Have[n] < Wrap
        BY <3>2, ServiceAssumption, RetryAssumption
      <4>2. r.parts[n] = Have[n]
        BY <2>4, <4>1, PartFacts DEF Fits
      <4>3. Right(n, r, array[n])
        BY <2>4
      <4>4. DOMAIN array[n] = 1..Have[n] /\ \A i \in 1..Have[n] : array[n][i] = Element(n, i)
        BY <4>1, <4>2, <4>3 DEF Right
      <4>5. array[n] = CopyOut(mem, PutBack(Buffer(mem), Fill(Cut(Buffer(mem))))).array[n]
        BY <1>3, <2>3 DEF Serve
      <4>6. array[n] = [i \in DOMAIN array[n] |-> array[n][i]]
        BY <4>5 DEF CopyOut
      <4> QED
        BY <4>4, <4>6, Zenon
    <3> QED
      BY <2>1, <2>3, <3>1, <3>3
  <2> QED
    BY <1>1, <2>6, <2>7, <2>8, <2>9 DEF ServiceInv, ArraysAreRight, SecondCall
<1>4. CASE ServeWrong
  <2>1. /\ phase' = "answered" /\ req' = req /\ ~reply'.served /\ known' = known
        /\ \A n \in 1..2 : \A i \in DOMAIN mem'.array[n] :
             mem'.array[n][i] \in {Own(n, i), Zero}
    BY <1>1, <1>4, ServeWrongIs
  <2>2. ~ArraysServed' /\ FreshInv' /\ KnownInv'
    BY <1>1, <2>1 DEF ArraysServed, FreshInv, KnownInv
  <2>3. ArraysKeptApart'
    BY <2>1 DEF ArraysKeptApart
  <2> QED
    BY <1>1, <2>2, <2>3
       DEF ServiceInv, ArraysAreRight, RoomIsUsed, RestIsLeftAlone, SecondCall
<1>5. CASE ServiceRest
  <2>1. /\ req' = req /\ mem' = mem /\ known' = known
        /\ phase' \in Early => phase \in Early
        /\ ~ArraysServed'
    BY <1>5, RestIs
  <2>2. FreshInv' /\ KnownInv'
    BY <1>1, <2>1 DEF FreshInv, KnownInv, Fresh, Early
  <2> QED
    BY <1>1, <2>1, <2>2 DEF ServiceInv, ArraysAreRight, ArraysKeptApart, RoomIsUsed,
       RestIsLeftAlone, SecondCall
<1>6. CASE UNCHANGED serviceVars
  BY <1>1, <1>6 DEF serviceVars, vars, ServiceInv, FreshInv, Fresh, KnownInv,
     ArraysAreRight, ArraysKeptApart, RoomIsUsed, RestIsLeftAlone, ArraysServed, SecondCall
<1> QED
  BY <1>2, <1>3, <1>4, <1>5, <1>6 DEF ServiceNext

LEMMA ServiceInvariant == ServiceSafe => []ServiceInv
BY InitServiceInv, ServiceStep, PTL DEF ServiceSafe

-----------------------------------------------------------------------------
(* However long the arrays of the process and those of modeset_ioctl are,  *)
(* and whatever the products make of their counts: each array ends up with *)
(* its own first elements, each in its place, and the rest of it as it was *)
(* or padded, with nothing from the other array or from the stack of the   *)
(* library (lib/ioctls.c:124-186, with the copying of master and kernel).  *)
(* No element is left out but where a count wraps.                         *)
THEOREM ArraysComeRight == ServiceSafe => []ArraysAreRight
<1>1. ServiceInv => ArraysAreRight
  BY DEF ServiceInv
<1> QED
  BY <1>1, ServiceInvariant, PTL

(* A process that asks again with the lengths it was told gets everything  *)
(* and is told the same lengths (fill_array and COPY_ARRAY), if it is      *)
(* served.                                                                 *)
THEOREM SecondCallIsWhole == ServiceSafe => SecondCallGetsAll
<1>1. ServiceInv /\ [ServiceNext]_serviceVars => [SecondCall]_serviceVars
  BY ServiceStep
<1>2. [][SecondCall]_serviceVars <=> SecondCallGetsAll
  BY DEF SecondCall, SecondCallGetsAll
<1> QED
  BY <1>1, <1>2, ServiceInvariant, PTL DEF ServiceSafe

(* A response that is taken for a success fitted the buffers of both ends  *)
(* and has the length of the request, whatever is read behind it; all      *)
(* others are errors: the service is a behaviour of the retry protocol     *)
(* (session.c:345-369, card_modeset_ioctl_response).                       *)
THEOREM ServiceImplementsRetry == ServiceSafe => SafeSpec
<1>1. ServiceInit => Init
  BY DEF ServiceInit
<1>2. ServiceInv /\ [ServiceNext]_serviceVars => [Next]_vars
  BY StepIsRetryStep
<1> QED
  BY <1>1, <1>2, ServiceInvariant, PTL DEF ServiceSafe, SafeSpec
=============================================================================
