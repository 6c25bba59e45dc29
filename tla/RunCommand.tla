----------------------------- MODULE RunCommand -----------------------------
(***************************************************************************)
(* The command of session_start on its way to the master: lib/serialize.c  *)
(* writes it into a buffer, setuid/message.c reads it into the heap of the *)
(* master, handle_message of setuid/main.c runs it and it is freed again.  *)
(* A string is its name and its size with the final zero; a number is four *)
(* bytes of Base values each.  Any malloc of the master may fail.          *)
(***************************************************************************)
EXTENDS Integers, Sequences

CONSTANTS Base,      \* values of a byte: 256 in the code
          Room,      \* IN_BUFFER_SIZE
          String,    \* strings, each with its size
          Commands,  \* what session_start is called with
          MaxCalls   \* bound: calls of session_start

Word == Base * Base * Base * Base    \* 2^32

RUN_COMMAND == 0

VARIABLES asked,    \* the commands of the calls of session_start
          wire,     \* the message on the socket, if there is one
          rpc,      \* what message_in reads next, or what its caller does
          got,      \* the message read so far
          heap,     \* the blocks of the master, each with its message
          dropped,  \* of each message: where reading it failed, if it did
          ran,      \* what set HAVE_FORKED, if it is set
          stray,    \* has a block been freed that was not allocated?
          past      \* has argv been written past its end?

vars == <<asked, wire, rpc, got, heap, dropped, ran, stray, past>>

RunCommandAssumption ==
  /\ Base \in Nat /\ Base > 1 /\ Base % 2 = 0
  /\ Room \in Nat /\ Room < Word \div 2 /\ MaxCalls \in Nat
  /\ \A s \in String : s.size \in Nat \ {0}
  /\ Commands \subseteq [path : String, args : Seq(String)]

ASSUME RunCommandAssumption

Nothing == [path |-> <<>>, n |-> 0, slots |-> 0, args |-> <<>>]

-----------------------------------------------------------------------------
(* serialize_u32: the most significant byte first.                         *)
Digits(n) == [i \in 1..4 |-> CASE i = 1 -> (n \div (Base * Base * Base)) % Base
                               [] i = 2 -> (n \div (Base * Base)) % Base
                               [] i = 3 -> (n \div Base) % Base
                               [] i = 4 -> n % Base]

(* A bug to catch: the bytes are put together without their sign.          *)
ShiftInUnsigned(word, byte) == ((word * Base) % Word) + byte

(* A step of deserialize_u32.  char is signed: the upper half of the       *)
(* values of a byte has all the bits above it set, whatever was there.     *)
ShiftIn(word, byte) ==
  IF byte < Base \div 2 THEN ((word * Base) % Word) + byte
                        ELSE Word - Base + byte

(* What four bytes are read as; what the variable held before is shifted   *)
(* out.                                                                    *)
Read(digits) ==
  ShiftIn(ShiftIn(ShiftIn(ShiftIn(0, digits[1]), digits[2]), digits[3]), digits[4])

(* The length of a serialised command: type, path, number and strings.     *)
Length(c) ==
  LET upTo[i \in 0..Len(c.args)] == IF i = 0 THEN 8 + c.path.size
                                    ELSE upTo[i - 1] + c.args[i].size
  IN  upTo[Len(c.args)]

Message(c) == [type |-> Digits(RUN_COMMAND), path |-> c.path,
               count |-> Digits(Len(c.args)), args |-> c.args]

Number == Len(asked)
Block(kind) == <<Number, kind, 0>>
StringBlock(i) == <<Number, "string", i>>

Init == /\ asked = <<>> /\ wire = <<>> /\ rpc = "idle" /\ got = Nothing
        /\ heap = {} /\ dropped = <<>> /\ ran = <<>>
        /\ stray = FALSE /\ past = FALSE

-----------------------------------------------------------------------------
(* A bug to catch: the message is sent as far as it fits.                  *)
SentCut(c) ==
  IF Length(c) <= Room THEN <<Message(c)>>
  ELSE <<[Message(c) EXCEPT !.args = <<>>, !.count = Digits(0)]>>

(* send_message: nothing is sent if it did not fit.                        *)
Sent(c) == IF Length(c) <= Room THEN <<Message(c)>> ELSE <<>>

(* session_start, when the last message is done with.                      *)
SessionStart(c) ==
  /\ rpc = "idle" /\ wire = <<>> /\ Number < MaxCalls
  /\ asked' = Append(asked, c)
  /\ wire' = Sent(c)
  /\ dropped' = Append(dropped, IF Sent(c) = <<>> THEN "length" ELSE "no")
  /\ UNCHANGED <<rpc, got, heap, ran, stray, past>>

-----------------------------------------------------------------------------
(* free of every block of the set.                                         *)
Free(blocks) == /\ heap' = heap \ blocks
                /\ stray' = (stray \/ ~(blocks \subseteq heap))

(* message_in gives up: the message is done with.                          *)
Drop(where) == /\ rpc' = "idle" /\ wire' = <<>>
               /\ got' = Nothing
               /\ dropped' = [dropped EXCEPT ![Number] = where]
               /\ UNCHANGED <<asked, ran>>

(* message_in: the block of the message and its type, or e_malloc.         *)
ReadType ==
  /\ rpc = "idle" /\ wire # <<>>
  /\ \/ /\ Read(Head(wire).type) = RUN_COMMAND
        /\ rpc' = "path"
        /\ heap' = heap \cup {Block("message")}
        /\ UNCHANGED <<asked, wire, got, dropped, ran, stray, past>>
     \/ Drop("malloc") /\ UNCHANGED <<heap, stray, past>>

(* The path, or e_r1, where free_string gets what the new block of the     *)
(* message happened to hold: NULL or anything.                             *)
ReadPath ==
  /\ rpc = "path"
  /\ \/ /\ rpc' = "count"
        /\ got' = [got EXCEPT !.path = <<Head(wire).path>>]
        /\ heap' = heap \cup {Block("path")}
        /\ UNCHANGED <<asked, wire, dropped, ran, stray, past>>
     \/ /\ Drop("path")
        /\ heap' = heap \ {Block("message")}
        /\ stray' \in {stray, TRUE}
        /\ UNCHANGED past

(* The slots of argv: one more than there are strings, in 32 bits.         *)
Slots(n) == (n + 1) % Word

(* What goes with a message whose argv() failed: e_r2 stands behind the    *)
(* free of the path.                                                       *)
ArgvFailed == {Block("message")}

(* The number of strings and the block of argv, or e_n and e_malloc.       *)
ReadCount ==
  /\ rpc = "count"
  /\ LET n == Read(Head(wire).count) IN
     \/ /\ rpc' = "args"
        /\ got' = [got EXCEPT !.n = n, !.slots = Slots(n)]
        /\ heap' = heap \cup {Block("argv")}
        /\ UNCHANGED <<asked, wire, dropped, ran, stray, past>>
     \/ Drop("argv") /\ Free(ArgvFailed) /\ UNCHANGED past

(* A bug to catch: the clean-up does not loop over the strings.            *)
StringsReadOne == {StringBlock(i) : i \in 0..Len(got.args)}

(* The strings argv() frees, at e_strings and in its clean-up.             *)
StringsRead == {StringBlock(i) : i \in 0..(Len(got.args) - 1)}

(* One string, which needs a zero in what is left of the message and a     *)
(* block of its own, or e_strings.                                         *)
ReadString ==
  /\ rpc = "args"
  /\ LET i == Len(got.args) IN
     /\ i < got.n
     /\ \/ /\ i < Len(Head(wire).args)
           /\ got' = [got EXCEPT !.args = Append(@, Head(wire).args[i + 1])]
           /\ heap' = heap \cup {StringBlock(i)}
           /\ past' = (past \/ i >= got.slots)
           /\ UNCHANGED <<asked, wire, rpc, dropped, ran, stray>>
        \/ /\ Drop(IF i < Len(Head(wire).args) THEN "argv" ELSE "count")
           /\ Free(StringsRead \cup {Block("argv")} \cup ArgvFailed)
           /\ UNCHANGED past

(* argv[n_strings] = NULL: the message is complete.                        *)
ReadDone ==
  /\ rpc = "args" /\ Len(got.args) = got.n
  /\ rpc' = "handle"
  /\ past' = (past \/ got.n >= got.slots)
  /\ UNCHANGED <<asked, wire, got, heap, dropped, ran, stray>>

(* handle_message: the first command is run, by a child that shares the    *)
(* memory until it has its own.  clone may fail.                           *)
HandleMessage ==
  /\ rpc = "handle"
  /\ rpc' = "free"
  /\ ran' = IF ran = <<>>
            THEN <<[message |-> Number, path |-> Head(got.path), args |-> got.args]>>
            ELSE ran
  /\ UNCHANGED <<asked, wire, got, heap, dropped, stray, past>>

(* message_in_free.                                                        *)
MessageInFree ==
  /\ rpc = "free"
  /\ rpc' = "idle" /\ wire' = <<>> /\ got' = Nothing
  /\ Free(StringsRead \cup {Block("argv"), Block("path"), Block("message")})
  /\ UNCHANGED <<asked, dropped, ran, past>>

Idle == rpc = "idle" /\ wire = <<>> /\ Number = MaxCalls /\ UNCHANGED vars

Next == \/ \E c \in Commands : SessionStart(c)
        \/ ReadType \/ ReadPath \/ ReadCount \/ ReadString \/ ReadDone
        \/ HandleMessage \/ MessageInFree \/ Idle

Spec == Init /\ [][Next]_vars

-----------------------------------------------------------------------------
Kinds == {"message", "path", "argv", "string"}

TypeOK ==
  /\ asked \in Seq(Commands)
  /\ rpc \in {"idle", "path", "count", "args", "handle", "free"}
  /\ heap \subseteq (1..Number) \X Kinds \X Nat
  /\ dropped \in [1..Number -> {"no", "length", "malloc", "path", "argv", "count"}]
  /\ got.n \in 0..(Word - 1) /\ got.slots \in 0..(Word - 1)
  /\ stray \in BOOLEAN /\ past \in BOOLEAN

(* What is run is what was asked for, whole: not a command whose end did   *)
(* not fit into the buffer, not one with some of its arguments.            *)
RunsWhatWasAsked ==
  \A i \in DOMAIN ran : LET c == asked[ran[i].message] IN
    ran[i].path = c.path /\ ran[i].args = c.args

(* The numbers that survive: no byte is in the upper half of its values.   *)
Survives(n) == \A i \in 1..4 : Digits(n)[i] < Base \div 2

(* A command that fits, and that the memory of the master is enough for,   *)
(* is dropped if its number of arguments has a byte above 127              *)
(* (message.c:93), and is otherwise run, if it is the first.               *)
DroppedForItsCount ==
  \A k \in 1..Number :
    /\ dropped[k] \in {"no", "count"}
    /\ k < Number \/ wire = <<>>
    => IF Survives(Len(asked[k].args)) THEN dropped[k] = "no" /\ ran # <<>>
                                       ELSE dropped[k] = "count"

(* The paths of the messages whose argv() failed.                          *)
PathsLeft ==
  {<<k, "path", 0>> : k \in {j \in 1..Number : dropped[j] \in {"argv", "count"}}}

(* The labels of message_in and argv free what was read so far, but for    *)
(* the path of a message whose argv() failed (message.c:60).               *)
OnlyPathsStay == rpc = "idle" => heap = PathsLeft

(* Nothing is freed that is not allocated, but for the pointer in a new    *)
(* message whose path could not be read (message.c:59).                    *)
FreesWhatItHas == stray => \E k \in 1..Number : dropped[k] = "path"

(* argv is as long as what is written to it, but when its length, one more *)
(* than the number of strings, wraps to zero (message.c:197).              *)
SlotsHold ==
  past => \E k \in 1..Number : Len(asked[k].args) % Base = Base - 1

(* What the master allocates for a message it frees once, and writes to no *)
(* more than it allocated, but for those.                                  *)
MemoryIsKept == OnlyPathsStay /\ FreesWhatItHas /\ SlotsHold
=============================================================================
