--------------------------- MODULE RunCommandProofs ---------------------------
(***************************************************************************)
(* What is proved of a message on its way, of the memory it takes and of   *)
(* the command that is run in the end: for any size of a byte, any buffer  *)
(* that is smaller than half of the words, any commands and any number of  *)
(* calls, wherever a malloc fails.                                         *)
(***************************************************************************)
EXTENDS RunCommand, SequenceTheorems, WellFoundedInduction, TLAPS

Where == {"no", "length", "malloc", "path", "argv", "count"}

TypeInv ==
  /\ asked \in Seq(Commands)
  /\ rpc \in {"idle", "path", "count", "args", "handle", "free"}
  /\ dropped \in Seq(Where) /\ Len(dropped) = Number
  /\ got \in [path : Seq(String), n : 0..(Word - 1), slots : 0..(Word - 1),
              args : Seq(String)]
  /\ stray \in BOOLEAN /\ past \in BOOLEAN

(* What is on the wire is the last command, which is not dropped yet.      *)
WireInv ==
  /\ wire # <<>> => Number > 0 /\ wire = <<Message(asked[Number])>>
                      /\ dropped[Number] = "no"
  /\ rpc # "idle" => wire # <<>>

(* How much of it has been read.                                           *)
GotInv ==
  /\ rpc \in {"idle", "path", "count"} => got.args = <<>>
  /\ rpc \in {"args", "handle", "free"} =>
       /\ got.n = Read(Digits(Len(asked[Number].args)))
       /\ got.slots = Slots(got.n)

(* What is allocated for it.                                               *)
Taken ==
  (IF rpc = "idle" THEN {} ELSE {Block("message")})
    \cup (IF rpc \in {"idle", "path"} THEN {} ELSE {Block("path")})
    \cup (IF rpc \in {"idle", "path", "count"} THEN {}
          ELSE StringsRead \cup {Block("argv")})

HeapInv == heap = PathsLeft \cup Taken

IInv == TypeInv /\ WireInv /\ GotInv /\ HeapInv /\ FreesWhatItHas /\ SlotsHold

(* What was sent is short enough for its count to be read as no less.      *)
FitInv == wire # <<>> => Len(asked[Number].args) < Word \div 2

(* What has been read is how the command begins; when all of it has been,  *)
(* there are as many strings as their count said.                          *)
PrefixInv ==
  LET c == asked[Number] IN
  /\ rpc \in {"count", "args", "handle", "free"} => got.path = <<c.path>>
  /\ rpc \in {"args", "handle", "free"} =>
       /\ Len(got.args) <= Len(c.args)
       /\ \A i \in 1..Len(got.args) : got.args[i] = c.args[i]
  /\ rpc \in {"handle", "free"} => Len(got.args) = got.n

(* What is run is a command that was asked for, whole.                     *)
RanInv ==
  /\ ran # <<>> =>
       \E k \in 1..Number :
         ran = <<[message |-> k, path |-> asked[k].path, args |-> asked[k].args]>>
  /\ rpc = "free" => ran # <<>>

FateInv == FitInv /\ PrefixInv /\ RanInv /\ DroppedForItsCount
-----------------------------------------------------------------------------
(* Numbers of four bytes.                                                  *)

(* r is what a leaves when it is divided by m.                             *)
Rem(a, m, r) == r \in 0..(m - 1) /\ \E q \in Int : a = m * q + r

LEMMA ModRange ==
  ASSUME NEW a \in Nat, NEW m \in Nat \ {0}
  PROVE  a % m \in 0..(m - 1)
OBVIOUS

LEMMA ModRem ==
  ASSUME NEW a \in Nat, NEW m \in Nat \ {0}
  PROVE  Rem(a, m, a % m)
<1>1. a % m \in 0..(m - 1)
  BY ModRange
<1>2. a = m * (a \div m) + (a % m) /\ a \div m \in Int
  OBVIOUS
<1> QED
  BY <1>1, <1>2, Zenon DEF Rem

LEMMA RemUnique ==
  ASSUME NEW a \in Int, NEW m \in Nat \ {0}, NEW r, Rem(a, m, r)
  PROVE  a % m = r
BY DEF Rem

LEMMA RemTimes ==
  ASSUME NEW b \in Nat \ {0}, NEW c \in Nat \ {0}, NEW w \in Nat, NEW r,
         Rem(w, c, r)
  PROVE  Rem(w * b, b * c, b * r) /\ b * c \in Nat \ {0} /\ w * b \in Int
<1>1. r \in 0..(c - 1)
  BY DEF Rem
<1>2. PICK q \in Int : w = c * q + r
  BY DEF Rem
<1>3. w * b = (b * c) * q + b * r
  <2>1. w * b = (c * q + r) * b
    BY <1>2, Zenon
  <2>2. r \in Int /\ c \in Int /\ b \in Int
    BY <1>1
  <2>3. (c * q + r) * b = (b * c) * q + b * r
    BY <2>2
  <2> QED
    BY <2>1, <2>3, Zenon
<1>4. b * r \in 0..(b * c - 1)
  <2>1. c - r >= 1 /\ r >= 0 /\ r \in Int
    BY <1>1
  <2>2. b * (c - r) >= 1 /\ b * r >= 0
    BY <2>1
  <2>3. b * (c - r) = b * c - b * r
    BY <2>1
  <2>4. b * c \in Int /\ b * r \in Int
    BY <2>1
  <2> QED
    BY <2>2, <2>3, <2>4
<1>5. b * c \in Nat \ {0}
  OBVIOUS
<1>6. w * b \in Int
  OBVIOUS
<1> QED
  BY <1>3, <1>4, <1>5, <1>6, Zenon DEF Rem

(* A shift by one byte leaves zeros behind.                                *)
LEMMA ModTimes ==
  ASSUME NEW b \in Nat \ {0}, NEW c \in Nat \ {0}, NEW w \in Nat
  PROVE  (w * b) % (b * c) = b * (w % c)
<1>1. Rem(w, c, w % c)
  BY ModRem, Zenon
<1>2. Rem(w * b, b * c, b * (w % c)) /\ b * c \in Nat \ {0} /\ w * b \in Int
  BY <1>1, RemTimes, Zenon
<1> QED
  BY <1>2, RemUnique, Zenon

Cube == Base * Base * Base

LEMMA WordFacts ==
  /\ Base \in Nat \ {0} /\ Base > 1 /\ Cube \in Nat \ {0}
  /\ Word = Base * Cube /\ Word \in Nat \ {0}
  /\ Base \div 2 \in Nat /\ Base \div 2 < Base
<1>1. Base \in Nat \ {0} /\ Base > 1
  BY RunCommandAssumption DEF RunCommandAssumption
<1>2. Cube \in Nat \ {0}
  <2>1. Base * Base \in Nat \ {0}
    BY <1>1
  <2> QED
    BY <1>1, <2>1 DEF Cube
<1>3. Word = Base * Cube
  BY <1>1, <1>2 DEF Word, Cube
<1>4. Word \in Nat \ {0}
  BY <1>1, <1>2, <1>3
<1> QED
  BY <1>1, <1>2, <1>3, <1>4

(* What a word leaves of itself when it is shifted.                        *)
LEMMA Shifted ==
  ASSUME NEW word \in Nat
  PROVE  \E k \in 0..(Cube - 1) : (word * Base) % Word = Base * k
<1>1. word % Cube \in 0..(Cube - 1)
  BY WordFacts, ModRange
<1>2. (word * Base) % Word = Base * (word % Cube)
  BY WordFacts, ModTimes, Zenon
<1> QED
  BY <1>1, <1>2, Zenon

LEMMA ShiftInFacts ==
  ASSUME NEW word \in Nat, NEW byte \in 0..(Base - 1)
  PROVE  /\ ShiftIn(word, byte) \in 0..(Word - 1)
         /\ ShiftIn(word, byte) = Word - 1 => byte = Base - 1
<1>1. PICK k \in 0..(Cube - 1) : (word * Base) % Word = Base * k
  BY Shifted
<1>2. Base * k >= 0 /\ Base * k <= Word - Base
  <2>1. Cube - 1 - k >= 0 /\ Cube \in Int /\ k \in Int /\ k >= 0
    BY WordFacts
  <2>2. Base * (Cube - 1 - k) >= 0 /\ Base * k >= 0
    BY <2>1, WordFacts
  <2>3. Base * (Cube - 1 - k) = Base * Cube - Base - Base * k
    BY <2>1, WordFacts
  <2> QED
    BY <2>2, <2>3, <2>1, WordFacts
<1>3. CASE byte < Base \div 2
  <2>1. ShiftIn(word, byte) = Base * k + byte
    BY <1>1, <1>3, Zenon DEF ShiftIn
  <2>2. Base * k \in Int /\ byte \in Int /\ byte >= 0 /\ byte < Base - 1
    BY <1>3, WordFacts
  <2> QED
    BY <2>1, <2>2, <1>2, WordFacts
<1>4. CASE ~(byte < Base \div 2)
  <2>1. ShiftIn(word, byte) = Word - Base + byte
    BY <1>4, Zenon DEF ShiftIn
  <2>2. Word >= Base
    BY <1>2, WordFacts
  <2> QED
    BY <2>1, <2>2, WordFacts
<1> QED
  BY <1>3, <1>4

LEMMA DigitsFacts ==
  ASSUME NEW n \in Nat
  PROVE  /\ \A i \in 1..4 : Digits(n)[i] \in 0..(Base - 1)
         /\ Digits(n)[4] = n % Base
<1>1. /\ n \div (Base * Base * Base) \in Nat /\ n \div (Base * Base) \in Nat
      /\ n \div Base \in Nat
  <2>1. Base * Base \in Nat \ {0} /\ Base * Base * Base \in Nat \ {0}
    BY WordFacts DEF Cube
  <2>2. \A m \in Nat \ {0} : n \div m \in Nat
    OBVIOUS
  <2> QED
    BY <2>1, <2>2, WordFacts
<1>2. \A a \in Nat : a % Base \in 0..(Base - 1)
  BY WordFacts, ModRange
<1>3. /\ Digits(n)[1] = (n \div (Base * Base * Base)) % Base
      /\ Digits(n)[2] = (n \div (Base * Base)) % Base
      /\ Digits(n)[3] = (n \div Base) % Base
      /\ Digits(n)[4] = n % Base
  BY DEF Digits
<1>4. \A i \in 1..4 : i = 1 \/ i = 2 \/ i = 3 \/ i = 4
  OBVIOUS
<1> QED
  BY <1>1, <1>2, <1>3, <1>4, Zenon

(* Only a number whose last byte is the largest is read as the largest.    *)
LEMMA ReadFacts ==
  ASSUME NEW n \in Nat
  PROVE  /\ Read(Digits(n)) \in 0..(Word - 1)
         /\ Read(Digits(n)) = Word - 1 => n % Base = Base - 1
<1> DEFINE a == ShiftIn(0, Digits(n)[1])
           b == ShiftIn(a, Digits(n)[2])
           c == ShiftIn(b, Digits(n)[3])
<1>1. /\ Digits(n)[1] \in 0..(Base - 1) /\ Digits(n)[2] \in 0..(Base - 1)
      /\ Digits(n)[3] \in 0..(Base - 1) /\ Digits(n)[4] \in 0..(Base - 1)
      /\ Digits(n)[4] = n % Base
  BY DigitsFacts
<1>2. \A w \in 0..(Word - 1) : w \in Nat
  BY WordFacts
<1>3. a \in Nat
  BY <1>1, <1>2, ShiftInFacts
<1>4. b \in Nat
  BY <1>1, <1>2, <1>3, ShiftInFacts
<1>5. c \in Nat
  BY <1>1, <1>2, <1>4, ShiftInFacts
<1>6. Read(Digits(n)) = ShiftIn(c, Digits(n)[4])
  BY DEF Read
<1> HIDE DEF c
<1> QED
  BY <1>1, <1>5, <1>6, ShiftInFacts

LEMMA SlotsFacts ==
  ASSUME NEW n \in 0..(Word - 1)
  PROVE  /\ Slots(n) \in 0..(Word - 1)
         /\ n >= Slots(n) => n = Word - 1
<1>1. n + 1 \in Nat /\ Word \in Nat \ {0}
  BY WordFacts
<1>2. Slots(n) \in 0..(Word - 1)
  BY <1>1, ModRange DEF Slots
<1>3. n # Word - 1 => (n + 1) % Word = n + 1
  BY <1>1
<1> QED
  BY <1>1, <1>2, <1>3 DEF Slots


(* Division.                                                               *)
LEMMA DivUnique ==
  ASSUME NEW a \in Nat, NEW m \in Nat \ {0}, NEW q \in Int, NEW r \in 0..(m - 1),
         a = m * q + r
  PROVE  a \div m = q
OBVIOUS

LEMMA DivIs ==
  ASSUME NEW a \in Nat, NEW m \in Nat \ {0}
  PROVE  /\ a \div m \in Nat /\ (a % m) \in 0..(m - 1)
         /\ a = m * (a \div m) + (a % m)
OBVIOUS

LEMMA DivDiv ==
  ASSUME NEW a \in Nat, NEW b \in Nat \ {0}, NEW c \in Nat \ {0}
  PROVE  a \div (b * c) = (a \div b) \div c
<1> DEFINE q == a \div b
           p == q \div c
           r == a % b
           t == q % c
<1>1. q \in Nat /\ r \in 0..(b - 1) /\ a = b * q + r
  BY DivIs
<1>2. p \in Nat /\ t \in 0..(c - 1) /\ q = c * p + t
  BY <1>1, DivIs
<1> HIDE DEF p, q, r, t
<1>3. a = (b * c) * p + (b * t + r)
  <2>1. a = b * (c * p + t) + r
    BY <1>1, <1>2
  <2>2. b * (c * p + t) = (b * c) * p + b * t
    BY <1>2
  <2>3. (b * c) * p \in Int /\ b * t \in Int /\ r \in Int
    BY <1>1, <1>2
  <2> QED
    BY <2>1, <2>2, <2>3
<1>4. b * t + r \in 0..(b * c - 1)
  <2>1. c - 1 - t >= 0 /\ t >= 0 /\ t \in Int /\ r \in Int
    BY <1>1, <1>2
  <2>2. b * (c - 1 - t) >= 0 /\ b * t >= 0
    BY <2>1
  <2>3. b * (c - 1 - t) = b * c - b - b * t
    BY <2>1
  <2>4. b * c \in Int /\ b * t \in Int
    BY <2>1
  <2> QED
    BY <2>2, <2>3, <2>4, <1>1
<1>5. b * c \in Nat \ {0}
  OBVIOUS
<1>6. a \div (b * c) = p
  BY <1>2, <1>3, <1>4, <1>5, DivUnique
<1> QED
  BY <1>6 DEF p, q

(* The lower half of the values of a byte.                                 *)
Half == Base \div 2

LEMMA HalfFacts ==
  /\ Half \in Nat \ {0} /\ Base = 2 * Half
  /\ Word \div 2 = Half * Cube
  /\ Half * (Base * Base) \in Nat /\ Half * Base \in Nat
  /\ Half <= Half * Base /\ Half * Base <= Half * (Base * Base)
  /\ Half * (Base * Base) <= Half * Cube
  /\ Word = 2 * (Half * Cube)
<1>1. Base \in Nat /\ Base > 1 /\ Base % 2 = 0
  BY RunCommandAssumption DEF RunCommandAssumption
<1>2. Half \in Nat \ {0} /\ Base = 2 * Half
  BY <1>1 DEF Half
<1>3. Cube \in Nat \ {0} /\ Word = Base * Cube
  BY WordFacts
<1>4. Half * Cube \in Nat /\ Word = 2 * (Half * Cube)
  BY <1>2, <1>3
<1>5. Word \div 2 = Half * Cube
  BY <1>4
<1>6. Base * Base \in Nat /\ Base * Base >= Base /\ Base * Base >= 1
  BY <1>1
<1>7. \A x, y \in Nat : x <= y => Half * x <= Half * y
  BY <1>2
<1>8. Cube = (Base * Base) * Base /\ Base * Base <= Cube
  <2>1. Cube = (Base * Base) * Base
    BY DEF Cube
  <2>2. \A x \in Nat : x <= x * Base
    BY <1>1
  <2> QED
    BY <2>1, <2>2, <1>6
<1>9. Half <= Half * Base
  BY <1>1, <1>2
<1> QED
  BY <1>1, <1>2, <1>3, <1>4, <1>5, <1>6, <1>7, <1>8, <1>9

(* Without a byte in the upper half nothing is lost until the word is full.*)
LEMMA ShiftExact ==
  ASSUME NEW w \in Nat, NEW byte \in 0..(Base - 1), byte < Half, w * Base < Word
  PROVE  ShiftIn(w, byte) = w * Base + byte
<1>1. w * Base \in Nat
  BY WordFacts
<1>2. (w * Base) % Word = w * Base
  BY <1>1, WordFacts
<1> QED
  BY <1>2, Zenon DEF ShiftIn, Half

(* A byte in the upper half sets every bit above it.                       *)
LEMMA ShiftHigh ==
  ASSUME NEW w \in Nat, NEW byte \in 0..(Base - 1), ~(byte < Half)
  PROVE  ShiftIn(w, byte) >= Word - Half
<1>1. ShiftIn(w, byte) = Word - Base + byte
  BY Zenon DEF ShiftIn, Half
<1> QED
  BY <1>1, WordFacts, HalfFacts

(* These stay set as more bytes come.                                      *)
LEMMA ShiftStays ==
  ASSUME NEW k \in Nat \ {0}, k * Base <= Word, Half <= k * Base,
         NEW w \in 0..(Word - 1), w >= Word - k, NEW byte \in 0..(Base - 1)
  PROVE  ShiftIn(w, byte) >= Word - k * Base
<1> DEFINE m == Word - w
<1>1. m \in Nat \ {0} /\ m <= k /\ w = Word - m /\ k * Base \in Nat /\ m * Base \in Nat
  BY WordFacts
<1> HIDE DEF m
<1>2. m * Base <= k * Base /\ m * Base >= 1
  BY <1>1, WordFacts
<1>3. CASE byte < Half
  <2>1. w * Base = Word * (Base - 1) + (Word - m * Base)
    BY <1>1, WordFacts
  <2>2. Word - m * Base \in 0..(Word - 1)
    BY <1>1, <1>2, WordFacts
  <2>3. Rem(w * Base, Word, Word - m * Base) /\ w * Base \in Int
    <3>1. Base - 1 \in Int
      BY WordFacts
    <3>2. w * Base \in Int
      BY WordFacts
    <3> QED
      BY <2>1, <2>2, <3>1, <3>2, Zenon DEF Rem
  <2>4. (w * Base) % Word = Word - m * Base
    BY <2>3, WordFacts, RemUnique, Zenon
  <2>5. ShiftIn(w, byte) = (Word - m * Base) + byte
    BY <1>3, <2>4, Zenon DEF ShiftIn, Half
  <2> QED
    BY <2>5, <1>1, <1>2, WordFacts
<1>4. CASE ~(byte < Half)
  <2>1. ShiftIn(w, byte) >= Word - Half
    <3>1. w \in Nat
      BY WordFacts
    <3> QED
      BY <1>4, <3>1, ShiftHigh
  <2>2. ShiftIn(w, byte) \in Int
    <3>1. w \in Nat
      BY WordFacts
    <3> QED
      BY <3>1, WordFacts, ShiftInFacts
  <2> QED
    BY <2>1, <2>2, <1>1, WordFacts, HalfFacts
<1> QED
  BY <1>3, <1>4

(* The digits of a number below the half of a word, as what is left of it. *)
LEMMA DigitsAre ==
  ASSUME NEW n \in Nat, n < Word \div 2
  PROVE  \E q1, q2, q3 \in Nat :
           /\ q2 = q1 * Base + Digits(n)[2] /\ q3 = q2 * Base + Digits(n)[3]
           /\ n = q3 * Base + Digits(n)[4]
           /\ Digits(n)[1] = q1 /\ q1 < Half
           /\ q1 * Base <= n /\ q2 * Base <= n /\ q3 * Base <= n
<1> DEFINE q1 == n \div (Base * Base * Base)
           q2 == n \div (Base * Base)
           q3 == n \div Base
<1>1. Base \in Nat \ {0} /\ Base * Base \in Nat \ {0} /\ Base * Base * Base \in Nat \ {0}
  BY WordFacts DEF Cube
<1>2. q3 \div Base = q2 /\ q2 \div Base = q1
  BY <1>1, DivDiv, Zenon
<1>3. /\ Digits(n)[1] = q1 % Base /\ Digits(n)[2] = q2 % Base
      /\ Digits(n)[3] = q3 % Base /\ Digits(n)[4] = n % Base
  BY DEF Digits
<1>4. n = (Base * Base * Base) * q1 + (n % (Base * Base * Base)) /\ q1 \in Nat
        /\ (n % (Base * Base * Base)) \in Nat
  <2>1. \A a \in Nat, m \in Nat \ {0} :
          /\ a \div m \in Nat /\ (a % m) \in Nat
          /\ a = m * (a \div m) + (a % m)
    BY DivIs
  <2> QED
    BY <1>1, <2>1, Zenon
<1>5. /\ q3 \in Nat /\ n = Base * q3 + (n % Base)
      /\ (n % Base) \in 0..(Base - 1)
  BY <1>1, DivIs, Zenon
<1>6. /\ q2 \in Nat /\ q3 = Base * q2 + (q3 % Base)
      /\ (q3 % Base) \in 0..(Base - 1)
  BY <1>1, <1>2, <1>5, DivIs, Zenon
<1>7. q2 = Base * q1 + (q2 % Base) /\ (q2 % Base) \in 0..(Base - 1)
  BY <1>1, <1>2, <1>6, DivIs, Zenon
<1> HIDE DEF q1, q2, q3
<1>8. q1 < Half
  <2>1. Word \div 2 = Half * Cube /\ Half \in Nat /\ Cube \in Nat \ {0}
          /\ Cube = Base * Base * Base
    BY HalfFacts, WordFacts DEF Cube
  <2>2. Cube * q1 < Half * Cube
    <3>1. n = Cube * q1 + (n % Cube) /\ (n % Cube) \in Nat
      BY <1>4, <2>1, Zenon
    <3>2. Cube * q1 \in Nat /\ Half * Cube \in Nat /\ n < Half * Cube
      BY <1>4, <2>1
    <3> QED
      BY <3>1, <3>2
  <2>3. q1 >= Half => Cube * q1 >= Half * Cube
    BY <1>4, <2>1
  <2>4. Cube * q1 \in Nat /\ Half * Cube \in Nat
    BY <1>4, <2>1
  <2> QED
    BY <1>4, <2>1, <2>2, <2>3, <2>4
<1>9. q1 % Base = q1
  <2>1. q1 \in 0..(Base - 1)
    BY <1>4, <1>8, HalfFacts, WordFacts
  <2> QED
    BY <2>1, WordFacts
<1>10. q1 * Base <= q2 /\ q2 * Base <= q3 /\ q3 * Base <= n
  BY <1>1, <1>4, <1>5, <1>6, <1>7
<1>11. \A x \in Nat : x <= x * Base
  BY <1>1
<1>12. q1 * Base <= n /\ q2 * Base <= n /\ q3 * Base <= n
  <2>1. q2 <= q2 * Base /\ q3 <= q3 * Base
    BY <1>5, <1>6, <1>11
  <2>2. q1 * Base \in Nat /\ q2 * Base \in Nat /\ q3 * Base \in Nat
    BY <1>1, <1>4, <1>5, <1>6
  <2> QED
    BY <2>1, <2>2, <1>10, <1>5, <1>6
<1>13. /\ q2 = q1 * Base + Digits(n)[2] /\ q3 = q2 * Base + Digits(n)[3]
       /\ n = q3 * Base + Digits(n)[4]
  <2>1. Base * q1 = q1 * Base /\ Base * q2 = q2 * Base /\ Base * q3 = q3 * Base
    BY <1>1, <1>4, <1>5, <1>6
  <2> QED
    BY <2>1, <1>3, <1>5, <1>6, <1>7, Zenon
<1> QED
  BY <1>3, <1>4, <1>5, <1>6, <1>8, <1>9, <1>12, <1>13, Zenon

(* A number is read as what it is, or as more.                             *)
LEMMA ReadIs ==
  ASSUME NEW n \in Nat, n < Word \div 2
  PROVE  IF Survives(n) THEN Read(Digits(n)) = n ELSE Read(Digits(n)) > n
<1> DEFINE a == ShiftIn(0, Digits(n)[1])
           b == ShiftIn(a, Digits(n)[2])
           c == ShiftIn(b, Digits(n)[3])
           d == ShiftIn(c, Digits(n)[4])
<1>1. Read(Digits(n)) = d
  BY DEF Read
<1>2. \A i \in 1..4 : Digits(n)[i] \in 0..(Base - 1)
  BY DigitsFacts
<1>3. PICK q1, q2, q3 \in Nat :
        /\ q2 = q1 * Base + Digits(n)[2] /\ q3 = q2 * Base + Digits(n)[3]
        /\ n = q3 * Base + Digits(n)[4]
        /\ Digits(n)[1] = q1 /\ q1 < Half
        /\ q1 * Base <= n /\ q2 * Base <= n /\ q3 * Base <= n
  BY DigitsAre
<1>4. n < Word /\ Word \in Nat \ {0} /\ Base \in Nat \ {0}
  BY WordFacts
<1>5. q1 * Base < Word /\ q2 * Base < Word /\ q3 * Base < Word /\ 0 * Base < Word
  BY <1>3, <1>4
<1>6. a = q1
  <2>1. q1 \in 0..(Base - 1)
    BY <1>2, <1>3
  <2>2. a = 0 * Base + q1
    BY <1>3, <1>5, <2>1, ShiftExact
  <2> QED
    BY <2>2, <1>4
<1>7. a \in 0..(Word - 1) /\ b \in 0..(Word - 1) /\ c \in 0..(Word - 1) /\ d \in 0..(Word - 1)
  <2> HIDE DEF a
  <2>0. \A w \in 0..(Word - 1) : w \in Nat
    BY <1>4
  <2>1. a \in 0..(Word - 1)
    <3>1. 0 \in Nat /\ Digits(n)[1] \in 0..(Base - 1)
      BY <1>2
    <3> QED
      BY <3>1, ShiftInFacts, Zenon DEF a
  <2>2. b \in 0..(Word - 1)
    BY <1>2, <2>0, <2>1, ShiftInFacts
  <2> HIDE DEF b
  <2>3. c \in 0..(Word - 1)
    BY <1>2, <2>0, <2>2, ShiftInFacts
  <2> HIDE DEF c
  <2>4. d \in 0..(Word - 1)
    BY <1>2, <2>0, <2>3, ShiftInFacts
  <2> QED
    BY <2>1, <2>2, <2>3, <2>4
<1> HIDE DEF a
<1>8. CASE Survives(n)
  <2>1. \A i \in 1..4 : Digits(n)[i] < Half
    BY <1>8 DEF Survives, Half
  <2>2. b = q2
    BY <1>2, <1>3, <1>5, <1>6, <2>1, ShiftExact
  <2> HIDE DEF b
  <2>3. c = q3
    BY <1>2, <1>3, <1>5, <2>1, <2>2, ShiftExact
  <2> HIDE DEF c
  <2>4. d = n
    BY <1>2, <1>3, <1>5, <2>1, <2>3, ShiftExact
  <2> QED
    BY <1>1, <1>8, <2>4
<1>9. CASE ~Survives(n)
  <2> DEFINE K == Half * Base
             L == K * Base
  <2>1. /\ Half \in Nat \ {0} /\ K \in Nat \ {0} /\ L \in Nat
        /\ Half <= K /\ K <= L /\ L + L <= Word /\ Word \div 2 <= Word - L
    <3>1. L = Half * (Base * Base)
      BY HalfFacts, WordFacts
    <3>2. K \in Nat /\ Half \in Nat \ {0} /\ Half <= K
      BY HalfFacts
    <3>3. /\ Half * (Base * Base) \in Nat /\ K <= Half * (Base * Base)
          /\ Half * (Base * Base) <= Half * Cube /\ Word = 2 * (Half * Cube)
          /\ Word \div 2 = Half * Cube /\ Half * Cube \in Nat
      BY HalfFacts, WordFacts
    <3> HIDE DEF K, L
    <3> QED
      BY <3>1, <3>2, <3>3
  <2>2. Half <= L /\ K <= Word /\ L <= Word
    BY <2>1, <1>4
  <2>3. PICK i \in 1..4 : ~(Digits(n)[i] < Half)
    BY <1>9 DEF Survives, Half
  <2>4. i = 2 \/ i = 3 \/ i = 4
    BY <1>3, <2>3
  <2> SUFFICES d >= Word - L
    <3> HIDE DEF L, d
    <3>1. d \in Nat
      BY <1>4, <1>7
    <3> QED
      BY <3>1, <1>1, <1>4, <1>9, <2>1
  <2>5. \A w \in 0..(Word - 1) : w \in Nat
    BY <1>4
  <2> HIDE DEF d
  <2>6. c >= Word - K => d >= Word - L
    BY <1>2, <1>7, <2>1, <2>2, ShiftStays DEF d
  <2>7. CASE i = 4
    <3>1. d >= Word - Half
      BY <1>2, <1>7, <2>3, <2>5, <2>7, ShiftHigh DEF d
    <3>2. d \in Nat
      BY <1>7, <2>5
    <3> HIDE DEF L
    <3> QED
      BY <3>1, <3>2, <2>1, <2>2, <1>4
  <2> HIDE DEF c
  <2>8. CASE i = 3
    <3>1. c >= Word - Half
      BY <1>2, <1>7, <2>3, <2>5, <2>8, ShiftHigh DEF c
    <3>2. c \in Nat
      BY <1>7, <2>5
    <3>3. c >= Word - K
      <4> HIDE DEF K
      <4> QED
        BY <3>1, <3>2, <2>1, <1>4
    <3> QED
      BY <2>6, <3>3
  <2> HIDE DEF b
  <2>9. CASE i = 2
    <3>1. b >= Word - Half
      BY <1>2, <1>7, <2>3, <2>5, <2>9, ShiftHigh DEF b
    <3>2. c >= Word - K
      BY <3>1, <1>2, <1>7, <2>1, <2>2, ShiftStays DEF c
    <3> QED
      BY <2>6, <3>2
  <2> QED
    BY <2>4, <2>7, <2>8, <2>9
<1> QED
  BY <1>8, <1>9
-----------------------------------------------------------------------------
(* Sums over the strings of a command.                                     *)

(* A set of numbers that is not empty has a least one.                     *)
LEMMA LeastIs ==
  ASSUME NEW T, T \subseteq Nat, T # {}
  PROVE  \E x \in T : \A y \in T : ~(y < x)
<1> DEFINE R == OpToRel(<, Nat)
<1>1. IsWellFoundedOn(R, Nat)
  BY NatLessThanWellFounded, Zenon
<1>2. \A y, x \in Nat : y < x => <<y, x>> \in R
  BY DEF OpToRel
<1> HIDE DEF R
<1>3. PICK x \in T : \A y \in T : ~(<<y, x>> \in R)
  BY <1>1, WFMin, Zenon
<1> QED
  BY <1>2, <1>3

(* Induction, over the numbers of a set.                                   *)
LEMMA SetInduction ==
  ASSUME NEW S, 0 \in S, \A n \in Nat : n \in S => n + 1 \in S
  PROVE  Nat \subseteq S
<1> SUFFICES ASSUME Nat \ S # {} PROVE FALSE
  OBVIOUS
<1>1. PICK x \in Nat \ S : \A y \in Nat \ S : ~(y < x)
  BY LeastIs
<1>2. x # 0 /\ x - 1 \in Nat /\ x - 1 < x
  BY <1>1
<1>3. x - 1 \in S
  BY <1>1, <1>2
<1> QED
  BY <1>1, <1>2, <1>3

(* g is the sum, from b on, of s up to each place.                         *)
IsSum(g, b, s, n) == g = [i \in 0..n |-> IF i = 0 THEN b ELSE g[i - 1] + s[i]]

LEMMA SumExists ==
  ASSUME NEW b, NEW s
  PROVE  \A n \in Nat : \E g : IsSum(g, b, s, n)
<1> DEFINE S == {n \in Nat : \E g : IsSum(g, b, s, n)}
<1>1. 0 \in S
  <2>1. [i \in 0..0 |-> b] = [i \in 0..0 |-> IF i = 0 THEN b ELSE [j \in 0..0 |-> b][i - 1] + s[i]]
    OBVIOUS
  <2> QED
    BY <2>1 DEF IsSum
<1>2. ASSUME NEW n \in Nat, n \in S PROVE n + 1 \in S
  <2>1. PICK g : IsSum(g, b, s, n)
    BY <1>2
  <2> DEFINE h == [i \in 0..(n + 1) |-> IF i = n + 1 THEN g[n] + s[n + 1] ELSE g[i]]
  <2>2. \A i \in 0..n : h[i] = g[i]
    OBVIOUS
  <2>3. \A i \in 0..n : g[i] = IF i = 0 THEN b ELSE g[i - 1] + s[i]
    BY <2>1 DEF IsSum
  <2>4. ASSUME NEW i \in 0..(n + 1)
        PROVE  h[i] = IF i = 0 THEN b ELSE h[i - 1] + s[i]
    <3>1. CASE i = n + 1
      <4>1. h[i] = g[n] + s[i] /\ i # 0 /\ i - 1 = n /\ n \in 0..n
        BY <3>1
      <4>2. h[i - 1] = g[n]
        BY <2>2, <4>1
      <4> QED
        BY <4>1, <4>2
    <3>2. CASE i # n + 1
      <4>1. i \in 0..n
        BY <3>2
      <4>2. i # 0 => i - 1 \in 0..n
        BY <4>1
      <4>3. h[i] = g[i] /\ (i # 0 => h[i - 1] = g[i - 1])
        BY <2>2, <4>1, <4>2
      <4>4. g[i] = IF i = 0 THEN b ELSE g[i - 1] + s[i]
        BY <2>3, <4>1
      <4> QED
        BY <4>3, <4>4, Zenon
    <3> QED
      BY <3>1, <3>2
  <2>5. h = [i \in 0..(n + 1) |-> h[i]]
    OBVIOUS
  <2> HIDE DEF h
  <2>6. IsSum(h, b, s, n + 1)
    BY <2>4, <2>5, Zenon DEF IsSum
  <2> QED
    BY <2>6
<1>3. Nat \subseteq S
  <2> HIDE DEF S
  <2> QED
    BY <1>1, <1>2, SetInduction
<1> QED
  BY <1>3

(* Every term that is at least one counts.                                 *)
LEMMA SumGrows ==
  ASSUME NEW b \in Nat, NEW N \in Nat, NEW s, \A i \in 1..N : s[i] \in Nat \ {0},
         NEW g, IsSum(g, b, s, N)
  PROVE  g[N] \in Nat /\ g[N] >= b + N
<1> DEFINE S == {n \in Nat : n <= N => g[n] \in Nat /\ g[n] >= b + n}
<1>0. \A i \in 0..N : g[i] = IF i = 0 THEN b ELSE g[i - 1] + s[i]
  BY DEF IsSum
<1>1. 0 \in S
  <2>1. g[0] = b
    BY <1>0
  <2> QED
    BY <2>1
<1>2. ASSUME NEW n \in Nat, n \in S PROVE n + 1 \in S
  <2> SUFFICES ASSUME n + 1 <= N PROVE g[n + 1] \in Nat /\ g[n + 1] >= b + (n + 1)
    OBVIOUS
  <2>1. g[n] \in Nat /\ g[n] >= b + n
    BY <1>2
  <2>2. g[n + 1] = g[n] + s[n + 1] /\ s[n + 1] \in Nat \ {0}
    <3>1. n + 1 \in 0..N /\ n + 1 \in 1..N /\ n + 1 # 0 /\ (n + 1) - 1 = n
      OBVIOUS
    <3> QED
      BY <1>0, <3>1
  <2> QED
    BY <2>1, <2>2
<1>3. Nat \subseteq S
  <2> HIDE DEF S
  <2> QED
    BY <1>1, <1>2, SetInduction
<1> QED
  BY <1>3

(* A command is longer than the number of its strings.                     *)
LEMMA LengthIs ==
  ASSUME NEW c \in Commands
  PROVE  Length(c) \in Nat /\ Len(c.args) \in Nat /\ Length(c) > Len(c.args)
<1> DEFINE s == [i \in 1..Len(c.args) |-> c.args[i].size]
           b == 8 + c.path.size
           N == Len(c.args)
           g == CHOOSE g : g = [i \in 0..N |-> IF i = 0 THEN b ELSE g[i - 1] + c.args[i].size]
<1>1. /\ N \in Nat /\ b \in Nat /\ b > 0
      /\ \A i \in 1..N : s[i] \in Nat \ {0} /\ s[i] = c.args[i].size
  BY RunCommandAssumption DEF RunCommandAssumption
<1>2. Length(c) = g[N]
  BY DEF Length
<1>3. \A f : f = [i \in 0..N |-> IF i = 0 THEN b ELSE f[i - 1] + c.args[i].size]
        <=> IsSum(f, b, s, N)
  <2> TAKE f
  <2>1. \A i \in 0..N : (IF i = 0 THEN b ELSE f[i - 1] + c.args[i].size)
                        = (IF i = 0 THEN b ELSE f[i - 1] + s[i])
    <3> TAKE i \in 0..N
    <3>1. i # 0 => i \in 1..N
      BY <1>1
    <3> QED
      BY <1>1, <3>1
  <2> HIDE DEF s, b
  <2> QED
    BY <2>1 DEF IsSum
<1> HIDE DEF b, s, N
<1>4. \E f : IsSum(f, b, s, N)
  BY <1>1, SumExists
<1>5. IsSum(g, b, s, N)
  BY <1>3, <1>4, Zenon
<1>6. g[N] \in Nat /\ g[N] >= b + N
  <2> HIDE DEF g
  <2> QED
    BY <1>1, <1>5, SumGrows
<1> QED
  BY <1>1, <1>2, <1>6 DEF N
-----------------------------------------------------------------------------
(* Blocks.                                                                 *)

(* The blocks of the last message are not those that are left of others.   *)
LEMMA TakenApart ==
  ASSUME dropped[Number] = "no"
  PROVE  /\ StringsRead \cap PathsLeft = {}
         /\ Block("message") \notin PathsLeft /\ Block("argv") \notin PathsLeft
         /\ Block("path") \notin PathsLeft
         /\ Block("message") \notin StringsRead /\ Block("argv") \notin StringsRead
         /\ Block("path") \notin StringsRead
         /\ Block("message") # Block("path") /\ Block("argv") # Block("path")
<1>1. Block("path") \notin PathsLeft
  BY DEF Block, PathsLeft
<1>2. \A b \in PathsLeft : b[2] = "path"
  BY DEF PathsLeft
<1>3. \A b \in StringsRead : b[2] = "string"
  BY DEF StringsRead, StringBlock
<1>4. \A kind : Block(kind)[2] = kind
  BY DEF Block
<1> QED
  BY <1>1, <1>2, <1>3, <1>4

(* What is left of messages when the last one is dropped.                  *)
LEMMA DropPaths ==
  ASSUME IInv, Number > 0, asked' = asked, NEW where \in Where,
         dropped[Number] = "no",
         dropped' = [dropped EXCEPT ![Number] = where]
  PROVE  /\ PathsLeft' = PathsLeft \cup
                          (IF where \in {"argv", "count"} THEN {Block("path")} ELSE {})
         /\ dropped' \in Seq(Where) /\ Len(dropped') = Number'
         /\ dropped'[Number] = where
<1>1. dropped \in Seq(Where) /\ Len(dropped) = Number /\ Number \in Nat
  BY DEF IInv, TypeInv, Number
<1>2. /\ dropped' \in Seq(Where) /\ Len(dropped') = Len(dropped)
      /\ dropped'[Number] = where
      /\ \A j \in 1..Number : j # Number => dropped'[j] = dropped[j]
  BY <1>1
<1>3. Number' = Number
  BY DEF Number
<1> DEFINE Bad(d, N) == {j \in 1..N : d[j] \in {"argv", "count"}}
<1>4. Bad(dropped', Number) = Bad(dropped, Number) \cup
        (IF where \in {"argv", "count"} THEN {Number} ELSE {})
  BY <1>1, <1>2
<1>5. /\ PathsLeft = {<<k, "path", 0>> : k \in Bad(dropped, Number)}
      /\ PathsLeft' = {<<k, "path", 0>> : k \in Bad(dropped', Number)}
  BY <1>3 DEF PathsLeft
<1> HIDE DEF Bad
<1>6. PathsLeft' = PathsLeft \cup
        (IF where \in {"argv", "count"} THEN {<<Number, "path", 0>>} ELSE {})
  BY <1>4, <1>5
<1> QED
  BY <1>1, <1>2, <1>3, <1>6 DEF Block

(* The parts of the invariant that a dropped message has no part in.       *)
LEMMA DropKeeps ==
  ASSUME IInv, rpc \in {"idle", "path", "count", "args"}, wire # <<>>,
         NEW where \in Where \ {"no"},
         Drop(where)
  PROVE  /\ (stray' \in BOOLEAN /\ past' \in BOOLEAN) => TypeInv'
         /\ WireInv' /\ GotInv' /\ Taken' = {}
         /\ PathsLeft' = PathsLeft \cup
                          (IF where \in {"argv", "count"} THEN {Block("path")} ELSE {})
         /\ (FreesWhatItHas /\ stray' = stray) => FreesWhatItHas'
         /\ where = "path" => FreesWhatItHas'
         /\ past' = past => SlotsHold'
<1>1. /\ rpc' = "idle" /\ wire' = <<>> /\ got' = Nothing
      /\ dropped' = [dropped EXCEPT ![Number] = where] /\ asked' = asked
  BY DEF Drop
<1>2. Number > 0 /\ dropped[Number] = "no" /\ Number \in Nat
  BY DEF IInv, WireInv, TypeInv, Number
<1>3. /\ PathsLeft' = PathsLeft \cup
                       (IF where \in {"argv", "count"} THEN {Block("path")} ELSE {})
      /\ dropped' \in Seq(Where) /\ Len(dropped') = Number'
      /\ dropped'[Number] = where
  BY <1>1, <1>2, DropPaths
<1>4. Number' = Number
  BY <1>1 DEF Number
<1>5. Nothing \in [path : Seq(String), n : 0..(Word - 1), slots : 0..(Word - 1),
                   args : Seq(String)]
  BY WordFacts DEF Nothing
<1>6. (stray' \in BOOLEAN /\ past' \in BOOLEAN) => TypeInv'
  <2>1. /\ asked' \in Seq(Commands)
        /\ rpc' \in {"idle", "path", "count", "args", "handle", "free"}
        /\ got' \in [path : Seq(String), n : 0..(Word - 1), slots : 0..(Word - 1),
                     args : Seq(String)]
    BY <1>1, <1>5 DEF IInv, TypeInv
  <2> QED
    BY <1>3, <2>1 DEF TypeInv
<1>7. WireInv' /\ GotInv' /\ Taken' = {}
  BY <1>1 DEF WireInv, GotInv, Taken, Nothing
<1>8. (FreesWhatItHas /\ stray' = stray) => FreesWhatItHas'
  <2> SUFFICES ASSUME NEW k \in 1..Number, dropped[k] = "path"
               PROVE  \E j \in 1..Number' : dropped'[j] = "path"
    BY DEF FreesWhatItHas
  <2>1. k # Number /\ dropped'[k] = dropped[k]
    BY <1>1, <1>2 DEF IInv, TypeInv
  <2> QED
    BY <2>1, <1>4
<1>9. where = "path" => FreesWhatItHas'
  BY <1>2, <1>3, <1>4 DEF FreesWhatItHas
<1>10. past' = past => SlotsHold'
  BY <1>1, <1>4 DEF IInv, SlotsHold
<1> QED
  BY <1>3, <1>6, <1>7, <1>8, <1>9, <1>10

(* What stays when no message comes or is dropped.                         *)
LEMMA MessageStays ==
  ASSUME IInv, UNCHANGED <<asked, dropped>>
  PROVE  /\ PathsLeft' = PathsLeft /\ Number' = Number
         /\ \A kind : Block(kind)' = Block(kind)
         /\ stray' = stray => FreesWhatItHas'
         /\ past' = past => SlotsHold'
<1>1. Number' = Number
  BY DEF Number
<1>2. PathsLeft' = PathsLeft
  BY <1>1 DEF PathsLeft
<1>3. \A kind : Block(kind)' = Block(kind)
  BY <1>1 DEF Block
<1>4. stray' = stray => FreesWhatItHas'
  BY <1>1 DEF IInv, FreesWhatItHas
<1>5. past' = past => SlotsHold'
  BY <1>1 DEF IInv, SlotsHold
<1> QED
  BY <1>1, <1>2, <1>3, <1>4, <1>5
-----------------------------------------------------------------------------
LEMMA InitIInv == Init => IInv
<1> SUFFICES ASSUME Init PROVE IInv
  OBVIOUS
<1>1. Nothing \in [path : Seq(String), n : 0..(Word - 1), slots : 0..(Word - 1),
                   args : Seq(String)]
  BY WordFacts DEF Nothing
<1>2. TypeInv
  <2>1. asked \in Seq(Commands) /\ dropped \in Seq(Where) /\ Len(dropped) = Number
    BY DEF Init, Number
  <2> QED
    BY <1>1, <2>1 DEF Init, TypeInv
<1>3. Number = 0
  BY DEF Init, Number
<1>4. WireInv /\ GotInv /\ FreesWhatItHas /\ SlotsHold
  BY DEF Init, WireInv, GotInv, Nothing, FreesWhatItHas, SlotsHold
<1>5. HeapInv
  BY <1>3 DEF Init, HeapInv, PathsLeft, Taken
<1> QED
  BY <1>2, <1>4, <1>5 DEF IInv

(* A new command is not one of those that left a path.                     *)
LEMMA SessionStartKeeps ==
  ASSUME IInv, NEW cmd \in Commands, SessionStart(cmd)
  PROVE  IInv'
<1> DEFINE fate == IF Sent(cmd) = <<>> THEN "length" ELSE "no"
<1>1. /\ rpc = "idle" /\ wire = <<>>
      /\ asked' = Append(asked, cmd) /\ wire' = Sent(cmd)
      /\ dropped' = Append(dropped, fate)
      /\ UNCHANGED <<rpc, got, heap, ran, stray, past>>
  BY DEF SessionStart
<1>2. /\ asked \in Seq(Commands) /\ dropped \in Seq(Where)
      /\ Len(asked) = Number /\ Len(dropped) = Number /\ Number \in Nat
  BY DEF IInv, TypeInv, Number
<1>3. /\ asked' \in Seq(Commands) /\ Number' = Number + 1
      /\ asked'[Number + 1] = cmd
      /\ \A j \in 1..Number : asked'[j] = asked[j]
  BY <1>1, <1>2 DEF Number
<1>4. fate \in Where
  BY DEF Where
<1> HIDE DEF fate
<1>5. /\ dropped' \in Seq(Where) /\ Len(dropped') = Number + 1
      /\ dropped'[Number + 1] = fate
      /\ \A j \in 1..Number : dropped'[j] = dropped[j]
  BY <1>1, <1>2, <1>4
<1>6. TypeInv'
  BY <1>1, <1>3, <1>5 DEF IInv, TypeInv
<1>7. WireInv'
  <2>1. wire' # <<>> => wire' = <<Message(cmd)>> /\ fate = "no"
    BY <1>1 DEF Sent, fate
  <2> QED
    BY <2>1, <1>1, <1>2, <1>3, <1>5 DEF WireInv
<1>8. GotInv'
  BY <1>1 DEF IInv, GotInv
<1>9. HeapInv'
  <2>1. fate \notin {"argv", "count"}
    BY DEF fate
  <2>2. {j \in 1..(Number + 1) : dropped'[j] \in {"argv", "count"}}
          = {j \in 1..Number : dropped[j] \in {"argv", "count"}}
    BY <2>1, <1>2, <1>5
  <2>3. PathsLeft' = PathsLeft
    BY <2>2, <1>3 DEF PathsLeft
  <2> QED
    BY <2>3, <1>1 DEF IInv, HeapInv, Taken
<1>10. FreesWhatItHas' /\ SlotsHold'
  <2>1. \A k \in 1..Number : k \in 1..Number'
    BY <1>2, <1>3
  <2>2. FreesWhatItHas'
    BY <2>1, <1>1, <1>5 DEF IInv, FreesWhatItHas
  <2>3. SlotsHold'
    BY <2>1, <1>1, <1>3 DEF IInv, SlotsHold
  <2> QED
    BY <2>2, <2>3
<1> QED
  BY <1>6, <1>7, <1>8, <1>9, <1>10 DEF IInv

LEMMA ReadTypeKeeps ==
  ASSUME IInv, ReadType
  PROVE  IInv'
<1>1. rpc = "idle" /\ wire # <<>>
  BY DEF ReadType
<1>2. CASE /\ rpc' = "path" /\ heap' = heap \cup {Block("message")}
           /\ UNCHANGED <<asked, wire, got, dropped, ran, stray, past>>
  <2>1. /\ PathsLeft' = PathsLeft /\ Number' = Number
        /\ FreesWhatItHas' /\ SlotsHold' /\ Block("message")' = Block("message")
    BY <1>2, MessageStays
  <2>2. TypeInv' /\ WireInv' /\ GotInv'
    BY <1>1, <1>2, <2>1 DEF IInv, TypeInv, WireInv, GotInv
  <2>3. HeapInv'
    BY <1>1, <1>2, <2>1 DEF IInv, HeapInv, Taken
  <2> QED
    BY <2>1, <2>2, <2>3 DEF IInv
<1>3. CASE Drop("malloc") /\ UNCHANGED <<heap, stray, past>>
  <2>1. /\ (stray' \in BOOLEAN /\ past' \in BOOLEAN) => TypeInv'
        /\ WireInv' /\ GotInv' /\ Taken' = {} /\ PathsLeft' = PathsLeft
        /\ FreesWhatItHas' /\ SlotsHold'
    <3>1. FreesWhatItHas /\ "malloc" \in Where \ {"no"}
      BY DEF IInv, Where
    <3>2. rpc \in {"idle", "path", "count", "args"} /\ "malloc" \notin {"argv", "count"}
      BY <1>1
    <3> QED
      BY <1>1, <1>3, <3>1, <3>2, DropKeeps
  <2>2. HeapInv'
    BY <1>1, <1>3, <2>1 DEF IInv, HeapInv, Taken
  <2> QED
    <3>1. stray \in BOOLEAN /\ past \in BOOLEAN
      BY DEF IInv, TypeInv
    <3> QED
      BY <2>1, <2>2, <3>1, <1>3 DEF IInv
<1> QED
  BY <1>2, <1>3 DEF ReadType

LEMMA ReadPathKeeps ==
  ASSUME IInv, ReadPath
  PROVE  IInv'
<1>1. rpc = "path" /\ wire = <<Message(asked[Number])>> /\ wire # <<>>
        /\ Number \in 1..Len(asked) /\ dropped[Number] = "no"
  BY DEF ReadPath, IInv, WireInv, TypeInv, Number
<1>2. CASE /\ rpc' = "count" /\ got' = [got EXCEPT !.path = <<Head(wire).path>>]
           /\ heap' = heap \cup {Block("path")}
           /\ UNCHANGED <<asked, wire, dropped, ran, stray, past>>
  <2>1. /\ PathsLeft' = PathsLeft /\ Number' = Number
        /\ FreesWhatItHas' /\ SlotsHold'
        /\ \A kind : Block(kind)' = Block(kind)
    BY <1>2, MessageStays
  <2>2. Head(wire).path \in String
    <3>1. asked[Number] \in Commands
      BY <1>1 DEF IInv, TypeInv
    <3>2. asked[Number].path \in String
      BY <3>1, RunCommandAssumption DEF RunCommandAssumption
    <3>3. Head(wire) = Message(asked[Number])
      BY <1>1
    <3> QED
      BY <3>2, <3>3 DEF Message
  <2>3. /\ got' \in [path : Seq(String), n : 0..(Word - 1), slots : 0..(Word - 1),
                     args : Seq(String)]
        /\ got'.args = got.args
    <3>1. <<Head(wire).path>> \in Seq(String)
      BY <2>2
    <3> QED
      BY <1>2, <3>1 DEF IInv, TypeInv
  <2>4. TypeInv' /\ WireInv' /\ GotInv'
    BY <1>1, <1>2, <2>1, <2>3 DEF IInv, TypeInv, WireInv, GotInv
  <2>5. HeapInv'
    BY <1>1, <1>2, <2>1 DEF IInv, HeapInv, Taken
  <2> QED
    BY <2>1, <2>4, <2>5 DEF IInv
<1>3. CASE /\ Drop("path") /\ heap' = heap \ {Block("message")}
           /\ stray' \in {stray, TRUE} /\ UNCHANGED past
  <2>1. /\ (stray' \in BOOLEAN /\ past' \in BOOLEAN) => TypeInv'
        /\ WireInv' /\ GotInv' /\ Taken' = {} /\ PathsLeft' = PathsLeft
        /\ FreesWhatItHas' /\ SlotsHold'
    <3>1. FreesWhatItHas /\ "path" \in Where \ {"no"}
      BY DEF IInv, Where
    <3>2. rpc \in {"idle", "path", "count", "args"} /\ "path" \notin {"argv", "count"}
      BY <1>1
    <3> QED
      BY <1>1, <1>3, <3>1, <3>2, DropKeeps
  <2>2. HeapInv'
    BY <1>1, <1>3, <2>1, TakenApart DEF IInv, HeapInv, Taken
  <2> QED
    <3>1. stray \in BOOLEAN /\ past \in BOOLEAN
      BY DEF IInv, TypeInv
    <3> QED
      BY <2>1, <2>2, <3>1, <1>3 DEF IInv
<1> QED
  BY <1>2, <1>3 DEF ReadPath

LEMMA ReadCountKeeps ==
  ASSUME IInv, ReadCount
  PROVE  IInv'
<1> DEFINE n == Read(Head(wire).count)
<1>1. rpc = "count" /\ wire = <<Message(asked[Number])>> /\ wire # <<>>
        /\ Number \in 1..Len(asked) /\ dropped[Number] = "no"
  BY DEF ReadCount, IInv, WireInv, TypeInv, Number
<1>2. Len(asked[Number].args) \in Nat
  <2>1. asked[Number] \in Commands
    BY <1>1 DEF IInv, TypeInv
  <2>2. asked[Number].args \in Seq(String)
    BY <2>1, RunCommandAssumption DEF RunCommandAssumption
  <2> QED
    BY <2>2
<1>3. n = Read(Digits(Len(asked[Number].args)))
  <2>1. Head(wire) = Message(asked[Number])
    BY <1>1
  <2> QED
    BY <2>1 DEF Message
<1>4. n \in 0..(Word - 1) /\ Slots(n) \in 0..(Word - 1)
  BY <1>2, <1>3, ReadFacts, SlotsFacts
<1>5. CASE /\ rpc' = "args" /\ got' = [got EXCEPT !.n = n, !.slots = Slots(n)]
           /\ heap' = heap \cup {Block("argv")}
           /\ UNCHANGED <<asked, wire, dropped, ran, stray, past>>
  <2> HIDE DEF n
  <2>1. /\ PathsLeft' = PathsLeft /\ Number' = Number
        /\ FreesWhatItHas' /\ SlotsHold'
        /\ \A kind : Block(kind)' = Block(kind)
    BY <1>5, MessageStays
  <2>2. /\ got' \in [path : Seq(String), n : 0..(Word - 1), slots : 0..(Word - 1),
                     args : Seq(String)]
        /\ got'.args = <<>> /\ got'.n = n /\ got'.slots = Slots(n)
    BY <1>1, <1>4, <1>5 DEF IInv, TypeInv, GotInv
  <2>3. TypeInv' /\ WireInv'
    BY <1>1, <1>5, <2>1, <2>2 DEF IInv, TypeInv, WireInv
  <2>4. GotInv'
    BY <1>3, <1>5, <2>1, <2>2 DEF GotInv
  <2>5. StringsRead' = {}
    BY <2>2 DEF StringsRead
  <2>6. HeapInv'
    BY <1>1, <1>5, <2>1, <2>5 DEF IInv, HeapInv, Taken
  <2> QED
    BY <2>1, <2>3, <2>4, <2>6 DEF IInv
<1>6. CASE Drop("argv") /\ Free(ArgvFailed) /\ UNCHANGED past
  <2>1. ArgvFailed \subseteq heap /\ heap' = heap \ ArgvFailed /\ stray' = stray
    BY <1>1, <1>6 DEF IInv, TypeInv, HeapInv, Taken, Free, ArgvFailed
  <2>2. /\ (stray' \in BOOLEAN /\ past' \in BOOLEAN) => TypeInv'
        /\ WireInv' /\ GotInv' /\ Taken' = {}
        /\ PathsLeft' = PathsLeft \cup {Block("path")}
        /\ FreesWhatItHas' /\ SlotsHold'
    <3>1. FreesWhatItHas /\ "argv" \in Where \ {"no"}
      BY DEF IInv, Where
    <3>2. rpc \in {"idle", "path", "count", "args"}
      BY <1>1
    <3> QED
      BY <1>1, <1>6, <2>1, <3>1, <3>2, DropKeeps
  <2>3. HeapInv'
    BY <1>1, <2>1, <2>2, TakenApart DEF IInv, HeapInv, Taken, ArgvFailed
  <2> QED
    <3>1. stray \in BOOLEAN /\ past \in BOOLEAN
      BY DEF IInv, TypeInv
    <3> QED
      BY <2>1, <2>2, <2>3, <3>1, <1>6 DEF IInv
<1> QED
  BY <1>5, <1>6 DEF ReadCount

(* argv is too short only if its length has wrapped to zero.               *)
LEMMA PastMeansWrapped ==
  ASSUME IInv, rpc = "args", got.n >= got.slots, UNCHANGED asked
  PROVE  SlotsHold'
<1> SUFFICES \E k \in 1..Number' : Len(asked'[k].args) % Base = Base - 1
  BY DEF SlotsHold
<1>1. Number \in 1..Len(asked) /\ Number' = Number
  BY DEF IInv, WireInv, TypeInv, Number
<1>2. Len(asked[Number].args) \in Nat
  <2>1. asked[Number] \in Commands
    BY <1>1 DEF IInv, TypeInv
  <2>2. asked[Number].args \in Seq(String)
    BY <2>1, RunCommandAssumption DEF RunCommandAssumption
  <2> QED
    BY <2>2
<1>3. /\ got.n = Read(Digits(Len(asked[Number].args)))
      /\ got.slots = Slots(got.n) /\ got.n \in 0..(Word - 1)
  BY DEF IInv, GotInv, TypeInv
<1>4. got.n = Word - 1
  BY <1>3, SlotsFacts
<1>5. Len(asked[Number].args) % Base = Base - 1
  BY <1>2, <1>3, <1>4, ReadFacts
<1> QED
  BY <1>1, <1>5 DEF Number

LEMMA ReadStringKeeps ==
  ASSUME IInv, ReadString
  PROVE  IInv'
<1> DEFINE i == Len(got.args)
           args == Head(wire).args
<1>1. /\ rpc = "args" /\ i < got.n /\ wire # <<>> /\ wire = <<Message(asked[Number])>>
      /\ Number \in 1..Len(asked) /\ dropped[Number] = "no"
  BY DEF ReadString, IInv, WireInv, TypeInv, Number
<1>2. /\ got.args \in Seq(String) /\ i \in Nat
      /\ got.n \in Nat /\ got.slots \in Nat
  BY WordFacts DEF IInv, TypeInv
<1>3. CASE /\ i < Len(args)
           /\ got' = [got EXCEPT !.args = Append(@, args[i + 1])]
           /\ heap' = heap \cup {StringBlock(i)}
           /\ past' = (past \/ i >= got.slots)
           /\ UNCHANGED <<asked, wire, rpc, dropped, ran, stray>>
  <2>1. args[i + 1] \in String
    <3>1. asked[Number] \in Commands
      BY <1>1 DEF IInv, TypeInv
    <3>2. asked[Number].args \in Seq(String)
      BY <3>1, RunCommandAssumption DEF RunCommandAssumption
    <3>3. args = asked[Number].args
      <4>1. Head(wire) = Message(asked[Number])
        BY <1>1
      <4> QED
        BY <4>1 DEF Message
    <3> QED
      BY <3>2, <3>3, <1>2, <1>3
  <2>2. /\ got' \in [path : Seq(String), n : 0..(Word - 1), slots : 0..(Word - 1),
                     args : Seq(String)]
        /\ got'.n = got.n /\ got'.slots = got.slots
        /\ got'.args = Append(got.args, args[i + 1])
    <3>1. Append(got.args, args[i + 1]) \in Seq(String)
      BY <1>2, <2>1
    <3> QED
      BY <3>1, <1>3 DEF IInv, TypeInv
  <2>3. Len(got'.args) = i + 1
    BY <1>2, <2>1, <2>2
  <2>4. /\ PathsLeft' = PathsLeft /\ Number' = Number /\ FreesWhatItHas'
        /\ past' = past => SlotsHold'
        /\ \A kind : Block(kind)' = Block(kind)
    BY <1>3, MessageStays
  <2>5. StringsRead' = StringsRead \cup {StringBlock(i)}
    <3>1. 0..(Len(got'.args) - 1) = (0..(i - 1)) \cup {i}
      BY <1>2, <2>3
    <3>2. \A j : StringBlock(j)' = StringBlock(j)
      BY <2>4 DEF StringBlock
    <3>3. StringsRead' = {StringBlock(j)' : j \in 0..(Len(got'.args) - 1)}
      BY DEF StringsRead
    <3> QED
      BY <3>1, <3>2, <3>3 DEF StringsRead
  <2>6. HeapInv'
    BY <1>1, <1>3, <2>4, <2>5 DEF IInv, HeapInv, Taken
  <2>7. past' \in BOOLEAN /\ stray' \in BOOLEAN
    BY <1>3 DEF IInv, TypeInv
  <2>8. TypeInv' /\ WireInv' /\ GotInv'
    <3>1. TypeInv'
      BY <1>3, <2>2, <2>4, <2>7 DEF IInv, TypeInv
    <3>2. WireInv' /\ GotInv'
      BY <1>1, <1>3, <2>2, <2>4 DEF IInv, WireInv, GotInv
    <3> QED
      BY <3>1, <3>2
  <2>9. SlotsHold'
    <3>1. CASE i >= got.slots
      <4>1. got.n >= got.slots
        BY <3>1, <1>1, <1>2
      <4> QED
        BY <4>1, <1>1, <1>3, PastMeansWrapped
    <3>2. CASE ~(i >= got.slots)
      BY <3>2, <1>3, <2>4 DEF IInv, TypeInv
    <3> QED
      BY <3>1, <3>2
  <2> QED
    BY <2>4, <2>6, <2>8, <2>9 DEF IInv
<1>4. CASE /\ Drop(IF i < Len(args) THEN "argv" ELSE "count")
           /\ Free(StringsRead \cup {Block("argv")} \cup ArgvFailed)
           /\ UNCHANGED past
  <2> DEFINE where == IF i < Len(args) THEN "argv" ELSE "count"
             all == StringsRead \cup {Block("argv")} \cup ArgvFailed
  <2>1. all \subseteq heap /\ heap' = heap \ all /\ stray' = stray
    <3>1. all \subseteq heap
      BY <1>1 DEF IInv, HeapInv, Taken, ArgvFailed
    <3>2. stray \in BOOLEAN
      BY DEF IInv, TypeInv
    <3> QED
      BY <3>1, <3>2, <1>4 DEF Free
  <2>2. where \in Where \ {"no"} /\ where \in {"argv", "count"}
    BY DEF Where
  <2>3. Drop(where)
    BY <1>4
  <2> HIDE DEF where
  <2>4. /\ (stray' \in BOOLEAN /\ past' \in BOOLEAN) => TypeInv'
        /\ WireInv' /\ GotInv' /\ Taken' = {}
        /\ PathsLeft' = PathsLeft \cup {Block("path")}
        /\ FreesWhatItHas' /\ SlotsHold'
    <3>1. FreesWhatItHas /\ rpc \in {"idle", "path", "count", "args"}
      BY <1>1 DEF IInv
    <3> QED
      BY <1>1, <1>4, <2>1, <2>2, <2>3, <3>1, DropKeeps
  <2>5. HeapInv'
    BY <1>1, <2>1, <2>4, TakenApart DEF IInv, HeapInv, Taken, ArgvFailed
  <2>6. stray \in BOOLEAN /\ past \in BOOLEAN
    BY DEF IInv, TypeInv
  <2> QED
    BY <2>1, <2>4, <2>5, <2>6, <1>4 DEF IInv
<1> QED
  BY <1>3, <1>4 DEF ReadString

LEMMA ReadDoneKeeps ==
  ASSUME IInv, ReadDone
  PROVE  IInv'
<1>1. /\ rpc = "args" /\ rpc' = "handle" /\ past' = (past \/ got.n >= got.slots)
      /\ UNCHANGED <<asked, wire, got, heap, dropped, ran, stray>>
  BY DEF ReadDone
<1>2. /\ PathsLeft' = PathsLeft /\ Number' = Number /\ FreesWhatItHas'
      /\ past' = past => SlotsHold'
      /\ \A kind : Block(kind)' = Block(kind)
  BY <1>1, MessageStays
<1>3. StringsRead' = StringsRead
  BY <1>1, <1>2 DEF StringsRead, StringBlock
<1>4. TypeInv'
  BY <1>1, <1>2 DEF IInv, TypeInv
<1>5. WireInv' /\ GotInv'
  BY <1>1, <1>2 DEF IInv, WireInv, GotInv
<1>6. HeapInv'
  BY <1>1, <1>2, <1>3 DEF IInv, HeapInv, Taken
<1>7. SlotsHold'
  <2>1. CASE got.n >= got.slots
    BY <2>1, <1>1, PastMeansWrapped
  <2>2. CASE ~(got.n >= got.slots)
    BY <2>2, <1>1, <1>2 DEF IInv, TypeInv
  <2> QED
    BY <2>1, <2>2
<1> QED
  BY <1>2, <1>4, <1>5, <1>6, <1>7 DEF IInv

LEMMA HandleMessageKeeps ==
  ASSUME IInv, HandleMessage
  PROVE  IInv'
<1>1. /\ rpc = "handle" /\ rpc' = "free"
      /\ UNCHANGED <<asked, wire, got, heap, dropped, stray, past>>
  BY DEF HandleMessage
<1>2. /\ PathsLeft' = PathsLeft /\ Number' = Number /\ FreesWhatItHas' /\ SlotsHold'
      /\ \A kind : Block(kind)' = Block(kind)
  BY <1>1, MessageStays
<1>3. StringsRead' = StringsRead
  BY <1>1, <1>2 DEF StringsRead, StringBlock
<1>4. TypeInv'
  BY <1>1, <1>2 DEF IInv, TypeInv
<1>5. WireInv' /\ GotInv'
  BY <1>1, <1>2 DEF IInv, WireInv, GotInv
<1>6. HeapInv'
  BY <1>1, <1>2, <1>3 DEF IInv, HeapInv, Taken
<1> QED
  BY <1>2, <1>4, <1>5, <1>6 DEF IInv

LEMMA MessageInFreeKeeps ==
  ASSUME IInv, MessageInFree
  PROVE  IInv'
<1> DEFINE all == StringsRead \cup {Block("argv"), Block("path"), Block("message")}
<1>1. /\ rpc = "free" /\ rpc' = "idle" /\ wire' = <<>> /\ got' = Nothing
      /\ Free(all) /\ UNCHANGED <<asked, dropped, ran, past>>
  BY DEF MessageInFree
<1>2. dropped[Number] = "no"
  BY <1>1 DEF IInv, WireInv
<1>3. all = Taken
  BY <1>1 DEF Taken
<1>4. heap' = heap \ all /\ stray' = stray
  <2>1. all \subseteq heap
    BY <1>3 DEF IInv, HeapInv
  <2>2. stray \in BOOLEAN
    BY DEF IInv, TypeInv
  <2> QED
    BY <1>1, <2>1, <2>2 DEF Free
<1>5. /\ PathsLeft' = PathsLeft /\ Number' = Number /\ FreesWhatItHas' /\ SlotsHold'
  BY <1>1, <1>4, MessageStays
<1>6. TypeInv'
  <2>1. Nothing \in [path : Seq(String), n : 0..(Word - 1), slots : 0..(Word - 1),
                     args : Seq(String)]
    BY WordFacts DEF Nothing
  <2> QED
    BY <2>1, <1>1, <1>4, <1>5 DEF IInv, TypeInv
<1>7. WireInv' /\ GotInv' /\ Taken' = {}
  BY <1>1 DEF WireInv, GotInv, Taken, Nothing
<1>8. heap' = PathsLeft
  <2>1. all \cap PathsLeft = {}
    BY <1>2, TakenApart
  <2> QED
    BY <2>1, <1>3, <1>4 DEF IInv, HeapInv
<1> QED
  BY <1>5, <1>6, <1>7, <1>8 DEF IInv, HeapInv

LEMMA NextIInv ==
  ASSUME IInv, [Next]_vars
  PROVE  IInv'
<1>1. CASE UNCHANGED vars
  <2>1. UNCHANGED <<asked, wire, rpc, got, heap, dropped, stray, past>>
    BY <1>1 DEF vars
  <2>2. /\ PathsLeft' = PathsLeft /\ Number' = Number /\ FreesWhatItHas' /\ SlotsHold'
        /\ \A kind : Block(kind)' = Block(kind)
    BY <2>1, MessageStays
  <2>3. StringsRead' = StringsRead
    BY <2>1, <2>2 DEF StringsRead, StringBlock
  <2>4. TypeInv'
    BY <2>1, <2>2 DEF IInv, TypeInv
  <2>5. WireInv' /\ GotInv'
    BY <2>1, <2>2 DEF IInv, WireInv, GotInv
  <2>6. HeapInv'
    BY <2>1, <2>2, <2>3 DEF IInv, HeapInv, Taken
  <2> QED
    BY <2>2, <2>4, <2>5, <2>6 DEF IInv
<1>2. CASE Next /\ ~(UNCHANGED vars)
  BY <1>2, SessionStartKeeps, ReadTypeKeeps, ReadPathKeeps, ReadCountKeeps,
     ReadStringKeeps, ReadDoneKeeps, HandleMessageKeeps, MessageInFreeKeeps
     DEF Next, Idle
<1> QED
  BY <1>1, <1>2

LEMMA AlwaysIInv == Spec => []IInv
BY InitIInv, NextIInv, PTL DEF Spec

-----------------------------------------------------------------------------
(* The command whose message is on the wire.                               *)
LEMMA LastFacts ==
  ASSUME IInv, wire # <<>>
  PROVE  /\ Number \in 1..Len(asked) /\ asked[Number] \in Commands
         /\ asked[Number].path \in String
         /\ asked[Number].args \in Seq(String) /\ Len(asked[Number].args) \in Nat
         /\ Head(wire) = Message(asked[Number]) /\ dropped[Number] = "no"
<1>1. Number \in 1..Len(asked) /\ wire = <<Message(asked[Number])>> /\ dropped[Number] = "no"
  BY DEF IInv, WireInv, TypeInv, Number
<1>2. asked[Number] \in Commands
  BY <1>1 DEF IInv, TypeInv
<1>3. asked[Number].path \in String /\ asked[Number].args \in Seq(String)
  BY <1>2, RunCommandAssumption DEF RunCommandAssumption
<1>4. Head(wire) = Message(asked[Number])
  BY <1>1
<1> QED
  BY <1>1, <1>2, <1>3, <1>4

(* The count is read as the number of the strings, or as more.             *)
LEMMA CountFacts ==
  ASSUME IInv, FateInv, rpc \in {"args", "handle", "free"}
  PROVE  IF Survives(Len(asked[Number].args)) THEN got.n = Len(asked[Number].args)
                                              ELSE got.n > Len(asked[Number].args)
<1>1. wire # <<>> /\ got.n = Read(Digits(Len(asked[Number].args)))
  BY DEF IInv, WireInv, GotInv
<1>2. Len(asked[Number].args) \in Nat /\ Len(asked[Number].args) < Word \div 2
  BY <1>1, LastFacts DEF FateInv, FitInv
<1> DEFINE m == Len(asked[Number].args)
<1>3. IF Survives(m) THEN Read(Digits(m)) = m ELSE Read(Digits(m)) > m
  BY <1>2, ReadIs
<1> QED
  BY <1>1, <1>3, Zenon

(* A message that goes on to be read changes no fate.                      *)
LEMMA FateStays ==
  ASSUME FateInv, UNCHANGED <<asked, dropped, wire>>, ran # <<>> => ran' # <<>>
  PROVE  /\ Number' = Number /\ FitInv' /\ DroppedForItsCount'
         /\ ran' = ran /\ rpc' # "free" => RanInv'
<1>1. Number' = Number
  BY DEF Number
<1>2. FitInv'
  BY <1>1 DEF FateInv, FitInv
<1>3. DroppedForItsCount'
  BY <1>1 DEF FateInv, DroppedForItsCount
<1>4. ran' = ran /\ rpc' # "free" => RanInv'
  BY <1>1 DEF FateInv, RanInv
<1> QED
  BY <1>1, <1>2, <1>3, <1>4

(* Only the last message has its fate when it is done with.                *)
LEMMA FateOfLast ==
  ASSUME IInv, FateInv, wire # <<>>, wire' = <<>>, asked' = asked, ran' = ran,
         NEW where \in Where, dropped' = [dropped EXCEPT ![Number] = where],
         where \in {"no", "count"} =>
           IF Survives(Len(asked[Number].args)) THEN where = "no" /\ ran # <<>>
                                                ELSE where = "count"
  PROVE  DroppedForItsCount'
<1>1. Number \in 1..Len(asked) /\ Len(dropped) = Number /\ dropped \in Seq(Where)
  BY LastFacts DEF IInv, TypeInv
<1>2. Number' = Number
  BY DEF Number
<1>3. /\ dropped'[Number] = where
      /\ \A k \in 1..Number : k # Number => dropped'[k] = dropped[k] /\ k < Number
  BY <1>1
<1> SUFFICES ASSUME NEW k \in 1..Number, dropped'[k] \in {"no", "count"}
             PROVE  IF Survives(Len(asked[k].args)) THEN dropped'[k] = "no" /\ ran # <<>>
                                                    ELSE dropped'[k] = "count"
  BY <1>2 DEF DroppedForItsCount
<1>4. CASE k = Number
  BY <1>3, <1>4
<1>5. CASE k # Number
  BY <1>3, <1>5 DEF FateInv, DroppedForItsCount
<1> QED
  BY <1>4, <1>5

(* A message that is dropped for its count had one that does not survive.  *)
LEMMA DropKeepsFate ==
  ASSUME IInv, FateInv, wire # <<>>, NEW where \in Where \ {"no"}, Drop(where),
         where = "count" => ~Survives(Len(asked[Number].args))
  PROVE  FateInv'
<1>1. /\ rpc' = "idle" /\ wire' = <<>> /\ UNCHANGED <<asked, ran>>
      /\ dropped' = [dropped EXCEPT ![Number] = where]
  BY DEF Drop
<1>2. DroppedForItsCount'
  BY <1>1, FateOfLast
<1>3. Number' = Number
  BY <1>1 DEF Number
<1>4. FitInv' /\ PrefixInv'
  BY <1>1 DEF FitInv, PrefixInv
<1>5. RanInv'
  BY <1>1, <1>3 DEF FateInv, RanInv
<1> QED
  BY <1>2, <1>4, <1>5 DEF FateInv
-----------------------------------------------------------------------------
LEMMA InitFate == Init => FateInv
<1> SUFFICES ASSUME Init PROVE FateInv
  OBVIOUS
<1>1. Number = 0
  BY DEF Init, Number
<1>2. FitInv /\ PrefixInv
  BY DEF Init, FitInv, PrefixInv
<1>3. RanInv
  BY DEF Init, RanInv
<1>4. DroppedForItsCount
  BY <1>1 DEF DroppedForItsCount
<1> QED
  BY <1>2, <1>3, <1>4 DEF FateInv

(* A command that fits has fewer strings than the buffer has bytes.        *)
LEMMA SessionStartFate ==
  ASSUME IInv, FateInv, NEW cmd \in Commands, SessionStart(cmd)
  PROVE  FateInv'
<1>1. /\ rpc = "idle" /\ wire = <<>>
      /\ asked' = Append(asked, cmd) /\ wire' = Sent(cmd)
      /\ dropped' = Append(dropped, IF Sent(cmd) = <<>> THEN "length" ELSE "no")
      /\ UNCHANGED <<rpc, ran>>
  BY DEF SessionStart
<1>2. /\ asked \in Seq(Commands) /\ dropped \in Seq(Where)
      /\ Len(asked) = Number /\ Len(dropped) = Number /\ Number \in Nat
  BY DEF IInv, TypeInv, Number
<1>3. /\ Number' = Number + 1 /\ asked'[Number + 1] = cmd
      /\ \A j \in 1..Number : asked'[j] = asked[j]
  BY <1>1, <1>2 DEF Number
<1>4. /\ dropped'[Number + 1] = IF wire' = <<>> THEN "length" ELSE "no"
      /\ \A j \in 1..Number : dropped'[j] = dropped[j]
  BY <1>1, <1>2
<1>5. FitInv'
  <2> SUFFICES ASSUME wire' # <<>> PROVE Len(cmd.args) < Word \div 2
    BY <1>3 DEF FitInv
  <2>1. Length(cmd) <= Room
    BY <1>1 DEF Sent
  <2>2. Length(cmd) \in Nat /\ Len(cmd.args) \in Nat /\ Length(cmd) > Len(cmd.args)
    BY LengthIs
  <2>3. Room \in Nat /\ Room < Word \div 2 /\ Word \div 2 \in Nat
    BY RunCommandAssumption, WordFacts DEF RunCommandAssumption
  <2> QED
    BY <2>1, <2>2, <2>3
<1>6. PrefixInv'
  BY <1>1 DEF PrefixInv
<1>7. RanInv'
  <2> SUFFICES ASSUME ran # <<>>
               PROVE  \E k \in 1..Number' :
                 ran = <<[message |-> k, path |-> asked'[k].path, args |-> asked'[k].args]>>
    BY <1>1 DEF RanInv
  <2>1. PICK k \in 1..Number :
          ran = <<[message |-> k, path |-> asked[k].path, args |-> asked[k].args]>>
    BY DEF FateInv, RanInv
  <2>2. k \in 1..Number' /\ asked'[k] = asked[k]
    BY <1>2, <1>3
  <2> QED
    BY <2>1, <2>2
<1>8. DroppedForItsCount'
  <2> SUFFICES ASSUME NEW k \in 1..Number', dropped'[k] \in {"no", "count"},
                      k < Number' \/ wire' = <<>>
               PROVE  IF Survives(Len(asked'[k].args))
                      THEN dropped'[k] = "no" /\ ran # <<>> ELSE dropped'[k] = "count"
    BY <1>1 DEF DroppedForItsCount
  <2>1. k # Number + 1
    <3>1. CASE wire' = <<>>
      BY <1>4, <3>1
    <3>2. CASE wire' # <<>>
      BY <1>2, <1>3, <3>2
    <3> QED
      BY <3>1, <3>2
  <2>2. k \in 1..Number
    BY <1>2, <1>3, <2>1
  <2>3. asked'[k] = asked[k] /\ dropped'[k] = dropped[k]
    BY <1>3, <1>4, <2>2
  <2> QED
    BY <1>1, <2>2, <2>3 DEF FateInv, DroppedForItsCount
<1> QED
  BY <1>5, <1>6, <1>7, <1>8 DEF FateInv

LEMMA ReadTypeFate ==
  ASSUME IInv, FateInv, ReadType
  PROVE  FateInv'
<1>1. CASE rpc' = "path" /\ UNCHANGED <<asked, wire, got, dropped, ran>>
  <2>1. FitInv' /\ DroppedForItsCount' /\ RanInv'
    BY <1>1, FateStays
  <2>2. PrefixInv'
    BY <1>1 DEF PrefixInv
  <2> QED
    BY <2>1, <2>2 DEF FateInv
<1>2. CASE Drop("malloc")
  <2>1. wire # <<>> /\ "malloc" \in Where \ {"no"}
    BY DEF ReadType, Where
  <2> QED
    BY <1>2, <2>1, DropKeepsFate
<1> QED
  BY <1>1, <1>2 DEF ReadType

LEMMA ReadPathFate ==
  ASSUME IInv, FateInv, ReadPath
  PROVE  FateInv'
<1>1. rpc = "path" /\ wire # <<>>
  BY DEF ReadPath, IInv, WireInv
<1>2. CASE /\ rpc' = "count" /\ got' = [got EXCEPT !.path = <<Head(wire).path>>]
           /\ UNCHANGED <<asked, wire, dropped, ran>>
  <2>1. FitInv' /\ DroppedForItsCount' /\ RanInv' /\ Number' = Number
    BY <1>2, FateStays
  <2>2. got'.path = <<asked[Number].path>>
    <3>1. got'.path = <<Head(wire).path>>
      BY <1>2 DEF IInv, TypeInv
    <3>2. Head(wire).path = asked[Number].path
      BY <1>1, LastFacts DEF Message
    <3> QED
      BY <3>1, <3>2
  <2>3. PrefixInv'
    BY <1>2, <2>1, <2>2 DEF PrefixInv
  <2> QED
    BY <2>1, <2>3 DEF FateInv
<1>3. CASE Drop("path")
  <2>1. "path" \in Where \ {"no"}
    BY DEF Where
  <2> QED
    BY <1>1, <1>3, <2>1, DropKeepsFate
<1> QED
  BY <1>2, <1>3 DEF ReadPath

LEMMA ReadCountFate ==
  ASSUME IInv, FateInv, ReadCount
  PROVE  FateInv'
<1> DEFINE n == Read(Head(wire).count)
<1>1. rpc = "count" /\ wire # <<>>
  BY DEF ReadCount, IInv, WireInv
<1>2. CASE /\ rpc' = "args" /\ got' = [got EXCEPT !.n = n, !.slots = Slots(n)]
           /\ UNCHANGED <<asked, wire, dropped, ran>>
  <2> HIDE DEF n
  <2>1. FitInv' /\ DroppedForItsCount' /\ RanInv' /\ Number' = Number
    BY <1>2, FateStays
  <2>2. got'.path = <<asked[Number].path>> /\ got'.args = <<>>
    BY <1>1, <1>2 DEF IInv, TypeInv, GotInv, FateInv, PrefixInv
  <2>3. Len(asked[Number].args) \in Nat
    BY <1>1, LastFacts
  <2>4. PrefixInv'
    BY <1>2, <2>1, <2>2, <2>3 DEF PrefixInv
  <2> QED
    BY <2>1, <2>4 DEF FateInv
<1>3. CASE Drop("argv")
  <2>1. "argv" \in Where \ {"no"}
    BY DEF Where
  <2> QED
    BY <1>1, <1>3, <2>1, DropKeepsFate
<1> QED
  BY <1>2, <1>3 DEF ReadCount

(* The strings run out only if the count was read as more.                 *)
LEMMA ReadStringFate ==
  ASSUME IInv, FateInv, ReadString
  PROVE  FateInv'
<1> DEFINE i == Len(got.args)
           args == asked[Number].args
<1>1. rpc = "args" /\ i < got.n /\ wire # <<>>
  BY DEF ReadString, IInv, WireInv
<1>2. /\ got.args \in Seq(String) /\ i \in Nat /\ got.n \in Nat
  BY WordFacts DEF IInv, TypeInv
<1>3. args \in Seq(String) /\ Len(args) \in Nat /\ Head(wire).args = args
  BY <1>1, LastFacts DEF Message
<1>4. CASE /\ i < Len(Head(wire).args)
           /\ got' = [got EXCEPT !.args = Append(@, Head(wire).args[i + 1])]
           /\ UNCHANGED <<asked, wire, rpc, dropped, ran>>
  <2>1. FitInv' /\ DroppedForItsCount' /\ RanInv' /\ Number' = Number
    BY <1>1, <1>4, FateStays
  <2>2. got'.path = got.path /\ got'.args = Append(got.args, args[i + 1])
    BY <1>3, <1>4 DEF IInv, TypeInv
  <2>3. args[i + 1] \in String
    BY <1>2, <1>3, <1>4
  <2>4. /\ Len(got'.args) = i + 1 /\ got'.args[i + 1] = args[i + 1]
        /\ \A j \in 1..i : got'.args[j] = got.args[j]
    BY <1>2, <2>2, <2>3
  <2>5. \A j \in 1..i : got.args[j] = args[j]
    BY <1>1 DEF FateInv, PrefixInv
  <2>6. \A j \in 1..Len(got'.args) : got'.args[j] = args[j]
    <3> TAKE j \in 1..Len(got'.args)
    <3>1. j = i + 1 \/ j \in 1..i
      BY <1>2, <2>4
    <3> QED
      BY <2>4, <2>5, <3>1
  <2>7. Len(got'.args) <= Len(args) /\ got'.path = <<asked[Number].path>>
    BY <1>1, <1>2, <1>3, <1>4, <2>2, <2>4 DEF FateInv, PrefixInv
  <2>8. PrefixInv'
    BY <1>1, <1>4, <2>1, <2>6, <2>7 DEF PrefixInv
  <2> QED
    BY <2>1, <2>8 DEF FateInv
<1>5. CASE Drop(IF i < Len(Head(wire).args) THEN "argv" ELSE "count")
  <2> DEFINE where == IF i < Len(Head(wire).args) THEN "argv" ELSE "count"
  <2>1. where \in Where \ {"no"}
    BY DEF Where
  <2>2. where = "count" => ~Survives(Len(asked[Number].args))
    <3>1. where = "count" => Len(args) <= i
      BY <1>2, <1>3
    <3>2. Len(args) <= i => got.n # Len(args)
      BY <1>1, <1>2, <1>3
    <3>3. Survives(Len(args)) => got.n = Len(args)
      BY <1>1, CountFacts
    <3> QED
      BY <3>1, <3>2, <3>3
  <2> HIDE DEF where
  <2> QED
    BY <1>1, <1>5, <2>1, <2>2, DropKeepsFate DEF where
<1> QED
  BY <1>4, <1>5 DEF ReadString

LEMMA ReadDoneFate ==
  ASSUME IInv, FateInv, ReadDone
  PROVE  FateInv'
<1>1. /\ rpc = "args" /\ rpc' = "handle" /\ Len(got.args) = got.n
      /\ UNCHANGED <<asked, wire, got, dropped, ran>>
  BY DEF ReadDone
<1>2. FitInv' /\ DroppedForItsCount' /\ RanInv' /\ Number' = Number
  BY <1>1, FateStays
<1>3. PrefixInv'
  BY <1>1, <1>2 DEF FateInv, PrefixInv
<1> QED
  BY <1>2, <1>3 DEF FateInv

(* As many strings as were counted, and no more than there are, are all.   *)
LEMMA WholeMessage ==
  ASSUME IInv, FateInv, rpc \in {"handle", "free"}
  PROVE  /\ got.args = asked[Number].args /\ got.path = <<asked[Number].path>>
         /\ Survives(Len(asked[Number].args))
<1> DEFINE args == asked[Number].args
<1>1. wire # <<>> /\ rpc \in {"args", "handle", "free"}
  BY DEF IInv, WireInv
<1>2. args \in Seq(String) /\ Len(args) \in Nat
  BY <1>1, LastFacts
<1>3. /\ got.path = <<asked[Number].path>> /\ Len(got.args) <= Len(args)
      /\ \A i \in 1..Len(got.args) : got.args[i] = args[i]
      /\ Len(got.args) = got.n
  BY DEF FateInv, PrefixInv
<1>4. got.args \in Seq(String) /\ got.n \in Nat
  BY WordFacts DEF IInv, TypeInv
<1>5. IF Survives(Len(args)) THEN got.n = Len(args) ELSE got.n > Len(args)
  BY <1>1, CountFacts
<1> HIDE DEF args
<1>6. Survives(Len(args)) /\ Len(got.args) = Len(args)
  BY <1>2, <1>3, <1>4, <1>5
<1>7. got.args = args
  <2>1. got.args = [i \in 1..Len(got.args) |-> got.args[i]] /\ args = [i \in 1..Len(args) |-> args[i]]
    BY <1>2, <1>4
  <2> QED
    BY <1>3, <1>6, <2>1
<1> QED
  BY <1>3, <1>6, <1>7 DEF args

LEMMA HandleMessageFate ==
  ASSUME IInv, FateInv, HandleMessage
  PROVE  FateInv'
<1>1. /\ rpc = "handle" /\ rpc' = "free" /\ wire # <<>>
      /\ ran' = IF ran = <<>>
                THEN <<[message |-> Number, path |-> Head(got.path), args |-> got.args]>>
                ELSE ran
      /\ UNCHANGED <<asked, wire, got, dropped>>
  BY DEF HandleMessage, IInv, WireInv
<1>2. ran' # <<>>
  BY <1>1
<1>3. FitInv' /\ DroppedForItsCount' /\ Number' = Number
  BY <1>1, <1>2, FateStays
<1>4. PrefixInv'
  BY <1>1, <1>3 DEF FateInv, PrefixInv
<1>5. got.args = asked[Number].args /\ Head(got.path) = asked[Number].path
  BY <1>1, WholeMessage
<1>6. Number \in 1..Number
  BY <1>1, LastFacts DEF Number
<1>7. RanInv'
  <2>1. CASE ran = <<>>
    <3>1. ran' = <<[message |-> Number, path |-> asked[Number].path,
                    args |-> asked[Number].args]>>
      BY <1>1, <1>5, <2>1, Zenon
    <3> QED
      BY <1>1, <1>2, <1>3, <1>6, <3>1, Zenon DEF RanInv
  <2>2. CASE ran # <<>>
    BY <1>1, <1>3, <2>2 DEF FateInv, RanInv
  <2> QED
    BY <2>1, <2>2
<1> QED
  BY <1>3, <1>4, <1>7 DEF FateInv

LEMMA MessageInFreeFate ==
  ASSUME IInv, FateInv, MessageInFree
  PROVE  FateInv'
<1>1. /\ rpc = "free" /\ rpc' = "idle" /\ wire # <<>> /\ wire' = <<>>
      /\ UNCHANGED <<asked, dropped, ran>>
  BY DEF MessageInFree, IInv, WireInv
<1>2. Survives(Len(asked[Number].args)) /\ ran # <<>>
  BY <1>1, WholeMessage DEF FateInv, RanInv
<1>3. dropped' = [dropped EXCEPT ![Number] = "no"]
  <2>1. dropped[Number] = "no" /\ dropped \in Seq(Where)
    BY <1>1, LastFacts DEF IInv, TypeInv
  <2> QED
    BY <1>1, <2>1
<1>4. DroppedForItsCount'
  <2>1. "no" \in Where
    BY DEF Where
  <2> QED
    BY <1>1, <1>2, <1>3, <2>1, FateOfLast
<1>5. Number' = Number
  BY <1>1 DEF Number
<1>6. FitInv' /\ PrefixInv' /\ RanInv'
  BY <1>1, <1>5 DEF FateInv, FitInv, PrefixInv, RanInv
<1> QED
  BY <1>4, <1>6 DEF FateInv

LEMMA NextFate ==
  ASSUME IInv, FateInv, [Next]_vars
  PROVE  FateInv'
<1>1. CASE UNCHANGED vars
  <2>1. UNCHANGED <<asked, wire, rpc, got, dropped, ran>>
    BY <1>1 DEF vars
  <2>2. FitInv' /\ DroppedForItsCount' /\ Number' = Number
    BY <2>1, FateStays
  <2>3. PrefixInv' /\ RanInv'
    BY <2>1, <2>2 DEF FateInv, PrefixInv, RanInv
  <2> QED
    BY <2>2, <2>3 DEF FateInv
<1>2. CASE Next /\ ~(UNCHANGED vars)
  BY <1>2, SessionStartFate, ReadTypeFate, ReadPathFate, ReadCountFate,
     ReadStringFate, ReadDoneFate, HandleMessageFate, MessageInFreeFate
     DEF Next, Idle
<1> QED
  BY <1>1, <1>2

LEMMA AlwaysFate == Spec => []FateInv
BY InitFate, NextFate, AlwaysIInv, PTL DEF Spec
-----------------------------------------------------------------------------
(* Every variable keeps its type.                                          *)
THEOREM RunCommandTypeCorrect == Spec => []TypeOK
<1>1. ASSUME IInv PROVE TypeOK
  <2>1. heap \subseteq (1..Number) \X Kinds \X Nat
    <3>1. PathsLeft \subseteq (1..Number) \X Kinds \X Nat
      BY DEF PathsLeft, Kinds
    <3>2. rpc # "idle" => Number \in 1..Number
      BY <1>1 DEF IInv, WireInv, TypeInv, Number
    <3>3. rpc # "idle" => \A kind \in Kinds : Block(kind) \in (1..Number) \X Kinds \X Nat
      BY <3>2 DEF Block
    <3>4. rpc # "idle" => StringsRead \subseteq (1..Number) \X Kinds \X Nat
      <4>1. \A k \in 0..(Len(got.args) - 1) : k \in Nat
        BY <1>1 DEF IInv, TypeInv
      <4>2. "string" \in Kinds
        BY DEF Kinds
      <4> QED
        BY <3>2, <4>1, <4>2 DEF StringsRead, StringBlock
    <3>5. Taken \subseteq (1..Number) \X Kinds \X Nat
      <4>1. {"message", "path", "argv"} \subseteq Kinds
        BY DEF Kinds
      <4> QED
        BY <3>3, <3>4, <4>1 DEF Taken
    <3> QED
      BY <3>1, <3>5, <1>1 DEF IInv, HeapInv
  <2>2. dropped \in [1..Number -> Where]
    BY <1>1 DEF IInv, TypeInv
  <2> QED
    BY <2>1, <2>2, <1>1 DEF IInv, TypeInv, TypeOK, Where
<1> QED
  BY <1>1, AlwaysIInv, PTL

(* What message_in, argv and message_in_free allocate they free once and   *)
(* do not overrun, wherever a malloc fails and whatever the command, but   *)
(* for the paths that e_r2 leaves, the pointer that e_r1 frees, and an     *)
(* argv whose length wraps.                                                *)
THEOREM MessagesAreFreed == Spec => []MemoryIsKept
<1>1. ASSUME IInv PROVE MemoryIsKept
  <2>1. OnlyPathsStay
    BY <1>1 DEF IInv, HeapInv, Taken, OnlyPathsStay
  <2> QED
    BY <2>1, <1>1 DEF IInv, MemoryIsKept
<1> QED
  BY <1>1, AlwaysIInv, PTL

(* Whatever is run, handle_message runs with the path and all the          *)
(* arguments session_start was called with: serialize.c sends nothing that *)
(* does not fit, and a count that message.c reads wrong is read as more    *)
(* than there are strings, never as fewer.                                 *)
THEOREM WholeCommandsAreRun == Spec => []RunsWhatWasAsked
<1>1. ASSUME FateInv PROVE RunsWhatWasAsked
  <2> SUFFICES ASSUME NEW i \in DOMAIN ran
               PROVE  /\ ran[i].path = asked[ran[i].message].path
                      /\ ran[i].args = asked[ran[i].message].args
    BY DEF RunsWhatWasAsked
  <2>1. ran # <<>>
    OBVIOUS
  <2>2. PICK k \in 1..Number :
          ran = <<[message |-> k, path |-> asked[k].path, args |-> asked[k].args]>>
    BY <1>1, <2>1 DEF FateInv, RanInv
  <2>3. i = 1
    BY <2>2
  <2> QED
    BY <2>2, <2>3
<1> QED
  BY <1>1, AlwaysFate, PTL

(* For any size of a byte: a command that fits is dropped, when no malloc  *)
(* fails, exactly if a byte of its number of arguments is in the upper     *)
(* half of its values, the sign of message.c:93; else a command is run.    *)
THEOREM DroppedForASign == Spec => []DroppedForItsCount
<1>1. FateInv => DroppedForItsCount
  BY DEF FateInv
<1> QED
  BY <1>1, AlwaysFate, PTL
=============================================================================
