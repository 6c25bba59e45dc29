----------------------------- MODULE StartupProofs -----------------------------
(***************************************************************************)
(* The ladder of the master whatever step fails.  What it has taken is     *)
(* what its next step needs; where a failed step enters the clean-up, what *)
(* is still to be given back is what was taken.                            *)
(***************************************************************************)
EXTENDS Startup, TLAPS

-----------------------------------------------------------------------------
(* What stands where on the ladder.                                        *)


(* From i on, j is t.                                                      *)
From(j, n, t) == \A i \in 1..Len(t) : j[n + i] = t[i]

LEMMA JoinedIs ==
  ASSUME NEW S, NEW s \in Seq(S), NEW t \in Seq(S)
  PROVE  /\ s \o t \in Seq(S) /\ Len(s \o t) = Len(s) + Len(t)
         /\ From(s \o t, Len(s), t)
         /\ \A i \in 1..Len(s) : (s \o t)[i] = s[i]
BY DEF From

LEMMA StaysIn ==
  ASSUME NEW S, NEW s \in Seq(S), NEW t \in Seq(S), NEW u \in Seq(S), NEW n \in Nat,
         From(s, n, u), n + Len(u) <= Len(s)
  PROVE  From(s \o t, n, u)
<1> SUFFICES ASSUME NEW i \in 1..Len(u) PROVE (s \o t)[n + i] = u[i]
  BY DEF From
<1>1. n + i \in 1..Len(s)
  OBVIOUS
<1>2. (s \o t)[n + i] = s[n + i]
  BY <1>1, JoinedIs
<1> QED
  BY <1>2 DEF From

InTurn(j, a, b, c, d, e, f) ==
  LET m == Len(a)
      n == m + Len(b)
      o == n + Len(c)
      p == o + Len(d)
      q == p + Len(e)
  IN  /\ From(j, 0, a) /\ From(j, m, b) /\ From(j, n, c)
      /\ From(j, o, d) /\ From(j, p, e) /\ From(j, q, f)
      /\ Len(j) = q + Len(f)

LEMMA SixJoined ==
  ASSUME NEW S, NEW a \in Seq(S), NEW b \in Seq(S), NEW c \in Seq(S),
         NEW d \in Seq(S), NEW e \in Seq(S), NEW f \in Seq(S)
  PROVE  InTurn(a \o b \o c \o d \o e \o f, a, b, c, d, e, f)
<1> DEFINE ab == a \o b
           abc == ab \o c
           abcd == abc \o d
           abcde == abcd \o e
           j == abcde \o f
           m == Len(a)
           n == m + Len(b)
           o == n + Len(c)
           p == o + Len(d)
           q == p + Len(e)
<1>0. m \in Nat /\ n \in Nat /\ o \in Nat /\ p \in Nat /\ q \in Nat
      /\ m + Len(b) = n /\ n + Len(c) = o /\ o + Len(d) = p /\ p + Len(e) = q
  OBVIOUS
<1>1. /\ ab \in Seq(S) /\ Len(ab) = n
      /\ From(ab, 0, a) /\ From(ab, m, b)
  BY JoinedIs DEF From
<1> HIDE DEF ab, n
<1>2. /\ abc \in Seq(S) /\ Len(abc) = o
      /\ From(abc, n, c)
  <2>1. abc \in Seq(S) /\ Len(abc) = Len(ab) + Len(c) /\ From(abc, Len(ab), c)
    BY <1>1, JoinedIs
  <2> QED
    BY <1>1, <2>1
<1>3. From(abc, 0, a) /\ From(abc, m, b)
  BY <1>0, <1>1, StaysIn
<1> HIDE DEF abc, o
<1>4. abcd \in Seq(S) /\ Len(abcd) = p /\ From(abcd, o, d)
  BY <1>0, <1>2, JoinedIs
<1>5. From(abcd, 0, a) /\ From(abcd, m, b) /\ From(abcd, n, c)
  BY <1>0, <1>2, <1>3, StaysIn
<1> HIDE DEF abcd, p
<1>6. abcde \in Seq(S) /\ Len(abcde) = q /\ From(abcde, p, e)
  BY <1>0, <1>4, JoinedIs
<1>7. From(abcde, 0, a) /\ From(abcde, m, b) /\ From(abcde, n, c) /\ From(abcde, o, d)
  BY <1>0, <1>4, <1>5, StaysIn
<1> HIDE DEF abcde, q
<1>8. Len(j) = q + Len(f) /\ From(j, q, f)
  BY <1>0, <1>6, JoinedIs
<1>9. /\ From(j, 0, a) /\ From(j, m, b) /\ From(j, n, c) /\ From(j, o, d)
      /\ From(j, p, e)
  BY <1>0, <1>6, <1>7, StaysIn
<1> QED
  BY <1>8, <1>9, Zenon DEF InTurn, ab, abc, abcd, abcde, n, o, p, q

Steps == {ProcessUp[i] : i \in 1..5} \cup {DirectoriesUp[i] : i \in 1..8}
           \cup {CardUp[i] : i \in 1..6} \cup {TtyUp[i] : i \in 1..4}
           \cup {SymlinksUp[i] : i \in 1..2} \cup {UmountfsUp[i] : i \in 1..4}

LEMMA UpPieces ==
  /\ ProcessUp \in Seq(Steps) /\ Len(ProcessUp) = 5
  /\ DirectoriesUp \in Seq(Steps) /\ Len(DirectoriesUp) = 8
  /\ CardUp \in Seq(Steps) /\ Len(CardUp) = 6
  /\ TtyUp \in Seq(Steps) /\ Len(TtyUp) = 4
  /\ SymlinksUp \in Seq(Steps) /\ Len(SymlinksUp) = 2
  /\ UmountfsUp \in Seq(Steps) /\ Len(UmountfsUp) = 4
<1>1. ProcessUp \in Seq(Steps) /\ Len(ProcessUp) = 5
  <2>1. \A i \in 1..5 : ProcessUp[i] \in Steps
    BY DEF Steps
  <2> QED
    BY <2>1 DEF ProcessUp
<1>2. DirectoriesUp \in Seq(Steps) /\ Len(DirectoriesUp) = 8
  <2>1. \A i \in 1..8 : DirectoriesUp[i] \in Steps
    BY DEF Steps
  <2> QED
    BY <2>1 DEF DirectoriesUp
<1>3. CardUp \in Seq(Steps) /\ Len(CardUp) = 6
  <2>1. \A i \in 1..6 : CardUp[i] \in Steps
    BY DEF Steps
  <2> QED
    BY <2>1 DEF CardUp
<1>4. TtyUp \in Seq(Steps) /\ Len(TtyUp) = 4
  <2>1. \A i \in 1..4 : TtyUp[i] \in Steps
    BY DEF Steps
  <2> QED
    BY <2>1 DEF TtyUp
<1>5. SymlinksUp \in Seq(Steps) /\ Len(SymlinksUp) = 2
  <2>1. \A i \in 1..2 : SymlinksUp[i] \in Steps
    BY DEF Steps
  <2> QED
    BY <2>1 DEF SymlinksUp
<1>6. UmountfsUp \in Seq(Steps) /\ Len(UmountfsUp) = 4
  <2>1. \A i \in 1..4 : UmountfsUp[i] \in Steps
    BY DEF Steps
  <2> QED
    BY <2>1 DEF UmountfsUp
<1> QED
  BY <1>1, <1>2, <1>3, <1>4, <1>5, <1>6

LEMMA UpIs ==
  /\ Len(Up) = 29
  /\ From(Up, 0, ProcessUp)
  /\ From(Up, 5, DirectoriesUp)
  /\ From(Up, 13, CardUp)
  /\ From(Up, 19, TtyUp)
  /\ From(Up, 23, SymlinksUp)
  /\ From(Up, 25, UmountfsUp)
<1>1. InTurn(Up, ProcessUp, DirectoriesUp, CardUp, TtyUp, SymlinksUp, UmountfsUp)
  BY UpPieces, SixJoined, Zenon DEF Up
<1> QED
  BY <1>1, UpPieces DEF InTurn


Undos == {UmountfsDown[i] : i \in 1..4} \cup {SymlinksDown[i] : i \in 1..2}
           \cup {TtyDown[i] : i \in 1..3} \cup {CardDown[i] : i \in 1..5}
           \cup {DirectoriesDown[i] : i \in 1..6} \cup {ProcessDown[i] : i \in 1..6}

LEMMA DownPieces ==
  /\ UmountfsDown \in Seq(Undos) /\ Len(UmountfsDown) = 4
  /\ SymlinksDown \in Seq(Undos) /\ Len(SymlinksDown) = 2
  /\ TtyDown \in Seq(Undos) /\ Len(TtyDown) = 3
  /\ CardDown \in Seq(Undos) /\ Len(CardDown) = 5
  /\ DirectoriesDown \in Seq(Undos) /\ Len(DirectoriesDown) = 6
  /\ ProcessDown \in Seq(Undos) /\ Len(ProcessDown) = 6
<1>1. UmountfsDown \in Seq(Undos) /\ Len(UmountfsDown) = 4
  <2>1. \A i \in 1..4 : UmountfsDown[i] \in Undos
    BY DEF Undos
  <2> QED
    BY <2>1 DEF UmountfsDown
<1>2. SymlinksDown \in Seq(Undos) /\ Len(SymlinksDown) = 2
  <2>1. \A i \in 1..2 : SymlinksDown[i] \in Undos
    BY DEF Undos
  <2> QED
    BY <2>1 DEF SymlinksDown
<1>3. TtyDown \in Seq(Undos) /\ Len(TtyDown) = 3
  <2>1. \A i \in 1..3 : TtyDown[i] \in Undos
    BY DEF Undos
  <2> QED
    BY <2>1 DEF TtyDown
<1>4. CardDown \in Seq(Undos) /\ Len(CardDown) = 5
  <2>1. \A i \in 1..5 : CardDown[i] \in Undos
    BY DEF Undos
  <2> QED
    BY <2>1 DEF CardDown
<1>5. DirectoriesDown \in Seq(Undos) /\ Len(DirectoriesDown) = 6
  <2>1. \A i \in 1..6 : DirectoriesDown[i] \in Undos
    BY DEF Undos
  <2> QED
    BY <2>1 DEF DirectoriesDown
<1>6. ProcessDown \in Seq(Undos) /\ Len(ProcessDown) = 6
  <2>1. \A i \in 1..6 : ProcessDown[i] \in Undos
    BY DEF Undos
  <2> QED
    BY <2>1 DEF ProcessDown
<1> QED
  BY <1>1, <1>2, <1>3, <1>4, <1>5, <1>6

LEMMA DownIs ==
  /\ Len(Down) = 26
  /\ From(Down, 0, UmountfsDown)
  /\ From(Down, 4, SymlinksDown)
  /\ From(Down, 6, TtyDown)
  /\ From(Down, 9, CardDown)
  /\ From(Down, 14, DirectoriesDown)
  /\ From(Down, 20, ProcessDown)
<1>1. InTurn(Down, UmountfsDown, SymlinksDown, TtyDown, CardDown, DirectoriesDown, ProcessDown)
  BY DownPieces, SixJoined, Zenon DEF Down
<1> QED
  BY <1>1, DownPieces DEF InTurn

(* The names of the steps and where their labels are in the clean-up.      *)
LabelOf ==
  <<25, 24, 23, 22, 21, 21, 20, 20, 19, 18, 17, 16, 16, 15, 14,
    13, 12, 11, 10, 10, 9, 8, 7, 7, 5, 5, 4, 3, 3>>

(* Where what the clean-up gives back was taken.                           *)
TakenOf ==
  <<28, 29, 27, 26, 25, 24, 22, 21, 20, 18, 17, 16, 15, 14, 13,
    11, 10, 9, 8, 6, 4, 3, 2, 1, 0, 0>>

(* Where a thing is given back.                                            *)
FreedAt(n) ==
  CASE n = "mount" -> 1 [] n = "fuseReg" -> 2 [] n = "fuse" -> 3
   [] n = "umountfs" -> 4 [] n = "entries" -> 5 [] n = "symlinks" -> 6
   [] n = "ttyReg" -> 7 [] n \in {"ttyCuse", "ttyDevice"} -> 8
   [] n = "tty" -> 9 [] n = "timerReg" -> 10 [] n = "cardCuseReg" -> 11
   [] n = "timerfd" -> 12 [] n \in {"cardCuse", "cardDevice"} -> 13
   [] n = "card" -> 14 [] n = "cardFd" -> 15 [] n = "devDir" -> 16
   [] n = "nothing" -> 17 [] n = "newDev" -> 18 [] n = "oldDev" -> 19
   [] n = "tmp" -> 20 [] n = "sigfdReg" -> 21 [] n = "sigfd" -> 22
   [] n = "socketReg" -> 23 [] n = "epoll" -> 24 [] n = "result" -> 25
   [] n = "socket" -> 26

(* Where a label stands.                                                   *)
LabelAt(l) ==
  CASE l \in {"umountfs:e_register_fd", "umountfs:e_mount"} -> 3
   [] l = "umountfs:e_open" -> 4
   [] l \in {"e_umountfs_new", "symlinks:e_fill_new_dev"} -> 5
   [] l \in {"e_symlinks_new", "tty:e_init"} -> 7
   [] l = "tty:e_register_fd" -> 8 [] l = "tty:e_open_dev_cuse" -> 9
   [] l \in {"e_tty_new", "card:e_initialize"} -> 10
   [] l = "card:e_register_timerfd" -> 11
   [] l = "card:e_register_cuse" -> 12 [] l = "card:e_timerfd" -> 13
   [] l = "card:e_cuse" -> 14 [] l = "e_card_new" -> 15
   [] l = "e_chmod_dev" -> 16 [] l = "e_mkdtemp_dev" -> 17
   [] l = "e_umountfs" -> 18 [] l = "e_new_dev" -> 19
   [] l = "e_chmod" -> 20 [] l = "e_mkdtemp" -> 21
   [] l = "e_register_sigfd" -> 22 [] l = "e_sigfd" -> 23
   [] l = "e_register_socket" -> 24 [] l = "e_epoll" -> 25

LEMMA UpTable ==
  /\ Up[1] = Step("epoll", "e_epoll")
  /\ Up[2] = Step("socketReg", "e_register_socket")
  /\ Up[3] = Step("sigfd", "e_sigfd")
  /\ Up[4] = Step("sigfdReg", "e_register_sigfd")
  /\ Up[5] = Step("root", "e_mkdtemp")
  /\ Up[6] = Step("tmp", "e_mkdtemp")
  /\ Up[7] = Step("chmod", "e_chmod")
  /\ Up[8] = Step("oldDev", "e_chmod")
  /\ Up[9] = Step("newDev", "e_new_dev")
  /\ Up[10] = Step("nothing", "e_umountfs")
  /\ Up[11] = Step("devDir", "e_mkdtemp_dev")
  /\ Up[12] = Step("chmod", "e_chmod_dev")
  /\ Up[13] = Step("cardFd", "e_chmod_dev")
  /\ Up[14] = Step("card", "e_card_new")
  /\ Up[15] = Step("cardCuse", "card:e_cuse")
  /\ Up[16] = Step("timerfd", "card:e_timerfd")
  /\ Up[17] = Step("cardCuseReg", "card:e_register_cuse")
  /\ Up[18] = Step("timerReg", "card:e_register_timerfd")
  /\ Up[19] = Step("cardDevice", "card:e_initialize")
  /\ Up[20] = Step("tty", "e_tty_new")
  /\ Up[21] = Step("ttyCuse", "tty:e_open_dev_cuse")
  /\ Up[22] = Step("ttyReg", "tty:e_register_fd")
  /\ Up[23] = Step("ttyDevice", "tty:e_init")
  /\ Up[24] = Step("symlinks", "e_symlinks_new")
  /\ Up[25] = Step("entries", "symlinks:e_fill_new_dev")
  /\ Up[26] = Step("umountfs", "e_umountfs_new")
  /\ Up[27] = Step("fuse", "umountfs:e_open")
  /\ Up[28] = Step("mount", "umountfs:e_mount")
  /\ Up[29] = Step("fuseReg", "umountfs:e_register_fd")
<1>1. /\ Up[1] = Step("epoll", "e_epoll")
      /\ Up[2] = Step("socketReg", "e_register_socket")
      /\ Up[3] = Step("sigfd", "e_sigfd")
      /\ Up[4] = Step("sigfdReg", "e_register_sigfd")
      /\ Up[5] = Step("root", "e_mkdtemp")
  <2>1. \A i \in 1..5 : Up[0 + i] = ProcessUp[i]
    BY UpIs, UpPieces DEF From
  <2> QED
    BY <2>1 DEF ProcessUp
<1>2. /\ Up[6] = Step("tmp", "e_mkdtemp")
      /\ Up[7] = Step("chmod", "e_chmod")
      /\ Up[8] = Step("oldDev", "e_chmod")
      /\ Up[9] = Step("newDev", "e_new_dev")
      /\ Up[10] = Step("nothing", "e_umountfs")
      /\ Up[11] = Step("devDir", "e_mkdtemp_dev")
      /\ Up[12] = Step("chmod", "e_chmod_dev")
      /\ Up[13] = Step("cardFd", "e_chmod_dev")
  <2>1. \A i \in 1..8 : Up[5 + i] = DirectoriesUp[i]
    BY UpIs, UpPieces DEF From
  <2> QED
    BY <2>1 DEF DirectoriesUp
<1>3. /\ Up[14] = Step("card", "e_card_new")
      /\ Up[15] = Step("cardCuse", "card:e_cuse")
      /\ Up[16] = Step("timerfd", "card:e_timerfd")
      /\ Up[17] = Step("cardCuseReg", "card:e_register_cuse")
      /\ Up[18] = Step("timerReg", "card:e_register_timerfd")
      /\ Up[19] = Step("cardDevice", "card:e_initialize")
  <2>1. \A i \in 1..6 : Up[13 + i] = CardUp[i]
    BY UpIs, UpPieces DEF From
  <2> QED
    BY <2>1 DEF CardUp
<1>4. /\ Up[20] = Step("tty", "e_tty_new")
      /\ Up[21] = Step("ttyCuse", "tty:e_open_dev_cuse")
      /\ Up[22] = Step("ttyReg", "tty:e_register_fd")
      /\ Up[23] = Step("ttyDevice", "tty:e_init")
  <2>1. \A i \in 1..4 : Up[19 + i] = TtyUp[i]
    BY UpIs, UpPieces DEF From
  <2> QED
    BY <2>1 DEF TtyUp
<1>5. /\ Up[24] = Step("symlinks", "e_symlinks_new")
      /\ Up[25] = Step("entries", "symlinks:e_fill_new_dev")
  <2>1. \A i \in 1..2 : Up[23 + i] = SymlinksUp[i]
    BY UpIs, UpPieces DEF From
  <2> QED
    BY <2>1 DEF SymlinksUp
<1>6. /\ Up[26] = Step("umountfs", "e_umountfs_new")
      /\ Up[27] = Step("fuse", "umountfs:e_open")
      /\ Up[28] = Step("mount", "umountfs:e_mount")
      /\ Up[29] = Step("fuseReg", "umountfs:e_register_fd")
  <2>1. \A i \in 1..4 : Up[25 + i] = UmountfsUp[i]
    BY UpIs, UpPieces DEF From
  <2> QED
    BY <2>1 DEF UmountfsUp
<1> QED
  BY <1>1, <1>2, <1>3, <1>4, <1>5, <1>6

LEMMA DownTable ==
  /\ Down[1] = Undo({}, "mount")
  /\ Down[2] = Undo({}, "fuseReg")
  /\ Down[3] = Undo({"umountfs:e_register_fd", "umountfs:e_mount"}, "fuse")
  /\ Down[4] = Undo({"umountfs:e_open"}, "umountfs")
  /\ Down[5] = Undo({"e_umountfs_new", "symlinks:e_fill_new_dev"}, "entries")
  /\ Down[6] = Undo({}, "symlinks")
  /\ Down[7] = Undo({"e_symlinks_new", "tty:e_init"}, "ttyReg")
  /\ Down[8] = Undo({"tty:e_register_fd"}, "ttyCuse")
  /\ Down[9] = Undo({"tty:e_open_dev_cuse"}, "tty")
  /\ Down[10] = Undo({"e_tty_new", "card:e_initialize"}, "timerReg")
  /\ Down[11] = Undo({"card:e_register_timerfd"}, "cardCuseReg")
  /\ Down[12] = Undo({"card:e_register_cuse"}, "timerfd")
  /\ Down[13] = Undo({"card:e_timerfd"}, "cardCuse")
  /\ Down[14] = Undo({"card:e_cuse"}, "card")
  /\ Down[15] = Undo({"e_card_new"}, "cardFd")
  /\ Down[16] = Undo({"e_chmod_dev"}, "devDir")
  /\ Down[17] = Undo({"e_mkdtemp_dev"}, "nothing")
  /\ Down[18] = Undo({"e_umountfs"}, "newDev")
  /\ Down[19] = Undo({"e_new_dev"}, "oldDev")
  /\ Down[20] = Undo({"e_chmod"}, "tmp")
  /\ Down[21] = Undo({"e_mkdtemp"}, "sigfdReg")
  /\ Down[22] = Undo({"e_register_sigfd"}, "sigfd")
  /\ Down[23] = Undo({"e_sigfd"}, "socketReg")
  /\ Down[24] = Undo({"e_register_socket"}, "epoll")
  /\ Down[25] = Undo({"e_epoll"}, "result")
  /\ Down[26] = Undo({}, "socket")
<1>1. /\ Down[1] = Undo({}, "mount")
      /\ Down[2] = Undo({}, "fuseReg")
      /\ Down[3] = Undo({"umountfs:e_register_fd", "umountfs:e_mount"}, "fuse")
      /\ Down[4] = Undo({"umountfs:e_open"}, "umountfs")
  <2>1. \A i \in 1..4 : Down[0 + i] = UmountfsDown[i]
    BY DownIs, DownPieces DEF From
  <2> QED
    BY <2>1 DEF UmountfsDown
<1>2. /\ Down[5] = Undo({"e_umountfs_new", "symlinks:e_fill_new_dev"}, "entries")
      /\ Down[6] = Undo({}, "symlinks")
  <2>1. \A i \in 1..2 : Down[4 + i] = SymlinksDown[i]
    BY DownIs, DownPieces DEF From
  <2> QED
    BY <2>1 DEF SymlinksDown
<1>3. /\ Down[7] = Undo({"e_symlinks_new", "tty:e_init"}, "ttyReg")
      /\ Down[8] = Undo({"tty:e_register_fd"}, "ttyCuse")
      /\ Down[9] = Undo({"tty:e_open_dev_cuse"}, "tty")
  <2>1. \A i \in 1..3 : Down[6 + i] = TtyDown[i]
    BY DownIs, DownPieces DEF From
  <2> QED
    BY <2>1 DEF TtyDown
<1>4. /\ Down[10] = Undo({"e_tty_new", "card:e_initialize"}, "timerReg")
      /\ Down[11] = Undo({"card:e_register_timerfd"}, "cardCuseReg")
      /\ Down[12] = Undo({"card:e_register_cuse"}, "timerfd")
      /\ Down[13] = Undo({"card:e_timerfd"}, "cardCuse")
      /\ Down[14] = Undo({"card:e_cuse"}, "card")
  <2>1. \A i \in 1..5 : Down[9 + i] = CardDown[i]
    BY DownIs, DownPieces DEF From
  <2> QED
    BY <2>1 DEF CardDown
<1>5. /\ Down[15] = Undo({"e_card_new"}, "cardFd")
      /\ Down[16] = Undo({"e_chmod_dev"}, "devDir")
      /\ Down[17] = Undo({"e_mkdtemp_dev"}, "nothing")
      /\ Down[18] = Undo({"e_umountfs"}, "newDev")
      /\ Down[19] = Undo({"e_new_dev"}, "oldDev")
      /\ Down[20] = Undo({"e_chmod"}, "tmp")
  <2>1. \A i \in 1..6 : Down[14 + i] = DirectoriesDown[i]
    BY DownIs, DownPieces DEF From
  <2> QED
    BY <2>1 DEF DirectoriesDown
<1>6. /\ Down[21] = Undo({"e_mkdtemp"}, "sigfdReg")
      /\ Down[22] = Undo({"e_register_sigfd"}, "sigfd")
      /\ Down[23] = Undo({"e_sigfd"}, "socketReg")
      /\ Down[24] = Undo({"e_register_socket"}, "epoll")
      /\ Down[25] = Undo({"e_epoll"}, "result")
      /\ Down[26] = Undo({}, "socket")
  <2>1. \A i \in 1..6 : Down[20 + i] = ProcessDown[i]
    BY DownIs, DownPieces DEF From
  <2> QED
    BY <2>1 DEF ProcessDown
<1> QED
  BY <1>1, <1>2, <1>3, <1>4, <1>5, <1>6

LEMMA StepIs == \A i \in 1..29 : i \in
  {1, 2, 3, 4, 5, 6, 7, 8, 9, 10, 11, 12, 13, 14, 15, 16, 17, 18, 19, 20,
   21, 22, 23, 24, 25, 26, 27, 28, 29}
OBVIOUS

(* Every label stands once in the clean-up.                                *)
LEMMA LabelsStandOnce ==
  ASSUME NEW j \in 1..26, NEW l \in Down[j].labels
  PROVE  LabelAt(l) = j
BY StepIs, DownTable DEF Undo, LabelAt

LEMMA LabelIs ==
  ASSUME NEW i \in 1..29
  PROVE  LabelOf[i] \in 1..26 /\ Label(Up[i].label) = LabelOf[i]
<1>1. LabelOf[i] \in 1..26 /\ Up[i].label \in Down[LabelOf[i]].labels
  BY StepIs, UpTable, DownTable DEF Step, Undo, LabelOf
<1>2. \A j \in 1..26 : Up[i].label \in Down[j].labels => j = LabelOf[i]
  BY <1>1, LabelsStandOnce
<1> QED
  BY <1>1, <1>2, DownIs DEF Label

(* What the clean-up gives back was taken, and once.                       *)
LEMMA FreedIsTaken ==
  ASSUME NEW j \in 1..26
  PROVE  \/ Down[j].frees \in {"result", "socket"}
         \/ TakenOf[j] \in 1..29 /\ Takes(Up[TakenOf[j]].takes) = {Down[j].frees}
BY StepIs, UpTable, DownTable DEF Step, Undo, TakenOf, Takes

LEMMA FreedOnce ==
  ASSUME NEW j \in 1..26, NEW n \in GoneWith(Down[j].frees)
  PROVE  FreedAt(n) = j
BY StepIs, DownTable DEF Undo, GoneWith, FreedAt

LEMMA TakenIsFreed ==
  ASSUME NEW i \in 1..29, NEW n \in Takes(Up[i].takes)
  PROVE  FreedAt(n) \in 1..26 /\ n \in GoneWith(Down[FreedAt(n)].frees)
<1> DEFINE f == <<24, 23, 22, 21, 0, 20, 0, 19, 18, 17, 16, 0, 15, 14, 13,
                  12, 11, 10, 13, 9, 8, 7, 8, 6, 5, 4, 3, 1, 2>>
<1>0. n = Up[i].takes /\ i \notin {5, 7, 12} /\ FreedAt(n) = f[i]
  BY StepIs, UpTable DEF Step, Takes, FreedAt
<1>1. /\ f[i] \in 1..26
      /\ \/ Down[f[i]].frees = n
         \/ n = "cardDevice" /\ Down[f[i]].frees = "cardCuse"
         \/ n = "ttyDevice" /\ Down[f[i]].frees = "ttyCuse"
  BY <1>0, StepIs, UpTable, DownTable DEF Step, Undo
<1> HIDE DEF f
<1>2. n \in GoneWith(n) /\ "cardDevice" \in GoneWith("cardCuse")
        /\ "ttyDevice" \in GoneWith("ttyCuse")
  BY DEF GoneWith
<1> QED
  BY <1>0, <1>1, <1>2

(* The clean-up is the mirror of the set-up.                               *)
LEMMA LabelsMirror ==
  ASSUME NEW i \in 1..29, NEW j \in 1..26, LabelOf[i] <= j
  PROVE  j \in {1, 2, 5, 25, 26} \/ TakenOf[j] < i
BY StepIs DEF LabelOf, TakenOf

LEMMA StepsMirror ==
  ASSUME NEW i \in 1..29, NEW k \in 1..29, k < i,
         NEW n \in Takes(Up[k].takes)
  PROVE  FreedAt(n) >= LabelOf[i] \/ (i = 29 /\ n = "mount")
BY StepIs, UpTable DEF Step, Takes, LabelOf, FreedAt

-----------------------------------------------------------------------------
(* The invariant.                                                          *)

(* What the master has taken before step i.                                *)
HeldAt(i) == {"socket"} \cup UNION {Takes(Up[k].takes) : k \in 1..(i - 1)}

(* What the clean-up gives back from its statement i on.                   *)
Given(i) == UNION {GoneWith(Down[j].frees) : j \in i..26}

(* What stays for ever: the mount whose descriptor could not be registered,*)
(* and the directories around it.                                          *)
Stuck == {"mount", "nothing", "tmp"}
Remaining == IF "fuseReg" \in MayFail THEN Stuck ELSE {}

NoneInv == mpc = "none" => at = 1 /\ held = {} /\ told = "nothing"

SetupInv == mpc = "setup" => held = HeldAt(at) /\ told = "nothing"

(* The loop gives nothing back but the two things of the mount.            *)
LoopInv == mpc = "loop" => /\ held \subseteq HeldAt(30)
                           /\ HeldAt(30) \ Guarded \subseteq held
                           /\ told = "INIT_SUCCESS"

(* What is still to be given back is there, and there is nothing else.     *)
UndoInv == mpc = "undo" =>
  /\ at \in 1..26
  /\ \A j \in at..26 : Down[j].frees \in held \cup Guarded \cup {"result"}
  /\ held \subseteq Given(at) \cup Remaining

DoneInv == mpc = "done" => held \subseteq Remaining

(* The library is told of a failure by the last statement but one.         *)
ToldInv == told = "INIT_FAILURE" => (mpc = "undo" /\ at = 26) \/ mpc = "done"

LadderInv == /\ at \in 1..29
             /\ NoneInv /\ SetupInv /\ LoopInv /\ UndoInv /\ DoneInv /\ ToldInv

(* What the library holds wherever it is.                                  *)
LibInv ==
  /\ lib = "idle" => libHeld = {}
  /\ lib = "spawn" => libHeld = {"memory", "ours", "theirs", "masked"}
  /\ lib = "register" => libHeld = {"memory", "ours"}
  /\ lib \in {"recv", "running"} => libHeld = {"memory", "ours", "registered"}
  /\ lib \in {"aborted", "freed"} => libHeld = {}
  /\ lib = "failed" => libHeld = {} \/ (libHeld = {"masked"} /\ mpc = "none")
  /\ lib \in {"idle", "spawn"} => mpc = "none"

IInv == TypeOK /\ LadderInv /\ LibInv

LEMMA LaddersAre ==
  /\ Len(Up) = 29 /\ Len(Down) = 26
  /\ \A i \in 1..29 : Takes(Up[i].takes) \subseteq {Up[i].takes}
  /\ \A i \in 1..29 : Up[i].takes \in MasterSteps
BY UpIs, DownIs DEF Takes, MasterSteps

LEMMA HeldGrows ==
  /\ HeldAt(1) = {"socket"}
  /\ \A i \in 1..29 : HeldAt(i + 1) = HeldAt(i) \cup Takes(Up[i].takes)
<1>1. HeldAt(1) = {"socket"}
  BY DEF HeldAt
<1>2. ASSUME NEW i \in 1..29 PROVE HeldAt(i + 1) = HeldAt(i) \cup Takes(Up[i].takes)
  <2>1. 1..((i + 1) - 1) = (1..(i - 1)) \cup {i}
    OBVIOUS
  <2> QED
    BY <2>1 DEF HeldAt
<1> QED
  BY <1>1, <1>2

LEMMA HeldAreThings ==
  ASSUME NEW i \in 1..30
  PROVE  HeldAt(i) \subseteq MasterSteps \cup {"socket"}
<1>1. \A k \in 1..(i - 1) : k \in 1..29
  OBVIOUS
<1>2. ASSUME NEW k \in 1..(i - 1) PROVE Takes(Up[k].takes) \subseteq MasterSteps
  <2>1. k \in 1..29
    BY <1>1
  <2> QED
    BY <2>1, LaddersAre
<1> QED
  BY <1>2, Zenon DEF HeldAt

(* What a failed step i leaves is what the clean-up from its label gives   *)
(* back.                                                                   *)
LEMMA EntersTheMirror ==
  ASSUME NEW i \in 1..30, NEW l \in 1..26, i = 30 => l = 1,
         i # 30 => l = LabelOf[i]
  PROVE  /\ \A j \in l..26 : Down[j].frees \in HeldAt(i) \cup Guarded \cup {"result"}
         /\ \A n \in HeldAt(i) : n \in Given(l) \/ (i = 29 /\ n = "mount")
<1>1. ASSUME NEW j \in l..26
      PROVE  Down[j].frees \in HeldAt(i) \cup Guarded \cup {"result"}
  <2>1. j \in 1..26 /\ l <= j
    OBVIOUS
  <2>2. CASE Down[j].frees \in {"result", "socket"} \cup Guarded
    BY <2>2 DEF HeldAt
  <2>3. CASE Down[j].frees \notin {"result", "socket"} \cup Guarded
    <3>1. TakenOf[j] \in 1..29 /\ Takes(Up[TakenOf[j]].takes) = {Down[j].frees}
      BY <2>1, <2>3, FreedIsTaken
    <3>2. j \notin {1, 2, 5, 25, 26}
      BY <2>3, DownTable DEF Undo, Guarded
    <3>3. TakenOf[j] < i
      <4>1. CASE i = 30
        BY <3>1, <4>1
      <4>2. CASE i # 30
        <5>1. i \in 1..29 /\ LabelOf[i] <= j
          BY <2>1, <4>2
        <5> QED
          BY <2>1, <3>2, <5>1, LabelsMirror
      <4> QED
        BY <4>1, <4>2
    <3>4. TakenOf[j] \in 1..(i - 1)
      BY <3>1, <3>3
    <3> QED
      BY <3>1, <3>4 DEF HeldAt
  <2> QED
    BY <2>2, <2>3
<1>2. ASSUME NEW n \in HeldAt(i), ~(i = 29 /\ n = "mount")
      PROVE  n \in Given(l)
  <2>1. CASE n = "socket"
    <3>1. Down[26].frees = "socket" /\ "socket" \in GoneWith("socket")
      BY DownTable DEF Undo, GoneWith
    <3>2. 26 \in l..26
      OBVIOUS
    <3> QED
      BY <2>1, <3>1, <3>2 DEF Given
  <2>2. CASE n # "socket"
    <3>1. PICK k \in 1..(i - 1) : n \in Takes(Up[k].takes)
      BY <2>2 DEF HeldAt
    <3>2. k \in 1..29 /\ k < i
      OBVIOUS
    <3>3. FreedAt(n) \in 1..26 /\ n \in GoneWith(Down[FreedAt(n)].frees)
      BY <3>1, <3>2, TakenIsFreed
    <3>4. FreedAt(n) >= l
      <4>1. CASE i = 30
        BY <3>3, <4>1
      <4>2. CASE i # 30
        <5>1. i \in 1..29
          BY <4>2
        <5>2. FreedAt(n) >= LabelOf[i]
          BY <1>2, <3>1, <3>2, <5>1, StepsMirror
        <5> QED
          BY <4>2, <5>2
      <4> QED
        BY <4>1, <4>2
    <3>5. FreedAt(n) \in l..26
      BY <3>3, <3>4
    <3> QED
      BY <3>3, <3>5 DEF Given
  <2> QED
    BY <2>1, <2>2
<1> QED
  BY <1>1, <1>2

-----------------------------------------------------------------------------
(* The steps of the master.                                                *)

LEMMA StepSucceedsKeeps ==
  ASSUME TypeOK, LadderInv, StepSucceeds
  PROVE  LadderInv' /\ held' \subseteq MasterSteps \cup {"socket"}
<1>1. /\ mpc = "setup" /\ at \in 1..29 /\ held = HeldAt(at) /\ told = "nothing"
      /\ held' = HeldAt(at + 1)
  BY HeldGrows DEF StepSucceeds, LadderInv, SetupInv
<1>2. at + 1 \in 1..30
  BY <1>1
<1>3. held' \subseteq MasterSteps \cup {"socket"}
  BY <1>1, <1>2, HeldAreThings
<1>4. CASE at = 29
  <2>1. /\ mpc' = "loop" /\ told' = "INIT_SUCCESS" /\ at' = at /\ held' = HeldAt(30)
    BY <1>1, <1>4, LaddersAre DEF StepSucceeds
  <2> QED
    BY <1>1, <1>3, <2>1
    DEF LadderInv, NoneInv, SetupInv, LoopInv, UndoInv, DoneInv, ToldInv
<1>5. CASE at # 29
  <2>1. mpc' = mpc /\ told' = told /\ at' = at + 1
    BY <1>5, LaddersAre DEF StepSucceeds
  <2>2. at' \in 1..29
    BY <1>1, <1>5, <2>1
  <2>3. held' = HeldAt(at')
    BY <1>1, <2>1
  <2> QED
    BY <1>1, <1>3, <2>1, <2>2, <2>3
    DEF LadderInv, NoneInv, SetupInv, LoopInv, UndoInv, DoneInv, ToldInv
<1> QED
  BY <1>4, <1>5

LEMMA StepFailsKeeps ==
  ASSUME TypeOK, LadderInv, StepFails
  PROVE  LadderInv' /\ held' \subseteq MasterSteps \cup {"socket"}
<1>1. /\ mpc = "setup" /\ at \in 1..29 /\ held = HeldAt(at) /\ told = "nothing"
      /\ mpc' = "undo" /\ told' = told
      /\ Up[at].takes \in MayFail
      /\ held' = held \/ (Up[at].takes = "entries" /\ held' = held \cup {"entries"})
  BY DEF StepFails, LadderInv, SetupInv
<1>2. at' = LabelOf[at] /\ at' \in 1..26
  BY <1>1, LabelIs DEF StepFails
<1>3. /\ \A j \in at'..26 : Down[j].frees \in held \cup Guarded \cup {"result"}
      /\ \A n \in held : n \in Given(at') \/ (at = 29 /\ n = "mount")
  <2>1. at \in 1..30 /\ at # 30 /\ LabelOf[at] \in 1..26
    BY <1>1, <1>2
  <2>2. /\ \A j \in LabelOf[at]..26 : Down[j].frees \in HeldAt(at) \cup Guarded \cup {"result"}
        /\ \A n \in HeldAt(at) : n \in Given(LabelOf[at]) \/ (at = 29 /\ n = "mount")
    BY <2>1, EntersTheMirror
  <2>3. Given(at') = Given(LabelOf[at])
    BY <1>2
  <2> QED
    BY <1>1, <1>2, <2>2, <2>3
<1>4. "mount" \in Remaining \/ at # 29
  BY <1>1, UpTable DEF Step, Remaining, Stuck
<1>5. Up[at].takes = "entries" => "entries" \in Given(at')
  <2>1. SUFFICES ASSUME Up[at].takes = "entries" PROVE "entries" \in Given(at')
    OBVIOUS
  <2>2. at = 25 /\ LabelOf[25] = 5
    BY <1>1, <2>1, StepIs, UpTable DEF Step, LabelOf
  <2>3. Down[5].frees = "entries" /\ "entries" \in GoneWith("entries") /\ 5 \in at'..26
    BY <1>2, <2>2, DownTable DEF Undo, GoneWith
  <2> QED
    BY <2>3 DEF Given
<1>6. held' \subseteq Given(at') \cup Remaining
  BY <1>1, <1>3, <1>4, <1>5
<1>7. \A j \in at'..26 : Down[j].frees \in held' \cup Guarded \cup {"result"}
  BY <1>1, <1>3
<1>8. held' \subseteq MasterSteps \cup {"socket"}
  BY <1>1, HeldAreThings, LaddersAre
<1>9. at' \in 1..29
  BY <1>2
<1> QED
  BY <1>1, <1>2, <1>6, <1>7, <1>8, <1>9
  DEF LadderInv, NoneInv, SetupInv, LoopInv, UndoInv, DoneInv, ToldInv

LEMMA LoopEndedKeeps ==
  ASSUME TypeOK, LadderInv, mpc = "loop", LoopEnded
  PROVE  LadderInv' /\ held' \subseteq MasterSteps \cup {"socket"}
<1>1. /\ held \subseteq HeldAt(30) /\ HeldAt(30) \ Guarded \subseteq held
      /\ told = "INIT_SUCCESS"
      /\ mpc' = "undo" /\ at' = 1 /\ held' = held /\ told' = told
  BY DEF LadderInv, LoopInv, LoopEnded
<1>2. /\ \A j \in 1..26 : Down[j].frees \in HeldAt(30) \cup Guarded \cup {"result"}
      /\ \A n \in HeldAt(30) : n \in Given(1)
  <2>1. 30 \in 1..30 /\ 1 \in 1..26 /\ 30 # 29
    OBVIOUS
  <2> QED
    BY <2>1, EntersTheMirror
<1>3. /\ \A j \in at'..26 : Down[j].frees \in held' \cup Guarded \cup {"result"}
      /\ held' \subseteq Given(at') \cup Remaining
  BY <1>1, <1>2
<1>4. held' \subseteq MasterSteps \cup {"socket"}
  BY <1>1, HeldAreThings
<1> QED
  BY <1>1, <1>3, <1>4
  DEF LadderInv, NoneInv, SetupInv, LoopInv, UndoInv, DoneInv, ToldInv

(* A directory is empty when it is removed, but for those around the mount *)
(* that stays.                                                             *)
LEMMA InsideIsGone ==
  ASSUME NEW j \in 1..26, NEW n \in Inside(Down[j].frees)
  PROVE  /\ n \in {"oldDev", "newDev", "nothing", "entries", "mount",
                   "cardDevice", "ttyDevice"}
         /\ FreedAt(n) < j
         /\ n \in Stuck => GoneWith(Down[j].frees) \subseteq Stuck
BY StepIs, DownTable DEF Undo, Inside, GoneWith, Stuck, FreedAt

LEMMA UndoStepKeeps ==
  ASSUME TypeOK, LadderInv, UndoStep
  PROVE  LadderInv' /\ held' \subseteq MasterSteps \cup {"socket"}
<1> DEFINE name == Down[at].frees
<1>1. /\ mpc = "undo" /\ at \in 1..26
      /\ \A j \in at..26 : Down[j].frees \in held \cup Guarded \cup {"result"}
      /\ held \subseteq Given(at) \cup Remaining
      /\ told = "INIT_FAILURE" => at = 26
      /\ held \subseteq MasterSteps \cup {"socket"}
  BY DEF UndoStep, LadderInv, UndoInv, ToldInv, TypeOK
<1>2. /\ held' = IF Inside(name) \cap held # {} THEN held ELSE held \ GoneWith(name)
      /\ told' = IF name = "result" /\ told = "nothing" THEN "INIT_FAILURE" ELSE told
  BY DEF UndoStep
<1>3. held' \subseteq held /\ held \ GoneWith(name) \subseteq held'
  BY <1>2
<1>4. ASSUME NEW j \in (at + 1)..26
      PROVE  Down[j].frees \in held' \cup Guarded \cup {"result"}
  <2>1. j \in at..26 /\ j \in 1..26 /\ j # at
    BY <1>1
  <2>2. Down[j].frees \notin GoneWith(name)
    <3>1. Down[j].frees \in GoneWith(Down[j].frees)
      BY DEF GoneWith
    <3>2. FreedAt(Down[j].frees) = j
      BY <2>1, <3>1, FreedOnce
    <3> QED
      BY <1>1, <2>1, <3>2, FreedOnce
  <2> QED
    BY <1>1, <1>3, <2>1, <2>2
<1>5. ASSUME NEW n \in held', n \notin Remaining
      PROVE  \E j \in (at + 1)..26 : n \in GoneWith(Down[j].frees)
  <2>1. n \in held
    BY <1>3, <1>5
  <2>2. PICK j \in at..26 : n \in GoneWith(Down[j].frees)
    BY <1>1, <1>5, <2>1 DEF Given
  <2>3. CASE j = at
    <3>1. PICK m \in Inside(name) : m \in held
      BY <1>2, <1>5, <2>2, <2>3
    <3>2. FreedAt(m) < at /\ (m \in Stuck => GoneWith(name) \subseteq Stuck)
      BY <1>1, <3>1, InsideIsGone
    <3>3. m \notin Given(at)
      <4>1. ASSUME NEW i \in at..26, m \in GoneWith(Down[i].frees) PROVE FALSE
        <5>1. i \in 1..26 /\ at <= i
          BY <1>1
        <5>2. FreedAt(m) = i
          BY <4>1, <5>1, FreedOnce
        <5> QED
          BY <1>1, <3>2, <5>1, <5>2
      <4> QED
        BY <4>1 DEF Given
    <3>4. m \in Remaining
      BY <1>1, <3>1, <3>3
    <3>5. Remaining = Stuck
      BY <3>4 DEF Remaining
    <3> QED
      BY <1>5, <2>2, <2>3, <3>2, <3>4, <3>5
  <2>4. CASE j # at
    <3>1. j \in (at + 1)..26
      BY <1>1, <2>4
    <3> QED
      BY <2>2, <3>1
  <2> QED
    BY <2>3, <2>4
<1>6. CASE at = 26
  <2>1. mpc' = "done" /\ at' = at
    BY <1>6, LaddersAre DEF UndoStep
  <2>2. held' \subseteq Remaining
    <3>1. \A j \in (at + 1)..26 : FALSE
      BY <1>6
    <3> QED
      BY <1>5, <3>1
  <2> QED
    BY <1>1, <1>3, <2>1, <2>2
    DEF LadderInv, NoneInv, SetupInv, LoopInv, UndoInv, DoneInv, ToldInv
<1>7. CASE at # 26
  <2>1. mpc' = mpc /\ at' = at + 1 /\ at' \in 1..26 /\ at' \in 1..29
    BY <1>1, <1>7, LaddersAre DEF UndoStep
  <2>2. held' \subseteq Given(at') \cup Remaining
    BY <1>5, <2>1 DEF Given
  <2>3. told' = "INIT_FAILURE" => at' = 26
    <3>1. name = "result" => at = 25
      BY <1>1, StepIs, DownTable DEF Undo
    <3> QED
      BY <1>1, <1>2, <1>7, <2>1, <3>1
  <2>4. \A j \in at'..26 : Down[j].frees \in held' \cup Guarded \cup {"result"}
    BY <1>4, <2>1
  <2> QED
    BY <1>1, <1>3, <2>1, <2>2, <2>3, <2>4
    DEF LadderInv, NoneInv, SetupInv, LoopInv, UndoInv, DoneInv, ToldInv
<1> QED
  BY <1>6, <1>7

-----------------------------------------------------------------------------
(* The invariant holds.                                                    *)

LEMMA InitHolds == Init => IInv
<1> SUFFICES ASSUME Init PROVE IInv
  OBVIOUS
<1>1. TypeOK
  <2>1. 1 \in 1..Len(Down) \cup 1..Len(Up)
    BY UpIs, DownIs
  <2> QED
    BY <2>1 DEF Init, TypeOK
<1>2. LadderInv
  BY DEF Init, LadderInv, NoneInv, SetupInv, LoopInv, UndoInv, DoneInv, ToldInv
<1>3. LibInv
  BY DEF Init, LibInv
<1> QED
  BY <1>1, <1>2, <1>3 DEF IInv

(* The three actions of the ladder, for the rest of the state.             *)
LEMMA LadderIsEnough ==
  ASSUME IInv, LadderInv', held' \subseteq MasterSteps \cup {"socket"},
         mpc' \in {"setup", "loop", "undo", "done"}, mpc # "none",
         told' \in {"nothing", "INIT_SUCCESS", "INIT_FAILURE"},
         UNCHANGED <<lib, libHeld>>, session' \in BOOLEAN
  PROVE  IInv'
<1>1. at' \in 1..Len(Down) \cup 1..Len(Up)
  BY LaddersAre DEF LadderInv
<1>2. TypeOK'
  BY <1>1 DEF IInv, TypeOK
<1>3. LibInv'
  BY DEF IInv, LibInv
<1> QED
  BY <1>2, <1>3 DEF IInv

LEMMA MasterKeeps ==
  ASSUME IInv, MasterNext
  PROVE  IInv'
<1> USE DEF IInv
<1>1. CASE StepSucceeds /\ UNCHANGED <<lib, libHeld, session>>
  <2>1. /\ mpc' \in {"setup", "loop"} /\ mpc # "none" /\ session' \in BOOLEAN
        /\ told' \in {told, "INIT_SUCCESS"}
    BY <1>1 DEF StepSucceeds, TypeOK
  <2> QED
    BY <1>1, <2>1, StepSucceedsKeeps, LadderIsEnough DEF TypeOK
<1>2. CASE StepFails /\ UNCHANGED <<lib, libHeld, session>>
  <2>1. mpc' = "undo" /\ mpc # "none" /\ session' \in BOOLEAN /\ told' = told
    BY <1>2 DEF StepFails, TypeOK
  <2> QED
    BY <1>2, <2>1, StepFailsKeeps, LadderIsEnough DEF TypeOK
<1>3. CASE UndoStep /\ UNCHANGED <<lib, libHeld, session>>
  <2>1. /\ mpc' \in {"undo", "done"} /\ mpc # "none" /\ session' \in BOOLEAN
        /\ told' \in {told, "INIT_FAILURE"}
    BY <1>3 DEF UndoStep, TypeOK
  <2> QED
    BY <1>3, <2>1, UndoStepKeeps, LadderIsEnough DEF TypeOK
<1>4. CASE RunCommand \/ SessionOver
  <2>1. /\ mpc = "loop" /\ UNCHANGED <<mpc, at, told, lib, libHeld>>
        /\ session' \in BOOLEAN
        /\ held' \subseteq held /\ held \ {"mount", "fuseReg"} \subseteq held'
    BY <1>4 DEF RunCommand, SessionOver
  <2>2. held' \subseteq HeldAt(30) /\ HeldAt(30) \ Guarded \subseteq held'
    BY <2>1 DEF LadderInv, LoopInv, Guarded
  <2>3. LadderInv'
    BY <2>1, <2>2
    DEF LadderInv, NoneInv, SetupInv, LoopInv, UndoInv, DoneInv, ToldInv
  <2> QED
    BY <2>1, <2>3, LadderIsEnough DEF TypeOK
<1>5. CASE LoopEnds
  <2>1. /\ mpc = "loop" /\ mpc' = "undo" /\ UNCHANGED <<lib, libHeld, session, told>>
        /\ LoopEnded
    BY <1>5 DEF LoopEnds, LoopEnded
  <2> QED
    BY <2>1, LoopEndedKeeps, LadderIsEnough DEF TypeOK
<1> QED
  BY <1>1, <1>2, <1>3, <1>4, <1>5 DEF MasterNext, SetupNext

LEMMA LibraryKeeps ==
  ASSUME IInv, LibraryNext
  PROVE  IInv'
<1> USE DEF IInv
<1>1. CASE Spawn
  <2>1. /\ mpc = "none" /\ at = 1 /\ held = {} /\ told = "nothing"
        /\ libHeld = {"memory", "ours", "theirs", "masked"}
    BY <1>1 DEF Spawn, LibInv, LadderInv, NoneInv
  <2>2. LibInv'
    BY <1>1, <2>1 DEF Spawn, Spawned, LibInv
  <2>3. LadderInv'
    BY <1>1, <2>1, HeldGrows DEF Spawn, LadderInv, NoneInv, SetupInv, LoopInv,
       UndoInv, DoneInv, ToldInv
  <2>4. TypeOK'
    BY <1>1 DEF Spawn, Spawned, TypeOK
  <2> QED
    BY <2>2, <2>3, <2>4
<1>2. CASE Prepare \/ SpawnFails \/ Register \/ Recv \/ SessionFree
  <2>1. UNCHANGED <<mpc, at, held, told, session>>
    BY <1>2 DEF Prepare, SpawnFails, Register, Recv, SessionFree, masterVars
  <2>2. LadderInv'
    BY <2>1 DEF LadderInv, NoneInv, SetupInv, LoopInv, UndoInv, DoneInv, ToldInv
  <2>3. LibInv' /\ TypeOK'
    <3>1. CASE Prepare
      BY <2>1, <3>1 DEF Prepare, LibInv, TypeOK, LibThings
    <3>2. CASE SpawnFails
      BY <2>1, <3>2 DEF SpawnFails, LibInv, TypeOK, LibThings
    <3>3. CASE Register
      BY <2>1, <3>3 DEF Register, LibInv, TypeOK, LibThings
    <3>4. CASE Recv
      BY <2>1, <3>4 DEF Recv, Failed, LibInv, TypeOK, LibThings
    <3>5. CASE SessionFree
      BY <2>1, <3>5 DEF SessionFree, LibInv, TypeOK, LibThings
    <3> QED
      BY <1>2, <3>1, <3>2, <3>3, <3>4, <3>5
  <2> QED
    BY <2>2, <2>3
<1> QED
  BY <1>1, <1>2 DEF LibraryNext

LEMMA StepHolds == IInv /\ [Next]_vars => IInv'
<1> SUFFICES ASSUME IInv, [Next]_vars PROVE IInv'
  OBVIOUS
<1>1. CASE UNCHANGED vars
  BY <1>1 DEF vars, masterVars, IInv, TypeOK, LadderInv, NoneInv, SetupInv, LoopInv,
     UndoInv, DoneInv, ToldInv, LibInv
<1> QED
  BY <1>1, MasterKeeps, LibraryKeeps DEF Next, Terminated

LEMMA InvariantHolds == Spec => []IInv
BY InitHolds, StepHolds, PTL DEF Spec

-----------------------------------------------------------------------------
(* What follows from it.                                                   *)

(* Every variable keeps its type, whatever step fails.                     *)
THEOREM StartupTypeCorrect == Spec => []TypeOK
<1>1. IInv => TypeOK
  BY DEF IInv
<1> QED
  BY <1>1, InvariantHolds, PTL

(* A session_new that fails leaves nothing in the program but the signals  *)
(* that it blocked, and those only if the clone failed (session.c:194).    *)
THEOREM NothingKeptAfterFailure == Spec => []FailureKeepsNothing
<1>1. IInv => FailureKeepsNothing
  <2> SUFFICES ASSUME IInv PROVE FailureKeepsNothing
    OBVIOUS
  <2>1. lib \in {"idle", "spawn", "register", "recv", "running", "failed",
                 "aborted", "freed"}
    BY DEF IInv, TypeOK
  <2> QED
    BY <2>1 DEF IInv, LibInv, FailureKeepsNothing, MaskIsRestored
<1> QED
  BY <1>1, InvariantHolds, PTL

(* The clean-up is whole if the last step of the set-up does not fail.     *)
THEOREM CleanUpHolds ==
  ASSUME "fuseReg" \notin MayFail
  PROVE  Spec => []CleanUpIsWhole
<1>1. IInv => CleanUpIsWhole
  <2> SUFFICES ASSUME IInv PROVE CleanUpIsWhole
    OBVIOUS
  <2>1. Remaining = {}
    BY DEF Remaining
  <2>2. NothingLeft
    BY <2>1 DEF IInv, LadderInv, DoneInv, NothingLeft
  <2>3. FailureIsClean
    <3>1. Given(26) \subseteq {"socket"}
      BY DownTable DEF Given, Undo, GoneWith
    <3> QED
      BY <2>1, <3>1 DEF IInv, LadderInv, DoneInv, ToldInv, UndoInv, FailureIsClean
  <2> QED
    BY <2>2, <2>3 DEF CleanUpIsWhole
<1> QED
  BY <1>1, InvariantHolds, PTL

(* Whatever step fails, a master that ended left at most the mount whose   *)
(* descriptor could not be registered and the directories around it.       *)
MountAtMost == mpc = "done" => held \subseteq Stuck

THEOREM LeavesTheMountAtMost == Spec => []MountAtMost
<1>1. IInv => MountAtMost
  BY DEF IInv, LadderInv, DoneInv, Remaining, Stuck, MountAtMost
<1> QED
  BY <1>1, InvariantHolds, PTL

(* What epoll watches is taken after what it watches, and given back       *)
(* before it.                                                              *)
Watched == { <<"socketReg", "socket">>, <<"sigfdReg", "sigfd">>,
             <<"cardCuseReg", "cardCuse">>, <<"timerReg", "timerfd">>,
             <<"ttyReg", "ttyCuse">>, <<"fuseReg", "fuse">> }

LEMMA TakenBefore ==
  ASSUME NEW i \in 1..30, NEW k \in 1..29, NEW m \in 1..29, m < k,
         NEW n \in HeldAt(i), n # "socket",
         \A q \in 1..29 : n \in Takes(Up[q].takes) => q = k
  PROVE  Takes(Up[m].takes) \subseteq HeldAt(i)
<1>1. PICK q \in 1..(i - 1) : n \in Takes(Up[q].takes)
  BY DEF HeldAt
<1>2. q \in 1..29
  OBVIOUS
<1>3. q = k
  BY <1>1, <1>2
<1>4. m \in 1..(i - 1)
  BY <1>3
<1> QED
  BY <1>4 DEF HeldAt

LEMMA WatchedAreTaken ==
  ASSUME NEW i \in 1..30, NEW w \in Watched, w[1] \in HeldAt(i)
  PROVE  {w[2], "epoll"} \subseteq HeldAt(i)
<1>1. PICK q \in 1..(i - 1) : w[1] \in Takes(Up[q].takes)
  BY DEF HeldAt, Watched
<1>2. q \in 1..29 /\ q < i
  OBVIOUS
<1>3. \/ (q = 2 /\ w[2] = "socket") \/ (q = 4 /\ w[2] = "sigfd")
      \/ (q = 17 /\ w[2] = "cardCuse") \/ (q = 18 /\ w[2] = "timerfd")
      \/ (q = 22 /\ w[2] = "ttyCuse") \/ (q = 29 /\ w[2] = "fuse")
  <2>1. Up[q].takes = w[1]
    BY <1>1, <1>2, LaddersAre
  <2>2. /\ Up[q].takes = "socketReg" => q = 2
        /\ Up[q].takes = "sigfdReg" => q = 4
        /\ Up[q].takes = "cardCuseReg" => q = 17
        /\ Up[q].takes = "timerReg" => q = 18
        /\ Up[q].takes = "ttyReg" => q = 22
        /\ Up[q].takes = "fuseReg" => q = 29
    BY <1>2, StepIs, UpTable DEF Step
  <2> QED
    BY <2>1, <2>2 DEF Watched
<1>4. /\ Takes(Up[1].takes) = {"epoll"} /\ Takes(Up[3].takes) = {"sigfd"}
      /\ Takes(Up[15].takes) = {"cardCuse"} /\ Takes(Up[16].takes) = {"timerfd"}
      /\ Takes(Up[21].takes) = {"ttyCuse"} /\ Takes(Up[27].takes) = {"fuse"}
  BY UpTable DEF Step, Takes
<1>5. \/ w[2] = "socket"
      \/ \E m \in 1..(i - 1) : w[2] \in Takes(Up[m].takes)
  BY <1>2, <1>3, <1>4
<1>6. 1 \in 1..(i - 1)
  BY <1>2, <1>3
<1> QED
  BY <1>4, <1>5, <1>6 DEF HeldAt

LEMMA WatchedAreFreed ==
  ASSUME NEW w \in Watched, NEW j \in 1..26, w[1] \in GoneWith(Down[j].frees)
  PROVE  /\ Down[FreedAt(w[2])].frees = w[2]
         /\ FreedAt(w[2]) \in j..26
         /\ Down[24].frees = "epoll" /\ j <= 24
<1>1. j = FreedAt(w[1])
  BY FreedOnce
<1>2. \/ (w[2] = "socket" /\ j = 23) \/ (w[2] = "sigfd" /\ j = 21)
      \/ (w[2] = "cardCuse" /\ j = 11) \/ (w[2] = "timerfd" /\ j = 10)
      \/ (w[2] = "ttyCuse" /\ j = 7) \/ (w[2] = "fuse" /\ j = 2)
  <2>1. /\ FreedAt("socketReg") = 23 /\ FreedAt("sigfdReg") = 21
        /\ FreedAt("cardCuseReg") = 11 /\ FreedAt("timerReg") = 10
        /\ FreedAt("ttyReg") = 7 /\ FreedAt("fuseReg") = 2
    BY DEF FreedAt
  <2> QED
    BY <1>1, <2>1 DEF Watched
<1>3. /\ FreedAt("socket") = 26 /\ FreedAt("sigfd") = 22 /\ FreedAt("cardCuse") = 13
      /\ FreedAt("timerfd") = 12 /\ FreedAt("ttyCuse") = 8 /\ FreedAt("fuse") = 3
  BY DEF FreedAt
<1>4. /\ Down[26].frees = "socket" /\ Down[22].frees = "sigfd"
      /\ Down[13].frees = "cardCuse" /\ Down[12].frees = "timerfd"
      /\ Down[8].frees = "ttyCuse" /\ Down[3].frees = "fuse" /\ Down[24].frees = "epoll"
  BY DownTable DEF Undo
<1> QED
  BY <1>2, <1>3, <1>4

(* The ladder goes up and down in an order in which each step finds what   *)
(* it needs (the labels of main.c:294-331, card.c, tty.c and umountfs.c).  *)
THEOREM LadderIsInOrder == Spec => []StepsFindWhatTheyNeed
<1>1. IInv => ReleasesWhatIsHeld
  <2>1. \A i \in 1..26 : i \in i..26
    OBVIOUS
  <2> QED
    BY <2>1 DEF IInv, LadderInv, UndoInv, ReleasesWhatIsHeld
<1>2. IInv => OpenWhileRegistered
  <2> SUFFICES ASSUME IInv, NEW w \in Watched, w[1] \in held
               PROVE  {w[2], "epoll"} \subseteq held
    BY DEF OpenWhileRegistered, Watched
  <2>0. /\ w[1] \notin Stuck /\ {w[2], "epoll"} \cap (Guarded \cup {"result"}) = {}
    BY DEF Watched, Stuck, Guarded
  <2>1. CASE mpc \in {"none", "done"}
    BY <2>0, <2>1 DEF IInv, LadderInv, NoneInv, DoneInv, Remaining
  <2>2. CASE mpc = "setup"
    <3>1. at \in 1..30 /\ held = HeldAt(at)
      BY <2>2 DEF IInv, LadderInv, SetupInv
    <3> QED
      BY <3>1, WatchedAreTaken
  <2>3. CASE mpc = "loop"
    <3>1. held \subseteq HeldAt(30) /\ HeldAt(30) \ Guarded \subseteq held
      BY <2>3 DEF IInv, LadderInv, LoopInv
    <3>2. 30 \in 1..30
      OBVIOUS
    <3>3. {w[2], "epoll"} \subseteq HeldAt(30)
      BY <3>1, <3>2, WatchedAreTaken
    <3> QED
      BY <2>0, <3>1, <3>3
  <2>4. CASE mpc = "undo"
    <3>1. /\ at \in 1..26 /\ held \subseteq Given(at) \cup Remaining
          /\ \A j \in at..26 : Down[j].frees \in held \cup Guarded \cup {"result"}
      BY <2>4 DEF IInv, LadderInv, UndoInv
    <3>2. PICK j \in at..26 : w[1] \in GoneWith(Down[j].frees)
      BY <2>0, <3>1 DEF Given, Remaining
    <3>3. j \in 1..26 /\ at <= j
      BY <3>1
    <3>4. /\ Down[FreedAt(w[2])].frees = w[2] /\ FreedAt(w[2]) \in at..26
          /\ Down[24].frees = "epoll" /\ 24 \in at..26
      BY <3>1, <3>2, <3>3, WatchedAreFreed
    <3> QED
      BY <2>0, <3>1, <3>4
  <2> QED
    BY <2>1, <2>2, <2>3, <2>4 DEF IInv, TypeOK
<1>3. IInv => DevicesBeforeEntries
  <2> SUFFICES ASSUME IInv, mpc = "setup", "entries" \in held
               PROVE  {"cardDevice", "ttyDevice"} \subseteq held
    BY DEF DevicesBeforeEntries
  <2>1. at \in 1..30 /\ held = HeldAt(at)
    BY DEF IInv, LadderInv, SetupInv
  <2>2. /\ \A q \in 1..29 : "entries" \in Takes(Up[q].takes) => q = 25
        /\ Takes(Up[19].takes) = {"cardDevice"} /\ Takes(Up[23].takes) = {"ttyDevice"}
    BY StepIs, UpTable DEF Step, Takes
  <2>3. 25 \in 1..29 /\ 19 \in 1..29 /\ 23 \in 1..29 /\ 19 < 25 /\ 23 < 25
    OBVIOUS
  <2>4. Takes(Up[19].takes) \subseteq HeldAt(at)
    BY <2>1, <2>2, <2>3, TakenBefore
  <2>5. Takes(Up[23].takes) \subseteq HeldAt(at)
    BY <2>1, <2>2, <2>3, TakenBefore
  <2> QED
    BY <2>1, <2>2, <2>4, <2>5
<1> QED
  BY <1>1, <1>2, <1>3, InvariantHolds, PTL DEF StepsFindWhatTheyNeed

-----------------------------------------------------------------------------
(* What of the ends of session_new and of the master can be said without   *)
(* fairness: every step takes them on, and none waits for nothing.         *)

LibRank == CASE lib = "idle"     -> 0
             [] lib = "spawn"    -> 1
             [] lib = "register" -> 2
             [] lib = "recv"     -> 3
             [] lib = "running"  -> 4
             [] OTHER            -> 5

(* In the loop the mount is there, then a session, then neither.           *)
LoopRank == IF session THEN 31 ELSE IF "mount" \in held THEN 30 ELSE 32

MasterRank == CASE mpc = "none"  -> 0
                [] mpc = "setup" -> at
                [] mpc = "loop"  -> LoopRank
                [] mpc = "undo"  -> 32 + at
                [] mpc = "done"  -> 59

Rank == LibRank + MasterRank

(* A session is in the loop of a master that was started.                  *)
SessionInv == /\ session => mpc = "loop" /\ "mount" \notin held
              /\ mpc = "none" => lib \in {"idle", "spawn", "failed"}

(* No step is taken twice: no more than 64 are taken at all.               *)
Advances == [][Rank' > Rank]_vars

(* The recv of session_new has its result or the end of its socket, or the *)
(* master is on its way there; a master in its loop that the library has   *)
(* let go has no reference left but that of a session.                     *)
NobodyWaits ==
  /\ lib = "recv" => \/ told # "nothing"
                     \/ mpc \in {"setup", "undo"}
                     \/ mpc = "done" /\ "socket" \notin held /\ "theirs" \notin libHeld
  /\ mpc = "loop" /\ lib \in {"failed", "aborted", "freed"} => "ours" \notin libHeld

RankInv == /\ LibRank \in 0..5 /\ LoopRank \in 30..32 /\ MasterRank \in 0..59
           /\ mpc = "setup" => MasterRank \in 1..29
           /\ mpc = "undo" => MasterRank \in 33..58

LEMMA RanksAre == IInv => RankInv
<1> SUFFICES ASSUME IInv PROVE RankInv
  OBVIOUS
<1>1. at \in 1..29 /\ (mpc = "undo" => at \in 1..26)
  BY DEF IInv, LadderInv, UndoInv
<1>2. LibRank \in 0..5 /\ LoopRank \in 30..32
  BY DEF LibRank, LoopRank
<1>3. mpc \in {"none", "setup", "loop", "undo", "done"}
  BY DEF IInv, TypeOK
<1> HIDE DEF LoopRank
<1>4. CASE mpc = "setup"
  BY <1>1, <1>2, <1>4 DEF MasterRank, RankInv
<1>5. CASE mpc = "undo"
  BY <1>1, <1>2, <1>5 DEF MasterRank, RankInv
<1>6. CASE mpc \in {"none", "loop", "done"}
  BY <1>2, <1>6 DEF MasterRank, RankInv
<1> QED
  BY <1>3, <1>4, <1>5, <1>6

LEMMA InitSession == Init => SessionInv
BY DEF Init, SessionInv

LEMMA SessionKept ==
  ASSUME IInv, SessionInv, [Next]_vars
  PROVE  SessionInv'
<1>1. CASE UNCHANGED vars
  BY <1>1 DEF vars, masterVars, SessionInv
<1>2. CASE LibraryNext
  <2>1. lib = "spawn" => mpc = "none"
    BY DEF IInv, LibInv
  <2> QED
    BY <1>2, <2>1 DEF LibraryNext, Prepare, SpawnFails, Spawn, Register, Recv, SessionFree,
       masterVars, SessionInv
<1>3. CASE MasterNext
  BY <1>3 DEF MasterNext, SetupNext, StepSucceeds, StepFails, UndoStep, RunCommand,
     SessionOver, LoopEnds, LoopEnded, SessionInv
<1> QED
  BY <1>1, <1>2, <1>3 DEF Next, Terminated

LEMMA SumGrows ==
  \A a, b, c, d \in Nat :
    (c > a /\ d = b) \/ (c = a /\ d > b) \/ (c > a /\ b = 0) => c + d > a + b
OBVIOUS

LEMMA StepAdvances ==
  ASSUME IInv, RankInv, RankInv', SessionInv, [Next]_vars
  PROVE  [Rank' > Rank]_vars
<1>1. /\ LibRank \in 0..5 /\ LoopRank \in 30..32 /\ MasterRank \in 0..59
      /\ mpc = "setup" => MasterRank \in 1..29
      /\ mpc = "undo" => MasterRank \in 33..58
  BY DEF RankInv
<1>2. /\ LibRank' \in 0..5 /\ LoopRank' \in 30..32 /\ MasterRank' \in 0..59
      /\ mpc' = "setup" => MasterRank' \in 1..29
      /\ mpc' = "undo" => MasterRank' \in 33..58
  BY DEF RankInv
<1>3. /\ Rank = LibRank + MasterRank /\ Rank' = LibRank' + MasterRank'
      /\ LibRank \in Nat /\ MasterRank \in Nat /\ LibRank' \in Nat /\ MasterRank' \in Nat
  <2>1. Rank = LibRank + MasterRank /\ Rank' = LibRank' + MasterRank'
    BY DEF Rank
  <2>2. \A x : x \in 0..5 \/ x \in 0..59 => x \in Nat
    OBVIOUS
  <2> QED
    BY <1>1, <1>2, <2>1, <2>2, Zenon
<1>4. at \in 1..29 /\ mpc \in {"none", "setup", "loop", "undo", "done"}
  BY DEF IInv, LadderInv, TypeOK
<1>5. CASE Prepare \/ SpawnFails \/ Register \/ Recv \/ SessionFree
  <2>1. LibRank' > LibRank
    <3>1. CASE Prepare
      BY <3>1 DEF Prepare, LibRank
    <3>2. CASE SpawnFails
      BY <3>2 DEF SpawnFails, LibRank
    <3>3. CASE Register
      BY <3>3 DEF Register, LibRank
    <3>4. CASE Recv
      BY <3>4 DEF Recv, LibRank
    <3>5. CASE SessionFree
      BY <3>5 DEF SessionFree, LibRank
    <3> QED
      BY <1>5, <3>1, <3>2, <3>3, <3>4, <3>5
  <2>2. MasterRank' = MasterRank
    <3>1. UNCHANGED <<mpc, at, held, session>>
      BY <1>5 DEF Prepare, SpawnFails, Register, Recv, SessionFree, masterVars
    <3>2. LoopRank' = LoopRank
      BY <3>1 DEF LoopRank
    <3> QED
      BY <3>1, <3>2 DEF MasterRank
  <2>3. LibRank' + MasterRank' > LibRank + MasterRank
    BY <1>3, <2>1, <2>2, SumGrows, Zenon
  <2> QED
    BY <1>3, <2>3, Zenon
<1>6. CASE Spawn
  <2>1. LibRank' > LibRank
    BY <1>6 DEF Spawn, LibRank
  <2>2. MasterRank = 0
    BY <1>6 DEF IInv, LibInv, Spawn, MasterRank
  <2>3. LibRank' + MasterRank' > LibRank + MasterRank
    BY <1>3, <2>1, <2>2, SumGrows, Zenon
  <2> QED
    BY <1>3, <2>3, Zenon
<1>7. CASE MasterNext
  <2>1. LibRank' = LibRank
    BY <1>7 DEF MasterNext, RunCommand, SessionOver, LoopEnds, LibRank
  <2>2. MasterRank' > MasterRank
    <3>1. CASE StepSucceeds
      <4>1. CASE at = 29
        <5>1. mpc' = "loop" /\ mpc = "setup"
          BY <3>1, <4>1, LaddersAre DEF StepSucceeds
        <5> QED
          BY <1>1, <1>2, <5>1 DEF MasterRank
      <4>2. CASE at # 29
        <5>1. mpc' = "setup" /\ mpc = "setup" /\ at' = at + 1
          BY <3>1, <4>2, LaddersAre DEF StepSucceeds
        <5> QED
          BY <1>4, <5>1 DEF MasterRank
      <4> QED
        BY <4>1, <4>2
    <3>2. CASE StepFails
      <4>1. mpc = "setup" /\ mpc' = "undo"
        BY <3>2 DEF StepFails
      <4> QED
        BY <1>1, <1>2, <4>1
    <3>3. CASE UndoStep
      <4>1. CASE mpc' = "done"
        <5>1. mpc = "undo" /\ MasterRank' = 59
          BY <3>3, <4>1 DEF UndoStep, MasterRank
        <5> QED
          BY <1>1, <5>1
      <4>2. CASE mpc' # "done"
        <5>1. mpc = "undo" /\ mpc' = "undo" /\ at' = at + 1
          BY <3>3, <4>2 DEF UndoStep
        <5> QED
          BY <1>4, <5>1 DEF MasterRank
      <4> QED
        BY <4>1, <4>2
    <3>4. CASE RunCommand \/ SessionOver
      <4>1. mpc = "loop" /\ mpc' = "loop" /\ LoopRank' > LoopRank
        <5>1. CASE RunCommand
          BY <5>1 DEF RunCommand, LoopRank, SessionInv
        <5>2. CASE SessionOver
          BY <5>2 DEF SessionOver, LoopRank, SessionInv
        <5> QED
          BY <3>4, <5>1, <5>2 DEF RunCommand, SessionOver
      <4> QED
        BY <4>1 DEF MasterRank
    <3>5. CASE LoopEnds
      <4>1. mpc = "loop" /\ mpc' = "undo" /\ MasterRank = LoopRank
        BY <3>5 DEF LoopEnds, LoopEnded, MasterRank
      <4> QED
        BY <1>1, <1>2, <4>1
    <3> QED
      BY <1>7, <3>1, <3>2, <3>3, <3>4, <3>5 DEF MasterNext, SetupNext
  <2>3. LibRank' + MasterRank' > LibRank + MasterRank
    BY <1>3, <2>1, <2>2, SumGrows, Zenon
  <2> QED
    BY <1>3, <2>3, Zenon
<1> QED
  BY <1>5, <1>6, <1>7 DEF Next, LibraryNext, Terminated

(* session_new, the set-up of the master, its loop and its clean-up are    *)
(* over after at most 64 steps, whatever fails: none is taken twice, and   *)
(* the count of those taken is never above that.                           *)
THEOREM StartupEnds == Spec => [](Rank \in 0..64) /\ Advances
<1>1. IInv => Rank \in 0..64
  <2> SUFFICES ASSUME IInv PROVE Rank \in 0..64
    OBVIOUS
  <2>1. LibRank \in 0..5 /\ MasterRank \in 0..59
    BY RanksAre DEF RankInv
  <2> QED
    BY <2>1 DEF Rank
<1>2. Spec => []SessionInv
  BY InitSession, SessionKept, InvariantHolds, PTL DEF Spec
<1>3. IInv /\ RankInv /\ RankInv' /\ SessionInv /\ [Next]_vars => [Rank' > Rank]_vars
  BY StepAdvances
<1> QED
  BY <1>1, <1>2, <1>3, RanksAre, InvariantHolds, PTL DEF Spec, Advances

(* session_new never waits for a master that has nothing more to say, nor  *)
(* the master for a library that has let it go (the assertion at           *)
(* session.c:100, the two references of main.c:283).                       *)
THEOREM NobodyWaitsForNothing == Spec => []NobodyWaits
<1>1. IInv /\ SessionInv => NobodyWaits
  <2> SUFFICES ASSUME IInv, SessionInv PROVE NobodyWaits
    OBVIOUS
  <2>1. mpc \in {"none", "setup", "loop", "undo", "done"}
    BY DEF IInv, TypeOK
  <2>2. mpc = "done" => "socket" \notin held
    BY DEF IInv, LadderInv, DoneInv, Remaining, Stuck
  <2>3. lib \in {"recv", "failed", "aborted", "freed"} =>
          /\ "theirs" \notin libHeld
          /\ lib = "recv" \/ "ours" \notin libHeld
    BY DEF IInv, LibInv
  <2>4. lib = "recv" => mpc # "none"
    BY DEF SessionInv
  <2>5. mpc = "loop" => told = "INIT_SUCCESS"
    BY DEF IInv, LadderInv, LoopInv
  <2> QED
    BY <2>1, <2>2, <2>3, <2>4, <2>5 DEF NobodyWaits
<1>2. Spec => []SessionInv
  BY InitSession, SessionKept, InvariantHolds, PTL DEF Spec
<1> QED
  BY <1>1, <1>2, InvariantHolds, PTL
=============================================================================
