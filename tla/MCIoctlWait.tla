----------------------------- MODULE MCIoctlWait -----------------------------
(* Requests are interchangeable, so it is enough to let them come in the   *)
(* order of their numbers: every other behaviour is one of these with the  *)
(* requests renamed.                                                       *)
EXTENDS IoctlWait

InTurn(r) == \A q \in Request : q < r => ~Fresh(q)

ForwardInTurn(r, a) == InTurn(r) /\ Forward(r, a)
SendFailsInTurn(r, a) == InTurn(r) /\ SendFails(r, a)
RefuseInTurn(r) == InTurn(r) /\ Refuse(r)

MCNext ==
  \/ \E r \in Request : \/ \E a \in Addr : \/ ForwardInTurn(r, a)
                                           \/ SendFailsInTurn(r, a)
                        \/ RefuseInTurn(r)
  \/ \E i \in 1..Len(sent) : Receive(i)
  \/ Lookup
  \/ PeerCloses

MCSpec == Init /\ [][MCNext]_vars /\ WF_vars(Lookup)
=============================================================================
