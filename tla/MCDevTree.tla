------------------------------ MODULE MCDevTree ------------------------------
(* A /dev with the console, the card, a socket, and the directory of some  *)
(* session master; "card0" is there twice, once in a directory of its own. *)
EXTENDS DevTree, TLC

MCKind == <<"tty0">> :> "node" @@ <<"log">> :> "other"
            @@ <<"dri">> :> "dir" @@ <<"dri", "card0">> :> "node"
            @@ <<"session">> :> "dir" @@ <<"session", "card0">> :> "node"
            @@ <<"session", "d">> :> "dir"

MCName == {"tty0", "log", "dri", "card0", "session", "d"}

MCOwn == {<<"tty0">>, <<"dri", "card0">>}
=============================================================================
