--------------------------- MODULE MCEventStream ---------------------------
(***************************************************************************)
(* Two publishers (the message handler, whose agent prints, asks and ends, *)
(* and a cancellation) with two clients, or with a viewer that replays the *)
(* session.  Clients and viewer share nothing but the table, which both    *)
(* only read.                                                              *)
(***************************************************************************)
EXTENDS EventStream

MCScript == [p \in {"handler", "cancel"} |->
               IF p = "handler" THEN <<"output", "waiting", "status">> ELSE <<"ended">>]

MCInit == Init /\ (replay.at = "done" \/ \A c \in Clients : conn[c] = "gone")
MCSpec == MCInit /\ [][Next]_vars /\ Fairness
=============================================================================
