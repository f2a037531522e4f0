--------------------------- MODULE MCTuningServer ---------------------------
(***************************************************************************)
(* Two photographs, the second of which may show the title of the first.    *)
(***************************************************************************)
EXTENDS TuningServer

OneEach == [i \in Images |-> IF i = "shelf" THEN "A" ELSE "B"]

Play(kinds, n, c) == [kinds |-> kinds, requests |-> n, crashes |-> c, failures |-> TRUE,
                      careful |-> TRUE, rethink |-> FALSE, images |-> Images]

Careless(p) == [p EXCEPT !.careful = FALSE]
Starting(p, there) == [p EXCEPT !.images = there]
Rethinking(p) == [p EXCEPT !.rethink = TRUE]

TuningPlays ==
    {Play({"run", "stop", "delete"}, 4, 1),
     Starting(Play({"run", "delete", "upload"}, 4, 1), {"shelf"}),
     Starting(Careless(Play({"run", "delete", "upload"}, 3, 1)), {"shelf"}),
     Play({"run", "review", "clear"}, 4, 1),
     Careless(Play({"run", "delete"}, 2, 0)),
     Rethinking(Play({"run", "review"}, 4, 0))}
=============================================================================
