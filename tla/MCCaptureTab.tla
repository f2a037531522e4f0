---------------------------- MODULE MCCaptureTab ----------------------------
(***************************************************************************)
(* A shelf of two rows with a photograph on it, and an empty library.       *)
(***************************************************************************)
EXTENDS CaptureTab

Play(kinds, c, d, done, p, f, r) ==
    [kinds |-> kinds, captures |-> c, deep |-> d, done |-> done, presses |-> p, faults |-> f,
     reloads |-> r, fifo |-> TRUE, hasty |-> FALSE]

At(shelf, depth) == [shelf |-> shelf, depth |-> depth]
Done(shelf, depth, of) == [shelf |-> shelf, depth |-> depth, of |-> of, status |-> "done",
                           facts |-> {<<"committed", Nothing>>}]

Running(shelf, depth, of) == [Done(shelf, depth, of) EXCEPT !.status = "running", !.facts = {}]

(* Photographs uploaded, listed again after a reload, retried; moved and    *)
(* read; read, stopped and watched; decided in the panel; decided in the    *)
(* workspace, of two reads, one of which may still run; moved away from     *)
(* under a read.                                                            *)
OrderedPlays ==
    {Play({"upload", "select", "read"}, <<>>, <<>>, <<>>, 3, 1, 1),
     Play({"upload", "move", "row", "read"}, <<At(1, 1)>>, <<2>>, <<>>, 4, 0, 0),
     Play({"select", "read", "stop"}, <<At(1, 1), At(1, 2)>>, <<2>>, <<>>, 3, 1, 1),
     Play({"select", "read", "answer", "finding", "all"}, <<At(1, 1)>>, <<2>>, <<>>, 5, 1, 0),
     Play({"open", "finding", "all", "by hand", "split"}, <<At(1, 1)>>, <<2>>,
          <<Done(1, 1, {1}), Done(1, 1, {1})>>, 4, 1, 0),
     Play({"open", "by hand"}, <<At(1, 1)>>, <<2>>, <<Done(1, 1, {1}), Running(1, 1, {1})>>, 4, 0, 0),
     Play({"open", "move", "answer", "select", "read", "by hand"}, <<At(1, 1), At(2, 1)>>, <<2, 1>>,
          <<Done(1, 1, {1})>>, 4, 0, 0)}

Hasty(p) == [p EXCEPT !.hasty = TRUE]

(* Answers in any order, to an owner who does not wait for them.            *)
DisorderlyPlays ==
    {[Hasty(Play({"open", "move", "finding", "answer", "read", "select"}, <<At(1, 1), At(2, 1)>>,
                 <<2, 1>>, <<Done(1, 1, {1})>>, 3, 0, 0)) EXCEPT !.fifo = FALSE]}

CapturePlays == OrderedPlays \cup DisorderlyPlays
=============================================================================
