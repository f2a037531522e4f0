----------------------------- MODULE MCReadRuns -----------------------------
(* A TLC instance of ReadRuns: one customer and a few reads. *)
EXTENDS ReadRuns

CONSTANTS r1, r2, r3, cohen, f1, f2

MCAccountOf == [r \in Reads |-> cohen]
MCSpines    == [r \in Reads |-> IF r = r1 THEN 2 ELSE 1]

Play(reads, findings, fails, n) ==
  [reads |-> reads, findings |-> findings, fails |-> fails, crashes |-> n]

\* Anything raising, a crash, and two books added at once; a burst of requests
\* whose reads must settle.
MCPlays ==
  {Play({r1}, {f1, f2}, Stages, 1),
   Play({r1, r2, r3}, {f1}, {"reader", "apply"}, 0)}
=============================================================================
