----------------------------- MODULE Furniture -----------------------------
(***************************************************************************)
(* The shape of a bookcase: sections stacked bottom first, each a grid of   *)
(* columns of their own height, with cells switched off.  Pure operators    *)
(* from a section to a section; a section is a record                       *)
(*   [case, ordinal, levels, gaps, defaultLevels, defaultDepth]             *)
(* where levels[c] is the height of column c and gaps a set of cells.       *)
(***************************************************************************)
EXTENDS Integers, Sequences, FiniteSets, SequencesExt

CONSTANTS
    MaxSections,     \* sections a bookcase may hold
    MaxSlots,        \* shelves a bookcase may hold
    MaxDeep          \* rows a shelf may be deep

Grid(levels) == UNION {{<<c, l>> : l \in 1..levels[c]} : c \in DOMAIN levels}

(* The cells a shelf may stand in. *)
Cells(s) == Grid(s.levels) \ s.gaps

WellFormed(s) ==
    /\ s.levels \in Seq(Nat \ {0})
    /\ s.gaps \subseteq Grid(s.levels)
    /\ s.defaultLevels \in Nat \ {0}
    /\ s.defaultDepth \in 1..MaxDeep

(* A gap outside the grid goes with the cell it named. *)
Resized(s, levels) == [s EXCEPT !.levels = levels, !.gaps = @ \cap Grid(levels)]

WithColumnCount(s, n) ==
    Resized(s, [c \in 1..n |-> IF c <= Len(s.levels) THEN s.levels[c] ELSE s.defaultLevels])

WithColumnLevels(s, col, n) == Resized(s, [s.levels EXCEPT ![col] = n])

WithGaps(s, cells, gap) == [s EXCEPT !.gaps = IF gap THEN @ \cup cells ELSE @ \ cells]

(* A default is for what is made later: the columns that stand and the      *)
(* shelves in them keep what they have.                                     *)
WithDefaultLevels(s, n) == [s EXCEPT !.defaultLevels = n]
WithDefaultDepth(s, n)  == [s EXCEPT !.defaultDepth = n]

ApplyDefaultLevels(s) == Resized(s, [c \in DOMAIN s.levels |-> s.defaultLevels])

(* The cells an edit adds, and those it drops. *)
Added(was, now)   == Cells(now) \ Cells(was)
Dropped(was, now) == Cells(was) \ Cells(now)

(* A section of a width, every column at the default height. *)
NewSection(case, columns, levels, depth) ==
    [case |-> case, ordinal |-> 1, levels |-> [c \in 1..columns |-> levels], gaps |-> {},
     defaultLevels |-> levels, defaultDepth |-> depth]

(* A new section copies the width and the defaults of the one it stands     *)
(* against, never its gaps nor the heights of its columns.                  *)
NextSection(case, neighbour) ==
    NewSection(case, Len(neighbour.levels), neighbour.defaultLevels, neighbour.defaultDepth)

(* The sections f of one case, bottom first, and their numbers put back to  *)
(* 1, 2, ... in a given order.                                              *)
Stacked(f) == SetToSortSeq(DOMAIN f, LAMBDA x, y : f[x].ordinal < f[y].ordinal)

Renumbered(f, order) ==
    [t \in DOMAIN f |-> [f[t] EXCEPT !.ordinal = CHOOSE i \in DOMAIN order : order[i] = t]]

(* A section changes places with its neighbour; there must be one.          *)
Neighbour(f, t, up) ==
    LET order == Stacked(f)
        at    == CHOOSE i \in DOMAIN order : order[i] = t
    IN  IF up THEN at + 1 ELSE at - 1

MoveSection(f, t, up) ==
    LET order == Stacked(f)
        at    == CHOOSE i \in DOMAIN order : order[i] = t
        other == Neighbour(f, t, up)
    IN  Renumbered(f, [order EXCEPT ![at] = order[other], ![other] = t])

(* A new one above the first `at` of them: none for the bottom, all for the *)
(* top.                                                                     *)
AddSection(f, t, new, at) ==
    LET order == Stacked(f)
    IN  Renumbered([x \in DOMAIN f \cup {t} |-> IF x = t THEN new ELSE f[x]],
                   SubSeq(order, 1, at) \o <<t>> \o SubSeq(order, at + 1, Len(order)))

TooManySlots(f) ==
    \/ Cardinality(DOMAIN f) > MaxSections
    \/ Cardinality(UNION {{t} \X Cells(f[t]) : t \in DOMAIN f}) > MaxSlots

(* Of the shelves that lose their slot, what stands empty goes and what     *)
(* holds something stays, without an address.                               *)
SlotRemoval(shelves, occupied) ==
    [deleted |-> shelves \ occupied, detached |-> shelves \cap occupied]

(* The default depth goes to every shelf of a section, but never below what *)
(* stands deepest on it.                                                    *)
DepthFor(s, deepest) == IF deepest > s.defaultDepth THEN deepest ELSE s.defaultDepth
=============================================================================
