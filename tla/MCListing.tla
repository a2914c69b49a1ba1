------------------------------ MODULE MCListing ------------------------------
(***************************************************************************)
(* A small history of one chart's versions.                                *)
(***************************************************************************)
EXTENDS Listing, TLC

V(core, mark) == [core |-> core, mark |-> mark]

\* Versions with and without build metadata, with a literal underscore, and
\* one no tag can express; then versions disappear in the middle and appear at
\* both ends, two of them with one tag; then most of the rest disappears, and
\* then the chart.
SomeHistory ==
    << << V(3, ""), V(2, "+"), V(2, ""), V(1, "!"), V(1, "_") >>,
       << V(4, ""), V(3, ""), V(2, ""), V(1, "_"), V(1, "+"), V(0, "") >>,
       << V(5, ""), V(2, "+"), V(1, "_") >>,
       << >> >>

SomePageSizes == {NoLimit, -1, 0, 1, 2, 3}
=============================================================================
