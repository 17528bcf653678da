------------------------- MODULE MC_DisplayGeometry -------------------------
(* An instance of DisplayGeometry for TLC: a panel that is not square. *)
EXTENDS DisplayGeometry

OnePanel == {[width |-> 4, height |-> 2]}
\* A view as large as the display, a larger and a smaller one.
SomeViews == OnePanel \cup {[width |-> 6, height |-> 3], [width |-> 3, height |-> 1]}
=============================================================================
