--------------------------- MODULE MCPaintManager ---------------------------
(* PaintManager with a dialog r that contains a, to which b may be added,    *)
(* and a second dialog s.                                                   *)
EXTENDS PaintManager

CONSTANTS r, a, b, s

MCParent == [c \in Controls |-> CASE c = a -> r [] c = b -> a [] OTHER -> Null]
=============================================================================
