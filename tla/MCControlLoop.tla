--------------------------- MODULE MCControlLoop ---------------------------
(* Instances of ControlLoop for TLC. *)
EXTENDS ControlLoop

(* Row 3 waits for row 1, the others are free. *)
MCDeps == <<{}, {}, {1}, {}>>
MCOne  == <<{}>>
=============================================================================
