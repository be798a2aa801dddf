------------------------------- MODULE MCTurn -------------------------------
(* Two quadrants, up to two Mongols in one; the buffer at its real size. *)
EXTENDS Turn
MCQuads == {"here", "there"}
=============================================================================
