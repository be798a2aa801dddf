----------------------------- MODULE MCSession -----------------------------
(* Two ranks and two scores; three games reach the hall of fame, enough for one to
   be placed below another, and for a rank to keep its row while the other gets
   one.  A captain may save over the hall of fame. *)
EXTENDS Session

MCFiles == {"TREK.SAV", HOF, BRIEF}
MCGames == [level : Ranks, turn : 0..MaxTurns, end : {"good", "noise"}]
MCTables == [Slots -> Scores \cup {0}]
=============================================================================
