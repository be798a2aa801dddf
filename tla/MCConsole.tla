------------------------------ MODULE MCConsole ------------------------------
(* Three boxes before a ring of four entries, messages enough to go round it,  *)
(* and a window that cuts an entry in half.                                    *)
EXTENDS Console
MCColours == {0, 13}
=============================================================================
