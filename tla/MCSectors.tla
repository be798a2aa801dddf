------------------------------ MODULE MCSectors ------------------------------
(* A two-by-two galaxy of three-by-three sectors for Sectors.                *)
EXTENDS Sectors

Of(a, b, c, d) == [q \in Quads |-> IF q = <<0, 0>> THEN a ELSE IF q = <<0, 1>> THEN b
                                   ELSE IF q = <<1, 0>> THEN c ELSE d]

MCStars  == Of(1, 0, 1, 0)
MCShips  == Of(0, 1, 0, 0)
MCLed    == {<<0, 1>>}
MCBases  == {<<1, 0>>}
MCWorlds == {<<1, 1>>}
MCSpots  == {<<0, 1>>, <<1, 2>>, <<2, 0>>, <<2, 2>>}
MCBerths == {<<1, 1>>}
=============================================================================
