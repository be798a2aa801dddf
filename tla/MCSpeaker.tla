----------------------------- MODULE MCSpeaker -----------------------------
(* Two tunes and two effects of one to three notes, some the timer holds whole and *)
(* some it halves once or twice, and a rest. *)
EXTENDS Speaker

MCTunes == [title |-> <<<<2, 20>>, <<1, 0>>, <<1, 33>>>>, end |-> <<<<2, 44>>>>,
            sfx_a |-> <<<<1, 100>>, <<2, 20>>>>, sfx_b |-> <<<<1, 60>>>>]
MCMusic == {"title", "end"}

Every(t) == {t} \X (DOMAIN MCTunes[t]) \X {1, 2}

\* A sector gives nothing up to the read that succeeds, so it is the first bytes of a
\* sector that go; the second begins with one or the other byte of the title's last note.
MCLosses ==
    LET first == {{}, {<<"title", 1, 1>>}}
        second == {{}, {<<"title", 3, 1>>}, {<<"title", 3, 2>>},
                   {<<"title", 3, 2>>, <<"sfx_a", 1, 1>>} \cup Every("end")}
    IN {a \cup b : a \in first, b \in second} \cup {UNION {Every(t) : t \in DOMAIN MCTunes}}
=============================================================================
