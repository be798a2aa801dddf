------------------------------- MODULE Cabinet -------------------------------
(***************************************************************************)
(* What core/storage.h promises of whole-file writes, with no granule and  *)
(* no directory in it: a name holds nothing or the whole of one write, and *)
(* a write puts the whole of a newer one in its place at once.  The one    *)
(* thing it gives up: a replacement that did not end may leave anything.   *)
(***************************************************************************)
EXTENDS Naturals

CONSTANT Names

VARIABLES
    contents,   \* name -> the number of the write it holds, 0 for no file
    torn        \* the names whose replacement failed or was cut short

Init == contents = [n \in Names |-> 0] /\ torn = {}

Store(n) ==
    /\ contents'[n] > contents[n]
    /\ contents' = [contents EXCEPT ![n] = contents'[n]]
    /\ torn' = torn

Tear == torn' # {}

Next == Tear \/ \E n \in Names : Store(n)

Spec == Init /\ [][Next]_<<contents, torn>>
=============================================================================
