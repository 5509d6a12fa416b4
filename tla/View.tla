-------------------------------- MODULE View --------------------------------
(***************************************************************************)
(* What a connection promises the terminal of its client: it shows what    *)
(* the program wrote, all of it up to some point, never less than before,  *)
(* and the program's end only after all it wrote.  Skipping ahead is       *)
(* allowed (a redraw shows the screen as it is); a gap, a chunk twice or a *)
(* step back is not.                                                       *)
(***************************************************************************)
EXTENDS Naturals

VARIABLES
    published,  \* how much the session published of its program's output
    over,       \* whether it published the program's end
    view,       \* how much of it the client's terminal shows
    end         \* whether the client has the program's end

vars == <<published, over, view, end>>

Init ==
    /\ published \in Nat /\ over \in BOOLEAN
    /\ view = 0 /\ end = FALSE

Writes ==
    /\ ~over
    /\ published' = published + 1
    /\ UNCHANGED <<over, view, end>>

Exits ==
    /\ ~over
    /\ over' = TRUE
    /\ UNCHANGED <<published, view, end>>

Shows ==
    /\ ~end
    /\ view' \in (view + 1)..published
    /\ UNCHANGED <<published, over, end>>

SeesEnd ==
    /\ over /\ view = published /\ ~end
    /\ end' = TRUE
    /\ UNCHANGED <<published, over, view>>

Next == Writes \/ Exits \/ Shows \/ SeesEnd

Spec == Init /\ [][Next]_vars
=============================================================================
