------------------------------- MODULE MCSync -------------------------------
(***************************************************************************)
(* Instances of Sync for TLC: trees, options and leftovers.                *)
(***************************************************************************)
EXTENDS Sync, TLC

CONSTANTS x, y, z, d, e, top

Entries(is, at, whole) == [is |-> is, at |-> at, whole |-> whole]
Dir(at) == Entries("dir", at, None)
End == Entries("end", None, None)
File(at, whole) == Entries("file", at, whole)
Symlinked(at) == Entries("link", at, Link)

\* x in e in d; y and z in d.
Tree == x :> e @@ y :> d @@ z :> d @@ d :> top @@ e :> d

Make(walk, dry, delete, excluded) ==
    [walk |-> walk, dry |-> dry, delete |-> delete, excluded |-> excluded]

TreeWalk == <<Dir(d), Dir(e), File(x, <<1, 2>>), End, File(y, <<2>>), End>>
ThreeWalk == <<Dir(d), Dir(e), File(x, <<1, 2>>), End, File(y, <<2>>), File(z, <<1>>), End>>
LinkWalk == <<Dir(d), Symlinked(y), Dir(e), File(x, <<1, 2>>), End, End>>
LackWalk == <<Dir(d), File(y, <<2>>), End>>
Trees ==
    {Make(TreeWalk, dry, delete, {}) : dry \in BOOLEAN, delete \in BOOLEAN}
        \cup {Make(LinkWalk, FALSE, TRUE, {z}), Make(ThreeWalk, FALSE, FALSE, {}),
              Make(TreeWalk, FALSE, TRUE, {y}), Make(LackWalk, FALSE, TRUE, {x})}

Left(fx, px, fy, fz) ==
    [file |-> x :> fx @@ y :> fy @@ z :> fz, part |-> x :> px @@ y :> None @@ z :> None,
     dirs |-> {d, e}]
Leftovers ==
    {Left(fx, px, fy, fz) :
        fx \in {None, <<1, 2>>, <<2, 2>>}, px \in {None, <<1>>, <<2>>, <<1, 2>>, <<1, 1, 1>>},
        fy \in {None, <<2>>}, fz \in {None, <<1>>}}
    \cup {[file |-> [f \in {x, y, z} |-> None], part |-> [f \in {x, y, z} |-> None], dirs |-> {}]}

\* Two files of the same name, from two directories, into one.
TwoOfAName == {Make(<<File(x, <<1, 2>>), File(x, <<1, 1>>)>>, FALSE, FALSE, {})}
OneFile == {Make(<<File(x, <<1, 2>>)>>, FALSE, FALSE, {})}
Fresh == {[file |-> [f \in Files |-> None], part |-> [f \in Files |-> None], dirs |-> {}]}
PartOfX == {[file |-> [f \in Files |-> None], part |-> [f \in Files |-> IF f = x THEN <<1>> ELSE None],
             dirs |-> {}]}
Flat == x :> top @@ y :> d @@ z :> d @@ d :> top @@ e :> d
=============================================================================
