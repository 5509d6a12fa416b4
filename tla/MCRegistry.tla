----------------------------- MODULE MCRegistry -----------------------------
(***************************************************************************)
(* Instances of Registry for TLC.  Who calls is fixed, and what each may   *)
(* ask for is kept to what makes them meet.                                *)
(***************************************************************************)
EXTENDS Registry, TLC

CONSTANTS p1, p2, k1, k2, k3

Latest   == [by |-> "latest", n |-> 0]
New      == [by |-> "new", n |-> 0]
Stale    == [by |-> "stale", n |-> 0]
Id(n)    == [by |-> "id", n |-> n]

\* Three attaches for two places: two of a peer, and another's, that may name the first's session.
Peers3 == k1 :> p1 @@ k2 :> p1 @@ k3 :> p2
Picks3 == k1 :> {Latest} @@ k2 :> {New, Id(1)} @@ k3 :> {New, Id(1)}

\* Three attaches of a peer, two of which may meet in its session's channel.
PeersOne == [k \in {k1, k2, k3} |-> p1]
PicksOne == k1 :> {Latest} @@ k2 :> {Latest} @@ k3 :> {Stale, Id(1)}
=============================================================================
