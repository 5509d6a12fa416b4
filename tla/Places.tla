------------------------------- MODULE Places -------------------------------
(***************************************************************************)
(* Where what a client asks for is (server/place.rs), and where a copy to  *)
(* the server lands (Target::resolve of sync/receive.rs, with the steps of *)
(* sync/fsat.rs), while other processes change the tree between its calls. *)
(*                                                                         *)
(* A path is the names it has from the top of the file system; a symlink   *)
(* leads to the server user's home.  Why a copy is refused is left out.    *)
(***************************************************************************)
EXTENDS Naturals, FiniteSets, Sequences, SequencesExt

CONSTANTS Entries,      \* the paths there may be entries at, beneath the two directories
          Asked,        \* the destinations asked for: [absolute, tilde, names, slash]
          Counts,       \* how many items a copy has
          MaxChanges    \* bound of the instance: changes others make

VARIABLES
    tree,      \* what is at each path
    changes,   \* how many changes others made
    job,       \* the copy: what it asks, the directory it has open, what it counted
    made       \* history: the directories it made

placeVars == <<tree, changes, job, made>>

Root == <<"srv">>     \* the directory the key's scope names
Home == <<"home">>
Nowhere == <<"nowhere">>
Idle == [phase |-> "idle", scoped |-> FALSE, slash |-> FALSE, dry |-> FALSE, count |-> 1,
         path |-> <<>>, at |-> Nowhere, gone |-> FALSE, walked |-> 0, made |-> 0, as |-> FALSE,
         before |-> <<>>, touched |-> FALSE]

PlacesInit ==
    /\ tree = [p \in {<<>>, Root, Home} \cup Entries |-> IF p \in Entries THEN "none" ELSE "dir"]
    /\ changes = 0 /\ made = {} /\ job = Idle

KindIn(tr, p) == IF p \in DOMAIN tr THEN tr[p] ELSE "none"
Kind(p) == KindIn(tree, p)

\* Where `p` leads as the system finds it, symlinks followed, and what is there.
Found(tr, p) ==
    LET reach[at \in Seq(STRING), names \in Seq(STRING)] ==
            CASE KindIn(tr, at) = "link" -> reach[Home, names]
              [] KindIn(tr, at) # "link" /\ names = <<>> -> [at |-> at, kind |-> KindIn(tr, at)]
              [] KindIn(tr, at) = "none" /\ names # <<>> -> [at |-> at, kind |-> "none"]
              [] KindIn(tr, at) = "file" /\ names # <<>> -> [at |-> at, kind |-> "not a directory"]
              [] KindIn(tr, at) = "dir" /\ names # <<>> ->
                   reach[IF Head(names) # ".." THEN Append(at, Head(names))
                         ELSE IF at = <<>> THEN at ELSE Front(at), Tail(names)]
    IN reach[<<>>, p]

\* Others make an entry, or remove one that holds none.
Change(p, kind) ==
    /\ changes < MaxChanges
    /\ \/ tree[p] = "none" /\ kind # "none" /\ Kind(Front(p)) = "dir"
       \/ tree[p] # "none" /\ kind = "none" /\ \A q \in Entries : Front(q) = p => tree[q] = "none"
    /\ tree' = [tree EXCEPT ![p] = kind]
    /\ changes' = changes + 1
    /\ job' = [job EXCEPT !.touched = TRUE, !.gone = @ \/ job.at = p]
    /\ UNCHANGED made

(***************************************************************************)
(* Place::resolve: no `..`, `~` or path elsewhere for a scoped key.        *)
(***************************************************************************)
Refused(asked) ==
    \/ asked.tilde
    \/ asked.absolute /\ ~IsPrefix(Root, asked.names)
    \/ \E i \in 1 .. Len(asked.names) : asked.names[i] = ".."
Resolve(asked, scoped) ==
    IF asked.absolute THEN asked.names
    ELSE (IF scoped THEN Root ELSE Home) \o asked.names

Serve(asked, scoped, dry, count) ==
    /\ LET path == Resolve(asked, scoped)
           asks == [Idle EXCEPT !.scoped = scoped, !.slash = asked.slash, !.dry = dry,
                                !.count = count, !.path = path, !.before = tree]
       IN  job' = IF ~scoped THEN [asks EXCEPT !.phase = "looking"]
                  ELSE IF Refused(asked) THEN [asks EXCEPT !.phase = "failed"]
                  ELSE [asks EXCEPT !.phase = IF path = Root THEN "done" ELSE "walking",
                                    !.at = Root, !.walked = Len(Root)]
    /\ UNCHANGED <<tree, changes, made>>

NamesDir == job.slash \/ job.count > 1
Fails == job' = [job EXCEPT !.phase = "failed"]

(***************************************************************************)
(* A path as the system finds it: what is there; then what is missing      *)
(* counted; then that made and opened (made_dirs, made_path).              *)
(***************************************************************************)
Look ==
    /\ job.phase = "looking"
    /\ LET found == Found(tree, job.path) IN
       job' = IF found.kind = "dir" THEN [job EXCEPT !.phase = "done", !.at = found.at]
              ELSE IF \/ found.kind = "not a directory"
                      \/ found.kind = "file" /\ NamesDir
                      \/ ~NamesDir /\ Last(job.path) = ".."
              THEN [job EXCEPT !.phase = "failed"]
              ELSE [job EXCEPT !.phase = "counting", !.as = ~NamesDir]
    /\ UNCHANGED <<tree, changes, made>>

Directory == IF job.as THEN Front(job.path) ELSE job.path
Count ==
    /\ job.phase = "counting"
    /\ LET there == {n \in 1 .. Len(Directory) :
                       Found(tree, SubSeq(Directory, 1, n)).kind \in {"dir", "file"}}
           missing == Len(Directory)
                        - CHOOSE n \in there \cup {0} : \A m \in there : m <= n
       IN  job' = [job EXCEPT !.made = missing, !.phase =
                       IF job.dry /\ (~job.as \/ missing > 0) THEN "done" ELSE "making"]
    /\ UNCHANGED <<tree, changes, made>>

\* create_dir_all, taken as one step: from the first of the path's directories that is missing.
Step(at, name) == IF name = ".." THEN Front(at) ELSE Append(at, name)
Absent == {n \in 1 .. Len(Directory) : Found(tree, SubSeq(Directory, 1, n)).kind = "none"}
Onward ==
    LET n == CHOOSE n \in Absent : \A m \in Absent : n <= m
        first == Found(tree, SubSeq(Directory, 1, n)).at
    IN  IF Absent = {} THEN <<Found(tree, Directory).at>>
        ELSE [k \in 1 .. Len(Directory) - n + 1 |->
                 FoldLeft(Step, first, SubSeq(Directory, n + 1, n + k - 1))]
Make ==
    /\ job.phase = "making"
    /\ LET way == Onward
           making == {q \in Range(way) : Kind(q) = "none"}
       IN  IF making \subseteq Entries /\ (making # {} \/ Kind(Last(way)) = "dir")
           THEN /\ tree' = [q \in DOMAIN tree |-> IF q \in making THEN "dir" ELSE tree[q]]
                /\ made' = made \cup making
                /\ job' = [job EXCEPT !.phase = "done", !.at = Last(way)]
           ELSE Fails /\ UNCHANGED <<tree, made>>
    /\ UNCHANGED changes

(***************************************************************************)
(* Beneath a scoped key's directory: each directory opened from the last,  *)
(* none a symlink, made where missing (walk_making).                       *)
(***************************************************************************)
NextPath == Append(job.at, job.path[job.walked + 1])
AtLast == job.walked + 1 = Len(job.path)
Opened_Followed(p) == Found(tree, p)
\* open_dir: what is at the name itself.
Opened(p) == [at |-> p, kind |-> Kind(p)]
There == IF job.gone THEN [at |-> NextPath, kind |-> "none"] ELSE Opened(NextPath)
Opens == [job EXCEPT !.at = There.at, !.gone = FALSE, !.walked = @ + 1,
                     !.phase = IF AtLast THEN "done" ELSE "walking"]

\* The parents still to walk, of which a dry run makes none.
Left == Len(job.path) - 1 - job.walked
DryEnds(missing) ==
    job' = [job EXCEPT !.phase = "done", !.at = Nowhere, !.as = ~NamesDir,
                       !.made = @ + missing + IF NamesDir THEN 1 ELSE 0]

Walk ==
    /\ job.phase = "walking" /\ ~AtLast
    /\ \/ There.kind = "dir" /\ job' = Opens
       \/ There.kind \in {"file", "link"} /\ Fails
       \/ There.kind = "none" /\ job.dry /\ DryEnds(Left)
       \/ There.kind = "none" /\ ~job.dry /\ job' = [job EXCEPT !.phase = "making one"]
    /\ UNCHANGED <<tree, changes, made>>

\* The last name: stat, not followed, and what it says.
Stat ==
    /\ job.phase = "walking" /\ AtLast
    /\ \/ There.kind = "dir" /\ job' = [job EXCEPT !.phase = "opening"]
       \/ There.kind = "link" /\ Fails
       \/ There.kind = "file" /\ NamesDir /\ Fails
       \/ There.kind = "none" /\ NamesDir /\ job.dry /\ DryEnds(0)
       \/ There.kind = "none" /\ NamesDir /\ ~job.dry /\ job' = [job EXCEPT !.phase = "making one"]
       \/ There.kind \in {"file", "none"} /\ ~NamesDir
          /\ job' = [job EXCEPT !.phase = "done", !.as = TRUE]
    /\ UNCHANGED <<tree, changes, made>>

MakeOne ==
    /\ job.phase = "making one"
    /\ IF job.gone \/ NextPath \notin Entries \/ Kind(NextPath) # "none"
       THEN Fails /\ UNCHANGED <<tree, made>>
       ELSE /\ tree' = [tree EXCEPT ![NextPath] = "dir"]
            /\ made' = made \cup {NextPath}
            /\ job' = [job EXCEPT !.phase = "opening", !.made = @ + 1]
    /\ UNCHANGED changes

\* The directory made, or seen to be there, is opened as any other.
Open ==
    /\ job.phase = "opening"
    /\ IF There.kind = "dir" THEN job' = Opens ELSE Fails
    /\ UNCHANGED <<tree, changes, made>>

Again ==
    /\ job.phase \in {"done", "failed"} /\ job' = Idle /\ made' = {}
    /\ UNCHANGED <<tree, changes>>

PlaceStep == Look \/ Count \/ Make \/ Walk \/ MakeOne \/ Open \/ Stat
PlacesNext ==
    \/ job.phase = "idle" /\ \E asked \in Asked, scoped, dry \in BOOLEAN, count \in Counts :
            Serve(asked, scoped, dry, count)
    \/ PlaceStep \/ Again
    \/ changes < MaxChanges /\ \E p \in Entries, kind \in {"none", "dir", "file", "link"} :
            Change(p, kind)

(***************************************************************************)
(* Properties.                                                             *)
(***************************************************************************)
\* Whatever the destination's `..`, `~`, absolute path or symlinks, and whatever others put in the
\* place of a directory as it is walked, a scoped key's copy makes no directory and lands nothing
\* but beneath its directory (Place, fsat).
StaysBeneath ==
    job.scoped => \A p \in (made \cup {job.at}) \ {Nowhere} : IsPrefix(Root, p)

\* Several items never land as one name, and a copy lands inside what was a directory, or was named
\* as one, and as anything else, unless others changed the tree as it looked (Target::resolve).
LandsAsCp ==
    job.phase = "done" =>
        /\ job.as => job.count = 1 /\ ~job.slash
        /\ ~job.touched => job.as = ~(NamesDir \/ Found(job.before, job.path).kind = "dir")

\* The directories it says it made are those it made, and a dry run makes none but says as many as
\* a run would, unless others changed the tree meanwhile; of a path with no `..` (made_dirs counts
\* a missing name and the `..` behind it as two).
CountsWhatItMakes ==
    /\ job.dry /\ ~job.touched => made = {}
    /\ job.phase = "done" /\ ~job.touched /\ ~(\E n \in 1 .. Len(job.path) : job.path[n] = "..") =>
         job.made = IF ~job.dry THEN Cardinality(made)
                    ELSE Cardinality({n \in 1 .. Len(Directory) :
                             Found(job.before, SubSeq(Directory, 1, n)).kind = "none"})

\* A destination is always settled.
=============================================================================
