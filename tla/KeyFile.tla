------------------------------- MODULE KeyFile -------------------------------
(***************************************************************************)
(* An identity key and the list of names beside it, used by several koh    *)
(* processes at once (identity.rs, identity/key_file.rs, names.rs): each   *)
(* loads the key, resets it, or changes the list, and may fail to write,   *)
(* or be killed, at any step.                                              *)
(*                                                                         *)
(* The key a process makes is the process; a list is a set of entries, its *)
(* comments and order left out.  External: the directory's lock is flock,  *)
(* which the kernel lets go when its holder dies, and rename is atomic.    *)
(***************************************************************************)
EXTENDS FiniteSets

CONSTANTS Processes, Names, Ids

VARIABLES
    key,        \* the key file: whose key, or NoKey
    list,       \* the list beside it
    lock,       \* who holds .koh-dir-lock
    temporary,  \* temporary files, each with whose it is
    at,         \* where each process is in what it does
    asked,      \* what each does
    has,        \* what it read: the key it uses, or the list it will publish
    resets,     \* history: whether the key was ever reset
    saved       \* history: the list each confirmed change makes of the one before

keyVars == <<key, list, lock, temporary, at, asked, has, resets, saved>>

NoKey == "nokey"
NoOne == "noone"
\* What the proofs assume of the constants.
KeyAssumption == Processes \cap {NoKey, NoOne} = {}

Load == [do |-> "load"]
Reset == [do |-> "reset"]
Changes == [do : {"add"}, name : Names, id : Ids] \cup [do : {"remove"}, name : Names]
                \cup [do : {"rename"}, name : Names, new : Names]
Ops == {Load, Reset} \cup Changes

KeyInit ==
    /\ key = NoKey /\ list = {} /\ lock = NoOne /\ temporary = {}
    /\ at = [p \in Processes |-> "idle"] /\ asked = [p \in Processes |-> Load]
    /\ has = [p \in Processes |-> NoKey] /\ resets = FALSE /\ saved = {}

Goes(p, to) == at' = [at EXCEPT ![p] = to]
Started(p) == at[p] \notin {"idle", "done", "failed", "killed"}

(***************************************************************************)
(* names.rs: what a change makes of a list, if it is allowed.              *)
(***************************************************************************)
Get(names, n) == {e \in names : e.name = n}
Allowed(names, op) ==
    CASE op.do = "add" -> Get(names, op.name) = {} /\ \A e \in names : e.id # op.id
      [] op.do = "remove" -> Get(names, op.name) # {}
      [] op.do = "rename" -> Get(names, op.new) = {} /\ Get(names, op.name) # {}
Changed(names, op) ==
    CASE op.do = "add" -> names \cup {[name |-> op.name, id |-> op.id]}
      [] op.do = "remove" -> names \ Get(names, op.name)
      [] op.do = "rename" -> (names \ Get(names, op.name))
                                \cup {[name |-> op.new, id |-> e.id] : e \in Get(names, op.name)}

(***************************************************************************)
(* A process.                                                              *)
(***************************************************************************)
Start(p, op) ==
    /\ at[p] = "idle" /\ asked' = [asked EXCEPT ![p] = op]
    /\ Goes(p, CASE op = Load -> "read" [] op = Reset -> "reset" [] OTHER -> "lock")
    /\ UNCHANGED <<key, list, lock, temporary, has, resets, saved>>

\* load_or_create: a key there is used.
ReadSecret(p) ==
    /\ at[p] = "read"
    /\ IF key # NoKey THEN Goes(p, "done") /\ has' = [has EXCEPT ![p] = key]
       ELSE Goes(p, "lock") /\ UNCHANGED has
    /\ UNCHANGED <<key, list, lock, temporary, asked, resets, saved>>

\* lock_dir: creators and writers take turns.
LockDir_Not(p) == UNCHANGED lock
LockDir(p) == lock = NoOne /\ lock' = p
Locks(p) ==
    /\ at[p] = "lock" /\ LockDir(p) /\ Goes(p, "locked")
    /\ UNCHANGED <<key, list, temporary, asked, has, resets, saved>>
Unlocked(p) == IF lock = p THEN NoOne ELSE lock

\* create_secret, the lock held: a key another process published first is read.
Checks(p) ==
    /\ at[p] = "locked" /\ asked[p] = Load
    /\ Goes(p, IF key = NoKey THEN "write" ELSE "rereads")
    /\ has' = [has EXCEPT ![p] = p]
    /\ UNCHANGED <<key, list, lock, temporary, asked, resets, saved>>
\* It may be reset by then: then there is no key, an error.
ReadsAgain(p) ==
    /\ at[p] = "rereads" /\ lock' = Unlocked(p)
    /\ Goes(p, IF key = NoKey THEN "failed" ELSE "done") /\ has' = [has EXCEPT ![p] = key]
    /\ UNCHANGED <<key, list, temporary, asked, resets, saved>>

\* update_beside, the lock held: the list is read, and changed unless the change is refused.
ReadBeside(p) ==
    /\ at[p] = "locked" /\ asked[p] \in Changes
    /\ IF Allowed(list, asked[p])
       THEN /\ Goes(p, "write") /\ has' = [has EXCEPT ![p] = Changed(list, asked[p])]
            /\ UNCHANGED lock
       ELSE Goes(p, "failed") /\ lock' = Unlocked(p) /\ UNCHANGED has
    /\ UNCHANGED <<key, list, temporary, asked, resets, saved>>

\* publish: a temporary file written, or not whole, which is an error; then renamed into place.
Writes(p) ==
    /\ at[p] = "write"
    /\ \/ Goes(p, "rename") /\ temporary' = temporary \cup {p} /\ UNCHANGED lock
       \/ Goes(p, "failed") /\ lock' = Unlocked(p) /\ UNCHANGED temporary
    /\ UNCHANGED <<key, list, asked, has, resets, saved>>
Renames(p) ==
    /\ at[p] = "rename" /\ Goes(p, "done")
    /\ temporary' = temporary \ {p} /\ lock' = Unlocked(p)
    /\ IF asked[p] = Load THEN key' = has[p] /\ UNCHANGED <<list, saved>>
       ELSE list' = has[p] /\ saved' = Changed(saved, asked[p]) /\ UNCHANGED key
    /\ UNCHANGED <<asked, has, resets>>

\* reset locks nothing: a check and an unlink.
Resets(p) ==
    /\ at[p] = "reset"
    /\ IF key = NoKey THEN Goes(p, "failed") /\ UNCHANGED <<key, resets>>
       ELSE Goes(p, "done") /\ key' = NoKey /\ resets' = TRUE
    /\ UNCHANGED <<list, lock, temporary, asked, has, saved>>

Killed(p) ==
    /\ Started(p) /\ Goes(p, "killed") /\ lock' = Unlocked(p)
    /\ UNCHANGED <<key, list, temporary, asked, has, resets, saved>>

\* A process's steps, which are taken; it waits for the lock once.
Step(p) == ReadSecret(p) \/ Locks(p) \/ Checks(p) \/ ReadsAgain(p) \/ ReadBeside(p)
                \/ Writes(p) \/ Renames(p) \/ Resets(p)
KeyNext == \E p \in Processes : (\E op \in Ops : Start(p, op)) \/ Step(p) \/ Killed(p)

(***************************************************************************)
(* Properties.                                                             *)
(***************************************************************************)
\* Without a reset every process that loaded a key uses the one in the file: the identity is one,
\* however the first uses race (create_secret).
OneIdentity ==
    ~resets => \A p \in Processes : at[p] = "done" /\ asked[p] = Load => has[p] = key

\* Every confirmed change to the list is in it, and none that failed; it names no client twice,
\* neither by name nor by id (update_beside, Names::add).
NoChangeLost ==
    /\ list = saved
    /\ \A e, f \in list : (e.name = f.name \/ e.id = f.id) => e = f
=============================================================================
