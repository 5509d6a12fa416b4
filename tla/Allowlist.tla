------------------------------ MODULE Allowlist ------------------------------
(***************************************************************************)
(* Who may connect, read again and again while the list is edited          *)
(* (server/cli.rs watch_allowlist and Settling).                           *)
(*                                                                         *)
(* An editor leaves the list empty or missing for less than CONFIRM, and   *)
(* the next save comes after a read of what the last one left.             *)
(***************************************************************************)
EXTENDS Naturals, FiniteSets

CONSTANTS
    Keys,       \* client keys
    Given,      \* those given for this run (--allow)
    MaxSaves    \* bound: saves of the list

VARIABLES
    wanted,     \* the keys its owner last saved, or is saving
    kept,       \* history: those every list saved has
    onDisk,     \* "whole", "empty" (half saved), or "bad" (a typo)
    readSince,  \* the watcher read the file since it became what it is
    allowing,   \* as published
    dropping,   \* Settling.dropping: {} for none, else the set of the read that waits for another
    saves

allowlistVars == <<wanted, kept, onDisk, readSince, allowing, dropping, saves>>

AllowlistInit ==
    /\ wanted = Keys /\ kept = Keys /\ onDisk = "whole" /\ readSince = TRUE
    /\ allowing = Keys /\ dropping = {} /\ saves = 0

\* The owner saves another list, by way of an empty one, or a typo.
StartSave ==
    /\ onDisk # "empty" /\ readSince /\ saves < MaxSaves
    /\ \E keys \in SUBSET Keys : wanted' = keys
    /\ kept' = kept \cap wanted'
    /\ onDisk' \in {"empty", "bad"} /\ readSince' = FALSE /\ saves' = saves + 1
    /\ UNCHANGED <<allowing, dropping>>
EndSave ==
    /\ onDisk # "whole" /\ onDisk' = "whole" /\ readSince' = FALSE
    /\ UNCHANGED <<wanted, kept, allowing, dropping, saves>>

\* Settling::settle: a read that drops a key is taken once the next agrees.
Taken_AtOnce(drops, read) == TRUE
Taken(drops, read) == drops => dropping = {read}
Settle(read) ==
    LET drops == ~(allowing \subseteq read) IN
    /\ allowing' = IF Taken(drops, read) THEN read ELSE allowing
    /\ dropping' = IF Taken(drops, read) THEN {} ELSE {read}

\* A read while the file is empty is over before the save is; a bad one keeps the list as it was.
ReadList ==
    /\ onDisk = "empty" => ~readSince
    /\ readSince' = TRUE
    /\ \/ onDisk = "bad" /\ UNCHANGED <<allowing, dropping>>
       \/ onDisk = "empty" /\ Settle(Given)
       \/ onDisk = "whole" /\ Settle(wanted \cup Given)
    /\ UNCHANGED <<wanted, kept, onDisk, saves>>

AllowlistNext == StartSave \/ EndSave \/ ReadList

\* What must be taken: the watcher reads every REVOKE_CHECK; a save once begun ends.
Goes == ReadList \/ EndSave

\* A save locks no one out: a key that every list saved has stays allowed, though a read between
\* finds the list empty (Settling).
SaveLocksNoOneOut ==
    [][\A k \in Keys : k \in allowing /\ k \notin allowing' => k \notin kept \cup Given]_allowlistVars

\* A removal is seen, and so is an addition (REVOKE_CHECK).
IsTaken == allowing = wanted \cup Given
=============================================================================
