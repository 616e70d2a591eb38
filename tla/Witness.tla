------------------------------ MODULE Witness ------------------------------
(***************************************************************************)
(* curp/witness/witness.go: the unordered record of commands a replica has *)
(* accepted and not yet seen committed.  The Go map from ProposeId to      *)
(* command is the set of its commands, no two with the same id; every      *)
(* method runs under the witness mutex and is one atomic operation.        *)
(***************************************************************************)
EXTENDS CurpCommand

NewWitness == {}

HasConflictWith(w, cmd) == \E c \in w : Conflict(c, cmd)

\* Mutant: the record is kept although it conflicts.
InsertAlways(w, cmd) == {c \in w : c.id # cmd.id} \cup {cmd}

\* The map after InsertIfNotConflict(cmd); the method's result is
\* HasConflictWith(w, cmd).  An entry with the same id is overwritten.
InsertIfNotConflict(w, cmd) ==
    IF HasConflictWith(w, cmd) THEN w
    ELSE {c \in w : c.id # cmd.id} \cup {cmd}

\* Mutants: a commit clears the witness; the record is never found.
RemoveAll(w, id) == {}
RemoveNothing(w, id) == w

Remove(w, id) == {c \in w : c.id # id}
=============================================================================
