------------------------------- MODULE EfCore -------------------------------
(***************************************************************************)
(* What saving a navigation list through Entity Framework does to the rows  *)
(* of a join table (role_role, role_function, team_team, user_team, ...).   *)
(* The services load an entity with its rows, assign a new list to the      *)
(* navigation property and save: the change tracker compares the new list   *)
(* with the rows it loaded, never with the rows the table holds by then.    *)
(* A row loaded and not asked for is deleted by key, a row asked for and    *)
(* not loaded is inserted, a row in both is left alone.  A delete that      *)
(* finds no row and an insert that finds one make the whole save fail.      *)
(***************************************************************************)

Deletes(seen, asked) == seen \ asked
Inserts(seen, asked) == asked \ seen

\* The save goes through: every deleted row is there, no inserted row is.
Saveable(db, seen, asked) ==
    /\ Deletes(seen, asked) \subseteq db
    /\ Inserts(seen, asked) \cap db = {}

\* Mutants of Merged: the list itself becomes one row; nothing is deleted.
MergedNesting(db, seen, asked) == (db \ Deletes(seen, asked)) \cup {Inserts(seen, asked)}
MergedAppending(db, seen, asked) == db \cup Inserts(seen, asked)

\* The rows after a save that goes through.
Merged(db, seen, asked) == (db \ Deletes(seen, asked)) \cup Inserts(seen, asked)

=============================================================================
