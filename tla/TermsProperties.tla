--------------------------- MODULE TermsProperties ---------------------------
(***************************************************************************)
(* What the versions of an agreement must satisfy.                          *)
(***************************************************************************)
EXTENDS Terms

\* v is a later version than w.
Later(v, w) == v.year > w.year \/ (v.year = w.year /\ v.number > w.number)

\* As long as no creation was overtaken by another one, the row that counts as the latest
\* bears the greatest version, whatever was deleted in between and whenever the year turned
\* (TermsOfServiceRepository.cs:95-102).
LatestIsGreatest ==
    intact => \A e, f \in Existing :
                terms[e].since > terms[f].since => Later(terms[e].version, terms[f].version)

\* Under the same condition the agreement can always be given another version: the number
\* the service would give is not taken (TermsOfServiceService.cs:104-124).  Otherwise every
\* later creation would be refused by the unique version, with nothing to be done but
\* to delete a version or to wait for the new year.
NextVersionIsFree ==
    intact => \A e \in Existing : terms[e].version # Successor(Latest)

\* The terms a team refers to exist, although a team's save and a deletion each look in an
\* earlier step than they write (TeamService.cs:69-78, TermsOfServiceService.cs:64-72).
TermsInForceExist == \A t \in Team : inForce[t] # None => inForce[t] \in Existing

=============================================================================
