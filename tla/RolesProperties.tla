--------------------------- MODULE RolesProperties ---------------------------
(***************************************************************************)
(* What roles must satisfy.                                                 *)
(***************************************************************************)
EXTENDS Roles

Hierarchy == INSTANCE Compound WITH Node <- Role, Member <- {},
                                    members <- [r \in Role |-> {}]

\* The role handlers implement the hierarchy that the team handlers implement, with
\* no members: a save that is not stale gives a role childless children only
\* (RoleService.cs:150-190, ApplyChildRolesToDefaultRole).
ImplementsHierarchy == Hierarchy!Spec

\* A deleted function reaches no token any more, and no overlapping save of a role
\* brings it back: what a user's token is made of exists (FunctionService.cs:119-129,
\* IdentityWithAdditionalClaimsProfileService.cs:76-102).
DeletedFunctionsReachNoToken ==
    \A u \in User : TokenFuns(u) \subseteq funs

\* A save of a role that nothing overtook changes the tokens to what was submitted:
\* a user who has the role, or one it is a child of, has its new functions, and a
\* user who has this role only has nothing else but what its children give.
TokensFollowTheSave ==
    [][\A w \in Worker \ stale : \A u \in User :
         LET r == req[w] IN
         CommitRole(w) =>
             /\ r.role \in has[u] => r.askedFuns \subseteq TokenFuns(u)'
             /\ has[u] = {r.role} /\ r.setsKids =>
                  TokenFuns(u)' = r.askedFuns \cup UNION {holds'[c] : c \in r.asked}]_vars

=============================================================================
