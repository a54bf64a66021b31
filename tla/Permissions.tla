------------------------------ MODULE Permissions ------------------------------
(***************************************************************************)
(* Who may do what, computed twice: by PermissionEvaluator, which expands  *)
(* the roles of a user, the one in the active workspace among them, along  *)
(* the hierarchy (permission_evaluator.py), and by DeclarativePolicyEngine *)
(* (policy_engine.py, policies/rules.json), which is told the global roles *)
(* only and knows their levels and the permissions each of them lists.     *)
(***************************************************************************)
EXTENDS Integers, Roles

Alias    == {"super-admin"}     \* other spellings of superadmin
RoleName == Role \cup Alias

Normalized(names) == {IF n \in Alias THEN "superadmin" ELSE n : n \in names}

\* _expand_roles: the queue holds the roles found whose own list has not been
\* looked at; whatever order it takes them in, it ends when nothing is new.
ExpandAlong(h, names) ==
    LET found[all \in SUBSET (Normalized(names) \cup Normalized(UNION {h[x] : x \in DOMAIN h}))] ==
            LET next == all \cup UNION {Normalized(h[x]) : x \in all \cap DOMAIN h}
            IN  IF next = all THEN all ELSE found[next]
    IN  found[Normalized(names)]

\* What each role lists, as <<domain, action>>; "*" is all of them.
Everything == <<"*", "*">>
Reading == {<<"workspaces", "read">>, <<"tasks", "read">>, <<"documents", "read">>}
Editing == Reading \cup ({"tasks"} \X {"create", "update"}) \cup {<<"documents", "write">>}

RolePermissions ==
    [superadmin |-> {Everything},
     admin      |-> ({"workspaces"} \X {"read", "update", "delete", "invite", "manage_members",
                                        "audit_logs"})
                    \cup ({"tasks"} \X {"create", "read", "update", "delete"})
                    \cup ({"team"} \X {"invite", "manage"})
                    \cup ({"documents"} \X {"read", "write", "delete"}),
     developer  |-> Editing \cup ({"code"} \X {"read", "write", "commit"})
                    \cup {<<"reports", "read">>, <<"team", "read">>},
     editor     |-> Editing,
     viewer     |-> Reading]

Listed(n) == IF n \in Role THEN RolePermissions[n] ELSE {}
Covers(granted, p) == granted \cap {Everything, p, <<p[1], "*">>} # {}

\* get_effective_permissions, of the global roles and the active workspace role.
EffectivePermissions(names) ==
    LET all == ExpandAlong(Inherits, names) IN
    IF all \cap {"superadmin", "admin"} # {} THEN {Everything}
    ELSE UNION {Listed(n) : n \in all}

\* PermissionEvaluator.has_permission: scoped is what the active workspace adds.
HasPermission(names, scoped, p) == Covers(EffectivePermissions(names \cup scoped), p)

Level(n) ==
    IF n \notin Role THEN 0
    ELSE [superadmin |-> 5, admin |-> 4, developer |-> 3, editor |-> 2, viewer |-> 1][n]

\* DeclarativePolicyEngine.has_role and has_permission.
AtLeast(n, need) == Level(n) >= Level(need)
ListsPermission(names, p) == \E n \in names : Covers(Listed(n), p)

\* Mutant: an alias is compared as it is spelled, as the simulation does.
FlaggedAsSpelled(names) == "superadmin" \in names

\* The is_superadmin that is_resource_accessible sends along.
Flagged(names) == "superadmin" \in Normalized(names)

\* What the rules on attributes can tell of a subject and a resource.
Tie == {"owner", "public", "cleared", "creator"}

\* evaluate_abac: all actions of an owner, a cleared person of the department
\* and an editor who created the task; reading of what is public.
EvaluateAbac(names, flagged, ties, p) ==
    \/ names \cap {"superadmin", "admin"} # {} \/ flagged
    \/ ties \cap {"owner", "cleared"} # {}
    \/ "public" \in ties /\ p[2] = "read"
    \/ "creator" \in ties /\ p[1] = "tasks" /\ \E n \in names : AtLeast(n, "editor")

\* The local decision of evaluate_access.
Allows(names, flagged, ties, p) ==
    ListsPermission(names, p) \/ EvaluateAbac(names, flagged, ties, p)

------------------------------------------------------------------------------
(* Properties *)

Permission == UNION {RolePermissions[x] : x \in Role \ {"superadmin"}} \cup {<<"billing", "manage">>}

\* The least set that holds the roles and what its own members inherit.
Closure(h, S, all) ==
    CHOOSE C \in SUBSET all :
        /\ S \subseteq C /\ \A x \in C : h[x] \subseteq C
        /\ \A D \in SUBSET all : S \subseteq D /\ (\A x \in D : h[x] \subseteq D) => C \subseteq D

\* The queue finds the closure in every hierarchy of three roles, the cyclic
\* ones included, and the two ways to decide agree on global roles: levels and
\* hierarchy order the roles alike; without ties to the resource the evaluator
\* grants what the engine grants, and a workspace role only adds to that; and
\* neither takes anything away from whom it gives a role.
GrantsAgree ==
    /\ LET some == {"developer", "editor", "viewer"} IN
       \A h \in [some -> SUBSET some], S \in SUBSET some :
           ExpandAlong(h, S) = Closure(h, S, some)
    /\ \A S \in SUBSET Role : ExpandAlong(Inherits, S) = Expand(S)
    /\ \A x, need \in Role : need \in Expand({x}) <=> AtLeast(x, need)
    /\ \A S, W \in SUBSET RoleName, p \in Permission :
           /\ HasPermission(S, {}, p) <=> Allows(S, Flagged(S), {}, p)
           /\ HasPermission(S, {}, p) => HasPermission(S, W, p)
    /\ \A S \in SUBSET RoleName, n \in RoleName, ties \in SUBSET Tie, p \in Permission :
           Allows(S, Flagged(S), ties, p) => Allows(S \cup {n}, Flagged(S \cup {n}), ties, p)
================================================================================
