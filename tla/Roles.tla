--------------------------------- MODULE Roles ---------------------------------
(***************************************************************************)
(* Roles and their hierarchy (permission_evaluator.py).                    *)
(***************************************************************************)

Role == {"superadmin", "admin", "developer", "editor", "viewer"}

\* The default hierarchy of _expand_roles: what each role inherits.
Inherits ==
    [superadmin |-> {"admin", "developer", "editor", "viewer"},
     admin      |-> {"developer", "editor", "viewer"},
     developer  |-> {"editor", "viewer"},
     editor     |-> {"viewer"},
     viewer     |-> {}]

\* _expand_roles under that hierarchy, which lists every inherited role: one
\* pass of the queue reaches them all (Permissions has the queue itself).
Expand(roles) == roles \cup UNION {Inherits[x] : x \in roles}
================================================================================
