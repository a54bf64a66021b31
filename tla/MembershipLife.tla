---------------------------- MODULE MembershipLife ----------------------------
(***************************************************************************)
(* What membership promises: a person is in a workspace because he founded *)
(* it, was enrolled by the application, or took up the invitation that     *)
(* stood at that moment.  An offer is taken up at most once; one that was  *)
(* replaced, withdrawn or lost with its workspace is never taken up.       *)
(***************************************************************************)
CONSTANTS Person, Place, Ticket, NoTicket

VARIABLES
    in,      \* pairs <<place, person>>: who is in
    offer,   \* the ticket that stands for each place and person, or NoTicket
    issued   \* tickets ever issued

lifeVars == <<in, offer, issued>>

LifeInit ==
    /\ in = {}
    /\ offer = [p \in Place |-> [x \in Person |-> NoTicket]]
    /\ issued = {}

\* x founds the new place p, or is enrolled in p.
Enter(p, x) ==
    /\ in' = in \cup {<<p, x>>}
    /\ offer' = [offer EXCEPT ![p][x] = NoTicket]
    /\ UNCHANGED issued

\* A new invitation takes the place of whatever x had in p.
Offer(p, x, t) ==
    /\ t \notin issued
    /\ issued' = issued \cup {t}
    /\ offer' = [offer EXCEPT ![p][x] = t]
    /\ in' = in \ {<<p, x>>}

TakeUp(p, x) ==
    /\ offer[p][x] # NoTicket
    /\ in' = in \cup {<<p, x>>}
    /\ offer' = [offer EXCEPT ![p][x] = NoTicket]
    /\ UNCHANGED issued

\* Some persons lose membership and offers in p.
Leave(p, gone) ==
    /\ in' = in \ ({p} \X gone)
    /\ offer' = [offer EXCEPT ![p] =
                     [x \in Person |-> IF x \in gone THEN NoTicket ELSE @[x]]]
    /\ UNCHANGED issued

LifeNext ==
    \E p \in Place :
        \/ \E x \in Person :
               \/ Enter(p, x)
               \/ \E t \in Ticket : Offer(p, x, t)
               \/ TakeUp(p, x)
        \/ \E gone \in SUBSET Person : Leave(p, gone)

LifeSpec == LifeInit /\ [][LifeNext]_lifeVars
================================================================================
