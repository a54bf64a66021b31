------------------------------- MODULE Connections -------------------------------
(***************************************************************************)
(* The live events of one workspace and the notifications of one person in *)
(* it (ConnectionManager and redis_ws_pubsub_listener,                     *)
(* api/v1/websocket_router.py): either is sent to the sockets of the       *)
(* worker it arises in, one await each, and then published; the listeners  *)
(* of the workers send it on to theirs.                                    *)
(***************************************************************************)
EXTENDS Deployment

CONSTANTS
    Socket,        \* connections clients open
    Event,         \* events ...
    Personal,      \* ... and those of them that are notifications of the person
    MaxUnheard     \* bound: how often a listener loses its subscription

ASSUME ConnectionsAssumption == Personal \subseteq Event /\ MaxUnheard \in Nat

VARIABLES
    group,         \* the workspace's entry in active_workspace_connections of each worker
    mine,          \* the person's in active_user_connections
    owned,         \* sockets of the person
    gone,          \* sockets whose client has left
    opened,        \* sockets ever opened
    sender,        \* broadcast of each event
    relayed,       \* published events a worker has not yet handled
    relay,         \* the event a listener is sending on
    subscribedTo,  \* workers whose listener is subscribed
    unheard,       \* how often one was not
    heard,         \* times each socket got each event (history)
    due,           \* sockets open when the event arose (history)
    lost           \* events not passed to every worker (history)

connHistory == <<heard, due, lost>>
connVars == <<group, mine, owned, gone, opened, sender, relayed, relay, subscribedTo,
              unheard, connHistory>>

Unsent == [pc |-> "unsent"]
Sent   == [pc |-> "sent"]
NoRelay == [event |-> 0]

ConnectionsTypeOK ==
    /\ group \in [Worker -> SUBSET Socket] /\ mine \in [Worker -> SUBSET owned]
    /\ owned \subseteq Socket /\ gone \subseteq opened /\ opened \subseteq Socket
    /\ sender \in [Event -> {Unsent, Sent} \cup
                      [pc: {"sending"}, worker: Worker, left: SUBSET Socket,
                       dead: SUBSET Socket]]
    /\ relayed \in [Worker -> SUBSET Event]
    /\ \A w \in Worker : relay[w] = NoRelay \/
           (relay[w].event \in Event /\ relay[w].left \subseteq Socket)
    /\ subscribedTo \subseteq Worker /\ unheard \in 0..MaxUnheard
    /\ heard \in [Event -> [Socket -> 0..Cardinality(Worker)]]
    /\ due \in [Event -> SUBSET Socket] /\ lost \subseteq Event

ConnectionsInit ==
    /\ group = [w \in Worker |-> {}] /\ mine = [w \in Worker |-> {}]
    /\ owned \in {S \in SUBSET Socket : Cardinality(S) <= 1}
    /\ gone = {} /\ opened = {}
    /\ sender = [e \in Event |-> Unsent]
    /\ relayed = [w \in Worker |-> {}] /\ relay = [w \in Worker |-> NoRelay]
    /\ subscribedTo = Worker /\ unheard = 0
    /\ heard = [e \in Event |-> [k \in Socket |-> 0]]
    /\ due = [e \in Event |-> {}] /\ lost = {}

Live == opened \ gone

\* The sockets of a worker that an event is for.
Audience(e, w) == IF e \in Personal THEN mine[w] ELSE group[w]

\* connect; the membership of the user was checked before.
Connect(k, w) ==
    /\ k \notin opened
    /\ opened' = opened \cup {k}
    /\ group' = [group EXCEPT ![w] = @ \cup {k}]
    /\ mine' = [mine EXCEPT ![w] = @ \cup ({k} \cap owned)]
    /\ UNCHANGED <<deployment, owned, gone, sender, relayed, relay, subscribedTo,
                   unheard, connHistory>>

ClientLeaves(k) ==
    /\ k \in Live
    /\ gone' = gone \cup {k}
    /\ UNCHANGED <<deployment, group, mine, owned, opened, sender, relayed, relay,
                   subscribedTo, unheard, connHistory>>

\* The receive loop of the socket ends.
Disconnect(k) ==
    /\ k \in gone /\ \E w \in Worker : k \in group[w] \cup mine[w]
    /\ group' = [w \in Worker |-> group[w] \ {k}]
    /\ mine' = [w \in Worker |-> mine[w] \ {k}]
    /\ UNCHANGED <<deployment, owned, gone, opened, sender, relayed, relay, subscribedTo,
                   unheard, connHistory>>

Hear(e, k) == heard' = IF k \in gone THEN heard ELSE [heard EXCEPT ![e][k] = @ + 1]

\* A copy of the set of sockets is taken, ...
StartSending(e, w) ==
    /\ sender[e] = Unsent
    /\ sender' = [sender EXCEPT ![e] =
                       [pc |-> "sending", worker |-> w, left |-> Audience(e, w), dead |-> {}]]
    /\ due' = [due EXCEPT ![e] = UNION {Audience(e, v) : v \in Worker}]
    /\ UNCHANGED <<deployment, group, mine, owned, gone, opened, relayed, relay,
                   subscribedTo, unheard, heard, lost>>

\* ... by broadcast_to_workspace, or by send_to_user for a notification that was
\* stored before (or not: an error of the database is only logged), ...
Broadcast(e, w) == e \notin Personal /\ StartSending(e, w)
Notify(e, w)    == e \in Personal /\ StartSending(e, w)

\* ... which await one send after the other, ...
SendTo(e, k) ==
    /\ sender[e].pc = "sending" /\ k \in sender[e].left
    /\ Hear(e, k)
    /\ sender' = [sender EXCEPT ![e].left = @ \ {k}, ![e].dead = @ \cup ({k} \cap gone)]
    /\ UNCHANGED <<deployment, group, mine, owned, gone, opened, relayed, relay,
                   subscribedTo, unheard, due, lost>>

DropDead(e) ==
    LET w == sender[e].worker IN
    IF e \in Personal
    THEN mine' = [mine EXCEPT ![w] = @ \ sender[e].dead] /\ UNCHANGED group
    ELSE group' = [group EXCEPT ![w] = @ \ sender[e].dead] /\ UNCHANGED mine

\* Mutant: the listener does not know its own worker's events.
PublishToAll(e) ==
    /\ sender[e].pc = "sending" /\ sender[e].left = {}
    /\ DropDead(e)
    /\ sender' = [sender EXCEPT ![e] = Sent]
    /\ relayed' = [w \in Worker |->
           IF redisUp /\ w \in subscribedTo THEN relayed[w] \cup {e} ELSE relayed[w]]
    /\ lost' = IF redisUp /\ subscribedTo = Worker THEN lost ELSE lost \cup {e}
    /\ UNCHANGED <<deployment, owned, gone, opened, relay, subscribedTo, unheard, heard,
                   due>>

\* ... drop those that failed, and publish.
Publish(e) ==
    /\ sender[e].pc = "sending" /\ sender[e].left = {}
    /\ DropDead(e)
    /\ sender' = [sender EXCEPT ![e] = Sent]
    /\ relayed' = [w \in Worker |->
           IF redisUp /\ w \in subscribedTo \ {sender[e].worker}
           THEN relayed[w] \cup {e} ELSE relayed[w]]
    /\ lost' = IF redisUp /\ subscribedTo \cup {sender[e].worker} = Worker
               THEN lost ELSE lost \cup {e}
    /\ UNCHANGED <<deployment, owned, gone, opened, relay, subscribedTo, unheard, heard,
                   due>>

\* The listener handles one event at a time.
Receive(w, e) ==
    /\ relay[w] = NoRelay /\ e \in relayed[w]
    /\ relayed' = [relayed EXCEPT ![w] = @ \ {e}]
    /\ relay' = [relay EXCEPT ![w] =
                     IF Audience(e, w) = {} THEN NoRelay
                     ELSE [event |-> e, left |-> Audience(e, w)]]
    /\ UNCHANGED <<deployment, group, mine, owned, gone, opened, sender, subscribedTo,
                   unheard, connHistory>>

RelayTo(w, k) ==
    /\ relay[w] # NoRelay /\ k \in relay[w].left
    /\ Hear(relay[w].event, k)
    /\ relay' = [relay EXCEPT ![w] =
                     IF relay[w].left = {k} THEN NoRelay
                     ELSE [relay[w] EXCEPT !.left = @ \ {k}]]
    /\ UNCHANGED <<deployment, group, mine, owned, gone, opened, sender, relayed,
                   subscribedTo, unheard, due, lost>>

\* The connection of the listener breaks, with what was on its way.
LoseSubscription(w) ==
    /\ w \in subscribedTo /\ unheard < MaxUnheard
    /\ unheard' = unheard + 1
    /\ subscribedTo' = subscribedTo \ {w}
    /\ lost' = lost \cup relayed[w]
    /\ relayed' = [relayed EXCEPT ![w] = {}]
    /\ UNCHANGED <<deployment, group, mine, owned, gone, opened, sender, relay, heard,
                   due>>

Subscribe(w) ==
    /\ w \notin subscribedTo /\ redisUp
    /\ subscribedTo' = subscribedTo \cup {w}
    /\ UNCHANGED <<deployment, group, mine, owned, gone, opened, sender, relayed, relay,
                   unheard, connHistory>>

ConnectionsNext ==
    \/ \E k \in Socket :
           \/ \E w \in Worker : Connect(k, w) \/ RelayTo(w, k)
           \/ ClientLeaves(k) \/ Disconnect(k)
           \/ \E e \in Event : SendTo(e, k)
    \/ \E e \in Event : Publish(e) \/ \E w \in Worker : Broadcast(e, w) \/ Notify(e, w) \/ Receive(w, e)
    \/ \E w \in Worker : LoseSubscription(w) \/ Subscribe(w)
    \/ (RedisFails \/ RedisRecovers) /\ UNCHANGED connVars

------------------------------------------------------------------------------
(* Properties *)

Arrived(e) ==
    /\ sender[e] = Sent
    /\ \A w \in Worker : e \notin relayed[w] /\ (relay[w] # NoRelay => relay[w].event # e)

\* No socket gets an event twice, though its worker both sends it and listens;
\* and when it has gone round, every socket that was open when it arose and still
\* is has got it, unless Redis or a listener was away.
HeardOnce ==
    \A e \in Event :
        /\ \A k \in Socket : heard[e][k] <= 1
        /\ Arrived(e) /\ e \notin lost => \A k \in due[e] \ gone : heard[e][k] = 1
================================================================================
