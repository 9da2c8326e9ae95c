------------------------------ MODULE WsFanout -------------------------------
(***************************************************************************)
(* Live delivery to one user's sockets: core/ws_manager.py, the socket     *)
(* endpoint and the sending handler of modules/messaging/router.py, and    *)
(* the tickets of modules/auth/service.py.                                 *)
(*                                                                         *)
(* Each API instance is one event loop that owns some of the user's        *)
(* sockets; an action is what a coroutine does between two awaits that can *)
(* suspend it.  Redis (external) carries frames from any instance to the   *)
(* instances subscribed when they are published.                           *)
(***************************************************************************)
EXTENDS Naturals, FiniteSets

CONSTANTS
    Instances,
    Sockets,
    Messages,
    MaxRestarts,    \* bound: instance restarts in a behaviour
    None

ASSUME FanoutAssumption == MaxRestarts \in Nat /\ None \notin Instances

VARIABLES
    redis,      \* is the Redis server reachable?
    link,       \* ConnectionManager's link to Redis on each instance: see Link
    sockets,    \* see Socket
    channel,    \* frames published, not yet read by each instance's listener
    tasks,      \* runs of _deliver_local: see Task
    sends,      \* send_to_user calls: see Send
    got,        \* copies each socket has received since it connected
    restarts

vars == <<redis, link, sockets, channel, tasks, sends, got, restarts>>

\* "none": _redis is None, and start() was tried less than
\* RECONNECT_INTERVAL_SECONDS ago; "due": longer ago.  In the other states _redis
\* is set: start() awaits its ping; the listener is subscribing; it is subscribed.
Link == {"none", "due", "pinging", "subscribing", "listening"}
NoRedis == {"none", "due"}

\* "ticket": a ticket waits in Redis; "connecting": the ticket is consumed and
\* connect() awaits start(); "open": registered; "closed": registered, but the
\* peer or the server has closed it.  token: the ticket's access token is valid.
Socket == [state : {"none", "ticket", "connecting", "open", "closed"},
           at : Instances \cup {None}, token : BOOLEAN]
NoSocket == [state |-> "none", at |-> None, token |-> FALSE]

Registered(s, i) == sockets[s].at = i /\ sockets[s].state \in {"open", "closed"}

\* A run of _deliver_local: by the listener, or by a sending request itself.
Task == [at : Instances, msg : Messages, todo : SUBSET Sockets, listener : BOOLEAN]

\* "stored": send_message has committed; "starting": awaits start(); "raised":
\* the publish raised although Redis had the frame.
Send == [state : {"none", "stored", "starting", "done"}, at : Instances \cup {None}, raised : BOOLEAN]

\* A task's sockets are registered where it runs: it copies the registry, and a
\* socket that leaves the registry can no longer be sent to.
TypeOK ==
    /\ redis \in {"up", "down"}
    /\ link \in [Instances -> Link]
    /\ sockets \in [Sockets -> Socket]
    /\ channel \in [Instances -> SUBSET Messages]
    /\ tasks \subseteq Task
    /\ sends \in [Messages -> Send]
    /\ got \in [Messages -> [Sockets -> 0..2]]
    /\ restarts \in 0..MaxRestarts
    /\ \A t \in tasks : \A s \in t.todo : Registered(s, t.at)

Init ==
    /\ redis \in {"up", "down"}
    /\ link = [i \in Instances |-> "pinging"]
    /\ sockets = [s \in Sockets |-> NoSocket]
    /\ channel = [i \in Instances |-> {}]
    /\ tasks = {}
    /\ sends = [m \in Messages |-> [state |-> "none", at |-> None, raised |-> FALSE]]
    /\ got = [m \in Messages |-> [s \in Sockets |-> 0]]
    /\ restarts = 0

-----------------------------------------------------------------------------
(* The Redis link of an instance.                                            *)

IntervalPasses(i) ==
    /\ link[i] = "none"
    /\ link' = [link EXCEPT ![i] = "due"]
    /\ UNCHANGED <<redis, sockets, channel, tasks, sends, got, restarts>>

\* What start() returns to: the connects that awaited it go on to accept() and
\* register, the sends to publish.
Resume(i) ==
    /\ sockets' = [s \in Sockets |-> IF sockets[s].state = "connecting" /\ sockets[s].at = i
                                     THEN [sockets[s] EXCEPT !.state = "open"] ELSE sockets[s]]
    /\ sends' = [m \in Messages |-> IF sends[m].state = "starting" /\ sends[m].at = i
                                    THEN [sends[m] EXCEPT !.state = "stored"] ELSE sends[m]]

\* The ping is answered, and the listener task created, or it fails.
PingReturns(i) ==
    /\ link[i] = "pinging"
    /\ link' = [link EXCEPT ![i] = IF redis = "up" THEN "subscribing" ELSE "none"]
    /\ Resume(i)
    /\ UNCHANGED <<redis, channel, tasks, got, restarts>>

Subscribed(i) ==
    /\ link[i] = "subscribing"
    /\ redis = "up"
    /\ link' = [link EXCEPT ![i] = "listening"]
    /\ UNCHANGED <<redis, sockets, channel, tasks, sends, got, restarts>>

\* MUTANT: _on_listener_done logs but leaves _redis set
ListenerDiesSilently(i) ==
    /\ redis = "down"
    /\ link[i] \in {"subscribing", "listening"}
    /\ link' = [link EXCEPT ![i] = "deaf"]
    /\ channel' = [channel EXCEPT ![i] = {}]
    /\ UNCHANGED <<redis, sockets, tasks, sends, got, restarts>>

\* The listener's connection is gone and cannot be made again.
ListenerDies(i) ==
    /\ redis = "down"
    /\ link[i] \in {"subscribing", "listening"}
    /\ link' = [link EXCEPT ![i] = "none"]
    /\ channel' = [channel EXCEPT ![i] = {}]
    /\ UNCHANGED <<redis, sockets, tasks, sends, got, restarts>>

RedisFails ==
    /\ redis = "up"
    /\ redis' = "down"
    /\ UNCHANGED <<link, sockets, channel, tasks, sends, got, restarts>>

\* The frames Redis held are lost; a listener that outlived the outage
\* (the client library reconnects) subscribes again.
RedisReturns ==
    /\ redis = "down"
    /\ redis' = "up"
    /\ link' = [i \in Instances |-> IF link[i] = "listening" THEN "subscribing" ELSE link[i]]
    /\ channel' = [i \in Instances |-> {}]
    /\ UNCHANGED <<sockets, tasks, sends, got, restarts>>

-----------------------------------------------------------------------------
(* Sockets.                                                                  *)

CreateWsTicket(s) ==
    /\ sockets[s] = NoSocket
    /\ sockets' = [sockets EXCEPT ![s].state = "ticket", ![s].token = TRUE]
    /\ UNCHANGED <<redis, link, channel, tasks, sends, got, restarts>>

\* The access token the ticket was minted from expires, or the ticket does.
TokenExpires(s) ==
    /\ sockets[s].token
    /\ sockets' = [sockets EXCEPT ![s] = IF sockets[s].state = "ticket" THEN NoSocket
                                         ELSE [sockets[s] EXCEPT !.token = FALSE]]
    /\ UNCHANGED <<redis, link, channel, tasks, sends, got, restarts>>

\* consume_ws_ticket, then connect(): registers at once unless start() is due.
Connect(s, i) ==
    /\ sockets[s].state = "ticket"
    /\ IF link[i] = "due"
       THEN /\ link' = [link EXCEPT ![i] = "pinging"]
            /\ sockets' = [sockets EXCEPT ![s].state = "connecting", ![s].at = i]
       ELSE /\ sockets' = [sockets EXCEPT ![s].state = "open", ![s].at = i]
            /\ UNCHANGED link
    /\ got' = [m \in Messages |-> [got[m] EXCEPT ![s] = 0]]
    /\ UNCHANGED <<redis, channel, tasks, sends, restarts>>

\* close_on_expiry
CloseOnExpiry(s) ==
    /\ sockets[s].state = "open" /\ ~sockets[s].token
    /\ sockets' = [sockets EXCEPT ![s].state = "closed"]
    /\ UNCHANGED <<redis, link, channel, tasks, sends, got, restarts>>

PeerCloses(s) ==
    /\ sockets[s].state = "open"
    /\ sockets' = [sockets EXCEPT ![s].state = "closed"]
    /\ UNCHANGED <<redis, link, channel, tasks, sends, got, restarts>>

\* disconnect(): a send to it would raise and only remove it once more.
Leave(s) ==
    /\ sockets' = [sockets EXCEPT ![s] = NoSocket]
    /\ tasks' = {[t EXCEPT !.todo = @ \ {s}] : t \in tasks}

\* MUTANT: only the peer's disconnect, not the server's own close, is cleaned up
EndpointEndsByPeer(s) ==
    /\ sockets[s].state = "closed" /\ sockets[s].token
    /\ Leave(s)
    /\ UNCHANGED <<redis, link, channel, sends, got, restarts>>

\* The finally clause of websocket_endpoint.
EndpointEnds(s) ==
    /\ sockets[s].state = "closed"
    /\ Leave(s)
    /\ UNCHANGED <<redis, link, channel, sends, got, restarts>>

-----------------------------------------------------------------------------
(* Sending.                                                                  *)

\* The handler has committed and awaits send_to_user.
Store(m, i) ==
    /\ sends[m].state = "none"
    /\ sends' = [sends EXCEPT ![m] = [state |-> IF link[i] = "due" THEN "starting" ELSE "stored",
                                      at |-> i, raised |-> FALSE]]
    /\ link' = IF link[i] = "due" THEN [link EXCEPT ![i] = "pinging"] ELSE link
    /\ UNCHANGED <<redis, sockets, channel, tasks, got, restarts>>

\* A chat message, or the notice of a contract's change to its other party.
PushMessage(m, i) == Store(m, i)
NotifyParty(m, i) == Store(m, i)

Local(m, i, listener) == [at |-> i, msg |-> m, todo |-> {s \in Sockets : Registered(s, i)},
                          listener |-> listener]

Fanned(m) == [i \in Instances |-> IF link[i] = "listening" THEN channel[i] \cup {m} ELSE channel[i]]

\* MUTANT: the return after a successful publish is missing
PublishFallingThrough(m) ==
    LET i == sends[m].at IN
    /\ sends[m].state = "stored"
    /\ IF redis = "up" /\ link[i] \notin NoRedis THEN channel' = Fanned(m) ELSE UNCHANGED channel
    /\ tasks' = tasks \cup {Local(m, i, FALSE)}
    /\ sends' = [sends EXCEPT ![m].state = "done"]
    /\ UNCHANGED <<redis, link, sockets, got, restarts>>

\* MUTANT: a failed publish is logged and the frame dropped
PublishWithoutFallback(m) ==
    /\ sends[m].state = "stored"
    /\ IF redis = "up" /\ link[sends[m].at] \notin NoRedis
       THEN channel' = Fanned(m) ELSE UNCHANGED channel
    /\ sends' = [sends EXCEPT ![m].state = "done"]
    /\ UNCHANGED <<redis, link, sockets, tasks, got, restarts>>

\* The publish succeeds; or it raises, with or without the frame having reached
\* Redis, and the frame is delivered to the local sockets.
Publish(m) ==
    LET i == sends[m].at IN
    /\ sends[m].state = "stored"
    /\ \/ /\ redis = "up" /\ link[i] \notin NoRedis
          /\ channel' = Fanned(m)
          /\ \/ /\ UNCHANGED tasks
                /\ sends' = [sends EXCEPT ![m].state = "done"]
             \/ /\ tasks' = tasks \cup {Local(m, i, FALSE)}
                /\ sends' = [sends EXCEPT ![m].state = "done", ![m].raised = TRUE]
       \/ /\ redis = "down" \/ link[i] \in NoRedis
          /\ tasks' = tasks \cup {Local(m, i, FALSE)}
          /\ sends' = [sends EXCEPT ![m].state = "done"]
          /\ UNCHANGED channel
    /\ UNCHANGED <<redis, link, sockets, got, restarts>>

\* The listener reads a frame; it reads no other until it is delivered.
Receive(i, m) ==
    /\ link[i] = "listening"
    /\ m \in channel[i]
    /\ \A t \in tasks : ~(t.listener /\ t.at = i)
    /\ channel' = [channel EXCEPT ![i] = @ \ {m}]
    /\ tasks' = tasks \cup {Local(m, i, TRUE)}
    /\ UNCHANGED <<redis, link, sockets, sends, got, restarts>>

\* The next socket of _deliver_local: a dead one is disconnected instead.
DeliverTo(t, s) ==
    /\ s \in t.todo
    /\ IF sockets[s].state = "open"
       THEN /\ got' = [got EXCEPT ![t.msg][s] = @ + 1]
            /\ tasks' = (tasks \ {t}) \cup {[t EXCEPT !.todo = @ \ {s}]}
            /\ UNCHANGED sockets
       ELSE Leave(s) /\ UNCHANGED got
    /\ UNCHANGED <<redis, link, channel, sends, restarts>>

Delivered(t) ==
    /\ t.todo = {}
    /\ tasks' = tasks \ {t}
    /\ UNCHANGED <<redis, link, sockets, channel, sends, got, restarts>>

-----------------------------------------------------------------------------

\* The process stops and another takes its place: lifespan calls start().
Restart(i) ==
    /\ restarts < MaxRestarts
    /\ restarts' = restarts + 1
    /\ link' = [link EXCEPT ![i] = "pinging"]
    /\ sockets' = [s \in Sockets |-> IF sockets[s].at = i THEN NoSocket ELSE sockets[s]]
    /\ channel' = [channel EXCEPT ![i] = {}]
    /\ tasks' = {t \in tasks : t.at # i}
    /\ sends' = [m \in Messages |-> IF sends[m].at = i THEN [sends[m] EXCEPT !.state = "done"] ELSE sends[m]]
    /\ UNCHANGED <<redis, got>>

\* What an instance's event loop does by itself, sooner or later.
Loop(i) ==
    \/ PingReturns(i) \/ Subscribed(i)
    \/ \E m \in Messages : Receive(i, m)

Next ==
    \/ RedisFails \/ RedisReturns
    \/ \E i \in Instances : Loop(i) \/ IntervalPasses(i) \/ ListenerDies(i) \/ Restart(i)
    \/ \E s \in Sockets :
          \/ CreateWsTicket(s) \/ TokenExpires(s) \/ CloseOnExpiry(s) \/ PeerCloses(s) \/ EndpointEnds(s)
          \/ \E i \in Instances : Connect(s, i)
    \/ \E m \in Messages : Publish(m) \/ \E i \in Instances : PushMessage(m, i) \/ NotifyParty(m, i)
    \/ \E t \in tasks : Delivered(t) \/ \E s \in Sockets : DeliverTo(t, s)

\* The event loops keep running and the clock advances; sockets, tokens, Redis
\* and senders do as they please.
Fairness ==
    /\ \A i \in Instances : WF_vars(Loop(i)) /\ WF_vars(IntervalPasses(i))
    /\ \A s \in Sockets : WF_vars(CloseOnExpiry(s)) /\ WF_vars(EndpointEnds(s))
    /\ \A m \in Messages : WF_vars(Publish(m))
    /\ WF_vars(\E t \in tasks : Delivered(t) \/ \E s \in Sockets : DeliverTo(t, s))

Spec == Init /\ [][Next]_vars /\ Fairness

-----------------------------------------------------------------------------
(* Properties.                                                               *)

\* A socket gets a frame once, unless the publish raised after Redis had it:
\* ws_manager.py:128-132 returns when, and only when, nothing is left to do.
OneCopy ==
    \A m \in Messages, s \in Sockets : got[m][s] <= IF sends[m].raised THEN 2 ELSE 1

\* messaging/router.py:98 "The socket is closed when the access token that minted
\* the ticket expires": such a socket, and one that has closed, leaves the registry.
SocketsLeave ==
    \A s \in Sockets :
        (sockets[s].state = "open" /\ ~sockets[s].token) \/ sockets[s].state = "closed"
            ~> sockets[s] = NoSocket

\* An attempt to use the link: what makes the manager try again.
Touch(i) == (\E s \in Sockets : Connect(s, i)) \/ (\E m \in Messages : Store(m, i))

\* ws_manager.py:28-29: with Redis back for good, an instance that keeps serving
\* connects or sends listens again, for good.  One that only holds sockets may not.
ListenerRecovers ==
    \A i \in Instances :
        <>[](redis = "up") /\ []<><<Touch(i)>>_vars => <>[](link[i] = "listening")

\* ws_manager.py:3-10: a frame that reached an instance's listener gets to the
\* sockets open there; one sent while Redis is unreachable, to those of the
\* sender's instance - unless the socket closes, the process stops or the link changes.
LiveDelivery ==
    \A m \in Messages, s \in Sockets, i \in Instances :
        /\ m \in channel[i] /\ Registered(s, i)
             ~> got[m][s] > 0 \/ sockets[s].state # "open" \/ link[i] # "listening"
        /\ sends[m].state \in {"stored", "starting"} /\ sends[m].at = i /\ Registered(s, i) /\ redis = "down"
             ~> got[m][s] > 0 \/ sockets[s].state # "open" \/ redis = "up" \/ link[i] = "pinging"
=============================================================================
