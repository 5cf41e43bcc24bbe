------------------------------ MODULE ApiServer ------------------------------
(***************************************************************************)
(* The API servers of the node, from start to stop.                        *)
(*                                                                         *)
(* The HTTP server runs on a blocking thread with a runtime of its own and *)
(* answers the requests of Web3Api; the WebSocket server of the pubsub     *)
(* component serves subscriptions.  The two share the stop signal, which   *)
(* module Node gives, and the replica pool: the WebSocket server has a     *)
(* connection while it starts and while its notifier polls, and waits for  *)
(* nothing with it, so that is left out.  jsonrpsee, hyper and tokio are   *)
(* external: a stopped server closes its subscriptions and lets the        *)
(* requests in flight finish.                                              *)
(***************************************************************************)
EXTENDS Web3Api

CONSTANTS
    Subscriber,        \* the subscription requests, each made once
    Topic,             \* what they ask for
    ChannelCapacity,   \* BROADCAST_CHANNEL_CAPACITY
    MaxProofs          \* bound: proofs published

VARIABLES
    node,        \* where main is; the stop signal is sent when it leaves "running"
    http,        \* the task of the HTTP server, "none" if there is none
    ws,          \* the task of the WebSocket server, "none" if there is none
    health,      \* what each server's health check reports
    published,   \* proofs sent to the broadcast channel
    subs         \* the subscriptions

serverVars == << node, http, ws, health >>
pubsubVars == << published, subs >>
netVars == << apiVars, serverVars, pubsubVars >>

-----------------------------------------------------------------------------
(* Tasks of the servers. *)

StopSent == node \notin {"init", "running"}

\* HealthUpdater::update
UpdateHealth(c, status) == health' = [health EXCEPT ![c] = status]

\* The end of a health updater, with the task or thread that owns it.
DropUpdater(c, panicking) == UpdateHealth(c, IF panicking THEN "Panicked" ELSE "ShutDown")

\* The server is built, or cannot bind its address and panics.
StartHttp ==
    /\ http = "starting"
    /\ \/ http' = "serving" /\ UpdateHealth("HttpApi", "Ready")
       \/ http' = "ended" /\ DropUpdater("HttpApi", TRUE)
    /\ UNCHANGED << apiVars, pubsubVars, node, ws >>

\* The spawned task of run_rpc_server: it closes the limiter and then the
\* server.
StopHttp ==
    /\ http = "serving" /\ StopSent
    /\ closed' = TRUE
    /\ http' = "stopping"
    /\ UNCHANGED << dbVars, req, pubsubVars, node, ws, health >>

\* server_handle.stopped(): no request is in flight; the health updater goes,
\* wait_for_vm finds all permits returned, and the blocking task ends.
HttpStopped ==
    /\ http = "stopping" /\ \A c \in Client : ~InFlight(c)
    /\ http' = "ended"
    /\ DropUpdater("HttpApi", FALSE)
    /\ UNCHANGED << apiVars, pubsubVars, node, ws >>

\* run_jsonrpsee_server: it waits for the first L1 batch, unless the stop
\* signal is already there, and ends early on an error; the genesis batch is
\* always there.
StartWs ==
    /\ ws = "starting"
    /\ \/ /\ ~StopSent
          /\ ws' = "serving" /\ UpdateHealth("PubsubApi", "Ready")
       \/ ws' = "ended" /\ DropUpdater("PubsubApi", FALSE)
    /\ UNCHANGED << apiVars, pubsubVars, node, http >>

\* The stop task of run_jsonrpsee_server; no VM ever runs behind this
\* server, so its limiter is at once quiet.
StopWs ==
    /\ ws = "serving" /\ StopSent
    /\ ws' = "stopping"
    /\ UNCHANGED << apiVars, pubsubVars, node, http, health >>

WsStopped ==
    /\ ws = "stopping" /\ \A s \in Subscriber : subs[s].pc \in {"idle", "ended"}
    /\ ws' = "ended"
    /\ DropUpdater("PubsubApi", FALSE)
    /\ UNCHANGED << apiVars, pubsubVars, node, http >>

-----------------------------------------------------------------------------
(* Subscriptions. *)

NewSubscription == [pc |-> "idle", topic |-> NONE, next |-> NONE, seen |-> << >>]

Become_sub(s, r) == subs' = [subs EXCEPT ![s] = r]

End(s) == [subs[s] EXCEPT !.pc = "ended", !.next = NONE]

\* notify_l1_batch_proofs: the only notifier that is spawned.
Notify ==
    /\ ws # "none" /\ ~StopSent
    /\ published < MaxProofs
    /\ published' = published + 1
    /\ UNCHANGED << apiVars, serverVars, subs >>

\* Topics that sub refuses: unknown ones, and logs with too many topics.
Rejected(topic) == topic \in {"unknown", "logsOverLimit"}

\* sub, up to the acceptance, which fails when the client is gone.
Subscribe(s) ==
    /\ ws = "serving" /\ subs[s].pc = "idle"
    /\ \E t \in Topic :
          \/ Become_sub(s, [NewSubscription EXCEPT !.topic = t,
                !.pc = IF Rejected(t) THEN "ended" ELSE "accepted"])
          \/ Become_sub(s, [NewSubscription EXCEPT !.topic = t, !.pc = "ended"])
    /\ UNCHANGED << apiVars, serverVars, published >>

\* The rest of sub: the receiver sees what is sent from now on; "syncing"
\* gets one message and is over.
Attach(s) ==
    /\ subs[s].pc = "accepted"
    /\ Become_sub(s, IF subs[s].topic = "syncing"
                     THEN [End(s) EXCEPT !.seen = << "false" >>]
                     ELSE [subs[s] EXCEPT !.pc = "receiving", !.next = published + 1])
    /\ UNCHANGED << apiVars, serverVars, published >>

Oldest == published - ChannelCapacity + 1

\* Mutant: a subscriber that lags goes on with the oldest message there is.
Recv_Skips(s) ==
    LET item == IF subs[s].next < Oldest THEN Oldest ELSE subs[s].next
    IN  [subs[s] EXCEPT !.next = item + 1, !.seen = Append(@, item)]

\* A message from the channel is sent to the client; a message that was
\* overwritten ends the subscription.
Recv(s) ==
    IF subs[s].next < Oldest THEN End(s)
    ELSE [subs[s] EXCEPT !.next = @ + 1, !.seen = Append(@, subs[s].next)]

\* run_subscriber; only the proofs' channel ever has a message.
RunSubscriber(s) ==
    /\ subs[s].pc = "receiving"
    /\ subs[s].topic = "l1_batch_proofs" /\ subs[s].next <= published
    /\ Become_sub(s, Recv(s))
    /\ UNCHANGED << apiVars, serverVars, published >>

\* The send timed out, or the sink is closed by the client or the server.
Unsubscribe(s) ==
    /\ subs[s].pc = "receiving"
    /\ Become_sub(s, End(s))
    /\ UNCHANGED << apiVars, serverVars, published >>

-----------------------------------------------------------------------------
ServersInit ==
    /\ ApiInit
    /\ http = "none" /\ ws = "none"
    /\ health = [c \in {"HttpApi", "PubsubApi"} |-> "NotReady"]
    /\ published = 0
    /\ subs = [s \in Subscriber |-> NewSubscription]

\* The tables are followed as long as the HTTP server is there to read them.
Environment ==
    /\ http \in {"starting", "serving", "stopping"}
    /\ OtherSubmits \/ Purge \/ SealMiniblock \/ RejectTx
    /\ UNCHANGED << serverVars, pubsubVars >>

Accept(c) == http = "serving" /\ Receive(c) /\ UNCHANGED << serverVars, pubsubVars >>
Handle(c) == Proceed(c) /\ UNCHANGED << serverVars, pubsubVars >>
Drop(c) == Abort(c) /\ UNCHANGED << serverVars, pubsubVars >>

Serve == StartHttp \/ StopHttp \/ HttpStopped \/ StartWs \/ StopWs \/ WsStopped

\* The sink of every subscription is closed when the server stops.
CloseSinks(s) == ws = "stopping" /\ Unsubscribe(s)

Servers ==
    \/ Environment \/ Serve \/ Notify
    \/ \E c \in Client : Accept(c) \/ Handle(c) \/ Drop(c)
    \/ \E s \in Subscriber : Subscribe(s) \/ Attach(s) \/ RunSubscriber(s) \/ Unsubscribe(s)

-----------------------------------------------------------------------------
(* Properties. *)

\* A client sees the proofs without a gap: a subscriber that fell behind the
\* broadcast channel is dropped, never silently moved forward
\* (run_subscriber).
SubscriberSeesNoGap ==
    \A s \in Subscriber :
        subs[s].topic = "l1_batch_proofs" =>
            \A i \in 1 .. Len(subs[s].seen) - 1 : subs[s].seen[i + 1] = subs[s].seen[i] + 1

\* Every request is answered or dropped: handlers that wait for a permit with
\* a connection or for a connection with a permit never wait for each other,
\* also while the server stops.
RequestsAreAnswered == \A c \in Client : InFlight(c) ~> ~InFlight(c)
=============================================================================
