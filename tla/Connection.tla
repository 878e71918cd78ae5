----------------------------- MODULE Connection -----------------------------
(***************************************************************************)
(* The life of connections on one node: handshake, cluster, one shard with *)
(* its miot, the flusher, and the application that closes the node.  A     *)
(* thread serves its control channel in batches and makes blocking         *)
(* requests to others on the way, so each handler is split at its          *)
(* requests.  What happens inside an MQTT session or socket is left to     *)
(* other modules: here a connection may fail at any time, and the code of  *)
(* the sockets, of a shard's round and of retained messages may panic.     *)
(*                                                                         *)
(* A panic of the cluster or shard thread that drops a Thread which has    *)
(* not been waited for panics again in Thread::drop: the process aborts.   *)
(***************************************************************************)
EXTENDS Integers, Sequences, Functions

CONSTANTS Arrivals,       \* TCP connections, in the order in which handshakes end
          Clients,
          ClientId,       \* the client-id in the CONNECT of each connection
          None,
          Batch,          \* CONTROL_CHAN_SIZE, as the threads that poll use it
          Flushers        \* what shards hold of the flusher, and its CONTROL_CHAN_SIZE

Conns == Range(Arrivals)

\* What a blocked thread finds: the answer without a socket, or nothing yet.
Ok == "Ok"
NoResp == "none"

ASSUME ConnectionSizes == /\ ClientId \in [Conns -> Clients]
                          /\ {None, Ok, NoResp} \cap Conns = {}
                          /\ Batch \in Nat
                          /\ Flushers \subseteq [inner : {"Handle", "Tx"}, max : Nat]

VARIABLES aborted,        \* the process has aborted
          app,            \* the thread that closes the cluster
          listener,
          hs,             \* the handshake thread of each connection
          cpc, cchan, cbatch, cinner,     \* cluster
          spc, schan, sbatch, sfull, sinner, sessions, failed, served,   \* shard
          mpc, mreq, conns, woken,        \* miot
          fpc, fchan, fbatch, flusher,    \* flusher
          resp,           \* the response each blocked thread waits for
          broken          \* connections that have failed and are not yet removed for it

cluster == <<cpc, cchan, cbatch, cinner>>
shard == <<spc, schan, sbatch, sfull, sinner, sessions, failed, served>>
miot == <<mpc, mreq, conns, woken>>
flush == <<fpc, fchan, fbatch, flusher>>
clients == <<app, listener, hs, broken>>
vars == <<aborted, clients, cluster, shard, miot, flush, resp>>

Add(c) == [op |-> "add", conn |-> c]
Flush(c) == [op |-> "flush", conn |-> c]
Remove(k) == [op |-> "remove", client |-> k]
Close == [op |-> "close"]

\* Whether the receiver of a thread's control channel still exists.
Open(pc) == pc \notin {"exit", "panic"}

Init == /\ aborted = FALSE
        /\ app = "running" /\ listener = "run"
        /\ hs = [c \in Conns |-> "new"]
        /\ cpc = "poll" /\ cchan = <<>> /\ cbatch = <<>> /\ cinner = "Main"
        /\ spc = "drain" /\ schan = <<>> /\ sbatch = <<>> /\ sfull = FALSE
        /\ sinner = "Main" /\ sessions = [k \in Clients |-> None] /\ failed = {}
        /\ served = FALSE
        /\ mpc = "poll" /\ mreq = <<>> /\ conns = [k \in Clients |-> None] /\ woken = FALSE
        /\ fpc = "run" /\ fchan = <<>> /\ fbatch = <<>>
        /\ flusher \in Flushers
        /\ resp = [t \in {"cluster", "shard"} |-> NoResp]
        /\ broken = {}

\* The unwinding of a panic reaches a Thread that was not waited for.
Abort == /\ aborted' = TRUE
         /\ UNCHANGED <<clients, cluster, shard, miot, flush, resp>>

\* pending_requests: a batch of at most Batch + 1 requests.
Taken(chan) == SubSeq(chan, 1, IF Len(chan) <= Batch THEN Len(chan) ELSE Batch + 1)
Left(chan) == SubSeq(chan, Len(Taken(chan)) + 1, Len(chan))
-----------------------------------------------------------------------------
(* Listener, handshake and application.                                    *)

\* accept_conn starts a handshake thread and drops its Thread, which panics with
\* the first connection.  The other outcome stands for a node whose connections
\* arrive in another way.
Accept == /\ listener = "run"
          /\ \E i \in DOMAIN Arrivals :
                 /\ \A j \in DOMAIN Arrivals : hs[Arrivals[j]] = "new" <=> j >= i
                 /\ hs' = [hs EXCEPT ![Arrivals[i]] = "reading"]
                 /\ listener' = "run" \/ (i = 1 /\ listener' = "panic")
          /\ UNCHANGED <<aborted, app, broken, cluster, shard, miot, flush, resp>>

\* c is the next connection whose handshake ends.
Reads(c) == \E i \in DOMAIN Arrivals :
                /\ c = Arrivals[i] /\ hs[c] = "reading"
                /\ \A j \in 1..i - 1 : hs[Arrivals[j]] # "reading"

\* Anything but a CONNECT in time: refused with a CONNACK, or given up.
Refuse(c) == /\ Reads(c)
             /\ hs' = [hs EXCEPT ![c] = "done"]
             /\ UNCHANGED <<aborted, app, listener, broken, cluster, shard, miot, flush, resp>>

\* A CONNECT: cluster.add_connection, whose error is ignored.
Connect(c) == /\ Reads(c)
              /\ IF Open(cpc)
                 THEN /\ cchan' = Append(cchan, Add(c))
                      /\ hs' = [hs EXCEPT ![c] = "waiting"]
                 ELSE /\ hs' = [hs EXCEPT ![c] = "done"]
                      /\ UNCHANGED cchan
              /\ UNCHANGED <<aborted, app, listener, broken, cpc, cbatch, cinner, shard, miot,
                             flush, resp>>

\* The cluster thread is gone, and the request with it.
ConnectFails(c) == /\ hs[c] = "waiting"
                   /\ ~Open(cpc)
                   /\ hs' = [hs EXCEPT ![c] = "done"]
                   /\ UNCHANGED <<aborted, app, listener, broken, cluster, shard, miot, flush, resp>>

\* The client closes the connection or violates the protocol, or a time-out
\* strikes.  It may be an event of the socket, which wakes the miot.
Break(c) == /\ conns[ClientId[c]] = c
            /\ c \notin broken
            /\ broken' = broken \cup {c}
            /\ woken' \in {woken, TRUE}
            /\ UNCHANGED <<aborted, app, listener, hs, cluster, shard, mpc, mreq, conns, flush,
                           resp>>

\* Cluster::close_wait: a Close request, then the cluster thread is joined.
AppClose == /\ app = "running"
            /\ app' = "closing"
            /\ cchan' = IF Open(cpc) THEN Append(cchan, Close) ELSE cchan
            /\ UNCHANGED <<aborted, listener, hs, broken, cpc, cbatch, cinner, shard, miot,
                           flush, resp>>

AppJoin == /\ app = "closing"
           /\ ~Open(cpc)
           /\ app' = IF cpc = "panic" THEN "panic" ELSE "closed"
           /\ UNCHANGED <<aborted, listener, hs, broken, cluster, shard, miot, flush, resp>>
-----------------------------------------------------------------------------
(* Cluster.                                                                *)

ClusterDrain == /\ cpc = "poll" /\ cchan # <<>>
                /\ cpc' = "handle"
                /\ cbatch' = Taken(cchan) /\ cchan' = Left(cchan)
                /\ UNCHANGED <<aborted, clients, cinner, shard, miot, flush, resp>>

ClusterDone == /\ cpc = "handle" /\ cbatch = <<>>
               /\ cpc' = IF cinner = "Close" THEN "exit" ELSE "poll"
               /\ UNCHANGED <<aborted, clients, cchan, cbatch, cinner, shard, miot, flush, resp>>

\* handle_add_connection, up to its request to the shard.  After a Close in the
\* same batch it is unreachable!(); all threads have been joined by then.
ClusterAdd ==
    /\ cpc = "handle" /\ cbatch # <<>>
    /\ Head(cbatch).op = "add"
    /\ \/ /\ cinner = "Close"
          /\ cpc' = "panic"
          /\ UNCHANGED <<aborted, schan>>
       \/ /\ cinner = "Main" /\ Open(spc)
          /\ schan' = Append(schan, Head(cbatch))
          /\ cpc' = "add"
          /\ UNCHANGED aborted
       \/ /\ cinner = "Main" /\ ~Open(spc)
          /\ aborted' = TRUE
          /\ UNCHANGED <<cpc, schan>>
    /\ UNCHANGED <<clients, cchan, cbatch, cinner, spc, sbatch, sfull, sinner, sessions, failed,
                   served, miot, flush, resp>>

ClusterAdded == /\ cpc = "add" /\ resp["cluster"] = Ok
                /\ resp' = [resp EXCEPT !["cluster"] = NoResp]
                /\ hs' = [hs EXCEPT ![Head(cbatch).conn] = "done"]
                /\ cbatch' = Tail(cbatch)
                /\ cpc' = "handle"
                /\ UNCHANGED <<aborted, app, listener, broken, cchan, cinner, shard, miot, flush>>

\* handle_close: the shard, the listener and the ticker, the flusher, one after
\* the other.  A response that is missing, or a thread that has panicked, is a
\* panic here as well; only the last one finds no Thread left to drop.  A second
\* Close would be answered at once, but there is none: close_wait consumes the
\* Cluster.
ClusterClose ==
    /\ cpc = "handle" /\ cbatch # <<>> /\ cinner = "Main"
    /\ Head(cbatch) = Close
    /\ IF Open(spc)
       THEN /\ schan' = Append(schan, Close)
            /\ cpc' = "close shard"
            /\ UNCHANGED aborted
       ELSE /\ aborted' = TRUE
            /\ UNCHANGED <<cpc, schan>>
    /\ UNCHANGED <<clients, cchan, cbatch, cinner, spc, sbatch, sfull, sinner, sessions, failed,
                   served, miot, flush, resp>>

ClusterShardJoined ==
    /\ cpc = "close shard" /\ resp["cluster"] = Ok
    /\ spc = "exit"
    /\ resp' = [resp EXCEPT !["cluster"] = NoResp]
    /\ cpc' = "close listener"
    /\ UNCHANGED <<aborted, clients, cchan, cbatch, cinner, shard, miot, flush>>

ClusterListenerJoined ==
    /\ cpc = "close listener" /\ listener = "run"
    /\ listener' = "exit"
    /\ cpc' = "close flusher"
    /\ fchan' = IF Open(fpc) THEN Append(fchan, Close) ELSE fchan
    /\ UNCHANGED <<aborted, app, hs, broken, cchan, cbatch, cinner, shard, miot, fpc,
                   fbatch, flusher, resp>>

ClusterFlusherJoined ==
    /\ cpc = "close flusher" /\ ~Open(fpc)
    /\ resp' = [resp EXCEPT !["cluster"] = NoResp]
    /\ cpc' = IF fpc = "exit" THEN "handle" ELSE "panic"
    /\ cinner' = "Close"
    /\ cbatch' = Tail(cbatch)
    /\ UNCHANGED <<aborted, clients, cchan, shard, miot, flush>>

\* The shard has panicked instead of answering, or after it.
ClusterFails == /\ \/ cpc \in {"add", "close shard"} /\ spc = "panic"
                   \/ cpc = "close listener" /\ listener = "panic"
                /\ Abort

\* retain_expires, whenever the thread has been woken: gc is unreachable!() for a
\* retained message that is to expire (GcPanics in Retain).  So is the request
\* to retain a message behind a Close, when no Thread is left.
ClusterPanics == /\ served
                 /\ \/ cpc = "poll" /\ aborted' = TRUE
                    \/ cpc = "handle" /\ cinner = "Close" /\ UNCHANGED aborted
                 /\ cpc' = "panic"
                 /\ UNCHANGED <<clients, cchan, cbatch, cinner, shard, miot, flush, resp>>
-----------------------------------------------------------------------------
(* Shard.                                                                  *)

\* drain_control_chan until a batch is not full, then the round of the sessions.
ShardDrain == /\ spc = "drain"
              /\ sbatch' = Taken(schan) /\ schan' = Left(schan)
              /\ sfull' = (Len(Taken(schan)) = Batch + 1)
              /\ spc' = IF schan = <<>> THEN "round" ELSE "handle"
              /\ UNCHANGED <<aborted, clients, cluster, sinner, sessions, failed, served, miot,
                             flush, resp>>

\* Mutant of ShardDone: a batch that is not full is taken for the end.
ShardDoneExits == /\ spc = "handle" /\ sbatch = <<>>
                  /\ spc' = IF sfull THEN "drain" ELSE "exit"
                  /\ sfull' = FALSE
                  /\ UNCHANGED <<aborted, clients, cluster, schan, sbatch, sinner, sessions,
                                 failed, served, miot, flush, resp>>

ShardDone == /\ spc = "handle" /\ sbatch = <<>>
             /\ spc' = IF sinner = "Close" THEN "exit" ELSE IF sfull THEN "drain" ELSE "round"
             /\ sfull' = FALSE
             /\ UNCHANGED <<aborted, clients, cluster, schan, sbatch, sinner, sessions, failed,
                            served, miot, flush, resp>>

\* A request to the miot thread.  An error is a panic, and the shard holds the
\* Thread of the miot.
RequestMiot(req, wait) ==
    IF Open(mpc)
    THEN /\ mreq' = <<req>> /\ woken' = TRUE
         /\ spc' = wait
         /\ UNCHANGED aborted
    ELSE /\ aborted' = TRUE
         /\ UNCHANGED <<mreq, woken, spc>>

\* flusher.flush_connection: unreachable!() for the Tx that Cluster::spawn
\* hands to its shards.
RequestFlusher(c, wait) ==
    IF flusher.inner = "Handle" /\ Open(fpc)
    THEN /\ fchan' = Append(fchan, Flush(c))
         /\ spc' = wait
         /\ UNCHANGED aborted
    ELSE /\ aborted' = TRUE
         /\ UNCHANGED <<fchan, spc>>

\* A request that follows a Close in its batch: unreachable!().  The miot thread
\* has been joined, so that this panic only ends the thread.
ShardClosed == /\ spc = "handle" /\ sbatch # <<>>
               /\ sinner = "Close"
               /\ spc' = "panic"
               /\ UNCHANGED <<aborted, clients, cluster, schan, sbatch, sfull, sinner, sessions,
                              failed, served, miot, flush, resp>>

\* Mutant of ShardAdd: a session is only replaced.
ShardAddReplaces ==
    /\ spc = "handle" /\ sbatch # <<>> /\ sinner = "Main"
    /\ Head(sbatch).op = "add"
    /\ RequestMiot(Head(sbatch), "add")
    /\ UNCHANGED <<clients, cluster, schan, sbatch, sfull, sinner, sessions, failed, served,
                   mpc, conns, flush, resp>>

\* handle_add_session: the CONNACK goes into the new and empty queue.  An
\* existing session of the client is closed, and its connection asked for.
ShardAdd ==
    /\ spc = "handle" /\ sbatch # <<>> /\ sinner = "Main"
    /\ Head(sbatch).op = "add"
    /\ LET k == ClientId[Head(sbatch).conn]
       IN /\ sessions' = [sessions EXCEPT ![k] = None]
          /\ IF sessions[k] # None
             THEN RequestMiot(Remove(k), "take over")
             ELSE RequestMiot(Head(sbatch), "add")
    /\ UNCHANGED <<clients, cluster, schan, sbatch, sfull, sinner, failed, served, mpc, conns,
                   flush, resp>>

\* The old connection is flushed, ...
ShardTakeOver == /\ spc = "take over" /\ resp["shard"] \in Conns
                 /\ resp' = [resp EXCEPT !["shard"] = NoResp]
                 /\ RequestFlusher(resp["shard"], "taken over")
                 /\ UNCHANGED <<clients, cluster, schan, sbatch, sfull, sinner, sessions, failed,
                                served, miot, fpc, fbatch, flusher>>

\* ... unless the miot has removed it meanwhile.  Then the new one is added.
ShardTakenOver == /\ spc \in {"take over", "taken over"} /\ resp["shard"] = Ok
                  /\ resp' = [resp EXCEPT !["shard"] = NoResp]
                  /\ RequestMiot(Head(sbatch), "add")
                  /\ UNCHANGED <<clients, cluster, schan, sbatch, sfull, sinner, sessions, failed,
                                 served, mpc, conns, flush>>

ShardAdded == /\ spc = "add" /\ resp["shard"] = Ok
              /\ sessions' = [sessions EXCEPT ![ClientId[Head(sbatch).conn]] = Head(sbatch).conn]
              /\ resp' = [resp EXCEPT !["shard"] = NoResp, !["cluster"] = Ok]
              /\ sbatch' = Tail(sbatch)
              /\ spc' = "handle"
              /\ UNCHANGED <<aborted, clients, cluster, schan, sfull, sinner, failed, served, miot,
                             flush>>

\* Mutant of handle_flush_connection: the session stays.
handle_flush_keeps(c, wait) ==
    /\ sessions' = sessions
    /\ RequestFlusher(c, wait)

\* handle_flush_connection: the session of that client-id, whichever connection
\* it belongs to, is removed.
handle_flush_connection(c, wait) ==
    /\ sessions' = [sessions EXCEPT ![ClientId[c]] = None]
    /\ RequestFlusher(c, wait)

ShardFlush == /\ spc = "handle" /\ sbatch # <<>> /\ sinner = "Main"
              /\ Head(sbatch).op = "flush"
              /\ handle_flush_connection(Head(sbatch).conn, "flush")
              /\ UNCHANGED <<clients, cluster, schan, sbatch, sfull, sinner, failed, served, miot,
                             fpc, fbatch, flusher, resp>>

ShardFlushed == /\ spc = "flush" /\ resp["shard"] = Ok
                /\ resp' = [resp EXCEPT !["shard"] = NoResp]
                /\ sbatch' = Tail(sbatch)
                /\ spc' = "handle"
                /\ UNCHANGED <<aborted, clients, cluster, schan, sfull, sinner, sessions, failed,
                               served, miot, flush>>

\* handle_close: the miot thread is closed and joined, the sessions end.
ShardClose == /\ spc = "handle" /\ sbatch # <<>> /\ sinner = "Main"
              /\ Head(sbatch) = Close
              /\ RequestMiot(Close, "close")
              /\ UNCHANGED <<clients, cluster, schan, sbatch, sfull, sinner, sessions, failed,
                             served, mpc, conns, flush, resp>>

ShardMiotJoined == /\ spc = "close" /\ resp["shard"] = Ok
                   /\ mpc = "exit"
                   /\ resp' = [resp EXCEPT !["shard"] = NoResp, !["cluster"] = Ok]
                   /\ sessions' = [k \in Clients |-> None]
                   /\ sinner' = "Close"
                   /\ sbatch' = Tail(sbatch)
                   /\ spc' = "handle"
                   /\ UNCHANGED <<aborted, clients, cluster, schan, sfull, failed, served, miot,
                                  flush>>

\* route_packets and in_messages find out which sessions have failed, ...
ShardRound == /\ spc = "round"
              /\ failed' \in SUBSET {k \in Clients : sessions[k] \in broken}
              /\ served' = (served \/ \E k \in Clients : sessions[k] # None)
              /\ spc' = "failed"
              /\ UNCHANGED <<aborted, clients, cluster, schan, sbatch, sfull, sinner, sessions,
                             miot, flush, resp>>

\* ... take their connections from the miot, and flush them.
ShardFail(k) == /\ spc = "failed" /\ k \in failed
                /\ failed' = failed \ {k}
                /\ RequestMiot(Remove(k), "failing")
                /\ UNCHANGED <<clients, cluster, schan, sbatch, sfull, sinner, sessions, served,
                               mpc, conns, flush, resp>>

ShardFailRemoved == /\ spc = "failing" /\ resp["shard"] \in Conns
                    /\ resp' = [resp EXCEPT !["shard"] = NoResp]
                    /\ handle_flush_connection(resp["shard"], "failing")
                    /\ UNCHANGED <<clients, cluster, schan, sbatch, sfull, sinner, failed, served,
                                   miot, fpc, fbatch, flusher>>

ShardFailed == /\ spc = "failing" /\ resp["shard"] = Ok
               /\ resp' = [resp EXCEPT !["shard"] = NoResp]
               /\ spc' = "failed"
               /\ UNCHANGED <<aborted, clients, cluster, schan, sbatch, sfull, sinner, sessions,
                              failed, served, miot, flush>>

\* The end of a round wakes the miot.  The next one begins at the latest when the
\* ticker wakes the shard.
ShardRoundDone == /\ spc = "failed" /\ failed = {}
                  /\ woken' = TRUE
                  /\ spc' = "drain"
                  /\ UNCHANGED <<aborted, clients, cluster, schan, sbatch, sfull, sinner, sessions,
                                 failed, served, mpc, mreq, conns, flush, resp>>

\* What sessions and their messages reach in a round: the sessions' todo!()s and the
\* shard that is moved away while they use it (route_packets), a LocalAck that
\* was not booked (in_messages), a packet that is released (clear_unacks), and
\* retry_publish.  The thread panics, with the Thread of the miot to drop.
ShardPanics == /\ spc \in {"round", "failed"}
               /\ served \/ \E k \in Clients : sessions[k] # None
               /\ spc' = "panic"
               /\ aborted' = TRUE
               /\ UNCHANGED <<clients, cluster, schan, sbatch, sfull, sinner, sessions, failed,
                              served, miot, flush, resp>>

\* A thread that the shard waits for has panicked.
ShardFails == /\ resp["shard"] = NoResp
              /\ \/ mreq # <<>> /\ mpc = "panic"
                 \/ /\ mreq = <<>> /\ fpc = "panic"
                    /\ spc \in {"taken over", "flush", "failing"}
              /\ Abort
-----------------------------------------------------------------------------
(* Miot and flusher.                                                       *)

Respond(t, value) == resp' = [resp EXCEPT ![t] = value]

\* handle_add_connection replaces what there is, without a word.
MiotAdd == /\ mpc = "poll" /\ mreq # <<>>
           /\ mreq[1].op = "add"
           /\ conns' = [conns EXCEPT ![ClientId[mreq[1].conn]] = mreq[1].conn]
           /\ mreq' = <<>>
           /\ Respond("shard", Ok)
           /\ UNCHANGED <<aborted, app, listener, hs, broken, cluster, shard, mpc, woken, flush>>

\* Mutants of MiotRemove: None is returned as a socket; or nothing is answered.
MiotRemoveNone == /\ mpc = "poll" /\ mreq # <<>>
                  /\ mreq[1].op = "remove"
                  /\ conns' = [conns EXCEPT ![mreq[1].client] = None]
                  /\ Respond("shard", conns[mreq[1].client])
                  /\ mreq' = <<>>
                  /\ UNCHANGED <<aborted, clients, cluster, shard, mpc, woken, flush>>

MiotRemoveSilent == /\ mpc = "poll" /\ mreq # <<>>
                    /\ mreq[1].op = "remove"
                    /\ LET k == mreq[1].client
                       IN /\ conns' = [conns EXCEPT ![k] = None]
                          /\ Respond("shard", IF conns[k] = None THEN NoResp ELSE conns[k])
                    /\ mreq' = <<>>
                    /\ UNCHANGED <<aborted, clients, cluster, shard, mpc, woken, flush>>

MiotRemove == /\ mpc = "poll" /\ mreq # <<>>
              /\ mreq[1].op = "remove"
              /\ LET k == mreq[1].client
                 IN /\ conns' = [conns EXCEPT ![k] = None]
                    /\ Respond("shard", IF conns[k] = None THEN Ok ELSE conns[k])
              /\ mreq' = <<>>
              /\ UNCHANGED <<aborted, clients, cluster, shard, mpc, woken, flush>>

MiotClose == /\ mpc = "poll" /\ mreq # <<>>
             /\ mreq[1] = Close
             /\ conns' = [k \in Clients |-> None]
             /\ mreq' = <<>>
             /\ mpc' = "exit"
             /\ Respond("shard", Ok)
             /\ UNCHANGED <<aborted, app, listener, hs, broken, cluster, shard, woken, flush>>

\* Connections of the miot whose session has ended: its ends of their packet
\* queues are gone.
Orphans == {c \in Conns : /\ conns[ClientId[c]] = c
                          /\ sessions[ClientId[c]] # c
                          /\ ~(spc = "add" /\ Head(sbatch).conn = c)}

\* socket_to_session and session_to_socket, after a wake-up: a connection that
\* fails is removed and posted to the shard.
MiotFail(c) == /\ mpc = "poll" /\ woken
               /\ conns[ClientId[c]] = c
               /\ c \in broken \cup Orphans
               /\ conns' = [conns EXCEPT ![ClientId[c]] = None]
               /\ schan' = Append(schan, Flush(c))
               /\ UNCHANGED <<aborted, clients, cluster, spc, sbatch, sfull, sinner, sessions,
                              failed, served, mpc, mreq, woken, flush, resp>>

\* Back to poll, without a time-out.  A session that ends now wakes nobody: its
\* end of the packet queue has nothing to count (PktTx::drop).
MiotSleep == /\ mpc = "poll" /\ woken /\ mreq = <<>>
             /\ woken' = FALSE
             /\ UNCHANGED <<aborted, clients, cluster, shard, mpc, mreq, conns, flush, resp>>

\* A panic in the code of the sockets.
MiotPanic == /\ mpc = "poll" /\ woken
             /\ \E k \in Clients : conns[k] # None
             /\ mpc' = "panic"
             /\ conns' = [k \in Clients |-> None]
             /\ UNCHANGED <<aborted, app, listener, hs, broken, cluster, shard, mreq, woken, flush,
                            resp>>

\* get_requests returns when it has max + 1 requests.
FlusherTake == /\ fpc = "run" /\ fbatch = <<>>
               /\ Len(fchan) > flusher.max
               /\ fbatch' = SubSeq(fchan, 1, flusher.max + 1)
               /\ fchan' = SubSeq(fchan, flusher.max + 2, Len(fchan))
               /\ UNCHANGED <<aborted, clients, cluster, shard, miot, fpc, flusher, resp>>

\* The socket is flushed until its session or its client has gone, and ends
\* with a DISCONNECT.
FlusherFlush == /\ fpc = "run" /\ fbatch # <<>>
                /\ Head(fbatch).op = "flush"
                /\ LET c == Head(fbatch).conn
                   IN sessions[ClientId[c]] # c \/ c \in broken
                /\ fbatch' = Tail(fbatch)
                /\ Respond("shard", Ok)
                /\ UNCHANGED <<aborted, app, listener, hs, broken, cluster, shard, miot, fpc, fchan,
                               flusher>>

\* What is left of the batch is dropped.
FlusherClose == /\ fpc = "run" /\ fbatch # <<>>
                /\ Head(fbatch) = Close
                /\ fpc' = "exit"
                /\ fbatch' = <<>>
                /\ Respond("cluster", Ok)
                /\ UNCHANGED <<aborted, clients, cluster, shard, miot, fchan, flusher>>

\* A panic in the code of the socket that it flushes.
FlusherPanic == /\ fpc = "run" /\ fbatch # <<>>
                /\ Head(fbatch).op = "flush"
                /\ fpc' = "panic"
                /\ UNCHANGED <<aborted, app, listener, hs, broken, cluster, shard, miot, fchan,
                               fbatch, flusher, resp>>
-----------------------------------------------------------------------------
Handshake(c) == Refuse(c) \/ Connect(c) \/ ConnectFails(c)

ClusterStep == \/ ClusterDrain \/ ClusterDone \/ ClusterAdd \/ ClusterAdded \/ ClusterClose
               \/ ClusterShardJoined \/ ClusterListenerJoined \/ ClusterFlusherJoined
               \/ ClusterFails

ShardStep == \/ ShardDrain \/ ShardDone \/ ShardClosed \/ ShardAdd \/ ShardTakeOver
             \/ ShardTakenOver \/ ShardAdded \/ ShardFlush \/ ShardFlushed \/ ShardClose
             \/ ShardMiotJoined \/ ShardRound \/ (\E k \in Clients : ShardFail(k))
             \/ ShardFailRemoved \/ ShardFailed \/ ShardRoundDone \/ ShardFails

MiotRequest == MiotAdd \/ MiotRemove \/ MiotClose

FlusherStep == FlusherTake \/ FlusherFlush \/ FlusherClose

Panics == ClusterPanics \/ ShardPanics \/ MiotPanic \/ FlusherPanic

Next == /\ ~aborted
        /\ \/ \E c \in Conns : Handshake(c) \/ Break(c) \/ MiotFail(c)
           \/ Accept \/ AppClose \/ AppJoin
           \/ ClusterStep \/ ShardStep
           \/ MiotRequest \/ MiotSleep
           \/ FlusherStep
           \/ Panics

Spec == Init /\ [][Next]_vars

\* Every thread runs when it can, and the ticker keeps the shard in rounds.  The
\* miot looks at each connection after each wake-up, so that one whose session
\* has ended is removed if there is always another wake-up; there may be none.
\* Nothing is asked of clients and application, and nobody has to panic.
FairSpec == /\ Spec
            /\ WF_vars(~aborted /\ ClusterStep)
            /\ WF_vars(~aborted /\ ShardStep)
            /\ WF_vars(~aborted /\ MiotRequest)
            /\ WF_vars(~aborted /\ FlusherStep)
            /\ WF_vars(~aborted /\ AppJoin)
            /\ SF_vars(~aborted /\ \E c \in Orphans : MiotFail(c))
-----------------------------------------------------------------------------
Requests == [op : {"add", "flush"}, conn : Conns] \cup [op : {"remove"}, client : Clients]
            \cup {Close}

TypeOK == /\ aborted \in BOOLEAN
          /\ app \in {"running", "closing", "closed", "panic"}
          /\ listener \in {"run", "exit", "panic"}
          /\ hs \in [Conns -> {"new", "reading", "waiting", "done"}]
          /\ \A chan \in {cchan, cbatch, schan, sbatch, mreq, fchan, fbatch} :
                 chan \in Seq(Requests)
          /\ Len(mreq) <= 1 /\ Len(fchan) <= 1
          /\ sessions \in [Clients -> Conns \cup {None}]
          /\ conns \in [Clients -> Conns \cup {None}]
          /\ resp["cluster"] \in {Ok, NoResp} /\ resp["shard"] \in Conns \cup {Ok, NoResp}
          /\ failed \subseteq Clients /\ broken \subseteq Conns
          /\ served \in BOOLEAN /\ woken \in BOOLEAN

Posted(c) == \E chan \in {schan, sbatch} : \E i \in DOMAIN chan : chan[i] = Flush(c)

\* As long as the miot serves, the connection of each session is with the miot,
\* or the shard has it or will get it to flush: whoever removes a connection
\* (a take-over, the shard, the miot), no session is left without one.
SessionHasConnection ==
    mpc = "poll" => \A k \in Clients :
        sessions[k] # None => \/ conns[k] = sessions[k]
                              \/ Posted(sessions[k])
                              \/ resp["shard"] = sessions[k]

\* A connection leaves the miot only into the hands of the shard, which flushes
\* it, or with the miot, or replaced by another one of its client when its
\* session has already ended.
SocketsHandedOver ==
    [][\A c \in Conns :
           conns[ClientId[c]] = c /\ conns'[ClientId[c]] # c /\ Open(mpc') =>
               c \in Orphans \/ resp'["shard"] = c \/ Posted(c)']_vars

\* The process aborts only when a thread has panicked in code of its own (the
\* sockets in the miot or the flusher, the listener, a shard's round, retained
\* messages, a request behind a Close in its batch), or for a flusher that is a
\* Tx: the requests, answers and joins between cluster, shard, miot and flusher
\* (allow_panic!, unreachable!() on an unexpected response) never fail by
\* themselves, whatever connections do and whenever the node is closed.
PanicsOnlyFor ==
    aborted => \/ \E pc \in {listener, cpc, spc, mpc, fpc} : pc = "panic"
               \/ flusher.inner = "Tx"

\* The flusher has requests, and waits for more of them.
FlusherCollects == fpc = "run" /\ fbatch = <<>> /\ fchan # <<>> /\ Len(fchan) <= flusher.max

\* Blocking requests, joins and the removal of connections whose session has
\* ended all come to an end: the cluster thread gets back to its channel, so
\* that every request is answered, close_wait returns, and orphans leave the
\* miot.  What can prevent it is an abort of the process, and a flusher that
\* waits for further requests for ever (get_requests).
NobodyWaitsForEver ==
    \/ <>[]FlusherCollects
    \/ /\ Open(cpc) /\ cpc # "poll" ~> cpc = "poll" \/ ~Open(cpc) \/ aborted
       /\ app = "closing" ~> app \in {"closed", "panic"} \/ aborted
       /\ Orphans # {} ~> Orphans = {} \/ aborted
=============================================================================
