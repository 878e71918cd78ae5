-------------------------- MODULE ConnectionProofs --------------------------
(***************************************************************************)
(* Safety of connections, sessions and their hand-over between threads for *)
(* every number of clients and connections, every size of a batch and      *)
(* every flusher.                                                          *)
(*                                                                         *)
(* SessionHasConnection is not inductive.  It rests on what a thread that  *)
(* is blocked in a request may rely on: nobody else touches the session it *)
(* has just ended, there is one answer under way or none, and an answer is *)
(* of the client that was asked for.                                       *)
(***************************************************************************)
EXTENDS Connection, SequenceTheorems, TLAPS

Has(chan, r) == \E i \in DOMAIN chan : chan[i] = r

Client(r) == ClientId[r.conn]

Types == /\ TypeOK
         /\ resp \in [{"cluster", "shard"} -> Conns \cup {Ok, NoResp}]
         /\ flusher \in Flushers

\* Connections and sessions stand under their own client.
Owners == \A k \in Clients :
              /\ sessions[k] # None => ClientId[sessions[k]] = k
              /\ conns[k] # None => ClientId[conns[k]] = k

\* Where the shard is in its batch, and the session that it has ended on the way.
Batches == /\ cpc \in {"add", "close shard", "close listener", "close flusher"} => cbatch # <<>>
           /\ spc \in {"drain", "round", "failed", "failing", "exit"} => sbatch = <<>>
           /\ spc \in {"add", "take over", "taken over", "flush", "close"} => sbatch # <<>>
           /\ spc \in {"add", "take over", "taken over"} =>
                  Head(sbatch).op = "add" /\ sessions[Client(Head(sbatch))] = None
           /\ spc = "flush" =>
                  Head(sbatch).op = "flush" /\ sessions[Client(Head(sbatch))] = None

\* A request to the miot is the one that the shard waits for.
MiotCalls == mreq # <<>> =>
    /\ resp["shard"] = NoResp
    /\ \/ spc = "add" /\ mreq[1] = Head(sbatch)
       \/ spc = "take over" /\ mreq[1] = Remove(Client(Head(sbatch)))
       \/ spc = "failing" /\ \E k \in Clients : mreq[1] = Remove(k)
       \/ spc = "close" /\ mreq[1] = Close

\* So is a request to the flusher, unless it is the cluster's Close.
FlusherCall(chan) == chan # <<>> =>
    /\ Len(chan) = 1
    /\ \/ /\ chan[1].op = "flush"
          /\ spc \in {"taken over", "flush", "failing"}
          /\ resp["shard"] = NoResp /\ mreq = <<>>
       \/ /\ chan[1] = Close
          /\ spc = "exit" /\ cpc \notin {"close shard", "close listener"}

FlusherCalls == /\ fchan = <<>> \/ fbatch = <<>>
                /\ FlusherCall(fchan) /\ FlusherCall(fbatch)
                /\ cpc = "close listener" => spc = "exit"

\* An answer is for a shard that waits; a socket is the one that it asked for.
Answers ==
    /\ resp["shard"] # NoResp =>
           spc \in {"add", "take over", "taken over", "flush", "close", "failing"}
    /\ resp["shard"] \in Conns =>
           \/ spc = "failing"
           \/ spc = "take over" /\ ClientId[resp["shard"]] = Client(Head(sbatch))

\* The connection for which the shard is about to open a session.
AddedHasConnection ==
    mpc = "poll" /\ spc = "add" /\ resp["shard"] = Ok =>
        \/ conns[Client(Head(sbatch))] = Head(sbatch).conn
        \/ Posted(Head(sbatch).conn)

\* The cluster has asked the shard to close.
ShardAsked == cinner = "Close" \/ cpc \in {"close shard", "close listener", "close flusher"}

\* The node closes from the outside in: a thread is gone only when whoever may ask it
\* something is itself at its end, so that an abort has a panic for its cause.
Ending ==
    /\ Has(schan, Close) \/ Has(sbatch, Close) \/ spc = "close" \/ sinner = "Close" => ShardAsked
    /\ spc = "exit" => sinner = "Close"
    /\ sinner = "Close" => spc \in {"handle", "exit", "panic"}
    /\ mpc = "exit" => sinner = "Close" \/ spc = "close"
    /\ fpc = "exit" => spc = "exit"
    /\ PanicsOnlyFor

Calls == Batches /\ MiotCalls /\ FlusherCalls /\ Answers

IInv == Types /\ Owners /\ Calls /\ AddedHasConnection /\ SessionHasConnection /\ Ending
-----------------------------------------------------------------------------
(* Requests and queues.                                                    *)

\* What a request carries.
LEMMA RequestFields ==
    /\ \A c : /\ Add(c).op = "add" /\ Add(c).conn = c
              /\ Flush(c).op = "flush" /\ Flush(c).conn = c
              /\ c \in Conns => Add(c) \in Requests /\ Flush(c) \in Requests
    /\ \A k : /\ Remove(k).op = "remove" /\ Remove(k).client = k
              /\ k \in Clients => Remove(k) \in Requests
    /\ Close \in Requests /\ Close.op = "close"
    /\ \A r \in Requests : /\ r.op = "add" => r.conn \in Conns /\ r = Add(r.conn)
                           /\ r.op = "flush" => r.conn \in Conns /\ r = Flush(r.conn)
                           /\ r.op = "remove" => r.client \in Clients
                           /\ r.op = "close" => r = Close
BY DEF Requests, Add, Flush, Remove, Close

\* Appending a request adds just that one.
LEMMA HasAppend ==
    ASSUME NEW s \in Seq(Requests), NEW e \in Requests
    PROVE  /\ Append(s, e) \in Seq(Requests) /\ Append(s, e) # <<>>
           /\ \A r : Has(Append(s, e), r) <=> Has(s, r) \/ r = e
           /\ s = <<>> => Len(Append(s, e)) = 1 /\ Append(s, e)[1] = e
<1>1. /\ DOMAIN s = 1..Len(s) /\ Len(s) \in Nat
      /\ DOMAIN Append(s, e) = 1..Len(s) + 1
      /\ \A i \in 1..Len(s) : Append(s, e)[i] = s[i]
      /\ Append(s, e)[Len(s) + 1] = e
  BY AppendProperties, LenProperties
<1>2. \A r : Has(Append(s, e), r) <=> Has(s, r) \/ r = e
  BY <1>1 DEF Has
<1> QED
  BY <1>1, <1>2, AppendProperties, EmptySeq

\* A queue holds its head and its tail.
LEMMA HasTail ==
    ASSUME NEW s \in Seq(Requests), s # <<>>
    PROVE  /\ Head(s) \in Requests /\ Tail(s) \in Seq(Requests)
           /\ Head(s) = s[1]
           /\ \A r : Has(s, r) <=> r = Head(s) \/ Has(Tail(s), r)
           /\ Len(s) = 1 => Tail(s) = <<>>
<1>1. /\ DOMAIN s = 1..Len(s) /\ Len(s) \in Nat \ {0}
      /\ Tail(s) \in Seq(Requests) /\ DOMAIN Tail(s) = 1..Len(s) - 1
      /\ \A i \in 1..Len(s) - 1 : Tail(s)[i] = s[i + 1]
  BY HeadTailProperties, LenProperties, EmptySeq
<1>2. Head(s) = s[1]
  OBVIOUS
<1>3. \A r : Has(s, r) <=> r = Head(s) \/ Has(Tail(s), r)
  <2>1. ASSUME NEW r, Has(s, r) PROVE r = Head(s) \/ Has(Tail(s), r)
    <3>1. PICK i \in 1..Len(s) : s[i] = r
      BY <1>1, <2>1 DEF Has
    <3>2. CASE i = 1
      BY <1>2, <3>1, <3>2
    <3>3. CASE i # 1
      <4>1. i - 1 \in 1..Len(s) - 1 /\ Tail(s)[i - 1] = s[(i - 1) + 1]
        BY <1>1, <3>3
      <4>2. Tail(s)[i - 1] = r
        BY <3>1, <4>1
      <4> QED
        BY <1>1, <4>1, <4>2, Zenon DEF Has
    <3> QED
      BY <3>2, <3>3
  <2>2. ASSUME NEW r, r = Head(s) \/ Has(Tail(s), r) PROVE Has(s, r)
    BY <1>1, <1>2, <2>2 DEF Has
  <2> QED
    BY <2>1, <2>2
<1> QED
  BY <1>1, <1>2, <1>3, HeadTailProperties, EmptySeq

\* pending_requests splits a queue and loses nothing.
LEMMA HasTaken ==
    ASSUME NEW s \in Seq(Requests)
    PROVE  /\ Taken(s) \in Seq(Requests) /\ Left(s) \in Seq(Requests)
           /\ \A r : Has(s, r) <=> Has(Taken(s), r) \/ Has(Left(s), r)
           /\ s # <<>> => Taken(s) # <<>>
           /\ s = <<>> => Taken(s) = <<>>
<1> DEFINE n == IF Len(s) <= Batch THEN Len(s) ELSE Batch + 1
<1>1. /\ DOMAIN s = 1..Len(s) /\ Len(s) \in Nat /\ n \in 0..Len(s)
      /\ \A i \in 1..Len(s) : s[i] \in Requests
  BY LenProperties, ElementOfSeq, ConnectionSizes
<1> HIDE DEF n
<1>2. Taken(s) = SubSeq(s, 1, n)
  BY DEF Taken, n
<1>3. /\ Taken(s) \in Seq(Requests) /\ Len(Taken(s)) = n
      /\ \A i \in 1..n : Taken(s)[i] = s[i]
  <2>1. \A i \in 1..n : s[i] \in Requests
    BY <1>1
  <2>2. /\ SubSeq(s, 1, n) \in Seq(Requests)
        /\ Len(SubSeq(s, 1, n)) = IF 1 <= n THEN n - 1 + 1 ELSE 0
        /\ \A i \in 1..n - 1 + 1 : SubSeq(s, 1, n)[i] = s[1 + i - 1]
    BY <1>1, <2>1, SubSeqProperties
  <2> QED
    BY <1>1, <1>2, <2>2
<1>4. Left(s) = SubSeq(s, n + 1, Len(s))
  BY <1>3 DEF Left
<1>5. /\ Left(s) \in Seq(Requests) /\ Len(Left(s)) = Len(s) - n
      /\ \A i \in 1..Len(s) - n : Left(s)[i] = s[n + i]
  <2>1. \A i \in n + 1..Len(s) : s[i] \in Requests
    BY <1>1
  <2>2. /\ SubSeq(s, n + 1, Len(s)) \in Seq(Requests)
        /\ Len(SubSeq(s, n + 1, Len(s))) = IF n + 1 <= Len(s) THEN Len(s) - (n + 1) + 1 ELSE 0
        /\ \A i \in 1..Len(s) - (n + 1) + 1 : SubSeq(s, n + 1, Len(s))[i] = s[n + 1 + i - 1]
    BY <1>1, <2>1, SubSeqProperties
  <2>3. \A i \in 1..Len(s) - n : i \in 1..Len(s) - (n + 1) + 1 /\ n + 1 + i - 1 = n + i
    BY <1>1
  <2>4. ASSUME NEW i \in 1..Len(s) - n PROVE Left(s)[i] = s[n + i]
    BY <1>4, <2>2, <2>3
  <2>5. Len(Left(s)) = Len(s) - n
    <3>1. CASE n + 1 <= Len(s)
      BY <1>1, <1>4, <2>2, <3>1
    <3>2. CASE n = Len(s)
      <4>1. ~(n + 1 <= Len(s)) /\ Len(s) - n = 0
        BY <1>1, <3>2
      <4> QED
        BY <1>4, <2>2, <4>1
    <3>3. n \in Int /\ Len(s) \in Int /\ n <= Len(s)
      BY <1>1
    <3>4. n + 1 <= Len(s) \/ n = Len(s)
      BY <3>3
    <3> QED
      BY <3>1, <3>2, <3>4
  <2> QED
    BY <1>4, <2>2, <2>4, <2>5
<1>6. DOMAIN Taken(s) = 1..n /\ DOMAIN Left(s) = 1..Len(s) - n
  BY <1>3, <1>5, LenProperties
<1>7. \A r : Has(s, r) <=> Has(Taken(s), r) \/ Has(Left(s), r)
  <2>1. ASSUME NEW r, Has(s, r) PROVE Has(Taken(s), r) \/ Has(Left(s), r)
    <3>1. PICK i \in 1..Len(s) : s[i] = r
      BY <1>1, <2>1 DEF Has
    <3>2. CASE i <= n
      BY <1>1, <1>3, <1>6, <3>1, <3>2 DEF Has
    <3>3. CASE ~(i <= n)
      <4>1. i - n \in 1..Len(s) - n /\ n + (i - n) = i
        BY <1>1, <3>3
      <4>2. Left(s)[i - n] = r
        BY <1>5, <3>1, <4>1
      <4> QED
        BY <1>6, <4>1, <4>2 DEF Has
    <3> QED
      BY <3>2, <3>3
  <2>2. ASSUME NEW r, Has(Taken(s), r) PROVE Has(s, r)
    BY <1>1, <1>3, <1>6, <2>2 DEF Has
  <2>3. ASSUME NEW r, Has(Left(s), r) PROVE Has(s, r)
    <3>1. PICK i \in 1..Len(s) - n : Left(s)[i] = r
      BY <1>6, <2>3 DEF Has
    <3>2. n + i \in 1..Len(s) /\ s[n + i] = r
      BY <1>1, <1>5, <3>1
    <3> QED
      BY <1>1, <3>2 DEF Has
  <2> QED
    BY <2>1, <2>2, <2>3
<1>8. (s # <<>> => n # 0) /\ (s = <<>> => n = 0)
  BY <1>1, ConnectionSizes, EmptySeq DEF n
<1> QED
  BY <1>3, <1>5, <1>7, <1>8, EmptySeq
-----------------------------------------------------------------------------
\* The state in terms that the provers take one by one.
LEMMA Typed ==
    ASSUME IInv
    PROVE  /\ cchan \in Seq(Requests) /\ cbatch \in Seq(Requests) /\ schan \in Seq(Requests)
           /\ sbatch \in Seq(Requests) /\ mreq \in Seq(Requests) /\ fchan \in Seq(Requests)
           /\ fbatch \in Seq(Requests)
           /\ \A c : Posted(c) <=> Has(schan, Flush(c)) \/ Has(sbatch, Flush(c))
<1>1. \A c : Posted(c) <=> Has(schan, Flush(c)) \/ Has(sbatch, Flush(c))
  BY DEF Posted, Has
<1> QED
  BY <1>1 DEF IInv, Types, TypeOK

\* Cluster::spawn starts the threads with nothing to do.
LEMMA InitIInv == Init => IInv
<1> SUFFICES ASSUME Init PROVE IInv
  OBVIOUS
<1>1. Types
  <2>1. \A chan \in {cchan, cbatch, schan, sbatch, mreq, fchan, fbatch} : chan \in Seq(Requests)
    BY EmptySeq, Zenon DEF Init
  <2>2. Len(mreq) <= 1 /\ Len(fchan) <= 1
    BY DEF Init
  <2> QED
    BY <2>1, <2>2, Zenon DEF Init, Types, TypeOK
<1>2. Owners /\ Calls /\ AddedHasConnection /\ SessionHasConnection
  BY ConnectionSizes DEF Init, Owners, Calls, Batches, MiotCalls, FlusherCalls, FlusherCall, Answers,
     AddedHasConnection, SessionHasConnection
<1>3. Ending
  BY DEF Init, Ending, PanicsOnlyFor, Has
<1> QED
  BY <1>1, <1>2, <1>3 DEF IInv

\* Listener, handshake, application: the shard and its calls stay as they are.
LEMMA ClientsStep ==
    ASSUME IInv, ~aborted,
           \/ \E c \in Conns : Handshake(c) \/ Break(c)
           \/ Accept \/ AppClose \/ AppJoin
    PROVE  IInv'
<1> USE DEF IInv
<1>1. /\ UNCHANGED <<aborted, shard, mpc, mreq, conns, flush, resp, cpc, cbatch, cinner>>
      /\ woken' \in BOOLEAN
  BY Zenon DEF Handshake, Refuse, Connect, ConnectFails, Break, Accept, AppClose, AppJoin, cluster, miot, Types, TypeOK
<1>2. Owners' /\ Calls' /\ AddedHasConnection' /\ SessionHasConnection'
  BY <1>1, Zenon DEF Owners, Calls, Batches, MiotCalls, FlusherCalls, FlusherCall, Answers,
     AddedHasConnection, SessionHasConnection, Posted, shard, flush
<1>3. cchan' \in Seq(Requests)
  <2>1. Append(cchan, Close) \in Seq(Requests) /\ \A c \in Conns : Append(cchan, Add(c)) \in Seq(Requests)
    BY RequestFields, Typed, HasAppend
  <2>2. cchan' \in {cchan, Append(cchan, Close)} \/ \E c \in Conns : cchan' = Append(cchan, Add(c))
    BY Zenon DEF Handshake, Refuse, Connect, ConnectFails, Break, Accept, AppClose, AppJoin, cluster
  <2> QED
    BY <2>1, <2>2, Typed, Zenon
<1>4. /\ app' \in {"running", "closing", "closed", "panic"} /\ listener' \in {"run", "exit", "panic"}
      /\ hs' \in [Conns -> {"new", "reading", "waiting", "done"}] /\ broken' \subseteq Conns
  BY Zenon DEF Handshake, Refuse, Connect, ConnectFails, Break, Accept, AppClose, AppJoin, Types, TypeOK
<1>5. Types'
  BY <1>1, <1>3, <1>4 DEF Types, TypeOK, shard, flush
<1>6. Ending'
  BY <1>1, Zenon DEF Ending, PanicsOnlyFor, ShardAsked, shard, flush, Has
<1> QED
  BY <1>2, <1>5, <1>6

\* A request more in the shard's queue takes nothing from sessions and connections.
LEMMA ConnectionsKept ==
    ASSUME IInv, UNCHANGED <<spc, sbatch, sessions, mpc, conns>>,
           resp'["shard"] = resp["shard"],
           \A r : Has(schan, r) => Has(schan', r)
    PROVE  Owners' /\ AddedHasConnection' /\ SessionHasConnection'
<1>1. \A c : Posted(c) => Posted(c)'
  BY DEF Posted, Has
<1> QED
  BY <1>1 DEF IInv, Owners, AddedHasConnection, SessionHasConnection

\* An abort changes nothing else, and is not the first panic.
LEMMA AbortStep ==
    ASSUME IInv, Abort, "panic" \in {listener, spc, mpc, fpc}
    PROVE  IInv'
<1> USE DEF IInv, Abort, clients, cluster, shard, miot, flush
<1>1. Types'
  BY DEF Types, TypeOK
<1>2. Owners' /\ Calls' /\ AddedHasConnection' /\ SessionHasConnection'
  BY Zenon DEF Owners, Calls, Batches, MiotCalls, FlusherCalls, FlusherCall, Answers,
     AddedHasConnection, SessionHasConnection, Posted
<1>3. Ending'
  BY Zenon DEF Ending, PanicsOnlyFor, ShardAsked
<1> QED
  BY <1>1, <1>2, <1>3

\* What a step of the cluster, and one of the shard, has to establish for the end.
LEMMA ClusterEnding ==
    ASSUME IInv, UNCHANGED <<spc, sbatch, sinner, mpc, fpc>>, ShardAsked => ShardAsked',
           Has(schan', Close) => Has(schan, Close) \/ ShardAsked', PanicsOnlyFor'
    PROVE  Ending'
BY Zenon DEF IInv, Ending, Has

LEMMA ShardEnding ==
    ASSUME IInv, UNCHANGED <<cluster, sinner, mpc, fpc>>,
           Has(schan', Close) \/ Has(sbatch', Close) => Has(schan, Close) \/ Has(sbatch, Close),
           \/ spc' = spc
           \/ sinner # "Close" /\ {spc, spc'} \cap {"close", "exit"} = {},
           PanicsOnlyFor'
    PROVE  Ending'
BY Zenon DEF IInv, Ending, ShardAsked, cluster

\* The cluster's handlers.
LEMMA ClusterSteps ==
    ASSUME IInv, ~aborted, ClusterStep \/ ClusterPanics
    PROVE  IInv'
<1> USE DEF IInv
<1> DEFINE Frame == /\ UNCHANGED <<app, broken, spc, sbatch, sinner, sessions, failed, served, miot, fpc, fbatch, flusher>>
                    /\ resp' \in [{"cluster", "shard"} -> Conns \cup {Ok, NoResp}]
                    /\ resp'["cluster"] \in {Ok, NoResp} /\ resp'["shard"] = resp["shard"]
                    /\ aborted' \in BOOLEAN /\ listener' \in {"run", "exit", "panic"}
                    /\ hs' \in [Conns -> {"new", "reading", "waiting", "done"}]
<1>1. ASSUME Frame, schan' = schan, fchan' = fchan, aborted' = aborted,
             cchan' \in Seq(Requests), cbatch' \in Seq(Requests),
             cpc' \in {"add", "close shard", "close listener", "close flusher"} => cbatch' # <<>>,
             cpc' \in {"close shard", "close listener"} => spc = "exit" /\ fchan = <<>> /\ fbatch = <<>>
      PROVE  Types' /\ Owners' /\ Calls' /\ AddedHasConnection' /\ SessionHasConnection'
  <2>1. Types'
    BY <1>1, Typed, Zenon DEF Types, TypeOK, miot
  <2>2. Owners' /\ AddedHasConnection' /\ SessionHasConnection'
    BY <1>1, ConnectionsKept, Zenon DEF miot
  <2>3. Calls'
    BY <1>1, Zenon DEF Calls, Batches, MiotCalls, FlusherCalls, FlusherCall, Answers, miot
  <2> QED
    BY <2>1, <2>2, <2>3
<1>2. CASE ClusterDrain
  <2>1. /\ Taken(cchan) \in Seq(Requests) /\ Left(cchan) \in Seq(Requests)
    BY Typed, HasTaken
  <2>2. Frame /\ schan' = schan /\ fchan' = fchan /\ aborted' = aborted
    BY <1>2 DEF ClusterDrain, clients, shard, miot, flush, Types, TypeOK
  <2>3. Ending'
    BY <1>2, <2>2, ClusterEnding DEF ClusterDrain, ShardAsked, PanicsOnlyFor, miot
  <2> QED
    BY <1>1, <1>2, <2>1, <2>2, <2>3 DEF ClusterDrain
<1>3. CASE ClusterDone
  <2>1. Frame /\ schan' = schan /\ fchan' = fchan /\ aborted' = aborted
    BY <1>3 DEF ClusterDone, clients, shard, miot, flush, Types, TypeOK
  <2>2. Ending'
    BY <1>3, <2>1, ClusterEnding DEF ClusterDone, ShardAsked, PanicsOnlyFor, miot
  <2> QED
    BY <1>1, <1>3, <2>1, <2>2, Typed DEF ClusterDone
<1>4. CASE ClusterAdd
  <2>1. Head(cbatch) \in Requests /\ Head(cbatch) # Close
    BY <1>4, Typed, HasTail, RequestFields DEF ClusterAdd
  <2>2. /\ Append(schan, Head(cbatch)) \in Seq(Requests)
        /\ \A r : Has(schan, r) => Has(Append(schan, Head(cbatch)), r)
        /\ ~Has(schan, Close) => ~Has(Append(schan, Head(cbatch)), Close)
    BY <2>1, Typed, HasAppend
  <2>3. schan' \in {schan, Append(schan, Head(cbatch))}
    BY <1>4 DEF ClusterAdd
  <2>4. schan' \in Seq(Requests) /\ \A r : Has(schan, r) => Has(schan', r)
    BY <2>2, <2>3, Typed, Zenon
  <2>5. /\ UNCHANGED <<clients, cchan, cbatch, cinner, spc, sbatch, sfull, sinner, sessions, failed, served, miot, flush, resp>>
        /\ cbatch # <<>>
        /\ cpc = "handle" /\ cpc' \in {"panic", "add", "handle"} /\ aborted' \in BOOLEAN
    BY <1>4, Zenon DEF ClusterAdd, Types, TypeOK
  <2>6. Types'
    BY <2>4, <2>5, Typed DEF Types, TypeOK, miot, flush, clients
  <2>7. Owners' /\ AddedHasConnection' /\ SessionHasConnection'
    BY <2>4, <2>5, ConnectionsKept DEF miot
  <2>8. Calls'
    BY <2>5, Zenon DEF Calls, Batches, MiotCalls, FlusherCalls, FlusherCall, Answers, miot, flush
  <2>9. Ending'
    <3>1. aborted' => spc = "panic"
      BY <1>4, Zenon DEF ClusterAdd, Open, Ending, ShardAsked
    <3>2. PanicsOnlyFor'
      BY <2>5, <3>1, Zenon DEF PanicsOnlyFor
    <3>3. ShardAsked => ShardAsked'
      BY <2>5, Zenon DEF ShardAsked
    <3>4. UNCHANGED <<mpc, fpc>> /\ (Has(schan', Close) => Has(schan, Close))
      BY <2>2, <2>3, <2>5, Zenon DEF miot, flush
    <3> QED
      BY <2>5, <3>2, <3>3, <3>4, ClusterEnding, Zenon
  <2> QED
    BY <2>6, <2>7, <2>8, <2>9
<1>5. CASE ClusterAdded
  <2>1. cbatch # <<>>
    BY <1>5, Zenon DEF ClusterAdded, Calls, Batches
  <2>2. Tail(cbatch) \in Seq(Requests)
    BY <2>1, Typed, HasTail
  <2>3. Frame /\ schan' = schan /\ fchan' = fchan /\ aborted' = aborted
    BY <1>5, Zenon DEF ClusterAdded, shard, miot, flush, Types, TypeOK
  <2>4. Ending'
    BY <1>5, <2>3, ClusterEnding DEF ClusterAdded, ShardAsked, PanicsOnlyFor, miot
  <2> QED
    BY <1>1, <1>5, <2>2, <2>3, <2>4, Typed DEF ClusterAdded
<1>6. CASE ClusterClose
  <2>1. /\ Append(schan, Close) \in Seq(Requests)
        /\ \A r : Has(schan, r) => Has(Append(schan, Close), r)
    BY RequestFields, Typed, HasAppend
  <2>2. schan' \in {schan, Append(schan, Close)}
    BY <1>6, Zenon DEF ClusterClose
  <2>3. schan' \in Seq(Requests) /\ \A r : Has(schan, r) => Has(schan', r)
    BY <2>1, <2>2, Typed, Zenon
  <2>4. /\ UNCHANGED <<clients, cchan, cbatch, cinner, spc, sbatch, sfull, sinner, sessions, failed, served, miot, flush, resp>>
        /\ cbatch # <<>>
        /\ cpc = "handle" /\ cpc' \in {"close shard", "handle"} /\ aborted' \in BOOLEAN
        /\ cpc' = "close shard" => spc # "exit"
    BY <1>6, Zenon DEF ClusterClose, Open, Types, TypeOK
  <2>5. Types'
    BY <2>3, <2>4, Typed, Zenon DEF Types, TypeOK, miot, flush, clients
  <2>6. Owners' /\ AddedHasConnection' /\ SessionHasConnection'
    BY <2>3, <2>4, ConnectionsKept, Zenon DEF miot
  <2>7. Calls'
    BY <2>4, Zenon DEF Calls, Batches, MiotCalls, FlusherCalls, FlusherCall, Answers, miot, flush
  <2>8. Ending'
    <3>1. aborted' => spc = "panic"
      BY <1>6, Zenon DEF ClusterClose, Open, Ending, ShardAsked
    <3>2. PanicsOnlyFor'
      BY <2>4, <3>1, Zenon DEF PanicsOnlyFor
    <3>3. (ShardAsked => ShardAsked') /\ (schan' # schan => ShardAsked')
      BY <1>6, <2>4, Zenon DEF ClusterClose, ShardAsked
    <3> QED
      BY <2>4, <3>2, <3>3, ClusterEnding, Zenon DEF miot, flush
  <2> QED
    BY <2>5, <2>6, <2>7, <2>8
<1>7. CASE ClusterShardJoined
  <2>1. Frame /\ schan' = schan /\ fchan' = fchan /\ aborted' = aborted
    BY <1>7, Zenon DEF ClusterShardJoined, clients, shard, miot, flush, Types, TypeOK
  <2>2. fchan = <<>> /\ fbatch = <<>> /\ spc = "exit" /\ cbatch # <<>>
    BY <1>7, Zenon DEF ClusterShardJoined, Calls, Batches, FlusherCalls, FlusherCall
  <2>3. Ending'
    <3>1. ShardAsked'
      BY <1>7, Zenon DEF ClusterShardJoined, ShardAsked
    <3>2. PanicsOnlyFor'
      BY <2>1 DEF PanicsOnlyFor
    <3> QED
      BY <2>1, <3>1, <3>2, ClusterEnding, Zenon DEF miot
  <2> QED
    BY <1>1, <1>7, <2>1, <2>2, <2>3, Typed, Zenon DEF ClusterShardJoined
<1>8. CASE ClusterListenerJoined
  <2>1. fchan = <<>> /\ fbatch = <<>> /\ spc = "exit" /\ cbatch # <<>>
    BY <1>8, Zenon DEF ClusterListenerJoined, Calls, Batches, FlusherCalls, FlusherCall
  <2>2. /\ Append(fchan, Close) \in Seq(Requests)
        /\ Len(Append(fchan, Close)) = 1 /\ Append(fchan, Close)[1] = Close
    BY <2>1, RequestFields, Typed, HasAppend
  <2>3. /\ UNCHANGED <<aborted, app, hs, broken, cchan, cbatch, cinner, shard, miot, fpc, fbatch, flusher, resp>>
        /\ fchan' \in {fchan, Append(fchan, Close)}
        /\ cpc = "close listener" /\ cpc' = "close flusher" /\ listener' = "exit"
    BY <1>8, Zenon DEF ClusterListenerJoined
  <2>4. Types'
    <3>1. fchan' \in Seq(Requests) /\ Len(fchan') <= 1
      <4>1. CASE fchan' = fchan
        BY <4>1 DEF Types, TypeOK
      <4>2. CASE fchan' = Append(fchan, Close)
        BY <2>2, <4>2
      <4> QED
        BY <2>3, <4>1, <4>2, Zenon
    <3> QED
      BY <2>3, <3>1, Typed, Zenon DEF Types, TypeOK, miot, shard
  <2>5. Owners' /\ AddedHasConnection' /\ SessionHasConnection'
    BY <2>3, ConnectionsKept, Zenon DEF miot, shard
  <2>6. Calls'
    BY <2>1, <2>2, <2>3, Zenon DEF Calls, Batches, MiotCalls, FlusherCalls, FlusherCall, Answers, miot, shard
  <2>7. Ending'
    BY <2>3, ClusterEnding, Zenon DEF ShardAsked, PanicsOnlyFor, miot, shard
  <2> QED
    BY <2>4, <2>5, <2>6, <2>7
<1>9. CASE ClusterFlusherJoined
  <2>1. cbatch # <<>>
    BY <1>9, Zenon DEF ClusterFlusherJoined, Calls, Batches
  <2>2. Tail(cbatch) \in Seq(Requests)
    BY <2>1, Typed, HasTail
  <2>3. Frame /\ schan' = schan /\ fchan' = fchan /\ aborted' = aborted
    BY <1>9, Zenon DEF ClusterFlusherJoined, clients, shard, miot, flush, Types, TypeOK
  <2>4. Ending'
    <3>1. ShardAsked'
      BY <1>9, Zenon DEF ClusterFlusherJoined, ShardAsked
    <3>2. PanicsOnlyFor'
      BY <2>3 DEF PanicsOnlyFor
    <3> QED
      BY <2>3, <3>1, <3>2, ClusterEnding, Zenon DEF miot
  <2> QED
    BY <1>1, <1>9, <2>2, <2>3, <2>4, Typed, Zenon DEF ClusterFlusherJoined
<1>10. CASE ClusterFails
  BY <1>10, AbortStep, Zenon DEF ClusterFails
<1>11. CASE ClusterPanics
  <2>1. /\ UNCHANGED <<clients, cchan, cbatch, cinner, shard, miot, flush, resp>>
        /\ cpc \in {"poll", "handle"} /\ cpc' = "panic" /\ aborted' \in BOOLEAN
    BY <1>11, Zenon DEF ClusterPanics, Types, TypeOK
  <2>2. Types'
    BY <2>1 DEF Types, TypeOK, clients, shard, miot, flush
  <2>3. Owners' /\ AddedHasConnection' /\ SessionHasConnection'
    BY <2>1, ConnectionsKept, Zenon DEF miot, shard
  <2>4. Calls'
    BY <2>1, Zenon DEF Calls, Batches, MiotCalls, FlusherCalls, FlusherCall, Answers, Client, miot, shard, flush
  <2>5. Ending'
    BY <2>1, ClusterEnding, Zenon DEF ShardAsked, PanicsOnlyFor, miot, shard, flush
  <2> QED
    BY <2>2, <2>3, <2>4, <2>5
<1> QED
  BY <1>2, <1>3, <1>4, <1>5, <1>6, <1>7, <1>8, <1>9, <1>10, <1>11 DEF ClusterStep
-----------------------------------------------------------------------------
(* The shard.                                                              *)

LEMMA Distinct == Ok # NoResp /\ Ok \notin Conns /\ NoResp \notin Conns /\ None \notin Conns
BY ConnectionSizes DEF Ok, NoResp

\* A shard that does not wait has no call under way, ...
LEMMA NoCall ==
    ASSUME IInv, spc \in {"drain", "handle", "round", "failed"}
    PROVE  resp["shard"] = NoResp /\ mreq = <<>> /\ fchan = <<>> /\ fbatch = <<>>
           /\ cpc # "close listener"
BY Zenon DEF IInv, Calls, MiotCalls, FlusherCalls, FlusherCall, Answers

\* ... and neither has one that has got its answer.
LEMMA CallAnswered ==
    ASSUME IInv, resp["shard"] # NoResp
    PROVE  mreq = <<>> /\ fchan = <<>> /\ fbatch = <<>> /\ cpc # "close listener"
BY Zenon DEF IInv, Calls, MiotCalls, FlusherCalls, FlusherCall, Answers

\* What a request to the miot, and one to the flusher, does.
LEMMA MiotRequested ==
    ASSUME IInv, ~aborted, mreq = <<>>, sinner # "Close", spc # "close",
           NEW req \in Requests, NEW wait, RequestMiot(req, wait)
    PROVE  /\ mreq' \in Seq(Requests) /\ Len(mreq') <= 1 /\ aborted' \in BOOLEAN
           /\ woken' \in BOOLEAN
           /\ \/ mreq' # <<>> /\ mreq'[1] = req /\ spc' = wait /\ ~aborted'
              \/ mreq' = <<>> /\ spc' = spc /\ mpc = "panic"
<1>1. <<req>> \in Seq(Requests) /\ Len(<<req>>) = 1 /\ <<req>>[1] = req /\ <<req>> # <<>>
  OBVIOUS
<1>2. CASE Open(mpc)
  <2>1. mreq' = <<req>> /\ spc' = wait /\ aborted' = aborted /\ woken' = TRUE
    BY <1>2 DEF RequestMiot
  <2> QED
    BY <1>1, <2>1 DEF IInv, Types, TypeOK
<1>3. CASE ~Open(mpc)
  <2>1. mreq' = mreq /\ spc' = spc /\ aborted' = TRUE /\ woken' = woken
    BY <1>3 DEF RequestMiot
  <2>2. mpc = "panic"
    BY <1>3 DEF Open, IInv, Ending
  <2> QED
    BY <2>1, <2>2 DEF IInv, Types, TypeOK
<1> QED
  BY <1>2, <1>3

LEMMA FlusherRequested ==
    ASSUME IInv, ~aborted, fchan = <<>>, spc # "exit", NEW c \in Conns, NEW wait,
           RequestFlusher(c, wait)
    PROVE  /\ fchan' \in Seq(Requests) /\ Len(fchan') <= 1 /\ aborted' \in BOOLEAN
           /\ \/ /\ fchan' # <<>> /\ Len(fchan') = 1 /\ fchan'[1].op = "flush"
                 /\ spc' = wait /\ ~aborted'
              \/ /\ fchan' = <<>> /\ spc' = spc
                 /\ fpc = "panic" \/ flusher.inner = "Tx"
<1>1. /\ Append(fchan, Flush(c)) \in Seq(Requests) /\ Append(fchan, Flush(c)) # <<>>
      /\ Len(Append(fchan, Flush(c))) = 1 /\ Append(fchan, Flush(c))[1].op = "flush"
  BY RequestFields, Typed, HasAppend
<1>2. CASE flusher.inner = "Handle" /\ Open(fpc)
  <2>1. fchan' = Append(fchan, Flush(c)) /\ spc' = wait /\ aborted' = aborted
    BY <1>2 DEF RequestFlusher
  <2>2. Len(fchan') <= 1
    BY <1>1, <2>1
  <2> QED
    BY <1>1, <2>1, <2>2 DEF IInv, Types, TypeOK
<1>3. CASE ~(flusher.inner = "Handle" /\ Open(fpc))
  <2>1. fchan' = fchan /\ spc' = spc /\ aborted' = TRUE
    BY <1>3 DEF RequestFlusher
  <2>2. flusher.inner \in {"Handle", "Tx"}
    BY ConnectionSizes DEF IInv, Types
  <2>3. fpc = "panic" \/ flusher.inner = "Tx"
    BY <1>3, <2>2 DEF Open, IInv, Ending
  <2> QED
    BY <2>1, <2>3 DEF IInv, Types, TypeOK
<1> QED
  BY <1>2, <1>3

\* The types that a step of the shard has to establish.
LEMMA ShardTypes ==
    ASSUME IInv, UNCHANGED <<clients, cluster, mpc, conns, fpc, fbatch, flusher>>,
           aborted' \in BOOLEAN, served' \in BOOLEAN, woken' \in BOOLEAN,
           schan' \in Seq(Requests), sbatch' \in Seq(Requests),
           mreq' \in Seq(Requests), Len(mreq') <= 1,
           fchan' \in Seq(Requests), Len(fchan') <= 1,
           sessions' \in [Clients -> Conns \cup {None}], failed' \subseteq Clients,
           resp' \in [{"cluster", "shard"} -> Conns \cup {Ok, NoResp}],
           resp'["cluster"] \in {Ok, NoResp}
    PROVE  Types'
BY DEF IInv, Types, TypeOK, clients, cluster

\* A step of the shard that leaves its queues alone.
LEMMA SameQueues ==
    ASSUME UNCHANGED <<schan, sbatch>>
    PROVE  \A c : Posted(c)' <=> Posted(c)
BY DEF Posted

\* A step of the shard that is done with the first request of its batch.
LEMMA NextInBatch ==
    ASSUME IInv, sbatch # <<>>, schan' = schan, sbatch' = Tail(sbatch)
    PROVE  /\ Head(sbatch) \in Requests /\ sbatch' \in Seq(Requests)
           /\ \A c : Posted(c) /\ Flush(c) # Head(sbatch) => Posted(c)'
           /\ ~Has(sbatch, Close) => ~Has(sbatch', Close)
<1>1. \A r : Has(sbatch, r) <=> r = Head(sbatch) \/ Has(Tail(sbatch), r)
  BY Typed, HasTail
<1>2. \A c : Posted(c)' <=> Has(schan', Flush(c)) \/ Has(sbatch', Flush(c))
  BY DEF Posted, Has
<1> QED
  BY <1>1, <1>2, Typed, HasTail

\* Between batches, and the round of the sessions.
LEMMA ShardRounds ==
    ASSUME IInv, ~aborted, ShardDrain \/ ShardDone \/ ShardClosed \/ ShardRound \/ ShardRoundDone \/ ShardPanics
    PROVE  IInv'
<1> USE DEF IInv
<1>0. /\ resp["shard"] = NoResp /\ mreq = <<>> /\ fchan = <<>> /\ fbatch = <<>>
      /\ cpc # "close listener"
  BY NoCall, Zenon DEF ShardDrain, ShardDone, ShardClosed, ShardRound, ShardRoundDone, ShardPanics
<1>1. /\ UNCHANGED <<clients, cluster, sinner, sessions, mpc, mreq, conns, flush, resp>>
      /\ spc' \in {"drain", "round", "handle", "failed", "exit", "panic"}
  BY Zenon DEF miot, ShardDrain, ShardDone, ShardClosed, ShardRound, ShardRoundDone, ShardPanics
<1>2. schan' \in Seq(Requests) /\ sbatch' \in Seq(Requests)
      /\ \A r : Has(schan, r) \/ Has(sbatch, r) <=> Has(schan', r) \/ Has(sbatch', r)
  <2>1. CASE ShardDrain
    <3>1. sbatch = <<>>
      BY <2>1, Zenon DEF ShardDrain, Calls, Batches
    <3>2. \A r : ~Has(sbatch, r)
      BY <3>1 DEF Has
    <3> QED
      BY <2>1, <3>2, Typed, HasTaken DEF ShardDrain
  <2>2. CASE ShardDone \/ ShardClosed \/ ShardRound \/ ShardRoundDone \/ ShardPanics
    BY <2>2, Typed DEF ShardDone, ShardClosed, ShardRound, ShardRoundDone, ShardPanics
  <2> QED
    BY <2>1, <2>2
<1>3. Types'
  <2>1. failed' \subseteq Clients /\ {aborted', served', woken'} \subseteq BOOLEAN
    BY Zenon DEF ShardDrain, ShardDone, ShardClosed, ShardRound, ShardRoundDone, ShardPanics, miot, Types, TypeOK
  <2> QED
    BY <1>1, <1>2, <2>1, Zenon DEF Types, TypeOK, clients, cluster, flush
<1>4. Owners' /\ AddedHasConnection' /\ SessionHasConnection'
  <2>1. \A c : Posted(c) => Posted(c)'
    BY <1>2, Zenon DEF Posted, Has
  <2> QED
    BY <1>1, <2>1 DEF Owners, AddedHasConnection, SessionHasConnection
<1>5. spc' \in {"drain", "round", "failed", "exit"} => sbatch' = <<>>
  <2>1. CASE ShardDrain
    BY <2>1, Typed, HasTaken DEF ShardDrain
  <2>2. CASE ShardDone \/ ShardClosed \/ ShardRound \/ ShardRoundDone \/ ShardPanics
    BY <2>2, Zenon DEF ShardDone, ShardClosed, ShardRound, ShardRoundDone, ShardPanics, Calls, Batches
  <2> QED
    BY <2>1, <2>2
<1>6. Calls'
  <2>1. Batches'
    BY <1>1, <1>5, Zenon DEF Calls, Batches, cluster
  <2>2. MiotCalls' /\ FlusherCalls' /\ Answers'
    BY <1>0, <1>1, Distinct, Zenon DEF MiotCalls, FlusherCalls, FlusherCall, Answers, cluster, flush
  <2> QED
    BY <2>1, <2>2 DEF Calls
<1>7. Ending'
  <2>1. aborted' => spc' = "panic"
    BY Zenon DEF ShardDrain, ShardDone, ShardClosed, ShardRound, ShardRoundDone, ShardPanics
  <2>2. /\ spc' # "close" /\ spc \notin {"close", "exit"}
        /\ spc' = "exit" => sinner = "Close"
        /\ sinner = "Close" => spc' \in {"handle", "exit", "panic"}
    BY DEF ShardDrain, ShardDone, ShardClosed, ShardRound, ShardRoundDone, ShardPanics, Ending
  <2> QED
    BY <1>1, <1>2, <2>1, <2>2, Zenon DEF Ending, PanicsOnlyFor, ShardAsked, cluster, flush
<1> QED
  BY <1>3, <1>4, <1>6, <1>7

\* handle_add_session: the old session goes first, and its connection after it.
LEMMA ShardAdds ==
    ASSUME IInv, ~aborted, ShardAdd \/ ShardTakenOver
    PROVE  IInv'
<1> USE DEF IInv
<1> DEFINE r == Head(sbatch)
           k == Client(r)
<1>0. /\ mreq = <<>> /\ fchan = <<>> /\ fbatch = <<>> /\ cpc # "close listener"
      /\ sbatch # <<>> /\ r.op = "add"
      /\ UNCHANGED <<clients, cluster, schan, sbatch, sfull, sinner, failed, served, mpc, conns, flush>>
  BY NoCall, CallAnswered, Distinct, Zenon DEF ShardAdd, ShardTakenOver, Calls, Batches
<1>1. r \in Requests /\ r = Add(r.conn) /\ r.conn \in Conns /\ k \in Clients
  BY <1>0, Typed, HasTail, RequestFields, ConnectionSizes, Zenon DEF Client
<1>2. /\ sessions' = [sessions EXCEPT ![k] = None]
      /\ resp' = [resp EXCEPT !["shard"] = NoResp]
      /\ RequestMiot(Remove(k), "take over") \/ RequestMiot(r, "add")
      /\ spc \in {"handle", "take over", "taken over"}
      /\ sinner # "Close"
  <2>0. sinner # "Close"
    BY Zenon DEF ShardAdd, ShardTakenOver, Ending
  <2>1. CASE ShardAdd
    <3>1. resp["shard"] = NoResp
      BY <2>1, NoCall, Zenon DEF ShardAdd
    <3> QED
      BY <2>0, <2>1, <3>1, Zenon DEF ShardAdd, Client, Types
  <2>2. CASE ShardTakenOver
    <3>1. sessions[k] = None
      BY <2>2, Zenon DEF ShardTakenOver, Calls, Batches
    <3> QED
      BY <2>0, <2>2, <3>1, Zenon DEF ShardTakenOver, Types, TypeOK
  <2> QED
    BY <2>0, <2>1, <2>2, Zenon
<1>3. /\ mreq' \in Seq(Requests) /\ Len(mreq') <= 1 /\ aborted' \in BOOLEAN /\ woken' \in BOOLEAN
      /\ \/ mreq' # <<>> /\ mreq'[1] = Remove(k) /\ spc' = "take over" /\ ~aborted'
         \/ mreq' # <<>> /\ mreq'[1] = r /\ spc' = "add" /\ ~aborted'
         \/ mreq' = <<>> /\ spc' = spc /\ mpc = "panic"
  BY <1>0, <1>1, <1>2, RequestFields, MiotRequested, Zenon
<1>4. /\ sessions' \in [Clients -> Conns \cup {None}] /\ sessions'[k] = None
      /\ \A j \in Clients : sessions'[j] # None => sessions'[j] = sessions[j]
      /\ resp' \in [{"cluster", "shard"} -> Conns \cup {Ok, NoResp}]
      /\ resp'["cluster"] \in {Ok, NoResp} /\ resp'["shard"] = NoResp
  BY <1>1, <1>2, Zenon DEF Types, TypeOK
<1>5. Types'
  BY <1>0, <1>3, <1>4, Typed, ShardTypes, Zenon DEF flush, Types, TypeOK
<1>6. Owners'
  BY <1>0, <1>4, Zenon DEF Owners
<1>7. AddedHasConnection'
  BY <1>4, Distinct, Zenon DEF AddedHasConnection
<1>8. SessionHasConnection'
  <2>1. resp["shard"] \notin Conns
    BY <1>2, NoCall, Distinct, Zenon DEF ShardAdd, ShardTakenOver
  <2>2. \A j \in Clients : sessions[j] # None => sessions[j] # resp["shard"]
    BY <2>1 DEF Types, TypeOK
  <2> QED
    BY <1>0, <1>4, <2>2, SameQueues, Zenon DEF SessionHasConnection
<1>9. Calls'
  <2>1. Batches'
    BY <1>0, <1>2, <1>3, <1>4, Zenon DEF Calls, Batches, cluster, Client
  <2>2. MiotCalls' /\ Answers'
    BY <1>0, <1>3, <1>4, Distinct, Zenon DEF MiotCalls, Answers, Client
  <2>3. FlusherCalls'
    BY <1>0, Zenon DEF FlusherCalls, FlusherCall, cluster, flush
  <2> QED
    BY <2>1, <2>2, <2>3 DEF Calls
<1>10. Ending'
  <2>1. PanicsOnlyFor'
    BY <1>0, <1>3, Zenon DEF PanicsOnlyFor
  <2>2. spc' = spc \/ {spc, spc'} \cap {"close", "exit"} = {}
    BY <1>2, <1>3, Zenon
  <2> QED
    BY <1>0, <1>2, <2>1, <2>2, ShardEnding, Zenon DEF flush
<1> QED
  BY <1>5, <1>6, <1>7, <1>8, <1>9, <1>10

\* A socket that has come from the miot goes to the flusher; its session has ended or ends.
LEMMA ShardFlushes ==
    ASSUME IInv, ~aborted, ShardTakeOver \/ ShardFlush \/ ShardFailRemoved
    PROVE  IInv'
<1> USE DEF IInv
<1>0. /\ mreq = <<>> /\ fchan = <<>> /\ fbatch = <<>> /\ cpc # "close listener"
      /\ UNCHANGED <<clients, cluster, schan, sbatch, sfull, sinner, failed, served, miot, fpc, fbatch, flusher>>
  BY NoCall, CallAnswered, Distinct, Zenon DEF ShardTakeOver, ShardFlush, ShardFailRemoved
<1>1. PICK c \in Conns, wait \in {"taken over", "flush", "failing"} :
        /\ sessions' = [sessions EXCEPT ![ClientId[c]] = None]
        /\ RequestFlusher(c, wait)
        /\ resp' = [resp EXCEPT !["shard"] = NoResp]
        /\ resp["shard"] \in {c, NoResp}
        /\ \/ wait = "taken over" /\ spc = "take over" /\ sbatch # <<>> /\ Head(sbatch).op = "add"
              /\ sessions'[Client(Head(sbatch))] = None
           \/ wait = "flush" /\ spc = "handle" /\ sbatch # <<>> /\ Head(sbatch).op = "flush"
              /\ sessions'[Client(Head(sbatch))] = None
           \/ wait = "failing" /\ spc = "failing" /\ sbatch = <<>>
  <2>1. CASE ShardTakeOver
    <3>1. /\ resp["shard"] \in Conns /\ spc = "take over" /\ sessions' = sessions
          /\ sbatch # <<>> /\ Head(sbatch).op = "add" /\ sessions[Client(Head(sbatch))] = None
          /\ ClientId[resp["shard"]] = Client(Head(sbatch))
      BY <2>1, Zenon DEF ShardTakeOver, Calls, Batches, Answers
    <3>2. sessions' = [sessions EXCEPT ![ClientId[resp["shard"]]] = None]
      BY <3>1, Zenon DEF Types, TypeOK
    <3> QED
      BY <2>1, <3>1, <3>2, Zenon DEF ShardTakeOver
  <2>2. CASE ShardFlush
    <3>1. resp["shard"] = NoResp /\ resp' = [resp EXCEPT !["shard"] = NoResp]
      BY <2>2, NoCall, Zenon DEF ShardFlush, Types
    <3>2. Head(sbatch).conn \in Conns
      BY <2>2, Typed, HasTail, RequestFields DEF ShardFlush
    <3>3. /\ sessions' = [sessions EXCEPT ![ClientId[Head(sbatch).conn]] = None]
          /\ RequestFlusher(Head(sbatch).conn, "flush")
      BY <2>2 DEF ShardFlush, handle_flush_connection
    <3>4. sessions'[Client(Head(sbatch))] = None
      BY <3>2, <3>3, ConnectionSizes DEF Client, Types, TypeOK
    <3> QED
      BY <2>2, <3>1, <3>2, <3>3, <3>4, Zenon DEF ShardFlush
  <2>3. CASE ShardFailRemoved
    BY <2>3, Zenon DEF ShardFailRemoved, handle_flush_connection, Calls, Batches
  <2> QED
    BY <2>1, <2>2, <2>3, Zenon
<1>2. /\ fchan' \in Seq(Requests) /\ Len(fchan') <= 1 /\ aborted' \in BOOLEAN
      /\ \/ /\ fchan' # <<>> /\ Len(fchan') = 1 /\ fchan'[1].op = "flush"
            /\ spc' = wait /\ ~aborted'
         \/ /\ fchan' = <<>> /\ spc' = spc
            /\ fpc = "panic" \/ flusher.inner = "Tx"
  BY <1>0, <1>1, FlusherRequested, Zenon
<1>3. /\ sessions' \in [Clients -> Conns \cup {None}] /\ sessions'[ClientId[c]] = None
      /\ \A j \in Clients : sessions'[j] # None => sessions'[j] = sessions[j] /\ j # ClientId[c]
      /\ resp' \in [{"cluster", "shard"} -> Conns \cup {Ok, NoResp}]
      /\ resp'["cluster"] \in {Ok, NoResp} /\ resp'["shard"] = NoResp
  BY <1>1, ConnectionSizes, Zenon DEF Types, TypeOK
<1>4. Types'
  BY <1>0, <1>2, <1>3, Typed, ShardTypes, Zenon DEF miot, Types, TypeOK
<1>5. Owners'
  BY <1>0, <1>3, Zenon DEF Owners, miot
<1>6. AddedHasConnection'
  BY <1>3, Distinct, Zenon DEF AddedHasConnection
<1>7. SessionHasConnection'
  <2>1. \A j \in Clients : sessions'[j] # None => sessions[j] # resp["shard"]
    <3> SUFFICES ASSUME NEW j \in Clients, sessions'[j] # None, sessions[j] = resp["shard"]
                 PROVE  FALSE
      BY Zenon
    <3>1. sessions[j] \in Conns /\ ClientId[sessions[j]] = j
      BY <1>3, Zenon DEF Types, TypeOK, Owners
    <3> QED
      BY <1>1, <1>3, <3>1, Distinct, Zenon
  <2> QED
    BY <1>0, <1>3, <2>1, SameQueues, Zenon DEF SessionHasConnection, miot
<1>8. Calls'
  <2>1. Batches'
    BY <1>0, <1>1, <1>2, Zenon DEF Calls, Batches, cluster, Client
  <2>2. MiotCalls' /\ Answers'
    BY <1>0, <1>3, Distinct, Zenon DEF MiotCalls, Answers, miot
  <2>3. FlusherCalls'
    BY <1>0, <1>1, <1>2, <1>3, Zenon DEF FlusherCalls, FlusherCall, cluster, miot
  <2> QED
    BY <2>1, <2>2, <2>3, Zenon DEF Calls
<1>9. Ending'
  <2>1. PanicsOnlyFor'
    BY <1>0, <1>2, Zenon DEF PanicsOnlyFor
  <2>2. sinner # "Close"
    BY <1>1, Zenon DEF ShardTakeOver, ShardFlush, ShardFailRemoved, Ending
  <2>3. spc' = spc \/ {spc, spc'} \cap {"close", "exit"} = {}
    BY <1>1, <1>2, Zenon
  <2> QED
    BY <1>0, <2>1, <2>2, <2>3, ShardEnding, Zenon DEF miot
<1> QED
  BY <1>4, <1>5, <1>6, <1>7, <1>8, <1>9, Zenon

\* The new session opens on a connection that the miot has, or had and has posted.
LEMMA ShardAddedStep ==
    ASSUME IInv, ~aborted, ShardAdded
    PROVE  IInv'
<1> USE DEF IInv
<1> DEFINE r == Head(sbatch)
           k == Client(r)
<1>0. /\ mreq = <<>> /\ fchan = <<>> /\ fbatch = <<>> /\ cpc # "close listener"
      /\ sbatch # <<>> /\ r.op = "add" /\ spc = "add" /\ spc' = "handle" /\ resp["shard"] = Ok
      /\ UNCHANGED <<aborted, clients, cluster, schan, sfull, sinner, failed, served, miot, flush>>
      /\ sbatch' = Tail(sbatch)
  BY CallAnswered, Distinct, Zenon DEF ShardAdded, Calls, Batches
<1>1. r \in Requests /\ r = Add(r.conn) /\ r.conn \in Conns /\ k \in Clients /\ ClientId[r.conn] = k
  BY <1>0, Typed, HasTail, RequestFields, ConnectionSizes, Zenon DEF Client
<1>2. /\ sbatch' \in Seq(Requests)
      /\ \A c \in Conns : Posted(c) => Posted(c)'
      /\ ~Has(sbatch, Close) => ~Has(sbatch', Close)
  BY <1>0, <1>1, NextInBatch, RequestFields, Zenon
<1>3. /\ sessions' \in [Clients -> Conns \cup {None}] /\ sessions'[k] = r.conn
      /\ \A j \in Clients : j # k => sessions'[j] = sessions[j]
      /\ resp' \in [{"cluster", "shard"} -> Conns \cup {Ok, NoResp}]
      /\ resp'["cluster"] = Ok /\ resp'["shard"] = NoResp
  BY <1>1 DEF ShardAdded, Types, TypeOK, Client
<1>4. Types'
  BY <1>0, <1>2, <1>3, Typed, ShardTypes, Zenon DEF miot, flush, Types, TypeOK
<1>5. Owners'
  BY <1>0, <1>1, <1>3, Zenon DEF Owners, miot
<1>6. AddedHasConnection'
  BY <1>3, Distinct, Zenon DEF AddedHasConnection
<1>7. SessionHasConnection'
  <2>1. mpc = "poll" => conns[k] = r.conn \/ Posted(r.conn)
    BY <1>0, Zenon DEF AddedHasConnection
  <2>2. \A j \in Clients : sessions[j] # None => sessions[j] \in Conns /\ sessions[j] # resp["shard"]
    BY <1>0, Distinct, Zenon DEF Types, TypeOK
  <2> QED
    BY <1>0, <1>1, <1>2, <1>3, <2>1, <2>2, Zenon DEF SessionHasConnection, miot
<1>8. Calls'
  BY <1>0, <1>3, Distinct, Zenon DEF Calls, Batches, MiotCalls, FlusherCalls, FlusherCall, Answers, cluster,
     miot, flush
<1>9. Ending'
  <2>1. PanicsOnlyFor' /\ UNCHANGED <<mpc, fpc>>
    BY <1>0, Zenon DEF PanicsOnlyFor, miot, flush
  <2>2. sinner # "Close" /\ {spc, spc'} \cap {"close", "exit"} = {}
    BY <1>0, Zenon DEF Ending
  <2> QED
    BY <1>0, <1>2, <2>1, <2>2, ShardEnding, Zenon
<1> QED
  BY <1>4, <1>5, <1>6, <1>7, <1>8, <1>9

\* The end of a flush, or of the removal of a failed session.
LEMMA ShardFlushedStep ==
    ASSUME IInv, ~aborted, ShardFlushed \/ ShardFailed
    PROVE  IInv'
<1> USE DEF IInv
<1>0. /\ mreq = <<>> /\ fchan = <<>> /\ fbatch = <<>> /\ cpc # "close listener"
      /\ resp["shard"] = Ok /\ resp' = [resp EXCEPT !["shard"] = NoResp]
      /\ UNCHANGED <<aborted, clients, cluster, schan, sfull, sinner, sessions, failed, served, miot, flush>>
      /\ spc' \in {"handle", "failed"} /\ spc \in {"flush", "failing"}
  BY CallAnswered, Distinct, Zenon DEF ShardFlushed, ShardFailed
<1>1. /\ resp' \in [{"cluster", "shard"} -> Conns \cup {Ok, NoResp}]
      /\ resp'["cluster"] \in {Ok, NoResp} /\ resp'["shard"] = NoResp
  BY <1>0, Zenon DEF Types, TypeOK
<1>2. /\ sbatch' \in Seq(Requests)
      /\ \A c \in Conns : sessions[ClientId[c]] = c /\ Posted(c) => Posted(c)'
      /\ ~Has(sbatch, Close) => ~Has(sbatch', Close)
      /\ spc' # "handle" => sbatch' = <<>>
  <2>1. CASE ShardFlushed
    <3>1. /\ sbatch # <<>> /\ sbatch' = Tail(sbatch) /\ spc' = "handle"
          /\ sessions[Client(Head(sbatch))] = None
      BY <2>1, Zenon DEF ShardFlushed, Calls, Batches
    <3>2. /\ sbatch' \in Seq(Requests)
          /\ \A c : Posted(c) /\ Flush(c) # Head(sbatch) => Posted(c)'
          /\ ~Has(sbatch, Close) => ~Has(sbatch', Close)
      BY <1>0, <3>1, NextInBatch, Zenon
    <3>3. ASSUME NEW c \in Conns, sessions[ClientId[c]] = c PROVE Flush(c) # Head(sbatch)
      BY <3>1, <3>3, RequestFields, Distinct DEF Client
    <3> QED
      BY <3>1, <3>2, <3>3
  <2>2. CASE ShardFailed
    BY <1>0, <2>2, Typed, SameQueues, Zenon DEF ShardFailed, Calls, Batches
  <2> QED
    BY <2>1, <2>2
<1>3. Types'
  BY <1>0, <1>1, <1>2, Typed, ShardTypes, Zenon DEF miot, flush, Types, TypeOK
<1>4. Owners'
  BY <1>0, Zenon DEF Owners, miot
<1>5. AddedHasConnection'
  BY <1>1, Distinct DEF AddedHasConnection
<1>6. SessionHasConnection'
  <2>1. \A j \in Clients : sessions[j] # None =>
            /\ sessions[j] \in Conns /\ sessions[ClientId[sessions[j]]] = sessions[j]
            /\ sessions[j] # resp["shard"]
    BY <1>0, Distinct, Zenon DEF Types, TypeOK, Owners
  <2> QED
    BY <1>0, <1>2, <2>1, Zenon DEF SessionHasConnection, miot
<1>7. Calls'
  BY <1>0, <1>1, <1>2, Distinct, Zenon DEF Calls, Batches, MiotCalls, FlusherCalls, FlusherCall, Answers, cluster,
     miot, flush
<1>8. Ending'
  <2>1. PanicsOnlyFor' /\ UNCHANGED <<mpc, fpc>>
    BY <1>0, Zenon DEF PanicsOnlyFor, miot, flush
  <2>2. sinner # "Close" /\ {spc, spc'} \cap {"close", "exit"} = {}
    BY <1>0, Zenon DEF Ending
  <2> QED
    BY <1>0, <1>2, <2>1, <2>2, ShardEnding, Zenon
<1> QED
  BY <1>3, <1>4, <1>5, <1>6, <1>7, <1>8

\* Requests to the miot that end sessions: of a failed one, and of all of them.
LEMMA ShardRemoves ==
    ASSUME IInv, ~aborted, ShardClose \/ \E k \in Clients : ShardFail(k)
    PROVE  IInv'
<1> USE DEF IInv
<1>0. /\ mreq = <<>> /\ fchan = <<>> /\ fbatch = <<>> /\ cpc # "close listener" /\ resp["shard"] = NoResp
      /\ UNCHANGED <<clients, cluster, schan, sbatch, sfull, sinner, sessions, served, mpc, conns, flush, resp>>
      /\ sinner # "Close" /\ spc \in {"handle", "failed"}
  BY NoCall, Zenon DEF ShardClose, ShardFail, Ending
<1>1. /\ mreq' \in Seq(Requests) /\ Len(mreq') <= 1 /\ aborted' \in BOOLEAN /\ woken' \in BOOLEAN
      /\ \/ /\ mreq' # <<>> /\ ~aborted'
            /\ \/ spc' = "close" /\ mreq'[1] = Close /\ sbatch # <<>> /\ ShardAsked
               \/ spc' = "failing" /\ sbatch = <<>> /\ \E k \in Clients : mreq'[1] = Remove(k)
         \/ mreq' = <<>> /\ spc' = spc /\ mpc = "panic"
      /\ failed' \subseteq Clients
  <2>1. CASE ShardClose
    <3>1. Has(sbatch, Close)
      BY <2>1, Typed, HasTail DEF ShardClose
    <3>2. RequestMiot(Close, "close") /\ failed' = failed /\ sbatch # <<>>
      BY <2>1 DEF ShardClose
    <3>3. ShardAsked
      BY <3>1 DEF Ending
    <3>4. /\ mreq' \in Seq(Requests) /\ Len(mreq') <= 1 /\ aborted' \in BOOLEAN /\ woken' \in BOOLEAN
          /\ \/ mreq' # <<>> /\ mreq'[1] = Close /\ spc' = "close" /\ ~aborted'
             \/ mreq' = <<>> /\ spc' = spc /\ mpc = "panic"
      BY <1>0, <3>2, RequestFields, MiotRequested, Zenon
    <3> QED
      BY <3>2, <3>3, <3>4 DEF Types, TypeOK
  <2>2. CASE \E k \in Clients : ShardFail(k)
    <3>0. PICK k \in Clients : ShardFail(k)
      BY <2>2
    <3>1. RequestMiot(Remove(k), "failing") /\ failed' \subseteq failed /\ sbatch = <<>>
      BY <3>0, Zenon DEF ShardFail, Calls, Batches
    <3>2. /\ mreq' \in Seq(Requests) /\ Len(mreq') <= 1 /\ aborted' \in BOOLEAN /\ woken' \in BOOLEAN
          /\ \/ mreq' # <<>> /\ mreq'[1] = Remove(k) /\ spc' = "failing" /\ ~aborted'
             \/ mreq' = <<>> /\ spc' = spc /\ mpc = "panic"
      BY <1>0, <3>1, RequestFields, MiotRequested, Zenon
    <3> QED
      BY <3>1, <3>2 DEF Types, TypeOK
  <2> QED
    BY <2>1, <2>2
<1>2. Types'
  BY <1>0, <1>1, Typed, ShardTypes, Zenon DEF flush, Types, TypeOK
<1>3. Owners' /\ SessionHasConnection'
  BY <1>0, SameQueues, Zenon DEF Owners, SessionHasConnection
<1>4. AddedHasConnection'
  BY <1>0, Distinct, Zenon DEF AddedHasConnection
<1>5. Calls'
  BY <1>0, <1>1, Distinct, Zenon DEF Calls, Batches, MiotCalls, FlusherCalls, FlusherCall, Answers, cluster, flush
<1>6. Ending'
  <2>1. PanicsOnlyFor' /\ ShardAsked' = ShardAsked /\ fpc' = fpc
    BY <1>0, <1>1, Zenon DEF PanicsOnlyFor, ShardAsked, cluster, flush
  <2>2. spc' \in {"close", "failing", spc} /\ (spc' = "close" => ShardAsked)
    BY <1>0, <1>1, Zenon
  <2> QED
    BY <1>0, <2>1, <2>2, Zenon DEF Ending, Has
<1> QED
  BY <1>2, <1>3, <1>4, <1>5, <1>6

\* The miot has closed, and the sessions with it.
LEMMA ShardMiotJoinedStep ==
    ASSUME IInv, ~aborted, ShardMiotJoined
    PROVE  IInv'
<1> USE DEF IInv
<1>0. /\ mreq = <<>> /\ fchan = <<>> /\ fbatch = <<>> /\ cpc # "close listener"
      /\ UNCHANGED <<aborted, clients, cluster, schan, sfull, failed, served, miot, flush>>
      /\ sbatch # <<>> /\ sbatch' = Tail(sbatch) /\ spc' = "handle" /\ sinner' = "Close" /\ spc = "close"
      /\ sessions' = [k \in Clients |-> None]
  BY CallAnswered, Distinct, Zenon DEF ShardMiotJoined, Calls, Batches
<1>1. /\ resp' \in [{"cluster", "shard"} -> Conns \cup {Ok, NoResp}]
      /\ resp'["cluster"] \in {Ok, NoResp} /\ resp'["shard"] = NoResp
  BY DEF ShardMiotJoined, Types, TypeOK
<1>2. sbatch' \in Seq(Requests)
  BY <1>0, NextInBatch, Zenon
<1>3. Types'
  BY <1>0, <1>1, <1>2, Typed, ShardTypes, Zenon DEF miot, flush, Types, TypeOK
<1>4. Owners' /\ SessionHasConnection' /\ AddedHasConnection'
  BY <1>0, Zenon DEF Owners, SessionHasConnection, AddedHasConnection, miot
<1>5. Calls'
  BY <1>0, <1>1, Distinct, Zenon DEF Calls, Batches, MiotCalls, FlusherCalls, FlusherCall, Answers, cluster,
     miot, flush
<1>6. Ending'
  <2>1. ShardAsked' /\ PanicsOnlyFor' /\ fpc' = fpc
    BY <1>0, Zenon DEF Ending, ShardAsked, PanicsOnlyFor, cluster, flush
  <2>2. fpc # "exit"
    BY <1>0, Zenon DEF Ending
  <2> QED
    BY <1>0, <2>1, <2>2, Zenon DEF Ending
<1> QED
  BY <1>3, <1>4, <1>5, <1>6

\* All of the shard.
LEMMA ShardSteps ==
    ASSUME IInv, ~aborted, ShardStep \/ ShardPanics
    PROVE  IInv'
<1>1. CASE ShardFails
  BY <1>1, AbortStep, Zenon DEF ShardFails
<1> QED
  BY <1>1, ShardRounds, ShardAdds, ShardFlushes, ShardAddedStep, ShardFlushedStep, ShardRemoves,
     ShardMiotJoinedStep DEF ShardStep
-----------------------------------------------------------------------------
(* The miot and the flusher.                                               *)

\* The types that a step of the miot or the flusher has to establish.
LEMMA MiotTypes ==
    ASSUME IInv, UNCHANGED <<aborted, clients, cluster, spc, sbatch, sfull, sinner, sessions, failed, served, flusher>>,
           woken' \in BOOLEAN, schan' \in Seq(Requests), mreq' \in Seq(Requests), Len(mreq') <= 1,
           fchan' \in Seq(Requests), Len(fchan') <= 1, fbatch' \in Seq(Requests),
           conns' \in [Clients -> Conns \cup {None}],
           resp' \in [{"cluster", "shard"} -> Conns \cup {Ok, NoResp}],
           resp'["cluster"] \in {Ok, NoResp}
    PROVE  Types'
BY DEF IInv, Types, TypeOK, clients, cluster

\* The connection that the shard waits for is there.
LEMMA MiotAddStep ==
    ASSUME IInv, ~aborted, MiotAdd
    PROVE  IInv'
<1> USE DEF IInv
<1> DEFINE r == Head(sbatch)
           k == Client(r)
<1>0. /\ UNCHANGED <<aborted, clients, cluster, shard, mpc, woken, flush>>
      /\ mpc = "poll" /\ mreq # <<>> /\ mreq' = <<>>
  BY Zenon DEF MiotAdd, clients
<1>1. /\ spc = "add" /\ mreq[1] = r /\ resp["shard"] = NoResp
      /\ sbatch # <<>> /\ sessions[k] = None /\ r.op = "add"
  <2>1. spc = "add" /\ mreq[1] = r /\ resp["shard"] = NoResp
    BY RequestFields, Zenon DEF MiotAdd, Calls, MiotCalls
  <2> QED
    BY <2>1, Zenon DEF Calls, Batches
<1>2. r.conn \in Conns /\ k \in Clients /\ ClientId[r.conn] = k
  BY <1>1, Typed, HasTail, RequestFields, ConnectionSizes, Zenon DEF Client
<1>3. fchan = <<>> /\ fbatch = <<>> /\ cpc # "close listener"
  BY <1>0, <1>1, Zenon DEF Calls, FlusherCalls, FlusherCall
<1>4. /\ conns' \in [Clients -> Conns \cup {None}] /\ conns'[k] = r.conn
      /\ \A j \in Clients : j # k => conns'[j] = conns[j]
      /\ resp' \in [{"cluster", "shard"} -> Conns \cup {Ok, NoResp}]
      /\ resp'["cluster"] \in {Ok, NoResp} /\ resp'["shard"] = Ok
  BY <1>1, <1>2 DEF MiotAdd, Respond, Types, TypeOK, Client
<1>5. Types'
  <2>1. mreq' \in Seq(Requests) /\ Len(mreq') <= 1
    BY <1>0, EmptySeq
  <2> QED
    BY <1>0, <1>4, <2>1, Typed, MiotTypes, Zenon DEF shard, flush, Types, TypeOK
<1>6. Owners'
  BY <1>0, <1>2, <1>4, Zenon DEF Owners, shard
<1>7. AddedHasConnection'
  BY <1>0, <1>4 DEF AddedHasConnection, shard, Client
<1>8. SessionHasConnection'
  <2>1. \A j \in Clients : sessions[j] # None => j # k /\ sessions[j] # resp["shard"]
    BY <1>1, Distinct DEF Types, TypeOK
  <2> QED
    BY <1>0, <1>4, <2>1, SameQueues, Zenon DEF SessionHasConnection, shard
<1>9. Calls'
  BY <1>0, <1>1, <1>3, <1>4, Distinct, Zenon DEF Calls, Batches, MiotCalls, FlusherCalls, FlusherCall, Answers,
     Client, cluster, shard, flush
<1>10. Ending'
  BY <1>0, ShardEnding, Zenon DEF PanicsOnlyFor, shard, flush
<1> QED
  BY <1>5, <1>6, <1>7, <1>8, <1>9, <1>10

\* What the miot removes for the shard is in its answer.
LEMMA MiotRemoveStep ==
    ASSUME IInv, ~aborted, MiotRemove
    PROVE  IInv'
<1> USE DEF IInv
<1> DEFINE k == mreq[1].client
<1>0. /\ UNCHANGED <<aborted, clients, cluster, shard, mpc, woken, flush>>
      /\ mpc = "poll" /\ mreq # <<>> /\ mreq' = <<>>
  BY DEF MiotRemove
<1>1. /\ resp["shard"] = NoResp /\ mreq[1] \in Requests
      /\ spc = "failing" \/ (spc = "take over" /\ mreq[1] = Remove(Client(Head(sbatch))))
  <2>1. mreq[1] \in Requests
    BY <1>0, Typed, HasTail
  <2>2. \A c \in Conns : Add(c).op # "remove"
    BY RequestFields
  <2>3. spc = "add" => Head(sbatch).op = "add"
    BY Zenon DEF Calls, Batches
  <2> QED
    BY <1>0, <2>1, <2>2, <2>3, RequestFields, Zenon DEF MiotRemove, Calls, MiotCalls
<1>2. k \in Clients /\ (spc = "take over" => k = Client(Head(sbatch)))
  <2>1. k \in Clients
    BY <1>1, RequestFields, Zenon DEF MiotRemove
  <2>2. ASSUME spc = "take over" PROVE k = Client(Head(sbatch))
    <3>1. Head(sbatch).conn \in Conns
      BY <2>2, Typed, HasTail, RequestFields, Zenon DEF Calls, Batches
    <3>2. Client(Head(sbatch)) \in Clients
      BY <3>1, ConnectionSizes DEF Client
    <3> QED
      BY <1>1, <2>2, <3>2, RequestFields, Zenon
  <2> QED
    BY <2>1, <2>2, Zenon
<1>3. fchan = <<>> /\ fbatch = <<>> /\ cpc # "close listener"
  BY <1>0, <1>1, Zenon DEF Calls, FlusherCalls, FlusherCall
<1>4. /\ conns' \in [Clients -> Conns \cup {None}] /\ conns'[k] = None
      /\ \A j \in Clients : j # k => conns'[j] = conns[j]
      /\ resp' \in [{"cluster", "shard"} -> Conns \cup {Ok, NoResp}]
      /\ resp'["cluster"] \in {Ok, NoResp}
      /\ resp'["shard"] = IF conns[k] = None THEN Ok ELSE conns[k]
  BY <1>2, Zenon DEF MiotRemove, Respond, Types, TypeOK
<1>5. Types'
  <2>1. mreq' \in Seq(Requests) /\ Len(mreq') <= 1
    BY <1>0, EmptySeq
  <2> QED
    BY <1>0, <1>4, <2>1, Typed, MiotTypes, Zenon DEF shard, flush, Types, TypeOK
<1>6. Owners'
  BY <1>0, <1>4, Zenon DEF Owners, shard
<1>7. AddedHasConnection'
  BY <1>0, <1>1 DEF AddedHasConnection, shard
<1>8. SessionHasConnection'
  <2>1. \A j \in Clients : sessions[j] # None => sessions[j] # resp["shard"]
    BY <1>1, Distinct, Zenon DEF Types, TypeOK
  <2> QED
    BY <1>0, <1>4, <2>1, SameQueues, Zenon DEF SessionHasConnection, shard
<1>9. Calls'
  <2>1. Batches' /\ MiotCalls' /\ FlusherCalls'
    BY <1>0, <1>3, Zenon DEF Calls, Batches, MiotCalls, FlusherCalls, FlusherCall, Client, cluster, shard, flush
  <2>2. conns[k] # None => ClientId[conns[k]] = k
    BY <1>2, Zenon DEF Owners
  <2>3. Answers'
    BY <1>0, <1>1, <1>2, <1>4, <2>2, Distinct, Zenon DEF Answers, Client, shard
  <2> QED
    BY <2>1, <2>3 DEF Calls
<1>10. Ending'
  BY <1>0, ShardEnding, Zenon DEF PanicsOnlyFor, shard, flush
<1> QED
  BY <1>5, <1>6, <1>7, <1>8, <1>9, <1>10

\* The miot closes, or panics.
LEMMA MiotEnds ==
    ASSUME IInv, ~aborted, MiotClose \/ MiotPanic
    PROVE  IInv'
<1> USE DEF IInv
<1>0. /\ UNCHANGED <<aborted, clients, cluster, shard, woken, flush>>
      /\ mpc' \in {"exit", "panic"} /\ conns' = [k \in Clients |-> None]
  BY DEF MiotClose, MiotPanic, clients
<1>1. /\ resp' \in [{"cluster", "shard"} -> Conns \cup {Ok, NoResp}]
      /\ resp'["cluster"] \in {Ok, NoResp}
  BY DEF MiotClose, MiotPanic, Respond, Types, TypeOK
<1>2. Types'
  <2>1. mreq' \in Seq(Requests) /\ Len(mreq') <= 1
    <3>1. <<>> \in Seq(Requests) /\ Len(<<>>) <= 1
      BY EmptySeq
    <3>2. mreq' \in {mreq, <<>>}
      BY DEF MiotClose, MiotPanic
    <3> QED
      BY <3>1, <3>2, Zenon DEF Types, TypeOK
  <2>2. conns' \in [Clients -> Conns \cup {None}]
    BY <1>0
  <2> QED
    BY <1>0, <1>1, <2>1, <2>2, Typed, MiotTypes, Zenon DEF shard, flush, Types, TypeOK
<1>3. Owners' /\ AddedHasConnection' /\ SessionHasConnection'
  BY <1>0 DEF Owners, AddedHasConnection, SessionHasConnection, shard
<1>4. CASE MiotPanic
  <2>1. mreq' = mreq /\ resp' = resp /\ mpc' = "panic"
    BY <1>4 DEF MiotPanic
  <2>2. Calls'
    BY <1>0, <2>1, Zenon DEF Calls, Batches, MiotCalls, FlusherCalls, FlusherCall, Answers, Client, cluster, shard, flush
  <2>3. Ending'
    BY <1>0, <2>1, Zenon DEF Ending, PanicsOnlyFor, ShardAsked, cluster, shard, flush
  <2> QED
    BY <1>2, <1>3, <2>2, <2>3
<1>5. CASE MiotClose
  <2>1. mreq # <<>> /\ mreq' = <<>> /\ resp'["shard"] = Ok
    BY <1>5 DEF MiotClose, Respond, Types
  <2>2. mreq[1] = Close
    BY <1>5 DEF MiotClose
  <2>3. spc = "close"
    BY <2>1, <2>2, RequestFields, Zenon DEF Calls, Batches, MiotCalls
  <2>4. fchan = <<>> /\ fbatch = <<>> /\ cpc # "close listener"
    BY <2>1, <2>3, Zenon DEF Calls, FlusherCalls, FlusherCall
  <2>5. Calls'
    BY <1>0, <2>1, <2>3, <2>4, Distinct, Zenon DEF Calls, Batches, MiotCalls, FlusherCalls, FlusherCall, Answers,
       Client, cluster, shard, flush
  <2>6. Ending'
    BY <1>0, <2>3, Zenon DEF Ending, PanicsOnlyFor, ShardAsked, cluster, shard, flush
  <2> QED
    BY <1>2, <1>3, <2>5, <2>6
<1> QED
  BY <1>4, <1>5

\* A connection that fails is posted as it leaves.
LEMMA MiotFailStep ==
    ASSUME IInv, ~aborted, NEW c \in Conns, MiotFail(c)
    PROVE  IInv'
<1> USE DEF IInv
<1>0. /\ UNCHANGED <<aborted, clients, cluster, spc, sbatch, sfull, sinner, sessions, failed, served, mpc, mreq, woken, flush, resp>>
      /\ conns[ClientId[c]] = c /\ schan' = Append(schan, Flush(c))
      /\ conns' = [conns EXCEPT ![ClientId[c]] = None]
  BY DEF MiotFail
<1>1. /\ schan' \in Seq(Requests)
      /\ \A r : Has(schan', r) <=> Has(schan, r) \/ r = Flush(c)
      /\ ~Has(schan, Close) => ~Has(schan', Close)
  <2>1. Flush(c) \in Requests /\ Flush(c) # Close
    BY RequestFields
  <2>2. schan \in Seq(Requests)
    BY Typed
  <2>3. /\ Append(schan, Flush(c)) \in Seq(Requests)
        /\ \A r : Has(Append(schan, Flush(c)), r) <=> Has(schan, r) \/ r = Flush(c)
    BY <2>1, <2>2, HasAppend
  <2> QED
    BY <1>0, <2>1, <2>3, Zenon
<1>2. \A d : Posted(d) \/ d = c => Posted(d)'
  <2>1. \A d : Posted(d)' <=> Has(schan', Flush(d)) \/ Has(sbatch', Flush(d))
    BY DEF Posted, Has
  <2> QED
    BY <1>0, <1>1, <2>1, Typed
<1>3. /\ conns' \in [Clients -> Conns \cup {None}]
      /\ \A j \in Clients : conns'[j] = conns[j] \/ (conns'[j] = None /\ conns[j] = c)
  BY <1>0, ConnectionSizes DEF Types, TypeOK
<1>4. Types'
  BY <1>0, <1>1, <1>3, Typed, MiotTypes, Zenon DEF flush, Types, TypeOK
<1>5. Owners'
  BY <1>0, <1>3, Zenon DEF Owners
<1>6. SessionHasConnection'
  BY <1>0, <1>2, <1>3, Zenon DEF SessionHasConnection
<1>7. AddedHasConnection'
  <2>1. spc = "add" => Client(Head(sbatch)) \in Clients
    BY Typed, HasTail, RequestFields, ConnectionSizes, Zenon DEF Calls, Batches, Client
  <2> QED
    BY <1>0, <1>2, <1>3, <2>1, Zenon DEF AddedHasConnection, Client
<1>8. Calls'
  BY <1>0, Zenon DEF Calls, Batches, MiotCalls, FlusherCalls, FlusherCall, Answers, Client, cluster, flush
<1>9. Ending'
  BY <1>0, <1>1, ShardEnding, Zenon DEF PanicsOnlyFor, flush
<1> QED
  BY <1>4, <1>5, <1>6, <1>7, <1>8, <1>9

\* The miot goes back to its poll.
LEMMA MiotSleepStep ==
    ASSUME IInv, ~aborted, MiotSleep
    PROVE  IInv'
<1> USE DEF IInv
<1>0. UNCHANGED <<aborted, clients, cluster, shard, mpc, mreq, conns, flush, resp>> /\ woken' = FALSE
  BY DEF MiotSleep
<1>1. Types'
  BY <1>0, Zenon DEF Types, TypeOK, clients, cluster, shard, flush
<1>2. Owners' /\ AddedHasConnection' /\ SessionHasConnection'
  BY <1>0, ConnectionsKept DEF shard
<1>3. Calls'
  BY <1>0, Zenon DEF Calls, Batches, MiotCalls, FlusherCalls, FlusherCall, Answers, Client, cluster, shard, flush
<1>4. Ending'
  BY <1>0, ShardEnding, Zenon DEF PanicsOnlyFor, shard, flush
<1> QED
  BY <1>1, <1>2, <1>3, <1>4

\* A queue of one, and what fits into it.
LEMMA OnlyOne == /\ \A m, n \in Nat : n > m /\ n <= 1 => n = 1 /\ m = 0
                 /\ \A q : Len(q) = 1 => q # <<>>
<1>1. \A m, n \in Nat : n > m /\ n <= 1 => n = 1 /\ m = 0
  OBVIOUS
<1>2. Len(<<>>) = 0 /\ 0 # 1
  BY EmptySeq
<1> QED
  BY <1>1, <1>2

\* The flusher takes, serves or drops its only request.
LEMMA FlusherSteps ==
    ASSUME IInv, ~aborted, FlusherStep \/ FlusherPanic
    PROVE  IInv'
<1> USE DEF IInv
<1>00. <<>> \in Seq(Requests) /\ Len(<<>>) = 0 /\ Len(<<>>) <= 1
  BY EmptySeq
<1>0. UNCHANGED <<aborted, clients, cluster, shard, miot, flusher>>
  BY Zenon DEF FlusherStep, FlusherTake, FlusherFlush, FlusherClose, FlusherPanic, clients
<1>1. fbatch # <<>> => fchan = <<>> /\ Len(fbatch) = 1 /\ Tail(fbatch) = <<>> /\ Head(fbatch) = fbatch[1]
  BY Typed, HasTail, Zenon DEF Calls, FlusherCalls, FlusherCall
<1>2. ASSUME fchan' = <<>>, fbatch' = <<>>,
             resp' \in [{"cluster", "shard"} -> Conns \cup {Ok, NoResp}],
             resp'["cluster"] \in {Ok, NoResp},
             \/ resp'["shard"] = resp["shard"]
             \/ resp'["shard"] = Ok /\ mreq = <<>> /\ spc \in {"taken over", "flush", "failing"} /\ resp["shard"] = NoResp,
             fpc' = "exit" => spc = "exit"
      PROVE  IInv'
  <2>1. Types'
    <3>1. fchan' \in Seq(Requests) /\ Len(fchan') <= 1 /\ fbatch' \in Seq(Requests)
      BY <1>00, <1>2, Zenon
    <3> QED
      BY <1>0, <1>2, <3>1, Typed, MiotTypes, Zenon DEF shard, miot, Types, TypeOK
  <2>2. Owners'
    BY <1>0, Zenon DEF Owners, shard, miot
  <2>3. AddedHasConnection'
    BY <1>0, <1>2, Zenon DEF AddedHasConnection, shard, miot, Posted, Client
  <2>4. SessionHasConnection'
    <3>1. \A j \in Clients : sessions[j] # None => sessions[j] # NoResp
      BY Distinct DEF Types, TypeOK
    <3> QED
      BY <1>0, <1>2, <3>1, Zenon DEF SessionHasConnection, shard, miot, Posted
  <2>5. Calls'
    <3>1. Batches'
      BY <1>0, Zenon DEF Calls, Batches, Client, cluster, shard
    <3>2. MiotCalls'
      BY <1>0, <1>2, Zenon DEF Calls, MiotCalls, Client, shard, miot
    <3>3. FlusherCalls'
      BY <1>0, <1>2, Zenon DEF Calls, FlusherCalls, FlusherCall, cluster, shard
    <3>4. Answers'
      BY <1>0, <1>2, Distinct, Zenon DEF Calls, Answers, Client, shard
    <3> QED
      BY <3>1, <3>2, <3>3, <3>4 DEF Calls
  <2>6. Ending'
    BY <1>0, <1>2, Zenon DEF Ending, PanicsOnlyFor, ShardAsked, cluster, shard, miot
  <2> QED
    BY <2>1, <2>2, <2>3, <2>4, <2>5, <2>6
<1>3. CASE FlusherTake
  <2>1. fchan # <<>> /\ Len(fchan) = 1 /\ flusher.max = 0
    <3>1. flusher.max \in Nat /\ Len(fchan) \in Nat
      BY ConnectionSizes, Typed, LenProperties DEF Types
    <3>2. Len(fchan) > flusher.max /\ Len(fchan) <= 1
      BY <1>3 DEF FlusherTake, Types, TypeOK
    <3>3. Len(fchan) = 1 /\ flusher.max = 0
      BY <3>1, <3>2, OnlyOne, Zenon
    <3> QED
      BY <1>00, <3>3
  <2>2. fbatch' = SubSeq(fchan, 1, 1) /\ fchan' = SubSeq(fchan, 2, 1)
    BY <1>3, <2>1 DEF FlusherTake
  <2>3. /\ fbatch' \in Seq(Requests) /\ Len(fbatch') = 1 /\ fbatch'[1] = fchan[1] /\ fbatch' # <<>>
    <3>1. \A i \in 1..1 : fchan[i] \in Requests
      BY <2>1, Typed, ElementOfSeq
    <3>2. /\ SubSeq(fchan, 1, 1) \in Seq(Requests)
          /\ Len(SubSeq(fchan, 1, 1)) = IF 1 <= 1 THEN 1 - 1 + 1 ELSE 0
          /\ \A i \in 1..1 - 1 + 1 : SubSeq(fchan, 1, 1)[i] = fchan[1 + i - 1]
      BY <3>1, SubSeqProperties
    <3>3. Len(SubSeq(fchan, 1, 1)) = 1 /\ SubSeq(fchan, 1, 1)[1] = fchan[1]
      BY <3>2
    <3>4. SubSeq(fchan, 1, 1) # <<>>
      BY <3>3, OnlyOne, Zenon
    <3> QED
      BY <2>2, <3>2, <3>3, <3>4
  <2>4. fchan' = <<>>
    BY <2>2, SubSeqEmpty
  <2>5. UNCHANGED <<fpc, resp>>
    BY <1>3 DEF FlusherTake
  <2>6. Types'
    <3>1. fchan' \in Seq(Requests) /\ Len(fchan') <= 1
      BY <2>4, EmptySeq
    <3> QED
      BY <1>0, <2>3, <2>5, <3>1, Typed, MiotTypes, Zenon DEF shard, miot, Types, TypeOK
  <2>7. Owners' /\ AddedHasConnection' /\ SessionHasConnection'
    BY <1>0, <2>5, ConnectionsKept DEF shard, miot
  <2>8. Calls'
    <3>1. Batches' /\ MiotCalls' /\ Answers'
      BY <1>0, <2>5, Zenon DEF Calls, Batches, MiotCalls, Answers, Client, cluster, shard, miot
    <3>2. FlusherCalls'
      BY <1>0, <2>1, <2>3, <2>4, <2>5, Zenon DEF Calls, FlusherCalls, FlusherCall, cluster, shard, miot
    <3> QED
      BY <3>1, <3>2 DEF Calls
  <2>9. Ending'
    BY <1>0, <2>5, ShardEnding, Zenon DEF PanicsOnlyFor, shard, miot
  <2> QED
    BY <2>6, <2>7, <2>8, <2>9
<1>4. CASE FlusherFlush
  <2>1. fbatch # <<>> /\ fbatch[1].op = "flush" /\ fpc = "run" /\ fpc' = fpc
    BY <1>1, <1>4, Zenon DEF FlusherFlush
  <2>2. mreq = <<>> /\ spc \in {"taken over", "flush", "failing"} /\ resp["shard"] = NoResp
    BY <2>1, RequestFields, Zenon DEF Calls, FlusherCalls, FlusherCall
  <2>3. /\ resp' \in [{"cluster", "shard"} -> Conns \cup {Ok, NoResp}]
        /\ resp'["cluster"] \in {Ok, NoResp} /\ resp'["shard"] = Ok
    BY <1>4 DEF FlusherFlush, Respond, Types, TypeOK
  <2> QED
    BY <1>1, <1>2, <1>4, <2>1, <2>2, <2>3, Zenon DEF FlusherFlush
<1>5. CASE FlusherClose
  <2>1. fbatch # <<>> /\ fbatch[1] = Close /\ fchan' = fchan /\ fbatch' = <<>>
    BY <1>1, <1>5 DEF FlusherClose
  <2>2. spc = "exit"
    BY <2>1, RequestFields, Zenon DEF Calls, FlusherCalls, FlusherCall
  <2>3. /\ resp' \in [{"cluster", "shard"} -> Conns \cup {Ok, NoResp}]
        /\ resp'["cluster"] \in {Ok, NoResp} /\ resp'["shard"] = resp["shard"]
    BY <1>5 DEF FlusherClose, Respond, Types, TypeOK
  <2> QED
    BY <1>0, <1>1, <1>2, <2>1, <2>2, <2>3
<1>6. CASE FlusherPanic
  <2>1. UNCHANGED <<fchan, fbatch, resp>> /\ fpc' = "panic"
    BY <1>6 DEF FlusherPanic
  <2>2. Types'
    BY <1>0, <2>1, Typed, MiotTypes, Zenon DEF shard, miot, Types, TypeOK
  <2>3. Owners' /\ AddedHasConnection' /\ SessionHasConnection'
    BY <1>0, <2>1, ConnectionsKept DEF shard, miot
  <2>4. Calls'
    BY <1>0, <2>1, Zenon DEF Calls, Batches, MiotCalls, FlusherCalls, FlusherCall, Answers, Client, cluster, shard, miot
  <2>5. Ending'
    BY <1>0, <2>1, Zenon DEF Ending, PanicsOnlyFor, ShardAsked, cluster, shard, miot
  <2> QED
    BY <2>2, <2>3, <2>4, <2>5
<1> QED
  BY <1>3, <1>4, <1>5, <1>6 DEF FlusherStep
-----------------------------------------------------------------------------
\* Every step of every thread keeps the invariant.
LEMMA NextIInv == IInv /\ [Next]_vars => IInv'
<1> SUFFICES ASSUME IInv, [Next]_vars PROVE IInv'
  OBVIOUS
<1>1. CASE Next
  <2>1. ~aborted
    BY <1>1 DEF Next
  <2>2. CASE \E c \in Conns : MiotFail(c)
    BY <2>1, <2>2, MiotFailStep
  <2>3. CASE MiotRequest \/ MiotSleep \/ MiotPanic
    BY <2>1, <2>3, MiotAddStep, MiotRemoveStep, MiotEnds, MiotSleepStep DEF MiotRequest
  <2>4. CASE \/ \E c \in Conns : Handshake(c) \/ Break(c)
             \/ Accept \/ AppClose \/ AppJoin
    BY <2>1, <2>4, ClientsStep
  <2> QED
    BY <1>1, <2>1, <2>2, <2>3, <2>4, ClusterSteps, ShardSteps, FlusherSteps DEF Next, Panics
<1>2. CASE UNCHANGED vars
  <2> USE <1>2 DEF vars, clients, cluster, shard, miot, flush, IInv
  <2>1. Types'
    BY DEF Types, TypeOK
  <2>2. Owners' /\ AddedHasConnection' /\ SessionHasConnection'
    BY ConnectionsKept
  <2>3. Calls'
    BY Zenon DEF Calls, Batches, MiotCalls, FlusherCalls, FlusherCall, Answers, Client
  <2>4. Ending'
    BY Zenon DEF Ending, PanicsOnlyFor, ShardAsked
  <2> QED
    BY <2>1, <2>2, <2>3, <2>4
<1> QED
  BY <1>1, <1>2

\* For all clients, connections, batches and flushers: the invariant of the threads.
THEOREM Invariance == Spec => []IInv
BY InitIInv, NextIInv, PTL DEF Spec

\* Requests and answers have their types, and no more than one of them is under way to
\* the miot and to the flusher (the blocking requests of shard.rs).
THEOREM TypeCorrect == Spec => []TypeOK
<1>1. IInv => TypeOK
  BY DEF IInv, Types
<1> QED
  BY <1>1, Invariance, PTL

\* No session is left without its connection (handle_add_session and
\* handle_flush_connection of shard.rs, the handlers of miot.rs).
THEOREM SessionsConnected == Spec => []SessionHasConnection
<1>1. IInv => SessionHasConnection
  BY DEF IInv
<1> QED
  BY <1>1, Invariance, PTL

\* Cluster, shard, miot and flusher never fail each other, whatever connections do and
\* whenever the node is closed: what aborts the process began with a panic of a thread
\* in code of its own, or with a flusher that shards cannot ask (RequestMiot,
\* RequestFlusher and the answers that cluster.rs and shard.rs take for granted).
THEOREM PanicsHaveCauses == Spec => []PanicsOnlyFor
<1>1. IInv => PanicsOnlyFor
  BY DEF IInv, Ending
<1> QED
  BY <1>1, Invariance, PTL

\* No connection is lost on its way out of the miot (handle_remove_connection and
\* socket_to_session of miot.rs).
THEOREM NoSocketLost == Spec => SocketsHandedOver
<1> DEFINE HandedOver == \A c \in Conns :
             conns[ClientId[c]] = c /\ conns'[ClientId[c]] # c /\ Open(mpc') =>
               c \in Orphans \/ resp'["shard"] = c \/ Posted(c)'
<1>1. IInv /\ [Next]_vars => [HandedOver]_vars
  <2> SUFFICES ASSUME IInv, Next, NEW c \in Conns,
                      conns[ClientId[c]] = c, conns'[ClientId[c]] # c, Open(mpc')
               PROVE  c \in Orphans \/ resp'["shard"] = c \/ Posted(c)'
    BY Zenon
  <2> USE DEF IInv
  <2>0. ClientId[c] \in Clients /\ c # None
    BY ConnectionSizes, Distinct
  <2>1. MiotAdd \/ MiotRemove \/ MiotClose \/ MiotPanic \/ \E d \in Conns : MiotFail(d)
    <3>1. ~UNCHANGED conns
      OBVIOUS
    <3>2. ClusterStep \/ ClusterPanics \/ FlusherStep \/ FlusherPanic \/ Accept \/ AppClose \/ AppJoin => UNCHANGED conns
      BY Zenon DEF ClusterStep, ClusterDrain, ClusterDone, ClusterAdd, ClusterAdded, ClusterClose,
         ClusterShardJoined, ClusterListenerJoined, ClusterFlusherJoined, ClusterFails, Abort,
         ClusterPanics, FlusherStep, FlusherTake, FlusherFlush, FlusherClose, FlusherPanic, Accept,
         AppClose, AppJoin, miot
    <3>3. ShardStep \/ ShardPanics \/ MiotSleep => UNCHANGED conns
      BY Zenon DEF ShardStep, ShardDrain, ShardDone, ShardClosed, ShardAdd, ShardTakeOver, ShardTakenOver,
         ShardAdded, ShardFlush, ShardFlushed, ShardClose, ShardMiotJoined, ShardRound, ShardFail,
         ShardFailRemoved, ShardFailed, ShardRoundDone, ShardFails, ShardPanics, MiotSleep, Abort, miot
    <3>4. (\E d \in Conns : Handshake(d) \/ Break(d)) => UNCHANGED conns
      BY Zenon DEF Handshake, Refuse, Connect, ConnectFails, Break, miot
    <3> QED
      BY <3>1, <3>2, <3>3, <3>4 DEF Next, MiotRequest, Panics
  <2>2. CASE MiotAdd
    <3>1. spc = "add" /\ mreq[1] = Head(sbatch)
      BY <2>2, RequestFields, Zenon DEF MiotAdd, Calls, MiotCalls
    <3>2. sessions[Client(Head(sbatch))] = None
      BY <3>1, Zenon DEF Calls, Batches
    <3>3. conns' = [conns EXCEPT ![Client(Head(sbatch))] = Head(sbatch).conn]
      BY <2>2, <3>1, Zenon DEF MiotAdd, Client
    <3>4. ClientId[c] = Client(Head(sbatch)) /\ c # Head(sbatch).conn
      BY <2>0, <3>3, Zenon DEF Types, TypeOK
    <3> QED
      BY <2>0, <3>2, <3>4, Zenon DEF Orphans
  <2>3. CASE MiotRemove
    <3>1. /\ conns' = [conns EXCEPT ![mreq[1].client] = None]
          /\ resp' = [resp EXCEPT !["shard"] = IF conns[mreq[1].client] = None THEN Ok
                                               ELSE conns[mreq[1].client]]
      BY <2>3, Zenon DEF MiotRemove, Respond
    <3>2. mreq[1].client = ClientId[c]
      BY <2>0, <3>1 DEF Types, TypeOK
    <3> QED
      BY <2>0, <3>1, <3>2, Zenon DEF Types
  <2>4. CASE MiotClose \/ MiotPanic
    BY <2>4, Zenon DEF MiotClose, MiotPanic, Open
  <2>5. CASE \E d \in Conns : MiotFail(d)
    <3>1. PICK d \in Conns : MiotFail(d)
      BY <2>5, Zenon
    <3>2. c = d
      BY <2>0, <3>1, Zenon DEF MiotFail, Types, TypeOK
    <3>3. Has(schan', Flush(c))
      BY <3>1, <3>2, Typed, HasAppend, RequestFields, Zenon DEF MiotFail
    <3> QED
      BY <3>3, Zenon DEF Posted, Has
  <2> QED
    BY <2>1, <2>2, <2>3, <2>4, <2>5, Zenon
<1> QED
  BY <1>1, Invariance, PTL DEF Spec, SocketsHandedOver
=============================================================================
