------------------------------- MODULE Retain -------------------------------
(***************************************************************************)
(* Retained messages in the cluster thread (cluster.rs): the posts of the  *)
(* sessions (Session::book_retain), the retained trie, the index           *)
(* retain_topics, the timer of messages that expire, and the part of the   *)
(* main loop that deals with them:                                         *)
(*   poll    waits for the waker, which posts and the ticker trigger;      *)
(*   drain   handles the control channel until it is empty;                *)
(*   expire  retain_expires.                                               *)
(* "panic" is a panic that has ended the thread.  The retained trie is     *)
(* only used by this thread: nothing calls match_topic_filter.             *)
(***************************************************************************)
EXTENDS TimerList, TopicIndex, FiniteSetsExt

CONSTANTS TopicNames,   \* paths of level names
          Secs,         \* message_expiry_intervals
          NoExpiry,
          Ids,          \* bound: Retains of one topic at a time, as numbers
          MaxPosts,     \* bound: requests in the channel
          MaxElapsed    \* bound: seconds between two calls of expired()

ASSUME Intervals == Secs \subseteq Nat /\ NoExpiry \notin Nat
ASSUME RetainSizes == /\ TopicNames \subseteq Seq(STRING) \ {<<>>}
                      /\ Ids \subseteq Nat /\ MaxElapsed \in Nat

VARIABLES phase,
          chan,             \* the control channel
          retain_topics,    \* topic-name -> Retain
          trie,             \* retained_messages
          list, elapsed,    \* retain_timer, and the seconds since its instant
          deleted,          \* Retains marked as deleted
          last              \* history: the last message posted for each topic, until it expires

vars == <<phase, chan, retain_topics, trie, list, elapsed, deleted, last>>
timer == <<list, elapsed, deleted>>

\* A request carries a number that tells the messages of one topic apart.
SetRetainTopic(t, id, secs) == [op |-> "set", topic |-> t, id |-> id, secs |-> secs]
ResetRetainTopic(t) == [op |-> "reset", topic |-> t]
Retain(t, id) == [topic |-> t, id |-> id]

Retained == [t \in Topics(trie) |-> CHOOSE m \in trie[t] : TRUE]

\* The BTreeMap f without the key t.
Without(f, t) == [u \in DOMAIN f \ {t} |-> f[u]]

Init == /\ phase = "poll"
        /\ chan = <<>>
        /\ retain_topics = [t \in {} |-> Retain(t, 0)]
        /\ trie = Empty
        /\ list = <<>> /\ elapsed = 0 /\ deleted = {}
        /\ last = [t \in {} |-> 0]

Tick == /\ phase # "panic" /\ elapsed < MaxElapsed
        /\ elapsed' = elapsed + 1
        /\ UNCHANGED <<phase, chan, retain_topics, trie, list, deleted, last>>

\* Numbers that tell a new message of t from those that are still somewhere.
Fresh(t) == {id \in Ids : /\ Retain(t, id) \notin ValuesOf(list)
                          /\ t \in DOMAIN retain_topics => retain_topics[t].id # id
                          /\ \A i \in DOMAIN chan : chan[i] # ResetRetainTopic(t)
                                  /\ chan[i].topic = t => chan[i].id # id}

\* book_retain of a session: a PUBLISH with the retain flag and a payload, ...
\* (A post to a thread that has panicked fails.)
PostSet(t, secs) ==
    /\ phase # "panic" /\ Len(chan) < MaxPosts
    /\ Fresh(t) # {}
    /\ LET id == Min(Fresh(t))
       IN /\ chan' = Append(chan, SetRetainTopic(t, id, secs))
          /\ last' = [u \in DOMAIN last \cup {t} |-> IF u = t THEN id ELSE last[u]]
    /\ UNCHANGED <<phase, retain_topics, trie, timer>>

\* ... or without one.
PostReset(t) ==
    /\ phase # "panic" /\ Len(chan) < MaxPosts
    /\ chan' = Append(chan, ResetRetainTopic(t))
    /\ last' = Without(last, t)
    /\ UNCHANGED <<phase, retain_topics, trie, timer>>
-----------------------------------------------------------------------------
Poll == /\ phase = "poll"
        /\ phase' = "drain"
        /\ UNCHANGED <<chan, retain_topics, trie, timer, last>>

\* BTreeMap::insert and remove return the old Retain, which is deleted.  The
\* flag is of no consequence if the timer does not hold it.
Replaced(t) == {r \in ValuesOf(list) : t \in DOMAIN retain_topics /\ r = retain_topics[t]}

\* Mutant of handle_set_retain_topic: the replaced Retain is not deleted.
handle_set_keeps_old(t, id, secs) ==
    /\ retain_topics' = [u \in DOMAIN retain_topics \cup {t} |->
                            IF u = t THEN Retain(t, id) ELSE retain_topics[u]]
    /\ deleted' = deleted
    /\ trie' = set(trie, t, id)
    /\ list' = IF secs = NoExpiry THEN list
               ELSE add_timeout(list, saturating_sub(secs, elapsed), Retain(t, id))

handle_set_retain_topic(t, id, secs) ==
    /\ retain_topics' = [u \in DOMAIN retain_topics \cup {t} |->
                            IF u = t THEN Retain(t, id) ELSE retain_topics[u]]
    /\ deleted' = deleted \cup Replaced(t)
    /\ trie' = set(trie, t, id)
    /\ list' = IF secs = NoExpiry THEN list
               ELSE add_timeout(list, saturating_sub(secs, elapsed), Retain(t, id))

\* Mutant of handle_reset_retain_topic: the message stays in the trie.
handle_reset_keeps_trie(t) ==
    /\ retain_topics' = Without(retain_topics, t)
    /\ deleted' = deleted \cup Replaced(t)
    /\ trie' = trie
    /\ list' = list

handle_reset_retain_topic(t) ==
    /\ retain_topics' = Without(retain_topics, t)
    /\ deleted' = deleted \cup Replaced(t)
    /\ trie' = IF remove_panics(trie, t) THEN trie ELSE remove(trie, t)
    /\ list' = list

\* One request of a batch.  A Set never panics; a Reset does if the topic is an
\* inner node of the trie without a message of its own.
HandleSet == /\ phase = "drain" /\ chan # <<>>
             /\ LET req == Head(chan)
                IN /\ req.op = "set"
                   /\ handle_set_retain_topic(req.topic, req.id, req.secs)
             /\ chan' = Tail(chan)
             /\ UNCHANGED <<phase, elapsed, last>>

HandleReset == /\ phase = "drain" /\ chan # <<>>
               /\ Head(chan).op = "reset"
               /\ handle_reset_retain_topic(Head(chan).topic)
               /\ phase' = IF remove_panics(trie, Head(chan).topic) THEN "panic" ELSE "drain"
               /\ chan' = Tail(chan)
               /\ UNCHANGED <<elapsed, last>>

DrainDone == /\ phase = "drain" /\ chan = <<>>
             /\ phase' = "expire"
             /\ UNCHANGED <<chan, retain_topics, trie, timer, last>>

\* retain_expires, when gc comes upon a timer that is not deleted: unreachable!().
GcPanics == /\ phase = "expire"
            /\ gc_panics(list, deleted)
            /\ phase' = "panic"
            /\ UNCHANGED <<chan, retain_topics, trie, timer, last>>

\* retain_expires otherwise: what expired() returns is taken out of the trie and
\* of the index.  An item that is missing from the index is unreachable!().
RetainExpires ==
    /\ phase = "expire"
    /\ ~gc_panics(list, deleted)
    /\ LET collected == gc(list, deleted)
           expired == Expires(collected, deleted, elapsed)
           gone == {r.topic : r \in expired}
       IN /\ phase' = IF gone \subseteq DOMAIN retain_topics THEN "poll" ELSE "panic"
          /\ retain_topics' = [t \in DOMAIN retain_topics \ gone |-> retain_topics[t]]
          /\ trie' = FoldSet(LAMBDA t, T : remove(T, t), trie, gone)
          /\ list' = Remaining(collected, elapsed)
          /\ elapsed' = 0
          /\ deleted' = deleted \cap ValuesOf(list')
          /\ last' = [t \in {u \in DOMAIN last : Retain(u, last[u]) \notin expired} |-> last[t]]
    /\ UNCHANGED chan

Next == \/ Tick
        \/ \E t \in TopicNames, secs \in Secs \cup {NoExpiry} : PostSet(t, secs)
        \/ \E t \in TopicNames : PostReset(t)
        \/ Poll
        \/ HandleSet
        \/ HandleReset
        \/ DrainDone
        \/ GcPanics
        \/ RetainExpires

Spec == Init /\ [][Next]_vars
-----------------------------------------------------------------------------
TypeOK == /\ phase \in {"poll", "drain", "expire", "panic"}
          /\ \A i \in DOMAIN chan : chan[i].op \in {"set", "reset"} /\ chan[i].topic \in TopicNames
          /\ Topics(trie) \subseteq TopicNames
          /\ ValuesOf(list) \cup deleted \subseteq [topic : TopicNames, id : Ids]
          /\ \A i \in DOMAIN list : list[i].delta \in Nat
          /\ elapsed \in 0..MaxElapsed

\* Between requests, as long as the thread lives, the trie holds exactly one
\* message for each topic of retain_topics, the one the index names; and once
\* the channel is drained that is the last one a session has posted and that
\* has not expired.
LastPostRetained ==
    phase # "panic" =>
        /\ Retained = [t \in DOMAIN retain_topics |-> retain_topics[t].id]
        /\ chan = <<>> => Retained = last

\* A timer that has not been deleted belongs to the message that is retained
\* now, whatever was replaced or reset while its timer ran: the expiry of an
\* old message cannot remove a newer one, and every Retain that is replaced or
\* reset has been marked.
TimersAreCurrent ==
    \A r \in ValuesOf(list) \ deleted :
        r.topic \in DOMAIN retain_topics /\ retain_topics[r.topic] = r
=============================================================================
