-------------------------- MODULE FirebaseDatabase --------------------------
(***************************************************************************)
(* One Firebase Realtime Database client, the list it observes and writes  *)
(* to, and the server.                                                     *)
(*                                                                         *)
(* A write shows up locally at once (FSyncTree's pending writes), is put   *)
(* on the connection, and is put again after every reconnection until the  *)
(* server answers it.  The list is listened to, once per connection: a     *)
(* snapshot, then one message per new child.  Both answers are events for  *)
(* the main queue.  The server works on a listen while it answers puts, so *)
(* a put can be answered before the snapshot that holds it; the client     *)
(* keeps such an answer until no listen is unanswered.                     *)
(*                                                                         *)
(* Not modelled: removed or changed children (no app writes any), denied   *)
(* listens, and the disk cache (no app enables it).                        *)
(***************************************************************************)
EXTENDS Naturals, Sequences, Filters

CONSTANTS KeyOrder, \* the push ids, in their (lexicographic) order
          Chats     \* the observers one launch can register

Keys == {KeyOrder[i] : i \in DOMAIN KeyOrder}

ASSUME KeyOrderAssumption ==
  /\ KeyOrder \in Seq(Keys)
  /\ \A i, j \in DOMAIN KeyOrder : KeyOrder[i] = KeyOrder[j] => i = j

VARIABLES messages,    \* the server: the children of Messages
          subscribed,  \* the server: it pushes new children to this connection
          loading,     \* the server: listens it has yet to answer
          up,          \* requests on their way to the server
          down,        \* answers and pushes on their way to the client
          conn,        \* connectionState
          puts,        \* outstandingPuts, in index order
          unacked,     \* unackedListensCount
          putsToAck,   \* answered puts whose answer waits for a listen's
          status,      \* the fate of each write, as the client knows it
          observers,   \* the event registrations of the view, in order
          serverCache, \* the view's server cache
          complete,    \* ... and whether it is fully initialized
          eventCache,  \* the view's event cache: what the observers were told
          events       \* main queue: child-added events and completion blocks

serverVars == <<messages, subscribed, loading>>
wireVars == <<up, down, conn, puts, unacked, putsToAck>>
viewVars == <<observers, serverCache, complete, eventCache>>
dbVars == <<serverVars, wireVars, status, viewVars, events>>

-----------------------------------------------------------------------------
AUTH == [type |-> "auth"]
Listen(cache) == [type |-> "listen", cache |-> cache]
Put(k) == [type |-> "put", key |-> k]
PutRequests == [type : {"put"}, key : Keys]
Request == {AUTH} \cup [type : {"listen"}, cache : SUBSET Keys] \cup PutRequests

AUTH_OK == [type |-> "authOk"]
LISTEN_OK == [type |-> "listenOk"]
Snapshot(S) == [type |-> "snapshot", data |-> S]
Child(k) == [type |-> "child", key |-> k]
PutAnswer(k, ok) == [type |-> "put", key |-> k, ok |-> ok]
PutAnswers == [type : {"put"}, key : Keys, ok : BOOLEAN]
Response == {AUTH_OK, LISTEN_OK} \cup [type : {"snapshot"}, data : SUBSET Keys]
                                 \cup [type : {"child"}, key : Keys]
                                 \cup PutAnswers

Added(v, k) == [type |-> "added", screen |-> v, key |-> k]
Answered(k, ok) == [type |-> "answered", key |-> k, ok |-> ok]
Event == [type : {"added"}, screen : Chats, key : Keys]
         \cup [type : {"answered"}, key : Keys, ok : BOOLEAN]

DatabaseTypeOK ==
  /\ messages \in SUBSET Keys
  /\ subscribed \in BOOLEAN
  /\ loading \in Seq(SUBSET Keys)
  /\ up \in Seq(Request)
  /\ down \in Seq(Response)
  /\ conn \in {"down", "authenticating", "up"}
  /\ puts \in Seq(Keys)
  /\ unacked \in Nat
  /\ putsToAck \in Seq(PutAnswers)
  /\ status \in [Keys -> {"unsent", "pending", "saved", "refused", "lost"}]
  /\ observers \in Seq(Chats)
  /\ serverCache \in SUBSET Keys
  /\ complete \in BOOLEAN
  /\ eventCache \in SUBSET Keys
  /\ events \in Seq(Event)

DatabaseInit ==
  /\ messages = {}
  /\ subscribed = FALSE
  /\ loading = <<>>
  /\ up = <<>>
  /\ down = <<>>
  /\ conn = "down"
  /\ puts = <<>>
  /\ unacked = 0
  /\ putsToAck = <<>>
  /\ status = [k \in Keys |-> "unsent"]
  /\ observers = <<>>
  /\ serverCache = {}
  /\ complete = FALSE
  /\ eventCache = {}
  /\ events = <<>>

-----------------------------------------------------------------------------
\* The pending writes of the sync tree.
Pending == {k \in Keys : status[k] = "pending"}

Listening == observers # <<>>

Sorted(S) == Among(KeyOrder, S)

(***************************************************************************)
(* The events for the children of S that the view has just gained: sorted  *)
(* by key, and for each key one event per registration.                    *)
(***************************************************************************)
Raised(S) ==
  LET ks == Sorted(S)
      n == Len(observers)
  IN [i \in 1 .. Len(ks) * n |->
        Added(observers[((i - 1) % n) + 1], ks[((i - 1) \div n) + 1])]

\* The event cache becomes new; children it loses raise nothing here.
Viewed(new) == eventCache' = new

Gained(new) == Raised(new \ eventCache)

Requests(ks) == [i \in 1 .. Len(ks) |-> Put(ks[i])]

-----------------------------------------------------------------------------
(* The app's calls.                                                        *)

(***************************************************************************)
(* observe(.childAdded): the first registration creates the view, with the *)
(* pending writes it covers, and listens; a later one is told at once of   *)
(* what the view shows.                                                    *)
(***************************************************************************)
Observe(v) ==
  /\ observers' = Append(observers, v)
  /\ events' = events \o [i \in 1 .. Len(Sorted(eventCache)) |->
                            Added(v, Sorted(eventCache)[i])]
  /\ IF ~Listening /\ conn # "down"
     THEN /\ up' = Append(up, Listen(serverCache))
          /\ unacked' = unacked + 1
     ELSE UNCHANGED <<up, unacked>>
  /\ UNCHANGED <<serverVars, down, conn, puts, putsToAck, status, serverCache,
                 complete, eventCache>>

\* childByAutoId().setValue(...): the local events, then the put.
SetValue(k) ==
  /\ status[k] = "unsent"
  /\ status' = [status EXCEPT ![k] = "pending"]
  /\ Viewed(eventCache \cup {k})
  /\ events' = events \o Gained(eventCache \cup {k})
  /\ puts' = Append(puts, k)
  /\ up' = IF conn = "up" THEN Append(up, Put(k)) ELSE up
  /\ UNCHANGED <<serverVars, down, conn, unacked, putsToAck, observers,
                 serverCache, complete>>

-----------------------------------------------------------------------------
(* The connection.                                                         *)

\* Mutant: after a reconnection only the puts are sent again.
RestoredDeaf(pre) == /\ up' = pre \o Requests(puts)
                     /\ UNCHANGED unacked

\* restoreState: the listens, then the outstanding puts in order.
Restored(pre) == /\ up' = pre \o (IF Listening THEN <<Listen(serverCache)>> ELSE <<>>)
                              \o Requests(puts)
                 /\ unacked' = IF Listening THEN unacked + 1 ELSE unacked

(***************************************************************************)
(* A connection is ready.  With a token the client authenticates first.    *)
(* The server ends the session this one replaces, and what it had not read *)
(* of it is gone.                                                          *)
(***************************************************************************)
Connect(token) ==
  /\ conn = "down"
  /\ IF token
     THEN /\ conn' = "authenticating"
          /\ up' = <<AUTH>>
          /\ UNCHANGED unacked
     ELSE /\ conn' = "up"
          /\ Restored(<<>>)
  /\ UNCHANGED <<serverVars, down, puts, putsToAck, status, viewVars, events>>

(***************************************************************************)
(* The connection is lost, with every answer on its way; the server may    *)
(* still read puts it was sent.                                            *)
(***************************************************************************)
Cut == /\ conn' = "down"
       /\ up' = Among(up, PutRequests)
       /\ down' = <<>>
       /\ loading' = <<>>
       /\ subscribed' = FALSE
       /\ unacked' = 0

\* Mutant: a lost connection forgets the puts it was carrying.
DisconnectForgetsPuts == /\ conn # "down"
                         /\ Cut
                         /\ puts' = <<>>
                         /\ UNCHANGED <<messages, putsToAck, status, viewVars, events>>

Disconnect == /\ conn # "down"
              /\ Cut
              /\ UNCHANGED <<messages, puts, putsToAck, status, viewVars, events>>

-----------------------------------------------------------------------------
(* The server.                                                             *)

\* What the server sends if the connection is still there.
Sends(msgs) == down' = IF conn = "down" THEN <<>> ELSE down \o msgs

Pushed(k) == IF subscribed /\ k \notin messages THEN <<Child(k)>> ELSE <<>>

(***************************************************************************)
(* The server reads a request.  It answers a put at once, pushing the      *)
(* child before the answer, or refuses it (a rule, a value too large).     *)
(***************************************************************************)
ServerReads ==
  /\ up # <<>>
  /\ up' = Tail(up)
  /\ \/ /\ Head(up) = AUTH
        /\ Sends(<<AUTH_OK>>)
        /\ UNCHANGED <<messages, loading>>
     \/ /\ Head(up).type = "listen"
        /\ loading' = Append(loading, Head(up).cache)
        /\ UNCHANGED <<messages, down>>
     \/ /\ Head(up).type = "put"
        /\ messages' = messages \cup {Head(up).key}
        /\ Sends(Pushed(Head(up).key) \o <<PutAnswer(Head(up).key, TRUE)>>)
        /\ UNCHANGED loading
     \/ /\ Head(up).type = "put"
        /\ Sends(<<PutAnswer(Head(up).key, FALSE)>>)
        /\ UNCHANGED <<messages, loading>>
  /\ UNCHANGED <<subscribed, conn, puts, unacked, putsToAck, status, viewVars,
                 events>>

\* A listen is answered: the snapshot, unless its hash is that of the
\* client's cache, then the status.
ServerAnswers ==
  /\ loading # <<>>
  /\ loading' = Tail(loading)
  /\ subscribed' = TRUE
  /\ Sends((IF Head(loading) = messages THEN <<>> ELSE <<Snapshot(messages)>>)
           \o <<LISTEN_OK>>)
  /\ UNCHANGED <<messages, up, conn, puts, unacked, putsToAck, status, viewVars,
                 events>>

\* Another client writes.
OthersPut(k) ==
  /\ k \notin messages
  /\ status[k] = "unsent"
  /\ messages' = messages \cup {k}
  /\ Sends(Pushed(k))
  /\ UNCHANGED <<subscribed, loading, up, conn, puts, unacked, putsToAck, status,
                 viewVars, events>>

-----------------------------------------------------------------------------
(* The client reads an answer or a push.                                   *)

Reads(m) == conn # "down" /\ down # <<>> /\ Head(down) = m /\ down' = Tail(down)

AuthOk == /\ Reads(AUTH_OK)
          /\ conn' = "up"
          /\ Restored(up)
          /\ UNCHANGED <<serverVars, puts, putsToAck, status, viewVars, events>>

\* Mutant: the snapshot replaces the view, local writes and all.
SnapshotAlone == \E S \in SUBSET Keys :
  /\ Reads(Snapshot(S))
  /\ serverCache' = S
  /\ complete' = TRUE
  /\ Viewed(S)
  /\ events' = events \o Gained(S)
  /\ UNCHANGED <<serverVars, up, conn, puts, unacked, putsToAck, status,
                 observers>>

\* A whole new server cache: the view shows it under the pending writes.
SnapshotReceived == \E S \in SUBSET Keys :
  /\ Reads(Snapshot(S))
  /\ serverCache' = S
  /\ complete' = TRUE
  /\ Viewed(S \cup Pending)
  /\ events' = events \o Gained(S \cup Pending)
  /\ UNCHANGED <<serverVars, up, conn, puts, unacked, putsToAck, status,
                 observers>>

\* One new child, shadowed by a pending write of the same key.
ChildReceived == \E k \in Keys :
  /\ Reads(Child(k))
  /\ serverCache' = serverCache \cup {k}
  /\ IF k \in Pending
     THEN UNCHANGED <<eventCache, events>>
     ELSE /\ Viewed(eventCache \cup {k})
          /\ events' = events \o Gained(eventCache \cup {k})
  /\ UNCHANGED <<serverVars, up, conn, puts, unacked, putsToAck, status,
                 observers, complete>>

(***************************************************************************)
(* ackWrite for some answered puts: each write is no longer pending, the   *)
(* view falls back on the server cache for its key, and its completion     *)
(* block is raised.  A write the server cache does not have disappears     *)
(* from the view, unless it was saved and the cache is not complete.       *)
(***************************************************************************)
Falls(a, cache, full) == a.key \notin cache /\ (full \/ ~a.ok)

\* Mutant: every answer counts as "ok".
AckedSaved(acks, view, full) ==
  LET A == {acks[i] : i \in DOMAIN acks} IN
  /\ status' = [k \in Keys |-> IF \E a \in A : a.key = k THEN "saved" ELSE status[k]]
  /\ Viewed(view \ {a.key : a \in {a \in A : Falls(a, serverCache, full)}})

Acked(acks, view, full) ==
  LET A == {acks[i] : i \in DOMAIN acks} IN
  /\ status' = [k \in Keys |->
                  IF PutAnswer(k, TRUE) \in A THEN "saved"
                  ELSE IF PutAnswer(k, FALSE) \in A THEN "refused"
                  ELSE status[k]]
  /\ Viewed(view \ {a.key : a \in {a \in A : Falls(a, serverCache, full)}})

Completions(acks) == [i \in 1 .. Len(acks) |-> Answered(acks[i].key, acks[i].ok)]

\* Mutant: a put's answer is acted on at once.
PutAnsweredAtOnce == \E k \in Keys, ok \in BOOLEAN :
  /\ Reads(PutAnswer(k, ok))
  /\ puts' = Among(puts, Keys \ {k})
  /\ Acked(<<PutAnswer(k, ok)>>, eventCache, complete)
  /\ events' = events \o Completions(<<PutAnswer(k, ok)>>)
  /\ UNCHANGED <<serverVars, up, conn, unacked, putsToAck, observers, serverCache,
                 complete>>

\* sendPut's callback: the answer is kept while a listen is unanswered.
PutAnswered == \E k \in Keys, ok \in BOOLEAN :
  /\ Reads(PutAnswer(k, ok))
  /\ puts' = Among(puts, Keys \ {k})
  /\ IF unacked = 0
     THEN /\ Acked(<<PutAnswer(k, ok)>>, eventCache, complete)
          /\ events' = events \o Completions(<<PutAnswer(k, ok)>>)
          /\ UNCHANGED putsToAck
     ELSE /\ putsToAck' = Append(putsToAck, PutAnswer(k, ok))
          /\ UNCHANGED <<status, eventCache, events>>
  /\ UNCHANGED <<serverVars, up, conn, unacked, observers, serverCache, complete>>

(***************************************************************************)
(* sendListen's callback: the cache is complete, so the view is computed   *)
(* again, and the last listen to be answered releases the kept answers.    *)
(***************************************************************************)
ListenAnswered ==
  /\ Reads(LISTEN_OK)
  /\ complete' = TRUE
  /\ unacked' = unacked - 1
  /\ LET view == serverCache \cup Pending IN
     IF unacked = 1
     THEN /\ Acked(putsToAck, view, TRUE)
          /\ putsToAck' = <<>>
          /\ events' = events \o Gained(view) \o Completions(putsToAck)
     ELSE /\ Viewed(view)
          /\ events' = events \o Gained(view)
          /\ UNCHANGED <<status, putsToAck>>
  /\ UNCHANGED <<serverVars, up, conn, puts, observers, serverCache>>

ClientReads == \/ AuthOk
               \/ SnapshotReceived
               \/ ChildReceived
               \/ PutAnswered
               \/ ListenAnswered

-----------------------------------------------------------------------------
(* The main queue and the process.                                         *)

\* The main queue runs its next block, e.
Delivered(e) == /\ events # <<>>
                /\ e = Head(events)
                /\ events' = Tail(events)
                /\ UNCHANGED <<serverVars, wireVars, status, viewVars>>

\* The process is gone, and with it every write that was not answered.
DatabaseStopped ==
  /\ Cut
  /\ puts' = <<>>
  /\ putsToAck' = <<>>
  /\ status' = [k \in Keys |-> IF k \in Pending THEN "lost" ELSE status[k]]
  /\ observers' = <<>>
  /\ serverCache' = {}
  /\ complete' = FALSE
  /\ eventCache' = {}
  /\ events' = <<>>
  /\ UNCHANGED messages
=============================================================================
