----------------------- MODULE FirebaseDatabaseProofs ------------------------
(***************************************************************************)
(* Every action of the database client and of its server keeps the         *)
(* invariant, and what it tells the observers and the writers.             *)
(***************************************************************************)
EXTENDS FirebaseDatabase, FilterProofs

-----------------------------------------------------------------------------
(* The invariant of the client and its server.                             *)

PutKeys == {puts[i] : i \in DOMAIN puts}
AckKeys == {putsToAck[i].key : i \in DOMAIN putsToAck}

\* The message at position i on the way down brings k into the view's cache.
Carries(i, k) == \/ down[i].type = "child" /\ down[i].key = k
                 \/ down[i].type = "snapshot" /\ k \in down[i].data

\* The client has k, or will have it once it has read down up to position n.
Has(k, n) == \/ k \in serverCache
             \/ \E i \in DOMAIN down : i <= n /\ Carries(i, k)

AnsweredAt(i, k) == down[i].type = "put" /\ down[i].key = k

ConnInv ==
  /\ ~Listening => conn = "down"
  /\ conn # "up" => loading = <<>> /\ ~subscribed /\ unacked = 0
  /\ conn = "down" => down = <<>> /\ \A i \in DOMAIN up : up[i].type = "put"
  /\ conn = "authenticating" => \/ up = <<AUTH>> /\ down = <<>>
                                \/ up = <<>> /\ down = <<AUTH_OK>>

\* Pending is what the connection holds, once.
PutsInv ==
  /\ \A i, j \in DOMAIN puts : puts[i] = puts[j] => i = j
  /\ \A i, j \in DOMAIN putsToAck : putsToAck[i].key = putsToAck[j].key => i = j
  /\ \A k \in Keys : ~(k \in PutKeys /\ k \in AckKeys)
  /\ \A k \in Keys : status[k] = "pending" <=> k \in PutKeys \/ k \in AckKeys

\* A put on the wire, or its answer, is an outstanding one, and only once;
\* what a dead connection left is pending or lost.
WireInv ==
  /\ \A i \in DOMAIN up : up[i].type = "put" =>
       /\ status[up[i].key] \in {"pending", "lost"}
       /\ conn = "up" => up[i].key \in PutKeys
  /\ conn = "up" => \A i, j \in DOMAIN up :
       up[i].type = "put" /\ up[j].type = "put" /\ up[i].key = up[j].key => i = j
  /\ \A i \in DOMAIN down : down[i].type = "put" => down[i].key \in PutKeys
  /\ \A i, j \in DOMAIN down :
       down[i].type = "put" /\ down[j].type = "put" /\ down[i].key = down[j].key => i = j
  /\ \A i \in DOMAIN up, j \in DOMAIN down :
       up[i].type = "put" /\ down[j].type = "put" => up[i].key # down[j].key

\* What the client has or is sent is on the server.
ServerInv ==
  /\ serverCache \subseteq messages
  /\ \A i \in DOMAIN down :
       /\ down[i].type = "snapshot" => serverCache \subseteq down[i].data /\ down[i].data \subseteq messages
       /\ down[i].type = "child" => down[i].key \in messages
       /\ down[i].type = "put" /\ down[i].ok => down[i].key \in messages
  /\ \A i \in DOMAIN putsToAck : putsToAck[i].ok => putsToAck[i].key \in messages
  /\ subscribed => \A k \in messages : Has(k, Len(down))

OnlyPuts == \A i \in DOMAIN up : up[i].type = "put"

\* The listen is the first request of its connection, not read yet.
Asking ==
  /\ up # <<>>
  /\ up[1] = Listen(serverCache)
  /\ \A i \in DOMAIN up : i # 1 => up[i].type = "put"
  /\ down = <<>>
  /\ loading = <<>>
  /\ ~subscribed
  /\ unacked = 1

\* The server works on it.
Answering ==
  /\ OnlyPuts
  /\ \A i \in DOMAIN down : down[i].type = "put"
  /\ loading = <<serverCache>>
  /\ ~subscribed
  /\ unacked = 1

\* The listen's answer is at p, its snapshot right before: what an answer
\* kept until then is about, the client has by then.
ArrivingAt(p) ==
  /\ down[p] = LISTEN_OK
  /\ \A i \in DOMAIN down :
       /\ i < p => down[i].type = "put" \/ (i = p - 1 /\ down[i].type = "snapshot")
       /\ i > p => down[i].type \in {"put", "child"}
  /\ \A k \in messages :
       k \in AckKeys \/ (\E i \in DOMAIN down : i < p /\ AnsweredAt(i, k)) => Has(k, p)
  /\ \A k \in messages, i \in DOMAIN down : i > p /\ AnsweredAt(i, k) => Has(k, i)

Arriving ==
  /\ OnlyPuts
  /\ loading = <<>>
  /\ subscribed
  /\ unacked = 1
  /\ \E p \in DOMAIN down : ArrivingAt(p)

\* No listen is unanswered: a put's answer comes after what it is about.
Settled ==
  /\ OnlyPuts
  /\ loading = <<>>
  /\ subscribed
  /\ unacked = 0
  /\ complete
  /\ putsToAck = <<>>
  /\ \A i \in DOMAIN down : down[i].type \in {"put", "child"}
  /\ \A k \in messages, i \in DOMAIN down : AnsweredAt(i, k) => Has(k, i)

PhaseInv == conn = "up" => Asking \/ Answering \/ Arriving \/ Settled

ViewInv == eventCache = serverCache \cup Pending

DatabaseInv == /\ DatabaseTypeOK
               /\ ConnInv
               /\ PutsInv
               /\ WireInv
               /\ ServerInv
               /\ PhaseInv
               /\ ViewInv

-----------------------------------------------------------------------------
(* Sequences and messages.                                                 *)

LEMMA AppendAt ==
  ASSUME NEW S, NEW s \in Seq(S), NEW e \in S
  PROVE  /\ Append(s, e) \in Seq(S)
         /\ Append(s, e) # <<>>
         /\ Len(Append(s, e)) = Len(s) + 1
         /\ DOMAIN Append(s, e) = DOMAIN s \cup {Len(s) + 1}
         /\ \A i \in DOMAIN s : Append(s, e)[i] = s[i] /\ i <= Len(s)
         /\ Append(s, e)[Len(s) + 1] = e
  BY AppendProperties, LenProperties

LEMMA TailAt ==
  ASSUME NEW S, NEW s \in Seq(S), s # <<>>
  PROVE  /\ Tail(s) \in Seq(S)
         /\ Len(Tail(s)) = Len(s) - 1
         /\ Head(s) = s[1] /\ Head(s) \in S /\ 1 \in DOMAIN s
         /\ \A i \in DOMAIN Tail(s) : Tail(s)[i] = s[i + 1] /\ i + 1 \in DOMAIN s /\ i \in Nat /\ i > 0
         /\ \A i \in DOMAIN s : i # 1 => i - 1 \in DOMAIN Tail(s) /\ i \in Nat /\ i > 1
  BY HeadTailProperties, LenProperties, EmptySeq

LEMMA ConcatAt ==
  ASSUME NEW S, NEW s \in Seq(S), NEW t \in Seq(S)
  PROVE  /\ s \o t \in Seq(S)
         /\ Len(s \o t) = Len(s) + Len(t)
         /\ \A i \in DOMAIN s : (s \o t)[i] = s[i] /\ i \in DOMAIN (s \o t)
         /\ \A i \in DOMAIN t : (s \o t)[Len(s) + i] = t[i] /\ Len(s) + i \in DOMAIN (s \o t)
         /\ \A i \in DOMAIN (s \o t) : i \in DOMAIN s \/ (i > Len(s) /\ i - Len(s) \in DOMAIN t)
  BY ConcatProperties, LenProperties

LEMMA OneSent ==
  ASSUME NEW S, NEW x \in S
  PROVE  /\ <<>> \o <<x>> \in Seq(S)
         /\ <<>> \o <<x>> = <<x>>
         /\ Len(<<>> \o <<x>>) = 1
         /\ DOMAIN (<<>> \o <<x>>) = 1 .. 1
         /\ (<<>> \o <<x>>)[1] = x
  <1>1. <<x>> \in Seq(S) /\ <<>> \in Seq(S)
    BY EmptySeq
  <1>2. <<>> \o <<x>> = <<x>>
    BY <1>1, ConcatEmptySeq
  <1>3. QED
    BY <1>1, <1>2

LEMMA TwoSent ==
  ASSUME NEW S, NEW x \in S, NEW y \in S
  PROVE  /\ <<x>> \o <<y>> \in Seq(S)
         /\ Len(<<x>> \o <<y>>) = 2
         /\ DOMAIN (<<x>> \o <<y>>) = 1 .. 2
         /\ (<<x>> \o <<y>>)[1] = x
         /\ (<<x>> \o <<y>>)[2] = y
  <1> DEFINE s == <<x>>
             t == <<y>>
             c == s \o t
  <1>1. s \in Seq(S) /\ t \in Seq(S) /\ Len(s) = 1 /\ Len(t) = 1 /\ s[1] = x /\ t[1] = y
    OBVIOUS
  <1> HIDE DEF s, t
  <1>2. c \in Seq(S) /\ Len(c) = 2 /\ c[1] = x /\ c[2] = y
    BY <1>1, ConcatProperties
  <1>3. DOMAIN c = 1 .. 2
    BY <1>2, LenProperties
  <1>4. QED
    BY <1>2, <1>3 DEF s, t

\* The kinds of requests and responses, by their fields.
LEMMA RequestKinds ==
  /\ AUTH \in Request /\ AUTH.type = "auth"
  /\ \A S \in SUBSET Keys : Listen(S) \in Request /\ Listen(S).type = "listen" /\ Listen(S).cache = S
  /\ \A k \in Keys : Put(k) \in PutRequests /\ Put(k) \in Request /\ Put(k).type = "put" /\ Put(k).key = k
  /\ \A r \in Request : /\ r.type \in {"auth", "listen", "put"}
                        /\ r.type = "auth" => r = AUTH
                        /\ r.type = "listen" => r.cache \in SUBSET Keys
                        /\ r.type = "put" => r.key \in Keys /\ r \in PutRequests
  /\ \A r \in PutRequests : r \in Request /\ r.type = "put"
  BY DEF AUTH, Listen, Put, Request, PutRequests

LEMMA ResponseKinds ==
  /\ AUTH_OK \in Response /\ AUTH_OK.type = "authOk"
  /\ LISTEN_OK \in Response /\ LISTEN_OK.type = "listenOk"
  /\ \A S \in SUBSET Keys : Snapshot(S) \in Response /\ Snapshot(S).type = "snapshot" /\ Snapshot(S).data = S
  /\ \A k \in Keys : Child(k) \in Response /\ Child(k).type = "child" /\ Child(k).key = k
  /\ \A k \in Keys, ok \in BOOLEAN : /\ PutAnswer(k, ok) \in PutAnswers /\ PutAnswer(k, ok) \in Response
                                     /\ PutAnswer(k, ok).type = "put"
                                     /\ PutAnswer(k, ok).key = k /\ PutAnswer(k, ok).ok = ok
  /\ \A m \in Response : /\ m.type \in {"authOk", "listenOk", "snapshot", "child", "put"}
                         /\ m.type = "authOk" => m = AUTH_OK
                         /\ m.type = "listenOk" => m = LISTEN_OK
                         /\ m.type = "snapshot" => m.data \in SUBSET Keys /\ m = Snapshot(m.data)
                         /\ m.type = "child" => m.key \in Keys /\ m = Child(m.key)
                         /\ m.type = "put" => m.key \in Keys /\ m.ok \in BOOLEAN /\ m = PutAnswer(m.key, m.ok)
  /\ \A m \in PutAnswers : /\ m \in Response /\ m.type = "put" /\ m.key \in Keys /\ m.ok \in BOOLEAN
                           /\ m = PutAnswer(m.key, m.ok)
  BY DEF AUTH_OK, LISTEN_OK, Snapshot, Child, PutAnswer, PutAnswers, Response

LEMMA EventKinds ==
  /\ \A v \in Chats, k \in Keys : Added(v, k) \in Event /\ Added(v, k).type = "added"
  /\ \A k \in Keys, ok \in BOOLEAN : Answered(k, ok) \in Event /\ Answered(k, ok).type = "answered"
  /\ \A v, w, k, l : Added(v, k) = Added(w, l) => v = w /\ k = l
  /\ \A e \in Event : \/ \E v \in Chats, k \in Keys : e = Added(v, k)
                      \/ \E k \in Keys, ok \in BOOLEAN : e = Answered(k, ok)
  <1>1. \A v \in Chats, k \in Keys : Added(v, k) \in Event /\ Added(v, k).type = "added"
    BY DEF Added, Event
  <1>2. \A k \in Keys, ok \in BOOLEAN : Answered(k, ok) \in Event /\ Answered(k, ok).type = "answered"
    BY DEF Answered, Event
  <1>3. \A v, w, k, l : Added(v, k) = Added(w, l) => v = w /\ k = l
    BY DEF Added
  <1>4. ASSUME NEW e \in Event
        PROVE  \/ \E v \in Chats, k \in Keys : e = Added(v, k)
               \/ \E k \in Keys, ok \in BOOLEAN : e = Answered(k, ok)
    BY DEF Added, Answered, Event
  <1>5. QED
    BY <1>1, <1>2, <1>3, <1>4

-----------------------------------------------------------------------------
(* The events a change of the view raises.                                 *)

\* Sorting loses no key and doubles none.
LEMMA SortedKeys ==
  ASSUME NEW S \in SUBSET Keys
  PROVE  /\ Sorted(S) \in Seq(Keys)
         /\ \A n \in DOMAIN Sorted(S) : Sorted(S)[n] \in S
         /\ \A k \in S : \E n \in DOMAIN Sorted(S) : Sorted(S)[n] = k
         /\ \A m, n \in DOMAIN Sorted(S) : Sorted(S)[m] = Sorted(S)[n] => m = n
  <1>1. KeyOrder \in Seq(Keys)
    BY KeyOrderAssumption
  <1>2. Sorted(S) \in Seq(Keys \cap S)
    BY <1>1, AmongProperties DEF Sorted
  <1>3. Sorted(S) \in Seq(Keys) /\ \A n \in DOMAIN Sorted(S) : Sorted(S)[n] \in S
    BY <1>2, ElementOfSeq, SeqMonotonic, LenProperties
  <1>a. \A i \in DOMAIN KeyOrder : KeyOrder[i] \in S =>
          \E n \in DOMAIN Sorted(S) : Sorted(S)[n] = KeyOrder[i]
    BY <1>1, AmongProperties DEF Sorted
  <1>4. ASSUME NEW k \in S PROVE \E n \in DOMAIN Sorted(S) : Sorted(S)[n] = k
    <2>1. PICK i \in DOMAIN KeyOrder : KeyOrder[i] = k
      BY DEF Keys
    <2>2. QED
      BY <1>a, <2>1
  <1>5. \A m, n \in DOMAIN Sorted(S) : Sorted(S)[m] = Sorted(S)[n] => m = n
    <2>1. \A i, j \in DOMAIN KeyOrder : KeyOrder[i] = KeyOrder[j] => i = j
      BY KeyOrderAssumption
    <2>2. QED
      BY <1>1, <2>1, AmongProperties DEF Sorted
  <1>6. QED
    BY <1>3, <1>4, <1>5

LEMMA Grid ==
  ASSUME NEW n \in Nat, n > 0, NEW m \in Nat
  PROVE  /\ \A i \in 1 .. m * n : ((i - 1) % n) + 1 \in 1 .. n /\ ((i - 1) \div n) + 1 \in 1 .. m
         /\ \A i, j \in 1 .. m * n :
              (i - 1) % n = (j - 1) % n /\ (i - 1) \div n = (j - 1) \div n => i = j
  <1>1. ASSUME NEW i \in 1 .. m * n
        PROVE  ((i - 1) % n) + 1 \in 1 .. n /\ ((i - 1) \div n) + 1 \in 1 .. m
    OBVIOUS
  <1>2. ASSUME NEW i \in 1 .. m * n, NEW j \in 1 .. m * n,
               (i - 1) % n = (j - 1) % n, (i - 1) \div n = (j - 1) \div n
        PROVE  i = j
    <2>1. \A x \in Nat : x = n * (x \div n) + (x % n)
      OBVIOUS
    <2>2. i - 1 = j - 1
      BY <1>2, <2>1
    <2>3. QED
      BY <2>2
  <1>3. QED
    BY <1>1, <1>2

\* Each observer is told of each gained key, once.
LEMMA RaisedEvents ==
  ASSUME observers \in Seq(Chats), NEW S \in SUBSET Keys
  PROVE  /\ Raised(S) \in Seq(Event)
         /\ \A i \in DOMAIN Raised(S) : \E a \in DOMAIN observers, k \in S :
              Raised(S)[i] = Added(observers[a], k)
         /\ \A a \in DOMAIN observers, k \in S : \E i \in DOMAIN Raised(S) :
              Raised(S)[i] = Added(observers[a], k)
         /\ (\A a, b \in DOMAIN observers : observers[a] = observers[b] => a = b) =>
              \A i, j \in DOMAIN Raised(S) : Raised(S)[i] = Raised(S)[j] => i = j
  <1> DEFINE ks == Sorted(S)
             n == Len(observers)
             m == Len(ks)
             col(i) == ((i - 1) % n) + 1
             row(i) == ((i - 1) \div n) + 1
             r == Raised(S)
  <1>1. n \in Nat /\ m \in Nat /\ DOMAIN observers = 1 .. n /\ DOMAIN ks = 1 .. m
    BY SortedKeys, LenProperties
  <1>2. r = [i \in 1 .. m * n |-> Added(observers[col(i)], ks[row(i)])]
    BY DEF Raised
  <1>3. ASSUME NEW i \in 1 .. m * n
        PROVE  n > 0 /\ col(i) \in 1 .. n /\ row(i) \in 1 .. m
    <2>1. n > 0
      BY <1>1
    <2>2. QED
      BY <1>1, <2>1, Grid
  <1>4. \A a \in 1 .. n, b \in 1 .. m : \E i \in 1 .. m * n : col(i) = a /\ row(i) = b
    <2> SUFFICES ASSUME NEW a \in 1 .. n, NEW b \in 1 .. m
                 PROVE  \E i \in 1 .. m * n : col(i) = a /\ row(i) = b
      OBVIOUS
    <2>1. n \in Nat /\ n > 0 /\ m \in Nat
      BY <1>1
    <2> DEFINE x == (b - 1) * n + (a - 1)
    <2> HIDE DEF n, m
    <2>2. x \in 0 .. m * n - 1
      BY <2>1
    <2>3. x % n = a - 1 /\ x \div n = b - 1
      BY <2>1
    <2> HIDE DEF x
    <2>4. x + 1 \in 1 .. m * n /\ (x + 1) - 1 = x
      BY <2>1, <2>2
    <2>5. col(x + 1) = a /\ row(x + 1) = b
      BY <2>3, <2>4
    <2>6. QED
      BY <2>4, <2>5
  <1>5. \A i, j \in 1 .. m * n : col(i) = col(j) /\ row(i) = row(j) => i = j
    <2> SUFFICES ASSUME NEW i \in 1 .. m * n, NEW j \in 1 .. m * n, col(i) = col(j), row(i) = row(j)
                 PROVE  i = j
      OBVIOUS
    <2>1. n > 0
      BY <1>3
    <2> DEFINE same == (i - 1) % n = (j - 1) % n /\ (i - 1) \div n = (j - 1) \div n
    <2>a. \A x \in Nat : x % n \in Int /\ x \div n \in Int
      BY <1>1, <2>1
    <2>b. i - 1 \in Nat /\ j - 1 \in Nat
      BY <1>1
    <2>2. same
      BY <2>a, <2>b
    <2>3. QED
      BY <1>1, <2>1, <2>2, Grid
  <1> HIDE DEF col, row
  <1>6. ASSUME NEW i \in 1 .. m * n
        PROVE  /\ r[i] \in Event
               /\ r[i] = Added(observers[col(i)], ks[row(i)])
               /\ col(i) \in DOMAIN observers /\ ks[row(i)] \in S
    <2>1. col(i) \in DOMAIN observers /\ row(i) \in DOMAIN ks
      BY <1>1, <1>3
    <2>2. observers[col(i)] \in Chats /\ ks[row(i)] \in S
      BY <1>1, <2>1, SortedKeys, ElementOfSeq
    <2>3. QED
      BY <1>2, <2>1, <2>2, EventKinds
  <1>7. DOMAIN r = 1 .. m * n /\ m * n \in Nat
    BY <1>1, <1>2
  <1>8. r \in Seq(Event)
    <2>1. r = [i \in 1 .. m * n |-> r[i]]
      BY <1>2
    <2> HIDE DEF r
    <2>2. QED
      BY <1>6, <1>7, <2>1, IsASeq
  <1>9. \A i \in DOMAIN r : \E a \in DOMAIN observers, k \in S : r[i] = Added(observers[a], k)
    BY <1>6, <1>7
  <1>10. \A a \in DOMAIN observers, k \in S : \E i \in DOMAIN r : r[i] = Added(observers[a], k)
    <2> SUFFICES ASSUME NEW a \in DOMAIN observers, NEW k \in S
                 PROVE  \E i \in DOMAIN r : r[i] = Added(observers[a], k)
      OBVIOUS
    <2>1. PICK b \in 1 .. m : ks[b] = k
      BY <1>1, SortedKeys
    <2>2. PICK i \in 1 .. m * n : col(i) = a /\ row(i) = b
      BY <1>1, <1>4
    <2>3. QED
      BY <1>2, <1>7, <2>1, <2>2
  <1>11. ASSUME \A a, b \in DOMAIN observers : observers[a] = observers[b] => a = b,
                NEW i \in DOMAIN r, NEW j \in DOMAIN r, r[i] = r[j]
         PROVE  i = j
    <2>1. observers[col(i)] = observers[col(j)] /\ ks[row(i)] = ks[row(j)]
      BY <1>2, <1>7, <1>11, EventKinds
    <2>2. col(i) = col(j) /\ row(i) = row(j)
      BY <1>1, <1>3, <1>7, <1>11, <2>1, SortedKeys
    <2>3. QED
      BY <1>5, <1>7, <2>2
  <1>12. QED
    BY <1>8, <1>9, <1>10, <1>11 DEF r

-----------------------------------------------------------------------------
(* One lemma per action: the invariant is kept.                            *)

invVars == <<messages, subscribed, loading, wireVars, status, serverCache, complete, eventCache>>

LEMMA SameInv ==
  ASSUME PutsInv, WireInv, ServerInv, PhaseInv, ViewInv, UNCHANGED invVars
  PROVE  PutsInv' /\ WireInv' /\ ServerInv' /\ PhaseInv' /\ ViewInv'
  <1>1. UNCHANGED <<messages, subscribed, loading, up, down, conn, puts, unacked, putsToAck,
                    status, serverCache, complete, eventCache>>
    BY DEF invVars, wireVars
  <1>2. PutsInv' /\ WireInv' /\ ViewInv'
    BY <1>1 DEF PutsInv, WireInv, ViewInv, PutKeys, AckKeys, Pending
  <1>3. ServerInv'
    BY <1>1 DEF ServerInv, Has, Carries
  <1>4. \A p : ArrivingAt(p) => ArrivingAt(p)'
    BY <1>1 DEF ArrivingAt, Has, Carries, AckKeys, AnsweredAt
  <1>5. PhaseInv'
    BY <1>1, <1>4 DEF PhaseInv, Asking, Answering, Arriving, Settled, OnlyPuts, Has, Carries,
                      AnsweredAt
  <1>6. QED
    BY <1>2, <1>3, <1>5

LEMMA GainedEvents ==
  ASSUME DatabaseTypeOK, NEW new \in SUBSET Keys
  PROVE  Gained(new) \in Seq(Event) /\ events \o Gained(new) \in Seq(Event)
  <1>1. new \ eventCache \in SUBSET Keys /\ observers \in Seq(Chats)
    BY DEF DatabaseTypeOK
  <1>2. Gained(new) \in Seq(Event)
    BY <1>1, RaisedEvents DEF Gained
  <1>3. QED
    BY <1>2, ConcatProperties DEF DatabaseTypeOK

LEMMA ObserveStep ==
  ASSUME DatabaseInv, NEW v \in Chats, Observe(v)
  PROVE  DatabaseInv'
  <1>a. DatabaseTypeOK /\ ConnInv
    BY DEF DatabaseInv
  <1>1. UNCHANGED <<up, unacked>>
    BY <1>a DEF Observe, ConnInv
  <1>2. UNCHANGED <<serverVars, wireVars, status, serverCache, complete, eventCache>>
    BY <1>1 DEF Observe, wireVars
  <1>3. observers' \in Seq(Chats) /\ Listening'
    BY <1>a, AppendAt DEF Observe, DatabaseTypeOK, Listening
  <1>4. events' \in Seq(Event)
    <2> DEFINE ks == Sorted(eventCache)
               told == [i \in 1 .. Len(ks) |-> Added(v, ks[i])]
    <2>1. ks \in Seq(Keys)
      BY <1>a, SortedKeys DEF DatabaseTypeOK
    <2>2. told \in Seq(Event)
      <3>1. \A i \in 1 .. Len(ks) : Added(v, ks[i]) \in Event
        BY <2>1, EventKinds, ElementOfSeq
      <3>2. Len(ks) \in Nat
        BY <2>1, LenProperties
      <3> HIDE DEF ks
      <3>3. QED
        BY <3>1, <3>2, IsASeq
    <2>3. QED
      BY <1>a, <2>2, ConcatProperties DEF Observe, DatabaseTypeOK
  <1>5. DatabaseTypeOK'
    BY <1>a, <1>2, <1>3, <1>4 DEF DatabaseTypeOK, serverVars, wireVars
  <1>6. ConnInv'
    BY <1>a, <1>2, <1>3 DEF ConnInv, serverVars, wireVars
  <1>7. UNCHANGED invVars
    BY <1>2 DEF invVars, serverVars
  <1>8. QED
    BY <1>5, <1>6, <1>7, SameInv DEF DatabaseInv

LEMMA DeliveredStep ==
  ASSUME DatabaseInv, NEW e, Delivered(e)
  PROVE  DatabaseInv'
  <1>a. DatabaseTypeOK /\ ConnInv
    BY DEF DatabaseInv
  <1>1. UNCHANGED <<serverVars, wireVars, status, viewVars>>
    BY DEF Delivered
  <1>2. events' \in Seq(Event)
    BY <1>a, TailAt DEF Delivered, DatabaseTypeOK
  <1>3. DatabaseTypeOK' /\ ConnInv'
    BY <1>a, <1>1, <1>2 DEF DatabaseTypeOK, ConnInv, Listening, serverVars, wireVars, viewVars
  <1>4. UNCHANGED invVars
    BY <1>1 DEF invVars, serverVars, viewVars
  <1>5. QED
    BY <1>3, <1>4, SameInv DEF DatabaseInv

LEMMA SetValueStep ==
  ASSUME DatabaseInv, NEW k \in Keys, SetValue(k)
  PROVE  DatabaseInv'
  <1>a. /\ DatabaseTypeOK /\ ConnInv /\ PutsInv /\ WireInv /\ ServerInv /\ PhaseInv /\ ViewInv
        /\ UNCHANGED <<messages, subscribed, loading, down, conn, unacked, putsToAck, observers,
                       serverCache, complete>>
        /\ status[k] = "unsent"
        /\ status' = [status EXCEPT ![k] = "pending"]
    BY DEF DatabaseInv, SetValue, serverVars
  <1>1. /\ \A l \in Keys : status'[l] = IF l = k THEN "pending" ELSE status[l]
        /\ status' \in [Keys -> {"unsent", "pending", "saved", "refused", "lost"}]
    BY <1>a DEF DatabaseTypeOK
  <1>2. Pending' = Pending \cup {k}
    BY <1>1 DEF Pending
  <1>3. eventCache' = eventCache \cup {k} /\ events' \in Seq(Event)
    BY <1>a, GainedEvents DEF SetValue, Viewed, DatabaseTypeOK
  <1>4. /\ puts' \in Seq(Keys)
        /\ DOMAIN puts' = DOMAIN puts \cup {Len(puts) + 1}
        /\ \A i \in DOMAIN puts : puts'[i] = puts[i]
        /\ puts'[Len(puts) + 1] = k
    BY <1>a, AppendAt DEF SetValue, DatabaseTypeOK
  <1>5. \A l \in Keys : l \in PutKeys' <=> l \in PutKeys \/ l = k
    BY <1>4 DEF PutKeys
  <1>6. \A l : l \in AckKeys' <=> l \in AckKeys
    BY <1>a DEF AckKeys
  <1>7. k \notin PutKeys /\ k \notin AckKeys
    BY <1>a DEF PutsInv
  <1>8. /\ up' \in Seq(Request)
        /\ \A i \in DOMAIN up : i \in DOMAIN up' /\ up'[i] = up[i]
        /\ \A i \in DOMAIN up' : i \in DOMAIN up \/ (conn = "up" /\ i = Len(up) + 1 /\ up'[i] = Put(k))
        /\ conn # "up" => up' = up
        /\ up # <<>> => up' # <<>> /\ 1 \in DOMAIN up
    <2>1. up \in Seq(Request) /\ Put(k) \in Request
      BY <1>a, RequestKinds DEF DatabaseTypeOK
    <2>2. up # <<>> => 1 \in DOMAIN up
      BY <2>1, TailAt
    <2>3. CASE conn = "up"
      <3>1. up' = Append(up, Put(k))
        BY <2>3 DEF SetValue
      <3>2. QED
        BY <2>1, <2>2, <2>3, <3>1, AppendAt
    <2>4. CASE conn # "up"
      BY <2>1, <2>2, <2>4 DEF SetValue
    <2>5. QED
      BY <2>3, <2>4
  <1>9. Put(k).type = "put" /\ Put(k).key = k
    BY RequestKinds
  <1>b. \A i \in DOMAIN up : up[i].type = "put" => up[i].key \in Keys
    BY <1>a, RequestKinds, ElementOfSeq, LenProperties DEF DatabaseTypeOK
  <1>c. \A i \in DOMAIN down : down[i].type = "put" => down[i].key \in Keys
    BY <1>a, ResponseKinds, ElementOfSeq, LenProperties DEF DatabaseTypeOK
  <1>10. DatabaseTypeOK'
    BY <1>a, <1>1, <1>3, <1>4, <1>8 DEF DatabaseTypeOK
  <1>11. ConnInv'
    BY <1>a, <1>8 DEF ConnInv, Listening
  <1>12. PutsInv'
    <2>1. \A i, j \in DOMAIN puts' : puts'[i] = puts'[j] => i = j
      BY <1>a, <1>4, <1>7 DEF PutsInv, PutKeys
    <2>2. \A l \in Keys : ~(l \in PutKeys' /\ l \in AckKeys')
      BY <1>a, <1>5, <1>6, <1>7 DEF PutsInv
    <2>3. \A l \in Keys : status'[l] = "pending" <=> l \in PutKeys' \/ l \in AckKeys'
      BY <1>a, <1>1, <1>5, <1>6 DEF PutsInv
    <2>4. \A i, j \in DOMAIN putsToAck' : putsToAck'[i].key = putsToAck'[j].key => i = j
      BY <1>a DEF PutsInv
    <2>5. QED
      BY <2>1, <2>2, <2>3, <2>4 DEF PutsInv
  <1>13. WireInv'
    <2>1. \A i \in DOMAIN up : up[i].type = "put" => up[i].key # k
      BY <1>a DEF WireInv
    <2>2. \A i \in DOMAIN down : down[i].type = "put" => down[i].key # k
      BY <1>a, <1>7 DEF WireInv
    <2>3. \A i \in DOMAIN up' : up'[i].type = "put" =>
            /\ status'[up'[i].key] \in {"pending", "lost"}
            /\ conn' = "up" => up'[i].key \in PutKeys'
      <3> SUFFICES ASSUME NEW i \in DOMAIN up', up'[i].type = "put"
                   PROVE  /\ status'[up'[i].key] \in {"pending", "lost"}
                          /\ conn' = "up" => up'[i].key \in PutKeys'
        OBVIOUS
      <3>1. CASE i \in DOMAIN up
        <4>1. up'[i] = up[i] /\ up[i].key \in Keys /\ up[i].key # k
          BY <1>b, <1>8, <2>1, <3>1
        <4>2. status[up[i].key] \in {"pending", "lost"} /\ (conn = "up" => up[i].key \in PutKeys)
          BY <1>a, <3>1, <4>1 DEF WireInv
        <4>3. QED
          BY <1>a, <1>1, <1>5, <4>1, <4>2
      <3>2. CASE i \notin DOMAIN up
        BY <1>1, <1>5, <1>8, <1>9, <3>2
      <3>3. QED
        BY <3>1, <3>2
    <2>4. conn' = "up" => \A i, j \in DOMAIN up' :
            up'[i].type = "put" /\ up'[j].type = "put" /\ up'[i].key = up'[j].key => i = j
      <3>1. \A i, j \in DOMAIN up : conn = "up" /\ up[i].type = "put" /\ up[j].type = "put"
                                   /\ up[i].key = up[j].key => i = j
        BY <1>a DEF WireInv
      <3>2. \A i \in DOMAIN up' : i \notin DOMAIN up => i = Len(up) + 1 /\ up'[i].key = k
        BY <1>8, <1>9
      <3>3. QED
        BY <1>a, <1>8, <2>1, <3>1, <3>2
    <2>5. ASSUME NEW i \in DOMAIN down', down'[i].type = "put"
          PROVE  down'[i].key \in PutKeys'
      <3>1. down'[i] = down[i] /\ down[i].key \in Keys /\ down[i].key \in PutKeys
        BY <1>a, <1>c, <2>5 DEF WireInv
      <3>2. down[i].key \in PutKeys'
        BY <1>4, <3>1 DEF PutKeys
      <3>3. QED
        BY <1>a, <3>1, <3>2 DEF PutKeys
    <2>6. \A i \in DOMAIN up', j \in DOMAIN down' :
            up'[i].type = "put" /\ down'[j].type = "put" => up'[i].key # down'[j].key
      BY <1>a, <1>8, <1>9, <2>2 DEF WireInv
    <2>7. QED
      BY <1>a, <2>3, <2>4, <2>5, <2>6 DEF WireInv
  <1>14. ServerInv'
    BY <1>a DEF ServerInv, Has, Carries
  <1>15. PhaseInv'
    <2>1. Asking => Asking'
      BY <1>a, <1>8, <1>9 DEF Asking
    <2>2. OnlyPuts => OnlyPuts'
      BY <1>8, <1>9 DEF OnlyPuts
    <2>3. Answering => Answering'
      BY <1>a, <2>2 DEF Answering
    <2>4. \A p : ArrivingAt(p) => ArrivingAt(p)'
      BY <1>a, <1>6 DEF ArrivingAt, Has, Carries, AnsweredAt
    <2>5. Arriving => Arriving'
      BY <1>a, <2>2, <2>4 DEF Arriving
    <2>6. Settled => Settled'
      BY <1>a, <2>2 DEF Settled, Has, Carries, AnsweredAt
    <2>7. QED
      BY <1>a, <2>1, <2>3, <2>5, <2>6 DEF PhaseInv
  <1>16. ViewInv'
    BY <1>a, <1>2, <1>3 DEF ViewInv
  <1>17. QED
    BY <1>10, <1>11, <1>12, <1>13, <1>14, <1>15, <1>16 DEF DatabaseInv

LEMMA RequestsAt ==
  ASSUME NEW ks \in Seq(Keys)
  PROVE  /\ Requests(ks) \in Seq(Request)
         /\ Len(Requests(ks)) = Len(ks)
         /\ DOMAIN Requests(ks) = DOMAIN ks
         /\ \A i \in DOMAIN ks : Requests(ks)[i] = Put(ks[i]) /\ ks[i] \in Keys
  <1>1. Len(ks) \in Nat /\ DOMAIN ks = 1 .. Len(ks) /\ \A i \in 1 .. Len(ks) : ks[i] \in Keys
    BY LenProperties, ElementOfSeq
  <1>2. \A i \in 1 .. Len(ks) : Put(ks[i]) \in Request
    BY <1>1, RequestKinds
  <1>3. Requests(ks) \in Seq(Request)
    BY <1>1, <1>2, IsASeq DEF Requests
  <1>4. DOMAIN Requests(ks) = 1 .. Len(ks) /\ \A i \in 1 .. Len(ks) : Requests(ks)[i] = Put(ks[i])
    BY DEF Requests
  <1>5. QED
    BY <1>1, <1>3, <1>4, LenProperties

\* What a fresh connection is sent: the listen, then the puts.
LEMMA RestoredUp ==
  ASSUME DatabaseTypeOK, Listening, Restored(<<>>)
  PROVE  /\ up' \in Seq(Request)
         /\ up' # <<>>
         /\ up'[1] = Listen(serverCache)
         /\ \A i \in DOMAIN up' : i # 1 => i - 1 \in DOMAIN puts /\ up'[i] = Put(puts[i - 1]) /\ i \in Nat
         /\ unacked' = unacked + 1
  <1> DEFINE l == <<Listen(serverCache)>>
             r == Requests(puts)
  <1>1. l \in Seq(Request) /\ Len(l) = 1 /\ l[1] = Listen(serverCache)
    BY RequestKinds DEF DatabaseTypeOK
  <1>2. r \in Seq(Request) /\ DOMAIN r = DOMAIN puts /\ \A i \in DOMAIN r : r[i] = Put(puts[i])
    BY RequestsAt DEF DatabaseTypeOK
  <1>3. <<>> \o l = l
    BY <1>1, ConcatEmptySeq
  <1> HIDE DEF l, r
  <1>4. up' = l \o r /\ unacked' = unacked + 1
    BY <1>3 DEF Restored, l, r
  <1>5. DOMAIN l = {1}
    BY <1>1, LenProperties
  <1>6. /\ up' \in Seq(Request)
        /\ 1 \in DOMAIN up' /\ up'[1] = Listen(serverCache)
        /\ Len(up') = 1 + Len(r)
        /\ \A i \in DOMAIN up' : i = 1 \/ (i > 1 /\ i - 1 \in DOMAIN r)
        /\ \A i \in DOMAIN r : up'[1 + i] = r[i]
    <2> DEFINE c == l \o r
    <2>1. /\ c \in Seq(Request)
          /\ Len(c) = Len(l) + Len(r)
          /\ \A i \in DOMAIN l : c[i] = l[i] /\ i \in DOMAIN c
          /\ \A i \in DOMAIN r : c[Len(l) + i] = r[i]
          /\ \A i \in DOMAIN c : i \in DOMAIN l \/ (i > Len(l) /\ i - Len(l) \in DOMAIN r)
      BY <1>1, <1>2, ConcatAt
    <2> HIDE DEF c
    <2>2. up' = c
      BY <1>4 DEF c
    <2>3. QED
      BY <1>1, <1>5, <2>1, <2>2
  <1>7. DOMAIN up' = 1 .. Len(up') /\ Len(up') \in Nat
    BY <1>6, LenProperties
  <1>8. ASSUME NEW i \in DOMAIN up', i # 1
        PROVE  i - 1 \in DOMAIN puts /\ up'[i] = Put(puts[i - 1]) /\ i \in Nat
    <2>1. i - 1 \in DOMAIN r /\ i \in Nat /\ 1 + (i - 1) = i
      BY <1>6, <1>7, <1>8
    <2>2. QED
      BY <1>2, <1>6, <2>1
  <1>9. up' # <<>>
    BY <1>6
  <1>10. QED
    BY <1>4, <1>6, <1>8, <1>9

\* A connection that is ready starts with its listen unread.
LEMMA RestoredInv ==
  ASSUME DatabaseInv, conn # "up", Listening, conn' = "up", down' = <<>>, Restored(<<>>),
         UNCHANGED <<serverVars, puts, putsToAck, status, viewVars, events>>
  PROVE  DatabaseInv'
  <1>a. /\ DatabaseTypeOK /\ ConnInv /\ PutsInv /\ WireInv /\ ServerInv /\ PhaseInv /\ ViewInv
        /\ UNCHANGED <<messages, subscribed, loading, puts, putsToAck, status, observers,
                       serverCache, complete, eventCache, events>>
    BY DEF DatabaseInv, serverVars, viewVars
  <1>1. loading = <<>> /\ ~subscribed /\ unacked = 0
    BY <1>a DEF ConnInv
  <1>2. /\ up' \in Seq(Request) /\ up' # <<>> /\ up'[1] = Listen(serverCache) /\ unacked' = 1
        /\ \A i \in DOMAIN up' : i # 1 => i - 1 \in DOMAIN puts /\ up'[i] = Put(puts[i - 1]) /\ i \in Nat
    BY <1>a, <1>1, RestoredUp
  <1>3. /\ \A i \in DOMAIN puts : puts[i] \in Keys
        /\ Listen(serverCache).type = "listen"
    BY <1>a, RequestKinds, LenProperties, ElementOfSeq DEF DatabaseTypeOK
  <1>4. \A i \in DOMAIN up' : /\ i # 1 => up'[i].type = "put" /\ up'[i].key = puts[i - 1]
                              /\ up'[i].type = "put" => i # 1
    BY <1>2, <1>3, RequestKinds
  <1>5. DatabaseTypeOK'
    <2>1. down' \in Seq(Response)
      BY EmptySeq
    <2>2. QED
      BY <1>a, <1>2, <2>1 DEF DatabaseTypeOK
  <1>6. ConnInv' /\ PutsInv' /\ ViewInv'
    BY <1>a DEF ConnInv, PutsInv, ViewInv, Listening, PutKeys, AckKeys, Pending
  <1>7. WireInv'
    <2>1. \A i \in DOMAIN up' : up'[i].type = "put" =>
            i - 1 \in DOMAIN puts /\ up'[i].key = puts[i - 1] /\ puts[i - 1] \in PutKeys /\ puts[i - 1] \in Keys
      BY <1>2, <1>3, <1>4 DEF PutKeys
    <2>2. \A i \in DOMAIN up' : up'[i].type = "put" => status[up'[i].key] = "pending"
      BY <1>a, <2>1 DEF PutsInv
    <2>3. \A i, j \in DOMAIN up' :
            up'[i].type = "put" /\ up'[j].type = "put" /\ up'[i].key = up'[j].key => i = j
      BY <1>a, <1>2, <1>4, <2>1 DEF PutsInv
    <2>4. PutKeys' = PutKeys
      BY <1>a DEF PutKeys
    <2>5. QED
      BY <1>a, <2>1, <2>2, <2>3, <2>4 DEF WireInv
  <1>8. ServerInv'
    BY <1>a, <1>1 DEF ServerInv
  <1>9. Asking'
    BY <1>a, <1>1, <1>2, <1>4 DEF Asking
  <1>10. QED
    BY <1>5, <1>6, <1>7, <1>8, <1>9 DEF DatabaseInv, PhaseInv

LEMMA ConnectStep ==
  ASSUME DatabaseInv, Listening, NEW token \in BOOLEAN, Connect(token)
  PROVE  DatabaseInv'
  <1>a. /\ DatabaseTypeOK /\ ConnInv /\ PutsInv /\ WireInv /\ ServerInv /\ PhaseInv /\ ViewInv
        /\ UNCHANGED <<messages, subscribed, loading, down, puts, putsToAck, status, observers,
                       serverCache, complete, eventCache, events>>
    BY DEF DatabaseInv, Connect, serverVars, viewVars
  <1>1. conn = "down" /\ down = <<>> /\ loading = <<>> /\ ~subscribed /\ unacked = 0
    BY <1>a DEF ConnInv, Connect
  <1>2. CASE token
    <2>1. conn' = "authenticating" /\ up' = <<AUTH>> /\ UNCHANGED unacked
      BY <1>2 DEF Connect
    <2>2. up' \in Seq(Request)
      BY <2>1, RequestKinds
    <2>3. \A i \in DOMAIN up' : up'[i].type # "put"
      BY <2>1, RequestKinds
    <2>4. DatabaseTypeOK'
      BY <1>a, <2>1, <2>2 DEF DatabaseTypeOK
    <2>5. ConnInv' /\ PutsInv' /\ ViewInv' /\ PhaseInv'
      BY <1>a, <1>1, <2>1 DEF ConnInv, PutsInv, ViewInv, PhaseInv, Listening, PutKeys, AckKeys, Pending
    <2>6. ServerInv'
      BY <1>a, <1>1 DEF ServerInv
    <2>7. WireInv'
      BY <1>a, <1>1, <2>1, <2>3 DEF WireInv
    <2>8. QED
      BY <2>4, <2>5, <2>6, <2>7 DEF DatabaseInv
  <1>3. CASE ~token
    BY <1>1, <1>3, RestoredInv DEF Connect
  <1>4. QED
    BY <1>2, <1>3

LEMMA AuthOkStep ==
  ASSUME DatabaseInv, AuthOk
  PROVE  DatabaseInv'
  <1>1. conn # "down" /\ down # <<>> /\ Head(down) = AUTH_OK /\ down' = Tail(down)
    BY DEF AuthOk, Reads
  <1>2. down \in Seq(Response)
    BY DEF DatabaseInv, DatabaseTypeOK
  <1>3. 1 \in DOMAIN down /\ down[1] = AUTH_OK
    BY <1>1, <1>2, TailAt
  <1>4. conn # "up"
    <2>1. down[1].type = "authOk" /\ LISTEN_OK.type = "listenOk"
      BY <1>3, ResponseKinds
    <2>2. \A i \in DOMAIN down : i \in Nat
      BY <1>2, LenProperties
    <2>3. ~Asking /\ ~Answering /\ ~Settled
      BY <1>1, <1>3, <2>1 DEF Asking, Answering, Settled
    <2>4. ~Arriving
      BY <1>3, <2>1, <2>2 DEF Arriving, ArrivingAt
    <2>5. QED
      BY <2>3, <2>4 DEF DatabaseInv, PhaseInv
  <1>5. conn = "authenticating"
    BY <1>1, <1>4 DEF DatabaseInv, DatabaseTypeOK
  <1>6. up = <<>> /\ down = <<AUTH_OK>> /\ Listening
    BY <1>1, <1>5 DEF DatabaseInv, ConnInv
  <1>7. down' = <<>>
    BY <1>1, <1>6
  <1>8. QED
    BY <1>4, <1>6, <1>7, RestoredInv DEF AuthOk

\* What a cut leaves of the wire: puts the server may still read.
LEMMA CutWire ==
  ASSUME DatabaseTypeOK, Cut
  PROVE  /\ up' \in Seq(Request)
         /\ \A i \in DOMAIN up' : up'[i].type = "put" /\ \E j \in DOMAIN up : up'[i] = up[j]
         /\ conn' = "down" /\ down' = <<>> /\ loading' = <<>> /\ ~subscribed' /\ unacked' = 0
         /\ down' \in Seq(Response) /\ loading' \in Seq(SUBSET Keys) /\ subscribed' \in BOOLEAN
  <1>1. up \in Seq(Request)
    BY DEF DatabaseTypeOK
  <1>2. up' \in Seq(Request \cap PutRequests)
    BY <1>1, AmongProperties DEF Cut
  <1>3. up' \in Seq(Request)
    BY <1>2, SeqMonotonic
  <1>4. \A i \in DOMAIN up' : up'[i] \in PutRequests /\ \E j \in DOMAIN up : up'[i] = up[j]
    <2>1. \A n \in DOMAIN Among(up, PutRequests) :
            \E i \in DOMAIN up : Among(up, PutRequests)[n] = up[i] /\ up[i] \in PutRequests
      BY <1>1, AmongProperties
    <2>2. up' = Among(up, PutRequests)
      BY DEF Cut
    <2>3. QED
      BY <2>1, <2>2
  <1>5. down' \in Seq(Response) /\ loading' \in Seq(SUBSET Keys)
    BY EmptySeq DEF Cut
  <1>6. QED
    BY <1>3, <1>4, <1>5, RequestKinds DEF Cut

LEMMA DisconnectStep ==
  ASSUME DatabaseInv, Disconnect
  PROVE  DatabaseInv'
  <1>a. /\ DatabaseTypeOK /\ ConnInv /\ PutsInv /\ WireInv /\ ServerInv /\ PhaseInv /\ ViewInv
        /\ UNCHANGED <<messages, puts, putsToAck, status, observers, serverCache, complete,
                       eventCache, events>>
    BY DEF DatabaseInv, Disconnect, viewVars
  <1>1. /\ up' \in Seq(Request)
        /\ \A i \in DOMAIN up' : up'[i].type = "put" /\ \E j \in DOMAIN up : up'[i] = up[j]
        /\ conn' = "down" /\ down' = <<>> /\ loading' = <<>> /\ ~subscribed' /\ unacked' = 0
        /\ down' \in Seq(Response) /\ loading' \in Seq(SUBSET Keys) /\ subscribed' \in BOOLEAN
    BY <1>a, CutWire DEF Disconnect
  <1>2. DatabaseTypeOK'
    BY <1>a, <1>1 DEF DatabaseTypeOK
  <1>3. ConnInv' /\ PutsInv' /\ ViewInv' /\ PhaseInv'
    BY <1>a, <1>1 DEF ConnInv, PutsInv, ViewInv, PhaseInv, Listening, PutKeys, AckKeys, Pending
  <1>4. WireInv'
    BY <1>a, <1>1 DEF WireInv
  <1>5. ServerInv'
    BY <1>a, <1>1 DEF ServerInv
  <1>6. QED
    BY <1>2, <1>3, <1>4, <1>5 DEF DatabaseInv

LEMMA StoppedStep ==
  ASSUME DatabaseInv, DatabaseStopped
  PROVE  DatabaseInv'
  <1>a. /\ DatabaseTypeOK /\ ConnInv /\ PutsInv /\ WireInv /\ ServerInv /\ PhaseInv /\ ViewInv
        /\ puts' = <<>> /\ putsToAck' = <<>> /\ observers' = <<>> /\ serverCache' = {}
        /\ complete' = FALSE /\ eventCache' = {} /\ events' = <<>> /\ UNCHANGED messages
        /\ status' = [k \in Keys |-> IF k \in Pending THEN "lost" ELSE status[k]]
    BY DEF DatabaseInv, DatabaseStopped
  <1>1. /\ up' \in Seq(Request)
        /\ \A i \in DOMAIN up' : up'[i].type = "put" /\ \E j \in DOMAIN up : up'[i] = up[j]
        /\ conn' = "down" /\ down' = <<>> /\ loading' = <<>> /\ ~subscribed' /\ unacked' = 0
        /\ down' \in Seq(Response) /\ loading' \in Seq(SUBSET Keys) /\ subscribed' \in BOOLEAN
    BY <1>a, CutWire DEF DatabaseStopped
  <1>2. /\ \A k \in Keys : status'[k] = IF status[k] = "pending" THEN "lost" ELSE status[k]
        /\ status' \in [Keys -> {"unsent", "pending", "saved", "refused", "lost"}]
    BY <1>a DEF DatabaseTypeOK, Pending
  <1>3. /\ puts' \in Seq(Keys) /\ putsToAck' \in Seq(PutAnswers) /\ observers' \in Seq(Chats)
        /\ events' \in Seq(Event)
    BY <1>a, EmptySeq
  <1>4. DatabaseTypeOK'
    BY <1>a, <1>1, <1>2, <1>3 DEF DatabaseTypeOK
  <1>5. PutKeys' = {} /\ AckKeys' = {} /\ Pending' = {}
    BY <1>a, <1>2 DEF PutKeys, AckKeys, Pending
  <1>6. ConnInv' /\ ViewInv' /\ PhaseInv'
    BY <1>a, <1>1, <1>5 DEF ConnInv, ViewInv, PhaseInv, Listening
  <1>7. PutsInv'
    BY <1>a, <1>2, <1>5 DEF PutsInv
  <1>8. WireInv'
    <2>1. \A i \in DOMAIN up : up[i].type = "put" => up[i].key \in Keys
      BY <1>a, RequestKinds, ElementOfSeq, LenProperties DEF DatabaseTypeOK
    <2>2. \A i \in DOMAIN up' : status'[up'[i].key] \in {"pending", "lost"}
      BY <1>a, <1>1, <1>2, <2>1 DEF WireInv
    <2>3. QED
      BY <1>1, <2>2 DEF WireInv
  <1>9. ServerInv'
    BY <1>a, <1>1 DEF ServerInv
  <1>10. QED
    BY <1>4, <1>6, <1>7, <1>8, <1>9 DEF DatabaseInv

-----------------------------------------------------------------------------
(* The server's steps.                                                     *)

\* down' is down with more messages after it.
Longer == /\ \A i \in DOMAIN down : i \in DOMAIN down' /\ down'[i] = down[i]
          /\ Len(down) <= Len(down')
          /\ \A i \in DOMAIN down' : i \notin DOMAIN down => i > Len(down)
          /\ down' \in Seq(Response)

LEMMA SendsLonger ==
  ASSUME down \in Seq(Response), NEW msgs \in Seq(Response), down' = down \o msgs
  PROVE  /\ Longer
         /\ Len(down') = Len(down) + Len(msgs)
         /\ \A j \in DOMAIN msgs : Len(down) + j \in DOMAIN down' /\ down'[Len(down) + j] = msgs[j]
         /\ \A i \in DOMAIN down' : i \notin DOMAIN down =>
              i - Len(down) \in DOMAIN msgs /\ down'[i] = msgs[i - Len(down)]
  <1> DEFINE c == down \o msgs
  <1>1. /\ c \in Seq(Response)
        /\ Len(c) = Len(down) + Len(msgs)
        /\ \A i \in DOMAIN down : c[i] = down[i] /\ i \in DOMAIN c
        /\ \A i \in DOMAIN msgs : c[Len(down) + i] = msgs[i] /\ Len(down) + i \in DOMAIN c
        /\ \A i \in DOMAIN c : i \in DOMAIN down \/ (i > Len(down) /\ i - Len(down) \in DOMAIN msgs)
    BY ConcatAt
  <1>2. Len(down) \in Nat /\ Len(msgs) \in Nat /\ DOMAIN c = 1 .. Len(c) /\ Len(c) \in Nat
    BY <1>1, LenProperties
  <1>3. \A i \in DOMAIN c : Len(down) + (i - Len(down)) = i
    BY <1>2
  <1> HIDE DEF c
  <1>4. down' = c
    BY DEF c
  <1>5. QED
    BY <1>1, <1>2, <1>3, <1>4 DEF Longer

LEMMA HasStays ==
  ASSUME Longer, UNCHANGED serverCache, NEW k, NEW n, Has(k, n)
  PROVE  Has(k, n)'
  <1>1. CASE k \in serverCache
    BY <1>1 DEF Has
  <1>2. ASSUME NEW i \in DOMAIN down, i <= n, Carries(i, k) PROVE Has(k, n)'
    BY <1>2 DEF Longer, Has, Carries
  <1>3. QED
    BY <1>1, <1>2 DEF Has

\* More of what is on its way, by when the client has it.
LEMMA HasMore ==
  ASSUME NEW k, NEW m \in Nat, NEW n \in Nat, m <= n, Has(k, m), down \in Seq(Response)
  PROVE  Has(k, n)
  <1>1. \A i \in DOMAIN down : i \in Nat
    BY LenProperties
  <1>2. QED
    BY <1>1 DEF Has

\* The messages so far keep their relations when more follow and no message
\* that was answered enters the room.
LEMMA ArrivingStays ==
  ASSUME Longer, UNCHANGED <<serverCache, putsToAck>>, down \in Seq(Response),
         NEW p \in DOMAIN down, ArrivingAt(p), messages \subseteq messages',
         \A k \in messages' \ messages : k \notin AckKeys /\ ~\E i \in DOMAIN down : AnsweredAt(i, k),
         \A i \in DOMAIN down' : i \notin DOMAIN down =>
           /\ down'[i].type \in {"put", "child"}
           /\ \A k \in messages' : AnsweredAt(i, k)' => Has(k, i)'
  PROVE  ArrivingAt(p)'
  <1>0. /\ \A i \in DOMAIN down : i \in DOMAIN down' /\ down'[i] = down[i] /\ i \in Nat /\ i <= Len(down)
        /\ \A i \in DOMAIN down' : i \notin DOMAIN down => i > p
        /\ Len(down) \in Nat
        /\ \A i \in DOMAIN down' : i \in Nat
    BY LenProperties DEF Longer
  <1>1. down'[p] = LISTEN_OK
    BY <1>0 DEF ArrivingAt
  <1>2. ASSUME NEW i \in DOMAIN down'
        PROVE  /\ i < p => down'[i].type = "put" \/ (i = p - 1 /\ down'[i].type = "snapshot")
               /\ i > p => down'[i].type \in {"put", "child"}
    BY <1>0 DEF ArrivingAt
  <1>3. ASSUME NEW k \in messages',
               k \in AckKeys' \/ (\E i \in DOMAIN down' : i < p /\ AnsweredAt(i, k)')
        PROVE  Has(k, p)'
    <2>1. k \in AckKeys \/ (\E i \in DOMAIN down : i < p /\ AnsweredAt(i, k))
      BY <1>0, <1>3 DEF AckKeys, AnsweredAt
    <2>2. k \in messages
      BY <2>1
    <2>3. Has(k, p)
      BY <2>1, <2>2 DEF ArrivingAt
    <2>4. QED
      BY <2>3, HasStays
  <1>4. ASSUME NEW k \in messages', NEW i \in DOMAIN down', i > p, AnsweredAt(i, k)'
        PROVE  Has(k, i)'
    <2>1. CASE i \notin DOMAIN down
      BY <1>4, <2>1
    <2>2. CASE i \in DOMAIN down
      <3>1. AnsweredAt(i, k)
        BY <1>0, <1>4, <2>2 DEF AnsweredAt
      <3>2. k \in messages
        BY <2>2, <3>1
      <3>3. Has(k, i)
        BY <1>4, <2>2, <3>1, <3>2 DEF ArrivingAt
      <3>4. QED
        BY <3>3, HasStays
    <2>3. QED
      BY <2>1, <2>2
  <1>5. QED
    BY <1>1, <1>2, <1>3, <1>4 DEF ArrivingAt

\* A put read by the server, and its answer: what it is about is sent first.
LEMMA PutRead ==
  ASSUME DatabaseInv, up # <<>>, up[1].type = "put", up' = Tail(up), NEW ok \in BOOLEAN,
         messages' = IF ok THEN messages \cup {up[1].key} ELSE messages,
         Sends((IF ok THEN Pushed(up[1].key) ELSE <<>>) \o <<PutAnswer(up[1].key, ok)>>),
         UNCHANGED <<loading, subscribed, conn, puts, unacked, putsToAck, status, viewVars, events>>
  PROVE  DatabaseInv'
  <1> DEFINE k == up[1].key
             a == PutAnswer(k, ok)
             L == Len(down)
  <1>a. /\ DatabaseTypeOK /\ ConnInv /\ PutsInv /\ WireInv /\ ServerInv /\ PhaseInv /\ ViewInv
        /\ UNCHANGED <<subscribed, loading, conn, puts, unacked, putsToAck, status, observers,
                       serverCache, complete, eventCache, events>>
    BY DEF DatabaseInv, viewVars
  <1>b. /\ up \in Seq(Request) /\ down \in Seq(Response) /\ up' \in Seq(Request)
        /\ 1 \in DOMAIN up
        /\ \A i \in DOMAIN up' : up'[i] = up[i + 1] /\ i + 1 \in DOMAIN up /\ i \in Nat /\ i > 0
    BY <1>a, TailAt DEF DatabaseTypeOK
  <1>c. k \in Keys /\ \A i \in DOMAIN up : up[i].type = "put" => up[i].key \in Keys
    BY <1>b, RequestKinds, LenProperties, ElementOfSeq
  <1>d. /\ L \in Nat /\ \A i \in DOMAIN down : i \in Nat /\ i <= L
        /\ \A i \in DOMAIN down : down[i].type = "put" => down[i].key \in Keys
    BY <1>b, LenProperties, ElementOfSeq, ResponseKinds
  <1>e. a \in Response /\ a.type = "put" /\ a.key = k /\ a.ok = ok
    BY <1>c, ResponseKinds
  <1>f. Child(k) \in Response /\ Child(k).type = "child" /\ Child(k).key = k
    BY <1>c, ResponseKinds
  <1>g. conn \in {"down", "up"}
    <2>1. up # <<AUTH>>
      BY RequestKinds
    <2>2. QED
      BY <1>a, <2>1 DEF DatabaseTypeOK, ConnInv
  <1>h. messages' \in SUBSET Keys /\ messages \subseteq messages' /\ messages' \subseteq messages \cup {k}
        /\ (ok => k \in messages')
    BY <1>a, <1>c DEF DatabaseTypeOK
  <1> HIDE DEF a, L, k
  <1>1. CASE conn = "down"
    <2>1. down' = <<>> /\ down = <<>> /\ ~subscribed /\ loading = <<>> /\ unacked = 0
      BY <1>a, <1>1 DEF Sends, ConnInv
    <2>2. DatabaseTypeOK'
      BY <1>a, <1>b, <1>h, <2>1 DEF DatabaseTypeOK
    <2>3. ConnInv'
      BY <1>a, <1>1, <1>b, <2>1 DEF ConnInv, Listening
    <2>4. PutsInv' /\ ViewInv' /\ PhaseInv'
      BY <1>a, <1>1 DEF PutsInv, ViewInv, PhaseInv, PutKeys, AckKeys, Pending
    <2>5. WireInv'
      BY <1>a, <1>1, <1>b, <2>1 DEF WireInv
    <2>6. ServerInv'
      BY <1>a, <1>h, <2>1 DEF ServerInv
    <2>7. QED
      BY <2>2, <2>3, <2>4, <2>5, <2>6 DEF DatabaseInv
  <1>2. CASE conn = "up"
    \* Where the new messages are.
    <2>1. /\ Longer
          /\ Len(down') \in Nat /\ L < Len(down') /\ Len(down') \in DOMAIN down' /\ down'[Len(down')] = a
          /\ \A i \in DOMAIN down' : i \notin DOMAIN down =>
               (i = Len(down') /\ down'[i] = a) \/ (down'[i] = Child(k) /\ subscribed)
          /\ ok /\ subscribed /\ k \notin messages => L + 1 \in DOMAIN down' /\ down'[L + 1] = Child(k)
          /\ \A i \in DOMAIN down' : i \notin DOMAIN down /\ down'[i] = Child(k) => k \in messages'
      <3> DEFINE msgs == (IF ok THEN Pushed(k) ELSE <<>>) \o <<a>>
      <3>1. down' = down \o msgs
        BY <1>2 DEF Sends, a, k
      <3>2. CASE ok /\ subscribed /\ k \notin messages
        <4>1. msgs = <<Child(k)>> \o <<a>>
          BY <3>2 DEF Pushed
        <4> HIDE DEF msgs
        <4>2. msgs \in Seq(Response) /\ Len(msgs) = 2 /\ DOMAIN msgs = 1 .. 2 /\ msgs[1] = Child(k) /\ msgs[2] = a
          <5> DEFINE c == <<Child(k)>> \o <<a>>
          <5>1. c \in Seq(Response) /\ Len(c) = 2 /\ DOMAIN c = 1 .. 2 /\ c[1] = Child(k) /\ c[2] = a
            BY <1>e, <1>f, TwoSent
          <5> HIDE DEF c
          <5>2. msgs = c
            BY <4>1 DEF c
          <5>3. QED
            BY <5>1, <5>2
        <4>3. Longer /\ Len(down') = L + 2
              /\ (\A j \in 1 .. 2 : L + j \in DOMAIN down' /\ down'[L + j] = msgs[j])
              /\ \A i \in DOMAIN down' : i \notin DOMAIN down =>
                   i - L \in 1 .. 2 /\ down'[i] = msgs[i - L]
          BY <1>b, <3>1, <4>2, SendsLonger DEF L
        <4>4. \A i \in DOMAIN down' : i \notin DOMAIN down => i = L + 1 \/ i = L + 2
          <5>1. \A i \in DOMAIN down' : i \in Nat
            BY <4>3, LenProperties DEF Longer
          <5>2. \A i \in DOMAIN down' : i \notin DOMAIN down => i - L \in 1 .. 2
            BY <4>3
          <5>3. QED
            BY <1>d, <5>1, <5>2
        <4>5. L + 1 \in DOMAIN down' /\ down'[L + 1] = Child(k) /\ L + 2 \in DOMAIN down' /\ down'[L + 2] = a
          BY <4>2, <4>3
        <4>6. QED
          BY <1>d, <1>h, <3>2, <4>3, <4>4, <4>5
      <3>3. CASE ~(ok /\ subscribed /\ k \notin messages)
        <4>1. msgs = <<>> \o <<a>>
          BY <3>3 DEF Pushed
        <4>2. msgs \in Seq(Response) /\ Len(msgs) = 1 /\ DOMAIN msgs = 1 .. 1 /\ msgs[1] = a
          BY <1>e, <4>1, OneSent
        <4> HIDE DEF msgs
        <4>3. Longer /\ Len(down') = L + 1
              /\ (\A j \in 1 .. 1 : L + j \in DOMAIN down' /\ down'[L + j] = msgs[j])
              /\ \A i \in DOMAIN down' : i \notin DOMAIN down =>
                   i - L \in 1 .. 1 /\ down'[i] = msgs[i - L]
          BY <1>b, <3>1, <4>2, SendsLonger DEF L
        <4>4. \A i \in DOMAIN down' : i \notin DOMAIN down => i = L + 1
          <5>1. \A i \in DOMAIN down' : i \in Nat
            BY <4>3, LenProperties DEF Longer
          <5>2. QED
            BY <1>d, <4>3, <5>1
        <4>5. L + 1 \in DOMAIN down' /\ down'[L + 1] = a
          BY <4>2, <4>3
        <4>6. a # Child(k)
          BY <1>e, <1>f
        <4>7. QED
          BY <1>d, <3>3, <4>3, <4>4, <4>5, <4>6
      <3>4. QED
        BY <3>2, <3>3
    <2>2. /\ \A i \in DOMAIN down : i \in DOMAIN down' /\ down'[i] = down[i]
          /\ down' \in Seq(Response)
          /\ \A i \in DOMAIN down' : i \notin DOMAIN down =>
               \/ i = Len(down') /\ down'[i].type = "put" /\ down'[i].key = k /\ down'[i].ok = ok
               \/ down'[i].type = "child" /\ down'[i].key = k /\ k \in messages' /\ subscribed
      BY <1>e, <1>f, <2>1 DEF Longer
    \* The put was the only trace of its key on the wire.
    <2>3. /\ k \in PutKeys /\ status[k] \in {"pending", "lost"}
          /\ \A i \in DOMAIN up' : up'[i].type = "put" => up'[i].key # k
          /\ \A i \in DOMAIN down : down[i].type = "put" => down[i].key # k
          /\ k \notin AckKeys
      <3>1. k \in PutKeys /\ status[k] \in {"pending", "lost"}
            /\ \A i \in DOMAIN down : down[i].type = "put" => down[i].key # k
        BY <1>a, <1>b, <1>2 DEF WireInv, k
      <3>2. \A i \in DOMAIN up' : up'[i].type = "put" => up'[i].key # k
        BY <1>a, <1>b, <1>2 DEF WireInv, k
      <3>3. QED
        BY <1>a, <1>c, <3>1, <3>2 DEF PutsInv
    <2>4. \A l, n : Has(l, n) => Has(l, n)'
      BY <1>a, <2>1, HasStays
    <2>5. \A l, n : Has(l, n) /\ n = L => Has(l, Len(down))'
      <3> SUFFICES ASSUME NEW l, NEW n, n = L, Has(l, n) PROVE Has(l, Len(down))'
        OBVIOUS
      <3>1. Has(l, n)'
        BY <2>4
      <3>2. \A i \in DOMAIN down' : i \in Nat
        BY <2>2, LenProperties
      <3>3. QED
        BY <1>d, <2>1, <3>1, <3>2 DEF Has
    <2>6. subscribed => \A l \in messages' : Has(l, Len(down))'
      <3> SUFFICES ASSUME subscribed, NEW l \in messages' PROVE Has(l, Len(down))'
        OBVIOUS
      <3>1. CASE l \in messages
        BY <1>a, <2>5, <3>1 DEF ServerInv, L
      <3>2. CASE l \notin messages
        <4>1. l = k /\ ok /\ L + 1 \in DOMAIN down' /\ down'[L + 1] = Child(k) /\ L + 1 <= Len(down')
          BY <1>d, <1>h, <2>1, <3>2 DEF k
        <4>2. QED
          BY <1>f, <4>1 DEF Has, Carries
      <3>3. QED
        BY <3>1, <3>2
    <2>7. DatabaseTypeOK'
      BY <1>a, <1>b, <1>h, <2>2 DEF DatabaseTypeOK
    <2>8. ConnInv'
      BY <1>a, <1>2 DEF ConnInv, Listening
    <2>9. PutsInv' /\ ViewInv' /\ PutKeys' = PutKeys /\ AckKeys' = AckKeys
      BY <1>a DEF PutsInv, ViewInv, PutKeys, AckKeys, Pending
    <2>10. WireInv'
      <3>1. \A i \in DOMAIN up' : up'[i].type = "put" =>
              status'[up'[i].key] \in {"pending", "lost"} /\ (conn' = "up" => up'[i].key \in PutKeys')
        BY <1>a, <1>b, <2>9 DEF WireInv
      <3>2. conn' = "up" => \A i, j \in DOMAIN up' :
              up'[i].type = "put" /\ up'[j].type = "put" /\ up'[i].key = up'[j].key => i = j
        <4> SUFFICES ASSUME NEW i \in DOMAIN up', NEW j \in DOMAIN up', up'[i].type = "put",
                            up'[j].type = "put", up'[i].key = up'[j].key
                     PROVE  i = j
          OBVIOUS
        <4>1. i + 1 = j + 1
          BY <1>a, <1>b, <1>2 DEF WireInv
        <4>2. QED
          BY <1>b, <4>1
      <3>3. \A i \in DOMAIN down' : down'[i].type = "put" => down'[i].key \in PutKeys'
        BY <1>a, <2>2, <2>3, <2>9 DEF WireInv
      <3>4. \A i, j \in DOMAIN down' :
              down'[i].type = "put" /\ down'[j].type = "put" /\ down'[i].key = down'[j].key => i = j
        BY <1>a, <2>2, <2>3 DEF WireInv
      <3>5. \A i \in DOMAIN up', j \in DOMAIN down' :
              up'[i].type = "put" /\ down'[j].type = "put" => up'[i].key # down'[j].key
        BY <1>a, <1>b, <2>2, <2>3 DEF WireInv
      <3>6. QED
        BY <3>1, <3>2, <3>3, <3>4, <3>5 DEF WireInv
    <2>11. ServerInv'
      <3>1. \A i \in DOMAIN down' :
              /\ down'[i].type = "snapshot" => serverCache' \subseteq down'[i].data /\ down'[i].data \subseteq messages'
              /\ down'[i].type = "child" => down'[i].key \in messages'
              /\ down'[i].type = "put" /\ down'[i].ok => down'[i].key \in messages'
        BY <1>a, <1>h, <2>2 DEF ServerInv
      <3>2. QED
        BY <1>a, <1>h, <2>6, <3>1 DEF ServerInv
    <2>12. PhaseInv'
      <3>1. ~Asking
        BY <1>b, RequestKinds, <1>a DEF Asking, DatabaseTypeOK
      <3>2. \A i \in DOMAIN up' : OnlyPuts => up'[i].type = "put"
        BY <1>b DEF OnlyPuts
      <3>3. CASE Answering
        <4>1. \A i \in DOMAIN down' : down'[i].type = "put"
          BY <2>2, <3>3 DEF Answering
        <4>2. QED
          BY <1>a, <3>2, <3>3, <4>1 DEF PhaseInv, Answering, OnlyPuts
      <3>4. \A l \in messages', i \in DOMAIN down' :
              subscribed /\ i \notin DOMAIN down /\ AnsweredAt(i, l)' => Has(l, i)'
        BY <2>2, <2>6 DEF AnsweredAt
      <3>5. \A l \in messages' \ messages : l \notin AckKeys /\ ~\E i \in DOMAIN down : AnsweredAt(i, l)
        BY <1>h, <2>3 DEF AnsweredAt
      <3>6. CASE Arriving
        <4>1. PICK p \in DOMAIN down : ArrivingAt(p)
          BY <3>6 DEF Arriving
        <4>2. subscribed /\ \A i \in DOMAIN down' : i \notin DOMAIN down =>
                /\ down'[i].type \in {"put", "child"}
                /\ \A l \in messages' : AnsweredAt(i, l)' => Has(l, i)'
          BY <2>2, <3>4, <3>6 DEF Arriving
        <4>3. ArrivingAt(p)'
          BY <1>a, <1>b, <1>h, <2>1, <3>5, <4>1, <4>2, ArrivingStays
        <4>4. Arriving'
          BY <1>a, <2>2, <3>2, <3>6, <4>3 DEF Arriving, OnlyPuts
        <4>5. QED
          BY <4>4 DEF PhaseInv
      <3>7. CASE Settled
        <4>1. \A i \in DOMAIN down' : down'[i].type \in {"put", "child"}
          BY <2>2, <3>7 DEF Settled
        <4>2. ASSUME NEW l \in messages', NEW i \in DOMAIN down', AnsweredAt(i, l)' PROVE Has(l, i)'
          <5>1. CASE i \notin DOMAIN down
            BY <3>4, <3>7, <4>2, <5>1 DEF Settled
          <5>2. CASE i \in DOMAIN down
            <6>1. AnsweredAt(i, l)
              BY <2>2, <4>2, <5>2 DEF AnsweredAt
            <6>2. l \in messages
              BY <3>5, <5>2, <6>1
            <6>3. QED
              BY <2>4, <3>7, <5>2, <6>1, <6>2 DEF Settled
          <5>3. QED
            BY <5>1, <5>2
        <4>3. Settled'
          BY <1>a, <3>2, <3>7, <4>1, <4>2 DEF Settled, OnlyPuts
        <4>4. QED
          BY <4>3 DEF PhaseInv
      <3>8. QED
        BY <1>a, <1>2, <3>1, <3>3, <3>6, <3>7 DEF PhaseInv
    <2>13. QED
      BY <2>7, <2>8, <2>9, <2>10, <2>11, <2>12 DEF DatabaseInv
  <1>3. QED
    BY <1>1, <1>2, <1>g

\* The server reads the token: the connection's first request.
LEMMA AuthRead ==
  ASSUME DatabaseInv, up # <<>>, up[1] = AUTH, up' = Tail(up), Sends(<<AUTH_OK>>),
         UNCHANGED <<messages, loading, subscribed, conn, puts, unacked, putsToAck, status, viewVars, events>>
  PROVE  DatabaseInv'
  <1>a. /\ DatabaseTypeOK /\ ConnInv /\ PutsInv /\ WireInv /\ ServerInv /\ PhaseInv /\ ViewInv
        /\ UNCHANGED <<messages, subscribed, loading, conn, puts, unacked, putsToAck, status, observers,
                       serverCache, complete, eventCache, events>>
    BY DEF DatabaseInv, viewVars
  <1>1. 1 \in DOMAIN up /\ up[1].type = "auth"
    BY <1>a, TailAt, RequestKinds DEF DatabaseTypeOK
  <1>2. conn = "authenticating"
    <2>1. conn # "down"
      BY <1>a, <1>1 DEF ConnInv
    <2>2. ~OnlyPuts /\ ~Asking
      BY <1>a, <1>1, RequestKinds DEF OnlyPuts, Asking, DatabaseTypeOK
    <2>3. conn # "up"
      BY <1>a, <2>2 DEF PhaseInv, Answering, Arriving, Settled
    <2>4. QED
      BY <1>a, <2>1, <2>3 DEF DatabaseTypeOK
  <1>3. up = <<AUTH>> /\ down = <<>> /\ subscribed = FALSE
    BY <1>a, <1>2 DEF ConnInv, DatabaseTypeOK
  <1>4. up' = <<>>
    BY <1>3
  <1>5. down' = <<AUTH_OK>>
    <2> DEFINE s == <<AUTH_OK>>
    <2>1. s \in Seq(Response)
      BY ResponseKinds
    <2> HIDE DEF s
    <2>2. down' = <<>> \o s
      BY <1>2, <1>3 DEF Sends, s
    <2>3. QED
      BY <2>1, <2>2, ConcatEmptySeq DEF s
  <1>6. \A i \in DOMAIN down' : down'[i].type = "authOk"
    BY <1>5, ResponseKinds
  <1>7. up' \in Seq(Request) /\ down' \in Seq(Response)
    <2>1. up' \in Seq(Request)
      BY <1>4, EmptySeq
    <2>2. AUTH_OK \in Response
      BY ResponseKinds
    <2>3. QED
      BY <1>5, <2>1, <2>2
  <1>8. DatabaseTypeOK'
    BY <1>a, <1>7 DEF DatabaseTypeOK
  <1>9. ConnInv' /\ PutsInv' /\ ViewInv' /\ PhaseInv'
    BY <1>a, <1>2, <1>4, <1>5 DEF ConnInv, PutsInv, ViewInv, PhaseInv, Listening, PutKeys, AckKeys, Pending
  <1>10. WireInv'
    BY <1>2, <1>4, <1>6, <1>a DEF WireInv
  <1>11. ServerInv'
    BY <1>a, <1>3, <1>6 DEF ServerInv
  <1>12. QED
    BY <1>8, <1>9, <1>10, <1>11 DEF DatabaseInv

\* The server reads the listen: the first request of a connection.
LEMMA ListenRead ==
  ASSUME DatabaseInv, up # <<>>, up[1].type = "listen", up' = Tail(up),
         loading' = Append(loading, up[1].cache),
         UNCHANGED <<messages, down, subscribed, conn, puts, unacked, putsToAck, status, viewVars, events>>
  PROVE  DatabaseInv'
  <1>a. /\ DatabaseTypeOK /\ ConnInv /\ PutsInv /\ WireInv /\ ServerInv /\ PhaseInv /\ ViewInv
        /\ UNCHANGED <<messages, subscribed, down, conn, puts, unacked, putsToAck, status, observers,
                       serverCache, complete, eventCache, events>>
    BY DEF DatabaseInv, viewVars
  <1>1. /\ up \in Seq(Request) /\ 1 \in DOMAIN up
        /\ up' \in Seq(Request)
        /\ \A i \in DOMAIN up' : up'[i] = up[i + 1] /\ i + 1 \in DOMAIN up /\ i \in Nat /\ i > 0
    BY <1>a, TailAt DEF DatabaseTypeOK
  <1>2. conn = "up"
    <2>1. conn # "down"
      BY <1>a, <1>1 DEF ConnInv
    <2>2. conn # "authenticating"
      BY <1>a, RequestKinds DEF ConnInv
    <2>3. QED
      BY <1>a, <2>1, <2>2 DEF DatabaseTypeOK
  <1>3. Asking
    BY <1>a, <1>1, <1>2 DEF PhaseInv, Answering, Arriving, Settled, OnlyPuts
  <1>4. loading' = <<serverCache>>
    <2>1. up[1].cache = serverCache
      BY <1>a, <1>3, RequestKinds DEF Asking, DatabaseTypeOK
    <2>2. QED
      BY <1>3, <2>1 DEF Asking
  <1>5. \A i \in DOMAIN up' : up'[i].type = "put" /\ i + 1 # 1
    BY <1>1, <1>3 DEF Asking
  <1>6. DatabaseTypeOK'
    BY <1>a, <1>1, <1>4 DEF DatabaseTypeOK
  <1>7. ConnInv' /\ PutsInv' /\ ViewInv'
    BY <1>a, <1>2 DEF ConnInv, PutsInv, ViewInv, Listening, PutKeys, AckKeys, Pending
  <1>8. WireInv'
    <2>1. PutKeys' = PutKeys /\ down = <<>>
      BY <1>a, <1>3 DEF PutKeys, Asking
    <2>2. \A i, j \in DOMAIN up' :
            up'[i].type = "put" /\ up'[j].type = "put" /\ up'[i].key = up'[j].key => i = j
      <3> SUFFICES ASSUME NEW i \in DOMAIN up', NEW j \in DOMAIN up', up'[i].type = "put",
                          up'[j].type = "put", up'[i].key = up'[j].key
                   PROVE  i = j
        OBVIOUS
      <3>1. i + 1 = j + 1
        BY <1>a, <1>1, <1>2 DEF WireInv
      <3>2. QED
        BY <1>1, <3>1
    <2>3. \A i \in DOMAIN up' : up'[i].type = "put" =>
            status'[up'[i].key] \in {"pending", "lost"} /\ (conn' = "up" => up'[i].key \in PutKeys')
      BY <1>a, <1>1, <2>1 DEF WireInv
    <2>4. QED
      BY <1>a, <2>1, <2>2, <2>3 DEF WireInv
  <1>9. ServerInv'
    BY <1>a DEF ServerInv, Has, Carries
  <1>10. Answering'
    BY <1>a, <1>3, <1>4, <1>5 DEF Asking, Answering, OnlyPuts
  <1>11. QED
    BY <1>6, <1>7, <1>8, <1>9, <1>10 DEF DatabaseInv, PhaseInv

LEMMA ServerReadsStep ==
  ASSUME DatabaseInv, ServerReads
  PROVE  DatabaseInv'
  <1>1. /\ up # <<>> /\ up' = Tail(up) /\ Head(up) = up[1]
        /\ UNCHANGED <<subscribed, conn, puts, unacked, putsToAck, status, viewVars, events>>
    BY TailAt DEF ServerReads, DatabaseInv, DatabaseTypeOK
  <1>2. CASE up[1] = AUTH /\ Sends(<<AUTH_OK>>) /\ UNCHANGED <<messages, loading>>
    BY <1>1, <1>2, AuthRead
  <1>3. CASE up[1].type = "listen" /\ loading' = Append(loading, up[1].cache) /\ UNCHANGED <<messages, down>>
    BY <1>1, <1>3, ListenRead
  <1>4. CASE /\ up[1].type = "put" /\ messages' = messages \cup {up[1].key}
             /\ Sends(Pushed(up[1].key) \o <<PutAnswer(up[1].key, TRUE)>>)
             /\ UNCHANGED loading
    BY <1>1, <1>4, PutRead, Zenon
  <1>5. CASE /\ up[1].type = "put" /\ Sends(<<PutAnswer(up[1].key, FALSE)>>)
             /\ UNCHANGED <<messages, loading>>
    <2> DEFINE a == <<PutAnswer(up[1].key, FALSE)>>
    <2>1. up[1].key \in Keys
      BY <1>1, <1>5, TailAt, RequestKinds DEF DatabaseInv, DatabaseTypeOK
    <2>a. PutAnswer(up[1].key, FALSE) \in Response
      BY <2>1, ResponseKinds
    <2>3. <<>> \o a = a
      BY <2>a, OneSent
    <2> HIDE DEF a
    <2>4. messages' = IF FALSE THEN messages \cup {up[1].key} ELSE messages
      BY <1>5
    <2>5. Sends((IF FALSE THEN Pushed(up[1].key) ELSE <<>>) \o <<PutAnswer(up[1].key, FALSE)>>)
      BY <1>5, <2>3 DEF a
    <2>6. QED
      BY <1>1, <1>5, <2>4, <2>5, PutRead, Zenon
  <1>6. QED
    BY <1>1, <1>2, <1>3, <1>4, <1>5 DEF ServerReads

\* The server answers the listen: the room is in the client's cache, or in the
\* snapshot right before the answer.
LEMMA ServerAnswersStep ==
  ASSUME DatabaseInv, ServerAnswers
  PROVE  DatabaseInv'
  <1> DEFINE L == Len(down)
             p == Len(down')
  <1>a. /\ DatabaseTypeOK /\ ConnInv /\ PutsInv /\ WireInv /\ ServerInv /\ PhaseInv /\ ViewInv
        /\ UNCHANGED <<messages, up, conn, puts, unacked, putsToAck, status, observers,
                       serverCache, complete, eventCache, events>>
        /\ loading # <<>> /\ loading' = Tail(loading) /\ subscribed' = TRUE
    BY DEF DatabaseInv, ServerAnswers, viewVars
  <1>1. conn = "up"
    BY <1>a DEF ConnInv, DatabaseTypeOK
  <1>2. Answering
    BY <1>a, <1>1 DEF PhaseInv, Asking, Arriving, Settled
  <1>3. loading' = <<>> /\ loading[1] = serverCache /\ Head(loading) = serverCache
    BY <1>a, <1>2 DEF Answering
  <1>4. /\ down \in Seq(Response) /\ L \in Nat
        /\ \A i \in DOMAIN down : i \in Nat /\ i <= L /\ down[i].type = "put"
    BY <1>a, <1>2, LenProperties DEF DatabaseTypeOK, Answering
  <1>5. /\ LISTEN_OK \in Response /\ LISTEN_OK.type = "listenOk"
        /\ Snapshot(messages) \in Response /\ Snapshot(messages).type = "snapshot"
        /\ Snapshot(messages).data = messages
    BY <1>a, ResponseKinds DEF DatabaseTypeOK
  \* Where the new messages are.
  <1>6. /\ Longer
        /\ p \in Nat /\ p \in DOMAIN down' /\ down'[p] = LISTEN_OK
        /\ \A i \in DOMAIN down' : i \notin DOMAIN down =>
             i = p \/ (i = p - 1 /\ down'[i] = Snapshot(messages))
        /\ serverCache # messages => p - 1 \in DOMAIN down' /\ down'[p - 1] = Snapshot(messages)
    <2> DEFINE msgs == (IF serverCache = messages THEN <<>> ELSE <<Snapshot(messages)>>) \o <<LISTEN_OK>>
    <2>1. down' = down \o msgs
      BY <1>1, <1>3 DEF Sends, ServerAnswers
    <2>2. CASE serverCache = messages
      <3>1. msgs = <<>> \o <<LISTEN_OK>>
        BY <2>2
      <3> HIDE DEF msgs
      <3>2. msgs \in Seq(Response) /\ Len(msgs) = 1 /\ DOMAIN msgs = 1 .. 1 /\ msgs[1] = LISTEN_OK
        BY <1>5, <3>1, OneSent
      <3>3. Longer /\ p = L + 1
            /\ (\A j \in 1 .. 1 : L + j \in DOMAIN down' /\ down'[L + j] = msgs[j])
            /\ \A i \in DOMAIN down' : i \notin DOMAIN down => i - L \in 1 .. 1 /\ down'[i] = msgs[i - L]
        BY <1>4, <2>1, <3>2, SendsLonger
      <3>a. L + 1 \in DOMAIN down' /\ down'[L + 1] = msgs[1]
        BY <3>3
      <3>4. \A i \in DOMAIN down' : i \in Nat
        BY <3>3, LenProperties DEF Longer
      <3>5. \A i \in DOMAIN down' : i \notin DOMAIN down => i = L + 1
        BY <1>4, <3>3, <3>4
      <3>6. QED
        BY <1>4, <2>2, <3>2, <3>3, <3>a, <3>5
    <2>3. CASE serverCache # messages
      <3> HIDE DEF msgs
      <3>2. msgs \in Seq(Response) /\ Len(msgs) = 2 /\ DOMAIN msgs = 1 .. 2
            /\ msgs[1] = Snapshot(messages) /\ msgs[2] = LISTEN_OK
        <4> DEFINE c == <<Snapshot(messages)>> \o <<LISTEN_OK>>
        <4>1. c \in Seq(Response) /\ Len(c) = 2 /\ DOMAIN c = 1 .. 2 /\ c[1] = Snapshot(messages) /\ c[2] = LISTEN_OK
          BY <1>5, TwoSent
        <4> HIDE DEF c
        <4>2. msgs = c
          BY <2>3 DEF c, msgs
        <4>3. QED
          BY <4>1, <4>2
      <3>3. Longer /\ p = L + 2
            /\ (\A j \in 1 .. 2 : L + j \in DOMAIN down' /\ down'[L + j] = msgs[j])
            /\ \A i \in DOMAIN down' : i \notin DOMAIN down => i - L \in 1 .. 2 /\ down'[i] = msgs[i - L]
        BY <1>4, <2>1, <3>2, SendsLonger
      <3>4. L + 1 \in DOMAIN down' /\ down'[L + 1] = Snapshot(messages) /\ L + 2 \in DOMAIN down' /\ down'[L + 2] = LISTEN_OK
        BY <3>2, <3>3
      <3>5. \A i \in DOMAIN down' : i \notin DOMAIN down => i = L + 1 \/ i = L + 2
        <4>1. \A i \in DOMAIN down' : i \in Nat
          BY <3>3, LenProperties DEF Longer
        <4>2. \A i \in DOMAIN down' : i \notin DOMAIN down => i - L \in 1 .. 2
          BY <3>3
        <4>3. QED
          BY <1>4, <4>1, <4>2
      <3>6. p \in Nat /\ p = L + 2 /\ p - 1 = L + 1
        BY <1>4, <3>3
      <3>7. QED
        BY <3>3, <3>4, <3>5, <3>6
    <2>4. QED
      BY <2>2, <2>3
  <1>7. /\ \A i \in DOMAIN down : i \in DOMAIN down' /\ down'[i] = down[i]
        /\ \A i \in DOMAIN down' : i \in Nat /\ i <= p
        /\ down' \in Seq(Response)
    BY <1>6, LenProperties DEF Longer
  <1>8. \A n : \A k \in messages : n = p => Has(k, n)'
    <2> SUFFICES ASSUME NEW k \in messages, NEW n, n = p PROVE Has(k, n)'
      OBVIOUS
    <2>1. CASE serverCache = messages
      BY <1>a, <2>1 DEF Has
    <2>2. CASE serverCache # messages
      <3>1. p - 1 \in DOMAIN down' /\ down'[p - 1] = Snapshot(messages) /\ p - 1 <= n
        BY <1>6, <2>2
      <3>2. QED
        BY <1>5, <3>1 DEF Has, Carries
    <2>3. QED
      BY <2>1, <2>2
  <1>9. \A i \in DOMAIN down' : /\ down'[i].type \in {"put", "snapshot", "listenOk"}
                                /\ down'[i].type = "put" => i \in DOMAIN down
                                /\ down'[i].type = "snapshot" => down'[i].data = messages
                                /\ i < p => down'[i].type = "put" \/ (i = p - 1 /\ down'[i].type = "snapshot")
    <2> SUFFICES ASSUME NEW i \in DOMAIN down'
                 PROVE  /\ down'[i].type \in {"put", "snapshot", "listenOk"}
                        /\ down'[i].type = "put" => i \in DOMAIN down
                        /\ down'[i].type = "snapshot" => down'[i].data = messages
                        /\ i < p => down'[i].type = "put" \/ (i = p - 1 /\ down'[i].type = "snapshot")
      OBVIOUS
    <2> HIDE DEF p
    <2>1. CASE i \in DOMAIN down
      BY <1>4, <1>7, <2>1
    <2>2. CASE i \notin DOMAIN down
      BY <1>5, <1>6, <2>2
    <2>3. QED
      BY <2>1, <2>2
  <1>10. DatabaseTypeOK'
    <2>1. loading' \in Seq(SUBSET Keys)
      BY <1>3, EmptySeq
    <2>2. QED
      BY <1>a, <1>7, <2>1 DEF DatabaseTypeOK
  <1>11. ConnInv' /\ PutsInv' /\ ViewInv' /\ PutKeys' = PutKeys /\ AckKeys' = AckKeys
    BY <1>a, <1>1 DEF ConnInv, PutsInv, ViewInv, Listening, PutKeys, AckKeys, Pending
  <1>12. WireInv'
    BY <1>a, <1>7, <1>9, <1>11 DEF WireInv
  <1>13. ServerInv'
    <2>1. \A i \in DOMAIN down' :
            /\ down'[i].type = "snapshot" => serverCache' \subseteq down'[i].data /\ down'[i].data \subseteq messages'
            /\ down'[i].type = "child" => down'[i].key \in messages'
            /\ down'[i].type = "put" /\ down'[i].ok => down'[i].key \in messages'
      BY <1>a, <1>7, <1>9 DEF ServerInv
    <2>2. \A k \in messages' : Has(k, Len(down))'
      <3> SUFFICES ASSUME NEW k \in messages' PROVE Has(k, Len(down))'
        OBVIOUS
      <3>1. \A n : n = p => Has(k, n)'
        BY <1>a, <1>8
      <3>2. QED
        BY <3>1 DEF Has
    <2>3. QED
      BY <1>a, <2>1, <2>2 DEF ServerInv
  <1>14. Arriving'
    <2> SUFFICES ASSUME NEW n, n = p PROVE n \in DOMAIN down' /\ ArrivingAt(n)'
      BY <1>a, <1>2, <1>3 DEF Arriving, Answering, OnlyPuts
    <2>1. \A k \in messages : Has(k, n)'
      BY <1>8
    <2>2. \A i \in DOMAIN down' : ~(i > n)
      BY <1>6, <1>7
    <2>3. QED
      BY <1>a, <1>6, <1>9, <2>1, <2>2 DEF ArrivingAt
  <1>15. QED
    BY <1>10, <1>11, <1>12, <1>13, <1>14 DEF DatabaseInv, PhaseInv

\* Another client's message is pushed to a connection that has its snapshot.
LEMMA OthersPutStep ==
  ASSUME DatabaseInv, NEW k \in Keys, OthersPut(k)
  PROVE  DatabaseInv'
  <1> DEFINE L == Len(down)
  <1>a. /\ DatabaseTypeOK /\ ConnInv /\ PutsInv /\ WireInv /\ ServerInv /\ PhaseInv /\ ViewInv
        /\ UNCHANGED <<up, subscribed, loading, conn, puts, unacked, putsToAck, status, observers,
                       serverCache, complete, eventCache, events>>
        /\ k \notin messages /\ status[k] = "unsent" /\ messages' = messages \cup {k}
        /\ Sends(Pushed(k))
    BY DEF DatabaseInv, OthersPut, viewVars
  <1>1. /\ k \notin PutKeys /\ k \notin AckKeys
        /\ \A i \in DOMAIN down : down[i].type = "put" => down[i].key # k
    BY <1>a DEF PutsInv, WireInv
  <1>2. down \in Seq(Response) /\ L \in Nat /\ \A i \in DOMAIN down : i \in Nat /\ i <= L
    BY <1>a, LenProperties DEF DatabaseTypeOK
  <1>3. Child(k) \in Response /\ Child(k).type = "child" /\ Child(k).key = k
    BY ResponseKinds
  <1>4. /\ Longer
        /\ \A i \in DOMAIN down' : i \notin DOMAIN down => down'[i] = Child(k) /\ subscribed
        /\ subscribed => L + 1 \in DOMAIN down' /\ down'[L + 1] = Child(k) /\ Len(down') = L + 1
    <2>1. CASE ~subscribed
      <3>1. down' = down
        <4>1. CASE conn = "down"
          BY <1>a, <4>1 DEF ConnInv, Sends
        <4>2. CASE conn # "down"
          <5>1. down' = down \o <<>>
            BY <1>a, <2>1, <4>2 DEF Sends, Pushed
          <5>2. QED
            BY <1>2, <5>1, ConcatEmptySeq
        <4>3. QED
          BY <4>1, <4>2
      <3>2. QED
        BY <1>2, <2>1, <3>1 DEF Longer
    <2>2. CASE subscribed
      <3> DEFINE s == <<Child(k)>>
      <3>1. s \in Seq(Response) /\ Len(s) = 1 /\ DOMAIN s = 1 .. 1 /\ s[1] = Child(k)
        BY <1>3
      <3> HIDE DEF s
      <3>2. down' = down \o s
        BY <1>a, <2>2 DEF Sends, Pushed, ConnInv, s
      <3>3. Longer /\ Len(down') = L + 1
            /\ (\A j \in 1 .. 1 : L + j \in DOMAIN down' /\ down'[L + j] = s[j])
            /\ \A i \in DOMAIN down' : i \notin DOMAIN down => i - L \in 1 .. 1 /\ down'[i] = s[i - L]
        BY <1>2, <3>1, <3>2, SendsLonger
      <3>a. L + 1 \in DOMAIN down' /\ down'[L + 1] = s[1]
        BY <3>3
      <3>4. \A i \in DOMAIN down' : i \in Nat
        BY <3>3, LenProperties DEF Longer
      <3>5. \A i \in DOMAIN down' : i \notin DOMAIN down => i = L + 1
        BY <1>2, <3>3, <3>4
      <3>6. QED
        BY <2>2, <3>1, <3>3, <3>a, <3>5
    <2>3. QED
      BY <2>1, <2>2
  <1>5. /\ \A i \in DOMAIN down : i \in DOMAIN down' /\ down'[i] = down[i]
        /\ down' \in Seq(Response)
        /\ L <= Len(down')
        /\ \A i \in DOMAIN down' : i \notin DOMAIN down =>
             down'[i].type = "child" /\ down'[i].key = k /\ subscribed
    BY <1>3, <1>4 DEF Longer
  <1> HIDE DEF L
  <1>6. \A l, n : Has(l, n) => Has(l, n)'
    BY <1>a, <1>4, HasStays
  <1>7. subscribed => \A l \in messages' : Has(l, Len(down))'
    <2> SUFFICES ASSUME subscribed, NEW l \in messages' PROVE Has(l, Len(down))'
      OBVIOUS
    <2>1. CASE l \in messages
      <3>1. \A n : n = L => Has(l, n)'
        BY <1>a, <1>6, <2>1 DEF ServerInv, L
      <3>2. \A i \in DOMAIN down' : i \in Nat
        BY <1>5, LenProperties
      <3>3. Len(down') \in Nat
        BY <1>5, LenProperties
      <3>4. QED
        BY <1>2, <1>5, <3>1, <3>2, <3>3 DEF Has
    <2>2. CASE l \notin messages
      <3>1. l = k /\ L + 1 \in DOMAIN down' /\ down'[L + 1] = Child(k) /\ L + 1 <= Len(down')
        BY <1>a, <1>2, <1>4, <2>2
      <3>2. QED
        BY <1>3, <3>1 DEF Has, Carries
    <2>3. QED
      BY <2>1, <2>2
  <1>8. DatabaseTypeOK'
    BY <1>a, <1>5 DEF DatabaseTypeOK
  <1>9. ConnInv'
    <2>1. conn # "up" => down' = down
      <3>1. CASE conn = "down"
        BY <1>a, <3>1 DEF ConnInv, Sends
      <3>2. CASE conn = "authenticating"
        <4>1. down' = down \o <<>>
          BY <1>a, <3>2 DEF Sends, Pushed, ConnInv
        <4>2. QED
          BY <1>2, <4>1, ConcatEmptySeq
      <3>3. QED
        BY <1>a, <3>1, <3>2 DEF DatabaseTypeOK
    <2>2. QED
      BY <1>a, <2>1 DEF ConnInv, Listening
  <1>10. PutsInv' /\ ViewInv' /\ PutKeys' = PutKeys /\ AckKeys' = AckKeys
    BY <1>a DEF PutsInv, ViewInv, PutKeys, AckKeys, Pending
  <1>11. WireInv'
    BY <1>a, <1>5, <1>10 DEF WireInv
  <1>12. ServerInv'
    <2>1. \A i \in DOMAIN down' :
            /\ down'[i].type = "snapshot" => serverCache' \subseteq down'[i].data /\ down'[i].data \subseteq messages'
            /\ down'[i].type = "child" => down'[i].key \in messages'
            /\ down'[i].type = "put" /\ down'[i].ok => down'[i].key \in messages'
      BY <1>a, <1>5 DEF ServerInv
    <2>2. QED
      BY <1>a, <1>7, <2>1 DEF ServerInv
  <1>13. PhaseInv'
    <2>1. \A l \in messages' \ messages : l \notin AckKeys /\ ~\E i \in DOMAIN down : AnsweredAt(i, l)
      BY <1>a, <1>1 DEF AnsweredAt
    <2>2. ~subscribed => down' = down
      <3>1. CASE conn = "down"
        BY <1>a, <3>1 DEF ConnInv, Sends
      <3>2. ASSUME conn # "down", ~subscribed PROVE down' = down
        <4>1. down' = down \o <<>>
          BY <1>a, <3>2 DEF Sends, Pushed
        <4>2. QED
          BY <1>2, <4>1, ConcatEmptySeq
      <3>3. QED
        BY <3>1, <3>2
    <2>3. CASE Asking
      BY <1>a, <2>2, <2>3 DEF PhaseInv, Asking
    <2>4. CASE Answering
      BY <1>a, <2>2, <2>4 DEF PhaseInv, Answering, OnlyPuts
    <2>5. CASE Arriving
      <3>1. PICK p \in DOMAIN down : ArrivingAt(p)
        BY <2>5 DEF Arriving
      <3>2. \A i \in DOMAIN down' : i \notin DOMAIN down =>
              /\ down'[i].type \in {"put", "child"}
              /\ \A l \in messages' : AnsweredAt(i, l)' => Has(l, i)'
        BY <1>5 DEF AnsweredAt
      <3>3. ArrivingAt(p)'
        BY <1>a, <1>2, <1>4, <2>1, <3>1, <3>2, ArrivingStays
      <3>4. Arriving'
        BY <1>a, <1>5, <2>5, <3>3 DEF Arriving, OnlyPuts
      <3>5. QED
        BY <3>4 DEF PhaseInv
    <2>6. CASE Settled
      <3>1. \A i \in DOMAIN down' : down'[i].type \in {"put", "child"}
        BY <1>5, <2>6 DEF Settled
      <3>2. ASSUME NEW l \in messages', NEW i \in DOMAIN down', AnsweredAt(i, l)' PROVE Has(l, i)'
        <4>1. i \in DOMAIN down /\ AnsweredAt(i, l)
          BY <1>5, <3>2 DEF AnsweredAt
        <4>2. l \in messages
          BY <2>1, <4>1
        <4>3. QED
          BY <1>6, <2>6, <4>1, <4>2 DEF Settled
      <3>3. Settled'
        BY <1>a, <2>6, <3>1, <3>2 DEF Settled, OnlyPuts
      <3>4. QED
        BY <3>3 DEF PhaseInv
    <2>7. QED
      BY <1>a, <2>3, <2>4, <2>5, <2>6 DEF PhaseInv
  <1>14. QED
    BY <1>8, <1>9, <1>10, <1>11, <1>12, <1>13 DEF DatabaseInv

-----------------------------------------------------------------------------
(* The client's steps.                                                     *)

\* The client reads the first message: the others move up.
ReadOne == /\ down \in Seq(Response)
           /\ 1 \in DOMAIN down
           /\ down' \in Seq(Response)
           /\ Len(down) \in Nat
           /\ Len(down') = Len(down) - 1
           /\ \A i \in DOMAIN down' : /\ i \in Nat /\ i > 0
                                      /\ i + 1 \in DOMAIN down /\ down'[i] = down[i + 1]
           /\ \A i \in DOMAIN down : i \in Nat /\ i > 0 /\ (i # 1 => i - 1 \in DOMAIN down')
           /\ UNCHANGED <<messages, subscribed, loading, observers>>

\* What is read on an authenticated connection.
LEMMA ReadUp ==
  ASSUME DatabaseInv, NEW m \in Response, Reads(m), m # AUTH_OK, UNCHANGED <<serverVars, observers>>
  PROVE  ReadOne /\ conn = "up" /\ down[1] = m
  <1>1. /\ conn # "down" /\ down # <<>> /\ Head(down) = m /\ down' = Tail(down)
        /\ down \in Seq(Response)
        /\ UNCHANGED <<messages, subscribed, loading, observers>>
    BY DEF Reads, DatabaseInv, DatabaseTypeOK, serverVars
  <1>2. ReadOne /\ down[1] = m
    <2>1. Len(down) \in Nat /\ \A i \in DOMAIN down : i \in Nat /\ i > 0
      BY <1>1, LenProperties
    <2>2. QED
      BY <1>1, <2>1, TailAt DEF ReadOne
  <1>3. conn # "authenticating"
    BY <1>1 DEF DatabaseInv, ConnInv
  <1>4. QED
    BY <1>1, <1>2, <1>3 DEF DatabaseInv, DatabaseTypeOK

\* What the client had at a message it still has then, one position earlier.
LEMMA HasReads ==
  ASSUME ReadOne, serverCache \subseteq serverCache', NEW k, Carries(1, k) => k \in serverCache',
         NEW n \in Nat, Has(k, n + 1)
  PROVE  Has(k, n)'
  <1>1. CASE k \in serverCache
    BY <1>1 DEF Has
  <1>2. ASSUME NEW i \in DOMAIN down, i <= n + 1, Carries(i, k) PROVE Has(k, n)'
    <2>1. CASE i = 1
      BY <1>2, <2>1 DEF Has
    <2>2. CASE i # 1
      <3>1. i - 1 \in DOMAIN down' /\ i - 1 <= n /\ (i - 1) + 1 = i
        BY <1>2, <2>2 DEF ReadOne
      <3>2. down'[i - 1] = down[i]
        BY <3>1 DEF ReadOne
      <3>3. QED
        BY <1>2, <3>1, <3>2 DEF Has, Carries
    <2>3. QED
      BY <2>1, <2>2
  <1>3. QED
    BY <1>1, <1>2 DEF Has

\* Before the listen's answer is read.
LEMMA ArrivingReads ==
  ASSUME ReadOne, NEW p \in DOMAIN down, p # 1, ArrivingAt(p), serverCache \subseteq serverCache',
         \A k : Carries(1, k) => k \in serverCache',
         \A k \in AckKeys' : k \in AckKeys \/ AnsweredAt(1, k)
  PROVE  p - 1 \in DOMAIN down' /\ \A q : q = p - 1 => ArrivingAt(q)'
  <1>1. p - 1 \in DOMAIN down' /\ p \in Nat /\ p > 1 /\ (p - 1) + 1 = p /\ p - 1 \in Nat
    BY DEF ReadOne
  <1> SUFFICES ASSUME NEW q, q = p - 1 PROVE ArrivingAt(q)'
    BY <1>1
  <1>2. /\ q \in Nat /\ q + 1 = p /\ q \in DOMAIN down'
        /\ \A i \in DOMAIN down' : i \in Nat /\ i + 1 \in DOMAIN down /\ down'[i] = down[i + 1]
        /\ UNCHANGED messages
    BY <1>1 DEF ReadOne
  <1>3. down'[q] = LISTEN_OK
    BY <1>2 DEF ArrivingAt
  <1>4. ASSUME NEW i \in DOMAIN down'
        PROVE  /\ i < q => down'[i].type = "put" \/ (i = q - 1 /\ down'[i].type = "snapshot")
               /\ i > q => down'[i].type \in {"put", "child"}
    <2>1. /\ i + 1 < p => down[i + 1].type = "put" \/ (i + 1 = p - 1 /\ down[i + 1].type = "snapshot")
          /\ i + 1 > p => down[i + 1].type \in {"put", "child"}
      BY <1>2 DEF ArrivingAt
    <2>2. QED
      BY <1>2, <2>1
  <1>5. ASSUME NEW k \in messages',
               k \in AckKeys' \/ (\E i \in DOMAIN down' : i < q /\ AnsweredAt(i, k)')
        PROVE  Has(k, q)'
    <2>1. k \in AckKeys \/ (\E i \in DOMAIN down : i < p /\ AnsweredAt(i, k))
      <3>1. CASE k \in AckKeys'
        <4>1. 1 \in DOMAIN down /\ 1 < p
          BY <1>1 DEF ReadOne
        <4>2. QED
          BY <3>1, <4>1
      <3>2. ASSUME NEW i \in DOMAIN down', i < q, AnsweredAt(i, k)'
            PROVE  \E j \in DOMAIN down : j < p /\ AnsweredAt(j, k)
        <4>1. i + 1 \in DOMAIN down /\ i + 1 < p /\ AnsweredAt(i + 1, k)
          BY <1>2, <3>2 DEF AnsweredAt
        <4>2. QED
          BY <4>1
      <3>3. QED
        BY <1>5, <3>1, <3>2
    <2>2. Has(k, p)
      BY <1>2, <2>1 DEF ArrivingAt
    <2>3. Has(k, q + 1)
      BY <1>2, <2>2
    <2>4. QED
      BY <1>2, <2>3, HasReads
  <1>6. ASSUME NEW k \in messages', NEW i \in DOMAIN down', i > q, AnsweredAt(i, k)'
        PROVE  Has(k, i)'
    <2>1. i + 1 \in DOMAIN down /\ i + 1 > p /\ AnsweredAt(i + 1, k) /\ k \in messages /\ i \in Nat
      BY <1>2, <1>6 DEF AnsweredAt
    <2>2. Has(k, i + 1)
      BY <2>1 DEF ArrivingAt
    <2>3. QED
      BY <2>1, <2>2, HasReads
  <1>7. QED
    BY <1>3, <1>4, <1>5, <1>6 DEF ArrivingAt

\* An answer that is read leaves the wire.
LEMMA WireReads ==
  ASSUME ReadOne, conn = "up", WireInv, UNCHANGED <<up, conn>>,
         \A k \in PutKeys : k \in PutKeys' \/ AnsweredAt(1, k),
         \A k \in PutKeys' : status'[k] = "pending"
  PROVE  WireInv'
  <1>1. \A i \in DOMAIN up : up[i].type = "put" =>
          up[i].key \in PutKeys' /\ status'[up[i].key] = "pending"
    BY DEF WireInv, AnsweredAt, ReadOne
  <1>2. ASSUME NEW i \in DOMAIN down', down'[i].type = "put"
        PROVE  down'[i].key \in PutKeys'
    <2>1. i + 1 \in DOMAIN down /\ i + 1 # 1 /\ down'[i] = down[i + 1] /\ 1 \in DOMAIN down
      BY DEF ReadOne
    <2>2. ~AnsweredAt(1, down[i + 1].key)
      BY <1>2, <2>1 DEF WireInv, AnsweredAt
    <2>3. QED
      BY <1>2, <2>1, <2>2 DEF WireInv
  <1>3. ASSUME NEW i \in DOMAIN down', NEW j \in DOMAIN down', down'[i].type = "put",
               down'[j].type = "put", down'[i].key = down'[j].key
        PROVE  i = j
    <2>1. /\ i + 1 \in DOMAIN down /\ down'[i] = down[i + 1] /\ i \in Nat
          /\ j + 1 \in DOMAIN down /\ down'[j] = down[j + 1] /\ j \in Nat
      BY DEF ReadOne
    <2>2. i + 1 = j + 1
      BY <1>3, <2>1 DEF WireInv
    <2>3. QED
      BY <2>1, <2>2
  <1>4. \A i \in DOMAIN up, j \in DOMAIN down' :
          up[i].type = "put" /\ down'[j].type = "put" => up[i].key # down'[j].key
    BY DEF WireInv, ReadOne
  <1>5. \A i, j \in DOMAIN up :
          up[i].type = "put" /\ up[j].type = "put" /\ up[i].key = up[j].key => i = j
    BY DEF WireInv
  <1>6. QED
    BY <1>1, <1>2, <1>3, <1>4, <1>5 DEF WireInv

\* What is read stays on the server, and what follows it still holds.
LEMMA ServerAfterRead ==
  ASSUME ReadOne, ServerInv, serverCache \subseteq serverCache', serverCache' \subseteq messages,
         \A k : Carries(1, k) => k \in serverCache',
         \A i \in DOMAIN down : i # 1 /\ down[i].type = "snapshot" => serverCache' = serverCache,
         \A i \in DOMAIN putsToAck' : putsToAck'[i].ok => putsToAck'[i].key \in messages
  PROVE  ServerInv'
  <1>1. /\ \A i \in DOMAIN down' : i \in Nat /\ i + 1 \in DOMAIN down /\ i + 1 # 1 /\ down'[i] = down[i + 1]
        /\ UNCHANGED <<messages, subscribed>>
    BY DEF ReadOne
  <1>2. \A i \in DOMAIN down' :
          /\ down'[i].type = "snapshot" => serverCache' \subseteq down'[i].data /\ down'[i].data \subseteq messages'
          /\ down'[i].type = "child" => down'[i].key \in messages'
          /\ down'[i].type = "put" /\ down'[i].ok => down'[i].key \in messages'
    <2> SUFFICES ASSUME NEW i \in DOMAIN down'
                 PROVE  /\ down'[i].type = "snapshot" => serverCache' \subseteq down'[i].data /\ down'[i].data \subseteq messages'
                        /\ down'[i].type = "child" => down'[i].key \in messages'
                        /\ down'[i].type = "put" /\ down'[i].ok => down'[i].key \in messages'
      OBVIOUS
    <2> DEFINE j == i + 1
    <2>1. j \in DOMAIN down /\ j # 1 /\ down'[i] = down[j]
      BY <1>1
    <2> HIDE DEF j
    <2>2. QED
      BY <1>1, <2>1 DEF ServerInv
  <1>3. subscribed' => \A k \in messages' : Has(k, Len(down))'
    <2> SUFFICES ASSUME subscribed', NEW k \in messages' PROVE Has(k, Len(down))'
      OBVIOUS
    <2>1. Has(k, Len(down))
      BY <1>1 DEF ServerInv
    <2>2. Len(down') \in Nat /\ Len(down') + 1 = Len(down)
      BY LenProperties DEF ReadOne
    <2>3. \A n : n = Len(down') => Has(k, n)'
      BY <2>1, <2>2, HasReads
    <2>4. QED
      BY <2>3 DEF Has
  <1>4. QED
    BY <1>1, <1>2, <1>3 DEF ServerInv

\* What a step of the client tells the app: the keys the view gains, then the
\* completions.  It gains what is in the room or the device's own, and what it
\* loses is refused.
Tells(new, done, saved, refused) ==
  /\ eventCache \subseteq new
  /\ \A k \in new \ eventCache : k \in messages \/ status[k] \in {"unsent", "pending"}
  /\ events' = events \o Gained(new) \o done
  /\ \A i \in DOMAIN done : done[i].type = "answered"
  /\ eventCache' \subseteq new
  /\ \A k \in new \ eventCache' : k \in refused /\ k \notin messages
  /\ saved \subseteq messages
  /\ saved \cap refused = {}
  /\ \A k \in saved : \E i \in DOMAIN done : done[i] = Answered(k, TRUE)
  /\ status' = [k \in Keys |-> IF k \in saved THEN "saved"
                               ELSE IF k \in refused THEN "refused"
                               ELSE status[k]]
  /\ UNCHANGED <<messages, observers>>

ClientTells == \E new \in SUBSET Keys, done \in Seq(Event), saved, refused \in SUBSET Pending :
  Tells(new, done, saved, refused)

LEMMA NothingGained ==
  ASSUME DatabaseTypeOK
  PROVE  Gained(eventCache) = <<>>
  <1>1. observers \in Seq(Chats) /\ eventCache \ eventCache = {}
    BY DEF DatabaseTypeOK
  <1>2. Raised({}) \in Seq(Event) /\ DOMAIN Raised({}) = {}
    BY <1>1, RaisedEvents
  <1> DEFINE r == Raised({})
  <1> HIDE DEF r
  <1>3. Len(r) = 0
    BY <1>2, LenProperties DEF r
  <1>4. r = <<>>
    BY <1>2, <1>3, EmptySeq DEF r
  <1>5. QED
    BY <1>1, <1>4 DEF Gained, r

LEMMA GainTells ==
  ASSUME DatabaseTypeOK, NEW new \in SUBSET Keys, eventCache \subseteq new,
         \A k \in new \ eventCache : k \in messages \/ status[k] \in {"unsent", "pending"},
         events' = events \o Gained(new), eventCache' = new,
         UNCHANGED <<messages, observers, status>>
  PROVE  ClientTells /\ events' \in Seq(Event)
  <1>1. events' \in Seq(Event)
    BY GainedEvents
  <1>2. events' \o <<>> = events' /\ <<>> \in Seq(Event) /\ DOMAIN <<>> = {}
    BY <1>1, ConcatEmptySeq, EmptySeq
  <1>3. events' = events \o Gained(new) \o <<>>
    BY <1>2
  <1>4. status' = [k \in Keys |-> IF k \in {} THEN "saved" ELSE IF k \in {} THEN "refused" ELSE status[k]]
    BY DEF DatabaseTypeOK
  <1>5. Tells(new, <<>>, {}, {})
    BY <1>2, <1>3, <1>4 DEF Tells
  <1>6. {} \in SUBSET Pending
    OBVIOUS
  <1>7. QED
    BY <1>1, <1>2, <1>5, <1>6 DEF ClientTells

LEMMA QuietTells ==
  ASSUME DatabaseTypeOK, UNCHANGED <<messages, observers, status, eventCache, events>>
  PROVE  ClientTells
  <1>1. events \o <<>> = events /\ eventCache \in SUBSET Keys
    BY ConcatEmptySeq DEF DatabaseTypeOK
  <1>2. events' = events \o Gained(eventCache)
    BY <1>1, NothingGained
  <1>3. QED
    BY <1>1, <1>2, GainTells

\* Answers are acted on when the client has what they are about.
LEMMA AckTells ==
  ASSUME DatabaseTypeOK, ViewInv, NEW acks \in Seq(PutAnswers),
         \A i, j \in DOMAIN acks : acks[i].key = acks[j].key => i = j,
         \A i \in DOMAIN acks : /\ status[acks[i].key] = "pending"
                                /\ acks[i].ok => acks[i].key \in messages
                                /\ acks[i].key \in messages => acks[i].key \in serverCache,
         Acked(acks, eventCache, TRUE),
         events' = events \o Gained(eventCache) \o Completions(acks),
         UNCHANGED <<messages, observers, serverCache>>
  PROVE  /\ ClientTells /\ events' \in Seq(Event) /\ ViewInv' /\ eventCache' \in SUBSET Keys
         /\ status' \in [Keys -> {"unsent", "pending", "saved", "refused", "lost"}]
         /\ \A k \in Keys : IF \E i \in DOMAIN acks : acks[i].key = k
                            THEN status'[k] \in {"saved", "refused"}
                            ELSE status'[k] = status[k]
  <1> DEFINE A == {acks[i] : i \in DOMAIN acks}
             K == {acks[i].key : i \in DOMAIN acks}
             saved == {k \in Keys : PutAnswer(k, TRUE) \in A}
             refused == {k \in Keys : PutAnswer(k, FALSE) \in A}
             done == Completions(acks)
  <1>1. \A i \in DOMAIN acks : /\ acks[i] \in PutAnswers /\ acks[i].key \in Keys /\ acks[i].ok \in BOOLEAN
                               /\ acks[i] = PutAnswer(acks[i].key, acks[i].ok)
    <2>1. \A i \in DOMAIN acks : acks[i] \in PutAnswers
      BY LenProperties, ElementOfSeq
    <2>2. QED
      BY <2>1, ResponseKinds
  <1>2. status' = [k \in Keys |-> IF k \in saved THEN "saved" ELSE IF k \in refused THEN "refused" ELSE status[k]]
    BY DEF Acked
  <1>a. ASSUME NEW k \in Keys, NEW ok \in BOOLEAN, PutAnswer(k, ok) \in A
        PROVE  \E i \in DOMAIN acks : acks[i].key = k /\ acks[i].ok = ok
    <2>1. PICK i \in DOMAIN acks : acks[i] = PutAnswer(k, ok)
      BY <1>a
    <2>2. PutAnswer(k, ok).key = k /\ PutAnswer(k, ok).ok = ok
      BY ResponseKinds
    <2>3. QED
      BY <2>1, <2>2
  <1>b. /\ \A k : k \in saved <=> k \in Keys /\ PutAnswer(k, TRUE) \in A
        /\ \A k : k \in refused <=> k \in Keys /\ PutAnswer(k, FALSE) \in A
        /\ \A k : k \in K <=> \E i \in DOMAIN acks : acks[i].key = k
        /\ \A i \in DOMAIN acks : acks[i] \in A
    OBVIOUS
  <1> HIDE DEF saved, refused, K, A
  <1>c. /\ \A k \in saved : k \in Keys /\ \E i \in DOMAIN acks : acks[i].key = k /\ acks[i].ok = TRUE
        /\ \A k \in refused : k \in Keys /\ \E i \in DOMAIN acks : acks[i].key = k /\ acks[i].ok = FALSE
    BY <1>a, <1>b
  <1>3. saved \subseteq K /\ refused \subseteq K /\ saved \cap refused = {} /\ \A k \in K : k \in saved \/ k \in refused
    <2>1. \A k \in K : k \in saved \/ k \in refused
      <3> SUFFICES ASSUME NEW i \in DOMAIN acks PROVE acks[i].key \in saved \/ acks[i].key \in refused
        BY <1>b
      <3>1. acks[i] \in A /\ acks[i].key \in Keys /\ acks[i].ok \in BOOLEAN /\ acks[i] = PutAnswer(acks[i].key, acks[i].ok)
        BY <1>1, <1>b
      <3>2. CASE acks[i].ok = TRUE
        <4>1. PutAnswer(acks[i].key, TRUE) \in A
          BY <3>1, <3>2, Zenon
        <4>2. QED
          BY <1>b, <3>1, <4>1
      <3>3. CASE acks[i].ok = FALSE
        <4>1. PutAnswer(acks[i].key, FALSE) \in A
          BY <3>1, <3>3, Zenon
        <4>2. QED
          BY <1>b, <3>1, <4>1
      <3>4. QED
        BY <3>1, <3>2, <3>3
    <2>2. saved \cap refused = {}
      BY <1>c
    <2>3. QED
      BY <1>b, <1>c, <2>1, <2>2
  <1>4. saved \in SUBSET Pending /\ refused \in SUBSET Pending
    <2>1. \A k \in K : k \in Keys /\ status[k] = "pending"
      BY <1>1, <1>b
    <2>2. QED
      BY <1>3, <2>1 DEF Pending
  <1>5. saved \subseteq messages /\ \A k \in K : k \in messages => k \in serverCache
    BY <1>b, <1>c
  <1>6. eventCache' = eventCache \ {k \in K : k \notin serverCache}
    <2>1. eventCache' = eventCache \ {a.key : a \in {a \in A : Falls(a, serverCache, TRUE)}}
      BY DEF Acked, Viewed, A
    <2>2. {a.key : a \in {a \in A : Falls(a, serverCache, TRUE)}} = {k \in K : k \notin serverCache}
      BY DEF Falls, A, K
    <2>3. QED
      BY <2>1, <2>2
  <1>7. done \in Seq(Event) /\ DOMAIN done = DOMAIN acks
        /\ \A i \in DOMAIN acks : done[i] = Answered(acks[i].key, acks[i].ok) /\ done[i].type = "answered"
    <2>1. Len(acks) \in Nat /\ DOMAIN acks = 1 .. Len(acks)
      BY LenProperties
    <2>2. \A i \in 1 .. Len(acks) : Answered(acks[i].key, acks[i].ok) \in Event /\ Answered(acks[i].key, acks[i].ok).type = "answered"
      BY <1>1, <2>1, EventKinds
    <2>3. done = [i \in 1 .. Len(acks) |-> Answered(acks[i].key, acks[i].ok)]
      BY DEF Completions
    <2>4. done \in Seq(Event)
      BY <2>1, <2>2, <2>3, IsASeq
    <2>5. QED
      BY <2>1, <2>2, <2>3, <2>4
  <1> HIDE DEF done
  <1>8. ASSUME NEW k \in saved PROVE \E i \in DOMAIN done : done[i] = Answered(k, TRUE)
    <2>1. PICK i \in DOMAIN acks : acks[i].key = k /\ acks[i].ok = TRUE
      BY <1>c
    <2>2. i \in DOMAIN done /\ done[i] = Answered(acks[i].key, acks[i].ok)
      BY <1>7
    <2>3. done[i] = Answered(k, TRUE)
      BY <2>1, <2>2, Zenon
    <2>4. QED
      BY <2>2, <2>3
  <1>9. eventCache \in SUBSET Keys /\ eventCache' \in SUBSET Keys /\ eventCache' \subseteq eventCache
    BY <1>6 DEF DatabaseTypeOK
  <1>10. \A k \in eventCache \ eventCache' : k \in refused /\ k \notin messages
    BY <1>3, <1>5, <1>6
  <1>11. Tells(eventCache, done, saved, refused)
    BY <1>2, <1>3, <1>5, <1>7, <1>8, <1>9, <1>10 DEF Tells, done
  <1>12. ClientTells
    BY <1>4, <1>7, <1>9, <1>11 DEF ClientTells
  <1>13. events' \in Seq(Event)
    <2>1. events \o Gained(eventCache) \in Seq(Event)
      BY <1>9, GainedEvents
    <2>2. QED
      BY <1>7, <2>1, ConcatProperties DEF done
  <1>14. /\ status' \in [Keys -> {"unsent", "pending", "saved", "refused", "lost"}]
         /\ \A k \in Keys : IF k \in K THEN status'[k] \in {"saved", "refused"} ELSE status'[k] = status[k]
    BY <1>2, <1>3 DEF DatabaseTypeOK
  <1>15. ViewInv'
    <2>1. Pending' = Pending \ K
      BY <1>14 DEF Pending
    <2>2. QED
      BY <1>6, <2>1 DEF ViewInv
  <1>16. QED
    <2>1. ASSUME NEW k \in Keys
          PROVE  IF \E i \in DOMAIN acks : acks[i].key = k
                 THEN status'[k] \in {"saved", "refused"}
                 ELSE status'[k] = status[k]
      BY <1>b, <1>14
    <2>2. QED
      BY <1>9, <1>12, <1>13, <1>14, <1>15, <2>1

\* On an authenticated connection, what is first on the way down tells the phase.
LEMMA HeadPhase ==
  ASSUME DatabaseInv, conn = "up", 1 \in DOMAIN down
  PROVE  /\ down[1].type = "snapshot" => Arriving /\ ~Settled /\ \A p \in DOMAIN down : ArrivingAt(p) => p = 2
         /\ down[1].type = "child" => Settled
         /\ down[1].type = "listenOk" => Arriving /\ \A p \in DOMAIN down : ArrivingAt(p) => p = 1
         /\ ~Asking
  <1>1. PhaseInv /\ down \in Seq(Response)
    BY DEF DatabaseInv, DatabaseTypeOK
  <1>2. \A i \in DOMAIN down : i \in Nat /\ i > 0
    BY <1>1, LenProperties
  <1>3. ~Asking
    BY DEF Asking
  <1>4. Answering \/ Settled => down[1].type \in {"put", "child"}
    BY DEF Answering, Settled
  <1>5. Answering => down[1].type = "put"
    BY DEF Answering
  <1>6. \A p \in DOMAIN down : ArrivingAt(p) =>
          /\ p = 1 => down[1].type = "listenOk"
          /\ p # 1 => down[1].type = "put" \/ (p = 2 /\ down[1].type = "snapshot")
    BY <1>2, ResponseKinds DEF ArrivingAt
  <1>7. Arriving => \E p \in DOMAIN down : ArrivingAt(p)
    BY DEF Arriving
  <1>8. QED
    BY <1>1, <1>3, <1>4, <1>5, <1>6, <1>7 DEF PhaseInv

LEMMA SnapshotStep ==
  ASSUME DatabaseInv, SnapshotReceived
  PROVE  DatabaseInv' /\ ClientTells
  <1>1. PICK S \in SUBSET Keys :
          /\ Reads(Snapshot(S)) /\ serverCache' = S /\ complete' = TRUE
          /\ eventCache' = S \cup Pending
          /\ events' = events \o Gained(S \cup Pending)
          /\ UNCHANGED <<serverVars, up, conn, puts, unacked, putsToAck, status, observers>>
    BY DEF SnapshotReceived, Viewed
  <1>a. /\ DatabaseTypeOK /\ ConnInv /\ PutsInv /\ WireInv /\ ServerInv /\ PhaseInv /\ ViewInv
        /\ UNCHANGED <<messages, subscribed, loading, up, conn, puts, unacked, putsToAck, status, observers>>
    BY <1>1 DEF DatabaseInv, serverVars
  <1>2. Snapshot(S) \in Response /\ Snapshot(S).type = "snapshot" /\ Snapshot(S).data = S /\ Snapshot(S) # AUTH_OK
    BY ResponseKinds
  <1>3. ReadOne /\ conn = "up" /\ down[1] = Snapshot(S)
    BY <1>1, <1>2, ReadUp
  <1>4. 1 \in DOMAIN down /\ down' \in Seq(Response)
    BY <1>3 DEF ReadOne
  <1>5. serverCache \subseteq S /\ S \subseteq messages
    BY <1>2, <1>3, <1>4, <1>a DEF ServerInv
  <1>6. Arriving /\ \A p \in DOMAIN down : ArrivingAt(p) => p = 2
    BY <1>2, <1>3, <1>4, HeadPhase
  <1>7. PICK p \in DOMAIN down : ArrivingAt(p) /\ p = 2
    BY <1>6 DEF Arriving
  <1>8. \A k : Carries(1, k) => k \in serverCache'
    BY <1>1, <1>2, <1>3 DEF Carries
  <1>9. S \cup Pending \in SUBSET Keys
    BY <1>1 DEF Pending
  <1>10. ClientTells /\ events' \in Seq(Event)
    <2>1. eventCache \subseteq S \cup Pending
      BY <1>5, <1>a DEF ViewInv
    <2>2. \A k \in S \cup Pending : k \in messages \/ status[k] \in {"unsent", "pending"}
      BY <1>5 DEF Pending
    <2>3. QED
      BY <1>1, <1>9, <1>a, <2>1, <2>2, GainTells
  <1>11. DatabaseTypeOK'
    BY <1>1, <1>4, <1>9, <1>10, <1>a DEF DatabaseTypeOK
  <1>12. ConnInv' /\ PutsInv' /\ ViewInv' /\ PutKeys' = PutKeys /\ AckKeys' = AckKeys
    BY <1>1, <1>3, <1>a DEF ConnInv, PutsInv, ViewInv, Listening, PutKeys, AckKeys, Pending
  <1>13. WireInv'
    <2>1. \A k \in PutKeys : status[k] = "pending"
      <3>1. \A k \in PutKeys : k \in Keys
        BY <1>a, LenProperties, ElementOfSeq DEF PutKeys, DatabaseTypeOK
      <3>2. QED
        BY <1>a, <3>1 DEF PutsInv
    <2>2. QED
      BY <1>3, <1>12, <1>a, <2>1, WireReads
  <1>14. ServerInv'
    <2>1. ASSUME NEW i \in DOMAIN down, i # 1, down[i].type = "snapshot" PROVE FALSE
      <3>1. i \in Nat /\ i > 1
        BY <1>3, <2>1 DEF ReadOne
      <3>2. i = 2 \/ i > 2
        BY <3>1
      <3>3. down[2].type = "listenOk"
        BY <1>7, ResponseKinds DEF ArrivingAt
      <3>4. QED
        BY <1>7, <2>1, <3>2, <3>3 DEF ArrivingAt
    <2>2. \A i \in DOMAIN putsToAck' : putsToAck'[i].ok => putsToAck'[i].key \in messages
      BY <1>a DEF ServerInv
    <2>3. QED
      BY <1>1, <1>3, <1>5, <1>8, <1>a, <2>1, <2>2, ServerAfterRead
  <1>15. Arriving'
    <2>1. p - 1 \in DOMAIN down' /\ \A q : q = p - 1 => ArrivingAt(q)'
      BY <1>1, <1>3, <1>5, <1>7, <1>8, <1>12, ArrivingReads
    <2>2. \E q \in DOMAIN down' : ArrivingAt(q)'
      BY <2>1
    <2>3. QED
      BY <1>6, <1>a, <2>2 DEF Arriving, OnlyPuts
  <1>16. QED
    BY <1>10, <1>11, <1>12, <1>13, <1>14, <1>15 DEF DatabaseInv, PhaseInv

LEMMA ChildStep ==
  ASSUME DatabaseInv, ChildReceived
  PROVE  DatabaseInv' /\ ClientTells
  <1>1. PICK k \in Keys :
          /\ Reads(Child(k)) /\ serverCache' = serverCache \cup {k}
          /\ IF k \in Pending
             THEN UNCHANGED <<eventCache, events>>
             ELSE /\ eventCache' = eventCache \cup {k}
                  /\ events' = events \o Gained(eventCache \cup {k})
          /\ UNCHANGED <<serverVars, up, conn, puts, unacked, putsToAck, status, observers, complete>>
    BY DEF ChildReceived, Viewed
  <1>a. /\ DatabaseTypeOK /\ ConnInv /\ PutsInv /\ WireInv /\ ServerInv /\ PhaseInv /\ ViewInv
        /\ UNCHANGED <<messages, subscribed, loading, up, conn, puts, unacked, putsToAck, status,
                       observers, complete>>
    BY <1>1 DEF DatabaseInv, serverVars
  <1>2. Child(k) \in Response /\ Child(k).type = "child" /\ Child(k).key = k /\ Child(k) # AUTH_OK
    BY ResponseKinds
  <1>3. ReadOne /\ conn = "up" /\ down[1] = Child(k)
    BY <1>1, <1>2, ReadUp
  <1>4. 1 \in DOMAIN down /\ down' \in Seq(Response)
    BY <1>3 DEF ReadOne
  <1>5. k \in messages /\ serverCache' \subseteq messages
    BY <1>1, <1>2, <1>3, <1>4, <1>a DEF ServerInv
  <1>6. Settled
    BY <1>2, <1>3, <1>4, HeadPhase
  <1>7. \A l : Carries(1, l) => l \in serverCache'
    BY <1>1, <1>2, <1>3 DEF Carries
  <1>8. ClientTells /\ events' \in Seq(Event) /\ eventCache' \in SUBSET Keys /\ eventCache' = serverCache' \cup Pending
    <2>1. CASE k \in Pending
      <3>1. UNCHANGED <<messages, observers, status, eventCache, events>>
        BY <1>1, <1>a, <2>1
      <3>2. QED
        BY <1>1, <1>a, <2>1, <3>1, QuietTells DEF ViewInv, DatabaseTypeOK
    <2>2. CASE k \notin Pending
      <3>1. /\ eventCache' = eventCache \cup {k} /\ events' = events \o Gained(eventCache \cup {k})
            /\ eventCache \cup {k} \in SUBSET Keys
        BY <1>1, <1>a, <2>2 DEF DatabaseTypeOK
      <3>2. \A l \in (eventCache \cup {k}) \ eventCache : l \in messages \/ status[l] \in {"unsent", "pending"}
        BY <1>5
      <3>3. ClientTells /\ events' \in Seq(Event)
        BY <1>a, <3>1, <3>2, GainTells
      <3>4. QED
        BY <1>1, <1>a, <3>1, <3>3 DEF ViewInv
    <2>3. QED
      BY <2>1, <2>2
  <1>9. DatabaseTypeOK'
    BY <1>1, <1>4, <1>8, <1>a DEF DatabaseTypeOK
  <1>10. ConnInv' /\ PutsInv' /\ ViewInv' /\ PutKeys' = PutKeys /\ AckKeys' = AckKeys
    BY <1>3, <1>8, <1>a DEF ConnInv, PutsInv, ViewInv, Listening, PutKeys, AckKeys, Pending
  <1>11. WireInv'
    <2>1. \A l \in PutKeys : status[l] = "pending"
      <3>1. \A l \in PutKeys : l \in Keys
        BY <1>a, LenProperties, ElementOfSeq DEF PutKeys, DatabaseTypeOK
      <3>2. QED
        BY <1>a, <3>1 DEF PutsInv
    <2>2. QED
      BY <1>3, <1>10, <1>a, <2>1, WireReads
  <1>12. ServerInv'
    <2>1. \A i \in DOMAIN down : down[i].type # "snapshot"
      BY <1>6 DEF Settled
    <2>2. \A i \in DOMAIN putsToAck' : putsToAck'[i].ok => putsToAck'[i].key \in messages
      BY <1>a DEF ServerInv
    <2>3. serverCache \subseteq serverCache'
      BY <1>1
    <2>4. QED
      BY <1>3, <1>5, <1>7, <1>a, <2>1, <2>2, <2>3, ServerAfterRead
  <1>13. Settled'
    <2>1. serverCache \subseteq serverCache'
      BY <1>1
    <2>2. \A i \in DOMAIN down' : i \in Nat /\ i + 1 \in DOMAIN down /\ down'[i] = down[i + 1]
      BY <1>3 DEF ReadOne
    <2>3. ASSUME NEW l \in messages', NEW i \in DOMAIN down', AnsweredAt(i, l)' PROVE Has(l, i)'
      <3>1. i \in Nat /\ i + 1 \in DOMAIN down /\ AnsweredAt(i + 1, l) /\ l \in messages
        BY <1>a, <2>2, <2>3 DEF AnsweredAt
      <3>2. Has(l, i + 1)
        BY <1>6, <3>1 DEF Settled
      <3>3. QED
        BY <1>3, <1>7, <2>1, <3>1, <3>2, HasReads
    <2>4. \A i \in DOMAIN down' : down'[i].type \in {"put", "child"}
      BY <1>6, <2>2 DEF Settled
    <2>5. QED
      BY <1>6, <1>a, <2>3, <2>4 DEF Settled, OnlyPuts
  <1>14. QED
    BY <1>8, <1>9, <1>10, <1>11, <1>12, <1>13 DEF DatabaseInv, PhaseInv

\* The put that is answered leaves outstandingPuts, and only that one.
LEMMA PutLeaves ==
  ASSUME DatabaseTypeOK, PutsInv, NEW k \in Keys, puts' = Among(puts, Keys \ {k})
  PROVE  /\ puts' \in Seq(Keys)
         /\ \A i, j \in DOMAIN puts' : puts'[i] = puts'[j] => i = j
         /\ PutKeys' = PutKeys \ {k}
  <1>1. puts \in Seq(Keys)
    BY DEF DatabaseTypeOK
  <1>2. Among(puts, Keys \ {k}) \in Seq(Keys \cap (Keys \ {k}))
    BY <1>1, AmongProperties
  <1>3. puts' \in Seq(Keys)
    BY <1>2, SeqMonotonic
  <1> DEFINE a == Among(puts, Keys \ {k})
  <1>4. /\ \A n \in DOMAIN a : \E i \in DOMAIN puts : a[n] = puts[i] /\ puts[i] \in Keys \ {k}
        /\ \A i \in DOMAIN puts : puts[i] \in Keys \ {k} => \E n \in DOMAIN a : a[n] = puts[i]
    BY <1>1, AmongProperties
  <1>5. \A m, n \in DOMAIN a : a[m] = a[n] => m = n
    <2>1. \A i, j \in DOMAIN puts : puts[i] = puts[j] => i = j
      BY DEF PutsInv
    <2>2. QED
      BY <1>1, <2>1, AmongProperties
  <1>6. puts' = a
    OBVIOUS
  <1> HIDE DEF a
  <1>7. \A i \in DOMAIN puts : puts[i] \in Keys
    BY <1>1, LenProperties, ElementOfSeq
  <1>8. PutKeys' = PutKeys \ {k}
    BY <1>4, <1>6, <1>7 DEF PutKeys
  <1>9. QED
    BY <1>3, <1>5, <1>6, <1>8

LEMMA PutAnsweredStep ==
  ASSUME DatabaseInv, PutAnswered
  PROVE  DatabaseInv' /\ ClientTells
  <1>1. PICK k \in Keys, ok \in BOOLEAN :
          /\ Reads(PutAnswer(k, ok))
          /\ puts' = Among(puts, Keys \ {k})
          /\ IF unacked = 0
             THEN /\ Acked(<<PutAnswer(k, ok)>>, eventCache, complete)
                  /\ events' = events \o Completions(<<PutAnswer(k, ok)>>)
                  /\ UNCHANGED putsToAck
             ELSE /\ putsToAck' = Append(putsToAck, PutAnswer(k, ok))
                  /\ UNCHANGED <<status, eventCache, events>>
          /\ UNCHANGED <<serverVars, up, conn, unacked, observers, serverCache, complete>>
    BY DEF PutAnswered
  <1> DEFINE m == PutAnswer(k, ok)
  <1>a. /\ DatabaseTypeOK /\ ConnInv /\ PutsInv /\ WireInv /\ ServerInv /\ PhaseInv /\ ViewInv
        /\ UNCHANGED <<messages, subscribed, loading, up, conn, unacked, observers, serverCache, complete>>
    BY <1>1 DEF DatabaseInv, serverVars
  <1>2. m \in Response /\ m \in PutAnswers /\ m.type = "put" /\ m.key = k /\ m.ok = ok /\ m # AUTH_OK
    BY ResponseKinds
  <1>3. ReadOne /\ conn = "up" /\ down[1] = m
    BY <1>1, <1>2, ReadUp
  <1> HIDE DEF m
  <1>4. 1 \in DOMAIN down /\ down' \in Seq(Response)
    BY <1>3 DEF ReadOne
  <1>5. /\ k \in PutKeys /\ k \notin AckKeys /\ status[k] = "pending"
        /\ ok => k \in messages
    BY <1>1, <1>2, <1>3, <1>4, <1>a DEF WireInv, PutsInv, ServerInv
  <1>6. /\ puts' \in Seq(Keys)
        /\ \A i, j \in DOMAIN puts' : puts'[i] = puts'[j] => i = j
        /\ PutKeys' = PutKeys \ {k}
    BY <1>1, <1>a, PutLeaves
  <1>7. \A l : ~Carries(1, l) /\ (AnsweredAt(1, l) <=> l = k)
    BY <1>2, <1>3 DEF Carries, AnsweredAt
  <1>8. \A l \in PutKeys : l \in Keys /\ status[l] = "pending"
    <2>1. \A l \in PutKeys : l \in Keys
      BY <1>a, LenProperties, ElementOfSeq DEF PutKeys, DatabaseTypeOK
    <2>2. QED
      BY <1>a, <2>1 DEF PutsInv
  <1>9. \A l \in AckKeys : l \in Keys
    <2>1. \A i \in DOMAIN putsToAck : putsToAck[i] \in PutAnswers
      BY <1>a, LenProperties, ElementOfSeq DEF DatabaseTypeOK
    <2>2. QED
      BY <2>1, ResponseKinds DEF AckKeys
  <1>10. CASE unacked = 0
    <2>1. Settled
      BY <1>3, <1>10, <1>a DEF PhaseInv, Asking, Answering, Arriving
    <2>2. putsToAck = <<>> /\ putsToAck' = <<>> /\ complete = TRUE /\ AckKeys = {} /\ AckKeys' = {}
      BY <1>1, <1>10, <1>a, <2>1 DEF Settled, AckKeys, DatabaseTypeOK
    <2>3. k \in messages => k \in serverCache
      <3>1. k \in messages => Has(k, 1)
        BY <1>4, <1>7, <2>1 DEF Settled
      <3>2. \A i \in DOMAIN down : i <= 1 => i = 1
        BY <1>3 DEF ReadOne
      <3>3. QED
        BY <1>7, <3>1, <3>2 DEF Has
    <2> DEFINE acks == <<m>>
    <2>4. /\ acks \in Seq(PutAnswers) /\ DOMAIN acks = 1 .. 1 /\ acks[1] = m
      BY <1>2
    <2>5. Acked(acks, eventCache, TRUE) /\ events' = events \o Completions(acks)
      BY <1>1, <1>10, <2>2 DEF m
    <2> HIDE DEF acks
    <2>6. events \o Gained(eventCache) = events
      BY <1>a, NothingGained, ConcatEmptySeq DEF DatabaseTypeOK
    <2>7. /\ ClientTells /\ events' \in Seq(Event) /\ ViewInv' /\ eventCache' \in SUBSET Keys
          /\ status' \in [Keys -> {"unsent", "pending", "saved", "refused", "lost"}]
          /\ \A l \in Keys : IF \E i \in DOMAIN acks : acks[i].key = l
                             THEN status'[l] \in {"saved", "refused"}
                             ELSE status'[l] = status[l]
      <3>1. \A i, j \in DOMAIN acks : acks[i].key = acks[j].key => i = j
        BY <2>4
      <3>2. \A i \in DOMAIN acks : /\ status[acks[i].key] = "pending"
                                   /\ acks[i].ok => acks[i].key \in messages
                                   /\ acks[i].key \in messages => acks[i].key \in serverCache
        BY <1>2, <1>5, <2>3, <2>4
      <3>3. events' = events \o Gained(eventCache) \o Completions(acks)
        BY <2>5, <2>6
      <3>4. UNCHANGED <<messages, observers, serverCache>>
        BY <1>a
      <3>5. QED
        BY <1>a, <2>4, <2>5, <3>1, <3>2, <3>3, <3>4, AckTells
    <2>8. \A l \in Keys : IF l = k THEN status'[l] # "pending" ELSE status'[l] = status[l]
      BY <1>2, <2>4, <2>7
    <2>9. DatabaseTypeOK'
      BY <1>4, <1>6, <1>a, <2>2, <2>7 DEF DatabaseTypeOK
    <2>10. ConnInv'
      BY <1>3, <1>a DEF ConnInv, Listening
    <2>11. PutsInv'
      BY <1>6, <1>a, <2>2, <2>8 DEF PutsInv
    <2>12. WireInv'
      <3>1. \A l \in PutKeys : l \in PutKeys' \/ AnsweredAt(1, l)
        BY <1>6, <1>7
      <3>2. \A l \in PutKeys' : status'[l] = "pending"
        BY <1>6, <1>8, <2>8
      <3>3. QED
        BY <1>3, <1>a, <3>1, <3>2, WireReads
    <2>13. ServerInv'
      <3>1. \A i \in DOMAIN putsToAck' : putsToAck'[i].ok => putsToAck'[i].key \in messages
        BY <2>2
      <3>2. serverCache' \subseteq messages
        BY <1>a DEF ServerInv
      <3>3. QED
        BY <1>3, <1>7, <1>a, <3>1, <3>2, ServerAfterRead
    <2>14. Settled'
      <3>1. \A i \in DOMAIN down' : i \in Nat /\ i + 1 \in DOMAIN down /\ down'[i] = down[i + 1]
        BY <1>3 DEF ReadOne
      <3>2. ASSUME NEW l \in messages', NEW i \in DOMAIN down', AnsweredAt(i, l)' PROVE Has(l, i)'
        <4>1. i \in Nat /\ i + 1 \in DOMAIN down /\ AnsweredAt(i + 1, l) /\ l \in messages
          BY <1>a, <3>1, <3>2 DEF AnsweredAt
        <4>2. Has(l, i + 1)
          BY <2>1, <4>1 DEF Settled
        <4>3. QED
          BY <1>3, <1>7, <1>a, <4>1, <4>2, HasReads
      <3>3. \A i \in DOMAIN down' : down'[i].type \in {"put", "child"}
        BY <2>1, <3>1 DEF Settled
      <3>4. QED
        BY <1>a, <2>1, <2>2, <3>2, <3>3 DEF Settled, OnlyPuts
    <2>15. QED
      BY <2>7, <2>9, <2>10, <2>11, <2>12, <2>13, <2>14 DEF DatabaseInv, PhaseInv
  <1>11. CASE unacked # 0
    <2>1. putsToAck' = Append(putsToAck, m) /\ UNCHANGED <<status, eventCache, events>>
      BY <1>1, <1>11 DEF m
    <2>2. /\ putsToAck' \in Seq(PutAnswers)
          /\ DOMAIN putsToAck' = DOMAIN putsToAck \cup {Len(putsToAck) + 1}
          /\ \A i \in DOMAIN putsToAck : putsToAck'[i] = putsToAck[i]
          /\ putsToAck'[Len(putsToAck) + 1] = m
      BY <1>2, <1>a, <2>1, AppendAt DEF DatabaseTypeOK
    <2>3. AckKeys' = AckKeys \cup {k}
      BY <1>2, <2>2 DEF AckKeys
    <2>4. ClientTells
      BY <1>a, <2>1, QuietTells
    <2>5. DatabaseTypeOK'
      BY <1>4, <1>6, <1>a, <2>1, <2>2 DEF DatabaseTypeOK
    <2>6. ConnInv' /\ ViewInv'
      BY <1>3, <1>a, <2>1 DEF ConnInv, Listening, ViewInv, Pending
    <2>7. PutsInv'
      <3>1. \A i, j \in DOMAIN putsToAck' : putsToAck'[i].key = putsToAck'[j].key => i = j
        <4>1. \A i \in DOMAIN putsToAck : putsToAck[i].key # k
          BY <1>5 DEF AckKeys
        <4>2. \A i, j \in DOMAIN putsToAck : putsToAck[i].key = putsToAck[j].key => i = j
          BY <1>a DEF PutsInv
        <4>3. QED
          BY <1>2, <2>2, <4>1, <4>2
      <3>2. QED
        BY <1>5, <1>6, <1>a, <2>1, <2>3, <3>1 DEF PutsInv
    <2>8. WireInv'
      <3>1. \A l \in PutKeys : l \in PutKeys' \/ AnsweredAt(1, l)
        BY <1>6, <1>7
      <3>2. \A l \in PutKeys' : status'[l] = "pending"
        BY <1>6, <1>8, <2>1
      <3>3. QED
        BY <1>3, <1>a, <3>1, <3>2, WireReads
    <2>9. ServerInv'
      <3>1. \A i \in DOMAIN putsToAck' : putsToAck'[i].ok => putsToAck'[i].key \in messages
        BY <1>2, <1>5, <1>a, <2>2 DEF ServerInv
      <3>2. serverCache' \subseteq messages
        BY <1>a DEF ServerInv
      <3>3. QED
        BY <1>3, <1>7, <1>a, <3>1, <3>2, ServerAfterRead
    <2>10. PhaseInv'
      <3>1. \A i \in DOMAIN down' : i \in Nat /\ i + 1 \in DOMAIN down /\ down'[i] = down[i + 1]
        BY <1>3 DEF ReadOne
      <3>2. ~Settled /\ ~Asking
        BY <1>3, <1>4, <1>11, HeadPhase DEF Settled
      <3>3. CASE Answering
        <4>1. Answering'
          BY <1>a, <3>1, <3>3 DEF Answering, OnlyPuts
        <4>2. QED
          BY <4>1 DEF PhaseInv
      <3>4. CASE Arriving
        <4>1. PICK p \in DOMAIN down : ArrivingAt(p)
          BY <3>4 DEF Arriving
        <4>2. p # 1
          BY <1>2, <1>3, <4>1, ResponseKinds DEF ArrivingAt
        <4>3. p - 1 \in DOMAIN down' /\ \A q : q = p - 1 => ArrivingAt(q)'
          <5>1. \A l \in AckKeys' : l \in AckKeys \/ AnsweredAt(1, l)
            BY <1>7, <2>3
          <5>2. QED
            BY <1>3, <1>7, <1>a, <4>1, <4>2, <5>1, ArrivingReads
        <4>4. \E q \in DOMAIN down' : ArrivingAt(q)'
          BY <4>3
        <4>5. Arriving'
          BY <1>a, <3>4, <4>4 DEF Arriving, OnlyPuts
        <4>6. QED
          BY <4>5 DEF PhaseInv
      <3>5. QED
        BY <1>3, <1>a, <3>2, <3>3, <3>4 DEF PhaseInv
    <2>11. QED
      BY <2>4, <2>5, <2>6, <2>7, <2>8, <2>9, <2>10 DEF DatabaseInv
  <1>12. QED
    BY <1>10, <1>11

LEMMA ListenAnsweredStep ==
  ASSUME DatabaseInv, ListenAnswered
  PROVE  DatabaseInv' /\ ClientTells
  <1>a. /\ DatabaseTypeOK /\ ConnInv /\ PutsInv /\ WireInv /\ ServerInv /\ PhaseInv /\ ViewInv
        /\ UNCHANGED <<messages, subscribed, loading, up, conn, puts, observers, serverCache>>
        /\ complete' = TRUE /\ unacked' = unacked - 1
    BY DEF DatabaseInv, ListenAnswered, serverVars
  <1>1. LISTEN_OK \in Response /\ LISTEN_OK.type = "listenOk" /\ LISTEN_OK # AUTH_OK
    BY ResponseKinds
  <1>2. ReadOne /\ conn = "up" /\ down[1] = LISTEN_OK
    BY <1>1, ReadUp DEF ListenAnswered
  <1>3. 1 \in DOMAIN down /\ down' \in Seq(Response)
    BY <1>2 DEF ReadOne
  <1>4. Arriving /\ \A p \in DOMAIN down : ArrivingAt(p) => p = 1
    BY <1>1, <1>2, <1>3, HeadPhase
  <1>5. ArrivingAt(1) /\ unacked = 1
    BY <1>4 DEF Arriving
  <1>6. \A k : ~Carries(1, k) /\ ~AnsweredAt(1, k)
    BY <1>1, <1>2 DEF Carries, AnsweredAt
  <1>7. serverCache \cup Pending = eventCache
    BY <1>a DEF ViewInv
  <1>8. /\ Acked(putsToAck, eventCache, TRUE)
        /\ putsToAck' = <<>>
        /\ events' = events \o Gained(eventCache) \o Completions(putsToAck)
    BY <1>5, <1>7 DEF ListenAnswered
  <1>9. \A i \in DOMAIN putsToAck : putsToAck[i].key \in Keys
    <2>1. \A i \in DOMAIN putsToAck : putsToAck[i] \in PutAnswers
      BY <1>a, LenProperties, ElementOfSeq DEF DatabaseTypeOK
    <2>2. QED
      BY <2>1, ResponseKinds
  \* The kept answers are about what the client has by now.
  <1>10. \A k \in AckKeys : k \in messages => k \in serverCache
    <2>1. \A k \in AckKeys : k \in messages => Has(k, 1)
      BY <1>5 DEF ArrivingAt
    <2>2. \A i \in DOMAIN down : i <= 1 => i = 1
      BY <1>2 DEF ReadOne
    <2>3. QED
      BY <1>6, <2>1, <2>2 DEF Has
  <1>11. /\ ClientTells /\ events' \in Seq(Event) /\ ViewInv' /\ eventCache' \in SUBSET Keys
         /\ status' \in [Keys -> {"unsent", "pending", "saved", "refused", "lost"}]
         /\ \A k \in Keys : IF \E i \in DOMAIN putsToAck : putsToAck[i].key = k
                            THEN status'[k] \in {"saved", "refused"}
                            ELSE status'[k] = status[k]
    <2>1. putsToAck \in Seq(PutAnswers)
      BY <1>a DEF DatabaseTypeOK
    <2>2. \A i, j \in DOMAIN putsToAck : putsToAck[i].key = putsToAck[j].key => i = j
      BY <1>a DEF PutsInv
    <2>3. \A i \in DOMAIN putsToAck : /\ status[putsToAck[i].key] = "pending"
                                      /\ putsToAck[i].ok => putsToAck[i].key \in messages
                                      /\ putsToAck[i].key \in messages => putsToAck[i].key \in serverCache
      BY <1>9, <1>10, <1>a DEF PutsInv, ServerInv, AckKeys
    <2>4. QED
      BY <1>8, <1>a, <2>1, <2>2, <2>3, AckTells
  <1>12. \A k \in Keys : IF k \in AckKeys THEN status'[k] \in {"saved", "refused"} ELSE status'[k] = status[k]
    BY <1>11 DEF AckKeys
  <1>13. PutKeys' = PutKeys /\ AckKeys' = {} /\ \A k \in PutKeys : k \in Keys
    BY <1>8, <1>a, LenProperties, ElementOfSeq DEF PutKeys, AckKeys, DatabaseTypeOK
  <1>14. DatabaseTypeOK'
    <2>1. putsToAck' \in Seq(PutAnswers) /\ unacked' \in Nat
      BY <1>5, <1>8, <1>a, EmptySeq
    <2>2. QED
      BY <1>3, <1>11, <1>a, <2>1 DEF DatabaseTypeOK
  <1>15. ConnInv'
    BY <1>2, <1>a DEF ConnInv, Listening
  <1>16. PutsInv'
    <2>1. \A i, j \in DOMAIN puts' : puts'[i] = puts'[j] => i = j
      BY <1>a DEF PutsInv
    <2>2. \A k \in Keys : status'[k] = "pending" <=> k \in PutKeys'
      BY <1>12, <1>13, <1>a DEF PutsInv
    <2>3. QED
      BY <1>8, <1>13, <2>1, <2>2 DEF PutsInv
  <1>17. WireInv'
    <2>1. \A k \in PutKeys' : status'[k] = "pending"
      BY <1>13, <1>16 DEF PutsInv
    <2>2. QED
      BY <1>2, <1>13, <1>a, <2>1, WireReads
  <1>18. ServerInv'
    <2>1. \A i \in DOMAIN putsToAck' : putsToAck'[i].ok => putsToAck'[i].key \in messages
      BY <1>8
    <2>2. serverCache' \subseteq messages
      BY <1>a DEF ServerInv
    <2>3. QED
      BY <1>2, <1>6, <1>a, <2>1, <2>2, ServerAfterRead
  <1>19. Settled'
    <2>1. \A i \in DOMAIN down' : i \in Nat /\ i > 0 /\ i + 1 \in DOMAIN down /\ down'[i] = down[i + 1]
      BY <1>2 DEF ReadOne
    <2>2. ASSUME NEW k \in messages', NEW i \in DOMAIN down', AnsweredAt(i, k)' PROVE Has(k, i)'
      <3>1. i \in Nat /\ i + 1 > 1 /\ i + 1 \in DOMAIN down /\ AnsweredAt(i + 1, k) /\ k \in messages
        BY <1>a, <2>1, <2>2 DEF AnsweredAt
      <3>2. Has(k, i + 1)
        BY <1>5, <3>1 DEF ArrivingAt
      <3>3. QED
        BY <1>2, <1>6, <1>a, <3>1, <3>2, HasReads
    <2>3. \A i \in DOMAIN down' : down'[i].type \in {"put", "child"}
      <3> SUFFICES ASSUME NEW i \in DOMAIN down' PROVE down'[i].type \in {"put", "child"}
        OBVIOUS
      <3>1. i + 1 \in DOMAIN down /\ i + 1 > 1 /\ down'[i] = down[i + 1]
        BY <2>1
      <3>2. QED
        BY <1>5, <3>1 DEF ArrivingAt
    <2>4. QED
      BY <1>4, <1>5, <1>8, <1>a, <2>2, <2>3 DEF Arriving, Settled, OnlyPuts
  <1>20. QED
    BY <1>11, <1>14, <1>15, <1>16, <1>17, <1>18, <1>19 DEF DatabaseInv, PhaseInv

LEMMA ClientReadsStep ==
  ASSUME DatabaseInv, ClientReads
  PROVE  DatabaseInv' /\ ClientTells
  <1>1. CASE AuthOk
    <2>1. UNCHANGED <<messages, observers, status, eventCache, events>>
      BY <1>1 DEF AuthOk, serverVars, viewVars
    <2>2. QED
      BY <1>1, <2>1, AuthOkStep, QuietTells DEF DatabaseInv
  <1>2. CASE SnapshotReceived
    BY <1>2, SnapshotStep
  <1>3. CASE ChildReceived
    BY <1>3, ChildStep
  <1>4. CASE PutAnswered
    BY <1>4, PutAnsweredStep
  <1>5. CASE ListenAnswered
    BY <1>5, ListenAnsweredStep
  <1>6. QED
    BY <1>1, <1>2, <1>3, <1>4, <1>5 DEF ClientReads

LEMMA DatabaseInitInv ==
  ASSUME DatabaseInit
  PROVE  DatabaseInv
  <1>1. /\ messages = {} /\ subscribed = FALSE /\ loading = <<>> /\ up = <<>> /\ down = <<>>
        /\ conn = "down" /\ puts = <<>> /\ unacked = 0 /\ putsToAck = <<>>
        /\ status = [k \in Keys |-> "unsent"]
        /\ observers = <<>> /\ serverCache = {} /\ complete = FALSE /\ eventCache = {} /\ events = <<>>
    BY DEF DatabaseInit
  <1>2. /\ loading \in Seq(SUBSET Keys) /\ up \in Seq(Request) /\ down \in Seq(Response)
        /\ puts \in Seq(Keys) /\ putsToAck \in Seq(PutAnswers) /\ observers \in Seq(Chats)
        /\ events \in Seq(Event)
    BY <1>1, EmptySeq
  <1>3. DatabaseTypeOK
    BY <1>1, <1>2 DEF DatabaseTypeOK
  <1>4. PutKeys = {} /\ AckKeys = {} /\ Pending = {} /\ \A k \in Keys : status[k] = "unsent"
    BY <1>1 DEF PutKeys, AckKeys, Pending
  <1>5. ConnInv /\ ViewInv /\ PhaseInv /\ WireInv /\ ServerInv
    BY <1>1, <1>4 DEF ConnInv, ViewInv, PhaseInv, WireInv, ServerInv
  <1>6. PutsInv
    BY <1>1, <1>4 DEF PutsInv
  <1>7. QED
    BY <1>3, <1>5, <1>6 DEF DatabaseInv
=============================================================================
