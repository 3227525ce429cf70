--------------------------- MODULE FlashChatProofs ---------------------------
(***************************************************************************)
(* The Flash Chat app keeps its invariant, and implements the chat room.   *)
(***************************************************************************)
EXTENDS FlashChat, FirebaseDatabaseProofs

-----------------------------------------------------------------------------
(* The invariant of the app: the client's, and what each screen was told.  *)

ToldBy(v, k) == \/ \E i \in DOMAIN rows[v] : rows[v][i] = k
                \/ \E i \in DOMAIN events : events[i] = Added(v, k)

\* A screen registers once, and is told of nothing before.
ObserversInv ==
  /\ \A i, j \in DOMAIN observers : observers[i] = observers[j] => i = j
  /\ \A v \in Chats \ Opened : \A k \in Keys : ~ToldBy(v, k)

\* What a screen was told and the view does not show the server refused, and
\* will not have.
GhostInv == \A v \in Opened : \A k \in Keys :
  /\ k \in eventCache => ToldBy(v, k)
  /\ ToldBy(v, k) /\ k \notin eventCache => status[k] = "refused" /\ k \notin messages

ToldOnce ==
  /\ \A v \in Chats : \A i, j \in DOMAIN rows[v] : rows[v][i] = rows[v][j] => i = j
  /\ \A i, j \in DOMAIN events : events[i] = events[j] /\ events[i].type = "added" => i = j
  /\ \A v \in Chats, i \in DOMAIN events : \A j \in DOMAIN rows[v] : events[i] # Added(v, rows[v][j])

ToldInv == ObserversInv /\ GhostInv /\ ToldOnce

IInv == /\ TypeOK
        /\ DatabaseInv
        /\ ToldInv
        /\ SendWaits

-----------------------------------------------------------------------------
(* Types                                                                   *)

\* Calls, completion blocks and accounts.
LEMMA AuthStep ==
  ASSUME TypeOK, [Next]_vars
  PROVE  AuthTypeOK'
  <1> USE DEF TypeOK
  <1>1. ASSUME NEW s \in Slots, NEW u \in Users, formPressed(s, u) PROVE AuthTypeOK'
    <2>1. form \in {LOGIN, SIGNUP}
      BY <1>1 DEF formPressed, ChatTypeOK
    <2>2. QED
      BY <1>1, <2>1 DEF formPressed, Sent, AuthTypeOK, Call, Stages
  <1>2. ASSUME NEW s \in Slots, Completed(s) PROVE AuthTypeOK'
    <2>1. NoCall \in Call
      BY DEF Call
    <2>2. mainQueue' \in Seq(Slots)
      BY <1>2, HeadTailProperties DEF Completed, AuthTypeOK
    <2>3. QED
      BY <1>2, <2>1, <2>2 DEF Completed, AuthTypeOK
  <1>3. ASSUME NEW s \in Slots, calls[s].stage # "idle"
        PROVE  calls[s] \in [stage : Stages, kind : {LOGIN, SIGNUP}, user : Users]
    BY <1>3 DEF AuthTypeOK, Call, NoCall
  <1>4. ASSUME NEW s \in Slots, ServerAccepts(s) \/ CallFails(s) PROVE AuthTypeOK'
    <2>1. calls[s] \in [stage : Stages, kind : {LOGIN, SIGNUP}, user : Users]
      BY <1>3, <1>4 DEF ServerAccepts, CallFails
    <2>2. QED
      BY <1>4, <2>1 DEF ServerAccepts, CallFails, AuthTypeOK, Call, Stages
  <1>5. ASSUME NEW s \in Slots, SignedIn(s) \/ SignInFailed(s) PROVE AuthTypeOK'
    <2>1. calls[s] \in [stage : Stages, kind : {LOGIN, SIGNUP}, user : Users]
      BY <1>3, <1>5 DEF SignedIn, SignInFailed
    <2>2. mainQueue' \in Seq(Slots)
      <3>1. mainQueue' = Append(mainQueue, s)
        BY <1>5 DEF SignedIn, SignInFailed, Posted
      <3>2. QED
        BY <3>1, AppendProperties DEF AuthTypeOK
    <2>3. CASE SignedIn(s)
      BY <2>1, <2>2, <2>3 DEF SignedIn, Posted, AuthTypeOK, Call, Stages
    <2>4. CASE SignInFailed(s)
      BY <2>1, <2>2, <2>4 DEF SignInFailed, Posted, AuthTypeOK, Call, Stages
    <2>5. QED
      BY <1>5, <2>3, <2>4
  <1>6. ASSUME NEW why, Stop(why) PROVE AuthTypeOK'
    <2>1. mainQueue' \in Seq(Slots)
      BY <1>6, EmptySeq DEF Stop, AuthStopped
    <2>2. QED
      BY <1>6, <2>1 DEF Stop, AuthStopped, AuthTypeOK, Call
  <1>7. CASE Launch
    BY <1>7 DEF Launch, AuthLoaded, AuthTypeOK
  <1>8. ASSUME SignedOut \/ SignedOutByForce PROVE AuthTypeOK'
    BY <1>8 DEF SignedOut, SignedOutByForce, AuthTypeOK
  <1>9. ASSUME UNCHANGED authVars PROVE AuthTypeOK'
    BY <1>9 DEF authVars, AuthTypeOK
  <1>10. QED
    BY <1>1, <1>2, <1>4, <1>5, <1>6, <1>7, <1>8, <1>9
       DEF Next, User, Background, Completion, Kill, openForm, FormFailed, FormSucceeded,
           leaveForm, sendPressed, sendCompleted, childAdded, logOutPressed, leaveChat,
           ForcedSignOut, Online, Offline, ServerSteps, ClientSteps, othersSend, MainQueue,
           vars

\* The screens, their rows and controls.
LEMMA ChatStep ==
  ASSUME TypeOK, [Next]_vars
  PROVE  ChatTypeOK'
  <1> USE DEF TypeOK
  <1>1. ASSUME NEW why \in {"killed", "noNavigation", "nilSender"}, Stop(why) PROVE ChatTypeOK'
    <2>1. <<>> \in Seq(Chats) /\ <<>> \in Seq(Keys)
      BY EmptySeq
    <2>2. QED
      BY <1>1, <2>1 DEF Stop, ChatTypeOK
  <1>2. CASE Launch
    BY <1>2 DEF Launch, ChatTypeOK
  <1>3. ASSUME NEW kind \in {LOGIN, SIGNUP}, openForm(kind) PROVE ChatTypeOK'
    BY <1>3 DEF openForm, ChatTypeOK
  <1>4. ASSUME NEW s \in Slots, NEW u \in Users, formPressed(s, u) PROVE ChatTypeOK'
    BY <1>4 DEF formPressed, ChatTypeOK
  <1>5. ASSUME NEW s \in Slots, FormFailed(s) PROVE ChatTypeOK'
    BY <1>5 DEF FormFailed, ChatTypeOK
  <1>6. ASSUME NEW s \in Slots, FormSucceeded(s) PROVE ChatTypeOK'
    <2>1. CASE s \notin formCalls
      BY <1>1, <1>6, <2>1 DEF FormSucceeded
    <2>2. CASE s \in formCalls
      <3>1. /\ hud' = FALSE /\ formCalls' = formCalls \ {s}
            /\ UNCHANGED <<form, running, crash, rows, sending, sender>>
            /\ \E v \in Chats : stack' = Append(stack, v)
        BY <1>6, <2>2 DEF FormSucceeded, opensChat
      <3>2. stack' \in Seq(Chats)
        BY <3>1, AppendProperties DEF ChatTypeOK
      <3>3. QED
        BY <3>1, <3>2 DEF ChatTypeOK
    <2>3. QED
      BY <2>1, <2>2
  <1>7. CASE leaveForm
    BY <1>7 DEF leaveForm, ChatTypeOK
  <1>8. ASSUME NEW v \in Chats, NEW k \in Keys, sendPressed(v, k) PROVE ChatTypeOK'
    BY <1>8 DEF sendPressed, ChatTypeOK, AuthTypeOK
  <1>9. ASSUME NEW k \in Keys, NEW ok \in BOOLEAN, sendCompleted(k, ok) PROVE ChatTypeOK'
    BY <1>9 DEF sendCompleted, ChatTypeOK
  <1>10. ASSUME NEW v \in Chats, NEW k \in Keys, childAdded(v, k) PROVE ChatTypeOK'
    <2>1. CASE sender[k] = Nobody
      BY <1>1, <1>10, <2>1 DEF childAdded
    <2>2. CASE sender[k] # Nobody
      <3>1. rows' = [rows EXCEPT ![v] = Append(@, k)]
            /\ UNCHANGED <<form, formCalls, stack, running, crash, hud, sending, sender>>
        BY <1>10, <2>2 DEF childAdded
      <3>2. Append(rows[v], k) \in Seq(Keys)
        BY AppendProperties DEF ChatTypeOK
      <3>3. QED
        BY <3>1, <3>2 DEF ChatTypeOK
    <2>3. QED
      BY <2>1, <2>2
  <1>11. CASE logOutPressed
    BY <1>11, EmptySeq DEF logOutPressed, ChatTypeOK
  <1>12. CASE leaveChat
    <2>1. stack \in Seq(Chats) /\ stack # <<>> /\ Len(stack) \in Nat
      BY <1>12, LenProperties DEF leaveChat, ChatTypeOK
    <2>2. stack' \in Seq(Chats)
      BY <1>12, <2>1, SubSeqProperties, EmptySeq DEF leaveChat, Popped
    <2>3. QED
      BY <1>12, <2>2 DEF leaveChat, ChatTypeOK
  <1>13. ASSUME NEW k \in Keys, NEW u \in Users, othersSend(k, u) PROVE ChatTypeOK'
    BY <1>13 DEF othersSend, ChatTypeOK
  <1>14. ASSUME UNCHANGED chatVars PROVE ChatTypeOK'
    BY <1>14 DEF chatVars, ChatTypeOK
  <1>15. QED
    BY <1>1, <1>2, <1>3, <1>4, <1>5, <1>6, <1>7, <1>8, <1>9, <1>10, <1>11, <1>12, <1>13, <1>14
       DEF Next, User, Background, Completion, Kill, ForcedSignOut, Online, Offline,
           ServerSteps, ClientSteps, MainQueue, vars

\* A screen on the stack observes, and only on a form whose calls are under way.
StackInv == /\ {stack[i] : i \in DOMAIN stack} \subseteq Opened
            /\ form = "none" => stack = <<>> /\ formCalls = {}
            /\ formCalls \subseteq UnderWay

LEMMA StackStep ==
  ASSUME TypeOK, [Next]_vars
  PROVE  StackInv'
  <1> USE DEF TypeOK
  <1>0. StackInv /\ stack \in Seq(Chats) /\ observers \in Seq(Chats)
    BY DEF StackInv, ChatTypeOK, DatabaseTypeOK
  <1>1. ASSUME NEW why, Stop(why) PROVE StackInv'
    <2>1. stack' = <<>> /\ formCalls' = {}
      BY <1>1 DEF Stop
    <2>2. {stack'[i] : i \in DOMAIN stack'} = {}
      BY <2>1
    <2>3. QED
      BY <2>1, <2>2 DEF StackInv
  <1>2. ASSUME UNCHANGED <<stack, observers, form, formCalls>>, \A s \in formCalls : calls'[s].stage # "idle"
        PROVE  StackInv'
    BY <1>0, <1>2 DEF StackInv, Opened, UnderWay
  <1>3. \A s \in formCalls : s \in Slots /\ calls[s].stage # "idle"
    BY <1>0 DEF StackInv, UnderWay
  <1>4. CASE UNCHANGED <<stack, observers, form, formCalls, calls>>
    BY <1>2, <1>3, <1>4
  <1>5. ASSUME NEW kind, openForm(kind) PROVE StackInv'
    BY <1>0, <1>5 DEF openForm, StackInv, Opened, UnderWay, authVars, dbVars, viewVars
  <1>6. ASSUME NEW s \in Slots, NEW u, formPressed(s, u) PROVE StackInv'
    <2>1. \A t \in formCalls' : t \in Slots /\ calls'[t].stage # "idle"
      BY <1>3, <1>6 DEF formPressed, Sent, AuthTypeOK
    <2>2. QED
      BY <1>0, <1>6, <2>1 DEF formPressed, StackInv, Opened, UnderWay, dbVars, viewVars
  <1>7. ASSUME NEW s \in Slots, FormFailed(s) PROVE StackInv'
    <2>1. \A t \in formCalls' : t \in Slots /\ calls'[t].stage # "idle"
      BY <1>3, <1>7 DEF FormFailed, Completed, AuthTypeOK
    <2>2. QED
      BY <1>0, <1>7, <2>1 DEF FormFailed, StackInv, Opened, UnderWay, dbVars, viewVars
  <1>8. ASSUME NEW s \in Slots, FormSucceeded(s) PROVE StackInv'
    <2>1. CASE s \notin formCalls
      BY <1>1, <1>8, <2>1 DEF FormSucceeded
    <2>2. CASE s \in formCalls
      <3>1. PICK v \in Chats : opensChat(v)
        BY <1>8, <2>2 DEF FormSucceeded
      <3>2. Completed(s) /\ formCalls' = formCalls \ {s} /\ form' = form
        BY <1>8, <2>2 DEF FormSucceeded
      <3>3. stack' = Append(stack, v) /\ observers' = Append(observers, v)
        BY <3>1 DEF opensChat, Observe
      <3>4. \A t \in formCalls' : t \in Slots /\ calls'[t].stage # "idle"
        BY <1>3, <3>2 DEF Completed, AuthTypeOK
      <3>5. \A i \in DOMAIN stack' : stack'[i] = v \/ (i \in DOMAIN stack /\ stack'[i] = stack[i])
        BY <1>0, <3>3, AppendAt
      <3>6. \A i \in DOMAIN observers : i \in DOMAIN observers' /\ observers'[i] = observers[i]
        BY <1>0, <3>3, AppendAt
      <3>7. Len(observers) + 1 \in DOMAIN observers' /\ observers'[Len(observers) + 1] = v
        BY <1>0, <3>3, AppendAt
      <3>8. form # "none"
        BY <1>0, <2>2 DEF StackInv
      <3>9. \A w : w \in Opened \/ w = v => w \in Opened'
        BY <3>6, <3>7 DEF Opened
      <3>10. {stack'[i] : i \in DOMAIN stack'} \subseteq Opened'
        BY <1>0, <3>5, <3>9 DEF StackInv
      <3>11. QED
        BY <3>2, <3>4, <3>8, <3>10 DEF StackInv, UnderWay
    <2>3. QED
      BY <2>1, <2>2
  <1>9. CASE leaveForm
    BY <1>0, <1>9 DEF leaveForm, StackInv, Opened, dbVars, viewVars
  <1>10. ASSUME NEW v, NEW k, sendPressed(v, k) PROVE StackInv'
    BY <1>4, <1>10 DEF sendPressed, SetValue, authVars
  <1>11. ASSUME NEW k, NEW ok, sendCompleted(k, ok) PROVE StackInv'
    BY <1>4, <1>11 DEF sendCompleted, Delivered, authVars, viewVars
  <1>12. ASSUME NEW v, NEW k, childAdded(v, k) PROVE StackInv'
    BY <1>1, <1>4, <1>12 DEF childAdded, Delivered, authVars, viewVars
  <1>13. CASE logOutPressed
    <2>1. stack' = <<>> /\ formCalls' = {}
      BY <1>13 DEF logOutPressed
    <2>2. {stack'[i] : i \in DOMAIN stack'} = {}
      BY <2>1
    <2>3. QED
      BY <2>1, <2>2 DEF StackInv
  <1>14. CASE leaveChat
    <2>1. Len(stack) \in Nat /\ Len(stack) > 0 /\ DOMAIN stack = 1 .. Len(stack)
      BY <1>0, <1>14, LenProperties, EmptySeq DEF leaveChat
    <2>2. stack' = [i \in 1 .. Len(stack) - 1 |-> stack[i]]
      BY <1>0, <1>14, <2>1, SubSeqProperties DEF leaveChat, Popped
    <2>3. \A i \in DOMAIN stack' : i \in DOMAIN stack /\ stack'[i] = stack[i]
      BY <2>1, <2>2
    <2>4. form # "none"
      BY <1>0, <1>14 DEF leaveChat, StackInv
    <2>5. UNCHANGED <<observers, form, formCalls, calls>>
      BY <1>14 DEF leaveChat, authVars, dbVars, viewVars
    <2>6. \A i \in DOMAIN stack' : stack'[i] \in Opened'
      BY <1>0, <2>3, <2>5 DEF StackInv, Opened
    <2>7. QED
      BY <1>0, <2>4, <2>5, <2>6 DEF StackInv, UnderWay
  <1>15. ASSUME NEW s \in Slots, Background(s) PROVE StackInv'
    <2>a. calls[s].stage # "idle"
      BY <1>15 DEF Background, ServerAccepts, CallFails, SignedIn, SignInFailed
    <2>b. calls[s] \in [stage : Stages, kind : {LOGIN, SIGNUP}, user : Users] /\ calls \in [Slots -> Call]
      BY <2>a DEF AuthTypeOK, Call, NoCall
    <2>c. \E x \in Stages : calls' = [calls EXCEPT ![s].stage = x]
      BY <1>15 DEF Background, ServerAccepts, CallFails, SignedIn, SignInFailed, Posted, Stages
    <2>d. \A t \in Slots : t # s => calls'[t] = calls[t]
      BY <2>b, <2>c
    <2>e. calls'[s].stage \in Stages
      BY <2>b, <2>c
    <2>1. \A t \in formCalls : calls'[t].stage # "idle"
      BY <1>3, <2>d, <2>e DEF Stages
    <2>2. QED
      BY <1>2, <1>15, <2>1 DEF Background, dbVars, viewVars, chatVars
  <1>16. CASE ForcedSignOut
    BY <1>4, <1>16 DEF ForcedSignOut, SignedOutByForce, dbVars, viewVars, chatVars
  <1>17. CASE Online \/ Offline \/ ServerSteps \/ ClientSteps
    <2>1. UNCHANGED observers
      BY <1>17 DEF Online, Offline, ServerSteps, ClientSteps, Connect, Disconnect, ServerReads,
                   ServerAnswers, ClientReads, AuthOk, SnapshotReceived, ChildReceived, PutAnswered,
                   ListenAnswered, viewVars
    <2>2. QED
      BY <1>4, <1>17, <2>1 DEF Online, Offline, ServerSteps, ClientSteps, authVars, chatVars
  <1>18. ASSUME NEW k, NEW u, othersSend(k, u) PROVE StackInv'
    BY <1>4, <1>18 DEF othersSend, OthersPut, authVars, viewVars
  <1>19. CASE Launch
    BY <1>4, <1>19 DEF Launch, AuthLoaded, dbVars, viewVars
  <1>20. CASE UNCHANGED vars
    BY <1>4, <1>20 DEF vars, authVars, dbVars, viewVars, chatVars
  <1>21. QED
    BY <1>1, <1>5, <1>6, <1>7, <1>8, <1>9, <1>10, <1>11, <1>12, <1>13, <1>14, <1>15, <1>16, <1>17,
       <1>18, <1>19, <1>20
       DEF Next, User, Kill, Completion, MainQueue

LEMMA InitTyped ==
  ASSUME Init
  PROVE  TypeOK
  <1>1. AuthTypeOK
    BY EmptySeq DEF Init, AuthInit, AuthTypeOK, Call
  <1>2. DatabaseTypeOK
    BY DatabaseInitInv DEF Init, DatabaseInv
  <1>3. ChatTypeOK
    BY EmptySeq DEF Init, ChatTypeOK
  <1>4. {stack[i] : i \in DOMAIN stack} = {} /\ stack = <<>> /\ formCalls = {}
    BY DEF Init
  <1>5. QED
    BY <1>1, <1>2, <1>3, <1>4 DEF TypeOK

-----------------------------------------------------------------------------
(* What a step of the app does to the client and to the rows.              *)

\* A step that changes neither rows nor controls.
Still == UNCHANGED <<rows, sending>>

Opens == \E v \in Chats : v \notin Opened /\ Observe(v) /\ Still
Sends1 == \E v \in Chats, k \in Keys : sendPressed(v, k)
Completes == \E k \in Keys, ok \in BOOLEAN : sendCompleted(k, ok)
Adds == \E v \in Chats, k \in Keys :
  /\ Delivered(Added(v, k))
  /\ rows' = [rows EXCEPT ![v] = Append(@, k)]
  /\ UNCHANGED sending
Stops == \E why : Stop(why)

LEMMA StepKinds ==
  ASSUME [Next]_vars
  PROVE  \/ UNCHANGED dbVars /\ Still
         \/ Opens
         \/ Sends1
         \/ Completes
         \/ Adds
         \/ Stops
         \/ Listening /\ Connect(currentUser # Nobody) /\ Still
         \/ Disconnect /\ Still
         \/ (ServerReads \/ ServerAnswers) /\ Still
         \/ (\E k \in Keys : k \notin Mine /\ OthersPut(k)) /\ Still
         \/ ClientReads /\ Still
  <1> DEFINE Goal == \/ UNCHANGED dbVars /\ Still
                     \/ Opens
                     \/ Sends1
                     \/ Completes
                     \/ Adds
                     \/ Stops
                     \/ Listening /\ Connect(currentUser # Nobody) /\ Still
                     \/ Disconnect /\ Still
                     \/ (ServerReads \/ ServerAnswers) /\ Still
                     \/ (\E k \in Keys : k \notin Mine /\ OthersPut(k)) /\ Still
                     \/ ClientReads /\ Still
  <1>1. CASE Launch \/ leaveForm \/ leaveChat \/ logOutPressed \/ ForcedSignOut \/ UNCHANGED vars
    <2>1. UNCHANGED dbVars /\ Still
      BY <1>1 DEF Launch, leaveForm, leaveChat, logOutPressed, ForcedSignOut, vars, chatVars, Still
    <2>2. QED
      BY <2>1
  <1>2. ASSUME NEW kind, openForm(kind) PROVE UNCHANGED dbVars /\ Still
    BY <1>2 DEF openForm, Still
  <1>3. ASSUME NEW s, NEW u, formPressed(s, u) PROVE UNCHANGED dbVars /\ Still
    BY <1>3 DEF formPressed, Still
  <1>4. ASSUME NEW s, Background(s) PROVE UNCHANGED dbVars /\ Still
    BY <1>4 DEF Background, chatVars, Still
  <1>5. ASSUME NEW s, FormFailed(s) PROVE UNCHANGED dbVars /\ Still
    BY <1>5 DEF FormFailed, Still
  <1>6. ASSUME NEW s, FormSucceeded(s) PROVE Stops \/ Opens
    BY <1>6 DEF FormSucceeded, Stops, Opens, opensChat, Still
  <1>7. ASSUME NEW v \in Chats, NEW k \in Keys, childAdded(v, k) PROVE Stops \/ Adds
    BY <1>7 DEF childAdded, Stops, Adds
  <1>8. ASSUME NEW k \in Keys, NEW u, othersSend(k, u) PROVE k \notin Mine /\ OthersPut(k) /\ Still
    BY <1>8 DEF othersSend, Still
  <1>9. CASE Online \/ Offline \/ ServerSteps \/ ClientSteps
    BY <1>9 DEF Online, Offline, ServerSteps, ClientSteps, chatVars, Still
  <1>10. CASE Kill
    BY <1>10 DEF Kill, Stops
  <1>11. CASE User
    BY <1>1, <1>2, <1>3, <1>8, <1>10, <1>11 DEF User, Sends1
  <1>12. CASE MainQueue
    BY <1>7, <1>12 DEF MainQueue, Completes
  <1>13. ASSUME NEW s \in Slots, Background(s) \/ Completion(s) PROVE Goal
    BY <1>4, <1>5, <1>6, <1>13 DEF Completion
  <1>14. QED
    BY <1>1, <1>9, <1>11, <1>12, <1>13 DEF Next

LEMMA DatabaseStep ==
  ASSUME DatabaseInv, [Next]_vars
  PROVE  DatabaseInv'
  <1>1. CASE UNCHANGED dbVars
    <2>1. UNCHANGED <<messages, subscribed, loading, up, down, conn, puts, unacked, putsToAck, status,
                      observers, serverCache, complete, eventCache, events>>
      BY <1>1 DEF dbVars, serverVars, wireVars, viewVars
    <2>2. DatabaseTypeOK' /\ ConnInv'
      BY <2>1 DEF DatabaseInv, DatabaseTypeOK, ConnInv, Listening
    <2>3. QED
      BY <2>1, <2>2, SameInv DEF DatabaseInv, invVars, wireVars
  <1>2. CASE Opens
    BY <1>2, ObserveStep DEF Opens
  <1>3. CASE Sends1
    BY <1>3, SetValueStep DEF Sends1, sendPressed
  <1>4. CASE Completes
    BY <1>4, DeliveredStep DEF Completes, sendCompleted
  <1>5. CASE Adds
    BY <1>5, DeliveredStep DEF Adds
  <1>6. CASE Stops
    BY <1>6, StoppedStep DEF Stops, Stop
  <1>7. CASE Listening /\ Connect(currentUser # Nobody)
    <2>1. (currentUser # Nobody) \in BOOLEAN
      OBVIOUS
    <2>2. QED
      BY <1>7, <2>1, ConnectStep
  <1>8. CASE Disconnect
    BY <1>8, DisconnectStep
  <1>9. CASE ServerReads
    BY <1>9, ServerReadsStep
  <1>10. CASE ServerAnswers
    BY <1>10, ServerAnswersStep
  <1>11. CASE \E k \in Keys : k \notin Mine /\ OthersPut(k)
    BY <1>11, OthersPutStep
  <1>12. CASE ClientReads
    BY <1>12, ClientReadsStep
  <1>13. QED
    BY <1>1, <1>2, <1>3, <1>4, <1>5, <1>6, <1>7, <1>8, <1>9, <1>10, <1>11, <1>12, StepKinds

-----------------------------------------------------------------------------
(* What the screens are told.                                              *)

\* Nothing is told, and no refused message enters the room.
LEMMA ToldSame ==
  ASSUME ToldInv, UNCHANGED <<rows, events, observers, eventCache>>,
         \A k \in Keys : status[k] = "refused" /\ k \notin messages =>
                           status'[k] = "refused" /\ k \notin messages'
  PROVE  ToldInv'
  <1>1. \A v, k : ToldBy(v, k)' <=> ToldBy(v, k)
    BY DEF ToldBy
  <1>2. Opened' = Opened
    BY DEF Opened
  <1>3. ObserversInv'
    BY <1>1, <1>2 DEF ToldInv, ObserversInv
  <1>4. GhostInv'
    BY <1>1, <1>2 DEF ToldInv, GhostInv
  <1>5. ToldOnce'
    BY DEF ToldInv, ToldOnce
  <1>6. QED
    BY <1>3, <1>4, <1>5 DEF ToldInv

\* The events of the keys the view gains, then completions: each screen is
\* told of each of these keys, which it was not told of before.
LEMMA ToldMore ==
  ASSUME DatabaseTypeOK, ToldInv, NEW new \in SUBSET Keys, NEW done \in Seq(Event),
         \A k \in new \ eventCache : k \in messages \/ status[k] \in {"unsent", "pending"},
         events' = events \o Gained(new) \o done,
         \A i \in DOMAIN done : done[i].type = "answered",
         UNCHANGED <<rows, observers>>
  PROVE  /\ \A v \in Chats, k \in Keys :
              ToldBy(v, k)' <=> ToldBy(v, k) \/ (v \in Opened /\ k \in new \ eventCache)
         /\ ToldOnce'
         /\ Opened' = Opened
         /\ \A i \in DOMAIN events : i \in DOMAIN events' /\ events'[i] = events[i]
         /\ \A i \in DOMAIN done : \E j \in DOMAIN events' : events'[j] = done[i]
  <1> DEFINE g == Gained(new)
             S == new \ eventCache
             c == events \o g
  <1>1. S \in SUBSET Keys /\ observers \in Seq(Chats) /\ events \in Seq(Event)
    BY DEF DatabaseTypeOK
  <1>2. /\ g \in Seq(Event)
        /\ \A i \in DOMAIN g : \E a \in DOMAIN observers, k \in S : g[i] = Added(observers[a], k)
        /\ \A a \in DOMAIN observers, k \in S : \E i \in DOMAIN g : g[i] = Added(observers[a], k)
        /\ \A i, j \in DOMAIN g : g[i] = g[j] => i = j
    BY <1>1, RaisedEvents DEF Gained, ToldInv, ObserversInv
  <1> HIDE DEF g, S
  <1>3. /\ c \in Seq(Event) /\ Len(c) = Len(events) + Len(g)
        /\ \A i \in DOMAIN events : c[i] = events[i] /\ i \in DOMAIN c
        /\ \A i \in DOMAIN g : c[Len(events) + i] = g[i] /\ Len(events) + i \in DOMAIN c
        /\ \A i \in DOMAIN c : i \in DOMAIN events \/ (i > Len(events) /\ i - Len(events) \in DOMAIN g)
    <2>1. events \in Seq(Event) /\ g \in Seq(Event)
      BY <1>1, <1>2
    <2>2. QED
      BY <2>1, ConcatAt
  <1>4. events' = c \o done
    BY DEF g
  <1> HIDE DEF c
  <1>5. /\ \A i \in DOMAIN c : events'[i] = c[i] /\ i \in DOMAIN events'
        /\ \A i \in DOMAIN done : events'[Len(c) + i] = done[i] /\ Len(c) + i \in DOMAIN events'
        /\ \A i \in DOMAIN events' : i \in DOMAIN c \/ (i > Len(c) /\ i - Len(c) \in DOMAIN done)
    <2> DEFINE d == c \o done
    <2>1. /\ \A i \in DOMAIN c : d[i] = c[i] /\ i \in DOMAIN d
          /\ \A i \in DOMAIN done : d[Len(c) + i] = done[i] /\ Len(c) + i \in DOMAIN d
          /\ \A i \in DOMAIN d : i \in DOMAIN c \/ (i > Len(c) /\ i - Len(c) \in DOMAIN done)
          /\ d \in Seq(Event)
      BY <1>3, ConcatAt
    <2> HIDE DEF d
    <2>2. QED
      BY <1>4, <2>1 DEF d
  <1>6. /\ \A i \in DOMAIN events : i \in Nat /\ i <= Len(events)
        /\ \A i \in DOMAIN g : i \in Nat /\ i > 0
        /\ \A i \in DOMAIN done : i \in Nat
        /\ \A i \in DOMAIN c : i \in Nat
        /\ Len(events) \in Nat /\ Len(c) \in Nat
        /\ \A i \in DOMAIN events' : i \in Nat
    <2>1. events' \in Seq(Event)
      BY <1>3, <1>4, ConcatProperties
    <2>2. QED
      BY <1>1, <1>2, <1>3, <2>1, LenProperties
  \* Where an event of events' comes from.
  <1>7. \A i \in DOMAIN events : i \in DOMAIN events' /\ events'[i] = events[i]
    BY <1>3, <1>5
  <1>8. \A j \in DOMAIN g : Len(events) + j \in DOMAIN events' /\ events'[Len(events) + j] = g[j]
    BY <1>3, <1>5
  <1>9. ASSUME NEW i \in DOMAIN events', i \notin DOMAIN events, events'[i].type = "added"
        PROVE  i - Len(events) \in DOMAIN g /\ events'[i] = g[i - Len(events)]
    <2>1. i \in DOMAIN c
      <3>1. CASE i > Len(c) /\ i - Len(c) \in DOMAIN done
        <4>1. Len(c) + (i - Len(c)) = i
          BY <1>6
        <4>2. events'[i] = done[i - Len(c)]
          BY <1>5, <3>1, <4>1
        <4>3. QED
          BY <1>9, <3>1, <4>2
      <3>2. QED
        BY <1>5, <3>1
    <2>2. i - Len(events) \in DOMAIN g /\ Len(events) + (i - Len(events)) = i
      BY <1>3, <1>6, <1>9, <2>1
    <2>3. QED
      BY <1>8, <2>2
  <1>10. \A v \in Chats : \A k : Added(v, k).type = "added"
    BY DEF Added
  <1>11. Opened' = Opened /\ \A a \in DOMAIN observers : observers[a] \in Opened /\ observers[a] \in Chats
    BY <1>1, LenProperties, ElementOfSeq DEF Opened
  <1>12. ASSUME NEW v \in Chats, NEW k \in Keys
         PROVE  ToldBy(v, k)' <=> ToldBy(v, k) \/ (v \in Opened /\ k \in S)
    <2>1. ToldBy(v, k) => ToldBy(v, k)'
      BY <1>7 DEF ToldBy
    <2>2. ASSUME v \in Opened, k \in S PROVE ToldBy(v, k)'
      <3>1. PICK a \in DOMAIN observers : observers[a] = v
        BY <2>2 DEF Opened
      <3>2. PICK j \in DOMAIN g : g[j] = Added(v, k)
        BY <1>2, <2>2, <3>1
      <3>3. Len(events) + j \in DOMAIN events' /\ events'[Len(events) + j] = Added(v, k)
        BY <1>8, <3>2
      <3>4. QED
        BY <3>3 DEF ToldBy
    <2>3. ASSUME NEW i \in DOMAIN events', events'[i] = Added(v, k), ~ToldBy(v, k)
          PROVE  v \in Opened /\ k \in S
      <3>1. i \notin DOMAIN events
        BY <1>7, <2>3 DEF ToldBy
      <3>2. PICK j \in DOMAIN g : events'[i] = g[j]
        BY <1>9, <1>10, <2>3, <3>1
      <3>3. PICK a \in DOMAIN observers, l \in S : g[j] = Added(observers[a], l)
        BY <1>2
      <3>4. v = observers[a] /\ k = l
        <4>1. Added(v, k) = Added(observers[a], l)
          BY <2>3, <3>2, <3>3
        <4>2. QED
          BY <4>1 DEF Added
      <3>5. QED
        BY <1>11, <3>4
    <2>4. QED
      BY <2>1, <2>2, <2>3 DEF ToldBy
  \* The new events are about what was not told before.
  <1>13. ASSUME NEW i \in DOMAIN events', i \notin DOMAIN events, events'[i].type = "added"
         PROVE  \E v \in Chats, k \in Keys : events'[i] = Added(v, k) /\ ~ToldBy(v, k)
    <2>1. PICK j \in DOMAIN g : events'[i] = g[j]
      BY <1>9, <1>13
    <2>2. PICK a \in DOMAIN observers, k \in S : g[j] = Added(observers[a], k)
      BY <1>2
    <2>3. observers[a] \in Opened /\ observers[a] \in Chats /\ k \in Keys /\ k \notin eventCache /\ k \in new \ eventCache
      BY <1>1, <1>11 DEF S
    <2>4. ~ToldBy(observers[a], k)
      BY <2>3 DEF ToldInv, GhostInv
    <2>5. QED
      BY <2>1, <2>2, <2>3, <2>4
  <1>14. ToldOnce'
    <2>1. \A v \in Chats : \A i, j \in DOMAIN rows'[v] : rows'[v][i] = rows'[v][j] => i = j
      BY DEF ToldInv, ToldOnce
    <2>2. ASSUME NEW i \in DOMAIN events', NEW j \in DOMAIN events', events'[i] = events'[j],
                 events'[i].type = "added"
          PROVE  i = j
      <3>1. CASE i \in DOMAIN events /\ j \in DOMAIN events
        BY <1>7, <2>2, <3>1 DEF ToldInv, ToldOnce
      <3>2. ASSUME NEW x \in DOMAIN events, NEW y \in DOMAIN events', y \notin DOMAIN events,
                   events'[y] = events'[x], events'[y].type = "added"
            PROVE  FALSE
        <4>1. PICK v \in Chats, k \in Keys : events'[y] = Added(v, k) /\ ~ToldBy(v, k)
          BY <1>13, <3>2
        <4>2. events[x] = Added(v, k)
          BY <1>7, <3>2, <4>1
        <4>3. QED
          BY <4>1, <4>2 DEF ToldBy
      <3>3. CASE i \notin DOMAIN events /\ j \notin DOMAIN events
        <4>1. /\ i - Len(events) \in DOMAIN g /\ events'[i] = g[i - Len(events)]
              /\ j - Len(events) \in DOMAIN g /\ events'[j] = g[j - Len(events)]
          BY <1>9, <2>2, <3>3
        <4>2. i - Len(events) = j - Len(events)
          BY <1>2, <2>2, <4>1
        <4>3. QED
          BY <1>6, <4>2
      <3>4. QED
        BY <2>2, <3>1, <3>2, <3>3
    <2>3. ASSUME NEW v \in Chats, NEW i \in DOMAIN events', NEW j \in DOMAIN rows'[v],
                 events'[i] = Added(v, rows'[v][j])
          PROVE  FALSE
      <3>1. CASE i \in DOMAIN events
        BY <1>7, <2>3, <3>1 DEF ToldInv, ToldOnce
      <3>2. CASE i \notin DOMAIN events
        <4>1. PICK w \in Chats, k \in Keys : events'[i] = Added(w, k) /\ ~ToldBy(w, k)
          <5>1. events'[i].type = "added"
            BY <2>3 DEF Added
          <5>2. QED
            BY <1>13, <3>2, <5>1
        <4>2. w = v /\ k = rows[v][j]
          <5>1. Added(w, k) = Added(v, rows[v][j])
            BY <2>3, <4>1
          <5>2. QED
            BY <5>1 DEF Added
        <4>3. QED
          BY <2>3, <4>1, <4>2 DEF ToldBy
      <3>3. QED
        BY <3>1, <3>2
    <2>4. QED
      BY <2>1, <2>2, <2>3 DEF ToldOnce
  <1>15. \A i \in DOMAIN done : \E j \in DOMAIN events' : events'[j] = done[i]
    BY <1>5
  <1>16. QED
    BY <1>7, <1>11, <1>12, <1>14, <1>15 DEF S

\* The client reads an answer or a push: what leaves the view was refused.
LEMMA ToldClient ==
  ASSUME DatabaseTypeOK, ToldInv, ClientTells, UNCHANGED rows
  PROVE  ToldInv'
  <1>1. PICK new \in SUBSET Keys, done \in Seq(Event), saved \in SUBSET Pending, refused \in SUBSET Pending :
          Tells(new, done, saved, refused)
    BY DEF ClientTells
  <1>2. /\ eventCache \subseteq new /\ eventCache' \subseteq new
        /\ \A k \in new \ eventCache' : k \in refused /\ k \notin messages
        /\ saved \cap refused = {}
        /\ status' = [k \in Keys |-> IF k \in saved THEN "saved" ELSE IF k \in refused THEN "refused" ELSE status[k]]
        /\ UNCHANGED <<messages, observers>>
    BY <1>1 DEF Tells
  <1>3. /\ \A v \in Chats, k \in Keys :
             ToldBy(v, k)' <=> ToldBy(v, k) \/ (v \in Opened /\ k \in new \ eventCache)
        /\ ToldOnce' /\ Opened' = Opened
    BY <1>1, ToldMore DEF Tells
  <1>4. \A v \in Opened : v \in Chats
    BY LenProperties, ElementOfSeq DEF Opened, DatabaseTypeOK
  <1>5. \A k \in Keys : /\ k \in refused => status'[k] = "refused"
                        /\ status[k] = "refused" => status'[k] = "refused"
    BY <1>2 DEF Pending
  <1>6. ObserversInv'
    BY <1>2, <1>3 DEF ToldInv, ObserversInv
  <1>7. ASSUME NEW v \in Opened, NEW k \in Keys
        PROVE  /\ k \in eventCache' => ToldBy(v, k)'
               /\ ToldBy(v, k)' /\ k \notin eventCache' => status'[k] = "refused" /\ k \notin messages'
    <2>1. /\ k \in eventCache => ToldBy(v, k)
          /\ ToldBy(v, k) /\ k \notin eventCache => status[k] = "refused" /\ k \notin messages
      BY DEF ToldInv, GhostInv
    <2>2. ToldBy(v, k)' <=> ToldBy(v, k) \/ k \in new \ eventCache
      BY <1>3, <1>4
    <2>3. CASE k \in new
      BY <1>2, <1>5, <2>1, <2>2, <2>3
    <2>4. CASE k \notin new
      BY <1>2, <1>5, <2>1, <2>2, <2>4
    <2>5. QED
      BY <2>3, <2>4
  <1>8. GhostInv'
    BY <1>3, <1>7 DEF GhostInv
  <1>9. QED
    BY <1>3, <1>6, <1>8 DEF ToldInv

\* The device sends: each screen is told at once.
LEMMA ToldSends ==
  ASSUME DatabaseTypeOK, ToldInv, NEW k \in Keys, SetValue(k), UNCHANGED rows
  PROVE  /\ ToldInv'
         /\ \A i \in DOMAIN events : i \in DOMAIN events' /\ events'[i] = events[i]
  <1> DEFINE new == eventCache \cup {k}
  <1>1. /\ new \in SUBSET Keys /\ <<>> \in Seq(Event)
        /\ eventCache' = new /\ status[k] = "unsent" /\ status' = [status EXCEPT ![k] = "pending"]
        /\ UNCHANGED <<messages, observers>>
    BY EmptySeq DEF DatabaseTypeOK, SetValue, Viewed, serverVars
  <1>2. events' = events \o Gained(new)
    BY DEF SetValue
  <1> HIDE DEF new
  <1>3. events' = events \o Gained(new) \o <<>>
    <2>1. events \o Gained(new) \in Seq(Event)
      BY <1>1, GainedEvents
    <2> DEFINE c == events \o Gained(new)
    <2> HIDE DEF c
    <2>2. c \o <<>> = c
      BY <2>1, ConcatEmptySeq DEF c
    <2>3. QED
      BY <1>2, <2>2 DEF c
  <1>4. \A l \in new \ eventCache : status[l] = "unsent"
    BY <1>1 DEF new
  <1>5. /\ \A v \in Chats, l \in Keys :
             ToldBy(v, l)' <=> ToldBy(v, l) \/ (v \in Opened /\ l \in new \ eventCache)
        /\ ToldOnce' /\ Opened' = Opened
        /\ \A i \in DOMAIN events : i \in DOMAIN events' /\ events'[i] = events[i]
    <2>1. \A i \in DOMAIN <<>> : <<>>[i].type = "answered"
      OBVIOUS
    <2>2. QED
      BY <1>1, <1>3, <1>4, <2>1, ToldMore
  <1>6. \A v \in Opened : v \in Chats
    BY LenProperties, ElementOfSeq DEF Opened, DatabaseTypeOK
  <1>7. ObserversInv'
    BY <1>1, <1>5 DEF ToldInv, ObserversInv
  <1>8. \A l \in Keys : status[l] = "refused" => status'[l] = "refused"
    BY <1>1 DEF DatabaseTypeOK
  <1>9. eventCache' = new /\ eventCache \subseteq new
    BY <1>1 DEF new
  <1>10. GhostInv'
    <2> SUFFICES ASSUME NEW v \in Opened', NEW l \in Keys
                 PROVE  /\ l \in eventCache' => ToldBy(v, l)'
                        /\ ToldBy(v, l)' /\ l \notin eventCache' => status'[l] = "refused" /\ l \notin messages'
      BY DEF GhostInv
    <2>1. v \in Opened /\ v \in Chats
      BY <1>5, <1>6
    <2>2. /\ l \in eventCache => ToldBy(v, l)
          /\ ToldBy(v, l) /\ l \notin eventCache => status[l] = "refused" /\ l \notin messages
      BY <2>1 DEF ToldInv, GhostInv
    <2>3. QED
      BY <1>1, <1>5, <1>8, <1>9, <2>1, <2>2
  <1>11. QED
    BY <1>5, <1>7, <1>10 DEF ToldInv

\* A screen opens: it is told of what the view shows.
LEMMA ToldOpens ==
  ASSUME DatabaseTypeOK, ToldInv, NEW v \in Chats, v \notin Opened, Observe(v), UNCHANGED rows
  PROVE  /\ ToldInv'
         /\ \A i \in DOMAIN events : i \in DOMAIN events' /\ events'[i] = events[i]
  <1> DEFINE ks == Sorted(eventCache)
             told == [i \in 1 .. Len(ks) |-> Added(v, ks[i])]
             L == Len(events)
  <1>1. /\ eventCache \in SUBSET Keys /\ events \in Seq(Event) /\ observers \in Seq(Chats)
        /\ observers' = Append(observers, v) /\ events' = events \o told
        /\ UNCHANGED <<messages, status, eventCache>>
    BY DEF DatabaseTypeOK, Observe, serverVars
  <1>2. /\ ks \in Seq(Keys) /\ \A n \in DOMAIN ks : ks[n] \in eventCache
        /\ \A k \in eventCache : \E n \in DOMAIN ks : ks[n] = k
        /\ \A m, n \in DOMAIN ks : ks[m] = ks[n] => m = n
    BY <1>1, SortedKeys
  <1>3. Len(ks) \in Nat /\ DOMAIN ks = 1 .. Len(ks)
    BY <1>2, LenProperties
  <1>4. DOMAIN told = DOMAIN ks /\ \A i \in DOMAIN ks : told[i] = Added(v, ks[i])
    BY <1>3
  <1>5. told \in Seq(Event)
    <2>1. \A i \in 1 .. Len(ks) : Added(v, ks[i]) \in Event
      BY <1>1, <1>2, <1>3, EventKinds
    <2> HIDE DEF ks
    <2>2. QED
      BY <1>3, <2>1, IsASeq
  <1> HIDE DEF ks, told
  <1>6. /\ \A i \in DOMAIN events : events'[i] = events[i] /\ i \in DOMAIN events'
        /\ \A i \in DOMAIN told : events'[L + i] = told[i] /\ L + i \in DOMAIN events'
        /\ \A i \in DOMAIN events' : i \in DOMAIN events \/ (i > L /\ i - L \in DOMAIN told)
        /\ events' \in Seq(Event)
    <2> DEFINE d == events \o told
    <2>1. /\ \A i \in DOMAIN events : d[i] = events[i] /\ i \in DOMAIN d
          /\ \A i \in DOMAIN told : d[L + i] = told[i] /\ L + i \in DOMAIN d
          /\ \A i \in DOMAIN d : i \in DOMAIN events \/ (i > L /\ i - L \in DOMAIN told)
          /\ d \in Seq(Event)
      BY <1>1, <1>5, ConcatAt
    <2> HIDE DEF d
    <2>2. QED
      BY <1>1, <2>1 DEF d
  <1>7. /\ \A i \in DOMAIN events' : i \in Nat
        /\ L \in Nat
    BY <1>1, <1>6, LenProperties
  <1>8. ASSUME NEW i \in DOMAIN events', i \notin DOMAIN events
        PROVE  i - L \in DOMAIN ks /\ events'[i] = Added(v, ks[i - L])
    <2>1. i - L \in DOMAIN told /\ L + (i - L) = i
      BY <1>6, <1>7, <1>8
    <2>2. events'[i] = told[i - L]
      BY <1>6, <2>1
    <2>3. QED
      BY <1>4, <2>1, <2>2
  <1>9. /\ \A w : w \in Opened' <=> w \in Opened \/ w = v
        /\ \A i, j \in DOMAIN observers' : observers'[i] = observers'[j] => i = j
    <2>1. /\ DOMAIN observers' = DOMAIN observers \cup {Len(observers) + 1}
          /\ \A i \in DOMAIN observers : observers'[i] = observers[i]
          /\ observers'[Len(observers) + 1] = v
      BY <1>1, AppendAt
    <2>2. QED
      BY <2>1 DEF Opened, ToldInv, ObserversInv
  <1>10. \A k \in Keys : ~ToldBy(v, k)
    BY DEF ToldInv, ObserversInv
  <1>11. ASSUME NEW w \in Chats, NEW k \in Keys
         PROVE  ToldBy(w, k)' <=> IF w = v THEN k \in eventCache ELSE ToldBy(w, k)
    <2>1. ToldBy(w, k) => ToldBy(w, k)'
      BY <1>6 DEF ToldBy
    <2>2. ASSUME w = v, k \in eventCache PROVE ToldBy(w, k)'
      <3>1. PICK n \in DOMAIN ks : ks[n] = k
        BY <1>2, <2>2
      <3>2. L + n \in DOMAIN events' /\ events'[L + n] = Added(w, k)
        BY <1>4, <1>6, <2>2, <3>1
      <3>3. QED
        BY <3>2 DEF ToldBy
    <2>3. ASSUME NEW i \in DOMAIN events', events'[i] = Added(w, k), ~ToldBy(w, k)
          PROVE  w = v /\ k \in eventCache
      <3>1. i \notin DOMAIN events
        BY <1>6, <2>3 DEF ToldBy
      <3>2. i - L \in DOMAIN ks /\ Added(w, k) = Added(v, ks[i - L])
        BY <1>8, <2>3, <3>1
      <3>3. w = v /\ k = ks[i - L]
        BY <3>2 DEF Added
      <3>4. QED
        BY <1>2, <3>2, <3>3
    <2>4. QED
      BY <1>10, <2>1, <2>2, <2>3 DEF ToldBy
  <1>12. ObserversInv'
    <2>1. ASSUME NEW w \in Chats \ Opened', NEW k \in Keys PROVE ~ToldBy(w, k)'
      BY <1>9, <1>11 DEF ToldInv, ObserversInv
    <2>2. QED
      BY <1>9, <2>1 DEF ObserversInv
  <1>13. GhostInv'
    <2> SUFFICES ASSUME NEW w \in Opened', NEW k \in Keys
                 PROVE  /\ k \in eventCache' => ToldBy(w, k)'
                        /\ ToldBy(w, k)' /\ k \notin eventCache' => status'[k] = "refused" /\ k \notin messages'
      BY DEF GhostInv
    <2>1. CASE w = v
      BY <1>1, <1>11, <2>1
    <2>2. CASE w # v
      <3>1. w \in Opened /\ w \in Chats
        BY <1>1, <1>9, <2>2, LenProperties, ElementOfSeq DEF Opened
      <3>2. QED
        BY <1>1, <1>11, <2>2, <3>1 DEF ToldInv, GhostInv
    <2>3. QED
      BY <2>1, <2>2
  <1>14. ToldOnce'
    <2>1. \A w \in Chats : \A i, j \in DOMAIN rows'[w] : rows'[w][i] = rows'[w][j] => i = j
      BY DEF ToldInv, ToldOnce
    <2>a. ASSUME NEW i \in DOMAIN events', i \notin DOMAIN events
          PROVE  \E k \in Keys : events'[i] = Added(v, k) /\ ~ToldBy(v, k)
      BY <1>1, <1>2, <1>8, <1>10, <2>a
    <2>2. ASSUME NEW i \in DOMAIN events', NEW j \in DOMAIN events', events'[i] = events'[j],
                 events'[i].type = "added"
          PROVE  i = j
      <3>1. CASE i \in DOMAIN events /\ j \in DOMAIN events
        BY <1>6, <2>2, <3>1 DEF ToldInv, ToldOnce
      <3>2. ASSUME NEW x \in DOMAIN events, NEW y \in DOMAIN events', y \notin DOMAIN events,
                   events'[y] = events'[x]
            PROVE  FALSE
        BY <1>6, <2>a, <3>2 DEF ToldBy
      <3>3. CASE i \notin DOMAIN events /\ j \notin DOMAIN events
        <4>1. /\ i - L \in DOMAIN ks /\ events'[i] = Added(v, ks[i - L])
              /\ j - L \in DOMAIN ks /\ events'[j] = Added(v, ks[j - L])
          BY <1>8, <3>3
        <4>a. ks[i - L] = ks[j - L]
          <5>1. Added(v, ks[i - L]) = Added(v, ks[j - L])
            BY <2>2, <4>1
          <5>2. QED
            BY <5>1 DEF Added
        <4>2. i - L = j - L
          BY <1>2, <4>1, <4>a
        <4>3. QED
          BY <1>7, <4>2
      <3>4. QED
        BY <2>2, <3>1, <3>2, <3>3
    <2>3. ASSUME NEW w \in Chats, NEW i \in DOMAIN events', NEW j \in DOMAIN rows'[w],
                 events'[i] = Added(w, rows'[w][j])
          PROVE  FALSE
      <3>1. CASE i \in DOMAIN events
        BY <1>6, <2>3, <3>1 DEF ToldInv, ToldOnce
      <3>2. CASE i \notin DOMAIN events
        <4>1. PICK k \in Keys : events'[i] = Added(v, k) /\ ~ToldBy(v, k)
          BY <2>a, <3>2
        <4>2. w = v /\ k = rows[w][j]
          <5>1. Added(v, k) = Added(w, rows[w][j])
            BY <2>3, <4>1
          <5>2. QED
            BY <5>1 DEF Added
        <4>3. QED
          BY <2>3, <4>1, <4>2 DEF ToldBy
      <3>3. QED
        BY <3>1, <3>2
    <2>4. QED
      BY <2>1, <2>2, <2>3 DEF ToldOnce
  <1>15. QED
    BY <1>6, <1>12, <1>13, <1>14 DEF ToldInv


\* The main queue runs its first block: the others move up.
LEMMA MovesUp ==
  ASSUME DatabaseTypeOK, NEW e, Delivered(e)
  PROVE  /\ 1 \in DOMAIN events /\ events[1] = e
         /\ \A i \in DOMAIN events' : i + 1 \in DOMAIN events /\ events'[i] = events[i + 1] /\ i \in Nat /\ i > 0
         /\ \A i \in DOMAIN events : i # 1 => i - 1 \in DOMAIN events' /\ events'[i - 1] = events[i]
         /\ UNCHANGED <<messages, status, observers, eventCache>>
  <1> DEFINE t == Tail(events)
  <1>1. events \in Seq(Event) /\ events # <<>> /\ e = Head(events) /\ events' = t
    BY DEF DatabaseTypeOK, Delivered
  <1>2. /\ Head(events) = events[1] /\ 1 \in DOMAIN events
        /\ \A i \in DOMAIN t : t[i] = events[i + 1] /\ i + 1 \in DOMAIN events /\ i \in Nat /\ i > 0
        /\ \A i \in DOMAIN events : i # 1 => i - 1 \in DOMAIN t /\ i \in Nat /\ i > 1
    BY <1>1, TailAt
  <1> HIDE DEF t
  <1>3. \A i \in DOMAIN events : i # 1 => i - 1 \in DOMAIN t /\ t[i - 1] = events[i]
    <2> SUFFICES ASSUME NEW i \in DOMAIN events, i # 1 PROVE i - 1 \in DOMAIN t /\ t[i - 1] = events[i]
      OBVIOUS
    <2>1. i - 1 \in DOMAIN t /\ i \in Nat
      BY <1>2
    <2>2. t[i - 1] = events[(i - 1) + 1] /\ (i - 1) + 1 = i
      BY <1>2, <2>1
    <2>3. QED
      BY <2>1, <2>2
  <1>4. UNCHANGED <<messages, status, observers, eventCache>>
    BY DEF Delivered, serverVars, viewVars
  <1>5. QED
    BY <1>1, <1>2, <1>3, <1>4

\* Only ToldBy and ToldOnce speak of events and rows.
LEMMA ToldKept ==
  ASSUME ToldInv, UNCHANGED <<messages, status, observers, eventCache>>,
         \A v \in Chats, k \in Keys : ToldBy(v, k)' <=> ToldBy(v, k),
         \A v \in Opened : v \in Chats,
         ToldOnce'
  PROVE  ToldInv'
  <1>1. Opened' = Opened
    BY DEF Opened
  <1>2. ObserversInv'
    BY <1>1 DEF ToldInv, ObserversInv
  <1>3. GhostInv'
    BY <1>1 DEF ToldInv, GhostInv
  <1>4. QED
    BY <1>2, <1>3 DEF ToldInv

LEMMA OpenedChats ==
  ASSUME DatabaseTypeOK
  PROVE  \A v \in Opened : v \in Chats
  BY LenProperties, ElementOfSeq DEF Opened, DatabaseTypeOK

\* A completion block runs.
LEMMA ToldCompletes ==
  ASSUME DatabaseTypeOK, ToldInv, NEW k \in Keys, NEW ok \in BOOLEAN,
         Delivered(Answered(k, ok)), UNCHANGED rows
  PROVE  ToldInv'
  <1>1. /\ 1 \in DOMAIN events /\ events[1] = Answered(k, ok)
        /\ \A i \in DOMAIN events' : i + 1 \in DOMAIN events /\ events'[i] = events[i + 1] /\ i \in Nat /\ i > 0
        /\ \A i \in DOMAIN events : i # 1 => i - 1 \in DOMAIN events' /\ events'[i - 1] = events[i]
        /\ UNCHANGED <<messages, status, observers, eventCache>>
    BY MovesUp
  <1>2. \A v \in Chats, l \in Keys : Added(v, l) # Answered(k, ok)
    BY EventKinds
  <1>3. ASSUME NEW v \in Chats, NEW l \in Keys PROVE ToldBy(v, l)' <=> ToldBy(v, l)
    BY <1>1, <1>2 DEF ToldBy
  <1>4. ToldOnce'
    <2>1. \A v \in Chats : \A i, j \in DOMAIN rows'[v] : rows'[v][i] = rows'[v][j] => i = j
      BY DEF ToldInv, ToldOnce
    <2>2. ASSUME NEW i \in DOMAIN events', NEW j \in DOMAIN events', events'[i] = events'[j],
                 events'[i].type = "added"
          PROVE  i = j
      <3>1. i + 1 = j + 1
        BY <1>1, <2>2 DEF ToldInv, ToldOnce
      <3>2. QED
        BY <1>1, <3>1
    <2>3. ASSUME NEW v \in Chats, NEW i \in DOMAIN events', NEW j \in DOMAIN rows'[v]
          PROVE  events'[i] # Added(v, rows'[v][j])
      BY <1>1 DEF ToldInv, ToldOnce
    <2>4. QED
      BY <2>1, <2>2, <2>3 DEF ToldOnce
  <1>5. QED
    BY <1>1, <1>3, <1>4, ToldKept, OpenedChats

\* A child-added event becomes a row.
LEMMA ToldAdds ==
  ASSUME DatabaseTypeOK, ToldInv, rows \in [Chats -> Seq(Keys)], NEW v \in Chats, NEW k \in Keys,
         Delivered(Added(v, k)), rows' = [rows EXCEPT ![v] = Append(@, k)]
  PROVE  ToldInv'
  <1>1. /\ 1 \in DOMAIN events /\ events[1] = Added(v, k)
        /\ \A i \in DOMAIN events' : i + 1 \in DOMAIN events /\ events'[i] = events[i + 1] /\ i \in Nat /\ i > 0
        /\ \A i \in DOMAIN events : i # 1 => i - 1 \in DOMAIN events' /\ events'[i - 1] = events[i]
        /\ UNCHANGED <<messages, status, observers, eventCache>>
    BY MovesUp
  <1>2. Added(v, k).type = "added" /\ \A w, l : Added(v, k) = Added(w, l) => w = v /\ l = k
    BY EventKinds
  <1>3. /\ \A w \in Chats : w # v => rows'[w] = rows[w]
        /\ DOMAIN rows'[v] = DOMAIN rows[v] \cup {Len(rows[v]) + 1}
        /\ \A i \in DOMAIN rows[v] : rows'[v][i] = rows[v][i] /\ i <= Len(rows[v])
        /\ rows'[v][Len(rows[v]) + 1] = k
    <2>1. rows[v] \in Seq(Keys) /\ rows'[v] = Append(rows[v], k)
      OBVIOUS
    <2>2. QED
      BY <2>1, AppendAt
  \* This is the only event for it.
  <1>4. \A i \in DOMAIN events : events[i] = Added(v, k) => i = 1
    BY <1>1, <1>2 DEF ToldInv, ToldOnce
  <1>5. \A j \in DOMAIN rows[v] : rows[v][j] # k
    BY <1>1 DEF ToldInv, ToldOnce
  <1>6. ASSUME NEW w \in Chats, NEW l \in Keys PROVE ToldBy(w, l)' <=> ToldBy(w, l)
    <2>1. CASE w = v /\ l = k
      <3>1. ToldBy(w, l)
        BY <1>1, <2>1 DEF ToldBy
      <3>2. ToldBy(w, l)'
        BY <1>3, <2>1 DEF ToldBy
      <3>3. QED
        BY <3>1, <3>2
    <2>2. CASE ~(w = v /\ l = k)
      <3>1. Added(w, l) # Added(v, k)
        BY <1>2, <2>2
      <3>2. (\E i \in DOMAIN events' : events'[i] = Added(w, l)) <=> (\E i \in DOMAIN events : events[i] = Added(w, l))
        BY <1>1, <3>1
      <3>3. (\E i \in DOMAIN rows'[w] : rows'[w][i] = l) <=> (\E i \in DOMAIN rows[w] : rows[w][i] = l)
        <4>1. CASE w # v
          BY <1>3, <4>1
        <4>2. CASE w = v
          BY <1>3, <2>2, <4>2
        <4>3. QED
          BY <4>1, <4>2
      <3>4. QED
        BY <3>2, <3>3 DEF ToldBy
    <2>3. QED
      BY <2>1, <2>2
  <1>7. ToldOnce'
    <2>1. ASSUME NEW w \in Chats, NEW i \in DOMAIN rows'[w], NEW j \in DOMAIN rows'[w], rows'[w][i] = rows'[w][j]
          PROVE  i = j
      <3>1. CASE w # v
        BY <1>3, <2>1, <3>1 DEF ToldInv, ToldOnce
      <3>2. CASE w = v
        BY <1>3, <1>5, <2>1, <3>2 DEF ToldInv, ToldOnce
      <3>3. QED
        BY <3>1, <3>2
    <2>2. ASSUME NEW i \in DOMAIN events', NEW j \in DOMAIN events', events'[i] = events'[j],
                 events'[i].type = "added"
          PROVE  i = j
      <3>1. i + 1 = j + 1
        BY <1>1, <2>2 DEF ToldInv, ToldOnce
      <3>2. QED
        BY <1>1, <3>1
    <2>3. ASSUME NEW w \in Chats, NEW i \in DOMAIN events', NEW j \in DOMAIN rows'[w]
          PROVE  events'[i] # Added(w, rows'[w][j])
      <3>1. i + 1 \in DOMAIN events /\ events'[i] = events[i + 1] /\ i + 1 # 1
        BY <1>1
      <3>2. CASE w # v
        BY <1>3, <3>1, <3>2 DEF ToldInv, ToldOnce
      <3>3. CASE w = v /\ j \in DOMAIN rows[v]
        BY <1>3, <3>1, <3>3 DEF ToldInv, ToldOnce
      <3>4. CASE w = v /\ j = Len(rows[v]) + 1
        BY <1>3, <1>4, <3>1, <3>4
      <3>5. QED
        BY <1>3, <3>2, <3>3, <3>4
    <2>4. QED
      BY <2>1, <2>2, <2>3 DEF ToldOnce
  <1>8. QED
    BY <1>1, <1>6, <1>7, ToldKept, OpenedChats

\* The process ends: nobody is left to tell.
LEMMA ToldStops ==
  ASSUME DatabaseStopped, rows' = [v \in Chats |-> <<>>]
  PROVE  ToldInv'
  <1>1. observers' = <<>> /\ events' = <<>> /\ DOMAIN <<>> = {}
    BY DEF DatabaseStopped
  <1>2. \A v \in Chats : DOMAIN rows'[v] = {}
    OBVIOUS
  <1>3. Opened' = {}
    BY <1>1 DEF Opened
  <1>4. \A v \in Chats : \A k : ~ToldBy(v, k)'
    BY <1>1, <1>2 DEF ToldBy
  <1>5. ObserversInv'
    BY <1>1, <1>4 DEF ObserversInv
  <1>6. GhostInv'
    BY <1>3 DEF GhostInv
  <1>7. ToldOnce'
    BY <1>1, <1>2 DEF ToldOnce
  <1>8. QED
    BY <1>5, <1>6, <1>7 DEF ToldInv


\* What the server reads enters the room only if the device waits for it or
\* died waiting.
LEMMA ReadEnters ==
  ASSUME DatabaseInv, ServerReads
  PROVE  \/ UNCHANGED messages
         \/ \E k \in Keys : status[k] \in {"pending", "lost"} /\ messages' = messages \cup {k}
  <1>1. up \in Seq(Request) /\ up # <<>>
    BY DEF DatabaseInv, DatabaseTypeOK, ServerReads
  <1>2. 1 \in DOMAIN up /\ Head(up) = up[1] /\ Head(up) \in Request
    BY <1>1, TailAt
  <1>3. CASE messages' = messages \cup {Head(up).key} /\ Head(up).type = "put"
    <2>1. Head(up) \in PutRequests
      BY <1>2, <1>3 DEF Request, AUTH
    <2>2. Head(up).key \in Keys
      BY <2>1 DEF PutRequests
    <2>3. status[Head(up).key] \in {"pending", "lost"}
      BY <1>2, <1>3 DEF DatabaseInv, WireInv
    <2>4. QED
      BY <1>3, <2>2, <2>3
  <1>4. CASE UNCHANGED messages
    BY <1>4
  <1>5. QED
    BY <1>3, <1>4 DEF ServerReads

LEMMA ToldStep ==
  ASSUME TypeOK, DatabaseInv, ToldInv, [Next]_vars
  PROVE  ToldInv'
  <1>1. DatabaseTypeOK /\ rows \in [Chats -> Seq(Keys)]
    BY DEF TypeOK, ChatTypeOK
  <1>2. ASSUME UNCHANGED <<messages, status, observers, eventCache, events, rows>> PROVE ToldInv'
    BY <1>2, ToldSame
  <1>3. CASE UNCHANGED dbVars /\ Still
    BY <1>2, <1>3 DEF dbVars, serverVars, viewVars, Still
  <1>4. CASE Opens
    <2>1. PICK v \in Chats : v \notin Opened /\ Observe(v) /\ UNCHANGED rows
      BY <1>4 DEF Opens, Still
    <2>2. QED
      BY <1>1, <2>1, ToldOpens
  <1>5. CASE Sends1
    <2>1. PICK k \in Keys : SetValue(k) /\ UNCHANGED rows
      BY <1>5 DEF Sends1, sendPressed
    <2>2. QED
      BY <1>1, <2>1, ToldSends
  <1>6. CASE Completes
    <2>1. PICK k \in Keys, ok \in BOOLEAN : Delivered(Answered(k, ok)) /\ UNCHANGED rows
      BY <1>6 DEF Completes, sendCompleted
    <2>2. QED
      BY <1>1, <2>1, ToldCompletes
  <1>7. CASE Adds
    <2>1. PICK v \in Chats, k \in Keys :
            Delivered(Added(v, k)) /\ rows' = [rows EXCEPT ![v] = Append(@, k)]
      BY <1>7 DEF Adds
    <2>2. QED
      BY <1>1, <2>1, ToldAdds
  <1>8. CASE Stops
    <2>1. DatabaseStopped /\ rows' = [v \in Chats |-> <<>>]
      BY <1>8 DEF Stops, Stop
    <2>2. QED
      BY <2>1, ToldStops
  <1>9. CASE Connect(currentUser # Nobody) /\ Still
    BY <1>2, <1>9 DEF Connect, serverVars, viewVars, Still
  <1>10. CASE Disconnect /\ Still
    BY <1>2, <1>10 DEF Disconnect, viewVars, Still
  <1>11. CASE ServerReads /\ Still
    <2>1. \/ UNCHANGED messages
          \/ \E k \in Keys : status[k] \in {"pending", "lost"} /\ messages' = messages \cup {k}
      BY <1>11, ReadEnters
    <2>2. UNCHANGED <<status, observers, eventCache, events, rows>>
      BY <1>11 DEF ServerReads, viewVars, Still
    <2>3. QED
      BY <2>1, <2>2, ToldSame
  <1>12. CASE ServerAnswers /\ Still
    BY <1>2, <1>12 DEF ServerAnswers, viewVars, Still
  <1>13. CASE (\E k \in Keys : k \notin Mine /\ OthersPut(k)) /\ Still
    <2>1. PICK k \in Keys : OthersPut(k) /\ UNCHANGED rows
      BY <1>13 DEF Still
    <2>2. QED
      BY <2>1, ToldSame DEF OthersPut, viewVars
  <1>14. CASE ClientReads /\ Still
    <2>1. ClientTells
      BY <1>14, ClientReadsStep
    <2>2. QED
      BY <1>1, <1>14, <2>1, ToldClient DEF Still
  <1>15. QED
    BY <1>3, <1>4, <1>5, <1>6, <1>7, <1>8, <1>9, <1>10, <1>11, <1>12, <1>13, <1>14, StepKinds

-----------------------------------------------------------------------------
(* The send controls.                                                      *)

\* Events that stay in the queue, and fates that do not change for the worse.
LEMMA WaitsKept ==
  ASSUME SendWaits, UNCHANGED sending, sending \in [Chats -> Keys \cup {NoKey}],
         \A k \in Keys : status[k] \in {"pending", "refused"} =>
           \/ status'[k] \in {"pending", "refused"}
           \/ \E i \in DOMAIN events' : events'[i] = Answered(k, TRUE),
         \A i \in DOMAIN events : i \in DOMAIN events' /\ events'[i] = events[i]
  PROVE  SendWaits'
  BY DEF SendWaits

LEMMA SendWaitsStep ==
  ASSUME TypeOK, DatabaseInv, ToldInv, SendWaits, [Next]_vars
  PROVE  SendWaits'
  <1>1. /\ DatabaseTypeOK /\ sending \in [Chats -> Keys \cup {NoKey}]
        /\ status \in [Keys -> {"unsent", "pending", "saved", "refused", "lost"}]
    BY DEF TypeOK, ChatTypeOK, DatabaseTypeOK
  <1>2. ASSUME UNCHANGED <<status, events, sending>> PROVE SendWaits'
    BY <1>2 DEF SendWaits
  <1>3. CASE UNCHANGED dbVars /\ Still
    BY <1>2, <1>3 DEF dbVars, Still
  <1>4. CASE Opens
    <2>1. PICK v \in Chats : v \notin Opened /\ Observe(v) /\ UNCHANGED <<rows, sending>>
      BY <1>4 DEF Opens, Still
    <2>2. \A i \in DOMAIN events : i \in DOMAIN events' /\ events'[i] = events[i]
      BY <1>1, <2>1, ToldOpens
    <2>3. UNCHANGED status
      BY <2>1 DEF Observe
    <2>4. QED
      BY <1>1, <2>1, <2>2, <2>3, WaitsKept
  <1>5. CASE Sends1
    <2>1. PICK v \in Chats, k \in Keys :
            SetValue(k) /\ UNCHANGED rows /\ sending' = [sending EXCEPT ![v] = k]
      BY <1>5 DEF Sends1, sendPressed
    <2>2. \A i \in DOMAIN events : i \in DOMAIN events' /\ events'[i] = events[i]
      BY <1>1, <2>1, ToldSends
    <2>3. status' = [status EXCEPT ![k] = "pending"]
      BY <2>1 DEF SetValue
    <2>4. ASSUME NEW w \in Chats, sending'[w] # NoKey
          PROVE  \/ status'[sending'[w]] \in {"pending", "refused"}
                 \/ \E i \in DOMAIN events' : events'[i] = Answered(sending'[w], TRUE)
      <3>1. CASE sending'[w] = k
        BY <1>1, <2>3, <3>1
      <3>2. CASE sending'[w] # k
        <4>1. sending'[w] = sending[w] /\ sending[w] \in Keys /\ status'[sending[w]] = status[sending[w]]
          BY <1>1, <2>1, <2>3, <2>4, <3>2
        <4>2. QED
          BY <2>2, <2>4, <4>1 DEF SendWaits
      <3>3. QED
        BY <3>1, <3>2
    <2>5. QED
      BY <2>4 DEF SendWaits
  <1>6. CASE Completes
    <2>1. PICK k \in Keys, ok \in BOOLEAN : sendCompleted(k, ok)
      BY <1>6 DEF Completes
    <2>2. Delivered(Answered(k, ok))
      BY <2>1 DEF sendCompleted
    <2>3. /\ 1 \in DOMAIN events /\ events[1] = Answered(k, ok)
          /\ \A i \in DOMAIN events : i # 1 => i - 1 \in DOMAIN events' /\ events'[i - 1] = events[i]
          /\ UNCHANGED status
      BY <1>1, <2>2, MovesUp
    <2>4. sending' = IF ok THEN [v \in Chats |-> IF sending[v] = k THEN NoKey ELSE sending[v]]
                           ELSE sending
      BY <2>1 DEF sendCompleted
    <2>5. ASSUME NEW w \in Chats, sending'[w] # NoKey
          PROVE  \/ status'[sending'[w]] \in {"pending", "refused"}
                 \/ \E i \in DOMAIN events' : events'[i] = Answered(sending'[w], TRUE)
      <3>1. sending'[w] = sending[w] /\ (ok => sending[w] # k)
        BY <2>4, <2>5
      <3>2. Answered(sending[w], TRUE) # Answered(k, ok)
        BY <3>1 DEF Answered
      <3>3. ASSUME NEW i \in DOMAIN events, events[i] = Answered(sending[w], TRUE)
            PROVE  \E j \in DOMAIN events' : events'[j] = Answered(sending[w], TRUE)
        <4>1. i # 1
          BY <2>3, <3>2, <3>3
        <4>2. QED
          BY <2>3, <3>3, <4>1
      <3>4. QED
        BY <2>3, <2>5, <3>1, <3>3 DEF SendWaits
    <2>6. QED
      BY <2>5 DEF SendWaits
  <1>7. CASE Adds
    <2>1. PICK v \in Chats, k \in Keys : Delivered(Added(v, k)) /\ UNCHANGED sending
      BY <1>7 DEF Adds
    <2>2. /\ 1 \in DOMAIN events /\ events[1] = Added(v, k)
          /\ \A i \in DOMAIN events : i # 1 => i - 1 \in DOMAIN events' /\ events'[i - 1] = events[i]
          /\ UNCHANGED status
      BY <1>1, <2>1, MovesUp
    <2>3. \A l : Answered(l, TRUE) # Added(v, k)
      BY DEF Answered, Added
    <2>4. ASSUME NEW l, NEW i \in DOMAIN events, events[i] = Answered(l, TRUE)
          PROVE  \E j \in DOMAIN events' : events'[j] = Answered(l, TRUE)
      <3>1. i # 1
        BY <2>2, <2>3, <2>4
      <3>2. QED
        BY <2>2, <2>4, <3>1
    <2>5. QED
      BY <2>1, <2>2, <2>4 DEF SendWaits
  <1>8. CASE Stops
    BY <1>8 DEF Stops, Stop, SendWaits
  <1>9. CASE Connect(currentUser # Nobody) /\ Still
    BY <1>2, <1>9 DEF Connect, Still
  <1>10. CASE Disconnect /\ Still
    BY <1>2, <1>10 DEF Disconnect, Still
  <1>11. CASE (ServerReads \/ ServerAnswers) /\ Still
    BY <1>2, <1>11 DEF ServerReads, ServerAnswers, Still
  <1>12. CASE (\E k \in Keys : k \notin Mine /\ OthersPut(k)) /\ Still
    BY <1>2, <1>12 DEF OthersPut, Still
  <1>13. CASE ClientReads /\ Still
    <2>1. ClientTells
      BY <1>13, ClientReadsStep
    <2>2. PICK new \in SUBSET Keys, done \in Seq(Event), saved \in SUBSET Pending, refused \in SUBSET Pending :
            Tells(new, done, saved, refused)
      BY <2>1 DEF ClientTells
    <2>a. /\ \A k \in new \ eventCache : k \in messages \/ status[k] \in {"unsent", "pending"}
          /\ events' = events \o Gained(new) \o done
          /\ \A i \in DOMAIN done : done[i].type = "answered"
          /\ UNCHANGED <<rows, observers>>
      BY <1>13, <2>2 DEF Tells, Still
    <2>3. /\ \A i \in DOMAIN events : i \in DOMAIN events' /\ events'[i] = events[i]
          /\ \A i \in DOMAIN done : \E j \in DOMAIN events' : events'[j] = done[i]
      BY <1>1, <2>a, ToldMore
    <2>b. /\ \A k \in saved : \E i \in DOMAIN done : done[i] = Answered(k, TRUE)
          /\ status' = [k \in Keys |-> IF k \in saved THEN "saved" ELSE IF k \in refused THEN "refused" ELSE status[k]]
      BY <2>2 DEF Tells
    <2>4. ASSUME NEW k \in Keys, status[k] \in {"pending", "refused"}
          PROVE  \/ status'[k] \in {"pending", "refused"}
                 \/ \E i \in DOMAIN events' : events'[i] = Answered(k, TRUE)
      <3>1. CASE k \in saved
        <4>1. PICK i \in DOMAIN done : done[i] = Answered(k, TRUE)
          BY <2>b, <3>1
        <4>2. QED
          BY <2>3, <4>1
      <3>2. CASE k \notin saved
        BY <2>b, <2>4, <3>2
      <3>3. QED
        BY <3>1, <3>2
    <2>5. QED
      BY <1>1, <1>13, <2>3, <2>4, WaitsKept DEF Still
  <1>14. QED
    BY <1>3, <1>4, <1>5, <1>6, <1>7, <1>8, <1>9, <1>10, <1>11, <1>12, <1>13, StepKinds


-----------------------------------------------------------------------------
(* The invariant, and what follows from it.                                *)

LEMMA InitInv ==
  ASSUME Init
  PROVE  IInv
  <1>1. DatabaseInv
    BY DatabaseInitInv DEF Init
  <1>2. /\ rows = [v \in Chats |-> <<>>] /\ events = <<>> /\ observers = <<>>
        /\ sending = [v \in Chats |-> NoKey]
    BY DEF Init, DatabaseInit
  <1>3. DOMAIN events = {} /\ DOMAIN observers = {} /\ \A v \in Chats : DOMAIN rows[v] = {}
    BY <1>2
  <1>4. Opened = {}
    BY <1>3 DEF Opened
  <1>5. ToldInv
    BY <1>3, <1>4 DEF ToldInv, ObserversInv, GhostInv, ToldOnce, ToldBy
  <1>6. SendWaits
    BY <1>2 DEF SendWaits
  <1>7. QED
    BY <1>1, <1>5, <1>6, InitTyped DEF IInv

LEMMA StepInv ==
  ASSUME IInv, [Next]_vars
  PROVE  IInv'
  <1>1. DatabaseInv'
    BY DatabaseStep DEF IInv
  <1>2. AuthTypeOK' /\ ChatTypeOK' /\ StackInv'
    BY AuthStep, ChatStep, StackStep DEF IInv
  <1>3. TypeOK'
    BY <1>1, <1>2 DEF TypeOK, StackInv, DatabaseInv
  <1>4. ToldInv' /\ SendWaits'
    BY ToldStep, SendWaitsStep DEF IInv
  <1>5. QED
    BY <1>1, <1>3, <1>4 DEF IInv

\* The inductive invariant holds throughout.
THEOREM Inductive == Spec => []IInv
  BY InitInv, StepInv, PTL DEF Spec

\* Every variable keeps its type, and a chat screen is on the stack only when
\* its observer is registered and a form is under it.
THEOREM TypeCorrect == Spec => []TypeOK
  <1>1. IInv => TypeOK
    BY DEF IInv
  <1>2. QED
    BY <1>1, Inductive, PTL

LEMMA AtMostOne ==
  ASSUME NEW S, \A i, j \in S : i = j
  PROVE  Cardinality(S) = IF S = {} THEN 0 ELSE 1
  <1>1. CASE S = {}
    BY <1>1, FS_EmptySet
  <1>2. CASE S # {}
    <2>1. PICK x \in S : TRUE
      BY <1>2
    <2>2. S = {x}
      BY <2>1
    <2>3. QED
      BY <2>2, FS_Singleton
  <1>3. QED
    BY <1>1, <1>2

LEMMA ToldOnceCounted ==
  ASSUME ToldOnce
  PROVE  RowsUnique
  <1> SUFFICES ASSUME NEW v \in Chats, NEW k \in Keys
               PROVE  Cardinality(RowsOf(v, k)) + Cardinality(EventsOf(v, k)) <= 1
    BY DEF RowsUnique
  <1>1. \A i, j \in RowsOf(v, k) : i = j
    BY DEF RowsOf, ToldOnce
  <1>2. \A i, j \in EventsOf(v, k) : i = j
    BY DEF EventsOf, ToldOnce, Added
  <1>3. RowsOf(v, k) = {} \/ EventsOf(v, k) = {}
    BY DEF RowsOf, EventsOf, ToldOnce
  <1>4. /\ Cardinality(RowsOf(v, k)) = IF RowsOf(v, k) = {} THEN 0 ELSE 1
        /\ Cardinality(EventsOf(v, k)) = IF EventsOf(v, k) = {} THEN 0 ELSE 1
    BY <1>1, <1>2, AtMostOne
  <1>5. QED
    BY <1>3, <1>4

LEMMA OutstandingCounted ==
  ASSUME DatabaseTypeOK, PutsInv
  PROVE  WritesOutstanding
  <1> SUFFICES ASSUME NEW k \in Keys
               PROVE  Times(k) = IF k \in Pending THEN 1 ELSE 0
    BY DEF WritesOutstanding
  <1> DEFINE P == {i \in DOMAIN puts : puts[i] = k}
             A == {i \in DOMAIN putsToAck : putsToAck[i].key = k}
  <1>1. /\ \A i, j \in P : i = j
        /\ \A i, j \in A : i = j
    BY DEF PutsInv
  <1>2. /\ P # {} <=> k \in PutKeys
        /\ A # {} <=> k \in AckKeys
    BY DEF PutKeys, AckKeys
  <1>3. /\ ~(k \in PutKeys /\ k \in AckKeys)
        /\ k \in Pending <=> k \in PutKeys \/ k \in AckKeys
    BY DEF PutsInv, Pending
  <1>4. Times(k) = Cardinality(P) + Cardinality(A)
    BY DEF Times
  <1> HIDE DEF P, A
  <1>5. /\ Cardinality(P) = IF P = {} THEN 0 ELSE 1
        /\ Cardinality(A) = IF A = {} THEN 0 ELSE 1
    BY <1>1, AtMostOne
  <1>6. QED
    BY <1>2, <1>3, <1>4, <1>5

LEMMA GhostsCounted ==
  ASSUME DatabaseTypeOK, GhostInv
  PROVE  GhostsRefused
  <1>1. \A v \in Opened : \A k \in Keys : k \in ToldSet(v) <=> ToldBy(v, k)
    BY DEF ToldSet, RowsOf, EventsOf, ToldBy
  <1>2. \A v \in Opened : ToldSet(v) \subseteq Keys
    BY DEF ToldSet
  <1>3. eventCache \subseteq Keys
    BY DEF DatabaseTypeOK
  <1>4. QED
    BY <1>1, <1>2, <1>3 DEF GhostInv, GhostsRefused

\* No chat screen ever has two rows, or a row and a child-added event to come,
\* for one message: the event FSyncTree raises when a message is sent is the
\* only one, whatever snapshot, push and answer follow, over any number of
\* connections and resent puts.
THEOREM ShownOnce == Spec => []RowsUnique
  <1>1. IInv => RowsUnique
    BY ToldOnceCounted DEF IInv, ToldInv
  <1>2. QED
    BY <1>1, Inductive, PTL

\* FViewProcessor's view is the server cache under the pending writes, also
\* between a put's answer and the acknowledgement that is kept back for a
\* listen.
THEOREM ViewShows == Spec => []ViewFollows
  <1>1. IInv => ViewFollows
    BY DEF IInv, DatabaseInv, ViewInv, ViewFollows
  <1>2. QED
    BY <1>1, Inductive, PTL

\* A write without an answer is in outstandingPuts or in putsToAck, once, so
\* restoreState sends it again and no write is acknowledged twice.
THEOREM Outstanding == Spec => []WritesOutstanding
  <1>1. IInv => WritesOutstanding
    BY OutstandingCounted DEF IInv, DatabaseInv
  <1>2. QED
    BY <1>1, Inductive, PTL

\* A chat screen is told of everything the view shows, and a row it shows that
\* the view does not is of a write the server refused.
THEOREM Ghosts == Spec => []GhostsRefused
  <1>1. IInv => GhostsRefused
    BY GhostsCounted DEF IInv, ToldInv, DatabaseInv
  <1>2. QED
    BY <1>1, Inductive, PTL

\* The send controls of a chat screen wait for a write that has no answer, was
\* refused, or whose completion block is still in the main queue.
THEOREM ControlsWait == Spec => []SendWaits
  <1>1. IInv => SendWaits
    BY DEF IInv
  <1>2. QED
    BY <1>1, Inductive, PTL

-----------------------------------------------------------------------------
(* The refinement of the chat room.                                        *)

LEMMA RoomInit ==
  ASSUME Init
  PROVE  Room!Init
  BY DEF Init, DatabaseInit, Room!Init

\* Every step is a step of the room or leaves it alone.
LEMMA RoomStep ==
  ASSUME IInv, [Next]_vars
  PROVE  [Room!Next]_(Room!roomVars)
  <1>1. Room!PendingOnes = Pending /\ Mine \subseteq Keys
    BY FlashChatAssumption DEF Room!PendingOnes, Pending
  <1>2. ASSUME UNCHANGED <<messages, status>> PROVE UNCHANGED Room!roomVars
    BY <1>2 DEF Room!roomVars
  <1>3. CASE UNCHANGED dbVars
    BY <1>2, <1>3 DEF dbVars, serverVars
  <1>4. CASE Opens
    BY <1>2, <1>4 DEF Opens, Observe, serverVars
  <1>5. CASE Sends1
    <2>1. PICK k \in Keys : k \in Mine /\ SetValue(k)
      BY <1>5 DEF Sends1, sendPressed
    <2>2. Room!Submit(k)
      BY <2>1 DEF SetValue, serverVars, Room!Submit
    <2>3. QED
      BY <2>2 DEF Room!Next
  <1>6. CASE Completes \/ Adds
    BY <1>2, <1>6 DEF Completes, Adds, sendCompleted, Delivered, serverVars
  <1>7. CASE Stops
    <2>1. DatabaseStopped
      BY <1>7 DEF Stops, Stop
    <2>2. Room!Lose
      BY <1>1, <2>1 DEF DatabaseStopped, Room!Lose
    <2>3. QED
      BY <2>2 DEF Room!Next
  <1>8. CASE Connect(currentUser # Nobody) \/ Disconnect \/ ServerAnswers
    BY <1>2, <1>8 DEF Connect, Disconnect, ServerAnswers, serverVars
  <1>9. CASE ServerReads
    <2>1. \/ UNCHANGED messages
          \/ \E k \in Keys : status[k] \in {"pending", "lost"} /\ messages' = messages \cup {k}
      BY <1>9, ReadEnters DEF IInv
    <2>2. UNCHANGED status
      BY <1>9 DEF ServerReads
    <2>3. CASE \E k \in Keys : status[k] \in {"pending", "lost"} /\ messages' = messages \cup {k}
      <3>1. \E k \in Keys : Room!Enter(k)
        BY <2>2, <2>3 DEF Room!Enter
      <3>2. QED
        BY <3>1 DEF Room!Next
    <2>4. QED
      BY <1>2, <2>1, <2>2, <2>3
  <1>10. CASE \E k \in Keys : k \notin Mine /\ OthersPut(k)
    <2>1. \E k \in Keys : Room!Enter(k)
      BY <1>10 DEF OthersPut, Room!Enter
    <2>2. QED
      BY <2>1 DEF Room!Next
  <1>11. CASE ClientReads
    <2>1. ClientTells
      BY <1>11, ClientReadsStep DEF IInv
    <2>2. PICK new \in SUBSET Keys, done \in Seq(Event), saved \in SUBSET Pending, refused \in SUBSET Pending :
            Tells(new, done, saved, refused)
      BY <2>1 DEF ClientTells
    <2>3. /\ saved \subseteq messages /\ saved \cap refused = {}
          /\ status' = [k \in Keys |-> IF k \in saved THEN "saved" ELSE IF k \in refused THEN "refused" ELSE status[k]]
          /\ UNCHANGED messages
      BY <2>2 DEF Tells
    <2>4. Room!Report(saved, refused)
      BY <1>1, <2>3 DEF Room!Report
    <2>5. QED
      BY <1>1, <2>4 DEF Room!Next
  <1>12. QED
    BY <1>3, <1>4, <1>5, <1>6, <1>7, <1>8, <1>9, <1>10, <1>11, StepKinds

\* The app, its client and the server implement the chat room: a message of
\* this device enters it only while its fate is open or was lost with the
\* process, is reported saved only if it is there, and its fate is reported once.
THEOREM Implements == Spec => ImplementsChatRoom
  BY RoomInit, RoomStep, Inductive, PTL DEF Spec, ImplementsChatRoom, Room!Spec
=============================================================================
