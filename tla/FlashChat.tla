----------------------------- MODULE FlashChat ------------------------------
(***************************************************************************)
(* The Flash Chat app on one device: the welcome screen, a log-in or       *)
(* register form pushed on it, and chat screens pushed on the form.        *)
(*                                                                         *)
(* A chat screen registers a child-added observer when it loads and never  *)
(* removes it: the observer keeps the screen alive after it is popped.  It *)
(* appends a row for every child, and nothing removes a row.               *)
(***************************************************************************)
EXTENDS FirebaseAuth, FirebaseDatabase, FiniteSets

CONSTANTS Mine,    \* the keys this device can send; the others are others'
          NoKey,   \* no message
          NoBody   \* the sender of a message not written yet

ASSUME FlashChatAssumption ==
  /\ Mine \subseteq Keys
  /\ NoKey \notin Keys
  /\ NoBody \notin Users \cup {Nobody}

VARIABLES form,      \* the form on the stack: none, log in or register
          formCalls, \* the calls that form has under way
          stack,     \* the chat screens on the stack, the top one last
          running,   \* there is a process
          crash,     \* why the process last died
          hud,       \* the progress HUD is shown
          rows,      \* messageArray of each chat screen
          sending,   \* the message a screen's send controls wait for
          sender     \* the Sender of each message, Nobody when it has none

chatVars == <<form, formCalls, stack, running, crash, hud, rows, sending, sender>>
vars == <<authVars, dbVars, chatVars>>

ChatTypeOK ==
  /\ form \in {"none", LOGIN, SIGNUP}
  /\ formCalls \in SUBSET Slots
  /\ stack \in Seq(Chats)
  /\ running \in BOOLEAN
  /\ crash \in {"none", "killed", "noNavigation", "nilSender"}
  /\ hud \in BOOLEAN
  /\ rows \in [Chats -> Seq(Keys)]
  /\ sending \in [Chats -> Keys \cup {NoKey}]
  /\ sender \in [Keys -> Users \cup {Nobody, NoBody}]

Opened == {observers[i] : i \in DOMAIN observers}

\* The types; a screen on the stack observes, and only on a form.
TypeOK == /\ AuthTypeOK
          /\ DatabaseTypeOK
          /\ ChatTypeOK
          /\ {stack[i] : i \in DOMAIN stack} \subseteq Opened
          /\ form = "none" => stack = <<>> /\ formCalls = {}
          /\ formCalls \subseteq UnderWay

Init == /\ AuthInit
        /\ DatabaseInit
        /\ form = "none"
        /\ formCalls = {}
        /\ stack = <<>>
        /\ running = FALSE
        /\ crash = "none"
        /\ hud = FALSE
        /\ rows = [v \in Chats |-> <<>>]
        /\ sending = [v \in Chats |-> NoKey]
        /\ sender = [k \in Keys |-> NoBody]

-----------------------------------------------------------------------------
(* The process starts and ends.                                            *)

Launch == /\ ~running
          /\ running' = TRUE
          /\ crash' = "none"
          /\ AuthLoaded
          /\ UNCHANGED <<dbVars, form, formCalls, stack, hud, rows, sending, sender>>

Stop(why) == /\ running' = FALSE
             /\ crash' = why
             /\ form' = "none"
             /\ formCalls' = {}
             /\ stack' = <<>>
             /\ hud' = FALSE
             /\ rows' = [v \in Chats |-> <<>>]
             /\ sending' = [v \in Chats |-> NoKey]
             /\ UNCHANGED sender
             /\ AuthStopped
             /\ DatabaseStopped

Kill == running /\ Stop("killed")

-----------------------------------------------------------------------------
(* Welcome, LogInViewController and RegisterViewController                 *)

openForm(kind) == /\ running
                  /\ form = "none"
                  /\ form' = kind
                  /\ UNCHANGED <<authVars, dbVars, formCalls, stack, running, crash,
                                 hud, rows, sending, sender>>

(***************************************************************************)
(* logInPressed, registerPressed.  Bound: no more calls than there are     *)
(* chat screens left to open.                                              *)
(***************************************************************************)
formPressed(s, u) ==
  /\ form # "none"
  /\ stack = <<>>
  /\ Len(observers) + Cardinality(UnderWay) < Cardinality(Chats)
  /\ hud' = TRUE
  /\ Sent(s, form, u)
  /\ formCalls' = formCalls \cup {s}
  /\ UNCHANGED <<dbVars, form, stack, running, crash, rows, sending, sender>>

\* The completion block, given an error: it is printed, and the HUD stays.
FormFailed(s) == /\ Completed(s)
                 /\ calls[s].stage = "failed"
                 /\ formCalls' = formCalls \ {s}
                 /\ UNCHANGED <<dbVars, form, stack, running, crash, hud, rows,
                                sending, sender>>

\* goToChat pushes a chat screen, whose viewDidLoad calls retrieveMessages.
opensChat(v) == /\ v \notin Opened
                /\ stack' = Append(stack, v)
                /\ Observe(v)

(***************************************************************************)
(* The completion block, given a user.  When its form has been popped the  *)
(* push segue finds no navigation controller and raises.                   *)
(***************************************************************************)
FormSucceeded(s) ==
  /\ mainQueue # <<>>
  /\ s = Head(mainQueue)
  /\ calls[s].stage = "ok"
  /\ IF s \notin formCalls
     THEN Stop("noNavigation")
     ELSE /\ Completed(s)
          /\ hud' = FALSE
          /\ formCalls' = formCalls \ {s}
          /\ \E v \in Chats : opensChat(v)
          /\ UNCHANGED <<form, running, crash, rows, sending, sender>>

\* Mutant: the calls of a form that is gone can still push from it.
leaveFormInPart == /\ form # "none"
                   /\ stack = <<>>
                   /\ form' = "none"
                   /\ UNCHANGED <<authVars, dbVars, formCalls, stack, running, crash,
                                  hud, rows, sending, sender>>

\* The navigation bar's Back on the form.
leaveForm == /\ form # "none"
             /\ stack = <<>>
             /\ form' = "none"
             /\ formCalls' = {}
             /\ UNCHANGED <<authVars, dbVars, stack, running, crash, hud, rows,
                            sending, sender>>

-----------------------------------------------------------------------------
(* ChatViewController                                                      *)

OnTop(v) == stack # <<>> /\ v = stack[Len(stack)]

Popped == SubSeq(stack, 1, Len(stack) - 1)

\* The text field and the button are disabled until the message is saved.
sendPressed(v, k) == /\ OnTop(v)
                     /\ sending[v] = NoKey
                     /\ k \in Mine
                     /\ sending' = [sending EXCEPT ![v] = k]
                     /\ sender' = [sender EXCEPT ![k] = currentUser]
                     /\ SetValue(k)
                     /\ UNCHANGED <<authVars, form, formCalls, stack, running, crash,
                                    hud, rows>>

\* Mutant: the controls come back on an error and not on success.
sendCompletedSwapped(k, ok) ==
  /\ Delivered(Answered(k, ok))
  /\ sending' = IF ~ok
                THEN [v \in Chats |-> IF sending[v] = k THEN NoKey ELSE sending[v]]
                ELSE sending
  /\ UNCHANGED <<authVars, form, formCalls, stack, running, crash, hud, rows, sender>>

\* setValue's completion block: an error is only printed.
sendCompleted(k, ok) ==
  /\ Delivered(Answered(k, ok))
  /\ sending' = IF ok
                THEN [v \in Chats |-> IF sending[v] = k THEN NoKey ELSE sending[v]]
                ELSE sending
  /\ UNCHANGED <<authVars, form, formCalls, stack, running, crash, hud, rows, sender>>

(***************************************************************************)
(* retrieveMessages' block.  It unwraps the message's Sender by force, and *)
(* a message sent while nobody was signed in has none.                     *)
(***************************************************************************)
childAdded(v, k) ==
  IF sender[k] = Nobody
  THEN /\ events # <<>>
       /\ Head(events) = Added(v, k)
       /\ Stop("nilSender")
  ELSE /\ Delivered(Added(v, k))
       /\ rows' = [rows EXCEPT ![v] = Append(@, k)]
       /\ UNCHANGED <<authVars, form, formCalls, stack, running, crash, hud,
                      sending, sender>>

\* logOutPressed: on success the stack is popped to its root.
logOutPressed == /\ stack # <<>>
                 /\ SignedOut
                 /\ form' = "none"
                 /\ formCalls' = {}
                 /\ stack' = <<>>
                 /\ UNCHANGED <<dbVars, running, crash, hud, rows, sending, sender>>

\* The navigation bar's Back on a chat screen.
leaveChat == /\ stack # <<>>
             /\ stack' = Popped
             /\ UNCHANGED <<authVars, dbVars, form, formCalls, running, crash, hud,
                            rows, sending, sender>>

-----------------------------------------------------------------------------
(* The network, the libraries' queues and the other devices.               *)

Background(s) == /\ \/ ServerAccepts(s)
                    \/ CallFails(s)
                    \/ SignedIn(s)
                    \/ SignInFailed(s)
                 /\ UNCHANGED <<dbVars, chatVars>>

\* The database client asks for tokens once a chat screen has opened it.
ForcedSignOut == /\ Listening
                 /\ SignedOutByForce
                 /\ UNCHANGED <<dbVars, chatVars>>

Online == /\ Listening
          /\ Connect(currentUser # Nobody)
          /\ UNCHANGED <<authVars, chatVars>>

Offline == Disconnect /\ UNCHANGED <<authVars, chatVars>>

ServerSteps == (ServerReads \/ ServerAnswers) /\ UNCHANGED <<authVars, chatVars>>

ClientSteps == ClientReads /\ UNCHANGED <<authVars, chatVars>>

othersSend(k, u) ==
  /\ k \notin Mine
  /\ OthersPut(k)
  /\ sender' = [sender EXCEPT ![k] = u]
  /\ UNCHANGED <<authVars, form, formCalls, stack, running, crash, hud, rows, sending>>

Completion(s) == FormFailed(s) \/ FormSucceeded(s)

MainQueue == \E k \in Keys :
  \/ \E v \in Chats : childAdded(v, k)
  \/ \E ok \in BOOLEAN : sendCompleted(k, ok)

User == \/ Launch
        \/ Kill
        \/ \E kind \in {LOGIN, SIGNUP} : openForm(kind)
        \/ \E s \in Slots, u \in Users : formPressed(s, u)
        \/ leaveForm
        \/ \E v \in Chats, k \in Keys : sendPressed(v, k)
        \/ leaveChat
        \/ logOutPressed
        \/ \E k \in Keys, u \in Users : othersSend(k, u)

Next == \/ User
        \/ \E s \in Slots : Background(s) \/ Completion(s)
        \/ ForcedSignOut
        \/ Online
        \/ Offline
        \/ ServerSteps
        \/ ClientSteps
        \/ MainQueue

Spec == Init /\ [][Next]_vars

(***************************************************************************)
(* The client reconnects, the server reads and answers, the queues run     *)
(* what they hold, and from some time on the connection stays up.          *)
(***************************************************************************)
Fairness == /\ WF_vars(Online)
            /\ WF_vars(ServerSteps)
            /\ WF_vars(ClientSteps)
            /\ WF_vars(MainQueue)
            /\ \A s \in Slots : WF_vars(Background(s)) /\ WF_vars(Completion(s))

StableAtLast == <>[][~Offline]_vars

FairSpec == Spec /\ Fairness /\ StableAtLast

-----------------------------------------------------------------------------
(* Safety                                                                  *)

\* The rows screen v has of message k and the events for it in the queue.
RowsOf(v, k) == {i \in DOMAIN rows[v] : rows[v][i] = k}
EventsOf(v, k) == {i \in DOMAIN events : events[i] = Added(v, k)}

\* What screen v has been told.
ToldSet(v) == {k \in Keys : RowsOf(v, k) \cup EventsOf(v, k) # {}}

(***************************************************************************)
(* No screen shows a message twice, through any disconnection, resending   *)
(* and answer: the own message is added when it is sent, and neither the   *)
(* snapshot, the push nor the answer adds it again.                        *)
(***************************************************************************)
RowsUnique == \A v \in Chats, k \in Keys :
  Cardinality(RowsOf(v, k)) + Cardinality(EventsOf(v, k)) <= 1

\* The view is what the server sent, under the writes it has not answered.
ViewFollows == complete => eventCache = serverCache \cup Pending

(***************************************************************************)
(* Every screen is told of everything the view shows, and a message it     *)
(* shows that the view does not is a write the server refused: a ghost     *)
(* row, since the screen observes no removal.                              *)
(***************************************************************************)
GhostsRefused == \A v \in Opened :
  /\ eventCache \subseteq ToldSet(v)
  /\ \A k \in ToldSet(v) \ eventCache : status[k] = "refused"

Times(k) == Cardinality({i \in DOMAIN puts : puts[i] = k})
            + Cardinality({i \in DOMAIN putsToAck : putsToAck[i].key = k})

\* A pending write is held by the connection exactly once, to be sent again
\* or acknowledged, and nothing else is.
WritesOutstanding == \A k \in Keys : Times(k) = IF k \in Pending THEN 1 ELSE 0

\* A screen's controls are disabled only for a write still to be answered,
\* one refused, or one whose completion block is in the queue.
SendWaits == \A v \in Chats : sending[v] # NoKey =>
  \/ status[sending[v]] \in {"pending", "refused"}
  \/ \E i \in DOMAIN events : events[i] = Answered(sending[v], TRUE)

-----------------------------------------------------------------------------
(* Liveness                                                                *)

\* Every message in the room reaches every chat screen the process has.
MessageArrives == \A v \in Chats, k \in Keys :
  (v \in Opened /\ k \in messages) ~> (k \in ToldSet(v) \/ ~running)

\* A screen gets its controls back, unless the server refuses the message.
SendReturns == \A v \in Chats, k \in Keys :
  (sending[v] = k) ~> (sending[v] # k \/ status[k] = "refused")

-----------------------------------------------------------------------------
(* The client implements the chat room.                                    *)

Room == INSTANCE ChatRoom WITH room <- messages, Others <- Keys \ Mine

\* Writes are delivered at most once, and saved only if in the room.
ImplementsChatRoom == Room!Spec

-----------------------------------------------------------------------------
(* Refuted by the code                                                     *)

\* Every message in the room has a Sender, as retrieveMessages assumes.
SenderPresent == \A k \in messages : sender[k] # Nobody
=============================================================================
