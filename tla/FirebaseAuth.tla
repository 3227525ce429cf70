---------------------------- MODULE FirebaseAuth ----------------------------
(***************************************************************************)
(* Email and password sign-in as FIRAuth runs it.  A call goes to the      *)
(* server; its answer is handled on the auth work queue, which saves the   *)
(* user in the keychain, makes it the current user and only then posts the *)
(* caller's completion block to the main queue.  Several calls can be      *)
(* under way, and each makes its own user current.                         *)
(***************************************************************************)
EXTENDS Accounts, Sequences

CONSTANT Slots  \* bound: calls that can be under way at the same time

VARIABLES registered,  \* the accounts the server has
          savedUser,   \* the user in the keychain
          currentUser, \* Auth.auth().currentUser
          calls,       \* the calls under way
          mainQueue,   \* completion blocks posted to the main queue, in order
          signedIn     \* users this launch has signed in (history)

authVars == <<registered, savedUser, currentUser, calls, mainQueue, signedIn>>

LOGIN == "Login"
SIGNUP == "Sign Up"

(***************************************************************************)
(* A call's stages: sent to the server; accepted or rejected, its answer   *)
(* not handled yet; ok or failed, its completion block in the main queue.  *)
(***************************************************************************)
Stages == {"sent", "accepted", "rejected", "ok", "failed"}
NoCall == [stage |-> "idle", kind |-> LOGIN, user |-> Nobody]
Call == {NoCall} \cup [stage : Stages, kind : {LOGIN, SIGNUP}, user : Users]

UnderWay == {s \in Slots : calls[s].stage # "idle"}

AuthTypeOK == /\ registered \in SUBSET Users
              /\ savedUser \in Users \cup {Nobody}
              /\ currentUser \in Users \cup {Nobody}
              /\ calls \in [Slots -> Call]
              /\ mainQueue \in Seq(Slots)
              /\ signedIn \in SUBSET Users

AuthInit == /\ registered = {}
            /\ savedUser = Nobody
            /\ currentUser = Nobody
            /\ calls = [s \in Slots |-> NoCall]
            /\ mainQueue = <<>>
            /\ signedIn = {}

-----------------------------------------------------------------------------
\* signIn(withEmail:) and createUser(withEmail:) only send the request.
Sent(s, kind, u) ==
  /\ calls[s].stage = "idle"
  /\ calls' = [calls EXCEPT ![s] = [stage |-> "sent", kind |-> kind, user |-> u]]
  /\ UNCHANGED <<registered, savedUser, currentUser, mainQueue, signedIn>>

(***************************************************************************)
(* The server signs in an account it has and creates one it does not have. *)
(***************************************************************************)
ServerAccepts(s) ==
  /\ calls[s].stage = "sent"
  /\ calls[s].kind = LOGIN <=> calls[s].user \in registered
  /\ registered' = registered \cup {calls[s].user}
  /\ calls' = [calls EXCEPT ![s].stage = "accepted"]
  /\ UNCHANGED <<savedUser, currentUser, mainQueue, signedIn>>

(***************************************************************************)
(* The call fails: a wrong password, an unknown or a taken account, or no  *)
(* connection, in which case an account may have been created all the same.*)
(***************************************************************************)
CallFails(s) ==
  /\ calls[s].stage \in {"sent", "accepted"}
  /\ calls' = [calls EXCEPT ![s].stage = "rejected"]
  /\ UNCHANGED <<registered, savedUser, currentUser, mainQueue, signedIn>>

Posted(s, stage) == /\ calls' = [calls EXCEPT ![s].stage = stage]
                    /\ mainQueue' = Append(mainQueue, s)

\* Mutant: the completion block is posted, the current user not yet set.
SignedInPostedFirst(s) ==
  /\ calls[s].stage = "accepted"
  /\ Posted(s, "ok")
  /\ UNCHANGED <<registered, savedUser, currentUser, signedIn>>

\* The decorated callback, on the work queue, given a user.
SignedIn(s) ==
  /\ calls[s].stage = "accepted"
  /\ savedUser' = calls[s].user
  /\ currentUser' = calls[s].user
  /\ signedIn' = signedIn \cup {calls[s].user}
  /\ Posted(s, "ok")
  /\ UNCHANGED registered

\* The decorated callback given an error, or a user the keychain rejects.
SignInFailed(s) ==
  /\ calls[s].stage \in {"rejected", "accepted"}
  /\ Posted(s, "failed")
  /\ UNCHANGED <<registered, savedUser, currentUser, signedIn>>

\* The head of the main queue runs: the caller's completion block.
Completed(s) ==
  /\ mainQueue # <<>>
  /\ s = Head(mainQueue)
  /\ mainQueue' = Tail(mainQueue)
  /\ calls' = [calls EXCEPT ![s] = NoCall]
  /\ UNCHANGED <<registered, savedUser, currentUser, signedIn>>

(***************************************************************************)
(* signOut(): the current user goes, and so does the saved one, unless the *)
(* keychain refuses, which is an error and leaves both.                    *)
(***************************************************************************)
SignedOut == /\ currentUser' = Nobody
             /\ savedUser' = IF currentUser = Nobody THEN savedUser ELSE Nobody
             /\ UNCHANGED <<registered, calls, mainQueue, signedIn>>

\* A token refresh finds the user disabled, deleted or expired: the current
\* user goes even if the keychain keeps it.
SignedOutByForce == /\ currentUser # Nobody
                    /\ currentUser' = Nobody
                    /\ savedUser' \in {savedUser, Nobody}
                    /\ UNCHANGED <<registered, calls, mainQueue, signedIn>>

\* The process is gone: calls and blocks with it, the keychain stays.
AuthStopped == /\ currentUser' = Nobody
               /\ calls' = [s \in Slots |-> NoCall]
               /\ mainQueue' = <<>>
               /\ signedIn' = {}
               /\ UNCHANGED <<registered, savedUser>>

\* FirebaseApp.configure(): FIRAuth loads the saved user, or cannot read it.
AuthLoaded == /\ currentUser' \in {savedUser, Nobody}
              /\ UNCHANGED <<registered, savedUser, calls, mainQueue, signedIn>>
=============================================================================
