---------------------------- MODULE AccountStore ----------------------------
(***************************************************************************)
(* What the auth server promises its callers: a map from emails to         *)
(* accounts in which an account appears in one step, with its password and *)
(* a user id of its own, and never changes or goes away; and answers that  *)
(* say what the map holds when they are given.  AuthServer, which takes    *)
(* three statements for an account and may die between any two, implements *)
(* it.                                                                     *)
(***************************************************************************)
CONSTANTS
    ShortPassword,   \* passwords too short to register with
    NoAnswer

VARIABLES
    store,    \* email -> [password, userId, seen]
    answer    \* the answer being given, or NoAnswer

Entry(password, userId, seen) == [password |-> password, userId |-> userId, seen |-> seen]

(* An account never loses what it was created with. *)
Register(email, password, userId) ==
    /\ email \notin DOMAIN store
    /\ password \notin ShortPassword
    /\ \A e \in DOMAIN store : store[e].userId # userId
    /\ store' = [e \in DOMAIN store \cup {email} |->
                    IF e = email THEN Entry(password, userId, FALSE) ELSE store[e]]
    /\ UNCHANGED answer

(* The account's user is marked as having logged in. *)
Mark(email) ==
    /\ store' = [store EXCEPT ![email] = Entry(@.password, @.userId, TRUE)]
    /\ UNCHANGED answer

Matches(request) ==
    /\ request.email \in DOMAIN store
    /\ store[request.email].password = request.password

Truthful(a) ==
    LET account == store[a.request.email] IN
    \/ a.what = "registered" /\ Matches(a.request) /\ account.userId = a.userId
    \/ a.what = "exists" /\ a.request.email \in DOMAIN store
    \/ a.what = "weakPassword" /\ a.request.email \notin DOMAIN store
                               /\ a.request.password \in ShortPassword
    \/ a.what = "loggedIn" /\ Matches(a.request) /\ account.seen
                           /\ account.userId = a.userId
    \/ a.what = "denied" /\ ~Matches(a.request)

Say ==
    /\ answer' # NoAnswer /\ Truthful(answer')
    /\ UNCHANGED store

Hush == answer' = NoAnswer /\ UNCHANGED store

StoreInit == store = [e \in {} |-> 0] /\ answer = NoAnswer

(* What an account is created with is in the step that creates it. *)
StoreNext ==
    \/ \E email \in DOMAIN store' \ DOMAIN store :
          Register(email, store'[email].password, store'[email].userId)
    \/ \E email \in DOMAIN store : Mark(email)
    \/ Say
    \/ Hush

StoreSpec == StoreInit /\ [][StoreNext]_<<store, answer>>
=============================================================================
