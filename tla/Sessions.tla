------------------------------- MODULE Sessions -------------------------------
(***************************************************************************)
(* Who is logged in: the sessions and API tokens of users, the requests    *)
(* they authenticate, and `recueil user reset-password`, which ends the    *)
(* sessions of a user from outside the server.                             *)
(*                                                                         *)
(* A request is authenticated first and acts later, with the user that it  *)
(* resolved to; a login compares the password first and makes its session  *)
(* later.  Abstracted: hashes, cookies (a credential is a number that is   *)
(* never used again), activity timestamps.                                 *)
(***************************************************************************)
EXTENDS Naturals, FiniteSets

CONSTANTS
  Users,
  Requests,   \* requests that may overlap
  MaxCreds,   \* bound: sessions and API tokens ever made
  MaxResets,  \* bound: password resets of a user
  None

VARIABLES
  password,  \* the number of resets of a user's password
  creds,     \* the rows of sessions and api_tokens that authenticate
  made,      \* the credentials ever made
  request,   \* what a request has resolved so far
  reset,     \* is a reset between its two statements?
  kept       \* history: users whose last reset could not delete their sessions

vars == <<password, creds, made, request, reset, kept>>

Cred == [id : 1..MaxCreds, user : Users, kind : {"session", "api"}, password : 0..MaxResets, late : BOOLEAN]
Idle == [at |-> "idle", user |-> None, password |-> 0, session |-> 0]

TypeOK ==
  /\ password \in [Users -> 0..MaxResets]
  /\ creds \subseteq Cred /\ made \in 0..MaxCreds
  /\ request \in [Requests -> [at : {"idle", "login", "request"}, user : Users \cup {None},
                               password : 0..MaxResets, session : 0..MaxCreds]]
  /\ reset \in [Users -> BOOLEAN]
  /\ kept \subseteq Users

Init ==
  /\ password = [u \in Users |-> 0]
  /\ creds = {} /\ made = 0
  /\ request = [r \in Requests |-> Idle]
  /\ reset = [u \in Users |-> FALSE]
  /\ kept = {}

End(r) == request' = [request EXCEPT ![r] = Idle]

-----------------------------------------------------------------------------
\* Login: VerifyPassword against the user's row.
VerifyPassword(r, u) ==
  /\ request[r].at = "idle"
  /\ request' = [request EXCEPT ![r] = [Idle EXCEPT !.at = "login", !.user = u, !.password = password[u]]]
  /\ UNCHANGED <<password, creds, made, reset, kept>>

Make(u, kind, pw) ==
  /\ made < MaxCreds
  /\ made' = made + 1
  /\ creds' = creds \cup {[id |-> made', user |-> u, kind |-> kind, password |-> pw, late |-> pw # password[u]]}

\* startSession: a failure is logged, and leaves no session.
StartSession(r) ==
  /\ request[r].at = "login"
  /\ \/ Make(request[r].user, "session", request[r].password)
     \/ UNCHANGED <<creds, made>>
  /\ End(r)
  /\ UNCHANGED <<password, reset, kept>>

\* resolveSession.  What an API token authenticates, /mcp, changes nothing.
RequireSession(r, c) ==
  /\ request[r].at = "idle"
  /\ c \in creds /\ c.kind = "session"
  /\ request' = [request EXCEPT ![r] = [at |-> "request", user |-> c.user, password |-> c.password,
                                         session |-> c.id]]
  /\ UNCHANGED <<password, creds, made, reset, kept>>

CreateAPIToken(r) ==
  /\ request[r].at = "request"
  /\ Make(request[r].user, "api", request[r].password)
  /\ End(r)
  /\ UNCHANGED <<password, reset, kept>>

\* A row of the user that is there still.
Revoke(r, kind, id) ==
  /\ request[r].at = "request"
  /\ creds' = {c \in creds : c.id # id \/ c.kind # kind \/ c.user # request[r].user}
  /\ End(r)
  /\ UNCHANGED <<password, made, reset, kept>>

RevokeAPIToken(r, id) == Revoke(r, "api", id)

\* The session of the request itself is refused.
DeleteSession(r, id) == id # request[r].session /\ Revoke(r, "session", id)

\* Logout needs no authentication; a session that has expired authenticates nobody.
Logout(c) ==
  /\ c \in creds /\ c.kind = "session"
  /\ creds' = creds \ {c}
  /\ UNCHANGED <<password, made, request, reset, kept>>

-----------------------------------------------------------------------------
\* runUserResetPassword: UpdateUserPassword.
UpdateUserPassword(u) ==
  /\ ~reset[u]
  /\ password[u] < MaxResets
  /\ password' = [password EXCEPT ![u] = @ + 1]
  /\ reset' = [reset EXCEPT ![u] = TRUE]
  /\ UNCHANGED <<creds, made, request, kept>>

\* Mutant: only one session of the user is deleted.
DeleteSessionsForUserOne(u) ==
  /\ reset[u]
  /\ reset' = [reset EXCEPT ![u] = FALSE]
  /\ \E c \in creds : c.user = u /\ creds' = creds \ {c}
  /\ UNCHANGED <<password, made, request, kept>>

\* DeleteSessionsForUser, which may fail with a warning.
DeleteSessionsForUser(u) ==
  /\ reset[u]
  /\ reset' = [reset EXCEPT ![u] = FALSE]
  /\ \/ creds' = {c \in creds : c.user # u \/ c.kind # "session"} /\ kept' = kept \ {u}
     \/ kept' = kept \cup {u} /\ UNCHANGED creds
  /\ UNCHANGED <<password, made, request>>

Next ==
  \/ \E r \in Requests :
       \/ \E u \in Users : VerifyPassword(r, u)
       \/ \E c \in creds : RequireSession(r, c)
       \/ StartSession(r) \/ CreateAPIToken(r)
       \/ \E id \in 1..MaxCreds : RevokeAPIToken(r, id) \/ DeleteSession(r, id)
  \/ \E c \in creds : Logout(c)
  \/ \E u \in Users : UpdateUserPassword(u) \/ DeleteSessionsForUser(u)

Spec == Init /\ [][Next]_vars

-----------------------------------------------------------------------------
\* runUserResetPassword: after a reset every session was made with the new password,
\* unless the deletion failed, or a login that had compared the old password before
\* the reset made its session after it.
ResetEndsSessions ==
  \A c \in creds :
    c.kind = "session" /\ c.password # password[c.user] => c.late \/ reset[c.user] \/ c.user \in kept
=============================================================================
