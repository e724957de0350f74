------------------------------- MODULE Accounts -------------------------------
(***************************************************************************)
(* Accounts and their pairing tokens.  An account is created by the setup  *)
(* screen, with the bootstrap token that the server prints, by open        *)
(* registration or by `recueil user create`; its pairing token is in       *)
(* Postgres, and a hash of it in D1, which the Worker looks up when a      *)
(* device pairs.  Each change is pushed to D1 once, best effort, and       *)
(* `recueil user resync` pushes all of them again.                         *)
(*                                                                         *)
(* Abstracted: hashing and encryption (a token is a number), sessions      *)
(* (module Sessions) and what a paired device does (module Queue).         *)
(***************************************************************************)
EXTENDS Naturals, FiniteSets

CONSTANTS
  Users,       \* user names
  Ops,         \* requests and commands that may overlap
  MaxTokens,   \* bound: pairing tokens
  MaxStarts,   \* bound: starts of the server
  MaxFaults,   \* bound: calls that fail, or whose answer is lost or late
  MaxResyncs,  \* bound
  None

ASSUME AccountsAssumption ==
  /\ MaxTokens \in Nat /\ MaxStarts \in Nat \ {0} /\ MaxFaults \in Nat /\ MaxResyncs \in Nat
  /\ None \notin Nat \cup Users \cup Ops

VARIABLES
  account,  \* users of Postgres: who made it, and its pairing token
  mirror,   \* users of D1: the pairing token, None: revoked; 0: no such row
  issued,   \* the pairing tokens made so far
  boot,     \* the server's BootstrapTokenHolder
  op,       \* local variables of each operation
  wire,     \* pushes that were given up and may still arrive
  faults, resyncs,
  drift,    \* history: accounts of which a push was lost, or two overlapped
  unsure    \* history: an account was created and its creator told it was not

vars == <<account, mirror, issued, boot, op, wire, faults, resyncs, drift, unsure>>

Tokens == 1..MaxTokens
Idle == [kind |-> "none", at |-> "idle", user |-> None, boot |-> 0, push |-> {}, alone |-> FALSE]
Pushes == [user : Users, token : Tokens \cup {None}]

Account == [by : {"setup", "other"}, token : Tokens \cup {None}]

ASSUME RowAssumption == None \notin Account

TypeOK ==
  /\ account \in [Users -> Account \cup {None}]
  /\ mirror \in [Users -> 0..MaxTokens \cup {None}]
  /\ issued \in 0..MaxTokens
  /\ boot \in [no : 1..MaxStarts, consumed : BOOLEAN, valid : BOOLEAN, lock : Ops \cup {None}]
  /\ op \in [Ops -> [kind : {"none", "setup", "other", "change", "resync"},
                     at : {"idle", "use", "create", "push"}, user : Users \cup {None},
                     boot : 0..MaxStarts, push : SUBSET Pushes, alone : BOOLEAN]]
  /\ wire \subseteq Pushes
  /\ faults \in 0..MaxFaults /\ resyncs \in 0..MaxResyncs
  /\ drift \subseteq Users /\ unsure \in BOOLEAN

\* newBootstrapHolder: a token for an hour; printed when there is no account.
Init ==
  /\ account = [u \in Users |-> None] /\ mirror = [u \in Users |-> 0]
  /\ issued = 0
  /\ boot = [no |-> 1, consumed |-> FALSE, valid |-> TRUE, lock |-> None]
  /\ op = [o \in Ops |-> Idle] /\ wire = {}
  /\ faults = 0 /\ resyncs = 0
  /\ drift = {} /\ unsure = FALSE

Accounts == {u \in Users : account[u] # None}
SetupAccounts == {u \in Accounts : account[u].by = "setup"}

-----------------------------------------------------------------------------
(* Pushes.                                                                 *)

\* Who is about to push, or has a push on the wire, for an account.
PushersOf(u) == {o \in Ops : \E p \in op[o].push : p.user = u}
Delayed(u) == \E p \in wire : p.user = u
Alone(users, o) == \A u \in users : PushersOf(u) \ {o} = {} /\ ~Delayed(u)

UsersOf(pushes) == {p.user : p \in pushes}

\* Operation o is about to push; what other operations push for the same accounts
\* may arrive before or after it.
WillPush(o, kind, pushes) ==
  LET users == UsersOf(pushes)
  IN op' = [q \in Ops |->
              IF q = o
              THEN [Idle EXCEPT !.kind = kind, !.at = IF pushes = {} THEN "idle" ELSE "push",
                      !.push = pushes, !.alone = Alone(users, o)]
              ELSE [op[q] EXCEPT !.alone = @ /\ \A p \in op[q].push : p.user \notin users]]

Sent(o, p) ==
  LET left == op[o].push \ {p} IN
  op' = [op EXCEPT ![o] = IF left = {} THEN Idle ELSE [@ EXCEPT !.push = left]]

\* Mutant: no hash is left out of the JSON, and the Worker keeps the one it has.
PushUserOmitsNull(o, p) ==
  /\ p \in op[o].push
  /\ mirror' = IF p.token = None THEN mirror ELSE [mirror EXCEPT ![p.user] = p.token]
  /\ drift' = IF op[o].alone THEN drift \ {p.user} ELSE drift \cup {p.user}
  /\ Sent(o, p)
  /\ UNCHANGED <<account, issued, boot, wire, faults, resyncs, unsure>>

\* PushUser; handleUserMirror's upsert.
PushUser(o, p) ==
  /\ p \in op[o].push
  /\ mirror' = [mirror EXCEPT ![p.user] = p.token]
  /\ drift' = IF op[o].alone THEN drift \ {p.user} ELSE drift \cup {p.user}
  /\ Sent(o, p)
  /\ UNCHANGED <<account, issued, boot, wire, faults, resyncs, unsure>>

\* A warning is logged: the push is lost, or arrives later.
PushFails(o, p) ==
  /\ faults < MaxFaults
  /\ faults' = faults + 1
  /\ p \in op[o].push
  /\ \/ UNCHANGED wire
     \/ wire' = wire \cup {p}
  /\ drift' = drift \cup {p.user}
  /\ Sent(o, p)
  /\ UNCHANGED <<account, mirror, issued, boot, resyncs, unsure>>

Arrive(p) ==
  /\ p \in wire
  /\ wire' = wire \ {p}
  /\ mirror' = [mirror EXCEPT ![p.user] = p.token]
  /\ drift' = drift \cup {p.user}
  /\ UNCHANGED <<account, issued, boot, op, faults, resyncs, unsure>>

-----------------------------------------------------------------------------
(* Creation.                                                               *)

\* Setup counts the accounts.
CountUsers(o) ==
  /\ op[o].at = "idle"
  /\ Accounts = {} /\ boot.valid
  /\ op' = [op EXCEPT ![o] = [Idle EXCEPT !.kind = "setup", !.at = "use", !.boot = boot.no]]
  /\ UNCHANGED <<account, mirror, issued, boot, wire, faults, resyncs, drift, unsure>>

\* Mutant: the token is checked before the lock is taken.
UseUnlocked(o) ==
  /\ op[o].at = "use"
  /\ op' = [op EXCEPT ![o] = IF boot.consumed \/ ~boot.valid THEN Idle ELSE [@ EXCEPT !.at = "create"]]
  /\ UNCHANGED <<account, mirror, issued, boot, wire, faults, resyncs, drift, unsure>>

\* BootstrapTokenHolder.Use: the lock is held until the account is created.
Use(o) ==
  /\ op[o].at = "use"
  /\ boot.lock = None
  /\ IF boot.consumed \/ ~boot.valid
     THEN op' = [op EXCEPT ![o] = Idle] /\ UNCHANGED boot
     ELSE op' = [op EXCEPT ![o].at = "create"] /\ boot' = [boot EXCEPT !.lock = o]
  /\ UNCHANGED <<account, mirror, issued, wire, faults, resyncs, drift, unsure>>

\* Register, and runUserCreate, which is not gated by enable_open_registration.
StartRegister(o) ==
  /\ op[o].at = "idle"
  /\ op' = [op EXCEPT ![o] = [Idle EXCEPT !.kind = "other", !.at = "create"]]
  /\ UNCHANGED <<account, mirror, issued, boot, wire, faults, resyncs, drift, unsure>>

Unlocked(o, success) ==
  IF op[o].kind = "setup" THEN [boot EXCEPT !.lock = None, !.consumed = @ \/ success] ELSE boot

\* CreateUser with a new pairing token; the bootstrap token is consumed.
CreateUser(o, u) ==
  /\ op[o].at = "create"
  /\ account[u] = None
  /\ issued < MaxTokens
  /\ issued' = issued + 1
  /\ account' = [account EXCEPT ![u] = [by |-> op[o].kind, token |-> issued']]
  /\ boot' = Unlocked(o, TRUE)
  /\ WillPush(o, op[o].kind, {[user |-> u, token |-> issued']})
  /\ UNCHANGED <<mirror, wire, faults, resyncs, drift, unsure>>

\* The name is taken, or the database failed, perhaps after the insert.
CreateFails(o) ==
  /\ op[o].at = "create"
  /\ \/ Accounts # {} /\ UNCHANGED <<account, issued, faults, drift, unsure>>
     \/ faults < MaxFaults /\ faults' = faults + 1 /\ UNCHANGED <<account, issued, drift, unsure>>
     \/ /\ faults < MaxFaults /\ faults' = faults + 1
        /\ issued < MaxTokens /\ issued' = issued + 1
        /\ \E u \in Users \ Accounts :
             /\ account' = [account EXCEPT ![u] = [by |-> op[o].kind, token |-> issued']]
             /\ drift' = drift \cup {u}
        /\ unsure' = TRUE
  /\ boot' = Unlocked(o, FALSE)
  /\ op' = [op EXCEPT ![o] = Idle]
  /\ UNCHANGED <<mirror, wire, resyncs>>

\* An hour has passed.
TokenExpires ==
  /\ boot.valid
  /\ boot' = [boot EXCEPT !.valid = FALSE]
  /\ UNCHANGED <<account, mirror, issued, op, wire, faults, resyncs, drift, unsure>>

\* The server is started again: its requests are gone, commands go on, and nobody has
\* seen the new token when there are accounts.
Restart ==
  /\ boot.no < MaxStarts
  /\ boot' = [no |-> boot.no + 1, consumed |-> FALSE, valid |-> Accounts = {}, lock |-> None]
  /\ LET gone == {o \in Ops : op[o].kind \in {"setup", "change"}}
     IN /\ drift' = drift \cup UNION {UsersOf(op[o].push) : o \in gone}
        /\ op' = [o \in Ops |-> IF o \in gone THEN Idle ELSE op[o]]
  /\ UNCHANGED <<account, mirror, issued, wire, faults, resyncs, unsure>>

-----------------------------------------------------------------------------
(* Changes.                                                                *)

Change(o, u, token) ==
  /\ op[o].at = "idle"
  /\ account[u] # None
  /\ account' = [account EXCEPT ![u].token = token]
  /\ WillPush(o, "change", {[user |-> u, token |-> token]})
  /\ UNCHANGED <<mirror, boot, wire, faults, resyncs, drift, unsure>>

RegeneratePairingToken(o, u) ==
  /\ issued < MaxTokens
  /\ issued' = issued + 1
  /\ Change(o, u, issued')

RevokePairingToken(o, u) == Change(o, u, None) /\ UNCHANGED issued

Listed == {[user |-> u, token |-> account[u].token] : u \in Accounts}

\* runUserResync: all accounts as they were listed, one push after another.
Resync(o) ==
  /\ op[o].at = "idle"
  /\ resyncs < MaxResyncs
  /\ resyncs' = resyncs + 1
  /\ WillPush(o, "resync", Listed)
  /\ UNCHANGED <<account, mirror, issued, boot, wire, faults, drift, unsure>>

Next ==
  \/ TokenExpires \/ Restart
  \/ \E p \in Pushes : Arrive(p)
  \/ \E o \in Ops :
       \/ CountUsers(o) \/ Use(o) \/ StartRegister(o) \/ CreateFails(o) \/ Resync(o)
       \/ \E u \in Users : CreateUser(o, u) \/ RegeneratePairingToken(o, u) \/ RevokePairingToken(o, u)
       \/ \E p \in Pushes : PushUser(o, p) \/ PushFails(o, p)

Spec == Init /\ [][Next]_vars

-----------------------------------------------------------------------------
\* Setup, BootstrapTokenHolder.Use: two requests that have both counted no account
\* do not both become administrators, and neither does one after a restart; unless
\* the first was told that it had failed.
OneSetup == unsure \/ Cardinality(SetupAccounts) <= 1

\* Setup, BootstrapTokenHolder.Use: the state is well typed, and the setup screen makes
\* one administrator, whatever requests overlap and restarts come.
SetupInv == TypeOK /\ OneSetup

\* PushUser, runUserResync: the Worker accepts the pairing token that the dashboard
\* shows, and none when it was revoked, as soon as all pushes have ended; unless one
\* was lost or two for that account overlapped, and no resync has run on its own since.
PairingMirrored ==
  \A u \in Accounts \ drift :
    PushersOf(u) = {} => mirror[u] = account[u].token
=============================================================================
