----------------------------- MODULE ServerProofs -----------------------------
(* The proofs about the server's accounts and sessions, for any users,       *)
(* requests, commands and bounds: one setup, the Worker's pairing tokens     *)
(* and the end of old sessions; and about the normalization of URLs, for any *)
(* ruleset: nothing is left to remove, and the key is stable.                *)
EXTENDS MCServer, FiniteSetTheorems, WellFoundedInduction, TLAPS

-----------------------------------------------------------------------------
(* Accounts: the inductive invariant.                                      *)

\* What an operation does is of its kind, and it holds pushes only to push them.
KindsAgree ==
  \A o \in Ops :
    /\ op[o].at = "use" => op[o].kind = "setup"
    /\ op[o].at = "create" => op[o].kind \in {"setup", "other"}
    /\ op[o].at # "push" => op[o].push = {}

\* Until the instance is set up at most one request of the setup screen is about to
\* create the account, under the lock; afterwards the bootstrap token is of no use.
SetupAgrees ==
  unsure \/
    /\ \A o \in Ops : op[o].at = "create" /\ op[o].kind = "setup" => boot.lock = o /\ SetupAccounts = {}
    /\ boot.valid /\ ~boot.consumed => SetupAccounts = {}
    /\ \A u, v \in SetupAccounts : u = v

PushesKnown == \A o \in Ops : \A p \in op[o].push : p.user \in Accounts

\* An operation that is alone with the accounts it pushes, pushes their present tokens.
AloneAgrees ==
  \A o \in Ops : op[o].alone =>
    \A p \in op[o].push : p.token = account[p.user].token /\ PushersOf(p.user) = {o}

PushInv == PushesKnown /\ AloneAgrees /\ PairingMirrored
AccountsInv == TypeOK /\ KindsAgree /\ SetupAgrees /\ PushInv

-----------------------------------------------------------------------------
(* Accounts: types.                                                        *)

Op == [kind : {"none", "setup", "other", "change", "resync"}, at : {"idle", "use", "create", "push"},
       user : Users \cup {None}, boot : 0..MaxStarts, push : SUBSET Pushes, alone : BOOLEAN]

LEMMA IdleTyped == Idle \in Op /\ Idle.push = {} /\ Idle.at = "idle"
BY AccountsAssumption DEF Idle, Op

\* What starts and ends pushes keeps the operations typed.
LEMMA WillPushTyped ==
  ASSUME op \in [Ops -> Op], NEW o \in Ops, NEW kind \in {"setup", "other", "change", "resync"},
         NEW pushes \in SUBSET Pushes, WillPush(o, kind, pushes)
  PROVE  /\ op' \in [Ops -> Op]
         /\ op'[o].push = pushes /\ op'[o].kind = kind
         /\ op'[o].at = IF pushes = {} THEN "idle" ELSE "push"
         /\ op'[o].alone = Alone(UsersOf(pushes), o)
         /\ \A q \in Ops \ {o} :
              op'[q] = [op[q] EXCEPT !.alone = op[q].alone /\ \A p \in op[q].push : p.user \notin UsersOf(pushes)]
<1> DEFINE users == UsersOf(pushes)
           mine == [Idle EXCEPT !.kind = kind, !.at = IF pushes = {} THEN "idle" ELSE "push",
                      !.push = pushes, !.alone = Alone(users, o)]
           theirs(q) == [op[q] EXCEPT !.alone = op[q].alone /\ \A p \in op[q].push : p.user \notin users]
<1>1. op' = [q \in Ops |-> IF q = o THEN mine ELSE theirs(q)]
  BY DEF WillPush
<1>2. Alone(users, o) \in BOOLEAN
  BY DEF Alone
<1>3. /\ mine \in Op /\ mine.push = pushes /\ mine.kind = kind
      /\ mine.at = (IF pushes = {} THEN "idle" ELSE "push") /\ mine.alone = Alone(users, o)
  <2>1. Idle \in Op
    BY IdleTyped
  <2>2. (IF pushes = {} THEN "idle" ELSE "push") \in {"idle", "push"}
    OBVIOUS
  <2>3. QED
    BY <1>2, <2>1, <2>2 DEF Op
<1>4. ASSUME NEW q \in Ops PROVE theirs(q) \in Op
  <2>1. op[q] \in Op
    OBVIOUS
  <2>2. (op[q].alone /\ \A p \in op[q].push : p.user \notin users) \in BOOLEAN
    OBVIOUS
  <2>3. QED
    BY <2>1, <2>2 DEF Op
<1> HIDE DEF mine, theirs
<1>5. op' \in [Ops -> Op] /\ op'[o] = mine /\ \A q \in Ops \ {o} : op'[q] = theirs(q)
  BY <1>1, <1>3, <1>4
<1>6. QED
  BY <1>3, <1>5 DEF theirs

LEMMA SentTyped ==
  ASSUME op \in [Ops -> Op], NEW o \in Ops, NEW p \in op[o].push, Sent(o, p)
  PROVE  /\ op' \in [Ops -> Op]
         /\ op'[o].push = op[o].push \ {p}
         /\ op'[o] = Idle \/ (op'[o].alone = op[o].alone /\ op'[o].kind = op[o].kind /\ op'[o].at = op[o].at)
         /\ \A q \in Ops \ {o} : op'[q] = op[q]
<1> DEFINE rest == [op[o] EXCEPT !.push = op[o].push \ {p}]
<1>1. op[o] \in Op
  OBVIOUS
<1>2. rest \in Op /\ rest.push = op[o].push \ {p} /\ rest.alone = op[o].alone /\ rest.kind = op[o].kind /\ rest.at = op[o].at
  BY <1>1 DEF Op
<1>3. op' = [op EXCEPT ![o] = IF op[o].push \ {p} = {} THEN Idle ELSE rest]
  BY DEF Sent
<1> HIDE DEF rest
<1>4. op'[o] = (IF op[o].push \ {p} = {} THEN Idle ELSE rest) /\ \A q \in Ops \ {o} : op'[q] = op[q]
  BY <1>3
<1>5. QED
  BY <1>2, <1>3, <1>4, IdleTyped

\* The kinds of steps, with the nesting of Next taken apart.
LEMMA AccountsKinds ==
  ASSUME [Next]_vars
  PROVE  \/ TokenExpires \/ Restart \/ UNCHANGED vars
         \/ \E p \in Pushes : Arrive(p)
         \/ \E o \in Ops : CountUsers(o) \/ Use(o) \/ StartRegister(o)
         \/ \E o \in Ops : CreateFails(o)
         \/ \E o \in Ops : Resync(o)
         \/ \E o \in Ops, u \in Users : CreateUser(o, u)
         \/ \E o \in Ops, u \in Users : RegeneratePairingToken(o, u) \/ RevokePairingToken(o, u)
         \/ \E o \in Ops, p \in Pushes : PushUser(o, p)
         \/ \E o \in Ops, p \in Pushes : PushFails(o, p)
BY DEF Next

\* A change gives an account a token, and pushes that.
LEMMA ChangeKinds ==
  ASSUME TypeOK, NEW o \in Ops, NEW u \in Users, RegeneratePairingToken(o, u) \/ RevokePairingToken(o, u)
  PROVE  \E token \in Tokens \cup {None} :
           /\ op[o].at = "idle" /\ account[u] # None
           /\ account' = [account EXCEPT ![u].token = token]
           /\ WillPush(o, "change", {[user |-> u, token |-> token]})
           /\ issued' \in 0..MaxTokens
           /\ UNCHANGED <<mirror, boot, wire, faults, resyncs, drift, unsure>>
<1>1. CASE RegeneratePairingToken(o, u)
  <2>1. issued' \in Tokens /\ issued' \in 0..MaxTokens
    BY <1>1, AccountsAssumption DEF RegeneratePairingToken, TypeOK, Tokens
  <2>2. QED
    BY <1>1, <2>1 DEF RegeneratePairingToken, Change
<1>2. CASE RevokePairingToken(o, u)
  BY <1>2 DEF RevokePairingToken, Change, TypeOK
<1>3. QED
  BY <1>1, <1>2

\* The rows after an account was created, or its token changed.
LEMMA AccountWritten ==
  ASSUME TypeOK, NEW u \in Users, NEW row \in Account, account' = [account EXCEPT ![u] = row]
  PROVE  /\ account' \in [Users -> Account \cup {None}]
         /\ account'[u] = row /\ \A v \in Users \ {u} : account'[v] = account[v]
         /\ Accounts' = Accounts \cup {u}
BY RowAssumption DEF TypeOK, Accounts

Boot == [no : 1..MaxStarts, consumed : BOOLEAN, valid : BOOLEAN, lock : Ops \cup {None}]

LEMMA UnlockedTyped ==
  ASSUME boot \in Boot, NEW o \in Ops, NEW success \in BOOLEAN
  PROVE  Unlocked(o, success) \in Boot
<1>1. (boot.consumed \/ success) \in BOOLEAN
  OBVIOUS
<1>2. QED
  BY <1>1 DEF Unlocked, Boot

LEMMA AccountsTypeStep == TypeOK /\ KindsAgree /\ [Next]_vars => TypeOK'
<1> SUFFICES ASSUME TypeOK, KindsAgree, [Next]_vars PROVE TypeOK'
  OBVIOUS
<1> USE AccountsAssumption
<1>0. op \in [Ops -> Op] /\ boot \in Boot /\ faults \in 0..MaxFaults
  BY DEF TypeOK, Op, Boot
<1>1. CASE TokenExpires \/ Restart
  <2>1. boot' \in Boot
    <3>1. boot.no \in 1..MaxStarts /\ (Accounts = {}) \in BOOLEAN
      BY <1>0 DEF Boot
    <3>2. CASE TokenExpires
      BY <1>0, <3>2 DEF TokenExpires, Boot
    <3>3. CASE Restart
      <4>1. boot.no + 1 \in 1..MaxStarts
        BY <3>1, <3>3 DEF Restart
      <4>2. QED
        BY <3>1, <3>3, <4>1 DEF Restart, Boot
    <3>4. QED
      BY <1>1, <3>2, <3>3
  <2>2. op' \in [Ops -> Op]
    BY <1>0, <1>1, IdleTyped DEF TokenExpires, Restart
  <2>3. drift' \subseteq Users
    <3>1. CASE TokenExpires
      BY <3>1 DEF TokenExpires, TypeOK
    <3>2. CASE Restart
      <4>1. \A o \in Ops : \A p \in op[o].push : p.user \in Users
        BY <1>0 DEF Op, Pushes
      <4>2. QED
        BY <3>2, <4>1 DEF Restart, TypeOK, UsersOf
    <3>3. QED
      BY <1>1, <3>1, <3>2
  <2>4. QED
    BY <1>1, <2>1, <2>2, <2>3 DEF TokenExpires, Restart, TypeOK, Op, Boot
<1>2. ASSUME NEW p \in Pushes, Arrive(p) PROVE TypeOK'
  <2>1. p.user \in Users /\ p.token \in 0..MaxTokens \cup {None}
    BY DEF Pushes, Tokens
  <2>2. QED
    BY <1>2, <2>1 DEF Arrive, TypeOK
<1>3. ASSUME NEW o \in Ops, CountUsers(o) \/ Use(o) \/ StartRegister(o) PROVE TypeOK'
  <2>1. boot' \in Boot
    BY <1>0, <1>3 DEF CountUsers, Use, StartRegister, Boot
  <2>2. op' \in [Ops -> Op]
    <3>1. [Idle EXCEPT !.kind = "setup", !.at = "use", !.boot = boot.no] \in Op
      <4>1. boot.no \in 0..MaxStarts
        BY <1>0 DEF Boot
      <4>2. QED
        BY <4>1, IdleTyped DEF Op
    <3>2. [Idle EXCEPT !.kind = "other", !.at = "create"] \in Op
      BY IdleTyped DEF Op
    <3>3. [op[o] EXCEPT !.at = "create"] \in Op
      <4>1. op[o] \in Op
        BY <1>0
      <4>2. QED
        BY <4>1 DEF Op
    <3>4. op' \in {op, [op EXCEPT ![o] = Idle], [op EXCEPT ![o].at = "create"],
                   [op EXCEPT ![o] = [Idle EXCEPT !.kind = "setup", !.at = "use", !.boot = boot.no]],
                   [op EXCEPT ![o] = [Idle EXCEPT !.kind = "other", !.at = "create"]]}
      BY <1>3 DEF CountUsers, Use, StartRegister
    <3>5. QED
      BY <1>0, <3>1, <3>2, <3>3, <3>4, IdleTyped
  <2>3. QED
    BY <1>3, <2>1, <2>2 DEF CountUsers, Use, StartRegister, TypeOK, Op, Boot
<1>4. ASSUME NEW o \in Ops, CreateFails(o) PROVE TypeOK'
  <2>1. op[o].kind \in {"setup", "other"}
    BY <1>4 DEF CreateFails, KindsAgree
  <2>2. op' \in [Ops -> Op] /\ boot' \in Boot
    BY <1>0, <1>4, IdleTyped, UnlockedTyped DEF CreateFails
  <2>3. CASE UNCHANGED <<account, issued, drift, unsure>> /\ faults' \in {faults, faults + 1} /\ (faults' # faults => faults < MaxFaults)
    <3>1. faults' \in 0..MaxFaults
      BY <1>0, <2>3
    <3>2. UNCHANGED <<mirror, wire, resyncs>>
      BY <1>4 DEF CreateFails
    <3>3. QED
      BY <2>2, <2>3, <3>1, <3>2 DEF TypeOK, Op, Boot
  <2>4. CASE /\ faults < MaxFaults /\ faults' = faults + 1
             /\ issued < MaxTokens /\ issued' = issued + 1
             /\ \E u \in Users \ Accounts :
                  /\ account' = [account EXCEPT ![u] = [by |-> op[o].kind, token |-> issued']]
                  /\ drift' = drift \cup {u}
             /\ unsure' = TRUE
    <3>1. issued' \in Tokens /\ issued' \in 0..MaxTokens
      BY <2>4 DEF TypeOK, Tokens
    <3>2. [by |-> op[o].kind, token |-> issued'] \in Account
      BY <2>1, <3>1 DEF Account
    <3>3. account' \in [Users -> Account \cup {None}] /\ drift' \subseteq Users
      BY <2>4, <3>2, AccountWritten DEF TypeOK
    <3>4. faults' \in 0..MaxFaults
      BY <1>0, <2>4
    <3>5. UNCHANGED <<mirror, wire, resyncs>>
      BY <1>4 DEF CreateFails
    <3>6. QED
      BY <2>2, <2>4, <3>1, <3>3, <3>4, <3>5 DEF TypeOK, Op, Boot
  <2>5. QED
    BY <1>4, <2>3, <2>4 DEF CreateFails
<1>5. ASSUME NEW o \in Ops, Resync(o) PROVE TypeOK'
  <2>1. Listed \in SUBSET Pushes
    BY DEF Listed, Accounts, Pushes, TypeOK, Account
  <2>2. op' \in [Ops -> Op]
    BY <1>0, <1>5, <2>1, WillPushTyped DEF Resync
  <2>3. QED
    BY <1>5, <2>2 DEF Resync, TypeOK, Op
<1>6. ASSUME NEW o \in Ops, NEW u \in Users, CreateUser(o, u) PROVE TypeOK'
  <2>1. op[o].kind \in {"setup", "other"}
    BY <1>6 DEF CreateUser, KindsAgree
  <2>2. issued' \in Tokens /\ issued' \in 0..MaxTokens
    BY <1>6 DEF CreateUser, TypeOK, Tokens
  <2>3. account' \in [Users -> Account \cup {None}]
    BY <1>6, <2>1, <2>2, AccountWritten DEF CreateUser, Account
  <2>4. {[user |-> u, token |-> issued']} \in SUBSET Pushes
    BY <2>2 DEF Pushes
  <2>5. op' \in [Ops -> Op] /\ boot' \in Boot
    BY <1>0, <1>6, <2>1, <2>4, WillPushTyped, UnlockedTyped DEF CreateUser
  <2>6. QED
    BY <1>6, <2>2, <2>3, <2>5 DEF CreateUser, TypeOK, Op, Boot
<1>7. ASSUME NEW o \in Ops, NEW u \in Users, RegeneratePairingToken(o, u) \/ RevokePairingToken(o, u) PROVE TypeOK'
  <2>1. PICK token \in Tokens \cup {None} :
          /\ op[o].at = "idle" /\ account[u] # None
          /\ account' = [account EXCEPT ![u].token = token]
          /\ WillPush(o, "change", {[user |-> u, token |-> token]})
          /\ issued' \in 0..MaxTokens
          /\ UNCHANGED <<mirror, boot, wire, faults, resyncs, drift, unsure>>
    BY <1>7, ChangeKinds
  <2>2. account' \in [Users -> Account \cup {None}]
    BY <2>1 DEF TypeOK, Account
  <2>3. {[user |-> u, token |-> token]} \in SUBSET Pushes
    BY DEF Pushes
  <2>4. op' \in [Ops -> Op]
    BY <1>0, <2>1, <2>3, WillPushTyped
  <2>5. QED
    BY <2>1, <2>2, <2>4 DEF TypeOK, Op
<1>8. ASSUME NEW o \in Ops, NEW p \in Pushes, PushUser(o, p) PROVE TypeOK'
  <2>1. p.user \in Users /\ p.token \in 0..MaxTokens \cup {None}
    BY DEF Pushes, Tokens
  <2>2. op' \in [Ops -> Op]
    BY <1>0, <1>8, SentTyped DEF PushUser
  <2>3. QED
    BY <1>8, <2>1, <2>2 DEF PushUser, TypeOK, Op
<1>9. ASSUME NEW o \in Ops, NEW p \in Pushes, PushFails(o, p) PROVE TypeOK'
  <2>1. p.user \in Users
    BY DEF Pushes
  <2>2. op' \in [Ops -> Op]
    BY <1>0, <1>9, SentTyped DEF PushFails
  <2>3. QED
    BY <1>9, <2>1, <2>2 DEF PushFails, TypeOK, Op
<1>10. CASE UNCHANGED vars
  BY <1>10 DEF vars, TypeOK
<1>11. QED
  BY <1>1, <1>2, <1>3, <1>4, <1>5, <1>6, <1>7, <1>8, <1>9, <1>10, AccountsKinds

-----------------------------------------------------------------------------
(* Accounts: pushes.                                                       *)

OpsTyped == op \in [Ops -> Op]

LEMMA TypeOfOps == TypeOK => OpsTyped
BY DEF TypeOK, OpsTyped, Op

\* No push begins or ends, and an account that is new is one whose push was lost.
LEMMA PushesStay ==
  ASSUME PushInv, UNCHANGED mirror,
         \A o \in Ops : op'[o].push = op[o].push /\ (op'[o].alone /\ op'[o].push # {} => op[o].alone),
         \A u \in Accounts : account'[u] = account[u], Accounts \subseteq Accounts',
         drift \subseteq drift', Accounts' \ Accounts \subseteq drift'
  PROVE  PushInv'
<1>1. \A u : PushersOf(u)' = PushersOf(u)
  BY DEF PushersOf
<1>2. PushesKnown'
  BY DEF PushInv, PushesKnown
<1>3. AloneAgrees'
  BY <1>1 DEF PushInv, PushesKnown, AloneAgrees
<1>4. PairingMirrored'
  BY <1>1 DEF PushInv, PairingMirrored
<1>5. QED
  BY <1>2, <1>3, <1>4 DEF PushInv

\* Pushes begin, of the present tokens; an operation that had been alone with one of
\* the accounts is so no longer.
LEMMA PushesStart ==
  ASSUME OpsTyped, PushInv, UNCHANGED <<mirror, drift>>, NEW o \in Ops, op[o].push = {},
         NEW kind \in {"setup", "other", "change", "resync"}, NEW pushes \in SUBSET Pushes,
         WillPush(o, kind, pushes), Accounts \subseteq Accounts',
         \A p \in pushes : p.user \in Accounts' /\ p.token = account'[p.user].token,
         \A u \in Users \ UsersOf(pushes) : account'[u] = account[u]
  PROVE  PushInv'
<1> DEFINE users == UsersOf(pushes)
<1>1. /\ op'[o].push = pushes /\ op'[o].alone = Alone(users, o)
      /\ \A q \in Ops \ {o} : op'[q] = [op[q] EXCEPT !.alone = op[q].alone /\ \A p \in op[q].push : p.user \notin users]
  <2>1. op \in [Ops -> Op]
    BY DEF OpsTyped
  <2>2. QED
    BY <2>1, WillPushTyped
<1>2. ASSUME NEW q \in Ops \ {o}
      PROVE  /\ op'[q].push = op[q].push
             /\ op'[q].alone => op[q].alone /\ \A p \in op[q].push : p.user \notin users
  <2>1. op[q] \in Op
    BY DEF OpsTyped
  <2>2. QED
    BY <1>1, <2>1 DEF Op
<1>3. \A q \in Ops : \A p \in op[q].push : p.user \in Users
  <2>1. \A q \in Ops : op[q].push \subseteq Pushes
    BY DEF OpsTyped, Op
  <2>2. QED
    BY <2>1 DEF Pushes
<1>4. \A u : PushersOf(u)' = IF u \in users THEN PushersOf(u) \cup {o} ELSE PushersOf(u)
  BY <1>1, <1>2 DEF PushersOf, UsersOf
<1>5. PushesKnown'
  BY <1>1, <1>2 DEF PushInv, PushesKnown
<1>6. AloneAgrees'
  <2> SUFFICES ASSUME NEW q \in Ops, op'[q].alone, NEW p \in op'[q].push
               PROVE  p.token = account'[p.user].token /\ PushersOf(p.user)' = {q}
    BY DEF AloneAgrees
  <2>1. CASE q = o
    <3>1. PushersOf(p.user) \ {o} = {}
      BY <1>1, <2>1 DEF Alone, UsersOf
    <3>2. QED
      BY <1>1, <1>4, <2>1, <3>1 DEF UsersOf
  <2>2. CASE q # o
    <3>1. op[q].alone /\ p \in op[q].push /\ p.user \notin users
      BY <1>2, <2>2
    <3>2. QED
      BY <1>3, <1>4, <3>1 DEF PushInv, AloneAgrees
  <2>3. QED
    BY <2>1, <2>2
<1>7. PairingMirrored'
  <2> SUFFICES ASSUME NEW u \in Accounts', u \notin drift, PushersOf(u)' = {}
               PROVE  mirror[u] = account'[u].token
    BY DEF PairingMirrored
  <2>1. u \notin users /\ PushersOf(u) = {}
    BY <1>4
  <2>2. u \in Users /\ account'[u] = account[u] /\ u \in Accounts
    BY <2>1 DEF Accounts
  <2>3. QED
    BY <2>1, <2>2 DEF PushInv, PairingMirrored
<1>8. QED
  BY <1>5, <1>6, <1>7 DEF PushInv

\* A push ends: it landed alone with the present token, or the account drifts.
LEMMA PushEnds ==
  ASSUME OpsTyped, PushInv, UNCHANGED account, NEW o \in Ops, NEW p \in op[o].push, Sent(o, p),
         \A u \in Users \ {p.user} : mirror'[u] = mirror[u],
         drift \ {p.user} \subseteq drift',
         p.user \notin drift' => op[o].alone /\ mirror'[p.user] = p.token
  PROVE  PushInv'
<1>1. /\ op'[o].push = op[o].push \ {p}
      /\ op'[o].push # {} => op'[o].alone = op[o].alone
      /\ \A q \in Ops \ {o} : op'[q] = op[q]
  BY SentTyped, IdleTyped DEF OpsTyped
<1>2. \A q \in Ops : op'[q].push \subseteq op[q].push /\ (op'[q].push # {} => op'[q].alone = op[q].alone)
  BY <1>1
<1>3. Accounts' = Accounts
  BY DEF Accounts
<1>4. PushesKnown'
  BY <1>2, <1>3 DEF PushInv, PushesKnown
<1>5. \A u : PushersOf(u)' \subseteq PushersOf(u)
  BY <1>2 DEF PushersOf
<1>6. AloneAgrees'
  <2> SUFFICES ASSUME NEW q \in Ops, op'[q].alone, NEW r \in op'[q].push
               PROVE  r.token = account[r.user].token /\ PushersOf(r.user)' = {q}
    BY DEF AloneAgrees
  <2>1. op[q].alone /\ r \in op[q].push
    BY <1>2
  <2>2. q \in PushersOf(r.user)'
    BY DEF PushersOf
  <2>3. QED
    BY <1>5, <2>1, <2>2 DEF PushInv, AloneAgrees
<1>7. PairingMirrored'
  <2> SUFFICES ASSUME NEW u \in Accounts, u \notin drift', PushersOf(u)' = {}
               PROVE  mirror'[u] = account[u].token
    BY <1>3 DEF PairingMirrored
  <2>1. CASE u = p.user
    BY <2>1 DEF PushInv, AloneAgrees
  <2>2. CASE u # p.user
    <3>1. PushersOf(u)' = PushersOf(u)
      BY <1>1, <2>2 DEF PushersOf
    <3>2. QED
      BY <2>2, <3>1 DEF PushInv, PairingMirrored, Accounts
  <2>3. QED
    BY <2>1, <2>2
<1>8. QED
  BY <1>4, <1>6, <1>7 DEF PushInv

-----------------------------------------------------------------------------
(* Accounts: the steps.                                                    *)

Rest == KindsAgree /\ SetupAgrees /\ PushInv

\* A step that makes no account, and lets no setup go on to create one.
LEMMA SetupStays ==
  ASSUME SetupAgrees, SetupAccounts' = SetupAccounts, UNCHANGED <<boot, unsure>>,
         \A o \in Ops : op'[o].at = "create" /\ op'[o].kind = "setup" => op[o].at = "create" /\ op[o].kind = "setup"
  PROVE  SetupAgrees'
BY DEF SetupAgrees

LEMMA TokenExpiresStep == AccountsInv /\ TokenExpires => Rest'
<1> SUFFICES ASSUME AccountsInv, TokenExpires PROVE Rest'
  OBVIOUS
<1>1. boot'.valid = FALSE /\ boot'.lock = boot.lock /\ UNCHANGED <<account, mirror, op, drift, unsure>>
  BY DEF TokenExpires, AccountsInv, TypeOK
<1>2. UNCHANGED <<Accounts, SetupAccounts>>
  BY <1>1 DEF Accounts, SetupAccounts
<1>3. KindsAgree'
  BY <1>1 DEF AccountsInv, KindsAgree
<1>4. SetupAgrees'
  BY <1>1, <1>2 DEF AccountsInv, SetupAgrees
<1>5. PushInv'
  BY <1>1, <1>2, PushesStay DEF AccountsInv
<1>6. QED
  BY <1>3, <1>4, <1>5 DEF Rest

\* The server's requests end, and what they were about to push is lost; the new
\* bootstrap token is of no use when there is an account.
LEMMA RestartStep == AccountsInv /\ Restart => Rest'
<1> SUFFICES ASSUME AccountsInv, Restart PROVE Rest'
  OBVIOUS
<1> DEFINE gone == {o \in Ops : op[o].kind \in {"setup", "change"}}
<1>1. /\ UNCHANGED <<account, mirror, unsure>> /\ boot'.valid = (Accounts = {})
      /\ drift' = drift \cup UNION {UsersOf(op[o].push) : o \in gone}
      /\ \A o \in Ops : op'[o] = IF o \in gone THEN Idle ELSE op[o]
  BY DEF Restart
<1>2. UNCHANGED <<Accounts, SetupAccounts>>
  BY <1>1 DEF Accounts, SetupAccounts
<1>3. KindsAgree'
  BY <1>1, IdleTyped DEF AccountsInv, KindsAgree
<1>4. SetupAgrees'
  <2>1. \A o \in Ops : ~(op'[o].at = "create" /\ op'[o].kind = "setup")
    BY <1>1, IdleTyped
  <2>2. Accounts = {} => SetupAccounts = {}
    BY DEF SetupAccounts
  <2>3. QED
    BY <1>1, <1>2, <2>1, <2>2 DEF AccountsInv, SetupAgrees
<1>5. PushesKnown'
  BY <1>1, <1>2, IdleTyped DEF AccountsInv, PushInv, PushesKnown
<1>6. AloneAgrees'
  <2> SUFFICES ASSUME NEW o \in Ops, op'[o].alone, NEW p \in op'[o].push
               PROVE  p.token = account[p.user].token /\ PushersOf(p.user)' = {o}
    BY <1>1 DEF AloneAgrees
  <2>1. op'[o] = op[o]
    BY <1>1, IdleTyped
  <2>2. PushersOf(p.user)' \subseteq PushersOf(p.user) /\ o \in PushersOf(p.user)'
    BY <1>1, IdleTyped DEF PushersOf
  <2>3. QED
    BY <2>1, <2>2 DEF AccountsInv, PushInv, AloneAgrees
<1>7. PairingMirrored'
  <2> SUFFICES ASSUME NEW u \in Accounts, u \notin drift', PushersOf(u)' = {}
               PROVE  mirror[u] = account[u].token
    BY <1>1, <1>2 DEF PairingMirrored
  <2>1. PushersOf(u) \subseteq PushersOf(u)'
    <3>1. \A o \in gone : \A p \in op[o].push : p.user \in drift'
      BY <1>1 DEF UsersOf
    <3>2. QED
      BY <1>1, <3>1 DEF PushersOf
  <2>2. QED
    BY <1>1, <2>1 DEF AccountsInv, PushInv, PairingMirrored
<1>8. QED
  BY <1>3, <1>4, <1>5, <1>6, <1>7 DEF Rest, PushInv

\* A push that was given up arrives after all.
LEMMA ArriveStep == AccountsInv /\ (\E p \in Pushes : Arrive(p)) => Rest'
<1> SUFFICES ASSUME AccountsInv, NEW p \in Pushes, Arrive(p) PROVE Rest'
  OBVIOUS
<1>1. /\ UNCHANGED <<account, boot, op, unsure>> /\ drift' = drift \cup {p.user}
      /\ \A u \in Users \ {p.user} : mirror'[u] = mirror[u]
  BY DEF Arrive, AccountsInv, TypeOK
<1>2. UNCHANGED <<Accounts, SetupAccounts>> /\ \A u : UNCHANGED PushersOf(u)
  BY <1>1 DEF Accounts, SetupAccounts, PushersOf
<1>3. KindsAgree'
  BY <1>1 DEF AccountsInv, KindsAgree
<1>4. SetupAgrees'
  BY <1>1, <1>2, SetupStays DEF AccountsInv
<1>5. PushesKnown' /\ AloneAgrees'
  BY <1>1, <1>2 DEF AccountsInv, PushInv, PushesKnown, AloneAgrees
<1>6. PairingMirrored'
  BY <1>1, <1>2 DEF AccountsInv, PushInv, PairingMirrored, Accounts
<1>7. QED
  BY <1>3, <1>4, <1>5, <1>6 DEF Rest, PushInv

\* The lock: two requests that have both counted no account do not both go on.
LEMMA SetupSteps == AccountsInv /\ (\E o \in Ops : CountUsers(o) \/ Use(o) \/ StartRegister(o)) => Rest'
<1> SUFFICES ASSUME AccountsInv, NEW o \in Ops, CountUsers(o) \/ Use(o) \/ StartRegister(o) PROVE Rest'
  OBVIOUS
<1> DEFINE counted == [Idle EXCEPT !.kind = "setup", !.at = "use", !.boot = boot.no]
           registers == [Idle EXCEPT !.kind = "other", !.at = "create"]
<1>0. op \in [Ops -> Op] /\ boot \in Boot
  BY DEF AccountsInv, TypeOK, Op, Boot
<1>1. op[o].push = {} /\ UNCHANGED <<account, mirror, drift, unsure>>
  BY DEF AccountsInv, KindsAgree, CountUsers, Use, StartRegister
<1>2. UNCHANGED <<Accounts, SetupAccounts>>
  BY <1>1 DEF Accounts, SetupAccounts
<1>3. /\ \A q \in Ops \ {o} : op'[q] = op[q]
      /\ op'[o].push = {}
      /\ op'[o].at = "use" => op'[o].kind = "setup"
      /\ op'[o].at = "create" => op'[o].kind \in {"setup", "other"}
  <2>1. CASE CountUsers(o)
    <3>1. op'[o] = counted /\ \A q \in Ops \ {o} : op'[q] = op[q]
      BY <1>0, <2>1 DEF CountUsers
    <3>2. QED
      BY <3>1 DEF Idle
  <2>2. CASE StartRegister(o)
    <3>1. op'[o] = registers /\ \A q \in Ops \ {o} : op'[q] = op[q]
      BY <1>0, <2>2 DEF StartRegister
    <3>2. QED
      BY <3>1 DEF Idle
  <2>3. CASE Use(o)
    <3>1. op'[o] \in {Idle, [op[o] EXCEPT !.at = "create"]} /\ \A q \in Ops \ {o} : op'[q] = op[q]
      BY <1>0, <2>3 DEF Use
    <3>2. op[o] \in Op /\ op[o].kind = "setup"
      BY <1>0, <2>3 DEF Use, AccountsInv, KindsAgree
    <3>3. QED
      BY <1>1, <3>1, <3>2, IdleTyped DEF Op
  <2>4. QED
    BY <2>1, <2>2, <2>3
<1>4. KindsAgree'
  BY <1>3 DEF AccountsInv, KindsAgree
<1>5. SetupAgrees'
  <2>1. CASE CountUsers(o) \/ StartRegister(o)
    <3>1. UNCHANGED boot
      BY <2>1 DEF CountUsers, StartRegister
    <3>2. ~(op'[o].at = "create" /\ op'[o].kind = "setup")
      <4>1. op'[o] \in {counted, registers}
        BY <1>0, <2>1 DEF CountUsers, StartRegister
      <4>2. QED
        BY <4>1 DEF Idle
    <3>3. QED
      BY <1>1, <1>2, <1>3, <3>1, <3>2, SetupStays DEF AccountsInv
  <2>2. CASE Use(o) /\ (boot.consumed \/ ~boot.valid)
    <3>1. UNCHANGED boot /\ op'[o] = Idle
      BY <1>0, <2>2 DEF Use
    <3>2. QED
      BY <1>1, <1>2, <1>3, <3>1, IdleTyped, SetupStays DEF AccountsInv
  <2>3. CASE Use(o) /\ ~boot.consumed /\ boot.valid
    <3>1. boot'.lock = o /\ boot'.valid = boot.valid /\ boot'.consumed = boot.consumed /\ boot.lock = None
      BY <1>0, <2>3 DEF Use, Boot
    <3>2. unsure \/ SetupAccounts = {}
      BY <2>3 DEF AccountsInv, SetupAgrees
    <3>3. \A q \in Ops : unsure \/ ~(op[q].at = "create" /\ op[q].kind = "setup")
      BY <3>1, AccountsAssumption DEF AccountsInv, SetupAgrees
    <3>4. QED
      BY <1>1, <1>2, <1>3, <3>1, <3>2, <3>3 DEF AccountsInv, SetupAgrees
  <2>4. QED
    BY <2>1, <2>2, <2>3
<1>6. PushInv'
  BY <1>1, <1>2, <1>3, PushesStay DEF AccountsInv, Accounts
<1>7. QED
  BY <1>4, <1>5, <1>6 DEF Rest

LEMMA CreateFailsStep == AccountsInv /\ (\E o \in Ops : CreateFails(o)) => Rest'
<1> SUFFICES ASSUME AccountsInv, NEW o \in Ops, CreateFails(o) PROVE Rest'
  OBVIOUS
<1>0. op \in [Ops -> Op] /\ boot \in Boot
  BY DEF AccountsInv, TypeOK, Op, Boot
<1>1. op[o].at = "create" /\ op[o].push = {} /\ op[o].kind \in {"setup", "other"} /\ UNCHANGED mirror
  BY DEF AccountsInv, KindsAgree, CreateFails
<1>2. op'[o] = Idle /\ \A q \in Ops \ {o} : op'[q] = op[q]
  BY <1>0 DEF CreateFails
<1>3. /\ \A v \in Accounts : account'[v] = account[v]
      /\ Accounts \subseteq Accounts' /\ drift \subseteq drift' /\ Accounts' \ Accounts \subseteq drift'
      /\ unsure' \/ UNCHANGED <<account, unsure>>
  <2>1. CASE UNCHANGED <<account, drift, unsure>>
    BY <2>1 DEF Accounts
  <2>2. CASE \E u \in Users \ Accounts : /\ account' = [account EXCEPT ![u] = [by |-> op[o].kind, token |-> issued']]
                                         /\ drift' = drift \cup {u} /\ unsure' = TRUE
    <3>1. PICK u \in Users \ Accounts : /\ account' = [account EXCEPT ![u] = [by |-> op[o].kind, token |-> issued']]
                                        /\ drift' = drift \cup {u} /\ unsure' = TRUE
      BY <2>2
    <3>2. \A v \in Users \ {u} : account'[v] = account[v]
      BY <3>1 DEF AccountsInv, TypeOK
    <3>3. QED
      BY <3>1, <3>2 DEF Accounts
  <2>3. QED
    BY <2>1, <2>2 DEF CreateFails
<1>4. KindsAgree'
  BY <1>2, IdleTyped DEF AccountsInv, KindsAgree
<1>5. SetupAgrees'
  <2> SUFFICES ASSUME ~unsure' PROVE SetupAgrees'
    BY DEF SetupAgrees
  <2>1. UNCHANGED <<account, unsure>>
    BY <1>3
  <2>2. SetupAccounts' = SetupAccounts
    BY <2>1 DEF SetupAccounts, Accounts
  <2>3. CASE op[o].kind = "other"
    <3>1. UNCHANGED boot
      BY <2>3 DEF CreateFails, Unlocked
    <3>2. QED
      BY <1>2, <2>1, <2>2, <3>1, IdleTyped, SetupStays DEF AccountsInv
  <2>4. CASE op[o].kind = "setup"
    <3>1. boot'.valid = boot.valid /\ boot'.consumed = boot.consumed
      BY <1>0, <2>4 DEF CreateFails, Unlocked, Boot
    <3>2. \A q \in Ops \ {o} : ~(op[q].at = "create" /\ op[q].kind = "setup")
      BY <1>1, <2>1, <2>4 DEF AccountsInv, SetupAgrees
    <3>3. QED
      BY <1>2, <2>1, <2>2, <3>1, <3>2, IdleTyped DEF AccountsInv, SetupAgrees
  <2>5. QED
    BY <1>1, <2>3, <2>4
<1>6. PushInv'
  BY <1>1, <1>2, <1>3, IdleTyped, PushesStay DEF AccountsInv
<1>7. QED
  BY <1>4, <1>5, <1>6 DEF Rest

\* Operations whose pushes begin: what they do, and that no setup is among the others.
LEMMA PushKinds ==
  ASSUME op \in [Ops -> Op], KindsAgree, NEW o \in Ops, NEW kind \in {"setup", "other", "change", "resync"},
         NEW pushes \in SUBSET Pushes, WillPush(o, kind, pushes)
  PROVE  /\ KindsAgree' /\ op'[o].at # "create"
         /\ \A q \in Ops \ {o} : op'[q].at = op[q].at /\ op'[q].kind = op[q].kind
<1>1. /\ op'[o].push = pushes /\ op'[o].at = IF pushes = {} THEN "idle" ELSE "push"
      /\ \A q \in Ops \ {o} : op'[q] = [op[q] EXCEPT !.alone = op[q].alone /\ \A p \in op[q].push : p.user \notin UsersOf(pushes)]
  BY WillPushTyped
<1>2. ASSUME NEW q \in Ops \ {o}
      PROVE op'[q].at = op[q].at /\ op'[q].kind = op[q].kind /\ op'[q].push = op[q].push
  <2>1. op[q] \in Op
    OBVIOUS
  <2>2. QED
    BY <1>1, <2>1 DEF Op
<1>3. KindsAgree'
  BY <1>1, <1>2 DEF KindsAgree
<1>4. QED
  BY <1>1, <1>2, <1>3

LEMMA ResyncStep == AccountsInv /\ (\E o \in Ops : Resync(o)) => Rest'
<1> SUFFICES ASSUME AccountsInv, NEW o \in Ops, Resync(o) PROVE Rest'
  OBVIOUS
<1>1. OpsTyped /\ op[o].push = {}
  BY TypeOfOps DEF AccountsInv, KindsAgree, Resync
<1>2. Listed \in SUBSET Pushes
  BY DEF Listed, Accounts, Pushes, AccountsInv, TypeOK, Account
<1>3. UNCHANGED <<account, mirror, boot, drift, unsure>> /\ WillPush(o, "resync", Listed)
  BY DEF Resync
<1>4. UNCHANGED <<Accounts, SetupAccounts>>
  BY <1>3 DEF Accounts, SetupAccounts
<1>5. /\ KindsAgree' /\ op'[o].at # "create"
      /\ \A q \in Ops \ {o} : op'[q].at = op[q].at /\ op'[q].kind = op[q].kind
  BY <1>1, <1>2, <1>3, PushKinds DEF AccountsInv, OpsTyped
<1>6. SetupAgrees'
  BY <1>3, <1>4, <1>5, SetupStays DEF AccountsInv
<1>7. \A p \in Listed : p.user \in Accounts' /\ p.token = account'[p.user].token
  BY <1>3, <1>4 DEF Listed
<1>8. PushInv'
  <2>1. Accounts \subseteq Accounts' /\ \A u \in Users \ UsersOf(Listed) : account'[u] = account[u]
    BY <1>3, <1>4
  <2>2. QED
    BY <1>1, <1>2, <1>3, <1>7, <2>1, PushesStart DEF AccountsInv
<1>9. QED
  BY <1>5, <1>6, <1>8 DEF Rest

\* Pairing tokens change: the push of the operation makes no other one alone.
LEMMA ChangeStep ==
  AccountsInv /\ (\E o \in Ops, u \in Users : RegeneratePairingToken(o, u) \/ RevokePairingToken(o, u)) => Rest'
<1> SUFFICES ASSUME AccountsInv, NEW o \in Ops, NEW u \in Users, RegeneratePairingToken(o, u) \/ RevokePairingToken(o, u)
             PROVE  Rest'
  OBVIOUS
<1>1. PICK token \in Tokens \cup {None} :
        /\ op[o].at = "idle" /\ account[u] # None
        /\ account' = [account EXCEPT ![u].token = token]
        /\ WillPush(o, "change", {[user |-> u, token |-> token]})
        /\ issued' \in 0..MaxTokens
        /\ UNCHANGED <<mirror, boot, wire, faults, resyncs, drift, unsure>>
  BY ChangeKinds DEF AccountsInv
<1> DEFINE pushes == {[user |-> u, token |-> token]}
<1>2. OpsTyped /\ op[o].push = {} /\ pushes \in SUBSET Pushes
  BY <1>1, TypeOfOps DEF AccountsInv, KindsAgree, Pushes
<1>3. /\ account'[u] = [account[u] EXCEPT !.token = token]
      /\ \A v \in Users \ {u} : account'[v] = account[v]
  BY <1>1 DEF AccountsInv, TypeOK
<1>4. account[u] \in Account /\ account'[u] \in Account /\ account'[u].by = account[u].by /\ account'[u].token = token
  <2>1. account[u] \in Account
    BY <1>1 DEF AccountsInv, TypeOK
  <2>2. QED
    BY <1>3, <2>1 DEF Account
<1>5. Accounts' = Accounts /\ u \in Accounts
  BY <1>3, <1>4, RowAssumption DEF Accounts
<1>6. SetupAccounts' = SetupAccounts
  BY <1>3, <1>4, <1>5 DEF SetupAccounts, Accounts
<1>7. /\ KindsAgree' /\ op'[o].at # "create"
      /\ \A q \in Ops \ {o} : op'[q].at = op[q].at /\ op'[q].kind = op[q].kind
  BY <1>1, <1>2, PushKinds DEF AccountsInv, OpsTyped
<1>8. SetupAgrees'
  BY <1>1, <1>6, <1>7, SetupStays DEF AccountsInv
<1>9. PushInv'
  <2>1. \A p \in pushes : p.user \in Accounts' /\ p.token = account'[p.user].token
    BY <1>4, <1>5
  <2>2. \A v \in Users \ UsersOf(pushes) : account'[v] = account[v]
    BY <1>3 DEF UsersOf
  <2>3. WillPush(o, "change", pushes) /\ UNCHANGED <<mirror, drift>> /\ Accounts \subseteq Accounts'
    BY <1>1, <1>5
  <2> HIDE DEF pushes
  <2>4. QED
    BY <1>2, <2>1, <2>2, <2>3, PushesStart DEF AccountsInv
<1>10. QED
  BY <1>7, <1>8, <1>9 DEF Rest

LEMMA CreateUserStep == AccountsInv /\ (\E o \in Ops, u \in Users : CreateUser(o, u)) => Rest'
<1> SUFFICES ASSUME AccountsInv, NEW o \in Ops, NEW u \in Users, CreateUser(o, u) PROVE Rest'
  OBVIOUS
<1> DEFINE pushes == {[user |-> u, token |-> issued']}
           row == [by |-> op[o].kind, token |-> issued']
<1>1. op[o].at = "create" /\ op[o].push = {} /\ op[o].kind \in {"setup", "other"} /\ account[u] = None
  BY DEF CreateUser, AccountsInv, KindsAgree
<1>2. issued' \in Tokens
  BY AccountsAssumption DEF CreateUser, AccountsInv, TypeOK, Tokens
<1>3. OpsTyped /\ boot \in Boot /\ pushes \in SUBSET Pushes /\ row \in Account
  BY <1>1, <1>2, TypeOfOps DEF AccountsInv, TypeOK, Pushes, Account, Boot
<1>4. /\ account'[u] = row /\ \A v \in Users \ {u} : account'[v] = account[v]
      /\ Accounts' = Accounts \cup {u}
  <2>1. account' = [account EXCEPT ![u] = row]
    BY DEF CreateUser
  <2>2. QED
    BY <1>3, <2>1, AccountWritten DEF AccountsInv
<1>5. WillPush(o, op[o].kind, pushes) /\ UNCHANGED <<mirror, drift, unsure>> /\ boot' = Unlocked(o, TRUE)
  BY DEF CreateUser
<1>6. /\ KindsAgree' /\ op'[o].at # "create"
      /\ \A q \in Ops \ {o} : op'[q].at = op[q].at /\ op'[q].kind = op[q].kind
  <2> HIDE DEF pushes
  <2>1. QED
    BY <1>1, <1>3, <1>5, PushKinds DEF AccountsInv, OpsTyped
<1>7. SetupAgrees'
  <2> SUFFICES ASSUME ~unsure PROVE SetupAgrees'
    BY <1>5 DEF SetupAgrees
  <2>1. CASE op[o].kind = "other"
    <3>1. UNCHANGED boot
      BY <1>5, <2>1 DEF Unlocked
    <3>2. SetupAccounts' = SetupAccounts
      BY <1>1, <1>4, <2>1 DEF SetupAccounts, Accounts
    <3>3. QED
      BY <1>5, <1>6, <3>1, <3>2, SetupStays DEF AccountsInv
  <2>2. CASE op[o].kind = "setup"
    <3>1. boot'.consumed
      BY <1>3, <1>5, <2>2 DEF Unlocked, Boot
    <3>2. SetupAccounts = {} /\ \A q \in Ops \ {o} : ~(op[q].at = "create" /\ op[q].kind = "setup")
      BY <1>1, <2>2 DEF AccountsInv, SetupAgrees
    <3>3. SetupAccounts' \subseteq {u}
      BY <1>4, <3>2 DEF SetupAccounts, Accounts
    <3>4. QED
      BY <1>5, <1>6, <3>1, <3>2, <3>3 DEF SetupAgrees
  <2>3. QED
    BY <1>1, <2>1, <2>2
<1>8. PushInv'
  <2>1. \A p \in pushes : p.user \in Accounts' /\ p.token = account'[p.user].token
    BY <1>4
  <2>2. \A v \in Users \ UsersOf(pushes) : account'[v] = account[v]
    BY <1>4 DEF UsersOf
  <2>3. Accounts \subseteq Accounts'
    BY <1>4
  <2> HIDE DEF pushes
  <2>4. QED
    BY <1>1, <1>3, <1>5, <2>1, <2>2, <2>3, PushesStart DEF AccountsInv
<1>9. QED
  BY <1>6, <1>7, <1>8 DEF Rest

\* A push ends, well or badly.
LEMMA PushStep ==
  AccountsInv /\ (\E o \in Ops, p \in Pushes : PushUser(o, p) \/ PushFails(o, p)) => Rest'
<1> SUFFICES ASSUME AccountsInv, NEW o \in Ops, NEW p \in Pushes, PushUser(o, p) \/ PushFails(o, p) PROVE Rest'
  OBVIOUS
<1>1. OpsTyped /\ p \in op[o].push /\ Sent(o, p) /\ UNCHANGED <<account, boot, unsure>>
  BY TypeOfOps DEF AccountsInv, PushUser, PushFails
<1>2. /\ op'[o].push = op[o].push \ {p}
      /\ op'[o] = Idle \/ (op'[o].alone = op[o].alone /\ op'[o].kind = op[o].kind /\ op'[o].at = op[o].at)
      /\ \A q \in Ops \ {o} : op'[q] = op[q]
  BY <1>1, SentTyped DEF OpsTyped
<1>3. UNCHANGED SetupAccounts
  BY <1>1 DEF SetupAccounts, Accounts
<1>4. KindsAgree'
  BY <1>2, IdleTyped DEF AccountsInv, KindsAgree
<1>5. SetupAgrees'
  BY <1>1, <1>2, <1>3, IdleTyped, SetupStays DEF AccountsInv
<1>6. PushInv'
  <2>1. p.user \in Users
    BY DEF Pushes
  <2>2. CASE PushUser(o, p)
    <3>1. mirror'[p.user] = p.token /\ \A u \in Users \ {p.user} : mirror'[u] = mirror[u]
      BY <2>1, <2>2 DEF PushUser, AccountsInv, TypeOK
    <3>2. drift \ {p.user} \subseteq drift' /\ (p.user \notin drift' => op[o].alone)
      BY <2>2 DEF PushUser
    <3>3. QED
      BY <1>1, <3>1, <3>2, PushEnds DEF AccountsInv
  <2>3. CASE PushFails(o, p)
    <3>1. UNCHANGED mirror /\ drift' = drift \cup {p.user}
      BY <2>3 DEF PushFails
    <3>2. QED
      BY <1>1, <3>1, PushEnds DEF AccountsInv
  <2>4. QED
    BY <2>2, <2>3
<1>7. QED
  BY <1>4, <1>5, <1>6 DEF Rest

LEMMA AccountsInit == Init => AccountsInv
<1> SUFFICES ASSUME Init PROVE AccountsInv
  OBVIOUS
<1> USE AccountsAssumption
<1>1. \A o \in Ops : op[o] = Idle
  BY DEF Init
<1>2. op \in [Ops -> Op]
  BY IdleTyped DEF Init
<1>3. boot \in Boot
  BY DEF Init, Boot
<1>4. Accounts = {} /\ SetupAccounts = {}
  BY DEF Init, Accounts, SetupAccounts
<1>5. TypeOK
  <2>1. account \in [Users -> Account \cup {None}] /\ mirror \in [Users -> 0..MaxTokens \cup {None}]
    BY DEF Init
  <2>2. issued \in 0..MaxTokens /\ faults \in 0..MaxFaults /\ resyncs \in 0..MaxResyncs
    BY DEF Init
  <2>3. wire \subseteq Pushes /\ drift \subseteq Users /\ unsure \in BOOLEAN
    BY DEF Init
  <2>4. QED
    BY <1>2, <1>3, <2>1, <2>2, <2>3 DEF TypeOK, Op, Boot
<1>6. KindsAgree /\ SetupAgrees
  BY <1>1, <1>4, IdleTyped DEF KindsAgree, SetupAgrees
<1>7. PushInv
  BY <1>1, <1>4, IdleTyped DEF PushInv, PushesKnown, AloneAgrees, PairingMirrored
<1>8. QED
  BY <1>5, <1>6, <1>7 DEF AccountsInv

LEMMA AccountsInvStep == AccountsInv /\ [Next]_vars => AccountsInv'
<1> SUFFICES ASSUME AccountsInv, [Next]_vars PROVE AccountsInv'
  OBVIOUS
<1>1. TypeOK'
  BY AccountsTypeStep DEF AccountsInv
<1>2. CASE UNCHANGED vars
  BY <1>1, <1>2 DEF vars, AccountsInv, KindsAgree, SetupAgrees, SetupAccounts, Accounts, PushInv, PushesKnown,
     AloneAgrees, PushersOf, PairingMirrored
<1>3. CASE ~UNCHANGED vars
  <2>1. Rest'
    BY <1>3, AccountsKinds, TokenExpiresStep, RestartStep, ArriveStep, SetupSteps, CreateFailsStep, ResyncStep,
       CreateUserStep, ChangeStep, PushStep
  <2>2. QED
    BY <1>1, <2>1 DEF Rest, AccountsInv
<1>4. QED
  BY <1>2, <1>3

\* AccountsInv is inductive: the lock, the bootstrap token and every push that is under
\* way agree with the accounts.
THEOREM AccountsInvariance == Spec => []AccountsInv
BY AccountsInit, AccountsInvStep, PTL DEF Spec

\* Setup, BootstrapTokenHolder.Use: the setup screen makes one administrator, whatever
\* requests overlap and restarts come, unless a creation was reported as failed and
\* was not.
THEOREM SetupOnce == Spec => []SetupInv
<1>1. AccountsInv => SetupInv
  <2> SUFFICES ASSUME AccountsInv, ~unsure PROVE Cardinality(SetupAccounts) <= 1
    BY DEF SetupInv, OneSetup, AccountsInv
  <2>1. CASE SetupAccounts = {}
    BY <2>1, FS_EmptySet
  <2>2. CASE SetupAccounts # {}
    <3>1. PICK u : u \in SetupAccounts
      BY <2>2
    <3>2. \A v \in SetupAccounts : v = u
      BY <3>1 DEF AccountsInv, SetupAgrees
    <3>3. SetupAccounts = {u}
      BY <3>1, <3>2
    <3>4. Cardinality({u}) = 1
      BY FS_Singleton
    <3>5. QED
      BY <3>3, <3>4
  <2>3. QED
    BY <2>1, <2>2
<1>2. QED
  BY <1>1, AccountsInvariance, PTL

\* PushUser, runUserResync: once its pushes have ended the Worker accepts the pairing
\* token that Postgres has, unless a push was lost or two overlapped since.
THEOREM PairingKept == Spec => []PairingMirrored
<1>1. AccountsInv => PairingMirrored
  BY DEF AccountsInv, PushInv
<1>2. QED
  BY <1>1, AccountsInvariance, PTL

-----------------------------------------------------------------------------
(* Sessions.                                                               *)

\* A request that has resolved somebody acts for a user.
RequestsAgree == \A r \in Requests : request[r].at # "idle" => request[r].user \in Users

SessionsIInv == S!TypeOK /\ RequestsAgree /\ S!ResetEndsSessions

Resolved == [at : {"idle", "login", "request"}, user : Users \cup {None},
             password : 0..MaxResets, session : 0..MaxCreds]

LEMMA IdleResolved == S!Idle \in Resolved /\ S!Idle.at = "idle"
BY ServerAssumption DEF S!Idle, Resolved

\* What a request is after it ended, and after it resolved a user.
LEMMA RequestEnds ==
  ASSUME request \in [Requests -> Resolved], RequestsAgree, NEW r \in Requests, S!End(r)
  PROVE  request' \in [Requests -> Resolved] /\ RequestsAgree'
<1>1. request' = [request EXCEPT ![r] = S!Idle]
  BY DEF S!End
<1>2. request' \in [Requests -> Resolved]
  BY <1>1, IdleResolved
<1>3. request'[r].at = "idle" /\ \A q \in Requests \ {r} : request'[q] = request[q]
  BY <1>1, IdleResolved
<1>4. QED
  BY <1>2, <1>3 DEF RequestsAgree

LEMMA RequestResolves ==
  ASSUME request \in [Requests -> Resolved], RequestsAgree, NEW r \in Requests,
         NEW entry \in Resolved, entry.user \in Users, request' = [request EXCEPT ![r] = entry]
  PROVE  request' \in [Requests -> Resolved] /\ RequestsAgree'
<1>1. request'[r] = entry /\ \A q \in Requests \ {r} : request'[q] = request[q]
  OBVIOUS
<1>2. QED
  BY <1>1 DEF RequestsAgree

\* A credential that is made with another password than the user's is marked late.
LEMMA CredMade ==
  ASSUME SessionsIInv, UNCHANGED <<password, reset, kept>>,
         NEW u \in Users, NEW kind \in {"session", "api"}, NEW pw \in 0..MaxResets, S!Make(u, kind, pw)
  PROVE  creds' \subseteq S!Cred /\ made' \in 0..MaxCreds /\ S!ResetEndsSessions'
<1> DEFINE cred == [id |-> made', user |-> u, kind |-> kind, password |-> pw, late |-> pw # password[u]]
<1>1. made' \in 1..MaxCreds /\ creds' = creds \cup {cred}
  BY ServerAssumption DEF S!Make, SessionsIInv, S!TypeOK
<1>2. (pw # password[u]) \in BOOLEAN
  OBVIOUS
<1>3. cred \in S!Cred /\ cred.user = u /\ cred.password = pw /\ cred.late = (pw # password[u])
  BY <1>1, <1>2 DEF S!Cred
<1> HIDE DEF cred
<1>4. creds' \subseteq S!Cred /\ made' \in 0..MaxCreds
  BY <1>1, <1>3 DEF SessionsIInv, S!TypeOK
<1>5. S!ResetEndsSessions'
  <2> SUFFICES ASSUME NEW c \in creds', c.kind = "session", c.password # password[c.user]
               PROVE  c.late \/ reset[c.user] \/ c.user \in kept
    BY DEF S!ResetEndsSessions
  <2>1. CASE c = cred
    BY <1>3, <2>1
  <2>2. CASE c \in creds
    BY <2>2 DEF SessionsIInv, S!ResetEndsSessions
  <2>3. QED
    BY <1>1, <2>1, <2>2
<1>6. QED
  BY <1>4, <1>5

\* No credential is made: what was ended before is not there again.
LEMMA CredsGo ==
  ASSUME SessionsIInv, UNCHANGED <<password, reset, kept>>, creds' \subseteq creds
  PROVE  creds' \subseteq S!Cred /\ S!ResetEndsSessions'
BY DEF SessionsIInv, S!TypeOK, S!ResetEndsSessions

LEMMA SessionsStepKinds ==
  ASSUME [S!Next]_sVars
  PROVE  \/ \E r \in Requests, u \in Users : S!VerifyPassword(r, u)
         \/ \E r \in Requests, c \in creds : S!RequireSession(r, c)
         \/ \E r \in Requests : S!StartSession(r)
         \/ \E r \in Requests : S!CreateAPIToken(r)
         \/ \E r \in Requests, id \in 1..MaxCreds, kind \in {"session", "api"} : S!Revoke(r, kind, id)
         \/ \E c \in creds : S!Logout(c)
         \/ \E u \in Users : S!UpdateUserPassword(u)
         \/ \E u \in Users : S!DeleteSessionsForUser(u)
         \/ UNCHANGED sVars
BY DEF S!Next, S!RevokeAPIToken, S!DeleteSession

LEMMA SessionsIInvStep == SessionsIInv /\ [S!Next]_sVars => SessionsIInv'
<1> SUFFICES ASSUME SessionsIInv, [S!Next]_sVars PROVE SessionsIInv'
  OBVIOUS
<1> USE ServerAssumption
<1>0. /\ request \in [Requests -> Resolved] /\ RequestsAgree /\ creds \subseteq S!Cred
      /\ password \in [Users -> 0..MaxResets] /\ made \in 0..MaxCreds
      /\ reset \in [Users -> BOOLEAN] /\ kept \subseteq Users
  BY DEF SessionsIInv, S!TypeOK, Resolved
<1>1. ASSUME NEW r \in Requests, NEW u \in Users, S!VerifyPassword(r, u) PROVE SessionsIInv'
  <2> DEFINE entry == [S!Idle EXCEPT !.at = "login", !.user = u, !.password = password[u]]
  <2>1. S!Idle \in Resolved /\ password[u] \in 0..MaxResets
    BY <1>0, IdleResolved
  <2>2. entry \in Resolved /\ entry.user = u
    BY <2>1 DEF Resolved
  <2>3. request' = [request EXCEPT ![r] = entry] /\ UNCHANGED <<password, creds, made, reset, kept>>
    BY <1>1 DEF S!VerifyPassword
  <2> HIDE DEF entry
  <2>4. request' \in [Requests -> Resolved] /\ RequestsAgree'
    BY <1>0, <2>2, <2>3, RequestResolves
  <2>5. QED
    BY <1>0, <2>3, <2>4, CredsGo DEF SessionsIInv, S!TypeOK, Resolved
<1>2. ASSUME NEW r \in Requests, NEW c \in creds, S!RequireSession(r, c) PROVE SessionsIInv'
  <2> DEFINE entry == [at |-> "request", user |-> c.user, password |-> c.password, session |-> c.id]
  <2>1. entry \in Resolved /\ entry.user \in Users
    BY <1>0 DEF Resolved, S!Cred
  <2>2. request' = [request EXCEPT ![r] = entry] /\ UNCHANGED <<password, creds, made, reset, kept>>
    BY <1>2 DEF S!RequireSession
  <2> HIDE DEF entry
  <2>3. request' \in [Requests -> Resolved] /\ RequestsAgree'
    BY <1>0, <2>1, <2>2, RequestResolves
  <2>4. QED
    BY <1>0, <2>2, <2>3, CredsGo DEF SessionsIInv, S!TypeOK, Resolved
<1>3. ASSUME NEW r \in Requests, S!StartSession(r) PROVE SessionsIInv'
  <2>1. request' \in [Requests -> Resolved] /\ RequestsAgree'
    BY <1>0, <1>3, RequestEnds DEF S!StartSession
  <2>2. request[r].user \in Users /\ request[r].password \in 0..MaxResets
    BY <1>0, <1>3 DEF S!StartSession, RequestsAgree, Resolved
  <2>3. UNCHANGED <<password, reset, kept>>
    BY <1>3 DEF S!StartSession
  <2>4. creds' \subseteq S!Cred /\ made' \in 0..MaxCreds /\ S!ResetEndsSessions'
    <3>1. CASE S!Make(request[r].user, "session", request[r].password)
      BY <2>2, <2>3, <3>1, CredMade
    <3>2. CASE UNCHANGED <<creds, made>>
      BY <1>0, <2>3, <3>2, CredsGo
    <3>3. QED
      BY <1>3, <3>1, <3>2 DEF S!StartSession
  <2>5. QED
    BY <1>0, <2>1, <2>3, <2>4 DEF SessionsIInv, S!TypeOK, Resolved
<1>4. ASSUME NEW r \in Requests, S!CreateAPIToken(r) PROVE SessionsIInv'
  <2>1. request' \in [Requests -> Resolved] /\ RequestsAgree'
    BY <1>0, <1>4, RequestEnds DEF S!CreateAPIToken
  <2>2. request[r].user \in Users /\ request[r].password \in 0..MaxResets
    BY <1>0, <1>4 DEF S!CreateAPIToken, RequestsAgree, Resolved
  <2>3. UNCHANGED <<password, reset, kept>> /\ S!Make(request[r].user, "api", request[r].password)
    BY <1>4 DEF S!CreateAPIToken
  <2>4. creds' \subseteq S!Cred /\ made' \in 0..MaxCreds /\ S!ResetEndsSessions'
    BY <2>2, <2>3, CredMade
  <2>5. QED
    BY <1>0, <2>1, <2>3, <2>4 DEF SessionsIInv, S!TypeOK, Resolved
<1>5. ASSUME NEW r \in Requests, NEW id, NEW kind, S!Revoke(r, kind, id) PROVE SessionsIInv'
  <2>1. request' \in [Requests -> Resolved] /\ RequestsAgree'
    BY <1>0, <1>5, RequestEnds DEF S!Revoke
  <2>2. UNCHANGED <<password, made, reset, kept>> /\ creds' \subseteq creds
    BY <1>5 DEF S!Revoke
  <2>3. QED
    BY <1>0, <2>1, <2>2, CredsGo DEF SessionsIInv, S!TypeOK, Resolved
<1>6. ASSUME NEW c \in creds, S!Logout(c) PROVE SessionsIInv'
  <2>1. UNCHANGED <<password, made, request, reset, kept>> /\ creds' \subseteq creds
    BY <1>6 DEF S!Logout
  <2>2. RequestsAgree'
    BY <1>0, <2>1 DEF RequestsAgree
  <2>3. QED
    BY <1>0, <2>1, <2>2, CredsGo DEF SessionsIInv, S!TypeOK, Resolved
<1>7. ASSUME NEW u \in Users, S!UpdateUserPassword(u) PROVE SessionsIInv'
  <2>1. UNCHANGED <<creds, made, request, kept>>
    BY <1>7 DEF S!UpdateUserPassword
  <2>2. /\ password' \in [Users -> 0..MaxResets] /\ reset' \in [Users -> BOOLEAN]
        /\ reset'[u] /\ \A v \in Users \ {u} : password'[v] = password[v] /\ reset'[v] = reset[v]
    <3>1. password[u] + 1 \in 0..MaxResets
      BY <1>0, <1>7 DEF S!UpdateUserPassword
    <3>2. QED
      BY <1>0, <1>7, <3>1 DEF S!UpdateUserPassword
  <2>3. S!ResetEndsSessions'
    <3>1. \A c \in creds : c.user \in Users
      BY <1>0 DEF S!Cred
    <3>2. QED
      BY <2>1, <2>2, <3>1 DEF SessionsIInv, S!ResetEndsSessions
  <2>4. RequestsAgree'
    BY <1>0, <2>1 DEF RequestsAgree
  <2>5. QED
    BY <1>0, <2>1, <2>2, <2>3, <2>4 DEF SessionsIInv, S!TypeOK, Resolved
<1>8. ASSUME NEW u \in Users, S!DeleteSessionsForUser(u) PROVE SessionsIInv'
  <2>1. UNCHANGED <<password, made, request>>
    BY <1>8 DEF S!DeleteSessionsForUser
  <2>2. reset' \in [Users -> BOOLEAN] /\ \A v \in Users \ {u} : reset'[v] = reset[v]
    BY <1>0, <1>8 DEF S!DeleteSessionsForUser
  <2>3. RequestsAgree'
    BY <1>0, <2>1 DEF RequestsAgree
  <2>4. creds' \subseteq creds /\ kept' \subseteq Users
    BY <1>0, <1>8 DEF S!DeleteSessionsForUser
  <2>5. S!ResetEndsSessions'
    <3> SUFFICES ASSUME NEW c \in creds', c.kind = "session", c.password # password[c.user]
                 PROVE  c.late \/ reset'[c.user] \/ c.user \in kept'
      BY <2>1 DEF S!ResetEndsSessions
    <3>1. c \in creds /\ c.user \in Users
      BY <1>0, <2>4 DEF S!Cred
    <3>2. c.late \/ reset[c.user] \/ c.user \in kept
      BY <3>1 DEF SessionsIInv, S!ResetEndsSessions
    <3>3. CASE c.user = u
      BY <1>8, <3>3 DEF S!DeleteSessionsForUser
    <3>4. CASE c.user # u
      BY <1>8, <2>2, <3>1, <3>2, <3>4 DEF S!DeleteSessionsForUser
    <3>5. QED
      BY <3>3, <3>4
  <2>6. QED
    BY <1>0, <2>1, <2>2, <2>3, <2>4, <2>5 DEF SessionsIInv, S!TypeOK, Resolved
<1>9. CASE UNCHANGED sVars
  BY <1>9 DEF sVars, SessionsIInv, S!TypeOK, RequestsAgree, S!ResetEndsSessions
<1>10. QED
  BY <1>1, <1>2, <1>3, <1>4, <1>5, <1>6, <1>7, <1>8, <1>9, SessionsStepKinds

\* runUserResetPassword: after a reset every session was made with the new password,
\* unless the deletion failed, or a login that had compared the old password before
\* the reset made its session after it.
THEOREM ResetEnds == S!Spec => []SessionsInv
<1>1. S!Init => SessionsIInv
  <2> SUFFICES ASSUME S!Init PROVE SessionsIInv
    OBVIOUS
  <2>1. request \in [Requests -> Resolved] /\ RequestsAgree
    BY IdleResolved DEF S!Init, RequestsAgree
  <2>2. QED
    BY <2>1, ServerAssumption DEF S!Init, SessionsIInv, S!TypeOK, S!ResetEndsSessions, Resolved
<1>2. SessionsIInv => SessionsInv
  BY DEF SessionsIInv, SessionsInv
<1>3. SessionsIInv /\ [S!Next]_S!vars => SessionsIInv'
  BY SessionsIInvStep DEF S!vars, sVars
<1>4. QED
  BY <1>1, <1>2, <1>3, PTL DEF S!Spec

-----------------------------------------------------------------------------
(* Normalization: the parameters in alphabetical order, a recursion.       *)

\* Induction, for a set instead of a predicate.
LEMMA UpToAll ==
  ASSUME NEW n \in Nat, NEW Good, 0 \in Good, \A i \in 1..n : i - 1 \in Good => i \in Good
  PROVE  0..n \subseteq Good
<1> DEFINE T == {i \in 0..n : i \notin Good}
<1>0. SUFFICES ASSUME T # {} PROVE FALSE
  OBVIOUS
<1> DEFINE Less == OpToRel(<, Nat)
<1>1. \A i, j \in Nat : i < j => <<i, j>> \in Less
  BY DEF OpToRel
<1>2. IsWellFoundedOn(Less, Nat)
  BY NatLessThanWellFounded, Zenon
<1>3. T \subseteq Nat
  OBVIOUS
<1> HIDE DEF Less, T
<1>4. PICK m \in T : \A i \in T : <<i, m>> \notin Less
  BY <1>0, <1>2, <1>3, WFMin, Zenon
<1>5. m \in 0..n /\ m \notin Good /\ \A i \in 0..n : i < m => i \in Good
  <2>1. m \in Nat /\ \A i \in T : i \in Nat
    BY <1>3
  <2>2. \A i \in T : ~(i < m)
    BY <1>1, <1>4, <2>1, Zenon
  <2>3. QED
    BY <2>2 DEF T
<1>6. m # 0 /\ m - 1 \in 0..n /\ m - 1 < m
  BY <1>5
<1>7. QED
  BY <1>5, <1>6

\* The recursion of Sorted, for a function that may solve it.
Upto(names, f, i) == IF i = 0 THEN <<>> ELSE IF Params[i] \in names THEN Append(f[i - 1], Params[i]) ELSE f[i - 1]

\* The recursion has a solution: the functions that solve it up to some position agree.
LEMMA SortedDef ==
  ASSUME NEW names
  PROVE  \E f : f = [i \in 0..Len(Params) |-> Upto(names, f, i)] /\ U!Sorted(names) = f[Len(Params)]
<1> DEFINE n == Len(Params)
           Solves(f, m) == f = [i \in 0..m |-> f[i]] /\ \A i \in 0..m : f[i] = Upto(names, f, i)
           Good == {m \in 0..n : \E f : Solves(f, m)}
<1>0. n \in Nat
  BY UrlsAssumption
<1>1. 0 \in Good
  <2>1. Solves([i \in 0..0 |-> <<>>], 0)
    BY DEF Upto
  <2>2. QED
    BY <1>0, <2>1
<1>2. ASSUME NEW m \in 1..n, m - 1 \in Good PROVE m \in Good
  <2>1. PICK f : Solves(f, m - 1)
    BY <1>2
  <2> DEFINE g == [i \in 0..m |-> IF i = m THEN Upto(names, f, m) ELSE f[i]]
  <2>2. \A i \in 0..m : g[i] = Upto(names, g, i)
    <3> SUFFICES ASSUME NEW i \in 0..m PROVE g[i] = Upto(names, g, i)
      OBVIOUS
    <3>1. i # 0 => g[i - 1] = f[i - 1]
      BY <1>0
    <3>2. Upto(names, g, i) = Upto(names, f, i)
      BY <3>1 DEF Upto
    <3>3. QED
      BY <1>0, <2>1, <3>2
  <2>3. Solves(g, m)
    BY <2>2
  <2> HIDE DEF g
  <2>4. QED
    BY <2>3
<1>3. n \in Good
  BY <1>0, <1>1, <1>2, UpToAll
<1>4. PICK f : Solves(f, n)
  BY <1>3
<1> HIDE DEF n
<1> DEFINE h == CHOOSE f1 : f1 = [i \in 0..n |-> Upto(names, f1, i)]
<1>6. \E f1 : f1 = [i \in 0..n |-> Upto(names, f1, i)]
  <2>1. f = [i \in 0..n |-> Upto(names, f, i)]
    BY <1>4
  <2>2. QED
    BY <2>1
<1>7. h = [i \in 0..n |-> Upto(names, h, i)]
  BY <1>6
<1>8. U!Sorted(names) = h[n]
  BY DEF U!Sorted, Upto, n
<1>9. QED
  BY <1>7, <1>8 DEF n

\* What a sequence holds after an element was appended.
LEMMA Appended ==
  ASSUME NEW T, NEW s \in Seq(T), NEW x \in T
  PROVE  U!ToSet(Append(s, x)) = U!ToSet(s) \cup {x}
<1>1. \A i \in 1..Len(s) : Append(s, x)[i] = s[i]
  OBVIOUS
<1>2. Append(s, x)[Len(s) + 1] = x /\ DOMAIN Append(s, x) = 1..(Len(s) + 1) /\ DOMAIN s = 1..Len(s)
  OBVIOUS
<1>3. 1..(Len(s) + 1) = 1..Len(s) \cup {Len(s) + 1}
  OBVIOUS
<1>4. QED
  BY <1>1, <1>2, <1>3 DEF U!ToSet

\* Values.Encode keeps the names it was given, and no others.
LEMMA SortedNames ==
  ASSUME NEW names
  PROVE  U!Sorted(names) \in Seq(U!Names) /\ U!ToSet(U!Sorted(names)) = names \cap U!Names
<1> DEFINE n == Len(Params)
           Kept(i) == {Params[j] : j \in 1..i} \cap names
           Has(f, i) == f[i] \in Seq(U!Names) /\ U!ToSet(f[i]) = Kept(i)
<1>0. n \in Nat /\ \A i \in 1..n : Params[i] \in U!Names
  BY UrlsAssumption DEF U!Names, U!ToSet
<1>1. PICK f : f = [i \in 0..n |-> Upto(names, f, i)] /\ U!Sorted(names) = f[n]
  BY SortedDef
<1> DEFINE Good == {i \in 0..n : Has(f, i)}
<1>2. 0 \in Good
  <2>1. f[0] = <<>>
    BY <1>0, <1>1 DEF Upto
  <2>2. U!ToSet(<<>>) = {} /\ Kept(0) = {}
    BY DEF U!ToSet
  <2>3. Has(f, 0)
    BY <2>1, <2>2
  <2>4. QED
    BY <1>0, <2>3
<1>3. ASSUME NEW i \in 1..n, i - 1 \in Good PROVE i \in Good
  <2>0. i - 1 \in 0..n /\ i \in 0..n /\ Params[i] \in U!Names
    BY <1>0, <1>3
  <2>a. Has(f, i - 1)
    BY <1>3
  <2>1. f[i] = IF Params[i] \in names THEN Append(f[i - 1], Params[i]) ELSE f[i - 1]
    <3>1. f[i] = Upto(names, f, i) /\ i # 0
      BY <1>0, <1>1, <2>0
    <3>2. QED
      BY <3>1 DEF Upto
  <2>2. 1..i = 1..(i - 1) \cup {i}
    BY <1>0
  <2>4. Kept(i) = Kept(i - 1) \cup ({Params[i]} \cap names)
    BY <2>2
  <2>5. CASE Params[i] \in names
    <3>1. U!ToSet(f[i]) = U!ToSet(f[i - 1]) \cup {Params[i]} /\ f[i] \in Seq(U!Names)
      BY <2>0, <2>a, <2>1, <2>5, Appended
    <3>2. QED
      BY <2>0, <2>a, <2>4, <2>5, <3>1
  <2>6. CASE Params[i] \notin names
    BY <2>0, <2>a, <2>1, <2>4, <2>6
  <2>7. QED
    BY <2>5, <2>6
<1>4. Has(f, n)
  <2>1. 0..n \subseteq Good
    <3> HIDE DEF Good, n
    <3> QED BY <1>0, <1>2, <1>3, UpToAll
  <2>2. QED
    <3> HIDE DEF n, Has
    <3> QED BY <1>0, <2>1
<1>5. Kept(n) = names \cap U!Names
  <2>1. DOMAIN Params = 1..n
    BY UrlsAssumption
  <2>2. QED
    BY <2>1 DEF U!Names, U!ToSet
<1>6. QED
  BY <1>1, <1>4, <1>5

-----------------------------------------------------------------------------
(* Normalization: the inductive invariant.                                 *)

ParamsOf(u) == U!ToSet(u[1].query)
Tidy(u) == u[1].query = U!Sorted(ParamsOf(u))
AllIdle(u) == \A p \in U!ToSet(Providers) : U!Idle(p, u)

\* What a pass does to a URL cannot be undone by the rest of it: a layer or a parameter is
\* gone, or the parameters are in order that were not.
Reduced(u, w) ==
  \/ Len(u) < Len(w)
  \/ /\ ParamsOf(u) \subseteq ParamsOf(w) /\ u[1].frag \subseteq w[1].frag /\ Tidy(u)
     /\ Tidy(w) => ParamsOf(u) # ParamsOf(w) \/ u[1].frag # w[1].frag

\* Either the providers so far had nothing to do, or the end of the pass will tell.
PassAgrees ==
  at = "pass" =>
    /\ Len(url) <= Len(was)
    /\ (url = was /\ \A i \in 1..(next - 1) : U!Idle(Providers[i], url)) \/ Reduced(url, was)

Canonic(u) == ~u[1].upper /\ ~u[1].port /\ u[1].frag = {} /\ Tidy(u)

\* A result has nothing left to remove even with its fragment gone, so the second round
\* does nothing.
ResultAgrees ==
  /\ at = "done" => Canonic(url) /\ (~spared => AllIdle(url))
  /\ round = 2 =>
       /\ Canonic(input)
       /\ ~spared /\ input[1].slashes = 0 =>
            AllIdle(input) /\ url = input /\ (at = "pass" => was = input)

UrlsIInv == U!TypeOK /\ PassAgrees /\ U!NothingLeft /\ ResultAgrees

-----------------------------------------------------------------------------
(* Normalization: what a step makes of a URL.                              *)

LEMMA FirstLayer ==
  ASSUME NEW u, U!IsUrl(u)
  PROVE  /\ u \in Seq(U!Layers) /\ Len(u) \in Nat /\ 1 \in DOMAIN u
         /\ u[1] \in U!Layers /\ u[1].query \in Seq(U!Names) /\ u[1].frag \subseteq U!Names
         /\ ParamsOf(u) \subseteq U!Names
<1>1. u \in Seq(U!Layers) /\ Len(u) \in Nat /\ 1 \in DOMAIN u /\ u[1] \in U!Layers
  BY DEF U!IsUrl
<1>2. u[1].query \in Seq(U!Names) /\ u[1].frag \subseteq U!Names
  BY <1>1 DEF U!Layers
<1>3. QED
  BY <1>1, <1>2 DEF ParamsOf, U!ToSet

LEMMA Relayered ==
  ASSUME NEW u, U!IsUrl(u), NEW l \in U!Layers
  PROVE  /\ U!IsUrl([u EXCEPT ![1] = l]) /\ Len([u EXCEPT ![1] = l]) = Len(u)
         /\ [u EXCEPT ![1] = l][1] = l
BY FirstLayer DEF U!IsUrl

LEMMA StrippedUrl ==
  ASSUME NEW u, U!IsUrl(u), NEW p \in U!Rules
  PROVE  LET s == U!Stripped(p, u) IN
         /\ U!IsUrl(s) /\ Len(s) = Len(u) /\ Tidy(s)
         /\ ParamsOf(s) = ParamsOf(u) \ (p.raw \cup p.fields)
         /\ s[1].frag = u[1].frag \ (p.raw \cup p.fields)
         /\ (Tidy(u) /\ ParamsOf(s) = ParamsOf(u) /\ s[1].frag = u[1].frag => s = u)
<1> DEFINE cut == p.raw \cup p.fields
           sorted == U!Sorted(ParamsOf(u) \ cut)
           l == [u[1] EXCEPT !.query = sorted, !.frag = @ \ cut]
<1>1. sorted \in Seq(U!Names) /\ U!ToSet(sorted) = ParamsOf(u) \ cut
  BY SortedNames, FirstLayer
<1>2. U!Stripped(p, u) = [u EXCEPT ![1] = l]
  BY FirstLayer DEF U!Stripped, U!Layers, ParamsOf
<1> HIDE DEF sorted
<1>3. l \in U!Layers /\ l.query = sorted /\ l.frag = u[1].frag \ cut
  BY <1>1, FirstLayer DEF U!Layers
<1>4. sorted = u[1].query /\ l.frag = u[1].frag => l = u[1]
  BY <1>3, FirstLayer DEF U!Layers
<1> HIDE DEF l
<1> DEFINE s == [u EXCEPT ![1] = l]
<1>5. U!IsUrl(s) /\ Len(s) = Len(u) /\ s[1] = l
  BY <1>3, Relayered
<1>6. l = u[1] => s = u
  BY FirstLayer
<1> HIDE DEF s
<1>7. ParamsOf(s) = ParamsOf(u) \ cut /\ s[1].frag = u[1].frag \ cut
  BY <1>1, <1>3, <1>5 DEF ParamsOf
<1>8. Tidy(s)
  BY <1>3, <1>5, <1>7 DEF Tidy, sorted
<1>9. Tidy(u) /\ ParamsOf(s) = ParamsOf(u) /\ s[1].frag = u[1].frag => s = u
  BY <1>3, <1>4, <1>5, <1>6, <1>7 DEF Tidy, sorted
<1>10. s = U!Stripped(p, u)
  BY <1>2 DEF s
<1>11. QED
  BY <1>5, <1>7, <1>8, <1>9, <1>10

LEMMA CanonicalUrl ==
  ASSUME NEW u, U!IsUrl(u)
  PROVE  LET c == U!Canonical(u) IN
         /\ U!IsUrl(c) /\ Len(c) = Len(u) /\ Canonic(c)
         /\ ParamsOf(c) = ParamsOf(u) /\ c[1].host = u[1].host
         /\ (Canonic(u) /\ u[1].slashes = 0 => c = u)
<1> DEFINE sorted == U!Sorted(ParamsOf(u))
           l == [u[1] EXCEPT !.upper = FALSE, !.port = FALSE, !.frag = {}, !.query = sorted,
                             !.slashes = IF @ = 0 THEN 0 ELSE @ - 1]
<1>1. sorted \in Seq(U!Names) /\ U!ToSet(sorted) = ParamsOf(u)
  BY SortedNames, FirstLayer
<1>2. U!Canonical(u) = [u EXCEPT ![1] = l]
  BY FirstLayer DEF U!Canonical, U!Layers, ParamsOf
<1> HIDE DEF sorted
<1>3. /\ l \in U!Layers /\ l.query = sorted /\ l.frag = {} /\ l.host = u[1].host
      /\ l.upper = FALSE /\ l.port = FALSE
  <2>1. u[1].slashes \in Nat /\ u[1] \in U!Layers
    BY FirstLayer DEF U!Layers
  <2>2. (IF u[1].slashes = 0 THEN 0 ELSE u[1].slashes - 1) \in Nat
    BY <2>1
  <2>3. QED
    BY <1>1, <2>1, <2>2 DEF U!Layers
<1>4. sorted = u[1].query /\ ~u[1].upper /\ ~u[1].port /\ u[1].frag = {} /\ u[1].slashes = 0 => l = u[1]
  <2>1. u[1].upper \in BOOLEAN /\ u[1].port \in BOOLEAN /\ u[1] \in U!Layers
    BY FirstLayer DEF U!Layers
  <2>2. u[1] = [host |-> u[1].host, upper |-> u[1].upper, port |-> u[1].port, slashes |-> u[1].slashes,
                query |-> u[1].query, frag |-> u[1].frag]
    BY <2>1 DEF U!Layers
  <2>3. SUFFICES ASSUME sorted = u[1].query, u[1].upper = FALSE, u[1].port = FALSE, u[1].frag = {}, u[1].slashes = 0
                 PROVE  l = u[1]
    BY <2>1
  <2>4. QED
    BY <2>2, <2>3
<1> HIDE DEF l
<1> DEFINE c == [u EXCEPT ![1] = l]
<1>5. U!IsUrl(c) /\ Len(c) = Len(u) /\ c[1] = l
  BY <1>3, Relayered
<1>6. l = u[1] => c = u
  BY FirstLayer
<1> HIDE DEF c
<1>7. ParamsOf(c) = ParamsOf(u) /\ c[1].host = u[1].host
  BY <1>1, <1>3, <1>5 DEF ParamsOf
<1>8. Canonic(c)
  BY <1>3, <1>5, <1>7 DEF Tidy, sorted, Canonic
<1>9. Canonic(u) /\ u[1].slashes = 0 => c = u
  BY <1>4, <1>6 DEF Tidy, sorted, Canonic
<1>10. c = U!Canonical(u)
  BY <1>2 DEF c
<1>11. QED
  BY <1>5, <1>7, <1>8, <1>9, <1>10

LEMMA TargetUrl ==
  ASSUME NEW u, U!IsUrl(u), Len(u) > 1
  PROVE  U!IsUrl(U!Target(u)) /\ Len(U!Target(u)) < Len(u)
<1>0. u \in Seq(U!Layers) /\ Len(u) \in {2, 3} /\ u[2] \in U!Layers /\ (Len(u) = 3 => u[3] \in U!Layers)
  BY DEF U!IsUrl
<1>1. CASE Len(u) = 2
  <2>1. U!Target(u) = <<u[2]>>
    BY <1>1 DEF U!Target
  <2>2. QED
    BY <1>0, <1>1, <2>1 DEF U!IsUrl
<1>2. CASE Len(u) = 3
  <2>1. u[3] \in U!Layers
    BY <1>0, <1>2
  <2> DEFINE inner == u[3]
             rest == IF inner.query = <<>> THEN <<>> ELSE Tail(inner.query)
             first == IF inner.query = <<>> THEN <<>> ELSE <<Head(inner.query)>>
             outer == [u[2] EXCEPT !.query = @ \o rest, !.frag = @ \cup inner.frag]
             last == [inner EXCEPT !.query = first, !.frag = {}]
  <2>2. inner.query \in Seq(U!Names) /\ u[2].query \in Seq(U!Names)
    BY <1>0, <2>1 DEF U!Layers
  <2>3. rest \in Seq(U!Names) /\ first \in Seq(U!Names)
    <3>1. inner.query # <<>> => Head(inner.query) \in U!Names /\ Tail(inner.query) \in Seq(U!Names)
      BY <2>2
    <3>2. <<>> \in Seq(U!Names)
      OBVIOUS
    <3>3. QED
      BY <3>1, <3>2
  <2>4. u[2].query \o rest \in Seq(U!Names)
    BY <2>2, <2>3
  <2>5. U!Target(u) = <<outer, last>>
    <3>1. Len(u) # 2
      BY <1>2
    <3>2. QED
      BY <3>1 DEF U!Target
  <2> HIDE DEF rest, first
  <2>6. outer \in U!Layers
    BY <1>0, <2>1, <2>4 DEF U!Layers
  <2>7. last \in U!Layers
    BY <2>1, <2>3 DEF U!Layers
  <2> HIDE DEF outer, last
  <2>8. QED
    BY <1>2, <2>5, <2>6, <2>7 DEF U!IsUrl
<1>3. QED
  BY <1>0, <1>1, <1>2

-----------------------------------------------------------------------------
(* Normalization: the steps.                                               *)

LEMMA ProviderTyped ==
  /\ \A i \in 1..Len(Providers) : Providers[i] \in U!Rules /\ Providers[i] \in U!ToSet(Providers)
  /\ \A p \in U!ToSet(Providers) : \E i \in 1..Len(Providers) : p = Providers[i]
  /\ Len(Providers) \in Nat
<1>1. DOMAIN Providers = 1..Len(Providers) /\ Len(Providers) \in Nat
  BY UrlsAssumption
<1>2. QED
  BY <1>1, UrlsAssumption DEF U!ToSet

\* A provider that is idle changes nothing but the order of the parameters.
LEMMA IdleStrips ==
  ASSUME NEW u, U!IsUrl(u), NEW p \in U!Rules, Tidy(u), U!Idle(p, u), U!Matches(p, u)
  PROVE  ~U!Redirects(p, u) /\ U!Stripped(p, u) = u
<1>1. ~U!Redirects(p, u) /\ (ParamsOf(u) \cup u[1].frag) \cap (p.raw \cup p.fields) = {}
  BY DEF U!Idle, ParamsOf
<1>2. ParamsOf(u) \ (p.raw \cup p.fields) = ParamsOf(u) /\ u[1].frag \ (p.raw \cup p.fields) = u[1].frag
  BY <1>1
<1>3. QED
  BY <1>1, <1>2, StrippedUrl

\* And one that strips has changed the URL, or has nothing to do.
LEMMA StripsProgress ==
  ASSUME NEW u, U!IsUrl(u), NEW p \in U!Rules, ~U!Redirects(p, u)
  PROVE  (U!Stripped(p, u) = u /\ U!Idle(p, u)) \/ Reduced(U!Stripped(p, u), u)
<1> DEFINE s == U!Stripped(p, u)
           cut == p.raw \cup p.fields
<1>1. /\ Tidy(s) /\ ParamsOf(s) = ParamsOf(u) \ cut /\ s[1].frag = u[1].frag \ cut
      /\ (Tidy(u) /\ ParamsOf(s) = ParamsOf(u) /\ s[1].frag = u[1].frag => s = u)
  BY StrippedUrl
<1> HIDE DEF s
<1>2. CASE s = u
  <2>1. (ParamsOf(u) \cup u[1].frag) \cap cut = {}
    BY <1>1, <1>2
  <2>2. U!Idle(p, u)
    BY <2>1 DEF U!Idle, ParamsOf
  <2>3. QED
    BY <1>2, <2>2 DEF s
<1>3. CASE s # u
  <2>1. Reduced(s, u)
    BY <1>1, <1>3 DEF Reduced
  <2>2. QED
    BY <2>1 DEF s
<1>4. QED
  BY <1>2, <1>3

LEMMA StaysReduced ==
  ASSUME NEW u, U!IsUrl(u), NEW w, U!IsUrl(w), NEW p \in U!Rules, Reduced(u, w)
  PROVE  Reduced(U!Stripped(p, u), w)
<1> DEFINE s == U!Stripped(p, u)
           cut == p.raw \cup p.fields
<1>1. Len(s) = Len(u) /\ Tidy(s) /\ ParamsOf(s) = ParamsOf(u) \ cut /\ s[1].frag = u[1].frag \ cut
  BY StrippedUrl
<1> HIDE DEF s
<1>2. Reduced(s, w)
  BY <1>1 DEF Reduced
<1>3. QED
  BY <1>2 DEF s

LEMMA ReducedDiffers ==
  ASSUME NEW u, U!IsUrl(u), Reduced(u, u)
  PROVE  FALSE
BY FirstLayer DEF Reduced

LEMMA ApplyStep ==
  ASSUME UrlsIInv, U!Apply
  PROVE  UrlsIInv'
<1> DEFINE p == Providers[next]
           n == Len(Providers)
<1>0. /\ U!IsUrl(url) /\ U!IsUrl(was) /\ U!IsUrl(input) /\ next \in 1..n /\ n \in Nat
      /\ at = "pass" /\ round \in 1..2 /\ spared \in BOOLEAN
  BY ProviderTyped DEF U!Apply, UrlsIInv, U!TypeOK
<1>1. p \in U!Rules /\ p \in U!ToSet(Providers) /\ Len(url) \in Nat /\ Len(was) \in Nat
  BY <1>0, ProviderTyped, FirstLayer
<1>2. PassAgrees /\ ResultAgrees
  BY DEF UrlsIInv
<1>3. UNCHANGED <<input, was, at, round, spared>>
  BY DEF U!Apply
<1> HIDE DEF p
<1>4. CASE U!Matches(p, url) /\ U!Redirects(p, url)
  <2>1. url' = U!Target(url) /\ next' = n + 1
    BY <1>4 DEF U!Apply, p
  <2>2. Len(url) > 1
    BY <1>4 DEF U!Redirects
  <2>3. U!IsUrl(url') /\ Len(url') < Len(url) /\ Len(url') \in Nat
    BY <1>0, <2>1, <2>2, TargetUrl, FirstLayer
  <2>4. U!TypeOK'
    BY <1>0, <1>3, <2>1, <2>3 DEF U!TypeOK
  <2>5. Reduced(url', was) /\ Len(url') <= Len(was)
    BY <1>0, <1>1, <1>2, <2>3 DEF Reduced, PassAgrees
  <2>6. ~(round = 2 /\ ~spared /\ input[1].slashes = 0)
    BY <1>1, <1>2, <1>4 DEF ResultAgrees, AllIdle, U!Idle
  <2>7. QED
    BY <1>0, <1>2, <1>3, <2>4, <2>5, <2>6 DEF UrlsIInv, PassAgrees, U!NothingLeft, ResultAgrees
<1>5. CASE ~(U!Matches(p, url) /\ U!Redirects(p, url))
  <2>1. url' = (IF U!Matches(p, url) THEN U!Stripped(p, url) ELSE url) /\ next' = next + 1
    BY <1>5 DEF U!Apply, p
  <2>2. U!IsUrl(url') /\ Len(url') = Len(url)
    BY <1>0, <1>1, <2>1, StrippedUrl
  <2>3. U!TypeOK'
    BY <1>0, <1>3, <2>1, <2>2 DEF U!TypeOK
  <2>4. (url' = url /\ U!Idle(p, url)) \/ Reduced(url', url)
    BY <1>0, <1>1, <1>5, <2>1, StripsProgress DEF U!Idle
  <2>5. PassAgrees'
    <3>1. CASE Reduced(url, was)
      <4>1. Reduced(url', was)
        BY <1>0, <1>1, <2>1, <3>1, StaysReduced
      <4>2. QED
        BY <1>0, <1>2, <1>3, <2>2, <4>1 DEF PassAgrees
    <3>2. CASE url = was /\ \A i \in 1..(next - 1) : U!Idle(Providers[i], url)
      <4>1. CASE Reduced(url', url)
        BY <1>0, <1>2, <1>3, <2>2, <3>2, <4>1 DEF PassAgrees
      <4>2. CASE url' = url /\ U!Idle(p, url)
        <5>1. \A i \in 1..next : U!Idle(Providers[i], url)
          BY <1>0, <3>2, <4>2 DEF p
        <5>2. QED
          BY <1>0, <1>2, <1>3, <2>1, <2>2, <3>2, <4>2, <5>1 DEF PassAgrees
      <4>3. QED
        BY <2>4, <4>1, <4>2
    <3>3. QED
      BY <1>0, <1>2, <3>1, <3>2 DEF PassAgrees
  <2>6. ResultAgrees'
    <3>1. CASE round = 2 /\ ~spared /\ input[1].slashes = 0
      <4>1. Canonic(input) /\ AllIdle(input) /\ url = input
        BY <1>2, <3>1 DEF ResultAgrees
      <4>2. U!Idle(p, url) /\ Tidy(url)
        BY <1>1, <4>1 DEF AllIdle, Canonic
      <4>3. url' = url
        BY <1>0, <1>1, <2>1, <4>2, IdleStrips
      <4>4. QED
        BY <1>0, <1>2, <1>3, <4>3 DEF ResultAgrees
    <3>2. CASE ~(round = 2 /\ ~spared /\ input[1].slashes = 0)
      BY <1>0, <1>2, <1>3, <3>2 DEF ResultAgrees
    <3>3. QED
      BY <3>1, <3>2
  <2>7. QED
    BY <1>0, <1>3, <2>3, <2>5, <2>6 DEF UrlsIInv, U!NothingLeft
<1>6. QED
  BY <1>4, <1>5

LEMMA AgainStep ==
  ASSUME UrlsIInv, U!Again
  PROVE  UrlsIInv'
<1>0. /\ U!IsUrl(url) /\ U!IsUrl(was) /\ next > Len(Providers) /\ at = "pass" /\ PassAgrees /\ ResultAgrees
      /\ next = Len(Providers) + 1 /\ Len(url) \in Nat
  BY ProviderTyped, FirstLayer DEF U!Again, UrlsIInv, U!TypeOK
<1>1. CASE url = was
  <2>1. at' = "canonicalize" /\ UNCHANGED <<input, url, was, next, round, spared>>
    BY <1>1 DEF U!Again
  <2>2. ~Reduced(url, was)
    BY <1>0, <1>1, ReducedDiffers
  <2>3. \A p \in U!ToSet(Providers) : U!Idle(p, url)
    BY <1>0, <2>2, ProviderTyped DEF PassAgrees
  <2>4. QED
    BY <1>0, <2>1, <2>3 DEF UrlsIInv, U!TypeOK, PassAgrees, U!NothingLeft, ResultAgrees
<1>2. CASE url # was
  <2>1. was' = url /\ next' = 1 /\ UNCHANGED <<at, input, url, round, spared>>
    BY <1>2 DEF U!Again
  <2>2. U!TypeOK'
    BY <2>1, ProviderTyped DEF UrlsIInv, U!TypeOK
  <2>3. QED
    BY <1>0, <2>1, <2>2 DEF UrlsIInv, PassAgrees, U!NothingLeft, ResultAgrees
<1>3. QED
  BY <1>1, <1>2

LEMMA CanonicalizeStep ==
  ASSUME UrlsIInv, U!Canonicalize
  PROVE  UrlsIInv'
<1>0. /\ U!IsUrl(url) /\ at = "canonicalize" /\ ResultAgrees /\ AllIdle(url)
      /\ url' = U!Canonical(url) /\ at' = "done" /\ UNCHANGED <<input, was, next, round>>
      /\ spared \in BOOLEAN /\ round \in 1..2
  BY DEF U!Canonicalize, UrlsIInv, U!TypeOK, U!NothingLeft, AllIdle
<1>1. /\ U!IsUrl(url') /\ Len(url') = Len(url) /\ Canonic(url')
      /\ ParamsOf(url') = ParamsOf(url) /\ url'[1].host = url[1].host
      /\ (Canonic(url) /\ url[1].slashes = 0 => url' = url)
  BY <1>0, CanonicalUrl
<1>2. /\ spared' \in BOOLEAN
      /\ ~spared' => ~spared /\ \A p \in U!ToSet(Providers) : url[1].host \in p.hosts => p.unless \cap url[1].frag = {}
  BY <1>0 DEF U!Canonicalize
<1>3. ~spared' => AllIdle(url')
  <2> SUFFICES ASSUME ~spared', NEW p \in U!ToSet(Providers), U!Matches(p, url')
               PROVE  /\ ~U!Redirects(p, url')
                      /\ (ParamsOf(url') \cup url'[1].frag) \cap (p.raw \cup p.fields) = {}
    BY DEF AllIdle, U!Idle, ParamsOf
  <2>1. url'[1].host \in p.hosts /\ p.unless \cap (ParamsOf(url') \cup url'[1].frag) = {}
    BY DEF U!Matches, ParamsOf
  <2>2. p.unless \cap (ParamsOf(url) \cup url[1].frag) = {} /\ url[1].host \in p.hosts
    BY <1>1, <1>2, <2>1
  <2>3. U!Matches(p, url)
    BY <2>2 DEF U!Matches, ParamsOf
  <2>4. ~U!Redirects(p, url) /\ (ParamsOf(url) \cup url[1].frag) \cap (p.raw \cup p.fields) = {}
    BY <1>0, <2>3 DEF AllIdle, U!Idle, ParamsOf
  <2>5. QED
    BY <1>1, <2>4 DEF U!Redirects, Canonic
<1>4. ResultAgrees'
  <2>1. ASSUME round = 2, ~spared', input[1].slashes = 0 PROVE AllIdle(input) /\ url' = input
    BY <1>0, <1>1, <1>2, <2>1 DEF ResultAgrees
  <2>2. QED
    BY <1>0, <1>1, <1>3, <2>1 DEF ResultAgrees
<1>5. QED
  BY <1>0, <1>1, <1>2, <1>4 DEF UrlsIInv, U!TypeOK, PassAgrees, U!NothingLeft

LEMMA NormalizeAgainStep ==
  ASSUME UrlsIInv, U!NormalizeAgain
  PROVE  UrlsIInv'
<1>1. /\ U!IsUrl(url) /\ Len(url) \in Nat /\ at = "done" /\ ResultAgrees
      /\ input' = url /\ was' = url /\ next' = 1 /\ at' = "pass" /\ round' = 2 /\ UNCHANGED <<url, spared>>
  BY FirstLayer DEF U!NormalizeAgain, UrlsIInv, U!TypeOK
<1>2. U!TypeOK'
  BY <1>1, ProviderTyped DEF UrlsIInv, U!TypeOK
<1>3. QED
  BY <1>1, <1>2 DEF UrlsIInv, PassAgrees, U!NothingLeft, ResultAgrees, AllIdle

\* The passes of ClearURLs and what becomes of the second round: the inductive invariant
\* of the normalization, for any ruleset and any URLs of up to three layers.
THEOREM UrlsInvariance == U!Spec => []UrlsIInv
<1>1. U!Init => UrlsIInv
  <2> SUFFICES ASSUME U!Init PROVE UrlsIInv
    OBVIOUS
  <2>1. U!IsUrl(input) /\ Len(input) \in Nat
    BY UrlsAssumption, FirstLayer DEF U!Init
  <2>2. U!TypeOK
    <3>1. 1 \in 1..(Len(Providers) + 1)
      BY ProviderTyped
    <3>2. U!IsUrl(url) /\ U!IsUrl(was)
      BY <2>1, Zenon DEF U!Init
    <3>3. /\ next \in 1..(Len(Providers) + 1) /\ at \in {"pass", "canonicalize", "done"}
          /\ round \in 1..2 /\ spared \in BOOLEAN
      <4>1. next = 1 /\ at = "pass" /\ round = 1 /\ spared = FALSE
        BY DEF U!Init
      <4>2. next \in 1..(Len(Providers) + 1)
        BY <3>1, <4>1
      <4>3. at \in {"pass", "canonicalize", "done"} /\ round \in 1..2
        BY <4>1
      <4>4. spared \in BOOLEAN
        BY <4>1
      <4>5. QED
        BY <4>2, <4>3, <4>4
    <3>4. QED
      BY <2>1, <3>2, <3>3 DEF U!TypeOK
  <2>3. QED
    BY <2>1, <2>2 DEF U!Init, UrlsIInv, PassAgrees, U!NothingLeft, ResultAgrees
<1>2. UrlsIInv /\ [U!Next]_U!vars => UrlsIInv'
  <2> SUFFICES ASSUME UrlsIInv, [U!Next]_U!vars PROVE UrlsIInv'
    OBVIOUS
  <2>1. CASE UNCHANGED U!vars
    BY <2>1 DEF U!vars, UrlsIInv, U!TypeOK, PassAgrees, U!NothingLeft, ResultAgrees, AllIdle
  <2>2. QED
    BY <2>1, ApplyStep, AgainStep, CanonicalizeStep, NormalizeAgainStep DEF U!Next
<1>3. QED
  BY <1>1, <1>2, PTL DEF U!Spec

\* ClearURLs.Normalize, "until a pass produces no change": when it ends, no provider has
\* anything left to remove or unwrap.
THEOREM PassesEnd == U!Spec => []NothingLeft
<1>1. UrlsIInv => NothingLeft
  BY DEF UrlsIInv, NothingLeft
<1>2. QED
  BY <1>1, UrlsInvariance, PTL

\* Pipeline.Normalize, normalized_url as a key: the normalized URL of a normalized URL is
\* itself, unless its path still ends in a slash or an exception was in the fragment.
THEOREM KeyIsStable == U!Spec => []StableKey
<1>1. UrlsIInv => StableKey
  BY DEF UrlsIInv, ResultAgrees, StableKey, U!StableKey
<1>2. QED
  BY <1>1, UrlsInvariance, PTL

-----------------------------------------------------------------------------
(* The parts of the server together.                                       *)

\* The server that the run explores behaves as each of its parts: what is proved of a
\* part holds of it.
THEOREM ServerParts == ServerSpec => Spec /\ S!Spec /\ G!Spec /\ U!Spec
<1>1. ServerInit => Init /\ S!Init /\ G!Init /\ U!Init
  <2>1. (CHOOSE u \in Urls : TRUE) \in Urls
    BY UrlsAssumption
  <2>2. QED
    BY <2>1 DEF ServerInit, U!Init
<1>2. [ServerNext]_<<part, vars, sVars, gVars, uVars>> =>
        [Next]_vars /\ [S!Next]_S!vars /\ [G!Next]_G!vars /\ [U!Next]_U!vars
  BY DEF ServerNext, AccountsStep, SessionsStep, GcStep, UrlsStep, vars, sVars, gVars, uVars,
         S!vars, G!vars, U!vars
<1>3. QED
  BY <1>1, <1>2, PTL DEF ServerSpec, Spec, S!Spec, G!Spec, U!Spec

===============================================================================
