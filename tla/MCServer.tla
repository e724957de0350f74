------------------------------- MODULE MCServer -------------------------------
(***************************************************************************)
(* The server beside its pipeline: the accounts and their pairing tokens,  *)
(* the sessions, the archive's garbage collection and the normalization of *)
(* URLs.  The four share no state, so no interleaving of two of them is    *)
(* worth exploring: part says which of them takes the steps of a behaviour *)
(* and the others stay in their initial state.                             *)
(***************************************************************************)
EXTENDS Accounts, Sequences

CONSTANTS
  Requests, MaxCreds, MaxResets,
  Dirs, Grace, MinFiles, MaxClock, MaxRenders,
  Hosts, Urls, Providers, Params

\* Of the parts that are instantiated.
ASSUME ServerAssumption ==
  /\ MaxCreds \in Nat /\ MaxResets \in Nat
  /\ Grace \in Nat \ {0} /\ MinFiles \in Nat /\ MaxClock \in Nat /\ MaxRenders \in Nat
  /\ None \notin Dirs

VARIABLES
  part,
  password, creds, made, request, reset, kept,
  clock, disk, writer, rows, favicon, deleting, sweep, renders, wrote, late,
  input, url, was, next, at, round, spared

-----------------------------------------------------------------------------
(* URLs of up to three layers, and rules for four hosts.                   *)

MCParams == <<"a", "ref", "utm", "x">>
Queries == {<<>>, <<"a">>, <<"utm">>, <<"utm", "a">>, <<"x", "a", "utm">>, <<"ref", "a">>}
Targets == [host : {"site", "shop"}, upper : BOOLEAN, port : {FALSE}, slashes : 0..2, query : Queries,
            frag : {{}, {"utm"}, {"x"}}]
Wrappers == [host : {"wrap", "jump"}, upper : {FALSE}, port : {FALSE}, slashes : {0},
             query : {<<>>, <<"utm">>, <<"x">>}, frag : {{}}]
MCUrls == {<<t>> : t \in Targets} \cup {<<w, t>> : w \in Wrappers, t \in Targets}
            \cup {<<w, v, t>> : w, v \in Wrappers, t \in Targets}
Rule(hosts, unless, unwraps, raw, fields) ==
  [hosts |-> hosts, unless |-> unless, unwraps |-> unwraps, raw |-> raw, fields |-> fields]
MCProviders ==
  << Rule({"jump"}, {"x"}, TRUE, {}, {}),
     Rule({"site", "shop", "wrap", "jump"}, {"ref"}, FALSE, {}, {"utm"}),
     Rule({"wrap"}, {}, TRUE, {}, {}),
     Rule({"shop"}, {}, FALSE, {"ref"}, {"x"}) >>

-----------------------------------------------------------------------------
S == INSTANCE Sessions
G == INSTANCE Gc
U == INSTANCE Urlnorm

\* The names of Params are in alphabetical order, the rules in that of the file.
ASSUME UrlsAssumption ==
  /\ Params \in Seq(STRING) /\ Providers \in Seq(U!Rules)
  /\ Urls # {} /\ \A u \in Urls : U!IsUrl(u)

\* None stands for an absent row, and for no deletion.
ASSUME NoneAssumption == None \notin [latest : Dirs \cup {None}] /\ \A names \in SUBSET G!Names : None # names

sVars == <<password, creds, made, request, reset, kept>>
gVars == <<clock, disk, writer, rows, favicon, deleting, sweep, renders, wrote, late>>
uVars == <<input, url, was, next, at, round, spared>>

ServerInit ==
  /\ part \in {"accounts", "sessions", "gc", "urls"}
  /\ Init /\ S!Init /\ G!Init
  /\ input \in IF part = "urls" THEN Urls ELSE {CHOOSE u \in Urls : TRUE}
  /\ url = input /\ was = input /\ next = 1 /\ at = "pass" /\ round = 1 /\ spared = FALSE

AccountsStep == part = "accounts" /\ Next /\ UNCHANGED <<part, sVars, gVars, uVars>>
SessionsStep == part = "sessions" /\ S!Next /\ UNCHANGED <<part, vars, gVars, uVars>>
GcStep == part = "gc" /\ G!Next /\ UNCHANGED <<part, vars, sVars, uVars>>
UrlsStep == part = "urls" /\ U!Next /\ UNCHANGED <<part, vars, sVars, gVars>>

ServerNext == AccountsStep \/ SessionsStep \/ GcStep \/ UrlsStep
ServerSpec == ServerInit /\ [][ServerNext]_<<part, vars, sVars, gVars, uVars>>

-----------------------------------------------------------------------------
\* runUserResetPassword: no session made with the old password outlives a reset that
\* could delete the sessions, but that of a login under way.
SessionsInv == S!TypeOK /\ S!ResetEndsSessions

\* gc.Run: nothing that a row refers to is removed, whatever is written or deleted
\* during the sweep, but for files past the grace period that the query did not list.
GcInv == G!TypeOK /\ G!ReferencedExists

\* gc.Run, TooManyOrphansError: an unforced sweep spares half of the files, and a sweep
\* that ends has removed what was orphaned and old, as far as it could.
SweepExact == G!UnforcedSparesHalf /\ G!SweepComplete

\* ClearURLs.Normalize: when it ends no provider has anything left to remove or unwrap.
NothingLeft == U!TypeOK /\ U!NothingLeft

\* Pipeline.Normalize: a normalized URL is the normalized URL of itself, unless its
\* path ended in two slashes or an exception had matched in the fragment it dropped.
StableKey == U!StableKey
=============================================================================
