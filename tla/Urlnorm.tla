------------------------------- MODULE Urlnorm --------------------------------
(***************************************************************************)
(* The normalized URL, by which pages and links are told apart: the        *)
(* ClearURLs step, which runs passes over the providers of the ruleset in  *)
(* file order until one changes nothing, then Canonicalize.                *)
(*                                                                         *)
(* A URL is the sequence of its layers: a wrapper, whose query holds the   *)
(* next layer percent-encoded, before its target.  A layer has a host, its *)
(* spelling (letter case, default port, slashes at the end of its path),   *)
(* its query parameters in order and the parameters of its fragment.       *)
(* Abstracted: patterns are sets of hosts and of parameter names, a raw    *)
(* rule among them; parameter values (a name stands for all of its own),   *)
(* and URLs that do not parse.  Bound: a URL has at most three layers.     *)
(*                                                                         *)
(* Every result is normalized a second time, as when a link is saved again *)
(* by the URL that CleanLinkURL made of its normalized one.                *)
(***************************************************************************)
EXTENDS Naturals, Sequences, SequencesExt

CONSTANTS
  Hosts,
  Urls,       \* the URLs that are normalized
  Providers,  \* the ruleset: a sequence of [hosts, unless, unwraps, raw, fields]
  Params      \* the parameter names, as a sequence in alphabetical order

VARIABLES
  input,  \* the URL of this round
  url,    \* the URL so far
  was,    \* the URL at the start of the pass
  next,   \* the provider that the pass is at
  at,     \* "pass", "canonicalize" or "done"
  round,  \* 1, or 2 for the result normalized again
  spared  \* history: the fragment that was dropped had held an exception

vars == <<input, url, was, next, at, round, spared>>

Names == ToSet(Params)
Layers == [host : Hosts, upper : BOOLEAN, port : BOOLEAN, slashes : Nat,
           query : Seq(Names), frag : SUBSET Names]
Rules == [hosts : SUBSET Hosts, unless : SUBSET Names, unwraps : BOOLEAN,
          raw : SUBSET Names, fields : SUBSET Names]
IsUrl(u) == u \in Seq(Layers) /\ Len(u) \in 1..3

TypeOK ==
  /\ IsUrl(input) /\ IsUrl(url) /\ IsUrl(was)
  /\ next \in 1..(Len(Providers) + 1)
  /\ at \in {"pass", "canonicalize", "done"}
  /\ round \in 1..2 /\ spared \in BOOLEAN

Init ==
  /\ input \in Urls
  /\ url = input /\ was = input
  /\ next = 1 /\ at = "pass" /\ round = 1 /\ spared = FALSE

\* Values.Encode: the parameters of these names, in alphabetical order.
Sorted(names) ==
  LET upTo[i \in 0..Len(Params)] ==
        IF i = 0 THEN <<>>
        ELSE IF Params[i] \in names THEN Append(upTo[i - 1], Params[i]) ELSE upTo[i - 1]
  IN upTo[Len(Params)]

\* matchURL: an exception matches anywhere in the URL, its fragment too.
Matches(p, u) ==
  /\ u[1].host \in p.hosts
  /\ p.unless \cap (ToSet(u[1].query) \cup u[1].frag) = {}

Redirects(p, u) == p.unwraps /\ Len(u) > 1

\* decodeRedirectTarget decodes until nothing is left to decode, so what the target has
\* wrapped is decoded with it: all but its first parameter become the target's own.
Target(u) ==
  IF Len(u) = 2 THEN <<u[2]>>
  ELSE LET inner == u[3] IN
       << [u[2] EXCEPT !.query = @ \o (IF inner.query = <<>> THEN <<>> ELSE Tail(inner.query)),
                       !.frag = @ \cup inner.frag],
          [inner EXCEPT !.query = IF @ = <<>> THEN @ ELSE <<Head(@)>>, !.frag = {}] >>

\* apply, past the redirections: the raw rules, then the field rules on the query, which
\* Encode sorts, and on the fragment.
Stripped(p, u) ==
  [u EXCEPT ![1].query = Sorted(ToSet(@) \ (p.raw \cup p.fields)),
            ![1].frag = @ \ (p.raw \cup p.fields)]

\* Canonicalize.Normalize: of the slashes at the end of the path one goes.
Canonical(u) ==
  [u EXCEPT ![1].upper = FALSE, ![1].port = FALSE, ![1].frag = {}, ![1].query = Sorted(ToSet(@)),
            ![1].slashes = IF @ = 0 THEN 0 ELSE @ - 1]

-----------------------------------------------------------------------------
\* pass: one provider that matches.  A redirection ends the pass.
Apply ==
  /\ at = "pass" /\ next <= Len(Providers)
  /\ LET p == Providers[next] IN
     IF Matches(p, url) /\ Redirects(p, url)
     THEN url' = Target(url) /\ next' = Len(Providers) + 1
     ELSE /\ url' = IF Matches(p, url) THEN Stripped(p, url) ELSE url
          /\ next' = next + 1
  /\ UNCHANGED <<input, was, at, round, spared>>

\* Mutant: one pass, whatever it changed.
AgainOnce ==
  /\ at = "pass" /\ next > Len(Providers)
  /\ at' = "canonicalize"
  /\ UNCHANGED <<input, url, was, next, round, spared>>

\* ClearURLs.Normalize: another pass, unless this one has changed nothing.
Again ==
  /\ at = "pass" /\ next > Len(Providers)
  /\ IF url = was THEN at' = "canonicalize" /\ UNCHANGED <<was, next>>
                  ELSE was' = url /\ next' = 1 /\ UNCHANGED at
  /\ UNCHANGED <<input, url, round, spared>>

Canonicalize ==
  /\ at = "canonicalize"
  /\ url' = Canonical(url)
  /\ at' = "done"
  /\ spared' = (spared \/ \E p \in ToSet(Providers) : url[1].host \in p.hosts /\ p.unless \cap url[1].frag # {})
  /\ UNCHANGED <<input, was, next, round>>

\* The result is normalized in its turn.
NormalizeAgain ==
  /\ at = "done" /\ round = 1
  /\ input' = url /\ was' = url /\ next' = 1 /\ at' = "pass" /\ round' = 2
  /\ UNCHANGED <<url, spared>>

Next == Apply \/ Again \/ Canonicalize \/ NormalizeAgain

Spec == Init /\ [][Next]_vars

-----------------------------------------------------------------------------
\* What a provider would still remove or unwrap: nothing.
Idle(p, u) ==
  Matches(p, u) => ~Redirects(p, u) /\ (ToSet(u[1].query) \cup u[1].frag) \cap (p.raw \cup p.fields) = {}

\* ClearURLs.Normalize, "until a pass produces no change": what a redirection skips or
\* uncovers is found by a later pass, and nothing that a provider would still remove or
\* unwrap is left.
NothingLeft ==
  at = "canonicalize" => \A p \in ToSet(Providers) : Idle(p, url)

\* normalized_url is a key that has to be stable: normalizing it again gives it back,
\* when its path does not end in a second slash and no exception was in the fragment.
StableKey ==
  at = "done" /\ round = 2 /\ input[1].slashes = 0 /\ ~spared => url = input
=============================================================================
