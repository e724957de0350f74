------------------------------- MODULE Curation -------------------------------
(***************************************************************************)
(* What users put around their pages and links: tags, collections and the  *)
(* relations of pages and links, edited by requests that overlap with each *)
(* other, with deletions and with the AI job that tags a page.             *)
(*                                                                         *)
(* A request checks in one query that a row is its user's and writes in a  *)
(* later one.  Rows of the four tables share one numbering here, and the   *)
(* seven relation tables are one set of pairs with the source of the pair: *)
(* the kinds of its two rows say which table it is in.  Abstracted: names  *)
(* are model values with the slug that SlugOf gives them; descriptions and *)
(* the listings, which change nothing.                                     *)
(***************************************************************************)
EXTENDS Naturals, FiniteSets

CONSTANTS
  Users,
  Requests,   \* requests that may overlap
  Starts,     \* the rows that there may be at the start
  Tagged,     \* the pages of the start with an AI job
  Names, SlugOf, NoSlug,
  MaxRows,    \* bound: rows ever made
  Nobody

VARIABLES
  rows,     \* id -> row, for the rows that exist
  made,     \* the ids given out
  related,  \* {id, id} -> "manual" or "ai": the rows of the relation tables
  request,  \* what a request has checked so far
  job       \* page -> its AI job: where commitDone is, and the tags it found usable

vars == <<rows, made, related, request, job>>

Live == DOMAIN rows
Owned(id, u) == id \in Live /\ rows[id].user = u
Of(kind) == {id \in Live : rows[id].kind = kind}
Row(kind, u, parent, n, s) == [kind |-> kind, user |-> u, parent |-> parent, name |-> n, slug |-> s]

\* Some rows were made before the start, each of a user, and one of them last; 0 is none.
ASSUME CurationAssumption ==
  /\ IsFiniteSet(Names) /\ MaxRows \in Nat
  /\ \A start \in Starts :
       /\ DOMAIN start \subseteq Nat \ {0}
       /\ \E last \in DOMAIN start : \A i \in DOMAIN start : i <= last
       /\ \A i \in DOMAIN start : "user" \in DOMAIN start[i]

Idle == [at |-> "idle", user |-> Nobody, item |-> 0, other |-> 0, name |-> Nobody]

Init ==
  /\ rows \in Starts /\ made = CHOOSE i \in Live : \A j \in Live : j <= i
  /\ related = <<>>
  /\ request = [r \in Requests |-> Idle]
  /\ job = [p \in Tagged |-> [at |-> "due", tags |-> {}]]

\* The unique constraints: name and slug among the tags of a user, and among the
\* collections of a user under one parent.
Clash(row, but) ==
  \E i \in Live \ {but} :
    /\ rows[i].kind = row.kind /\ rows[i].user = row.user /\ rows[i].parent = row.parent
    /\ rows[i].name = row.name \/ rows[i].slug = row.slug

\* The composite foreign keys: both rows exist and are the same user's.
Accepts(pair) == pair \subseteq Live /\ \A i, j \in pair : rows[i].user = rows[j].user

\* ON CONFLICT DO NOTHING: a pair that is there keeps its source.
Relate(pairs, source) ==
  related' = [p \in DOMAIN related \cup pairs |-> IF p \in DOMAIN related THEN related[p] ELSE source]

Become(r, at) == request' = [request EXCEPT ![r].at = at]
Finish(r) == request' = [request EXCEPT ![r] = Idle]

-----------------------------------------------------------------------------
\* Mutant: the row in the path is looked up by its id alone.
StartUnowned(r, u, item, other, n, at) ==
  /\ request[r].at = "idle"
  /\ item \in Live
  /\ request' = [request EXCEPT ![r] = [at |-> at, user |-> u, item |-> item, other |-> other, name |-> n]]
  /\ UNCHANGED <<rows, made, related, job>>

\* The first check of a request: the row in its path is its user's.
Start(r, u, item, other, n, at) ==
  /\ request[r].at = "idle"
  /\ Owned(item, u)
  /\ request' = [request EXCEPT ![r] = [at |-> at, user |-> u, item |-> item, other |-> other, name |-> n]]
  /\ UNCHANGED <<rows, made, related, job>>

StartTag(r, u, kind) ==
  \E i \in Of(kind), n \in {m \in Names : SlugOf[m] # NoSlug} : Start(r, u, i, 0, n, "tag")
StartAdd(r, u, kind, other) ==
  \E i \in Of(kind), o \in Of(other) : i # o /\ Start(r, u, i, o, Nobody, "check")
StartRemove(r, u, kind, other) ==
  \E i \in Of(kind), o \in Of(other) : i # o /\ Start(r, u, i, o, Nobody, "remove")

AddPageTag(r, u) == StartTag(r, u, "page")
AddLinkTag(r, u) == StartTag(r, u, "link")
AddPageToCollection(r, u) == StartAdd(r, u, "page", "collection")
AddLinkToCollection(r, u) == StartAdd(r, u, "link", "collection")
AddPageRelation(r, u) == StartAdd(r, u, "page", "page")
AddLinkRelation(r, u) == StartAdd(r, u, "link", "link")
AddPageRelatedLink(r, u) == StartAdd(r, u, "page", "link")
AddLinkRelatedPage(r, u) == StartAdd(r, u, "link", "page")
RemovePageTag(r, u) == StartRemove(r, u, "page", "tag")
RemoveLinkTag(r, u) == StartRemove(r, u, "link", "tag")
RemovePageFromCollection(r, u) == StartRemove(r, u, "page", "collection")
RemoveLinkFromCollection(r, u) == StartRemove(r, u, "link", "collection")
RemovePageRelation(r, u) == StartRemove(r, u, "page", "page")
RemoveLinkRelation(r, u) == StartRemove(r, u, "link", "link")
RemovePageRelatedLink(r, u) == StartRemove(r, u, "page", "link")
RemoveLinkRelatedPage(r, u) == StartRemove(r, u, "link", "page")

\* UpsertTag: the user's tag of that name keeps its slug; a new one whose slug another
\* tag has is refused (409).  The tag stays when the relation is refused later.
UpsertTag(r) ==
  LET q == request[r]
      row == Row("tag", q.user, 0, q.name, SlugOf[q.name])
      named == {i \in Of("tag") : rows[i].user = q.user /\ rows[i].name = q.name}
  IN
  /\ q.at = "tag"
  /\ \/ \E i \in named :
          /\ request' = [request EXCEPT ![r].at = "relate", ![r].other = i]
          /\ UNCHANGED <<rows, made>>
     \/ /\ named = {} /\ Clash(row, 0)
        /\ Finish(r)
        /\ UNCHANGED <<rows, made>>
     \/ /\ named = {} /\ ~Clash(row, 0) /\ made < MaxRows
        /\ made' = made + 1
        /\ rows' = [i \in Live \cup {made'} |-> IF i \in Live THEN rows[i] ELSE row]
        /\ request' = [request EXCEPT ![r].at = "relate", ![r].other = made']
  /\ UNCHANGED <<related, job>>

\* The second check of a request that adds: the other row is its user's, or 404.
CheckOther(r) ==
  /\ request[r].at = "check"
  /\ IF Owned(request[r].other, request[r].user) THEN Become(r, "relate") ELSE Finish(r)
  /\ UNCHANGED <<rows, made, related, job>>

\* Mutant: the insert trusts the checks of the request.
AddRelatedUnchecked(r) ==
  /\ request[r].at = "relate"
  /\ Relate({{request[r].item, request[r].other}}, "manual")
  /\ Finish(r)
  /\ UNCHANGED <<rows, made, job>>

\* The insert of a request, which Postgres refuses when one of the rows is gone.
AddRelated(r) ==
  LET pair == {request[r].item, request[r].other} IN
  /\ request[r].at = "relate"
  /\ IF Accepts(pair) THEN Relate({pair}, "manual") ELSE UNCHANGED related
  /\ Finish(r)
  /\ UNCHANGED <<rows, made, job>>

\* The delete of a request: only the first row was checked.
RemoveRelated(r) ==
  /\ request[r].at = "remove"
  /\ related' = [p \in DOMAIN related \ {{request[r].item, request[r].other}} |-> related[p]]
  /\ Finish(r)
  /\ UNCHANGED <<rows, made, job>>

-----------------------------------------------------------------------------
\* CreateCollection: the parent, when one is given, is the user's.
CreateCollection(r, u, n) ==
  /\ request[r].at = "idle"
  /\ \E parent \in {0} \cup {c \in Of("collection") : Owned(c, u)} :
       request' = [request EXCEPT ![r] = [Idle EXCEPT !.at = "nest", !.user = u, !.other = parent, !.name = n]]
  /\ UNCHANGED <<rows, made, related, job>>

\* Its insert: refused when the parent is gone, or the name or the slug is taken there.
InsertCollection(r) ==
  LET q == request[r]  row == Row("collection", q.user, q.other, q.name, SlugOf[q.name]) IN
  /\ q.at = "nest"
  /\ IF (q.other = 0 \/ Owned(q.other, q.user)) /\ ~Clash(row, 0)
     THEN /\ made < MaxRows
          /\ made' = made + 1
          /\ rows' = [i \in Live \cup {made'} |-> IF i \in Live THEN rows[i] ELSE row]
     ELSE UNCHANGED <<rows, made>>
  /\ Finish(r)
  /\ UNCHANGED <<related, job>>

Rename(u, kind) ==
  /\ \E i \in Of(kind), n \in Names, s \in {SlugOf[m] : m \in Names} \ {NoSlug} :
       LET row == [rows[i] EXCEPT !.name = n, !.slug = s] IN
       /\ Owned(i, u) /\ ~Clash(row, i)
       /\ rows' = [rows EXCEPT ![i] = row]
  /\ UNCHANGED <<made, related, request, job>>

RenameTag(u) == Rename(u, "tag")
RenameCollection(u) == Rename(u, "collection")

\* A row goes with the collections below it (two levels of them at the bound) and with
\* their rows in the relation tables: ON DELETE CASCADE.
Delete(u, kind) ==
  /\ \E i \in Of(kind) :
       LET Below(S) == S \cup {j \in Of("collection") : rows[j].parent \in S}
           gone == Below(Below(Below({i})))
       IN
       /\ Owned(i, u)
       /\ rows' = [j \in Live \ gone |-> rows[j]]
       /\ related' = [p \in {q \in DOMAIN related : q \cap gone = {}} |-> related[p]]
  /\ UNCHANGED <<made, request, job>>

DeleteTag(u) == Delete(u, "tag")
DeleteCollection(u) == Delete(u, "collection")
DeletePageRow(u) == Delete(u, "page")
DeleteLink(u) == Delete(u, "link")

-----------------------------------------------------------------------------
\* commitDone of the AI job of page p, up to the first insert: a suggested tag is
\* skipped when it has no slug or another tag of the user, one of this transaction's
\* among them, has its slug.
TagSlugTaken(p) ==
  LET Free(n) == /\ SlugOf[n] # NoSlug
                 /\ \A i \in Of("tag") : Owned(i, rows[p].user) /\ rows[i].slug = SlugOf[n] => rows[i].name = n
  IN
  /\ p \in Live /\ job[p].at = "due"
  /\ \E tags \in SUBSET {n \in Names : Free(n)} :
       /\ \A m, n \in tags : SlugOf[m] = SlugOf[n] => m = n
       /\ job' = [job EXCEPT ![p] = [at |-> "checked", tags |-> tags]]
  /\ UNCHANGED <<rows, made, related, request>>

\* The rest of the transaction: the tags that are new, the pairs and the mark on the job
\* land together, or, when a slug was taken or the page deleted meanwhile, none of them
\* does and the attempt has failed.
CommitDone(p) ==
  LET u == rows[p].user
      tag(n) == Row("tag", u, 0, n, SlugOf[n])
      Named(n, R) == {i \in DOMAIN R : R[i].kind = "tag" /\ R[i].user = u /\ R[i].name = n}
      fresh == {n \in job[p].tags : Named(n, rows) = {}}
  IN
  /\ job[p].at = "checked"
  /\ IF p \in Live /\ \A n \in fresh : ~Clash(tag(n), 0)
     THEN \E id \in [fresh -> made + 1..made + Cardinality(fresh)] :
            LET after == [i \in Live \cup {id[n] : n \in fresh} |->
                            IF i \in Live THEN rows[i] ELSE tag(CHOOSE n \in fresh : id[n] = i)] IN
            /\ \A m, n \in fresh : id[m] = id[n] => m = n
            /\ made' = made + Cardinality(fresh) /\ made' <= MaxRows
            /\ rows' = after
            /\ Relate({{p, i} : i \in UNION {Named(n, after) : n \in job[p].tags}}, "ai")
            /\ job' = [job EXCEPT ![p] = [at |-> "done", tags |-> {}]]
     ELSE job' = [job EXCEPT ![p] = [at |-> "due", tags |-> {}]] /\ UNCHANGED <<rows, made, related>>
  /\ UNCHANGED request

Next ==
  \/ \E r \in Requests, u \in Users :
       \/ AddPageTag(r, u) \/ AddLinkTag(r, u)
       \/ AddPageToCollection(r, u) \/ AddLinkToCollection(r, u)
       \/ AddPageRelation(r, u) \/ AddLinkRelation(r, u)
       \/ AddPageRelatedLink(r, u) \/ AddLinkRelatedPage(r, u)
       \/ RemovePageTag(r, u) \/ RemoveLinkTag(r, u)
       \/ RemovePageFromCollection(r, u) \/ RemoveLinkFromCollection(r, u)
       \/ RemovePageRelation(r, u) \/ RemoveLinkRelation(r, u)
       \/ RemovePageRelatedLink(r, u) \/ RemoveLinkRelatedPage(r, u)
       \/ \E n \in {m \in Names : SlugOf[m] # NoSlug} : CreateCollection(r, u, n)
  \/ \E r \in Requests : UpsertTag(r) \/ CheckOther(r) \/ AddRelated(r) \/ RemoveRelated(r) \/ InsertCollection(r)
  \/ \E u \in Users :
       \/ RenameTag(u) \/ RenameCollection(u)
       \/ DeleteTag(u) \/ DeleteCollection(u) \/ DeletePageRow(u) \/ DeleteLink(u)
  \/ \E p \in DOMAIN job : TagSlugTaken(p) \/ CommitDone(p)

Spec == Init /\ [][Next]_vars

-----------------------------------------------------------------------------
\* The foreign keys of migration 00017: whatever was deleted between the checks of a
\* request and its insert, a relation joins two rows that exist, of one user.
RelationsJoinOwn == \A pair \in DOMAIN related : Accepts(pair)

\* RemovePageRelation and the other removals check one row of the two, and leave the
\* other to the tables: still a request removes no relation of a row of another user.
OnlyOwnRelations ==
  [][\A r \in Requests : \A pair \in DOMAIN related \ DOMAIN related' :
       request[r].at = "remove" /\ request'[r].at = "idle" =>
         \A i \in pair : Owned(i, request[r].user)]_vars
=============================================================================
