------------------------------- MODULE GcProofs -------------------------------
(* The proofs about garbage collection, for any directories, grace period    *)
(* and bounds: what rows refer to is never missing, an unforced sweep spares *)
(* half of what it scanned, and a sweep that ends has reclaimed what was     *)
(* orphaned and old.                                                         *)
EXTENDS MCServer, FiniteSetTheorems, TLAPS

-----------------------------------------------------------------------------
(* The inductive invariant.                                                *)

Sweep == [at : {"idle", "listed", "walk", "remove", "over", "refused"}, mode : {"unread", "dry", "force", "run"},
          live : SUBSET G!Paths, cutoff : 0..MaxClock, todo : SUBSET Dirs, scanned : Nat,
          orphans : SUBSET G!Paths, removed : SUBSET G!Paths, failed : SUBSET G!Paths]

GcTyped ==
  /\ G!TypeOK /\ IsFiniteSet(DOMAIN disk)
  /\ sweep \in Sweep /\ sweep.cutoff <= clock
  /\ wrote \in [G!Paths -> Nat] /\ \A p \in G!Paths : wrote[p] <= clock
  /\ late \subseteq G!Paths
  /\ \A d \in Dirs : writer[d].name \in {"asset", "thumbnail"}

\* Something knows of the file: a row, the page or an open deletion, or the writer
\* that has just renamed it and whose row will refer to it.
KnownTo(d, name) ==
  \/ writer[d].at = "written" /\ writer[d].name = name
  \/ rows[d] # None /\ name \in rows[d]
  \/ name = "asset" /\ favicon = d
  \/ name = "asset" /\ \E e \in Dirs : deleting[e] # None /\ deleting[e].latest = d

\* A file that is known has been written, and only the sweep has removed it.
KnownKept ==
  /\ \A d \in Dirs, name \in {"asset", "thumbnail"} :
       KnownTo(d, name) => G!File(d, name) \in DOMAIN disk \cup sweep.removed
  /\ \A d \in Dirs : rows[d] # None => "asset" \in rows[d] /\ "tmp" \notin rows[d]

\* Renaming keeps the time of the last write, and a later attempt writes later.
TimesAgree ==
  /\ \A p \in DOMAIN disk : p[2] # "tmp" => disk[p] = wrote[p]
  /\ \A d \in Dirs : writer[d].at = "temp" /\ G!Temp(d) \in DOMAIN disk =>
       wrote[G!File(d, writer[d].name)] <= disk[G!Temp(d)]

\* An asset is written once: before that no sweep has seen it.
AssetIsNew ==
  \A d \in Dirs : writer[d].at \in {"idle", "temp"} /\ writer[d].name = "asset" =>
    G!File(d, "asset") \notin DOMAIN disk \cup sweep.orphans

\* Before the sweep has its cutoff, before it has looked at all of the store.
Unread == {"idle", "listed"}
Scanning == Unread \cup {"walk"}

\* What the sweep holds: an orphan was old at the cutoff and was not listed, and a path
\* that became referenced since was young then, or is late.
SweepAgrees ==
  /\ sweep.at \in Unread => sweep.orphans = {}
  /\ sweep.at \in Scanning => sweep.removed = {} /\ sweep.failed = {}
  /\ sweep.removed \subseteq sweep.orphans /\ sweep.orphans \cap sweep.live = {}
  /\ \A p \in sweep.orphans : p[2] = "asset" => wrote[p] + Grace <= sweep.cutoff
  /\ sweep.orphans \cap G!Referenced \subseteq late
  /\ sweep.at \notin Unread =>
       \A p \in G!Referenced \ (sweep.live \cup late) : wrote[p] + Grace > sweep.cutoff

\* A refused or a dry run removes nothing, and an unforced one passed the check.
CheckAgrees ==
  /\ IsFiniteSet(sweep.orphans)
  /\ sweep.at \in Scanning <=> sweep.mode = "unread"
  /\ sweep.removed # {} => sweep.at \in {"remove", "over"} /\ sweep.mode # "dry"
  /\ sweep.at = "remove" => sweep.mode \in {"force", "run"}
  /\ sweep.at \in {"remove", "over"} /\ sweep.mode = "run" =>
       sweep.scanned < MinFiles \/ 2 * Cardinality(sweep.orphans) <= sweep.scanned

\* An old file that was not referenced is still to be seen, or to be removed, or was
\* seen under its temporary name.
Seen(p) ==
  \/ p \in sweep.live \/ p[1] \in sweep.todo \/ p \in sweep.orphans \ sweep.removed
  \/ \E q \in sweep.orphans : q[1] = p[1] /\ q[2] = "tmp"
OldSeen ==
  /\ sweep.at \notin Unread => \A p \in DOMAIN disk : G!IsOld(disk[p]) => Seen(p)
  /\ \A p \in sweep.live : p[2] # "tmp"
  /\ sweep.at \notin Scanning => sweep.todo = {}
  /\ sweep.at = "over" /\ sweep.mode # "dry" => G!Remaining = {}

GcIInv == GcTyped /\ KnownKept /\ TimesAgree /\ AssetIsNew /\ SweepAgrees /\ CheckAgrees /\ OldSeen
-----------------------------------------------------------------------------
(* Paths, and the files on disk.                                           *)

LEMMA FilePath ==
  ASSUME NEW d \in Dirs, NEW name \in G!Names
  PROVE  G!File(d, name) \in G!Paths /\ G!File(d, name)[1] = d /\ G!File(d, name)[2] = name
BY ServerAssumption DEF G!File, G!Paths

LEMMA TempPath ==
  ASSUME NEW d \in Dirs, writer[d].no \in 0..MaxRenders
  PROVE  G!Temp(d) \in G!Paths /\ G!Temp(d)[1] = d /\ G!Temp(d)[2] = "tmp"
BY DEF G!Temp, G!Paths, G!Names

\* What is on disk after a file is created, renamed or removed.
LEMMA Created ==
  ASSUME NEW p, NEW t, disk' = G!Extend(disk, G!At(p, t))
  PROVE  /\ DOMAIN disk' = DOMAIN disk \cup {p} /\ disk'[p] = t
         /\ \A q \in DOMAIN disk : q # p => disk'[q] = disk[q]
BY DEF G!Extend, G!At

LEMMA Removed ==
  ASSUME NEW p, disk' = G!Without(disk, {p})
  PROVE  DOMAIN disk' = DOMAIN disk \ {p} /\ \A q \in DOMAIN disk' : disk'[q] = disk[q]
BY DEF G!Without, G!Restrict

LEMMA Renamed ==
  ASSUME NEW p, NEW q, NEW t, p # q, disk' = G!Extend(G!Without(disk, {p}), G!At(q, t))
  PROVE  /\ DOMAIN disk' = (DOMAIN disk \ {p}) \cup {q} /\ disk'[q] = t
         /\ \A r \in DOMAIN disk \ {p} : r # q => disk'[r] = disk[r]
<1> DEFINE left == G!Without(disk, {p})
<1>1. DOMAIN left = DOMAIN disk \ {p} /\ \A r \in DOMAIN left : left[r] = disk[r]
  BY DEF G!Without, G!Restrict
<1>2. disk' = G!Extend(left, G!At(q, t))
  OBVIOUS
<1> HIDE DEF left
<1>3. DOMAIN disk' = DOMAIN left \cup {q} /\ disk'[q] = t /\ \A r \in DOMAIN left : r # q => disk'[r] = left[r]
  BY <1>2 DEF G!Extend, G!At
<1>4. QED
  BY <1>1, <1>3

LEMMA ReferencedIs ==
  ASSUME NEW p
  PROVE  p \in G!Referenced <=>
           \/ \E d \in Dirs : rows[d] # None /\ \E name \in rows[d] : p = G!File(d, name)
           \/ favicon # None /\ p = G!File(favicon, "asset")
BY DEF G!Referenced

\* A path that is referred to is of a file that is known.
LEMMA ReferencedKnown ==
  ASSUME GcTyped, KnownKept, NEW p \in G!Referenced
  PROVE  /\ \E d \in Dirs, name \in {"asset", "thumbnail"} : p = G!File(d, name) /\ KnownTo(d, name)
         /\ p \in G!Paths /\ p[2] \in {"asset", "thumbnail"}
         /\ p \in DOMAIN disk \cup sweep.removed
<1>1. PICK d \in Dirs, name \in {"asset", "thumbnail"} : p = G!File(d, name) /\ KnownTo(d, name)
  <2>1. CASE \E d \in Dirs : rows[d] # None /\ \E name \in rows[d] : p = G!File(d, name)
    BY <2>1 DEF GcTyped, G!TypeOK, G!Names, KnownKept, KnownTo
  <2>2. CASE favicon # None /\ p = G!File(favicon, "asset")
    BY <2>2 DEF GcTyped, G!TypeOK, KnownTo
  <2>3. QED
    BY <2>1, <2>2, ReferencedIs
<1>2. QED
  BY <1>1, FilePath DEF KnownKept, G!Names

-----------------------------------------------------------------------------
(* What the steps have in common.                                          *)

\* Nothing more is known, and no file but a temporary one goes unless it is removed.
LEMMA KnownStays ==
  ASSUME KnownKept, \A d \in Dirs : rows'[d] # None => "asset" \in rows'[d] /\ "tmp" \notin rows'[d],
         \A d \in Dirs, name \in {"asset", "thumbnail"} : KnownTo(d, name)' => KnownTo(d, name),
         \A d \in Dirs, name \in {"asset", "thumbnail"} :
           G!File(d, name) \in DOMAIN disk \cup sweep.removed =>
             G!File(d, name) \in DOMAIN disk' \cup sweep'.removed
  PROVE  KnownKept'
<1>1. \A d \in Dirs, name \in {"asset", "thumbnail"} :
        KnownTo(d, name)' => G!File(d, name)' \in DOMAIN disk' \cup sweep'.removed
  BY DEF KnownKept, G!File
<1>2. QED
  BY <1>1 DEF KnownKept

\* While nothing begins to be referred to, the sweep has only itself to agree with.
LEMMA SweepStays ==
  ASSUME SweepAgrees, UNCHANGED <<sweep, late>>, G!Referenced' \subseteq G!Referenced,
         \A p \in G!Referenced : wrote'[p] >= wrote[p],
         \A p \in sweep.orphans : p[2] = "asset" => wrote'[p] = wrote[p],
         GcTyped, KnownKept, wrote' \in [G!Paths -> Nat]
  PROVE  SweepAgrees'
<1>1. \A p \in G!Referenced' \ (sweep.live \cup late) : sweep.at \notin Unread => wrote'[p] + Grace > sweep.cutoff
  <2> SUFFICES ASSUME NEW p \in G!Referenced' \ (sweep.live \cup late), sweep.at \notin Unread
               PROVE  wrote'[p] + Grace > sweep.cutoff
    OBVIOUS
  <2>1. p \in G!Paths /\ wrote[p] + Grace > sweep.cutoff /\ wrote'[p] >= wrote[p]
    BY ReferencedKnown DEF SweepAgrees
  <2>2. wrote[p] \in Nat /\ wrote'[p] \in Nat /\ sweep.cutoff \in Nat /\ Grace \in Nat
    BY <2>1, ServerAssumption DEF GcTyped, Sweep
  <2>3. QED
    BY <2>1, <2>2
<1>2. \A p \in sweep.orphans : p[2] = "asset" => wrote'[p] + Grace <= sweep.cutoff
  BY DEF SweepAgrees
<1>3. sweep.orphans \cap G!Referenced' \subseteq late
  BY DEF SweepAgrees
<1>4. QED
  BY <1>1, <1>2, <1>3 DEF SweepAgrees

\* A path that becomes referenced during the sweep was referenced when it began, or is
\* young and, as it was not rewritten, no orphan; or else it is late.
LEMMA Refers ==
  ASSUME GcIInv, NEW paths \in SUBSET G!Paths, G!Refer(paths), UNCHANGED <<clock, sweep, wrote>>,
         G!Referenced' \subseteq G!Referenced \cup paths, \A p \in paths : p[2] \in {"asset", "thumbnail"}
  PROVE  late' \in SUBSET G!Paths /\ SweepAgrees'
<1>1. late' \subseteq G!Paths /\ late \subseteq late'
  BY DEF GcIInv, GcTyped, G!Refer
<1>2. ASSUME NEW p \in paths \ G!Referenced, p \notin late', sweep.at \notin Unread, p \notin sweep.live
      PROVE  clock < wrote[p] + Grace /\ ~(p[2] = "thumbnail" /\ p \in sweep.orphans)
  <2>1. ~(clock >= wrote[p] + Grace \/ (p[2] = "thumbnail" /\ p \in sweep.orphans))
    BY <1>2 DEF G!Refer, G!Aged, Unread
  <2>2. clock \in Nat /\ wrote[p] \in Nat /\ Grace \in Nat
    BY <1>2, ServerAssumption DEF GcIInv, GcTyped, G!TypeOK
  <2>3. QED
    BY <2>1, <2>2
<1>3. \A p \in paths : clock \in Nat /\ wrote[p] \in Nat /\ Grace \in Nat /\ sweep.cutoff \in Nat /\ sweep.cutoff <= clock
  BY ServerAssumption DEF GcIInv, GcTyped, G!TypeOK, Sweep
<1>4. \A p \in G!Referenced' \ (sweep.live \cup late') : sweep.at \notin Unread => wrote[p] + Grace > sweep.cutoff
  <2> SUFFICES ASSUME NEW p \in G!Referenced' \ (sweep.live \cup late'), sweep.at \notin Unread
               PROVE  wrote[p] + Grace > sweep.cutoff
    OBVIOUS
  <2>1. CASE p \in G!Referenced
    BY <1>1, <2>1 DEF GcIInv, SweepAgrees
  <2>2. CASE p \in paths \ G!Referenced
    BY <1>2, <1>3, <2>2
  <2>3. QED
    BY <2>1, <2>2
<1>5. sweep.orphans \cap G!Referenced' \subseteq late'
  <2> SUFFICES ASSUME NEW p \in sweep.orphans \cap G!Referenced', p \notin late' PROVE FALSE
    OBVIOUS
  <2>1. p \notin G!Referenced /\ p \in paths /\ sweep.at \notin Unread /\ p \notin sweep.live
    BY <1>1 DEF GcIInv, SweepAgrees
  <2>2. p[2] = "asset" /\ wrote[p] + Grace <= sweep.cutoff
    BY <1>2, <2>1 DEF GcIInv, SweepAgrees
  <2>3. QED
    BY <1>2, <1>3, <2>1, <2>2
<1>6. QED
  BY <1>1, <1>4, <1>5 DEF GcIInv, SweepAgrees

\* Everything that is on disk afterwards was seen, if a new file is young or takes the
\* place of a temporary one, and the sweep goes no further.
LEMMA SeenStays ==
  ASSUME OldSeen, sweep' = sweep,
         \A p \in DOMAIN disk' : G!IsOld(disk'[p]) /\ sweep.at \notin Unread => Seen(p)
  PROVE  OldSeen'
BY DEF OldSeen, Seen, G!IsOld, G!Remaining

\* Where the rows and the page stay, so do the references; where the sweep stays, so
\* does what it counted.
LEMMA SameReferences ==
  ASSUME UNCHANGED <<rows, favicon>>
  PROVE  G!Referenced' = G!Referenced
BY DEF G!Referenced, G!File

LEMMA CheckStays ==
  ASSUME CheckAgrees, sweep' = sweep
  PROVE  CheckAgrees'
BY DEF CheckAgrees

Writers == [at : {"idle", "temp", "written", "over"}, name : {"asset", "thumbnail"}, no : 0..MaxRenders]

LEMMA WritersTyped ==
  ASSUME NEW w
  PROVE  w \in [Dirs -> Writers] <=>
           /\ w \in [Dirs -> [at : {"idle", "temp", "written", "over"}, name : G!Names, no : 0..MaxRenders]]
           /\ \A d \in Dirs : w[d].name \in {"asset", "thumbnail"}
<1>1. ASSUME w \in [Dirs -> Writers]
      PROVE  /\ w \in [Dirs -> [at : {"idle", "temp", "written", "over"}, name : G!Names, no : 0..MaxRenders]]
             /\ \A d \in Dirs : w[d].name \in {"asset", "thumbnail"}
  BY <1>1 DEF Writers, G!Names
<1>2. ASSUME w \in [Dirs -> [at : {"idle", "temp", "written", "over"}, name : G!Names, no : 0..MaxRenders]],
             \A d \in Dirs : w[d].name \in {"asset", "thumbnail"}
      PROVE  w \in [Dirs -> Writers]
  <2>1. \A d \in Dirs : w[d] \in Writers
    BY <1>2 DEF Writers
  <2>2. QED
    BY <1>2, <2>1
<1>3. QED
  BY <1>1, <1>2

\* Where the files stay, the writers agree with them unless they write anew.
LEMMA FilesStay ==
  ASSUME TimesAgree, AssetIsNew, UNCHANGED <<disk, wrote, sweep>>,
         \A e \in Dirs : writer'[e].at = "temp" => writer'[e] = writer[e],
         \A e \in Dirs : writer'[e].at \in {"idle", "temp"} /\ writer'[e].name = "asset" => writer'[e] = writer[e]
  PROVE  TimesAgree' /\ AssetIsNew'
<1>1. \A e \in Dirs : writer'[e].at = "temp" => G!Temp(e)' = G!Temp(e)
  BY DEF G!Temp
<1>2. \A e \in Dirs : writer'[e].at = "temp" /\ G!Temp(e)' \in DOMAIN disk' =>
        wrote'[G!File(e, writer'[e].name)] <= disk'[G!Temp(e)']
  BY <1>1 DEF TimesAgree
<1>3. TimesAgree'
  BY <1>2 DEF TimesAgree, G!File
<1>4. \A e \in Dirs : writer'[e].at \in {"idle", "temp"} /\ writer'[e].name = "asset" =>
        G!File(e, "asset") \notin DOMAIN disk' \cup sweep'.orphans
  BY DEF AssetIsNew
<1>5. QED
  BY <1>3, <1>4 DEF AssetIsNew, G!File

-----------------------------------------------------------------------------
(* The writers.                                                            *)

LEMMA CreateTempStep ==
  ASSUME GcIInv, NEW d \in Dirs, G!CreateTemp(d)
  PROVE  GcIInv'
<1> DEFINE t == G!Temp(d)
<1>0. /\ GcTyped /\ KnownKept /\ TimesAgree /\ AssetIsNew /\ SweepAgrees /\ CheckAgrees /\ OldSeen
      /\ writer \in [Dirs -> Writers] /\ clock \in Nat /\ sweep.cutoff \in Nat /\ sweep.cutoff <= clock
      /\ \A p \in DOMAIN disk : disk[p] \in 0..clock
      /\ Grace \in Nat \ {0}
  BY WritersTyped, ServerAssumption DEF GcIInv, GcTyped, G!TypeOK, Sweep
<1>1. t \in G!Paths /\ t[1] = d /\ t[2] = "tmp"
  BY <1>0, TempPath DEF Writers
<1>2. UNCHANGED <<clock, rows, favicon, deleting, sweep, renders, wrote, late>>
  BY DEF G!CreateTemp, G!db
<1>3. DOMAIN disk' = DOMAIN disk \cup {t} /\ disk'[t] = clock /\ \A q \in DOMAIN disk : q # t => disk'[q] = disk[q]
  BY Created DEF G!CreateTemp
<1>4. /\ writer' \in [Dirs -> Writers] /\ writer[d].at = "idle" /\ writer'[d] = [writer[d] EXCEPT !.at = "temp"]
      /\ \A e \in Dirs \ {d} : writer'[e] = writer[e]
  BY <1>0 DEF G!CreateTemp, Writers
<1> HIDE DEF t
<1>5. GcTyped'
  <2>1. IsFiniteSet(DOMAIN disk')
    BY <1>0, <1>3, FS_AddElement DEF GcTyped
  <2>2. DOMAIN disk' \subseteq G!Paths /\ \A p \in DOMAIN disk' : disk'[p] \in 0..clock
    BY <1>0, <1>1, <1>3 DEF GcTyped, G!TypeOK
  <2>3. QED
    BY <1>0, <1>2, <1>4, <2>1, <2>2, WritersTyped DEF GcTyped, G!TypeOK
<1>6. KnownKept'
  <2>1. \A e \in Dirs, name \in {"asset", "thumbnail"} : KnownTo(e, name)' => KnownTo(e, name)
    BY <1>0, <1>2, <1>4 DEF KnownTo, Writers
  <2>2. QED
    BY <1>0, <1>2, <1>3, <2>1, KnownStays DEF KnownKept
<1>7. TimesAgree'
  <2>1. ASSUME NEW p \in DOMAIN disk', p[2] # "tmp" PROVE disk'[p] = wrote'[p]
    BY <1>0, <1>1, <1>2, <1>3, <2>1 DEF TimesAgree
  <2>2. ASSUME NEW e \in Dirs, writer'[e].at = "temp", G!Temp(e)' \in DOMAIN disk'
        PROVE  wrote'[G!File(e, writer'[e].name)] <= disk'[G!Temp(e)']
    <3>1. CASE e = d
      <4>1. G!Temp(e)' = t
        BY <1>0, <1>4, <3>1 DEF t, G!Temp, Writers
      <4>2. writer'[e].name \in {"asset", "thumbnail"} /\ G!File(e, writer'[e].name) \in G!Paths
        BY <1>4, <3>1, FilePath DEF Writers, G!Names
      <4>3. QED
        BY <1>0, <1>2, <1>3, <4>1, <4>2 DEF GcTyped
    <3>2. CASE e # d
      <4>1. G!Temp(e)' = G!Temp(e) /\ G!Temp(e) # t
        BY <1>0, <1>1, <1>4, <3>2, TempPath DEF G!Temp, Writers
      <4>2. QED
        BY <1>0, <1>2, <1>3, <1>4, <2>2, <3>2, <4>1 DEF TimesAgree
    <3>3. QED
      BY <3>1, <3>2
  <2>3. QED
    BY <2>1, <2>2 DEF TimesAgree, G!File
<1>8. AssetIsNew'
  <2>1. \A e \in Dirs : G!File(e, "asset") # t
    BY <1>1, FilePath DEF G!Names
  <2>2. \A e \in Dirs : writer'[e].at \in {"idle", "temp"} /\ writer'[e].name = "asset" =>
          G!File(e, "asset") \notin DOMAIN disk' \cup sweep'.orphans
    BY <1>0, <1>2, <1>3, <1>4, <2>1 DEF AssetIsNew, Writers
  <2>3. QED
    BY <2>2 DEF AssetIsNew, G!File
<1>9. SweepAgrees'
  BY <1>0, <1>2, SweepStays, SameReferences, ReferencedKnown DEF GcTyped
<1>10. OldSeen'
  BY <1>0, <1>2, <1>3, SeenStays DEF OldSeen, G!IsOld
<1>11. QED
  BY <1>0, <1>2, <1>5, <1>6, <1>7, <1>8, <1>9, <1>10, CheckStays DEF GcIInv

LEMMA RenameStep ==
  ASSUME GcIInv, NEW d \in Dirs, G!Rename(d)
  PROVE  GcIInv'
<1> DEFINE t == G!Temp(d)
           p == G!File(d, writer[d].name)
<1>0. /\ GcTyped /\ KnownKept /\ TimesAgree /\ AssetIsNew /\ SweepAgrees /\ CheckAgrees /\ OldSeen
      /\ writer \in [Dirs -> Writers] /\ clock \in Nat
      /\ \A q \in DOMAIN disk : disk[q] \in 0..clock
      /\ wrote \in [G!Paths -> Nat]
  BY WritersTyped DEF GcIInv, GcTyped, G!TypeOK
<1>1. /\ t \in G!Paths /\ t[1] = d /\ t[2] = "tmp"
      /\ p \in G!Paths /\ p[1] = d /\ p[2] = writer[d].name /\ p # t
  <2>1. writer[d].name \in {"asset", "thumbnail"} /\ writer[d].no \in 0..MaxRenders
    BY <1>0 DEF Writers
  <2>2. QED
    BY <2>1, TempPath, FilePath DEF G!Names
<1>2. /\ UNCHANGED <<clock, rows, favicon, deleting, sweep, renders, late>>
      /\ writer[d].at = "temp" /\ t \in DOMAIN disk
  BY DEF G!Rename, G!db
<1>3. /\ DOMAIN disk' = (DOMAIN disk \ {t}) \cup {p} /\ disk'[p] = disk[t]
      /\ \A q \in DOMAIN disk \ {t} : q # p => disk'[q] = disk[q]
  BY <1>1, Renamed DEF G!Rename
<1>4. /\ writer' \in [Dirs -> Writers] /\ writer'[d] = [writer[d] EXCEPT !.at = "written"]
      /\ \A e \in Dirs \ {d} : writer'[e] = writer[e]
  BY <1>0 DEF G!Rename, Writers
<1>5. /\ wrote' \in [G!Paths -> Nat] /\ wrote'[p] = disk[t] /\ wrote[p] <= disk[t]
      /\ \A q \in G!Paths \ {p} : wrote'[q] = wrote[q]
  <2>1. wrote' = [wrote EXCEPT ![p] = disk[t]] /\ disk[t] \in Nat
    BY <1>0, <1>2 DEF G!Rename
  <2>2. QED
    BY <1>0, <1>1, <1>2, <2>1 DEF TimesAgree
<1> HIDE DEF t, p
<1>6. GcTyped'
  <2>1. IsFiniteSet(DOMAIN disk')
    <3>1. IsFiniteSet(DOMAIN disk \ {t})
      BY <1>0, FS_RemoveElement DEF GcTyped
    <3>2. QED
      BY <1>3, <3>1, FS_AddElement
  <2>2. DOMAIN disk' \subseteq G!Paths /\ \A q \in DOMAIN disk' : disk'[q] \in 0..clock
    BY <1>0, <1>1, <1>2, <1>3 DEF GcTyped, G!TypeOK
  <2>3. \A q \in G!Paths : wrote'[q] <= clock
    BY <1>0, <1>2, <1>5 DEF GcTyped
  <2>4. QED
    BY <1>0, <1>2, <1>4, <1>5, <2>1, <2>2, <2>3, WritersTyped DEF GcTyped, G!TypeOK
<1>7. KnownKept'
  <2>1. ASSUME NEW e \in Dirs, NEW name \in {"asset", "thumbnail"}, KnownTo(e, name)'
        PROVE  G!File(e, name) \in DOMAIN disk' \cup sweep'.removed
    <3>1. KnownTo(e, name) \/ (e = d /\ name = writer[d].name)
      BY <1>0, <1>2, <1>4, <2>1 DEF KnownTo, Writers
    <3>2. CASE KnownTo(e, name)
      BY <1>0, <1>1, <1>2, <1>3, <3>2, FilePath DEF KnownKept, G!Names
    <3>3. CASE e = d /\ name = writer[d].name
      BY <1>3, <3>3 DEF p
    <3>4. QED
      BY <3>1, <3>2, <3>3
  <2>2. QED
    BY <1>0, <1>2, <2>1 DEF KnownKept, G!File
<1>8. TimesAgree'
  <2>1. ASSUME NEW q \in DOMAIN disk', q[2] # "tmp" PROVE disk'[q] = wrote'[q]
    BY <1>0, <1>1, <1>3, <1>5, <2>1 DEF TimesAgree, GcTyped, G!TypeOK
  <2>2. ASSUME NEW e \in Dirs, writer'[e].at = "temp", G!Temp(e)' \in DOMAIN disk'
        PROVE  wrote'[G!File(e, writer'[e].name)] <= disk'[G!Temp(e)']
    <3>1. e # d
      BY <1>0, <1>4, <2>2 DEF Writers
    <3>2. G!Temp(e)' = G!Temp(e) /\ G!Temp(e) \notin {t, p}
      BY <1>0, <1>1, <1>4, <3>1, TempPath DEF G!Temp, Writers
    <3>3. /\ G!File(e, writer[e].name) \in G!Paths /\ G!File(e, writer[e].name) # p
          /\ writer'[e] = writer[e]
      BY <1>0, <1>1, <1>4, <3>1, FilePath DEF G!Names, Writers
    <3>4. wrote[G!File(e, writer[e].name)] <= disk[G!Temp(e)]
      BY <1>0, <1>3, <2>2, <3>2, <3>3 DEF TimesAgree
    <3>5. QED
      BY <1>3, <1>5, <2>2, <3>2, <3>3, <3>4
  <2>3. QED
    BY <2>1, <2>2 DEF TimesAgree, G!File
<1>9. AssetIsNew'
  <2>1. ASSUME NEW e \in Dirs, writer'[e].at \in {"idle", "temp"}, writer'[e].name = "asset"
        PROVE  G!File(e, "asset") \notin DOMAIN disk' \cup sweep'.orphans
    <3>1. e # d
      BY <1>0, <1>4, <2>1 DEF Writers
    <3>2. G!File(e, "asset") # p /\ writer'[e] = writer[e]
      BY <1>1, <1>4, <3>1, FilePath DEF G!Names
    <3>3. QED
      BY <1>0, <1>2, <1>3, <2>1, <3>2 DEF AssetIsNew
  <2>2. QED
    BY <2>1 DEF AssetIsNew, G!File
<1>10. SweepAgrees'
  <2>1. \A q \in G!Referenced : wrote'[q] >= wrote[q]
    <3>1. disk[t] \in Nat /\ wrote[p] \in Nat /\ \A q \in G!Paths : wrote[q] \in Nat
      BY <1>0, <1>1, <1>2
    <3>2. QED
      BY <1>0, <1>5, <3>1, ReferencedKnown
  <2>2. \A q \in sweep.orphans : q[2] = "asset" => wrote'[q] = wrote[q]
    <3>1. sweep.orphans \subseteq G!Paths
      BY <1>0 DEF GcTyped, Sweep
    <3>2. p[2] = "asset" => p \notin sweep.orphans
      BY <1>0, <1>1, <1>2 DEF AssetIsNew, p
    <3>3. QED
      BY <1>5, <3>1, <3>2
  <2>3. QED
    BY <1>0, <1>2, <1>5, <2>1, <2>2, SweepStays, SameReferences
<1>11. OldSeen'
  <2>1. Seen(t) => Seen(p)
    BY <1>0, <1>1 DEF Seen, OldSeen
  <2>2. QED
    BY <1>0, <1>2, <1>3, <2>1, SeenStays DEF OldSeen, G!IsOld
<1>12. QED
  BY <1>0, <1>2, <1>6, <1>7, <1>8, <1>9, <1>10, <1>11, CheckStays DEF GcIInv

LEMMA AbortStep ==
  ASSUME GcIInv, NEW d \in Dirs, G!Abort(d)
  PROVE  GcIInv'
<1> DEFINE t == G!Temp(d)
<1>0. /\ GcTyped /\ KnownKept /\ TimesAgree /\ AssetIsNew /\ SweepAgrees /\ CheckAgrees /\ OldSeen
      /\ writer \in [Dirs -> Writers]
      /\ \A q \in DOMAIN disk : disk[q] \in 0..clock
  BY WritersTyped DEF GcIInv, GcTyped, G!TypeOK
<1>1. t[2] = "tmp"
  BY <1>0, TempPath DEF Writers
<1>2. UNCHANGED <<clock, rows, favicon, deleting, sweep, renders, wrote, late>>
  BY DEF G!Abort, G!db
<1>3. DOMAIN disk' \in {DOMAIN disk, DOMAIN disk \ {t}} /\ \A q \in DOMAIN disk' : disk'[q] = disk[q]
  BY Removed DEF G!Abort
<1>4. /\ writer' \in [Dirs -> Writers] /\ writer'[d].at = "over"
      /\ \A e \in Dirs \ {d} : writer'[e] = writer[e]
  BY <1>0 DEF G!Abort, Writers
<1> HIDE DEF t
<1>5. GcTyped'
  <2>1. IsFiniteSet(DOMAIN disk')
    BY <1>0, <1>3, FS_RemoveElement DEF GcTyped
  <2>2. DOMAIN disk' \subseteq G!Paths /\ \A p \in DOMAIN disk' : disk'[p] \in 0..clock
    BY <1>0, <1>3 DEF GcTyped, G!TypeOK
  <2>3. QED
    BY <1>0, <1>2, <1>4, <2>1, <2>2, WritersTyped DEF GcTyped, G!TypeOK
<1>6. KnownKept'
  <2>1. \A e \in Dirs, name \in {"asset", "thumbnail"} : KnownTo(e, name)' => KnownTo(e, name)
    BY <1>0, <1>2, <1>4 DEF KnownTo, Writers
  <2>2. \A e \in Dirs, name \in {"asset", "thumbnail"} : G!File(e, name) # t
    BY <1>1, FilePath DEF G!Names
  <2>3. QED
    BY <1>0, <1>2, <1>3, <2>1, <2>2, KnownStays DEF KnownKept
<1>7. TimesAgree'
  <2>1. ASSUME NEW e \in Dirs, writer'[e].at = "temp", G!Temp(e)' \in DOMAIN disk'
        PROVE  wrote'[G!File(e, writer'[e].name)] <= disk'[G!Temp(e)']
    <3>1. e # d
      BY <1>4, <2>1
    <3>2. G!Temp(e)' = G!Temp(e) /\ writer'[e] = writer[e]
      BY <1>4, <3>1 DEF G!Temp
    <3>3. QED
      BY <1>0, <1>2, <1>3, <2>1, <3>2 DEF TimesAgree
  <2>2. \A p \in DOMAIN disk' : p[2] # "tmp" => disk'[p] = wrote'[p]
    BY <1>0, <1>2, <1>3 DEF TimesAgree
  <2>3. QED
    BY <2>1, <2>2 DEF TimesAgree, G!File
<1>8. AssetIsNew'
  <2>1. \A e \in Dirs : writer'[e].at \in {"idle", "temp"} /\ writer'[e].name = "asset" =>
          G!File(e, "asset") \notin DOMAIN disk' \cup sweep'.orphans
    BY <1>0, <1>2, <1>3, <1>4 DEF AssetIsNew
  <2>2. QED
    BY <2>1 DEF AssetIsNew, G!File
<1>9. SweepAgrees'
  BY <1>0, <1>2, SweepStays, SameReferences, ReferencedKnown DEF GcTyped
<1>10. OldSeen'
  BY <1>0, <1>2, <1>3, SeenStays DEF OldSeen
<1>11. QED
  BY <1>0, <1>2, <1>5, <1>6, <1>7, <1>8, <1>9, <1>10, CheckStays DEF GcIInv

\* What a step of the database or the clock leaves to show.
LEMMA NoFileStep ==
  ASSUME GcIInv, UNCHANGED <<disk, wrote, sweep>>, clock' \in 0..MaxClock, clock' >= clock,
         writer' \in [Dirs -> Writers],
         \A e \in Dirs : writer'[e].at = "temp" => writer'[e] = writer[e],
         \A e \in Dirs : writer'[e].at \in {"idle", "temp"} /\ writer'[e].name = "asset" => writer'[e] = writer[e],
         rows' \in [Dirs -> (SUBSET G!Names) \cup {None}], favicon' \in Dirs \cup {None},
         deleting' \in [Dirs -> [latest : Dirs \cup {None}] \cup {None}], renders' \in 0..MaxRenders,
         \A e \in Dirs : rows'[e] # None => "asset" \in rows'[e] /\ "tmp" \notin rows'[e],
         \A e \in Dirs, name \in {"asset", "thumbnail"} : KnownTo(e, name)' => KnownTo(e, name),
         late' \subseteq G!Paths, SweepAgrees'
  PROVE  GcIInv'
<1>0. /\ GcTyped /\ KnownKept /\ TimesAgree /\ AssetIsNew /\ SweepAgrees /\ CheckAgrees /\ OldSeen
      /\ clock \in Nat /\ clock' \in Nat
  BY ServerAssumption DEF GcIInv, GcTyped, G!TypeOK
<1>1. GcTyped'
  <2>1. \A p \in DOMAIN disk : disk[p] \in 0..clock'
    BY <1>0 DEF GcTyped, G!TypeOK
  <2>2. \A p \in G!Paths : wrote[p] <= clock'
    BY <1>0 DEF GcTyped
  <2>3. sweep.cutoff <= clock'
    BY <1>0, ServerAssumption DEF GcTyped, Sweep
  <2>4. QED
    BY <1>0, <2>1, <2>2, <2>3, WritersTyped DEF GcTyped, G!TypeOK
<1>2. KnownKept'
  BY <1>0, KnownStays DEF KnownKept
<1>3. TimesAgree' /\ AssetIsNew'
  BY <1>0, FilesStay
<1>4. OldSeen'
  BY <1>0, SeenStays DEF OldSeen
<1>5. QED
  BY <1>0, <1>1, <1>2, <1>3, <1>4, CheckStays DEF GcIInv

LEMMA TickStep ==
  ASSUME GcIInv, G!Tick
  PROVE  GcIInv'
<1>0. /\ GcTyped /\ KnownKept /\ SweepAgrees /\ writer \in [Dirs -> Writers] /\ G!TypeOK
  BY WritersTyped DEF GcIInv, GcTyped, G!TypeOK
<1>1. UNCHANGED <<disk, writer, rows, favicon, deleting, sweep, renders, wrote, late>>
  BY DEF G!Tick, G!db
<1>2. clock' \in 0..MaxClock /\ clock' >= clock
  BY <1>0, ServerAssumption DEF G!Tick, G!TypeOK
<1>3. \A e \in Dirs, name \in {"asset", "thumbnail"} : KnownTo(e, name)' => KnownTo(e, name)
  BY <1>1 DEF KnownTo
<1>4. SweepAgrees'
  BY <1>0, <1>1, SweepStays, SameReferences, ReferencedKnown DEF GcTyped
<1>5. QED
  BY <1>0, <1>1, <1>2, <1>3, <1>4, NoFileStep DEF GcTyped, G!TypeOK, KnownKept

LEMMA CommitStep ==
  ASSUME GcIInv, NEW d \in Dirs, G!Commit(d)
  PROVE  GcIInv'
<1> DEFINE p == G!File(d, "asset")
<1>0. /\ GcTyped /\ KnownKept /\ SweepAgrees /\ writer \in [Dirs -> Writers] /\ G!TypeOK
  BY WritersTyped DEF GcIInv, GcTyped, G!TypeOK
<1>1. UNCHANGED <<clock, disk, deleting, sweep, renders, wrote>>
  BY DEF G!Commit
<1>2. /\ writer' \in [Dirs -> Writers] /\ writer[d].at = "written" /\ writer[d].name = "asset"
      /\ writer'[d].at = "over" /\ \A e \in Dirs \ {d} : writer'[e] = writer[e]
  BY <1>0 DEF G!Commit, Writers
<1>3. /\ rows' \in [Dirs -> (SUBSET G!Names) \cup {None}] /\ rows'[d] = {"asset"}
      /\ \A e \in Dirs \ {d} : rows'[e] = rows[e]
      /\ favicon' = d
  BY <1>0 DEF G!Commit, G!TypeOK, G!Names
<1>4. \A e \in Dirs, name \in {"asset", "thumbnail"} : KnownTo(e, name)' => KnownTo(e, name)
  BY <1>1, <1>2, <1>3 DEF KnownTo
<1>5. G!Referenced' \subseteq G!Referenced \cup {p}
  <2> SUFFICES ASSUME NEW q \in G!Referenced', q # p PROVE q \in G!Referenced
    OBVIOUS
  <2>1. PICK e \in Dirs : rows'[e] # None /\ \E name \in rows'[e] : q = G!File(e, name)
    BY <1>3 DEF G!Referenced, G!File
  <2>2. QED
    BY <1>3, <2>1, ReferencedIs
<1>6. late' \in SUBSET G!Paths /\ SweepAgrees'
  <2>1. p \in G!Paths /\ p[2] = "asset"
    BY FilePath DEF G!Names
  <2>2. G!Refer({p})
    BY DEF G!Commit
  <2>3. QED
    BY <1>1, <1>5, <2>1, <2>2, Refers
<1>7. \A e \in Dirs : rows'[e] # None => "asset" \in rows'[e] /\ "tmp" \notin rows'[e]
  BY <1>0, <1>3 DEF KnownKept
<1>8. QED
  BY <1>0, <1>1, <1>2, <1>3, <1>4, <1>6, <1>7, NoFileStep DEF G!TypeOK

LEMMA RenderStep ==
  ASSUME GcIInv, NEW d \in Dirs, G!Render(d)
  PROVE  GcIInv'
<1>0. /\ GcTyped /\ KnownKept /\ SweepAgrees /\ writer \in [Dirs -> Writers] /\ G!TypeOK
  BY WritersTyped DEF GcIInv, GcTyped, G!TypeOK
<1>1. UNCHANGED <<clock, disk, rows, favicon, deleting, sweep, wrote, late>>
  BY DEF G!Render, G!db
<1>2. renders' \in 0..MaxRenders
  BY <1>0, ServerAssumption DEF G!Render, G!TypeOK
<1>3. /\ writer' \in [Dirs -> Writers] /\ writer'[d].at = "idle" /\ writer'[d].name = "thumbnail"
      /\ \A e \in Dirs \ {d} : writer'[e] = writer[e]
  BY <1>0, <1>2 DEF G!Render, Writers
<1>4. \A e \in Dirs, name \in {"asset", "thumbnail"} : KnownTo(e, name)' => KnownTo(e, name)
  BY <1>1, <1>3 DEF KnownTo
<1>5. SweepAgrees'
  BY <1>0, <1>1, SweepStays, SameReferences, ReferencedKnown DEF GcTyped
<1>6. QED
  BY <1>0, <1>1, <1>2, <1>3, <1>4, <1>5, NoFileStep DEF GcTyped, G!TypeOK, KnownKept

LEMMA CommitThumbnailStep ==
  ASSUME GcIInv, NEW d \in Dirs, G!CommitThumbnail(d)
  PROVE  GcIInv'
<1> DEFINE p == G!File(d, "thumbnail")
<1>0. /\ GcTyped /\ KnownKept /\ SweepAgrees /\ writer \in [Dirs -> Writers] /\ G!TypeOK
  BY WritersTyped DEF GcIInv, GcTyped, G!TypeOK
<1>1. UNCHANGED <<clock, disk, favicon, deleting, sweep, renders, wrote>>
  BY DEF G!CommitThumbnail
<1>2. /\ writer' \in [Dirs -> Writers] /\ writer[d].at = "written" /\ writer[d].name = "thumbnail"
      /\ writer'[d].at = "over" /\ \A e \in Dirs \ {d} : writer'[e] = writer[e]
  BY <1>0 DEF G!CommitThumbnail, Writers
<1>3. /\ rows' \in [Dirs -> (SUBSET G!Names) \cup {None}]
      /\ rows'[d] = IF rows[d] = None THEN None ELSE rows[d] \cup {"thumbnail"}
      /\ \A e \in Dirs \ {d} : rows'[e] = rows[e]
  BY <1>0 DEF G!CommitThumbnail, G!TypeOK, G!Names
<1>4. rows'[d] # None => rows[d] # None /\ rows'[d] = rows[d] \cup {"thumbnail"}
  BY <1>3
<1>5. \A e \in Dirs, name \in {"asset", "thumbnail"} : KnownTo(e, name)' => KnownTo(e, name)
  <2> SUFFICES ASSUME NEW e \in Dirs, NEW name \in {"asset", "thumbnail"}, KnownTo(e, name)'
               PROVE  KnownTo(e, name)
    OBVIOUS
  <2>1. CASE writer'[e].at = "written" /\ writer'[e].name = name
    BY <1>2, <2>1 DEF KnownTo
  <2>2. CASE rows'[e] # None /\ name \in rows'[e]
    BY <1>2, <1>3, <1>4, <2>2 DEF KnownTo
  <2>3. CASE name = "asset" /\ (favicon = e \/ \E c \in Dirs : deleting[c] # None /\ deleting[c].latest = e)
    BY <2>3 DEF KnownTo
  <2>4. QED
    BY <1>1, <2>1, <2>2, <2>3 DEF KnownTo
<1>6. late' \in SUBSET G!Paths /\ SweepAgrees'
  <2>1. p \in G!Paths /\ p[2] = "thumbnail"
    BY FilePath DEF G!Names
  <2> DEFINE paths == IF rows[d] = None THEN {} ELSE {p}
  <2>2. G!Refer(paths) /\ paths \in SUBSET G!Paths
    BY <2>1 DEF G!CommitThumbnail
  <2>3. G!Referenced' \subseteq G!Referenced \cup paths
    <3> SUFFICES ASSUME NEW q \in G!Referenced', q \notin G!Referenced PROVE q \in paths
      OBVIOUS
    <3>1. PICK e \in Dirs : rows'[e] # None /\ \E n \in rows'[e] : q = G!File(e, n)
      BY <1>1 DEF G!Referenced, G!File
    <3>2. e = d /\ rows[d] # None /\ q = p
      BY <1>3, <1>4, <3>1, ReferencedIs
    <3>3. QED
      BY <3>2
  <2>4. \A q \in paths : q[2] \in {"asset", "thumbnail"}
    BY <2>1
  <2>5. QED
    BY <1>1, <2>2, <2>3, <2>4, Refers
<1>7. \A e \in Dirs : rows'[e] # None => "asset" \in rows'[e] /\ "tmp" \notin rows'[e]
  BY <1>0, <1>3, <1>4 DEF KnownKept
<1>8. QED
  BY <1>0, <1>1, <1>2, <1>3, <1>5, <1>6, <1>7, NoFileStep DEF G!TypeOK

LEMMA ReadLatestStep ==
  ASSUME GcIInv, NEW d \in Dirs, G!ReadLatest(d)
  PROVE  GcIInv'
<1>0. /\ GcTyped /\ KnownKept /\ SweepAgrees /\ writer \in [Dirs -> Writers] /\ G!TypeOK
  BY WritersTyped DEF GcIInv, GcTyped, G!TypeOK
<1>1. UNCHANGED <<clock, disk, writer, rows, favicon, sweep, renders, wrote, late>>
  BY DEF G!ReadLatest
<1>2. PICK latest \in Dirs \cup {None} :
        /\ latest # None => rows[latest] # None
        /\ deleting' = [deleting EXCEPT ![d] = [latest |-> latest]]
  BY DEF G!ReadLatest
<1>3. /\ deleting' \in [Dirs -> [latest : Dirs \cup {None}] \cup {None}] /\ deleting'[d].latest = latest
      /\ \A e \in Dirs \ {d} : deleting'[e] = deleting[e]
  BY <1>0, <1>2 DEF G!TypeOK
<1>4. \A e \in Dirs, name \in {"asset", "thumbnail"} : KnownTo(e, name)' => KnownTo(e, name)
  <2> SUFFICES ASSUME NEW e \in Dirs, NEW name \in {"asset", "thumbnail"}, KnownTo(e, name)'
               PROVE  KnownTo(e, name)
    OBVIOUS
  <2>1. CASE name = "asset" /\ \E c \in Dirs : deleting'[c] # None /\ deleting'[c].latest = e
    <3>1. PICK c \in Dirs : deleting'[c] # None /\ deleting'[c].latest = e
      BY <2>1
    <3>2. CASE c = d
      <4>1. e = latest /\ e # None
        BY <1>3, <3>1, <3>2, ServerAssumption
      <4>2. QED
        BY <1>0, <1>2, <2>1, <4>1 DEF KnownKept, KnownTo
    <3>3. CASE c # d
      BY <1>3, <2>1, <3>1, <3>3 DEF KnownTo
    <3>4. QED
      BY <3>2, <3>3
  <2>2. QED
    BY <1>1, <2>1 DEF KnownTo
<1>5. SweepAgrees'
  BY <1>0, <1>1, SweepStays, SameReferences, ReferencedKnown DEF GcTyped
<1>6. QED
  BY <1>0, <1>1, <1>3, <1>4, <1>5, NoFileStep DEF GcTyped, G!TypeOK, KnownKept

LEMMA DeleteCaptureStep ==
  ASSUME GcIInv, NEW d \in Dirs, G!DeleteCapture(d)
  PROVE  GcIInv'
<1>0. /\ GcTyped /\ KnownKept /\ SweepAgrees /\ writer \in [Dirs -> Writers] /\ G!TypeOK
  BY WritersTyped DEF GcIInv, GcTyped, G!TypeOK
<1>1. UNCHANGED <<clock, disk, writer, sweep, renders, wrote>>
  BY DEF G!DeleteCapture
<1>2. /\ deleting[d] # None /\ favicon' = deleting[d].latest /\ favicon' \in Dirs \cup {None}
      /\ deleting' \in [Dirs -> [latest : Dirs \cup {None}] \cup {None}]
      /\ deleting'[d] = None /\ \A e \in Dirs \ {d} : deleting'[e] = deleting[e]
  BY <1>0 DEF G!DeleteCapture, G!TypeOK
<1>3. /\ rows' \in [Dirs -> (SUBSET G!Names) \cup {None}]
      /\ rows'[d] = None /\ \A e \in Dirs \ {d} : rows'[e] = rows[e]
  BY <1>0 DEF G!DeleteCapture, G!TypeOK
<1>4. \A e \in Dirs, name \in {"asset", "thumbnail"} : KnownTo(e, name)' => KnownTo(e, name)
  BY <1>1, <1>2, <1>3 DEF KnownTo
<1>5. late' \in SUBSET G!Paths /\ SweepAgrees'
  <2> DEFINE paths == IF favicon' = None THEN {} ELSE {G!File(favicon', "asset")}
  <2>1. G!Refer(paths)
    BY DEF G!DeleteCapture
  <2>2. paths \in SUBSET G!Paths /\ \A q \in paths : q[2] \in {"asset", "thumbnail"}
    BY <1>2, FilePath DEF G!Names
  <2>3. G!Referenced' \subseteq G!Referenced \cup paths
    <3> SUFFICES ASSUME NEW q \in G!Referenced', q \notin paths PROVE q \in G!Referenced
      OBVIOUS
    <3>1. PICK e \in Dirs : rows'[e] # None /\ \E n \in rows'[e] : q = G!File(e, n)
      BY DEF G!Referenced, G!File
    <3>2. QED
      BY <1>3, <3>1, ReferencedIs
  <2>4. QED
    BY <1>1, <2>1, <2>2, <2>3, Refers
<1>6. \A e \in Dirs : rows'[e] # None => "asset" \in rows'[e] /\ "tmp" \notin rows'[e]
  BY <1>0, <1>3 DEF KnownKept
<1>7. QED
  BY <1>0, <1>1, <1>2, <1>3, <1>4, <1>5, <1>6, NoFileStep DEF G!TypeOK

-----------------------------------------------------------------------------
(* The command.                                                            *)

\* Gc counts with its own instance of the standard module.
LEMMA SameCount == ASSUME NEW T PROVE G!Cardinality(T) = Cardinality(T)
BY DEF G!Cardinality, Cardinality

\* What a step of the command leaves to show: it only removes, and an orphan is a file
\* that it has found.
LEMMA CommandStep ==
  ASSUME GcIInv, UNCHANGED <<clock, writer, rows, favicon, deleting, renders, wrote>>, late' \subseteq G!Paths,
         sweep' \in Sweep, sweep'.cutoff <= clock,
         DOMAIN disk' \subseteq DOMAIN disk, \A p \in DOMAIN disk' : disk'[p] = disk[p],
         DOMAIN disk \cup sweep.removed \subseteq DOMAIN disk' \cup sweep'.removed,
         sweep'.orphans \subseteq sweep.orphans \cup DOMAIN disk,
         SweepAgrees', CheckAgrees', OldSeen'
  PROVE  GcIInv'
<1>0. /\ GcTyped /\ KnownKept /\ TimesAgree /\ AssetIsNew /\ writer \in [Dirs -> Writers]
  BY WritersTyped DEF GcIInv, GcTyped, G!TypeOK
<1>1. GcTyped'
  <2>1. IsFiniteSet(DOMAIN disk')
    BY <1>0, FS_Subset DEF GcTyped
  <2>2. DOMAIN disk' \subseteq G!Paths /\ \A p \in DOMAIN disk' : disk'[p] \in 0..clock
    BY <1>0 DEF GcTyped, G!TypeOK
  <2>3. /\ sweep'.at \in {"idle", "listed", "walk", "remove", "over", "refused"}
        /\ sweep'.orphans \cup sweep'.removed \cup sweep'.failed \cup sweep'.live \subseteq G!Paths
    BY DEF Sweep
  <2>4. QED
    BY <1>0, <2>1, <2>2, <2>3 DEF GcTyped, G!TypeOK
<1>2. KnownKept'
  <2>1. \A e \in Dirs, name \in {"asset", "thumbnail"} : KnownTo(e, name)' => KnownTo(e, name)
    BY <1>0 DEF KnownTo
  <2>2. QED
    BY <1>0, <2>1, KnownStays DEF KnownKept
<1>3. TimesAgree'
  <2>1. \A e \in Dirs : G!Temp(e)' = G!Temp(e)
    BY <1>0 DEF G!Temp
  <2>2. \A e \in Dirs : writer'[e].at = "temp" /\ G!Temp(e)' \in DOMAIN disk' =>
          wrote'[G!File(e, writer'[e].name)] <= disk'[G!Temp(e)']
    BY <1>0, <2>1 DEF TimesAgree
  <2>3. \A p \in DOMAIN disk' : p[2] # "tmp" => disk'[p] = wrote'[p]
    BY <1>0 DEF TimesAgree
  <2>4. QED
    BY <2>2, <2>3 DEF TimesAgree, G!File
<1>4. AssetIsNew'
  <2>1. \A e \in Dirs : writer'[e].at \in {"idle", "temp"} /\ writer'[e].name = "asset" =>
          G!File(e, "asset") \notin DOMAIN disk' \cup sweep'.orphans
    BY <1>0 DEF AssetIsNew
  <2>2. QED
    BY <2>1 DEF AssetIsNew, G!File
<1>5. QED
  BY <1>1, <1>2, <1>3, <1>4 DEF GcIInv

\* Most steps of the command change nothing but the files and what it holds.
LEMMA QuietReferences ==
  G!Quiet => G!Referenced' = G!Referenced /\ UNCHANGED <<clock, wrote, late>>
BY SameReferences DEF G!Quiet, G!db

LEMMA QuietStep ==
  ASSUME GcIInv, G!Quiet, sweep' \in Sweep, sweep'.cutoff <= clock,
         DOMAIN disk' \subseteq DOMAIN disk, \A p \in DOMAIN disk' : disk'[p] = disk[p],
         DOMAIN disk \cup sweep.removed \subseteq DOMAIN disk' \cup sweep'.removed,
         sweep'.orphans \subseteq sweep.orphans \cup DOMAIN disk,
         SweepAgrees', CheckAgrees', OldSeen'
  PROVE  GcIInv'
<1>1. UNCHANGED <<clock, writer, rows, favicon, deleting, renders, wrote, late>>
  BY DEF G!Quiet, G!db
<1>2. late' \subseteq G!Paths
  BY <1>1 DEF GcIInv, GcTyped
<1>3. QED
  BY <1>1, <1>2, CommandStep

LEMMA ListReferencedStep ==
  ASSUME GcIInv, G!ListReferenced
  PROVE  GcIInv'
<1>0. /\ GcTyped /\ KnownKept /\ SweepAgrees /\ CheckAgrees /\ OldSeen /\ clock \in 0..MaxClock
      /\ sweep.at = "idle" /\ G!Quiet /\ disk' = disk
  BY DEF GcIInv, GcTyped, G!TypeOK, G!ListReferenced
<1>1. /\ sweep'.at = "listed" /\ sweep'.mode = "unread" /\ sweep'.live = G!Referenced /\ sweep'.cutoff = 0
      /\ sweep'.todo = {} /\ sweep'.scanned = 0 /\ sweep'.orphans = {} /\ sweep'.removed = {} /\ sweep'.failed = {}
  BY DEF G!ListReferenced, G!Idle
<1>2. G!Referenced \subseteq G!Paths /\ \A p \in G!Referenced : p[2] # "tmp"
  BY <1>0, ReferencedKnown
<1>3. sweep' \in Sweep
  <2>1. sweep' = [at |-> "listed", mode |-> "unread", live |-> G!Referenced, cutoff |-> 0, todo |-> {},
                  scanned |-> 0, orphans |-> {}, removed |-> {}, failed |-> {}]
    BY DEF G!ListReferenced, G!Idle
  <2>2. G!Referenced \in SUBSET G!Paths /\ 0 \in 0..MaxClock
    BY <1>2, ServerAssumption
  <2>3. QED
    BY <2>1, <2>2 DEF Sweep
<1>4. SweepAgrees'
  BY <1>0, <1>1, QuietReferences DEF SweepAgrees, Scanning, Unread
<1>5. CheckAgrees'
  BY <1>1, FS_EmptySet DEF CheckAgrees, Scanning, Unread
<1>6. OldSeen'
  BY <1>0, <1>1, <1>2 DEF OldSeen, Scanning, Unread
<1>7. 0 <= clock /\ sweep.removed = {}
  BY <1>0, ServerAssumption DEF SweepAgrees, Scanning, Unread
<1>8. QED
  BY <1>0, <1>1, <1>3, <1>4, <1>5, <1>6, <1>7, QuietStep

\* The cutoff is the time now: what is referred to and was not listed is young, or late.
LEMMA TakeCutoffStep ==
  ASSUME GcIInv, G!TakeCutoff
  PROVE  GcIInv'
<1>0. /\ GcTyped /\ KnownKept /\ SweepAgrees /\ CheckAgrees /\ OldSeen /\ clock \in 0..MaxClock
      /\ sweep.at = "listed" /\ disk' = disk /\ sweep \in Sweep
      /\ UNCHANGED <<clock, writer, rows, favicon, deleting, renders, wrote>>
      /\ late' = late \cup {p \in G!Referenced \ sweep.live : G!Aged(p)}
  BY DEF GcIInv, GcTyped, G!TypeOK, G!TakeCutoff, G!db
<1>1. /\ sweep'.at = "walk" /\ sweep'.mode = sweep.mode /\ sweep'.live = sweep.live /\ sweep'.cutoff = clock
      /\ sweep'.todo = Dirs /\ sweep'.scanned = sweep.scanned /\ sweep'.orphans = sweep.orphans
      /\ sweep'.removed = sweep.removed /\ sweep'.failed = sweep.failed /\ sweep' \in Sweep
  BY <1>0 DEF G!TakeCutoff, Sweep
<1>2. sweep.orphans = {} /\ sweep.removed = {} /\ sweep.failed = {} /\ G!Referenced' = G!Referenced
  BY <1>0, SameReferences DEF SweepAgrees, Scanning, Unread
<1>3. late' \subseteq G!Paths
  BY <1>0, ReferencedKnown DEF GcTyped
<1>4. SweepAgrees'
  <2>1. ASSUME NEW p \in G!Referenced \ (sweep.live \cup late') PROVE wrote[p] + Grace > clock
    <3>1. p \in G!Paths /\ ~(clock >= wrote[p] + Grace)
      BY <1>0, <2>1, ReferencedKnown DEF G!Aged
    <3>2. wrote[p] \in Nat /\ Grace \in Nat /\ clock \in Nat
      BY <1>0, <3>1, ServerAssumption DEF GcTyped
    <3>3. QED
      BY <3>1, <3>2
  <2>2. QED
    BY <1>0, <1>1, <1>2, <2>1 DEF SweepAgrees, Scanning, Unread
<1>5. CheckAgrees'
  BY <1>0, <1>1, <1>2 DEF CheckAgrees, Scanning, Unread
<1>6. OldSeen'
  <2>1. \A p \in DOMAIN disk : p[1] \in Dirs
    BY <1>0 DEF GcTyped, G!TypeOK, G!Paths
  <2>2. QED
    BY <1>0, <1>1, <2>1 DEF OldSeen, Seen, Scanning, Unread
<1>7. clock <= clock
  BY <1>0, ServerAssumption
<1>8. QED
  BY <1>0, <1>1, <1>2, <1>3, <1>4, <1>5, <1>6, <1>7, CommandStep

LEMMA WalkStep ==
  ASSUME GcIInv, NEW d \in Dirs, G!Walk(d)
  PROVE  GcIInv'
<1> DEFINE found == {p \in G!FilesIn(d) \ sweep.live : G!IsOld(disk[p])}
<1>0. /\ GcTyped /\ KnownKept /\ TimesAgree /\ SweepAgrees /\ CheckAgrees /\ OldSeen
      /\ sweep.at = "walk" /\ d \in sweep.todo /\ G!Quiet /\ disk' = disk /\ sweep \in Sweep
  BY DEF GcIInv, GcTyped, G!Walk
<1>1. found \subseteq DOMAIN disk /\ found \cap sweep.live = {} /\ IsFiniteSet(found)
  <2>1. found \subseteq DOMAIN disk /\ found \cap sweep.live = {}
    BY DEF G!FilesIn
  <2>2. QED
    BY <1>0, <2>1, FS_Subset DEF GcTyped
<1>2. /\ sweep' = [sweep EXCEPT !.todo = sweep.todo \ {d},
                     !.scanned = sweep.scanned + Cardinality(G!FilesIn(d)), !.orphans = sweep.orphans \cup found]
      /\ sweep' \in Sweep
  <2>1. IsFiniteSet(G!FilesIn(d))
    BY <1>0, FS_Subset DEF GcTyped, G!FilesIn
  <2>2. Cardinality(G!FilesIn(d)) \in Nat
    BY <2>1, FS_CardinalityType
  <2>3. found \subseteq G!Paths
    BY <1>0, <1>1 DEF GcTyped, G!TypeOK
  <2>4. sweep' = [sweep EXCEPT !.todo = sweep.todo \ {d},
                    !.scanned = sweep.scanned + Cardinality(G!FilesIn(d)), !.orphans = sweep.orphans \cup found]
    BY SameCount DEF G!Walk
  <2>5. sweep.scanned + Cardinality(G!FilesIn(d)) \in Nat /\ sweep.todo \ {d} \in SUBSET Dirs
    BY <1>0, <2>2 DEF Sweep
  <2>6. sweep.orphans \cup found \in SUBSET G!Paths
    BY <1>0, <2>3 DEF Sweep
  <2> HIDE DEF found
  <2>7. QED
    BY <1>0, <2>4, <2>5, <2>6 DEF Sweep
<1>3. \A p \in found : p[2] # "tmp" => wrote[p] + Grace <= sweep.cutoff
  BY <1>0, <1>1 DEF TimesAgree, G!IsOld
<1>4. found \cap G!Referenced \subseteq late
  <2> SUFFICES ASSUME NEW p \in found, p \in G!Referenced, p \notin late PROVE FALSE
    OBVIOUS
  <2>1. p \in G!Paths /\ p[2] # "tmp" /\ wrote[p] + Grace > sweep.cutoff /\ wrote[p] + Grace <= sweep.cutoff
    BY <1>0, <1>1, <1>3, ReferencedKnown DEF SweepAgrees, Scanning, Unread
  <2>2. wrote[p] \in Nat /\ Grace \in Nat /\ sweep.cutoff \in Nat
    BY <1>0, <2>1, ServerAssumption DEF GcTyped, Sweep
  <2>3. QED
    BY <2>1, <2>2
<1>5. \A p \in DOMAIN disk \ sweep.live : p[1] = d /\ G!IsOld(disk[p]) => p \in found
  BY DEF G!FilesIn
<1> HIDE DEF found
<1>6. /\ sweep'.at = "walk" /\ sweep'.mode = sweep.mode /\ sweep'.live = sweep.live /\ sweep'.cutoff = sweep.cutoff
      /\ sweep'.todo = sweep.todo \ {d} /\ sweep'.orphans = sweep.orphans \cup found /\ sweep'.removed = sweep.removed
      /\ sweep'.failed = sweep.failed
  BY <1>0, <1>2 DEF Sweep
<1>7. SweepAgrees'
  BY <1>0, <1>1, <1>3, <1>4, <1>6, QuietReferences DEF SweepAgrees, Scanning, Unread
<1>8. CheckAgrees'
  <2>1. IsFiniteSet(sweep.orphans \cup found)
    BY <1>0, <1>1, FS_Union DEF CheckAgrees, Scanning, Unread
  <2>2. QED
    BY <1>0, <1>6, <2>1 DEF CheckAgrees, SweepAgrees, Scanning, Unread
<1>9. OldSeen'
  <2>1. ASSUME NEW p \in DOMAIN disk, G!IsOld(disk[p]) PROVE Seen(p)'
    <3>1. CASE p[1] = d
      BY <1>0, <1>5, <1>6, <2>1, <3>1 DEF Seen, SweepAgrees, Scanning, Unread
    <3>2. CASE p[1] # d
      BY <1>0, <1>6, <2>1, <3>2 DEF OldSeen, Seen, SweepAgrees, Scanning, Unread
    <3>3. QED
      BY <3>1, <3>2
  <2>2. QED
    BY <1>0, <1>6, <2>1 DEF OldSeen, G!IsOld, Scanning, Unread
<1>10. sweep'.cutoff <= clock
  BY <1>0, <1>6 DEF GcTyped
<1>11. QED
  BY <1>0, <1>1, <1>2, <1>6, <1>7, <1>8, <1>9, <1>10, QuietStep

LEMMA CheckStep ==
  ASSUME GcIInv, NEW mode \in {"dry", "force", "run"}, G!Check(mode)
  PROVE  GcIInv'
<1> DEFINE verdict == IF mode = "dry" THEN "over" ELSE IF G!TooManyOrphans /\ mode = "run" THEN "refused" ELSE "remove"
<1>0. /\ GcTyped /\ SweepAgrees /\ CheckAgrees /\ OldSeen
      /\ sweep.at = "walk" /\ sweep.todo = {} /\ G!Quiet /\ disk' = disk /\ sweep \in Sweep
  BY DEF GcIInv, GcTyped, G!Check
<1>1. sweep' = [sweep EXCEPT !.mode = mode, !.at = verdict]
  BY DEF G!Check
<1>2. /\ verdict \in {"over", "refused", "remove"}
      /\ verdict = "over" <=> mode = "dry"
      /\ verdict = "remove" /\ mode = "run" => ~G!TooManyOrphans
  OBVIOUS
<1> HIDE DEF verdict
<1>3. /\ sweep' \in Sweep /\ sweep'.at = verdict /\ sweep'.mode = mode /\ sweep'.live = sweep.live
      /\ sweep'.cutoff = sweep.cutoff /\ sweep'.todo = sweep.todo /\ sweep'.scanned = sweep.scanned
      /\ sweep'.orphans = sweep.orphans /\ sweep'.removed = sweep.removed
      /\ sweep'.failed = sweep.failed
  BY <1>0, <1>1, <1>2 DEF Sweep
<1>4. SweepAgrees'
  BY <1>0, <1>2, <1>3, QuietReferences DEF SweepAgrees, Scanning, Unread
<1>5. CheckAgrees'
  <2>1. ASSUME verdict = "remove", mode = "run"
        PROVE  sweep.scanned < MinFiles \/ 2 * Cardinality(sweep.orphans) <= sweep.scanned
    <3>1. Cardinality(sweep.orphans) \in Nat /\ sweep.scanned \in Nat /\ MinFiles \in Nat
      BY <1>0, FS_CardinalityType, ServerAssumption DEF CheckAgrees, Sweep, Scanning, Unread
    <3>2. ~(sweep.scanned >= MinFiles /\ 2 * Cardinality(sweep.orphans) > sweep.scanned)
      BY <1>2, <2>1, SameCount DEF G!TooManyOrphans
    <3>3. QED
      BY <3>1, <3>2
  <2>2. QED
    BY <1>0, <1>2, <1>3, <2>1 DEF CheckAgrees, SweepAgrees, Scanning, Unread
<1>6. OldSeen'
  <2>1. \A p : Seen(p)' <=> Seen(p)
    BY <1>3 DEF Seen
  <2>2. QED
    BY <1>0, <1>2, <1>3, <2>1 DEF OldSeen, G!IsOld, Scanning, Unread
<1>7. sweep'.cutoff <= clock
  BY <1>0, <1>3 DEF GcTyped
<1>8. QED
  BY <1>0, <1>3, <1>4, <1>5, <1>6, <1>7, QuietStep

LEMMA RemoveStep ==
  ASSUME GcIInv, NEW p, G!Remove(p)
  PROVE  GcIInv'
<1>0. /\ GcTyped /\ SweepAgrees /\ CheckAgrees /\ OldSeen
      /\ sweep.at = "remove" /\ p \in sweep.orphans /\ p \in DOMAIN disk /\ G!Quiet /\ sweep \in Sweep
  BY DEF GcIInv, GcTyped, G!Remove, G!Remaining
<1>1. DOMAIN disk' = DOMAIN disk \ {p} /\ \A q \in DOMAIN disk' : disk'[q] = disk[q]
  BY Removed DEF G!Remove
<1>2. sweep' = [sweep EXCEPT !.removed = sweep.removed \cup {p}]
  BY DEF G!Remove
<1>3. /\ sweep' \in Sweep /\ sweep'.at = sweep.at /\ sweep'.mode = sweep.mode /\ sweep'.live = sweep.live
      /\ sweep'.cutoff = sweep.cutoff /\ sweep'.todo = sweep.todo /\ sweep'.scanned = sweep.scanned
      /\ sweep'.orphans = sweep.orphans /\ sweep'.removed = sweep.removed \cup {p}
      /\ sweep'.failed = sweep.failed
  BY <1>0, <1>2 DEF Sweep
<1>4. SweepAgrees'
  BY <1>0, <1>3, QuietReferences DEF SweepAgrees, Scanning, Unread
<1>5. CheckAgrees'
  BY <1>0, <1>3 DEF CheckAgrees, Scanning, Unread
<1>6. OldSeen'
  <2>1. \A q \in DOMAIN disk' : Seen(q) => Seen(q)'
    BY <1>1, <1>3 DEF Seen
  <2>2. QED
    BY <1>0, <1>1, <1>3, <2>1 DEF OldSeen, G!IsOld, Scanning, Unread
<1>7. sweep'.cutoff <= clock
  BY <1>0, <1>3 DEF GcTyped
<1>8. QED
  BY <1>0, <1>1, <1>3, <1>4, <1>5, <1>6, <1>7, QuietStep

LEMMA FailRemoveStep ==
  ASSUME GcIInv, NEW p, G!FailRemove(p)
  PROVE  GcIInv'
<1>0. /\ GcTyped /\ SweepAgrees /\ CheckAgrees /\ OldSeen
      /\ sweep.at = "remove" /\ p \in sweep.orphans /\ G!Quiet /\ disk' = disk /\ sweep \in Sweep
  BY DEF GcIInv, GcTyped, G!FailRemove, G!Remaining
<1>1. sweep' = [sweep EXCEPT !.failed = sweep.failed \cup {p}]
  BY DEF G!FailRemove
<1>2. /\ sweep' \in Sweep /\ sweep'.at = sweep.at /\ sweep'.mode = sweep.mode /\ sweep'.live = sweep.live
      /\ sweep'.cutoff = sweep.cutoff /\ sweep'.todo = sweep.todo /\ sweep'.scanned = sweep.scanned
      /\ sweep'.orphans = sweep.orphans /\ sweep'.removed = sweep.removed
  BY <1>0, <1>1 DEF Sweep
<1>3. SweepAgrees'
  BY <1>0, <1>2, QuietReferences DEF SweepAgrees, Scanning, Unread
<1>4. CheckAgrees'
  BY <1>0, <1>2 DEF CheckAgrees, Scanning, Unread
<1>5. OldSeen'
  <2>1. \A q : Seen(q)' <=> Seen(q)
    BY <1>2 DEF Seen
  <2>2. QED
    BY <1>0, <1>2, <2>1 DEF OldSeen, G!IsOld, Scanning, Unread
<1>6. sweep'.cutoff <= clock
  BY <1>0, <1>2 DEF GcTyped
<1>7. QED
  BY <1>0, <1>2, <1>3, <1>4, <1>5, <1>6, QuietStep

LEMMA EndRemovalStep ==
  ASSUME GcIInv, G!EndRemoval
  PROVE  GcIInv'
<1>0. /\ GcTyped /\ SweepAgrees /\ CheckAgrees /\ OldSeen
      /\ sweep.at = "remove" /\ G!Remaining = {} /\ G!Quiet /\ disk' = disk /\ sweep \in Sweep
  BY DEF GcIInv, GcTyped, G!EndRemoval
<1>1. sweep' = [sweep EXCEPT !.at = "over"]
  BY DEF G!EndRemoval
<1>2. /\ sweep' \in Sweep /\ sweep'.at = "over" /\ sweep'.mode = sweep.mode /\ sweep'.live = sweep.live
      /\ sweep'.cutoff = sweep.cutoff /\ sweep'.todo = sweep.todo /\ sweep'.scanned = sweep.scanned
      /\ sweep'.orphans = sweep.orphans /\ sweep'.removed = sweep.removed
      /\ sweep'.failed = sweep.failed
  BY <1>0, <1>1 DEF Sweep
<1>3. SweepAgrees'
  BY <1>0, <1>2, QuietReferences DEF SweepAgrees, Scanning, Unread
<1>4. CheckAgrees'
  BY <1>0, <1>2 DEF CheckAgrees, Scanning, Unread
<1>5. OldSeen'
  <2>1. \A q : Seen(q)' <=> Seen(q)
    BY <1>2 DEF Seen
  <2>2. QED
    BY <1>0, <1>2, <2>1 DEF OldSeen, G!IsOld, G!Remaining, Scanning, Unread
<1>6. sweep'.cutoff <= clock
  BY <1>0, <1>2 DEF GcTyped
<1>7. QED
  BY <1>0, <1>2, <1>3, <1>4, <1>5, <1>6, QuietStep

-----------------------------------------------------------------------------
(* The theorems.                                                           *)

\* Every step of a writer, of a deletion and of the command keeps the agreement.
LEMMA GcIInvStep == GcIInv /\ [G!Next]_G!vars => GcIInv'
<1> SUFFICES ASSUME GcIInv, [G!Next]_G!vars PROVE GcIInv'
  OBVIOUS
<1>1. CASE G!Writer
  BY <1>1, CreateTempStep, RenameStep, AbortStep, CommitStep, RenderStep, CommitThumbnailStep,
     ReadLatestStep, DeleteCaptureStep DEF G!Writer
<1>2. CASE G!Sweep
  BY <1>2, ListReferencedStep, TakeCutoffStep, EndRemovalStep, WalkStep, CheckStep, RemoveStep,
     FailRemoveStep DEF G!Sweep
<1>3. CASE UNCHANGED G!vars
  <2>1. UNCHANGED <<clock, disk, writer, rows, favicon, deleting, sweep, renders, wrote, late>>
    BY <1>3 DEF G!vars
  <2>2. \A e \in Dirs, name \in {"asset", "thumbnail"} : KnownTo(e, name)' => KnownTo(e, name)
    BY <2>1 DEF KnownTo
  <2>3. SweepAgrees'
    BY <2>1, SweepStays, SameReferences, ReferencedKnown DEF GcIInv, GcTyped
  <2>4. writer \in [Dirs -> Writers]
    BY WritersTyped DEF GcIInv, GcTyped, G!TypeOK
  <2>5. clock' >= clock
    BY <2>1, ServerAssumption DEF GcIInv, GcTyped, G!TypeOK
  <2>6. QED
    BY <2>1, <2>2, <2>3, <2>4, <2>5, NoFileStep DEF GcIInv, GcTyped, G!TypeOK, KnownKept
<1>4. QED
  BY <1>1, <1>2, <1>3, TickStep DEF G!Next

LEMMA GcIInvInit == G!Init => GcIInv
<1> SUFFICES ASSUME G!Init PROVE GcIInv
  OBVIOUS
<1>1. /\ clock = 0 /\ DOMAIN disk = {} /\ renders = 0 /\ late = {} /\ sweep = G!Idle
      /\ \A d \in Dirs : writer[d] = [at |-> "idle", name |-> "asset", no |-> 0]
      /\ rows = [d \in Dirs |-> None] /\ favicon = None /\ deleting = [d \in Dirs |-> None]
      /\ wrote = [p \in G!Paths |-> 0]
  BY DEF G!Init
<1>2. G!Referenced = {}
  BY <1>1, ReferencedIs
<1>3. /\ sweep.at = "idle" /\ sweep.mode = "unread" /\ sweep.live = {} /\ sweep.cutoff = 0 /\ sweep.scanned = 0
      /\ sweep.orphans = {} /\ sweep.removed = {} /\ sweep.failed = {} /\ sweep \in Sweep
  BY <1>1, ServerAssumption DEF G!Idle, Sweep
<1>4. writer \in [Dirs -> Writers]
  BY ServerAssumption DEF G!Init, Writers
<1>5. IsFiniteSet(DOMAIN disk) /\ IsFiniteSet(sweep.orphans)
  BY <1>1, <1>3, FS_EmptySet
<1>6. GcTyped
  BY <1>1, <1>3, <1>4, <1>5, WritersTyped, ServerAssumption DEF GcTyped, G!TypeOK
<1>7. KnownKept /\ AssetIsNew /\ TimesAgree
  <2>1. KnownKept
    BY <1>1, ServerAssumption DEF KnownKept, KnownTo
  <2>2. AssetIsNew /\ TimesAgree
    BY <1>1, <1>3 DEF AssetIsNew, TimesAgree
  <2>3. QED
    BY <2>1, <2>2
<1>8. SweepAgrees /\ CheckAgrees /\ OldSeen
  BY <1>2, <1>3, <1>5 DEF SweepAgrees, CheckAgrees, OldSeen, Scanning, Unread
<1>9. QED
  BY <1>6, <1>7, <1>8 DEF GcIInv

\* The files, the rows and what the sweep holds agree, whatever is written, rendered or
\* deleted while the command runs: the inductive invariant.
THEOREM GcInvariance == G!Spec => []GcIInv
<1>1. GcIInv /\ [G!Next]_G!vars => GcIInv'
  BY GcIInvStep
<1>2. QED
  BY <1>1, GcIInvInit, PTL DEF G!Spec

\* gc.Run: no file that a row refers to is missing, unless the row began to refer to it
\* after the query of the sweep and the file was older than the grace period by then, or
\* by the time of the cutoff.
THEOREM ReferencedKept == G!Spec => []GcInv
<1>1. GcIInv => GcInv
  <2> SUFFICES ASSUME GcIInv, NEW p \in G!Referenced \ late PROVE p \in DOMAIN disk
    BY DEF GcIInv, GcTyped, GcInv, G!ReferencedExists
  <2>1. p \in DOMAIN disk \cup sweep.removed
    BY ReferencedKnown DEF GcIInv
  <2>2. p \notin sweep.removed
    BY DEF GcIInv, SweepAgrees
  <2>3. QED
    BY <2>1, <2>2
<1>2. QED
  BY <1>1, GcInvariance, PTL

\* gc.Run, TooManyOrphansError: an unforced sweep removes at most half of what it scanned,
\* and a sweep that ends has removed what was orphaned and old, but for the failures.
THEOREM SweepIsExact == G!Spec => []SweepExact
<1>1. GcIInv => SweepExact
  <2> SUFFICES ASSUME GcIInv PROVE SweepExact
    OBVIOUS
  <2>0. CheckAgrees /\ SweepAgrees /\ OldSeen /\ sweep \in Sweep
    BY DEF GcIInv, GcTyped
  <2>1. G!UnforcedSparesHalf
    <3> SUFFICES ASSUME sweep.removed # {}, sweep.mode # "force", ~(sweep.scanned < MinFiles)
                 PROVE  /\ sweep.mode # "dry" /\ sweep.at # "refused"
                        /\ 2 * Cardinality(sweep.removed) <= sweep.scanned
      BY <2>0, SameCount DEF G!UnforcedSparesHalf, CheckAgrees
    <3>1. sweep.mode = "run" /\ sweep.at \in {"remove", "over"}
      BY <2>0 DEF CheckAgrees, Sweep, SweepAgrees
    <3>2. 2 * Cardinality(sweep.orphans) <= sweep.scanned
      BY <2>0, <3>1 DEF CheckAgrees
    <3>3. /\ Cardinality(sweep.removed) <= Cardinality(sweep.orphans)
          /\ Cardinality(sweep.removed) \in Nat /\ Cardinality(sweep.orphans) \in Nat
      BY <2>0, FS_Subset, FS_CardinalityType DEF CheckAgrees, SweepAgrees
    <3>4. sweep.scanned \in Nat
      BY <2>0 DEF Sweep
    <3>5. QED
      BY <3>1, <3>2, <3>3, <3>4
  <2>2. G!SweepComplete
    BY <2>0 DEF G!SweepComplete, G!Remaining, OldSeen, Seen, Scanning, Unread
  <2>3. QED
    BY <2>1, <2>2 DEF SweepExact
<1>2. QED
  BY <1>1, GcInvariance, PTL
===============================================================================
