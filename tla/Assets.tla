------------------------------- MODULE Assets -------------------------------
(***************************************************************************)
(* The assets of one Episode and the Artwork of its Feed: what the archive *)
(* job puts under assets/ in the Object store (what the Engine produced,   *)
(* what the Source's item lists, what its show notes embed) and the rows   *)
(* of the assets table that name it (worker/jobs/archive_item.py,          *)
(* adapters/assets/mirror.py, adapters/db/repositories/assets.py).         *)
(*                                                                         *)
(* Objects are written before the transaction that records them, removed   *)
(* after the one that drops their rows; a job may fail, die or find its    *)
(* item deleted at every step, and a process may die with a removal in     *)
(* hand.  An object holds the number of the attempt that wrote it.         *)
(***************************************************************************)
EXTENDS Naturals, FiniteSets, Functions

CONSTANTS Brings,        \* what one attempt may find: sets of offers
          AttemptsMax,   \* bound on the attempts and the refreshes
          FaultsMax      \* bound on the deaths and the failed uploads

\* Attachments are what the show notes reference, and nothing else comes from there (AssetKind).
ASSUME AssetsAssumption ==
    /\ AttemptsMax \in Nat /\ FaultsMax \in Nat
    /\ \A offers \in Brings : \A o \in offers :
          /\ o = [kind |-> o.kind, lang |-> o.lang, by |-> o.by]
          /\ o.kind \in {"artwork", "chapters", "transcript", "attachment"}
          /\ o.kind = "attachment" <=> o.by = "notes"

VARIABLES item,          \* the Catalog row: [state, att, got]
          rows,          \* the assets table: identity -> [state, name]
          stored,        \* the Object store: name -> attempt
          work,          \* the archive job
          removals,      \* removals after a commit still to come: [names, att]
          art,           \* the Feed's Artwork: its row and the Refresh at work
          count          \* [attempts, faults, broken, late]

assetVars == <<item, rows, stored, work, removals, art, count>>

\* The entries of one dictionary over those of another.
Over(f, g) == [x \in DOMAIN f \cup DOMAIN g |-> IF x \in DOMAIN f THEN f[x] ELSE g[x]]

\* An offer: what kind of asset, in which language (transcripts), from whom.
Offer(kind, lang, by) == [kind |-> kind, lang |-> lang, by |-> by]
Identity(o) == <<o.kind, o.lang>>
\* The languages of a name are lower case; those of an identity are as listed.
language_tag(lang) == CASE lang = "EN" -> "en" [] lang = "" -> "und" [] OTHER -> lang
asset_basename(o, ext) ==
    IF o.kind = "artwork" THEN <<"artwork", ext>> ELSE <<o.kind, language_tag(o.lang)>>
Media == {<<"media", "">>, <<"info", "">>}
Sidecar == <<"xml", "">>

Placed(o, ext, failed) == [id |-> Identity(o), lang |-> o.lang, kind |-> o.kind,
                           name |-> asset_basename(o, ext), failed |-> failed]
NamesOf(placed) == {p.name : p \in {q \in placed : ~q.failed}}
Written(names) == [n \in names |-> count.attempts]
Has(produced, o) == \E p \in produced : /\ ~p.failed /\ p.kind = o.kind
                                        /\ o.lang \in {"", p.lang}

NoWork == [at |-> "idle", brings |-> {}, uploaded |-> {}, engine |-> {}, source |-> {}, notes |-> {}]
NoArt  == [state |-> "none", name |-> <<>>, at |-> "idle", fetched |-> <<>>, broken |-> FALSE]

AssetInit ==
    /\ item = [state |-> "wanted", att |-> 0, got |-> {}]
    /\ rows = <<>> /\ stored = <<>> /\ work = NoWork /\ removals = {} /\ art = NoArt
    /\ count = [attempts |-> 0, faults |-> 0, broken |-> {}, late |-> FALSE]

Faulty(broken) == /\ count.faults < FaultsMax
                  /\ count' = [count EXCEPT !.faults = @ + 1, !.broken = @ \cup broken]
-----------------------------------------------------------------------------
(***************************************************************************)
(* The archive job.                                                        *)
(***************************************************************************)
StartArchive ==
    /\ work.at = "idle" /\ item.state = "wanted" /\ count.attempts < AttemptsMax
    /\ item' = [item EXCEPT !.state = "archiving"]
    /\ \E b \in Brings : work' = [NoWork EXCEPT !.at = "media", !.brings = b]
    /\ count' = [count EXCEPT !.attempts = @ + 1]
    /\ UNCHANGED <<rows, stored, removals, art>>

upload_media ==
    /\ work.at = "media"
    /\ stored' = Over(Written(Media), stored)
    /\ work' = [work EXCEPT !.at = "engine", !.uploaded = @ \cup Media]
    /\ UNCHANGED <<item, rows, removals, art, count>>

Produced == {o \in work.brings : o.by = "engine"}
\* What the Engine left in Scratch: a language no key may carry fails its
\* transcript alone.
place_engine_outputs ==
    /\ work.at = "engine"
    /\ \E ext \in {"jpg", "png"}, bad \in SUBSET {o \in Produced : o.kind = "transcript"} :
         LET placed == {Placed(o, ext, o \in bad) : o \in Produced}
         IN  /\ stored' = Over(Written(NamesOf(placed)), stored)
             /\ work' = [work EXCEPT !.at = "source", !.engine = placed,
                                     !.uploaded = @ \cup NamesOf(placed)]
    /\ UNCHANGED <<item, rows, removals, art, count>>

\* Without asking what the Engine produced.
RemotesOfAll == {o \in work.brings : o.by = "source"}

\* What the Source's item lists and the Engine did not produce.
Remotes == {o \in work.brings : o.by = "source" /\ ~Has(work.engine, o)}

\* Each is fetched, judged by its bytes and stored: a refused, broken or
\* unstorable one fails alone.
mirror_asset(offers, ext, bad) == {Placed(o, ext, o \in bad) : o \in offers}

\* The item's XML, then the Remotes.
mirror_item_assets ==
    /\ work.at = "source"
    /\ \E ext \in {"jpg", "png"}, bad \in SUBSET Remotes :
         LET placed == mirror_asset(Remotes, ext, bad)
         IN  /\ stored' = Over(Written(NamesOf(placed) \cup {Sidecar}), stored)
             /\ work' = [work EXCEPT !.at = "notes", !.source = placed,
                                     !.uploaded = @ \cup {Sidecar}]
    /\ UNCHANGED <<item, rows, removals, art, count>>

Embedded == {o \in work.brings : o.by = "notes"}
mirror_description_attachments ==
    /\ work.at = "notes"
    /\ \E bad \in SUBSET Embedded :
         LET placed == mirror_asset(Embedded, "jpg", bad)
         IN  /\ stored' = Over(Written(NamesOf(placed)), stored)
             /\ work' = [work EXCEPT !.at = "record", !.notes = placed]
    /\ UNCHANGED <<item, rows, removals, art, count>>

Upserted(placed) ==
    [i \in {p.id : p \in placed} |->
        LET p == CHOOSE q \in placed : q.id = i
        IN  IF p.failed THEN [state |-> "failed", name |-> <<>>]
                        ELSE [state |-> "archived", name |-> p.name]]
_record_assets == Over(Upserted(work.notes), Over(Upserted(work.source), Over(Upserted(work.engine), rows)))
Local == UNION {NamesOf(work.engine), NamesOf(work.source), NamesOf(work.notes)}
Got == {p.id : p \in {q \in work.engine \cup work.source \cup work.notes : ~q.failed}}

\* The last transaction: the row and its assets, unless the item was taken away
\* meanwhile; then what this attempt wrote goes once it is committed.
Record ==
    /\ work.at = "record"
    /\ \/ /\ item.state = "archiving"
          /\ item' = [state |-> "archived", att |-> count.attempts, got |-> Got]
          /\ rows' = _record_assets /\ UNCHANGED removals
       \/ /\ item.state # "archiving"
          /\ removals' = removals \cup {[names |-> work.uploaded \cup Local, att |-> count.attempts]}
          /\ UNCHANGED <<item, rows>>
    /\ work' = NoWork
    /\ UNCHANGED <<stored, art, count>>

\* The Object store fails an upload: what the job remembers goes (unless the
\* store is still away), the attempt is counted.
UploadFails ==
    /\ work.at \in {"media", "engine", "source"} /\ Faulty({count.attempts})
    /\ \E gone \in {work.uploaded, {}} : stored' = Restrict(stored, DOMAIN stored \ gone)
    /\ \E s \in {"wanted", "failed"} :
         item' = IF item.state = "archiving" THEN [item EXCEPT !.state = s] ELSE item
    /\ work' = NoWork
    /\ UNCHANGED <<rows, removals, art>>

\* The worker dies, or the last transaction does: the item stays archiving.
JobDies ==
    /\ work.at # "idle" /\ Faulty({count.attempts})
    /\ work' = NoWork
    /\ UNCHANGED <<item, rows, stored, removals, art>>
-----------------------------------------------------------------------------
(***************************************************************************)
(* The user, and what runs after a commit.                                 *)
(***************************************************************************)
WantAgain ==
    /\ item.state \in {"failed", "deleted"}
    /\ item' = [item EXCEPT !.state = "wanted"]
    /\ UNCHANGED <<rows, stored, work, removals, art, count>>

delete_episode ==
    /\ item.state # "deleted"
    /\ LET media == IF item.state = "archived" THEN Media ELSE {<<"info", "">>}
           files == {rows[i].name : i \in {j \in DOMAIN rows : rows[j].state = "archived"}}
       IN  removals' = removals \cup {[names |-> media \cup files, att |-> count.attempts]}
    /\ rows' = <<>>
    /\ item' = [state |-> "deleted", att |-> 0, got |-> {}]
    /\ UNCHANGED <<stored, work, art, count>>

\* A removal looks at names only: one that comes late takes what a later attempt wrote.
RunRemoval(r) ==
    /\ removals' = removals \ {r}
    /\ stored' = Restrict(stored, DOMAIN stored \ r.names)
    /\ count' = [count EXCEPT !.late = @ \/ \E n \in r.names \cap DOMAIN stored :
                                                 stored[n] > r.att]
    /\ UNCHANGED <<item, rows, work, art>>

RemovalLost(r) ==
    /\ Faulty({stored[n] : n \in r.names \cap DOMAIN stored})
    /\ removals' = removals \ {r}
    /\ UNCHANGED <<item, rows, stored, work, art>>
-----------------------------------------------------------------------------
(***************************************************************************)
(* The Feed's Artwork: the Refresh looks for its row in one transaction,   *)
(* fetches, and records in another.                                        *)
(***************************************************************************)
ArtKey(ext) == <<"feed", ext>>

LookForArtwork ==
    /\ art.at = "idle" /\ art.state # "archived"
    /\ art' = [art EXCEPT !.at = "fetch"]
    /\ UNCHANGED <<item, rows, stored, work, removals, count>>

_mirror_feed_artwork ==
    /\ art.at = "fetch"
    /\ \/ art' = [art EXCEPT !.at = "record", !.fetched = <<>>] /\ UNCHANGED stored
       \/ \E ext \in {"jpg", "png"} :
            /\ stored' = Over([n \in {ArtKey(ext)} |-> 0], stored)
            /\ art' = [art EXCEPT !.at = "record", !.fetched = ArtKey(ext)]
    /\ UNCHANGED <<item, rows, work, removals, count>>

_record_artwork ==
    /\ art.at = "record"
    /\ art' = [art EXCEPT !.at = "idle", !.name = art.fetched, !.fetched = <<>>,
                          !.state = IF art.fetched = <<>> THEN "failed" ELSE "archived"]
    /\ UNCHANGED <<item, rows, stored, work, removals, count>>

RefreshDies ==
    /\ art.at # "idle" /\ Faulty({})
    /\ art' = [art EXCEPT !.at = "idle", !.fetched = <<>>, !.broken = TRUE]
    /\ UNCHANGED <<item, rows, stored, work, removals>>

AssetNext ==
    \/ StartArchive \/ upload_media \/ place_engine_outputs \/ mirror_item_assets
    \/ mirror_description_attachments \/ Record \/ UploadFails \/ JobDies
    \/ WantAgain \/ delete_episode \/ \E r \in removals : RunRemoval(r) \/ RemovalLost(r)
ArtworkNext == LookForArtwork \/ _mirror_feed_artwork \/ _record_artwork \/ RefreshDies
-----------------------------------------------------------------------------
\* What the public route finds under a name.
by_basename(n) == {i \in DOMAIN rows : rows[i].state = "archived" /\ rows[i].name = n}

\* An archived Episode has every asset one of its three suppliers delivered: a
\* failed copy of the Source takes nothing away from what the Engine produced,
\* and what a row names is there, as this attempt wrote it (unless a removal of
\* an earlier deletion came after it).
EveryRowServes ==
    item.state = "archived" /\ ~count.late =>
        /\ \A i \in item.got : i \in DOMAIN rows /\ rows[i].state = "archived"
        /\ \A n \in DOMAIN stored \cup {rows[i].name : i \in DOMAIN rows} :
             by_basename(n) # {} => n \in DOMAIN stored /\ stored[n] = item.att
        /\ Media \subseteq DOMAIN stored

\* What no row names belongs to a job at work, waits for its removal, or was
\* left by an attempt or a removal that broke off; an item's XML stays behind.
NothingOutlives ==
    /\ \A n \in DOMAIN stored :
         \/ n[1] \in {"feed", "xml"} \/ by_basename(n) # {}
         \/ item.state = "archived" /\ n \in Media
         \/ work.at # "idle" /\ stored[n] = count.attempts
         \/ stored[n] \in count.broken
         \/ \E r \in removals : n \in r.names
    /\ \A ext \in {"jpg", "png"} : ArtKey(ext) \in DOMAIN stored =>
         art.broken \/ ArtKey(ext) \in {art.name, art.fetched}
    /\ art.state = "archived" => art.name \in DOMAIN stored

\* Both: the rows and the objects of the assets follow each other.
AssetsKept == EveryRowServes /\ NothingOutlives
=============================================================================
