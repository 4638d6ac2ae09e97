----------------------------- MODULE Publishing -----------------------------
(***************************************************************************)
(* What the XML of a Mirror says of its items, and what the addresses in   *)
(* it open afterwards: the number, the GUID, the enclosure and the         *)
(* transcripts of an item (adapters/feeds/render.py), the routes that      *)
(* serve them (adapters/api/routes/public.py), and what changes them: a    *)
(* listing, an archive, a deletion, a new Source, a rebuild from the       *)
(* objects.  One archive or deletion is one step here, and nothing is      *)
(* exported but the whole Feed (Archive, Descriptors).                     *)
(***************************************************************************)
EXTENDS Integers, FiniteSets, FiniteSetsExt, TLC

CONSTANTS
    Items,          \* numbers, in the order the Source published them
    Languages,      \* of transcripts, as Sources write them
    TagOf,          \* the language in a file's name (mirror.py, language_tag)
    Claim,          \* the container the enclosure of each item claims
    Streams,        \* the items that may be listed while they are live
    Tracks,         \* the sets of Languages a Source publishes
    Modes,          \* whether a new Mirror is Automatic
    None,
    Budgets         \* bounds: sets of [rebuilds, archives, deletions, exports, moves]

\* The row of an item with its transcripts; None for an item without one.
ItemRow == [ordinal : Nat, public : {"mp3", "m4a"}, listed : BOOLEAN, archivable : BOOLEAN,
            state : {"available", "wanted", "archived", "deleted"}, ext : {"mp3", "m4a", None},
            xml : BOOLEAN, tracks : SUBSET Languages]

\* language_tag leaves a tag as it is.
ASSUME PublishingAssumption ==
    /\ Items \subseteq Nat \ {0} /\ IsFiniteSet(Items)
    /\ None \notin Items /\ None \notin {"mp3", "m4a"} /\ None \notin ItemRow
    /\ Languages \subseteq DOMAIN TagOf /\ Tracks \subseteq SUBSET Languages
    /\ \A l \in Languages : TagOf[l] \in Languages => TagOf[TagOf[l]] = TagOf[l]
    /\ Modes \subseteq BOOLEAN /\ Claim \in [Items -> {"mp3", "m4a"}]
    /\ Budgets \subseteq [{"rebuilds", "archives", "deletions", "exports", "moves"} -> Nat]

VARIABLES
    mirror,     \* the kind of its Source, and whether it is Automatic
    rows,       \* the Catalog, with the asset rows of each item
    media,      \* the media object of each item, by its extension
    files,      \* the transcript objects: [item, tag]
    sidecar,    \* the items whose <item> was stored beside their media
    described,  \* the rows of the last descriptor
    remaining   \* of one of the Budgets

pubVars == <<mirror, rows, media, files, sidecar, described, remaining>>

Exts == {"mp3", "m4a"}          \* what the Engine leaves (domain/media.py)
Kinds == {"rss", "ytdlp"}
Spend(what) == remaining[what] > 0 /\ remaining' = [remaining EXCEPT ![what] = @ - 1]
Present == {i \in Items : rows[i] # None}
HighestOf(r) == Max({0} \cup {r[i].ordinal : i \in {j \in Items : r[j] # None}})

\* predicted_ext: the Engine's container, or the one the enclosure's becomes.
Predicted(kind, i) == IF kind = "ytdlp" THEN "m4a" ELSE Claim[i]

NewRow(ordinal, ext) ==
    [ordinal |-> ordinal, public |-> ext, listed |-> TRUE, archivable |-> TRUE,
     state |-> "available", ext |-> None, xml |-> FALSE, tracks |-> {}]

PubInit ==
    /\ mirror \in [kind : Kinds, automatic : Modes]
    /\ rows = [i \in Items |-> None] /\ media = [i \in Items |-> None]
    /\ files = {} /\ sidecar = {}
    /\ described = rows
    /\ remaining \in Budgets

-----------------------------------------------------------------------------
(* The document and its addresses.                                          *)
IsArchived(i) == rows[i] # None /\ rows[i].state = "archived" /\ rows[i].ext # None
ArchivedOnDemand(i) == rows[i] # None /\ rows[i].listed /\ rows[i].archivable /\ rows[i].state # "archived"
Rendered(i) == IsArchived(i) \/ (mirror.automatic /\ ArchivedOnDemand(i))

\* The Source's own GUID comes with the <item> that is preserved.
Guid(i) == IF mirror.kind = "rss" /\ rows[i].xml THEN "source" ELSE "own"

\* What an app is told of an item.
Entry(i) == [number |-> rows[i].ordinal, ext |-> rows[i].public, guid |-> Guid(i)]

\* The media route: the stable name, the file's own, or the ".mp3" of before 1.3.
Opens(i, ext) ==
    /\ rows[i] # None
    /\ ext = rows[i].public \/ (IsArchived(i) /\ ext = rows[i].ext) \/ (mirror.automatic /\ ext = "mp3")
    /\ IF IsArchived(i) THEN media[i] = rows[i].ext ELSE mirror.automatic /\ rows[i].listed

\* by_basename finds one archived row of that name, and its object is there.
OpensTrack(i, tag) ==
    /\ rows[i] # None /\ Cardinality({l \in rows[i].tracks : TagOf[l] = tag}) = 1
    /\ [item |-> i, tag |-> tag] \in files

-----------------------------------------------------------------------------
\* Numbers that continue from the count of the rows.
NumberFromCount(S) ==
    LET new == {i \in S : rows[i] = None}
    IN  [i \in new |-> Cardinality(Present) + Cardinality({j \in new : j <= i})]

\* assign_ordinals: new keys from the oldest on, after the highest number.
Number(S) ==
    LET new == {i \in S : rows[i] = None}
    IN  [i \in new |-> HighestOf(rows) + Cardinality({j \in new : j <= i})]

\* upsert_listing; a light Refresh's page delists nothing.
List(S, live, partial) ==
    LET numbers == Number(S) IN
    /\ rows' = [i \in Items |->
          IF i \in S
          THEN IF rows[i] = None
               THEN [NewRow(numbers[i], Predicted(mirror.kind, i)) EXCEPT !.archivable = i \notin live]
               ELSE [rows[i] EXCEPT !.listed = TRUE, !.archivable = i \notin live]
          ELSE IF rows[i] = None \/ partial THEN rows[i]
          ELSE [rows[i] EXCEPT !.listed = FALSE]]
    /\ UNCHANGED <<mirror, media, files, sidecar, described, remaining>>

\* An archive job that ends well: the container is the one the file has.
StoreEpisode(i, ext, langs) ==
    /\ rows[i] # None /\ ~IsArchived(i) /\ rows[i].archivable
    /\ LET rss == mirror.kind = "rss"
           row == [rows[i] EXCEPT !.state = "archived", !.ext = ext,
                                  !.xml = @ \/ rss, !.tracks = @ \cup langs] IN
       /\ rows' = [rows EXCEPT ![i] = row]
       /\ sidecar' = IF rss THEN sidecar \cup {i} ELSE sidecar
    /\ media' = [media EXCEPT ![i] = ext]
    /\ files' = files \cup {[item |-> i, tag |-> TagOf[l]] : l \in langs}
    /\ Spend("archives") /\ UNCHANGED <<mirror, described>>

\* delete_episode: the row, its number and its <item> stay.
DeleteEpisode(i) ==
    /\ rows[i] # None /\ rows[i].state # "deleted"
    /\ rows' = [rows EXCEPT ![i] = [@ EXCEPT !.state = "deleted", !.ext = None, !.tracks = {}]]
    /\ media' = IF rows[i].ext = None THEN media ELSE [media EXCEPT ![i] = None]
    /\ files' = {f \in files : ~(f.item = i /\ \E l \in rows[i].tracks : TagOf[l] = f.tag)}
    /\ Spend("deletions") /\ UNCHANGED <<mirror, sidecar, described>>

SetMode == /\ mirror' = [mirror EXCEPT !.automatic = ~@]
           /\ Spend("moves") /\ UNCHANGED <<rows, media, files, sidecar, described>>

\* update_mirror with the URL of the same show at another address.
Retarget(kind) ==
    /\ kind # mirror.kind /\ mirror' = [mirror EXCEPT !.kind = kind]
    /\ Spend("moves") /\ UNCHANGED <<rows, media, files, sidecar, described>>

\* Exports lag behind and fail: any state may be the last that was written.  One
\* that no rebuild can follow is left out.
Export ==
    /\ remaining.rebuilds > 0 /\ described' = rows
    /\ Spend("exports") /\ UNCHANGED <<mirror, rows, media, files, sidecar>>

-----------------------------------------------------------------------------
(* adapters/storage/rebuild.py, over an empty database or a live one.        *)
Described == {i \in Items : described[i] # None}

\* The extension of the media, for an item that has some.
RestoredExtOfMedia(i) == IF media[i] # None THEN media[i] ELSE described[i].public

\* _restored_public_ext, of a descriptor of 1.3 or later.
RestoredExt(i) == described[i].public

\* _upsert_items, after rows that hold one of its numbers were parked.
Upserted(old) ==
    LET numbers == {described[i].ordinal : i \in Described} IN
    [i \in Items |->
       IF i \in Described THEN [described[i] EXCEPT !.public = RestoredExt(i)]
       ELSE IF old[i] # None /\ old[i].ordinal \in numbers
            THEN [old[i] EXCEPT !.ordinal = 0 - @] ELSE old[i]]

\* The media decide what is archived; sidecars bring the <item> back, and the
\* transcripts are those with an object, by the tag where no row names it.
Reconciled(r) ==
    [i \in Items |->
       IF r[i] = None THEN None
       ELSE LET named == {l \in r[i].tracks : [item |-> i, tag |-> TagOf[l]] \in files}
                found == {f.tag : f \in {g \in files : g.item = i}} \ {TagOf[l] : l \in r[i].tracks} IN
            [r[i] EXCEPT
               !.state = IF media[i] # None THEN "archived" ELSE IF @ = "archived" THEN "wanted" ELSE @,
               !.ext = media[i],
               !.xml = i \in sidecar \/ @,
               !.tracks = named \cup {l \in Languages : l \in found}]]

\* _rows_from_files, for media nothing describes.
Orphaned(r) ==
    LET orphans == {i \in Items : r[i] = None /\ media[i] # None} IN
    [i \in Items |->
       IF i \in orphans
       THEN [NewRow(HighestOf(r) + Cardinality({j \in orphans : j <= i}), media[i])
               EXCEPT !.listed = FALSE, !.xml = i \in sidecar]
       ELSE r[i]]

RebuildFeed(lost, yes) ==
    LET old == IF lost THEN [i \in Items |-> None] ELSE rows
        r == Reconciled(Orphaned(Upserted(old))) IN
    /\ rows' = [i \in Items |->
         IF yes /\ i \notin Described /\ media[i] = None THEN None ELSE r[i]]
    /\ Spend("rebuilds") /\ UNCHANGED <<mirror, media, files, sidecar, described>>

PubNext ==
    \/ \E S \in SUBSET Items \ {{}}, live \in SUBSET Streams, partial \in BOOLEAN : List(S, live, partial)
    \/ \E i \in Items : \/ DeleteEpisode(i)
                        \/ \E ext \in Exts, langs \in Tracks : StoreEpisode(i, ext, langs)
    \/ SetMode \/ Export
    \/ \E kind \in Kinds : Retarget(kind)
    \/ \E lost, yes \in BOOLEAN : RebuildFeed(lost, yes)

-----------------------------------------------------------------------------
\* Whatever happens to a Feed, a rebuild included, an item keeps its number, the
\* address of its enclosure and, once archived, the GUID of its Source: all but the
\* items a rebuild finds in no descriptor.
IdentityStands ==
    [][\A i \in Items :
         rows[i] # None /\ rows'[i] # None /\ (remaining'.rebuilds # remaining.rebuilds => i \in Described) =>
           /\ Entry(i)'.number = Entry(i).number /\ Entry(i)'.ext = Entry(i).ext
           /\ Guid(i) = "source" /\ mirror'.kind = mirror.kind => Guid(i)' = "source"]_pubVars

\* Every number belongs to one item, every enclosure in the XML opens, and so does
\* every transcript of an Episode, but for languages that differ in what a file's
\* name leaves out.
WhatIsListedOpens ==
    /\ \A i, j \in Present : i # j => rows[i].ordinal # rows[j].ordinal
    /\ \A i \in Items : Rendered(i) => Opens(i, rows[i].public)
    /\ \A i \in Items : IsArchived(i) =>
         \A l \in rows[i].tracks :
            \/ \E k \in rows[i].tracks \ {l} : TagOf[k] = TagOf[l]
            \/ OpensTrack(i, TagOf[l])
=============================================================================
