--------------------------- MODULE HoldingsProofs ---------------------------
(***************************************************************************)
(* What is proved of Catalog and Quota, for every set of items, calls,     *)
(* Requests and versions of the Source, and every size and quota, by       *)
(* invariants of their own.  The theorems are at the end.                  *)
(***************************************************************************)
EXTENDS Holdings, SumsProofs, FiniteSetTheorems, SequenceTheorems, WellFoundedInduction, TLAPS

-----------------------------------------------------------------------------
(* Catalog: its listings in flight, and what they may still apply.          *)

RowStates == {"none", "available", "wanted", "archived", "failed", "deleted"}
ListedRow == [state : RowStates, listed : BOOLEAN, archivable : BOOLEAN, later : BOOLEAN]
RefreshRow == [phase : {"none", "queued", "listing", "listed", "saved"}, etag : Nat, first : BOOLEAN, got : Nat]
LightRow == [phase : {"idle", "planned", "listed"}, etag : Nat, got : Nat, changed : BOOLEAN]
FeedState == [kind : {"rss", "channel", "playlist", "bucket"}, mode : {"all", "automatic"}, applied : BOOLEAN,
              first : BOOLEAN, etag : Nat, seen : Nat, text : Nat, cooling : BOOLEAN, outdated : BOOLEAN]

\* A row that is not there is not listed.
GoodTable(t) == t \in [Items -> ListedRow] /\ \A i \in Items : t[i].state = "none" => t[i].listed = FALSE

Active == refresh.phase \in {"listing", "listed", "saved"}
InFlight(c) == light[c].phase # "idle"

CatalogTypes ==
    /\ src \in 1 .. Versions /\ feed \in FeedState /\ GoodTable(item)
    /\ refresh \in RefreshRow /\ light \in [Calls -> LightRow]

\* No version is known before the Source has it.
NotAhead ==
    /\ feed.etag <= src /\ feed.seen <= src /\ refresh.etag <= src /\ refresh.got <= src
    /\ \A c \in Calls : light[c].etag <= src /\ light[c].got <= src

\* The cooldown keeps light Refreshes apart, and from beginning while a Refresh lists.
Apart ==
    /\ Active => feed.cooling
    /\ \A c \in Calls : InFlight(c) => feed.cooling /\ \A d \in Calls : InFlight(d) => c = d

\* What is listed was listed after the other one began.
InOrder ==
    /\ \A c \in Calls : light[c].phase = "planned" => light[c].got = 0
    /\ Active => \A c \in Calls : light[c].phase = "listed" /\ light[c].got # 0 => refresh.etag <= light[c].got
    /\ Active /\ refresh.got # 0 => \A c \in Calls : InFlight(c) => light[c].etag <= refresh.got

\* Validators of the present version, wherever they are held, stand for a Catalog of it.
ValidatorsTrue ==
    feed.kind = "rss" =>
        /\ feed.etag = src => feed.seen = src
        /\ Active /\ refresh.etag = src => feed.seen = src
        /\ \A c \in Calls : InFlight(c) /\ light[c].etag = src => feed.seen = src

\* The first Refresh asks for everything and is answered.
Whole ==
    /\ Mirror /\ ~feed.first => \E v \in 1 .. Versions : First[v] \cup Rest[v] \subseteq Known(item)
    /\ Active => /\ feed.first => refresh.first
                 /\ refresh.first => refresh.etag = 0
                 /\ refresh.phase = "listed" => refresh.got # 0
                 /\ refresh.phase = "saved" /\ refresh.etag = 0 => refresh.got # 0

BucketApart == ~Mirror => refresh.phase = "none" /\ \A c \in Calls : ~InFlight(c)

CatalogInv == /\ CatalogTypes /\ NotAhead /\ Apart /\ InOrder /\ ValidatorsTrue /\ Whole /\ BucketApart

\* What BucketKeeps says of a step.
ListKept == ~Mirror => \A i \in Items : (item[i].listed /\ ~item'[i].listed) => item'[i].state = "deleted"

-----------------------------------------------------------------------------
(* The Catalog's operations keep rows, and the items they know.             *)
LEMMA Upserted ==
    ASSUME NEW t, GoodTable(t), NEW S, NEW A, NEW partial \in BOOLEAN, feed.applied \in BOOLEAN
    PROVE  /\ GoodTable(Upsert(t, S, A, partial))
           /\ Known(t) \cup (S \cap Items) \subseteq Known(Upsert(t, S, A, partial))
<1> DEFINE u == Upsert(t, S, A, partial)
<1>1. ASSUME NEW i \in Items
      PROVE  /\ u[i] \in ListedRow /\ (u[i].state = "none" => u[i].listed = FALSE)
             /\ t[i].state # "none" \/ i \in S => u[i].state # "none"
  <2>0. t[i] \in ListedRow /\ (t[i].state = "none" => t[i].listed = FALSE)
    BY DEF GoodTable
  <2>1. CASE i \in S
    <3>1. u[i] = [state |-> IF t[i].state = "none" THEN "available" ELSE t[i].state, listed |-> TRUE,
                  archivable |-> i \in A, later |-> IF t[i].state = "none" THEN feed.applied ELSE t[i].later]
      BY <2>1 DEF Upsert
    <3>2. (i \in A) \in BOOLEAN
      OBVIOUS
    <3> HIDE DEF u
    <3> QED
      BY <2>0, <2>1, <3>1, <3>2 DEF ListedRow, RowStates
  <2>2. CASE i \notin S
    <3>1. u[i] = t[i] \/ u[i] = [t[i] EXCEPT !.listed = FALSE]
      BY <2>2 DEF Upsert
    <3> HIDE DEF u
    <3> QED
      BY <2>0, <2>2, <3>1 DEF ListedRow
  <2> QED
    BY <2>1, <2>2
<1>2. u \in [Items -> ListedRow]
  <2>1. u = [i \in Items |-> u[i]]
    BY DEF Upsert
  <2> HIDE DEF u
  <2> QED
    BY <1>1, <2>1
<1> HIDE DEF u
<1>3. GoodTable(u) /\ Known(t) \cup (S \cap Items) \subseteq Known(u)
  BY <1>1, <1>2 DEF GoodTable, Known
<1> QED
  BY <1>3 DEF u

LEMMA TableChanges ==
    ASSUME NEW t, GoodTable(t), NEW u, u = [i \in Items |-> u[i]],
           \A i \in Items : u[i] = t[i] \/ (t[i].state # "none" /\ u[i] \in ListedRow /\ u[i].state # "none")
    PROVE  GoodTable(u) /\ Known(t) \subseteq Known(u)
BY DEF GoodTable, Known

LEMMA WantedKept ==
    ASSUME NEW t, GoodTable(t), NEW S, S \subseteq Known(t)
    PROVE  GoodTable(SetWanted(t, S)) /\ Known(t) \subseteq Known(SetWanted(t, S))
<1> DEFINE u == SetWanted(t, S)
<1>1. ASSUME NEW i \in Items PROVE u[i] = t[i] \/ (t[i].state # "none" /\ u[i] \in ListedRow /\ u[i].state # "none")
  <2>1. t[i] \in ListedRow /\ (i \in S => t[i].state # "none")
    BY DEF GoodTable, Known
  <2>2. u[i] = IF i \in S THEN [t[i] EXCEPT !.state = "wanted"] ELSE t[i]
    BY DEF SetWanted
  <2> HIDE DEF u
  <2> QED
    BY <2>1, <2>2 DEF ListedRow, RowStates
<1>2. u = [i \in Items |-> u[i]]
  BY DEF SetWanted
<1> HIDE DEF u
<1>3. GoodTable(u) /\ Known(t) \subseteq Known(u)
  BY <1>1, <1>2, TableChanges
<1> QED
  BY <1>3 DEF u

LEMMA TombstonesKept ==
    ASSUME NEW t, GoodTable(t), NEW S, S \subseteq Known(t), Mirror \in BOOLEAN
    PROVE  GoodTable(Tombstone(t, S)) /\ Known(t) \subseteq Known(Tombstone(t, S))
<1> DEFINE u == Tombstone(t, S)
<1>1. ASSUME NEW i \in Items PROVE u[i] = t[i] \/ (t[i].state # "none" /\ u[i] \in ListedRow /\ u[i].state # "none")
  <2>1. t[i] \in ListedRow /\ (i \in S => t[i].state # "none")
    BY DEF GoodTable, Known
  <2>2. u[i] = IF i \in S THEN [t[i] EXCEPT !.state = "deleted", !.listed = Mirror] ELSE t[i]
    BY DEF Tombstone
  <2> HIDE DEF u
  <2> QED
    BY <2>1, <2>2 DEF ListedRow, RowStates
<1>2. u = [i \in Items |-> u[i]]
  BY DEF Tombstone
<1> HIDE DEF u
<1>3. GoodTable(u) /\ Known(t) \subseteq Known(u)
  BY <1>1, <1>2, TableChanges
<1> QED
  BY <1>3 DEF u

LEMMA SyncKept ==
    ASSUME NEW t, GoodTable(t)
    PROVE  GoodTable(Synced(t)) /\ Known(t) \subseteq Known(Synced(t))
<1>1. Mirror \in BOOLEAN
  BY DEF Mirror
<1>2. Dropped(t) \subseteq Known(t)
  BY DEF Dropped, Known
<1> QED
  BY <1>1, <1>2, TombstonesKept DEF Synced

\* What a policy wants, and what may be wanted again, is known.
LEMMA PolicyKnows == \A t : PolicyWants(t) \subseteq Known(t) /\ ReWantable(t) \subseteq Known(t)
BY DEF PolicyWants, ReWantable, Known

-----------------------------------------------------------------------------
(* The steps.  What a step leaves of the parts it does not touch.            *)
LEMMA CatalogStarts == CatalogInit => CatalogInv
<1> SUFFICES ASSUME CatalogInit PROVE CatalogInv
  OBVIOUS
<1>1. PICK kind \in Kinds, mode \in Modes :
        /\ src = 1
        /\ feed = [kind |-> kind, mode |-> mode, applied |-> FALSE, first |-> TRUE,
                   etag |-> IF kind = "rss" THEN 1 ELSE 0, seen |-> 1, text |-> 1,
                   cooling |-> FALSE, outdated |-> FALSE]
        /\ item = [i \in Items |->
                      IF kind # "bucket" /\ i \in First[1]
                      THEN [state |-> "available", listed |-> TRUE,
                            archivable |-> i \notin Streams[1], later |-> FALSE]
                      ELSE NoRow]
        /\ refresh = IF kind = "bucket" THEN NoRefresh ELSE [NoRefresh EXCEPT !.phase = "queued"]
        /\ light = [c \in Calls |-> NoLight]
  BY DEF CatalogInit
<1>2. GoodTable(item)
  <2>1. ASSUME NEW i \in Items PROVE item[i] \in ListedRow /\ (item[i].state = "none" => item[i].listed = FALSE)
    <3>1. (i \notin Streams[1]) \in BOOLEAN
      OBVIOUS
    <3> QED
      BY <1>1, <3>1 DEF ListedRow, RowStates, NoRow
  <2> QED
    BY <1>1, <2>1 DEF GoodTable
<1>3. feed \in FeedState /\ src \in 1 .. Versions
  BY <1>1, CatalogAssumption DEF FeedState
<1>4. refresh \in RefreshRow /\ ~Active /\ refresh.etag = 0 /\ refresh.got = 0
      /\ (kind = "bucket" => refresh.phase = "none")
  BY <1>1 DEF RefreshRow, NoRefresh, Active
<1>5. light \in [Calls -> LightRow] /\ \A c \in Calls : ~InFlight(c) /\ light[c].etag = 0 /\ light[c].got = 0
                                     /\ light[c].phase = "idle"
  BY <1>1 DEF LightRow, NoLight, InFlight
<1>6. feed.kind = kind /\ feed.first = TRUE /\ feed.seen = 1 /\ feed.etag \in {0, 1} /\ src = 1
  BY <1>1
<1>7. CatalogTypes /\ NotAhead /\ Apart /\ InOrder /\ BucketApart
  BY <1>2, <1>3, <1>4, <1>5, <1>6 DEF CatalogTypes, NotAhead, Apart, InOrder, BucketApart, Mirror
<1>8. ValidatorsTrue /\ Whole
  BY <1>4, <1>5, <1>6 DEF ValidatorsTrue, Whole
<1> QED
  BY <1>7, <1>8 DEF CatalogInv

LEMMA CatalogSuffices == CatalogInv => NoLostListing
BY DEF CatalogInv, ValidatorsTrue, Whole, NoLostListing, NotModified

\* A step of the Catalog alone, or of what shows in it.
LEMMA RowsAlone ==
    ASSUME CatalogInv, UNCHANGED <<src, refresh, light>>, GoodTable(item'), Known(item) \subseteq Known(item'),
           feed' \in FeedState, feed'.kind = feed.kind, feed'.first = feed.first, feed'.etag = feed.etag,
           feed'.seen = feed.seen, feed'.cooling = feed.cooling
    PROVE  CatalogInv'
<1> USE DEF CatalogInv
<1>1. CatalogTypes' /\ NotAhead' /\ Apart' /\ InOrder' /\ BucketApart' /\ ValidatorsTrue'
  BY DEF CatalogTypes, NotAhead, Apart, InOrder, BucketApart, ValidatorsTrue, Active, InFlight, Mirror
<1>2. Whole'
  <2>1. Known(item') = Known(item)'
    BY DEF Known
  <2> QED
    BY <2>1 DEF Whole, Active, Mirror
<1> QED
  BY <1>1, <1>2

\* A change of one row that is known.
LEMMA RowChanges ==
    ASSUME CatalogInv, NEW i \in Known(item), NEW s \in RowStates \ {"none"}, NEW l \in BOOLEAN, NEW t,
           t = [item EXCEPT ![i] = [@ EXCEPT !.state = s, !.listed = l]]
           \/ (t = [item EXCEPT ![i] = [@ EXCEPT !.state = s]])
    PROVE  GoodTable(t) /\ Known(item) \subseteq Known(t)
<1>1. GoodTable(item) /\ i \in Items /\ item[i] \in ListedRow /\ item[i].state # "none"
  BY DEF CatalogInv, CatalogTypes, GoodTable, Known
<1>2. t = [k \in Items |-> t[k]] /\ \A k \in Items : k # i => t[k] = item[k]
  BY <1>1 DEF GoodTable
<1>3. t[i] \in ListedRow /\ t[i].state = s
  BY ZenonT(40), <1>1 DEF GoodTable, ListedRow
<1> QED
  BY <1>1, <1>2, <1>3, TableChanges

\* The worker's Refresh.
LEMMA RefreshHolds ==
    ASSUME ~Overlap, CatalogInv, RequestRefresh \/ RefreshStep \/ RefreshFails \/ RefreshStops
    PROVE  CatalogInv'
<1> USE DEF CatalogInv
<1>f. feed \in FeedState /\ refresh \in RefreshRow /\ light \in [Calls -> LightRow] /\ src \in Nat
  BY DEF CatalogTypes
<1>0. ASSUME UNCHANGED <<src, item, light>>, refresh' \in RefreshRow, refresh'.phase \in {"none", "queued"},
             Mirror, feed' \in FeedState, feed'.kind = feed.kind, feed'.first = feed.first, feed'.etag = feed.etag,
             feed'.seen = feed.seen, feed'.cooling = feed.cooling, refresh'.etag = 0, refresh'.got = 0
      PROVE  CatalogInv'
  <2>1. ~Active' /\ (\A c \in Calls : InFlight(c)' = InFlight(c)) /\ Known(item') = Known(item) /\ Mirror' = Mirror
    BY <1>0 DEF Active, InFlight, Mirror
  <2>2. CatalogTypes' /\ NotAhead' /\ Apart' /\ InOrder' /\ BucketApart' /\ ValidatorsTrue'
    BY <1>0, <2>1 DEF CatalogTypes, NotAhead, Apart, InOrder, BucketApart, ValidatorsTrue
  <2>3. Whole'
    BY <1>0, <2>1 DEF Whole, Known
  <2> QED
    BY <2>2, <2>3
<1>m. Active \/ refresh.phase = "queued" => Mirror
  BY DEF BucketApart, Active
<1>n. NoRefresh \in RefreshRow /\ NoRefresh.phase = "none" /\ NoRefresh.etag = 0 /\ NoRefresh.got = 0
      /\ [NoRefresh EXCEPT !.phase = "queued"] \in RefreshRow
      /\ [NoRefresh EXCEPT !.phase = "queued"].phase = "queued" /\ [NoRefresh EXCEPT !.phase = "queued"].etag = 0
      /\ [NoRefresh EXCEPT !.phase = "queued"].got = 0
  BY DEF NoRefresh, RefreshRow
<1>1. CASE RequestRefresh
  <2>1. refresh' \in RefreshRow /\ refresh'.phase = "queued" /\ refresh'.etag = refresh.etag /\ refresh'.got = refresh.got
    BY <1>1, <1>f DEF RequestRefresh, EnqueueRefresh, RefreshRow
  <2>2. ~Active /\ ~Active' /\ (\A c \in Calls : InFlight(c)' = InFlight(c)) /\ Known(item') = Known(item) /\ Mirror' = Mirror /\ Mirror
    BY <1>1, <2>1 DEF Active, InFlight, Mirror, RequestRefresh
  <2>3. UNCHANGED <<src, feed, item, light>>
    BY <1>1 DEF RequestRefresh
  <2>4. CatalogTypes' /\ NotAhead' /\ Apart' /\ InOrder' /\ BucketApart' /\ ValidatorsTrue'
    BY <2>1, <2>2, <2>3 DEF CatalogTypes, NotAhead, Apart, InOrder, BucketApart, ValidatorsTrue
  <2>5. Whole'
    BY <2>2, <2>3 DEF Whole, Known
  <2> QED
    BY <2>4, <2>5
<1>2. CASE RefreshStart
  <2>1. /\ refresh' = [phase |-> "listing", etag |-> IF feed.first THEN 0 ELSE feed.etag, first |-> feed.first, got |-> 0]
        /\ feed' = [feed EXCEPT !.cooling = TRUE] /\ UNCHANGED <<src, item, light>> /\ refresh.phase = "queued"
        /\ \A c \in Calls : light[c].phase # "listed"
    BY <1>2 DEF RefreshStart
  <2>2. /\ feed' \in FeedState /\ feed'.kind = feed.kind /\ feed'.first = feed.first /\ feed'.etag = feed.etag
        /\ feed'.seen = feed.seen /\ feed'.cooling = TRUE
    BY <2>1, <1>f DEF FeedState
  <2>3. refresh' \in RefreshRow /\ refresh'.phase = "listing" /\ refresh'.first = feed.first
        /\ refresh'.etag \in {0, feed.etag} /\ (feed.first => refresh'.etag = 0) /\ refresh'.got = 0
    BY <2>1, <1>f DEF FeedState, RefreshRow
  <2>4. Active' /\ Mirror /\ Mirror' = Mirror /\ (\A c \in Calls : InFlight(c)' = InFlight(c)) /\ Known(item') = Known(item)
    BY <2>1, <2>2, <2>3, <1>m DEF Active, InFlight, Mirror
  <2>5. CatalogTypes' /\ NotAhead' /\ Apart' /\ InOrder' /\ BucketApart'
    BY <2>1, <2>2, <2>3, <2>4, <1>f DEF CatalogTypes, NotAhead, Apart, InOrder, BucketApart
  <2>6. ValidatorsTrue'
    BY <2>1, <2>2, <2>3, <2>4, <1>f DEF ValidatorsTrue, CatalogTypes
  <2>7. Whole'
    BY <2>1, <2>2, <2>3, <2>4 DEF Whole, Known
  <2> QED
    BY <2>5, <2>6, <2>7
<1>3. CASE RefreshLists
  <2>1. /\ UNCHANGED <<src, feed, item, light>> /\ refresh.phase = "listing"
        /\ \/ refresh' = [refresh EXCEPT !.phase = "saved"] /\ NotModified(refresh.etag)
           \/ refresh' = [refresh EXCEPT !.phase = "listed", !.got = src]
    BY <1>3 DEF RefreshLists
  <2>2. /\ refresh' \in RefreshRow /\ refresh'.phase \in {"listed", "saved"} /\ refresh'.first = refresh.first
        /\ refresh'.etag = refresh.etag
        /\ \/ refresh'.got = refresh.got /\ refresh'.phase = "saved" /\ refresh.etag = src
           \/ refresh'.got = src /\ refresh'.phase = "listed"
    BY <2>1, <1>f DEF RefreshRow, NotModified
  <2>3. Active /\ Active' /\ Mirror /\ Mirror' = Mirror /\ (\A c \in Calls : InFlight(c)' = InFlight(c)) /\ Known(item') = Known(item)
    BY <2>1, <2>2, <1>m DEF Active, InFlight, Mirror
  <2>4. CatalogTypes' /\ NotAhead' /\ Apart' /\ InOrder' /\ BucketApart' /\ ValidatorsTrue'
    BY <2>1, <2>2, <2>3, <1>f DEF CatalogTypes, NotAhead, Apart, InOrder, BucketApart, ValidatorsTrue
  <2>5. src # 0
    BY DEF CatalogTypes
  <2>6. Whole'
    BY <2>1, <2>2, <2>3, <2>5 DEF Whole, Known
  <2> QED
    BY <2>4, <2>6
<1>4. CASE RefreshSaves
  <2>1. UNCHANGED <<src, feed, item, light>> /\ refresh.phase = "listed" /\ refresh' = [refresh EXCEPT !.phase = "saved"]
    BY <1>4 DEF RefreshSaves
  <2>2. /\ refresh' \in RefreshRow /\ refresh'.phase = "saved" /\ refresh'.first = refresh.first
        /\ refresh'.etag = refresh.etag /\ refresh'.got = refresh.got
    BY <2>1, <1>f DEF RefreshRow
  <2>3. Active /\ Active' /\ Mirror /\ Mirror' = Mirror /\ (\A c \in Calls : InFlight(c)' = InFlight(c)) /\ Known(item') = Known(item)
    BY <2>1, <2>2, <1>m DEF Active, InFlight, Mirror
  <2>4. CatalogTypes' /\ NotAhead' /\ Apart' /\ InOrder' /\ BucketApart' /\ ValidatorsTrue'
    BY <2>1, <2>2, <2>3, <1>f DEF CatalogTypes, NotAhead, Apart, InOrder, BucketApart, ValidatorsTrue
  <2>6. Whole'
    BY <2>1, <2>2, <2>3 DEF Whole, Known
  <2> QED
    BY <2>4, <2>6
<1>5. CASE RefreshApplies
  <2> DEFINE full    == refresh.got # 0
             listed  == IF full THEN Upsert(item, Listing(refresh.got, refresh.first), Archivable(refresh.got), FALSE) ELSE item
             kept    == IF full THEN Synced(listed) ELSE listed
             table   == SetWanted(kept, PolicyWants(kept))
  <2>1. /\ refresh.phase = "saved" /\ item' = table /\ refresh' = NoRefresh /\ UNCHANGED <<src, light>>
        /\ feed' = [feed EXCEPT !.applied = TRUE, !.first = FALSE, !.outdated = FALSE,
                                !.etag = IF feed.kind # "rss" THEN 0
                                         ELSE IF full THEN refresh.got ELSE refresh.etag,
                                !.seen = IF full THEN refresh.got ELSE feed.seen,
                                !.text = IF full THEN refresh.got ELSE @]
    BY <1>5 DEF RefreshApplies
  <2>2. /\ feed' \in FeedState /\ feed'.kind = feed.kind /\ feed'.first = FALSE /\ feed'.cooling = feed.cooling
        /\ feed'.etag = (IF feed.kind # "rss" THEN 0 ELSE IF refresh.got # 0 THEN refresh.got ELSE refresh.etag)
        /\ feed'.seen = (IF refresh.got # 0 THEN refresh.got ELSE feed.seen)
    BY <2>1, <1>f DEF FeedState, RefreshRow
  <2>3. /\ GoodTable(item') /\ Known(item) \subseteq Known(item')
        /\ full => Listing(refresh.got, refresh.first) \cap Items \subseteq Known(item')
    <3>1. GoodTable(item) /\ feed.applied \in BOOLEAN
      BY DEF CatalogTypes, FeedState
    <3>2. GoodTable(listed) /\ Known(item) \subseteq Known(listed)
          /\ (full => Listing(refresh.got, refresh.first) \cap Items \subseteq Known(listed))
      BY <3>1, Upserted
    <3> HIDE DEF listed, full
    <3>3. GoodTable(kept) /\ Known(listed) \subseteq Known(kept)
      BY <3>2, SyncKept
    <3> HIDE DEF kept
    <3>4. GoodTable(table) /\ Known(kept) \subseteq Known(table)
      BY <3>3, PolicyKnows, WantedKept
    <3> QED
      BY <2>1, <3>2, <3>3, <3>4 DEF full
  <2> HIDE DEF table
  <2>4. Active /\ ~Active' /\ Mirror /\ Mirror' = Mirror /\ (\A c \in Calls : InFlight(c)' = InFlight(c)) /\ Known(item)' = Known(item')
    BY <2>1, <2>2, <1>m, <1>n DEF Active, InFlight, Mirror, Known
  <2>5. CatalogTypes' /\ NotAhead' /\ Apart' /\ InOrder' /\ BucketApart'
    BY <2>1, <2>2, <2>3, <2>4, <1>f, <1>n DEF CatalogTypes, NotAhead, Apart, InOrder, BucketApart, RefreshRow
  <2>6. ValidatorsTrue'
    <3>1. ASSUME NEW c \in Calls, InFlight(c), light[c].etag = src, feed.kind = "rss" PROVE feed'.seen = src
      BY <3>1, <2>2, <2>4, <1>f DEF InOrder, NotAhead, ValidatorsTrue, RefreshRow, LightRow
    <3>2. feed.kind = "rss" /\ feed'.etag = src => feed'.seen = src
      BY <2>2, <2>4 DEF ValidatorsTrue
    <3> QED
      BY <3>1, <3>2, <2>1, <2>2, <2>4 DEF ValidatorsTrue
  <2>7. Whole'
    <3>1. CASE ~feed.first
      BY <3>1, <2>1, <2>2, <2>3, <2>4, <1>n DEF Whole
    <3>2. CASE feed.first
      <4>1. refresh.first /\ refresh.etag = 0 /\ full
        BY <3>2, <2>1, <2>4 DEF Whole
      <4>2. refresh.got \in 1 .. Versions
        <5>1. refresh.got \in Nat /\ refresh.got # 0 /\ refresh.got <= src /\ src \in 1 .. Versions
          BY <4>1, <1>f DEF NotAhead, CatalogTypes, RefreshRow
        <5> QED
          BY <5>1, CatalogAssumption
      <4>3. Listing(refresh.got, refresh.first) = First[refresh.got] \cup Rest[refresh.got]
        BY <4>1 DEF Listing
      <4>4. First[refresh.got] \cup Rest[refresh.got] \subseteq Items
        BY <4>2, CatalogAssumption
      <4>5. First[refresh.got] \cup Rest[refresh.got] \subseteq Known(item')
        BY <4>1, <4>3, <4>4, <2>3
      <4> QED
        BY <4>2, <4>5, <2>4 DEF Whole
    <3> QED
      BY <3>1, <3>2
  <2> QED
    BY <2>5, <2>6, <2>7
<1>6. CASE RefreshFails
  <2>1. feed' \in FeedState /\ feed'.kind = feed.kind /\ feed'.first = feed.first /\ feed'.etag = feed.etag
        /\ feed'.seen = feed.seen /\ feed'.cooling = feed.cooling
    BY <1>6, <1>f DEF RefreshFails, FeedState
  <2> QED
    BY <1>6, <1>0, <1>m, <1>n, <2>1 DEF RefreshFails, Active
<1>7. CASE RefreshStops
  BY <1>7, <1>0, <1>f, <1>m, <1>n DEF RefreshStops, Active
<1> QED
  BY <1>1, <1>2, <1>3, <1>4, <1>5, <1>6, <1>7 DEF RefreshStep

\* The Source moves on, and a Mirror is pointed at another.
LEMMA SourceMoves ==
    ASSUME CatalogInv, SourceChanges \/ Retarget
    PROVE  CatalogInv'
<1> USE DEF CatalogInv
<1>f. feed \in FeedState /\ refresh \in RefreshRow /\ light \in [Calls -> LightRow] /\ src \in Nat /\ GoodTable(item)
  BY DEF CatalogTypes
<1>0. /\ feed.etag \in Nat /\ feed.seen \in Nat /\ refresh.etag \in Nat /\ refresh.got \in Nat
      /\ \A c \in Calls : light[c].etag \in Nat /\ light[c].got \in Nat
  BY <1>f DEF FeedState, RefreshRow, LightRow
<1>1. CASE SourceChanges
  <2>1. src' = src + 1 /\ src' \in 1 .. Versions /\ UNCHANGED <<feed, item, refresh, light>> /\ Mirror
    BY <1>1, CatalogAssumption DEF SourceChanges, CatalogTypes
  <2>2. Mirror' = Mirror /\ Active' = Active /\ (\A c \in Calls : InFlight(c)' = InFlight(c)) /\ Known(item') = Known(item)
    BY <2>1 DEF Mirror, Active, InFlight
  <2>3. CatalogTypes' /\ NotAhead' /\ Apart' /\ InOrder' /\ BucketApart' /\ Whole'
    BY <2>1, <2>2, <1>0, <1>f DEF CatalogTypes, NotAhead, Apart, InOrder, BucketApart, Whole, Known
  <2>4. ValidatorsTrue'
    BY <2>1, <2>2, <1>0, <1>f DEF ValidatorsTrue, NotAhead
  <2> QED
    BY <2>3, <2>4
<1>2. CASE Retarget
  <2>1. /\ src' = src + 1 /\ src' \in 1 .. Versions /\ UNCHANGED light /\ Mirror
        /\ item' = Upsert(item, Listing(src + 1, FALSE), Archivable(src + 1), FALSE)
        /\ refresh' = EnqueueRefresh(refresh)
        /\ feed' = [feed EXCEPT !.etag = IF feed.kind = "rss" THEN src + 1 ELSE 0,
                                !.seen = src + 1, !.text = src + 1, !.outdated = FALSE]
    BY <1>2, CatalogAssumption DEF Retarget, CatalogTypes
  <2>2. /\ feed' \in FeedState /\ feed'.kind = feed.kind /\ feed'.first = feed.first /\ feed'.cooling = feed.cooling
        /\ feed'.seen = src + 1 /\ feed'.etag = (IF feed.kind = "rss" THEN src + 1 ELSE 0)
    <3>1. src + 1 \in Nat /\ (IF feed.kind = "rss" THEN src + 1 ELSE 0) \in Nat
      BY <1>f
    <3>2. PICK e \in Nat : e = IF feed.kind = "rss" THEN src + 1 ELSE 0
      BY <3>1
    <3>3. PICK v \in Nat : v = src + 1
      BY <3>1
    <3>4. feed' = [feed EXCEPT !.etag = e, !.seen = v, !.text = v, !.outdated = FALSE]
      BY <2>1, <3>2, <3>3
    <3> QED
      BY <3>2, <3>3, <3>4, <1>f DEF FeedState
  <2>3. /\ refresh' \in RefreshRow /\ refresh'.etag = refresh.etag /\ refresh'.got = refresh.got
        /\ refresh'.first = refresh.first
        /\ (refresh'.phase = refresh.phase \/ (refresh.phase = "none" /\ refresh'.phase = "queued"))
    BY <2>1, <1>f DEF EnqueueRefresh, RefreshRow
  <2>4. GoodTable(item') /\ Known(item) \subseteq Known(item')
    <3>1. feed.applied \in BOOLEAN
      BY <1>f DEF FeedState
    <3> QED
      BY <2>1, <3>1, <1>f, Upserted
  <2>5. Mirror' = Mirror /\ Active' = Active /\ (\A c \in Calls : InFlight(c)' = InFlight(c)) /\ Known(item') = Known(item)'
    BY <2>1, <2>2, <2>3 DEF Mirror, Active, InFlight, Known
  <2>6. CatalogTypes' /\ NotAhead' /\ Apart' /\ BucketApart'
    <3>1. CatalogTypes'
      BY <2>1, <2>2, <2>3, <2>4, <1>f DEF CatalogTypes
    <3>2. NotAhead'
      BY <2>1, <2>2, <2>3, <1>0, <1>f DEF NotAhead
    <3>3. Apart' /\ BucketApart'
      BY <2>1, <2>2, <2>5 DEF Apart, BucketApart
    <3> QED
      BY <3>1, <3>2, <3>3
  <2>7. InOrder' /\ Whole'
    BY <2>1, <2>2, <2>3, <2>4, <2>5, <1>0, <1>f DEF InOrder, Whole, Active
  <2>8. ValidatorsTrue'
    BY <2>1, <2>2, <2>3, <2>5, <1>0, <1>f DEF ValidatorsTrue, NotAhead
  <2> QED
    BY <2>6, <2>7, <2>8
<1> QED
  BY <1>1, <1>2

\* The cooldown ends when nothing is being listed.
LEMMA CooldownHolds ==
    ASSUME ~Overlap, CatalogInv, CooldownOver
    PROVE  CatalogInv'
<1> USE DEF CatalogInv
<1>1. /\ UNCHANGED <<src, item, refresh, light>> /\ feed' = [feed EXCEPT !.cooling = FALSE]
      /\ ~Active /\ \A c \in Calls : ~InFlight(c)
  BY DEF CooldownOver, Active, InFlight, InLight
<1>2. feed' \in FeedState /\ feed'.kind = feed.kind /\ feed'.first = feed.first /\ feed'.etag = feed.etag
      /\ feed'.seen = feed.seen
  BY <1>1 DEF CatalogTypes, FeedState
<1>3. Mirror' = Mirror /\ Active' = Active /\ (\A c \in Calls : InFlight(c)' = InFlight(c)) /\ Known(item') = Known(item)'
  BY <1>1, <1>2 DEF Mirror, Active, InFlight, Known
<1>4. CatalogTypes' /\ NotAhead' /\ Apart' /\ BucketApart' /\ InOrder'
  BY <1>1, <1>2, <1>3 DEF CatalogTypes, NotAhead, Apart, BucketApart, InOrder
<1>5. ValidatorsTrue' /\ Whole'
  BY <1>1, <1>2, <1>3 DEF ValidatorsTrue, Whole, Known
<1> QED
  BY <1>4, <1>5

\* A light Refresh that ends, or leaves the Feed's row as it was.
LEMMA LightEnds ==
    ASSUME CatalogInv, NEW c \in Calls, light' = [light EXCEPT ![c] = NoLight],
           UNCHANGED <<src, refresh>>, GoodTable(item'), Known(item) \subseteq Known(item'), Mirror,
           feed' \in FeedState, feed'.kind = feed.kind, feed'.first = feed.first, feed'.cooling = feed.cooling,
           feed'.etag <= src, feed'.seen <= src,
           feed.kind = "rss" =>
               /\ feed'.etag = src => feed'.seen = src
               /\ Active /\ refresh.etag = src => feed'.seen = src
               /\ \A d \in Calls \ {c} : InFlight(d) /\ light[d].etag = src => feed'.seen = src
    PROVE  CatalogInv'
<1> USE DEF CatalogInv
<1>1. /\ light' \in [Calls -> LightRow] /\ light'[c].phase = "idle" /\ light'[c].etag = 0 /\ light'[c].got = 0
      /\ \A d \in Calls : d # c => light'[d] = light[d]
  BY DEF CatalogTypes, LightRow, NoLight
<1>2. /\ Mirror' /\ (Active' <=> Active) /\ ~InFlight(c)' /\ Known(item') = Known(item)'
      /\ \A d \in Calls : d # c => (InFlight(d)' <=> InFlight(d))
  BY <1>1 DEF Mirror, Active, InFlight, Known
<1>3. CatalogTypes'
  BY <1>1 DEF CatalogTypes
<1>4. NotAhead'
  BY <1>1, <1>3 DEF NotAhead, CatalogTypes
<1>5. Apart' /\ BucketApart'
  BY <1>1, <1>2 DEF Apart, BucketApart
<1>6. InOrder'
  BY <1>1, <1>2 DEF InOrder
<1>7. ValidatorsTrue'
  BY <1>1, <1>2 DEF ValidatorsTrue
<1>8. Whole'
  <2>1. /\ Mirror' <=> Mirror
        /\ Active' => Active
    BY <1>2
  <2> QED
    BY <2>1, <1>2 DEF Whole
<1> QED
  BY <1>3, <1>4, <1>5, <1>6, <1>7, <1>8

LEMMA LightHolds ==
    ASSUME CatalogInv, NEW c \in Calls, LightPlan(c) \/ LightStep(c) \/ LightGivesUp(c) \/ LightApplyFails(c)
    PROVE  CatalogInv'
<1> USE DEF CatalogInv
<1>f. /\ feed \in FeedState /\ refresh \in RefreshRow /\ light \in [Calls -> LightRow] /\ src \in Nat
      /\ GoodTable(item) /\ light[c] \in LightRow
  BY DEF CatalogTypes
<1>0. /\ feed.etag \in Nat /\ feed.seen \in Nat /\ refresh.etag \in Nat /\ refresh.got \in Nat
      /\ \A d \in Calls : light[d].etag \in Nat /\ light[d].got \in Nat
  BY <1>f DEF FeedState, RefreshRow, LightRow
<1>a. light[c].phase # "idle" => InFlight(c) /\ Mirror /\ feed.cooling = TRUE /\ \A d \in Calls : InFlight(d) => d = c
  BY <1>f DEF Apart, BucketApart, InFlight, FeedState
<1>1. CASE LightPlan(c)
  <2>1. /\ Mirror /\ ~feed.cooling /\ feed' = [feed EXCEPT !.cooling = TRUE] /\ UNCHANGED <<src, item>>
        /\ \/ refresh' = EnqueueRefresh(refresh) /\ UNCHANGED light
           \/ light' = [light EXCEPT ![c] = [NoLight EXCEPT !.phase = "planned", !.etag = feed.etag]]
              /\ UNCHANGED refresh
    BY <1>1 DEF LightPlan
  <2>2. /\ feed' \in FeedState /\ feed'.kind = feed.kind /\ feed'.first = feed.first /\ feed'.cooling = TRUE
        /\ feed'.etag = feed.etag /\ feed'.seen = feed.seen
    BY <2>1, <1>f DEF FeedState
  <2>3. ~Active /\ \A d \in Calls : ~InFlight(d)
    BY <2>1 DEF Apart
  <2>4. /\ refresh' \in RefreshRow /\ ~Active' /\ refresh'.etag = refresh.etag /\ refresh'.got = refresh.got
    BY <2>1, <2>3, <1>f DEF EnqueueRefresh, RefreshRow, Active
  <2>5. /\ light' \in [Calls -> LightRow] /\ \A d \in Calls : d # c => light'[d] = light[d]
        /\ \/ light'[c] = light[c]
           \/ light'[c].phase = "planned" /\ light'[c].etag = feed.etag /\ light'[c].got = 0
    <3>1. CASE UNCHANGED light
      BY <3>1, <1>f
    <3>2. CASE light' = [light EXCEPT ![c] = [NoLight EXCEPT !.phase = "planned", !.etag = feed.etag]]
      <4>1. PICK e \in Nat : e = feed.etag
        BY <1>0
      <4> DEFINE l == [NoLight EXCEPT !.phase = "planned", !.etag = e]
      <4>2. l \in LightRow /\ l.phase = "planned" /\ l.etag = e /\ l.got = 0
        BY DEF NoLight, LightRow
      <4>3. light' = [light EXCEPT ![c] = l]
        BY <3>2, <4>1
      <4> HIDE DEF l
      <4> QED
        BY <4>1, <4>2, <4>3, <1>f
    <3> QED
      BY <2>1, <3>1, <3>2
  <2>6. Mirror' /\ Known(item') = Known(item)' /\ \A d \in Calls : d # c => ~InFlight(d)'
    BY <2>1, <2>2, <2>3, <2>5 DEF Mirror, Known, InFlight
  <2>7. CatalogTypes' /\ NotAhead'
    BY <2>1, <2>2, <2>4, <2>5, <1>0, <1>f DEF CatalogTypes, NotAhead
  <2>8. Apart' /\ BucketApart' /\ InOrder'
    BY <2>2, <2>3, <2>4, <2>5, <2>6 DEF Apart, BucketApart, InOrder, InFlight
  <2>9. ValidatorsTrue'
    BY <2>1, <2>2, <2>3, <2>4, <2>5, <2>6 DEF ValidatorsTrue, InFlight
  <2>10. Whole'
    BY <2>1, <2>2, <2>4, <2>6 DEF Whole
  <2> QED
    BY <2>7, <2>8, <2>9, <2>10
<1>2. CASE LightLists(c)
  <2>1. light[c].phase = "planned" /\ light[c].got = 0 /\ InFlight(c)
    BY <1>2 DEF LightLists, InLight, InOrder, InFlight
  <2>2. /\ UNCHANGED <<src, feed, item, refresh>>
        /\ light' = [light EXCEPT ![c] =
               IF NotModified(@.etag) THEN [@ EXCEPT !.phase = "listed"]
               ELSE [light[c] EXCEPT !.phase = "listed", !.got = src, !.changed = snapshot # src]]
    BY <1>2 DEF LightLists
  <2>3. /\ light' \in [Calls -> LightRow] /\ \A d \in Calls : d # c => light'[d] = light[d]
        /\ light'[c].phase = "listed" /\ light'[c].etag = light[c].etag /\ light'[c].got \in {0, src}
    <3>1. (snapshot # src) \in BOOLEAN
      OBVIOUS
    <3>2. light'[c] = [light[c] EXCEPT !.phase = "listed"]
          \/ light'[c] = [light[c] EXCEPT !.phase = "listed", !.got = src, !.changed = snapshot # src]
      BY <2>2, <1>f
    <3>3. /\ light'[c] \in LightRow /\ light'[c].phase = "listed" /\ light'[c].etag = light[c].etag
          /\ light'[c].got \in {0, src}
      BY <3>1, <3>2, <2>1, <1>f DEF LightRow
    <3>4. \A d \in Calls : d # c => light'[d] = light[d]
      BY <2>2, <1>f
    <3>5. light' = [d \in Calls |-> light'[d]]
      BY <2>2, <1>f
    <3> QED
      BY <3>3, <3>4, <3>5, <1>f
  <2>4. /\ Mirror /\ Mirror' /\ (Active' <=> Active) /\ Known(item') = Known(item)'
        /\ \A d \in Calls : InFlight(d)' <=> InFlight(d)
    BY <2>1, <2>2, <2>3, <1>a DEF Mirror, Active, InFlight, Known
  <2>5. CatalogTypes' /\ NotAhead'
    BY <2>2, <2>3, <1>0, <1>f DEF CatalogTypes, NotAhead
  <2>6. Apart' /\ BucketApart'
    BY <2>2, <2>4 DEF Apart, BucketApart
  <2>7. InOrder'
    BY <2>2, <2>3, <2>4 DEF InOrder, NotAhead
  <2>8. ValidatorsTrue' /\ Whole'
    BY <2>2, <2>3, <2>4 DEF ValidatorsTrue, Whole
  <2> QED
    BY <2>5, <2>6, <2>7, <2>8
<1>3. CASE LightUnchanged(c)
  <2>1. /\ light[c].phase = "listed" /\ UNCHANGED <<src, item, refresh>>
        /\ feed' = [feed EXCEPT !.etag = light[c].etag] /\ light' = [light EXCEPT ![c] = NoLight]
    BY <1>3 DEF LightUnchanged, InLight
  <2>2. /\ feed' \in FeedState /\ feed'.kind = feed.kind /\ feed'.first = feed.first /\ feed'.cooling = feed.cooling
        /\ feed'.etag = light[c].etag /\ feed'.seen = feed.seen
    BY <2>1, <1>0, <1>f DEF FeedState
  <2>3. feed'.etag <= src /\ feed'.seen <= src
    BY <2>2 DEF NotAhead
  <2>4. feed.kind = "rss" =>
               /\ feed'.etag = src => feed'.seen = src
               /\ Active /\ refresh.etag = src => feed'.seen = src
               /\ \A d \in Calls \ {c} : InFlight(d) /\ light[d].etag = src => feed'.seen = src
    BY <2>1, <2>2, <1>a DEF ValidatorsTrue
  <2> QED
    BY <2>1, <2>2, <2>3, <2>4, <1>a, <1>f, LightEnds
<1>4. CASE LightGivesUp(c) \/ LightApplyFails(c)
  <2>1. /\ light[c].phase # "idle" /\ UNCHANGED <<src, feed, item, refresh>> /\ light' = [light EXCEPT ![c] = NoLight]
    BY <1>4 DEF LightGivesUp, LightApplyFails, InLight
  <2>2. feed'.etag <= src /\ feed'.seen <= src
    BY <2>1 DEF NotAhead
  <2>3. feed.kind = "rss" =>
               /\ feed'.etag = src => feed'.seen = src
               /\ Active /\ refresh.etag = src => feed'.seen = src
               /\ \A d \in Calls \ {c} : InFlight(d) /\ light[d].etag = src => feed'.seen = src
    BY <2>1 DEF ValidatorsTrue
  <2> QED
    BY <2>1, <2>2, <2>3, <1>a, <1>f, LightEnds
<1>5. CASE LightApplies(c)
  <2> DEFINE got == light[c].got
             complete == feed.kind = "rss"
             listed == Upsert(item, First[got], Archivable(got), ~complete)
             kept == IF complete THEN Synced(listed) ELSE listed
             table == SetWanted(kept, PolicyWants(kept))
  <2>1. /\ light[c].phase = "listed" /\ got # 0 /\ UNCHANGED <<src, refresh>> /\ light' = [light EXCEPT ![c] = NoLight]
        /\ item' = table
        /\ \E o \in BOOLEAN : feed' = [feed EXCEPT !.applied = TRUE, !.text = got,
                                !.etag = IF complete THEN got ELSE @,
                                !.seen = IF complete THEN got ELSE @, !.outdated = o]
    BY <1>5 DEF LightApplies, InLight
  <2>2. GoodTable(item') /\ Known(item) \subseteq Known(item')
    <3>1. feed.applied \in BOOLEAN /\ (~complete) \in BOOLEAN
      BY <1>f DEF FeedState
    <3>2. GoodTable(listed) /\ Known(item) \subseteq Known(listed)
      BY <3>1, <1>f, Upserted
    <3> HIDE DEF listed
    <3>3. GoodTable(kept) /\ Known(listed) \subseteq Known(kept)
      BY <3>2, SyncKept
    <3> HIDE DEF kept
    <3>4. GoodTable(table) /\ Known(kept) \subseteq Known(table)
      BY <3>3, PolicyKnows, WantedKept
    <3> QED
      BY <2>1, <3>2, <3>3, <3>4
  <2>3. /\ feed' \in FeedState /\ feed'.kind = feed.kind /\ feed'.first = feed.first /\ feed'.cooling = feed.cooling
        /\ feed'.etag = (IF complete THEN got ELSE feed.etag) /\ feed'.seen = (IF complete THEN got ELSE feed.seen)
    <3>1. PICK o \in BOOLEAN, e \in Nat, v \in Nat :
              /\ e = (IF complete THEN got ELSE feed.etag) /\ v = (IF complete THEN got ELSE feed.seen)
              /\ feed' = [feed EXCEPT !.applied = TRUE, !.text = got, !.etag = e, !.seen = v, !.outdated = o]
      BY <2>1, <1>0
    <3>2. got \in Nat
      BY <1>0
    <3> HIDE DEF got
    <3> QED
      BY <3>1, <3>2, <1>f DEF FeedState
  <2>4. got \in Nat /\ got <= src /\ feed'.etag <= src /\ feed'.seen <= src
    BY <2>3, <1>0 DEF NotAhead
  <2>5. feed.kind = "rss" =>
               /\ feed'.etag = src => feed'.seen = src
               /\ Active /\ refresh.etag = src => feed'.seen = src
               /\ \A d \in Calls \ {c} : InFlight(d) /\ light[d].etag = src => feed'.seen = src
    <3>1. Active => refresh.etag <= got
      BY <2>1 DEF InOrder
    <3> QED
      BY <2>1, <2>3, <2>4, <3>1, <1>0, <1>a
  <2> HIDE DEF table
  <2> QED
    BY <2>1, <2>2, <2>3, <2>4, <2>5, <1>a, LightEnds
<1> QED
  BY <1>1, <1>2, <1>3, <1>4, <1>5 DEF LightStep

\* What a step of the refreshes leaves alone: the rows of a Bucket.
LEMMA BucketsListAlone ==
    ASSUME CatalogInv, ~Mirror,
           \/ SourceChanges \/ Retarget \/ CooldownOver \/ RequestRefresh \/ RefreshStep \/ RefreshFails \/ RefreshStops
           \/ \E c \in Calls : LightPlan(c) \/ LightStep(c) \/ LightGivesUp(c) \/ LightApplyFails(c)
    PROVE  item' = item
<1>1. refresh.phase = "none" /\ \A c \in Calls : light[c].phase = "idle"
  BY DEF CatalogInv, BucketApart, InFlight
<1>2. ~RequestRefresh /\ ~RefreshStep /\ ~RefreshFails /\ ~RefreshStops /\ ~SourceChanges /\ ~Retarget
  BY <1>1 DEF RequestRefresh, RefreshStep, RefreshStart, RefreshLists, RefreshSaves, RefreshApplies, RefreshFails,
              RefreshStops, SourceChanges, Retarget
<1>3. ASSUME NEW c \in Calls PROVE ~LightPlan(c) /\ ~LightStep(c) /\ ~LightGivesUp(c) /\ ~LightApplyFails(c)
  BY <1>1 DEF LightPlan, LightStep, LightLists, LightUnchanged, LightApplies, LightGivesUp, LightApplyFails, InLight
<1> QED
  BY <1>2, <1>3 DEF CooldownOver

\* The rows' own life: archive jobs, users, Requests.
LEMMA RowsLive ==
    ASSUME CatalogInv,
           \/ \E i \in Items : ArchiveEnds(i) \/ UserWants(i) \/ UserDeletes(i)
           \/ \E r \in Requests : AddRequest(r) \/ RequestStep(r) \/ ExpandRaises(r) \/ ExpandStops(r)
                              \/ ExpandSticks(r) \/ ExpandDies(r)
    PROVE  CatalogInv' /\ ListKept
<1>f. feed \in FeedState /\ GoodTable(item) /\ feed.applied \in BOOLEAN /\ FALSE \in BOOLEAN
  BY DEF CatalogInv, CatalogTypes, FeedState
<1>g. ASSUME NEW g, g = feed \/ g = [feed EXCEPT !.outdated = FALSE]
      PROVE  /\ g \in FeedState /\ g.kind = feed.kind /\ g.first = feed.first /\ g.etag = feed.etag
             /\ g.seen = feed.seen /\ g.cooling = feed.cooling
  BY <1>g, <1>f DEF FeedState
<1>r. ASSUME UNCHANGED <<src, refresh, light>>, feed' = feed \/ feed' = [feed EXCEPT !.outdated = FALSE],
             GoodTable(item'), Known(item) \subseteq Known(item')
      PROVE  CatalogInv'
  BY <1>r, <1>g, RowsAlone
<1>1. ASSUME NEW i \in Items, ArchiveEnds(i) PROVE CatalogInv' /\ ListKept
  <2>1. CASE item[i].state = "wanted"
    <3>1. PICK s \in {"archived", "failed"} : item' = [item EXCEPT ![i] = [@ EXCEPT !.state = s]]
      BY <1>1, <2>1 DEF ArchiveEnds
    <3>2. i \in Known(item) /\ s \in RowStates \ {"none"}
      BY <2>1 DEF Known, RowStates
    <3>3. GoodTable(item') /\ Known(item) \subseteq Known(item')
      BY <3>1, <3>2, RowChanges
    <3>4. ListKept
      BY <3>1, <1>f DEF ListKept, GoodTable, ListedRow
    <3> QED
      BY <1>1, <1>r, <2>1, <3>3, <3>4 DEF ArchiveEnds
  <2>2. CASE item[i].state # "wanted"
    BY <1>1, <2>2, <1>f, <1>r DEF ArchiveEnds, ListKept
  <2> QED
    BY <2>1, <2>2
<1>2. ASSUME NEW i \in Items, UserWants(i) PROVE CatalogInv' /\ ListKept
  <2>1. item' = SetWanted(item, {i}) /\ {i} \subseteq Known(item)
    BY <1>2, PolicyKnows DEF UserWants
  <2>2. GoodTable(item') /\ Known(item) \subseteq Known(item')
    BY <2>1, <1>f, WantedKept
  <2>3. ListKept
    <3>1. ASSUME NEW k \in Items PROVE item'[k].listed = item[k].listed
      <4>1. item'[k] = [item[k] EXCEPT !.state = "wanted"] \/ item'[k] = item[k]
        BY <2>1 DEF SetWanted
      <4> QED
        BY <4>1, <1>f DEF GoodTable, ListedRow
    <3> QED
      BY <3>1 DEF ListKept
  <2> QED
    BY <1>2, <1>r, <2>2, <2>3 DEF UserWants
<1>3. ASSUME NEW i \in Items, UserDeletes(i) PROVE CatalogInv' /\ ListKept
  <2>1. item' = Tombstone(item, {i}) /\ {i} \subseteq Known(item) /\ Mirror \in BOOLEAN
    BY <1>3 DEF UserDeletes, Mirror
  <2>2. GoodTable(item') /\ Known(item) \subseteq Known(item')
    BY <2>1, <1>f, TombstonesKept
  <2>3. ListKept
    <3>1. ASSUME NEW k \in Items PROVE item'[k] = item[k] \/ item'[k].state = "deleted"
      <4>1. item'[k] = [item[k] EXCEPT !.state = "deleted", !.listed = Mirror] \/ item'[k] = item[k]
        BY <2>1 DEF Tombstone
      <4> QED
        BY <4>1, <1>f DEF GoodTable, ListedRow
    <3> QED
      BY <3>1 DEF ListKept
  <2> QED
    BY <1>3, <1>r, <2>2, <2>3 DEF UserDeletes
<1>4. ASSUME NEW r \in Requests, ExpandApply(r) PROVE CatalogInv' /\ ListKept
  <2> DEFINE listed == Upsert(item, Wants[r], Wants[r], FALSE)
             table == SetWanted(listed, ReWantable(listed) \cap Wants[r])
             shown == RelistHidden(table)
  <2>1. item' = shown
    BY <1>4 DEF ExpandApply
  <2>2. GoodTable(listed) /\ Known(item) \subseteq Known(listed)
    BY <1>f, Upserted
  <2> HIDE DEF listed
  <2>3. GoodTable(table) /\ Known(listed) \subseteq Known(table)
    BY <2>2, PolicyKnows, WantedKept
  <2> HIDE DEF table
  <2>4. ASSUME NEW k \in Items
        PROVE  \/ shown[k] = table[k] /\ table[k].state \in {"none", "deleted"}
               \/ /\ table[k].state # "none" /\ shown[k] \in ListedRow /\ shown[k].state = table[k].state
                  /\ shown[k].listed = TRUE
    <3>1. table[k] \in ListedRow
      BY <2>3 DEF GoodTable
    <3>2. shown[k] = IF table[k].state \notin {"none", "deleted"} THEN [table[k] EXCEPT !.listed = TRUE] ELSE table[k]
      BY DEF RelistHidden
    <3> HIDE DEF shown
    <3> QED
      BY <3>1, <3>2 DEF ListedRow
  <2>5. shown = [k \in Items |-> shown[k]]
    BY DEF RelistHidden
  <2> HIDE DEF shown
  <2>6. GoodTable(item') /\ Known(item) \subseteq Known(item')
    <3>1. GoodTable(shown) /\ Known(table) \subseteq Known(shown)
      BY <2>3, <2>4, <2>5, TableChanges
    <3> QED
      BY <2>1, <2>2, <2>3, <3>1
  <2>7. ListKept
    <3> SUFFICES ASSUME NEW k \in Items, item[k].listed, ~item'[k].listed PROVE item'[k].state = "deleted"
      BY DEF ListKept
    <3>1. item[k].state # "none"
      BY <1>f DEF GoodTable
    <3>2. table[k].state # "none"
      BY <3>1, <2>2, <2>3 DEF Known
    <3> QED
      BY <3>2, <2>1, <2>4
  <2> QED
    BY <1>4, <1>r, <2>6, <2>7 DEF ExpandApply
<1>5. ASSUME NEW r \in Requests,
             AddRequest(r) \/ ExpandStart(r) \/ ExpandSettle(r) \/ ExpandFails(r) \/ ExpandRaises(r)
             \/ ExpandStops(r) \/ ExpandSticks(r) \/ ExpandDies(r)
      PROVE  CatalogInv' /\ ListKept
  <2>1. UNCHANGED <<src, feed, item, refresh, light>>
    BY <1>5 DEF AddRequest, ExpandStart, ExpandSettle, ExpandFails, ExpandRaises, ExpandStops, ExpandSticks, ExpandDies
  <2> QED
    BY <2>1, <1>f, <1>r DEF ListKept
<1> QED
  BY <1>1, <1>2, <1>3, <1>4, <1>5 DEF RequestStep

\* While the cooldown and the deadlines keep listings apart, the invariant stands.
LEMMA CatalogHolds ==
    ASSUME ~Overlap
    PROVE  CatalogInv /\ [CatalogNext]_catalogVars => CatalogInv' /\ [ListKept]_catalogVars
<1> SUFFICES ASSUME CatalogInv, [CatalogNext]_catalogVars PROVE CatalogInv' /\ [ListKept]_catalogVars
  OBVIOUS
<1>1. ASSUME \/ SourceChanges \/ Retarget \/ CooldownOver \/ RequestRefresh \/ RefreshStep \/ RefreshFails \/ RefreshStops
             \/ \E c \in Calls : LightPlan(c) \/ LightStep(c) \/ LightGivesUp(c) \/ LightApplyFails(c)
      PROVE  CatalogInv' /\ ListKept
  <2>1. ListKept
    BY <1>1, BucketsListAlone DEF ListKept
  <2>2. CatalogInv'
    BY <1>1, SourceMoves, CooldownHolds, RefreshHolds, LightHolds
  <2> QED
    BY <2>1, <2>2
<1>2. CASE UNCHANGED catalogVars
  <2>1. GoodTable(item') /\ Known(item) \subseteq Known(item') /\ feed' \in FeedState
    BY <1>2 DEF CatalogInv, CatalogTypes, catalogVars
  <2> QED
    BY <1>2, <2>1, RowsAlone DEF catalogVars
<1> QED
  BY <1>1, <1>2, RowsLive DEF CatalogNext

-----------------------------------------------------------------------------
(* Quota: what lands while the Owner is over was in flight when it last had  *)
(* room.                                                                     *)

JobStates == {"none", "queued", "running", "ending"}
Txn == [item : Episodes, to : {"archived", "deleted"}, seen : SUBSET Episodes]

\* An open transaction is one of its Feed's items, once each, and the one of a
\* job that is still running when it registers what it fetched.
TxnsStand ==
    /\ \A f \in Feeds : \A n \in DOMAIN counting[f] :
          /\ FeedOf[counting[f][n].item] = f
          /\ counting[f][n].to = "archived" => job[counting[f][n].item] = "running"
    /\ \A f \in Feeds : \A m, n \in DOMAIN counting[f] :
          counting[f][m].item = counting[f][n].item => m = n

QuotaTypes ==
    /\ state \in [Episodes -> States] /\ job \in [Episodes -> JobStates]
    /\ counting \in [Feeds -> Seq(Txn)] /\ DOMAIN stored = Feeds /\ landed \subseteq Episodes

\* Nothing has landed over the quota while there is room.
RoomEmpties == ~Over => landed = {}

QuotaInv == QuotaTypes /\ TxnsStand /\ RoomEmpties /\ SlotsBound

\* What is contained in a set of at most Slots is at most Slots too.
LEMMA BoundOfSubset ==
    ASSUME NEW S, NEW T, IsFiniteSet(T), S \subseteq T, Cardinality(T) <= Slots
    PROVE  Cardinality(S) <= Slots
  <1>1. IsFiniteSet(S) /\ Cardinality(S) <= Cardinality(T)  BY FS_Subset
  <1>2. Cardinality(S) \in Nat /\ Cardinality(T) \in Nat  BY <1>1, FS_CardinalityType
  <1> QED  BY <1>1, <1>2, QuotaAssumption DEF QuotaAssumption

\* Nothing has landed and nothing runs at first.
LEMMA QuotaStarts == QuotaInit => QuotaInv
  <1> SUFFICES ASSUME QuotaInit PROVE QuotaInv  OBVIOUS
  <1> USE QuotaAssumption DEF QuotaAssumption, QuotaInit
  <1>1. QuotaTypes  BY DEF QuotaTypes, States, JobStates
  <1>2. TxnsStand  BY DEF TxnsStand
  <1>3. RoomEmpties  BY DEF RoomEmpties
  <1>4. landed \cup Running = {}  BY DEF Running
  <1>5. Cardinality(landed \cup Running) = 0  BY <1>4, FS_EmptySet
  <1>6. SlotsBound  BY <1>5 DEF SlotsBound
  <1> QED  BY <1>1, <1>2, <1>3, <1>6 DEF QuotaInv

\* A step that opens no transaction, starts nothing and leaves the usage alone.
LEMMA QuietSteps ==
    ASSUME QuotaInv, QuotaTypes', TxnsStand', Running' \subseteq Running,
           UNCHANGED <<stored, quota, landed>>
    PROVE  QuotaInv'
  <1>1. RoomEmpties'  BY DEF QuotaInv, RoomEmpties, Over, Used
  <1>2. IsFiniteSet(landed \cup Running)
    <2>1. landed \cup Running \subseteq Episodes  BY DEF QuotaInv, QuotaTypes, Running
    <2> QED  BY <2>1, FS_Subset, QuotaAssumption DEF QuotaAssumption
  <1>3. landed' \cup Running' \subseteq landed \cup Running  OBVIOUS
  <1>4. SlotsBound'  BY <1>2, <1>3, BoundOfSubset DEF QuotaInv, SlotsBound
  <1> QED  BY <1>1, <1>4 DEF QuotaInv

\* Jobs that come to run no more were in no open transaction.
LEMMA TxnsKept ==
    ASSUME QuotaInv, UNCHANGED counting,
           \A i \in Episodes : job[i] = "running" /\ job'[i] # "running" => ~Held(i)
    PROVE  TxnsStand'
  <1>1. ASSUME NEW f \in Feeds, NEW n \in DOMAIN counting[f], counting[f][n].to = "archived"
        PROVE  job'[counting[f][n].item] = "running"
    <2> DEFINE i == counting[f][n].item
    <2>1. counting[f] \in Seq(Txn)  BY DEF QuotaInv, QuotaTypes
    <2>2. n \in 1 .. Len(counting[f])  BY <2>1, LenProperties
    <2>3. counting[f][n] \in Txn  BY <2>1, <2>2, ElementOfSeq
    <2>4. i \in Episodes  BY <2>3 DEF Txn
    <2>5. FeedOf[i] = f /\ job[i] = "running"  BY <1>1 DEF QuotaInv, TxnsStand
    <2>6. Held(i)  BY <2>5 DEF Held
    <2> QED  BY <2>4, <2>5, <2>6
  <1> QED  BY <1>1 DEF QuotaInv, TxnsStand

\* A step of jobs that starts none and ends none an open transaction is about.
LEMMA JobsMove ==
    ASSUME QuotaInv, job' \in [Episodes -> JobStates], state' \in [Episodes -> States],
           UNCHANGED <<counting, stored, quota, landed>>,
           \A i \in Episodes : job'[i] = "running" => job[i] = "running",
           \A i \in Episodes : job[i] = "running" /\ job'[i] # "running" => ~Held(i)
    PROVE  QuotaInv'
  <1>1. QuotaTypes'  BY DEF QuotaInv, QuotaTypes
  <1>2. TxnsStand'  BY TxnsKept
  <1>3. Running' \subseteq Running  BY DEF Running
  <1> QED  BY <1>1, <1>2, <1>3, QuietSteps

\* The case the bound rests on: an archive only starts below the quota, into a room that was emptied.
LEMMA OneStarts ==
    ASSUME QuotaInv, NEW i \in Episodes, Start(i)
    PROVE  QuotaInv'
  <1> USE DEF QuotaInv
  <1>1. job' = [job EXCEPT ![i] = "running"] /\ state' = [state EXCEPT ![i] = "archiving"]
        BY DEF Start, Goes, Becomes
  <1>2. QuotaTypes'  BY <1>1 DEF Start, QuotaTypes, States, JobStates
  <1>3. TxnsStand'  BY <1>1, TxnsKept DEF Start, QuotaTypes
  <1>4. landed = {} /\ RoomEmpties'  BY DEF Start, RoomEmpties, Over, Used
  <1>5. Busy \subseteq Episodes  BY DEF Busy
  <1>6. IsFiniteSet(Busy)  BY <1>5, FS_Subset, QuotaAssumption DEF QuotaAssumption
  <1>7. Running \subseteq Busy  BY DEF Running, Busy
  <1>8. IsFiniteSet(Running) /\ Cardinality(Running) <= Cardinality(Busy)
        BY <1>6, <1>7, FS_Subset
  <1>9. Cardinality(Busy) \in Nat /\ Cardinality(Running) \in Nat  BY <1>6, <1>8, FS_CardinalityType
  <1>10. landed' \cup Running' = Running \cup {i}
         BY <1>1, <1>4 DEF Start, Running, QuotaTypes
  <1>11. Cardinality(Running \cup {i}) <= Cardinality(Running) + 1
    <2> DEFINE R == Running
    <2>1. IsFiniteSet(R) /\ Cardinality(R) \in Nat  BY <1>8, <1>9
    <2> HIDE DEF R
    <2>2. Cardinality(R \cup {i}) = IF i \in R THEN Cardinality(R) ELSE Cardinality(R) + 1
          BY ONLY <2>1, FS_AddElement
    <2>3. Cardinality(R \cup {i}) <= Cardinality(R) + 1  BY ONLY <2>1, <2>2
    <2> QED  BY <2>3 DEF R
  <1>12. IsFiniteSet(Running \cup {i})  BY <1>8, FS_AddElement
  <1>13. Cardinality(Running \cup {i}) \in Nat  BY <1>12, FS_CardinalityType
  <1>14. Cardinality(Busy) < Slots  BY DEF Start
  <1>15. Cardinality(Running \cup {i}) <= Slots
         BY <1>8, <1>9, <1>11, <1>13, <1>14, QuotaAssumption DEF QuotaAssumption
  <1>16. SlotsBound'  BY <1>10, <1>15 DEF SlotsBound
  <1> QED  BY <1>2, <1>3, <1>4, <1>16

\* What the rows and the counts of the other transactions are when one begins.
LEMMA OneCounts ==
    ASSUME QuotaInv, NEW i \in Episodes, NEW to \in {"archived", "deleted"}, NEW seen \in SUBSET Episodes,
           Counts(i, to, seen), to = "archived" => job[i] = "running",
           UNCHANGED <<state, job, stored, quota, landed>>
    PROVE  QuotaInv'
  <1> USE DEF QuotaInv
  <1> DEFINE f == FeedOf[i]
             t == [item |-> i, to |-> to, seen |-> seen]
  <1>1. f \in Feeds /\ t \in Txn  BY QuotaAssumption DEF QuotaAssumption, Txn
  <1>2. counting' = [counting EXCEPT ![f] = Append(@, t)]  BY DEF Counts
  <1>3. counting[f] \in Seq(Txn)  BY <1>1 DEF QuotaTypes
  <1>4. /\ Append(counting[f], t) \in Seq(Txn)
        /\ Len(Append(counting[f], t)) = Len(counting[f]) + 1
        /\ Append(counting[f], t)[Len(counting[f]) + 1] = t
        /\ \A n \in 1 .. Len(counting[f]) : Append(counting[f], t)[n] = counting[f][n]
        BY <1>1, <1>3, AppendProperties
  <1>5. /\ \A g \in Feeds : g # f => counting'[g] = counting[g]
        /\ counting'[f] = Append(counting[f], t)
        BY <1>1, <1>2 DEF QuotaTypes
  <1>6. QuotaTypes'  BY <1>1, <1>2, <1>4 DEF QuotaTypes
  <1>7. DOMAIN counting[f] = 1 .. Len(counting[f]) /\ Len(counting[f]) \in Nat
        BY <1>3, LenProperties
  <1>8. DOMAIN counting'[f] = 1 .. Len(counting[f]) + 1
        BY <1>4, <1>5, LenProperties
  <1>9. \A n \in DOMAIN counting[f] : counting[f][n].item # i
        BY <1>1 DEF Counts, Held
  <1>10. \A g \in Feeds : \A n \in DOMAIN counting'[g] :
           \/ n \in DOMAIN counting[g] /\ counting'[g][n] = counting[g][n]
           \/ g = f /\ n = Len(counting[f]) + 1 /\ counting'[g][n] = t
         BY SMTT(30), <1>4, <1>5, <1>7, <1>8
  <1>11. \A g \in Feeds : \A n \in DOMAIN counting'[g] :
           /\ FeedOf[counting'[g][n].item] = g
           /\ counting'[g][n].to = "archived" => job'[counting'[g][n].item] = "running"
         BY <1>10 DEF TxnsStand
  <1>12. \A g \in Feeds : \A m, n \in DOMAIN counting'[g] :
           counting'[g][m].item = counting'[g][n].item => m = n
         BY <1>9, <1>10 DEF TxnsStand
  <1>13. TxnsStand'  BY <1>11, <1>12 DEF TxnsStand
  <1>14. Running' \subseteq Running  BY DEF Running
  <1> QED  BY <1>6, <1>13, <1>14, QuietSteps

\* What is left of a Feed's transactions without the first.
LEMMA TxnsWithoutHead ==
    ASSUME QuotaInv, NEW f \in Feeds, counting[f] # <<>>,
           counting' = [counting EXCEPT ![f] = Tail(@)], job' \in [Episodes -> JobStates],
           \A j \in Episodes : j # Head(counting[f]).item => job'[j] = job[j]
    PROVE  /\ counting' \in [Feeds -> Seq(Txn)] /\ TxnsStand'
           /\ Head(counting[f]) \in Txn
           /\ Head(counting[f]).to = "archived" => job[Head(counting[f]).item] = "running"
  <1> USE DEF QuotaInv
  <1> DEFINE t == Head(counting[f])
  <1>1. counting[f] \in Seq(Txn)  BY DEF QuotaTypes
  <1>2. /\ t \in Txn /\ t = counting[f][1] /\ Tail(counting[f]) \in Seq(Txn)
        /\ Len(counting[f]) \in Nat \ {0} /\ Len(Tail(counting[f])) = Len(counting[f]) - 1
        /\ \A n \in 1 .. Len(counting[f]) - 1 : Tail(counting[f])[n] = counting[f][n + 1]
        BY <1>1, HeadTailProperties, LenProperties, EmptySeq
  <1>3. counting' \in [Feeds -> Seq(Txn)]  BY <1>2 DEF QuotaTypes
  <1>4. DOMAIN counting[f] = 1 .. Len(counting[f])  BY <1>1, LenProperties
  <1>5. /\ counting'[f] = Tail(counting[f])
        /\ \A g \in Feeds : g # f => counting'[g] = counting[g]
        BY DEF QuotaTypes
  <1>6. DOMAIN counting'[f] = 1 .. Len(counting[f]) - 1  BY <1>2, <1>5, LenProperties
  <1>7. FeedOf[t.item] = f /\ (t.to = "archived" => job[t.item] = "running")
        BY <1>2, <1>4 DEF TxnsStand
  <1>8. \A n \in DOMAIN counting'[f] :
          n + 1 \in DOMAIN counting[f] /\ n + 1 # 1 /\ counting'[f][n] = counting[f][n + 1]
        BY <1>2, <1>4, <1>5, <1>6
  <1>9. \A n \in DOMAIN counting'[f] : counting'[f][n].item # t.item
    <2> SUFFICES ASSUME NEW n \in DOMAIN counting'[f] PROVE counting'[f][n].item # t.item
        OBVIOUS
    <2>1. 1 \in DOMAIN counting[f]  BY <1>2, <1>4
    <2>2. n + 1 \in DOMAIN counting[f] /\ n + 1 # 1 /\ counting'[f][n] = counting[f][n + 1]
          BY <1>8
    <2> QED  BY <1>2, <2>1, <2>2 DEF TxnsStand
  <1>10. \A g \in Feeds : g # f => \A n \in DOMAIN counting'[g] : counting'[g][n].item # t.item
         BY <1>5, <1>7 DEF TxnsStand
  <1>11. ASSUME NEW g \in Feeds, NEW n \in DOMAIN counting'[g]
         PROVE  /\ FeedOf[counting'[g][n].item] = g
                /\ counting'[g][n].to = "archived" => job[counting'[g][n].item] = "running"
    <2>1. CASE g # f  BY <2>1, <1>5 DEF TxnsStand
    <2>2. CASE g = f  BY <2>2, <1>8 DEF TxnsStand
    <2> QED  BY <2>1, <2>2
  <1>12. ASSUME NEW g \in Feeds, NEW m \in DOMAIN counting'[g], NEW n \in DOMAIN counting'[g],
                counting'[g][m].item = counting'[g][n].item
         PROVE  m = n
    <2>1. CASE g # f  BY <2>1, <1>5, <1>12 DEF TxnsStand
    <2>2. CASE g = f
      <3>1. m + 1 = n + 1  BY <2>2, <1>8, <1>12 DEF TxnsStand
      <3>2. m \in Int /\ n \in Int  BY <2>2, <1>6
      <3> QED  BY <3>1, <3>2
    <2> QED  BY <2>1, <2>2
  <1>13. ASSUME NEW g \in Feeds, NEW n \in DOMAIN counting'[g]
         PROVE  job'[counting'[g][n].item] = job[counting'[g][n].item]
    <2>1. counting'[g] \in Seq(Txn)  BY <1>3
    <2>2. n \in 1 .. Len(counting'[g])  BY <2>1, LenProperties
    <2>3. counting'[g][n] \in Txn  BY <2>1, <2>2, ElementOfSeq
    <2>4. counting'[g][n].item \in Episodes  BY <2>3 DEF Txn
    <2>5. counting'[g][n].item # t.item  BY <1>9, <1>10
    <2> QED  BY <2>4, <2>5
  <1>14. TxnsStand'  BY <1>11, <1>12, <1>13 DEF TxnsStand
  <1> QED  BY <1>2, <1>3, <1>7, <1>14

\* What a commit lets land was running before it.
LEMMA OneCommits ==
    ASSUME QuotaInv, NEW f \in Feeds, Commit(f)
    PROVE  QuotaInv'
  <1> USE DEF QuotaInv
  <1> DEFINE t == Head(counting[f])
             now == [stored EXCEPT ![f] = Sum(Bytes, t.seen)]
  <1>1. /\ state' = [state EXCEPT ![t.item] = t.to] /\ counting[f] # <<>>
        /\ stored' = now /\ quota' = quota
        /\ counting' = [counting EXCEPT ![f] = Tail(@)]
        /\ job' = IF t.to = "archived" THEN [job EXCEPT ![t.item] = "ending"] ELSE job
        /\ landed' = IF Sum(now, Feeds) >= quota
                     THEN landed \cup (IF t.to = "archived" THEN {t.item} ELSE {}) ELSE {}
        BY DEF Commit
  <1>2. job' \in [Episodes -> JobStates] /\ \A j \in Episodes : j # t.item => job'[j] = job[j]
        BY <1>1 DEF QuotaTypes, JobStates
  <1>3. /\ counting' \in [Feeds -> Seq(Txn)] /\ TxnsStand' /\ t \in Txn
        /\ t.to = "archived" => job[t.item] = "running"
        BY <1>1, <1>2, TxnsWithoutHead
  <1>4. t.item \in Episodes /\ t.to \in {"archived", "deleted"}  BY <1>3 DEF Txn
  <1>5. QuotaTypes'  BY <1>1, <1>2, <1>3, <1>4 DEF QuotaTypes, States
  <1>6. RoomEmpties'  BY <1>1 DEF RoomEmpties, Over, Used
  <1>7. landed' \cup Running' \subseteq landed \cup Running
    <2>1. Running' \subseteq Running  BY <1>1, <1>4 DEF Running, QuotaTypes
    <2>2. t.to = "archived" => t.item \in Running  BY <1>3, <1>4 DEF Running
    <2> QED  BY <2>1, <2>2, <1>1
  <1>8. IsFiniteSet(landed \cup Running)
    <2>1. landed \cup Running \subseteq Episodes  BY DEF QuotaTypes, Running
    <2> QED  BY <2>1, FS_Subset, QuotaAssumption DEF QuotaAssumption
  <1>9. SlotsBound'  BY <1>7, <1>8, BoundOfSubset DEF SlotsBound
  <1> QED  BY <1>3, <1>5, <1>6, <1>9

\* A transaction rolled back takes its job out of what runs and moves no usage.
LEMMA OneRollsBack ==
    ASSUME QuotaInv, NEW f \in Feeds, RollBack(f)
    PROVE  QuotaInv'
  <1> USE DEF QuotaInv
  <1> DEFINE t == Head(counting[f])
  <1>1. /\ counting[f] # <<>> /\ counting' = [counting EXCEPT ![f] = Tail(@)]
        /\ job' = IF t.to = "archived" THEN [job EXCEPT ![t.item] = "queued"] ELSE job
        /\ UNCHANGED <<state, stored, quota, landed>>
        BY DEF RollBack
  <1>2. job' \in [Episodes -> JobStates] /\ \A j \in Episodes : j # t.item => job'[j] = job[j]
        BY <1>1 DEF QuotaTypes, JobStates
  <1>3. counting' \in [Feeds -> Seq(Txn)] /\ TxnsStand' /\ t \in Txn
        BY <1>1, <1>2, TxnsWithoutHead
  <1>4. t.item \in Episodes  BY <1>3 DEF Txn
  <1>5. Running' \subseteq Running  BY <1>1, <1>4 DEF Running, QuotaTypes
  <1>6. QuotaTypes'  BY <1>1, <1>2, <1>3 DEF QuotaTypes
  <1> QED  BY <1>1, <1>3, <1>5, <1>6, QuietSteps

\* After a restart nothing runs and nothing has landed under the new quota.
LEMMA AnotherStarts ==
    ASSUME QuotaInv, NEW q \in Quotas, Restart(q)
    PROVE  QuotaInv'
  <1> USE DEF QuotaInv
  <1>1. /\ job' = [i \in Episodes |-> IF i \in Busy THEN "queued" ELSE job[i]]
        /\ landed' = {} /\ UNCHANGED <<state, stored, counting>>
        /\ \A i \in Episodes : job[i] = "running" => ~Held(i)
        BY DEF Restart, Running
  <1>2. QuotaTypes'  BY <1>1 DEF QuotaTypes, JobStates
  <1>3. TxnsStand'  BY <1>1, TxnsKept
  <1>4. landed' \cup Running' = {}  BY <1>1 DEF Running, Busy
  <1>5. Cardinality(landed' \cup Running') = 0  BY <1>4, FS_EmptySet
  <1>6. SlotsBound'  BY <1>5, QuotaAssumption DEF SlotsBound, QuotaAssumption
  <1>7. RoomEmpties'  BY <1>1 DEF RoomEmpties
  <1> QED  BY <1>2, <1>3, <1>6, <1>7

\* Every step keeps the inductive invariant.
LEMMA QuotaHolds == QuotaInv /\ [QuotaNext]_quotaVars => QuotaInv'
  <1> SUFFICES ASSUME QuotaInv, [QuotaNext]_quotaVars PROVE QuotaInv'  OBVIOUS
  <1> USE DEF QuotaInv, QuotaTypes, States, JobStates
  <1>1. ASSUME NEW i \in Episodes, BecomesDue(i) \/ Requeue(i) \/ Ask(i)  PROVE QuotaInv'
        BY <1>1, JobsMove DEF BecomesDue, Requeue, Ask, Becomes, Enqueued
  <1>2. ASSUME NEW i \in Episodes, Delete(i)  PROVE QuotaInv'
    <2>1. ArchivedOf(FeedOf[i]) \ {i} \in SUBSET Episodes  BY DEF ArchivedOf
    <2> QED  BY <1>2, <2>1, OneCounts DEF Delete
  <1>3. ASSUME NEW i \in Episodes, Skip(i) \/ StartOver(i) \/ Finish(i)  PROVE QuotaInv'
        BY <1>3, JobsMove DEF Skip, StartOver, Finish, Goes, Blocks
  <1>4. ASSUME NEW i \in Episodes, Start(i)  PROVE QuotaInv'  BY <1>4, OneStarts
  <1>5. ASSUME NEW i \in Episodes, TooLarge(i) \/ Changed(i)  PROVE QuotaInv'
        BY <1>5, JobsMove DEF TooLarge, Changed, Goes, Blocks
  <1>6. ASSUME NEW i \in Episodes, Fetched(i)  PROVE QuotaInv'
    <2>1. ArchivedOf(FeedOf[i]) \cup {i} \in SUBSET Episodes  BY DEF ArchivedOf
    <2> QED  BY <1>6, <2>1, OneCounts DEF Fetched
  <1>7. ASSUME NEW i \in Episodes, NEW to \in {"wanted", "failed"}, Fails(i, to)  PROVE QuotaInv'
        BY <1>7, JobsMove DEF Fails, Goes
  <1>8. ASSUME NEW f \in Feeds, Commit(f)  PROVE QuotaInv'  BY <1>8, OneCommits
  <1>9. ASSUME NEW f \in Feeds, RollBack(f)  PROVE QuotaInv'  BY <1>9, OneRollsBack
  <1>10. CASE ClearBlocks  BY <1>10, JobsMove DEF ClearBlocks
  <1>11. CASE Release  BY <1>11, JobsMove DEF Release, Enqueued
  <1>12. ASSUME NEW q \in Quotas, Restart(q)  PROVE QuotaInv'  BY <1>12, AnotherStarts
  <1>13. CASE UNCHANGED quotaVars  BY <1>13, JobsMove DEF quotaVars
  <1> QED  BY <1>1, <1>2, <1>3, <1>4, <1>5, <1>6, <1>7, <1>8, <1>9, <1>10, <1>11, <1>12, <1>13
           DEF QuotaNext, JobStep

-----------------------------------------------------------------------------
\* While the transactions of a Feed follow one another, what is stored is the sum,
\* and the one that has recounted has seen all that will be there.
UsageStands ==
    \A f \in Feeds :
        /\ stored[f] = Sum(Bytes, ArchivedOf(f))
        /\ counting[f] # <<>> =>
              LET t == Head(counting[f])
              IN  /\ Len(counting[f]) = 1
                  /\ t.seen = IF t.to = "archived" THEN ArchivedOf(f) \cup {t.item}
                              ELSE ArchivedOf(f) \ {t.item}

\* Nothing is recounted: the same items are archived.
LEMMA UsageKept ==
    ASSUME UsageStands, UNCHANGED <<stored, counting>>,
           \A i \in Episodes : state'[i] = "archived" <=> state[i] = "archived"
    PROVE  UsageStands'
  <1>1. \A f \in Feeds : ArchivedOf(f)' = ArchivedOf(f)  BY DEF ArchivedOf
  <1> QED  BY <1>1 DEF UsageStands

\* A transaction that is the only one of its Feed sees the archived items, and its own change.
LEMMA UsageCounts ==
    ASSUME QuotaInv, UsageStands, ~Overlapping, NEW i \in Episodes, NEW to \in {"archived", "deleted"},
           Counts(i, to, IF to = "archived" THEN ArchivedOf(FeedOf[i]) \cup {i}
                         ELSE ArchivedOf(FeedOf[i]) \ {i}),
           UNCHANGED <<state, stored>>
    PROVE  UsageStands'
  <1> DEFINE f == FeedOf[i]
             seen == IF to = "archived" THEN ArchivedOf(f) \cup {i} ELSE ArchivedOf(f) \ {i}
             t == [item |-> i, to |-> to, seen |-> seen]
  <1>1. f \in Feeds  BY QuotaAssumption DEF QuotaAssumption
  <1>2. counting[f] = <<>> /\ counting' = [counting EXCEPT ![f] = Append(@, t)]  BY DEF Counts
  <1> HIDE DEF t
  <1>3. counting'[f] = Append(counting[f], t) /\ \A g \in Feeds : g # f => counting'[g] = counting[g]
        BY <1>1, <1>2 DEF QuotaInv, QuotaTypes
  <1>4. counting'[f] = <<t>>  BY <1>2, <1>3
  <1>5. Head(<<t>>) = t /\ Len(<<t>>) = 1  OBVIOUS
  <1>6. \A g \in Feeds : ArchivedOf(g)' = ArchivedOf(g)  BY DEF ArchivedOf
  <1>7. t.item = i /\ t.to = to /\ t.seen = seen  BY DEF t
  <1>8. ASSUME NEW g \in Feeds
        PROVE  /\ stored'[g] = Sum(Bytes, ArchivedOf(g)')
               /\ g # f => /\ counting'[g] = counting[g]
                           /\ ArchivedOf(g)' = ArchivedOf(g)
        BY <1>3, <1>6 DEF UsageStands
  <1>9. Head(counting'[f]).seen = IF Head(counting'[f]).to = "archived"
                                 THEN ArchivedOf(f)' \cup {Head(counting'[f]).item}
                                 ELSE ArchivedOf(f)' \ {Head(counting'[f]).item}
        BY <1>1, <1>4, <1>5, <1>6, <1>7
  <1> QED  BY <1>4, <1>5, <1>8, <1>9 DEF UsageStands

\* What it then writes is the sum of the items archived after its commit.
LEMMA UsageCommits ==
    ASSUME QuotaInv, UsageStands, NEW f \in Feeds, Commit(f)
    PROVE  UsageStands'
  <1> DEFINE t == Head(counting[f])
  <1>1. /\ state' = [state EXCEPT ![t.item] = t.to] /\ counting[f] # <<>>
        /\ stored' = [stored EXCEPT ![f] = Sum(Bytes, t.seen)]
        /\ counting' = [counting EXCEPT ![f] = Tail(@)]
        BY DEF Commit
  <1>2. counting[f] \in Seq(Txn)  BY DEF QuotaInv, QuotaTypes
  <1>3. t \in Txn /\ t = counting[f][1] /\ 1 \in DOMAIN counting[f]
        BY <1>1, <1>2, HeadTailProperties, LenProperties, EmptySeq
  <1>4. t.item \in Episodes /\ FeedOf[t.item] = f /\ t.to \in {"archived", "deleted"}
        BY <1>3 DEF Txn, QuotaInv, TxnsStand
  <1>5. ArchivedOf(f)' = t.seen
    <2>1. t.seen = IF t.to = "archived" THEN ArchivedOf(f) \cup {t.item}
                   ELSE ArchivedOf(f) \ {t.item}
          BY <1>1 DEF UsageStands
    <2>2. \A i \in Episodes : state'[i] = IF i = t.item THEN t.to ELSE state[i]
          BY <1>1, <1>4 DEF QuotaInv, QuotaTypes
    <2>3. \A i \in Episodes : i \in ArchivedOf(f)' <=> FeedOf[i] = f /\ state'[i] = "archived"
          BY DEF ArchivedOf
    <2>4. \A i \in Episodes : i \in ArchivedOf(f) <=> FeedOf[i] = f /\ state[i] = "archived"
          BY DEF ArchivedOf
    <2>5. ArchivedOf(f)' \subseteq Episodes /\ ArchivedOf(f) \subseteq Episodes  BY DEF ArchivedOf
    <2> QED  BY <1>4, <2>1, <2>2, <2>3, <2>4, <2>5
  <1>6. \A g \in Feeds : g # f => ArchivedOf(g)' = ArchivedOf(g)
        BY <1>1, <1>4 DEF ArchivedOf, QuotaInv, QuotaTypes
  <1>7. /\ stored'[f] = Sum(Bytes, t.seen)
        /\ \A g \in Feeds : g # f => stored'[g] = stored[g] /\ counting'[g] = counting[g]
        BY <1>1 DEF QuotaInv, QuotaTypes
  <1>8. counting'[f] = <<>>
    <2>1. Len(counting[f]) = 1  BY <1>1 DEF UsageStands
    <2>2. Tail(counting[f]) \in Seq(Txn) /\ Len(Tail(counting[f])) = 0
          BY <1>1, <1>2, <2>1, HeadTailProperties
    <2>3. Tail(counting[f]) = <<>>  BY <2>2, EmptySeq
    <2> QED  BY <1>1, <2>3 DEF QuotaInv, QuotaTypes
  <1> QED  BY <1>5, <1>6, <1>7, <1>8 DEF UsageStands

\* Rolled back, it leaves the sum of before.
LEMMA UsageRollsBack ==
    ASSUME QuotaInv, UsageStands, NEW f \in Feeds, RollBack(f)
    PROVE  UsageStands'
  <1>1. /\ UNCHANGED <<state, stored>> /\ counting[f] # <<>>
        /\ counting' = [counting EXCEPT ![f] = Tail(@)]
        BY DEF RollBack
  <1>2. counting[f] \in Seq(Txn) /\ Len(counting[f]) = 1
        BY <1>1 DEF QuotaInv, QuotaTypes, UsageStands
  <1>3. Tail(counting[f]) \in Seq(Txn) /\ Len(Tail(counting[f])) = 0
        BY <1>1, <1>2, HeadTailProperties
  <1>4. Tail(counting[f]) = <<>>  BY <1>3, EmptySeq
  <1>5. counting'[f] = <<>> /\ \A g \in Feeds : g # f => counting'[g] = counting[g]
        BY <1>1, <1>4 DEF QuotaInv, QuotaTypes
  <1>6. \A g \in Feeds : ArchivedOf(g)' = ArchivedOf(g)  BY <1>1 DEF ArchivedOf
  <1> QED  BY <1>1, <1>5, <1>6 DEF UsageStands

\* Every step leaves each usage the sum of what is archived, while no two transactions overlap.
LEMMA UsageSteps ==
    ASSUME ~Overlapping, QuotaInv, UsageStands, [QuotaNext]_quotaVars
    PROVE  UsageStands'
  <1> USE DEF QuotaInv, QuotaTypes, States, JobStates
  <1>1. ASSUME NEW i \in Episodes, BecomesDue(i) \/ Requeue(i) \/ Ask(i)  PROVE UsageStands'
        BY <1>1, UsageKept DEF BecomesDue, Requeue, Ask, Becomes
  <1>2. ASSUME NEW i \in Episodes, Delete(i)  PROVE UsageStands'
        BY <1>2, UsageCounts DEF Delete
  <1>3. ASSUME NEW i \in Episodes, Skip(i) \/ StartOver(i) \/ Finish(i)  PROVE UsageStands'
        BY <1>3, UsageKept DEF Skip, StartOver, Finish, Blocks
  <1>4. ASSUME NEW i \in Episodes, Start(i) \/ TooLarge(i) \/ Changed(i)  PROVE UsageStands'
        BY <1>4, UsageKept DEF Start, Becomes, TooLarge, Changed, Blocks
  <1>5. ASSUME NEW i \in Episodes, Fetched(i)  PROVE UsageStands'
        BY <1>5, UsageCounts DEF Fetched
  <1>6. ASSUME NEW i \in Episodes, NEW to \in {"wanted", "failed"}, Fails(i, to)  PROVE UsageStands'
        BY <1>6, UsageKept DEF Fails
  <1>7. ASSUME NEW f \in Feeds, Commit(f)  PROVE UsageStands'  BY <1>7, UsageCommits
  <1>8. ASSUME NEW f \in Feeds, RollBack(f)  PROVE UsageStands'  BY <1>8, UsageRollsBack
  <1>9. CASE ClearBlocks \/ Release  BY <1>9, UsageKept DEF ClearBlocks, Release
  <1>10. ASSUME NEW q \in Quotas, Restart(q)  PROVE UsageStands'  BY <1>10, UsageKept DEF Restart
  <1>11. CASE UNCHANGED quotaVars  BY <1>11, UsageKept DEF quotaVars
  <1> QED  BY <1>1, <1>2, <1>3, <1>4, <1>5, <1>6, <1>7, <1>8, <1>9, <1>10, <1>11
           DEF QuotaNext, JobStep

\* An empty usage is the sum of nothing.
LEMMA UsageStarts == QuotaInit => UsageStands
  <1> SUFFICES ASSUME QuotaInit PROVE UsageStands  OBVIOUS
  <1>1. \A f \in Feeds : ArchivedOf(f) = {}  BY DEF QuotaInit, ArchivedOf
  <1>2. \A f \in Feeds : stored[f] = Sum(Bytes, {}) /\ counting[f] = <<>>  BY DEF QuotaInit
  <1> QED  BY <1>1, <1>2 DEF UsageStands

-----------------------------------------------------------------------------
(* And that is all there is above the quota, or above what was stored when   *)
(* the worker started.                                                       *)
Archived == {i \in Episodes : state[i] = "archived"}
Ceiling == IF base > quota THEN base ELSE quota

\* What is used is what is archived, and nothing that has landed runs again before the
\* Owner has room.
OvershootInv ==
    /\ quota \in Nat /\ base \in Nat /\ landed \cap Running = {}
    /\ Used = Sum(Bytes, Archived)
    /\ Sum(Bytes, Archived) <= Ceiling + Sum(Bytes, landed)

LEMMA BytesAreNumbers ==
    ASSUME NEW S \in SUBSET Episodes
    PROVE  IsFiniteSet(S) /\ (\A i \in Episodes : Bytes[i] \in Nat) /\ Sum(Bytes, S) \in Nat
<1>1. IsFiniteSet(Episodes) /\ \A i \in Episodes : Bytes[i] \in Nat
  BY QuotaAssumption DEF QuotaAssumption
<1> QED
  BY <1>1, SumInNat

\* A Feed stores a number.
LEMMA StoredAreNumbers ==
    ASSUME UsageStands, NEW f \in Feeds
    PROVE  stored[f] \in Nat
<1>1. ArchivedOf(f) \in SUBSET Episodes /\ stored[f] = Sum(Bytes, ArchivedOf(f))
  BY DEF UsageStands, ArchivedOf
<1> QED
  BY <1>1, BytesAreNumbers

LEMMA OvershootStarts == QuotaInit => OvershootInv
<1> SUFFICES ASSUME QuotaInit PROVE OvershootInv
  OBVIOUS
<1>1. landed = {} /\ base = 0 /\ quota \in Nat /\ stored = [f \in Feeds |-> Sum(Bytes, {})]
      /\ Archived = {} /\ Running = {}
  BY QuotaAssumption DEF QuotaAssumption, QuotaInit, Archived, Running
<1>2. Sum(Bytes, {}) = 0
  BY SumSteps, FS_EmptySet
<1>3. Used = 0
  BY <1>1, <1>2, SumOfNothing, QuotaAssumption DEF Used, QuotaAssumption
<1> QED
  BY <1>1, <1>2, <1>3 DEF OvershootInv, Ceiling

\* A step that commits nothing.
LEMMA OvershootKept ==
    ASSUME OvershootInv, UNCHANGED <<stored, quota, base, landed>>,
           \A i \in Episodes : state'[i] = "archived" <=> state[i] = "archived",
           landed \cap Running' = {}
    PROVE  OvershootInv'
<1>1. Archived' = Archived /\ Used' = Used /\ Ceiling' = Ceiling /\ landed' = landed
  BY DEF Archived, Used, Ceiling
<1> QED
  BY <1>1 DEF OvershootInv

\* A transaction that commits: the usage and the real sum move by the same bytes, and an
\* archive that takes them above the quota is among what has landed.
LEMMA OvershootCommits ==
    ASSUME QuotaInv, UsageStands, UsageStands', OvershootInv, NEW f \in Feeds, Commit(f)
    PROVE  OvershootInv'
<1> DEFINE t == Head(counting[f])
           now == [stored EXCEPT ![f] = Sum(Bytes, t.seen)]
<1>1. /\ state' = [state EXCEPT ![t.item] = t.to] /\ counting[f] # <<>> /\ stored' = now
      /\ job' = (IF t.to = "archived" THEN [job EXCEPT ![t.item] = "ending"] ELSE job)
      /\ landed' = (IF Sum(now, Feeds) >= quota
                    THEN landed \cup (IF t.to = "archived" THEN {t.item} ELSE {}) ELSE {})
      /\ UNCHANGED <<quota, base>>
  BY DEF Commit
<1>2. counting[f] \in Seq(Txn)
  BY DEF QuotaInv, QuotaTypes
<1>3. t \in Txn /\ t = counting[f][1] /\ 1 \in DOMAIN counting[f]
  BY <1>1, <1>2, HeadTailProperties, LenProperties, EmptySeq
<1>4. /\ t.item \in Episodes /\ FeedOf[t.item] = f /\ t.to \in {"archived", "deleted"}
      /\ t.to = "archived" => job[t.item] = "running"
  BY <1>3 DEF Txn, QuotaInv, TxnsStand
<1> HIDE DEF t
<1>5. \A i \in Episodes : state'[i] = IF i = t.item THEN t.to ELSE state[i]
  BY <1>1, <1>4 DEF QuotaInv, QuotaTypes
<1>6. /\ Archived' = (IF t.to = "archived" THEN Archived \cup {t.item} ELSE Archived \ {t.item})
      /\ ArchivedOf(f)' = (IF t.to = "archived" THEN ArchivedOf(f) \cup {t.item} ELSE ArchivedOf(f) \ {t.item})
      /\ t.item \in Archived <=> t.item \in ArchivedOf(f)
  BY <1>4, <1>5 DEF Archived, ArchivedOf
<1>7. Archived \in SUBSET Episodes /\ Archived' \in SUBSET Episodes /\ ArchivedOf(f) \in SUBSET Episodes
      /\ ArchivedOf(f)' \in SUBSET Episodes /\ landed \in SUBSET Episodes
  BY DEF Archived, ArchivedOf, QuotaInv, QuotaTypes
<1> DEFINE b == Bytes[t.item]
<1>b. b \in Nat /\ Sum(Bytes, Archived) \in Nat /\ Sum(Bytes, Archived') \in Nat /\ Sum(Bytes, landed) \in Nat
      /\ Sum(Bytes, ArchivedOf(f)) \in Nat /\ Sum(Bytes, ArchivedOf(f)') \in Nat
  BY <1>4, <1>7, BytesAreNumbers
\* How a sum of bytes moves with the item.
<1>8. ASSUME NEW S \in SUBSET Episodes
      PROVE  /\ t.item \notin S => Sum(Bytes, S \cup {t.item}) = b + Sum(Bytes, S)
             /\ t.item \in S => Sum(Bytes, S) = b + Sum(Bytes, S \ {t.item})
  <2>1. IsFiniteSet(S) /\ IsFiniteSet(S \cup {t.item}) /\ \A i \in S \cup {t.item} : Bytes[i] \in Nat
    <3>1. S \cup {t.item} \in SUBSET Episodes
      BY <1>4
    <3> QED
      BY <3>1, BytesAreNumbers
  <2>2. CASE t.item \notin S
    <3>1. (S \cup {t.item}) \ {t.item} = S
      BY <2>2
    <3>2. Sum(Bytes, S \cup {t.item}) = Bytes[t.item] + Sum(Bytes, (S \cup {t.item}) \ {t.item})
      BY <2>1, SumSplits
    <3> QED
      BY <2>2, <3>1, <3>2
  <2>3. CASE t.item \in S
    BY <2>1, <2>3, SumSplits
  <2> QED
    BY <2>2, <2>3
<1>9. \E d \in Int : /\ Sum(Bytes, Archived') = Sum(Bytes, Archived) + d
                     /\ Sum(Bytes, ArchivedOf(f)') = Sum(Bytes, ArchivedOf(f)) + d
                     /\ d = 0 \/ (t.to = "archived" /\ d = b) \/ (t.to = "deleted" /\ d = -b)
  <2>1. CASE t.to = "archived" /\ t.item \notin Archived
    <3>1. Sum(Bytes, Archived') = b + Sum(Bytes, Archived) /\ Sum(Bytes, ArchivedOf(f)') = b + Sum(Bytes, ArchivedOf(f))
      BY <1>6, <1>7, <1>8, <2>1
    <3> QED
      BY <1>b, <2>1, <3>1
  <2>2. CASE t.to # "archived" /\ t.item \in Archived
    <3>1. Sum(Bytes, Archived) = b + Sum(Bytes, Archived') /\ Sum(Bytes, ArchivedOf(f)) = b + Sum(Bytes, ArchivedOf(f)')
      BY <1>6, <1>7, <1>8, <2>2
    <3>2. -b \in Int /\ Sum(Bytes, Archived') = Sum(Bytes, Archived) + (-b)
          /\ Sum(Bytes, ArchivedOf(f)') = Sum(Bytes, ArchivedOf(f)) + (-b)
      <4>1. \A x, y \in Nat : x = b + y => y = x + (-b)
        BY <1>b
      <4>2. -b \in Int
        BY <1>b
      <4> HIDE DEF b
      <4> QED
        BY <1>b, <3>1, <4>1, <4>2
    <3> QED
      BY <1>4, <2>2, <3>2
  <2>3. CASE (t.to = "archived") <=> (t.item \in Archived)
    <3>1. Archived' = Archived /\ ArchivedOf(f)' = ArchivedOf(f)
      BY <1>6, <2>3
    <3>2. 0 \in Int /\ Sum(Bytes, Archived') = Sum(Bytes, Archived) + 0
          /\ Sum(Bytes, ArchivedOf(f)') = Sum(Bytes, ArchivedOf(f)) + 0
      BY <1>b, <3>1
    <3> QED
      BY <3>2
  <2> QED
    BY <2>1, <2>2, <2>3
<1>10. PICK d \in Int : /\ Sum(Bytes, Archived') = Sum(Bytes, Archived) + d
                        /\ Sum(Bytes, ArchivedOf(f)') = Sum(Bytes, ArchivedOf(f)) + d
                        /\ d = 0 \/ (t.to = "archived" /\ d = b) \/ (t.to = "deleted" /\ d = -b)
  BY <1>9
<1>11. Used' = Sum(Bytes, Archived') /\ Used' = Sum(now, Feeds)
  <2>1. \A g \in Feeds : stored[g] \in Nat /\ stored'[g] \in Nat
    <3>1. ASSUME NEW g \in Feeds PROVE stored'[g] \in Nat
      <4>1. ArchivedOf(g)' \in SUBSET Episodes /\ stored'[g] = Sum(Bytes, ArchivedOf(g)')
        BY DEF UsageStands, ArchivedOf
      <4> QED
        BY <4>1, BytesAreNumbers
    <3> QED
      BY <3>1, StoredAreNumbers
  <2>2. \A g \in Feeds \ {f} : stored[g] = stored'[g]
    BY <1>1 DEF QuotaInv, QuotaTypes
  <2>3. Sum(stored, Feeds) + stored'[f] = Sum(stored', Feeds) + stored[f]
    BY <2>1, <2>2, SumChanges, QuotaAssumption DEF QuotaAssumption
  <2>4. stored[f] = Sum(Bytes, ArchivedOf(f)) /\ stored'[f] = Sum(Bytes, ArchivedOf(f)')
    BY DEF UsageStands
  <2>5. Sum(stored, Feeds) = Sum(Bytes, Archived) /\ Used' = Sum(stored', Feeds)
    BY DEF OvershootInv, Used
  <2>6. Sum(stored', Feeds) \in Nat
    <3>1. Feeds \in SUBSET Feeds /\ IsFiniteSet(Feeds)
      BY QuotaAssumption DEF QuotaAssumption
    <3> DEFINE g == stored'
    <3>2. \A x \in Feeds : g[x] \in Nat
      BY <2>1
    <3> HIDE DEF g
    <3>3. Sum(g, Feeds) \in Nat
      BY <3>1, <3>2, SumInNat
    <3> QED
      BY <3>3 DEF g
  <2>7. Sum(stored', Feeds) = Sum(Bytes, Archived')
    BY <2>3, <2>4, <2>5, <2>6, <1>10, <1>b
  <2> QED
    BY <1>1, <2>5, <2>7
<1>12. landed' \cap Running' = {} /\ (t.to = "archived" => t.item \notin landed)
  <2>1. \A i \in Episodes : job'[i] = IF i = t.item /\ t.to = "archived" THEN "ending" ELSE job[i]
    BY <1>1, <1>4 DEF QuotaInv, QuotaTypes
  <2>2. t.to = "archived" => t.item \in Running
    BY <1>4 DEF Running
  <2> QED
    BY <1>1, <2>1, <2>2 DEF OvershootInv, Running
<1>13. quota \in Nat /\ base \in Nat /\ Ceiling \in Nat /\ Ceiling >= quota /\ Ceiling' = Ceiling
  BY <1>1 DEF OvershootInv, Ceiling
<1>14. Sum(Bytes, Archived') <= Ceiling' + Sum(Bytes, landed')
  <2>1. CASE ~(Sum(now, Feeds) >= quota)
    <3>1. landed' = {} /\ Sum(Bytes, {}) = 0
      BY <1>1, <2>1, SumSteps, FS_EmptySet
    <3>2. Sum(Bytes, Archived') < quota
      BY <1>11, <1>13, <1>b, <2>1
    <3>3. Sum(Bytes, landed') = 0
      BY <3>1
    <3> QED
      BY <3>2, <3>3, <1>13, <1>b
  <2>2. CASE Sum(now, Feeds) >= quota /\ t.to = "archived"
    <3>1. landed' = landed \cup {t.item}
      BY <1>1, <2>2
    <3>2. Sum(Bytes, landed') = b + Sum(Bytes, landed)
      BY <1>7, <1>8, <1>12, <2>2, <3>1
    <3>3. d = 0 \/ d = b
      BY <1>10, <2>2
    <3> HIDE DEF b
    <3> QED
      BY <1>10, <1>13, <1>b, <3>2, <3>3 DEF OvershootInv
  <2>3. CASE Sum(now, Feeds) >= quota /\ t.to = "deleted"
    <3>1. landed' = landed
      BY <1>1, <2>3
    <3>2. d = 0 \/ d = -b
      BY <1>10, <2>3
    <3>3. Sum(Bytes, landed') = Sum(Bytes, landed)
      BY <3>1
    <3> HIDE DEF b
    <3> QED
      BY <1>10, <1>13, <1>b, <3>2, <3>3 DEF OvershootInv
  <2> QED
    BY <1>4, <2>1, <2>2, <2>3
<1> HIDE DEF now
<1> QED
  BY <1>1, <1>11, <1>12, <1>13, <1>14 DEF OvershootInv

\* Another worker starts from what is stored.
LEMMA OvershootRestarts ==
    ASSUME UsageStands, OvershootInv, NEW q \in Quotas, Restart(q)
    PROVE  OvershootInv'
<1>1. quota' = q /\ base' = Used /\ landed' = {} /\ UNCHANGED <<state, stored>> /\ q \in Nat
  BY QuotaAssumption DEF Restart, QuotaAssumption
<1>2. Archived' = Archived /\ Used' = Used
  BY <1>1 DEF Archived, Used
<1>3. Sum(Bytes, Archived) \in Nat
  BY BytesAreNumbers DEF Archived
<1>4. Sum(Bytes, {}) = 0
  BY SumSteps, FS_EmptySet
<1> QED
  BY <1>1, <1>2, <1>3, <1>4 DEF OvershootInv, Ceiling

LEMMA OvershootSteps ==
    ASSUME ~Overlapping, QuotaInv, UsageStands, OvershootInv, [QuotaNext]_quotaVars
    PROVE  OvershootInv'
<1> USE DEF QuotaInv, QuotaTypes, States, JobStates
<1>0. landed \cap Running = {}
  BY DEF OvershootInv
<1>1. ASSUME NEW i \in Episodes, BecomesDue(i) \/ Requeue(i) \/ Ask(i) \/ Delete(i) PROVE OvershootInv'
  <2>1. Running' \subseteq Running
    BY <1>1 DEF BecomesDue, Requeue, Ask, Delete, Enqueued, Running
  <2> QED
    BY <1>0, <1>1, <2>1, OvershootKept DEF BecomesDue, Requeue, Ask, Delete, Becomes
<1>2. ASSUME NEW i \in Episodes, Skip(i) \/ StartOver(i) \/ Finish(i) PROVE OvershootInv'
  <2>1. Running' \subseteq Running
    BY <1>2 DEF Skip, StartOver, Finish, Goes, Running
  <2> QED
    BY <1>0, <1>2, <2>1, OvershootKept DEF Skip, StartOver, Finish, Blocks
<1>3. ASSUME NEW i \in Episodes, TooLarge(i) \/ Changed(i) \/ Fetched(i) PROVE OvershootInv'
  <2>1. Running' \subseteq Running
    BY <1>3 DEF TooLarge, Changed, Fetched, Goes, Running
  <2> QED
    BY <1>0, <1>3, <2>1, OvershootKept DEF TooLarge, Changed, Fetched, Blocks
<1>4. ASSUME NEW i \in Episodes, Start(i) PROVE OvershootInv'
  <2>1. landed = {}
    BY <1>4 DEF Start, RoomEmpties
  <2> QED
    BY <1>4, <2>1, OvershootKept DEF Start, Becomes
<1>5. ASSUME NEW i \in Episodes, NEW to \in {"wanted", "failed"}, Fails(i, to) PROVE OvershootInv'
  <2>1. Running' \subseteq Running
    BY <1>5 DEF Fails, Goes, Running
  <2> QED
    BY <1>0, <1>5, <2>1, OvershootKept DEF Fails
<1>6. ASSUME NEW f \in Feeds, Commit(f) PROVE OvershootInv'
  BY <1>6, UsageCommits, OvershootCommits
<1>7. ASSUME NEW f \in Feeds, RollBack(f) PROVE OvershootInv'
  <2>1. Running' \subseteq Running
    BY <1>7 DEF RollBack, Running
  <2> QED
    BY <1>0, <1>7, <2>1, OvershootKept DEF RollBack
<1>8. CASE ClearBlocks \/ Release
  <2>1. Running' \subseteq Running
    BY <1>8 DEF ClearBlocks, Release, Enqueued, Running
  <2> QED
    BY <1>0, <1>8, <2>1, OvershootKept DEF ClearBlocks, Release
<1>9. ASSUME NEW q \in Quotas, Restart(q) PROVE OvershootInv'
  BY <1>9, OvershootRestarts
<1>10. CASE UNCHANGED quotaVars
  BY <1>0, <1>10, OvershootKept DEF quotaVars, Running
<1> QED
  BY <1>1, <1>2, <1>3, <1>4, <1>5, <1>6, <1>7, <1>8, <1>9, <1>10 DEF QuotaNext, JobStep

LEMMA OvershootSuffices == QuotaInv /\ OvershootInv => OvershootBounded
BY DEF QuotaInv, OvershootInv, OvershootBounded, Archived, Ceiling

-----------------------------------------------------------------------------
(* The theorems: a step is about one of the two.                             *)

\* Whose step it is.
LEMMA OneSide == [Next]_vars => [CatalogNext]_catalogVars /\ [QuotaNext]_quotaVars
BY DEF Next, OfCatalog, OfQuota, vars

\* While the cooldown and the deadlines keep listings from overtaking each other, no
\* conditional GET that would be answered 304 stands for a listing the Catalog has not
\* applied, and a Mirror that was refreshed has had some version of its Source whole
\* (worker/jobs/refresh.py, application/services/light_refresh.py).
THEOREM ListingsKept ==
    ASSUME ~Overlap
    PROVE  Spec => []NoLostListing
<1>1. Init => CatalogInv
  BY CatalogStarts DEF Init
<1>2. CatalogInv /\ [Next]_vars => CatalogInv'
  BY CatalogHolds, OneSide
<1> QED
  BY <1>1, <1>2, CatalogSuffices, PTL DEF Spec

\* Whatever Requests come later, and however their jobs fail, stop and start again, a row
\* leaves the list of a Bucket by a deletion only (worker/jobs/expand_request.py,
\* relist_hidden).
THEOREM BucketListsKept ==
    ASSUME ~Overlap
    PROVE  Spec => BucketKeeps
<1>1. Init => CatalogInv
  BY CatalogStarts DEF Init
<1>2. CatalogInv /\ [Next]_vars => CatalogInv' /\ [ListKept]_catalogVars
  BY CatalogHolds, OneSide
<1>3. BucketKeeps <=> [][ListKept]_catalogVars
  BY DEF BucketKeeps, ListKept
<1> QED
  BY <1>1, <1>2, <1>3, PTL DEF Spec

\* What lands above the quota (worker/jobs/archive_item.py, run) was in flight
\* when the Owner last had room: no more than the worker has slots.
THEOREM SlotsBounded == Spec => []SlotsBound
<1>1. Init => QuotaInv
  BY QuotaStarts DEF Init
<1>2. QuotaInv /\ [Next]_vars => QuotaInv'
  BY QuotaHolds, OneSide
<1>3. QuotaInv => SlotsBound
  BY DEF QuotaInv
<1> QED
  BY <1>1, <1>2, <1>3, PTL DEF Spec

\* What recount_storage (adapters/db/repositories/feeds.py) stores is the sum of
\* what is archived, were the transactions that recount a Feed ordered.
THEOREM OrderedUsageIsTheSum ==
    ASSUME ~Overlapping
    PROVE  Spec => []UsageIsTheSum
<1>1. Init => QuotaInv /\ UsageStands
  BY QuotaStarts, UsageStarts DEF Init
<1>2. QuotaInv /\ UsageStands /\ [Next]_vars => QuotaInv' /\ UsageStands'
  BY QuotaHolds, UsageSteps, OneSide
<1>3. UsageStands => UsageIsTheSum
  BY DEF UsageStands, UsageIsTheSum
<1> QED
  BY <1>1, <1>2, <1>3, PTL DEF Spec

\* What is archived beyond the quota, or beyond what was stored when a worker started with
\* a smaller one, is what was in flight when the Owner last had room, an archive per slot
\* (archive_item.py, run), were the transactions that recount a Feed ordered.
THEOREM OvershootIsInFlight ==
    ASSUME ~Overlapping
    PROVE  Spec => []OvershootBounded
<1> DEFINE Inv == QuotaInv /\ UsageStands /\ OvershootInv
<1>1. Init => Inv
  BY QuotaStarts, UsageStarts, OvershootStarts DEF Init
<1>2. Inv /\ [Next]_vars => Inv'
  BY QuotaHolds, UsageSteps, OvershootSteps, OneSide
<1>3. Inv => OvershootBounded
  BY OvershootSuffices
<1> HIDE DEF Inv
<1> QED
  BY <1>1, <1>2, <1>3, PTL DEF Spec
=============================================================================
