----------------------------- MODULE Selections -----------------------------
(***************************************************************************)
(* The numbers people say: how a Mirror's listings number and date the     *)
(* items of its Catalog (domain/ordinals.py, adapters/sources/             *)
(* youtube_feed.py, upsert_listing) and what "1-42, 180" then archives     *)
(* (domain/selection.py, application/services/mirrors.py and items.py).    *)
(***************************************************************************)
EXTENDS Integers, Sequences, SequencesExt, FiniteSets, Functions

CONSTANTS
    Videos,         \* what a Source may list; source keys
    TrueDate,       \* when each was published
    Unrecorded,     \* those that are still streams
    SourceKinds,    \* of the Mirror, for the start: rss, channel, playlist
    Guesses,        \* the dates a flat listing may give, 0 for none
    Episode,        \* the itunes:episode of each, 0 for none
    FEED_ENTRIES,   \* the entries of YouTube's Atom feed
    MAX_SELECTION_SIZE,
    Selectable,     \* the selections users make: an expression, item ids, a numbering
    Efforts         \* bounds, for the start: listings, and what users do

\* What a request must give.
NonEmpty(request) == request.text.given \/ request.idents # <<>>

\* A token is a number or range <<lo, hi>>, or <<>> when it is neither.
ASSUME SelectionsAssumption ==
    /\ IsFiniteSet(Videos) /\ TrueDate \in [Videos -> Nat \ {0}] /\ Unrecorded \subseteq Videos
    /\ SourceKinds \subseteq {"rss", "channel", "playlist"}
    /\ Guesses \subseteq [Videos -> Nat] /\ Episode \in [Videos -> Nat]
    /\ {FEED_ENTRIES, MAX_SELECTION_SIZE} \subseteq Nat
    /\ Selectable \subseteq [text : [given : BOOLEAN, tokens : Seq({<<>>} \cup Nat \X Nat)],
                             idents : Seq(Videos \cup {"ghost"}),
                             numbering : {"source", "ordinal"}, dry_run : BOOLEAN]
    /\ \A request \in Selectable : NonEmpty(request)
    /\ Efforts \subseteq [listings : Nat, acts : Nat]

VARIABLES
    sort,       \* the kind of the Mirror's Source
    entry,      \* its Catalog
    queued,     \* the items with an active archive job
    picked,     \* the selection answered last, forgotten at the next step
    bulk,       \* archive_available or retry_failed between its transactions
    effort      \* what remains of the bounds

selectionVars == <<sort, entry, queued, picked, bulk, effort>>

NoEntry == [ordinal |-> 0, number |-> 0, date |-> 0, approximate |-> FALSE,
            state |-> "none", listed |-> FALSE]
NoPick == [outcome |-> "none"]
NoBulk == [at |-> "idle"]
InCatalog == {v \in Videos : entry[v].ordinal # 0}
Costs(what) == effort[what] > 0 /\ effort' = [effort EXCEPT ![what] = @ - 1]

SelectionsInit ==
    /\ sort \in SourceKinds
    /\ entry = [v \in Videos |-> NoEntry] /\ queued = {}
    /\ picked = NoPick /\ bulk = NoBulk
    /\ effort \in Efforts

-----------------------------------------------------------------------------
(* A listing.                                                               *)

listing_order == IF sort = "playlist" THEN "oldest_first" ELSE "newest_first"

\* What the Source may serve: a playlist in any order, the others by date.
Served == {s \in UNION {[1..n -> Videos] : n \in 1..Cardinality(Videos)} :
              /\ IsInjective(s)
              /\ sort # "playlist" => \A i, j \in DOMAIN s : i < j => TrueDate[s[i]] > TrueDate[s[j]]}

Position(served, v) == CHOOSE i \in DOMAIN served : served[i] = v

\* parse_item: a document's dates are exact.  normalize: a flat entry's are
\* not, and its number is its place in a playlist.
Normalized(served, guess) ==
    [v \in Range(served) |->
        [number |-> CASE sort = "rss" -> Episode[v]
                      [] sort = "playlist" -> Position(served, v)
                      [] OTHER -> 0,
         date   |-> IF sort = "rss" /\ guess[v] # 0 THEN TrueDate[v] ELSE guess[v],
         exact  |-> sort = "rss" \/ guess[v] = 0]]

\* parse_channel_feed: the channel's newest videos, or the playlist's first.
FeedEntries(served) == {served[i] : i \in DOMAIN served \cap 1..FEED_ENTRIES}

\* enrich_listing
Enriched(listing, videos) ==
    [v \in DOMAIN listing |->
        IF v \in videos THEN [listing[v] EXCEPT !.date = TrueDate[v], !.exact = TRUE]
        ELSE listing[v]]

ByPosition(served, v, w) ==
    IF listing_order = "newest_first" THEN Position(served, v) > Position(served, w)
                                      ELSE Position(served, v) < Position(served, w)

\* order_oldest_first, of the items a listing brings: v comes before w.
OldestFirst(served, listing, brought, v, w) ==
    IF \A u \in brought : listing[u].date # 0
    THEN \/ listing[v].date < listing[w].date
         \/ listing[v].date = listing[w].date /\ ByPosition(served, v, w)
    ELSE ByPosition(served, v, w)

\* assign_ordinals: from the highest there is (max_ordinal).
MaxOrdinal == LET given == {entry[v].ordinal : v \in Videos} IN CHOOSE n \in given : \A m \in given : m <= n
AssignOrdinals(served, listing) ==
    LET brought == Range(served) \ InCatalog
        before(v) == {w \in brought : OldestFirst(served, listing, brought, w, v)} IN
    [v \in brought |-> MaxOrdinal + Cardinality(before(v)) + 1]

\* _metadata_values, of a new row.
NewEntry(found, ordinal) ==
    [ordinal |-> ordinal, number |-> found.number, date |-> found.date,
     approximate |-> found.date # 0 /\ ~found.exact, state |-> "available", listed |-> TRUE]

\* mutant: the approximate date of each listing replaces the date there is
RedatedByAll(row, found) == [date |-> IF found.date # 0 THEN found.date ELSE row.date,
                             approximate |-> IF found.date # 0 THEN ~found.exact ELSE row.approximate]

\* _refresh_values: an exact date replaces, an approximate one only fills a blank.
Redated(row, found) ==
    [date        |-> IF found.date # 0 /\ (found.exact \/ row.date = 0) THEN found.date ELSE row.date,
     approximate |-> IF found.date # 0 /\ (found.exact \/ row.date = 0) THEN ~found.exact ELSE row.approximate]

\* _REFRESH_STMT; a first page (_REFRESH_PARTIAL_STMT) leaves the number.
Refreshed(row, found, partial) ==
    [row EXCEPT !.listed = TRUE, !.number = IF partial THEN @ ELSE found.number,
                !.date = Redated(row, found).date, !.approximate = Redated(row, found).approximate]

\* upsert_listing.  Only a channel's first page is partial.
ListSource ==
    \E served \in Served, guess \in Guesses, fed \in BOOLEAN, partial \in BOOLEAN :
        LET flat    == Normalized(served, guess)
            listing == IF fed THEN Enriched(flat, FeedEntries(served)) ELSE flat
            numbers == AssignOrdinals(served, listing) IN
        /\ Costs("listings")
        /\ sort = "rss" => ~fed
        /\ partial => sort = "channel"
        /\ entry' = [v \in Videos |->
               IF v \in DOMAIN numbers THEN NewEntry(listing[v], numbers[v])
               ELSE IF v \in Range(served) THEN Refreshed(entry[v], listing[v], partial)
               ELSE IF partial THEN entry[v] ELSE [entry[v] EXCEPT !.listed = FALSE]]
        /\ picked' = NoPick
        /\ UNCHANGED <<sort, queued, bulk>>

-----------------------------------------------------------------------------
(* A selection.                                                             *)

\* The numbers of a range that were not seen yet, in their order.
Seen(numbers, n) == IF Contains(numbers, n) THEN numbers ELSE Append(numbers, n)
Span(numbers, lo, hi) ==
    LET upTo[i \in 0..(hi - lo + 1)] == IF i = 0 THEN numbers ELSE Seen(upTo[i - 1], lo + i - 1)
    IN  upTo[hi - lo + 1]

\* One token of parse_selection.
ParseToken(parsed, token) ==
    IF \/ token = <<>>
       \/ token[1] > token[2]
       \/ token[1] < 1
       \/ token[2] - token[1] + 1 + Len(parsed.numbers) > MAX_SELECTION_SIZE
    THEN [parsed EXCEPT !.errors = Append(@, token)]
    ELSE [parsed EXCEPT !.numbers = Span(@, token[1], token[2])]

ParseSelection(text) ==
    LET parsed[i \in 0..Len(text.tokens)] ==
            IF i = 0 THEN [numbers |-> <<>>, errors |-> <<>>]
            ELSE ParseToken(parsed[i - 1], text.tokens[i])
        all == parsed[Len(text.tokens)] IN
    IF text.given /\ text.tokens = <<>> THEN [all EXCEPT !.errors = <<"empty">>] ELSE all

\* The candidates a number means.
BySource(n)  == {v \in InCatalog : entry[v].number = n}
ByOrdinal(n) == {v \in InCatalog : entry[v].ordinal = n}
Meant(n, numbering) ==
    IF numbering = "source" /\ Cardinality(BySource(n)) = 1 THEN BySource(n) ELSE ByOrdinal(n)

Take(found, candidates, asked) ==
    IF candidates = {} THEN [found EXCEPT !.unresolved = Append(@, asked)]
    ELSE LET v == CHOOSE w \in candidates : TRUE IN
         IF Contains(found.resolved, v) THEN found ELSE [found EXCEPT !.resolved = Append(@, v)]

\* resolve_selection, over selection_candidates: the numbers, then the ids.
Requested(numbers, idents) == [i \in 1..Len(numbers) |-> <<"number", numbers[i]>>]
                              \o [i \in 1..Len(idents) |-> <<"id", idents[i]>>]
AskedFor(asked, numbering) ==
    IF asked[1] = "number" THEN Meant(asked[2], numbering) ELSE InCatalog \cap {asked[2]}
Nothing == [resolved |-> <<>>, unresolved |-> <<>>]
ResolveSelection(asked, numbering) ==
    LET found[i \in 0..Len(asked)] ==
            IF i = 0 THEN Nothing ELSE Take(found[i - 1], AskedFor(asked[i], numbering), asked[i])
    IN  found[Len(asked)]

\* set_wanted.  A blocked item is wanted and loses its block (on_manual_wanted).
Rewanted(row, v) == row.state \in {"available", "deleted", "failed"} /\ v \notin Unrecorded
WantManually(table, chosen) ==
    [v \in Videos |-> IF v \in chosen /\ (Rewanted(table[v], v) \/ table[v].state = "blocked")
                      THEN [table[v] EXCEPT !.state = "wanted"] ELSE table[v]]

Responds(request, outcome, found) ==
    picked' = [request |-> request, outcome |-> outcome, resolved |-> found.resolved,
               unresolved |-> found.unresolved,
               already |-> Cardinality({v \in Range(found.resolved) : entry[v].state = "archived"})]

\* _apply_selection; each wanted item gets a job or keeps its own (enqueue_archive).
ApplySelection(request, strict) ==
    LET parsed == ParseSelection(request.text)
        found  == ResolveSelection(Requested(parsed.numbers, request.idents), request.numbering)
        chosen == Range(found.resolved)
        table  == WantManually(entry, chosen) IN
    IF parsed.errors # <<>> THEN Responds(request, "invalid", Nothing) /\ UNCHANGED <<entry, queued>>
    ELSE IF request.dry_run THEN Responds(request, "dry", found) /\ UNCHANGED <<entry, queued>>
    ELSE IF strict /\ chosen = {} THEN Responds(request, "invalid", found) /\ UNCHANGED <<entry, queued>>
    ELSE /\ Responds(request, "done", found)
         /\ entry' = table
         /\ queued' = queued \cup {v \in chosen : table[v].state = "wanted"}

\* select_items; an Owner over the quota is refused unless it only asks.
SelectItems ==
    \E request \in Selectable :
        /\ Costs("acts")
        /\ ApplySelection(request, TRUE)
        /\ UNCHANGED <<sort, bulk>>

\* available_ids with the Tombstones, ids_in_state
AvailableIds == {v \in InCatalog \ Unrecorded :
                    entry[v].listed /\ entry[v].state \in {"available", "deleted"}}
FailedIds == {v \in InCatalog : entry[v].state = "failed"}

\* One transaction finds the items ...
Found(ids) ==
    /\ Costs("acts") /\ bulk = NoBulk
    /\ bulk' = [at |-> "found", ids |-> ids]
    /\ picked' = NoPick
    /\ UNCHANGED <<sort, entry, queued>>
ArchiveAvailable == Found(AvailableIds)
RetryFailed      == Found(FailedIds)

\* ... and another selects them (_archive_ids), whatever they are by then.
ArchiveIds ==
    /\ bulk # NoBulk
    /\ ApplySelection([text |-> [given |-> FALSE, tokens |-> <<>>], idents |-> SetToSeq(bulk.ids),
                       numbering |-> "source", dry_run |-> FALSE], FALSE)
    /\ bulk' = NoBulk
    /\ UNCHANGED <<sort, effort>>

-----------------------------------------------------------------------------
(* What happens to the items meanwhile.                                     *)

\* What the full info of a fetch says of the date; an RSS item's is made of its row.
InfoDate(v) == IF sort = "rss" THEN entry[v].date ELSE TrueDate[v]

\* fill_metadata: such a date is exact.
Dated(row, date) == IF date = 0 THEN row ELSE [row EXCEPT !.date = date, !.approximate = FALSE]

\* An archive job, from its claim to its end.
JobEnds(v) ==
    /\ v \in queued
    /\ queued' = queued \ {v}
    /\ \/ entry' = [entry EXCEPT ![v] = [Dated(@, InfoDate(v)) EXCEPT !.state = "archived"]]
       \/ \E s \in {"failed", "blocked"} : entry' = [entry EXCEPT ![v].state = s]
    /\ picked' = NoPick
    /\ UNCHANGED <<sort, bulk, effort>>

\* delete_item: the job is cancelled, a Mirror's row stays listed.
DeleteItem(v) ==
    /\ Costs("acts") /\ v \in InCatalog
    /\ entry' = [entry EXCEPT ![v].state = "deleted", ![v].listed = TRUE]
    /\ queued' = queued \ {v}
    /\ picked' = NoPick
    /\ UNCHANGED <<sort, bulk>>

FetchItemMetadata(v) ==
    /\ Costs("acts") /\ v \in InCatalog
    /\ entry' = [entry EXCEPT ![v] = Dated(@, TrueDate[v])]
    /\ picked' = NoPick
    /\ UNCHANGED <<sort, queued, bulk>>

SelectionsNext ==
    \/ ListSource \/ SelectItems \/ ArchiveIds
    \/ ArchiveAvailable \/ RetryFailed
    \/ \E v \in Videos : JobEnds(v) \/ DeleteItem(v) \/ FetchItemMetadata(v)

-----------------------------------------------------------------------------
\* An item keeps its Ordinal for good and shares it with none; what a listing
\* brings is numbered after all there was, the older item first.
OrdinalsStand ==
    LET brought == {v \in Videos : entry[v].ordinal = 0 /\ entry'[v].ordinal # 0}
        dated   == \A v \in brought : entry'[v].date # 0
        older(v, w) == IF dated THEN entry'[v].date < entry'[w].date
                       ELSE IF sort = "playlist" THEN entry'[v].number < entry'[w].number
                       ELSE TrueDate[v] < TrueDate[w] IN
    /\ \A v \in InCatalog : entry'[v].ordinal = entry[v].ordinal
    /\ \A v, w \in Videos : v # w /\ entry'[v].ordinal # 0 => entry'[v].ordinal # entry'[w].ordinal
    /\ \A v \in InCatalog, w \in brought : entry[v].ordinal < entry'[w].ordinal
    /\ \A v, w \in brought : older(v, w) => entry'[v].ordinal < entry'[w].ordinal

\* A date that is called exact is the true one and stays; one that is not
\* changes once at most, for the exact one, and never drifts from listing to listing.
DatesStand ==
    \A v \in Videos :
        /\ entry'[v].date # 0 /\ ~entry'[v].approximate => entry'[v].date = TrueDate[v]
        /\ entry[v].date # 0 => \/ entry'[v].date = entry[v].date /\ (entry'[v].approximate => entry[v].approximate)
                                \/ entry[v].approximate /\ ~entry'[v].approximate

\* What a selection means, without the order it is worked out in.
Denoted(text) == UNION {text.tokens[i][1]..text.tokens[i][2] : i \in DOMAIN text.tokens}
WellFormed(text) ==
    /\ \A i \in DOMAIN text.tokens : text.tokens[i] # <<>> /\ 1 <= text.tokens[i][1] /\ text.tokens[i][1] <= text.tokens[i][2]
    /\ text.given => text.tokens # <<>>
TooLarge(text) ==
    \E i \in DOMAIN text.tokens :
        Cardinality(Denoted([text EXCEPT !.tokens = SubSeq(@, 1, i - 1)])) + text.tokens[i][2]
            - text.tokens[i][1] >= MAX_SELECTION_SIZE
Named(request) ==
    (Range(request.idents) \cap InCatalog) \cup UNION {Meant(n, request.numbering) : n \in Denoted(request.text)}

\* A selection archives exactly what it names: each item of it that can be and
\* is not yet archived has a job afterwards, no other item is touched, each
\* number it cannot place is reported; a dry run or an error leaves everything.
SelectedExactly ==
    picked' # NoPick /\ picked' # picked =>
        LET request == picked'.request
            named   == Named(request) IN
        IF picked'.outcome = "invalid"
        THEN /\ entry' = entry /\ queued' = queued
             /\ ~WellFormed(request.text) \/ TooLarge(request.text) \/ named = {}
        ELSE /\ WellFormed(request.text) /\ ~TooLarge(request.text)
             /\ Range(picked'.resolved) = named /\ IsInjective(picked'.resolved)
             /\ picked'.already = Cardinality({v \in named : entry[v].state = "archived"})
             /\ \A n \in Denoted(request.text) :
                   Contains(picked'.unresolved, <<"number", n>>) <=> Meant(n, request.numbering) = {}
             /\ IF picked'.outcome = "dry" THEN entry' = entry /\ queued' = queued
                ELSE /\ \A v \in Videos \ named : entry'[v] = entry[v] /\ (v \in queued' <=> v \in queued)
                     /\ \A v \in named :
                           /\ entry[v].state = "archived" => entry'[v] = entry[v]
                           /\ entry[v].state # "archived" /\ v \notin Unrecorded =>
                                 entry'[v].state = "wanted" /\ v \in queued'

SelectionsTrue == [][OrdinalsStand /\ DatesStand /\ SelectedExactly]_selectionVars
=============================================================================
