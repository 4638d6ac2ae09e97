------------------------------- MODULE Probe -------------------------------
(***************************************************************************)
(* From what a user pastes to the Sources behind it (adapters/sources/     *)
(* probe.py, discovery.py, directories.py), and from an RSS Source to its  *)
(* items, page after page (adapters/sources/rss.py).  Whatever is fetched  *)
(* answers as it likes, the second time as well.                           *)
(***************************************************************************)
EXTENDS Integers, Sequences, SequencesExt, FiniteSets

CONSTANTS
    Links,          \* what a page or a directory may advertise
    Normal,         \* normalize_source_url of each
    VERIFY_LIMIT,   \* MAX_VERIFIED_LINKS
    Pages,          \* URLs of an RSS Source and of the pages it names next
    SourceKeys,           \* source keys of items
    PageItems,      \* bound: items a page lists
    MAX_PAGES

ASSUME ProbeAssumption ==
    /\ IsFiniteSet(Links) /\ Normal \in [Links -> Links] /\ VERIFY_LIMIT \in Nat \ {0}
    /\ PageItems \in Nat /\ MAX_PAGES \in Nat \ {0}

VARIABLES
    lookup,     \* the probe: what is left to try, what it found
    heard,      \* what each URL has answered the probe
    walk,       \* the fetch of an RSS Source
    pagesRead   \* the pages it read, as they were

probeVars == <<lookup, heard, walk, pagesRead>>

Inputs == {"url", "bare", "youtube", "directory"}
Advertised == {s \in UNION {[1..n -> Links] : n \in 0..Cardinality(Links)} : IsInjective(s)}
Listed == {s \in UNION {[1..n -> SourceKeys] : n \in 0..PageItems} : IsInjective(s)}
Verifiable(links) == IF Len(links) > VERIFY_LIMIT THEN SubSeq(links, 1, VERIFY_LIMIT) ELSE links
NoWalk == [at |-> "idle"]

\* scheme_candidates; a YouTube channel is its Videos tab.
Candidates(input) == CASE input = "bare" -> <<"https", "http">> [] input = "youtube" -> <<"tab">> [] OTHER -> <<"given">>

ProbeInit ==
    /\ lookup = [at |-> "idle"] /\ heard = {}
    /\ walk = NoWalk /\ pagesRead = <<>>

-----------------------------------------------------------------------------
(* probe                                                                    *)
Over(outcome, entries) == [at |-> "over", input |-> lookup.input, outcome |-> outcome, entries |-> entries]
To(at, left) == [at |-> at, input |-> lookup.input, left |-> left, entries |-> <<>>, seen |-> {}, tried |-> lookup.tried]
Hears(url, said) == heard' = heard \cup {<<url, said>>}

\* The directory fails, or names feeds.
StartProbe(input) ==
    /\ lookup.at = "idle" /\ walk = NoWalk
    /\ \E links \in IF input = "directory" THEN Advertised ELSE {Candidates(input)} :
         lookup' = [at |-> CASE input = "directory" -> "verifying" [] input = "youtube" -> "listing" [] OTHER -> "fetching",
                    input |-> input, tried |-> FALSE, entries |-> <<>>, seen |-> {},
                    left |-> IF input = "directory" THEN Verifiable(links) ELSE links]
    /\ UNCHANGED <<heard, walk, pagesRead>>

\* With an answer of any kind only the first address is left to the Engine.
Engines == IF lookup.tried THEN <<Candidates(lookup.input)[1]>> ELSE Candidates(lookup.input)

\* The first address that answers decides.
Fetch ==
    /\ lookup.at = "fetching" /\ lookup.left # <<>>
    /\ LET url == Head(lookup.left)
           tried == [lookup EXCEPT !.tried = TRUE] IN
       \/ Hears(url, "error") /\ lookup' = [lookup EXCEPT !.left = Tail(@)]
       \/ Hears(url, "refused") /\ lookup' = Over("refused", <<>>)
       \/ Hears(url, "media") /\ lookup' = Over("unsupported", <<>>)
       \/ Hears(url, "rss") /\ lookup' = Over("candidates", <<url>>)
       \/ Hears(url, "other") /\ lookup' = [tried EXCEPT !.left = <<>>]
       \/ Hears(url, "html") /\ \E links \in Advertised :
            lookup' = [tried EXCEPT !.at = "verifying", !.left = Verifiable(links)]
    /\ UNCHANGED <<walk, pagesRead>>

FetchOver ==
    /\ lookup.at = "fetching" /\ lookup.left = <<>>
    /\ lookup' = To("listing", Engines)
    /\ UNCHANGED <<heard, walk, pagesRead>>

\* A refused link fails the probe like a refused input.
PassedOverButRefused == {"error", "other"}

\* What _verify_links passes over, the links the guard refuses among them.
PassedOver == {"error", "other", "refused"}

VerifyLink ==
    /\ lookup.at = "verifying" /\ lookup.left # <<>>
    /\ LET link == Head(lookup.left)
           next == [lookup EXCEPT !.left = Tail(@), !.seen = @ \cup {Normal[link]}] IN
       IF Normal[link] \in lookup.seen THEN lookup' = next /\ UNCHANGED heard
       ELSE \/ Hears(link, "rss") /\ lookup' = [next EXCEPT !.entries = Append(@, link)]
            \/ \E said \in {"error", "other", "refused"} :
                 /\ Hears(link, said)
                 /\ lookup' = IF said \in PassedOver THEN next ELSE Over("refused", <<>>)
    /\ UNCHANGED <<walk, pagesRead>>

Verified ==
    /\ lookup.at = "verifying" /\ lookup.left = <<>>
    /\ lookup' = IF lookup.entries # <<>> THEN Over("candidates", lookup.entries)
                 ELSE IF lookup.input = "directory" THEN Over("unsupported", <<>>) ELSE To("listing", Engines)
    /\ UNCHANGED <<heard, walk, pagesRead>>

\* _ytdlp_entries: the first address the Engine lists something for.
List ==
    /\ lookup.at = "listing" /\ lookup.left # <<>>
    /\ LET url == Head(lookup.left) IN
       \/ Hears(url, "listed") /\ lookup' = Over("candidates", <<url>>)
       \/ \E said \in {"nothing", "error"} : Hears(url, said) /\ lookup' = [lookup EXCEPT !.left = Tail(@)]
       \/ Hears(url, "refused") /\ lookup' = Over("refused", <<>>)
    /\ UNCHANGED <<walk, pagesRead>>

NothingFits ==
    /\ lookup.at = "listing" /\ lookup.left = <<>>
    /\ lookup' = Over("unsupported", <<>>)
    /\ UNCHANGED <<heard, walk, pagesRead>>

-----------------------------------------------------------------------------
(* fetch_feed and _follow_pages                                             *)

\* A document's next link may be any page, itself among them.
Document == [final : Pages, items : Listed, next : Pages \cup {"none"}]

Positioned(items, from) == [i \in DOMAIN items |-> [key |-> items[i], position |-> from + i - 1]]

\* The first page is the Source itself; only there a validator may answer 304.
fetch_feed(follow) ==
    /\ walk = NoWalk /\ lookup.at = "idle"
    /\ \/ \E said \in {"not-modified", "refused", "error"} :
            walk' = [at |-> "over", outcome |-> said, items |-> <<>>, pages |-> 0] /\ UNCHANGED pagesRead
       \/ \E doc \in Document :
            /\ walk' = [at |-> "walking", outcome |-> "none", items |-> Positioned(doc.items, 0), pages |-> 1,
                        visited |-> {doc.final}, next |-> IF follow THEN doc.next ELSE "none"]
            /\ pagesRead' = <<doc.items>>
    /\ UNCHANGED <<lookup, heard>>

WalkOver(outcome, items) == walk' = [at |-> "over", outcome |-> outcome, items |-> items, pages |-> walk.pages]
More == walk.next # "none" /\ walk.pages < MAX_PAGES /\ walk.next \notin walk.visited

\* Items of earlier pages are known by their keys.
Walked(key) == \E i \in DOMAIN walk.items : walk.items[i].key = key
Fresh(items) ==
    LET kept[n \in 0..Len(items)] ==
          IF n = 0 THEN <<>> ELSE IF Walked(items[n]) THEN kept[n - 1] ELSE Append(kept[n - 1], items[n])
    IN  kept[Len(items)]

\* What ends the walk leaves the pages before it; another error fails all of it.
FollowPage ==
    /\ walk.at = "walking" /\ More
    /\ \/ \E said \in {"too large", "no feed", "refused"} : WalkOver("done", walk.items) /\ UNCHANGED pagesRead
       \/ WalkOver("error", <<>>) /\ UNCHANGED pagesRead
       \/ \E doc \in Document :
            /\ walk' = [walk EXCEPT !.visited = @ \cup {walk.next}, !.pages = @ + 1, !.next = doc.next,
                          !.items = @ \o Positioned(Fresh(doc.items), Len(@))]
            /\ pagesRead' = Append(pagesRead, doc.items)
    /\ UNCHANGED <<lookup, heard>>

WalkEnds ==
    /\ walk.at = "walking" /\ ~More
    /\ WalkOver("done", walk.items)
    /\ UNCHANGED <<lookup, heard, pagesRead>>

ProbeNext ==
    \/ \E input \in Inputs : StartProbe(input)
    \/ Fetch \/ FetchOver \/ VerifyLink \/ Verified \/ List \/ NothingFits
    \/ \E follow \in BOOLEAN : fetch_feed(follow)
    \/ FollowPage \/ WalkEnds

-----------------------------------------------------------------------------
\* A probe offers what was fetched and is RSS, or what the Engine lists, each Source once;
\* it is refused only for what was pasted, never for a link of somebody else's page; and it
\* finds nothing only when nothing it heard would do.
CandidatesTrue ==
    lookup.at = "over" =>
        /\ \A i \in DOMAIN lookup.entries :
             heard \cap {<<lookup.entries[i], "rss">>, <<lookup.entries[i], "listed">>} # {}
        /\ \A i, j \in DOMAIN lookup.entries :
             {lookup.entries[i], lookup.entries[j]} \subseteq Links
               /\ Normal[lookup.entries[i]] = Normal[lookup.entries[j]] => i = j
        /\ lookup.outcome = "refused" =>
             \E i \in DOMAIN Candidates(lookup.input) : <<Candidates(lookup.input)[i], "refused">> \in heard
        /\ lookup.outcome = "unsupported" => \A h \in heard : h[2] \notin {"rss", "listed"}

\* A walk lists what the pages it read list, in their order, each item once and at its
\* place; a page too many, a cycle or a refused page ends it without losing any of them.
PagesMerged ==
    walk.at = "over" /\ walk.outcome = "done" =>
        LET keys == [i \in DOMAIN walk.items |-> walk.items[i].key]
            page(key) == SelectInSeq(pagesRead, LAMBDA items : Contains(items, key)) IN
        /\ Len(pagesRead) \in 1..MAX_PAGES
        /\ Range(keys) = UNION {Range(pagesRead[i]) : i \in DOMAIN pagesRead} /\ IsInjective(keys)
        /\ \A i \in DOMAIN walk.items : walk.items[i].position = i - 1
        /\ \A i, j \in DOMAIN keys : i < j => page(keys[i]) <= page(keys[j])

\* What a user pastes, and what a Refresh lists first, is told truly.
ProbeTruthful == CandidatesTrue /\ PagesMerged
=============================================================================
