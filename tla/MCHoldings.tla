---------------------------- MODULE MCHoldings -----------------------------
(***************************************************************************)
(* Catalog: a Source of two items.  Its second version drops the item its  *)
(* first page had and brings the other forward from the pages after it.    *)
(* Quota: three Episodes of two Feeds, a large one, a small one and an     *)
(* enclosure of unknown size.                                              *)
(***************************************************************************)
EXTENDS Holdings, TLC

CONSTANTS i1, i2, r1, r2

MCFirst   == <<{i1}, {i2}>>
MCRest    == <<{i2}, {}>>
MCStreams == <<{}, {}>>
MCWants   == r1 :> {i1} @@ r2 :> {i1, i2}

\* A Source that keeps two pages.
MCPagedFirst == <<{i1}, {i1}>>
MCPagedRest  == <<{i2}, {i2}>>

MCFeedOf    == "large" :> "f" @@ "small" :> "f" @@ "enclosure" :> "g"
MCBytes     == "large" :> 3 @@ "small" :> 1 @@ "enclosure" :> 2
MCAnnounced == "large" :> 3 @@ "small" :> 1 @@ "enclosure" :> 0
MCRank      == "large" :> 50 @@ "small" :> 100 @@ "enclosure" :> 100
MCQuotaBudgets == {[asks |-> 0, failures |-> 0, deletions |-> 1, restarts |-> 0],
                   [asks |-> 1, failures |-> 0, deletions |-> 0, restarts |-> 1],
                   [asks |-> 0, failures |-> 1, deletions |-> 0, restarts |-> 0]}
=============================================================================
