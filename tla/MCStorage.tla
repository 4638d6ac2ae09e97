----------------------------- MODULE MCStorage -----------------------------
(***************************************************************************)
(* Small instances of Storage: a Feed of one item changed four times; one  *)
(* Episode archived twice with what the Engine, the Source or the notes    *)
(* bring; a User with room for two of three Cookie files; two workers, an  *)
(* api and a tool that start four times, each with a Scratch of its own.   *)
(***************************************************************************)
EXTENDS Storage

MCPlans == {[changes |-> 4, misfortunes |-> 1, rebuilds |-> 1]}

\* Both suppliers bring an Artwork and chapters; transcripts in every spelling
\* of one language, and a picture of the notes; a Source with what the Engine lacks.
MCBrings ==
    {{Offer("artwork", "", "engine"), Offer("artwork", "", "source"),
      Offer("chapters", "", "engine"), Offer("chapters", "", "source")},
     {Offer("transcript", "en", "engine"), Offer("transcript", "EN", "source"),
      Offer("transcript", "", "source"), Offer("attachment", "a", "notes")},
     {Offer("transcript", "en", "engine"), Offer("transcript", "en", "source"),
      Offer("artwork", "", "source")}}

MCDomain == [k \in Keys |-> IF k = "c" THEN "y" ELSE "x"]
MCContents == {{"a"}, {"b", "c"}}
MCBudgets == {[uploads |-> 3, removals |-> 0, rotations |-> 1],
              [uploads |-> 2, removals |-> 1, rotations |-> 1]}
MCScratchOf == [p \in Procs |-> p]
MCPushed == <<"engine", "feed">>
=============================================================================
