----------------------------- MODULE MCServing -----------------------------
(***************************************************************************)
(* Small instances of Serving: two replicas and two podcast apps, a Feed   *)
(* that changes once, an Episode of two ranges archived twice, a Mirror of *)
(* two items with three transcripts each, two of which share a file's name,*)
(* and one event stream, a Member's or an Admin's.                         *)
(***************************************************************************)
EXTENDS Serving

MCTagOf == ("en" :> "en") @@ ("EN" :> "en") @@ ("de" :> "de")
MCClaim == (1 :> "mp3") @@ (2 :> "m4a")
MCTracks == {{"en", "EN", "de"}}
MCBudgets == {[rebuilds |-> 1, archives |-> 2, deletions |-> 1, exports |-> 1, moves |-> 0],
              [rebuilds |-> 1, archives |-> 1, deletions |-> 1, exports |-> 1, moves |-> 1]}
MCEventBudgets == {[changes |-> 3, mishaps |-> 1], [changes |-> 2, mishaps |-> 2]}
=============================================================================
