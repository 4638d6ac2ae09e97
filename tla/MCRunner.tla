------------------------------ MODULE MCRunner ------------------------------
(***************************************************************************)
(* Small instances of Runner.  The jobs are a Refresh of feed A, an        *)
(* on-demand archive of an item of A, and jobs of other feeds; each run    *)
(* picks some of them and how often what goes wrong.                       *)
(***************************************************************************)
EXTENDS Runner, TLC

CONSTANTS refreshA, playA, backfillA, refreshB, playB, backfillC,   \* jobs
          feedA, feedB, feedC

MCOnDemand == {playA, playB} \cap Jobs
MCArchive  == {playA, playB, backfillA, backfillC} \cap Jobs
MCFeedOf   == [j \in Jobs |-> CASE j \in {refreshA, playA, backfillA} -> feedA
                                [] j \in {refreshB, playB}            -> feedB
                                [] OTHER                              -> feedC]
MCItemOf   == [j \in Jobs |-> IF j \in MCArchive THEN j ELSE NoItem]
MCKeyOf    == [j \in Jobs |-> j]

MCOnce     == [j \in Jobs |-> 1]
MCTwice    == [j \in Jobs |-> IF j = backfillA THEN 2 ELSE 1]

Often(crashes, stalls, faults, stops, waits, plays) ==
    [h \in Hazards |-> CASE h = "crash" -> crashes [] h = "stall" -> stalls [] h = "fault" -> faults
                         [] h = "stop"  -> stops   [] h = "wait"  -> waits  [] OTHER       -> plays]

\* Two jobs of one feed and most of what may go wrong; with a first play of
\* another feed, which makes it three jobs and both kinds of slot, what goes wrong
\* is that threads get stuck.
MCSafety   == {Often(1, 0, 1, 1, 0, 0), Often(0, 0, 1, 0, 1, 0), Often(0, 0, 0, 0, 0, 1)}
MCLiveness == {Often(1, 0, 0, 1, 1, 0), Often(0, 1, 0, 0, 0, 0)}

SymmetricExecs == Permutations(Execs)
=============================================================================
