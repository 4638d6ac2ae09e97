----------------------------- MODULE MCArchive -----------------------------
(***************************************************************************)
(* Small instances of Archive: one or two items, archive jobs of each      *)
(* (general ones and one a podcast app asks for), a Refresh and a prune.   *)
(***************************************************************************)
EXTENDS Archive, TLC

CONSTANTS a1, b1, play1, a2, ref, prune     \* jobs

MCOnDemand == {play1} \cap Jobs
MCKindOf == [j \in Jobs |-> CASE j = ref -> "refresh" [] j = prune -> "prune"
                              [] OTHER -> "archive"]
MCItemOf == [j \in Jobs |-> CASE j \in {ref, prune} -> NoItem [] j = a2 -> 2 [] OTHER -> 1]

Often(crashes, drains, faults, stucks, quotas, waits, users) ==
    [h \in Hazards |-> CASE h = "api" -> 0
                         [] h = "crash" -> crashes [] h = "drain" -> drains [] h = "fault" -> faults
                         [] h = "stuck" -> stucks  [] h = "quota" -> quotas [] h = "user"  -> users
                         [] OTHER       -> waits]
\* A quota that fills and frees, a stuck thread, and users; errors nothing
\* records, among blocks, waits and users; an api process that dies with a
\* deletion half done.
MCDownloads == {Often(0, 0, 0, 1, 2, 1, 3), Often(0, 0, 1, 1, 1, 1, 2),
                [Often(0, 0, 0, 0, 0, 0, 2) EXCEPT !["api"] = 1]}
\* A failing transaction and a user; a worker that is stopped and one that dies.
MCPolicies  == {Often(0, 0, 1, 0, 0, 0, 1), Often(1, 1, 0, 0, 0, 0, 0)}

\* An orderly stop of the worker, and nothing else.
MCDrain == {Often(0, 1, 0, 0, 0, 0, 0)}
=============================================================================
