---------------------------- MODULE MCPerimeter ----------------------------
(***************************************************************************)
(* A small instance of Perimeter: two Users, a Feed and a key; one name    *)
(* that two browsers sign in with, for one slot; a fetch with one redirect *)
(* over every class of address; one call of yt-dlp; a worker's heartbeats; *)
(* a pasted address, three links and three pages; two Users who mirror two *)
(* Sources; three items that are listed twice and picked, or listed once   *)
(* and picked between two requests.                                        *)
(***************************************************************************)
EXTENDS Perimeter, TLC

\* Access: of two requests neither is the first.
AnyCall == Permutations(Calls)

\* Outbound
MCCarried == [a \in Addresses |-> IF a = "mapped" THEN "private" ELSE a]
MCPolicies == {[hosts |-> {}, networks |-> {}], [hosts |-> {"h2"}, networks |-> {"private"}]}

\* Accounts: the password is replaced, then the TOTP secret goes as well.
SecretKept == <<1, 1>>

\* Restarts with another file; logins that race and time that passes, until codes and
\* sessions are old or a name is locked twice.
SignIns == {[ticks |-> 1, tries |-> 2, edits |-> 1, starts |-> 2],
            [ticks |-> 3, tries |-> 3, edits |-> 0, starts |-> 0]}

\* EngineCalls: a config file that sets keys of its own, a Feed that sets every key.
MCConfigs == {{"cookiefile", "po_token", "ratelimit"}}
MCStored == {{}, OptionKeys}

\* Probe: two spellings of one address.
MCNormal == [l \in Links |-> IF l = "l1/" THEN "l1" ELSE l]

\* Selections: dates a flat listing drifts through, two items with one number, and
\* a selection of every kind.
MCTrueDate == "v1" :> 1 @@ "v2" :> 2 @@ "v3" :> 3
MCGuesses == {"v1" :> 0 @@ "v2" :> 2 @@ "v3" :> 2, "v1" :> 2 @@ "v2" :> 1 @@ "v3" :> 3}
MCEpisode == "v1" :> 1 @@ "v2" :> 1 @@ "v3" :> 2
Says(tokens) == [given |-> TRUE, tokens |-> tokens]
MCSelectable ==
    [text : {Says(<<<<1, 2>>, <<2, 2>>>>), Says(<<<<2, 2>>, <<9, 9>>>>)}, idents : {<<>>, <<"v3", "ghost">>},
     numbering : {"source", "ordinal"}, dry_run : {FALSE}]
    \cup [text : {Says(<<>>), Says(<<<<1, 1>>, <<>>>>), Says(<<<<0, 1>>>>), Says(<<<<2, 1>>>>), Says(<<<<1, 2>>, <<1, 2>>>>)},
          idents : {<<"v1">>}, numbering : {"source"}, dry_run : {FALSE}]
    \cup [text : {Says(<<<<1, 3>>>>)}, idents : {<<"v1">>}, numbering : {"source"}, dry_run : {TRUE}]
    \cup [text : {[given |-> FALSE, tokens |-> <<>>]}, idents : {<<"v1">>}, numbering : {"source"}, dry_run : {FALSE}]
MCEfforts == {[listings |-> 2, acts |-> 1], [listings |-> 1, acts |-> 2]}
=============================================================================
