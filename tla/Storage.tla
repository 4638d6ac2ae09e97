------------------------------ MODULE Storage ------------------------------
(***************************************************************************)
(* What lives beside Postgres in the Object store: the descriptors of the  *)
(* Feeds (Descriptors), their assets and Artwork (Assets), the Cookie      *)
(* files of the Users (Cookies), and at its root what the processes look   *)
(* at when they start (Startup).  They share no key, so a behaviour is     *)
(* about one of them.                                                      *)
(***************************************************************************)
EXTENDS Descriptors, Assets, Cookies, Startup

VARIABLE prefix

vars == <<prefix, descVars, assetVars, cookieVars, startupVars>>

\* What the other parts may start with does not matter to a behaviour of one.
Init == /\ prefix \in {"feeds", "assets", "artwork", "users", "root"}
        /\ DescInit /\ AssetInit /\ CookieInit /\ StartupInit
        /\ prefix # "root" => revision = 0
        /\ prefix # "feeds" => plan = CHOOSE p \in Plans : TRUE
        /\ prefix # "users" => budget = CHOOSE b \in Budgets : TRUE
Next == /\ \/ prefix = "feeds" /\ DescNext /\ UNCHANGED <<assetVars, cookieVars, startupVars>>
           \/ prefix = "assets" /\ AssetNext /\ UNCHANGED <<descVars, cookieVars, startupVars>>
           \/ prefix = "artwork" /\ ArtworkNext /\ UNCHANGED <<descVars, cookieVars, startupVars>>
           \/ prefix = "users" /\ CookieNext /\ UNCHANGED <<descVars, assetVars, startupVars>>
           \/ prefix = "root" /\ StartupNext /\ UNCHANGED <<descVars, assetVars, cookieVars>>
        /\ UNCHANGED prefix
Spec == Init /\ [][Next]_vars
=============================================================================
