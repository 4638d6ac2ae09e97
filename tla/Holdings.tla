------------------------------ MODULE Holdings -----------------------------
(***************************************************************************)
(* What a Feed's Catalog lists and wants (Catalog), and what of the wanted *)
(* the quota of its Owner lets in (Quota).  A behaviour is about one of    *)
(* them: Catalog takes an archive job for one step, Quota takes what is    *)
(* wanted as given.                                                        *)
(***************************************************************************)
EXTENDS Catalog, Quota

VARIABLE about

vars == <<about, catalogVars, quotaVars>>

OfCatalog(A) == about = "catalog" /\ A /\ UNCHANGED <<about, quotaVars>>
OfQuota(A)   == about = "quota" /\ A /\ UNCHANGED <<about, catalogVars>>

\* What the other may start with does not matter to a behaviour of one.
Init ==
    /\ about \in {"catalog", "quota"} /\ CatalogInit /\ QuotaInit
    /\ about = "catalog" => /\ quota = CHOOSE q \in Quotas : TRUE
                            /\ ahead = CHOOSE b \in QuotaBudgets : TRUE
    /\ about = "quota" => /\ feed.kind = CHOOSE k \in Kinds : TRUE
                          /\ feed.mode = CHOOSE m \in Modes : TRUE
Next == OfCatalog(CatalogNext) \/ OfQuota(QuotaNext)
Spec == Init /\ [][Next]_vars

\* The scheduler keeps asking for due Refreshes and ticks for what is blocked, the
\* worker claims what it can, an api process finishes what it listed, and a
\* transaction ends.
FairSpec ==
    /\ Spec
    /\ WF_vars(OfCatalog(RequestRefresh)) /\ SF_vars(OfCatalog(RefreshStart))
    /\ WF_vars(OfCatalog(RefreshStep))
    /\ \A c \in Calls : WF_vars(OfCatalog(LightStep(c)))
    /\ \A r \in Requests : SF_vars(OfCatalog(ExpandStart(r))) /\ WF_vars(OfCatalog(RequestStep(r)))
    /\ WF_vars(OfQuota(Release))
    /\ \A f \in Feeds : WF_vars(OfQuota(Commit(f)))
=============================================================================
