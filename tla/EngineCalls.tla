----------------------------- MODULE EngineCalls ----------------------------
(***************************************************************************)
(* One call of the Engine (adapters/engine/ytdlp.py): a listing of a       *)
(* Source, a fetch of an Engine item or of an RSS enclosure.  yt-dlp is    *)
(* external: it calls Copycast's hooks and filters, and answers or raises  *)
(* what its code can raise at that step.  What is modelled of Copycast is  *)
(* when it stops a call, and what it makes of the outcome.                 *)
(***************************************************************************)
EXTENDS Integers, Sequences, SequencesExt

CONSTANTS
    OptionKeys,     \* of yt-dlp, extractor arguments one by one
    Owned,          \* ENGINE_OWNED_OPTIONS
    Base,           \* BASE_OPTIONS and what each call sets
    FeedOptions,    \* the allowlist of a Mirror
    Configs,        \* what [engine.options] may hold
    Stored,         \* what the row of a Feed may hold, written by any version
    Sizes,          \* estimates of yt-dlp; 0 for none
    QuotaLeft,      \* max_bytes; 0 for no quota
    EngineCallsMax  \* bound: the calls of a behaviour

ASSUME EngineAssumption ==
    /\ Owned \cup Base \cup FeedOptions \subseteq OptionKeys /\ Owned \cap FeedOptions = {}
    /\ Configs \subseteq SUBSET (OptionKeys \ Owned) /\ Stored \subseteq SUBSET OptionKeys
    /\ Sizes \subseteq Nat /\ QuotaLeft \in Nat /\ EngineCallsMax \in Nat

VARIABLES
    clip,       \* the item at its Source: its status, its size
    layers,     \* the options of the config file and of the Feed's row
    token,      \* whether the job was cancelled
    call,       \* the call: step, kind, what yt-dlp saw of the clip, artwork, outcome
    hooks,      \* _HookState: downloaded, not_ready, estimate
    refused,    \* connections the guard refused during the call
    told,       \* the phases reported to the job
    spent       \* how many calls there were

engineVars == <<clip, layers, token, call, hooks, refused, told, spent>>

Statuses == <<"is_upcoming", "is_live", "post_live", "recorded">>
FetchKinds == {"listing", "direct", "ytdlp"}
NoHooks == [downloaded |-> FALSE, notReady |-> "no", estimate |-> 0]
NoCall == [at |-> "idle", kind |-> "listing", saw |-> [status |-> "recorded", size |-> 0],
           artwork |-> FALSE, raised |-> <<>>, outcome |-> "none"]

EngineInit ==
    /\ clip \in [status : Range(Statuses), size : Sizes]
    /\ layers \in [config : Configs, feed : Stored]
    /\ token = FALSE /\ call = NoCall /\ hooks = NoHooks
    /\ refused = {} /\ told = {} /\ spent = 0

-----------------------------------------------------------------------------
(* adapters/engine/options.py and domain/engine_options.py: who sets a key.  *)

\* sanitize_feed, before every call.
Sanitized(stored) == stored \cap FeedOptions

\* Each layer without what Copycast owns.
StripOwned(options) == options \ Owned

\* EngineOptions.merge: config, then Feed; the last wins.
Merged(key) ==
    IF key \in StripOwned(Sanitized(layers.feed)) THEN "feed"
    ELSE IF key \in StripOwned(layers.config) THEN "config" ELSE "default"

\* merge_options, fetch_params, listing_params: BASE_OPTIONS over all of it.
Param(key) == IF key \in Base THEN "copycast" ELSE Merged(key)

-----------------------------------------------------------------------------
(* adapters/engine/errors.py: a chain of exceptions, the outermost first.     *)
ByClass(e) ==
    CASE e = "stopped" -> "Cancelled"
      [] e = "no_space" -> "StorageFull"
      [] e \in {"http_4xx", "expected", "upcoming", "unsupported"} -> "PermanentError"
      [] e \in {"http_5xx", "transport", "flaky", "postprocessing"} -> "TransientError"
      [] OTHER -> "none"      \* an unexpected ExtractorError, or no class of yt-dlp

Classify(chain) ==
    LET classes == {ByClass(chain[i]) : i \in DOMAIN chain}
        first == SelectInSeq(chain, LAMBDA e : ByClass(e) # "none") IN
    IF "Cancelled" \in classes THEN "Cancelled"
    ELSE IF "StorageFull" \in classes THEN "StorageFull"
    ELSE IF first # 0 THEN ByClass(chain[first]) ELSE "TransientError"

\* destination_refusal: chained to the error, or quoted by it.
DestinationRefusal(chain) == Contains(chain, "refusal") \/ (Contains(chain, "quotes_refusal") /\ refused # {})

\* The exception's class first, what the filters left on the state after it.
VerdictByClass(chain) ==
    IF Contains(chain, "stopped") THEN "Cancelled"
    ELSE IF hooks.estimate # 0 THEN "QuotaExceeded"
    ELSE IF hooks.notReady # "no" THEN "NotReady"
    ELSE IF DestinationRefusal(chain) THEN "DestinationNotAllowed" ELSE Classify(chain)

\* fetch_item's except clause.
Verdict(chain) ==
    IF hooks.estimate # 0 THEN "QuotaExceeded"
    ELSE IF hooks.notReady # "no" THEN "NotReady"
    ELSE IF DestinationRefusal(chain) THEN "DestinationNotAllowed"
    ELSE IF call.kind = "ytdlp" /\ Contains(chain, "upcoming") /\ Classify(chain) = "PermanentError"
         THEN "NotReady"
    ELSE Classify(chain)

-----------------------------------------------------------------------------
Goes(at) == call' = [call EXCEPT !.at = at]
Finishes(outcome) == call' = [call EXCEPT !.at = "over", !.outcome = outcome]
Raises(chain) == call' = [call EXCEPT !.at = "raised", !.raised = chain]

\* list_source and fetch_item, up to yt-dlp: the URL is judged before anything.
StartCall(kind, url, artwork) ==
    /\ call.at = "idle" /\ (kind = "ytdlp" => artwork = "none")
    /\ LET c == [NoCall EXCEPT !.kind = kind, !.saw = clip, !.artwork = artwork = "accepted"] IN
       call' = IF token THEN [c EXCEPT !.at = "over", !.outcome = "Cancelled"]
               ELSE IF url = "refused" THEN [c EXCEPT !.at = "over", !.outcome = "DestinationNotAllowed"]
               ELSE [c EXCEPT !.at = IF kind = "direct" THEN "converting" ELSE "extracting"]
    /\ hooks' = NoHooks /\ refused' = IF url = "refused" THEN {"source"} ELSE {}
    /\ told' = {} /\ spent' = spent + 1
    /\ UNCHANGED <<clip, layers, token>>

\* A connection the guard refuses is remembered, whatever yt-dlp makes of it.
Refuse(what) ==
    /\ call.at \in {"extracting", "converting", "downloading"}
    /\ refused' = refused \cup {what}
    /\ UNCHANGED <<clip, layers, token, call, hooks, told, spent>>

\* What yt-dlp raises at a step: its own errors, or a refused connection.
Raisable(at) ==
    {<<"transport">>, <<"unexpected", "http_4xx">>, <<"unexpected", "http_5xx">>, <<"no_space">>, <<"other">>}
    \cup (IF refused # {} THEN {<<"unexpected", "refusal">>, <<"quotes_refusal">>} ELSE {})
    \cup (IF at = "extracting"
          THEN {<<"expected">>, <<"flaky">>, <<"expected", "http_5xx">>}
               \cup (IF call.saw.status = "is_upcoming" THEN {<<"upcoming">>} ELSE {}) ELSE {})
    \cup (IF at = "processing" THEN {<<"postprocessing">>, <<"unsupported">>} ELSE {})

\* ignoreerrors = "only_download": a listing logs an extraction error, and returns nothing.
Extract ==
    /\ call.at = "extracting"
    /\ \/ call.kind = "listing" /\ Goes("listed")
       \/ call.kind = "ytdlp" /\ Goes("filtering")
       \/ \E chain \in Raisable("extracting") :
            IF call.kind = "listing" /\ chain # <<"no_space">>
            THEN call' = [call EXCEPT !.at = "nothing", !.raised = chain]
            ELSE Raises(chain)
    /\ UNCHANGED <<clip, layers, token, hooks, refused, told, spent>>

\* list_source, after the call.
ListingEnds ==
    /\ \/ call.at = "nothing" /\ Finishes(IF refused # {} THEN "DestinationNotAllowed" ELSE "PermanentError")
       \/ call.at = "listed" /\ Finishes(IF token THEN "Cancelled" ELSE "done")
    /\ UNCHANGED <<clip, layers, token, hooks, refused, told, spent>>

\* match_filter: live_match_filter, then quota_match_filter.  Both raise a DownloadCancelled.
Filter ==
    /\ call.at = "filtering"
    /\ IF call.saw.status # "recorded"
       THEN Raises(<<"stopped">>) /\ hooks' = [hooks EXCEPT !.notReady = call.saw.status]
       ELSE IF QuotaLeft # 0 /\ call.saw.size > QuotaLeft
            THEN Raises(<<"stopped">>) /\ hooks' = [hooks EXCEPT !.estimate = call.saw.size]
            ELSE Goes("converting") /\ UNCHANGED hooks
    /\ UNCHANGED <<clip, layers, token, refused, told, spent>>

\* The hooks report, and then look at the token.
Hook(phases, next) ==
    /\ told' = told \cup phases
    /\ IF token THEN Raises(<<"stopped">>) ELSE Goes(next)
    /\ UNCHANGED <<clip, layers, token, refused, spent>>

\* ThumbnailConvertor, before the download; a bad image only warns.
Convert == call.at = "converting" /\ Hook({}, "downloading") /\ UNCHANGED hooks

Download ==
    /\ call.at = "downloading"
    /\ \/ Hook({"downloading"}, "downloading") /\ UNCHANGED hooks
       \/ Hook({"postprocessing"}, "processing") /\ hooks' = [hooks EXCEPT !.downloaded = TRUE]

Process ==
    /\ call.at = "processing"
    /\ Hook(IF hooks.downloaded THEN {"postprocessing"} ELSE {}, "collecting") /\ UNCHANGED hooks

Fail == /\ call.at \in {"converting", "downloading", "processing"}
        /\ \E chain \in Raisable(call.at) : Raises(chain)
        /\ UNCHANGED <<clip, layers, token, hooks, refused, told, spent>>

\* collect_outputs: no result, a playlist, no audio file; or what was asked for.
Collect ==
    /\ call.at = "collecting"
    /\ \/ Finishes("PermanentError") /\ UNCHANGED told
       \/ Finishes("done") /\ told' = told \cup {"finished"}
    /\ UNCHANGED <<clip, layers, token, hooks, refused, spent>>

Translate ==
    /\ call.at = "raised"
    /\ Finishes(IF call.kind = "listing"
                THEN IF DestinationRefusal(call.raised) THEN "DestinationNotAllowed" ELSE Classify(call.raised)
                ELSE Verdict(call.raised))
    /\ UNCHANGED <<clip, layers, token, hooks, refused, told, spent>>

\* The job is over, or its next attempt begins.
CallAgain == /\ call.at = "over" /\ spent < EngineCallsMax /\ call' = NoCall /\ token' = FALSE
             /\ UNCHANGED <<clip, layers, hooks, refused, told, spent>>

Cancel == ~token /\ token' = TRUE /\ UNCHANGED <<clip, layers, call, hooks, refused, told, spent>>

\* A stream starts, ends and is published.
Air == /\ \E i \in 1..3 : clip.status = Statuses[i] /\ clip' = [clip EXCEPT !.status = Statuses[i + 1]]
       /\ UNCHANGED <<layers, token, call, hooks, refused, told, spent>>

EngineNext ==
    \/ \E kind \in FetchKinds, url \in {"accepted", "refused"}, artwork \in {"none", "refused", "accepted"} :
          StartCall(kind, url, artwork)
    \/ \E what \in {"media", "artwork"} : Refuse(what)
    \/ Extract \/ ListingEnds \/ Filter \/ Convert \/ Download \/ Process \/ Fail \/ Collect
    \/ Translate \/ CallAgain \/ Cancel \/ Air

-----------------------------------------------------------------------------
\* A job ends, waits, retries or blocks by the error it is given: each one is true of
\* the call, though a cancellation, a stream that has not ended and a size above the
\* quota all reach the Engine as the same exception of yt-dlp.
OutcomeTruthful ==
    LET saw == call.saw IN
    /\ call.outcome = "Cancelled" => token
    /\ call.outcome = "NotReady" => call.kind = "ytdlp" /\ saw.status # "recorded"
    /\ call.outcome = "QuotaExceeded" => saw.status = "recorded" /\ QuotaLeft # 0 /\ saw.size > QuotaLeft
    /\ call.outcome = "DestinationNotAllowed" => refused # {}
    /\ call.outcome = "StorageFull" => Contains(call.raised, "no_space")
    /\ call.outcome # "none" /\ Contains(call.raised, "upcoming") /\ call.kind = "ytdlp" => call.outcome = "NotReady"

\* No byte is downloaded of a stream that has not ended or of an item above the quota
\* left, no call runs with an option that a Feed may not set, whatever its row says, and
\* nobody sets what Copycast sets.
NothingUnfitFetched ==
    /\ call.kind = "ytdlp" /\ call.at \in {"downloading", "processing", "collecting"} =>
         call.saw.status = "recorded" /\ (QuotaLeft # 0 => call.saw.size <= QuotaLeft)
    /\ \A key \in OptionKeys :
         /\ Param(key) = "feed" => key \in FeedOptions
         /\ key \in layers.config \ (Base \cup FeedOptions) => Param(key) = "config"
         /\ key \in Owned => Param(key) \in {"copycast", "default"}

\* Whatever yt-dlp makes of it, a call does what it may and ends as what it was.
CallTruthful == OutcomeTruthful /\ NothingUnfitFetched
=============================================================================
