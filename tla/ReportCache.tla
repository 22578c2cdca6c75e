----------------------------- MODULE ReportCache -----------------------------
(***************************************************************************)
(* The structure of a public report, cached by token in the shared SQLite  *)
(* store (services/query_cache.py): views of all workers elect one builder *)
(* by a claim without an owner, the others poll for its result, and take   *)
(* over when the claim is free or when they waited long enough; a publish  *)
(* commits, and then drops what is cached (api/public.py, dashboards.py).  *)
(* begin_coalesced_compute does the same for the result of a chart.        *)
(***************************************************************************)
EXTENDS Integers

CONSTANTS
  Views,        \* the threads that answer viewers, one view after the other
  Publishers,   \* the publishes of the dashboard
  MaxVersion,
  None,
  MaxMishaps    \* bounds failed builds, failures of the store, expired claims

ASSUME CacheAssumption ==
  MaxVersion \in Nat /\ MaxMishaps \in Nat /\ None \notin 0..MaxVersion

VARIABLES
  edition,    \* the version of the dashboard in Postgres
  visible,    \* history: the latest version whose publish dropped the cache
  cache,      \* the cached structure, or None
  claimed,    \* the row of live_query_inflight
  at,
  loaded,     \* the version that a view loaded to build from
  raced,      \* history: builds under way when a newer version became visible
  must,       \* history: what was visible when the view began
  got,        \* what the view was served
  overrun,    \* history: a build without a claim of its own, since the last quiet
  pub, mishaps

cacheVars == <<edition, visible, cache, claimed, at, loaded, raced, must, got,
          overrun, pub, mishaps>>

Versions == 0..MaxVersion
Structure == [version : Versions, raced : BOOLEAN]

CacheTypeOK ==
  /\ edition \in Versions /\ visible \in 0..edition
  /\ cache \in Structure \cup {None}
  /\ claimed \in BOOLEAN /\ overrun \in BOOLEAN
  /\ at \in [Views -> {"idle", "claim", "wait", "polled", "load", "store", "end", "served"}]
  /\ raced \subseteq Views
  /\ loaded \in [Views -> 0..edition \cup {None}]
  /\ \A v \in Views : at[v] \in {"store", "end"} <=> loaded[v] # None
  /\ \A v \in Views : got[v] # None => at[v] = "served"
  /\ must \in [Views -> Versions]
  /\ got \in [Views -> Structure \cup {None}]
  /\ pub \in [Publishers -> 0..edition \cup {None}]
  /\ mishaps \in 0..MaxMishaps

CacheInit ==
  /\ edition = 0 /\ visible = 0 /\ cache = None
  /\ claimed = FALSE /\ overrun = FALSE
  /\ at = [v \in Views |-> "idle"] /\ raced = {}
  /\ loaded = [v \in Views |-> None] /\ got = loaded
  /\ must = [v \in Views |-> 0]
  /\ pub = [p \in Publishers |-> None]
  /\ mishaps = 0

Mishap == mishaps < MaxMishaps /\ mishaps' = mishaps + 1
Go(v, where) == at' = [at EXCEPT ![v] = where]
Builders == {v \in Views : at[v] \in {"load", "store", "end"}}
-----------------------------------------------------------------------------
(* A view                                                                  *)

Serve(v, what) == Go(v, "served") /\ got' = [got EXCEPT ![v] = what]

\* Nothing is cached, or the store fails, which reads as nothing.
Missed ==
  \/ cache = None /\ UNCHANGED mishaps
  \/ Mishap

\* get_public_meta
Look(v) ==
  /\ at[v] = "idle" /\ must' = [must EXCEPT ![v] = visible]
  /\ \/ cache # None /\ Serve(v, cache) /\ UNCHANGED mishaps
     \/ Missed /\ Go(v, "claim") /\ UNCHANGED got
  /\ UNCHANGED <<edition, visible, cache, claimed, loaded, raced, overrun, pub>>

Lead(v) == Go(v, "load")

\* Slip: the claim is taken whether it is free or not.
Always == TRUE

Free == ~claimed

\* begin_coalesced_public_meta: the primary key elects one leader, and so it
\* does for those that wait and have asked again.
Claim(v) ==
  /\ at[v] \in {"claim", "polled"}
  /\ IF Free
     THEN Lead(v) /\ claimed' = TRUE
     ELSE Go(v, "wait") /\ UNCHANGED claimed
  /\ UNCHANGED <<edition, visible, cache, loaded, raced, must, got, overrun, pub, mishaps>>

\* The store fails: this view builds without a claim.
ClaimFails(v) ==
  /\ at[v] \in {"claim", "polled"} /\ Mishap /\ Lead(v) /\ overrun' = TRUE
  /\ UNCHANGED <<edition, visible, cache, claimed, loaded, raced, must, got, pub>>

\* A waiter asks for the result first, and then for the claim.
Poll(v) ==
  /\ at[v] = "wait"
  /\ \/ cache # None /\ Serve(v, cache) /\ UNCHANGED mishaps
     \/ Missed /\ Go(v, "polled") /\ UNCHANGED got
  /\ UNCHANGED <<edition, visible, cache, claimed, loaded, raced, must, overrun, pub>>

\* The 15 seconds are over, at any moment as time is not measured: it builds
\* after all, and will end a claim that is not its own.
GiveUp(v) ==
  /\ at[v] = "wait" /\ Lead(v) /\ overrun' = TRUE
  /\ UNCHANGED <<edition, visible, cache, claimed, loaded, raced, must, got, pub, mishaps>>

Load(v) ==
  /\ at[v] = "load" /\ Go(v, "store")
  /\ loaded' = [loaded EXCEPT ![v] = edition]
  /\ UNCHANGED <<edition, visible, cache, claimed, raced, must, got, overrun, pub, mishaps>>

Made(v) == [version |-> loaded[v], raced |-> v \in raced]

\* set_public_meta; what cannot be serialized, or stored, is served uncached.
Store(v) ==
  /\ at[v] = "store" /\ Go(v, "end")
  /\ cache' \in {Made(v), cache}
  /\ UNCHANGED <<edition, visible, claimed, loaded, raced, must, got, overrun, pub, mishaps>>

\* Once nobody builds, no claim of a builder can be lost.
Quiet(v) == Builders \subseteq {v}

\* end_coalesced_public_meta deletes the claim, whoever made it.
End(v) ==
  /\ at[v] = "end" /\ Serve(v, Made(v))
  /\ claimed' = FALSE
  /\ raced' = raced \ {v}
  /\ loaded' = [loaded EXCEPT ![v] = None]
  /\ overrun' = (overrun /\ ~Quiet(v))
  /\ UNCHANGED <<edition, visible, cache, must, pub, mishaps>>

\* The build raises or its worker dies: nothing ends the claim, it expires.
BuildFails(v) ==
  /\ v \in Builders /\ Mishap /\ Go(v, "idle")
  /\ raced' = raced \ {v}
  /\ loaded' = [loaded EXCEPT ![v] = None]
  /\ overrun' = (overrun /\ ~Quiet(v))
  /\ UNCHANGED <<edition, visible, cache, claimed, must, got, pub>>

Leave(v) ==
  /\ at[v] = "served" /\ Go(v, "idle") /\ got' = [got EXCEPT ![v] = None]
  /\ must' = [must EXCEPT ![v] = 0]
  /\ UNCHANGED <<edition, visible, cache, claimed, loaded, raced, overrun, pub, mishaps>>
-----------------------------------------------------------------------------
(* The store's clock, and the author                                       *)

\* Slip: an entry leaves with a publish only.
ByPublish == FALSE

Expirable == cache # None

\* The 60 seconds of an entry, or its eviction
EntryExpires ==
  /\ Expirable /\ cache' = None
  /\ UNCHANGED <<edition, visible, claimed, at, loaded, raced, must, got, overrun, pub, mishaps>>

\* The 90 seconds of a claim: of a builder that is gone, or slow.
ClaimExpires ==
  /\ claimed /\ claimed' = FALSE
  /\ IF Builders = {} THEN UNCHANGED <<overrun, mishaps>> ELSE Mishap /\ overrun' = TRUE
  /\ UNCHANGED <<edition, visible, cache, at, loaded, raced, must, got, pub>>

\* The publish is committed; the publisher still has to drop the cache.
Publish(p) ==
  /\ pub[p] = None /\ edition < MaxVersion
  /\ edition' = edition + 1 /\ pub' = [pub EXCEPT ![p] = edition + 1]
  /\ UNCHANGED <<visible, cache, claimed, at, loaded, raced, must, got, overrun, mishaps>>

\* Slip: what is cached stays, to expire by itself.
StillCached == cache

Dropped == None

\* invalidate_all_public_meta
Drop(p) ==
  /\ pub[p] # None
  /\ cache' = Dropped /\ pub' = [pub EXCEPT ![p] = None]
  /\ visible' = IF pub[p] > visible THEN pub[p] ELSE visible
  /\ raced' = raced \cup {v \in Views : loaded[v] # None /\ loaded[v] < pub[p]}
  /\ UNCHANGED <<edition, claimed, at, loaded, must, got, overrun, mishaps>>

\* The publisher dies in between, or the store fails.
DropFails(p) ==
  /\ pub[p] # None /\ Mishap /\ pub' = [pub EXCEPT ![p] = None]
  /\ UNCHANGED <<edition, visible, cache, claimed, at, loaded, raced, must, got, overrun>>
-----------------------------------------------------------------------------
Answer(v) == Claim(v) \/ Poll(v) \/ GiveUp(v) \/ Load(v) \/ Store(v) \/ End(v)

CacheNext ==
  \/ EntryExpires \/ ClaimExpires
  \/ \E v \in Views : Look(v) \/ Answer(v) \/ ClaimFails(v) \/ BuildFails(v) \/ Leave(v)
  \/ \E p \in Publishers : Publish(p) \/ Drop(p) \/ DropFails(p)

\* Workers run and time passes; nobody need view or publish.
Fairness ==
  /\ WF_cacheVars(EntryExpires) /\ WF_cacheVars(ClaimExpires)
  /\ \A v \in Views : WF_cacheVars(Answer(v))
  /\ \A p \in Publishers : WF_cacheVars(Drop(p))

CacheSpec == CacheInit /\ [][CacheNext]_cacheVars /\ Fairness
-----------------------------------------------------------------------------
(* Properties *)

\* The ownerless claim elects one builder among all workers, through failed
\* builds and take-overs: two build at once only if, since the last moment that
\* nobody built, one of them built without a claim or outlived it.
OneBuild == \A v, w \in Builders : v # w => overrun

\* A view that begins after a publish dropped the cache is served that publish
\* or a later one, whatever was cached, polled or taken over in between; the
\* exception is a build that was under way when the cache was dropped.
NextViewNew == \A v \in Views :
  got[v] # None /\ got[v].version < must[v] => got[v].raced

\* "A publish must be visible on the next view, not a minute later"
\* (api/dashboards.py).  The code does not keep this: the exception above.
PublishVisible == \A v \in Views : got[v] # None => got[v].version >= must[v]

\* What a late build, or a publish that died before it dropped the cache, left
\* behind does not stay: once the author stops, old structures disappear for
\* good, by expiry and because builds under way end.
Old == cache # None /\ cache.version < edition

OldGoes == <>[]~Old
=============================================================================
