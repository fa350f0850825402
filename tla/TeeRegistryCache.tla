--------------------------- MODULE TeeRegistryCache ---------------------------
(***************************************************************************)
(* chatComplete and registryAttestation of the 0G Router client: how a     *)
(* completion comes to be marked as made in a TEE.  Several completions    *)
(* are under way at once and share the cached answer of GET /models.  The  *)
(* registry lists or unlists the model's attestation at any time.          *)
(***************************************************************************)
EXTENDS Integers

CONSTANTS Calls,     \* completions that may be under way
          Ttl,       \* MODEL_REGISTRY_TTL_MS
          MaxFetch,  \* bound on the duration of a GET /models
          MaxTime    \* bound on time

VARIABLES now,
          listed,    \* what the registry answers now
          lastTrue,  \* when it last listed the model as attested
          cache,     \* modelRegistryCache
          call       \* the locals of each completion, and its evidence

teeVars == <<now, listed, lastTrue, cache, call>>

Never == -1 - Ttl - MaxFetch  \* before any time a listing could count
NoHit == [at |-> Never, attested |-> FALSE]
Quiet == [stage |-> "idle", hit |-> NoHit, since |-> 0, models |-> FALSE,
          teeAttested |-> FALSE, teeSource |-> "none", failed |-> FALSE]

(* What the constants must be. *)
TeeConstants == Ttl \in Nat \ {0} /\ MaxFetch \in Nat /\ MaxTime \in Nat

TeeInit ==
  /\ now = 0 /\ listed \in BOOLEAN /\ lastTrue = IF listed THEN 0 ELSE Never
  /\ cache = NoHit /\ call = [c \in Calls |-> Quiet]

Tick ==
  /\ now < MaxTime /\ \A c \in Calls : call[c].stage \in {"sent", "served"} => now < call[c].since + MaxFetch
  /\ now' = now + 1 /\ lastTrue' = IF listed THEN now + 1 ELSE lastTrue
  /\ call' = [c \in Calls |-> IF call[c].stage = "done" THEN Quiet ELSE call[c]]
  /\ UNCHANGED <<listed, cache>>

ListingChanges ==
  /\ listed' = ~listed /\ lastTrue' = IF listed THEN lastTrue ELSE now
  /\ UNCHANGED <<now, cache, call>>

Evidence(c, attested, source) ==
  [call[c] EXCEPT !.stage = "done", !.teeAttested = attested, !.teeSource = IF attested THEN source ELSE "none"]

\* A faulty variant, for mutation runs: a cached answer never ages.
FreshForever(hit) == hit # NoHit
Fresh(hit) == hit # NoHit /\ now - hit.at < Ttl

(* The completion arrives.  A flag in its trace decides; without one the
   cached listing does, or a new one is fetched. *)
Completed(c) ==
  \E flag \in {"true", "false", "absent"} :
    /\ call[c].stage = "idle" /\ UNCHANGED <<now, listed, lastTrue, cache>>
    /\ call' = [call EXCEPT ![c] =
         IF flag # "absent"
         THEN [Quiet EXCEPT !.stage = "done", !.teeAttested = flag = "true", !.teeSource = "request_trace"]
         ELSE IF Fresh(cache)
              THEN Evidence(c, cache.attested, "model_registry")
              ELSE [Quiet EXCEPT !.stage = "sent", !.hit = cache, !.since = now]]

(* The registry answers a fetch with what it lists at that moment. *)
Served(c) ==
  /\ call[c].stage = "sent"
  /\ call' = [call EXCEPT ![c].stage = "served", ![c].models = listed]
  /\ UNCHANGED <<now, listed, lastTrue, cache>>

\* A faulty variant, for mutation runs: an answer is cached as of its expiry.
FetchLandsAhead(c) ==
  /\ call[c].stage = "served"
  /\ cache' = [at |-> now + Ttl, attested |-> call[c].models]
  /\ call' = [call EXCEPT ![c] = Evidence(c, call[c].models, "model_registry")]
  /\ UNCHANGED <<now, listed, lastTrue>>

(* The answer arrives, perhaps after that of a later fetch, and is cached
   as of its arrival. *)
FetchLands(c) ==
  /\ call[c].stage = "served"
  /\ cache' = [at |-> now, attested |-> call[c].models]
  /\ call' = [call EXCEPT ![c] = Evidence(c, call[c].models, "model_registry")]
  /\ UNCHANGED <<now, listed, lastTrue>>

(* The fetch fails: what the cache held when it began is used, however old. *)
FetchFails(c) ==
  /\ call[c].stage \in {"sent", "served"}
  /\ call' = [call EXCEPT ![c] = [Evidence(c, call[c].hit.attested, "model_registry") EXCEPT !.failed = TRUE]]
  /\ UNCHANGED <<now, listed, lastTrue, cache>>

TeeNext == Tick \/ ListingChanges \/ \E c \in Calls : Completed(c) \/ Served(c) \/ FetchLands(c) \/ FetchFails(c)
TeeSpec == TeeInit /\ [][TeeNext]_teeVars

-----------------------------------------------------------------------------
Evidenced(c) == call[c].stage = "done" /\ call[c].teeAttested
FromRegistry(c) == Evidenced(c) /\ call[c].teeSource = "model_registry"

(* Types; a cached listing is never from the future. *)
TeeTypeOK ==
  /\ now \in 0..MaxTime /\ listed \in BOOLEAN /\ lastTrue \in Never..now
  /\ cache.at \in Never..now /\ cache.attested \in BOOLEAN
  /\ \A c \in Calls : /\ call[c].stage \in {"idle", "sent", "served", "done"} /\ call[c].hit.at \in Never..now
                      /\ call[c].teeSource \in {"none", "request_trace", "model_registry"}

(* A registry attestation that did not come of a failed fetch was true of
   the registry within one lifetime of the cache and one fetch, though
   fetches overtake each other; after a failed one it was true at some time. *)
AttestedWasListed ==
  \A c \in Calls : FromRegistry(c) =>
    /\ lastTrue # Never
    /\ ~call[c].failed => now - lastTrue <= Ttl + MaxFetch

(* Stated by the comment at router.ts:47: if the registry is unreachable a
   completion falls through with no attestation. *)
UnreachableIsUnattested == \A c \in Calls : call[c].failed => ~call[c].teeAttested
=============================================================================
