---------------------------- MODULE BearerTokens ----------------------------
(***************************************************************************)
(* The bearer-token cache that the registry clients of one CLI process     *)
(* share (pkg/oci/token_cache.go), and the requests that go through it     *)
(* (HTTPRegistry.do in registry.go): the concurrent pulls and the          *)
(* concurrent metadata lookups of a command.  One cache key is modelled,   *)
(* that is one registry, scope and identity; keys do not interact.         *)
(*                                                                         *)
(* A token is the number of the fetch that brought it.  `get` and the part *)
(* of getOrFetch that joins or starts a fetch lock the mutex separately,   *)
(* so other requests come between them.  Closing the channel of a fetch    *)
(* sends everyone who waits on it round the loop.                          *)
(***************************************************************************)
EXTENDS Integers

CONSTANTS
    Requests,      \* calls of HTTPRegistry.do
    Preemptive     \* those that know the challenge and fetch before sending

ASSUME TokenAssumption == Preemptive \subseteq Requests

VARIABLES
    at,            \* where each request is
    retrying,      \* its second round, after a 401
    token,         \* the bearer token it carries or fetches; 0: none
    captured,      \* the generation its fetch began in
    over,          \* its context is done
    entry,         \* entries[key]: the cached token, 0 when there is none
    inflight,      \* inflight[key] is set
    generation,    \* generation[key]
    fetches,       \* fetches begun so far
    lastInvalid    \* history: fetches begun when a token was last invalidated

tokenVars == <<at, retrying, token, captured, over, entry, inflight, generation, fetches,
               lastInvalid>>
cacheVars == <<entry, inflight, generation, fetches, lastInvalid>>

Stages == {"new", "lookup", "join", "waiting", "fetch", "send", "done"}

TokensInit ==
    /\ at = [q \in Requests |-> "new"]
    /\ retrying = [q \in Requests |-> FALSE]
    /\ token = [q \in Requests |-> 0]
    /\ captured = [q \in Requests |-> 0]
    /\ over = [q \in Requests |-> FALSE]
    /\ entry = 0 /\ inflight = FALSE /\ generation = 0
    /\ fetches = 0 /\ lastInvalid = 0

Goto(q, stage) == at' = [at EXCEPT ![q] = stage]

\* `do` begins: with a configured challenge it asks the cache, otherwise it sends without a token.
Begin(q) ==
    /\ at[q] = "new"
    /\ Goto(q, IF q \in Preemptive THEN "lookup" ELSE "send")
    /\ UNCHANGED <<retrying, token, captured, over, cacheVars>>

\* get: the cached token, unless there is none or it has expired; an expired one is dropped.
Get(q) ==
    /\ at[q] = "lookup"
    /\ \/ /\ entry # 0
          /\ token' = [token EXCEPT ![q] = entry]
          /\ Goto(q, "send")
          /\ UNCHANGED entry
       \/ /\ entry' = 0
          /\ Goto(q, "join")
          /\ UNCHANGED token
    /\ UNCHANGED <<retrying, captured, over, inflight, generation, fetches, lastInvalid>>

\* The second locked section: wait for the fetch under way, or begin one.
Join(q) ==
    /\ at[q] = "join"
    /\ IF inflight
       THEN Goto(q, "waiting") /\ UNCHANGED <<token, captured, cacheVars>>
       ELSE /\ inflight' = TRUE
            /\ fetches' = fetches + 1
            /\ token' = [token EXCEPT ![q] = fetches + 1]
            /\ captured' = [captured EXCEPT ![q] = generation]
            /\ Goto(q, "fetch")
            /\ UNCHANGED <<entry, generation, lastInvalid>>
    /\ UNCHANGED <<retrying, over>>

\* The wait ends with the request's context; the fetch's channel is seen in EndFetch.
LeaveWait(q) ==
    /\ at[q] = "waiting" /\ over[q]
    /\ Goto(q, "done")
    /\ UNCHANGED <<retrying, token, captured, over, cacheVars>>

\* How a token request ends; a token that expires within ten seconds is no use.
Outcomes(q) == {"error"} \cup (IF over[q] THEN {} ELSE {"good", "unusable"})

\* Mutant: the generation is not looked at.
StoredAlways(q, outcome) == outcome = "good"

\* Whether the token that was fetched goes into the cache.
Stored(q, outcome) == outcome = "good" /\ captured[q] = generation

\* Mutant: a token that was not stored is used all the same.
AfterFetchUsed(q, outcome) == IF outcome = "good" THEN "send" ELSE "done"

\* Where the loop goes with what it fetched: round again when a token was invalidated meanwhile.
AfterFetch(q, outcome) ==
    IF outcome = "error" THEN "done"
    ELSE IF captured[q] # generation THEN "lookup"
    ELSE IF outcome = "unusable" THEN "done" ELSE "send"

\* Mutant: a fetch that failed returns before it lands.
LandedUnlessError(q, outcome) == inflight' = (outcome = "error" /\ inflight)

\* delete(c.inflight, key); close(wait), whatever came of the fetch.
Landed(q, outcome) == inflight' = FALSE

\* Mutant: what was fetched outlives the round of the loop that fetched it.
CarriedAlways(q, stage) == token[q]

\* entry and token are the round's own: a request leaves it with a token or with none.
Carried(q, stage) == IF stage = "send" THEN token[q] ELSE 0

EndFetch(q) ==
    \E outcome \in Outcomes(q) :
      /\ at[q] = "fetch"
      /\ entry' = IF Stored(q, outcome) THEN token[q] ELSE entry
      /\ Landed(q, outcome)
      /\ at' = [p \in Requests |->
                  IF p = q THEN AfterFetch(q, outcome)
                  ELSE IF at[p] = "waiting" /\ ~inflight' THEN "lookup" ELSE at[p]]
      /\ token' = [token EXCEPT ![q] = Carried(q, at'[q])]
      /\ UNCHANGED <<retrying, captured, over, generation, fetches, lastInvalid>>

\* invalidate: the entry goes and a new generation begins.
Invalidate == entry' = 0 /\ generation' = generation + 1 /\ lastInvalid' = fetches

\* The answer is not a 401, or there is none: `do` returns it.
Accepted(q) ==
    /\ at[q] = "send"
    /\ Goto(q, "done")
    /\ UNCHANGED <<retrying, token, captured, over, cacheVars>>

\* 401: the token that was sent is invalidated.  The first time `do` fetches another and sends
\* the request again, unless it finds no challenge or refuses the scope; the second time it returns.
Unauthorized(q) ==
    /\ at[q] = "send"
    /\ ~over[q]
    /\ IF token[q] # 0 THEN Invalidate ELSE UNCHANGED <<entry, generation, lastInvalid>>
    /\ token' = [token EXCEPT ![q] = 0]
    /\ \/ ~retrying[q] /\ Goto(q, "lookup") /\ retrying' = [retrying EXCEPT ![q] = TRUE]
       \/ Goto(q, "done") /\ UNCHANGED retrying
    /\ UNCHANGED <<captured, over, inflight, fetches>>

\* The caller's context is done: its requests fail, its wait ends.
CancelRequest(q) ==
    /\ ~over[q] /\ at[q] # "done"
    /\ over' = [over EXCEPT ![q] = TRUE]
    /\ UNCHANGED <<at, retrying, token, captured, cacheVars>>

RequestStep(q) ==
    \/ Begin(q) \/ Get(q) \/ Join(q) \/ LeaveWait(q) \/ EndFetch(q)
    \/ Accepted(q) \/ Unauthorized(q)

Finished == (\A q \in Requests : at[q] = "done") /\ UNCHANGED tokenVars

TokensNext ==
    \/ \E q \in Requests : RequestStep(q) \/ CancelRequest(q)
    \/ Finished

TokensSpec == TokensInit /\ [][TokensNext]_tokenVars

\* Goroutines run, and the client's time limit ends every HTTP exchange; nothing ends a wait but
\* the fetch it waits for.
TokensFairness == \A q \in Requests : WF_tokenVars(RequestStep(q))

TokensFairSpec == TokensSpec /\ TokensFairness

-----------------------------------------------------------------------------

TypeOK ==
    /\ at \in [Requests -> Stages]
    /\ retrying \in [Requests -> BOOLEAN]
    /\ token \in [Requests -> 0 .. fetches]
    /\ \A q \in Requests : at[q] \in {"new", "lookup", "join", "waiting"} => token[q] = 0
    /\ captured \in [Requests -> 0 .. generation]
    /\ over \in [Requests -> BOOLEAN]
    /\ entry \in 0 .. fetches
    /\ inflight \in BOOLEAN
    /\ generation \in Nat /\ fetches \in Nat
    /\ lastInvalid \in 0 .. fetches

(* One fetch at a time: two requests never ask for the key's token at once, and the inflight  *)
(* channel is there exactly while one of them does, so nobody waits for a fetch that is over. *)
SingleFlight ==
    /\ \A p, q \in Requests : at[p] = "fetch" /\ at[q] = "fetch" => p = q
    /\ inflight <=> \E q \in Requests : at[q] = "fetch"

(* A token whose fetch began before the last invalidation is not in the cache: the answer of a *)
(* fetch that raced a 401 is not stored, however late it comes (token_cache.go 91-95).         *)
CacheCurrent == entry # 0 => entry > lastInvalid

(* Nor is a request ever handed such a token, by the cache or by its own fetch: what it sends *)
(* is newer than every token that had been rejected when it got it (token_cache.go 96-104).   *)
HandedCurrent ==
    [][\A q \in Requests : at[q] # "send" /\ at'[q] = "send" /\ token'[q] # 0
                             => token'[q] > lastInvalid]_tokenVars

(* Every request comes to an end: none waits for ever behind a fetch that failed, was called *)
(* off, or whose token was invalidated on the way.                                           *)
RequestsEnd == \A q \in Requests : <>(at[q] = "done")
=============================================================================
