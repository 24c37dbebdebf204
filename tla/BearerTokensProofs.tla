------------------------ MODULE BearerTokensProofs --------------------------
(***************************************************************************)
(* Proofs about the token cache, for every set of requests: one fetch at a *)
(* time, and no token that a 401 had made suspect is cached or handed out. *)
(*                                                                         *)
(* CacheCurrent is not inductive: a fetch that began before an             *)
(* invalidation must not look as if it had begun after it.  FetchCurrent   *)
(* says what the captured generation stands for.                           *)
(***************************************************************************)
EXTENDS BearerTokens, TLAPS

\* A fetch of the present generation began after the last invalidation.
FetchCurrent ==
    \A q \in Requests : at[q] = "fetch" /\ captured[q] = generation => token[q] > lastInvalid

TokensInv == TypeOK /\ SingleFlight /\ CacheCurrent /\ FetchCurrent

\* No request is anywhere, and nothing is cached, at the beginning.
LEMMA TokensInvInit == TokensInit => TokensInv
<1> SUFFICES ASSUME TokensInit PROVE TokensInv
  OBVIOUS
<1> USE DEF TokensInit
<1>1. TypeOK
  <2>1. at \in [Requests -> Stages] /\ (\A q \in Requests : token[q] = 0)
    BY DEF Stages
  <2>2. /\ retrying \in [Requests -> BOOLEAN] /\ over \in [Requests -> BOOLEAN]
        /\ inflight \in BOOLEAN
    OBVIOUS
  <2>3. token \in [Requests -> 0 .. fetches] /\ captured \in [Requests -> 0 .. generation]
    OBVIOUS
  <2> QED BY <2>1, <2>2, <2>3 DEF TypeOK
<1>2. SingleFlight
  BY DEF SingleFlight
<1>3. CacheCurrent /\ FetchCurrent
  BY DEF CacheCurrent, FetchCurrent
<1> QED BY <1>1, <1>2, <1>3 DEF TokensInv

\* Every step of a request keeps the invariant, and so does the end of its context.
LEMMA TokensInvNext == TokensInv /\ [TokensNext]_tokenVars => TokensInv'
<1> SUFFICES ASSUME TokensInv, [TokensNext]_tokenVars
             PROVE  TokensInv'
  OBVIOUS
<1> USE DEF TokensInv, TypeOK, SingleFlight, CacheCurrent, FetchCurrent, Stages, Goto, cacheVars
<1>1. ASSUME NEW q \in Requests, Begin(q)
      PROVE  TokensInv'
  BY <1>1 DEF Begin
<1>2. ASSUME NEW q \in Requests, Get(q)
      PROVE  TokensInv'
  BY <1>2 DEF Get
<1>3. ASSUME NEW q \in Requests, Join(q)
      PROVE  TokensInv'
  <2>1. CASE inflight
    BY <1>3, <2>1 DEF Join
  <2>2. CASE ~inflight
    BY <1>3, <2>2 DEF Join
  <2> QED BY <2>1, <2>2
<1>4. ASSUME NEW q \in Requests, LeaveWait(q)
      PROVE  TokensInv'
  BY <1>4 DEF LeaveWait
<1>5. ASSUME NEW q \in Requests, EndFetch(q)
      PROVE  TokensInv'
  <2> PICK outcome \in Outcomes(q) :
        /\ at[q] = "fetch"
        /\ entry' = IF Stored(q, outcome) THEN token[q] ELSE entry
        /\ Landed(q, outcome)
        /\ at' = [p \in Requests |->
                    IF p = q THEN AfterFetch(q, outcome)
                    ELSE IF at[p] = "waiting" /\ ~inflight' THEN "lookup" ELSE at[p]]
        /\ token' = [token EXCEPT ![q] = Carried(q, at'[q])]
        /\ UNCHANGED <<retrying, captured, over, generation, fetches, lastInvalid>>
    BY <1>5 DEF EndFetch
  <2>1. at'[q] \in {"done", "lookup", "send"}
    BY DEF AfterFetch
  <2>2. \A p \in Requests : p # q => at[p] # "fetch" /\ at'[p] # "fetch"
    OBVIOUS
  <2>3. TypeOK'
    <3>1. at' \in [Requests -> Stages]
      BY <2>1 DEF Landed
    <3>2. token' \in [Requests -> 0 .. fetches']
      BY DEF Carried
    <3>3. \A p \in Requests : at'[p] \in {"new", "lookup", "join", "waiting"} => token'[p] = 0
      BY <2>1 DEF Carried
    <3>4. entry' \in 0 .. fetches' /\ inflight' \in BOOLEAN
      BY DEF Stored, Landed
    <3> QED BY <3>1, <3>2, <3>3, <3>4
  <2>4. SingleFlight'
    BY <2>1, <2>2 DEF Landed
  <2>5. CacheCurrent'
    BY DEF Stored
  <2>6. FetchCurrent'
    BY <2>1, <2>2
  <2> QED BY <2>3, <2>4, <2>5, <2>6
<1>6. ASSUME NEW q \in Requests, Accepted(q)
      PROVE  TokensInv'
  BY <1>6 DEF Accepted
<1>7. ASSUME NEW q \in Requests, Unauthorized(q)
      PROVE  TokensInv'
  <2>1. CASE token[q] = 0
    BY <1>7, <2>1 DEF Unauthorized
  <2>2. CASE token[q] # 0
    <3>1. /\ entry' = 0 /\ generation' = generation + 1 /\ lastInvalid' = fetches
          /\ at[q] = "send" /\ at' \in {[at EXCEPT ![q] = "lookup"], [at EXCEPT ![q] = "done"]}
          /\ token' = [token EXCEPT ![q] = 0]
          /\ retrying' \in {retrying, [retrying EXCEPT ![q] = TRUE]}
          /\ UNCHANGED <<captured, over, inflight, fetches>>
      BY <1>7, <2>2 DEF Unauthorized, Invalidate
    <3>2. TypeOK'
      <4>1. at' \in [Requests -> Stages] /\ retrying' \in [Requests -> BOOLEAN]
        BY <3>1
      <4>2. token' \in [Requests -> 0 .. fetches']
        BY <3>1
      <4>3. captured' \in [Requests -> 0 .. generation'] /\ generation' \in Nat
        BY <3>1
      <4>4. \A p \in Requests : at'[p] \in {"new", "lookup", "join", "waiting"} => token'[p] = 0
        BY <3>1
      <4> QED BY <3>1, <4>1, <4>2, <4>3, <4>4
    <3>3. SingleFlight'
      BY <3>1
    <3>4. FetchCurrent'
      BY <3>1
    <3> QED BY <3>1, <3>2, <3>3, <3>4
  <2> QED BY <2>1, <2>2
<1>8. ASSUME NEW q \in Requests, CancelRequest(q)
      PROVE  TokensInv'
  BY <1>8 DEF CancelRequest
<1>9. CASE UNCHANGED tokenVars
  BY <1>9 DEF tokenVars
<1> QED
  BY <1>1, <1>2, <1>3, <1>4, <1>5, <1>6, <1>7, <1>8, <1>9
     DEF TokensNext, RequestStep, Finished

\* One fetch at a time, and nobody waits for a fetch that is over.
THEOREM OneFetch == TokensSpec => []SingleFlight
<1>1. TokensInv => SingleFlight
  BY DEF TokensInv
<1> QED BY <1>1, TokensInvInit, TokensInvNext, PTL DEF TokensSpec

\* The types of the token cache.
THEOREM TokenTypes == TokensSpec => []TypeOK
<1>1. TokensInv => TypeOK
  BY DEF TokensInv
<1> QED BY <1>1, TokensInvInit, TokensInvNext, PTL DEF TokensSpec

\* No token whose fetch began before the last 401 is in the cache.
THEOREM CacheStaysCurrent == TokensSpec => []CacheCurrent
<1>1. TokensInv => CacheCurrent
  BY DEF TokensInv
<1> QED BY <1>1, TokensInvInit, TokensInvNext, PTL DEF TokensSpec

\* Nor is a request ever handed one, whichever way it comes by its token.
THEOREM HandedStaysCurrent == TokensSpec => HandedCurrent
<1>1. ASSUME TokensInv, [TokensNext]_tokenVars
      PROVE  [\A q \in Requests : at[q] # "send" /\ at'[q] = "send" /\ token'[q] # 0
                                    => token'[q] > lastInvalid]_tokenVars
  <2> SUFFICES ASSUME NEW r \in Requests,
                      at[r] # "send", at'[r] = "send", token'[r] # 0, TokensNext
               PROVE  token'[r] > lastInvalid
    BY <1>1 DEF tokenVars
  <2> USE <1>1 DEF TokensInv, TypeOK, CacheCurrent, FetchCurrent, Stages, Goto, cacheVars
  <2>1. ASSUME NEW q \in Requests, Begin(q) \/ Join(q) \/ LeaveWait(q) \/ Accepted(q)
        PROVE  token'[r] > lastInvalid
    BY <2>1 DEF Begin, Join, LeaveWait, Accepted
  <2>2. ASSUME NEW q \in Requests, Get(q)
        PROVE  token'[r] > lastInvalid
    BY <2>2 DEF Get
  <2>3. ASSUME NEW q \in Requests, EndFetch(q)
        PROVE  token'[r] > lastInvalid
    BY <2>3 DEF EndFetch, AfterFetch, Carried, Outcomes
  <2>4. ASSUME NEW q \in Requests, Unauthorized(q)
        PROVE  token'[r] > lastInvalid
    BY <2>4 DEF Unauthorized
  <2>5. ASSUME NEW q \in Requests, CancelRequest(q)
        PROVE  token'[r] > lastInvalid
    BY <2>5 DEF CancelRequest
  <2>6. CASE Finished
    BY <2>6 DEF Finished, tokenVars
  <2> QED BY <2>1, <2>2, <2>3, <2>4, <2>5, <2>6 DEF TokensNext, RequestStep
<1> QED BY <1>1, TokensInvInit, TokensInvNext, PTL DEF TokensSpec, HandedCurrent
=============================================================================
