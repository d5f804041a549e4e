------------------------------ MODULE TokenAuth ------------------------------
(***************************************************************************)
(* Access and refresh tokens of TokenService (internal/auth/               *)
(* token_service.go), the middlewares of internal/auth/middleware.go, and  *)
(* TokenCache (internal/auth/token_cache.go) over the Postgres store of    *)
(* internal/cache: concurrent requests that carry tokens, the answers of   *)
(* earlier validations they find in the cache, the time that passes        *)
(* between their steps, and restarts of the server, which the cache        *)
(* survives.                                                               *)
(***************************************************************************)
EXTENDS Integers

CONSTANTS Slots,       \* as many requests at a time; one slot serves many
          Foreign,     \* tokens that others signed, with any secret
          NoToken,
          Roles,       \* what claims may name as a role
          LoginRoles,  \* the sets of roles a login may grant
          Needs,       \* roles RequireRole may ask for; "" for none
          AccessExpiry, RefreshExpiry, \* lifetimes of the tokens
          CacheTTLs,   \* configured lifetime of an entry
          Latency,     \* bound on the time from reading the clock to what it is for
          MaxTime, LastLogin, MaxLogins, MaxRefreshes  \* bounds, for model checking

Absent == -1

(* A token: for access or for refreshing, when it was signed, the time of  *)
(* the login it goes back to if it goes back to one, the roles in its      *)
(* claims, the secret it is signed with and the service it is for.         *)
Tokens == [use : {"access", "refresh"}, at : Nat, login : Nat \cup {Absent},
           roles : SUBSET Roles, key : {"access", "refresh", "foreign"},
           service : {"rag-server", "other", "none"}]
OfLogin(t) == t.login # Absent
Exp(t) == t.at + (IF t.use = "refresh" THEN RefreshExpiry ELSE AccessExpiry)

(* What others sign goes back to no login, but may validate all the same:  *)
(* main.go gives TokenService no secrets, and the empty one is no secret.  *)
ASSUME AuthAssumption ==
    /\ Foreign \subseteq Tokens /\ \A t \in Foreign : ~OfLogin(t)
    /\ NoToken \notin Tokens
    /\ AccessExpiry \in Nat \ {0} /\ RefreshExpiry \in Nat \ {0}
    /\ CacheTTLs \subseteq Nat \ {0}
    /\ Latency \in Nat /\ MaxTime \in Nat /\ LastLogin \in Nat /\ MaxLogins \in Nat /\ MaxRefreshes \in Nat
    /\ LoginRoles \subseteq SUBSET Roles /\ "user" \in Roles

VARIABLES now,
          sameSecret, \* whether both kinds are signed with one secret
          CacheTTL,   \* also what the store takes for a lifetime that is not positive
          caching,    \* whether the server found a database for the cache
          issued,   \* the tokens there are
          cache,    \* when the entry of each cached token expires
          pc,
          token,    \* what each request carries
          row,      \* the expiry it read from the cache
          ttl,      \* the lifetime it computed,
          since,    \* and when it looked at the clock
          outcome,  \* [code, via, role] of the request the last step answered
          logins, refreshes   \* bounds

settings == <<sameSecret, CacheTTL, caching>>
bounds == <<logins, refreshes>>
request == <<token, row, ttl, since>>
vars == <<now, settings, issued, cache, pc, request, outcome, bounds>>

Outcome(code, via, role) == [code |-> code, via |-> via, role |-> role]
NoOutcome == Outcome(0, "none", "")
Empty == [t \in {} |-> Absent]
Entry(t) == IF t \in DOMAIN cache THEN cache[t] ELSE Absent
Without(t) == [x \in DOMAIN cache \ {t} |-> cache[x]]

(* main: the cache is there if the database answers and has the schema, in *)
(* which case CacheTTL is the configured default_ttl or five minutes, as   *)
(* for the store itself.                                                   *)
Init ==
    /\ now = 0
    /\ sameSecret \in BOOLEAN /\ CacheTTL \in CacheTTLs /\ caching \in BOOLEAN
    /\ issued = Foreign
    /\ cache = Empty
    /\ pc = [r \in Slots |-> "idle"]
    /\ token = [r \in Slots |-> NoToken]
    /\ row = [r \in Slots |-> Absent]
    /\ ttl = [r \in Slots |-> 0]
    /\ since = [r \in Slots |-> 0]
    /\ outcome = NoOutcome
    /\ logins = 0 /\ refreshes = 0

Goto(r, label) ==
    /\ pc' = [pc EXCEPT ![r] = label]
    /\ outcome' = NoOutcome

(* The request is answered, and what it held is gone. *)
Finish(r, code, via, role) ==
    /\ outcome' = Outcome(code, via, role)
    /\ pc' = [pc EXCEPT ![r] = "idle"]
    /\ token' = [token EXCEPT ![r] = NoToken]
    /\ row' = [row EXCEPT ![r] = Absent]
    /\ ttl' = [ttl EXCEPT ![r] = 0]
    /\ since' = [since EXCEPT ![r] = 0]

Answer(r, code, via) == Finish(r, code, via, "")

(* RequireRole, if the route asks for a role, looks for it among those in  *)
(* the request's context, where applyClaims put them.                      *)
RequireRole(r, roles, via) ==
    \E role \in Needs :
        IF role = "" \/ role \in roles THEN Finish(r, 200, via, role)
        ELSE Finish(r, 403, "role", role)

Pass(r, via) == RequireRole(r, token[r].roles, via)

-----------------------------------------------------------------------------
(* What needs no token: a path to skip; a header that is missing or has no *)
(* "Bearer "; and InternalAuthMiddleware, which compares X-Service-Token   *)
(* with a variable of the environment.                                     *)
SkipPath(r) ==
    /\ pc[r] = "idle"
    /\ RequireRole(r, {}, "open")
    /\ UNCHANGED <<now, settings, issued, cache, bounds>>

NoHeader(r) ==
    /\ pc[r] = "idle"
    /\ Answer(r, 401, "header")
    /\ UNCHANGED <<now, settings, issued, cache, bounds>>

Internal(r) ==
    /\ pc[r] = "idle"
    /\ \/ \E code \in {401, 500} : Answer(r, code, "header")
       \/ RequireRole(r, {"internal_service"}, "open")
    /\ UNCHANGED <<now, settings, issued, cache, bounds>>

(* VerifyTokenMiddleware; without a cache it is AuthMiddleware. *)
Receive(r) ==
    /\ pc[r] = "idle"
    /\ \E t \in issued : token' = [token EXCEPT ![r] = t]
    /\ Goto(r, IF caching THEN "read" ELSE "validate")
    /\ UNCHANGED <<now, settings, issued, cache, row, ttl, since, bounds>>

-----------------------------------------------------------------------------
(* TokenService. *)
NewToken(use, login, roles) ==
    [use |-> use, at |-> now, login |-> login, roles |-> roles, key |-> use,
     service |-> IF use = "access" THEN "rag-server" ELSE "none"]

(* GenerateTokenPair.  Only the access token has the roles. *)
Login ==
    /\ logins < MaxLogins /\ now <= LastLogin
    /\ \E roles \in LoginRoles :
        issued' = issued \cup {NewToken("refresh", now, {}), NewToken("access", now, roles)}
    /\ logins' = logins + 1
    /\ UNCHANGED <<now, settings, cache, pc, request, refreshes>>
    /\ outcome' = NoOutcome

Signed(t, key) == t.key = key \/ (sameSecret /\ {t.key, key} = {"access", "refresh"})

(* RefreshAccessToken: the signature and the expiry, the issuer, the       *)
(* audience.  A bug: the audience is not looked at. *)
Refreshable_AnyAudience(t) == Signed(t, "refresh") /\ now < Exp(t) /\ t.service # "other"
Refreshable(t) ==
    Signed(t, "refresh") /\ now < Exp(t) /\ t.service # "other" /\ t.use = "refresh"

AskRefresh(r) ==
    /\ pc[r] = "idle" /\ refreshes < MaxRefreshes
    /\ \E t \in issued :
        \/ /\ Refreshable(t)
           /\ token' = [token EXCEPT ![r] = t]
           /\ since' = [since EXCEPT ![r] = now]
           /\ Goto(r, "sign")
           /\ refreshes' = refreshes + 1
           /\ UNCHANGED <<row, ttl>>
        \/ /\ ~Refreshable(t)
           /\ Answer(r, 401, "refresh")
           /\ UNCHANGED refreshes
    /\ UNCHANGED <<now, settings, issued, cache, logins>>

(* Whatever roles the login had, the new token has "user". *)
SignAccess(r) ==
    /\ pc[r] = "sign"
    /\ issued' = issued \cup {NewToken("access", token[r].login, {"user"})}
    /\ Answer(r, 200, "refresh")
    /\ UNCHANGED <<now, settings, cache, bounds>>

-----------------------------------------------------------------------------
(* PostgresStore.Get: the row is read first and its expiry compared with   *)
(* the clock after that.                                                   *)
ReadCache(r) ==
    /\ pc[r] = "read"
    /\ row' = [row EXCEPT ![r] = Entry(token[r])]
    /\ Goto(r, IF Entry(token[r]) = Absent THEN "validate" ELSE "compare")
    /\ UNCHANGED <<now, settings, issued, cache, token, ttl, since, bounds>>

(* The one connection is busy with another request's query, or broken: the *)
(* error is ignored and the token validated.                               *)
ReadFails(r) ==
    /\ pc[r] = "read"
    /\ Goto(r, "validate")
    /\ UNCHANGED <<now, settings, issued, cache, request, bounds>>

Expired(r) == now > row[r]

AcceptCached(r) ==
    /\ pc[r] = "compare"
    /\ ~Expired(r)
    /\ Pass(r, "cache")
    /\ UNCHANGED <<now, settings, issued, cache, bounds>>

FindExpired(r) ==
    /\ pc[r] = "compare"
    /\ Expired(r)
    /\ Goto(r, "delete")
    /\ row' = [row EXCEPT ![r] = Absent]
    /\ UNCHANGED <<now, settings, issued, cache, token, ttl, since, bounds>>

(* Deletes whatever is under the key by now; an error is ignored.          *)
(* A bug: the cache is asked again. *)
DeleteExpired_Again(r) ==
    /\ pc[r] = "delete"
    /\ cache' = Without(token[r]) \/ UNCHANGED cache
    /\ Goto(r, "read")
    /\ UNCHANGED <<now, settings, issued, request, bounds>>
DeleteExpired(r) ==
    /\ pc[r] = "delete"
    /\ cache' = Without(token[r]) \/ UNCHANGED cache
    /\ Goto(r, "validate")
    /\ UNCHANGED <<now, settings, issued, request, bounds>>

-----------------------------------------------------------------------------
(* ValidateAccessToken. *)
Valid(t) == Signed(t, "access") /\ now < Exp(t)
Ours(t) == t.service = "rag-server"

Refuse(r) ==
    /\ pc[r] = "validate"
    /\ \/ ~Valid(token[r]) /\ Answer(r, 401, "validation")
       \/ Valid(token[r]) /\ ~Ours(token[r]) /\ Answer(r, 403, "validation")
    /\ UNCHANGED <<now, settings, issued, cache, bounds>>

Validate(r) ==
    /\ pc[r] = "validate"
    /\ Valid(token[r])
    /\ Ours(token[r])
    /\ \/ caching /\ Goto(r, "lifetime") /\ UNCHANGED request
       \/ ~caching /\ Pass(r, "validation")
    /\ UNCHANGED <<now, settings, issued, cache, bounds>>

(* A bug: the entry lives as long as configured, whatever the token does. *)
Lifetime_Configured(t) == CacheTTL
Lifetime(t) == IF Exp(t) - now < CacheTTL THEN Exp(t) - now ELSE CacheTTL

(* A bug: a token that expired meanwhile is cached all the same. *)
Cacheable_Always(t) == TRUE
Cacheable(t) == Lifetime(t) > 0

ComputeLifetime(r) ==
    /\ pc[r] = "lifetime"
    /\ IF Cacheable(token[r])
       THEN /\ ttl' = [ttl EXCEPT ![r] = Lifetime(token[r])]
            /\ since' = [since EXCEPT ![r] = now]
            /\ Goto(r, "write")
            /\ UNCHANGED <<token, row>>
       ELSE Pass(r, "validation")
    /\ UNCHANGED <<now, settings, issued, cache, bounds>>

(* PostgresStore.Set: the expiry is counted from the time of the write.    *)
(* Its error is ignored.                                                   *)
WriteCache(r) ==
    /\ pc[r] = "write"
    /\ \/ LET expires == now + (IF ttl[r] <= 0 THEN CacheTTL ELSE ttl[r])
           IN  cache' = [t \in DOMAIN cache \cup {token[r]} |->
                            IF t = token[r] THEN expires ELSE cache[t]]
       \/ UNCHANGED cache
    /\ Pass(r, "validation")
    /\ UNCHANGED <<now, settings, issued, bounds>>

-----------------------------------------------------------------------------
(* The table is unlogged: a crash of the database empties it. *)
LoseCache ==
    /\ cache' = Empty
    /\ UNCHANGED <<now, settings, issued, pc, request, bounds>>
    /\ outcome' = NoOutcome

PurgeExpired ==
    /\ cache' = [t \in {x \in DOMAIN cache : cache[x] > now} |-> cache[t]]
    /\ UNCHANGED <<now, settings, issued, pc, request, bounds>>
    /\ outcome' = NoOutcome

(* The server is restarted, and may or may not find its database again.    *)
(* Requests in progress are lost; what is in the cache stays.              *)
Restart ==
    /\ caching' \in BOOLEAN
    /\ pc' = [r \in Slots |-> "idle"] /\ token' = [r \in Slots |-> NoToken]
    /\ row' = [r \in Slots |-> Absent] /\ ttl' = [r \in Slots |-> 0]
    /\ since' = [r \in Slots |-> 0]
    /\ outcome' = NoOutcome
    /\ UNCHANGED <<now, sameSecret, CacheTTL, issued, cache, bounds>>

(* Time passes between any two steps; no more than Latency between the     *)
(* check of a refresh token or the computation of a lifetime and the token *)
(* or the entry it is for.                                                 *)
Tick ==
    /\ now < MaxTime
    /\ \A r \in Slots : pc[r] \in {"sign", "write"} => now < since[r] + Latency
    /\ now' = now + 1
    /\ UNCHANGED <<settings, issued, cache, pc, request, bounds>>
    /\ outcome' = NoOutcome

Arrive(r) == SkipPath(r) \/ NoHeader(r) \/ Internal(r) \/ Receive(r) \/ AskRefresh(r)

Step(r) ==
    \/ SignAccess(r) \/ ReadCache(r) \/ AcceptCached(r) \/ FindExpired(r) \/ DeleteExpired(r)
    \/ Refuse(r) \/ Validate(r) \/ ComputeLifetime(r) \/ WriteCache(r)

Next ==
    \/ \E r \in Slots : Arrive(r) \/ Step(r) \/ ReadFails(r)
    \/ Login \/ LoseCache \/ PurgeExpired \/ Restart
    \/ Tick

Spec == Init /\ [][Next]_vars

(* Handlers keep running; every query of the cache returns, if with an     *)
(* error.  Nobody has to send a request, and the clock may stand still.    *)
FairSpec == Spec /\ \A r \in Slots : WF_vars(Step(r))

-----------------------------------------------------------------------------
Phases == {"idle", "sign", "read", "compare", "delete", "validate", "lifetime", "write"}

(* What each variable holds; only tokens the middleware accepts are being  *)
(* cached, with a lifetime that is positive.                               *)
TypeOK ==
    /\ now \in Nat
    /\ sameSecret \in BOOLEAN /\ CacheTTL \in CacheTTLs /\ caching \in BOOLEAN
    /\ issued \subseteq Tokens /\ DOMAIN cache \subseteq issued
    /\ \A t \in DOMAIN cache : cache[t] \in Nat
    /\ pc \in [Slots -> Phases]
    /\ token \in [Slots -> issued \cup {NoToken}]
    /\ row \in [Slots -> Nat \cup {Absent}]
    /\ ttl \in [Slots -> Int]
    /\ since \in [Slots -> Nat]
    /\ outcome \in [code : {0, 200, 401, 403, 500},
                  via : {"none", "open", "header", "cache", "validation", "role", "refresh"},
                  role : Needs \cup {""}]
    /\ \A r \in Slots :
        /\ pc[r] # "idle" <=> token[r] # NoToken
        /\ pc[r] = "compare" => row[r] # Absent
        /\ pc[r] = "write" => ttl[r] > 0 /\ Signed(token[r], "access") /\ Ours(token[r])

(* The request that r holds is answered in this step. *)
Answers(r, code, via) ==
    /\ pc[r] # "idle" /\ pc'[r] = "idle"
    /\ outcome'.code = code /\ outcome'.via = via

(* The cache answers only for tokens that validation accepted before, and  *)
(* not for longer after they expired than a write may be delayed; and no   *)
(* entry answers beyond the configured lifetime.                           *)
CacheAgrees ==
    /\ [](\A t \in DOMAIN cache : cache[t] <= now + CacheTTL)
    /\ [][\A r \in Slots : Answers(r, 200, "cache") =>
            /\ Signed(token[r], "access") /\ Ours(token[r])
            /\ now <= Exp(token[r]) + Latency]_vars

(* A login ends: however often it is refreshed, no access token that goes  *)
(* back to it is signed once the refresh token of that login has expired,  *)
(* but for the time a signature takes; and neither kind of its tokens is   *)
(* taken for the other, even when both are signed with one secret.         *)
SessionEnds ==
    /\ [](\A t \in issued : OfLogin(t) =>
            /\ t.use = "refresh" => t.at = t.login
            /\ t.use = "access" => t.at < t.login + RefreshExpiry + Latency \/ t.at = t.login)
    /\ [][\A r \in Slots : \A via \in {"cache", "validation", "refresh"} :
            Answers(r, 200, via) /\ OfLogin(token[r]) =>
                (token[r].use = "refresh" <=> via = "refresh")]_vars

(* Roles other than "user" end with the first access token of a login: no  *)
(* refresh carries them on, and the cache honours them no longer than a    *)
(* write may be delayed.                                                   *)
RolesEnd ==
    [][\A r \in Slots : \A via \in {"cache", "validation"} :
        Answers(r, 200, via) /\ OfLogin(token[r]) /\ outcome'.role \notin {"", "user"} =>
            /\ token[r].at = token[r].login
            /\ via = "cache" => now <= token[r].login + AccessExpiry + Latency]_vars

(* Every request is answered, whatever the cache does, or is lost in a     *)
(* restart: its slot is free again, time and again.                        *)
Answered == \A r \in Slots : []<>(pc[r] = "idle")
=============================================================================
