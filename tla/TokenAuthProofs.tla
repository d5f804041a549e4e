--------------------------- MODULE TokenAuthProofs ---------------------------
(* Safety of module TokenAuth, for any number of requests at a time, any   *)
(* tokens, lifetimes and delays.                                           *)
EXTENDS TokenAuth, TLAPS

Accepted(t) == Signed(t, "access") /\ Ours(t)

(* What goes back to a login: its refresh token, and access tokens, of     *)
(* which those signed later have "user" only.                              *)
Genuine(t) ==
    /\ t.key = t.use /\ t.service = (IF t.use = "access" THEN "rag-server" ELSE "none")
    /\ t.use = "refresh" => t.at = t.login
    /\ t.use = "access" =>
        t.at = t.login \/ (t.at < t.login + RefreshExpiry + Latency /\ t.roles = {"user"})
AllGenuine == \A t \in issued : OfLogin(t) => Genuine(t)

(* An entry is of a token that validation accepts, and outlives neither    *)
(* the token, but for the delay of its write, nor the configured lifetime. *)
EntriesSound ==
    \A t \in DOMAIN cache :
        /\ Accepted(t)
        /\ cache[t] <= Exp(t) + Latency
        /\ cache[t] <= now + CacheTTL

(* What a request found out stays true of its token while it goes on. *)
FoundOut(r) ==
    /\ pc[r] \in {"compare", "lifetime", "write"} => Accepted(token[r])
    /\ pc[r] = "compare" => row[r] <= Exp(token[r]) + Latency
    /\ pc[r] = "write" =>
        /\ ttl[r] <= CacheTTL /\ since[r] + ttl[r] <= Exp(token[r])
        /\ now <= since[r] + Latency
    /\ pc[r] = "sign" =>
        /\ token[r].use = "refresh"
        /\ since[r] < Exp(token[r]) /\ now <= since[r] + Latency

IInv == TypeOK /\ AllGenuine /\ EntriesSound /\ \A r \in Slots : FoundOut(r)

-----------------------------------------------------------------------------
OutcomeType ==
    [code : {0, 200, 401, 403, 500},
     via : {"none", "open", "header", "cache", "validation", "role", "refresh"},
     role : Needs \cup {""}]

(* The type invariant, as what there is and what each request holds.       *)
Globals ==
    /\ now \in Nat
    /\ sameSecret \in BOOLEAN /\ CacheTTL \in CacheTTLs /\ caching \in BOOLEAN
    /\ issued \subseteq Tokens /\ DOMAIN cache \subseteq issued
    /\ \A t \in DOMAIN cache : cache[t] \in Nat
Arrays ==
    /\ pc \in [Slots -> Phases]
    /\ token \in [Slots -> issued \cup {NoToken}]
    /\ row \in [Slots -> Nat \cup {Absent}]
    /\ ttl \in [Slots -> Int]
    /\ since \in [Slots -> Nat]
Holds(r) ==
    /\ pc[r] # "idle" <=> token[r] # NoToken
    /\ pc[r] = "compare" => row[r] # Absent
    /\ pc[r] = "write" => ttl[r] > 0 /\ Signed(token[r], "access") /\ Ours(token[r])

LEMMA TypeParts ==
    TypeOK <=> Globals /\ Arrays /\ outcome \in OutcomeType /\ \A r \in Slots : Holds(r)
BY DEF TypeOK, Globals, Arrays, OutcomeType, Holds

LEMMA TypePartsNext ==
    TypeOK' <=> Globals' /\ Arrays' /\ outcome' \in OutcomeType /\ \A r \in Slots : Holds(r)'
BY DEF TypeOK, Globals, Arrays, OutcomeType, Holds

(* Times are numbers. *)
LEMMA TokenFacts ==
    ASSUME NEW t \in Tokens
    PROVE  /\ t.at \in Nat /\ t.login \in Nat \cup {Absent} /\ t.roles \subseteq Roles
           /\ t.use \in {"access", "refresh"} /\ Exp(t) \in Nat
           /\ t.use = "access" => Exp(t) = t.at + AccessExpiry
           /\ t.use = "refresh" => Exp(t) = t.at + RefreshExpiry
           /\ t # NoToken
<1>1. /\ t.at \in Nat /\ t.login \in Nat \cup {Absent} /\ t.roles \subseteq Roles
      /\ t.use \in {"access", "refresh"}
  BY DEF Tokens
<1>2. AccessExpiry \in Nat /\ RefreshExpiry \in Nat /\ NoToken \notin Tokens
  BY AuthAssumption
<1> QED
  BY <1>1, <1>2 DEF Exp

(* The request of r is over, and what it held is gone. *)
Over(r) ==
    /\ pc' = [pc EXCEPT ![r] = "idle"] /\ token' = [token EXCEPT ![r] = NoToken]
    /\ row' = [row EXCEPT ![r] = Absent] /\ ttl' = [ttl EXCEPT ![r] = 0]
    /\ since' = [since EXCEPT ![r] = 0]

LEMMA Finishing ==
    ASSUME NEW r \in Slots, NEW code, NEW via, NEW role, Finish(r, code, via, role)
    PROVE  Over(r) /\ outcome' = Outcome(code, via, role)
BY DEF Finish, Over

LEMMA HeaderOutcome == \A code \in {401, 500} : Outcome(code, "header", "") \in OutcomeType
BY DEF Outcome, OutcomeType

LEMMA ValidationOutcome ==
    \A code \in {401, 403} : Outcome(code, "validation", "") \in OutcomeType
BY DEF Outcome, OutcomeType

LEMMA RefreshOutcome == \A code \in {200, 401} : Outcome(code, "refresh", "") \in OutcomeType
BY DEF Outcome, OutcomeType

LEMMA PassedOutcome ==
    \A via \in {"open", "cache", "validation"}, role \in Needs :
        Outcome(200, via, role) \in OutcomeType
BY DEF Outcome, OutcomeType

LEMMA RoleOutcome == \A role \in Needs : Outcome(403, "role", role) \in OutcomeType
BY ZenonT(40) DEF Outcome, OutcomeType

LEMMA Answering ==
    ASSUME NEW r \in Slots, NEW code, NEW via, Answer(r, code, via)
    PROVE  Over(r) /\ outcome' = Outcome(code, via, "")
BY Finishing DEF Answer

LEMMA Requiring ==
    ASSUME NEW r \in Slots, NEW roles, NEW via \in {"open", "cache", "validation"},
           RequireRole(r, roles, via)
    PROVE  /\ Over(r) /\ outcome' \in OutcomeType
           /\ \E role \in Needs :
                \/ (role = "" \/ role \in roles) /\ outcome' = Outcome(200, via, role)
                \/ role \notin roles /\ outcome' = Outcome(403, "role", role)
<1>1. PICK role \in Needs :
        IF role = "" \/ role \in roles THEN Finish(r, 200, via, role)
        ELSE Finish(r, 403, "role", role)
  BY DEF RequireRole
<1>2. Outcome(200, via, role) \in OutcomeType
  BY <1>1, PassedOutcome, ZenonT(40)
<1>5. Outcome(403, "role", role) \in OutcomeType
  BY <1>1, RoleOutcome
<1>3. CASE role = "" \/ role \in roles
  <2>1. Over(r) /\ outcome' = Outcome(200, via, role)
    BY <1>1, <1>3, Finishing, ZenonT(40)
  <2> QED
    BY <1>1, <1>2, <1>3, <2>1
<1>4. CASE ~ (role = "" \/ role \in roles)
  <2>1. Over(r) /\ outcome' = Outcome(403, "role", role)
    BY <1>1, <1>4, Finishing, ZenonT(40)
  <2> QED
    BY <1>1, <1>5, <1>4, <2>1
<1> QED
  BY <1>3, <1>4

-----------------------------------------------------------------------------
(* The steps of a request: the last of them, and those that go on. *)
SlotStep(r) == Arrive(r) \/ Step(r) \/ ReadFails(r)

Ends(r) ==
    \/ SkipPath(r) \/ NoHeader(r) \/ Internal(r) \/ AcceptCached(r) \/ Refuse(r)
    \/ SignAccess(r) \/ WriteCache(r)
    \/ Over(r) /\ outcome' \in OutcomeType /\ pc[r] # "sign"
       /\ UNCHANGED <<now, settings, issued, cache>>

LEMMA Ending ==
    ASSUME NEW r \in Slots, Ends(r)
    PROVE  Over(r) /\ outcome' \in OutcomeType /\ UNCHANGED <<now, settings>>
<1>1. CASE SkipPath(r)
  BY <1>1, Requiring DEF SkipPath
<1>2. CASE NoHeader(r)
  <2>1. Answer(r, 401, "header") /\ UNCHANGED <<now, settings>>
    BY <1>2 DEF NoHeader
  <2>2. Over(r) /\ outcome' = Outcome(401, "header", "")
    BY <2>1, Answering, ZenonT(40)
  <2>3. outcome' \in OutcomeType
    BY <2>2, HeaderOutcome, ZenonT(40)
  <2> QED
    BY <2>1, <2>2, <2>3
<1>3. CASE Internal(r)
  <2>1. CASE \E code \in {401, 500} : Answer(r, code, "header")
    <3>1. PICK code \in {401, 500} : Answer(r, code, "header")
      BY <2>1
    <3>2. Over(r) /\ outcome' = Outcome(code, "header", "")
      BY <3>1, Answering
    <3>3. outcome' \in OutcomeType
      BY <3>2, HeaderOutcome, ZenonT(40)
    <3> QED
      BY <1>3, <3>2, <3>3 DEF Internal
  <2>2. CASE RequireRole(r, {"internal_service"}, "open")
    BY <1>3, <2>2, Requiring DEF Internal
  <2> QED
    BY <1>3, <2>1, <2>2 DEF Internal
<1>4. CASE AcceptCached(r)
  BY <1>4, Requiring DEF AcceptCached, Pass
<1>5. CASE Refuse(r)
  <2>1. PICK code \in {401, 403} : Answer(r, code, "validation")
    BY <1>5 DEF Refuse
  <2>2. Over(r) /\ outcome' = Outcome(code, "validation", "")
    BY <2>1, Answering
  <2>3. outcome' \in OutcomeType
    BY <2>1, <2>2, ValidationOutcome, ZenonT(40)
  <2> QED
    BY <1>5, <2>2, <2>3 DEF Refuse
<1>6. CASE SignAccess(r)
  <2>1. Answer(r, 200, "refresh") /\ UNCHANGED <<now, settings>>
    BY <1>6 DEF SignAccess
  <2>2. Over(r) /\ outcome' = Outcome(200, "refresh", "")
    BY <2>1, Answering
  <2>3. outcome' \in OutcomeType
    BY <2>2, RefreshOutcome
  <2> QED
    BY <2>1, <2>2, <2>3
<1>7. CASE WriteCache(r)
  BY <1>7, Requiring DEF WriteCache, Pass
<1>8. CASE Over(r) /\ outcome' \in OutcomeType /\ UNCHANGED <<now, settings, issued, cache>>
  BY <1>8
<1> QED
  BY <1>1, <1>2, <1>3, <1>4, <1>5, <1>6, <1>7, <1>8 DEF Ends

(* What the steps change that go on with the request. *)
Waits(r, phases) ==
    /\ \E p \in phases : pc' = [pc EXCEPT ![r] = p]
    /\ outcome' = NoOutcome /\ UNCHANGED <<now, settings, issued>>

LEMMA Going ==
    ASSUME TypeOK, NEW r \in Slots, SlotStep(r), ~ Ends(r)
    PROVE  \/ /\ Receive(r) /\ Waits(r, {"read", "validate"})
              /\ \E t \in issued : token' = [token EXCEPT ![r] = t]
              /\ UNCHANGED <<row, ttl, since, cache>>
           \/ /\ AskRefresh(r) /\ Waits(r, {"sign"})
              /\ \E t \in issued : Refreshable(t) /\ token' = [token EXCEPT ![r] = t]
              /\ since' = [since EXCEPT ![r] = now]
              /\ UNCHANGED <<row, ttl, cache>>
           \/ /\ ReadCache(r) /\ pc[r] = "read"
              /\ Waits(r, {IF Entry(token[r]) = Absent THEN "validate" ELSE "compare"})
              /\ row' = [row EXCEPT ![r] = Entry(token[r])]
              /\ UNCHANGED <<token, ttl, since, cache>>
           \/ /\ ReadFails(r) /\ pc[r] = "read" /\ Waits(r, {"validate"})
              /\ UNCHANGED <<request, cache>>
           \/ /\ FindExpired(r) /\ pc[r] = "compare" /\ Waits(r, {"delete"})
              /\ row' = [row EXCEPT ![r] = Absent]
              /\ UNCHANGED <<token, ttl, since, cache>>
           \/ /\ DeleteExpired(r) /\ pc[r] = "delete" /\ Waits(r, {"validate"})
              /\ cache' = Without(token[r]) \/ UNCHANGED cache
              /\ UNCHANGED request
           \/ /\ Validate(r) /\ pc[r] = "validate" /\ Waits(r, {"lifetime"})
              /\ Valid(token[r]) /\ Ours(token[r])
              /\ UNCHANGED <<request, cache>>
           \/ /\ ComputeLifetime(r) /\ pc[r] = "lifetime" /\ Waits(r, {"write"})
              /\ Cacheable(token[r])
              /\ ttl' = [ttl EXCEPT ![r] = Lifetime(token[r])]
              /\ since' = [since EXCEPT ![r] = now]
              /\ UNCHANGED <<token, row, cache>>
<1>1. CASE Receive(r)
  BY <1>1 DEF Receive, Goto, Waits
<1>2. CASE AskRefresh(r)
  <2>1. PICK t \in issued :
        \/ /\ Refreshable(t)
           /\ token' = [token EXCEPT ![r] = t]
           /\ since' = [since EXCEPT ![r] = now]
           /\ Goto(r, "sign")
           /\ UNCHANGED <<row, ttl>>
        \/ Answer(r, 401, "refresh")
    BY <1>2 DEF AskRefresh
  <2>2. UNCHANGED <<now, settings, issued, cache>> /\ pc[r] = "idle"
    BY <1>2 DEF AskRefresh
  <2>3. ~ Answer(r, 401, "refresh")
    <3>1. ~ (Over(r) /\ outcome' \in OutcomeType)
      BY <2>2 DEF Ends
    <3> QED
      BY <3>1, Answering, RefreshOutcome, ZenonT(40)
  <2> QED
    BY <1>2, <2>1, <2>2, <2>3 DEF Goto, Waits
<1>3. CASE ReadCache(r)
  BY <1>3 DEF ReadCache, Goto, Waits
<1>4. CASE ReadFails(r)
  BY <1>4 DEF ReadFails, Goto, Waits
<1>5. CASE FindExpired(r)
  BY <1>5 DEF FindExpired, Goto, Waits
<1>6. CASE DeleteExpired(r)
  BY <1>6 DEF DeleteExpired, Goto, Waits
<1>7. CASE Validate(r)
  <2>1. ~ Pass(r, "validation")
    BY <1>7, Requiring DEF Pass, Ends, Validate
  <2> QED
    BY <1>7, <2>1 DEF Validate, Goto, Waits
<1>8. CASE ComputeLifetime(r)
  <2>1. ~ Pass(r, "validation")
    BY <1>8, Requiring DEF Pass, Ends, ComputeLifetime
  <2> QED
    BY <1>8, <2>1 DEF ComputeLifetime, Goto, Waits
<1> QED
  BY <1>1, <1>2, <1>3, <1>4, <1>5, <1>6, <1>7, <1>8 DEF SlotStep, Arrive, Step, Ends

-----------------------------------------------------------------------------
LEMMA InitInv == Init => IInv
<1> SUFFICES ASSUME Init PROVE IInv
  OBVIOUS
<1>1. DOMAIN cache = {}
  BY DEF Init, Empty
<1>2. Globals
  BY <1>1, AuthAssumption DEF Init, Globals
<1>3. Arrays
  BY DEF Init, Arrays, Phases
<1>4. outcome \in OutcomeType
  BY DEF Init, NoOutcome, Outcome, OutcomeType
<1>5. \A r \in Slots : Holds(r) /\ FoundOut(r)
  BY DEF Init, Holds, FoundOut
<1>6. AllGenuine /\ EntriesSound
  BY <1>1, AuthAssumption DEF Init, AllGenuine, EntriesSound
<1> QED
  BY <1>2, <1>3, <1>4, <1>5, <1>6, TypeParts DEF IInv

LEMMA SignedType ==
    ASSUME now \in Nat, NEW login \in Nat \cup {Absent}, NEW roles \in SUBSET Roles
    PROVE  /\ NewToken("access", login, roles) \in Tokens
           /\ NewToken("refresh", login, roles) \in Tokens
<1>1. /\ [use |-> "access", at |-> now, login |-> login, roles |-> roles, key |-> "access",
          service |-> "rag-server"] \in Tokens
      /\ [use |-> "refresh", at |-> now, login |-> login, roles |-> roles, key |-> "refresh",
          service |-> "none"] \in Tokens
  BY DEF Tokens
<1> QED
  BY <1>1 DEF NewToken

(* The only tokens to come are those a login or a refresh signs. *)
LEMMA SlotIssues ==
    ASSUME NEW r \in Slots, SlotStep(r)
    PROVE  \/ UNCHANGED issued
           \/ SignAccess(r) /\ issued' = issued \cup {NewToken("access", token[r].login, {"user"})}
BY DEF SlotStep, Arrive, Step, SkipPath, NoHeader, Internal, Receive, AskRefresh, ReadFails,
       SignAccess, ReadCache, AcceptCached, FindExpired, DeleteExpired, Refuse, Validate,
       ComputeLifetime, WriteCache

WrittenAt(r) == now + (IF ttl[r] <= 0 THEN CacheTTL ELSE ttl[r])

(* The only entries to come are those WriteCache writes. *)
LEMMA SlotCaches ==
    ASSUME NEW r \in Slots, SlotStep(r)
    PROVE  \/ UNCHANGED cache
           \/ cache' = Without(token[r])
           \/ WriteCache(r) /\ cache' = [t \in DOMAIN cache \cup {token[r]} |->
                                           IF t = token[r] THEN WrittenAt(r) ELSE cache[t]]
BY DEF SlotStep, Arrive, Step, SkipPath, NoHeader, Internal, Receive, AskRefresh, ReadFails,
       SignAccess, ReadCache, AcceptCached, FindExpired, DeleteExpired, Refuse, Validate,
       ComputeLifetime, WriteCache, WrittenAt

(* A request in progress carries a token. *)
LEMMA Carried ==
    ASSUME TypeOK, NEW r \in Slots, pc[r] # "idle"
    PROVE  token[r] \in issued /\ token[r] \in Tokens
BY TypeParts DEF Holds, Arrays, Globals

LEMMA SlotGlobals ==
    ASSUME IInv, NEW r \in Slots, SlotStep(r)
    PROVE  Globals' /\ issued \subseteq issued' /\ UNCHANGED <<now, settings>>
<1>1. TypeOK /\ Globals /\ Arrays /\ Holds(r)
  BY TypeParts DEF IInv
<1>2. UNCHANGED <<now, settings>>
  BY <1>1, Ending, Going DEF Waits
<1>3. issued \subseteq issued' /\ issued' \subseteq Tokens
  <2>1. CASE UNCHANGED issued
    BY <1>1, <2>1 DEF Globals
  <2>2. CASE SignAccess(r) /\ issued' = issued \cup {NewToken("access", token[r].login, {"user"})}
    <3>1. token[r] \in Tokens
      BY <1>1, <2>2, Carried DEF SignAccess
    <3>2. token[r].login \in Nat \cup {Absent} /\ now \in Nat
      BY <1>1, <3>1, TokenFacts DEF Globals
    <3>3. {"user"} \in SUBSET Roles
      BY AuthAssumption
    <3>4. NewToken("access", token[r].login, {"user"}) \in Tokens
      BY <3>2, <3>3, SignedType
    <3> QED
      BY <1>1, <2>2, <3>4 DEF Globals
  <2> QED
    BY <2>1, <2>2, SlotIssues
<1>4. DOMAIN cache' \subseteq issued' /\ \A t \in DOMAIN cache' : cache'[t] \in Nat
  <2>1. CASE UNCHANGED cache
    BY <1>1, <1>3, <2>1 DEF Globals
  <2>2. CASE cache' = Without(token[r])
    BY <1>1, <1>3, <2>2 DEF Globals, Without
  <2>3. CASE WriteCache(r) /\ cache' = [t \in DOMAIN cache \cup {token[r]} |->
                                           IF t = token[r] THEN WrittenAt(r) ELSE cache[t]]
    <3>1. pc[r] = "write"
      BY <2>3 DEF WriteCache
    <3>2. WrittenAt(r) \in Nat
      BY <1>1, <3>1 DEF WrittenAt, Holds, Globals, Arrays
    <3>3. token[r] \in issued
      BY <1>1, <3>1, Carried
    <3> QED
      BY <1>1, <1>3, <2>3, <3>2, <3>3 DEF Globals
  <2> QED
    BY <2>1, <2>2, <2>3, SlotCaches
<1> QED
  BY <1>1, <1>2, <1>3, <1>4 DEF Globals, settings

(* A step of a request is nothing to the others. *)
Apart(r) ==
    \A d \in Slots \ {r} :
        /\ pc'[d] = pc[d] /\ token'[d] = token[d] /\ row'[d] = row[d]
        /\ ttl'[d] = ttl[d] /\ since'[d] = since[d]

LEMMA Writable ==
    ASSUME IInv, NEW t \in Tokens, Cacheable(t)
    PROVE  /\ Lifetime(t) \in Int /\ Lifetime(t) > 0 /\ Lifetime(t) <= CacheTTL
           /\ now + Lifetime(t) <= Exp(t)
<1>1. now \in Nat /\ CacheTTL \in Nat
  BY AuthAssumption, TypeParts DEF IInv, Globals
<1>2. Exp(t) \in Nat
  BY TokenFacts
<1> QED
  BY <1>1, <1>2 DEF Cacheable, Lifetime

LEMMA EntryType == ASSUME TypeOK, NEW t PROVE Entry(t) \in Nat \cup {Absent}
BY TypeParts DEF Entry, Globals

LEMMA SlotArrays ==
    ASSUME IInv, NEW r \in Slots, SlotStep(r)
    PROVE  Arrays' /\ outcome' \in OutcomeType /\ Apart(r)
<1>1. TypeOK /\ Arrays /\ now \in Nat
  BY TypeParts DEF IInv, Globals
<1>2. issued \subseteq issued'
  BY SlotGlobals
<1>3. CASE Ends(r)
  <2>1. Over(r) /\ outcome' \in OutcomeType
    BY <1>3, Ending
  <2>2. /\ pc' \in [Slots -> Phases] /\ row' \in [Slots -> Nat \cup {Absent}]
        /\ ttl' \in [Slots -> Int] /\ since' \in [Slots -> Nat]
    BY <1>1, <2>1 DEF Over, Arrays, Phases
  <2>3. token' \in [Slots -> issued' \cup {NoToken}]
    BY <1>1, <1>2, <2>1 DEF Over, Arrays
  <2>4. Apart(r)
    BY <1>1, <2>1 DEF Over, Arrays, Apart
  <2> QED
    BY <2>1, <2>2, <2>3, <2>4 DEF Arrays
<1>4. CASE ~ Ends(r)
  <2>1. \E phases \in SUBSET Phases : Waits(r, phases)
    BY <1>1, <1>4, Going DEF Phases
  <2>2. PICK p \in Phases : pc' = [pc EXCEPT ![r] = p] /\ outcome' = NoOutcome
    BY <2>1 DEF Waits
  <2>3. UNCHANGED token \/ \E t \in issued : token' = [token EXCEPT ![r] = t]
    BY <1>1, <1>4, Going DEF request
  <2>4. UNCHANGED row \/ \E w \in Nat \cup {Absent} : row' = [row EXCEPT ![r] = w]
    <3>1. Entry(token[r]) \in Nat \cup {Absent}
      BY <1>1, EntryType
    <3> QED
      BY <1>1, <1>4, <3>1, Going DEF request
  <2>5. UNCHANGED ttl \/ \E l \in Int : ttl' = [ttl EXCEPT ![r] = l]
    <3>1. pc[r] = "lifetime" /\ Cacheable(token[r]) => Lifetime(token[r]) \in Int
      BY <1>1, Carried, Writable
    <3> QED
      BY <1>1, <1>4, <3>1, Going DEF request
  <2>6. UNCHANGED since \/ since' = [since EXCEPT ![r] = now]
    BY <1>1, <1>4, Going DEF request
  <2>7. /\ pc' \in [Slots -> Phases] /\ \A d \in Slots \ {r} : pc'[d] = pc[d]
    BY <1>1, <2>2 DEF Arrays
  <2>8. token' \in [Slots -> issued' \cup {NoToken}] /\ \A d \in Slots \ {r} : token'[d] = token[d]
    BY <1>1, <1>2, <2>3 DEF Arrays
  <2>9. row' \in [Slots -> Nat \cup {Absent}] /\ \A d \in Slots \ {r} : row'[d] = row[d]
    BY <1>1, <2>4 DEF Arrays
  <2>10. ttl' \in [Slots -> Int] /\ \A d \in Slots \ {r} : ttl'[d] = ttl[d]
    BY <1>1, <2>5 DEF Arrays
  <2>11. since' \in [Slots -> Nat] /\ \A d \in Slots \ {r} : since'[d] = since[d]
    BY <1>1, <2>6 DEF Arrays
  <2>12. NoOutcome \in OutcomeType
    BY DEF NoOutcome, Outcome, OutcomeType
  <2> QED
    BY <2>2, <2>7, <2>8, <2>9, <2>10, <2>11, <2>12 DEF Arrays, Apart
<1> QED
  BY <1>3, <1>4

(* What a step of r leaves of its own request. *)
LEMMA SlotOwn ==
    ASSUME IInv, NEW r \in Slots, SlotStep(r)
    PROVE  Holds(r)' /\ FoundOut(r)'
<1>1. TypeOK /\ Globals /\ Arrays /\ Holds(r) /\ FoundOut(r) /\ EntriesSound
  BY TypeParts DEF IInv
<1>2. UNCHANGED <<now, sameSecret, CacheTTL>> /\ Arrays'
  BY SlotGlobals, SlotArrays DEF settings
<1>3. now \in Nat /\ Latency \in Nat
  BY <1>1, AuthAssumption DEF Globals
<1>4. \A t \in issued : t # NoToken
  BY <1>1, AuthAssumption DEF Globals
<1>5. CASE Ends(r)
  <2>1. pc'[r] = "idle" /\ token'[r] = NoToken
    BY <1>1, <1>5, Ending DEF Over, Arrays
  <2> QED
    BY <2>1 DEF Holds, FoundOut
<1>6. CASE ~ Ends(r)
  <2>1. CASE Receive(r) /\ Waits(r, {"read", "validate"})
            /\ \E t \in issued : token' = [token EXCEPT ![r] = t]
    <3>1. pc'[r] \in {"read", "validate"} /\ token'[r] # NoToken
      BY <1>1, <1>4, <2>1 DEF Waits, Arrays
    <3> QED
      BY <3>1 DEF Holds, FoundOut
  <2>2. CASE AskRefresh(r) /\ Waits(r, {"sign"})
            /\ (\E t \in issued : Refreshable(t) /\ token' = [token EXCEPT ![r] = t])
            /\ since' = [since EXCEPT ![r] = now]
    <3>1. PICK t \in issued : Refreshable(t) /\ token' = [token EXCEPT ![r] = t]
      BY <2>2
    <3>2. pc'[r] = "sign" /\ token'[r] = t /\ since'[r] = now
      BY <1>1, <2>2, <3>1 DEF Waits, Arrays
    <3>3. t.use = "refresh" /\ now < Exp(t)
      BY <3>1 DEF Refreshable
    <3> QED
      BY <1>2, <1>3, <1>4, <3>1, <3>2, <3>3 DEF Holds, FoundOut, Exp
  <2>3. CASE ReadCache(r) /\ pc[r] = "read"
            /\ Waits(r, {IF Entry(token[r]) = Absent THEN "validate" ELSE "compare"})
            /\ row' = [row EXCEPT ![r] = Entry(token[r])] /\ UNCHANGED token
    <3>1. pc'[r] = (IF Entry(token[r]) = Absent THEN "validate" ELSE "compare")
          /\ row'[r] = Entry(token[r]) /\ token'[r] = token[r] /\ token[r] # NoToken
      BY <1>1, <2>3 DEF Waits, Arrays, Holds
    <3>2. CASE Entry(token[r]) = Absent
      BY <3>1, <3>2 DEF Holds, FoundOut
    <3>3. CASE Entry(token[r]) # Absent
      <4>1. Accepted(token[r]) /\ Entry(token[r]) <= Exp(token[r]) + Latency
        BY <1>1, <3>3 DEF EntriesSound, Entry
      <4>2. pc'[r] = "compare"
        BY <3>1, <3>3
      <4>3. Holds(r)'
        BY <3>1, <3>3, <4>2 DEF Holds
      <4>4. FoundOut(r)'
        BY <1>2, <3>1, <4>1, <4>2 DEF FoundOut, Accepted, Signed, Ours, Exp
      <4> QED
        BY <4>3, <4>4
    <3> QED
      BY <3>2, <3>3
  <2>4. CASE /\ pc[r] # "idle" /\ UNCHANGED token
             /\ Waits(r, {"validate"}) \/ Waits(r, {"delete"})
    <3>1. pc'[r] \in {"validate", "delete"} /\ token'[r] # NoToken
      BY <1>1, <2>4 DEF Waits, Arrays, Holds
    <3> QED
      BY <3>1 DEF Holds, FoundOut
  <2>5. CASE /\ pc[r] = "validate" /\ Waits(r, {"lifetime"})
             /\ Valid(token[r]) /\ Ours(token[r]) /\ UNCHANGED token
    <3>1. pc'[r] = "lifetime" /\ token'[r] = token[r] /\ token[r] # NoToken
      BY <1>1, <2>5 DEF Waits, Arrays, Holds
    <3>2. Accepted(token[r])'
      BY <1>2, <2>5, <3>1 DEF Accepted, Valid, Signed, Ours
    <3> QED
      BY <3>1, <3>2 DEF Holds, FoundOut
  <2>6. CASE /\ pc[r] = "lifetime" /\ Waits(r, {"write"}) /\ Cacheable(token[r])
             /\ ttl' = [ttl EXCEPT ![r] = Lifetime(token[r])]
             /\ since' = [since EXCEPT ![r] = now] /\ UNCHANGED token
    <3>1. /\ pc'[r] = "write" /\ token'[r] = token[r] /\ token[r] # NoToken
          /\ ttl'[r] = Lifetime(token[r]) /\ since'[r] = now
      BY <1>1, <2>6 DEF Waits, Arrays, Holds
    <3>2. Accepted(token[r])'
      BY <1>1, <1>2, <2>6, <3>1 DEF FoundOut, Accepted, Signed, Ours
    <3>3. /\ Lifetime(token[r]) > 0 /\ Lifetime(token[r]) <= CacheTTL
          /\ now + Lifetime(token[r]) <= Exp(token[r])
      BY <1>1, <2>6, Carried, Writable
    <3>4. Holds(r)'
      BY <3>1, <3>2, <3>3 DEF Holds, Accepted
    <3>5. ttl'[r] <= CacheTTL' /\ since'[r] + ttl'[r] <= Exp(token[r])' /\ now' <= since'[r] + Latency
      BY <1>2, <1>3, <3>1, <3>3 DEF Exp
    <3> QED
      BY <3>1, <3>2, <3>4, <3>5 DEF FoundOut
  <2> QED
    BY <1>1, <1>6, <2>1, <2>2, <2>3, <2>4, <2>5, <2>6, Going, ZenonT(40) DEF request
<1> QED
  BY <1>5, <1>6

(* And of the others. *)
LEMMA SlotOthers ==
    ASSUME IInv, NEW r \in Slots, SlotStep(r), NEW d \in Slots \ {r}
    PROVE  Holds(d)' /\ FoundOut(d)'
<1>1. /\ pc'[d] = pc[d] /\ token'[d] = token[d] /\ row'[d] = row[d]
      /\ ttl'[d] = ttl[d] /\ since'[d] = since[d]
  BY SlotArrays DEF Apart
<1>2. UNCHANGED <<now, sameSecret, CacheTTL>>
  BY SlotGlobals DEF settings
<1>3. Holds(d) /\ FoundOut(d)
  BY TypeParts DEF IInv
<1>4. Holds(d)'
  BY <1>1, <1>2, <1>3 DEF Holds, Signed, Ours
<1>5. FoundOut(d)'
  BY <1>1, <1>2, <1>3 DEF FoundOut, Accepted, Signed, Ours, Exp
<1> QED
  BY <1>4, <1>5

LEMMA SlotGenuine ==
    ASSUME IInv, NEW r \in Slots, SlotStep(r)
    PROVE  AllGenuine'
<1>1. AllGenuine /\ TypeOK /\ Globals /\ FoundOut(r) /\ Arrays
  BY TypeParts DEF IInv
<1>2. CASE UNCHANGED issued
  BY <1>1, <1>2 DEF AllGenuine, Genuine, OfLogin
<1>3. CASE SignAccess(r) /\ issued' = issued \cup {NewToken("access", token[r].login, {"user"})}
  <2> DEFINE t == token[r]
             n == NewToken("access", t.login, {"user"})
  <2>1. t \in issued /\ t \in Tokens /\ pc[r] = "sign"
    BY <1>1, <1>3, Carried DEF SignAccess
  <2>2. t.use = "refresh" /\ since[r] < Exp(t) /\ now <= since[r] + Latency
    BY <1>1, <2>1 DEF FoundOut
  <2>3. /\ n.use = "access" /\ n.key = "access" /\ n.service = "rag-server"
        /\ n.at = now /\ n.login = t.login /\ n.roles = {"user"}
    BY DEF NewToken
  <2>4. ASSUME OfLogin(n) PROVE Genuine(n)
    <3>1. t.at = t.login
      BY <1>1, <2>1, <2>2, <2>3, <2>4 DEF AllGenuine, Genuine, OfLogin
    <3>2. Exp(t) = t.login + RefreshExpiry /\ t.login \in Nat
      BY <2>1, <2>2, <3>1, TokenFacts
    <3>3. now \in Nat /\ since[r] \in Nat /\ Latency \in Nat /\ RefreshExpiry \in Nat
      BY <1>1, AuthAssumption DEF Globals, Arrays
    <3>4. now < t.login + RefreshExpiry + Latency
      BY <2>2, <3>2, <3>3
    <3> QED
      BY <2>3, <3>4 DEF Genuine
  <2> QED
    BY <1>1, <1>3, <2>4 DEF AllGenuine, Genuine, OfLogin
<1> QED
  BY <1>2, <1>3, SlotIssues

LEMMA SlotEntries ==
    ASSUME IInv, NEW r \in Slots, SlotStep(r)
    PROVE  EntriesSound'
<1>1. EntriesSound /\ TypeOK /\ Globals /\ FoundOut(r) /\ Arrays /\ Holds(r)
  BY TypeParts DEF IInv
<1>2. UNCHANGED <<now, sameSecret, CacheTTL>>
  BY SlotGlobals DEF settings
<1>3. CASE \A t \in DOMAIN cache' : t \in DOMAIN cache /\ cache'[t] = cache[t]
  BY <1>1, <1>2, <1>3 DEF EntriesSound, Accepted, Signed, Ours, Exp
<1>4. CASE WriteCache(r) /\ cache' = [t \in DOMAIN cache \cup {token[r]} |->
                                           IF t = token[r] THEN WrittenAt(r) ELSE cache[t]]
  <2>1. pc[r] = "write" /\ token[r] \in Tokens
    BY <1>1, <1>4, Carried DEF WriteCache
  <2>2. Accepted(token[r]) /\ WrittenAt(r) <= Exp(token[r]) + Latency /\ WrittenAt(r) <= now + CacheTTL
    <3>1. /\ ttl[r] > 0 /\ ttl[r] <= CacheTTL /\ since[r] + ttl[r] <= Exp(token[r])
          /\ now <= since[r] + Latency /\ Accepted(token[r])
      BY <1>1, <2>1 DEF FoundOut, Holds
    <3>2. now \in Nat /\ since[r] \in Nat /\ Latency \in Nat /\ CacheTTL \in Nat /\ ttl[r] \in Int
      BY <1>1, AuthAssumption DEF Globals, Arrays
    <3>3. Exp(token[r]) \in Nat
      BY <2>1, TokenFacts
    <3> QED
      BY <3>1, <3>2, <3>3 DEF WrittenAt
  <2>3. \A t \in DOMAIN cache' :
            \/ t = token[r] /\ cache'[t] = WrittenAt(r)
            \/ t \in DOMAIN cache /\ cache'[t] = cache[t]
    BY <1>4
  <2> QED
    BY <1>1, <1>2, <2>2, <2>3 DEF EntriesSound, Accepted, Signed, Ours, Exp
<1>5. CASE cache' = Without(token[r])
  BY <1>3, <1>5 DEF Without
<1> QED
  BY <1>3, <1>4, <1>5, SlotCaches

LEMMA SlotKeeps == ASSUME IInv, NEW r \in Slots, SlotStep(r) PROVE IInv'
<1>1. Globals' /\ Arrays' /\ outcome' \in OutcomeType
  BY SlotGlobals, SlotArrays
<1>2. \A d \in Slots : Holds(d)' /\ FoundOut(d)'
  BY SlotOwn, SlotOthers
<1>3. AllGenuine' /\ EntriesSound'
  BY SlotGenuine, SlotEntries
<1> QED
  BY <1>1, <1>2, <1>3, TypePartsNext DEF IInv

-----------------------------------------------------------------------------
(* The steps that are no request's. *)
LEMMA LoginKeeps == ASSUME IInv, Login PROVE IInv'
<1>1. /\ TypeOK /\ Globals /\ Arrays /\ AllGenuine /\ EntriesSound
      /\ \A r \in Slots : Holds(r) /\ FoundOut(r)
  BY TypeParts DEF IInv
<1>2. PICK roles \in LoginRoles :
        issued' = issued \cup {NewToken("refresh", now, {}), NewToken("access", now, roles)}
  BY DEF Login
<1>3. /\ UNCHANGED <<now, sameSecret, CacheTTL, caching, cache, pc, token, row, ttl, since>>
      /\ outcome' = NoOutcome
  BY DEF Login, settings, request
<1>4. now \in Nat /\ roles \in SUBSET Roles /\ {} \in SUBSET Roles
  BY <1>1, <1>2, AuthAssumption DEF Globals
<1>5. NewToken("refresh", now, {}) \in Tokens /\ NewToken("access", now, roles) \in Tokens
  BY <1>4, SignedType
<1>6. Globals'
  BY <1>1, <1>2, <1>3, <1>5 DEF Globals
<1>7. Arrays'
  BY <1>1, <1>2, <1>3 DEF Arrays
<1>8. outcome' \in OutcomeType
  BY <1>3 DEF NoOutcome, Outcome, OutcomeType
<1>9. \A r \in Slots : Holds(r)' /\ FoundOut(r)'
  <2> SUFFICES ASSUME NEW r \in Slots PROVE Holds(r)' /\ FoundOut(r)'
    OBVIOUS
  <2>1. Holds(r)'
    BY <1>1, <1>3 DEF Holds, Signed, Ours
  <2>2. FoundOut(r)'
    BY <1>1, <1>3 DEF FoundOut, Accepted, Signed, Ours, Exp
  <2> QED
    BY <2>1, <2>2
<1>10. EntriesSound'
  BY <1>1, <1>3 DEF EntriesSound, Accepted, Signed, Ours, Exp
<1>11. Genuine(NewToken("refresh", now, {})) /\ Genuine(NewToken("access", now, roles))
  BY DEF Genuine, NewToken
<1>12. AllGenuine'
  BY <1>1, <1>2, <1>11 DEF AllGenuine, Genuine, OfLogin
<1> QED
  BY <1>6, <1>7, <1>8, <1>9, <1>10, <1>12, TypePartsNext DEF IInv

(* Entries only go. *)
LEMMA CacheLossKeeps == ASSUME IInv, LoseCache \/ PurgeExpired PROVE IInv'
<1>1. /\ TypeOK /\ Globals /\ Arrays /\ AllGenuine /\ EntriesSound
      /\ \A r \in Slots : Holds(r) /\ FoundOut(r)
  BY TypeParts DEF IInv
<1>2. /\ UNCHANGED <<now, sameSecret, CacheTTL, caching, issued, pc, token, row, ttl, since>>
      /\ outcome' = NoOutcome
  BY DEF LoseCache, PurgeExpired, settings, request
<1>3. \A t \in DOMAIN cache' : t \in DOMAIN cache /\ cache'[t] = cache[t]
  BY DEF LoseCache, PurgeExpired, Empty
<1>4. Globals'
  BY <1>1, <1>2, <1>3 DEF Globals
<1>5. Arrays'
  BY <1>1, <1>2 DEF Arrays
<1>6. outcome' \in OutcomeType
  BY <1>2 DEF NoOutcome, Outcome, OutcomeType
<1>7. \A r \in Slots : Holds(r)' /\ FoundOut(r)'
  <2> SUFFICES ASSUME NEW r \in Slots PROVE Holds(r)' /\ FoundOut(r)'
    OBVIOUS
  <2>1. Holds(r)'
    BY <1>1, <1>2 DEF Holds, Signed, Ours
  <2>2. FoundOut(r)'
    BY <1>1, <1>2 DEF FoundOut, Accepted, Signed, Ours, Exp
  <2> QED
    BY <2>1, <2>2
<1>8. EntriesSound'
  BY <1>1, <1>2, <1>3 DEF EntriesSound, Accepted, Signed, Ours, Exp
<1>9. AllGenuine'
  BY <1>1, <1>2 DEF AllGenuine, Genuine, OfLogin
<1> QED
  BY <1>4, <1>5, <1>6, <1>7, <1>8, <1>9, TypePartsNext DEF IInv

LEMMA RestartKeeps == ASSUME IInv, Restart PROVE IInv'
<1>1. Globals /\ AllGenuine /\ EntriesSound
  BY TypeParts DEF IInv
<1>2. Globals'
  BY <1>1 DEF Globals, Restart
<1>3. Arrays'
  BY DEF Arrays, Restart, Phases
<1>4. outcome' \in OutcomeType
  BY DEF Restart, NoOutcome, Outcome, OutcomeType
<1>5. \A r \in Slots : Holds(r)' /\ FoundOut(r)'
  BY DEF Restart, Holds, FoundOut
<1>6. EntriesSound'
  BY <1>1 DEF Restart, EntriesSound, Accepted, Signed, Ours, Exp
<1>7. AllGenuine'
  BY <1>1 DEF Restart, AllGenuine, Genuine, OfLogin
<1> QED
  BY <1>2, <1>3, <1>4, <1>5, <1>6, <1>7, TypePartsNext DEF IInv

(* Time takes nothing from what was found out, but for what may be late. *)
LEMMA TickKeeps == ASSUME IInv, Tick PROVE IInv'
<1>1. /\ Globals /\ Arrays /\ AllGenuine /\ EntriesSound
      /\ \A r \in Slots : Holds(r) /\ FoundOut(r)
  BY TypeParts DEF IInv
<1>2. /\ now' = now + 1 /\ outcome' = NoOutcome
      /\ UNCHANGED <<sameSecret, CacheTTL, caching, issued, cache, pc, token, row, ttl, since>>
  BY DEF Tick, settings, request
<1>3. Globals'
  BY <1>1, <1>2 DEF Globals
<1>4. Arrays'
  BY <1>1, <1>2 DEF Arrays
<1>5. outcome' \in OutcomeType
  BY <1>2 DEF NoOutcome, Outcome, OutcomeType
<1>6. \A r \in Slots : Holds(r)' /\ FoundOut(r)'
  <2> SUFFICES ASSUME NEW r \in Slots PROVE Holds(r)' /\ FoundOut(r)'
    OBVIOUS
  <2>1. Holds(r)'
    BY <1>1, <1>2 DEF Holds, Signed, Ours
  <2>2. pc[r] \in {"sign", "write"} => now' <= since[r] + Latency
    <3>1. pc[r] \in {"sign", "write"} => now < since[r] + Latency
      BY DEF Tick
    <3>2. now \in Nat /\ since[r] \in Nat /\ Latency \in Nat
      BY <1>1, AuthAssumption DEF Globals, Arrays
    <3> QED
      BY <1>2, <3>1, <3>2
  <2>3. FoundOut(r)'
    BY <1>1, <1>2, <2>2 DEF FoundOut, Accepted, Signed, Ours, Exp
  <2> QED
    BY <2>1, <2>3
<1>7. EntriesSound'
  <2>1. now \in Nat /\ CacheTTL \in Nat /\ \A t \in DOMAIN cache : cache[t] \in Nat
    BY <1>1, AuthAssumption DEF Globals
  <2>2. \A t \in DOMAIN cache : cache[t] <= now' + CacheTTL
    BY <1>1, <1>2, <2>1 DEF EntriesSound
  <2> QED
    BY <1>1, <1>2, <2>2 DEF EntriesSound, Accepted, Signed, Ours, Exp
<1>8. AllGenuine'
  BY <1>1, <1>2 DEF AllGenuine, Genuine, OfLogin
<1> QED
  BY <1>3, <1>4, <1>5, <1>6, <1>7, <1>8, TypePartsNext DEF IInv

LEMMA StutterKeeps == ASSUME IInv, UNCHANGED vars PROVE IInv'
<1>1. /\ Globals /\ Arrays /\ outcome \in OutcomeType /\ AllGenuine /\ EntriesSound
      /\ \A r \in Slots : Holds(r) /\ FoundOut(r)
  BY TypeParts DEF IInv
<1>2. UNCHANGED <<now, sameSecret, CacheTTL, caching, issued, cache, pc, token, row, ttl, since, outcome>>
  BY DEF vars, settings, request
<1>3. Globals' /\ Arrays' /\ outcome' \in OutcomeType
  BY <1>1, <1>2, ZenonT(40) DEF Globals, Arrays, OutcomeType
<1>4. \A r \in Slots : Holds(r)'
  BY <1>1, <1>2 DEF Holds, Signed, Ours
<1>5. \A r \in Slots : FoundOut(r)'
  BY <1>1, <1>2 DEF FoundOut, Accepted, Signed, Ours, Exp
<1>6. AllGenuine' /\ EntriesSound'
  BY <1>1, <1>2 DEF AllGenuine, Genuine, OfLogin, EntriesSound, Accepted, Signed, Ours, Exp
<1> QED
  BY <1>3, <1>4, <1>5, <1>6, TypePartsNext DEF IInv

LEMMA NextInv == IInv /\ [Next]_vars => IInv'
<1> SUFFICES ASSUME IInv, [Next]_vars PROVE IInv'
  OBVIOUS
<1>1. CASE \E r \in Slots : SlotStep(r)
  BY <1>1, SlotKeeps
<1> QED
  BY <1>1, LoginKeeps, CacheLossKeeps, RestartKeeps, TickKeeps, StutterKeeps DEF Next, SlotStep

THEOREM Invariance == Spec => []IInv
BY InitInv, NextInv, PTL DEF Spec

(* TypeOK: every variable holds what it should, and only tokens that the   *)
(* middleware accepts are being cached.                                    *)
THEOREM TypeCorrect == Spec => []TypeOK
BY Invariance, PTL DEF IInv

-----------------------------------------------------------------------------
(* A request is only answered by a step of its own. *)
LEMMA OwnStep ==
    ASSUME IInv, [Next]_vars, NEW r \in Slots,
           pc[r] # "idle", pc'[r] = "idle", outcome'.code # 0
    PROVE  SlotStep(r)
<1>2. CASE \E d \in Slots : SlotStep(d)
  BY <1>2, SlotArrays DEF Apart
<1>3. CASE Restart
  <2>1. outcome'.code = 0
    BY <1>3 DEF Restart, NoOutcome, Outcome
  <2> QED
    BY <2>1
<1>4. CASE Login \/ LoseCache \/ PurgeExpired \/ Tick
  BY <1>4 DEF Login, LoseCache, PurgeExpired, Tick
<1>5. CASE UNCHANGED vars
  BY <1>5 DEF vars
<1> QED
  BY <1>2, <1>3, <1>4, <1>5 DEF Next, SlotStep

LEMMA AnswerFields ==
    ASSUME NEW r, NEW code, NEW via, Answer(r, code, via)
    PROVE  outcome'.code = code /\ outcome'.via = via
BY DEF Answer, Finish, Outcome

(* Of a request that validation accepts, RequireRole decides. *)
Decided(r, via) ==
    \/ /\ outcome'.code = 200 /\ outcome'.via = via
       /\ outcome'.role = "" \/ outcome'.role \in token[r].roles
    \/ /\ outcome'.code = 403 /\ outcome'.via = "role"
       /\ outcome'.role \notin token[r].roles

LEMMA Passing == ASSUME NEW r, NEW via, Pass(r, via) PROVE Decided(r, via)
<1>1. PICK role \in Needs :
        IF role = "" \/ role \in token[r].roles THEN Finish(r, 200, via, role)
        ELSE Finish(r, 403, "role", role)
  BY DEF Pass, RequireRole
<1>2. CASE (role = "" \/ role \in token[r].roles) /\ Finish(r, 200, via, role)
  <2>1. outcome'.code = 200 /\ outcome'.via = via /\ outcome'.role = role
    BY <1>2 DEF Finish, Outcome
  <2> QED
    BY <1>2, <2>1 DEF Decided
<1>3. CASE role \notin token[r].roles /\ Finish(r, 403, "role", role)
  <2>1. outcome'.code = 403 /\ outcome'.via = "role" /\ outcome'.role = role
    BY <1>3 DEF Finish, Outcome
  <2> QED
    BY <1>3, <2>1 DEF Decided
<1> QED
  BY <1>1, <1>2, <1>3

(* How it is answered: with a new token, refused by validation, or passed  *)
(* on to RequireRole with a token that validation accepts or accepted.     *)
LEMMA HowAnswered ==
    ASSUME IInv, NEW r \in Slots, SlotStep(r), pc[r] # "idle", pc'[r] = "idle"
    PROVE  \/ pc[r] = "sign" /\ outcome'.code = 200 /\ outcome'.via = "refresh"
           \/ ~ Valid(token[r]) /\ outcome'.code = 401 /\ outcome'.via = "validation"
           \/ /\ Valid(token[r]) /\ ~ Ours(token[r])
              /\ outcome'.code = 403 /\ outcome'.via = "validation"
           \/ Accepted(token[r]) /\ Decided(r, "validation")
           \/ /\ Accepted(token[r]) /\ Decided(r, "cache")
              /\ pc[r] = "compare" /\ ~ Expired(r)
<1>1. TypeOK /\ FoundOut(r) /\ Arrays
  BY TypeParts DEF IInv
<1>2. CASE SignAccess(r)
  <2>1. Answer(r, 200, "refresh") /\ pc[r] = "sign"
    BY <1>2 DEF SignAccess
  <2> QED
    BY <2>1, AnswerFields
<1>3. CASE Refuse(r)
  <2>1. CASE ~ Valid(token[r]) /\ Answer(r, 401, "validation")
    BY <2>1, AnswerFields
  <2>2. CASE Valid(token[r]) /\ ~ Ours(token[r]) /\ Answer(r, 403, "validation")
    BY <2>2, AnswerFields
  <2> QED
    BY <1>3, <2>1, <2>2 DEF Refuse
<1>4. CASE AcceptCached(r)
  <2>1. Pass(r, "cache") /\ pc[r] = "compare" /\ ~ Expired(r)
    BY <1>4 DEF AcceptCached
  <2>2. Accepted(token[r]) /\ Decided(r, "cache")
    BY <1>1, <2>1, Passing DEF FoundOut
  <2> QED
    BY <2>1, <2>2
<1>5. CASE WriteCache(r) \/ Validate(r) \/ ComputeLifetime(r)
  <2>1. Accepted(token[r])
    BY <1>1, <1>5 DEF WriteCache, Validate, ComputeLifetime, FoundOut, Valid, Accepted
  <2>2. Pass(r, "validation")
    <3>1. ~ Goto(r, "lifetime") /\ ~ Goto(r, "write")
      BY <1>1 DEF Goto, Arrays
    <3> QED
      BY <1>5, <3>1 DEF WriteCache, Validate, ComputeLifetime
  <2>3. Decided(r, "validation")
    BY <2>2, Passing
  <2> QED
    BY <2>1, <2>3
<1>6. CASE Arrive(r)
  BY <1>6 DEF Arrive, SkipPath, NoHeader, Internal, Receive, AskRefresh
<1>7. CASE ReadFails(r) \/ ReadCache(r) \/ FindExpired(r) \/ DeleteExpired(r)
  BY <1>1, <1>7 DEF ReadFails, ReadCache, FindExpired, DeleteExpired, Goto, Arrays
<1> QED
  BY <1>2, <1>3, <1>4, <1>5, <1>6, <1>7 DEF SlotStep, Step

(* Which requests are let through. *)
LEMMA Accepting ==
    ASSUME IInv, NEW r \in Slots, SlotStep(r), pc[r] # "idle", pc'[r] = "idle", outcome'.code = 200
    PROVE  \/ outcome'.via = "refresh" /\ pc[r] = "sign"
           \/ /\ Accepted(token[r])
              /\ outcome'.role = "" \/ outcome'.role \in token[r].roles
              /\ outcome'.via # "refresh"
              /\ outcome'.via = "cache" => pc[r] = "compare" /\ ~ Expired(r)
<1>1. outcome'.code # 401
  OBVIOUS
<1>2. outcome'.code # 403
  OBVIOUS
<1>3. CASE Accepted(token[r]) /\ Decided(r, "validation")
  <2>1. outcome'.via = "validation" /\ (outcome'.role = "" \/ outcome'.role \in token[r].roles)
    BY <1>2, <1>3 DEF Decided
  <2>2. outcome'.via # "refresh" /\ outcome'.via # "cache"
    BY <2>1
  <2> QED
    BY <1>3, <2>1, <2>2
<1>4. CASE /\ Accepted(token[r]) /\ Decided(r, "cache")
           /\ pc[r] = "compare" /\ ~ Expired(r)
  <2>1. outcome'.via = "cache" /\ (outcome'.role = "" \/ outcome'.role \in token[r].roles)
    BY <1>2, <1>4 DEF Decided
  <2>2. outcome'.via # "refresh"
    BY <2>1
  <2> QED
    BY <1>4, <2>1, <2>2
<1>5. \/ outcome'.via = "refresh" /\ pc[r] = "sign"
      \/ Accepted(token[r]) /\ Decided(r, "validation")
      \/ /\ Accepted(token[r]) /\ Decided(r, "cache")
         /\ pc[r] = "compare" /\ ~ Expired(r)
  BY <1>1, <1>2, HowAnswered
<1> QED
  BY <1>3, <1>4, <1>5

(* What is accepted of a login is an access token. *)
LEMMA AcceptedIsOwn ==
    ASSUME IInv, NEW t \in issued, Accepted(t), OfLogin(t)
    PROVE  Genuine(t) /\ t.use = "access" /\ t \in Tokens
<1>1. t \in Tokens
  BY TypeParts DEF IInv, Globals
<1>2. Genuine(t)
  BY DEF IInv, AllGenuine
<1>3. t.service = "rag-server"
  BY DEF Accepted, Ours
<1> QED
  BY <1>1, <1>2, <1>3 DEF Genuine

LEMMA CachedInTime ==
    ASSUME IInv, NEW r \in Slots, pc[r] = "compare", ~ Expired(r)
    PROVE  now <= Exp(token[r]) + Latency
<1>1. row[r] <= Exp(token[r]) + Latency
  BY DEF IInv, FoundOut
<1>2. row[r] \in Int /\ now \in Nat /\ Latency \in Nat
  BY TypeParts, AuthAssumption DEF IInv, Arrays, Globals, Absent
<1>3. Exp(token[r]) \in Nat
  BY Carried, TokenFacts DEF IInv
<1> QED
  BY <1>1, <1>2, <1>3 DEF Expired

(* CacheAgrees: the cache answers only for tokens that validation accepts, *)
(* and not for longer after their expiry than a write may be delayed; no   *)
(* entry outlives the configured lifetime.                                 *)
THEOREM CachedAnswersAgree == Spec => CacheAgrees
<1>1. IInv => \A t \in DOMAIN cache : cache[t] <= now + CacheTTL
  BY DEF IInv, EntriesSound
<1>2. IInv /\ [Next]_vars =>
        [\A r \in Slots : Answers(r, 200, "cache") =>
            /\ Signed(token[r], "access") /\ Ours(token[r])
            /\ now <= Exp(token[r]) + Latency]_vars
  <2> SUFFICES ASSUME IInv, [Next]_vars, NEW r \in Slots, Answers(r, 200, "cache")
               PROVE  /\ Signed(token[r], "access") /\ Ours(token[r])
                      /\ now <= Exp(token[r]) + Latency
    OBVIOUS
  <2>5. pc[r] # "idle" /\ pc'[r] = "idle" /\ outcome'.code = 200 /\ outcome'.via = "cache"
    BY DEF Answers
  <2>4. SlotStep(r)
    BY <2>5, OwnStep
  <2>6. outcome'.via # "refresh"
    BY <2>5
  <2>1. Accepted(token[r]) /\ pc[r] = "compare" /\ ~ Expired(r)
    BY <2>4, <2>5, <2>6, Accepting
  <2> QED
    BY <2>1, CachedInTime DEF Accepted
<1> QED
  BY <1>1, <1>2, Invariance, PTL DEF Spec, CacheAgrees

(* SessionEnds: no access token of a login is signed once the refresh      *)
(* token of that login has expired, but for the time a signature takes,    *)
(* and neither kind of token is taken for the other.                       *)
THEOREM LoginsEnd == Spec => SessionEnds
<1>1. IInv => \A t \in issued : OfLogin(t) =>
            /\ t.use = "refresh" => t.at = t.login
            /\ t.use = "access" => t.at < t.login + RefreshExpiry + Latency \/ t.at = t.login
  BY DEF IInv, AllGenuine, Genuine
<1>2. IInv /\ [Next]_vars =>
        [\A r \in Slots : \A via \in {"cache", "validation", "refresh"} :
            Answers(r, 200, via) /\ OfLogin(token[r]) =>
                (token[r].use = "refresh" <=> via = "refresh")]_vars
  <2> SUFFICES ASSUME IInv, [Next]_vars, NEW r \in Slots,
                      NEW via \in {"cache", "validation", "refresh"},
                      Answers(r, 200, via), OfLogin(token[r])
               PROVE  token[r].use = "refresh" <=> via = "refresh"
    OBVIOUS
  <2>5. pc[r] # "idle" /\ pc'[r] = "idle" /\ outcome'.code = 200 /\ outcome'.via = via
    BY DEF Answers
  <2>4. SlotStep(r)
    BY <2>5, OwnStep
  <2>1. CASE via = "refresh" /\ pc[r] = "sign"
    BY <2>1 DEF IInv, FoundOut
  <2>2. CASE Accepted(token[r]) /\ via # "refresh"
    <3>1. token[r] \in issued
      BY Carried DEF IInv, Answers
    <3>2. token[r].use = "access"
      BY <2>2, <3>1, AcceptedIsOwn
    <3> QED
      BY <2>2, <3>2
  <2> QED
    BY <2>1, <2>2, <2>4, <2>5, Accepting
<1> QED
  BY <1>1, <1>2, Invariance, PTL DEF Spec, SessionEnds

(* What is let through for a role of a login. *)
LetThrough == outcome'.code = 200 /\ outcome'.via # "refresh" /\ outcome'.role \notin {"", "user"}

LEMMA RoleGranted ==
    ASSUME IInv, [Next]_vars, NEW r \in Slots, pc[r] # "idle", pc'[r] = "idle", LetThrough,
           OfLogin(token[r])
    PROVE  /\ token[r].at = token[r].login
           /\ outcome'.via = "cache" => now <= token[r].login + AccessExpiry + Latency
<1>1. /\ Accepted(token[r]) /\ outcome'.role \in token[r].roles
      /\ outcome'.via = "cache" => pc[r] = "compare" /\ ~ Expired(r)
  <2>1. outcome'.code = 200
    BY DEF LetThrough
  <2>2. SlotStep(r)
    <3>1. outcome'.code # 0
      BY <2>1
    <3> QED
      BY <3>1, OwnStep
  <2>3. outcome'.via # "refresh"
    BY DEF LetThrough
  <2>4. outcome'.role # ""
    BY DEF LetThrough
  <2> QED
    BY <2>1, <2>2, <2>3, <2>4, Accepting
<1>2. token[r] \in issued
  BY Carried DEF IInv
<1>3. Genuine(token[r]) /\ token[r].use = "access" /\ token[r] \in Tokens
  BY <1>1, <1>2, AcceptedIsOwn
<1>4. token[r].at = token[r].login
  <2>1. outcome'.role # "user"
    BY DEF LetThrough
  <2>2. token[r].roles # {"user"}
    BY <1>1, <2>1
  <2> QED
    BY <1>3, <2>2 DEF Genuine
<1>5. Exp(token[r]) = token[r].login + AccessExpiry
  BY <1>3, <1>4, TokenFacts
<1>6. outcome'.via = "cache" => now <= Exp(token[r]) + Latency
  BY <1>1, CachedInTime
<1> QED
  BY <1>4, <1>5, <1>6

(* RolesEnd: roles other than "user" end with the first access token of a  *)
(* login, and the cache honours them no longer than a write may be delayed. *)
THEOREM LoginRolesEnd == Spec => RolesEnd
<1>1. IInv /\ [Next]_vars =>
        [\A r \in Slots : \A via \in {"cache", "validation"} :
            Answers(r, 200, via) /\ OfLogin(token[r]) /\ outcome'.role \notin {"", "user"} =>
                /\ token[r].at = token[r].login
                /\ via = "cache" => now <= token[r].login + AccessExpiry + Latency]_vars
  <2> SUFFICES ASSUME IInv, [Next]_vars, NEW r \in Slots, NEW via \in {"cache", "validation"},
                      Answers(r, 200, via), OfLogin(token[r]),
                      outcome'.role \notin {"", "user"}
               PROVE  /\ token[r].at = token[r].login
                      /\ via = "cache" => now <= token[r].login + AccessExpiry + Latency
    OBVIOUS
  <2>1. pc[r] # "idle" /\ pc'[r] = "idle" /\ outcome'.code = 200 /\ outcome'.via = via
    BY DEF Answers
  <2>2. LetThrough
    BY <2>1 DEF LetThrough
  <2> QED
    BY <2>1, <2>2, RoleGranted
<1> QED
  BY <1>1, Invariance, PTL DEF Spec, RolesEnd
=============================================================================
