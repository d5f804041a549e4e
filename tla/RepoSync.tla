------------------------------ MODULE RepoSync ------------------------------
(***************************************************************************)
(* POST /api/sync (api/knowledge.go): SyncRepo (internal/rag/sync/sync.go) *)
(* brings a working copy up to date, inside proxy.With (proxy/proxy.go),   *)
(* which exchanges the process-wide HTTP transport and go-git protocol     *)
(* handlers and puts them back.  Requests run concurrently, nothing locks  *)
(* the globals or the directories, and the first use of the RAG service    *)
(* (initRAG, api/rag.go) installs the server's own proxy at some time.     *)
(* cmd/ingest and rag-cli call the same two functions, one at a time.      *)
(***************************************************************************)
EXTENDS Integers

CONSTANTS Requests,    \* one POST /api/sync each
          Urls,        \* remote repositories
          Paths,       \* working directories
          Proxies,     \* proxy URLs that are configured
          NoProxy,     \* the empty string
          Kind,        \* "http", "socks" or "bad" (one that cannot be used)
          GlobalProxy, \* global.proxy, in use since the server started
          RepoProxies, \* values of sync.repo.proxy
          Asked,       \* requests that are sent: subset of Urls \X Paths
          Tracked,     \* of each remote: which branch ResolveRevision finds after
                       \* a fetch, its "default", an "other" (main or master
                       \* beside a default of another name) or "none"
          InitialDisks, \* what the directories may hold at first
          NoDir, Unusable, \* what a directory can be that is not a clone
          MaxHead      \* bound on the commits of a remote

(* A directory: missing, something that cannot be opened (a clone under way *)
(* or abandoned, other files), or a clone of a remote, at one of the commits *)
(* of one of its branches.                                                  *)
Clone == [origin : Urls, on : {"default", "other"}, head : 0 .. MaxHead]
Dirs == {NoDir, Unusable} \cup Clone
IsClone(d) == d \notin {NoDir, Unusable}

(* Where a request to a remote goes. *)
OfKind(k) == {u \in Proxies : Kind[u] = k}
Routes == [proxy : OfKind("http") \cup {NoProxy}, dial : OfKind("socks") \cup {NoProxy}]
Direct == [proxy |-> NoProxy, dial |-> NoProxy]

ASSUME RepoSyncAssumption ==
    /\ NoDir # Unusable /\ {NoDir, Unusable} \cap Clone = {}
    /\ NoProxy \notin Proxies /\ Kind \in [Proxies -> {"http", "socks", "bad"}]
    /\ GlobalProxy \in Proxies \cup {NoProxy} /\ RepoProxies \subseteq Proxies \cup {NoProxy}
    /\ Asked \subseteq Urls \X Paths
    /\ InitialDisks \subseteq [Paths -> Dirs]
    /\ Tracked \in [Urls -> {"default", "other", "none"}]
    /\ MaxHead \in Nat

VARIABLES repoProxy,            \* sync.repo.proxy
          transport,            \* http.DefaultTransport
          protocols,            \* gclient.Protocols, "http" and "https"
          prevTransport, prevProtocols, \* saved by With, for each request
          tr,                   \* the transport that Set builds
          rag,                  \* progress of initRAG's Set: "no" | "half" | "done"
          ragTr,
          remote,               \* newest commits of each remote
          disk,                 \* the working directories
          asked,                \* url and path of each request
          pc, try, fetched,     \* where it is, its attempt, the commit it fetched
          reply                 \* status code, 0 before the answer
VARIABLES overlap,              \* what was under way beside a call of With, ever:
                                \* "With", another one, or "initRAG"
          shared,               \* requests that met another one in their directory
          since,                \* newest commits when each request arrived
          before                \* what its directory was then

globals == <<transport, protocols>>
saved == <<prevTransport, prevProtocols, tr>>
initRag == <<rag, ragTr>>
arrival == <<since, before>>
request == <<asked, try, fetched, arrival>>
history == <<overlap, shared>>
vars == <<repoProxy, globals, saved, initRag, remote, disk, request, pc, reply, history>>

(* Set: the transport in use is cloned and given the proxy; a socks proxy   *)
(* replaces its dialer and an http proxy leaves the dialer as it is.        *)
Effective(u) == u # NoProxy /\ Kind[u] # "bad"
(* A bug: every proxy is taken for an http proxy.                           *)
Routed_Http(r, u) == IF Effective(u) THEN [r EXCEPT !.proxy = u] ELSE r
Routed(r, u) ==
    IF ~Effective(u) THEN r
    ELSE IF Kind[u] = "socks" THEN [proxy |-> NoProxy, dial |-> u] ELSE [r EXCEPT !.proxy = u]

Started == Routed(Direct, GlobalProxy)   \* main.go sets it before serving

(* Requests between the entry of With and its return; one with no proxy to  *)
(* set does not touch the globals.                                          *)
Outside == {"new", "save", "done"}
Within == {r \in Requests : pc[r] \notin Outside /\ repoProxy # NoProxy}
Using(p) == {r \in Requests : pc[r] \notin {"new", "restore", "restoreGit", "done"}
                                /\ asked[r][2] = p}

Init ==
    /\ repoProxy \in RepoProxies
    /\ transport = Started /\ protocols = Started
    /\ prevTransport = [r \in Requests |-> Direct]
    /\ prevProtocols = [r \in Requests |-> Direct]
    /\ tr = [r \in Requests |-> Direct]
    /\ rag = "no" /\ ragTr = Direct
    /\ remote = [u \in Urls |-> 0]
    /\ disk \in InitialDisks
    /\ asked \in [Requests -> Asked]
    /\ pc = [r \in Requests |-> "new"]
    /\ try = [r \in Requests |-> 0] /\ fetched = [r \in Requests |-> 0]
    /\ reply = [r \in Requests |-> 0]
    /\ overlap = {} /\ shared = {}
    /\ since = [r \in Requests |-> remote] /\ before = [r \in Requests |-> NoDir]

Goto(r, label) == pc' = [pc EXCEPT ![r] = label]
Path(r) == asked[r][2]

-----------------------------------------------------------------------------
(* The remotes move on: somebody pushes. *)
Push(u) ==
    /\ remote[u] < MaxHead
    /\ remote' = [remote EXCEPT ![u] = @ + 1]
    /\ UNCHANGED <<repoProxy, globals, saved, initRag, disk, request, pc, reply, history>>

(* initRAG: the server's proxy is installed again, the transport first and  *)
(* then the protocols; once it did so the service is never constructed anew.*)
RagTransport ==
    /\ rag = "no" /\ rag' = "half"
    /\ transport' = Routed(transport, GlobalProxy)
    /\ overlap' = overlap \cup (IF Effective(GlobalProxy) /\ Within # {} THEN {"initRAG"} ELSE {})
    /\ ragTr' = transport'
    /\ UNCHANGED <<repoProxy, protocols, saved, remote, disk, request, pc, reply, shared>>
RagProtocols ==
    /\ rag = "half" /\ rag' = "done"
    /\ protocols' = IF Effective(GlobalProxy) THEN ragTr ELSE protocols
    /\ UNCHANGED <<repoProxy, transport, saved, ragTr, remote, disk, request, pc, reply, history>>

(* The handler: a body that does not parse is refused. *)
Receive(r) ==
    /\ pc[r] = "new"
    /\ Goto(r, IF repoProxy = NoProxy THEN "stat" ELSE "save")
    /\ try' = [try EXCEPT ![r] = 1]
    /\ since' = [since EXCEPT ![r] = remote]
    /\ before' = [before EXCEPT ![r] = disk[Path(r)]]
    /\ shared' = shared \cup (IF Using(Path(r)) # {} THEN {r} \cup Using(Path(r)) ELSE {})
    /\ UNCHANGED <<repoProxy, globals, saved, initRag, remote, disk, asked, fetched, reply, overlap>>
Refuse(r) ==
    /\ pc[r] = "new"
    /\ reply' = [reply EXCEPT ![r] = 400]
    /\ Goto(r, "done")
    /\ UNCHANGED <<repoProxy, globals, saved, initRag, remote, disk, request, history>>

(* With: the settings in use are saved, then Set replaces them, if it can.  *)
SetTransport(r) ==
    /\ pc[r] = "save"
    /\ prevTransport' = [prevTransport EXCEPT ![r] = transport]
    /\ prevProtocols' = [prevProtocols EXCEPT ![r] = protocols]
    /\ transport' = Routed(transport, repoProxy)
    /\ tr' = [tr EXCEPT ![r] = transport']
    /\ overlap' = overlap \cup (IF Within # {} THEN {"With"} ELSE {})
                          \cup (IF rag = "half" THEN {"initRAG"} ELSE {})
    /\ Goto(r, IF Effective(repoProxy) THEN "set" ELSE "stat")
    /\ UNCHANGED <<repoProxy, protocols, initRag, remote, disk, request, reply, shared>>
SetProtocols(r) ==
    /\ pc[r] = "set"
    /\ protocols' = tr[r]
    /\ Goto(r, "stat")
    /\ UNCHANGED <<repoProxy, transport, saved, initRag, remote, disk, request, reply, history>>

(* The deferred function of With, after fn returned. *)
RestoreTransport(r) ==
    /\ pc[r] = "restore"
    /\ transport' = prevTransport[r]
    /\ Goto(r, "restoreGit")
    /\ UNCHANGED <<repoProxy, protocols, saved, initRag, remote, disk, request, reply, history>>
(* A bug: the protocol handlers are left as Set installed them. *)
Restored_Not(r) == protocols
Restored(r) == prevProtocols[r]
RestoreProtocols(r) ==
    /\ pc[r] = "restoreGit"
    /\ protocols' = Restored(r)
    /\ prevTransport' = [prevTransport EXCEPT ![r] = Direct]
    /\ prevProtocols' = [prevProtocols EXCEPT ![r] = Direct]
    /\ tr' = [tr EXCEPT ![r] = Direct]
    /\ Goto(r, "done")
    /\ UNCHANGED <<repoProxy, transport, initRag, remote, disk, request, reply, history>>

-----------------------------------------------------------------------------
(* SyncRepo.  Its result is the handler's answer, which is written when     *)
(* With has returned; its variables are gone.                               *)
Return(r, code) ==
    /\ reply' = [reply EXCEPT ![r] = code]
    /\ try' = [try EXCEPT ![r] = 0] /\ fetched' = [fetched EXCEPT ![r] = 0]
    /\ since' = [since EXCEPT ![r] = [u \in Urls |-> 0]]
    /\ before' = [before EXCEPT ![r] = NoDir]
    /\ Goto(r, IF repoProxy = NoProxy THEN "done" ELSE "restore")
    /\ UNCHANGED <<repoProxy, globals, saved, initRag, remote, asked, history>>

(* An attempt fails: the first is followed by RemoveAll and another.        *)
MayRetry(r) == try[r] = 1
Fail(r, d) ==
    IF MayRetry(r)
    THEN /\ Goto(r, "remove")
         /\ disk' = [disk EXCEPT ![Path(r)] = d]
         /\ UNCHANGED <<repoProxy, globals, saved, initRag, remote, request, reply, history>>
    ELSE /\ disk' = [disk EXCEPT ![Path(r)] = d]
         /\ Return(r, 500)
(* os.RemoveAll, whose error is ignored. *)
Remove(r) ==
    /\ pc[r] = "remove"
    /\ \E d \in {NoDir} \cup (IF disk[Path(r)] = NoDir THEN {} ELSE {Unusable, disk[Path(r)]}) :
           disk' = [disk EXCEPT ![Path(r)] = d]
    /\ try' = [try EXCEPT ![r] = 2]
    /\ Goto(r, "stat")
    /\ UNCHANGED <<repoProxy, globals, saved, initRag, remote, asked, fetched, arrival, reply, history>>

Stat(r) ==
    /\ pc[r] = "stat"
    /\ Goto(r, IF disk[Path(r)] = NoDir THEN "clone" ELSE "open")
    /\ UNCHANGED <<repoProxy, globals, saved, initRag, remote, disk, request, reply, history>>

(* PlainCloneContext: the directory exists, unusable, until the clone ends. *)
CloneBegin(r) ==
    /\ pc[r] = "clone" /\ ~IsClone(disk[Path(r)])
    /\ disk' = [disk EXCEPT ![Path(r)] = Unusable]
    /\ fetched' = [fetched EXCEPT ![r] = remote[asked[r][1]]]
    /\ Goto(r, "cloning")
    /\ UNCHANGED <<repoProxy, globals, saved, initRag, remote, asked, try, arrival, reply, history>>
CloneEnd(r) ==
    /\ pc[r] = "cloning" /\ disk[Path(r)] = Unusable
    /\ disk' = [disk EXCEPT ![Path(r)] =
                    [origin |-> asked[r][1], on |-> "default", head |-> fetched[r]]]
    /\ Goto(r, "head")
    /\ UNCHANGED <<repoProxy, globals, saved, initRag, remote, request, reply, history>>
(* The remote does not answer, the client hung up, or the directory changed *)
(* under the clone; what was written so far is removed, or not.             *)
CloneFails(r) ==
    \/ pc[r] = "clone" /\ Fail(r, disk[Path(r)])
    \/ pc[r] = "cloning" /\ \E d \in {NoDir, Unusable} : Fail(r, d)

(* PlainOpen and FetchContext, from the remote the clone was made of: the   *)
(* url of the call plays no part.                                           *)
(* A bug: a fetch that fails is taken for one with nothing new.             *)
FetchError_Ignored(r) ==
    /\ pc[r] = "open" /\ IsClone(disk[Path(r)])
    /\ fetched' = [fetched EXCEPT ![r] = disk[Path(r)].head]
    /\ Goto(r, "reset")
    /\ UNCHANGED <<repoProxy, globals, saved, initRag, remote, disk, asked, try, arrival, reply, history>>
FetchError(r) == pc[r] = "open" /\ Fail(r, disk[Path(r)])
Fetch(r) ==
    /\ pc[r] = "open" /\ IsClone(disk[Path(r)])
    /\ fetched' = [fetched EXCEPT ![r] = remote[disk[Path(r)].origin]]
    /\ Goto(r, "reset")
    /\ UNCHANGED <<repoProxy, globals, saved, initRag, remote, disk, asked, try, arrival, reply, history>>

(* ResolveRevision and a hard Reset, to origin/main or else origin/master:  *)
(* a clone has no origin/HEAD.  Without these branches the attempt fails,   *)
(* and the next one clones again.                                           *)
Reset(r) ==
    /\ pc[r] = "reset" /\ IsClone(disk[Path(r)])
    /\ Tracked[disk[Path(r)].origin] # "none"
    /\ disk' = [disk EXCEPT ![Path(r)] =
                    [origin |-> @.origin, on |-> Tracked[@.origin], head |-> fetched[r]]]
    /\ Goto(r, "head")
    /\ UNCHANGED <<repoProxy, globals, saved, initRag, remote, request, reply, history>>
ResetFails(r) == pc[r] = "reset" /\ Fail(r, disk[Path(r)])

(* PlainOpen again, and Head. *)
Head(r) ==
    /\ pc[r] = "head" /\ IsClone(disk[Path(r)])
    /\ UNCHANGED disk
    /\ Return(r, 200)
HeadFails(r) == pc[r] = "head" /\ Fail(r, disk[Path(r)])

-----------------------------------------------------------------------------
Step(r) ==
    \/ SetTransport(r) \/ SetProtocols(r)
    \/ Stat(r) \/ CloneBegin(r) \/ CloneEnd(r) \/ CloneFails(r)
    \/ Fetch(r) \/ FetchError(r) \/ Reset(r) \/ ResetFails(r)
    \/ Head(r) \/ HeadFails(r) \/ Remove(r)
    \/ RestoreTransport(r) \/ RestoreProtocols(r)
Arrive(r) == Receive(r) \/ Refuse(r)
Rag == RagTransport \/ RagProtocols

Next ==
    \/ \E u \in Urls : Push(u)
    \/ Rag
    \/ \E r \in Requests : Arrive(r) \/ Step(r)

Spec == Init /\ [][Next]_vars

-----------------------------------------------------------------------------
Phases == {"new", "save", "set", "stat", "clone", "cloning", "open", "reset", "head",
           "remove", "restore", "restoreGit", "done"}

(* The state has its types: a proxy is in the place for its kind, and the   *)
(* answer of a request is 0 until SyncRepo has one.                         *)
TypeOK ==
    /\ repoProxy \in RepoProxies
    /\ {transport, protocols, ragTr} \subseteq Routes
    /\ prevTransport \in [Requests -> Routes] /\ prevProtocols \in [Requests -> Routes]
    /\ tr \in [Requests -> Routes]
    /\ rag \in {"no", "half", "done"}
    /\ remote \in [Urls -> 0 .. MaxHead] /\ disk \in [Paths -> Dirs]
    /\ asked \in [Requests -> Asked] /\ pc \in [Requests -> Phases]
    /\ try \in [Requests -> 0 .. 2] /\ fetched \in [Requests -> 0 .. MaxHead]
    /\ since \in [Requests -> [Urls -> 0 .. MaxHead]] /\ before \in [Requests -> Dirs]
    /\ reply \in [Requests -> {0, 200, 400, 500}]
    /\ \A r \in Requests : pc[r] \in {"restore", "restoreGit", "done"} <=> reply[r] # 0
    /\ overlap \subseteq {"With", "initRAG"} /\ shared \subseteq Requests

(* initRAG set the server's proxy in the middle of a call of With, over one *)
(* that it does not replace as a whole: an http proxy leaves the dialer of  *)
(* a socks proxy where it is.                                               *)
Mixed == "initRAG" \in overlap /\ Routed(Routed(Started, repoProxy), GlobalProxy) # Started

(* proxy.With, as long as no two calls of it overlap: when none is under    *)
(* way, transport and protocols are what they were, on each way out of      *)
(* SyncRepo, though initRAG may have set them meanwhile, if not Mixed; and  *)
(* unless it did, they are those of the proxy all the time that fn runs.    *)
ProxyScoped ==
    "With" \notin overlap =>
        /\ Within = {} /\ ~Mixed => transport = Started /\ protocols = Started
        /\ "initRAG" \notin overlap =>
             \A r \in Within : pc[r] \notin {"set", "restore", "restoreGit"} =>
               transport = Routed(Started, repoProxy) /\ protocols = Routed(Started, repoProxy)

(* proxy.go:47 says it of every call: With "restores previous settings      *)
(* afterwards".  When no call is under way the settings are the server's.   *)
Restores == Within = {} /\ rag = "no" => transport = Started /\ protocols = Started

(* What "synced" does promise a request that was alone in its directory,   *)
(* whichever attempt succeeded: there is a clone which has every commit its *)
(* own remote had when the request arrived.  That remote is the one asked   *)
(* for, or the one the directory was a clone of before, which stays; and    *)
(* the clone is on the default branch, or on main or master beside it.      *)
SyncedIsFresh ==
    [][\A r \in Requests \ shared : reply[r] = 0 /\ reply'[r] = 200 =>
           LET d == disk'[Path(r)] IN
               /\ IsClone(d)
               /\ d.head >= since[r][d.origin]
               /\ d.origin # asked[r][1] => IsClone(before[r]) /\ d.origin = before[r].origin
               /\ d.on = "default" \/ Tracked[d.origin] = "other"]_vars

(* sync.go:12 says of every call that the repository at workdir "matches   *)
(* the remote url": a request alone in its directory that is answered as    *)
(* synced leaves a clone of the remote it asked for.                        *)
MatchesRemote ==
    [][\A r \in Requests \ shared : reply[r] = 0 /\ reply'[r] = 200 =>
           IsClone(disk'[Path(r)]) /\ disk'[Path(r)].origin = asked[r][1]]_vars
=============================================================================
