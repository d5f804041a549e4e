--------------------------- MODULE RepoSyncProofs ---------------------------
(* Safety of module RepoSync, for any requests, remotes and directories,    *)
(* and any proxies of the server and of the repository.                     *)
EXTENDS RepoSync, TLAPS

(* A call of With that is alone in its time: what it saved is what main     *)
(* set; the transport is its own proxy's or, if initRAG came in between,    *)
(* the server's again, which replaces it; and nothing is left to initRAG    *)
(* that is not the server's.                                                *)
Fine == "With" \notin overlap /\ ~ Mixed
Own == Routed(Started, repoProxy)

Alone == "With" \notin overlap => \A r, d \in Within : r = d
NoneToSet ==
    repoProxy = NoProxy => \A r \in Requests : pc[r] \notin {"save", "set", "restore", "restoreGit"}
Seen == rag = "half" /\ Effective(GlobalProxy) /\ Within # {} => "initRAG" \in overlap
Saved == Fine => \A r \in Within : prevTransport[r] = Started /\ prevProtocols[r] = Started
Idle == Fine /\ Within = {} => transport = Started /\ protocols = Started
Late == Fine /\ rag = "half" /\ Effective(GlobalProxy) => ragTr = Started
Transport ==
    Fine => \A r \in Within : transport = Started \/ (transport = Own /\ pc[r] # "restoreGit")
Undisturbed ==
    "With" \notin overlap /\ "initRAG" \notin overlap => \A r \in Within :
        /\ tr[r] = Own
        /\ pc[r] # "restoreGit" => transport = Own
        /\ pc[r] \notin {"set", "restoreGit"} => protocols = Own

Proxied == Alone /\ NoneToSet /\ Seen /\ Saved /\ Idle /\ Late /\ Transport /\ Undisturbed

(* A request that is alone in its directory: what it has of its remote is   *)
(* not older than the request, and the clone there is of the url it asks    *)
(* for or of the one the directory was a clone of before.                   *)
Active(r) == r \in Using(Path(r))
Marked == \A r, d \in Requests :
            Active(r) /\ Active(d) /\ Path(r) = Path(d) /\ r # d => r \in shared
NotAhead == \A r \in Requests, u \in Urls : since[r][u] <= remote[u]
Origin(r) ==
    Active(r) /\ IsClone(disk[Path(r)]) =>
        \/ disk[Path(r)].origin = asked[r][1]
        \/ IsClone(before[r]) /\ disk[Path(r)].origin = before[r].origin
Fetched(r) ==
    /\ pc[r] = "cloning" => fetched[r] >= since[r][asked[r][1]]
    /\ pc[r] = "reset" =>
        IsClone(disk[Path(r)]) /\ fetched[r] >= since[r][disk[Path(r)].origin]
    /\ pc[r] = "head" =>
        /\ IsClone(disk[Path(r)])
        /\ disk[Path(r)].head >= since[r][disk[Path(r)].origin]
        /\ disk[Path(r)].on = "default" \/ Tracked[disk[Path(r)].origin] = "other"
Sound == \A r \in Requests \ shared : Origin(r) /\ Fetched(r)

IInv == TypeOK /\ Proxied /\ Marked /\ NotAhead /\ Sound

-----------------------------------------------------------------------------
(* The type invariant, as what With exchanges and what the requests hold.   *)
RouteTypes ==
    /\ repoProxy \in RepoProxies /\ rag \in {"no", "half", "done"}
    /\ transport \in Routes /\ protocols \in Routes /\ ragTr \in Routes
    /\ prevTransport \in [Requests -> Routes] /\ prevProtocols \in [Requests -> Routes]
    /\ tr \in [Requests -> Routes]
SyncTypes ==
    /\ remote \in [Urls -> 0 .. MaxHead] /\ disk \in [Paths -> Dirs]
    /\ asked \in [Requests -> Asked]
    /\ fetched \in [Requests -> 0 .. MaxHead]
    /\ since \in [Requests -> [Urls -> 0 .. MaxHead]] /\ before \in [Requests -> Dirs]
ControlTypes ==
    /\ pc \in [Requests -> Phases] /\ try \in [Requests -> 0 .. 2]
    /\ reply \in [Requests -> {0, 200, 400, 500}]
    /\ \A r \in Requests : pc[r] \in {"restore", "restoreGit", "done"} <=> reply[r] # 0
HistoryTypes == overlap \subseteq {"With", "initRAG"} /\ shared \subseteq Requests

LEMMA TypeParts == TypeOK <=> RouteTypes /\ SyncTypes /\ ControlTypes /\ HistoryTypes
BY DEF TypeOK, RouteTypes, SyncTypes, ControlTypes, HistoryTypes

LEMMA TypePartsNext == TypeOK' <=> RouteTypes' /\ SyncTypes' /\ ControlTypes' /\ HistoryTypes'
BY DEF TypeOK, RouteTypes, SyncTypes, ControlTypes, HistoryTypes

(* Setting a proxy: the place for its kind, and nothing new the second time. *)
LEMMA Routing ==
    ASSUME NEW w \in Routes, NEW u \in Proxies \cup {NoProxy}
    PROVE  Routed(w, u) \in Routes /\ Routed(Routed(w, u), u) = Routed(w, u)
<1>1. CASE ~ Effective(u)
  <2>1. \A x : Routed(x, u) = x
    BY <1>1 DEF Routed
  <2> QED
    BY <2>1
<1>2. CASE Effective(u) /\ Kind[u] = "socks"
  <2>1. u \in OfKind("socks")
    BY <1>2 DEF Effective, OfKind
  <2>2. [proxy |-> NoProxy, dial |-> u] \in Routes
    BY <2>1 DEF Routes
  <2>3. \A x : Routed(x, u) = [proxy |-> NoProxy, dial |-> u]
    BY <1>2 DEF Routed
  <2> QED
    BY <2>2, <2>3
<1>3. CASE Effective(u) /\ Kind[u] = "http"
  <2>1. u \in OfKind("http")
    BY <1>3 DEF Effective, OfKind
  <2>2. \A x : Routed(x, u) = [x EXCEPT !.proxy = u]
    BY <1>3 DEF Routed
  <2>3. [w EXCEPT !.proxy = u] \in Routes
    BY <2>1 DEF Routes
  <2>4. [[w EXCEPT !.proxy = u] EXCEPT !.proxy = u] = [w EXCEPT !.proxy = u]
    BY DEF Routes
  <2> QED
    BY <2>2, <2>3, <2>4
<1> QED
  BY <1>1, <1>2, <1>3, RepoSyncAssumption DEF Effective

LEMMA Direction ==
    /\ Direct \in Routes /\ Started \in Routes /\ Routed(Started, GlobalProxy) = Started
<1>1. Direct \in Routes
  BY DEF Direct, Routes
<1> QED
  BY <1>1, Routing, RepoSyncAssumption DEF Started

LEMMA PathType == ASSUME SyncTypes, NEW r \in Requests PROVE Path(r) \in Paths /\ asked[r][1] \in Urls
BY RepoSyncAssumption DEF SyncTypes, Path

LEMMA DirTypes ==
    /\ NoDir \in Dirs /\ Unusable \in Dirs /\ ~ IsClone(NoDir) /\ ~ IsClone(Unusable)
    /\ \A d \in Clone : d \in Dirs /\ IsClone(d)
    /\ \A d \in Dirs : IsClone(d) => d \in Clone
BY RepoSyncAssumption DEF Dirs, IsClone

LEMMA CloneType ==
    ASSUME NEW u \in Urls, NEW b \in {"default", "other"}, NEW h \in 0 .. MaxHead
    PROVE  [origin |-> u, on |-> b, head |-> h] \in Clone
BY DEF Clone

LEMMA CloneFields ==
    ASSUME NEW d \in Clone
    PROVE  d.origin \in Urls /\ d.on \in {"default", "other"} /\ d.head \in 0 .. MaxHead
BY DEF Clone

LEMMA InitInv == Init => IInv
<1> SUFFICES ASSUME Init PROVE IInv
  OBVIOUS
<1>1. RouteTypes
  BY Direction DEF Init, RouteTypes
<1>2. SyncTypes
  <2>1. MaxHead \in Nat /\ InitialDisks \subseteq [Paths -> Dirs]
    BY RepoSyncAssumption
  <2>2. remote \in [Urls -> 0 .. MaxHead]
    BY <2>1 DEF Init
  <2> QED
    BY <2>1, <2>2, DirTypes DEF Init, SyncTypes
<1>3. ControlTypes
  BY DEF Init, ControlTypes, Phases
<1>4. HistoryTypes
  BY DEF Init, HistoryTypes
<1>5. Within = {} /\ \A r \in Requests : ~ Active(r) /\ pc[r] = "new"
  BY DEF Init, Within, Outside, Active, Using
<1>6. Proxied
  BY <1>5 DEF Init, Proxied, Alone, NoneToSet, Seen, Saved, Idle, Late, Transport, Undisturbed
<1>7. Marked /\ Sound
  BY <1>5 DEF Marked, Sound, Origin, Fetched
<1>8. NotAhead
  BY DEF Init, NotAhead
<1> QED
  BY <1>1, <1>2, <1>3, <1>4, <1>6, <1>7, <1>8, TypeParts DEF IInv

-----------------------------------------------------------------------------
(* proxy.With and initRAG.                                                  *)
Inner == {"stat", "clone", "cloning", "open", "reset", "head", "remove"}

LEMMA OwnType == ASSUME RouteTypes PROVE Own \in Routes
BY Direction, Routing, RepoSyncAssumption DEF RouteTypes, Own

(* The steps that leave the settings alone, and every call where it was or  *)
(* between the two ends of fn.                                              *)
LEMMA ElsewhereKeeps ==
    ASSUME Proxied, UNCHANGED <<repoProxy, globals, saved, initRag, overlap>>,
           Within' = Within, NoneToSet',
           \A r \in Within : pc'[r] = pc[r] \/ (pc[r] \in Inner /\ pc'[r] \in Inner \cup {"restore"})
    PROVE  Proxied'
<1>1. /\ UNCHANGED <<repoProxy, transport, protocols, prevTransport, prevProtocols, tr>>
      /\ UNCHANGED <<rag, ragTr, overlap>>
  BY DEF globals, saved, initRag
<1>2. Fine' <=> Fine
  BY <1>1 DEF Fine, Mixed
<1>3. Own' = Own
  BY <1>1 DEF Own
<1>4. Alone' /\ Seen' /\ Saved' /\ Idle' /\ Late'
  BY <1>1, <1>2 DEF Proxied, Alone, Seen, Saved, Idle, Late
<1>5. Transport'
  BY <1>1, <1>2, <1>3 DEF Proxied, Transport, Inner
<1>6. Undisturbed'
  <2> SUFFICES ASSUME "With" \notin overlap, "initRAG" \notin overlap, NEW r \in Within
               PROVE  /\ tr[r] = Own
                      /\ pc'[r] # "restoreGit" => transport = Own
                      /\ pc'[r] \notin {"set", "restoreGit"} => protocols = Own
    BY <1>1, <1>3 DEF Undisturbed
  <2>1. /\ tr[r] = Own
        /\ pc[r] # "restoreGit" => transport = Own
        /\ pc[r] \notin {"set", "restoreGit"} => protocols = Own
    BY DEF Proxied, Undisturbed
  <2> QED
    BY <2>1 DEF Inner
<1> QED
  BY <1>4, <1>5, <1>6 DEF Proxied

LEMMA RagTransportKeeps == ASSUME RouteTypes, Proxied, RagTransport PROVE Proxied'
<1>1. /\ rag = "no" /\ rag' = "half" /\ transport' = Routed(transport, GlobalProxy)
      /\ overlap' = overlap \cup (IF Effective(GlobalProxy) /\ Within # {} THEN {"initRAG"} ELSE {})
      /\ ragTr' = transport'
      /\ UNCHANGED <<repoProxy, protocols, prevTransport, prevProtocols, tr, pc>>
  BY DEF RagTransport, saved
<1>2. Within' = Within /\ Own' = Own
  BY <1>1 DEF Within, Own
<1>3. Fine' => Fine
  BY <1>1 DEF Fine, Mixed
<1>4. ASSUME Fine', Effective(GlobalProxy) PROVE transport' = Started
  <2>1. CASE Within = {}
    BY <1>1, <1>3, <1>4, <2>1, Direction DEF Proxied, Idle
  <2>2. CASE Within # {}
    <3>1. "initRAG" \in overlap'
      BY <1>1, <1>4, <2>2
    <3>2. Routed(Own, GlobalProxy) = Started
      BY <1>1, <1>4, <3>1 DEF Fine, Mixed, Own
    <3>3. transport = Started \/ transport = Own
      BY <1>3, <1>4, <2>2 DEF Proxied, Transport
    <3> QED
      BY <1>1, <3>2, <3>3, Direction
  <2> QED
    BY <2>1, <2>2
<1>5. ASSUME ~ Effective(GlobalProxy) PROVE transport' = transport
  BY <1>1, <1>5 DEF Routed
<1>6. Alone' /\ NoneToSet' /\ Seen' /\ Saved' /\ Late'
  BY <1>1, <1>2, <1>3, <1>4 DEF Proxied, Alone, NoneToSet, Seen, Saved, Late
<1>7. Idle'
  <2> SUFFICES ASSUME Fine', Within = {} PROVE transport' = Started /\ protocols' = Started
    BY <1>2 DEF Idle
  <2>1. transport = Started /\ protocols = Started
    BY <1>3 DEF Proxied, Idle
  <2> QED
    BY <1>1, <1>4, <1>5, <2>1
<1>8. Transport'
  <2> SUFFICES ASSUME Fine', NEW r \in Within
               PROVE  transport' = Started \/ (transport' = Own /\ pc[r] # "restoreGit")
    BY <1>1, <1>2 DEF Transport
  <2>1. transport = Started \/ (transport = Own /\ pc[r] # "restoreGit")
    BY <1>3 DEF Proxied, Transport
  <2> QED
    BY <1>4, <1>5, <2>1
<1>9. Undisturbed'
  <2> SUFFICES ASSUME "With" \notin overlap', "initRAG" \notin overlap', NEW r \in Within
               PROVE  /\ tr[r] = Own
                      /\ pc[r] # "restoreGit" => transport' = Own
                      /\ pc[r] \notin {"set", "restoreGit"} => protocols = Own
    BY <1>1, <1>2 DEF Undisturbed
  <2>1. ~ Effective(GlobalProxy)
    BY <1>1
  <2>2. transport' = transport
    BY <1>5, <2>1
  <2>3. "With" \notin overlap /\ "initRAG" \notin overlap
    BY <1>1
  <2> QED
    BY <2>2, <2>3 DEF Proxied, Undisturbed
<1> QED
  BY <1>6, <1>7, <1>8, <1>9 DEF Proxied

LEMMA RagProtocolsKeeps == ASSUME RouteTypes, Proxied, RagProtocols PROVE Proxied'
<1>1. /\ rag = "half" /\ rag' = "done"
      /\ protocols' = IF Effective(GlobalProxy) THEN ragTr ELSE protocols
      /\ UNCHANGED <<repoProxy, transport, prevTransport, prevProtocols, tr, pc, overlap>>
  BY DEF RagProtocols, saved, history
<1>2. Within' = Within /\ Own' = Own /\ (Fine' <=> Fine)
  BY <1>1 DEF Within, Own, Fine, Mixed
<1>3. Alone' /\ NoneToSet' /\ Seen' /\ Saved' /\ Late' /\ Transport'
  BY <1>1, <1>2 DEF Proxied, Alone, NoneToSet, Seen, Saved, Late, Transport
<1>4. Idle'
  BY <1>1, <1>2 DEF Proxied, Idle, Late
<1>5. Undisturbed'
  <2> SUFFICES ASSUME "With" \notin overlap, "initRAG" \notin overlap, NEW r \in Within
               PROVE  /\ tr[r] = Own
                      /\ pc[r] # "restoreGit" => transport = Own
                      /\ pc[r] \notin {"set", "restoreGit"} => protocols' = Own
    BY <1>1, <1>2 DEF Undisturbed
  <2>1. protocols' = protocols
    BY <1>1 DEF Proxied, Seen
  <2> QED
    BY <2>1 DEF Proxied, Undisturbed
<1> QED
  BY <1>3, <1>4, <1>5 DEF Proxied

(* A call of With begins; if it is to be alone, everything is as main left  *)
(* it.                                                                      *)
LEMMA SetTransportKeeps ==
    ASSUME RouteTypes, ControlTypes, Proxied, NEW r \in Requests, SetTransport(r)
    PROVE  Proxied'
<1>1. /\ pc[r] = "save" /\ transport' = Routed(transport, repoProxy)
      /\ prevTransport' = [prevTransport EXCEPT ![r] = transport]
      /\ prevProtocols' = [prevProtocols EXCEPT ![r] = protocols]
      /\ tr' = [tr EXCEPT ![r] = transport']
      /\ overlap' = overlap \cup (IF Within # {} THEN {"With"} ELSE {})
                            \cup (IF rag = "half" THEN {"initRAG"} ELSE {})
      /\ pc' = [pc EXCEPT ![r] = IF Effective(repoProxy) THEN "set" ELSE "stat"]
      /\ UNCHANGED <<repoProxy, protocols, rag, ragTr>>
  BY DEF SetTransport, Goto, initRag
<1>2. repoProxy # NoProxy
  BY <1>1 DEF Proxied, NoneToSet
<1>3. Within' = Within \cup {r} /\ Own' = Own
  BY <1>1, <1>2 DEF Within, Outside, Own, ControlTypes
<1>4. ("With" \notin overlap' => Within = {}) /\ (Fine' => Fine /\ Within = {})
  BY <1>1 DEF Fine, Mixed
<1>5. Fine' => transport = Started /\ protocols = Started /\ transport' = Own
  BY <1>1, <1>4 DEF Proxied, Idle, Own
<1>6. Alone' /\ NoneToSet' /\ Idle' /\ Seen'
  BY <1>1, <1>2, <1>3, <1>4 DEF Alone, NoneToSet, Idle, Seen
<1>7. Saved'
  BY <1>1, <1>3, <1>4, <1>5 DEF Saved, RouteTypes
<1>8. Late'
  BY <1>1, <1>4 DEF Proxied, Late
<1>9. Transport'
  <2>1. pc'[r] # "restoreGit"
    BY <1>1 DEF ControlTypes
  <2> QED
    BY <1>3, <1>4, <1>5, <2>1 DEF Transport
<1>10. Undisturbed'
  <2> SUFFICES ASSUME "With" \notin overlap', "initRAG" \notin overlap'
               PROVE  /\ tr'[r] = Own /\ transport' = Own
                      /\ pc'[r] \notin {"set", "restoreGit"} => protocols' = Own
    BY <1>3, <1>4 DEF Undisturbed
  <2>1. Fine'
    BY DEF Fine, Mixed
  <2>2. tr'[r] = Own /\ transport' = Own
    BY <1>1, <1>5, <2>1 DEF RouteTypes
  <2>3. pc'[r] \notin {"set", "restoreGit"} => ~ Effective(repoProxy)
    BY <1>1 DEF ControlTypes
  <2>4. ~ Effective(repoProxy) => Own = Started
    BY DEF Own, Routed
  <2> QED
    BY <1>1, <1>5, <2>1, <2>2, <2>3, <2>4
<1> QED
  BY <1>6, <1>7, <1>8, <1>9, <1>10 DEF Proxied

LEMMA SetProtocolsKeeps ==
    ASSUME RouteTypes, ControlTypes, Proxied, NEW r \in Requests, SetProtocols(r)
    PROVE  Proxied'
<1>1. /\ pc[r] = "set" /\ protocols' = tr[r] /\ pc' = [pc EXCEPT ![r] = "stat"]
      /\ UNCHANGED <<repoProxy, transport, prevTransport, prevProtocols, tr, rag, ragTr, overlap>>
  BY DEF SetProtocols, Goto, saved, initRag, history
<1>2. repoProxy # NoProxy
  BY <1>1 DEF Proxied, NoneToSet
<1>3. Within' = Within /\ r \in Within /\ Own' = Own /\ (Fine' <=> Fine)
  BY <1>1, <1>2 DEF Within, Outside, Own, Fine, Mixed, ControlTypes
<1>4. pc'[r] = "stat" /\ \A d \in Requests \ {r} : pc'[d] = pc[d]
  BY <1>1 DEF ControlTypes
<1>5. Alone' /\ NoneToSet' /\ Seen' /\ Saved' /\ Late' /\ Idle'
  BY <1>1, <1>2, <1>3 DEF Proxied, Alone, NoneToSet, Seen, Saved, Late, Idle
<1>6. Transport'
  BY <1>1, <1>3, <1>4 DEF Proxied, Transport, Within
<1>7. Undisturbed'
  BY <1>1, <1>3, <1>4 DEF Proxied, Undisturbed, Alone
<1> QED
  BY <1>5, <1>6, <1>7 DEF Proxied

LEMMA RestoreTransportKeeps ==
    ASSUME RouteTypes, ControlTypes, Proxied, NEW r \in Requests, RestoreTransport(r)
    PROVE  Proxied'
<1>1. /\ pc[r] = "restore" /\ transport' = prevTransport[r] /\ pc' = [pc EXCEPT ![r] = "restoreGit"]
      /\ UNCHANGED <<repoProxy, protocols, prevTransport, prevProtocols, tr, rag, ragTr, overlap>>
  BY DEF RestoreTransport, Goto, saved, initRag, history
<1>2. repoProxy # NoProxy
  BY <1>1 DEF Proxied, NoneToSet
<1>3. Within' = Within /\ r \in Within /\ Own' = Own /\ (Fine' <=> Fine)
  BY <1>1, <1>2 DEF Within, Outside, Own, Fine, Mixed, ControlTypes
<1>4. pc'[r] = "restoreGit" /\ \A d \in Requests \ {r} : pc'[d] = pc[d]
  BY <1>1 DEF ControlTypes
<1>5. Alone' /\ NoneToSet' /\ Seen' /\ Saved' /\ Late' /\ Idle'
  BY <1>1, <1>2, <1>3 DEF Proxied, Alone, NoneToSet, Seen, Saved, Late, Idle
<1>6. Transport'
  BY <1>1, <1>3 DEF Proxied, Transport, Saved
<1>7. Undisturbed'
  BY <1>1, <1>3, <1>4 DEF Proxied, Undisturbed, Alone
<1> QED
  BY <1>5, <1>6, <1>7 DEF Proxied

(* It ends; if it was alone, everything is as main left it again.           *)
LEMMA RestoreProtocolsKeeps ==
    ASSUME RouteTypes, ControlTypes, Proxied, NEW r \in Requests, RestoreProtocols(r)
    PROVE  Proxied'
<1>1. /\ pc[r] = "restoreGit" /\ protocols' = prevProtocols[r] /\ pc' = [pc EXCEPT ![r] = "done"]
      /\ UNCHANGED <<repoProxy, transport, rag, ragTr, overlap>>
  BY DEF RestoreProtocols, Restored, Goto, initRag, history
<1>2. repoProxy # NoProxy
  BY <1>1 DEF Proxied, NoneToSet
<1>3. Within' = Within \ {r} /\ r \in Within /\ Own' = Own /\ (Fine' <=> Fine)
  BY <1>1, <1>2 DEF Within, Outside, Own, Fine, Mixed, ControlTypes
<1>4. "With" \notin overlap => Within' = {}
  BY <1>3 DEF Proxied, Alone
<1>5. Alone' /\ NoneToSet' /\ Seen' /\ Saved' /\ Late' /\ Transport' /\ Undisturbed'
  BY <1>1, <1>2, <1>3, <1>4
     DEF Fine, Proxied, Alone, NoneToSet, Seen, Saved, Late, Transport, Undisturbed
<1>6. Idle'
  BY <1>1, <1>3 DEF Proxied, Idle, Saved, Transport
<1> QED
  BY <1>5, <1>6 DEF Proxied

-----------------------------------------------------------------------------
(* SyncRepo: what its steps have in common.                                 *)
SyncStep(r) ==
    \/ Stat(r) \/ CloneBegin(r) \/ CloneEnd(r) \/ CloneFails(r)
    \/ Fetch(r) \/ FetchError(r) \/ Reset(r) \/ ResetFails(r)
    \/ Head(r) \/ HeadFails(r) \/ Remove(r)

(* It leaves the rest of the server alone, and sets pc and its directory.   *)
Local(r, p, d) ==
    /\ UNCHANGED <<repoProxy, globals, saved, initRag, remote, asked, history>>
    /\ pc' = [pc EXCEPT ![r] = p] /\ disk' = [disk EXCEPT ![Path(r)] = d]

(* It goes on, or it returns.                                               *)
Moves(r, p, d) == Local(r, p, d) /\ UNCHANGED <<arrival, reply>>
Returns(r, d, code) ==
    /\ Local(r, IF repoProxy = NoProxy THEN "done" ELSE "restore", d)
    /\ reply' = [reply EXCEPT ![r] = code]
    /\ try' = [try EXCEPT ![r] = 0] /\ fetched' = [fetched EXCEPT ![r] = 0]
    /\ since' = [since EXCEPT ![r] = [u \in Urls |-> 0]]
    /\ before' = [before EXCEPT ![r] = NoDir]

LEMMA SameDisk ==
    ASSUME SyncTypes, NEW r \in Requests
    PROVE  disk = [disk EXCEPT ![Path(r)] = disk[Path(r)]] /\ disk[Path(r)] \in Dirs
BY PathType DEF SyncTypes

LEMMA Failing ==
    ASSUME NEW r \in Requests, NEW d \in Dirs, Fail(r, d)
    PROVE  \/ Moves(r, "remove", d) /\ UNCHANGED <<try, fetched>>
           \/ Returns(r, d, 500)
BY DEF Fail, Return, Goto, Moves, Returns, Local, request, arrival

(* Each step.  The cases name what later lemmas use.                        *)
LEMMA SyncCases ==
    ASSUME SyncTypes, NEW r \in Requests, SyncStep(r)
    PROVE  \/ /\ pc[r] \in {"clone", "cloning", "open", "reset", "head"}
              /\ \E d \in {NoDir, Unusable, disk[Path(r)]} :
                    \/ Moves(r, "remove", d) /\ UNCHANGED <<try, fetched>>
                    \/ Returns(r, d, 500)
           \/ /\ pc[r] = "stat" /\ UNCHANGED <<try, fetched>>
              /\ \E p \in {"clone", "open"} : Moves(r, p, disk[Path(r)])
           \/ /\ pc[r] = "clone" /\ Moves(r, "cloning", Unusable) /\ UNCHANGED try
              /\ fetched' = [fetched EXCEPT ![r] = remote[asked[r][1]]]
           \/ /\ pc[r] = "cloning" /\ UNCHANGED <<try, fetched>>
              /\ Moves(r, "head", [origin |-> asked[r][1], on |-> "default", head |-> fetched[r]])
           \/ /\ pc[r] = "open" /\ Moves(r, "reset", disk[Path(r)]) /\ UNCHANGED try
              /\ IsClone(disk[Path(r)])
              /\ fetched' = [fetched EXCEPT ![r] = remote[disk[Path(r)].origin]]
           \/ /\ pc[r] = "reset" /\ UNCHANGED <<try, fetched>>
              /\ IsClone(disk[Path(r)]) /\ Tracked[disk[Path(r)].origin] # "none"
              /\ Moves(r, "head", [origin |-> disk[Path(r)].origin,
                                  on |-> Tracked[disk[Path(r)].origin], head |-> fetched[r]])
           \/ pc[r] = "head" /\ IsClone(disk[Path(r)]) /\ Returns(r, disk[Path(r)], 200)
           \/ /\ pc[r] = "remove" /\ try' = [try EXCEPT ![r] = 2] /\ UNCHANGED fetched
              /\ \E d \in {NoDir, Unusable, disk[Path(r)]} : Moves(r, "stat", d)
<1>1. disk = [disk EXCEPT ![Path(r)] = disk[Path(r)]] /\ disk[Path(r)] \in Dirs
  BY SameDisk
<1>2. Path(r) \in Paths
  BY PathType
<1>3. ASSUME \E d \in {NoDir, Unusable, disk[Path(r)]} : Fail(r, d)
      PROVE  \E d \in {NoDir, Unusable, disk[Path(r)]} :
                \/ Moves(r, "remove", d) /\ UNCHANGED <<try, fetched>>
                \/ Returns(r, d, 500)
  BY <1>1, <1>3, Failing, DirTypes
<1>4. CASE CloneFails(r)
  BY <1>3, <1>4 DEF CloneFails
<1>5. CASE FetchError(r)
  BY <1>3, <1>5 DEF FetchError
<1>6. CASE ResetFails(r)
  BY <1>3, <1>6 DEF ResetFails
<1>7. CASE HeadFails(r)
  BY <1>3, <1>7 DEF HeadFails
<1>8. CASE Stat(r)
  <2>1. pc[r] = "stat" /\ UNCHANGED <<try, fetched>>
    BY <1>8 DEF Stat, request
  <2>2. Moves(r, IF disk[Path(r)] = NoDir THEN "clone" ELSE "open", disk[Path(r)])
    BY <1>1, <1>8 DEF Stat, Goto, Moves, Local, request
  <2> QED
    BY <2>1, <2>2
<1>9. CASE CloneBegin(r)
  BY <1>9 DEF CloneBegin, Goto, Moves, Local
<1>10. CASE CloneEnd(r)
  BY <1>10 DEF CloneEnd, Goto, Moves, Local, request
<1>11. CASE Fetch(r)
  BY <1>1, <1>11 DEF Fetch, Goto, Moves, Local
<1>12. CASE Reset(r)
  BY <1>2, <1>12 DEF Reset, Goto, Moves, Local, request, SyncTypes
<1>13. CASE Head(r)
  BY <1>1, <1>13 DEF Head, Return, Goto, Returns, Local
<1>14. CASE Remove(r)
  <2>1. PICK d \in {NoDir, Unusable, disk[Path(r)]} : disk' = [disk EXCEPT ![Path(r)] = d]
    BY <1>14 DEF Remove
  <2>2. Moves(r, "stat", d)
    BY <1>14, <2>1 DEF Remove, Goto, Moves, Local
  <2> QED
    BY <1>14, <2>2 DEF Remove
<1> QED
  BY <1>4, <1>5, <1>6, <1>7, <1>8, <1>9, <1>10, <1>11, <1>12, <1>13, <1>14 DEF SyncStep

(* The directory, the commit fetched and the arrival keep their types.      *)
LEMMA StepShape ==
    ASSUME SyncTypes, ControlTypes, NEW r \in Requests, SyncStep(r)
    PROVE  /\ pc[r] \in Inner
           /\ \E d \in Dirs :
                \/ \E p \in Inner : Moves(r, p, d)
                \/ \E code \in {200, 500} : Returns(r, d, code)
           /\ UNCHANGED fetched \/ \E h \in 0 .. MaxHead : fetched' = [fetched EXCEPT ![r] = h]
           /\ UNCHANGED try \/ \E n \in 0 .. 2 : try' = [try EXCEPT ![r] = n]
<1>1. Path(r) \in Paths /\ asked[r][1] \in Urls /\ disk[Path(r)] \in Dirs
  BY PathType, SameDisk
<1>2. fetched[r] \in 0 .. MaxHead /\ \A u \in Urls : remote[u] \in 0 .. MaxHead
  BY DEF SyncTypes
<1>3. 0 \in 0 .. MaxHead /\ 0 \in 0 .. 2 /\ 2 \in 0 .. 2
  BY RepoSyncAssumption
<1>4. [origin |-> asked[r][1], on |-> "default", head |-> fetched[r]] \in Dirs
  BY <1>1, <1>2, CloneType, DirTypes
<1>5. ASSUME IsClone(disk[Path(r)])
      PROVE  /\ disk[Path(r)].origin \in Urls
             /\ Tracked[disk[Path(r)].origin] # "none" =>
                  [origin |-> disk[Path(r)].origin, on |-> Tracked[disk[Path(r)].origin],
                   head |-> fetched[r]] \in Dirs
  <2>1. disk[Path(r)].origin \in Urls
    BY <1>1, <1>5, DirTypes, CloneFields
  <2>2. Tracked[disk[Path(r)].origin] \in {"default", "other", "none"}
    BY <2>1, RepoSyncAssumption
  <2> QED
    BY <1>2, <2>1, <2>2, CloneType, DirTypes
<1>6. \A d \in {NoDir, Unusable, disk[Path(r)]} : d \in Dirs
  BY <1>1, DirTypes
<1>7. pc[r] \in Inner
  BY SyncCases DEF Inner
<1>8. \E d \in Dirs :
        \/ \E p \in Inner : Moves(r, p, d)
        \/ \E code \in {200, 500} : Returns(r, d, code)
  <2>1. {"remove", "clone", "open", "cloning", "head", "reset", "stat"} \subseteq Inner
    BY DEF Inner
  <2> QED
    BY <1>1, <1>4, <1>5, <1>6, <2>1, SyncCases, DirTypes
<1>9. UNCHANGED fetched \/ \E h \in 0 .. MaxHead : fetched' = [fetched EXCEPT ![r] = h]
  BY <1>1, <1>2, <1>3, <1>5, SyncCases, ZenonT(40) DEF Returns
<1>10. UNCHANGED try \/ \E n \in 0 .. 2 : try' = [try EXCEPT ![r] = n]
  BY <1>3, SyncCases DEF Returns
<1> QED
  BY <1>7, <1>8, <1>9, <1>10

LEMMA SyncTyped ==
    ASSUME TypeOK, NEW r \in Requests, SyncStep(r)
    PROVE  TypeOK'
<1>1. RouteTypes /\ SyncTypes /\ ControlTypes /\ HistoryTypes
  BY TypeParts
<1>2. PICK d \in Dirs :
        \/ \E p \in Inner : Moves(r, p, d)
        \/ \E code \in {200, 500} : Returns(r, d, code)
  BY <1>1, StepShape
<1>3. \E p : Local(r, p, d)
  BY <1>2 DEF Moves, Returns
<1>4. /\ UNCHANGED <<repoProxy, transport, protocols, prevTransport, prevProtocols, tr>>
      /\ UNCHANGED <<rag, ragTr, remote, asked, overlap, shared>>
      /\ disk' = [disk EXCEPT ![Path(r)] = d]
  BY <1>3 DEF Local, globals, saved, initRag, history
<1>5. RouteTypes' /\ HistoryTypes'
  BY <1>1, <1>4 DEF RouteTypes, HistoryTypes
<1>6. since' \in [Requests -> [Urls -> 0 .. MaxHead]] /\ before' \in [Requests -> Dirs]
  <2> DEFINE Heads == [Urls -> 0 .. MaxHead]
             zero == [u \in Urls |-> 0]
  <2>1. zero \in Heads
    BY RepoSyncAssumption
  <2>2. /\ UNCHANGED since \/ since' = [since EXCEPT ![r] = zero]
        /\ UNCHANGED before \/ before' = [before EXCEPT ![r] = NoDir]
    BY <1>2 DEF Moves, Returns, arrival
  <2>3. since \in [Requests -> Heads] /\ before \in [Requests -> Dirs]
    BY <1>1 DEF SyncTypes
  <2> HIDE DEF Heads, zero
  <2>4. since' \in [Requests -> Heads]
    BY <2>1, <2>2, <2>3
  <2>5. before' \in [Requests -> Dirs]
    BY <2>2, <2>3, DirTypes
  <2> QED
    BY <2>4, <2>5 DEF Heads
<1>7. fetched' \in [Requests -> 0 .. MaxHead] /\ try' \in [Requests -> 0 .. 2]
  <2>1. fetched \in [Requests -> 0 .. MaxHead] /\ try \in [Requests -> 0 .. 2]
    BY <1>1 DEF SyncTypes, ControlTypes
  <2>2. UNCHANGED fetched \/ \E h \in 0 .. MaxHead : fetched' = [fetched EXCEPT ![r] = h]
    BY <1>1, StepShape
  <2>3. UNCHANGED try \/ \E n \in 0 .. 2 : try' = [try EXCEPT ![r] = n]
    BY <1>1, StepShape
  <2>4. fetched' \in [Requests -> 0 .. MaxHead]
    BY <2>1, <2>2
  <2>5. try' \in [Requests -> 0 .. 2]
    BY <2>1, <2>3
  <2> QED
    BY <2>4, <2>5
<1>8. SyncTypes'
  BY <1>1, <1>4, <1>6, <1>7, PathType DEF SyncTypes
<1>9. pc' \in [Requests -> Phases] /\ reply' \in [Requests -> {0, 200, 400, 500}]
  BY <1>1, <1>2 DEF Moves, Returns, Local, ControlTypes, Inner, Phases
<1>10. \A c \in Requests : pc'[c] \in {"restore", "restoreGit", "done"} <=> reply'[c] # 0
  <2>1. pc[r] \in Inner
    BY <1>1, StepShape
  <2>2. CASE \E p \in Inner : Moves(r, p, d)
    BY <1>1, <2>1, <2>2 DEF Moves, Local, ControlTypes, Inner
  <2>3. CASE \E code \in {200, 500} : Returns(r, d, code)
    <3>1. PICK code \in {200, 500} : Returns(r, d, code)
      BY <2>3
    <3>2. code # 0
      OBVIOUS
    <3>3. pc'[r] \in {"restore", "done"} /\ reply'[r] = code
      BY <1>1, <3>1 DEF Returns, Local, ControlTypes
    <3>4. \A c \in Requests \ {r} : pc'[c] = pc[c] /\ reply'[c] = reply[c]
      BY <1>1, <3>1 DEF Returns, Local, ControlTypes
    <3> QED
      BY <1>1, <3>2, <3>3, <3>4 DEF ControlTypes
  <2> QED
    BY <1>2, <2>2, <2>3
<1>11. ControlTypes'
  BY <1>7, <1>9, <1>10 DEF ControlTypes
<1> QED
  BY <1>5, <1>8, <1>11, TypePartsNext

LEMMA SyncProxied ==
    ASSUME TypeOK, Proxied, NEW r \in Requests, SyncStep(r)
    PROVE  Proxied'
<1>1. SyncTypes /\ ControlTypes
  BY TypeParts
<1>2. pc[r] \in Inner
  BY <1>1, StepShape
<1>3. PICK p : /\ p \in Inner \/ p = (IF repoProxy = NoProxy THEN "done" ELSE "restore")
               /\ \E d : Local(r, p, d)
  BY <1>1, StepShape, ZenonT(40) DEF Moves, Returns
<1>4. /\ UNCHANGED <<repoProxy, globals, saved, initRag, overlap>>
      /\ pc' = [pc EXCEPT ![r] = p]
  BY <1>3 DEF Local, history
<1>5. pc'[r] = p /\ \A c \in Requests \ {r} : pc'[c] = pc[c]
  BY <1>1, <1>4 DEF ControlTypes
<1>6. Within' = Within
  <2>1. CASE repoProxy = NoProxy
    BY <1>4, <2>1 DEF Within
  <2>2. CASE repoProxy # NoProxy
    <3>1. pc[r] \notin Outside /\ pc'[r] \notin Outside
      BY <1>2, <1>3, <1>5, <2>2 DEF Inner, Outside
    <3> QED
      BY <1>4, <1>5, <3>1 DEF Within, Outside
  <2> QED
    BY <2>1, <2>2
<1>7. NoneToSet'
  <2> SUFFICES ASSUME repoProxy = NoProxy, NEW c \in Requests
               PROVE  pc'[c] \notin {"save", "set", "restore", "restoreGit"}
    BY <1>4 DEF NoneToSet
  <2>1. pc[c] \notin {"save", "set", "restore", "restoreGit"}
    BY DEF Proxied, NoneToSet
  <2> QED
    BY <1>3, <1>5, <2>1 DEF Inner
<1>8. \A c \in Within : pc'[c] = pc[c] \/ (pc[c] \in Inner /\ pc'[c] \in Inner \cup {"restore"})
  BY <1>2, <1>3, <1>5 DEF Within
<1> QED
  BY <1>4, <1>6, <1>7, <1>8, ElsewhereKeeps

-----------------------------------------------------------------------------
(* Who is in a directory, and what is found there.                          *)
LEMMA ActiveIs ==
    ASSUME NEW r \in Requests
    PROVE  Active(r) <=> pc[r] \notin {"new", "restore", "restoreGit", "done"}
BY DEF Active, Using, Path

LEMMA ActiveNext ==
    ASSUME NEW r \in Requests
    PROVE  Active(r)' <=> pc'[r] \notin {"new", "restore", "restoreGit", "done"}
BY DEF Active, Using, Path

(* Another request, unless it was met in the same directory.                *)
LEMMA SyncOthers ==
    ASSUME IInv, NEW r \in Requests, SyncStep(r), NEW c \in Requests \ {r}, c \notin shared
    PROVE  Origin(c)' /\ Fetched(c)'
<1>1. SyncTypes /\ ControlTypes
  BY TypeParts DEF IInv
<1>2. /\ pc[r] \in Inner /\ pc'[c] = pc[c] /\ asked' = asked
      /\ fetched'[c] = fetched[c] /\ since'[c] = since[c] /\ before'[c] = before[c]
  <2>1. pc[r] \in Inner /\ fetched'[c] = fetched[c]
    BY <1>1, StepShape DEF SyncTypes
  <2>2. PICK d \in Dirs :
            \/ \E p \in Inner : Moves(r, p, d)
            \/ \E code \in {200, 500} : Returns(r, d, code)
    BY <1>1, StepShape
  <2>3. pc'[c] = pc[c] /\ asked' = asked
    BY <1>1, <2>2 DEF Moves, Returns, Local, ControlTypes
  <2>4. since'[c] = since[c] /\ before'[c] = before[c]
    BY <1>1, <2>2 DEF Moves, Returns, arrival, SyncTypes
  <2> QED
    BY <2>1, <2>3, <2>4
<1>3. CASE ~ Active(c)
  <2>1. pc'[c] \in {"new", "restore", "restoreGit", "done"}
    BY <1>2, <1>3, ActiveIs
  <2> QED
    BY <2>1, ActiveNext DEF Origin, Fetched
<1>4. CASE Active(c)
  <2>1. Active(r)
    BY <1>2, ActiveIs DEF Inner
  <2>2. Path(c) # Path(r)
    BY <1>4, <2>1 DEF IInv, Marked
  <2>3. disk'[Path(c)] = disk[Path(c)]
    <3>2. PICK d \in Dirs :
            \/ \E p \in Inner : Moves(r, p, d)
            \/ \E code \in {200, 500} : Returns(r, d, code)
      BY <1>1, StepShape
    <3>1. disk' = [disk EXCEPT ![Path(r)] = d]
      BY <3>2 DEF Moves, Returns, Local
    <3> QED
      BY <1>1, <2>2, <3>1, PathType DEF SyncTypes
  <2>4. Path(c)' = Path(c) /\ Active(c)'
    BY <1>2, <1>4, ActiveIs, ActiveNext DEF Path
  <2>5. Origin(c) /\ Fetched(c)
    BY DEF IInv, Sound
  <2> QED
    BY <1>2, <1>4, <2>3, <2>4, <2>5 DEF Origin, Fetched, IsClone
<1> QED
  BY <1>3, <1>4

(* The request itself.                                                      *)
LEMMA SyncSelf ==
    ASSUME IInv, NEW r \in Requests, SyncStep(r), r \notin shared
    PROVE  Origin(r)' /\ Fetched(r)'
<1>1. SyncTypes /\ ControlTypes /\ NotAhead /\ Origin(r) /\ Fetched(r)
  BY TypeParts DEF IInv, Sound
<1> DEFINE D == disk[Path(r)]
           u == asked[r][1]
<1>2. /\ Path(r) \in Paths /\ u \in Urls /\ D \in Dirs /\ fetched[r] \in 0 .. MaxHead
      /\ \A x \in Urls : since[r][x] <= remote[x]
  BY <1>1, PathType, SameDisk DEF SyncTypes, NotAhead
<1>3. ASSUME NEW p, NEW d, Local(r, p, d)
      PROVE  pc'[r] = p /\ disk'[Path(r)] = d /\ Path(r)' = Path(r) /\ asked' = asked
  BY <1>1, <1>2, <1>3 DEF Local, Path, ControlTypes, SyncTypes
<1>4. Active(r)
  BY <1>1, StepShape, ActiveIs DEF Inner
<1>5. ASSUME NEW d, NEW code, Returns(r, d, code)
      PROVE  Origin(r)' /\ Fetched(r)'
  <2>1. pc'[r] \in {"done", "restore"}
    BY <1>3, <1>5 DEF Returns
  <2> QED
    BY <2>1, ActiveNext DEF Origin, Fetched
<1>6. ASSUME NEW p, NEW d, Moves(r, p, d),
             IsClone(d) => d.origin = u \/ (IsClone(D) /\ d.origin = D.origin)
      PROVE  Origin(r)'
  <2>1. /\ pc'[r] = p /\ disk'[Path(r)] = d /\ Path(r)' = Path(r) /\ asked' = asked
        /\ before' = before
    BY <1>3, <1>6 DEF Moves, arrival
  <2> QED
    BY <1>1, <1>4, <1>6, <2>1 DEF Origin, IsClone
<1>7. ASSUME NEW d \in {NoDir, Unusable, D}, NEW p \in {"remove", "clone", "open", "stat"},
             Moves(r, p, d)
      PROVE  Origin(r)' /\ Fetched(r)'
  <2>1. Origin(r)'
    BY <1>6, <1>7, DirTypes
  <2>2. pc'[r] \in {"remove", "clone", "open", "stat"}
    BY <1>3, <1>7 DEF Moves
  <2> QED
    BY <2>1, <2>2 DEF Fetched
<1>8. CASE pc[r] = "clone" /\ Moves(r, "cloning", Unusable)
           /\ fetched' = [fetched EXCEPT ![r] = remote[u]]
  <2>1. Origin(r)'
    BY <1>6, <1>8, DirTypes
  <2>2. pc'[r] = "cloning" /\ fetched'[r] = remote[u] /\ since' = since /\ asked' = asked
    BY <1>1, <1>3, <1>8 DEF Moves, arrival, SyncTypes
  <2>3. since[r][u] <= remote[u] /\ remote[u] \in Int /\ since[r][u] \in Int
    BY <1>1, <1>2, RepoSyncAssumption DEF SyncTypes
  <2>4. fetched'[r] >= since'[r][asked'[r][1]]
    BY <2>2, <2>3
  <2> QED
    BY <2>1, <2>2, <2>4 DEF Fetched
<1>9. CASE pc[r] = "cloning" /\ UNCHANGED <<try, fetched>>
           /\ Moves(r, "head", [origin |-> u, on |-> "default", head |-> fetched[r]])
  <2> DEFINE d == [origin |-> u, on |-> "default", head |-> fetched[r]]
  <2>1. d.origin = u /\ d.on = "default" /\ d.head = fetched[r]
    OBVIOUS
  <2>2. d \in Clone
    BY <1>2, CloneType
  <2>3. IsClone(d)
    BY <2>2, DirTypes
  <2>4. pc'[r] = "head" /\ disk'[Path(r)'] = d /\ since' = since
    BY <1>3, <1>9 DEF Moves, arrival
  <2>5. fetched[r] >= since[r][u]
    BY <1>1, <1>9 DEF Fetched
  <2> HIDE DEF d
  <2>6. Origin(r)'
    BY <1>6, <1>9, <2>1 DEF d
  <2>7. Fetched(r)'
    BY <2>1, <2>3, <2>4, <2>5 DEF Fetched, IsClone
  <2> QED
    BY <2>6, <2>7
<1>10. CASE /\ pc[r] = "open" /\ Moves(r, "reset", D) /\ IsClone(D)
            /\ fetched' = [fetched EXCEPT ![r] = remote[D.origin]]
  <2>1. Origin(r)'
    BY <1>6, <1>10
  <2>2. pc'[r] = "reset" /\ fetched'[r] = remote[D.origin] /\ since' = since /\ disk'[Path(r)'] = D
    BY <1>1, <1>3, <1>10 DEF Moves, arrival, SyncTypes
  <2>3. D.origin \in Urls
    BY <1>2, <1>10, DirTypes, CloneFields
  <2>4. since[r][D.origin] <= remote[D.origin] /\ remote[D.origin] \in Int /\ since[r][D.origin] \in Int
    BY <1>1, <1>2, <2>3, RepoSyncAssumption DEF SyncTypes
  <2>5. fetched'[r] >= since'[r][disk'[Path(r)'].origin]
    BY <2>2, <2>4
  <2> QED
    BY <1>10, <2>1, <2>2, <2>5 DEF Fetched, IsClone
<1>11. CASE /\ pc[r] = "reset" /\ UNCHANGED <<try, fetched>> /\ IsClone(D) /\ Tracked[D.origin] # "none"
            /\ Moves(r, "head", [origin |-> D.origin, on |-> Tracked[D.origin], head |-> fetched[r]])
  <2> DEFINE d == [origin |-> D.origin, on |-> Tracked[D.origin], head |-> fetched[r]]
  <2>1. d.origin = D.origin /\ d.on = Tracked[D.origin] /\ d.head = fetched[r]
    OBVIOUS
  <2>2. D.origin \in Urls
    BY <1>2, <1>11, DirTypes, CloneFields
  <2>3. Tracked[D.origin] \in {"default", "other"}
    BY <1>11, <2>2, RepoSyncAssumption
  <2>4. d \in Clone
    BY <1>2, <2>2, <2>3, CloneType
  <2>5. IsClone(d)
    BY <2>4, DirTypes
  <2>6. pc'[r] = "head" /\ disk'[Path(r)'] = d /\ since' = since
    BY <1>3, <1>11 DEF Moves, arrival
  <2>7. fetched[r] >= since[r][D.origin]
    BY <1>1, <1>11 DEF Fetched
  <2> HIDE DEF d
  <2>8. Origin(r)'
    BY <1>6, <1>11, <2>1 DEF d
  <2>9. Fetched(r)'
    BY <2>1, <2>3, <2>5, <2>6, <2>7 DEF Fetched, IsClone
  <2> QED
    BY <2>8, <2>9
<1>12. \A d \in {NoDir, Unusable, D} : Moves(r, "remove", d) => Origin(r)' /\ Fetched(r)'
  BY <1>7
<1>13. \A p \in {"clone", "open"} : Moves(r, p, D) => Origin(r)' /\ Fetched(r)'
  BY <1>7
<1>14. \A d \in {NoDir, Unusable, D} : Moves(r, "stat", d) => Origin(r)' /\ Fetched(r)'
  BY <1>7
<1> QED
  BY <1>1, <1>5, <1>8, <1>9, <1>10, <1>11, <1>12, <1>13, <1>14, SyncCases

LEMMA SyncSound ==
    ASSUME IInv, NEW r \in Requests, SyncStep(r)
    PROVE  Marked' /\ NotAhead' /\ Sound'
<1>1. SyncTypes /\ ControlTypes /\ Marked /\ NotAhead
  BY TypeParts DEF IInv
<1>2. PICK d \in Dirs :
        \/ \E p \in Inner : Moves(r, p, d)
        \/ \E code \in {200, 500} : Returns(r, d, code)
  BY <1>1, StepShape
<1>3. /\ asked' = asked /\ shared' = shared /\ remote' = remote
      /\ \A c \in Requests \ {r} : pc'[c] = pc[c]
  BY <1>1, <1>2 DEF Moves, Returns, Local, history, ControlTypes
<1>4. \A c \in Requests : Active(c)' => Active(c)
  <2>1. Active(r)
    BY <1>1, StepShape, ActiveIs DEF Inner
  <2> QED
    BY <1>3, <2>1, ActiveIs, ActiveNext
<1>5. Marked'
  BY <1>1, <1>3, <1>4 DEF Marked, Path
<1>6. NotAhead'
  <2> SUFFICES ASSUME NEW c \in Requests, NEW u \in Urls PROVE since'[c][u] <= remote[u]
    BY <1>3 DEF NotAhead
  <2>1. since'[c] = since[c] \/ since'[c] = [x \in Urls |-> 0]
    BY <1>1, <1>2 DEF Moves, Returns, arrival, SyncTypes
  <2>2. remote[u] \in 0 .. MaxHead
    BY <1>1 DEF SyncTypes
  <2>3. since[c][u] <= remote[u]
    BY <1>1 DEF NotAhead
  <2>4. since'[c][u] = since[c][u] \/ since'[c][u] = 0
    BY <2>1
  <2> QED
    BY <2>2, <2>3, <2>4, RepoSyncAssumption
<1>7. Sound'
  BY <1>3, SyncOthers, SyncSelf DEF Sound
<1> QED
  BY <1>5, <1>6, <1>7

-----------------------------------------------------------------------------
(* The steps that touch no directory.                                       *)
LEMMA NoDirectory ==
    ASSUME IInv, UNCHANGED <<asked, disk, since, before, fetched, shared>>,
           \A u \in Urls : remote[u] <= remote'[u] /\ remote'[u] \in Nat,
           \A c \in Requests :
                \/ pc'[c] = pc[c]
                \/ pc[c] \in {"save", "set"} /\ pc'[c] \in {"set", "stat"}
                \/ pc'[c] \in {"restoreGit", "done"}
    PROVE  Marked' /\ NotAhead' /\ Sound'
<1>1. SyncTypes
  BY TypeParts DEF IInv
<1>2. \A c \in Requests : Active(c)' => Active(c)
  BY ActiveIs, ActiveNext
<1>3. Marked'
  BY <1>2 DEF IInv, Marked, Path
<1>4. NotAhead'
  <2> SUFFICES ASSUME NEW c \in Requests, NEW u \in Urls PROVE since[c][u] <= remote'[u]
    BY DEF NotAhead
  <2>1. since[c][u] \in Int /\ remote[u] \in Int /\ since[c][u] <= remote[u]
    BY <1>1, RepoSyncAssumption DEF IInv, NotAhead, SyncTypes
  <2>2. remote[u] <= remote'[u] /\ remote'[u] \in Int
    OBVIOUS
  <2> QED
    BY <2>1, <2>2
<1>5. ASSUME NEW c \in Requests \ shared PROVE Origin(c)' /\ Fetched(c)'
  <2>1. Origin(c) /\ Fetched(c)
    BY DEF IInv, Sound
  <2>2. Origin(c)'
    BY <1>2, <2>1 DEF Origin, IsClone, Path
  <2>3. Fetched(c)'
    BY <2>1 DEF Fetched, IsClone, Path
  <2> QED
    BY <2>2, <2>3
<1> QED
  BY <1>3, <1>4, <1>5 DEF Sound

LEMMA RemoteSame ==
    ASSUME IInv, UNCHANGED remote
    PROVE  \A u \in Urls : remote[u] <= remote'[u] /\ remote'[u] \in Nat
<1>1. \A u \in Urls : remote[u] \in Nat
  BY TypeParts, RepoSyncAssumption DEF IInv, SyncTypes
<1> QED
  BY <1>1

LEMMA PushKeeps == ASSUME IInv, NEW u \in Urls, Push(u) PROVE IInv'
<1>1. RouteTypes /\ SyncTypes /\ ControlTypes /\ HistoryTypes /\ Proxied
  BY TypeParts DEF IInv
<1>2. /\ remote[u] < MaxHead /\ remote' = [remote EXCEPT ![u] = remote[u] + 1]
      /\ UNCHANGED <<repoProxy, transport, protocols, prevTransport, prevProtocols, tr, rag, ragTr>>
      /\ UNCHANGED <<disk, asked, try, fetched, since, before, pc, reply, overlap, shared>>
  BY DEF Push, globals, saved, initRag, request, arrival, history
<1>3. remote' \in [Urls -> 0 .. MaxHead] /\ \A x \in Urls : remote[x] <= remote'[x] /\ remote'[x] \in Nat
  <2>1. remote[u] \in Nat /\ MaxHead \in Nat /\ remote[u] + 1 \in 0 .. MaxHead
    BY <1>1, <1>2, RepoSyncAssumption DEF SyncTypes
  <2>2. remote' \in [Urls -> 0 .. MaxHead]
    BY <1>1, <1>2, <2>1 DEF SyncTypes
  <2>3. \A x \in Urls : remote'[x] = IF x = u THEN remote[u] + 1 ELSE remote[x]
    BY <1>1, <1>2 DEF SyncTypes
  <2>4. \A x \in Urls : remote[x] \in Nat
    BY <1>1, RepoSyncAssumption DEF SyncTypes
  <2> QED
    BY <2>2, <2>3, <2>4
<1>4. SyncTypes'
  BY <1>1, <1>2, <1>3 DEF SyncTypes
<1>5. RouteTypes' /\ ControlTypes' /\ HistoryTypes'
  BY <1>1, <1>2 DEF RouteTypes, ControlTypes, HistoryTypes
<1>6. Proxied'
  <2>1. Within' = Within /\ NoneToSet'
    BY <1>1, <1>2 DEF Within, Proxied, NoneToSet
  <2>2. UNCHANGED <<repoProxy, globals, saved, initRag, overlap>>
    BY <1>2 DEF globals, saved, initRag
  <2> QED
    BY <1>1, <1>2, <2>1, <2>2, ElsewhereKeeps
<1>7. Marked' /\ NotAhead' /\ Sound'
  BY <1>2, <1>3, NoDirectory
<1> QED
  BY <1>4, <1>5, <1>6, <1>7, TypePartsNext DEF IInv

LEMMA RagKeeps == ASSUME IInv, Rag PROVE IInv'
<1>1. RouteTypes /\ SyncTypes /\ ControlTypes /\ HistoryTypes /\ Proxied
  BY TypeParts DEF IInv
<1>2. /\ UNCHANGED <<repoProxy, prevTransport, prevProtocols, tr, remote, disk>>
      /\ UNCHANGED <<asked, try, fetched, since, before, pc, reply, shared>>
  BY DEF Rag, RagTransport, RagProtocols, saved, request, arrival, history
<1>3. Routed(transport, GlobalProxy) \in Routes
  BY <1>1, Routing, RepoSyncAssumption DEF RouteTypes
<1>4. rag' \in {"no", "half", "done"} /\ transport' \in Routes /\ protocols' \in Routes /\ ragTr' \in Routes
  BY <1>1, <1>3 DEF Rag, RagTransport, RagProtocols, RouteTypes
<1>5. overlap' \subseteq {"With", "initRAG"}
  BY <1>1 DEF Rag, RagTransport, RagProtocols, HistoryTypes, history
<1>6. RouteTypes'
  BY <1>1, <1>2, <1>4 DEF RouteTypes
<1>7. SyncTypes' /\ ControlTypes' /\ HistoryTypes'
  BY <1>1, <1>2, <1>5 DEF SyncTypes, ControlTypes, HistoryTypes
<1>8. Proxied'
  BY <1>1, RagTransportKeeps, RagProtocolsKeeps DEF Rag
<1>9. Marked' /\ NotAhead' /\ Sound'
  BY <1>2, NoDirectory, RemoteSame
<1> QED
  BY <1>6, <1>7, <1>8, <1>9, TypePartsNext DEF IInv

(* The steps of With.                                                       *)
WithStep(r) == SetTransport(r) \/ SetProtocols(r) \/ RestoreTransport(r) \/ RestoreProtocols(r)

LEMMA WithKeeps == ASSUME IInv, NEW r \in Requests, WithStep(r) PROVE IInv'
<1>1. RouteTypes /\ SyncTypes /\ ControlTypes /\ HistoryTypes /\ Proxied
  BY TypeParts DEF IInv
<1>2. /\ UNCHANGED <<repoProxy, rag, ragTr, remote, disk>>
      /\ UNCHANGED <<asked, try, fetched, since, before, reply, shared>>
  BY DEF WithStep, SetTransport, SetProtocols, RestoreTransport, RestoreProtocols,
         initRag, request, arrival, history
<1>3. Routed(transport, repoProxy) \in Routes
  BY <1>1, Routing, RepoSyncAssumption DEF RouteTypes
<1>4. transport' \in Routes /\ protocols' \in Routes
  BY <1>1, <1>3 DEF WithStep, SetTransport, SetProtocols, RestoreTransport, RestoreProtocols,
                    Restored, RouteTypes
<1>5. /\ prevTransport' \in [Requests -> Routes] /\ prevProtocols' \in [Requests -> Routes]
      /\ tr' \in [Requests -> Routes]
  BY <1>1, <1>4, Direction DEF WithStep, SetTransport, SetProtocols, RestoreTransport,
                               RestoreProtocols, saved, RouteTypes
<1>6. overlap' \subseteq {"With", "initRAG"}
  BY <1>1 DEF WithStep, SetTransport, SetProtocols, RestoreTransport, RestoreProtocols,
              HistoryTypes, history
<1>7. /\ \A c \in Requests \ {r} : pc'[c] = pc[c]
      /\ \/ pc[r] \in {"save", "set"} /\ pc'[r] \in {"set", "stat"}
         \/ pc[r] \in {"restore", "restoreGit"} /\ pc'[r] \in {"restoreGit", "done"}
      /\ pc' \in [Requests -> Phases]
  BY <1>1 DEF WithStep, SetTransport, SetProtocols, RestoreTransport, RestoreProtocols,
              Goto, ControlTypes, Phases
<1>8. RouteTypes' /\ SyncTypes' /\ HistoryTypes'
  BY <1>1, <1>2, <1>4, <1>5, <1>6 DEF RouteTypes, SyncTypes, HistoryTypes
<1>9. ControlTypes'
  BY <1>1, <1>2, <1>7 DEF ControlTypes
<1>10. Proxied'
  BY <1>1, SetTransportKeeps, SetProtocolsKeeps, RestoreTransportKeeps, RestoreProtocolsKeeps
     DEF WithStep
<1>11. Marked' /\ NotAhead' /\ Sound'
  BY <1>2, <1>7, NoDirectory, RemoteSame
<1> QED
  BY <1>8, <1>9, <1>10, <1>11, TypePartsNext DEF IInv

LEMMA RefuseKeeps == ASSUME IInv, NEW r \in Requests, Refuse(r) PROVE IInv'
<1>1. RouteTypes /\ SyncTypes /\ ControlTypes /\ HistoryTypes /\ Proxied
  BY TypeParts DEF IInv
<1>2. /\ pc[r] = "new" /\ pc' = [pc EXCEPT ![r] = "done"] /\ reply' = [reply EXCEPT ![r] = 400]
      /\ UNCHANGED <<repoProxy, transport, protocols, prevTransport, prevProtocols, tr, rag, ragTr>>
      /\ UNCHANGED <<remote, disk, asked, try, fetched, since, before, overlap, shared>>
  BY DEF Refuse, Goto, globals, saved, initRag, request, arrival, history
<1>3. pc'[r] = "done" /\ \A c \in Requests \ {r} : pc'[c] = pc[c]
  BY <1>1, <1>2 DEF ControlTypes
<1>4. RouteTypes' /\ SyncTypes' /\ HistoryTypes'
  BY <1>1, <1>2 DEF RouteTypes, SyncTypes, HistoryTypes
<1>5. ControlTypes'
  BY <1>1, <1>2 DEF ControlTypes, Phases
<1>6. Proxied'
  <2>1. Within' = Within /\ NoneToSet'
    BY <1>1, <1>2, <1>3 DEF Within, Outside, Proxied, NoneToSet
  <2>2. \A c \in Within : pc'[c] = pc[c]
    BY <1>2, <1>3 DEF Within, Outside
  <2>3. UNCHANGED <<repoProxy, globals, saved, initRag, overlap>>
    BY <1>2 DEF globals, saved, initRag
  <2> QED
    BY <1>1, <2>1, <2>2, <2>3, ElsewhereKeeps
<1>7. Marked' /\ NotAhead' /\ Sound'
  BY <1>2, <1>3, NoDirectory, RemoteSame
<1> QED
  BY <1>4, <1>5, <1>6, <1>7, TypePartsNext DEF IInv

(* A request arrives, and may meet others in its directory.                 *)
LEMMA ReceiveKeeps == ASSUME IInv, NEW r \in Requests, Receive(r) PROVE IInv'
<1>1. RouteTypes /\ SyncTypes /\ ControlTypes /\ HistoryTypes /\ Proxied
  BY TypeParts DEF IInv
<1>2. /\ pc[r] = "new" /\ pc' = [pc EXCEPT ![r] = IF repoProxy = NoProxy THEN "stat" ELSE "save"]
      /\ try' = [try EXCEPT ![r] = 1]
      /\ since' = [since EXCEPT ![r] = remote]
      /\ before' = [before EXCEPT ![r] = disk[Path(r)]]
      /\ shared' = shared \cup (IF Using(Path(r)) # {} THEN {r} \cup Using(Path(r)) ELSE {})
      /\ UNCHANGED <<repoProxy, transport, protocols, prevTransport, prevProtocols, tr, rag, ragTr>>
      /\ UNCHANGED <<remote, disk, asked, fetched, reply, overlap>>
  BY DEF Receive, Goto, globals, saved, initRag
<1>3. /\ pc'[r] = (IF repoProxy = NoProxy THEN "stat" ELSE "save")
      /\ \A c \in Requests \ {r} : pc'[c] = pc[c]
  BY <1>1, <1>2 DEF ControlTypes
<1>4. Path(r) \in Paths /\ disk[Path(r)] \in Dirs /\ Path(r)' = Path(r)
  BY <1>1, <1>2, PathType, SameDisk DEF Path
<1>5. /\ since'[r] = remote /\ before'[r] = disk[Path(r)]
      /\ \A c \in Requests \ {r} : since'[c] = since[c] /\ before'[c] = before[c]
  BY <1>1, <1>2 DEF SyncTypes
<1>6. RouteTypes'
  BY <1>1, <1>2 DEF RouteTypes
<1>7. SyncTypes'
  <2> DEFINE Heads == [Urls -> 0 .. MaxHead]
  <2>1. remote \in Heads /\ since \in [Requests -> Heads]
    BY <1>1 DEF SyncTypes
  <2> HIDE DEF Heads
  <2>2. since' \in [Requests -> Heads]
    BY <1>2, <2>1
  <2>3. before' \in [Requests -> Dirs]
    BY <1>1, <1>2, <1>4 DEF SyncTypes
  <2> QED
    BY <1>1, <1>2, <2>2, <2>3 DEF SyncTypes, Heads
<1>8. ControlTypes'
  <2>1. 1 \in 0 .. 2
    OBVIOUS
  <2>2. try' \in [Requests -> 0 .. 2] /\ pc' \in [Requests -> Phases]
    BY <1>1, <1>2, <2>1 DEF ControlTypes, Phases
  <2>3. \A c \in Requests : pc'[c] \in {"restore", "restoreGit", "done"} <=> reply[c] # 0
    BY <1>1, <1>2, <1>3 DEF ControlTypes
  <2> QED
    BY <1>1, <1>2, <2>2, <2>3 DEF ControlTypes
<1>9. HistoryTypes'
  BY <1>1, <1>2 DEF HistoryTypes, Using
<1>10. Proxied'
  <2>1. Within' = Within
    BY <1>2, <1>3 DEF Within, Outside
  <2>2. NoneToSet'
    BY <1>1, <1>2, <1>3 DEF Proxied, NoneToSet
  <2>3. \A c \in Within : pc'[c] = pc[c]
    BY <1>2, <1>3 DEF Within, Outside
  <2>4. UNCHANGED <<repoProxy, globals, saved, initRag, overlap>>
    BY <1>2 DEF globals, saved, initRag
  <2> QED
    BY <1>1, <2>1, <2>2, <2>3, <2>4, ElsewhereKeeps
<1>11. \A c \in Requests \ {r} : Active(c)' <=> Active(c)
  BY <1>3, ActiveIs, ActiveNext
<1>12. Marked'
  <2> SUFFICES ASSUME NEW c \in Requests, NEW d \in Requests,
                      Active(c)', Active(d)', Path(c) = Path(d), c # d
               PROVE  c \in shared'
    BY <1>2 DEF Marked, Path
  <2>1. CASE c # r /\ d # r
    BY <1>2, <1>11, <2>1 DEF IInv, Marked
  <2>2. CASE c = r
    <3>1. d \in Using(Path(r))
      BY <1>11, <2>2 DEF Active
    <3> QED
      BY <1>2, <2>2, <3>1
  <2>3. CASE d = r /\ c # r
    <3>1. c \in Using(Path(r))
      BY <1>11, <2>3 DEF Active
    <3> QED
      BY <1>2, <3>1
  <2> QED
    BY <2>1, <2>2, <2>3
<1>13. NotAhead'
  <2> SUFFICES ASSUME NEW c \in Requests, NEW u \in Urls PROVE since'[c][u] <= remote[u]
    BY <1>2 DEF NotAhead
  <2>1. CASE c = r
    <3>1. remote[u] \in Int
      BY <1>1, RepoSyncAssumption DEF SyncTypes
    <3> QED
      BY <1>5, <2>1, <3>1
  <2>2. CASE c # r
    BY <1>5, <2>2 DEF IInv, NotAhead
  <2> QED
    BY <2>1, <2>2
<1>14. Sound'
  <2> SUFFICES ASSUME NEW c \in Requests \ shared PROVE Origin(c)' /\ Fetched(c)'
    BY <1>2 DEF Sound
  <2>1. CASE c = r
    BY <1>2, <1>3, <1>4, <1>5, <2>1 DEF Origin, Fetched, IsClone
  <2>2. CASE c # r
    <3>1. Origin(c) /\ Fetched(c)
      BY DEF IInv, Sound
    <3>2. Origin(c)'
      BY <1>2, <1>5, <1>11, <2>2, <3>1 DEF Origin, IsClone, Path
    <3>3. Fetched(c)'
      BY <1>2, <1>3, <1>5, <2>2, <3>1 DEF Fetched, IsClone, Path
    <3> QED
      BY <3>2, <3>3
  <2> QED
    BY <2>1, <2>2
<1> QED
  BY <1>6, <1>7, <1>8, <1>9, <1>10, <1>12, <1>13, <1>14, TypePartsNext DEF IInv

LEMMA StutterKeeps == ASSUME IInv, UNCHANGED vars PROVE IInv'
<1>1. RouteTypes /\ SyncTypes /\ ControlTypes /\ HistoryTypes /\ Proxied
  BY TypeParts DEF IInv
<1>2. /\ UNCHANGED <<repoProxy, transport, protocols, prevTransport, prevProtocols, tr, rag, ragTr>>
      /\ UNCHANGED <<remote, disk, asked, try, fetched, since, before, pc, reply, overlap, shared>>
  BY DEF vars, globals, saved, initRag, request, arrival, history
<1>3. RouteTypes' /\ SyncTypes' /\ ControlTypes' /\ HistoryTypes'
  BY <1>1, <1>2 DEF RouteTypes, SyncTypes, ControlTypes, HistoryTypes
<1>4. Proxied'
  <2>1. Within' = Within /\ NoneToSet'
    BY <1>1, <1>2 DEF Within, Proxied, NoneToSet
  <2>2. UNCHANGED <<repoProxy, globals, saved, initRag, overlap>>
    BY <1>2 DEF globals, saved, initRag
  <2> QED
    BY <1>1, <1>2, <2>1, <2>2, ElsewhereKeeps
<1>5. Marked' /\ NotAhead' /\ Sound'
  BY <1>2, NoDirectory, RemoteSame
<1> QED
  BY <1>3, <1>4, <1>5, TypePartsNext DEF IInv

LEMMA SyncKeeps == ASSUME IInv, NEW r \in Requests, SyncStep(r) PROVE IInv'
<1>1. TypeOK'
  BY SyncTyped DEF IInv
<1>2. Proxied'
  BY SyncProxied DEF IInv
<1>3. Marked' /\ NotAhead' /\ Sound'
  BY SyncSound
<1> QED
  BY <1>1, <1>2, <1>3 DEF IInv

LEMMA NextCases ==
    Next <=> \/ \E u \in Urls : Push(u)
             \/ Rag
             \/ \E r \in Requests : Receive(r) \/ Refuse(r) \/ WithStep(r) \/ SyncStep(r)
BY DEF Next, Arrive, Step, WithStep, SyncStep

LEMMA NextInv == IInv /\ [Next]_vars => IInv'
BY NextCases, PushKeeps, RagKeeps, ReceiveKeeps, RefuseKeeps, WithKeeps, SyncKeeps, StutterKeeps

THEOREM Invariance == Spec => []IInv
BY InitInv, NextInv, PTL DEF Spec

(* TypeOK: the state has its types, a proxy is in the place for its kind,   *)
(* and a request is answered exactly when SyncRepo is done.                 *)
THEOREM TypeCorrect == Spec => []TypeOK
BY Invariance, PTL DEF IInv

(* ProxyScoped: while calls of With do not overlap, each leaves transport   *)
(* and protocols as they were, unless initRAG put the server's http proxy   *)
(* over its socks proxy; and all of fn runs through the proxy of the call,  *)
(* unless initRAG came in between.                                          *)
THEOREM ScopedProxy == Spec => []ProxyScoped
<1>1. IInv => ProxyScoped
  <2> SUFFICES ASSUME IInv, "With" \notin overlap
               PROVE  /\ Within = {} /\ ~Mixed => transport = Started /\ protocols = Started
                      /\ "initRAG" \notin overlap =>
                            \A r \in Within : pc[r] \notin {"set", "restore", "restoreGit"} =>
                                transport = Own /\ protocols = Own
    BY DEF ProxyScoped, Own
  <2>1. Within = {} /\ ~Mixed => transport = Started /\ protocols = Started
    BY DEF IInv, Proxied, Idle, Fine
  <2>2. "initRAG" \notin overlap =>
            \A r \in Within : pc[r] \notin {"set", "restore", "restoreGit"} =>
                transport = Own /\ protocols = Own
    BY DEF IInv, Proxied, Undisturbed
  <2> QED
    BY <2>1, <2>2
<1> QED
  BY <1>1, Invariance, PTL

(* Only Head answers "synced".                                              *)
LEMMA SyncedBy ==
    ASSUME IInv, [Next]_vars, NEW r \in Requests, reply[r] = 0, reply'[r] = 200
    PROVE  pc[r] = "head" /\ disk'[Path(r)] = disk[Path(r)]
<1>1. SyncTypes /\ ControlTypes
  BY TypeParts DEF IInv
<1>2. reply'[r] # reply[r] /\ reply'[r] # 400 /\ reply'[r] # 500
  OBVIOUS
<1>3. CASE UNCHANGED vars \/ (\E u \in Urls : Push(u)) \/ Rag
           \/ \E c \in Requests : Receive(c) \/ WithStep(c)
  BY <1>2, <1>3 DEF vars, Push, Rag, RagTransport, RagProtocols, Receive, WithStep, SetTransport,
                    SetProtocols, RestoreTransport, RestoreProtocols
<1>4. CASE \E c \in Requests : Refuse(c)
  <2>1. PICK c \in Requests : reply' = [reply EXCEPT ![c] = 400]
    BY <1>4 DEF Refuse
  <2> QED
    BY <1>1, <1>2, <2>1 DEF ControlTypes
<1>5. CASE \E c \in Requests : SyncStep(c)
  <2>1. PICK c \in Requests : SyncStep(c)
    BY <1>5
  <2>2. reply' # reply
    BY <1>2
  <2>3. \A d : ~Returns(c, d, 500)
    BY <1>1, <1>2 DEF Returns, ControlTypes
  <2>4. pc[c] = "head" /\ Returns(c, disk[Path(c)], 200)
    BY <1>1, <2>1, <2>2, <2>3, SyncCases, ZenonT(40) DEF Moves
  <2>5. c = r
    BY <1>1, <1>2, <2>4 DEF Returns, ControlTypes
  <2>6. disk' = [disk EXCEPT ![Path(r)] = disk[Path(r)]]
    BY <2>4, <2>5 DEF Returns, Local
  <2> QED
    BY <1>1, <2>4, <2>5, <2>6, PathType DEF SyncTypes
<1> QED
  BY <1>3, <1>4, <1>5, NextCases

(* SyncedIsFresh: a request answered "synced" that was alone in its         *)
(* directory leaves a clone there with every commit that clone's remote had *)
(* when the request arrived, whichever attempt succeeded: the remote asked  *)
(* for, or the one the directory was a clone of before.                     *)
THEOREM FreshWhenSynced == Spec => SyncedIsFresh
<1>1. IInv /\ [Next]_vars =>
        [\A r \in Requests \ shared : reply[r] = 0 /\ reply'[r] = 200 =>
           LET d == disk'[Path(r)] IN
               /\ IsClone(d)
               /\ d.head >= since[r][d.origin]
               /\ d.origin # asked[r][1] => IsClone(before[r]) /\ d.origin = before[r].origin
               /\ d.on = "default" \/ Tracked[d.origin] = "other"]_vars
  <2> SUFFICES ASSUME IInv, [Next]_vars, NEW r \in Requests \ shared, reply[r] = 0, reply'[r] = 200
               PROVE  LET d == disk'[Path(r)] IN
                        /\ IsClone(d)
                        /\ d.head >= since[r][d.origin]
                        /\ d.origin # asked[r][1] =>
                                IsClone(before[r]) /\ d.origin = before[r].origin
                        /\ d.on = "default" \/ Tracked[d.origin] = "other"
    OBVIOUS
  <2>1. pc[r] = "head" /\ disk'[Path(r)] = disk[Path(r)]
    BY SyncedBy
  <2>2. Origin(r) /\ Fetched(r)
    BY DEF IInv, Sound
  <2>3. Active(r)
    BY <2>1, ActiveIs
  <2> QED
    BY <2>1, <2>2, <2>3 DEF Origin, Fetched
<1> QED
  BY <1>1, Invariance, PTL DEF Spec, SyncedIsFresh
=============================================================================
