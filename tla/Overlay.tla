------------------------------ MODULE Overlay ------------------------------
(***************************************************************************)
(* The overlay of one server (onet/overlay.go): it gives the messages that *)
(* its connections receive to protocol instances, creates an instance for  *)
(* the first message of a token, and asks the sender for a tree that it    *)
(* does not know.                                                          *)
(*                                                                         *)
(* A connection handles its messages one after the other.  Messages that   *)
(* waited for a tree are transmitted again by a goroutine of their own.    *)
(* A step is what happens under one lock; transmitMux spans several steps. *)
(***************************************************************************)
EXTENDS TreeStorage, SequencesExt

CONSTANTS
    Conns,           \* the connections, one per peer
    OldPeers,        \* those whose peer answers a RequestTree in the old way
    Retransmitters,  \* goroutines of checkPendingMessages
    Tokens,          \* the protocol instances there can be
    Local,           \* those that this server creates itself
    TreeOf,          \* token -> tree
    RosterOf,        \* tree -> roster
    Msgs,            \* the messages that will arrive
    Dest,            \* message -> token
    Sent,            \* connection -> the messages its peer sends, in order
    WithConfig,      \* the messages that are sent along with a config
    Outcomes,        \* token -> what newProtocol may return: "ok", "error", "nil"
    InOrder          \* TRUE: what a peer sends arrives in that order

ASSUME OverlayAssumption ==
    /\ OldPeers \subseteq Conns /\ Local \subseteq Tokens
    /\ TreeOf \in [Tokens -> TreeIDs] /\ Dest \in [Msgs -> Tokens]
    /\ Sent \in [Conns -> Seq(Msgs)] /\ WithConfig \subseteq Msgs
    /\ \A c \in Conns : \A i, j \in DOMAIN Sent[c] : Sent[c][i] = Sent[c][j] => i = j
    /\ \A c, d \in Conns : Range(Sent[c]) \cap Range(Sent[d]) # {} => c = d
    /\ \A m \in Msgs : \E c \in Conns : m \in Range(Sent[c])
    /\ DOMAIN RosterOf = TreeIDs /\ Conns \cap Retransmitters = {}
    /\ Outcomes \in [Tokens -> SUBSET {"ok", "error", "nil"}]
    /\ InOrder \in BOOLEAN

VARIABLES
    toCome,             \* the packets that have not arrived
    work,               \* what each connection and goroutine is doing
    todo,               \* what each goroutine still has to transmit
    spawned,            \* per tree: goroutines that have not begun
    pendingMsg,         \* messages that wait for a tree
    requests,           \* per connection and tree: RequestTree not answered
    rosterRequests,     \* per connection and roster: the same
    pendingTreeMarshal, \* per roster: the trees that wait for it
    pendingTreeLocked,  \* pendingTreeLock was left locked
    instances, protocolInstances, instancesInfo,   \* sets of tokens
    pendingConfigs,     \* tokens for which a config has arrived
    configured,         \* tokens whose instance got its config
    creating,           \* per local token: progress of CreateProtocol
    overlay,            \* "open", "closing" (instancesLock held) or "closed"
    delivered,          \* per token: the messages its instance accepted
    dropped,            \* messages that were given up (history)
    unanswered,         \* trees a request for which got no answer (history)
    overtaken,          \* messages that began to wait when their tree was there (history)
    wiped,              \* trees whose entry was deleted during a request (history)
    started             \* per token: instances made by its service (history)

messageVars == <<toCome, dropped, delivered>>
requestVars == <<requests, unanswered, overtaken, wiped, rosterRequests,
                 pendingTreeMarshal, pendingTreeLocked>>
instanceVars == <<instances, protocolInstances, instancesInfo, started>>
configVars == <<pendingConfigs, configured>>
workerVars == <<work, todo, spawned, pendingMsg>>
vars == <<messageVars, requestVars, instanceVars, configVars, workerVars,
          creating, overlay, storageVars>>

Workers == Conns \cup Retransmitters
Rosters == Range(RosterOf)

\* SendToTreeNode sends a config message ahead of the message it belongs to.
Packet(kind, m) == [kind |-> kind, msg |-> m]
Packets == [kind : {"message", "config"}, msg : Msgs]
PacketsSent == {p \in Packets : p.kind = "config" => p.msg \in WithConfig}
Src(m) == CHOOSE c \in Conns : m \in Range(Sent[c])
Position(m) == CHOOSE i \in DOMAIN Sent[Src(m)] : Sent[Src(m)][i] = m
Ahead(p, q) ==
    /\ Src(p.msg) = Src(q.msg)
    /\ \/ Position(p.msg) < Position(q.msg)
       \/ p.msg = q.msg /\ p.kind = "config" /\ q.kind = "message"

Idle == [at |-> "idle", what |-> "nothing"]

\* Inside of TransmitMsg, between locking and unlocking transmitMux.
HoldsTransmitMux(w) == work[w].at \in {"insert", "bind", "enqueue"}

\* The message a worker holds, and the token and the tree it is for.
Held(w) == work[w].what
TokenOf(w) == Dest[Held(w)]
TreeFor(m) == TreeOf[Dest[m]]

Goto(w, place) == work' = [work EXCEPT ![w].at = place]
Finish(w) == work' = [work EXCEPT ![w] = Idle]
Drop(w) == Finish(w) /\ dropped' = dropped \cup {Held(w)}

TypeOK ==
    /\ StorageTypeOK
    /\ toCome \subseteq Packets /\ dropped \subseteq Msgs
    /\ work \in [Workers -> [at : {"idle", "save", "known", "register", "request",
                                   "lookup", "insert", "bind", "enqueue", "set"},
                             what : Msgs \cup TreeIDs \cup {"nothing"}]]
    /\ todo \in [Retransmitters -> Seq(Msgs)]
    /\ spawned \in [TreeIDs -> Nat]
    /\ pendingMsg \in Seq(Msgs)
    /\ unanswered \subseteq TreeIDs /\ overtaken \subseteq Msgs /\ wiped \subseteq TreeIDs
    /\ requests \in [Conns -> [TreeIDs -> Nat]]
    /\ rosterRequests \in [Conns -> [Rosters -> Nat]]
    /\ pendingTreeMarshal \in [Rosters -> SUBSET TreeIDs]
    /\ pendingTreeLocked \in BOOLEAN
    /\ instances \subseteq Tokens /\ protocolInstances \subseteq Tokens
    /\ instancesInfo \subseteq Tokens
    /\ pendingConfigs \subseteq Tokens /\ configured \subseteq Tokens
    /\ creating \in [Local -> {"no", "inserted", "set", "over"}]
    /\ overlay \in {"open", "closing", "closed"}
    /\ delivered \in [Tokens -> Seq(Msgs)]
    /\ started \in [Tokens -> Nat]

Init ==
    /\ StorageInit
    /\ toCome = PacketsSent
    /\ dropped = {}
    /\ work = [w \in Workers |-> Idle]
    /\ todo = [r \in Retransmitters |-> <<>>]
    /\ spawned = [t \in TreeIDs |-> 0]
    /\ pendingMsg = <<>>
    /\ requests = [c \in Conns |-> [t \in TreeIDs |-> 0]]
    /\ rosterRequests = [c \in Conns |-> [r \in Rosters |-> 0]]
    /\ pendingTreeMarshal = [r \in Rosters |-> {}]
    /\ pendingTreeLocked = FALSE /\ unanswered = {} /\ overtaken = {} /\ wiped = {}
    /\ instances = {} /\ protocolInstances = {} /\ instancesInfo = {}
    /\ pendingConfigs = {} /\ configured = {}
    /\ creating = [t \in Local |-> "no"]
    /\ overlay = "open"
    /\ delivered = [t \in Tokens |-> <<>>]
    /\ started = [t \in Tokens |-> 0]

-----------------------------------------------------------------------------
(* TransmitMsg.                                                            *)

\* The first step: look for the tree and cancel its removal.
BeginTransmit(w, m) ==
    /\ GetAndRefresh(TreeFor(m))
    /\ work' = [work EXCEPT ![w] =
         [at |-> IF trees[TreeFor(m)] = "stored" THEN "lookup" ELSE "save",
          what |-> m]]

\* The next packet of a connection: the first one that was sent, or any if
\* the peer sends over several connections.  Server.Close stops all of them.
Arrives(c, kind, m) ==
    /\ work[c].at = "idle" /\ overlay = "open"
    /\ Packet(kind, m) \in toCome /\ Src(m) = c
    /\ InOrder => \A p \in toCome : ~Ahead(p, Packet(kind, m))
    /\ toCome' = toCome \ {Packet(kind, m)}

\* A message arrives.  Nobody answers a local instance before it has started.
Receive(c) ==
    /\ \E m \in Msgs : /\ Arrives(c, "message", m)
                       /\ Dest[m] \in Local => creating[Dest[m]] = "over"
                       /\ BeginTransmit(c, m)
    /\ UNCHANGED <<dropped, delivered, requestVars, instanceVars,
                   configVars, todo, spawned, pendingMsg, creating, overlay>>

\* requestTree: savePendingMsg.
SavePendingMsg(w) ==
    /\ work[w].at = "save"
    /\ pendingMsg' = Append(pendingMsg, Held(w))
    /\ overtaken' = IF trees[TreeFor(Held(w))] = "stored" THEN overtaken \cup {Held(w)}
                    ELSE overtaken
    /\ Goto(w, "known")
    /\ UNCHANGED <<messageVars, requests, unanswered, wiped, rosterRequests,
                   pendingTreeMarshal, pendingTreeLocked, instanceVars, configVars, todo,
                   spawned, creating, overlay, storageVars>>

\* A request has been sent already, or is to be sent.
TestRegistered(w) ==
    /\ work[w].at = "known" /\ Unlocked
    /\ IF IsRegistered(TreeFor(Held(w))) THEN Finish(w) ELSE Goto(w, "register")
    /\ UNCHANGED <<messageVars, requestVars, instanceVars, configVars, todo,
                   spawned, pendingMsg, creating, overlay, storageVars>>

RegisterUnknown(w) ==
    /\ work[w].at = "register"
    /\ Register(TreeFor(Held(w)))
    /\ Goto(w, "request")
    /\ UNCHANGED <<messageVars, requestVars, instanceVars, configVars, todo,
                   spawned, pendingMsg, creating, overlay>>

\* The RequestTree goes to the sender of the message.
SendRequest(w) ==
    /\ work[w].at = "request"
    /\ requests' = [requests EXCEPT ![Src(Held(w))][TreeFor(Held(w))] = @ + 1]
    /\ Finish(w)
    /\ UNCHANGED <<messageVars, unanswered, overtaken, wiped, rosterRequests, pendingTreeMarshal,
                   pendingTreeLocked, instanceVars, configVars, todo, spawned,
                   pendingMsg, creating, overlay, storageVars>>

SendRequestFails(w) ==
    /\ work[w].at = "request"
    /\ Unregister(TreeFor(Held(w)))
    /\ unanswered' = unanswered \cup {TreeFor(Held(w))}
    /\ Finish(w)
    /\ UNCHANGED <<messageVars, requests, overtaken, wiped, rosterRequests,
                   pendingTreeMarshal, pendingTreeLocked, instanceVars, configVars, todo,
                   spawned, pendingMsg, creating, overlay>>

\* instancesInfo tells that the instance was there and is done.
NeverDone(tok) == FALSE   \* mutant: a late message starts the protocol again
IsDone(tok) == tok \in instancesInfo

\* transmitMux is locked; then the instance is looked up.
Lookup(w) ==
    /\ work[w].at = "lookup"
    /\ \A v \in Workers : ~HoldsTransmitMux(v)
    /\ overlay # "closing"
    /\ IF IsDone(TokenOf(w))
       THEN Drop(w)
       ELSE /\ Goto(w, IF TokenOf(w) \in protocolInstances THEN "enqueue" ELSE "insert")
            /\ UNCHANGED dropped
    /\ UNCHANGED <<toCome, delivered, requestVars, instanceVars,
                   configVars, todo, spawned, pendingMsg, creating, overlay,
                   storageVars>>

GetConfig(tok) ==
    /\ configured' = IF tok \in pendingConfigs THEN configured \cup {tok}
                                               ELSE configured \ {tok}
    /\ pendingConfigs' = pendingConfigs \ {tok}

\* newTreeNodeInstanceFromToken, then getConfig.  The config inside of the
\* message is not there any more: Process does not copy it.
InsertInstance(w) ==
    /\ work[w].at = "insert" /\ overlay # "closing"
    /\ instances' = instances \cup {TokenOf(w)}
    /\ GetConfig(TokenOf(w))
    /\ Goto(w, "bind")
    /\ UNCHANGED <<messageVars, requestVars, protocolInstances, instancesInfo,
                   started, todo, spawned, pendingMsg, creating, overlay,
                   storageVars>>

\* cleanTreeStorage: the tree is removed when no other instance uses it.
CleanTreeStorage(tok) ==
    IF \E t \in instances \ {tok} : TreeOf[t] = TreeOf[tok]
    THEN UNCHANGED storageVars
    ELSE RemoveTree(TreeOf[tok])

\* nodeDelete, with instancesLock held.
NodeDelete(tok) ==
    IF tok \in instances
    THEN /\ instances' = instances \ {tok}
         /\ protocolInstances' = protocolInstances \ {tok}
         /\ instancesInfo' = instancesInfo \cup {tok}
         /\ CleanTreeStorage(tok)
    ELSE UNCHANGED <<instances, protocolInstances, instancesInfo, storageVars>>

\* newProtocol makes an instance; RegisterProtocolInstance fails if Close
\* has deleted the tree node instance in between.
BindInstance(w) ==
    /\ work[w].at = "bind" /\ overlay # "closing" /\ "ok" \in Outcomes[TokenOf(w)]
    /\ started' = [started EXCEPT ![TokenOf(w)] = @ + 1]
    /\ IF TokenOf(w) \in instances
       THEN /\ protocolInstances' = protocolInstances \cup {TokenOf(w)}
            /\ Goto(w, "enqueue")
            /\ UNCHANGED dropped
       ELSE UNCHANGED protocolInstances /\ Drop(w)
    /\ UNCHANGED <<toCome, delivered, requestVars, instances,
                   instancesInfo, configVars, todo, spawned, pendingMsg, creating,
                   overlay, storageVars>>

NewProtocolFails(w) ==
    /\ work[w].at = "bind" /\ overlay # "closing" /\ "error" \in Outcomes[TokenOf(w)]
    /\ NodeDelete(TokenOf(w))
    /\ Drop(w)
    /\ UNCHANGED <<toCome, delivered, requestVars, started,
                   configVars, todo, spawned, pendingMsg, creating, overlay>>

\* The service does not want the instance: the tree node instance stays.
NewProtocolNil(w) ==
    /\ work[w].at = "bind" /\ "nil" \in Outcomes[TokenOf(w)]
    /\ Drop(w)
    /\ UNCHANGED <<toCome, delivered, requestVars, instanceVars,
                   configVars, todo, spawned, pendingMsg, creating, overlay,
                   storageVars>>

\* ProcessProtocolMsg of the instance that was found or made.
Enqueue(w) ==
    /\ work[w].at = "enqueue"
    /\ IF TokenOf(w) \in instances
       THEN /\ delivered' = [delivered EXCEPT ![TokenOf(w)] = Append(@, Held(w))]
            /\ Finish(w)
            /\ UNCHANGED dropped
       ELSE Drop(w) /\ UNCHANGED delivered
    /\ UNCHANGED <<toCome, requestVars, instanceVars, configVars,
                   todo, spawned, pendingMsg, creating, overlay, storageVars>>

-----------------------------------------------------------------------------
(* Trees, rosters and configs arrive.                                      *)

\* A peer answers a RequestTree, as handleRequestTree does, and
\* handleSendTree finds the tree registered; or the answer is ignored.
HandleSendTree(c) ==
    /\ work[c].at = "idle" /\ overlay = "open" /\ Unlocked /\ c \notin OldPeers
    /\ \E id \in TreeIDs :
         /\ requests[c][id] > 0
         /\ requests' = [requests EXCEPT ![c][id] = @ - 1]
         /\ work' = IF IsRegistered(id)
                    THEN [work EXCEPT ![c] = [at |-> "set", what |-> id]] ELSE work
    /\ UNCHANGED <<messageVars, unanswered, overtaken, wiped, rosterRequests, pendingTreeMarshal,
                   pendingTreeLocked, instanceVars, configVars, todo, spawned,
                   pendingMsg, creating, overlay, storageVars>>

\* The peer has no such tree: handleRequestTree sends nothing.
PeerLacksTree(c) ==
    /\ \E id \in TreeIDs : /\ requests[c][id] > 0
                           /\ requests' = [requests EXCEPT ![c][id] = @ - 1]
                           /\ unanswered' = unanswered \cup {id}
    /\ UNCHANGED <<messageVars, overtaken, wiped, rosterRequests, pendingTreeMarshal,
                   pendingTreeLocked, instanceVars, configVars, workerVars,
                   creating, overlay, storageVars>>

\* RegisterTree stores trees and starts a goroutine for each of them.
SetOnly(ids) == Set(ids) /\ UNCHANGED spawned   \* mutant: nobody is told
RegisterTrees(ids) ==
    /\ Set(ids)
    /\ spawned' = [t \in TreeIDs |-> spawned[t] + IF t \in ids THEN 1 ELSE 0]

RegisterTree(c) ==
    /\ work[c].at = "set"
    /\ RegisterTrees({Held(c)})
    /\ Finish(c)
    /\ UNCHANGED <<messageVars, requestVars, instanceVars, configVars, todo,
                   pendingMsg, creating, overlay>>

\* addPendingTreeMarshal.
AddPendingTreeMarshal(id) ==
    /\ ~pendingTreeLocked
    /\ pendingTreeMarshal' = [pendingTreeMarshal EXCEPT ![RosterOf[id]] = @ \cup {id}]

KnowsRoster(id) == \E t \in instances : RosterOf[TreeOf[t]] = RosterOf[id]

\* An old peer answers with a TreeMarshal.  Unless an instance knows the
\* roster, it is requested and the tree waits for it.
HandleSendTreeMarshal(c) ==
    /\ work[c].at = "idle" /\ overlay = "open" /\ Unlocked /\ c \in OldPeers
    /\ \E id \in TreeIDs :
         /\ requests[c][id] > 0
         /\ requests' = [requests EXCEPT ![c][id] = @ - 1]
         /\ \/ /\ ~IsRegistered(id)
               /\ UNCHANGED <<work, rosterRequests, pendingTreeMarshal>>
            \/ /\ IsRegistered(id)
               /\ KnowsRoster(id)
               /\ work' = [work EXCEPT ![c] = [at |-> "set", what |-> id]]
               /\ UNCHANGED <<rosterRequests, pendingTreeMarshal>>
            \/ /\ IsRegistered(id)
               /\ ~KnowsRoster(id)
               /\ rosterRequests' = [rosterRequests EXCEPT ![c][RosterOf[id]] = @ + 1]
               /\ AddPendingTreeMarshal(id)
               /\ UNCHANGED work
    /\ UNCHANGED <<messageVars, unanswered, overtaken, wiped, pendingTreeLocked, instanceVars,
                   configVars, todo, spawned, pendingMsg, creating, overlay, storageVars>>

\* checkPendingTreeMarshal registers the trees that wait for a roster.  The
\* list keeps them.  When there is no list, the lock is not released.
CheckPendingTreeMarshal(r) ==
    /\ ~pendingTreeLocked
    /\ IF pendingTreeMarshal[r] = {}
       THEN pendingTreeLocked' = TRUE /\ UNCHANGED <<storageVars, spawned>>
       ELSE RegisterTrees(pendingTreeMarshal[r]) /\ UNCHANGED pendingTreeLocked

\* The peer answers a RequestRoster.
RosterAnswered(c, r) ==
    /\ rosterRequests[c][r] > 0
    /\ rosterRequests' = [rosterRequests EXCEPT ![c][r] = @ - 1]

HandleSendRoster(c) ==
    /\ work[c].at = "idle" /\ overlay = "open"
    /\ \E r \in Rosters : RosterAnswered(c, r) /\ CheckPendingTreeMarshal(r)
    /\ UNCHANGED <<messageVars, requests, unanswered, overtaken, wiped, pendingTreeMarshal,
                   instanceVars, configVars, work, todo, pendingMsg, creating, overlay>>

\* handleConfigMessage.
HandleConfigMessage(c) ==
    /\ \E m \in Msgs : /\ Arrives(c, "config", m)
                       /\ pendingConfigs' = pendingConfigs \cup {Dest[m]}
    /\ UNCHANGED <<dropped, delivered, requestVars, instanceVars,
                   configured, workerVars, creating, overlay, storageVars>>

\* The loop of checkPendingMessages: the messages of a list that are in a set,
\* in the order of the list.
Filtered(list, set) ==
    LET upTo[i \in 0..Len(list)] ==
            IF i = 0 THEN <<>>
            ELSE IF list[i] \in set THEN Append(upTo[i - 1], list[i]) ELSE upTo[i - 1]
    IN  upTo[Len(list)]
WaitsFor(id) == {m \in Msgs : TreeFor(m) = id}

\* The messages that checkPendingMessages leaves in the list.
AllRemain(id) == pendingMsg   \* mutant: the list is not replaced
Remaining(id) == Filtered(pendingMsg, Msgs \ WaitsFor(id))

\* checkPendingMessages takes the messages that wait for the tree ...
CheckPendingMessages(r) ==
    /\ work[r].at = "idle" /\ todo[r] = <<>>
    /\ \E id \in TreeIDs :
         /\ spawned[id] > 0
         /\ spawned' = [spawned EXCEPT ![id] = @ - 1]
         /\ todo' = [todo EXCEPT ![r] = Filtered(pendingMsg, WaitsFor(id))]
         /\ pendingMsg' = Remaining(id)
    /\ UNCHANGED <<messageVars, requestVars, instanceVars, configVars, work,
                   creating, overlay, storageVars>>

\* ... and transmits them in the order of their arrival.
Retransmit(r) ==
    /\ work[r].at = "idle" /\ todo[r] # <<>>
    /\ BeginTransmit(r, Head(todo[r]))
    /\ todo' = [todo EXCEPT ![r] = Tail(@)]
    /\ UNCHANGED <<messageVars, requestVars, instanceVars, configVars, spawned,
                   pendingMsg, creating, overlay>>

-----------------------------------------------------------------------------
(* The server's own protocols, and the end.                                *)

\* CreateProtocol: the instance is entered, its tree is registered, then the
\* protocol is instantiated and bound.
CreateInstance(t) ==
    /\ creating[t] = "no" /\ overlay = "open"
    /\ creating' = [creating EXCEPT ![t] = "inserted"]
    /\ instances' = instances \cup {t}
    /\ UNCHANGED <<messageVars, requestVars, protocolInstances, instancesInfo,
                   started, configVars, workerVars, overlay, storageVars>>

CreateRegister(t) ==
    /\ creating[t] = "inserted"
    /\ RegisterTrees({TreeOf[t]})
    /\ creating' = [creating EXCEPT ![t] = "set"]
    /\ UNCHANGED <<messageVars, requestVars, instanceVars, configVars, work, todo,
                   pendingMsg, overlay>>

CreateBind(t) ==
    /\ creating[t] = "set" /\ overlay # "closing"
    /\ creating' = [creating EXCEPT ![t] = "over"]
    /\ started' = [started EXCEPT ![t] = @ + 1]
    /\ protocolInstances' = IF t \in instances THEN protocolInstances \cup {t}
                                               ELSE protocolInstances
    /\ UNCHANGED <<messageVars, requestVars, instances, instancesInfo, configVars,
                   workerVars, overlay, storageVars>>

\* A protocol calls Done: nodeDone.
NodeDone(t) ==
    /\ t \in protocolInstances /\ overlay # "closing"
    /\ NodeDelete(t)
    /\ UNCHANGED <<messageVars, requestVars, started, configVars, workerVars,
                   creating, overlay>>

\* Close, with instancesLock held.  The removals that nodeDelete starts here
\* are cancelled at once by the storage's Close, and are left out.
CloseOverlay ==
    /\ overlay = "open" /\ \A c \in Conns : work[c].at = "idle"
    /\ overlay' = "closing"
    /\ instancesInfo' = instancesInfo \cup instances
    /\ instances' = {} /\ protocolInstances' = {}
    /\ CloseStorage
    /\ UNCHANGED <<messageVars, requestVars, started, configVars, workerVars, creating>>

OverlayClosed ==
    /\ overlay = "closing"
    /\ StorageClosed
    /\ overlay' = "closed"
    /\ UNCHANGED <<messageVars, requestVars, instanceVars, configVars, workerVars, creating>>

RemovalStep ==
    /\ \E g \in 1..Len(removals) : TimerFires(g) \/ DeleteTree(g) \/ StopTimer(g)
    /\ wiped' = wiped \cup {id \in TreeIDs : trees[id] = "known" /\ trees'[id] = "absent"}
    /\ UNCHANGED <<messageVars, requests, unanswered, overtaken, rosterRequests,
                   pendingTreeMarshal, pendingTreeLocked, instanceVars, configVars, workerVars,
                   creating, overlay>>

Transmission(w) ==
    \/ SavePendingMsg(w) \/ TestRegistered(w) \/ RegisterUnknown(w)
    \/ SendRequest(w) \/ SendRequestFails(w) \/ Lookup(w) \/ InsertInstance(w)
    \/ BindInstance(w) \/ NewProtocolFails(w) \/ NewProtocolNil(w) \/ Enqueue(w)

Reception(c) ==
    \/ Receive(c) \/ HandleSendTree(c) \/ PeerLacksTree(c) \/ RegisterTree(c)
    \/ HandleSendTreeMarshal(c) \/ HandleSendRoster(c) \/ HandleConfigMessage(c)

Next ==
    \/ \E w \in Workers : Transmission(w)
    \/ \E c \in Conns : Reception(c)
    \/ \E r \in Retransmitters : CheckPendingMessages(r) \/ Retransmit(r)
    \/ \E t \in Local : CreateInstance(t) \/ CreateRegister(t) \/ CreateBind(t)
    \/ \E t \in Tokens : NodeDone(t)
    \/ RemovalStep
    \/ CloseOverlay \/ OverlayClosed

Spec == Init /\ [][Next]_vars
FairSpec == Spec /\ WF_vars(Next)

-----------------------------------------------------------------------------
(* Properties.                                                             *)

\* A message that has arrived is in exactly one place: accepted by its own
\* instance, given up, waiting for its tree, or in the hands of one worker.
\* However goroutines, tree requests and closing interleave, it is neither
\* lost nor delivered twice (overlay.go:129-335).
ToCome(m) == Packet("message", m) \in toCome
InHand == {"save", "lookup", "insert", "bind", "enqueue"}
InHands(m) == {w \in Workers : work[w].at \in InHand /\ Held(w) = m}
InTodo(m) == UNION {{r} \X {i \in 1..Len(todo[r]) : todo[r][i] = m} : r \in Retransmitters}
Waiting(m) == {i \in 1..Len(pendingMsg) : pendingMsg[i] = m}
Accepted(m) == UNION {{t} \X {i \in 1..Len(delivered[t]) : delivered[t][i] = m} : t \in Tokens}
Places(m) ==
    Cardinality(InHands(m)) + Cardinality(InTodo(m)) + Cardinality(Waiting(m))
    + Cardinality(Accepted(m)) + (IF m \in dropped THEN 1 ELSE 0)

MessageConserved ==
    /\ \A m \in Msgs : Places(m) = IF ToCome(m) THEN 0 ELSE 1
    /\ \A t \in Tokens : \A i \in 1..Len(delivered[t]) : Dest[delivered[t][i]] = t

\* A token gets at most one protocol instance, ever: concurrent first messages
\* create one (transmitMux), and messages after Done or Close none
\* (overlay.go:148-221).
OneProtocolPerToken == \A t \in Tokens : started[t] <= 1

\* pendingTreeLock is never left locked: a roster arrives only after a tree
\* was put on its list, and the list is never emptied (overlay.go:275-292).
PendingTreeLockFree == ~pendingTreeLocked

\* A protocol instance whose config was sent gets it (overlay.go:168-175); when one
\* peer sends the messages of its token and the service accepts the first.
ConfigPassedOn ==
    \A t \in protocolInstances :
        (\E m \in WithConfig : Dest[m] = t) => t \in configured

\* The tree of a running protocol is in the storage, so that Tree() does not
\* panic (treenode.go:178-190).
TreeKept == \A t \in protocolInstances : trees[TreeOf[t]] = "stored"

\* A stored tree is in use, about to be used, or about to be removed: "The tree
\* will be clean when this instance is over" (overlay.go:134-137).
NoOrphanTree ==
    overlay = "open" =>
    \A id \in TreeIDs :
        \/ trees[id] # "stored"
        \/ cancellations[id] # 0
        \/ \E t \in instances : TreeOf[t] = id
        \/ spawned[id] > 0
        \/ \E r \in Retransmitters : \E i \in DOMAIN todo[r] : TreeFor(todo[r][i]) = id
        \/ \E w \in Workers : work[w].at # "idle" /\ id \in {Held(w)} \cup
             (IF Held(w) \in Msgs THEN {TreeFor(Held(w))} ELSE {})

\* No message is forgotten: while one waits, somebody is about to transmit it,
\* or about to request its tree, or a request is on its way.  The exceptions: a
\* request for the tree got no answer; the tree came between the look for it and
\* the list of waiting messages; a removal that was planned before deleted the
\* entry of a tree that is requested (overlay.go:137-147, 306-332,
\* treestorage.go:84-107).
Expected(id) ==
    \/ spawned[id] > 0
    \/ \E c \in Conns : requests[c][id] > 0 \/ rosterRequests[c][RosterOf[id]] > 0
    \/ \E w \in Workers : \/ work[w].at \in {"known", "register", "request"} /\ TreeFor(Held(w)) = id
                          \/ work[w].at = "set" /\ Held(w) = id
NoneForgotten ==
    \A i \in DOMAIN pendingMsg :
        LET id == TreeFor(pendingMsg[i])
        IN  Expected(id) \/ id \in unanswered \/ pendingMsg[i] \in overtaken \/ id \in wiped

\* "When the tree is sent to the overlay, then the pendingMsg that are relying on
\* this tree will get processed" (overlay.go:810-813).
PendingProcessed ==
    \A i \in DOMAIN pendingMsg :
        trees[TreeFor(pendingMsg[i])] = "stored" => Expected(TreeFor(pendingMsg[i]))

\* Closing the overlay ends, unless the timer of a removal fires before its
\* goroutine is told to stop (overlay.go:656-666, treestorage.go:138-151).
CloseEnds ==
    [](overlay = "closing" =>
         <>(\/ overlay = "closed"
            \/ \E g \in 1..Len(removals) : removals[g].at = "fired"))

\* Closing the overlay ends: "Close forces cleaning goroutines to be shutdown"
\* (treestorage.go:137).
CleaningStops == [](overlay = "closing" => <>(overlay = "closed"))
=============================================================================
