----------------------------- MODULE Simulation -----------------------------
(***************************************************************************)
(* The life of a simulation: setup (build.go, localhost.go, onet's         *)
(* simulation.go), Simulate on every machine (runsimul.go), the servers    *)
(* (server.go), joining (HelloChainBoost and Joined) and closing           *)
(* (SimulationDone and CloseAll).                                          *)
(*                                                                         *)
(* Every address runs Simulate: in a process of its own on a virtual       *)
(* machine, or all in one process on localhost.  A server is named by its  *)
(* index in the roster; the first is the root.  A send is an error unless  *)
(* the receiver's router listens; its effect on the connection is the      *)
(* subject of Router, its delivery to a protocol instance of Overlay.  The *)
(* rounds between joining and closing are the subject of MainChainRounds   *)
(* and SideChain.                                                          *)
(***************************************************************************)
EXTENDS Trees

CONSTANTS
    Experiments,   \* the run configurations
    batchSize,     \* nodes invited by one goroutine
    MaxLost,       \* bound on Joined messages that cannot be sent
    BigTree(_, _, _),     \* BigTrees' GenerateBigNaryTree
    ReadTree(_, _)        \* and MakeTree

\* calcHosts: the size of a full tree.
calcHosts(bf, depth) ==
    IF bf = 1 THEN depth + 1 ELSE (1 - bf ^ (depth + 1)) \div (1 - bf)

Least(P(_)) == CHOOSE n \in 1..100 : P(n) /\ \A m \in 1..(n - 1) : ~P(m)

\* CheckHosts fills in the one of hosts, bf and depth that is not set.
CheckHosts(rc) ==
    IF rc.hosts = 0 THEN [rc EXCEPT !.hosts = calcHosts(rc.bf, rc.depth)]
    ELSE IF rc.bf = 0 THEN [rc EXCEPT !.bf = Least(LAMBDA n : calcHosts(n, rc.depth) >= rc.hosts)]
    ELSE IF rc.depth = 0 THEN [rc EXCEPT !.depth = Least(LAMBDA n : calcHosts(rc.bf, n) >= rc.hosts)]
    ELSE rc

\* CreateRoster: the servers are dealt to the addresses, with a port of their
\* own and the next one for the websocket.  On localhost the system finds the
\* ports, which are different for all servers.
CreateRoster(addresses, hosts, local) ==
    NewRoster([c \in 1..hosts |->
        [key |-> c - 1, host |-> addresses[((c - 1) % Len(addresses)) + 1],
         port |-> 2 * (IF local THEN c - 1 ELSE (c - 1) \div Len(addresses))]])

CreateTree(rc, ro) == BigTree(ro, rc.bf, rc.hosts)

\* Setup and Save: what is in the simulation's file.
Saved(exp) ==
    LET rc == CheckHosts(exp.rc)
        ro == CreateRoster(exp.addresses, rc.hosts, exp.oneProcess)
    IN [Roster |-> ro, TreeMarshal |-> MakeTreeMarshal(CreateTree(rc, ro))]

\* LoadSimulationConfig: the tree, and the servers of this address.
\* The tree's list is kept with it, as servers.
NoConfig == [Tree |-> NoTree, List |-> <<>>]
Order(t) == LET list == List(t) IN [i \in DOMAIN list |-> t.nodes[list[i]].RosterIndex]
Loaded(saved) ==
    LET t == ReadTree(saved.TreeMarshal, saved.Roster) IN [Tree |-> t, List |-> Order(t)]
ServersAt(saved, ca) == {s \in 0..(RosterLen(saved.Roster) - 1) : Identity(saved.Roster, s).host = ca}

\* On localhost all addresses are rewritten to 127.0.0.1.
Address(exp, e) == IF exp.oneProcess THEN <<"127.0.0.1", e.port>> ELSE <<e.host, e.port>>

\* The configuration that the root's instance is given,
Configuration ==
    {"PercentageTxPay", "MCRoundDuration", "MainChainBlockSize", "SideChainBlockSize",
     "SectorNumber", "NumberOfPayTXsUpperBound", "NumberOfActiveContractsPerServer",
     "SimulationRounds", "SimulationSeed", "NbrSubTrees", "Threshold", "SCRoundDuration",
     "CommitteeWindow", "MCRoundPerEpoch", "SCRoundPerEpoch", "SimState",
     "StoragePaymentEpoch", "PayPercentOfTransactions"}
\* what of it is in a Hello message,
HelloChainBoost == Configuration \ {"PayPercentOfTransactions"}
\* and what the receiver takes from there.
TakenOver == HelloChainBoost \ {"SimulationRounds"}

\* An instance of the protocol, and the fields that have the root's values.
NoInstance == [created |-> FALSE, config |-> {}]
NewChainBoostProtocol == [created |-> TRUE, config |-> {}]
Configured(pi, fields) == [pi EXCEPT !.config = @ \cup fields]

\* More subtrees than nodes are refused.
SetNbrSubTree(nbr, nodes) == nbr \in 1..nodes

ASSUME SimulationAssumption ==
    /\ batchSize \in Nat \ {0} /\ MaxLost \in Nat
    /\ \A exp \in Experiments :
         /\ exp.oneProcess \in BOOLEAN
         /\ exp.CommitteeWindow \in Nat \ {0} /\ exp.NbrSubTrees \in Nat \ {0}
         /\ exp.addresses \in Seq(STRING) \ {<<>>} /\ CheckHosts(exp.rc).hosts \in Nat \ {0}

\* What the generator and the reader of trees together owe to a simulation: the
\* tree that is read back has each server of the roster once (SameTree).
ASSUME TreesAssumption ==
    \A exp \in Experiments :
      LET saved == Saved(exp)
          order == Loaded(saved).List
      IN /\ DOMAIN order = 1..RosterLen(saved.Roster) /\ IsInjective(order)
         /\ Range(order) = 0..(RosterLen(saved.Roster) - 1)

-----------------------------------------------------------------------------
VARIABLES
    conf,      \* the experiment
    file,      \* the simulation's file
    readBack,  \* what any machine reads from it
    closeTree, \* the tree of CloseAll, made from the file's roster
    sim,       \* address -> where Simulate is
    sc,        \* address -> the tree it loaded
    server,    \* server -> "off", "starting", "listening", "started", "closed" or "stuck"
    wgServer,  \* address -> servers that run
    invite,    \* batch -> the next position in the tree's list, and its error
    CalledWG, JoinedWG,
    instance,     \* server -> its instance of the protocol ChainBoost
    greeting,     \* nodes whose helloChainBoost runs
    running,      \* the protocols were started
    sendPos,      \* the root's position in the loop that sends SimulationDone
    leaving,      \* servers that have called FuncClose
    msgs,         \* messages on their way
    lost          \* Joined messages that could not be sent (history)

join == <<invite, CalledWG, JoinedWG, instance, greeting, running, lost>>
close == <<sendPos, leaving>>
setup == <<conf, file, readBack, closeTree>>
simVars == <<setup, sim, sc, server, wgServer, join, close, msgs>>

Addresses == Range(conf.addresses)
NrServers == RosterLen(file.Roster)
Servers == 0..(NrServers - 1)
HostOf(s) == Identity(file.Roster, s).host
RootNode == 0
RootHost == HostOf(RootNode)

RootOrder == sc[RootHost].List
Batches == 0..(NrServers \div batchSize)
Begin(b) == b * batchSize
End(b) == IF NrServers <= Begin(b) + batchSize THEN NrServers ELSE Begin(b) + batchSize

\* The machines that end when Simulate at h calls os.Exit.
Together(h) == IF conf.oneProcess THEN Addresses ELSE {h}
Alive(s) == sim[HostOf(s)] \notin {"off", "exited"}
Reachable(s) == Alive(s) /\ server[s] \in {"listening", "started"}
Msg(type, from, to) == [type |-> type, from |-> from, to |-> to]

SimInit ==
    /\ conf \in Experiments /\ file = Saved(conf) /\ readBack = Loaded(file)
    /\ closeTree = GenerateBinaryTree(file.Roster)
    /\ sim = [h \in Addresses |-> "off"]
    /\ sc = [h \in Addresses |-> NoConfig]
    /\ server = [s \in Servers |-> "off"]
    /\ wgServer = [h \in Addresses |-> 0]
    /\ invite = [b \in Batches |-> [pos |-> Begin(b), err |-> FALSE]]
    /\ CalledWG = 0 /\ JoinedWG = 0
    /\ instance = [s \in Servers |-> NoInstance] /\ greeting = {} /\ running = FALSE
    /\ sendPos = 0 /\ leaving = {} /\ msgs = {} /\ lost = 0

Exit(h) ==
    /\ sim' = [g \in Addresses |-> IF g \in Together(h) THEN "exited" ELSE sim[g]]
    /\ msgs' = {m \in msgs : HostOf(m.to) \notin Together(h)}

-----------------------------------------------------------------------------
(* Starting.                                                               *)

\* Simulate loads its configuration and starts its servers; without any, it
\* returns an error.
Launch(h) ==
    /\ sim[h] = "off"
    /\ LET mine == ServersAt(file, h) IN
       /\ sim' = [sim EXCEPT ![h] = IF mine = {} THEN "failed"
                                    ELSE IF RootNode \in mine THEN "loaded" ELSE "waiting"]
       /\ sc' = [sc EXCEPT ![h] = IF mine = {} THEN NoConfig ELSE readBack]
       /\ server' = [s \in Servers |-> IF s \in mine THEN "starting" ELSE server[s]]
       /\ wgServer' = [wgServer EXCEPT ![h] = Cardinality(mine)]
    /\ UNCHANGED <<setup, join, close, msgs>>

\* Server.Start: the router and the websocket listen, then the server is marked.
Listen(s) ==
    /\ Alive(s) /\ server[s] = "starting"
    /\ server' = [server EXCEPT ![s] = "listening"]
    /\ UNCHANGED <<setup, sim, sc, wgServer, join, close, msgs>>

MarkStarted(s) ==
    /\ Alive(s) /\ server[s] = "listening"
    /\ server' = [server EXCEPT ![s] = "started"]
    /\ UNCHANGED <<setup, sim, sc, wgServer, join, close, msgs>>

\* An error of Simulate ends the program: at once on a virtual machine, on
\* localhost when Wait reads it.  Wait also gives up after a time.
GiveUp(h) ==
    /\ \/ sim[h] = "failed"
       \/ conf.oneProcess /\ sim[h] \notin {"off", "exited"}
    /\ Exit(h)
    /\ UNCHANGED <<setup, sc, server, wgServer, join, close>>

-----------------------------------------------------------------------------
(* Joining.                                                                *)

\* The first committee: servers of the roster behind a node of the tree.
Committee(list, window) ==
    <<list[window + 1]>> \o [i \in 1..(window - 1) |-> i - 1]

\* A slip: the root's own Done is run twice.
RootCountedTwice(n) == n - 2
OthersOf(n) == n - 1

\* The root creates the protocols: it panics when the tree is too small for
\* the committee, and returns an error when the committee is for the subtrees.
CreateProtocols ==
    /\ sim[RootHost] = "loaded"
    /\ \/ /\ conf.CommitteeWindow >= NrServers
          /\ Exit(RootHost)
          /\ UNCHANGED <<CalledWG, JoinedWG, instance>>
       \/ /\ conf.CommitteeWindow < NrServers
          /\ ~SetNbrSubTree(conf.NbrSubTrees, Len(Committee(RootOrder, conf.CommitteeWindow)))
          /\ sim' = [sim EXCEPT ![RootHost] = "failed"]
          /\ UNCHANGED <<CalledWG, JoinedWG, instance, msgs>>
       \/ /\ conf.CommitteeWindow < NrServers
          /\ SetNbrSubTree(conf.NbrSubTrees, Len(Committee(RootOrder, conf.CommitteeWindow)))
          /\ instance' = [instance EXCEPT ![RootNode] =
               Configured(NewChainBoostProtocol, Configuration)]
          /\ sim' = [sim EXCEPT ![RootHost] = "inviting"]
          /\ JoinedWG' = OthersOf(NrServers) /\ CalledWG' = OthersOf(NrServers)
          /\ UNCHANGED msgs
    /\ UNCHANGED <<setup, sc, server, wgServer, invite, greeting, running, lost, close>>

\* A slip: the last batch is not invited.
WithoutLast == Batches \ {NrServers \div batchSize}
Invited == Batches

Inviting(b) == /\ sim[RootHost] = "inviting" /\ b \in Invited
               /\ invite[b].pos < End(b) /\ ~invite[b].err

\* sendMsgToJoinChainBoostProtocol passes over the root.
SkipRoot(b) ==
    /\ Inviting(b) /\ RootOrder[invite[b].pos + 1] = RootNode
    /\ invite' = [invite EXCEPT ![b].pos = @ + 1]
    /\ UNCHANGED <<setup, sim, sc, server, wgServer, CalledWG, JoinedWG, instance, greeting,
                   running, lost, close, msgs>>

\* It tries again until the send succeeds.  A send that succeeds when the time
\* is over is an error too.
Invite(b) ==
    LET child == RootOrder[invite[b].pos + 1] IN
    /\ Inviting(b) /\ child # RootNode /\ Reachable(child)
    /\ msgs' = msgs \cup {Msg("Hello", RootNode, child)}
    /\ CalledWG' = CalledWG - 1
    /\ \E late \in BOOLEAN :
         invite' = [invite EXCEPT ![b] = [pos |-> @.pos + 1, err |-> late]]
    /\ UNCHANGED <<setup, sim, sc, server, wgServer, JoinedWG, instance, greeting, running,
                   lost, close>>

InviteTimesOut(b) ==
    /\ Inviting(b) /\ RootOrder[invite[b].pos + 1] # RootNode
    /\ invite' = [invite EXCEPT ![b].err = TRUE]
    /\ UNCHANGED <<setup, sim, sc, server, wgServer, CalledWG, JoinedWG, instance, greeting,
                   running, lost, close, msgs>>

\* errs.Wait and CalledWG.Wait; then Start.
EndInvites ==
    /\ sim[RootHost] = "inviting"
    /\ \A b \in Invited : invite[b].err \/ invite[b].pos = End(b)
    /\ \/ /\ \E b \in Invited : invite[b].err
          /\ sim' = [sim EXCEPT ![RootHost] = "failed"]
       \/ /\ \A b \in Invited : ~invite[b].err
          /\ CalledWG = 0
          /\ sim' = [sim EXCEPT ![RootHost] = "starting"]
    /\ UNCHANGED <<setup, sc, server, wgServer, join, close, msgs>>

\* The first message creates the instance.  Dispatch takes the configuration
\* over, and helloChainBoost answers; Dispatch ends when there are too many
\* subtrees.
ReceiveHello(s) ==
    LET m == Msg("Hello", RootNode, s) IN
    /\ m \in msgs
    /\ msgs' = msgs \ {m}
    /\ instance' = [instance EXCEPT ![s] =
         Configured(NewChainBoostProtocol, HelloChainBoost \cap TakenOver)]
    /\ greeting' = IF SetNbrSubTree(conf.NbrSubTrees, NrServers) THEN greeting \cup {s} ELSE greeting
    /\ UNCHANGED <<setup, sim, sc, server, wgServer, invite, CalledWG, JoinedWG, running, lost, close>>

SendJoined(s) ==
    /\ s \in greeting /\ Alive(s)
    /\ greeting' = greeting \ {s}
    /\ msgs' = IF Reachable(RootNode) THEN msgs \cup {Msg("Joined", s, RootNode)} ELSE msgs
    /\ lost' = IF Reachable(RootNode) THEN lost ELSE lost + 1
    /\ UNCHANGED <<setup, sim, sc, server, wgServer, invite, CalledWG, JoinedWG, instance,
                   running, close>>

\* The connection breaks: "can't announce joining to root node".
JoinedFails(s) ==
    /\ s \in greeting /\ Alive(s) /\ lost < MaxLost
    /\ greeting' = greeting \ {s} /\ lost' = lost + 1
    /\ UNCHANGED <<setup, sim, sc, server, wgServer, invite, CalledWG, JoinedWG, instance,
                   running, close, msgs>>

ReceiveJoined(s) ==
    LET m == Msg("Joined", s, RootNode) IN
    /\ m \in msgs
    /\ msgs' = msgs \ {m}
    /\ JoinedWG' = JoinedWG - 1
    /\ UNCHANGED <<setup, sim, sc, server, wgServer, invite, CalledWG, instance, greeting,
                   running, lost, close>>

\* helloChainBoost of the root.
StartProtocols ==
    /\ sim[RootHost] = "starting" /\ JoinedWG = 0
    /\ running' = TRUE
    /\ sim' = [sim EXCEPT ![RootHost] = "running"]
    /\ UNCHANGED <<setup, sc, server, wgServer, invite, CalledWG, JoinedWG, instance, greeting,
                   lost, close, msgs>>

-----------------------------------------------------------------------------
(* Closing.                                                                *)

\* DoneRootNode: the last round is over.
RoundsOver ==
    /\ sim[RootHost] = "running"
    /\ sim' = [sim EXCEPT ![RootHost] = "closing"]
    /\ UNCHANGED <<setup, sc, server, wgServer, join, close, msgs>>

\* A slip: the root is left out.
OtherReachable(child) == child # RootNode /\ Reachable(child)
Deliverable(child) == child = RootNode \/ Reachable(child)

\* SimulationDone is sent to the whole tree, the root itself included; errors
\* are logged.
SendDone ==
    /\ sim[RootHost] = "closing" /\ sendPos < NrServers
    /\ sendPos' = sendPos + 1
    /\ LET child == RootOrder[sendPos + 1] IN
       msgs' = IF Deliverable(child)
               THEN msgs \cup {Msg("Done", RootNode, child)} ELSE msgs
    /\ UNCHANGED <<setup, sim, sc, server, wgServer, join, leaving>>

\* Dispatch calls os.Exit.
ReceiveDone(s) ==
    /\ Msg("Done", RootNode, s) \in msgs
    /\ Exit(HostOf(s))
    /\ UNCHANGED <<setup, sc, server, wgServer, join, close>>

\* The nodes of the close tree are in the order of the roster.
Children(s) ==
    {closeTree.nodes[k].RosterIndex : k \in Range(closeTree.nodes[s + 1].Children)}
Parent(s) == closeTree.nodes[closeTree.nodes[s + 1].Parent].RosterIndex

Prepare(s) == {Msg("PrepareClose", s, c) : c \in {d \in Children(s) : Reachable(d)}}
\* FuncClose up to the sleep.
CloseMsg(s) == IF s # RootNode /\ Reachable(Parent(s))
               THEN {Msg("Close", s, Parent(s))} ELSE {}

StartCloseAll ==
    /\ sim[RootHost] = "closing" /\ sendPos = NrServers
    /\ sim' = [sim EXCEPT ![RootHost] = "closeAll"]
    /\ msgs' = msgs \cup Prepare(RootNode)
    /\ UNCHANGED <<setup, sc, server, wgServer, join, close>>

FuncPrepareClose(s) ==
    /\ \E m \in msgs :
         /\ m.type = "PrepareClose" /\ m.to = s /\ Reachable(s)
         /\ \/ /\ Children(s) # {}
               /\ msgs' = (msgs \ {m}) \cup Prepare(s)
               /\ UNCHANGED leaving
            \/ /\ Children(s) = {}
               /\ msgs' = (msgs \ {m}) \cup CloseMsg(s)
               /\ leaving' = leaving \cup {s}
    /\ UNCHANGED <<setup, sim, sc, server, wgServer, join, sendPos>>

\* A slip: the first Close is enough.
FirstClose(s) == \E c \in Children(s) : Msg("Close", c, s) \in msgs
\* The handler takes the Close messages of all children at once.
AllClose(s) == \A c \in Children(s) : Msg("Close", c, s) \in msgs

FuncClose(s) ==
    /\ Reachable(s) /\ Children(s) # {} /\ s \notin leaving /\ AllClose(s)
    /\ leaving' = leaving \cup {s}
    /\ msgs' = (msgs \ {Msg("Close", c, s) : c \in Children(s)}) \cup CloseMsg(s)
    /\ UNCHANGED <<setup, sim, sc, server, wgServer, join, sendPos>>

\* CloseHost: Server.Close wakes Start, unless the server is not marked as
\* started.  The root's CloseAll is done then.
CloseHost(s) ==
    /\ s \in leaving /\ Reachable(s)
    /\ server' = [server EXCEPT ![s] = IF @ = "started" THEN "closed" ELSE "stuck"]
    /\ wgServer' = IF server[s] = "started" THEN [wgServer EXCEPT ![HostOf(s)] = @ - 1] ELSE wgServer
    /\ sim' = IF s = RootNode THEN [sim EXCEPT ![RootHost] = "waiting"] ELSE sim
    /\ UNCHANGED <<setup, sc, join, close, msgs>>

\* wgServer.Wait, and os.Exit.
WaitServers(h) ==
    /\ sim[h] = "waiting" /\ wgServer[h] = 0
    /\ Exit(h)
    /\ UNCHANGED <<setup, sc, server, wgServer, join, close>>

-----------------------------------------------------------------------------
Start ==
    \/ \E h \in Addresses : Launch(h)
    \/ \E s \in Servers : Listen(s) \/ MarkStarted(s)

Joining ==
    \/ CreateProtocols \/ EndInvites \/ StartProtocols
    \/ \E b \in Batches : SkipRoot(b) \/ Invite(b)
    \/ \E s \in Servers : ReceiveHello(s) \/ SendJoined(s) \/ ReceiveJoined(s)

Closing ==
    \/ RoundsOver \/ SendDone \/ StartCloseAll
    \/ \E s \in Servers : ReceiveDone(s) \/ FuncPrepareClose(s) \/ FuncClose(s) \/ CloseHost(s)
    \/ \E h \in Addresses : WaitServers(h)

Failure ==
    \/ \E h \in Addresses : GiveUp(h)
    \/ \E b \in Batches : InviteTimesOut(b)
    \/ \E s \in Servers : JoinedFails(s)

Steps == Start \/ Joining \/ Closing
SimNext == Steps \/ Failure

\* Every step is taken once at most, so fairness of them all together is
\* enough: goroutines that can go on do so, and the rounds end (SideChain's
\* SimulationEnds).
SimSpec == SimInit /\ [][SimNext]_simVars /\ WF_simVars(Steps)

-----------------------------------------------------------------------------
(* Properties.                                                             *)

\* What a node works with as a leader of the side chain.
LeaderNeeds == {"CommitteeWindow", "NbrSubTrees", "Threshold"}

\* The protocols start only when every node has got the configuration it needs
\* to lead, and no wait group goes below zero, although sends are tried again
\* (runsimul.go:210-232, ChainBoostSimulation.go:374-376).
JoinedBeforeStart ==
    /\ running => \A s \in Servers : LeaderNeeds \subseteq instance[s].config
    /\ CalledWG >= 0 /\ JoinedWG >= 0

\* Unless a send fails for good or the program is given up, all nodes are
\* invited, join, and the protocols start (runsimul.go:223-241).
EveryoneStarts ==
    <>(running \/ lost > 0 \/ \E h \in Addresses : sim[h] \in {"failed", "exited"})

\* When the rounds are over, the root's program ends, whatever of CloseAll and
\* the message to itself comes first (runsimul.go:242-289).
RootEnds == (sim[RootHost] = "closing") ~> (sim[RootHost] = "exited")

\* "starting from the leaf-nodes": a server closes after all servers below it
\* in the close tree have done so (close_all.go:13, 89-92).
LeavesFirst == \A s \in leaving : Children(s) \subseteq leaving

\* The servers of all machines work on the tree that was set up: the tree that
\* is read back is equal to it, with its parents and roster indexes, holds each
\* server once, and no two servers use the same port (onet/simulation.go:95-202,
\* 285-331).
SameTree ==
    \A h \in Addresses : sc[h] # NoConfig =>
        LET t == sc[h].Tree IN
        /\ MakeTreeMarshal(t) = file.TreeMarshal
        /\ IsInjective(sc[h].List) /\ Range(sc[h].List) = Servers
        /\ \A k \in DOMAIN t.nodes \ {Root} : k \in Range(t.nodes[t.nodes[k].Parent].Children)
        /\ IsInjective([s \in 1..NrServers |-> Address(conf, file.Roster.List[s])])

\* Every program ends when the rounds are over: "close all other nodes!"
\* (runsimul.go:259).  It does not hold: the root's message to itself is the
\* first, and its exit may come before the others are sent.
AllEnd == (sim[RootHost] = "closing") ~> (\A h \in Addresses : sim[h] = "exited")
=============================================================================
