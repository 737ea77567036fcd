------------------------------- MODULE BlsCosi -------------------------------
(***************************************************************************)
(* The collective signature of a side chain block (BLSCoSi: blscosi,       *)
(* sub_blscosi, gen_tree).  The leader splits its committee into subtrees, *)
(* runs a sub-protocol on each and collects the answers until it has       *)
(* enough signatures.  A subleader that does not answer is replaced.       *)
(*                                                                         *)
(* The members are numbered by their index in the committee's roster.  The *)
(* mask of a response is the set of the members that signed.  Timers may   *)
(* fire at any time.  The protocol instance is used again in every round,  *)
(* and goroutines of the last round may still run.                         *)
(***************************************************************************)
EXTENDS Integers, Sequences, FiniteSets, Functions

CONSTANTS
    N,           \* size of the committee
    Root,        \* the leader's index
    NbrSubTrees, \* as configured
    Threshold,
    RosterSize,  \* size of the network's roster
    Profiles,    \* what members may do: "signs", "refuses" or "silent"
    Rounds,      \* bound on the number of rounds
    MaxSubs      \* bound on the number of sub-protocol instances

Members == 0..(N - 1)

ASSUME CommitteeAssumption ==
    /\ N \in Nat /\ N >= 2 /\ Root \in Members /\ NbrSubTrees \in Nat \ {0}
    /\ Threshold \in Nat /\ RosterSize \in Nat /\ RosterSize >= N
    /\ Profiles \subseteq [Members -> {"signs", "refuses", "silent"}]
    /\ Rounds \in Nat /\ MaxSubs \in Nat

-----------------------------------------------------------------------------
(* gen_tree.go.  A subtree is the sequence of its leader, its subleader    *)
(* and the leaves.                                                         *)

NSubtrees == IF N <= NbrSubTrees THEN N - 1 ELSE NbrSubTrees
NodesPerSubtree == (N - 1) \div NSubtrees
SurplusNodes == (N - 1) % NSubtrees
\* A slip: the surplus is not handed out.
NoSurplus(i) == NodesPerSubtree + 1
Length(i) == NodesPerSubtree + 1 + (IF i <= SurplusNodes THEN 1 ELSE 0)
\* Members used by the subtrees before the i-th.
Used(i) == (i - 1) * NodesPerSubtree + (IF i - 1 < SurplusNodes THEN i - 1 ELSE SurplusNodes)

\* genTrees starts behind the leader's index and goes round.
GenTrees ==
    [i \in 1..NSubtrees |->
        [j \in 1..Length(i) |->
            IF j = 1 THEN Root ELSE (Root + 1 + Used(i) + (j - 2)) % N]]

\* What GenSubtree accepts.
ValidSubtree(nodes) ==
    /\ Len(nodes) \in 2..N
    /\ nodes[1] # nodes[2]
    /\ \A j \in 3..Len(nodes) : nodes[j] \notin {nodes[1], nodes[2]}

Subleader(nodes) == nodes[2]
Leaves(nodes) == {nodes[j] : j \in 3..Len(nodes)}

\* The first leaf becomes the subleader, and the subleader the last leaf.
Rotated(nodes) == <<nodes[1]>> \o SubSeq(nodes, 3, Len(nodes)) \o <<nodes[2]>>

\* A slip: the comparison is turned round.
FirstTried(nodes) == Len(nodes) < 3 \/ Subleader(nodes) < nodes[3]
\* There is no leaf left that has not been subleader: the indexes have come round.
AllTried(nodes) == Len(nodes) < 3 \/ Subleader(nodes) > nodes[3]

-----------------------------------------------------------------------------
VARIABLES
    does,         \* what each member does
    round,        \* the number of rounds started
    subTrees,     \* p.SubTrees
    subs,         \* the sub-protocol instances
    collector,    \* per round and subtree: the goroutine of collectSignatures
    phase,        \* per round: "idle", "starting", "collecting", "signed" or "failed"
    responses,    \* per round: the instances in responsesChan
    errors,       \* per round: the subtrees in errChan
    responseMap,  \* per round: subleader -> the instance it answered for
    numSignature, numFailure,   \* of the round
    signers,      \* per round: the mask of the final signature
    tried,        \* per round and subtree: the subleaders tried (history)
    late          \* per round: subtrees turned by an earlier round (history)

mainVars == <<phase, responseMap, numSignature, numFailure, signers>>
history == <<tried, late>>
vars == <<does, round, subTrees, subs, collector, responses, errors, history, mainVars>>

RoundNrs == 1..Rounds
Trees == 1..NSubtrees
NoSub == 0

NewSub(nodes) ==
    [nodes |-> nodes, root |-> "created", subleader |-> "idle", heard |-> {}, signal |-> "none"]
Stopped(sub) == [sub EXCEPT !.root = "over"]

\* The threshold of a sub-protocol is the number of nodes below its root.
CheckSubIntegrity(size, threshold) == threshold \in 1..size
StartSub(sub, threshold) ==
    IF CheckSubIntegrity(Len(sub.nodes), threshold) THEN [sub EXCEPT !.root = "announce"]
    ELSE Stopped(sub)
StartSubProtocol(nodes) == StartSub(NewSub(nodes), Len(nodes) - 1)

TypeOK ==
    /\ does \in Profiles /\ round \in 0..Rounds
    /\ subTrees \in [Trees -> Seq(Members)]
    /\ subs \in Seq([nodes : Seq(Members), root : {"created", "announce", "wait", "over"},
                     subleader : {"idle", "asked", "sent"}, heard : SUBSET Members,
                     signal : {"none", "response", "timeout"}])
    /\ collector \in [RoundNrs -> [Trees -> [at : {"none", "select", "rotated", "done"},
                                             sub : 0..MaxSubs]]]
    /\ phase \in [RoundNrs -> {"idle", "starting", "collecting", "signed", "failed"}]
    /\ responses \in [RoundNrs -> SUBSET (1..MaxSubs)]
    /\ errors \in [RoundNrs -> SUBSET Trees]
    /\ DOMAIN responseMap = RoundNrs
    /\ \A r \in RoundNrs : /\ DOMAIN responseMap[r] \subseteq Members
                           /\ \A m \in DOMAIN responseMap[r] : responseMap[r][m] \in 1..MaxSubs
    /\ numSignature \in Nat /\ numFailure \in Nat
    /\ signers \in [RoundNrs -> SUBSET Members]
    /\ tried \in [RoundNrs -> [Trees -> SUBSET Members]]
    /\ late \in [RoundNrs -> SUBSET Trees]

Init ==
    /\ does \in Profiles /\ round = 0
    /\ subTrees = GenTrees
    /\ subs = <<>>
    /\ collector = [r \in RoundNrs |-> [i \in Trees |-> [at |-> "none", sub |-> NoSub]]]
    /\ phase = [r \in RoundNrs |-> "idle"]
    /\ responses = [r \in RoundNrs |-> {}] /\ errors = [r \in RoundNrs |-> {}]
    /\ responseMap = [r \in RoundNrs |-> <<>>]
    /\ numSignature = 0 /\ numFailure = 0
    /\ signers = [r \in RoundNrs |-> {}]
    /\ tried = [r \in RoundNrs |-> [i \in Trees |-> {}]]
    /\ late = [r \in RoundNrs |-> {}]

-----------------------------------------------------------------------------
(* The leader's protocol.                                                  *)

\* The threshold is compared with the network, not with the committee.
CheckIntegrity == Threshold \in 1..RosterSize

\* SideChainLeaderPreNewRound makes new subtrees and calls Start, whose error
\* is not looked at.  The next round begins when the last one was signed.
PreNewRound ==
    /\ round < Rounds
    /\ round > 0 => phase[round] = "signed"
    /\ round' = round + 1
    /\ subTrees' = GenTrees
    /\ phase' = [phase EXCEPT ![round + 1] = IF CheckIntegrity THEN "starting" ELSE "failed"]
    /\ UNCHANGED <<does, subs, collector, responses, errors, history, responseMap,
                   numSignature, numFailure, signers>>

\* collectSignatures starts a goroutine for each subtree.
Collectors == [i \in Trees |-> [at |-> "select", sub |-> Len(subs) + i]]

\* makeResponse or makeRefusal: what a member's answer adds to a mask.
Answer(m) == IF does[m] = "signs" THEN {m} ELSE {}
\* makeSubLeaderResponse merges the masks of the answers the subleader has got.
Mask(x) == UNION {Answer(m) : m \in subs[x].heard}

\* makeAggregateResponse merges the masks.
Aggregated(map) == UNION {Mask(map[m]) : m \in DOMAIN map}
\* The leader adds its own signature.
GenerateSignature(map) == {Root} \cup Aggregated(map)

\* A slip: the leader's own signature is counted twice.
OneTooFew(n) == n >= Threshold - 2
EnoughSignatures(n) == n >= Threshold - 1

\* runSubProtocols starts a sub-protocol on each subtree, and collects.  With a
\* threshold of one the leader's own signature is enough.
RunSubProtocols ==
    /\ round > 0 /\ phase[round] = "starting" /\ Len(subs) + NSubtrees <= MaxSubs
    /\ subs' = subs \o [i \in Trees |-> StartSubProtocol(subTrees[i])]
    /\ collector' = [collector EXCEPT ![round] = Collectors]
    /\ tried' = [tried EXCEPT ![round] = [i \in Trees |-> {Subleader(subTrees[i])}]]
    /\ phase' = [phase EXCEPT ![round] = IF EnoughSignatures(0) THEN "signed" ELSE "collecting"]
    /\ signers' = [signers EXCEPT ![round] =
                     IF EnoughSignatures(0) THEN GenerateSignature(responseMap[round]) ELSE @]
    /\ numSignature' = 0 /\ numFailure' = 0
    /\ UNCHANGED <<does, round, subTrees, responses, errors, late, responseMap>>

\* checkFailureThreshold, which counts with the roster of the network.
TooManyFailures(n) == n > RosterSize - Threshold

\* The response of a subleader is entered.
Entered(map, m, x) == [k \in DOMAIN map \cup {m} |-> IF k = m THEN x ELSE map[k]]

\* A slip: all members of the subtree are counted as signers.
AllCounted(x) ==
    LET sub == subs[x] IN
    [map |-> Entered(responseMap[round], Subleader(sub.nodes), x),
     signed |-> numSignature + Len(sub.nodes) - 1, failed |-> numFailure]

\* One loop of collectSignatures takes a response, unless its subleader has
\* answered before.  The loop ends with enough signatures (the leader adds its
\* own) or too many failures; then the signatures are aggregated.
Counted(x) ==
    LET sub == subs[x] IN
    IF Subleader(sub.nodes) \in DOMAIN responseMap[round]
    THEN [map |-> responseMap[round], signed |-> numSignature, failed |-> numFailure]
    ELSE [map |-> Entered(responseMap[round], Subleader(sub.nodes), x),
          signed |-> numSignature + Cardinality(Mask(x)),
          failed |-> numFailure + (Len(sub.nodes) - 1) - Cardinality(Mask(x))]

TakeResponse ==
    /\ round > 0 /\ phase[round] = "collecting"
    /\ \E x \in responses[round] :
         LET new == Counted(x) IN
         /\ responses' = [responses EXCEPT ![round] = @ \ {x}]
         /\ responseMap' = [responseMap EXCEPT ![round] = new.map]
         /\ numSignature' = new.signed /\ numFailure' = new.failed
         /\ \/ /\ TooManyFailures(new.failed)
               /\ phase' = [phase EXCEPT ![round] = "failed"]
               /\ UNCHANGED signers
            \/ /\ ~TooManyFailures(new.failed) /\ EnoughSignatures(new.signed)
               /\ phase' = [phase EXCEPT ![round] = "signed"]
               /\ signers' = [signers EXCEPT ![round] = GenerateSignature(new.map)]
            \/ /\ ~TooManyFailures(new.failed) /\ ~EnoughSignatures(new.signed)
               /\ UNCHANGED <<phase, signers>>
    /\ UNCHANGED <<does, round, subTrees, subs, collector, errors, history>>

\* An error of one subtree ends the collection.
TakeError ==
    /\ round > 0 /\ phase[round] = "collecting" /\ errors[round] # {}
    /\ phase' = [phase EXCEPT ![round] = "failed"]
    /\ UNCHANGED <<does, round, subTrees, subs, collector, responses, errors, history,
                   responseMap, numSignature, numFailure, signers>>

TimeOut ==
    /\ round > 0 /\ phase[round] = "collecting"
    /\ phase' = [phase EXCEPT ![round] = "failed"]
    /\ UNCHANGED <<does, round, subTrees, subs, collector, responses, errors, history,
                   responseMap, numSignature, numFailure, signers>>

-----------------------------------------------------------------------------
(* The goroutines of collectSignatures, one per round and subtree.         *)

Waiting(r, i) == collector[r][i].at = "select"
Signal(r, i) == subs[collector[r][i].sub].signal
CollectorTo(r, i, place) == collector' = [collector EXCEPT ![r][i].at = place]

\* closeChan is closed when collectSignatures returns.
CollectorEnds(r, i) ==
    /\ Waiting(r, i) /\ phase[r] # "collecting"
    /\ CollectorTo(r, i, "done")
    /\ UNCHANGED <<does, round, subTrees, subs, responses, errors, history, mainVars>>

CollectorForwards(r, i) ==
    /\ Waiting(r, i) /\ Signal(r, i) = "response"
    /\ responses' = [responses EXCEPT ![r] = @ \cup {collector[r][i].sub}]
    /\ CollectorTo(r, i, "done")
    /\ UNCHANGED <<does, round, subTrees, subs, errors, history, mainVars>>

\* subleaderNotResponding: a new tree, or an error.  The tree that is turned
\* is the one of the current round.
GivesUp(nodes) == AllTried(nodes) \/ ~ValidSubtree(Rotated(nodes))
CollectorRotates(r, i) ==
    /\ Waiting(r, i) /\ Signal(r, i) = "timeout"
    /\ IF GivesUp(subTrees[i])
       THEN /\ errors' = [errors EXCEPT ![r] = @ \cup {i}]
            /\ CollectorTo(r, i, "done")
            /\ UNCHANGED <<subTrees, late>>
       ELSE /\ subTrees' = [subTrees EXCEPT ![i] = Rotated(@)]
            /\ CollectorTo(r, i, "rotated")
            /\ late' = IF r = round THEN late ELSE [late EXCEPT ![round] = @ \cup {i}]
            /\ UNCHANGED errors
    /\ UNCHANGED <<does, round, subs, responses, tried, mainVars>>

\* HandleStop of the old sub-protocol, and startSubProtocol.
CollectorRestarts(r, i) ==
    /\ collector[r][i].at = "rotated" /\ Len(subs) < MaxSubs
    /\ subs' = Append([subs EXCEPT ![collector[r][i].sub] = Stopped(@)],
                      StartSubProtocol(subTrees[i]))
    /\ collector' = [collector EXCEPT ![r][i] = [at |-> "select", sub |-> Len(subs) + 1]]
    /\ tried' = [tried EXCEPT ![r][i] = @ \cup {Subleader(subTrees[i])}]
    /\ UNCHANGED <<does, round, subTrees, responses, errors, late, mainVars>>

-----------------------------------------------------------------------------
(* A sub-protocol: leader, subleader and leaves.                           *)

\* dispatchRoot sends the announcement ...
Announce(x) ==
    /\ subs[x].root = "announce"
    /\ subs' = [subs EXCEPT ![x].root = "wait"]
    /\ UNCHANGED <<does, round, subTrees, collector, responses, errors, history, mainVars>>

\* ... and waits for the answer, or for its timer.
RootReceives(x) ==
    /\ subs[x].root = "wait" /\ subs[x].subleader = "sent"
    /\ subs' = [subs EXCEPT ![x] = [Stopped(@) EXCEPT !.signal = "response"]]
    /\ UNCHANGED <<does, round, subTrees, collector, responses, errors, history, mainVars>>

RootTimesOut(x) ==
    /\ subs[x].root = "wait"
    /\ subs' = [subs EXCEPT ![x] = [Stopped(@) EXCEPT !.signal = "timeout"]]
    /\ UNCHANGED <<does, round, subTrees, collector, responses, errors, history, mainVars>>

\* waitAnnouncement; when the leader has broadcast Stop, the members do nothing
\* more.
Announced(x) == subs[x].root = "wait"

\* dispatchSubLeader passes the announcement on, and signs if it agrees.
SubleaderAsks(x) ==
    LET s == Subleader(subs[x].nodes) IN
    /\ Announced(x) /\ subs[x].subleader = "idle" /\ does[s] # "silent"
    /\ subs' = [subs EXCEPT ![x].subleader = "asked", ![x].heard = {s}]
    /\ UNCHANGED <<does, round, subTrees, collector, responses, errors, history, mainVars>>

\* dispatchLeaf answers with a signature or a refusal, which the subleader counts.
LeafAnswers(x, m) ==
    /\ Announced(x) /\ subs[x].subleader = "asked"
    /\ m \in Leaves(subs[x].nodes) \ subs[x].heard /\ does[m] # "silent"
    /\ subs' = [subs EXCEPT ![x].heard = @ \cup {m}]
    /\ UNCHANGED <<does, round, subTrees, collector, responses, errors, history, mainVars>>

\* All leaves have answered, or the subleader's timer fires.
SubleaderReplies(x) ==
    /\ Announced(x) /\ subs[x].subleader = "asked"
    /\ subs' = [subs EXCEPT ![x].subleader = "sent"]
    /\ UNCHANGED <<does, round, subTrees, collector, responses, errors, history, mainVars>>

SubStep(x) ==
    \/ Announce(x) \/ RootReceives(x) \/ RootTimesOut(x) \/ SubleaderAsks(x)
    \/ SubleaderReplies(x) \/ \E m \in Members : LeafAnswers(x, m)

CollectorStep(r, i) ==
    \/ CollectorEnds(r, i) \/ CollectorForwards(r, i) \/ CollectorRotates(r, i)
    \/ CollectorRestarts(r, i)

Collect == TakeResponse \/ TakeError \/ TimeOut

Next ==
    \/ PreNewRound \/ RunSubProtocols \/ Collect
    \/ \E r \in RoundNrs, i \in Trees : CollectorStep(r, i)
    \/ \E x \in 1..Len(subs) : SubStep(x)

Spec == Init /\ [][Next]_vars

-----------------------------------------------------------------------------
(* Properties.                                                             *)

\* A final signature holds at least Threshold different members, all of which
\* agreed to sign, whatever subleaders were replaced and whatever goroutines of
\* an earlier round still did (blscosi.go:398-441, 501-533).
EnoughSigners ==
    \A r \in RoundNrs : phase[r] = "signed" =>
        /\ Cardinality(signers[r]) >= Threshold
        /\ \A m \in signers[r] : m = Root \/ does[m] = "signs"

\* No signature is counted twice: the number that ends the collection is the
\* number of members in the masks collected (blscosi.go:414-422).
CountExact ==
    round > 0 /\ phase[round] # "starting" =>
        numSignature = Cardinality(Aggregated(responseMap[round]) \ {Root})

\* The subtrees always split the committee among them: each member but the
\* leader is in exactly one (gen_tree.go:80-112, blscosi.go:351-366).
SubtreesPartition ==
    /\ \A i \in Trees : Head(subTrees[i]) = Root /\ IsInjective(subTrees[i])
    /\ \A m \in Members \ {Root} :
         Cardinality({i \in Trees : m \in Range(subTrees[i])}) = 1

\* A collection is ended by a subtree only when every member of it has been its
\* subleader in this round ("failed with every subleader"), unless a goroutine of
\* an earlier round has turned its tree meanwhile (blscosi.go:338-366, 424-426).
EverySubleaderTried ==
    round > 0 =>
        \A i \in errors[round] :
            tried[round][i] = Range(GenTrees[i]) \ {Root} \/ i \in late[round]
=============================================================================
