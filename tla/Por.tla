--------------------------------- MODULE Por ---------------------------------
(***************************************************************************)
(* Compact proofs of retrievability (src/por/por.go).  The owner of a file *)
(* computes a tag and an authenticator for each block; a server that       *)
(* stores them answers a query, derived from a seed that everybody knows,  *)
(* with a proof, which is verified with the tag and the public key.        *)
(*                                                                         *)
(* A point of a group is represented by its discrete logarithm, so that    *)
(* multiplying points adds exponents and a pairing multiplies them.        *)
(* Signatures are ideal.  The blocks that a server has lost read as zero.  *)
(***************************************************************************)
EXTENDS Integers, Sequences, Functions

CONSTANTS
    Order,        \* of the groups
    n,            \* number of blocks of a file
    SectorNumber,
    l,            \* size of a query
    ByteRange,    \* how many values a byte has
    Digit,        \* the first digit of n, as a byte
    Files,        \* what GenerateFile may draw
    Seeds,        \* the simulation seeds
    Intn,         \* the numbers that math/rand draws from a seed
    Picked,       \* the scalars that blake2xb draws from a seed
    Keys,         \* the private keys alpha
    Hashes,       \* hash functions, from a byte, for the file's name
    Secrets,      \* what may be drawn for u
    MaxCalls      \* bound on the number of proofs and verifications

Scalars == 0..(Order - 1)
Blocks == 0..(n - 1)
Sectors == 1..SectorNumber

ASSUME PorAssumption ==
    /\ Order \in Nat \ {0} /\ n \in Nat \ {0} /\ SectorNumber \in Nat /\ l \in Nat
    /\ ByteRange \in Nat \ {0} /\ Digit \in 0..(ByteRange - 1) /\ MaxCalls \in Nat
    /\ Files \subseteq [Blocks -> [Sectors -> Scalars]]
    /\ Intn \in [Seeds -> [1..l -> Nat]] /\ Picked \in [Seeds -> [1..l -> Scalars]]
    /\ Keys \subseteq Scalars
    /\ Hashes \subseteq [0..(ByteRange - 1) -> Scalars]
    /\ Secrets \subseteq [Sectors -> Scalars]

\* The order of the groups is a prime number, and no key is zero.
ASSUME KeysInvertible ==
    \A alpha \in Keys, x \in Scalars : (alpha * x) % Order = 0 => x = 0

-----------------------------------------------------------------------------
(* Groups, hash and signatures.                                            *)

SumOf(f) == FoldFunction(+, 0, f) % Order
Pair(P, Q) == (P * Q) % Order
\* The number of a block is cut to a byte before it is hashed.
BlockHash(hash, i) == hash[i % ByteRange]
Sign(ssk, text) == [key |-> ssk, text |-> text]
Verify(spk, text, signature) == signature = Sign(spk, text)

RandomizedKeyGeneration(alpha) ==
    [private |-> [alpha |-> alpha, ssk |-> "owner"],
     public  |-> [v |-> alpha, spk |-> "owner"]]

\* The tag: name, number of blocks, u, and a signature of these.  The fields
\* are found by their offsets, which are right if the name has 32 bytes.
Tag(sk, short, u) ==
    LET Tau0 == [short |-> short, digit |-> Digit, u |-> u]
    IN  [text |-> Tau0, signature |-> Sign(sk.ssk, Tau0)]

\* The exponent of the product of u_j^m_j.
Masked(u, m) == SumOf([j \in Sectors |-> u[j] * m[j]])

Authenticator(sk, hash, u, m, i) == (sk.alpha * (Masked(u, m[i]) + BlockHash(hash, i))) % Order

RandomizedFileStoring(sk, m, short, u, hash) ==
    [Tau  |-> Tag(sk, short, u),
     file |-> [m |-> m, sigma |-> [i \in Blocks |-> Authenticator(sk, hash, u, m, i)]]]

\* Prover and verifier draw the same query from generators set up with the
\* seed.  A block may be asked for more than once.
randomizedVerifyingQuery(seed) ==
    [i |-> [k \in 1..l |-> Intn[seed][k] % n], v_i |-> Picked[seed]]

\* A slip: the second block of a query is used twice.
MuOfFirst(rq, m, j) == SumOf([k \in 1..l |-> rq.v_i[k] * m[rq.i[1]][j]])
Mu(rq, m, j) == SumOf([k \in 1..l |-> rq.v_i[k] * m[rq.i[k]][j]])

CreatePoR(file, seed) ==
    LET rq == randomizedVerifyingQuery(seed)
    IN  [Mu    |-> [j \in Sectors |-> Mu(rq, file.m, j)],
         Sigma |-> SumOf([k \in 1..l |-> rq.v_i[k] * file.sigma[rq.i[k]]])]

\* The pairing check of VerifyPoR.
LeftTerm(rq, hash) == SumOf([k \in 1..l |-> rq.v_i[k] * BlockHash(hash, rq.i[k])])
\* A slip: the key is not used.
WithoutKey(pk, u, hash, p, seed) ==
    Pair(p.Sigma, 1) = Pair(LeftTerm(randomizedVerifyingQuery(seed), hash) + Masked(u, p.Mu), 1)
Fits(pk, u, hash, p, seed) ==
    Pair(p.Sigma, 1) = Pair(LeftTerm(randomizedVerifyingQuery(seed), hash) + Masked(u, p.Mu), pk.v)

-----------------------------------------------------------------------------
VARIABLES
    keys, initialFile, hash, seed,  \* of this run
    Tau,          \* the file's tag
    server,       \* the processed file at the server
    proof,        \* the proof made last, as a sequence of at most one
    made,         \* the file from which it was made (history)
    verdict,      \* of the last verification, as a sequence of at most one
    calls         \* proofs and verifications that may still come

setup == <<keys, initialFile, hash, seed>>
porVars == <<setup, Tau, server, proof, made, verdict, calls>>

PorInit ==
    /\ \E alpha \in Keys : keys = RandomizedKeyGeneration(alpha)
    /\ initialFile \in Files /\ hash \in Hashes /\ seed \in Seeds
    /\ \E u \in Secrets, short \in BOOLEAN :
         LET stored == RandomizedFileStoring(keys.private, initialFile, short, u, hash)
         IN  Tau = stored.Tau /\ server = stored.file
    /\ proof = <<>> /\ made = <<>> /\ verdict = <<>> /\ calls = MaxCalls

\* The server loses a block's data.
Lose(i) ==
    /\ server.m[i] # [j \in Sectors |-> 0]
    /\ server' = [server EXCEPT !.m[i] = [j \in Sectors |-> 0]]
    /\ UNCHANGED <<setup, Tau, proof, made, verdict, calls>>

Prove ==
    /\ calls > 0 /\ calls' = calls - 1
    /\ proof' = <<CreatePoR(server, seed)>>
    /\ made' = <<server.m>>
    /\ verdict' = <<>>
    /\ UNCHANGED <<setup, Tau, server>>

\* Hashing appends the number of a block to the name within the tag: it
\* overwrites the first digit of n.
Overwritten == [Tau EXCEPT !.text.digit = randomizedVerifyingQuery(seed).i[l] % ByteRange]

\* VerifyPoR: both checks only log what they find.  When the name is short,
\* what is read as signature and as u begins one byte late.
VerifyPoR ==
    /\ proof # <<>> /\ calls > 0 /\ calls' = calls - 1
    /\ \E fits \in BOOLEAN :
         /\ ~Tau.text.short => fits = Fits(keys.public, Tau.text.u, hash, proof[1], seed)
         /\ verdict' = <<[refuse |-> FALSE, fits |-> fits,
              error |-> Tau.text.short \/ ~Verify(keys.public.spk, Tau.text, Tau.signature)]>>
    /\ Tau' = Overwritten
    /\ UNCHANGED <<setup, server, proof, made>>

PorNext == (\E i \in Blocks : Lose(i)) \/ Prove \/ VerifyPoR

PorSpec == PorInit /\ [][PorNext]_porVars

-----------------------------------------------------------------------------
(* Properties.                                                             *)

\* What the file has lost in a block, as it counts in the check.
MaskedLoss(i) == Masked(Tau.text.u, initialFile[i]) - Masked(Tau.text.u, made[1][i])
\* The part of the query that asks for a block: a repeated block has the sum
\* of its factors.
Weight(i) ==
    LET rq == randomizedVerifyingQuery(seed)
    IN  SumOf([k \in {j \in 1..l : rq.i[j] = i} |-> rq.v_i[k]])

\* A proof passes the pairing check if and only if what was lost when it was
\* made weighs nothing in the query.  So the proof of an intact file always
\* passes, also with a tag that an earlier verification has written to, and
\* a lost block is noticed when the query asks for it, unless the factors of
\* a repeated block cancel out (por.go:142-156, 205-214, 224-251, 264-289).
LossSeen ==
    verdict # <<>> /\ ~Tau.text.short
    => (verdict[1].fits <=> SumOf([i \in Blocks |-> Weight(i) * MaskedLoss(i)]) = 0)

\* The owner's tag passes whenever it is verified: "The file tag and the
\* public key pair should be stored on the bc (to be verified along with por
\* proof later)" (por.go:164-165).
TagVerifies == verdict # <<>> => ~verdict[1].error

\* "servers will verify por tx.s when they receive it" (por.go:253): what does
\* not pass is refused.
MisfitRefused == verdict # <<>> /\ ~verdict[1].fits => verdict[1].refuse
=============================================================================
