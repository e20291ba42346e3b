-------------------------- MODULE CommitmentProofs --------------------------
(***************************************************************************)
(* What is in a published file, for any scorers, lists of entries, epochs  *)
(* and number of faults: what was signed, with a root that decides whether *)
(* two lists of entries are the same, and again after every re-run.        *)
(***************************************************************************)
EXTENDS Commitment, FiniteSetTheorems, WellFoundedInduction, TLAPS

USE CommitmentAssumption

LEMMA SignedInit == Init => SignedInv
  BY DEF Init, SignedInv, ShapeInv, InHandIsSigned, PublishedIsSigned, IsCommitment

\* A commitment that verifies is whole as its scorer signed it.
LEMMA VerifiedIsSigned ==
    ASSUME NEW s \in Scorers, NEW c, IsWhole(c), SignedBy(s, c.signature), Verifies(c)
    PROVE  /\ c.key = s
           /\ c.envelope.epoch = EpochOfScorers
           /\ c.envelope.entryCount = Len(entries[s])
           /\ c.envelope.totalScore = TotalScore(entries[s])
  <1>1. PICK root :
           c.signature = [signer |-> s,
                          digest |-> <<"commit", EpochOfScorers, root, Len(entries[s]),
                                       TotalScore(entries[s])>>]
    BY DEF SignedBy
  <1>2. c.signature = [signer |-> c.key, digest |-> Digest(c.envelope)]
    BY DEF Verifies
  <1>3. c.key = s
           /\ Digest(c.envelope) = <<"commit", EpochOfScorers, root, Len(entries[s]),
                                     TotalScore(entries[s])>>
    BY <1>1, <1>2
  <1> QED
    BY <1>3 DEF Digest

\* An alteration keeps the record whole, and the signature as it was.
LEMMA AlterationFacts ==
    ASSUME NEW c, IsWhole(c), NEW d \in Alterations(c)
    PROVE  IsWhole(d) /\ d.signature = c.signature
  <1>1. CASE \E e \in Epochs : d = [c EXCEPT !.envelope.epoch = e]
    BY <1>1 DEF IsWhole
  <1>2. CASE \E r \in {BadHex, EmptyRoot} : d = [c EXCEPT !.envelope.root = r]
    BY <1>2 DEF IsWhole
  <1>3. CASE d = [c EXCEPT !.envelope.totalScore = @ + 1]
    BY <1>3 DEF IsWhole
  <1>4. CASE \E k \in Scorers : d = [c EXCEPT !.key = k]
    BY <1>4 DEF IsWhole
  <1> QED
    BY <1>1, <1>2, <1>3, <1>4 DEF Alterations

\* An alteration names an epoch all the same.
LEMMA AlteredEpoch ==
    ASSUME NEW c, IsWhole(c), c.envelope.epoch \in Epochs, NEW d \in Alterations(c)
    PROVE  d.envelope.epoch \in Epochs
  <1>1. CASE \E e \in Epochs : d = [c EXCEPT !.envelope.epoch = e]
    BY <1>1 DEF IsWhole
  <1>2. CASE \E r \in {BadHex, EmptyRoot} : d = [c EXCEPT !.envelope.root = r]
    BY <1>2 DEF IsWhole
  <1>3. CASE d = [c EXCEPT !.envelope.totalScore = @ + 1]
    BY <1>3 DEF IsWhole
  <1>4. CASE \E k \in Scorers : d = [c EXCEPT !.key = k]
    BY <1>4 DEF IsWhole
  <1> QED
    BY <1>1, <1>2, <1>3, <1>4 DEF Alterations

\* What is in hand stays signed: a run that has something in hand got it from
\* SignEnvelope, and what is altered of it is not the signature.
LEMMA InHandStep ==
    ASSUME ShapeInv, InHandIsSigned, Next
    PROVE  InHandIsSigned' /\ entries' = entries
  <1> PICK s \in Scorers : Run(s) \/ Alter(s) \/ WriteFails(s) \/ Crash(s) \/ RunAgain(s)
    BY DEF Next
  <1>0. entries' = entries
    BY DEF Run, Begin, MergeLevel, SignEnvelope, Refuse, Truncate, Write, Alter, WriteFails,
           Crash, RunAgain
  <1> SUFFICES ASSUME NEW t \in Scorers
               PROVE  (/\ pc[t] \in {"submit", "write"} =>
                             IsWhole(commitment[t]) /\ SignedBy(t, commitment[t].signature)
                       /\ pc[t] = "write" => Verifies(commitment[t]))'
    BY <1>0 DEF InHandIsSigned
  <1>1. /\ pc[t] \in {"submit", "write"} =>
              IsWhole(commitment[t]) /\ SignedBy(t, commitment[t].signature)
        /\ pc[t] = "write" => Verifies(commitment[t])
    BY DEF InHandIsSigned
  <1>2. CASE t # s
    <2>1. pc'[t] = pc[t] /\ commitment'[t] = commitment[t]
      BY <1>2 DEF ShapeInv, Goto, Forget, Run, Begin, MergeLevel, SignEnvelope, Refuse,
                  Truncate, Write, Alter, WriteFails, Crash, RunAgain
    <2> QED
      BY <1>0, <1>1, <2>1 DEF SignedBy
  <1>3. CASE t = s /\ (Begin(s) \/ MergeLevel(s) \/ Refuse(s) \/ Write(s) \/ WriteFails(s)
                       \/ Crash(s) \/ RunAgain(s))
    <2>1. pc'[s] \notin {"submit", "write"}
      BY <1>3 DEF ShapeInv, Goto, Forget, Begin, MergeLevel, Refuse, Write, WriteFails, Crash,
                  RunAgain
    <2> QED
      BY <1>3, <2>1
  <1>4. CASE t = s /\ SignEnvelope(s)
    <2>1. pc'[s] = "submit" /\ commitment'[s] = Sign(s, Envelope(s))
      BY <1>4 DEF ShapeInv, Goto, SignEnvelope
    <2>2. IsWhole(Sign(s, Envelope(s)))
      BY DEF IsWhole, Sign, Envelope
    <2>3. SignedBy(s, Sign(s, Envelope(s)).signature)
      BY DEF SignedBy, Sign, Envelope, Digest
    <2> QED
      BY <1>0, <1>4, <2>1, <2>2, <2>3 DEF SignedBy
  <1>5. CASE t = s /\ Alter(s)
    <2>1. pc'[s] = "submit" /\ pc[s] = "submit"
          /\ commitment'[s] \in Alterations(commitment[s])
      BY <1>5 DEF ShapeInv, Alter
    <2>2. IsWhole(commitment'[s]) /\ commitment'[s].signature = commitment[s].signature
      BY <1>1, <1>5, <2>1, AlterationFacts
    <2> QED
      BY <1>0, <1>1, <1>5, <2>1, <2>2 DEF SignedBy
  <1>6. CASE t = s /\ Truncate(s)
    <2>1. pc[s] = "submit" /\ commitment'[s] = commitment[s] /\ Verifies(commitment[s])
      BY <1>6 DEF Truncate
    <2> QED
      BY <1>0, <1>1, <1>6, <2>1 DEF SignedBy
  <1> QED
    BY <1>0, <1>2, <1>3, <1>4, <1>5, <1>6 DEF Run

LEMMA ShapeStep == ShapeInv /\ [Next]_vars => ShapeInv'
  <1> SUFFICES ASSUME ShapeInv, [Next]_vars PROVE ShapeInv'
    OBVIOUS
  <1>1. CASE UNCHANGED vars
    BY <1>1 DEF vars, ShapeInv
  <1>2. CASE Next
    <2> PICK s \in Scorers : Run(s) \/ Alter(s) \/ WriteFails(s) \/ Crash(s) \/ RunAgain(s)
      BY <1>2 DEF Next
    <2>1. /\ pc' = pc \/ \E l : pc' = [pc EXCEPT ![s] = l]
          /\ commitment' = commitment \/ \E c : commitment' = [commitment EXCEPT ![s] = c]
      BY DEF Goto, Forget, Run, Begin, MergeLevel, SignEnvelope, Refuse, Truncate, Write,
             Alter, WriteFails, Crash, RunAgain
    <2>2. file' = file \/ \E e, c : file' = [file EXCEPT ![s][e] = c]
      BY DEF Run, Begin, MergeLevel, SignEnvelope, Refuse, Truncate, Write, Alter, WriteFails,
             Crash, RunAgain
    <2> QED
      BY <2>1, <2>2 DEF ShapeInv
  <1> QED
    BY <1>1, <1>2

\* A file only changes by what its scorer has verified.
LEMMA PublishedStep ==
    ASSUME SignedInv, Next
    PROVE  PublishedIsSigned'
  <1>0. entries' = entries /\ ShapeInv /\ InHandIsSigned /\ PublishedIsSigned
    BY InHandStep DEF SignedInv
  <1> PICK s \in Scorers : Run(s) \/ Alter(s) \/ WriteFails(s) \/ Crash(s) \/ RunAgain(s)
    BY DEF Next
  <1>1. CASE file' = file
    BY <1>0, <1>1 DEF PublishedIsSigned
  <1>2. CASE Truncate(s)
    <2>1. ASSUME NEW t \in Scorers, NEW e \in Epochs, IsCommitment(file'[t][e])
          PROVE  file'[t][e] = file[t][e]
      BY <1>0, <1>2, <2>1 DEF Truncate, ShapeInv, IsCommitment
    <2> QED
      BY <1>0, <2>1 DEF PublishedIsSigned
  <1>3. CASE Write(s)
    <2>1. /\ commitment[s].key = s
          /\ commitment[s].envelope.epoch = EpochOfScorers
          /\ commitment[s].envelope.entryCount = Len(entries[s])
          /\ commitment[s].envelope.totalScore = TotalScore(entries[s])
      BY <1>0, <1>3, VerifiedIsSigned DEF Write, InHandIsSigned
    <2>2. file' = [file EXCEPT ![s][EpochOfScorers] = commitment[s]]
      BY <1>3, <2>1 DEF Write, Target
    <2>3. ASSUME NEW t \in Scorers, NEW e \in Epochs
          PROVE  \/ file'[t][e] = file[t][e]
                 \/ t = s /\ e = EpochOfScorers /\ file'[t][e] = commitment[s]
      BY <1>0, <2>2 DEF ShapeInv
    <2> QED
      BY <1>0, <2>1, <2>3 DEF PublishedIsSigned
  <1>4. file' = file \/ Truncate(s) \/ Write(s)
    BY DEF Run, Begin, MergeLevel, SignEnvelope, Refuse, Alter, WriteFails, Crash, RunAgain
  <1> QED
    BY <1>1, <1>2, <1>3, <1>4

LEMMA SignedStep == SignedInv /\ [Next]_vars => SignedInv'
  <1> SUFFICES ASSUME SignedInv, [Next]_vars PROVE SignedInv'
    OBVIOUS
  <1>1. ShapeInv'
    BY ShapeStep DEF SignedInv
  <1>2. CASE Next
    BY <1>1, <1>2, InHandStep, PublishedStep DEF SignedInv
  <1>3. CASE UNCHANGED vars
    BY <1>1, <1>3 DEF vars, SignedInv, InHandIsSigned, PublishedIsSigned, SignedBy
  <1> QED
    BY <1>2, <1>3

\* PublishedIsSigned: through crashes, failed writes, alterations and re-runs,
\* a file that can be read is what its scorer signed for the epoch in the
\* file's name.
THEOREM FilesAreSigned == Spec => []PublishedIsSigned
  <1>1. SignedInv => PublishedIsSigned
    BY DEF SignedInv
  <1> QED
    BY SignedInit, SignedStep, <1>1, PTL DEF Spec

-----------------------------------------------------------------------------
(* The tree: what is under a hash                                          *)

Entry == [identity : Int, score : Nat]

\* A set of hashes that has what each of its nodes was hashed from.
IsClosed(S) == \A l, r : NodeHash(l, r) \in S => l \in S /\ r \in S

\* The entries that are under a hash: their leaves are in every such set that
\* has the hash.
Under(hash) ==
    {e \in Entry : \A S : hash \in S /\ IsClosed(S) => LeafHash(e) \in S}

UnderAny(list) == UNION {Under(list[k]) : k \in DOMAIN list}

\* Hashes of different kinds differ, and a hash has one preimage.
LEMMA HashFacts ==
    /\ \A e, l, r : LeafHash(e) # NodeHash(l, r)
    /\ \A l, r : NodeHash(l, r) # EmptyRoot
    /\ \A e : LeafHash(e) # EmptyRoot
    /\ \A l, r, m, s : NodeHash(l, r) = NodeHash(m, s) => l = m /\ r = s
    /\ \A d, e \in Entry : LeafHash(d) = LeafHash(e) => d = e
  <1>1. \A d, e \in Entry : LeafHash(d) = LeafHash(e) => d = e
    <2> TAKE d \in Entry, e \in Entry
    <2>1. /\ d = [identity |-> d.identity, score |-> d.score]
          /\ e = [identity |-> e.identity, score |-> e.score]
      BY DEF Entry
    <2>2. ASSUME LeafHash(d) = LeafHash(e)
          PROVE  d.identity = e.identity /\ d.score = e.score
      BY <2>2 DEF LeafHash
    <2> QED
      BY <2>1, <2>2
  <1>2. \A l, r, m, s : NodeHash(l, r) = NodeHash(m, s) => l = m /\ r = s
    BY DEF NodeHash
  <1>3. "leaf" # "node" /\ "node" # "empty" /\ "leaf" # "empty"
    OBVIOUS
  <1>4. \A e, l, r : LeafHash(e) # NodeHash(l, r)
    <2> TAKE e, l, r
    <2>1. LeafHash(e)[1] = "leaf" /\ NodeHash(l, r)[1] = "node"
      BY DEF LeafHash, NodeHash
    <2> QED
      BY <1>3, <2>1
  <1>5. EmptyRoot[1] = "empty"
    BY DEF EmptyRoot
  <1>6. \A l, r : NodeHash(l, r) # EmptyRoot
    <2> TAKE l, r
    <2>1. NodeHash(l, r)[1] = "node"
      BY DEF NodeHash
    <2> QED
      BY <1>3, <1>5, <2>1
  <1>7. \A e : LeafHash(e) # EmptyRoot
    <2> TAKE e
    <2>1. LeafHash(e)[1] = "leaf"
      BY DEF LeafHash
    <2> QED
      BY <1>3, <1>5, <2>1
  <1> QED
    BY <1>1, <1>2, <1>4, <1>6, <1>7

\* Under a leaf is its entry, and under the empty root nothing.
LEMMA UnderLeaf == ASSUME NEW e \in Entry PROVE Under(LeafHash(e)) = {e}
  <1>1. e \in Under(LeafHash(e))
    BY DEF Under
  <1>2. ASSUME NEW d \in Under(LeafHash(e)) PROVE d = e
    <2>1. IsClosed({LeafHash(e)})
      BY HashFacts DEF IsClosed
    <2>2. d \in Entry /\ LeafHash(d) \in {LeafHash(e)}
      BY <1>2, <2>1 DEF Under
    <2> QED
      BY <2>2, HashFacts
  <1> QED
    BY <1>1, <1>2

LEMMA UnderEmptyRoot == Under(EmptyRoot) = {}
  <1>1. ASSUME NEW d \in Under(EmptyRoot) PROVE FALSE
    <2>1. IsClosed({EmptyRoot})
      BY HashFacts DEF IsClosed
    <2>2. LeafHash(d) \in {EmptyRoot}
      BY <1>1, <2>1 DEF Under
    <2> QED
      BY <2>2, HashFacts
  <1> QED
    BY <1>1

\* Under a node is what is under the two hashes it is made of.
LEMMA UnderNode ==
    ASSUME NEW l, NEW r
    PROVE  Under(NodeHash(l, r)) = Under(l) \cup Under(r)
  <1>1. ASSUME NEW e \in Under(l) \cup Under(r) PROVE e \in Under(NodeHash(l, r))
    <2>1. e \in Entry
      BY <1>1 DEF Under
    <2>2. ASSUME NEW S, NodeHash(l, r) \in S, IsClosed(S) PROVE LeafHash(e) \in S
      <3>1. l \in S /\ r \in S
        BY <2>2 DEF IsClosed
      <3> QED
        BY <1>1, <2>2, <3>1 DEF Under
    <2> QED
      BY <2>1, <2>2 DEF Under
  <1>2. ASSUME NEW e \in Under(NodeHash(l, r)), e \notin Under(l), e \notin Under(r)
        PROVE  FALSE
    <2>1. e \in Entry
      BY <1>2 DEF Under
    <2>2. PICK S : l \in S /\ IsClosed(S) /\ LeafHash(e) \notin S
      BY <1>2, <2>1 DEF Under
    <2>3. PICK U : r \in U /\ IsClosed(U) /\ LeafHash(e) \notin U
      BY <1>2, <2>1 DEF Under
    <2> DEFINE V == S \cup U \cup {NodeHash(l, r)}
    <2>4. IsClosed(V)
      BY <2>2, <2>3, HashFacts DEF IsClosed
    <2>5. LeafHash(e) \in V
      BY <1>2, <2>4 DEF Under
    <2> QED
      BY <2>2, <2>3, <2>5, HashFacts
  <1> QED
    BY <1>1, <1>2

\* A function on 1..n is a sequence of length n.
LEMMA SequenceFacts ==
    ASSUME NEW n \in Nat, NEW f, DOMAIN f = 1..n, f = [k \in 1..n |-> f[k]]
    PROVE  Len(f) = n /\ f \in Seq({f[k] : k \in 1..n})
  <1> DEFINE T == {f[k] : k \in 1..n}
  <1>1. f \in [1..n -> T]
    OBVIOUS
  <1> HIDE DEF T
  <1>2. f \in Seq(T)
    BY <1>1
  <1>3. Len(f) = n
    BY <1>1, <1>2
  <1> QED
    BY <1>2, <1>3 DEF T

\* The next level has a hash for each pair and for the odd one.
LEMMA NextLevelFacts ==
    ASSUME NEW l, NEW n \in Nat \ {0}, Len(l) = n, DOMAIN l = 1..n
    PROVE  LET m == (n + 1) \div 2
           IN  /\ m \in 1..n /\ (n > 1 => m < n)
               /\ Len(NextLevel(l)) = m /\ DOMAIN NextLevel(l) = 1..m
               /\ NextLevel(l) = [k \in 1..m |-> NextLevel(l)[k]]
  <1> DEFINE m == (n + 1) \div 2
             L == NextLevel(l)
  <1>1. m \in 1..n /\ (n > 1 => m < n) /\ m \in Nat
    OBVIOUS
  <1>2. DOMAIN L = 1..m /\ L = [k \in 1..m |-> L[k]]
    BY DEF NextLevel
  <1> HIDE DEF m, L
  <1>3. Len(L) = m
    BY <1>1, <1>2, SequenceFacts
  <1> QED
    BY <1>1, <1>2, <1>3 DEF m, L

\* Merging a level loses no entry and makes up none.
LEMMA NextLevelKeeps ==
    ASSUME NEW l, NEW n \in Nat \ {0}, Len(l) = n, DOMAIN l = 1..n
    PROVE  UnderAny(NextLevel(l)) = UnderAny(l)
  <1> DEFINE m == (n + 1) \div 2
             L == NextLevel(l)
  <1>1. /\ m \in Nat /\ DOMAIN L = 1..m
        /\ \A k \in 1..m : L[k] = IF 2 * k <= n THEN NodeHash(l[2 * k - 1], l[2 * k])
                                  ELSE l[2 * k - 1]
    BY DEF NextLevel
  <1>2. \A k \in 1..m : Under(L[k]) = IF 2 * k <= n
                                      THEN Under(l[2 * k - 1]) \cup Under(l[2 * k])
                                      ELSE Under(l[2 * k - 1])
    <2> TAKE k \in 1..m
    <2> DEFINE x == l[2 * k - 1]
               y == l[2 * k]
    <2>1. Under(NodeHash(x, y)) = Under(x) \cup Under(y)
      BY UnderNode
    <2>2. L[k] = IF 2 * k <= n THEN NodeHash(x, y) ELSE x
      BY <1>1
    <2> HIDE DEF L, m, x, y
    <2>3. Under(L[k]) = IF 2 * k <= n THEN Under(x) \cup Under(y) ELSE Under(x)
      BY <2>1, <2>2
    <2> QED
      BY <2>3 DEF x, y
  <1>3. ASSUME NEW e \in UnderAny(L) PROVE e \in UnderAny(l)
    <2>1. PICK k \in 1..m : e \in Under(L[k])
      BY <1>1, <1>3 DEF UnderAny
    <2>2. 2 * k - 1 \in 1..n /\ (2 * k <= n => 2 * k \in 1..n)
      OBVIOUS
    <2>3. e \in Under(l[2 * k - 1]) \/ (2 * k <= n /\ e \in Under(l[2 * k]))
      BY <1>2, <2>1
    <2> QED
      BY <2>2, <2>3 DEF UnderAny
  <1>4. ASSUME NEW e \in UnderAny(l) PROVE e \in UnderAny(L)
    <2>1. PICK j \in 1..n : e \in Under(l[j])
      BY <1>4 DEF UnderAny
    <2>2. PICK k \in 1..m : j = 2 * k - 1 \/ j = 2 * k
      <3>1. (j + 1) \div 2 \in 1..m
        OBVIOUS
      <3>2. j = 2 * ((j + 1) \div 2) - 1 \/ j = 2 * ((j + 1) \div 2)
        OBVIOUS
      <3> QED
        BY <3>1, <3>2
    <2>3. e \in Under(L[k])
      <3>1. CASE j = 2 * k - 1
        BY <1>2, <2>1, <3>1
      <3>2. CASE j = 2 * k
        <4>1. 2 * k <= n
          BY <3>2
        <4> HIDE DEF L, m
        <4> QED
          BY <1>2, <2>1, <3>2, <4>1
      <3> QED
        BY <2>2, <3>1, <3>2
    <2> QED
      BY <1>1, <2>3 DEF UnderAny
  <1> QED
    BY <1>3, <1>4

-----------------------------------------------------------------------------
(* The sort                                                                *)

\* How many entries of a set come before e.
Before(S, e) == {x \in S : x.identity < e.identity}
Rank(S, e) == Cardinality(Before(S, e))

\* A list of n different identities has n entries.
LEMMA ListFacts ==
    ASSUME NEW list \in Seq(Entry), ~HasDuplicate(list)
    PROVE  LET S == ToSet(list)
               n == Len(list)
           IN  /\ n \in Nat /\ DOMAIN list = 1..n
               /\ S \subseteq Entry /\ IsFiniteSet(S) /\ Cardinality(S) = n
               /\ \A d, e \in S : d.identity = e.identity => d = e
  <1> DEFINE S == ToSet(list)
             n == Len(list)
  <1>1. n \in Nat /\ DOMAIN list = 1..n /\ list \in [1..n -> Entry]
    OBVIOUS
  <1>2. S \subseteq Entry /\ \A e \in S : \E k \in 1..n : list[k] = e
    BY <1>1 DEF ToSet
  <1>3. \A j, k \in 1..n : list[j].identity = list[k].identity => j = k
    BY <1>1 DEF HasDuplicate
  <1>4. list \in [1..n -> S] /\ list = [k \in 1..n |-> list[k]]
    BY <1>1 DEF ToSet
  <1>5. list \in Bijection(1..n, S)
    BY <1>1, <1>2, <1>3, <1>4 DEF Bijection, Injection, Surjection, IsInjective
  <1>6. IsFiniteSet(S) /\ Cardinality(S) = n
    <2>1. ExistsBijection(1..n, S)
      BY <1>5 DEF ExistsBijection
    <2>2. 1 \in Int /\ n \in Int
      BY <1>1
    <2>3. IsFiniteSet(1..n)
      BY <2>2, FS_Interval
    <2> HIDE DEF S, n
    <2> QED
      BY <1>1, <2>1, <2>3, FS_Bijection, FS_CountingElements
  <1>7. \A d, e \in S : d.identity = e.identity => d = e
    BY <1>2, <1>3
  <1> QED
    BY <1>1, <1>2, <1>6, <1>7

\* The ranks of n entries of different identities are 0..(n - 1), each once.
LEMMA RankFacts ==
    ASSUME NEW S \in SUBSET Entry, NEW n \in Nat, IsFiniteSet(S), Cardinality(S) = n,
           \A d, e \in S : d.identity = e.identity => d = e
    PROVE  /\ \A e \in S : Rank(S, e) + 1 \in 1..n
           /\ \A d, e \in S : Rank(S, d) = Rank(S, e) => d = e
           /\ \A k \in 1..n : \E e \in S : Rank(S, e) = k - 1
  <1>1. ASSUME NEW e \in S PROVE Rank(S, e) \in Nat /\ Rank(S, e) < n
    <2>1. Before(S, e) \in SUBSET S /\ e \notin Before(S, e)
      BY DEF Before, Entry
    <2>2. /\ IsFiniteSet(Before(S, e)) /\ Rank(S, e) <= n
          /\ Rank(S, e) = n => Before(S, e) = S
      BY <2>1, FS_Subset DEF Rank
    <2>3. Rank(S, e) \in Nat
      BY <2>2, FS_CardinalityType DEF Rank
    <2> QED
      BY <2>1, <2>2, <2>3
  <1>2. ASSUME NEW d \in S, NEW e \in S, d.identity < e.identity
        PROVE  Rank(S, d) < Rank(S, e)
    <2>1. Before(S, d) \in SUBSET Before(S, e)
      BY <1>2 DEF Before, Entry
    <2>2. d \in Before(S, e) /\ d \notin Before(S, d)
      BY <1>2 DEF Before, Entry
    <2>3. IsFiniteSet(Before(S, e))
      <3>1. Before(S, e) \in SUBSET S
        BY DEF Before
      <3> QED
        BY <3>1, FS_Subset
    <2>4. Rank(S, d) <= Rank(S, e) /\ Rank(S, d) # Rank(S, e)
      BY <2>1, <2>2, <2>3, FS_Subset DEF Rank
    <2> QED
      BY <1>1, <2>4
  <1>3. \A d, e \in S : Rank(S, d) = Rank(S, e) => d = e
    <2> TAKE d \in S, e \in S
    <2>1. d.identity \in Int /\ e.identity \in Int
      BY DEF Entry
    <2>2. d.identity < e.identity \/ e.identity < d.identity \/ d.identity = e.identity
      BY <2>1
    <2>3. Rank(S, d) \in Nat /\ Rank(S, e) \in Nat
      BY <1>1
    <2> QED
      BY <1>2, <2>2, <2>3
  <1> DEFINE rank == [e \in S |-> Rank(S, e) + 1]
  <1>4. \A e \in S : Rank(S, e) + 1 \in 1..n
    <2> TAKE e \in S
    <2>1. Rank(S, e) \in Nat /\ Rank(S, e) < n
      BY <1>1
    <2> QED
      BY <2>1
  <1>5. rank \in Injection(S, 1..n)
    <2>1. rank \in [S -> 1..n]
      BY <1>4
    <2>2. \A d, e \in S : rank[d] = rank[e] => d = e
      <3> TAKE d \in S, e \in S
      <3>1. Rank(S, d) \in Nat /\ Rank(S, e) \in Nat
        BY <1>1
      <3>2. rank[d] = rank[e] => Rank(S, d) = Rank(S, e)
        BY <3>1
      <3> QED
        BY <1>3, <3>2
    <2> QED
      BY <2>1, <2>2 DEF Injection, IsInjective
  <1>6. rank \in Surjection(S, 1..n)
    <2>1. IsFiniteSet(1..n) /\ Cardinality(1..n) = n
      <3>1. 1 \in Int /\ n \in Int
        OBVIOUS
      <3>2. IsFiniteSet(1..n) /\ Cardinality(1..n) = IF 1 > n THEN 0 ELSE n - 1 + 1
        BY <3>1, FS_Interval
      <3> QED
        BY <3>2
    <2> HIDE DEF rank
    <2> QED
      BY <1>5, <2>1, FS_Injection
  <1>7. \A k \in 1..n : \E e \in S : Rank(S, e) = k - 1
    <2> TAKE k \in 1..n
    <2>1. PICK e \in S : rank[e] = k
      BY <1>6 DEF Surjection
    <2>2. Rank(S, e) + 1 = k /\ Rank(S, e) \in Nat
      BY <1>1, <2>1
    <2>3. Rank(S, e) = k - 1
      BY <2>2
    <2> QED
      BY <2>3
  <1> QED
    BY <1>3, <1>4, <1>7

\* Sorting keeps the entries, and depends on nothing else of a list.
LEMMA SortedFacts ==
    ASSUME NEW list \in Seq(Entry), ~HasDuplicate(list)
    PROVE  /\ DOMAIN Sorted(list) = DOMAIN list
           /\ ToSet(Sorted(list)) = ToSet(list)
           /\ \A other \in Seq(Entry) :
                 ~HasDuplicate(other) /\ ToSet(other) = ToSet(list) =>
                    Sorted(other) = Sorted(list) /\ Len(other) = Len(list)
  <1> DEFINE S == ToSet(list)
             n == Len(list)
             entry(k) == CHOOSE e \in S : Rank(S, e) = k - 1
  <1>1. /\ n \in Nat /\ DOMAIN list = 1..n
        /\ S \subseteq Entry /\ IsFiniteSet(S) /\ Cardinality(S) = n
        /\ \A d, e \in S : d.identity = e.identity => d = e
    BY ListFacts
  <1>2. Sorted(list) = [k \in 1..n |-> entry(k)]
    <2>1. Sorted(list) = [k \in DOMAIN list |-> entry(k)]
      BY Zenon DEF Sorted, Rank, Before
    <2>2. DOMAIN list = 1..n
      BY <1>1
    <2> QED
      BY <2>1, <2>2, Zenon
  <1> HIDE DEF S, n
  <1>3. /\ \A e \in S : Rank(S, e) + 1 \in 1..n
        /\ \A d, e \in S : Rank(S, d) = Rank(S, e) => d = e
        /\ \A k \in 1..n : \E e \in S : Rank(S, e) = k - 1
    BY <1>1, RankFacts
  <1>4. \A k \in 1..n : entry(k) \in S /\ Rank(S, entry(k)) = k - 1
    BY <1>3
  <1>5. ASSUME NEW e \in S PROVE \E k \in 1..n : entry(k) = e
    <2>1. Rank(S, e) + 1 \in 1..n /\ Rank(S, e) \in Nat
      <3>1. Before(S, e) \in SUBSET S
        BY DEF Before
      <3>2. Rank(S, e) \in Nat
        BY <1>1, <3>1, FS_Subset, FS_CardinalityType DEF Rank
      <3> QED
        BY <1>3, <3>2
    <2>2. entry(Rank(S, e) + 1) \in S /\ Rank(S, entry(Rank(S, e) + 1)) = Rank(S, e)
      <3> HIDE DEF entry
      <3>1. (Rank(S, e) + 1) - 1 = Rank(S, e)
        BY <2>1
      <3> QED
        BY <1>4, <2>1, <3>1
    <2>3. entry(Rank(S, e) + 1) = e
      <3> HIDE DEF entry
      <3> QED
        BY <1>3, <2>2
    <2> QED
      BY <2>1, <2>3
  <1>6. ToSet(Sorted(list)) = S
    <2> HIDE DEF entry
    <2> QED
      BY <1>2, <1>4, <1>5 DEF ToSet
  <1>7. ASSUME NEW other \in Seq(Entry), ~HasDuplicate(other), ToSet(other) = S
        PROVE  Sorted(other) = Sorted(list) /\ Len(other) = n
    <2>1. Len(other) = n /\ DOMAIN other = 1..n
      BY <1>1, <1>7, ListFacts
    <2> QED
      BY <1>2, <1>7, <2>1 DEF Sorted, Rank, Before
  <1> QED
    BY <1>1, <1>2, <1>6, <1>7 DEF S, n

-----------------------------------------------------------------------------
(* The root of a list of entries                                           *)

\* The level that score_root starts from.
LeafLevel(list) ==
    IF list = <<>> THEN <<EmptyRoot>>
    ELSE [k \in DOMAIN list |-> LeafHash(Sorted(list)[k])]

\* The levels from one to another: while there is more than one hash they are
\* merged.
IsMergeFrom(first, levels, n) ==
    /\ n \in Nat
    /\ levels = [k \in 0..n |-> levels[k]]
    /\ levels[0] = first
    /\ \A k \in 0..n : k < n => Len(levels[k]) > 1 /\ levels[k + 1] = NextLevel(levels[k])

MergesTo(first, last) ==
    \E n, levels : IsMergeFrom(first, levels, n) /\ levels[n] = last

IsRoot(list, root) ==
    /\ MergesTo(LeafLevel(list), <<root>>)
    /\ Under(root) = ToSet(list)

LEMMA MergesToItself == ASSUME NEW first PROVE MergesTo(first, first)
  <1> DEFINE levels == [k \in 0..0 |-> first]
  <1>1. IsMergeFrom(first, levels, 0) /\ levels[0] = first
    BY DEF IsMergeFrom
  <1> QED
    BY <1>1 DEF MergesTo

LEMMA MergesOn ==
    ASSUME NEW first, NEW last, MergesTo(first, last), Len(last) > 1
    PROVE  MergesTo(first, NextLevel(last))
  <1>1. PICK n, levels : IsMergeFrom(first, levels, n) /\ levels[n] = last
    BY DEF MergesTo
  <1> DEFINE next == NextLevel(last)
             more == [k \in 0..(n + 1) |-> IF k <= n THEN levels[k] ELSE next]
  <1>2. n \in Nat /\ n + 1 \in Nat
    BY <1>1 DEF IsMergeFrom
  <1>3. more[0] = first /\ more[n + 1] = next
    BY <1>1, <1>2 DEF IsMergeFrom
  <1>4. ASSUME NEW k \in 0..(n + 1), k < n + 1
        PROVE  Len(more[k]) > 1 /\ more[k + 1] = NextLevel(more[k])
    <2>1. k \in 0..n /\ more[k] = levels[k]
      BY <1>2, <1>4
    <2>2. CASE k < n
      <3>1. more[k + 1] = levels[k + 1]
        BY <1>2, <2>1, <2>2
      <3>2. Len(levels[k]) > 1 /\ levels[k + 1] = NextLevel(levels[k])
        BY <1>1, <2>1, <2>2 DEF IsMergeFrom
      <3> QED
        BY <2>1, <3>1, <3>2
    <2>3. CASE k = n
      <3>1. more[k + 1] = next
        BY <1>2, <2>3
      <3> HIDE DEF more
      <3> QED
        BY <1>1, <2>1, <2>3, <3>1 DEF next
    <2> QED
      BY <1>2, <2>1, <2>2, <2>3
  <1>5. more = [k \in 0..(n + 1) |-> more[k]]
    OBVIOUS
  <1> HIDE DEF more, next
  <1>6. IsMergeFrom(first, more, n + 1)
    BY <1>2, <1>3, <1>4, <1>5 DEF IsMergeFrom
  <1> QED
    BY <1>3, <1>6 DEF MergesTo, next

\* Merging has one end: two merges from one level are the same as long as both
\* go on, and none goes on from a single hash.
LEMMA MergesToOneEnd ==
    ASSUME NEW first, NEW x, NEW y, MergesTo(first, x), MergesTo(first, y),
           Len(x) = 1, Len(y) = 1
    PROVE  x = y
  <1>1. PICK n, f : IsMergeFrom(first, f, n) /\ f[n] = x
    BY DEF MergesTo
  <1>2. PICK m, g : IsMergeFrom(first, g, m) /\ g[m] = y
    BY DEF MergesTo
  <1>3. n \in Nat /\ m \in Nat
    BY <1>1, <1>2 DEF IsMergeFrom
  <1> DEFINE Apart == {k \in Nat : k <= n /\ k <= m /\ f[k] # g[k]}
  <1>4. Apart = {}
    <2>1. ASSUME Apart # {} PROVE FALSE
      <3>1. PICK k \in Apart : \A j \in Apart : k <= j
        <4>1. IsWellFoundedOn(OpToRel(<, Nat), Nat)
          BY NatLessThanWellFounded
        <4>2. PICK k \in Apart : \A j \in Nat : <<j, k>> \in OpToRel(<, Nat) => ~(j \in Apart)
          <5>1. \E k \in Apart : \A j \in Apart : ~(<<j, k>> \in OpToRel(<, Nat))
            <6>1. Apart \in SUBSET Nat
              OBVIOUS
            <6> HIDE DEF Apart
            <6> QED
              BY <2>1, <4>1, <6>1, WFMin
          <5> HIDE DEF Apart
          <5> QED
            BY <5>1
        <4>3. \A j \in Apart : k <= j
          <5> TAKE j \in Apart
          <5>1. j \in Nat /\ k \in Nat
            OBVIOUS
          <5>2. j < k => <<j, k>> \in OpToRel(<, Nat)
            BY <5>1 DEF OpToRel
          <5>3. ~(j < k)
            BY <4>2, <5>1, <5>2
          <5> QED
            BY <5>1, <5>3
        <4> QED
          BY <4>3
      <3>2. k \in Nat /\ k <= n /\ k <= m /\ f[k] # g[k]
        OBVIOUS
      <3>3. k # 0
        BY <1>1, <1>2, <3>2 DEF IsMergeFrom
      <3>4. k - 1 \in Nat /\ k - 1 < n /\ k - 1 < m /\ (k - 1) + 1 = k
        BY <1>3, <3>2, <3>3
      <3>5. f[k - 1] = g[k - 1]
        <4>1. k - 1 \notin Apart
          <5>1. ~(k <= k - 1)
            BY <3>2
          <5> HIDE DEF Apart
          <5> QED
            BY <3>1, <5>1
        <4> QED
          BY <1>3, <3>4, <4>1
      <3>6. f[k] = NextLevel(f[k - 1]) /\ g[k] = NextLevel(g[k - 1])
        <4>1. k - 1 \in 0..n /\ k - 1 \in 0..m
          BY <1>3, <3>4
        <4> HIDE DEF Apart
        <4> QED
          BY <1>1, <1>2, <3>4, <4>1 DEF IsMergeFrom
      <3> QED
        BY <3>2, <3>5, <3>6
    <2> QED
      BY <2>1
  <1>5. \A k \in Nat : k <= n /\ k <= m => f[k] = g[k]
    BY <1>4
  <1>6. ~(n < m)
    <2>1. ASSUME n < m PROVE FALSE
      <3>1. g[n] = x /\ n \in 0..m
        BY <1>1, <1>3, <1>5, <2>1
      <3>2. Len(g[n]) > 1
        BY <1>2, <2>1, <3>1 DEF IsMergeFrom
      <3>3. Len(g[n]) = 1
        BY <3>1
      <3>4. ~(1 > 1)
        OBVIOUS
      <3> QED
        BY <3>2, <3>3, <3>4
    <2> QED
      BY <2>1
  <1>7. ~(m < n)
    <2>1. ASSUME m < n PROVE FALSE
      <3>1. f[m] = y /\ m \in 0..n
        BY <1>2, <1>3, <1>5, <2>1
      <3>2. Len(f[m]) > 1
        BY <1>1, <2>1, <3>1 DEF IsMergeFrom
      <3>3. Len(f[m]) = 1
        BY <3>1
      <3>4. ~(1 > 1)
        OBVIOUS
      <3> QED
        BY <3>2, <3>3, <3>4
    <2> QED
      BY <2>1
  <1>8. n = m
    BY <1>3, <1>6, <1>7
  <1> QED
    BY <1>1, <1>2, <1>3, <1>5, <1>8

\* The leaves have all the entries of a list under them, in an order that only
\* depends on what they are.
LEMMA LeafLevelFacts ==
    ASSUME NEW list \in Seq(Entry), ~HasDuplicate(list)
    PROVE  LET n == IF list = <<>> THEN 1 ELSE Len(list)
           IN  /\ n \in Nat \ {0}
               /\ Len(LeafLevel(list)) = n /\ DOMAIN LeafLevel(list) = 1..n
               /\ UnderAny(LeafLevel(list)) = ToSet(list)
  <1> DEFINE L == LeafLevel(list)
             n == Len(list)
  <1>1. n \in Nat /\ DOMAIN list = 1..n /\ ToSet(list) \subseteq Entry
    BY ListFacts
  <1>2. CASE list = <<>>
    <2>1. L = <<EmptyRoot>> /\ DOMAIN L = 1..1 /\ L[1] = EmptyRoot /\ Len(L) = 1
      BY <1>2 DEF LeafLevel
    <2>2. ToSet(list) = {}
      BY <1>2 DEF ToSet
    <2>3. UnderAny(L) = {}
      BY <2>1, UnderEmptyRoot DEF UnderAny
    <2> HIDE DEF L
    <2>4. 1 \in Nat \ {0} /\ Len(L) = 1 /\ DOMAIN L = 1..1 /\ UnderAny(L) = ToSet(list)
      BY <2>1, <2>2, <2>3
    <2> QED
      BY <1>2, <2>4 DEF L
  <1>3. CASE list # <<>>
    <2> DEFINE sorted == Sorted(list)
    <2>1. DOMAIN sorted = 1..n /\ ToSet(sorted) = ToSet(list)
      BY <1>1, SortedFacts
    <2>2. L = [k \in 1..n |-> LeafHash(sorted[k])]
      BY <1>1, <1>3 DEF LeafLevel
    <2> HIDE DEF L, sorted
    <2>3. n # 0
      BY <1>1, <1>3
    <2>4. DOMAIN L = 1..n /\ L = [k \in 1..n |-> L[k]]
      BY <2>2
    <2>5. Len(L) = n
      <3> HIDE DEF n
      <3> QED
        BY <1>1, <2>4, SequenceFacts
    <2>6. \A k \in 1..n : sorted[k] \in Entry /\ Under(L[k]) = {sorted[k]}
      <3> TAKE k \in 1..n
      <3>1. sorted[k] \in Entry
        BY <1>1, <2>1 DEF ToSet
      <3>2. Under(LeafHash(sorted[k])) = {sorted[k]}
        BY <3>1, UnderLeaf
      <3> QED
        BY <2>2, <3>1, <3>2
    <2>7. UnderAny(L) = ToSet(sorted)
      BY <2>1, <2>4, <2>6 DEF UnderAny, ToSet
    <2> QED
      BY <1>1, <1>3, <2>1, <2>3, <2>4, <2>5, <2>7 DEF L
  <1> QED
    BY <1>2, <1>3

\* Lists of the same entries have the same root, and only they.
LEMMA RootsDecide ==
    ASSUME NEW list \in Seq(Entry), ~HasDuplicate(list),
           NEW other \in Seq(Entry), ~HasDuplicate(other),
           NEW r, IsRoot(list, r), NEW q, IsRoot(other, q)
    PROVE  r = q <=> ToSet(list) = ToSet(other)
  <1>1. ASSUME r = q PROVE ToSet(list) = ToSet(other)
    BY <1>1 DEF IsRoot
  <1>2. ASSUME ToSet(list) = ToSet(other) PROVE r = q
    <2>1. LeafLevel(list) = LeafLevel(other)
      <3>1. Sorted(other) = Sorted(list) /\ Len(other) = Len(list)
        BY <1>2, SortedFacts
      <3>2. DOMAIN list = 1..Len(list) /\ DOMAIN other = 1..Len(other)
        OBVIOUS
      <3>3. list = <<>> <=> other = <<>>
        BY <3>1
      <3> QED
        BY <3>1, <3>2, <3>3 DEF LeafLevel
    <2>2. <<r>> = <<q>>
      <3>1. Len(<<r>>) = 1 /\ Len(<<q>>) = 1
        OBVIOUS
      <3>2. MergesTo(LeafLevel(list), <<r>>) /\ MergesTo(LeafLevel(list), <<q>>)
        BY <2>1 DEF IsRoot
      <3> QED
        BY <3>1, <3>2, MergesToOneEnd
    <2> QED
      BY <2>2
  <1> QED
    BY <1>1, <1>2

\* A list in another order is the same list to score_root.
LEMMA ReorderingFacts ==
    ASSUME NEW list \in EntryLists, NEW other \in Reorderings(list)
    PROVE  /\ list \in Seq(Entry) /\ other \in Seq(Entry)
           /\ Len(other) = Len(list) /\ ToSet(other) = ToSet(list)
           /\ other = <<>> <=> list = <<>>
           /\ HasDuplicate(other) <=> HasDuplicate(list)
           /\ ~HasDuplicate(list) => Sorted(other) = Sorted(list)
  <1> DEFINE n == Len(list)
             D == 1..n
  <1>1. list \in Seq(Entry) /\ n \in Nat /\ DOMAIN list = D /\ list \in [D -> Entry]
    <2>1. list \in Seq(Entry)
      BY DEF Entry
    <2> QED
      BY <2>1
  <1>2. PICK f \in Orders[n] : other = [k \in D |-> list[f[k]]]
    BY <1>1 DEF Reorderings
  <1>3. f \in Bijection(D, D)
    BY <1>1
  <1>4. /\ f \in [D -> D]
        /\ \A j, k \in D : f[j] = f[k] => j = k
        /\ \A j \in D : \E k \in D : f[k] = j
    BY <1>3 DEF Bijection, Injection, Surjection, IsInjective
  <1> HIDE DEF n, D
  <1>5. other \in [D -> Entry] /\ DOMAIN other = D
    <2>1. \A k \in D : f[k] \in D
      BY <1>4
    <2>2. \A k \in D : list[k] \in Entry
      BY <1>1
    <2>3. \A k \in D : list[f[k]] \in Entry
      BY <2>1, <2>2
    <2> QED
      BY <1>2, <2>3
  <1>6. other \in Seq(Entry) /\ Len(other) = n
    BY <1>1, <1>5 DEF D
  <1>7. ToSet(other) = ToSet(list)
    <2>1. ASSUME NEW e \in ToSet(other) PROVE e \in ToSet(list)
      BY <1>1, <1>2, <1>4, <1>5 DEF ToSet
    <2>2. ASSUME NEW e \in ToSet(list) PROVE e \in ToSet(other)
      <3>1. PICK j \in D : e = list[j]
        BY <1>1, <2>2 DEF ToSet
      <3>2. PICK k \in D : f[k] = j
        BY <1>4
      <3> QED
        BY <1>2, <1>5, <3>1, <3>2 DEF ToSet
    <2> QED
      BY <2>1, <2>2
  <1>8. HasDuplicate(other) <=> HasDuplicate(list)
    <2>1. ASSUME HasDuplicate(other) PROVE HasDuplicate(list)
      <3>1. PICK j \in D, k \in D : j # k /\ other[j].identity = other[k].identity
        BY <1>5, <2>1 DEF HasDuplicate
      <3>2. f[j] # f[k] /\ list[f[j]].identity = list[f[k]].identity
        BY <1>2, <1>4, <3>1
      <3> QED
        BY <1>1, <1>4, <3>2 DEF HasDuplicate
    <2>2. ASSUME HasDuplicate(list) PROVE HasDuplicate(other)
      <3>1. PICK j \in D, k \in D : j # k /\ list[j].identity = list[k].identity
        BY <1>1, <2>2 DEF HasDuplicate
      <3>2. PICK p \in D : f[p] = j
        BY <1>4
      <3>3. PICK q \in D : f[q] = k
        BY <1>4
      <3>4. p # q /\ other[p].identity = other[q].identity
        BY <1>2, <3>1, <3>2, <3>3
      <3> QED
        BY <1>5, <3>4 DEF HasDuplicate
    <2> QED
      BY <2>1, <2>2
  <1>9. other = <<>> <=> list = <<>>
    BY <1>1, <1>6 DEF n
  <1>10. ~HasDuplicate(list) => Sorted(other) = Sorted(list)
    BY <1>1, <1>6, <1>7, <1>8, SortedFacts
  <1> QED
    BY <1>1, <1>6, <1>7, <1>8, <1>9, <1>10 DEF n

-----------------------------------------------------------------------------
(* The invariant                                                           *)

RunsInv ==
    /\ entries \in [Scorers -> EntryLists]
    /\ pc \in [Scorers -> Running \cup {"idle", "failed", "done"}]
    /\ level = [s \in Scorers |-> level[s]]
    /\ published = [s \in Scorers |-> published[s]]
    /\ faults \in 0..MaxFaults

\* The level is on the way from the leaves of the entries to their root.
MergeInv ==
    \A s \in Scorers : pc[s] = "merge" =>
        /\ ~HasDuplicate(entries[s])
        /\ MergesTo(LeafLevel(entries[s]), level[s])
        /\ UnderAny(level[s]) = ToSet(entries[s])
        /\ \E n \in 1..(IF entries[s] = <<>> THEN 1 ELSE Len(entries[s])) :
              Len(level[s]) = n /\ DOMAIN level[s] = 1..n

\* What is signed is the root of the entries, altered or not.
HandInv ==
    \A s \in Scorers :
        /\ pc[s] \in {"submit", "write"} =>
              /\ ~HasDuplicate(entries[s])
              /\ IsRoot(entries[s], commitment[s].signature.digest[3])
        /\ pc[s] \in {"submit", "write", "done"} =>
              IsWhole(commitment[s]) /\ Target(s) \in Epochs

\* The only commitment that a scorer can publish.
IsExact(s, c) ==
    \E r : /\ IsRoot(entries[s], r)
           /\ c = Sign(s, [epoch |-> EpochOfScorers, root |-> r,
                           entryCount |-> Len(entries[s]),
                           totalScore |-> TotalScore(entries[s])])

PublishedInv ==
    \A s \in Scorers :
        /\ published[s] # None => ~HasDuplicate(entries[s]) /\ IsExact(s, published[s])
        /\ \A e \in Epochs : IsCommitment(file[s][e]) =>
              ~HasDuplicate(entries[s]) /\ IsExact(s, file[s][e])

RootInv == SignedInv /\ RunsInv /\ MergeInv /\ HandInv /\ PublishedInv

LEMMA RootInit == Init => RootInv
  <1> SUFFICES ASSUME Init PROVE RootInv
    OBVIOUS
  <1>1. SignedInv
    BY SignedInit
  <1>2. \A s \in Scorers : /\ pc[s] = "idle" /\ published[s] = None
                           /\ \A e \in Epochs : ~IsCommitment(file[s][e])
    BY DEF Init, IsCommitment
  <1>3. RunsInv
    <2>1. published = [s \in Scorers |-> published[s]] /\ level = [s \in Scorers |-> level[s]]
      BY DEF Init
    <2> QED
      BY <2>1 DEF Init, RunsInv
  <1> QED
    BY <1>1, <1>2, <1>3 DEF RootInv, MergeInv, HandInv, PublishedInv

\* A run that starts has the leaves of its entries, or rejects them.
LEMMA RunsBegin ==
    ASSUME RunsInv, NEW s \in Scorers, Begin(s), pc'[s] = "merge"
    PROVE  ~HasDuplicate(entries[s]) /\ level'[s] = LeafLevel(entries[s])
  <1>1. PICK list \in Reorderings(entries[s]) :
           LET reject == ~IsEmpty(list) /\ HasDuplicate(list)
               sorted == Sorted(list)
           IN  /\ level' = [level EXCEPT ![s] =
                     IF IsEmpty(list) THEN <<EmptyRoot>>
                     ELSE IF reject THEN <<>>
                     ELSE [k \in DOMAIN list |-> LeafHash(sorted[k])]]
               /\ Goto(s, IF reject THEN "failed" ELSE "merge")
    BY DEF Begin
  <1> DEFINE e == entries[s]
  <1>2. e \in EntryLists
    BY DEF RunsInv
  <1>3. /\ list \in Seq(Entry) /\ e \in Seq(Entry) /\ Len(list) = Len(e)
        /\ list = <<>> <=> e = <<>>
        /\ HasDuplicate(list) <=> HasDuplicate(e)
        /\ ~HasDuplicate(e) => Sorted(list) = Sorted(e)
    BY <1>2, ReorderingFacts
  <1>4. ~(~IsEmpty(list) /\ HasDuplicate(list))
    BY <1>1 DEF Goto, RunsInv
  <1>5. ~HasDuplicate(e)
    <2>1. list = <<>> => ~HasDuplicate(list)
      BY DEF HasDuplicate
    <2> QED
      BY <1>3, <1>4, <2>1 DEF IsEmpty
  <1>6. level'[s] = IF IsEmpty(list) THEN <<EmptyRoot>>
                    ELSE [k \in DOMAIN list |-> LeafHash(Sorted(list)[k])]
    BY <1>1, <1>4 DEF RunsInv
  <1>7. DOMAIN list = DOMAIN e
    BY <1>3
  <1> HIDE DEF e
  <1>8. level'[s] = LeafLevel(e)
    BY <1>3, <1>5, <1>6, <1>7 DEF LeafLevel, IsEmpty
  <1> QED
    BY <1>5, <1>8 DEF e

LEMMA RunsStep == RunsInv /\ [Next]_vars => RunsInv'
  <1> SUFFICES ASSUME RunsInv, [Next]_vars PROVE RunsInv'
    OBVIOUS
  <1>1. CASE UNCHANGED vars
    BY <1>1 DEF vars, RunsInv
  <1>2. CASE Next
    <2> PICK s \in Scorers : Run(s) \/ Alter(s) \/ WriteFails(s) \/ Crash(s) \/ RunAgain(s)
      BY <1>2 DEF Next
    <2>1. entries' = entries /\ (faults' = faults \/ (faults < MaxFaults /\ faults' = faults + 1))
      BY DEF Run, Begin, MergeLevel, SignEnvelope, Refuse, Truncate, Write, Alter, WriteFails,
             Crash, RunAgain, Fault
    <2>2. pc' = pc \/ \E l \in Running \cup {"idle", "failed", "done"} :
                         pc' = [pc EXCEPT ![s] = l]
      BY DEF Goto, Forget, Run, Begin, MergeLevel, SignEnvelope, Refuse, Truncate, Write,
             Alter, WriteFails, Crash, RunAgain, Running
    <2>3. /\ level' = level \/ \E l : level' = [level EXCEPT ![s] = l]
          /\ published' = published \/ \E c : published' = [published EXCEPT ![s] = c]
      BY DEF Forget, Run, Begin, MergeLevel, SignEnvelope, Refuse, Truncate, Write,
             Alter, WriteFails, Crash, RunAgain
    <2>4. pc' \in [Scorers -> Running \cup {"idle", "failed", "done"}]
      BY <2>2 DEF RunsInv
    <2>5. faults' \in 0..MaxFaults
      BY <2>1 DEF RunsInv
    <2>6. level' = [t \in Scorers |-> level'[t]]
          /\ published' = [t \in Scorers |-> published'[t]]
      BY <2>3 DEF RunsInv
    <2> QED
      BY <2>1, <2>4, <2>5, <2>6 DEF RunsInv
  <1> QED
    BY <1>1, <1>2

LEMMA MergeStep ==
    ASSUME RunsInv, MergeInv, Next
    PROVE  MergeInv'
  <1> PICK s \in Scorers : Run(s) \/ Alter(s) \/ WriteFails(s) \/ Crash(s) \/ RunAgain(s)
    BY DEF Next
  <1>0. entries' = entries
    BY DEF Run, Begin, MergeLevel, SignEnvelope, Refuse, Truncate, Write, Alter, WriteFails,
           Crash, RunAgain
  <1> DEFINE count(t) == IF entries[t] = <<>> THEN 1 ELSE Len(entries[t])
             OnTheWay(t, l) == /\ ~HasDuplicate(entries[t])
                               /\ MergesTo(LeafLevel(entries[t]), l)
                               /\ UnderAny(l) = ToSet(entries[t])
                               /\ \E n \in 1..count(t) : Len(l) = n /\ DOMAIN l = 1..n
  <1>1. \A t \in Scorers : pc[t] = "merge" => OnTheWay(t, level[t])
    BY DEF MergeInv
  <1>2. \A t \in Scorers : entries[t] \in Seq(Entry)
    BY DEF RunsInv, Entry
  <1>3. SUFFICES ASSUME NEW t \in Scorers, pc'[t] = "merge" PROVE OnTheWay(t, level'[t])
    BY <1>0, <1>3 DEF MergeInv
  <1>4. CASE Begin(s) /\ t = s
    <2>1. ~HasDuplicate(entries[t]) /\ level'[t] = LeafLevel(entries[t])
      BY <1>3, <1>4, RunsBegin
    <2>2. /\ count(t) \in Nat \ {0}
          /\ Len(LeafLevel(entries[t])) = count(t) /\ DOMAIN LeafLevel(entries[t]) = 1..count(t)
          /\ UnderAny(LeafLevel(entries[t])) = ToSet(entries[t])
      BY <1>2, <2>1, LeafLevelFacts
    <2>3. MergesTo(LeafLevel(entries[t]), LeafLevel(entries[t]))
      BY MergesToItself
    <2> HIDE DEF count
    <2>4. count(t) \in 1..count(t)
      BY <2>2
    <2> QED
      BY <2>1, <2>2, <2>3, <2>4
  <1>5. CASE MergeLevel(s) /\ t = s
    <2>1. pc[t] = "merge" /\ Len(level[t]) > 1 /\ level'[t] = NextLevel(level[t])
      BY <1>5 DEF MergeLevel, RunsInv
    <2>2. OnTheWay(t, level[t])
      BY <1>1, <2>1
    <2>3. PICK n \in 1..count(t) : Len(level[t]) = n /\ DOMAIN level[t] = 1..n
      BY <2>2
    <2>4. count(t) \in Nat /\ n \in Nat \ {0} /\ n <= count(t)
      <3>1. count(t) \in Nat
        BY <1>2
      <3> QED
        BY <2>3, <3>1
    <2>5. UnderAny(NextLevel(level[t])) = UnderAny(level[t])
      BY <2>3, <2>4, NextLevelKeeps
    <2>6. MergesTo(LeafLevel(entries[t]), NextLevel(level[t]))
      BY <2>1, <2>2, MergesOn
    <2>7. PICK m \in 1..n : Len(NextLevel(level[t])) = m /\ DOMAIN NextLevel(level[t]) = 1..m
      BY <2>3, <2>4, NextLevelFacts
    <2>8. m \in 1..count(t)
      <3> HIDE DEF count
      <3> QED
        BY <2>4, <2>7
    <2> QED
      BY <2>1, <2>2, <2>5, <2>6, <2>7, <2>8
  <1>6. CASE ~(t = s /\ (Begin(s) \/ MergeLevel(s)))
    <2>1. pc[t] = "merge" /\ level'[t] = level[t]
      <3>1. CASE t # s
        <4>1. pc'[t] = pc[t] /\ level'[t] = level[t]
          BY <3>1 DEF RunsInv, Goto, Forget, Run, Begin, MergeLevel, SignEnvelope, Refuse,
             Truncate, Write, Alter, WriteFails, Crash, RunAgain
        <4> QED
          BY <1>3, <4>1
      <3>2. CASE t = s
        <4>1. \/ SignEnvelope(s) \/ Refuse(s) \/ Truncate(s) \/ Write(s)
              \/ Alter(s) \/ WriteFails(s) \/ Crash(s) \/ RunAgain(s)
          BY <1>6, <3>2 DEF Run
        <4>2. pc'[s] # "merge"
          BY <4>1 DEF RunsInv, Goto, Forget, SignEnvelope, Refuse, Truncate, Write, Alter,
             WriteFails, Crash, RunAgain
        <4> QED
          BY <1>3, <3>2, <4>2
      <3> QED
        BY <3>1, <3>2
    <2> QED
      BY <1>1, <2>1
  <1> QED
    BY <1>4, <1>5, <1>6

\* A level of one hash is the root.
LEMMA LastLevel ==
    ASSUME RunsInv, MergeInv, NEW s \in Scorers, pc[s] = "merge", Len(level[s]) = 1
    PROVE  ~HasDuplicate(entries[s]) /\ IsRoot(entries[s], level[s][1])
  <1>1. /\ ~HasDuplicate(entries[s])
        /\ MergesTo(LeafLevel(entries[s]), level[s])
        /\ UnderAny(level[s]) = ToSet(entries[s])
    BY DEF MergeInv
  <1>2. DOMAIN level[s] = 1..1
    BY DEF MergeInv
  <1>3. Under(level[s][1]) = ToSet(entries[s])
    <2>1. UnderAny(level[s]) = UNION {Under(level[s][k]) : k \in 1..1}
      BY <1>2, Zenon DEF UnderAny
    <2>2. 1..1 = {1}
      OBVIOUS
    <2>3. UnderAny(level[s]) = UNION {Under(level[s][k]) : k \in {1}}
      BY <2>1, <2>2
    <2> HIDE DEF UnderAny
    <2>4. UNION {Under(level[s][k]) : k \in {1}} = Under(level[s][1])
      OBVIOUS
    <2> QED
      BY <1>1, <2>3, <2>4
  <1>4. level[s] = <<level[s][1]>>
    <2>1. PICK n, g : IsMergeFrom(LeafLevel(entries[s]), g, n) /\ g[n] = level[s]
      BY <1>1 DEF MergesTo
    <2>2. level[s] = [k \in 1..1 |-> level[s][k]]
      <3>1. n \in Nat
        BY <2>1 DEF IsMergeFrom
      <3>2. CASE n = 0
        <4>1. level[s] = LeafLevel(entries[s])
          BY <2>1, <3>2 DEF IsMergeFrom
        <4>2. CASE entries[s] = <<>>
          BY <1>2, <4>1, <4>2 DEF LeafLevel
        <4>3. CASE entries[s] # <<>>
          <5>1. level[s] = [k \in DOMAIN entries[s] |-> LeafHash(Sorted(entries[s])[k])]
            BY <4>1, <4>3 DEF LeafLevel
          <5> QED
            BY <1>2, <5>1
        <4> QED
          BY <4>2, <4>3
      <3>3. CASE n # 0
        <4>1. n - 1 \in 0..n /\ n - 1 < n /\ (n - 1) + 1 = n
          BY <3>1, <3>3
        <4>2. level[s] = NextLevel(g[n - 1])
          BY <2>1, <4>1 DEF IsMergeFrom
        <4> QED
          BY <1>2, <4>2 DEF NextLevel
      <3> QED
        BY <3>2, <3>3
    <2> QED
      BY <2>2
  <1> QED
    BY <1>1, <1>3, <1>4 DEF IsRoot

LEMMA HandStep ==
    ASSUME SignedInv, RunsInv, MergeInv, HandInv, Next
    PROVE  HandInv'
  <1> PICK s \in Scorers : Run(s) \/ Alter(s) \/ WriteFails(s) \/ Crash(s) \/ RunAgain(s)
    BY DEF Next
  <1>0. entries' = entries /\ ShapeInv /\ InHandIsSigned
    BY DEF Run, Begin, MergeLevel, SignEnvelope, Refuse, Truncate, Write, Alter, WriteFails,
           Crash, RunAgain, SignedInv
  <1> DEFINE Good(t, c) == /\ ~HasDuplicate(entries[t])
                           /\ IsRoot(entries[t], c.signature.digest[3])
             Fine(c) == IsWhole(c) /\ c.envelope.epoch \in Epochs
  <1>1. \A t \in Scorers : /\ pc[t] \in {"submit", "write"} => Good(t, commitment[t])
                           /\ pc[t] \in {"submit", "write", "done"} => Fine(commitment[t])
    BY DEF HandInv, Target
  <1>2. SUFFICES ASSUME NEW t \in Scorers
                 PROVE  /\ pc'[t] \in {"submit", "write"} => Good(t, commitment'[t])
                        /\ pc'[t] \in {"submit", "write", "done"} => Fine(commitment'[t])
    BY <1>0, <1>2 DEF HandInv, Target
  <1>3. CASE t # s
    <2>1. pc'[t] = pc[t] /\ commitment'[t] = commitment[t]
      BY <1>0, <1>3 DEF ShapeInv, Goto, Forget, Run, Begin, MergeLevel, SignEnvelope, Refuse,
                  Truncate, Write, Alter, WriteFails, Crash, RunAgain
    <2> QED
      BY <1>1, <2>1
  <1>4. CASE t = s /\ (Begin(s) \/ MergeLevel(s) \/ Refuse(s) \/ WriteFails(s)
                       \/ Crash(s) \/ RunAgain(s))
    <2>1. pc'[s] \notin {"submit", "write", "done"}
      BY <1>0, <1>4 DEF ShapeInv, Goto, Forget, Begin, MergeLevel, Refuse, WriteFails, Crash,
                  RunAgain
    <2> QED
      BY <1>4, <2>1
  <1>5. CASE t = s /\ SignEnvelope(s)
    <2>1. /\ pc[s] = "merge" /\ Len(level[s]) = 1
          /\ commitment'[s] = Sign(s, Envelope(s))
      BY <1>0, <1>5 DEF ShapeInv, SignEnvelope
    <2>2. ~HasDuplicate(entries[s]) /\ IsRoot(entries[s], level[s][1])
      BY <2>1, LastLevel
    <2> DEFINE c == Sign(s, Envelope(s))
    <2>3. c.signature.digest[3] = level[s][1]
      BY DEF Sign, Envelope, Digest
    <2>4. IsWhole(c) /\ c.envelope.epoch = EpochOfScorers
      BY DEF IsWhole, Sign, Envelope
    <2> HIDE DEF c
    <2> QED
      BY <1>5, <2>1, <2>2, <2>3, <2>4 DEF c
  <1>6. CASE t = s /\ Alter(s)
    <2>1. pc'[s] = "submit" /\ pc[s] = "submit"
          /\ commitment'[s] \in Alterations(commitment[s])
      BY <1>0, <1>6 DEF ShapeInv, Alter
    <2>2. IsWhole(commitment[s]) /\ commitment[s].envelope.epoch \in Epochs
      BY <1>1, <2>1
    <2>3. IsWhole(commitment'[s]) /\ commitment'[s].signature = commitment[s].signature
      BY <2>1, <2>2, AlterationFacts
    <2>4. commitment'[s].envelope.epoch \in Epochs
      BY <2>1, <2>2, AlteredEpoch
    <2> QED
      BY <1>1, <1>6, <2>1, <2>3, <2>4
  <1>7. CASE t = s /\ (Truncate(s) \/ Write(s))
    <2>1. /\ commitment'[s] = commitment[s]
          /\ pc[s] \in {"submit", "write"}
      BY <1>7 DEF Truncate, Write
    <2> QED
      BY <1>1, <1>7, <2>1
  <1> QED
    BY <1>3, <1>4, <1>5, <1>6, <1>7 DEF Run

\* What verifies is what its scorer would sign again.
LEMMA VerifiedIsExact ==
    ASSUME NEW s \in Scorers, NEW c, IsWhole(c), SignedBy(s, c.signature), Verifies(c),
           IsRoot(entries[s], c.signature.digest[3])
    PROVE  IsExact(s, c)
  <1> DEFINE root == c.signature.digest[3]
             envelope == [epoch |-> EpochOfScorers, root |-> root,
                          entryCount |-> Len(entries[s]), totalScore |-> TotalScore(entries[s])]
  <1>1. c.signature = [signer |-> s,
                       digest |-> <<"commit", EpochOfScorers, root, Len(entries[s]),
                                    TotalScore(entries[s])>>]
    BY DEF SignedBy
  <1>2. c.signature = [signer |-> c.key, digest |-> Digest(c.envelope)]
    BY DEF Verifies
  <1>3. /\ c.key = s /\ c.envelope.epoch = EpochOfScorers
        /\ c.envelope.entryCount = Len(entries[s])
        /\ c.envelope.totalScore = TotalScore(entries[s])
    BY VerifiedIsSigned
  <1>4. c.envelope.root = root
    <2>1. Digest(c.envelope)[3] = c.envelope.root
      BY DEF Digest
    <2> HIDE DEF root
    <2>2. c.signature.digest = Digest(c.envelope)
      BY <1>2
    <2> QED
      BY <2>1, <2>2 DEF root
  <1> HIDE DEF root
  <1>5. c.envelope = envelope
    BY <1>3, <1>4 DEF IsWhole
  <1>6. c.signature = [signer |-> s, digest |-> Digest(envelope)]
    BY <1>2, <1>3, <1>5
  <1>7. c = Sign(s, envelope)
    BY <1>3, <1>5, <1>6 DEF IsWhole, Sign
  <1> QED
    BY <1>7 DEF IsExact, root


\* What a run is about to write is exact: it has been verified.
LEMMA WrittenIsExact ==
    ASSUME SignedInv, HandInv, NEW s \in Scorers, pc[s] = "write"
    PROVE  ~HasDuplicate(entries[s]) /\ IsExact(s, commitment[s])
  <1>1. /\ IsWhole(commitment[s]) /\ SignedBy(s, commitment[s].signature)
        /\ Verifies(commitment[s])
    BY DEF SignedInv, InHandIsSigned
  <1>2. ~HasDuplicate(entries[s]) /\ IsRoot(entries[s], commitment[s].signature.digest[3])
    BY DEF HandInv
  <1> QED
    BY <1>1, <1>2, VerifiedIsExact

\* What is in a file or was published is never anything but exact.
LEMMA FilesStep ==
    ASSUME SignedInv, RunsInv, HandInv, PublishedInv, Next
    PROVE  PublishedInv'
  <1> PICK s \in Scorers : Run(s) \/ Alter(s) \/ WriteFails(s) \/ Crash(s) \/ RunAgain(s)
    BY DEF Next
  <1>0. entries' = entries /\ ShapeInv /\ InHandIsSigned
    BY DEF Run, Begin, MergeLevel, SignEnvelope, Refuse, Truncate, Write, Alter, WriteFails,
           Crash, RunAgain, SignedInv
  <1> DEFINE Exact(t, c) == ~HasDuplicate(entries[t]) /\ IsExact(t, c)
  <1>1. \A t \in Scorers : /\ published[t] # None => Exact(t, published[t])
                           /\ \A e \in Epochs : IsCommitment(file[t][e]) => Exact(t, file[t][e])
    BY DEF PublishedInv
  <1>2. SUFFICES ASSUME NEW t \in Scorers
                 PROVE  /\ published'[t] # None => Exact(t, published'[t])
                        /\ \A e \in Epochs :
                              IsCommitment(file'[t][e]) => Exact(t, file'[t][e])
    BY <1>0, <1>2 DEF PublishedInv, IsExact, IsCommitment
  <1> HIDE DEF Exact
  <1>3. CASE UNCHANGED <<file, published>>
    BY <1>1, <1>3 DEF IsCommitment
  <1>4. CASE Truncate(s)
    <2>1. published' = published
      BY <1>4 DEF Truncate
    <2>2. \A e \in Epochs : file'[t][e] \in {file[t][e], Torn}
      BY <1>0, <1>4 DEF ShapeInv, Truncate
    <2> QED
      BY <1>1, <2>1, <2>2 DEF IsCommitment
  <1>5. CASE Write(s)
    <2>1. pc[s] = "write"
      BY <1>5 DEF Write
    <2>2. Exact(s, commitment[s])
      BY <2>1, WrittenIsExact DEF Exact
    <2>3. published' = [published EXCEPT ![s] = commitment[s]]
      BY <1>5 DEF Write
    <2>4. published'[t] = published[t] \/ (t = s /\ published'[t] = commitment[s])
      BY <2>3 DEF RunsInv
    <2>5. \A e \in Epochs : \/ file'[t][e] = file[t][e]
                            \/ t = s /\ file'[t][e] = commitment[s]
      BY <1>0, <1>5 DEF ShapeInv, Write
    <2> QED
      BY <1>1, <2>2, <2>4, <2>5
  <1> QED
    BY <1>3, <1>4, <1>5 DEF Run, Begin, MergeLevel, SignEnvelope, Refuse, Alter, WriteFails,
                            Crash, RunAgain

LEMMA RootStep == RootInv /\ [Next]_vars => RootInv'
  <1> SUFFICES ASSUME RootInv, [Next]_vars PROVE RootInv'
    OBVIOUS
  <1>1. SignedInv' /\ RunsInv'
    BY SignedStep, RunsStep DEF RootInv
  <1>2. CASE Next
    <2>1. MergeInv' /\ HandInv' /\ PublishedInv'
      BY <1>2, MergeStep, HandStep, FilesStep DEF RootInv
    <2> QED
      BY <1>1, <2>1 DEF RootInv
  <1>3. CASE UNCHANGED vars
    <2>1. /\ entries' = entries /\ pc' = pc /\ level' = level /\ commitment' = commitment
          /\ file' = file /\ published' = published
      BY <1>3 DEF vars
    <2>2. MergeInv'
      BY <2>1 DEF RootInv, MergeInv
    <2>3. HandInv'
      BY <2>1 DEF RootInv, HandInv, Target
    <2>4. PublishedInv'
      BY <2>1 DEF RootInv, PublishedInv, IsExact
    <2> QED
      BY <1>1, <2>2, <2>3, <2>4 DEF RootInv
  <1> QED
    BY <1>2, <1>3

LEMMA RootAlways == Spec => []RootInv
  BY RootInit, RootStep, PTL DEF Spec

-----------------------------------------------------------------------------
(* The theorems                                                            *)

\* TypeOK: score_root merges at least one and at most as many hashes as there
\* are entries, and what is submitted, whatever was altered, is a whole
\* commitment that names one of the epochs.
THEOREM TypeCorrect == Spec => []TypeOK
  <1>1. RootInv => TypeOK
    <2> SUFFICES ASSUME RootInv PROVE TypeOK
      OBVIOUS
    <2>1. /\ entries \in [Scorers -> EntryLists]
          /\ pc \in [Scorers -> Running \cup {"idle", "failed", "done"}]
          /\ faults \in 0..MaxFaults
      BY DEF RootInv, RunsInv
    <2>2. ASSUME NEW s \in Scorers, pc[s] = "merge"
          PROVE  Len(level[s]) \in 1..Len(entries[s]) \cup {1}
      <3>1. PICK n \in 1..(IF entries[s] = <<>> THEN 1 ELSE Len(entries[s])) :
                    Len(level[s]) = n
        BY <2>2 DEF RootInv, MergeInv
      <3>2. n \in 1..Len(entries[s]) \/ n = 1
        BY <3>1
      <3> QED
        BY <3>1, <3>2
    <2>3. ASSUME NEW s \in Scorers, pc[s] \in {"submit", "write", "done"}
          PROVE  /\ DOMAIN commitment[s] = {"envelope", "key", "signature"}
                 /\ Target(s) \in Epochs
      <3>1. IsWhole(commitment[s]) /\ Target(s) \in Epochs
        BY <2>3 DEF RootInv, HandInv
      <3>2. DOMAIN commitment[s] = {"envelope", "key", "signature"}
        BY <3>1 DEF IsWhole
      <3> QED
        BY <3>1, <3>2
    <2> QED
      BY <2>1, <2>2, <2>3 DEF TypeOK
  <1> QED
    BY <1>1, RootAlways, PTL

\* PublishedRootsDecide: two published roots are equal exactly when the entries
\* are, for lists of every length, in every order, and as many scorers, crashes
\* and failed or altered publications as there may be; and no list with an
\* identity twice has a published root.
THEOREM RootsDecideScores == Spec => []PublishedRootsDecide
  <1>1. RootInv => PublishedRootsDecide
    <2> SUFFICES ASSUME RootInv,
                        NEW s \in Scorers, NEW t \in Scorers, NEW e \in Epochs,
                        IsCommitment(file[s][e]), IsCommitment(file[t][e])
                 PROVE  /\ (file[s][e].envelope.root = file[t][e].envelope.root)
                              <=> (ToSet(entries[s]) = ToSet(entries[t]))
                        /\ ~HasDuplicate(entries[s])
      BY DEF PublishedRootsDecide
    <2>1. /\ ~HasDuplicate(entries[s]) /\ IsExact(s, file[s][e])
          /\ ~HasDuplicate(entries[t]) /\ IsExact(t, file[t][e])
      BY DEF RootInv, PublishedInv
    <2>2. PICK r : IsRoot(entries[s], r) /\ file[s][e].envelope.root = r
      BY <2>1 DEF IsExact, Sign
    <2>3. PICK q : IsRoot(entries[t], q) /\ file[t][e].envelope.root = q
      BY <2>1 DEF IsExact, Sign
    <2>4. entries[s] \in Seq(Entry) /\ entries[t] \in Seq(Entry)
      BY DEF RootInv, RunsInv, Entry
    <2>5. r = q <=> ToSet(entries[s]) = ToSet(entries[t])
      BY <2>1, <2>2, <2>3, <2>4, RootsDecide
    <2> QED
      BY <2>1, <2>2, <2>3, <2>5
  <1> QED
    BY <1>1, RootAlways, PTL

\* RerunPublishesTheSame: a scorer that is run again publishes the commitment
\* it has published, in whatever order it has the entries this time and
\* whatever failed in between.
THEOREM RerunsAgree == Spec => RerunPublishesTheSame
  <1>1. ASSUME RootInv, [Next]_vars
        PROVE  \A s \in Scorers : published[s] # None => published'[s] = published[s]
    <2> SUFFICES ASSUME NEW s \in Scorers, published[s] # None
                 PROVE  published'[s] = published[s]
      OBVIOUS
    <2>1. entries' = entries
      BY <1>1 DEF vars, Next, Run, Begin, MergeLevel, SignEnvelope, Refuse, Truncate, Write,
                  Alter, WriteFails, Crash, RunAgain
    <2>2. CASE published' = published
      BY <2>2
    <2>3. CASE Write(s)
      <3>1. pc[s] = "write" /\ published'[s] = commitment[s]
        BY <1>1, <2>3 DEF Write, RootInv, RunsInv
      <3>2. ~HasDuplicate(entries[s]) /\ IsExact(s, published[s])
        BY <1>1 DEF RootInv, PublishedInv
      <3>3. IsExact(s, commitment[s])
        BY <1>1, <3>1, WrittenIsExact DEF RootInv
      <3>4. entries[s] \in Seq(Entry)
        BY <1>1 DEF RootInv, RunsInv, Entry
      <3>5. PICK r : /\ IsRoot(entries[s], r)
                     /\ published[s] = Sign(s, [epoch |-> EpochOfScorers, root |-> r,
                                                entryCount |-> Len(entries[s]),
                                                totalScore |-> TotalScore(entries[s])])
        BY <3>2 DEF IsExact
      <3>6. PICK q : /\ IsRoot(entries[s], q)
                     /\ commitment[s] = Sign(s, [epoch |-> EpochOfScorers, root |-> q,
                                                 entryCount |-> Len(entries[s]),
                                                 totalScore |-> TotalScore(entries[s])])
        BY <3>3 DEF IsExact
      <3>7. r = q
        BY <3>2, <3>4, <3>5, <3>6, RootsDecide
      <3> QED
        BY <3>1, <3>5, <3>6, <3>7
    <2>4. ASSUME NEW t \in Scorers, t # s, Write(t) PROVE published'[s] = published[s]
      BY <1>1, <2>4 DEF Write, RootInv, RunsInv
    <2> QED
      BY <1>1, <2>2, <2>3, <2>4
      DEF vars, Next, Run, Begin, MergeLevel, SignEnvelope, Refuse, Truncate, Alter, WriteFails,
          Crash, RunAgain
  <1> QED
    BY <1>1, RootAlways, PTL DEF Spec, RerunPublishesTheSame
=============================================================================
