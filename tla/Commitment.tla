----------------------------- MODULE Commitment -----------------------------
(***************************************************************************)
(* The commitment of one epoch (crates/aipow-commitment): score_root over  *)
(* the scored entries, the signed envelope, and FileSubmitter, which       *)
(* publishes it, as run() of aipow-cli calls them.  A scorer may crash at  *)
(* any step, a file operation may fail, and an operator runs it again.     *)
(*                                                                         *)
(* SHA-256 and ed25519 are ideal: a hash is the term that is hashed, with  *)
(* its domain prefix, and a signature is its signer and the digest.  Each  *)
(* scorer publishes to a directory of its own.                             *)
(***************************************************************************)
EXTENDS Integers, Sequences, FiniteSetsExt, SequencesExt

CONSTANTS
    Scorers,
    EntryLists,      \* the inputs: sequences of entries
    Orders,          \* the inputs: n -> permutations of 1..n
    Epochs,          \* the epochs an envelope may name
    EpochOfScorers,  \* the epoch they score
    MaxFaults,       \* bound: crashes, failed file operations and alterations
    None,            \* no file, no commitment yet
    Torn,            \* a file that was truncated and not written
    BadHex           \* a score_root_hex that does not decode

ASSUME CommitmentAssumption ==
    /\ EpochOfScorers \in Epochs
    /\ MaxFaults \in Nat
    /\ EntryLists \subseteq Seq([identity : Int, score : Nat])
    /\ \A list \in EntryLists :
          Orders[Len(list)] \subseteq Bijection(DOMAIN list, DOMAIN list)

VARIABLES
    entries,      \* scorer -> the merged scores of the epoch
    pc,           \* scorer -> what its run does next
    level,        \* scorer -> score_root's level of the tree
    commitment,   \* scorer -> the SignedCommitment in hand, or None
    file,         \* scorer -> epoch -> the published file: None, Torn or a commitment
    published,    \* history: scorer -> the commitment it last wrote, or None
    faults        \* how many faults there were

vars == <<entries, pc, level, commitment, file, published, faults>>

Running == {"merge", "submit", "write"}

Init ==
    /\ entries \in [Scorers -> EntryLists]
    /\ pc = [s \in Scorers |-> "idle"]
    /\ level = [s \in Scorers |-> <<>>]
    /\ commitment = [s \in Scorers |-> None]
    /\ file = [s \in Scorers |-> [e \in Epochs |-> None]]
    /\ published = [s \in Scorers |-> None]
    /\ faults = 0

Goto(s, label) == pc' = [pc EXCEPT ![s] = label]

Fault == faults < MaxFaults /\ faults' = faults + 1

-----------------------------------------------------------------------------
(* score_root                                                              *)

LeafHash(entry) == <<"leaf", entry.identity, entry.score>>
NodeHash(left, right) == <<"node", left, right>>
EmptyRoot == <<"empty">>

\* Mutant: the entries are hashed in the order they come in.
MutantSorted(list) == list

\* The k-th entry is the one that k - 1 others precede: a list of different
\* identities, sorted.
Sorted(list) ==
    LET before(e) == {x \in ToSet(list) : x.identity < e.identity}
    IN  [k \in DOMAIN list |->
            CHOOSE e \in ToSet(list) : Cardinality(before(e)) = k - 1]

HasDuplicate(list) ==
    \E i, j \in DOMAIN list : i # j /\ list[i].identity = list[j].identity

\* Mutant: the empty list is not a case of its own.
MutantIsEmpty(list) == FALSE

IsEmpty(list) == list = <<>>

\* Mutant: the odd node is lost.
MutantNextLevel(l) ==
    [k \in 1..(Len(l) \div 2) |-> NodeHash(l[2 * k - 1], l[2 * k])]

\* Pairs are hashed; an odd last node is promoted as it is.
NextLevel(l) ==
    [k \in 1..((Len(l) + 1) \div 2) |->
        IF 2 * k <= Len(l) THEN NodeHash(l[2 * k - 1], l[2 * k]) ELSE l[2 * k - 1]]

\* The entries of a list in other orders.
Reorderings(list) == {[i \in DOMAIN list |-> list[f[i]]] : f \in Orders[Len(list)]}

\* A run calls score_root on its entries, which another implementation may
\* list in another order.
Begin(s) ==
    /\ pc[s] = "idle"
    /\ \E list \in Reorderings(entries[s]) :
          LET reject == ~IsEmpty(list) /\ HasDuplicate(list)
              sorted == Sorted(list)
          IN  /\ level' = [level EXCEPT ![s] =
                    IF IsEmpty(list) THEN <<EmptyRoot>>
                    ELSE IF reject THEN <<>>
                    ELSE [k \in DOMAIN list |-> LeafHash(sorted[k])]]
              /\ Goto(s, IF reject THEN "failed" ELSE "merge")
    /\ UNCHANGED <<entries, commitment, file, published, faults>>

MergeLevel(s) ==
    /\ pc[s] = "merge"
    /\ Len(level[s]) > 1
    /\ level' = [level EXCEPT ![s] = NextLevel(@)]
    /\ UNCHANGED <<entries, pc, commitment, file, published, faults>>

-----------------------------------------------------------------------------
(* CommitmentEnvelope and SignedCommitment                                 *)

TotalScore(list) == MapThenSumSet(LAMBDA k : list[k].score, DOMAIN list)

Envelope(s) ==
    [epoch |-> EpochOfScorers, root |-> level[s][1], entryCount |-> Len(entries[s]),
     totalScore |-> TotalScore(entries[s])]

\* Mutant: the canonical bytes leave out the epoch.
MutantDigest(envelope) == <<"commit", envelope.root, envelope.entryCount,
                            envelope.totalScore>>

\* canonical_bytes and digest.  (The methodology version and the organic value,
\* which are encoded the same way, are left out.)
Digest(envelope) == <<"commit", envelope.epoch, envelope.root, envelope.entryCount,
                      envelope.totalScore>>

Sign(s, envelope) ==
    [envelope |-> envelope, key |-> s,
     signature |-> [signer |-> s, digest |-> Digest(envelope)]]

\* SignedCommitment::verify.
Verifies(c) ==
    /\ c.envelope.root # BadHex
    /\ c.signature = [signer |-> c.key, digest |-> Digest(c.envelope)]

\* The root is the last level's only node; the run signs its envelope.
SignEnvelope(s) ==
    /\ pc[s] = "merge"
    /\ Len(level[s]) = 1
    /\ commitment' = [commitment EXCEPT ![s] = Sign(s, Envelope(s))]
    /\ Goto(s, "submit")
    /\ UNCHANGED <<entries, level, file, published, faults>>

\* submit takes any commitment, one that was altered since it was signed too.
Alterations(c) ==
    {[c EXCEPT !.envelope.epoch = e] : e \in Epochs}
    \cup {[c EXCEPT !.envelope.root = r] : r \in {BadHex, EmptyRoot}}
    \cup {[c EXCEPT !.envelope.totalScore = @ + 1]}
    \cup {[c EXCEPT !.key = k] : k \in Scorers}

Alter(s) ==
    /\ pc[s] = "submit"
    /\ Fault
    /\ \E c \in Alterations(commitment[s]) : commitment' = [commitment EXCEPT ![s] = c]
    /\ UNCHANGED <<entries, pc, level, file, published>>

-----------------------------------------------------------------------------
(* FileSubmitter::submit.  fs::write truncates the file, then writes it.   *)

Target(s) == commitment[s].envelope.epoch

Refuse(s) ==
    /\ pc[s] = "submit"
    /\ ~Verifies(commitment[s])
    /\ Goto(s, "failed")
    /\ UNCHANGED <<entries, level, commitment, file, published, faults>>

\* Mutant: a file that is there is taken for a finished publication.
MutantTruncate(s) ==
    /\ pc[s] = "submit"
    /\ Verifies(commitment[s])
    /\ IF file[s][Target(s)] = None
       THEN /\ file' = [file EXCEPT ![s][Target(s)] = Torn]
            /\ Goto(s, "write")
       ELSE Goto(s, "done") /\ UNCHANGED file
    /\ UNCHANGED <<entries, level, commitment, published, faults>>

Truncate(s) ==
    /\ pc[s] = "submit"
    /\ Verifies(commitment[s])
    /\ file' = [file EXCEPT ![s][Target(s)] = Torn]
    /\ Goto(s, "write")
    /\ UNCHANGED <<entries, level, commitment, published, faults>>

Write(s) ==
    /\ pc[s] = "write"
    /\ file' = [file EXCEPT ![s][Target(s)] = commitment[s]]
    /\ published' = [published EXCEPT ![s] = commitment[s]]
    /\ Goto(s, "done")
    /\ UNCHANGED <<entries, level, commitment, faults>>

\* The file cannot be opened, or cannot be written once it is truncated.
WriteFails(s) ==
    /\ \/ pc[s] = "submit" /\ Verifies(commitment[s])
       \/ pc[s] = "write"
    /\ Fault
    /\ Goto(s, "failed")
    /\ UNCHANGED <<entries, level, commitment, file, published>>

-----------------------------------------------------------------------------
\* Nothing but the files outlives a run.
Forget(s) ==
    /\ Goto(s, "idle")
    /\ level' = [level EXCEPT ![s] = <<>>]
    /\ commitment' = [commitment EXCEPT ![s] = None]

Crash(s) ==
    /\ pc[s] \in Running
    /\ Fault
    /\ Forget(s)
    /\ UNCHANGED <<entries, file, published>>

RunAgain(s) ==
    /\ pc[s] \in {"failed", "done"}
    /\ Forget(s)
    /\ UNCHANGED <<entries, file, published, faults>>

Run(s) ==
    \/ Begin(s) \/ MergeLevel(s) \/ SignEnvelope(s)
    \/ Refuse(s) \/ Truncate(s) \/ Write(s)

Next ==
    \E s \in Scorers :
        Run(s) \/ Alter(s) \/ WriteFails(s) \/ Crash(s) \/ RunAgain(s)

Spec == Init /\ [][Next]_vars

\* A run goes on, and a failed or crashed one is run again.
FairSpec ==
    /\ Spec
    /\ \A s \in Scorers : WF_vars(Run(s)) /\ WF_vars(pc[s] = "failed" /\ RunAgain(s))

-----------------------------------------------------------------------------
IsCommitment(f) == f \notin {None, Torn}

TypeOK ==
    /\ entries \in [Scorers -> EntryLists]
    /\ pc \in [Scorers -> Running \cup {"idle", "failed", "done"}]
    /\ \A s \in Scorers :
          /\ pc[s] = "merge" => Len(level[s]) \in 1..Len(entries[s]) \cup {1}
          /\ pc[s] \in {"submit", "write", "done"} =>
                /\ DOMAIN commitment[s] = {"envelope", "key", "signature"}
                /\ Target(s) \in Epochs
    /\ faults \in 0..MaxFaults

\* Comparing published roots decides whether two scorers have the same scores:
\* the roots are equal exactly when the entries are, in whatever order either
\* lists them and however many there are; and a list with an identity twice
\* is never published.
PublishedRootsDecide ==
    \A s, t \in Scorers : \A e \in Epochs :
        IsCommitment(file[s][e]) /\ IsCommitment(file[t][e]) =>
            /\ (file[s][e].envelope.root = file[t][e].envelope.root)
                  <=> (ToSet(entries[s]) = ToSet(entries[t]))
            /\ ~HasDuplicate(entries[s])

\* A file that can be read is what its scorer signed for the epoch in the
\* file's name: what was altered on the way to submit is in no file.
PublishedIsSigned ==
    \A s \in Scorers : \A e \in Epochs :
        IsCommitment(file[s][e]) =>
            /\ e = EpochOfScorers
            /\ file[s][e].key = s
            /\ file[s][e].envelope.epoch = e
            /\ file[s][e].envelope.entryCount = Len(entries[s])
            /\ file[s][e].envelope.totalScore = TotalScore(entries[s])

\* Running a scorer again, after success, failure or a crash, publishes the
\* very commitment that an earlier run did, if one did: it does not depend on
\* the order in which a run has the entries.
RerunPublishesTheSame ==
    [][\A s \in Scorers : published[s] # None => published'[s] = published[s]]_vars

\* A torn file, which a crash or a failed write has left, is written at last.
TornIsRepaired ==
    \A s \in Scorers :
        file[s][EpochOfScorers] = Torn ~> IsCommitment(file[s][EpochOfScorers])

-----------------------------------------------------------------------------
(* What PublishedIsSigned rests on                                         *)

\* A record with the fields of a commitment, whatever they hold.
IsWhole(c) ==
    /\ c = [envelope |-> c.envelope, key |-> c.key, signature |-> c.signature]
    /\ c.envelope = [epoch |-> c.envelope.epoch, root |-> c.envelope.root,
                     entryCount |-> c.envelope.entryCount,
                     totalScore |-> c.envelope.totalScore]

\* The signature is the scorer's, of its epoch, its entries and some root.
SignedBy(s, signature) ==
    LET root == signature.digest[3]
    IN  signature = [signer |-> s,
                     digest |-> <<"commit", EpochOfScorers, root, Len(entries[s]),
                                  TotalScore(entries[s])>>]

\* Whatever is altered of a commitment, its signature is not; and what is
\* written has been verified.
InHandIsSigned ==
    \A s \in Scorers :
        /\ pc[s] \in {"submit", "write"} =>
              IsWhole(commitment[s]) /\ SignedBy(s, commitment[s].signature)
        /\ pc[s] = "write" => Verifies(commitment[s])

ShapeInv ==
    /\ pc = [s \in Scorers |-> pc[s]]
    /\ commitment = [s \in Scorers |-> commitment[s]]
    /\ file = [s \in Scorers |-> file[s]]
    /\ \A s \in Scorers : file[s] = [e \in Epochs |-> file[s][e]]

SignedInv == ShapeInv /\ InHandIsSigned /\ PublishedIsSigned
=============================================================================
