--------------------------- MODULE ShadowScoring ---------------------------
(***************************************************************************)
(* Runs of the aipow command (run() of crates/aipow-cli) over a tosctld    *)
(* server: the arguments are parsed, the source is read (Tosctld), the     *)
(* epoch is scored (EpochScore, here one step that may abort), its root is *)
(* signed and published (Commitment, here as far as the file goes), and    *)
(* the result is printed.  Several processes run at once, with the same    *)
(* arguments but for the epoch: they sign with one seed and publish to one *)
(* directory.  Each may fail or be killed at any step, and be started      *)
(* again for this epoch or another.                                        *)
(*                                                                         *)
(* The score root is named by the units it was computed from: EpochScore   *)
(* shows that it depends on nothing else, Commitment that it tells         *)
(* different scores apart.                                                 *)
(***************************************************************************)
EXTENDS Tosctld

CONSTANTS
    MaxScored,    \* a sum of more units than this overflows
    MaxFaults,    \* bound: kills, failed writes and failed prints
    Torn          \* a file that does not parse

ASSUME ShadowAssumption == MaxScored \in Nat /\ MaxFaults \in Nat

VARIABLES
    step,      \* scorer -> what its run does next
    file,      \* epoch -> aipow-commitment-epoch-<n>.json
    printed,   \* history: the epochs and roots that were printed
    faults     \* how many faults there were

runVars == <<step, file, printed, faults>>
shadowVars == <<vars, runVars>>

Steps == {"start", "source", "open", "write", "print"}

\* The commitment in a file, by what it commits to; it is whole unless the end
\* of another one shows behind it.
IsPublished(c) ==
    /\ c = [units |-> c.units, whole |-> c.whole]
    /\ IsUnits(c.units) /\ c.whole \in BOOLEAN

ShadowTypeOK ==
    /\ TypeOK
    /\ step \in [Scorers -> Steps]
    /\ DOMAIN file = Epochs
    /\ \A e \in Epochs : file[e] \in {None, Torn} \/ IsPublished(file[e])
    /\ \A x \in printed : x.epoch \in Epochs /\ IsUnits(x.units)
    /\ faults \in 0..MaxFaults
    /\ \A s \in Scorers :
          /\ step[s] = "start" <=> pc[s] = "idle"
          /\ step[s] \in {"open", "write", "print"} => outcome[s] = "Ok"

ShadowInit ==
    /\ Init
    /\ step = [s \in Scorers |-> "start"]
    /\ file = [e \in Epochs |-> None]
    /\ printed = {}
    /\ faults = 0

Goto(s, next) == step' = [step EXCEPT ![s] = next]

Fault == faults < MaxFaults /\ faults' = faults + 1

\* The run is over: nothing but what it has written and printed outlives it.
Exit(s) ==
    /\ Goto(s, "start")
    /\ pc' = [pc EXCEPT ![s] = "idle"]
    /\ epoch' = [epoch EXCEPT ![s] = 0]
    /\ events' = [events EXCEPT ![s] = <<>>]
    /\ page' = [page EXCEPT ![s] = 0]
    /\ outcome' = [outcome EXCEPT ![s] = None]
    /\ units' = [units EXCEPT ![s] = <<>>]
    /\ UNCHANGED serverVars

-----------------------------------------------------------------------------
(* The server, and the run up to its source's answer                       *)

Server == (Observe \/ Pass) /\ UNCHANGED runVars

\* parse_args has accepted the arguments.  (What of them is used later is
\* chosen where it is used.)
BeginRun(s) ==
    /\ step[s] = "start"
    /\ Start(s)
    /\ Goto(s, "source")
    /\ UNCHANGED <<file, printed, faults>>

ReadSource(s) == step[s] = "source" /\ Call(s) /\ UNCHANGED runVars

SourceFails(s) ==
    /\ step[s] = "source"
    /\ outcome[s] \in Errors
    /\ Exit(s)
    /\ UNCHANGED <<file, printed, faults>>

-----------------------------------------------------------------------------
(* From the units to the output                                            *)

Scores(s) == step[s] = "source" /\ outcome[s] = "Ok" /\ Cardinality(DOMAIN units[s]) <= MaxScored

\* epoch_data has returned, and so have valued_units to score_root.  The run has
\* a directory and a seed, or no directory.
Score(s) ==
    /\ Scores(s)
    /\ \E to \in {"open", "print"} : Goto(s, to)
    /\ events' = [events EXCEPT ![s] = <<>>]
    /\ page' = [page EXCEPT ![s] = 0]
    /\ UNCHANGED <<serverVars, pc, epoch, outcome, units, file, printed, faults>>

\* A stage of the pipeline aborts the epoch.
ScoreFails(s) ==
    /\ step[s] = "source"
    /\ outcome[s] = "Ok"
    /\ ~Scores(s)
    /\ Exit(s)
    /\ UNCHANGED <<file, printed, faults>>

\* There is a directory, and no seed or one that is not 32 bytes in hex: that
\* is only looked at when the epoch is scored, and the result is not printed.
MissingSeed(s) ==
    /\ Scores(s)
    /\ Exit(s)
    /\ UNCHANGED <<file, printed, faults>>

\* FileSubmitter: fs::write opens the file and truncates it.
Open(s) ==
    /\ step[s] = "open"
    /\ file' = [file EXCEPT ![epoch[s]] = Torn]
    /\ Goto(s, "write")
    /\ UNCHANGED <<vars, printed, faults>>

\* What is in a file that held `old` after a commitment is written from its
\* start on: another process may have written since this one has truncated it.
\* Commitments to one root, signed with one seed, are the same bytes; of another
\* one an end may be left.  (A torn file is taken for one that is covered.)
Overwrite(old, us) ==
    IF old \in {None, Torn} \/ (old.whole /\ old.units = us)
    THEN {[units |-> us, whole |-> TRUE]}
    ELSE {[units |-> us, whole |-> w] : w \in BOOLEAN}

\* What is in it if the commitment is only partly written: the start of bytes
\* that are there already changes nothing.
PartlyOver(old, us) ==
    IF old \in {None, Torn} THEN {Torn}
    ELSE IF old.whole /\ old.units = us THEN {old}
    ELSE {Torn, [units |-> us, whole |-> FALSE]}

Write(s) ==
    /\ step[s] = "write"
    /\ \E f \in Overwrite(file[epoch[s]], units[s]) : file' = [file EXCEPT ![epoch[s]] = f]
    /\ Goto(s, "print")
    /\ UNCHANGED <<vars, printed, faults>>

\* The file cannot be opened; or it was opened, and is not or partly written.
WriteFails(s) ==
    /\ step[s] \in {"open", "write"}
    /\ Fault
    /\ \/ UNCHANGED file
       \/ /\ step[s] = "write"
          /\ \E f \in PartlyOver(file[epoch[s]], units[s]) :
                file' = [file EXCEPT ![epoch[s]] = f]
    /\ Exit(s)
    /\ UNCHANGED printed

\* The result is printed after the commitment is published.
PrintResult(s) ==
    /\ step[s] = "print"
    /\ printed' = printed \cup {[epoch |-> epoch[s], units |-> units[s]]}
    /\ Exit(s)
    /\ UNCHANGED <<file, faults>>

\* The process is killed, or panics as println! does when nobody reads.
Kill(s) ==
    /\ step[s] # "start"
    /\ Fault
    /\ Exit(s)
    /\ UNCHANGED <<file, printed>>

Run(s) ==
    \/ ReadSource(s) \/ SourceFails(s) \/ Score(s) \/ ScoreFails(s) \/ MissingSeed(s)
    \/ Open(s) \/ Write(s) \/ PrintResult(s)

ShadowNext ==
    \/ Server
    \/ \E s \in Scorers : BeginRun(s) \/ Run(s) \/ WriteFails(s) \/ Kill(s)

ShadowSpec == ShadowInit /\ [][ShadowNext]_shadowVars

\* A process that runs goes on.
ShadowFairSpec == ShadowSpec /\ \A s \in Scorers : WF_shadowVars(Run(s))

-----------------------------------------------------------------------------
\* What an epoch has been said to be: by a source's answer, on a terminal or
\* in a file.
Results ==
    printed
    \cup {[epoch |-> epoch[s], units |-> units[s]] : s \in {t \in Scorers : outcome[t] = "Ok"}}
    \cup {[epoch |-> e, units |-> file[e].units] :
             e \in {f \in Epochs : file[f] \notin {None, Torn} /\ file[f].whole}}

\* tosctld.rs, lines 13-17.  Whatever a run over a past epoch was served, has
\* printed or has published is the whole of that epoch, now and later; so all
\* results of an epoch agree, of whichever process, before or after failures,
\* kills and further runs.
ResultsAreComplete == \A x \in Results : AreComplete(x.units, x.epoch)

\* Processes that publish an epoch to one directory at the same time do not
\* leave a file mixed of two commitments: one that is read is torn or whole.
\* (They truncate and overwrite each other; only because they agree, the bytes
\* are as long.)
FilesAreNeverMixed ==
    \A e \in Epochs : file[e] \notin {None, Torn} => file[e].whole

\* A run ends, however fast the list grows and whatever the others do.
RunsEnd == \A s \in Scorers : step[s] = "source" ~> step[s] = "start"

-----------------------------------------------------------------------------
(* What the results rest on                                                *)

\* What is in a file or was printed is the whole of an epoch that is over.
OutputInv ==
    /\ \A e \in Epochs :
          file[e] \notin {None, Torn} =>
              /\ file[e].whole
              /\ e < Bucket(now)
              /\ AreComplete(file[e].units, e)
    /\ \A x \in printed : x.epoch < Bucket(now) /\ AreComplete(x.units, x.epoch)

ShadowInv == ShadowTypeOK /\ RowsInv /\ CallInv /\ (OnlyPastEpochs => OutputInv)
=============================================================================
