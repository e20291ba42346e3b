------------------------------ MODULE Tosctld ------------------------------
(***************************************************************************)
(* TosctldSource (crates/aipow-indexer/src/tosctld.rs): scorers that page  *)
(* through the settled-work list of a tosctld server, which goes on        *)
(* growing while they do.                                                  *)
(*                                                                         *)
(* The server is external; what is modelled of it is what fetch_all relies *)
(* on: rows are appended at the end of the list with the time they are     *)
(* observed at, a page is what follows the asked offset, of at most a page *)
(* limit, and the total is the length of the list.                         *)
(***************************************************************************)
EXTENDS Integers, Sequences, SequencesExt

CONSTANTS
    Scorers,          \* the scorers that read the list
    EpochSeconds,     \* TosctldSource::epoch_seconds
    PageLimit,        \* PAGE_LIMIT
    MaxPages,         \* MAX_PAGES
    OnlyPastEpochs,   \* environment: do operators score past epochs only?
    MaxRows,          \* bound: the length of the list
    MaxTime,          \* bound: the server's clock
    None

ASSUME TosctldAssumption ==
    /\ EpochSeconds \in Nat    \* `new` does not reject zero: all is epoch 0
    /\ PageLimit \in Nat \ {0}
    /\ MaxPages \in Nat
    /\ OnlyPastEpochs \in BOOLEAN
    /\ MaxRows \in Nat
    /\ MaxTime \in Nat
    /\ None \notin {"Ok", "Transport", "Shape", "Pagination", "BadRow"}

VARIABLES
    rows,     \* the server's list
    now,      \* the server's clock
    pc,       \* scorer -> "idle", "fetch", "bucket" or "end"
    epoch,    \* scorer -> the epoch it scores
    events,   \* scorer -> the rows fetch_all has received
    page,     \* scorer -> the pages fetch_all has asked for
    outcome,  \* scorer -> None, "Ok", or the error epoch_data returned
    units     \* scorer -> the units epoch_data returned: place in events -> row

serverVars == <<rows, now>>
vars == <<rows, now, pc, epoch, events, page, outcome, units>>

\* A row's form: its fields parse; or they are there and one of them does not
\* parse; or it is no WireEvent, and no page with it is one.
Forms == {"Valid", "Bad", "Malformed"}

\* A row: its form, and when it was observed.  Its place in the list tells it
\* from other rows.
Row == [form : Forms, observedAt : Nat, id : Nat]

Errors == {"Transport", "Shape", "Pagination", "BadRow"}

\* Units, by the row they come from.
IsUnits(us) == us \in [DOMAIN us -> Nat]

Bucket(time) == IF EpochSeconds = 0 THEN 0 ELSE time \div EpochSeconds

Epochs == 0..Bucket(MaxTime)

TypeOK ==
    /\ rows \in Seq(Row)
    /\ now \in Nat
    /\ pc \in [Scorers -> {"idle", "fetch", "bucket", "end"}]
    /\ epoch \in [Scorers -> Epochs]
    /\ events \in [Scorers -> Seq(Row)]
    /\ page \in [Scorers -> 0..MaxPages]
    /\ outcome \in [Scorers -> Errors \cup {"Ok", None}]
    /\ units = [s \in Scorers |-> units[s]] /\ \A s \in Scorers : IsUnits(units[s])

Init ==
    /\ rows = <<>>
    /\ now = 0
    /\ pc = [s \in Scorers |-> "idle"]
    /\ epoch = [s \in Scorers |-> 0]
    /\ events = [s \in Scorers |-> <<>>]
    /\ page = [s \in Scorers |-> 0]
    /\ outcome = [s \in Scorers |-> None]
    /\ units = [s \in Scorers |-> <<>>]

-----------------------------------------------------------------------------
(* The server                                                              *)

Observe ==
    /\ Len(rows) < MaxRows
    /\ \E form \in Forms :
          rows' = Append(rows, [form |-> form, observedAt |-> now, id |-> Len(rows) + 1])
    /\ UNCHANGED <<now, pc, epoch, events, page, outcome, units>>

Pass ==
    /\ now < MaxTime
    /\ now' = now + 1
    /\ UNCHANGED <<rows, pc, epoch, events, page, outcome, units>>

-----------------------------------------------------------------------------
(* epoch_data                                                              *)

Start(s) ==
    /\ pc[s] = "idle"
    /\ \E e \in Epochs :
          /\ OnlyPastEpochs => e < Bucket(now)
          /\ epoch' = [epoch EXCEPT ![s] = e]
    /\ pc' = [pc EXCEPT ![s] = "fetch"]
    /\ UNCHANGED <<rows, now, events, page, outcome, units>>

\* The rows from the asked offset on.
PageFrom(offset, size) == SubSeq(rows, offset + 1, offset + size)

\* A page that holds a malformed row does not deserialize.
Deserializes(rs) == \A k \in DOMAIN rs : rs[k].form # "Malformed"

End(s, how) ==
    /\ pc' = [pc EXCEPT ![s] = "end"]
    /\ outcome' = [outcome EXCEPT ![s] = how]

\* Mutant: the offset is counted in pages of the full size.
MutantOffset(s) == page[s] * PageLimit

\* The offset fetch_all asks for.
Offset(s) == Len(events[s])

\* Mutant: one page too many is asked for.
MutantPageAllowed(s) == page[s] <= MaxPages

PageAllowed(s) == page[s] < MaxPages

\* Mutant: a page that is not full is taken for the last one.
MutantIsLast(s, size) == size < PageLimit

\* fetch_all ends at the total the server reports with the page, or at an
\* empty page.
IsLast(s, size) == Len(events[s]) + size >= Len(rows) \/ size = 0

\* The sizes of the page that follows: a server may send fewer rows than the
\* limit, and none only past the end of the list.
PageSizes(s) ==
    LET left == Len(rows) - Offset(s)
    IN  {n \in 0..PageLimit : n <= left /\ (n = 0 => left <= 0)}

\* One turn of fetch_all.
FetchPage(s) ==
    /\ pc[s] = "fetch"
    /\ PageAllowed(s)
    /\ \E size \in PageSizes(s) :
          /\ Deserializes(PageFrom(Offset(s), size))
          /\ events' = [events EXCEPT ![s] = @ \o PageFrom(Offset(s), size)]
          /\ pc' = IF IsLast(s, size) THEN [pc EXCEPT ![s] = "bucket"] ELSE pc
    /\ page' = [page EXCEPT ![s] = @ + 1]
    /\ UNCHANGED <<rows, now, epoch, outcome, units>>

\* Mutant: a list that does not end is read again from its start.
MutantTooManyPages(s) ==
    /\ pc[s] = "fetch"
    /\ ~PageAllowed(s)
    /\ events' = [events EXCEPT ![s] = <<>>]
    /\ page' = [page EXCEPT ![s] = 0]
    /\ UNCHANGED <<rows, now, pc, epoch, outcome, units>>

TooManyPages(s) ==
    /\ pc[s] = "fetch"
    /\ ~PageAllowed(s)
    /\ End(s, "Pagination")
    /\ UNCHANGED <<rows, now, epoch, events, page, units>>

\* The getter fails, or what it gets is no page at all.
TransportError(s) ==
    /\ pc[s] = "fetch"
    /\ PageAllowed(s)
    /\ End(s, "Transport")
    /\ UNCHANGED <<rows, now, epoch, events, page, units>>

\* A malformed row fails the page it is on, and so the call, whatever epoch is
\* asked for.
ShapeError(s) ==
    /\ pc[s] = "fetch"
    /\ PageAllowed(s)
    /\ \E size \in PageSizes(s) : ~Deserializes(PageFrom(Offset(s), size))
    /\ End(s, "Shape")
    /\ UNCHANGED <<rows, now, epoch, events, page, units>>

\* Mutant: a row that does not parse is skipped.
MutantOwnRows(s) ==
    {k \in DOMAIN events[s] : /\ Bucket(events[s][k].observedAt) = epoch[s]
                              /\ events[s][k].form = "Valid"}

\* The places of the epoch's rows in what was received.
OwnRows(s) == {k \in DOMAIN events[s] : Bucket(events[s][k].observedAt) = epoch[s]}

\* Every row of the epoch becomes a unit; one that does not parse fails all.
Serve(s) ==
    /\ pc[s] = "bucket"
    /\ \A k \in OwnRows(s) : events[s][k].form = "Valid"
    /\ End(s, "Ok")
    /\ units' = [units EXCEPT ![s] = [k \in OwnRows(s) |-> events[s][k].id]]
    /\ UNCHANGED <<rows, now, epoch, events, page>>

BadRow(s) ==
    /\ pc[s] = "bucket"
    /\ \E k \in OwnRows(s) : events[s][k].form # "Valid"
    /\ End(s, "BadRow")
    /\ UNCHANGED <<rows, now, epoch, events, page, units>>

\* What epoch_data does once it is called.
Call(s) ==
    \/ FetchPage(s) \/ TooManyPages(s) \/ TransportError(s) \/ ShapeError(s)
    \/ Serve(s) \/ BadRow(s)

Next == Observe \/ Pass \/ \E s \in Scorers : Start(s) \/ Call(s)

Spec == Init /\ [][Next]_vars

-----------------------------------------------------------------------------
\* What is in hand is always a beginning of the list, with no row twice and
\* none left out, though the list grows between two pages.
EventsAreAPrefix == \A s \in Scorers : IsPrefix(events[s], rows)

\* The malformed rows of an epoch and of those before it.
MalformedUpTo(e) ==
    {k \in DOMAIN rows : Bucket(rows[k].observedAt) <= e /\ rows[k].form = "Malformed"}

\* What the list itself has decided: not the transport, not the page bound, and
\* not a malformed row of a later epoch, which the list did not have when it
\* could be read first.
Decided(s) ==
    \/ outcome[s] \in {"Ok", "BadRow"}
    \/ outcome[s] = "Shape" /\ MalformedUpTo(epoch[s]) # {}

\* tosctld.rs, lines 15-17: "two implementations must ingest identical unit
\* sets or fail identically".  What the list itself decides is the same for
\* both: a row of the epoch that does not parse fails both, so does a page
\* that does not deserialize, and else both have the same units.
ScorersAgree ==
    \A s, t \in Scorers :
        Decided(s) /\ Decided(t) /\ epoch[s] = epoch[t] =>
            outcome[s] = outcome[t] /\ units[s] = units[t]

\* tosctld.rs, lines 13-17: "shadow scoring only ever scores past epochs", and
\* so two scorers that are both served "ingest identical unit sets".
ServedAlike ==
    \A s, t \in Scorers :
        outcome[s] = "Ok" /\ outcome[t] = "Ok" /\ epoch[s] = epoch[t] =>
            units[s] = units[t]

\* The places of an epoch's rows in the list.
RowsOf(e) == {k \in DOMAIN rows : Bucket(rows[k].observedAt) = e}

\* These units are every row the list has of the epoch, each once and in the
\* order of the list, and none of them is unparseable.
AreComplete(us, e) ==
    /\ us = [k \in RowsOf(e) |-> rows[k].id]
    /\ \A k \in RowsOf(e) : rows[k].form = "Valid"

-----------------------------------------------------------------------------
(* What ScorersAgree rests on when past epochs are scored                  *)

\* The server observes now: no row is from the future.
RowsInv == \A k \in DOMAIN rows : rows[k].observedAt <= now

\* A call has a beginning of the list that deserializes, no outcome before it
\* ends, and no units unless it is served.
CallOf(s) ==
    /\ IsPrefix(events[s], rows)
    /\ Deserializes(events[s])
    /\ pc[s] # "end" => outcome[s] = None
    /\ outcome[s] # "Ok" => units[s] = <<>>

\* A call for an epoch that is over has received every row of it before it
\* looks for them, and what it returns is what the list says, then and later.
PastCallOf(s) ==
    /\ pc[s] # "idle" => epoch[s] < Bucket(now)
    /\ pc[s] = "bucket" =>
          \A k \in DOMAIN rows : Bucket(rows[k].observedAt) <= epoch[s] => k <= Len(events[s])
    /\ outcome[s] \in {"Ok", "BadRow"} => MalformedUpTo(epoch[s]) = {}
    /\ outcome[s] = "Ok" => AreComplete(units[s], epoch[s])
    /\ outcome[s] = "BadRow" => \E k \in RowsOf(epoch[s]) : rows[k].form # "Valid"

CallInv == \A s \in Scorers : CallOf(s) /\ (OnlyPastEpochs => PastCallOf(s))
=============================================================================
