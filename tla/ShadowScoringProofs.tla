------------------------ MODULE ShadowScoringProofs ------------------------
(***************************************************************************)
(* What the results of an epoch rest on, for any number of processes, any  *)
(* list, and any page limit, page bound and number of faults.              *)
(***************************************************************************)
EXTENDS ShadowScoring, TLAPS

USE TosctldAssumption, ShadowAssumption

LEMMA BucketIsMonotone ==
    ASSUME NEW a \in Nat, NEW b \in Nat, a <= b
    PROVE  Bucket(a) \in Nat /\ Bucket(b) \in Nat /\ Bucket(a) <= Bucket(b)
  <1>1. CASE EpochSeconds = 0
    BY <1>1 DEF Bucket
  <1>2. CASE EpochSeconds # 0
    <2> DEFINE n == EpochSeconds
               p == a \div n
               q == b \div n
    <2>1. n \in Nat /\ n > 0
      BY <1>2
    <2>2. p \in Nat /\ q \in Nat /\ p * n <= a /\ b < (q + 1) * n
      BY <2>1
    <2> HIDE DEF p, q, n
    <2>3. p <= q
      <3> SUFFICES ASSUME q + 1 <= p PROVE FALSE
        BY <2>2
      <3>1. (q + 1) * n <= p * n
        BY <2>1, <2>2
      <3> QED
        BY <2>1, <2>2, <3>1
    <2> QED
      BY <1>2, <2>2, <2>3 DEF Bucket, p, q, n
  <1> QED
    BY <1>1, <1>2

LEMMA PrefixMeans ==
    ASSUME NEW s \in Seq(Row), NEW t \in Seq(Row)
    PROVE  IsPrefix(s, t) <=> Len(s) <= Len(t) /\ \A k \in 1..Len(s) : s[k] = t[k]
  <1>1. ASSUME Len(s) <= Len(t), NEW k \in 1..Len(s)
        PROVE  SubSeq(s, 1, Len(s))[k] = s[k] /\ SubSeq(t, 1, Len(s))[k] = t[k]
    BY <1>1
  <1>2. ASSUME Len(s) <= Len(t), \A k \in 1..Len(s) : s[k] = t[k]
        PROVE  SubSeq(s, 1, Len(s)) = SubSeq(t, 1, Len(s))
    BY <1>2
  <1> QED
    BY <1>1, <1>2 DEF IsPrefix

-----------------------------------------------------------------------------
(* The server: the list grows, and not in an epoch that is over            *)

\* What the server's steps do to the list.
RowsGrow ==
    /\ now' \in Nat
    /\ now <= now'
    /\ rows' \in Seq(Row)
    /\ Len(rows) <= Len(rows')
    /\ \A k \in 1..Len(rows) : rows'[k] = rows[k]
    /\ \A k \in 1..Len(rows') : k > Len(rows) => rows'[k].observedAt = now

LEMMA ServerGrows ==
    ASSUME rows \in Seq(Row), now \in Nat, RowsInv, Observe \/ Pass
    PROVE  RowsGrow /\ RowsInv'
  <1>1. CASE Observe
    <2>1. PICK r \in Row : rows' = Append(rows, r) /\ r.observedAt = now /\ now' = now
      BY <1>1 DEF Observe, Row
    <2>2. /\ rows' \in Seq(Row)
          /\ Len(rows') = Len(rows) + 1
          /\ \A k \in 1..Len(rows) : rows'[k] = rows[k]
          /\ rows'[Len(rows) + 1] = r
      BY <2>1
    <2>3. RowsGrow
      BY <2>1, <2>2 DEF RowsGrow
    <2>4. ASSUME NEW k \in 1..Len(rows')
          PROVE  rows'[k].observedAt <= now'
      BY <2>1, <2>2 DEF RowsInv
    <2> QED
      BY <2>2, <2>3, <2>4 DEF RowsInv
  <1>2. CASE Pass
    <2>1. rows' = rows /\ now' = now + 1
      BY <1>2 DEF Pass
    <2> SUFFICES ASSUME NEW k \in 1..Len(rows) PROVE rows[k].observedAt <= now + 1
      BY <2>1 DEF RowsGrow, RowsInv
    <2>2. rows[k] \in Row /\ rows[k].observedAt <= now
      BY DEF RowsInv
    <2> QED
      BY <2>2 DEF Row
  <1> QED
    BY <1>1, <1>2

\* Nothing happens to the list in a step of a run.
LEMMA ServerStays ==
    ASSUME rows \in Seq(Row), now \in Nat, RowsInv, UNCHANGED serverVars
    PROVE  RowsGrow /\ RowsInv'
  BY DEF RowsGrow, RowsInv, serverVars

LEMMA PrefixIsKept ==
    ASSUME rows \in Seq(Row), RowsGrow, NEW s \in Seq(Row), IsPrefix(s, rows)
    PROVE  IsPrefix(s, rows')
  <1>1. Len(s) <= Len(rows) /\ \A k \in 1..Len(s) : s[k] = rows[k]
    BY PrefixMeans
  <1>2. /\ rows' \in Seq(Row)
        /\ Len(rows) <= Len(rows')
        /\ \A k \in 1..Len(rows) : rows'[k] = rows[k]
    BY DEF RowsGrow
  <1>3. Len(s) <= Len(rows') /\ \A k \in 1..Len(s) : s[k] = rows'[k]
    BY <1>1, <1>2
  <1> QED
    BY <1>2, <1>3, PrefixMeans

\* An epoch that is over has all its rows.
LEMMA EpochIsOver ==
    ASSUME rows \in Seq(Row), now \in Nat, RowsGrow, NEW e \in Nat, e < Bucket(now)
    PROVE  /\ (e < Bucket(now))'
           /\ RowsOf(e)' = RowsOf(e)
           /\ \A k \in RowsOf(e) : k \in Nat /\ rows'[k] = rows[k]
           /\ MalformedUpTo(e)' = MalformedUpTo(e)
           /\ \A k \in DOMAIN rows' : Bucket(rows'[k].observedAt) <= e =>
                 k \in DOMAIN rows /\ rows'[k] = rows[k]
  <1>1. Bucket(now) \in Nat /\ Bucket(now') \in Nat /\ Bucket(now) <= Bucket(now')
    BY BucketIsMonotone DEF RowsGrow
  <1>2. ASSUME NEW k \in 1..Len(rows'), k > Len(rows)
        PROVE  Bucket(rows'[k].observedAt) # e /\ ~(Bucket(rows'[k].observedAt) <= e)
    BY <1>1, <1>2 DEF RowsGrow
  <1>3. /\ rows' \in Seq(Row)
        /\ Len(rows) <= Len(rows')
        /\ \A k \in 1..Len(rows) : rows'[k] = rows[k]
    BY DEF RowsGrow
  <1>4. DOMAIN rows = 1..Len(rows) /\ DOMAIN rows' = 1..Len(rows')
    BY <1>3
  <1>5. RowsOf(e)' = {k \in 1..Len(rows') : Bucket(rows'[k].observedAt) = e}
    BY <1>4 DEF RowsOf
  <1>6. RowsOf(e) = {k \in 1..Len(rows) : Bucket(rows[k].observedAt) = e}
    BY <1>4 DEF RowsOf
  <1>7. RowsOf(e)' = RowsOf(e)
    BY <1>2, <1>3, <1>5, <1>6
  <1>8. \A k \in DOMAIN rows' : Bucket(rows'[k].observedAt) <= e =>
           k \in DOMAIN rows /\ rows'[k] = rows[k]
    BY <1>2, <1>3, <1>4
  <1>9. MalformedUpTo(e)' = MalformedUpTo(e)
    <2>1. MalformedUpTo(e)' =
             {k \in DOMAIN rows' : /\ Bucket(rows'[k].observedAt) <= e
                                  /\ rows'[k].form = "Malformed"}
      BY DEF MalformedUpTo, Bucket
    <2>2. \A k \in DOMAIN rows : k \in DOMAIN rows' /\ rows'[k] = rows[k]
      BY <1>3, <1>4
    <2> QED
      BY <1>8, <2>1, <2>2 DEF MalformedUpTo
  <1> QED
    BY <1>1, <1>3, <1>6, <1>7, <1>8, <1>9

\* What is complete stays so.
LEMMA CompleteIsKept ==
    ASSUME rows \in Seq(Row), now \in Nat, RowsGrow, NEW e \in Nat, e < Bucket(now), NEW us,
           AreComplete(us, e)
    PROVE  AreComplete(us, e)'
  <1>1. RowsOf(e)' = RowsOf(e) /\ \A k \in RowsOf(e) : rows'[k] = rows[k]
    BY EpochIsOver
  <1> QED
    BY <1>1 DEF AreComplete

-----------------------------------------------------------------------------
(* One process                                                             *)

\* What a process is in, besides its output.
Untouched(s) ==
    /\ pc'[s] = pc[s]
    /\ epoch'[s] = epoch[s]
    /\ events'[s] = events[s]
    /\ outcome'[s] = outcome[s]
    /\ units'[s] = units[s]

CallIsSound(s) == CallOf(s) /\ (OnlyPastEpochs => PastCallOf(s))

\* The units of a process that are complete, in its epoch that is over, stay so.
LEMMA UnitsAreKept ==
    ASSUME TypeOK, RowsGrow, NEW s \in Scorers, epoch[s] < Bucket(now),
           epoch'[s] = epoch[s], units'[s] = units[s], AreComplete(units[s], epoch[s])
    PROVE  AreComplete(units[s], epoch[s])'
  <1>1. PICK e \in Nat : e = epoch[s]
    BY DEF TypeOK, Epochs
  <1>2. PICK us : us = units[s]
    OBVIOUS
  <1>3. rows \in Seq(Row) /\ now \in Nat /\ e < Bucket(now) /\ AreComplete(us, e)
    BY <1>1, <1>2 DEF TypeOK
  <1>4. AreComplete(us, e)'
    BY <1>3, CompleteIsKept
  <1>5. epoch'[s] = e /\ units'[s] = us
    BY <1>1, <1>2
  <1>6. (AreComplete(us, e))' <=> AreComplete(units[s], epoch[s])'
    BY <1>5 DEF AreComplete, RowsOf
  <1> QED
    BY <1>4, <1>6

\* A call is sound while only the server moves.
LEMMA WaitingIsSound ==
    ASSUME TypeOK, RowsGrow, NEW s \in Scorers, Untouched(s), CallIsSound(s)
    PROVE  CallIsSound(s)'
  <1>0. rows \in Seq(Row) /\ now \in Nat /\ events[s] \in Seq(Row)
    BY DEF TypeOK
  <1>1. CallOf(s)'
    <2>1. /\ IsPrefix(events[s], rows)
          /\ Deserializes(events[s])
          /\ pc[s] # "end" => outcome[s] = None
          /\ outcome[s] # "Ok" => units[s] = <<>>
      BY DEF CallIsSound, CallOf
    <2>2. PICK q \in Seq(Row) : q = events[s]
      BY <1>0
    <2>3. IsPrefix(q, rows')
      BY <1>0, <2>1, <2>2, PrefixIsKept
    <2> QED
      BY <2>1, <2>2, <2>3 DEF CallOf, Untouched, Deserializes
  <1>2. ASSUME OnlyPastEpochs PROVE PastCallOf(s)'
    <2>0. PastCallOf(s) /\ CallOf(s)
      BY <1>2 DEF CallIsSound
    <2>1. CASE pc[s] = "idle"
      BY <2>0, <2>1 DEF PastCallOf, CallOf, Untouched
    <2>2. CASE pc[s] # "idle"
      <3>1. PICK e \in Nat : e = epoch[s]
        BY DEF TypeOK, Epochs
      <3>2. e < Bucket(now)
        BY <2>0, <2>2, <3>1 DEF PastCallOf
      <3>3. /\ (e < Bucket(now))'
            /\ RowsOf(e)' = RowsOf(e)
            /\ \A k \in RowsOf(e) : rows'[k] = rows[k]
            /\ MalformedUpTo(e)' = MalformedUpTo(e)
            /\ \A k \in DOMAIN rows' : Bucket(rows'[k].observedAt) <= e =>
                  k \in DOMAIN rows /\ rows'[k] = rows[k]
        BY <1>0, <3>2, EpochIsOver
      <3>4. (epoch[s] < Bucket(now))'
        BY <3>1, <3>3 DEF Untouched
      <3>5. RowsOf(epoch[s])' = RowsOf(epoch[s])
        BY <3>1, <3>3 DEF RowsOf, Untouched
      <3>6. outcome'[s] = "Ok" => AreComplete(units[s], epoch[s])'
        BY <2>0, <3>1, <3>2, UnitsAreKept DEF PastCallOf, Untouched
      <3>7. outcome'[s] = "BadRow" => \E k \in RowsOf(epoch[s]) : rows'[k].form # "Valid"
        BY <2>0, <3>1, <3>3 DEF PastCallOf, Untouched
      <3>8. pc'[s] = "bucket" =>
               \A k \in DOMAIN rows' :
                   Bucket(rows'[k].observedAt) <= epoch[s] => k <= Len(events[s])
        BY <2>0, <3>1, <3>3 DEF PastCallOf, Untouched
      <3>9. MalformedUpTo(epoch[s])' = MalformedUpTo(epoch[s])
        BY <3>1, <3>3 DEF MalformedUpTo, Untouched
      <3> QED
        <4>1. (pc[s] = "bucket" =>
                  \A k \in DOMAIN rows :
                      Bucket(rows[k].observedAt) <= epoch[s] => k <= Len(events[s]))'
          BY <3>8 DEF Untouched, Bucket
        <4>2. (outcome[s] \in {"Ok", "BadRow"} => MalformedUpTo(epoch[s]) = {})'
          BY <2>0, <3>9 DEF PastCallOf, Untouched
        <4>3. (outcome[s] = "BadRow" => \E k \in RowsOf(epoch[s]) : rows[k].form # "Valid")'
          BY <3>5, <3>7
        <4> QED
          BY <3>4, <3>6, <4>1, <4>2, <4>3 DEF PastCallOf
    <2> QED
      BY <2>1, <2>2
  <1> QED
    BY <1>1, <1>2 DEF CallIsSound

LEMMA NothingDeserializes == Deserializes(<<>>)
  BY DEF Deserializes

\* A run that has ended holds nothing.
LEMMA ExitIsSound ==
    ASSUME TypeOK, NEW s \in Scorers, Exit(s)
    PROVE  CallIsSound(s)'
  <1>1. /\ pc'[s] = "idle" /\ events'[s] = <<>> /\ outcome'[s] = None /\ units'[s] = <<>>
        /\ rows' = rows /\ rows \in Seq(Row)
    BY DEF TypeOK, Exit, serverVars
  <1>2. <<>> \in Seq(Row) /\ Len(<<>>) = 0 /\ Len(rows) \in Nat
    BY <1>1
  <1>3. IsPrefix(<<>>, rows)
    <2>1. Len(<<>>) <= Len(rows) /\ \A k \in 1..Len(<<>>) : <<>>[k] = rows[k]
      BY <1>2
    <2> QED
      BY <1>1, <1>2, <2>1, PrefixMeans
  <1> QED
    BY <1>1, <1>2, <1>3, NothingDeserializes DEF CallIsSound, CallOf, PastCallOf

LEMMA StartIsSound ==
    ASSUME TypeOK, NEW s \in Scorers, CallIsSound(s), Start(s)
    PROVE  CallIsSound(s)'
  <1>1. PICK e \in Epochs : (OnlyPastEpochs => e < Bucket(now)) /\ epoch' = [epoch EXCEPT ![s] = e]
    BY DEF Start
  <1>2. /\ pc[s] = "idle" /\ pc'[s] = "fetch" /\ epoch'[s] = e
        /\ UNCHANGED <<rows, now, events, outcome, units>>
    BY <1>1 DEF Start, TypeOK
  <1>3. outcome'[s] = None /\ units'[s] = <<>>
    BY <1>2 DEF CallIsSound, CallOf
  <1>4. CallOf(s)'
    BY <1>2, <1>3 DEF CallIsSound, CallOf
  <1>5. OnlyPastEpochs => (epoch[s] < Bucket(now))'
    BY <1>1, <1>2 DEF Bucket
  <1>6. OnlyPastEpochs => PastCallOf(s)'
    BY <1>2, <1>3, <1>5 DEF PastCallOf
  <1> QED
    BY <1>4, <1>6 DEF CallIsSound

\* fetch_all appends what follows what it has; at the end of the list it has
\* every row of the list.
LEMMA FetchIsSound ==
    ASSUME TypeOK, NEW s \in Scorers, CallIsSound(s), FetchPage(s)
    PROVE  CallIsSound(s)' /\ events'[s] \in Seq(Row)
  <1>0. /\ rows \in Seq(Row) /\ now \in Nat /\ events[s] \in Seq(Row)
        /\ pc[s] = "fetch"
        /\ UNCHANGED <<rows, now, epoch, outcome, units>>
    BY DEF FetchPage, TypeOK
  <1>1. PICK q \in Seq(Row) : q = events[s]
    BY <1>0
  <1>2. /\ Len(q) \in Nat /\ Len(rows) \in Nat /\ Len(q) <= Len(rows)
        /\ \A k \in 1..Len(q) : q[k] = rows[k]
    <2>1. IsPrefix(q, rows)
      BY <1>1 DEF CallIsSound, CallOf
    <2> QED
      BY <1>0, <2>1, PrefixMeans
  <1>3. PICK size \in 0..PageLimit :
           /\ size <= Len(rows) - Len(q)
           /\ size = 0 => Len(rows) - Len(q) <= 0
           /\ Deserializes(PageFrom(Len(q), size))
           /\ events' = [events EXCEPT ![s] = @ \o PageFrom(Len(q), size)]
           /\ pc' = IF IsLast(s, size) THEN [pc EXCEPT ![s] = "bucket"] ELSE pc
    BY <1>1 DEF FetchPage, Offset, PageSizes
  <1>4. size \in Nat
    BY <1>3
  <1> DEFINE new == SubSeq(rows, Len(q) + 1, Len(q) + size)
             got == q \o new
  <1>5. /\ new \in Seq(Row) /\ Len(new) = size
        /\ \A k \in 1..size : new[k] = rows[Len(q) + k]
    BY <1>0, <1>2, <1>3, <1>4
  <1>6. /\ got \in Seq(Row) /\ Len(got) = Len(q) + size
        /\ \A k \in 1..Len(got) : got[k] = rows[k]
    <2> HIDE DEF new
    <2>1. got \in Seq(Row) /\ Len(got) = Len(q) + size
      BY <1>5
    <2>2. ASSUME NEW k \in 1..Len(got), k <= Len(q)
          PROVE  got[k] = rows[k]
      BY <1>2, <1>5, <2>1, <2>2
    <2>3. ASSUME NEW k \in 1..Len(got), k > Len(q)
          PROVE  got[k] = rows[k]
      <3>1. k - Len(q) \in 1..size /\ got[k] = new[k - Len(q)]
        BY <1>2, <1>4, <1>5, <2>1, <2>3
      <3>2. Len(q) + (k - Len(q)) = k
        BY <1>2, <2>1
      <3> QED
        BY <1>5, <3>1, <3>2
    <2> QED
      BY <1>2, <2>1, <2>2, <2>3
  <1>7. events'[s] = got /\ Deserializes(new)
    BY <1>1, <1>3 DEF TypeOK, PageFrom
  <1>7b. Deserializes(got)
    <2> HIDE DEF new
    <2>1. Deserializes(q)
      BY <1>1 DEF CallIsSound, CallOf
    <2>2. ASSUME NEW k \in 1..Len(got)
          PROVE  got[k].form # "Malformed"
      <3>1. CASE k <= Len(q)
        <4>1. k \in DOMAIN q /\ got[k] = q[k]
          BY <1>2, <1>5, <1>6, <2>2, <3>1
        <4> QED
          BY <2>1, <4>1 DEF Deserializes
      <3>2. CASE k > Len(q)
        <4>1. k - Len(q) \in 1..size /\ got[k] = new[k - Len(q)]
          BY <1>2, <1>4, <1>5, <1>6, <2>2, <3>2
        <4> QED
          BY <1>5, <1>7, <4>1 DEF Deserializes
      <3> QED
        BY <1>2, <3>1, <3>2
    <2> QED
      BY <1>6, <2>2 DEF Deserializes
  <1> HIDE DEF new, got
  <1>8. IsPrefix(got, rows)
    <2>1. Len(got) <= Len(rows)
      BY <1>2, <1>3, <1>4, <1>6
    <2> QED
      BY <1>0, <1>6, <2>1, PrefixMeans
  <1>9. pc'[s] = "fetch" \/ (pc'[s] = "bucket" /\ Len(got) >= Len(rows))
    <2>1. CASE IsLast(s, size)
      <3>1. Len(got) >= Len(rows)
        BY <1>1, <1>2, <1>3, <1>4, <1>6, <2>1 DEF IsLast
      <3> QED
        BY <1>3, <2>1, <3>1 DEF TypeOK
    <2>2. CASE ~IsLast(s, size)
      BY <1>0, <1>3, <2>2
    <2> QED
      BY <2>1, <2>2
  <1>10. outcome'[s] = None /\ units'[s] = <<>>
    BY <1>0 DEF CallIsSound, CallOf
  <1>11. CallOf(s)'
    BY <1>0, <1>7, <1>7b, <1>8, <1>10 DEF CallOf, Deserializes
  <1>12. ASSUME OnlyPastEpochs PROVE PastCallOf(s)'
    <2>1. (epoch[s] < Bucket(now))'
      BY <1>0, <1>12 DEF CallIsSound, PastCallOf, Bucket
    <2>2. (pc[s] = "bucket" =>
              \A k \in DOMAIN rows :
                  Bucket(rows[k].observedAt) <= epoch[s] => k <= Len(events[s]))'
      BY <1>0, <1>6, <1>7, <1>9
    <2> QED
      BY <1>10, <2>1, <2>2 DEF PastCallOf
  <1> QED
    BY <1>6, <1>7, <1>11, <1>12 DEF CallIsSound

\* What a call looks for its rows in holds every row of the epoch, if that is
\* over.
LEMMA OwnRowsAreAll ==
    ASSUME TypeOK, NEW s \in Scorers, CallIsSound(s), pc[s] = "bucket", OnlyPastEpochs
    PROVE  /\ OwnRows(s) = RowsOf(epoch[s]) /\ \A k \in OwnRows(s) : events[s][k] = rows[k]
           /\ MalformedUpTo(epoch[s]) = {}
  <1>1. rows \in Seq(Row) /\ events[s] \in Seq(Row)
    BY DEF TypeOK
  <1>2. /\ Len(events[s]) <= Len(rows) /\ Len(rows) \in Nat /\ Len(events[s]) \in Nat
        /\ \A k \in 1..Len(events[s]) : events[s][k] = rows[k]
    BY <1>1, PrefixMeans DEF CallIsSound, CallOf
  <1>3. \A k \in DOMAIN rows : Bucket(rows[k].observedAt) <= epoch[s] => k <= Len(events[s])
    BY DEF CallIsSound, PastCallOf
  <1>4. DOMAIN rows = 1..Len(rows) /\ DOMAIN events[s] = 1..Len(events[s])
    BY <1>1
  <1>5. epoch[s] <= epoch[s]
    BY DEF TypeOK, Epochs
  <1>6. MalformedUpTo(epoch[s]) = {}
    <2>1. ASSUME NEW k \in DOMAIN rows, Bucket(rows[k].observedAt) <= epoch[s]
          PROVE  rows[k].form # "Malformed"
      BY <1>2, <1>3, <1>4, <2>1 DEF CallIsSound, CallOf, Deserializes
    <2> QED
      BY <2>1 DEF MalformedUpTo
  <1> QED
    BY <1>2, <1>3, <1>4, <1>5, <1>6 DEF OwnRows, RowsOf

LEMMA AnswerIsSound ==
    ASSUME TypeOK, NEW s \in Scorers, CallIsSound(s), Serve(s) \/ BadRow(s)
    PROVE  CallIsSound(s)'
  <1>0. /\ pc[s] = "bucket" /\ pc'[s] = "end"
        /\ UNCHANGED <<rows, now, epoch, events>>
    BY DEF TypeOK, Serve, BadRow, End
  <1>1. CallOf(s)'
    <2>1. IsPrefix(events[s], rows) /\ Deserializes(events[s]) /\ units[s] = <<>>
      BY <1>0 DEF CallIsSound, CallOf
    <2>2. outcome'[s] = "Ok" \/ units'[s] = units[s]
      BY DEF TypeOK, Serve, BadRow, End
    <2> QED
      BY <1>0, <2>1, <2>2 DEF CallOf, Deserializes
  <1>2. ASSUME OnlyPastEpochs PROVE PastCallOf(s)'
    <2>1. /\ OwnRows(s) = RowsOf(epoch[s]) /\ \A k \in OwnRows(s) : events[s][k] = rows[k]
          /\ MalformedUpTo(epoch[s]) = {}
      BY <1>0, <1>2, OwnRowsAreAll
    <2>2. /\ (epoch[s] < Bucket(now))' /\ RowsOf(epoch[s])' = RowsOf(epoch[s])
          /\ MalformedUpTo(epoch[s])' = {}
      BY <1>0, <1>2, <2>1 DEF CallIsSound, PastCallOf, Bucket, RowsOf, MalformedUpTo
    <2>3. CASE Serve(s)
      <3>1. /\ outcome'[s] = "Ok"
            /\ units'[s] = [k \in OwnRows(s) |-> events[s][k].id]
            /\ \A k \in OwnRows(s) : events[s][k].form = "Valid"
        BY <2>3 DEF TypeOK, Serve, End
      <3>2. units'[s] = [k \in RowsOf(epoch[s]) |-> rows[k].id]
        BY <2>1, <3>1
      <3>3. AreComplete(units[s], epoch[s])'
        BY <1>0, <2>1, <2>2, <3>1, <3>2 DEF AreComplete
      <3> QED
        BY <1>0, <2>2, <3>1, <3>3 DEF PastCallOf
    <2>4. CASE BadRow(s)
      <3>1. outcome'[s] = "BadRow" /\ \E k \in OwnRows(s) : events[s][k].form # "Valid"
        BY <2>4 DEF TypeOK, BadRow, End
      <3>2. (\E k \in RowsOf(epoch[s]) : rows[k].form # "Valid")'
        BY <1>0, <2>1, <2>2, <3>1
      <3> QED
        BY <1>0, <2>2, <3>1, <3>2 DEF PastCallOf
    <2> QED
      BY <2>3, <2>4
  <1> QED
    BY <1>1, <1>2 DEF CallIsSound

LEMMA RefusalIsSound ==
    ASSUME TypeOK, NEW s \in Scorers, CallIsSound(s),
           TooManyPages(s) \/ TransportError(s) \/ ShapeError(s)
    PROVE  CallIsSound(s)'
  <1>1. /\ pc[s] = "fetch" /\ pc'[s] = "end"
        /\ outcome'[s] \in {"Pagination", "Transport", "Shape"}
        /\ UNCHANGED <<rows, now, epoch, events, units>>
    BY DEF TypeOK, TooManyPages, TransportError, ShapeError, End
  <1>2. OnlyPastEpochs => (epoch[s] < Bucket(now))'
    BY <1>1 DEF CallIsSound, PastCallOf, Bucket
  <1> QED
    BY <1>1, <1>2 DEF CallIsSound, CallOf, PastCallOf, Deserializes

-----------------------------------------------------------------------------
(* Types                                                                   *)

LEMMA ZeroIsAnEpoch == 0 \in Epochs
  BY BucketIsMonotone DEF Epochs

LEMMA NoUnits == IsUnits(<<>>)
  BY DEF IsUnits

\* What changes of a process in a step of its call.
LEMMA CallTypes ==
    ASSUME TypeOK, NEW s \in Scorers, CallIsSound(s), Call(s)
    PROVE  /\ TypeOK'
           /\ pc[s] # "idle" /\ pc'[s] # "idle"
           /\ UNCHANGED serverVars
           /\ \A t \in Scorers : t # s => Untouched(t)
  <1>1. CASE FetchPage(s)
    <2>1. events'[s] \in Seq(Row)
      BY <1>1, FetchIsSound
    <2>2. /\ \E new : events' = [events EXCEPT ![s] = new]
          /\ pc' = [pc EXCEPT ![s] = "bucket"] \/ pc' = pc
          /\ page' = [page EXCEPT ![s] = @ + 1] /\ page[s] < MaxPages
          /\ pc[s] = "fetch"
          /\ UNCHANGED <<rows, now, epoch, outcome, units>>
      BY <1>1 DEF FetchPage, PageAllowed
    <2>3. events' \in [Scorers -> Seq(Row)]
      BY <2>1, <2>2 DEF TypeOK
    <2>4. page' \in [Scorers -> 0..MaxPages]
      <3>1. page[s] \in 0..MaxPages /\ page[s] + 1 \in 0..MaxPages
        BY <2>2 DEF TypeOK
      <3> QED
        BY <2>2, <3>1 DEF TypeOK
    <2>5. TypeOK'
      BY <2>2, <2>3, <2>4 DEF TypeOK
    <2> QED
      BY <2>2, <2>5 DEF TypeOK, Untouched, serverVars
  <1>2. CASE TooManyPages(s) \/ TransportError(s) \/ ShapeError(s) \/ BadRow(s)
    <2>1. /\ pc' = [pc EXCEPT ![s] = "end"]
          /\ \E how \in Errors : outcome' = [outcome EXCEPT ![s] = how]
          /\ pc[s] \in {"fetch", "bucket"}
          /\ UNCHANGED <<rows, now, epoch, events, page, units>>
      BY <1>2 DEF TooManyPages, TransportError, ShapeError, BadRow, End, Errors
    <2>2. TypeOK'
      BY <2>1 DEF TypeOK
    <2> QED
      BY <2>1, <2>2 DEF TypeOK, Untouched, serverVars
  <1>3. CASE Serve(s)
    <2>1. /\ pc' = [pc EXCEPT ![s] = "end"]
          /\ outcome' = [outcome EXCEPT ![s] = "Ok"]
          /\ units' = [units EXCEPT ![s] = [k \in OwnRows(s) |-> events[s][k].id]]
          /\ pc[s] = "bucket"
          /\ UNCHANGED <<rows, now, epoch, events, page>>
      BY <1>3 DEF Serve, End
    <2>2. IsUnits([k \in OwnRows(s) |-> events[s][k].id])
      <3>1. \A k \in OwnRows(s) : events[s][k] \in Row
        BY DEF TypeOK, OwnRows
      <3> QED
        BY <3>1 DEF IsUnits, Row
    <2>3. units' = [t \in Scorers |-> units'[t]] /\ \A t \in Scorers : IsUnits(units'[t])
      BY <2>1, <2>2 DEF TypeOK
    <2>4. TypeOK'
      BY <2>1, <2>3 DEF TypeOK, IsUnits
    <2> QED
      BY <2>1, <2>4 DEF TypeOK, Untouched, serverVars
  <1> QED
    BY <1>1, <1>2, <1>3 DEF Call

LEMMA StartTypes ==
    ASSUME TypeOK, NEW s \in Scorers, Start(s)
    PROVE  /\ TypeOK'
           /\ pc'[s] = "fetch"
           /\ UNCHANGED serverVars
           /\ \A t \in Scorers : t # s => Untouched(t)
  BY DEF TypeOK, Start, Untouched, serverVars, IsUnits

LEMMA ExitTypes ==
    ASSUME TypeOK, NEW s \in Scorers, Exit(s), step \in [Scorers -> Steps]
    PROVE  /\ TypeOK'
           /\ pc'[s] = "idle" /\ step' = [step EXCEPT ![s] = "start"]
           /\ UNCHANGED serverVars
           /\ \A t \in Scorers : t # s => Untouched(t)
  <1>1. 0 \in 0..MaxPages /\ <<>> \in Seq(Row)
    OBVIOUS
  <1>2. units' = [t \in Scorers |-> units'[t]] /\ \A t \in Scorers : IsUnits(units'[t])
    BY NoUnits DEF TypeOK, Exit
  <1>3. TypeOK'
    BY <1>1, <1>2, ZeroIsAnEpoch DEF TypeOK, Exit, serverVars, IsUnits
  <1> QED
    BY <1>3 DEF TypeOK, Exit, Goto, Untouched, serverVars

-----------------------------------------------------------------------------
(* A step of a run: types and calls                                        *)

\* The steps of a run that end it, and those that are between the source's
\* answer and its end.
Ends(s) ==
    \/ SourceFails(s) \/ ScoreFails(s) \/ MissingSeed(s) \/ WriteFails(s) \/ PrintResult(s)
    \/ Kill(s)

\* What a step of a run keeps to.
OwnStep(s) ==
    /\ UNCHANGED serverVars
    /\ TypeOK'
    /\ CallIsSound(s)'
    /\ \A t \in Scorers : t # s => Untouched(t)

LEMMA ServedHasEnded ==
    ASSUME TypeOK, NEW s \in Scorers, CallIsSound(s), outcome[s] = "Ok"
    PROVE  pc[s] = "end"
  BY DEF CallIsSound, CallOf

LEMMA SourceStep ==
    ASSUME TypeOK, NEW s \in Scorers, CallIsSound(s), BeginRun(s) \/ ReadSource(s)
    PROVE  OwnStep(s)
  <1>1. CASE BeginRun(s)
    BY <1>1, StartTypes, StartIsSound DEF BeginRun, OwnStep
  <1>2. CASE ReadSource(s)
    <2>1. Call(s)
      BY <1>2 DEF ReadSource
    <2>2. CallIsSound(s)'
      BY <2>1, FetchIsSound, AnswerIsSound, RefusalIsSound DEF Call
    <2> QED
      BY <2>1, <2>2, CallTypes DEF OwnStep
  <1> QED
    BY <1>1, <1>2

LEMMA EndStep ==
    ASSUME TypeOK, NEW s \in Scorers, CallIsSound(s), step \in [Scorers -> Steps], Ends(s)
    PROVE  OwnStep(s) /\ pc'[s] = "idle" /\ step' = [step EXCEPT ![s] = "start"]
  <1>1. Exit(s)
    BY DEF Ends, SourceFails, ScoreFails, MissingSeed, WriteFails, PrintResult, Kill
  <1> QED
    BY <1>1, ExitIsSound, ExitTypes DEF OwnStep

LEMMA OutputStep ==
    ASSUME TypeOK, RowsInv, NEW s \in Scorers, CallIsSound(s), Open(s) \/ Write(s)
    PROVE  OwnStep(s)
  <1>1. UNCHANGED vars
    BY DEF Open, Write
  <1>2. TypeOK'
    BY <1>1 DEF TypeOK, vars, IsUnits
  <1>3. \A t \in Scorers : Untouched(t)
    BY <1>1 DEF vars, Untouched
  <1>4. RowsGrow
    BY <1>1, ServerStays DEF TypeOK, vars, serverVars
  <1>5. CallIsSound(s)'
    BY <1>3, <1>4, WaitingIsSound
  <1> QED
    BY <1>1, <1>2, <1>3, <1>5 DEF OwnStep, vars, serverVars

LEMMA ScoreStep ==
    ASSUME TypeOK, RowsInv, NEW s \in Scorers, CallIsSound(s), Score(s)
    PROVE  OwnStep(s)
  <1>1. /\ events' = [events EXCEPT ![s] = <<>>]
        /\ page' = [page EXCEPT ![s] = 0]
        /\ UNCHANGED <<rows, now, pc, epoch, outcome, units>>
    BY DEF Score, serverVars
  <1>2. 0 \in 0..MaxPages /\ <<>> \in Seq(Row)
    OBVIOUS
  <1>3. TypeOK'
    BY <1>1, <1>2 DEF TypeOK, IsUnits
  <1>4. pc[s] = "end" /\ outcome[s] = "Ok"
    BY ServedHasEnded DEF Score, Scores
  <1>5. CallOf(s)'
    <2>1. rows \in Seq(Row) /\ Len(<<>>) = 0 /\ Len(rows) \in Nat
      BY DEF TypeOK
    <2>2. Len(<<>>) <= Len(rows) /\ \A k \in 1..Len(<<>>) : <<>>[k] = rows[k]
      BY <2>1
    <2>3. IsPrefix(<<>>, rows)
      BY <1>2, <2>1, <2>2, PrefixMeans
    <2>4. events'[s] = <<>>
      BY <1>1 DEF TypeOK
    <2> QED
      BY <1>1, <1>4, <2>3, <2>4, NothingDeserializes DEF CallOf, Deserializes
  <1>6. ASSUME OnlyPastEpochs PROVE PastCallOf(s)'
    <2>1. /\ epoch[s] < Bucket(now) /\ AreComplete(units[s], epoch[s])
          /\ MalformedUpTo(epoch[s]) = {}
      BY <1>4, <1>6 DEF CallIsSound, PastCallOf
    <2>2. /\ (epoch[s] < Bucket(now) /\ AreComplete(units[s], epoch[s]))'
          /\ MalformedUpTo(epoch[s])' = {}
      BY <1>1, <2>1 DEF Bucket, AreComplete, RowsOf, MalformedUpTo
    <2> QED
      BY <1>1, <1>4, <2>2 DEF PastCallOf
  <1> QED
    BY <1>1, <1>3, <1>5, <1>6 DEF OwnStep, CallIsSound, Untouched, serverVars, TypeOK

LEMMA RunStep ==
    ASSUME ShadowTypeOK, RowsInv, CallInv, NEW s \in Scorers,
           BeginRun(s) \/ Run(s) \/ WriteFails(s) \/ Kill(s)
    PROVE  OwnStep(s)
  <1>1. TypeOK /\ CallIsSound(s) /\ step \in [Scorers -> Steps]
    BY DEF ShadowTypeOK, CallInv, CallIsSound
  <1> QED
    BY <1>1, SourceStep, EndStep, OutputStep, ScoreStep DEF Run, Ends

\* The calls stay sound in every step.
LEMMA CallsStaySound ==
    ASSUME ShadowTypeOK, RowsInv, CallInv, [ShadowNext]_shadowVars
    PROVE  TypeOK' /\ RowsInv' /\ CallInv' /\ RowsGrow
  <1>0. TypeOK /\ rows \in Seq(Row) /\ now \in Nat
    BY DEF ShadowTypeOK, TypeOK
  <1>1. CASE Server \/ UNCHANGED shadowVars
    <2>1. /\ \A t \in Scorers : Untouched(t)
          /\ UNCHANGED <<pc, epoch, events, page, outcome, units>>
      BY <1>1 DEF Server, Observe, Pass, Untouched, shadowVars, vars
    <2>2. RowsGrow /\ RowsInv'
      BY <1>0, <1>1, ServerGrows, ServerStays DEF Server, shadowVars, vars, serverVars
    <2>3. TypeOK'
      BY <1>0, <2>1, <2>2 DEF TypeOK, RowsGrow, IsUnits
    <2>4. CallInv'
      BY <1>0, <2>1, <2>2, WaitingIsSound DEF CallInv, CallIsSound
    <2> QED
      BY <2>2, <2>3, <2>4
  <1>2. ASSUME NEW s \in Scorers, BeginRun(s) \/ Run(s) \/ WriteFails(s) \/ Kill(s)
        PROVE  TypeOK' /\ RowsInv' /\ CallInv' /\ RowsGrow
    <2>1. OwnStep(s)
      BY <1>2, RunStep
    <2>2. RowsGrow /\ RowsInv'
      BY <1>0, <2>1, ServerStays DEF OwnStep
    <2>3. ASSUME NEW t \in Scorers PROVE CallIsSound(t)'
      <3>1. CASE t = s
        BY <2>1, <3>1 DEF OwnStep
      <3>2. CASE t # s
        BY <1>0, <2>1, <2>2, <3>2, WaitingIsSound DEF OwnStep, CallInv, CallIsSound
      <3> QED
        BY <3>1, <3>2
    <2> QED
      BY <2>1, <2>2, <2>3 DEF OwnStep, CallInv, CallIsSound
  <1> QED
    BY <1>1, <1>2 DEF ShadowNext

-----------------------------------------------------------------------------
(* The output                                                              *)

\* What a write, whole or not, makes of a file.
Writings(old, us) == Overwrite(old, us) \cup PartlyOver(old, us)

\* A step of the output: what is written is what the run was served.
LEMMA WritingChanges ==
    ASSUME ShadowTypeOK, NEW s \in Scorers, Open(s) \/ Write(s) \/ WriteFails(s)
    PROVE  \/ UNCHANGED file
           \/ file' = [file EXCEPT ![epoch[s]] = Torn]
           \/ /\ step[s] = "write"
              /\ \E f \in Writings(file[epoch[s]], units[s]) :
                    file' = [file EXCEPT ![epoch[s]] = f]
  BY DEF Open, Write, WriteFails, Writings

LEMMA ShadowTypesStay ==
    ASSUME ShadowTypeOK, RowsInv, CallInv, [ShadowNext]_shadowVars
    PROVE  ShadowTypeOK'
  <1>0. TypeOK'
    BY CallsStaySound
  <1>1. CASE Server \/ UNCHANGED shadowVars
    BY <1>0, <1>1
    DEF Server, Observe, Pass, shadowVars, vars, runVars, ShadowTypeOK, IsPublished, IsUnits
  <1>2. ASSUME NEW s \in Scorers, BeginRun(s) \/ Run(s) \/ WriteFails(s) \/ Kill(s)
        PROVE  ShadowTypeOK'
    <2>0. /\ TypeOK /\ CallIsSound(s) /\ step \in [Scorers -> Steps] /\ OwnStep(s)
          /\ epoch[s] \in Epochs /\ IsUnits(units[s])
      BY <1>2, RunStep DEF ShadowTypeOK, TypeOK, CallInv, CallIsSound
    <2>1. /\ step' \in [Scorers -> Steps]
          /\ \A t \in Scorers : t # s => step'[t] = step[t]
          /\ step'[s] = "start" <=> pc'[s] = "idle"
          /\ step'[s] \in {"open", "write", "print"} => outcome'[s] = "Ok"
      <3>0. /\ step[s] = "start" <=> pc[s] = "idle"
            /\ step[s] \in {"open", "write", "print"} => outcome[s] = "Ok"
        BY DEF ShadowTypeOK
      <3>1. CASE Ends(s)
        BY <2>0, <3>1, EndStep DEF Steps
      <3>2. CASE BeginRun(s)
        <4>1. pc'[s] = "fetch" /\ step' = [step EXCEPT ![s] = "source"]
          BY <2>0, <3>2, StartTypes DEF BeginRun, Goto
        <4> QED
          BY <2>0, <4>1 DEF Steps
      <3>3. CASE ReadSource(s)
        <4>1. pc'[s] # "idle" /\ step' = step /\ step[s] = "source"
          BY <2>0, <3>3, CallTypes DEF ReadSource, runVars
        <4> QED
          BY <2>0, <4>1
      <3>4. CASE Score(s)
        <4>1. /\ \E to \in {"open", "print"} : step' = [step EXCEPT ![s] = to]
              /\ outcome[s] = "Ok" /\ UNCHANGED <<pc, outcome>>
          BY <3>4 DEF Score, Scores, Goto
        <4>2. pc[s] = "end"
          BY <2>0, <4>1, ServedHasEnded
        <4> QED
          BY <2>0, <4>1, <4>2 DEF Steps
      <3>5. CASE Open(s) \/ Write(s)
        <4>1. /\ \E to \in {"write", "print"} : step' = [step EXCEPT ![s] = to]
              /\ step[s] \in {"open", "write"} /\ UNCHANGED <<pc, outcome>>
          BY <3>5 DEF Open, Write, Goto, vars
        <4> QED
          BY <2>0, <3>0, <4>1 DEF Steps
      <3> QED
        BY <1>2, <3>1, <3>2, <3>3, <3>4, <3>5 DEF Run, Ends
    <2>2. \A t \in Scorers :
             /\ step'[t] = "start" <=> pc'[t] = "idle"
             /\ step'[t] \in {"open", "write", "print"} => outcome'[t] = "Ok"
      BY <2>0, <2>1 DEF OwnStep, Untouched, ShadowTypeOK
    <2>3. DOMAIN file' = Epochs /\ \A e \in Epochs : file'[e] \in {None, Torn} \/ IsPublished(file'[e])
      <3>0. DOMAIN file = Epochs /\ \A e \in Epochs : file[e] \in {None, Torn} \/ IsPublished(file[e])
        BY DEF ShadowTypeOK
      <3>1. CASE UNCHANGED file
        BY <3>0, <3>1
      <3>2. CASE file' = [file EXCEPT ![epoch[s]] = Torn]
        BY <3>0, <3>2 DEF ShadowTypeOK
      <3>3. ASSUME NEW f \in Writings(file[epoch[s]], units[s]),
                   file' = [file EXCEPT ![epoch[s]] = f]
            PROVE  DOMAIN file' = Epochs
                   /\ \A e \in Epochs : file'[e] \in {None, Torn} \/ IsPublished(file'[e])
        <4>1. \/ f \in {Torn, file[epoch[s]]}
              \/ \E w \in BOOLEAN : f = [units |-> units[s], whole |-> w]
          BY <3>3 DEF Overwrite, PartlyOver, Writings
        <4>2. f \in {None, Torn} \/ IsPublished(f)
          BY <2>0, <3>0, <4>1 DEF IsPublished
        <4> QED
          BY <3>0, <3>3, <4>2
      <3>4. CASE Open(s) \/ Write(s) \/ WriteFails(s)
        BY <3>1, <3>2, <3>3, <3>4, WritingChanges
      <3>5. CASE ~(Open(s) \/ Write(s) \/ WriteFails(s))
        BY <1>2, <3>1, <3>5
        DEF Run, BeginRun, ReadSource, SourceFails, Score, ScoreFails, MissingSeed, PrintResult,
            Kill, runVars
      <3> QED
        BY <3>4, <3>5
    <2>4. \A x \in printed' : x.epoch \in Epochs /\ IsUnits(x.units)
      <3>0. \A x \in printed : x.epoch \in Epochs /\ IsUnits(x.units)
        BY DEF ShadowTypeOK
      <3>1. \/ printed' = printed
            \/ printed' = printed \cup {[epoch |-> epoch[s], units |-> units[s]]}
        BY <1>2
        DEF Run, BeginRun, ReadSource, SourceFails, Score, ScoreFails, MissingSeed, PrintResult,
            Kill, Open, Write, WriteFails, runVars
      <3> QED
        BY <2>0, <3>0, <3>1
    <2>5. faults' \in 0..MaxFaults
      <3>0. faults \in 0..MaxFaults
        BY DEF ShadowTypeOK
      <3>1. faults' = faults \/ Fault
        BY <1>2
        DEF Run, BeginRun, ReadSource, SourceFails, Score, ScoreFails, MissingSeed, PrintResult,
            Kill, Open, Write, WriteFails, runVars
      <3> QED
        BY <3>0, <3>1 DEF Fault
    <2> QED
      BY <1>0, <2>1, <2>2, <2>3, <2>4, <2>5 DEF ShadowTypeOK, IsPublished, IsUnits
  <1> QED
    BY <1>1, <1>2 DEF ShadowNext

\* The units of a run that was served are the whole of its epoch.
LEMMA ServedIsComplete ==
    ASSUME ShadowTypeOK, CallInv, OnlyPastEpochs, NEW s \in Scorers, outcome[s] = "Ok"
    PROVE  /\ epoch[s] \in Epochs
           /\ epoch[s] < Bucket(now)
           /\ AreComplete(units[s], epoch[s])
  <1>1. CallIsSound(s) /\ TypeOK
    BY DEF CallInv, CallIsSound, ShadowTypeOK
  <1>2. pc[s] = "end"
    BY <1>1, ServedHasEnded
  <1> QED
    BY <1>1, <1>2 DEF CallIsSound, PastCallOf, TypeOK

\* A commitment written over another of its epoch is whole, and one partly
\* written over another leaves that whole: both are to the same units.
LEMMA OverwriteIsWhole ==
    ASSUME NEW old, NEW us, NEW e, NEW f \in Writings(old, us), AreComplete(us, e),
           old \notin {None, Torn} => old.whole /\ AreComplete(old.units, e)
    PROVE  f = [units |-> us, whole |-> TRUE] \/ f \in {Torn, old}
  <1>1. old \in {None, Torn} \/ (old.whole /\ old.units = us)
    BY DEF AreComplete
  <1> QED
    BY <1>1 DEF Overwrite, PartlyOver, Writings

\* What is published or printed stays the whole of its epoch.
LEMMA OutputStays ==
    ASSUME ShadowTypeOK, RowsInv, CallInv, OnlyPastEpochs, OutputInv,
           [ShadowNext]_shadowVars
    PROVE  OutputInv'
  <1>0. /\ rows \in Seq(Row) /\ now \in Nat /\ RowsGrow
    BY CallsStaySound DEF ShadowTypeOK, TypeOK
  <1>1. ASSUME NEW e \in Epochs, e < Bucket(now), NEW us, AreComplete(us, e)
        PROVE  (e < Bucket(now))' /\ AreComplete(us, e)'
    BY <1>0, <1>1, EpochIsOver, CompleteIsKept DEF Epochs
  <1>2. ASSUME NEW e \in Epochs
        PROVE  (file[e] \notin {None, Torn} =>
                   /\ file[e].whole
                   /\ e < Bucket(now)
                   /\ AreComplete(file[e].units, e))'
    <2>0. file[e] \notin {None, Torn} =>
              file[e].whole /\ e < Bucket(now) /\ AreComplete(file[e].units, e)
      BY DEF OutputInv
    <2>1. CASE file'[e] = file[e]
      <3>1. PICK c : c = file[e]
        OBVIOUS
      <3>2. c \notin {None, Torn} =>
               c.whole /\ e < Bucket(now) /\ AreComplete(c.units, e)
        BY <2>0, <3>1
      <3>3. c \notin {None, Torn} => (e < Bucket(now))' /\ AreComplete(c.units, e)'
        BY <1>1, <3>2
      <3> QED
        BY <2>1, <3>1, <3>2, <3>3
    <2>2. CASE file'[e] = Torn
      BY <2>2
    <2>3. CASE file'[e] \notin {Torn, file[e]}
      <3>1. PICK s \in Scorers :
               /\ step[s] = "write" /\ e = epoch[s]
               /\ \E f \in Writings(file[e], units[s]) : file' = [file EXCEPT ![e] = f]
        <4>1. \E s \in Scorers : Open(s) \/ Write(s) \/ WriteFails(s)
          BY <2>3
          DEF ShadowNext, Server, Run, BeginRun, ReadSource, SourceFails, Score, ScoreFails,
              MissingSeed, PrintResult, Kill, runVars, shadowVars
        <4> QED
          BY <2>3, <4>1, WritingChanges DEF ShadowTypeOK
      <3>2. PICK f \in Writings(file[e], units[s]) : file' = [file EXCEPT ![e] = f]
        BY <3>1
      <3>3. outcome[s] = "Ok"
        BY <3>1 DEF ShadowTypeOK
      <3>4. e < Bucket(now) /\ AreComplete(units[s], e)
        BY <3>1, <3>3, ServedIsComplete
      <3>5. file'[e] = f
        BY <3>2 DEF ShadowTypeOK
      <3>6. f = [units |-> units[s], whole |-> TRUE]
        BY <2>0, <2>3, <3>2, <3>4, <3>5, OverwriteIsWhole
      <3>7. PICK us : us = units[s]
        OBVIOUS
      <3>8. (e < Bucket(now))' /\ AreComplete(us, e)'
        BY <1>1, <3>4, <3>7
      <3> QED
        BY <3>5, <3>6, <3>7, <3>8
    <2> QED
      BY <2>1, <2>2, <2>3
  <1>3. ASSUME NEW x \in printed'
        PROVE  (x.epoch < Bucket(now))' /\ AreComplete(x.units, x.epoch)'
    <2>1. x.epoch \in Epochs /\ x.epoch < Bucket(now) /\ AreComplete(x.units, x.epoch)
      <3>1. CASE x \in printed
        BY <3>1 DEF OutputInv, ShadowTypeOK
      <3>2. CASE x \notin printed
        <4>1. PICK s \in Scorers : PrintResult(s)
          BY <3>2
          DEF ShadowNext, Server, Run, BeginRun, ReadSource, SourceFails, Score, ScoreFails,
              MissingSeed, Kill, Open, Write, WriteFails, runVars, shadowVars
        <4>2. outcome[s] = "Ok" /\ x = [epoch |-> epoch[s], units |-> units[s]]
          BY <3>2, <4>1 DEF PrintResult, ShadowTypeOK
        <4> QED
          BY <4>2, ServedIsComplete
      <3> QED
        BY <3>1, <3>2
    <2> QED
      BY <1>1, <2>1
  <1> QED
    BY <1>2, <1>3 DEF OutputInv

-----------------------------------------------------------------------------
LEMMA ShadowInvInit == ShadowInit => ShadowInv
  <1> SUFFICES ASSUME ShadowInit PROVE ShadowInv
    OBVIOUS
  <1>1. TypeOK
    BY ZeroIsAnEpoch, NoUnits DEF ShadowInit, Init, TypeOK, IsUnits
  <1>2. ShadowTypeOK
    BY <1>1 DEF ShadowInit, Init, ShadowTypeOK, Steps
  <1>3. RowsInv
    BY DEF ShadowInit, Init, RowsInv
  <1>4. IsPrefix(<<>>, <<>>)
    BY DEF IsPrefix
  <1>5. CallInv
    BY <1>4, NothingDeserializes DEF ShadowInit, Init, CallInv, CallOf, PastCallOf
  <1> QED
    BY <1>2, <1>3, <1>5 DEF ShadowInv, OutputInv, ShadowInit

LEMMA ShadowInvNext == ShadowInv /\ [ShadowNext]_shadowVars => ShadowInv'
  BY ShadowTypesStay, CallsStaySound, OutputStays DEF ShadowInv

LEMMA ShadowInvAlways == ShadowSpec => []ShadowInv
  BY ShadowInvInit, ShadowInvNext, PTL DEF ShadowSpec

\* All variables keep their types, and a run whose source has not answered has
\* nothing to publish.
THEOREM ShadowTypeCorrect == ShadowSpec => []ShadowTypeOK
  <1>1. ShadowInv => ShadowTypeOK
    BY DEF ShadowInv
  <1> QED
    BY <1>1, ShadowInvAlways, PTL

\* tosctld.rs, fetch_all: at any speed of the list, and for any epoch, a call has
\* a beginning of the list in hand, with no row twice and none left out.
THEOREM CallsReadAPrefix == ShadowSpec => []EventsAreAPrefix
  <1>1. ShadowInv => EventsAreAPrefix
    BY DEF ShadowInv, CallInv, CallOf, EventsAreAPrefix
  <1> QED
    BY <1>1, ShadowInvAlways, PTL

\* tosctld.rs, lines 13-17: what is served, printed or published of an epoch that
\* is over is the whole of it.
THEOREM ResultsStayComplete ==
    ASSUME OnlyPastEpochs = TRUE
    PROVE  ShadowSpec => []ResultsAreComplete
  <1>1. ShadowInv => ResultsAreComplete
    BY ServedIsComplete DEF ShadowInv, OutputInv, ResultsAreComplete, Results
  <1> QED
    BY <1>1, ShadowInvAlways, PTL

\* tosctld.rs, lines 15-17: two calls for an epoch that is over, that the list
\* decides, have the same units or fail both.
THEOREM PastScorersAgree ==
    ASSUME OnlyPastEpochs = TRUE
    PROVE  ShadowSpec => []ScorersAgree
  <1>1. ShadowInv => ScorersAgree
    <2> SUFFICES ASSUME ShadowInv, NEW s \in Scorers, NEW t \in Scorers,
                        Decided(s), Decided(t), epoch[s] = epoch[t]
                 PROVE  outcome[s] = outcome[t] /\ units[s] = units[t]
      BY DEF ScorersAgree
    <2>1. /\ PastCallOf(s) /\ PastCallOf(t)
          /\ outcome[s] # "Ok" => units[s] = <<>>
          /\ outcome[t] # "Ok" => units[t] = <<>>
      BY DEF ShadowInv, CallInv, CallOf
    <2>1a. outcome[s] = "Shape" <=> outcome[t] = "Shape"
      BY <2>1 DEF PastCallOf, Decided
    <2>2. outcome[s] = "Ok" <=> outcome[t] = "Ok"
      BY <2>1, <2>1a DEF PastCallOf, AreComplete, Decided
    <2>3. outcome[s] = "Ok" => units[s] = units[t]
      BY <2>1, <2>2 DEF PastCallOf, AreComplete
    <2> QED
      BY <2>1, <2>1a, <2>2, <2>3 DEF Decided
  <1> QED
    BY <1>1, ShadowInvAlways, PTL

\* lib.rs of aipow-commitment, FileSubmitter: processes that write the file of an
\* epoch at once leave it torn or whole.
THEOREM FilesStayWhole ==
    ASSUME OnlyPastEpochs = TRUE
    PROVE  ShadowSpec => []FilesAreNeverMixed
  <1>1. ShadowInv => FilesAreNeverMixed
    BY DEF ShadowInv, OutputInv, FilesAreNeverMixed
  <1> QED
    BY <1>1, ShadowInvAlways, PTL
=============================================================================
