----------------------- MODULE DesignerHistory_proofs -----------------------
(***************************************************************************)
(* The history by itself implements the undo list, for documents,          *)
(* selections and keys of any kind and for any limit.                      *)
(***************************************************************************)
EXTENDS DesignerHistory, Integers, SequenceTheorems, TLAPS

CONSTANTS Docs, Sels, Keys     \* what its callers may pass it

HistoryNext ==
  \/ \E d \in Docs, s \in Sels :
       \/ \E key \in Keys \cup {NoKey} : Commit(d, s, key)
       \/ CommitSame(s)
       \/ Select(s)
  \/ Undo \/ Redo \/ Pause \/ MarkSaved

HistorySpec == (\E d \in Docs : HistoryInit(d)) /\ [][HistoryNext]_historyVars

Entries == [doc : Docs, sel : Sels \cup {<< >>}]

\* Past and future together fit in the limit: that is why undoing and redoing
\* never cut anything off.  And a burst goes on only where nothing is undone.
HistoryInv ==
  /\ doc \in Docs /\ sel \in Sels \cup {<< >>}
  /\ past \in Seq(Entries) /\ future \in Seq(Entries)
  /\ Len(past) + Len(future) <= LIMIT
  /\ lastKey # NoKey => future = << >>

---------------------------------------------------------------------------
(* Sequences *)

LEMMA LimitIsNat == LIMIT \in Nat /\ LIMIT >= 1
BY LimitAssumption

\* A line of a past p, an entry e and a future f.
LEMMA ThreeParts ==
  ASSUME NEW S, NEW p \in Seq(S), NEW e \in S, NEW f \in Seq(S)
  PROVE  /\ p \o << e >> \o f \in Seq(S)
         /\ Len(p \o << e >> \o f) = Len(p) + 1 + Len(f)
         /\ \A k \in 1 .. Len(p) + 1 + Len(f) :
              (p \o << e >> \o f)[k] =
                IF k <= Len(p) THEN p[k]
                ELSE IF k = Len(p) + 1 THEN e ELSE f[k - (Len(p) + 1)]
<1>1. << e >> \in Seq(S) /\ Len(<< e >>) = 1 /\ << e >>[1] = e
  OBVIOUS
<1>2. /\ p \o << e >> \in Seq(S) /\ Len(p \o << e >>) = Len(p) + 1
      /\ \A k \in 1 .. Len(p) + 1 :
           (p \o << e >>)[k] = IF k <= Len(p) THEN p[k] ELSE << e >>[k - Len(p)]
  BY <1>1, ConcatProperties
<1>3. Len(p) \in Nat /\ Len(f) \in Nat
  BY LenProperties
<1>4. \A k \in 1 .. Len(p) + 1 : (p \o << e >>)[k] = IF k <= Len(p) THEN p[k] ELSE e
  BY <1>1, <1>2, <1>3
<1>5. /\ p \o << e >> \o f \in Seq(S)
      /\ Len(p \o << e >> \o f) = Len(p) + 1 + Len(f)
      /\ \A k \in 1 .. Len(p) + 1 + Len(f) :
           (p \o << e >> \o f)[k] =
             IF k <= Len(p) + 1 THEN (p \o << e >>)[k] ELSE f[k - (Len(p) + 1)]
  BY <1>2, ConcatProperties
<1> QED BY <1>3, <1>4, <1>5

LEMMA SuffixKept ==
  ASSUME NEW S, NEW s \in Seq(S), NEW from \in 1 .. Len(s) + 1
  PROVE  /\ SubSeq(s, from, Len(s)) \in Seq(S)
         /\ Len(SubSeq(s, from, Len(s))) = Len(s) - from + 1
         /\ \A k \in 1 .. Len(s) - from + 1 : SubSeq(s, from, Len(s))[k] = s[from + k - 1]
<1>1. Len(s) \in Nat /\ \A i \in from .. Len(s) : s[i] \in S
  BY LenProperties, ElementOfSeq
<1>2. /\ SubSeq(s, from, Len(s)) \in Seq(S)
      /\ Len(SubSeq(s, from, Len(s))) = IF from <= Len(s) THEN Len(s) - from + 1 ELSE 0
      /\ \A i \in 1 .. Len(s) - from + 1 : SubSeq(s, from, Len(s))[i] = s[from + i - 1]
  BY <1>1, SubSeqProperties
<1>3. (IF from <= Len(s) THEN Len(s) - from + 1 ELSE 0) = Len(s) - from + 1
  BY <1>1
<1> QED BY <1>2, <1>3

LEMMA PrefixKept ==
  ASSUME NEW S, NEW s \in Seq(S), NEW n \in Nat, n <= Len(s)
  PROVE  /\ SubSeq(s, 1, n) \in Seq(S) /\ Len(SubSeq(s, 1, n)) = n
         /\ \A k \in 1 .. n : SubSeq(s, 1, n)[k] = s[k]
<1>1. \A k \in 1 .. n : s[k] \in S
  BY LenProperties, ElementOfSeq
<1>2. /\ SubSeq(s, 1, n) \in Seq(S)
      /\ Len(SubSeq(s, 1, n)) = IF 1 <= n THEN n - 1 + 1 ELSE 0
      /\ \A k \in 1 .. n - 1 + 1 : SubSeq(s, 1, n)[k] = s[1 + k - 1]
  BY <1>1, SubSeqProperties
<1>3. \A k \in 1 .. n : k \in 1 .. n - 1 + 1 /\ 1 + k - 1 = k
  OBVIOUS
<1> QED BY <1>2, <1>3

\* What fits is not cut.
LEMMA NothingCut ==
  ASSUME NEW S, NEW s \in Seq(S), Len(s) <= LIMIT
  PROVE  LastEntries(s) = s /\ FirstEntries(s) = s
<1>1. Len(s) \in Nat /\ ~(Len(s) > LIMIT)
  BY LenProperties, LimitIsNat
<1> QED BY <1>1, SubSeqFull DEF LastEntries, FirstEntries

---------------------------------------------------------------------------
(* The invariant *)

LEMMA EntryIsEntry ==
  ASSUME HistoryInv PROVE Entry \in Entries
BY DEF HistoryInv, Entry, Entries

LEMMA EntryOf ==
  ASSUME NEW e \in Entries
  PROVE  /\ e.doc \in Docs /\ e.sel \in Sels \cup {<< >>}
         /\ e = [doc |-> e.doc, sel |-> e.sel]
BY DEF Entries

\* The past with the entry a commit adds.
LEMMA Longer ==
  ASSUME HistoryInv
  PROVE  /\ Append(past, Entry) \in Seq(Entries)
         /\ Append(past, Entry) = past \o << Entry >>
         /\ Len(Append(past, Entry)) = Len(past) + 1
         /\ \A k \in 1 .. Len(past) : Append(past, Entry)[k] = past[k]
         /\ Append(past, Entry)[Len(past) + 1] = Entry
BY EntryIsEntry, AppendProperties, AppendIsConcat DEF HistoryInv

LEMMA Lengths ==
  ASSUME HistoryInv
  PROVE  /\ Len(past) \in Nat /\ Len(future) \in Nat
         /\ past # << >> => Len(past) >= 1
         /\ future # << >> => Len(future) >= 1
         /\ future = << >> => Len(future) = 0
BY LenProperties, EmptySeq DEF HistoryInv

LEMMA InvInit == (\E d \in Docs : HistoryInit(d)) => HistoryInv
BY LimitIsNat, EmptySeq DEF HistoryInit, HistoryInv

LEMMA Undone ==
  ASSUME HistoryInv, Undo
  PROVE  /\ past' \in Seq(Entries) /\ Len(past') = Len(past) - 1
         /\ \A k \in 1 .. Len(past) - 1 : past'[k] = past[k]
         /\ Entry' = past[Len(past)] /\ Entry' \in Entries
         /\ future' = << Entry >> \o future
         /\ future' \in Seq(Entries) /\ Len(future') = Len(future) + 1
         /\ \A k \in 1 .. Len(future) + 1 :
              future'[k] = IF k = 1 THEN Entry ELSE future[k - 1]
<1> USE Lengths, LimitIsNat
<1>1. Len(past) >= 1 /\ \A k \in 1 .. Len(past) : past[k] \in Entries
  BY ElementOfSeq DEF Undo, HistoryInv
<1>2. /\ SubSeq(past, 1, Len(past) - 1) \in Seq(Entries)
      /\ Len(SubSeq(past, 1, Len(past) - 1)) = Len(past) - 1
      /\ \A k \in 1 .. Len(past) - 1 : SubSeq(past, 1, Len(past) - 1)[k] = past[k]
  <2>1. past \in Seq(Entries) /\ Len(past) - 1 \in Nat /\ Len(past) - 1 <= Len(past)
    BY <1>1 DEF HistoryInv
  <2> QED BY <2>1, PrefixKept
<1>3. Entry' = past[Len(past)] /\ Entry' \in Entries
  <2>1. past[Len(past)] \in Entries
    BY <1>1
  <2> QED BY <2>1, EntryOf DEF Undo, Entry
<1>4. << Entry >> \in Seq(Entries) /\ Len(<< Entry >>) = 1 /\ << Entry >>[1] = Entry
  BY EntryIsEntry
<1>5. /\ << Entry >> \o future \in Seq(Entries)
      /\ Len(<< Entry >> \o future) = Len(future) + 1
      /\ \A k \in 1 .. Len(future) + 1 :
           (<< Entry >> \o future)[k] = IF k = 1 THEN Entry ELSE future[k - 1]
  <2>1. future \in Seq(Entries)
    BY DEF HistoryInv
  <2>2. /\ << Entry >> \o future \in Seq(Entries)
        /\ Len(<< Entry >> \o future) = 1 + Len(future)
        /\ \A k \in 1 .. 1 + Len(future) :
             (<< Entry >> \o future)[k] = IF k <= 1 THEN << Entry >>[k] ELSE future[k - 1]
    BY <1>4, <2>1, ConcatProperties
  <2> QED BY <1>4, <2>2
<1>6. Len(<< Entry >> \o future) <= LIMIT
  BY <1>1, <1>5 DEF HistoryInv
<1>7. future' = << Entry >> \o future
  BY <1>5, <1>6, NothingCut DEF Undo
<1> QED BY <1>2, <1>3, <1>5, <1>7 DEF Undo

LEMMA Redone ==
  ASSUME HistoryInv, Redo
  PROVE  /\ past' = Append(past, Entry)
         /\ Entry' = future[1] /\ Entry' \in Entries
         /\ future' \in Seq(Entries) /\ Len(future') = Len(future) - 1
         /\ \A k \in 1 .. Len(future) - 1 : future'[k] = future[k + 1]
<1> USE Lengths, LimitIsNat
<1>1. Len(future) >= 1 /\ future[1] \in Entries
  BY ElementOfSeq DEF Redo, HistoryInv
<1>2. Len(Append(past, Entry)) <= LIMIT
  BY <1>1, Longer DEF HistoryInv
<1>3. past' = Append(past, Entry)
  BY <1>2, Longer, NothingCut DEF Redo
<1>4. Entry' = future[1]
  BY <1>1, EntryOf DEF Redo, Entry
<1>5. /\ Tail(future) \in Seq(Entries) /\ Len(Tail(future)) = Len(future) - 1
      /\ \A k \in 1 .. Len(Tail(future)) : Tail(future)[k] = future[k + 1]
  BY HeadTailProperties DEF Redo, HistoryInv
<1> QED BY <1>1, <1>3, <1>4, <1>5 DEF Redo

LEMMA InvNext == HistoryInv /\ [HistoryNext]_historyVars => HistoryInv'
<1> SUFFICES ASSUME HistoryInv, [HistoryNext]_historyVars PROVE HistoryInv'
  OBVIOUS
<1> USE Lengths, LimitIsNat
<1>1. ASSUME NEW d \in Docs, NEW s \in Sels, NEW key \in Keys \cup {NoKey}, Commit(d, s, key)
      PROVE  HistoryInv'
  <2>1. past' \in Seq(Entries) /\ Len(past') <= LIMIT
    <3>1. CASE past' = past
      BY <3>1 DEF HistoryInv
    <3>2. CASE past' = LastEntries(Append(past, Entry))
      <4> DEFINE longer == Append(past, Entry)
                 from   == IF Len(longer) > LIMIT THEN Len(longer) - LIMIT + 1 ELSE 1
      <4>1. longer \in Seq(Entries) /\ Len(longer) \in Nat
        BY Longer
      <4>2. past' = SubSeq(longer, from, Len(longer))
        BY <3>2 DEF LastEntries
      <4> HIDE DEF longer
      <4>3. from \in 1 .. Len(longer) + 1 /\ Len(longer) - from + 1 <= LIMIT
        BY <4>1
      <4> QED BY <4>1, <4>2, <4>3, SuffixKept
    <3> QED BY <1>1, <3>1, <3>2 DEF Commit
  <2>2. future' = << >> /\ << >> \in Seq(Entries) /\ Len(<< >>) = 0
    BY <1>1, EmptySeq DEF Commit
  <2>3. doc' = d /\ sel' = s
    BY <1>1 DEF Commit
  <2>4. Len(past') \in Nat
    BY <2>1, LenProperties
  <2> QED BY <2>1, <2>2, <2>3, <2>4 DEF HistoryInv
<1>2. ASSUME NEW s \in Sels, CommitSame(s) \/ Select(s) PROVE HistoryInv'
  BY <1>2 DEF HistoryInv, CommitSame, Select
<1>3. CASE Undo
  BY <1>3, Undone, EntryOf DEF HistoryInv, Undo, Entry
<1>4. CASE Redo
  <2>1. past' \in Seq(Entries) /\ Len(past') = Len(past) + 1
    BY <1>4, Redone, Longer
  <2>2. future' \in Seq(Entries) /\ Len(future') = Len(future) - 1
    BY <1>4, Redone
  <2>3. Entry'.doc = doc' /\ Entry'.sel = sel' /\ Entry' \in Entries
    BY <1>4, Redone DEF Entry
  <2>4. doc' \in Docs /\ sel' \in Sels \cup {<< >>}
    BY <2>3, EntryOf
  <2>5. lastKey' = NoKey
    BY <1>4 DEF Redo
  <2> QED BY <2>1, <2>2, <2>4, <2>5 DEF HistoryInv
<1>5. CASE Pause \/ MarkSaved \/ UNCHANGED historyVars
  BY <1>5 DEF HistoryInv, Pause, MarkSaved, historyVars
<1> QED BY <1>1, <1>2, <1>3, <1>4, <1>5 DEF HistoryNext

---------------------------------------------------------------------------
(* The refinement *)

LEMMA LineParts ==
  ASSUME HistoryInv
  PROVE  /\ line \in Seq(Entries) /\ Len(line) = Len(past) + 1 + Len(future)
         /\ pos \in 1 .. Len(line) /\ pos = Len(past) + 1
         /\ \A k \in 1 .. Len(line) :
              line[k] = IF k <= Len(past) THEN past[k]
                        ELSE IF k = pos THEN Entry ELSE future[k - pos]
<1>1. past \in Seq(Entries) /\ future \in Seq(Entries) /\ Entry \in Entries
  BY EntryIsEntry DEF HistoryInv
<1>2. Len(past) \in Nat /\ Len(future) \in Nat
  BY Lengths
<1> QED BY <1>1, <1>2, ThreeParts DEF line, pos

LEMMA NextLineParts ==
  ASSUME HistoryInv'
  PROVE  /\ line' \in Seq(Entries) /\ Len(line') = Len(past') + 1 + Len(future')
         /\ pos' \in 1 .. Len(line') /\ pos' = Len(past') + 1
         /\ \A k \in 1 .. Len(line') :
              line'[k] = IF k <= Len(past') THEN past'[k]
                         ELSE IF k = pos' THEN Entry' ELSE future'[k - pos']
<1>1. past' \in Seq(Entries) /\ future' \in Seq(Entries) /\ Entry' \in Entries
  BY DEF HistoryInv, Entry, Entries
<1>2. Len(past') \in Nat /\ Len(future') \in Nat
  BY <1>1, LenProperties
<1> QED BY <1>1, <1>2, ThreeParts DEF line, pos

\* Undo and redo move along the line.
LEMMA LineStays ==
  ASSUME HistoryInv, HistoryInv', Undo \/ Redo
  PROVE  line' = line
<1> USE Lengths
<1>1. CASE Undo
  <2>0. Len(past') = Len(past) - 1 /\ Len(future') = Len(future) + 1
    BY <1>1, Undone
  <2>1. Len(line') = Len(line) /\ Len(line) = Len(past) + 1 + Len(future)
    <3>1. Len(line') = Len(past') + 1 + Len(future') /\ Len(line) = Len(past) + 1 + Len(future)
      BY LineParts, NextLineParts
    <3> QED BY <2>0, <3>1
  <2>2. ASSUME NEW k \in 1 .. Len(line) PROVE line'[k] = line[k]
    <3>1. k \in Nat /\ k <= Len(past) + 1 + Len(future) /\ pos' = Len(past)
      BY <1>1, LineParts, NextLineParts, Undone
    <3>2. CASE k <= Len(past) - 1
      BY <1>1, <2>1, <3>1, <3>2, LineParts, NextLineParts, Undone
    <3>3. CASE k = Len(past)
      BY <1>1, <2>1, <3>1, <3>3, LineParts, NextLineParts, Undone
    <3>4. CASE k > Len(past)
      <4>1. line'[k] = future'[k - Len(past)]
        <5>1. ~(k <= Len(past')) /\ ~(k = pos') /\ k \in 1 .. Len(line')
          BY <2>0, <2>1, <3>1, <3>4
        <5> QED BY <3>1, <5>1, NextLineParts
      <4>2. k - Len(past) \in 1 .. Len(future) + 1 /\ (k - Len(past)) - 1 = k - (Len(past) + 1)
        BY <3>1, <3>4
      <4>3. line'[k] = IF k - Len(past) = 1 THEN Entry ELSE future[k - (Len(past) + 1)]
        BY <1>1, <4>1, <4>2, Undone
      <4> QED BY <3>1, <3>4, <4>3, LineParts
    <3> QED BY <3>1, <3>2, <3>3, <3>4
  <2> QED BY <2>1, <2>2, LineParts, NextLineParts, SeqEqual
<1>2. CASE Redo
  <2>0. Len(past') = Len(past) + 1 /\ Len(future') = Len(future) - 1
    BY <1>2, Redone, Longer
  <2>1. Len(line') = Len(line) /\ Len(line) = Len(past) + 1 + Len(future)
    <3>1. Len(line') = Len(past') + 1 + Len(future') /\ Len(line) = Len(past) + 1 + Len(future)
      BY LineParts, NextLineParts
    <3> QED BY <2>0, <3>1
  <2>2. ASSUME NEW k \in 1 .. Len(line) PROVE line'[k] = line[k]
    <3>1. k \in Nat /\ k <= Len(past) + 1 + Len(future) /\ pos' = Len(past) + 2
          /\ Len(past') = Len(past) + 1
      BY <1>2, LineParts, NextLineParts, Redone, Longer
    <3>2. CASE k <= Len(past) + 1
      <4>1. line'[k] = Append(past, Entry)[k]
        <5>1. k <= Len(past') /\ k \in 1 .. Len(line')
          BY <2>1, <3>1, <3>2
        <5> QED BY <1>2, <5>1, NextLineParts, Redone
      <4>2. line[k] = IF k <= Len(past) THEN past[k] ELSE Entry
        BY <3>1, <3>2, LineParts
      <4>3. Append(past, Entry)[k] = IF k <= Len(past) THEN past[k] ELSE Entry
        BY <3>1, <3>2, Longer
      <4> QED BY <4>1, <4>2, <4>3
    <3>3. CASE k = Len(past) + 2
      BY <1>2, <2>1, <3>1, <3>3, LineParts, NextLineParts, Redone
    <3>4. CASE k > Len(past) + 2
      <4>1. line'[k] = future'[k - (Len(past) + 2)]
        BY <2>1, <3>1, <3>4, NextLineParts
      <4>2. k - (Len(past) + 2) \in 1 .. Len(future) - 1
            /\ (k - (Len(past) + 2)) + 1 = k - (Len(past) + 1)
        BY <3>1, <3>4
      <4>3. line'[k] = future[k - (Len(past) + 1)]
        BY <1>2, <4>1, <4>2, Redone
      <4> QED BY <3>1, <3>4, <4>3, LineParts
    <3> QED BY <3>1, <3>2, <3>3, <3>4
  <2> QED BY <2>1, <2>2, LineParts, NextLineParts, SeqEqual
<1> QED BY <1>1, <1>2

\* A commit that continues a burst changes the last state of the line.
LEMMA CommitAmends ==
  ASSUME HistoryInv, HistoryInv', NEW d, NEW s, NEW key, Commit(d, s, key), past' = past, past # << >>,
         future = << >>
  PROVE  Promise!Amend(Entry')
<1> USE Lengths
<1>1. pos = Len(line) /\ pos > 1 /\ pos' = pos /\ future' = << >> /\ Len(line') = Len(line)
  <2>1. future' = << >> /\ Len(<< >>) = 0
    BY EmptySeq DEF Commit
  <2> QED BY <2>1, LineParts, NextLineParts
<1>2. Entry' \in Entries
  BY DEF HistoryInv, Entry, Entries
<1>3. /\ [line EXCEPT ![pos] = Entry'] \in Seq(Entries)
      /\ Len([line EXCEPT ![pos] = Entry']) = Len(line)
      /\ \A j \in 1 .. Len(line) :
           [line EXCEPT ![pos] = Entry'][j] = IF j = pos THEN Entry' ELSE line[j]
  BY <1>2, LineParts, ExceptSeq
<1>4. \A k \in 1 .. Len(line) : line'[k] = IF k = pos THEN Entry' ELSE line[k]
  BY <1>1, LineParts, NextLineParts
<1>5. line' = [line EXCEPT ![pos] = Entry']
  BY <1>1, <1>3, <1>4, NextLineParts, SeqEqual
<1> QED BY <1>1, <1>5 DEF Promise!Amend

\* Any other commit forgets the future and adds a state.
LEMMA CommitPushes ==
  ASSUME HistoryInv, HistoryInv', NEW d, NEW s, NEW key, Commit(d, s, key),
         past' = LastEntries(Append(past, Entry))
  PROVE  Promise!Push(Entry')
<1> USE Lengths, LimitIsNat
<1> DEFINE longer == Append(past, Entry)
           whole  == Append(SubSeq(line, 1, pos), Entry')
<1>1. SubSeq(line, 1, pos) = longer
  <2>1. line \in Seq(Entries) /\ pos \in Nat /\ pos <= Len(line)
    BY LineParts
  <2>2. /\ SubSeq(line, 1, pos) \in Seq(Entries) /\ Len(SubSeq(line, 1, pos)) = pos
        /\ \A k \in 1 .. pos : SubSeq(line, 1, pos)[k] = line[k]
    BY <2>1, PrefixKept
  <2>4. \A k \in 1 .. pos : line[k] = longer[k]
    BY LineParts, Longer
  <2>5. Len(longer) = pos
    BY LineParts, Longer
  <2> QED BY <2>2, <2>4, <2>5, Longer, SeqEqual
<1>2. Entry' \in Entries
  BY DEF HistoryInv, Entry, Entries
<1>3. /\ whole \in Seq(Entries) /\ Len(whole) = Len(past) + 2
      /\ \A k \in 1 .. Len(past) + 1 : whole[k] = longer[k]
      /\ whole[Len(past) + 2] = Entry'
  <2> HIDE DEF longer
  <2>1. longer \in Seq(Entries) /\ Len(longer) = Len(past) + 1
    BY Longer DEF longer
  <2>2. whole = Append(longer, Entry')
    BY <1>1
  <2> HIDE DEF whole
  <2> QED BY <1>2, <2>1, <2>2, AppendProperties
<1> DEFINE from == IF Len(past) + 1 > LIMIT THEN Len(past) + 2 - LIMIT ELSE 1
<1>4. /\ past' \in Seq(Entries) /\ Len(past') = Len(past) + 2 - from
      /\ \A k \in 1 .. Len(past') : past'[k] = longer[from + k - 1]
  <2> HIDE DEF longer
  <2>1. longer \in Seq(Entries) /\ Len(longer) = Len(past) + 1
    BY Longer DEF longer
  <2>2. (IF Len(longer) > LIMIT THEN Len(longer) - LIMIT + 1 ELSE 1) = from
    BY <2>1
  <2> HIDE DEF from
  <2>3. past' = SubSeq(longer, from, Len(longer))
    BY <2>2 DEF LastEntries, longer
  <2>4. /\ past' \in Seq(Entries) /\ Len(past') = Len(longer) - from + 1
        /\ \A k \in 1 .. Len(longer) - from + 1 : past'[k] = longer[from + k - 1]
    <3>1. from \in 1 .. Len(longer) + 1
      BY <2>1 DEF from
    <3> QED BY <2>1, <2>3, <3>1, SuffixKept
  <2>5. from \in Nat
    BY DEF from
  <2> QED BY <2>1, <2>4, <2>5
<1>5. /\ Promise!LastOf(whole, LIMIT + 1) \in Seq(Entries)
      /\ Len(Promise!LastOf(whole, LIMIT + 1)) = Len(past) + 3 - from
      /\ \A k \in 1 .. Len(past) + 3 - from :
           Promise!LastOf(whole, LIMIT + 1)[k] = whole[from + k - 1]
  <2> HIDE DEF whole, longer
  <2>1. (IF Len(whole) > LIMIT + 1 THEN Len(whole) - (LIMIT + 1) + 1 ELSE 1) = from
    BY <1>3
  <2>2. from \in Nat /\ from \in 1 .. Len(whole) + 1
    BY <1>3
  <2> HIDE DEF from
  <2>3. Promise!LastOf(whole, LIMIT + 1) = SubSeq(whole, from, Len(whole))
    BY <2>1 DEF Promise!LastOf
  <2>4. /\ SubSeq(whole, from, Len(whole)) \in Seq(Entries)
        /\ Len(SubSeq(whole, from, Len(whole))) = Len(whole) - from + 1
        /\ \A k \in 1 .. Len(whole) - from + 1 :
             SubSeq(whole, from, Len(whole))[k] = whole[from + k - 1]
    BY <1>3, <2>2, SuffixKept
  <2>5. Len(whole) - from + 1 = Len(past) + 3 - from
    BY <1>3, <2>2
  <2> QED BY <2>3, <2>4, <2>5
<1>6. from \in Nat /\ from >= 1 /\ from <= Len(past) + 1
  OBVIOUS
<1> HIDE DEF from, longer, whole
<1>7. future' = << >> /\ Len(line') = Len(past) + 3 - from /\ pos' = Len(line')
  <2>1. future' = << >> /\ Len(<< >>) = 0
    BY EmptySeq DEF Commit
  <2> QED BY <1>4, <1>6, <2>1, NextLineParts
<1>8. ASSUME NEW k \in 1 .. Len(line')
      PROVE  line'[k] = Promise!LastOf(whole, LIMIT + 1)[k]
  <2>1. k \in 1 .. Len(past) + 3 - from
    BY <1>7
  <2>2. CASE k <= Len(past')
    <3>1. line'[k] = longer[from + k - 1]
      BY <1>4, <2>2, NextLineParts
    <3>2. from + k - 1 \in 1 .. Len(past) + 1
      BY <1>4, <1>6, <2>1, <2>2
    <3> QED BY <1>3, <1>5, <2>1, <3>1, <3>2
  <2>3. CASE k = Len(past') + 1
    <3>1. line'[k] = Entry'
      <4>1. ~(k <= Len(past')) /\ k = pos'
        BY <2>3, <1>4, <1>6, NextLineParts
      <4> QED BY <4>1, NextLineParts
    <3>2. from + k - 1 = Len(past) + 2
      BY <1>4, <1>6, <2>3
    <3> QED BY <1>3, <1>5, <2>1, <3>1, <3>2
  <2> QED BY <1>4, <1>6, <2>1, <2>2, <2>3
<1>9. line' = Promise!LastOf(whole, LIMIT + 1)
  BY <1>5, <1>7, <1>8, NextLineParts, SeqEqual
<1> QED BY <1>7, <1>9 DEF Promise!Push, whole

\* A new selection is part of the state the user is at.
LEMMA SelectReselects ==
  ASSUME HistoryInv, HistoryInv', NEW s, CommitSame(s) \/ Select(s)
  PROVE  Promise!Reselect(Entry'.sel)
<1> USE Lengths
<1>1. past' = past /\ future' = future /\ doc' = doc
  BY DEF CommitSame, Select
<1>2. pos' = pos /\ Len(line') = Len(line)
  BY <1>1, LineParts, NextLineParts
<1>3. line[pos] = Entry
  BY LineParts
<1>4. Entry' \in Entries
  BY DEF HistoryInv, Entry, Entries
<1>5. Entry' = [doc |-> line[pos].doc, sel |-> Entry'.sel]
  BY <1>1, <1>3 DEF Entry
<1>6. /\ [line EXCEPT ![pos] = Entry'] \in Seq(Entries)
      /\ Len([line EXCEPT ![pos] = Entry']) = Len(line)
      /\ \A j \in 1 .. Len(line) :
           [line EXCEPT ![pos] = Entry'][j] = IF j = pos THEN Entry' ELSE line[j]
  BY <1>4, LineParts, ExceptSeq
<1>7. \A k \in 1 .. Len(line) : line'[k] = IF k = pos THEN Entry' ELSE line[k]
  BY <1>1, <1>2, LineParts, NextLineParts
<1>8. line' = [line EXCEPT ![pos] = Entry']
  BY <1>2, <1>6, <1>7, NextLineParts, SeqEqual
<1> QED BY <1>2, <1>5, <1>8 DEF Promise!Reselect

\* Every step of the history is a step of the undo list.
LEMMA StepRefines ==
  ASSUME HistoryInv, HistoryInv', [HistoryNext]_historyVars
  PROVE  [Promise!Next]_<< line, pos >>
<1> USE Lengths
<1>0. line'[pos'] = Entry' /\ Entry' \in {line'[pos']}
  BY NextLineParts
<1>1. ASSUME NEW d \in Docs, NEW s \in Sels, NEW key \in Keys \cup {NoKey}, Commit(d, s, key)
      PROVE  Promise!Next
  <2>1. CASE past' = LastEntries(Append(past, Entry))
    BY <1>0, <1>1, <2>1, CommitPushes DEF Promise!Next
  <2>2. CASE key # NoKey /\ key = lastKey /\ past # << >> /\ past' = past
    <3>1. future = << >>
      BY <2>2 DEF HistoryInv
    <3> QED BY <1>0, <1>1, <2>2, <3>1, CommitAmends DEF Promise!Next
  <2> QED BY <1>1, <2>1, <2>2 DEF Commit
<1>2. ASSUME NEW s \in Sels, CommitSame(s) \/ Select(s) PROVE Promise!Next
  BY <1>0, <1>2, SelectReselects DEF Promise!Next
<1>3. CASE Undo
  <2>1. pos > 1 /\ pos' = pos - 1
    BY <1>3, Undone, LineParts, NextLineParts DEF Undo
  <2> QED BY <1>3, <2>1, LineStays DEF Promise!Next, Promise!Back
<1>4. CASE Redo
  <2>1. pos < Len(line) /\ pos' = pos + 1
    BY <1>4, Redone, Longer, LineParts, NextLineParts DEF Redo
  <2> QED BY <1>4, <2>1, LineStays DEF Promise!Next, Promise!Forward
<1>5. CASE Pause \/ MarkSaved \/ UNCHANGED historyVars
  BY <1>5 DEF Pause, MarkSaved, historyVars, line, pos, Entry
<1> QED BY <1>1, <1>2, <1>3, <1>4, <1>5 DEF HistoryNext

LEMMA InitRefines ==
  ASSUME \E d \in Docs : HistoryInit(d) PROVE Promise!Init
<1>1. HistoryInv /\ past = << >> /\ future = << >> /\ Len(<< >>) = 0
  BY InvInit, EmptySeq DEF HistoryInit
<1> QED BY <1>1, LineParts DEF Promise!Init

\* For any documents, selections and keys, any limit and any order of edits,
\* bursts, undos and redos, the reducer's past and future are one undo list
\* (designer/state.ts): nothing is lost by undoing or redoing.
THEOREM HistoryRefines == HistorySpec => RefinesUndoList
<1>1. (\E d \in Docs : HistoryInit(d)) => HistoryInv /\ Promise!Init
  BY InvInit, InitRefines
<1>2. HistoryInv /\ [HistoryNext]_historyVars => HistoryInv'
  BY InvNext
<1>3. HistoryInv /\ HistoryInv' /\ [HistoryNext]_historyVars => [Promise!Next]_<< line, pos >>
  BY StepRefines
<1> QED BY <1>1, <1>2, <1>3, PTL DEF HistorySpec, RefinesUndoList, Promise!Spec

\* Undoing never runs into the limit: what is undone can be redone (LIMIT of
\* designer/state.ts bounds past and future together).
THEOREM LimitIsEnough == HistorySpec => [](Len(past) + Len(future) <= LIMIT)
<1>1. HistoryInv => Len(past) + Len(future) <= LIMIT
  BY DEF HistoryInv
<1> QED BY <1>1, InvInit, InvNext, PTL DEF HistorySpec
=============================================================================
