--------------------------- MODULE DashboardProofs ---------------------------
(* Theorems of Dashboard, for every number of data points and of lines and   *)
(* any messages.  What they rest on is that each trim of the page keeps the  *)
(* newest values: the lengths by which one series decides over another are   *)
(* then those of the other as well.                                          *)
EXTENDS Dashboard, SequenceTheorems, TLAPS

-----------------------------------------------------------------------------
(* The operators.                                                          *)

\* What Newest says of a sequence determines it.
LEMMA NewestIsUnique ==
  ASSUME NEW s \in Seq(Nat), NEW t \in Seq(Nat), NEW count \in Nat, NEW limit \in Nat,
         Newest(s, count, limit), Newest(t, count, limit)
  PROVE  s = t
<1>1. Len(s) = Len(t)
  BY DEF Newest
<1>2. \A i \in 1..Len(s) : s[i] = t[i]
  BY <1>1 DEF Newest
<1> QED BY <1>1, <1>2, SeqEqual

\* One value comes, and the head goes if the series is then too long.
LEMMA ShiftNewest ==
  ASSUME NEW seq \in Seq(Nat), NEW count \in Nat, NEW limit \in Nat \ {0},
         Newest(seq, count, limit)
  PROVE  LET new == Shift(Append(seq, count + 1), Len(seq) + 1 > limit)
         IN  new \in Seq(Nat) /\ Newest(new, count + 1, limit)
<1> DEFINE all == Append(seq, count + 1)
           n == Len(seq)
<1>1. /\ all \in Seq(Nat) /\ all # <<>> /\ Len(all) = n + 1 /\ n \in Nat
      /\ \A i \in 1..n : all[i] = seq[i]
      /\ all[n + 1] = count + 1
  BY AppendProperties, LenProperties
<1>2. \A i \in 1..(n + 1) : all[i] = (count + 1) - (n + 1) + i
  <2> SUFFICES ASSUME NEW i \in 1..(n + 1) PROVE all[i] = (count + 1) - (n + 1) + i
    OBVIOUS
  <2>1. CASE i = n + 1
    BY <2>1, <1>1
  <2>2. CASE i \in 1..n
    <3>1. all[i] = seq[i] /\ seq[i] = count - n + i
      BY <2>2, <1>1 DEF Newest
    <3> QED BY <3>1, <2>2, <1>1
  <2> QED BY <2>1, <2>2, <1>1
<1>3. n = IF count < limit THEN count ELSE limit
  BY DEF Newest
<1> HIDE DEF all, n
<1>4. CASE n + 1 > limit
  <2>1. /\ Tail(all) \in Seq(Nat) /\ Len(Tail(all)) = n
        /\ \A i \in 1..n : Tail(all)[i] = all[i + 1]
    BY <1>1, HeadTailProperties
  <2>2. \A i \in 1..n : Tail(all)[i] = (count + 1) - n + i
    <3> SUFFICES ASSUME NEW i \in 1..n PROVE Tail(all)[i] = (count + 1) - n + i
      OBVIOUS
    <3>1. i + 1 \in 1..(n + 1)
      BY <1>1
    <3>2. all[i + 1] = (count + 1) - (n + 1) + (i + 1)
      BY <1>2, <3>1
    <3> QED BY <2>1, <3>2, <1>1
  <2>3. n = limit /\ n = IF count + 1 < limit THEN count + 1 ELSE limit
    BY <1>3, <1>4
  <2>4. Newest(Tail(all), count + 1, limit)
    BY <2>1, <2>2, <2>3 DEF Newest
  <2> QED BY <1>4, <2>1, <2>4 DEF Shift, all, n
<1>6. CASE ~(n + 1 > limit)
  <2>1. n + 1 = IF count + 1 < limit THEN count + 1 ELSE limit
    BY <1>3, <1>6, <1>1
  <2>2. Newest(all, count + 1, limit)
    BY <1>1, <1>2, <2>1 DEF Newest
  <2> QED BY <1>6, <1>1, <2>2 DEF Shift, all, n
<1> QED BY <1>4, <1>6

\* Any number of lines come, and all but the newest of an area go.
LEMMA CutNewest ==
  ASSUME NEW lines \in Seq(Nat), NEW count \in Nat, NEW n \in Nat,
         Newest(lines, count, MAX_LINES - 1)
  PROVE  LET new == Cut(lines, [i \in 1..n |-> count + i])
         IN  new \in Seq(Nat) /\ Newest(new, count + n, MAX_LINES - 1)
<1> DEFINE more == [i \in 1..n |-> count + i]
           all == lines \o more
           k == Len(lines)
           m == MAX_LINES - 1
<1>0. m \in Nat /\ k \in Nat /\ MAX_LINES \in Nat /\ MAX_LINES = m + 1
  BY DashboardAssumption, LenProperties
<1>1. more \in Seq(Nat) /\ Len(more) = n /\ \A i \in 1..n : more[i] = count + i
  <2>1. more \in [1..n -> Nat]
    OBVIOUS
  <2> QED BY <2>1
<1> HIDE DEF more
<1>2. /\ all \in Seq(Nat) /\ Len(all) = k + n
      /\ \A i \in 1..(k + n) : all[i] = IF i <= k THEN lines[i] ELSE more[i - k]
  BY <1>1, ConcatProperties
<1>3. k = (IF count < m THEN count ELSE m) /\ \A i \in 1..k : lines[i] = count - k + i
  BY DEF Newest
<1> HIDE DEF all, k, m
<1>4. \A i \in 1..(k + n) : all[i] = count - k + i
  <2> SUFFICES ASSUME NEW i \in 1..(k + n) PROVE all[i] = count - k + i
    OBVIOUS
  <2>1. CASE i <= k
    BY <2>1, <1>0, <1>2, <1>3
  <2>2. CASE i > k
    <3>1. i - k \in 1..n
      BY <2>2, <1>0
    <3>2. all[i] = more[i - k] /\ more[i - k] = count + (i - k)
      BY <2>2, <1>0, <1>1, <1>2, <3>1
    <3> QED BY <3>2, <1>0
  <2> QED BY <2>1, <2>2, <1>0
<1>5. Cut(lines, more) = IF Len(all) + 1 > MAX_LINES
                           THEN SubSeq(all, Len(all) - MAX_LINES + 2, Len(all)) ELSE all
  BY DEF Cut, all
<1>6. CASE k + n + 1 > MAX_LINES
  <2> DEFINE from == k + n - MAX_LINES + 2
             new == SubSeq(all, from, k + n)
  <2>1. from \in 1..(k + n + 1) /\ from = k + n - m + 1
    BY <1>0, <1>3, <1>6
  <2> HIDE DEF from
  <2>2. \A i \in from..(k + n) : all[i] \in Nat
    BY <2>1, <1>0, <1>2, ElementOfSeq
  <2>3. /\ new \in Seq(Nat)
        /\ Len(new) = IF from <= k + n THEN (k + n) - from + 1 ELSE 0
        /\ \A i \in 1..((k + n) - from + 1) : new[i] = all[from + i - 1]
    BY <2>1, <2>2, <1>0, SubSeqProperties
  <2>4. Len(new) = m
    BY <2>1, <2>3, <1>0
  <2>5. \A i \in 1..m : new[i] = (count + n) - m + i
    <3> SUFFICES ASSUME NEW i \in 1..m PROVE new[i] = (count + n) - m + i
      OBVIOUS
    <3>1. i \in 1..((k + n) - from + 1) /\ from + i - 1 \in 1..(k + n)
      BY <2>1, <1>0
    <3>2. new[i] = all[from + i - 1]
      BY <2>3, <3>1
    <3>3. all[from + i - 1] = count - k + (from + i - 1)
      BY <1>4, <3>1
    <3> QED BY <3>2, <3>3, <2>1, <1>0
  <2>6. m = IF count + n < m THEN count + n ELSE m
    BY <1>0, <1>3, <1>6
  <2>7. Newest(new, count + n, m)
    BY <2>4, <2>5, <2>6 DEF Newest
  <2>8. Cut(lines, more) = new
    BY <1>0, <1>2, <1>6, <1>5 DEF from
  <2> QED BY <2>3, <2>7, <2>8 DEF more, m
<1>7. CASE ~(k + n + 1 > MAX_LINES)
  <2>1. k + n = IF count + n < m THEN count + n ELSE m
    BY <1>0, <1>3, <1>7
  <2>2. Newest(all, count + n, m)
    BY <1>0, <1>2, <1>4, <2>1 DEF Newest
  <2>3. Cut(lines, more) = all
    BY <1>0, <1>2, <1>7, <1>5
  <2> QED BY <1>2, <2>2, <2>3 DEF more, m
<1> QED BY <1>6, <1>7

-----------------------------------------------------------------------------
(* The series.                                                             *)

\* What the series of a source are when m packets of each kind were measured.
SeriesOK(series, m) ==
  /\ series \in Series
  /\ Newest(series.plaintext, m.plaintext, maxDataPoints)
  /\ Newest(series.ciphertext, m.ciphertext, maxDataPoints)
  /\ Newest(series.timestamps, m.ciphertext, maxDataPoints)

\* Both series of each source are as long as the same counts make them.
SeriesInv ==
  /\ entropy \in [Sources -> Series] /\ chi \in [Sources -> Series]
  /\ measured \in [Sources -> [plaintext : Nat, ciphertext : Nat]]
  /\ \A s \in Sources : SeriesOK(entropy[s], measured[s]) /\ SeriesOK(chi[s], measured[s])

LEMMA CiphertextKeeps ==
  ASSUME NEW series, NEW m \in [plaintext : Nat, ciphertext : Nat], SeriesOK(series, m),
         NEW length, length = Len(series.ciphertext),
         NEW new, new = [plaintext  |-> series.plaintext,
                         ciphertext |-> Shift(Append(series.ciphertext, m.ciphertext + 1),
                                              length + 1 > maxDataPoints),
                         timestamps |-> Shift(Append(series.timestamps, m.ciphertext + 1),
                                              length + 1 > maxDataPoints)]
  PROVE  SeriesOK(new, [m EXCEPT !.ciphertext = m.ciphertext + 1])
<1>1. /\ series.plaintext \in Seq(Nat) /\ series.ciphertext \in Seq(Nat)
      /\ series.timestamps \in Seq(Nat) /\ m.ciphertext \in Nat
      /\ maxDataPoints \in Nat \ {0}
  BY DashboardAssumption DEF SeriesOK, Series
<1>2. Len(series.timestamps) = length
  BY DEF SeriesOK, Newest
<1>3. new.ciphertext \in Seq(Nat) /\ Newest(new.ciphertext, m.ciphertext + 1, maxDataPoints)
  BY <1>1, ShiftNewest DEF SeriesOK
<1>4. new.timestamps \in Seq(Nat) /\ Newest(new.timestamps, m.ciphertext + 1, maxDataPoints)
  BY <1>1, <1>2, ShiftNewest DEF SeriesOK
<1> QED BY <1>1, <1>3, <1>4 DEF SeriesOK, Series

\* The plaintext series is full when it is trimmed, so no other is longer.
LEMMA PlaintextKeeps ==
  ASSUME NEW series, NEW m \in [plaintext : Nat, ciphertext : Nat], SeriesOK(series, m),
         NEW length, length = Len(series.plaintext),
         NEW other, other = Len(series.ciphertext),
         NEW new, new = [plaintext  |-> Shift(Append(series.plaintext, m.plaintext + 1),
                                              length + 1 > maxDataPoints),
                         ciphertext |-> Shift(series.ciphertext,
                                              length + 1 > maxDataPoints /\ length < other),
                         timestamps |-> series.timestamps]
  PROVE  SeriesOK(new, [m EXCEPT !.plaintext = m.plaintext + 1])
<1>1. /\ series.plaintext \in Seq(Nat) /\ series.ciphertext \in Seq(Nat)
      /\ series.timestamps \in Seq(Nat) /\ m.plaintext \in Nat /\ m.ciphertext \in Nat
      /\ maxDataPoints \in Nat \ {0}
  BY DashboardAssumption DEF SeriesOK, Series
<1>2. new.plaintext \in Seq(Nat) /\ Newest(new.plaintext, m.plaintext + 1, maxDataPoints)
  BY <1>1, ShiftNewest DEF SeriesOK
<1>3. length <= maxDataPoints /\ other <= maxDataPoints /\ length \in Nat
  BY <1>1 DEF SeriesOK, Newest
<1>4. ~(length + 1 > maxDataPoints /\ length < other)
  <2>1. other \in Nat
    BY <1>1, LenProperties
  <2> QED BY <1>1, <1>3, <2>1
<1>5. new.ciphertext = series.ciphertext
  BY <1>4 DEF Shift
<1> QED BY <1>1, <1>2, <1>5 DEF SeriesOK, Series

LEMMA SameCounts ==
  ASSUME SeriesInv, NEW s \in Sources
  PROVE  /\ Len(chi[s].plaintext) = Len(entropy[s].plaintext)
         /\ Len(chi[s].ciphertext) = Len(entropy[s].ciphertext)
BY DEF SeriesInv, SeriesOK, Newest

LEMMA SeriesInvStep ==
  SeriesInv /\ [Next]_vars => SeriesInv'
<1> SUFFICES ASSUME SeriesInv, [Next]_vars PROVE SeriesInv'
  OBVIOUS
<1>1. CASE UNCHANGED <<entropy, chi, measured>>
  BY <1>1 DEF SeriesInv, SeriesOK, Newest
<1>2. ASSUME NEW s \in Sources, NEW empty \in BOOLEAN, Ciphertext(s, empty),
             ~UNCHANGED <<entropy, chi, measured>>
      PROVE  SeriesInv'
  <2> DEFINE n == measured[s].ciphertext + 1
             over == Len(entropy[s].ciphertext) + 1 > maxDataPoints
             Extend(series) ==
               [plaintext  |-> series.plaintext,
                ciphertext |-> Shift(Append(series.ciphertext, n), over),
                timestamps |-> Shift(Append(series.timestamps, n), over)]
             m == [measured[s] EXCEPT !.ciphertext = n]
  <2>1. /\ entropy' = [entropy EXCEPT ![s] = Extend(entropy[s])]
        /\ chi' = [chi EXCEPT ![s] = Extend(chi[s])]
        /\ measured' = [measured EXCEPT ![s] = m]
    BY <1>2 DEF Ciphertext
  <2>2. SeriesOK(Extend(entropy[s]), m) /\ SeriesOK(Extend(chi[s]), m)
    BY CiphertextKeeps, SameCounts DEF SeriesInv
  <2>3. Extend(entropy[s]) \in Series /\ Extend(chi[s]) \in Series
    BY <2>2 DEF SeriesOK
  <2>4. m \in [plaintext : Nat, ciphertext : Nat]
    BY DEF SeriesInv
  <2> HIDE DEF Extend, m
  <2> QED BY <2>1, <2>2, <2>3, <2>4 DEF SeriesInv
<1>3. ASSUME NEW s \in Sources, Plaintext(s)
      PROVE  SeriesInv'
  <2> DEFINE n == measured[s].plaintext + 1
             over == Len(entropy[s].plaintext) + 1 > maxDataPoints
             longer == over /\ Len(entropy[s].plaintext) < Len(entropy[s].ciphertext)
             Extend(series) ==
               [plaintext  |-> Shift(Append(series.plaintext, n), over),
                ciphertext |-> Shift(series.ciphertext, longer),
                timestamps |-> series.timestamps]
             m == [measured[s] EXCEPT !.plaintext = n]
  <2>1. /\ entropy' = [entropy EXCEPT ![s] = Extend(entropy[s])]
        /\ chi' = [chi EXCEPT ![s] = Extend(chi[s])]
        /\ measured' = [measured EXCEPT ![s] = m]
    BY <1>3 DEF Plaintext
  <2>2. SeriesOK(Extend(entropy[s]), m) /\ SeriesOK(Extend(chi[s]), m)
    BY PlaintextKeeps, SameCounts DEF SeriesInv
  <2>3. Extend(entropy[s]) \in Series /\ Extend(chi[s]) \in Series
    BY <2>2 DEF SeriesOK
  <2>4. m \in [plaintext : Nat, ciphertext : Nat]
    BY DEF SeriesInv
  <2> HIDE DEF Extend, m
  <2> QED BY <2>1, <2>2, <2>3, <2>4 DEF SeriesInv
<1>4. ASSUME Notice \/ Unknown \/ State \/ Load \/ \E s \in Sources : Mavlink(s)
      PROVE  UNCHANGED <<entropy, chi, measured>>
  BY <1>4 DEF Notice, Unknown, State, Load, Mavlink
<1>5. CASE UNCHANGED vars
  BY <1>1, <1>5 DEF vars
<1> QED BY <1>1, <1>2, <1>3, <1>4, <1>5 DEF Next

LEMMA SeriesInvInit == Init => SeriesInv
<1> SUFFICES ASSUME Init PROVE SeriesInv
  OBVIOUS
<1>1. NoSeries \in Series
  BY DEF NoSeries, Series
<1>2. SeriesOK(NoSeries, [plaintext |-> 0, ciphertext |-> 0])
  BY <1>1, DashboardAssumption DEF SeriesOK, NoSeries, Newest
<1> HIDE DEF NoSeries
<1> QED BY <1>1, <1>2 DEF Init, SeriesInv

-----------------------------------------------------------------------------
(* The text.                                                               *)

TextInv ==
  /\ text \in [Areas -> Seq(Nat)]
  /\ written \in [Areas -> Nat]
  /\ TextShowsNewest

LEMMA AddMessageKeeps ==
  ASSUME TextInv, NEW set, NEW n \in Nat, AddMessage(set, n)
  PROVE  TextInv'
<1>1. \A a \in Areas : /\ text'[a] \in Seq(Nat) /\ written'[a] \in Nat
                       /\ Newest(text'[a], written'[a], MAX_LINES - 1)
  <2> SUFFICES ASSUME NEW a \in Areas
               PROVE  /\ text'[a] \in Seq(Nat) /\ written'[a] \in Nat
                      /\ Newest(text'[a], written'[a], MAX_LINES - 1)
    OBVIOUS
  <2>1. text[a] \in Seq(Nat) /\ written[a] \in Nat
        /\ Newest(text[a], written[a], MAX_LINES - 1)
    BY DEF TextInv, TextShowsNewest
  <2>2. CASE a \in set
    <3>1. /\ text'[a] = Cut(text[a], [i \in 1..n |-> written[a] + i])
          /\ written'[a] = written[a] + n
      BY <2>2 DEF AddMessage
    <3> DEFINE new == Cut(text[a], [i \in 1..n |-> written[a] + i])
    <3>2. new \in Seq(Nat) /\ Newest(new, written[a] + n, MAX_LINES - 1)
      BY <2>1, CutNewest
    <3>3. written[a] + n \in Nat
      BY <2>1
    <3> HIDE DEF new
    <3> QED BY <3>1, <3>2, <3>3 DEF new
  <2>3. CASE a \notin set
    BY <2>1, <2>3 DEF AddMessage
  <2> QED BY <2>2, <2>3
<1>2. text' \in [Areas -> Seq(Nat)] /\ written' \in [Areas -> Nat]
  BY <1>1 DEF AddMessage
<1> QED BY <1>1, <1>2 DEF TextInv, TextShowsNewest

LEMMA TextInvStep ==
  TextInv /\ [Next]_vars => TextInv'
<1> SUFFICES ASSUME TextInv, [Next]_vars PROVE TextInv'
  OBVIOUS
<1>1. CASE UNCHANGED <<text, written>>
  BY <1>1 DEF TextInv, TextShowsNewest
<1>2. ASSUME NEW s \in Sources, Mavlink(s) PROVE TextInv'
  BY <1>2, AddMessageKeeps, DashboardAssumption DEF Mavlink
<1>3. ASSUME NEW s \in Sources,
             Plaintext(s) \/ (\E empty \in BOOLEAN : Ciphertext(s, empty))
      PROVE  TextInv'
  BY <1>3, AddMessageKeeps DEF Plaintext, Ciphertext
<1>4. CASE Notice \/ Unknown \/ State
  BY <1>4, AddMessageKeeps DEF Notice, Unknown, State
<1>5. CASE Load
  BY <1>1, <1>5 DEF Load
<1>6. CASE UNCHANGED vars
  BY <1>1, <1>6 DEF vars
<1> QED BY <1>2, <1>3, <1>4, <1>5, <1>6 DEF Next

LEMMA TextInvInit == Init => TextInv
<1> SUFFICES ASSUME Init PROVE TextInv
  OBVIOUS
<1>1. MAX_LINES - 1 \in Nat
  BY DashboardAssumption
<1>2. text \in [Areas -> Seq(Nat)] /\ written \in [Areas -> Nat]
  BY DEF Init
<1>3. \A a \in Areas : text[a] = <<>> /\ written[a] = 0
  BY DEF Init
<1> QED BY <1>1, <1>2, <1>3 DEF TextInv, TextShowsNewest, Newest

-----------------------------------------------------------------------------
(* The charts and the panel.                                               *)

Chart == [initialized : BOOLEAN, defaultMaxValue : {0, 2, 3, 200},
          plaintext : Seq(Nat), ciphertext : Seq(Nat)]

\* What TypeOK says besides the series and the text.
PageType ==
  /\ handled \in 0..MaxMessages
  /\ panel \in [Fields -> 0..MaxMessages]
  /\ chartStates \in [Charts -> Chart]
  /\ loaded \in BOOLEAN

\* The inductive invariant.
PageInv == SeriesInv /\ TextInv /\ PageType

LEMMA SeriesOfType ==
  ASSUME SeriesInv, NEW c \in Charts
  PROVE  SeriesOf(c).plaintext \in Seq(Nat) /\ SeriesOf(c).ciphertext \in Seq(Nat)
<1>1. c[1] \in Sources
  BY DEF Charts
<1>2. entropy[c[1]] \in Series /\ chi[c[1]] \in Series
  BY <1>1 DEF SeriesInv
<1> QED BY <1>2 DEF SeriesOf, Series

LEMMA NewChartType ==
  ASSUME NEW max \in {0, 2, 3, 200}
  PROVE  NewChart(max) \in Chart
<1>1. <<>> \in Seq(Nat)
  BY EmptySeq
<1> QED BY <1>1 DEF NewChart, Chart

LEMMA DrawType ==
  ASSUME chartStates \in [Charts -> Chart], SeriesInv', NEW s \in Sources, Draw(s)
  PROVE  chartStates' \in [Charts -> Chart]
<1>1. ASSUME NEW k \in Chart, NEW p \in Seq(Nat), NEW e \in Seq(Nat)
      PROVE  [k EXCEPT !.plaintext = p, !.ciphertext = e] \in Chart
  BY DEF Chart
<1>2. ASSUME NEW c \in Charts PROVE chartStates'[c] \in Chart
  <2> DEFINE base == IF chartStates[c].initialized THEN chartStates[c]
                     ELSE NewChart(IF c[2] = "entropy" THEN 3 ELSE 200)
  <2>1. chartStates[c] \in Chart
    OBVIOUS
  <2>2. base \in Chart
    BY <2>1, NewChartType
  <2>3. SeriesOf(c)'.plaintext \in Seq(Nat) /\ SeriesOf(c)'.ciphertext \in Seq(Nat)
    <3>1. c[1] \in Sources
      BY DEF Charts
    <3>2. entropy'[c[1]] \in Series /\ chi'[c[1]] \in Series
      BY <3>1 DEF SeriesInv
    <3> QED BY <3>2 DEF SeriesOf, Series
  <2>4. \/ chartStates'[c] = chartStates[c]
        \/ chartStates'[c] = [base EXCEPT !.plaintext = SeriesOf(c)'.plaintext,
                                         !.ciphertext = SeriesOf(c)'.ciphertext]
    BY DEF Draw
  <2> HIDE DEF base
  <2> QED BY <1>1, <2>1, <2>2, <2>3, <2>4
<1>3. DOMAIN chartStates' = Charts /\ chartStates' = [c \in Charts |-> chartStates'[c]]
  BY DEF Draw
<1> QED BY <1>2, <1>3

LEMMA PageTypeStep ==
  PageInv /\ SeriesInv' /\ [Next]_vars => PageType'
<1> SUFFICES ASSUME PageInv, SeriesInv', [Next]_vars PROVE PageType'
  OBVIOUS
<1> USE DEF PageInv
<1>1. CASE UNCHANGED vars
  BY <1>1 DEF vars, PageType
<1>2. ASSUME Handle PROVE handled' \in 0..MaxMessages
  BY <1>2, DashboardAssumption DEF Handle, PageType
<1>3. CASE Notice \/ Unknown \/ \E s \in Sources : Mavlink(s)
  BY <1>2, <1>3 DEF Notice, Unknown, Mavlink, PageType
<1>4. CASE State
  <2>1. handled' \in 0..MaxMessages
    BY <1>2, <1>4 DEF State
  <2>2. panel' \in [Fields -> 0..MaxMessages]
    BY <1>4, <2>1 DEF State, PageType
  <2> QED BY <1>4, <2>1, <2>2 DEF State, PageType
<1>5. CASE Load
  <2>1. chartStates' \in [Charts -> Chart]
    BY <1>5, NewChartType DEF Load
  <2> QED BY <1>5, <2>1 DEF Load, PageType
<1>6. ASSUME NEW s \in Sources,
             Plaintext(s) \/ (\E empty \in BOOLEAN : Ciphertext(s, empty))
      PROVE  PageType'
  <2>1. chartStates' = chartStates \/ Draw(s)
    BY <1>6 DEF Plaintext, Ciphertext
  <2>2. chartStates' \in [Charts -> Chart]
    BY <2>1, DrawType DEF PageType
  <2> QED BY <1>2, <1>6, <2>2 DEF Plaintext, Ciphertext, PageType
<1> QED BY <1>1, <1>3, <1>4, <1>5, <1>6 DEF Next

LEMMA PageTypeInit == Init => PageType
<1> SUFFICES ASSUME Init PROVE PageType
  OBVIOUS
<1> DEFINE none == [NewChart(0) EXCEPT !.initialized = FALSE]
<1>1. none \in Chart
  <2>1. NewChart(0) \in Chart
    BY NewChartType
  <2> HIDE DEF NewChart
  <2> QED BY <2>1 DEF Chart
<1>2. chartStates = [c \in Charts |-> none] /\ loaded = FALSE /\ handled = 0
      /\ panel = [f \in Fields |-> 0]
  BY DEF Init
<1> HIDE DEF none
<1>3. chartStates \in [Charts -> Chart] /\ loaded \in BOOLEAN
  BY <1>1, <1>2
<1>4. handled \in 0..MaxMessages /\ panel \in [Fields -> 0..MaxMessages]
  BY <1>2, DashboardAssumption
<1> QED BY <1>3, <1>4 DEF PageType

\* The inductive invariant of the page: series, text, charts and panel.
THEOREM PageInvariant == Spec => []PageInv
<1>1. Init => PageInv
  BY SeriesInvInit, TextInvInit, PageTypeInit DEF PageInv
<1>2. PageInv /\ [Next]_vars => PageInv'
  BY SeriesInvStep, TextInvStep, PageTypeStep DEF PageInv
<1> QED BY <1>1, <1>2, PTL DEF Spec

LEMMA NewestBound ==
  ASSUME NEW seq, NEW count \in Nat, NEW limit \in Nat, Newest(seq, count, limit)
  PROVE  Len(seq) \in Nat /\ Len(seq) <= limit
BY DEF Newest

\* The page keeps its types and its limits, whatever messages come and whenever
\* it loads.
THEOREM PageTypes == Spec => []TypeOK
<1>1. SeriesInv => \A s \in Sources : Within(entropy[s]) /\ Within(chi[s])
  <2> SUFFICES ASSUME SeriesInv, NEW s \in Sources
               PROVE  Within(entropy[s]) /\ Within(chi[s])
    OBVIOUS
  <2>1. /\ maxDataPoints \in Nat
        /\ measured[s].plaintext \in Nat /\ measured[s].ciphertext \in Nat
    BY DashboardAssumption DEF SeriesInv
  <2>2. ASSUME NEW series, SeriesOK(series, measured[s]) PROVE Within(series)
    BY <2>1, <2>2, NewestBound DEF SeriesOK, Within
  <2> QED BY <2>2 DEF SeriesInv
<1>2. TextInv => \A a \in Areas : Len(text[a]) < MAX_LINES
  <2> SUFFICES ASSUME TextInv, NEW a \in Areas PROVE Len(text[a]) < MAX_LINES
    OBVIOUS
  <2>1. MAX_LINES - 1 \in Nat /\ MAX_LINES \in Nat /\ written[a] \in Nat
    BY DashboardAssumption DEF TextInv
  <2>2. Len(text[a]) \in Nat /\ Len(text[a]) <= MAX_LINES - 1
    BY <2>1, NewestBound DEF TextInv, TextShowsNewest
  <2> QED BY <2>1, <2>2
<1>3. PageInv => TypeOK
  BY <1>1, <1>2 DEF PageInv, SeriesInv, TextInv, PageType, TypeOK, Chart
<1> QED BY <1>3, PageInvariant, PTL

\* No trim of the message handler ever cuts a series that it should not: for
\* every maxDataPoints, the series are the newest packets of their kind.
THEOREM ChartsShowNewestPackets == Spec => []ChartShowsNewest
<1>1. PageInv => ChartShowsNewest
  BY DEF PageInv, SeriesInv, SeriesOK, ChartShowsNewest
<1> QED BY <1>1, PageInvariant, PTL

\* Values and timestamps of the ciphertext stay together, index by index, although
\* a plaintext packet may trim the ones and not the others: it never has to.
THEOREM ValuesKeepTheirStamps == Spec => []StampsAligned
<1>1. PageInv => StampsAligned
  <2> SUFFICES ASSUME SeriesInv, NEW s \in Sources
               PROVE  /\ entropy[s].timestamps = entropy[s].ciphertext
                      /\ chi[s].timestamps = chi[s].ciphertext
    BY DEF PageInv, StampsAligned
  <2>1. maxDataPoints \in Nat /\ measured[s].ciphertext \in Nat
    BY DashboardAssumption DEF SeriesInv
  <2> DEFINE Aligned(series) == series.timestamps = series.ciphertext
  <2>2. ASSUME NEW series, SeriesOK(series, measured[s]) PROVE Aligned(series)
    <3>1. series.timestamps \in Seq(Nat) /\ series.ciphertext \in Seq(Nat)
      BY <2>2 DEF SeriesOK, Series
    <3> QED BY <2>1, <2>2, <3>1, NewestIsUnique DEF SeriesOK
  <2> QED BY <2>2 DEF SeriesInv
<1> QED BY <1>1, PageInvariant, PTL

\* An area holds the newest lines written to it, for every MAX_LINES, however
\* many of them one message adds.
THEOREM AreasShowNewestLines == Spec => []TextShowsNewest
<1>1. PageInv => TextShowsNewest
  BY DEF PageInv, TextInv
<1> QED BY <1>1, PageInvariant, PTL

LEMMA DrawShows ==
  ASSUME chartStates \in [Charts -> Chart], NEW s \in Sources, Draw(s),
         NEW c \in Charts, c[1] = s
  PROVE  Shows(c)'
<1> DEFINE base == IF chartStates[c].initialized THEN chartStates[c]
                   ELSE NewChart(IF c[2] = "entropy" THEN 3 ELSE 200)
<1>1. base \in Chart
  BY NewChartType
<1>2. chartStates'[c] = [base EXCEPT !.plaintext = SeriesOf(c)'.plaintext,
                                     !.ciphertext = SeriesOf(c)'.ciphertext]
  BY DEF Draw
<1> HIDE DEF base
<1>3. /\ chartStates'[c].plaintext = SeriesOf(c)'.plaintext
      /\ chartStates'[c].ciphertext = SeriesOf(c)'.ciphertext
  BY <1>1, <1>2 DEF Chart
<1> QED BY <1>3 DEF Shows

\* What may happen to one chart in a step.
Follows(c) == \/ Shows(c)'
              \/ ~Shows(c) /\ SeriesOf(c)' = SeriesOf(c)
              \/ loaded' # loaded

LEMMA UntouchedFollows ==
  ASSUME NEW c \in Charts, chartStates'[c] = chartStates[c], SeriesOf(c)' = SeriesOf(c)
  PROVE  Follows(c)
BY DEF Follows, Shows

LEMMA FollowStep ==
  ASSUME PageInv, [Next]_vars, NEW c \in Charts
  PROVE  Follows(c)
<1>1. CASE UNCHANGED <<entropy, chi, chartStates>>
  BY <1>1, UntouchedFollows DEF SeriesOf
<1>2. CASE Notice \/ Unknown \/ State \/ (\E s \in Sources : Mavlink(s))
  BY <1>1, <1>2 DEF Notice, Unknown, State, Mavlink
<1>3. CASE Load
  BY <1>3 DEF Load, Follows
<1>4. ASSUME NEW s \in Sources,
             Plaintext(s) \/ (\E empty \in BOOLEAN : Ciphertext(s, empty)),
             ~UNCHANGED <<entropy, chi, chartStates>>
      PROVE  Follows(c)
  <2>1. /\ Draw(s)
        /\ \E new : entropy' = [entropy EXCEPT ![s] = new]
        /\ \E new : chi' = [chi EXCEPT ![s] = new]
    BY <1>4 DEF Plaintext, Ciphertext
  <2>2. CASE c[1] = s
    BY <2>1, <2>2, DrawShows DEF PageInv, PageType, Follows
  <2>3. CASE c[1] # s
    <3>1. chartStates'[c] = chartStates[c]
      BY <2>1, <2>3 DEF Draw
    <3>2. entropy'[c[1]] = entropy[c[1]] /\ chi'[c[1]] = chi[c[1]]
      BY <2>1, <2>3
    <3> QED BY <3>1, <3>2, UntouchedFollows DEF SeriesOf
  <2> QED BY <2>2, <2>3
<1>5. CASE UNCHANGED vars
  BY <1>1, <1>5 DEF vars
<1> QED BY <1>1, <1>2, <1>3, <1>4, <1>5 DEF Next

\* A chart shows its series after every packet of its source and of no other;
\* only the load event puts one out of step.
THEOREM ChartsFollowSeries == Spec => ChartsFollow
<1>1. PageInv /\ [Next]_vars => [\A c \in Charts : Follows(c)]_vars
  BY FollowStep
<1>2. QED
  BY <1>1, PageInvariant, PTL DEF Spec, ChartsFollow, Follows
=============================================================================
