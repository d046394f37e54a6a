--------------------------- MODULE LogViewerProofs --------------------------
(***************************************************************************)
(* LogViewer, proved for logs, caps and failure limits of any size: how the *)
(* slices of a log fit together, the invariants of the page, and why it     *)
(* stops.                                                                   *)
(***************************************************************************)
EXTENDS LogViewer, NatRecursion

-----------------------------------------------------------------------------
(* The lines of a log                                                       *)

Logs == Seq({"line", "blank"})
LineRecords == [num : Nat, at : Nat]

\* What one more entry of a log, the one at k, makes of the lines so far.
Extend(entries, k, num, sofar) ==
  IF entries[k] = "line" THEN Append(sofar, [num |-> num + Len(sofar), at |-> k])
  ELSE sofar

LEMMA ExtendTyped ==
  ASSUME NEW entries, NEW k \in Nat, NEW num \in Nat, NEW s \in Seq(LineRecords)
  PROVE  Extend(entries, k, num, s) \in Seq(LineRecords)
<1> DEFINE x == [num |-> num + Len(s), at |-> k]
<1>1. x \in LineRecords
  BY DEF LineRecords
<1> HIDE DEF x
<1>2. Append(s, x) \in Seq(LineRecords)
  BY <1>1
<1> QED
  BY <1>2 DEF Extend, x

\* A loop over the n entries behind from: what is gathered after each of them.
Gathers(f, entries, from, n, num) ==
  /\ f[0] = <<>>
  /\ \A i \in 1..n : f[i] = Extend(entries, from + i, num, f[i - 1])
  /\ f[n] \in Seq(LineRecords)

\* The lines are what the loop has gathered in the end.
LEMMA LinesLoop ==
  ASSUME NEW entries, NEW from \in Nat, NEW n \in Nat, NEW num \in Nat
  PROVE  \E f : Gathers(f, entries, from, n, num) /\ Lines(entries, from, from + n, num) = f[n]
<1> DEFINE Gathered == Seq(LineRecords)
           Follows(f, m) == f = [i \in 0..m |->
             IF i = 0 THEN <<>>
             ELSE IF entries[from + i] = "line"
               THEN Append(f[i - 1], [num |-> num + Len(f[i - 1]), at |-> from + i])
             ELSE f[i - 1]]
           Chosen == CHOOSE f : Follows(f, n)
           turn == [p \in Nat \X Gathered |-> Extend(entries, from + p[1], num, p[2])]
<1>1. <<>> \in Gathered
  OBVIOUS
<1>2. \A i \in Nat, s \in Gathered : Extend(entries, from + i, num, s) \in Gathered
  BY ExtendTyped
<1>3. Lines(entries, from, from + n, num) = Chosen[n]
  <2>1. (from + n) - from = n
    OBVIOUS
  <2>2. Lines(entries, from, from + n, num)
          = (CHOOSE f : Follows(f, (from + n) - from))[(from + n) - from]
    BY Zenon DEF Lines
  <2> QED
    BY <2>1, <2>2, Zenon
<1>4. \A f : Follows(f, n) <=>
        f = [i \in 0..n |-> IF i = 0 THEN <<>> ELSE Extend(entries, from + i, num, f[i - 1])]
  BY Zenon DEF Extend
<1> HIDE DEF Gathered, Follows
<1>5. turn \in [Nat \X Gathered -> Gathered]
  BY <1>2
<1>6. \E f : Follows(f, n)
  <2>1. PICK f \in [0..n -> Gathered] : FollowsStep(f, <<>>, turn, n)
    <3> HIDE DEF turn
    <3> QED
      BY <1>1, <1>5, RecursionOnNat
  <2>2. f = [i \in 0..n |-> IF i = 0 THEN <<>> ELSE turn[<<i, f[i - 1]>>]]
    BY <2>1 DEF FollowsStep
  <2>3. \A i \in 0..n : i # 0 => turn[<<i, f[i - 1]>>] = Extend(entries, from + i, num, f[i - 1])
    BY <2>1
  <2>4. f = [i \in 0..n |-> IF i = 0 THEN <<>> ELSE Extend(entries, from + i, num, f[i - 1])]
    <3> HIDE DEF turn
    <3> QED
      BY <2>2, <2>3
  <2> QED
    BY <1>4, <2>4
<1>7. Follows(Chosen, n)
  BY <1>6, Zenon
<1> HIDE DEF Chosen
<1>8. Chosen = [i \in 0..n |-> IF i = 0 THEN <<>> ELSE Extend(entries, from + i, num, Chosen[i - 1])]
  BY <1>4, <1>7, Zenon
<1>9. Chosen[0] = <<>> /\ \A i \in 1..n : Chosen[i] = Extend(entries, from + i, num, Chosen[i - 1])
  BY <1>8
<1>10. \A i \in 0..n : Chosen[i] \in Gathered
  <2> DEFINE T == {i \in 0..n : Chosen[i] \in Gathered}
  <2>1. 0 \in T
    BY <1>1, <1>9
  <2>2. ASSUME NEW i \in 1..n, i - 1 \in T PROVE i \in T
    <3>1. Chosen[i - 1] \in Gathered /\ i \in Nat /\ i \in 0..n
      BY <2>2
    <3>2. Extend(entries, from + i, num, Chosen[i - 1]) \in Gathered
      BY <1>2, <3>1
    <3> QED
      BY <1>9, <3>1, <3>2
  <2>3. 0..n \subseteq T
    <3> HIDE DEF T
    <3> QED
      BY <2>1, <2>2, InductionUpTo
  <2> QED
    BY <2>3
<1>11. Chosen[n] \in Gathered
  BY <1>10
<1>12. Gathers(Chosen, entries, from, n, num)
  BY <1>9, <1>11 DEF Gathered, Gathers
<1> QED
  BY <1>3, <1>12

\* The lines of the n entries behind from.
Slice(entries, from, n, num) == Lines(entries, from, from + n, num)

LEMMA SliceLoop ==
  ASSUME NEW entries, NEW from \in Nat, NEW n \in Nat, NEW num \in Nat
  PROVE  \E f : Gathers(f, entries, from, n, num) /\ Slice(entries, from, n, num) = f[n]
BY LinesLoop DEF Slice

LEMMA SliceTyped ==
  ASSUME NEW entries, NEW from \in Nat, NEW n \in Nat, NEW num \in Nat
  PROVE  Slice(entries, from, n, num) \in Seq(LineRecords)
<1>1. PICK f : Gathers(f, entries, from, n, num) /\ Slice(entries, from, n, num) = f[n]
  BY SliceLoop
<1> QED
  BY <1>1 DEF Gathers

\* An empty slice has no lines.
LEMMA SliceEmpty ==
  ASSUME NEW entries, NEW from \in Nat, NEW num \in Nat
  PROVE  Slice(entries, from, 0, num) = <<>>
<1>1. \A n \in Nat : \E f : Gathers(f, entries, from, n, num) /\ Slice(entries, from, n, num) = f[n]
  BY SliceLoop
<1>2. 0 \in Nat
  OBVIOUS
<1>3. PICK f : Gathers(f, entries, from, 0, num) /\ Slice(entries, from, 0, num) = f[0]
  BY <1>1, <1>2, Zenon
<1> QED
  BY <1>3 DEF Gathers

\* A slice that is one entry longer has what that entry makes of it.
LEMMA SliceGrows ==
  ASSUME NEW entries, NEW from \in Nat, NEW n \in Nat \ {0}, NEW num \in Nat
  PROVE  Slice(entries, from, n, num) = Extend(entries, from + n, num, Slice(entries, from, n - 1, num))
<1>1. PICK g : Gathers(g, entries, from, n, num) /\ Slice(entries, from, n, num) = g[n]
  BY SliceLoop
<1>2. PICK f : Gathers(f, entries, from, n - 1, num) /\ Slice(entries, from, n - 1, num) = f[n - 1]
  <2>1. \A m \in Nat : \E f : Gathers(f, entries, from, m, num) /\ Slice(entries, from, m, num) = f[m]
    BY SliceLoop
  <2>2. n - 1 \in Nat
    OBVIOUS
  <2> QED
    BY <2>1, <2>2, Zenon
<1>3. g[n - 1] = f[n - 1]
  <2> DEFINE T == {i \in 0..(n - 1) : g[i] = f[i]}
  <2>1. 0 \in T
    BY <1>1, <1>2 DEF Gathers
  <2>2. ASSUME NEW i \in 1..(n - 1), i - 1 \in T PROVE i \in T
    <3>1. i \in 0..(n - 1) /\ i \in 1..n /\ g[i - 1] = f[i - 1]
      BY <2>2
    <3>2. f[i] = Extend(entries, from + i, num, f[i - 1])
      BY <1>2 DEF Gathers
    <3>3. g[i] = Extend(entries, from + i, num, g[i - 1])
      BY <1>1, <3>1 DEF Gathers
    <3> QED
      BY <3>1, <3>2, <3>3
  <2>3. n - 1 \in Nat
    OBVIOUS
  <2>4. 0..(n - 1) \subseteq T
    <3> HIDE DEF T
    <3> QED
      BY <2>1, <2>2, <2>3, InductionUpTo
  <2>5. n - 1 \in T
    BY <2>3, <2>4
  <2> QED
    BY <2>5
<1>4. g[n] = Extend(entries, from + n, num, g[n - 1])
  BY <1>1 DEF Gathers
<1> QED
  BY <1>1, <1>2, <1>3, <1>4

\* A slice has no more lines than entries.
LEMMA SliceLength ==
  ASSUME NEW entries, NEW from \in Nat, NEW num \in Nat, NEW n \in Nat
  PROVE  Len(Slice(entries, from, n, num)) \in 0..n
<1> DEFINE L(k) == Slice(entries, from, k, num)
           T == {k \in 0..n : Len(L(k)) \in 0..k}
<1>1. 0 \in T
  <2>1. L(0) = <<>>
    BY SliceEmpty
  <2> HIDE DEF L
  <2> QED
    BY <2>1
<1>2. ASSUME NEW k \in 1..n, k - 1 \in T PROVE k \in T
  <2>1. k - 1 \in Nat /\ k \in Nat \ {0}
    OBVIOUS
  <2>2. L(k - 1) \in Seq(LineRecords)
    BY <2>1, SliceTyped
  <2>3. L(k) = Extend(entries, from + k, num, L(k - 1))
    BY <2>1, SliceGrows
  <2>4. Len(L(k - 1)) \in 0..(k - 1)
    BY <1>2
  <2> HIDE DEF L
  <2>5. Len(L(k)) \in {Len(L(k - 1)), Len(L(k - 1)) + 1}
    <3> DEFINE s == L(k - 1)
    <3> HIDE DEF s
    <3>1. s \in Seq(LineRecords)
      BY <2>2 DEF s
    <3>2. Len(Append(s, [num |-> num + Len(s), at |-> from + k])) = Len(s) + 1
      <4> DEFINE x == [num |-> num + Len(s), at |-> from + k]
      <4> HIDE DEF x
      <4>1. Len(Append(s, x)) = Len(s) + 1
        BY <3>1
      <4> QED
        BY <4>1 DEF x
    <3>3. L(k) = s \/ L(k) = Append(s, [num |-> num + Len(s), at |-> from + k])
      BY <2>3, Zenon DEF Extend, s
    <3>4. Len(L(k)) = Len(s) \/ Len(L(k)) = Len(s) + 1
      BY <3>2, <3>3, Zenon
    <3> QED
      BY <3>4 DEF s
  <2>6. Len(L(k)) \in 0..k
    BY <2>1, <2>4, <2>5
  <2> QED
    BY <2>6
<1>3. 0..n \subseteq T
  <2> HIDE DEF T
  <2> QED
    BY <1>1, <1>2, InductionUpTo
<1> QED
  BY <1>3

LEMMA AppendToTail ==
  ASSUME NEW s \in Seq(LineRecords), NEW t \in Seq(LineRecords), NEW x \in LineRecords
  PROVE  Append(s \o t, x) = s \o Append(t, x)
<1> DEFINE l == Append(s \o t, x)
           r == s \o Append(t, x)
<1>1. l \in Seq(LineRecords) /\ r \in Seq(LineRecords)
  OBVIOUS
<1>2. Len(l) = Len(s) + Len(t) + 1 /\ Len(r) = Len(s) + Len(t) + 1
  OBVIOUS
<1>3. ASSUME NEW i \in 1..(Len(s) + Len(t) + 1) PROVE l[i] = r[i]
  <2>1. CASE i \in 1..Len(s)
    BY <2>1
  <2>2. CASE i \in (Len(s) + 1)..(Len(s) + Len(t))
    BY <2>2
  <2>3. CASE i = Len(s) + Len(t) + 1
    BY <2>3
  <2> QED
    BY <2>1, <2>2, <2>3
<1> HIDE DEF l, r
<1>4. l = r
  BY <1>1, <1>2, <1>3
<1> QED
  BY <1>4 DEF l, r

\* Slices fit together: the lines up to an offset, and those behind it when
\* they are numbered on, are the lines of the whole.
LEMMA SliceJoin ==
  ASSUME NEW entries, NEW off \in Nat, NEW n \in Nat
  PROVE  Slice(entries, 0, off + n, 1)
           = Slice(entries, 0, off, 1) \o Slice(entries, off, n, Len(Slice(entries, 0, off, 1)) + 1)
<1> DEFINE before == Slice(entries, 0, off, 1)
           num == Len(before) + 1
<1>1. before \in Seq(LineRecords) /\ num \in Nat
  <2>1. \A k \in Nat : Slice(entries, 0, k, 1) \in Seq(LineRecords)
    BY SliceTyped
  <2>2. before \in Seq(LineRecords)
    BY <2>1, Zenon
  <2> HIDE DEF before
  <2> QED
    BY <2>2
<1> DEFINE All(k) == Slice(entries, 0, off + k, 1)
           More(k) == Slice(entries, off, k, num)
           T == {k \in 0..n : All(k) = before \o More(k)}
<1> HIDE DEF before, num
<1>2. 0 \in T
  <2>1. off + 0 = off
    OBVIOUS
  <2>2. All(0) = before
    BY <2>1 DEF before
  <2>3. More(0) = <<>>
    BY <1>1, SliceEmpty
  <2> HIDE DEF All, More
  <2>4. before \o <<>> = before
    BY <1>1
  <2>5. All(0) = before \o More(0)
    BY <2>2, <2>3, <2>4, Zenon
  <2> QED
    BY <2>5
<1>3. ASSUME NEW k \in 1..n, k - 1 \in T PROVE k \in T
  <2>1. k - 1 \in Nat /\ k \in Nat \ {0}
    OBVIOUS
  <2>2. More(k - 1) \in Seq(LineRecords)
    BY <1>1, <2>1, SliceTyped
  <2>3. More(k) = Extend(entries, off + k, num, More(k - 1))
    BY <1>1, <2>1, SliceGrows
  <2>4. All(k) = Extend(entries, off + k, 1, All(k - 1))
    <3>1. off + k \in Nat \ {0} /\ (off + k) - 1 = off + (k - 1) /\ 0 + (off + k) = off + k
      OBVIOUS
    <3>2. \A m \in Nat \ {0} : Slice(entries, 0, m, 1) = Extend(entries, 0 + m, 1, Slice(entries, 0, m - 1, 1))
      BY SliceGrows
    <3>3. Slice(entries, 0, off + k, 1) = Extend(entries, 0 + (off + k), 1, Slice(entries, 0, (off + k) - 1, 1))
      BY <3>1, <3>2, Zenon
    <3> QED
      BY <3>1, <3>3, Zenon
  <2>5. All(k - 1) = before \o More(k - 1)
    BY <1>3
  <2> HIDE DEF All, More
  <2>6. CASE entries[off + k] = "line"
    <3> DEFINE x == [num |-> num + Len(More(k - 1)), at |-> off + k]
    <3>1. More(k) = Append(More(k - 1), x)
      BY <2>3, <2>6 DEF Extend
    <3>2. 1 + Len(All(k - 1)) = num + Len(More(k - 1))
      <4> DEFINE t == More(k - 1)
      <4> HIDE DEF t
      <4>1. t \in Seq(LineRecords)
        BY <2>2 DEF t
      <4>2. Len(before \o t) = Len(before) + Len(t)
        BY <1>1, <4>1
      <4>3. All(k - 1) = before \o t
        BY <2>5 DEF t
      <4>4. Len(before) \in Nat /\ Len(t) \in Nat
        BY <1>1, <4>1
      <4>5. Len(All(k - 1)) = Len(before) + Len(t)
        BY <4>2, <4>3, Zenon
      <4>6. 1 + (Len(before) + Len(t)) = (Len(before) + 1) + Len(t)
        BY <4>4
      <4>7. 1 + Len(All(k - 1)) = num + Len(t)
        BY <4>5, <4>6, Zenon DEF num
      <4> QED
        BY <4>7 DEF t
    <3>3. All(k) = Append(All(k - 1), [num |-> 1 + Len(All(k - 1)), at |-> off + k])
      BY <2>4, <2>6 DEF Extend
    <3>4. All(k) = Append(All(k - 1), x)
      BY <3>2, <3>3, Zenon
    <3>5. x \in LineRecords
      <4> DEFINE t == More(k - 1)
      <4> HIDE DEF t
      <4>1. t \in Seq(LineRecords)
        BY <2>2 DEF t
      <4>2. num + Len(t) \in Nat /\ off + k \in Nat
        BY <1>1, <2>1, <4>1
      <4>3. [num |-> num + Len(t), at |-> off + k] \in LineRecords
        BY <4>2 DEF LineRecords
      <4> QED
        BY <4>3 DEF t
    <3> HIDE DEF x
    <3>6. Append(before \o More(k - 1), x) = before \o Append(More(k - 1), x)
      <4>1. \A t \in Seq(LineRecords), y \in LineRecords : Append(before \o t, y) = before \o Append(t, y)
        BY <1>1, AppendToTail
      <4> QED
        BY <2>2, <3>5, <4>1, Zenon
    <3>7. All(k) = before \o More(k)
      BY <2>5, <3>1, <3>4, <3>6, Zenon
    <3> QED
      BY <3>7
  <2>7. CASE entries[off + k] # "line"
    <3>1. All(k) = All(k - 1) /\ More(k) = More(k - 1)
      BY <2>3, <2>4, <2>7, Zenon DEF Extend
    <3>2. All(k) = before \o More(k)
      BY <2>5, <3>1, Zenon
    <3> QED
      BY <3>2
  <2> QED
    BY <2>6, <2>7
<1>4. 0..n \subseteq T
  <2> HIDE DEF T
  <2> QED
    BY <1>2, <1>3, InductionUpTo
<1>5. n \in T
  <2>1. n \in 0..n
    OBVIOUS
  <2> QED
    BY <1>4, <2>1, Zenon
<1>6. All(n) = before \o More(n)
  BY <1>5, Zenon
<1> QED
  BY <1>6, Zenon DEF before, num

\* What is written later does not change the lines of a slice.
LEMMA SliceLasts ==
  ASSUME NEW entries \in Logs, NEW x \in {"line", "blank"}, NEW from \in Nat, NEW num \in Nat, NEW n \in Nat,
         from + n <= Len(entries)
  PROVE  Slice(Append(entries, x), from, n, num) = Slice(entries, from, n, num)
<1> DEFINE longer == Append(entries, x)
           Then(k) == Slice(longer, from, k, num)
           Now(k) == Slice(entries, from, k, num)
           T == {k \in 0..n : Then(k) = Now(k)}
<1>1. Len(entries) \in Nat /\ \A i \in 1..Len(entries) : longer[i] = entries[i]
  BY DEF Logs
<1>2. \A k \in 1..n : longer[from + k] = entries[from + k]
  BY <1>1
<1> HIDE DEF longer
<1>3. 0 \in T
  <2>1. Then(0) = <<>>
    BY SliceEmpty
  <2>2. Now(0) = <<>>
    BY SliceEmpty
  <2> HIDE DEF Then, Now
  <2> QED
    BY <2>1, <2>2
<1>4. ASSUME NEW k \in 1..n, k - 1 \in T PROVE k \in T
  <2>1. k - 1 \in Nat /\ k \in Nat \ {0}
    OBVIOUS
  <2>2. Then(k) = Extend(longer, from + k, num, Then(k - 1))
    BY <2>1, SliceGrows
  <2>3. Now(k) = Extend(entries, from + k, num, Now(k - 1))
    BY <2>1, SliceGrows
  <2>4. Then(k - 1) = Now(k - 1)
    BY <1>4
  <2> HIDE DEF Then, Now
  <2>5. longer[from + k] = entries[from + k]
    BY <1>2
  <2>6. Extend(longer, from + k, num, Now(k - 1)) = Extend(entries, from + k, num, Now(k - 1))
    BY <2>5, Zenon DEF Extend
  <2>7. Then(k) = Now(k)
    BY <2>2, <2>3, <2>4, <2>6, Zenon
  <2> QED
    BY <2>7
<1>5. 0..n \subseteq T
  <2> HIDE DEF T
  <2> QED
    BY <1>3, <1>4, InductionUpTo
<1>6. n \in T
  BY <1>5
<1> QED
  BY <1>6 DEF longer

-----------------------------------------------------------------------------
(* The slices in the terms of the page                                      *)

LEMMA LinesEmpty ==
  ASSUME NEW entries
  PROVE  Lines(entries, 0, 0, 1) = <<>>
<1>1. \A m \in Nat : Slice(entries, m, 0, 1) = <<>>
  BY SliceEmpty
<1>2. 0 \in Nat /\ 0 + 0 = 0
  OBVIOUS
<1>3. Slice(entries, 0, 0, 1) = <<>>
  BY <1>1, <1>2, Zenon
<1>4. Slice(entries, 0, 0, 1) = Lines(entries, 0, 0, 1)
  BY <1>2, Zenon DEF Slice
<1> QED
  BY <1>3, <1>4, Zenon

LEMMA LinesTyped ==
  ASSUME NEW entries, NEW from \in Nat, NEW to \in Nat, from <= to, NEW num \in Nat
  PROVE  /\ Lines(entries, from, to, num) \in Seq(LineRecords)
         /\ Len(Lines(entries, from, to, num)) \in 0..(to - from)
<1>1. to - from \in Nat /\ from + (to - from) = to
  OBVIOUS
<1>2. Slice(entries, from, to - from, num) = Lines(entries, from, to, num)
  BY <1>1, Zenon DEF Slice
<1>3. \A n \in Nat : /\ Slice(entries, from, n, num) \in Seq(LineRecords)
                     /\ Len(Slice(entries, from, n, num)) \in 0..n
  BY SliceTyped, SliceLength
<1> QED
  BY <1>1, <1>2, <1>3, Zenon

LEMMA LinesJoin ==
  ASSUME NEW entries, NEW off \in Nat, NEW to \in Nat, off <= to
  PROVE  Lines(entries, 0, to, 1)
           = Lines(entries, 0, off, 1) \o Lines(entries, off, to, Len(Lines(entries, 0, off, 1)) + 1)
<1>1. /\ to - off \in Nat /\ off + (to - off) = to
      /\ 0 + off = off /\ 0 + (off + (to - off)) = to
  OBVIOUS
<1>2. Slice(entries, 0, off, 1) = Lines(entries, 0, off, 1)
  BY <1>1, Zenon DEF Slice
<1>3. \A n \in Nat :
        Slice(entries, 0, off + n, 1)
          = Slice(entries, 0, off, 1) \o Slice(entries, off, n, Len(Slice(entries, 0, off, 1)) + 1)
  BY SliceJoin
<1>4. Slice(entries, 0, off + (to - off), 1)
        = Lines(entries, 0, off, 1)
            \o Slice(entries, off, to - off, Len(Lines(entries, 0, off, 1)) + 1)
  BY <1>1, <1>2, <1>3, Zenon
<1> QED
  BY <1>1, <1>4, Zenon DEF Slice

LEMMA LinesLast ==
  ASSUME NEW entries \in Logs, NEW x \in {"line", "blank"},
         NEW from \in Nat, NEW to \in Nat, from <= to, to <= Len(entries), NEW num \in Nat
  PROVE  Lines(Append(entries, x), from, to, num) = Lines(entries, from, to, num)
<1>1. to - from \in Nat /\ from + (to - from) = to
  OBVIOUS
<1>2. from + (to - from) <= Len(entries)
  BY <1>1, Zenon
<1>3. \A n \in Nat : from + n <= Len(entries) =>
        Slice(Append(entries, x), from, n, num) = Slice(entries, from, n, num)
  BY SliceLasts
<1>4. Slice(Append(entries, x), from, to - from, num) = Slice(entries, from, to - from, num)
  BY <1>1, <1>2, <1>3, Zenon
<1> QED
  BY <1>1, <1>4, Zenon DEF Slice

-----------------------------------------------------------------------------
(* The inductive invariant                                                  *)

\* What is on its way to the page: a slice from where the page is.  A terminal
\* status is still the status, and a whole slice then holds all there is.
Arriving ==
  /\ phase = "answered" => response.kind \in {"refused", "failed", "ok"}
  /\ response.kind = "ok" =>
       /\ response.to \in offset..Len(log)
       /\ response.lines = Lines(log, offset, response.to, lineNum)
       /\ response.status \in Terminal => status \in Ended /\ (whole => response.to = Len(log))
       /\ response.not_logged => ~logged
       /\ response.too_large => Len(log) > HardCap

\* Failures are counted as they are taken, the streak as they are sent.
Counted ==
  /\ phase \in {"timer", "fetch"} => failures < MaxFailures /\ failures <= streak
  /\ phase = "answered" => failures < MaxFailures
  /\ (phase = "answered" /\ response.kind = "failed") => failures + 1 <= streak

\* The page and the timer.
Paged ==
  /\ page = "login" => phase = "stopped"
  /\ phase # "stopped" => outcome = "none"
  /\ (phase = "stopped" /\ outcome = "none") => page = "login"

IInv ==
  TypeOK /\ ShownIsTheLog /\ Arriving /\ Counted /\ Paged /\ FinishedShowsAll /\ StoppedForAReason

LEMMA InitIInv == Init => IInv
<1> SUFFICES ASSUME Init PROVE IInv
  OBVIOUS
<1>1. <<>> \in Seq({"line", "blank"}) /\ Len(<<>>) = 0
  OBVIOUS
<1>2. TypeOK
  <2>1. log \in Seq({"line", "blank"}) /\ Len(log) = 0
    BY <1>1 DEF Init
  <2>2. MaxFailures \in Nat \ {0} /\ MaxInterval \in Nat \ {0} /\ MaxLog \in Nat
          /\ MaxEvents \in Nat /\ MaxVisits \in Nat \ {0}
    BY ViewerAssumption DEF ViewerAssumption
  <2> QED
    BY <2>1, <2>2 DEF Init, TypeOK, Statuses, Outcomes, NoResponse
<1>3. ShownIsTheLog
  <2>1. shown = <<>> /\ offset = 0 /\ lineNum = 1
    BY DEF Init
  <2>2. Lines(log, 0, offset, 1) = <<>>
    BY <2>1, LinesEmpty, Zenon
  <2>3. lineNum = Len(shown) + 1
    BY <1>1, <2>1
  <2> QED
    BY <2>1, <2>2, <2>3, Zenon DEF ShownIsTheLog
<1>4. Arriving
  BY DEF Init, Arriving, NoResponse
<1>5. Counted
  BY ViewerAssumption DEF Init, Counted, ViewerAssumption
<1>6. Paged /\ FinishedShowsAll /\ StoppedForAReason
  BY DEF Init, Paged, FinishedShowsAll, StoppedForAReason
<1> QED
  BY <1>2, <1>3, <1>4, <1>5, <1>6 DEF IInv

\* What is rendered is the log up to the cursor as long as neither moves.
LEMMA ShownStays ==
  ASSUME ShownIsTheLog, UNCHANGED <<log, cursor>>
  PROVE  ShownIsTheLog'
BY Zenon DEF ShownIsTheLog, cursor

LEMMA FireIInv == IInv /\ Fire => IInv'
<1> SUFFICES ASSUME IInv, Fire PROVE IInv'
  OBVIOUS
<1> USE DEF IInv, Fire, upstream, session, cursor
<1>1. TypeOK'
  BY DEF TypeOK
<1>2. ShownIsTheLog'
  BY ShownStays
<1>3. Arriving'
  BY DEF Arriving
<1>4. Counted'
  BY DEF Counted
<1>5. Paged' /\ FinishedShowsAll' /\ StoppedForAReason'
  BY DEF Paged, FinishedShowsAll, StoppedForAReason
<1> QED
  BY <1>1, <1>2, <1>3, <1>4, <1>5

\* An answer that is no slice is on its way.
LEMMA RefuseIInv == IInv /\ Refuse => IInv'
<1> SUFFICES ASSUME IInv, Refuse PROVE IInv'
  OBVIOUS
<1> USE DEF IInv, Refuse, Answer, upstream, session, cursor
<1>1. response'.kind = "refused"
  OBVIOUS
<1>2. TypeOK'
  BY <1>1, ViewerAssumption DEF TypeOK, ViewerAssumption
<1>3. ShownIsTheLog'
  BY ShownStays
<1>4. Arriving'
  BY <1>1 DEF Arriving
<1>5. Counted'
  BY <1>1 DEF Counted
<1>6. Paged' /\ FinishedShowsAll' /\ StoppedForAReason'
  BY DEF Paged, FinishedShowsAll, StoppedForAReason
<1> QED
  BY <1>2, <1>3, <1>4, <1>5, <1>6

LEMMA FailIInv == IInv /\ Fail => IInv'
<1> SUFFICES ASSUME IInv, Fail PROVE IInv'
  OBVIOUS
<1> USE DEF IInv, Fail, Answer, upstream, session, cursor
<1>1. response'.kind = "failed"
  OBVIOUS
<1>2. MaxFailures \in Nat /\ streak \in 0..MaxFailures /\ failures \in 0..MaxFailures
  BY ViewerAssumption DEF TypeOK, ViewerAssumption
<1>3. streak' \in 0..MaxFailures
  BY <1>2
<1>4. TypeOK'
  BY <1>1, <1>3 DEF TypeOK
<1>5. ShownIsTheLog'
  BY ShownStays
<1>6. Arriving'
  BY <1>1 DEF Arriving
<1>7. Counted'
  BY <1>2 DEF Counted
<1>8. Paged' /\ FinishedShowsAll' /\ StoppedForAReason'
  BY DEF Paged, FinishedShowsAll, StoppedForAReason
<1> QED
  BY <1>4, <1>5, <1>6, <1>7, <1>8

\* A slice is on its way, cut where the page is.
LEMMA ServeIInv == IInv /\ Serve => IInv'
<1> SUFFICES ASSUME IInv, Serve PROVE IInv'
  OBVIOUS
<1> USE DEF IInv, Answer, upstream, session, cursor
<1>1. PICK to \in offset..Len(log) : (whole => to = Len(log)) /\ Answer(Trace(to))
  BY DEF Serve
<1>2. /\ response'.kind = "ok" /\ response'.status = status /\ response'.to = to
      /\ response'.lines = Lines(log, offset, to, lineNum)
      /\ response'.not_logged = ~logged /\ response'.too_large = (Len(log) > HardCap)
  BY <1>1, Zenon DEF Trace
<1>3. UNCHANGED <<upstream, session, page, visits, cursor, failures, outcome>>
        /\ phase' = "answered" /\ phase = "fetch" /\ streak' = 0
  BY <1>1 DEF Serve
<1>4. TypeOK'
  BY <1>2, <1>3, ViewerAssumption DEF TypeOK, ViewerAssumption
<1>5. ShownIsTheLog'
  BY <1>3, ShownStays
<1>6. Arriving'
  <2>1. response'.to \in offset'..Len(log')
    BY <1>1, <1>2, <1>3
  <2>2. response'.lines = Lines(log', offset', response'.to, lineNum')
    BY <1>2, <1>3
  <2>3. response'.status \in Terminal => status' \in Ended /\ (whole' => response'.to = Len(log'))
    BY <1>1, <1>2, <1>3 DEF Terminal, Ended
  <2>4. response'.not_logged => ~logged'
    BY <1>2, <1>3
  <2>5. response'.too_large => Len(log') > HardCap
    BY <1>2, <1>3
  <2> QED
    BY <1>2, <2>1, <2>2, <2>3, <2>4, <2>5 DEF Arriving
<1>7. Counted'
  BY <1>2, <1>3 DEF Counted
<1>8. Paged' /\ FinishedShowsAll' /\ StoppedForAReason'
  BY <1>3 DEF Paged, FinishedShowsAll, StoppedForAReason
<1> QED
  BY <1>4, <1>5, <1>6, <1>7, <1>8

LEMMA RedirectedIInv == IInv /\ Redirected => IInv'
<1> SUFFICES ASSUME IInv, Redirected PROVE IInv'
  OBVIOUS
<1> USE DEF IInv, Redirected, upstream, session, cursor
<1>1. response'.kind = "none"
  BY DEF NoResponse
<1>2. TypeOK'
  BY <1>1 DEF TypeOK
<1>3. ShownIsTheLog'
  BY ShownStays
<1>4. Arriving'
  BY <1>1 DEF Arriving
<1>5. Counted'
  BY DEF Counted
<1>6. Paged' /\ FinishedShowsAll' /\ StoppedForAReason'
  BY DEF Paged, FinishedShowsAll, StoppedForAReason
<1> QED
  BY <1>2, <1>3, <1>4, <1>5, <1>6

\* The failure that stops the page is the last of a streak: those before it
\* were counted, and none of them was followed by a good answer.
LEMMA PollFailedIInv == IInv /\ PollFailed => IInv'
<1> SUFFICES ASSUME IInv, PollFailed PROVE IInv'
  OBVIOUS
<1> USE DEF IInv, upstream, session, cursor
<1>1. response'.kind = "none"
  BY DEF PollFailed, NoResponse
<1>2. /\ UNCHANGED <<upstream, session, page, visits, cursor, streak>>
      /\ phase = "answered" /\ response.kind = "failed" /\ failures' = failures + 1
  BY DEF PollFailed
<1>3. /\ MaxFailures \in Nat /\ failures \in Nat /\ streak \in 0..MaxFailures
      /\ failures < MaxFailures /\ failures + 1 <= streak
  BY <1>2, ViewerAssumption DEF TypeOK, Counted, ViewerAssumption
<1>4. \/ failures' = MaxFailures /\ streak' = MaxFailures /\ phase' = "stopped" /\ outcome' = "poll_failed"
      \/ failures' < MaxFailures /\ phase' = "timer" /\ outcome' = outcome
  BY <1>2, <1>3 DEF PollFailed, Stop, Continue
<1>5. outcome = "none" /\ page # "login"
  BY <1>2 DEF Paged
<1>6. TypeOK'
  BY <1>1, <1>2, <1>3, <1>4 DEF TypeOK, Outcomes
<1>7. ShownIsTheLog'
  BY <1>2, ShownStays
<1>8. Arriving'
  BY <1>1, <1>4 DEF Arriving
<1>9. Counted'
  BY <1>2, <1>3, <1>4 DEF Counted
<1>10. Paged' /\ FinishedShowsAll' /\ StoppedForAReason'
  BY <1>2, <1>4, <1>5 DEF Paged, FinishedShowsAll, StoppedForAReason
<1> QED
  BY <1>6, <1>7, <1>8, <1>9, <1>10

LEMMA NoticeIInv == IInv /\ Notice => IInv'
<1> SUFFICES ASSUME IInv, Notice PROVE IInv'
  OBVIOUS
<1> USE DEF IInv, upstream, session, cursor
<1>1. response'.kind = "none"
  BY DEF Notice, NoResponse
<1>2. /\ UNCHANGED <<upstream, session, page, visits, cursor, streak>>
      /\ phase = "answered" /\ response.kind = "ok" /\ failures' = 0 /\ phase' = "stopped"
  BY DEF Notice, Stop
<1>3. \/ outcome' = "not_logged" /\ ~logged
      \/ outcome' = "too_large" /\ Len(log) > HardCap
  BY <1>2 DEF Notice, Stop, Arriving
<1>4. outcome = "none" /\ page # "login"
  BY <1>2 DEF Paged
<1>5. TypeOK'
  BY <1>1, <1>2, <1>3, ViewerAssumption DEF TypeOK, Outcomes, ViewerAssumption
<1>6. ShownIsTheLog'
  BY <1>2, ShownStays
<1>7. Arriving'
  BY <1>1, <1>2 DEF Arriving
<1>8. Counted'
  BY <1>2 DEF Counted
<1>9. Paged' /\ FinishedShowsAll'
  BY <1>2, <1>3, <1>4 DEF Paged, FinishedShowsAll
<1>10. StoppedForAReason'
  BY <1>2, <1>3 DEF StoppedForAReason
<1> QED
  BY <1>5, <1>6, <1>7, <1>8, <1>9, <1>10

\* The slice was cut where the page is, so what is rendered with it is the log
\* up to where the slice ends.
LEMMA TakeIInv == IInv /\ Take => IInv'
<1> SUFFICES ASSUME IInv, Take PROVE IInv'
  OBVIOUS
<1> USE DEF IInv, upstream, session
<1>1. response'.kind = "none"
  BY DEF Take, NoResponse
<1>2. /\ UNCHANGED <<upstream, session, page, visits, streak>>
      /\ phase = "answered" /\ response.kind = "ok" /\ failures' = 0 /\ Advance
  BY DEF Take
<1>3. \/ response.status \in Terminal /\ phase' = "stopped" /\ outcome' = "finished"
      \/ phase' = "timer" /\ outcome' = outcome
  BY DEF Take, Stop, Continue
<1>4. outcome = "none" /\ page # "login"
  BY <1>2 DEF Paged
<1>5. offset \in Nat /\ response.to \in offset..Len(log) /\ Len(log) \in Nat /\ response.to \in Nat
  BY <1>2 DEF TypeOK, Arriving
<1>6. offset <= response.to /\ response.to <= Len(log)
  BY <1>5
<1>7. /\ shown = Lines(log, 0, offset, 1) /\ lineNum = Len(shown) + 1
      /\ response.lines = Lines(log, offset, response.to, lineNum)
  BY <1>2 DEF ShownIsTheLog, Arriving
<1>8. shown \in Seq(LineRecords) /\ response.lines \in Seq(LineRecords)
  <2>1. \A from, to, num \in Nat : from <= to => Lines(log, from, to, num) \in Seq(LineRecords)
    BY LinesTyped
  <2>2. 0 \in Nat /\ 1 \in Nat /\ 0 <= offset /\ lineNum \in Nat
    BY <1>5 DEF TypeOK
  <2> QED
    BY <1>5, <1>6, <1>7, <2>1, <2>2, Zenon
<1>9. shown' = Lines(log', 0, offset', 1) /\ lineNum' = Len(shown') + 1
  <2>1. Lines(log, 0, response.to, 1) = shown \o response.lines
    <3>1. \A off, to \in Nat : off <= to =>
            Lines(log, 0, to, 1)
              = Lines(log, 0, off, 1) \o Lines(log, off, to, Len(Lines(log, 0, off, 1)) + 1)
      BY LinesJoin
    <3> QED
      BY <1>5, <1>6, <1>7, <3>1, Zenon
  <2>2. offset' = response.to /\ log' = log /\ shown' = shown \o response.lines
          /\ lineNum' = lineNum + Len(response.lines)
    BY <1>2 DEF Advance
  <2>3. lineNum + Len(response.lines) = Len(shown \o response.lines) + 1
    <3> DEFINE before == shown
               more == response.lines
    <3>1. before \in Seq(LineRecords) /\ more \in Seq(LineRecords)
      BY <1>8
    <3>2. lineNum = Len(before) + 1
      BY <1>7
    <3> HIDE DEF before, more
    <3>3. lineNum + Len(more) = Len(before \o more) + 1
      BY <3>1, <3>2
    <3> QED
      BY <3>3 DEF before, more
  <2> QED
    BY <2>1, <2>2, <2>3, Zenon
<1>10. TypeOK'
  <2>1. offset' \in 0..Len(log')
    BY <1>2, <1>5 DEF Advance
  <2>2. lineNum' \in 1..(Len(log') + 1)
    <3>1. \A to \in Nat : 0 <= to => Len(Lines(log, 0, to, 1)) \in 0..(to - 0)
      <4>1. \A from, to, num \in Nat : from <= to => Len(Lines(log, from, to, num)) \in 0..(to - from)
        BY LinesTyped
      <4>2. 0 \in Nat /\ 1 \in Nat
        OBVIOUS
      <4> QED
        BY <4>1, <4>2, Zenon
    <3>2. offset' = response.to /\ log' = log
      BY <1>2 DEF Advance
    <3>3. shown' = Lines(log, 0, response.to, 1) /\ lineNum' = Len(shown') + 1
      BY <1>9, <3>2, Zenon
    <3>4. 0 <= response.to
      BY <1>5
    <3>5. Len(shown') \in 0..(response.to - 0)
      BY <1>5, <3>1, <3>3, <3>4, Zenon
    <3> QED
      BY <1>5, <1>6, <3>2, <3>3, <3>5
  <2>3. interval' \in 1..MaxInterval
    BY <1>2, ViewerAssumption DEF Advance, Backoff, TypeOK, ViewerAssumption
  <2>4. failures' \in 0..MaxFailures
    BY <1>2, ViewerAssumption DEF ViewerAssumption
  <2>5. outcome' \in Outcomes /\ phase' \in {"timer", "stopped"}
    BY <1>3, <1>4 DEF Outcomes
  <2> QED
    BY <1>1, <1>2, <2>1, <2>2, <2>3, <2>4, <2>5 DEF TypeOK
<1>11. ShownIsTheLog'
  BY <1>9, Zenon DEF ShownIsTheLog
<1>12. Arriving'
  BY <1>1, <1>3 DEF Arriving
<1>13. Counted'
  BY <1>2, <1>3, ViewerAssumption DEF Counted, TypeOK, ViewerAssumption
<1>14. Paged' /\ FinishedShowsAll' /\ StoppedForAReason'
  <2>1. CASE response.status \in Terminal /\ phase' = "stopped" /\ outcome' = "finished"
    <3>1. status' \in Ended /\ (whole' => offset' = Len(log'))
      BY <1>2, <2>1 DEF Arriving, Advance
    <3> QED
      BY <1>2, <1>4, <2>1, <3>1 DEF Paged, FinishedShowsAll, StoppedForAReason
  <2>2. CASE phase' = "timer" /\ outcome' = outcome
    BY <1>2, <1>4, <2>2 DEF Paged, FinishedShowsAll, StoppedForAReason
  <2> QED
    BY <1>3, <2>1, <2>2
<1> QED
  BY <1>10, <1>11, <1>12, <1>13, <1>14

\* A page that is opened starts from nothing, whatever became of the last one.
LEMMA OpenIInv ==
  ASSUME IInv, Open, cookie' \in {"none", "scoped", "unscoped"}
  PROVE  IInv'
<1> USE DEF IInv, upstream
<1>1. response'.kind = "none"
  BY DEF Open, NoResponse
<1>2. /\ UNCHANGED <<upstream, account, events>> /\ visits < MaxVisits /\ visits' = visits + 1
      /\ page' = "viewer" /\ phase' = "timer" /\ outcome' = "none" /\ failures' = 0 /\ streak' = 0
      /\ offset' = 0 /\ lineNum' = 1 /\ interval' = 1 /\ shown' = <<>>
  BY DEF Open
<1>3. MaxFailures \in Nat \ {0} /\ MaxInterval \in Nat \ {0} /\ MaxVisits \in Nat /\ Len(log) \in Nat
  BY ViewerAssumption DEF TypeOK, ViewerAssumption
<1>4. TypeOK'
  BY <1>1, <1>2, <1>3 DEF TypeOK, Outcomes
<1>5. ShownIsTheLog'
  <2>1. Lines(log', 0, offset', 1) = <<>>
    BY <1>2, LinesEmpty, Zenon
  <2>2. Len(<<>>) + 1 = 1
    OBVIOUS
  <2> QED
    BY <1>2, <2>1, <2>2, Zenon DEF ShownIsTheLog
<1>6. Arriving' /\ Paged' /\ FinishedShowsAll' /\ StoppedForAReason'
  BY <1>1, <1>2 DEF Arriving, Paged, FinishedShowsAll, StoppedForAReason
<1>7. Counted'
  BY <1>2, <1>3 DEF Counted
<1> QED
  BY <1>4, <1>5, <1>6, <1>7

LEMMA LoginIInv == IInv /\ Login => IInv'
<1> SUFFICES ASSUME IInv, Login PROVE IInv'
  OBVIOUS
<1>1. cookie' \in {"none", "scoped", "unscoped"}
  BY DEF IInv, TypeOK, Login, Authenticated, Issued
<1> QED
  BY <1>1, OpenIInv DEF Login

LEMMA ReloadIInv == IInv /\ Reload => IInv'
<1> SUFFICES ASSUME IInv, Reload PROVE IInv'
  OBVIOUS
<1>1. cookie' \in {"none", "scoped", "unscoped"}
  BY DEF IInv, TypeOK, Reload
<1> QED
  BY <1>1, OpenIInv DEF Reload

\* A command that is over writes nothing more: what a finished page shows, and
\* a slice with a terminal status on its way, stay all there is.
LEMMA LogGrowsIInv ==
  ASSUME IInv, NEW entry \in {"line", "blank"}, LogGrows(entry)
  PROVE  IInv'
<1> USE DEF IInv
<1>1. /\ log' = Append(log, entry) /\ logged /\ status \notin Ended /\ Len(log) < MaxLog
      /\ UNCHANGED <<status, logged, whole, trusted, session, page, visits, phase, response, cursor,
                     failures, outcome, streak>>
  BY DEF LogGrows
<1>2. log \in Logs /\ offset \in Nat /\ offset <= Len(log) /\ Len(log) \in Nat /\ lineNum \in Nat
  BY DEF TypeOK, Logs
<1>3. log' \in Seq({"line", "blank"}) /\ Len(log') = Len(log) + 1
  BY <1>1, <1>2 DEF Logs
<1>4. \A from, to, num \in Nat :
        from <= to /\ to <= Len(log) => Lines(log', from, to, num) = Lines(log, from, to, num)
  BY <1>1, <1>2, LinesLast
<1>5. TypeOK'
  <2>1. log' \in Seq({"line", "blank"}) /\ Len(log') <= MaxLog
    BY <1>1, <1>2, <1>3, ViewerAssumption DEF ViewerAssumption
  <2>2. offset' \in 0..Len(log') /\ lineNum' \in 1..(Len(log') + 1)
    BY <1>1, <1>2, <1>3 DEF TypeOK, cursor
  <2> QED
    BY <1>1, <2>1, <2>2 DEF TypeOK, session, cursor
<1>6. ShownIsTheLog'
  <2>1. 0 \in Nat /\ 1 \in Nat /\ 0 <= offset
    BY <1>2
  <2>2. Lines(log', 0, offset, 1) = Lines(log, 0, offset, 1)
    BY <1>2, <1>4, <2>1, Zenon
  <2>3. UNCHANGED <<offset, lineNum, shown>>
    BY <1>1 DEF cursor
  <2> QED
    BY <2>2, <2>3, Zenon DEF ShownIsTheLog
<1>7. Arriving'
  <2>1. UNCHANGED <<phase, response, offset, lineNum, status, logged, whole>>
    BY <1>1 DEF cursor
  <2>2. CASE response.kind # "ok"
    BY <2>1, <2>2 DEF Arriving
  <2>3. CASE response.kind = "ok"
    <3>1. /\ response.to \in offset..Len(log) /\ response.lines = Lines(log, offset, response.to, lineNum)
          /\ response.status \notin Terminal
          /\ ~response.not_logged
          /\ response.too_large => Len(log) > HardCap
      BY <1>1, <2>3 DEF Arriving
    <3>2. response.to \in Nat /\ offset <= response.to /\ response.to <= Len(log)
      BY <1>2, <3>1
    <3>3. response.lines = Lines(log', offset, response.to, lineNum)
      BY <1>2, <1>4, <3>1, <3>2, Zenon
    <3>4. response.to \in offset..Len(log')
      BY <1>2, <1>3, <3>1
    <3>5. response.too_large => Len(log') > HardCap
      BY <1>2, <1>3, <3>1, ViewerAssumption DEF ViewerAssumption
    <3>6. phase = "answered" => response.kind \in {"refused", "failed", "ok"}
      BY <2>3
    <3> QED
      BY <2>1, <3>1, <3>3, <3>4, <3>5, <3>6, Zenon DEF Arriving
  <2> QED
    BY <2>2, <2>3
<1>8. Counted' /\ Paged'
  BY <1>1 DEF Counted, Paged
<1>9. outcome # "finished" /\ outcome # "not_logged"
  BY <1>1 DEF StoppedForAReason
<1>10. FinishedShowsAll'
  BY <1>1, <1>9 DEF FinishedShowsAll
<1>11. StoppedForAReason'
  BY <1>1, <1>2, <1>3, <1>9, ViewerAssumption DEF StoppedForAReason, ViewerAssumption
<1> QED
  BY <1>5, <1>6, <1>7, <1>8, <1>10, <1>11

\* A command that has ended stays ended.
LEMMA StatusIInv == IInv /\ StatusChanges => IInv'
<1> SUFFICES ASSUME IInv, StatusChanges PROVE IInv'
  OBVIOUS
<1> USE DEF IInv, StatusChanges, session, cursor
<1>1. status \notin Ended /\ status' \in Statuses
  BY DEF Ended, Statuses
<1>2. UNCHANGED <<logged, log, whole, trusted, session, page, visits, phase, response, cursor,
                  failures, outcome, streak>>
  OBVIOUS
<1>3. TypeOK'
  BY <1>1, <1>2 DEF TypeOK
<1>4. ShownIsTheLog'
  BY <1>2, ShownStays
<1>5. Arriving'
  BY <1>1, <1>2 DEF Arriving
<1>6. Counted' /\ Paged' /\ FinishedShowsAll' /\ StoppedForAReason'
  BY <1>1, <1>2 DEF Counted, Paged, FinishedShowsAll, StoppedForAReason
<1> QED
  BY <1>3, <1>4, <1>5, <1>6

\* The session decides what the next fetch is answered, and nothing else.
LEMMA SessionIInv ==
  ASSUME IInv, SessionChanges, account' \in {"scoped", "unscoped", "gone"},
         cookie' \in {"none", "scoped", "unscoped"}, trusted' \in BOOLEAN
  PROVE  IInv'
<1> USE DEF IInv, cursor
<1>1. /\ UNCHANGED <<status, logged, log, whole, page, visits, phase, response, cursor, failures, outcome,
                     streak>>
      /\ events < MaxEvents /\ events' = events + 1
  BY DEF SessionChanges
<1>2. MaxEvents \in Nat
  BY ViewerAssumption DEF ViewerAssumption
<1>3. events' \in 0..MaxEvents
  BY <1>1, <1>2 DEF TypeOK
<1>4. TypeOK'
  BY <1>1, <1>3 DEF TypeOK
<1>5. ShownIsTheLog'
  BY <1>1, ShownStays
<1>6. Arriving'
  BY <1>1 DEF Arriving
<1>7. Counted' /\ Paged' /\ FinishedShowsAll' /\ StoppedForAReason'
  BY <1>1 DEF Counted, Paged, FinishedShowsAll, StoppedForAReason
<1> QED
  BY <1>4, <1>5, <1>6, <1>7

LEMMA StutterIInv == IInv /\ UNCHANGED vars => IInv'
<1> SUFFICES ASSUME IInv, UNCHANGED vars PROVE IInv'
  OBVIOUS
<1> USE DEF IInv, vars, upstream, session, cursor
<1>1. TypeOK'
  BY DEF TypeOK
<1>2. ShownIsTheLog'
  BY ShownStays
<1>3. Arriving'
  BY DEF Arriving
<1>4. Counted' /\ Paged' /\ FinishedShowsAll' /\ StoppedForAReason'
  BY DEF Counted, Paged, FinishedShowsAll, StoppedForAReason
<1> QED
  BY <1>1, <1>2, <1>3, <1>4

LEMMA NextIInv == IInv /\ [Next]_vars => IInv'
<1> SUFFICES ASSUME IInv, [Next]_vars PROVE IInv'
  OBVIOUS
<1>1. CASE ViewerStep
  BY <1>1, FireIInv, RefuseIInv, FailIInv, ServeIInv, RedirectedIInv, PollFailedIInv, NoticeIInv, TakeIInv
     DEF ViewerStep
<1>2. CASE Login
  BY <1>2, LoginIInv
<1>3. CASE Reload
  BY <1>3, ReloadIInv
<1>4. CASE StatusChanges
  BY <1>4, StatusIInv
<1>5. CASE CookieExpires
  BY <1>5, SessionIInv DEF CookieExpires, IInv, TypeOK
<1>6. CASE EditUsers
  BY <1>6, SessionIInv DEF EditUsers, IInv, TypeOK
<1>7. CASE TrustChanges
  BY <1>7, SessionIInv DEF TrustChanges, IInv, TypeOK
<1>8. CASE \E entry \in {"line", "blank"} : LogGrows(entry)
  BY <1>8, LogGrowsIInv
<1>9. CASE UNCHANGED vars
  BY <1>9, StutterIInv
<1> QED
  BY <1>1, <1>2, <1>3, <1>4, <1>5, <1>6, <1>7, <1>8, <1>9 DEF Next

LEMMA Invariance == Spec => []IInv
BY InitIInv, NextIInv, PTL DEF Spec

-----------------------------------------------------------------------------
(* The theorems                                                             *)

\* The page, the session and the command keep their types, however long the
\* log gets and however often the page is opened.
THEOREM ViewerTypeCorrect == Spec => []TypeOK
<1>1. IInv => TypeOK
  BY DEF IInv
<1> QED
  BY <1>1, Invariance, PTL

\* What refresh has rendered is the log up to its offset, numbered without a
\* gap: slices that come in while the log grows, that hold no line, or that
\* follow failed polls and logins, neither lose nor repeat nor misnumber one.
THEOREM NoLineIsLost == Spec => []ShownIsTheLog
<1>1. IInv => ShownIsTheLog
  BY DEF IInv
<1> QED
  BY <1>1, Invariance, PTL

\* When the viewer says that the command has finished, and deploy-service cuts
\* no answer short, all that was logged is rendered.
THEOREM NothingFollowsTheEnd == Spec => []FinishedShowsAll
<1>1. IInv => FinishedShowsAll
  BY DEF IInv
<1> QED
  BY <1>1, Invariance, PTL

\* The timer is left null only when the command has ended, its log is too
\* large or not kept, MAX_FAILURES answers in a row have failed, or the browser
\* is at the login page.
THEOREM NobodyStopsEarly == Spec => []StoppedForAReason
<1>1. IInv => StoppedForAReason
  BY DEF IInv
<1> QED
  BY <1>1, Invariance, PTL
=============================================================================
