---------------------------- MODULE IndexerProofs ----------------------------
(***************************************************************************)
(* What the scanners of Extract owe for every line, and what the builds of *)
(* Indexer owe for every corpus, content and sequence of edits.            *)
(***************************************************************************)
EXTENDS Indexer, FiniteSetTheorems, SequenceTheorems, WellFoundedInduction, TLAPS

-----------------------------------------------------------------------------
(* Induction, and the states of a loop. *)

LEMMA Induction ==
  ASSUME NEW S \in SUBSET Nat, 0 \in S, \A n \in S : n + 1 \in S
  PROVE  S = Nat
<1> DEFINE T == Nat \ S
<1>1. SUFFICES ASSUME T # {} PROVE FALSE
  OBVIOUS
<1>2. PICK x \in T : \A y \in T : ~ (<<y, x>> \in OpToRel(<, Nat))
  <2> HIDE DEF T
  <2>1. T \subseteq Nat
    BY DEF T
  <2>2. QED
    BY <1>1, <2>1, NatLessThanWellFounded, WFMin
<1>3. x \in Nat /\ x # 0 /\ x - 1 \in Nat /\ x - 1 < x
  OBVIOUS
<1>4. <<x - 1, x>> \in OpToRel(<, Nat)
  BY <1>3 DEF OpToRel
<1>5. x - 1 \in S
  BY <1>2, <1>3, <1>4
<1>6. QED
  BY <1>3, <1>5

(* A counted loop has a state after each of its rounds.                    *)
LoopOf(f, S, start, n, step) ==
    f \in [0..n -> S] /\ f[0] = start /\ \A i \in 1..n : f[i] = step[i][f[i - 1]]

LEMMA LoopStates ==
  ASSUME NEW S, NEW start \in S, NEW n \in Nat, NEW step \in [1..n -> [S -> S]]
  PROVE  \E f : LoopOf(f, S, start, n, step)
<1> DEFINE Good(g, k) == /\ g \in [0..k -> S] /\ g[0] = start
                         /\ \A i \in 1..k : g[i] = step[i][g[i - 1]]
           D == {k \in Nat : k <= n => \E g \in [0..k -> S] : Good(g, k)}
<1>1. 0 \in D
  <2>1. Good([i \in 0..0 |-> start], 0)
    OBVIOUS
  <2>2. QED
    BY <2>1
<1>2. ASSUME NEW k \in D PROVE k + 1 \in D
  <2>1. SUFFICES ASSUME k + 1 <= n PROVE \E g \in [0..(k+1) -> S] : Good(g, k+1)
    OBVIOUS
  <2>2. PICK g : Good(g, k)
    BY <1>2, <2>1
  <2> DEFINE h == [i \in 0..(k + 1) |-> IF i = k + 1 THEN step[k + 1][g[k]] ELSE g[i]]
  <2>3. h \in [0..(k+1) -> S]
    BY <2>1, <2>2
  <2>4. Good(h, k + 1)
    BY <2>1, <2>2, <2>3
  <2>5. QED
    BY <2>3, <2>4
<1>3. D = Nat
  <2> HIDE DEF D
  <2>1. D \in SUBSET Nat
    BY DEF D
  <2>2. QED
    BY <1>1, <1>2, <2>1, Induction
<1>4. n \in D
  BY <1>3
<1>5. QED
  BY <1>4 DEF LoopOf

-----------------------------------------------------------------------------
(* Links. *)

Seam(line, i) == line[i] = "]" /\ line[i + 1] = "("

\* The scan of a window is a function of the bytes seen so far.
LEMMA LinkScan ==
  ASSUME NEW w \in Seq(Bytes)
  PROVE  \E scan : /\ scan[0] = 0
                   /\ \A i \in 1..Len(w) : scan[i] = LinkByte(scan[i - 1], w[i])
                   /\ ContainsLink(w) <=> scan[Len(w)] = 2
<1> DEFINE n == Len(w)
           step == [i \in 1..n |-> [s \in {0, 1, 2} |-> LinkByte(s, w[i])]]
           scan == CHOOSE f : f = [i \in 0..n |-> IF i = 0 THEN 0 ELSE LinkByte(f[i - 1], w[i])]
<1>1. n \in Nat
  BY LenProperties
<1>2. ContainsLink(w) <=> scan[n] = 2
  BY DEF ContainsLink
<1>3. step \in [1..n -> [{0, 1, 2} -> {0, 1, 2}]]
  BY DEF LinkByte
<1>4. PICK f : LoopOf(f, {0, 1, 2}, 0, n, step)
  <2> HIDE DEF step, scan, n
  <2>1. QED
    BY <1>1, <1>3, LoopStates
<1>5. f = [i \in 0..n |-> IF i = 0 THEN 0 ELSE LinkByte(f[i - 1], w[i])]
  <2> HIDE DEF n
  <2>1. \A i \in 1..n : f[i] = LinkByte(f[i - 1], w[i])
    BY <1>1, <1>4 DEF LoopOf
  <2>2. QED
    BY <1>1, <1>4, <2>1 DEF LoopOf
<1> HIDE DEF step, n
<1>6. scan = [i \in 0..n |-> IF i = 0 THEN 0 ELSE LinkByte(scan[i - 1], w[i])]
  BY <1>5
<1> HIDE DEF scan
<1>7. scan[0] = 0 /\ \A i \in 1..n : scan[i] = LinkByte(scan[i - 1], w[i])
  BY <1>1, <1>6
<1>8. QED
  BY <1>2, <1>7 DEF n

\* The state machine of contains_link sees exactly the seams of its window.
LEMMA LinkSeen ==
  ASSUME NEW w \in Seq(Bytes)
  PROVE  ContainsLink(w) <=> \E i \in 1..(Len(w) - 1) : Seam(w, i)
<1>1. PICK scan : /\ scan[0] = 0
                  /\ \A i \in 1..Len(w) : scan[i] = LinkByte(scan[i - 1], w[i])
                  /\ ContainsLink(w) <=> scan[Len(w)] = 2
  BY LinkScan
<1> DEFINE Seen(k) ==
             /\ scan[k] \in {0, 1, 2}
             /\ scan[k] = 2 <=> \E i \in 1..(k - 1) : Seam(w, i)
             /\ scan[k] # 2 => (scan[k] = 1 <=> k > 0 /\ w[k] = "]")
           D == {k \in Nat : k <= Len(w) => Seen(k)}
<1>2. Len(w) \in Nat
  BY LenProperties
<1>3. 0 \in D
  BY <1>1
<1>4. ASSUME NEW k \in D PROVE k + 1 \in D
  <2> SUFFICES ASSUME k + 1 <= Len(w) PROVE Seen(k + 1)
    OBVIOUS
  <2>1. k \in Nat /\ Seen(k) /\ scan[k + 1] = LinkByte(scan[k], w[k + 1])
    BY <1>1, <1>2, <1>4
  <2>2. (\E i \in 1..k : Seam(w, i)) <=> (\E i \in 1..(k - 1) : Seam(w, i)) \/ (k > 0 /\ Seam(w, k))
    <3>1. \A i \in 1..k : i \in 1..(k - 1) \/ i = k
      BY <2>1
    <3>2. (1..(k - 1)) \subseteq 1..k /\ (k > 0 => k \in 1..k)
      BY <2>1
    <3>3. \A i \in 1..k : k > 0
      BY <2>1
    <3>4. QED
      BY <3>1, <3>2, <3>3
  <2>3. (k + 1) - 1 = k /\ k + 1 > 0
    BY <2>1
  <2> HIDE DEF D
  <2>4. scan[k + 1] = 2 <=> \E i \in 1..k : Seam(w, i)
    BY <2>1, <2>2 DEF LinkByte, Seam
  <2>5. QED
    BY <2>1, <2>3, <2>4 DEF LinkByte
<1>5. D = Nat
  <2>1. D \in SUBSET Nat
    OBVIOUS
  <2> HIDE DEF D
  <2>2. QED
    BY <1>3, <1>4, <2>1, Induction
<1>6. Len(w) \in D
  <2> HIDE DEF D
  <2>1. QED
    BY <1>2, <1>5
<1>7. QED
  BY <1>1, <1>2, <1>6

\* Every position lies in a stride of the windows.
LEMMA Strides ==
  ASSUME NEW s \in Nat \ {0}, NEW i \in Nat \ {0}
  PROVE  \E k \in Nat : k < i /\ 1 + k * s <= i /\ i <= k * s + s
<1> DEFINE In(j, k) == k < j /\ 1 + k * s <= j /\ j <= k * s + s
           D == {j \in Nat : j > 0 => \E k \in Nat : In(j, k)}
<1>1. 0 \in D
  OBVIOUS
<1>2. ASSUME NEW j \in D PROVE j + 1 \in D
  <2>1. CASE j = 0
    <3>1. In(1, 0)
      OBVIOUS
    <3>2. QED
      BY <2>1, <3>1
  <2>2. CASE j > 0
    <3> SUFFICES \E m \in Nat : In(j + 1, m)
      <4> HIDE DEF In
      <4>1. QED
        OBVIOUS
    <3>1. PICK k \in Nat : In(j, k)
      BY <1>2, <2>2
    <3> DEFINE ks == k * s
               next == (k + 1) * s
    <3>2. ks \in Nat /\ next = ks + s
      OBVIOUS
    <3>3. k < j /\ 1 + ks <= j /\ j <= ks + s
      BY <3>1
    <3>4. CASE j + 1 <= ks + s
      <4>1. k < j + 1 /\ 1 + ks <= j + 1
        BY <3>2, <3>3
      <4>2. QED
        BY <3>4, <4>1
    <3>5. CASE j + 1 > ks + s
      <4>1. k + 1 \in Nat /\ k + 1 < j + 1 /\ 1 + next <= j + 1 /\ j + 1 <= next + s
        <5> HIDE DEF ks, next
        <5>1. QED
          BY <3>2, <3>3, <3>5
      <4>2. In(j + 1, k + 1)
        BY <4>1
      <4> HIDE DEF In
      <4>3. QED
        BY <4>1, <4>2
    <3>6. QED
      BY <3>2, <3>4, <3>5
  <2>3. QED
    BY <2>1, <2>2
<1>3. D = Nat
  <2>1. D \in SUBSET Nat
    OBVIOUS
  <2> HIDE DEF D
  <2>2. QED
    BY <1>1, <1>2, <2>1, Induction
<1>4. i \in D
  <2> HIDE DEF D
  <2>1. QED
    BY <1>3
<1>5. QED
  BY <1>4

LEMMA WindowBytes ==
  ASSUME NEW line \in Seq(Bytes), NEW j \in 1..Len(line)
  PROVE  LET end == IF j + WindowSize - 1 < Len(line) THEN j + WindowSize - 1 ELSE Len(line)
             w == WindowAt(line, j)
         IN  /\ w \in Seq(Bytes) /\ Len(w) = end - j + 1 /\ Len(w) <= WindowSize
             /\ \A i \in 1..Len(w) : w[i] = line[j + i - 1]
<1> DEFINE end == IF j + WindowSize - 1 < Len(line) THEN j + WindowSize - 1 ELSE Len(line)
<1>1. Len(line) \in Nat /\ WindowSize \in Nat /\ WindowSize > 1 /\ j \in Nat
  BY LimitsAssumption, LenProperties
<1>2. end \in Nat /\ j <= end /\ end <= Len(line) /\ end - j + 1 <= WindowSize
  BY <1>1
<1>3. \A i \in j..end : line[i] \in Bytes
  <2>1. \A i \in j..end : i \in 1..Len(line)
    BY <1>1, <1>2
  <2>2. QED
    BY <2>1, ElementOfSeq
<1> HIDE DEF end
<1>4. /\ SubSeq(line, j, end) \in Seq(Bytes) /\ Len(SubSeq(line, j, end)) = end - j + 1
      /\ \A i \in 1..(end - j + 1) : SubSeq(line, j, end)[i] = line[j + i - 1]
  BY <1>1, <1>2, <1>3, SubSeqProperties
<1>5. WindowAt(line, j) = SubSeq(line, j, end)
  BY DEF WindowAt, end
<1>6. QED
  BY <1>2, <1>4, <1>5 DEF end

\* No seam falls between two windows, and a window invents none.
LEMMA SeamsOfLine ==
  ASSUME NEW line \in Seq(Bytes)
  PROVE  SeamsSeenIn(line)
<1>1. Len(line) \in Nat /\ WindowSize \in Nat /\ WindowSize > 1
  BY LimitsAssumption, LenProperties
<1>2. CASE Len(line) <= WindowSize
  <2>1. KernelWindows(line) = {line}
    BY <1>2 DEF KernelWindows
  <2>2. QED
    BY <1>2, <2>1, LinkSeen DEF SeamsSeenIn, Seam
<1>3. CASE ~ (Len(line) <= WindowSize)
  <2> DEFINE s == WindowSize - 1
  <2>1. KernelWindows(line) = {WindowAt(line, j) :
            j \in {p \in 1..Len(line) : \E k \in 0..Len(line) : p = 1 + k * s}}
    BY <1>3 DEF KernelWindows
  <2>2. ASSUME NEW i \in 1..(Len(line) - 1), Seam(line, i)
        PROVE  \E w \in KernelWindows(line) : Len(w) <= WindowSize /\ ContainsLink(w)
    <3>1. s \in Nat \ {0} /\ i \in Nat \ {0}
      BY <1>1
    <3>2. PICK k \in Nat : k < i /\ 1 + k * s <= i /\ i <= k * s + s
      <4> HIDE DEF s
      <4>1. QED
        BY <3>1, Strides
    <3>3. k * s \in Nat
      BY <3>1
    <3> DEFINE j == 1 + k * s
               w == WindowAt(line, j)
    <3>4. j \in 1..Len(line) /\ k \in 0..Len(line) /\ j <= i /\ i <= j + WindowSize - 2
      BY <1>1, <3>2, <3>3
    <3>5. w \in KernelWindows(line)
      BY <2>1, <3>4
    <3> HIDE DEF j, w, s
    <3>6. /\ w \in Seq(Bytes) /\ Len(w) <= WindowSize
          /\ Len(w) = (IF j + WindowSize - 1 < Len(line) THEN j + WindowSize - 1 ELSE Len(line)) - j + 1
          /\ \A p \in 1..Len(w) : w[p] = line[j + p - 1]
      BY <3>4, WindowBytes DEF w
    <3>7. i - j + 1 \in 1..(Len(w) - 1) /\ i - j + 1 \in 1..Len(w) /\ i - j + 2 \in 1..Len(w)
      BY <1>1, <3>4, <3>6
    <3>8. w[i - j + 1] = line[i] /\ w[(i - j + 1) + 1] = line[i + 1]
      <4>1. j + (i - j + 1) - 1 = i /\ j + (i - j + 2) - 1 = i + 1 /\ (i - j + 1) + 1 = i - j + 2
        BY <3>4
      <4>2. QED
        BY <3>6, <3>7, <4>1
    <3>9. Seam(w, i - j + 1)
      BY <2>2, <3>8 DEF Seam
    <3>10. QED
      BY <3>5, <3>6, <3>7, <3>9, LinkSeen
  <2>3. ASSUME NEW w \in KernelWindows(line), ContainsLink(w)
        PROVE  \E i \in 1..(Len(line) - 1) : Seam(line, i)
    <3>1. PICK j \in 1..Len(line) : w = WindowAt(line, j)
      BY <2>1, <2>3
    <3>2. /\ w \in Seq(Bytes)
          /\ Len(w) = (IF j + WindowSize - 1 < Len(line) THEN j + WindowSize - 1 ELSE Len(line)) - j + 1
          /\ \A p \in 1..Len(w) : w[p] = line[j + p - 1]
      BY <3>1, WindowBytes
    <3>3. PICK i \in 1..(Len(w) - 1) : Seam(w, i)
      BY <2>3, <3>2, LinkSeen
    <3>4. /\ j + i - 1 \in 1..(Len(line) - 1) /\ i \in 1..Len(w) /\ i + 1 \in 1..Len(w)
          /\ j + (i + 1) - 1 = (j + i - 1) + 1
      BY <1>1, <3>2
    <3>5. Seam(line, j + i - 1)
      BY <3>2, <3>3, <3>4 DEF Seam
    <3>6. QED
      BY <3>4, <3>5
  <2>4. QED
    BY <2>2, <2>3 DEF SeamsSeenIn, Seam
<1>4. QED
  BY <1>2, <1>3

-----------------------------------------------------------------------------
(* Tokens. *)

Scans == [out : Seq(Seq(Bytes)), cur : Seq(Bytes), overlong : BOOLEAN]

Sym(line, i) == IsSymbolByte(line[i])
Ended(line, k) == {r \in Runs(line) : r[2] < k}

\* b is where the run that reaches position k began.
RunFrom(line, b, k) ==
    b \in 1..k /\ (\A i \in b..k : Sym(line, i)) /\ (b = 1 \/ ~Sym(line, b - 1))

\* What the scan holds after k bytes: the tokens of the runs that have ended,
\* and the run under way unless it is too long.
ScanOf(line, k, st) ==
    /\ st \in Scans
    /\ \E at \in [1..Len(st.out) -> Ended(line, k)] : Spells(st.out, line, at, Ended(line, k))
    /\ k = 0 \/ ~Sym(line, k) => st.cur = <<>> /\ ~st.overlong
    /\ k > 0 /\ Sym(line, k) =>
          \E b \in 1..k :
             /\ RunFrom(line, b, k)
             /\ k - b < MaxToken => st.cur = SubSeq(line, b, k) /\ ~st.overlong
             /\ k - b >= MaxToken => st.cur = <<>> /\ st.overlong

Flush(st) == IF st.cur # <<>> THEN Append(st.out, st.cur) ELSE st.out

LEMMA TokenScan ==
  ASSUME NEW line \in Seq(Bytes)
  PROVE  \E scan : /\ scan[0] = NoToken
                   /\ \A i \in 1..Len(line) : scan[i] = TakeByte(scan[i - 1], line[i])
                   /\ OrderedSymbolTokens(line) = Flush(scan[Len(line)])
                   /\ \A i \in 0..Len(line) : scan[i] \in Scans
<1> DEFINE n == Len(line)
           step == [i \in 1..n |-> [st \in Scans |-> TakeByte(st, line[i])]]
           scan == CHOOSE f : f = [i \in 0..n |-> IF i = 0 THEN NoToken ELSE TakeByte(f[i - 1], line[i])]
<1>1. n \in Nat /\ \A i \in 1..n : line[i] \in Bytes
  BY LenProperties, ElementOfSeq
<1>2. OrderedSymbolTokens(line) = Flush(scan[n])
  BY DEF OrderedSymbolTokens, Flush
<1>3. NoToken \in Scans
  BY EmptySeq DEF NoToken, Scans
<1>4. ASSUME NEW st \in Scans, NEW b \in Bytes PROVE TakeByte(st, b) \in Scans
  <2>1. /\ st.out \in Seq(Seq(Bytes)) /\ st.cur \in Seq(Bytes) /\ <<>> \in Seq(Bytes)
        /\ st.overlong \in BOOLEAN /\ st = [out |-> st.out, cur |-> st.cur, overlong |-> st.overlong]
    BY EmptySeq DEF Scans
  <2>2. Append(st.cur, b) \in Seq(Bytes) /\ Append(st.out, st.cur) \in Seq(Seq(Bytes))
    BY <2>1, AppendProperties
  <2>3. QED
    BY <2>1, <2>2 DEF TakeByte, Scans
<1>5. step \in [1..n -> [Scans -> Scans]]
  <2> HIDE DEF n
  <2>1. QED
    BY <1>1, <1>4
<1>6. PICK f : LoopOf(f, Scans, NoToken, n, step)
  <2> HIDE DEF step, scan, n
  <2>1. QED
    BY <1>1, <1>3, <1>5, LoopStates
<1>7. f = [i \in 0..n |-> IF i = 0 THEN NoToken ELSE TakeByte(f[i - 1], line[i])]
  <2> HIDE DEF n
  <2>1. \A i \in 1..n : f[i] = TakeByte(f[i - 1], line[i])
    BY <1>1, <1>6 DEF LoopOf
  <2>2. QED
    BY <1>1, <1>6, <2>1 DEF LoopOf
<1> HIDE DEF step, n
<1>8. scan = [i \in 0..n |-> IF i = 0 THEN NoToken ELSE TakeByte(scan[i - 1], line[i])]
  BY <1>7
<1> HIDE DEF scan
<1>9. scan[0] = NoToken /\ \A i \in 1..n : scan[i] = TakeByte(scan[i - 1], line[i])
  BY <1>1, <1>8
<1>10. \A i \in 0..n : scan[i] \in Scans
  <2> DEFINE D == {i \in Nat : i <= n => scan[i] \in Scans}
  <2>1. 0 \in D
    BY <1>3, <1>9
  <2>2. ASSUME NEW k \in D PROVE k + 1 \in D
    <3>1. SUFFICES ASSUME k + 1 <= n PROVE scan[k + 1] \in Scans
      OBVIOUS
    <3>2. k + 1 \in 1..n /\ scan[k] \in Scans
      BY <1>1, <2>2, <3>1
    <3>3. scan[k + 1] = TakeByte(scan[k], line[k + 1]) /\ line[k + 1] \in Bytes
      BY <1>1, <1>9, <3>2
    <3>4. QED
      BY <1>4, <3>2, <3>3
  <2>3. D \in SUBSET Nat
    OBVIOUS
  <2>4. D = Nat
    <3> HIDE DEF D
    <3>1. QED
      BY <2>1, <2>2, <2>3, Induction
  <2>5. QED
    BY <1>1, <2>4
<1>11. QED
  BY <1>2, <1>9, <1>10 DEF n

\* A run within the bound that ends where the scan stands is the one under way.
LEMMA RunEnding ==
  ASSUME NEW line \in Seq(Bytes), NEW k \in 1..Len(line), NEW b, RunFrom(line, b, k),
         NEW r \in Runs(line)
  PROVE  /\ r[2] = k => r[1] = b
         /\ r[2] < k => r[1] < b
<1>1. /\ Len(line) \in Nat /\ r[1] \in Nat /\ r[2] \in Nat /\ b \in Nat /\ b <= k /\ 1 <= b
      /\ 1 <= r[1] /\ r[1] <= r[2] /\ r[2] <= Len(line)
      /\ \A i \in r[1]..r[2] : Sym(line, i)
      /\ r[1] = 1 \/ ~Sym(line, r[1] - 1)
      /\ r[2] = Len(line) \/ ~Sym(line, r[2] + 1)
      /\ \A i \in b..k : Sym(line, i)
      /\ b = 1 \/ ~Sym(line, b - 1)
  BY LenProperties DEF Runs, RunFrom, Sym
<1>2. ASSUME r[1] > b, r[1] <= k PROVE FALSE
  <2>1. r[1] - 1 \in b..k
    BY <1>1, <1>2
  <2>2. QED
    BY <1>1, <1>2, <2>1
<1>3. ASSUME r[2] = k, r[1] < b PROVE FALSE
  <2>1. b - 1 \in r[1]..r[2]
    BY <1>1, <1>3
  <2>2. QED
    BY <1>1, <1>3, <2>1
<1>4. ASSUME r[2] < k, r[1] = b PROVE FALSE
  <2>1. r[2] + 1 \in b..k
    BY <1>1, <1>4
  <2>2. QED
    BY <1>1, <1>4, <2>1
<1>5. QED
  BY <1>1, <1>2, <1>3, <1>4

\* When a run ends, its token joins the others, unless it was too long.
LEMMA TokenClosed ==
  ASSUME NEW line \in Seq(Bytes), NEW k \in 0..Len(line), NEW st, ScanOf(line, k, st),
         k = Len(line) \/ ~Sym(line, k + 1)
  PROVE  \E at \in [1..Len(Flush(st)) -> Ended(line, k + 1)] :
            Spells(Flush(st), line, at, Ended(line, k + 1))
<1>0. Len(line) \in Nat /\ k \in Nat /\ MaxToken \in Nat \ {0}
  BY LimitsAssumption, LenProperties
<1>a. PICK at \in [1..Len(st.out) -> Ended(line, k)] : Spells(st.out, line, at, Ended(line, k))
  BY DEF ScanOf
<1>b. Ended(line, k + 1) = Ended(line, k) \cup {r \in Runs(line) : r[2] = k}
  BY <1>0 DEF Ended, Runs
<1>1. CASE k = 0 \/ ~Sym(line, k)
  <2>1. Flush(st) = st.out
    BY <1>1 DEF ScanOf, Flush
  <2>2. \A r \in Runs(line) : r[2] # k
    BY <1>0, <1>1 DEF Runs, Sym
  <2>3. Ended(line, k + 1) = Ended(line, k)
    BY <1>b, <2>2
  <2>4. QED
    BY <1>a, <2>1, <2>3
<1>2. CASE k > 0 /\ Sym(line, k)
  <2>1. k \in 1..Len(line)
    BY <1>0, <1>2
  <2>2. PICK b \in 1..k :
             /\ RunFrom(line, b, k)
             /\ k - b < MaxToken => st.cur = SubSeq(line, b, k) /\ ~st.overlong
             /\ k - b >= MaxToken => st.cur = <<>> /\ st.overlong
    BY <1>2 DEF ScanOf
  <2>3. CASE k - b >= MaxToken
    <3>1. Flush(st) = st.out
      BY <2>2, <2>3 DEF Flush
    <3>2. ASSUME NEW r \in Runs(line), r[2] = k PROVE FALSE
      <4>1. r[1] = b
        BY <2>1, <2>2, <3>2, RunEnding
      <4>2. QED
        BY <1>0, <2>3, <3>2, <4>1 DEF Runs
    <3>3. Ended(line, k + 1) = Ended(line, k)
      BY <1>b, <3>2
    <3>4. QED
      BY <1>a, <3>1, <3>3
  <2>4. CASE k - b < MaxToken
    <3> DEFINE new == <<b, k>>
    <3>1. /\ st.cur = SubSeq(line, b, k) /\ Len(st.cur) = k - b + 1 /\ st.cur # <<>>
          /\ st.cur \in Seq(Bytes) /\ st.out \in Seq(Seq(Bytes))
      <4>1. \A i \in b..k : line[i] \in Bytes
        BY <1>0, <2>1, ElementOfSeq
      <4>2. Len(SubSeq(line, b, k)) = k - b + 1
        BY <4>1, SubSeqProperties
      <4>3. k - b + 1 > 0 /\ Len(<<>>) = 0
        BY <1>0, EmptySeq
      <4>4. SubSeq(line, b, k) # <<>>
        BY <4>2, <4>3
      <4>5. st.cur = SubSeq(line, b, k) /\ st.cur \in Seq(Bytes) /\ st.out \in Seq(Seq(Bytes))
        BY <2>2, <2>4 DEF ScanOf, Scans
      <4>6. QED
        BY <4>2, <4>4, <4>5
    <3>2. new \in Runs(line)
      BY <1>0, <2>1, <2>2, <2>4 DEF Runs, RunFrom, Sym
    <3>3. Ended(line, k + 1) = Ended(line, k) \cup {new} /\ \A r \in Ended(line, k) : r[1] < b
      <4>1. ASSUME NEW r \in Runs(line), r[2] = k PROVE r = new
        <5>1. r[1] = b
          BY <2>1, <2>2, <4>1, RunEnding
        <5>2. r = <<r[1], r[2]>>
          BY DEF Runs
        <5>3. QED
          BY <4>1, <5>1, <5>2
      <4>2. \A r \in Ended(line, k) : r[1] < b
        BY <2>1, <2>2, RunEnding DEF Ended
      <4>3. QED
        BY <1>b, <3>2, <4>1, <4>2
    <3> DEFINE m == Len(st.out)
               toks == Append(st.out, st.cur)
               to == [i \in 1..(m + 1) |-> IF i = m + 1 THEN new ELSE at[i]]
    <3>4. /\ Flush(st) = toks /\ Len(toks) = m + 1 /\ toks[m + 1] = st.cur /\ m \in Nat
          /\ \A i \in 1..m : toks[i] = st.out[i]
      BY <3>1, AppendProperties, LenProperties DEF Flush
    <3>5. /\ to \in [1..(m + 1) -> Ended(line, k + 1)] /\ to[m + 1] = new
          /\ \A i \in 1..m : to[i] = at[i] /\ i \in 1..(m + 1)
      <4>1. \A i \in 1..(m + 1) : i = m + 1 \/ i \in 1..m
        BY <3>4
      <4>2. \A i \in 1..m : at[i] \in Ended(line, k + 1)
        BY <1>a, <3>3
      <4>3. new \in Ended(line, k + 1)
        BY <3>3
      <4>4. \A i \in 1..m : i # m + 1 /\ i \in 1..(m + 1)
        BY <3>4
      <4>5. m + 1 \in 1..(m + 1)
        BY <3>4
      <4> HIDE DEF m, new, toks
      <4>6. QED
        BY <4>1, <4>2, <4>3, <4>4, <4>5
    <3>6. \A i \in 1..(m + 1) : i \in 1..m \/ i = m + 1
      BY <3>4
    <3> HIDE DEF toks, to, m
    <3>7. \A r \in Ended(line, k + 1) : \E i \in 1..(m + 1) : to[i] = r
      <4>1. \A r \in Ended(line, k) : \E i \in 1..m : at[i] = r
        BY <1>a DEF Spells, m
      <4>2. m + 1 \in 1..(m + 1)
        BY <3>4
      <4>3. QED
        BY <3>3, <3>5, <4>1, <4>2
    <3>8. ASSUME NEW i \in 1..(m + 1), NEW j \in 1..(m + 1), i < j PROVE to[i][1] < to[j][1]
      <4>1. i \in 1..m
        BY <3>4, <3>8
      <4>2. CASE j \in 1..m
        BY <1>a, <3>5, <3>8, <4>1, <4>2 DEF Spells, m
      <4>3. CASE j = m + 1
        <5>1. to[i] \in Ended(line, k)
          BY <1>a, <3>5, <4>1 DEF m
        <5>2. QED
          BY <3>3, <3>5, <4>3, <5>1
      <4>4. QED
        BY <3>6, <4>2, <4>3
    <3>9. \A i \in 1..(m + 1) : toks[i] = SubSeq(line, to[i][1], to[i][2])
      <4>1. \A i \in 1..m : st.out[i] = SubSeq(line, at[i][1], at[i][2])
        BY <1>a DEF Spells, m
      <4>2. to[m + 1][1] = b /\ to[m + 1][2] = k
        BY <3>5
      <4>3. toks[m + 1] = SubSeq(line, to[m + 1][1], to[m + 1][2])
        BY <3>1, <3>4, <4>2
      <4>4. QED
        BY <3>4, <3>5, <3>6, <4>1, <4>3
    <3>10. Spells(toks, line, to, Ended(line, k + 1))
      BY <3>4, <3>7, <3>8, <3>9 DEF Spells
    <3>11. QED
      BY <3>4, <3>5, <3>10
  <2>5. QED
    BY <1>0, <2>3, <2>4
<1>3. QED
  BY <1>0, <1>1, <1>2

LEMMA TokenStep ==
  ASSUME NEW line \in Seq(Bytes), NEW k \in 0..(Len(line) - 1), NEW st, ScanOf(line, k, st),
         TakeByte(st, line[k + 1]) \in Scans
  PROVE  ScanOf(line, k + 1, TakeByte(st, line[k + 1]))
<1> DEFINE new == TakeByte(st, line[k + 1])
<1>0. /\ Len(line) \in Nat /\ k \in Nat /\ MaxToken \in Nat \ {0} /\ k + 1 \in 1..Len(line)
      /\ k \in 0..Len(line) /\ k < Len(line) /\ line[k + 1] \in Bytes
  BY LimitsAssumption, LenProperties, ElementOfSeq
<1>a. /\ st \in Scans /\ st.cur \in Seq(Bytes) /\ new \in Scans
  BY DEF ScanOf, Scans
<1>1. CASE ~Sym(line, k + 1)
  <2>1. PICK at \in [1..Len(Flush(st)) -> Ended(line, k + 1)] :
            Spells(Flush(st), line, at, Ended(line, k + 1))
    BY <1>0, <1>1, TokenClosed
  <2>2. new.out = Flush(st) /\ new.cur = <<>> /\ ~new.overlong
    BY <1>1 DEF TakeByte, Flush, Sym
  <2>3. \E to \in [1..Len(new.out) -> Ended(line, k + 1)] : Spells(new.out, line, to, Ended(line, k + 1))
    BY <2>1, <2>2
  <2> HIDE DEF new
  <2>4. ScanOf(line, k + 1, new)
    BY <1>1, <1>a, <2>2, <2>3 DEF ScanOf
  <2>5. QED
    BY <2>4 DEF new
<1>2. CASE Sym(line, k + 1)
  <2>1. new.out = st.out
    BY <1>2, <1>a DEF TakeByte, Sym, Scans
  <2>2. Ended(line, k + 1) = Ended(line, k)
    <3>1. ASSUME NEW r \in Runs(line), r[2] = k PROVE FALSE
      BY <1>0, <1>2, <3>1 DEF Runs, Sym
    <3>2. \A r \in Runs(line) : r[2] \in Nat /\ (r[2] < k + 1 <=> r[2] < k \/ r[2] = k)
      BY <1>0 DEF Runs
    <3>3. QED
      BY <3>1, <3>2 DEF Ended
  <2>3. \E at \in [1..Len(new.out) -> Ended(line, k + 1)] : Spells(new.out, line, at, Ended(line, k + 1))
    BY <2>1, <2>2 DEF ScanOf
  <2>4. \E b \in 1..(k + 1) :
             /\ RunFrom(line, b, k + 1)
             /\ (k + 1) - b < MaxToken => new.cur = SubSeq(line, b, k + 1) /\ ~new.overlong
             /\ (k + 1) - b >= MaxToken => new.cur = <<>> /\ new.overlong
    <3>1. CASE k = 0 \/ ~Sym(line, k)
      <4>1. st.cur = <<>> /\ ~st.overlong
        BY <3>1 DEF ScanOf
      <4>2. new.cur = <<line[k + 1]>> /\ ~new.overlong
        <5>1. Len(st.cur) # MaxToken /\ Append(st.cur, line[k + 1]) = <<line[k + 1]>>
          BY <1>0, <4>1, EmptySeq
        <5>2. QED
          BY <1>2, <1>a, <4>1, <5>1 DEF TakeByte, Sym, Scans
      <4>3. SubSeq(line, k + 1, k + 1) = <<line[k + 1]>>
        <5>1. \A i \in (k + 1)..(k + 1) : line[i] \in Bytes
          BY <1>0
        <5>2. /\ SubSeq(line, k + 1, k + 1) \in Seq(Bytes) /\ Len(SubSeq(line, k + 1, k + 1)) = 1
              /\ SubSeq(line, k + 1, k + 1)[1] = line[k + 1]
          BY <1>0, <5>1, SubSeqProperties
        <5>3. /\ <<line[k + 1]>> \in Seq(Bytes) /\ Len(<<line[k + 1]>>) = 1
              /\ <<line[k + 1]>>[1] = line[k + 1]
          BY <1>0
        <5> DEFINE x == SubSeq(line, k + 1, k + 1)
                   y == <<line[k + 1]>>
        <5>4. x \in Seq(Bytes) /\ y \in Seq(Bytes) /\ Len(x) = 1 /\ Len(y) = 1 /\ x[1] = y[1]
          BY <5>2, <5>3, Zenon
        <5> HIDE DEF x, y
        <5>a. \A i \in 1..Len(x) : x[i] = y[i]
          BY <5>4
        <5>5. x = y
          BY <5>4, <5>a, SeqEqual
        <5>6. QED
          BY <5>5 DEF x, y
      <4>4. RunFrom(line, k + 1, k + 1)
        BY <1>0, <1>2, <3>1 DEF RunFrom, Sym
      <4>5. (k + 1) - (k + 1) < MaxToken /\ ~((k + 1) - (k + 1) >= MaxToken) /\ k + 1 \in 1..(k + 1)
        BY <1>0
      <4>6. QED
        BY <4>2, <4>3, <4>4, <4>5
    <3>2. CASE k > 0 /\ Sym(line, k)
      <4>1. PICK b \in 1..k :
             /\ RunFrom(line, b, k)
             /\ k - b < MaxToken => st.cur = SubSeq(line, b, k) /\ ~st.overlong
             /\ k - b >= MaxToken => st.cur = <<>> /\ st.overlong
        BY <3>2 DEF ScanOf
      <4>2. RunFrom(line, b, k + 1) /\ b \in 1..(k + 1) /\ b \in Nat
        BY <1>0, <1>2, <4>1 DEF RunFrom, Sym
      <4>3. CASE k - b >= MaxToken
        <5>1. new = st
          BY <1>2, <4>1, <4>3 DEF TakeByte, Sym
        <5>2. (k + 1) - b >= MaxToken
          BY <1>0, <4>3
        <5>3. QED
          BY <1>0, <4>1, <4>2, <4>3, <5>1, <5>2
      <4>4. CASE k - b < MaxToken
        <5>1. /\ SubSeq(line, b, k) = st.cur /\ ~st.overlong /\ Len(st.cur) = k - b + 1
              /\ \A i \in b..(k + 1) : line[i] \in Bytes
          <6>1. \A i \in b..(k + 1) : line[i] \in Bytes
            BY <1>0, <4>1, ElementOfSeq
          <6>2. \A i \in b..k : line[i] \in Bytes
            BY <1>0, <4>2, <6>1
          <6>3. Len(SubSeq(line, b, k)) = k - b + 1
            BY <1>0, <4>1, <6>2, SubSeqProperties
          <6>4. QED
            BY <4>1, <4>4, <6>1, <6>3
        <5>2. CASE k - b + 1 = MaxToken
          <6>1. new.cur = <<>> /\ new.overlong
            BY <1>2, <1>a, <5>1, <5>2 DEF TakeByte, Sym, Scans
          <6>2. (k + 1) - b >= MaxToken /\ ~((k + 1) - b < MaxToken)
            BY <1>0, <4>2, <5>2
          <6>3. QED
            BY <4>2, <6>1, <6>2
        <5>3. CASE k - b + 1 # MaxToken
          <6>1. new.cur = Append(st.cur, line[k + 1]) /\ ~new.overlong
            BY <1>2, <1>a, <5>1, <5>3 DEF TakeByte, Sym, Scans
          <6>2. SubSeq(line, b, k + 1) = Append(SubSeq(line, b, k), line[k + 1])
            <7>1. (k + 1) - 1 = k /\ b <= k + 1
              BY <1>0, <4>2
            <7>2. b \in 1..Len(line) /\ k + 1 \in b..Len(line)
              BY <1>0, <4>2
            <7>3. SubSeq(line, b, k + 1) = SubSeq(line, b, k) \o <<line[k + 1]>>
              BY <7>1, <7>2, SubSeqRecursiveSecond
            <7>4. SubSeq(line, b, k) \in Seq(Bytes)
              BY <1>a, <5>1
            <7>5. QED
              BY <1>0, <7>3, <7>4, AppendIsConcat, <5>1
          <6>3. (k + 1) - b < MaxToken /\ ~((k + 1) - b >= MaxToken)
            BY <1>0, <4>2, <4>4, <5>3
          <6>4. new.cur = SubSeq(line, b, k + 1)
            BY <5>1, <6>1, <6>2
          <6>5. QED
            BY <4>2, <6>1, <6>3, <6>4
        <5>4. QED
          BY <5>2, <5>3
      <4>5. k - b < MaxToken \/ k - b >= MaxToken
        BY <1>0, <4>2
      <4>6. QED
        BY <4>3, <4>4, <4>5
    <3>3. QED
      BY <1>0, <3>1, <3>2
  <2> HIDE DEF new
  <2>5. ~(k + 1 = 0)
    BY <1>0
  <2>6. ScanOf(line, k + 1, new)
    BY <1>2, <1>a, <2>3, <2>4, <2>5 DEF ScanOf
  <2>7. QED
    BY <2>6 DEF new
<1>3. QED
  BY <1>1, <1>2

\* The tokens of a line are its runs.
LEMMA TokensOfLine ==
  ASSUME NEW line \in Seq(Bytes)
  PROVE  TokensAreRunsIn(line)
<1>1. PICK scan : /\ scan[0] = NoToken
                  /\ \A i \in 1..Len(line) : scan[i] = TakeByte(scan[i - 1], line[i])
                  /\ OrderedSymbolTokens(line) = Flush(scan[Len(line)])
                  /\ \A i \in 0..Len(line) : scan[i] \in Scans
  BY TokenScan
<1>2. Len(line) \in Nat
  BY LenProperties
<1> DEFINE D == {k \in Nat : k <= Len(line) => ScanOf(line, k, scan[k])}
<1>3. 0 \in D
  <2>1. scan[0] \in Scans /\ scan[0].out = <<>> /\ scan[0].cur = <<>> /\ ~scan[0].overlong
    BY <1>1, <1>2 DEF NoToken
  <2>2. Ended(line, 0) = {} /\ Len(<<>>) = 0 /\ 1..0 = {}
    BY EmptySeq DEF Ended, Runs
  <2>3. \E at \in [1..Len(<<>>) -> Ended(line, 0)] : Spells(<<>>, line, at, Ended(line, 0))
    <3>1. [i \in {} |-> 0] \in [1..Len(<<>>) -> Ended(line, 0)]
      BY <2>2
    <3>2. Spells(<<>>, line, [i \in {} |-> 0], Ended(line, 0))
      BY <2>2 DEF Spells
    <3>3. QED
      BY <3>1, <3>2
  <2> DEFINE st == scan[0]
  <2>4. /\ st \in Scans /\ st.cur = <<>> /\ ~st.overlong
        /\ \E at \in [1..Len(st.out) -> Ended(line, 0)] : Spells(st.out, line, at, Ended(line, 0))
    BY <2>1, <2>3
  <2> HIDE DEF st
  <2>5. ~(0 > 0)
    OBVIOUS
  <2>6. ScanOf(line, 0, st)
    BY <2>4, <2>5, Zenon DEF ScanOf
  <2>7. QED
    BY <2>6 DEF st
<1>4. ASSUME NEW k \in D PROVE k + 1 \in D
  <2>1. SUFFICES ASSUME k + 1 <= Len(line) PROVE ScanOf(line, k + 1, scan[k + 1])
    OBVIOUS
  <2>2. /\ ScanOf(line, k, scan[k]) /\ k \in 0..(Len(line) - 1) /\ k + 1 \in 1..Len(line)
        /\ k + 1 \in 0..Len(line) /\ (k + 1) - 1 = k
    BY <1>2, <1>4, <2>1
  <2>3. scan[k + 1] = TakeByte(scan[k], line[k + 1]) /\ scan[k + 1] \in Scans
    BY <1>1, <2>2
  <2> HIDE DEF D
  <2>4. QED
    BY <2>2, <2>3, TokenStep
<1>5. D = Nat
  <2>1. D \in SUBSET Nat
    OBVIOUS
  <2> HIDE DEF D
  <2>2. QED
    BY <1>3, <1>4, <2>1, Induction
<1>6. ScanOf(line, Len(line), scan[Len(line)])
  BY <1>2, <1>5
<1>7. Ended(line, Len(line) + 1) = Runs(line)
  BY <1>2 DEF Ended, Runs
<1>8. \E at \in [1..Len(Flush(scan[Len(line)])) -> Runs(line)] :
         Spells(Flush(scan[Len(line)]), line, at, Runs(line))
  <2>1. Len(line) \in 0..Len(line)
    BY <1>2
  <2>2. QED
    BY <1>6, <1>7, <2>1, TokenClosed
<1>9. QED
  BY <1>1, <1>8 DEF TokensAreRunsIn

-----------------------------------------------------------------------------
(* Builds. *)

Files == [Paths -> DOMAIN Lines \cup {Absent}]

(* The documents and terms of the index are those of the corpus some build *)
(* saw, of the present one after an incremental build; so are the tables   *)
(* while every build was rich.                                             *)
IndexOf(files) ==
    /\ files \in Files
    /\ head.docs = DocRows(files) /\ head.terms = TermRows(files)
    /\ rich => Tables(head) = TablesOf(files)
    /\ outcome = "incremental" => files = corpus

Carried ==
    /\ DOMAIN head.established \subseteq Paths
    /\ \A d \in head.docs : d.path \in DOMAIN head.established
    /\ \A p \in DOMAIN head.established :
          /\ head.established[p] \in 0..(Gen - 1)
          /\ p \in published[head.established[p] + 1]

CorpusTyped == corpus \in Files

DocsInv ==
    /\ CorpusTyped
    /\ published \in Seq(SUBSET Paths)
    /\ \E files \in Files : head.docs = DocRows(files)
    /\ Carried

LEMMA PresentPaths == \A files : Present(files) \subseteq Paths
BY DEF Present

LEMMA ContentsAreFiles ==
  ASSUME NEW p \in Paths, NEW c \in Contents[p] \cup {Absent}
  PROVE  c \in DOMAIN Lines \cup {Absent}
BY ContentsAssumption

LEMMA DigestOf ==
  ASSUME NEW files \in Files, NEW p \in Paths
  PROVE  DigestIn(DocRows(files), p) = files[p]
<1> DEFINE docs == DocRows(files)
<1>1. \A d \in docs : d.path = p => files[p] # Absent /\ d.digest = files[p]
  BY DEF DocRows, Present
<1>2. CASE files[p] = Absent
  <2>1. ~\E d \in docs : d.path = p
    BY <1>1, <1>2
  <2>2. QED
    BY <1>2, <2>1 DEF DigestIn
<1>3. CASE files[p] # Absent
  <2> DEFINE row == [path |-> p, digest |-> files[p]]
  <2>1. row \in docs /\ row.path = p
    BY <1>3 DEF DocRows, Present
  <2> HIDE DEF docs
  <2>2. (CHOOSE d \in docs : d.path = p) \in docs /\ (CHOOSE d \in docs : d.path = p).path = p
    BY <2>1
  <2>3. DigestIn(docs, p) = files[p]
    BY <1>1, <2>1, <2>2 DEF DigestIn
  <2>4. QED
    BY <2>3 DEF docs
<1>4. QED
  BY <1>2, <1>3

LEMMA DocsRows ==
  ASSUME NEW files \in Files
  PROVE  /\ \A p \in Paths : files[p] # Absent <=> p \in Present(files)
         /\ \A d \in DocRows(files) : d.path \in Present(files) /\ d.path \in Paths
BY DEF DocRows, Present

(* The verdicts compare the indexed files with the corpus. *)
LEMMA VerdictsOf ==
  ASSUME NEW files \in Files, head.docs = DocRows(files), CorpusTyped
  PROVE  /\ DOMAIN Verdicts = {p \in Paths : files[p] # Absent \/ corpus[p] # Absent}
         /\ \A p \in DOMAIN Verdicts :
               /\ Verdicts[p] = 0 <=> files[p] = corpus[p]
               /\ Verdicts[p] = 1 <=> files[p] = Absent /\ corpus[p] # Absent
               /\ Verdicts[p] = 2 <=> files[p] # Absent /\ corpus[p] = Absent
         /\ Reused = {p \in Paths : files[p] = corpus[p] /\ corpus[p] # Absent}
<1>1. \A p \in Paths : DigestIn(head.docs, p) = files[p]
  BY DigestOf
<1>2. DOMAIN Verdicts = {p \in Paths : files[p] # Absent \/ corpus[p] # Absent}
  BY <1>1 DEF Verdicts
<1>3. ASSUME NEW p \in DOMAIN Verdicts
      PROVE  Verdicts[p] = ClassifyChange(files[p], corpus[p]) /\ p \in Paths
             /\ (files[p] # Absent \/ corpus[p] # Absent)
  BY <1>1, <1>2 DEF Verdicts
<1>4. ASSUME NEW p \in DOMAIN Verdicts
      PROVE  /\ Verdicts[p] = 0 <=> files[p] = corpus[p]
             /\ Verdicts[p] = 1 <=> files[p] = Absent /\ corpus[p] # Absent
             /\ Verdicts[p] = 2 <=> files[p] # Absent /\ corpus[p] = Absent
  <2>1. Verdicts[p] = ClassifyChange(files[p], corpus[p]) /\ (files[p] # Absent \/ corpus[p] # Absent)
    BY <1>3
  <2>2. QED
    BY <2>1 DEF ClassifyChange
<1>5. Reused = {p \in Paths : files[p] = corpus[p] /\ corpus[p] # Absent}
  <2>1. \A p \in Reused : p \in Paths /\ files[p] = corpus[p] /\ corpus[p] # Absent
    BY <1>2, <1>4 DEF Reused
  <2>2. \A p \in Paths : files[p] = corpus[p] /\ corpus[p] # Absent => p \in Reused
    BY <1>2, <1>4 DEF Reused
  <2>3. QED
    BY <2>1, <2>2
<1>6. QED
  BY <1>2, <1>4, <1>5

-----------------------------------------------------------------------------
(* The corpus, and what its scanners owe. *)

LEMMA CorpusStep == ASSUME CorpusTyped, [Next]_vars PROVE CorpusTyped'
<1>1. ASSUME NEW p \in Paths, NEW c \in Contents[p] \cup {Absent}, Edit(p, c) PROVE CorpusTyped'
  BY <1>1, ContentsAreFiles DEF CorpusTyped, Files, Edit
<1>2. ASSUME NEW isRich \in BOOLEAN, BuildFull(isRich) PROVE CorpusTyped'
  BY <1>2 DEF CorpusTyped, BuildFull, Publish
<1>3. ASSUME NEW isRich \in BOOLEAN, BuildIncremental(isRich) PROVE CorpusTyped'
  BY <1>3 DEF CorpusTyped, BuildIncremental, Publish
<1>4. CASE BuildFullFails \/ BuildIncrementalFails
  BY <1>4 DEF CorpusTyped, BuildFullFails, BuildIncrementalFails, BuildFails
<1>5. CASE UNCHANGED vars
  BY <1>5 DEF CorpusTyped, vars
<1>6. QED
  BY <1>1, <1>2, <1>3, <1>4, <1>5 DEF Next

THEOREM CorpusIsTyped == Spec => []CorpusTyped
<1>1. Init => CorpusTyped
  BY ContentsAreFiles DEF Init, CorpusTyped, Files
<1>2. QED
  BY <1>1, CorpusStep, PTL DEF Spec

LEMMA LinesOfBytes ==
  ASSUME CorpusTyped, NEW p \in Present(corpus), NEW line \in Elements(Lines[corpus[p]])
  PROVE  line \in Seq(Bytes) /\ corpus[p] \in DOMAIN Lines
<1>1. corpus[p] \in DOMAIN Lines
  BY DEF CorpusTyped, Files, Present
<1>2. Lines[corpus[p]] \in Seq(Seq(Bytes))
  BY <1>1, ContentsAssumption
<1>3. PICK i \in 1..Len(Lines[corpus[p]]) : line = Lines[corpus[p]][i]
  BY DEF Elements
<1>4. QED
  BY <1>1, <1>2, <1>3, ElementOfSeq

(* No corpus, content or bound lets a link lie unseen between two windows  *)
(* of a line, or be seen where there is none (contains_link over windows). *)
THEOREM SeamsAreSeen == Spec => []SeamsSeen
<1>1. CorpusTyped => SeamsSeen
  <2>1. SUFFICES ASSUME CorpusTyped, NEW p \in Present(corpus)
                 PROVE  corpus[p] \in LinesSeen
    BY DEF SeamsSeen
  <2>2. corpus[p] \in DOMAIN Lines
    BY <2>1 DEF CorpusTyped, Files, Present
  <2>3. \A line \in Elements(Lines[corpus[p]]) : SeamsSeenIn(line)
    BY <2>1, LinesOfBytes, SeamsOfLine
  <2>4. QED
    BY <2>2, <2>3 DEF LinesSeen
<1>2. QED
  BY <1>1, CorpusIsTyped, PTL

(* Whatever the lines and the bound of a token, the tokens of a line are   *)
(* its runs within the bound, in order (ordered_symbol_tokens).            *)
THEOREM TokensAreWholeRuns == Spec => []TokensAreRuns
<1>1. CorpusTyped => TokensAreRuns
  <2>1. SUFFICES ASSUME CorpusTyped, NEW p \in Present(corpus)
                 PROVE  corpus[p] \in LinesSplit
    BY DEF TokensAreRuns
  <2>2. corpus[p] \in DOMAIN Lines
    BY <2>1 DEF CorpusTyped, Files, Present
  <2>3. \A line \in Elements(Lines[corpus[p]]) : TokensAreRunsIn(line)
    BY <2>1, LinesOfBytes, TokensOfLine
  <2>4. QED
    BY <2>2, <2>3 DEF LinesSplit
<1>2. QED
  BY <1>1, CorpusIsTyped, PTL

-----------------------------------------------------------------------------
(* Documents, terms and establishment. *)

(* The documents and terms of an incremental build, reused ones included,  *)
(* are those of the corpus.                                                *)
LEMMA MergedRows ==
  ASSUME NEW files \in Files, CorpusTyped, NEW R,
         R = {p \in Paths : files[p] = corpus[p] /\ corpus[p] # Absent}
  PROVE  /\ {r \in DocRows(files) : r.path \in R} \cup {r \in DocRows(corpus) : r.path \notin R}
               = DocRows(corpus)
         /\ {r \in TermRows(files) : r.path \in R} \cup {r \in TermRows(corpus) : r.path \notin R}
               = TermRows(corpus)
<1>1. /\ R \subseteq Present(files) /\ R \subseteq Present(corpus)
      /\ \A p \in R : files[p] = corpus[p]
  BY DEF Present
<1>2. \A r \in DocRows(files) : r.path \in R => r \in DocRows(corpus)
  BY <1>1 DEF DocRows
<1>3. \A r \in DocRows(corpus) : r.path \in R => r \in DocRows(files)
  BY <1>1 DEF DocRows
<1>4. \A r \in TermRows(files) : r.path \in R => r \in TermRows(corpus)
  <2>1. ASSUME NEW r \in TermRows(files), r.path \in R PROVE r \in TermRows(corpus)
    <3>1. PICK p \in Present(files) : r \in {[path |-> p, token |-> tok] : tok \in TokensOf[files[p]]}
      BY DEF TermRows
    <3>2. p \in R
      BY <2>1, <3>1
    <3>3. QED
      BY <1>1, <3>1, <3>2 DEF TermRows
  <2>2. QED
    BY <2>1
<1>5. \A r \in TermRows(corpus) : r.path \in R => r \in TermRows(files)
  <2>1. ASSUME NEW r \in TermRows(corpus), r.path \in R PROVE r \in TermRows(files)
    <3>1. PICK p \in Present(corpus) : r \in {[path |-> p, token |-> tok] : tok \in TokensOf[corpus[p]]}
      BY DEF TermRows
    <3>2. p \in R
      BY <2>1, <3>1
    <3>3. QED
      BY <1>1, <3>1, <3>2 DEF TermRows
  <2>2. QED
    BY <2>1
<1>6. QED
  BY <1>2, <1>3, <1>4, <1>5

(* What a build publishes, whatever its mode. *)
LEMMA FullPublishes ==
  ASSUME NEW isRich \in BOOLEAN, BuildFull(isRich)
  PROVE  /\ head'.docs = DocRows(corpus) /\ head'.terms = TermRows(corpus)
         /\ isRich => Tables(head)' = FullTables
         /\ head'.established = [p \in Present(corpus) |-> Gen]
         /\ published' = Append(published, Present(corpus))
         /\ corpus' = corpus /\ rich' = isRich /\ outcome' = "full"
BY DEF BuildFull, Publish, Snapshot, Tables, FullTables, TablesOf, Globalize

PerFile == [p \in Present(corpus) |->
               IF p \in Reused THEN FileRichFromRecords(p, head) ELSE Extracted(p)]

LEMMA IncrementalPublishes ==
  ASSUME NEW isRich \in BOOLEAN, BuildIncremental(isRich),
         NEW files \in Files, head.docs = DocRows(files), CorpusTyped
  PROVE  /\ head'.docs = DocRows(corpus)
         /\ head.terms = TermRows(files) => head'.terms = TermRows(corpus)
         /\ isRich => Tables(head)' = Globalize(PerFile)
         /\ head'.established = Establish
         /\ published' = Append(published, Present(corpus))
         /\ corpus' = corpus /\ before' = head.docs /\ outcome' = "incremental"
         /\ rich' = (rich /\ isRich)
<1> DEFINE docs == {r \in head.docs : r.path \in Reused} \cup {r \in DocRows(corpus) : r.path \notin Reused}
           terms == {r \in head.terms : r.path \in Reused} \cup {r \in TermRows(corpus) : r.path \notin Reused}
<1>1. head' = Snapshot(docs, terms, IF isRich THEN Globalize(PerFile) ELSE NoTables, Establish)
  BY DEF BuildIncremental, Publish, PerFile
<1>2. docs = DocRows(corpus) /\ (head.terms = TermRows(files) => terms = TermRows(corpus))
  <2>1. Reused = {p \in Paths : files[p] = corpus[p] /\ corpus[p] # Absent}
    BY VerdictsOf
  <2>2. QED
    BY <2>1, MergedRows
<1> HIDE DEF docs, terms
<1>3. head'.docs = docs /\ head'.terms = terms /\ head'.established = Establish
  BY <1>1 DEF Snapshot
<1>4. isRich => Tables(head)' = Globalize(PerFile)
  BY <1>1 DEF Snapshot, Tables, Globalize
<1>5. /\ published' = Append(published, Present(corpus))
      /\ corpus' = corpus /\ before' = head.docs /\ outcome' = "incremental"
      /\ rich' = (rich /\ isRich)
  BY DEF BuildIncremental, Publish
<1>6. QED
  BY <1>2, <1>3, <1>4, <1>5

(* A build that keeps what was established and adds what came keeps every  *)
(* path at a generation that carried it.                                   *)
LEMMA CarriedOn ==
  ASSUME published \in Seq(SUBSET Paths), CorpusTyped, CorpusTyped', NEW est,
         published' = Append(published, Present(corpus)),
         head'.established = est, head'.docs = DocRows(corpus),
         DOMAIN est \subseteq Paths, Present(corpus) \subseteq DOMAIN est,
         \A p \in DOMAIN est : \/ est[p] = Gen /\ p \in Present(corpus)
                               \/ est[p] \in 0..(Gen - 1) /\ p \in published[est[p] + 1]
  PROVE  Carried' /\ published' \in Seq(SUBSET Paths)
<1>1. Present(corpus) \in SUBSET Paths /\ Gen \in Nat /\ Gen = Len(published)
  BY LenProperties, PresentPaths DEF Gen
<1>2. /\ published' \in Seq(SUBSET Paths) /\ Len(published') = Gen + 1
      /\ \A i \in 1..Gen : published'[i] = published[i]
      /\ published'[Gen + 1] = Present(corpus)
  BY <1>1, AppendProperties
<1>3. ASSUME NEW p \in DOMAIN est
      PROVE  est[p] \in 0..(Gen' - 1) /\ p \in published'[est[p] + 1]
  <2>1. CASE est[p] = Gen /\ p \in Present(corpus)
    BY <1>1, <1>2, <2>1 DEF Gen
  <2>2. CASE est[p] \in 0..(Gen - 1) /\ p \in published[est[p] + 1]
    <3>1. est[p] + 1 \in 1..Gen
      BY <1>1, <2>2
    <3>2. QED
      BY <1>1, <1>2, <2>2, <3>1 DEF Gen
  <2>3. QED
    BY <2>1, <2>2
<1>4. \A d \in head'.docs : d.path \in DOMAIN est
  BY DocsRows DEF CorpusTyped
<1>5. QED
  BY <1>2, <1>3, <1>4 DEF Carried

LEMMA DocsStep == ASSUME DocsInv, [Next]_vars PROVE DocsInv'
<1>0. CorpusTyped /\ CorpusTyped' /\ published \in Seq(SUBSET Paths) /\ Carried
  BY CorpusStep DEF DocsInv
<1>1. ASSUME NEW p \in Paths, NEW c \in Contents[p] \cup {Absent}, Edit(p, c) PROVE DocsInv'
  BY <1>0, <1>1 DEF DocsInv, Edit, Carried, Gen
<1>2. ASSUME NEW isRich \in BOOLEAN, BuildFull(isRich) PROVE DocsInv'
  <2> DEFINE est == [p \in Present(corpus) |-> Gen]
  <2>1. /\ published' = Append(published, Present(corpus)) /\ head'.established = est
        /\ head'.docs = DocRows(corpus)
    BY <1>2, FullPublishes
  <2>2. /\ DOMAIN est \subseteq Paths /\ Present(corpus) \subseteq DOMAIN est
        /\ \A p \in DOMAIN est : est[p] = Gen /\ p \in Present(corpus)
    BY PresentPaths
  <2> HIDE DEF est
  <2>3. Carried' /\ published' \in Seq(SUBSET Paths)
    BY <1>0, <2>1, <2>2, CarriedOn
  <2>4. QED
    BY <1>0, <2>1, <2>3 DEF DocsInv, CorpusTyped
<1>3. ASSUME NEW isRich \in BOOLEAN, BuildIncremental(isRich) PROVE DocsInv'
  <2>1. PICK files \in Files : head.docs = DocRows(files)
    BY DEF DocsInv
  <2>2. /\ published' = Append(published, Present(corpus)) /\ head'.established = Establish
        /\ head'.docs = DocRows(corpus)
    BY <1>0, <1>3, <2>1, IncrementalPublishes
  <2>3. /\ DOMAIN Establish = DOMAIN head.established \cup Present(corpus)
        /\ \A p \in DOMAIN head.established : Establish[p] = head.established[p]
        /\ \A p \in Present(corpus) \ DOMAIN head.established : Establish[p] = Gen
    BY DEF Establish
  <2>4. /\ DOMAIN Establish \subseteq Paths /\ Present(corpus) \subseteq DOMAIN Establish
        /\ \A p \in DOMAIN Establish :
              \/ Establish[p] = Gen /\ p \in Present(corpus)
              \/ Establish[p] \in 0..(Gen - 1) /\ p \in published[Establish[p] + 1]
    BY <1>0, <2>3, PresentPaths DEF Carried
  <2>5. Carried' /\ published' \in Seq(SUBSET Paths)
    BY <1>0, <2>2, <2>4, CarriedOn
  <2>6. QED
    BY <1>0, <2>2, <2>5 DEF DocsInv, CorpusTyped
<1>4. CASE BuildFullFails \/ BuildIncrementalFails
  BY <1>0, <1>4 DEF DocsInv, BuildFullFails, BuildIncrementalFails, BuildFails, Carried, Gen
<1>5. CASE UNCHANGED vars
  BY <1>0, <1>5 DEF DocsInv, vars, Carried, Gen
<1>6. QED
  BY <1>1, <1>2, <1>3, <1>4, <1>5 DEF Next

LEMMA DocsInit == Init => DocsInv
<1> SUFFICES ASSUME Init PROVE DocsInv
  OBVIOUS
<1>1. CorpusTyped
  BY ContentsAreFiles DEF Init, CorpusTyped, Files
<1>2. [p \in Paths |-> Absent] \in Files /\ DocRows([p \in Paths |-> Absent]) = {}
  BY DEF Files, DocRows, Present
<1>3. head.docs = {} /\ head.established = <<>> /\ published = <<>> /\ DOMAIN <<>> = {}
  BY DEF Init, Empty
<1>4. <<>> \in Seq(SUBSET Paths)
  BY EmptySeq
<1>5. QED
  BY <1>1, <1>2, <1>3, <1>4 DEF DocsInv, Carried

THEOREM DocsInductive == Spec => []DocsInv
BY DocsInit, DocsStep, PTL DEF Spec

(* Through removals and returns, the establishment generation of a path of *)
(* the index is a published generation that carried it (cmd_build).        *)
THEOREM EstablishedIsCarried == Spec => []EstablishedCarried
<1>1. DocsInv => EstablishedCarried
  BY DEF DocsInv, Carried, EstablishedCarried
<1>2. QED
  BY <1>1, DocsInductive, PTL

-----------------------------------------------------------------------------
(* Lineage. *)

\* The rows of a side of a comparison.
Side(paths, digest) == {<<p, digest[p]>> : p \in paths}

\* Nothing else that went or came has the bytes of p and q.
Alone(went, came, was, is, p, q) ==
    /\ was[p] = is[q]
    /\ \A r \in went : was[r] = is[q] => r = p
    /\ \A r \in came : was[p] = is[r] => r = q

OfDigest(side, d) == {q \in side : q[2] = d}

LEMMA SideOf ==
  ASSUME NEW paths, IsFiniteSet(paths), NEW digest, NEW d
  PROVE  /\ Cardinality(OfDigest(Side(paths, digest), d)) = 1 <=>
               \E p \in paths : digest[p] = d /\ \A r \in paths : digest[r] = d => r = p
         /\ \A x : x \in OfDigest(Side(paths, digest), d) <=>
                     \E p \in paths : digest[p] = d /\ x = <<p, digest[p]>>
<1> DEFINE rows == OfDigest(Side(paths, digest), d)
           row == [p \in paths |-> <<p, digest[p]>>]
<1>1. IsFiniteSet(Side(paths, digest))
  <2>1. row \in Surjection(paths, Side(paths, digest))
    BY DEF Surjection, Side
  <2> HIDE DEF row
  <2>2. QED
    BY <2>1, FS_Surjection
<1>2. \A x : x \in rows <=> \E p \in paths : digest[p] = d /\ x = <<p, digest[p]>>
  BY DEF Side, OfDigest
<1>3. IsFiniteSet(rows)
  BY <1>1, FS_Subset DEF OfDigest
<1>4. Cardinality(rows) = 1 <=> \E x : rows = {x}
  <2> HIDE DEF rows
  <2>1. QED
    BY <1>3, FS_Singleton
<1>5. ASSUME NEW x, rows = {x}
      PROVE  \E p \in paths : digest[p] = d /\ \A r \in paths : digest[r] = d => r = p
  <2>1. PICK p \in paths : digest[p] = d /\ x = <<p, digest[p]>>
    BY <1>2, <1>5
  <2>2. ASSUME NEW r \in paths, digest[r] = d PROVE r = p
    <3>1. <<r, digest[r]>> \in rows
      BY <1>2, <2>2
    <3>2. QED
      BY <1>5, <2>1, <3>1
  <2>3. QED
    BY <2>1, <2>2
<1>6. ASSUME NEW p \in paths, digest[p] = d, \A r \in paths : digest[r] = d => r = p
      PROVE  rows = {<<p, digest[p]>>}
  <2> HIDE DEF rows
  <2>1. QED
    BY <1>2, <1>6
<1>7. QED
  BY <1>2, <1>4, <1>5, <1>6

(* Which links the resolution gives. *)
LEMMA Resolved ==
  ASSUME NEW went, IsFiniteSet(went), NEW came, IsFiniteSet(came), NEW was, NEW is, NEW l
  PROVE  l \in Resolve(Side(went, was), Side(came, is)) <=>
            \/ \E p \in went, q \in came :
                  /\ Alone(went, came, was, is, p, q)
                  /\ l = [old |-> p, new |-> q, kind |-> "moved"]
            \/ \E p \in went :
                  /\ \A q \in came : ~Alone(went, came, was, is, p, q)
                  /\ l = [old |-> p, new |-> 0, kind |-> "removed"]
            \/ \E q \in came :
                  /\ \A p \in went : ~Alone(went, came, was, is, p, q)
                  /\ l = [old |-> 0, new |-> q, kind |-> "added"]
<1> DEFINE R == Side(went, was)
           A == Side(came, is)
           IsMove(d) == Cardinality(OfDigest(R, d)) = 1 /\ Cardinality(OfDigest(A, d)) = 1
           Links(d) == IF IsMove(d)
                       THEN {Moved(q[1], q[2]) : q \in OfDigest(R, d) \X OfDigest(A, d)}
                       ELSE {Removed(r) : r \in OfDigest(R, d)} \cup {Added(a) : a \in OfDigest(A, d)}
<1>1. l \in Resolve(R, A) <=> \E d \in {q[2] : q \in R \cup A} : l \in Links(d)
  <2>1. Resolve(R, A) = UNION {Links(d) : d \in {q[2] : q \in R \cup A}}
    BY Zenon DEF Resolve, OfDigest
  <2> HIDE DEF Links, R, A
  <2>2. QED
    BY <2>1
<1>2. \A d : d \in {q[2] : q \in R \cup A} <=> (\E p \in went : was[p] = d) \/ (\E q \in came : is[q] = d)
  <2>1. /\ \A x : x \in R <=> \E p \in went : x = <<p, was[p]>>
        /\ \A x : x \in A <=> \E q \in came : x = <<q, is[q]>>
    BY DEF Side
  <2> HIDE DEF R, A
  <2>2. ASSUME NEW p \in went PROVE was[p] \in {q[2] : q \in R \cup A}
    <3>1. <<p, was[p]>> \in R \cup A /\ <<p, was[p]>>[2] = was[p]
      BY <2>1
    <3>2. QED
      BY <3>1
  <2>3. ASSUME NEW p \in came PROVE is[p] \in {q[2] : q \in R \cup A}
    <3>1. <<p, is[p]>> \in R \cup A /\ <<p, is[p]>>[2] = is[p]
      BY <2>1
    <3>2. QED
      BY <3>1
  <2>4. \A q \in R \cup A : (\E p \in went : was[p] = q[2]) \/ (\E p \in came : is[p] = q[2])
    BY <2>1
  <2>5. QED
    BY <2>2, <2>3, <2>4
<1>3. ASSUME NEW d
      PROVE  IsMove(d) <=> /\ \E p \in went : was[p] = d /\ \A r \in went : was[r] = d => r = p
                           /\ \E q \in came : is[q] = d /\ \A r \in came : is[r] = d => r = q
  <2>1. Cardinality(OfDigest(R, d)) = 1 <=> \E p \in went : was[p] = d /\ \A r \in went : was[r] = d => r = p
    BY SideOf
  <2>2. Cardinality(OfDigest(A, d)) = 1 <=> \E q \in came : is[q] = d /\ \A r \in came : is[r] = d => r = q
    BY SideOf
  <2>3. QED
    BY <2>1, <2>2
<1>4. ASSUME NEW d
      PROVE  /\ \A x : x \in OfDigest(R, d) <=> \E p \in went : was[p] = d /\ x = <<p, was[p]>>
             /\ \A x : x \in OfDigest(A, d) <=> \E q \in came : is[q] = d /\ x = <<q, is[q]>>
  BY SideOf
<1>5. ASSUME NEW d
      PROVE  l \in Links(d) <=>
                \/ /\ IsMove(d)
                   /\ \E p \in went, q \in came :
                         /\ was[p] = d /\ is[q] = d
                         /\ l = [old |-> p, new |-> q, kind |-> "moved"]
                \/ /\ ~IsMove(d)
                   /\ \/ \E p \in went : was[p] = d /\ l = [old |-> p, new |-> 0, kind |-> "removed"]
                      \/ \E q \in came : is[q] = d /\ l = [old |-> 0, new |-> q, kind |-> "added"]
  <2> DEFINE Rd == OfDigest(R, d)
             Ad == OfDigest(A, d)
  <2>1. l \in Links(d) <=>
           \/ IsMove(d) /\ \E x \in Rd, y \in Ad : l = Moved(x, y)
           \/ ~IsMove(d) /\ ((\E x \in Rd : l = Removed(x)) \/ (\E y \in Ad : l = Added(y)))
    <3> HIDE DEF Rd, Ad, IsMove
    <3>1. (\E q \in Rd \X Ad : l = Moved(q[1], q[2])) <=> \E x \in Rd, y \in Ad : l = Moved(x, y)
      <4>1. ASSUME NEW q \in Rd \X Ad, l = Moved(q[1], q[2]) PROVE \E x \in Rd, y \in Ad : l = Moved(x, y)
        BY <4>1
      <4>2. ASSUME NEW x \in Rd, NEW y \in Ad, l = Moved(x, y) PROVE \E q \in Rd \X Ad : l = Moved(q[1], q[2])
        <5>1. <<x, y>> \in Rd \X Ad /\ <<x, y>>[1] = x /\ <<x, y>>[2] = y
          OBVIOUS
        <5>2. QED
          BY <4>2, <5>1
      <4>3. QED
        BY <4>1, <4>2
    <3>2. QED
      BY <3>1 DEF Rd, Ad
  <2>2. /\ \A x : x \in Rd <=> \E p \in went : was[p] = d /\ x = <<p, was[p]>>
        /\ \A x : x \in Ad <=> \E q \in came : is[q] = d /\ x = <<q, is[q]>>
    BY <1>4
  <2> HIDE DEF Rd, Ad, IsMove, Links
  <2>3. (\E x \in Rd, y \in Ad : l = Moved(x, y)) <=>
           \E p \in went, q \in came :
              was[p] = d /\ is[q] = d /\ l = [old |-> p, new |-> q, kind |-> "moved"]
    <3>1. \A p, q : Moved(<<p, was[p]>>, <<q, is[q]>>) = [old |-> p, new |-> q, kind |-> "moved"]
      BY DEF Moved
    <3>2. ASSUME NEW x \in Rd, NEW y \in Ad, l = Moved(x, y)
          PROVE  \E p \in went, q \in came :
                    was[p] = d /\ is[q] = d /\ l = [old |-> p, new |-> q, kind |-> "moved"]
      <4>1. PICK p \in went : was[p] = d /\ x = <<p, was[p]>>
        BY <2>2
      <4>2. PICK q \in came : is[q] = d /\ y = <<q, is[q]>>
        BY <2>2
      <4>3. QED
        BY <3>1, <3>2, <4>1, <4>2
    <3>3. ASSUME NEW p \in went, NEW q \in came, was[p] = d, is[q] = d,
                 l = [old |-> p, new |-> q, kind |-> "moved"]
          PROVE  \E x \in Rd, y \in Ad : l = Moved(x, y)
      <4>1. <<p, was[p]>> \in Rd /\ <<q, is[q]>> \in Ad
        BY <2>2, <3>3
      <4>2. QED
        BY <3>1, <3>3, <4>1
    <3>4. QED
      BY <3>2, <3>3
  <2>4. (\E x \in Rd : l = Removed(x)) <=>
           \E p \in went : was[p] = d /\ l = [old |-> p, new |-> 0, kind |-> "removed"]
    <3>1. \A p : Removed(<<p, was[p]>>) = [old |-> p, new |-> 0, kind |-> "removed"]
      BY DEF Removed
    <3>2. ASSUME NEW x \in Rd, l = Removed(x)
          PROVE  \E p \in went : was[p] = d /\ l = [old |-> p, new |-> 0, kind |-> "removed"]
      <4>1. PICK p \in went : was[p] = d /\ x = <<p, was[p]>>
        BY <2>2
      <4>2. QED
        BY <3>1, <3>2, <4>1
    <3>3. ASSUME NEW p \in went, was[p] = d, l = [old |-> p, new |-> 0, kind |-> "removed"]
          PROVE  \E x \in Rd : l = Removed(x)
      <4>1. <<p, was[p]>> \in Rd
        BY <2>2, <3>3
      <4>2. QED
        BY <3>1, <3>3, <4>1
    <3>4. QED
      BY <3>2, <3>3
  <2>5. (\E y \in Ad : l = Added(y)) <=>
           \E q \in came : is[q] = d /\ l = [old |-> 0, new |-> q, kind |-> "added"]
    <3>1. \A q : Added(<<q, is[q]>>) = [old |-> 0, new |-> q, kind |-> "added"]
      BY DEF Added
    <3>2. ASSUME NEW x \in Ad, l = Added(x)
          PROVE  \E q \in came : is[q] = d /\ l = [old |-> 0, new |-> q, kind |-> "added"]
      <4>1. PICK q \in came : is[q] = d /\ x = <<q, is[q]>>
        BY <2>2
      <4>2. QED
        BY <3>1, <3>2, <4>1
    <3>3. ASSUME NEW q \in came, is[q] = d, l = [old |-> 0, new |-> q, kind |-> "added"]
          PROVE  \E x \in Ad : l = Added(x)
      <4>1. <<q, is[q]>> \in Ad
        BY <2>2, <3>3
      <4>2. QED
        BY <3>1, <3>3, <4>1
    <3>4. QED
      BY <3>2, <3>3
  <2>6. QED
    BY <2>1, <2>3, <2>4, <2>5
<1>6. l \in Resolve(R, A) <=> \E d : ((\E p \in went : was[p] = d) \/ (\E q \in came : is[q] = d)) /\ l \in Links(d)
  <2> HIDE DEF Links, R, A
  <2>1. QED
    BY <1>1, <1>2
<1>7. ASSUME NEW p \in went, NEW q \in came
      PROVE  Alone(went, came, was, is, p, q) <=> was[p] = is[q] /\ IsMove(was[p])
  <2> HIDE DEF IsMove
  <2>1. QED
    BY <1>3 DEF Alone
<1>8. ASSUME NEW p \in went
      PROVE  (\A q \in came : ~Alone(went, came, was, is, p, q)) <=> ~IsMove(was[p])
  <2> HIDE DEF IsMove
  <2>1. ASSUME IsMove(was[p]) PROVE \E q \in came : was[p] = is[q]
    BY <1>3, <2>1
  <2>2. QED
    BY <1>7, <2>1
<1>9. ASSUME NEW q \in came
      PROVE  (\A p \in went : ~Alone(went, came, was, is, p, q)) <=> ~IsMove(is[q])
  <2> HIDE DEF IsMove
  <2>1. ASSUME IsMove(is[q]) PROVE \E p \in went : was[p] = is[q]
    BY <1>3, <2>1
  <2>2. QED
    BY <1>7, <2>1
<1> HIDE DEF IsMove, Links, R, A
<1>10. l \in Resolve(R, A) <=>
            \/ \E p \in went, q \in came :
                  /\ was[p] = is[q] /\ IsMove(was[p])
                  /\ l = [old |-> p, new |-> q, kind |-> "moved"]
            \/ \E p \in went :
                  ~IsMove(was[p]) /\ l = [old |-> p, new |-> 0, kind |-> "removed"]
            \/ \E q \in came :
                  ~IsMove(is[q]) /\ l = [old |-> 0, new |-> q, kind |-> "added"]
  BY <1>5, <1>6
<1>11. QED
  BY <1>7, <1>8, <1>9, <1>10 DEF R, A

\* What went and what came between a corpus and the present one.
Went(files) == {p \in Paths : files[p] # Absent /\ corpus[p] = Absent}
Came(files) == {p \in Paths : files[p] = Absent /\ corpus[p] # Absent}

(* The report is the resolution of two corpora, the older one known by the *)
(* documents the build started from.                                       *)
LineageInv ==
    outcome = "incremental" =>
        \E files \in Files :
           /\ before = DocRows(files)
           /\ lineage = Resolve(Side(Went(files), files), Side(Came(files), corpus))

\* Every path once, and linked to another when their bytes decide it.
LinksExactly(links, went, came, was, is) ==
    /\ \A p \in went : Cardinality({l \in links : l.old = p}) = 1
    /\ \A q \in came : Cardinality({l \in links : l.new = q}) = 1
    /\ \A l \in links : (l.old = 0 \/ l.old \in went) /\ (l.new = 0 \/ l.new \in came)
    /\ \A p \in went, q \in came :
          (\E l \in links : l.old = p /\ l.new = q) <=> Alone(went, came, was, is, p, q)

LEMMA LinksOfPath ==
  ASSUME NEW went \in SUBSET Paths, NEW came \in SUBSET Paths, NEW was, NEW is,
         NEW links, links = Resolve(Side(went, was), Side(came, is))
  PROVE  LinksExactly(links, went, came, was, is)
<1> DEFINE Only(p, q) == Alone(went, came, was, is, p, q)
<1>0. IsFiniteSet(went) /\ IsFiniteSet(came) /\ \A p \in went \cup came : p # 0
  BY PathsAssumption, FS_Subset
<1>1. ASSUME NEW l
      PROVE  l \in links <=>
                \/ \E p \in went, q \in came :
                      Only(p, q) /\ l = [old |-> p, new |-> q, kind |-> "moved"]
                \/ \E p \in went :
                      (\A q \in came : ~Only(p, q)) /\ l = [old |-> p, new |-> 0, kind |-> "removed"]
                \/ \E q \in came :
                      (\A p \in went : ~Only(p, q)) /\ l = [old |-> 0, new |-> q, kind |-> "added"]
  BY <1>0, Resolved
<1>2. ASSUME NEW p \in went, NEW r \in went, NEW q \in came, NEW s \in came, Only(p, q)
      PROVE  (Only(r, q) => r = p) /\ (Only(p, s) => s = q)
  BY <1>2 DEF Alone
<1> HIDE DEF Only
<1>3. ASSUME NEW p \in went PROVE Cardinality({l \in links : l.old = p}) = 1
  <2>1. CASE \E q \in came : Only(p, q)
    <3>1. PICK q \in came : Only(p, q)
      BY <2>1
    <3> DEFINE m == [old |-> p, new |-> q, kind |-> "moved"]
    <3>2. m \in links /\ m.old = p
      BY <1>1, <3>1
    <3>3. \A l \in links : l.old = p => l = m
      BY <1>0, <1>1, <1>2, <3>1
    <3> HIDE DEF m
    <3>4. {l \in links : l.old = p} = {m}
      BY <3>2, <3>3
    <3>5. QED
      BY <3>4, FS_Singleton
  <2>2. CASE \A q \in came : ~Only(p, q)
    <3> DEFINE m == [old |-> p, new |-> 0, kind |-> "removed"]
    <3>2. m \in links /\ m.old = p
      BY <1>1, <2>2
    <3>3. \A l \in links : l.old = p => l = m
      BY <1>0, <1>1, <2>2
    <3> HIDE DEF m
    <3>4. {l \in links : l.old = p} = {m}
      BY <3>2, <3>3
    <3>5. QED
      BY <3>4, FS_Singleton
  <2>3. QED
    BY <2>1, <2>2
<1>4. ASSUME NEW q \in came PROVE Cardinality({l \in links : l.new = q}) = 1
  <2>1. CASE \E p \in went : Only(p, q)
    <3>1. PICK p \in went : Only(p, q)
      BY <2>1
    <3> DEFINE m == [old |-> p, new |-> q, kind |-> "moved"]
    <3>2. m \in links /\ m.new = q
      BY <1>1, <3>1
    <3>3. \A l \in links : l.new = q => l = m
      BY <1>0, <1>1, <1>2, <3>1
    <3> HIDE DEF m
    <3>4. {l \in links : l.new = q} = {m}
      BY <3>2, <3>3
    <3>5. QED
      BY <3>4, FS_Singleton
  <2>2. CASE \A p \in went : ~Only(p, q)
    <3> DEFINE m == [old |-> 0, new |-> q, kind |-> "added"]
    <3>2. m \in links /\ m.new = q
      BY <1>1, <2>2
    <3>3. \A l \in links : l.new = q => l = m
      BY <1>0, <1>1, <2>2
    <3> HIDE DEF m
    <3>4. {l \in links : l.new = q} = {m}
      BY <3>2, <3>3
    <3>5. QED
      BY <3>4, FS_Singleton
  <2>3. QED
    BY <2>1, <2>2
<1>5. ASSUME NEW l \in links
      PROVE  (l.old = 0 \/ l.old \in went) /\ (l.new = 0 \/ l.new \in came)
  BY <1>1
<1>6. ASSUME NEW p \in went, NEW q \in came
      PROVE  (\E l \in links : l.old = p /\ l.new = q) <=> Only(p, q)
  <2>1. ASSUME Only(p, q) PROVE \E l \in links : l.old = p /\ l.new = q
    <3> DEFINE m == [old |-> p, new |-> q, kind |-> "moved"]
    <3>1. m \in links /\ m.old = p /\ m.new = q
      BY <1>1, <2>1
    <3>2. QED
      BY <3>1
  <2>2. ASSUME NEW l \in links, l.old = p, l.new = q PROVE Only(p, q)
    BY <1>0, <1>1, <2>2
  <2>3. QED
    BY <2>1, <2>2
<1>7. QED
  BY <1>3, <1>4, <1>5, <1>6 DEF Only, LinksExactly

LEMMA LineageStep == ASSUME DocsInv, LineageInv, [Next]_vars PROVE LineageInv'
<1>0. CorpusTyped
  BY DEF DocsInv
<1>1. ASSUME NEW p \in Paths, NEW c \in Contents[p] \cup {Absent}, Edit(p, c) PROVE LineageInv'
  BY <1>1 DEF LineageInv, Edit
<1>2. ASSUME NEW isRich \in BOOLEAN, BuildFull(isRich) PROVE LineageInv'
  BY <1>2, FullPublishes DEF LineageInv
<1>3. ASSUME NEW isRich \in BOOLEAN, BuildIncremental(isRich) PROVE LineageInv'
  <2>1. PICK files \in Files : head.docs = DocRows(files)
    BY DEF DocsInv
  <2>2. before' = head.docs /\ corpus' = corpus
    BY <1>3 DEF BuildIncremental, Publish
  <2>3. /\ {q \in DOMAIN Verdicts : Verdicts[q] = 2} = Went(files)
        /\ {q \in DOMAIN Verdicts : Verdicts[q] = 1} = Came(files)
    <3>1. /\ DOMAIN Verdicts = {p \in Paths : files[p] # Absent \/ corpus[p] # Absent}
          /\ \A p \in DOMAIN Verdicts :
                /\ Verdicts[p] = 1 <=> files[p] = Absent /\ corpus[p] # Absent
                /\ Verdicts[p] = 2 <=> files[p] # Absent /\ corpus[p] = Absent
      BY <1>0, <2>1, VerdictsOf
    <3>2. QED
      BY <3>1 DEF Went, Came
  <2>4. lineage' = Resolve({<<p, DigestIn(head.docs, p)>> : p \in Went(files)},
                           {<<p, corpus[p]>> : p \in Came(files)})
    BY <1>3, <2>3 DEF BuildIncremental
  <2>5. {<<p, DigestIn(head.docs, p)>> : p \in Went(files)} = Side(Went(files), files)
    <3>1. \A p \in Went(files) : DigestIn(head.docs, p) = files[p]
      BY <2>1, DigestOf DEF Went
    <3>2. QED
      BY <3>1 DEF Side
  <2>6. {<<p, corpus[p]>> : p \in Came(files)} = Side(Came(files), corpus)
    BY DEF Side
  <2>7. lineage' = Resolve(Side(Went(files), files), Side(Came(files), corpus))
    BY <2>4, <2>5, <2>6
  <2>8. Went(files)' = Went(files) /\ Came(files)' = Came(files)
    BY <2>2 DEF Went, Came
  <2>9. QED
    BY <2>1, <2>2, <2>7, <2>8 DEF LineageInv
<1>4. CASE BuildFullFails \/ BuildIncrementalFails
  BY <1>4 DEF LineageInv, BuildFullFails, BuildIncrementalFails, BuildFails
<1>5. CASE UNCHANGED vars
  BY <1>5 DEF LineageInv, vars, Went, Came
<1>6. QED
  BY <1>1, <1>2, <1>3, <1>4, <1>5 DEF Next

LEMMA LineageInit == Init => LineageInv
BY DEF Init, LineageInv

LEMMA LineageInvariant == Spec => [](DocsInv /\ LineageInv)
<1>1. DocsInv /\ LineageInv /\ [Next]_vars => DocsInv' /\ LineageInv'
  BY DocsStep, LineageStep
<1>2. QED
  BY <1>1, DocsInit, LineageInit, PTL DEF Spec

(* The lineage of a build names what went and what came once each, and     *)
(* links two paths exactly when their bytes decide it (resolve).           *)
THEOREM LineageIsExact == Spec => []LineageExact
<1>1. LineageInv => LineageExact
  <2>1. SUFFICES ASSUME LineageInv, outcome = "incremental" PROVE LineageExact
    BY DEF LineageExact
  <2>2. PICK files \in Files :
           /\ before = DocRows(files)
           /\ lineage = Resolve(Side(Went(files), files), Side(Came(files), corpus))
    BY <2>1 DEF LineageInv
  <2> DEFINE went == {p \in Paths : DigestIn(before, p) # Absent /\ corpus[p] = Absent}
             came == {p \in Paths : DigestIn(before, p) = Absent /\ corpus[p] # Absent}
             Twin(p, q) == DigestIn(before, p) = corpus[q]
  <2>3. \A p \in Paths : DigestIn(before, p) = files[p]
    BY <2>2, DigestOf
  <2>4. went = Went(files) /\ came = Came(files)
    BY <2>3 DEF Went, Came
  <2>5. went \in SUBSET Paths /\ came \in SUBSET Paths
    OBVIOUS
  <2>6. \A p \in went, q \in Paths : Twin(p, q) <=> files[p] = corpus[q]
    BY <2>3
  <2>7. \A q \in came : q \in Paths
    OBVIOUS
  <2> HIDE DEF went, came
  <2>8. lineage = Resolve(Side(went, files), Side(came, corpus))
    BY <2>2, <2>4
  <2>9. LinksExactly(lineage, went, came, files, corpus)
    BY <2>5, <2>8, LinksOfPath
  <2>10. \A p \in went, q \in came :
            Alone(went, came, files, corpus, p, q) <=>
               /\ Twin(p, q)
               /\ \A r \in went : Twin(r, q) => r = p
               /\ \A r \in came : Twin(p, r) => r = q
    BY <2>6, <2>7 DEF Alone
  <2> HIDE DEF Twin
  <2>11. /\ \A p \in went : Cardinality({l \in lineage : l.old = p}) = 1
         /\ \A q \in came : Cardinality({l \in lineage : l.new = q}) = 1
         /\ \A l \in lineage : (l.old = 0 \/ l.old \in went) /\ (l.new = 0 \/ l.new \in came)
         /\ \A p \in went, q \in came :
               (\E l \in lineage : l.old = p /\ l.new = q) <=>
                   /\ Twin(p, q)
                   /\ \A r \in went : Twin(r, q) => r = p
                   /\ \A r \in came : Twin(p, r) => r = q
    BY <2>9, <2>10 DEF LinksExactly
  <2>12. QED
    BY <2>11, Zenon DEF LineageExact, went, came, Twin
<1>2. QED
  BY <1>1, LineageInvariant, PTL

-----------------------------------------------------------------------------
(* Tables.  A row is a path, a place in the file and two columns; a place  *)
(* holds one row of its path.                                              *)
Keyed(rows) ==
    /\ IsFiniteSet(rows)
    /\ \A r \in rows : r = <<r[1], r[2], r[3], r[4]>> /\ r[1] \in Nat /\ r[2] \in Nat
    /\ \A r, q \in rows : r[1] = q[1] /\ r[2] = q[2] => r = q

Position(rows, r) == Cardinality({q \in rows : Before(q, r)})

(* Positions order the rows of a path as their places do. *)
LEMMA PositionsOrder ==
  ASSUME NEW rows, Keyed(rows), NEW a \in rows, NEW b \in rows
  PROVE  /\ Position(rows, a) \in Nat
         /\ a[1] = b[1] => (a[2] < b[2] <=> Position(rows, a) < Position(rows, b))
<1> DEFINE Below(r) == {q \in rows : Before(q, r)}
<1>1. \A r \in rows : IsFiniteSet(Below(r)) /\ Position(rows, r) = Cardinality(Below(r))
  BY FS_Subset DEF Keyed, Position
<1>2. \A r \in rows : r[1] \in Nat /\ r[2] \in Nat
  BY DEF Keyed
<1>3. \A r \in rows : Position(rows, r) \in Nat
  <2> HIDE DEF Below
  <2>1. QED
    BY <1>1, FS_CardinalityType
<1>4. ASSUME NEW r \in rows, NEW q \in rows, Before(r, q)
      PROVE  Position(rows, r) < Position(rows, q)
  <2>1. \A x \in Below(r) : x \in Below(q)
    BY <1>2, <1>4 DEF Before
  <2>2. r \in Below(q) /\ r \notin Below(r)
    BY <1>2, <1>4 DEF Before
  <2> HIDE DEF Below
  <2>3. Cardinality(Below(r)) <= Cardinality(Below(q)) /\ Cardinality(Below(q)) # Cardinality(Below(r))
    BY <1>1, <2>1, <2>2, FS_Subset
  <2>4. QED
    BY <1>1, <1>3, <2>3
<1>5. ASSUME a[1] = b[1] PROVE a[2] < b[2] <=> Position(rows, a) < Position(rows, b)
  <2>1. CASE a[2] < b[2]
    BY <1>4, <1>5, <2>1 DEF Before
  <2>2. CASE b[2] < a[2]
    <3>1. Position(rows, b) < Position(rows, a)
      BY <1>4, <1>5, <2>2 DEF Before
    <3>2. QED
      BY <1>2, <1>3, <2>2, <3>1
  <2>3. CASE a[2] = b[2]
    <3>1. a = b
      BY <1>5, <2>3 DEF Keyed
    <3>2. QED
      BY <1>2, <1>3, <3>1
  <2>4. QED
    BY <1>2, <2>1, <2>2, <2>3
<1>6. QED
  BY <1>3, <1>5

(* Two sets of rows in one order rank alike. *)
LEMMA RankedAlike ==
  ASSUME NEW rows, IsFiniteSet(rows), NEW others, NEW to \in [rows -> others],
         \A t \in others : \E r \in rows : to[r] = t,
         \A r, q \in rows : to[r] = to[q] => r = q,
         \A r, q \in rows : Before(r, q) <=> Before(to[r], to[q]),
         \A r \in rows : to[r][1] = r[1] /\ to[r][3] = r[3] /\ to[r][4] = r[4]
  PROVE  Ranked(others) = Ranked(rows)
<1>1. ASSUME NEW r \in rows PROVE Position(others, to[r]) = Position(rows, r)
  <2> DEFINE X == {q \in rows : Before(q, r)}
             Y == {t \in others : Before(t, to[r])}
             f == [q \in X |-> to[q]]
  <2>1. IsFiniteSet(X)
    BY FS_Subset
  <2>2. f \in [X -> Y]
    OBVIOUS
  <2>3. \A t \in Y : \E q \in X : f[q] = t
    OBVIOUS
  <2>4. \A p, q \in X : f[p] = f[q] => p = q
    OBVIOUS
  <2> HIDE DEF X, Y, f
  <2>5. f \in Bijection(X, Y)
    BY <2>2, <2>3, <2>4 DEF Bijection, Injection, Surjection, IsInjective
  <2>6. Cardinality(Y) = Cardinality(X)
    BY <2>1, <2>5, FS_Bijection DEF ExistsBijection
  <2>7. QED
    BY <2>6 DEF X, Y, Position
<1>2. \A rs : Ranked(rs) = {<<r[1], Position(rs, r), r[3], r[4]>> : r \in rs}
  BY DEF Ranked, Position
<1>3. \A x : x \in Ranked(others) <=> \E t \in others : x = <<t[1], Position(others, t), t[3], t[4]>>
  BY <1>2
<1>4. \A x : x \in Ranked(rows) <=> \E r \in rows : x = <<r[1], Position(rows, r), r[3], r[4]>>
  BY <1>2
<1>5. ASSUME NEW t \in others PROVE <<t[1], Position(others, t), t[3], t[4]>> \in Ranked(rows)
  <2>1. PICK r \in rows : to[r] = t
    OBVIOUS
  <2>2. <<t[1], Position(others, t), t[3], t[4]>> = <<r[1], Position(rows, r), r[3], r[4]>>
    BY <1>1, <2>1
  <2>3. QED
    BY <1>4, <2>2
<1>6. ASSUME NEW r \in rows PROVE <<r[1], Position(rows, r), r[3], r[4]>> \in Ranked(others)
  <2>1. to[r] \in others
    OBVIOUS
  <2>2. <<to[r][1], Position(others, to[r]), to[r][3], to[r][4]>> = <<r[1], Position(rows, r), r[3], r[4]>>
    BY <1>1
  <2>3. QED
    BY <1>3, <2>1, <2>2
<1>7. \A x : x \in Ranked(others) <=> x \in Ranked(rows)
  <2>1. ASSUME NEW x \in Ranked(others) PROVE x \in Ranked(rows)
    <3>1. PICK t \in others : x = <<t[1], Position(others, t), t[3], t[4]>>
      BY <1>3
    <3>2. QED
      BY <1>5, <3>1
  <2>2. ASSUME NEW x \in Ranked(rows) PROVE x \in Ranked(others)
    <3>1. PICK r \in rows : x = <<r[1], Position(rows, r), r[3], r[4]>>
      BY <1>4
    <3>2. QED
      BY <1>6, <3>1
  <2>3. QED
    BY <2>1, <2>2
<1>8. QED
  BY <1>7

\* The rows of an earlier table on some paths, and fresh ones elsewhere.
Renewed(old, rows, R) == {t \in Ranked(old) : t[1] \in R} \cup {r \in rows : r[1] \notin R}

(* Rows whose places are replaced by the positions of an earlier table that *)
(* had the same rows on those paths rank as they do.                       *)
LEMMA RanksKept ==
  ASSUME NEW old, Keyed(old), NEW rows, Keyed(rows), NEW R,
         \A r : r[1] \in R => (r \in old <=> r \in rows)
  PROVE  Ranked(Renewed(old, rows, R)) = Ranked(rows)
<1> DEFINE others == {t \in Ranked(old) : t[1] \in R} \cup {r \in rows : r[1] \notin R}
           Shift(r) == <<r[1], Position(old, r), r[3], r[4]>>
           to == [r \in rows |-> IF r[1] \in R THEN Shift(r) ELSE r]
<1>1. \A t : t \in Ranked(old) <=> \E r \in old : t = Shift(r)
  BY DEF Ranked, Position
<1>2. \A r : /\ Shift(r)[1] = r[1] /\ Shift(r)[2] = Position(old, r)
             /\ Shift(r)[3] = r[3] /\ Shift(r)[4] = r[4]
  OBVIOUS
<1> HIDE DEF Shift
<1>3. \A t : t \in others <=> (\E r \in rows : r[1] \in R /\ t = Shift(r)) \/ (t \in rows /\ t[1] \notin R)
  BY <1>1, <1>2
<1>4. ASSUME NEW r \in rows
      PROVE  /\ to[r] \in others
             /\ to[r][1] = r[1] /\ to[r][3] = r[3] /\ to[r][4] = r[4]
             /\ to[r][2] = (IF r[1] \in R THEN Position(old, r) ELSE r[2])
             /\ r[1] \in R => r \in old
  <2> HIDE DEF others
  <2>1. CASE r[1] \in R
    BY <1>2, <1>3, <2>1
  <2>2. CASE r[1] \notin R
    BY <1>3, <2>2
  <2>3. QED
    BY <2>1, <2>2
<1>5. to \in [rows -> others]
  <2>1. \A r \in rows : to[r] \in others
    BY <1>4
  <2> HIDE DEF others
  <2>2. QED
    BY <2>1
<1>6. \A t \in others : \E r \in rows : to[r] = t
  <2>1. ASSUME NEW t \in others PROVE \E r \in rows : to[r] = t
    <3> HIDE DEF others
    <3>1. CASE \E r \in rows : r[1] \in R /\ t = Shift(r)
      BY <3>1
    <3>2. CASE t \in rows /\ t[1] \notin R
      BY <3>2
    <3>3. QED
      BY <1>3, <2>1, <3>1, <3>2
  <2>2. QED
    BY <2>1
<1> HIDE DEF others, to
<1>7. ASSUME NEW r \in rows, NEW q \in rows
      PROVE  /\ Before(r, q) <=> Before(to[r], to[q])
             /\ to[r] = to[q] => r = q
  <2>0. r[1] \in Nat /\ r[2] \in Nat /\ q[1] \in Nat /\ q[2] \in Nat
    BY DEF Keyed
  <2>1. CASE r[1] # q[1]
    BY <1>4, <2>1 DEF Before
  <2>2. CASE r[1] = q[1] /\ r[1] \notin R
    <3>1. to[r][2] = r[2] /\ to[q][2] = q[2]
      BY <1>4, <2>2
    <3>2. QED
      BY <1>4, <2>2, <3>1 DEF Before, Keyed
  <2>3. CASE r[1] = q[1] /\ r[1] \in R
    <3>1. to[r][2] = Position(old, r) /\ to[q][2] = Position(old, q) /\ r \in old /\ q \in old
      BY <1>4, <2>3
    <3>2. /\ Position(old, r) \in Nat /\ Position(old, q) \in Nat
          /\ r[2] < q[2] <=> Position(old, r) < Position(old, q)
          /\ q[2] < r[2] <=> Position(old, q) < Position(old, r)
      BY <2>3, <3>1, PositionsOrder
    <3>3. Before(r, q) <=> Before(to[r], to[q])
      BY <1>4, <2>0, <2>3, <3>1, <3>2 DEF Before
    <3>4. ASSUME to[r] = to[q] PROVE r = q
      <4>1. r[2] = q[2]
        BY <2>0, <3>1, <3>2, <3>4
      <4>2. QED
        BY <2>3, <4>1 DEF Keyed
    <3>5. QED
      BY <3>3, <3>4
  <2>4. QED
    BY <2>1, <2>2, <2>3
<1>8. Ranked(others) = Ranked(rows)
  <2>1. \A r, q \in rows : to[r] = to[q] => r = q
    BY <1>7
  <2>2. \A r, q \in rows : Before(r, q) <=> Before(to[r], to[q])
    BY <1>7
  <2>3. \A r \in rows : to[r][1] = r[1] /\ to[r][3] = r[3] /\ to[r][4] = r[4]
    BY <1>4
  <2>4. IsFiniteSet(rows)
    BY DEF Keyed
  <2>5. QED
    BY <1>5, <1>6, <2>1, <2>2, <2>3, <2>4, RankedAlike
<1>9. QED
  BY <1>8 DEF others, Renewed

\* The rows of one file: a line holds one.
RowsByLine(rows) ==
    /\ IsFiniteSet(rows)
    /\ \A s \in rows : s[1] \in Nat
    /\ \A s, t \in rows : s[1] = t[1] => s = t

\* The rows of every file, with its path.
Spread(part) == UNION {{<<p, s[1], s[2], s[3]>> : s \in part[p]} : p \in DOMAIN part}

LEMMA SpreadRow ==
  ASSUME NEW part, NEW x
  PROVE  x \in Spread(part) <=> \E p \in DOMAIN part : \E s \in part[p] : x = <<p, s[1], s[2], s[3]>>
<1>1. x \in Spread(part) <=> \E p \in DOMAIN part : x \in {<<p, s[1], s[2], s[3]>> : s \in part[p]}
  BY DEF Spread
<1>2. QED
  BY <1>1

LEMMA SpreadKeyed ==
  ASSUME NEW part, DOMAIN part \subseteq Paths, \A p \in DOMAIN part : RowsByLine(part[p])
  PROVE  Keyed(Spread(part))
<1> DEFINE Of(p) == {<<p, s[1], s[2], s[3]>> : s \in part[p]}
           all == [p \in DOMAIN part |-> Of(p)]
<1>1. ASSUME NEW p \in DOMAIN part PROVE IsFiniteSet(Of(p))
  <2> DEFINE f == [s \in part[p] |-> <<p, s[1], s[2], s[3]>>]
  <2>1. f \in Surjection(part[p], Of(p))
    BY DEF Surjection
  <2>2. IsFiniteSet(part[p])
    BY DEF RowsByLine
  <2> HIDE DEF f, Of
  <2>3. QED
    BY <2>1, <2>2, FS_Surjection
<1>2. IsFiniteSet(DOMAIN part)
  BY PathsAssumption, FS_Subset
<1>3. IsFiniteSet({Of(p) : p \in DOMAIN part})
  <2>1. all \in Surjection(DOMAIN part, {Of(p) : p \in DOMAIN part})
    <3> HIDE DEF Of
    <3>1. QED
      BY DEF Surjection
  <2> HIDE DEF all, Of
  <2>2. QED
    BY <1>2, <2>1, FS_Surjection
<1>4. IsFiniteSet(Spread(part))
  <2>1. Spread(part) = UNION {Of(p) : p \in DOMAIN part}
    BY DEF Spread
  <2>2. \A T \in {Of(p) : p \in DOMAIN part} : IsFiniteSet(T)
    <3> HIDE DEF Of
    <3>1. QED
      BY <1>1
  <2> HIDE DEF Of
  <2>3. QED
    BY <1>3, <2>1, <2>2, FS_UNION
<1>5. ASSUME NEW r \in Spread(part)
      PROVE  r = <<r[1], r[2], r[3], r[4]>> /\ r[1] \in Nat /\ r[2] \in Nat
  <2>1. PICK p \in DOMAIN part : \E s \in part[p] : r = <<p, s[1], s[2], s[3]>>
    BY SpreadRow
  <2>2. PICK s \in part[p] : r = <<p, s[1], s[2], s[3]>>
    BY <2>1
  <2>3. p \in Nat /\ s[1] \in Nat
    BY PathsAssumption DEF RowsByLine
  <2>4. QED
    BY <2>2, <2>3
<1>6. ASSUME NEW r \in Spread(part), NEW q \in Spread(part), r[1] = q[1], r[2] = q[2]
      PROVE  r = q
  <2>1. PICK p \in DOMAIN part : \E s \in part[p] : r = <<p, s[1], s[2], s[3]>>
    BY SpreadRow
  <2>2. PICK s \in part[p] : r = <<p, s[1], s[2], s[3]>>
    BY <2>1
  <2>3. PICK o \in DOMAIN part : \E t \in part[o] : q = <<o, t[1], t[2], t[3]>>
    BY SpreadRow
  <2>4. PICK t \in part[o] : q = <<o, t[1], t[2], t[3]>>
    BY <2>3
  <2>5. p = o /\ s[1] = t[1]
    BY <1>6, <2>2, <2>4
  <2>6. s = t
    BY <2>5 DEF RowsByLine
  <2>7. QED
    BY <2>2, <2>4, <2>5, <2>6
<1>7. QED
  BY <1>4, <1>5, <1>6 DEF Keyed

\* What a table has of a path.
RowsAt(table, p) == {<<r[2], r[3], r[4]>> : r \in {q \in table : q[1] = p}}

(* A table merged from reused and fresh files is the table of all files.   *)
LEMMA TableKept ==
  ASSUME NEW old, DOMAIN old \subseteq Paths, \A p \in DOMAIN old : RowsByLine(old[p]),
         NEW new, DOMAIN new \subseteq Paths, \A p \in DOMAIN new : RowsByLine(new[p]),
         NEW R, R \subseteq DOMAIN old, R \subseteq DOMAIN new, \A p \in R : old[p] = new[p],
         NEW merged, DOMAIN merged = DOMAIN new,
         \A p \in R : merged[p] = RowsAt(Ranked(Spread(old)), p),
         \A p \in DOMAIN new \ R : merged[p] = new[p]
  PROVE  Ranked(Spread(merged)) = Ranked(Spread(new))
<1> DEFINE table == Ranked(Spread(old))
           others == Renewed(Spread(old), Spread(new), R)
<1>1. Keyed(Spread(old)) /\ Keyed(Spread(new))
  BY SpreadKeyed
<1>2. ASSUME NEW r, r[1] \in R PROVE r \in Spread(old) <=> r \in Spread(new)
  <2>1. ASSUME NEW p, NEW s, r = <<p, s[1], s[2], s[3]>> PROVE p \in R
    BY <1>2, <2>1
  <2>2. QED
    BY <2>1, SpreadRow
<1>3. Ranked(others) = Ranked(Spread(new))
  <2>1. \A r : r[1] \in R => (r \in Spread(old) <=> r \in Spread(new))
    BY <1>2
  <2>2. QED
    BY <1>1, <2>1, RanksKept
<1>4. ASSUME NEW t \in table PROVE t = <<t[1], t[2], t[3], t[4]>>
  <2>1. PICK r \in Spread(old) : t = <<r[1], Position(Spread(old), r), r[3], r[4]>>
    BY DEF Ranked, Position
  <2>2. QED
    BY <2>1
<1>a. others = {t \in table : t[1] \in R} \cup {r \in Spread(new) : r[1] \notin R}
  BY DEF Renewed
<1> HIDE DEF table, others
<1>5. ASSUME NEW x \in others PROVE x \in Spread(merged)
  <2>1. CASE x \in table /\ x[1] \in R
    <3> DEFINE s == <<x[2], x[3], x[4]>>
    <3>1. s \in merged[x[1]] /\ s[1] = x[2] /\ s[2] = x[3] /\ s[3] = x[4]
      BY <2>1 DEF table, RowsAt
    <3> HIDE DEF s
    <3>2. x = <<x[1], s[1], s[2], s[3]>> /\ x[1] \in DOMAIN merged
      BY <1>4, <2>1, <3>1
    <3>3. QED
      BY <3>1, <3>2, SpreadRow
  <2>2. CASE x \in Spread(new) /\ x[1] \notin R
    <3>1. PICK p \in DOMAIN new : \E s \in new[p] : x = <<p, s[1], s[2], s[3]>>
      BY <2>2, SpreadRow
    <3>2. p = x[1] /\ p \in DOMAIN merged
      BY <3>1
    <3>3. merged[p] = new[p]
      BY <2>2, <3>2
    <3>4. QED
      BY <3>1, <3>2, <3>3, SpreadRow
  <2>3. QED
    BY <1>a, <2>1, <2>2
<1>6. ASSUME NEW x \in Spread(merged) PROVE x \in others
  <2>1. PICK p \in DOMAIN merged : \E s \in merged[p] : x = <<p, s[1], s[2], s[3]>>
    BY SpreadRow
  <2>2. PICK s \in merged[p] : x = <<p, s[1], s[2], s[3]>>
    BY <2>1
  <2>3. CASE p \in R
    <3>1. PICK r \in table : r[1] = p /\ s = <<r[2], r[3], r[4]>>
      BY <2>3 DEF table, RowsAt
    <3>2. x = <<r[1], r[2], r[3], r[4]>>
      BY <2>2, <3>1
    <3>3. x = r
      BY <1>4, <3>2
    <3>4. QED
      BY <1>a, <2>3, <3>1, <3>3
  <2>4. CASE p \notin R
    <3>1. s \in new[p] /\ x[1] = p /\ p \in DOMAIN new
      BY <2>2, <2>4
    <3>2. x \in Spread(new)
      BY <2>2, <3>1, SpreadRow
    <3>3. QED
      BY <1>a, <2>4, <3>1, <3>2
  <2>5. QED
    BY <2>3, <2>4
<1>7. Spread(merged) = others
  BY <1>5, <1>6
<1>8. QED
  BY <1>3, <1>7

(* The rows an old table has of a path, with their positions. *)
LEMMA RowsOfPath ==
  ASSUME NEW old, DOMAIN old \subseteq Paths, \A p \in DOMAIN old : RowsByLine(old[p]),
         NEW p \in DOMAIN old,
         NEW s \in RowsAt(Ranked(Spread(old)), p)
  PROVE  \E u \in old[p] : s = <<Position(Spread(old), <<p, u[1], u[2], u[3]>>), u[2], u[3]>>
<1>1. PICK r \in Ranked(Spread(old)) : r[1] = p /\ s = <<r[2], r[3], r[4]>>
  BY DEF RowsAt
<1>2. PICK k \in Spread(old) : r = <<k[1], Position(Spread(old), k), k[3], k[4]>>
  BY DEF Ranked, Position
<1>3. PICK o \in DOMAIN old : \E u \in old[o] : k = <<o, u[1], u[2], u[3]>>
  BY SpreadRow
<1>4. PICK u \in old[o] : k = <<o, u[1], u[2], u[3]>>
  BY <1>3
<1>5. o = p /\ s[1] = Position(Spread(old), k) /\ s = <<Position(Spread(old), k), u[2], u[3]>>
  BY <1>1, <1>2, <1>4
<1>6. QED
  BY <1>4, <1>5

\* No declaration twice.
Distinct(rows) == \A s, t \in rows : s[2] = t[2] /\ s[3] = t[3] => s = t

(* The first declarations of a file are distinct, and reused rows of       *)
(* distinct declarations are all first.                                    *)
LEMMA FirstAreDistinct ==
  ASSUME NEW syms, RowsByLine(syms)
  PROVE  RowsByLine(FirstDeclared(syms)) /\ Distinct(FirstDeclared(syms))
<1>1. FirstDeclared(syms) \subseteq syms
  BY DEF FirstDeclared
<1>2. RowsByLine(FirstDeclared(syms))
  BY <1>1, FS_Subset DEF RowsByLine
<1>3. ASSUME NEW s \in FirstDeclared(syms), NEW t \in FirstDeclared(syms), s[2] = t[2], s[3] = t[3]
      PROVE  s = t
  <2>1. s \in syms /\ t \in syms /\ s[1] <= t[1] /\ t[1] <= s[1]
    BY <1>3 DEF FirstDeclared
  <2>2. s[1] = t[1]
    BY <2>1 DEF RowsByLine
  <2>3. QED
    BY <2>1, <2>2 DEF RowsByLine
<1>4. QED
  BY <1>2, <1>3 DEF Distinct

LEMMA ReusedAreFirst ==
  ASSUME NEW old, DOMAIN old \subseteq Paths, \A p \in DOMAIN old : RowsByLine(old[p]),
         NEW p \in DOMAIN old, Distinct(old[p]),
         NEW syms, syms = RowsAt(Ranked(Spread(old)), p)
  PROVE  FirstDeclared(syms) = syms
<1>1. ASSUME NEW s \in syms, NEW t \in syms, t[2] = s[2], t[3] = s[3] PROVE s[1] <= t[1]
  <2>1. PICK u \in old[p] : s = <<Position(Spread(old), <<p, u[1], u[2], u[3]>>), u[2], u[3]>>
    BY RowsOfPath
  <2>2. PICK v \in old[p] : t = <<Position(Spread(old), <<p, v[1], v[2], v[3]>>), v[2], v[3]>>
    BY RowsOfPath
  <2>3. u = v
    BY <1>1, <2>1, <2>2 DEF Distinct
  <2>4. <<p, u[1], u[2], u[3]>> \in Spread(old)
    BY SpreadRow
  <2>5. Position(Spread(old), <<p, u[1], u[2], u[3]>>) \in Nat
    BY <2>4, SpreadKeyed, PositionsOrder
  <2>6. s[1] = t[1] /\ s[1] \in Nat
    BY <2>1, <2>2, <2>3, <2>5
  <2>7. QED
    BY <2>6
<1>2. QED
  BY <1>1 DEF FirstDeclared

-----------------------------------------------------------------------------
(* Rebuilds. *)

LEMMA RowsOfLines ==
  ASSUME NEW n \in Nat, NEW part,
         \A i \in 1..n : \A s \in part[i] : s[1] = i,
         \A i \in 1..n : \A s, t \in part[i] : s = t
  PROVE  RowsByLine(UNION {part[i] : i \in 1..n})
<1> DEFINE rows == UNION {part[i] : i \in 1..n}
           place == [s \in rows |-> s[1]]
<1>1. \A s \in rows : \E i \in 1..n : s \in part[i]
  OBVIOUS
<1> HIDE DEF rows
<1>2. \A s \in rows : s[1] \in 1..n /\ s \in part[s[1]]
  BY <1>1
<1>3. \A s, t \in rows : s[1] = t[1] => s = t
  BY <1>2
<1>4. place \in Injection(rows, 1..n)
  BY <1>2, <1>3 DEF Injection, IsInjective
<1>5. IsFiniteSet(1..n)
  BY FS_Interval
<1> HIDE DEF place
<1>6. IsFiniteSet(rows)
  BY <1>4, <1>5, FS_Injection
<1>7. RowsByLine(rows)
  BY <1>2, <1>3, <1>6 DEF RowsByLine
<1>8. QED
  BY <1>7 DEF rows

LEMMA RowsOfLine ==
  ASSUME NEW kind, NEW i, NEW line
  PROVE  LET rows == ExtractLine(kind, i, line)
         IN  /\ \A s \in rows.syms : s[1] = i
             /\ \A s, t \in rows.syms : s = t
             /\ \A h \in rows.headings : h[1] = i
             /\ \A h, g \in rows.headings : h = g
<1> DEFINE Single(rows) == /\ \A s \in rows.syms : s[1] = i
                           /\ \A s, t \in rows.syms : s = t
                           /\ \A h \in rows.headings : h[1] = i
                           /\ \A h, g \in rows.headings : h = g
<1>1. Mentions(line).syms = {} /\ Mentions(line).headings = {} /\ NoRows.syms = {} /\ NoRows.headings = {}
  BY DEF Mentions, NoRows
<1>2. Single(Mentions(line)) /\ Single(NoRows) /\ \A r : Single([NoRows EXCEPT !.raised = r])
  BY <1>1 DEF NoRows
<1>3. Single(SourceLine(i, line))
  <2> DEFINE trimmed == TrimLeft(line)
             taken == TakeDottedName(TrimLeft(Tail(trimmed)))
             row == <<i, trimmed[1], taken.name>>
             uses == IF trimmed[1] = "use"
                     THEN {<<"references", taken.name>>, <<"depends-on", taken.name>>}
                     ELSE {<<"defines", taken.name>>}
             m == Mentions(line)
             long == [m EXCEPT !.syms = {row}, !.rels = @ \cup uses]
  <2>1. long.syms = {row} /\ long.headings = m.headings /\ row[1] = i
    BY DEF Mentions, NoRows
  <2>2. Single(long)
    <3> HIDE DEF row, uses, trimmed, taken, long
    <3>1. QED
      BY <1>1, <2>1
  <2>3. \/ SourceLine(i, line) = m
        \/ SourceLine(i, line) = [NoRows EXCEPT !.raised = taken.raised]
        \/ SourceLine(i, line) = long
    BY Zenon DEF SourceLine
  <2>4. QED
    BY <1>2, <2>2, <2>3
<1>4. Single(DocumentLine(i, line))
  <2> DEFINE trimmed == TrimLeft(line)
             level == HeadingLevel(trimmed)
             heads == IF level = 0 THEN {}
                      ELSE {<<i, level, SubSeq(trimmed, level + 2, Len(trimmed))>>}
             links == IF \E w \in KernelWindows(trimmed) : ContainsLink(w)
                      THEN {<<"references", t>> : t \in LinkTargets(trimmed)} ELSE {}
             m == Mentions(line)
             long == [m EXCEPT !.headings = heads, !.rels = @ \cup links]
  <2>1. long.syms = m.syms /\ long.headings = heads
    BY DEF Mentions, NoRows
  <2>2. (\A h \in heads : h[1] = i) /\ (\A h, g \in heads : h = g)
    <3> DEFINE hrow == <<i, level, SubSeq(trimmed, level + 2, Len(trimmed))>>
    <3>1. hrow[1] = i /\ (heads = {} \/ heads = {hrow})
      <4> HIDE DEF level, trimmed
      <4>1. QED
        OBVIOUS
    <3> HIDE DEF hrow, heads
    <3>2. QED
      BY <3>1
  <2>3. Single(long)
    <3> HIDE DEF heads, links, trimmed, level, long
    <3>1. QED
      BY <1>1, <2>1, <2>2
  <2>4. DocumentLine(i, line) = long
    BY Zenon DEF DocumentLine
  <2>5. QED
    BY <2>3, <2>4
<1>5. Single(ExtractLine(kind, i, line))
  <2> HIDE DEF Single
  <2>1. \/ ExtractLine(kind, i, line) = NoRows
        \/ ExtractLine(kind, i, line) = SourceLine(i, line)
        \/ ExtractLine(kind, i, line) = DocumentLine(i, line)
        \/ ExtractLine(kind, i, line) = Mentions(line)
    BY DEF ExtractLine
  <2>2. QED
    BY <1>2, <1>3, <1>4, <2>1
<1>6. QED
  BY <1>5

LEMMA RowsOfFile ==
  ASSUME NEW kind, NEW c \in DOMAIN Lines
  PROVE  /\ RowsByLine(ExtractFile(kind, Lines[c]).syms)
         /\ RowsByLine(ExtractFile(kind, Lines[c]).headings)
<1> DEFINE lines == Lines[c]
           n == Len(lines)
           syms == [i \in 1..n |-> ExtractLine(kind, i, lines[i]).syms]
           heads == [i \in 1..n |-> ExtractLine(kind, i, lines[i]).headings]
<1>1. n \in Nat
  <2>1. lines \in Seq(Seq(Bytes))
    BY ContentsAssumption
  <2>2. QED
    BY <2>1, LenProperties
<1>2. /\ ExtractFile(kind, lines).syms = UNION {syms[i] : i \in 1..n}
      /\ ExtractFile(kind, lines).headings = UNION {heads[i] : i \in 1..n}
  BY DEF ExtractFile
<1>3. ASSUME NEW i \in 1..n
      PROVE  /\ \A s \in syms[i] : s[1] = i
             /\ \A s, t \in syms[i] : s = t
             /\ \A h \in heads[i] : h[1] = i
             /\ \A h, g \in heads[i] : h = g
  BY RowsOfLine
<1> HIDE DEF n, syms, heads, lines
<1>4. RowsByLine(UNION {syms[i] : i \in 1..n})
  BY <1>1, <1>3, RowsOfLines
<1>5. RowsByLine(UNION {heads[i] : i \in 1..n})
  BY <1>1, <1>3, RowsOfLines
<1>6. QED
  BY <1>2, <1>4, <1>5 DEF lines

\* The parts of the tables of a corpus, by path.
PartsOf(files) == [p \in Present(files) |-> Rows[KindOf[p]][files[p]]]
SymsOf(parts) == [p \in DOMAIN parts |-> FirstDeclared(parts[p].syms)]
HeadingsOf(parts) == [p \in DOMAIN parts |-> parts[p].headings]

LEMMA TablesBySpread ==
  ASSUME NEW parts
  PROVE  /\ SymTable(parts) = Ranked(Spread(SymsOf(parts)))
         /\ HeadingTable(parts) = Ranked(Spread(HeadingsOf(parts)))
<1>1. Spread(SymsOf(parts)) = UNION {{<<p, s[1], s[2], s[3]>> : s \in FirstDeclared(parts[p].syms)} : p \in DOMAIN parts}
  BY DEF Spread, SymsOf
<1>2. Spread(HeadingsOf(parts)) = UNION {{<<p, h[1], h[2], h[3]>> : h \in parts[p].headings} : p \in DOMAIN parts}
  BY DEF Spread, HeadingsOf
<1>3. QED
  BY <1>1, <1>2 DEF SymTable, HeadingTable

LEMMA PartsKeyed ==
  ASSUME NEW files \in Files, NEW p \in Present(files)
  PROVE  /\ RowsByLine(SymsOf(PartsOf(files))[p]) /\ Distinct(SymsOf(PartsOf(files))[p])
         /\ RowsByLine(HeadingsOf(PartsOf(files))[p])
<1>1. p \in Paths /\ files[p] \in DOMAIN Lines
  BY DEF Files, Present
<1>2. PartsOf(files)[p] = ExtractFile(KindOf[p], Lines[files[p]])
  BY <1>1 DEF PartsOf, Rows
<1>3. /\ SymsOf(PartsOf(files))[p] = FirstDeclared(PartsOf(files)[p].syms)
      /\ HeadingsOf(PartsOf(files))[p] = PartsOf(files)[p].headings
  BY DEF SymsOf, HeadingsOf, PartsOf
<1>4. RowsByLine(PartsOf(files)[p].syms) /\ RowsByLine(PartsOf(files)[p].headings)
  BY <1>1, <1>2, RowsOfFile
<1>5. QED
  BY <1>3, <1>4, FirstAreDistinct

LEMMA PartDomains ==
  ASSUME NEW files
  PROVE  /\ DOMAIN PartsOf(files) = Present(files) /\ DOMAIN SymsOf(PartsOf(files)) = Present(files)
         /\ DOMAIN HeadingsOf(PartsOf(files)) = Present(files)
         /\ Present(files) \subseteq Paths
BY DEF PartsOf, SymsOf, HeadingsOf, Present

(* What an incremental build merges are the tables of the corpus: rows of  *)
(* an unchanged path are those of its bytes, and the positions that stand  *)
(* for its lines keep their order.                                         *)
LEMMA TablesRebuilt ==
  ASSUME NEW files \in Files, CorpusTyped, head.docs = DocRows(files),
         Tables(head) = TablesOf(files)
  PROVE  Globalize(PerFile) = FullTables
<1> DEFINE old == PartsOf(files)
           new == PartsOf(corpus)
<1>0. /\ corpus \in Files
      /\ Reused = {p \in Paths : files[p] = corpus[p] /\ corpus[p] # Absent}
  BY VerdictsOf DEF CorpusTyped
<1>1. /\ Reused \subseteq Present(files) /\ Reused \subseteq Present(corpus)
      /\ \A p \in Reused : old[p] = new[p]
  BY <1>0 DEF Present, PartsOf
<1>2. /\ head.syms = SymTable(old) /\ head.headings = HeadingTable(old)
      /\ head.rels = RelTable(old) /\ head.press = PressTable(old)
  BY DEF Tables, TablesOf, Globalize, PartsOf
<1>3. /\ DOMAIN PerFile = Present(corpus)
      /\ \A p \in Reused : PerFile[p] = FileRichFromRecords(p, head)
      /\ \A p \in Present(corpus) \ Reused : PerFile[p] = new[p]
  BY <1>1 DEF PerFile, PartsOf, Extracted
<1>4. SymTable(PerFile) = SymTable(new)
  <2> DEFINE o == SymsOf(old)
             n == SymsOf(new)
             m == SymsOf(PerFile)
  <2>1. /\ DOMAIN o = Present(files) /\ DOMAIN n = Present(corpus) /\ DOMAIN m = Present(corpus)
        /\ DOMAIN o \subseteq Paths /\ DOMAIN n \subseteq Paths
    BY <1>3, PartDomains DEF SymsOf
  <2>2. /\ \A p \in DOMAIN o : RowsByLine(o[p]) /\ Distinct(o[p])
        /\ \A p \in DOMAIN n : RowsByLine(n[p])
    BY <1>0, <2>1, PartsKeyed
  <2>3. \A p \in Reused : o[p] = n[p]
    BY <1>1, PartDomains DEF SymsOf
  <2>4. \A p \in Present(corpus) \ Reused : m[p] = n[p]
    BY <1>3, PartDomains DEF SymsOf
  <2>5. \A p \in Reused : m[p] = FirstDeclared(FileRichFromRecords(p, head).syms)
    BY <1>1, <1>3 DEF SymsOf
  <2>6. head.syms = Ranked(Spread(o))
    BY <1>2, TablesBySpread
  <2> HIDE DEF o, n, m, old, new
  <2>7. ASSUME NEW p \in Reused
        PROVE  m[p] = RowsAt(Ranked(Spread(o)), p)
    <3> DEFINE syms == RowsAt(Ranked(Spread(o)), p)
    <3>1. FileRichFromRecords(p, head).syms = syms
      BY <2>6 DEF FileRichFromRecords, RowsAt
    <3>2. p \in DOMAIN o
      BY <1>1, <2>1
    <3>3. FirstDeclared(syms) = syms
      BY <2>1, <2>2, <3>2, ReusedAreFirst
    <3>4. QED
      BY <2>5, <3>1, <3>3
  <2>8. /\ DOMAIN o \subseteq Paths /\ DOMAIN n \subseteq Paths /\ DOMAIN m = DOMAIN n
        /\ \A p \in DOMAIN o : RowsByLine(o[p])
        /\ \A p \in DOMAIN n : RowsByLine(n[p])
        /\ Reused \subseteq DOMAIN o /\ Reused \subseteq DOMAIN n
        /\ \A p \in Reused : o[p] = n[p]
        /\ \A p \in Reused : m[p] = RowsAt(Ranked(Spread(o)), p)
        /\ \A p \in DOMAIN n \ Reused : m[p] = n[p]
    BY <1>1, <2>1, <2>2, <2>3, <2>4, <2>7
  <2>9. Ranked(Spread(m)) = Ranked(Spread(n))
    BY <2>8, TableKept
  <2>10. QED
    BY <2>9, TablesBySpread DEF m, n
<1>5. HeadingTable(PerFile) = HeadingTable(new)
  <2> DEFINE o == HeadingsOf(old)
             n == HeadingsOf(new)
             m == HeadingsOf(PerFile)
  <2>1. /\ DOMAIN o = Present(files) /\ DOMAIN n = Present(corpus) /\ DOMAIN m = Present(corpus)
        /\ DOMAIN o \subseteq Paths /\ DOMAIN n \subseteq Paths
    BY <1>3, PartDomains DEF HeadingsOf
  <2>2. /\ \A p \in DOMAIN o : RowsByLine(o[p])
        /\ \A p \in DOMAIN n : RowsByLine(n[p])
    BY <1>0, <2>1, PartsKeyed
  <2>3. \A p \in Reused : o[p] = n[p]
    BY <1>1, PartDomains DEF HeadingsOf
  <2>4. \A p \in Present(corpus) \ Reused : m[p] = n[p]
    BY <1>3, PartDomains DEF HeadingsOf
  <2>5. \A p \in Reused : m[p] = FileRichFromRecords(p, head).headings
    BY <1>1, <1>3 DEF HeadingsOf
  <2>6. head.headings = Ranked(Spread(o))
    BY <1>2, TablesBySpread
  <2> HIDE DEF o, n, m, old, new
  <2>7. \A p \in Reused : m[p] = RowsAt(Ranked(Spread(o)), p)
    BY <2>5, <2>6 DEF FileRichFromRecords, RowsAt
  <2>8. /\ DOMAIN o \subseteq Paths /\ DOMAIN n \subseteq Paths /\ DOMAIN m = DOMAIN n
        /\ \A p \in DOMAIN o : RowsByLine(o[p])
        /\ \A p \in DOMAIN n : RowsByLine(n[p])
        /\ Reused \subseteq DOMAIN o /\ Reused \subseteq DOMAIN n
        /\ \A p \in Reused : o[p] = n[p]
        /\ \A p \in Reused : m[p] = RowsAt(Ranked(Spread(o)), p)
        /\ \A p \in DOMAIN n \ Reused : m[p] = n[p]
    BY <1>1, <2>1, <2>2, <2>3, <2>4, <2>7
  <2>9. Ranked(Spread(m)) = Ranked(Spread(n))
    BY <2>8, TableKept
  <2>10. QED
    BY <2>9, TablesBySpread DEF m, n
<1>6. RelTable(PerFile) = RelTable(new) /\ PressTable(PerFile) = PressTable(new)
  <2>1. DOMAIN old = Present(files) /\ DOMAIN new = Present(corpus)
    BY PartDomains
  <2> HIDE DEF old, new
  <2>2. ASSUME NEW p \in Present(corpus)
        PROVE  PerFile[p].rels = new[p].rels /\ PerFile[p].press = new[p].press
    <3>1. CASE p \in Reused
      <4>1. /\ PerFile[p].rels = {r[2] : r \in {q \in head.rels : q[1] = p}}
            /\ PerFile[p].press = {r[2] : r \in {q \in head.press : q[1] = p}}
        <5>1. PerFile[p] = FileRichFromRecords(p, head)
          BY <1>3, <3>1
        <5>2. /\ FileRichFromRecords(p, head).rels = {r[2] : r \in {q \in head.rels : q[1] = p}}
              /\ FileRichFromRecords(p, head).press = {r[2] : r \in {q \in head.press : q[1] = p}}
          BY Zenon DEF FileRichFromRecords
        <5>3. QED
          BY <5>1, <5>2
      <4>2. /\ \A x : x \in head.rels <=> \E o \in DOMAIN old : x \in {o} \X old[o].rels
            /\ \A x : x \in head.press <=> \E o \in DOMAIN old : x \in {o} \X old[o].press
        <5>1. head.rels = UNION {{o} \X old[o].rels : o \in DOMAIN old}
          BY <1>2 DEF RelTable
        <5>2. head.press = UNION {{o} \X old[o].press : o \in DOMAIN old}
          BY <1>2 DEF PressTable
        <5>3. \A x : x \in head.rels <=> \E o \in DOMAIN old : x \in {o} \X old[o].rels
          BY <5>1
        <5>4. \A x : x \in head.press <=> \E o \in DOMAIN old : x \in {o} \X old[o].press
          BY <5>2
        <5>5. QED
          BY <5>3, <5>4
      <4>3. p \in DOMAIN old
        BY <1>1, <2>1, <3>1
      <4>4. {r[2] : r \in {q \in head.rels : q[1] = p}} = old[p].rels
        <5>1. ASSUME NEW y \in old[p].rels PROVE y \in {r[2] : r \in {q \in head.rels : q[1] = p}}
          <6>1. <<p, y>> \in head.rels /\ <<p, y>>[1] = p /\ <<p, y>>[2] = y
            BY <4>2, <4>3, <5>1
          <6>2. QED
            BY <6>1
        <5>2. ASSUME NEW r \in head.rels, r[1] = p PROVE r[2] \in old[p].rels
          BY <4>2, <5>2
        <5>3. QED
          BY <5>1, <5>2
      <4>5. {r[2] : r \in {q \in head.press : q[1] = p}} = old[p].press
        <5>1. ASSUME NEW y \in old[p].press PROVE y \in {r[2] : r \in {q \in head.press : q[1] = p}}
          <6>1. <<p, y>> \in head.press /\ <<p, y>>[1] = p /\ <<p, y>>[2] = y
            BY <4>2, <4>3, <5>1
          <6>2. QED
            BY <6>1
        <5>2. ASSUME NEW r \in head.press, r[1] = p PROVE r[2] \in old[p].press
          BY <4>2, <5>2
        <5>3. QED
          BY <5>1, <5>2
      <4>6. QED
        BY <1>1, <3>1, <4>1, <4>4, <4>5
    <3>2. CASE p \notin Reused
      BY <1>3, <3>2
    <3>3. QED
      BY <3>1, <3>2
  <2>3. QED
    BY <1>3, <2>1, <2>2 DEF RelTable, PressTable
<1>7. FullTables = Globalize(new)
  BY DEF FullTables, TablesOf, PartsOf
<1>8. QED
  BY <1>4, <1>5, <1>6, <1>7 DEF Globalize

IndexInv == rich \in BOOLEAN /\ \E files : IndexOf(files)

LEMMA IndexInit == Init => IndexInv
<1> SUFFICES ASSUME Init PROVE IndexInv
  OBVIOUS
<1> DEFINE none == [p \in Paths |-> Absent]
<1>1. none \in Files /\ Present(none) = {}
  BY DEF Files, Present
<1> HIDE DEF none
<1>2. DocRows(none) = {} /\ TermRows(none) = {}
  BY <1>1 DEF DocRows, TermRows
<1>3. rich = FALSE /\ outcome = "none" /\ head.docs = {} /\ head.terms = {}
  BY DEF Init, Empty
<1>4. QED
  BY <1>1, <1>2, <1>3 DEF IndexInv, IndexOf

LEMMA IndexStep == ASSUME DocsInv, IndexInv, [Next]_vars PROVE IndexInv'
<1>0. /\ CorpusTyped
      /\ \E files : IndexOf(files)
      /\ rich \in BOOLEAN
  BY DEF DocsInv, IndexInv
<1>1. PICK files : IndexOf(files)
  BY <1>0
<1>2. ASSUME NEW p \in Paths, NEW c \in Contents[p] \cup {Absent}, Edit(p, c) PROVE IndexInv'
  <2>1. head' = head /\ rich' = rich /\ outcome' = "none"
    BY <1>2 DEF Edit
  <2>2. IndexOf(files)'
    BY <1>1, <2>1 DEF IndexOf, Tables
  <2>3. QED
    BY <1>0, <2>1, <2>2 DEF IndexInv
<1>3. ASSUME NEW isRich \in BOOLEAN, BuildFull(isRich) PROVE IndexInv'
  <2>1. /\ head'.docs = DocRows(corpus) /\ head'.terms = TermRows(corpus)
        /\ isRich => Tables(head)' = FullTables
        /\ rich' = isRich /\ outcome' = "full" /\ corpus' = corpus
    BY <1>3, FullPublishes
  <2>2. IndexOf(corpus)'
    BY <1>0, <2>1 DEF IndexOf, FullTables, CorpusTyped
  <2>3. QED
    BY <2>1, <2>2 DEF IndexInv
<1>4. ASSUME NEW isRich \in BOOLEAN, BuildIncremental(isRich) PROVE IndexInv'
  <2>1. files \in Files /\ head.docs = DocRows(files) /\ head.terms = TermRows(files)
    BY <1>1 DEF IndexOf
  <2>2. /\ head'.docs = DocRows(corpus) /\ head'.terms = TermRows(corpus)
        /\ isRich => Tables(head)' = Globalize(PerFile)
        /\ rich' = (rich /\ isRich) /\ corpus' = corpus
    BY <1>0, <1>4, <2>1, IncrementalPublishes
  <2>3. rich /\ isRich => Tables(head)' = FullTables
    BY <1>0, <1>1, <2>1, <2>2, TablesRebuilt DEF IndexOf
  <2>4. IndexOf(corpus)'
    BY <1>0, <2>2, <2>3 DEF IndexOf, FullTables, CorpusTyped
  <2>5. QED
    BY <1>0, <2>2, <2>4 DEF IndexInv
<1>5. CASE BuildFullFails \/ BuildIncrementalFails
  <2>1. UNCHANGED <<corpus, head, rich>> /\ outcome' = "failed"
    BY <1>5 DEF BuildFullFails, BuildIncrementalFails, BuildFails
  <2>2. IndexOf(files)'
    BY <1>1, <2>1 DEF IndexOf, Tables
  <2>3. QED
    BY <1>0, <2>1, <2>2 DEF IndexInv
<1>6. CASE UNCHANGED vars
  <2>1. UNCHANGED <<corpus, head, rich, outcome>>
    BY <1>6 DEF vars
  <2>2. IndexOf(files)'
    BY <1>1, <2>1 DEF IndexOf, Tables
  <2>3. QED
    BY <1>0, <2>1, <2>2 DEF IndexInv
<1>7. QED
  BY <1>2, <1>3, <1>4, <1>5, <1>6 DEF Next

THEOREM IndexInductive == Spec => [](DocsInv /\ IndexInv)
<1>1. DocsInv /\ IndexInv /\ [Next]_vars => DocsInv' /\ IndexInv'
  BY DocsStep, IndexStep
<1>2. QED
  BY <1>1, DocsInit, IndexInit, PTL DEF Spec

(* However it was reached, an incremental snapshot is the one a full build *)
(* of the same corpus gives (incremental_snapshot, _v2, globalize).        *)
THEOREM IncrementalAlwaysRebuild == Spec => []IncrementalIsRebuild
<1>1. IndexInv => IncrementalIsRebuild
  BY DEF IndexInv, IndexOf, IncrementalIsRebuild, FullTables
<1>2. QED
  BY <1>1, IndexInductive, PTL
=============================================================================
