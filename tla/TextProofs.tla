----------------------------- MODULE TextProofs -----------------------------
(***************************************************************************)
(* For lines, names and formats of any length, and for any width of an     *)
(* int: words are where they were found, the prompt shows the directories, *)
(* a file is found under its name, and sscanf gets back what sprintf wrote.*)
(***************************************************************************)
EXTENDS CommandLine, Stdio, FiniteSetTheorems, SequenceTheorems, WellFoundedInduction, TLAPS

-----------------------------------------------------------------------------
(* Induction and recursion over numbers.                                   *)

\* A set of numbers that is not empty has a least one.
LEMMA MinIn ==
  ASSUME NEW S \in SUBSET Nat, S # {}
  PROVE  Min(S) \in S /\ \A j \in S : Min(S) <= j
\* Among the intervals 0 .. x there is one that is minimal for inclusion.
<1> DEFINE T == {0 .. x : x \in S}
<1>1. IsWellFoundedOn(StrictSubsetOrdering(Nat), FiniteSubsetsOf(Nat))
  BY FS_StrictSubsetOrderingWellFounded
<1>2. \A x \in S : IsFiniteSet(0 .. x) /\ 0 .. x \in SUBSET Nat
  BY FS_Interval
<1>3. T \subseteq FiniteSubsetsOf(Nat) /\ T # {}
  BY <1>2 DEF FiniteSubsetsOf
<1>4. PICK t \in T : \A u \in T : ~(<<u, t>> \in StrictSubsetOrdering(Nat))
  BY <1>1, <1>3, WFMin
<1>5. PICK x \in S : t = 0 .. x
  BY <1>4
<1>6. ASSUME NEW y \in S, y < x PROVE FALSE
  <2>1. 0 .. y \in T /\ 0 .. y \in SUBSET Nat /\ 0 .. x \in SUBSET Nat
    BY <1>5
  <2>2. 0 .. y \subseteq 0 .. x /\ x \in 0 .. x /\ x \notin 0 .. y
    BY <1>6
  <2>3. <<0 .. y, 0 .. x>> \in StrictSubsetOrdering(Nat)
    BY <2>1, <2>2 DEF StrictSubsetOrdering
  <2> QED
    BY <1>4, <1>5, <2>1, <2>3
<1>7. \A y \in S : x <= y
  BY <1>6
<1> QED
  BY <1>7 DEF Min

\* Induction, on a set of numbers.
LEMMA AllNumbers ==
  ASSUME NEW S \in SUBSET Nat, 0 \in S, \A k \in S : k + 1 \in S
  PROVE  \A k \in Nat : k \in S
<1> SUFFICES ASSUME Nat \ S # {} PROVE FALSE
  OBVIOUS
<1>1. PICK m \in Nat \ S : \A j \in Nat \ S : m <= j
  <2>1. Nat \ S \in SUBSET Nat
    OBVIOUS
  <2> QED BY <2>1, MinIn
<1>2. m - 1 \in Nat /\ ~(m <= m - 1) /\ (m - 1) + 1 = m
  BY <1>1
<1> QED BY <1>1, <1>2

\* A function that is defined by recursion over the numbers exists.
IsIterated(f, D, nx, a) ==
  f \in [Nat -> D] /\ f[0] = a /\ \A k \in Nat : f[k + 1] = nx[k + 1][f[k]]

LEMMA Iterated ==
  ASSUME NEW D, NEW nx \in [Nat -> [D -> D]], NEW a \in D
  PROVE  \E f : IsIterated(f, D, nx, a)
<1> DEFINE Ok(h, n) == h \in [0 .. n -> D] /\ h[0] = a /\ \A k \in 0 .. n - 1 : h[k + 1] = nx[k + 1][h[k]]
           S == {n \in Nat : \E h \in [0 .. n -> D] : Ok(h, n)}
<1>1. \A n \in Nat : \E h : Ok(h, n)
  <2>1. 0 \in S
    <3>1. Ok([k \in 0 .. 0 |-> a], 0)
      OBVIOUS
    <3> QED BY <3>1
  <2>2. ASSUME NEW n \in S PROVE n + 1 \in S
    <3>1. PICK h \in [0 .. n -> D] : Ok(h, n)
      OBVIOUS
    <3> DEFINE e == [k \in 0 .. n + 1 |-> IF k = n + 1 THEN nx[n + 1][h[n]] ELSE h[k]]
    <3>2. e \in [0 .. n + 1 -> D] /\ e[0] = a
      BY <3>1
    <3>3. ASSUME NEW k \in 0 .. (n + 1) - 1 PROVE e[k + 1] = nx[k + 1][e[k]]
      <4>1. CASE k = n
        BY <4>1
      <4>2. CASE k # n
        <5>1. k \in 0 .. n - 1 /\ k + 1 \in 0 .. n
          BY <4>2
        <5> QED BY <3>1, <5>1
      <4> QED BY <4>1, <4>2
    <3> HIDE DEF e
    <3>4. Ok(e, n + 1) /\ n + 1 \in Nat
      BY <3>2, <3>3
    <3> HIDE DEF Ok
    <3> QED BY <3>2, <3>4
  <2> HIDE DEF Ok
  <2>3. S \in SUBSET Nat
    OBVIOUS
  <2> HIDE DEF S
  <2>4. \A n \in Nat : n \in S
    BY <2>1, <2>2, <2>3, AllNumbers
  <2> QED BY <2>4 DEF S
<1>2. ASSUME NEW n \in Nat, NEW m \in Nat, n <= m, NEW h, NEW e, Ok(h, n), Ok(e, m)
      PROVE  h[n] = e[n]
  <2> DEFINE Q == {k \in Nat : k <= n => h[k] = e[k]}
  <2>1. 0 \in Q
    BY <1>2
  <2>2. ASSUME NEW k \in Q PROVE k + 1 \in Q
    <3>1. k + 1 <= n => k \in 0 .. n - 1 /\ k \in 0 .. m - 1 /\ k <= n
      BY <1>2
    <3> QED BY <1>2, <3>1
  <2>3. Q \in SUBSET Nat
    OBVIOUS
  <2> HIDE DEF Q, Ok
  <2>4. \A k \in Nat : k \in Q
    BY <2>1, <2>2, <2>3, AllNumbers
  <2> QED BY <2>4 DEF Q
<1> DEFINE part(k) == CHOOSE h : Ok(h, k)
           f == [k \in Nat |-> part(k)[k]]
<1>3. \A k \in Nat : Ok(part(k), k)
  <2> HIDE DEF Ok
  <2> QED BY <1>1
<1> HIDE DEF part
<1>4. f[0] = a
  BY <1>3
<1>5. ASSUME NEW k \in Nat PROVE f[k + 1] = nx[k + 1][f[k]]
  <2>1. part(k + 1)[k + 1] = nx[k + 1][part(k + 1)[k]]
    BY <1>3
  <2>2. part(k)[k] = part(k + 1)[k]
    <3>1. k + 1 \in Nat /\ k <= k + 1
      OBVIOUS
    <3> HIDE DEF Ok
    <3> QED BY <1>2, <1>3, <3>1
  <2> QED BY <2>1, <2>2
<1>6. f \in [Nat -> D]
  BY <1>3
<1> HIDE DEF f
<1> QED BY <1>4, <1>5, <1>6 DEF IsIterated

\* And one over the numbers up to n.
IsIteratedTo(f, n, D, nx, a) ==
  f \in [0 .. n -> D] /\ f[0] = a /\ \A k \in 1 .. n : f[k] = nx[k][f[k - 1]]

LEMMA IteratedTo ==
  ASSUME NEW D, NEW n \in Nat, NEW nx \in [1 .. n -> [D -> D]], NEW a \in D
  PROVE  \E f : IsIteratedTo(f, n, D, nx, a)
<1> DEFINE all == [k \in Nat |-> [d \in D |-> IF k \in 1 .. n THEN nx[k][d] ELSE d]]
<1>1. all \in [Nat -> [D -> D]]
  OBVIOUS
<1>2. \A k \in 1 .. n, d \in D : all[k][d] = nx[k][d]
  OBVIOUS
<1> HIDE DEF all
<1>3. PICK f : IsIterated(f, D, all, a)
  BY <1>1, Iterated
<1> DEFINE g == [k \in 0 .. n |-> f[k]]
<1>4. g \in [0 .. n -> D] /\ g[0] = a
  BY <1>3 DEF IsIterated
<1>5. ASSUME NEW k \in 1 .. n PROVE g[k] = nx[k][g[k - 1]]
  <2>1. k - 1 \in Nat /\ (k - 1) + 1 = k /\ k \in 0 .. n /\ k - 1 \in 0 .. n
    OBVIOUS
  <2>2. f[k] = all[k][f[k - 1]] /\ f[k - 1] \in D
    BY <1>3, <2>1 DEF IsIterated
  <2> QED BY <1>2, <2>1, <2>2
<1> HIDE DEF g
<1> QED BY <1>4, <1>5 DEF IsIteratedTo

-----------------------------------------------------------------------------
(* FlattenSeq.                                                             *)

\* What is put together piece by piece is what FlattenSeq makes.
PartsOf(g, ss, T) ==
  /\ g \in [0 .. Len(ss) -> Seq(T)]
  /\ g[0] = <<>> /\ \A k \in 1 .. Len(ss) : g[k] = g[k - 1] \o ss[k]

LEMMA Flattened ==
  ASSUME NEW T, NEW ss \in Seq(Seq(T)), NEW g, PartsOf(g, ss, T)
  PROVE  FlattenSeq(ss) = g[Len(ss)]
<1> USE DEF PartsOf
<1>1. CASE Len(ss) = 0
  <2>1. ss = <<>>
    BY <1>1, EmptySeq
  <2> QED BY <1>1, <2>1 DEF FlattenSeq
<1>2. CASE Len(ss) # 0
  <2> DEFINE n == Len(ss)
             h == [k \in 1 .. n |-> g[k]]
             fl == CHOOSE f : f = [k \in 1 .. n |-> IF k = 1 THEN ss[k] ELSE f[k - 1] \o ss[k]]
  <2>0. n \in Nat /\ n > 0 /\ \A k \in 1 .. n : ss[k] \in Seq(T)
    BY <1>2
  <2>1. \A k \in 1 .. n : h[k] = IF k = 1 THEN ss[k] ELSE h[k - 1] \o ss[k]
    <3>1. g[1] = ss[1]
      <4>1. g[1] = <<>> \o ss[1] /\ ss[1] \in Seq(T)
        <5>1. 1 \in 1 .. Len(ss) /\ 1 - 1 = 0
          BY <2>0
        <5>2. g[1] = g[1 - 1] \o ss[1]
          BY <5>1
        <5> QED BY <2>0, <5>1, <5>2
      <4> QED BY <4>1, ConcatEmptySeq
    <3>2. \A k \in 1 .. n : k # 1 => k - 1 \in 1 .. n
      BY <2>0
    <3> QED BY <3>1, <3>2
  <2>2. h = [k \in 1 .. n |-> IF k = 1 THEN ss[k] ELSE h[k - 1] \o ss[k]]
    <3> DEFINE e == [k \in 1 .. n |-> IF k = 1 THEN ss[k] ELSE h[k - 1] \o ss[k]]
    <3>1. h = [k \in 1 .. n |-> h[k]] /\ e = [k \in 1 .. n |-> e[k]] /\ \A k \in 1 .. n : h[k] = e[k]
      BY <2>1
    <3> HIDE DEF h, e
    <3>2. h = e
      BY <3>1
    <3> QED BY <3>2 DEF e
  <2> HIDE DEF h
  <2>3. fl = [k \in 1 .. n |-> IF k = 1 THEN ss[k] ELSE fl[k - 1] \o ss[k]]
    BY <2>2
  <2>4. FlattenSeq(ss) = fl[n]
    BY <1>2 DEF FlattenSeq
  <2> DEFINE Q == {k \in Nat : k + 1 \in 1 .. n => fl[k + 1] = g[k + 1]}
  <2> HIDE DEF fl
  <2>5. 0 \in Q
    <3>1. 0 + 1 = 1 /\ 1 \in 1 .. n
      BY <2>0
    <3>2. fl[1] = ss[1] /\ h[1] = ss[1] /\ h[1] = g[1]
      BY <2>1, <2>3, <3>1 DEF h
    <3> QED BY <3>1, <3>2
  <2>6. ASSUME NEW k \in Q PROVE k + 1 \in Q
    <3> SUFFICES ASSUME (k + 1) + 1 \in 1 .. n PROVE fl[(k + 1) + 1] = g[(k + 1) + 1]
      OBVIOUS
    <3>1. k + 1 \in 1 .. n /\ (k + 1) + 1 # 1 /\ ((k + 1) + 1) - 1 = k + 1
      BY <2>0
    <3>2. fl[(k + 1) + 1] = fl[k + 1] \o ss[(k + 1) + 1]
      BY <2>3, <3>1
    <3>3. fl[k + 1] = g[k + 1]
      BY <3>1
    <3> QED BY <3>1, <3>2, <3>3
  <2>7. Q \in SUBSET Nat
    OBVIOUS
  <2>8. \A k \in Nat : k \in Q
    <3> HIDE DEF Q
    <3> QED BY <2>5, <2>6, <2>7, AllNumbers
  <2>9. n - 1 \in Nat /\ (n - 1) + 1 = n /\ n \in 1 .. n
    BY <2>0
  <2>10. fl[n] = g[n]
    BY <2>8, <2>9
  <2> QED BY <2>4, <2>10
<1> QED BY <1>1, <1>2

\* The pieces can be put together.
LEMMA FlattenParts ==
  ASSUME NEW T, NEW ss \in Seq(Seq(T))
  PROVE  \E g : PartsOf(g, ss, T)
<1> DEFINE n == Len(ss)
           nx == [k \in 1 .. n |-> [d \in Seq(T) |-> d \o ss[k]]]
<1>1. n \in Nat /\ <<>> \in Seq(T)
  OBVIOUS
<1>2. nx \in [1 .. n -> [Seq(T) -> Seq(T)]]
  OBVIOUS
<1>3. \A k \in 1 .. n, d \in Seq(T) : nx[k][d] = d \o ss[k]
  OBVIOUS
<1> HIDE DEF nx
<1>4. PICK g : IsIteratedTo(g, n, Seq(T), nx, <<>>)
  <2> HIDE DEF n
  <2> QED BY <1>1, <1>2, IteratedTo
<1>5. ASSUME NEW k \in 1 .. n PROVE g[k] = g[k - 1] \o ss[k]
  <2>1. k - 1 \in 0 .. n /\ g[k - 1] \in Seq(T)
    BY <1>1, <1>4 DEF IsIteratedTo
  <2> QED BY <1>3, <1>4, <2>1 DEF IsIteratedTo
<1> QED BY <1>4, <1>5 DEF IsIteratedTo, PartsOf

LEMMA FlattenEmpty == FlattenSeq(<<>>) = <<>>
BY DEF FlattenSeq

LEMMA FlattenAppend ==
  ASSUME NEW T, NEW ss \in Seq(Seq(T)), NEW x \in Seq(T)
  PROVE  /\ FlattenSeq(ss) \in Seq(T)
         /\ FlattenSeq(Append(ss, x)) = FlattenSeq(ss) \o x
<1> DEFINE n == Len(ss)
           tt == Append(ss, x)
<1>1. tt \in Seq(Seq(T)) /\ Len(tt) = n + 1 /\ n \in Nat
      /\ tt[n + 1] = x /\ \A k \in 1 .. n : tt[k] = ss[k]
  BY AppendProperties
<1> HIDE DEF tt
<1>2. PICK g : PartsOf(g, tt, T)
  BY <1>1, FlattenParts
<1>3. g \in [0 .. n + 1 -> Seq(T)] /\ g[0] = <<>> /\ \A k \in 1 .. n + 1 : g[k] = g[k - 1] \o tt[k]
  BY <1>1, <1>2 DEF PartsOf
<1> DEFINE h == [k \in 0 .. n |-> g[k]]
<1>4. PartsOf(h, ss, T) /\ h[n] = g[n]
  <2>1. h \in [0 .. n -> Seq(T)] /\ h[0] = <<>> /\ h[n] = g[n]
    BY <1>1, <1>3
  <2>2. ASSUME NEW k \in 1 .. n PROVE h[k] = h[k - 1] \o ss[k]
    <3>1. k \in 1 .. n + 1 /\ k \in 0 .. n /\ k - 1 \in 0 .. n
      BY <1>1
    <3> QED BY <1>1, <1>3, <3>1
  <2> QED BY <2>1, <2>2 DEF PartsOf
<1> HIDE DEF h
<1>5. FlattenSeq(ss) = g[n]
  BY <1>4, Flattened
<1>6. FlattenSeq(tt) = g[n + 1]
  BY <1>1, <1>2, Flattened
<1>7. g[n + 1] = g[n] \o x /\ g[n] \in Seq(T)
  <2>1. n + 1 \in 1 .. n + 1 /\ (n + 1) - 1 = n /\ n \in 0 .. n + 1
    BY <1>1
  <2> QED BY <1>1, <1>3, <2>1
<1> QED BY <1>5, <1>6, <1>7 DEF tt

-----------------------------------------------------------------------------
(* Strings in memory.                                                      *)

Memory == Seq(Char \cup {NUL})

\* At an address there is a string, with its end.
Holds(mem, p, w) ==
  /\ w \in Seq(Char) /\ p \in Nat \ {0} /\ p + Len(w) <= Len(mem)
  /\ \A k \in 1 .. Len(w) : mem[p + k - 1] = w[k]
  /\ mem[p + Len(w)] = NUL

LEMMA Characters ==
  \A w \in Seq(Char) : w \in Memory /\ \A k \in 1 .. Len(w) : w[k] \in Char /\ w[k] # NUL
<1>1. Char \subseteq Char \cup {NUL} /\ NUL \notin Char
  BY CharAssumption
<1> QED BY <1>1, SeqMonotonic, ElementOfSeq DEF Memory

\* strlen stops at the first NUL, or where memory ends.
LEMMA EndOfString ==
  ASSUME NEW mem \in Memory, NEW p \in Nat, 1 <= p, p <= Len(mem) + 1
  PROVE  /\ strlen(mem, p) \in Nat /\ p + strlen(mem, p) <= Len(mem) + 1
         /\ \A k \in p .. p + strlen(mem, p) - 1 : mem[k] # NUL
         /\ p + strlen(mem, p) <= Len(mem) => mem[p + strlen(mem, p)] = NUL
<1> DEFINE E == {e \in p .. Len(mem) : mem[e] = NUL} \cup {Len(mem) + 1}
<1>1. Len(mem) \in Nat
  BY DEF Memory
<1>2. E \in SUBSET Nat /\ E # {} /\ \A e \in E : p <= e /\ e <= Len(mem) + 1
  BY <1>1
<1>3. Min(E) \in E /\ \A e \in E : Min(E) <= e
  <2> HIDE DEF E
  <2> QED BY <1>2, MinIn
<1>4. strlen(mem, p) = Min(E) - p
  BY DEF strlen
<1> DEFINE m == Min(E)
<1>5. m \in Nat /\ p <= m /\ m <= Len(mem) + 1 /\ p + strlen(mem, p) = m
  <2>1. Min(E) \in Nat /\ p <= Min(E) /\ Min(E) <= Len(mem) + 1
    <3> HIDE DEF E
    <3> QED BY <1>2, <1>3
  <2> QED BY <1>1, <1>4, <2>1
<1>6. ASSUME NEW k \in p .. m - 1 PROVE mem[k] # NUL
  <2>1. k \in p .. Len(mem) /\ ~(m <= k)
    BY <1>1, <1>5
  <2> HIDE DEF m
  <2> QED BY <1>3, <2>1 DEF m
<1>7. m <= Len(mem) => mem[m] = NUL
  <2>1. m \in E
    BY <1>3
  <2>2. m <= Len(mem) => m # Len(mem) + 1
    BY <1>1, <1>5
  <2> HIDE DEF m
  <2> QED BY <2>1, <2>2
<1> HIDE DEF m, E
<1>8. strlen(mem, p) \in Nat
  BY <1>4, <1>5 DEF m
<1> QED BY <1>5, <1>6, <1>7, <1>8

LEMMA StringHeld ==
  ASSUME NEW mem \in Memory, NEW p, NEW w, Holds(mem, p, w)
  PROVE  strlen(mem, p) = Len(w) /\ string(mem, p) = w
<1> DEFINE n == strlen(mem, p)
<1>1. /\ Len(mem) \in Nat /\ Len(w) \in Nat /\ p \in Nat /\ 1 <= p /\ p + Len(w) <= Len(mem)
      /\ \A k \in 1 .. Len(w) : mem[p + k - 1] = w[k] /\ w[k] # NUL
      /\ mem[p + Len(w)] = NUL
  BY Characters DEF Memory, Holds
<1>2. /\ n \in Nat /\ p + n <= Len(mem) + 1
      /\ \A k \in p .. p + n - 1 : mem[k] # NUL
      /\ p + n <= Len(mem) => mem[p + n] = NUL
  BY <1>1, EndOfString
<1> HIDE DEF n
<1>3. n <= Len(w)
  <2>1. CASE Len(w) < n
    <3>1. p + Len(w) \in p .. p + n - 1
      BY <1>1, <1>2, <2>1
    <3> QED BY <1>1, <1>2, <3>1
  <2> QED BY <1>1, <1>2, <2>1
<1>4. Len(w) <= n
  <2>1. CASE n < Len(w)
    <3>1. n + 1 \in 1 .. Len(w) /\ p + (n + 1) - 1 = p + n /\ p + n <= Len(mem)
      BY <1>1, <1>2, <2>1
    <3> QED BY <1>1, <1>2, <3>1
  <2> QED BY <1>1, <1>2, <2>1
<1>5. n = Len(w)
  BY <1>1, <1>2, <1>3, <1>4
<1>6. string(mem, p) = SubSeq(mem, p, p + Len(w) - 1)
  BY <1>5 DEF string, n
<1>7. /\ SubSeq(mem, p, p + Len(w) - 1) \in Memory
      /\ Len(SubSeq(mem, p, p + Len(w) - 1)) = Len(w)
      /\ \A k \in 1 .. Len(w) : SubSeq(mem, p, p + Len(w) - 1)[k] = w[k]
  <2>1. \A k \in p .. p + Len(w) - 1 : mem[k] \in Char \cup {NUL}
    <3>1. \A k \in p .. p + Len(w) - 1 : k \in 1 .. Len(mem)
      BY <1>1
    <3> QED BY <3>1, ElementOfSeq DEF Memory
  <2>2. p + Len(w) - 1 \in Int /\ p \in Int
    BY <1>1
  <2> DEFINE q == p + Len(w) - 1
             v == SubSeq(mem, p, q)
  <2>3. v \in Memory /\ Len(v) = (IF p <= q THEN q - p + 1 ELSE 0)
        /\ \A k \in 1 .. q - p + 1 : v[k] = mem[p + k - 1]
    <3> HIDE DEF q
    <3> QED BY <2>1, <2>2, SubSeqProperties DEF Memory, q
  <2>4. q - p + 1 = Len(w) /\ (~(p <= q) => Len(w) = 0)
    BY <1>1
  <2> HIDE DEF v
  <2>5. Len(v) = Len(w)
    BY <1>1, <2>2, <2>3, <2>4
  <2>6. \A k \in 1 .. Len(w) : v[k] = w[k]
    BY <1>1, <2>3, <2>4
  <2> QED BY <2>3, <2>5, <2>6 DEF v
<1>8. w \in Memory
  BY Characters DEF Holds, Memory
<1>9. SubSeq(mem, p, p + Len(w) - 1) = w
  BY <1>7, <1>8, SeqEqual DEF Memory
<1> QED BY <1>5, <1>6, <1>9 DEF n

\* What Holds says, in terms of numbers.
LEMMA HeldCells ==
  ASSUME NEW mem \in Memory, NEW p, NEW w, Holds(mem, p, w)
  PROVE  /\ Len(mem) \in Nat /\ Len(w) \in Nat /\ p \in Nat /\ 1 <= p /\ p + Len(w) <= Len(mem)
         /\ w \in Seq(Char)
         /\ \A k \in 1 .. Len(w) : mem[p + k - 1] = w[k] /\ w[k] \in Char /\ w[k] # NUL
         /\ mem[p + Len(w)] = NUL
BY Characters DEF Memory, Holds

\* Behind an address in front of a NUL there is a string.
LEMMA StringThere ==
  ASSUME NEW mem \in Memory, NEW p \in Nat, 1 <= p, p <= Len(mem), mem[Len(mem)] = NUL
  PROVE  Holds(mem, p, string(mem, p)) /\ Len(string(mem, p)) = strlen(mem, p)
<1> DEFINE n == strlen(mem, p)
           q == p + n - 1
           v == SubSeq(mem, p, q)
<1>1. Len(mem) \in Nat /\ p <= Len(mem) + 1
  BY DEF Memory
<1>2. /\ n \in Nat /\ p + n <= Len(mem) + 1
      /\ \A k \in p .. p + n - 1 : mem[k] # NUL
      /\ p + n <= Len(mem) => mem[p + n] = NUL
  BY <1>1, EndOfString
<1> HIDE DEF n
<1>3. p + n <= Len(mem)
  <2>1. CASE p + n = Len(mem) + 1
    <3>1. Len(mem) \in p .. p + n - 1
      BY <1>1, <1>2, <2>1
    <3> QED BY <1>2, <3>1
  <2> QED BY <1>1, <1>2, <2>1
<1>4. \A k \in p .. q : mem[k] \in Char
  <2>1. \A k \in p .. q : k \in 1 .. Len(mem) /\ mem[k] # NUL
    BY <1>1, <1>2, <1>3
  <2> HIDE DEF q
  <2> QED BY <2>1, ElementOfSeq DEF Memory
<1>5. p \in Int /\ q \in Int /\ q - p + 1 = n /\ (~(p <= q) => n = 0)
  BY <1>2
<1> HIDE DEF q
<1>6. /\ v \in Seq(Char) /\ Len(v) = (IF p <= q THEN q - p + 1 ELSE 0)
      /\ \A k \in 1 .. q - p + 1 : v[k] = mem[p + k - 1]
  BY <1>4, <1>5, SubSeqProperties
<1> HIDE DEF v
<1>7. Len(v) = n
  BY <1>5, <1>6
<1>8. string(mem, p) = v
  BY DEF string, v, q, n
<1>9. Holds(mem, p, v)
  BY <1>1, <1>2, <1>3, <1>5, <1>6, <1>7 DEF Holds
<1> QED BY <1>7, <1>8, <1>9 DEF n

\* strcpy changes the cells from p to the end of the string only.
LEMMA CopiedCells ==
  ASSUME NEW mem \in Memory, NEW p \in Nat, 1 <= p, NEW w \in Seq(Char)
  PROVE  /\ strcpy(mem, p, w) \in Memory /\ Len(strcpy(mem, p, w)) = Len(mem)
         /\ \A k \in 1 .. Len(mem) : strcpy(mem, p, w)[k] =
              IF k \in p .. p + Len(w) - 1 THEN w[k - p + 1]
              ELSE IF k = p + Len(w) THEN NUL ELSE mem[k]
<1> DEFINE n == Len(mem)
           cell(k) == IF k \in p .. p + Len(w) - 1 THEN w[k - p + 1]
                      ELSE IF k = p + Len(w) THEN NUL ELSE mem[k]
           m == [k \in 1 .. n |-> cell(k)]
<1>1. n \in Nat /\ DOMAIN mem = 1 .. n /\ Len(w) \in Nat
  BY LenProperties DEF Memory
<1>2. ASSUME NEW k \in 1 .. n PROVE cell(k) \in Char \cup {NUL}
  <2>1. CASE k \in p .. p + Len(w) - 1
    <3>1. k - p + 1 \in 1 .. Len(w)
      BY <1>1, <2>1
    <3> QED BY <2>1, <3>1, ElementOfSeq
  <2>2. mem[k] \in Char \cup {NUL}
    BY ElementOfSeq DEF Memory
  <2> QED BY <2>1, <2>2
<1>3. strcpy(mem, p, w) = m
  BY <1>1 DEF strcpy
<1> HIDE DEF cell, n
<1>4. m \in Memory /\ Len(m) = n
  BY <1>1, <1>2 DEF Memory
<1>5. \A k \in 1 .. n : m[k] = cell(k)
  OBVIOUS
<1> HIDE DEF m
<1> QED BY <1>3, <1>4, <1>5 DEF n, cell

LEMMA Copied ==
  ASSUME NEW mem \in Memory, NEW p \in Nat, 1 <= p, NEW w \in Seq(Char),
         p + Len(w) <= Len(mem)
  PROVE  /\ Holds(strcpy(mem, p, w), p, w)
         /\ \A k \in 1 .. Len(mem) : k < p \/ k > p + Len(w) => strcpy(mem, p, w)[k] = mem[k]
<1> DEFINE m == strcpy(mem, p, w)
<1>1. Len(mem) \in Nat /\ Len(w) \in Nat
  BY DEF Memory
<1>2. /\ m \in Memory /\ Len(m) = Len(mem)
      /\ \A k \in 1 .. Len(mem) : m[k] =
           IF k \in p .. p + Len(w) - 1 THEN w[k - p + 1]
           ELSE IF k = p + Len(w) THEN NUL ELSE mem[k]
  BY CopiedCells
<1> HIDE DEF m
<1>3. ASSUME NEW k \in 1 .. Len(w) PROVE m[p + k - 1] = w[k]
  <2>1. p + k - 1 \in 1 .. Len(mem) /\ p + k - 1 \in p .. p + Len(w) - 1 /\ (p + k - 1) - p + 1 = k
    BY <1>1
  <2> QED BY <1>2, <2>1
<1>4. m[p + Len(w)] = NUL
  <2>1. p + Len(w) \in 1 .. Len(mem) /\ p + Len(w) \notin p .. p + Len(w) - 1
    BY <1>1
  <2> QED BY <1>2, <2>1
<1>5. ASSUME NEW k \in 1 .. Len(mem), k < p \/ k > p + Len(w) PROVE m[k] = mem[k]
  <2>1. k \notin p .. p + Len(w) - 1 /\ k # p + Len(w)
    BY <1>1, <1>5
  <2> QED BY <1>2, <2>1
<1>6. Holds(m, p, w)
  BY <1>1, <1>2, <1>3, <1>4 DEF Holds
<1> QED BY <1>5, <1>6 DEF m

\* What was written stands behind what was there.
LEMMA Extended ==
  ASSUME NEW mem \in Memory, NEW p, NEW w, Holds(mem, p, w), NEW v \in Seq(Char),
         p + Len(w) + Len(v) <= Len(mem)
  PROVE  /\ strcat(mem, p, v) \in Memory /\ Len(strcat(mem, p, v)) = Len(mem)
         /\ Holds(strcat(mem, p, v), p, w \o v)
<1> DEFINE q == p + Len(w)
           m == strcpy(mem, q, v)
<1>1. /\ Len(mem) \in Nat /\ Len(w) \in Nat /\ p \in Nat /\ 1 <= p /\ q <= Len(mem)
      /\ w \in Seq(Char) /\ \A k \in 1 .. Len(w) : mem[p + k - 1] = w[k]
  BY HeldCells
<1>2. Len(v) \in Nat
  OBVIOUS
<1>3. strcat(mem, p, v) = m
  BY StringHeld DEF strcat
<1>4. q \in Nat /\ 1 <= q /\ q + Len(v) <= Len(mem)
  BY <1>1, <1>2
<1> HIDE DEF q
<1>5. m \in Memory /\ Len(m) = Len(mem)
  BY <1>4, CopiedCells
<1>6. Holds(m, q, v) /\ \A k \in 1 .. Len(mem) : k < q => m[k] = mem[k]
  BY <1>4, Copied
<1> HIDE DEF m
<1>7. /\ \A k \in 1 .. Len(v) : m[q + k - 1] = v[k]
      /\ m[q + Len(v)] = NUL
  BY <1>6 DEF Holds
<1>8. /\ w \o v \in Seq(Char) /\ Len(w \o v) = Len(w) + Len(v)
      /\ \A k \in 1 .. Len(w) + Len(v) : (w \o v)[k] = IF k <= Len(w) THEN w[k] ELSE v[k - Len(w)]
  BY <1>1, ConcatProperties
<1>9. ASSUME NEW k \in 1 .. Len(w) + Len(v) PROVE m[p + k - 1] = (w \o v)[k]
  <2>1. CASE k <= Len(w)
    <3>1. p + k - 1 \in 1 .. Len(mem) /\ p + k - 1 < q /\ k \in 1 .. Len(w)
      BY <1>1, <1>2, <2>1 DEF q
    <3> QED BY <1>1, <1>6, <1>8, <2>1, <3>1
  <2>2. CASE k > Len(w)
    <3>1. k - Len(w) \in 1 .. Len(v) /\ q + (k - Len(w)) - 1 = p + k - 1 /\ ~(k <= Len(w))
      BY <1>1, <1>2, <2>2 DEF q
    <3> QED BY <1>7, <1>8, <3>1
  <2> QED BY <1>1, <1>2, <2>1, <2>2
<1>10. q + Len(v) = p + Len(w \o v)
  BY <1>1, <1>2, <1>8 DEF q
<1>11. Holds(m, p, w \o v)
  BY <1>1, <1>4, <1>5, <1>7, <1>8, <1>9, <1>10 DEF Holds
<1> QED BY <1>3, <1>5, <1>11

LEMMA ReverseCells ==
  ASSUME NEW T, NEW w \in Seq(T)
  PROVE  /\ Reverse(w) \in Seq(T) /\ Len(Reverse(w)) = Len(w)
         /\ \A k \in 1 .. Len(w) : Reverse(w)[k] = w[(Len(w) - k) + 1]
<1> DEFINE n == Len(w)
           cell(k) == w[(n - k) + 1]
<1>1. n \in Nat
  OBVIOUS
<1>2. \A k \in 1 .. n : cell(k) \in T
  <2>1. \A k \in 1 .. n : (n - k) + 1 \in 1 .. n
    BY <1>1
  <2> QED BY <2>1, ElementOfSeq
<1>3. Reverse(w) = [k \in 1 .. n |-> cell(k)]
  BY DEF Reverse
<1> HIDE DEF n, cell
<1>4. [k \in 1 .. n |-> cell(k)] \in Seq(T) /\ Len([k \in 1 .. n |-> cell(k)]) = n
  BY <1>1, <1>2
<1> QED BY <1>3, <1>4 DEF n, cell

LEMMA Reversed ==
  ASSUME NEW mem \in Memory, NEW p, NEW w, Holds(mem, p, w)
  PROVE  /\ reverse(mem, p) \in Memory /\ Len(reverse(mem, p)) = Len(mem)
         /\ Holds(reverse(mem, p), p, Reverse(w))
         /\ \A k \in 1 .. Len(mem) : k < p \/ k > p + Len(w) => reverse(mem, p)[k] = mem[k]
<1>1. reverse(mem, p) = strcpy(mem, p, Reverse(w))
  BY StringHeld DEF reverse
<1>2. /\ p \in Nat /\ 1 <= p /\ p + Len(w) <= Len(mem) /\ w \in Seq(Char)
  BY HeldCells
<1>3. Reverse(w) \in Seq(Char) /\ Len(Reverse(w)) = Len(w)
  BY <1>2, ReverseCells
<1> DEFINE v == Reverse(w)
<1>4. v \in Seq(Char) /\ Len(v) = Len(w) /\ p + Len(v) <= Len(mem)
  BY <1>2, <1>3
<1> HIDE DEF v
<1>5. strcpy(mem, p, v) \in Memory /\ Len(strcpy(mem, p, v)) = Len(mem)
  BY <1>2, <1>4, CopiedCells
<1>6. /\ Holds(strcpy(mem, p, v), p, v)
      /\ \A k \in 1 .. Len(mem) : k < p \/ k > p + Len(w) => strcpy(mem, p, v)[k] = mem[k]
  BY <1>2, <1>4, Copied
<1> QED BY <1>1, <1>5, <1>6 DEF v

\* A piece of a sequence.
LEMMA Piece ==
  ASSUME NEW T, NEW w \in Seq(T), NEW a \in Nat, NEW b \in Nat, 1 <= a, b <= Len(w), a <= b + 1
  PROVE  /\ SubSeq(w, a, b) \in Seq(T) /\ Len(SubSeq(w, a, b)) = (b - a) + 1
         /\ \A k \in 1 .. (b - a) + 1 : SubSeq(w, a, b)[k] = w[a + k - 1]
<1>1. Len(w) \in Nat
  OBVIOUS
<1>2. \A k \in a .. b : w[k] \in T
  <2>1. \A k \in a .. b : k \in 1 .. Len(w)
    BY <1>1
  <2> QED BY <2>1, ElementOfSeq
<1>3. /\ SubSeq(w, a, b) \in Seq(T) /\ Len(SubSeq(w, a, b)) = (IF a <= b THEN b - a + 1 ELSE 0)
      /\ \A k \in 1 .. b - a + 1 : SubSeq(w, a, b)[k] = w[a + k - 1]
  <2>1. a \in Int /\ b \in Int
    OBVIOUS
  <2> QED BY <1>2, <2>1, SubSeqProperties
<1>4. Len(SubSeq(w, a, b)) = (b - a) + 1
  BY <1>3
<1>5. 1 .. (b - a) + 1 = 1 .. b - a + 1
  OBVIOUS
<1> QED BY <1>3, <1>4, <1>5

\* Where a delimiter is found first.
LEMMA FirstFound ==
  ASSUME NEW w \in Seq(Char), NEW d, strchr(w, d) # {}
  PROVE  /\ Min(strchr(w, d)) \in 1 .. Len(w) /\ w[Min(strchr(w, d))] \in d
         /\ \A k \in 1 .. Len(w) : k < Min(strchr(w, d)) => w[k] \notin d
<1> DEFINE S == strchr(w, d)
<1>1. S = {k \in 1 .. Len(w) : w[k] \in d} /\ Len(w) \in Nat
  BY LenProperties DEF strchr
<1>2. S \in SUBSET Nat /\ S # {}
  BY <1>1
<1>3. Min(S) \in S /\ \A k \in S : Min(S) <= k
  <2> HIDE DEF S
  <2> QED BY <1>2, MinIn
<1> HIDE DEF S
<1>4. \A k \in 1 .. Len(w) : k < Min(S) => k \notin S
  BY <1>1, <1>3
<1> QED BY <1>1, <1>3, <1>4 DEF S

\* strsep leaves the token at its address and what is left behind it.
LEMMA TokenCut ==
  ASSUME NEW mem \in Memory, NEW p, NEW w, Holds(mem, p, w), NEW d, strchr(w, d) # {}
  PROVE  LET c == strsep(mem, p, d)
             m == Min(strchr(w, d))
         IN  /\ c.mem \in Memory /\ Len(c.mem) = Len(mem) /\ c.rest = p + m
             /\ \A j \in 1 .. Len(mem) : c.mem[j] = IF j = p + m - 1 THEN NUL ELSE mem[j]
             /\ Holds(c.mem, p, SubSeq(w, 1, m - 1))
             /\ Holds(c.mem, c.rest, SubSeq(w, m + 1, Len(w)))
<1> DEFINE m == Min(strchr(w, d))
           x == [mem EXCEPT ![p + m - 1] = NUL]
<1>1. /\ Len(mem) \in Nat /\ Len(w) \in Nat /\ p \in Nat /\ 1 <= p /\ p + Len(w) <= Len(mem)
      /\ w \in Seq(Char) /\ \A k \in 1 .. Len(w) : mem[p + k - 1] = w[k]
      /\ mem[p + Len(w)] = NUL
  BY HeldCells
<1>2. m \in 1 .. Len(w)
  BY <1>1, FirstFound
<1>3. strsep(mem, p, d).mem = x /\ strsep(mem, p, d).rest = p + m
  <2>1. p # NULL
    BY <1>1 DEF NULL
  <2> QED BY <2>1, StringHeld DEF strsep
<1> HIDE DEF m
<1>4. p + m - 1 \in 1 .. Len(mem) /\ NUL \in Char \cup {NUL}
  BY <1>1, <1>2
<1>5. x \in Memory /\ Len(x) = Len(mem)
      /\ \A k \in 1 .. Len(mem) : x[k] = IF k = p + m - 1 THEN NUL ELSE mem[k]
  BY <1>4, ExceptSeq DEF Memory
<1> HIDE DEF x
<1> DEFINE u == SubSeq(w, 1, m - 1)
           v == SubSeq(w, m + 1, Len(w))
<1>6. /\ u \in Seq(Char) /\ Len(u) = m - 1 /\ \A k \in 1 .. m - 1 : u[k] = w[k]
  <2>1. 1 \in Nat /\ m - 1 \in Nat /\ m - 1 <= Len(w) /\ 1 <= (m - 1) + 1 /\ ((m - 1) - 1) + 1 = m - 1
    BY <1>1, <1>2
  <2>2. /\ u \in Seq(Char) /\ Len(u) = ((m - 1) - 1) + 1
        /\ \A k \in 1 .. ((m - 1) - 1) + 1 : u[k] = w[1 + k - 1]
    BY <1>1, <2>1, Piece
  <2>3. \A k \in 1 .. m - 1 : 1 + k - 1 = k
    BY <1>2
  <2> HIDE DEF u
  <2> QED BY <2>1, <2>2, <2>3
<1>7. /\ v \in Seq(Char) /\ Len(v) = Len(w) - m /\ \A k \in 1 .. Len(w) - m : v[k] = w[m + k]
  <2>1. m + 1 \in Nat /\ 1 <= m + 1 /\ m + 1 <= Len(w) + 1 /\ (Len(w) - (m + 1)) + 1 = Len(w) - m
    BY <1>1, <1>2
  <2>2. /\ v \in Seq(Char) /\ Len(v) = (Len(w) - (m + 1)) + 1
        /\ \A k \in 1 .. (Len(w) - (m + 1)) + 1 : v[k] = w[(m + 1) + k - 1]
    BY <1>1, <2>1, Piece
  <2>3. \A k \in 1 .. Len(w) - m : (m + 1) + k - 1 = m + k
    BY <1>1, <1>2
  <2> HIDE DEF v
  <2> QED BY <2>1, <2>2, <2>3
<1> HIDE DEF u, v
<1>8. Holds(x, p, u)
  <2>1. ASSUME NEW k \in 1 .. m - 1 PROVE x[p + k - 1] = u[k]
    <3>1. p + k - 1 \in 1 .. Len(mem) /\ p + k - 1 # p + m - 1 /\ k \in 1 .. Len(w)
      BY <1>1, <1>2
    <3> QED BY <1>1, <1>5, <1>6, <3>1
  <2>2. p + (m - 1) = p + m - 1 /\ p + (m - 1) <= Len(mem)
    BY <1>1, <1>2
  <2> QED BY <1>1, <1>4, <1>5, <1>6, <2>1, <2>2 DEF Holds
<1>9. Holds(x, p + m, v)
  <2>1. ASSUME NEW k \in 1 .. Len(w) - m PROVE x[p + m + k - 1] = v[k]
    <3>1. p + m + k - 1 = p + (m + k) - 1 /\ p + m + k - 1 \in 1 .. Len(mem) /\ p + m + k - 1 # p + m - 1
          /\ m + k \in 1 .. Len(w)
      BY <1>1, <1>2
    <3> QED BY <1>1, <1>5, <1>7, <3>1
  <2>2. p + m \in Nat \ {0} /\ p + m + Len(v) = p + Len(w) /\ p + Len(w) \in 1 .. Len(mem) /\ p + Len(w) # p + m - 1
    BY <1>1, <1>2, <1>7
  <2>3. x[p + m + Len(v)] = NUL
    BY <1>1, <1>5, <2>2
  <2> QED BY <1>1, <1>5, <1>7, <2>1, <2>2, <2>3 DEF Holds
<1> QED BY <1>3, <1>5, <1>8, <1>9 DEF m, x, u, v

-----------------------------------------------------------------------------
(* Words of a line.                                                        *)

Blank == " "
Blanks == {" "}

\* Where a word of the line ends: at the blank in front of the next one.
WordEnd(line, left, k) == IF k = Len(left) THEN Len(line) + 1 ELSE left[k + 1] - 1

BlanksBefore(line, n) == Cardinality({j \in strchr(line, Blanks) : j < n})

\* A word of the line is at left[k], behind as many blanks as there are words.
WordAt(mem, line, left, k) ==
  /\ 1 <= left[k] /\ left[k] <= Len(line) + 1
  /\ BlanksBefore(line, left[k]) = k - 1
  /\ k # 1 => line[left[k] - 1] = Blank
  /\ mem[WordEnd(line, left, k)] = NUL
  /\ \A j \in left[k] .. WordEnd(line, left, k) - 1 : mem[j] = line[j]

\* The words at the addresses `left` are cut off the line.
CutAt(mem, line, left) ==
  /\ left \in Seq(Nat) /\ left # <<>> /\ left[1] = 1 /\ Len(mem) = Len(line) + 1
  /\ \A a, b \in 1 .. Len(left) : a < b => left[a] < left[b]
  /\ \A k \in 1 .. Len(left) : WordAt(mem, line, left, k)

LEMMA BlanksOf ==
  ASSUME NEW line \in Seq(Char)
  PROVE  /\ strchr(line, Blanks) = {j \in 1 .. Len(line) : line[j] = Blank}
         /\ \A n \in Nat : IsFiniteSet({j \in strchr(line, Blanks) : j < n})
<1>1. strchr(line, Blanks) = {j \in 1 .. Len(line) : line[j] = Blank} /\ Len(line) \in Nat
  <2>1. strchr(line, Blanks) = {j \in 1 .. Len(line) : line[j] \in Blanks} /\ Len(line) \in Nat
    BY LenProperties DEF strchr
  <2>2. \A x : x \in Blanks <=> x = Blank
    BY DEF Blanks, Blank
  <2> QED BY <2>1, <2>2
<1>2. ASSUME NEW n \in Nat PROVE IsFiniteSet({j \in strchr(line, Blanks) : j < n})
  <2>1. IsFiniteSet(1 .. Len(line))
    <3>1. 1 \in Int /\ Len(line) \in Int
      BY <1>1
    <3> QED BY <3>1, FS_Interval
  <2>2. {j \in strchr(line, Blanks) : j < n} \subseteq 1 .. Len(line)
    BY <1>1
  <2> QED BY <2>1, <2>2, FS_Subset
<1> QED BY <1>1, <1>2

\* Behind one more blank there is one more before it.
LEMMA BlanksCounted ==
  ASSUME NEW line \in Seq(Char)
  PROVE  /\ BlanksBefore(line, 1) = 0 /\ \A n \in Nat : BlanksBefore(line, n) \in Nat
         /\ \A p, q \in Nat :
              /\ 1 <= p /\ p < q /\ q <= Len(line) + 1 /\ line[q - 1] = Blank
              /\ \A j \in p .. q - 2 : line[j] # Blank
              => BlanksBefore(line, q) = BlanksBefore(line, p) + 1
<1> DEFINE at == strchr(line, Blanks)
<1>1. Len(line) \in Nat
  OBVIOUS
<1>2. at = {j \in 1 .. Len(line) : line[j] = Blank}
      /\ \A n \in Nat : IsFiniteSet({j \in at : j < n})
  BY BlanksOf
<1>3. \A n : BlanksBefore(line, n) = Cardinality({j \in at : j < n})
  BY DEF BlanksBefore
<1> HIDE DEF at
<1>4. BlanksBefore(line, 1) = 0
  <2>1. {j \in at : j < 1} = {}
    BY <1>1, <1>2
  <2> QED BY <1>3, <2>1, FS_EmptySet
<1>5. ASSUME NEW p \in Nat, NEW q \in Nat, 1 <= p, p < q, q <= Len(line) + 1, line[q - 1] = Blank,
             \A j \in p .. q - 2 : line[j] # Blank
      PROVE  BlanksBefore(line, q) = BlanksBefore(line, p) + 1
  <2>1. ASSUME NEW j \in at, j < q PROVE j < p \/ j = q - 1
    <3>1. j \in Nat /\ line[j] = Blank /\ (j >= p /\ j # q - 1 => j \in p .. q - 2)
      BY <1>1, <1>2, <1>5, <2>1
    <3> QED BY <1>5, <3>1
  <2>2. q - 1 \in at /\ q - 1 < q /\ ~(q - 1 < p) /\ \A j \in at : j \in Nat /\ (j < p => j < q)
    BY <1>1, <1>2, <1>5
  <2> DEFINE P == {j \in at : j < p}
             Q == {j \in at : j < q}
  <2>3. Q = P \cup {q - 1} /\ q - 1 \notin P
    BY <2>1, <2>2
  <2>4. IsFiniteSet(P)
    BY <1>2
  <2> HIDE DEF P, Q
  <2>5. Cardinality(Q) = Cardinality(P) + 1
    BY <2>3, <2>4, FS_AddElement
  <2> QED BY <1>3, <2>5 DEF P, Q
<1>6. ASSUME NEW n \in Nat PROVE BlanksBefore(line, n) \in Nat
  BY <1>2, <1>3, FS_CardinalityType
<1> QED BY <1>4, <1>5, <1>6

LEMMA CutNumbers ==
  ASSUME NEW mem, NEW line \in Seq(Char), NEW left, CutAt(mem, line, left)
  PROVE  /\ left \in Seq(Nat) /\ Len(left) \in Nat /\ Len(left) >= 1 /\ left[1] = 1
         /\ Len(line) \in Nat /\ Len(mem) = Len(line) + 1
         /\ \A k \in 1 .. Len(left) : left[k] \in Nat /\ 1 <= left[k] /\ left[k] <= Len(line) + 1
         /\ \A a, b \in 1 .. Len(left) : a < b => left[a] < left[b]
<1>1. left \in Seq(Nat) /\ left # <<>> /\ left[1] = 1 /\ Len(mem) = Len(line) + 1
  BY DEF CutAt
<1>2. Len(left) \in Nat /\ Len(left) # 0 /\ Len(line) \in Nat
  BY <1>1, EmptySeq
<1>3. \A k \in 1 .. Len(left) : left[k] \in Nat
  BY <1>1, ElementOfSeq
<1>4. \A k \in 1 .. Len(left) : 1 <= left[k] /\ left[k] <= Len(line) + 1
  BY DEF CutAt, WordAt
<1>5. \A a, b \in 1 .. Len(left) : a < b => left[a] < left[b]
  BY DEF CutAt
<1> QED BY <1>1, <1>2, <1>3, <1>4, <1>5

\* A line that is just typed is one word.
LEMMA NotCutYet ==
  ASSUME NEW line \in Seq(Char)
  PROVE  Append(line, NUL) \in Memory /\ CutAt(Append(line, NUL), line, <<1>>)
<1> DEFINE mem == Append(line, NUL)
           left == <<1>>
<1>1. /\ mem \in Memory /\ Len(mem) = Len(line) + 1 /\ Len(line) \in Nat
      /\ mem[Len(line) + 1] = NUL /\ \A j \in 1 .. Len(line) : mem[j] = line[j]
  BY Characters, AppendProperties DEF Memory
<1> HIDE DEF mem
<1>2. left \in Seq(Nat) /\ left # <<>> /\ Len(left) = 1 /\ left[1] = 1
  OBVIOUS
<1> HIDE DEF left
<1>3. ASSUME NEW k \in 1 .. Len(left) PROVE WordAt(mem, line, left, k)
  <2>1. k = 1
    BY <1>2
  <2>2. WordEnd(line, left, 1) = Len(line) + 1
    BY <1>2 DEF WordEnd
  <2>3. BlanksBefore(line, left[1]) = 1 - 1
    <3>1. BlanksBefore(line, 1) = 0
      BY BlanksCounted
    <3> QED BY <1>2, <3>1
  <2>4. 1 <= Len(line) + 1 /\ mem[Len(line) + 1] = NUL /\ \A j \in 1 .. (Len(line) + 1) - 1 : mem[j] = line[j]
    BY <1>1
  <2> QED BY <1>2, <2>1, <2>2, <2>3, <2>4 DEF WordAt
<1>4. \A a, b \in 1 .. Len(left) : a < b => left[a] < left[b]
  BY <1>2
<1>5. CutAt(mem, line, left)
  BY <1>1, <1>2, <1>3, <1>4 DEF CutAt
<1> QED BY <1>1, <1>5 DEF mem, left

\* The words can be read at their addresses.
LEMMA WordsThere ==
  ASSUME NEW mem \in Memory, NEW line \in Seq(Char), NEW left, CutAt(mem, line, left),
         NEW k \in 1 .. Len(left)
  PROVE  LET e == WordEnd(line, left, k)
         IN  /\ e \in Nat /\ left[k] <= e /\ e <= Len(line) + 1
             /\ Holds(mem, left[k], SubSeq(line, left[k], e - 1))
             /\ string(mem, left[k]) = SubSeq(line, left[k], e - 1)
<1> DEFINE e == WordEnd(line, left, k)
           a == left[k]
           w == SubSeq(line, a, e - 1)
<1>1. /\ Len(left) \in Nat /\ Len(line) \in Nat /\ Len(mem) = Len(line) + 1
      /\ \A n \in 1 .. Len(left) : left[n] \in Nat
  BY CutNumbers
<1>2. a \in Nat /\ 1 <= a /\ a <= Len(line) + 1 /\ mem[e] = NUL
      /\ \A j \in a .. e - 1 : mem[j] = line[j]
  <2>1. WordAt(mem, line, left, k)
    BY DEF CutAt
  <2> QED BY <1>1, <2>1 DEF WordAt
<1>3. e \in Nat /\ a <= e /\ e <= Len(line) + 1
  <2>1. CASE k = Len(left)
    BY <1>1, <1>2, <2>1 DEF WordEnd
  <2>2. CASE k # Len(left)
    <3>1. k + 1 \in 1 .. Len(left) /\ k < k + 1
      BY <1>1, <2>2
    <3>2. left[k] < left[k + 1] /\ left[k + 1] <= Len(line) + 1 /\ left[k + 1] \in Nat
      BY <3>1, CutNumbers
    <3> QED BY <1>1, <1>2, <2>2, <3>2 DEF WordEnd
  <2> QED BY <2>1, <2>2
<1> HIDE DEF e, a
<1>4. /\ w \in Seq(Char) /\ Len(w) = ((e - 1) - a) + 1
      /\ \A j \in 1 .. ((e - 1) - a) + 1 : w[j] = line[a + j - 1]
  <2>1. e - 1 \in Nat /\ e - 1 <= Len(line) /\ a <= (e - 1) + 1
    BY <1>1, <1>2, <1>3
  <2> QED BY <1>2, <2>1, Piece
<1> HIDE DEF w
<1>5. ((e - 1) - a) + 1 = e - a /\ a + (e - a) = e
  BY <1>2, <1>3
<1>6. ASSUME NEW j \in 1 .. Len(w) PROVE mem[a + j - 1] = w[j]
  <2>1. a + j - 1 \in a .. e - 1
    BY <1>2, <1>3, <1>4, <1>5
  <2> QED BY <1>2, <1>4, <2>1
<1>7. Holds(mem, a, w)
  BY <1>1, <1>2, <1>3, <1>4, <1>5, <1>6 DEF Holds
<1>8. string(mem, a) = w
  BY <1>7, StringHeld
<1> QED BY <1>3, <1>7, <1>8 DEF e, a, w

\* One more NUL, behind the last word, cuts that word in two.
LEMMA InWord ==
  ASSUME NEW l \in Nat, NEW p \in Nat, NEW q \in Nat, NEW e \in Nat,
         1 <= p, e < q, q <= l + 1, NEW j \in p .. e - 1
  PROVE  j \in p .. l /\ j \in 1 .. l + 1 /\ j # q - 1
OBVIOUS

LEMMA BeforeLast ==
  ASSUME NEW n \in Nat, NEW k \in 1 .. n + 1, k # n + 1, k # n
  PROVE  k \in 1 .. n /\ k + 1 \in 1 .. n /\ k < k + 1
OBVIOUS

IndexOf(l, p, m, j) ==
  (j - p) + 1 \in 1 .. (l - p) + 1 /\ (j - p) + 1 < m /\ p + ((j - p) + 1) - 1 = j

LEMMA InPiece ==
  ASSUME NEW l \in Nat, NEW p \in Nat, NEW m \in Nat, m <= (l - p) + 1,
         NEW r, r = (p + m) - 2, NEW j \in p .. r
  PROVE  IndexOf(l, p, m, j)
BY DEF IndexOf

LEMMA CutCells ==
  ASSUME NEW mem, NEW line \in Seq(Char), NEW left, CutAt(mem, line, left),
         NEW q \in Nat, left[Len(left)] < q, q <= Len(line) + 1, line[q - 1] = Blank,
         \A j \in left[Len(left)] .. q - 2 : line[j] # Blank,
         NEW x, Len(x) = Len(mem),
         \A j \in 1 .. Len(mem) : x[j] = IF j = q - 1 THEN NUL ELSE mem[j]
  PROVE  CutAt(x, line, Append(left, q))
<1>1. PICK n, p : n = Len(left) /\ p = left[Len(left)]
  OBVIOUS
<1>2. /\ n \in Nat /\ n >= 1 /\ n \in 1 .. n /\ Len(line) \in Nat /\ Len(mem) = Len(line) + 1
      /\ \A k \in 1 .. n : left[k] \in Nat /\ 1 <= left[k] /\ left[k] <= Len(line) + 1
      /\ \A a, b \in 1 .. n : a < b => left[a] < left[b]
      /\ left[1] = 1 /\ left \in Seq(Nat)
  <2>1. /\ left \in Seq(Nat) /\ Len(left) \in Nat /\ Len(left) >= 1 /\ left[1] = 1
        /\ Len(line) \in Nat /\ Len(mem) = Len(line) + 1
        /\ \A k \in 1 .. Len(left) : left[k] \in Nat /\ 1 <= left[k] /\ left[k] <= Len(line) + 1
        /\ \A a, b \in 1 .. Len(left) : a < b => left[a] < left[b]
    BY CutNumbers
  <2>2. \A k \in Nat : k >= 1 => k \in 1 .. k
    OBVIOUS
  <2> QED BY <1>1, <2>1, <2>2
<1>3. p \in Nat /\ 1 <= p /\ p <= Len(line) + 1 /\ p = left[n] /\ p < q /\ q - 1 \in 1 .. Len(line)
  BY <1>1, <1>2
<1>4. \A k \in 1 .. n : WordAt(mem, line, left, k)
  BY <1>1 DEF CutAt
<1>5. PICK tt : tt = Append(left, q)
  OBVIOUS
<1>6. /\ tt \in Seq(Nat) /\ Len(tt) = n + 1 /\ tt[n + 1] = q /\ \A k \in 1 .. n : tt[k] = left[k]
  BY <1>1, <1>2, <1>5, AppendProperties
<1>7. tt # <<>> /\ tt[1] = 1
  <2>1. Len(tt) # 0 /\ 1 \in 1 .. n
    BY <1>2, <1>6
  <2> QED BY <1>2, <1>6, <2>1
<1>8. \A a \in 1 .. n : left[a] <= p
  <2>1. \A a \in 1 .. n : a = n \/ a < n
    BY <1>2
  <2> QED BY <1>2, <1>3, <2>1
<1>9. ASSUME NEW a \in 1 .. n + 1, NEW b \in 1 .. n + 1, a < b PROVE tt[a] < tt[b]
  <2>1. CASE b = n + 1
    <3>1. a \in 1 .. n
      BY <1>2, <1>9, <2>1
    <3> QED BY <1>2, <1>3, <1>6, <1>8, <2>1, <3>1
  <2>2. CASE b # n + 1
    <3>1. a \in 1 .. n /\ b \in 1 .. n
      BY <1>2, <1>9, <2>2
    <3> QED BY <1>2, <1>6, <1>9, <3>1
  <2> QED BY <2>1, <2>2
<1>10. BlanksBefore(line, p) = n - 1 /\ BlanksBefore(line, q) = (n + 1) - 1
  <2>1. BlanksBefore(line, p) = n - 1
    BY <1>2, <1>3, <1>4 DEF WordAt
  <2>2. BlanksBefore(line, q) = BlanksBefore(line, p) + 1
    <3>1. left[Len(left)] = p
      BY <1>1
    <3>2. \A j \in p .. q - 2 : line[j] # Blank
      BY <3>1
    <3> QED BY <1>3, <3>2, BlanksCounted
  <2> QED BY <1>2, <2>1, <2>2
<1>11. \A j \in 1 .. Len(mem) : j # q - 1 => x[j] = mem[j]
  OBVIOUS
<1>12. x[q - 1] = NUL
  BY <1>2, <1>3
<1>13. mem[Len(line) + 1] = NUL /\ \A j \in p .. Len(line) : mem[j] = line[j]
  <2>1. WordAt(mem, line, left, n) /\ WordEnd(line, left, n) = Len(line) + 1
    BY <1>1, <1>2, <1>4 DEF WordEnd
  <2>2. \A j \in p .. Len(line) : j \in p .. (Len(line) + 1) - 1
    BY <1>2
  <2> QED BY <1>3, <2>1, <2>2 DEF WordAt
<1>14. ASSUME NEW k \in 1 .. n + 1 PROVE WordAt(x, line, tt, k)
  <2>1. CASE k = n + 1
    <3>1. tt[k] = q /\ WordEnd(line, tt, k) = Len(line) + 1
      BY <1>6, <2>1 DEF WordEnd
    <3>2. x[Len(line) + 1] = NUL
      <4>1. Len(line) + 1 \in 1 .. Len(mem) /\ Len(line) + 1 # q - 1
        BY <1>2, <1>3
      <4> QED BY <1>11, <1>13, <4>1
    <3>3. ASSUME NEW j \in q .. (Len(line) + 1) - 1 PROVE x[j] = line[j]
      <4>1. j \in p .. Len(line) /\ j \in 1 .. Len(mem) /\ j # q - 1
        BY <1>2, <1>3
      <4> QED BY <1>11, <1>13, <4>1
    <3>4. 1 <= q
      BY <1>3
    <3> QED BY <1>10, <2>1, <3>1, <3>2, <3>3, <3>4 DEF WordAt
  <2>2. CASE k = n
    <3>1. tt[k] = p /\ WordEnd(line, tt, k) = q - 1
      BY <1>2, <1>3, <1>6, <2>2 DEF WordEnd
    <3>2. BlanksBefore(line, p) = k - 1 /\ (k # 1 => line[p - 1] = Blank)
      BY <1>2, <1>3, <1>4, <2>2 DEF WordAt
    <3>3. ASSUME NEW j \in p .. (q - 1) - 1 PROVE x[j] = line[j]
      <4>1. PICK l, e : l = Len(line) /\ e = q - 1
        OBVIOUS
      <4>2. l \in Nat /\ p \in Nat /\ e \in Nat /\ 1 <= p /\ e < q /\ q <= l + 1 /\ Len(mem) = l + 1
        BY <1>2, <1>3, <4>1
      <4>3. j \in p .. l /\ j \in 1 .. l + 1 /\ j # q - 1
        BY <4>1, <4>2, InWord
      <4> QED BY <1>11, <1>13, <4>1, <4>2, <4>3
    <3> QED BY <1>3, <1>12, <3>1, <3>2, <3>3 DEF WordAt
  <2>3. CASE k # n + 1 /\ k # n
    <3>1. k \in 1 .. n /\ k + 1 \in 1 .. n /\ k < k + 1
      BY <1>2, <2>3, BeforeLast
    <3>2. PICK e : e = left[k + 1] - 1
      OBVIOUS
    <3>3. tt[k] = left[k] /\ WordEnd(line, tt, k) = e /\ WordEnd(line, left, k) = e
      BY <1>1, <1>2, <1>6, <2>3, <3>1, <3>2 DEF WordEnd
    <3>4. /\ 1 <= left[k] /\ left[k] <= Len(line) + 1
          /\ BlanksBefore(line, left[k]) = k - 1
          /\ k # 1 => line[left[k] - 1] = Blank
          /\ mem[e] = NUL
          /\ \A j \in left[k] .. e - 1 : mem[j] = line[j]
      <4>1. WordAt(mem, line, left, k)
        BY <1>4, <3>1
      <4> QED BY <3>3, <4>1 DEF WordAt
    <3>5. e \in Nat /\ 1 <= e /\ e < p /\ left[k] \in Nat /\ e <= Len(line)
      <4>1. left[k + 1] <= p /\ left[k + 1] \in Nat /\ left[k] < left[k + 1] /\ left[k] \in Nat
            /\ left[k + 1] <= Len(line) + 1 /\ 1 <= left[k]
        BY <1>2, <1>8, <3>1
      <4>2. PICK r, l : r = left[k + 1] /\ l = left[k]
        OBVIOUS
      <4>3. r <= p /\ r \in Nat /\ l < r /\ l \in Nat /\ r <= Len(line) + 1 /\ 1 <= l /\ e = r - 1
        BY <3>2, <4>1, <4>2
      <4>4. e \in Nat /\ 1 <= e /\ e < p /\ e <= Len(line)
        BY <1>2, <1>3, <4>3
      <4> QED BY <4>1, <4>4
    <3>6. x[e] = NUL
      <4>1. e \in 1 .. Len(mem) /\ e # q - 1
        BY <1>2, <1>3, <3>5
      <4> QED BY <1>11, <3>4, <4>1
    <3>7. ASSUME NEW j \in left[k] .. e - 1 PROVE x[j] = line[j]
      <4>1. PICK l, a : l = Len(line) /\ a = left[k]
        OBVIOUS
      <4>2. /\ l \in Nat /\ a \in Nat /\ e \in Nat /\ 1 <= a /\ e < q /\ q <= l + 1
            /\ Len(mem) = l + 1 /\ j \in a .. e - 1
        BY <1>2, <1>3, <3>4, <3>5, <4>1
      <4>3. j \in 1 .. Len(mem) /\ j # q - 1
        BY <4>2, InWord
      <4> QED BY <1>11, <3>4, <4>3
    <3> QED BY <3>3, <3>4, <3>6, <3>7 DEF WordAt
  <2> QED BY <2>1, <2>2, <2>3
<1>15. CutAt(x, line, tt)
  BY <1>2, <1>6, <1>7, <1>9, <1>14 DEF CutAt
<1> QED BY <1>5, <1>15

\* strsep cuts the next word off.
LEMMA CutMore ==
  ASSUME NEW mem \in Memory, NEW line \in Seq(Char), NEW left, CutAt(mem, line, left),
         NEW p, p = left[Len(left)], strchr(string(mem, p), Blanks) # {},
         NEW c, c = strsep(mem, p, Blanks)
  PROVE  /\ c.mem \in Memory /\ c.rest \in Nat \ {0}
         /\ CutAt(c.mem, line, Append(left, c.rest))
         /\ Len(c.mem) = Len(mem)
         /\ \A j \in 1 .. Len(mem) : j < p => c.mem[j] = mem[j]
<1>1. PICK n, w : n = Len(left) /\ w = string(mem, p)
  OBVIOUS
<1>2. /\ n \in Nat /\ n >= 1 /\ n \in 1 .. n /\ Len(line) \in Nat /\ Len(mem) = Len(line) + 1
      /\ p \in Nat /\ 1 <= p /\ p <= Len(line) + 1 /\ p = left[n]
  BY <1>1, CutNumbers
<1>3. WordEnd(line, left, n) = Len(line) + 1 /\ (Len(line) + 1) - 1 = Len(line)
  BY <1>1, <1>2 DEF WordEnd
<1>4. Holds(mem, p, w) /\ w = SubSeq(line, p, Len(line))
  <2>1. Holds(mem, p, SubSeq(line, p, Len(line))) /\ string(mem, p) = SubSeq(line, p, Len(line))
    <3>1. Holds(mem, left[n], SubSeq(line, left[n], WordEnd(line, left, n) - 1))
          /\ string(mem, left[n]) = SubSeq(line, left[n], WordEnd(line, left, n) - 1)
      BY <1>1, <1>2, WordsThere
    <3> QED BY <1>2, <1>3, <3>1
  <2> QED BY <1>1, <2>1
<1>5. /\ w \in Seq(Char) /\ Len(w) = (Len(line) - p) + 1
      /\ \A k \in 1 .. (Len(line) - p) + 1 : w[k] = line[p + k - 1]
  BY <1>2, <1>4, Piece
<1>6. PICK m : m = Min(strchr(w, Blanks))
  OBVIOUS
<1>7. m \in 1 .. Len(w) /\ w[m] = Blank /\ \A k \in 1 .. Len(w) : k < m => w[k] # Blank
  <2>1. m \in 1 .. Len(w) /\ w[m] \in Blanks /\ \A k \in 1 .. Len(w) : k < m => w[k] \notin Blanks
    BY <1>1, <1>5, <1>6, FirstFound
  <2> QED BY <2>1 DEF Blanks, Blank
<1>8. PICK q : q = p + m
  OBVIOUS
<1>9. /\ c.mem \in Memory /\ Len(c.mem) = Len(mem) /\ c.rest = q
      /\ \A j \in 1 .. Len(mem) : c.mem[j] = IF j = p + m - 1 THEN NUL ELSE mem[j]
  <2>1. strchr(w, Blanks) # {} /\ m = Min(strchr(w, Blanks))
    BY <1>1, <1>6
  <2>2. /\ c.mem \in Memory /\ Len(c.mem) = Len(mem) /\ c.rest = p + Min(strchr(w, Blanks))
        /\ \A j \in 1 .. Len(mem) : c.mem[j] = IF j = p + Min(strchr(w, Blanks)) - 1 THEN NUL ELSE mem[j]
    <3> DEFINE y == strsep(mem, p, Blanks)
    <3>1. /\ y.mem \in Memory /\ Len(y.mem) = Len(mem) /\ y.rest = p + Min(strchr(w, Blanks))
          /\ \A j \in 1 .. Len(mem) : y.mem[j] = IF j = p + Min(strchr(w, Blanks)) - 1 THEN NUL ELSE mem[j]
      BY <1>4, <2>1, TokenCut
    <3> HIDE DEF y
    <3>2. c = y
      BY DEF y
    <3> QED BY <3>1, <3>2
  <2> QED BY <1>8, <2>1, <2>2
<1> DEFINE x == c.mem
<1> HIDE DEF x
<1>10. m \in Nat /\ 1 <= m /\ m <= (Len(line) - p) + 1
  BY <1>2, <1>5, <1>7
<1>11. q \in Nat /\ q # 0 /\ p < q /\ q <= Len(line) + 1 /\ p + m - 1 = q - 1 /\ q - 1 \in 1 .. Len(line)
  <2>1. p \in Nat /\ 1 <= p /\ p <= Len(line) + 1 /\ Len(line) \in Nat
    BY <1>2
  <2>2. q \in Nat /\ q >= 2 /\ p < q
    BY <1>8, <1>10, <2>1
  <2>3. q <= Len(line) + 1 /\ p + m - 1 = q - 1
    BY <1>8, <1>10, <2>1
  <2> QED BY <2>1, <2>2, <2>3
<1>12. line[q - 1] = Blank
  <2>1. m \in 1 .. (Len(line) - p) + 1
    BY <1>2, <1>10
  <2>2. w[m] = line[p + m - 1]
    BY <1>5, <2>1
  <2> QED BY <1>7, <1>11, <2>2
<1>13. ASSUME NEW j \in p .. q - 2 PROVE line[j] # Blank
  <2>1. (j - p) + 1 \in 1 .. Len(w) /\ (j - p) + 1 < m /\ p + ((j - p) + 1) - 1 = j
    <3>1. PICK l : l = Len(line)
      OBVIOUS
    <3>2. l \in Nat /\ p \in Nat /\ m \in Nat /\ m <= (l - p) + 1 /\ Len(w) = (l - p) + 1
      BY <1>2, <1>5, <1>10, <3>1
    <3>3. PICK r : r = q - 2
      OBVIOUS
    <3>4. r = (p + m) - 2 /\ j \in p .. r
      BY <1>8, <3>3
    <3>5. IndexOf(l, p, m, j)
      BY <3>2, <3>4, InPiece
    <3> QED BY <3>2, <3>5 DEF IndexOf
  <2>2. (j - p) + 1 \in 1 .. (Len(line) - p) + 1
    BY <1>5, <2>1
  <2> QED BY <1>5, <1>7, <2>1, <2>2
<1>14. \A j \in 1 .. Len(mem) : x[j] = IF j = q - 1 THEN NUL ELSE mem[j]
  BY <1>9, <1>11 DEF x
<1>15. x \in Memory /\ Len(x) = Len(mem)
  BY <1>9 DEF x
<1>16. CutAt(x, line, Append(left, q))
  BY <1>1, <1>2, <1>9, <1>11, <1>12, <1>13, <1>14, <1>15, CutCells
<1>17. \A j \in 1 .. Len(mem) : j < p => x[j] = mem[j]
  <2>1. \A j \in 1 .. Len(mem) : j < p => j # q - 1
    BY <1>2, <1>11
  <2> QED BY <1>14, <2>1
<1> QED BY <1>9, <1>11, <1>16, <1>17 DEF x

\* The words and the blanks between them are the line.
LEMMA WordsMakeUp ==
  ASSUME NEW mem \in Memory, NEW line \in Seq(Char), NEW left, CutAt(mem, line, left)
  PROVE  FlattenSeq([k \in DOMAIN left |->
           IF k = 1 THEN string(mem, left[k]) ELSE <<Blank>> \o string(mem, left[k])]) = line
<1> DEFINE n == Len(left)
           e(k) == IF k = 0 THEN 0 ELSE WordEnd(line, left, k) - 1
           piece(k) == IF k = 1 THEN string(mem, left[k]) ELSE <<Blank>> \o string(mem, left[k])
           ss == [k \in 1 .. n |-> piece(k)]
           g == [k \in 0 .. n |-> SubSeq(line, 1, e(k))]
<1>1. /\ n \in Nat /\ n >= 1 /\ left[1] = 1 /\ DOMAIN left = 1 .. n /\ Len(line) \in Nat
      /\ \A k \in 1 .. n : left[k] \in Nat /\ 1 <= left[k]
  BY CutNumbers, LenProperties
<1>2. ASSUME NEW k \in 1 .. n
      PROVE  /\ e(k) \in Nat /\ left[k] <= e(k) + 1 /\ e(k) <= Len(line)
             /\ string(mem, left[k]) = SubSeq(line, left[k], e(k))
  <2> DEFINE x == WordEnd(line, left, k)
  <2>1. x \in Nat /\ left[k] <= x /\ x <= Len(line) + 1 /\ string(mem, left[k]) = SubSeq(line, left[k], x - 1)
    BY WordsThere
  <2>2. e(k) = x - 1
    BY <1>1
  <2> HIDE DEF x, e
  <2>3. left[k] \in Nat /\ 1 <= left[k]
    BY <1>1
  <2>4. PICK l : l = left[k]
    OBVIOUS
  <2>5. e(k) \in Nat /\ l <= e(k) + 1 /\ e(k) <= Len(line)
    BY <1>1, <2>1, <2>2, <2>3, <2>4
  <2> QED BY <2>1, <2>2, <2>4, <2>5
<1>3. e(0) = 0 /\ e(n) = Len(line)
  BY <1>1 DEF WordEnd
<1>4. ASSUME NEW k \in 2 .. n PROVE e(k - 1) = left[k] - 2 /\ left[k] >= 2 /\ line[left[k] - 1] = Blank
  <2>1. k - 1 \in 1 .. n /\ (k - 1) + 1 = k /\ k - 1 # n /\ k - 1 # 0 /\ k \in 1 .. n
    BY <1>1
  <2>2. e(k - 1) = left[k] - 2
    BY <1>1, <2>1 DEF WordEnd
  <2>3. line[left[k] - 1] = Blank
    <3>1. WordAt(mem, line, left, k) /\ k # 1
      BY <2>1 DEF CutAt
    <3> QED BY <3>1 DEF WordAt
  <2>4. left[1] < left[k]
    <3>1. 1 \in 1 .. n /\ 1 < k
      BY <1>1
    <3> QED BY <2>1, <3>1, CutNumbers
  <2> QED BY <1>1, <2>1, <2>2, <2>3, <2>4
<1>5. Blank \in Char
  BY CharAssumption DEF Blank
<1> HIDE DEF e, n
<1>6. ASSUME NEW k \in 1 .. n
      PROVE  piece(k) \in Seq(Char) /\ SubSeq(line, 1, e(k)) = SubSeq(line, 1, e(k - 1)) \o piece(k)
  <2>1. SubSeq(line, left[k], e(k)) \in Seq(Char)
    <3>1. left[k] \in Nat /\ 1 <= left[k] /\ e(k) \in Nat /\ e(k) <= Len(line) /\ left[k] <= e(k) + 1
      BY <1>1, <1>2
    <3> QED BY <3>1, Piece
  <2>2. CASE k = 1
    <3>1. piece(k) = SubSeq(line, 1, e(k))
      BY <1>1, <1>2, <2>2
    <3>2. SubSeq(line, 1, e(k - 1)) = <<>>
      <4>1. e(k - 1) = 0
        BY <1>3, <2>2
      <4> QED BY <4>1, SubSeqEmpty
    <3> HIDE DEF piece
    <3>3. <<>> \o piece(k) = piece(k)
      BY <1>1, <2>1, <2>2, <3>1, ConcatEmptySeq
    <3> QED BY <1>1, <2>1, <2>2, <3>1, <3>2, <3>3
  <2>3. CASE k # 1
    <3>1. PICK a, b : a = left[k] - 1 /\ b = e(k)
      OBVIOUS
    <3>2. k \in 2 .. n /\ left[k] = a + 1 /\ a \in 1 .. Len(line) /\ a \in Nat /\ e(k - 1) = a - 1 /\ line[a] = Blank
          /\ b \in Nat /\ a <= b /\ b <= Len(line)
      <4>1. k \in 2 .. n
        BY <1>1, <2>3
      <4>2. PICK l : l = left[k]
        OBVIOUS
      <4>3. l \in Nat /\ l >= 2 /\ e(k - 1) = l - 2 /\ line[l - 1] = Blank
            /\ b \in Nat /\ l <= b + 1 /\ b <= Len(line) /\ a = l - 1
        BY <1>1, <1>2, <1>4, <3>1, <4>1, <4>2
      <4>4. l = a + 1 /\ a \in Nat /\ 1 <= a /\ l - 2 = a - 1 /\ a <= b
        BY <4>3
      <4> QED BY <1>1, <4>1, <4>2, <4>3, <4>4
    <3>3. piece(k) = <<Blank>> \o SubSeq(line, a + 1, b)
      BY <1>2, <2>3, <3>1, <3>2
    <3>4. SubSeq(line, a, b) = piece(k)
      <4>1. b \in a .. Len(line)
        BY <1>1, <3>2
      <4>2. SubSeq(line, a, b) = <<line[a]>> \o SubSeq(line, a + 1, b)
        BY <3>2, <4>1, SubSeqRecursiveFirst
      <4> HIDE DEF piece
      <4> QED BY <3>2, <3>3, <4>2
    <3> HIDE DEF piece
    <3>5. SubSeq(line, 1, a - 1) \o SubSeq(line, (a - 1) + 1, b) = SubSeq(line, 1, b)
      <4>1. 1 \in 1 .. Len(line) + 1 /\ a - 1 \in (1 - 1) .. Len(line) /\ b \in (a - 1) .. Len(line)
        BY <1>1, <3>2
      <4> QED BY <4>1, ConcatAdjacentSubSeq
    <3>6. (a - 1) + 1 = a
      BY <3>2
    <3>7. SubSeq(line, a, b) \in Seq(Char)
      <4>1. 1 <= a /\ a <= b + 1
        BY <3>2
      <4> QED BY <3>2, <4>1, Piece
    <3> QED BY <3>1, <3>2, <3>4, <3>5, <3>6, <3>7
  <2> QED BY <2>2, <2>3
<1> HIDE DEF piece
<1>7. ss \in Seq(Seq(Char)) /\ Len(ss) = n /\ \A k \in 1 .. n : ss[k] = piece(k)
  BY <1>1, <1>6
<1> HIDE DEF ss
<1>8. PartsOf(g, ss, Char)
  <2>1. ASSUME NEW k \in 0 .. n PROVE SubSeq(line, 1, e(k)) \in Seq(Char)
    <3>1. e(k) \in Nat /\ e(k) <= Len(line)
      <4>1. k = 0 \/ k \in 1 .. n
        BY <1>1
      <4> QED BY <1>1, <1>2, <1>3, <4>1
    <3> QED BY <3>1, Piece
  <2>2. g \in [0 .. n -> Seq(Char)]
    BY <2>1
  <2>3. g[0] = <<>>
    <3>1. 0 \in 0 .. n
      BY <1>1
    <3>2. g[0] = SubSeq(line, 1, 0)
      BY <1>3, <3>1
    <3> HIDE DEF g
    <3> QED BY <3>2, SubSeqEmpty
  <2>4. ASSUME NEW k \in 1 .. n PROVE g[k] = g[k - 1] \o ss[k]
    <3>1. k \in 0 .. n /\ k - 1 \in 0 .. n
      BY <1>1
    <3> QED BY <1>6, <1>7, <3>1
  <2> HIDE DEF g
  <2> QED BY <1>7, <2>2, <2>3, <2>4 DEF PartsOf
<1>9. g[n] = line
  <2>1. n \in 0 .. n
    BY <1>1
  <2>2. g[n] = SubSeq(line, 1, Len(line))
    BY <1>3, <2>1
  <2> QED BY <2>2, SubSeqFull
<1> HIDE DEF g
<1>10. FlattenSeq(ss) = line
  BY <1>7, <1>8, <1>9, Flattened
<1> QED BY <1>1, <1>10 DEF ss, piece

\* Two blanks have not the same number of blanks before them.
LEMMA BlanksTell ==
  ASSUME NEW line \in Seq(Char), NEW a \in Nat, NEW b \in Nat, a < b, b <= Len(line) + 1,
         1 <= a, line[a] = Blank
  PROVE  BlanksBefore(line, a) # BlanksBefore(line, b)
<1> DEFINE at == strchr(line, Blanks)
           P == {j \in at : j < a}
           Q == {j \in at : j < b}
<1>1. Len(line) \in Nat
  OBVIOUS
<1>2. at = {j \in 1 .. Len(line) : line[j] = Blank} /\ IsFiniteSet(P) /\ IsFiniteSet(Q)
  BY BlanksOf
<1>3. P \subseteq Q /\ a \in Q /\ a \notin P
  <2> HIDE DEF at, P, Q
  <2>1. a \in at /\ \A j \in at : j \in Nat
    BY <1>1, <1>2
  <2>2. \A j : (j \in P <=> j \in at /\ j < a) /\ (j \in Q <=> j \in at /\ j < b)
    BY DEF P, Q
  <2>3. ASSUME NEW j \in P PROVE j \in Q
    <3>1. j \in at /\ j < a /\ j \in Nat
      BY <2>1, <2>2
    <3>2. j < b
      BY <3>1
    <3> QED BY <2>2, <3>1, <3>2
  <2>4. ~(a < a)
    OBVIOUS
  <2> QED BY <2>1, <2>2, <2>3, <2>4
<1>4. BlanksBefore(line, a) = Cardinality(P) /\ BlanksBefore(line, b) = Cardinality(Q)
  BY DEF BlanksBefore
<1> HIDE DEF P, Q
<1>5. P # Q
  BY <1>3
<1>6. Cardinality(P) # Cardinality(Q)
  <2>1. P \in SUBSET Q
    BY <1>3
  <2> QED BY <1>2, <1>5, <2>1, FS_Subset
<1> QED BY <1>4, <1>6

\* Each word begins where split finds a blank.
LEMMA WordsSplit ==
  ASSUME NEW mem, NEW line \in Seq(Char), NEW left, CutAt(mem, line, left), NEW k \in 2 .. Len(left)
  PROVE  left[k] = split(line, Blank)[k - 1] + 2
<1> DEFINE at == strchr(line, Blanks)
           before(x) == Cardinality({j \in at : j <= x})
           Here(x) == before(x) = (k - 1) - 1 /\ (x + 1 \in at \/ x = Len(line))
           a == left[k] - 2
<1>1. Len(line) \in Nat /\ at = {j \in 1 .. Len(line) : line[j] = Blank} /\ Len(left) \in Nat
  BY BlanksOf, CutNumbers
<1>2. \A x \in Nat : before(x) = BlanksBefore(line, x + 1)
  <2>1. ASSUME NEW x \in Nat PROVE {j \in at : j <= x} = {j \in at : j < x + 1}
    <3> HIDE DEF at
    <3>1. \A j \in at : j \in Nat
      BY <1>1
    <3> QED BY <3>1
  <2> QED BY <2>1 DEF BlanksBefore
<1> HIDE DEF before
<1>3. a \in Nat /\ a <= Len(line) - 1 /\ left[k] = a + 2 /\ line[a + 1] = Blank
      /\ BlanksBefore(line, a + 2) = k - 1
  <2>1. 1 \in 1 .. Len(left) /\ k \in 1 .. Len(left) /\ 1 < k /\ k # 1
    BY <1>1
  <2>2. left[1] < left[k] /\ left[1] = 1 /\ left[k] \in Nat /\ left[k] <= Len(line) + 1
    BY <2>1, CutNumbers
  <2>3. WordAt(mem, line, left, k)
    BY <2>1 DEF CutAt
  <2>4. line[left[k] - 1] = Blank /\ BlanksBefore(line, left[k]) = k - 1
    BY <2>1, <2>3 DEF WordAt
  <2>5. PICK l : l = left[k]
    OBVIOUS
  <2>6. a \in Nat /\ a <= Len(line) - 1 /\ l = a + 2 /\ l - 1 = a + 1
    BY <1>1, <2>2, <2>5
  <2> HIDE DEF a
  <2> QED BY <2>4, <2>5, <2>6
<1> HIDE DEF a, at
<1>4. before(a) = (k - 1) - 1
  <2>1. BlanksBefore(line, a + 2) = BlanksBefore(line, a + 1) + 1
    <3>1. 1 <= a + 1 /\ a + 1 < a + 2 /\ a + 2 <= Len(line) + 1 /\ (a + 2) - 1 = a + 1
          /\ a + 1 \in Nat /\ a + 2 \in Nat /\ \A j \in a + 1 .. (a + 2) - 2 : FALSE
      BY <1>1, <1>3
    <3> QED BY <1>3, <3>1, BlanksCounted
  <2>2. BlanksBefore(line, a + 1) \in Nat
    <3>1. a + 1 \in Nat
      BY <1>3
    <3> QED BY <3>1, BlanksCounted
  <2>3. before(a) = BlanksBefore(line, a + 1)
    BY <1>2, <1>3
  <2>4. k \in Nat /\ BlanksBefore(line, a + 1) + 1 = k - 1
    BY <1>1, <1>3, <2>1
  <2> QED BY <2>2, <2>3, <2>4
<1>5. a \in 0 .. Len(line) /\ Here(a) /\ a + 1 \in at
  BY <1>1, <1>3, <1>4
<1>6. ASSUME NEW x \in 0 .. Len(line), Here(x) PROVE x = a
  <2>1. x \in Nat /\ x <= Len(line) /\ before(x) = before(a)
    BY <1>1, <1>4, <1>6
  <2>2. BlanksBefore(line, x + 1) = BlanksBefore(line, a + 1)
    BY <1>2, <1>3, <2>1
  <2>3. CASE x < a
    <3>1. x + 1 \in at
      BY <1>1, <1>3, <1>6, <2>1, <2>3
    <3>2. line[x + 1] = Blank /\ 1 <= x + 1 /\ x + 1 \in Nat /\ a + 1 \in Nat /\ x + 1 < a + 1 /\ a + 1 <= Len(line) + 1
      BY <1>1, <1>3, <2>1, <2>3, <3>1
    <3> QED BY <2>2, <3>2, BlanksTell
  <2>4. CASE a < x
    <3>1. 1 <= a + 1 /\ x + 1 \in Nat /\ a + 1 \in Nat /\ a + 1 < x + 1 /\ x + 1 <= Len(line) + 1
      BY <1>1, <1>3, <2>1, <2>4
    <3> QED BY <1>3, <2>2, <3>1, BlanksTell
  <2> QED BY <1>3, <2>1, <2>3, <2>4
<1>7. (CHOOSE x \in 0 .. Len(line) : Here(x)) = a
  <2> HIDE DEF Here
  <2> QED BY <1>5, <1>6
<1>8. k - 1 \in 1 .. Cardinality(at) + 1
  <2>1. IsFiniteSet(at)
    <3>1. 1 \in Int /\ Len(line) \in Int
      BY <1>1
    <3>2. IsFiniteSet(1 .. Len(line)) /\ at \subseteq 1 .. Len(line)
      BY <1>1, <3>1, FS_Interval
    <3> QED BY <3>2, FS_Subset
  <2>2. {j \in at : j <= a} \subseteq at
    OBVIOUS
  <2> DEFINE P == {j \in at : j <= a}
  <2>3. before(a) = Cardinality(P)
    BY DEF before
  <2> HIDE DEF P
  <2>4. Cardinality(P) <= Cardinality(at) /\ Cardinality(at) \in Nat
    <3>1. P \subseteq at
      BY <2>2 DEF P
    <3> QED BY <2>1, <3>1, FS_Subset, FS_CardinalityType
  <2> QED BY <1>1, <1>4, <2>3, <2>4
<1>9. split(line, Blank)[k - 1] = CHOOSE x \in 0 .. Len(line) : Here(x)
  <2>1. split(line, Blank) = [cnt \in 1 .. Cardinality(at) + 1 |->
          CHOOSE x \in 0 .. Len(line) : /\ Cardinality({j \in at : j <= x}) = cnt - 1
                                        /\ (x + 1 \in at \/ x = Len(line))]
    BY DEF split, at, Blank, Blanks
  <2> QED BY <1>8, <2>1 DEF before
<1> QED BY <1>3, <1>7, <1>9

\* The addresses of the words and of what is left.
Left == IF rest = NULL THEN words ELSE Append(words, rest)

\* Before the first line there is nothing to cut.
LineInv ==
  /\ typed \in Seq(Char) /\ str \in Memory /\ words \in Seq(Nat) /\ rest \in Nat
  /\ (words = <<>> /\ rest = NULL) \/ CutAt(str, typed, Left)

LEMMA LineInvInit ==
  ASSUME lineInit
  PROVE  LineInv
<1>1. zeros(1) \in Memory
  BY DEF zeros, Memory
<1>2. NULL \in Nat
  BY DEF NULL
<1> QED BY <1>1, <1>2 DEF lineInit, LineInv

\* What is left is in the line, at the last address.
LEMMA ArgumentThere ==
  ASSUME LineInv, rest # NULL
  PROVE  /\ CutAt(str, typed, Left) /\ Left = Append(words, rest)
         /\ Len(Left) = Len(words) + 1 /\ Len(words) \in Nat /\ rest = Left[Len(Left)]
         /\ Holds(str, rest, argument) /\ argument \in Seq(Char)
<1>1. /\ typed \in Seq(Char) /\ str \in Memory /\ words \in Seq(Nat) /\ rest \in Nat
      /\ CutAt(str, typed, Left) /\ Left = Append(words, rest)
  BY DEF LineInv, Left
<1>2. Len(Left) = Len(words) + 1 /\ Len(words) \in Nat /\ rest = Left[Len(Left)]
  BY <1>1, AppendProperties
<1>3. Len(Left) \in 1 .. Len(Left)
  BY <1>2
<1>4. Holds(str, rest, string(str, rest))
  <2>1. PICK l, n : l = Left /\ n = Len(Left)
    OBVIOUS
  <2>2. Holds(str, l[n], SubSeq(typed, l[n], WordEnd(typed, l, n) - 1))
        /\ string(str, l[n]) = SubSeq(typed, l[n], WordEnd(typed, l, n) - 1)
    BY <1>1, <1>3, <2>1, WordsThere
  <2> QED BY <1>2, <2>1, <2>2
<1> QED BY <1>1, <1>2, <1>4 DEF argument, Holds

\* The command is in the line, in front of the second word.
LEMMA CommandThere ==
  ASSUME LineInv, words # <<>>
  PROVE  /\ Holds(str, 1, command)
         /\ rest # NULL => 1 + Len(command) < rest
<1>1. NULL \notin Nat \ {0} /\ CutAt(str, typed, Left) /\ Len(words) \in Nat /\ Len(words) # 0
  BY EmptySeq DEF LineInv, NULL
<1>2. /\ typed \in Seq(Char) /\ str \in Memory
  BY DEF LineInv
<1>3. PICK l, e : l = Left /\ e = WordEnd(typed, l, 1)
  OBVIOUS
<1>4. 1 \in 1 .. Len(l) /\ l[1] = 1 /\ Len(l) \in Nat /\ Len(typed) \in Nat
  BY <1>1, <1>2, <1>3, CutNumbers
<1>5. Holds(str, 1, SubSeq(typed, 1, e - 1)) /\ string(str, 1) = SubSeq(typed, 1, e - 1)
      /\ e \in Nat /\ 1 <= e /\ e <= Len(typed) + 1
  <2>1. CutAt(str, typed, l)
    BY <1>1, <1>3
  <2>2. /\ e \in Nat /\ l[1] <= e /\ e <= Len(typed) + 1
        /\ Holds(str, l[1], SubSeq(typed, l[1], e - 1))
        /\ string(str, l[1]) = SubSeq(typed, l[1], e - 1)
    BY <1>2, <1>3, <1>4, <2>1, WordsThere
  <2> QED BY <1>4, <2>2
<1>6. ASSUME rest # NULL PROVE 1 + Len(command) < rest
  <2>1. Left = Append(words, rest) /\ Len(l) = Len(words) + 1 /\ rest = l[Len(l)]
    BY <1>3, <1>6, ArgumentThere
  <2>2. 1 # Len(l) /\ 2 \in 1 .. Len(l) /\ Len(l) \in 1 .. Len(l)
    BY <1>1, <1>4, <2>1
  <2>3. e = l[2] - 1
    BY <1>3, <2>2 DEF WordEnd
  <2>4. l[2] \in Nat /\ rest \in Nat /\ l[2] <= rest
    <3>1. l[2] \in Nat /\ l[Len(l)] \in Nat /\ (2 < Len(l) => l[2] < l[Len(l)])
      BY <1>1, <1>2, <1>3, <2>2, CutNumbers
    <3>2. 2 = Len(l) \/ 2 < Len(l)
      <4>1. PICK m : m = Len(l)
        OBVIOUS
      <4>2. m \in Nat /\ 2 <= m
        BY <1>4, <2>2, <4>1
      <4> QED BY <4>1, <4>2
    <3> QED BY <2>1, <3>1, <3>2
  <2>5. Len(SubSeq(typed, 1, e - 1)) = e - 1
    <3>1. 1 \in Nat /\ e - 1 \in Nat /\ e - 1 <= Len(typed) /\ 1 <= (e - 1) + 1 /\ ((e - 1) - 1) + 1 = e - 1
      BY <1>4, <1>5
    <3> QED BY <1>2, <3>1, Piece
  <2>6. PICK r : r = l[2]
    OBVIOUS
  <2>7. 1 + (e - 1) < rest
    BY <1>5, <2>3, <2>4, <2>6
  <2> QED BY <1>5, <2>5, <2>7 DEF command
<1> QED BY <1>5, <1>6 DEF command

\* What separate does, in terms of the lemma about strsep.
LEMMA SeparateCuts ==
  ASSUME LineInv, separate
  PROVE  /\ LineInv' /\ words' = Append(words, rest)
         /\ \A j \in 1 .. Len(str) : j < rest => str'[j] = str[j]
         /\ Len(str') = Len(str)
<1>1. /\ rest # NULL /\ str' = strsep(str, rest, Blanks).mem /\ rest' = strsep(str, rest, Blanks).rest
      /\ words' = Append(words, rest) /\ typed' = typed
  BY DEF separate, Blanks
<1>2. /\ typed \in Seq(Char) /\ str \in Memory /\ words \in Seq(Nat) /\ rest \in Nat
  BY DEF LineInv
<1>3. CutAt(str, typed, Left) /\ rest = Left[Len(Left)] /\ Left = words'
  BY <1>1, ArgumentThere
<1>4. words' \in Seq(Nat)
  BY <1>1, <1>2, AppendProperties
<1>5. CASE strchr(string(str, rest), Blanks) = {}
  <2>1. str' = str /\ rest' = NULL
    BY <1>1, <1>5 DEF strsep
  <2>2. NULL \in Nat /\ Left' = words'
    BY <2>1 DEF NULL, Left
  <2>3. CutAt(str', typed', Left')
    BY <1>1, <1>3, <2>1, <2>2
  <2> QED BY <1>1, <1>2, <1>4, <2>1, <2>2, <2>3 DEF LineInv
<1>6. CASE strchr(string(str, rest), Blanks) # {}
  <2>1. PICK c : c = strsep(str, rest, Blanks)
    OBVIOUS
  <2>2. /\ c.mem \in Memory /\ c.rest \in Nat \ {0}
        /\ CutAt(c.mem, typed, Append(Left, c.rest))
        /\ Len(c.mem) = Len(str)
        /\ \A j \in 1 .. Len(str) : j < rest => c.mem[j] = str[j]
    <3>1. PICK l, line, mem, p : l = Left /\ line = typed /\ mem = str /\ p = rest
      OBVIOUS
    <3>2. mem \in Memory /\ line \in Seq(Char) /\ CutAt(mem, line, l) /\ p = l[Len(l)]
          /\ strchr(string(mem, p), Blanks) # {}
      BY <1>2, <1>3, <1>6, <3>1
    <3>4. strchr(string(mem, p), Blanks) # {} /\ c = strsep(mem, p, Blanks)
      BY <2>1, <3>1, <3>2
    <3>5. /\ c.mem \in Memory /\ c.rest \in Nat \ {0}
          /\ CutAt(c.mem, line, Append(l, c.rest))
          /\ Len(c.mem) = Len(mem)
          /\ \A j \in 1 .. Len(mem) : j < p => c.mem[j] = mem[j]
      BY <3>2, <3>4, CutMore
    <3> QED BY <3>1, <3>5
  <2>3. str' = c.mem /\ rest' = c.rest
    BY <1>1, <2>1
  <2>4. rest' # NULL /\ Left' = Append(Left, rest')
    <3>1. rest' # NULL
      BY <2>2, <2>3 DEF NULL
    <3>2. Left' = Append(words', rest')
      BY <3>1 DEF Left
    <3> QED BY <1>3, <3>1, <3>2
  <2>5. CutAt(str', typed', Left')
    BY <1>1, <2>2, <2>3, <2>4
  <2>6. str' \in Memory /\ rest' \in Nat
    BY <2>2, <2>3
  <2> QED BY <1>1, <1>2, <1>4, <2>2, <2>3, <2>5, <2>6 DEF LineInv
<1> QED BY <1>5, <1>6

LEMMA AnsweredStays ==
  ASSUME LineInv, rest # NULL, answered
  PROVE  LineInv'
<1>1. rest' = NULL /\ words' = Append(words, rest) /\ str' = str /\ typed' = typed
  BY DEF answered
<1>2. CutAt(str, typed, Left) /\ Left = Append(words, rest)
  BY ArgumentThere
<1>3. Left' = words' /\ NULL \in Nat
  BY <1>1 DEF Left, NULL
<1>4. CutAt(str', typed', Left')
  BY <1>1, <1>2, <1>3
<1>5. words' \in Seq(Nat)
  BY <1>1, AppendProperties DEF LineInv
<1> QED BY <1>1, <1>3, <1>4, <1>5 DEF LineInv

LEMMA LineInvNext ==
  ASSUME LineInv, [lineNext]_lineVars
  PROVE  LineInv'
<1>1. ASSUME NEW line \in Lines, getline(line) PROVE LineInv'
  <2>1. typed' = line /\ str' = Append(line, NUL) /\ rest' = 1 /\ words' = <<>>
    BY <1>1 DEF getline
  <2>2. line \in Seq(Char)
    BY LineAssumption
  <2>3. Append(line, NUL) \in Memory /\ CutAt(Append(line, NUL), line, <<1>>)
    BY <2>2, NotCutYet
  <2>4. Left' = <<1>>
    <3>1. Append(<<>>, 1) = <<1>>
      OBVIOUS
    <3>2. 1 # NULL
      BY DEF NULL
    <3> QED BY <2>1, <3>1, <3>2 DEF Left
  <2>5. CutAt(str', typed', Left')
    BY <2>1, <2>3, <2>4
  <2>6. words' \in Seq(Nat) /\ rest' \in Nat
    <3>1. <<>> \in Seq(Nat) /\ 1 \in Nat
      OBVIOUS
    <3> QED BY <2>1, <3>1
  <2> QED BY <2>1, <2>2, <2>3, <2>5, <2>6 DEF LineInv
<1>2. CASE separate
  BY <1>2, SeparateCuts
<1>3. CASE cd \/ cd_fails \/ cp \/ other_command
  <2>1. rest # NULL /\ answered
    BY <1>3 DEF cd, cd_fails, cp, other_command
  <2> QED BY <2>1, AnsweredStays
<1>4. CASE UNCHANGED lineVars
  BY <1>4 DEF lineVars, LineInv, Left
<1> QED BY <1>1, <1>2, <1>3, <1>4 DEF lineNext

LEMMA LineInvMeans ==
  ASSUME LineInv
  PROVE  WordsMakeUpLine
<1>1. /\ typed \in Seq(Char) /\ str \in Memory
  BY DEF LineInv
<1>2. CASE words = <<>> /\ rest = NULL
  <2>1. Left = <<>> /\ Len(Left) = 0
    BY <1>2 DEF Left
  <2>2. \A k \in 2 .. Len(Left) : FALSE
    BY <2>1
  <2> QED BY <1>2, <2>2 DEF WordsMakeUpLine, Left
<1>3. CASE CutAt(str, typed, Left)
  <2>1. FlattenSeq([k \in DOMAIN Left |->
           IF k = 1 THEN string(str, Left[k]) ELSE <<Blank>> \o string(str, Left[k])]) = typed
    BY <1>1, <1>3, WordsMakeUp
  <2>2. \A k \in 2 .. Len(Left) : Left[k] = split(typed, Blank)[k - 1] + 2
    BY <1>1, <1>3, WordsSplit
  <2> QED BY <2>1, <2>2 DEF WordsMakeUpLine, Left, Blank
<1> QED BY <1>2, <1>3 DEF LineInv

\* strsep cuts words off a line in place, and the shell keeps their addresses
\* while it goes on cutting: every word stays readable, and the words and the
\* blanks between them are the line, whatever was typed and looked for.
THEOREM WordsStay == LineSpec => []WordsMakeUpLine
<1>1. lineInit => LineInv
  BY LineInvInit
<1>2. LineInv /\ [lineNext]_lineVars => LineInv'
  BY LineInvNext
<1>3. LineInv => WordsMakeUpLine
  BY LineInvMeans
<1> QED BY <1>1, <1>2, <1>3, PTL DEF LineSpec

-----------------------------------------------------------------------------
(* The path in the prompt.                                                 *)

Slash == "/"
Slashes == {"/"}

\* A character and a string.
LEMMA Prefixed ==
  ASSUME NEW c \in Char, NEW v \in Seq(Char)
  PROVE  /\ <<c>> \in Seq(Char) /\ <<c>> \o v \in Seq(Char) /\ Len(<<c>> \o v) = 1 + Len(v)
         /\ (<<c>> \o v)[1] = c
         /\ \A k \in 1 .. Len(v) : (<<c>> \o v)[1 + k] = v[k]
<1> DEFINE h == <<c>>
<1>1. h \in Seq(Char) /\ Len(h) = 1 /\ h[1] = c /\ Len(v) \in Nat
  OBVIOUS
<1> HIDE DEF h
<1>2. /\ h \o v \in Seq(Char) /\ Len(h \o v) = 1 + Len(v)
      /\ \A k \in 1 .. 1 + Len(v) : (h \o v)[k] = IF k <= 1 THEN h[k] ELSE v[k - 1]
  <2>1. /\ h \o v \in Seq(Char) /\ Len(h \o v) = Len(h) + Len(v)
        /\ \A k \in 1 .. Len(h) + Len(v) : (h \o v)[k] = IF k <= Len(h) THEN h[k] ELSE v[k - Len(h)]
    BY <1>1, ConcatProperties, Zenon
  <2>2. Len(h) = 1
    BY <1>1
  <2> QED BY <2>1, <2>2, Zenon
<1>3. (h \o v)[1] = c
  <2>1. 1 \in 1 .. 1 + Len(v)
    BY <1>1
  <2> QED BY <1>1, <1>2, <2>1
<1>4. ASSUME NEW k \in 1 .. Len(v) PROVE (h \o v)[1 + k] = v[k]
  <2>1. 1 + k \in 1 .. 1 + Len(v) /\ ~(1 + k <= 1) /\ (1 + k) - 1 = k
    BY <1>1
  <2> QED BY <1>2, <2>1
<1> QED BY <1>1, <1>2, <1>3, <1>4 DEF h

\* A path of a directory and a name in it.
EndsWith(P, Q, L) ==
  /\ P \in Seq(Char) /\ Len(P) = Len(Q) + 1 + Len(L) /\ P[Len(Q) + 1] = Slash
  /\ \A k \in 1 .. Len(Q) : P[k] = Q[k]
  /\ \A k \in 1 .. Len(L) : P[Len(Q) + 1 + k] = L[k]

\* The same characters the other way round.
Mirrors(R, P) ==
  R \in Seq(Char) /\ Len(R) = Len(P) /\ \A k \in 1 .. Len(P) : R[k] = P[(Len(P) - k) + 1]

LEMMA PathEnds ==
  ASSUME NEW Q \in Seq(Char), NEW L \in Seq(Char)
  PROVE  EndsWith(Q \o (<<Slash>> \o L), Q, L)
<1> DEFINE t == <<Slash>> \o L
           P == Q \o t
<1>1. Slash \in Char
  BY CharAssumption DEF Slash
<1>2. t \in Seq(Char) /\ Len(t) = 1 + Len(L) /\ t[1] = Slash /\ \A k \in 1 .. Len(L) : t[1 + k] = L[k]
  BY <1>1, Prefixed
<1> HIDE DEF t
<1>3. /\ P \in Seq(Char) /\ Len(P) = Len(Q) + Len(t)
      /\ \A k \in 1 .. Len(Q) + Len(t) : P[k] = IF k <= Len(Q) THEN Q[k] ELSE t[k - Len(Q)]
  <2>1. t \in Seq(Char)
    BY <1>2
  <2> QED BY <2>1, ConcatProperties, Zenon
<1> HIDE DEF P
<1>4. Len(Q) \in Nat /\ Len(L) \in Nat /\ Len(Q) + Len(t) = Len(Q) + 1 + Len(L)
  BY <1>2
<1>5. ASSUME NEW k \in 1 .. Len(Q) PROVE P[k] = Q[k]
  <2>1. k \in 1 .. Len(Q) + Len(t) /\ k <= Len(Q)
    BY <1>2, <1>4
  <2> QED BY <1>3, <2>1
<1>6. ASSUME NEW k \in 1 .. 1 + Len(L) PROVE P[Len(Q) + k] = t[k]
  <2>1. Len(Q) + k \in 1 .. Len(Q) + Len(t) /\ ~(Len(Q) + k <= Len(Q)) /\ (Len(Q) + k) - Len(Q) = k
    BY <1>2, <1>4
  <2> QED BY <1>3, <2>1
<1>7. P[Len(Q) + 1] = Slash
  <2>1. 1 \in 1 .. 1 + Len(L)
    BY <1>4
  <2> QED BY <1>2, <1>6, <2>1
<1>8. ASSUME NEW k \in 1 .. Len(L) PROVE P[Len(Q) + 1 + k] = L[k]
  <2>1. 1 + k \in 1 .. 1 + Len(L) /\ Len(Q) + (1 + k) = Len(Q) + 1 + k
    BY <1>4
  <2>2. P[Len(Q) + (1 + k)] = t[1 + k]
    BY <1>6, <2>1
  <2> QED BY <1>2, <2>1, <2>2
<1>9. Len(P) = Len(Q) + 1 + Len(L)
  BY <1>3, <1>4
<1> QED BY <1>3, <1>5, <1>7, <1>8, <1>9 DEF P, t, EndsWith

\* What is left of a path when it is turned round and its first name cut off
\* is, turned round again, the path without its last name.
LEMMA TurnedRound ==
  ASSUME NEW Q \in Seq(Char), NEW L \in Seq(Char), strchr(L, Slashes) = {},
         NEW P, EndsWith(P, Q, L), NEW R, Mirrors(R, P), NEW m, m = Min(strchr(R, Slashes))
  PROVE  /\ strchr(R, Slashes) # {} /\ m = Len(L) + 1
         /\ SubSeq(R, m + 1, Len(R)) \in Seq(Char)
         /\ Reverse(SubSeq(R, m + 1, Len(R))) = Q
<1>1. /\ Len(Q) \in Nat /\ Len(L) \in Nat
      /\ P \in Seq(Char) /\ Len(P) = Len(Q) + 1 + Len(L) /\ P[Len(Q) + 1] = Slash
      /\ \A k \in 1 .. Len(Q) : P[k] = Q[k]
      /\ \A k \in 1 .. Len(L) : P[Len(Q) + 1 + k] = L[k]
      /\ R \in Seq(Char) /\ Len(R) = Len(P)
  BY DEF EndsWith, Mirrors
<1>2. Slash \in Slashes
  BY DEF Slash, Slashes
<1>3. PICK n : n = Len(P)
  OBVIOUS
<1>4. n \in Nat /\ n = Len(Q) + 1 + Len(L) /\ Len(P) = n /\ Len(R) = n
  BY <1>1, <1>3
<1>5. \A k \in 1 .. n : R[k] = P[(n - k) + 1]
  BY <1>3 DEF Mirrors
<1>6. ASSUME NEW k \in 1 .. Len(L) PROVE R[k] \notin Slashes
  <2>1. k \in 1 .. n /\ (Len(L) - k) + 1 \in 1 .. Len(L) /\ (n - k) + 1 = Len(Q) + 1 + ((Len(L) - k) + 1)
    BY <1>1, <1>4
  <2>2. R[k] = L[(Len(L) - k) + 1]
    BY <1>1, <1>5, <2>1
  <2>3. \A j \in 1 .. Len(L) : L[j] \notin Slashes
    BY LenProperties DEF strchr
  <2> QED BY <2>1, <2>2, <2>3
<1>7. R[Len(L) + 1] = Slash /\ Len(L) + 1 \in 1 .. n
  <2>1. Len(L) + 1 \in 1 .. n /\ (n - (Len(L) + 1)) + 1 = Len(Q) + 1
    BY <1>1, <1>4
  <2> QED BY <1>1, <1>5, <2>1
<1>8. strchr(R, Slashes) # {}
  <2>1. Len(L) + 1 \in strchr(R, Slashes)
    BY <1>1, <1>2, <1>4, <1>7, LenProperties DEF strchr
  <2> QED BY <2>1
<1>9. m = Len(L) + 1
  <2>1. m \in 1 .. n /\ R[m] \in Slashes /\ \A k \in 1 .. n : k < m => R[k] \notin Slashes
    BY <1>1, <1>4, <1>8, FirstFound
  <2>2. ~(m <= Len(L))
    <3>1. m <= Len(L) => m \in 1 .. Len(L)
      BY <1>1, <1>4, <2>1
    <3> QED BY <1>6, <2>1, <3>1
  <2>3. ~(Len(L) + 1 < m)
    BY <1>2, <1>7, <2>1
  <2> QED BY <1>1, <1>4, <2>1, <2>2, <2>3
<1>10. PICK V : V = SubSeq(R, m + 1, n)
  OBVIOUS
<1>11. V \in Seq(Char) /\ Len(V) = Len(Q) /\ \A k \in 1 .. Len(Q) : V[k] = R[m + k]
  <2>1. m + 1 \in Nat /\ 1 <= m + 1 /\ m + 1 <= n + 1 /\ (n - (m + 1)) + 1 = Len(Q) /\ n <= Len(R)
    BY <1>1, <1>4, <1>9
  <2>2. /\ V \in Seq(Char) /\ Len(V) = (n - (m + 1)) + 1
        /\ \A k \in 1 .. (n - (m + 1)) + 1 : V[k] = R[(m + 1) + k - 1]
    BY <1>1, <1>4, <1>10, <2>1, Piece
  <2>3. \A k \in 1 .. Len(Q) : (m + 1) + k - 1 = m + k
    BY <1>1, <1>9
  <2> QED BY <2>1, <2>2, <2>3
<1>12. PICK X : X = Reverse(V)
  OBVIOUS
<1>13. X \in Seq(Char) /\ Len(X) = Len(Q) /\ \A k \in 1 .. Len(Q) : X[k] = V[(Len(Q) - k) + 1]
  BY <1>11, <1>12, ReverseCells
<1>14. ASSUME NEW k \in 1 .. Len(Q) PROVE X[k] = Q[k]
  <2>1. (Len(Q) - k) + 1 \in 1 .. Len(Q) /\ m + ((Len(Q) - k) + 1) \in 1 .. n
        /\ (n - (m + ((Len(Q) - k) + 1))) + 1 = k
    BY <1>1, <1>4, <1>9
  <2>2. X[k] = R[m + ((Len(Q) - k) + 1)]
    BY <1>11, <1>13, <2>1
  <2>3. R[m + ((Len(Q) - k) + 1)] = P[k] /\ P[k] = Q[k]
    BY <1>1, <1>5, <2>1
  <2> QED BY <2>2, <2>3
<1>15. X = Q
  BY <1>13, <1>14, SeqEqual
<1> QED BY <1>4, <1>8, <1>9, <1>10, <1>11, <1>12, <1>15

\* cd to the parent, as fat12_set_dir changes the text.
LEMMA ParentShown ==
  ASSUME NEW mem \in Memory, NEW Q \in Seq(Char), NEW L \in Seq(Char), strchr(L, Slashes) = {},
         Holds(mem, 1, Q \o (<<Slash>> \o L))
  PROVE  /\ parent(mem) \in Memory /\ Len(parent(mem)) = Len(mem)
         /\ Holds(parent(mem), 1, Q)
<1>1. PICK P : P = Q \o (<<Slash>> \o L)
  OBVIOUS
<1>2. Holds(mem, 1, P) /\ EndsWith(P, Q, L) /\ P \in Seq(Char) /\ Len(P) = Len(Q) + 1 + Len(L)
  BY <1>1, PathEnds DEF EndsWith
<1>3. PICK R, r : R = Reverse(P) /\ r = reverse(mem, 1)
  OBVIOUS
<1>4. Mirrors(R, P) /\ R \in Seq(Char) /\ r \in Memory /\ Len(r) = Len(mem) /\ Holds(r, 1, R)
  BY <1>2, <1>3, ReverseCells, Reversed DEF Mirrors
<1>5. PICK m, V : m = Min(strchr(R, Slashes)) /\ V = SubSeq(R, m + 1, Len(R))
  OBVIOUS
<1>6. strchr(R, Slashes) # {} /\ m = Len(L) + 1 /\ V \in Seq(Char) /\ Reverse(V) = Q
  BY <1>2, <1>4, <1>5, TurnedRound
<1>7. PICK t, s1 : t = strsep(r, 1, Slashes) /\ s1 = reverse(t.mem, t.rest)
  OBVIOUS
<1>8. parent(mem) = strcpy(s1, 1, string(s1, t.rest))
  BY <1>3, <1>7 DEF parent, Slashes
<1>9. t.mem \in Memory /\ Len(t.mem) = Len(r) /\ t.rest = 1 + m /\ Holds(t.mem, t.rest, V)
  <2> DEFINE y == strsep(r, 1, Slashes)
             k == Min(strchr(R, Slashes))
  <2>1. y.mem \in Memory /\ Len(y.mem) = Len(r) /\ y.rest = 1 + k
        /\ Holds(y.mem, y.rest, SubSeq(R, k + 1, Len(R)))
    BY <1>4, <1>6, TokenCut
  <2> HIDE DEF y, k
  <2>2. t = y /\ m = k
    BY <1>5, <1>7 DEF y, k
  <2> QED BY <1>5, <2>1, <2>2
<1>10. s1 \in Memory /\ Len(s1) = Len(mem) /\ Holds(s1, t.rest, Q)
  BY <1>4, <1>6, <1>7, <1>9, Reversed
<1>11. string(s1, t.rest) = Q
  BY <1>10, StringHeld
<1>12. 1 + Len(Q) <= Len(s1)
  <2>1. PICK a : a = t.rest
    OBVIOUS
  <2>2. Holds(s1, a, Q)
    BY <1>10, <2>1
  <2>3. a \in Nat /\ 1 <= a /\ a + Len(Q) <= Len(s1) /\ Len(s1) \in Nat /\ Len(Q) \in Nat
    BY <1>10, <2>2, HeldCells
  <2> QED BY <2>3
<1>13. 1 \in Nat /\ 1 <= 1
  OBVIOUS
<1>14. strcpy(s1, 1, Q) \in Memory /\ Len(strcpy(s1, 1, Q)) = Len(s1) /\ Holds(strcpy(s1, 1, Q), 1, Q)
  BY <1>10, <1>12, <1>13, CopiedCells, Copied
<1> QED BY <1>8, <1>10, <1>11, <1>14

\* A sequence without its last element.
LEMMA WithoutLast ==
  ASSUME NEW T, NEW w \in Seq(T), w # <<>>
  PROVE  /\ Front(w) \in Seq(T) /\ Len(Front(w)) = Len(w) - 1 /\ w[Len(w)] \in T
         /\ \A k \in 1 .. Len(w) - 1 : Front(w)[k] = w[k]
         /\ w = Append(Front(w), w[Len(w)])
<1>1. PICK n, v, z : n = Len(w) /\ v = Front(w) /\ z = w[Len(w)]
  OBVIOUS
<1>2. n \in Nat /\ n # 0 /\ n - 1 \in Nat /\ 1 <= (n - 1) + 1 /\ n - 1 <= n /\ ((n - 1) - 1) + 1 = n - 1
  BY <1>1, EmptySeq
<1>3. z \in T
  <2>1. n \in 1 .. n
    BY <1>2
  <2> QED BY <1>1, <2>1, ElementOfSeq
<1>4. v \in Seq(T) /\ Len(v) = n - 1 /\ \A k \in 1 .. n - 1 : v[k] = w[k]
  <2>1. v = SubSeq(w, 1, n - 1)
    BY <1>1 DEF Front
  <2>2. /\ SubSeq(w, 1, n - 1) \in Seq(T) /\ Len(SubSeq(w, 1, n - 1)) = ((n - 1) - 1) + 1
        /\ \A k \in 1 .. ((n - 1) - 1) + 1 : SubSeq(w, 1, n - 1)[k] = w[1 + k - 1]
    <3>1. 1 \in Nat /\ 1 <= 1
      OBVIOUS
    <3> QED BY <1>1, <1>2, <3>1, Piece
  <2>3. \A k \in 1 .. n - 1 : 1 + k - 1 = k
    BY <1>2
  <2> QED BY <1>2, <2>1, <2>2, <2>3
<1>5. Append(v, z) \in Seq(T) /\ Len(Append(v, z)) = n /\ Append(v, z)[n] = z
      /\ \A k \in 1 .. n - 1 : Append(v, z)[k] = v[k]
  <2>1. (n - 1) + 1 = n
    BY <1>2
  <2> QED BY <1>3, <1>4, <2>1, AppendProperties
<1>6. \A k \in 1 .. n : Append(v, z)[k] = w[k]
  <2>1. \A k \in 1 .. n : k = n \/ k \in 1 .. n - 1
    BY <1>2
  <2> QED BY <1>1, <1>4, <1>5, <2>1
<1>7. Append(v, z) = w
  BY <1>1, <1>5, <1>6, SeqEqual
<1> QED BY <1>1, <1>3, <1>4, <1>7

\* The names of the directories, each behind a slash.
Behind(names) == [k \in DOMAIN names |-> <<Slash>> \o names[k]]
PathText(names) == FlattenSeq(Behind(names))

LEMMA PathGrows ==
  ASSUME NEW names \in Seq(Seq(Char)), NEW a \in Seq(Char)
  PROVE  /\ PathText(names) \in Seq(Char)
         /\ PathText(Append(names, a)) = PathText(names) \o (<<Slash>> \o a)
<1> DEFINE n == Len(names)
           more == Append(names, a)
           x == <<Slash>> \o a
<1>1. n \in Nat /\ DOMAIN names = 1 .. n
  BY LenProperties
<1>2. /\ more \in Seq(Seq(Char)) /\ Len(more) = n + 1 /\ DOMAIN more = 1 .. n + 1
      /\ more[n + 1] = a /\ \A k \in 1 .. n : more[k] = names[k]
  BY AppendProperties, LenProperties
<1>3. \A w \in Seq(Char) : <<Slash>> \o w \in Seq(Char)
  <2>1. Slash \in Char
    BY CharAssumption DEF Slash
  <2> QED BY <2>1, Prefixed
<1>4. Behind(names) \in Seq(Seq(Char)) /\ Len(Behind(names)) = n
      /\ \A k \in 1 .. n : Behind(names)[k] = <<Slash>> \o names[k]
  <2> DEFINE cell(k) == <<Slash>> \o names[k]
  <2>1. \A k \in 1 .. n : cell(k) \in Seq(Char)
    BY <1>1, <1>3, ElementOfSeq
  <2>2. Behind(names) = [k \in 1 .. n |-> cell(k)]
    BY <1>1 DEF Behind
  <2> HIDE DEF cell
  <2>3. [k \in 1 .. n |-> cell(k)] \in Seq(Seq(Char)) /\ Len([k \in 1 .. n |-> cell(k)]) = n
        /\ \A k \in 1 .. n : [j \in 1 .. n |-> cell(j)][k] = cell(k)
    BY <1>1, <2>1
  <2> QED BY <2>2, <2>3 DEF cell
<1>5. Behind(more) \in Seq(Seq(Char)) /\ Len(Behind(more)) = n + 1
      /\ \A k \in 1 .. n + 1 : Behind(more)[k] = <<Slash>> \o more[k]
  <2> DEFINE cell(k) == <<Slash>> \o more[k]
  <2>1. \A k \in 1 .. n + 1 : cell(k) \in Seq(Char)
    <3>1. \A k \in 1 .. n + 1 : more[k] \in Seq(Char)
      <4> HIDE DEF more
      <4> QED BY <1>2, ElementOfSeq
    <3> HIDE DEF more
    <3> QED BY <1>3, <3>1
  <2>2. Behind(more) = [k \in 1 .. n + 1 |-> cell(k)]
    <3> HIDE DEF more
    <3> QED BY <1>2 DEF Behind
  <2> HIDE DEF cell
  <2>3. [k \in 1 .. n + 1 |-> cell(k)] \in Seq(Seq(Char)) /\ Len([k \in 1 .. n + 1 |-> cell(k)]) = n + 1
        /\ \A k \in 1 .. n + 1 : [j \in 1 .. n + 1 |-> cell(j)][k] = cell(k)
    BY <1>1, <2>1
  <2> QED BY <2>2, <2>3 DEF cell
<1> HIDE DEF more
<1>6. x \in Seq(Char)
  BY <1>3
<1> HIDE DEF x
<1>7. Behind(more) = Append(Behind(names), x)
  <2> DEFINE u == Append(Behind(names), x)
  <2>1. u \in Seq(Seq(Char)) /\ Len(u) = n + 1 /\ u[n + 1] = x /\ \A k \in 1 .. n : u[k] = Behind(names)[k]
    BY <1>4, <1>6, AppendProperties
  <2> HIDE DEF u
  <2>2. Behind(more)[n + 1] = u[n + 1]
    <3>1. n + 1 \in 1 .. n + 1
      BY <1>1
    <3> QED BY <1>2, <1>5, <2>1, <3>1 DEF x
  <2>3. ASSUME NEW k \in 1 .. n PROVE Behind(more)[k] = u[k]
    <3>1. k \in 1 .. n + 1
      BY <1>1
    <3> QED BY <1>2, <1>4, <1>5, <2>1, <3>1
  <2>4. \A k \in 1 .. n + 1 : Behind(more)[k] = u[k]
    <3>1. \A k \in 1 .. n + 1 : k = n + 1 \/ k \in 1 .. n
      BY <1>1
    <3> QED BY <2>2, <2>3, <3>1
  <2> QED BY <1>5, <2>1, <2>4, SeqEqual DEF u
<1>8. FlattenSeq(Behind(names)) \in Seq(Char)
      /\ FlattenSeq(Append(Behind(names), x)) = FlattenSeq(Behind(names)) \o x
  BY <1>4, <1>6, FlattenAppend
<1> QED BY <1>7, <1>8 DEF PathText, x, more

Here == <<".">>
Up == <<".", ".">>
Root == <<"/">>

\* The prompt holds the path of the current directory, or in the root that of
\* cluster 0, and there is room.
PathInv ==
  /\ curr_path \in Memory /\ Len(curr_path) = PATH_LEN
  /\ dirs \in Seq(Seq(Char)) /\ \A k \in 1 .. Len(dirs) : strchr(dirs[k], Slashes) = {}
  /\ Len(path_of(dirs)) < PATH_LEN
  /\ \/ Holds(curr_path, 1, path_of(dirs))
     \/ dirs = <<>> /\ Holds(curr_path, 1, path_of(nowhere))

LEMMA PathWords ==
  /\ Root \in Seq(Char) /\ Len(Root) = 1 /\ Root = <<Slash>>
  /\ Here \in Seq(Char) /\ Up \in Seq(Char) /\ Here # Up
  /\ Slash \in Char
<1>1. Slash \in Char
  BY CharAssumption DEF Slash
<1>2. Root = <<Slash>>
  BY DEF Root, Slash
<1>3. <<Slash>> \in Seq(Char) /\ Len(<<Slash>>) = 1
  BY <1>1
<1> DEFINE d == "."
<1>4. d \in Char
  BY CharAssumption
<1>5. Here = <<d>> /\ Up = <<d, d>>
  BY DEF Here, Up
<1> HIDE DEF d
<1>6. <<d>> \in Seq(Char) /\ <<d, d>> \in Seq(Char) /\ Len(<<d>>) = 1 /\ Len(<<d, d>>) = 2
  BY <1>4
<1>7. Here # Up
  BY <1>5, <1>6
<1> QED BY <1>1, <1>2, <1>3, <1>5, <1>6, <1>7

\* What the text of a path is in the root, of one directory and of another.
LEMMA PathsOf ==
  ASSUME NEW names \in Seq(Seq(Char)), NEW a \in Seq(Char)
  PROVE  /\ path_of(<<>>) = Root
         /\ names # <<>> => path_of(names) = PathText(names) /\ PathText(names) \in Seq(Char)
         /\ names = <<>> => path_of(Append(names, a)) = Root \o a
         /\ names # <<>> => path_of(Append(names, a)) = PathText(names) \o (Root \o a)
<1>1. path_of(<<>>) = Root
  BY DEF path_of, Root
<1>2. \A t : t # <<>> => path_of(t) = PathText(t)
  BY DEF path_of, PathText, Behind, Slash
<1>3. Append(names, a) # <<>>
  <2>1. Len(Append(names, a)) = Len(names) + 1 /\ Len(names) \in Nat
    BY AppendProperties
  <2>2. Len(Append(names, a)) # 0
    BY <2>1
  <2> QED BY <2>2, EmptySeq
<1>4. PathText(names) \in Seq(Char) /\ PathText(Append(names, a)) = PathText(names) \o (Root \o a)
  BY PathGrows, PathWords
<1>5. ASSUME names = <<>> PROVE PathText(names) \o (Root \o a) = Root \o a
  <2>1. PathText(names) = <<>>
    <3>1. Behind(names) = <<>>
      BY <1>5 DEF Behind
    <3> QED BY <3>1, FlattenEmpty DEF PathText
  <2>2. PICK v : v = Root \o a
    OBVIOUS
  <2>3. v \in Seq(Char)
    <3>1. Root \o a = <<Slash>> \o a
      BY PathWords
    <3>2. <<Slash>> \o a \in Seq(Char)
      BY PathWords, Prefixed
    <3> QED BY <2>2, <3>1, <3>2
  <2>4. <<>> \o v = v
    BY <2>3, ConcatEmptySeq
  <2> QED BY <2>1, <2>2, <2>4
<1>6. path_of(Append(names, a)) = PathText(names) \o (Root \o a)
  BY <1>2, <1>3, <1>4
<1> QED BY <1>1, <1>2, <1>4, <1>5, <1>6

LEMMA PathInvInit ==
  ASSUME lineInit
  PROVE  PathInv
<1>1. curr_path = strcpy(zeros(PATH_LEN), 1, Root) /\ dirs = <<>>
  BY DEF lineInit, Root
<1>2. zeros(PATH_LEN) \in Memory /\ Len(zeros(PATH_LEN)) = PATH_LEN
  BY LineAssumption DEF zeros, Memory
<1>3. 1 \in Nat /\ 1 <= 1 /\ 1 + 1 <= PATH_LEN /\ 1 < PATH_LEN
  BY LineAssumption
<1>4. Root \in Seq(Char) /\ Len(Root) = 1
  BY PathWords
<1>5. curr_path \in Memory /\ Len(curr_path) = PATH_LEN /\ Holds(curr_path, 1, Root)
  <2>1. 1 + Len(Root) <= Len(zeros(PATH_LEN))
    BY <1>2, <1>3, <1>4
  <2> QED BY <1>1, <1>2, <1>3, <1>4, <2>1, CopiedCells, Copied
<1>6. path_of(dirs) = Root
  BY <1>1 DEF path_of, Root
<1>7. dirs \in Seq(Seq(Char)) /\ \A k \in 1 .. Len(dirs) : strchr(dirs[k], Slashes) = {}
  BY <1>1
<1> QED BY <1>3, <1>4, <1>5, <1>6, <1>7 DEF PathInv

\* What fat12_set_dir writes, by where the shell is and where it goes.
LEMMA SetPath ==
  ASSUME NEW path, NEW a
  PROVE  /\ dirs = <<>> => set_path(path, a) = strcpy(path, 1, Root \o a)
         /\ dirs # <<>> /\ a = Here => set_path(path, a) = path
         /\ dirs # <<>> /\ a = Up /\ a # Here /\ Len(dirs) = 1 =>
              set_path(path, a) = strcpy(parent(path), 1, Root)
         /\ dirs # <<>> /\ a = Up /\ a # Here /\ Len(dirs) # 1 => set_path(path, a) = parent(path)
         /\ dirs # <<>> /\ a # Up /\ a # Here =>
              set_path(path, a) = strcat(strcat(path, 1, Root), 1, a)
BY DEF set_path, Root, Here, Up

\* Where cd goes.
LEMMA DirsNext ==
  ASSUME cd, argument \in Seq(Char)
  PROVE  /\ strchr(argument, Slashes) = {} /\ Len(path_of(dirs')) < PATH_LEN
         /\ curr_path' = set_path(curr_path, argument)
         /\ dirs = <<>> => dirs' = Append(dirs, argument)
         /\ dirs # <<>> /\ argument = Here => dirs' = dirs \/ (dirs = nowhere /\ dirs' = <<>>)
         /\ argument = Up => dirs # <<>> /\ dirs' = Front(dirs)
         /\ argument # Here /\ argument # Up => dirs' = Append(dirs, argument)
<1>1. /\ strchr(argument, Slashes) = {} /\ Len(path_of(dirs')) < PATH_LEN
      /\ curr_path' = set_path(curr_path, argument)
  BY DEF cd, Slashes
<1>2. Here # Up /\ <<argument>> = Append(<<>>, argument) /\ nowhere # <<>>
  <2>1. <<argument>> = Append(<<>>, argument)
    OBVIOUS
  <2>2. nowhere # <<>>
    BY DEF nowhere
  <2> QED BY <2>1, <2>2, PathWords
<1>3. \/ dirs = <<>> /\ argument # Up /\ dirs' = <<argument>>
      \/ dirs = nowhere /\ argument = Here /\ dirs' = <<>>
      \/ /\ dirs # <<>>
         /\ dirs' = CASE argument = Here -> dirs
                      [] argument = Up -> Front(dirs)
                      [] OTHER -> Append(dirs, argument)
  BY DEF cd, Here, Up
<1> QED BY <1>1, <1>2, <1>3

\* One directory deeper: the name behind the path.
LEMMA NameAdded ==
  ASSUME NEW mem \in Memory, Len(mem) = PATH_LEN, NEW Q, Holds(mem, 1, Q), NEW a \in Seq(Char),
         Len(Q \o (Root \o a)) < PATH_LEN
  PROVE  /\ strcat(strcat(mem, 1, Root), 1, a) \in Memory
         /\ Len(strcat(strcat(mem, 1, Root), 1, a)) = PATH_LEN
         /\ Holds(strcat(strcat(mem, 1, Root), 1, a), 1, Q \o (Root \o a))
<1>1. PICK R : R = Root
  OBVIOUS
<1>2. R \in Seq(Char) /\ Len(R) = 1 /\ Q \in Seq(Char) /\ PATH_LEN \in Nat
  BY <1>1, PathWords, LineAssumption DEF Holds
<1>3. PICK u, t : u = R \o a /\ t = Q \o R
  OBVIOUS
<1>4. u \in Seq(Char) /\ Len(u) = 1 + Len(a) /\ t \in Seq(Char) /\ Len(t) = Len(Q) + 1
      /\ Len(Q) \in Nat /\ Len(a) \in Nat
  <2>1. R \o a \in Seq(Char) /\ Len(R \o a) = Len(R) + Len(a)
    <3>1. R \in Seq(Char)
      BY <1>2
    <3> QED BY <3>1, ConcatProperties
  <2>2. Q \o R \in Seq(Char) /\ Len(Q \o R) = Len(Q) + Len(R)
    <3>1. R \in Seq(Char) /\ Q \in Seq(Char)
      BY <1>2
    <3> QED BY <3>1, ConcatProperties
  <2> QED BY <1>2, <1>3, <2>1, <2>2
<1>5. Len(Q \o u) = Len(Q) + Len(u) /\ Q \o u = t \o a
  <2>1. (Q \o R) \o a = Q \o (R \o a)
    BY <1>2, ConcatAssociative
  <2>2. Q \o u = t \o a
    BY <1>3, <2>1
  <2> QED BY <1>2, <1>4, <2>2, ConcatProperties
<1>6. 1 + Len(Q) + 1 + Len(a) <= PATH_LEN /\ 1 + Len(Q) + Len(R) <= PATH_LEN
      /\ 1 + Len(t) + Len(a) <= PATH_LEN
  <2>1. Len(Q \o u) < PATH_LEN
    BY <1>1, <1>3
  <2> QED BY <1>2, <1>4, <1>5, <2>1
<1>7. PICK x : x = strcat(mem, 1, R)
  OBVIOUS
<1>8. x \in Memory /\ Len(x) = PATH_LEN /\ Holds(x, 1, t)
  BY <1>2, <1>3, <1>6, <1>7, Extended
<1>9. strcat(x, 1, a) \in Memory /\ Len(strcat(x, 1, a)) = PATH_LEN /\ Holds(strcat(x, 1, a), 1, t \o a)
  BY <1>6, <1>8, Extended
<1> QED BY <1>1, <1>3, <1>5, <1>7, <1>9

\* One directory up.
LEMMA NameTaken ==
  ASSUME NEW mem \in Memory, NEW names \in Seq(Seq(Char)), names # <<>>,
         \A k \in 1 .. Len(names) : strchr(names[k], Slashes) = {}, Holds(mem, 1, path_of(names))
  PROVE  /\ parent(mem) \in Memory /\ Len(parent(mem)) = Len(mem)
         /\ Front(names) \in Seq(Seq(Char))
         /\ \A k \in 1 .. Len(Front(names)) : strchr(Front(names)[k], Slashes) = {}
         /\ Len(names) = 1 => Front(names) = <<>>
         /\ Len(names) # 1 => Front(names) # <<>> /\ Holds(parent(mem), 1, path_of(Front(names)))
<1>1. PICK n, v, z : n = Len(names) /\ v = Front(names) /\ z = names[Len(names)]
  OBVIOUS
<1>2. /\ v \in Seq(Seq(Char)) /\ Len(v) = n - 1 /\ z \in Seq(Char) /\ names = Append(v, z)
      /\ \A k \in 1 .. n - 1 : v[k] = names[k]
  BY <1>1, WithoutLast
<1>3. n \in Nat /\ n # 0 /\ n \in 1 .. n /\ \A k \in 1 .. n - 1 : k \in 1 .. n
  BY <1>1, EmptySeq
<1>4. strchr(z, Slashes) = {} /\ \A k \in 1 .. n - 1 : strchr(v[k], Slashes) = {}
  BY <1>1, <1>2, <1>3
<1>5. PICK Q : Q = PathText(v)
  OBVIOUS
<1>6. Q \in Seq(Char) /\ Holds(mem, 1, Q \o (<<Slash>> \o z))
  <2>1. PathText(v) \in Seq(Char) /\ PathText(Append(v, z)) = PathText(v) \o (<<Slash>> \o z)
    BY <1>2, PathGrows
  <2>2. path_of(names) = PathText(names)
    <3>1. <<>> \in Seq(Char)
      OBVIOUS
    <3> QED BY <3>1, PathsOf
  <2> QED BY <1>2, <1>5, <2>1, <2>2
<1>7. parent(mem) \in Memory /\ Len(parent(mem)) = Len(mem) /\ Holds(parent(mem), 1, Q)
  BY <1>2, <1>4, <1>6, ParentShown
<1>8. n = 1 => v = <<>>
  BY <1>2, EmptySeq
<1>9. n # 1 => v # <<>> /\ path_of(v) = Q
  <2>1. n # 1 => v # <<>>
    <3>1. n # 1 => Len(v) # 0
      BY <1>2, <1>3
    <3> QED BY <1>2, <3>1, EmptySeq
  <2> QED BY <1>2, <1>5, <2>1, PathsOf
<1> QED BY <1>1, <1>2, <1>4, <1>7, <1>8, <1>9

LEMMA PathInvCd ==
  ASSUME PathInv, cd, argument \in Seq(Char)
  PROVE  PathInv'
<1>1. PICK a, mem : a = argument /\ mem = curr_path
  OBVIOUS
<1>2. /\ mem \in Memory /\ Len(mem) = PATH_LEN /\ a \in Seq(Char)
      /\ dirs # <<>> => Holds(mem, 1, path_of(dirs))
      /\ dirs \in Seq(Seq(Char)) /\ \A k \in 1 .. Len(dirs) : strchr(dirs[k], Slashes) = {}
  BY <1>1 DEF PathInv
<1>3. /\ strchr(a, Slashes) = {} /\ Len(path_of(dirs')) < PATH_LEN /\ curr_path' = set_path(mem, a)
      /\ dirs = <<>> => dirs' = Append(dirs, a)
      /\ dirs # <<>> /\ a = Here => dirs' = dirs \/ (dirs = nowhere /\ dirs' = <<>>)
      /\ a = Up => dirs # <<>> /\ dirs' = Front(dirs)
      /\ a # Here /\ a # Up => dirs' = Append(dirs, a)
  BY <1>1, DirsNext
<1>4. PATH_LEN \in Nat /\ 1 < PATH_LEN
  BY LineAssumption
<1>5. ASSUME dirs' = Append(dirs, a)
      PROVE  dirs' \in Seq(Seq(Char)) /\ \A k \in 1 .. Len(dirs') : strchr(dirs'[k], Slashes) = {}
  <2>1. PICK d, e : d = dirs /\ e = dirs'
    OBVIOUS
  <2>2. /\ e \in Seq(Seq(Char)) /\ Len(e) = Len(d) + 1 /\ Len(d) \in Nat
        /\ e[Len(d) + 1] = a /\ \A k \in 1 .. Len(d) : e[k] = d[k]
    BY <1>2, <1>5, <2>1, AppendProperties
  <2>3. \A k \in 1 .. Len(d) + 1 : k = Len(d) + 1 \/ k \in 1 .. Len(d)
    BY <2>2
  <2>4. \A k \in 1 .. Len(e) : strchr(e[k], Slashes) = {}
    BY <1>2, <1>3, <2>1, <2>2, <2>3
  <2> QED BY <2>1, <2>2, <2>4
<1>6. CASE dirs = <<>>
  <2>1. PICK w : w = Root \o a
    OBVIOUS
  <2>2. w \in Seq(Char)
    <3>1. w = <<Slash>> \o a
      BY <2>1, PathWords
    <3> QED BY <1>2, <3>1, PathWords, Prefixed
  <2>3. dirs' = Append(dirs, a) /\ path_of(dirs') = w
    BY <1>2, <1>3, <1>6, <2>1, PathsOf
  <2>4. curr_path' = strcpy(mem, 1, w)
    BY <1>3, <1>6, <2>1, SetPath
  <2>5. 1 \in Nat /\ 1 <= 1 /\ 1 + Len(w) <= Len(mem)
    BY <1>2, <1>3, <1>4, <2>2, <2>3
  <2>6. curr_path' \in Memory /\ Len(curr_path') = PATH_LEN /\ Holds(curr_path', 1, w)
    BY <1>2, <2>2, <2>4, <2>5, CopiedCells, Copied
  <2> QED BY <1>3, <1>5, <2>3, <2>6 DEF PathInv
<1>7. CASE dirs # <<>> /\ a = Here
  <2>1. curr_path' = mem
    BY <1>3, <1>7, SetPath
  <2>2. CASE dirs' = dirs
    BY <1>2, <1>3, <1>7, <2>1, <2>2 DEF PathInv
  <2>3. CASE dirs = nowhere /\ dirs' = <<>>
    <3>1. Holds(curr_path', 1, path_of(nowhere))
      BY <1>2, <1>7, <2>1, <2>3
    <3>2. dirs' \in Seq(Seq(Char)) /\ \A k \in 1 .. Len(dirs') : strchr(dirs'[k], Slashes) = {}
      BY <2>3
    <3> QED BY <1>2, <1>3, <2>1, <2>3, <3>1, <3>2 DEF PathInv
  <2> QED BY <1>3, <1>7, <2>2, <2>3
<1>8. CASE dirs # <<>> /\ a = Up
  <2>1. a # Here /\ dirs' = Front(dirs)
    BY <1>3, <1>8, PathWords
  <2>2. PICK v, p : v = Front(dirs) /\ p = parent(mem)
    OBVIOUS
  <2>3. /\ p \in Memory /\ Len(p) = PATH_LEN
        /\ v \in Seq(Seq(Char)) /\ \A k \in 1 .. Len(v) : strchr(v[k], Slashes) = {}
        /\ Len(dirs) = 1 => v = <<>>
        /\ Len(dirs) # 1 => Holds(p, 1, path_of(v))
    BY <1>2, <1>8, <2>2, NameTaken
  <2>4. CASE Len(dirs) = 1
    <3>1. curr_path' = strcpy(p, 1, Root)
      BY <1>3, <1>8, <2>1, <2>2, <2>4, SetPath
    <3>2. Root \in Seq(Char) /\ 1 \in Nat /\ 1 <= 1 /\ 1 + Len(Root) <= Len(p)
      BY <1>4, <2>3, PathWords
    <3>3. curr_path' \in Memory /\ Len(curr_path') = PATH_LEN /\ Holds(curr_path', 1, Root)
      BY <2>3, <3>1, <3>2, CopiedCells, Copied
    <3>4. path_of(dirs') = Root
      BY <2>1, <2>2, <2>3, <2>4 DEF path_of, Root
    <3> QED BY <1>3, <2>1, <2>2, <2>3, <3>3, <3>4 DEF PathInv
  <2>5. CASE Len(dirs) # 1
    <3>1. curr_path' = p
      BY <1>3, <1>8, <2>1, <2>2, <2>5, SetPath
    <3> QED BY <1>3, <2>1, <2>2, <2>3, <2>5, <3>1 DEF PathInv
  <2> QED BY <2>4, <2>5
<1>9. CASE dirs # <<>> /\ a # Here /\ a # Up
  <2>1. dirs' = Append(dirs, a) /\ curr_path' = strcat(strcat(mem, 1, Root), 1, a)
    BY <1>3, <1>9, SetPath
  <2>2. PICK Q : Q = PathText(dirs)
    OBVIOUS
  <2>3. path_of(dirs) = Q /\ path_of(dirs') = Q \o (Root \o a)
    BY <1>2, <1>9, <2>1, <2>2, PathsOf
  <2>4. Len(Q \o (Root \o a)) < PATH_LEN /\ Holds(mem, 1, Q)
    BY <1>2, <1>3, <1>9, <2>3
  <2>5. curr_path' \in Memory /\ Len(curr_path') = PATH_LEN /\ Holds(curr_path', 1, path_of(dirs'))
    BY <1>2, <2>1, <2>3, <2>4, NameAdded
  <2> QED BY <1>3, <1>5, <2>1, <2>5 DEF PathInv
<1> QED BY <1>6, <1>7, <1>8, <1>9

LEMMA PathInvNext ==
  ASSUME LineInv, PathInv, [lineNext]_lineVars
  PROVE  PathInv'
<1>1. CASE cd
  <2>1. rest # NULL
    BY <1>1 DEF cd
  <2> QED BY <1>1, <2>1, ArgumentThere, PathInvCd
<1>2. CASE UNCHANGED <<curr_path, dirs>>
  BY <1>2 DEF PathInv
<1>3. cd \/ UNCHANGED <<curr_path, dirs>>
  BY DEF lineNext, lineVars, getline, separate, cd_fails, cp, other_command
<1> QED BY <1>1, <1>2, <1>3

\* The text of the prompt leads from the root to the current directory,
\* however fat12_set_dir has appended names to it and cut them off again; only
\* in the root it may be "/.", what cd . through an unused entry leaves.
THEOREM PathIsShown == LineSpec => []PathShowsDirectories
<1>1. lineInit => LineInv /\ PathInv
  BY LineInvInit, PathInvInit
<1>2. LineInv /\ PathInv /\ [lineNext]_lineVars => LineInv' /\ PathInv'
  BY LineInvNext, PathInvNext
<1>3. PathInv => PathShowsDirectories
  BY StringHeld DEF PathInv, PathShowsDirectories
<1> QED BY <1>1, <1>2, <1>3, PTL DEF LineSpec

-----------------------------------------------------------------------------
(* Names of files.                                                         *)

Gaps == {" ", NUL}

LEMMA BlankIn == Blank \in Char /\ Blank # NUL /\ Blank \in Gaps /\ NUL \in Gaps
<1>1. Blank \in Char
  BY CharAssumption DEF Blank
<1>2. Blank # NUL
  BY <1>1, CharAssumption
<1>3. Blank \in Gaps /\ NUL \in Gaps
  BY DEF Blank, Gaps
<1> QED BY <1>1, <1>2, <1>3

\* What was copied to a field and padded: up to the end of the field it is the
\* string and blanks, and a string that is too long goes on behind it.
Padded(m, mem, p, size, w) ==
  /\ m \in Memory /\ Len(m) = Len(mem)
  /\ \A k \in 1 .. Len(mem) : k < p => m[k] = mem[k]
  /\ \A k \in 1 .. size : m[p + k - 1] = IF k <= Len(w) THEN w[k] ELSE Blank
  /\ \A k \in 1 .. Len(mem) : p + size <= k =>
       m[k] = IF k < p + Len(w) THEN w[k - p + 1]
              ELSE IF k = p + Len(w) THEN NUL ELSE mem[k]

LEMMA FieldWritten ==
  ASSUME NEW mem \in Memory, NEW p \in Nat, 1 <= p, NEW size \in Nat, p + size <= Len(mem),
         NEW w \in Seq(Char), NEW m, m = padded(strcpy(mem, p, w), p, size)
  PROVE  Padded(m, mem, p, size, w)
<1>1. PICK u, n, l, c : u = strcpy(mem, p, w) /\ n = Len(mem) /\ l = strlen(u, p) /\ c = Len(w)
  OBVIOUS
<1>2. n \in Nat /\ c \in Nat /\ p <= n + 1 /\ p + size <= n
  BY <1>1 DEF Memory
<1>3. /\ u \in Memory /\ Len(u) = n /\ DOMAIN u = 1 .. n
      /\ \A k \in 1 .. n : u[k] = IF k \in p .. p + c - 1 THEN w[k - p + 1]
                                  ELSE IF k = p + c THEN NUL ELSE mem[k]
  <2>1. /\ u \in Memory /\ Len(u) = n
        /\ \A k \in 1 .. n : u[k] = IF k \in p .. p + c - 1 THEN w[k - p + 1]
                                    ELSE IF k = p + c THEN NUL ELSE mem[k]
    <3>1. /\ strcpy(mem, p, w) \in Memory /\ Len(strcpy(mem, p, w)) = Len(mem)
          /\ \A k \in 1 .. Len(mem) : strcpy(mem, p, w)[k] =
               IF k \in p .. p + Len(w) - 1 THEN w[k - p + 1]
               ELSE IF k = p + Len(w) THEN NUL ELSE mem[k]
      BY CopiedCells
    <3> QED BY <1>1, <3>1
  <2> QED BY <2>1, LenProperties DEF Memory
<1>4. /\ l \in Nat /\ p + l <= n + 1
      /\ \A k \in p .. p + l - 1 : u[k] # NUL
      /\ p + l <= n => u[p + l] = NUL
  BY <1>1, <1>2, <1>3, EndOfString
<1>5. \A k \in 1 .. c : w[k] \in Char /\ w[k] # NUL
  BY <1>1, Characters
<1>6. l <= c
  <2>1. CASE c < l
    <3>1. p + c \in p .. p + l - 1 /\ p + c \in 1 .. n /\ p + c \notin p .. p + c - 1
      BY <1>2, <1>4, <2>1
    <3> QED BY <1>3, <1>4, <3>1
  <2> QED BY <1>2, <1>4, <2>1
<1>7. l = c \/ l > size
  <2>1. CASE l < c /\ p + l <= n
    <3>1. p + l \in 1 .. n /\ p + l \in p .. p + c - 1 /\ (p + l) - p + 1 = l + 1 /\ l + 1 \in 1 .. c
      BY <1>2, <1>4, <2>1
    <3>2. u[p + l] = w[l + 1]
      BY <1>3, <3>1
    <3> QED BY <1>4, <1>5, <2>1, <3>1, <3>2
  <2> QED BY <1>2, <1>4, <1>6, <2>1
<1> DEFINE cell(k) == IF k \in p + l .. p + size - 1 THEN Blank ELSE u[k]
<1>8. m = [k \in 1 .. n |-> cell(k)]
  BY <1>1, <1>3 DEF padded, Blank
<1>9. \A k \in 1 .. n : cell(k) \in Char \cup {NUL}
  BY <1>3, BlankIn, ElementOfSeq DEF Memory
<1>10. m \in Memory /\ Len(m) = n /\ \A k \in 1 .. n : m[k] = cell(k)
  <2> HIDE DEF cell
  <2> QED BY <1>2, <1>8, <1>9 DEF Memory
<1>11. ASSUME NEW k \in 1 .. n, k < p PROVE m[k] = mem[k]
  <2>1. k \notin p + l .. p + size - 1 /\ k \notin p .. p + c - 1 /\ k # p + c
    BY <1>2, <1>4, <1>11
  <2> QED BY <1>3, <1>10, <2>1
<1>12. ASSUME NEW k \in 1 .. size PROVE m[p + k - 1] = IF k <= c THEN w[k] ELSE Blank
  <2>1. p + k - 1 \in 1 .. n /\ (p + k - 1) - p + 1 = k
    BY <1>2
  <2>2. CASE k <= c
    <3>1. p + k - 1 \notin p + l .. p + size - 1 /\ p + k - 1 \in p .. p + c - 1
      BY <1>2, <1>4, <1>7, <2>2
    <3> QED BY <1>3, <1>10, <2>1, <2>2, <3>1
  <2>3. CASE ~(k <= c)
    <3>1. p + k - 1 \in p + l .. p + size - 1
      BY <1>2, <1>4, <1>6, <2>3
    <3> QED BY <1>10, <2>1, <2>3, <3>1
  <2> QED BY <2>2, <2>3
<1>13. ASSUME NEW k \in 1 .. n, p + size <= k
       PROVE  m[k] = IF k < p + c THEN w[k - p + 1] ELSE IF k = p + c THEN NUL ELSE mem[k]
  <2>1. k \notin p + l .. p + size - 1 /\ (k \in p .. p + c - 1 <=> k < p + c)
    BY <1>2, <1>4, <1>13
  <2>2. m[k] = u[k]
    BY <1>10, <2>1
  <2> QED BY <1>3, <2>1, <2>2
<1> QED BY <1>1, <1>10, <1>11, <1>12, <1>13 DEF Padded

\* What is read from a field that was written so.
NoBlank(w) == \A k \in 1 .. Len(w) : w[k] # Blank
FieldHas(f, p, size, w) ==
  \A k \in 1 .. size : f[p + k - 1] = IF k <= Len(w) THEN w[k] ELSE Blank

LEMMA FieldRead ==
  ASSUME NEW f \in Memory, NEW p \in Nat, 1 <= p, NEW size \in Nat, p + size <= Len(f) + 1,
         NEW w \in Seq(Char), NoBlank(w), FieldHas(f, p, size, w)
  PROVE  field(f, p, size) = prefix(w, size) /\ prefix(w, size) \in Seq(Char)
<1>1. PICK g, c, t : g = SubSeq(f, p, p + size - 1) /\ c = Len(w) /\ t = IF size < c THEN size ELSE c
  OBVIOUS
<1>2. c \in Nat /\ Len(f) \in Nat
  BY <1>1 DEF Memory
<1>3. t \in Nat /\ t <= size /\ t <= c /\ (t < size => t = c)
  BY <1>1, <1>2
<1>4. g \in Memory /\ Len(g) = size /\ \A k \in 1 .. size : g[k] = IF k <= c THEN w[k] ELSE Blank
  <2>1. p + size - 1 \in Nat /\ p <= (p + size - 1) + 1 /\ ((p + size - 1) - p) + 1 = size
        /\ p + size - 1 <= Len(f)
    BY <1>2
  <2>2. PICK b : b = p + size - 1
    OBVIOUS
  <2>3. g \in Memory /\ Len(g) = (b - p) + 1 /\ \A k \in 1 .. (b - p) + 1 : g[k] = f[p + k - 1]
    BY <1>1, <2>1, <2>2, Piece DEF Memory
  <2>4. (b - p) + 1 = size
    BY <2>1, <2>2
  <2> QED BY <1>1, <2>3, <2>4 DEF FieldHas
<1>5. \A k \in 1 .. c : w[k] \notin Gaps
  <2>1. \A k \in 1 .. c : w[k] # NUL /\ w[k] # Blank
    BY <1>1, Characters DEF NoBlank
  <2>2. \A x : x \in Gaps => x = NUL \/ x = Blank
    BY DEF Gaps, Blank
  <2> QED BY <2>1, <2>2
<1>6. strchr(g, Gaps) = {k \in 1 .. size : c < k}
  <2>1. DOMAIN g = 1 .. size
    BY <1>4, LenProperties DEF Memory
  <2>2. \A k \in 1 .. size : g[k] \in Gaps <=> c < k
    <3>1. ASSUME NEW k \in 1 .. size, c < k PROVE g[k] \in Gaps
      <4>1. ~(k <= c)
        BY <1>2, <3>1
      <4> QED BY <1>4, <4>1, BlankIn
    <3>2. ASSUME NEW k \in 1 .. size, ~(c < k) PROVE g[k] \notin Gaps
      <4>1. k <= c /\ k \in 1 .. c
        BY <1>2, <3>2
      <4> QED BY <1>4, <1>5, <4>1
    <3> QED BY <3>1, <3>2
  <2> QED BY <2>1, <2>2 DEF strchr
<1> DEFINE S == {k - 1 : k \in strchr(g, Gaps)} \cup {size}
<1>7. Min(S) = t
  <2>1. \A x \in S : x \in Nat /\ t <= x
    BY <1>2, <1>3, <1>6
  <2>2. t \in S
    <3>1. CASE t = size
      BY <3>1
    <3>2. CASE t < size
      <4>1. t + 1 \in strchr(g, Gaps) /\ (t + 1) - 1 = t
        BY <1>2, <1>3, <1>6, <3>2
      <4> QED BY <4>1
    <3> QED BY <1>3, <3>1, <3>2
  <2> HIDE DEF S
  <2>3. S \in SUBSET Nat /\ S # {}
    BY <2>1, <2>2
  <2>4. Min(S) \in S /\ \A x \in S : Min(S) <= x
    BY <2>3, MinIn
  <2>5. Min(S) <= t /\ t <= Min(S) /\ Min(S) \in Nat
    BY <2>1, <2>2, <2>4
  <2> QED BY <1>3, <2>5
<1>8. field(f, p, size) = SubSeq(g, 1, t)
  <2>1. field(f, p, size) = SubSeq(g, 1, Min(S))
    BY <1>1 DEF field, Gaps
  <2> HIDE DEF S
  <2> QED BY <1>7, <2>1
<1> HIDE DEF S
<1>9. 1 \in Nat /\ 1 <= 1 /\ 1 <= t + 1 /\ (t - 1) + 1 = t
  BY <1>3
<1>10. SubSeq(g, 1, t) \in Memory /\ Len(SubSeq(g, 1, t)) = t
       /\ \A k \in 1 .. t : SubSeq(g, 1, t)[k] = g[1 + k - 1]
  BY <1>3, <1>4, <1>9, Piece DEF Memory
<1>11. SubSeq(w, 1, t) \in Seq(Char) /\ Len(SubSeq(w, 1, t)) = t
       /\ \A k \in 1 .. t : SubSeq(w, 1, t)[k] = w[1 + k - 1]
  BY <1>1, <1>3, <1>9, Piece
<1>12. SubSeq(g, 1, t) = SubSeq(w, 1, t)
  <2>1. PICK a, b : a = SubSeq(g, 1, t) /\ b = SubSeq(w, 1, t)
    OBVIOUS
  <2>2. ASSUME NEW k \in 1 .. t PROVE a[k] = b[k]
    <3>1. 1 + k - 1 = k /\ k \in 1 .. size /\ k <= c
      BY <1>2, <1>3
    <3> QED BY <1>4, <1>10, <1>11, <2>1, <3>1
  <2>3. b \in Memory
    BY <1>11, <2>1, Characters
  <2> QED BY <1>10, <1>11, <2>1, <2>2, <2>3, SeqEqual DEF Memory
<1>13. prefix(w, size) = SubSeq(w, 1, t)
  BY <1>1 DEF prefix
<1> QED BY <1>8, <1>11, <1>12, <1>13

Dots == {"."}
EntrySize == NAME_LEN + EXT_LEN + 1

\* The cells of the entry that fat12_create_file writes: the part in front of
\* the dot and the one behind it, each in its field.
DotOf(name) == Min(strchr(name, Dots))
BaseOf(name) == SubSeq(name, 1, DotOf(name) - 1)
ExtOf(name) == SubSeq(name, DotOf(name) + 1, Len(name))

EntryHas(f, base, ext) ==
  /\ f \in Memory /\ Len(f) = EntrySize
  /\ \A k \in 1 .. NAME_LEN : f[k] = IF k <= Len(base) THEN base[k] ELSE Blank
  /\ \A k \in 1 .. EXT_LEN : f[NAME_LEN + k] = IF k <= Len(ext) THEN ext[k] ELSE Blank
  /\ Len(base) <= NAME_LEN + EXT_LEN /\ Len(ext) <= EXT_LEN => f[EntrySize] = NUL

LEMMA NameWritten ==
  ASSUME NEW name \in Seq(Char), strchr(name, Dots) # {}
  PROVE  /\ DotOf(name) \in 1 .. Len(name)
         /\ BaseOf(name) \in Seq(Char) /\ ExtOf(name) \in Seq(Char)
         /\ EntryHas(named_entry(zeros(EntrySize), name), BaseOf(name), ExtOf(name))
<1>1. PICK dot, base, ext, f :
        /\ dot = DotOf(name) /\ base = BaseOf(name) /\ ext = ExtOf(name)
        /\ f = named_entry(zeros(EntrySize), name)
  OBVIOUS
<1>2. PICK N, E, S, x, tmp, c :
        /\ N = NAME_LEN /\ E = EXT_LEN /\ S = EntrySize /\ x = Append(zeros(EntrySize), NUL)
        /\ tmp = Append(name, NUL) /\ c = strsep(tmp, 1, Dots)
  OBVIOUS
<1>3. N \in Nat /\ N # 0 /\ E \in Nat /\ E # 0 /\ S = N + E + 1 /\ S \in Nat
  BY <1>2, LineAssumption DEF EntrySize
<1>4. zeros(S) \in Memory /\ Len(zeros(S)) = S /\ \A k \in 1 .. S : zeros(S)[k] = NUL
  BY <1>3 DEF zeros, Memory
<1>5. x \in Memory /\ Len(x) = S + 1 /\ \A k \in 1 .. S + 1 : x[k] = NUL
  <2>1. NUL \in Char \cup {NUL} /\ x = Append(zeros(S), NUL)
    BY <1>2
  <2>2. PICK z : z = zeros(S)
    OBVIOUS
  <2>3. x \in Memory /\ Len(x) = S + 1 /\ x[S + 1] = NUL /\ \A k \in 1 .. S : x[k] = z[k]
    BY <1>4, <2>1, <2>2, AppendProperties DEF Memory
  <2>4. \A k \in 1 .. S + 1 : k = S + 1 \/ k \in 1 .. S
    BY <1>3
  <2> QED BY <1>4, <2>2, <2>3, <2>4
<1>6. tmp \in Memory /\ Holds(tmp, 1, name)
  <2>1. NUL \in Char \cup {NUL} /\ name \in Memory /\ Len(name) \in Nat
    BY Characters
  <2>2. tmp \in Memory /\ Len(tmp) = Len(name) + 1 /\ tmp[Len(name) + 1] = NUL
        /\ \A k \in 1 .. Len(name) : tmp[k] = name[k]
    BY <1>2, <2>1, AppendProperties DEF Memory
  <2>3. 1 \in Nat \ {0} /\ 1 + Len(name) <= Len(tmp) /\ 1 + Len(name) = Len(name) + 1
    BY <2>1, <2>2
  <2>4. \A k \in 1 .. Len(name) : 1 + k - 1 = k
    BY <2>1
  <2> QED BY <2>2, <2>3, <2>4 DEF Holds
<1>7. string(c.mem, 1) = base /\ string(c.mem, c.rest) = ext /\ base \in Seq(Char) /\ ext \in Seq(Char)
  <2> DEFINE y == strsep(tmp, 1, Dots)
             m == Min(strchr(name, Dots))
  <2>1. /\ y.mem \in Memory
        /\ Holds(y.mem, 1, SubSeq(name, 1, m - 1))
        /\ Holds(y.mem, y.rest, SubSeq(name, m + 1, Len(name)))
    BY <1>6, TokenCut
  <2> HIDE DEF y, m
  <2>2. c = y /\ dot = m
    BY <1>1, <1>2 DEF y, m, DotOf
  <2>3. Holds(c.mem, 1, base) /\ Holds(c.mem, c.rest, ext) /\ c.mem \in Memory
    BY <1>1, <2>1, <2>2 DEF BaseOf, ExtOf
  <2>4. base \in Seq(Char) /\ ext \in Seq(Char)
    BY <2>3 DEF Holds
  <2>5. string(c.mem, 1) = base
    BY <2>3, StringHeld
  <2>6. string(c.mem, c.rest) = ext
    BY <2>3, StringHeld
  <2> QED BY <2>4, <2>5, <2>6
<1>8. PICK u : u = padded(strcpy(x, 1, base), 1, N)
  OBVIOUS
<1>9. /\ u \in Memory /\ Len(u) = S + 1
      /\ \A k \in 1 .. N : u[k] = IF k <= Len(base) THEN base[k] ELSE Blank
      /\ Len(base) <= N + E => u[S] = NUL
  <2>1. 1 \in Nat /\ 1 <= 1 /\ 1 + N <= Len(x) /\ Len(base) \in Nat
    BY <1>3, <1>5, <1>7
  <2>2. /\ u \in Memory /\ Len(u) = Len(x)
        /\ \A k \in 1 .. N : u[1 + k - 1] = IF k <= Len(base) THEN base[k] ELSE Blank
        /\ \A k \in 1 .. Len(x) : 1 + N <= k =>
             u[k] = IF k < 1 + Len(base) THEN base[k - 1 + 1]
                    ELSE IF k = 1 + Len(base) THEN NUL ELSE x[k]
    <3>1. Padded(u, x, 1, N, base)
      BY <1>3, <1>5, <1>7, <1>8, <2>1, FieldWritten
    <3> QED BY <3>1 DEF Padded
  <2>3. \A k \in 1 .. N : 1 + k - 1 = k
    BY <1>3
  <2>4. S \in 1 .. Len(x) /\ 1 + N <= S /\ S \in 1 .. S + 1 /\ (Len(base) <= N + E => ~(S < 1 + Len(base)))
    <3>1. PICK b, d : b = Len(base) /\ d = Len(x)
      OBVIOUS
    <3>2. b \in Nat /\ d = S + 1
      BY <1>5, <2>1, <3>1
    <3>3. S \in 1 .. d /\ 1 + N <= S /\ S \in 1 .. S + 1 /\ (b <= N + E => ~(S < 1 + b))
      BY <1>3, <3>2
    <3> QED BY <3>1, <3>3
  <2>5. Len(base) <= N + E => u[S] = NUL
    BY <1>5, <2>2, <2>4
  <2> QED BY <1>5, <2>2, <2>3, <2>5
<1>10. PICK v : v = padded(strcpy(u, N + 1, ext), N + 1, E)
  OBVIOUS
<1>11. /\ v \in Memory /\ Len(v) = S + 1
       /\ \A k \in 1 .. N : v[k] = u[k]
       /\ \A k \in 1 .. E : v[N + k] = IF k <= Len(ext) THEN ext[k] ELSE Blank
       /\ Len(base) <= N + E /\ Len(ext) <= E => v[S] = NUL
  <2>1. PICK p : p = N + 1
    OBVIOUS
  <2>2. p \in Nat /\ 1 <= p /\ p + E <= Len(u) /\ Len(ext) \in Nat /\ Len(u) = S + 1
    BY <1>3, <1>7, <1>9, <2>1
  <2>3. /\ v \in Memory /\ Len(v) = Len(u)
        /\ \A k \in 1 .. Len(u) : k < p => v[k] = u[k]
        /\ \A k \in 1 .. E : v[p + k - 1] = IF k <= Len(ext) THEN ext[k] ELSE Blank
        /\ \A k \in 1 .. Len(u) : p + E <= k =>
             v[k] = IF k < p + Len(ext) THEN ext[k - p + 1]
                    ELSE IF k = p + Len(ext) THEN NUL ELSE u[k]
    <3>1. Padded(v, u, p, E, ext)
      BY <1>3, <1>7, <1>9, <1>10, <2>1, <2>2, FieldWritten
    <3> QED BY <3>1 DEF Padded
  <2>4. \A k \in 1 .. E : p + k - 1 = N + k
    BY <1>3, <2>1
  <2>5. \A k \in 1 .. N : k \in 1 .. Len(u) /\ k < p
    BY <1>3, <2>1, <2>2
  <2>6. S \in 1 .. Len(u) /\ p + E <= S /\ (Len(ext) <= E => ~(S < p + Len(ext)))
    <3>1. PICK b, d : b = Len(ext) /\ d = Len(u)
      OBVIOUS
    <3>2. b \in Nat /\ d = S + 1
      BY <2>2, <3>1
    <3>3. S \in 1 .. d /\ p + E <= S /\ (b <= E => ~(S < p + b))
      BY <1>3, <2>1, <3>2
    <3> QED BY <3>1, <3>3
  <2>7. Len(base) <= N + E /\ Len(ext) <= E => v[S] = NUL
    BY <1>9, <2>3, <2>6
  <2> QED BY <2>2, <2>3, <2>4, <2>5, <2>7
<1>12. f = SubSeq(v, 1, S)
  <2>1. c = strsep(Append(name, NUL), 1, {"."})
    BY <1>2 DEF Dots
  <2>2. zeros(S) = zeros(EntrySize)
    BY <1>2
  <2>3. f = SubSeq(padded(strcpy(padded(strcpy(Append(zeros(S), NUL), 1, string(c.mem, 1)), 1, NAME_LEN),
                                 NAME_LEN + 1, string(c.mem, c.rest)), NAME_LEN + 1, EXT_LEN),
                   1, Len(zeros(S)))
    BY <1>1, <2>1, <2>2 DEF named_entry
  <2> QED BY <1>2, <1>4, <1>7, <1>8, <1>10, <2>2, <2>3
<1>13. f \in Memory /\ Len(f) = S /\ \A k \in 1 .. S : f[k] = v[k]
  <2>1. 1 \in Nat /\ 1 <= 1 /\ 1 <= S + 1 /\ S <= S + 1 /\ (S - 1) + 1 = S
    BY <1>3
  <2>2. f \in Memory /\ Len(f) = (S - 1) + 1 /\ \A k \in 1 .. (S - 1) + 1 : f[k] = v[1 + k - 1]
    BY <1>3, <1>11, <1>12, <2>1, Piece DEF Memory
  <2>3. \A k \in 1 .. S : 1 + k - 1 = k
    BY <1>3
  <2> QED BY <2>1, <2>2, <2>3
<1>14. /\ \A k \in 1 .. N : f[k] = IF k <= Len(base) THEN base[k] ELSE Blank
       /\ \A k \in 1 .. E : f[N + k] = IF k <= Len(ext) THEN ext[k] ELSE Blank
       /\ Len(base) <= N + E /\ Len(ext) <= E => f[S] = NUL
  <2>1. (\A k \in 1 .. N : k \in 1 .. S) /\ (\A k \in 1 .. E : N + k \in 1 .. S) /\ S \in 1 .. S
    BY <1>3
  <2> QED BY <1>9, <1>11, <1>13, <2>1
<1>15. dot \in 1 .. Len(name)
  BY <1>1, FirstFound DEF DotOf
<1>16. EntryHas(f, base, ext)
  BY <1>2, <1>13, <1>14 DEF EntryHas
<1> QED BY <1>1, <1>7, <1>15, <1>16

\* What fat12_construct_file_name makes of it.
FoundAs(f, name, base, ext) ==
  /\ strchr(name, Blanks) = {} =>
       fat12_construct_file_name(f) =
         tolower(prefix(base, NAME_LEN)
                 \o IF ext = <<>> THEN <<>> ELSE <<".">> \o prefix(ext, EXT_LEN))
  /\ Len(base) <= NAME_LEN + EXT_LEN /\ Len(ext) <= EXT_LEN => ~ directory(f)

LEMMA NameRead ==
  ASSUME NEW name \in Seq(Char), strchr(name, Dots) # {},
         NEW f, f = named_entry(zeros(EntrySize), name)
  PROVE  FoundAs(f, name, BaseOf(name), ExtOf(name))
<1>1. PICK dot, base, ext : dot = DotOf(name) /\ base = BaseOf(name) /\ ext = ExtOf(name)
  OBVIOUS
<1>2. PICK N, E : N = NAME_LEN /\ E = EXT_LEN
  OBVIOUS
<1>3. N \in Nat /\ N # 0 /\ E \in Nat /\ E # 0 /\ EntrySize = N + E + 1 /\ NUL \notin DirectoryLetters
  BY <1>2, LineAssumption DEF EntrySize
<1>4. /\ dot \in 1 .. Len(name) /\ base \in Seq(Char) /\ ext \in Seq(Char)
      /\ f \in Memory /\ Len(f) = EntrySize
      /\ \A k \in 1 .. N : f[k] = IF k <= Len(base) THEN base[k] ELSE Blank
      /\ \A k \in 1 .. E : f[N + k] = IF k <= Len(ext) THEN ext[k] ELSE Blank
      /\ Len(base) <= NAME_LEN + EXT_LEN /\ Len(ext) <= EXT_LEN => f[EntrySize] = NUL
  <2>1. EntryHas(f, base, ext) /\ dot \in 1 .. Len(name) /\ base \in Seq(Char) /\ ext \in Seq(Char)
    BY <1>1, NameWritten
  <2> QED BY <1>2, <2>1 DEF EntryHas
<1>5. ASSUME Len(base) <= NAME_LEN + EXT_LEN, Len(ext) <= EXT_LEN PROVE ~ directory(f)
  BY <1>3, <1>4, <1>5 DEF directory, EntrySize
<1>6. ASSUME strchr(name, Blanks) = {}
      PROVE  NoBlank(base) /\ NoBlank(ext)
  <2>1. Len(name) \in Nat /\ \A k \in 1 .. Len(name) : name[k] # Blank
    <3>1. strchr(name, Blanks) = {j \in 1 .. Len(name) : name[j] = Blank}
      BY BlanksOf
    <3> QED BY <1>6, <3>1
  <2>2. PICK n : n = Len(name)
    OBVIOUS
  <2>3. /\ 1 \in Nat /\ 1 <= 1 /\ dot - 1 \in Nat /\ dot - 1 <= n /\ 1 <= (dot - 1) + 1
        /\ dot + 1 \in Nat /\ 1 <= dot + 1 /\ dot + 1 <= n + 1 /\ n \in Nat /\ n <= n
    BY <1>4, <2>1, <2>2
  <2>4. Len(base) = ((dot - 1) - 1) + 1 /\ \A k \in 1 .. ((dot - 1) - 1) + 1 : base[k] = name[1 + k - 1]
    BY <1>1, <2>2, <2>3, Piece DEF BaseOf, ExtOf
  <2>5. Len(ext) = (n - (dot + 1)) + 1 /\ \A k \in 1 .. (n - (dot + 1)) + 1 : ext[k] = name[dot + 1 + k - 1]
    BY <1>1, <2>2, <2>3, Piece DEF BaseOf, ExtOf
  <2>6. /\ \A k \in 1 .. ((dot - 1) - 1) + 1 : 1 + k - 1 \in 1 .. n
        /\ \A k \in 1 .. (n - (dot + 1)) + 1 : dot + 1 + k - 1 \in 1 .. n
    BY <1>4, <2>2, <2>3
  <2>7. \A k \in 1 .. Len(base) : base[k] # Blank
    BY <2>1, <2>2, <2>4, <2>6
  <2>8. \A k \in 1 .. Len(ext) : ext[k] # Blank
    BY <2>1, <2>2, <2>5, <2>6
  <2> QED BY <2>7, <2>8 DEF NoBlank
<1>7. ASSUME strchr(name, Blanks) = {} PROVE field(f, 1, N) = prefix(base, N)
  <2>1. 1 \in Nat /\ 1 <= 1 /\ 1 + N <= Len(f) + 1 /\ \A k \in 1 .. N : 1 + k - 1 = k
    BY <1>3, <1>4
  <2>2. FieldHas(f, 1, N, base)
    BY <1>4, <2>1 DEF FieldHas
  <2>3. f \in Memory /\ base \in Seq(Char) /\ NoBlank(base) /\ N \in Nat
    BY <1>3, <1>4, <1>6, <1>7
  <2> QED BY <2>1, <2>2, <2>3, FieldRead
<1>8. ASSUME strchr(name, Blanks) = {} PROVE field(f, N + 1, E) = prefix(ext, E)
  <2>1. PICK p : p = N + 1
    OBVIOUS
  <2>2. p \in Nat /\ 1 <= p /\ p + E <= Len(f) + 1 /\ \A k \in 1 .. E : p + k - 1 = N + k
    BY <1>3, <1>4, <2>1
  <2>3. FieldHas(f, p, E, ext)
    BY <1>4, <2>2 DEF FieldHas
  <2>4. f \in Memory /\ ext \in Seq(Char) /\ NoBlank(ext) /\ E \in Nat
    BY <1>3, <1>4, <1>6, <1>8
  <2>5. field(f, p, E) = prefix(ext, E)
    BY <2>2, <2>3, <2>4, FieldRead
  <2> QED BY <2>1, <2>5
<1>9. ASSUME strchr(name, Blanks) = {} PROVE f[N + 1] = Blank <=> ext = <<>>
  <2>1. f[N + 1] = IF 1 <= Len(ext) THEN ext[1] ELSE Blank
    <3>1. 1 \in 1 .. E
      BY <1>3
    <3> QED BY <1>4, <3>1
  <2>2. CASE ext = <<>>
    <3>1. Len(ext) = 0
      BY <1>4, <2>2, EmptySeq
    <3> QED BY <2>1, <2>2, <3>1
  <2>3. CASE ext # <<>>
    <3>1. Len(ext) # 0 /\ Len(ext) \in Nat
      BY <1>4, <2>3, EmptySeq
    <3>2. 1 <= Len(ext) /\ 1 \in 1 .. Len(ext)
      BY <3>1
    <3> QED BY <1>6, <1>9, <2>1, <2>3, <3>2 DEF NoBlank
  <2> QED BY <2>2, <2>3
<1>10. ASSUME strchr(name, Blanks) = {}
      PROVE  fat12_construct_file_name(f) =
               tolower(prefix(base, NAME_LEN)
                       \o IF ext = <<>> THEN <<>> ELSE <<".">> \o prefix(ext, EXT_LEN))
  <2>1. fat12_construct_file_name(f) =
          tolower(field(f, 1, NAME_LEN)
                  \o IF f[NAME_LEN + 1] = Blank THEN <<>>
                     ELSE <<".">> \o field(f, NAME_LEN + 1, EXT_LEN))
    BY DEF fat12_construct_file_name, Blank
  <2> QED BY <1>2, <1>7, <1>8, <1>9, <1>10, <2>1
<1> QED BY <1>1, <1>5, <1>10 DEF FoundAs

Cp == <<"c", "p">>
X == <<"x">>

\* The newest entry is that of the name behind the last cp.
NameInv ==
  /\ Len(entry) = EntrySize
  /\ rest = NULL /\ Len(words) = 3 /\ command = Cp =>
       /\ string(str, words[3]) \in Seq(Char)
       /\ strchr(string(str, words[3]), Dots) # {}
       /\ entry = named_entry(zeros(EntrySize), string(str, words[3]))

LEMMA NameInvMeans ==
  ASSUME NameInv
  PROVE  NamesFound
<1> SUFFICES ASSUME rest = NULL, Len(words) = 3, command = Cp PROVE NamesFound
  BY DEF NamesFound, Cp
<1>1. PICK name : name = string(str, words[3])
  OBVIOUS
<1>2. FoundAs(entry, name, BaseOf(name), ExtOf(name))
  BY <1>1, NameRead DEF NameInv
<1> QED BY <1>1, <1>2 DEF NamesFound, FoundAs, BaseOf, ExtOf, DotOf, Dots, Blanks

LEMMA CommandWords == X # Cp /\ <<"c", "d">> # Cp
<1>1. Len(X) = 1 /\ Len(Cp) = 2
  BY DEF X, Cp
<1>2. X # Cp
  BY <1>1
<1>3. <<"c", "d">> # Cp
  BY DEF Cp
<1> QED BY <1>2, <1>3

LEMMA NameInvInit ==
  ASSUME lineInit
  PROVE  NameInv
<1>1. entry = zeros(EntrySize) /\ words = <<>>
  BY DEF lineInit, EntrySize
<1>2. EntrySize \in Nat
  BY LineAssumption DEF EntrySize
<1>3. Len(zeros(EntrySize)) = EntrySize
  BY <1>2 DEF zeros
<1>4. Len(words) # 3
  BY <1>1
<1> QED BY <1>1, <1>3, <1>4 DEF NameInv

\* The command stays what it is while strsep cuts what is behind it.
LEMMA CommandStays ==
  ASSUME LineInv, words # <<>>, separate
  PROVE  command' = command
<1>1. PICK w, x, p, y : w = command /\ x = str /\ p = rest /\ y = str'
  OBVIOUS
<1>2. Holds(x, 1, w) /\ 1 + Len(w) < p /\ x \in Memory
  <2>1. rest # NULL
    BY DEF separate
  <2> QED BY <1>1, <2>1, CommandThere DEF LineInv
<1>3. y \in Memory /\ Len(y) = Len(x) /\ \A j \in 1 .. Len(x) : j < p => y[j] = x[j]
  BY <1>1, SeparateCuts DEF LineInv
<1>4. p \in Nat
  BY <1>1 DEF LineInv
<1>5. PICK n, l : n = Len(w) /\ l = Len(x)
  OBVIOUS
<1>6. /\ l \in Nat /\ n \in Nat /\ 1 + n <= l /\ w \in Seq(Char)
      /\ \A k \in 1 .. n : x[1 + k - 1] = w[k]
      /\ x[1 + n] = NUL
  BY <1>2, <1>5, HeldCells
<1>7. /\ \A k \in 1 .. n : 1 + k - 1 \in 1 .. l /\ 1 + k - 1 < p
      /\ 1 + n \in 1 .. l /\ 1 + n < p
  BY <1>2, <1>4, <1>5, <1>6
<1>8. (\A k \in 1 .. n : y[1 + k - 1] = w[k]) /\ y[1 + n] = NUL
  BY <1>3, <1>5, <1>6, <1>7
<1>9. Holds(y, 1, w)
  <2>1. 1 \in Nat \ {0} /\ 1 + n <= Len(y)
    BY <1>3, <1>5, <1>6
  <2> QED BY <1>5, <1>6, <1>8, <2>1 DEF Holds
<1>10. string(y, 1) = w
  BY <1>3, <1>9, StringHeld
<1> QED BY <1>1, <1>10 DEF command

LEMMA NameInvNext ==
  ASSUME LineInv, NameInv, [lineNext]_lineVars
  PROVE  NameInv'
<1>1. words \in Seq(Nat) /\ Len(words) \in Nat
  BY DEF LineInv
<1>2. ASSUME NEW line \in Lines, getline(line) PROVE NameInv'
  <2>1. entry' = entry /\ Len(words') # 3
    BY <1>2 DEF getline
  <2> QED BY <2>1 DEF NameInv
<1>3. CASE separate
  <2>1. entry' = entry /\ words' = Append(words, rest)
        /\ (words = <<>> \/ command = X \/ (command = Cp /\ Len(words) = 1))
    BY <1>3 DEF separate, X, Cp
  <2>2. Len(words') = Len(words) + 1
    <3>1. rest \in Nat
      BY DEF LineInv
    <3> QED BY <1>1, <2>1, <3>1, AppendProperties
  <2>3. CASE words # <<>> /\ command = X
    <3>1. command' # Cp
      BY <1>3, <2>3, CommandStays, CommandWords
    <3> QED BY <2>1, <3>1 DEF NameInv
  <2>4. CASE words = <<>> \/ Len(words) = 1
    <3>1. PICK n : n = Len(words)
      OBVIOUS
    <3>2. n = 0 \/ n = 1
      BY <1>1, <2>4, <3>1, EmptySeq
    <3>3. n + 1 # 3 /\ Len(words') = n + 1
      BY <2>2, <3>1, <3>2
    <3>4. Len(words') # 3
      BY <3>3
    <3> QED BY <2>1, <3>4 DEF NameInv
  <2> QED BY <2>1, <2>3, <2>4
<1>4. CASE cd \/ cd_fails \/ other_command
  <2>1. entry' = entry /\ command # Cp /\ str' = str
    BY <1>4, CommandWords DEF cd, cd_fails, other_command, answered, Cp
  <2>2. command' # Cp
    BY <2>1 DEF command
  <2> QED BY <2>1, <2>2 DEF NameInv
<1>5. CASE cp
  <2>1. /\ rest # NULL /\ Len(words) = 2 /\ strchr(argument, Dots) # {}
        /\ entry' = named_entry(zeros(Len(entry)), argument)
        /\ words' = Append(words, rest) /\ str' = str
    BY <1>5 DEF cp, answered, Dots
  <2>2. argument \in Seq(Char) /\ rest \in Nat
    BY <2>1, ArgumentThere DEF LineInv
  <2>3. words'[3] = rest
    <3>1. Append(words, rest)[Len(words) + 1] = rest
      BY <1>1, <2>2, AppendProperties
    <3>2. PICK n : n = Len(words)
      OBVIOUS
    <3>3. n = 2 /\ n + 1 = 3
      BY <2>1, <3>2
    <3> QED BY <2>1, <3>1, <3>2, <3>3
  <2>4. string(str', words'[3]) = argument
    BY <2>1, <2>3 DEF argument
  <2>5. entry' = named_entry(zeros(EntrySize), argument)
    BY <2>1 DEF NameInv
  <2>6. Len(entry') = EntrySize
    <3>1. EntryHas(named_entry(zeros(EntrySize), argument), BaseOf(argument), ExtOf(argument))
      BY <2>1, <2>2, NameWritten
    <3> QED BY <2>5, <3>1 DEF EntryHas
  <2>7. EntrySize' = EntrySize
    BY DEF EntrySize
  <2> QED BY <2>1, <2>2, <2>4, <2>5, <2>6, <2>7 DEF NameInv
<1>6. CASE UNCHANGED lineVars
  <2>1. entry' = entry /\ rest' = rest /\ words' = words /\ str' = str
    BY <1>6 DEF lineVars
  <2>2. command' = command
    BY <2>1 DEF command
  <2> QED BY <2>1, <2>2 DEF NameInv
<1> QED BY <1>2, <1>3, <1>4, <1>5, <1>6 DEF lineNext

\* fat12_find_entry compares with what fat12_construct_file_name puts together:
\* a file that cp wrote is found under the name it was given, cut to its fields.
THEOREM NameIsFound == LineSpec => []NamesFound
<1>1. lineInit => LineInv /\ NameInv
  BY LineInvInit, NameInvInit
<1>2. LineInv /\ NameInv /\ [lineNext]_lineVars => LineInv' /\ NameInv'
  BY LineInvNext, NameInvNext
<1>3. NameInv => NamesFound
  BY NameInvMeans
<1> QED BY <1>1, <1>2, <1>3, PTL DEF LineSpec

-----------------------------------------------------------------------------
(* Division, and ints.                                                     *)

LEMMA Product ==
  ASSUME NEW b \in Nat \ {0}, NEW x \in Int, NEW y \in Int, x < y
  PROVE  b * x + b <= b * y
<1>1. PICK d \in Nat : y = x + 1 + d
  <2>1. y - (x + 1) \in Nat /\ y = x + 1 + (y - (x + 1))
    OBVIOUS
  <2> QED BY <2>1
<1>2. b * y = b * x + b + b * d
  BY <1>1
<1>3. b * d >= 0
  OBVIOUS
<1>4. b * x \in Int /\ b * y \in Int /\ b * d \in Int
  BY <1>1
<1> QED BY <1>2, <1>3, <1>4

LEMMA Division ==
  ASSUME NEW a \in Int, NEW b \in Nat \ {0}
  PROVE  a % b \in 0 .. b - 1 /\ a \div b \in Int /\ a = b * (a \div b) + (a % b)
OBVIOUS

\* There is one way to divide with a remainder.
LEMMA DivisionUnique ==
  ASSUME NEW a \in Int, NEW b \in Nat \ {0}, NEW q \in Int, NEW r \in 0 .. b - 1, a = b * q + r
  PROVE  a % b = r /\ a \div b = q
<1>1. PICK p \in Int, t \in 0 .. b - 1 : p = a \div b /\ t = a % b /\ a = b * p + t
  BY Division
<1>2. ~(p < q)
  <2>1. p < q => b * p + b <= b * q
    BY Product
  <2>2. b * p \in Int /\ b * q \in Int
    OBVIOUS
  <2> QED BY <1>1, <2>1, <2>2
<1>3. ~(q < p)
  <2>1. q < p => b * q + b <= b * p
    BY Product
  <2>2. b * p \in Int /\ b * q \in Int
    OBVIOUS
  <2> QED BY <1>1, <2>1, <2>2
<1>4. p = q
  BY <1>2, <1>3
<1> QED BY <1>1, <1>4

\* An int is the number less a multiple of two to the width.
LEMMA IntIs ==
  ASSUME NEW x \in Int
  PROVE  int(x) \in Int /\ \E q \in Int : int(x) = x - 2 ^ W * q
<1>1. PICK M, H : M = 2 ^ W /\ H = 2 ^ (W - 1)
  OBVIOUS
<1>2. H \in Nat \ {0} /\ M = 2 * H /\ M \in Nat \ {0}
  BY <1>1, WordAssumption
<1>3. int(x) = ((x + H) % M) - H
  BY <1>1 DEF int
<1>4. PICK q \in Int, t \in 0 .. M - 1 : t = (x + H) % M /\ x + H = M * q + t
  <2>1. PICK z : z = x + H
    OBVIOUS
  <2>2. z \in Int /\ M \in Nat \ {0}
    BY <1>2, <2>1
  <2>3. z % M \in 0 .. M - 1 /\ z \div M \in Int /\ z = M * (z \div M) + (z % M)
    BY <2>2, Division
  <2> QED BY <2>1, <2>3
<1>5. M * q \in Int
  BY <1>2
<1>6. int(x) = x - M * q /\ int(x) \in Int
  BY <1>2, <1>3, <1>4, <1>5
<1> QED BY <1>1, <1>6

LEMMA IntSame ==
  ASSUME NEW x \in Int, NEW q \in Int
  PROVE  int(x + 2 ^ W * q) = int(x)
<1>1. PICK M, H : M = 2 ^ W /\ H = 2 ^ (W - 1)
  OBVIOUS
<1>2. H \in Nat \ {0} /\ M = 2 * H /\ M \in Nat \ {0}
  BY <1>1, WordAssumption
<1>3. PICK m : m = M * q
  OBVIOUS
<1>4. m \in Int
  BY <1>2, <1>3
<1>5. int(x) = ((x + H) % M) - H /\ int(x + m) = ((x + m + H) % M) - H
  BY <1>1 DEF int
<1>6. PICK p \in Int, t \in 0 .. M - 1 : t = (x + H) % M /\ x + H = M * p + t
  <2>1. PICK z : z = x + H
    OBVIOUS
  <2>2. z \in Int /\ M \in Nat \ {0}
    BY <1>2, <2>1
  <2>3. z % M \in 0 .. M - 1 /\ z \div M \in Int /\ z = M * (z \div M) + (z % M)
    BY <2>2, Division
  <2> QED BY <2>1, <2>3
<1>7. x + m + H \in Int /\ p + q \in Int /\ x + m + H = M * (p + q) + t
  <2>1. M * (p + q) = M * p + M * q
    BY <1>2
  <2>2. M * p \in Int /\ M * q \in Int
    BY <1>2
  <2> QED BY <1>2, <1>3, <1>4, <1>6, <2>1, <2>2
<1>8. (x + m + H) % M = t
  BY <1>2, <1>7, DivisionUnique
<1> QED BY <1>1, <1>3, <1>5, <1>6, <1>8

\* It makes no difference when a number wraps around.
LEMMA IntLater ==
  ASSUME NEW x \in Int, NEW d \in Int
  PROVE  int(int(x) * 10 + d) = int(x * 10 + d)
<1>1. PICK M, y : M = 2 ^ W /\ y = int(x)
  OBVIOUS
<1>2. M \in Int /\ y \in Int
  BY <1>1, WordAssumption, IntIs
<1>3. PICK q \in Int : y = x - M * q
  BY <1>1, IntIs
<1>4. y * 10 + d = (x * 10 + d) + M * (-10 * q)
  <2>1. M * (-10 * q) = -10 * (M * q)
    BY <1>2
  <2>2. M * q \in Int
    BY <1>2
  <2> QED BY <1>2, <1>3, <2>1, <2>2
<1>5. -10 * q \in Int /\ x * 10 + d \in Int
  OBVIOUS
<1>6. int((x * 10 + d) + M * (-10 * q)) = int(x * 10 + d)
  BY <1>1, <1>5, IntSame
<1> QED BY <1>1, <1>4, <1>6

\* The bits of an int, read as an unsigned, are those of the int.
LEMMA IntUnsigned ==
  ASSUME NEW x \in Int
  PROVE  unsigned(x) \in Nat /\ int(unsigned(x)) = int(x)
<1>1. PICK M, u : M = 2 ^ W /\ u = unsigned(x)
  OBVIOUS
<1>2. M \in Nat \ {0} /\ u = x % M
  BY <1>1, WordAssumption DEF unsigned
<1>3. PICK q \in Int : q = x \div M /\ x = M * q + u /\ u \in Nat
  BY <1>2, Division
<1>4. int(u + M * q) = int(u)
  BY <1>1, <1>3, IntSame
<1>5. u + M * q = x
  <2>1. M * q \in Int
    BY <1>2
  <2> QED BY <1>3, <2>1
<1> QED BY <1>1, <1>3, <1>4, <1>5

-----------------------------------------------------------------------------
(* Digits.                                                                 *)

Dash == "-"

LEMMA Letters ==
  /\ DOMAIN bchars = 1 .. 16
  /\ \A j, k \in 1 .. 16 : bchars[j] = bchars[k] => j = k
  /\ \A k \in 1 .. 16 : bchars[k] \in Char /\ bchars[k] # Blank /\ bchars[k] # Dash
<1>1. DOMAIN bchars = 1 .. 16
  BY DEF bchars
<1>2. \A j, k \in 1 .. 16 : bchars[j] = bchars[k] => j = k
  BY DEF bchars
<1>3. /\ Blank # "0" /\ Blank # "1" /\ Blank # "2" /\ Blank # "3"
      /\ Blank # "4" /\ Blank # "5" /\ Blank # "6" /\ Blank # "7"
      /\ Blank # "8" /\ Blank # "9" /\ Blank # "A" /\ Blank # "B"
      /\ Blank # "C" /\ Blank # "D" /\ Blank # "E" /\ Blank # "F"
  BY Zenon DEF Blank
<1>4. ASSUME NEW k \in 1 .. 16 PROVE bchars[k] # Blank /\ bchars[k] # "-"
  <2>1. bchars[k] # Blank
    BY <1>3 DEF bchars
  <2>2. bchars[k] # "-"
    BY DEF bchars
  <2> QED BY <2>1, <2>2
<1>5. {bchars[k] : k \in DOMAIN bchars} \subseteq Char
  BY CharAssumption
<1> QED BY <1>1, <1>2, <1>4, <1>5 DEF Dash

LEMMA DigitIs ==
  ASSUME NEW k \in 0 .. 9
  PROVE  digit(bchars[k + 1]) = k /\ isdigit(bchars[k + 1])
<1>1. k + 1 \in 1 .. 16 /\ k + 1 \in 1 .. 10 /\ (k + 1) - 1 = k
  OBVIOUS
<1>2. (CHOOSE j \in DOMAIN bchars : bchars[j] = bchars[k + 1]) = k + 1
  BY <1>1, Letters
<1>3. digit(bchars[k + 1]) = (k + 1) - 1
  BY <1>2 DEF digit
<1> QED BY <1>1, <1>3 DEF isdigit

LEMMA DigitIn ==
  ASSUME NEW c, isdigit(c)
  PROVE  c \in Char /\ c # Blank /\ c # Dash
<1>1. PICK k \in 1 .. 10 : c = bchars[k]
  BY DEF isdigit
<1>2. k \in 1 .. 16
  OBVIOUS
<1> QED BY <1>1, <1>2, Letters

\* Dividing by ten.
Quotients(f, n) == f \in [Nat -> Nat] /\ f[0] = n /\ \A k \in Nat : f[k + 1] = f[k] \div 10

LEMMA Tenth ==
  ASSUME NEW x \in Nat
  PROVE  /\ x \div 10 \in Nat /\ x % 10 \in 0 .. 9 /\ x = (x \div 10) * 10 + (x % 10)
         /\ x # 0 => x \div 10 < x
         /\ x = 0 => x \div 10 = 0
OBVIOUS

\* Dividing by ten again and again leaves nothing.
LEMMA Vanishes ==
  ASSUME NEW n \in Nat, NEW f, Quotients(f, n)
  PROVE  f[n + 1] = 0
<1> DEFINE Q == {k \in Nat : f[k] = 0 \/ f[k] + k <= n}
<1>1. f \in [Nat -> Nat] /\ f[0] = n /\ \A k \in Nat : f[k + 1] = f[k] \div 10
  BY DEF Quotients
<1>2. 0 \in Q
  BY <1>1
<1>3. ASSUME NEW k \in Q PROVE k + 1 \in Q
  <2>1. PICK x, y : x = f[k] /\ y = f[k + 1]
    OBVIOUS
  <2>2. x \in Nat /\ y = x \div 10 /\ k \in Nat /\ (x = 0 \/ x + k <= n)
    BY <1>1, <2>1
  <2>3. y \in Nat /\ (x # 0 => y < x) /\ (x = 0 => y = 0)
    <3>1. x \in Nat /\ y = x \div 10
      BY <2>2
    <3> QED BY <3>1, Tenth
  <2>4. k + 1 \in Nat /\ (y = 0 \/ y + (k + 1) <= n)
    BY <2>2, <2>3
  <2> QED BY <2>1, <2>4
<1>4. Q \in SUBSET Nat
  OBVIOUS
<1> HIDE DEF Q
<1>5. \A k \in Nat : k \in Q
  BY <1>2, <1>3, <1>4, AllNumbers
<1>6. n + 1 \in Q /\ n + 1 \in Nat
  BY <1>5
<1>7. PICK x : x = f[n + 1]
  OBVIOUS
<1>8. x = 0 \/ x + (n + 1) <= n
  BY <1>6, <1>7 DEF Q
<1>9. x \in Nat
  BY <1>1, <1>6, <1>7
<1>10. x = 0
  BY <1>8, <1>9
<1> QED BY <1>7, <1>10

LEMMA QuotientsThere ==
  ASSUME NEW n \in Nat
  PROVE  \E f : Quotients(f, n)
<1> DEFINE nx == [k \in Nat |-> [d \in Nat |-> d \div 10]]
<1>1. nx \in [Nat -> [Nat -> Nat]]
  BY Tenth
<1>2. \A k, d \in Nat : nx[k][d] = d \div 10
  OBVIOUS
<1> HIDE DEF nx
<1>3. PICK f : IsIterated(f, Nat, nx, n)
  BY <1>1, Iterated
<1>4. f \in [Nat -> Nat] /\ f[0] = n /\ \A k \in Nat : f[k + 1] = nx[k + 1][f[k]]
  BY <1>3 DEF IsIterated
<1>5. ASSUME NEW k \in Nat PROVE f[k + 1] = f[k] \div 10
  <2>1. PICK x, j : x = f[k] /\ j = k + 1
    OBVIOUS
  <2>2. x \in Nat /\ j \in Nat /\ f[j] = nx[j][x]
    BY <1>4, <2>1
  <2>3. f[j] = x \div 10
    BY <1>2, <2>2
  <2> QED BY <2>1, <2>3
<1> QED BY <1>4, <1>5 DEF Quotients

\* The number that itoa takes apart.
LEMMA QuotientsChosen ==
  ASSUME NEW n \in Nat,
         NEW left, left = CHOOSE f : f = [k \in Nat |-> IF k = 0 THEN n ELSE f[k - 1] \div 10]
  PROVE  Quotients(left, n)
<1>1. PICK g : Quotients(g, n)
  BY QuotientsThere
<1>2. g \in [Nat -> Nat] /\ g[0] = n /\ \A k \in Nat : g[k + 1] = g[k] \div 10
  BY <1>1 DEF Quotients
<1>3. \A k \in Nat : g[k] = IF k = 0 THEN n ELSE g[k - 1] \div 10
  <2>1. ASSUME NEW k \in Nat, k # 0 PROVE g[k] = g[k - 1] \div 10
    <3>1. k - 1 \in Nat /\ (k - 1) + 1 = k
      BY <2>1
    <3>2. g[(k - 1) + 1] = g[k - 1] \div 10
      BY <1>2, <3>1
    <3> QED BY <3>1, <3>2
  <2> QED BY <1>2, <2>1
<1>4. g = [k \in Nat |-> IF k = 0 THEN n ELSE g[k - 1] \div 10]
  <2> DEFINE e == [k \in Nat |-> IF k = 0 THEN n ELSE g[k - 1] \div 10]
  <2>1. e = [k \in Nat |-> e[k]] /\ g = [k \in Nat |-> g[k]] /\ \A k \in Nat : e[k] = g[k]
    BY <1>2, <1>3
  <2> HIDE DEF e
  <2>2. e = g
    BY <2>1
  <2> QED BY <2>2 DEF e
<1>5. left = [k \in Nat |-> IF k = 0 THEN n ELSE left[k - 1] \div 10]
  BY <1>4
<1>6. left[0] = n /\ \A k \in Nat : left[k + 1] = left[k] \div 10
  <2>1. left[0] = n
    BY <1>5
  <2>2. ASSUME NEW k \in Nat PROVE left[k + 1] = left[k] \div 10
    <3>1. k + 1 \in Nat /\ k + 1 # 0 /\ (k + 1) - 1 = k
      OBVIOUS
    <3>2. left[k + 1] = left[(k + 1) - 1] \div 10
      BY <1>5, <3>1
    <3> QED BY <3>1, <3>2
  <2> QED BY <2>1, <2>2
<1>7. \A k \in Nat : left[k] \in Nat
  <2> DEFINE Q == {k \in Nat : left[k] \in Nat}
  <2>1. 0 \in Q
    BY <1>6
  <2>2. ASSUME NEW k \in Q PROVE k + 1 \in Q
    BY <1>6, Tenth
  <2>3. Q \in SUBSET Nat
    OBVIOUS
  <2> HIDE DEF Q
  <2>4. \A k \in Nat : k \in Q
    BY <2>1, <2>2, <2>3, AllNumbers
  <2> QED BY <2>4 DEF Q
<1>8. left \in [Nat -> Nat]
  <2>1. left = [k \in Nat |-> left[k]]
    <3>1. PICK e : e = [k \in Nat |-> IF k = 0 THEN n ELSE left[k - 1] \div 10]
      OBVIOUS
    <3>2. e = [k \in Nat |-> e[k]]
      BY <3>1
    <3> QED BY <1>5, <3>1, <3>2
  <2> QED BY <1>7, <2>1
<1> QED BY <1>6, <1>8 DEF Quotients

DigitsAre(w, f, top) ==
  w \in Seq(Char) /\ Len(w) = top /\ \A o \in 1 .. top : w[o] = bchars[(f[top - o] % 10) + 1]

LEMMA ItoaDigits ==
  ASSUME NEW a \in Int
  PROVE  \E f, top : /\ Quotients(f, unsigned(a)) /\ top \in Nat \ {0} /\ f[top] = 0
                     /\ DigitsAre(itoa(a, 10), f, top)
<1> DEFINE n == unsigned(a)
           left == CHOOSE f : f = [pos \in Nat |-> IF pos = 0 THEN n ELSE f[pos - 1] \div 10]
           Z == {pos \in 1 .. n + 1 : left[pos] = 0}
           top == Min(Z)
           cell(o) == bchars[(left[top - o] % 10) + 1]
<1>1. n \in Nat
  BY IntUnsigned
<1>2. itoa(a, 10) = [o \in 1 .. top |-> cell(o)]
  <2>1. ~(10 > 16)
    OBVIOUS
  <2> QED BY <2>1 DEF itoa
<1> HIDE DEF n
<1>3. Quotients(left, n)
  BY <1>1, QuotientsChosen
<1> HIDE DEF left
<1>4. left[n + 1] = 0
  BY <1>1, <1>3, Vanishes
<1>5. Z \in SUBSET Nat /\ Z # {}
  <2>1. n + 1 \in Z
    BY <1>1, <1>4
  <2> QED BY <1>1, <2>1
<1>6. top \in Nat \ {0} /\ left[top] = 0
  <2>1. Min(Z) \in Z
    <3> HIDE DEF Z
    <3> QED BY <1>5, MinIn
  <2> QED BY <1>1, <2>1
<1> HIDE DEF top
<1>7. \A o \in 1 .. top : cell(o) \in Char
  <2>1. ASSUME NEW o \in 1 .. top PROVE cell(o) \in Char
    <3>1. PICK d : d = left[top - o] % 10
      OBVIOUS
    <3>2. top - o \in Nat
      BY <1>6
    <3>3. left[top - o] \in Nat
      BY <1>3, <3>2 DEF Quotients
    <3>4. d \in 0 .. 9
      BY <3>1, <3>3, Tenth
    <3>5. d + 1 \in 1 .. 16
      BY <3>4
    <3>6. bchars[d + 1] \in Char
      BY <3>5, Letters
    <3> QED BY <3>1, <3>6
  <2> QED BY <2>1
<1> HIDE DEF cell
<1>8. [o \in 1 .. top |-> cell(o)] \in Seq(Char) /\ Len([o \in 1 .. top |-> cell(o)]) = top
      /\ \A o \in 1 .. top : [k \in 1 .. top |-> cell(k)][o] = cell(o)
  BY <1>6, <1>7
<1>9. DigitsAre(itoa(a, 10), left, top)
  BY <1>2, <1>8 DEF DigitsAre, cell
<1> QED BY <1>3, <1>6, <1>9 DEF n

-----------------------------------------------------------------------------
(* A number that is read back.                                             *)

\* What read_int has after each digit.
Sums(f, m, z, sg) ==
  f[0] = 0 /\ \A k \in 1 .. m : f[k] = int(f[k - 1] * 10 + digit(z[sg + k]))

LEMMA SumsChosen ==
  ASSUME NEW m \in Nat, NEW z, NEW sg, \A k \in 1 .. m : digit(z[sg + k]) \in Int,
         NEW ret, ret = CHOOSE f : f = [k \in 0 .. m |-> IF k = 0 THEN 0
                                          ELSE int(f[k - 1] * 10 + digit(z[sg + k]))]
  PROVE  Sums(ret, m, z, sg)
<1> DEFINE nx == [k \in 1 .. m |-> [d \in Int |-> int(d * 10 + digit(z[sg + k]))]]
<1>1. nx \in [1 .. m -> [Int -> Int]]
  <2>1. ASSUME NEW k \in 1 .. m, NEW d \in Int PROVE int(d * 10 + digit(z[sg + k])) \in Int
    <3>1. d * 10 + digit(z[sg + k]) \in Int
      OBVIOUS
    <3> QED BY <3>1, IntIs
  <2> QED BY <2>1
<1>2. \A k \in 1 .. m, d \in Int : nx[k][d] = int(d * 10 + digit(z[sg + k]))
  OBVIOUS
<1> HIDE DEF nx
<1>3. PICK g : IsIteratedTo(g, m, Int, nx, 0)
  <2>1. 0 \in Int
    OBVIOUS
  <2> QED BY <1>1, <2>1, IteratedTo, Zenon
<1>4. g \in [0 .. m -> Int] /\ g[0] = 0 /\ \A k \in 1 .. m : g[k] = nx[k][g[k - 1]]
  BY <1>3 DEF IsIteratedTo
<1>5. \A k \in 1 .. m : g[k] = int(g[k - 1] * 10 + digit(z[sg + k]))
  <2>1. ASSUME NEW k \in 1 .. m PROVE g[k] = int(g[k - 1] * 10 + digit(z[sg + k]))
    <3>1. PICK x : x = g[k - 1]
      OBVIOUS
    <3>2. k - 1 \in 0 .. m
      OBVIOUS
    <3>3. x \in Int /\ g[k] = nx[k][x]
      BY <1>4, <3>1, <3>2
    <3> QED BY <1>2, <3>1, <3>3
  <2> QED BY <2>1
<1> DEFINE e == [k \in 0 .. m |-> IF k = 0 THEN 0 ELSE int(g[k - 1] * 10 + digit(z[sg + k]))]
<1>6. \A k \in 0 .. m : e[k] = g[k]
  <2>1. \A k \in 0 .. m : k = 0 \/ k \in 1 .. m
    OBVIOUS
  <2> QED BY <1>4, <1>5, <2>1
<1>7. g = e
  <2>1. e = [k \in 0 .. m |-> e[k]] /\ g = [k \in 0 .. m |-> g[k]]
    BY <1>4
  <2> HIDE DEF e
  <2> QED BY <1>6, <2>1
<1>8. ret = [k \in 0 .. m |-> IF k = 0 THEN 0 ELSE int(ret[k - 1] * 10 + digit(z[sg + k]))]
  BY <1>7
<1>9. ret[0] = 0
  <2>1. 0 \in 0 .. m
    OBVIOUS
  <2> QED BY <1>8, <2>1
<1>10. ASSUME NEW k \in 1 .. m PROVE ret[k] = int(ret[k - 1] * 10 + digit(z[sg + k]))
  <2>1. k \in 0 .. m /\ k # 0
    OBVIOUS
  <2> QED BY <1>8, <2>1
<1> QED BY <1>9, <1>10 DEF Sums

\* After as many digits it is the int of that much of the number.
LEMMA SumsAre ==
  ASSUME NEW n \in Nat, NEW f, Quotients(f, n), NEW top \in Nat, f[top] = 0,
         NEW w, DigitsAre(w, f, top), NEW z, \A k \in 1 .. top : z[k] = w[k],
         NEW ret, Sums(ret, top, z, 0)
  PROVE  ret[top] = int(n)
<1> DEFINE Q == {k \in Nat : k <= top => ret[k] = int(f[top - k])}
<1>1. f \in [Nat -> Nat] /\ f[0] = n /\ \A k \in Nat : f[k + 1] = f[k] \div 10
  BY DEF Quotients
<1>2. int(0) = 0
  <2>1. PICK M, H : M = 2 ^ W /\ H = 2 ^ (W - 1)
    OBVIOUS
  <2>2. H \in Nat \ {0} /\ M = 2 * H /\ M \in Nat \ {0}
    BY <2>1, WordAssumption
  <2>3. 0 + H \in Int /\ H \in 0 .. M - 1 /\ 0 + H = M * 0 + H
    BY <2>2
  <2>4. (0 + H) % M = H
    BY <2>2, <2>3, DivisionUnique
  <2>5. int(0) = H - H
    BY <2>1, <2>4 DEF int
  <2> QED BY <2>2, <2>5
<1>3. 0 \in Q
  <2>1. ret[0] = 0 /\ top - 0 = top
    BY DEF Sums
  <2> QED BY <1>2, <2>1
<1>4. ASSUME NEW k \in Q PROVE k + 1 \in Q
  <2> SUFFICES ASSUME k + 1 <= top PROVE ret[k + 1] = int(f[top - (k + 1)])
    OBVIOUS
  <2>1. PICK j, x, y, d : j = top - (k + 1) /\ x = f[j] /\ y = x \div 10 /\ d = x % 10
    OBVIOUS
  <2>2. j \in Nat /\ j + 1 = top - k /\ k + 1 \in 1 .. top /\ (k + 1) - 1 = k /\ 0 + (k + 1) = k + 1
        /\ top - (k + 1) = j /\ k <= top
    BY <2>1
  <2>3. x \in Nat
    BY <1>1, <2>1, <2>2
  <2>4. y \in Nat /\ d \in 0 .. 9 /\ x = y * 10 + d
    BY <2>1, <2>3, Tenth
  <2>5. ret[k] = int(y)
    <3>1. f[j + 1] = y
      BY <1>1, <2>1, <2>2
    <3>2. ret[k] = int(f[top - k])
      BY <2>2
    <3> QED BY <2>2, <3>1, <3>2
  <2>6. digit(z[k + 1]) = d
    <3>1. z[k + 1] = w[k + 1] /\ w[k + 1] = bchars[(f[top - (k + 1)] % 10) + 1]
      BY <2>2 DEF DigitsAre
    <3>2. z[k + 1] = bchars[d + 1]
      BY <2>1, <3>1
    <3> QED BY <2>4, <3>2, DigitIs
  <2>7. ret[k + 1] = int(ret[k] * 10 + digit(z[k + 1]))
    <3>1. ret[k + 1] = int(ret[(k + 1) - 1] * 10 + digit(z[0 + (k + 1)]))
      BY <2>2 DEF Sums
    <3> QED BY <2>2, <3>1
  <2>8. ret[k + 1] = int(int(y) * 10 + d)
    BY <2>5, <2>6, <2>7
  <2>9. int(int(y) * 10 + d) = int(y * 10 + d)
    <3>1. y \in Int /\ d \in Int
      BY <2>4
    <3> QED BY <3>1, IntLater
  <2> QED BY <2>1, <2>4, <2>8, <2>9
<1>5. Q \in SUBSET Nat
  OBVIOUS
<1> HIDE DEF Q
<1>6. \A k \in Nat : k \in Q
  BY <1>3, <1>4, <1>5, AllNumbers
<1>7. ret[top] = int(f[top - top])
  BY <1>6 DEF Q
<1>8. top - top = 0
  OBVIOUS
<1> QED BY <1>1, <1>7, <1>8

\* The digits that itoa writes of an int of any width are read back by read_int
\* as that int, whatever follows them but a digit: of a negative one by overflow
\* (itoa of include/string.h, read_int of include/stdio.h).
THEOREM NumberBack ==
  ASSUME NEW a \in Int, a = int(a), NEW w, w = itoa(a, 10),
         NEW r \in Seq(Char), r = <<>> \/ ~ isdigit(r[1])
  PROVE  /\ w \in Seq(Char) /\ w # <<>> /\ \A o \in 1 .. Len(w) : isdigit(w[o])
         /\ read_int(w \o r).num = a /\ read_int(w \o r).cnt = Len(w)
<1>1. PICK n, f, top : /\ n = unsigned(a) /\ Quotients(f, n) /\ top \in Nat \ {0} /\ f[top] = 0
                       /\ DigitsAre(w, f, top)
  BY ItoaDigits
<1>2. n \in Nat /\ int(n) = a
  BY <1>1, IntUnsigned
<1>3. w \in Seq(Char) /\ Len(w) = top /\ \A o \in 1 .. top : w[o] = bchars[(f[top - o] % 10) + 1]
  BY <1>1 DEF DigitsAre
<1>4. ASSUME NEW o \in 1 .. top PROVE isdigit(w[o]) /\ digit(w[o]) \in Int
  <2>1. PICK x, d : x = f[top - o] /\ d = x % 10
    OBVIOUS
  <2>2. top - o \in Nat
    BY <1>1
  <2>3. x \in Nat
    BY <1>1, <2>1, <2>2 DEF Quotients
  <2>4. d \in 0 .. 9
    BY <2>1, <2>3, Tenth
  <2>5. w[o] = bchars[d + 1]
    BY <1>3, <2>1
  <2> QED BY <2>4, <2>5, DigitIs
<1>5. PICK z, l : z = w \o r /\ l = Len(z)
  OBVIOUS
<1>6. /\ z \in Seq(Char) /\ l = top + Len(r) /\ l \in Nat /\ Len(r) \in Nat
      /\ \A k \in 1 .. l : z[k] = IF k <= top THEN w[k] ELSE r[k - top]
  <2>1. /\ w \o r \in Seq(Char) /\ Len(w \o r) = Len(w) + Len(r)
        /\ \A k \in 1 .. Len(w) + Len(r) : (w \o r)[k] = IF k <= Len(w) THEN w[k] ELSE r[k - Len(w)]
    <3>1. w \in Seq(Char)
      BY <1>3
    <3> QED BY <3>1, ConcatProperties, Zenon
  <2>2. Len(r) \in Nat /\ top \in Nat
    BY <1>1
  <2>3. Len(w) = top
    BY <1>3
  <2>4. z \in Seq(Char) /\ l = top + Len(r)
    BY <1>5, <2>1, <2>3
  <2>5. \A k \in 1 .. top + Len(r) : z[k] = IF k <= top THEN w[k] ELSE r[k - top]
    BY <1>5, <2>1, <2>3
  <2>6. l \in Nat
    BY <2>2, <2>4
  <2> QED BY <2>2, <2>4, <2>5, <2>6
<1>7. \A k \in 1 .. top : z[k] = w[k]
  <2>1. \A k \in 1 .. top : k \in 1 .. l /\ k <= top
    BY <1>1, <1>6
  <2> QED BY <1>6, <2>1
<1>8. r # <<>> => top + 1 \in 1 .. l /\ z[top + 1] = r[1]
  <2>1. r # <<>> => Len(r) # 0
    BY EmptySeq
  <2>2. r # <<>> => top + 1 \in 1 .. l /\ ~(top + 1 <= top) /\ (top + 1) - top = 1
    BY <1>1, <1>6, <2>1
  <2> QED BY <1>6, <2>2
<1> DEFINE sign == IF z # <<>> /\ Head(z) = "-" THEN 1 ELSE 0
           C == {k \in sign .. Len(z) : k = Len(z) \/ ~ isdigit(z[k + 1])}
           cnt == Min(C)
           ret == CHOOSE g : g = [k \in 0 .. cnt - sign |->
                     IF k = 0 THEN 0 ELSE int(g[k - 1] * 10 + digit(z[sign + k]))]
<1>9. read_int(z) = [num |-> int(IF sign = 1 THEN - ret[cnt - sign] ELSE ret[cnt - sign]), cnt |-> cnt]
  BY DEF read_int
<1>10. sign = 0
  <2>1. 1 \in 1 .. top
    BY <1>1
  <2>2. z[1] # Dash
    BY <1>4, <1>7, <2>1, DigitIn
  <2>3. Head(z) # "-"
    <3>1. Head(z) = z[1]
      BY <1>6
    <3> QED BY <2>2, <3>1 DEF Dash
  <2> QED BY <2>3
<1> HIDE DEF sign
<1>11. cnt = top
  <2>1. C = {k \in 0 .. l : k = l \/ ~ isdigit(z[k + 1])}
    BY <1>5, <1>10
  <2> HIDE DEF C
  <2>2. top \in C
    <3>1. top \in 0 .. l
      BY <1>1, <1>6
    <3>2. r = <<>> => top = l
      <4>1. r = <<>> => Len(r) = 0
        BY EmptySeq
      <4> QED BY <1>1, <1>6, <4>1
    <3> QED BY <1>8, <2>1, <3>1, <3>2
  <2>3. ASSUME NEW k \in C PROVE top <= k
    <3> SUFFICES ASSUME k < top PROVE FALSE
      BY <1>1, <2>1
    <3>1. k \in Nat /\ k + 1 \in 1 .. top /\ k # l
      BY <1>1, <1>6, <2>1
    <3> QED BY <1>4, <1>7, <2>1, <3>1
  <2>4. C \in SUBSET Nat /\ C # {}
    BY <2>1, <2>2
  <2>5. Min(C) \in C /\ \A k \in C : Min(C) <= k
    BY <2>4, MinIn
  <2>6. PICK m : m = Min(C)
    OBVIOUS
  <2>7. m \in Nat /\ m <= top /\ top <= m
    BY <2>2, <2>3, <2>4, <2>5, <2>6
  <2>8. m = top
    BY <1>1, <2>7
  <2> QED BY <2>6, <2>8
<1> HIDE DEF cnt
<1>12. ret[top] = a
  <2>1. cnt - sign = top /\ top \in Nat
    BY <1>1, <1>10, <1>11
  <2>2. PICK sg : sg = sign
    OBVIOUS
  <2>3. PICK g : g = ret
    OBVIOUS
  <2>4. g = CHOOSE h : h = [k \in 0 .. top |-> IF k = 0 THEN 0
                                       ELSE int(h[k - 1] * 10 + digit(z[sg + k]))]
    BY <2>1, <2>2, <2>3
  <2>5. \A k \in 1 .. top : digit(z[sg + k]) \in Int
    <3>1. \A k \in 1 .. top : sg + k = k
      BY <1>10, <2>2
    <3> QED BY <1>4, <1>7, <3>1
  <2> HIDE DEF ret
  <2>6. Sums(g, top, z, sg)
    BY <2>1, <2>4, <2>5, SumsChosen
  <2>7. Sums(g, top, z, 0)
    BY <1>10, <2>2, <2>6
  <2>8. g[top] = int(n)
    BY <1>1, <1>2, <1>7, <2>1, <2>7, SumsAre
  <2> QED BY <1>2, <2>3, <2>8
<1> HIDE DEF ret
<1>13. read_int(z).num = a /\ read_int(z).cnt = top
  <2>1. cnt - sign = top /\ sign # 1
    BY <1>1, <1>10, <1>11
  <2>2. read_int(z) = [num |-> int(ret[top]), cnt |-> cnt]
    BY <1>9, <2>1
  <2> QED BY <1>11, <1>12, <2>2
<1>14. w # <<>>
  <2>1. Len(w) # 0
    BY <1>1, <1>3
  <2> QED BY <1>3, <2>1, EmptySeq
<1> QED BY <1>3, <1>4, <1>5, <1>13, <1>14

-----------------------------------------------------------------------------
(* What sprintf writes, character by character of its format.              *)

LEMMA Joined ==
  ASSUME NEW T, NEW u \in Seq(T), NEW v \in Seq(T)
  PROVE  /\ u \o v \in Seq(T) /\ Len(u \o v) = Len(u) + Len(v) /\ Len(u) \in Nat /\ Len(v) \in Nat
         /\ \A k \in 1 .. Len(u) : (u \o v)[k] = u[k]
         /\ \A k \in 1 .. Len(v) : (u \o v)[Len(u) + k] = v[k]
<1>1. /\ u \o v \in Seq(T) /\ Len(u \o v) = Len(u) + Len(v)
      /\ \A k \in 1 .. Len(u) + Len(v) : (u \o v)[k] = IF k <= Len(u) THEN u[k] ELSE v[k - Len(u)]
  BY ConcatProperties, Zenon
<1>2. Len(u) \in Nat /\ Len(v) \in Nat
  OBVIOUS
<1>3. ASSUME NEW k \in 1 .. Len(u) PROVE (u \o v)[k] = u[k]
  <2>1. k \in 1 .. Len(u) + Len(v) /\ k <= Len(u)
    BY <1>2
  <2> QED BY <1>1, <2>1
<1>4. ASSUME NEW k \in 1 .. Len(v) PROVE (u \o v)[Len(u) + k] = v[k]
  <2>1. Len(u) + k \in 1 .. Len(u) + Len(v) /\ ~(Len(u) + k <= Len(u)) /\ (Len(u) + k) - Len(u) = k
    BY <1>2
  <2> QED BY <1>1, <2>1
<1> QED BY <1>1, <1>2, <1>3, <1>4

Regroups(u, v, w) == (u \o v) \o w = u \o (v \o w)

LEMMA Regrouped ==
  ASSUME NEW T, NEW u \in Seq(T), NEW v \in Seq(T), NEW w \in Seq(T)
  PROVE  Regroups(u, v, w)
BY ConcatAssociative DEF Regroups

\* Each element replaced by a sequence.
Replaced(w, h) == [k \in DOMAIN w |-> h[w[k]]]
Spread(w, h) == FlattenSeq(Replaced(w, h))
Spreads(h, A, T) == h \in [A -> Seq(T)]
ReplacedAs(x, w, h, T) ==
  x \in Seq(Seq(T)) /\ Len(x) = Len(w) /\ \A k \in 1 .. Len(w) : x[k] = h[w[k]]

LEMMA ReplacedCells ==
  ASSUME NEW A, NEW T, NEW h, Spreads(h, A, T), NEW w \in Seq(A)
  PROVE  ReplacedAs(Replaced(w, h), w, h, T)
<1> DEFINE n == Len(w)
           cell(k) == h[w[k]]
<1>1. n \in Nat /\ DOMAIN w = 1 .. n
  BY LenProperties
<1>2. \A k \in 1 .. n : cell(k) \in Seq(T)
  BY ElementOfSeq DEF Spreads
<1>3. Replaced(w, h) = [k \in 1 .. n |-> cell(k)]
  BY <1>1 DEF Replaced
<1> HIDE DEF n, cell
<1>4. [k \in 1 .. n |-> cell(k)] \in Seq(Seq(T)) /\ Len([k \in 1 .. n |-> cell(k)]) = n
      /\ \A k \in 1 .. n : [j \in 1 .. n |-> cell(j)][k] = cell(k)
  BY <1>1, <1>2
<1> QED BY <1>3, <1>4 DEF n, cell, ReplacedAs

GrowsBy(w, c, h) == Replaced(Append(w, c), h) = Append(Replaced(w, h), h[c])

LEMMA ReplacedMore ==
  ASSUME NEW A, NEW T, NEW h, Spreads(h, A, T), NEW w \in Seq(A), NEW c \in A
  PROVE  GrowsBy(w, c, h)
<1> SUFFICES Replaced(Append(w, c), h) = Append(Replaced(w, h), h[c])
  BY DEF GrowsBy
<1>1. PICK n : n = Len(w)
  OBVIOUS
<1>2. /\ Append(w, c) \in Seq(A) /\ Len(Append(w, c)) = n + 1 /\ n \in Nat
      /\ Append(w, c)[n + 1] = c /\ \A k \in 1 .. n : Append(w, c)[k] = w[k]
  BY <1>1
<1>3. ReplacedAs(Replaced(w, h), w, h, T)
  BY ReplacedCells, Zenon
<1>4. PICK m : m = Append(w, c)
  OBVIOUS
<1>5. m \in Seq(A)
  BY <1>2, <1>4
<1>6. ReplacedAs(Replaced(m, h), m, h, T)
  BY <1>5, ReplacedCells, Zenon
<1>7. PICK x, y, v : x = Replaced(w, h) /\ y = Replaced(m, h) /\ v = h[c]
  OBVIOUS
<1>8. v \in Seq(T)
  BY <1>7 DEF Spreads
<1>9. x \in Seq(Seq(T)) /\ Len(x) = n /\ \A k \in 1 .. n : x[k] = h[w[k]]
  BY <1>1, <1>3, <1>7 DEF ReplacedAs
<1>10. y \in Seq(Seq(T)) /\ Len(y) = n + 1 /\ \A k \in 1 .. n + 1 : y[k] = h[m[k]]
  <2>1. Len(m) = n + 1
    BY <1>2, <1>4
  <2> QED BY <1>6, <1>7, <2>1 DEF ReplacedAs
<1>11. /\ Append(x, v) \in Seq(Seq(T)) /\ Len(Append(x, v)) = n + 1
       /\ Append(x, v)[n + 1] = v /\ \A k \in 1 .. n : Append(x, v)[k] = x[k]
  <2>1. x \in Seq(Seq(T)) /\ Len(x) = n
    BY <1>9
  <2> QED BY <1>8, <2>1
<1>12. PICK z : z = Append(x, v)
  OBVIOUS
<1>13. ASSUME NEW k \in 1 .. n + 1 PROVE y[k] = z[k]
  <2>1. CASE k = n + 1
    BY <1>2, <1>4, <1>7, <1>10, <1>11, <1>12, <2>1
  <2>2. CASE k # n + 1
    <3>1. k \in 1 .. n
      BY <1>2, <2>2
    <3>2. y[k] = h[m[k]] /\ x[k] = h[w[k]] /\ z[k] = x[k]
      BY <1>9, <1>10, <1>11, <1>12, <3>1
    <3>3. m[k] = w[k]
      BY <1>2, <1>4, <3>1
    <3> QED BY <3>2, <3>3
  <2> QED BY <2>1, <2>2
<1>14. y = z
  <2>1. z \in Seq(Seq(T)) /\ Len(z) = n + 1
    BY <1>11, <1>12
  <2>2. y \in Seq(Seq(T)) /\ Len(y) = Len(z) /\ Len(y) = n + 1
    BY <1>10, <2>1
  <2>3. \A k \in 1 .. Len(y) : y[k] = z[k]
    BY <1>13, <2>2
  <2> QED BY <2>1, <2>2, <2>3, SeqEqual, Zenon
<1> QED BY <1>4, <1>7, <1>12, <1>14

SpreadMore(w, c, h, T) ==
  Spread(w, h) \in Seq(T) /\ Spread(Append(w, c), h) = Spread(w, h) \o h[c]

LEMMA SpreadGrows ==
  ASSUME NEW A, NEW T, NEW h, Spreads(h, A, T), NEW w \in Seq(A), NEW c \in A
  PROVE  SpreadMore(w, c, h, T)
<1>1. PICK x, v : x = Replaced(w, h) /\ v = h[c]
  OBVIOUS
<1>2. Replaced(w, h) \in Seq(Seq(T))
  <2>1. ReplacedAs(Replaced(w, h), w, h, T)
    BY ReplacedCells, Zenon
  <2> QED BY <2>1 DEF ReplacedAs
<1>3. x \in Seq(Seq(T)) /\ v \in Seq(T)
  BY <1>1, <1>2 DEF Spreads
<1>4. FlattenSeq(x) \in Seq(T) /\ FlattenSeq(Append(x, v)) = FlattenSeq(x) \o v
  BY <1>3, FlattenAppend, Zenon
<1>5. Replaced(Append(w, c), h) = Append(x, v)
  <2>1. GrowsBy(w, c, h)
    BY ReplacedMore, Zenon
  <2> QED BY <1>1, <2>1, Zenon DEF GrowsBy
<1>6. Spread(w, h) = FlattenSeq(x) /\ Spread(Append(w, c), h) = FlattenSeq(Append(x, v))
  BY <1>1, <1>5, Zenon DEF Spread
<1> QED BY <1>1, <1>4, <1>6, Zenon DEF SpreadMore

LEMMA SpreadEmpty == ASSUME NEW h PROVE Spread(<<>>, h) = <<>>
<1>1. Replaced(<<>>, h) = <<>>
  BY DEF Replaced
<1> QED BY <1>1, FlattenEmpty DEF Spread

LEMMA SpreadIn ==
  ASSUME NEW A, NEW T, NEW h, Spreads(h, A, T), NEW w \in Seq(A)
  PROVE  Spread(w, h) \in Seq(T)
<1>1. CASE w = <<>>
  <2>1. <<>> \in Seq(T)
    OBVIOUS
  <2> QED BY <1>1, <2>1, SpreadEmpty
<1>2. CASE w # <<>>
  <2>1. Len(w) \in Nat /\ Len(w) # 0
    BY <1>2, EmptySeq
  <2>2. 1 \in 1 .. Len(w)
    BY <2>1
  <2>3. PICK c : c \in A
    BY <2>2, ElementOfSeq
  <2>4. SpreadMore(w, c, h, T)
    BY <2>3, SpreadGrows, Zenon
  <2> QED BY <2>4 DEF SpreadMore
<1> QED BY <1>1, <1>2

\* Sequences of any length, by their last element.
LEMMA AllSequences ==
  ASSUME NEW A, NEW S \in SUBSET Seq(A), <<>> \in S,
         \A w \in S, c \in A : Append(w, c) \in S
  PROVE  \A w \in Seq(A) : w \in S
<1> DEFINE Q == {m \in Nat : \A w \in Seq(A) : Len(w) = m => w \in S}
<1>1. 0 \in Q
  BY EmptySeq
<1>2. ASSUME NEW m \in Q PROVE m + 1 \in Q
  <2>1. ASSUME NEW w \in Seq(A), Len(w) = m + 1 PROVE w \in S
    <3>1. w # <<>>
      <4>1. Len(w) # 0
        BY <2>1
      <4> QED BY <4>1, EmptySeq
    <3>2. PICK v, c : v = Front(w) /\ c = w[Len(w)]
      OBVIOUS
    <3>3. v \in Seq(A) /\ Len(v) = Len(w) - 1 /\ c \in A /\ w = Append(v, c)
      BY <3>1, <3>2, WithoutLast
    <3>4. Len(v) = m
      BY <2>1, <3>3
    <3>5. v \in S
      BY <3>3, <3>4
    <3> QED BY <3>3, <3>5
  <2> QED BY <2>1
<1>3. Q \in SUBSET Nat
  OBVIOUS
<1> HIDE DEF Q
<1>4. \A m \in Nat : m \in Q
  BY <1>1, <1>2, <1>3, AllNumbers
<1>5. ASSUME NEW w \in Seq(A) PROVE w \in S
  <2>1. Len(w) \in Q
    BY <1>4
  <2> QED BY <2>1 DEF Q
<1> QED BY <1>5

SpreadsJoined(u, v, h) == Spread(u \o v, h) = Spread(u, h) \o Spread(v, h)

LEMMA SpreadJoined ==
  ASSUME NEW A, NEW T, NEW h, Spreads(h, A, T), NEW u \in Seq(A), NEW v \in Seq(A)
  PROVE  SpreadsJoined(u, v, h)
<1> DEFINE S == {w \in Seq(A) : Spread(u \o w, h) = Spread(u, h) \o Spread(w, h)}
<1>1. \A w \in Seq(A) : Spread(w, h) \in Seq(T) /\ (\A c \in A : Spread(Append(w, c), h) = Spread(w, h) \o h[c])
  <2>1. ASSUME NEW w \in Seq(A) PROVE Spread(w, h) \in Seq(T)
    BY SpreadIn, Zenon
  <2>2. ASSUME NEW w \in Seq(A), NEW c \in A PROVE Spread(Append(w, c), h) = Spread(w, h) \o h[c]
    <3>1. SpreadMore(w, c, h, T)
      BY SpreadGrows, Zenon
    <3> QED BY <3>1 DEF SpreadMore
  <2> QED BY <2>1, <2>2
<1>2. <<>> \in S
  <2>1. u \o <<>> = u /\ Spread(u, h) \o <<>> = Spread(u, h)
    <3>1. PICK x : x = Spread(u, h)
      OBVIOUS
    <3>2. x \in Seq(T)
      BY <1>1, <3>1
    <3> QED BY <3>1, <3>2
  <2>2. Spread(<<>>, h) = <<>>
    BY SpreadEmpty
  <2>3. <<>> \in Seq(A)
    OBVIOUS
  <2> QED BY <2>1, <2>2, <2>3
<1>3. ASSUME NEW w \in S, NEW c \in A PROVE Append(w, c) \in S
  <2>1. w \in Seq(A) /\ Spread(u \o w, h) = Spread(u, h) \o Spread(w, h)
    OBVIOUS
  <2>2. PICK x : x = u \o w
    OBVIOUS
  <2>3. x \in Seq(A)
    BY <2>1, <2>2, Joined
  <2>4. u \o Append(w, c) = Append(x, c)
    BY <2>1, <2>2
  <2>5. Spread(Append(x, c), h) = Spread(x, h) \o h[c] /\ Spread(Append(w, c), h) = Spread(w, h) \o h[c]
    BY <1>1, <2>1, <2>3
  <2>6. Spread(u, h) \in Seq(T) /\ Spread(w, h) \in Seq(T) /\ h[c] \in Seq(T)
    BY <1>1, <2>1 DEF Spreads
  <2>7. (Spread(u, h) \o Spread(w, h)) \o h[c] = Spread(u, h) \o (Spread(w, h) \o h[c])
    <3>1. PICK x1, x2, x3 : x1 = Spread(u, h) /\ x2 = Spread(w, h) /\ x3 = h[c]
      OBVIOUS
    <3>2. x1 \in Seq(T) /\ x2 \in Seq(T) /\ x3 \in Seq(T)
      BY <2>6, <3>1
    <3>3. Regroups(x1, x2, x3)
      BY <3>2, Regrouped, Zenon
    <3> QED BY <3>1, <3>3 DEF Regroups
  <2>8. Append(w, c) \in Seq(A)
    BY <2>1, AppendProperties
  <2>9. Spread(u \o Append(w, c), h) = Spread(u, h) \o Spread(Append(w, c), h)
    BY <2>1, <2>2, <2>4, <2>5, <2>7, Zenon
  <2> QED BY <2>8, <2>9
<1>4. S \in SUBSET Seq(A)
  OBVIOUS
<1> HIDE DEF S
<1>5. v \in S
  BY <1>2, <1>3, <1>4, AllSequences
<1> QED BY <1>5 DEF S, SpreadsJoined

-----------------------------------------------------------------------------
(* The line that the user types for what sprintf has written: each blank   *)
(* stands for one or more.                                                 *)

widen(n) == [c \in Char |-> IF c = Blank THEN blanks(n) ELSE <<c>>]
Wide(w, n) == Spread(w, widen(n))
AllBlank(w, n) == w \in Seq(Char) /\ Len(w) = n /\ \A k \in 1 .. n : w[k] = Blank

LEMMA BlanksAre == ASSUME NEW n \in Nat PROVE AllBlank(blanks(n), n)
<1>1. blanks(n) = [k \in 1 .. n |-> Blank]
  BY DEF blanks, Blank
<1>2. Blank \in Char
  BY BlankIn
<1>3. PICK c : c = Blank
  OBVIOUS
<1>4. [k \in 1 .. n |-> c] \in Seq(Char) /\ Len([k \in 1 .. n |-> c]) = n
      /\ \A k \in 1 .. n : [j \in 1 .. n |-> c][k] = c
  BY <1>2, <1>3
<1> QED BY <1>1, <1>3, <1>4 DEF AllBlank

LEMMA Widens == ASSUME NEW n \in Nat PROVE Spreads(widen(n), Char, Char)
<1>1. ASSUME NEW c \in Char PROVE (IF c = Blank THEN blanks(n) ELSE <<c>>) \in Seq(Char)
  BY BlanksAre DEF AllBlank
<1> QED BY <1>1 DEF Spreads, widen

LEMMA WideIs ==
  ASSUME NEW n \in Nat, NEW w \in Seq(Char)
  PROVE  FlattenSeq([k \in DOMAIN w |-> IF isspace(w[k]) THEN blanks(n) ELSE <<w[k]>>]) = Wide(w, n)
<1>1. \A k \in DOMAIN w : w[k] \in Char
  BY ElementOfSeq
<1>2. \A c : isspace(c) <=> c = Blank
  BY Zenon DEF isspace, Blank
<1>3. ASSUME NEW k \in DOMAIN w
      PROVE  (IF isspace(w[k]) THEN blanks(n) ELSE <<w[k]>>) = widen(n)[w[k]]
  BY <1>1, <1>2 DEF widen
<1>4. [k \in DOMAIN w |-> IF isspace(w[k]) THEN blanks(n) ELSE <<w[k]>>] = Replaced(w, widen(n))
  BY <1>3 DEF Replaced
<1> QED BY <1>4 DEF Wide, Spread

WideAs(u, v, n) ==
  /\ Wide(u, n) \in Seq(Char) /\ Wide(v, n) \in Seq(Char)
  /\ Wide(u \o v, n) = Wide(u, n) \o Wide(v, n)

LEMMA WideJoined ==
  ASSUME NEW n \in Nat, NEW u \in Seq(Char), NEW v \in Seq(Char)
  PROVE  WideAs(u, v, n)
<1>1. PICK h : h = widen(n)
  OBVIOUS
<1>2. Spreads(h, Char, Char)
  BY <1>1, Widens
<1>3. Spread(u, h) \in Seq(Char)
  BY <1>2, SpreadIn, Zenon
<1>4. Spread(v, h) \in Seq(Char)
  BY <1>2, SpreadIn, Zenon
<1>5. SpreadsJoined(u, v, h)
  BY <1>2, SpreadJoined, Zenon
<1> QED BY <1>1, <1>3, <1>4, <1>5 DEF WideAs, Wide, SpreadsJoined

LEMMA WideEmpty == ASSUME NEW n PROVE Wide(<<>>, n) = <<>>
  BY SpreadEmpty DEF Wide

LEMMA WideOne ==
  ASSUME NEW n \in Nat, NEW c \in Char
  PROVE  Wide(<<c>>, n) = IF c = Blank THEN blanks(n) ELSE <<c>>
<1>1. PICK h, e : h = widen(n) /\ e = <<>>
  OBVIOUS
<1>2. Spreads(h, Char, Char) /\ e \in Seq(Char)
  BY <1>1, Widens
<1>3. Spread(e, h) = <<>>
  BY <1>1, SpreadEmpty
<1>4. SpreadMore(e, c, h, Char)
  BY <1>2, SpreadGrows, Zenon
<1>5. Append(e, c) = <<c>>
  BY <1>1
<1>6. PICK x : x = h[c]
  OBVIOUS
<1>7. x \in Seq(Char) /\ x = IF c = Blank THEN blanks(n) ELSE <<c>>
  BY <1>1, <1>2, <1>6 DEF Spreads, widen
<1>8. <<>> \o x = x
  BY <1>7
<1>9. Spread(<<c>>, h) = x
  BY <1>3, <1>4, <1>5, <1>6, <1>8 DEF SpreadMore
<1> QED BY <1>1, <1>7, <1>9 DEF Wide

LEMMA WideSame ==
  ASSUME NEW n \in Nat, NEW w \in Seq(Char), NoBlank(w)
  PROVE  Wide(w, n) = w
<1> DEFINE S == {u \in Seq(Char) : NoBlank(u) => Wide(u, n) = u}
<1>1. <<>> \in S
  <2>1. <<>> \in Seq(Char) /\ Wide(<<>>, n) = <<>>
    BY WideEmpty
  <2> QED BY <2>1
<1>2. ASSUME NEW u \in S, NEW c \in Char PROVE Append(u, c) \in S
  <2>1. PICK m : m = Len(u)
    OBVIOUS
  <2>2. u \in Seq(Char) /\ (NoBlank(u) => Wide(u, n) = u)
    OBVIOUS
  <2>3. /\ Append(u, c) \in Seq(Char) /\ Len(Append(u, c)) = m + 1 /\ m \in Nat
        /\ Append(u, c)[m + 1] = c /\ \A k \in 1 .. m : Append(u, c)[k] = u[k]
    BY <2>1, <2>2
  <2>4. PICK z : z = Append(u, c)
    OBVIOUS
  <2>5. ASSUME NoBlank(z) PROVE Wide(z, n) = z
    <3>1. c # Blank
      <4>1. m + 1 \in 1 .. Len(z) /\ z[m + 1] = c
        BY <2>3, <2>4
      <4> QED BY <2>5, <4>1 DEF NoBlank
    <3>2. NoBlank(u)
      <4>1. \A k \in 1 .. m : k \in 1 .. Len(z) /\ z[k] = u[k]
        BY <2>3, <2>4
      <4> QED BY <2>1, <2>5, <4>1 DEF NoBlank
    <3>3. <<c>> \in Seq(Char) /\ z = u \o <<c>>
      BY <2>2, <2>4
    <3>4. Wide(<<c>>, n) = <<c>>
      BY <3>1, WideOne
    <3>5. WideAs(u, <<c>>, n)
      BY <2>2, <3>3, WideJoined
    <3> QED BY <2>2, <3>2, <3>3, <3>4, <3>5 DEF WideAs
  <2> QED BY <2>3, <2>4, <2>5
<1>3. S \in SUBSET Seq(Char)
  OBVIOUS
<1> HIDE DEF S
<1>4. w \in S
  BY <1>1, <1>2, <1>3, AllSequences
<1> QED BY <1>4 DEF S

PieceIs(u, w, a, b) ==
  u \in Seq(Char) /\ Len(u) = (b - a) + 1 /\ \A k \in 1 .. (b - a) + 1 : u[k] = w[a + k - 1]
Within(w, a, b) == w \in Seq(Char) /\ a \in Nat /\ b \in Nat /\ 1 <= a /\ b <= Len(w) /\ a <= b + 1

LEMMA PieceOf ==
  ASSUME NEW w, NEW a, NEW b, Within(w, a, b)
  PROVE  PieceIs(SubSeq(w, a, b), w, a, b)
BY Piece DEF Within, PieceIs

\* A line after some blanks.
Skips(w, e, z) ==
  /\ w \in Seq(Char) /\ z \in Seq(Char) /\ e \in Nat /\ Len(w) = e + Len(z)
  /\ \A k \in 1 .. e : w[k] = Blank
  /\ \A k \in 1 .. Len(z) : w[e + k] = z[k]

LEMMA SkipsItself == ASSUME NEW w \in Seq(Char) PROVE Skips(w, 0, w)
  BY DEF Skips

LEMMA SkipsNothing ==
  ASSUME NEW w, NEW z, Skips(w, 0, z)
  PROVE  z = w
<1>1. w \in Seq(Char) /\ z \in Seq(Char) /\ Len(w) = Len(z) /\ \A k \in 1 .. Len(z) : w[k] = z[k]
  <2>1. w \in Seq(Char) /\ z \in Seq(Char) /\ Len(w) = 0 + Len(z) /\ Len(z) \in Nat
    BY DEF Skips
  <2>2. ASSUME NEW k \in 1 .. Len(z) PROVE w[k] = z[k]
    <3>1. 0 + k = k
      OBVIOUS
    <3> QED BY <3>1 DEF Skips
  <2> QED BY <2>1, <2>2
<1> QED BY <1>1, SeqEqual, Zenon

\* A character that is no blank is not behind one.
LEMMA SkipsNone ==
  ASSUME NEW x \in Seq(Char), NEW y \in Seq(Char), x # <<>>, x[1] # Blank,
         NEW e, NEW z, Skips(x \o y, e, z)
  PROVE  e = 0 /\ z = x \o y
<1>1. Len(x) \in Nat /\ Len(x) # 0
  BY EmptySeq
<1>2. 1 \in 1 .. Len(x)
  BY <1>1
<1>3. (x \o y)[1] = x[1]
  BY <1>2, Joined
<1>4. e = 0
  <2>1. e # 0 => 1 \in 1 .. e
    BY DEF Skips
  <2> QED BY <1>3, <2>1 DEF Skips
<1>5. Skips(x \o y, 0, z)
  BY <1>4
<1> QED BY <1>4, <1>5, SkipsNothing, Zenon

\* All blanks are passed for those of the format and those behind them.
LEMMA SkipsMore ==
  ASSUME NEW n \in Nat, NEW x, AllBlank(x, n), NEW y \in Seq(Char), NEW e, NEW z, Skips(x \o y, e, z),
         NEW p \in 0 .. Len(z), \A k \in 1 .. p : z[k] = Blank, p = Len(z) \/ z[p + 1] # Blank
  PROVE  \E d \in Nat : Skips(y, d, SubSeq(z, p + 1, Len(z)))
<1>1. PICK w, l, t : w = x \o y /\ l = Len(y) /\ t = Len(z)
  OBVIOUS
<1>2. /\ w \in Seq(Char) /\ Len(w) = n + l /\ l \in Nat
      /\ \A k \in 1 .. n : w[k] = Blank
      /\ \A k \in 1 .. l : w[n + k] = y[k]
  <2>1. x \in Seq(Char) /\ Len(x) = n /\ \A k \in 1 .. n : x[k] = Blank
    BY DEF AllBlank
  <2>2. x \in Seq(Char)
    BY <2>1
  <2>3. /\ x \o y \in Seq(Char) /\ Len(x \o y) = Len(x) + Len(y) /\ Len(x) \in Nat /\ Len(y) \in Nat
        /\ \A k \in 1 .. Len(x) : (x \o y)[k] = x[k]
        /\ \A k \in 1 .. Len(y) : (x \o y)[Len(x) + k] = y[k]
    BY <2>2, Joined
  <2> QED BY <1>1, <2>1, <2>3
<1>3. /\ z \in Seq(Char) /\ t \in Nat /\ e \in Nat /\ n + l = e + t
      /\ \A k \in 1 .. e : w[k] = Blank
      /\ \A k \in 1 .. t : w[e + k] = z[k]
  <2>1. Skips(w, e, z)
    BY <1>1
  <2> QED BY <1>1, <1>2, <2>1 DEF Skips
<1>4. p \in Nat /\ p <= t
  BY <1>1, <1>3
<1>5. n <= e + p
  <2> SUFFICES ASSUME e + p < n PROVE FALSE
    BY <1>3, <1>4
  <2>1. e + (p + 1) \in 1 .. n /\ (p # t => p + 1 \in 1 .. t)
    BY <1>3, <1>4
  <2>2. p # t
    BY <1>2, <1>3
  <2>3. w[e + (p + 1)] = z[p + 1]
    BY <1>3, <2>1, <2>2
  <2> QED BY <1>1, <1>2, <2>1, <2>2, <2>3
<1>6. PICK d \in Nat : d = (e + p) - n
  BY <1>3, <1>4, <1>5
<1>7. PICK q : q = SubSeq(z, p + 1, Len(z))
  OBVIOUS
<1>8. q \in Seq(Char) /\ Len(q) = t - p /\ \A k \in 1 .. t - p : q[k] = z[p + k]
  <2>1. Within(z, p + 1, t) /\ (t - (p + 1)) + 1 = t - p
    BY <1>1, <1>3, <1>4 DEF Within
  <2>2. PieceIs(SubSeq(z, p + 1, t), z, p + 1, t)
    BY <2>1, PieceOf, Zenon
  <2>3. \A k \in 1 .. t - p : (p + 1) + k - 1 = p + k
    BY <1>3, <1>4
  <2> QED BY <1>1, <1>7, <2>1, <2>2, <2>3 DEF PieceIs
<1>9. ASSUME NEW k \in 1 .. d PROVE y[k] = Blank
  <2>1. k \in 1 .. l /\ n + k \in Nat /\ (n + k <= e => n + k \in 1 .. e)
        /\ (~(n + k <= e) => (n + k) - e \in 1 .. p /\ (n + k) - e \in 1 .. t /\ e + ((n + k) - e) = n + k)
    BY <1>2, <1>3, <1>4, <1>6
  <2>2. w[n + k] = Blank
    <3>1. CASE n + k <= e
      BY <1>3, <2>1, <3>1
    <3>2. CASE ~(n + k <= e)
      <4>1. PICK j : j = (n + k) - e
        OBVIOUS
      <4>2. j \in 1 .. p /\ j \in 1 .. t /\ e + j = n + k
        BY <2>1, <3>2, <4>1
      <4>3. w[e + j] = z[j] /\ z[j] = Blank
        BY <1>3, <4>2
      <4> QED BY <4>2, <4>3
    <3> QED BY <3>1, <3>2
  <2> QED BY <1>2, <2>1, <2>2
<1>10. ASSUME NEW k \in 1 .. t - p PROVE y[d + k] = q[k]
  <2>1. d + k \in 1 .. l /\ p + k \in 1 .. t /\ n + (d + k) = e + (p + k)
    BY <1>2, <1>3, <1>4, <1>6
  <2>2. w[n + (d + k)] = y[d + k] /\ w[e + (p + k)] = z[p + k] /\ q[k] = z[p + k]
    BY <1>2, <1>3, <1>8, <2>1
  <2> QED BY <2>1, <2>2
<1>11. Len(y) = d + Len(q)
  <2>1. Len(q) = t - p
    BY <1>8
  <2>2. n + l = e + t /\ d = (e + p) - n /\ t \in Nat /\ e \in Nat
    BY <1>3, <1>6
  <2>3. l = d + (t - p)
    BY <1>2, <1>4, <2>2
  <2> QED BY <1>1, <2>1, <2>3
<1>12. Skips(y, d, q)
  BY <1>8, <1>9, <1>10, <1>11 DEF Skips
<1> QED BY <1>7, <1>12

\* What is in front of sscanf after it has moved.
LEMMA Onward ==
  ASSUME NEW b \in Seq(Char), NEW j \in 0 .. Len(b), NEW z, z = SubSeq(b, j + 1, Len(b)),
         NEW l \in 0 .. Len(z)
  PROVE  /\ z \in Seq(Char) /\ Len(z) = Len(b) - j /\ j + l \in 0 .. Len(b)
         /\ SubSeq(b, j + l + 1, Len(b)) = SubSeq(z, l + 1, Len(z))
<1>1. PICK m : m = Len(b)
  OBVIOUS
<1>2. m \in Nat /\ j \in Nat /\ j <= m
  BY <1>1
<1>3. z \in Seq(Char) /\ Len(z) = m - j /\ \A k \in 1 .. m - j : z[k] = b[j + k]
  <2>1. Within(b, j + 1, m) /\ (m - (j + 1)) + 1 = m - j
    BY <1>1, <1>2 DEF Within
  <2>2. PieceIs(SubSeq(b, j + 1, m), b, j + 1, m)
    BY <2>1, PieceOf, Zenon
  <2>3. \A k \in 1 .. m - j : (j + 1) + k - 1 = j + k
    BY <1>2
  <2> QED BY <1>1, <1>2, <2>1, <2>2, <2>3 DEF PieceIs
<1>4. l \in Nat /\ l <= m - j /\ j + l \in 0 .. m
  BY <1>2, <1>3
<1>5. PICK x, y : x = SubSeq(b, j + l + 1, m) /\ y = SubSeq(z, l + 1, m - j)
  OBVIOUS
<1>6. PICK g, h, o : g = j + l + 1 /\ h = l + 1 /\ o = m - j
  OBVIOUS
<1>7. x \in Seq(Char) /\ Len(x) = (m - g) + 1 /\ \A k \in 1 .. (m - g) + 1 : x[k] = b[g + k - 1]
  <2>1. Within(b, g, m)
    BY <1>1, <1>2, <1>4, <1>6 DEF Within
  <2>2. PieceIs(SubSeq(b, g, m), b, g, m)
    BY <2>1, PieceOf, Zenon
  <2> QED BY <1>5, <1>6, <2>2 DEF PieceIs
<1>8. y \in Seq(Char) /\ Len(y) = (o - h) + 1 /\ \A k \in 1 .. (o - h) + 1 : y[k] = z[h + k - 1]
  <2>1. Within(z, h, o)
    BY <1>2, <1>3, <1>4, <1>6 DEF Within
  <2>2. PieceIs(SubSeq(z, h, o), z, h, o)
    BY <2>1, PieceOf, Zenon
  <2> QED BY <1>5, <1>6, <2>2 DEF PieceIs
<1>9. (m - g) + 1 = (o - h) + 1
  BY <1>2, <1>4, <1>6
<1>10. ASSUME NEW k \in 1 .. (o - h) + 1 PROVE x[k] = y[k]
  <2>1. k \in 1 .. (m - g) + 1 /\ h + k - 1 \in 1 .. m - j /\ j + (h + k - 1) = g + k - 1
    BY <1>2, <1>4, <1>6, <1>9
  <2>2. x[k] = b[g + k - 1] /\ y[k] = z[h + k - 1] /\ z[h + k - 1] = b[j + (h + k - 1)]
    BY <1>3, <1>7, <1>8, <2>1
  <2> QED BY <2>1, <2>2
<1>11. x = y
  <2>1. Len(x) = Len(y) /\ \A k \in 1 .. Len(x) : x[k] = y[k]
    BY <1>7, <1>8, <1>9, <1>10
  <2> QED BY <1>7, <1>8, <2>1, SeqEqual, Zenon
<1> QED BY <1>1, <1>3, <1>4, <1>5, <1>11

\* What stands behind the first part of a string.
LEMMA FirstPart ==
  ASSUME NEW x \in Seq(Char), NEW y \in Seq(Char)
  PROVE  /\ SubSeq(x \o y, 1, Len(x)) = x /\ SubSeq(x \o y, Len(x) + 1, Len(x \o y)) = y
         /\ Len(x) \in 0 .. Len(x \o y)
<1>1. PICK w, a, l : w = x \o y /\ a = Len(x) /\ l = Len(y)
  OBVIOUS
<1>2. /\ w \in Seq(Char) /\ Len(w) = a + l /\ a \in Nat /\ l \in Nat
      /\ \A k \in 1 .. a : w[k] = x[k]
      /\ \A k \in 1 .. l : w[a + k] = y[k]
  BY <1>1, Joined
<1>3. SubSeq(w, 1, a) = x
  <2>1. Within(w, 1, a) /\ (a - 1) + 1 = a
    BY <1>2 DEF Within
  <2>2. PieceIs(SubSeq(w, 1, a), w, 1, a)
    BY <2>1, PieceOf, Zenon
  <2>3. PICK u : u = SubSeq(w, 1, a)
    OBVIOUS
  <2>4. \A k \in 1 .. a : 1 + k - 1 = k
    BY <1>2
  <2>5. u \in Seq(Char) /\ Len(u) = Len(x) /\ \A k \in 1 .. Len(u) : u[k] = x[k]
    BY <1>1, <1>2, <2>1, <2>2, <2>3, <2>4 DEF PieceIs
  <2>6. u = x
    BY <2>5, SeqEqual, Zenon
  <2> QED BY <2>3, <2>6
<1>4. SubSeq(w, a + 1, a + l) = y
  <2>1. PICK g, m : g = a + 1 /\ m = a + l
    OBVIOUS
  <2>2. Within(w, g, m) /\ (m - g) + 1 = l
    BY <1>2, <2>1 DEF Within
  <2>3. PieceIs(SubSeq(w, g, m), w, g, m)
    BY <2>2, PieceOf, Zenon
  <2>4. PICK u : u = SubSeq(w, g, m)
    OBVIOUS
  <2>5. \A k \in 1 .. l : g + k - 1 = a + k
    BY <1>2, <2>1
  <2>6. u \in Seq(Char) /\ Len(u) = Len(y) /\ \A k \in 1 .. Len(u) : u[k] = y[k]
    <3>1. PieceIs(u, w, g, m)
      BY <2>3, <2>4
    <3>2. u \in Seq(Char) /\ Len(u) = l
      BY <2>2, <3>1 DEF PieceIs
    <3>3. ASSUME NEW k \in 1 .. l PROVE u[k] = y[k]
      <4>1. u[k] = w[g + k - 1]
        BY <2>2, <3>1 DEF PieceIs
      <4>2. g + k - 1 = a + k
        BY <2>5
      <4>3. w[a + k] = y[k]
        BY <1>2
      <4> QED BY <4>1, <4>2, <4>3
    <3> QED BY <1>1, <3>2, <3>3
  <2>7. u = y
    BY <2>6, SeqEqual, Zenon
  <2> QED BY <2>1, <2>4, <2>7
<1>5. a \in 0 .. Len(w) /\ Len(w) = a + l
  BY <1>2
<1> QED BY <1>1, <1>3, <1>4, <1>5

LEMMA LeastOr ==
  ASSUME NEW n \in Nat, NEW S \in SUBSET (0 .. n)
  PROVE  /\ least_or(S, n) \in 0 .. n /\ \A j \in S : least_or(S, n) <= j
         /\ least_or(S, n) = n \/ least_or(S, n) \in S
<1>1. S \cup {n} \in SUBSET Nat /\ S \cup {n} # {}
  OBVIOUS
<1>2. PICK m : m = Min(S \cup {n})
  OBVIOUS
<1>3. m \in S \cup {n} /\ \A j \in S \cup {n} : m <= j
  BY <1>1, <1>2, MinIn
<1>4. m \in 0 .. n
  BY <1>3
<1> QED BY <1>2, <1>3, <1>4 DEF least_or

\* Up to the next blank, and up to the next character that is none.
LEMMA BlankFound ==
  ASSUME NEW x \in Seq(Char), NEW y \in Seq(Char), NoBlank(x), y = <<>> \/ y[1] = Blank,
         NEW z, z = x \o y
  PROVE  least_or({k - 1 : k \in {k \in DOMAIN z : isspace(z[k])}}, Len(z)) = Len(x)
<1> DEFINE S == {k - 1 : k \in {k \in DOMAIN z : isspace(z[k])}}
<1>1. PICK a, l : a = Len(x) /\ l = Len(y)
  OBVIOUS
<1>2. /\ z \in Seq(Char) /\ Len(z) = a + l /\ a \in Nat /\ l \in Nat
      /\ \A k \in 1 .. a : z[k] = x[k]
      /\ \A k \in 1 .. l : z[a + k] = y[k]
  BY <1>1, Joined
<1>3. PICK n : n = Len(z) /\ n \in Nat /\ n = a + l /\ DOMAIN z = 1 .. n
  BY <1>2
<1>4. \A c : isspace(c) <=> c = Blank
  BY Zenon DEF isspace, Blank
<1>5. \A j : j \in S <=> j + 1 \in 1 .. n /\ z[j + 1] = Blank /\ j \in Int
  <2>1. \A k \in 1 .. n : k \in Int /\ k - 1 \in Int /\ (k - 1) + 1 = k
    BY <1>3
  <2>2. ASSUME NEW j \in S PROVE j + 1 \in 1 .. n /\ z[j + 1] = Blank /\ j \in Int
    <3>1. PICK k \in 1 .. n : isspace(z[k]) /\ j = k - 1
      BY <1>3
    <3> QED BY <1>4, <2>1, <3>1
  <2>3. ASSUME NEW j \in Int, j + 1 \in 1 .. n, z[j + 1] = Blank PROVE j \in S
    <3>1. j = (j + 1) - 1
      OBVIOUS
    <3> QED BY <1>3, <1>4, <2>3, <3>1
  <2> QED BY <2>2, <2>3
<1> HIDE DEF S
<1>6. S \in SUBSET (0 .. n)
  <2>1. \A j \in Int : j + 1 \in 1 .. n => j \in 0 .. n
    BY <1>3
  <2> QED BY <1>5, <2>1
<1>7. PICK m : m = least_or(S, n)
  OBVIOUS
<1>8. m \in 0 .. n /\ (\A j \in S : m <= j) /\ (m = n \/ m \in S)
  BY <1>3, <1>6, <1>7, LeastOr
<1>9. a <= m
  <2> SUFFICES ASSUME m < a PROVE FALSE
    BY <1>2, <1>8
  <2>1. m # n /\ m + 1 \in 1 .. a
    BY <1>2, <1>3, <1>8
  <2>2. z[m + 1] = Blank
    BY <1>5, <1>8, <2>1
  <2> QED BY <1>1, <1>2, <2>1, <2>2 DEF NoBlank
<1>10. m <= a
  <2>1. CASE y = <<>>
    <3>1. l = 0
      BY <1>1, <2>1
    <3> QED BY <1>2, <1>3, <1>8, <3>1
  <2>2. CASE y # <<>>
    <3>1. l # 0
      BY <1>1, <2>2, EmptySeq
    <3>2. 1 \in 1 .. l /\ a + 1 \in 1 .. n /\ a \in Int
      BY <1>2, <1>3, <3>1
    <3>3. z[a + 1] = Blank
      BY <1>2, <2>2, <3>2
    <3>4. a \in S
      BY <1>5, <3>2, <3>3
    <3> QED BY <1>8, <3>4
  <2> QED BY <2>1, <2>2
<1>11. m = a
  BY <1>2, <1>8, <1>9, <1>10
<1> QED BY <1>1, <1>3, <1>7, <1>11 DEF S

LEMMA BlanksPassed ==
  ASSUME NEW z \in Seq(Char), NEW p,
         p = least_or({k - 1 : k \in {k \in DOMAIN z : ~ isspace(z[k])}}, Len(z))
  PROVE  p \in 0 .. Len(z) /\ (\A k \in 1 .. p : z[k] = Blank) /\ (p = Len(z) \/ z[p + 1] # Blank)
<1> DEFINE S == {k - 1 : k \in {k \in DOMAIN z : ~ isspace(z[k])}}
<1>1. PICK n : n = Len(z) /\ n \in Nat /\ DOMAIN z = 1 .. n
  OBVIOUS
<1>2. \A c : isspace(c) <=> c = Blank
  BY Zenon DEF isspace, Blank
<1>3. \A j : j \in S <=> j + 1 \in 1 .. n /\ z[j + 1] # Blank /\ j \in Int
  <2>1. \A k \in 1 .. n : k \in Int /\ k - 1 \in Int /\ (k - 1) + 1 = k
    BY <1>1
  <2>2. ASSUME NEW j \in S PROVE j + 1 \in 1 .. n /\ z[j + 1] # Blank /\ j \in Int
    <3>1. PICK k \in 1 .. n : ~ isspace(z[k]) /\ j = k - 1
      BY <1>1
    <3> QED BY <1>2, <2>1, <3>1
  <2>3. ASSUME NEW j \in Int, j + 1 \in 1 .. n, z[j + 1] # Blank PROVE j \in S
    <3>1. j = (j + 1) - 1
      OBVIOUS
    <3> QED BY <1>1, <1>2, <2>3, <3>1
  <2> QED BY <2>2, <2>3
<1>4. p = least_or(S, n)
  BY <1>1
<1> HIDE DEF S
<1>5. S \in SUBSET (0 .. n)
  <2>1. \A j \in Int : j + 1 \in 1 .. n => j \in 0 .. n
    BY <1>1
  <2> QED BY <1>3, <2>1
<1>6. p \in 0 .. n /\ (\A j \in S : p <= j) /\ (p = n \/ p \in S)
  <2>1. PICK m : m = least_or(S, n)
    OBVIOUS
  <2>2. m \in 0 .. n /\ (\A j \in S : m <= j) /\ (m = n \/ m \in S)
    BY <1>1, <1>5, <2>1, LeastOr
  <2>3. p = m
    BY <1>4, <2>1
  <2> QED BY <2>2, <2>3
<1>7. ASSUME NEW k \in 1 .. p PROVE z[k] = Blank
  <2> SUFFICES ASSUME z[k] # Blank PROVE FALSE
    OBVIOUS
  <2>1. k - 1 \in Int /\ (k - 1) + 1 = k /\ k \in 1 .. n /\ ~(p <= k - 1)
    BY <1>1, <1>6
  <2>2. k - 1 \in S
    BY <1>3, <2>1
  <2> QED BY <1>6, <2>1, <2>2
<1> QED BY <1>1, <1>3, <1>6, <1>7

-----------------------------------------------------------------------------
(* What sprintf has still to write at each character of its format.        *)

Percent == "%"
Chr == "c"
Dec == "d"
Str == "s"
Return == "\r"
Newline == "\n"

LEMMA Kinds ==
  /\ Percent # Chr /\ Percent # Dec /\ Percent # Str /\ Chr # Dec /\ Chr # Str /\ Dec # Str
  /\ Chr # Dash /\ Dec # Dash /\ Str # Dash /\ ~ isdigit(Chr) /\ ~ isdigit(Dec) /\ ~ isdigit(Str)
  /\ Newline \in Char
<1>1. /\ Percent # Chr /\ Percent # Dec /\ Percent # Str /\ Chr # Dec /\ Chr # Str /\ Dec # Str
      /\ Chr # Dash /\ Dec # Dash /\ Str # Dash
  BY DEF Percent, Chr, Dec, Str, Dash
<1>2. \A k \in 1 .. 10 : bchars[k] # "c" /\ bchars[k] # "d" /\ bchars[k] # "s"
  BY DEF bchars
<1>3. ~ isdigit(Chr) /\ ~ isdigit(Dec) /\ ~ isdigit(Str)
  BY <1>2 DEF isdigit, Chr, Dec, Str
<1>4. Newline \in Char
  BY CharAssumption DEF Newline
<1> QED BY <1>1, <1>3, <1>4

LEMMA TakenNone ==
  ASSUME NEW f \in Seq(Char)
  PROVE  taken(f, 0) = 0
<1>1. {j \in DOMAIN f : j <= 0 /\ f[j] = "%"} = {}
  OBVIOUS
<1> QED BY <1>1, FS_EmptySet DEF taken

\* One more at each '%'.
LEMMA TakenMore ==
  ASSUME NEW f \in Seq(Char), NEW k \in 1 .. Len(f)
  PROVE  /\ taken(f, k - 1) \in Nat
         /\ taken(f, k) = IF f[k] = Percent THEN taken(f, k - 1) + 1 ELSE taken(f, k - 1)
<1>1. PICK n : n = Len(f) /\ n \in Nat /\ DOMAIN f = 1 .. n
  OBVIOUS
<1>2. PICK S, T : /\ S = {j \in DOMAIN f : j <= k - 1 /\ f[j] = Percent}
                  /\ T = {j \in DOMAIN f : j <= k /\ f[j] = Percent}
  OBVIOUS
<1>3. taken(f, k - 1) = Cardinality(S) /\ taken(f, k) = Cardinality(T)
  BY <1>2 DEF taken, Percent
<1>4. IsFiniteSet(S)
  <2>1. S \subseteq 1 .. n /\ IsFiniteSet(1 .. n)
    BY <1>1, <1>2, FS_Interval
  <2> QED BY <2>1, FS_Subset
<1>5. Cardinality(S) \in Nat
  BY <1>4, FS_CardinalityType
<1>6. CASE f[k] = Percent
  <2>1. T = S \cup {k}
    <3>1. \A j \in 1 .. n : j <= k <=> (j <= k - 1 \/ j = k)
      BY <1>1
    <3> QED BY <1>1, <1>2, <1>6, <3>1
  <2>2. k \notin S
    BY <1>1, <1>2
  <2>3. Cardinality(S \cup {k}) = Cardinality(S) + 1
    BY <1>4, <2>2, FS_AddElement
  <2> QED BY <1>3, <1>5, <1>6, <2>1, <2>3
<1>7. CASE f[k] # Percent
  <2>1. T = S
    <3>1. \A j \in 1 .. n : j <= k <=> (j <= k - 1 \/ j = k)
      BY <1>1
    <3> QED BY <1>1, <1>2, <1>7, <3>1
  <2> QED BY <1>3, <1>5, <1>7, <2>1
<1> QED BY <1>6, <1>7

\* A format that sscanf knows, with its arguments.
OfKind(c, a) ==
  \/ c = Chr /\ a \in Char
  \/ c = Dec /\ a \in Int /\ a = int(a)
  \/ c = Str /\ a \in Seq(Char)

Fits(f, v) ==
  /\ f \in Seq(Char)
  /\ v = [k \in 1 .. taken(f, Len(f)) |-> v[k]]
  /\ \A k \in 1 .. Len(f) : f[k] = Percent => k < Len(f) /\ OfKind(f[k + 1], v[taken(f, k)])

LEMMA FitsCall ==
  ASSUME NEW call \in Calls, scannable(call.format)
  PROVE  Fits(call.format, call.valist)
<1>1. PICK f, v : f = call.format /\ v = call.valist
  OBVIOUS
<1>2. f \in Seq(Char)
  BY <1>1, CallsAssumption
<1>3. /\ v = [k \in 1 .. taken(f, Len(f)) |-> v[k]]
      /\ \A k \in DOMAIN f : f[k] = "%" =>
           \/ f[k + 1] = "c" /\ v[taken(f, k)] \in Char
           \/ f[k + 1] = "d" /\ v[taken(f, k)] \in Int /\ v[taken(f, k)] = int(v[taken(f, k)])
           \/ f[k + 1] = "s" /\ v[taken(f, k)] \in Seq(Char)
  BY <1>1, CallsAssumption
<1>4. \A k \in DOMAIN f : f[k] = "%" => k < Len(f)
  BY <1>1 DEF scannable
<1>5. DOMAIN f = 1 .. Len(f)
  BY <1>2
<1>6. ASSUME NEW k \in 1 .. Len(f), f[k] = Percent
      PROVE  k < Len(f) /\ OfKind(f[k + 1], v[taken(f, k)])
  <2>1. f[k] = "%" /\ k \in DOMAIN f
    BY <1>5, <1>6 DEF Percent
  <2> QED BY <1>3, <1>4, <2>1 DEF OfKind, Chr, Dec, Str
<1> QED BY <1>1, <1>2, <1>3, <1>6 DEF Fits

\* A conversion is written at its '%'.
Shown(c, a) == IF c = Dec THEN itoa(a, 10) ELSE IF c = Chr THEN <<a>> ELSE a

TextAt(f, v, k) ==
  IF k # 1 /\ f[k - 1] = Percent THEN <<>>
  ELSE IF f[k] = Percent THEN Shown(f[k + 1], v[taken(f, k)])
  ELSE IF f[k] = Return THEN <<Newline>> ELSE <<f[k]>>

LEMMA ShownIs ==
  ASSUME NEW c, NEW a, OfKind(c, a)
  PROVE  Shown(c, a) \in Seq(Char)
<1>1. CASE c = Dec /\ a \in Int /\ a = int(a)
  <2>1. <<>> \in Seq(Char)
    OBVIOUS
  <2>2. PICK w, r : w = itoa(a, 10) /\ r \in Seq(Char) /\ r = <<>>
    BY <2>1
  <2>3. w \in Seq(Char)
    BY <1>1, <2>2, NumberBack
  <2> QED BY <1>1, <2>2, <2>3 DEF Shown
<1>2. CASE c = Chr /\ a \in Char
  BY <1>2, Kinds DEF Shown
<1>3. CASE c = Str /\ a \in Seq(Char)
  BY <1>3, Kinds DEF Shown
<1> QED BY <1>1, <1>2, <1>3 DEF OfKind

LEMMA TextAtIs ==
  ASSUME NEW f, NEW v, Fits(f, v), NEW k \in 1 .. Len(f)
  PROVE  TextAt(f, v, k) \in Seq(Char)
<1>1. f \in Seq(Char) /\ f[k] \in Char
  BY ElementOfSeq DEF Fits
<1>2. <<>> \in Seq(Char) /\ <<Newline>> \in Seq(Char) /\ <<f[k]>> \in Seq(Char)
  BY <1>1, Kinds
<1>3. f[k] = Percent => Shown(f[k + 1], v[taken(f, k)]) \in Seq(Char)
  BY ShownIs DEF Fits
<1> QED BY <1>2, <1>3 DEF TextAt

IsTexts(g, f, v) ==
  /\ g \in [1 .. Len(f) + 1 -> Seq(Char)] /\ g[Len(f) + 1] = <<>>
  /\ \A k \in 1 .. Len(f) : g[k] = TextAt(f, v, k) \o g[k + 1]

Texts(f, v) == CHOOSE g : IsTexts(g, f, v)

LEMMA TextsThere ==
  ASSUME NEW f, NEW v, Fits(f, v)
  PROVE  IsTexts(Texts(f, v), f, v)
<1>1. PICK n : n = Len(f) /\ n \in Nat
  BY DEF Fits
<1> DEFINE Part(g, m) == /\ g \in [1 .. n + 1 -> Seq(Char)] /\ g[n + 1] = <<>>
                         /\ \A k \in 1 .. n : n - m < k => g[k] = TextAt(f, v, k) \o g[k + 1]
           Q == {m \in Nat : m <= n => \E g : Part(g, m)}
<1>2. 0 \in Q
  <2>1. PICK g : g = [k \in 1 .. n + 1 |-> <<>>]
    OBVIOUS
  <2>2. g \in [1 .. n + 1 -> Seq(Char)] /\ g[n + 1] = <<>>
    BY <1>1, <2>1
  <2>3. \A k \in 1 .. n : ~(n - 0 < k)
    BY <1>1
  <2> QED BY <2>2, <2>3
<1>3. ASSUME NEW m \in Q PROVE m + 1 \in Q
  <2>1. ASSUME m + 1 <= n PROVE \E g : Part(g, m + 1)
    <3>1. m \in Nat /\ m <= n
      BY <1>1, <2>1
    <3>2. PICK g : Part(g, m)
      BY <3>1
    <3>3. PICK p : p = n - m
      OBVIOUS
    <3>4. p \in 1 .. n /\ p \in 1 .. n + 1 /\ p + 1 \in 1 .. n + 1 /\ p # n + 1 /\ p # p + 1
      BY <1>1, <2>1, <3>1, <3>3
    <3>5. PICK x : x = TextAt(f, v, p) \o g[p + 1]
      OBVIOUS
    <3>6. x \in Seq(Char)
      <4>1. TextAt(f, v, p) \in Seq(Char)
        BY <1>1, <3>4, TextAtIs
      <4>2. g[p + 1] \in Seq(Char)
        BY <3>2, <3>4
      <4> QED BY <3>5, <4>1, <4>2, Joined
    <3>7. PICK h : h = [g EXCEPT ![p] = x]
      OBVIOUS
    <3>8. h \in [1 .. n + 1 -> Seq(Char)] /\ h[p] = x /\ \A k \in 1 .. n + 1 : k # p => h[k] = g[k]
      BY <3>2, <3>4, <3>6, <3>7
    <3>9. h[n + 1] = <<>>
      BY <1>1, <3>2, <3>4, <3>8
    <3>10. ASSUME NEW k \in 1 .. n, n - (m + 1) < k PROVE h[k] = TextAt(f, v, k) \o h[k + 1]
      <4>1. k + 1 \in 1 .. n + 1 /\ k + 1 # p /\ k \in 1 .. n + 1 /\ (k # p => n - m < k)
        BY <1>1, <3>1, <3>3, <3>10
      <4>2. h[k + 1] = g[k + 1]
        BY <3>8, <4>1
      <4>3. CASE k = p
        BY <3>5, <3>8, <4>2, <4>3
      <4>4. CASE k # p
        BY <3>2, <3>8, <4>1, <4>2, <4>4
      <4> QED BY <4>3, <4>4
    <3> QED BY <3>8, <3>9, <3>10
  <2> QED BY <2>1
<1>4. Q \in SUBSET Nat
  OBVIOUS
<1> HIDE DEF Q
<1>5. n \in Q
  BY <1>1, <1>2, <1>3, <1>4, AllNumbers
<1>6. PICK g : Part(g, n)
  BY <1>5 DEF Q
<1>7. \A k \in 1 .. n : n - n < k
  BY <1>1
<1>8. IsTexts(g, f, v)
  BY <1>1, <1>6, <1>7 DEF IsTexts
<1> QED BY <1>8, Zenon DEF Texts

\* Between two pieces of a format.
AtPiece(f, k) == k \in 1 .. Len(f) + 1 /\ (k # 1 => f[k - 1] # Percent)

TextIs(f, v, k, w, m) ==
  /\ w \in Seq(Char) /\ AtPiece(f, m)
  /\ Texts(f, v)[k] \in Seq(Char) /\ Texts(f, v)[m] \in Seq(Char)
  /\ Texts(f, v)[k] = w \o Texts(f, v)[m]

LEMMA TextsAre ==
  ASSUME NEW f, NEW v, Fits(f, v), NEW g, g = Texts(f, v)
  PROVE  Len(f) \in Nat /\ IsTexts(g, f, v) /\ \A k \in 1 .. Len(f) + 1 : g[k] \in Seq(Char)
<1>1. Len(f) \in Nat
  BY DEF Fits
<1>2. IsTexts(g, f, v)
  BY TextsThere
<1> QED BY <1>1, <1>2 DEF IsTexts

LEMMA LiteralText ==
  ASSUME NEW f, NEW v, Fits(f, v), NEW k, AtPiece(f, k), k # Len(f) + 1, f[k] # Percent
  PROVE  /\ TextIs(f, v, k, IF f[k] = Return THEN <<Newline>> ELSE <<f[k]>>, k + 1)
         /\ taken(f, k) = taken(f, k - 1) /\ k \in 1 .. Len(f) /\ f[k] \in Char
<1>1. PICK n, g : n = Len(f) /\ g = Texts(f, v)
  OBVIOUS
<1>2. /\ n \in Nat /\ g[n + 1] = <<>> /\ \A j \in 1 .. n + 1 : g[j] \in Seq(Char)
      /\ \A j \in 1 .. n : g[j] = TextAt(f, v, j) \o g[j + 1]
  <2>1. Len(f) \in Nat /\ IsTexts(g, f, v)
    BY <1>1, TextsAre
  <2> QED BY <1>1, <2>1 DEF IsTexts
<1>3. k \in 1 .. n /\ k \in 1 .. n + 1 /\ k + 1 \in 1 .. n + 1 /\ (k + 1) - 1 = k /\ k + 1 # 1
  BY <1>1, <1>2 DEF AtPiece
<1>4. AtPiece(f, k + 1)
  BY <1>1, <1>3 DEF AtPiece
<1>5. TextAt(f, v, k) = IF f[k] = Return THEN <<Newline>> ELSE <<f[k]>>
  BY DEF TextAt, AtPiece
<1>6. TextAt(f, v, k) \in Seq(Char)
  BY <1>1, <1>3, TextAtIs
<1>7. g[k] \in Seq(Char) /\ g[k + 1] \in Seq(Char) /\ g[k] = TextAt(f, v, k) \o g[k + 1]
  BY <1>2, <1>3
<1>8. f \in Seq(Char)
  BY DEF Fits
<1>9. taken(f, k) = taken(f, k - 1)
  BY <1>1, <1>3, <1>8, TakenMore
<1>10. f[k] \in Char
  BY <1>1, <1>3, <1>8, ElementOfSeq
<1> QED BY <1>1, <1>3, <1>4, <1>5, <1>6, <1>7, <1>9, <1>10 DEF TextIs

LEMMA ConversionText ==
  ASSUME NEW f, NEW v, Fits(f, v), NEW k, AtPiece(f, k), k # Len(f) + 1, f[k] = Percent
  PROVE  /\ TextIs(f, v, k, Shown(f[k + 1], v[taken(f, k)]), k + 2)
         /\ OfKind(f[k + 1], v[taken(f, k)]) /\ k \in 1 .. Len(f) /\ k + 1 \in 1 .. Len(f)
         /\ taken(f, k - 1) \in Nat /\ taken(f, k) = taken(f, k - 1) + 1
         /\ taken(f, k + 1) = taken(f, k)
<1>1. PICK n, g, w : n = Len(f) /\ g = Texts(f, v) /\ w = Shown(f[k + 1], v[taken(f, k)])
  OBVIOUS
<1>2. /\ n \in Nat /\ g[n + 1] = <<>> /\ \A j \in 1 .. n + 1 : g[j] \in Seq(Char)
      /\ \A j \in 1 .. n : g[j] = TextAt(f, v, j) \o g[j + 1]
  <2>1. Len(f) \in Nat /\ IsTexts(g, f, v)
    BY <1>1, TextsAre
  <2> QED BY <1>1, <2>1 DEF IsTexts
<1>3. k \in 1 .. n /\ f \in Seq(Char)
  BY <1>1, <1>2 DEF AtPiece, Fits
<1>4. k < n /\ OfKind(f[k + 1], v[taken(f, k)])
  BY <1>1, <1>3 DEF Fits
<1>5. /\ k \in 1 .. n + 1 /\ k + 1 \in 1 .. n + 1 /\ k + 1 \in 1 .. n /\ k + 2 \in 1 .. n + 1
      /\ (k + 1) - 1 = k /\ (k + 1) + 1 = k + 2 /\ k + 1 # 1 /\ k + 2 # 1 /\ (k + 2) - 1 = k + 1
  BY <1>2, <1>3, <1>4
<1>6. f[k + 1] # Percent
  BY <1>4, Kinds DEF OfKind
<1>7. AtPiece(f, k + 2)
  BY <1>1, <1>5, <1>6 DEF AtPiece
<1>8. TextAt(f, v, k) = w /\ TextAt(f, v, k + 1) = <<>>
  BY <1>1, <1>5 DEF TextAt, AtPiece
<1>9. w \in Seq(Char)
  BY <1>1, <1>4, ShownIs
<1>10. g[k] \in Seq(Char) /\ g[k + 1] \in Seq(Char) /\ g[k + 2] \in Seq(Char)
  BY <1>2, <1>5
<1>11. g[k] = w \o g[k + 1] /\ g[k + 1] = <<>> \o g[k + 2]
  <2>1. g[k] = TextAt(f, v, k) \o g[k + 1]
    BY <1>2, <1>3
  <2>2. g[k + 1] = TextAt(f, v, k + 1) \o g[(k + 1) + 1]
    BY <1>2, <1>5
  <2> QED BY <1>5, <1>8, <2>1, <2>2
<1>12. g[k + 1] = g[k + 2]
  <2>1. PICK x, y : x = g[k + 1] /\ y = g[k + 2]
    OBVIOUS
  <2>2. y \in Seq(Char) /\ x = <<>> \o y
    BY <1>10, <1>11, <2>1
  <2> QED BY <2>1, <2>2
<1>13. TextIs(f, v, k, w, k + 2)
  BY <1>1, <1>7, <1>9, <1>10, <1>11, <1>12 DEF TextIs
<1>14. taken(f, k - 1) \in Nat /\ taken(f, k) = taken(f, k - 1) + 1
  BY <1>1, <1>3, TakenMore
<1>15. taken(f, k + 1) = taken(f, k)
  <2>1. taken(f, k + 1) = taken(f, (k + 1) - 1)
    BY <1>1, <1>3, <1>5, <1>6, TakenMore
  <2> QED BY <1>5, <2>1
<1> QED BY <1>1, <1>3, <1>4, <1>5, <1>13, <1>14, <1>15

\* What is read back when there is no blank in what was written.
Unread(z, w, t, n) ==
  /\ z = w \o Wide(t, n) /\ z \in Seq(Char) /\ Wide(t, n) \in Seq(Char) /\ Len(w) \in 0 .. Len(z)
  /\ SubSeq(z, 1, Len(w)) = w /\ SubSeq(z, Len(w) + 1, Len(z)) = Wide(t, n)

LEMMA UnreadIs ==
  ASSUME NEW n \in Nat, NEW w \in Seq(Char), NEW t \in Seq(Char), NoBlank(w),
         NEW e, NEW z, Skips(Wide(w \o t, n), e, z), w # <<>> \/ e = 0
  PROVE  e = 0 /\ Unread(z, w, t, n)
<1>1. PICK y : y = Wide(t, n)
  OBVIOUS
<1>2. WideAs(w, t, n)
  BY WideJoined
<1>3. Wide(w, n) = w
  BY WideSame
<1>4. y \in Seq(Char) /\ Wide(w \o t, n) = w \o y
  BY <1>1, <1>2, <1>3 DEF WideAs
<1>5. Skips(w \o y, e, z)
  BY <1>4
<1>6. e = 0 /\ z = w \o y
  <2>1. CASE w # <<>>
    <3>1. Len(w) \in Nat /\ Len(w) # 0
      BY <2>1, EmptySeq
    <3>2. 1 \in 1 .. Len(w)
      BY <3>1
    <3>3. w[1] # Blank
      BY <3>2 DEF NoBlank
    <3> QED BY <1>4, <1>5, <2>1, <3>3, SkipsNone
  <2>2. CASE w = <<>>
    <3>1. e = 0
      BY <2>2
    <3>2. Skips(w \o y, 0, z)
      BY <1>5, <3>1
    <3> QED BY <3>1, <3>2, SkipsNothing, Zenon
  <2> QED BY <2>1, <2>2
<1>7. /\ SubSeq(w \o y, 1, Len(w)) = w /\ SubSeq(w \o y, Len(w) + 1, Len(w \o y)) = y
      /\ Len(w) \in 0 .. Len(w \o y)
  BY <1>4, FirstPart
<1>8. w \o y \in Seq(Char)
  BY <1>4, Joined
<1> QED BY <1>1, <1>4, <1>6, <1>7, <1>8 DEF Unread

\* What stands behind a piece begins with the character behind it.
LEMMA WideNext ==
  ASSUME NEW f, NEW v, Fits(f, v), NEW n \in Nat \ {0}, NEW k, AtPiece(f, k), NEW y, y = Wide(Texts(f, v)[k], n)
  PROVE  /\ y \in Seq(Char)
         /\ k = Len(f) + 1 => y = <<>>
         /\ k # Len(f) + 1 /\ f[k] # Percent /\ f[k] # Return => y # <<>> /\ y[1] = f[k]
<1>1. PICK g, t : g = Texts(f, v) /\ t = g[k]
  OBVIOUS
<1>2. t \in Seq(Char)
  BY <1>1, TextsAre DEF AtPiece
<1>3. y \in Seq(Char)
  BY <1>1, <1>2, WideJoined DEF WideAs
<1>4. ASSUME k = Len(f) + 1 PROVE y = <<>>
  <2>1. t = <<>>
    BY <1>1, <1>4, TextsAre DEF IsTexts
  <2> QED BY <1>1, <2>1, WideEmpty
<1>5. ASSUME k # Len(f) + 1, f[k] # Percent, f[k] # Return PROVE y # <<>> /\ y[1] = f[k]
  <2>1. PICK c, r : c = f[k] /\ r = g[k + 1]
    OBVIOUS
  <2>2. c \in Char /\ TextIs(f, v, k, <<c>>, k + 1)
    BY <1>5, <2>1, LiteralText
  <2>3. <<c>> \in Seq(Char) /\ r \in Seq(Char) /\ t = <<c>> \o r
    BY <1>1, <2>1, <2>2 DEF TextIs
  <2>4. WideAs(<<c>>, r, n)
    BY <2>3, WideJoined
  <2>5. PICK x, z : x = Wide(<<c>>, n) /\ z = Wide(r, n)
    OBVIOUS
  <2>6. x \in Seq(Char) /\ z \in Seq(Char) /\ y = x \o z
    BY <1>1, <2>3, <2>4, <2>5 DEF WideAs
  <2>7. Len(x) # 0 /\ Len(x) \in Nat /\ x[1] = c
    <3>1. CASE c = Blank
      <4>1. AllBlank(x, n)
        BY <2>2, <2>5, <3>1, WideOne, BlanksAre
      <4>2. 1 \in 1 .. n
        OBVIOUS
      <4> QED BY <3>1, <4>1, <4>2 DEF AllBlank
    <3>2. CASE c # Blank
      <4>1. x = <<c>>
        BY <2>2, <2>5, <3>2, WideOne
      <4> QED BY <4>1
    <3> QED BY <3>1, <3>2
  <2>8. 1 \in 1 .. Len(x)
    BY <2>7
  <2>9. Len(y) = Len(x) + Len(z) /\ Len(z) \in Nat /\ y[1] = x[1]
    BY <2>6, <2>8, Joined
  <2>10. Len(y) # 0
    BY <2>7, <2>9
  <2> QED BY <2>1, <2>7, <2>9, <2>10, EmptySeq
<1> QED BY <1>3, <1>4, <1>5

-----------------------------------------------------------------------------
(* One step of sscanf on the line that sprintf has left.                   *)

SepAt(f, v, k) ==
  \/ f[k + 1] = Dec /\ (k + 1 # Len(f) => f[k + 2] # Percent /\ ~ isdigit(f[k + 2]))
  \/ /\ f[k + 1] = Str /\ NoBlank(v[taken(f, k)])
     /\ k + 1 # Len(f) => f[k + 2] = Blank
     /\ v[taken(f, k)] # <<>> \/ k + 1 = Len(f) \/ k = 1 \/ f[k - 1] # Blank
  \/ f[k + 1] = Chr /\ v[taken(f, k)] # Blank

Sep(f, v) == \A k \in 1 .. Len(f) : f[k] # Return /\ (f[k] = Percent => SepAt(f, v, k))

\* The line behind a piece of the format, but for blanks already passed.
ReadsOn(f, v, n, k, e, z) ==
  /\ n \in Nat \ {0} /\ AtPiece(f, k) /\ Skips(Wide(Texts(f, v)[k], n), e, z)
  /\ e # 0 => k # 1 /\ f[k - 1] = Blank

LEMMA ReadsAt ==
  ASSUME NEW f, NEW v, NEW n \in Nat \ {0}, NEW w, NEW m, NEW k, TextIs(f, v, k, w, m),
         NEW z, Unread(z, w, Texts(f, v)[m], n)
  PROVE  ReadsOn(f, v, n, m, 0, SubSeq(z, Len(w) + 1, Len(z)))
<1>1. PICK y : y = Wide(Texts(f, v)[m], n)
  OBVIOUS
<1>2. y \in Seq(Char) /\ SubSeq(z, Len(w) + 1, Len(z)) = y
  BY <1>1 DEF Unread
<1>3. Skips(y, 0, y)
  BY <1>2, SkipsItself
<1> QED BY <1>1, <1>2, <1>3 DEF ReadsOn, TextIs

LEMMA ScanLiteral ==
  ASSUME NEW f, NEW v, Fits(f, v), Sep(f, v), NEW n, NEW k, NEW e, NEW z, ReadsOn(f, v, n, k, e, z),
         k # Len(f) + 1, f[k] # Percent, f[k] # Blank
  PROVE  /\ z # <<>> /\ Head(z) = f[k] /\ 1 \in 0 .. Len(z)
         /\ ReadsOn(f, v, n, k + 1, 0, SubSeq(z, 1 + 1, Len(z)))
<1>1. PICK w, t : w = <<f[k]>> /\ t = Texts(f, v)[k + 1]
  OBVIOUS
<1>2. AtPiece(f, k) /\ n \in Nat \ {0}
  BY DEF ReadsOn
<1>3. k \in 1 .. Len(f) /\ f[k] \in Char
  BY <1>2, LiteralText
<1>4. f[k] # Return
  BY <1>3 DEF Sep
<1>5. TextIs(f, v, k, w, k + 1)
  BY <1>1, <1>2, <1>4, LiteralText
<1>6. w \in Seq(Char) /\ t \in Seq(Char) /\ Texts(f, v)[k] = w \o t
  BY <1>1, <1>5 DEF TextIs
<1>7. Len(w) = 1 /\ w[1] = f[k] /\ w # <<>> /\ NoBlank(w)
  BY <1>1 DEF NoBlank
<1>8. Skips(Wide(w \o t, n), e, z)
  BY <1>6 DEF ReadsOn
<1>9. Unread(z, w, t, n)
  BY <1>2, <1>6, <1>7, <1>8, UnreadIs
<1>10. ReadsOn(f, v, n, k + 1, 0, SubSeq(z, Len(w) + 1, Len(z)))
  BY <1>1, <1>2, <1>5, <1>9, ReadsAt
<1>11. z \in Seq(Char) /\ 1 \in 0 .. Len(z) /\ z = w \o Wide(t, n) /\ Wide(t, n) \in Seq(Char)
  BY <1>7, <1>9 DEF Unread
<1>12. z[1] = w[1]
  <2>1. 1 \in 1 .. Len(w)
    BY <1>7
  <2> QED BY <1>6, <1>11, <2>1, Joined
<1>13. z # <<>> /\ Head(z) = z[1]
  <2>1. Len(z) # 0
    BY <1>11
  <2> QED BY <1>11, <2>1, EmptySeq
<1> QED BY <1>7, <1>10, <1>11, <1>12, <1>13

LEMMA ScanBlank ==
  ASSUME NEW f, NEW v, Fits(f, v), NEW n, NEW k, NEW e, NEW z, ReadsOn(f, v, n, k, e, z),
         k # Len(f) + 1, f[k] = Blank, Blank # Percent, Blank # Return,
         NEW p, p = least_or({j - 1 : j \in {j \in DOMAIN z : ~ isspace(z[j])}}, Len(z))
  PROVE  p \in 0 .. Len(z) /\ \E d : ReadsOn(f, v, n, k + 1, d, SubSeq(z, p + 1, Len(z)))
<1>1. PICK w, t : w = <<Blank>> /\ t = Texts(f, v)[k + 1]
  OBVIOUS
<1>2. AtPiece(f, k) /\ n \in Nat \ {0}
  BY DEF ReadsOn
<1>3. TextIs(f, v, k, w, k + 1) /\ k \in 1 .. Len(f)
  BY <1>1, <1>2, LiteralText
<1>4. w \in Seq(Char) /\ t \in Seq(Char) /\ Texts(f, v)[k] = w \o t /\ AtPiece(f, k + 1)
  BY <1>1, <1>3 DEF TextIs
<1>5. PICK x, y : x = blanks(n) /\ y = Wide(t, n)
  OBVIOUS
<1>6. Wide(w, n) = x /\ AllBlank(x, n)
  BY <1>1, <1>2, <1>5, BlankIn, WideOne, BlanksAre
<1>7. WideAs(w, t, n)
  BY <1>2, <1>4, WideJoined
<1>8. y \in Seq(Char) /\ Wide(w \o t, n) = x \o y
  BY <1>5, <1>6, <1>7 DEF WideAs
<1>9. Skips(x \o y, e, z)
  BY <1>4, <1>8 DEF ReadsOn
<1>10. z \in Seq(Char)
  BY <1>9 DEF Skips
<1>11. p \in 0 .. Len(z) /\ (\A j \in 1 .. p : z[j] = Blank) /\ (p = Len(z) \/ z[p + 1] # Blank)
  BY <1>10, BlanksPassed
<1>12. n \in Nat
  BY <1>2
<1>13. PICK d \in Nat : Skips(y, d, SubSeq(z, p + 1, Len(z)))
  BY <1>6, <1>8, <1>9, <1>11, <1>12, SkipsMore
<1>14. k + 1 # 1 /\ (k + 1) - 1 = k
  BY <1>3
<1>15. ReadsOn(f, v, n, k + 1, d, SubSeq(z, p + 1, Len(z)))
  BY <1>1, <1>2, <1>4, <1>5, <1>13, <1>14 DEF ReadsOn
<1> QED BY <1>11, <1>15

word(z) == least_or({k - 1 : k \in {k \in DOMAIN z : isspace(z[k])}}, Len(z))

ScansAs(c, a, z, l) ==
  \/ c = Chr /\ l = 1 /\ Head(Append(z, NUL)) = a
  \/ c = Dec /\ read_int(z).num = a /\ read_int(z).cnt = l
  \/ c = Str /\ word(z) = l /\ SubSeq(z, 1, l) = a

LEMMA ScanConversion ==
  ASSUME NEW f, NEW v, Fits(f, v), Sep(f, v), NEW n, NEW k, NEW e, NEW z, ReadsOn(f, v, n, k, e, z),
         k # Len(f) + 1, f[k] = Percent
  PROVE  \E l \in 0 .. Len(z) : /\ ReadsOn(f, v, n, k + 2, 0, SubSeq(z, l + 1, Len(z)))
                                /\ ScansAs(f[k + 1], v[taken(f, k)], z, l)
<1>1. PICK a, c, w, t : /\ a = v[taken(f, k)] /\ c = f[k + 1] /\ w = Shown(c, a)
                        /\ t = Texts(f, v)[k + 2]
  OBVIOUS
<1>2. AtPiece(f, k) /\ n \in Nat \ {0} /\ n \in Nat
  BY DEF ReadsOn
<1>3. TextIs(f, v, k, w, k + 2) /\ OfKind(c, a) /\ k \in 1 .. Len(f)
  BY <1>1, <1>2, ConversionText
<1>4. w \in Seq(Char) /\ t \in Seq(Char) /\ Texts(f, v)[k] = w \o t /\ AtPiece(f, k + 2)
  BY <1>1, <1>3 DEF TextIs
<1>5. Skips(Wide(w \o t, n), e, z) /\ (e # 0 => k # 1 /\ f[k - 1] = Blank)
  BY <1>4 DEF ReadsOn
<1>6. SepAt(f, v, k)
  BY <1>3 DEF Sep
<1>7. PICK y : y = Wide(t, n)
  OBVIOUS
<1>8. /\ y \in Seq(Char)
      /\ k + 2 = Len(f) + 1 => y = <<>>
      /\ k + 2 # Len(f) + 1 /\ f[k + 2] # Percent /\ f[k + 2] # Return => y # <<>> /\ y[1] = f[k + 2]
  <2>1. PICK m : m = k + 2
    OBVIOUS
  <2>2. n \in Nat \ {0} /\ AtPiece(f, m) /\ y = Wide(Texts(f, v)[m], n)
    BY <1>1, <1>2, <1>4, <1>7, <2>1
  <2>3. /\ y \in Seq(Char)
        /\ m = Len(f) + 1 => y = <<>>
        /\ m # Len(f) + 1 /\ f[m] # Percent /\ f[m] # Return => y # <<>> /\ y[1] = f[m]
    BY <2>2, WideNext
  <2> QED BY <2>1, <2>3
<1>9. k + 2 # Len(f) + 1 => k + 1 # Len(f) /\ f[k + 2] # Return
  <2>1. Len(f) \in Nat /\ k \in Nat
    BY <1>3 DEF Fits
  <2>2. k + 2 # Len(f) + 1 => k + 1 # Len(f) /\ k + 2 \in 1 .. Len(f)
    BY <1>4, <2>1 DEF AtPiece
  <2> QED BY <2>2 DEF Sep
<1>10. ASSUME NoBlank(w), w # <<>> \/ e = 0
       PROVE  Unread(z, w, t, n) /\ ReadsOn(f, v, n, k + 2, 0, SubSeq(z, Len(w) + 1, Len(z)))
  <2>1. Unread(z, w, t, n)
    BY <1>2, <1>4, <1>5, <1>10, UnreadIs
  <2> QED BY <1>1, <1>2, <1>3, <2>1, ReadsAt
<1>11. CASE c = Chr
  <2>1. a \in Char /\ a # Blank
    BY <1>1, <1>3, <1>6, <1>11, Kinds DEF OfKind, SepAt
  <2>2. w = <<a>>
    BY <1>1, <1>11, Kinds DEF Shown
  <2>3. Len(w) = 1 /\ w[1] = a /\ w # <<>> /\ NoBlank(w)
    BY <2>1, <2>2 DEF NoBlank
  <2>4. Unread(z, w, t, n) /\ ReadsOn(f, v, n, k + 2, 0, SubSeq(z, Len(w) + 1, Len(z)))
    BY <1>10, <2>3
  <2>5. z \in Seq(Char) /\ 1 \in 0 .. Len(z) /\ z = w \o y
    BY <1>7, <2>3, <2>4 DEF Unread
  <2>6. z[1] = a
    <3>1. 1 \in 1 .. Len(w)
      BY <2>3
    <3>2. (w \o y)[1] = w[1]
      BY <1>4, <1>8, <3>1, Joined
    <3> QED BY <2>3, <2>5, <3>2
  <2>7. Head(Append(z, NUL)) = z[1]
    <3>1. PICK m : m = Len(z)
      OBVIOUS
    <3>2. m \in Nat /\ 1 <= m
      BY <2>5, <3>1
    <3>3. Append(z, NUL)[1] = z[1]
      BY <2>5, <3>1, <3>2
    <3> QED BY <3>3
  <2>8. ScansAs(c, a, z, 1)
    BY <1>11, <2>6, <2>7 DEF ScansAs
  <2> QED BY <1>1, <2>3, <2>4, <2>5, <2>8
<1>12. CASE c = Dec
  <2>1. a \in Int /\ a = int(a) /\ (k + 1 # Len(f) => f[k + 2] # Percent /\ ~ isdigit(f[k + 2]))
    BY <1>1, <1>3, <1>6, <1>12, Kinds DEF OfKind, SepAt
  <2>2. w = itoa(a, 10)
    BY <1>1, <1>12 DEF Shown
  <2>3. y = <<>> \/ ~ isdigit(y[1])
    BY <1>8, <1>9, <2>1
  <2>4. w # <<>> /\ (\A o \in 1 .. Len(w) : isdigit(w[o])) /\ read_int(w \o y).num = a /\ read_int(w \o y).cnt = Len(w)
    BY <1>8, <2>1, <2>2, <2>3, NumberBack
  <2>5. NoBlank(w)
    BY <2>4, DigitIn DEF NoBlank
  <2>6. Unread(z, w, t, n) /\ ReadsOn(f, v, n, k + 2, 0, SubSeq(z, Len(w) + 1, Len(z)))
    BY <1>10, <2>4, <2>5
  <2>7. Len(w) \in 0 .. Len(z) /\ z = w \o y
    BY <1>7, <2>6 DEF Unread
  <2>8. ScansAs(c, a, z, Len(w))
    BY <1>12, <2>4, <2>7 DEF ScansAs
  <2> QED BY <1>1, <2>6, <2>7, <2>8
<1>13. CASE c = Str
  <2>1. /\ a \in Seq(Char) /\ NoBlank(a)
        /\ k + 1 # Len(f) => f[k + 2] = Blank
        /\ a # <<>> \/ k + 1 = Len(f) \/ k = 1 \/ f[k - 1] # Blank
    BY <1>1, <1>3, <1>6, <1>13, Kinds DEF OfKind, SepAt
  <2>2. w = a
    BY <1>1, <1>13, Kinds DEF Shown
  <2>3. y = <<>> \/ y[1] = Blank
    <3>1. Blank # Percent
      BY Zenon DEF Blank, Percent
    <3> QED BY <1>8, <1>9, <2>1, <3>1
  <2>4. w # <<>> \/ e = 0
    <3> SUFFICES ASSUME w = <<>>, e # 0 PROVE FALSE
      OBVIOUS
    <3>1. k + 1 = Len(f)
      BY <1>5, <2>1, <2>2
    <3>2. y = <<>>
      <4>1. k + 2 = Len(f) + 1
        BY <1>3, <3>1
      <4> QED BY <1>8, <4>1
    <3>3. w \o t = t
      BY <1>4
    <3>4. Skips(y, e, z)
      BY <1>5, <1>7, <3>3
    <3>5. Len(y) = 0
      BY <3>2
    <3>6. e \in Nat /\ Len(z) \in Nat /\ 0 = e + Len(z)
      BY <3>4, <3>5 DEF Skips
    <3> QED BY <3>6
  <2>5. Unread(z, w, t, n) /\ ReadsOn(f, v, n, k + 2, 0, SubSeq(z, Len(w) + 1, Len(z)))
    BY <1>10, <2>1, <2>2, <2>4
  <2>6. Len(w) \in 0 .. Len(z) /\ z = w \o y /\ SubSeq(z, 1, Len(w)) = w
    BY <1>7, <2>5 DEF Unread
  <2>7. word(z) = Len(w)
    <3>1. w \in Seq(Char) /\ y \in Seq(Char) /\ NoBlank(w) /\ (y = <<>> \/ y[1] = Blank) /\ z = w \o y
      BY <1>4, <1>8, <2>1, <2>2, <2>3, <2>6
    <3> QED BY <3>1, BlankFound, Zenon DEF word
  <2>8. ScansAs(c, a, z, Len(w))
    BY <1>13, <2>2, <2>6, <2>7 DEF ScansAs
  <2> QED BY <1>1, <2>5, <2>6, <2>8
<1> QED BY <1>3, <1>11, <1>12, <1>13 DEF OfKind

-----------------------------------------------------------------------------
(* sscanf reads what sprintf has written.  As long as sprintf writes, what *)
(* it has and what it has still to write make up the whole text; as long   *)
(* as sscanf reads, what it has not read yet is the rest of that text, but *)
(* for blanks that the format has already stood for.                       *)

Text(k) == Texts(format, valist)[k]

Writing ==
  /\ AtPiece(format, i) /\ narg = taken(format, i - 1) /\ buf \in Seq(Char)
  /\ buf \o Text(i) = Text(1) /\ read = <<>>

Reading ==
  /\ buf \in Seq(Char) /\ s_i \in 0 .. Len(buf)
  /\ read = [k \in 1 .. taken(format, i - 1) |-> valist[k]]
  /\ \E n, e : ReadsOn(format, valist, n, i, e, s)

IoInv ==
  /\ format \in Seq(Char)
  /\ scannable(format) => Fits(format, valist)
  /\ phase = "sprintf" /\ scannable(format) => Writing
  /\ phase = "sscanf" => scannable(format) /\ AtPiece(format, i) /\ (Separated => Reading)

\* The character of the format at a position between two pieces.
LEMMA CharIs ==
  ASSUME format \in Seq(Char), AtPiece(format, i)
  PROVE  /\ char(i) = NUL <=> i = Len(format) + 1
         /\ i # Len(format) + 1 => char(i) = format[i] /\ i \in 1 .. Len(format)
<1>1. PICK n : n = Len(format) /\ n \in Nat
  OBVIOUS
<1>2. i \in 1 .. n + 1
  BY <1>1 DEF AtPiece
<1>3. ASSUME i # n + 1 PROVE i \in 1 .. n /\ char(i) = format[i] /\ char(i) # NUL
  <2>1. i \in 1 .. n /\ i <= n
    BY <1>1, <1>2, <1>3
  <2>2. format[i] \in Char
    BY <1>1, <2>1, ElementOfSeq
  <2>3. char(i) = format[i]
    BY <1>1, <2>1 DEF char
  <2> QED BY <2>1, <2>2, <2>3, CharAssumption
<1>4. i = n + 1 => char(i) = NUL
  <2>1. ~(n + 1 <= n)
    BY <1>1
  <2> QED BY <1>1, <2>1 DEF char
<1> QED BY <1>1, <1>3, <1>4

LEMMA SeparatedMeans ==
  ASSUME Separated, Fits(format, valist)
  PROVE  Sep(format, valist)
<1>1. PICK n : n = Len(format) /\ n \in Nat /\ DOMAIN format = 1 .. n
  BY DEF Fits
<1>2. ASSUME NEW k \in 1 .. n PROVE format[k] # Return /\ (format[k] = Percent => SepAt(format, valist, k))
  <2>1. k \in DOMAIN format
    BY <1>1
  <2>2. format[k] # "\r"
    BY <2>1 DEF Separated
  <2>3. ASSUME format[k] = Percent PROVE SepAt(format, valist, k)
    <3>1. PICK a : a = valist[taken(format, k)]
      OBVIOUS
    <3>2. k < n /\ OfKind(format[k + 1], a)
      BY <1>1, <2>3, <3>1 DEF Fits
    <3>3. k + 1 <= n /\ (k + 1 # n => k + 2 <= n /\ k + 2 \in 1 .. n) /\ (k + 1 = n => ~(k + 2 <= n))
      BY <1>1, <3>2
    <3>4. char(k + 1) = format[k + 1]
      BY <1>1, <3>3 DEF char
    <3>5. char(k + 2) = IF k + 1 = n THEN NUL ELSE format[k + 2]
      BY <1>1, <3>3 DEF char
    <3>6. k + 1 # n => format[k + 2] # NUL
      <4>1. k + 1 # n => format[k + 2] \in Char
        BY <1>1, <3>3, ElementOfSeq DEF Fits
      <4> QED BY <4>1, CharAssumption
    <3>7. \/ char(k + 1) = Dec /\ char(k + 2) # Percent /\ ~ isdigit(char(k + 2))
          \/ /\ char(k + 1) = Str /\ strchr(a, Blanks) = {}
             /\ char(k + 2) = NUL \/ char(k + 2) = Blank
             /\ a # <<>> \/ char(k + 2) = NUL \/ k = 1 \/ format[k - 1] # Blank
          \/ char(k + 1) = Chr /\ a # Blank
      <4>1. \/ char(k + 1) = "d" /\ char(k + 2) # "%" /\ ~ isdigit(char(k + 2))
            \/ /\ char(k + 1) = "s" /\ strchr(a, {" "}) = {}
               /\ char(k + 2) \in {NUL, " "}
               /\ a # <<>> \/ char(k + 2) = NUL \/ k = 1 \/ format[k - 1] # " "
            \/ char(k + 1) = "c" /\ a # " "
        BY <2>1, <2>3, <3>1, Zenon DEF Separated, Percent
      <4> QED BY <4>1, Zenon DEF Dec, Str, Chr, Blank, Blanks, Percent
    <3>8. CASE char(k + 1) = Dec /\ char(k + 2) # Percent /\ ~ isdigit(char(k + 2))
      BY <1>1, <3>4, <3>5, <3>8 DEF SepAt
    <3>9. CASE char(k + 1) = Chr /\ a # Blank
      BY <3>1, <3>4, <3>9 DEF SepAt
    <3>10. CASE /\ char(k + 1) = Str /\ strchr(a, Blanks) = {}
                /\ char(k + 2) = NUL \/ char(k + 2) = Blank
                /\ a # <<>> \/ char(k + 2) = NUL \/ k = 1 \/ format[k - 1] # Blank
      <4>1. a \in Seq(Char)
        BY <3>2, <3>4, <3>10, Kinds DEF OfKind
      <4>2. NoBlank(a)
        <5>1. DOMAIN a = 1 .. Len(a)
          BY <4>1
        <5>2. \A o \in DOMAIN a : a[o] \notin Blanks
          BY <3>10 DEF strchr
        <5>3. Blank \in Blanks
          BY Zenon DEF Blank, Blanks
        <5> QED BY <5>1, <5>2, <5>3 DEF NoBlank
      <4>3. k + 1 # n => format[k + 2] = Blank
        BY <3>5, <3>6, <3>10
      <4>4. a # <<>> \/ k + 1 = n \/ k = 1 \/ format[k - 1] # Blank
        BY <3>5, <3>6, <3>10
      <4> QED BY <1>1, <3>1, <3>4, <3>10, <4>2, <4>3, <4>4 DEF SepAt
    <3> QED BY <3>7, <3>8, <3>9, <3>10
  <2> QED BY <2>2, <2>3 DEF Return
<1> QED BY <1>1, <1>2 DEF Sep

LEMMA IoInvInit == ioInit => IoInv
<1> SUFFICES ASSUME ioInit PROVE IoInv
  OBVIOUS
<1>1. PICK call \in Calls : format = call.format /\ valist = call.valist
  BY DEF ioInit
<1>2. phase = "sprintf" /\ i = 1 /\ narg = 0 /\ buf = <<>> /\ s_i = 0 /\ read = <<>>
  BY DEF ioInit
<1>3. format \in Seq(Char)
  BY <1>1, CallsAssumption
<1>4. scannable(format) => Fits(format, valist)
  BY <1>1, FitsCall
<1>5. ASSUME scannable(format) PROVE Writing
  <2>1. Len(format) \in Nat /\ 1 \in 1 .. Len(format) + 1 /\ 1 - 1 = 0
    BY <1>3
  <2>2. AtPiece(format, 1)
    BY <2>1 DEF AtPiece
  <2>3. taken(format, i - 1) = 0
    BY <1>2, <1>3, <2>1, TakenNone
  <2>4. PICK t : t = Text(1)
    OBVIOUS
  <2>5. t \in Seq(Char)
    BY <1>4, <1>5, <2>1, <2>4, TextsAre DEF Text
  <2>6. <<>> \in Seq(Char) /\ <<>> \o t = t
    BY <2>5
  <2> QED BY <1>2, <2>2, <2>3, <2>4, <2>6 DEF Writing
<1> QED BY <1>2, <1>3, <1>4, <1>5 DEF IoInv

\* Such a conversion has no number behind its '%'.
LEMMA KindIs ==
  ASSUME i \in Nat, NEW c, c = char(i + 1), c = Chr \/ c = Dec \/ c = Str, NEW a
  PROVE  digitLength = 0 /\ kind \in HasArgument /\ converted(a) = Shown(c, a)
<1>1. ~ isdigit(char(i + 1)) /\ char(i + 1) # Dash
  BY Kinds
<1>2. digitLength = 0
  BY <1>1 DEF digitLength, Dash
<1>3. i + digitLength + 1 = i + 1
  BY <1>2
<1>4. kind = c
  BY <1>3 DEF kind
<1>5. kind \in HasArgument
  BY <1>4 DEF HasArgument, Chr, Dec, Str
<1>6. converted(a) = Shown(c, a)
  <2>1. CASE c = Dec
    <3>1. kind \in {"d", "i"}
      BY <1>4, <2>1 DEF Dec
    <3>2. converted(a) = itoa(a, 10)
      BY <1>4, <2>1 DEF converted, Dec
    <3> QED BY <2>1, <3>2 DEF Shown
  <2>2. CASE c = Chr
    <3>1. converted(a) = <<a>>
      BY <1>4, <2>2 DEF converted, Chr
    <3> QED BY <2>2, <3>1, Kinds DEF Shown
  <2>3. CASE c = Str
    <3>1. converted(a) = a
      BY <1>4, <2>3 DEF converted, Str
    <3> QED BY <2>3, <3>1, Kinds DEF Shown
  <2> QED BY <2>1, <2>2, <2>3
<1> QED BY <1>2, <1>5, <1>6

LEMMA WrittenMore ==
  ASSUME Fits(format, valist), buf \in Seq(Char), buf \o Text(i) = Text(1),
         NEW w, NEW m, TextIs(format, valist, i, w, m)
  PROVE  buf \o w \in Seq(Char) /\ (buf \o w) \o Text(m) = Text(1)
<1>1. PICK b, t, r : b = buf /\ t = Text(m) /\ r = Text(i)
  OBVIOUS
<1>2. b \in Seq(Char) /\ w \in Seq(Char) /\ t \in Seq(Char) /\ r = w \o t
  BY <1>1 DEF TextIs, Text
<1>3. Regroups(b, w, t)
  BY <1>2, Regrouped, Zenon
<1>4. b \o w \in Seq(Char)
  BY <1>2, Joined
<1> QED BY <1>1, <1>2, <1>3, <1>4 DEF Regroups

LEMMA SprintfConversion ==
  ASSUME IoInv, sprintf_conversion
  PROVE  IoInv'
<1>1. /\ phase = "sprintf" /\ char(i) = Percent /\ i' = i + digitLength + 2
      /\ format' = format /\ valist' = valist /\ phase' = phase /\ read' = read
  BY DEF sprintf_conversion, Percent
<1>2. ASSUME scannable(format) PROVE Fits(format, valist) /\ Writing'
  <2>1. /\ format \in Seq(Char) /\ Fits(format, valist)
        /\ AtPiece(format, i) /\ narg = taken(format, i - 1) /\ buf \in Seq(Char)
        /\ buf \o Text(i) = Text(1) /\ read = <<>>
    BY <1>1, <1>2 DEF IoInv, Writing
  <2>2. Percent # NUL
    BY DEF Percent, NUL
  <2>3. i # Len(format) + 1 /\ format[i] = Percent /\ i \in 1 .. Len(format)
    BY <1>1, <2>1, <2>2, CharIs
  <2>4. PICK a, c, w : /\ a = valist[taken(format, i)] /\ c = format[i + 1] /\ w = Shown(c, a)
    OBVIOUS
  <2>5. /\ TextIs(format, valist, i, w, i + 2) /\ OfKind(c, a) /\ i + 1 \in 1 .. Len(format)
        /\ taken(format, i - 1) \in Nat /\ taken(format, i) = taken(format, i - 1) + 1
        /\ taken(format, i + 1) = taken(format, i)
    BY <2>1, <2>3, <2>4, ConversionText
  <2>6. char(i + 1) = c
    <3>1. i + 1 <= Len(format)
      BY <2>1, <2>3, <2>5
    <3> QED BY <2>4, <3>1 DEF char
  <2>7. i \in Nat /\ (c = Chr \/ c = Dec \/ c = Str)
    BY <2>3, <2>5 DEF OfKind
  <2>8. digitLength = 0 /\ kind \in HasArgument /\ converted(a) = w
    BY <2>4, <2>6, <2>7, KindIs
  <2>9. narg + 1 = taken(format, i)
    BY <2>1, <2>5
  <2>10. buf' = buf \o w /\ narg' = narg + 1
    BY <2>4, <2>8, <2>9 DEF sprintf_conversion
  <2>11. i' = i + 2 /\ i' - 1 = i + 1
    BY <1>1, <2>7, <2>8
  <2>12. buf \o w \in Seq(Char) /\ (buf \o w) \o Text(i + 2) = Text(1)
    BY <2>1, <2>5, WrittenMore
  <2>13. AtPiece(format, i')
    BY <2>5, <2>11 DEF TextIs
  <2>14. buf' \in Seq(Char) /\ buf' \o Texts(format', valist')[i'] = Texts(format', valist')[1]
    BY <1>1, <2>10, <2>11, <2>12 DEF Text
  <2>15. AtPiece(format', i') /\ narg' = taken(format', i' - 1) /\ read' = <<>>
    BY <1>1, <2>1, <2>5, <2>9, <2>10, <2>11, <2>13
  <2> QED BY <2>1, <2>14, <2>15 DEF Writing, Text
<1>3. format \in Seq(Char)
  BY DEF IoInv
<1>4. phase' # "sscanf"
  BY <1>1
<1> QED BY <1>1, <1>2, <1>3, <1>4 DEF IoInv

LEMMA SprintfChar ==
  ASSUME IoInv, sprintf_char
  PROVE  IoInv'
<1>1. /\ phase = "sprintf" /\ char(i) # Percent /\ char(i) # NUL /\ i' = i + 1
      /\ format' = format /\ valist' = valist /\ phase' = phase /\ read' = read /\ narg' = narg
      /\ buf' = Append(buf, IF format[i] = Return THEN Newline ELSE format[i])
  BY DEF sprintf_char, Percent, Return, Newline
<1>2. ASSUME scannable(format) PROVE Fits(format, valist) /\ Writing'
  <2>1. /\ format \in Seq(Char) /\ Fits(format, valist)
        /\ AtPiece(format, i) /\ narg = taken(format, i - 1) /\ buf \in Seq(Char)
        /\ buf \o Text(i) = Text(1) /\ read = <<>>
    BY <1>1, <1>2 DEF IoInv, Writing
  <2>2. i # Len(format) + 1 /\ format[i] # Percent /\ i \in 1 .. Len(format)
    BY <1>1, <2>1, CharIs
  <2>3. PICK c, w : c = (IF format[i] = Return THEN Newline ELSE format[i]) /\ w = <<c>>
    OBVIOUS
  <2>4. w = (IF format[i] = Return THEN <<Newline>> ELSE <<format[i]>>)
    BY <2>3
  <2>5. TextIs(format, valist, i, w, i + 1) /\ taken(format, i) = taken(format, i - 1) /\ format[i] \in Char
    BY <2>1, <2>2, <2>4, LiteralText
  <2>6. c \in Char
    BY <2>3, <2>5, Kinds
  <2>7. buf' = buf \o w
    BY <1>1, <2>1, <2>3, <2>6
  <2>8. buf \o w \in Seq(Char) /\ (buf \o w) \o Text(i + 1) = Text(1)
    BY <2>1, <2>5, WrittenMore
  <2>9. i' - 1 = i
    BY <1>1, <2>2
  <2>10. AtPiece(format, i')
    BY <1>1, <2>5 DEF TextIs
  <2>11. buf' \in Seq(Char) /\ buf' \o Texts(format', valist')[i'] = Texts(format', valist')[1]
    BY <1>1, <2>7, <2>8 DEF Text
  <2>12. AtPiece(format', i') /\ narg' = taken(format', i' - 1) /\ read' = <<>>
    BY <1>1, <2>1, <2>5, <2>9, <2>10
  <2> QED BY <2>1, <2>11, <2>12 DEF Writing, Text
<1>3. format \in Seq(Char)
  BY DEF IoInv
<1>4. phase' # "sscanf"
  BY <1>1
<1> QED BY <1>1, <1>2, <1>3, <1>4 DEF IoInv

LEMMA SscanfBegin ==
  ASSUME IoInv, sscanf_begin
  PROVE  IoInv'
<1>1. /\ phase = "sprintf" /\ char(i) = NUL /\ scannable(format) /\ phase' = "sscanf" /\ i' = 1 /\ s_i' = 0
      /\ format' = format /\ valist' = valist /\ read' = read
  BY DEF sscanf_begin
<1>2. /\ format \in Seq(Char) /\ Fits(format, valist)
      /\ AtPiece(format, i) /\ buf \in Seq(Char) /\ buf \o Text(i) = Text(1) /\ read = <<>>
  BY <1>1 DEF IoInv, Writing
<1>3. i = Len(format) + 1
  BY <1>1, <1>2, CharIs
<1>4. buf = Text(1)
  <2>1. Text(i) = <<>>
    BY <1>2, <1>3, TextsAre DEF Text, IsTexts
  <2> QED BY <1>2, <2>1
<1>5. PICK n \in 0 .. Spaces :
        buf' = FlattenSeq([k \in DOMAIN buf |-> IF isspace(buf[k]) THEN blanks(n + 1) ELSE <<buf[k]>>])
  BY DEF sscanf_begin
<1>6. PICK m \in Nat \ {0} : m = n + 1
  BY CallsAssumption
<1>7. buf' = Wide(Text(1), m)
  BY <1>2, <1>4, <1>5, <1>6, WideIs
<1>8. AtPiece(format, 1)
  <2>1. Len(format) \in Nat
    BY <1>2
  <2> QED BY <2>1 DEF AtPiece
<1>9. buf' \in Seq(Char)
  BY <1>2, <1>7, <1>8, WideNext DEF Text
<1>10. s' = buf'
  <2>1. PICK b : b = buf'
    OBVIOUS
  <2>2. b \in Seq(Char)
    BY <1>9, <2>1
  <2>3. SubSeq(b, 0 + 1, Len(b)) = b
    BY <2>2
  <2> QED BY <1>1, <2>1, <2>3 DEF s
<1>11. ReadsOn(format, valist, m, 1, 0, s')
  <2>1. Skips(buf', 0, buf')
    BY <1>9, SkipsItself
  <2> QED BY <1>7, <1>8, <1>10, <2>1 DEF ReadsOn, Text
<1>12. read' = [k \in 1 .. taken(format, i' - 1) |-> valist[k]]
  <2>1. i' - 1 = 0
    BY <1>1
  <2>2. taken(format, i' - 1) = 0
    BY <1>2, <2>1, TakenNone
  <2>3. 1 .. 0 = {}
    OBVIOUS
  <2> QED BY <1>1, <1>2, <2>2, <2>3
<1>13. s_i' \in 0 .. Len(buf')
  <2>1. Len(buf') \in Nat
    BY <1>9
  <2> QED BY <1>1, <2>1
<1>14. Reading'
  BY <1>1, <1>9, <1>11, <1>12, <1>13 DEF Reading
<1> QED BY <1>1, <1>2, <1>8, <1>14 DEF IoInv

LEMMA ReadMore ==
  ASSUME NEW v, NEW m \in Nat
  PROVE  Append([k \in 1 .. m |-> v[k]], v[m + 1]) = [k \in 1 .. m + 1 |-> v[k]]
<1>1. PICK S : S = {v[k] : k \in 1 .. m + 1}
  OBVIOUS
<1>2. \A k \in 1 .. m + 1 : v[k] \in S
  BY <1>1
<1>3. PICK x, y, c : x = [k \in 1 .. m |-> v[k]] /\ y = [k \in 1 .. m + 1 |-> v[k]] /\ c = v[m + 1]
  OBVIOUS
<1>4. /\ c \in S
      /\ x \in Seq(S) /\ Len(x) = m
      /\ y \in Seq(S) /\ Len(y) = m + 1
  <2>1. m + 1 \in 1 .. m + 1
    OBVIOUS
  <2>2. \A k \in 1 .. m : v[k] \in S
    BY <1>2
  <2> QED BY <1>2, <1>3, <2>1, <2>2
<1>5. PICK z : z = Append(x, c)
  OBVIOUS
<1>6. z \in Seq(S) /\ Len(z) = m + 1 /\ z[m + 1] = c /\ \A k \in 1 .. m : z[k] = x[k]
  BY <1>4, <1>5
<1>7. ASSUME NEW k \in 1 .. m + 1 PROVE z[k] = y[k]
  <2>1. CASE k = m + 1
    BY <1>3, <1>6, <2>1
  <2>2. CASE k # m + 1
    <3>1. k \in 1 .. m
      BY <2>2
    <3> QED BY <1>3, <1>6, <3>1
  <2> QED BY <2>1, <2>2
<1>8. z = y
  <2>1. Len(z) = Len(y) /\ \A k \in 1 .. Len(z) : z[k] = y[k]
    BY <1>4, <1>6, <1>7
  <2> QED BY <1>4, <1>6, <2>1, SeqEqual, Zenon
<1> QED BY <1>3, <1>5, <1>8

\* What a step of sscanf has in front of it, and behind its l characters.
LEMMA InFront ==
  ASSUME Reading
  PROVE  /\ s \in Seq(Char)
         /\ \A l \in 0 .. Len(s) : /\ s_i + l \in 0 .. Len(buf)
                                   /\ SubSeq(buf, (s_i + l) + 1, Len(buf)) = SubSeq(s, l + 1, Len(s))
<1>1. PICK b, j, z : b = buf /\ j = s_i /\ z = s
  OBVIOUS
<1>2. b \in Seq(Char) /\ j \in 0 .. Len(b) /\ z = SubSeq(b, j + 1, Len(b))
  BY <1>1 DEF Reading, s
<1>3. z \in Seq(Char)
  <2>1. PICK m : m = Len(b)
    OBVIOUS
  <2>2. Within(b, j + 1, m)
    BY <1>2, <2>1 DEF Within
  <2>3. PieceIs(SubSeq(b, j + 1, m), b, j + 1, m)
    BY <2>2, PieceOf, Zenon
  <2> QED BY <1>2, <2>1, <2>3 DEF PieceIs
<1>4. ASSUME NEW l \in 0 .. Len(z)
      PROVE  j + l \in 0 .. Len(b) /\ SubSeq(b, (j + l) + 1, Len(b)) = SubSeq(z, l + 1, Len(z))
  BY <1>2, Onward
<1> QED BY <1>1, <1>3, <1>4

LEMMA ReadingMore ==
  ASSUME Fits(format, valist), Reading, NEW l \in 0 .. Len(s), NEW n, NEW d, NEW m,
         ReadsOn(format, valist, n, m, d, SubSeq(s, l + 1, Len(s))),
         format' = format, valist' = valist, buf' = buf, i' = m, s_i' = s_i + l,
         read' = [k \in 1 .. taken(format, m - 1) |-> valist[k]]
  PROVE  Reading'
<1>1. s_i + l \in 0 .. Len(buf) /\ SubSeq(buf, (s_i + l) + 1, Len(buf)) = SubSeq(s, l + 1, Len(s))
  BY InFront
<1>2. s' = SubSeq(s, l + 1, Len(s))
  BY <1>1 DEF s
<1>3. ReadsOn(format', valist', n, i', d, s')
  BY <1>2
<1>4. buf' \in Seq(Char) /\ s_i' \in 0 .. Len(buf')
  BY <1>1 DEF Reading
<1>5. read' = [k \in 1 .. taken(format', i' - 1) |-> valist'[k]]
  OBVIOUS
<1> QED BY <1>3, <1>4, <1>5 DEF Reading

LEMMA SeparatedStays ==
  ASSUME format' = format, valist' = valist
  PROVE  Separated' <=> Separated
BY DEF Separated, char

LEMMA SscanfConversion ==
  ASSUME IoInv, sscanf_conversion
  PROVE  IoInv'
<1>1. /\ phase = "sscanf" /\ char(i) = Percent /\ i' = i + 2
      /\ format' = format /\ valist' = valist /\ phase' = phase /\ buf' = buf
      /\ read' = Append(read, scanned.value) /\ s_i' = s_i + scanned.length
  BY DEF sscanf_conversion, Percent
<1>2. format \in Seq(Char) /\ scannable(format) /\ Fits(format, valist) /\ AtPiece(format, i)
  BY <1>1 DEF IoInv
<1>3. i # Len(format) + 1 /\ format[i] = Percent /\ i \in 1 .. Len(format)
  <2>1. Percent # NUL
    BY DEF Percent, NUL
  <2> QED BY <1>1, <1>2, <2>1, CharIs
<1>4. PICK a, c, w : /\ a = valist[taken(format, i)] /\ c = format[i + 1] /\ w = Shown(c, a)
  OBVIOUS
<1>5. /\ TextIs(format, valist, i, w, i + 2) /\ OfKind(c, a) /\ i + 1 \in 1 .. Len(format)
      /\ taken(format, i - 1) \in Nat /\ taken(format, i) = taken(format, i - 1) + 1
      /\ taken(format, i + 1) = taken(format, i)
  BY <1>2, <1>3, <1>4, ConversionText
<1>6. AtPiece(format', i')
  BY <1>1, <1>5 DEF TextIs
<1>7. ASSUME Separated' PROVE Reading'
  <2>1. Separated
    BY <1>1, <1>7, SeparatedStays
  <2>2. Reading /\ Sep(format, valist)
    BY <1>1, <1>2, <2>1, SeparatedMeans DEF IoInv
  <2>3. PICK n, e : ReadsOn(format, valist, n, i, e, s)
    BY <2>2 DEF Reading
  <2>4. PICK z : z = s
    OBVIOUS
  <2>5. PICK l \in 0 .. Len(z) : /\ ReadsOn(format, valist, n, i + 2, 0, SubSeq(z, l + 1, Len(z)))
                                 /\ ScansAs(c, a, z, l)
    BY <1>2, <1>3, <1>4, <2>2, <2>3, <2>4, ScanConversion
  <2>6. char(i + 1) = c
    <3>1. i + 1 <= Len(format)
      BY <1>3, <1>5
    <3> QED BY <1>4, <3>1 DEF char
  <2>7. scanned.value = a /\ scanned.length = l
    <3>1. CASE c = Chr /\ l = 1 /\ Head(Append(z, NUL)) = a
      <4>1. scanned = [value |-> Head(Append(s, NUL)), length |-> 1]
        BY <2>6, <3>1 DEF scanned, Chr
      <4> QED BY <2>4, <3>1, <4>1
    <3>2. CASE c = Dec /\ read_int(z).num = a /\ read_int(z).cnt = l
      <4>1. scanned = [value |-> read_int(s).num, length |-> read_int(s).cnt]
        BY <2>6, <3>2 DEF scanned, Dec
      <4> QED BY <2>4, <3>2, <4>1
    <3>3. CASE c = Str /\ word(z) = l /\ SubSeq(z, 1, l) = a
      <4>1. scanned = [value |-> SubSeq(s, 1, word(s)), length |-> word(s)]
        BY <2>6, <3>3 DEF scanned, Str, word
      <4> QED BY <2>4, <3>3, <4>1
    <3> QED BY <2>5, <3>1, <3>2, <3>3 DEF ScansAs
  <2>8. read' = [k \in 1 .. taken(format, (i + 2) - 1) |-> valist[k]]
    <3>1. PICK m \in Nat : m = taken(format, i - 1)
      BY <1>5
    <3>2. taken(format, i) = m + 1 /\ (i + 2) - 1 = i + 1 /\ taken(format, i + 1) = m + 1
      BY <1>3, <1>5, <3>1
    <3>3. read = [k \in 1 .. m |-> valist[k]]
      BY <2>2, <3>1 DEF Reading
    <3>4. read' = Append(read, valist[m + 1])
      BY <1>1, <1>4, <2>7, <3>2
    <3> QED BY <3>2, <3>3, <3>4, ReadMore
  <2>9. s_i' = s_i + l
    BY <1>1, <2>7
  <2> QED BY <1>1, <1>2, <2>2, <2>4, <2>5, <2>8, <2>9, ReadingMore
<1> QED BY <1>1, <1>2, <1>6, <1>7 DEF IoInv

LEMMA SscanfChar ==
  ASSUME IoInv, sscanf_char
  PROVE  IoInv'
<1>1. /\ phase = "sscanf" /\ char(i) # Percent /\ char(i) # NUL /\ i' = i + 1
      /\ format' = format /\ valist' = valist /\ phase' = phase /\ buf' = buf /\ read' = read
  BY DEF sscanf_char, Percent
<1>2. format \in Seq(Char) /\ scannable(format) /\ Fits(format, valist) /\ AtPiece(format, i)
  BY <1>1 DEF IoInv
<1>3. i # Len(format) + 1 /\ format[i] # Percent /\ i \in 1 .. Len(format) /\ char(i) = format[i]
  BY <1>1, <1>2, CharIs
<1>4. PICK w : w = (IF format[i] = Return THEN <<Newline>> ELSE <<format[i]>>)
  OBVIOUS
<1>5. TextIs(format, valist, i, w, i + 1) /\ taken(format, i) = taken(format, i - 1) /\ format[i] \in Char
  BY <1>2, <1>3, <1>4, LiteralText
<1>6. AtPiece(format', i')
  BY <1>1, <1>5 DEF TextIs
<1>7. ASSUME Separated' PROVE Reading'
  <2>1. Separated
    BY <1>1, <1>7, SeparatedStays
  <2>2. Reading /\ Sep(format, valist)
    BY <1>1, <1>2, <2>1, SeparatedMeans DEF IoInv
  <2>3. PICK n, e : ReadsOn(format, valist, n, i, e, s)
    BY <2>2 DEF Reading
  <2>4. PICK z : z = s
    OBVIOUS
  <2>5. read' = [k \in 1 .. taken(format, (i + 1) - 1) |-> valist[k]]
    <3>1. (i + 1) - 1 = i
      BY <1>3
    <3> QED BY <1>1, <1>5, <2>2, <3>1 DEF Reading
  <2>6. isspace(char(i)) <=> format[i] = Blank
    BY <1>3, Zenon DEF isspace, Blank
  <2>7. CASE format[i] = Blank
    <3>1. PICK p : p = least_or({j - 1 : j \in {j \in DOMAIN z : ~ isspace(z[j])}}, Len(z))
      OBVIOUS
    <3>2. Blank # Percent /\ Blank # Return
      BY Zenon DEF Blank, Percent, Return
    <3>3. PICK d : p \in 0 .. Len(z) /\ ReadsOn(format, valist, n, i + 1, d, SubSeq(z, p + 1, Len(z)))
      BY <1>2, <1>3, <2>3, <2>4, <2>7, <3>1, <3>2, ScanBlank
    <3>4. s_i' = s_i + p
      BY <2>4, <2>6, <2>7, <3>1 DEF sscanf_char
    <3> QED BY <1>1, <1>2, <2>2, <2>4, <2>5, <3>3, <3>4, ReadingMore
  <2>8. CASE format[i] # Blank
    <3>1. /\ z # <<>> /\ Head(z) = format[i] /\ 1 \in 0 .. Len(z)
          /\ ReadsOn(format, valist, n, i + 1, 0, SubSeq(z, 1 + 1, Len(z)))
      BY <1>2, <1>3, <2>2, <2>3, <2>4, <2>8, ScanLiteral
    <3>2. s_i' = s_i + 1
      BY <1>3, <2>4, <2>6, <2>8, <3>1 DEF sscanf_char
    <3> QED BY <1>1, <1>2, <2>2, <2>4, <2>5, <3>1, <3>2, ReadingMore
  <2> QED BY <2>7, <2>8
<1> QED BY <1>1, <1>2, <1>6, <1>7 DEF IoInv

LEMMA IoInvNext == IoInv /\ [ioNext]_ioVars => IoInv'
<1> SUFFICES ASSUME IoInv, [ioNext]_ioVars PROVE IoInv'
  OBVIOUS
<1>1. CASE sprintf_conversion
  BY <1>1, SprintfConversion
<1>2. CASE sprintf_char
  BY <1>2, SprintfChar
<1>3. CASE sscanf_begin
  BY <1>3, SscanfBegin
<1>4. CASE sscanf_conversion
  BY <1>4, SscanfConversion
<1>5. CASE sscanf_char
  BY <1>5, SscanfChar
<1>6. CASE UNCHANGED ioVars
  <2>1. /\ format' = format /\ valist' = valist /\ phase' = phase /\ i' = i /\ narg' = narg /\ buf' = buf
        /\ s_i' = s_i /\ read' = read
    BY <1>6 DEF ioVars
  <2>2. Separated' <=> Separated
    BY <2>1, SeparatedStays
  <2>3. s' = s
    BY <2>1 DEF s
  <2>4. Reading' <=> Reading
    BY <2>1, <2>3 DEF Reading
  <2>5. Writing' <=> Writing
    BY <2>1 DEF Writing, Text
  <2> QED BY <2>1, <2>2, <2>4, <2>5 DEF IoInv
<1> QED BY <1>1, <1>2, <1>3, <1>4, <1>5, <1>6 DEF ioNext

LEMMA IoInvMeans == IoInv => ScanReadsPrint
<1> SUFFICES ASSUME IoInv, phase = "sscanf", Separated
             PROVE  /\ read = SubSeq(valist, 1, Len(read))
                    /\ char(i) = NUL => Len(read) = Len(valist) /\ s_i = Len(buf)
  BY DEF ScanReadsPrint
<1>1. format \in Seq(Char) /\ Fits(format, valist) /\ AtPiece(format, i) /\ Reading
  BY DEF IoInv
<1>2. PICK n, v, t, m : /\ n = Len(format) /\ v = valist /\ t = taken(format, n)
                        /\ m = taken(format, i - 1)
  OBVIOUS
<1>3. n \in Nat /\ i \in 1 .. n + 1
  BY <1>1, <1>2 DEF AtPiece
<1>4. v = [k \in 1 .. t |-> v[k]]
  BY <1>1, <1>2 DEF Fits
<1>5. \A k \in 0 .. n : taken(format, k) \in Nat /\ taken(format, k) <= t
  <2> DEFINE Q == {j \in Nat : j <= n => taken(format, n - j) \in Nat /\ taken(format, n - j) <= t}
  <2>1. 0 \in Q
    <3>1. t \in Nat
      <4>1. CASE n = 0
        BY <1>1, <1>2, <4>1, TakenNone
      <4>2. CASE n # 0
        <5>1. n \in 1 .. n
          BY <1>3, <4>2
        <5> QED BY <1>1, <1>2, <5>1, TakenMore
      <4> QED BY <4>1, <4>2
    <3>2. n - 0 = n
      BY <1>3
    <3> QED BY <1>2, <3>1, <3>2
  <2>2. ASSUME NEW j \in Q PROVE j + 1 \in Q
    <3>1. ASSUME j + 1 <= n PROVE taken(format, n - (j + 1)) \in Nat /\ taken(format, n - (j + 1)) <= t
      <4>1. PICK k : k = n - j
        OBVIOUS
      <4>2. k \in 1 .. n /\ n - (j + 1) = k - 1 /\ j <= n
        BY <1>3, <3>1, <4>1
      <4>3. taken(format, k) \in Nat /\ taken(format, k) <= t
        BY <4>1, <4>2
      <4>4. /\ taken(format, k - 1) \in Nat
            /\ taken(format, k) = IF format[k] = Percent THEN taken(format, k - 1) + 1 ELSE taken(format, k - 1)
        BY <1>1, <1>2, <4>2, TakenMore
      <4>5. t \in Nat
        BY <2>1, <1>2, <1>3
      <4> QED BY <4>2, <4>3, <4>4, <4>5
    <3> QED BY <3>1
  <2>3. Q \in SUBSET Nat
    OBVIOUS
  <2> HIDE DEF Q
  <2>4. \A j \in Nat : j \in Q
    BY <2>1, <2>2, <2>3, AllNumbers
  <2>5. ASSUME NEW k \in 0 .. n PROVE taken(format, k) \in Nat /\ taken(format, k) <= t
    <3>1. n - k \in Nat /\ n - k <= n /\ n - (n - k) = k
      BY <1>3
    <3>2. n - k \in Q
      BY <2>4, <3>1
    <3> QED BY <3>1, <3>2 DEF Q
  <2> QED BY <2>5
<1>6. m \in Nat /\ m <= t /\ t \in Nat
  <2>1. i - 1 \in 0 .. n /\ n \in 0 .. n
    BY <1>3
  <2> QED BY <1>2, <1>5, <2>1
<1>7. read = [k \in 1 .. m |-> v[k]]
  BY <1>1, <1>2 DEF Reading
<1>8. PICK S : S = {v[k] : k \in 1 .. t}
  OBVIOUS
<1>9. v \in Seq(S) /\ Len(v) = t
  <2>1. \A k \in 1 .. t : v[k] \in S
    BY <1>8
  <2>2. [k \in 1 .. t |-> v[k]] \in Seq(S) /\ Len([k \in 1 .. t |-> v[k]]) = t
    BY <1>6, <2>1
  <2> QED BY <1>4, <2>2
<1>10. Len(read) = m /\ read = SubSeq(v, 1, m)
  <2>1. \A k \in 1 .. m : v[k] \in S
    BY <1>6, <1>8
  <2>2. [k \in 1 .. m |-> v[k]] \in Seq(S) /\ Len([k \in 1 .. m |-> v[k]]) = m
        /\ \A k \in 1 .. m : [j \in 1 .. m |-> v[j]][k] = v[k]
    BY <1>6, <2>1
  <2>3. PICK x, y : x = [k \in 1 .. m |-> v[k]] /\ y = SubSeq(v, 1, m)
    OBVIOUS
  <2>4. x \in Seq(S) /\ Len(x) = m /\ \A k \in 1 .. m : x[k] = v[k]
    BY <2>2, <2>3
  <2>5. y \in Seq(S) /\ Len(y) = m /\ \A k \in 1 .. m : y[k] = v[k]
    <3>1. 1 \in Nat /\ 1 <= 1 /\ m <= Len(v) /\ 1 <= m + 1 /\ (m - 1) + 1 = m
      BY <1>6, <1>9
    <3>2. /\ SubSeq(v, 1, m) \in Seq(S) /\ Len(SubSeq(v, 1, m)) = (m - 1) + 1
          /\ \A k \in 1 .. (m - 1) + 1 : SubSeq(v, 1, m)[k] = v[1 + k - 1]
      BY <1>6, <1>9, <3>1, Piece
    <3>3. \A k \in 1 .. m : 1 + k - 1 = k
      BY <1>6
    <3> QED BY <2>3, <3>1, <3>2, <3>3
  <2>6. Len(x) = Len(y) /\ \A k \in 1 .. Len(x) : x[k] = y[k]
    BY <2>4, <2>5
  <2>7. x = y
    BY <2>4, <2>5, <2>6, SeqEqual, Zenon
  <2> QED BY <1>7, <2>3, <2>4, <2>7
<1>11. ASSUME char(i) = NUL PROVE m = t /\ s_i = Len(buf)
  <2>1. i = n + 1
    BY <1>1, <1>2, <1>11, CharIs
  <2>2. m = t
    <3>1. i - 1 = n
      BY <1>3, <2>1
    <3> QED BY <1>2, <3>1
  <2>3. PICK c, e : ReadsOn(format, valist, c, i, e, s)
    BY <1>1 DEF Reading
  <2>4. PICK y, z : y = Wide(Texts(format, valist)[i], c) /\ z = s
    OBVIOUS
  <2>5. y = <<>>
    BY <1>1, <1>2, <2>1, <2>3, <2>4, WideNext DEF ReadsOn
  <2>6. Skips(y, e, z)
    BY <2>3, <2>4 DEF ReadsOn
  <2>7. Len(z) = 0
    <3>1. Len(y) = 0
      BY <2>5
    <3>2. e \in Nat /\ Len(z) \in Nat /\ 0 = e + Len(z)
      BY <2>6, <3>1 DEF Skips
    <3> QED BY <3>2
  <2>8. PICK b, j : b = buf /\ j = s_i
    OBVIOUS
  <2>9. b \in Seq(Char) /\ j \in 0 .. Len(b) /\ z = SubSeq(b, j + 1, Len(b))
    BY <1>1, <2>4, <2>8 DEF Reading, s
  <2>10. Len(z) = Len(b) - j
    <3>1. 0 \in 0 .. Len(z)
      BY <2>7
    <3> QED BY <2>9, <3>1, Onward
  <2>11. j = Len(b)
    BY <2>7, <2>9, <2>10
  <2> QED BY <2>2, <2>8, <2>11
<1> QED BY <1>2, <1>9, <1>10, <1>11

\* sscanf gets back each argument that sprintf has written with the same
\* format, and all of the line, for numbers of any width, of which the negative
\* ones are written as large ones, for formats and words of any length, and
\* however many blanks stand for one (sprintf, sscanf and read_int of
\* include/stdio.h, itoa of include/string.h).
THEOREM PrintIsRead == IoSpec => []ScanReadsPrint
<1>1. ioInit => IoInv
  BY IoInvInit
<1>2. IoInv /\ [ioNext]_ioVars => IoInv'
  BY IoInvNext
<1>3. IoInv => ScanReadsPrint
  BY IoInvMeans
<1> QED BY <1>1, <1>2, <1>3, PTL DEF IoSpec

=============================================================================
