-------------------------- MODULE SendQueueProofs ---------------------------
(***************************************************************************)
(* For every number and length of entries, every size of the socket's      *)
(* buffer and every wrap of the identifiers: one connection sends what it  *)
(* accepted, in order and once, counts it exactly, and gives every buffer  *)
(* back once and only when the kernel has finished with it.                *)
(*                                                                         *)
(* The first part is about the sequences a queue spells; the second about  *)
(* what a partial send leaves; the third is the inductive invariant.       *)
(***************************************************************************)
EXTENDS SendQueue, NaturalsInduction, WellFoundedInduction, SequenceTheorems, TLAPS

\* Every set of numbers that is not empty has a least element: an induction
\* over a length looks at the least length that fails.
LEMMA LeastNumber ==
  ASSUME NEW S \in SUBSET Nat, S # {}
  PROVE  \E m \in S : \A k \in S : m <= k
<1> DEFINE R == OpToRel(<, Nat)
<1>1. IsWellFoundedOn(R, Nat) BY NatLessThanWellFounded
<1>2. \A k, m \in Nat : k < m => <<k, m>> \in R BY DEF OpToRel
<1> HIDE DEF R
<1>3. PICK m \in S : \A k \in S : ~(<<k, m>> \in R) BY <1>1, WFMin
<1>4. \A k \in S : ~(k < m) BY <1>2, <1>3
<1> QED BY <1>4

\* f joins the first n sequences of t, one by one.
Joins(f, t, n) == f = [i \in 1 .. n |-> IF i = 1 THEN t[i] ELSE f[i - 1] \o t[i]]

\* The recursive function of FlattenSeq exists.
LEMMA JoinsDefined ==
  ASSUME NEW t, NEW N \in Nat
  PROVE  \E f : Joins(f, t, N)
<1> DEFINE Bad == {n \in 0 .. N : ~ \E f : Joins(f, t, n)}
<1>1. ASSUME Bad # {}
      PROVE  FALSE
  <2>1. PICK m \in Bad : \A k \in Bad : m <= k
    <3>1. Bad \subseteq Nat
      OBVIOUS
    <3> HIDE DEF Bad
    <3> QED BY <1>1, <3>1, LeastNumber
  <2>2. CASE m = 0
    <3> DEFINE f == [i \in 1 .. 0 |-> t[i]]
    <3>1. Joins(f, t, 0) BY DEF Joins
    <3> QED BY <2>2, <3>1
  <2>3. CASE m # 0
    <3>1. m - 1 \in 0 .. N /\ ~(m <= m - 1) /\ m \in Nat /\ m >= 1
      BY <2>3
    <3>2. \E g : Joins(g, t, m - 1) BY <2>1, <3>1
    <3>3. PICK g : Joins(g, t, m - 1) BY <3>2
    <3> DEFINE f == [i \in 1 .. m |-> IF i < m THEN g[i] ELSE IF i = 1 THEN t[i] ELSE g[i - 1] \o t[i]]
               h == [i \in 1 .. m |-> IF i = 1 THEN t[i] ELSE f[i - 1] \o t[i]]
    <3>4. ASSUME NEW i \in 1 .. m
          PROVE  f[i] = h[i]
      <4>1. i # 1 => i - 1 \in 1 .. m /\ i - 1 < m /\ f[i - 1] = g[i - 1]
        BY <3>1
      <4>2. CASE i < m
        <5>1. i \in 1 .. m - 1 BY <3>1, <4>2
        <5>2. g[i] = IF i = 1 THEN t[i] ELSE g[i - 1] \o t[i] BY <3>3, <5>1 DEF Joins
        <5> QED BY <4>1, <4>2, <5>2
      <4>3. CASE ~(i < m) BY <4>1, <4>3
      <4> QED BY <4>2, <4>3
    <3>5. f = h BY <3>4, ZenonT(60)
    <3>6. Joins(f, t, m) BY <3>5 DEF Joins
    <3> HIDE DEF f, h
    <3> QED BY <3>6
  <2> QED BY <2>2, <2>3
<1>2. N \notin Bad
  <2> HIDE DEF Bad
  <2> QED BY <1>1
<1> QED BY <1>2

\* What FlattenSeq is, step by step.
LEMMA FlattenSteps ==
  ASSUME NEW t, Len(t) \in Nat \ {0}
  PROVE  \E f : Joins(f, t, Len(t)) /\ FlattenSeq(t) = f[Len(t)]
<1> DEFINE f == CHOOSE g : Joins(g, t, Len(t))
<1>1. Joins(f, t, Len(t)) BY JoinsDefined
<1>2. FlattenSeq(t) = f[Len(t)] BY DEF FlattenSeq, Joins
<1> QED BY <1>1, <1>2

LEMMA JoinsType ==
  ASSUME NEW S, NEW t \in Seq(Seq(S)), NEW f, Joins(f, t, Len(t)), NEW j \in 1 .. Len(t)
  PROVE  f[j] \in Seq(S)
<1> DEFINE Bad == {i \in 1 .. Len(t) : f[i] \notin Seq(S)}
<1>0. Len(t) \in Nat /\ \A i \in 1 .. Len(t) : t[i] \in Seq(S)
  OBVIOUS
<1>s. \A i \in 1 .. Len(t) : f[i] = IF i = 1 THEN t[i] ELSE f[i - 1] \o t[i]
  BY DEF Joins
<1>1. ASSUME Bad # {}
      PROVE  FALSE
  <2>1. PICK m \in Bad : \A k \in Bad : m <= k
    <3>1. Bad \subseteq Nat BY <1>0
    <3> HIDE DEF Bad
    <3> QED BY <1>1, <3>1, LeastNumber
  <2>2. m # 1 BY <1>0, <1>s
  <2>3. m - 1 \in 1 .. Len(t) /\ ~(m <= m - 1) BY <2>2, <1>0
  <2>4. f[m - 1] \in Seq(S) BY <2>1, <2>3
  <2>5. f[m] = f[m - 1] \o t[m] BY <2>2, <1>s
  <2>6. f[m] \in Seq(S)
    BY ONLY <2>4, <2>5, <1>0, m \in 1 .. Len(t), ConcatProperties
  <2> QED BY <2>6
<1> QED
  <2> HIDE DEF Bad
  <2>1. j \notin Bad BY <1>1
  <2> QED BY <2>1 DEF Bad

LEMMA FlattenType ==
  ASSUME NEW S, NEW t \in Seq(Seq(S))
  PROVE  FlattenSeq(t) \in Seq(S) /\ FlattenSeq(<<>>) = <<>>
<1>1. FlattenSeq(<<>>) = <<>> BY DEF FlattenSeq
<1>2. CASE t = <<>> BY <1>1, <1>2, EmptySeq
<1>3. CASE t # <<>>
  <2>1. Len(t) \in Nat \ {0} /\ Len(t) \in 1 .. Len(t) BY <1>3
  <2>2. PICK f : Joins(f, t, Len(t)) /\ FlattenSeq(t) = f[Len(t)]
    BY <2>1, FlattenSteps
  <2>3. \A i \in 1 .. Len(t) : f[i] \in Seq(S) BY <2>2, JoinsType
  <2>4. f[Len(t)] \in Seq(S) BY <2>1, <2>3
  <2> QED BY <1>1, <2>2, <2>4
<1> QED BY <1>2, <1>3

LEMMA FlattenAppend ==
  ASSUME NEW S, NEW t \in Seq(Seq(S)), NEW x \in Seq(S)
  PROVE  FlattenSeq(Append(t, x)) = FlattenSeq(t) \o x
<1> DEFINE u == Append(t, x)
           n == Len(t)
<1>0. /\ n \in Nat /\ u \in Seq(Seq(S)) /\ Len(u) = n + 1 /\ u[n + 1] = x
      /\ \A i \in 1 .. n : u[i] = t[i]
  BY AppendProperties
<1> HIDE DEF u, n
<1>1. PICK f : Joins(f, u, n + 1) /\ FlattenSeq(u) = f[n + 1]
  <2>1. Len(u) \in Nat \ {0} BY <1>0
  <2> QED BY <2>1, <1>0, FlattenSteps
<1>f. \A i \in 1 .. n + 1 : f[i] = IF i = 1 THEN u[i] ELSE f[i - 1] \o u[i]
  BY <1>1 DEF Joins
<1>2. CASE n = 0
  <2>1. t = <<>> BY <1>2 DEF n
  <2>2. FlattenSeq(t) = <<>> BY <2>1, FlattenType
  <2>3. f[1] = x BY <1>f, <1>0, <1>2
  <2> QED BY <2>2, <2>3, <1>1, <1>2, ConcatEmptySeq DEF u
<1>3. CASE n # 0
  <2>1. PICK g : Joins(g, t, n) /\ FlattenSeq(t) = g[n]
    <3>1. Len(t) \in Nat \ {0} BY <1>0, <1>3 DEF n
    <3> QED BY <3>1, FlattenSteps DEF n
  <2>g. \A i \in 1 .. n : g[i] = IF i = 1 THEN t[i] ELSE g[i - 1] \o t[i]
    BY <2>1 DEF Joins
  <2> DEFINE Bad == {i \in 1 .. n : f[i] # g[i]}
  <2>2. ASSUME Bad # {}
        PROVE  FALSE
    <3>1. PICK m \in Bad : \A k \in Bad : m <= k
      <4>1. Bad \subseteq Nat BY <1>0
      <4> HIDE DEF Bad
      <4> QED BY <2>2, <4>1, LeastNumber
    <3>2. m \in 1 .. n /\ m \in 1 .. n + 1 BY <1>0
    <3>3. CASE m = 1 BY <3>2, <3>3, <1>f, <2>g, <1>0
    <3>4. CASE m # 1
      <4>1. m - 1 \in 1 .. n /\ ~(m <= m - 1) BY <3>2, <3>4, <1>0
      <4>2. f[m - 1] = g[m - 1] BY <3>1, <4>1
      <4> QED BY <3>2, <3>4, <4>2, <1>f, <2>g, <1>0
    <3> QED BY <3>3, <3>4
  <2>3. n \in 1 .. n /\ n + 1 \in 1 .. n + 1 /\ n + 1 # 1 /\ (n + 1) - 1 = n
    BY <1>0, <1>3
  <2>4. f[n] = g[n]
    <3> HIDE DEF Bad
    <3>1. n \notin Bad BY <2>2
    <3> QED BY <3>1, <2>3 DEF Bad
  <2>5. f[n + 1] = f[n] \o x BY <2>3, <1>f, <1>0
  <2> QED BY <1>1, <2>1, <2>4, <2>5 DEF u
<1> QED BY <1>2, <1>3

\* FlattenSeq of two sequences of sequences, one after the other.
LEMMA FlattenConcat ==
  ASSUME NEW S, NEW a \in Seq(Seq(S)), NEW b \in Seq(Seq(S))
  PROVE  FlattenSeq(a \o b) = FlattenSeq(a) \o FlattenSeq(b)
<1> DEFINE Up(n) == SubSeq(b, 1, n)
           Bad == {n \in 0 .. Len(b) : FlattenSeq(a \o Up(n)) # FlattenSeq(a) \o FlattenSeq(Up(n))}
<1>0. Len(b) \in Nat
  OBVIOUS
<1>a. /\ \A s, t, u \in Seq(Seq(S)) : (s \o t) \o u = s \o (t \o u)
      /\ \A s, t, u \in Seq(S) : (s \o t) \o u = s \o (t \o u)
  <2>1. \A s, t, u \in Seq(Seq(S)) : (s \o t) \o u = s \o (t \o u)
    <3> TAKE s, t, u \in Seq(Seq(S))
    <3> QED BY ONLY ConcatAssociative, s \in Seq(Seq(S)), t \in Seq(Seq(S)), u \in Seq(Seq(S)), SMTT(60)
  <2>2. \A s, t, u \in Seq(S) : (s \o t) \o u = s \o (t \o u)
    <3> TAKE s, t, u \in Seq(S)
    <3> QED BY ONLY ConcatAssociative, s \in Seq(S), t \in Seq(S), u \in Seq(S)
  <2> QED BY <2>1, <2>2
<1>1. ASSUME Bad # {}
      PROVE  FALSE
  <2>1. PICK m \in Bad : \A k \in Bad : m <= k
    <3>1. Bad \subseteq Nat BY <1>0
    <3> HIDE DEF Bad
    <3> QED BY <1>1, <3>1, LeastNumber
  <2>2. CASE m = 0
    <3>1. Up(0) = <<>> BY SubSeqEmpty
    <3>2. FlattenSeq(a) \in Seq(S) /\ FlattenSeq(<<>>) = <<>>
      BY FlattenType
    <3>3. a \o <<>> = a /\ FlattenSeq(a) \o <<>> = FlattenSeq(a)
      BY <3>2, ConcatEmptySeq
    <3> QED BY <2>1, <2>2, <3>1, <3>2, <3>3
  <2>3. CASE m # 0
    <3>1. m \in 1 .. Len(b) /\ m - 1 \in 0 .. Len(b) /\ ~(m <= m - 1)
      BY <2>3, <1>0
    <3>2. Up(m - 1) \in Seq(Seq(S)) /\ b[m] \in Seq(S)
      <4>1. \A i \in 1 .. m - 1 : b[i] \in Seq(S) BY <3>1, <1>0
      <4> QED BY <4>1, <3>1, SubSeqProperties
    <3>3. Up(m) = Append(Up(m - 1), b[m])
      <4>1. Up(m) = Up(m - 1) \o <<b[m]>> BY <3>1, <1>0, SubSeqRecursiveSecond
      <4> QED BY <4>1, <3>2, AppendIsConcat
    <3> HIDE DEF Up
    <3>4. a \o Up(m) = Append(a \o Up(m - 1), b[m])
      <4>1. a \o Append(Up(m - 1), b[m]) = (a \o Up(m - 1)) \o <<b[m]>>
        <5>1. <<b[m]>> \in Seq(Seq(S)) /\ Append(Up(m - 1), b[m]) = Up(m - 1) \o <<b[m]>>
          BY <3>2, AppendIsConcat
        <5>2. (a \o Up(m - 1)) \o <<b[m]>> = a \o (Up(m - 1) \o <<b[m]>>)
          BY ONLY <5>1, <3>2, a \in Seq(Seq(S)), <1>a
        <5> QED BY <5>1, <5>2
      <4>2. a \o Up(m - 1) \in Seq(Seq(S)) BY <3>2, ConcatProperties
      <4> QED BY <3>2, <3>3, <4>1, <4>2, AppendIsConcat
    <3>5. FlattenSeq(a \o Up(m - 1)) = FlattenSeq(a) \o FlattenSeq(Up(m - 1))
      BY <2>1, <3>1
    <3>6. FlattenSeq(Up(m)) = FlattenSeq(Up(m - 1)) \o b[m] BY <3>2, <3>3, FlattenAppend
    <3>7. FlattenSeq(a \o Up(m)) = FlattenSeq(a \o Up(m - 1)) \o b[m]
      <4>1. a \o Up(m - 1) \in Seq(Seq(S)) BY <3>2, ConcatProperties
      <4> QED BY <4>1, <3>2, <3>4, FlattenAppend
    <3>8. FlattenSeq(a) \in Seq(S) /\ FlattenSeq(Up(m - 1)) \in Seq(S)
      BY <3>2, FlattenType
    <3>9. FlattenSeq(a \o Up(m)) = FlattenSeq(a) \o FlattenSeq(Up(m))
      <4>1. (FlattenSeq(a) \o FlattenSeq(Up(m - 1))) \o b[m]
              = FlattenSeq(a) \o (FlattenSeq(Up(m - 1)) \o b[m])
        BY ONLY <3>2, <3>8, <1>a
      <4> QED BY <4>1, <3>5, <3>6, <3>7
    <3> QED BY <3>9
  <2> QED BY <2>2, <2>3
<1>2. Len(b) \notin Bad
  <2> HIDE DEF Bad
  <2> QED BY <1>1
<1>3. Up(Len(b)) = b BY SubSeqFull
<1> QED
  <2>1. FlattenSeq(a \o Up(Len(b))) = FlattenSeq(a) \o FlattenSeq(Up(Len(b)))
    BY <1>0, <1>2
  <2> HIDE DEF Up
  <2> QED BY <2>1, <1>3

-----------------------------------------------------------------------------
(* What a queue spells *)

QueueEntry == [entry : Entry, kind : {"mem", "file"}, len : Lengths]
Both == {"mem", "file"}

LEMMA Numbers ==
  /\ {MAX_IOVECS, BATCH_BYTES, QueueLimit, SocketSpace, IdSpace, MaxEntries, MaxLength} \subseteq Nat \ {0}
  /\ IdSpace > SocketSpace
  BY SendQueueAssumption

LEMMA EntryFields ==
  \A x \in QueueEntry : /\ x.entry \in Entry /\ x.kind \in {"mem", "file"} /\ x.len \in Lengths
                         /\ x.len \in Nat \ {0}
  BY Numbers DEF QueueEntry, Lengths

LEMMA UnitsType ==
  ASSUME NEW x \in QueueEntry, NEW K
  PROVE  /\ UnitsOf(x, K) \in Seq({x.entry})
         /\ Len(UnitsOf(x, K)) = IF x.kind \in K THEN x.len ELSE 0
<1>1. x.len \in Nat BY EntryFields
<1>2. Units(x.entry, x.len) \in Seq({x.entry}) /\ Len(Units(x.entry, x.len)) = x.len
  BY <1>1 DEF Units
<1> QED BY <1>2 DEF UnitsOf

LEMMA SpellType ==
  ASSUME NEW q \in Seq(QueueEntry), NEW K
  PROVE  Spell(q, K) \in Seq(EntriesOf(q)) /\ Spell(q, K) \in Seq(Entry)
<1> DEFINE t == [i \in 1 .. Len(q) |-> UnitsOf(q[i], K)]
<1>0. Len(q) \in Nat
  OBVIOUS
<1>1. \A i \in 1 .. Len(q) : UnitsOf(q[i], K) \in Seq(EntriesOf(q))
  <2> TAKE i \in 1 .. Len(q)
  <2>1. q[i] \in QueueEntry /\ {q[i].entry} \subseteq EntriesOf(q)
    BY DEF EntriesOf
  <2>2. UnitsOf(q[i], K) \in Seq({q[i].entry}) BY <2>1, UnitsType
  <2> QED BY <2>1, <2>2, SeqMonotonic
<1>2. t \in Seq(Seq(EntriesOf(q))) BY <1>0, <1>1
<1>3. Spell(q, K) \in Seq(EntriesOf(q))
  <2> HIDE DEF t
  <2>1. FlattenSeq(t) \in Seq(EntriesOf(q)) BY <1>2, FlattenType
  <2> QED BY <2>1 DEF t, Spell
<1>4. EntriesOf(q) \subseteq Entry
  <2>1. \A i \in 1 .. Len(q) : q[i] \in QueueEntry
    OBVIOUS
  <2> QED BY <2>1, EntryFields DEF EntriesOf
<1> QED BY <1>3, <1>4, SeqMonotonic

LEMMA SpellConcat ==
  ASSUME NEW q \in Seq(QueueEntry), NEW r \in Seq(QueueEntry), NEW K
  PROVE  Spell(q \o r, K) = Spell(q, K) \o Spell(r, K)
<1> DEFINE t(p) == [i \in 1 .. Len(p) |-> UnitsOf(p[i], K)]
<1>0. Len(q) \in Nat /\ Len(r) \in Nat
  OBVIOUS
<1>1. ASSUME NEW p \in Seq(QueueEntry)
      PROVE  t(p) \in Seq(Seq(Entry)) /\ Len(t(p)) = Len(p)
  <2>1. \A i \in 1 .. Len(p) : UnitsOf(p[i], K) \in Seq(Entry)
    <3> TAKE i \in 1 .. Len(p)
    <3>1. p[i] \in QueueEntry /\ {p[i].entry} \subseteq Entry
      BY EntryFields
    <3>2. UnitsOf(p[i], K) \in Seq({p[i].entry}) BY <3>1, UnitsType
    <3> QED BY <3>1, <3>2, SeqMonotonic
  <2>2. Len(p) \in Nat
    OBVIOUS
  <2> QED BY <2>1, <2>2
<1>2. t(q \o r) = t(q) \o t(r)
  <2>1. q \o r \in Seq(QueueEntry) /\ Len(q \o r) = Len(q) + Len(r)
    OBVIOUS
  <2>2. \A i \in 1 .. Len(q) + Len(r) : t(q \o r)[i] = (t(q) \o t(r))[i]
    <3> TAKE i \in 1 .. Len(q) + Len(r)
    <3>1. t(q \o r)[i] = UnitsOf((q \o r)[i], K) BY <2>1
    <3>2. (q \o r)[i] = IF i <= Len(q) THEN q[i] ELSE r[i - Len(q)]
      BY <1>0
    <3>3. (t(q) \o t(r))[i] = IF i <= Len(q) THEN t(q)[i] ELSE t(r)[i - Len(q)]
      <4> HIDE DEF t
      <4> QED BY <1>0, <1>1
    <3>4. i <= Len(q) => i \in 1 .. Len(q) BY <1>0
    <3>5. ~(i <= Len(q)) => i - Len(q) \in 1 .. Len(r) BY <1>0
    <3> QED BY <3>1, <3>2, <3>3, <3>4, <3>5
  <2>3. t(q \o r) \in Seq(Seq(Entry)) /\ Len(t(q \o r)) = Len(q) + Len(r)
    <3> HIDE DEF t
    <3> QED BY <1>1, <2>1
  <2>4. t(q) \o t(r) \in Seq(Seq(Entry)) /\ Len(t(q) \o t(r)) = Len(q) + Len(r)
    <3> HIDE DEF t
    <3>1. t(q) \in Seq(Seq(Entry)) /\ t(r) \in Seq(Seq(Entry)) /\ Len(t(q)) = Len(q) /\ Len(t(r)) = Len(r)
      BY <1>1
    <3>2. \A a, b \in Seq(Seq(Entry)) : a \o b \in Seq(Seq(Entry)) /\ Len(a \o b) = Len(a) + Len(b)
      OBVIOUS
    <3> QED BY <3>1, <3>2
  <2> HIDE DEF t
  <2> QED BY <2>2, <2>3, <2>4, SeqEqual
<1>3. FlattenSeq(t(q) \o t(r)) = FlattenSeq(t(q)) \o FlattenSeq(t(r))
  <2> HIDE DEF t
  <2> QED BY <1>1, FlattenConcat
<1>4. Spell(q \o r, K) = FlattenSeq(t(q \o r)) /\ Spell(q, K) = FlattenSeq(t(q)) /\ Spell(r, K) = FlattenSeq(t(r))
  BY DEF Spell
<1> HIDE DEF t
<1> QED BY <1>2, <1>3, <1>4

LEMMA SpellOne ==
  ASSUME NEW x \in QueueEntry, NEW K
  PROVE  Spell(<<x>>, K) = UnitsOf(x, K) /\ Spell(<<>>, K) = <<>>
<1> DEFINE u == UnitsOf(x, K)
           t == [i \in 1 .. Len(<<x>>) |-> UnitsOf(<<x>>[i], K)]
<1>1. t = <<u>>
  OBVIOUS
<1>2. u \in Seq({x.entry}) BY UnitsType
<1> HIDE DEF u
<1>3. <<u>> = Append(<<>>, u) /\ <<>> \in Seq(Seq({x.entry}))
  OBVIOUS
<1>4. FlattenSeq(<<u>>) = FlattenSeq(<<>>) \o u BY <1>2, <1>3, FlattenAppend
<1>5. FlattenSeq(<<>>) = <<>> BY <1>3, FlattenType
<1>6. FlattenSeq(<<u>>) = u BY <1>2, <1>4, <1>5, ConcatEmptySeq
<1>7. Spell(<<x>>, K) = u BY <1>1, <1>6 DEF Spell
<1>8. Spell(<<>>, K) = <<>>
  <2>1. [i \in 1 .. Len(<<>>) |-> UnitsOf(<<>>[i], K)] = <<>>
    OBVIOUS
  <2> QED BY <2>1, <1>5 DEF Spell
<1> QED BY <1>7, <1>8 DEF u

LEMMA LengthNat ==
  ASSUME NEW q \in Seq(QueueEntry), NEW K
  PROVE  Len(Spell(q, K)) \in Nat
<1>1. Spell(q, K) \in Seq(Entry) BY SpellType
<1> QED BY <1>1

LEMMA LengthAdds ==
  ASSUME NEW q \in Seq(QueueEntry), NEW r \in Seq(QueueEntry), NEW K
  PROVE  Len(Spell(q \o r, K)) = Len(Spell(q, K)) + Len(Spell(r, K))
<1>1. Spell(q, K) \in Seq(Entry) /\ Spell(r, K) \in Seq(Entry)
  BY SpellType
<1>2. Spell(q \o r, K) = Spell(q, K) \o Spell(r, K) BY SpellConcat
<1> QED BY <1>1, <1>2

\* A prefix, a suffix and what is between them.
LEMMA Parts ==
  ASSUME NEW q \in Seq(QueueEntry), NEW k \in 0 .. Len(q)
  PROVE  /\ SubSeq(q, 1, k) \in Seq(QueueEntry) /\ Len(SubSeq(q, 1, k)) = k
         /\ SubSeq(q, k + 1, Len(q)) \in Seq(QueueEntry)
         /\ Len(SubSeq(q, k + 1, Len(q))) = Len(q) - k
         /\ q = SubSeq(q, 1, k) \o SubSeq(q, k + 1, Len(q))
         /\ \A i \in 1 .. k : SubSeq(q, 1, k)[i] = q[i]
         /\ \A i \in 1 .. Len(q) - k : SubSeq(q, k + 1, Len(q))[i] = q[k + i]
<1>0. Len(q) \in Nat /\ \A i \in 1 .. Len(q) : q[i] \in QueueEntry
  OBVIOUS
<1>1. SubSeq(q, 1, k) \in Seq(QueueEntry) /\ Len(SubSeq(q, 1, k)) = k
      /\ \A i \in 1 .. k : SubSeq(q, 1, k)[i] = q[i]
  <2>1. \A i \in 1 .. k : q[i] \in QueueEntry BY <1>0
  <2> QED BY <2>1, SubSeqProperties
<1>2. /\ SubSeq(q, k + 1, Len(q)) \in Seq(QueueEntry)
      /\ Len(SubSeq(q, k + 1, Len(q))) = Len(q) - k
      /\ \A i \in 1 .. Len(q) - k : SubSeq(q, k + 1, Len(q))[i] = q[k + i]
  <2>1. \A i \in k + 1 .. Len(q) : q[i] \in QueueEntry BY <1>0
  <2>2. \A i \in 1 .. Len(q) - k : (k + 1) + i - 1 = k + i /\ Len(q) - (k + 1) + 1 = Len(q) - k
    BY <1>0
  <2> QED BY <2>1, <2>2, <1>0, SubSeqProperties
<1>3. SubSeq(q, 1, k) \o SubSeq(q, k + 1, Len(q)) = SubSeq(q, 1, Len(q))
  <2>1. 1 \in 1 .. Len(q) + 1 /\ k \in 1 - 1 .. Len(q) /\ Len(q) \in k .. Len(q)
    BY <1>0
  <2> QED BY <2>1, ConcatAdjacentSubSeq
<1>4. SubSeq(q, 1, Len(q)) = q BY SubSeqFull
<1> QED BY <1>1, <1>2, <1>3, <1>4

LEMMA PrefixStep ==
  ASSUME NEW q \in Seq(QueueEntry), NEW k \in 0 .. Len(q), k < Len(q), NEW K
  PROVE  /\ q[k + 1] \in QueueEntry
         /\ Len(Spell(SubSeq(q, 1, k + 1), K))
              = Len(Spell(SubSeq(q, 1, k), K)) + (IF q[k + 1].kind \in K THEN q[k + 1].len ELSE 0)
<1>0. Len(q) \in Nat /\ k + 1 \in 1 .. Len(q) /\ q[k + 1] \in QueueEntry /\ k = (k + 1) - 1
  OBVIOUS
<1>1. SubSeq(q, 1, k + 1) = SubSeq(q, 1, k) \o <<q[k + 1]>>
  <2>1. 1 \in 1 .. Len(q) /\ k + 1 \in 1 .. Len(q) BY <1>0
  <2>2. SubSeq(q, 1, k + 1) = SubSeq(q, 1, (k + 1) - 1) \o <<q[k + 1]>>
    BY <2>1, SubSeqRecursiveSecond
  <2> QED BY <2>2, <1>0
<1>2. SubSeq(q, 1, k) \in Seq(QueueEntry) /\ <<q[k + 1]>> \in Seq(QueueEntry)
  BY <1>0, Parts
<1>3. Spell(<<q[k + 1]>>, K) = UnitsOf(q[k + 1], K) BY <1>0, SpellOne
<1>4. Len(Spell(SubSeq(q, 1, k + 1), K)) = Len(Spell(SubSeq(q, 1, k), K)) + Len(Spell(<<q[k + 1]>>, K))
  <2> DEFINE a == SubSeq(q, 1, k)
             b == SubSeq(q, 1, k + 1)
             c == <<q[k + 1]>>
  <2>1. b = a \o c /\ a \in Seq(QueueEntry) /\ c \in Seq(QueueEntry)
    BY <1>1, <1>2
  <2> HIDE DEF a, b, c
  <2>2. Len(Spell(b, K)) = Len(Spell(a, K)) + Len(Spell(c, K))
    BY <2>1, LengthAdds
  <2> QED BY <2>2 DEF a, b, c
<1>5. Len(UnitsOf(q[k + 1], K)) = IF q[k + 1].kind \in K THEN q[k + 1].len ELSE 0
  BY <1>0, UnitsType
<1> QED BY <1>0, <1>3, <1>4, <1>5

\* A longer prefix spells more.
LEMMA PrefixGrows ==
  ASSUME NEW q \in Seq(QueueEntry), NEW j \in 0 .. Len(q), NEW k \in 0 .. Len(q), j < k
  PROVE  Length(SubSeq(q, 1, j)) < Length(SubSeq(q, 1, k))
<1>0. Len(q) \in Nat
  OBVIOUS
<1> DEFINE L(i) == Length(SubSeq(q, 1, i))
           Bad == {i \in 0 .. Len(q) : j < i /\ ~(L(j) < L(i))}
<1>1. \A i \in 0 .. Len(q) : L(i) \in Nat
  <2> TAKE i \in 0 .. Len(q)
  <2>1. SubSeq(q, 1, i) \in Seq(QueueEntry) BY Parts
  <2> QED BY <2>1, LengthNat DEF Length, Remaining
<1>2. \A i \in 0 .. Len(q) : i < Len(q) => L(i) < L(i + 1)
  <2> TAKE i \in 0 .. Len(q)
  <2> SUFFICES ASSUME i < Len(q) PROVE L(i) < L(i + 1)
    OBVIOUS
  <2>1. /\ q[i + 1] \in QueueEntry
        /\ L(i + 1) = L(i) + (IF q[i + 1].kind \in {"mem", "file"} THEN q[i + 1].len ELSE 0)
    BY PrefixStep DEF Length, Remaining
  <2>2. q[i + 1].kind \in {"mem", "file"} /\ q[i + 1].len \in Nat \ {0}
    BY <2>1, EntryFields
  <2> HIDE DEF L
  <2> QED BY <2>1, <2>2, <1>1
<1> HIDE DEF L
<1>3. ASSUME Bad # {}
      PROVE  FALSE
  <2>1. PICK m \in Bad : \A i \in Bad : m <= i
    <3>1. Bad \subseteq Nat BY <1>0
    <3> HIDE DEF Bad
    <3> QED BY <1>3, <3>1, LeastNumber
  <2>2. m - 1 \in 0 .. Len(q) /\ m - 1 < Len(q) /\ (m - 1) + 1 = m /\ j <= m - 1 /\ ~(m <= m - 1)
    BY <1>0
  <2>3. j = m - 1 \/ L(j) < L(m - 1) BY <2>1, <2>2
  <2>4. L(m - 1) < L(m) BY <1>2, <2>2
  <2> QED BY <2>2, <2>3, <2>4, <1>1
<1>4. k \notin Bad
  <2> HIDE DEF Bad
  <2> QED BY <1>3
<1>5. L(j) < L(k) BY <1>4
<1> QED BY <1>5 DEF L

\* The number of entries that n units complete is well defined.
LEMMA CoveredIs ==
  ASSUME queue \in Seq(QueueEntry), NEW n \in Nat, n <= Length(queue)
  PROVE  /\ Covered(n) \in 0 .. Len(queue)
         /\ Length(SubSeq(queue, 1, Covered(n))) <= n
         /\ Covered(n) < Len(queue) => Length(SubSeq(queue, 1, Covered(n) + 1)) > n
<1>0. Len(queue) \in Nat
  OBVIOUS
<1> DEFINE Good == {i \in 0 .. Len(queue) : i < Len(queue) => Length(SubSeq(queue, 1, i + 1)) > n}
<1>1. PICK m \in Good : \A i \in Good : m <= i
  <2>1. Good \subseteq Nat /\ Len(queue) \in Good BY <1>0
  <2> HIDE DEF Good
  <2> QED BY <2>1, LeastNumber
<1>2. Length(SubSeq(queue, 1, m)) <= n
  <2>1. CASE m = 0
    <3>1. SubSeq(queue, 1, 0) = <<>> BY SubSeqEmpty
    <3>2. [entry |-> 1, kind |-> "mem", len |-> 1] \in QueueEntry
      <4>1. 1 \in Entry /\ 1 \in Lengths BY Numbers DEF Entry, Lengths
      <4> QED BY <4>1 DEF QueueEntry
    <3>3. Spell(<<>>, {"mem", "file"}) = <<>> BY <3>2, SpellOne
    <3>4. Len(Spell(SubSeq(queue, 1, 0), {"mem", "file"})) = 0
      <4> DEFINE a == SubSeq(queue, 1, 0)
      <4>1. a = <<>> BY <3>1
      <4> HIDE DEF a
      <4>2. Spell(a, {"mem", "file"}) = <<>> BY <4>1, <3>3
      <4>3. Len(Spell(a, {"mem", "file"})) = 0 BY <4>2
      <4> QED BY <4>3 DEF a
    <3> QED BY <2>1, <3>4 DEF Length, Remaining
  <2>2. CASE m # 0
    <3>1. m - 1 \in 0 .. Len(queue) /\ m - 1 < Len(queue) /\ (m - 1) + 1 = m /\ ~(m <= m - 1)
      BY <2>2, <1>0
    <3>2. ~(Length(SubSeq(queue, 1, m)) > n) BY <1>1, <3>1
    <3>3. Length(SubSeq(queue, 1, m)) \in Nat
      <4>1. SubSeq(queue, 1, m) \in Seq(QueueEntry) BY Parts
      <4> QED BY <4>1, LengthNat DEF Length, Remaining
    <3> QED BY <3>2, <3>3
  <2> QED BY <2>1, <2>2
<1>3. \E k \in 0 .. Len(queue) : /\ Length(SubSeq(queue, 1, k)) <= n
                                 /\ k < Len(queue) => Length(SubSeq(queue, 1, k + 1)) > n
  BY <1>1, <1>2
<1> HIDE DEF Good
<1> QED BY <1>3 DEF Covered

-----------------------------------------------------------------------------
(* What a partial send leaves *)

\* Sending n units completes the entries Done(n) and sends PartOf(n) units of
\* the next one, which are HeadSent(n, K) if its kind is among K.
Done(n) == SubSeq(queue, 1, Covered(n))
PartOf(n) == n - Length(Done(n))
HeadSent(n, K) ==
  IF PartOf(n) > 0 /\ queue[Covered(n) + 1].kind \in K
    THEN Units(queue[Covered(n) + 1].entry, PartOf(n))
    ELSE <<>>
Sendable(n) == queue \in Seq(QueueEntry) /\ n \in Nat /\ n <= Length(queue)

LEMMA PartOfIs ==
  ASSUME NEW n, Sendable(n)
  PROVE  /\ Covered(n) \in 0 .. Len(queue) /\ Len(queue) \in Nat
         /\ Done(n) \in Seq(QueueEntry) /\ Len(Done(n)) = Covered(n)
         /\ \A i \in 1 .. Covered(n) : Done(n)[i] = queue[i]
         /\ Length(Done(n)) \in Nat /\ PartOf(n) \in Nat /\ n = Length(Done(n)) + PartOf(n)
         /\ PartOf(n) > 0 => /\ Covered(n) < Len(queue)
                             /\ queue[Covered(n) + 1] \in QueueEntry
                             /\ PartOf(n) < queue[Covered(n) + 1].len
<1> DEFINE k == Covered(n)
<1>1. /\ k \in 0 .. Len(queue)
      /\ Length(SubSeq(queue, 1, k)) <= n
      /\ k < Len(queue) => Length(SubSeq(queue, 1, k + 1)) > n
  BY CoveredIs DEF Sendable
<1> HIDE DEF k
<1>2. queue \in Seq(QueueEntry) /\ n \in Nat /\ n <= Length(queue) /\ Len(queue) \in Nat
  BY DEF Sendable
<1> DEFINE d == SubSeq(queue, 1, k)
<1>3. d \in Seq(QueueEntry) /\ Len(d) = k /\ \A i \in 1 .. k : d[i] = queue[i]
  BY <1>1, <1>2, Parts
<1>4. Length(d) \in Nat /\ Length(d) <= n BY <1>1, <1>3, LengthNat DEF Length, Remaining
<1>5. ASSUME n - Length(d) > 0
      PROVE  /\ k < Len(queue) /\ queue[k + 1] \in QueueEntry
             /\ n - Length(d) < queue[k + 1].len
  <2>1. k < Len(queue)
    <3>1. CASE k = Len(queue)
      <4>1. d = queue BY <3>1, <1>2, SubSeqFull
      <4> HIDE DEF d
      <4>2. Length(d) = Length(queue) BY <4>1
      <4> QED BY <4>2, <1>2, <1>4, <1>5
    <3> QED BY <3>1, <1>1, <1>2
  <2>2. /\ queue[k + 1] \in QueueEntry
        /\ Length(SubSeq(queue, 1, k + 1))
             = Length(d) + (IF queue[k + 1].kind \in {"mem", "file"} THEN queue[k + 1].len ELSE 0)
    BY <2>1, <1>1, <1>2, PrefixStep DEF Length, Remaining
  <2>3. queue[k + 1].kind \in {"mem", "file"} /\ queue[k + 1].len \in Nat
    BY <2>2, EntryFields
  <2> HIDE DEF d
  <2> QED BY <1>1, <1>2, <1>4, <2>1, <2>2, <2>3
<1>6. Done(n) = d /\ PartOf(n) = n - Length(d) /\ Covered(n) = k
  BY DEF Done, PartOf, k
<1> HIDE DEF d
<1> QED BY <1>1, <1>2, <1>3, <1>4, <1>5, <1>6

\* An entry of which p units were sent.
Short(x, p) == [x EXCEPT !.len = x.len - p]

LEMMA ShortIs ==
  ASSUME NEW x \in QueueEntry, NEW p \in Nat \ {0}, p < x.len
  PROVE  /\ Short(x, p) \in QueueEntry
         /\ Short(x, p).entry = x.entry /\ Short(x, p).kind = x.kind /\ Short(x, p).len = x.len - p
         /\ Units(x.entry, x.len) = Units(x.entry, p) \o Units(x.entry, x.len - p)
<1>1. x.len \in Lengths /\ x.len \in Nat \ {0} BY EntryFields
<1>2. x.len - p \in Lengths BY <1>1, Numbers DEF Lengths
<1>3. Short(x, p) \in QueueEntry BY <1>2 DEF Short, QueueEntry
<1>4. Short(x, p).entry = x.entry /\ Short(x, p).kind = x.kind /\ Short(x, p).len = x.len - p
  BY DEF Short, QueueEntry
<1>5. Units(x.entry, x.len) = Units(x.entry, p) \o Units(x.entry, x.len - p)
  <2> DEFINE a == Units(x.entry, x.len)
             b == Units(x.entry, p)
             c == Units(x.entry, x.len - p)
  <2>1. /\ a \in Seq({x.entry}) /\ Len(a) = x.len /\ \A i \in 1 .. x.len : a[i] = x.entry
        /\ b \in Seq({x.entry}) /\ Len(b) = p /\ \A i \in 1 .. p : b[i] = x.entry
        /\ c \in Seq({x.entry}) /\ Len(c) = x.len - p /\ \A i \in 1 .. x.len - p : c[i] = x.entry
    BY <1>1 DEF Units
  <2> HIDE DEF a, b, c
  <2>2. \A s, t \in Seq({x.entry}) :
          /\ s \o t \in Seq({x.entry}) /\ Len(s \o t) = Len(s) + Len(t)
          /\ \A i \in 1 .. Len(s) + Len(t) : (s \o t)[i] = IF i <= Len(s) THEN s[i] ELSE t[i - Len(s)]
    BY ConcatProperties
  <2> DEFINE l == x.len
  <2>l. l \in Nat \ {0} /\ p \in Nat \ {0} /\ p < l
    BY <1>1
  <2>3. Len(a) = l /\ Len(b) = p /\ Len(c) = l - p BY <2>1
  <2>5. b \o c \in Seq({x.entry}) /\ Len(b \o c) = Len(b) + Len(c)
    BY <2>1, <2>2
  <2>6. ASSUME NEW i \in 1 .. l
        PROVE  a[i] = (b \o c)[i]
    <3>1. a[i] = x.entry BY <2>1
    <3>2. (b \o c)[i] = IF i <= p THEN b[i] ELSE c[i - p]
      <4> HIDE DEF l
      <4>1. i \in 1 .. Len(b) + Len(c) BY <2>3, <2>l
      <4> QED BY <4>1, <2>1, <2>2, <2>3
    <3>3. i <= p => b[i] = x.entry
      <4> HIDE DEF l
      <4> QED BY <2>1, <2>l
    <3>4. ~(i <= p) => c[i - p] = x.entry
      <4>1. \A j \in 1 .. l - p : c[j] = x.entry BY <2>1
      <4> HIDE DEF l
      <4> QED BY <4>1, <2>l
    <3> QED BY <3>1, <3>2, <3>3, <3>4
  <2>7. Len(b \o c) = l
    <3> HIDE DEF l
    <3> QED BY <2>3, <2>5, <2>l
  <2>4. a = b \o c
    <3>1. \A i \in 1 .. Len(a) : a[i] = (b \o c)[i] BY <2>3, <2>6
    <3>2. Len(a) = Len(b \o c) BY <2>3, <2>7
    <3> HIDE DEF l
    <3> QED BY <3>1, <3>2, <2>1, <2>5, SeqEqual
  <2> QED BY <2>4 DEF a, b, c
<1> QED BY <1>3, <1>4, <1>5

LEMMA TwiceExcept ==
  \A r, p : [r EXCEPT ![1].len = @ - p] = [r EXCEPT ![1] = Short(r[1], p)]
  BY DEF Short

LEMMA AdvanceIs ==
  ASSUME NEW n, Sendable(n)
  PROVE  LET k == Covered(n)
             rest == SubSeq(queue, k + 1, Len(queue))
         IN  /\ PartOf(n) = 0 => Advance(n) = rest
             /\ PartOf(n) > 0 =>
                  /\ rest = <<queue[k + 1]>> \o SubSeq(queue, k + 2, Len(queue))
                  /\ Advance(n) = <<Short(queue[k + 1], PartOf(n))>> \o SubSeq(queue, k + 2, Len(queue))
                  /\ SubSeq(queue, k + 2, Len(queue)) \in Seq(QueueEntry)
<1> DEFINE k == Covered(n)
           rest == SubSeq(queue, k + 1, Len(queue))
           tail == SubSeq(queue, k + 2, Len(queue))
           p == PartOf(n)
<1>1. /\ k \in 0 .. Len(queue) /\ Len(queue) \in Nat /\ p \in Nat
      /\ p > 0 => k < Len(queue) /\ queue[k + 1] \in QueueEntry /\ p < queue[k + 1].len
  BY PartOfIs
<1>2. queue \in Seq(QueueEntry) BY DEF Sendable
<1>3. Advance(n) = IF p = 0 THEN rest ELSE [rest EXCEPT ![1].len = @ - p]
  BY DEF Advance, PartOf, Done
<1>4. rest \in Seq(QueueEntry) /\ Len(rest) = Len(queue) - k /\ \A i \in 1 .. Len(queue) - k : rest[i] = queue[k + i]
  BY <1>1, <1>2, Parts
<1>5. ASSUME p > 0
      PROVE  /\ rest = <<queue[k + 1]>> \o tail
             /\ Advance(n) = <<Short(queue[k + 1], p)>> \o tail
             /\ tail \in Seq(QueueEntry)
  <2>0. k + 1 \in 1 .. Len(queue) /\ Len(queue) \in k + 1 .. Len(queue) /\ (k + 1) + 1 = k + 2
    BY <1>1, <1>5
  <2>1. rest = <<queue[k + 1]>> \o tail
    <3>1. rest = <<queue[k + 1]>> \o SubSeq(queue, (k + 1) + 1, Len(queue))
      <4> HIDE DEF k
      <4> QED BY <2>0, <1>2, SubSeqRecursiveFirst
    <3> QED BY <3>1, <2>0
  <2>2. tail \in Seq(QueueEntry) /\ Len(tail) = Len(queue) - (k + 1)
    <3>1. k + 1 \in 0 .. Len(queue) BY <2>0
    <3>2. SubSeq(queue, (k + 1) + 1, Len(queue)) \in Seq(QueueEntry)
          /\ Len(SubSeq(queue, (k + 1) + 1, Len(queue))) = Len(queue) - (k + 1)
      <4> HIDE DEF k
      <4> QED BY <3>1, <1>2, Parts
    <3> QED BY <3>2, <2>0
  <2> DEFINE x == queue[k + 1]
             s == Short(x, p)
  <2>3. x \in QueueEntry /\ s \in QueueEntry BY <1>1, <1>5, ShortIs
  <2>4. rest[1] = x
    <3> HIDE DEF rest
    <3> QED BY <1>1, <1>4, <1>5
  <2>5. Advance(n) = [rest EXCEPT ![1] = s]
    <3>1. Advance(n) = [rest EXCEPT ![1].len = @ - p]
      <4>1. p # 0 BY <1>5
      <4> HIDE DEF rest, p, k
      <4> QED BY <4>1, <1>3
    <3>2. [rest EXCEPT ![1].len = @ - p] = [rest EXCEPT ![1] = Short(rest[1], p)]
      BY TwiceExcept
    <3>3. Short(rest[1], p) = s
      <4> HIDE DEF rest
      <4> QED BY <2>4
    <3> HIDE DEF rest, p, k, s
    <3> QED BY <3>1, <3>2, <3>3
  <2> HIDE DEF s, x, rest, tail, p, k
  <2>6. [rest EXCEPT ![1] = s] = <<s>> \o tail
    <3>1. <<x>> \o tail \in Seq(QueueEntry) /\ <<s>> \o tail \in Seq(QueueEntry)
          /\ Len(<<s>> \o tail) = 1 + Len(tail) /\ Len(<<x>> \o tail) = 1 + Len(tail)
          /\ (<<s>> \o tail)[1] = s
          /\ \A i \in 2 .. 1 + Len(tail) : (<<s>> \o tail)[i] = tail[i - 1] /\ (<<x>> \o tail)[i] = tail[i - 1]
      BY <2>2, <2>3
    <3>2. rest = <<x>> \o tail BY <2>1 DEF x
    <3>3. 1 \in 1 .. Len(rest) /\ Len(rest) = 1 + Len(tail) /\ Len(tail) \in Nat
      BY <3>1, <3>2, <2>2
    <3>4. /\ [rest EXCEPT ![1] = s] \in Seq(QueueEntry)
          /\ Len([rest EXCEPT ![1] = s]) = Len(rest)
          /\ \A i \in 1 .. Len(rest) : [rest EXCEPT ![1] = s][i] = IF i = 1 THEN s ELSE rest[i]
      BY <3>3, <2>3, <1>4, ExceptSeq
    <3>5. \A i \in 1 .. Len(rest) : [rest EXCEPT ![1] = s][i] = (<<s>> \o tail)[i]
      <4> TAKE i \in 1 .. Len(rest)
      <4>1. CASE i = 1 BY <4>1, <3>1, <3>3, <3>4
      <4>2. CASE i # 1
        <5>1. i \in 2 .. 1 + Len(tail) BY <4>2, <3>3
        <5> QED BY <5>1, <4>2, <3>1, <3>2, <3>4
      <4> QED BY <4>1, <4>2
    <3> QED BY <3>1, <3>3, <3>4, <3>5, SeqEqual
  <2> QED BY <2>1, <2>2, <2>5, <2>6 DEF s, x
<1> QED BY <1>1, <1>3, <1>5

\* The queue is what n units complete, what they take of the next entry, and
\* what is left.
LEMMA CutIs ==
  ASSUME NEW n, Sendable(n), NEW K
  PROVE  /\ Spell(queue, K) = (Spell(Done(n), K) \o HeadSent(n, K)) \o Spell(Advance(n), K)
         /\ HeadSent(n, K) \in Seq(Entry)
         /\ Len(HeadSent(n, K)) = IF PartOf(n) > 0 /\ queue[Covered(n) + 1].kind \in K THEN PartOf(n) ELSE 0
         /\ Advance(n) \in Seq(QueueEntry)
<1> DEFINE k == Covered(n)
           d == Done(n)
           h == HeadSent(n, K)
           v == Advance(n)
           rest == SubSeq(queue, k + 1, Len(queue))
           tail == SubSeq(queue, k + 2, Len(queue))
           x == queue[k + 1]
           p == PartOf(n)
<1>1. queue \in Seq(QueueEntry) BY DEF Sendable
<1>2. /\ k \in 0 .. Len(queue) /\ p \in Nat
      /\ p > 0 => k < Len(queue) /\ x \in QueueEntry /\ p < x.len
  BY PartOfIs
<1>3. d \in Seq(QueueEntry) /\ rest \in Seq(QueueEntry) /\ queue = d \o rest
  <2>1. d = SubSeq(queue, 1, k) BY DEF Done
  <2> HIDE DEF k, d
  <2> QED BY <1>1, <1>2, <2>1, Parts
<1>4. Spell(queue, K) = Spell(d, K) \o Spell(rest, K)
  <2> HIDE DEF k, d, rest
  <2> QED BY <1>3, SpellConcat
<1>5. /\ p = 0 => v = rest
      /\ p > 0 => rest = <<x>> \o tail /\ v = <<Short(x, p)>> \o tail /\ tail \in Seq(QueueEntry)
  BY AdvanceIs
<1>6. h = IF p > 0 /\ x.kind \in K THEN Units(x.entry, p) ELSE <<>>
  BY DEF HeadSent
<1> HIDE DEF k, d, h, v, rest, tail, x, p
<1>7. Spell(d, K) \in Seq(Entry) BY <1>3, SpellType
<1>a. /\ \A s \in Seq(Entry) : s \o <<>> = s /\ <<>> \o s = s
      /\ \A s, t, u \in Seq(Entry) : (s \o t) \o u = s \o (t \o u)
      /\ <<>> \in Seq(Entry)
  BY ConcatAssociative, ConcatEmptySeq, EmptySeq, SMTT(30)
<1>8. CASE p = 0
  <2>1. h = <<>> /\ v = rest BY <1>5, <1>6, <1>8
  <2>2. Spell(d, K) \o h = Spell(d, K) /\ h \in Seq(Entry) /\ Len(h) = 0
    BY <2>1, <1>7, <1>a
  <2>3. Spell(queue, K) = (Spell(d, K) \o h) \o Spell(v, K) /\ v \in Seq(QueueEntry)
    BY <2>1, <2>2, <1>3, <1>4
  <2> QED BY <1>8, <2>2, <2>3 DEF d, h, v, p
<1>9. CASE p > 0
  <2> DEFINE y == Short(x, p)
  <2>1. x \in QueueEntry /\ p < x.len /\ p \in Nat \ {0} BY <1>2, <1>9
  <2>2. /\ y \in QueueEntry /\ y.entry = x.entry /\ y.kind = x.kind /\ y.len = x.len - p
        /\ Units(x.entry, x.len) = Units(x.entry, p) \o Units(x.entry, x.len - p)
    BY <2>1, ShortIs
  <2> HIDE DEF y
  <2>3. rest = <<x>> \o tail /\ v = <<y>> \o tail /\ tail \in Seq(QueueEntry)
        /\ <<x>> \in Seq(QueueEntry) /\ <<y>> \in Seq(QueueEntry)
    BY <1>5, <1>9, <2>1, <2>2 DEF y
  <2>4. /\ Spell(rest, K) = Spell(<<x>>, K) \o Spell(tail, K)
        /\ Spell(v, K) = Spell(<<y>>, K) \o Spell(tail, K)
    BY <2>3, SpellConcat, ZenonT(60)
  <2>5. Spell(<<x>>, K) = UnitsOf(x, K) /\ Spell(<<y>>, K) = UnitsOf(y, K)
    BY <2>1, <2>2, SpellOne
  <2>6. UnitsOf(x, K) = h \o UnitsOf(y, K) /\ h \in Seq(Entry)
        /\ Len(h) = IF x.kind \in K THEN p ELSE 0
    <3>1. CASE x.kind \in K
      <4>1. h = Units(x.entry, p) BY <1>6, <1>9, <3>1
      <4>2. Units(x.entry, p) \in Seq(Entry) /\ Len(Units(x.entry, p)) = p
        <5>1. x.entry \in Entry BY <2>1, EntryFields
        <5> QED BY <5>1, <2>1 DEF Units
      <4> QED BY <4>1, <4>2, <3>1, <2>2 DEF UnitsOf
    <3>2. CASE x.kind \notin K
      <4>1. h = <<>> BY <1>6, <3>2
      <4>2. <<>> \o <<>> = <<>> BY <1>a
      <4> QED BY <4>1, <4>2, <3>2, <2>2, <1>a DEF UnitsOf
    <3> QED BY <3>1, <3>2
  <2>7. Spell(<<y>>, K) \in Seq(Entry) /\ Spell(tail, K) \in Seq(Entry) /\ v \in Seq(QueueEntry)
    <3>1. v \in Seq(QueueEntry) BY <2>3, ConcatProperties
    <3> QED BY <2>3, <3>1, SpellType
  <2>8. Spell(queue, K) = (Spell(d, K) \o h) \o Spell(v, K)
    <3> DEFINE a == Spell(d, K)
               b == Spell(<<y>>, K)
               c == Spell(tail, K)
    <3>1. a \in Seq(Entry) /\ h \in Seq(Entry) /\ b \in Seq(Entry) /\ c \in Seq(Entry)
      BY <1>7, <2>6, <2>7
    <3>2. Spell(queue, K) = a \o ((h \o b) \o c) BY <1>4, <2>4, <2>5, <2>6
    <3>3. Spell(v, K) = b \o c BY <2>4
    <3> HIDE DEF a, b, c
    <3>4. (h \o b) \o c = h \o (b \o c) /\ b \o c \in Seq(Entry)
      BY <3>1, <1>a, ConcatProperties, SMTT(30)
    <3>5. a \o (h \o (b \o c)) = (a \o h) \o (b \o c) BY <3>1, <3>4, <1>a, ZenonT(60)
    <3>6. Spell(queue, K) = (a \o h) \o Spell(v, K) BY <3>2, <3>3, <3>4, <3>5
    <3> QED BY <3>6 DEF a
  <2> QED BY <1>9, <2>6, <2>7, <2>8 DEF d, h, v, p, x, k
<1> QED BY <1>2, <1>8, <1>9

\* The units of a send, in order.
Sent(n) == Spell(Done(n), Both) \o HeadSent(n, Both)

\* The n units that go out are the first of the queue, and what is left starts
\* where they end; an entry keeps its name and kind.
LEMMA SentIs ==
  ASSUME NEW n, Sendable(n)
  PROVE  /\ Sent(n) \in Seq(Entry) /\ Len(Sent(n)) = n
         /\ Remaining(queue) = Sent(n) \o Remaining(Advance(n))
         /\ \A i \in 1 .. n : Remaining(queue)[i] = Sent(n)[i]
<1> DEFINE a == Spell(Done(n), Both)
           h == HeadSent(n, Both)
           r == Spell(Advance(n), Both)
<1>1. /\ Done(n) \in Seq(QueueEntry) /\ Length(Done(n)) \in Nat /\ PartOf(n) \in Nat
      /\ n = Length(Done(n)) + PartOf(n)
      /\ PartOf(n) > 0 => queue[Covered(n) + 1] \in QueueEntry
  BY PartOfIs
<1>2. /\ Spell(queue, Both) = (a \o h) \o r /\ h \in Seq(Entry)
      /\ Len(h) = IF PartOf(n) > 0 /\ queue[Covered(n) + 1].kind \in Both THEN PartOf(n) ELSE 0
      /\ Advance(n) \in Seq(QueueEntry)
  BY CutIs
<1>3. PartOf(n) > 0 => queue[Covered(n) + 1].kind \in Both
  BY <1>1, EntryFields DEF Both
<1>4. Len(h) = PartOf(n)
  <2> HIDE DEF h
  <2> QED BY <1>1, <1>2, <1>3
<1>5. a \in Seq(Entry) /\ Len(a) = Length(Done(n)) /\ r \in Seq(Entry)
  <2>1. a \in Seq(Entry) BY <1>1, SpellType
  <2>2. r \in Seq(Entry) BY <1>2, SpellType
  <2> QED BY <2>1, <2>2 DEF Length, Remaining, Both
<1>6. Sent(n) = a \o h /\ Remaining(queue) = Spell(queue, Both) /\ Remaining(Advance(n)) = r
  BY DEF Sent, Remaining, Both
<1> HIDE DEF a, h, r
<1>7. a \o h \in Seq(Entry) /\ Len(a \o h) = n
  <2>1. \A s, t \in Seq(Entry) : s \o t \in Seq(Entry) /\ Len(s \o t) = Len(s) + Len(t)
    OBVIOUS
  <2>2. a \o h \in Seq(Entry) /\ Len(a \o h) = Len(a) + Len(h)
    BY <2>1, <1>2, <1>5
  <2>3. Len(a) + Len(h) = n BY <1>1, <1>4, <1>5
  <2> QED BY <2>2, <2>3
<1>8. \A i \in 1 .. n : ((a \o h) \o r)[i] = (a \o h)[i]
  <2> DEFINE s == a \o h
  <2>1. s \in Seq(Entry) /\ Len(s) = n /\ n \in Nat BY <1>7, <1>1
  <2> HIDE DEF s
  <2>2. \A i \in 1 .. n : (s \o r)[i] = s[i] BY <2>1, <1>5
  <2> QED BY <2>2 DEF s
<1> QED BY <1>2, <1>6, <1>7, <1>8

LEMMA AdvanceKeeps ==
  ASSUME NEW n, Sendable(n)
  PROVE  /\ Len(Advance(n)) = Len(queue) - Covered(n)
         /\ \A i \in 1 .. Len(queue) - Covered(n) :
              /\ Advance(n)[i].entry = queue[Covered(n) + i].entry
              /\ Advance(n)[i].kind = queue[Covered(n) + i].kind
<1> DEFINE k == Covered(n)
           v == Advance(n)
           rest == SubSeq(queue, k + 1, Len(queue))
           tail == SubSeq(queue, k + 2, Len(queue))
           x == queue[k + 1]
           p == PartOf(n)
<1>1. /\ k \in 0 .. Len(queue) /\ Len(queue) \in Nat /\ p \in Nat
      /\ p > 0 => k < Len(queue) /\ x \in QueueEntry /\ p < x.len
  BY PartOfIs
<1>2. /\ rest \in Seq(QueueEntry) /\ Len(rest) = Len(queue) - k
      /\ \A i \in 1 .. Len(queue) - k : rest[i] = queue[k + i]
  <2>1. queue \in Seq(QueueEntry) BY DEF Sendable
  <2> HIDE DEF k
  <2> QED BY <2>1, <1>1, Parts
<1>3. /\ p = 0 => v = rest
      /\ p > 0 => rest = <<x>> \o tail /\ v = <<Short(x, p)>> \o tail /\ tail \in Seq(QueueEntry)
  BY AdvanceIs
<1> HIDE DEF k, v, rest, tail, x, p
<1>4. CASE p = 0 BY <1>2, <1>3, <1>4 DEF k, v
<1>5. CASE p > 0
  <2> DEFINE y == Short(x, p)
  <2>1. y \in QueueEntry /\ y.entry = x.entry /\ y.kind = x.kind /\ x \in QueueEntry
    BY <1>1, <1>5, ShortIs
  <2> HIDE DEF y
  <2>2. rest = <<x>> \o tail /\ v = <<y>> \o tail /\ tail \in Seq(QueueEntry)
    BY <1>3, <1>5 DEF y
  <2>3. \A z \in QueueEntry : /\ Len(<<z>> \o tail) = 1 + Len(tail) /\ (<<z>> \o tail)[1] = z
                               /\ \A i \in 2 .. 1 + Len(tail) : (<<z>> \o tail)[i] = tail[i - 1]
    BY <2>2
  <2>4. /\ Len(rest) = 1 + Len(tail) /\ Len(v) = 1 + Len(tail) /\ Len(tail) \in Nat
        /\ rest[1] = x /\ v[1] = y
        /\ \A i \in 2 .. 1 + Len(tail) : v[i] = rest[i]
    BY <2>1, <2>2, <2>3
  <2>5. \A i \in 1 .. Len(queue) - k : v[i].entry = rest[i].entry /\ v[i].kind = rest[i].kind
    <3> TAKE i \in 1 .. Len(queue) - k
    <3>1. i = 1 \/ i \in 2 .. 1 + Len(tail) BY <2>4, <1>2
    <3> QED BY <3>1, <2>1, <2>4
  <2> QED BY <2>4, <2>5, <1>2 DEF k, v
<1> QED BY <1>1, <1>4, <1>5

\* How many entries at the head a send takes units of.
Touched(n) == Covered(n) + (IF PartOf(n) > 0 THEN 1 ELSE 0)

LEMMA SentUnits ==
  ASSUME NEW n, Sendable(n)
  PROVE  /\ Touched(n) \in 0 .. Len(queue) /\ Covered(n) <= Touched(n)
         /\ \A i \in 1 .. n : \E j \in 1 .. Touched(n) : Sent(n)[i] = queue[j].entry
<1> DEFINE d == Done(n)
           a == Spell(d, Both)
           h == HeadSent(n, Both)
           k == Covered(n)
           p == PartOf(n)
<1>1. /\ k \in 0 .. Len(queue) /\ Len(queue) \in Nat /\ d \in Seq(QueueEntry) /\ Len(d) = k
      /\ p \in Nat /\ (p > 0 => k < Len(queue))
      /\ \A i \in 1 .. k : d[i] = queue[i]
      /\ n = Length(d) + p /\ Length(d) \in Nat
      /\ (p > 0 => queue[k + 1] \in QueueEntry)
  BY PartOfIs
<1>2. h = IF p > 0 /\ queue[k + 1].kind \in Both THEN Units(queue[k + 1].entry, p) ELSE <<>>
  BY DEF HeadSent
<1>3. /\ a \in Seq(EntriesOf(d)) /\ Len(a) = Length(d) /\ Sent(n) = a \o h /\ Len(Sent(n)) = n
      /\ Len(a \o h) = Len(a) + Len(h)
  <2>1. a \in Seq(EntriesOf(d)) /\ a \in Seq(Entry) BY <1>1, SpellType
  <2>2. h \in Seq(Entry) BY CutIs
  <2>3. Len(a \o h) = Len(a) + Len(h)
    <3> HIDE DEF a, h
    <3> QED BY <2>1, <2>2
  <2> QED BY <2>1, <2>3, SentIs DEF Length, Remaining, Both, Sent
<1>4. Touched(n) = k + (IF p > 0 THEN 1 ELSE 0) BY DEF Touched
<1> HIDE DEF a, h, k, p, d
<1>5. k + (IF p > 0 THEN 1 ELSE 0) \in 0 .. Len(queue) /\ k <= k + (IF p > 0 THEN 1 ELSE 0)
  BY <1>1
<1>6. ASSUME NEW i \in 1 .. n
      PROVE  \E j \in 1 .. k + (IF p > 0 THEN 1 ELSE 0) : Sent(n)[i] = queue[j].entry
  <2>1. h \in Seq({queue[k + 1].entry}) /\ (p = 0 => h = <<>>)
    <3>1. <<>> \in Seq({queue[k + 1].entry}) BY EmptySeq
    <3>2. p > 0 => Units(queue[k + 1].entry, p) \in Seq({queue[k + 1].entry})
      BY <1>1 DEF Units
    <3> QED BY <3>1, <3>2, <1>2
  <2>2. Sent(n)[i] = IF i <= Len(a) THEN a[i] ELSE h[i - Len(a)]
    <3>1. i \in 1 .. Len(a) + Len(h)
      <4>1. Len(a) + Len(h) = n BY <1>3
      <4> QED BY <4>1
    <3>2. a \in Seq(EntriesOf(d)) /\ h \in Seq({queue[k + 1].entry})
      BY <1>3, <2>1
    <3>3. (a \o h)[i] = IF i <= Len(a) THEN a[i] ELSE h[i - Len(a)]
      BY ONLY <3>1, <3>2
    <3> QED BY <1>3, <3>3
  <2>3. CASE i <= Len(a)
    <3>1. a[i] \in EntriesOf(d) BY <1>1, <1>3, <2>3
    <3>2. PICK j \in 1 .. Len(d) : a[i] = d[j].entry BY <3>1 DEF EntriesOf
    <3>3. j \in 1 .. k + (IF p > 0 THEN 1 ELSE 0) /\ d[j] = queue[j]
      BY <1>1, <3>2
    <3> QED BY <2>2, <2>3, <3>2, <3>3
  <2>4. CASE ~(i <= Len(a))
    <3>1. p # 0 /\ p > 0 BY <1>1, <1>3, <2>4
    <3>2. i - Len(a) \in 1 .. Len(h)
      <4>1. Len(a \o h) = Len(a) + Len(h) BY <1>3
      <4> QED BY <4>1, <1>1, <1>3, <2>1, <2>4
    <3>3. h[i - Len(a)] = queue[k + 1].entry BY <2>1, <3>2
    <3>4. k + 1 \in 1 .. k + (IF p > 0 THEN 1 ELSE 0) BY <1>1, <3>1
    <3> QED BY <2>2, <2>4, <3>3, <3>4
  <2> QED BY <2>3, <2>4
<1> QED BY <1>4, <1>5, <1>6 DEF k

\* A queue of memory entries spells the same with files left out.
LEMMA OnlyMem ==
  ASSUME NEW q \in Seq(QueueEntry), \A i \in 1 .. Len(q) : q[i].kind = "mem"
  PROVE  Spell(q, {"mem"}) = Spell(q, Both)
<1>1. \A i \in 1 .. Len(q) : UnitsOf(q[i], {"mem"}) = UnitsOf(q[i], Both)
  BY DEF UnitsOf, Both
<1>2. [i \in 1 .. Len(q) |-> UnitsOf(q[i], {"mem"})] = [i \in 1 .. Len(q) |-> UnitsOf(q[i], Both)]
  BY <1>1
<1> QED BY <1>2 DEF Spell

LEMMA MemCount ==
  ASSUME NEW n, Sendable(n), \A i \in 1 .. Touched(n) : queue[i].kind = "mem"
  PROVE  Len(Spell(queue, {"mem"})) = n + Len(Spell(Advance(n), {"mem"}))
<1> DEFINE d == Done(n)
           k == Covered(n)
           p == PartOf(n)
<1>1. /\ k \in 0 .. Len(queue) /\ d \in Seq(QueueEntry) /\ Len(d) = k
      /\ p \in Nat /\ \A i \in 1 .. k : d[i] = queue[i]
      /\ n = Length(d) + p /\ Length(d) \in Nat
  BY PartOfIs
<1>2. Touched(n) = k + (IF p > 0 THEN 1 ELSE 0) BY DEF Touched
<1>3. (\A i \in 1 .. Len(d) : d[i].kind = "mem") /\ (p > 0 => queue[k + 1].kind = "mem")
  <2> HIDE DEF k, p, d
  <2> QED BY <1>1, <1>2, SMTT(30)
<1>4. Len(Spell(d, {"mem"})) = Length(d)
  <2> HIDE DEF d
  <2>1. Spell(d, {"mem"}) = Spell(d, Both) BY <1>1, <1>3, OnlyMem
  <2> QED BY <2>1 DEF Length, Remaining, Both
<1> DEFINE a == Spell(d, {"mem"})
           h == HeadSent(n, {"mem"})
           r == Spell(Advance(n), {"mem"})
<1>5. /\ Spell(queue, {"mem"}) = (a \o h) \o r /\ h \in Seq(Entry)
      /\ Len(h) = IF p > 0 /\ queue[k + 1].kind \in {"mem"} THEN p ELSE 0
      /\ Advance(n) \in Seq(QueueEntry)
  BY CutIs
<1>6. a \in Seq(Entry) /\ r \in Seq(Entry)
  <2>1. a \in Seq(Entry) BY <1>1, SpellType
  <2> QED BY <2>1, <1>5, SpellType
<1>7. Len(a) = Length(d) BY <1>4
<1> HIDE DEF a, h, r, d, k, p
<1>8. Len(h) = p BY <1>1, <1>3, <1>5
<1>9. Len((a \o h) \o r) = (Len(a) + Len(h)) + Len(r)
  <2> DEFINE b == a \o h
  <2>1. b \in Seq(Entry) /\ Len(b) = Len(a) + Len(h)
    <3>1. h \in Seq(Entry) BY <1>5
    <3> QED BY ONLY <3>1, <1>6, ConcatProperties
  <2> HIDE DEF b
  <2>2. Len(b \o r) = Len(b) + Len(r) BY <2>1, <1>6
  <2> QED BY <2>1, <2>2 DEF b
<1>10. Len(Spell(queue, {"mem"})) = n + Len(r) BY <1>1, <1>5, <1>7, <1>8, <1>9
<1> QED BY <1>10 DEF r

\* What one sendmsg() covers are memory entries at the head.
LEMMA IovIs ==
  ASSUME queue \in Seq(QueueEntry)
  PROVE  IovCount \in 0 .. Len(queue) /\ \A i \in 1 .. IovCount : queue[i].kind = "mem"
<1> DEFINE stop == {i \in 1 .. Len(queue) : queue[i].kind = "file"}
           run == IF stop = {} THEN Len(queue) ELSE (CHOOSE i \in stop : \A j \in stop : i <= j) - 1
<1>1. Len(queue) \in Nat /\ MAX_IOVECS \in Nat /\ \A i \in 1 .. Len(queue) : queue[i].kind \in {"mem", "file"}
  <2>1. \A i \in 1 .. Len(queue) : queue[i] \in QueueEntry
    OBVIOUS
  <2> QED BY <2>1, EntryFields, Numbers
<1>2. run \in 0 .. Len(queue) /\ \A i \in 1 .. run : i \notin stop
  <2>1. CASE stop = {} BY <2>1, <1>1
  <2>2. CASE stop # {}
    <3>1. stop \in SUBSET Nat BY <1>1
    <3> DEFINE m == CHOOSE i \in stop : \A j \in stop : i <= j
    <3>2. m \in stop /\ \A j \in stop : m <= j
      <4> HIDE DEF stop
      <4> QED BY <2>2, <3>1, LeastNumber
    <3>3. run = m - 1 BY <2>2
    <3>4. m \in 1 .. Len(queue) BY <3>2
    <3> HIDE DEF m, stop, run
    <3>5. ASSUME NEW i \in 1 .. m - 1, i \in stop
          PROVE  FALSE
      BY <3>2, <3>4, <3>5, <1>1
    <3> QED BY <3>3, <3>4, <3>5, <1>1
  <2> QED BY <2>1, <2>2
<1>3. IovCount = IF run < MAX_IOVECS THEN run ELSE MAX_IOVECS
  BY DEF IovCount
<1> HIDE DEF run
<1>4. IovCount \in 0 .. run BY <1>1, <1>2, <1>3
<1>5. \A i \in 1 .. run : queue[i].kind = "mem"
  <2> TAKE i \in 1 .. run
  <2>1. i \in 1 .. Len(queue) /\ i \notin stop BY <1>1, <1>2
  <2> QED BY <2>1, <1>1
<1> HIDE DEF stop
<1> QED BY <1>1, <1>2, <1>4, <1>5

LEMMA PrefixShorter ==
  ASSUME NEW q \in Seq(QueueEntry), NEW j \in 0 .. Len(q)
  PROVE  Length(SubSeq(q, 1, j)) \in Nat /\ Length(q) \in Nat /\ Length(SubSeq(q, 1, j)) <= Length(q)
<1>1. Len(q) \in Nat /\ SubSeq(q, 1, Len(q)) = q BY SubSeqFull
<1>2. Length(q) \in Nat BY LengthNat DEF Length, Remaining
<1> DEFINE d == SubSeq(q, 1, j)
<1>3. d \in Seq(QueueEntry) BY Parts
<1>4. Length(d) \in Nat
  <2> HIDE DEF d
  <2> QED BY <1>3, LengthNat DEF Length, Remaining
<1>5. CASE j = Len(q)
  <2>1. d = q BY <1>1, <1>5
  <2> HIDE DEF d
  <2>2. Length(d) = Length(q) BY <2>1
  <2> QED BY <2>2, <1>2 DEF d
<1>6. CASE j < Len(q)
  <2> DEFINE e == SubSeq(q, 1, Len(q))
  <2>1. Length(d) < Length(e)
    <3>1. Len(q) \in 0 .. Len(q) BY <1>1
    <3> QED BY <3>1, <1>6, PrefixGrows
  <2>2. e = q BY <1>1
  <2> HIDE DEF e, d
  <2>3. Length(d) < Length(q) BY <2>1, <2>2
  <2> QED BY <2>3, <1>2, <1>4 DEF d
<1>7. j = Len(q) \/ j < Len(q)
  <2>1. Len(q) \in Nat
    OBVIOUS
  <2> QED BY ONLY <2>1, j \in 0 .. Len(q)
<1> QED BY <1>2, <1>4, <1>5, <1>6, <1>7

\* A send whose units lie in the first j entries takes units of these only.
LEMMA SendWithin ==
  ASSUME queue \in Seq(QueueEntry), NEW n \in Nat, NEW j \in 0 .. Len(queue), n <= Length(SubSeq(queue, 1, j))
  PROVE  Sendable(n) /\ Touched(n) \in 0 .. j
<1> DEFINE L(i) == Length(SubSeq(queue, 1, i))
           k == Covered(n)
           p == PartOf(n)
<1>1. /\ \A i \in 0 .. Len(queue) : L(i) \in Nat /\ L(i) <= Length(queue)
      /\ Len(queue) \in Nat /\ Length(queue) \in Nat
  BY PrefixShorter
<1>2. n <= L(j)
  OBVIOUS
<1>3. \A i, m \in 0 .. Len(queue) : i < m => L(i) < L(m) BY PrefixGrows
<1> HIDE DEF L
<1>4. Sendable(n) BY <1>1, <1>2 DEF Sendable
<1>5. k \in 0 .. Len(queue) /\ p \in Nat /\ n = L(k) + p
  <2>1. Done(n) = SubSeq(queue, 1, k) BY DEF Done
  <2> HIDE DEF k, p
  <2>2. Length(Done(n)) = L(k) BY <2>1 DEF L
  <2> QED BY <2>2, <1>4, PartOfIs DEF k, p
<1> HIDE DEF k, p
<1>6. L(k) <= L(j) /\ (p > 0 => L(k) < L(j)) BY <1>1, <1>2, <1>5
<1>7. k <= j /\ (p > 0 => k < j)
  <2>1. ASSUME k > j
        PROVE  FALSE
    BY <2>1, <1>1, <1>3, <1>5, <1>6
  <2>2. ASSUME p > 0, k = j
        PROVE  FALSE
    BY <2>2, <1>1, <1>5, <1>6
  <2> QED BY <2>1, <2>2, <1>5
<1>8. Touched(n) = k + (IF p > 0 THEN 1 ELSE 0) BY DEF Touched, k, p
<1> QED BY <1>4, <1>5, <1>7, <1>8

\* sendfile() sends from the head entry and counts no memory.
LEMMA FileSend ==
  ASSUME queue \in Seq(QueueEntry), queue # <<>>, Head(queue).kind = "file",
         NEW n \in Nat, n <= Head(queue).len
  PROVE  /\ Sendable(n) /\ Touched(n) \in 0 .. 1 /\ Covered(n) \in 0 .. 1
         /\ Len(Spell(Advance(n), {"mem"})) = Len(Spell(queue, {"mem"}))
<1>1. Len(queue) \in Nat \ {0} /\ queue[1] \in QueueEntry /\ Head(queue) = queue[1]
  OBVIOUS
<1>2. n <= Length(SubSeq(queue, 1, 1))
  <2> DEFINE a == SubSeq(queue, 1, 0)
  <2>1. 0 \in 0 .. Len(queue) /\ 0 < Len(queue) /\ 0 + 1 = 1
    BY <1>1
  <2>2. Length(SubSeq(queue, 1, 1)) = Length(a) + (IF queue[1].kind \in {"mem", "file"} THEN queue[1].len ELSE 0)
    <3>1. /\ queue[0 + 1] \in QueueEntry
          /\ Length(SubSeq(queue, 1, 0 + 1))
               = Length(SubSeq(queue, 1, 0))
                   + (IF queue[0 + 1].kind \in {"mem", "file"} THEN queue[0 + 1].len ELSE 0)
      BY <2>1, PrefixStep DEF Length, Remaining
    <3> QED BY <3>1
  <2>3. a \in Seq(QueueEntry) BY <2>1, Parts
  <2>4. Length(a) \in Nat
    <3> HIDE DEF a
    <3> QED BY <2>3, LengthNat DEF Length, Remaining
  <2>5. queue[1].len \in Nat BY <1>1, EntryFields
  <2> HIDE DEF a
  <2> QED BY <1>1, <2>2, <2>4, <2>5
<1>3. Sendable(n) /\ Touched(n) \in 0 .. 1
  <2>1. 1 \in 0 .. Len(queue) BY <1>1
  <2> QED BY <2>1, <1>2, SendWithin
<1> DEFINE k == Covered(n)
           p == PartOf(n)
           d == Done(n)
           h == HeadSent(n, {"mem"})
           a == Spell(d, {"mem"})
           r == Spell(Advance(n), {"mem"})
<1>4. /\ k \in 0 .. Len(queue) /\ p \in Nat /\ Touched(n) = k + (IF p > 0 THEN 1 ELSE 0)
      /\ d \in Seq(QueueEntry) /\ Len(d) = k /\ \A i \in 1 .. k : d[i] = queue[i]
  BY <1>3, PartOfIs DEF Touched
<1>5. h = IF p > 0 /\ queue[k + 1].kind = "mem" THEN Units(queue[k + 1].entry, p) ELSE <<>>
  BY DEF HeadSent
<1>6. Spell(queue, {"mem"}) = (a \o h) \o r /\ Advance(n) \in Seq(QueueEntry)
  BY <1>3, CutIs
<1>7. r \in Seq(Entry) BY <1>6, SpellType
<1> HIDE DEF k, p, d, h, r
<1>8. k \in 0 .. 1 /\ (k = 1 => p = 0) BY <1>3, <1>4
<1>9. h = <<>> BY <1>1, <1>4, <1>5, <1>8
<1>10. a = <<>>
  <2>1. CASE k = 0
    <3>1. d = <<>> BY <1>4, <2>1, EmptySeq
    <3> QED BY <1>1, <3>1, SpellOne
  <2>2. CASE k = 1
    <3>1. d = <<queue[1]>>
      <4>1. <<queue[1]>> \in Seq(QueueEntry) /\ Len(<<queue[1]>>) = 1 /\ <<queue[1]>>[1] = queue[1]
        BY <1>1
      <4>2. \A i \in 1 .. Len(d) : d[i] = <<queue[1]>>[i] BY <1>4, <2>2, <4>1
      <4> QED BY <1>4, <2>2, <4>1, <4>2, SeqEqual
    <3>2. UnitsOf(queue[1], {"mem"}) = <<>> BY <1>1 DEF UnitsOf
    <3> QED BY <1>1, <3>1, <3>2, SpellOne
  <2> QED BY <1>8, <2>1, <2>2
<1> HIDE DEF a
<1>11. Spell(queue, {"mem"}) = r
  <2>1. <<>> \o <<>> = <<>> /\ <<>> \o r = r BY <1>7, ConcatEmptySeq, EmptySeq
  <2> QED BY <2>1, <1>6, <1>9, <1>10
<1> QED BY <1>3, <1>8, <1>11 DEF k, r

-----------------------------------------------------------------------------
(* The invariant: types, the accounts of the queues and the stream itself *)

PendingEntry == [entry : Entry, id : 0 .. (IdSpace - 1)]
SockUnit == [entry : Entry, id : 0 .. IdSpace]
Report == [lo : 0 .. (IdSpace - 1), hi : 0 .. (IdSpace - 1)]

Typed ==
  /\ {zerocopy, zc_enabled, streaming, out_armed, ready} \subseteq BOOLEAN
  /\ state \in {"OPEN", "CLOSING", "FREED"}
  /\ writing \in {"no", "entered", "sent"}
  /\ state = "FREED" => writing = "no" /\ queue = <<>> /\ pending = <<>>
  /\ queue \in Seq(QueueEntry) /\ pending \in Seq(PendingEntry)
  /\ sock \in Seq(SockUnit) /\ Len(sock) <= SocketSpace
  /\ errqueue \in Seq(Report)
  /\ received \in Seq(Entry) /\ accepted \in Seq(Entry)
  /\ entries \in 0 .. MaxEntries
  /\ next_id \in 0 .. (IdSpace - 1)
  /\ released \in [Entry -> Nat]

StreamInv == Typed /\ QueueAccounting /\ StreamIntegrity

SockUnits(s) == [i \in 1 .. Len(s) |-> s[i].entry]

\* Sequences one after the other.
LEMMA Joined ==
  ASSUME NEW S
  PROVE  /\ \A a, b \in Seq(S) :
              /\ a \o b \in Seq(S) /\ Len(a \o b) = Len(a) + Len(b)
              /\ \A i \in 1 .. Len(a) : (a \o b)[i] = a[i]
              /\ \A i \in 1 .. Len(b) : (a \o b)[Len(a) + i] = b[i]
         /\ \A a, b, c \in Seq(S) : (a \o b) \o c = a \o (b \o c)
<1>1. ASSUME NEW a \in Seq(S), NEW b \in Seq(S)
      PROVE  /\ a \o b \in Seq(S) /\ Len(a \o b) = Len(a) + Len(b)
             /\ \A i \in 1 .. Len(a) : (a \o b)[i] = a[i]
             /\ \A i \in 1 .. Len(b) : (a \o b)[Len(a) + i] = b[i]
  BY ConcatProperties
<1>2. \A a, b, c \in Seq(S) : (a \o b) \o c = a \o (b \o c)
  BY ConcatAssociative
<1> QED BY <1>1, <1>2

LEMMA SockUnitsIs ==
  ASSUME NEW s \in Seq(SockUnit), NEW t \in Seq(SockUnit)
  PROVE  /\ SockUnits(s) \in Seq(Entry) /\ Len(SockUnits(s)) = Len(s)
         /\ SockUnits(s \o t) = SockUnits(s) \o SockUnits(t)
<1>1. \A r \in Seq(SockUnit) :
        /\ SockUnits(r) \in Seq(Entry) /\ Len(SockUnits(r)) = Len(r)
        /\ Len(r) \in Nat /\ \A i \in 1 .. Len(r) : SockUnits(r)[i] = r[i].entry
  <2> TAKE r \in Seq(SockUnit)
  <2>1. \A i \in 1 .. Len(r) : r[i].entry \in Entry
    <3>1. \A x \in SockUnit : x.entry \in Entry BY DEF SockUnit
    <3>2. \A i \in 1 .. Len(r) : r[i] \in SockUnit
      OBVIOUS
    <3> QED BY <3>1, <3>2
  <2> QED BY <2>1 DEF SockUnits
<1>2. /\ s \o t \in Seq(SockUnit) /\ Len(s \o t) = Len(s) + Len(t)
      /\ \A i \in 1 .. Len(s) : (s \o t)[i] = s[i]
      /\ \A i \in 1 .. Len(t) : (s \o t)[Len(s) + i] = t[i]
  BY Joined
<1> DEFINE a == SockUnits(s)
           b == SockUnits(t)
           c == SockUnits(s \o t)
<1>3. /\ a \in Seq(Entry) /\ Len(a) = Len(s) /\ \A i \in 1 .. Len(s) : a[i] = s[i].entry
      /\ b \in Seq(Entry) /\ Len(b) = Len(t) /\ \A i \in 1 .. Len(t) : b[i] = t[i].entry
      /\ c \in Seq(Entry) /\ Len(c) = Len(s) + Len(t)
      /\ \A i \in 1 .. Len(s) + Len(t) : c[i] = (s \o t)[i].entry
  <2> HIDE DEF a, b, c
  <2> QED BY <1>1, <1>2 DEF a, b, c
<1> HIDE DEF a, b, c
<1>4. /\ a \o b \in Seq(Entry) /\ Len(a \o b) = Len(s) + Len(t)
      /\ \A i \in 1 .. Len(s) : (a \o b)[i] = a[i]
      /\ \A i \in 1 .. Len(t) : (a \o b)[Len(s) + i] = b[i]
  <2>1. /\ a \o b \in Seq(Entry) /\ Len(a \o b) = Len(a) + Len(b)
        /\ \A i \in 1 .. Len(a) : (a \o b)[i] = a[i]
        /\ \A i \in 1 .. Len(b) : (a \o b)[Len(a) + i] = b[i]
    <3>1. a \in Seq(Entry) /\ b \in Seq(Entry) BY <1>3
    <3> QED BY ONLY <3>1, Joined
  <2>2. Len(a) = Len(s) /\ Len(b) = Len(t) BY <1>3
  <2> QED BY <2>1, <2>2
<1>5. \A i \in 1 .. Len(c) : c[i] = (a \o b)[i]
  <2> TAKE i \in 1 .. Len(c)
  <2>1. i \in 1 .. Len(s) + Len(t) /\ Len(s) \in Nat /\ Len(t) \in Nat
    BY <1>1, <1>3
  <2>2. CASE i \in 1 .. Len(s) BY <2>1, <2>2, <1>2, <1>3, <1>4, SMTT(30)
  <2>3. CASE i \notin 1 .. Len(s)
    <3>1. PICK j \in 1 .. Len(t) : i = Len(s) + j
      <4>1. i - Len(s) \in 1 .. Len(t) /\ i = Len(s) + (i - Len(s))
        BY ONLY <2>1, <2>3
      <4> QED BY <4>1
    <3>2. c[i] = t[j].entry
      <4>1. c[i] = (s \o t)[i].entry BY <2>1, <1>3
      <4>2. (s \o t)[i] = t[j] BY <3>1, <1>2
      <4> QED BY <4>1, <4>2
    <3>3. (a \o b)[i] = t[j].entry BY <3>1, <1>3, <1>4
    <3> QED BY <3>2, <3>3
  <2> QED BY <2>2, <2>3
<1>6. c = a \o b BY <1>3, <1>4, <1>5, SeqEqual
<1> QED BY <1>3, <1>6 DEF a, b, c

\* A new entry at the end of the queue.
LEMMA AppendedIs ==
  ASSUME StreamInv, NEW kind \in Both, NEW n \in Lengths, Append1(kind, n)
  PROVE  /\ queue' \in Seq(QueueEntry) /\ accepted' \in Seq(Entry) /\ entries' \in 0 .. MaxEntries
         /\ total_bytes' = Len(Spell(queue', {"mem"})) /\ num_queued' = Len(queue')
         /\ \A base \in Seq(Entry) : base \o Remaining(queue) = accepted
                                       => base \o Remaining(queue') = accepted'
<1> DEFINE x == [entry |-> entries + 1, kind |-> kind, len |-> n]
<1>1. /\ queue \in Seq(QueueEntry) /\ accepted \in Seq(Entry) /\ entries \in 0 .. MaxEntries
      /\ total_bytes = Len(Spell(queue, {"mem"})) /\ num_queued = Len(queue)
  BY DEF StreamInv, Typed, QueueAccounting
<1>2. /\ entries < MaxEntries /\ entries' = entries + 1
      /\ queue' = Append(queue, x) /\ num_queued' = num_queued + 1
      /\ total_bytes' = IF kind = "mem" THEN total_bytes + n ELSE total_bytes
      /\ accepted' = accepted \o Units(entries + 1, n)
  BY DEF Append1
<1>3. MaxEntries \in Nat /\ n \in Nat BY Numbers DEF Lengths
<1>4. entries + 1 \in Entry BY <1>1, <1>2, <1>3 DEF Entry
<1>5. x \in QueueEntry /\ x.entry = entries + 1 /\ x.kind = kind /\ x.len = n
  BY <1>4 DEF QueueEntry, Both
<1>6. Units(entries + 1, n) \in Seq(Entry) BY <1>3, <1>4 DEF Units
<1> HIDE DEF x
<1>7. <<x>> \in Seq(QueueEntry) /\ Append(queue, x) = queue \o <<x>>
  BY <1>1, <1>5, AppendIsConcat
<1>8. queue' \in Seq(QueueEntry) /\ Len(queue') = Len(queue) + 1
  BY <1>1, <1>2, <1>5, AppendProperties
<1>9. \A K : Spell(queue', K) = Spell(queue, K) \o UnitsOf(x, K)
  <2> TAKE K
  <2>1. Spell(queue \o <<x>>, K) = Spell(queue, K) \o Spell(<<x>>, K)
    BY <1>1, <1>7, SpellConcat
  <2>2. Spell(<<x>>, K) = UnitsOf(x, K) BY <1>5, SpellOne
  <2> QED BY <1>2, <1>7, <2>1, <2>2
<1>10. total_bytes' = Len(Spell(queue', {"mem"}))
  <2> DEFINE a == Spell(queue, {"mem"})
             b == UnitsOf(x, {"mem"})
  <2>1. a \in Seq(Entry) BY <1>1, SpellType
  <2>2. b \in Seq(Entry) /\ Len(b) = IF kind = "mem" THEN n ELSE 0
    <3>1. b \in Seq({x.entry}) /\ Len(b) = IF x.kind \in {"mem"} THEN x.len ELSE 0
      BY <1>5, UnitsType
    <3>2. {x.entry} \subseteq Entry BY <1>4, <1>5
    <3> HIDE DEF b
    <3> QED BY <3>1, <3>2, <1>5, SeqMonotonic
  <2>3. Spell(queue', {"mem"}) = a \o b BY <1>9
  <2> HIDE DEF a, b
  <2>4. Len(a \o b) = Len(a) + Len(b) /\ Len(a) \in Nat BY <2>1, <2>2
  <2>5. total_bytes = Len(a) BY <1>1 DEF a
  <2>6. total_bytes' = Len(a) + Len(b) BY <2>2, <2>4, <2>5, <1>2
  <2> QED BY <2>3, <2>4, <2>6
<1>11. \A base \in Seq(Entry) : base \o Remaining(queue) = accepted
                                  => base \o Remaining(queue') = accepted'
  <2> TAKE base \in Seq(Entry)
  <2> DEFINE a == Remaining(queue)
             u == Units(entries + 1, n)
  <2>1. a \in Seq(Entry) BY <1>1, SpellType DEF Remaining
  <2>2. Remaining(queue') = a \o u
    <3>1. UnitsOf(x, {"mem", "file"}) = u BY <1>5 DEF UnitsOf, Both
    <3> QED BY <3>1, <1>9 DEF Remaining
  <2> HIDE DEF a, u
  <2>3. base \o (a \o u) = (base \o a) \o u BY <2>1, <1>6, ConcatAssociative, SMTT(30) DEF u
  <2>4. accepted' = accepted \o u BY <1>2 DEF u
  <2> QED BY <2>2, <2>3, <2>4 DEF a
<1>12. accepted' \in Seq(Entry) BY <1>1, <1>2, <1>6, ConcatProperties
<1>13. entries' \in 0 .. MaxEntries /\ num_queued' = Len(queue')
  BY <1>1, <1>2, <1>3, <1>8
<1> QED BY <1>8, <1>10, <1>11, <1>12, <1>13

\* Units that go from the queue to the socket.
LEMMA SentStep ==
  ASSUME StreamInv, NEW n, Sendable(n), NEW id \in 0 .. IdSpace, ToKernel(n, id), queue' = Advance(n),
         Len(sock) + n <= SocketSpace, num_queued' = num_queued - Covered(n)
  PROVE  /\ queue' \in Seq(QueueEntry) /\ sock' \in Seq(SockUnit)
         /\ Len(sock') = Len(sock) + n /\ Len(sock') <= SocketSpace /\ num_queued' = Len(queue')
         /\ \A i \in 1 .. Len(sock) : sock'[i] = sock[i]
         /\ \A i \in 1 .. n : sock'[Len(sock) + i] = [entry |-> Sent(n)[i], id |-> id]
         /\ \A base \in Seq(Entry) : (base \o SockUnits(sock')) \o Remaining(queue')
                                       = (base \o SockUnits(sock)) \o Remaining(queue)
<1> DEFINE t == [i \in 1 .. n |-> [entry |-> Sent(n)[i], id |-> id]]
           w == Sent(n)
<1>1. queue \in Seq(QueueEntry) /\ sock \in Seq(SockUnit) /\ num_queued = Len(queue) /\ n \in Nat
      /\ Len(sock) \in Nat /\ Len(queue) \in Nat
  BY SMTT(40) DEF StreamInv, Typed, QueueAccounting, Sendable
<1>2. /\ w \in Seq(Entry) /\ Len(w) = n /\ Remaining(queue) = w \o Remaining(queue')
      /\ \A i \in 1 .. n : Remaining(queue)[i] = w[i]
  BY SentIs
<1>3. queue' \in Seq(QueueEntry) /\ Len(queue') = Len(queue) - Covered(n)
  BY CutIs, AdvanceKeeps
<1> HIDE DEF w
<1>4. sock' = sock \o t
  <2>1. sock' = sock \o [i \in 1 .. n |-> [entry |-> Remaining(queue)[i], id |-> id]]
    BY DEF ToKernel
  <2>2. [i \in 1 .. n |-> [entry |-> Remaining(queue)[i], id |-> id]] = t
    BY <1>2 DEF w
  <2> QED BY <2>1, <2>2
<1>5. t \in Seq(SockUnit) /\ Len(t) = n /\ \A i \in 1 .. n : t[i] = [entry |-> Sent(n)[i], id |-> id]
  <2>1. \A i \in 1 .. n : [entry |-> Sent(n)[i], id |-> id] \in SockUnit
    <3>1. \A i \in 1 .. n : Sent(n)[i] \in Entry BY <1>1, <1>2 DEF w
    <3> QED BY <3>1 DEF SockUnit
  <2> QED BY <2>1, <1>1
<1>6. SockUnits(t) = w
  <2>1. SockUnits(t) = [i \in 1 .. n |-> Sent(n)[i]]
    <3>1. SockUnits(t) = [i \in 1 .. Len(t) |-> t[i].entry] BY DEF SockUnits
    <3>2. \A i \in 1 .. n : t[i].entry = Sent(n)[i] BY <1>5
    <3> HIDE DEF t
    <3> QED BY <3>1, <3>2, <1>5
  <2>2. w = [i \in 1 .. Len(w) |-> w[i]] BY <1>2
  <2> QED BY <2>1, <2>2, <1>2 DEF w
<1> HIDE DEF t
<1>7. /\ sock' \in Seq(SockUnit) /\ Len(sock') = Len(sock) + n
      /\ \A i \in 1 .. Len(sock) : sock'[i] = sock[i]
      /\ \A i \in 1 .. n : sock'[Len(sock) + i] = t[i]
  <2>1. /\ sock \o t \in Seq(SockUnit) /\ Len(sock \o t) = Len(sock) + Len(t)
        /\ \A i \in 1 .. Len(sock) + Len(t) : (sock \o t)[i] = IF i <= Len(sock) THEN sock[i] ELSE t[i - Len(sock)]
    BY <1>1, <1>5, ConcatProperties
  <2>2. \A i \in 1 .. n : Len(sock) + i \in 1 .. Len(sock) + n /\ ~(Len(sock) + i <= Len(sock))
                          /\ (Len(sock) + i) - Len(sock) = i
    BY <1>1
  <2>3. \A i \in 1 .. Len(sock) : i \in 1 .. Len(sock) + n /\ i <= Len(sock)
    BY <1>1
  <2> QED BY <2>1, <2>2, <2>3, <1>4, <1>5
<1>8. \A base \in Seq(Entry) : (base \o SockUnits(sock')) \o Remaining(queue')
                                 = (base \o SockUnits(sock)) \o Remaining(queue)
  <2> TAKE base \in Seq(Entry)
  <2> DEFINE s == SockUnits(sock)
             r == Remaining(queue')
  <2>1. s \in Seq(Entry) /\ SockUnits(sock') = s \o w BY <1>1, <1>4, <1>5, <1>6, SockUnitsIs
  <2>2. r \in Seq(Entry) BY <1>3, SpellType DEF Remaining
  <2> HIDE DEF s, r
  <2>3. /\ \A a, b, c \in Seq(Entry) : (a \o b) \o c = a \o (b \o c)
        /\ \A a, b \in Seq(Entry) : a \o b \in Seq(Entry)
    BY Joined, SMTT(30)
  <2>4. (base \o (s \o w)) \o r = (base \o s) \o (w \o r)
    <3>1. base \o (s \o w) = (base \o s) \o w BY <2>1, <2>3, <1>2
    <3>2. base \o s \in Seq(Entry) BY <2>1, <2>3
    <3>3. ((base \o s) \o w) \o r = (base \o s) \o (w \o r)
      <4> DEFINE z == base \o s
      <4> HIDE DEF z
      <4>1. z \in Seq(Entry) BY <3>2 DEF z
      <4>2. (z \o w) \o r = z \o (w \o r) BY <4>1, <2>2, <2>3, <1>2, ZenonT(60)
      <4> QED BY <4>2 DEF z
    <3> QED BY <3>1, <3>3
  <2> QED BY <2>1, <2>4, <1>2 DEF s, r
<1> QED BY <1>1, <1>3, <1>5, <1>7, <1>8

-----------------------------------------------------------------------------
(* The walk along the pending list *)

\* f is what the walk kept after each of the first n pending entries.
Walks(f, n) ==
  f = [i \in 0 .. n |-> IF i = 0 THEN <<>>
                        ELSE IF Completed(pending[i]) THEN f[i - 1]
                        ELSE Append(f[i - 1], pending[i])]

LEMMA WalkDefined ==
  ASSUME NEW N \in Nat
  PROVE  \E f : Walks(f, N)
<1> DEFINE Bad == {n \in 0 .. N : ~ \E f : Walks(f, n)}
<1>1. ASSUME Bad # {}
      PROVE  FALSE
  <2>1. PICK m \in Bad : \A k \in Bad : m <= k
    <3>1. Bad \subseteq Nat
      OBVIOUS
    <3> HIDE DEF Bad
    <3> QED BY <1>1, <3>1, LeastNumber
  <2>2. CASE m = 0
    <3> DEFINE f == [i \in 0 .. 0 |-> <<>>]
    <3>1. Walks(f, 0) BY DEF Walks
    <3> QED BY <2>2, <3>1
  <2>3. CASE m # 0
    <3>1. m - 1 \in 0 .. N /\ ~(m <= m - 1) /\ m \in Nat /\ m >= 1
      BY <2>3
    <3>2. \E g : Walks(g, m - 1) BY <2>1, <3>1
    <3>3. PICK g : Walks(g, m - 1) BY <3>2
    <3> DEFINE Kept(h, i) == IF Completed(pending[i]) THEN h[i - 1] ELSE Append(h[i - 1], pending[i])
               f == [i \in 0 .. m |-> IF i < m THEN g[i] ELSE Kept(g, i)]
               h == [i \in 0 .. m |-> IF i = 0 THEN <<>> ELSE Kept(f, i)]
    <3>4. ASSUME NEW i \in 0 .. m
          PROVE  f[i] = h[i]
      <4>1. i # 0 => i - 1 \in 0 .. m /\ i - 1 < m /\ f[i - 1] = g[i - 1]
        BY <3>1
      <4>2. CASE i < m
        <5>1. i \in 0 .. m - 1 BY <3>1, <4>2
        <5>2. g[i] = IF i = 0 THEN <<>> ELSE Kept(g, i) BY <3>3, <5>1 DEF Walks
        <5> QED BY <4>1, <4>2, <5>2
      <4>3. CASE ~(i < m) BY <4>1, <4>3, <3>1
      <4> QED BY <4>2, <4>3
    <3>5. f = h BY <3>4
    <3>6. Walks(f, m) BY <3>5 DEF Walks
    <3> HIDE DEF f, h
    <3> QED BY <3>6
  <2> QED BY <2>2, <2>3
<1>2. N \notin Bad
  <2> HIDE DEF Bad
  <2> QED BY <1>1
<1> QED BY <1>2

\* Exactly the entries that are not completed stay pending.
LEMMA StillPendingIs ==
  ASSUME pending \in Seq(PendingEntry)
  PROVE  /\ StillPending \in Seq(PendingEntry) /\ Len(StillPending) <= Len(pending)
         /\ \A j \in 1 .. Len(StillPending) :
              \E i \in 1 .. Len(pending) : StillPending[j] = pending[i] /\ ~Completed(pending[i])
         /\ \A i \in 1 .. Len(pending) :
              ~Completed(pending[i]) => \E j \in 1 .. Len(StillPending) : StillPending[j] = pending[i]
<1> DEFINE n == Len(pending)
           f == CHOOSE g : Walks(g, n)
<1>0. n \in Nat /\ \A i \in 1 .. n : pending[i] \in PendingEntry
  OBVIOUS
<1>1. Walks(f, n) BY <1>0, WalkDefined
<1>2. StillPending = f[n] BY DEF StillPending, Walks
<1> DEFINE Good(i) ==
             /\ f[i] \in Seq(PendingEntry) /\ Len(f[i]) <= i
             /\ \A j \in 1 .. Len(f[i]) : \E k \in 1 .. i : f[i][j] = pending[k] /\ ~Completed(pending[k])
             /\ \A k \in 1 .. i : ~Completed(pending[k]) => \E j \in 1 .. Len(f[i]) : f[i][j] = pending[k]
<1>3. \A i \in 0 .. n : f[i] = IF i = 0 THEN <<>>
                                ELSE IF Completed(pending[i]) THEN f[i - 1]
                                ELSE Append(f[i - 1], pending[i])
  <2> HIDE DEF f
  <2> QED BY <1>1 DEF Walks
<1> HIDE DEF f, n
<1> DEFINE Bad == {i \in 0 .. n : ~Good(i)}
<1>4. ASSUME Bad # {}
      PROVE  FALSE
  <2>1. PICK m \in Bad : \A k \in Bad : m <= k
    <3>1. Bad \subseteq Nat BY <1>0
    <3> HIDE DEF Bad
    <3> QED BY <1>4, <3>1, LeastNumber
  <2>2. m \in 0 .. n /\ ~Good(m)
    OBVIOUS
  <2>3. m # 0
    <3>1. f[0] = <<>> BY <1>0, <1>3
    <3>2. Good(0) BY <3>1, EmptySeq
    <3> HIDE DEF Good
    <3> QED BY <3>2, <2>2
  <2>4. m - 1 \in 0 .. n /\ ~(m <= m - 1) /\ m \in 1 .. n /\ (m - 1) + 1 = m
    BY <1>0, <2>2, <2>3
  <2>5. Good(m - 1)
    <3> HIDE DEF Good
    <3> QED BY <2>1, <2>4
  <2> HIDE DEF Bad
  <2> DEFINE a == f[m - 1]
             b == f[m]
  <2>6. /\ a \in Seq(PendingEntry) /\ Len(a) <= m - 1 /\ Len(a) \in Nat
        /\ \A j \in 1 .. Len(a) : \E k \in 1 .. m - 1 : a[j] = pending[k] /\ ~Completed(pending[k])
        /\ \A k \in 1 .. m - 1 : ~Completed(pending[k]) => \E j \in 1 .. Len(a) : a[j] = pending[k]
    BY <2>5
  <2>7. b = IF Completed(pending[m]) THEN a ELSE Append(a, pending[m])
    BY <1>3, <2>2, <2>3
  <2>8. \A k : k \in 1 .. m <=> k \in 1 .. m - 1 \/ k = m BY <2>4, <1>0
  <2> HIDE DEF a, b
  <2>9. CASE Completed(pending[m])
    <3>1. b = a BY <2>7, <2>9
    <3>2. Good(m)
      <4>1. Len(b) <= m BY <2>4, <2>6, <3>1, <1>0
      <4> QED BY <2>6, <2>8, <2>9, <3>1, <4>1 DEF b
    <3> QED BY <3>2, <2>2
  <2>10. CASE ~Completed(pending[m])
    <3>1. b = Append(a, pending[m]) /\ pending[m] \in PendingEntry
      BY <2>4, <2>7, <2>10, <1>0
    <3>2. /\ b \in Seq(PendingEntry) /\ Len(b) = Len(a) + 1 /\ b[Len(a) + 1] = pending[m]
          /\ \A j \in 1 .. Len(a) : b[j] = a[j]
      BY <2>6, <3>1, AppendProperties
    <3>3. \A j : j \in 1 .. Len(b) <=> j \in 1 .. Len(a) \/ j = Len(a) + 1
      BY <2>6, <3>2
    <3>4. Len(b) <= m BY <2>4, <2>6, <3>2
    <3>5. \A j \in 1 .. Len(b) : \E k \in 1 .. m : b[j] = pending[k] /\ ~Completed(pending[k])
      <4> TAKE j \in 1 .. Len(b)
      <4>1. CASE j \in 1 .. Len(a) BY <4>1, <2>6, <2>8, <3>2, ZenonT(60)
      <4>2. CASE j = Len(a) + 1 BY <4>2, <2>8, <2>10, <3>2
      <4> QED BY <3>3, <4>1, <4>2
    <3>6. ASSUME NEW k \in 1 .. m, ~Completed(pending[k])
          PROVE  \E j \in 1 .. Len(b) : b[j] = pending[k]
      <4>1. CASE k \in 1 .. m - 1
        <5>1. PICK j \in 1 .. Len(a) : a[j] = pending[k] BY <4>1, <2>6, <3>6
        <5> QED BY <5>1, <3>2, <3>3
      <4>2. CASE k = m BY <4>2, <3>2, <3>3
      <4> QED BY <2>8, <4>1, <4>2
    <3>7. Good(m) BY <3>2, <3>4, <3>5, <3>6 DEF b
    <3> QED BY <3>7, <2>2
  <2> QED BY <2>9, <2>10
<1>5. Good(n)
  <2>1. n \notin Bad
    <3> HIDE DEF Bad
    <3> QED BY <1>4
  <2> HIDE DEF Good
  <2> QED BY <2>1, <1>0
<1> QED BY <1>2, <1>5 DEF n

-----------------------------------------------------------------------------
(* Every step keeps the stream whole *)

LEMMA EmptyQueues ==
  /\ <<>> \in Seq(QueueEntry) /\ <<>> \in Seq(PendingEntry) /\ <<>> \in Seq(SockUnit)
  /\ <<>> \in Seq(Report) /\ <<>> \in Seq(Entry)
  /\ Len(<<>>) = 0 /\ \A K : Spell(<<>>, K) = <<>>
<1>1. [entry |-> 1, kind |-> "mem", len |-> 1] \in QueueEntry
  <2>1. 1 \in Entry /\ 1 \in Lengths BY Numbers DEF Entry, Lengths
  <2> QED BY <2>1 DEF QueueEntry
<1>2. \A K : Spell(<<>>, K) = <<>> BY <1>1, SpellOne
<1> QED BY <1>2, EmptySeq

LEMMA StreamInit == Init => StreamInv
<1> SUFFICES ASSUME Init PROVE StreamInv
  OBVIOUS
<1>1. Typed
  <2>1. zc_enabled \in BOOLEAN BY SendQueueAssumption DEF Init
  <2>2. released \in [Entry -> Nat] BY DEF Init
  <2>3. 0 \in 0 .. (IdSpace - 1) /\ 0 \in 0 .. MaxEntries /\ 0 <= SocketSpace
    BY Numbers
  <2> QED BY <2>1, <2>2, <2>3, EmptyQueues DEF Init, Typed
<1>2. QueueAccounting BY EmptyQueues DEF Init, QueueAccounting
<1>3. StreamIntegrity
  <2>1. [i \in 1 .. Len(sock) |-> sock[i].entry] = <<>> BY DEF Init
  <2>2. Remaining(queue) = <<>> /\ received = <<>> /\ accepted = <<>>
    BY EmptyQueues DEF Init, Remaining
  <2>3. (<<>> \o <<>>) \o <<>> = <<>> BY EmptyQueues, ConcatEmptySeq
  <2> QED BY <2>1, <2>2, <2>3 DEF StreamIntegrity
<1> QED BY <1>1, <1>2, <1>3 DEF StreamInv

\* StreamIntegrity in terms of SockUnits.
LEMMA StreamIs == StreamIntegrity <=> (Alive => (received \o SockUnits(sock)) \o Remaining(queue) = accepted)
  BY DEF StreamIntegrity, SockUnits

\* What a freed connection looks like.
LEMMA FreedIs ==
  ASSUME StreamInv, NEW q, NEW p, NEW r \in [Entry -> Nat], Free(q, p, r),
         UNCHANGED <<zerocopy, zc_enabled, streaming, sock, received, accepted, entries>>,
         errqueue' \in Seq(Report)
  PROVE  StreamInv'
<1> USE DEF StreamInv
<1>1. Typed'
  <2>1. released' \in [Entry -> Nat] BY DEF Free
  <2>2. 0 \in 0 .. (IdSpace - 1) BY Numbers
  <2> QED BY <2>1, <2>2, EmptyQueues DEF Free, Typed
<1>2. QueueAccounting' BY EmptyQueues DEF Free, QueueAccounting
<1>3. StreamIntegrity' BY DEF Free, StreamIntegrity, Alive
<1> QED BY <1>1, <1>2, <1>3

\* A step that leaves queues, socket and stream alone.
LEMMA StreamKept ==
  ASSUME StreamInv, UNCHANGED <<zerocopy, zc_enabled, streaming, queue, total_bytes, num_queued, sock, received,
                                accepted, entries, next_id>>,
         released' \in [Entry -> Nat], errqueue' \in Seq(Report),
         pending' \in Seq(PendingEntry), num_pending' = Len(pending'),
         state' \in {"OPEN", "CLOSING"}, Alive, writing' \in {"no", "entered", "sent"},
         {out_armed', ready'} \subseteq BOOLEAN
  PROVE  StreamInv'
<1> USE DEF StreamInv
<1>1. Typed' BY DEF Typed
<1>2. QueueAccounting' BY DEF QueueAccounting
<1>3. StreamIntegrity' BY DEF StreamIntegrity, Alive
<1> QED BY <1>1, <1>2, <1>3

\* A step that appends an entry.
LEMMA StreamGrows ==
  ASSUME StreamInv, Alive, NEW kind \in Both, NEW n \in Lengths, Append1(kind, n),
         UNCHANGED <<zerocopy, zc_enabled, streaming, pending, num_pending, next_id, sock, errqueue, received,
                     client, released>>,
         state' \in {"OPEN", "CLOSING"}, writing' \in {"no", "entered", "sent"},
         {out_armed', ready'} \subseteq BOOLEAN
  PROVE  StreamInv'
<1>1. /\ queue' \in Seq(QueueEntry) /\ accepted' \in Seq(Entry) /\ entries' \in 0 .. MaxEntries
      /\ total_bytes' = Len(Spell(queue', {"mem"})) /\ num_queued' = Len(queue')
      /\ \A base \in Seq(Entry) : base \o Remaining(queue) = accepted
                                    => base \o Remaining(queue') = accepted'
  BY AppendedIs
<1>2. Typed' BY <1>1 DEF StreamInv, Typed
<1>3. QueueAccounting' BY <1>1 DEF StreamInv, QueueAccounting
<1>4. StreamIntegrity'
  <2> DEFINE base == received \o SockUnits(sock)
  <2>1. base \in Seq(Entry)
    <3>1. SockUnits(sock) \in Seq(Entry) /\ received \in Seq(Entry)
      BY SockUnitsIs DEF StreamInv, Typed
    <3> QED BY <3>1, Joined
  <2>2. base \o Remaining(queue) = accepted BY StreamIs DEF StreamInv
  <2> HIDE DEF base
  <2>3. base \o Remaining(queue') = accepted' BY <1>1, <2>1, <2>2
  <2>4. (received' \o [i \in 1 .. Len(sock') |-> sock'[i].entry]) \o Remaining(queue') = accepted'
    BY <2>3 DEF base, SockUnits
  <2> QED BY <2>4 DEF StreamIntegrity, Remaining
<1> QED BY <1>2, <1>3, <1>4 DEF StreamInv

\* A step that sends n units.
LEMMA StreamFlows ==
  ASSUME StreamInv, Alive, NEW n, Sendable(n), NEW id \in 0 .. IdSpace, ToKernel(n, id), queue' = Advance(n),
         Len(sock) + n <= SocketSpace, num_queued' = num_queued - Covered(n),
         total_bytes' = Len(Spell(Advance(n), {"mem"})),
         pending' \in Seq(PendingEntry), num_pending' = Len(pending'), next_id' \in 0 .. (IdSpace - 1),
         released' \in [Entry -> Nat], writing' = "sent",
         UNCHANGED <<zerocopy, zc_enabled, streaming, state, out_armed, ready, errqueue, received, accepted,
                     entries>>
  PROVE  StreamInv'
<1>1. /\ queue' \in Seq(QueueEntry) /\ sock' \in Seq(SockUnit)
      /\ Len(sock') = Len(sock) + n /\ Len(sock') <= SocketSpace /\ num_queued' = Len(queue')
      /\ \A base \in Seq(Entry) : (base \o SockUnits(sock')) \o Remaining(queue')
                                    = (base \o SockUnits(sock)) \o Remaining(queue)
  BY SentStep
<1>2. Typed' BY <1>1 DEF StreamInv, Typed, Alive
<1>3. QueueAccounting' BY <1>1 DEF QueueAccounting
<1>4. StreamIntegrity'
  <2>1. (received \o SockUnits(sock')) \o Remaining(queue') = accepted
    <3>1. (received \o SockUnits(sock)) \o Remaining(queue) = accepted /\ received \in Seq(Entry)
      BY StreamIs DEF StreamInv, Typed
    <3> QED BY <1>1, <3>1
  <2>2. (received' \o [i \in 1 .. Len(sock') |-> sock'[i].entry]) \o Remaining(queue') = accepted'
    BY <2>1 DEF SockUnits
  <2> QED BY <2>2 DEF StreamIntegrity, Remaining
<1> QED BY <1>2, <1>3, <1>4 DEF StreamInv

\* The client takes the first unit of the socket.
LEMMA ClientReadsIs ==
  ASSUME StreamInv, ClientReads
  PROVE  StreamInv' /\ Len(sock) \in Nat \ {0} /\ Len(sock') = Len(sock) - 1
         /\ \A i \in 1 .. Len(sock') : sock'[i] = sock[i + 1]
<1> DEFINE x == sock[1]
           s == SockUnits(sock)
           u == SockUnits(Tail(sock))
           w == <<x.entry>>
           r == Remaining(queue)
<1>1. sock \in Seq(SockUnit) /\ sock # <<>> /\ received \in Seq(Entry) /\ errqueue \in Seq(Report)
      /\ queue \in Seq(QueueEntry) /\ Alive /\ sock' = Tail(sock) /\ Len(sock) <= SocketSpace
  BY DEF ClientReads, StreamInv, Typed
<1>2. /\ Len(sock) \in Nat \ {0} /\ x \in SockUnit /\ Head(sock) = x
      /\ Tail(sock) \in Seq(SockUnit) /\ Len(Tail(sock)) = Len(sock) - 1
      /\ \A i \in 1 .. Len(Tail(sock)) : Tail(sock)[i] = sock[i + 1]
      /\ sock = <<x>> \o Tail(sock)
  BY <1>1, HeadTailProperties
<1>3. x.entry \in Entry /\ x.id \in 0 .. IdSpace /\ <<x>> \in Seq(SockUnit)
  BY <1>2 DEF SockUnit
<1>4. s = w \o u /\ u \in Seq(Entry)
  <2>1. SockUnits(<<x>> \o Tail(sock)) = SockUnits(<<x>>) \o SockUnits(Tail(sock))
    BY <1>2, <1>3, SockUnitsIs
  <2>2. SockUnits(<<x>>) = w BY DEF SockUnits
  <2>3. u \in Seq(Entry) BY <1>2, SockUnitsIs
  <2> HIDE DEF x
  <2> QED BY <2>1, <2>2, <2>3, <1>2
<1>5. received' = received \o w /\ received' \in Seq(Entry) /\ w \in Seq(Entry)
  <2>1. received' = Append(received, x.entry) BY <1>2 DEF ClientReads
  <2> HIDE DEF x
  <2> QED BY <2>1, <1>1, <1>3, AppendIsConcat, AppendProperties
<1>6. r \in Seq(Entry) BY <1>1, SpellType DEF Remaining
<1>7. (received \o s) \o r = accepted BY <1>1, StreamIs DEF StreamInv
<1>8. errqueue' \in Seq(Report)
  <2>1. CASE errqueue' = errqueue BY <2>1, <1>1
  <2>2. CASE x.id # NoId /\ errqueue # <<>> /\ errqueue' = [errqueue EXCEPT ![Len(errqueue)].hi = x.id]
    <3> DEFINE z == errqueue[Len(errqueue)]
    <3>1. x.id \in 0 .. (IdSpace - 1) BY <2>2, <1>3, Numbers DEF NoId
    <3>2. Len(errqueue) \in 1 .. Len(errqueue) /\ z \in Report
      BY <1>1, <2>2
    <3>3. [z EXCEPT !.hi = x.id] \in Report BY <3>1, <3>2 DEF Report
    <3>4. [errqueue EXCEPT ![Len(errqueue)].hi = x.id]
            = [errqueue EXCEPT ![Len(errqueue)] = [z EXCEPT !.hi = x.id]]
      OBVIOUS
    <3> DEFINE y == [z EXCEPT !.hi = x.id]
    <3> HIDE DEF y
    <3>5. [errqueue EXCEPT ![Len(errqueue)] = y] \in Seq(Report)
      BY <1>1, <3>2, <3>3, ExceptSeq DEF y
    <3> QED BY <3>4, <3>5, <2>2 DEF y
  <2>3. CASE x.id # NoId /\ errqueue' = Append(errqueue, [lo |-> x.id, hi |-> x.id])
    <3>1. x.id \in 0 .. (IdSpace - 1) BY <2>3, <1>3, Numbers DEF NoId
    <3>2. [lo |-> x.id, hi |-> x.id] \in Report BY <3>1 DEF Report
    <3> QED BY <3>2, <2>3, <1>1, AppendProperties
  <2> QED
    <3>1. Head(sock) = x BY <1>2
    <3> HIDE DEF x
    <3> QED BY <3>1, <2>1, <2>2, <2>3 DEF ClientReads
<1> HIDE DEF x, s, u, w, r
<1>9. (received' \o u) \o r = accepted
  <2>1. (received \o w) \o u = received \o (w \o u) BY <1>1, <1>4, <1>5, Joined, SMTT(30)
  <2> QED BY <2>1, <1>4, <1>5, <1>7
<1>10. StreamIntegrity'
  <2>1. (received' \o SockUnits(sock')) \o Remaining(queue') = accepted'
    BY <1>1, <1>9 DEF u, r, ClientReads, queueVars
  <2> QED BY <2>1 DEF StreamIntegrity, Remaining, SockUnits
<1>11. Typed'
  <2>1. ready' \in BOOLEAN BY DEF ClientReads, StreamInv, Typed, Writable
  <2>2. Len(sock') <= SocketSpace BY <1>1, <1>2, Numbers
  <2> QED BY <2>1, <2>2, <1>1, <1>2, <1>5, <1>8 DEF ClientReads, StreamInv, Typed, queueVars, pendVars
<1>12. QueueAccounting'
  BY DEF ClientReads, StreamInv, QueueAccounting, queueVars, pendVars
<1> QED BY <1>1, <1>2, <1>10, <1>11, <1>12 DEF StreamInv

\* Releases keep their type.
LEMMA ReleasedTypes ==
  ASSUME released \in [Entry -> Nat], NEW E
  PROVE  /\ ReleaseCompleted \in [Entry -> Nat]
         /\ [e \in Entry |-> released[e] + (IF e \in E THEN 1 ELSE 0)] \in [Entry -> Nat]
  BY DEF ReleaseCompleted

\* What sendmsg() sends and what it leaves to be completed.
LEMMA SendMemIs ==
  ASSUME StreamInv, NEW n \in Nat, SendMem(n)
  PROVE  /\ Sendable(n) /\ Alive /\ Touched(n) \in 0 .. IovCount
         /\ \A i \in 1 .. Touched(n) : queue[i].kind = "mem"
         /\ pending' \in Seq(PendingEntry)
         /\ zerocopy =>
              /\ Len(pending') = Len(pending) + Covered(n) /\ released' = released
              /\ \A i \in 1 .. Len(pending) : pending'[i] = pending[i]
              /\ \A i \in 1 .. Covered(n) : pending'[Len(pending) + i] = [entry |-> queue[i].entry, id |-> next_id]
         /\ ~zerocopy =>
              /\ UNCHANGED <<pending, num_pending, next_id>>
              /\ released' = [e \in Entry |-> released[e] + (IF e \in EntriesOf(Done(n)) THEN 1 ELSE 0)]
<1>1. queue \in Seq(QueueEntry) /\ pending \in Seq(PendingEntry) /\ next_id \in 0 .. (IdSpace - 1)
      /\ Len(pending) \in Nat
  BY DEF StreamInv, Typed
<1>2. IovCount \in 0 .. Len(queue) /\ \A i \in 1 .. IovCount : queue[i].kind = "mem"
  BY <1>1, IovIs
<1>3. n <= Length(SubSeq(queue, 1, IovCount)) BY DEF SendMem, Iov
<1>4. Sendable(n) /\ Touched(n) \in 0 .. IovCount BY <1>1, <1>2, <1>3, SendWithin
<1>5. Alive BY DEF SendMem, Writing, Alive, StreamInv, Typed
<1>6. \A i \in 1 .. Touched(n) : queue[i].kind = "mem" BY <1>2, <1>4
<1> DEFINE d == Done(n)
           t == [i \in 1 .. Len(d) |-> [entry |-> d[i].entry, id |-> next_id]]
<1>7. d \in Seq(QueueEntry) /\ Len(d) = Covered(n) /\ Covered(n) \in Nat /\ \A i \in 1 .. Covered(n) : d[i] = queue[i]
  BY <1>4, PartOfIs
<1> HIDE DEF d
<1>8. /\ t \in Seq(PendingEntry) /\ Len(t) = Covered(n)
      /\ \A i \in 1 .. Covered(n) : t[i] = [entry |-> queue[i].entry, id |-> next_id]
  <2>1. \A i \in 1 .. Len(d) : [entry |-> d[i].entry, id |-> next_id] \in PendingEntry
    <3>1. \A i \in 1 .. Len(d) : d[i].entry \in Entry BY <1>7, EntryFields
    <3> QED BY <3>1, <1>1 DEF PendingEntry
  <2> QED BY <2>1, <1>7
<1>9. /\ zerocopy => pending' = pending \o t /\ released' = released
      /\ ~zerocopy =>
           /\ UNCHANGED <<pending, num_pending, next_id>>
           /\ released' = [e \in Entry |-> released[e] + (IF e \in EntriesOf(d) THEN 1 ELSE 0)]
  BY DEF SendMem, d, Done, pendVars
<1> HIDE DEF t
<1>10. /\ pending \o t \in Seq(PendingEntry) /\ Len(pending \o t) = Len(pending) + Len(t)
       /\ \A i \in 1 .. Len(pending) : (pending \o t)[i] = pending[i]
       /\ \A i \in 1 .. Len(t) : (pending \o t)[Len(pending) + i] = t[i]
  <2>1. pending \in Seq(PendingEntry) /\ t \in Seq(PendingEntry)
    BY <1>1, <1>8
  <2> QED BY ONLY <2>1, Joined
<1>11. zerocopy =>
         /\ Len(pending') = Len(pending) + Covered(n) /\ released' = released
         /\ \A i \in 1 .. Len(pending) : pending'[i] = pending[i]
         /\ \A i \in 1 .. Covered(n) : pending'[Len(pending) + i] = [entry |-> queue[i].entry, id |-> next_id]
  BY <1>8, <1>9, <1>10
<1>12. pending' \in Seq(PendingEntry) BY <1>1, <1>9, <1>10 DEF StreamInv, Typed
<1> QED BY <1>4, <1>5, <1>6, <1>9, <1>11, <1>12 DEF d

LEMMA SendMemKeeps ==
  ASSUME StreamInv, NEW n \in Nat, SendMem(n)
  PROVE  StreamInv'
<1>1. /\ Sendable(n) /\ Alive /\ \A i \in 1 .. Touched(n) : queue[i].kind = "mem"
      /\ pending' \in Seq(PendingEntry)
  BY SendMemIs
<1>2. released' \in [Entry -> Nat]
  <2>1. released \in [Entry -> Nat] BY DEF StreamInv, Typed
  <2> QED BY <2>1, ReleasedTypes, SendMemIs, SMTT(30)
<1>3. num_pending' = Len(pending')
  <2>1. CASE zerocopy
    <3>1. Len(SubSeq(queue, 1, Covered(n))) = Covered(n) BY <1>1, PartOfIs DEF Done
    <3>2. num_pending' = num_pending + Covered(n) BY <2>1, <3>1 DEF SendMem
    <3> QED BY <2>1, <3>2, SendMemIs DEF StreamInv, QueueAccounting
  <2>2. CASE ~zerocopy
    BY <2>2, SendMemIs DEF StreamInv, QueueAccounting
  <2> QED BY <2>1, <2>2
<1>4. next_id' \in 0 .. (IdSpace - 1)
  <2>1. next_id \in 0 .. (IdSpace - 1) BY DEF StreamInv, Typed
  <2>2. (next_id + 1) % IdSpace \in 0 .. (IdSpace - 1) BY <2>1, Numbers
  <2> QED BY <2>1, <2>2 DEF SendMem
<1>5. total_bytes' = Len(Spell(Advance(n), {"mem"}))
  <2>1. Len(Spell(queue, {"mem"})) = n + Len(Spell(Advance(n), {"mem"}))
    BY <1>1, MemCount
  <2>2. Len(Spell(Advance(n), {"mem"})) \in Nat BY <1>1, CutIs, LengthNat
  <2>3. total_bytes' = total_bytes - n /\ total_bytes = Len(Spell(queue, {"mem"}))
    BY DEF SendMem, StreamInv, QueueAccounting
  <2> QED BY <2>1, <2>2, <2>3
<1>6. \E id \in 0 .. IdSpace : ToKernel(n, id)
  <2>1. NoId \in 0 .. IdSpace /\ next_id \in 0 .. IdSpace
    BY Numbers, SMTT(30) DEF NoId, StreamInv, Typed
  <2> QED BY <2>1 DEF SendMem
<1>7. PICK id \in 0 .. IdSpace : ToKernel(n, id) BY <1>6
<1> QED BY <1>1, <1>2, <1>3, <1>4, <1>5, <1>7, StreamFlows DEF SendMem

LEMMA SendFileKeeps ==
  ASSUME StreamInv, NEW n \in Nat, SendFile(n)
  PROVE  StreamInv' /\ Sendable(n) /\ Alive /\ Touched(n) \in 0 .. 1 /\ Covered(n) \in 0 .. 1
<1>1. queue \in Seq(QueueEntry) /\ queue # <<>> /\ Head(queue).kind = "file" /\ n <= Head(queue).len
  BY DEF StreamInv, Typed, SendFile
<1>2. /\ Sendable(n) /\ Touched(n) \in 0 .. 1 /\ Covered(n) \in 0 .. 1
      /\ Len(Spell(Advance(n), {"mem"})) = Len(Spell(queue, {"mem"}))
  BY <1>1, FileSend
<1>3. Alive
  BY DEF SendFile, Writing, Alive, StreamInv, Typed
<1>4. released' \in [Entry -> Nat]
  <2>1. released \in [Entry -> Nat] BY DEF StreamInv, Typed
  <2> DEFINE e == Head(queue).entry
  <2>2. e \in Entry
    <3>1. Head(queue) \in QueueEntry BY <1>1
    <3> QED BY <3>1, EntryFields
  <2>3. released' = released \/ released' = [released EXCEPT ![e] = @ + 1]
    BY DEF SendFile
  <2> HIDE DEF e
  <2> QED BY <2>1, <2>2, <2>3
<1>5. NoId \in 0 .. IdSpace BY Numbers DEF NoId
<1>6. total_bytes' = Len(Spell(Advance(n), {"mem"}))
  BY <1>2 DEF SendFile, StreamInv, QueueAccounting
<1>7. pending' \in Seq(PendingEntry) /\ num_pending' = Len(pending') /\ next_id' \in 0 .. (IdSpace - 1)
  BY DEF SendFile, StreamInv, Typed, QueueAccounting, pendVars
<1>8. StreamInv'
  BY <1>2, <1>3, <1>4, <1>5, <1>6, <1>7, StreamFlows DEF SendFile
<1> QED BY <1>2, <1>3, <1>8

LEMMA StreamNext ==
  ASSUME StreamInv, [Next]_vars
  PROVE  StreamInv'
<1>0. /\ released \in [Entry -> Nat] /\ errqueue \in Seq(Report) /\ pending \in Seq(PendingEntry)
      /\ num_pending = Len(pending) /\ state \in {"OPEN", "CLOSING", "FREED"}
      /\ writing \in {"no", "entered", "sent"} /\ {out_armed, ready} \subseteq BOOLEAN
      /\ Writing => Alive
      /\ Alive => state \in {"OPEN", "CLOSING"}
  BY DEF StreamInv, Typed, QueueAccounting, Writing, Alive
<1>a. Arm => {out_armed', ready'} \subseteq BOOLEAN
  BY <1>0 DEF Arm, Writable
<1>1. ASSUME NEW n \in Lengths, QueueMem(n)
      PROVE  StreamInv'
  <2>1. {out_armed', ready'} \subseteq BOOLEAN BY <1>0, <1>1, <1>a DEF QueueMem
  <2>2. "mem" \in Both BY DEF Both
  <2> QED BY <1>0, <1>1, <2>1, <2>2, StreamGrows DEF QueueMem, pendVars, kernelVars, Alive
<1>2. ASSUME NEW n \in Lengths, QueueOutputAndFlush(n)
      PROVE  StreamInv'
  <2>1. {out_armed', ready'} \subseteq BOOLEAN /\ "mem" \in Both
    BY <1>2, <1>a DEF QueueOutputAndFlush, Both
  <2>2. Alive /\ state' \in {"OPEN", "CLOSING"} BY <1>2 DEF QueueOutputAndFlush, Alive
  <2> QED BY <1>0, <1>2, <2>1, <2>2, StreamGrows DEF QueueOutputAndFlush, pendVars, kernelVars
<1>3. ASSUME NEW n \in Lengths, QueueFile(n)
      PROVE  StreamInv'
  <2>1. {out_armed', ready'} \subseteq BOOLEAN /\ "file" \in Both
    BY <1>3, <1>a DEF QueueFile, Both
  <2>2. Alive /\ state' \in {"OPEN", "CLOSING"} BY <1>3 DEF QueueFile, Alive
  <2> QED BY <1>0, <1>3, <2>1, <2>2, StreamGrows DEF QueueFile, pendVars, kernelVars
<1>4. CASE BeginDrainClose
  <2>1. {out_armed', ready'} \subseteq BOOLEAN BY <1>4, <1>a DEF BeginDrainClose
  <2>2. Alive /\ state' \in {"OPEN", "CLOSING"} BY <1>4 DEF BeginDrainClose, Alive
  <2> QED BY <1>0, <1>4, <2>1, <2>2, StreamKept DEF BeginDrainClose, pendVars, kernelVars, queueVars
<1>5. CASE CloseFromUpstream
  <2>1. Free(queue, pending, released) BY <1>5 DEF CloseFromUpstream
  <2> QED BY <1>0, <1>5, <2>1, FreedIs DEF CloseFromUpstream, kernelVars
<1>6. CASE PollEvent
  <2>1. /\ StillPending \in Seq(PendingEntry) /\ Len(StillPending) <= Len(pending)
        /\ ReleaseCompleted \in [Entry -> Nat] /\ <<>> \in Seq(Report)
    BY <1>0, StillPendingIs, ReleasedTypes, EmptyQueues
  <2>2. CASE Free(queue, StillPending, ReleaseCompleted)
    BY <1>6, <2>1, <2>2, FreedIs DEF PollEvent
  <2>3. CASE /\ pending' = StillPending
             /\ num_pending' = num_pending - (Len(pending) - Len(StillPending))
             /\ released' = ReleaseCompleted /\ ready' = FALSE
             /\ writing' \in {"entered", "no"}
             /\ UNCHANGED <<state, queueVars, next_id, out_armed>>
    <3>1. num_pending' = Len(pending')
      <4>1. Len(StillPending) \in Nat /\ Len(pending) \in Nat BY <2>1, <1>0
      <4> QED BY <4>1, <2>3, <1>0
    <3>2. Alive /\ errqueue' \in Seq(Report) /\ UNCHANGED <<zerocopy, zc_enabled, streaming, sock, received, accepted, entries>>
      BY <1>6, <2>1 DEF PollEvent
    <3>3. {out_armed', ready'} \subseteq BOOLEAN /\ state' \in {"OPEN", "CLOSING"} /\ pending' \in Seq(PendingEntry)
          /\ released' \in [Entry -> Nat] /\ writing' \in {"no", "entered", "sent"}
      BY <1>0, <2>1, <2>3, <3>2
    <3>4. UNCHANGED <<queue, total_bytes, num_queued, next_id>>
      BY <2>3 DEF queueVars
    <3> QED BY <3>1, <3>2, <3>3, <3>4, StreamKept
  <2> QED BY <1>6, <2>2, <2>3 DEF PollEvent
<1>7. ASSUME NEW n \in 1 .. SocketSpace, SendMem(n)
      PROVE  StreamInv'
  BY <1>7, SendMemKeeps
<1>8. ASSUME NEW n \in 1 .. SocketSpace, SendFile(n)
      PROVE  StreamInv'
  BY <1>8, SendFileKeeps
<1>9. CASE WriteBlocked
  BY <1>0, <1>9, StreamKept DEF WriteBlocked, pendVars, kernelVars, queueVars
<1>10. CASE WriteFailed
  BY <1>0, <1>10, FreedIs DEF WriteFailed, kernelVars
<1>11. CASE WriteClosed
  BY <1>0, <1>11, FreedIs DEF WriteClosed, kernelVars
<1>12. ASSUME NEW n \in 0 .. MaxLength, WriteIdle(n)
       PROVE  StreamInv'
  <2>1. CASE n = 0
    <3>1. {out_armed', ready'} \subseteq BOOLEAN /\ Alive /\ writing' = "no"
          /\ UNCHANGED <<zerocopy, zc_enabled, streaming, state, queue, total_bytes, num_queued, sock, received,
                         accepted, entries, next_id, released, errqueue, pending, num_pending>>
      BY <1>0, <1>12, <2>1 DEF WriteIdle, pendVars, kernelVars, queueVars
    <3> QED BY <1>0, <3>1, StreamKept
  <2>2. CASE n # 0
    <3>1. n \in Lengths /\ "mem" \in Both BY <2>2, Numbers DEF Lengths, Both
    <3>2. {out_armed', ready'} \subseteq BOOLEAN BY <1>12, <2>2, <1>a DEF WriteIdle
    <3>3. Alive /\ writing' = "no" /\ Append1("mem", n)
          /\ UNCHANGED <<zerocopy, zc_enabled, streaming, state, pending, num_pending, next_id, sock, errqueue,
                         received, client, released>>
      BY <1>0, <1>12, <2>2 DEF WriteIdle, pendVars, kernelVars
    <3> QED BY <1>0, <3>1, <3>2, <3>3, StreamGrows
  <2> QED BY <2>1, <2>2
<1>13. CASE ClientReads BY <1>13, ClientReadsIs
<1>14. CASE ClientSends \/ ClientHangsUp
  <2>1. Alive /\ ready' = TRUE /\ UNCHANGED <<zerocopy, zc_enabled, streaming, state, writing, queue, total_bytes,
              num_queued, pending, num_pending, next_id, out_armed, sock, errqueue, received, accepted,
              entries, released>>
    BY <1>14 DEF ClientSends, ClientHangsUp, queueVars, pendVars
  <2> QED BY <1>0, <2>1, StreamKept
<1>15. CASE UNCHANGED vars
  <2>1. UNCHANGED <<zerocopy, zc_enabled, streaming, state, writing, queue, total_bytes,
              num_queued, pending, num_pending, next_id, out_armed, ready, sock, errqueue, received, accepted,
              entries, released>>
    BY <1>15 DEF vars
  <2>2. Typed' BY <2>1 DEF StreamInv, Typed
  <2>3. QueueAccounting' BY <2>1 DEF StreamInv, QueueAccounting
  <2>4. StreamIntegrity' BY <2>1 DEF StreamInv, StreamIntegrity, Alive
  <2> QED BY <2>2, <2>3, <2>4 DEF StreamInv
<1> QED
  BY <1>1, <1>2, <1>3, <1>4, <1>5, <1>6, <1>7, <1>8, <1>9, <1>10, <1>11, <1>12, <1>13, <1>14, <1>15
  DEF Next, Write

\* What the client reads is what was accepted, whatever was sent in parts,
\* retried or sent by sendfile(): zerocopy_send, connection_handle_write.
THEOREM StreamIsWhole == Spec => []StreamIntegrity
<1>1. Init => StreamInv BY StreamInit
<1>2. StreamInv /\ [Next]_vars => StreamInv' BY StreamNext
<1>3. StreamInv => StreamIntegrity BY DEF StreamInv
<1> QED BY <1>1, <1>2, <1>3, PTL DEF Spec

-----------------------------------------------------------------------------
(* The invariant of the buffers: where each one is, and what the kernel    *)
(* still needs                                                             *)

Held == EntriesOf(queue) \cup EntriesOf(pending)

\* The queue is in the order of its entries, which are accepted ones.
QueueOrder ==
  /\ \A i, j \in 1 .. Len(queue) : i < j => queue[i].entry < queue[j].entry
  /\ \A i \in 1 .. Len(queue) : queue[i].entry <= entries

\* A pending entry has left the queue and waits for one send.
PendingOnce ==
  /\ \A p, q \in 1 .. Len(pending) : pending[p].entry = pending[q].entry => pending[p].id = pending[q].id
  /\ \A p \in 1 .. Len(pending) : pending[p].entry <= entries
  /\ \A p \in 1 .. Len(pending) : \A i \in 1 .. Len(queue) : pending[p].entry # queue[i].entry

\* Released are the accepted entries that are in neither list.
ReleasedExactly ==
  \A e \in Entry : released[e] = IF e <= entries /\ e \notin Held THEN 1 ELSE 0

Modes == (zc_enabled => zerocopy) /\ (~zerocopy => pending = <<>>)

\* A unit the kernel has pinned belongs to a memory entry that is still held;
\* once that entry is pending, the send it waits for is in flight behind the
\* unit; and no completion of the unit's own send was posted.
Pinned ==
  Alive => \A i \in 1 .. Len(sock) : sock[i].id # NoId =>
    /\ zc_enabled
    /\ sock[i].entry \in Held
    /\ \A j \in 1 .. Len(queue) : queue[j].entry = sock[i].entry => queue[j].kind = "mem"
    /\ \A p \in 1 .. Len(pending) :
         pending[p].entry = sock[i].entry => \E j \in i .. Len(sock) : sock[j].id = pending[p].id
    /\ \A r \in 1 .. Len(errqueue) : ~InRange(sock[i].id, errqueue[r])

BufferInv == QueueOrder /\ PendingOnce /\ ReleasedExactly /\ Modes /\ Pinned

LEMMA BufferInit == Init => BufferInv
<1> SUFFICES ASSUME Init PROVE BufferInv
  OBVIOUS
<1>1. queue = <<>> /\ pending = <<>> /\ sock = <<>> /\ entries = 0 /\ released = [e \in Entry |-> 0]
  BY DEF Init
<1>2. QueueOrder /\ PendingOnce /\ Pinned BY <1>1 DEF QueueOrder, PendingOnce, Pinned
<1>3. ReleasedExactly BY <1>1 DEF ReleasedExactly, Entry
<1>4. Modes BY <1>1 DEF Modes, Init
<1> QED BY <1>2, <1>3, <1>4 DEF BufferInv

\* Once the connection is freed nothing is held and everything is released.
LEMMA FreedBuffers ==
  ASSUME StreamInv, BufferInv, NEW p, NEW r \in [Entry -> Nat], Free(queue, p, r),
         UNCHANGED <<zerocopy, zc_enabled, entries>>,
         \A e \in Entry : r[e] + (IF e \in EntriesOf(queue) THEN 1 ELSE 0) + (IF e \in EntriesOf(p) THEN 1 ELSE 0)
                            = IF e <= entries THEN 1 ELSE 0
  PROVE  BufferInv'
<1>1. queue' = <<>> /\ pending' = <<>> /\ state' = "FREED" /\ entries' = entries
      /\ UNCHANGED <<zerocopy, zc_enabled>>
  BY DEF Free
<1>2. QueueOrder' /\ PendingOnce' /\ Pinned' /\ Modes'
  BY <1>1 DEF QueueOrder, PendingOnce, Pinned, Alive, Modes, BufferInv
<1>3. ReleasedExactly'
  <2>1. Held' = {} BY <1>1 DEF Held, EntriesOf
  <2>2. \A e \in Entry : released'[e] = IF e <= entries THEN 1 ELSE 0
    BY DEF Free
  <2> QED BY <2>1, <2>2, <1>1 DEF ReleasedExactly
<1> QED BY <1>2, <1>3 DEF BufferInv

\* The releases of the lists as they are add up to one for each entry.
LEMMA FreeNow ==
  ASSUME StreamInv, BufferInv, NEW e \in Entry
  PROVE  released[e] + (IF e \in EntriesOf(queue) THEN 1 ELSE 0) + (IF e \in EntriesOf(pending) THEN 1 ELSE 0)
           = IF e <= entries THEN 1 ELSE 0
<1>1. \A x \in EntriesOf(queue) : x <= entries /\ x \notin EntriesOf(pending)
  BY DEF EntriesOf, BufferInv, QueueOrder, PendingOnce
<1>2. \A x \in EntriesOf(pending) : x <= entries BY DEF EntriesOf, BufferInv, PendingOnce
<1>3. released[e] = IF e <= entries /\ e \notin EntriesOf(queue) /\ e \notin EntriesOf(pending) THEN 1 ELSE 0
  BY DEF BufferInv, ReleasedExactly, Held
<1> QED BY <1>1, <1>2, <1>3

\* A step that changes neither list nor the kernel's side.
LEMMA BufferKept ==
  ASSUME StreamInv, BufferInv, Alive, UNCHANGED <<zerocopy, zc_enabled, queue, pending, entries, released, sock, errqueue>>
  PROVE  BufferInv'
<1>1. QueueOrder' /\ PendingOnce' /\ Modes' BY DEF BufferInv, QueueOrder, PendingOnce, Modes
<1>2. ReleasedExactly' BY DEF BufferInv, ReleasedExactly, Held
<1>3. Pinned' BY DEF BufferInv, Pinned, Held
<1> QED BY <1>1, <1>2, <1>3 DEF BufferInv

\* A new entry is held by the queue.
LEMMA BufferAppended ==
  ASSUME StreamInv, BufferInv, Alive, NEW kind, NEW n, Append1(kind, n),
         UNCHANGED <<zerocopy, zc_enabled, pending, released, sock, errqueue>>
  PROVE  BufferInv'
<1> DEFINE x == [entry |-> entries + 1, kind |-> kind, len |-> n]
<1>1. /\ queue \in Seq(QueueEntry) /\ Len(queue) \in Nat /\ entries \in Nat /\ entries' = entries + 1
      /\ queue' = Append(queue, x) /\ x.entry = entries + 1
  BY DEF Append1, StreamInv, Typed
<1> HIDE DEF x
<1>2. /\ Len(queue') = Len(queue) + 1 /\ queue'[Len(queue) + 1] = x
      /\ \A i \in 1 .. Len(queue) : queue'[i] = queue[i]
      /\ \A i : i \in 1 .. Len(queue') <=> i \in 1 .. Len(queue) \/ i = Len(queue) + 1
  BY <1>1
<1>3. EntriesOf(queue') = EntriesOf(queue) \cup {entries + 1}
  BY <1>1, <1>2 DEF EntriesOf
<1>q. \A i \in 1 .. Len(queue) : queue[i].entry \in Nat /\ queue[i].entry <= entries
  <2>1. \A i \in 1 .. Len(queue) : queue[i].entry \in Entry
    <3>1. \A i \in 1 .. Len(queue) : queue[i] \in QueueEntry BY <1>1
    <3> QED BY <3>1, EntryFields
  <2> QED BY <2>1 DEF BufferInv, QueueOrder, Entry
<1>p. \A i \in 1 .. Len(pending) : pending[i].entry \in Nat /\ pending[i].entry <= entries
  <2>1. \A i \in 1 .. Len(pending) : pending[i].entry \in Entry
    <3>1. \A i \in 1 .. Len(pending) : pending[i] \in PendingEntry
      BY DEF StreamInv, Typed
    <3> QED BY <3>1 DEF PendingEntry
  <2> QED BY <2>1 DEF BufferInv, PendingOnce, Entry
<1>4. QueueOrder'
  <2>1. ASSUME NEW i \in 1 .. Len(queue'), NEW j \in 1 .. Len(queue'), i < j
        PROVE  queue'[i].entry < queue'[j].entry
    <3>1. i \in 1 .. Len(queue) BY <1>1, <1>2, <2>1
    <3>2. CASE j \in 1 .. Len(queue)
      BY <1>2, <2>1, <3>1, <3>2 DEF BufferInv, QueueOrder
    <3>3. CASE j = Len(queue) + 1 BY <1>1, <1>2, <1>q, <3>1, <3>3
    <3> QED BY <1>2, <3>2, <3>3
  <2>2. \A i \in 1 .. Len(queue') : queue'[i].entry <= entries'
    BY <1>1, <1>2, <1>q
  <2> QED BY <2>1, <2>2 DEF QueueOrder
<1>5. PendingOnce'
  <2>1. \A p \in 1 .. Len(pending) : pending[p].entry <= entries'
    BY <1>1, <1>p
  <2>2. \A p \in 1 .. Len(pending) : \A i \in 1 .. Len(queue') : pending[p].entry # queue'[i].entry
    <3> TAKE p \in 1 .. Len(pending)
    <3> TAKE i \in 1 .. Len(queue')
    <3>1. CASE i \in 1 .. Len(queue) BY <3>1, <1>2 DEF BufferInv, PendingOnce
    <3>2. CASE i = Len(queue) + 1 BY <3>2, <1>1, <1>2, <1>p
    <3> QED BY <3>1, <3>2, <1>2
  <2>3. \A p, q \in 1 .. Len(pending) : pending[p].entry = pending[q].entry => pending[p].id = pending[q].id
    BY DEF BufferInv, PendingOnce
  <2> QED BY <2>1, <2>2, <2>3 DEF PendingOnce
<1>6. Held' = Held \cup {entries + 1} BY <1>3 DEF Held, EntriesOf
<1>7. ReleasedExactly'
  <2>1. \A e \in Entry : released[e] = IF e <= entries /\ e \notin Held THEN 1 ELSE 0
    BY DEF BufferInv, ReleasedExactly
  <2>2. \A e \in Entry : e \in Nat BY DEF Entry
  <2>3. \A e \in Entry : released'[e] = IF e <= entries + 1 /\ e \notin Held \cup {entries + 1} THEN 1 ELSE 0
    BY <1>1, <2>1, <2>2
  <2> QED BY <1>1, <1>6, <2>3 DEF ReleasedExactly
<1>8. Pinned'
  <2> SUFFICES ASSUME NEW i \in 1 .. Len(sock), sock[i].id # NoId
               PROVE  /\ zc_enabled
                      /\ sock[i].entry \in Held'
                      /\ \A j \in 1 .. Len(queue') : queue'[j].entry = sock[i].entry => queue'[j].kind = "mem"
                      /\ \A p \in 1 .. Len(pending) :
                           pending[p].entry = sock[i].entry => \E j \in i .. Len(sock) : sock[j].id = pending[p].id
                      /\ \A r \in 1 .. Len(errqueue) : ~InRange(sock[i].id, errqueue[r])
    BY DEF Pinned
  <2>1. /\ zc_enabled /\ sock[i].entry \in Held
        /\ \A j \in 1 .. Len(queue) : queue[j].entry = sock[i].entry => queue[j].kind = "mem"
        /\ \A p \in 1 .. Len(pending) :
             pending[p].entry = sock[i].entry => \E j \in i .. Len(sock) : sock[j].id = pending[p].id
        /\ \A r \in 1 .. Len(errqueue) : ~InRange(sock[i].id, errqueue[r])
    BY DEF BufferInv, Pinned
  <2>2. sock[i].entry # entries + 1
    <3>1. \A e \in Held : e \in Nat /\ e <= entries BY <1>q, <1>p DEF Held, EntriesOf
    <3> QED BY <3>1, <2>1, <1>1
  <2>3. \A j \in 1 .. Len(queue') : queue'[j].entry = sock[i].entry => queue'[j].kind = "mem"
    BY <2>1, <2>2, <1>1, <1>2
  <2> QED BY <2>1, <2>3, <1>6
<1>9. Modes' BY DEF BufferInv, Modes
<1> QED BY <1>4, <1>5, <1>7, <1>8, <1>9 DEF BufferInv

\* Identifiers wrap.
LEMMA Wraps ==
  \A i \in 0 .. (IdSpace - 1) : (i + 1) % IdSpace = IF i + 1 < IdSpace THEN i + 1 ELSE 0
<1>1. IdSpace \in Nat \ {0} BY Numbers
<1>2. ASSUME NEW i \in 0 .. (IdSpace - 1), i + 1 < IdSpace
      PROVE  (i + 1) % IdSpace = i + 1
  BY <1>1, <1>2
<1>3. IdSpace % IdSpace = 0 BY <1>1
<1> QED BY <1>1, <1>2, <1>3

\* A completion merged into the one before it reports one more identifier.
LEMMA MergeIs ==
  ASSUME NEW z \in Report, NEW id \in 0 .. (IdSpace - 1), id = (z.hi + 1) % IdSpace, ~InRange(id, z),
         NEW v \in 0 .. (IdSpace - 1)
  PROVE  InRange(v, [z EXCEPT !.hi = id]) <=> InRange(v, z) \/ v = id
<1> DEFINE y == [z EXCEPT !.hi = id]
           l == z.lo
           h == z.hi
<1>1. l \in 0 .. (IdSpace - 1) /\ h \in 0 .. (IdSpace - 1) /\ y.lo = l /\ y.hi = id /\ IdSpace \in Nat \ {0}
  BY Numbers DEF Report
<1>2. id = IF h + 1 < IdSpace THEN h + 1 ELSE 0 BY <1>1, Wraps
<1>3. \A w : InRange(w, z) <=> IF l <= h THEN w \in l .. h ELSE w >= l \/ w <= h
  BY DEF InRange
<1>4. InRange(v, y) <=> IF l <= id THEN v \in l .. id ELSE v >= l \/ v <= id
  <2> HIDE DEF l, y
  <2> QED BY <1>1 DEF InRange
<1> HIDE DEF l, h, y
<1>5. ~(IF l <= h THEN id \in l .. h ELSE id >= l \/ id <= h)
  BY <1>3
<1>6. (IF l <= id THEN v \in l .. id ELSE v >= l \/ v <= id)
        <=> (IF l <= h THEN v \in l .. h ELSE v >= l \/ v <= h) \/ v = id
  BY <1>1, <1>2, <1>5
<1> QED BY <1>3, <1>4, <1>6 DEF y

\* What the completions report after the client has read a unit.
LEMMA ReportsAfterRead ==
  ASSUME StreamInv, ClientReads, BufferInv, NEW v \in 0 .. (IdSpace - 1)
  PROVE  LET id == sock[1].id
             finished == id # NoId /\ \A i \in 2 .. Len(sock) : sock[i].id # id
         IN  (\E r \in 1 .. Len(errqueue') : InRange(v, errqueue'[r]))
               <=> (\E r \in 1 .. Len(errqueue) : InRange(v, errqueue[r])) \/ (finished /\ v = id)
<1> DEFINE id == sock[1].id
           finished == id # NoId /\ \A i \in 2 .. Len(sock) : sock[i].id # id
           m == Len(errqueue)
<1>1. /\ sock \in Seq(SockUnit) /\ errqueue \in Seq(Report) /\ sock # <<>> /\ Alive
      /\ Len(sock) \in Nat \ {0} /\ m \in Nat /\ Head(sock) = sock[1] /\ sock[1] \in SockUnit
  BY SMTT(40) DEF StreamInv, Typed, ClientReads
<1>2. id \in 0 .. IdSpace /\ (id # NoId => id \in 0 .. (IdSpace - 1))
  <2>1. id \in 0 .. IdSpace BY <1>1 DEF SockUnit
  <2> HIDE DEF id
  <2> QED BY <2>1, Numbers DEF NoId
<1>3. id # NoId => \A r \in 1 .. m : ~InRange(id, errqueue[r])
  BY <1>1 DEF BufferInv, Pinned
<1>4. errqueue' = IF ~finished THEN errqueue
                  ELSE IF errqueue # <<>> /\ id = (Last(errqueue).hi + 1) % IdSpace
                    THEN [errqueue EXCEPT ![m].hi = id]
                    ELSE Append(errqueue, [lo |-> id, hi |-> id])
  BY <1>1 DEF ClientReads
<1>f. finished => id # NoId
  OBVIOUS
<1> HIDE DEF id, finished
<1>5. CASE ~finished BY <1>4, <1>5 DEF id, finished
<1>6. CASE finished /\ errqueue # <<>> /\ id = (Last(errqueue).hi + 1) % IdSpace
  <2> DEFINE z == errqueue[m]
             y == [z EXCEPT !.hi = id]
  <2>1. m \in 1 .. m /\ z \in Report /\ z = Last(errqueue)
    <3>1. m # 0 BY <1>1, <1>6
    <3> QED BY <3>1, <1>1 DEF Last
  <2>2. errqueue' = [errqueue EXCEPT ![m] = y]
    <3>1. errqueue' = [errqueue EXCEPT ![m].hi = id] BY <1>4, <1>6
    <3>2. [errqueue EXCEPT ![m].hi = id] = [errqueue EXCEPT ![m] = y]
      OBVIOUS
    <3> HIDE DEF y, m
    <3> QED BY <3>1, <3>2
  <2>3. InRange(v, y) <=> InRange(v, z) \/ v = id
    <3>1. id \in 0 .. (IdSpace - 1) /\ ~InRange(id, z) /\ id = (z.hi + 1) % IdSpace
      <4> HIDE DEF m
      <4> QED BY <1>2, <1>3, <1>f, <1>6, <2>1
    <3> HIDE DEF z
    <3> QED BY <2>1, <3>1, MergeIs
  <2>y. y \in Report
    <3>1. id \in 0 .. (IdSpace - 1) BY <1>2, <1>f, <1>6
    <3> HIDE DEF z
    <3> QED BY <2>1, <3>1 DEF Report
  <2> HIDE DEF y
  <2>4. Len(errqueue') = m /\ errqueue'[m] = y /\ \A r \in 1 .. m : r # m => errqueue'[r] = errqueue[r]
    <3>1. \A s \in Seq(Report) : \A i \in 1 .. Len(s) : \A e \in Report :
            /\ Len([s EXCEPT ![i] = e]) = Len(s) /\ [s EXCEPT ![i] = e][i] = e
            /\ \A r \in 1 .. Len(s) : r # i => [s EXCEPT ![i] = e][r] = s[r]
      BY ExceptSeq
    <3> QED BY <3>1, <1>1, <2>1, <2>2, <2>y
  <2>5. (\E r \in 1 .. Len(errqueue') : InRange(v, errqueue'[r]))
          <=> (\E r \in 1 .. m : InRange(v, errqueue[r])) \/ v = id
    <3> HIDE DEF m
    <3> QED BY <2>1, <2>3, <2>4
  <2> QED BY <2>5, <1>6 DEF id, finished
<1>7. CASE finished /\ ~(errqueue # <<>> /\ id = (Last(errqueue).hi + 1) % IdSpace)
  <2> DEFINE y == [lo |-> id, hi |-> id]
  <2>1. errqueue' = Append(errqueue, y) BY <1>4, <1>7
  <2>2. InRange(v, y) <=> v = id BY <1>2, <1>f, <1>7 DEF InRange
  <2> HIDE DEF y
  <2>3. /\ Len(errqueue') = m + 1 /\ errqueue'[m + 1] = y /\ \A r \in 1 .. m : errqueue'[r] = errqueue[r]
        /\ \A r : r \in 1 .. m + 1 <=> r \in 1 .. m \/ r = m + 1
    BY <2>1, <1>1
  <2>4. (\E r \in 1 .. Len(errqueue') : InRange(v, errqueue'[r]))
          <=> (\E r \in 1 .. m : InRange(v, errqueue[r])) \/ v = id
    <3> HIDE DEF m
    <3> QED BY <2>2, <2>3
  <2> QED BY <2>4, <1>7 DEF id, finished
<1> QED BY <1>5, <1>6, <1>7

LEMMA ReadKeepsBuffers ==
  ASSUME StreamInv, BufferInv, ClientReads
  PROVE  BufferInv'
<1>1. /\ Len(sock) \in Nat \ {0} /\ Len(sock') = Len(sock) - 1
      /\ \A i \in 1 .. Len(sock') : sock'[i] = sock[i + 1]
  BY ClientReadsIs
<1>2. /\ UNCHANGED <<zerocopy, zc_enabled, queue, pending, entries, released, state>> /\ Alive
      /\ sock \in Seq(SockUnit)
  BY DEF ClientReads, queueVars, pendVars, StreamInv, Typed
<1>3. QueueOrder' /\ PendingOnce' /\ Modes'
  BY <1>2 DEF BufferInv, QueueOrder, PendingOnce, Modes
<1>4. ReleasedExactly' BY <1>2 DEF BufferInv, ReleasedExactly, Held
<1>5. Pinned'
  <2> SUFFICES ASSUME NEW i \in 1 .. Len(sock'), sock'[i].id # NoId
               PROVE  /\ zc_enabled
                      /\ sock'[i].entry \in Held
                      /\ \A j \in 1 .. Len(queue) : queue[j].entry = sock'[i].entry => queue[j].kind = "mem"
                      /\ \A p \in 1 .. Len(pending) :
                           pending[p].entry = sock'[i].entry => \E j \in i .. Len(sock') : sock'[j].id = pending[p].id
                      /\ \A r \in 1 .. Len(errqueue') : ~InRange(sock'[i].id, errqueue'[r])
    BY <1>2 DEF Pinned, Held
  <2>1. i + 1 \in 2 .. Len(sock) /\ i + 1 \in 1 .. Len(sock) /\ sock'[i] = sock[i + 1] /\ i \in Nat
    BY <1>1
  <2>2. /\ zc_enabled /\ sock[i + 1].entry \in Held
        /\ \A j \in 1 .. Len(queue) : queue[j].entry = sock[i + 1].entry => queue[j].kind = "mem"
        /\ \A p \in 1 .. Len(pending) :
             pending[p].entry = sock[i + 1].entry => \E j \in i + 1 .. Len(sock) : sock[j].id = pending[p].id
        /\ \A r \in 1 .. Len(errqueue) : ~InRange(sock[i + 1].id, errqueue[r])
    BY <1>2, <2>1 DEF BufferInv, Pinned
  <2>3. ASSUME NEW p \in 1 .. Len(pending), pending[p].entry = sock'[i].entry
        PROVE  \E j \in i .. Len(sock') : sock'[j].id = pending[p].id
    <3>1. PICK j \in i + 1 .. Len(sock) : sock[j].id = pending[p].id
      BY <2>1, <2>2, <2>3
    <3>2. j - 1 \in i .. Len(sock') /\ j - 1 \in 1 .. Len(sock') /\ (j - 1) + 1 = j
      BY <1>1, <2>1
    <3> QED BY <1>1, <3>1, <3>2
  <2>4. \A r \in 1 .. Len(errqueue') : ~InRange(sock'[i].id, errqueue'[r])
    <3> DEFINE v == sock'[i].id
    <3>1. v \in 0 .. (IdSpace - 1)
      <4>1. v \in 0 .. IdSpace
        <5>1. sock[i + 1] \in SockUnit BY <1>2, <2>1
        <5> QED BY <5>1, <2>1 DEF SockUnit
      <4> HIDE DEF v
      <4>2. v # NoId BY DEF v
      <4> QED BY <4>1, <4>2, Numbers DEF NoId
    <3> DEFINE id == sock[1].id
               finished == id # NoId /\ \A k \in 2 .. Len(sock) : sock[k].id # id
    <3>2. finished => v # id BY <2>1
    <3> HIDE DEF v
    <3>3. (\E r \in 1 .. Len(errqueue') : InRange(v, errqueue'[r]))
            <=> (\E r \in 1 .. Len(errqueue) : InRange(v, errqueue[r])) \/ (finished /\ v = id)
      BY <3>1, ReportsAfterRead
    <3>4. ~ \E r \in 1 .. Len(errqueue) : InRange(v, errqueue[r])
      BY <2>1, <2>2 DEF v
    <3>5. ~ \E r \in 1 .. Len(errqueue') : InRange(v, errqueue'[r])
      <4> HIDE DEF finished, id
      <4> QED BY <3>2, <3>3, <3>4
    <3> QED BY <3>5 DEF v
  <2> QED BY <2>1, <2>2, <2>3, <2>4
<1> QED BY <1>3, <1>4, <1>5 DEF BufferInv

\* What is in the poll list of the event loop is released and unlinked.
LEMMA PollKeepsBuffers ==
  ASSUME StreamInv, BufferInv, PollEvent
  PROVE  BufferInv'
<1> DEFINE sp == StillPending
           rc == ReleaseCompleted
           cp == {e \in Entry : \E j \in 1 .. Len(pending) : pending[j].entry = e /\ Completed(pending[j])}
<1>1. /\ pending \in Seq(PendingEntry) /\ Alive /\ UNCHANGED <<zerocopy, zc_enabled, sock, entries>>
      /\ errqueue' = <<>> /\ released \in [Entry -> Nat] /\ queue \in Seq(QueueEntry)
  BY DEF StreamInv, Typed, PollEvent
<1>2. /\ \A j \in 1 .. Len(sp) : \E i \in 1 .. Len(pending) : sp[j] = pending[i] /\ ~Completed(pending[i])
      /\ \A i \in 1 .. Len(pending) : ~Completed(pending[i]) => \E j \in 1 .. Len(sp) : sp[j] = pending[i]
      /\ sp \in Seq(PendingEntry)
  BY <1>1, StillPendingIs
<1>3. rc = [e \in Entry |-> released[e] + (IF e \in cp THEN 1 ELSE 0)] /\ rc \in [Entry -> Nat]
  <2>1. rc = [e \in Entry |-> released[e] + (IF e \in cp THEN 1 ELSE 0)]
    BY DEF ReleaseCompleted
  <2> QED BY <2>1, <1>1, ReleasedTypes
<1>4. PICK free \in BOOLEAN :
        /\ free => Free(queue, sp, rc)
        /\ ~free => UNCHANGED <<state, queue>> /\ pending' = sp /\ released' = rc
  <2>1. Free(queue, sp, rc) \/ (UNCHANGED <<state, queue>> /\ pending' = sp /\ released' = rc)
    BY DEF PollEvent, queueVars
  <2> HIDE DEF sp, rc
  <2> QED BY <2>1
<1>e. \A i \in 1 .. Len(pending) : pending[i].entry \in Entry
  <2>1. \A x \in PendingEntry : x.entry \in Entry BY DEF PendingEntry
  <2> QED BY <2>1, <1>1
<1> HIDE DEF sp, rc
<1>c. \A e \in Entry : e \in cp <=> \E j \in 1 .. Len(pending) : pending[j].entry = e /\ Completed(pending[j])
  OBVIOUS
<1> HIDE DEF cp
<1>5. \A e \in Entry : e \in EntriesOf(sp) <=> e \in EntriesOf(pending) /\ e \notin cp
  <2> TAKE e \in Entry
  <2>1. ASSUME e \in EntriesOf(sp)
        PROVE  e \in EntriesOf(pending) /\ e \notin cp
    <3>1. PICK j \in 1 .. Len(sp) : e = sp[j].entry BY <2>1 DEF EntriesOf
    <3>2. PICK i \in 1 .. Len(pending) : sp[j] = pending[i] /\ ~Completed(pending[i])
      BY <1>2, <3>1
    <3>3. e \in EntriesOf(pending) BY <3>1, <3>2 DEF EntriesOf
    <3>4. ASSUME NEW k \in 1 .. Len(pending), pending[k].entry = e, Completed(pending[k])
          PROVE  FALSE
      <4>1. pending[k].id = pending[i].id BY <3>1, <3>2, <3>4 DEF BufferInv, PendingOnce
      <4> QED BY <4>1, <3>2, <3>4 DEF Completed
    <3> QED BY <3>3, <3>4, <1>c
  <2>2. ASSUME e \in EntriesOf(pending), e \notin cp
        PROVE  e \in EntriesOf(sp)
    <3>1. PICK i \in 1 .. Len(pending) : e = pending[i].entry
      BY <2>2 DEF EntriesOf
    <3>2. ~Completed(pending[i]) BY <2>2, <3>1, <1>c
    <3>3. PICK j \in 1 .. Len(sp) : sp[j] = pending[i] BY <1>2, <3>2
    <3> QED BY <3>1, <3>3 DEF EntriesOf
  <2> QED BY <2>1, <2>2
<1>6. cp \subseteq EntriesOf(pending)
  <2>1. \A e \in cp : e \in Entry BY DEF cp
  <2> QED BY <2>1, <1>c DEF EntriesOf
<1>7. \A e \in Entry :
        rc[e] + (IF e \in EntriesOf(queue) THEN 1 ELSE 0) + (IF e \in EntriesOf(sp) THEN 1 ELSE 0)
          = IF e <= entries THEN 1 ELSE 0
  <2> TAKE e \in Entry
  <2>1. released[e] + (IF e \in EntriesOf(queue) THEN 1 ELSE 0) + (IF e \in EntriesOf(pending) THEN 1 ELSE 0)
          = IF e <= entries THEN 1 ELSE 0
    BY FreeNow
  <2>2. rc[e] = released[e] + (IF e \in cp THEN 1 ELSE 0) /\ released[e] \in Nat
    BY <1>1, <1>3
  <2>3. (IF e \in cp THEN 1 ELSE 0) + (IF e \in EntriesOf(sp) THEN 1 ELSE 0)
          = IF e \in EntriesOf(pending) THEN 1 ELSE 0
    BY <1>5, <1>6
  <2> QED BY <2>1, <2>2, <2>3
<1>8. CASE free BY <1>1, <1>3, <1>4, <1>7, <1>8, FreedBuffers
<1>9. CASE ~free
  <2>1. UNCHANGED <<state, queue>> /\ pending' = sp /\ released' = rc
    BY <1>4, <1>9
  <2>2. QueueOrder' /\ Modes'
    <3>1. ~zerocopy => pending' = <<>>
      <4> SUFFICES ASSUME ~zerocopy PROVE sp = <<>>
        BY <2>1
      <4>1. pending = <<>> BY DEF BufferInv, Modes
      <4>2. \A j \in 1 .. Len(sp) : FALSE BY <1>2, <4>1
      <4>3. Len(sp) \in Nat BY <1>2
      <4> QED BY <4>2, <4>3, <1>2, EmptySeq
    <3> QED BY <1>1, <2>1, <3>1 DEF BufferInv, QueueOrder, Modes
  <2>3. PendingOnce'
    <3>1. /\ \A p, q \in 1 .. Len(sp) : sp[p].entry = sp[q].entry => sp[p].id = sp[q].id
          /\ \A p \in 1 .. Len(sp) : sp[p].entry <= entries
          /\ \A p \in 1 .. Len(sp) : \A i \in 1 .. Len(queue) : sp[p].entry # queue[i].entry
      <4>1. \A p \in 1 .. Len(sp) : \E k \in 1 .. Len(pending) : sp[p] = pending[k]
        BY <1>2
      <4>2. ASSUME NEW p \in 1 .. Len(sp), NEW q \in 1 .. Len(sp), sp[p].entry = sp[q].entry
            PROVE  sp[p].id = sp[q].id
        <5>1. PICK k \in 1 .. Len(pending) : sp[p] = pending[k] BY <4>1
        <5>2. PICK l \in 1 .. Len(pending) : sp[q] = pending[l] BY <4>1
        <5> QED BY <4>2, <5>1, <5>2 DEF BufferInv, PendingOnce
      <4>3. ASSUME NEW p \in 1 .. Len(sp)
            PROVE  sp[p].entry <= entries /\ \A i \in 1 .. Len(queue) : sp[p].entry # queue[i].entry
        <5>1. PICK k \in 1 .. Len(pending) : sp[p] = pending[k] BY <4>1
        <5> QED BY <5>1 DEF BufferInv, PendingOnce
      <4> QED BY <4>2, <4>3
    <3> QED BY <1>1, <2>1, <3>1 DEF PendingOnce
  <2>h. Held' = EntriesOf(queue) \cup EntriesOf(sp)
    BY <2>1 DEF Held
  <2>4. ReleasedExactly'
    <3>1. ASSUME NEW e \in Entry
          PROVE  rc[e] = IF e <= entries /\ e \notin EntriesOf(queue) /\ e \notin EntriesOf(sp) THEN 1 ELSE 0
      <4>1. rc[e] + (IF e \in EntriesOf(queue) THEN 1 ELSE 0) + (IF e \in EntriesOf(sp) THEN 1 ELSE 0)
              = IF e <= entries THEN 1 ELSE 0
        BY <1>7
      <4>2. rc[e] \in Nat BY <1>3
      <4> QED BY <4>1, <4>2
    <3> QED BY <1>1, <2>1, <2>h, <3>1 DEF ReleasedExactly, Held
  <2>5. Pinned'
    <3> SUFFICES ASSUME NEW i \in 1 .. Len(sock), sock[i].id # NoId
                 PROVE  /\ zc_enabled
                        /\ sock[i].entry \in EntriesOf(queue) \cup EntriesOf(sp)
                        /\ \A j \in 1 .. Len(queue) : queue[j].entry = sock[i].entry => queue[j].kind = "mem"
                        /\ \A p \in 1 .. Len(sp) :
                             sp[p].entry = sock[i].entry => \E j \in i .. Len(sock) : sock[j].id = sp[p].id
      BY <1>1, <2>1, <2>h, SMTT(30) DEF Pinned
    <3>1. /\ zc_enabled /\ sock[i].entry \in Held
          /\ \A j \in 1 .. Len(queue) : queue[j].entry = sock[i].entry => queue[j].kind = "mem"
          /\ \A p \in 1 .. Len(pending) :
               pending[p].entry = sock[i].entry => \E j \in i .. Len(sock) : sock[j].id = pending[p].id
          /\ \A r \in 1 .. Len(errqueue) : ~InRange(sock[i].id, errqueue[r])
      BY <1>1 DEF BufferInv, Pinned
    <3>2. ASSUME NEW k \in 1 .. Len(pending), pending[k].entry = sock[i].entry, Completed(pending[k])
          PROVE  FALSE
      <4>1. PICK j \in i .. Len(sock) : sock[j].id = pending[k].id
        BY <3>1, <3>2
      <4>2. j \in 1 .. Len(sock) /\ sock[j].id # NoId
        <5>1. j \in 1 .. Len(sock)
          OBVIOUS
        <5>2. pending[k].id \in 0 .. (IdSpace - 1)
          <6>1. \A x \in PendingEntry : x.id \in 0 .. (IdSpace - 1)
            BY DEF PendingEntry
          <6> QED BY <6>1, <1>1
        <5> QED BY <5>1, <5>2, <4>1, Numbers DEF NoId
      <4>3. \A r \in 1 .. Len(errqueue) : ~InRange(sock[j].id, errqueue[r])
        BY <1>1, <4>2 DEF BufferInv, Pinned
      <4> QED BY <4>1, <4>3, <3>2 DEF Completed
    <3>3. sock[i].entry \in EntriesOf(queue) \cup EntriesOf(sp)
      <4>1. CASE sock[i].entry \in EntriesOf(queue) BY <4>1
      <4>2. CASE sock[i].entry \in EntriesOf(pending)
        <5>1. sock[i].entry \in Entry BY <4>2, <1>e DEF EntriesOf
        <5>2. sock[i].entry \notin cp BY <5>1, <3>2, <1>c
        <5> QED BY <4>2, <5>1, <5>2, <1>5
      <4> QED BY <3>1, <4>1, <4>2 DEF Held
    <3>4. \A p \in 1 .. Len(sp) :
            sp[p].entry = sock[i].entry => \E j \in i .. Len(sock) : sock[j].id = sp[p].id
      <4> TAKE p \in 1 .. Len(sp)
      <4>1. PICK l \in 1 .. Len(pending) : sp[p] = pending[l] BY <1>2
      <4> QED BY <3>1, <4>1
    <3> QED BY <3>1, <3>3, <3>4
  <2> QED BY <2>2, <2>3, <2>4, <2>5 DEF BufferInv
<1> QED BY <1>8, <1>9

\* What stays in the queue after a send.
LEMMA AdvanceOrder ==
  ASSUME NEW n, Sendable(n), QueueOrder, queue' = Advance(n), entries' = entries
  PROVE  /\ QueueOrder'
         /\ \A i \in 1 .. Len(queue') : /\ queue'[i].entry = queue[Covered(n) + i].entry
                                         /\ queue'[i].kind = queue[Covered(n) + i].kind
                                         /\ Covered(n) + i \in 1 .. Len(queue)
         /\ EntriesOf(queue) = EntriesOf(Done(n)) \cup EntriesOf(queue')
         /\ \A i \in 1 .. Covered(n) : \A j \in 1 .. Len(queue') : queue[i].entry # queue'[j].entry
<1> DEFINE k == Covered(n)
           d == Done(n)
           m == Len(queue)
<1>1. /\ k \in 0 .. m /\ m \in Nat /\ d \in Seq(QueueEntry) /\ Len(d) = k /\ \A i \in 1 .. k : d[i] = queue[i]
  BY PartOfIs
<1>2. /\ Len(queue') = m - k
      /\ \A i \in 1 .. m - k : queue'[i].entry = queue[k + i].entry /\ queue'[i].kind = queue[k + i].kind
  BY AdvanceKeeps
<1>3. /\ \A i, j \in 1 .. m : i < j => queue[i].entry < queue[j].entry
      /\ \A i \in 1 .. m : queue[i].entry <= entries
  BY DEF QueueOrder
<1>0. \A i \in 1 .. m : queue[i].entry \in Nat
  <2>1. \A i \in 1 .. m : queue[i] \in QueueEntry BY DEF Sendable
  <2> QED BY <2>1, EntryFields DEF Entry
<1> HIDE DEF k, d, m
<1>4. \A i \in 1 .. m - k : k + i \in 1 .. m BY <1>1
<1>5. QueueOrder'
  <2>1. \A i, j \in 1 .. m - k : i < j => queue'[i].entry < queue'[j].entry
    <3> TAKE i, j \in 1 .. m - k
    <3> SUFFICES ASSUME i < j PROVE queue'[i].entry < queue'[j].entry
      OBVIOUS
    <3>1. k + i \in 1 .. m /\ k + j \in 1 .. m /\ k + i < k + j
      BY <1>1
    <3> QED BY <3>1, <1>2, <1>3
  <2>2. \A i \in 1 .. m - k : queue'[i].entry <= entries BY <1>2, <1>3, <1>4
  <2> QED BY <1>2, <2>1, <2>2 DEF QueueOrder
<1>6. \A i \in 1 .. k : \A j \in 1 .. m - k : queue[i].entry # queue'[j].entry
  <2> TAKE i \in 1 .. k
  <2> TAKE j \in 1 .. m - k
  <2>1. i \in 1 .. m /\ k + j \in 1 .. m /\ i < k + j BY <1>1
  <2>2. queue[i].entry < queue[k + j].entry BY <2>1, <1>3
  <2> QED BY <2>1, <2>2, <1>2, <1>0
<1>7. EntriesOf(queue) = EntriesOf(d) \cup EntriesOf(queue')
  <2>1. EntriesOf(queue) = {queue[i].entry : i \in 1 .. m} BY DEF EntriesOf, m
  <2>2. EntriesOf(d) = {queue[i].entry : i \in 1 .. k} BY <1>1 DEF EntriesOf
  <2>3. EntriesOf(queue') = {queue[k + i].entry : i \in 1 .. m - k}
    BY <1>2 DEF EntriesOf
  <2>4. \A i \in 1 .. m : i \in 1 .. k \/ \E j \in 1 .. m - k : i = k + j
    <3> TAKE i \in 1 .. m
    <3>1. i \notin 1 .. k => i - k \in 1 .. m - k /\ i = k + (i - k)
      BY <1>1
    <3> QED BY <3>1
  <2>5. \A i \in 1 .. k : i \in 1 .. m BY <1>1
  <2> QED BY <2>1, <2>2, <2>3, <2>4, <2>5, <1>4
<1> QED BY <1>2, <1>4, <1>5, <1>6, <1>7 DEF k, d, m

\* Entries that leave the queue and are released at once.
LEMMA ReleasedAtOnce ==
  ASSUME StreamInv, BufferInv, NEW n, Sendable(n), queue' = Advance(n), UNCHANGED <<pending, entries>>,
         released' = [e \in Entry |-> released[e] + (IF e \in EntriesOf(Done(n)) THEN 1 ELSE 0)]
  PROVE  PendingOnce' /\ ReleasedExactly' /\ Held = EntriesOf(Done(n)) \cup Held'
<1> DEFINE d == Done(n)
           k == Covered(n)
<1>1. /\ \A i \in 1 .. Len(queue') : queue'[i].entry = queue[k + i].entry /\ k + i \in 1 .. Len(queue)
      /\ EntriesOf(queue) = EntriesOf(d) \cup EntriesOf(queue')
      /\ \A i \in 1 .. k : \A j \in 1 .. Len(queue') : queue[i].entry # queue'[j].entry
  BY AdvanceOrder DEF BufferInv
<1>2. /\ Len(d) = k /\ k \in Nat /\ \A i \in 1 .. k : d[i] = queue[i] /\ i \in 1 .. Len(queue)
  BY PartOfIs
<1> HIDE DEF d, k
<1>3. PendingOnce' BY <1>1 DEF BufferInv, PendingOnce
<1>4. Held = EntriesOf(d) \cup Held'
  <2>1. Held' = EntriesOf(queue') \cup EntriesOf(pending) BY DEF Held
  <2> QED BY <2>1, <1>1 DEF Held
<1>5. \A e \in EntriesOf(d) : e \notin EntriesOf(queue') /\ e \notin EntriesOf(pending) /\ e <= entries
  <2> TAKE e \in EntriesOf(d)
  <2>1. PICK i \in 1 .. k : e = queue[i].entry /\ i \in 1 .. Len(queue)
    BY <1>2 DEF EntriesOf
  <2>2. e \notin EntriesOf(queue') BY <2>1, <1>1 DEF EntriesOf
  <2>3. e \notin EntriesOf(pending) BY <2>1 DEF EntriesOf, BufferInv, PendingOnce
  <2> QED BY <2>1, <2>2, <2>3 DEF BufferInv, QueueOrder
<1>6. ReleasedExactly'
  <2>1. Held' = EntriesOf(queue') \cup EntriesOf(pending) BY DEF Held
  <2>2. ASSUME NEW e \in Entry
        PROVE  released'[e] = IF e <= entries /\ e \notin EntriesOf(queue') /\ e \notin EntriesOf(pending) THEN 1 ELSE 0
    <3>1. released[e] = IF e <= entries /\ e \notin Held THEN 1 ELSE 0
      BY DEF BufferInv, ReleasedExactly
    <3>2. released'[e] = released[e] + (IF e \in EntriesOf(d) THEN 1 ELSE 0)
      BY DEF d
    <3>3. CASE e \in EntriesOf(d) BY <3>1, <3>2, <3>3, <1>4, <1>5
    <3>4. CASE e \notin EntriesOf(d) BY <3>1, <3>2, <3>4, <1>4, <2>1
    <3> QED BY <3>3, <3>4
  <2> QED BY <2>1, <2>2 DEF ReleasedExactly
<1> QED BY <1>3, <1>4, <1>6 DEF d

LEMMA SendFileBuffers ==
  ASSUME StreamInv, BufferInv, NEW n \in Nat, SendFile(n)
  PROVE  BufferInv'
<1>1. Sendable(n) /\ Alive /\ Touched(n) \in 0 .. 1 /\ Covered(n) \in 0 .. 1
  BY SendFileKeeps
<1> DEFINE d == Done(n)
<1>2. /\ Len(d) = Covered(n) /\ \A i \in 1 .. Covered(n) : d[i] = queue[i]
      /\ queue \in Seq(QueueEntry) /\ queue # <<>> /\ Head(queue) = queue[1] /\ queue[1].kind = "file"
      /\ 1 \in 1 .. Len(queue)
  <2>1. queue \in Seq(QueueEntry) /\ queue # <<>> /\ Head(queue).kind = "file"
    BY DEF SendFile, StreamInv, Typed
  <2> HIDE DEF d
  <2>2. Head(queue) = queue[1] /\ 1 \in 1 .. Len(queue) BY <2>1
  <2> QED BY <1>1, <2>1, <2>2, PartOfIs DEF d
<1>3. /\ queue' = Advance(n) /\ ToKernel(n, NoId)
      /\ UNCHANGED <<zerocopy, zc_enabled, state, pending, entries, errqueue>>
      /\ Len(sock) + n <= SocketSpace /\ num_queued' = num_queued - Covered(n)
  BY DEF SendFile, pendVars
<1> HIDE DEF d
<1>4. \A e : e \in EntriesOf(d) <=> Covered(n) = 1 /\ e = queue[1].entry
  <2>1. Covered(n) = 0 \/ Covered(n) = 1 BY <1>1
  <2> QED BY <1>2, <2>1 DEF EntriesOf
<1>5. released' = [e \in Entry |-> released[e] + (IF e \in EntriesOf(d) THEN 1 ELSE 0)]
  <2>1. released \in [Entry -> Nat] BY DEF StreamInv, Typed
  <2> DEFINE f == [e \in Entry |-> released[e] + (IF e \in EntriesOf(d) THEN 1 ELSE 0)]
             h == queue[1].entry
  <2>2. h \in Entry
    <3>1. queue[1] \in QueueEntry BY <1>2
    <3> QED BY <3>1, EntryFields
  <2>3. released' = IF Covered(n) = 1 THEN [released EXCEPT ![h] = @ + 1] ELSE released
    BY <1>2 DEF SendFile
  <2>4. \A e : e \in EntriesOf(d) <=> Covered(n) = 1 /\ e = h
    BY <1>4
  <2> HIDE DEF h
  <2>5. \A e \in Entry : f[e] = IF Covered(n) = 1 /\ e = h THEN released[e] + 1 ELSE released[e]
    BY <2>1, <2>4
  <2>6. \A e \in Entry : released'[e] = f[e] BY <2>1, <2>3, <2>5
  <2>7. released' \in [Entry -> Nat] BY <2>1, <2>2, <2>3
  <2> QED BY <2>6, <2>7
<1>6. PendingOnce' /\ ReleasedExactly' /\ Held = EntriesOf(d) \cup Held'
  BY <1>1, <1>3, <1>5, ReleasedAtOnce DEF d
<1>7. QueueOrder' /\ \A j \in 1 .. Len(queue') :
        queue'[j].entry = queue[Covered(n) + j].entry /\ queue'[j].kind = queue[Covered(n) + j].kind
        /\ Covered(n) + j \in 1 .. Len(queue)
  BY <1>1, <1>3, AdvanceOrder DEF BufferInv
<1>8. /\ Len(sock') = Len(sock) + n /\ Len(sock) \in Nat
      /\ \A i \in 1 .. Len(sock) : sock'[i] = sock[i]
      /\ \A i \in 1 .. n : sock'[Len(sock) + i].id = NoId
  <2>1. NoId \in 0 .. IdSpace BY Numbers DEF NoId
  <2>2. /\ Len(sock') = Len(sock) + n /\ \A i \in 1 .. Len(sock) : sock'[i] = sock[i]
        /\ \A i \in 1 .. n : sock'[Len(sock) + i] = [entry |-> Sent(n)[i], id |-> NoId]
    BY <1>1, <1>3, <2>1, SentStep
  <2>3. Len(sock) \in Nat BY DEF StreamInv, Typed
  <2>4. ASSUME NEW i \in 1 .. n
        PROVE  sock'[Len(sock) + i].id = NoId
    <3>1. sock'[Len(sock) + i] = [entry |-> Sent(n)[i], id |-> NoId]
      BY <2>2
    <3> QED BY <3>1
  <2> QED BY <2>2, <2>3, <2>4
<1>9. Pinned'
  <2> SUFFICES ASSUME NEW i \in 1 .. Len(sock'), sock'[i].id # NoId
               PROVE  /\ zc_enabled
                      /\ sock'[i].entry \in Held'
                      /\ \A j \in 1 .. Len(queue') : queue'[j].entry = sock'[i].entry => queue'[j].kind = "mem"
                      /\ \A p \in 1 .. Len(pending) :
                           pending[p].entry = sock'[i].entry => \E j \in i .. Len(sock') : sock'[j].id = pending[p].id
                      /\ \A r \in 1 .. Len(errqueue) : ~InRange(sock'[i].id, errqueue[r])
    BY <1>3 DEF Pinned
  <2>1. i \in 1 .. Len(sock) /\ sock'[i] = sock[i]
    <3>1. ASSUME i \notin 1 .. Len(sock)
          PROVE  FALSE
      <4>1. i - Len(sock) \in 1 .. n /\ i = Len(sock) + (i - Len(sock))
        BY <3>1, <1>8
      <4> QED BY <4>1, <1>8
    <3> QED BY <3>1, <1>8
  <2>2. /\ zc_enabled /\ sock[i].entry \in Held
        /\ \A j \in 1 .. Len(queue) : queue[j].entry = sock[i].entry => queue[j].kind = "mem"
        /\ \A p \in 1 .. Len(pending) :
             pending[p].entry = sock[i].entry => \E j \in i .. Len(sock) : sock[j].id = pending[p].id
        /\ \A r \in 1 .. Len(errqueue) : ~InRange(sock[i].id, errqueue[r])
    BY <1>1, <2>1 DEF BufferInv, Pinned
  <2>3. sock[i].entry \in Held'
    <3>1. sock[i].entry \notin EntriesOf(d) BY <1>2, <1>4, <2>2
    <3> QED BY <3>1, <2>2, <1>6
  <2>4. \A p \in 1 .. Len(pending) :
          pending[p].entry = sock[i].entry => \E j \in i .. Len(sock') : sock'[j].id = pending[p].id
    <3> TAKE p \in 1 .. Len(pending)
    <3> SUFFICES ASSUME pending[p].entry = sock[i].entry
                 PROVE  \E j \in i .. Len(sock') : sock'[j].id = pending[p].id
      OBVIOUS
    <3>1. PICK j \in i .. Len(sock) : sock[j].id = pending[p].id
      BY <2>2
    <3>2. j \in i .. Len(sock') /\ j \in 1 .. Len(sock) BY <1>8, <2>1
    <3> QED BY <3>1, <3>2, <1>8
  <2>5. \A j \in 1 .. Len(queue') : queue'[j].entry = sock[i].entry => queue'[j].kind = "mem"
    BY <2>2, <1>7
  <2> QED BY <2>1, <2>2, <2>3, <2>4, <2>5
<1>10. Modes' BY <1>3 DEF BufferInv, Modes
<1> QED BY <1>6, <1>7, <1>9, <1>10 DEF BufferInv

LEMMA SendMemBuffers ==
  ASSUME StreamInv, BufferInv, NEW n \in Nat \ {0}, SendMem(n)
  PROVE  BufferInv'
<1> DEFINE d == Done(n)
           k == Covered(n)
           id == IF zerocopy /\ zc_enabled THEN next_id ELSE NoId
<1>1. /\ Sendable(n) /\ Alive /\ \A i \in 1 .. Touched(n) : queue[i].kind = "mem"
      /\ zerocopy =>
           /\ Len(pending') = Len(pending) + k /\ released' = released
           /\ \A i \in 1 .. Len(pending) : pending'[i] = pending[i]
           /\ \A i \in 1 .. k : pending'[Len(pending) + i] = [entry |-> queue[i].entry, id |-> next_id]
      /\ ~zerocopy =>
           /\ pending' = pending
           /\ released' = [e \in Entry |-> released[e] + (IF e \in EntriesOf(d) THEN 1 ELSE 0)]
  BY SendMemIs
<1>2. /\ queue' = Advance(n) /\ ToKernel(n, id) /\ UNCHANGED <<zerocopy, zc_enabled, state, entries, errqueue>>
      /\ Len(sock) + n <= SocketSpace /\ num_queued' = num_queued - k
      /\ zc_enabled => ~Unreported(next_id)
  BY DEF SendMem, BufferInv, Modes
<1>3. /\ Len(d) = k /\ k \in Nat /\ k <= Len(queue) /\ \A i \in 1 .. k : d[i] = queue[i] /\ i \in 1 .. Len(queue)
      /\ Touched(n) \in 0 .. Len(queue) /\ k <= Touched(n)
      /\ \A i \in 1 .. n : \E j \in 1 .. Touched(n) : Sent(n)[i] = queue[j].entry
      /\ Len(queue) \in Nat
  BY <1>1, PartOfIs, SentUnits
<1>4. id \in 0 .. IdSpace /\ next_id \in 0 .. (IdSpace - 1) /\ next_id # NoId
      /\ Len(sock) \in Nat /\ Len(pending) \in Nat
  <2>1. next_id \in 0 .. (IdSpace - 1) /\ Len(sock) \in Nat /\ Len(pending) \in Nat
    BY DEF StreamInv, Typed
  <2> QED BY <2>1, Numbers DEF NoId
<1>5. /\ Len(sock') = Len(sock) + n
      /\ \A i \in 1 .. Len(sock) : sock'[i] = sock[i]
      /\ \A i \in 1 .. n : sock'[Len(sock) + i] = [entry |-> Sent(n)[i], id |-> id]
  <2> HIDE DEF id, k
  <2> QED BY <1>1, <1>2, <1>4, SentStep DEF k
<1>6. /\ QueueOrder'
      /\ \A i \in 1 .. Len(queue') : /\ queue'[i].entry = queue[k + i].entry /\ queue'[i].kind = queue[k + i].kind
                                      /\ k + i \in 1 .. Len(queue)
      /\ EntriesOf(queue) = EntriesOf(d) \cup EntriesOf(queue')
      /\ \A i \in 1 .. k : \A j \in 1 .. Len(queue') : queue[i].entry # queue'[j].entry
  BY <1>1, <1>2, AdvanceOrder DEF BufferInv
<1>i. id # NoId => zerocopy /\ zc_enabled /\ id = next_id
  OBVIOUS
<1>j. zc_enabled => zerocopy /\ id = next_id
  BY DEF BufferInv, Modes
<1> HIDE DEF d, k, id
<1>n. ASSUME NEW i \in 1 .. Len(sock'), i \notin 1 .. Len(sock)
      PROVE  sock'[i].id = id /\ \E m \in 1 .. n : sock'[i].entry = Sent(n)[m]
  <2>1. i - Len(sock) \in 1 .. n /\ i = Len(sock) + (i - Len(sock))
    BY <1>n, <1>4, <1>5
  <2>2. PICK m \in 1 .. n : i = Len(sock) + m BY <2>1
  <2>3. sock'[Len(sock) + m] = [entry |-> Sent(n)[m], id |-> id]
    BY <1>5
  <2>4. sock'[i] = [entry |-> Sent(n)[m], id |-> id] BY <2>2, <2>3
  <2> QED BY <2>4
<1>7. CASE ~zerocopy
  <2>1. PendingOnce' /\ ReleasedExactly' BY <1>1, <1>2, <1>7, ReleasedAtOnce DEF d
  <2>2. Modes' BY <1>1, <1>2, <1>7 DEF BufferInv, Modes
  <2>3. Pinned'
    <3>1. ASSUME NEW i \in 1 .. Len(sock')
          PROVE  sock'[i].id = NoId
      <4>1. CASE i \in 1 .. Len(sock)
        BY <4>1, <1>1, <1>5, <1>7 DEF BufferInv, Pinned, Modes
      <4>2. CASE i \notin 1 .. Len(sock)
        <5>1. sock'[i].id = id BY <4>2, <1>n
        <5> QED BY <5>1, <1>7, <1>i
      <4> QED BY <4>1, <4>2
    <3> QED BY <3>1 DEF Pinned
  <2> QED BY <1>6, <2>1, <2>2, <2>3 DEF BufferInv
<1>8. CASE zerocopy
  <2>1. /\ Len(pending') = Len(pending) + k /\ released' = released
        /\ \A i \in 1 .. Len(pending) : pending'[i] = pending[i]
        /\ \A i \in 1 .. k : pending'[Len(pending) + i] = [entry |-> queue[i].entry, id |-> next_id]
    BY <1>1, <1>8
  \* every pending entry is an old one or one this send completed
  <2>2. \A p \in 1 .. Len(pending') :
          \/ p \in 1 .. Len(pending) /\ pending'[p] = pending[p]
          \/ \E i \in 1 .. k : pending'[p].entry = queue[i].entry /\ pending'[p].id = next_id
    <3> TAKE p \in 1 .. Len(pending')
    <3>1. CASE p \in 1 .. Len(pending) BY <3>1, <2>1
    <3>2. CASE p \notin 1 .. Len(pending)
      <4>1. p - Len(pending) \in 1 .. k /\ p = Len(pending) + (p - Len(pending))
        BY <3>2, <2>1, <1>3, <1>4
      <4>2. pending'[p] = [entry |-> queue[p - Len(pending)].entry, id |-> next_id]
        BY <4>1, <2>1
      <4> QED BY <4>1, <4>2
    <3> QED BY <3>1, <3>2
  <2>3. EntriesOf(pending') = EntriesOf(pending) \cup EntriesOf(d)
    <3>1. EntriesOf(d) = {queue[i].entry : i \in 1 .. k} BY <1>3 DEF EntriesOf
    <3>2. \A e \in EntriesOf(pending') : e \in EntriesOf(pending) \cup EntriesOf(d)
      <4> TAKE e \in EntriesOf(pending')
      <4>1. PICK p \in 1 .. Len(pending') : e = pending'[p].entry
        BY DEF EntriesOf
      <4> QED BY <4>1, <2>2, <3>1 DEF EntriesOf
    <3>3. \A e \in EntriesOf(pending) : e \in EntriesOf(pending')
      <4> TAKE e \in EntriesOf(pending)
      <4>1. PICK p \in 1 .. Len(pending) : e = pending[p].entry
        BY DEF EntriesOf
      <4>2. p \in 1 .. Len(pending') /\ e = pending'[p].entry BY <4>1, <2>1, <1>3, <1>4
      <4> QED BY <4>2 DEF EntriesOf
    <3>4. \A e \in EntriesOf(d) : e \in EntriesOf(pending')
      <4> TAKE e \in EntriesOf(d)
      <4>1. PICK i \in 1 .. k : e = queue[i].entry BY <3>1
      <4>2. Len(pending) + i \in 1 .. Len(pending') BY <2>1, <1>3, <1>4
      <4>3. pending'[Len(pending) + i] = [entry |-> queue[i].entry, id |-> next_id]
        BY <2>1
      <4>4. pending'[Len(pending) + i].entry = e BY <4>1, <4>3
      <4> QED BY <4>2, <4>4 DEF EntriesOf
    <3> QED BY <3>2, <3>3, <3>4
  <2>4. Held' = Held
    <3>1. Held' = EntriesOf(queue') \cup EntriesOf(pending') BY DEF Held
    <3> QED BY <3>1, <2>3, <1>6 DEF Held
  <2>5. ReleasedExactly'
    BY <2>1, <2>4, <1>2 DEF BufferInv, ReleasedExactly
  <2>6. PendingOnce'
    <3>1. ASSUME NEW p \in 1 .. Len(pending'), NEW q \in 1 .. Len(pending'), pending'[p].entry = pending'[q].entry
          PROVE  pending'[p].id = pending'[q].id
      <4>1. /\ \A x, y \in 1 .. Len(pending) : pending[x].entry = pending[y].entry => pending[x].id = pending[y].id
            /\ \A x \in 1 .. Len(pending) : \A i \in 1 .. k : pending[x].entry # queue[i].entry
        BY <1>3 DEF BufferInv, PendingOnce
      <4>2. CASE p \in 1 .. Len(pending) /\ pending'[p] = pending[p]
        BY <2>2, <3>1, <4>1, <4>2
      <4>3. CASE \E i \in 1 .. k : pending'[p].entry = queue[i].entry /\ pending'[p].id = next_id
        BY <2>2, <3>1, <4>1, <4>3, ZenonT(60)
      <4> QED BY <2>2, <4>2, <4>3
    <3>2. ASSUME NEW p \in 1 .. Len(pending')
          PROVE  pending'[p].entry <= entries
      BY <2>2, <1>3 DEF BufferInv, PendingOnce, QueueOrder
    <3>3. ASSUME NEW p \in 1 .. Len(pending'), NEW i \in 1 .. Len(queue')
          PROVE  pending'[p].entry # queue'[i].entry
      BY <2>2, <1>6, SMTT(30) DEF BufferInv, PendingOnce
    <3> QED BY <1>2, <3>1, <3>2, <3>3 DEF PendingOnce
  <2>7. Modes' BY <1>2, <1>8 DEF BufferInv, Modes
  <2>8. Pinned'
    <3> SUFFICES ASSUME NEW i \in 1 .. Len(sock'), sock'[i].id # NoId
                 PROVE  /\ zc_enabled
                        /\ sock'[i].entry \in Held
                        /\ \A j \in 1 .. Len(queue') : queue'[j].entry = sock'[i].entry => queue'[j].kind = "mem"
                        /\ \A p \in 1 .. Len(pending') :
                             pending'[p].entry = sock'[i].entry => \E j \in i .. Len(sock') : sock'[j].id = pending'[p].id
                        /\ \A r \in 1 .. Len(errqueue) : ~InRange(sock'[i].id, errqueue[r])
      BY <1>2, <2>4 DEF Pinned
    <3>l. Len(sock') \in 1 .. Len(sock') /\ (zc_enabled => sock'[Len(sock')].id = next_id) /\ Len(sock') \in i .. Len(sock')
      <4>1. n \in 1 .. n /\ Len(sock) + n = Len(sock') /\ Len(sock') \in Nat
        BY <1>4, <1>5
      <4>2. sock'[Len(sock')].id = id
        <5>1. Len(sock') \notin 1 .. Len(sock) /\ Len(sock') \in 1 .. Len(sock')
          BY <1>4, <1>5
        <5> QED BY <5>1, <1>n
      <4> QED BY <4>1, <4>2, <1>j
    <3>1. CASE i \in 1 .. Len(sock)
      <4>0. sock'[i] = sock[i] BY <3>1, <1>5
      <4>1. /\ zc_enabled /\ sock[i].entry \in Held
            /\ \A j \in 1 .. Len(queue) : queue[j].entry = sock[i].entry => queue[j].kind = "mem"
            /\ \A p \in 1 .. Len(pending) :
                 pending[p].entry = sock[i].entry => \E j \in i .. Len(sock) : sock[j].id = pending[p].id
            /\ \A r \in 1 .. Len(errqueue) : ~InRange(sock[i].id, errqueue[r])
        BY <1>1, <3>1, <4>0 DEF BufferInv, Pinned
      <4>2. ASSUME NEW p \in 1 .. Len(pending'), pending'[p].entry = sock[i].entry
            PROVE  \E j \in i .. Len(sock') : sock'[j].id = pending'[p].id
        <5>1. CASE p \in 1 .. Len(pending) /\ pending'[p] = pending[p]
          <6>1. PICK j \in i .. Len(sock) : sock[j].id = pending[p].id
            BY <4>1, <4>2, <5>1
          <6>2. j \in i .. Len(sock') /\ j \in 1 .. Len(sock) BY <1>4, <1>5, <3>1
          <6> QED BY <5>1, <6>1, <6>2, <1>5
        <5>2. CASE pending'[p].id = next_id BY <5>2, <3>l, <4>1
        <5> QED BY <2>2, <5>1, <5>2
      <4>3. \A j \in 1 .. Len(queue') : queue'[j].entry = sock[i].entry => queue'[j].kind = "mem"
        BY <4>1, <1>6
      <4> QED BY <4>0, <4>1, <4>2, <4>3
    <3>2. CASE i \notin 1 .. Len(sock)
      <4>1. PICK m \in 1 .. n : sock'[i].entry = Sent(n)[m] BY <3>2, <1>n
      <4>2. sock'[i].id = id BY <3>2, <1>n
      <4>3. zc_enabled /\ id = next_id BY <4>2, <1>i
      <4>4. PICK j \in 1 .. Touched(n) : sock'[i].entry = queue[j].entry
        BY <4>1, <1>3
      <4>5. j \in 1 .. Len(queue) /\ queue[j].kind = "mem" BY <1>1, <1>3
      <4>6. sock'[i].entry \in Held BY <4>4, <4>5 DEF Held, EntriesOf
      <4>7. ASSUME NEW l \in 1 .. Len(queue'), queue'[l].entry = sock'[i].entry
            PROVE  queue'[l].kind = "mem"
        <5>1. /\ queue'[l].entry = queue[k + l].entry /\ queue'[l].kind = queue[k + l].kind
              /\ k + l \in 1 .. Len(queue)
          BY <1>6
        <5>2. \A x \in 1 .. Len(queue) : queue[x].entry \in Nat
          <6>1. \A x \in 1 .. Len(queue) : queue[x] \in QueueEntry BY <1>1 DEF Sendable
          <6> QED BY <6>1, EntryFields DEF Entry
        <5> DEFINE a == k + l
        <5>3. a = j
          <6>1. a \in 1 .. Len(queue) /\ queue[a].entry = queue[j].entry
            BY <4>4, <4>7, <5>1
          <6> HIDE DEF a
          <6>2. ~(a < j) /\ ~(j < a) BY <6>1, <4>5, <5>2 DEF BufferInv, QueueOrder
          <6> QED BY <6>1, <6>2, <4>5, <1>3
        <5> QED BY <5>1, <5>3, <4>5
      <4>8. ASSUME NEW p \in 1 .. Len(pending'), pending'[p].entry = sock'[i].entry
            PROVE  \E l \in i .. Len(sock') : sock'[l].id = pending'[p].id
        <5>1. CASE p \in 1 .. Len(pending) /\ pending'[p] = pending[p]
          BY <4>4, <4>5, <4>8, <5>1 DEF BufferInv, PendingOnce
        <5>2. CASE pending'[p].id = next_id BY <5>2, <3>l, <4>3
        <5> QED BY <2>2, <5>1, <5>2
      <4>9. \A r \in 1 .. Len(errqueue) : ~InRange(sock'[i].id, errqueue[r])
        BY <4>2, <4>3, <1>2 DEF Unreported
      <4> QED BY <4>3, <4>6, <4>7, <4>8, <4>9
    <3> QED BY <3>1, <3>2
  <2> QED BY <1>6, <2>5, <2>6, <2>7, <2>8 DEF BufferInv
<1> QED BY <1>7, <1>8

LEMMA BufferNext ==
  ASSUME StreamInv, BufferInv, [Next]_vars
  PROVE  BufferInv'
<1>0. released \in [Entry -> Nat] /\ (Writing => Alive)
  BY DEF StreamInv, Typed, Writing, Alive
<1>1. ASSUME NEW n \in Lengths, QueueMem(n) \/ QueueOutputAndFlush(n) \/ QueueFile(n)
      PROVE  BufferInv'
  <2>1. Alive /\ UNCHANGED <<zerocopy, zc_enabled, pending, released, sock, errqueue>>
    BY <1>1 DEF QueueMem, QueueOutputAndFlush, QueueFile, pendVars, kernelVars, Alive
  <2>2. Append1("mem", n) \/ Append1("file", n)
    BY <1>1 DEF QueueMem, QueueOutputAndFlush, QueueFile
  <2> QED BY <2>1, <2>2, BufferAppended
<1>2. CASE BeginDrainClose \/ WriteBlocked \/ ClientSends \/ ClientHangsUp
  <2>1. Alive /\ UNCHANGED <<zerocopy, zc_enabled, queue, pending, entries, released, sock, errqueue>>
    BY <1>0, <1>2 DEF BeginDrainClose, WriteBlocked, ClientSends, ClientHangsUp, Alive, queueVars, pendVars, kernelVars
  <2> QED BY <2>1, BufferKept
<1>3. CASE CloseFromUpstream \/ WriteFailed \/ WriteClosed
  <2>1. Free(queue, pending, released) /\ UNCHANGED <<zerocopy, zc_enabled, entries>>
    BY <1>3 DEF CloseFromUpstream, WriteFailed, WriteClosed
  <2> QED BY <1>0, <2>1, FreeNow, FreedBuffers
<1>4. CASE PollEvent BY <1>4, PollKeepsBuffers
<1>5. ASSUME NEW n \in 1 .. SocketSpace, SendMem(n) \/ SendFile(n)
      PROVE  BufferInv'
  BY <1>5, SendMemBuffers, SendFileBuffers
<1>6. ASSUME NEW n \in 0 .. MaxLength, WriteIdle(n)
      PROVE  BufferInv'
  <2>1. Alive /\ UNCHANGED <<zerocopy, zc_enabled, pending, released, sock, errqueue>>
    BY <1>0, <1>6 DEF WriteIdle, pendVars, kernelVars
  <2>2. Append1("mem", n) \/ UNCHANGED <<queue, entries>> BY <1>6 DEF WriteIdle, queueVars
  <2> QED BY <2>1, <2>2, BufferAppended, BufferKept
<1>7. CASE ClientReads BY <1>7, ReadKeepsBuffers
<1>8. CASE UNCHANGED vars
  <2>1. UNCHANGED <<zerocopy, zc_enabled, state, queue, pending, entries, released, sock, errqueue>>
    BY <1>8 DEF vars
  <2>2. QueueOrder' /\ PendingOnce' /\ Modes'
    BY <2>1 DEF BufferInv, QueueOrder, PendingOnce, Modes
  <2>3. ReleasedExactly' BY <2>1 DEF BufferInv, ReleasedExactly, Held
  <2>4. Pinned' BY <2>1 DEF BufferInv, Pinned, Held, Alive
  <2> QED BY <2>2, <2>3, <2>4 DEF BufferInv
<1> QED BY <1>1, <1>2, <1>3, <1>4, <1>5, <1>6, <1>7, <1>8 DEF Next, Write

\* What the invariants say of the releases.
LEMMA ReleasesAreRight ==
  ASSUME StreamInv, BufferInv
  PROVE  TypeOK /\ QueueAccounting /\ NoEarlyRelease /\ ReleasedOnce
<1>1. TypeOK
  <2>1. total_bytes \in Nat /\ num_queued \in Nat /\ num_pending \in Nat /\ entries \in Nat
    <3>1. Len(Spell(queue, {"mem"})) \in Nat BY LengthNat DEF StreamInv, Typed
    <3>2. Len(queue) \in Nat /\ Len(pending) \in Nat /\ entries \in Nat
      BY DEF StreamInv, Typed
    <3> QED BY <3>1, <3>2 DEF StreamInv, QueueAccounting
  <2>2. \A i \in 1 .. Len(queue) : queue[i] \in [entry : Entry, kind : {"mem", "file"}, len : Lengths]
    <3>1. \A i \in 1 .. Len(queue) : queue[i] \in QueueEntry BY DEF StreamInv, Typed
    <3> QED BY <3>1 DEF QueueEntry
  <2>3. \A i \in 1 .. Len(pending) : pending[i] \in [entry : Entry, id : 0 .. (IdSpace - 1)]
    <3>1. \A i \in 1 .. Len(pending) : pending[i] \in PendingEntry
      BY DEF StreamInv, Typed
    <3> QED BY <3>1 DEF PendingEntry
  <2> QED BY <2>1, <2>2, <2>3 DEF StreamInv, Typed, TypeOK
<1>2. NoEarlyRelease
  <2> SUFFICES ASSUME Alive, NEW i \in 1 .. Len(sock), sock[i].id # NoId
               PROVE  released[sock[i].entry] = 0
    BY DEF NoEarlyRelease
  <2>1. sock[i].entry \in Entry
    <3>1. sock[i] \in SockUnit BY DEF StreamInv, Typed
    <3> QED BY <3>1 DEF SockUnit
  <2>2. sock[i].entry \in Held BY DEF BufferInv, Pinned
  <2> QED BY <2>1, <2>2 DEF BufferInv, ReleasedExactly
<1>3. ReleasedOnce
  <2>1. \A e \in Entry : released[e] <= 1 BY DEF BufferInv, ReleasedExactly
  <2>2. ASSUME ~Alive, NEW e \in 1 .. entries
        PROVE  released[e] = 1
    <3>1. e \in Entry /\ e <= entries BY Numbers DEF StreamInv, Typed, Entry
    <3>2. e \notin Held
      <4>1. queue = <<>> /\ pending = <<>> BY <2>2 DEF StreamInv, Typed, Alive
      <4> QED BY <4>1 DEF Held, EntriesOf
    <3> QED BY <3>1, <3>2 DEF BufferInv, ReleasedExactly
  <2> QED BY <2>1, <2>2 DEF ReleasedOnce
<1> QED BY <1>1, <1>2, <1>3 DEF StreamInv

\* Every entry that waits for a completion has one coming or reported; this
\* needs a socket on which SO_ZEROCOPY was set.
CompletionInv == (zerocopy => zc_enabled) /\ PendingWillComplete

\* A send with identifier v is in flight in s or reported in q.
Due(v, s, q) == \/ \E i \in 1 .. Len(s) : s[i].id = v
                \/ \E r \in 1 .. Len(q) : InRange(v, q[r])

LEMMA DueIs == PendingWillComplete <=> (Alive => \A j \in 1 .. Len(pending) : Due(pending[j].id, sock, errqueue))
  BY DEF PendingWillComplete, InFlight, Completed, Due

LEMMA CompletionNext ==
  ASSUME StreamInv, BufferInv, CompletionInv, [Next]_vars
  PROVE  CompletionInv'
<1>0. (Writing => Alive) /\ zc_enabled' = zc_enabled /\ zerocopy' = zerocopy
  BY DEF StreamInv, Typed, Writing, Alive, Next, Write, QueueMem, QueueOutputAndFlush, QueueFile, BeginDrainClose,
         CloseFromUpstream, PollEvent, SendMem, SendFile, WriteBlocked, WriteFailed, WriteClosed, WriteIdle,
         ClientReads, ClientSends, ClientHangsUp, vars
<1> SUFFICES ASSUME Alive'
             PROVE  \A j \in 1 .. Len(pending') : Due(pending'[j].id, sock', errqueue')
  <2>1. PendingWillComplete'
    BY DEF PendingWillComplete, InFlight, Completed, Due
  <2> QED BY <1>0, <2>1 DEF CompletionInv
<1>p. \A j \in 1 .. Len(pending) : pending[j].id \in 0 .. (IdSpace - 1)
  <2>1. \A j \in 1 .. Len(pending) : pending[j] \in PendingEntry
    BY DEF StreamInv, Typed
  <2> QED BY <2>1 DEF PendingEntry
<1>a. Alive => \A j \in 1 .. Len(pending) : Due(pending[j].id, sock, errqueue)
  BY DueIs DEF CompletionInv
<1>k. ASSUME Alive, UNCHANGED <<pending, sock, errqueue>>
      PROVE  \A j \in 1 .. Len(pending') : Due(pending'[j].id, sock', errqueue')
  BY <1>k, <1>a
<1>f. ~(state' = "FREED")
  BY DEF Alive
<1>1. ASSUME NEW n \in Lengths, QueueMem(n) \/ QueueOutputAndFlush(n) \/ QueueFile(n)
      PROVE  \A j \in 1 .. Len(pending') : Due(pending'[j].id, sock', errqueue')
  <2>1. Alive /\ UNCHANGED <<pending, sock, errqueue>>
    BY <1>1 DEF QueueMem, QueueOutputAndFlush, QueueFile, pendVars, kernelVars, Alive
  <2> QED BY <2>1, <1>k
<1>2. CASE BeginDrainClose \/ WriteBlocked \/ ClientSends \/ ClientHangsUp
  <2>1. Alive /\ UNCHANGED <<pending, sock, errqueue>>
    BY <1>0, <1>2 DEF BeginDrainClose, WriteBlocked, ClientSends, ClientHangsUp, Alive, pendVars, kernelVars
  <2> QED BY <2>1, <1>k
<1>3. CASE CloseFromUpstream \/ WriteFailed \/ WriteClosed
  BY <1>3, <1>f DEF CloseFromUpstream, WriteFailed, WriteClosed, Free
<1>4. CASE PollEvent
  <2>1. pending' = StillPending /\ sock' = sock /\ Alive BY <1>4, <1>f DEF PollEvent, Free
  <2>2. \A j \in 1 .. Len(StillPending) :
          \E i \in 1 .. Len(pending) : StillPending[j] = pending[i] /\ ~Completed(pending[i])
    BY StillPendingIs DEF StreamInv, Typed
  <2> TAKE j \in 1 .. Len(pending')
  <2>3. PICK i \in 1 .. Len(pending) : pending'[j] = pending[i] /\ ~Completed(pending[i])
    BY <2>1, <2>2
  <2> QED BY <2>1, <2>3, <1>a DEF Due, Completed
<1>5. ASSUME NEW n \in 1 .. SocketSpace, SendMem(n)
      PROVE  \A j \in 1 .. Len(pending') : Due(pending'[j].id, sock', errqueue')
  <2> DEFINE k == Covered(n)
             id == IF zerocopy /\ zc_enabled THEN next_id ELSE NoId
  <2>1. /\ Sendable(n) /\ Alive
        /\ zerocopy =>
             /\ Len(pending') = Len(pending) + k
             /\ \A i \in 1 .. Len(pending) : pending'[i] = pending[i]
             /\ \A i \in 1 .. k : pending'[Len(pending) + i] = [entry |-> queue[i].entry, id |-> next_id]
        /\ ~zerocopy => pending' = pending
    BY <1>5, SendMemIs
  <2>2. /\ queue' = Advance(n) /\ ToKernel(n, id) /\ errqueue' = errqueue
        /\ Len(sock) + n <= SocketSpace /\ num_queued' = num_queued - k
    BY <1>5 DEF SendMem
  <2>3. id \in 0 .. IdSpace /\ Len(sock) \in Nat /\ Len(pending) \in Nat /\ k \in Nat
    <3>1. next_id \in 0 .. (IdSpace - 1) /\ Len(sock) \in Nat /\ Len(pending) \in Nat
      BY DEF StreamInv, Typed
    <3>2. k \in Nat BY <2>1, PartOfIs
    <3> QED BY <3>1, <3>2, Numbers DEF NoId
  <2>4. /\ Len(sock') = Len(sock) + n
        /\ \A i \in 1 .. Len(sock) : sock'[i] = sock[i]
        /\ \A i \in 1 .. n : sock'[Len(sock) + i] = [entry |-> Sent(n)[i], id |-> id]
    <3> HIDE DEF id, k
    <3> QED BY <2>1, <2>2, <2>3, SentStep DEF k
  <2>5. \A v : Due(v, sock, errqueue) => Due(v, sock', errqueue')
    <3>1. \A i \in 1 .. Len(sock) : i \in 1 .. Len(sock') BY <2>3, <2>4
    <3> QED BY <2>2, <2>4, <3>1 DEF Due
  <2>6. zerocopy => \E i \in 1 .. Len(sock') : sock'[i].id = next_id
    <3> SUFFICES ASSUME zerocopy PROVE \E i \in 1 .. Len(sock') : sock'[i].id = next_id
      OBVIOUS
    <3>1. Len(sock) + n \in 1 .. Len(sock') /\ n \in 1 .. n BY <2>3, <2>4
    <3>2. sock'[Len(sock) + n] = [entry |-> Sent(n)[n], id |-> id]
      BY <2>4, <3>1
    <3>3. id = next_id BY DEF CompletionInv
    <3>4. sock'[Len(sock) + n].id = next_id
      <4> HIDE DEF id
      <4> QED BY <3>2, <3>3
    <3> QED BY <3>1, <3>4
  <2> HIDE DEF k, id
  <2>7. \A j \in 1 .. Len(pending) : Due(pending[j].id, sock', errqueue')
    BY <2>1, <2>5, <1>a
  <2>8. CASE zerocopy
    <3> TAKE j \in 1 .. Len(pending')
    <3>1. CASE j \in 1 .. Len(pending) BY <3>1, <2>1, <2>7, <2>8
    <3>2. CASE j \notin 1 .. Len(pending)
      <4>1. j - Len(pending) \in 1 .. k /\ j = Len(pending) + (j - Len(pending))
        BY <3>2, <2>1, <2>3, <2>8
      <4>2. PICK m \in 1 .. k : j = Len(pending) + m BY <4>1
      <4>3. pending'[Len(pending) + m] = [entry |-> queue[m].entry, id |-> next_id]
        BY <2>1, <2>8
      <4>4. pending'[j].id = next_id BY <4>2, <4>3
      <4> QED BY <4>4, <2>6, <2>8 DEF Due
    <3> QED BY <3>1, <3>2
  <2>9. CASE ~zerocopy BY <2>1, <2>7, <2>9
  <2> QED BY <2>8, <2>9
<1>6. ASSUME NEW n \in 1 .. SocketSpace, SendFile(n)
      PROVE  \A j \in 1 .. Len(pending') : Due(pending'[j].id, sock', errqueue')
  <2>1. Sendable(n) /\ Alive BY <1>6, SendFileKeeps
  <2>2. /\ queue' = Advance(n) /\ ToKernel(n, NoId) /\ UNCHANGED <<pending, errqueue>>
        /\ Len(sock) + n <= SocketSpace /\ num_queued' = num_queued - Covered(n)
    BY <1>6 DEF SendFile, pendVars
  <2>3. NoId \in 0 .. IdSpace /\ Len(sock) \in Nat
    BY Numbers, SMTT(30) DEF NoId, StreamInv, Typed
  <2>4. Len(sock') = Len(sock) + n /\ \A i \in 1 .. Len(sock) : sock'[i] = sock[i]
    BY <2>1, <2>2, <2>3, SentStep
  <2>5. \A i \in 1 .. Len(sock) : i \in 1 .. Len(sock') BY <2>3, <2>4
  <2> TAKE j \in 1 .. Len(pending')
  <2>6. j \in 1 .. Len(pending) /\ pending'[j] = pending[j]
    BY <2>2
  <2>7. Due(pending[j].id, sock, errqueue) BY <2>1, <2>6, <1>a
  <2>8. Due(pending[j].id, sock', errqueue') BY <2>2, <2>4, <2>5, <2>7 DEF Due
  <2> QED BY <2>6, <2>8
<1>7. ASSUME NEW n \in 0 .. MaxLength, WriteIdle(n)
      PROVE  \A j \in 1 .. Len(pending') : Due(pending'[j].id, sock', errqueue')
  <2>1. Alive /\ UNCHANGED <<pending, sock, errqueue>>
    BY <1>0, <1>7 DEF WriteIdle, pendVars, kernelVars
  <2> QED BY <2>1, <1>k
<1>8. CASE ClientReads
  <2>1. /\ Len(sock) \in Nat \ {0} /\ Len(sock') = Len(sock) - 1
        /\ \A i \in 1 .. Len(sock') : sock'[i] = sock[i + 1]
    BY <1>8, ClientReadsIs
  <2>2. Alive /\ pending' = pending BY <1>8 DEF ClientReads, pendVars
  <2>3. ASSUME NEW j \in 1 .. Len(pending)
        PROVE  Due(pending[j].id, sock', errqueue')
    <3> DEFINE v == pending[j].id
               id == sock[1].id
               finished == id # NoId /\ \A i \in 2 .. Len(sock) : sock[i].id # id
    <3>1. v \in 0 .. (IdSpace - 1) /\ v # NoId
      <4>1. v \in 0 .. (IdSpace - 1) BY <1>p
      <4> HIDE DEF v
      <4> QED BY <4>1, Numbers DEF NoId
    <3> HIDE DEF v
    <3>2. (\E r \in 1 .. Len(errqueue') : InRange(v, errqueue'[r]))
            <=> (\E r \in 1 .. Len(errqueue) : InRange(v, errqueue[r])) \/ (finished /\ v = id)
      BY <1>8, <3>1, ReportsAfterRead
    <3>3. Due(v, sock, errqueue) BY <1>a, <2>2 DEF v
    <3>4. ASSUME NEW m \in 2 .. Len(sock), sock[m].id = v
          PROVE  Due(v, sock', errqueue')
      <4>1. m - 1 \in 1 .. Len(sock') /\ (m - 1) + 1 = m BY <2>1
      <4>2. sock'[m - 1] = sock[m] BY <2>1, <4>1
      <4> QED BY <4>1, <4>2, <3>4 DEF Due
    <3>5. ASSUME NEW i \in 1 .. Len(sock), sock[i].id = v
          PROVE  Due(v, sock', errqueue')
      <4>1. CASE i \in 2 .. Len(sock) BY <3>4, <3>5, <4>1
      <4>2. CASE i = 1
        <5>1. v = id BY <4>2, <3>5
        <5>2. CASE finished
          <6>1. \E r \in 1 .. Len(errqueue') : InRange(v, errqueue'[r])
            <7> HIDE DEF finished, id
            <7> QED BY <3>2, <5>1, <5>2
          <6> QED BY <6>1 DEF Due
        <5>3. CASE ~finished
          <6>1. PICK m \in 2 .. Len(sock) : sock[m].id = id BY <5>1, <5>3, <3>1
          <6> QED BY <6>1, <3>4, <5>1
        <5> QED BY <5>2, <5>3
      <4> QED BY <2>1, <4>1, <4>2
    <3>6. ASSUME NEW r \in 1 .. Len(errqueue), InRange(v, errqueue[r])
          PROVE  Due(v, sock', errqueue')
      <4>1. \E q \in 1 .. Len(errqueue') : InRange(v, errqueue'[q])
        <5> HIDE DEF finished, id
        <5> QED BY <3>2, <3>6
      <4> QED BY <4>1 DEF Due
    <3>7. Due(v, sock', errqueue') BY <3>3, <3>5, <3>6 DEF Due
    <3> QED BY <3>7 DEF v
  <2> QED BY <2>2, <2>3
<1>9. CASE UNCHANGED vars
  <2>1. Alive /\ UNCHANGED <<pending, sock, errqueue>> BY <1>9 DEF vars, Alive
  <2> QED BY <2>1, <1>k
<1> QED BY <1>1, <1>2, <1>3, <1>4, <1>5, <1>6, <1>7, <1>8, <1>9 DEF Next, Write

\* Every buffer's reference is dropped once, and never while the kernel may
\* still read the buffer (zerocopy_send, zerocopy_handle_completions,
\* zerocopy_queue_cleanup); the counters of the queues are exact.
THEOREM ReleasesAreExact ==
  Spec => [](TypeOK /\ QueueAccounting /\ NoEarlyRelease /\ ReleasedOnce)
<1>1. Init => StreamInv /\ BufferInv BY StreamInit, BufferInit
<1>2. StreamInv /\ BufferInv /\ [Next]_vars => StreamInv' /\ BufferInv'
  BY StreamNext, BufferNext
<1>3. StreamInv /\ BufferInv => TypeOK /\ QueueAccounting /\ NoEarlyRelease /\ ReleasedOnce
  BY ReleasesAreRight
<1> QED BY <1>1, <1>2, <1>3, PTL DEF Spec

\* Where SO_ZEROCOPY is set on every socket that asks for zero-copy, no buffer
\* waits for a completion that was already taken or that never comes.
THEOREM BuffersComeBack ==
  ASSUME FALSE \notin SoZerocopy
  PROVE  Spec => []BuffersReturn
<1>1. Init => StreamInv /\ BufferInv /\ CompletionInv
  <2> SUFFICES ASSUME Init PROVE CompletionInv
    BY StreamInit, BufferInit
  <2>1. zerocopy => zc_enabled BY SendQueueAssumption DEF Init
  <2>2. pending = <<>> BY DEF Init
  <2> QED BY <2>1, <2>2 DEF CompletionInv, PendingWillComplete
<1>2. StreamInv /\ BufferInv /\ CompletionInv /\ [Next]_vars => StreamInv' /\ BufferInv' /\ CompletionInv'
  BY StreamNext, BufferNext, CompletionNext
<1>3. StreamInv /\ BufferInv /\ CompletionInv => BuffersReturn
  BY ReleasesAreRight DEF CompletionInv, BuffersReturn
<1> QED BY <1>1, <1>2, <1>3, PTL DEF Spec
=============================================================================
