----------------------------- MODULE SequenceLemmas -----------------------------
(***************************************************************************)
(* What the proofs need of sequences: heaps that grow at the end, the call *)
(* stacks the recursive functions of the language are turned into, slices  *)
(* of a text, and the least place where a search can stop.                 *)
(***************************************************************************)
EXTENDS Sequences, SequenceOperators, SequenceTheorems, WellFoundedInduction, TLAPS

LEMMA PushOne ==
  ASSUME NEW S, NEW s \in Seq(S), NEW a \in S
  PROVE  /\ Append(s, a) \in Seq(S)
         /\ Len(Append(s, a)) = Len(s) + 1
         /\ \A i \in 1..Len(s) : Append(s, a)[i] = s[i]
         /\ Append(s, a)[Len(s) + 1] = a
BY AppendProperties

LEMMA PushTwo ==
  ASSUME NEW S, NEW s \in Seq(S), NEW a \in S, NEW b \in S
  PROVE  /\ s \o << a, b >> \in Seq(S)
         /\ Len(s \o << a, b >>) = Len(s) + 2
         /\ \A i \in 1..Len(s) : (s \o << a, b >>)[i] = s[i]
         /\ (s \o << a, b >>)[Len(s) + 1] = a
         /\ (s \o << a, b >>)[Len(s) + 2] = b
<1> DEFINE t == << a, b >>
<1>1. t \in Seq(S) /\ Len(t) = 2 /\ t[1] = a /\ t[2] = b
  OBVIOUS
<1>2. Len(s) \in Nat
  OBVIOUS
<1>3. s \o t \in Seq(S) /\ Len(s \o t) = Len(s) + 2
  BY <1>1, ConcatProperties
<1>4. \A i \in 1..Len(s) + 2 : (s \o t)[i] = IF i <= Len(s) THEN s[i] ELSE t[i - Len(s)]
  BY <1>1, ConcatProperties
<1>5. \A i \in 1..Len(s) : (s \o t)[i] = s[i]
  BY <1>2, <1>4
<1>6. (s \o t)[Len(s) + 1] = t[1]
  BY <1>2, <1>4
<1>7. (s \o t)[Len(s) + 2] = t[2]
  BY <1>2, <1>4
<1> QED
  BY <1>1, <1>3, <1>5, <1>6, <1>7

LEMMA PopOne ==
  ASSUME NEW S, NEW s \in Seq(S), s # <<>>
  PROVE  /\ SubSeq(s, 1, Len(s) - 1) \in Seq(S)
         /\ Len(SubSeq(s, 1, Len(s) - 1)) = Len(s) - 1
         /\ \A i \in 1..Len(s) - 1 : SubSeq(s, 1, Len(s) - 1)[i] = s[i]
         /\ s[Len(s)] \in S
         /\ Len(s) \in Nat \ {0}
<1>1. Len(s) \in Nat \ {0}
  BY EmptySeq
<1> DEFINE n == Len(s) - 1
           p == SubSeq(s, 1, n)
<1>2. n \in Nat /\ \A i \in 1..n : s[i] \in S
  BY <1>1
<1>3. /\ p \in Seq(S)
      /\ Len(p) = IF 1 <= n THEN n - 1 + 1 ELSE 0
      /\ \A i \in 1..n - 1 + 1 : p[i] = s[1 + i - 1]
  <2> HIDE DEF n
  <2> QED
    BY <1>2, SubSeqProperties
<1>4. Len(p) = n /\ \A i \in 1..n : p[i] = s[i]
  <2> HIDE DEF n, p
  <2> QED
    BY <1>2, <1>3
<1>5. s[Len(s)] \in S
  BY <1>1, ElementOfSeq
<1> QED
  BY <1>1, <1>5, <1>3, <1>4

LEMMA Slicing ==
  ASSUME NEW S, NEW s \in Seq(S), NEW from \in Nat, NEW to \in Nat, from <= to, to <= Len(s)
  PROVE  /\ SubSeq(s, from + 1, to) \in Seq(S)
         /\ Len(SubSeq(s, from + 1, to)) = to - from
         /\ \A i \in 1..to - from : SubSeq(s, from + 1, to)[i] = s[from + i]
<1>1. Len(s) \in Nat
  OBVIOUS
<1>2. \A i \in from + 1 .. to : s[i] \in S
  BY <1>1
<1> DEFINE p == SubSeq(s, from + 1, to)
<1>3. /\ p \in Seq(S)
      /\ Len(p) = IF from + 1 <= to THEN to - (from + 1) + 1 ELSE 0
      /\ \A i \in 1..to - (from + 1) + 1 : p[i] = s[from + 1 + i - 1]
  BY <1>2, SubSeqProperties
<1> HIDE DEF p
<1>4. Len(p) = to - from
  BY <1>3
<1>5. ASSUME NEW i \in 1..to - from PROVE p[i] = s[from + i]
  <2>1. i \in 1..to - (from + 1) + 1 /\ from + 1 + i - 1 = from + i
    OBVIOUS
  <2> QED
    BY <1>3, <2>1
<1> QED
  BY <1>3, <1>4, <1>5 DEF p

\* A sequence of anything: its elements are in the set of its elements.
LEMMA PushAny ==
  ASSUME NEW s, s \in Seq({ s[i] : i \in 1..Len(s) }), NEW a
  PROVE  /\ Len(Append(s, a)) = Len(s) + 1
         /\ Len(s) \in Nat
         /\ \A i \in 1..Len(s) : Append(s, a)[i] = s[i]
         /\ Append(s, a)[Len(s) + 1] = a
         /\ Append(s, a) \in Seq({ Append(s, a)[i] : i \in 1..Len(Append(s, a)) })
<1> DEFINE S == { s[i] : i \in 1..Len(s) }
           T == S \cup { a }
           t == Append(s, a)
<1>1. s \in Seq(S) /\ Len(s) \in Nat
  OBVIOUS
<1>2. s \in Seq(T)
  BY <1>1
<1>3. /\ t \in Seq(T) /\ Len(t) = Len(s) + 1
      /\ \A i \in 1..Len(s) : t[i] = s[i]
      /\ t[Len(s) + 1] = a
  BY <1>2, PushOne
<1>4. \A i \in 1..Len(t) : t[i] \in { t[j] : j \in 1..Len(t) }
  OBVIOUS
<1>5. t \in Seq({ t[j] : j \in 1..Len(t) })
  <2> HIDE DEF t
  <2> DEFINE U == { t[j] : j \in 1..Len(t) }
  <2>1. t = [ j \in 1..Len(t) |-> t[j] ] /\ Len(t) \in Nat
    BY <1>3
  <2>2. t \in [ 1..Len(t) -> U ]
    BY <2>1, <1>4
  <2> HIDE DEF U
  <2>3. PICK n \in Nat : t \in [ 1..n -> U ]
    BY <2>1, <2>2
  <2>4. t \in UNION { [ 1..m -> U ] : m \in Nat }
    BY <2>3
  <2>5. t \in Seq(U)
    BY <2>4, SeqDef
  <2> QED
    BY <2>5 DEF U
<1> QED
  BY <1>1, <1>3, <1>5

LEMMA LeastElement ==
  ASSUME NEW T, T \subseteq Nat, T # {}
  PROVE  \E least \in T : \A other \in T : least <= other
<1>1. PICK least \in T : \A other \in T : ~(<< other, least >> \in OpToRel(<, Nat))
  BY NatLessThanWellFounded, WFMin
<1>2. ASSUME NEW other \in T PROVE least <= other
  <2>1. ~(other < least)
    BY <1>1 DEF OpToRel
  <2> QED
    BY <2>1
<1> QED
  BY <1>2

--------------------------------------------------------------------------------
(***************************************************************************)
(* What FlattenSeq returns, for sequences of any length.                   *)
(***************************************************************************)

\* The recursive function of FlattenSeq, up to n, and that there is only one.
Flattens(f, seqs, n) ==
    f = [ i \in 1..n |-> IF i = 1 THEN seqs[i] ELSE f[i - 1] \o seqs[i] ]

Begins(r, n, s) == \A i \in 1..n : r[i] = s[i]

LEMMA FlattenExists ==
  ASSUME NEW seqs, NEW n \in Nat
  PROVE  \E f : Flattens(f, seqs, n)
<1> DEFINE T == { m \in 0..n : ~\E f : Flattens(f, seqs, m) }
<1>1. T = {}
  <2> SUFFICES ASSUME T # {} PROVE FALSE
    OBVIOUS
  <2>1. PICK m \in T : \A other \in T : m <= other
    <3>1. T \subseteq Nat
      OBVIOUS
    <3> QED
      BY <3>1, LeastElement
  <2> HIDE DEF T
  <2>2. m \in 0..n /\ ~\E f : Flattens(f, seqs, m)
    BY <2>1 DEF T
  <2>3. CASE m = 0
    <3>1. PICK f : f = [ i \in 1..0 |-> <<>> ]
      OBVIOUS
    <3>2. Flattens(f, seqs, 0)
      BY <3>1 DEF Flattens
    <3> QED
      BY <2>2, <2>3, <3>2
  <2>4. CASE m # 0
    <3>1. PICK l \in 0..n : m = l + 1
      BY <2>2, <2>4
    <3>2. l \notin T
      BY <2>1, <3>1
    <3>3. PICK f : Flattens(f, seqs, l)
      BY <3>1, <3>2 DEF T
    <3>4. PICK g : g = [ i \in 1..m |-> IF i = 1 THEN seqs[i] ELSE f[i - 1] \o seqs[i] ]
      OBVIOUS
    <3>5. ASSUME NEW i \in 1..l PROVE g[i] = f[i]
      <4>1. i \in 1..m
        BY <3>1
      <4>2. f[i] = IF i = 1 THEN seqs[i] ELSE f[i - 1] \o seqs[i]
        BY <3>3 DEF Flattens
      <4> QED
        BY <3>4, <4>1, <4>2
    <3>6. ASSUME NEW i \in 1..m PROVE g[i] = IF i = 1 THEN seqs[i] ELSE g[i - 1] \o seqs[i]
      <4>1. i # 1 => i - 1 \in 1..l
        BY <3>1
      <4>2. i # 1 => g[i - 1] = f[i - 1]
        BY <3>5, <4>1
      <4> QED
        BY <3>4, <4>2
    <3>7. Flattens(g, seqs, m)
      <4>1. g = [ i \in 1..m |-> g[i] ]
        BY <3>4
      <4>2. [ i \in 1..m |-> g[i] ] = [ i \in 1..m |-> IF i = 1 THEN seqs[i] ELSE g[i - 1] \o seqs[i] ]
        BY <3>6
      <4> QED
        BY <4>1, <4>2 DEF Flattens
    <3> QED
      BY <2>2, <3>7
  <2> QED
    BY <2>3, <2>4
<1>2. n \in 0..n
  OBVIOUS
<1> QED
  BY <1>1, <1>2

LEMMA FlattenUnique ==
  ASSUME NEW r, NEW s, NEW n \in Nat, NEW m \in Nat, n <= m, Begins(r, n, s),
         NEW f, Flattens(f, r, n), NEW g, Flattens(g, s, m)
  PROVE  \A i \in 1..n : f[i] = g[i]
<1> DEFINE T == { i \in 1..n : f[i] # g[i] }
<1>1. T = {}
  <2> SUFFICES ASSUME T # {} PROVE FALSE
    OBVIOUS
  <2>1. PICK i \in T : \A other \in T : i <= other
    <3>1. T \subseteq Nat
      OBVIOUS
    <3> QED
      BY <3>1, LeastElement
  <2>2. i \in 1..n /\ i \in 1..m /\ f[i] # g[i]
    BY <2>1
  <2>3. i # 1 => i - 1 \in 1..n /\ ~(i <= i - 1)
    BY <2>2
  <2>4. i # 1 => f[i - 1] = g[i - 1]
    BY <2>1, <2>3
  <2>5. f[i] = IF i = 1 THEN r[i] ELSE f[i - 1] \o r[i]
    BY <2>2 DEF Flattens
  <2>6. r[i] = s[i]
    BY <2>2 DEF Begins
  <2>7. g[i] = IF i = 1 THEN s[i] ELSE g[i - 1] \o s[i]
    BY <2>2 DEF Flattens
  <2> QED
    BY <2>2, <2>4, <2>5, <2>6, <2>7
<1> QED
  BY <1>1

LEMMA FlattenIs ==
  ASSUME NEW seqs, NEW n \in Nat, n = Len(seqs)
  PROVE  IF n = 0 THEN Seqs!FlattenSeq(seqs) = seqs
                  ELSE \E f : Flattens(f, seqs, n) /\ Seqs!FlattenSeq(seqs) = f[n]
<1> DEFINE F == CHOOSE f : f = [ i \in 1..n |-> IF i = 1 THEN seqs[i] ELSE f[i - 1] \o seqs[i] ]
<1>1. F = [ i \in 1..n |-> IF i = 1 THEN seqs[i] ELSE F[i - 1] \o seqs[i] ]
  <2>1. \E f : f = [ i \in 1..n |-> IF i = 1 THEN seqs[i] ELSE f[i - 1] \o seqs[i] ]
    BY FlattenExists DEF Flattens
  <2> QED
    BY <2>1
<1>2. Seqs!FlattenSeq(seqs) = IF n = 0 THEN seqs ELSE F[n]
  BY DEF Seqs!FlattenSeq
<1> HIDE DEF F
<1>3. Flattens(F, seqs, n)
  BY <1>1 DEF Flattens
<1> QED
  BY <1>2, <1>3

LEMMA FlattenNone == \A seqs : Len(seqs) = 0 => Seqs!FlattenSeq(seqs) = seqs
<1> SUFFICES ASSUME NEW seqs, Len(seqs) = 0 PROVE Seqs!FlattenSeq(seqs) = seqs
  OBVIOUS
<1> QED
  BY FlattenIs

\* One more sequence at the end ends up at the end.
LEMMA FlattenOneMore ==
  ASSUME NEW r, NEW s, NEW n \in Nat, n = Len(r), Len(s) = n + 1,
         Begins(r, n, s)
  PROVE  Seqs!FlattenSeq(s) = IF n = 0 THEN s[1] ELSE Seqs!FlattenSeq(r) \o s[n + 1]
<1>1. PICK m \in Nat : m = n + 1 /\ m # 0 /\ n <= m /\ m \in 1..m /\ (n # 0 => m # 1 /\ n \in 1..n /\ m - 1 = n)
  OBVIOUS
<1>2. PICK g : Flattens(g, s, m) /\ Seqs!FlattenSeq(s) = g[m]
  BY <1>1, FlattenIs
<1>3. g[m] = IF m = 1 THEN s[m] ELSE g[m - 1] \o s[m]
  BY <1>1, <1>2 DEF Flattens
<1>4. CASE n = 0
  BY <1>1, <1>2, <1>3, <1>4
<1>5. CASE n # 0
  <2>1. PICK f : Flattens(f, r, n) /\ Seqs!FlattenSeq(r) = f[n]
    BY <1>5, FlattenIs
  <2>2. \A i \in 1..n : f[i] = g[i]
    BY <1>1, <1>2, <2>1, FlattenUnique
  <2>3. f[n] = g[n]
    BY <1>1, <1>5, <2>2
  <2> QED
    BY <1>1, <1>2, <1>3, <1>5, <2>1, <2>3
<1> QED
  BY <1>4, <1>5

LEMMA FlattenAppend ==
  ASSUME NEW S, NEW r \in Seq(Seq(S)), NEW s \in Seq(Seq(S)), Len(s) = Len(r) + 1,
         Begins(r, Len(r), s)
  PROVE  Seqs!FlattenSeq(s) = Seqs!FlattenSeq(r) \o s[Len(r) + 1]
<1>1. PICK n \in Nat : n = Len(r)
  OBVIOUS
<1>2. CASE n = 0
  <2>1. r = <<>>
    BY <1>1, <1>2, EmptySeq
  <2>2. Seqs!FlattenSeq(r) = <<>>
    BY <1>1, <1>2, <2>1, FlattenNone
  <2>3. 1 \in 1..Len(s)
    BY <1>1, <1>2
  <2>4. PICK last \in Seq(S) : last = s[1]
    BY <2>3
  <2>5. <<>> \o last = last
    BY <2>4
  <2>6. Seqs!FlattenSeq(s) = last
    BY <1>1, <1>2, <2>4, FlattenOneMore
  <2>7. n + 1 = 1
    BY <1>2
  <2> QED
    BY <1>1, <2>2, <2>4, <2>5, <2>6, <2>7
<1>3. CASE n # 0
  BY <1>1, <1>3, FlattenOneMore
<1> QED
  BY <1>2, <1>3

LEMMA FlattenTyped ==
  ASSUME NEW S, NEW seqs \in Seq(Seq(S))
  PROVE  Seqs!FlattenSeq(seqs) \in Seq(S)
<1>1. PICK n \in Nat : n = Len(seqs)
  OBVIOUS
<1>2. CASE n = 0
  <2>1. seqs = <<>>
    BY <1>1, <1>2, EmptySeq
  <2>2. Seqs!FlattenSeq(seqs) = <<>>
    BY <1>1, <1>2, <2>1, FlattenNone
  <2>3. <<>> \in Seq(S)
    OBVIOUS
  <2> QED
    BY <2>2, <2>3
<1>3. CASE n # 0
  <2>1. PICK f : Flattens(f, seqs, n) /\ Seqs!FlattenSeq(seqs) = f[n]
    BY <1>1, <1>3, FlattenIs
  <2> DEFINE T == { i \in 1..n : f[i] \notin Seq(S) }
  <2>2. T = {}
    <3> SUFFICES ASSUME T # {} PROVE FALSE
      OBVIOUS
    <3>1. PICK i \in T : \A other \in T : i <= other
      <4>1. T \subseteq Nat
        OBVIOUS
      <4> QED
        BY <4>1, LeastElement
    <3>2. i \in 1..n /\ f[i] \notin Seq(S)
      BY <3>1
    <3>3. i # 1 => i - 1 \in 1..n /\ ~(i <= i - 1)
      BY <3>2
    <3>4. i # 1 => f[i - 1] \in Seq(S)
      BY <3>1, <3>3
    <3>5. f[i] = IF i = 1 THEN seqs[i] ELSE f[i - 1] \o seqs[i]
      BY <2>1, <3>2 DEF Flattens
    <3>6. seqs[i] \in Seq(S)
      BY <1>1, <3>2
    <3>7. i # 1 => f[i - 1] \o seqs[i] \in Seq(S)
      BY <3>4, <3>6
    <3> QED
      BY <3>2, <3>5, <3>6, <3>7
  <2>3. n \in 1..n
    BY <1>3
  <2> QED
    BY <2>1, <2>2, <2>3
<1> QED
  BY <1>2, <1>3
================================================================================
