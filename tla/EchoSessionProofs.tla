------------------------- MODULE EchoSessionProofs -------------------------
(***************************************************************************)
(* Safety of EchoSession for any number of lines and any size of the       *)
(* buffers: type correctness, the order in which the input is sent, and    *)
(* the order in which the echo is shown.                                   *)
(***************************************************************************)
EXTENDS EchoSession, SequenceTheorems, WellFoundedInduction, TLAPS

----------------------------------------------------------------------------
(* Induction, with a set in place of a predicate                           *)

\* A set that has 0 and with a number its successor has every number.
LEMMA EveryNat ==
    ASSUME NEW T, 0 \in T, \A m \in Nat : m \in T => m + 1 \in T
    PROVE  Nat \subseteq T
<1>. SUFFICES ASSUME Nat \ T # {} PROVE FALSE OBVIOUS
<1>1. PICK x \in Nat \ T : \A y \in Nat \ T : ~ <<y, x>> \in OpToRel(<, Nat)
  BY NatLessThanWellFounded, WFMin
<1>2. x # 0 /\ x - 1 \in Nat /\ (x - 1) + 1 = x OBVIOUS
<1>3. x - 1 \notin T BY <1>2
<1>4. <<x - 1, x>> \in OpToRel(<, Nat)
  <2>1. <<x - 1, x>> \in Nat \X Nat /\ x - 1 < x BY <1>2
  <2>. QED BY <2>1 DEF OpToRel
<1>. QED BY <1>1, <1>2, <1>3, <1>4

\* The same for sequences, which grow at their end.
LEMMA EverySequence ==
    ASSUME NEW S, NEW T, <<>> \in T,
           \A s \in Seq(S), e \in S : s \in T => Append(s, e) \in T
    PROVE  Seq(S) \subseteq T
<1>. DEFINE L == {m \in Nat : \A s \in Seq(S) : Len(s) = m => s \in T}
<1>1. 0 \in L BY EmptySeq
<1>2. ASSUME NEW m \in Nat, m \in L PROVE m + 1 \in L
  <2>. SUFFICES ASSUME NEW s \in Seq(S), Len(s) = m + 1 PROVE s \in T OBVIOUS
  <2>1. s # <<>> BY EmptySeq
  <2>2. PICK r \in Seq(S), e \in S : s = Append(r, e) BY <2>1, SequenceEmptyOrAppend
  <2>3. Len(r) = m BY <2>2, AppendProperties, LenProperties
  <2>. QED BY <1>2, <2>2, <2>3
<1>3. Nat \subseteq L
  <2>. HIDE DEF L
  <2>. QED BY <1>1, <1>2, EveryNat
<1>. QED BY <1>3, LenProperties

----------------------------------------------------------------------------
(* Concatenation, as an operator of which nothing is known but its laws     *)

Cat(s, t) == s \o t

LEMMA CatType ==
    ASSUME NEW S, NEW s \in Seq(S), NEW t \in Seq(S)
    PROVE  Cat(s, t) \in Seq(S)
BY ConcatProperties DEF Cat

LEMMA CatEmpty ==
    ASSUME NEW S, NEW s \in Seq(S)
    PROVE  Cat(s, <<>>) = s /\ Cat(<<>>, s) = s
BY ConcatEmptySeq DEF Cat

LEMMA CatAssociative ==
    ASSUME NEW S, NEW s \in Seq(S), NEW t \in Seq(S), NEW u \in Seq(S)
    PROVE  Cat(Cat(s, t), u) = Cat(s, Cat(t, u))
BY ConcatAssociative DEF Cat

LEMMA CatElement ==
    ASSUME NEW S, NEW s \in Seq(S), NEW e \in S
    PROVE  <<e>> \in Seq(S) /\ Append(s, e) = Cat(s, <<e>>)
<1>1. <<e>> \in Seq(S) OBVIOUS
<1>2. Append(s, e) = s \o <<e>> BY AppendIsConcat
<1>. QED BY <1>1, <1>2 DEF Cat

LEMMA CatHeadTail ==
    ASSUME NEW S, NEW s \in Seq(S), s # <<>>
    PROVE  /\ Head(s) \in S /\ Tail(s) \in Seq(S)
           /\ s = Cat(<<Head(s)>>, Tail(s))
BY HeadTailProperties DEF Cat

LEMMA CatAppend ==
    ASSUME NEW S, NEW s \in Seq(S), NEW t \in Seq(S), NEW e \in S
    PROVE  /\ Cat(s, t) \in Seq(S) /\ Append(t, e) \in Seq(S)
           /\ Cat(s, Append(t, e)) = Append(Cat(s, t), e)
<1>1. PICK one : one = <<e>> OBVIOUS
<1>2. one \in Seq(S) /\ Append(t, e) = Cat(t, one) BY <1>1, CatElement
<1>3. Cat(s, t) \in Seq(S) BY CatType
<1>4. Append(Cat(s, t), e) = Cat(Cat(s, t), one) BY <1>1, <1>3, CatElement
<1>5. Cat(Cat(s, t), one) = Cat(s, Cat(t, one)) BY <1>2, CatAssociative
<1>6. Append(t, e) \in Seq(S) BY AppendProperties
<1>. QED BY <1>2, <1>3, <1>4, <1>5, <1>6

LEMMA CatHeadMoves ==
    ASSUME NEW S, NEW s \in Seq(S), NEW t \in Seq(S), t # <<>>
    PROVE  /\ Head(t) \in S /\ Tail(t) \in Seq(S)
           /\ Cat(Append(s, Head(t)), Tail(t)) = Cat(s, t)
<1>1. PICK h, one, r : h = Head(t) /\ one = <<h>> /\ r = Tail(t) OBVIOUS
<1>2. h \in S /\ r \in Seq(S) /\ t = Cat(one, r) BY <1>1, CatHeadTail
<1>3. one \in Seq(S) /\ Append(s, h) = Cat(s, one) BY <1>1, <1>2, CatElement
<1>4. Cat(Cat(s, one), r) = Cat(s, Cat(one, r)) BY <1>2, <1>3, CatAssociative
<1>. QED BY <1>1, <1>2, <1>3, <1>4

LEMMA CatSubSeqs ==
    ASSUME NEW S, NEW s \in Seq(S), NEW m \in Nat, m <= Len(s)
    PROVE  /\ SubSeq(s, 1, m) \in Seq(S) /\ SubSeq(s, m + 1, Len(s)) \in Seq(S)
           /\ s = Cat(SubSeq(s, 1, m), SubSeq(s, m + 1, Len(s)))
<1>1. Len(s) \in Nat /\ \A k \in 1 .. Len(s) : s[k] \in S BY LenProperties, ElementOfSeq
<1>2. \A k \in 1 .. m : s[k] \in S BY <1>1
<1>3. \A k \in m + 1 .. Len(s) : s[k] \in S BY <1>1
<1>4. 1 \in 1 .. Len(s) + 1 /\ m \in 1 - 1 .. Len(s) /\ Len(s) \in m .. Len(s) BY <1>1
<1>5. SubSeq(s, 1, m) \o SubSeq(s, m + 1, Len(s)) = SubSeq(s, 1, Len(s))
  BY <1>4, ConcatAdjacentSubSeq
<1>6. SubSeq(s, 1, Len(s)) = s BY SubSeqFull
<1>7. SubSeq(s, 1, m) \in Seq(S) BY <1>2, SubSeqProperties
<1>8. SubSeq(s, m + 1, Len(s)) \in Seq(S) BY <1>1, <1>3, SubSeqProperties
<1>. QED BY <1>5, <1>6, <1>7, <1>8 DEF Cat

----------------------------------------------------------------------------
(* Fresh, the pieces of a sequence that belong to a line                   *)

\* The recursion by which Fresh is defined, over the first m elements of s.
Selects(f, s, m) ==
    f = [k \in 0 .. m |-> IF k = 0 THEN <<>>
                          ELSE IF OfLine(s[k]) THEN Append(f[k - 1], s[k]) ELSE f[k - 1]]

LEMMA SelectionStep ==
    ASSUME NEW f, NEW s, NEW m \in Nat, Selects(f, s, m), NEW k \in 0 .. m
    PROVE  f[k] = IF k = 0 THEN <<>>
                  ELSE IF OfLine(s[k]) THEN Append(f[k - 1], s[k]) ELSE f[k - 1]
BY DEF Selects

LEMMA SelectionExists ==
    ASSUME NEW s, NEW m \in Nat
    PROVE  \E f : Selects(f, s, m)
<1>. DEFINE T == {k \in Nat : \E f : Selects(f, s, k)}
<1>1. 0 \in T
  <2>1. Selects([k \in 0 .. 0 |-> <<>>], s, 0) BY DEF Selects
  <2>. QED BY <2>1
<1>2. ASSUME NEW k \in Nat, k \in T PROVE k + 1 \in T
  <2>1. PICK f : Selects(f, s, k) BY <1>2
  <2>. DEFINE step == IF OfLine(s[k + 1]) THEN Append(f[k], s[k + 1]) ELSE f[k]
              g == [j \in 0 .. k + 1 |-> IF j = k + 1 THEN step ELSE f[j]]
  <2>2. \A j \in 0 .. k + 1 : j # 0 => g[j - 1] = f[j - 1] OBVIOUS
  <2>3. ASSUME NEW j \in 0 .. k + 1
        PROVE  g[j] = IF j = 0 THEN <<>>
                      ELSE IF OfLine(s[j]) THEN Append(g[j - 1], s[j]) ELSE g[j - 1]
    <3>1. CASE j = k + 1 BY <3>1, <2>2
    <3>2. CASE j # k + 1
      <4>1. j \in 0 .. k /\ g[j] = f[j] BY <3>2
      <4>. QED BY <2>1, <2>2, <4>1 DEF Selects
    <3>. QED BY <3>1, <3>2
  <2>4. Selects(g, s, k + 1)
    <3>1. g = [j \in 0 .. k + 1 |-> g[j]] OBVIOUS
    <3>. HIDE DEF g
    <3>. QED BY <2>3, <3>1 DEF Selects
  <2>. QED BY <2>4
<1>. HIDE DEF T
<1>3. Nat \subseteq T BY <1>1, <1>2, EveryNat
<1>. QED BY <1>3 DEF T

\* Fresh is what that recursion says.
LEMMA FreshSelects ==
    ASSUME NEW S, NEW s \in Seq(S)
    PROVE  \E f : Selects(f, s, Len(s)) /\ Fresh(s) = f[Len(s)]
<1>. DEFINE F == CHOOSE f : Selects(f, s, Len(s))
<1>1. Selects(F, s, Len(s)) BY SelectionExists, LenProperties
<1>2. Fresh(s) = F[Len(s)] BY DEF Fresh, Selects
<1>. QED BY <1>1, <1>2

\* The selection among the first m elements looks at those only.
LEMMA SelectionsAgree ==
    ASSUME NEW f, NEW s, NEW i \in Nat, Selects(f, s, i),
           NEW g, NEW t, NEW j \in Nat, Selects(g, t, j),
           NEW m \in Nat, m <= i, m <= j, \A k \in 1 .. m : s[k] = t[k]
    PROVE  f[m] = g[m]
<1>. DEFINE T == {k \in Nat : k <= m => f[k] = g[k]}
<1>1. 0 \in T BY DEF Selects
<1>2. ASSUME NEW k \in Nat, k \in T PROVE k + 1 \in T
  <2>. SUFFICES ASSUME k + 1 <= m PROVE f[k + 1] = g[k + 1] OBVIOUS
  <2>1. k + 1 \in 0 .. i /\ k + 1 \in 0 .. j /\ k + 1 \in 1 .. m /\ k + 1 # 0 /\ (k + 1) - 1 = k OBVIOUS
  <2>2. f[k + 1] = IF OfLine(s[k + 1]) THEN Append(f[k], s[k + 1]) ELSE f[k]
    BY <2>1, SelectionStep
  <2>3. g[k + 1] = IF OfLine(t[k + 1]) THEN Append(g[k], t[k + 1]) ELSE g[k]
    BY <2>1, SelectionStep
  <2>. QED BY <1>2, <2>1, <2>2, <2>3
<1>. HIDE DEF T
<1>3. Nat \subseteq T BY <1>1, <1>2, EveryNat
<1>. QED BY <1>3 DEF T

LEMMA FreshEmpty == Fresh(<<>>) = <<>>
<1>1. <<>> \in Seq({}) /\ Len(<<>>) = 0 BY EmptySeq
<1>2. PICK f : Selects(f, <<>>, Len(<<>>)) /\ Fresh(<<>>) = f[Len(<<>>)] BY <1>1, FreshSelects
<1>. QED BY <1>1, <1>2 DEF Selects

LEMMA FreshAppend ==
    ASSUME NEW S, NEW s \in Seq(S), NEW e \in S
    PROVE  Fresh(Append(s, e)) = IF OfLine(e) THEN Append(Fresh(s), e) ELSE Fresh(s)
<1>. DEFINE t == Append(s, e)
<1>0. PICK m : m = Len(s) OBVIOUS
<1>1. /\ m \in Nat /\ t \in Seq(S) /\ Len(t) = m + 1
      /\ t[m + 1] = e /\ \A k \in 1 .. m : s[k] = t[k]
  BY <1>0, AppendProperties, LenProperties
<1>. HIDE DEF t
<1>2. PICK f : Selects(f, s, m) /\ Fresh(s) = f[m] BY <1>0, FreshSelects
<1>3. PICK g : Selects(g, t, m + 1) /\ Fresh(t) = g[m + 1] BY <1>1, FreshSelects
<1>4. f[m] = g[m]
  <2>1. m \in Nat /\ m + 1 \in Nat /\ m <= m /\ m <= m + 1 BY <1>1
  <2>2. \A k \in 1 .. m : s[k] = t[k] BY <1>1
  <2>3. Selects(f, s, m) /\ Selects(g, t, m + 1) BY <1>2, <1>3
  <2>. QED BY <2>1, <2>2, <2>3, SelectionsAgree
<1>5. g[m + 1] = IF OfLine(e) THEN Append(g[m], e) ELSE g[m]
  <2>1. m + 1 \in Nat /\ m + 1 \in 0 .. m + 1 /\ m + 1 # 0 /\ (m + 1) - 1 = m BY <1>1
  <2>. QED BY <1>1, <1>3, <2>1, SelectionStep
<1>. QED BY <1>2, <1>3, <1>4, <1>5 DEF t

LEMMA FreshType ==
    ASSUME NEW S, NEW s \in Seq(S)
    PROVE  Fresh(s) \in Seq(S)
<1>. DEFINE T == {t \in Seq(S) : Fresh(t) \in Seq(S)}
<1>1. <<>> \in T BY EmptySeq, FreshEmpty
<1>2. ASSUME NEW t \in Seq(S), NEW e \in S, t \in T PROVE Append(t, e) \in T
  <2>1. Append(t, e) \in Seq(S) BY AppendProperties
  <2>2. Fresh(Append(t, e)) \in Seq(S)
    <3>1. Fresh(t) \in Seq(S) BY <1>2
    <3>2. Append(Fresh(t), e) \in Seq(S) BY <3>1, AppendProperties
    <3>. QED BY <3>1, <3>2, FreshAppend
  <2>. QED BY <2>1, <2>2
<1>. HIDE DEF T
<1>3. Seq(S) \subseteq T BY <1>1, <1>2, EverySequence
<1>. QED BY <1>3 DEF T

LEMMA FreshCat ==
    ASSUME NEW S, NEW s \in Seq(S), NEW t \in Seq(S)
    PROVE  Fresh(Cat(s, t)) = Cat(Fresh(s), Fresh(t))
<1>. DEFINE T == {u \in Seq(S) : Fresh(Cat(s, u)) = Cat(Fresh(s), Fresh(u))}
<1>0. Fresh(s) \in Seq(S) BY FreshType
<1>1. <<>> \in T
  <2>1. <<>> \in Seq(S) BY EmptySeq
  <2>2. Cat(s, <<>>) = s /\ Cat(Fresh(s), <<>>) = Fresh(s) BY <1>0, CatEmpty
  <2>. QED BY <2>1, <2>2, FreshEmpty
<1>2. ASSUME NEW u \in Seq(S), NEW e \in S, u \in T PROVE Append(u, e) \in T
  <2>1. Fresh(Cat(s, u)) = Cat(Fresh(s), Fresh(u)) BY <1>2
  <2>2. PICK a, b : a = Fresh(s) /\ b = Fresh(u) OBVIOUS
  <2>3. a \in Seq(S) /\ b \in Seq(S) BY <2>2, FreshType
  <2>4. Cat(s, u) \in Seq(S) /\ Cat(a, b) \in Seq(S) /\ Append(u, e) \in Seq(S)
    BY <2>3, CatAppend
  <2>5. Cat(s, Append(u, e)) = Append(Cat(s, u), e) BY CatAppend
  <2>6. Cat(a, Append(b, e)) = Append(Cat(a, b), e) BY <2>3, CatAppend
  <2>7. Fresh(Append(Cat(s, u), e)) = IF OfLine(e) THEN Append(Cat(a, b), e) ELSE Cat(a, b)
    BY <2>1, <2>2, <2>4, FreshAppend
  <2>8. Fresh(Append(u, e)) = IF OfLine(e) THEN Append(b, e) ELSE b BY <2>2, FreshAppend
  <2>. QED BY <2>2, <2>4, <2>5, <2>6, <2>7, <2>8
<1>. HIDE DEF T
<1>3. Seq(S) \subseteq T BY <1>1, <1>2, EverySequence
<1>. QED BY <1>3 DEF T

\* Of pieces that all belong to a line none is left out, of others all are.
LEMMA FreshWhole ==
    ASSUME NEW S, NEW s \in Seq(S), \A k \in 1 .. Len(s) : OfLine(s[k])
    PROVE  Fresh(s) = s
<1>. DEFINE T == {t \in Seq(S) : (\A k \in 1 .. Len(t) : OfLine(t[k])) => Fresh(t) = t}
<1>1. <<>> \in T BY EmptySeq, FreshEmpty
<1>2. ASSUME NEW t \in Seq(S), NEW e \in S, t \in T PROVE Append(t, e) \in T
  <2>. DEFINE u == Append(t, e)
  <2>1. /\ u \in Seq(S) /\ Len(t) \in Nat /\ Len(u) = Len(t) + 1 /\ u[Len(t) + 1] = e
        /\ \A k \in 1 .. Len(t) : u[k] = t[k]
    BY AppendProperties, LenProperties
  <2>2. ASSUME \A k \in 1 .. Len(u) : OfLine(u[k]) PROVE Fresh(u) = u
    <3>. HIDE DEF u
    <3>1. OfLine(e) BY <2>1, <2>2
    <3>2. \A k \in 1 .. Len(t) : OfLine(t[k]) BY <2>1, <2>2
    <3>3. Fresh(t) = t BY <1>2, <3>2
    <3>. QED BY <3>1, <3>3, FreshAppend DEF u
  <2>. QED BY <2>1, <2>2
<1>. HIDE DEF T
<1>3. Seq(S) \subseteq T BY <1>1, <1>2, EverySequence
<1>. QED BY <1>3 DEF T

LEMMA FreshNone ==
    ASSUME NEW S, NEW s \in Seq(S), \A k \in 1 .. Len(s) : ~ OfLine(s[k])
    PROVE  Fresh(s) = <<>>
<1>. DEFINE T == {t \in Seq(S) : (\A k \in 1 .. Len(t) : ~ OfLine(t[k])) => Fresh(t) = <<>>}
<1>1. <<>> \in T BY EmptySeq, FreshEmpty
<1>2. ASSUME NEW t \in Seq(S), NEW e \in S, t \in T PROVE Append(t, e) \in T
  <2>. DEFINE u == Append(t, e)
  <2>1. /\ u \in Seq(S) /\ Len(t) \in Nat /\ Len(u) = Len(t) + 1 /\ u[Len(t) + 1] = e
        /\ \A k \in 1 .. Len(t) : u[k] = t[k]
    BY AppendProperties, LenProperties
  <2>2. ASSUME \A k \in 1 .. Len(u) : ~ OfLine(u[k]) PROVE Fresh(u) = <<>>
    <3>. HIDE DEF u
    <3>1. ~ OfLine(e) BY <2>1, <2>2
    <3>2. \A k \in 1 .. Len(t) : ~ OfLine(t[k]) BY <2>1, <2>2
    <3>3. Fresh(t) = <<>> BY <1>2, <3>2
    <3>. QED BY <3>1, <3>3, FreshAppend DEF u
  <2>. QED BY <2>1, <2>2
<1>. HIDE DEF T
<1>3. Seq(S) \subseteq T BY <1>1, <1>2, EverySequence
<1>. QED BY <1>3 DEF T

\* A buffer whose first m pieces belong to lines and whose others do not.
LEMMA FreshBeginning ==
    ASSUME NEW S, NEW s \in Seq(S), NEW m \in 0 .. Len(s),
           \A k \in 1 .. m : OfLine(s[k]),
           \A k \in m + 1 .. Len(s) : ~ OfLine(s[k])
    PROVE  Fresh(s) = SubSeq(s, 1, m)
<1>. DEFINE a == SubSeq(s, 1, m)
            b == SubSeq(s, m + 1, Len(s))
<1>1. Len(s) \in Nat /\ m \in Nat /\ m <= Len(s) /\ \A k \in 1 .. Len(s) : s[k] \in S
  BY LenProperties, ElementOfSeq
<1>2. a \in Seq(S) /\ Len(a) = m /\ \A k \in 1 .. m : a[k] = s[k]
  <2>1. \A k \in 1 .. m : s[k] \in S BY <1>1
  <2>. QED BY <1>1, <2>1, SubSeqProperties
<1>3. /\ b \in Seq(S) /\ Len(b) = Len(s) - m
      /\ \A k \in 1 .. Len(s) - m : b[k] = s[m + k]
  <2>1. \A k \in m + 1 .. Len(s) : s[k] \in S BY <1>1
  <2>2. /\ b \in Seq(S)
        /\ Len(b) = IF m + 1 <= Len(s) THEN Len(s) - (m + 1) + 1 ELSE 0
        /\ \A k \in 1 .. Len(s) - (m + 1) + 1 : b[k] = s[m + 1 + k - 1]
    BY <1>1, <2>1, SubSeqProperties
  <2>. HIDE DEF b
  <2>. QED BY <1>1, <2>2
<1>4. s = a \o b
  <2>1. a \o b = SubSeq(s, 1, Len(s))
    <3>1. 1 \in 1 .. Len(s) + 1 /\ m \in 1 - 1 .. Len(s) /\ Len(s) \in m .. Len(s)
      BY <1>1
    <3>. QED BY <3>1, ConcatAdjacentSubSeq
  <2>. QED BY <2>1, SubSeqFull
<1>. HIDE DEF a, b
<1>5. Fresh(a) = a BY <1>2, FreshWhole
<1>6. Fresh(b) = <<>>
  <2>1. ASSUME NEW k \in 1 .. Len(b) PROVE ~ OfLine(b[k])
    <3>1. k \in 1 .. Len(s) - m /\ m + k \in m + 1 .. Len(s) BY <1>1, <1>3
    <3>2. b[k] = s[m + k] BY <1>3, <3>1
    <3>. QED BY <3>1, <3>2
  <2>. QED BY <1>3, <2>1, FreshNone
<1>7. Fresh(s) = Cat(a, <<>>)
  <2>1. s = Cat(a, b) BY <1>4 DEF Cat
  <2>2. Fresh(Cat(a, b)) = Cat(Fresh(a), Fresh(b)) BY <1>2, <1>3, FreshCat
  <2>. QED BY <1>5, <1>6, <2>1, <2>2
<1>. QED BY <1>2, <1>7, CatEmpty DEF a

----------------------------------------------------------------------------
(* Beginnings of sequences                                                 *)

LEMMA PrefixOfCat ==
    ASSUME NEW S, NEW s \in Seq(S), NEW t \in Seq(S)
    PROVE  IsPrefix(s, Cat(s, t))
<1>1. /\ Len(s) \in Nat /\ Len(t) \in Nat /\ s \o t \in Seq(S)
      /\ Len(s \o t) = Len(s) + Len(t)
      /\ \A k \in 1 .. Len(s) : s[k] \in S /\ (s \o t)[k] = s[k]
  BY LenProperties, ConcatProperties, ElementOfSeq
<1>2. SubSeq(s \o t, 1, Len(s)) = s
  <2>1. CASE Len(s) = 0
    <3>1. s = <<>> BY <2>1, EmptySeq
    <3>2. SubSeq(s \o t, 1, 0) = <<>> BY SubSeqEmpty
    <3>. QED BY <2>1, <3>1, <3>2
  <2>2. CASE Len(s) # 0
    <3>1. 1 \in 1 .. Len(s) /\ Len(s) \in 1 .. Len(s) BY <1>1, <2>2
    <3>. QED BY <3>1, SubSeqOfConcat1, SubSeqFull
  <2>. QED BY <2>1, <2>2
<1>. QED BY <1>1, <1>2, SubSeqFull DEF IsPrefix, Cat

LEMMA PrefixRest ==
    ASSUME NEW S, NEW s \in Seq(S), NEW t \in Seq(S), IsPrefix(s, t)
    PROVE  \E r \in Seq(S) : t = Cat(s, r)
<1>. DEFINE r == SubSeq(t, Len(s) + 1, Len(t))
<1>1. /\ Len(s) \in Nat /\ Len(t) \in Nat /\ Len(s) <= Len(t)
      /\ \A k \in 1 .. Len(t) : t[k] \in S
  BY LenProperties, ElementOfSeq DEF IsPrefix
<1>2. SubSeq(t, 1, Len(s)) = s BY SubSeqFull DEF IsPrefix
<1>3. SubSeq(t, 1, Len(s)) \o r = SubSeq(t, 1, Len(t))
  <2>1. 1 \in 1 .. Len(t) + 1 /\ Len(s) \in 1 - 1 .. Len(t) /\ Len(t) \in Len(s) .. Len(t)
    BY <1>1
  <2>. QED BY <2>1, ConcatAdjacentSubSeq
<1>4. r \in Seq(S)
  <2>1. \A k \in Len(s) + 1 .. Len(t) : t[k] \in S BY <1>1
  <2>. QED BY <1>1, <2>1, SubSeqProperties
<1>. HIDE DEF r
<1>. QED BY <1>2, <1>3, <1>4, SubSeqFull DEF Cat

LEMMA PrefixShorter ==
    ASSUME NEW S, NEW s \in Seq(S), NEW u \in Seq(S), NEW t \in Seq(S), IsPrefix(Cat(s, u), t)
    PROVE  IsPrefix(s, t)
<1>1. Cat(s, u) \in Seq(S) BY CatType
<1>2. PICK r \in Seq(S) : t = Cat(Cat(s, u), r) BY <1>1, PrefixRest
<1>3. Cat(u, r) \in Seq(S) BY CatType
<1>4. t = Cat(s, Cat(u, r)) BY <1>2, CatAssociative
<1>. QED BY <1>3, <1>4, PrefixOfCat

LEMMA PrefixLonger ==
    ASSUME NEW S, NEW s \in Seq(S), NEW t \in Seq(S), NEW u \in Seq(S), IsPrefix(s, t)
    PROVE  IsPrefix(s, Cat(t, u))
<1>1. PICK r \in Seq(S) : t = Cat(s, r) BY PrefixRest
<1>2. Cat(r, u) \in Seq(S) BY CatType
<1>3. Cat(t, u) = Cat(s, Cat(r, u)) BY <1>1, CatAssociative
<1>. QED BY <1>2, <1>3, PrefixOfCat

----------------------------------------------------------------------------
(* Lines and their pieces                                                  *)

LEMMA OldPieces ==
    ASSUME SessionAssumption
    PROVE  /\ Zero \in AnyPiece /\ ~ OfLine(Zero)
           /\ Garbage \in AnyPiece /\ ~ OfLine(Garbage)
           /\ \A last \in BOOLEAN : Old(last) \in AnyPiece /\ ~ OfLine(Old(last))
BY DEF Zero, Garbage, Old, OfLine, AnyPiece, SessionAssumption

LEMMA PiecesType ==
    ASSUME SessionAssumption, NEW x \in 1 .. MaxLines
    PROVE  /\ Pieces(x) \in Seq(AnyPiece) /\ Len(Pieces(x)) = 2
           /\ Pieces(x)[1] = [line |-> x, last |-> FALSE]
           /\ Pieces(x)[2] = [line |-> x, last |-> TRUE]
<1>1. [line |-> x, last |-> FALSE] \in AnyPiece /\ [line |-> x, last |-> TRUE] \in AnyPiece
  BY DEF AnyPiece, SessionAssumption
<1>. QED BY <1>1 DEF Pieces

LEMMA SplitType ==
    ASSUME SessionAssumption, NEW s \in Seq(1 .. MaxLines)
    PROVE  /\ Split(s) \in Seq(AnyPiece) /\ Len(Split(s)) = 2 * Len(s)
           /\ \A k \in 1 .. 2 * Len(s) :
                 /\ (k + 1) \div 2 \in 1 .. Len(s)
                 /\ Split(s)[k] = [line |-> s[(k + 1) \div 2], last |-> k % 2 = 0]
<1>1. Len(s) \in Nat BY LenProperties
<1>2. ASSUME NEW k \in 1 .. 2 * Len(s)
      PROVE  /\ (k + 1) \div 2 \in 1 .. Len(s)
             /\ [line |-> s[(k + 1) \div 2], last |-> k % 2 = 0] \in AnyPiece
  <2>1. (k + 1) \div 2 \in 1 .. Len(s) BY <1>1
  <2>2. s[(k + 1) \div 2] \in 1 .. MaxLines BY <2>1, ElementOfSeq
  <2>3. (k % 2 = 0) \in BOOLEAN OBVIOUS
  <2>. QED BY <2>1, <2>2, <2>3 DEF AnyPiece, SessionAssumption
<1>3. Split(s) \in [1 .. 2 * Len(s) -> AnyPiece] BY <1>2 DEF Split
<1>4. 2 * Len(s) \in Nat BY <1>1
<1>5. Split(s) \in Seq(AnyPiece) /\ Len(Split(s)) = 2 * Len(s) BY <1>3, <1>4
<1>6. \A k \in 1 .. 2 * Len(s) :
         Split(s)[k] = [line |-> s[(k + 1) \div 2], last |-> k % 2 = 0]
  BY DEF Split
<1>. QED BY <1>2, <1>5, <1>6

LEMMA SplitEmpty == SessionAssumption => Split(<<>>) = <<>>
<1>. SUFFICES ASSUME SessionAssumption PROVE Split(<<>>) = <<>> OBVIOUS
<1>1. <<>> \in Seq(1 .. MaxLines) /\ Len(<<>>) = 0 BY EmptySeq
<1>2. Split(<<>>) \in Seq(AnyPiece) /\ Len(Split(<<>>)) = 2 * Len(<<>>) BY <1>1, SplitType
<1>3. Len(Split(<<>>)) = 0 BY <1>1, <1>2
<1>. QED BY <1>2, <1>3, EmptySeq

LEMMA SplitAppend ==
    ASSUME SessionAssumption, NEW s \in Seq(1 .. MaxLines), NEW x \in 1 .. MaxLines
    PROVE  Split(Append(s, x)) = Split(s) \o Pieces(x)
<1>. DEFINE t == Append(s, x)
            a == Split(t)
            b == Split(s) \o Pieces(x)
<1>1. PICK m \in Nat : m = Len(s) BY LenProperties
<1>2. /\ t \in Seq(1 .. MaxLines) /\ Len(t) = m + 1
      /\ t[m + 1] = x /\ \A k \in 1 .. m : t[k] = s[k]
  BY <1>1, AppendProperties
<1>. HIDE DEF t
<1>3. /\ a \in Seq(AnyPiece) /\ Len(a) = 2 * m + 2
      /\ \A k \in 1 .. 2 * m + 2 :
            a[k] = [line |-> t[(k + 1) \div 2], last |-> k % 2 = 0]
  <2>1. 2 * (m + 1) = 2 * m + 2 OBVIOUS
  <2>. QED BY <1>2, <2>1, SplitType
<1>4. /\ Split(s) \in Seq(AnyPiece) /\ Len(Split(s)) = 2 * m
      /\ \A k \in 1 .. 2 * m :
            /\ (k + 1) \div 2 \in 1 .. m
            /\ Split(s)[k] = [line |-> s[(k + 1) \div 2], last |-> k % 2 = 0]
  BY <1>1, SplitType
<1>5. /\ b \in Seq(AnyPiece) /\ Len(b) = 2 * m + 2
      /\ \A k \in 1 .. 2 * m + 2 :
            b[k] = IF k <= 2 * m THEN Split(s)[k] ELSE Pieces(x)[k - 2 * m]
  <2>1. Pieces(x) \in Seq(AnyPiece) /\ Len(Pieces(x)) = 2 BY PiecesType
  <2>2. /\ b \in Seq(AnyPiece) /\ Len(b) = Len(Split(s)) + Len(Pieces(x))
        /\ \A k \in 1 .. Len(Split(s)) + Len(Pieces(x)) :
              b[k] = IF k <= Len(Split(s)) THEN Split(s)[k] ELSE Pieces(x)[k - Len(Split(s))]
    BY <1>4, <2>1, ConcatProperties
  <2>. HIDE DEF b
  <2>3. Len(Split(s)) = 2 * m /\ Len(Pieces(x)) = 2 BY <1>4, <2>1
  <2>. QED BY <2>2, <2>3
<1>. HIDE DEF a, b
<1>6. ASSUME NEW k \in 1 .. 2 * m + 2 PROVE a[k] = b[k]
  <2>1. CASE k <= 2 * m
    <3>1. k \in 1 .. 2 * m BY <2>1
    <3>2. (k + 1) \div 2 \in 1 .. m BY <1>4, <3>1
    <3>3. t[(k + 1) \div 2] = s[(k + 1) \div 2] BY <1>2, <3>2
    <3>4. b[k] = Split(s)[k] BY <1>5, <2>1
    <3>. QED BY <1>3, <1>4, <3>1, <3>3, <3>4
  <2>2. CASE k = 2 * m + 1
    <3>1. (k + 1) \div 2 = m + 1 /\ (k % 2 = 0) = FALSE /\ k - 2 * m = 1 BY <2>2
    <3>2. a[k] = [line |-> x, last |-> FALSE] BY <1>2, <1>3, <3>1
    <3>3. b[k] = Pieces(x)[1] BY <1>5, <2>2, <3>1
    <3>. QED BY <3>2, <3>3, PiecesType
  <2>3. CASE k = 2 * m + 2
    <3>1. (k + 1) \div 2 = m + 1 /\ (k % 2 = 0) = TRUE /\ k - 2 * m = 2 BY <2>3
    <3>2. a[k] = [line |-> x, last |-> TRUE] BY <1>2, <1>3, <3>1
    <3>3. b[k] = Pieces(x)[2] BY <1>5, <2>3, <3>1
    <3>. QED BY <3>2, <3>3, PiecesType
  <2>. QED BY <2>1, <2>2, <2>3
<1>7. a = b
  <2>1. Len(a) = Len(b) /\ \A k \in 1 .. Len(a) : a[k] = b[k] BY <1>3, <1>5, <1>6
  <2>. QED BY <1>3, <1>5, <2>1, SeqEqual
<1>. QED BY <1>7 DEF a, b, t

----------------------------------------------------------------------------
(* The inductive invariant                                                 *)

AllFresh(pieces) == \A k \in 1 .. Len(pieces) : OfLine(pieces[k])

\* What the client has shown, what it has in recvline and what comes down to it,
\* of lines.
Returned == printed \o Fresh(partial) \o Fresh(downlink)

\* While the link is up, nothing is lost on the way to the server and back.
NothingLost == link = "up" => Returned \o SubSeq(buf, 1, n) \o uplink = Split(sent)

\* The server's buffer begins with what it read, and what is behind it is old.
BufIsRead == /\ AllFresh(uplink)
             /\ \A k \in 1 .. n : OfLine(buf[k])
             /\ n > 0 => \A k \in n + 1 .. ServerBuf : ~ OfLine(buf[k])

\* server_new.c sends bytes of lines only, so that client.c has at most the first
\* piece of one in recvline.
WholeLines == /\ client = "client2" => partial = <<>>
              /\ server = "server_new" => AllFresh(downlink) /\ AllFresh(partial)
              /\ link = "up" /\ client = "client" /\ server = "server_new" =>
                    Len(partial) <= 1 /\ Len(printed) % 2 = 0

\* What printf finds in recvline was shown, whatever readline has put over its
\* beginning; client2.c prints from no such buffer.
HeldWasShown ==
    /\ client = "client2" => \A k \in 1 .. Len(recvline) : recvline[k] = Zero
    /\ client = "client" /\ link \in {"up", "reset"} =>
          \A k \in 1 .. Len(recvline) : Occurs(Fresh(TextFrom(recvline, k)), printed)

\* After that nothing more is shown.
RepeatedLast ==
    repeated # <<>> => /\ client = "client" /\ link = "broken"
                       /\ partial = <<>> /\ downlink = <<>>
                       /\ Occurs(repeated, printed)

IInv == /\ TypeOK
        /\ InputInOrder
        /\ IsPrefix(Returned, Split(sent))
        /\ NothingLost
        /\ BufIsRead
        /\ WholeLines
        /\ HeldWasShown
        /\ RepeatedLast

----------------------------------------------------------------------------
(* Minima, and what the server replies                                     *)

LEMMA MinIsFirst ==
    ASSUME NEW S \in SUBSET Nat, S # {}
    PROVE  Min(S) \in S /\ \A k \in S : Min(S) <= k
<1>1. PICK x \in S : \A y \in S : ~ <<y, x>> \in OpToRel(<, Nat)
  BY NatLessThanWellFounded, WFMin
<1>2. ASSUME NEW y \in S PROVE x <= y
  <2>. SUFFICES ASSUME y < x PROVE FALSE OBVIOUS
  <2>1. <<y, x>> \in Nat \X Nat OBVIOUS
  <2>2. <<y, x>> \in OpToRel(<, Nat) BY <2>1 DEF OpToRel
  <2>. QED BY <1>1, <2>2
<1>. QED BY <1>2 DEF Min

LEMMA MinOfTwo ==
    ASSUME NEW a \in Nat, NEW b \in Nat
    PROVE  Min({a, b}) \in Nat /\ Min({a, b}) <= a /\ Min({a, b}) <= b
BY MinIsFirst

LEMMA StringsAre ==
    ASSUME SessionAssumption, TypeOK, NEW text \in Strings
    PROVE  \/ text = buf
           \/ text = Append(buf, Garbage)
           \/ \E z \in 1 .. Len(buf) : buf[z] = Zero /\ text = SubSeq(buf, 1, z - 1)
<1>. DEFINE zeros == {k \in DOMAIN buf : buf[k] = Zero}
<1>1. buf \in Seq(AnyPiece) BY DEF TypeOK
<1>2. Len(buf) \in Nat /\ DOMAIN buf = 1 .. Len(buf) BY <1>1, LenProperties
<1>3. CASE zeros = {} BY <1>3 DEF Strings
<1>4. CASE zeros # {}
  <2>1. zeros \in SUBSET Nat BY <1>2
  <2>2. Min(zeros) \in zeros BY <1>4, <2>1, MinIsFirst
  <2>3. text = SubSeq(buf, 1, Min(zeros) - 1) BY <1>4 DEF Strings
  <2>. QED BY <1>2, <2>2, <2>3
<1>. QED BY <1>3, <1>4

LEMMA SameBeginning ==
    ASSUME NEW S, NEW s \in Seq(S), NEW t \in Seq(S), NEW m \in Nat,
           m <= Len(s), m <= Len(t), \A k \in 1 .. m : s[k] = t[k]
    PROVE  SubSeq(s, 1, m) = SubSeq(t, 1, m)
<1>. DEFINE a == SubSeq(s, 1, m)
            b == SubSeq(t, 1, m)
<1>1. \A k \in 1 .. m : s[k] \in S /\ t[k] \in S
  <2>1. Len(s) \in Nat /\ Len(t) \in Nat BY LenProperties
  <2>. QED BY <2>1, ElementOfSeq
<1>2. a \in Seq(S) /\ Len(a) = m /\ \A k \in 1 .. m : a[k] = s[k]
  BY <1>1, SubSeqProperties
<1>3. b \in Seq(S) /\ Len(b) = m /\ \A k \in 1 .. m : b[k] = t[k]
  BY <1>1, SubSeqProperties
<1>. HIDE DEF a, b
<1>4. a = b BY <1>2, <1>3, SeqEqual
<1>. QED BY <1>4 DEF a, b

\* A reply is a sequence of pieces that begins like buf, with old bytes, if any,
\* after the n that were read: str_echo's strlen does not stop before them.
LEMMA ReplyIsBuf ==
    ASSUME SessionAssumption, TypeOK,
           NEW text \in IF server = "server" THEN Strings ELSE {buf}
    PROVE  /\ Reply(text) \in Seq(AnyPiece)
           /\ BufIsRead /\ n > 0 => Fresh(Reply(text)) = SubSeq(buf, 1, n)
           /\ BufIsRead /\ server = "server_new" => AllFresh(Reply(text))
<1>. DEFINE r == Reply(text)
            known == SubSeq(buf, 1, n)
<1>1. /\ buf \in Seq(AnyPiece) /\ Len(buf) = ServerBuf /\ ServerBuf \in Nat
      /\ n \in Nat /\ n <= Len(buf) /\ \A k \in 1 .. Len(buf) : buf[k] \in AnyPiece
  <2>1. ServerBuf \in Nat BY DEF SessionAssumption
  <2>2. buf \in Seq(AnyPiece) /\ Len(buf) = ServerBuf /\ n \in 0 .. ServerBuf BY DEF TypeOK
  <2>. QED BY <2>1, <2>2, ElementOfSeq
<1>2. known \in Seq(AnyPiece) /\ Len(known) = n /\ \A k \in 1 .. n : known[k] = buf[k]
  <2>1. \A k \in 1 .. n : buf[k] \in AnyPiece BY <1>1
  <2>. QED BY <1>1, <2>1, SubSeqProperties
<1>3. ASSUME r = known
      PROVE  /\ r \in Seq(AnyPiece)
             /\ BufIsRead => Fresh(r) = known /\ AllFresh(r)
  <2>. HIDE DEF r, known
  <2>1. ASSUME BufIsRead PROVE \A k \in 1 .. Len(known) : OfLine(known[k])
    BY <1>2, <2>1 DEF BufIsRead
  <2>2. ASSUME BufIsRead PROVE Fresh(known) = known BY <1>2, <2>1, <2>2, FreshWhole
  <2>. QED BY <1>2, <1>3, <2>1, <2>2 DEF AllFresh
<1>4. ASSUME /\ r \in Seq(AnyPiece)
             /\ BufIsRead /\ n > 0 => /\ n <= Len(r)
                                      /\ \A k \in 1 .. n : r[k] = buf[k]
                                      /\ \A k \in n + 1 .. Len(r) : ~ OfLine(r[k])
      PROVE  BufIsRead /\ n > 0 => Fresh(r) = known
  <2>. SUFFICES ASSUME BufIsRead, n > 0 PROVE Fresh(r) = known OBVIOUS
  <2>. HIDE DEF r
  <2>1. Len(r) \in Nat BY <1>4, LenProperties
  <2>2. n \in 0 .. Len(r) BY <1>1, <1>4, <2>1
  <2>3. \A k \in 1 .. n : OfLine(r[k]) BY <1>4 DEF BufIsRead
  <2>4. Fresh(r) = SubSeq(r, 1, n) BY <1>4, <2>2, <2>3, FreshBeginning
  <2>5. SubSeq(r, 1, n) = SubSeq(buf, 1, n) BY <1>1, <1>4, SameBeginning
  <2>. QED BY <2>4, <2>5
<1>5. CASE server # "server"
  <2>1. r = known BY <1>5 DEF Reply
  <2>. QED BY <1>3, <2>1
<1>6. CASE server = "server"
  <2>1. text \in Strings /\ r = text BY <1>6 DEF Reply
  <2>2. BufIsRead /\ n > 0 => \A k \in n + 1 .. Len(buf) : ~ OfLine(buf[k])
    BY <1>1 DEF BufIsRead
  <2>. HIDE DEF r, known
  <2>3. ASSUME r = buf
        PROVE  r \in Seq(AnyPiece) /\ (BufIsRead /\ n > 0 => Fresh(r) = known)
    BY <1>1, <1>4, <2>2, <2>3
  <2>4. ASSUME r = Append(buf, Garbage)
        PROVE  r \in Seq(AnyPiece) /\ (BufIsRead /\ n > 0 => Fresh(r) = known)
    <3>1. Garbage \in AnyPiece /\ ~ OfLine(Garbage) BY OldPieces
    <3>2. /\ r \in Seq(AnyPiece) /\ Len(r) = Len(buf) + 1 /\ r[Len(buf) + 1] = Garbage
          /\ \A k \in 1 .. Len(buf) : r[k] = buf[k]
      BY <1>1, <2>4, <3>1, AppendProperties
    <3>3. n <= Len(r) /\ \A k \in 1 .. n : r[k] = buf[k] BY <1>1, <3>2
    <3>4. BufIsRead /\ n > 0 => \A k \in n + 1 .. Len(r) : ~ OfLine(r[k])
      BY <1>1, <2>2, <3>1, <3>2
    <3>. QED BY <1>4, <3>2, <3>3, <3>4
  <2>5. ASSUME NEW z \in 1 .. Len(buf), buf[z] = Zero, r = SubSeq(buf, 1, z - 1)
        PROVE  /\ r \in Seq(AnyPiece)
               /\ BufIsRead /\ n > 0 => Fresh(r) = known
    <3>1. z \in Nat /\ z - 1 \in Nat /\ z - 1 < Len(buf) BY <1>1
    <3>2. \A k \in 1 .. z - 1 : buf[k] \in AnyPiece BY <1>1, <3>1
    <3>3. r \in Seq(AnyPiece) /\ Len(r) = z - 1 /\ \A k \in 1 .. z - 1 : r[k] = buf[k]
      BY <2>5, <3>1, <3>2, SubSeqProperties
    <3>4. ASSUME BufIsRead, n > 0
          PROVE  /\ n <= Len(r)
                 /\ \A k \in 1 .. n : r[k] = buf[k]
                 /\ \A k \in n + 1 .. Len(r) : ~ OfLine(r[k])
      <4>1. ~ OfLine(buf[z]) BY <2>5, OldPieces
      <4>2. ~ z \in 1 .. n BY <3>4, <4>1 DEF BufIsRead
      <4>3. n <= z - 1 BY <1>1, <3>1, <4>2
      <4>. QED BY <1>1, <2>2, <3>1, <3>3, <3>4, <4>3
    <3>. QED BY <1>4, <3>3, <3>4
  <2>6. \/ r = buf
        \/ r = Append(buf, Garbage)
        \/ \E z \in 1 .. Len(buf) : buf[z] = Zero /\ r = SubSeq(buf, 1, z - 1)
    BY <2>1, StringsAre
  <2>7. r \in Seq(AnyPiece) /\ (BufIsRead /\ n > 0 => Fresh(r) = known)
    BY <2>3, <2>4, <2>5, <2>6
  <2>. QED BY <1>6, <2>7 DEF r, known
<1>. QED BY <1>5, <1>6

----------------------------------------------------------------------------
(* What recvline holds, and what printf finds in it                        *)

LEMMA TerminatedType ==
    ASSUME SessionAssumption, TypeOK, NEW text \in Seq(AnyPiece), Len(text) <= ClientBuf
    PROVE  /\ Terminated(text) \in Seq(AnyPiece) /\ Len(Terminated(text)) = ClientBuf + 1
           /\ \A k \in 1 .. ClientBuf + 1 :
                 Terminated(text)[k] = IF k <= Len(text) THEN text[k]
                                       ELSE IF k = Len(text) + 1 THEN Zero
                                       ELSE recvline[k]
<1>1. recvline \in Seq(AnyPiece) /\ Len(recvline) = ClientBuf + 1 BY DEF TypeOK
<1>2. ClientBuf + 1 \in Nat /\ DOMAIN recvline = 1 .. ClientBuf + 1 /\ Len(text) \in Nat
  BY <1>1, LenProperties DEF SessionAssumption
<1>3. /\ \A k \in 1 .. ClientBuf + 1 : recvline[k] \in AnyPiece
      /\ \A k \in 1 .. ClientBuf + 1 : k <= Len(text) => text[k] \in AnyPiece
  BY <1>1, <1>2, ElementOfSeq
<1>4. Terminated(text) \in [1 .. ClientBuf + 1 -> AnyPiece]
  BY <1>2, <1>3, OldPieces DEF Terminated
<1>. QED BY <1>2, <1>4 DEF Terminated

\* Where the text ends that begins at the k-th place: before the first zero byte.
TextEnd(held, k) == LET zeros == {i \in k .. Len(held) : held[i] = Zero}
                    IN  IF zeros = {} THEN Len(held) ELSE Min(zeros) - 1

LEMMA TextEndIs ==
    ASSUME NEW S, NEW held \in Seq(S), NEW k \in 1 .. Len(held)
    PROVE  /\ TextEnd(held, k) \in k - 1 .. Len(held)
           /\ \A i \in k .. Len(held) : held[i] = Zero => TextEnd(held, k) < i
<1>. DEFINE zeros == {i \in k .. Len(held) : held[i] = Zero}
<1>1. Len(held) \in Nat /\ k \in Nat /\ k >= 1 /\ k <= Len(held) BY LenProperties
<1>2. CASE zeros = {}
  <2>1. TextEnd(held, k) = Len(held) BY <1>2 DEF TextEnd
  <2>. QED BY <1>1, <1>2, <2>1
<1>3. CASE zeros # {}
  <2>1. TextEnd(held, k) = Min(zeros) - 1 BY <1>3 DEF TextEnd
  <2>2. zeros \in SUBSET Nat BY <1>1
  <2>3. Min(zeros) \in zeros /\ \A i \in zeros : Min(zeros) <= i BY <1>3, <2>2, MinIsFirst
  <2>4. Min(zeros) \in k .. Len(held) BY <2>3
  <2>5. \A i \in k .. Len(held) : held[i] = Zero => Min(zeros) <= i BY <2>3
  <2>. HIDE DEF zeros
  <2>. QED BY <1>1, <2>1, <2>4, <2>5
<1>. QED BY <1>2, <1>3

LEMMA TextFromIs ==
    ASSUME NEW S, NEW held \in Seq(S), NEW k \in 1 .. Len(held)
    PROVE  /\ TextFrom(held, k) \in Seq(S)
           /\ TextFrom(held, k) = SubSeq(held, k, TextEnd(held, k))
<1>1. Len(held) \in Nat /\ \A i \in 1 .. Len(held) : held[i] \in S
  BY LenProperties, ElementOfSeq
<1>2. PICK m : m = TextEnd(held, k) OBVIOUS
<1>3. m \in k - 1 .. Len(held) BY <1>2, TextEndIs
<1>4. SubSeq(held, k, m) \in Seq(S)
  <2>1. \A i \in k .. m : held[i] \in S BY <1>1, <1>3
  <2>. QED BY <1>1, <1>3, <2>1, SubSeqProperties
<1>5. TextFrom(held, k) = SubSeq(held, k, m) BY <1>2 DEF TextFrom, TextEnd
<1>. QED BY <1>2, <1>4, <1>5

----------------------------------------------------------------------------
(* Type correctness                                                        *)

LEMMA InitTypeOK == SessionAssumption /\ Init => TypeOK
<1>. SUFFICES ASSUME SessionAssumption, Init PROVE TypeOK OBVIOUS
<1>1. Garbage \in AnyPiece /\ Zero \in AnyPiece BY OldPieces
<1>2. ServerBuf \in Nat /\ ClientBuf \in Nat /\ ClientBuf > 1 /\ MaxLines \in Nat
  BY DEF SessionAssumption
<1>3. buf \in Seq(AnyPiece) /\ Len(buf) = ServerBuf
  <2>1. buf \in [1 .. ServerBuf -> AnyPiece] BY <1>1 DEF Init
  <2>. QED BY <1>2, <2>1
<1>4. /\ {input, stdio, sent} \subseteq Seq(1 .. MaxLines)
      /\ {partial, uplink, downlink, buf, printed, repeated} \subseteq Seq(AnyPiece)
      /\ Len(partial) < ClientBuf
  BY <1>2, <1>3, EmptySeq DEF Init
<1>5. entered \in 0 .. MaxLines /\ n \in 0 .. ServerBuf BY <1>2 DEF Init
<1>6. recvline \in Seq(AnyPiece) /\ Len(recvline) = ClientBuf + 1
  <2>1. recvline \in [1 .. ClientBuf + 1 -> AnyPiece] BY <1>1 DEF Init, Unwritten
  <2>2. ClientBuf + 1 \in Nat BY <1>2
  <2>. QED BY <2>1, <2>2
<1>. QED BY <1>3, <1>4, <1>5, <1>6 DEF Init, TypeOK, States

LEMMA NextTypeOK ==
    ASSUME SessionAssumption, TypeOK, [Next]_vars
    PROVE  TypeOK'
<1>. USE DEF programs, user, serving, reading, shown, States
<1>a. ServerBuf \in Nat /\ ClientBuf \in Nat /\ MaxLines \in Nat BY DEF SessionAssumption
<1>0. /\ ServerBuf \in Nat /\ ClientBuf \in Nat /\ MaxLines \in Nat
      /\ {input, stdio, sent} \subseteq Seq(1 .. MaxLines)
      /\ {recvline, partial, uplink, downlink, buf, printed, repeated} \subseteq Seq(AnyPiece)
      /\ Len(recvline) = ClientBuf + 1
      /\ Len(buf) = ServerBuf /\ Len(partial) < ClientBuf
      /\ entered \in 0 .. MaxLines /\ n \in 0 .. ServerBuf
      /\ 0 \in 0 .. ServerBuf
  <2>1. /\ {input, stdio, sent} \subseteq Seq(1 .. MaxLines)
        /\ {recvline, partial, uplink, downlink, buf, printed, repeated} \subseteq Seq(AnyPiece)
    BY DEF TypeOK
  <2>2. /\ Len(recvline) = ClientBuf + 1
        /\ Len(buf) = ServerBuf /\ Len(partial) < ClientBuf
        /\ entered \in 0 .. MaxLines /\ n \in 0 .. ServerBuf
    BY DEF TypeOK
  <2>. QED BY <1>a, <2>1, <2>2
<1>1. CASE UNCHANGED vars BY <1>1 DEF TypeOK, vars
<1>2. CASE EnterLine
  <2>1. entered' \in 1 .. MaxLines /\ entered' \in 0 .. MaxLines
    BY <1>0, <1>2 DEF EnterLine
  <2>2. input' \in Seq(1 .. MaxLines) BY <1>0, <1>2, <2>1, AppendProperties DEF EnterLine
  <2>. QED BY <1>2, <2>1, <2>2 DEF EnterLine, TypeOK
<1>3. CASE EndInput BY <1>3 DEF EndInput, TypeOK
<1>4. ASSUME NEW count \in 1 .. ServerBuf, Read(count) PROVE TypeOK'
  <2>1. count \in Nat /\ count <= Len(uplink) /\ count <= ServerBuf
    <3>1. Len(uplink) \in Nat BY <1>0, LenProperties
    <3>2. count \in 1 .. Min({ServerBuf, Len(uplink)}) BY <1>4 DEF Read
    <3>3. /\ Min({ServerBuf, Len(uplink)}) \in Nat
          /\ Min({ServerBuf, Len(uplink)}) <= Len(uplink)
          /\ Min({ServerBuf, Len(uplink)}) <= ServerBuf
      BY <1>a, <3>1, MinOfTwo
    <3>. QED BY <1>a, <3>1, <3>2, <3>3
  <2>2. \A k \in 1 .. Len(uplink) : uplink[k] \in AnyPiece BY <1>0, ElementOfSeq
  <2>3. Zero \in AnyPiece /\ \A k \in 1 .. ServerBuf : Old(buf[k].last) \in AnyPiece
    <3>1. \A k \in 1 .. ServerBuf : buf[k] \in AnyPiece BY <1>0, ElementOfSeq
    <3>2. \A k \in 1 .. ServerBuf : buf[k].last \in BOOLEAN BY <3>1 DEF AnyPiece
    <3>. QED BY <3>2, OldPieces
  <2>4. buf' \in Seq(AnyPiece) /\ Len(buf') = ServerBuf
    <3>1. DOMAIN buf = 1 .. ServerBuf BY <1>0, LenProperties
    <3>2. \A k \in 1 .. ServerBuf : k <= count => uplink[k] \in AnyPiece
      BY <1>0, <2>1, <2>2, LenProperties
    <3>3. buf' \in [1 .. ServerBuf -> AnyPiece] BY <1>4, <2>3, <3>1, <3>2 DEF Read
    <3>. QED BY <1>0, <3>3
  <2>5. uplink' \in Seq(AnyPiece)
    <3>1. \A k \in count + 1 .. Len(uplink) : uplink[k] \in AnyPiece BY <2>1, <2>2
    <3>2. count + 1 \in Int /\ Len(uplink) \in Int BY <1>0, <2>1, LenProperties
    <3>3. SubSeq(uplink, count + 1, Len(uplink)) \in Seq(AnyPiece)
      BY <3>1, <3>2, SubSeqProperties
    <3>. QED BY <1>4, <3>3 DEF Read
  <2>6. n' \in 0 .. ServerBuf BY <1>0, <1>4, <2>1 DEF Read
  <2>. QED BY <1>4, <2>4, <2>5, <2>6 DEF Read, TypeOK
<1>5. CASE Write
  <2>1. PICK text \in IF server = "server" THEN Strings ELSE {buf} :
               downlink' = downlink \o Reply(text)
    BY <1>5 DEF Write
  <2>2. downlink' \in Seq(AnyPiece) BY <1>0, <2>1, ReplyIsBuf, ConcatProperties
  <2>. QED BY <1>0, <1>5, <2>2 DEF Write, TypeOK
<1>6. CASE ServerEnds
  <2>1. <<>> \in Seq(AnyPiece) BY EmptySeq
  <2>. QED BY <1>0, <1>6, <2>1 DEF ServerEnds, TypeOK
<1>7. CASE Select
  <2>1. rset' \subseteq {"stdin", "socket"} BY <1>7 DEF Select, Reported
  <2>2. pc' \in {"receive", "fgets"} BY <1>7 DEF Select
  <2>. QED BY <1>7, <2>1, <2>2 DEF Select, TypeOK
<1>8. CASE ReadPiece
  <2>. DEFINE line == Append(partial, Head(downlink))
  <2>1. Head(downlink) \in AnyPiece /\ Tail(downlink) \in Seq(AnyPiece)
    BY <1>0, <1>8, HeadTailProperties DEF ReadPiece
  <2>2. line \in Seq(AnyPiece) /\ Len(line) = Len(partial) + 1 /\ Len(partial) \in Nat
    BY <1>0, <2>1, AppendProperties, LenProperties
  <2>. HIDE DEF line
  <2>3. CASE LineEnds(Head(downlink))
    <3>1. printed' = printed \o Fresh(line) /\ partial' = <<>> /\ pc' = AfterSocket
      BY <1>8, <2>3 DEF ReadPiece, line
    <3>2. printed' \in Seq(AnyPiece) BY <1>0, <2>2, <3>1, FreshType, ConcatProperties
    <3>3. partial' \in Seq(AnyPiece) /\ Len(partial') < ClientBuf
      BY <3>1, EmptySeq DEF SessionAssumption
    <3>4. pc' \in {"fgets", "select"} BY <3>1 DEF AfterSocket
    <3>5. recvline' = Terminated(line) BY <1>8, <2>3 DEF ReadPiece, line
    <3>6. recvline' \in Seq(AnyPiece) /\ Len(recvline') = ClientBuf + 1
      <4>1. Len(line) <= ClientBuf BY <1>0, <2>2
      <4>. QED BY <2>2, <3>5, <4>1, TerminatedType
    <3>. QED BY <1>8, <2>1, <3>2, <3>3, <3>4, <3>6 DEF ReadPiece, TypeOK
  <2>4. CASE ~ LineEnds(Head(downlink))
    <3>1. partial' = line /\ UNCHANGED <<printed, recvline, pc>> BY <1>8, <2>4 DEF ReadPiece, line
    <3>2. Len(partial') < ClientBuf
      <4>1. Len(partial) + 1 # ClientBuf BY <2>4 DEF LineEnds
      <4>. QED BY <1>0, <2>2, <3>1, <4>1
    <3>. QED BY <1>8, <2>1, <2>2, <3>1, <3>2 DEF ReadPiece, TypeOK
  <2>. QED BY <2>3, <2>4
<1>9. CASE ReadAll
  <2>1. PICK count \in 1 .. Min({ClientBuf, Len(downlink)}) :
             /\ downlink' = SubSeq(downlink, count + 1, Len(downlink))
             /\ printed' = printed \o Fresh(SubSeq(downlink, 1, count))
    BY <1>9 DEF ReadAll
  <2>2. count \in Nat /\ count <= Len(downlink) /\ Len(downlink) \in Nat
    <3>1. Len(downlink) \in Nat BY <1>0, LenProperties
    <3>2. /\ Min({ClientBuf, Len(downlink)}) \in Nat
          /\ Min({ClientBuf, Len(downlink)}) <= Len(downlink)
      BY <1>a, <3>1, MinOfTwo
    <3>. QED BY <3>1, <3>2
  <2>3. \A k \in 1 .. Len(downlink) : downlink[k] \in AnyPiece BY <1>0, ElementOfSeq
  <2>4. downlink' \in Seq(AnyPiece)
    <3>1. \A k \in count + 1 .. Len(downlink) : downlink[k] \in AnyPiece BY <2>2, <2>3
    <3>. QED BY <2>1, <2>2, <3>1, SubSeqProperties
  <2>5. printed' \in Seq(AnyPiece)
    <3>1. \A k \in 1 .. count : downlink[k] \in AnyPiece BY <2>2, <2>3
    <3>2. SubSeq(downlink, 1, count) \in Seq(AnyPiece) BY <2>2, <3>1, SubSeqProperties
    <3>. QED BY <1>0, <2>1, <3>2, FreshType, ConcatProperties
  <2>6. pc' \in {"fgets", "select"} BY <1>9 DEF ReadAll, AfterSocket
  <2>. QED BY <1>9, <2>4, <2>5, <2>6 DEF ReadAll, TypeOK
<1>10. ASSUME printed' \in {printed, printed \o Fresh(partial)}, partial' = <<>>
       PROVE  {partial', printed'} \subseteq Seq(AnyPiece) /\ Len(partial') < ClientBuf
  <2>1. printed \o Fresh(partial) \in Seq(AnyPiece) BY <1>0, FreshType, ConcatProperties
  <2>2. <<>> \in Seq(AnyPiece) /\ Len(<<>>) < ClientBuf BY EmptySeq DEF SessionAssumption
  <2>. QED BY <1>0, <1>10, <2>1, <2>2
<1>11. CASE ReadEnd
  <2>1. /\ printed' \in {printed, printed \o Fresh(partial)} /\ partial' = <<>>
        /\ pc' \in {"server error", "fgets", "select"}
    BY <1>11 DEF ReadEnd, AfterSocket
  <2>2. recvline' \in Seq(AnyPiece) /\ Len(recvline') = ClientBuf + 1
    <3>1. recvline' = Terminated(partial) BY <1>11 DEF ReadEnd
    <3>. QED BY <1>0, <3>1, TerminatedType
  <2>. QED BY <1>10, <1>11, <2>1, <2>2 DEF ReadEnd, TypeOK
<1>12. CASE ReadReset
  <2>1. /\ printed' \in {printed, printed \o Fresh(partial)} /\ partial' = <<>>
        /\ pc' \in {"fgets", "select"}
    BY <1>12 DEF ReadReset, AfterSocket
  <2>2. Len(partial) \in Nat /\ Len(partial) + 1 \in 1 .. Len(recvline)
    BY <1>0, LenProperties
  <2>3. recvline' \in Seq(AnyPiece) /\ Len(recvline') = ClientBuf + 1
    <3>. DEFINE rest == SubSeq(recvline, Len(partial) + 1, Len(recvline))
    <3>1. \A k \in Len(partial) + 1 .. Len(recvline) : recvline[k] \in AnyPiece
      BY <1>0, <2>2, ElementOfSeq
    <3>2. rest \in Seq(AnyPiece) /\ Len(rest) = Len(recvline) - (Len(partial) + 1) + 1
      BY <1>0, <2>2, <3>1, SubSeqProperties
    <3>3. recvline' = partial \o rest BY <1>12 DEF ReadReset
    <3>. HIDE DEF rest
    <3>4. recvline' \in Seq(AnyPiece) /\ Len(recvline') = Len(partial) + Len(rest)
      BY <1>0, <3>2, <3>3, ConcatProperties
    <3>. QED BY <1>0, <2>2, <3>2, <3>4
  <2>4. repeated' \in Seq(AnyPiece)
    <3>1. TextFrom(recvline, Len(partial) + 1) \in Seq(AnyPiece)
      BY <1>0, <2>2, TextFromIs
    <3>. QED BY <1>12, <3>1, FreshType DEF ReadReset
  <2>. QED BY <1>10, <1>12, <2>1, <2>3, <2>4 DEF ReadReset, TypeOK
<1>13. CASE Fill
  <2>1. input # <<>> /\ Head(input) \in 1 .. MaxLines /\ Tail(input) \in Seq(1 .. MaxLines)
    BY <1>0, <1>13, HeadTailProperties DEF Fill
  <2>2. <<Head(input)>> \in Seq(1 .. MaxLines) /\ <<Head(input)>> # <<>> BY <2>1
  <2>3. stdio' \in Seq(1 .. MaxLines) /\ stdio' # <<>>
    BY <1>0, <1>13, <2>1, <2>2 DEF Fill, FillWith
  <2>4. input' \in Seq(1 .. MaxLines) BY <1>13, <2>1, EmptySeq DEF Fill
  <2>. QED BY <1>13, <2>3, <2>4 DEF Fill, TypeOK
<1>14. CASE Buffered BY <1>14 DEF Buffered, TypeOK
<1>15. CASE InputEnds BY <1>15 DEF InputEnds, TypeOK
<1>16. CASE Writen
  <2>1. /\ stdio # <<>> /\ Head(stdio) \in 1 .. MaxLines
        /\ Tail(stdio) \in Seq(1 .. MaxLines)
    BY <1>0, <1>16, HeadTailProperties DEF Writen, TypeOK
  <2>2. sent' \in Seq(1 .. MaxLines) BY <1>0, <1>16, <2>1, AppendProperties DEF Writen
  <2>3. uplink' \in Seq(AnyPiece)
    BY <1>0, <1>16, <2>1, PiecesType, ConcatProperties DEF Writen
  <2>4. link' \in {"up", "fin", "reset", "broken"}
    BY <1>16 DEF Writen, LinkAfterWrite, TypeOK
  <2>. QED BY <1>16, <2>1, <2>2, <2>3, <2>4 DEF Writen, TypeOK
<1>17. CASE WritenBroken BY <1>17 DEF WritenBroken, TypeOK
<1>. QED
  BY <1>1, <1>2, <1>3, <1>4, <1>5, <1>6, <1>7, <1>8, <1>9, <1>11, <1>12, <1>13, <1>14,
     <1>15, <1>16, <1>17
  DEF Next, Client, Server

\* Every variable keeps its type; recvline is never overrun.
THEOREM TypeCorrect == Safety => []TypeOK
<1>1. Init => TypeOK BY SessionAssumption, InitTypeOK
<1>2. TypeOK /\ [Next]_vars => TypeOK' BY SessionAssumption, NextTypeOK
<1>. QED BY <1>1, <1>2, PTL DEF Safety

----------------------------------------------------------------------------
(* The order of the input                                                  *)

LEMMA NextInputInOrder ==
    ASSUME SessionAssumption, TypeOK, InputInOrder, [Next]_vars
    PROVE  InputInOrder'
<1>. USE DEF programs, user, serving, reading, shown
<1>0. PICK Line : Line = 1 .. MaxLines OBVIOUS
<1>1. /\ sent \in Seq(Line) /\ stdio \in Seq(Line) /\ input \in Seq(Line)
      /\ entered \in 0 .. MaxLines
  BY <1>0 DEF TypeOK
<1>a. /\ InputInOrder <=> Cat(Cat(sent, stdio), input) = [k \in 1 .. entered |-> k]
      /\ InputInOrder' <=> Cat(Cat(sent', stdio'), input') = [k \in 1 .. entered' |-> k]
  BY DEF InputInOrder, Cat
<1>2. CASE EnterLine
  <2>. DEFINE x == entered + 1
              old == [k \in 1 .. entered |-> k]
              new == [k \in 1 .. x |-> k]
  <2>1. MaxLines \in Nat BY DEF SessionAssumption
  <2>2. /\ entered' = x /\ input' = Append(input, x) /\ stdio' = stdio /\ sent' = sent
        /\ entered < MaxLines
    BY <1>2 DEF EnterLine
  <2>3. x \in Line /\ entered \in Nat /\ x \in Nat BY <1>0, <1>1, <2>1, <2>2
  <2>4. PICK y, a : y = x /\ a = Cat(sent, stdio) OBVIOUS
  <2>5. Cat(a, Append(input, y)) = Append(Cat(a, input), y)
    <3>1. y \in Line /\ a \in Seq(Line) BY <1>1, <2>3, <2>4, CatType
    <3>. QED BY <1>1, <3>1, CatAppend
  <2>6. Cat(a, input) = old BY <1>a, <2>4
  <2>7. Append(old, x) = new
    <3>1. old \in Seq(Nat) /\ Len(old) = entered /\ new \in Seq(Nat) /\ Len(new) = x
      BY <2>3
    <3>. HIDE DEF old
    <3>2. /\ Append(old, x) \in Seq(Nat) /\ Len(Append(old, x)) = x
          /\ \A k \in 1 .. entered : Append(old, x)[k] = old[k]
          /\ Append(old, x)[x] = x
      BY <2>3, <3>1, AppendProperties
    <3>3. ASSUME NEW k \in 1 .. x PROVE Append(old, x)[k] = new[k]
      <4>1. CASE k = x BY <3>2, <4>1
      <4>2. CASE k # x
        <5>1. k \in 1 .. entered BY <2>3, <4>2
        <5>. QED BY <3>2, <5>1 DEF old
      <4>. QED BY <4>1, <4>2
    <3>. HIDE DEF new, x
    <3>. QED BY <3>1, <3>2, <3>3, SeqEqual
  <2>. HIDE DEF x, old, new
  <2>8. Cat(Cat(sent', stdio'), input') = new BY <2>2, <2>4, <2>5, <2>6, <2>7
  <2>. QED BY <1>a, <2>2, <2>8 DEF x, new
<1>3. CASE Fill
  <2>1. stdio = <<>> /\ input # <<>> /\ UNCHANGED <<sent, entered>> BY <1>3 DEF Fill
  <2>2. PICK a, b : a = stdio' /\ b = input' OBVIOUS
  <2>3. Cat(a, b) = input /\ a \in Seq(Line) /\ b \in Seq(Line)
    <3>1. CASE terminal
      <4>1. a = <<Head(input)>> /\ b = Tail(input) BY <1>3, <2>2, <3>1 DEF Fill, FillWith
      <4>2. /\ Head(input) \in Line /\ Tail(input) \in Seq(Line)
            /\ input = Cat(<<Head(input)>>, Tail(input))
        BY <1>1, <2>1, CatHeadTail
      <4>3. <<Head(input)>> \in Seq(Line) BY <4>2
      <4>. QED BY <4>1, <4>2, <4>3
    <3>2. CASE ~ terminal
      <4>1. a = input /\ b = <<>> BY <1>3, <2>2, <3>2 DEF Fill, FillWith
      <4>2. <<>> \in Seq(Line) /\ Cat(input, <<>>) = input BY <1>1, EmptySeq, CatEmpty
      <4>. QED BY <1>1, <4>1, <4>2
    <3>. QED BY <3>1, <3>2
  <2>4. Cat(Cat(sent, a), b) = Cat(sent, Cat(a, b)) BY <1>1, <2>3, CatAssociative
  <2>5. Cat(sent, stdio) = sent BY <1>1, <2>1, CatEmpty
  <2>. QED BY <1>a, <2>1, <2>2, <2>3, <2>4, <2>5
<1>4. CASE Writen
  <2>1. PICK x, t : x = Head(stdio) /\ t = Tail(stdio) OBVIOUS
  <2>2. /\ stdio # <<>> /\ sent' = Append(sent, x) /\ stdio' = t
        /\ UNCHANGED <<input, entered>>
    BY <1>4, <2>1 DEF Writen, TypeOK
  <2>3. Cat(Append(sent, x), t) = Cat(sent, stdio) BY <1>1, <2>1, <2>2, CatHeadMoves
  <2>4. Cat(sent', stdio') = Cat(sent, stdio) BY <2>2, <2>3
  <2>. QED BY <1>a, <2>2, <2>4
<1>5. CASE UNCHANGED <<sent, stdio, input, entered>> BY <1>5 DEF InputInOrder
<1>6. UNCHANGED vars \/ EndInput \/ Server \/ ServerEnds \/ Select \/ ReadPiece \/ ReadAll
         \/ ReadEnd \/ ReadReset \/ Buffered \/ InputEnds \/ WritenBroken
      => UNCHANGED <<sent, stdio, input, entered>>
  BY DEF vars, EndInput, Server, Write, Read, ServerEnds, Select, ReadPiece, ReadAll, ReadEnd,
         ReadReset, Buffered, InputEnds, WritenBroken
<1>. QED BY <1>2, <1>3, <1>4, <1>5, <1>6 DEF Next, Client

\* The client writes the lines in the order in which they were entered, and none
\* is lost in the buffer of stdin.
THEOREM InputNeverReordered == Safety => []InputInOrder
<1>1. Init => InputInOrder
  <2>1. <<>> \o <<>> \o <<>> = <<>> OBVIOUS
  <2>2. [k \in 1 .. 0 |-> k] = <<>> OBVIOUS
  <2>. QED BY <2>1, <2>2 DEF Init, InputInOrder
<1>2. TypeOK /\ InputInOrder /\ [Next]_vars => InputInOrder'
  BY SessionAssumption, NextInputInOrder
<1>. QED BY <1>1, <1>2, TypeCorrect, PTL DEF Safety

----------------------------------------------------------------------------
(* The server's buffer                                                     *)

LEMMA AllFreshConcat ==
    ASSUME NEW S, NEW s \in Seq(S), NEW t \in Seq(S), AllFresh(s), AllFresh(t)
    PROVE  AllFresh(s \o t)
<1>1. /\ Len(s \o t) = Len(s) + Len(t) /\ Len(s) \in Nat /\ Len(t) \in Nat
      /\ \A k \in 1 .. Len(s) + Len(t) :
            (s \o t)[k] = IF k <= Len(s) THEN s[k] ELSE t[k - Len(s)]
  BY ConcatProperties, LenProperties
<1>2. ASSUME NEW k \in 1 .. Len(s) + Len(t) PROVE OfLine((s \o t)[k])
  <2>1. CASE k <= Len(s)
    <3>1. k \in 1 .. Len(s) BY <1>1, <2>1
    <3>. QED BY <1>1, <2>1, <3>1 DEF AllFresh
  <2>2. CASE k > Len(s)
    <3>1. k - Len(s) \in 1 .. Len(t) BY <1>1, <2>2
    <3>. QED BY <1>1, <2>2, <3>1 DEF AllFresh
  <2>. QED BY <1>1, <2>1, <2>2
<1>. QED BY <1>1, <1>2 DEF AllFresh

LEMMA AllFreshPart ==
    ASSUME NEW S, NEW s \in Seq(S), AllFresh(s), NEW i \in Nat \ {0}, NEW j \in Nat, j <= Len(s)
    PROVE  SubSeq(s, i, j) \in Seq(S) /\ AllFresh(SubSeq(s, i, j))
<1>. DEFINE p == SubSeq(s, i, j)
<1>1. Len(s) \in Nat /\ \A k \in 1 .. Len(s) : s[k] \in S BY LenProperties, ElementOfSeq
<1>2. \A k \in i .. j : s[k] \in S BY <1>1
<1>3. /\ p \in Seq(S) /\ Len(p) = IF i <= j THEN j - i + 1 ELSE 0
      /\ \A k \in 1 .. j - i + 1 : p[k] = s[i + k - 1]
  BY <1>2, SubSeqProperties
<1>. HIDE DEF p
<1>4. ASSUME NEW k \in 1 .. Len(p) PROVE OfLine(p[k])
  <2>1. k \in 1 .. j - i + 1 /\ i + k - 1 \in 1 .. Len(s) BY <1>1, <1>3
  <2>. QED BY <1>3, <2>1 DEF AllFresh
<1>5. AllFresh(p) BY <1>4 DEF AllFresh
<1>. QED BY <1>3, <1>5 DEF p

LEMMA AllFreshPieces ==
    ASSUME SessionAssumption, NEW x \in 1 .. MaxLines
    PROVE  AllFresh(Pieces(x))
<1>1. Pieces(x)[1].line = x /\ Pieces(x)[2].line = x /\ Len(Pieces(x)) = 2
  BY DEF Pieces
<1>2. x > 0 BY DEF SessionAssumption
<1>. QED BY <1>1, <1>2 DEF AllFresh, OfLine

LEMMA NextBufIsRead ==
    ASSUME SessionAssumption, TypeOK, BufIsRead, [Next]_vars
    PROVE  BufIsRead'
<1>. USE DEF programs, user, serving, reading, shown
<1>0. /\ uplink \in Seq(AnyPiece) /\ buf \in Seq(AnyPiece) /\ stdio \in Seq(1 .. MaxLines)
      /\ Len(buf) = ServerBuf /\ AllFresh(uplink)
  BY DEF TypeOK, BufIsRead
<1>1. ServerBuf \in Nat /\ Len(uplink) \in Nat /\ DOMAIN buf = 1 .. ServerBuf
  BY <1>0, LenProperties DEF SessionAssumption
<1>2. ASSUME NEW count \in 1 .. ServerBuf, Read(count) PROVE BufIsRead'
  <2>1. count \in Nat /\ count <= Len(uplink)
    <3>1. /\ Min({ServerBuf, Len(uplink)}) \in Nat
          /\ Min({ServerBuf, Len(uplink)}) <= Len(uplink)
      BY <1>1, MinOfTwo
    <3>2. count \in 1 .. Min({ServerBuf, Len(uplink)}) BY <1>2 DEF Read
    <3>. QED BY <1>1, <3>1, <3>2
  <2>2. /\ n' = count /\ uplink' = SubSeq(uplink, count + 1, Len(uplink))
        /\ \A k \in 1 .. ServerBuf : buf'[k] = IF k <= count THEN uplink[k]
                                               ELSE IF buf[k] = Zero THEN Zero
                                               ELSE Old(buf[k].last)
    BY <1>1, <1>2 DEF Read
  <2>3. AllFresh(uplink') BY <1>0, <1>1, <2>1, <2>2, AllFreshPart
  <2>4. ASSUME NEW k \in 1 .. n' PROVE OfLine(buf'[k])
    <3>1. k <= count /\ k \in 1 .. ServerBuf /\ k \in 1 .. Len(uplink) BY <1>1, <2>1, <2>2
    <3>. QED BY <1>0, <2>2, <3>1 DEF AllFresh
  <2>5. ASSUME NEW k \in n' + 1 .. ServerBuf PROVE ~ OfLine(buf'[k])
    <3>1. ~ k <= count /\ k \in 1 .. ServerBuf BY <1>1, <2>1, <2>2
    <3>2. buf[k] \in AnyPiece BY <1>0, <3>1, ElementOfSeq
    <3>3. buf[k].last \in BOOLEAN BY <3>2 DEF AnyPiece
    <3>. QED BY <2>2, <3>1, <3>3, OldPieces
  <2>. QED BY <2>3, <2>4, <2>5 DEF BufIsRead, AllFresh
<1>3. CASE Write
  <2>1. n' = 0 /\ uplink' = uplink BY <1>3 DEF Write
  <2>. QED BY <2>1, <1>0 DEF BufIsRead, AllFresh
<1>4. CASE ServerEnds
  <2>1. n' = 0 /\ uplink' = <<>> BY <1>4 DEF ServerEnds
  <2>. QED BY <2>1 DEF BufIsRead, AllFresh
<1>5. CASE Writen
  <2>1. Head(stdio) \in 1 .. MaxLines BY <1>0, <1>5, HeadTailProperties DEF Writen, TypeOK
  <2>2. Pieces(Head(stdio)) \in Seq(AnyPiece) /\ AllFresh(Pieces(Head(stdio)))
    BY <2>1, PiecesType, AllFreshPieces
  <2>3. AllFresh(uplink \o Pieces(Head(stdio))) BY <1>0, <2>2, AllFreshConcat
  <2>4. AllFresh(uplink') BY <1>0, <1>5, <2>3 DEF Writen
  <2>5. buf' = buf /\ n' = n BY <1>5 DEF Writen
  <2>. QED BY <2>4, <2>5 DEF BufIsRead, AllFresh
<1>6. CASE UNCHANGED <<uplink, buf, n>> BY <1>6 DEF BufIsRead, AllFresh
<1>7. UNCHANGED vars \/ EnterLine \/ EndInput \/ Select \/ ReadPiece \/ ReadAll
         \/ ReadEnd \/ ReadReset \/ Fill \/ Buffered \/ InputEnds \/ WritenBroken
      => UNCHANGED <<uplink, buf, n>>
  BY DEF vars, EnterLine, EndInput, Select, ReadPiece, ReadAll, ReadEnd, ReadReset, Fill,
         Buffered, InputEnds, WritenBroken
<1>. QED BY <1>2, <1>3, <1>4, <1>5, <1>6, <1>7 DEF Next, Client, Server

----------------------------------------------------------------------------
(* What was sent and what comes back                                       *)

LEMMA ReturnedIs ==
    ASSUME TypeOK
    PROVE  /\ printed \in Seq(AnyPiece) /\ partial \in Seq(AnyPiece)
           /\ downlink \in Seq(AnyPiece)
           /\ Fresh(partial) \in Seq(AnyPiece) /\ Fresh(downlink) \in Seq(AnyPiece)
           /\ Cat(printed, Fresh(partial)) \in Seq(AnyPiece)
           /\ Returned \in Seq(AnyPiece)
           /\ Returned = Cat(Cat(printed, Fresh(partial)), Fresh(downlink))
           /\ Returned' = Cat(Cat(printed', Fresh(partial')), Fresh(downlink'))
<1>1. {printed, partial, downlink} \subseteq Seq(AnyPiece) BY DEF TypeOK
<1>2. Fresh(partial) \in Seq(AnyPiece) /\ Fresh(downlink) \in Seq(AnyPiece)
  BY <1>1, FreshType
<1>3. Cat(printed, Fresh(partial)) \in Seq(AnyPiece) BY <1>1, <1>2, CatType
<1>4. /\ Returned = Cat(Cat(printed, Fresh(partial)), Fresh(downlink))
      /\ Returned' = Cat(Cat(printed', Fresh(partial')), Fresh(downlink'))
  BY DEF Returned, Cat
<1>5. Returned \in Seq(AnyPiece) BY <1>2, <1>3, <1>4, CatType
<1>. QED BY <1>1, <1>2, <1>3, <1>4, <1>5

\* A read of the client moves what came down from the link to recvline and to
\* what was printed, and changes nothing of the whole.
LEMMA ReadKeepsReturned ==
    ASSUME SessionAssumption, TypeOK, WholeLines,
           ReadPiece \/ ReadAll \/ ReadEnd \/ ReadReset
    PROVE  Returned' = Returned
<1>1. /\ printed \in Seq(AnyPiece) /\ partial \in Seq(AnyPiece)
      /\ downlink \in Seq(AnyPiece) /\ Fresh(partial) \in Seq(AnyPiece)
      /\ Cat(printed, Fresh(partial)) \in Seq(AnyPiece)
      /\ Returned = Cat(Cat(printed, Fresh(partial)), Fresh(downlink))
      /\ Returned' = Cat(Cat(printed', Fresh(partial')), Fresh(downlink'))
  BY ReturnedIs
<1>2. CASE ReadPiece
  <2>1. PICK h \in AnyPiece, d \in Seq(AnyPiece) :
            downlink # <<>> /\ h = Head(downlink) /\ d = Tail(downlink) /\ downlink = Cat(<<h>>, d)
    BY <1>1, <1>2, CatHeadTail DEF ReadPiece
  <2>2. PICK line : line = Append(partial, h) OBVIOUS
  <2>3. <<h>> \in Seq(AnyPiece) /\ line = Cat(partial, <<h>>) BY <1>1, <2>2, CatElement
  <2>4. /\ downlink' = d
        /\ \/ printed' = printed \o Fresh(line) /\ partial' = <<>>
           \/ printed' = printed /\ partial' = line
    BY <1>2, <2>1, <2>2 DEF ReadPiece
  <2>5. printed \o Fresh(line) = Cat(printed, Fresh(line)) BY DEF Cat
  <2>6. PICK b, c, e : b = Fresh(partial) /\ c = Fresh(<<h>>) /\ e = Fresh(d) OBVIOUS
  <2>7. b \in Seq(AnyPiece) /\ c \in Seq(AnyPiece) /\ e \in Seq(AnyPiece)
    BY <1>1, <2>1, <2>3, <2>6, FreshType
  <2>8. Fresh(downlink) = Cat(c, e) /\ Fresh(line) = Cat(b, c)
    BY <1>1, <2>1, <2>3, <2>6, FreshCat
  <2>9. Cat(printed, b) \in Seq(AnyPiece) /\ Cat(printed, Cat(b, c)) \in Seq(AnyPiece)
    BY <1>1, <2>7, CatType
  <2>10. Cat(Cat(printed, Cat(b, c)), e) = Cat(Cat(printed, b), Cat(c, e))
    BY <1>1, <2>7, <2>9, CatAssociative
  <2>11. Cat(Cat(printed, Cat(b, c)), <<>>) = Cat(printed, Cat(b, c)) BY <2>9, CatEmpty
  <2>12. Returned = Cat(Cat(printed, b), Cat(c, e)) BY <1>1, <2>6, <2>8
  <2>13. CASE printed' = printed \o Fresh(line) /\ partial' = <<>>
    <3>1. Fresh(partial') = <<>> BY <2>13, FreshEmpty
    <3>2. Returned' = Cat(Cat(Cat(printed, Cat(b, c)), <<>>), e)
      BY <1>1, <2>4, <2>5, <2>6, <2>8, <2>13, <3>1
    <3>. QED BY <2>10, <2>11, <2>12, <3>2
  <2>14. CASE printed' = printed /\ partial' = line
    BY <1>1, <2>4, <2>6, <2>8, <2>10, <2>12, <2>14
  <2>. QED BY <2>4, <2>13, <2>14
<1>3. CASE ReadAll
  <2>1. PICK count \in 1 .. Min({ClientBuf, Len(downlink)}) :
             /\ downlink' = SubSeq(downlink, count + 1, Len(downlink))
             /\ printed' = printed \o Fresh(SubSeq(downlink, 1, count))
    BY <1>3 DEF ReadAll
  <2>2. count \in Nat /\ count <= Len(downlink)
    <3>1. Len(downlink) \in Nat BY <1>1, LenProperties
    <3>2. ClientBuf \in Nat BY DEF SessionAssumption
    <3>3. /\ Min({ClientBuf, Len(downlink)}) \in Nat
          /\ Min({ClientBuf, Len(downlink)}) <= Len(downlink)
      BY <3>1, <3>2, MinOfTwo
    <3>. QED BY <3>1, <3>3
  <2>a. PICK a, d : /\ a = SubSeq(downlink, 1, count)
                    /\ d = SubSeq(downlink, count + 1, Len(downlink))
    OBVIOUS
  <2>3. a \in Seq(AnyPiece) /\ d \in Seq(AnyPiece) /\ downlink = Cat(a, d)
    BY <1>1, <2>2, <2>a, CatSubSeqs
  <2>4. partial = <<>> /\ partial' = <<>> BY <1>3 DEF ReadAll, WholeLines, reading
  <2>5. downlink' = d /\ printed' = Cat(printed, Fresh(a)) BY <2>1, <2>a DEF Cat
  <2>6. Fresh(downlink) = Cat(Fresh(a), Fresh(d)) BY <2>3, FreshCat
  <2>7. Fresh(a) \in Seq(AnyPiece) /\ Fresh(d) \in Seq(AnyPiece) BY <2>3, FreshType
  <2>8. Cat(printed, Fresh(a)) \in Seq(AnyPiece) BY <1>1, <2>7, CatType
  <2>9. Returned' = Cat(Cat(printed, Fresh(a)), Fresh(d))
    <3>1. Returned' = Cat(Cat(Cat(printed, Fresh(a)), <<>>), Fresh(d))
      BY <1>1, <2>4, <2>5, FreshEmpty
    <3>. QED BY <2>8, <3>1, CatEmpty
  <2>10. Returned = Cat(printed, Cat(Fresh(a), Fresh(d)))
    <3>1. Returned = Cat(Cat(printed, <<>>), Cat(Fresh(a), Fresh(d)))
      BY <1>1, <2>4, <2>6, FreshEmpty
    <3>. QED BY <1>1, <3>1, CatEmpty
  <2>. QED BY <1>1, <2>7, <2>9, <2>10, CatAssociative
<1>4. CASE ReadEnd \/ ReadReset
  <2>1. /\ downlink' = downlink /\ partial' = <<>>
        /\ \/ printed' = printed \o Fresh(partial)
           \/ printed' = printed /\ partial = <<>>
    BY <1>4 DEF ReadEnd, ReadReset
  <2>2. CASE printed' = printed \o Fresh(partial)
    <3>1. printed' = Cat(printed, Fresh(partial)) BY <2>2 DEF Cat
    <3>2. Returned' = Cat(Cat(Cat(printed, Fresh(partial)), <<>>), Fresh(downlink))
      BY <1>1, <2>1, <3>1, FreshEmpty
    <3>. QED BY <1>1, <3>2, CatEmpty
  <2>3. CASE printed' = printed /\ partial = <<>> BY <1>1, <2>1, <2>3
  <2>. QED BY <2>1, <2>2, <2>3
<1>. QED BY <1>2, <1>3, <1>4

LEMMA NothingLostIs ==
    ASSUME SessionAssumption, TypeOK
    PROVE  /\ SubSeq(buf, 1, n) \in Seq(AnyPiece) /\ uplink \in Seq(AnyPiece)
           /\ Split(sent) \in Seq(AnyPiece)
           /\ NothingLost <=> (link = "up" =>
                                 Cat(Cat(Returned, SubSeq(buf, 1, n)), uplink) = Split(sent))
           /\ NothingLost' <=> (link' = "up" =>
                                 Cat(Cat(Returned', SubSeq(buf', 1, n')), uplink') = Split(sent'))
<1>1. /\ buf \in Seq(AnyPiece) /\ Len(buf) = ServerBuf /\ n \in 0 .. ServerBuf
      /\ sent \in Seq(1 .. MaxLines) /\ uplink \in Seq(AnyPiece)
  BY DEF TypeOK
<1>2. ServerBuf \in Nat BY DEF SessionAssumption
<1>3. n \in Nat /\ n <= Len(buf) BY <1>1, <1>2
<1>4. SubSeq(buf, 1, n) \in Seq(AnyPiece) BY <1>1, <1>3, CatSubSeqs
<1>5. Split(sent) \in Seq(AnyPiece) BY <1>1, SplitType
<1>. QED BY <1>1, <1>4, <1>5 DEF NothingLost, Cat

LEMMA NextNothingLost ==
    ASSUME SessionAssumption, TypeOK, BufIsRead, WholeLines,
           IsPrefix(Returned, Split(sent)), NothingLost, [Next]_vars
    PROVE  IsPrefix(Returned', Split(sent')) /\ NothingLost'
<1>. USE DEF programs, user, serving, reading, shown
<1>1. PICK P : P = AnyPiece OBVIOUS
<1>2. PICK R, m : R = Returned /\ m = SubSeq(buf, 1, n) OBVIOUS
<1>3. /\ R \in Seq(P) /\ m \in Seq(P) /\ uplink \in Seq(P) /\ Split(sent) \in Seq(P)
      /\ buf \in Seq(P) /\ Len(buf) = ServerBuf
  BY <1>1, <1>2, ReturnedIs, NothingLostIs DEF TypeOK
<1>4. link = "up" => Cat(Cat(R, m), uplink) = Split(sent) BY <1>2, NothingLostIs
<1>5. NothingLost' <=> (link' = "up" =>
                          Cat(Cat(Returned', SubSeq(buf', 1, n')), uplink') = Split(sent'))
  BY NothingLostIs
<1>6. ServerBuf \in Nat /\ Len(uplink) \in Nat
  BY <1>3, LenProperties DEF SessionAssumption
<1>7. ASSUME NEW count \in 1 .. ServerBuf, Read(count)
      PROVE  IsPrefix(Returned', Split(sent')) /\ NothingLost'
  <2>1. count \in Nat /\ count <= Len(uplink) /\ count <= ServerBuf
    <3>1. /\ Min({ServerBuf, Len(uplink)}) \in Nat
          /\ Min({ServerBuf, Len(uplink)}) <= Len(uplink)
      BY <1>6, MinOfTwo
    <3>2. count \in 1 .. Min({ServerBuf, Len(uplink)}) BY <1>7 DEF Read
    <3>. QED BY <1>6, <3>1, <3>2
  <2>a. PICK u, v : /\ u = SubSeq(uplink, 1, count)
                    /\ v = SubSeq(uplink, count + 1, Len(uplink))
    OBVIOUS
  <2>2. u \in Seq(P) /\ v \in Seq(P) /\ uplink = Cat(u, v)
    BY <1>3, <2>1, <2>a, CatSubSeqs
  <2>3. /\ link = "up" /\ n = 0 /\ n' = count /\ uplink' = v
        /\ UNCHANGED <<link, printed, partial, downlink, sent>>
    BY <1>7, <2>a DEF Read
  <2>4. Returned' = R BY <1>2, <2>3 DEF Returned
  <2>5. SubSeq(buf', 1, count) = u
    <3>1. DOMAIN buf = 1 .. ServerBuf BY <1>3, LenProperties
    <3>2. \A k \in 1 .. count : k \in 1 .. ServerBuf BY <1>6, <2>1
    <3>3. \A k \in 1 .. count : buf'[k] = uplink[k] BY <1>7, <3>1, <3>2, <2>1 DEF Read
    <3>4. buf' \in Seq(P) /\ Len(buf') = ServerBuf
      BY <1>1, NextTypeOK DEF TypeOK
    <3>. QED BY <1>3, <2>1, <2>a, <3>3, <3>4, SameBeginning
  <2>6. m = <<>> BY <1>2, <2>3, SubSeqEmpty
  <2>7. Cat(R, Cat(u, v)) = Split(sent)
    <3>1. Cat(Cat(R, <<>>), Cat(u, v)) = Split(sent) BY <1>4, <2>2, <2>3, <2>6
    <3>. QED BY <1>3, <3>1, CatEmpty
  <2>8. Cat(Cat(R, u), v) = Split(sent) BY <1>3, <2>2, <2>7, CatAssociative
  <2>9. NothingLost' BY <1>5, <2>3, <2>4, <2>5, <2>8
  <2>10. IsPrefix(Returned', Split(sent')) BY <1>2, <2>3, <2>4
  <2>. QED BY <2>9, <2>10
<1>8. CASE Write
  <2>1. PICK text \in IF server = "server" THEN Strings ELSE {buf} :
               downlink' = downlink \o Reply(text)
    BY <1>8 DEF Write
  <2>2. /\ link = "up" /\ n > 0 /\ n' = 0
        /\ UNCHANGED <<link, printed, partial, uplink, buf, sent>>
    BY <1>8 DEF Write
  <2>3. Reply(text) \in Seq(AnyPiece) /\ Fresh(Reply(text)) = m
    BY <1>2, <2>1, <2>2, ReplyIsBuf
  <2>4. PICK a, d : a = Cat(printed, Fresh(partial)) /\ d = Fresh(downlink) OBVIOUS
  <2>5. a \in Seq(P) /\ d \in Seq(P) /\ R = Cat(a, d) BY <1>1, <1>2, <2>4, ReturnedIs
  <2>6. Fresh(downlink') = Cat(d, m)
    <3>1. downlink \in Seq(AnyPiece) BY ReturnedIs
    <3>2. downlink' = Cat(downlink, Reply(text)) BY <2>1 DEF Cat
    <3>. QED BY <2>3, <2>4, <3>1, <3>2, FreshCat
  <2>7. Returned' = Cat(R, m)
    <3>1. Returned' = Cat(Cat(printed', Fresh(partial')), Fresh(downlink')) BY ReturnedIs
    <3>2. Returned' = Cat(a, Cat(d, m)) BY <2>2, <2>4, <2>6, <3>1
    <3>. QED BY <1>3, <2>5, <3>2, CatAssociative
  <2>8. SubSeq(buf', 1, n') = <<>> BY <2>2, SubSeqEmpty
  <2>9. Cat(R, m) \in Seq(P) BY <1>3, CatType
  <2>10. Cat(Cat(Cat(R, m), <<>>), uplink) = Split(sent) BY <1>4, <2>2, <2>9, CatEmpty
  <2>11. NothingLost' BY <1>5, <2>2, <2>7, <2>8, <2>10
  <2>12. IsPrefix(Returned', Split(sent'))
    <3>1. IsPrefix(Cat(R, m), Cat(Cat(R, m), uplink)) BY <1>3, <2>9, PrefixOfCat
    <3>. QED BY <1>4, <2>2, <2>7, <3>1
  <2>. QED BY <2>11, <2>12
<1>9. CASE ServerEnds
  <2>1. link' # "up" /\ UNCHANGED <<printed, partial, downlink, sent>>
    BY <1>9 DEF ServerEnds
  <2>2. Returned' = Returned BY <2>1 DEF Returned
  <2>. QED BY <1>5, <2>1, <2>2
<1>10. CASE Writen
  <2>1. stdio # <<>> /\ sent' = Append(sent, Head(stdio)) BY <1>10 DEF Writen, TypeOK
  <2>2. PICK x : x = Head(stdio) OBVIOUS
  <2>3. x \in 1 .. MaxLines /\ sent \in Seq(1 .. MaxLines)
    BY <2>1, <2>2, HeadTailProperties DEF TypeOK
  <2>4. Split(sent') = Cat(Split(sent), Pieces(x)) BY <2>1, <2>2, <2>3, SplitAppend DEF Cat
  <2>5. Pieces(x) \in Seq(P) BY <1>1, <2>3, PiecesType
  <2>6. Returned' = R BY <1>2, <1>10 DEF Writen, Returned
  <2>7. IsPrefix(Returned', Split(sent'))
    <3>1. IsPrefix(R, Cat(Split(sent), Pieces(x))) BY <1>2, <1>3, <2>5, PrefixLonger
    <3>. QED BY <2>4, <2>6, <3>1
  <2>8. ASSUME link' = "up"
        PROVE  Cat(Cat(Returned', SubSeq(buf', 1, n')), uplink') = Split(sent')
    <3>1. link = "up" BY <1>10, <2>8 DEF Writen, LinkAfterWrite, TypeOK
    <3>2. uplink' = Cat(uplink, Pieces(x)) BY <1>10, <2>2, <3>1 DEF Writen, Cat
    <3>3. SubSeq(buf', 1, n') = m BY <1>2, <1>10 DEF Writen
    <3>4. Cat(R, m) \in Seq(P) BY <1>3, CatType
    <3>5. Cat(Cat(Cat(R, m), uplink), Pieces(x)) = Cat(Cat(R, m), Cat(uplink, Pieces(x)))
      BY <1>3, <2>5, <3>4, CatAssociative
    <3>. QED BY <1>4, <2>4, <2>6, <3>1, <3>2, <3>3, <3>5
  <2>. QED BY <1>5, <2>7, <2>8
<1>11. CASE ReadPiece \/ ReadAll \/ ReadEnd \/ ReadReset
  <2>1. Returned' = Returned BY <1>11, ReadKeepsReturned
  <2>2. (link' = "up" => link = "up") /\ UNCHANGED <<uplink, buf, n, sent>>
    BY <1>11 DEF ReadPiece, ReadAll, ReadEnd, ReadReset
  <2>. QED BY <1>2, <1>4, <1>5, <2>1, <2>2
<1>12. CASE UNCHANGED <<printed, partial, downlink, link, uplink, buf, n, sent>>
  BY <1>12 DEF NothingLost, Returned
<1>13. UNCHANGED vars \/ EnterLine \/ EndInput \/ Select \/ Fill \/ Buffered \/ InputEnds
          \/ WritenBroken
       => UNCHANGED <<printed, partial, downlink, link, uplink, buf, n, sent>>
  BY DEF vars, EnterLine, EndInput, Select, Fill, Buffered, InputEnds, WritenBroken
<1>. QED BY <1>7, <1>8, <1>9, <1>10, <1>11, <1>12, <1>13 DEF Next, Client, Server

----------------------------------------------------------------------------
(* Whole lines from server_new.c                                           *)

LEMMA PrefixElement ==
    ASSUME NEW S, NEW s \in Seq(S), NEW t \in Seq(S), IsPrefix(s, t), NEW i \in 1 .. Len(s)
    PROVE  i \in 1 .. Len(t) /\ t[i] = s[i]
<1>1. PICK r \in Seq(S) : t = s \o r BY PrefixRest DEF Cat
<1>2. /\ Len(s) \in Nat /\ Len(r) \in Nat /\ Len(t) = Len(s) + Len(r)
      /\ \A k \in 1 .. Len(s) + Len(r) : t[k] = IF k <= Len(s) THEN s[k] ELSE r[k - Len(s)]
  BY <1>1, ConcatProperties, LenProperties
<1>3. i \in 1 .. Len(s) + Len(r) /\ i <= Len(s) BY <1>2
<1>. QED BY <1>2, <1>3

\* Between client.c and server_new.c the next piece to be read is the first of a
\* line exactly when recvline is empty.
LEMMA NextPiece ==
    ASSUME SessionAssumption, TypeOK, WholeLines, IsPrefix(Returned, Split(sent)),
           server = "server_new", downlink # <<>>
    PROVE  Head(downlink).last = ((Len(printed) + Len(partial) + 1) % 2 = 0)
<1>1. /\ printed \in Seq(AnyPiece) /\ partial \in Seq(AnyPiece) /\ downlink \in Seq(AnyPiece)
      /\ sent \in Seq(1 .. MaxLines)
  BY DEF TypeOK
<1>2. Fresh(partial) = partial /\ Fresh(downlink) = downlink
  <2>1. AllFresh(partial) /\ AllFresh(downlink) BY DEF WholeLines
  <2>. QED BY <1>1, <2>1, FreshWhole DEF AllFresh
<1>. DEFINE q == printed \o partial
<1>3. Returned = q \o downlink BY <1>2 DEF Returned
<1>4. q \in Seq(AnyPiece) /\ Len(q) = Len(printed) + Len(partial)
  BY <1>1, ConcatProperties
<1>5. Len(q) \in Nat /\ Len(downlink) \in Nat \ {0} /\ Len(printed) \in Nat /\ Len(partial) \in Nat
  BY <1>1, <1>4, LenProperties, EmptySeq
<1>. HIDE DEF q
<1>. DEFINE i == Len(q) + 1
<1>6. /\ Returned \in Seq(AnyPiece) /\ Len(Returned) = Len(q) + Len(downlink)
      /\ Returned[i] = downlink[1]
  <2>1. /\ Returned \in Seq(AnyPiece) /\ Len(Returned) = Len(q) + Len(downlink)
        /\ \A k \in 1 .. Len(q) + Len(downlink) :
              Returned[k] = IF k <= Len(q) THEN q[k] ELSE downlink[k - Len(q)]
    BY <1>1, <1>3, <1>4, ConcatProperties
  <2>2. i \in 1 .. Len(q) + Len(downlink) /\ ~ i <= Len(q) /\ i - Len(q) = 1 BY <1>5
  <2>. QED BY <2>1, <2>2
<1>7. i \in 1 .. Len(Returned) BY <1>5, <1>6
<1>8. /\ Split(sent) \in Seq(AnyPiece) /\ Len(Split(sent)) = 2 * Len(sent)
      /\ \A k \in 1 .. 2 * Len(sent) :
            Split(sent)[k] = [line |-> sent[(k + 1) \div 2], last |-> k % 2 = 0]
  BY <1>1, SplitType
<1>9. i \in 1 .. Len(Split(sent)) /\ Split(sent)[i] = Returned[i]
  <2>1. PICK a, b : a = Returned /\ b = Split(sent) OBVIOUS
  <2>2. a \in Seq(AnyPiece) /\ b \in Seq(AnyPiece) /\ IsPrefix(a, b) /\ i \in 1 .. Len(a)
    BY <1>6, <1>7, <1>8, <2>1
  <2>. HIDE DEF i
  <2>3. i \in 1 .. Len(b) /\ b[i] = a[i] BY <2>2, PrefixElement
  <2>. QED BY <2>1, <2>3
<1>10. Split(sent)[i].last = (i % 2 = 0) BY <1>8, <1>9
<1>11. Head(downlink) = downlink[1] BY <1>1
<1>. QED BY <1>4, <1>6, <1>9, <1>10, <1>11

LEMMA NextWholeLines ==
    ASSUME SessionAssumption, TypeOK, BufIsRead, WholeLines,
           IsPrefix(Returned, Split(sent)), [Next]_vars
    PROVE  WholeLines'
<1>. USE DEF programs, user, serving, reading, shown
<1>1. /\ printed \in Seq(AnyPiece) /\ partial \in Seq(AnyPiece) /\ downlink \in Seq(AnyPiece)
      /\ Len(printed) \in Nat /\ Len(partial) \in Nat /\ Len(downlink) \in Nat
  BY LenProperties DEF TypeOK
<1>2. client' = client /\ server' = server
  BY DEF vars, Next, Client, Server, EnterLine, EndInput, Read, Write, ServerEnds, Select,
         ReadPiece, ReadAll, ReadEnd, ReadReset, Fill, Buffered, InputEnds, Writen, WritenBroken
<1>3. CASE ReadPiece
  <2>. DEFINE h == Head(downlink)
              line == Append(partial, h)
  <2>1. /\ client = "client" /\ downlink # <<>> /\ downlink' = Tail(downlink) /\ link' = link
        /\ \/ LineEnds(h) /\ printed' = printed \o Fresh(line) /\ partial' = <<>>
           \/ ~ LineEnds(h) /\ printed' = printed /\ partial' = line
    BY <1>3 DEF ReadPiece
  <2>2. h \in AnyPiece /\ h = downlink[1] /\ 1 \in 1 .. Len(downlink)
    BY <1>1, <2>1, HeadTailProperties, EmptySeq
  <2>. HIDE DEF h
  <2>3. /\ line \in Seq(AnyPiece) /\ Len(line) = Len(partial) + 1
        /\ \A k \in 1 .. Len(partial) : line[k] = partial[k]
        /\ line[Len(partial) + 1] = h
    BY <1>1, <2>2, AppendProperties
  <2>. HIDE DEF line
  <2>4. ASSUME server = "server_new"
        PROVE  AllFresh(downlink') /\ AllFresh(line) /\ AllFresh(<<>>)
    <3>1. AllFresh(downlink) /\ AllFresh(partial) BY <2>4 DEF WholeLines
    <3>2. OfLine(h) BY <2>2, <3>1 DEF AllFresh
    <3>3. AllFresh(line)
      <4>1. ASSUME NEW k \in 1 .. Len(line) PROVE OfLine(line[k])
        <5>1. k \in 1 .. Len(partial) \/ k = Len(partial) + 1 BY <1>1, <2>3
        <5>. QED BY <2>3, <3>1, <3>2, <5>1 DEF AllFresh
      <4>. QED BY <4>1 DEF AllFresh
    <3>4. AllFresh(downlink')
      <4>1. downlink' = SubSeq(downlink, 2, Len(downlink)) BY <1>1, <2>1, TailIsSubSeq
      <4>2. 2 \in Nat \ {0} OBVIOUS
      <4>. QED BY <1>1, <3>1, <4>1, <4>2, AllFreshPart
    <3>. QED BY <3>3, <3>4 DEF AllFresh
  <2>5. ASSUME link = "up", server = "server_new"
        PROVE  Len(partial') <= 1 /\ Len(printed') % 2 = 0
    <3>1. Len(partial) <= 1 /\ Len(printed) % 2 = 0 BY <2>1, <2>5 DEF WholeLines
    <3>2. h.last = ((Len(printed) + Len(partial) + 1) % 2 = 0)
      BY <2>1, <2>5, NextPiece DEF h
    <3>3. CASE Len(partial) = 0
      <4>1. ((Len(printed) + 0 + 1) % 2 = 0) = FALSE BY <1>1, <3>1
      <4>2. h.last = FALSE BY <3>2, <3>3, <4>1
      <4>3. 0 + 1 # ClientBuf BY DEF SessionAssumption
      <4>4. ~ LineEnds(h) BY <3>3, <4>2, <4>3 DEF LineEnds
      <4>5. printed' = printed /\ partial' = line BY <2>1, <4>4
      <4>6. Len(partial') = 1 BY <2>3, <3>3, <4>5
      <4>. QED BY <3>1, <4>5, <4>6
    <3>4. CASE Len(partial) = 1
      <4>1. ((Len(printed) + 1 + 1) % 2 = 0) = TRUE BY <1>1, <3>1
      <4>2. h.last = TRUE BY <3>2, <3>4, <4>1
      <4>3. LineEnds(h) BY <4>2 DEF LineEnds
      <4>4. printed' = printed \o Fresh(line) /\ partial' = <<>> BY <2>1, <4>3
      <4>5. Fresh(line) = line
        <5>1. AllFresh(line) BY <2>4, <2>5
        <5>. QED BY <2>3, <5>1, FreshWhole DEF AllFresh
      <4>6. Len(printed') = Len(printed) + 2
        <5>1. Len(printed \o line) = Len(printed) + Len(line) BY <1>1, <2>3, ConcatProperties
        <5>2. printed' = printed \o line BY <4>4, <4>5
        <5>3. Len(line) = 2 BY <2>3, <3>4
        <5>. QED BY <5>1, <5>2, <5>3
      <4>7. (Len(printed) + 2) % 2 = 0 BY <1>1, <3>1
      <4>8. Len(partial') = 0 BY <4>4
      <4>. QED BY <4>6, <4>7, <4>8
    <3>5. Len(partial) = 0 \/ Len(partial) = 1
      <4>1. Len(partial) \in Nat BY <1>1
      <4>2. Len(partial) <= 1 BY <3>1
      <4>. QED BY <4>1, <4>2
    <3>. QED BY <3>3, <3>4, <3>5
  <2>6. server' = "server_new" => AllFresh(downlink') /\ AllFresh(partial')
    BY <1>2, <2>1, <2>4
  <2>. QED BY <1>2, <2>1, <2>5, <2>6 DEF WholeLines, AllFresh
<1>4. CASE ReadAll
  <2>1. client = "client2" /\ partial' = partial BY <1>4 DEF ReadAll
  <2>2. PICK count \in 1 .. Min({ClientBuf, Len(downlink)}) :
             downlink' = SubSeq(downlink, count + 1, Len(downlink))
    BY <1>4 DEF ReadAll
  <2>3. count + 1 \in Nat \ {0}
    <3>1. ClientBuf \in Nat BY DEF SessionAssumption
    <3>2. Min({ClientBuf, Len(downlink)}) \in Nat BY <1>1, <3>1, MinOfTwo
    <3>. QED BY <3>2
  <2>4. AllFresh(downlink) => AllFresh(downlink')
    <3>1. SUFFICES ASSUME AllFresh(downlink) PROVE AllFresh(downlink') OBVIOUS
    <3>2. AllFresh(SubSeq(downlink, count + 1, Len(downlink)))
      BY <1>1, <2>3, <3>1, AllFreshPart
    <3>. QED BY <2>2, <3>2
  <2>5. AllFresh(partial) => AllFresh(partial') BY <2>1
  <2>6. server' = "server_new" => AllFresh(downlink') /\ AllFresh(partial')
    BY <1>2, <2>4, <2>5 DEF WholeLines
  <2>. QED BY <1>2, <2>1, <2>6 DEF WholeLines, AllFresh
<1>5. CASE ReadEnd \/ ReadReset
  <2>1. link' # "up" /\ partial' = <<>> /\ downlink' = downlink
    BY <1>5 DEF ReadEnd, ReadReset
  <2>2. AllFresh(partial') BY <2>1 DEF AllFresh
  <2>. QED BY <1>2, <2>1, <2>2 DEF WholeLines, AllFresh
<1>6. CASE Write
  <2>1. PICK text \in IF server = "server" THEN Strings ELSE {buf} :
               downlink' = downlink \o Reply(text)
    BY <1>6 DEF Write
  <2>2. UNCHANGED <<partial, printed, link>> BY <1>6 DEF Write
  <2>3. ASSUME server = "server_new" PROVE AllFresh(downlink')
    <3>1. Reply(text) \in Seq(AnyPiece) /\ AllFresh(Reply(text)) BY <2>1, <2>3, ReplyIsBuf
    <3>2. AllFresh(downlink) BY <2>3 DEF WholeLines
    <3>3. AllFresh(downlink \o Reply(text)) BY <1>1, <3>1, <3>2, AllFreshConcat
    <3>. QED BY <2>1, <3>3
  <2>. QED BY <1>2, <2>2, <2>3 DEF WholeLines, AllFresh
<1>7. CASE /\ link' = "up" => link = "up"
           /\ UNCHANGED <<printed, partial, downlink>>
  BY <1>2, <1>7 DEF WholeLines, AllFresh
<1>8. \/ UNCHANGED vars \/ EnterLine \/ EndInput \/ ServerEnds \/ Select \/ Fill \/ Buffered
      \/ InputEnds \/ Writen \/ WritenBroken \/ (\E count \in 1 .. ServerBuf : Read(count))
      => /\ link' = "up" => link = "up"
         /\ UNCHANGED <<printed, partial, downlink>>
  BY DEF vars, EnterLine, EndInput, ServerEnds, Select, Fill, Buffered, InputEnds, Writen,
         WritenBroken, Read, LinkAfterWrite, TypeOK
<1>. QED BY <1>3, <1>4, <1>5, <1>6, <1>7, <1>8 DEF Next, Client, Server

----------------------------------------------------------------------------
(* What is shown again                                                     *)

\* Any stretch of a sequence has something before it and something behind it.
LEMMA Middle ==
    ASSUME NEW S, NEW s \in Seq(S), NEW i \in Nat, NEW j \in Nat, i <= j, j <= Len(s)
    PROVE  /\ SubSeq(s, 1, i) \in Seq(S) /\ SubSeq(s, i + 1, j) \in Seq(S)
           /\ SubSeq(s, j + 1, Len(s)) \in Seq(S)
           /\ s = Cat(Cat(SubSeq(s, 1, i), SubSeq(s, i + 1, j)), SubSeq(s, j + 1, Len(s)))
<1>1. Len(s) \in Nat /\ \A k \in 1 .. Len(s) : s[k] \in S BY LenProperties, ElementOfSeq
<1>2. SubSeq(s, j + 1, Len(s)) \in Seq(S) /\ s = Cat(SubSeq(s, 1, j), SubSeq(s, j + 1, Len(s)))
  BY CatSubSeqs
<1>3. SubSeq(s, 1, i) \o SubSeq(s, i + 1, j) = SubSeq(s, 1, j)
  <2>1. 1 \in 1 .. Len(s) + 1 /\ i \in 1 - 1 .. Len(s) /\ j \in i .. Len(s) BY <1>1
  <2>. QED BY <2>1, ConcatAdjacentSubSeq
<1>4. SubSeq(s, 1, i) \in Seq(S)
  <2>1. \A k \in 1 .. i : s[k] \in S BY <1>1
  <2>. QED BY <2>1, SubSeqProperties
<1>5. SubSeq(s, i + 1, j) \in Seq(S)
  <2>1. \A k \in i + 1 .. j : s[k] \in S BY <1>1
  <2>. QED BY <2>1, SubSeqProperties
<1>6. Cat(SubSeq(s, 1, i), SubSeq(s, i + 1, j)) = SubSeq(s, 1, j) BY <1>3 DEF Cat
<1>. QED BY <1>2, <1>4, <1>5, <1>6

\* To occur is to have something before it and something behind it.
LEMMA OccursIs ==
    ASSUME NEW S, NEW r \in Seq(S), NEW s \in Seq(S)
    PROVE  Occurs(r, s) <=> \E a \in Seq(S), b \in Seq(S) : s = Cat(Cat(a, r), b)
<1>1. Len(r) \in Nat /\ Len(s) \in Nat BY LenProperties
<1>2. ASSUME Occurs(r, s) PROVE \E a \in Seq(S), b \in Seq(S) : s = Cat(Cat(a, r), b)
  <2>1. PICK k \in 0 .. Len(s) - Len(r) : r = SubSeq(s, k + 1, k + Len(r)) BY <1>2 DEF Occurs
  <2>2. k \in Nat /\ k + Len(r) \in Nat /\ k <= k + Len(r) /\ k + Len(r) <= Len(s)
    BY <1>1, <2>1
  <2>3. PICK j : j = k + Len(r) OBVIOUS
  <2>4. j \in Nat /\ k <= j /\ j <= Len(s) /\ r = SubSeq(s, k + 1, j) BY <2>1, <2>2, <2>3
  <2>5. PICK a, b : a = SubSeq(s, 1, k) /\ b = SubSeq(s, j + 1, Len(s)) OBVIOUS
  <2>6. a \in Seq(S) /\ b \in Seq(S) /\ s = Cat(Cat(a, r), b) BY <2>2, <2>4, <2>5, Middle
  <2>. QED BY <2>6
<1>3. ASSUME NEW a \in Seq(S), NEW b \in Seq(S), s = Cat(Cat(a, r), b) PROVE Occurs(r, s)
  <2>1. PICK front : front = Cat(a, r) OBVIOUS
  <2>2. /\ front \in Seq(S) /\ Len(front) = Len(a) + Len(r)
        /\ \A k \in 1 .. Len(a) + Len(r) :
              front[k] = IF k <= Len(a) THEN a[k] ELSE r[k - Len(a)]
    BY <2>1, ConcatProperties DEF Cat
  <2>3. /\ Len(s) = Len(front) + Len(b)
        /\ \A k \in 1 .. Len(front) + Len(b) :
              s[k] = IF k <= Len(front) THEN front[k] ELSE b[k - Len(front)]
    BY <1>3, <2>1, <2>2, ConcatProperties DEF Cat
  <2>4. Len(a) \in Nat /\ Len(b) \in Nat /\ Len(front) \in Nat BY <2>2, LenProperties
  <2>5. ASSUME NEW k \in 1 .. Len(r) PROVE s[Len(a) + k] = r[k] /\ s[Len(a) + k] \in S
    <3>1. /\ Len(a) + k \in 1 .. Len(a) + Len(r) /\ ~ Len(a) + k <= Len(a)
          /\ (Len(a) + k) - Len(a) = k
      BY <1>1, <2>4
    <3>2. front[Len(a) + k] = r[k] BY <2>2, <3>1
    <3>3. Len(a) + k \in 1 .. Len(front) + Len(b) /\ Len(a) + k <= Len(front)
      BY <1>1, <2>2, <2>4
    <3>4. s[Len(a) + k] = r[k] BY <2>3, <3>2, <3>3
    <3>5. r[k] \in S BY ElementOfSeq
    <3>. QED BY <3>4, <3>5
  <2>6. PICK i, x, y : i = Len(a) /\ x = i + 1 /\ y = i + Len(r) OBVIOUS
  <2>7. /\ i \in Nat /\ x \in Int /\ y \in Int
        /\ \A k \in 1 .. Len(r) : s[i + k] = r[k] /\ s[i + k] \in S
    BY <1>1, <2>4, <2>5, <2>6
  <2>. DEFINE q == SubSeq(s, x, y)
  <2>8. q \in Seq(S) /\ Len(q) = Len(r) /\ \A k \in 1 .. Len(r) : q[k] = r[k]
    <3>1. ASSUME NEW k \in x .. y PROVE s[k] \in S
      <4>1. k - i \in 1 .. Len(r) /\ i + (k - i) = k BY <1>1, <2>6, <2>7
      <4>. QED BY <2>7, <4>1
    <3>2. /\ q \in Seq(S)
          /\ Len(q) = IF x <= y THEN y - x + 1 ELSE 0
          /\ \A k \in 1 .. y - x + 1 : q[k] = s[x + k - 1]
      BY <2>7, <3>1, SubSeqProperties
    <3>. HIDE DEF q
    <3>3. y - x + 1 = Len(r) /\ (x <= y <=> Len(r) > 0) BY <1>1, <2>6, <2>7
    <3>4. Len(q) = Len(r) BY <1>1, <3>2, <3>3
    <3>5. ASSUME NEW k \in 1 .. Len(r) PROVE q[k] = r[k]
      <4>1. k \in 1 .. y - x + 1 /\ x + k - 1 = i + k BY <1>1, <2>6, <2>7
      <4>2. q[k] = s[i + k] BY <3>2, <4>1
      <4>. QED BY <2>7, <4>2
    <3>. QED BY <3>2, <3>4, <3>5
  <2>. HIDE DEF q
  <2>9. q = r BY <2>8, SeqEqual
  <2>10. i \in 0 .. Len(s) - Len(r) BY <1>1, <2>2, <2>3, <2>4, <2>6
  <2>. QED BY <2>6, <2>9, <2>10 DEF Occurs, q
<1>. QED BY <1>2, <1>3

LEMMA NothingOccurs ==
    ASSUME NEW S, NEW s \in Seq(S)
    PROVE  Occurs(<<>>, s)
<1>1. PICK e : e = <<>> OBVIOUS
<1>2. e \in Seq(S) BY <1>1, EmptySeq
<1>3. Cat(e, e) = e /\ Cat(e, s) = s BY <1>1, <1>2, CatEmpty
<1>4. s = Cat(Cat(e, e), s) BY <1>3
<1>5. Occurs(e, s) BY <1>2, <1>4, OccursIs
<1>. QED BY <1>1, <1>5

\* What occurs in a sequence occurs in a longer one.
LEMMA OccursLonger ==
    ASSUME NEW S, NEW r \in Seq(S), NEW s \in Seq(S), NEW t \in Seq(S), Occurs(r, s)
    PROVE  Occurs(r, Cat(s, t)) /\ Occurs(r, Cat(t, s))
<1>1. PICK a \in Seq(S), b \in Seq(S) : s = Cat(Cat(a, r), b) BY OccursIs
<1>2. PICK ar : ar = Cat(a, r) OBVIOUS
<1>3. ar \in Seq(S) /\ s = Cat(ar, b) BY <1>1, <1>2, CatType
<1>4. Cat(b, t) \in Seq(S) /\ Cat(t, a) \in Seq(S) /\ Cat(s, t) \in Seq(S)
      /\ Cat(t, s) \in Seq(S) /\ Cat(t, ar) \in Seq(S)
  BY <1>3, CatType
<1>5. Cat(s, t) = Cat(ar, Cat(b, t)) BY <1>3, CatAssociative
<1>6. Occurs(r, Cat(s, t)) BY <1>2, <1>4, <1>5, OccursIs
<1>7. Cat(t, ar) = Cat(Cat(t, a), r) BY <1>2, CatAssociative
<1>8. Cat(t, s) = Cat(Cat(t, ar), b) BY <1>3, CatAssociative
<1>9. Cat(t, s) = Cat(Cat(Cat(t, a), r), b) BY <1>7, <1>8
<1>10. Occurs(r, Cat(t, s)) BY <1>4, <1>9, OccursIs
<1>. QED BY <1>6, <1>10

\* Of a stretch of a text, the pieces of lines occur among those of the text.
LEMMA FreshOccurs ==
    ASSUME NEW S, NEW s \in Seq(S), NEW i \in Nat, NEW j \in Nat, i <= j, j <= Len(s)
    PROVE  Occurs(Fresh(SubSeq(s, i + 1, j)), Fresh(s))
<1>0. PICK a, r, b :
           a = SubSeq(s, 1, i) /\ r = SubSeq(s, i + 1, j) /\ b = SubSeq(s, j + 1, Len(s))
  OBVIOUS
<1>1. a \in Seq(S) /\ r \in Seq(S) /\ b \in Seq(S) /\ s = Cat(Cat(a, r), b)
  BY <1>0, Middle
<1>2. PICK ar : ar = Cat(a, r) OBVIOUS
<1>3. ar \in Seq(S) BY <1>1, <1>2, CatType
<1>4. Fresh(s) = Cat(Fresh(ar), Fresh(b)) BY <1>1, <1>2, <1>3, FreshCat
<1>5. Fresh(ar) = Cat(Fresh(a), Fresh(r)) BY <1>1, <1>2, FreshCat
<1>6. /\ Fresh(a) \in Seq(S) /\ Fresh(r) \in Seq(S) /\ Fresh(b) \in Seq(S)
      /\ Fresh(s) \in Seq(S)
  BY <1>1, FreshType
<1>7. Fresh(s) = Cat(Cat(Fresh(a), Fresh(r)), Fresh(b)) BY <1>4, <1>5
<1>8. PICK fa, fr, fb, fs :
           fa = Fresh(a) /\ fr = Fresh(r) /\ fb = Fresh(b) /\ fs = Fresh(s)
  OBVIOUS
<1>9. Occurs(fr, fs) BY <1>6, <1>7, <1>8, OccursIs
<1>. QED BY <1>0, <1>8, <1>9

LEMMA FreshTextNone ==
    ASSUME NEW S, NEW held \in Seq(S), NEW k \in 1 .. Len(held),
           \A i \in 1 .. Len(held) : ~ OfLine(held[i])
    PROVE  Fresh(TextFrom(held, k)) = <<>>
<1>1. PICK m \in k - 1 .. Len(held) : TextFrom(held, k) = SubSeq(held, k, m)
  BY TextEndIs, TextFromIs
<1>2. Fresh(held) = <<>> BY FreshNone
<1>3. Len(held) \in Nat /\ k - 1 \in Nat /\ m \in Nat /\ k - 1 <= m /\ m <= Len(held)
      /\ (k - 1) + 1 = k
  BY <1>1, LenProperties
<1>4. Occurs(Fresh(SubSeq(held, k, m)), <<>>) BY <1>2, <1>3, FreshOccurs
<1>5. PICK t : t = TextFrom(held, k) OBVIOUS
<1>6. t \in Seq(S) /\ Fresh(t) \in Seq(S) BY <1>5, TextFromIs, FreshType
<1>7. PICK f : f = Fresh(t) OBVIOUS
<1>8. f \in Seq(S) /\ Occurs(f, <<>>) BY <1>1, <1>4, <1>5, <1>6, <1>7
<1>9. PICK i \in 0 .. Len(<<>>) - Len(f) : TRUE BY <1>8 DEF Occurs
<1>10. Len(f) = 0 BY <1>8, <1>9, LenProperties, EmptySeq
<1>. QED BY <1>5, <1>7, <1>8, <1>10, EmptySeq

LEMMA InitHeldWasShown ==
    ASSUME SessionAssumption, Init, TypeOK
    PROVE  HeldWasShown
<1>1. /\ recvline \in Seq(AnyPiece) /\ Len(recvline) = ClientBuf + 1
      /\ printed \in Seq(AnyPiece)
  BY DEF TypeOK
<1>2. client = "client2" => \A k \in 1 .. Len(recvline) : recvline[k] = Zero
  BY <1>1 DEF Init, Unwritten
<1>3. ASSUME NEW k \in 1 .. Len(recvline)
      PROVE  Occurs(Fresh(TextFrom(recvline, k)), printed)
  <2>1. \A i \in 1 .. Len(recvline) : ~ OfLine(recvline[i])
    BY <1>1, OldPieces DEF Init, Unwritten
  <2>2. Fresh(TextFrom(recvline, k)) = <<>> BY <1>1, <2>1, FreshTextNone
  <2>. QED BY <1>1, <2>2, NothingOccurs
<1>. QED BY <1>2, <1>3 DEF HeldWasShown

LEMMA SameStretch ==
    ASSUME NEW S, NEW i \in Int, NEW j \in Int, NEW s, NEW t,
           \A k \in i .. j : s[k] = t[k] /\ s[k] \in S
    PROVE  SubSeq(s, i, j) = SubSeq(t, i, j)
<1>1. /\ SubSeq(s, i, j) \in Seq(S)
      /\ Len(SubSeq(s, i, j)) = IF i <= j THEN j - i + 1 ELSE 0
      /\ \A k \in 1 .. j - i + 1 : SubSeq(s, i, j)[k] = s[i + k - 1]
  BY SubSeqProperties
<1>2. /\ SubSeq(t, i, j) \in Seq(S)
      /\ Len(SubSeq(t, i, j)) = IF i <= j THEN j - i + 1 ELSE 0
      /\ \A k \in 1 .. j - i + 1 : SubSeq(t, i, j)[k] = t[i + k - 1]
  BY SubSeqProperties
<1>3. PICK a, b : a = SubSeq(s, i, j) /\ b = SubSeq(t, i, j) OBVIOUS
<1>4. ASSUME NEW k \in 1 .. Len(a) PROVE a[k] = b[k]
  <2>1. k \in 1 .. j - i + 1 /\ i + k - 1 \in i .. j BY <1>1, <1>3
  <2>. QED BY <1>1, <1>2, <1>3, <2>1
<1>5. a \in Seq(S) /\ b \in Seq(S) /\ Len(a) = Len(b) BY <1>1, <1>2, <1>3
<1>6. a = b BY <1>4, <1>5, SeqEqual
<1>. QED BY <1>3, <1>6

\* printf looks at nothing before the place where it begins.
LEMMA SameText ==
    ASSUME NEW S, NEW s \in Seq(S), NEW t \in Seq(S), NEW m \in Nat, Len(s) = m, Len(t) = m,
           NEW k \in 1 .. m, \A i \in k .. m : s[i] = t[i]
    PROVE  TextFrom(s, k) = TextFrom(t, k)
<1>1. {i \in k .. m : s[i] = Zero} = {i \in k .. m : t[i] = Zero} OBVIOUS
<1>2. TextEnd(s, k) = TextEnd(t, k) BY <1>1 DEF TextEnd
<1>3. PICK e : e = TextEnd(s, k) OBVIOUS
<1>4. e \in k - 1 .. m BY <1>3, TextEndIs
<1>5. ASSUME NEW i \in k .. e PROVE s[i] = t[i] /\ s[i] \in S
  <2>1. i \in k .. m /\ i \in 1 .. Len(s) BY <1>4
  <2>2. s[i] \in S BY <2>1, ElementOfSeq
  <2>. QED BY <2>1, <2>2
<1>6. SubSeq(s, k, e) = SubSeq(t, k, e)
  <2>1. k \in Int /\ e \in Int BY <1>4
  <2>. QED BY <1>5, <2>1, SameStretch
<1>7. TextFrom(s, k) = SubSeq(s, k, e) /\ TextFrom(t, k) = SubSeq(t, k, e)
  BY <1>2, <1>3, TextFromIs
<1>. QED BY <1>6, <1>7

\* readline has put a line over the beginning of recvline and a zero byte behind it.
LEMMA HeldAfterLine ==
    ASSUME SessionAssumption, TypeOK, NEW text \in Seq(AnyPiece), Len(text) <= ClientBuf,
           \A k \in 1 .. Len(recvline) : Occurs(Fresh(TextFrom(recvline, k)), printed),
           NEW k \in 1 .. ClientBuf + 1
    PROVE  Occurs(Fresh(TextFrom(Terminated(text), k)), printed \o Fresh(text))
<1>1. PICK h : h = Terminated(text) OBVIOUS
<1>2. /\ h \in Seq(AnyPiece) /\ Len(h) = ClientBuf + 1
      /\ \A i \in 1 .. ClientBuf + 1 : h[i] = IF i <= Len(text) THEN text[i]
                                            ELSE IF i = Len(text) + 1 THEN Zero
                                            ELSE recvline[i]
  BY <1>1, TerminatedType
<1>3. /\ recvline \in Seq(AnyPiece) /\ Len(recvline) = ClientBuf + 1
      /\ printed \in Seq(AnyPiece)
  BY DEF TypeOK
<1>4. ClientBuf \in Nat /\ Len(text) \in Nat BY LenProperties DEF SessionAssumption
<1>5. PICK ft : ft = Fresh(text) OBVIOUS
<1>6. ft \in Seq(AnyPiece) /\ Cat(printed, ft) \in Seq(AnyPiece)
  BY <1>3, <1>5, FreshType, CatType
<1>7. k \in 1 .. Len(h) BY <1>2
<1>8. TextFrom(h, k) \in Seq(AnyPiece) /\ Fresh(TextFrom(h, k)) \in Seq(AnyPiece)
  BY <1>2, <1>7, TextFromIs, FreshType
<1>9. PICK f : f = Fresh(TextFrom(h, k)) OBVIOUS
<1>a. PICK m : m = TextEnd(h, k) OBVIOUS
<1>10. CASE k <= Len(text)
  <2>1. /\ m \in k - 1 .. Len(h) /\ TextFrom(h, k) = SubSeq(h, k, m)
        /\ \A i \in k .. Len(h) : h[i] = Zero => m < i
    BY <1>2, <1>7, <1>a, TextEndIs, TextFromIs
  <2>2. h[Len(text) + 1] = Zero /\ Len(text) + 1 \in k .. Len(h)
    BY <1>2, <1>4, <1>10
  <2>3. m < Len(text) + 1 BY <2>1, <2>2
  <2>4. k - 1 \in Nat /\ m \in Nat /\ k - 1 <= m /\ m <= Len(text) /\ (k - 1) + 1 = k
    BY <1>2, <1>4, <2>1, <2>3
  <2>5. SubSeq(h, k, m) = SubSeq(text, k, m)
    <3>1. ASSUME NEW i \in k .. m PROVE h[i] = text[i] /\ h[i] \in AnyPiece
      <4>1. i \in 1 .. ClientBuf + 1 /\ i <= Len(text) /\ i \in 1 .. Len(h)
        BY <1>2, <1>4, <2>4
      <4>2. h[i] = text[i] BY <1>2, <4>1
      <4>3. h[i] \in AnyPiece BY <1>2, <4>1, ElementOfSeq
      <4>. QED BY <4>2, <4>3
    <3>. QED BY <2>4, <3>1, SameStretch
  <2>6. Occurs(Fresh(SubSeq(text, k, m)), Fresh(text)) BY <2>4, FreshOccurs
  <2>7. Occurs(f, ft) BY <1>5, <1>9, <2>1, <2>5, <2>6
  <2>8. Occurs(f, Cat(printed, ft)) BY <1>3, <1>6, <1>8, <1>9, <2>7, OccursLonger
  <2>. QED BY <1>1, <1>5, <1>9, <2>8 DEF Cat
<1>11. CASE k = Len(text) + 1
  <2>1. /\ m \in k - 1 .. Len(h) /\ TextFrom(h, k) = SubSeq(h, k, m)
        /\ \A i \in k .. Len(h) : h[i] = Zero => m < i
    BY <1>2, <1>7, <1>a, TextEndIs, TextFromIs
  <2>2. h[k] = Zero /\ k \in k .. Len(h) BY <1>2, <1>4, <1>11
  <2>3. m < k BY <2>1, <2>2
  <2>4. SubSeq(h, k, m) = <<>> BY <1>4, <2>1, <2>3, SubSeqEmpty
  <2>5. f = <<>> BY <1>9, <2>1, <2>4, FreshEmpty
  <2>6. Occurs(f, Cat(printed, ft)) BY <1>6, <2>5, NothingOccurs
  <2>. QED BY <1>1, <1>5, <1>9, <2>6 DEF Cat
<1>12. CASE k > Len(text) + 1
  <2>1. \A i \in k .. ClientBuf + 1 : h[i] = recvline[i] BY <1>2, <1>4, <1>12
  <2>2. TextFrom(h, k) = TextFrom(recvline, k) BY <1>2, <1>3, <1>4, <1>7, <2>1, SameText
  <2>3. Occurs(f, printed) BY <1>3, <1>9, <2>2
  <2>4. Occurs(f, Cat(printed, ft)) BY <1>3, <1>6, <1>8, <1>9, <2>3, OccursLonger
  <2>. QED BY <1>1, <1>5, <1>9, <2>4 DEF Cat
<1>. QED BY <1>4, <1>10, <1>11, <1>12

LEMMA NextHeldWasShown ==
    ASSUME SessionAssumption, TypeOK, WholeLines, HeldWasShown, [Next]_vars
    PROVE  HeldWasShown'
<1>. USE DEF programs, user, serving, reading, shown
<1>1. /\ recvline \in Seq(AnyPiece) /\ Len(recvline) = ClientBuf + 1
      /\ printed \in Seq(AnyPiece) /\ partial \in Seq(AnyPiece)
      /\ downlink \in Seq(AnyPiece) /\ ClientBuf \in Nat
  BY DEF TypeOK, SessionAssumption
<1>2. client' = client
  BY DEF vars, Next, Client, Server, EnterLine, EndInput, Read, Write, ServerEnds, Select,
         ReadPiece, ReadAll, ReadEnd, ReadReset, Fill, Buffered, InputEnds, Writen, WritenBroken
<1>3. CASE ReadPiece
  <2>. DEFINE line == Append(partial, Head(downlink))
  <2>1. /\ client = "client" /\ link' = link /\ downlink # <<>>
        /\ \/ printed' = printed \o Fresh(line) /\ recvline' = Terminated(line)
           \/ UNCHANGED <<printed, recvline>>
    BY <1>3 DEF ReadPiece
  <2>2. line \in Seq(AnyPiece) /\ Len(line) <= ClientBuf
    <3>1. Head(downlink) \in AnyPiece BY <1>1, <2>1, HeadTailProperties
    <3>2. line \in Seq(AnyPiece) /\ Len(line) = Len(partial) + 1
      BY <1>1, <3>1, AppendProperties
    <3>3. Len(partial) \in Nat /\ Len(partial) < ClientBuf BY <1>1, LenProperties DEF TypeOK
    <3>. QED BY <1>1, <3>2, <3>3
  <2>. HIDE DEF line
  <2>3. CASE printed' = printed \o Fresh(line) /\ recvline' = Terminated(line)
    <3>1. Len(recvline') = ClientBuf + 1 BY <2>2, <2>3, TerminatedType
    <3>2. ASSUME link \in {"up", "reset"}, NEW k \in 1 .. ClientBuf + 1
          PROVE  Occurs(Fresh(TextFrom(recvline', k)), printed')
      <4>1. \A i \in 1 .. Len(recvline) : Occurs(Fresh(TextFrom(recvline, i)), printed)
        BY <2>1, <3>2 DEF HeldWasShown
      <4>2. Occurs(Fresh(TextFrom(Terminated(line), k)), printed \o Fresh(line))
        BY <2>2, <4>1, HeldAfterLine
      <4>. QED BY <2>3, <4>2
    <3>. QED BY <1>2, <2>1, <3>1, <3>2 DEF HeldWasShown, TextFrom, Occurs
  <2>4. CASE UNCHANGED <<printed, recvline>>
    BY <1>2, <2>1, <2>4 DEF HeldWasShown, TextFrom, Occurs
  <2>. QED BY <2>1, <2>3, <2>4
<1>4. CASE ReadAll
  <2>1. client = "client2" /\ recvline' = recvline BY <1>4 DEF ReadAll
  <2>. QED BY <1>2, <2>1 DEF HeldWasShown
<1>5. CASE ReadEnd
  <2>1. link \notin {"up", "reset"} /\ link' = link /\ recvline' = Terminated(partial)
    BY <1>5 DEF ReadEnd
  <2>2. ASSUME client = "client2" PROVE \A k \in 1 .. Len(recvline') : recvline'[k] = Zero
    <3>1. partial = <<>> /\ Len(partial) = 0 BY <2>2, EmptySeq DEF WholeLines
    <3>2. Len(partial) <= ClientBuf BY <1>1, <3>1
    <3>3. /\ Len(recvline') = ClientBuf + 1
          /\ \A k \in 1 .. ClientBuf + 1 :
                recvline'[k] = IF k <= Len(partial) THEN partial[k]
                               ELSE IF k = Len(partial) + 1 THEN Zero
                               ELSE recvline[k]
      BY <1>1, <2>1, <3>2, TerminatedType
    <3>4. \A k \in 1 .. ClientBuf + 1 : recvline[k] = Zero BY <1>1, <2>2 DEF HeldWasShown
    <3>. QED BY <1>1, <3>1, <3>3, <3>4
  <2>. QED BY <1>2, <2>1, <2>2 DEF HeldWasShown
<1>6. CASE ReadReset
  <2>1. /\ link' = "broken"
        /\ recvline' = partial \o SubSeq(recvline, Len(partial) + 1, Len(recvline))
    BY <1>6 DEF ReadReset
  <2>2. ASSUME client = "client2" PROVE recvline' = recvline
    <3>1. partial = <<>> /\ Len(<<>>) = 0 BY <2>2 DEF WholeLines
    <3>2. SubSeq(recvline, 1, Len(recvline)) = recvline BY <1>1, SubSeqFull
    <3>3. Cat(<<>>, recvline) = recvline BY <1>1, CatEmpty
    <3>. QED BY <2>1, <3>1, <3>2, <3>3 DEF Cat
  <2>. QED BY <1>2, <2>1, <2>2 DEF HeldWasShown
<1>7. CASE /\ link' \in {"up", "reset"} => link \in {"up", "reset"}
           /\ UNCHANGED <<recvline, printed>>
  BY <1>2, <1>7 DEF HeldWasShown, TextFrom, Occurs
<1>8. \/ UNCHANGED vars \/ EnterLine \/ EndInput \/ ServerEnds \/ Select \/ Fill \/ Buffered
      \/ InputEnds \/ Writen \/ WritenBroken \/ Server
      => /\ link' \in {"up", "reset"} => link \in {"up", "reset"}
         /\ UNCHANGED <<recvline, printed>>
  BY DEF vars, EnterLine, EndInput, ServerEnds, Select, Fill, Buffered, InputEnds, Writen,
         WritenBroken, Server, Read, Write, LinkAfterWrite, TypeOK
<1>. QED BY <1>3, <1>4, <1>5, <1>6, <1>7, <1>8 DEF Next, Client

LEMMA NextRepeatedLast ==
    ASSUME SessionAssumption, TypeOK, WholeLines, HeldWasShown, RepeatedLast, [Next]_vars
    PROVE  RepeatedLast'
<1>. USE DEF programs, user, serving, reading, shown
<1>1. /\ recvline \in Seq(AnyPiece) /\ Len(recvline) = ClientBuf + 1
      /\ printed \in Seq(AnyPiece) /\ partial \in Seq(AnyPiece) /\ ClientBuf \in Nat
  BY DEF TypeOK, SessionAssumption
<1>2. CASE ReadReset
  <2>. DEFINE k == Len(partial) + 1
  <2>1. /\ client' = client /\ link = "reset" /\ link' = "broken"
        /\ downlink = <<>> /\ downlink' = <<>> /\ partial' = <<>>
        /\ printed' = printed \o Fresh(partial)
        /\ repeated' = Fresh(TextFrom(recvline, k))
    BY <1>2 DEF ReadReset
  <2>2. k \in 1 .. Len(recvline)
    <3>1. Len(partial) \in Nat /\ Len(partial) < ClientBuf BY <1>1, LenProperties DEF TypeOK
    <3>. QED BY <1>1, <3>1
  <2>. HIDE DEF k
  <2>3. CASE client = "client"
    <3>1. PICK f, g : f = Fresh(TextFrom(recvline, k)) /\ g = Fresh(partial) OBVIOUS
    <3>2. f \in Seq(AnyPiece) /\ g \in Seq(AnyPiece)
      BY <1>1, <2>2, <3>1, TextFromIs, FreshType
    <3>3. Occurs(f, printed) BY <2>1, <2>2, <2>3, <3>1 DEF HeldWasShown
    <3>4. Occurs(f, Cat(printed, g)) BY <1>1, <3>2, <3>3, OccursLonger
    <3>5. repeated' = f /\ printed' = Cat(printed, g) BY <2>1, <3>1 DEF Cat
    <3>6. Occurs(repeated', printed') BY <3>4, <3>5
    <3>. QED BY <2>1, <2>3, <3>6 DEF RepeatedLast, Occurs
  <2>4. CASE client # "client"
    <3>1. client = "client2" BY <2>4 DEF TypeOK
    <3>2. \A i \in 1 .. Len(recvline) : ~ OfLine(recvline[i])
      BY <3>1, OldPieces DEF HeldWasShown
    <3>3. Fresh(TextFrom(recvline, k)) = <<>> BY <1>1, <2>2, <3>2, FreshTextNone
    <3>4. repeated' = <<>> BY <2>1, <3>3
    <3>. QED BY <3>4 DEF RepeatedLast
  <2>. QED BY <2>3, <2>4
<1>3. CASE ~ ReadReset
  <2>. SUFFICES ASSUME repeated' # <<>>
                PROVE  /\ client' = "client" /\ link' = "broken"
                       /\ partial' = <<>> /\ downlink' = <<>>
                       /\ Occurs(repeated', printed')
    BY DEF RepeatedLast, Occurs
  <2>1. repeated' = repeated
    BY <1>3 DEF vars, Next, Client, Server, EnterLine, EndInput, Read, Write, ServerEnds, Select,
         ReadPiece, ReadAll, ReadEnd, Fill, Buffered, InputEnds, Writen, WritenBroken
  <2>2. /\ client = "client" /\ link = "broken" /\ partial = <<>> /\ downlink = <<>>
        /\ Occurs(repeated, printed)
    BY <2>1 DEF RepeatedLast
  <2>3. CASE ReadEnd
    <3>1. printed' = printed \/ printed' = printed \o Fresh(<<>>)
      BY <2>2, <2>3 DEF ReadEnd
    <3>2. Cat(printed, <<>>) = printed BY <1>1, CatEmpty
    <3>3. printed' = printed BY <3>1, <3>2, FreshEmpty DEF Cat
    <3>4. client' = client /\ link' = link /\ partial' = <<>> /\ downlink' = downlink
      BY <2>3 DEF ReadEnd
    <3>. QED BY <2>1, <2>2, <3>3, <3>4
  <2>4. CASE ~ ReadEnd
    <3>1. UNCHANGED <<client, link, partial, downlink, printed>>
      BY <1>3, <2>2, <2>4
      DEF vars, Next, Client, Server, EnterLine, EndInput, Read, Write, ServerEnds, Select,
         ReadPiece, ReadAll, Fill, Buffered, InputEnds, Writen, WritenBroken
    <3>. QED BY <2>1, <2>2, <3>1
  <2>. QED BY <2>3, <2>4
<1>. QED BY <1>2, <1>3

----------------------------------------------------------------------------
(* The order of the echo                                                   *)

LEMMA InitInv == SessionAssumption /\ Init => IInv
<1>. SUFFICES ASSUME SessionAssumption, Init PROVE IInv OBVIOUS
<1>1. TypeOK BY InitTypeOK
<1>2. InputInOrder
  <2>1. <<>> \o <<>> \o <<>> = <<>> /\ [k \in 1 .. 0 |-> k] = <<>> OBVIOUS
  <2>. QED BY <2>1 DEF Init, InputInOrder
<1>3. Returned = <<>> /\ Split(sent) = <<>>
  <2>1. <<>> \o <<>> \o <<>> = <<>> OBVIOUS
  <2>. QED BY <2>1, FreshEmpty, SplitEmpty DEF Init, Returned
<1>4. IsPrefix(Returned, Split(sent))
  <2>1. <<>> \in Seq({}) /\ Cat(<<>>, <<>>) = <<>> BY EmptySeq, CatEmpty
  <2>2. IsPrefix(<<>>, Cat(<<>>, <<>>)) BY <2>1, PrefixOfCat
  <2>. QED BY <1>3, <2>1, <2>2
<1>5. NothingLost
  <2>1. SubSeq(buf, 1, n) = <<>> /\ uplink = <<>> BY SubSeqEmpty DEF Init
  <2>2. <<>> \o <<>> \o <<>> = <<>> OBVIOUS
  <2>. QED BY <1>3, <2>1, <2>2 DEF NothingLost
<1>6. BufIsRead BY DEF Init, BufIsRead, AllFresh
<1>7. WholeLines BY DEF Init, WholeLines, AllFresh
<1>8. HeldWasShown BY <1>1, InitHeldWasShown
<1>9. RepeatedLast BY DEF Init, RepeatedLast
<1>. QED BY <1>1, <1>2, <1>4, <1>5, <1>6, <1>7, <1>8, <1>9 DEF IInv

LEMMA NextInv == SessionAssumption /\ IInv /\ [Next]_vars => IInv'
<1>. SUFFICES ASSUME SessionAssumption, IInv, [Next]_vars PROVE IInv' OBVIOUS
<1>1. /\ TypeOK /\ InputInOrder /\ IsPrefix(Returned, Split(sent)) /\ NothingLost
      /\ BufIsRead /\ WholeLines /\ HeldWasShown /\ RepeatedLast
  BY DEF IInv
<1>2. TypeOK' BY <1>1, NextTypeOK
<1>3. InputInOrder' BY <1>1, NextInputInOrder
<1>4. IsPrefix(Returned', Split(sent')) /\ NothingLost' BY <1>1, NextNothingLost
<1>5. IsPrefix(Returned, Split(sent))' BY <1>4 DEF IsPrefix, Split
<1>6. BufIsRead' BY <1>1, NextBufIsRead
<1>7. WholeLines' BY <1>1, NextWholeLines
<1>8. HeldWasShown' BY <1>1, NextHeldWasShown
<1>9. RepeatedLast' BY <1>1, NextRepeatedLast
<1>. QED BY <1>2, <1>3, <1>4, <1>5, <1>6, <1>7, <1>8, <1>9 DEF IInv

LEMMA InvImpliesEcho == SessionAssumption /\ IInv => EchoInOrder
<1>. SUFFICES ASSUME SessionAssumption, IInv PROVE EchoInOrder OBVIOUS
<1>1. /\ TypeOK /\ IsPrefix(Returned, Split(sent)) /\ NothingLost /\ WholeLines
      /\ RepeatedLast
  BY DEF IInv
<1>2. PICK known : known = printed \o Fresh(partial) OBVIOUS
<1>3. /\ known \in Seq(AnyPiece) /\ Fresh(downlink) \in Seq(AnyPiece)
      /\ Split(sent) \in Seq(AnyPiece)
  BY <1>1, <1>2, ReturnedIs, NothingLostIs DEF Cat
<1>4. Returned = known \o Fresh(downlink) BY <1>2 DEF Returned
<1>5. IsPrefix(known, Split(sent))
  <2>1. Returned = Cat(known, Fresh(downlink)) BY <1>4 DEF Cat
  <2>. QED BY <1>1, <1>3, <2>1, PrefixShorter
<1>6. link = "up" => known \o Fresh(downlink) \o SubSeq(buf, 1, n) \o uplink = Split(sent)
  BY <1>1, <1>4 DEF NothingLost
<1>7. link = "up" /\ client = "client" /\ server = "server_new" => Len(printed) % 2 = 0
  BY <1>1 DEF WholeLines
<1>8. repeated # <<>> => /\ client = "client" /\ link = "broken"
                         /\ partial = <<>> /\ downlink = <<>>
                         /\ Occurs(repeated, printed)
  BY <1>1 DEF RepeatedLast
<1>. QED BY <1>2, <1>5, <1>6, <1>7, <1>8 DEF EchoInOrder

\* What the client shows is what it sent, once and in order; while the link is
\* up, all of it is on its way; and client.c with server_new.c shows whole lines.
\* Only after a reset does client.c show a part of it again, and then nothing more.
THEOREM EchoNeverReordered == Safety => []EchoInOrder
<1>1. Init => IInv BY SessionAssumption, InitInv
<1>2. IInv /\ [Next]_vars => IInv' BY SessionAssumption, NextInv
<1>3. IInv => EchoInOrder BY SessionAssumption, InvImpliesEcho
<1>. QED BY <1>1, <1>2, <1>3, PTL DEF Safety
=============================================================================
