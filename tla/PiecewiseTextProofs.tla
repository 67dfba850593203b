------------------------- MODULE PiecewiseTextProofs ------------------------
(***************************************************************************)
(* What holds of PiecewiseText for any alphabets, any size of a fence of   *)
(* two backticks or more, and any bounds on texts, pieces and chunks: what *)
(* a reader makes of a text wherever the text is cut.                      *)
(*                                                                         *)
(* Of the events, the invariant (EventsInv) says that events and pending   *)
(* are together the parts of the text that was heard, which is all of it   *)
(* but for a CR at its end that the decoder holds back; translate and      *)
(* split are taken apart at a cut by TranslateConcat and SplitConcat.      *)
(*                                                                         *)
(* Of the fences, the invariant (FenceInv) says where a processor stands   *)
(* after the text it has read (StandsOutside, StandsWithBacktick), and     *)
(* that the content is what the text leaves so far; for the positions it   *)
(* has passed that stays so however the text goes on (Remains).            *)
(* A chunk more is an induction over its characters (ChunkMore). Which     *)
(* processor that is depends on the first chunk; ChosenInv says for which  *)
(* texts it matters, and BlockIsLeft that it does not for a fenced block.  *)
(***************************************************************************)
EXTENDS PiecewiseText, TLAPS, WellFoundedInduction, SequenceTheorems

(***************************************************************************)
(* Induction. The library's induction takes an operator as its parameter,  *)
(* which no prover here can instantiate: a set of numbers does instead.    *)
(***************************************************************************)
\* Less-than, as the set of pairs that the library's theorems speak of.
LEMMA Less == \E R : /\ IsWellFoundedOn(R, Nat)
                     /\ \A m, n \in Nat : m < n => <<m, n>> \in R
<1>1. IsWellFoundedOn(OpToRel(<, Nat), Nat)
  BY NatLessThanWellFounded
<1>2. \A m, n \in Nat : m < n => <<m, n>> \in OpToRel(<, Nat)
  BY DEF OpToRel
<1> QED BY <1>1, <1>2

\* A set of numbers that is not empty has a least one.
LEMMA Least ==
  ASSUME NEW S \in SUBSET Nat, S # {}
  PROVE  \E x \in S : \A y \in S : x <= y
<1>1. PICK R : IsWellFoundedOn(R, Nat) /\ \A m, n \in Nat : m < n => <<m, n>> \in R
  BY Less
<1>2. PICK x \in S : \A y \in S : ~ (<<y, x>> \in R)
  <2>1. IsWellFoundedOn(R, Nat) /\ S \subseteq Nat
    BY <1>1
  <2>2. \E x \in S : \A y \in S : ~ (<<y, x>> \in R)
    BY <2>1, WFMin, Zenon
  <2> QED
    BY <2>2
<1>3. ASSUME NEW y \in S PROVE x <= y
  <2>1. x \in Nat /\ y \in Nat /\ ~(y < x)
    BY <1>1, <1>2
  <2> QED
    BY <2>1
<1> QED
  BY <1>3

\* Induction: a set of numbers that has 0 and every successor has them all.
LEMMA SetInduction ==
  ASSUME NEW T \in SUBSET Nat, 0 \in T, \A n \in T : n + 1 \in T
  PROVE  T = Nat
<1>1. SUFFICES ASSUME Nat \ T # {} PROVE FALSE
  OBVIOUS
<1>2. PICK U \in SUBSET Nat : U = Nat \ T
  OBVIOUS
<1>3. PICK x \in U : \A y \in U : x <= y
  BY <1>1, <1>2, Least
<1>4. x \in Nat /\ x # 0
  BY <1>2, <1>3
<1>5. x - 1 \in Nat /\ x - 1 < x /\ (x - 1) + 1 = x
  BY <1>4
<1>6. x - 1 \in T
  BY <1>2, <1>3, <1>5
<1> QED
  BY <1>2, <1>3, <1>5, <1>6

(***************************************************************************)
(* FlattenSeq is a recursive function: what it does with one sequence more *)
(* follows from the concatenations it is built of.                         *)
(***************************************************************************)
\* f[i] is the concatenation of the first i sequences of s.
Partial(s, n, f) == \A i \in 1 .. n : f[i] = IF i = 1 THEN s[i] ELSE f[i - 1] \o s[i]

\* The first n sequences can be concatenated.
LEMMA PartialExists ==
  ASSUME NEW X, NEW s \in Seq(Seq(X)), NEW n \in Nat, n <= Len(s)
  PROVE  \E f \in [1 .. n -> Seq(X)] : Partial(s, n, f)
<1> DEFINE T == {m \in Nat : m <= Len(s) => \E f \in [1 .. m -> Seq(X)] : Partial(s, m, f)}
<1>1. 0 \in T
  <2>1. [i \in 1 .. 0 |-> <<>>] \in [1 .. 0 -> Seq(X)]
    OBVIOUS
  <2>2. Partial(s, 0, [i \in 1 .. 0 |-> <<>>])
    BY DEF Partial
  <2> QED
    BY <2>1, <2>2
<1>2. ASSUME NEW m \in T PROVE m + 1 \in T
  <2>1. SUFFICES ASSUME m + 1 <= Len(s)
                 PROVE  \E f \in [1 .. m + 1 -> Seq(X)] : Partial(s, m + 1, f)
    OBVIOUS
  <2>2. PICK f \in [1 .. m -> Seq(X)] : Partial(s, m, f)
    BY <2>1
  <2>3. PICK y \in Seq(X) : y = IF m = 0 THEN s[1] ELSE f[m] \o s[m + 1]
    <3>1. m + 1 \in 1 .. Len(s) /\ s[m + 1] \in Seq(X)
      BY <2>1
    <3>2. CASE m = 0
      BY <3>1, <3>2
    <3>3. CASE m # 0
      <4>1. m \in 1 .. m /\ f[m] \in Seq(X)
        BY <2>2, <3>3
      <4>2. f[m] \o s[m + 1] \in Seq(X)
        BY <3>1, <4>1
      <4> QED
        BY <3>3, <4>2
    <3> QED
      BY <3>2, <3>3
  <2>4. PICK g : g = [i \in 1 .. m + 1 |-> IF i = m + 1 THEN y ELSE f[i]]
    OBVIOUS
  <2>5. g \in [1 .. m + 1 -> Seq(X)]
    BY <2>4
  <2>6. ASSUME NEW i \in 1 .. m + 1
        PROVE  g[i] = IF i = 1 THEN s[i] ELSE g[i - 1] \o s[i]
    <3>1. CASE i = m + 1
      BY <2>3, <2>4, <3>1
    <3>2. CASE i # m + 1
      <4>1. i \in 1 .. m /\ g[i] = f[i] /\ (i # 1 => g[i - 1] = f[i - 1])
        BY <2>4, <3>2
      <4> QED
        BY <2>2, <4>1 DEF Partial
    <3> QED
      BY <3>1, <3>2
  <2> QED
    BY <2>5, <2>6 DEF Partial
<1>3. T = Nat
  <2> HIDE DEF T
  <2>1. T \in SUBSET Nat
    BY DEF T
  <2> QED
    BY <1>1, <1>2, <2>1, SetInduction
<1> QED
  BY <1>3

\* FlattenSeq is what those concatenations end with.
LEMMA FlattenIs ==
  ASSUME NEW X, NEW s \in Seq(Seq(X)), Len(s) # 0,
         NEW f \in [1 .. Len(s) -> Seq(X)], Partial(s, Len(s), f)
  PROVE  FlattenSeq(s) = f[Len(s)]
<1>1. PICK n \in Nat \ {0} : n = Len(s)
  OBVIOUS
<1> DEFINE G(g) == [i \in 1 .. Len(s) |-> IF i = 1 THEN s[i] ELSE g[i - 1] \o s[i]]
<1>2. f = G(f)
  BY DEF Partial
<1>3. PICK g : g = G(g) /\ FlattenSeq(s) = g[Len(s)]
  <2>1. PICK g : g = CHOOSE h : h = G(h)
    OBVIOUS
  <2>2. g = G(g)
    BY <1>2, <2>1
  <2>3. FlattenSeq(s) = g[Len(s)]
    BY <2>1 DEF FlattenSeq
  <2> QED
    BY <2>2, <2>3
<1> DEFINE T == {m \in Nat : m + 1 \in 1 .. n => f[m + 1] = g[m + 1]}
<1>4. 0 \in T
  BY <1>1, <1>2, <1>3
<1>5. ASSUME NEW m \in T PROVE m + 1 \in T
  <2>1. SUFFICES ASSUME m + 2 \in 1 .. n PROVE f[m + 2] = g[m + 2]
    OBVIOUS
  <2>2. m + 1 \in 1 .. n /\ f[m + 1] = g[m + 1] /\ m + 2 # 1 /\ (m + 2) - 1 = m + 1
    BY <2>1
  <2>3. f[m + 2] = f[m + 1] \o s[m + 2]
    BY <1>1, <2>1, <2>2 DEF Partial
  <2>4. g[m + 2] = g[m + 1] \o s[m + 2]
    BY <1>1, <1>3, <2>1, <2>2
  <2> QED
    BY <2>2, <2>3, <2>4
<1>6. T = Nat
  <2> HIDE DEF T
  <2>1. T \in SUBSET Nat
    BY DEF T
  <2> QED
    BY <1>4, <1>5, <2>1, SetInduction
<1>7. n - 1 \in Nat /\ (n - 1) + 1 = n /\ n \in 1 .. n
  BY <1>1
<1>8. f[n] = g[n]
  BY <1>6, <1>7
<1> QED
  BY <1>1, <1>3, <1>8

\* Nothing to flatten.
LEMMA FlattenEmpty == FlattenSeq(<<>>) = <<>>
BY DEF FlattenSeq

\* One more sequence to flatten.
LEMMA FlattenAppend ==
  ASSUME NEW X, NEW s \in Seq(Seq(X)), NEW x \in Seq(X)
  PROVE  /\ FlattenSeq(s) \in Seq(X)
         /\ FlattenSeq(Append(s, x)) = FlattenSeq(s) \o x
<1>1. PICK n \in Nat : n = Len(s)
  OBVIOUS
<1>2. PICK f \in [1 .. n -> Seq(X)] : Partial(s, n, f)
  BY <1>1, PartialExists
<1>3. PICK y \in Seq(X) : y = FlattenSeq(s) /\ (n # 0 => y = f[n])
  <2>1. CASE n = 0
    <3>1. s = <<>>
      BY <1>1, <2>1, EmptySeq
    <3>2. FlattenSeq(s) = <<>>
      BY <3>1, FlattenEmpty
    <3>3. <<>> \in Seq(X)
      BY EmptySeq
    <3> QED
      BY <2>1, <3>2, <3>3
  <2>2. CASE n # 0
    <3>1. FlattenSeq(s) = f[n]
      BY <1>1, <1>2, <2>2, FlattenIs
    <3>2. f[n] \in Seq(X)
      BY <1>2, <2>2
    <3> QED
      BY <3>1, <3>2
  <2> QED
    BY <2>1, <2>2
<1>4. PICK t \in Seq(Seq(X)) : t = Append(s, x)
  BY AppendProperties
<1>5. PICK g : g = [i \in 1 .. n + 1 |-> IF i = n + 1 THEN y \o x ELSE f[i]]
  OBVIOUS
<1>6. Len(t) = n + 1 /\ t[n + 1] = x /\ \A i \in 1 .. n : t[i] = s[i]
  BY <1>1, <1>4
<1>7. g \in [1 .. Len(t) -> Seq(X)]
  BY <1>5, <1>6
<1>8. ASSUME NEW i \in 1 .. n + 1
      PROVE  g[i] = IF i = 1 THEN t[i] ELSE g[i - 1] \o t[i]
  <2>1. CASE i = n + 1 /\ n # 0
    <3>1. i - 1 = n /\ i # 1 /\ n \in 1 .. n + 1 /\ n # n + 1
      BY <2>1
    <3>2. g[i] = y \o x /\ g[n] = y /\ t[i] = x
      BY <1>3, <1>5, <1>6, <2>1, <3>1
    <3> QED
      BY <3>1, <3>2
  <2>2. CASE i = n + 1 /\ n = 0
    <3>1. y = <<>>
      <4>1. s = <<>>
        BY <1>1, <2>2, EmptySeq
      <4> QED
        BY <1>3, <4>1, FlattenEmpty
    <3>2. y \o x = x
      BY <3>1
    <3> QED
      BY <1>5, <1>6, <2>2, <3>2
  <2>3. CASE i # n + 1
    <3>1. i \in 1 .. n /\ g[i] = f[i] /\ (i # 1 => g[i - 1] = f[i - 1])
      BY <1>5, <2>3
    <3>2. t[i] = s[i]
      BY <1>6, <3>1
    <3> QED
      BY <1>2, <3>1, <3>2 DEF Partial
  <2> QED
    BY <2>1, <2>2, <2>3
<1>9. Partial(t, Len(t), g)
  BY <1>6, <1>8 DEF Partial
<1>10. FlattenSeq(t) = g[n + 1]
  BY <1>6, <1>7, <1>9, FlattenIs
<1>11. g[n + 1] = y \o x
  BY <1>5
<1> QED
  BY <1>3, <1>4, <1>10, <1>11

\* A sequence of sequences that is longer by one.
LEMMA FlattenMore ==
  ASSUME NEW X, NEW s \in Seq(Seq(X)), NEW t \in Seq(Seq(X)),
         Len(t) = Len(s) + 1, \A i \in 1 .. Len(s) : t[i] = s[i]
  PROVE  /\ FlattenSeq(s) \in Seq(X) /\ FlattenSeq(t) \in Seq(X)
         /\ t[Len(s) + 1] \in Seq(X)
         /\ FlattenSeq(t) = FlattenSeq(s) \o t[Len(s) + 1]
<1>1. PICK x \in Seq(X) : x = t[Len(s) + 1]
  BY LenProperties
<1>2. Append(s, x) \in Seq(Seq(X)) /\ Len(Append(s, x)) = Len(s) + 1
  BY AppendProperties
<1>3. \A i \in 1 .. Len(t) : t[i] = Append(s, x)[i]
  BY <1>1, <1>2, AppendProperties
<1>4. t = Append(s, x)
  BY <1>2, <1>3, SeqEqual
<1>5. FlattenSeq(s) \in Seq(X) /\ FlattenSeq(Append(s, x)) = FlattenSeq(s) \o x
  BY FlattenAppend
<1>6. FlattenSeq(t) \in Seq(X)
  BY FlattenAppend
<1> QED
  BY <1>1, <1>4, <1>5, <1>6


-----------------------------------------------------------------------------
(***************************************************************************)
(* Sequences that grow at their end.                                       *)
(***************************************************************************)
\* A sequence is its front and its last element.
LEMMA FrontLast ==
  ASSUME NEW X, NEW s \in Seq(X), s # <<>>
  PROVE  /\ Front(s) \in Seq(X) /\ Last(s) \in X
         /\ Len(Front(s)) = Len(s) - 1 /\ Len(s) \in Nat \ {0}
         /\ s = Append(Front(s), Last(s))
<1>1. PICK n \in Nat \ {0} : n = Len(s)
  BY EmptySeq
<1>2. \A i \in 1 .. n - 1 : s[i] \in X
  BY <1>1
<1>3. /\ Front(s) \in Seq(X) /\ Len(Front(s)) = n - 1
      /\ \A i \in 1 .. n - 1 : Front(s)[i] = s[i]
  <2>1. n - 1 \in Int /\ 1 \in Int
    BY <1>1
  <2>2. PICK f : f = SubSeq(s, 1, n - 1)
    OBVIOUS
  <2>3. /\ f \in Seq(X) /\ Len(f) = IF 1 <= n - 1 THEN (n - 1) - 1 + 1 ELSE 0
        /\ \A i \in 1 .. (n - 1) - 1 + 1 : f[i] = s[1 + i - 1]
    BY <1>2, <2>1, <2>2, SubSeqProperties
  <2>4. Len(f) = n - 1
    BY <1>1, <2>3
  <2>5. \A i \in 1 .. n - 1 : f[i] = s[i]
    BY <1>1, <2>3
  <2>6. f = Front(s)
    BY <1>1, <2>2 DEF Front
  <2> QED
    BY <2>3, <2>4, <2>5, <2>6
<1>4. Last(s) \in X /\ Last(s) = s[n]
  BY <1>1 DEF Last
<1>5. PICK t \in Seq(X) : t = Append(Front(s), Last(s))
  BY <1>3, <1>4, AppendProperties
<1>6. Len(t) = n /\ \A i \in 1 .. n : t[i] = s[i]
  <2>1. Len(t) = n - 1 + 1 /\ t[n - 1 + 1] = Last(s) /\ \A i \in 1 .. n - 1 : t[i] = Front(s)[i]
    BY <1>3, <1>4, <1>5, AppendProperties
  <2> QED
    BY <1>1, <1>3, <1>4, <2>1
<1> QED
  BY <1>1, <1>3, <1>4, <1>5, <1>6, SeqEqual

\* What was appended is the last element.
LEMMA AppendedLast ==
  ASSUME NEW X, NEW s \in Seq(X), NEW x \in X
  PROVE  /\ Append(s, x) \in Seq(X) /\ Append(s, x) # <<>>
         /\ Len(Append(s, x)) = Len(s) + 1 /\ Len(s) \in Nat
         /\ Front(Append(s, x)) = s /\ Last(Append(s, x)) = x
         /\ Append(s, x) = s \o <<x>>
<1>1. PICK t \in Seq(X) : t = Append(s, x)
  BY AppendProperties
<1>2. /\ Len(t) = Len(s) + 1 /\ t[Len(s) + 1] = x /\ Len(s) \in Nat
      /\ \A i \in 1 .. Len(s) : t[i] = s[i]
  BY <1>1, AppendProperties, LenProperties
<1>3. t # <<>>
  BY <1>2, EmptySeq
<1>4. Last(t) = x
  BY <1>2 DEF Last
<1>5. t = Append(Front(t), Last(t)) /\ Front(t) \in Seq(X) /\ Len(Front(t)) = Len(s)
  BY <1>2, <1>3, FrontLast
<1>6. Front(t) = s
  <2>1. PICK f \in Seq(X) : f = Front(t)
    BY <1>5
  <2>2. t = Append(f, x) /\ Len(f) = Len(s)
    BY <1>4, <1>5, <2>1
  <2>3. \A i \in 1 .. Len(f) : t[i] = f[i]
    BY <2>2, AppendProperties
  <2>4. f = s
    BY <1>2, <2>2, <2>3, SeqEqual
  <2> QED
    BY <2>1, <2>4
<1>7. t = s \o <<x>>
  BY <1>1
<1> QED
  BY <1>1, <1>2, <1>3, <1>4, <1>6, <1>7

\* Induction over a sequence that grows at its end.
LEMMA GrowInduction ==
  ASSUME NEW X, NEW T \in SUBSET Seq(X), <<>> \in T,
         \A s \in T : \A x \in X : Append(s, x) \in T
  PROVE  T = Seq(X)
<1> DEFINE N == {n \in Nat : \A s \in Seq(X) : Len(s) = n => s \in T}
<1>1. 0 \in N
  BY EmptySeq
<1>2. ASSUME NEW n \in N PROVE n + 1 \in N
  <2>1. SUFFICES ASSUME NEW s \in Seq(X), Len(s) = n + 1 PROVE s \in T
    OBVIOUS
  <2>2. s # <<>>
    BY <2>1, EmptySeq
  <2>3. Front(s) \in Seq(X) /\ Len(Front(s)) = n /\ Last(s) \in X
    <3>1. Front(s) \in Seq(X) /\ Len(Front(s)) = Len(s) - 1 /\ Last(s) \in X
      BY <2>2, FrontLast
    <3> QED
      BY <2>1, <3>1
  <2>4. Front(s) \in T
    BY <2>3
  <2> QED
    BY <2>2, <2>3, <2>4, FrontLast
<1>3. N = Nat
  <2> HIDE DEF N
  <2>1. N \in SUBSET Nat
    BY DEF N
  <2> QED
    BY <1>1, <1>2, <2>1, SetInduction
<1> QED
  BY <1>3, LenProperties

-----------------------------------------------------------------------------
(***************************************************************************)
(* Universal newlines, one character at a time.                            *)
(***************************************************************************)
newline(char) == IF char = "CR" THEN "LF" ELSE char

\* A text ends with a character.
EndsWith(t, char) == t # <<>> /\ Last(t) = char

\* A character more adds a character, but for the LF of a CR LF.
LEMMA TranslateMore ==
  ASSUME NEW t \in Seq(Characters), NEW c \in Characters
  PROVE  /\ translate(t) \in Seq(Characters)
         /\ translate(<<>>) = <<>>
         /\ translate(Append(t, c)) =
              IF c = "LF" /\ EndsWith(t, "CR") THEN translate(t)
              ELSE Append(translate(t), newline(c))
<1> DEFINE lines(u) == [i \in DOMAIN u |->
                          IF u[i] # "CR" THEN <<u[i]>>
                          ELSE IF i < Len(u) /\ u[i + 1] = "LF" THEN <<>> ELSE <<"LF">>]
<1>1. \A u \in Seq(Characters) : /\ translate(u) = FlattenSeq(lines(u))
                                 /\ lines(u) \in Seq(Seq(Characters))
                                 /\ Len(lines(u)) = Len(u)
  <2>1. TAKE u \in Seq(Characters)
  <2>2. PICK n \in Nat : n = Len(u)
    OBVIOUS
  <2>3. DOMAIN u = 1 .. n /\ \A i \in 1 .. n : u[i] \in Characters
    BY <2>2
  <2>4. ASSUME NEW i \in 1 .. n PROVE lines(u)[i] \in Seq(Characters)
    <3>1. <<u[i]>> \in Seq(Characters)
      BY <2>3
    <3>2. <<"LF">> \in Seq(Characters) /\ <<>> \in Seq(Characters)
      BY DEF Characters
    <3>3. lines(u)[i] \in {<<u[i]>>, <<"LF">>, <<>>}
      BY <2>3
    <3> HIDE DEF lines
    <3> QED
      BY <3>1, <3>2, <3>3
  <2>5. lines(u) \in [1 .. n -> Seq(Characters)]
    BY <2>3, <2>4
  <2>6. lines(u) \in Seq(Seq(Characters)) /\ Len(lines(u)) = n
    BY <2>2, <2>5
  <2>7. translate(u) = FlattenSeq(lines(u))
    BY DEF translate
  <2> QED
    BY <2>2, <2>6, <2>7
<1>2. translate(<<>>) = <<>>
  <2>1. lines(<<>>) = <<>>
    <3>1. <<>> \in Seq(Characters) /\ Len(<<>>) = 0
      BY EmptySeq
    <3>2. lines(<<>>) \in Seq(Seq(Characters)) /\ Len(lines(<<>>)) = 0
      BY <1>1, <3>1
    <3> QED
      BY <3>2, EmptySeq
  <2> QED
    BY <1>1, <2>1, EmptySeq, FlattenEmpty
<1>3. PICK u \in Seq(Characters) : u = Append(t, c)
  BY AppendProperties
<1>4. PICK n \in Nat : n = Len(t)
  OBVIOUS
<1>5. /\ Len(u) = n + 1 /\ u[n + 1] = c /\ \A i \in 1 .. n : u[i] = t[i] /\ t[i] \in Characters
      /\ DOMAIN u = 1 .. n + 1 /\ DOMAIN t = 1 .. n
  BY <1>3, <1>4, AppendProperties
<1>6. PICK lt \in Seq(Seq(Characters)) : lt = lines(t)
  BY <1>1
<1>7. PICK lu \in Seq(Seq(Characters)) : lu = lines(u)
  BY <1>1
<1>8. Len(lt) = n /\ Len(lu) = n + 1
  BY <1>1, <1>4, <1>5, <1>6, <1>7
<1>9. lu[n + 1] = <<newline(c)>>
  <2>1. n + 1 \in DOMAIN u /\ ~(n + 1 < Len(u)) /\ u[n + 1] = c
    BY <1>5
  <2>2. lu[n + 1] = IF c # "CR" THEN <<c>> ELSE <<"LF">>
    BY <1>7, <2>1
  <2> QED
    BY <2>2 DEF newline
<1>10. ASSUME NEW i \in 1 .. n, i # n PROVE lu[i] = lt[i]
  <2>1. /\ i \in DOMAIN u /\ i < Len(u) /\ u[i] = t[i]
        /\ i \in DOMAIN t /\ i < Len(t) /\ u[i + 1] = t[i + 1]
    <3>1. i \in 1 .. n /\ i \in 1 .. n + 1 /\ i < n /\ i < n + 1 /\ i + 1 \in 1 .. n
      BY <1>10
    <3>2. u[i] = t[i] /\ u[i + 1] = t[i + 1]
      BY <1>5, <3>1
    <3> QED
      BY <1>4, <1>5, <3>1, <3>2
  <2>2. lu[i] = IF t[i] # "CR" THEN <<t[i]>> ELSE IF t[i + 1] = "LF" THEN <<>> ELSE <<"LF">>
    BY <1>7, <2>1
  <2>3. lt[i] = IF t[i] # "CR" THEN <<t[i]>> ELSE IF t[i + 1] = "LF" THEN <<>> ELSE <<"LF">>
    BY <1>6, <2>1
  <2> QED
    BY <2>2, <2>3
<1>11. CASE c = "LF" /\ EndsWith(t, "CR")
  <2>1. n # 0 /\ t[n] = "CR"
    BY <1>4, <1>11, EmptySeq DEF EndsWith, Last
  <2>2. lt[n] = <<"LF">> /\ lu[n] = <<>>
    BY <1>4, <1>5, <1>6, <1>7, <1>11, <2>1
  <2>3. PICK m \in Seq(Seq(Characters)) : m = Front(lt) /\ Len(m) = n - 1 /\ lt = Append(m, lt[n])
    <3>1. lt # <<>>
      BY <1>8, <2>1, EmptySeq
    <3>2. Last(lt) = lt[n]
      BY <1>8 DEF Last
    <3> QED
      BY <1>8, <3>1, <3>2, FrontLast
  <2>4. \A i \in 1 .. n - 1 : lt[i] = m[i]
    <3>1. PICK x \in Seq(Characters) : x = lt[n]
      <4>1. "LF" \in Characters
        BY DEF Characters
      <4>2. <<"LF">> \in Seq(Characters)
        BY <4>1
      <4> QED
        BY <2>2, <4>2
    <3>2. lt = Append(m, x) /\ Len(m) = n - 1
      BY <2>3, <3>1
    <3> HIDE DEF lines
    <3> QED
      BY <3>2, AppendProperties
  <2>5. PICK v \in Seq(Seq(Characters)) : v = Append(m, <<>>)
    BY AppendProperties, EmptySeq
  <2>6. Len(v) = n /\ v[n] = <<>> /\ \A i \in 1 .. n - 1 : v[i] = m[i]
    <3>1. PICK x \in Seq(Characters) : x = <<>>
      BY EmptySeq
    <3>2. /\ Len(v) = Len(m) + 1 /\ v[Len(m) + 1] = x
          /\ \A i \in 1 .. Len(m) : v[i] = m[i]
      BY <2>5, <3>1, AppendProperties
    <3> QED
      BY <2>1, <2>3, <3>1, <3>2
  <2>7. \A i \in 1 .. n : lu[i] = v[i]
    <3>1. ASSUME NEW i \in 1 .. n - 1 PROVE lu[i] = v[i]
      <4>1. i \in 1 .. n /\ i # n
        OBVIOUS
      <4>2. lu[i] = lt[i]
        BY <1>10, <4>1
      <4> QED
        BY <2>4, <2>6, <4>2
    <3>2. lu[n] = v[n]
      BY <2>2, <2>6
    <3> QED
      BY <3>1, <3>2
  <2>8. FlattenSeq(v) \in Seq(Characters) /\ FlattenSeq(lu) = FlattenSeq(v) \o lu[n + 1]
    BY <1>8, <2>6, <2>7, FlattenMore
  <2>9. FlattenSeq(m) \in Seq(Characters) /\ FlattenSeq(v) = FlattenSeq(m) \o <<>>
    BY <2>5, EmptySeq, FlattenAppend
  <2>10. FlattenSeq(lt) = FlattenSeq(m) \o <<"LF">>
    <3>1. \A i \in 1 .. Len(m) : lt[i] = m[i]
      BY <2>3, <2>4
    <3>2. Len(lt) = Len(m) + 1 /\ Len(m) + 1 = n
      BY <1>8, <2>1, <2>3
    <3>3. FlattenSeq(lt) = FlattenSeq(m) \o lt[Len(m) + 1]
      BY <3>1, <3>2, FlattenMore
    <3> QED
      BY <2>2, <3>2, <3>3
  <2>11. lu[n + 1] = <<"LF">>
    BY <1>9, <1>11 DEF newline
  <2>12. FlattenSeq(lu) = FlattenSeq(lt)
    BY <2>8, <2>9, <2>10, <2>11, ConcatEmptySeq
  <2>13. translate(u) = translate(t)
    BY <1>1, <1>6, <1>7, <2>12
  <2>14. translate(t) \in Seq(Characters)
    <3>1. FlattenSeq(lt) \in Seq(Characters)
      BY FlattenAppend
    <3> QED
      BY <1>1, <1>6, <3>1
  <2> QED
    BY <1>2, <1>3, <1>11, <2>13, <2>14
<1>12. CASE ~(c = "LF" /\ EndsWith(t, "CR"))
  <2>1. \A i \in 1 .. n : lu[i] = lt[i]
    <3>1. CASE n = 0
      BY <3>1
    <3>2. CASE n # 0
      <4>1. t # <<>> /\ Last(t) = t[n]
        BY <1>4, <3>2, EmptySeq DEF Last
      <4>2. ~(c = "LF" /\ t[n] = "CR")
        BY <1>12, <4>1 DEF EndsWith
      <4>3. lu[n] = lt[n]
        BY <1>4, <1>5, <1>6, <1>7, <3>2, <4>2
      <4> QED
        BY <1>10, <4>3
    <3> QED
      BY <3>1, <3>2
  <2>2. FlattenSeq(lt) \in Seq(Characters) /\ FlattenSeq(lu) = FlattenSeq(lt) \o lu[n + 1]
    BY <1>8, <2>1, FlattenMore
  <2>3. newline(c) \in Characters
    BY DEF newline, Characters
  <2>4. FlattenSeq(lu) = Append(FlattenSeq(lt), newline(c))
    BY <1>9, <2>2, <2>3, AppendedLast
  <2>5. translate(u) = Append(translate(t), newline(c))
    BY <1>1, <1>6, <1>7, <2>4
  <2>6. translate(t) \in Seq(Characters)
    BY <1>1, <1>6, <2>2
  <2> QED
    BY <1>2, <1>3, <1>12, <2>5, <2>6
<1> QED
  BY <1>11, <1>12

\* A character more at the end of two texts.
LEMMA ConcatMore ==
  ASSUME NEW X, NEW a \in Seq(X), NEW b \in Seq(X), NEW c \in X
  PROVE  /\ a \o b \in Seq(X) /\ Append(b, c) \in Seq(X)
         /\ a \o Append(b, c) = Append(a \o b, c)
         /\ a \o <<>> = a
         /\ b # <<>> => a \o b # <<>> /\ Last(a \o b) = Last(b)
<1>1. PICK d \in Seq(X) : d = <<c>>
  <2>1. <<c>> \in Seq(X)
    OBVIOUS
  <2> QED
    BY <2>1
<1>2. Append(b, c) = b \o d /\ Append(b, c) \in Seq(X)
  BY <1>1, AppendedLast
<1>3. PICK ab \in Seq(X) : ab = a \o b
  BY ConcatProperties
<1>4. Append(ab, c) = ab \o d
  BY <1>1, AppendedLast
<1>5. (a \o b) \o d = a \o (b \o d)
  BY ConcatAssociative
<1>6. a \o <<>> = a
  BY ConcatEmptySeq
<1>7. ASSUME b # <<>> PROVE ab # <<>> /\ Last(ab) = Last(b)
  <2>1. PICK m \in Nat, n \in Nat \ {0} : m = Len(a) /\ n = Len(b)
    BY <1>7, EmptySeq
  <2>2. Len(ab) = m + n /\ ab[m + n] = IF m + n <= m THEN a[m + n] ELSE b[(m + n) - m]
    <3>1. m + n \in 1 .. m + n
      BY <2>1
    <3> QED
      BY <1>3, <2>1, <3>1, ConcatProperties
  <2>3. ab[m + n] = b[n] /\ m + n # 0
    BY <2>1, <2>2
  <2> QED
    BY <2>1, <2>2, <2>3, EmptySeq DEF Last
<1> QED
  BY <1>2, <1>3, <1>4, <1>5, <1>6, <1>7

\* No CR LF is cut in the middle.
Uncut(a, b) == EndsWith(a, "CR") => b = <<>> \/ b[1] # "LF"

\* A text may be translated in two parts, but for a CR LF cut in the middle.
LEMMA TranslateConcat ==
  ASSUME NEW a \in Seq(Characters), NEW b \in Seq(Characters),
         Uncut(a, b)
  PROVE  /\ translate(a) \in Seq(Characters) /\ translate(b) \in Seq(Characters)
         /\ translate(a \o b) = translate(a) \o translate(b)
<1> DEFINE T == {t \in Seq(Characters) :
                   Uncut(a, t) => translate(a \o t) = translate(a) \o translate(t)}
<1>1. \A t \in Seq(Characters) : translate(t) \in Seq(Characters)
  <2>1. "LF" \in Characters
    BY DEF Characters
  <2> QED
    BY <2>1, TranslateMore
<1>2. translate(<<>>) = <<>>
  <2>1. "LF" \in Characters /\ <<>> \in Seq(Characters)
    BY EmptySeq DEF Characters
  <2> QED
    BY <2>1, TranslateMore
<1>3. <<>> \in T
  <2>1. a \o <<>> = a /\ translate(a) \o <<>> = translate(a)
    BY <1>1, ConcatEmptySeq
  <2> QED
    BY <1>2, <2>1, EmptySeq
<1>4. ASSUME NEW t \in T, NEW c \in Characters PROVE Append(t, c) \in T
  <2>0. t \in Seq(Characters)
    OBVIOUS
  <2>1. PICK u \in Seq(Characters) : u = Append(t, c)
    BY <2>0, AppendProperties
  <2>2. SUFFICES ASSUME Uncut(a, u) PROVE translate(a \o u) = translate(a) \o translate(u)
    BY <2>1
  <2>3. PICK at \in Seq(Characters) : at = a \o t
    BY ConcatProperties
  <2>4. a \o u = Append(at, c)
    <3>1. a \o Append(t, c) = Append(a \o t, c)
      BY <2>0, ConcatMore
    <3> QED
      BY <2>1, <2>3, <3>1
  <2>5. t # <<>> => u[1] = t[1]
    <3>1. SUFFICES ASSUME t # <<>> PROVE u[1] = t[1]
      OBVIOUS
    <3>2. Len(t) \in Nat \ {0}
      BY <3>1, EmptySeq
    <3> QED
      BY <2>1, <3>2, AppendProperties
  <2>6. Uncut(a, t)
    <3>1. u # <<>>
      BY <2>0, <2>1, AppendedLast
    <3> QED
      BY <2>2, <2>5, <3>1 DEF Uncut
  <2>7. translate(at) = translate(a) \o translate(t)
    BY <2>3, <2>6
  <2>8. (c = "LF" /\ EndsWith(at, "CR")) <=> (c = "LF" /\ EndsWith(t, "CR"))
    <3>1. CASE t = <<>>
      <4>1. at = a
        BY <2>3, <3>1, ConcatEmptySeq
      <4>2. u[1] = c /\ u # <<>>
        <5>1. Len(t) = 0
          BY <3>1, EmptySeq
        <5>2. Append(t, c)[Len(t) + 1] = c
          BY <2>0, AppendProperties
        <5>3. Append(t, c) # <<>>
          BY <2>0, AppendedLast
        <5> QED
          BY <2>1, <5>1, <5>2, <5>3
      <4>3. ~(c = "LF" /\ EndsWith(a, "CR"))
        BY <2>2, <4>2 DEF Uncut
      <4> QED
        BY <3>1, <4>1, <4>3 DEF EndsWith
    <3>2. CASE t # <<>>
      BY <2>3, <3>2, ConcatMore DEF EndsWith
    <3> QED
      BY <3>1, <3>2
  <2>9. newline(c) \in Characters
    BY DEF newline, Characters
  <2>10. CASE c = "LF" /\ EndsWith(t, "CR")
    <3>1. translate(u) = translate(t) /\ translate(Append(at, c)) = translate(at)
      BY <2>1, <2>8, <2>10, TranslateMore
    <3> QED
      BY <2>4, <2>7, <3>1
  <2>11. CASE ~(c = "LF" /\ EndsWith(t, "CR"))
    <3>1. /\ translate(u) = Append(translate(t), newline(c))
          /\ translate(Append(at, c)) = Append(translate(at), newline(c))
      BY <2>1, <2>8, <2>11, TranslateMore
    <3>2. translate(a) \o Append(translate(t), newline(c))
            = Append(translate(a) \o translate(t), newline(c))
      <4>1. PICK y \in Seq(Characters), z \in Seq(Characters) :
              y = translate(a) /\ z = translate(t)
        BY <1>1, <2>0
      <4>2. PICK d \in Characters : d = newline(c)
        BY <2>9
      <4>3. y \o Append(z, d) = Append(y \o z, d)
        BY ConcatMore
      <4> QED
        BY <4>1, <4>2, <4>3
    <3> QED
      BY <2>4, <2>7, <3>1, <3>2
  <2> QED
    BY <2>10, <2>11
<1>5. T = Seq(Characters)
  <2> HIDE DEF T
  <2>1. T \in SUBSET Seq(Characters)
    BY DEF T
  <2> QED
    BY <1>3, <1>4, <2>1, GrowInduction
<1> QED
  BY <1>1, <1>5

-----------------------------------------------------------------------------
(***************************************************************************)
(* The parts of a text, one character at a time.                           *)
(***************************************************************************)
\* A blank line begins at j, and the first one from i on, or 0.
IsBlank(t, j) == j < Len(t) /\ t[j] = "LF" /\ t[j + 1] = "LF"
Blank(t, i) == FirstFrom(t, i, LAMBDA j : j < Len(t) /\ t[j] = "LF" /\ t[j + 1] = "LF")

LEMMA BlankIs ==
  ASSUME NEW t \in Seq(Characters), NEW i \in Nat \ {0}
  PROVE  \/ Blank(t, i) = 0 /\ \A j \in i .. Len(t) : ~IsBlank(t, j)
         \/ /\ Blank(t, i) \in i .. Len(t) - 1 /\ IsBlank(t, Blank(t, i))
            /\ \A j \in i .. Blank(t, i) - 1 : ~IsBlank(t, j)
<1>1. PICK ps \in SUBSET Nat : ps = {j \in i .. Len(t) : IsBlank(t, j)}
  <2>1. {j \in i .. Len(t) : IsBlank(t, j)} \in SUBSET Nat
    OBVIOUS
  <2> QED
    BY <2>1
<1>2. Blank(t, i) = IF ps = {} THEN 0 ELSE CHOOSE j \in ps : \A k \in ps : j <= k
  BY <1>1 DEF Blank, FirstFrom, IsBlank
<1>3. CASE ps = {}
  BY <1>1, <1>2, <1>3
<1>4. CASE ps # {}
  <2>1. \E j \in ps : \A k \in ps : j <= k
    BY <1>4, Least
  <2>2. PICK b \in ps : b = Blank(t, i) /\ \A k \in ps : b <= k
    BY <1>2, <1>4, <2>1
  <2>3. b \in i .. Len(t) /\ IsBlank(t, b) /\ Len(t) \in Nat
    BY <1>1, <2>2
  <2>4. b \in i .. Len(t) - 1
    BY <2>3 DEF IsBlank
  <2>5. \A j \in i .. b - 1 : ~IsBlank(t, j)
    BY <1>1, <2>2, <2>3
  <2> QED
    BY <2>2, <2>3, <2>4, <2>5
<1> QED
  BY <1>3, <1>4

\* Induction downwards, from the end of a text to its beginning.
LEMMA DownInduction ==
  ASSUME NEW n \in Nat, NEW S,
         \A i \in 1 .. n : (\A j \in i + 1 .. n : j \in S) => i \in S
  PROVE  \A i \in 1 .. n : i \in S
<1> DEFINE T == {m \in Nat : \A i \in 1 .. n : i > n - m => i \in S}
<1>1. 0 \in T
  OBVIOUS
<1>2. ASSUME NEW m \in T PROVE m + 1 \in T
  <2>1. SUFFICES ASSUME NEW i \in 1 .. n, i > n - (m + 1) PROVE i \in S
    OBVIOUS
  <2>2. \A j \in i + 1 .. n : j > n - m /\ j \in 1 .. n
    BY <2>1
  <2> QED
    BY <2>2
<1>3. T = Nat
  <2> HIDE DEF T
  <2>1. T \in SUBSET Nat
    BY DEF T
  <2> QED
    BY <1>1, <1>2, <2>1, SetInduction
<1>4. n \in T
  BY <1>3
<1> QED
  BY <1>4

(***************************************************************************)
(* split is a recursive function of the position where a part begins: what *)
(* it finds from there on, given what it finds from later positions on.    *)
(***************************************************************************)
PartsFrom(t, f, i) ==
  IF Blank(t, i) = 0 THEN <<SubSeq(t, i, Len(t))>>
  ELSE <<SubSeq(t, i, Blank(t, i) - 1)>> \o f[Blank(t, i) + 2]

\* A part of a text is a text.
LEMMA PartOf ==
  ASSUME NEW t \in Seq(Characters), NEW i \in Nat \ {0}, NEW j \in Int, j <= Len(t)
  PROVE  /\ SubSeq(t, i, j) \in Seq(Characters)
         /\ <<SubSeq(t, i, j)>> \in Seq(Seq(Characters))
         /\ Len(SubSeq(t, i, j)) = IF i <= j THEN j - i + 1 ELSE 0
         /\ \A k \in 1 .. j - i + 1 : SubSeq(t, i, j)[k] = t[i + k - 1]
<1>1. \A k \in i .. j : t[k] \in Characters
  BY LenProperties
<1>2. i \in Int
  OBVIOUS
<1>3. PICK s : s = SubSeq(t, i, j)
  OBVIOUS
<1>4. /\ s \in Seq(Characters) /\ Len(s) = IF i <= j THEN j - i + 1 ELSE 0
      /\ \A k \in 1 .. j - i + 1 : s[k] = t[i + k - 1]
  BY <1>1, <1>2, <1>3, SubSeqProperties
<1>5. <<s>> \in Seq(Seq(Characters))
  BY <1>4
<1> QED
  BY <1>3, <1>4, <1>5

\* What is found from a position on is a text or more.
LEMMA PartsFromType ==
  ASSUME NEW t \in Seq(Characters), NEW i \in 1 .. Len(t) + 1, NEW f,
         \A j \in i + 1 .. Len(t) + 1 : f[j] \in Seq(Seq(Characters))
  PROVE  PartsFrom(t, f, i) \in Seq(Seq(Characters)) /\ PartsFrom(t, f, i) # <<>>
<1>1. Len(t) \in Nat /\ i \in Nat \ {0}
  OBVIOUS
<1>2. CASE Blank(t, i) = 0
  <2>1. PICK x \in Seq(Characters) : x = SubSeq(t, i, Len(t))
    <3>1. Len(t) \in Int /\ Len(t) <= Len(t)
      BY <1>1
    <3> QED
      BY <1>1, <3>1, PartOf
  <2>2. <<x>> \in Seq(Seq(Characters)) /\ <<x>> # <<>>
    OBVIOUS
  <2> QED
    BY <1>2, <2>1, <2>2 DEF PartsFrom
<1>3. CASE Blank(t, i) # 0
  <2>1. PICK b \in i .. Len(t) - 1 : b = Blank(t, i)
    BY <1>1, <1>3, BlankIs
  <2>2. b \in Nat /\ b - 1 \in Int /\ b - 1 <= Len(t) /\ b + 2 \in i + 1 .. Len(t) + 1
    BY <1>1, <2>1
  <2>3. PICK x \in Seq(Characters) : x = SubSeq(t, i, b - 1)
    BY <1>1, <2>2, PartOf
  <2>4. PICK y \in Seq(Seq(Characters)) : y = f[b + 2]
    BY <2>2
  <2>5. <<x>> \in Seq(Seq(Characters)) /\ <<x>> # <<>>
    OBVIOUS
  <2>6. <<x>> \o y \in Seq(Seq(Characters)) /\ <<x>> \o y # <<>>
    BY <2>5, ConcatProperties, ConcatEqualIffEmpty
  <2> QED
    BY <1>3, <2>1, <2>3, <2>4, <2>6 DEF PartsFrom
<1> QED
  BY <1>2, <1>3

\* What is found from a position on depends on later positions alone.
LEMMA PartsFromSame ==
  ASSUME NEW t \in Seq(Characters), NEW i \in 1 .. Len(t) + 1, NEW f, NEW g,
         \A j \in i + 1 .. Len(t) + 1 : f[j] = g[j]
  PROVE  PartsFrom(t, f, i) = PartsFrom(t, g, i)
<1>1. Len(t) \in Nat /\ i \in Nat \ {0}
  OBVIOUS
<1>2. CASE Blank(t, i) = 0
  BY <1>2 DEF PartsFrom
<1>3. CASE Blank(t, i) # 0
  <2>1. Blank(t, i) \in i .. Len(t) - 1
    BY <1>1, <1>3, BlankIs
  <2>2. Blank(t, i) + 2 \in i + 1 .. Len(t) + 1
    BY <1>1, <2>1
  <2> QED
    BY <1>3, <2>2 DEF PartsFrom
<1> QED
  BY <1>2, <1>3

\* The recursive function that split takes the value of.
LEMMA SplitIs ==
  ASSUME NEW t \in Seq(Characters)
  PROVE  \E f : /\ split(t) = f[1]
                /\ \A i \in 1 .. Len(t) + 1 : /\ f[i] = PartsFrom(t, f, i)
                                              /\ f[i] \in Seq(Seq(Characters))
                                              /\ f[i] # <<>>
<1>1. PICK n \in Nat : n = Len(t) + 1
  OBVIOUS
<1> DEFINE T == {m \in Nat : m <= n =>
                   \E f \in [1 .. n -> Seq(Seq(Characters))] :
                     \A i \in 1 .. n : i > n - m => f[i] = PartsFrom(t, f, i)}
<1>2. 0 \in T
  <2>1. [i \in 1 .. n |-> <<>>] \in [1 .. n -> Seq(Seq(Characters))]
    BY EmptySeq
  <2>2. \A i \in 1 .. n : ~(i > n - 0)
    OBVIOUS
  <2> QED
    BY <2>1, <2>2
<1>3. ASSUME NEW m \in T PROVE m + 1 \in T
  <2>1. SUFFICES ASSUME m + 1 <= n
                 PROVE  \E f \in [1 .. n -> Seq(Seq(Characters))] :
                          \A i \in 1 .. n : i > n - (m + 1) => f[i] = PartsFrom(t, f, i)
    OBVIOUS
  <2>2. PICK f \in [1 .. n -> Seq(Seq(Characters))] :
          \A i \in 1 .. n : i > n - m => f[i] = PartsFrom(t, f, i)
    BY <2>1
  <2>3. PICK k \in 1 .. n : k = n - m
    BY <2>1
  <2>4. PICK y \in Seq(Seq(Characters)) : y = PartsFrom(t, f, k)
    <3>1. \A j \in k + 1 .. Len(t) + 1 : f[j] \in Seq(Seq(Characters))
      BY <1>1
    <3> QED
      BY <1>1, <3>1, PartsFromType
  <2>5. PICK g : g = [f EXCEPT ![k] = y]
    OBVIOUS
  <2>6. g \in [1 .. n -> Seq(Seq(Characters))] /\ g[k] = y
    BY <2>5
  <2>7. \A j \in 1 .. n : j # k => g[j] = f[j]
    BY <2>5
  <2>8. ASSUME NEW i \in 1 .. n, i > n - (m + 1) PROVE g[i] = PartsFrom(t, g, i)
    <3>1. i >= k /\ i \in 1 .. Len(t) + 1
      BY <1>1, <2>3, <2>8
    <3>2. \A j \in i + 1 .. Len(t) + 1 : f[j] = g[j]
      BY <1>1, <2>7, <3>1
    <3>3. PartsFrom(t, f, i) = PartsFrom(t, g, i)
      BY <3>1, <3>2, PartsFromSame
    <3>4. CASE i = k
      BY <2>4, <2>6, <3>3, <3>4
    <3>5. CASE i # k
      BY <2>2, <2>3, <2>7, <3>1, <3>3, <3>5
    <3> QED
      BY <3>4, <3>5
  <2> QED
    BY <2>6, <2>8
<1>4. T = Nat
  <2> HIDE DEF T
  <2>1. T \in SUBSET Nat
    BY DEF T
  <2> QED
    BY <1>2, <1>3, <2>1, SetInduction
<1>5. PICK f \in [1 .. n -> Seq(Seq(Characters))] : \A i \in 1 .. n : f[i] = PartsFrom(t, f, i)
  <2>1. n \in T
    BY <1>4
  <2>2. \E f \in [1 .. n -> Seq(Seq(Characters))] :
          \A i \in 1 .. n : i > n - n => f[i] = PartsFrom(t, f, i)
    BY <2>1
  <2>3. \A i \in 1 .. n : i > n - n
    OBVIOUS
  <2> QED
    BY <2>2, <2>3
<1> DEFINE F(h) == [i \in 1 .. n |-> PartsFrom(t, h, i)]
<1>6. f = F(f)
  BY <1>5
<1>7. PICK g : g = F(g) /\ split(t) = g[1]
  <2>1. PICK g : g = CHOOSE h : h = F(h)
    OBVIOUS
  <2>2. g = F(g)
    BY <1>6, <2>1
  <2>3. split(t) = g[1]
    BY <1>1, <2>1 DEF split, PartsFrom, Blank
  <2> QED
    BY <2>2, <2>3
<1>8. \A i \in 1 .. n : g[i] = PartsFrom(t, g, i)
  BY <1>7
<1>9. \A i \in 1 .. n : g[i] \in Seq(Seq(Characters))
  <2> DEFINE S == {i \in 1 .. n : g[i] \in Seq(Seq(Characters))}
  <2>1. ASSUME NEW i \in 1 .. n, \A j \in i + 1 .. n : j \in S PROVE i \in S
    <3>1. \A j \in i + 1 .. Len(t) + 1 : g[j] \in Seq(Seq(Characters))
      BY <1>1, <2>1
    <3>2. PartsFrom(t, g, i) \in Seq(Seq(Characters))
      BY <1>1, <3>1, PartsFromType
    <3> QED
      BY <1>8, <3>2
  <2>2. \A i \in 1 .. n : i \in S
    <3> HIDE DEF S
    <3> QED
      BY <2>1, DownInduction
  <2> QED
    BY <2>2
<1>10. \A i \in 1 .. n : g[i] # <<>>
  <2>1. TAKE i \in 1 .. n
  <2>2. PartsFrom(t, g, i) # <<>>
    <3>1. \A j \in i + 1 .. Len(t) + 1 : g[j] \in Seq(Seq(Characters))
      BY <1>1, <1>9
    <3> QED
      BY <1>1, <3>1, PartsFromType
  <2> QED
    BY <1>8, <2>2
<1> QED
  BY <1>1, <1>7, <1>8, <1>9, <1>10

\* What the parts of a text become with a character more.
Extended(parts, c) ==
  IF c = "LF" /\ EndsWith(Last(parts), "LF")
  THEN Append(Append(Front(parts), Front(Last(parts))), <<>>)
  ELSE Append(Front(parts), Append(Last(parts), c))

\* Only the last of the parts changes.
LEMMA ExtendedLater ==
  ASSUME NEW earlier \in Seq(Seq(Characters)), NEW c \in Characters,
         NEW parts \in Seq(Seq(Characters)), parts # <<>>
  PROVE  Extended(earlier \o parts, c) = earlier \o Extended(parts, c)
<1>0. PICK Y : Y = Seq(Characters)
  OBVIOUS
<1>1. PICK one \in Seq(Y) : one = earlier
  BY <1>0
<1>2. PICK front \in Seq(Y), last \in Y :
        front = Front(parts) /\ last = Last(parts) /\ parts = Append(front, last)
  <2>1. parts \in Seq(Y)
    BY <1>0
  <2> QED
    BY <2>1, FrontLast
<1>3. one \o parts = Append(one \o front, last)
  <2>1. one \o Append(front, last) = Append(one \o front, last)
    BY ConcatMore
  <2> QED
    BY <1>2, <2>1
<1>4. PICK joined \in Seq(Y) : joined = one \o front
  BY ConcatProperties
<1>5. Front(one \o parts) = joined /\ Last(one \o parts) = last
  <2>1. Front(Append(joined, last)) = joined /\ Last(Append(joined, last)) = last
    BY AppendedLast
  <2> QED
    BY <1>3, <1>4, <2>1
<1>6. CASE c = "LF" /\ EndsWith(last, "LF")
  <2>1. PICK y \in Y, z \in Y : y = Front(last) /\ z = <<>>
    <3>1. Front(last) \in Seq(Characters)
      BY <1>0, <1>6, FrontLast DEF EndsWith
    <3>2. <<>> \in Seq(Characters)
      BY EmptySeq
    <3> QED
      BY <1>0, <3>1, <3>2
  <2>2. Extended(one \o parts, c) = Append(Append(joined, y), z)
    BY <1>5, <1>6, <2>1 DEF Extended
  <2>3. Extended(parts, c) = Append(Append(front, y), z)
    BY <1>2, <1>6, <2>1 DEF Extended
  <2>4. PICK w \in Seq(Y) : w = Append(front, y)
    BY AppendProperties
  <2>5. one \o Append(w, z) = Append(one \o w, z)
    BY ConcatMore
  <2>6. one \o w = Append(joined, y)
    BY <1>4, <2>4, ConcatMore
  <2> QED
    BY <1>1, <2>2, <2>3, <2>4, <2>5, <2>6
<1>7. CASE ~(c = "LF" /\ EndsWith(last, "LF"))
  <2>1. PICK y \in Y : y = Append(last, c)
    <3>1. Append(last, c) \in Seq(Characters)
      BY <1>0, AppendProperties
    <3> QED
      BY <1>0, <3>1
  <2>2. Extended(one \o parts, c) = Append(joined, y)
    BY <1>5, <1>7, <2>1 DEF Extended
  <2>3. Extended(parts, c) = Append(front, y)
    BY <1>2, <1>7, <2>1 DEF Extended
  <2>4. one \o Append(front, y) = Append(joined, y)
    BY <1>4, ConcatMore
  <2> QED
    BY <1>1, <2>2, <2>3, <2>4
<1> QED
  BY <1>6, <1>7

\* A part that reaches to the end of the text, with a character more.
LEMMA PartMore ==
  ASSUME NEW t \in Seq(Characters), NEW c \in Characters, NEW i \in 1 .. Len(t) + 1
  PROVE  /\ SubSeq(Append(t, c), i, Len(t) + 1) = Append(SubSeq(t, i, Len(t)), c)
         /\ \A j \in Nat : j <= Len(t) => SubSeq(Append(t, c), i, j) = SubSeq(t, i, j)
<1>1. PICK n \in Nat : n = Len(t)
  OBVIOUS
<1>2. PICK u \in Seq(Characters) : u = Append(t, c)
  BY AppendProperties
<1>3. Len(u) = n + 1 /\ u[n + 1] = c /\ \A k \in 1 .. n : u[k] = t[k]
  BY <1>1, <1>2, AppendProperties
<1>4. i \in Nat \ {0} /\ i <= n + 1
  BY <1>1
<1>5. SubSeq(u, i, n + 1) = Append(SubSeq(t, i, n), c)
  <2>1. PICK s \in Seq(Characters) : /\ s = SubSeq(t, i, n) /\ Len(s) = n - i + 1
                                     /\ \A k \in 1 .. n - i + 1 : s[k] = t[i + k - 1]
    <3>1. n \in Int /\ n <= Len(t)
      BY <1>1
    <3>2. PICK s : s = SubSeq(t, i, n)
      OBVIOUS
    <3>3. /\ s \in Seq(Characters) /\ Len(s) = IF i <= n THEN n - i + 1 ELSE 0
          /\ \A k \in 1 .. n - i + 1 : s[k] = t[i + k - 1]
      BY <1>4, <3>1, <3>2, PartOf
    <3>4. Len(s) = n - i + 1
      BY <1>4, <3>3
    <3> QED
      BY <3>2, <3>3, <3>4
  <2>2. PICK v \in Seq(Characters) : /\ v = SubSeq(u, i, n + 1) /\ Len(v) = n - i + 2
                                     /\ \A k \in 1 .. n - i + 2 : v[k] = u[i + k - 1]
    <3>1. n + 1 \in Int /\ n + 1 <= Len(u)
      BY <1>3
    <3>2. PICK v : v = SubSeq(u, i, n + 1)
      OBVIOUS
    <3>3. /\ v \in Seq(Characters) /\ Len(v) = IF i <= n + 1 THEN (n + 1) - i + 1 ELSE 0
          /\ \A k \in 1 .. (n + 1) - i + 1 : v[k] = u[i + k - 1]
      BY <1>4, <3>1, <3>2, PartOf
    <3>4. Len(v) = n - i + 2 /\ (n + 1) - i + 1 = n - i + 2
      BY <1>4, <3>3
    <3> QED
      BY <3>2, <3>3, <3>4
  <2>3. PICK w \in Seq(Characters) : w = Append(s, c)
    BY AppendProperties
  <2>4. /\ Len(w) = n - i + 2 /\ w[n - i + 2] = c
        /\ \A k \in 1 .. n - i + 1 : w[k] = s[k]
    <3>1. Len(w) = Len(s) + 1 /\ w[Len(s) + 1] = c /\ \A k \in 1 .. Len(s) : w[k] = s[k]
      BY <2>3, AppendProperties
    <3>2. Len(s) + 1 = n - i + 2
      BY <1>4, <2>1
    <3> QED
      BY <2>1, <3>1, <3>2
  <2>5. ASSUME NEW k \in 1 .. n - i + 2 PROVE v[k] = w[k]
    <3>1. CASE k = n - i + 2
      <4>1. i + k - 1 = n + 1
        BY <1>4, <3>1
      <4> QED
        BY <1>3, <2>2, <2>4, <3>1, <4>1
    <3>2. CASE k # n - i + 2
      <4>1. k \in 1 .. n - i + 1 /\ i + k - 1 \in 1 .. n
        BY <1>4, <3>2
      <4> QED
        BY <1>3, <2>1, <2>2, <2>4, <4>1
    <3> QED
      BY <3>1, <3>2
  <2>6. v = w
    BY <2>2, <2>4, <2>5, SeqEqual
  <2> QED
    BY <2>1, <2>2, <2>3, <2>6
<1>6. ASSUME NEW j \in Nat, j <= n PROVE SubSeq(u, i, j) = SubSeq(t, i, j)
  <2>1. j \in Int /\ j <= Len(t) /\ j <= Len(u)
    BY <1>1, <1>3, <1>6
  <2>2. PICK s : s = SubSeq(t, i, j)
    OBVIOUS
  <2>3. PICK v : v = SubSeq(u, i, j)
    OBVIOUS
  <2>4. /\ s \in Seq(Characters) /\ Len(s) = IF i <= j THEN j - i + 1 ELSE 0
        /\ \A k \in 1 .. j - i + 1 : s[k] = t[i + k - 1]
    BY <1>4, <2>1, <2>2, PartOf
  <2>5. /\ v \in Seq(Characters) /\ Len(v) = IF i <= j THEN j - i + 1 ELSE 0
        /\ \A k \in 1 .. j - i + 1 : v[k] = u[i + k - 1]
    BY <1>4, <2>1, <2>3, PartOf
  <2>6. \A k \in 1 .. Len(s) : s[k] = v[k]
    <3>1. TAKE k \in 1 .. Len(s)
    <3>2. k \in 1 .. j - i + 1 /\ i + k - 1 \in 1 .. n
      BY <1>4, <1>6, <2>4
    <3> QED
      BY <1>3, <2>4, <2>5, <3>2
  <2>7. s = v
    BY <2>4, <2>5, <2>6, SeqEqual
  <2> QED
    BY <2>2, <2>3, <2>7
<1> QED
  BY <1>1, <1>2, <1>5, <1>6

\* The first blank line, when a character more may make one.
LEMMA BlankMore ==
  ASSUME NEW t \in Seq(Characters), NEW c \in Characters, NEW i \in 1 .. Len(t) + 1
  PROVE  Blank(Append(t, c), i) =
           IF Blank(t, i) # 0 THEN Blank(t, i)
           ELSE IF c = "LF" /\ EndsWith(SubSeq(t, i, Len(t)), "LF") THEN Len(t) ELSE 0
<1>1. PICK n \in Nat : n = Len(t)
  OBVIOUS
<1>2. PICK u \in Seq(Characters) : u = Append(t, c)
  BY AppendProperties
<1>3. Len(u) = n + 1 /\ u[n + 1] = c /\ \A k \in 1 .. n : u[k] = t[k]
  BY <1>1, <1>2, AppendProperties
<1>4. i \in Nat \ {0} /\ i <= n + 1
  BY <1>1
<1>5. \A j \in 1 .. n - 1 : IsBlank(u, j) <=> IsBlank(t, j)
  BY <1>1, <1>3 DEF IsBlank
<1>6. n # 0 => (IsBlank(u, n) <=> t[n] = "LF" /\ c = "LF")
  BY <1>1, <1>3 DEF IsBlank
<1>7. \A j \in Nat : j > n => ~IsBlank(u, j)
  BY <1>3 DEF IsBlank
<1>8. EndsWith(SubSeq(t, i, n), "LF") <=> i <= n /\ t[n] = "LF"
  <2>1. n \in Int /\ n <= Len(t)
    BY <1>1
  <2>2. PICK s : s = SubSeq(t, i, n)
    OBVIOUS
  <2>3. /\ s \in Seq(Characters) /\ Len(s) = IF i <= n THEN n - i + 1 ELSE 0
        /\ \A k \in 1 .. n - i + 1 : s[k] = t[i + k - 1]
    BY <1>4, <2>1, <2>2, PartOf
  <2>4. CASE i <= n
    <3>1. Len(s) = n - i + 1 /\ n - i + 1 \in 1 .. n - i + 1 /\ i + (n - i + 1) - 1 = n
      BY <1>4, <2>3, <2>4
    <3>2. s # <<>>
      BY <2>3, <3>1, EmptySeq
    <3>3. Last(s) = t[n]
      BY <2>3, <3>1 DEF Last
    <3> QED
      BY <2>2, <2>4, <3>2, <3>3 DEF EndsWith
  <2>5. CASE ~(i <= n)
    <3>1. s = <<>>
      BY <2>3, <2>5, EmptySeq
    <3> QED
      BY <2>2, <2>5, <3>1 DEF EndsWith
  <2> QED
    BY <2>4, <2>5
<1>9. PICK a : a = Blank(t, i)
  OBVIOUS
<1>10. PICK b : b = Blank(u, i)
  OBVIOUS
<1>11. \/ a = 0 /\ \A j \in i .. n : ~IsBlank(t, j)
       \/ a \in i .. n - 1 /\ IsBlank(t, a) /\ \A j \in i .. a - 1 : ~IsBlank(t, j)
  BY <1>1, <1>4, <1>9, BlankIs
<1>12. \/ b = 0 /\ \A j \in i .. n + 1 : ~IsBlank(u, j)
       \/ b \in i .. n + 1 - 1 /\ IsBlank(u, b) /\ \A j \in i .. b - 1 : ~IsBlank(u, j)
  BY <1>3, <1>4, <1>10, BlankIs
<1>13. CASE a # 0
  <2>1. a \in i .. n - 1 /\ IsBlank(u, a) /\ \A j \in i .. a - 1 : ~IsBlank(u, j)
    BY <1>4, <1>5, <1>11, <1>13
  <2>2. b = a
    BY <1>4, <1>12, <2>1
  <2> QED
    BY <1>1, <1>2, <1>9, <1>10, <1>13, <2>2
<1>14. CASE a = 0 /\ c = "LF" /\ i <= n /\ t[n] = "LF"
  <2>1. IsBlank(u, n) /\ \A j \in i .. n - 1 : ~IsBlank(u, j)
    BY <1>4, <1>5, <1>6, <1>11, <1>14
  <2>2. b = n
    BY <1>4, <1>12, <1>14, <2>1
  <2> QED
    BY <1>1, <1>2, <1>8, <1>9, <1>10, <1>14, <2>2
<1>15. CASE a = 0 /\ ~(c = "LF" /\ i <= n /\ t[n] = "LF")
  <2>1. \A j \in i .. n - 1 : ~IsBlank(u, j)
    BY <1>4, <1>5, <1>11, <1>15
  <2>2. i <= n => ~IsBlank(u, n)
    BY <1>4, <1>6, <1>15
  <2>3. b = 0
    BY <1>4, <1>12, <2>1, <2>2
  <2> QED
    BY <1>1, <1>2, <1>8, <1>9, <1>10, <1>15, <2>3
<1> QED
  BY <1>13, <1>14, <1>15

\* A character more changes the parts from any position on in the same way.
LEMMA PartsMore ==
  ASSUME NEW t \in Seq(Characters), NEW c \in Characters, NEW f, NEW g,
         \A i \in 1 .. Len(t) + 1 : /\ f[i] = PartsFrom(t, f, i)
                                    /\ f[i] \in Seq(Seq(Characters)) /\ f[i] # <<>>,
         \A i \in 1 .. Len(t) + 2 : g[i] = PartsFrom(Append(t, c), g, i)
  PROVE  \A i \in 1 .. Len(t) + 1 : g[i] = Extended(f[i], c)
<1>1. PICK n \in Nat : n = Len(t)
  OBVIOUS
<1>2. PICK u \in Seq(Characters) : u = Append(t, c) /\ Len(u) = n + 1
  BY <1>1, AppendProperties
<1> DEFINE S == {i \in 1 .. n + 1 : g[i] = Extended(f[i], c)}
<1>3. ASSUME NEW i \in 1 .. n + 1, \A j \in i + 1 .. n + 1 : j \in S
      PROVE  g[i] = Extended(f[i], c)
  <2>0. i \in 1 .. Len(t) + 1 /\ i \in 1 .. Len(t) + 2 /\ i \in Nat \ {0} /\ i <= n + 1
    BY <1>1
  <2>1. PICK a : a = Blank(t, i)
    OBVIOUS
  <2>2. f[i] = IF a = 0 THEN <<SubSeq(t, i, n)>> ELSE <<SubSeq(t, i, a - 1)>> \o f[a + 2]
    <3>1. f[i] = PartsFrom(t, f, i)
      BY <2>0
    <3> QED
      BY <1>1, <2>1, <3>1 DEF PartsFrom
  <2>3. g[i] = IF Blank(u, i) = 0 THEN <<SubSeq(u, i, n + 1)>>
               ELSE <<SubSeq(u, i, Blank(u, i) - 1)>> \o g[Blank(u, i) + 2]
    <3>1. g[i] = PartsFrom(u, g, i)
      BY <1>2, <2>0
    <3> QED
      BY <1>2, <3>1 DEF PartsFrom
  <2>4. PICK rest \in Seq(Characters) : rest = SubSeq(t, i, n) /\ Len(rest) = n - i + 1
    <3>1. n \in Int /\ n <= Len(t)
      BY <1>1
    <3>2. PICK r : r = SubSeq(t, i, n)
      OBVIOUS
    <3>3. r \in Seq(Characters) /\ Len(r) = IF i <= n THEN n - i + 1 ELSE 0
      BY <2>0, <3>1, <3>2, PartOf
    <3>4. Len(r) = n - i + 1
      BY <2>0, <3>3
    <3> QED
      BY <3>2, <3>3, <3>4
  <2>5. Blank(u, i) = IF a # 0 THEN a
                      ELSE IF c = "LF" /\ EndsWith(rest, "LF") THEN n ELSE 0
    BY <1>1, <1>2, <2>0, <2>1, <2>4, BlankMore
  <2>6. SubSeq(u, i, n + 1) = Append(rest, c)
    BY <1>1, <1>2, <2>0, <2>4, PartMore
  <2>7. \A j \in Nat : j <= n => SubSeq(u, i, j) = SubSeq(t, i, j)
    BY <1>1, <1>2, <2>0, PartMore
  <2>8. CASE a # 0
    <3>1. a \in i .. n - 1 /\ a - 1 \in Nat /\ a - 1 <= n /\ a + 2 \in i + 1 .. n + 1
      <4>1. a \in i .. Len(t) - 1
        BY <2>0, <2>1, <2>8, BlankIs
      <4> QED
        BY <1>1, <2>0, <4>1
    <3>2. g[i] = <<SubSeq(t, i, a - 1)>> \o g[a + 2]
      BY <2>3, <2>5, <2>7, <2>8, <3>1
    <3>3. g[a + 2] = Extended(f[a + 2], c)
      BY <1>3, <3>1
    <3>4. PICK x \in Seq(Characters) : x = SubSeq(t, i, a - 1)
      <4>1. a - 1 \in Int /\ a - 1 <= Len(t)
        BY <1>1, <3>1
      <4> QED
        BY <2>0, <4>1, PartOf
    <3>5. PICK y \in Seq(Seq(Characters)) : y = f[a + 2] /\ y # <<>>
      BY <1>1, <3>1
    <3>6. Extended(<<x>> \o y, c) = <<x>> \o Extended(y, c)
      <4>1. <<x>> \in Seq(Seq(Characters))
        OBVIOUS
      <4> QED
        BY <3>5, <4>1, ExtendedLater
    <3> QED
      BY <2>2, <2>8, <3>2, <3>3, <3>4, <3>5, <3>6
  <2>9. CASE a = 0
    <3>1. f[i] = <<rest>>
      BY <2>2, <2>4, <2>9
    <3>2. PICK Y : Y = Seq(Characters)
      OBVIOUS
    <3>3. PICK none \in Seq(Y) : none = <<>>
      BY EmptySeq
    <3>4. f[i] = Append(none, rest)
      BY <3>1, <3>3
    <3>5. Front(f[i]) = none /\ Last(f[i]) = rest
      <4>1. rest \in Y
        BY <3>2
      <4>2. Front(Append(none, rest)) = none /\ Last(Append(none, rest)) = rest
        BY <4>1, AppendedLast
      <4> QED
        BY <3>4, <4>2
    <3>6. CASE c = "LF" /\ EndsWith(rest, "LF")
      <4>1. n # 0 /\ i <= n
        <5>1. Len(rest) # 0
          BY <3>6, EmptySeq DEF EndsWith
        <5> QED
          BY <2>0, <2>4, <5>1
      <4>2. g[i] = <<SubSeq(u, i, n - 1)>> \o g[n + 2]
        BY <2>3, <2>5, <2>9, <3>6, <4>1
      <4>3. g[n + 2] = << <<>> >>
        <5>1. n + 2 \in 1 .. Len(t) + 2 /\ n + 2 \in Nat \ {0}
          BY <1>1
        <5>2. Blank(u, n + 2) = 0
          <6>1. \/ Blank(u, n + 2) = 0
                \/ Blank(u, n + 2) \in n + 2 .. Len(u) - 1
            BY <5>1, BlankIs
          <6> QED
            BY <1>2, <6>1
        <5>3. g[n + 2] = <<SubSeq(u, n + 2, n + 1)>>
          <6>1. g[n + 2] = PartsFrom(u, g, n + 2)
            BY <1>2, <5>1
          <6> QED
            BY <1>2, <5>2, <6>1 DEF PartsFrom
        <5>4. SubSeq(u, n + 2, n + 1) = <<>>
          BY SubSeqEmpty
        <5> QED
          BY <5>3, <5>4
      <4>4. SubSeq(u, i, n - 1) = Front(rest)
        <5>1. SubSeq(u, i, n - 1) = SubSeq(t, i, n - 1)
          <6>1. n - 1 \in Nat /\ n - 1 <= n
            BY <4>1
          <6> QED
            BY <2>7, <6>1
        <5>2. PICK v : v = SubSeq(t, i, n - 1)
          OBVIOUS
        <5>3. n - 1 \in Int /\ n - 1 <= Len(t) /\ n \in Int /\ n <= Len(t)
          BY <1>1
        <5>4. /\ v \in Seq(Characters) /\ Len(v) = IF i <= n - 1 THEN (n - 1) - i + 1 ELSE 0
              /\ \A k \in 1 .. (n - 1) - i + 1 : v[k] = t[i + k - 1]
          BY <2>0, <5>2, <5>3, PartOf
        <5>5. PICK w \in Seq(Characters) : w = Front(rest) /\ Len(w) = Len(rest) - 1
                                           /\ \A k \in 1 .. Len(w) : rest[k] = w[k]
          <6>1. rest # <<>>
            BY <3>6 DEF EndsWith
          <6>2. PICK w \in Seq(Characters), x \in Characters :
                  w = Front(rest) /\ Len(w) = Len(rest) - 1 /\ rest = Append(w, x)
            BY <6>1, FrontLast
          <6>3. \A k \in 1 .. Len(w) : Append(w, x)[k] = w[k]
            BY AppendProperties
          <6> QED
            BY <6>2, <6>3
        <5>6. \A k \in 1 .. Len(w) : rest[k] = w[k]
          BY <5>5
        <5>7. \A k \in 1 .. n - i + 1 : rest[k] = t[i + k - 1]
          BY <2>0, <2>4, <5>3, PartOf
        <5>8. Len(v) = n - i /\ Len(w) = n - i
          BY <2>0, <2>4, <4>1, <5>4, <5>5
        <5>9. \A k \in 1 .. n - i : v[k] = w[k]
          BY <2>0, <4>1, <5>4, <5>6, <5>7, <5>8
        <5>10. v = w
          BY <5>4, <5>8, <5>9, SeqEqual
        <5> QED
          BY <5>1, <5>2, <5>5, <5>10
      <4>5. g[i] = <<Front(rest)>> \o << <<>> >>
        BY <4>2, <4>3, <4>4
      <4>6. Extended(f[i], c) = Append(Append(none, Front(rest)), <<>>)
        BY <3>5, <3>6 DEF Extended
      <4> QED
        BY <3>3, <4>5, <4>6
    <3>7. CASE ~(c = "LF" /\ EndsWith(rest, "LF"))
      <4>1. g[i] = <<Append(rest, c)>>
        BY <2>3, <2>5, <2>6, <2>9, <3>7
      <4>2. Extended(f[i], c) = Append(none, Append(rest, c))
        BY <3>5, <3>7 DEF Extended
      <4> QED
        BY <3>3, <4>1, <4>2
    <3> QED
      BY <3>6, <3>7
  <2> QED
    BY <2>8, <2>9
<1>4. \A i \in 1 .. n + 1 : i \in S
  <2>1. \A i \in 1 .. n + 1 : (\A j \in i + 1 .. n + 1 : j \in S) => i \in S
    BY <1>3
  <2>2. n + 1 \in Nat
    OBVIOUS
  <2> HIDE DEF S
  <2> QED
    BY <2>1, <2>2, DownInduction
<1> QED
  BY <1>1, <1>4

\* The parts of a text that grows by a character.
LEMMA SplitMore ==
  ASSUME NEW t \in Seq(Characters)
  PROVE  /\ split(t) \in Seq(Seq(Characters)) /\ split(t) # <<>>
         /\ split(<<>>) = << <<>> >>
         /\ \A c \in Characters : split(Append(t, c)) = Extended(split(t), c)
<1>1. PICK f : /\ split(t) = f[1]
               /\ \A i \in 1 .. Len(t) + 1 : /\ f[i] = PartsFrom(t, f, i)
                                             /\ f[i] \in Seq(Seq(Characters))
                                             /\ f[i] # <<>>
  BY SplitIs
<1>2. 1 \in 1 .. Len(t) + 1
  OBVIOUS
<1>3. split(t) \in Seq(Seq(Characters)) /\ split(t) # <<>>
  BY <1>1, <1>2
<1>4. split(<<>>) = << <<>> >>
  <2>1. PICK none \in Seq(Characters) : none = <<>> /\ Len(none) = 0
    BY EmptySeq
  <2>2. PICK g : split(none) = g[1] /\ \A i \in 1 .. Len(none) + 1 : g[i] = PartsFrom(none, g, i)
    BY SplitIs
  <2>3. 1 \in 1 .. Len(none) + 1 /\ 1 \in Nat \ {0}
    BY <2>1
  <2>4. Blank(none, 1) = 0
    <3>1. Blank(none, 1) = 0 \/ Blank(none, 1) \in 1 .. Len(none) - 1
      BY <2>3, BlankIs
    <3> QED
      BY <2>1, <3>1
  <2>5. split(none) = <<SubSeq(none, 1, 0)>>
    <3>1. g[1] = PartsFrom(none, g, 1)
      BY <2>2, <2>3
    <3> QED
      BY <2>1, <2>2, <2>4, <3>1 DEF PartsFrom
  <2>6. SubSeq(none, 1, 0) = <<>>
    BY SubSeqEmpty
  <2> QED
    BY <2>1, <2>5, <2>6
<1>5. ASSUME NEW c \in Characters PROVE split(Append(t, c)) = Extended(split(t), c)
  <2>1. PICK u \in Seq(Characters) : u = Append(t, c) /\ Len(u) = Len(t) + 1
    BY AppendProperties
  <2>2. PICK g : split(u) = g[1] /\ \A i \in 1 .. Len(u) + 1 : g[i] = PartsFrom(u, g, i)
    BY SplitIs
  <2>3. Len(u) + 1 = Len(t) + 2
    BY <2>1
  <2>4. \A i \in 1 .. Len(t) + 2 : g[i] = PartsFrom(Append(t, c), g, i)
    BY <2>1, <2>2, <2>3
  <2>5. \A i \in 1 .. Len(t) + 1 : /\ f[i] = PartsFrom(t, f, i)
                                    /\ f[i] \in Seq(Seq(Characters)) /\ f[i] # <<>>
    BY <1>1
  <2>6. \A i \in 1 .. Len(t) + 1 : g[i] = Extended(f[i], c)
    BY <2>4, <2>5, PartsMore
  <2> QED
    BY <1>1, <1>2, <2>1, <2>2, <2>6
<1> QED
  BY <1>3, <1>4, <1>5

\* The last part has no blank line in it: it is its own only part.
LEMMA SplitLast ==
  ASSUME NEW t \in Seq(Characters)
  PROVE  /\ Last(split(t)) \in Seq(Characters)
         /\ split(Last(split(t))) = <<Last(split(t))>>
<1> DEFINE T == {u \in Seq(Characters) : split(Last(split(u))) = <<Last(split(u))>>}
<1>1. <<>> \in T
  <2>1. <<>> \in Seq(Characters)
    BY EmptySeq
  <2>2. split(<<>>) = << <<>> >>
    BY <2>1, SplitMore
  <2>3. Last(<< <<>> >>) = <<>>
    BY DEF Last
  <2> QED
    BY <2>1, <2>2, <2>3
<1>2. ASSUME NEW u \in T, NEW c \in Characters PROVE Append(u, c) \in T
  <2>1. u \in Seq(Characters) /\ split(Last(split(u))) = <<Last(split(u))>>
    OBVIOUS
  <2>2. PICK v \in Seq(Characters) : v = Append(u, c)
    BY <2>1, AppendProperties
  <2>3. PICK Y : Y = Seq(Characters)
    OBVIOUS
  <2>4. PICK parts \in Seq(Y) : parts = split(u) /\ parts # <<>>
    BY <2>1, <2>3, SplitMore
  <2>5. PICK front \in Seq(Y), last \in Y : front = Front(parts) /\ last = Last(parts)
    BY <2>4, FrontLast
  <2>6. split(v) = Extended(parts, c)
    BY <2>1, <2>2, <2>4, SplitMore
  <2>7. CASE c = "LF" /\ EndsWith(last, "LF")
    <3>1. split(v) = Append(Append(front, Front(last)), <<>>)
      BY <2>5, <2>6, <2>7 DEF Extended
    <3>2. PICK y \in Y, z \in Y : y = Front(last) /\ z = <<>>
      <4>1. Front(last) \in Seq(Characters)
        BY <2>3, <2>7, FrontLast DEF EndsWith
      <4>2. <<>> \in Seq(Characters)
        BY EmptySeq
      <4> QED
        BY <2>3, <4>1, <4>2
    <3>3. PICK w \in Seq(Y) : w = Append(front, y)
      BY AppendProperties
    <3>4. Last(Append(w, z)) = z
      BY AppendedLast
    <3>5. Last(split(v)) = <<>>
      BY <3>1, <3>2, <3>3, <3>4
    <3>6. split(<<>>) = << <<>> >>
      BY <2>1, SplitMore
    <3> QED
      BY <2>2, <3>5, <3>6
  <2>8. CASE ~(c = "LF" /\ EndsWith(last, "LF"))
    <3>1. PICK y \in Y : y = Append(last, c)
      <4>1. Append(last, c) \in Seq(Characters)
        BY <2>3, AppendProperties
      <4> QED
        BY <2>3, <4>1
    <3>2. split(v) = Append(front, y)
      BY <2>5, <2>6, <2>8, <3>1 DEF Extended
    <3>3. Last(Append(front, y)) = y
      BY AppendedLast
    <3>4. split(last) = <<last>>
      BY <2>1, <2>4, <2>5
    <3>5. split(y) = Extended(<<last>>, c)
      BY <2>3, <3>1, <3>4, SplitMore
    <3>6. Last(<<last>>) = last /\ Front(<<last>>) = <<>>
      <4>1. <<>> \in Seq(Y)
        BY EmptySeq
      <4>2. Last(Append(<<>>, last)) = last /\ Front(Append(<<>>, last)) = <<>>
        BY <4>1, AppendedLast
      <4> QED
        BY <4>2
    <3>7. split(y) = Append(<<>>, y)
      BY <2>8, <3>1, <3>5, <3>6 DEF Extended
    <3>8. split(y) = <<y>> /\ Last(split(v)) = y
      BY <3>2, <3>3, <3>7
    <3>9. split(Last(split(v))) = <<Last(split(v))>>
      BY <3>8
    <3> QED
      BY <2>2, <3>9
  <2> QED
    BY <2>7, <2>8
<1>3. T = Seq(Characters)
  <2> HIDE DEF T
  <2>1. T \in SUBSET Seq(Characters)
    BY DEF T
  <2> QED
    BY <1>1, <1>2, <2>1, GrowInduction
<1>4. Last(split(t)) \in Seq(Characters)
  <2>1. PICK Y : Y = Seq(Characters)
    OBVIOUS
  <2>2. split(t) \in Seq(Y) /\ split(t) # <<>>
    BY <2>1, SplitMore
  <2>3. Last(split(t)) \in Y
    BY <2>2, FrontLast
  <2> QED
    BY <2>1, <2>3
<1> QED
  BY <1>3, <1>4

\* More text changes the last part only, and what it does to it does not depend on the others.
LEMMA SplitConcat ==
  ASSUME NEW t \in Seq(Characters), NEW u \in Seq(Characters)
  PROVE  split(t \o u) = Front(split(t)) \o split(Last(split(t)) \o u)
<1>1. PICK front \in Seq(Seq(Characters)), last \in Seq(Characters) :
        front = Front(split(t)) /\ last = Last(split(t)) /\ split(t) = Append(front, last)
  <2>1. PICK Y : Y = Seq(Characters)
    OBVIOUS
  <2>2. split(t) \in Seq(Y) /\ split(t) # <<>>
    BY <2>1, SplitMore
  <2>3. Front(split(t)) \in Seq(Y) /\ Last(split(t)) \in Y
        /\ split(t) = Append(Front(split(t)), Last(split(t)))
    BY <2>2, FrontLast
  <2> QED
    BY <2>1, <2>3
<1> DEFINE T == {v \in Seq(Characters) : split(t \o v) = front \o split(last \o v)}
<1>2. <<>> \in T
  <2>1. t \o <<>> = t /\ last \o <<>> = last
    BY ConcatEmptySeq
  <2>2. split(last) = <<last>>
    BY <1>1, SplitLast
  <2>3. split(t) = front \o <<last>>
    <3>1. PICK Y : Y = Seq(Characters)
      OBVIOUS
    <3>2. front \in Seq(Y) /\ last \in Y
      BY <3>1
    <3>3. Append(front, last) = front \o <<last>>
      BY <3>2, AppendedLast
    <3> QED
      BY <1>1, <3>3
  <2> QED
    BY <2>1, <2>2, <2>3, EmptySeq
<1>3. ASSUME NEW v \in T, NEW c \in Characters PROVE Append(v, c) \in T
  <2>1. v \in Seq(Characters) /\ split(t \o v) = front \o split(last \o v)
    OBVIOUS
  <2>2. PICK tv \in Seq(Characters), lv \in Seq(Characters) : tv = t \o v /\ lv = last \o v
    BY <2>1, ConcatProperties
  <2>3. t \o Append(v, c) = Append(tv, c) /\ last \o Append(v, c) = Append(lv, c)
    <3>1. t \o Append(v, c) = Append(t \o v, c)
      BY <2>1, ConcatMore
    <3>2. last \o Append(v, c) = Append(last \o v, c)
      BY <2>1, ConcatMore
    <3> QED
      BY <2>2, <3>1, <3>2
  <2>4. split(Append(tv, c)) = Extended(split(tv), c)
    BY SplitMore
  <2>5. split(Append(lv, c)) = Extended(split(lv), c)
    BY SplitMore
  <2>6. PICK parts \in Seq(Seq(Characters)) : parts = split(lv) /\ parts # <<>>
    BY SplitMore
  <2>7. Extended(front \o parts, c) = front \o Extended(parts, c)
    BY <2>6, ExtendedLater
  <2>8. split(t \o Append(v, c)) = front \o split(last \o Append(v, c))
    BY <2>1, <2>2, <2>3, <2>4, <2>5, <2>6, <2>7
  <2> QED
    BY <2>1, <2>8, AppendProperties
<1>4. T = Seq(Characters)
  <2> HIDE DEF T
  <2>1. T \in SUBSET Seq(Characters)
    BY DEF T
  <2> QED
    BY <1>2, <1>3, <2>1, GrowInduction
<1> QED
  BY <1>1, <1>4

-----------------------------------------------------------------------------
(***************************************************************************)
(* What the decoder has let through: the text but for a CR at its end.     *)
(***************************************************************************)
Kept(t) == IF EndsWith(t, "CR") THEN Front(t) ELSE t

\* The part of a piece that the decoder lets through, with what it held back.
Heard(t, piece) ==
  LET input == (IF EndsWith(t, "CR") THEN <<"CR">> ELSE <<>>) \o piece
  IN  IF EndsWith(t \o piece, "CR") THEN Front(input) ELSE input

\* A piece more, and what is held back of it.
LEMMA KeptMore ==
  ASSUME NEW t \in Seq(Characters), NEW piece \in Seq(Characters), piece # <<>>
  PROVE  /\ decode(EndsWith(t, "CR"), piece, FALSE).text = translate(Heard(t, piece))
         /\ decode(EndsWith(t, "CR"), piece, FALSE).held = EndsWith(t \o piece, "CR")
         /\ Kept(t) \in Seq(Characters) /\ Heard(t, piece) \in Seq(Characters)
         /\ Kept(t \o piece) = Kept(t) \o Heard(t, piece)
         /\ Uncut(Kept(t), Heard(t, piece))
<1>1. PICK cr \in Characters : cr = "CR"
  BY DEF Characters
<1>2. PICK held \in Seq(Characters) : held = IF EndsWith(t, "CR") THEN <<"CR">> ELSE <<>>
  <2>1. <<>> \in Seq(Characters) /\ <<cr>> \in Seq(Characters)
    BY EmptySeq
  <2> QED
    BY <1>1, <2>1
<1>3. PICK kept \in Seq(Characters) : kept = Kept(t) /\ t = kept \o held
  <2>1. CASE EndsWith(t, "CR")
    <3>1. t # <<>> /\ Last(t) = cr
      BY <1>1, <2>1 DEF EndsWith
    <3>2. PICK front \in Seq(Characters) : front = Front(t) /\ t = Append(front, cr)
      BY <3>1, FrontLast
    <3>3. t = front \o <<cr>>
      BY <3>2, AppendedLast
    <3> QED
      BY <1>1, <1>2, <2>1, <3>2, <3>3 DEF Kept
  <2>2. CASE ~EndsWith(t, "CR")
    <3>1. t \o <<>> = t
      BY ConcatEmptySeq
    <3> QED
      BY <1>2, <2>2, <3>1 DEF Kept
  <2> QED
    BY <2>1, <2>2
<1>4. PICK input \in Seq(Characters) : input = held \o piece
  BY ConcatProperties
<1>5. PICK front \in Seq(Characters), last \in Characters :
        front = Front(piece) /\ last = Last(piece) /\ piece = Append(front, last)
  BY FrontLast
<1>6. PICK before \in Seq(Characters) : before = held \o front
  BY ConcatProperties
<1>7. input = Append(before, last)
  <2>1. held \o Append(front, last) = Append(held \o front, last)
    BY ConcatMore
  <2> QED
    BY <1>4, <1>5, <1>6, <2>1
<1>8. input # <<>> /\ Front(input) = before /\ Last(input) = last
  BY <1>7, AppendedLast
<1>9. t \o piece = kept \o input
  <2>1. (kept \o held) \o piece = kept \o (held \o piece)
    <3>1. kept \o held \in Seq(Characters) /\ held \o piece \in Seq(Characters)
      BY ConcatProperties
    <3> QED
      BY <3>1, SMT
  <2> QED
    BY <1>3, <1>4, <2>1
<1>10. PICK keptBefore \in Seq(Characters) : keptBefore = kept \o before
  BY ConcatProperties
<1>11. t \o piece = Append(keptBefore, last)
  <2>1. kept \o Append(before, last) = Append(kept \o before, last)
    BY ConcatMore
  <2> QED
    BY <1>7, <1>9, <1>10, <2>1
<1>12. t \o piece # <<>> /\ Last(t \o piece) = last /\ Front(t \o piece) = keptBefore
  <2>1. /\ Append(keptBefore, last) # <<>> /\ Last(Append(keptBefore, last)) = last
        /\ Front(Append(keptBefore, last)) = keptBefore
    BY AppendedLast
  <2> QED
    BY <1>11, <2>1
<1>13. EndsWith(t \o piece, "CR") <=> last = "CR"
  BY <1>12 DEF EndsWith
<1>14. Heard(t, piece) = IF last = "CR" THEN before ELSE input
  BY <1>2, <1>4, <1>8, <1>13 DEF Heard
<1>15. /\ decode(EndsWith(t, "CR"), piece, FALSE).text = translate(Heard(t, piece))
       /\ decode(EndsWith(t, "CR"), piece, FALSE).held = EndsWith(t \o piece, "CR")
  <2>1. (IF EndsWith(t, "CR") /\ (FALSE \/ piece # <<>>) THEN <<"CR">> ELSE <<>>) \o piece = input
    BY <1>2, <1>4
  <2>2. /\ decode(EndsWith(t, "CR"), piece, FALSE).text
             = translate(IF last = "CR" THEN before ELSE input)
        /\ decode(EndsWith(t, "CR"), piece, FALSE).held = (last = "CR")
    BY <1>8, <2>1 DEF decode
  <2>3. (last = "CR") = EndsWith(t \o piece, "CR")
    BY <1>13 DEF EndsWith
  <2> QED
    BY <1>14, <2>2, <2>3
<1>16. Kept(t \o piece) = kept \o Heard(t, piece)
  BY <1>9, <1>10, <1>12, <1>13, <1>14 DEF Kept
<1>17. Uncut(kept, Heard(t, piece))
  <2> SUFFICES ASSUME EndsWith(kept, "CR")
               PROVE  Heard(t, piece) = <<>> \/ Heard(t, piece)[1] # "LF"
    BY DEF Uncut
  <2>1. EndsWith(t, "CR") /\ held = <<cr>>
    BY <1>1, <1>2, <1>3 DEF Kept
  <2>2. Len(held) = 1 /\ held[1] = cr
    BY <2>1
  <2>3. ASSUME NEW b \in Seq(Characters) PROVE (held \o b)[1] = cr
    <3>1. 1 \in 1 .. Len(held) + Len(b)
      BY <2>2
    <3>2. (held \o b)[1] = IF 1 <= Len(held) THEN held[1] ELSE b[1 - Len(held)]
      BY <3>1, ConcatProperties
    <3> QED
      BY <2>2, <3>2
  <2>4. input[1] = cr /\ before[1] = cr
    BY <1>4, <1>6, <2>3
  <2> QED
    BY <1>1, <1>14, <2>4
<1> QED
  BY <1>3, <1>14, <1>15, <1>16, <1>17

\* The end of the text, and what was held back until then.
LEMMA KeptEnd ==
  ASSUME NEW t \in Seq(Characters)
  PROVE  \E rest \in Seq(Characters) :
           /\ decode(EndsWith(t, "CR"), <<>>, TRUE).text = translate(rest)
           /\ Kept(t) \in Seq(Characters) /\ t = Kept(t) \o rest
           /\ Uncut(Kept(t), rest)
<1>1. PICK cr \in Characters : cr = "CR"
  BY DEF Characters
<1>2. PICK held \in Seq(Characters) : held = IF EndsWith(t, "CR") THEN <<"CR">> ELSE <<>>
  <2>1. <<>> \in Seq(Characters) /\ <<cr>> \in Seq(Characters)
    BY EmptySeq
  <2> QED
    BY <1>1, <2>1
<1>3. Kept(t) \in Seq(Characters) /\ t = Kept(t) \o held
  <2>1. CASE EndsWith(t, "CR")
    <3>1. t # <<>> /\ Last(t) = cr
      BY <1>1, <2>1 DEF EndsWith
    <3>2. PICK front \in Seq(Characters) : front = Front(t) /\ t = Append(front, cr)
      BY <3>1, FrontLast
    <3>3. t = front \o <<cr>>
      BY <3>2, AppendedLast
    <3> QED
      BY <1>1, <1>2, <2>1, <3>2, <3>3 DEF Kept
  <2>2. CASE ~EndsWith(t, "CR")
    <3>1. t \o <<>> = t
      BY ConcatEmptySeq
    <3> QED
      BY <1>2, <2>2, <3>1 DEF Kept
  <2> QED
    BY <2>1, <2>2
<1>4. decode(EndsWith(t, "CR"), <<>>, TRUE).text = translate(held)
  <2>1. (IF EndsWith(t, "CR") /\ (TRUE \/ <<>> # <<>>) THEN <<"CR">> ELSE <<>>) \o <<>> = held
    <3>1. held \o <<>> = held
      BY ConcatEmptySeq
    <3> QED
      BY <1>2, <3>1
  <2> QED
    BY <2>1 DEF decode
<1>5. held = <<>> \/ held[1] # "LF"
  BY <1>2
<1> QED
  BY <1>3, <1>4, <1>5 DEF Uncut

\* A sequence that goes on is a strict prefix.
LEMMA StrictlyBefore ==
  ASSUME NEW X, NEW s \in Seq(X), NEW r \in Seq(X), r # <<>>
  PROVE  IsStrictPrefix(s, s \o r)
<1>1. PICK t \in Seq(X) : t = s \o r
  BY ConcatProperties
<1>2. PICK m \in Nat, n \in Nat \ {0} : m = Len(s) /\ n = Len(r)
  BY EmptySeq
<1>3. Len(t) = m + n /\ \A i \in 1 .. m + n : t[i] = IF i <= m THEN s[i] ELSE r[i - m]
  BY <1>1, <1>2, ConcatProperties
<1>4. \A i \in 1 .. m : t[i] = s[i] /\ s[i] \in X
  BY <1>2, <1>3
<1>5. SubSeq(t, 1, m) = s
  <2>1. m \in Int /\ 1 \in Int /\ \A i \in 1 .. m : t[i] \in X
    BY <1>4
  <2>2. PICK v : v = SubSeq(t, 1, m)
    OBVIOUS
  <2>3. /\ v \in Seq(X) /\ Len(v) = IF 1 <= m THEN m - 1 + 1 ELSE 0
        /\ \A i \in 1 .. m - 1 + 1 : v[i] = t[1 + i - 1]
    BY <2>1, <2>2, SubSeqProperties
  <2>4. Len(v) = m /\ \A i \in 1 .. m : v[i] = s[i]
    BY <1>2, <1>4, <2>3
  <2>5. v = s
    BY <1>2, <2>3, <2>4, SeqEqual
  <2> QED
    BY <2>2, <2>5
<1>6. SubSeq(s, 1, m) = s
  BY <1>2, SubSeqFull
<1>7. m <= m + n /\ m # m + n
  BY <1>2
<1>8. s # t
  BY <1>2, <1>3, <1>7
<1> QED
  BY <1>1, <1>2, <1>3, <1>5, <1>6, <1>7, <1>8 DEF IsStrictPrefix, IsPrefix

(***************************************************************************)
(* While the answer is read, the events given and the beginning of the     *)
(* next one are the parts of the text that the decoder let through.        *)
(***************************************************************************)
EventsInv ==
  reader = "events" =>
    /\ text \in Seq(Characters)
    /\ stage \in {"reading", "ended"}
    /\ stage = "ended" => events = split(translate(text))
    /\ stage = "reading" =>
         /\ events \in Seq(Seq(Characters)) /\ pending \in Seq(Characters)
         /\ decoder = EndsWith(text, "CR")
         /\ split(translate(Kept(text))) = Append(events, pending)

\* What a character sequence of the decoder adds to the events.
LEMMA EventsMore ==
  ASSUME NEW kept \in Seq(Characters), NEW heard \in Seq(Characters),
         NEW es \in Seq(Seq(Characters)), NEW p \in Seq(Characters),
         split(translate(kept)) = Append(es, p),
         Uncut(kept, heard)
  PROVE  /\ split(translate(kept \o heard)) = es \o split(p \o translate(heard))
         /\ split(p \o translate(heard)) \in Seq(Seq(Characters))
         /\ split(p \o translate(heard)) # <<>>
<1>1. PICK a \in Seq(Characters), b \in Seq(Characters) :
        a = translate(kept) /\ b = translate(heard) /\ translate(kept \o heard) = a \o b
  BY TranslateConcat
<1>2. split(a \o b) = Front(split(a)) \o split(Last(split(a)) \o b)
  BY SplitConcat
<1>3. Front(split(a)) = es /\ Last(split(a)) = p
  <2>1. PICK Y : Y = Seq(Characters)
    OBVIOUS
  <2>2. es \in Seq(Y) /\ p \in Y
    BY <2>1
  <2>3. Front(Append(es, p)) = es /\ Last(Append(es, p)) = p
    BY <2>2, AppendedLast
  <2> QED
    BY <1>1, <2>3
<1>4. p \o b \in Seq(Characters)
  BY ConcatProperties
<1>5. split(p \o b) \in Seq(Seq(Characters)) /\ split(p \o b) # <<>>
  BY <1>4, SplitMore
<1> QED
  BY <1>1, <1>2, <1>3, <1>5

LEMMA EventsInvInit == Init => EventsInv
<1> SUFFICES ASSUME Init, reader = "events" PROVE EventsInv
  BY DEF EventsInv
<1>1. text = <<>> /\ stage = "reading" /\ events = <<>> /\ pending = <<>> /\ decoder = FALSE
  BY DEF Init
<1>2. <<>> \in Seq(Characters) /\ <<>> \in Seq(Seq(Characters))
  BY EmptySeq
<1>3. EndsWith(<<>>, "CR") = FALSE
  BY DEF EndsWith
<1>4. Kept(<<>>) = <<>>
  BY <1>3 DEF Kept
<1>5. translate(<<>>) = <<>>
  <2>1. "LF" \in Characters
    BY DEF Characters
  <2> QED
    BY <1>2, <2>1, TranslateMore
<1>6. split(<<>>) = << <<>> >>
  BY <1>2, SplitMore
<1>7. Append(<<>>, <<>>) = << <<>> >>
  OBVIOUS
<1> QED
  BY <1>1, <1>2, <1>3, <1>4, <1>5, <1>6, <1>7 DEF EventsInv

\* A piece is a text.
LEMMA PieceType ==
  ASSUME reader \in Readers, NEW piece \in Pieces
  PROVE  piece \in Seq(Characters)
<1>1. Alphabets[reader] \in SUBSET Characters
  BY AlphabetsAssumption
<1>2. PICK n \in Nat : piece \in [1 .. n -> Alphabets[reader]]
  BY BoundsAssumption DEF Pieces, BoundedSeq, SeqOf
<1>3. piece \in [1 .. n -> Characters]
  BY <1>1, <1>2
<1> QED
  BY <1>3

LEMMA EventsInvNext == EventsInv /\ [Next]_vars => EventsInv'
<1> SUFFICES ASSUME EventsInv, [Next]_vars PROVE EventsInv'
  OBVIOUS
<1>1. CASE ReadBytes
  <2>1. PICK piece \in Pieces :
          LET decoded == decode(decoder, piece, FALSE)
              parts == split(pending \o decoded.text)
          IN  /\ piece # <<>>
              /\ text' = text \o piece
              /\ decoder' = decoded.held
              /\ events' = events \o Front(parts)
              /\ pending' = Last(parts)
    BY <1>1 DEF ReadBytes
  <2>2. reader = "events" /\ stage = "reading" /\ reader' = reader /\ stage' = stage
    BY <1>1 DEF ReadBytes
  <2>3. piece \in Seq(Characters)
    BY <2>1, <2>2, PieceType DEF Readers
  <2>4. /\ text \in Seq(Characters) /\ events \in Seq(Seq(Characters)) /\ pending \in Seq(Characters)
        /\ decoder = EndsWith(text, "CR")
        /\ split(translate(Kept(text))) = Append(events, pending)
    BY <2>2 DEF EventsInv
  <2>5. PICK heard \in Seq(Characters) : heard = Heard(text, piece)
    BY <2>1, <2>3, <2>4, KeptMore
  <2>6. PICK kept \in Seq(Characters) : kept = Kept(text)
    BY <2>1, <2>3, <2>4, KeptMore
  <2>7. /\ decode(decoder, piece, FALSE).text = translate(heard)
        /\ decode(decoder, piece, FALSE).held = EndsWith(text \o piece, "CR")
        /\ Kept(text \o piece) = kept \o heard
        /\ Uncut(kept, heard)
    BY <2>1, <2>3, <2>4, <2>5, <2>6, KeptMore
  <2>8. PICK parts : parts = split(pending \o translate(heard))
    OBVIOUS
  <2>9. /\ split(translate(kept \o heard)) = events \o parts
        /\ parts \in Seq(Seq(Characters)) /\ parts # <<>>
    <3>1. PICK es \in Seq(Seq(Characters)), p \in Seq(Characters) : es = events /\ p = pending
      BY <2>4
    <3>2. /\ split(translate(kept)) = Append(es, p)
          /\ Uncut(kept, heard)
      BY <2>4, <2>6, <2>7, <2>8, <3>1
    <3>3. /\ split(translate(kept \o heard)) = es \o split(p \o translate(heard))
          /\ split(p \o translate(heard)) \in Seq(Seq(Characters))
          /\ split(p \o translate(heard)) # <<>>
      BY <3>2, EventsMore
    <3> QED
      BY <2>8, <3>1, <3>3
  <2>10. /\ text' = text \o piece /\ decoder' = EndsWith(text \o piece, "CR")
         /\ events' = events \o Front(parts) /\ pending' = Last(parts)
    <3>1. PICK decoded : decoded = decode(decoder, piece, FALSE)
      OBVIOUS
    <3>2. decoded.text = translate(heard) /\ decoded.held = EndsWith(text \o piece, "CR")
      BY <2>7, <3>1
    <3>3. /\ text' = text \o piece /\ decoder' = decoded.held
          /\ events' = events \o Front(split(pending \o decoded.text))
          /\ pending' = Last(split(pending \o decoded.text))
      BY <2>1, <3>1
    <3> QED
      BY <2>8, <3>2, <3>3
  <2>11. text \o piece \in Seq(Characters)
    BY <2>3, <2>4, ConcatProperties
  <2>12. PICK Y : Y = Seq(Characters)
    OBVIOUS
  <2>13. PICK front \in Seq(Y), last \in Y :
           front = Front(parts) /\ last = Last(parts) /\ parts = Append(front, last)
    BY <2>9, <2>12, FrontLast
  <2>14. PICK es \in Seq(Y) : es = events
    BY <2>4, <2>12
  <2>15. es \o front \in Seq(Y) /\ es \o Append(front, last) = Append(es \o front, last)
    BY ConcatMore
  <2>16. events' \in Seq(Seq(Characters)) /\ pending' \in Seq(Characters)
    BY <2>10, <2>12, <2>13, <2>14, <2>15
  <2>17. split(translate(Kept(text'))) = Append(events', pending')
    BY <2>7, <2>9, <2>10, <2>13, <2>14, <2>15
  <2> QED
    BY <2>2, <2>10, <2>11, <2>16, <2>17 DEF EventsInv
<1>2. CASE BytesEnd
  <2>1. /\ reader = "events" /\ stage = "reading" /\ reader' = reader /\ stage' = "ended"
        /\ text' = text
        /\ events' = events \o split(pending \o decode(decoder, <<>>, TRUE).text)
    BY <1>2 DEF BytesEnd
  <2>2. /\ text \in Seq(Characters) /\ events \in Seq(Seq(Characters)) /\ pending \in Seq(Characters)
        /\ decoder = EndsWith(text, "CR")
        /\ split(translate(Kept(text))) = Append(events, pending)
    BY <2>1 DEF EventsInv
  <2>3. PICK rest \in Seq(Characters) :
           /\ decode(decoder, <<>>, TRUE).text = translate(rest)
           /\ Kept(text) \in Seq(Characters) /\ text = Kept(text) \o rest
           /\ Uncut(Kept(text), rest)
    BY <2>2, KeptEnd
  <2>4. split(translate(Kept(text) \o rest)) = events \o split(pending \o translate(rest))
    <3>1. PICK es \in Seq(Seq(Characters)), p \in Seq(Characters) : es = events /\ p = pending
      BY <2>2
    <3>2. PICK kept \in Seq(Characters) : kept = Kept(text)
      BY <2>3
    <3>3. /\ split(translate(kept)) = Append(es, p)
          /\ Uncut(kept, rest)
      BY <2>2, <2>3, <3>1, <3>2
    <3>4. split(translate(kept \o rest)) = es \o split(p \o translate(rest))
      BY <3>3, EventsMore
    <3> QED
      BY <3>1, <3>2, <3>4
  <2>5. events' = split(translate(text'))
    BY <2>1, <2>3, <2>4
  <2> QED
    BY <2>1, <2>2, <2>5 DEF EventsInv
<1>3. CASE TakeFirst \/ TakeFirstFails \/ GiveFirst \/ GiveNext \/ FenceEnd
  <2>1. reader = "fence" /\ reader' = reader
    BY <1>3 DEF TakeFirst, TakeFirstFails, GiveFirst, GiveNext, FenceEnd
  <2> QED
    BY <2>1 DEF EventsInv
<1>4. CASE UNCHANGED vars
  BY <1>4 DEF EventsInv, vars, eventVars
<1> QED
  BY <1>1, <1>2, <1>3, <1>4 DEF Next

\* Which events the text that was read has, the rest of it not yet heard.
LEMMA EventsInvTells == EventsInv => EventsOfTheWholeText
<1> SUFFICES ASSUME EventsInv, reader = "events" PROVE EventsOfTheWholeText
  BY DEF EventsOfTheWholeText
<1>1. CASE stage = "ended"
  BY <1>1 DEF EventsInv, EventsOfTheWholeText
<1>2. CASE stage = "reading"
  <2>1. /\ text \in Seq(Characters) /\ events \in Seq(Seq(Characters)) /\ pending \in Seq(Characters)
        /\ split(translate(Kept(text))) = Append(events, pending)
    BY <1>2 DEF EventsInv
  <2>2. PICK rest \in Seq(Characters) :
           /\ Kept(text) \in Seq(Characters) /\ text = Kept(text) \o rest
           /\ Uncut(Kept(text), rest)
    BY <2>1, KeptEnd
  <2>3. PICK parts : parts = split(pending \o translate(rest))
    OBVIOUS
  <2>4. /\ split(translate(Kept(text) \o rest)) = events \o parts
        /\ parts \in Seq(Seq(Characters)) /\ parts # <<>>
    <3>1. PICK es \in Seq(Seq(Characters)), p \in Seq(Characters) : es = events /\ p = pending
      BY <2>1
    <3>2. PICK kept \in Seq(Characters) : kept = Kept(text)
      BY <2>2
    <3>3. /\ split(translate(kept)) = Append(es, p)
          /\ Uncut(kept, rest)
      BY <2>1, <2>2, <2>3, <3>1, <3>2
    <3>4. /\ split(translate(kept \o rest)) = es \o split(p \o translate(rest))
          /\ split(p \o translate(rest)) \in Seq(Seq(Characters))
          /\ split(p \o translate(rest)) # <<>>
      BY <3>3, EventsMore
    <3> QED
      BY <2>3, <3>1, <3>2, <3>4
  <2>5. IsStrictPrefix(events, events \o parts)
    BY <2>1, <2>4, StrictlyBefore
  <2> QED
    BY <1>2, <2>2, <2>4, <2>5 DEF EventsOfTheWholeText
<1> QED
  BY <1>1, <1>2 DEF EventsInv

(***************************************************************************)
(* However the bytes of an answer are cut, _iter_stream_events yields the  *)
(* events of the whole text.                                               *)
(***************************************************************************)
THEOREM EventsAreWhole == Spec => []EventsOfTheWholeText
<1>1. Init => EventsInv
  BY EventsInvInit
<1>2. EventsInv /\ [Next]_vars => EventsInv'
  BY EventsInvNext
<1>3. EventsInv => EventsOfTheWholeText
  BY EventsInvTells
<1> QED
  BY <1>1, <1>2, <1>3, PTL DEF Spec

-----------------------------------------------------------------------------
(***************************************************************************)
(* The fence: a chunk is folded over, one character after the other. The   *)
(* fold is hidden in an operator of its own, for the provers take no       *)
(* operator as an argument.                                                *)
(***************************************************************************)
processors == {"outside", "with_backtick"}

States(proc) ==
  IF proc = "outside" THEN {"normal", "in_backticks", "skip_content"}
  ELSE {"search_start", "skip_language", "in_code_block", "done"}

FenceOf(proc) == [state : States(proc), count : Nat, out : Seq(Characters)]

step(proc, f, char) == IF proc = "outside" THEN stepOutside(f, char) ELSE stepWithBacktick(f, char)

fold(proc, f, piece) ==
  FoldLeft(LAMBDA g, char : IF proc = "outside" THEN stepOutside(g, char)
                            ELSE stepWithBacktick(g, char), f, piece)

\* A number of backticks is a text.
LEMMA BackticksType ==
  ASSUME NEW n \in Nat
  PROVE  /\ Backticks(n) \in Seq(Characters) /\ Len(Backticks(n)) = n
         /\ \A i \in 1 .. n : Backticks(n)[i] = "tick"
<1>1. "tick" \in Characters
  BY DEF Characters
<1>2. Backticks(n) \in [1 .. n -> Characters]
  BY <1>1 DEF Backticks
<1> QED
  BY <1>2 DEF Backticks

\* A state of a processor.
at(state, count, out) == [state |-> state, count |-> count, out |-> out]

LEMMA AtIs ==
  ASSUME NEW proc, NEW f \in FenceOf(proc)
  PROVE  /\ f = at(f.state, f.count, f.out)
         /\ f.state \in States(proc) /\ f.count \in Nat /\ f.out \in Seq(Characters)
BY DEF at, FenceOf

LEMMA AtType ==
  ASSUME NEW proc, NEW state \in States(proc), NEW count \in Nat, NEW out \in Seq(Characters)
  PROVE  at(state, count, out) \in FenceOf(proc)
BY DEF at, FenceOf

\* The steps of the processor of a text that does not begin with a fence.
LEMMA OutsideSteps ==
  ASSUME NEW k \in Nat, NEW o \in Seq(Characters), NEW c \in Characters
  PROVE  /\ step("outside", at("normal", k, o), c) =
              IF c = "tick" THEN at("in_backticks", 1, o) ELSE at("normal", k, Append(o, c))
         /\ step("outside", at("in_backticks", k, o), c) =
              IF c # "tick" THEN at("normal", 0, Append(o \o Backticks(k), c))
              ELSE IF k + 1 = CODE_FENCE_BACKTICK_COUNT THEN at("skip_content", 0, o)
              ELSE at("in_backticks", k + 1, o)
         /\ step("outside", at("skip_content", k, o), c) =
              IF isspace(c) THEN at("normal", k, o) ELSE at("skip_content", k, o)
<1>1. \A f : step("outside", f, c) = stepOutside(f, c)
  BY DEF step
<1>2. c = "tick" => stepOutside(at("normal", k, o), c) = at("in_backticks", 1, o)
  BY DEF stepOutside, at
<1>3. c # "tick" => stepOutside(at("normal", k, o), c) = at("normal", k, Append(o, c))
  BY DEF stepOutside, at
<1>4. c # "tick" => stepOutside(at("in_backticks", k, o), c)
                      = at("normal", 0, Append(o \o Backticks(k), c))
  BY DEF stepOutside, at
<1>5. c = "tick" /\ k + 1 = CODE_FENCE_BACKTICK_COUNT
        => stepOutside(at("in_backticks", k, o), c) = at("skip_content", 0, o)
  BY DEF stepOutside, at
<1>6. c = "tick" /\ k + 1 # CODE_FENCE_BACKTICK_COUNT
        => stepOutside(at("in_backticks", k, o), c) = at("in_backticks", k + 1, o)
  BY DEF stepOutside, at
<1>7. isspace(c) => stepOutside(at("skip_content", k, o), c) = at("normal", k, o)
  BY DEF stepOutside, at
<1>8. ~isspace(c) => stepOutside(at("skip_content", k, o), c) = at("skip_content", k, o)
  BY DEF stepOutside, at
<1> QED
  BY <1>1, <1>2, <1>3, <1>4, <1>5, <1>6, <1>7, <1>8

\* The steps of the processor of a text that begins with a fence.
LEMMA WithBacktickSteps ==
  ASSUME NEW k \in Nat, NEW o \in Seq(Characters), NEW c \in Characters
  PROVE  /\ step("with_backtick", at("search_start", k, o), c) =
              IF c # "tick" THEN at("search_start", 0, o)
              ELSE IF k + 1 = CODE_FENCE_BACKTICK_COUNT THEN at("skip_language", 0, o)
              ELSE at("search_start", k + 1, o)
         /\ step("with_backtick", at("skip_language", k, o), c) =
              IF c = "LF" THEN at("in_code_block", k, o) ELSE at("skip_language", k, o)
         /\ step("with_backtick", at("in_code_block", k, o), c) =
              IF c # "tick" THEN at("in_code_block", 0, Append(o \o Backticks(k), c))
              ELSE IF k + 1 = CODE_FENCE_BACKTICK_COUNT THEN at("done", k + 1, o)
              ELSE at("in_code_block", k + 1, o)
         /\ step("with_backtick", at("done", k, o), c) = at("done", k, o)
<1>1. \A f : step("with_backtick", f, c) = stepWithBacktick(f, c)
  BY DEF step
<1>2. c # "tick" => stepWithBacktick(at("search_start", k, o), c) = at("search_start", 0, o)
  BY DEF stepWithBacktick, at
<1>3. c = "tick" /\ k + 1 = CODE_FENCE_BACKTICK_COUNT
        => stepWithBacktick(at("search_start", k, o), c) = at("skip_language", 0, o)
  BY DEF stepWithBacktick, at
<1>4. c = "tick" /\ k + 1 # CODE_FENCE_BACKTICK_COUNT
        => stepWithBacktick(at("search_start", k, o), c) = at("search_start", k + 1, o)
  BY DEF stepWithBacktick, at
<1>5. c = "LF" => stepWithBacktick(at("skip_language", k, o), c) = at("in_code_block", k, o)
  BY DEF stepWithBacktick, at
<1>6. c # "LF" => stepWithBacktick(at("skip_language", k, o), c) = at("skip_language", k, o)
  BY DEF stepWithBacktick, at
<1>7. c # "tick" => stepWithBacktick(at("in_code_block", k, o), c)
                      = at("in_code_block", 0, Append(o \o Backticks(k), c))
  BY DEF stepWithBacktick, at
<1>8. c = "tick" /\ k + 1 = CODE_FENCE_BACKTICK_COUNT
        => stepWithBacktick(at("in_code_block", k, o), c) = at("done", k + 1, o)
  BY DEF stepWithBacktick, at
<1>9. c = "tick" /\ k + 1 # CODE_FENCE_BACKTICK_COUNT
        => stepWithBacktick(at("in_code_block", k, o), c) = at("in_code_block", k + 1, o)
  BY DEF stepWithBacktick, at
<1>10. stepWithBacktick(at("done", k, o), c) = at("done", k, o)
  BY DEF stepWithBacktick, at
<1> QED
  BY <1>1, <1>2, <1>3, <1>4, <1>5, <1>6, <1>7, <1>8, <1>9, <1>10

\* The state of a processor, after one character more, is a state of it.
LEMMA StepType ==
  ASSUME NEW proc \in processors, NEW f \in FenceOf(proc), NEW c \in Characters
  PROVE  step(proc, f, c) \in FenceOf(proc)
<1>1. PICK state \in States(proc), k \in Nat, o \in Seq(Characters) : f = at(state, k, o)
  BY AtIs
<1>2. PICK ticked \in Seq(Characters) : ticked = Append(o \o Backticks(k), c)
  <2>1. o \o Backticks(k) \in Seq(Characters)
    BY BackticksType, ConcatProperties
  <2> QED
    BY <2>1, AppendProperties
<1>3. Append(o, c) \in Seq(Characters) /\ k + 1 \in Nat /\ 0 \in Nat /\ 1 \in Nat
  BY AppendProperties
<1>4. CASE proc = "outside"
  <2>1. States(proc) = {"normal", "in_backticks", "skip_content"}
    BY <1>4 DEF States
  <2>2. CASE state = "normal"
    <3>1. step(proc, f, c)
            = IF c = "tick" THEN at("in_backticks", 1, o) ELSE at("normal", k, Append(o, c))
      BY <1>1, <1>4, <2>2, OutsideSteps
    <3>2. at("in_backticks", 1, o) \in FenceOf(proc) /\ at("normal", k, Append(o, c)) \in FenceOf(proc)
      BY <1>3, <2>1, AtType
    <3> QED
      BY <3>1, <3>2
  <2>3. CASE state = "in_backticks"
    <3>1. step(proc, f, c) = IF c # "tick" THEN at("normal", 0, ticked)
                             ELSE IF k + 1 = CODE_FENCE_BACKTICK_COUNT THEN at("skip_content", 0, o)
                             ELSE at("in_backticks", k + 1, o)
      BY <1>1, <1>2, <1>4, <2>3, OutsideSteps
    <3>2. /\ at("normal", 0, ticked) \in FenceOf(proc) /\ at("skip_content", 0, o) \in FenceOf(proc)
          /\ at("in_backticks", k + 1, o) \in FenceOf(proc)
      BY <1>3, <2>1, AtType
    <3> QED
      BY <3>1, <3>2
  <2>4. CASE state = "skip_content"
    BY <1>1, <1>4, <2>1, <2>4, OutsideSteps, AtType
  <2> QED
    BY <2>1, <2>2, <2>3, <2>4
<1>5. CASE proc = "with_backtick"
  <2>1. States(proc) = {"search_start", "skip_language", "in_code_block", "done"}
    BY <1>5 DEF States
  <2>2. CASE state = "search_start"
    BY <1>1, <1>3, <1>5, <2>1, <2>2, WithBacktickSteps, AtType
  <2>3. CASE state = "skip_language"
    BY <1>1, <1>5, <2>1, <2>3, WithBacktickSteps, AtType
  <2>4. CASE state = "in_code_block"
    <3>1. step(proc, f, c) = IF c # "tick" THEN at("in_code_block", 0, ticked)
                             ELSE IF k + 1 = CODE_FENCE_BACKTICK_COUNT THEN at("done", k + 1, o)
                             ELSE at("in_code_block", k + 1, o)
      BY <1>1, <1>2, <1>5, <2>4, WithBacktickSteps
    <3>2. /\ at("in_code_block", 0, ticked) \in FenceOf(proc) /\ at("done", k + 1, o) \in FenceOf(proc)
          /\ at("in_code_block", k + 1, o) \in FenceOf(proc)
      BY <1>3, <2>1, AtType
    <3> QED
      BY <3>1, <3>2
  <2>5. CASE state = "done"
    BY <1>1, <1>5, <2>1, <2>5, WithBacktickSteps, AtType
  <2> QED
    BY <2>1, <2>2, <2>3, <2>4, <2>5
<1> QED
  BY <1>4, <1>5 DEF processors

\* The greatest of the numbers up to m.
LEMMA MaxOfFirst ==
  ASSUME NEW m \in Nat \ {0}, NEW s \in SUBSET (1 .. m), m \in s
  PROVE  Max(s) = m
<1>1. m \in s /\ \A y \in s : m >= y
  OBVIOUS
<1>2. \A x \in s : (\A y \in s : x >= y) => x = m
  OBVIOUS
<1> QED
  BY <1>1, <1>2 DEF Max

\* The fold as the library defines it: a function of the positions folded over.
Folded(proc, f, piece, h, s) ==
  IF s = {} THEN f ELSE step(proc, h[s \ {Max(s)}], piece[Max(s)])

FoldedBy(proc, f, piece, n, h) == h = [s \in SUBSET (1 .. n) |-> Folded(proc, f, piece, h, s)]

\* There is such a function.
LEMMA FoldedExists ==
  ASSUME NEW proc, NEW f, NEW piece, NEW n \in Nat
  PROVE  \E h : FoldedBy(proc, f, piece, n, h)
<1> DEFINE T == {m \in Nat : \E h : FoldedBy(proc, f, piece, m, h)}
<1>1. 0 \in T
  <2>1. PICK h : h = [s \in SUBSET (1 .. 0) |-> f]
    OBVIOUS
  <2>2. \A s \in SUBSET (1 .. 0) : s = {}
    OBVIOUS
  <2>3. h = [s \in SUBSET (1 .. 0) |-> Folded(proc, f, piece, h, s)]
    BY <2>1, <2>2 DEF Folded
  <2> QED
    BY <2>3 DEF FoldedBy
<1>2. ASSUME NEW m \in T PROVE m + 1 \in T
  <2>1. PICK h : h = [s \in SUBSET (1 .. m) |-> Folded(proc, f, piece, h, s)]
    BY DEF FoldedBy
  <2>2. PICK g : g = [s \in SUBSET (1 .. m + 1) |->
                        IF m + 1 \in s THEN step(proc, h[s \ {m + 1}], piece[m + 1]) ELSE h[s]]
    OBVIOUS
  <2>3. ASSUME NEW s \in SUBSET (1 .. m + 1) PROVE g[s] = Folded(proc, f, piece, g, s)
    <3>1. CASE m + 1 \in s
      <4>1. Max(s) = m + 1 /\ s # {}
        BY <3>1, MaxOfFirst
      <4>2. s \ {m + 1} \in SUBSET (1 .. m + 1) /\ m + 1 \notin s \ {m + 1}
        OBVIOUS
      <4>3. g[s \ {m + 1}] = h[s \ {m + 1}]
        BY <2>2, <4>2
      <4>4. g[s] = step(proc, h[s \ {m + 1}], piece[m + 1])
        BY <2>2, <3>1
      <4> QED
        BY <4>1, <4>3, <4>4 DEF Folded
    <3>2. CASE m + 1 \notin s
      <4>1. s \in SUBSET (1 .. m) /\ g[s] = h[s]
        BY <2>2, <3>2
      <4>2. h[s] = Folded(proc, f, piece, h, s)
        BY <2>1, <4>1
      <4>3. s \ {Max(s)} \in SUBSET (1 .. m + 1) /\ m + 1 \notin s \ {Max(s)}
        <5>1. PICK x : x = Max(s)
          OBVIOUS
        <5>2. s \ {x} \in SUBSET (1 .. m + 1) /\ m + 1 \notin s \ {x}
          BY <3>2
        <5> QED
          BY <5>1, <5>2
      <4>4. g[s \ {Max(s)}] = h[s \ {Max(s)}]
        BY <2>2, <4>3
      <4> QED
        BY <4>1, <4>2, <4>4 DEF Folded
    <3> QED
      BY <3>1, <3>2
  <2>4. g = [s \in SUBSET (1 .. m + 1) |-> Folded(proc, f, piece, g, s)]
    <3>1. DOMAIN g = SUBSET (1 .. m + 1) /\ g = [s \in DOMAIN g |-> g[s]]
      BY <2>2
    <3> QED
      BY <2>3, <3>1
  <2> QED
    BY <2>4 DEF FoldedBy
<1>3. T = Nat
  <2> HIDE DEF T
  <2>1. T \in SUBSET Nat
    BY DEF T
  <2> QED
    BY <1>1, <1>2, <2>1, SetInduction
<1> QED
  BY <1>3

\* The states that a processor goes through in a piece.
LEMMA FoldRun ==
  ASSUME NEW proc \in processors, NEW f \in FenceOf(proc), NEW piece \in Seq(Characters)
  PROVE  \E r : /\ r[0] = f /\ fold(proc, f, piece) = r[Len(piece)]
                /\ \A k \in Nat : k < Len(piece) => r[k + 1] = step(proc, r[k], piece[k + 1])
                /\ \A k \in 0 .. Len(piece) : r[k] \in FenceOf(proc)
<1>1. PICK n \in Nat : n = Len(piece) /\ DOMAIN piece = 1 .. n
  OBVIOUS
<1> DEFINE F(h) == [s \in SUBSET (1 .. n) |-> Folded(proc, f, piece, h, s)]
<1>2. PICK h : h = F(h) /\ fold(proc, f, piece) = h[1 .. n]
  <2>1. PICK h : h = CHOOSE g : g = F(g)
    OBVIOUS
  <2>2. \E g : g = F(g)
    <3>1. \E g : FoldedBy(proc, f, piece, n, g)
      BY FoldedExists
    <3> QED
      BY <3>1 DEF FoldedBy
  <2>3. h = F(h)
    BY <2>1, <2>2
  <2>4. fold(proc, f, piece) = h[1 .. n]
    BY <1>1, <2>1 DEF fold, FoldLeft, MapThenFoldSet, Folded, step
  <2> QED
    BY <2>3, <2>4
<1>3. PICK r : r = [k \in 0 .. n |-> h[1 .. k]]
  OBVIOUS
<1>4. \A s \in SUBSET (1 .. n) : h[s] = Folded(proc, f, piece, h, s)
  BY <1>2
<1>5. r[0] = f
  <2>1. 1 .. 0 = {} /\ r[0] = h[1 .. 0]
    BY <1>3
  <2> QED
    BY <1>4, <2>1 DEF Folded
<1>6. ASSUME NEW k \in Nat, k < n PROVE r[k + 1] = step(proc, r[k], piece[k + 1])
  <2>1. k + 1 \in Nat \ {0} /\ k + 1 \in 1 .. k + 1 /\ 1 .. k + 1 \in SUBSET (1 .. n)
    BY <1>6
  <2>2. Max(1 .. k + 1) = k + 1
    BY <2>1, MaxOfFirst
  <2>3. (1 .. k + 1) \ {k + 1} = 1 .. k
    BY <2>1
  <2>4. r[k + 1] = h[1 .. k + 1] /\ r[k] = h[1 .. k]
    BY <1>3, <1>6
  <2>5. h[1 .. k + 1] = Folded(proc, f, piece, h, 1 .. k + 1)
    BY <1>4, <2>1
  <2> QED
    BY <2>1, <2>2, <2>3, <2>4, <2>5 DEF Folded
<1>7. \A k \in 0 .. n : r[k] \in FenceOf(proc)
  <2> DEFINE T == {k \in Nat : k <= n => r[k] \in FenceOf(proc)}
  <2>1. 0 \in T
    BY <1>5
  <2>2. ASSUME NEW k \in T PROVE k + 1 \in T
    <3>1. SUFFICES ASSUME k + 1 <= n PROVE r[k + 1] \in FenceOf(proc)
      OBVIOUS
    <3>2. k < n /\ r[k] \in FenceOf(proc) /\ k + 1 \in 1 .. n
      BY <3>1
    <3>3. piece[k + 1] \in Characters
      BY <1>1, <3>2
    <3>4. step(proc, r[k], piece[k + 1]) \in FenceOf(proc)
      BY <3>2, <3>3, StepType
    <3> QED
      BY <1>6, <3>2, <3>4
  <2>3. T = Nat
    <3> HIDE DEF T
    <3>1. T \in SUBSET Nat
      BY DEF T
    <3> QED
      BY <2>1, <2>2, <3>1, SetInduction
  <2> QED
    BY <2>3
<1>8. r[n] = h[1 .. n]
  BY <1>3
<1> QED
  BY <1>1, <1>2, <1>5, <1>6, <1>7, <1>8

\* A character more is a step more.
LEMMA FoldMore ==
  ASSUME NEW proc \in processors, NEW f \in FenceOf(proc), NEW piece \in Seq(Characters)
  PROVE  /\ fold(proc, f, <<>>) = f
         /\ fold(proc, f, piece) \in FenceOf(proc)
         /\ \A c \in Characters :
              fold(proc, f, Append(piece, c)) = step(proc, fold(proc, f, piece), c)
<1>1. fold(proc, f, <<>>) = f
  <2>1. PICK none \in Seq(Characters) : none = <<>> /\ Len(none) = 0
    BY EmptySeq
  <2>2. PICK r : r[0] = f /\ fold(proc, f, none) = r[Len(none)]
    BY FoldRun
  <2> QED
    BY <2>1, <2>2
<1>2. PICK n \in Nat : n = Len(piece)
  OBVIOUS
<1>3. PICK r : /\ r[0] = f /\ fold(proc, f, piece) = r[n]
               /\ \A k \in Nat : k < n => r[k + 1] = step(proc, r[k], piece[k + 1])
               /\ \A k \in 0 .. n : r[k] \in FenceOf(proc)
  <2>1. \E r : /\ r[0] = f /\ fold(proc, f, piece) = r[Len(piece)]
               /\ \A k \in Nat : k < Len(piece) => r[k + 1] = step(proc, r[k], piece[k + 1])
               /\ \A k \in 0 .. Len(piece) : r[k] \in FenceOf(proc)
    BY FoldRun
  <2> QED
    BY <1>2, <2>1, Zenon
<1>4. ASSUME NEW c \in Characters
      PROVE  fold(proc, f, Append(piece, c)) = step(proc, fold(proc, f, piece), c)
  <2>1. PICK u \in Seq(Characters) : u = Append(piece, c)
    BY AppendProperties
  <2>2. Len(u) = n + 1 /\ u[n + 1] = c /\ \A k \in 1 .. n : u[k] = piece[k]
    BY <1>2, <2>1, AppendProperties
  <2>3. PICK q : /\ q[0] = f /\ fold(proc, f, u) = q[n + 1]
                 /\ \A k \in Nat : k < n + 1 => q[k + 1] = step(proc, q[k], u[k + 1])
    BY <2>2, FoldRun
  <2> DEFINE T == {k \in Nat : k <= n => q[k] = r[k]}
  <2>4. 0 \in T
    BY <1>3, <2>3
  <2>5. ASSUME NEW k \in T PROVE k + 1 \in T
    <3>1. SUFFICES ASSUME k + 1 <= n PROVE q[k + 1] = r[k + 1]
      OBVIOUS
    <3>2. k < n /\ k < n + 1 /\ k + 1 \in 1 .. n /\ q[k] = r[k]
      BY <3>1
    <3>3. u[k + 1] = piece[k + 1]
      BY <2>2, <3>2
    <3> QED
      BY <1>3, <2>3, <3>2, <3>3
  <2>6. T = Nat
    <3> HIDE DEF T
    <3>1. T \in SUBSET Nat
      BY DEF T
    <3> QED
      BY <2>4, <2>5, <3>1, SetInduction
  <2>7. q[n] = r[n]
    BY <2>6
  <2>8. q[n + 1] = step(proc, q[n], u[n + 1])
    BY <2>3
  <2> QED
    BY <1>3, <2>1, <2>2, <2>3, <2>7, <2>8
<1>5. fold(proc, f, piece) \in FenceOf(proc)
  BY <1>3
<1> QED
  BY <1>1, <1>4, <1>5

-----------------------------------------------------------------------------
(***************************************************************************)
(* The backticks that a text ends with, from a position on.                *)
(***************************************************************************)
AreTicks(t, i, k) ==
  /\ k \in 0 .. Len(t) + 1 - i
  /\ k = Len(t) + 1 - i \/ t[Len(t) - k] # "tick"
  /\ \A j \in Len(t) + 1 - k .. Len(t) : t[j] = "tick"

Ticks(t, i) == CHOOSE k \in Nat : AreTicks(t, i, k)

LEMMA TicksIs ==
  ASSUME NEW t \in Seq(Characters), NEW i \in 1 .. Len(t) + 1
  PROVE  /\ Ticks(t, i) \in Nat /\ AreTicks(t, i, Ticks(t, i))
         /\ \A k \in Nat : AreTicks(t, i, k) => k = Ticks(t, i)
<1>1. PICK n \in Nat : n = Len(t)
  OBVIOUS
<1>2. i \in Nat \ {0} /\ i <= n + 1 /\ n + 1 - i \in Nat
  BY <1>1
<1>3. \E k \in Nat : AreTicks(t, i, k)
  <2>1. PICK S \in SUBSET Nat : S = {k \in 0 .. n + 1 - i : k = n + 1 - i \/ t[n - k] # "tick"}
    <3>1. {k \in 0 .. n + 1 - i : k = n + 1 - i \/ t[n - k] # "tick"} \in SUBSET Nat
      BY <1>2
    <3> QED
      BY <3>1
  <2>2. n + 1 - i \in S
    BY <1>2, <2>1
  <2>3. PICK k \in S : \A y \in S : k <= y
    BY <2>2, Least
  <2>4. k \in 0 .. n + 1 - i /\ (k = n + 1 - i \/ t[n - k] # "tick")
    BY <2>1
  <2>5. ASSUME NEW j \in n + 1 - k .. n PROVE t[j] = "tick"
    <3>1. n - j \in 0 .. n + 1 - i /\ n - j < k /\ n - (n - j) = j
      BY <1>2, <2>4
    <3>2. n - j \notin S
      BY <1>2, <2>3, <2>4, <3>1
    <3> QED
      BY <2>1, <3>1, <3>2
  <2>6. k \in Nat /\ AreTicks(t, i, k)
    BY <1>1, <1>2, <2>4, <2>5 DEF AreTicks
  <2> QED
    BY <2>6
<1>4. ASSUME NEW a \in Nat, NEW b \in Nat, AreTicks(t, i, a), AreTicks(t, i, b), a < b PROVE FALSE
  <2>1. a # n + 1 - i /\ n - a \in n + 1 - b .. n
    BY <1>1, <1>2, <1>4 DEF AreTicks
  <2>2. t[n - a] # "tick"
    BY <1>1, <1>4, <2>1 DEF AreTicks
  <2>3. t[n - a] = "tick"
    BY <1>1, <1>4, <2>1 DEF AreTicks
  <2> QED
    BY <2>2, <2>3
<1>5. Ticks(t, i) \in Nat /\ AreTicks(t, i, Ticks(t, i))
  BY <1>3 DEF Ticks
<1>6. \A k \in Nat : AreTicks(t, i, k) => ~(k < Ticks(t, i)) /\ ~(Ticks(t, i) < k)
  BY <1>4, <1>5
<1> QED
  BY <1>5, <1>6

\* One backtick more, or none.
LEMMA TicksMore ==
  ASSUME NEW t \in Seq(Characters), NEW c \in Characters, NEW i \in 1 .. Len(t) + 1
  PROVE  Ticks(Append(t, c), i) = IF c = "tick" THEN Ticks(t, i) + 1 ELSE 0
<1>1. PICK n \in Nat : n = Len(t)
  OBVIOUS
<1>2. PICK u \in Seq(Characters) : u = Append(t, c)
  BY AppendProperties
<1>3. Len(u) = n + 1 /\ u[n + 1] = c /\ \A k \in 1 .. n : u[k] = t[k]
  BY <1>1, <1>2, AppendProperties
<1>4. i \in Nat \ {0} /\ i <= n + 1
  BY <1>1
<1>5. PICK k \in Nat : k = Ticks(t, i) /\ AreTicks(t, i, k)
  BY TicksIs
<1>6. k \in 0 .. n + 1 - i /\ (k = n + 1 - i \/ t[n - k] # "tick")
      /\ \A j \in n + 1 - k .. n : t[j] = "tick"
  BY <1>1, <1>5 DEF AreTicks
<1>7. i \in 1 .. Len(u) + 1
  BY <1>3, <1>4
<1>8. CASE c = "tick"
  <2>1. k + 1 \in 0 .. (n + 1) + 1 - i
    BY <1>4, <1>6
  <2>2. k + 1 = (n + 1) + 1 - i \/ u[(n + 1) - (k + 1)] # "tick"
    <3>1. CASE k = n + 1 - i
      BY <1>4, <3>1
    <3>2. CASE k # n + 1 - i
      <4>1. n - k \in 1 .. n /\ (n + 1) - (k + 1) = n - k
        BY <1>4, <1>6, <3>2
      <4> QED
        BY <1>3, <1>6, <3>2, <4>1
    <3> QED
      BY <3>1, <3>2
  <2>3. ASSUME NEW j \in (n + 1) + 1 - (k + 1) .. n + 1 PROVE u[j] = "tick"
    <3>1. CASE j = n + 1
      BY <1>3, <1>8, <3>1
    <3>2. CASE j # n + 1
      <4>1. j \in n + 1 - k .. n /\ j \in 1 .. n
        BY <1>4, <1>6, <3>2
      <4> QED
        BY <1>3, <1>6, <4>1
    <3> QED
      BY <3>1, <3>2
  <2>4. k + 1 \in Nat /\ AreTicks(u, i, k + 1)
    BY <1>3, <2>1, <2>2, <2>3 DEF AreTicks
  <2>5. k + 1 = Ticks(u, i)
    BY <1>7, <2>4, TicksIs
  <2> QED
    BY <1>2, <1>5, <1>8, <2>5
<1>9. CASE c # "tick"
  <2>1. 0 \in 0 .. (n + 1) + 1 - i /\ u[(n + 1) - 0] # "tick"
    BY <1>3, <1>4, <1>9
  <2>2. \A j \in (n + 1) + 1 - 0 .. n + 1 : u[j] = "tick"
    OBVIOUS
  <2>3. AreTicks(u, i, 0)
    BY <1>3, <2>1, <2>2 DEF AreTicks
  <2>4. 0 = Ticks(u, i)
    BY <1>7, <2>3, TicksIs
  <2> QED
    BY <1>2, <1>9, <2>4
<1> QED
  BY <1>8, <1>9

\* No backtick from beyond the end of a text on.
LEMMA TicksBeyond ==
  ASSUME NEW t \in Seq(Characters)
  PROVE  Ticks(t, Len(t) + 1) = 0
<1>1. PICK n \in Nat : n = Len(t)
  OBVIOUS
<1>2. n + 1 \in 1 .. Len(t) + 1
  BY <1>1
<1>3. 0 \in 0 .. n + 1 - (n + 1) /\ 0 = n + 1 - (n + 1)
  BY <1>1
<1>4. \A j \in n + 1 - 0 .. n : t[j] = "tick"
  BY <1>1
<1>5. AreTicks(t, n + 1, 0)
  BY <1>1, <1>3, <1>4 DEF AreTicks
<1> QED
  BY <1>1, <1>2, <1>5, TicksIs

\* What is settled of the text from a position on: all but its last backticks.
LEMMA SettledIs ==
  ASSUME NEW t \in Seq(Characters), NEW i \in 1 .. Len(t) + 1
  PROVE  Settled(After(t, i)) = SubSeq(t, i, Len(t) - Ticks(t, i))
<1>1. PICK n \in Nat : n = Len(t)
  OBVIOUS
<1>2. i \in Nat \ {0} /\ i <= n + 1
  BY <1>1
<1>3. PICK k \in Nat : k = Ticks(t, i) /\ AreTicks(t, i, k)
  BY TicksIs
<1>4. k \in 0 .. n + 1 - i /\ (k = n + 1 - i \/ t[n - k] # "tick")
      /\ \A j \in n + 1 - k .. n : t[j] = "tick"
  BY <1>1, <1>3 DEF AreTicks
<1>5. PICK s \in Seq(Characters) : /\ s = After(t, i) /\ Len(s) = n + 1 - i
                                   /\ \A m \in 1 .. n + 1 - i : s[m] = t[i + m - 1]
  <2>1. n \in Int /\ n <= Len(t)
    BY <1>1
  <2>2. PICK s : s = SubSeq(t, i, n)
    OBVIOUS
  <2>3. /\ s \in Seq(Characters) /\ Len(s) = IF i <= n THEN n - i + 1 ELSE 0
        /\ \A m \in 1 .. n - i + 1 : s[m] = t[i + m - 1]
    BY <1>2, <2>1, <2>2, PartOf
  <2>4. Len(s) = n + 1 - i /\ n - i + 1 = n + 1 - i
    BY <1>2, <2>3
  <2>5. s = After(t, i)
    BY <1>1, <2>2 DEF After
  <2> QED
    BY <2>3, <2>4, <2>5
<1> DEFINE IsEnd(m) == /\ m = 0 \/ s[m] # "tick"
                       /\ \A j \in m + 1 .. Len(s) : s[j] = "tick"
<1>6. PICK e \in 0 .. Len(s) : e = n + 1 - i - k
  BY <1>2, <1>4, <1>5
<1>7. IsEnd(e)
  <2>1. e = 0 \/ s[e] # "tick"
    <3>1. SUFFICES ASSUME e # 0 PROVE s[e] # "tick"
      OBVIOUS
    <3>2. k # n + 1 - i /\ e \in 1 .. n + 1 - i /\ i + e - 1 = n - k
      BY <1>2, <1>4, <1>5, <1>6, <3>1
    <3> QED
      BY <1>4, <1>5, <3>2
  <2>2. ASSUME NEW j \in e + 1 .. Len(s) PROVE s[j] = "tick"
    <3>1. j \in 1 .. n + 1 - i /\ i + j - 1 \in n + 1 - k .. n
      BY <1>2, <1>4, <1>5, <1>6
    <3> QED
      BY <1>4, <1>5, <3>1
  <2> QED
    BY <2>1, <2>2
<1>8. ASSUME NEW m \in 0 .. Len(s), IsEnd(m) PROVE m = e
  <2>1. PICK b \in Nat : b = n + 1 - i - m
    BY <1>2, <1>5
  <2>2. b \in 0 .. n + 1 - i /\ m = n + 1 - i - b
    BY <1>2, <1>5, <2>1
  <2>3. b = n + 1 - i \/ t[n - b] # "tick"
    <3>1. SUFFICES ASSUME b # n + 1 - i PROVE t[n - b] # "tick"
      OBVIOUS
    <3>2. m # 0 /\ m \in 1 .. n + 1 - i /\ i + m - 1 = n - b
      BY <1>2, <1>5, <2>2, <3>1
    <3> QED
      BY <1>5, <1>8, <3>2
  <2>4. ASSUME NEW j \in n + 1 - b .. n PROVE t[j] = "tick"
    <3>1. j - i + 1 \in m + 1 .. Len(s) /\ j - i + 1 \in 1 .. n + 1 - i /\ i + (j - i + 1) - 1 = j
      BY <1>2, <1>5, <2>2
    <3>2. s[j - i + 1] = "tick"
      BY <1>8, <3>1
    <3> QED
      BY <1>5, <3>1, <3>2
  <2>5. AreTicks(t, i, b)
    BY <1>1, <2>2, <2>3, <2>4 DEF AreTicks
  <2>6. b = k
    BY <1>3, <2>5, TicksIs
  <2> QED
    BY <1>6, <2>2, <2>6
<1>9. Settled(s) = SubSeq(s, 1, e)
  <2>1. (CHOOSE m \in 0 .. Len(s) : IsEnd(m)) = e
    <3> HIDE DEF IsEnd
    <3> QED
      BY <1>7, <1>8
  <2> QED
    BY <2>1 DEF Settled
<1>10. SubSeq(s, 1, e) = SubSeq(t, i, n - k)
  <2>1. PICK a : a = SubSeq(s, 1, e)
    OBVIOUS
  <2>2. PICK b : b = SubSeq(t, i, n - k)
    OBVIOUS
  <2>3. e \in Int /\ e <= Len(s) /\ 1 \in Nat \ {0}
    BY <1>5, <1>6
  <2>4. /\ a \in Seq(Characters) /\ Len(a) = IF 1 <= e THEN e - 1 + 1 ELSE 0
        /\ \A m \in 1 .. e - 1 + 1 : a[m] = s[1 + m - 1]
    BY <2>1, <2>3, PartOf
  <2>5. n - k \in Int /\ n - k <= Len(t)
    BY <1>1
  <2>6. /\ b \in Seq(Characters) /\ Len(b) = IF i <= n - k THEN (n - k) - i + 1 ELSE 0
        /\ \A m \in 1 .. (n - k) - i + 1 : b[m] = t[i + m - 1]
    BY <1>2, <2>2, <2>5, PartOf
  <2>7. Len(a) = e
    BY <1>5, <1>6, <2>4
  <2>8. Len(b) = e /\ (n - k) - i + 1 = e
    BY <1>2, <1>4, <1>6, <2>6
  <2>9. ASSUME NEW m \in 1 .. e PROVE a[m] = b[m]
    <3>1. m \in 1 .. e - 1 + 1 /\ 1 + m - 1 = m /\ m \in 1 .. n + 1 - i
      BY <1>5, <1>6
    <3>2. a[m] = s[m]
      BY <2>4, <3>1
    <3>3. b[m] = t[i + m - 1]
      BY <2>6, <2>8
    <3> QED
      BY <1>5, <3>1, <3>2, <3>3
  <2>10. a = b
    BY <2>4, <2>6, <2>7, <2>8, <2>9, SeqEqual
  <2> QED
    BY <2>1, <2>2, <2>10
<1> QED
  BY <1>1, <1>3, <1>5, <1>9, <1>10

\* A character more settles nothing, or all there is.
LEMMA SettledMore ==
  ASSUME NEW t \in Seq(Characters), NEW c \in Characters, NEW i \in 1 .. Len(t) + 1
  PROVE  /\ Settled(After(t, i)) \in Seq(Characters)
         /\ Settled(After(Append(t, c), i)) =
              IF c = "tick" THEN Settled(After(t, i))
              ELSE Append(Settled(After(t, i)) \o Backticks(Ticks(t, i)), c)
<1>1. PICK n \in Nat : n = Len(t)
  OBVIOUS
<1>2. PICK u \in Seq(Characters) : u = Append(t, c) /\ Len(u) = n + 1
  BY <1>1, AppendProperties
<1>3. i \in Nat \ {0} /\ i <= n + 1 /\ i \in 1 .. Len(u) + 1
  BY <1>1, <1>2
<1>4. PICK k \in Nat : k = Ticks(t, i) /\ AreTicks(t, i, k)
  BY TicksIs
<1>5. k \in 0 .. n + 1 - i /\ \A j \in n + 1 - k .. n : t[j] = "tick"
  BY <1>1, <1>4 DEF AreTicks
<1>6. n - k \in Nat /\ n - k <= n
  BY <1>3, <1>5
<1>7. PICK s : s = SubSeq(t, i, n - k)
  OBVIOUS
<1>8. s = Settled(After(t, i))
  BY <1>1, <1>4, <1>7, SettledIs
<1>9. /\ s \in Seq(Characters) /\ Len(s) = IF i <= n - k THEN (n - k) - i + 1 ELSE 0
      /\ \A m \in 1 .. (n - k) - i + 1 : s[m] = t[i + m - 1]
  <2>1. n - k \in Int /\ n - k <= Len(t)
    BY <1>1, <1>6
  <2> QED
    BY <1>3, <1>7, <2>1, PartOf
<1>10. CASE c = "tick"
  <2>1. Ticks(u, i) = k + 1
    BY <1>2, <1>4, <1>10, TicksMore
  <2>2. Settled(After(u, i)) = SubSeq(u, i, (n + 1) - (k + 1))
    BY <1>2, <1>3, <2>1, SettledIs
  <2>3. (n + 1) - (k + 1) = n - k
    BY <1>6
  <2>4. SubSeq(u, i, n - k) = s
    BY <1>1, <1>2, <1>6, <1>7, PartMore
  <2> QED
    BY <1>2, <1>8, <1>9, <1>10, <2>2, <2>3, <2>4
<1>11. CASE c # "tick"
  <2>1. Ticks(u, i) = 0
    BY <1>2, <1>11, TicksMore
  <2>2. Settled(After(u, i)) = SubSeq(u, i, n + 1)
    <3>1. Settled(After(u, i)) = SubSeq(u, i, (n + 1) - 0)
      BY <1>2, <1>3, <2>1, SettledIs
    <3> QED
      BY <3>1
  <2>3. PICK rest : rest = SubSeq(t, i, n)
    OBVIOUS
  <2>4. SubSeq(u, i, n + 1) = Append(rest, c)
    BY <1>1, <1>2, <2>3, PartMore
  <2>5. /\ rest \in Seq(Characters) /\ Len(rest) = IF i <= n THEN n - i + 1 ELSE 0
        /\ \A m \in 1 .. n - i + 1 : rest[m] = t[i + m - 1]
    <3>1. n \in Int /\ n <= Len(t)
      BY <1>1
    <3> QED
      BY <1>3, <2>3, <3>1, PartOf
  <2>6. PICK b \in Seq(Characters) : b = Backticks(k) /\ Len(b) = k /\ \A m \in 1 .. k : b[m] = "tick"
    BY BackticksType
  <2>7. PICK sb \in Seq(Characters) : sb = s \o b
    BY <1>9, ConcatProperties
  <2>8. PICK a \in Nat : a = Len(s) /\ a = n - k + 1 - i
    <3>1. Len(s) = n - k + 1 - i
      BY <1>3, <1>5, <1>9
    <3> QED
      BY <1>9, <3>1
  <2>9. Len(rest) = a + k
    BY <1>3, <2>5, <2>8
  <2>10. Len(sb) = a + k /\ \A m \in 1 .. a + k : sb[m] = IF m <= a THEN s[m] ELSE b[m - a]
    BY <1>9, <2>6, <2>7, <2>8, ConcatProperties
  <2>11. ASSUME NEW m \in 1 .. a + k PROVE rest[m] = sb[m]
    <3>1. m \in 1 .. n - i + 1 /\ rest[m] = t[i + m - 1]
      BY <1>3, <2>5, <2>8
    <3>2. CASE m <= a
      <4>1. m \in 1 .. (n - k) - i + 1
        BY <1>3, <2>8, <3>2
      <4> QED
        BY <1>9, <2>10, <3>1, <3>2, <4>1
    <3>3. CASE ~(m <= a)
      <4>1. m - a \in 1 .. k /\ i + m - 1 \in n + 1 - k .. n
        BY <1>3, <2>8, <3>3
      <4> QED
        BY <1>5, <2>6, <2>10, <3>1, <3>3, <4>1
    <3> QED
      BY <3>2, <3>3
  <2>12. rest = sb
    BY <2>5, <2>9, <2>10, <2>11, SeqEqual
  <2> QED
    BY <1>2, <1>4, <1>8, <1>9, <1>11, <2>2, <2>4, <2>6, <2>7, <2>12
<1> QED
  BY <1>10, <1>11

\* Nothing is settled beyond the end of a text.
LEMMA SettledBeyond ==
  ASSUME NEW t \in Seq(Characters)
  PROVE  Settled(After(t, Len(t) + 1)) = <<>>
<1>1. PICK n \in Nat : n = Len(t) /\ n + 1 \in 1 .. Len(t) + 1
  OBVIOUS
<1>2. Settled(After(t, n + 1)) = SubSeq(t, n + 1, n - 0)
  BY <1>1, SettledIs, TicksBeyond
<1>3. SubSeq(t, n + 1, n - 0) = <<>>
  BY SubSeqEmpty
<1> QED
  BY <1>1, <1>2, <1>3

-----------------------------------------------------------------------------
(***************************************************************************)
(* The first positions: of a fence, of the end of its line, of a space.    *)
(***************************************************************************)
LeastOf(S) == IF S = {} THEN 0 ELSE CHOOSE j \in S : \A k \in S : j <= k

LEMMA LeastOfIs ==
  ASSUME NEW S \in SUBSET Nat
  PROVE  \/ S = {} /\ LeastOf(S) = 0
         \/ LeastOf(S) \in S /\ \A k \in S : LeastOf(S) <= k
<1>1. CASE S = {}
  BY <1>1 DEF LeastOf
<1>2. CASE S # {}
  <2>1. \E j \in S : \A k \in S : j <= k
    BY <1>2, Least
  <2> QED
    BY <1>2, <2>1 DEF LeastOf
<1> QED
  BY <1>1, <1>2

\* The first position, from i on, of a character of a set.
FirstOf(t, i, S) == LeastOf({j \in i .. Len(t) : t[j] \in S})

LEMMA FirstOfIs ==
  ASSUME NEW t \in Seq(Characters), NEW i \in Nat \ {0}, NEW S
  PROVE  \/ FirstOf(t, i, S) = 0 /\ \A j \in i .. Len(t) : t[j] \notin S
         \/ /\ FirstOf(t, i, S) \in i .. Len(t) /\ t[FirstOf(t, i, S)] \in S
            /\ \A j \in i .. FirstOf(t, i, S) - 1 : t[j] \notin S
<1>1. PICK P \in SUBSET Nat : P = {j \in i .. Len(t) : t[j] \in S}
  <2>1. {j \in i .. Len(t) : t[j] \in S} \in SUBSET Nat
    OBVIOUS
  <2> QED
    BY <2>1
<1>2. FirstOf(t, i, S) = LeastOf(P)
  BY <1>1 DEF FirstOf
<1>3. CASE P = {}
  <2>1. LeastOf(P) = 0
    BY <1>3 DEF LeastOf
  <2> QED
    BY <1>1, <1>2, <1>3, <2>1
<1>4. CASE P # {}
  <2>1. PICK l \in P : l = LeastOf(P) /\ \A k \in P : l <= k
    BY <1>4, LeastOfIs
  <2>2. l \in i .. Len(t) /\ t[l] \in S
    BY <1>1
  <2>3. ASSUME NEW j \in i .. l - 1 PROVE t[j] \notin S
    <3>1. j \in i .. Len(t) /\ ~(l <= j)
      BY <2>2
    <3> QED
      BY <1>1, <2>1, <3>1
  <2> QED
    BY <1>2, <2>1, <2>2, <2>3
<1> QED
  BY <1>3, <1>4

\* It is found in a character more, or where it was.
LEMMA FirstOfMore ==
  ASSUME NEW t \in Seq(Characters), NEW c \in Characters, NEW i \in 1 .. Len(t) + 1, NEW S
  PROVE  FirstOf(Append(t, c), i, S) =
           IF FirstOf(t, i, S) # 0 THEN FirstOf(t, i, S)
           ELSE IF c \in S THEN Len(t) + 1 ELSE 0
<1>1. PICK n \in Nat : n = Len(t)
  OBVIOUS
<1>2. PICK u \in Seq(Characters) : u = Append(t, c)
  BY AppendProperties
<1>3. Len(u) = n + 1 /\ u[n + 1] = c /\ \A k \in 1 .. n : u[k] = t[k]
  BY <1>1, <1>2, AppendProperties
<1>4. i \in Nat \ {0} /\ i <= n + 1
  BY <1>1
<1>5. PICK a : a = FirstOf(t, i, S)
  OBVIOUS
<1>6. PICK b : b = FirstOf(u, i, S)
  OBVIOUS
<1>7. \/ a = 0 /\ \A j \in i .. n : t[j] \notin S
      \/ a \in i .. n /\ t[a] \in S /\ \A j \in i .. a - 1 : t[j] \notin S
  BY <1>1, <1>4, <1>5, FirstOfIs
<1>8. \/ b = 0 /\ \A j \in i .. n + 1 : u[j] \notin S
      \/ b \in i .. n + 1 /\ u[b] \in S /\ \A j \in i .. b - 1 : u[j] \notin S
  BY <1>3, <1>4, <1>6, FirstOfIs
<1>9. CASE a # 0
  <2>1. a \in i .. n /\ a \in i .. n + 1 /\ u[a] \in S
    BY <1>3, <1>4, <1>7, <1>9
  <2>2. \A j \in i .. a - 1 : u[j] \notin S
    BY <1>3, <1>4, <1>7, <1>9, <2>1
  <2>3. b = a
    BY <1>4, <1>8, <2>1, <2>2
  <2> QED
    BY <1>2, <1>5, <1>6, <1>9, <2>3
<1>10. CASE a = 0
  <2>1. \A j \in i .. n : u[j] \notin S
    BY <1>3, <1>4, <1>7, <1>10
  <2>2. b = 0 \/ b = n + 1
    BY <1>4, <1>8, <2>1
  <2>3. n + 1 \in i .. n + 1
    BY <1>4
  <2>4. b = IF c \in S THEN n + 1 ELSE 0
    BY <1>3, <1>8, <2>2, <2>3
  <2> QED
    BY <1>1, <1>2, <1>5, <1>6, <1>10, <2>4
<1> QED
  BY <1>9, <1>10

\* The characters that end a fence's line, and what is skipped after a fence.
lineEnds == {"LF"}
spaces == {"space", "LF", "CR"}

LEMMA FirstsAre ==
  ASSUME NEW t, NEW i
  PROVE  /\ FirstFrom(t, i, LAMBDA j : t[j] = "LF") = FirstOf(t, i, lineEnds)
         /\ FirstFrom(t, i, LAMBDA j : isspace(t[j])) = FirstOf(t, i, spaces)
<1>1. {j \in i .. Len(t) : t[j] = "LF"} = {j \in i .. Len(t) : t[j] \in lineEnds}
  BY DEF lineEnds
<1>2. {j \in i .. Len(t) : isspace(t[j])} = {j \in i .. Len(t) : t[j] \in spaces}
  BY DEF spaces, isspace
<1>3. FirstFrom(t, i, LAMBDA j : t[j] = "LF") = LeastOf({j \in i .. Len(t) : t[j] = "LF"})
  BY DEF FirstFrom, LeastOf
<1>4. FirstFrom(t, i, LAMBDA j : isspace(t[j])) = LeastOf({j \in i .. Len(t) : isspace(t[j])})
  BY DEF FirstFrom, LeastOf
<1> QED
  BY <1>1, <1>2, <1>3, <1>4 DEF FirstOf

\* A fence begins at j.
IsFence(t, j) ==
  /\ j + CODE_FENCE_BACKTICK_COUNT <= Len(t) + 1
  /\ \A k \in j .. j + CODE_FENCE_BACKTICK_COUNT - 1 : t[k] = "tick"

LEMMA FenceIs ==
  ASSUME NEW t \in Seq(Characters), NEW i \in Nat \ {0}
  PROVE  \/ Fence(t, i) = 0 /\ \A j \in i .. Len(t) : ~IsFence(t, j)
         \/ /\ Fence(t, i) \in i .. Len(t) /\ IsFence(t, Fence(t, i))
            /\ \A j \in i .. Fence(t, i) - 1 : ~IsFence(t, j)
<1>1. PICK P \in SUBSET Nat : P = {j \in i .. Len(t) : IsFence(t, j)}
  <2>1. {j \in i .. Len(t) : IsFence(t, j)} \in SUBSET Nat
    OBVIOUS
  <2> QED
    BY <2>1
<1>2. Fence(t, i) = LeastOf(P)
  BY <1>1 DEF Fence, FirstFrom, LeastOf, IsFence
<1>3. CASE P = {}
  <2>1. LeastOf(P) = 0
    BY <1>3 DEF LeastOf
  <2> QED
    BY <1>1, <1>2, <1>3, <2>1
<1>4. CASE P # {}
  <2>1. PICK l \in P : l = LeastOf(P) /\ \A k \in P : l <= k
    BY <1>4, LeastOfIs
  <2>2. l \in i .. Len(t) /\ IsFence(t, l)
    BY <1>1
  <2>3. ASSUME NEW j \in i .. l - 1 PROVE ~IsFence(t, j)
    <3>1. j \in i .. Len(t) /\ ~(l <= j)
      BY <2>2
    <3> QED
      BY <1>1, <2>1, <3>1
  <2> QED
    BY <1>2, <2>1, <2>2, <2>3
<1> QED
  BY <1>3, <1>4

\* No fence begins beyond the end of a text.
LEMMA FenceBeyond ==
  ASSUME NEW t \in Seq(Characters)
  PROVE  Fence(t, Len(t) + 1) = 0
<1>1. Len(t) \in Nat /\ Len(t) + 1 \in Nat \ {0}
  OBVIOUS
<1>2. Fence(t, Len(t) + 1) = 0 \/ Fence(t, Len(t) + 1) \in Len(t) + 1 .. Len(t)
  BY <1>1, FenceIs
<1> QED
  BY <1>1, <1>2

\* A fence is complete with the last of its backticks, and not before.
LEMMA FenceMore ==
  ASSUME NEW t \in Seq(Characters), NEW c \in Characters, NEW i \in 1 .. Len(t) + 1
  PROVE  /\ Fence(Append(t, c), i) =
              IF Fence(t, i) # 0 THEN Fence(t, i)
              ELSE IF c = "tick" /\ Ticks(t, i) + 1 = CODE_FENCE_BACKTICK_COUNT
                   THEN Len(t) + 2 - CODE_FENCE_BACKTICK_COUNT
              ELSE 0
         /\ Fence(t, i) = 0 => Ticks(t, i) < CODE_FENCE_BACKTICK_COUNT
         /\ Fence(t, i) # 0 => /\ Fence(t, i) \in i .. Len(t)
                               /\ Fence(t, i) + CODE_FENCE_BACKTICK_COUNT <= Len(t) + 1
<1>1. PICK n \in Nat : n = Len(t)
  OBVIOUS
<1>2. PICK u \in Seq(Characters) : u = Append(t, c)
  BY AppendProperties
<1>3. Len(u) = n + 1 /\ u[n + 1] = c /\ \A k \in 1 .. n : u[k] = t[k]
  BY <1>1, <1>2, AppendProperties
<1>4. i \in Nat \ {0} /\ i <= n + 1
  BY <1>1
<1>5. PICK count \in Nat \ {0, 1} : count = CODE_FENCE_BACKTICK_COUNT
  BY FenceAssumption
<1>6. PICK k \in Nat : k = Ticks(t, i) /\ AreTicks(t, i, k)
  BY TicksIs
<1>7. /\ k \in 0 .. n + 1 - i /\ (k = n + 1 - i \/ t[n - k] # "tick")
      /\ \A j \in n + 1 - k .. n : t[j] = "tick"
  BY <1>1, <1>6 DEF AreTicks
<1>8. \A j \in Nat : IsFence(t, j) <=> /\ j + count <= n + 1
                                       /\ \A m \in j .. j + count - 1 : t[m] = "tick"
  BY <1>1, <1>5 DEF IsFence
<1>9. \A j \in Nat : IsFence(u, j) <=> /\ j + count <= n + 2
                                       /\ \A m \in j .. j + count - 1 : u[m] = "tick"
  <2>1. Len(u) + 1 = n + 2
    BY <1>3
  <2> QED
    BY <1>5, <2>1 DEF IsFence
<1>10. PICK a : a = Fence(t, i)
  OBVIOUS
<1>11. PICK b : b = Fence(u, i)
  OBVIOUS
<1>12. \/ a = 0 /\ \A j \in i .. n : ~IsFence(t, j)
       \/ a \in i .. n /\ IsFence(t, a) /\ \A j \in i .. a - 1 : ~IsFence(t, j)
  BY <1>1, <1>4, <1>10, FenceIs
<1>13. \/ b = 0 /\ \A j \in i .. n + 1 : ~IsFence(u, j)
       \/ b \in i .. n + 1 /\ IsFence(u, b) /\ \A j \in i .. b - 1 : ~IsFence(u, j)
  BY <1>3, <1>4, <1>11, FenceIs
\* a fence of t is a fence of u, and so is one of u that ends in t
<1>14. ASSUME NEW j \in Nat \ {0}, j + count <= n + 1 PROVE IsFence(u, j) <=> IsFence(t, j)
  <2>1. j \in Nat /\ j + count <= n + 2 /\ \A m \in j .. j + count - 1 : m \in 1 .. n
    BY <1>5, <1>14
  <2>2. \A m \in j .. j + count - 1 : u[m] = t[m]
    BY <1>3, <2>1
  <2> QED
    BY <1>8, <1>9, <1>14, <2>1, <2>2
<1>15. ASSUME a = 0 PROVE k < count
  <2>1. SUFFICES ASSUME k >= count PROVE FALSE
    BY <1>5
  <2>2. PICK j \in i .. n : j = n + 1 - k
    BY <1>4, <1>5, <1>7, <2>1
  <2>3. j \in Nat /\ j + count <= n + 1 /\ \A m \in j .. j + count - 1 : m \in n + 1 - k .. n
    BY <1>4, <1>5, <1>7, <2>1, <2>2
  <2>4. IsFence(t, j)
    BY <1>7, <1>8, <2>3
  <2> QED
    BY <1>4, <1>12, <1>15, <2>2, <2>4
<1>16. ASSUME a # 0 PROVE b = a /\ a \in i .. n /\ a + count <= n + 1
  <2>1. a \in i .. n /\ IsFence(t, a) /\ \A j \in i .. a - 1 : ~IsFence(t, j)
    BY <1>12, <1>16
  <2>2. a \in Nat \ {0} /\ a + count <= n + 1
    BY <1>4, <1>8, <2>1
  <2>3. IsFence(u, a) /\ a \in i .. n + 1
    BY <1>14, <2>1, <2>2
  <2>4. ASSUME NEW j \in i .. a - 1 PROVE ~IsFence(u, j)
    <3>1. j \in Nat \ {0} /\ j + count <= n + 1
      BY <1>4, <1>5, <2>2
    <3> QED
      BY <1>14, <2>1, <3>1
  <2>5. b = a
    BY <1>4, <1>13, <2>3, <2>4
  <2> QED
    BY <2>1, <2>2, <2>5
<1>17. ASSUME a = 0
       PROVE  b = IF c = "tick" /\ k + 1 = count THEN n + 2 - count ELSE 0
  <2>1. k < count
    BY <1>15, <1>17
  \* a fence of u ends with it
  <2>2. ASSUME NEW j \in i .. n + 1, IsFence(u, j) PROVE j = n + 2 - count /\ c = "tick" /\ k + 1 = count
    <3>1. j \in Nat \ {0} /\ j + count <= n + 2
      BY <1>4, <1>9, <2>2
    <3>2. j + count = n + 2
      <4>1. SUFFICES ASSUME j + count <= n + 1 PROVE FALSE
        BY <1>5, <3>1
      <4>2. IsFence(t, j) /\ j \in i .. n
        BY <1>4, <1>5, <1>14, <2>2, <3>1, <4>1
      <4> QED
        BY <1>4, <1>12, <1>17, <4>2
    <3>3. \A m \in j .. n + 1 : u[m] = "tick"
      <4>1. j + count - 1 = n + 1
        BY <3>1, <3>2
      <4> QED
        BY <1>9, <2>2, <3>1, <4>1
    <3>4. c = "tick"
      BY <1>3, <1>4, <3>3
    <3>5. k + 1 = count
      <4>1. SUFFICES ASSUME k + 1 < count PROVE FALSE
        BY <1>5, <2>1
      <4>2. k # n + 1 - i /\ n - k \in j .. n + 1 /\ n - k \in 1 .. n
        BY <1>4, <1>5, <1>7, <3>1, <3>2, <4>1
      <4> QED
        BY <1>3, <1>7, <3>3, <4>2
    <3> QED
      BY <1>5, <3>1, <3>2, <3>4, <3>5
  <2>3. CASE c = "tick" /\ k + 1 = count
    <3>1. PICK j \in i .. n + 1 : j = n + 2 - count
      BY <1>4, <1>5, <1>7, <2>3
    <3>2. ASSUME NEW m \in j .. j + count - 1 PROVE u[m] = "tick"
      <4>1. CASE m = n + 1
        BY <1>3, <2>3, <4>1
      <4>2. CASE m # n + 1
        <5>1. m \in n + 1 - k .. n /\ m \in 1 .. n
          BY <1>4, <1>5, <1>7, <2>3, <3>1, <4>2
        <5> QED
          BY <1>3, <1>7, <5>1
      <4> QED
        BY <4>1, <4>2
    <3>3. IsFence(u, j)
      <4>1. j \in Nat /\ j + count <= n + 2
        BY <1>4, <1>5, <3>1
      <4> QED
        BY <1>9, <3>2, <4>1
    <3>4. b = j
      BY <1>4, <1>13, <2>2, <3>1, <3>3
    <3> QED
      BY <2>3, <3>1, <3>4
  <2>4. CASE ~(c = "tick" /\ k + 1 = count)
    BY <1>13, <2>2, <2>4
  <2> QED
    BY <2>3, <2>4
<1> QED
  BY <1>1, <1>2, <1>5, <1>6, <1>10, <1>11, <1>15, <1>16, <1>17
-----------------------------------------------------------------------------
(***************************************************************************)
(* What is left of a text without its fences, from a position on: the      *)
(* recursive function that OutsideFences takes the value of at 1.          *)
(***************************************************************************)
SpaceAfter(t, i) == FirstOf(t, Fence(t, i) + CODE_FENCE_BACKTICK_COUNT, spaces)

LeftFrom(t, f, i) ==
  IF Fence(t, i) = 0 THEN Settled(After(t, i))
  ELSE IF SpaceAfter(t, i) = 0 THEN SubSeq(t, i, Fence(t, i) - 1)
  ELSE SubSeq(t, i, Fence(t, i) - 1) \o f[SpaceAfter(t, i) + 1]

LeftBy(t, h) ==
  [i \in 1 .. Len(t) + 1 |->
     LET opening == Fence(t, i)
         space == FirstFrom(t, opening + CODE_FENCE_BACKTICK_COUNT, LAMBDA j : isspace(t[j]))
     IN  CASE opening = 0 -> Settled(After(t, i))
           [] opening # 0 /\ space = 0 -> SubSeq(t, i, opening - 1)
           [] OTHER -> SubSeq(t, i, opening - 1) \o h[space + 1]]

Left(t) == CHOOSE h : h = LeftBy(t, h)

\* A fence, and the space after it, are within the text.
LEMMA SpaceAfterIs ==
  ASSUME NEW t \in Seq(Characters), NEW i \in 1 .. Len(t) + 1, Fence(t, i) # 0
  PROVE  /\ Fence(t, i) \in i .. Len(t)
         /\ Fence(t, i) + CODE_FENCE_BACKTICK_COUNT \in i + 2 .. Len(t) + 1
         /\ SpaceAfter(t, i) # 0 => SpaceAfter(t, i) \in i + 1 .. Len(t)
<1>1. PICK n \in Nat : n = Len(t) /\ i \in Nat \ {0}
  OBVIOUS
<1>2. PICK count \in Nat \ {0, 1} : count = CODE_FENCE_BACKTICK_COUNT
  BY FenceAssumption
<1>3. PICK a : a = Fence(t, i)
  OBVIOUS
<1>4. a \in i .. n /\ a + count <= n + 1
  <2>1. "tick" \in Characters
    BY DEF Characters
  <2> QED
    BY <1>1, <1>2, <1>3, <2>1, FenceMore
<1>5. a + count \in Nat \ {0} /\ a + count \in i + 2 .. n + 1
  BY <1>1, <1>2, <1>4
<1>6. FirstOf(t, a + count, spaces) # 0 => FirstOf(t, a + count, spaces) \in a + count .. n
  BY <1>1, <1>5, FirstOfIs
<1>7. SpaceAfter(t, i) = FirstOf(t, a + count, spaces)
  BY <1>2, <1>3 DEF SpaceAfter
<1> QED
  BY <1>1, <1>2, <1>3, <1>4, <1>5, <1>6, <1>7

\* What is settled of the text from a position on is a text.
LEMMA SettledType ==
  ASSUME NEW t \in Seq(Characters), NEW i \in 1 .. Len(t) + 1
  PROVE  Settled(After(t, i)) \in Seq(Characters)
<1>1. "tick" \in Characters
  BY DEF Characters
<1> QED
  BY <1>1, SettledMore

\* What is left from a position on is a text.
LEMMA LeftFromType ==
  ASSUME NEW t \in Seq(Characters), NEW i \in 1 .. Len(t) + 1, NEW f,
         \A j \in i + 1 .. Len(t) + 1 : f[j] \in Seq(Characters)
  PROVE  LeftFrom(t, f, i) \in Seq(Characters)
<1>1. CASE Fence(t, i) = 0
  BY <1>1, SettledType DEF LeftFrom
<1>2. CASE Fence(t, i) # 0
  <2>1. PICK a \in i .. Len(t) : a = Fence(t, i)
    BY <1>2, SpaceAfterIs
  <2>2. PICK s \in Seq(Characters) : s = SubSeq(t, i, Fence(t, i) - 1)
    <3>1. i \in Nat \ {0} /\ a - 1 \in Int /\ a - 1 <= Len(t)
      BY <2>1
    <3> QED
      BY <2>1, <3>1, PartOf
  <2>3. CASE SpaceAfter(t, i) = 0
    BY <1>2, <2>2, <2>3 DEF LeftFrom
  <2>4. CASE SpaceAfter(t, i) # 0
    <3>1. SpaceAfter(t, i) + 1 \in i + 1 .. Len(t) + 1
      <4>1. SpaceAfter(t, i) \in i + 1 .. Len(t)
        BY <1>2, <2>4, SpaceAfterIs
      <4> QED
        BY <4>1
    <3>2. PICK r \in Seq(Characters) : r = f[SpaceAfter(t, i) + 1]
      BY <3>1
    <3>3. s \o r \in Seq(Characters)
      BY ConcatProperties
    <3> QED
      BY <1>2, <2>2, <2>4, <3>2, <3>3 DEF LeftFrom
  <2> QED
    BY <2>3, <2>4
<1> QED
  BY <1>1, <1>2

\* What is left from a position on depends on later positions alone.
LEMMA LeftFromSame ==
  ASSUME NEW t \in Seq(Characters), NEW i \in 1 .. Len(t) + 1, NEW f, NEW g,
         \A j \in i + 1 .. Len(t) + 1 : f[j] = g[j]
  PROVE  LeftFrom(t, f, i) = LeftFrom(t, g, i)
<1>1. CASE Fence(t, i) = 0 \/ SpaceAfter(t, i) = 0
  BY <1>1 DEF LeftFrom
<1>2. CASE Fence(t, i) # 0 /\ SpaceAfter(t, i) # 0
  <2>1. SpaceAfter(t, i) \in i + 1 .. Len(t)
    BY <1>2, SpaceAfterIs
  <2>2. SpaceAfter(t, i) + 1 \in i + 1 .. Len(t) + 1
    BY <2>1
  <2> QED
    BY <1>2, <2>2 DEF LeftFrom
<1> QED
  BY <1>1, <1>2

\* The definition says so, whatever function it is applied to.
LEMMA LeftByIs ==
  ASSUME NEW t, NEW h
  PROVE  LeftBy(t, h) = [i \in 1 .. Len(t) + 1 |-> LeftFrom(t, h, i)]
<1> DEFINE
  space(i) == FirstFrom(t, Fence(t, i) + CODE_FENCE_BACKTICK_COUNT, LAMBDA j : isspace(t[j]))
  value(i) == CASE Fence(t, i) = 0 -> Settled(After(t, i))
                [] Fence(t, i) # 0 /\ space(i) = 0 -> SubSeq(t, i, Fence(t, i) - 1)
                [] OTHER -> SubSeq(t, i, Fence(t, i) - 1) \o h[space(i) + 1]
<1>1. LeftBy(t, h) = [i \in 1 .. Len(t) + 1 |-> value(i)]
  BY DEF LeftBy
<1>2. ASSUME NEW i PROVE value(i) = LeftFrom(t, h, i)
  <2>1. space(i) = SpaceAfter(t, i)
    BY FirstsAre DEF SpaceAfter
  <2> HIDE DEF space
  <2>2. Fence(t, i) = 0 => value(i) = LeftFrom(t, h, i)
    BY DEF LeftFrom
  <2>3. Fence(t, i) # 0 /\ space(i) = 0 => value(i) = LeftFrom(t, h, i)
    BY <2>1 DEF LeftFrom
  <2>4. Fence(t, i) # 0 /\ space(i) # 0 => value(i) = LeftFrom(t, h, i)
    BY <2>1 DEF LeftFrom
  <2> QED
    BY <2>2, <2>3, <2>4
<1> HIDE DEF value
<1> QED
  BY <1>1, <1>2

\* OutsideFences is what is left from the beginning on.
LEMMA LeftIs ==
  ASSUME NEW t \in Seq(Characters)
  PROVE  /\ OutsideFences(t) = Left(t)[1]
         /\ \A i \in 1 .. Len(t) + 1 : /\ Left(t)[i] = LeftFrom(t, Left(t), i)
                                       /\ Left(t)[i] \in Seq(Characters)
<1>1. PICK n \in Nat : n = Len(t) + 1
  OBVIOUS
<1> DEFINE T == {m \in Nat : m <= n =>
                   \E f \in [1 .. n -> Seq(Characters)] :
                     \A i \in 1 .. n : i > n - m => f[i] = LeftFrom(t, f, i)}
<1>2. 0 \in T
  <2>1. [i \in 1 .. n |-> <<>>] \in [1 .. n -> Seq(Characters)]
    BY EmptySeq
  <2>2. \A i \in 1 .. n : ~(i > n - 0)
    OBVIOUS
  <2> QED
    BY <2>1, <2>2
<1>3. ASSUME NEW m \in T PROVE m + 1 \in T
  <2>1. SUFFICES ASSUME m + 1 <= n
                 PROVE  \E f \in [1 .. n -> Seq(Characters)] :
                          \A i \in 1 .. n : i > n - (m + 1) => f[i] = LeftFrom(t, f, i)
    OBVIOUS
  <2>2. PICK f \in [1 .. n -> Seq(Characters)] :
          \A i \in 1 .. n : i > n - m => f[i] = LeftFrom(t, f, i)
    BY <2>1
  <2>3. PICK k \in 1 .. n : k = n - m
    BY <2>1
  <2>4. PICK y \in Seq(Characters) : y = LeftFrom(t, f, k)
    <3>1. \A j \in k + 1 .. Len(t) + 1 : f[j] \in Seq(Characters)
      BY <1>1
    <3> QED
      BY <1>1, <3>1, LeftFromType
  <2>5. PICK g : g = [f EXCEPT ![k] = y]
    OBVIOUS
  <2>6. g \in [1 .. n -> Seq(Characters)] /\ g[k] = y
    BY <2>5
  <2>7. \A j \in 1 .. n : j # k => g[j] = f[j]
    BY <2>5
  <2>8. ASSUME NEW i \in 1 .. n, i > n - (m + 1) PROVE g[i] = LeftFrom(t, g, i)
    <3>1. i >= k /\ i \in 1 .. Len(t) + 1
      BY <1>1, <2>3, <2>8
    <3>2. \A j \in i + 1 .. Len(t) + 1 : f[j] = g[j]
      BY <1>1, <2>7, <3>1
    <3>3. LeftFrom(t, f, i) = LeftFrom(t, g, i)
      BY <3>1, <3>2, LeftFromSame
    <3>4. CASE i = k
      BY <2>4, <2>6, <3>3, <3>4
    <3>5. CASE i # k
      BY <2>2, <2>3, <2>7, <3>1, <3>3, <3>5
    <3> QED
      BY <3>4, <3>5
  <2> QED
    BY <2>6, <2>8
<1>4. T = Nat
  <2> HIDE DEF T
  <2>1. T \in SUBSET Nat
    BY DEF T
  <2> QED
    BY <1>2, <1>3, <2>1, SetInduction
<1>5. PICK f \in [1 .. n -> Seq(Characters)] : \A i \in 1 .. n : f[i] = LeftFrom(t, f, i)
  <2>1. n \in T
    BY <1>4
  <2>2. \E f \in [1 .. n -> Seq(Characters)] :
          \A i \in 1 .. n : i > n - n => f[i] = LeftFrom(t, f, i)
    BY <2>1
  <2>3. \A i \in 1 .. n : i > n - n
    OBVIOUS
  <2> QED
    BY <2>2, <2>3
<1>6. f = LeftBy(t, f)
  <2>1. LeftBy(t, f) = [i \in 1 .. n |-> LeftFrom(t, f, i)]
    BY <1>1, LeftByIs
  <2> QED
    BY <1>5, <2>1
<1>7. PICK g : g = Left(t)
  OBVIOUS
<1>8. g = LeftBy(t, g)
  BY <1>6, <1>7 DEF Left
<1>9. \A i \in 1 .. n : g[i] = LeftFrom(t, g, i)
  <2>1. LeftBy(t, g) = [i \in 1 .. n |-> LeftFrom(t, g, i)]
    BY <1>1, LeftByIs
  <2> QED
    BY <1>8, <2>1
<1>10. \A i \in 1 .. n : g[i] \in Seq(Characters)
  <2> DEFINE S == {i \in 1 .. n : g[i] \in Seq(Characters)}
  <2>1. ASSUME NEW i \in 1 .. n, \A j \in i + 1 .. n : j \in S PROVE i \in S
    <3>1. \A j \in i + 1 .. Len(t) + 1 : g[j] \in Seq(Characters)
      BY <1>1, <2>1
    <3>2. LeftFrom(t, g, i) \in Seq(Characters)
      BY <1>1, <3>1, LeftFromType
    <3> QED
      BY <1>9, <3>2
  <2>2. \A i \in 1 .. n : i \in S
    <3> HIDE DEF S
    <3> QED
      BY <2>1, DownInduction
  <2> QED
    BY <2>2
<1>11. OutsideFences(t) = Left(t)[1]
  BY DEF OutsideFences, Left, LeftBy
<1> QED
  BY <1>1, <1>7, <1>9, <1>10, <1>11

\* A fence and the space after it stay where they are when more text follows.
Stays(t, i, more) ==
  Left(t \o more)[i] = SubSeq(t, i, Fence(t, i) - 1) \o Left(t \o more)[SpaceAfter(t, i) + 1]

LEMMA FenceStays ==
  ASSUME NEW u \in Seq(Characters), NEW i \in 1 .. Len(u) + 1,
         Fence(u, i) # 0, SpaceAfter(u, i) # 0, NEW w \in Seq(Characters)
  PROVE  Stays(u, i, w)
<1>1. PICK a \in Nat \ {0} : a = Fence(u, i) /\ a <= Len(u)
  <2>1. Fence(u, i) \in i .. Len(u)
    BY SpaceAfterIs
  <2> QED
    BY <2>1
<1>2. PICK m : m = SpaceAfter(u, i)
  OBVIOUS
<1>3. PICK s : s = SubSeq(u, i, a - 1)
  OBVIOUS
<1> DEFINE T == {x \in Seq(Characters) :
                   /\ u \o x \in Seq(Characters) /\ Len(u \o x) >= Len(u)
                   /\ Fence(u \o x, i) = a /\ SpaceAfter(u \o x, i) = m
                   /\ SubSeq(u \o x, i, a - 1) = s}
<1>4. <<>> \in T
  <2>1. PICK none \in Seq(Characters) : none = <<>> /\ u \o none = u
    BY EmptySeq, ConcatEmptySeq
  <2>2. none \in T
    BY <1>1, <1>2, <1>3, <2>1
  <2> QED
    BY <2>1, <2>2
<1>5. ASSUME NEW x \in T, NEW c \in Characters PROVE Append(x, c) \in T
  <2>1. PICK v \in Seq(Characters) : v = u \o x /\ Len(v) >= Len(u)
    OBVIOUS
  <2>2. Fence(v, i) = a /\ SpaceAfter(v, i) = m /\ SubSeq(v, i, a - 1) = s
    BY <2>1
  <2>3. PICK y \in Seq(Characters) : y = Append(v, c) /\ Len(y) = Len(v) + 1
    BY AppendProperties
  <2>4. u \o Append(x, c) = y
    BY <2>1, <2>3, ConcatMore
  <2>5. i \in 1 .. Len(v) + 1
    BY <2>1
  <2>6. Fence(y, i) = a
    BY <1>1, <2>2, <2>3, <2>5, FenceMore
  <2>7. SpaceAfter(y, i) = m
    <3>1. a + CODE_FENCE_BACKTICK_COUNT \in 1 .. Len(v) + 1
      <4>1. Fence(v, i) # 0
        BY <1>1, <2>2
      <4>2. Fence(v, i) + CODE_FENCE_BACKTICK_COUNT \in i + 2 .. Len(v) + 1
        BY <2>5, <4>1, SpaceAfterIs
      <4> QED
        BY <2>2, <4>2
    <3>2. FirstOf(v, a + CODE_FENCE_BACKTICK_COUNT, spaces) = m
      BY <2>2 DEF SpaceAfter
    <3>3. m # 0
      BY <1>2
    <3>4. FirstOf(y, a + CODE_FENCE_BACKTICK_COUNT, spaces) = m
      BY <2>3, <3>1, <3>2, <3>3, FirstOfMore
    <3> QED
      BY <2>6, <3>4 DEF SpaceAfter
  <2>8. SubSeq(y, i, a - 1) = s
    <3>1. a - 1 \in Nat /\ a - 1 <= Len(v)
      BY <1>1, <2>1
    <3> QED
      BY <2>2, <2>3, <2>5, <3>1, PartMore
  <2>9. Append(x, c) \in Seq(Characters) /\ Len(y) >= Len(u)
    BY <2>1, <2>3, AppendProperties
  <2> QED
    BY <2>4, <2>6, <2>7, <2>8, <2>9
<1>6. w \in T
  <2> HIDE DEF T
  <2>1. T \in SUBSET Seq(Characters)
    BY DEF T
  <2>2. T = Seq(Characters)
    BY <1>4, <1>5, <2>1, GrowInduction
  <2> QED
    BY <2>2
<1>7. PICK v \in Seq(Characters) : v = u \o w /\ Len(v) >= Len(u)
  BY <1>6
<1>8. i \in 1 .. Len(v) + 1
  BY <1>7
<1>9. Fence(v, i) = a /\ SpaceAfter(v, i) = m /\ SubSeq(v, i, a - 1) = s /\ a # 0 /\ m # 0
  BY <1>1, <1>2, <1>6, <1>7
<1>10. Left(v)[i] = LeftFrom(v, Left(v), i)
  BY <1>8, LeftIs
<1>11. LeftFrom(v, Left(v), i) = s \o Left(v)[m + 1]
  BY <1>9 DEF LeftFrom
<1> QED
  BY <1>1, <1>2, <1>3, <1>7, <1>10, <1>11 DEF Stays

(***************************************************************************)
(* Where the processor of a text that does not begin with a fence stands:  *)
(* what it has left so far is `before' and what is left from i on, however *)
(* the text goes on.                                                       *)
(***************************************************************************)
Remains(t, i, before) ==
  \A w \in Seq(Characters) : OutsideFences(t \o w) = before \o Left(t \o w)[i]

OutsideState(t, i, state, count) ==
  \/ /\ Fence(t, i) = 0 /\ count = Ticks(t, i)
     /\ state = IF count = 0 THEN "normal" ELSE "in_backticks"
  \/ /\ Fence(t, i) # 0 /\ SpaceAfter(t, i) = 0 /\ count = 0
     /\ state = "skip_content"

StandsOutside(t, state, count) ==
  \E i \in 1 .. Len(t) + 1 : \E before \in Seq(Characters) :
    Remains(t, i, before) /\ OutsideState(t, i, state, count)

\* It goes on from the same position, when more text follows.
LEMMA RemainsMore ==
  ASSUME NEW t \in Seq(Characters), NEW c \in Characters, NEW i, NEW before, Remains(t, i, before)
  PROVE  Remains(Append(t, c), i, before)
<1>1. ASSUME NEW w \in Seq(Characters)
      PROVE  OutsideFences(Append(t, c) \o w) = before \o Left(Append(t, c) \o w)[i]
  <2>1. PICK y \in Seq(Characters) : y = <<c>> \o w /\ Append(t, c) \o w = t \o y
    <3>1. PICK one \in Seq(Characters) : one = <<c>> /\ Append(t, c) = t \o one
      <4>1. PICK one \in Seq(Characters) : one = <<c>>
        <5>1. <<c>> \in Seq(Characters)
          OBVIOUS
        <5> QED
          BY <5>1
      <4>2. Append(t, c) = t \o one
        BY <4>1, AppendedLast
      <4> QED
        BY <4>1, <4>2
    <3>2. one \o w \in Seq(Characters) /\ (t \o one) \o w = t \o (one \o w)
      BY ConcatProperties, ConcatAssociative
    <3> QED
      BY <3>1, <3>2
  <2> QED
    BY <2>1 DEF Remains
<1> QED
  BY <1>1 DEF Remains

\* Three texts, one after the other.
Joined(a, b, c) == (a \o b) \o c = a \o (b \o c)

LEMMA AllJoined == \A a, b, c \in Seq(Characters) : Joined(a, b, c)
BY ConcatAssociative DEF Joined

\* What a processor leaves of a character, whatever it left before.
Leaves(proc, state, count, c, after, counted, d) ==
  \A o \in Seq(Characters) :
    step(proc, at(state, count, o), c) = at(after, counted, o \o d)

\* The last backtick of a fence: what was settled before it is what comes before it.
LEMMA FenceCompletes ==
  ASSUME NEW t \in Seq(Characters), NEW i \in 1 .. Len(t) + 1,
         Fence(t, i) = 0, Ticks(t, i) + 1 = CODE_FENCE_BACKTICK_COUNT
  PROVE  /\ Fence(Append(t, "tick"), i) # 0
         /\ Fence(Append(t, "tick"), i) + CODE_FENCE_BACKTICK_COUNT = Len(t) + 2
         /\ SubSeq(Append(t, "tick"), i, Fence(Append(t, "tick"), i) - 1) = Settled(After(t, i))
<1>1. PICK n \in Nat : n = Len(t) /\ i \in Nat \ {0} /\ i <= n + 1
  OBVIOUS
<1>2. "tick" \in Characters
  BY DEF Characters
<1>3. PICK k \in Nat : k = Ticks(t, i) /\ k \in 0 .. n + 1 - i
  BY <1>1, TicksIs DEF AreTicks
<1>4. CODE_FENCE_BACKTICK_COUNT = k + 1 /\ k # 0
  BY <1>3, FenceAssumption
<1>5. PICK u : u = Append(t, "tick")
  OBVIOUS
<1>6. Fence(u, i) = n + 2 - CODE_FENCE_BACKTICK_COUNT
  BY <1>1, <1>2, <1>5, FenceMore
<1>7. Fence(u, i) = n + 1 - k /\ n + 1 - k # 0 /\ n + 1 - k + CODE_FENCE_BACKTICK_COUNT = n + 2
  BY <1>1, <1>3, <1>4, <1>6
<1>8. (n + 1 - k) - 1 = n - k /\ n - k \in Nat /\ n - k <= n
  BY <1>1, <1>3
<1>9. SubSeq(u, i, n - k) = SubSeq(t, i, n - k)
  BY <1>1, <1>2, <1>5, <1>8, PartMore
<1>10. Settled(After(t, i)) = SubSeq(t, i, n - k)
  BY <1>1, <1>3, SettledIs
<1> QED
  BY <1>1, <1>5, <1>7, <1>8, <1>9, <1>10

\* A backtick or another character where the next fence may begin.
LEMMA OutsideNormal ==
  ASSUME NEW t \in Seq(Characters), NEW c \in Characters, NEW i \in 1 .. Len(t) + 1,
         Fence(t, i) = 0
  PROVE  \E d \in Seq(Characters), after \in States("outside"), counted \in Nat :
           /\ Left(Append(t, c))[i] = Left(t)[i] \o d
           /\ OutsideState(Append(t, c), i, after, counted)
           /\ Leaves("outside", IF Ticks(t, i) = 0 THEN "normal" ELSE "in_backticks",
                     Ticks(t, i), c, after, counted, d)
<1>1. PICK n \in Nat : n = Len(t) /\ i \in Nat \ {0} /\ i <= n + 1
  OBVIOUS
<1>2. PICK u \in Seq(Characters) : u = Append(t, c) /\ Len(u) = n + 1
  BY <1>1, AppendProperties
<1>3. i \in 1 .. Len(u) + 1
  BY <1>1, <1>2
<1>4. PICK size \in Nat \ {0, 1} : size = CODE_FENCE_BACKTICK_COUNT
  BY FenceAssumption
<1>5. PICK k \in Nat : k = Ticks(t, i) /\ AreTicks(t, i, k)
  BY TicksIs
<1>6. k < size
  BY <1>4, <1>5, FenceMore
<1>7. Ticks(u, i) = IF c = "tick" THEN k + 1 ELSE 0
  BY <1>2, <1>5, TicksMore
<1>8. Fence(u, i) = IF c = "tick" /\ k + 1 = size THEN n + 2 - size ELSE 0
  BY <1>1, <1>2, <1>4, <1>5, FenceMore
<1>9. PICK s \in Seq(Characters) : s = Settled(After(t, i)) /\ s = Left(t)[i]
  <2>1. Left(t)[i] = LeftFrom(t, Left(t), i)
    BY LeftIs
  <2> QED
    BY <2>1, SettledType DEF LeftFrom
<1>10. Left(u)[i] = LeftFrom(u, Left(u), i)
  BY <1>3, LeftIs
<1>11. PICK b \in Seq(Characters) : /\ b = Backticks(k) /\ Len(b) = k
                                    /\ Append(b, c) \in Seq(Characters)
  BY BackticksType, AppendProperties
<1>12. PICK none \in Seq(Characters) : none = <<>>
  BY EmptySeq
<1>13. \A o \in Seq(Characters) : o \o none = o
  BY <1>12, ConcatEmptySeq
<1>14. \A o \in Seq(Characters) : o \o Append(b, c) = Append(o \o b, c)
  BY <1>11, ConcatMore
<1>15. PICK state : state = IF k = 0 THEN "normal" ELSE "in_backticks"
  OBVIOUS
<1>16. \A o \in Seq(Characters) :
         /\ step("outside", at("normal", k, o), c) =
              IF c = "tick" THEN at("in_backticks", 1, o) ELSE at("normal", k, Append(o, c))
         /\ step("outside", at("in_backticks", k, o), c) =
              IF c # "tick" THEN at("normal", 0, Append(o \o b, c))
              ELSE IF k + 1 = size THEN at("skip_content", 0, o)
              ELSE at("in_backticks", k + 1, o)
  BY <1>4, <1>11, OutsideSteps
<1>17. States("outside") = {"normal", "in_backticks", "skip_content"}
  BY DEF States
\* the backticks that were waiting, and the character
<1>18. CASE c # "tick"
  <2>1. Left(u)[i] = s \o Append(b, c)
    <3>1. Left(u)[i] = Settled(After(u, i))
      BY <1>8, <1>10, <1>18 DEF LeftFrom
    <3>2. Settled(After(u, i)) = Append(s \o b, c)
      <4>1. Settled(After(Append(t, c), i))
              = Append(Settled(After(t, i)) \o Backticks(Ticks(t, i)), c)
        BY <1>18, SettledMore
      <4> QED
        BY <1>2, <1>5, <1>9, <1>11, <4>1
    <3> QED
      BY <1>14, <3>1, <3>2
  <2>2. OutsideState(u, i, "normal", 0)
    BY <1>7, <1>8, <1>18 DEF OutsideState
  <2>3. ASSUME NEW o \in Seq(Characters)
        PROVE  step("outside", at(state, k, o), c) = at("normal", 0, o \o Append(b, c))
    <3>1. CASE k = 0
      <4>1. b = <<>>
        BY <1>11, <3>1, EmptySeq
      <4>2. o \o b = o
        BY <4>1, ConcatEmptySeq
      <4> QED
        BY <1>14, <1>15, <1>16, <1>18, <3>1, <4>2
    <3>2. CASE k # 0
      BY <1>14, <1>15, <1>16, <1>18, <3>2
    <3> QED
      BY <3>1, <3>2
  <2>4. Leaves("outside", state, k, c, "normal", 0, Append(b, c))
    BY <2>3 DEF Leaves
  <2>5. 0 \in Nat /\ "normal" \in States("outside")
    BY <1>17
  <2> QED
    BY <1>2, <1>5, <1>9, <1>11, <1>15, <2>1, <2>2, <2>4, <2>5
\* the last backtick of a fence
<1>19. CASE c = "tick" /\ k + 1 = size
  <2>1. /\ Fence(u, i) # 0 /\ Fence(u, i) + size = n + 2 /\ k # 0
        /\ SubSeq(u, i, Fence(u, i) - 1) = s
    <3>1. Ticks(t, i) + 1 = CODE_FENCE_BACKTICK_COUNT /\ k # 0
      BY <1>4, <1>5, <1>19
    <3> QED
      BY <1>1, <1>2, <1>4, <1>9, <1>19, <3>1, FenceCompletes
  <2>2. SpaceAfter(u, i) = 0
    <3>1. n + 2 \in Nat \ {0} /\ \A j \in n + 2 .. Len(u) : FALSE
      BY <1>2
    <3>2. FirstOf(u, n + 2, spaces) = 0
      BY <3>1, FirstOfIs
    <3> QED
      BY <1>4, <2>1, <3>2 DEF SpaceAfter
  <2>3. Left(u)[i] = s \o none
    <3>1. Left(u)[i] = SubSeq(u, i, Fence(u, i) - 1)
      BY <1>10, <2>1, <2>2 DEF LeftFrom
    <3> QED
      BY <1>13, <2>1, <3>1
  <2>4. OutsideState(u, i, "skip_content", 0)
    BY <2>1, <2>2 DEF OutsideState
  <2>5. Leaves("outside", state, k, c, "skip_content", 0, none)
    BY <1>13, <1>15, <1>16, <1>19, <2>1 DEF Leaves
  <2>6. 0 \in Nat /\ "skip_content" \in States("outside")
    BY <1>17
  <2> QED
    BY <1>2, <1>5, <1>9, <1>15, <2>3, <2>4, <2>5, <2>6
\* a backtick more
<1>20. CASE c = "tick" /\ k + 1 # size
  <2>1. Left(u)[i] = s \o none
    <3>1. Left(u)[i] = Settled(After(u, i))
      BY <1>8, <1>10, <1>20 DEF LeftFrom
    <3>2. Settled(After(u, i)) = s
      BY <1>2, <1>9, <1>20, SettledMore
    <3> QED
      BY <1>13, <3>1, <3>2
  <2>2. OutsideState(u, i, "in_backticks", k + 1)
    BY <1>7, <1>8, <1>20 DEF OutsideState
  <2>3. ASSUME NEW o \in Seq(Characters)
        PROVE  step("outside", at(state, k, o), c) = at("in_backticks", k + 1, o \o none)
    <3>1. k = 0 => k + 1 = 1
      OBVIOUS
    <3>2. CASE k = 0
      BY <1>13, <1>15, <1>16, <1>20, <3>1, <3>2
    <3>3. CASE k # 0
      BY <1>13, <1>15, <1>16, <1>20, <3>3
    <3> QED
      BY <3>2, <3>3
  <2>4. Leaves("outside", state, k, c, "in_backticks", k + 1, none)
    BY <2>3 DEF Leaves
  <2>5. k + 1 \in Nat /\ "in_backticks" \in States("outside")
    BY <1>17
  <2> QED
    BY <1>2, <1>5, <1>9, <1>15, <2>1, <2>2, <2>4, <2>5
<1> QED
  BY <1>18, <1>19, <1>20

\* A character after a fence.
LEMMA OutsideSkips ==
  ASSUME NEW t \in Seq(Characters), NEW c \in Characters, NEW i \in 1 .. Len(t) + 1,
         NEW before \in Seq(Characters), Remains(t, i, before),
         Fence(t, i) # 0, SpaceAfter(t, i) = 0
  PROVE  \E after \in States("outside") :
           /\ OutsideFences(Append(t, c)) = before \o Left(t)[i]
           /\ StandsOutside(Append(t, c), after, 0)
           /\ Leaves("outside", "skip_content", 0, c, after, 0, <<>>)
<1>1. PICK n \in Nat : n = Len(t) /\ i \in Nat \ {0} /\ i <= n + 1
  OBVIOUS
<1>2. PICK u \in Seq(Characters) : u = Append(t, c) /\ Len(u) = n + 1
  BY <1>1, AppendProperties
<1>3. i \in 1 .. Len(u) + 1
  BY <1>1, <1>2
<1>4. PICK a \in i .. n : a = Fence(t, i)
  BY <1>1, SpaceAfterIs
<1>5. a # 0 /\ a - 1 \in Nat /\ a - 1 <= n
  BY <1>1, <1>4
<1>6. Fence(u, i) = a
  <2>1. Fence(Append(t, c), i) = Fence(t, i)
    BY FenceMore
  <2> QED
    BY <1>2, <1>4, <2>1
<1>7. SpaceAfter(u, i) = IF c \in spaces THEN n + 1 ELSE 0
  <2>1. PICK k : k = a + CODE_FENCE_BACKTICK_COUNT
    OBVIOUS
  <2>2. k \in 1 .. Len(t) + 1
    <3>1. Fence(t, i) + CODE_FENCE_BACKTICK_COUNT \in i + 2 .. Len(t) + 1
      BY SpaceAfterIs
    <3> QED
      BY <1>1, <1>4, <2>1, <3>1
  <2>3. FirstOf(t, k, spaces) = 0
    BY <1>4, <2>1 DEF SpaceAfter
  <2>4. FirstOf(u, k, spaces) = IF c \in spaces THEN n + 1 ELSE 0
    <3>1. FirstOf(Append(t, c), k, spaces) = IF c \in spaces THEN Len(t) + 1 ELSE 0
      BY <2>2, <2>3, FirstOfMore
    <3> QED
      BY <1>1, <1>2, <3>1
  <2> QED
    BY <1>6, <2>1, <2>4 DEF SpaceAfter
<1>8. PICK s \in Seq(Characters) : /\ s = SubSeq(t, i, a - 1) /\ s = SubSeq(u, i, a - 1)
                                   /\ s = Left(t)[i]
  <2>1. Left(t)[i] \in Seq(Characters) /\ Left(t)[i] = LeftFrom(t, Left(t), i)
    BY LeftIs
  <2>2. LeftFrom(t, Left(t), i) = SubSeq(t, i, a - 1)
    BY <1>4 DEF LeftFrom
  <2>3. SubSeq(u, i, a - 1) = SubSeq(t, i, a - 1)
    BY <1>1, <1>2, <1>5, PartMore
  <2> QED
    BY <2>1, <2>2, <2>3
<1>9. Remains(u, i, before)
  BY <1>2, RemainsMore
<1>10. PICK none \in Seq(Characters) : none = <<>> /\ u \o none = u
  BY EmptySeq, ConcatEmptySeq
<1>11. OutsideFences(u) = before \o Left(u)[i]
  BY <1>9, <1>10 DEF Remains
<1>12. \A o \in Seq(Characters) : o \o none = o
  BY <1>10, ConcatEmptySeq
<1>13. \A o \in Seq(Characters) :
         step("outside", at("skip_content", 0, o), c) =
           IF isspace(c) THEN at("normal", 0, o) ELSE at("skip_content", 0, o)
  BY OutsideSteps
<1>14. isspace(c) <=> c \in spaces
  BY DEF isspace, spaces
<1>15. States("outside") = {"normal", "in_backticks", "skip_content"}
  BY DEF States
<1>16. CASE c \in spaces
  <2>1. PICK k \in Nat \ {0} : k = n + 1 /\ SpaceAfter(u, i) = k
    BY <1>7, <1>16
  <2>2. PICK b \in Seq(Characters) : b = before \o s
    BY ConcatProperties
  <2>3. k + 1 \in 1 .. Len(u) + 1 /\ k + 1 = Len(u) + 1
    BY <1>2, <2>1
  <2>4. Remains(u, k + 1, b)
    <3>1. ASSUME NEW w \in Seq(Characters)
          PROVE  OutsideFences(u \o w) = b \o Left(u \o w)[k + 1]
      <4>1. Fence(u, i) # 0 /\ SpaceAfter(u, i) # 0
        BY <1>5, <1>6, <2>1
      <4>2. Stays(u, i, w)
        BY <1>3, <4>1, FenceStays
      <4>3. Left(u \o w)[i] = s \o Left(u \o w)[k + 1]
        BY <1>6, <1>8, <2>1, <4>2 DEF Stays
      <4>4. PICK r \in Seq(Characters) : r = Left(u \o w)[k + 1]
        <5>1. Len(u \o w) = Len(u) + Len(w) /\ u \o w \in Seq(Characters)
          BY ConcatProperties
        <5>2. k + 1 \in 1 .. Len(u \o w) + 1
          BY <2>3, <5>1
        <5> QED
          BY <5>1, <5>2, LeftIs
      <4>5. OutsideFences(u \o w) = before \o (s \o r)
        <5>1. OutsideFences(u \o w) = before \o Left(u \o w)[i]
          BY <1>9 DEF Remains
        <5>2. Left(u \o w)[i] = s \o r
          BY <4>3, <4>4
        <5> QED
          BY <5>1, <5>2
      <4>6. (before \o s) \o r = before \o (s \o r)
        <5>1. Joined(before, s, r)
          BY AllJoined
        <5> QED
          BY <5>1 DEF Joined
      <4> QED
        BY <2>2, <4>4, <4>5, <4>6
    <3> QED
      BY <3>1 DEF Remains
  <2>5. Fence(u, k + 1) = 0 /\ Ticks(u, k + 1) = 0
    BY <2>3, FenceBeyond, TicksBeyond
  <2>6. StandsOutside(u, "normal", 0)
    <3>1. OutsideState(u, k + 1, "normal", 0)
      BY <2>5 DEF OutsideState
    <3> QED
      BY <2>3, <2>4, <3>1 DEF StandsOutside
  <2>7. OutsideFences(u) = before \o s
    <3>1. OutsideFences(u) = b \o Left(u)[k + 1]
      BY <1>10, <2>4 DEF Remains
    <3>2. Left(u)[k + 1] = LeftFrom(u, Left(u), k + 1)
      BY <2>3, LeftIs
    <3>3. LeftFrom(u, Left(u), k + 1) = none
      <4>1. Settled(After(u, k + 1)) = none
        BY <1>10, <2>3, SettledBeyond
      <4> QED
        BY <2>5, <4>1 DEF LeftFrom
    <3> QED
      BY <1>12, <2>2, <3>1, <3>2, <3>3
  <2>8. Leaves("outside", "skip_content", 0, c, "normal", 0, none)
    BY <1>12, <1>13, <1>14, <1>16 DEF Leaves
  <2> QED
    BY <1>2, <1>8, <1>10, <1>15, <2>6, <2>7, <2>8
<1>17. CASE c \notin spaces
  <2>1. SpaceAfter(u, i) = 0
    BY <1>7, <1>17
  <2>2. OutsideState(u, i, "skip_content", 0)
    BY <1>5, <1>6, <2>1 DEF OutsideState
  <2>3. StandsOutside(u, "skip_content", 0)
    BY <1>3, <1>9, <2>2 DEF StandsOutside
  <2>4. OutsideFences(u) = before \o s
    <3>1. Left(u)[i] = LeftFrom(u, Left(u), i)
      BY <1>3, LeftIs
    <3>2. LeftFrom(u, Left(u), i) = s
      BY <1>5, <1>6, <1>8, <2>1 DEF LeftFrom
    <3> QED
      BY <1>11, <3>1, <3>2
  <2>5. Leaves("outside", "skip_content", 0, c, "skip_content", 0, none)
    BY <1>12, <1>13, <1>14, <1>17 DEF Leaves
  <2> QED
    BY <1>2, <1>8, <1>10, <1>15, <2>3, <2>4, <2>5
<1> QED
  BY <1>16, <1>17

\* A character more of a text that does not begin with a fence.
LEMMA OutsideMore ==
  ASSUME NEW t \in Seq(Characters), NEW c \in Characters,
         NEW state, NEW count, StandsOutside(t, state, count)
  PROVE  /\ OutsideFences(t) \in Seq(Characters)
         /\ \E d \in Seq(Characters), after \in States("outside"), counted \in Nat :
              /\ OutsideFences(Append(t, c)) = OutsideFences(t) \o d
              /\ StandsOutside(Append(t, c), after, counted)
              /\ Leaves("outside", state, count, c, after, counted, d)
<1>1. PICK i \in 1 .. Len(t) + 1, before \in Seq(Characters) :
        Remains(t, i, before) /\ OutsideState(t, i, state, count)
  BY DEF StandsOutside
<1>2. PICK u \in Seq(Characters) : u = Append(t, c) /\ Len(u) = Len(t) + 1
  BY AppendProperties
<1>3. i \in 1 .. Len(u) + 1
  BY <1>2
<1>4. PICK s \in Seq(Characters) : s = Left(t)[i]
  BY LeftIs
<1>5. PICK none \in Seq(Characters) : none = <<>> /\ t \o none = t /\ u \o none = u
  BY EmptySeq, ConcatEmptySeq
<1>6. OutsideFences(t) = before \o s
  BY <1>1, <1>4, <1>5 DEF Remains
<1>7. PICK g \in Seq(Characters) : g = before \o s
  BY ConcatProperties
<1>8. CASE Fence(t, i) = 0
  <2>1. /\ count = Ticks(t, i)
        /\ state = IF Ticks(t, i) = 0 THEN "normal" ELSE "in_backticks"
    BY <1>1, <1>8 DEF OutsideState
  <2>2. PICK d \in Seq(Characters), after \in States("outside"), counted \in Nat :
           /\ Left(u)[i] = s \o d
           /\ OutsideState(u, i, after, counted)
           /\ Leaves("outside", state, count, c, after, counted, d)
    BY <1>2, <1>4, <1>8, <2>1, OutsideNormal
  <2>3. Remains(u, i, before)
    BY <1>1, <1>2, RemainsMore
  <2>4. OutsideFences(u) = before \o (s \o d)
    <3>1. OutsideFences(u) = before \o Left(u)[i]
      BY <1>5, <2>3 DEF Remains
    <3> QED
      BY <2>2, <3>1
  <2>5. (before \o s) \o d = before \o (s \o d)
    <3>1. Joined(before, s, d)
      BY AllJoined
    <3> QED
      BY <3>1 DEF Joined
  <2>6. StandsOutside(u, after, counted)
    BY <1>3, <2>2, <2>3 DEF StandsOutside
  <2> QED
    BY <1>2, <1>6, <1>7, <2>2, <2>4, <2>5, <2>6
<1>9. CASE Fence(t, i) # 0
  <2>1. SpaceAfter(t, i) = 0 /\ count = 0 /\ state = "skip_content"
    BY <1>1, <1>9 DEF OutsideState
  <2>2. PICK after \in States("outside") :
           /\ OutsideFences(u) = before \o s
           /\ StandsOutside(u, after, 0)
           /\ Leaves("outside", state, count, c, after, 0, none)
    BY <1>1, <1>2, <1>4, <1>5, <1>9, <2>1, OutsideSkips
  <2>3. g \o none = g /\ 0 \in Nat
    BY <1>5, ConcatEmptySeq
  <2> QED
    BY <1>2, <1>6, <1>7, <2>2, <2>3
<1> QED
  BY <1>8, <1>9

-----------------------------------------------------------------------------
(***************************************************************************)
(* The processor of a text that begins with a fence.                       *)
(***************************************************************************)
\* What its processor leaves: the text between the first fence's line and the second fence.
InFence(t) ==
  LET opening == Fence(t, 1)
      line == FirstFrom(t, opening + CODE_FENCE_BACKTICK_COUNT, LAMBDA j : t[j] = "LF")
      closing == Fence(t, line + 1)
  IN  CASE opening = 0 \/ line = 0 -> <<>>
        [] opening # 0 /\ line # 0 /\ closing = 0 -> Settled(After(t, line + 1))
        [] OTHER -> SubSeq(t, line + 1, closing - 1)

LineAfter(t) == FirstOf(t, Fence(t, 1) + CODE_FENCE_BACKTICK_COUNT, lineEnds)

StandsWithBacktick(t, state, count) ==
  \/ Fence(t, 1) = 0 /\ state = "search_start" /\ count = Ticks(t, 1)
  \/ Fence(t, 1) # 0 /\ LineAfter(t) = 0 /\ state = "skip_language" /\ count = 0
  \/ /\ Fence(t, 1) # 0 /\ LineAfter(t) # 0 /\ Fence(t, LineAfter(t) + 1) = 0
     /\ state = "in_code_block" /\ count = Ticks(t, LineAfter(t) + 1)
  \/ /\ Fence(t, 1) # 0 /\ LineAfter(t) # 0 /\ Fence(t, LineAfter(t) + 1) # 0
     /\ state = "done" /\ count = CODE_FENCE_BACKTICK_COUNT

\* The line of a fence is within the text.
LEMMA LineAfterIs ==
  ASSUME NEW t \in Seq(Characters), Fence(t, 1) # 0
  PROVE  /\ Fence(t, 1) + CODE_FENCE_BACKTICK_COUNT \in 1 .. Len(t) + 1
         /\ LineAfter(t) # 0 => LineAfter(t) \in 1 .. Len(t)
<1>1. PICK n \in Nat : n = Len(t) /\ 1 \in 1 .. Len(t) + 1
  OBVIOUS
<1>2. PICK k : k = Fence(t, 1) + CODE_FENCE_BACKTICK_COUNT
  OBVIOUS
<1>3. k \in 1 + 2 .. n + 1
  BY <1>1, <1>2, SpaceAfterIs
<1>4. FirstOf(t, k, lineEnds) # 0 => FirstOf(t, k, lineEnds) \in k .. n
  BY <1>1, <1>3, FirstOfIs
<1>5. LineAfter(t) = FirstOf(t, k, lineEnds)
  BY <1>2 DEF LineAfter
<1> QED
  BY <1>1, <1>2, <1>3, <1>4, <1>5

\* InFence, in the terms of these positions.
LEMMA InFenceIs ==
  ASSUME NEW t
  PROVE  /\ Fence(t, 1) = 0 \/ LineAfter(t) = 0 => InFence(t) = <<>>
         /\ Fence(t, 1) # 0 /\ LineAfter(t) # 0 /\ Fence(t, LineAfter(t) + 1) = 0
              => InFence(t) = Settled(After(t, LineAfter(t) + 1))
         /\ Fence(t, 1) # 0 /\ LineAfter(t) # 0 /\ Fence(t, LineAfter(t) + 1) # 0
              => InFence(t) = SubSeq(t, LineAfter(t) + 1, Fence(t, LineAfter(t) + 1) - 1)
<1> DEFINE opening == Fence(t, 1)
           line == FirstFrom(t, opening + CODE_FENCE_BACKTICK_COUNT, LAMBDA j : t[j] = "LF")
           closing == Fence(t, line + 1)
<1>1. InFence(t) = CASE opening = 0 \/ line = 0 -> <<>>
                     [] opening # 0 /\ line # 0 /\ closing = 0 -> Settled(After(t, line + 1))
                     [] OTHER -> SubSeq(t, line + 1, closing - 1)
  BY DEF InFence
<1>2. line = LineAfter(t)
  BY FirstsAre DEF LineAfter
<1> HIDE DEF line
<1>3. opening = 0 \/ line = 0 => InFence(t) = <<>>
  BY <1>1
<1>4. opening # 0 /\ line # 0 /\ closing = 0 => InFence(t) = Settled(After(t, line + 1))
  BY <1>1
<1>5. opening # 0 /\ line # 0 /\ closing # 0 => InFence(t) = SubSeq(t, line + 1, closing - 1)
  BY <1>1
<1> QED
  BY <1>2, <1>3, <1>4, <1>5

\* The fence and its line stay where they are.
LEMMA LineAfterMore ==
  ASSUME NEW t \in Seq(Characters), NEW c \in Characters, Fence(t, 1) # 0
  PROVE  /\ Fence(Append(t, c), 1) = Fence(t, 1)
         /\ LineAfter(Append(t, c)) =
              IF LineAfter(t) # 0 THEN LineAfter(t) ELSE IF c = "LF" THEN Len(t) + 1 ELSE 0
<1>1. 1 \in 1 .. Len(t) + 1
  OBVIOUS
<1>2. Fence(Append(t, c), 1) = Fence(t, 1)
  BY <1>1, FenceMore
<1>3. PICK k \in 1 .. Len(t) + 1 : k = Fence(t, 1) + CODE_FENCE_BACKTICK_COUNT
  BY LineAfterIs
<1>4. FirstOf(Append(t, c), k, lineEnds) =
        IF FirstOf(t, k, lineEnds) # 0 THEN FirstOf(t, k, lineEnds)
        ELSE IF c \in lineEnds THEN Len(t) + 1 ELSE 0
  BY FirstOfMore
<1>5. LineAfter(t) = FirstOf(t, k, lineEnds)
  BY <1>3 DEF LineAfter
<1>6. LineAfter(Append(t, c)) = FirstOf(Append(t, c), k, lineEnds)
  BY <1>2, <1>3 DEF LineAfter
<1>7. c \in lineEnds <=> c = "LF"
  BY DEF lineEnds
<1> QED
  BY <1>2, <1>4, <1>5, <1>6, <1>7

\* A character before the end of the first fence.
LEMMA InFenceSearches ==
  ASSUME NEW t \in Seq(Characters), NEW c \in Characters, Fence(t, 1) = 0
  PROVE  \E after \in States("with_backtick"), counted \in Nat :
           /\ InFence(Append(t, c)) = <<>> /\ StandsWithBacktick(Append(t, c), after, counted)
           /\ Leaves("with_backtick", "search_start", Ticks(t, 1), c, after, counted, <<>>)
<1>1. PICK n \in Nat : n = Len(t) /\ 1 \in 1 .. Len(t) + 1
  OBVIOUS
<1>2. PICK u \in Seq(Characters) : u = Append(t, c) /\ Len(u) = n + 1
  BY <1>1, AppendProperties
<1>3. PICK size \in Nat \ {0, 1} : size = CODE_FENCE_BACKTICK_COUNT
  BY FenceAssumption
<1>4. PICK k \in Nat : k = Ticks(t, 1)
  BY <1>1, TicksIs
<1>5. Ticks(u, 1) = IF c = "tick" THEN k + 1 ELSE 0
  BY <1>1, <1>2, <1>4, TicksMore
<1>6. Fence(u, 1) = IF c = "tick" /\ k + 1 = size THEN n + 2 - size ELSE 0
  BY <1>1, <1>2, <1>3, <1>4, FenceMore
<1>7. PICK none \in Seq(Characters) : none = <<>>
  BY EmptySeq
<1>8. \A o \in Seq(Characters) : o \o none = o
  BY <1>7, ConcatEmptySeq
<1>9. \A o \in Seq(Characters) :
        step("with_backtick", at("search_start", k, o), c) =
          IF c # "tick" THEN at("search_start", 0, o)
          ELSE IF k + 1 = size THEN at("skip_language", 0, o)
          ELSE at("search_start", k + 1, o)
  BY <1>3, WithBacktickSteps
<1>10. States("with_backtick") = {"search_start", "skip_language", "in_code_block", "done"}
  BY DEF States
<1>11. CASE c = "tick" /\ k + 1 = size
  <2>1. Fence(u, 1) # 0 /\ Fence(u, 1) + size = n + 2
    <3>1. Ticks(t, 1) + 1 = CODE_FENCE_BACKTICK_COUNT
      BY <1>3, <1>4, <1>11
    <3> QED
      BY <1>1, <1>2, <1>3, <1>11, <3>1, FenceCompletes
  <2>2. LineAfter(u) = 0
    <3>1. n + 2 \in Nat \ {0} /\ \A j \in n + 2 .. Len(u) : FALSE
      BY <1>2
    <3>2. FirstOf(u, n + 2, lineEnds) = 0
      BY <3>1, FirstOfIs
    <3> QED
      BY <1>3, <2>1, <3>2 DEF LineAfter
  <2>3. InFence(u) = none
    BY <1>7, <2>2, InFenceIs
  <2>4. StandsWithBacktick(u, "skip_language", 0)
    BY <2>1, <2>2 DEF StandsWithBacktick
  <2>5. Leaves("with_backtick", "search_start", k, c, "skip_language", 0, none)
    BY <1>8, <1>9, <1>11 DEF Leaves
  <2>6. 0 \in Nat /\ "skip_language" \in States("with_backtick")
    BY <1>10
  <2> QED
    BY <1>2, <1>4, <1>7, <2>3, <2>4, <2>5, <2>6
<1>12. CASE ~(c = "tick" /\ k + 1 = size)
  <2>1. Fence(u, 1) = 0
    BY <1>6, <1>12
  <2>2. InFence(u) = none
    BY <1>7, <2>1, InFenceIs
  <2>3. PICK counted \in Nat : counted = IF c = "tick" THEN k + 1 ELSE 0
    OBVIOUS
  <2>4. StandsWithBacktick(u, "search_start", counted)
    BY <1>5, <2>1, <2>3 DEF StandsWithBacktick
  <2>5. Leaves("with_backtick", "search_start", k, c, "search_start", counted, none)
    BY <1>8, <1>9, <1>12, <2>3 DEF Leaves
  <2>6. "search_start" \in States("with_backtick")
    BY <1>10
  <2> QED
    BY <1>2, <1>4, <1>7, <2>2, <2>4, <2>5, <2>6
<1> QED
  BY <1>11, <1>12

\* A character of the line of the first fence.
LEMMA InFenceSkips ==
  ASSUME NEW t \in Seq(Characters), NEW c \in Characters, Fence(t, 1) # 0, LineAfter(t) = 0
  PROVE  \E after \in States("with_backtick") :
           /\ InFence(Append(t, c)) = <<>> /\ StandsWithBacktick(Append(t, c), after, 0)
           /\ Leaves("with_backtick", "skip_language", 0, c, after, 0, <<>>)
<1>1. PICK n \in Nat : n = Len(t)
  OBVIOUS
<1>2. PICK u \in Seq(Characters) : u = Append(t, c) /\ Len(u) = n + 1
  BY <1>1, AppendProperties
<1>3. Fence(u, 1) # 0 /\ LineAfter(u) = IF c = "LF" THEN n + 1 ELSE 0
  BY <1>1, <1>2, LineAfterMore
<1>4. PICK none \in Seq(Characters) : none = <<>>
  BY EmptySeq
<1>5. \A o \in Seq(Characters) : o \o none = o
  BY <1>4, ConcatEmptySeq
<1>6. \A o \in Seq(Characters) :
        step("with_backtick", at("skip_language", 0, o), c) =
          IF c = "LF" THEN at("in_code_block", 0, o) ELSE at("skip_language", 0, o)
  BY WithBacktickSteps
<1>7. States("with_backtick") = {"search_start", "skip_language", "in_code_block", "done"}
  BY DEF States
<1>8. CASE c = "LF"
  <2>1. LineAfter(u) = n + 1 /\ n + 1 # 0 /\ LineAfter(u) + 1 = Len(u) + 1
    BY <1>2, <1>3, <1>8
  <2>2. Fence(u, LineAfter(u) + 1) = 0 /\ Ticks(u, LineAfter(u) + 1) = 0
    BY <2>1, FenceBeyond, TicksBeyond
  <2>3. InFence(u) = none
    <3>1. InFence(u) = Settled(After(u, LineAfter(u) + 1))
      BY <1>3, <2>1, <2>2, InFenceIs
    <3> QED
      BY <1>4, <2>1, <3>1, SettledBeyond
  <2>4. StandsWithBacktick(u, "in_code_block", 0)
    BY <1>3, <2>1, <2>2 DEF StandsWithBacktick
  <2>5. Leaves("with_backtick", "skip_language", 0, c, "in_code_block", 0, none)
    BY <1>5, <1>6, <1>8 DEF Leaves
  <2> QED
    BY <1>2, <1>4, <1>7, <2>3, <2>4, <2>5
<1>9. CASE c # "LF"
  <2>1. LineAfter(u) = 0
    BY <1>3, <1>9
  <2>2. InFence(u) = none
    BY <1>4, <2>1, InFenceIs
  <2>3. StandsWithBacktick(u, "skip_language", 0)
    BY <1>3, <2>1 DEF StandsWithBacktick
  <2>4. Leaves("with_backtick", "skip_language", 0, c, "skip_language", 0, none)
    BY <1>5, <1>6, <1>9 DEF Leaves
  <2> QED
    BY <1>2, <1>4, <1>7, <2>2, <2>3, <2>4
<1> QED
  BY <1>8, <1>9

\* A character of the code block.
LEMMA InFenceReads ==
  ASSUME NEW t \in Seq(Characters), NEW c \in Characters, Fence(t, 1) # 0, LineAfter(t) # 0,
         Fence(t, LineAfter(t) + 1) = 0
  PROVE  \E d \in Seq(Characters), after \in States("with_backtick"), counted \in Nat :
           /\ InFence(Append(t, c)) = InFence(t) \o d
           /\ StandsWithBacktick(Append(t, c), after, counted)
           /\ Leaves("with_backtick", "in_code_block", Ticks(t, LineAfter(t) + 1), c,
                     after, counted, d)
<1>1. PICK n \in Nat : n = Len(t)
  OBVIOUS
<1>2. PICK u \in Seq(Characters) : u = Append(t, c) /\ Len(u) = n + 1
  BY <1>1, AppendProperties
<1>3. PICK i \in 1 .. Len(t) + 1 : i = LineAfter(t) + 1
  <2>1. LineAfter(t) \in 1 .. Len(t)
    BY LineAfterIs
  <2> QED
    BY <2>1
<1>4. PICK size \in Nat \ {0, 1} : size = CODE_FENCE_BACKTICK_COUNT
  BY FenceAssumption
<1>5. PICK k \in Nat : k = Ticks(t, i)
  BY TicksIs
<1>6. Fence(u, 1) # 0 /\ LineAfter(u) # 0 /\ LineAfter(u) + 1 = i
  BY <1>2, <1>3, LineAfterMore
<1>7. Ticks(u, i) = IF c = "tick" THEN k + 1 ELSE 0
  BY <1>2, <1>5, TicksMore
<1>8. Fence(t, i) = 0
  BY <1>3
<1>9. Fence(u, i) = IF c = "tick" /\ k + 1 = size THEN n + 2 - size ELSE 0
  BY <1>1, <1>2, <1>4, <1>5, <1>8, FenceMore
<1>10. PICK s \in Seq(Characters) : s = Settled(After(t, i)) /\ s = InFence(t)
  BY <1>3, <1>8, SettledType, InFenceIs
<1>11. PICK none \in Seq(Characters) : none = <<>>
  BY EmptySeq
<1>12. \A o \in Seq(Characters) : o \o none = o
  BY <1>11, ConcatEmptySeq
<1>13. PICK b \in Seq(Characters) : b = Backticks(k) /\ Append(b, c) \in Seq(Characters)
  BY BackticksType, AppendProperties
<1>14. \A o \in Seq(Characters) : o \o Append(b, c) = Append(o \o b, c)
  BY <1>13, ConcatMore
<1>15. \A o \in Seq(Characters) :
         step("with_backtick", at("in_code_block", k, o), c) =
           IF c # "tick" THEN at("in_code_block", 0, Append(o \o b, c))
           ELSE IF k + 1 = size THEN at("done", k + 1, o)
           ELSE at("in_code_block", k + 1, o)
  BY <1>4, <1>13, WithBacktickSteps
<1>16. States("with_backtick") = {"search_start", "skip_language", "in_code_block", "done"}
  BY DEF States
<1>17. CASE c # "tick"
  <2>1. Fence(u, i) = 0 /\ Ticks(u, i) = 0
    BY <1>7, <1>9, <1>17
  <2>2. InFence(u) = s \o Append(b, c)
    <3>1. InFence(u) = Settled(After(u, i))
      BY <1>6, <2>1, InFenceIs
    <3>2. Settled(After(Append(t, c), i))
            = Append(Settled(After(t, i)) \o Backticks(Ticks(t, i)), c)
      BY <1>17, SettledMore
    <3>3. Settled(After(u, i)) = Append(s \o b, c)
      BY <1>2, <1>5, <1>10, <1>13, <3>2
    <3> QED
      BY <1>14, <3>1, <3>3
  <2>3. StandsWithBacktick(u, "in_code_block", 0)
    BY <1>6, <2>1 DEF StandsWithBacktick
  <2>4. Leaves("with_backtick", "in_code_block", k, c, "in_code_block", 0, Append(b, c))
    BY <1>14, <1>15, <1>17 DEF Leaves
  <2>5. 0 \in Nat /\ "in_code_block" \in States("with_backtick")
    BY <1>16
  <2> QED
    BY <1>2, <1>3, <1>5, <1>10, <1>13, <2>2, <2>3, <2>4, <2>5
<1>18. CASE c = "tick" /\ k + 1 = size
  <2>1. Fence(u, i) # 0 /\ SubSeq(u, i, Fence(u, i) - 1) = s
    <3>1. Ticks(t, i) + 1 = CODE_FENCE_BACKTICK_COUNT
      BY <1>4, <1>5, <1>18
    <3> QED
      BY <1>2, <1>8, <1>10, <1>18, <3>1, FenceCompletes
  <2>2. InFence(u) = s \o none
    <3>1. InFence(u) = SubSeq(u, i, Fence(u, i) - 1)
      BY <1>6, <2>1, InFenceIs
    <3> QED
      BY <1>12, <2>1, <3>1
  <2>3. StandsWithBacktick(u, "done", size)
    BY <1>4, <1>6, <2>1 DEF StandsWithBacktick
  <2>4. Leaves("with_backtick", "in_code_block", k, c, "done", size, none)
    BY <1>12, <1>15, <1>18 DEF Leaves
  <2>5. size \in Nat /\ "done" \in States("with_backtick")
    BY <1>16
  <2> QED
    BY <1>2, <1>3, <1>5, <1>10, <2>2, <2>3, <2>4, <2>5
<1>19. CASE c = "tick" /\ k + 1 # size
  <2>1. Fence(u, i) = 0 /\ Ticks(u, i) = k + 1
    BY <1>7, <1>9, <1>19
  <2>2. InFence(u) = s \o none
    <3>1. InFence(u) = Settled(After(u, i))
      BY <1>6, <2>1, InFenceIs
    <3>2. Settled(After(u, i)) = s
      BY <1>2, <1>10, <1>19, SettledMore
    <3> QED
      BY <1>12, <3>1, <3>2
  <2>3. StandsWithBacktick(u, "in_code_block", k + 1)
    BY <1>6, <2>1 DEF StandsWithBacktick
  <2>4. Leaves("with_backtick", "in_code_block", k, c, "in_code_block", k + 1, none)
    BY <1>12, <1>15, <1>19 DEF Leaves
  <2>5. k + 1 \in Nat /\ "in_code_block" \in States("with_backtick")
    BY <1>16
  <2> QED
    BY <1>2, <1>3, <1>5, <1>10, <2>2, <2>3, <2>4, <2>5
<1> QED
  BY <1>17, <1>18, <1>19

\* A character after the code block.
LEMMA InFenceDone ==
  ASSUME NEW t \in Seq(Characters), NEW c \in Characters, Fence(t, 1) # 0, LineAfter(t) # 0,
         Fence(t, LineAfter(t) + 1) # 0
  PROVE  /\ InFence(t) \in Seq(Characters) /\ InFence(Append(t, c)) = InFence(t)
         /\ StandsWithBacktick(Append(t, c), "done", CODE_FENCE_BACKTICK_COUNT)
         /\ Leaves("with_backtick", "done", CODE_FENCE_BACKTICK_COUNT, c,
                   "done", CODE_FENCE_BACKTICK_COUNT, <<>>)
<1>1. PICK n \in Nat : n = Len(t)
  OBVIOUS
<1>2. PICK u \in Seq(Characters) : u = Append(t, c)
  BY AppendProperties
<1>3. PICK i \in 1 .. Len(t) + 1 : i = LineAfter(t) + 1 /\ i \in Nat \ {0}
  <2>1. LineAfter(t) \in 1 .. Len(t)
    BY LineAfterIs
  <2> QED
    BY <2>1
<1>4. PICK a \in i .. n : a = Fence(t, i) /\ a # 0
  BY <1>1, <1>3, SpaceAfterIs
<1>5. Fence(u, 1) # 0 /\ LineAfter(u) # 0 /\ LineAfter(u) + 1 = i
  BY <1>2, <1>3, LineAfterMore
<1>6. Fence(u, i) = a
  <2>1. Fence(Append(t, c), i) = Fence(t, i)
    BY <1>4, FenceMore
  <2> QED
    BY <1>2, <1>4, <2>1
<1>7. a - 1 \in Nat /\ a - 1 <= n /\ a - 1 \in Int /\ a - 1 <= Len(t)
  BY <1>1, <1>3, <1>4
<1>8. SubSeq(u, i, a - 1) = SubSeq(t, i, a - 1)
  BY <1>1, <1>2, <1>7, PartMore
<1>9. SubSeq(t, i, a - 1) \in Seq(Characters)
  BY <1>3, <1>7, PartOf
<1>10. InFence(t) = SubSeq(t, i, a - 1)
  BY <1>3, <1>4, InFenceIs
<1>11. InFence(u) = SubSeq(u, i, a - 1)
  BY <1>4, <1>5, <1>6, InFenceIs
<1>12. StandsWithBacktick(u, "done", CODE_FENCE_BACKTICK_COUNT)
  BY <1>4, <1>5, <1>6 DEF StandsWithBacktick
<1>13. Leaves("with_backtick", "done", CODE_FENCE_BACKTICK_COUNT, c,
              "done", CODE_FENCE_BACKTICK_COUNT, <<>>)
  <2>1. PICK size \in Nat : size = CODE_FENCE_BACKTICK_COUNT
    BY FenceAssumption
  <2>2. \A o \in Seq(Characters) : o \o <<>> = o
    BY ConcatEmptySeq
  <2>3. \A o \in Seq(Characters) : step("with_backtick", at("done", size, o), c) = at("done", size, o)
    BY WithBacktickSteps
  <2> QED
    BY <2>1, <2>2, <2>3 DEF Leaves
<1> QED
  BY <1>2, <1>8, <1>9, <1>10, <1>11, <1>12, <1>13

\* A character more of a text that begins with a fence.
LEMMA WithBacktickMore ==
  ASSUME NEW t \in Seq(Characters), NEW c \in Characters,
         NEW state, NEW count, StandsWithBacktick(t, state, count)
  PROVE  /\ InFence(t) \in Seq(Characters)
         /\ \E d \in Seq(Characters), after \in States("with_backtick"), counted \in Nat :
              /\ InFence(Append(t, c)) = InFence(t) \o d
              /\ StandsWithBacktick(Append(t, c), after, counted)
              /\ Leaves("with_backtick", state, count, c, after, counted, d)
<1>1. PICK none \in Seq(Characters) : none = <<>>
  BY EmptySeq
<1>2. \A o \in Seq(Characters) : o \o none = o
  BY <1>1, ConcatEmptySeq
<1>3. 0 \in Nat /\ CODE_FENCE_BACKTICK_COUNT \in Nat /\ "done" \in States("with_backtick")
  BY FenceAssumption DEF States
<1>4. CASE Fence(t, 1) = 0
  <2>1. state = "search_start" /\ count = Ticks(t, 1)
    BY <1>4 DEF StandsWithBacktick
  <2>2. InFence(t) = none
    BY <1>1, <1>4, InFenceIs
  <2>3. PICK after \in States("with_backtick"), counted \in Nat :
          /\ InFence(Append(t, c)) = none /\ StandsWithBacktick(Append(t, c), after, counted)
          /\ Leaves("with_backtick", state, count, c, after, counted, none)
    BY <1>1, <1>4, <2>1, InFenceSearches
  <2> QED
    BY <1>2, <2>2, <2>3
<1>5. CASE Fence(t, 1) # 0 /\ LineAfter(t) = 0
  <2>1. state = "skip_language" /\ count = 0
    BY <1>5 DEF StandsWithBacktick
  <2>2. InFence(t) = none
    BY <1>1, <1>5, InFenceIs
  <2>3. PICK after \in States("with_backtick") :
          /\ InFence(Append(t, c)) = none /\ StandsWithBacktick(Append(t, c), after, 0)
          /\ Leaves("with_backtick", state, count, c, after, 0, none)
    BY <1>1, <1>5, <2>1, InFenceSkips
  <2> QED
    BY <1>2, <1>3, <2>2, <2>3
<1>6. CASE Fence(t, 1) # 0 /\ LineAfter(t) # 0 /\ Fence(t, LineAfter(t) + 1) = 0
  <2>1. state = "in_code_block" /\ count = Ticks(t, LineAfter(t) + 1)
    BY <1>6 DEF StandsWithBacktick
  <2>2. InFence(t) \in Seq(Characters)
    <3>1. LineAfter(t) \in 1 .. Len(t)
      BY <1>6, LineAfterIs
    <3>2. LineAfter(t) + 1 \in 1 .. Len(t) + 1
      BY <3>1
    <3> QED
      BY <1>6, <3>2, SettledType, InFenceIs
  <2> QED
    BY <1>6, <2>1, <2>2, InFenceReads
<1>7. CASE Fence(t, 1) # 0 /\ LineAfter(t) # 0 /\ Fence(t, LineAfter(t) + 1) # 0
  <2>1. state = "done" /\ count = CODE_FENCE_BACKTICK_COUNT
    BY <1>7 DEF StandsWithBacktick
  <2>2. /\ InFence(t) \in Seq(Characters) /\ InFence(Append(t, c)) = InFence(t)
        /\ StandsWithBacktick(Append(t, c), "done", CODE_FENCE_BACKTICK_COUNT)
        /\ Leaves("with_backtick", state, count, c, "done", CODE_FENCE_BACKTICK_COUNT, none)
    BY <1>1, <1>7, <2>1, InFenceDone
  <2>3. InFence(Append(t, c)) = InFence(t) \o none
    BY <1>2, <2>2
  <2> QED
    BY <1>3, <2>2, <2>3
<1> QED
  BY <1>4, <1>5, <1>6, <1>7

-----------------------------------------------------------------------------
(***************************************************************************)
(* Both processors: where they stand after a text, and what it leaves.     *)
(***************************************************************************)
Stripped(proc, t) == IF proc = "with_backtick" THEN InFence(t) ELSE OutsideFences(t)

Stands(proc, t, state, count) ==
  IF proc = "with_backtick" THEN StandsWithBacktick(t, state, count)
  ELSE StandsOutside(t, state, count)

\* Before the first character.
LEMMA StandsAtFirst ==
  /\ OutsideFences(<<>>) = <<>> /\ InFence(<<>>) = <<>>
  /\ Stands("outside", <<>>, "normal", 0) /\ Stands("with_backtick", <<>>, "search_start", 0)
<1>1. PICK t \in Seq(Characters) : t = <<>> /\ Len(t) = 0
  BY EmptySeq
<1>2. 1 = Len(t) + 1 /\ 1 \in 1 .. Len(t) + 1
  BY <1>1
<1>3. Fence(t, 1) = 0 /\ Ticks(t, 1) = 0 /\ Settled(After(t, 1)) = t
  BY <1>1, <1>2, FenceBeyond, TicksBeyond, SettledBeyond
<1>4. OutsideFences(t) = t
  <2>1. OutsideFences(t) = Left(t)[1] /\ Left(t)[1] = LeftFrom(t, Left(t), 1)
    BY <1>2, LeftIs
  <2>2. LeftFrom(t, Left(t), 1) = t
    BY <1>3 DEF LeftFrom
  <2> QED
    BY <2>1, <2>2
<1>5. InFence(t) = t
  BY <1>1, <1>3, InFenceIs
<1>6. StandsOutside(t, "normal", 0)
  <2>1. Remains(t, 1, t)
    <3>1. ASSUME NEW w \in Seq(Characters) PROVE OutsideFences(t \o w) = t \o Left(t \o w)[1]
      <4>1. t \o w = w
        BY <1>1, ConcatEmptySeq
      <4>2. 1 \in 1 .. Len(w) + 1
        OBVIOUS
      <4>3. OutsideFences(w) = Left(w)[1] /\ Left(w)[1] \in Seq(Characters)
        BY <4>2, LeftIs
      <4>4. t \o Left(w)[1] = Left(w)[1]
        BY <1>1, <4>3, ConcatEmptySeq
      <4> QED
        BY <4>1, <4>3, <4>4
    <3> QED
      BY <3>1 DEF Remains
  <2>2. OutsideState(t, 1, "normal", 0)
    BY <1>3 DEF OutsideState
  <2> QED
    BY <1>2, <2>1, <2>2 DEF StandsOutside
<1>7. StandsWithBacktick(t, "search_start", 0)
  BY <1>3 DEF StandsWithBacktick
<1> QED
  BY <1>1, <1>4, <1>5, <1>6, <1>7 DEF Stands

\* A character more.
LEMMA CharacterMore ==
  ASSUME NEW proc \in processors, NEW t \in Seq(Characters), NEW c \in Characters,
         NEW state, NEW count, Stands(proc, t, state, count)
  PROVE  /\ Stripped(proc, t) \in Seq(Characters)
         /\ \E d \in Seq(Characters), after \in States(proc), counted \in Nat :
              /\ Stripped(proc, Append(t, c)) = Stripped(proc, t) \o d
              /\ Stands(proc, Append(t, c), after, counted)
              /\ Leaves(proc, state, count, c, after, counted, d)
<1>1. CASE proc = "outside"
  <2>1. /\ OutsideFences(t) \in Seq(Characters)
        /\ \E d \in Seq(Characters), after \in States("outside"), counted \in Nat :
             /\ OutsideFences(Append(t, c)) = OutsideFences(t) \o d
             /\ StandsOutside(Append(t, c), after, counted)
             /\ Leaves("outside", state, count, c, after, counted, d)
    BY <1>1, OutsideMore DEF Stands
  <2> QED
    BY <1>1, <2>1 DEF Stands, Stripped
<1>2. CASE proc = "with_backtick"
  <2>1. /\ InFence(t) \in Seq(Characters)
        /\ \E d \in Seq(Characters), after \in States("with_backtick"), counted \in Nat :
             /\ InFence(Append(t, c)) = InFence(t) \o d
             /\ StandsWithBacktick(Append(t, c), after, counted)
             /\ Leaves("with_backtick", state, count, c, after, counted, d)
    BY <1>2, WithBacktickMore DEF Stands
  <2> QED
    BY <1>2, <2>1 DEF Stands, Stripped
<1> QED
  BY <1>1, <1>2 DEF processors

(***************************************************************************)
(* A chunk more: what the processor leaves of it is what the longer text   *)
(* leaves and the shorter one did not.                                     *)
(***************************************************************************)
Passed(proc, t, state, count, piece) ==
  \E o \in Seq(Characters), after \in States(proc), counted \in Nat :
    /\ fold(proc, at(state, count, <<>>), piece) = at(after, counted, o)
    /\ Stripped(proc, t \o piece) = Stripped(proc, t) \o o
    /\ Stands(proc, t \o piece, after, counted)

LEMMA ChunkMore ==
  ASSUME NEW proc \in processors, NEW t \in Seq(Characters), NEW state \in States(proc),
         NEW count \in Nat, Stands(proc, t, state, count), NEW piece \in Seq(Characters)
  PROVE  Passed(proc, t, state, count, piece)
<1>1. PICK none \in Seq(Characters) : none = <<>>
  BY EmptySeq
<1>2. PICK f \in FenceOf(proc) : f = at(state, count, none)
  BY AtType
<1>3. PICK g \in Seq(Characters) : g = Stripped(proc, t)
  <2>1. "tick" \in Characters
    BY DEF Characters
  <2> QED
    BY <2>1, CharacterMore
<1> DEFINE T == {x \in Seq(Characters) : Passed(proc, t, state, count, x)}
<1>4. <<>> \in T
  <2>1. fold(proc, f, none) = f
    BY <1>1, FoldMore
  <2>2. t \o none = t /\ g \o none = g
    BY <1>1, ConcatEmptySeq
  <2>3. Passed(proc, t, state, count, none)
    BY <1>1, <1>2, <1>3, <2>1, <2>2 DEF Passed
  <2> QED
    BY <1>1, <2>3
<1>5. ASSUME NEW x \in T, NEW c \in Characters PROVE Append(x, c) \in T
  <2>1. PICK o \in Seq(Characters), after \in States(proc), counted \in Nat :
          /\ fold(proc, f, x) = at(after, counted, o)
          /\ Stripped(proc, t \o x) = g \o o
          /\ Stands(proc, t \o x, after, counted)
    BY <1>1, <1>2, <1>3 DEF Passed
  <2>2. PICK v \in Seq(Characters) : v = t \o x
    BY ConcatProperties
  <2>3. PICK d \in Seq(Characters), next \in States(proc), total \in Nat :
          /\ Stripped(proc, Append(v, c)) = Stripped(proc, v) \o d
          /\ Stands(proc, Append(v, c), next, total)
          /\ Leaves(proc, after, counted, c, next, total, d)
    BY <2>1, <2>2, CharacterMore
  <2>4. PICK y \in Seq(Characters) : y = Append(x, c)
    BY AppendProperties
  <2>5. t \o y = Append(v, c)
    BY <2>2, <2>4, ConcatMore
  <2>6. PICK od \in Seq(Characters) : od = o \o d
    BY ConcatProperties
  <2>7. fold(proc, f, y) = at(next, total, od)
    <3>1. fold(proc, f, y) = step(proc, fold(proc, f, x), c)
      BY <2>4, FoldMore
    <3> QED
      BY <2>1, <2>3, <2>6, <3>1 DEF Leaves
  <2>8. Stripped(proc, t \o y) = g \o od
    <3>1. Joined(g, o, d)
      BY AllJoined
    <3> QED
      BY <2>1, <2>2, <2>3, <2>5, <2>6, <3>1 DEF Joined
  <2>9. Passed(proc, t, state, count, y)
    BY <1>1, <1>2, <1>3, <2>3, <2>5, <2>7, <2>8 DEF Passed
  <2> QED
    BY <2>4, <2>9
<1>6. T = Seq(Characters)
  <2> HIDE DEF T
  <2>1. T \in SUBSET Seq(Characters)
    BY DEF T
  <2> QED
    BY <1>4, <1>5, <2>1, GrowInduction
<1> QED
  BY <1>6

(***************************************************************************)
(* While a structured answer is read, its processor stands where the text  *)
(* so far puts it; what the consumer was given is what that text leaves,   *)
(* and the chunks it was given are all but a first one still to be read.   *)
(***************************************************************************)
FenceInv ==
  reader = "fence" =>
    /\ text \in Seq(Characters) /\ content \in Seq(Characters)
    /\ first = <<>> \/ \E piece \in Seq(Characters) : first = <<piece>>
    /\ taken \in Nat /\ Len(first) <= taken
    /\ content = Stripped(processor, text)
    /\ given = [n \in 1 .. taken - Len(first) |-> n]
    /\ response = "open" <=> stage = "reading"
    /\ stage = "fresh" => /\ text = <<>> /\ content = <<>> /\ given = <<>>
                          /\ first = <<>> /\ taken = 0
    /\ stage = "reading" =>
         /\ processor \in processors
         /\ \E state \in States(processor), count \in Nat, out \in Seq(Characters) :
              fence = at(state, count, out) /\ Stands(processor, text, state, count)

\* The numbers of the chunks given, and one more.
Numbers(m) == [n \in 1 .. m |-> n]

LEMMA NumbersAre ==
  ASSUME NEW m \in Nat
  PROVE  Numbers(m) \in Seq(Nat) /\ Len(Numbers(m)) = m /\ \A i \in 1 .. m : Numbers(m)[i] = i
<1>1. Numbers(m) \in [1 .. m -> Nat]
  BY DEF Numbers
<1> QED
  BY <1>1 DEF Numbers

LEMMA NumbersMore ==
  ASSUME NEW m \in Nat
  PROVE  Append(Numbers(m), m + 1) = Numbers(m + 1)
<1>1. PICK s \in Seq(Nat) : s = Numbers(m) /\ Len(s) = m /\ \A i \in 1 .. m : s[i] = i
  BY NumbersAre
<1>2. PICK k \in Nat : k = m + 1
  OBVIOUS
<1>3. PICK v \in Seq(Nat) : v = Append(s, k)
  BY AppendProperties
<1>4. Len(v) = k /\ v[k] = k /\ \A i \in 1 .. m : v[i] = i
  BY <1>1, <1>2, <1>3, AppendProperties
<1>5. PICK w \in Seq(Nat) : w = Numbers(k) /\ Len(w) = k /\ \A i \in 1 .. k : w[i] = i
  BY NumbersAre
<1>6. \A i \in 1 .. k : v[i] = w[i]
  BY <1>2, <1>4, <1>5
<1>7. v = w
  BY <1>4, <1>5, <1>6, SeqEqual
<1> QED
  BY <1>1, <1>2, <1>3, <1>5, <1>7

\* A chunk is folded over from the state before it, with nothing left of it yet.
LEMMA ChunkIsFolded ==
  ASSUME NEW state, NEW count, NEW out, NEW piece
  PROVE  processChunk(at(state, count, out), piece) = fold(processor, at(state, count, <<>>), piece)
<1>1. [at(state, count, out) EXCEPT !.out = <<>>] = at(state, count, <<>>)
  BY DEF at
<1>2. processChunk(at(state, count, out), piece)
        = fold(processor, [at(state, count, out) EXCEPT !.out = <<>>], piece)
  BY DEF processChunk, fold
<1> QED
  BY <1>1, <1>2

\* What a chunk that is given does to the content, and where it leaves the processor.
LEMMA GivenChunk ==
  ASSUME FenceInv, reader = "fence", stage = "reading", NEW piece \in Seq(Characters),
         GiveChunk(piece)
  PROVE  /\ text' = text \o piece /\ text' \in Seq(Characters) /\ content' \in Seq(Characters)
         /\ content' = Stripped(processor, text \o piece)
         /\ \E state \in States(processor), count \in Nat, out \in Seq(Characters) :
              fence' = at(state, count, out) /\ Stands(processor, text \o piece, state, count)
<1>1. text \in Seq(Characters) /\ content \in Seq(Characters) /\ processor \in processors
      /\ content = Stripped(processor, text)
  BY DEF FenceInv
<1>2. PICK state \in States(processor), count \in Nat, out \in Seq(Characters) :
        fence = at(state, count, out) /\ Stands(processor, text, state, count)
  BY DEF FenceInv
<1>3. Passed(processor, text, state, count, piece)
  BY <1>1, <1>2, ChunkMore
<1>4. PICK o \in Seq(Characters), after \in States(processor), counted \in Nat :
        /\ fold(processor, at(state, count, <<>>), piece) = at(after, counted, o)
        /\ Stripped(processor, text \o piece) = Stripped(processor, text) \o o
        /\ Stands(processor, text \o piece, after, counted)
  BY <1>3 DEF Passed
<1>5. processChunk(fence, piece) = at(after, counted, o)
  BY <1>2, <1>4, ChunkIsFolded
<1>6. text' = text \o piece /\ fence' = at(after, counted, o) /\ content' = content \o o
  <2>1. at(after, counted, o).out = o
    BY DEF at
  <2> QED
    BY <1>5, <2>1 DEF GiveChunk
<1>7. text \o piece \in Seq(Characters) /\ content \o o \in Seq(Characters)
  BY <1>1, ConcatProperties
<1> QED
  BY <1>1, <1>4, <1>6, <1>7

LEMMA FenceInvInit == Init => FenceInv
<1> SUFFICES ASSUME Init, reader = "fence" PROVE FenceInv
  BY DEF FenceInv
<1>1. /\ text = <<>> /\ stage = "fresh" /\ first = <<>> /\ processor = "none"
      /\ response = "none" /\ taken = 0 /\ given = <<>> /\ content = <<>>
  BY DEF Init
<1>2. <<>> \in Seq(Characters) /\ Len(first) = 0
  BY <1>1, EmptySeq
<1>3. content = Stripped(processor, text)
  BY <1>1, StandsAtFirst DEF Stripped
<1>4. given = [n \in 1 .. taken - Len(first) |-> n]
  BY <1>1, <1>2
<1> QED
  BY <1>1, <1>2, <1>3, <1>4 DEF FenceInv

LEMMA FenceInvNext == FenceInv /\ [Next]_vars => FenceInv'
<1> SUFFICES ASSUME FenceInv, [Next]_vars PROVE FenceInv'
  OBVIOUS
<1>1. CASE TakeFirst
  <2>1. PICK piece \in Pieces :
          /\ first' = <<piece>> /\ taken' = 1
          /\ processor' = IF piece # <<>> /\ Head(piece) = "tick" THEN "with_backtick"
                          ELSE "outside"
    BY <1>1 DEF TakeFirst
  <2>2. /\ reader = "fence" /\ reader' = reader /\ stage = "fresh" /\ stage' = "reading"
        /\ text' = text /\ content' = content /\ given' = given /\ response' = "open"
        /\ fence' = [state |-> IF processor' = "outside" THEN "normal" ELSE "search_start",
                     count |-> 0, out |-> <<>>]
    BY <1>1 DEF TakeFirst
  <2>3. piece \in Seq(Characters)
    BY <2>2, PieceType DEF Readers
  <2>4. text = <<>> /\ content = <<>> /\ given = <<>>
    BY <2>2 DEF FenceInv
  <2>5. <<>> \in Seq(Characters) /\ 0 \in Nat /\ processor' \in {"outside", "with_backtick"}
    BY <2>1, EmptySeq
  <2>6. content' = Stripped(processor', text')
    BY <2>2, <2>4, StandsAtFirst DEF Stripped
  <2>7. given' = [n \in 1 .. taken' - Len(first') |-> n] /\ Len(first') <= taken' /\ taken' \in Nat
    <3>1. Len(first') = 1
      BY <2>1
    <3> QED
      BY <2>1, <2>2, <2>4, <3>1
  <2>8. \E state \in States(processor'), count \in Nat, out \in Seq(Characters) :
          fence' = at(state, count, out) /\ Stands(processor', text', state, count)
    <3>1. CASE processor' = "outside"
      <4>1. fence' = at("normal", 0, <<>>) /\ Stands(processor', text', "normal", 0)
        BY <2>2, <2>4, <3>1, StandsAtFirst DEF at
      <4>2. "normal" \in States(processor')
        BY <3>1 DEF States
      <4> QED
        BY <2>5, <4>1, <4>2
    <3>2. CASE processor' = "with_backtick"
      <4>1. fence' = at("search_start", 0, <<>>) /\ Stands(processor', text', "search_start", 0)
        BY <2>2, <2>4, <3>2, StandsAtFirst DEF at
      <4>2. "search_start" \in States(processor')
        BY <3>2 DEF States
      <4> QED
        BY <2>5, <4>1, <4>2
    <3> QED
      BY <2>5, <3>1, <3>2
  <2> QED
    BY <2>1, <2>2, <2>3, <2>4, <2>5, <2>6, <2>7, <2>8 DEF FenceInv, processors
<1>2. CASE TakeFirstFails
  <2>1. /\ reader = "fence" /\ stage = "fresh" /\ stage' = "raised"
        /\ UNCHANGED <<reader, text, first, processor, response, taken, given, content>>
    BY <1>2 DEF TakeFirstFails, fenceVars
  <2> QED
    BY <2>1 DEF FenceInv
<1>3. CASE GiveFirst
  <2>1. /\ reader = "fence" /\ stage = "reading" /\ first # <<>> /\ first' = <<>> /\ taken' = taken
        /\ GiveChunk(first[1])
        /\ UNCHANGED <<reader, stage, processor, response>>
    BY <1>3 DEF GiveFirst
  <2>2. PICK piece \in Seq(Characters) : first = <<piece>> /\ first[1] = piece /\ Len(first) = 1
    <3>1. PICK piece \in Seq(Characters) : first = <<piece>>
      BY <2>1 DEF FenceInv
    <3> QED
      BY <3>1
  <2>3. GiveChunk(piece)
    BY <2>1, <2>2
  <2>4. /\ text' = text \o piece /\ text' \in Seq(Characters) /\ content' \in Seq(Characters)
        /\ content' = Stripped(processor, text \o piece)
        /\ \E state \in States(processor), count \in Nat, out \in Seq(Characters) :
             fence' = at(state, count, out) /\ Stands(processor, text \o piece, state, count)
    BY <2>1, <2>3, GivenChunk
  <2>5. taken \in Nat /\ 1 <= taken /\ given = Numbers(taken - 1) /\ processor \in processors
        /\ response = "open"
    BY <2>1, <2>2 DEF FenceInv, Numbers
  <2>6. given' = Append(given, taken)
    BY <2>1, <2>3 DEF GiveChunk
  <2>7. given' = Numbers(taken)
    <3>1. PICK m \in Nat : m = taken - 1 /\ m + 1 = taken
      BY <2>5
    <3> QED
      BY <2>5, <2>6, <3>1, NumbersMore
  <2>8. given' = [n \in 1 .. taken' - Len(first') |-> n] /\ Len(first') <= taken' /\ taken' \in Nat
    <3>1. Len(first') = 0 /\ taken' - Len(first') = taken
      BY <2>1, <2>5
    <3> QED
      BY <2>1, <2>5, <2>7, <3>1 DEF Numbers
  <2> QED
    BY <2>1, <2>4, <2>5, <2>8 DEF FenceInv
<1>4. CASE GiveNext
  <2>1. PICK piece \in Pieces : taken' = taken + 1 /\ GiveChunk(piece)
    BY <1>4 DEF GiveNext
  <2>2. /\ reader = "fence" /\ stage = "reading" /\ first = <<>> /\ first' = first
        /\ UNCHANGED <<reader, stage, processor, response>>
    BY <1>4 DEF GiveNext
  <2>3. piece \in Seq(Characters)
    BY <2>2, PieceType DEF Readers
  <2>4. /\ text' = text \o piece /\ text' \in Seq(Characters) /\ content' \in Seq(Characters)
        /\ content' = Stripped(processor, text \o piece)
        /\ \E state \in States(processor), count \in Nat, out \in Seq(Characters) :
             fence' = at(state, count, out) /\ Stands(processor, text \o piece, state, count)
    BY <2>1, <2>2, <2>3, GivenChunk
  <2>5. taken \in Nat /\ Len(first) = 0 /\ processor \in processors /\ response = "open"
    BY <2>2 DEF FenceInv
  <2>6. given = Numbers(taken)
    <3>1. given = Numbers(taken - Len(first))
      BY <2>2 DEF FenceInv, Numbers
    <3>2. taken - Len(first) = taken
      BY <2>5
    <3> QED
      BY <3>1, <3>2
  <2>7. given' = Numbers(taken + 1)
    <3>1. given' = Append(given, taken + 1)
      BY <2>1 DEF GiveChunk
    <3> QED
      BY <2>5, <2>6, <3>1, NumbersMore
  <2>8. given' = [n \in 1 .. taken' - Len(first') |-> n] /\ Len(first') <= taken' /\ taken' \in Nat
    <3>1. Len(first') = 0 /\ taken' - Len(first') = taken + 1 /\ taken' \in Nat /\ 0 <= taken'
      BY <2>1, <2>2, <2>5
    <3> QED
      BY <2>7, <3>1 DEF Numbers
  <2> QED
    BY <2>2, <2>4, <2>5, <2>8 DEF FenceInv
<1>5. CASE FenceEnd
  <2>1. /\ reader = "fence" /\ stage = "reading" /\ stage' \in {"ended", "raised", "abandoned"}
        /\ response' = "closed"
        /\ UNCHANGED <<reader, text, first, processor, taken, given, content>>
    BY <1>5 DEF FenceEnd
  <2> QED
    BY <2>1 DEF FenceInv
<1>6. CASE ReadBytes \/ BytesEnd
  <2>1. reader = "events" /\ reader' = reader
    BY <1>6 DEF ReadBytes, BytesEnd
  <2> QED
    BY <2>1 DEF FenceInv
<1>7. CASE UNCHANGED vars
  BY <1>7 DEF FenceInv, vars, fenceVars
<1> QED
  BY <1>1, <1>2, <1>3, <1>4, <1>5, <1>6, <1>7 DEF Next

(***************************************************************************)
(* The processor for a text that begins with a fence was chosen for one    *)
(* that begins with a backtick: the first piece, or what begins with it.   *)
(***************************************************************************)
ChosenInv ==
  reader = "fence" /\ processor = "with_backtick" =>
    IF first = <<>> THEN text # <<>> /\ Head(text) = "tick"
    ELSE text = <<>> /\ first[1] # <<>> /\ Head(first[1]) = "tick"

LEMMA HeadStays ==
  ASSUME NEW t \in Seq(Characters), NEW piece \in Seq(Characters), t # <<>>
  PROVE  t \o piece # <<>> /\ Head(t \o piece) = Head(t)
<1>1. Len(t) \in Nat \ {0}
  BY EmptySeq
<1>2. t \o piece \in Seq(Characters) /\ Len(t \o piece) = Len(t) + Len(piece) /\ (t \o piece)[1] = t[1]
  BY <1>1, ConcatProperties
<1>3. t \o piece # <<>>
  BY <1>1, <1>2
<1> QED
  BY <1>2, <1>3

LEMMA ChosenInvInit == Init => ChosenInv
  BY DEF Init, ChosenInv

LEMMA ChosenInvNext == FenceInv /\ ChosenInv /\ [Next]_vars => ChosenInv'
<1> SUFFICES ASSUME FenceInv, ChosenInv, [Next]_vars, reader' = "fence",
                    processor' = "with_backtick"
             PROVE  IF first' = <<>> THEN text' # <<>> /\ Head(text') = "tick"
                    ELSE text' = <<>> /\ first'[1] # <<>> /\ Head(first'[1]) = "tick"
  BY DEF ChosenInv
<1>1. CASE TakeFirst
  <2>1. PICK piece \in Pieces :
          /\ first' = <<piece>>
          /\ processor' = IF piece # <<>> /\ Head(piece) = "tick" THEN "with_backtick"
                          ELSE "outside"
    BY <1>1 DEF TakeFirst
  <2>2. text' = <<>>
    BY <1>1 DEF TakeFirst, FenceInv
  <2>3. piece # <<>> /\ Head(piece) = "tick"
    BY <2>1
  <2>4. first'[1] = piece /\ first' # <<>>
    BY <2>1
  <2> QED
    BY <2>2, <2>3, <2>4
<1>2. CASE GiveFirst
  <2>1. /\ reader = "fence" /\ processor = "with_backtick" /\ stage = "reading"
        /\ first # <<>> /\ first' = <<>> /\ text' = text \o first[1]
    BY <1>2 DEF GiveFirst, GiveChunk
  <2>2. PICK piece \in Seq(Characters) : first = <<piece>> /\ first[1] = piece
    <3>1. PICK piece \in Seq(Characters) : first = <<piece>>
      BY <2>1 DEF FenceInv
    <3> QED
      BY <3>1
  <2>3. text = <<>> /\ piece # <<>> /\ Head(piece) = "tick"
    BY <2>1, <2>2 DEF ChosenInv
  <2>4. text' = piece
    BY <2>1, <2>2, <2>3, ConcatEmptySeq
  <2> QED
    BY <2>1, <2>3, <2>4
<1>3. CASE GiveNext
  <2>1. PICK piece \in Pieces : text' = text \o piece
    BY <1>3 DEF GiveNext, GiveChunk
  <2>2. reader = "fence" /\ processor = "with_backtick" /\ first = <<>> /\ first' = <<>>
    BY <1>3 DEF GiveNext
  <2>3. text \in Seq(Characters) /\ piece \in Seq(Characters)
    BY <2>2, PieceType DEF Readers, FenceInv
  <2>4. text # <<>> /\ Head(text) = "tick"
    BY <2>2 DEF ChosenInv
  <2> QED
    BY <2>1, <2>2, <2>3, <2>4, HeadStays
<1>4. CASE TakeFirstFails \/ FenceEnd \/ UNCHANGED vars
  <2>1. UNCHANGED <<reader, text, first, processor>>
    BY <1>4 DEF TakeFirstFails, FenceEnd, vars, fenceVars
  <2> QED
    BY <2>1 DEF ChosenInv
<1>5. CASE ReadBytes \/ BytesEnd
  <2>1. UNCHANGED <<reader, text, first, processor>> \/ reader' = "events"
    BY <1>5 DEF ReadBytes, BytesEnd
  <2>2. reader' # "events"
    OBVIOUS
  <2> QED
    BY <2>1, <2>2 DEF ChosenInv
<1> QED
  BY <1>1, <1>2, <1>3, <1>4, <1>5 DEF Next

\* A text that does not begin with a backtick is not given to that processor.
LEMMA PlainIsStripped ==
  ASSUME FenceInv, ChosenInv, reader = "fence", text = <<>> \/ Head(text) # "tick"
  PROVE  content = OutsideFences(text)
<1>1. content = Stripped(processor, text)
  BY DEF FenceInv
<1>2. CASE processor = "with_backtick"
  <2>1. text = <<>>
    BY <1>2 DEF ChosenInv
  <2> QED
    BY <1>1, <1>2, <2>1, StandsAtFirst DEF Stripped
<1>3. CASE processor # "with_backtick"
  BY <1>1, <1>3 DEF Stripped
<1> QED
  BY <1>2, <1>3

\* The end of the line that a fenced block begins with is the first white space after its fence.
LEMMA FencedByIs ==
  ASSUME NEW t \in Seq(Characters), NEW line \in DOMAIN t, FencedBy(t, line)
  PROVE  Fence(t, 1) = 1 /\ LineAfter(t) = line /\ SpaceAfter(t, 1) = line
         /\ line \in 1 .. Len(t)
<1>1. PICK k \in Nat \ {0} : k = 1 + CODE_FENCE_BACKTICK_COUNT /\ k = CODE_FENCE_BACKTICK_COUNT + 1
  BY FenceAssumption
<1>2. line \in k .. Len(t) /\ t[line] = "LF" /\ Fence(t, 1) = 1
      /\ \A i \in k .. line - 1 : ~isspace(t[i])
  BY <1>1, FenceAssumption DEF FencedBy
<1>3. \A i \in k .. line - 1 : t[i] \notin spaces /\ t[i] \notin lineEnds
  BY <1>2 DEF spaces, lineEnds, isspace
<1>4. t[line] \in spaces /\ t[line] \in lineEnds
  BY <1>2 DEF spaces, lineEnds
<1>5. FirstOf(t, k, spaces) = line
  <2>1. PICK f : f = FirstOf(t, k, spaces)
    OBVIOUS
  <2>2. \/ f = 0 /\ \A j \in k .. Len(t) : t[j] \notin spaces
        \/ f \in k .. Len(t) /\ t[f] \in spaces /\ \A j \in k .. f - 1 : t[j] \notin spaces
    BY <2>1, FirstOfIs
  <2>3. f \in k .. Len(t) /\ ~ (f < line) /\ ~ (line < f)
    BY <1>1, <1>2, <1>3, <1>4, <2>2
  <2> QED
    BY <1>1, <1>2, <2>1, <2>3
<1>6. FirstOf(t, k, lineEnds) = line
  <2>1. PICK f : f = FirstOf(t, k, lineEnds)
    OBVIOUS
  <2>2. \/ f = 0 /\ \A j \in k .. Len(t) : t[j] \notin lineEnds
        \/ f \in k .. Len(t) /\ t[f] \in lineEnds /\ \A j \in k .. f - 1 : t[j] \notin lineEnds
    BY <2>1, FirstOfIs
  <2>3. f \in k .. Len(t) /\ ~ (f < line) /\ ~ (line < f)
    BY <1>1, <1>2, <1>3, <1>4, <2>2
  <2> QED
    BY <1>1, <1>2, <2>1, <2>3
<1> QED
  BY <1>1, <1>2, <1>5, <1>6 DEF LineAfter, SpaceAfter

\* A block, whichever processor reads it.
LEMMA BlockIsLeft ==
  ASSUME NEW t \in Seq(Characters), NEW line \in DOMAIN t, FencedBy(t, line)
  PROVE  /\ Block(t, line) \in Seq(Characters)
         /\ InFence(t) = Block(t, line)
         /\ \/ OutsideFences(t) = Block(t, line)
            \/ /\ MoreFollows(t, line)
               /\ \E w \in Seq(Characters) : OutsideFences(t) = Block(t, line) \o w
<1>1. /\ Fence(t, 1) = 1 /\ LineAfter(t) = line /\ SpaceAfter(t, 1) = line
      /\ line \in 1 .. Len(t)
  BY FencedByIs
<1>2. PICK i \in 2 .. Len(t) + 1 : i = line + 1
  BY <1>1
<1>3. PICK closing : closing = Fence(t, i)
  OBVIOUS
<1>4. PICK b : b = Block(t, line)
  OBVIOUS
<1>5. b = IF closing = 0 THEN Settled(After(t, i)) ELSE SubSeq(t, i, closing - 1)
  BY <1>2, <1>3, <1>4 DEF Block
<1>6. InFence(t) = b
  BY <1>1, <1>2, <1>3, <1>5, InFenceIs
<1>7. OutsideFences(t) = Left(t)[i]
  <2>1. 1 \in 1 .. Len(t) + 1 /\ i \in 1 .. Len(t) + 1
    BY <1>2
  <2>2. OutsideFences(t) = LeftFrom(t, Left(t), 1) /\ Left(t)[i] \in Seq(Characters)
    BY <2>1, LeftIs
  <2>3. LeftFrom(t, Left(t), 1) = SubSeq(t, 1, 0) \o Left(t)[i]
    BY <1>1, <1>2 DEF LeftFrom
  <2>4. SubSeq(t, 1, 0) = <<>>
    <3>1. SubSeq(t, 1, 0) \in Seq(Characters) /\ Len(SubSeq(t, 1, 0)) = 0
      BY PartOf
    <3> QED
      BY <3>1, EmptySeq
  <2> QED
    BY <2>2, <2>3, <2>4, ConcatEmptySeq
<1>8. Left(t)[i] = LeftFrom(t, Left(t), i)
  <2>1. i \in 1 .. Len(t) + 1
    BY <1>2
  <2> QED
    BY <2>1, LeftIs
<1>9. CASE closing = 0
  <2>1. b \in Seq(Characters)
    <3>1. i \in 1 .. Len(t) + 1
      BY <1>2
    <3> QED
      BY <1>5, <1>9, <3>1, SettledType
  <2>2. LeftFrom(t, Left(t), i) = b
    BY <1>3, <1>5, <1>9 DEF LeftFrom
  <2> QED
    BY <1>4, <1>6, <1>7, <1>8, <2>1, <2>2
<1>10. CASE closing # 0
  <2>1. /\ closing \in i .. Len(t)
        /\ closing + CODE_FENCE_BACKTICK_COUNT \in i + 2 .. Len(t) + 1
        /\ SpaceAfter(t, i) # 0 => SpaceAfter(t, i) \in i + 1 .. Len(t)
    <3>1. i \in 1 .. Len(t) + 1
      BY <1>2
    <3> QED
      BY <1>3, <1>10, <3>1, SpaceAfterIs
  <2>2. b \in Seq(Characters)
    <3>1. i \in Nat \ {0} /\ closing - 1 \in Int /\ closing - 1 <= Len(t)
      BY <1>2, <2>1
    <3> QED
      BY <1>5, <1>10, <3>1, PartOf
  <2>3. CASE SpaceAfter(t, i) = 0
    <3>1. LeftFrom(t, Left(t), i) = b
      BY <1>3, <1>5, <1>10, <2>3 DEF LeftFrom
    <3> QED
      BY <1>4, <1>6, <1>7, <1>8, <2>2, <3>1
  <2>4. CASE SpaceAfter(t, i) # 0
    <3>1. PICK n \in 1 .. Len(t) + 1 : n = SpaceAfter(t, i) + 1
      BY <1>2, <2>1, <2>4
    <3>2. LeftFrom(t, Left(t), i) = b \o Left(t)[n]
      BY <1>3, <1>5, <1>10, <2>4, <3>1 DEF LeftFrom
    <3>3. Left(t)[n] \in Seq(Characters)
      BY LeftIs
    <3>4. MoreFollows(t, line)
      <4>1. PICK k \in Nat \ {0} : k = closing + CODE_FENCE_BACKTICK_COUNT
        BY <1>2, <2>1
      <4>2. PICK f : f = FirstOf(t, k, spaces) /\ f # 0
        BY <1>3, <2>4, <4>1 DEF SpaceAfter
      <4>3. f \in k .. Len(t) /\ t[f] \in spaces
        BY <4>2, FirstOfIs
      <4>4. isspace(t[f])
        BY <4>3 DEF spaces, isspace
      <4> QED
        BY <1>2, <1>3, <1>10, <4>1, <4>3, <4>4 DEF MoreFollows
    <3> QED
      BY <1>4, <1>6, <1>7, <1>8, <2>2, <3>2, <3>3, <3>4
  <2> QED
    BY <2>3, <2>4
<1> QED
  BY <1>9, <1>10

\* A text is the beginning of itself and of a longer one.
LEMMA BeginningOf ==
  ASSUME NEW s \in Seq(Characters), NEW w \in Seq(Characters)
  PROVE  IsPrefix(s, s) /\ IsPrefix(s, s \o w)
<1>1. IsPrefix(s, s)
  BY DEF IsPrefix
<1>2. CASE w = <<>>
  BY <1>1, <1>2, ConcatEmptySeq
<1>3. CASE w # <<>>
  BY <1>1, <1>3, StrictlyBefore DEF IsStrictPrefix
<1> QED
  BY <1>2, <1>3

\* A fenced block is given, whichever processor was chosen.
LEMMA BlockIsGiven ==
  ASSUME FenceInv, reader = "fence", NEW line \in DOMAIN text, FencedBy(text, line)
  PROVE  /\ IsPrefix(Block(text, line), content)
         /\ content = Block(text, line) \/ MoreFollows(text, line)
<1>1. text \in Seq(Characters) /\ content = Stripped(processor, text)
  BY DEF FenceInv
<1>2. PICK b \in Seq(Characters) :
        /\ b = Block(text, line) /\ InFence(text) = b
        /\ \/ OutsideFences(text) = b
           \/ MoreFollows(text, line) /\ \E w \in Seq(Characters) : OutsideFences(text) = b \o w
  BY <1>1, BlockIsLeft
<1>3. \/ content = b
      \/ MoreFollows(text, line) /\ \E w \in Seq(Characters) : content = b \o w
  BY <1>1, <1>2 DEF Stripped
<1> QED
  BY <1>2, <1>3, BeginningOf, EmptySeq

(***************************************************************************)
(* A structured answer that does not begin with a backtick loses its       *)
(* fences, and nothing else of it, wherever its chunks are cut. One that   *)
(* is a fenced block gives the block, whole, whichever of the two          *)
(* processors the first chunk chose; only what follows the block may be    *)
(* given or not. Every chunk of the provider is passed on once, and the    *)
(* provider is let go of.                                                  *)
(***************************************************************************)
THEOREM FencesAreStripped == Spec => []FenceStripped
<1>1. Init => FenceInv /\ ChosenInv
  BY FenceInvInit, ChosenInvInit
<1>2. FenceInv /\ ChosenInv /\ [Next]_vars => FenceInv' /\ ChosenInv'
  BY FenceInvNext, ChosenInvNext
<1>3. FenceInv /\ ChosenInv => FenceStripped
  <2> SUFFICES ASSUME FenceInv, ChosenInv, reader = "fence" PROVE FenceStripped
    BY DEF FenceStripped
  <2>1. text = <<>> \/ Head(text) # "tick" => content = OutsideFences(text)
    BY PlainIsStripped
  <2>2. \A line \in DOMAIN text : FencedBy(text, line) =>
          /\ IsPrefix(Block(text, line), content)
          /\ content = Block(text, line) \/ MoreFollows(text, line)
    BY BlockIsGiven
  <2>3. /\ given = [n \in 1 .. taken - Len(first) |-> n]
        /\ response = "open" <=> stage = "reading"
    BY DEF FenceInv
  <2> QED
    BY <2>1, <2>2, <2>3 DEF FenceStripped
<1> QED
  BY <1>1, <1>2, <1>3, PTL DEF Spec
=============================================================================
