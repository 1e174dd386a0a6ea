--------------------------- MODULE SettingsProofs ---------------------------
(***************************************************************************)
(* Proofs about Settings and the texts of Spelling: whatever is typed, an  *)
(* alias has one verdict, a list is served as it was written, an address   *)
(* lies on the domain that it names, and a process that starts is usable.  *)
(* Most of it is about the operators; what they say of all texts is shown  *)
(* by induction over the numbers, in Counting.                             *)
(***************************************************************************)
EXTENDS Settings, TLAPS, WellFoundedInduction, SequenceTheorems

-----------------------------------------------------------------------------
(* Numbers.                                                                *)

\* The first index of a non-empty set of indices exists.
LEMMA FirstIndex ==
  ASSUME NEW S, S \subseteq Nat, S # {}
  PROVE  Min(S) \in S /\ \A i \in S : Min(S) <= i
<1>1. \E i \in S : \A j \in S : ~ (<<j, i>> \in OpToRel(<, Nat))
  BY NatLessThanWellFounded, WFMin
<1>2. PICK i \in S : \A j \in S : ~ (<<j, i>> \in OpToRel(<, Nat))
  BY <1>1
<1>3. \A j \in S : <<j, i>> \in OpToRel(<, Nat) <=> j < i
  BY DEF OpToRel
<1>4. \A j \in S : i \in Nat /\ j \in Nat /\ ~ (j < i)
  BY <1>2, <1>3
<1>5. \A j \in S : i <= j
  BY <1>4
<1> QED
  BY <1>5 DEF Min

\* So does the last, of a set that is bounded.
LEMMA LastIndex ==
  ASSUME NEW n \in Nat, NEW S, S \subseteq 1..n, S # {}
  PROVE  Max(S) \in S /\ \A i \in S : i <= Max(S)
<1> DEFINE T == {n - i : i \in S}
<1>0. \A i \in S : i \in 1..n /\ n - i \in Nat
  OBVIOUS
<1>1. T \subseteq Nat /\ T # {}
  BY <1>0
<1>2. Min(T) \in T /\ \A k \in T : Min(T) <= k
  BY <1>1, FirstIndex
<1>3. PICK m \in S : Min(T) = n - m
  BY <1>2
<1>4. \A i \in S : n - m <= n - i
  BY <1>2, <1>3
<1>5. \A i \in S : i <= m
  BY <1>4
<1> QED
  BY <1>5 DEF Max

\* Induction: a set of numbers with 0 and every successor is all of them.
LEMMA Counting ==
  ASSUME NEW S, 0 \in S, \A n \in Nat : n \in S => n + 1 \in S
  PROVE  \A n \in Nat : n \in S
<1> SUFFICES ASSUME Nat \ S # {} PROVE FALSE
  OBVIOUS
<1>1. Min(Nat \ S) \in Nat \ S /\ \A i \in Nat \ S : Min(Nat \ S) <= i
  BY FirstIndex
<1>2. PICK m \in Nat \ S : \A i \in Nat \ S : m <= i
  BY <1>1
<1>3. m - 1 \in Nat /\ m - 1 \notin Nat \ S
  BY <1>2
<1>4. (m - 1) + 1 \in S
  BY <1>3
<1> QED
  BY <1>2, <1>4
-----------------------------------------------------------------------------
(* Blanks and case.                                                        *)

\* No blank, "@" or comma is a letter.
LEMMA Signs ==
  ASSUME NEW c \in Char
  PROVE  /\ Lower[c] \in Char /\ Lower[Lower[c]] = Lower[c]
         /\ Lower[c] \in Blank <=> c \in Blank
         /\ Lower[c] = At <=> c = At
<1>1. \A d \in Blank \cup Banned : Lower[c] = d => c = d
  BY CharAssumption
<1>2. \A d \in Blank \cup Banned : Lower[d] = d
  BY CharAssumption
<1> QED
  BY <1>1, <1>2, CharAssumption

\* What ToLower gives.
LEMMA LowerText ==
  ASSUME NEW t \in Seq(Char)
  PROVE  /\ ToLower(t) \in Seq(Char) /\ Len(ToLower(t)) = Len(t)
         /\ DOMAIN ToLower(t) = 1..Len(t)
         /\ \A i \in 1..Len(t) : ToLower(t)[i] = Lower[t[i]]
         /\ ToLower(ToLower(t)) = ToLower(t)
<1>1. DOMAIN t = 1..Len(t) /\ Len(t) \in Nat /\ \A i \in 1..Len(t) : t[i] \in Char
  BY ElementOfSeq
<1>2. ToLower(t) = [i \in 1..Len(t) |-> Lower[t[i]]]
  BY <1>1 DEF ToLower
<1>3. ToLower(t) \in [1..Len(t) -> Char]
  BY <1>1, <1>2, Signs
<1>4. ToLower(t) \in Seq(Char) /\ Len(ToLower(t)) = Len(t)
  BY <1>1, <1>3
<1>5. DOMAIN ToLower(t) = 1..Len(t)
  BY <1>2
<1>6. ToLower(ToLower(t)) = ToLower(t)
  <2>1. ToLower(ToLower(t)) = [i \in 1..Len(t) |-> Lower[ToLower(t)[i]]]
    BY <1>5 DEF ToLower
  <2>2. \A i \in 1..Len(t) : Lower[ToLower(t)[i]] = Lower[t[i]]
    BY <1>1, <1>2, Signs
  <2> QED
    BY <1>2, <2>1, <2>2
<1> QED
  BY <1>2, <1>4, <1>5, <1>6

\* Nothing is left of a text of blanks.
LEMMA TrimBlank ==
  ASSUME NEW t, \A i \in DOMAIN t : t[i] \in Blank
  PROVE  TrimSpace(t) = <<>>
BY DEF TrimSpace

\* What is left of another begins and ends with something else, and all that was cut
\* off is blank.
LEMMA TrimCut ==
  ASSUME NEW C, NEW t \in Seq(C), NEW k \in DOMAIN t, t[k] \notin Blank
  PROVE  \E a, b \in 1..Len(t) :
           /\ a <= b /\ TrimSpace(t) = SubSeq(t, a, b)
           /\ t[a] \notin Blank /\ t[b] \notin Blank
           /\ \A i \in 1..Len(t) : t[i] \notin Blank => a <= i /\ i <= b
<1> DEFINE ink == {i \in DOMAIN t : t[i] \notin Blank}
<1>1. ink \subseteq 1..Len(t) /\ ink # {} /\ Len(t) \in Nat
  OBVIOUS
<1>4. TrimSpace(t) = SubSeq(t, Min(ink), Max(ink))
  BY <1>1 DEF TrimSpace
<1>5. \A i \in 1..Len(t) : t[i] \notin Blank <=> i \in ink
  OBVIOUS
<1> HIDE DEF ink
<1>9. ink \subseteq Nat
  BY <1>1
<1>2. Min(ink) \in ink /\ \A i \in ink : Min(ink) <= i
  BY <1>1, <1>9, FirstIndex
<1>3. Max(ink) \in ink /\ \A i \in ink : i <= Max(ink)
  BY <1>1, LastIndex
<1>6. Min(ink) \in 1..Len(t) /\ Max(ink) \in 1..Len(t)
  BY <1>1, <1>2, <1>3
<1>7. t[Min(ink)] \notin Blank /\ t[Max(ink)] \notin Blank
  BY <1>2, <1>3, <1>5, <1>6
<1>8. Min(ink) <= Max(ink)
  BY <1>2, <1>3
<1> QED
  BY <1>2, <1>3, <1>4, <1>5, <1>6, <1>7, <1>8

\* What TrimSpace gives.
LEMMA TrimText ==
  ASSUME NEW C, NEW t \in Seq(C)
  PROVE  /\ TrimSpace(t) \in Seq(C)
         /\ TrimSpace(t) # <<>> =>
              /\ 1 \in DOMAIN TrimSpace(t) /\ Len(TrimSpace(t)) \in DOMAIN TrimSpace(t)
              /\ TrimSpace(t)[1] \notin Blank
              /\ TrimSpace(t)[Len(TrimSpace(t))] \notin Blank
<1>1. CASE \A i \in DOMAIN t : t[i] \in Blank
  <2>1. TrimSpace(t) = <<>>
    BY <1>1, TrimBlank
  <2> QED
    BY <2>1
<1>2. CASE \E k \in DOMAIN t : t[k] \notin Blank
  <2>1. PICK a \in 1..Len(t), b \in 1..Len(t) :
          /\ a <= b /\ TrimSpace(t) = SubSeq(t, a, b)
          /\ t[a] \notin Blank /\ t[b] \notin Blank
    BY <1>2, TrimCut
  <2>2. \A i \in a..b : t[i] \in C
    BY <2>1, ElementOfSeq
  <2>3. /\ SubSeq(t, a, b) \in Seq(C) /\ Len(SubSeq(t, a, b)) = b - a + 1
        /\ \A i \in 1..(b - a + 1) : SubSeq(t, a, b)[i] = t[a + i - 1]
    BY <2>1, <2>2, SubSeqProperties
  <2>4. SubSeq(t, a, b)[1] = t[a] /\ SubSeq(t, a, b)[b - a + 1] = t[b]
    BY <2>1, <2>3
  <2>5. DOMAIN SubSeq(t, a, b) = 1..(b - a + 1)
    BY <2>3
  <2> QED
    BY <2>1, <2>3, <2>4, <2>5
<1> QED
  BY <1>1, <1>2

\* A text that has nothing to cut off is left as it is.
LEMMA TrimmedStays ==
  ASSUME NEW C, NEW t \in Seq(C), t # <<>>, t[1] \notin Blank, t[Len(t)] \notin Blank
  PROVE  TrimSpace(t) = t
<1>1. 1 \in DOMAIN t /\ Len(t) \in 1..Len(t)
  BY EmptySeq
<1>2. PICK a \in 1..Len(t), b \in 1..Len(t) :
        /\ a <= b /\ TrimSpace(t) = SubSeq(t, a, b)
        /\ \A i \in 1..Len(t) : t[i] \notin Blank => a <= i /\ i <= b
  BY <1>1, TrimCut
<1>3. a = 1 /\ b = Len(t)
  BY <1>1, <1>2
<1> QED
  BY <1>2, <1>3, SubSeqFull

\* Trimming twice is trimming once.
LEMMA TrimTwice ==
  ASSUME NEW C, NEW t \in Seq(C)
  PROVE  TrimSpace(TrimSpace(t)) = TrimSpace(t)
<1>1. CASE TrimSpace(t) = <<>>
  BY <1>1, TrimBlank
<1>2. CASE TrimSpace(t) # <<>>
  BY <1>2, TrimText, TrimmedStays
<1> QED
  BY <1>1, <1>2

\* Trimming and lower case do not mind their order.
LEMMA TrimLower ==
  ASSUME NEW t \in Seq(Char)
  PROVE  TrimSpace(ToLower(t)) = ToLower(TrimSpace(t))
<1> DEFINE ink(u) == {i \in DOMAIN u : u[i] \notin Blank}
<1>1. /\ \A i \in 1..Len(t) : t[i] \in Char
      /\ DOMAIN t = 1..Len(t) /\ Len(t) \in Nat
      /\ DOMAIN ToLower(t) = 1..Len(t)
      /\ \A i \in 1..Len(t) : ToLower(t)[i] = Lower[t[i]]
  BY LowerText, ElementOfSeq
<1>2. ink(ToLower(t)) = ink(t)
  BY <1>1, Signs
<1>3. CASE ink(t) = {}
  <2>1. TrimSpace(t) = <<>> /\ TrimSpace(ToLower(t)) = <<>>
    BY <1>2, <1>3, TrimBlank
  <2> QED
    BY <2>1 DEF ToLower
<1>4. CASE ink(t) # {}
  <2>1. ink(t) \subseteq 1..Len(t)
    BY <1>1
  <2>2. Min(ink(t)) \in ink(t) /\ Max(ink(t)) \in ink(t)
    <3> HIDE DEF ink
    <3>1. ink(t) \subseteq Nat
      BY <2>1
    <3>2. Min(ink(t)) \in ink(t)
      BY <1>4, <3>1, FirstIndex
    <3>3. Max(ink(t)) \in ink(t)
      BY <1>1, <1>4, <2>1, LastIndex
    <3> QED
      BY <3>2, <3>3
  <2> DEFINE a == Min(ink(t))
             b == Max(ink(t))
  <2>3. TrimSpace(t) = SubSeq(t, a, b) /\ TrimSpace(ToLower(t)) = SubSeq(ToLower(t), a, b)
    BY <1>2, <1>4 DEF TrimSpace
  <2>4. a \in 1..Len(t) /\ b \in 1..Len(t)
    BY <2>1, <2>2
  <2> HIDE DEF a, b
  <2>5. /\ SubSeq(t, a, b) \in Seq(Char)
        /\ Len(SubSeq(t, a, b)) = IF a <= b THEN b - a + 1 ELSE 0
        /\ \A i \in 1..(b - a + 1) : SubSeq(t, a, b)[i] = t[a + i - 1]
    BY <1>1, <2>4, SubSeqProperties
  <2>6. /\ SubSeq(ToLower(t), a, b) \in Seq(Char)
        /\ Len(SubSeq(ToLower(t), a, b)) = IF a <= b THEN b - a + 1 ELSE 0
        /\ \A i \in 1..(b - a + 1) : SubSeq(ToLower(t), a, b)[i] = ToLower(t)[a + i - 1]
    <3>1. \A i \in a..b : ToLower(t)[i] \in Char
      BY <1>1, <2>4, Signs
    <3> QED
      BY <2>4, <3>1, SubSeqProperties
  <2>7. /\ ToLower(SubSeq(t, a, b)) \in Seq(Char)
        /\ Len(ToLower(SubSeq(t, a, b))) = Len(SubSeq(t, a, b))
        /\ \A i \in 1..Len(SubSeq(t, a, b)) :
             ToLower(SubSeq(t, a, b))[i] = Lower[SubSeq(t, a, b)[i]]
    BY <2>5, LowerText
  <2>8. \A i \in 1..Len(SubSeq(t, a, b)) :
          ToLower(SubSeq(t, a, b))[i] = SubSeq(ToLower(t), a, b)[i]
    BY <1>1, <2>4, <2>5, <2>6, <2>7
  <2>9. SubSeq(ToLower(t), a, b) = ToLower(SubSeq(t, a, b))
    BY <2>5, <2>6, <2>7, <2>8, SeqEqual
  <2> QED
    BY <2>3, <2>9
<1> QED
  BY <1>3, <1>4

\* An alias in its normal form stays as it is; its case does not matter.
LEMMA NormalText ==
  ASSUME NEW t \in Seq(Char)
  PROVE  /\ Normal(t) \in Seq(Char)
         /\ Normal(Normal(t)) = Normal(t) /\ Normal(ToLower(t)) = Normal(t)
<1>1. TrimSpace(t) \in Seq(Char)
  BY TrimText
<1>2. Normal(t) = ToLower(TrimSpace(t)) /\ Normal(t) \in Seq(Char)
  BY <1>1, LowerText DEF Normal
<1>3. TrimSpace(Normal(t)) = Normal(t)
  BY <1>1, <1>2, TrimLower, TrimTwice
<1>4. ToLower(Normal(t)) = Normal(t)
  BY <1>1, <1>2, LowerText
<1>5. Normal(ToLower(t)) = ToLower(ToLower(TrimSpace(t)))
  BY TrimLower DEF Normal
<1> QED
  BY <1>1, <1>2, <1>3, <1>4, <1>5, LowerText DEF Normal

(* Lists.                                                                  *)

\* f gives what Split has made of the first n characters of t, for each n up to m.
FieldsOf(f, t, sep, m) ==
  f = [n \in 0..m |->
         IF n = 0 THEN << <<>> >>
         ELSE IF t[n] = sep THEN Append(f[n - 1], <<>>)
         ELSE [f[n - 1] EXCEPT ![Len(f[n - 1])] = Append(@, t[n])]]

\* There is such a function, however long the text.
LEMMA FieldsExist ==
  ASSUME NEW t, NEW sep
  PROVE  \A m \in Nat : \E f : FieldsOf(f, t, sep, m)
<1> DEFINE S == {m \in Nat : \E f : FieldsOf(f, t, sep, m)}
<1>1. 0 \in S
  <2> DEFINE f == [n \in 0..0 |-> << <<>> >>]
  <2>1. FieldsOf(f, t, sep, 0)
    BY DEF FieldsOf
  <2> QED
    BY <2>1
<1>2. ASSUME NEW m \in Nat, m \in S PROVE m + 1 \in S
  <2>1. PICK g : FieldsOf(g, t, sep, m)
    BY <1>2
  <2> DEFINE last == IF t[m + 1] = sep THEN Append(g[m], <<>>)
                     ELSE [g[m] EXCEPT ![Len(g[m])] = Append(@, t[m + 1])]
             f == [n \in 0..(m + 1) |-> IF n = m + 1 THEN last ELSE g[n]]
             body(h, n) == IF n = 0 THEN << <<>> >>
                           ELSE IF t[n] = sep THEN Append(h[n - 1], <<>>)
                           ELSE [h[n - 1] EXCEPT ![Len(h[n - 1])] = Append(@, t[n])]
  <2>2. \A n \in 0..m : g[n] = body(g, n)
    BY <2>1 DEF FieldsOf
  <2>3. \A n \in 0..m : f[n] = g[n]
    OBVIOUS
  <2>4. \A n \in 0..m : n = 0 \/ f[n - 1] = g[n - 1]
    BY <2>3
  <2>5. \A n \in 0..m : f[n] = body(f, n)
    <3> HIDE DEF f
    <3> QED
      BY <2>2, <2>3, <2>4
  <2>6. f[m + 1] = body(f, m + 1)
    <3>1. f[m + 1] = last /\ f[(m + 1) - 1] = g[m]
      OBVIOUS
    <3> HIDE DEF f
    <3> QED
      BY <3>1
  <2>7. \A n \in 0..(m + 1) : f[n] = body(f, n)
    <3> HIDE DEF f, body
    <3> QED
      BY <2>5, <2>6
  <2>8. f = [n \in 0..(m + 1) |-> f[n]]
    OBVIOUS
  <2>9. f = [n \in 0..(m + 1) |-> body(f, n)]
    <3> HIDE DEF f, body
    <3> QED
      BY <2>7, <2>8
  <2>10. FieldsOf(f, t, sep, m + 1)
    <3> HIDE DEF f
    <3> QED
      BY <2>9 DEF FieldsOf
  <2> HIDE DEF f
  <2> QED
    BY <2>10
<1> HIDE DEF S
<1>3. \A m \in Nat : m \in S
  BY <1>1, <1>2, Counting
<1> QED
  BY <1>3 DEF S

\* f is such a function, for the whole text.
SplitBy(f, t, sep) ==
  /\ f[0] = << <<>> >>
  /\ \A n \in 1..Len(t) :
       f[n] = IF t[n] = sep THEN Append(f[n - 1], <<>>)
              ELSE [f[n - 1] EXCEPT ![Len(f[n - 1])] = Append(@, t[n])]

\* So Split is what such a function says of the whole text.
LEMMA SplitFields ==
  ASSUME NEW t, Len(t) \in Nat, NEW sep
  PROVE  \E f : Split(t, sep) = f[Len(t)] /\ SplitBy(f, t, sep)
<1>1. Len(t) \in Nat
  OBVIOUS
<1>2. \E f : FieldsOf(f, t, sep, Len(t))
  BY FieldsExist
<1>3. \E f : f = [n \in 0..Len(t) |->
                    IF n = 0 THEN << <<>> >>
                    ELSE IF t[n] = sep THEN Append(f[n - 1], <<>>)
                    ELSE [f[n - 1] EXCEPT ![Len(f[n - 1])] = Append(@, t[n])]]
             /\ Split(t, sep) = f[Len(t)]
  BY <1>2 DEF FieldsOf, Split
<1>4. PICK f : f = [n \in 0..Len(t) |->
                    IF n = 0 THEN << <<>> >>
                    ELSE IF t[n] = sep THEN Append(f[n - 1], <<>>)
                    ELSE [f[n - 1] EXCEPT ![Len(f[n - 1])] = Append(@, t[n])]]
             /\ Split(t, sep) = f[Len(t)]
  BY <1>3
<1> DEFINE body(n) == IF n = 0 THEN << <<>> >>
                      ELSE IF t[n] = sep THEN Append(f[n - 1], <<>>)
                      ELSE [f[n - 1] EXCEPT ![Len(f[n - 1])] = Append(@, t[n])]
<1>5. f = [n \in 0..Len(t) |-> body(n)]
  BY <1>4
<1>6. \A n \in 0..Len(t) : f[n] = body(n)
  <2> HIDE DEF body
  <2> QED
    BY <1>5
<1>7. f[0] = << <<>> >>
  <2>1. 0 \in 0..Len(t) /\ body(0) = << <<>> >>
    BY <1>1
  <2> HIDE DEF body
  <2> QED
    BY <1>6, <2>1
<1>8. \A n \in 1..Len(t) : f[n] = IF t[n] = sep THEN Append(f[n - 1], <<>>)
                            ELSE [f[n - 1] EXCEPT ![Len(f[n - 1])] = Append(@, t[n])]
  <2> TAKE n \in 1..Len(t)
  <2>1. n \in 0..Len(t) /\ n # 0
    BY <1>1
  <2>2. f[n] = body(n)
    BY <1>6, <2>1
  <2> QED
    BY <2>1, <2>2
<1>9. SplitBy(f, t, sep)
  BY <1>7, <1>8 DEF SplitBy
<1> QED
  BY <1>4, <1>9

\* Split gives at least one field, and no field has a separator.
LEMMA SplitType ==
  ASSUME NEW C, NEW t \in Seq(C), NEW sep
  PROVE  Split(t, sep) \in Seq(Seq(C \ {sep})) /\ Split(t, sep) # <<>>
<1>1. PICK f : Split(t, sep) = f[Len(t)] /\ SplitBy(f, t, sep)
  <2>1. Len(t) \in Nat
    OBVIOUS
  <2> QED
    BY <2>1, SplitFields
<1> DEFINE S == {m \in Nat : m <= Len(t) =>
                   f[m] \in Seq(Seq(C \ {sep})) /\ Len(f[m]) > 0}
<1>2. 0 \in S
  <2>1. <<>> \in Seq(C \ {sep})
    OBVIOUS
  <2>2. << <<>> >> \in Seq(Seq(C \ {sep})) /\ Len(<< <<>> >>) = 1
    BY <2>1
  <2>3. f[0] = << <<>> >>
    BY <1>1 DEF SplitBy
  <2>4. f[0] \in Seq(Seq(C \ {sep})) /\ Len(f[0]) = 1
    BY <2>2, <2>3, Zenon
  <2> QED
    BY <2>4
<1>3. ASSUME NEW m \in Nat, m \in S PROVE m + 1 \in S
  <2> SUFFICES ASSUME m + 1 <= Len(t)
               PROVE  f[m + 1] \in Seq(Seq(C \ {sep})) /\ Len(f[m + 1]) > 0
    OBVIOUS
  <2>1. m + 1 \in 1..Len(t) /\ (m + 1) - 1 = m /\ t[m + 1] \in C
    OBVIOUS
  <2>2. f[m] \in Seq(Seq(C \ {sep})) /\ Len(f[m]) \in 1..Len(f[m])
    BY <1>3
  <2>3. f[m + 1] = IF t[m + 1] = sep THEN Append(f[m], <<>>)
                   ELSE [f[m] EXCEPT ![Len(f[m])] = Append(@, t[m + 1])]
    BY <1>1, <2>1 DEF SplitBy
  <2>4. CASE t[m + 1] = sep
    <3>1. <<>> \in Seq(C \ {sep})
      OBVIOUS
    <3> QED
      BY <2>2, <2>3, <2>4, <3>1, AppendProperties
  <2>5. CASE t[m + 1] # sep
    <3>1. f[m][Len(f[m])] \in Seq(C \ {sep})
      BY <2>2, ElementOfSeq
    <3>2. Append(f[m][Len(f[m])], t[m + 1]) \in Seq(C \ {sep})
      BY <2>1, <2>5, <3>1, AppendProperties
    <3>3. f[m + 1] = [f[m] EXCEPT ![Len(f[m])] = Append(f[m][Len(f[m])], t[m + 1])]
      BY <2>2, <2>3, <2>5
    <3> QED
      BY <2>2, <3>2, <3>3, ExceptSeq
  <2> QED
    BY <2>4, <2>5
<1> HIDE DEF S
<1>4. Len(t) \in S
  BY <1>2, <1>3, Counting
<1>5. Split(t, sep) \in Seq(Seq(C \ {sep})) /\ Len(Split(t, sep)) > 0
  BY <1>1, <1>4 DEF S
<1> QED
  BY <1>5

\* A text without a separator is one field.
LEMMA SplitWhole ==
  ASSUME NEW sep, NEW C, NEW t \in Seq(C \ {sep})
  PROVE  Split(t, sep) = <<t>>
<1>1. PICK f : Split(t, sep) = f[Len(t)] /\ SplitBy(f, t, sep)
  <2>1. Len(t) \in Nat
    OBVIOUS
  <2> QED
    BY <2>1, SplitFields
<1> DEFINE S == {m \in Nat : m <= Len(t) => f[m] = <<SubSeq(t, 1, m)>>}
<1>2. 0 \in S
  <2>1. f[0] = << <<>> >> /\ SubSeq(t, 1, 0) = <<>>
    BY <1>1, SubSeqEmpty DEF SplitBy
  <2> QED
    BY <2>1
<1>3. ASSUME NEW m \in Nat, m \in S PROVE m + 1 \in S
  <2> SUFFICES ASSUME m + 1 <= Len(t) PROVE f[m + 1] = <<SubSeq(t, 1, m + 1)>>
    OBVIOUS
  <2>1. m + 1 \in 1..Len(t) /\ (m + 1) - 1 = m /\ t[m + 1] # sep
    OBVIOUS
  <2>2. f[m] = <<SubSeq(t, 1, m)>>
    BY <1>3
  <2>3. f[m + 1] = [f[m] EXCEPT ![Len(f[m])] = Append(@, t[m + 1])]
    BY <1>1, <2>1 DEF SplitBy
  <2>4. f[m + 1] = <<Append(SubSeq(t, 1, m), t[m + 1])>>
    BY <2>2, <2>3
  <2>5. Append(SubSeq(t, 1, m), t[m + 1]) = SubSeq(t, 1, m + 1)
    <3>1. \A i \in 1..(m + 1) : t[i] \in C
      OBVIOUS
    <3>2. /\ SubSeq(t, 1, m) \in Seq(C) /\ Len(SubSeq(t, 1, m)) = m
          /\ \A i \in 1..m : SubSeq(t, 1, m)[i] = t[i]
      BY <3>1, SubSeqProperties
    <3>3. /\ SubSeq(t, 1, m + 1) \in Seq(C) /\ Len(SubSeq(t, 1, m + 1)) = m + 1
          /\ \A i \in 1..(m + 1) : SubSeq(t, 1, m + 1)[i] = t[i]
      BY <3>1, SubSeqProperties
    <3>4. /\ Append(SubSeq(t, 1, m), t[m + 1]) \in Seq(C)
          /\ Len(Append(SubSeq(t, 1, m), t[m + 1])) = m + 1
          /\ \A i \in 1..(m + 1) : Append(SubSeq(t, 1, m), t[m + 1])[i] = t[i]
      BY <3>1, <3>2, AppendProperties
    <3> QED
      BY <3>3, <3>4, SeqEqual
  <2> QED
    BY <2>4, <2>5
<1> HIDE DEF S
<1>4. Len(t) \in S
  BY <1>2, <1>3, Counting
<1>5. Split(t, sep) = <<SubSeq(t, 1, Len(t))>>
  BY <1>1, <1>4 DEF S
<1> QED
  BY <1>5, SubSeqFull

\* h gives what ParseCSV keeps of the first n fields, for each n up to m.
EntriesOf(h, parts, m) ==
  h = [n \in 0..m |->
         IF n = 0 THEN <<>>
         ELSE IF TrimSpace(parts[n]) = <<>> THEN h[n - 1]
         ELSE Append(h[n - 1], TrimSpace(parts[n]))]

\* There is such a function, however many fields there are.
LEMMA EntriesExist ==
  ASSUME NEW parts
  PROVE  \A m \in Nat : \E h : EntriesOf(h, parts, m)
<1> DEFINE S == {m \in Nat : \E h : EntriesOf(h, parts, m)}
<1>1. 0 \in S
  <2> DEFINE h == [n \in 0..0 |-> <<>>]
  <2>1. EntriesOf(h, parts, 0)
    BY DEF EntriesOf
  <2> QED
    BY <2>1
<1>2. ASSUME NEW m \in Nat, m \in S PROVE m + 1 \in S
  <2>1. PICK g : EntriesOf(g, parts, m)
    BY <1>2
  <2> DEFINE last == IF TrimSpace(parts[m + 1]) = <<>> THEN g[m]
                     ELSE Append(g[m], TrimSpace(parts[m + 1]))
             h == [n \in 0..(m + 1) |-> IF n = m + 1 THEN last ELSE g[n]]
             body(k, n) == IF n = 0 THEN <<>>
                           ELSE IF TrimSpace(parts[n]) = <<>> THEN k[n - 1]
                           ELSE Append(k[n - 1], TrimSpace(parts[n]))
  <2>2. \A n \in 0..m : g[n] = body(g, n)
    BY <2>1 DEF EntriesOf
  <2>3. \A n \in 0..m : h[n] = g[n]
    OBVIOUS
  <2>4. \A n \in 0..m : n = 0 \/ h[n - 1] = g[n - 1]
    BY <2>3
  <2>5. \A n \in 0..m : h[n] = body(h, n)
    <3> HIDE DEF h
    <3> QED
      BY <2>2, <2>3, <2>4
  <2>6. h[m + 1] = body(h, m + 1)
    <3>1. h[m + 1] = last /\ h[(m + 1) - 1] = g[m]
      OBVIOUS
    <3> HIDE DEF h
    <3> QED
      BY <3>1
  <2>7. \A n \in 0..(m + 1) : h[n] = body(h, n)
    <3> HIDE DEF h, body
    <3> QED
      BY <2>5, <2>6
  <2>8. h = [n \in 0..(m + 1) |-> h[n]]
    OBVIOUS
  <2>9. h = [n \in 0..(m + 1) |-> body(h, n)]
    <3> HIDE DEF h, body
    <3> QED
      BY <2>7, <2>8
  <2>10. EntriesOf(h, parts, m + 1)
    <3> HIDE DEF h
    <3> QED
      BY <2>9 DEF EntriesOf
  <2> HIDE DEF h
  <2> QED
    BY <2>10
<1> HIDE DEF S
<1>3. \A m \in Nat : m \in S
  BY <1>1, <1>2, Counting
<1> QED
  BY <1>3 DEF S

\* h is such a function, for all the fields.
ListBy(h, parts) ==
  /\ h[0] = <<>>
  /\ \A n \in 1..Len(parts) :
       h[n] = IF TrimSpace(parts[n]) = <<>> THEN h[n - 1]
              ELSE Append(h[n - 1], TrimSpace(parts[n]))

\* So ParseCSV is what such a function says of all of them.
LEMMA ListEntries ==
  ASSUME NEW raw, Len(Split(raw, Comma)) \in Nat
  PROVE  \E h : ParseCSV(raw) = h[Len(Split(raw, Comma))] /\ ListBy(h, Split(raw, Comma))
<1> DEFINE parts == Split(raw, Comma)
<1>1. \E h : EntriesOf(h, parts, Len(parts))
  BY EntriesExist
<1>2. PICK h : h = [n \in 0..Len(parts) |->
                     IF n = 0 THEN <<>>
                     ELSE IF TrimSpace(parts[n]) = <<>> THEN h[n - 1]
                     ELSE Append(h[n - 1], TrimSpace(parts[n]))]
               /\ ParseCSV(raw) = h[Len(parts)]
  BY <1>1 DEF EntriesOf, ParseCSV
<1> DEFINE body(n) == IF n = 0 THEN <<>>
                      ELSE IF TrimSpace(parts[n]) = <<>> THEN h[n - 1]
                      ELSE Append(h[n - 1], TrimSpace(parts[n]))
<1>3. h = [n \in 0..Len(parts) |-> body(n)]
  BY <1>2
<1>4. \A n \in 0..Len(parts) : h[n] = body(n)
  <2> HIDE DEF body
  <2> QED
    BY <1>3
<1>5. h[0] = <<>>
  <2>1. 0 \in 0..Len(parts) /\ body(0) = <<>>
    OBVIOUS
  <2> HIDE DEF body
  <2> QED
    BY <1>4, <2>1
<1>6. \A n \in 1..Len(parts) :
        h[n] = IF TrimSpace(parts[n]) = <<>> THEN h[n - 1]
               ELSE Append(h[n - 1], TrimSpace(parts[n]))
  <2> TAKE n \in 1..Len(parts)
  <2>1. n \in 0..Len(parts) /\ n # 0
    OBVIOUS
  <2>2. h[n] = body(n)
    BY <1>4, <2>1
  <2> QED
    BY <2>1, <2>2
<1>7. ListBy(h, parts)
  BY <1>5, <1>6 DEF ListBy
<1> QED
  BY <1>2, <1>7

\* What ParseCSV gives: what the trimming leaves of the fields, and nothing else.
LEMMA ListContents ==
  ASSUME NEW C, NEW raw \in Seq(C)
  PROVE  /\ ParseCSV(raw) \in Seq(Seq(C \ {Comma}))
         /\ \A j \in 1..Len(ParseCSV(raw)) : \E i \in 1..Len(Split(raw, Comma)) :
              /\ ParseCSV(raw)[j] = TrimSpace(Split(raw, Comma)[i])
              /\ ParseCSV(raw)[j] # <<>>
         /\ \A i \in 1..Len(Split(raw, Comma)) :
              TrimSpace(Split(raw, Comma)[i]) # <<>> =>
                \E j \in 1..Len(ParseCSV(raw)) :
                  ParseCSV(raw)[j] = TrimSpace(Split(raw, Comma)[i])
<1> DEFINE parts == Split(raw, Comma)
           D == Seq(C \ {Comma})
<1>1. parts \in Seq(D) /\ Len(parts) \in Nat /\ \A i \in 1..Len(parts) : parts[i] \in D
  BY SplitType, ElementOfSeq
<1>2. \A i \in 1..Len(parts) : TrimSpace(parts[i]) \in D
  BY <1>1, TrimText
<1>3. PICK h : ParseCSV(raw) = h[Len(parts)] /\ ListBy(h, parts)
  BY <1>1, ListEntries
<1> DEFINE Sound(n) == \A j \in 1..Len(h[n]) : \E i \in 1..n :
                         h[n][j] = TrimSpace(parts[i]) /\ h[n][j] # <<>>
           Full(n) == \A i \in 1..n : TrimSpace(parts[i]) # <<>> =>
                         \E j \in 1..Len(h[n]) : h[n][j] = TrimSpace(parts[i])
           S == {n \in Nat : n <= Len(parts) => h[n] \in Seq(D) /\ Sound(n) /\ Full(n)}
<1>4. 0 \in S
  <2>1. h[0] = <<>>
    BY <1>3 DEF ListBy
  <2> HIDE DEF D
  <2>2. h[0] \in Seq(D) /\ Len(h[0]) = 0
    BY <2>1
  <2>3. 1..Len(h[0]) = {} /\ 1..0 = {}
    BY <2>2
  <2> QED
    BY <2>2, <2>3
<1>5. ASSUME NEW n \in Nat, n \in S PROVE n + 1 \in S
  <2> SUFFICES ASSUME n + 1 <= Len(parts)
               PROVE  h[n + 1] \in Seq(D) /\ Sound(n + 1) /\ Full(n + 1)
    <3> HIDE DEF Sound, Full, D, parts
    <3> QED
      OBVIOUS
  <2> DEFINE e == TrimSpace(parts[n + 1])
  <2>1. n + 1 \in 1..Len(parts) /\ (n + 1) - 1 = n
    BY <1>1
  <2>2. e \in D
    BY <1>2, <2>1
  <2>3. h[n + 1] = IF e = <<>> THEN h[n] ELSE Append(h[n], e)
    BY <1>3, <2>1 DEF ListBy
  <2> HIDE DEF D, parts
  <2>4. h[n] \in Seq(D) /\ Len(h[n]) \in Nat /\ Sound(n) /\ Full(n)
    BY <1>1, <1>5
  <2>5. CASE e = <<>>
    <3>1. h[n + 1] = h[n]
      BY <2>3, <2>5
    <3>2. Sound(n + 1)
      BY <2>4, <3>1
    <3>3. \A i \in 1..(n + 1) : TrimSpace(parts[i]) # <<>> => i \in 1..n
      BY <2>5
    <3>4. Full(n + 1)
      BY <2>4, <3>1, <3>3
    <3> QED
      BY <2>4, <3>1, <3>2, <3>4
  <2>6. CASE e # <<>>
    <3>1. h[n + 1] = Append(h[n], e)
      BY <2>3, <2>6
    <3> HIDE DEF e
    <3>2. /\ h[n + 1] \in Seq(D) /\ Len(h[n + 1]) = Len(h[n]) + 1
          /\ \A j \in 1..Len(h[n]) : h[n + 1][j] = h[n][j]
          /\ h[n + 1][Len(h[n]) + 1] = e
      BY <2>2, <2>4, <3>1, AppendProperties
    <3>3. Sound(n + 1)
      <4> SUFFICES ASSUME NEW j \in 1..Len(h[n + 1])
                   PROVE  \E i \in 1..(n + 1) :
                            h[n + 1][j] = TrimSpace(parts[i]) /\ h[n + 1][j] # <<>>
        OBVIOUS
      <4>1. CASE j \in 1..Len(h[n])
        <5>1. PICK i \in 1..n : h[n][j] = TrimSpace(parts[i]) /\ h[n][j] # <<>>
          BY <2>4, <4>1
        <5>2. i \in 1..(n + 1) /\ h[n + 1][j] = h[n][j]
          BY <3>2, <4>1
        <5> QED
          BY <5>1, <5>2
      <4>2. CASE j = Len(h[n]) + 1
        <5>1. h[n + 1][j] = TrimSpace(parts[n + 1]) /\ h[n + 1][j] # <<>>
          BY <2>6, <3>2, <4>2 DEF e
        <5>2. n + 1 \in 1..(n + 1)
          OBVIOUS
        <5> QED
          BY <5>1, <5>2
      <4> QED
        BY <2>4, <3>2, <4>1, <4>2
    <3>4. Full(n + 1)
      <4> SUFFICES ASSUME NEW i \in 1..(n + 1), TrimSpace(parts[i]) # <<>>
                   PROVE  \E j \in 1..Len(h[n + 1]) : h[n + 1][j] = TrimSpace(parts[i])
        OBVIOUS
      <4>1. CASE i \in 1..n
        <5>1. PICK j \in 1..Len(h[n]) : h[n][j] = TrimSpace(parts[i])
          BY <2>4, <4>1
        <5>2. j \in 1..Len(h[n + 1])
          BY <2>4, <3>2, <5>1
        <5>3. h[n + 1][j] = TrimSpace(parts[i])
          BY <3>2, <5>1
        <5> QED
          BY <5>2, <5>3
      <4>2. CASE i = n + 1
        <5>1. Len(h[n]) + 1 \in 1..Len(h[n + 1])
          BY <2>4, <3>2
        <5> QED
          BY <3>2, <4>2, <5>1 DEF e
      <4> QED
        BY <4>1, <4>2
    <3> QED
      BY <3>2, <3>3, <3>4
  <2> QED
    BY <2>5, <2>6
<1>6. Len(parts) \in S
  <2> HIDE DEF S, parts
  <2> QED
    BY <1>1, <1>4, <1>5, Counting
<1>7. h[Len(parts)] \in Seq(D) /\ Sound(Len(parts)) /\ Full(Len(parts))
  <2> HIDE DEF D, parts
  <2> QED
    BY <1>1, <1>6
<1> QED
  BY <1>3, <1>7

-----------------------------------------------------------------------------
(* The texts as aliases and as lists.                                      *)

\* A list of blanks and commas has no entries.
LEMMA BlankList ==
  ASSUME NEW raw \in Seq(Blank \cup {Comma})
  PROVE  ParseCSV(raw) = <<>>
<1> DEFINE parts == Split(raw, Comma)
<1>1. \A i \in 1..Len(parts) : TrimSpace(parts[i]) = <<>>
  <2> SUFFICES ASSUME NEW i \in 1..Len(parts) PROVE TrimSpace(parts[i]) = <<>>
    OBVIOUS
  <2>1. parts[i] \in Seq((Blank \cup {Comma}) \ {Comma})
    BY SplitType, ElementOfSeq
  <2>2. \A k \in DOMAIN parts[i] : parts[i][k] \in Blank
    BY <2>1, ElementOfSeq
  <2> QED
    BY <2>2, TrimBlank
<1> HIDE DEF parts
<1>2. /\ ParseCSV(raw) \in Seq(Seq((Blank \cup {Comma}) \ {Comma}))
      /\ \A j \in 1..Len(ParseCSV(raw)) : \E i \in 1..Len(parts) :
           ParseCSV(raw)[j] = TrimSpace(parts[i]) /\ ParseCSV(raw)[j] # <<>>
  BY ListContents DEF parts
<1>3. ~ (1 \in 1..Len(ParseCSV(raw)))
  BY <1>1, <1>2
<1> QED
  BY <1>2, <1>3, EmptySeq

\* The domain of the model is a list of one entry.
LEMMA DomainIsListed == ParseCSV(ManagedDomain) # <<>>
<1>1. ManagedDomain \in Seq(Char \ {Comma})
  BY DomainAssumption, SeqMonotonic
<1>2. Split(ManagedDomain, Comma) = <<ManagedDomain>>
  BY <1>1, SplitWhole
<1>3. TrimSpace(ManagedDomain) = ManagedDomain /\ ManagedDomain # <<>>
  BY DomainAssumption, TrimmedStays
<1>4. 1 \in 1..Len(Split(ManagedDomain, Comma)) /\ Split(ManagedDomain, Comma)[1] = ManagedDomain
  BY <1>2
<1>5. ManagedDomain \in Seq(Char)
  BY DomainAssumption, SeqMonotonic
<1>6. /\ ParseCSV(ManagedDomain) \in Seq(Seq(Char \ {Comma}))
      /\ TrimSpace(Split(ManagedDomain, Comma)[1]) # <<>> =>
           \E j \in 1..Len(ParseCSV(ManagedDomain)) :
             ParseCSV(ManagedDomain)[j] = TrimSpace(Split(ManagedDomain, Comma)[1])
  BY <1>4, <1>5, ListContents
<1>7. PICK j \in 1..Len(ParseCSV(ManagedDomain)) : TRUE
  BY <1>3, <1>4, <1>6
<1> QED
  BY <1>7

\* The entries of a list are trimmed texts.
LEMMA ListMembers ==
  ASSUME NEW raw \in Seq(Char), NEW d \in ToSet(ParseCSV(raw))
  PROVE  d \in Seq(Char) /\ d # <<>> /\ TrimSpace(d) = d
<1>1. ParseCSV(raw) \in Seq(Seq(Char \ {Comma}))
  BY ListContents
<1>0. DOMAIN ParseCSV(raw) = 1..Len(ParseCSV(raw))
  BY <1>1
<1>2. PICK j \in 1..Len(ParseCSV(raw)) : d = ParseCSV(raw)[j]
  BY <1>0 DEF ToSet
<1>3. PICK i \in 1..Len(Split(raw, Comma)) : d = TrimSpace(Split(raw, Comma)[i]) /\ d # <<>>
  BY <1>2, ListContents
<1>4. Split(raw, Comma)[i] \in Seq(Char \ {Comma})
  BY SplitType, ElementOfSeq
<1>5. d \in Seq(Char \ {Comma}) /\ TrimSpace(d) = d
  BY <1>3, <1>4, TrimText, TrimTwice
<1> QED
  BY <1>3, <1>5, SeqMonotonic

\* EqualFold finds a name in a lower-case text when it has no letter like U+0130 and
\* differs from the text in nothing but spelling.
LEMMA FoldsWithLower ==
  ASSUME NEW s \in Seq(Char), NEW e \in Seq(Char)
  PROVE  EqualFold(ToLower(s), e) <=> EqualFold(ToLower(s), ToLower(e)) /\ Steady(e)
<1>1. /\ DOMAIN s = 1..Len(s) /\ DOMAIN e = 1..Len(e)
      /\ \A i \in 1..Len(s) : s[i] \in Char
      /\ \A i \in 1..Len(e) : e[i] \in Char
      /\ Len(s) \in Nat /\ Len(e) \in Nat
  BY ElementOfSeq
<1>2. /\ DOMAIN ToLower(s) = 1..Len(s) /\ \A i \in 1..Len(s) : ToLower(s)[i] = Lower[s[i]]
      /\ DOMAIN ToLower(e) = 1..Len(e) /\ \A i \in 1..Len(e) : ToLower(e)[i] = Lower[e[i]]
  BY LowerText
<1> DEFINE l == ToLower(s)
           m == ToLower(e)
<1> HIDE DEF l, m
<1>6. /\ DOMAIN l = 1..Len(s) /\ \A i \in 1..Len(s) : l[i] = Lower[s[i]]
      /\ DOMAIN m = 1..Len(e) /\ \A i \in 1..Len(e) : m[i] = Lower[e[i]]
  BY <1>2 DEF l, m
<1>3. EqualFold(l, e) <=>
        1..Len(s) = 1..Len(e) /\ \A i \in 1..Len(s) : Fold[Lower[s[i]]] = Fold[e[i]]
  <2>1. [i \in DOMAIN l |-> Fold[l[i]]] = [i \in 1..Len(s) |-> Fold[Lower[s[i]]]]
    BY <1>6
  <2>2. [i \in DOMAIN e |-> Fold[e[i]]] = [i \in 1..Len(e) |-> Fold[e[i]]]
    BY <1>1
  <2>3. EqualFold(l, e) <=>
          [i \in 1..Len(s) |-> Fold[Lower[s[i]]]] = [i \in 1..Len(e) |-> Fold[e[i]]]
    BY <2>1, <2>2 DEF EqualFold
  <2> QED
    BY <2>3
<1>4. EqualFold(l, m) <=>
        1..Len(s) = 1..Len(e) /\ \A i \in 1..Len(s) : Fold[Lower[s[i]]] = Fold[Lower[e[i]]]
  <2>1. /\ [i \in 1..Len(s) |-> Fold[l[i]]] = [i \in 1..Len(s) |-> Fold[Lower[s[i]]]]
        /\ [i \in 1..Len(e) |-> Fold[m[i]]] = [i \in 1..Len(e) |-> Fold[Lower[e[i]]]]
    BY <1>6
  <2> QED
    BY <1>6, <2>1 DEF EqualFold
<1>5. \A i \in 1..Len(s) : i \in 1..Len(e) /\ Fold[Lower[s[i]]] = Fold[e[i]] =>
        Fold[Lower[e[i]]] = Fold[e[i]]
  BY <1>1, CharAssumption
<1>7. Steady(e) <=> \A i \in 1..Len(e) : Fold[Lower[e[i]]] = Fold[e[i]]
  BY <1>1 DEF Steady
<1>8. EqualFold(l, e) <=> EqualFold(l, m) /\ Steady(e)
  BY <1>3, <1>4, <1>5, <1>7
<1> QED
  BY <1>8 DEF l, m

\* The case and the blanks of an alias do not matter.
LEMMA OneVerdict ==
  ASSUME text \in Seq(Char)
  PROVE  OneVerdictPerAlias
<1>1. Normal(Normal(text)) = Normal(text)
  BY NormalText
<1> QED
  BY <1>1 DEF OneVerdictPerAlias, ValidateAlias, TooLong, IsExtra

\* The members of a sequence are of its type.
LEMMA Members ==
  ASSUME NEW D, NEW s \in Seq(D), NEW x \in ToSet(s)
  PROVE  x \in D
<1>1. DOMAIN s = 1..Len(s)
  OBVIOUS
<1>2. PICK i \in 1..Len(s) : x = s[i]
  BY <1>1 DEF ToSet
<1> QED
  BY <1>2, ElementOfSeq

\* An alias is refused for the names on the list that differ from it in spelling, if
\* they are without U+0130, and for no others.
LEMMA Refusals ==
  ASSUME text \in Seq(Char)
  PROVE  ListedNamesAreRefused
<1> DEFINE fields == Split(text, Comma)
           names == ToSet(ParseCSV(text))
<1> SUFFICES ASSUME NEW a \in ToSet(fields), NEW extra \in SUBSET names,
                    ValidateAlias(a, {}) = ""
             PROVE  ValidateAlias(a, extra) =
                      IF \E e \in extra : SameName(a, e) /\ Steady(e)
                      THEN "alias_reserved" ELSE ""
  BY DEF ListedNamesAreRefused
<1>1. TrimSpace(a) \in Seq(Char)
  <2> DEFINE D == Seq(Char \ {Comma})
  <2>1. fields \in Seq(D)
    BY SplitType
  <2>2. a \in D
    <3> HIDE DEF fields, D
    <3> QED
      BY <2>1, Members
  <2> QED
    BY <2>2, TrimText, SeqMonotonic
<1>2. ASSUME NEW e \in extra
      PROVE  EqualFold(Normal(a), TrimSpace(e)) <=> SameName(a, e) /\ Steady(e)
  <2>1. e \in Seq(Char) /\ TrimSpace(e) = e
    BY ListMembers
  <2>2. Normal(a) = ToLower(TrimSpace(a)) /\ Normal(e) = ToLower(e)
    BY <2>1 DEF Normal
  <2> QED
    BY <1>1, <2>1, <2>2, FoldsWithLower DEF SameName
<1>3. IsExtra(a, extra) <=> \E e \in extra : SameName(a, e) /\ Steady(e)
  BY <1>2 DEF IsExtra
<1>4. /\ Normal(a) # <<>> /\ ~TooLong(a)
      /\ ToSet(Normal(a)) \cap Banned = {} /\ DotAtom(Normal(a))
      /\ Normal(a) \notin Reserved
  BY DEF ValidateAlias
<1> QED
  BY <1>3, <1>4 DEF ValidateAlias

\* An entry of the list is found again, whatever its case.
LEMMA Entries ==
  ASSUME text \in Seq(Char)
  PROVE  EveryEntryIsServed
<1> DEFINE parts == Split(text, Comma)
           list == ParseCSV(text)
<1>1. list \in Seq(Seq(Char \ {Comma})) /\ DOMAIN list = 1..Len(list)
  BY ListContents
<1>2. ASSUME NEW i \in DOMAIN parts, TrimSpace(parts[i]) # <<>>
      PROVE  \E d \in ResolveDomain(parts[i], list) :
               ToLower(d) = ToLower(TrimSpace(parts[i]))
  <2> DEFINE same == {j \in DOMAIN list : ToLower(list[j]) = ToLower(TrimSpace(parts[i]))}
  <2>1. i \in 1..Len(parts)
    BY <1>2, SplitType
  <2>4. PICK j \in 1..Len(list) : list[j] = TrimSpace(parts[i])
    BY <1>2, <2>1, ListContents
  <2>5. j \in same
    BY <1>1, <2>4
  <2>6. same \subseteq Nat /\ same # {}
    <3>1. same \subseteq 1..Len(list)
      BY <1>1
    <3> QED
      BY <2>5, <3>1
  <2>7. Min(same) \in same
    <3> HIDE DEF same
    <3> QED
      BY <2>6, FirstIndex
  <2>8. ResolveDomain(parts[i], list) = {list[Min(same)]}
    BY <1>2, <2>6 DEF ResolveDomain
  <2>9. Min(same) \in 1..Len(list) /\ ToLower(list[Min(same)]) = ToLower(TrimSpace(parts[i]))
    BY <1>1, <2>7
  <2> QED
    BY <2>8, <2>9
<1>3. \A d \in ToSet(list) : d # <<>> /\ TrimSpace(d) = d
  BY ListMembers
<1> QED
  BY <1>2, <1>3 DEF EveryEntryIsServed

-----------------------------------------------------------------------------
(* The text as an address.                                                 *)

\* What IsSuffix says, character by character.
LEMMA SuffixText ==
  ASSUME NEW s \in Seq(Char), NEW t \in Seq(Char)
  PROVE  IsSuffix(s, t) <=>
           /\ Len(s) <= Len(t)
           /\ \A i \in 1..Len(s) : s[i] = t[(Len(t) - Len(s)) + i]
<1>1. /\ Len(s) \in Nat /\ Len(t) \in Nat
      /\ \A i \in 1..Len(s) : s[i] \in Char
      /\ \A i \in 1..Len(t) : t[i] \in Char
  BY ElementOfSeq
<1> DEFINE rs == Reverse(s)
           rt == Reverse(t)
<1>2. /\ rs \in Seq(Char) /\ Len(rs) = Len(s)
      /\ \A i \in 1..Len(s) : rs[i] = s[(Len(s) - i) + 1] /\ rs[i] \in Char
  <2>1. \A i \in 1..Len(s) : (Len(s) - i) + 1 \in 1..Len(s)
    BY <1>1
  <2>2. rs = [i \in 1..Len(s) |-> s[(Len(s) - i) + 1]]
    BY DEF Reverse
  <2>3. rs \in [1..Len(s) -> Char]
    BY <1>1, <2>1, <2>2
  <2> QED
    BY <1>1, <2>2, <2>3
<1>3. /\ rt \in Seq(Char) /\ Len(rt) = Len(t)
      /\ \A i \in 1..Len(t) : rt[i] = t[(Len(t) - i) + 1] /\ rt[i] \in Char
  <2>1. \A i \in 1..Len(t) : (Len(t) - i) + 1 \in 1..Len(t)
    BY <1>1
  <2>2. rt = [i \in 1..Len(t) |-> t[(Len(t) - i) + 1]]
    BY DEF Reverse
  <2>3. rt \in [1..Len(t) -> Char]
    BY <1>1, <2>1, <2>2
  <2> QED
    BY <1>1, <2>2, <2>3
<1>4. IsSuffix(s, t) <=> Len(rs) <= Len(rt) /\ SubSeq(rs, 1, Len(rs)) = SubSeq(rt, 1, Len(rs))
  BY DEF IsSuffix, IsPrefix
<1> HIDE DEF rs, rt
<1>5. SubSeq(rs, 1, Len(rs)) = rs
  BY <1>2, SubSeqFull
<1>6. CASE Len(s) <= Len(t)
  <2>1. /\ SubSeq(rt, 1, Len(s)) \in Seq(Char) /\ Len(SubSeq(rt, 1, Len(s))) = Len(s)
        /\ \A i \in 1..Len(s) : SubSeq(rt, 1, Len(s))[i] = rt[i]
    <3>1. \A i \in 1..Len(s) : rt[i] \in Char
      BY <1>1, <1>3, <1>6
    <3> QED
      BY <1>1, <3>1, SubSeqProperties
  <2>2. rs = SubSeq(rt, 1, Len(s)) <=> \A i \in 1..Len(s) : rs[i] = rt[i]
    BY <1>2, <2>1, SeqEqual
  <2>3. \A i \in 1..Len(s) : rs[i] = rt[i] <=> s[(Len(s) - i) + 1] = t[(Len(t) - i) + 1]
    BY <1>1, <1>2, <1>3, <1>6
  <2>4. ASSUME \A i \in 1..Len(s) : rs[i] = rt[i], NEW i \in 1..Len(s)
        PROVE  s[i] = t[(Len(t) - Len(s)) + i]
    <3> DEFINE j == (Len(s) - i) + 1
    <3>1. j \in 1..Len(s) /\ (Len(s) - j) + 1 = i /\ (Len(t) - j) + 1 = (Len(t) - Len(s)) + i
      BY <1>1
    <3> HIDE DEF j
    <3>2. s[(Len(s) - j) + 1] = t[(Len(t) - j) + 1]
      BY <2>3, <2>4, <3>1
    <3> QED
      BY <3>1, <3>2
  <2>5. ASSUME \A i \in 1..Len(s) : s[i] = t[(Len(t) - Len(s)) + i], NEW i \in 1..Len(s)
        PROVE  rs[i] = rt[i]
    <3> DEFINE j == (Len(s) - i) + 1
    <3>1. j \in 1..Len(s) /\ (Len(t) - Len(s)) + j = (Len(t) - i) + 1
      BY <1>1
    <3>2. s[j] = t[(Len(t) - Len(s)) + j]
      BY <2>5, <3>1
    <3> QED
      BY <2>3, <3>1, <3>2
  <2> QED
    BY <1>2, <1>3, <1>4, <1>5, <1>6, <2>2, <2>4, <2>5
<1> QED
  BY <1>2, <1>3, <1>4, <1>6

\* The domain of an address is what follows its last "@".
LEMMA Hosts ==
  ASSUME text \in Seq(Char)
  PROVE  HostDecides
<1> DEFINE lower == ToLower(TrimSpace(text))
           domain == ToLower(TrimSpace(ManagedDomain))
           suffix == Suffix(ManagedDomain)
           n == Len(lower)
           m == Len(domain)
           rest == n - (m + 1)
           ats == {i \in DOMAIN lower : lower[i] = At}
           Ends == rest > 0 /\ lower[rest + 1] = At
                   /\ \A i \in 1..m : domain[i] = lower[(rest + 1) + i]
           Host == ats # {} /\ Max(ats) > 1 /\ SubSeq(lower, Max(ats) + 1, n) = domain
<1>1. lower \in Seq(Char) /\ n \in Nat /\ DOMAIN lower = 1..n
  BY TrimText, LowerText
<1>2. domain \in Seq(Char) /\ m \in Nat /\ \A i \in 1..m : domain[i] # At
  <2>1. ManagedDomain \in Seq(Char \ {At, Comma})
    BY DomainAssumption
  <2>2. TrimSpace(ManagedDomain) \in Seq(Char \ {At, Comma})
    BY <2>1, TrimText
  <2>3. TrimSpace(ManagedDomain) \in Seq(Char)
    BY <2>2, SeqMonotonic
  <2>4. \A i \in 1..Len(TrimSpace(ManagedDomain)) :
          TrimSpace(ManagedDomain)[i] \in Char /\ TrimSpace(ManagedDomain)[i] # At
    BY <2>2, ElementOfSeq
  <2>5. /\ domain \in Seq(Char) /\ m = Len(TrimSpace(ManagedDomain))
        /\ \A i \in 1..m : domain[i] = Lower[TrimSpace(ManagedDomain)[i]]
    BY <2>3, LowerText
  <2> QED
    BY <2>4, <2>5, Signs
<1>3. /\ suffix \in Seq(Char) /\ Len(suffix) = m + 1 /\ suffix[1] = At
      /\ \A i \in 1..m : suffix[i + 1] = domain[i]
  <2>1. suffix = <<At>> \o domain
    BY DEF Suffix
  <2>2. <<At>> \in Seq(Char) /\ Len(<<At>>) = 1 /\ <<At>>[1] = At
    BY CharAssumption
  <2> HIDE DEF suffix, domain
  <2>3. /\ <<At>> \o domain \in Seq(Char) /\ Len(<<At>> \o domain) = Len(<<At>>) + m
        /\ \A i \in 1..(Len(<<At>>) + m) :
             (<<At>> \o domain)[i] = IF i <= Len(<<At>>) THEN <<At>>[i] ELSE domain[i - Len(<<At>>)]
    BY <1>2, <2>2, ConcatProperties
  <2> QED
    BY <1>2, <2>1, <2>2, <2>3
<1>4. LocalPart(text, ManagedDomain) =
        IF IsSuffix(suffix, lower) /\ n - Len(suffix) > 0
        THEN {SubSeq(lower, 1, n - Len(suffix))} ELSE {}
  BY DEF LocalPart
<1>5. HostDecides <=>
        LocalPart(text, ManagedDomain) = IF Host THEN {SubSeq(lower, 1, Max(ats) - 1)} ELSE {}
  BY DEF HostDecides
<1> HIDE DEF lower, domain, suffix
<1>6. rest > 0 => (IsSuffix(suffix, lower) <=> Ends)
  <2> SUFFICES ASSUME rest > 0 PROVE IsSuffix(suffix, lower) <=> Ends
    OBVIOUS
  <2>1. IsSuffix(suffix, lower) <=>
          /\ m + 1 <= n
          /\ \A i \in 1..(m + 1) : suffix[i] = lower[(n - (m + 1)) + i]
    <3>1. IsSuffix(suffix, lower) <=>
            /\ Len(suffix) <= n
            /\ \A i \in 1..Len(suffix) : suffix[i] = lower[(n - Len(suffix)) + i]
      BY <1>1, <1>3, SuffixText
    <3> QED
      BY <1>3, <3>1
  <2>2. m + 1 <= n
    BY <1>1, <1>2
  <2>3. ASSUME \A i \in 1..(m + 1) : suffix[i] = lower[(n - (m + 1)) + i] PROVE Ends
    <3>1. suffix[1] = lower[(n - (m + 1)) + 1]
      BY <1>2, <2>3
    <3>2. ASSUME NEW i \in 1..m PROVE domain[i] = lower[(rest + 1) + i]
      <4>1. i + 1 \in 1..(m + 1) /\ (n - (m + 1)) + (i + 1) = (rest + 1) + i
        BY <1>1, <1>2
      <4>2. suffix[i + 1] = lower[(n - (m + 1)) + (i + 1)]
        BY <2>3, <4>1
      <4> QED
        BY <1>3, <4>1, <4>2
    <3> QED
      BY <1>3, <3>1, <3>2
  <2>4. ASSUME Ends, NEW i \in 1..(m + 1) PROVE suffix[i] = lower[(n - (m + 1)) + i]
    <3>1. CASE i = 1
      BY <1>3, <2>4, <3>1
    <3>2. CASE i # 1
      <4>1. i - 1 \in 1..m /\ (i - 1) + 1 = i /\ (rest + 1) + (i - 1) = (n - (m + 1)) + i
        BY <1>1, <1>2, <3>2
      <4>2. suffix[(i - 1) + 1] = domain[i - 1]
        BY <1>3, <4>1
      <4>3. domain[i - 1] = lower[(rest + 1) + (i - 1)]
        BY <2>4, <4>1
      <4> QED
        BY <4>1, <4>2, <4>3
    <3> QED
      BY <3>1, <3>2
  <2> QED
    BY <2>1, <2>2, <2>3, <2>4
<1>7. \A i \in 1..n : lower[i] \in Char
  BY <1>1, ElementOfSeq
<1>8. \A a \in 1..(n + 1) :
        /\ SubSeq(lower, a, n) \in Seq(Char) /\ Len(SubSeq(lower, a, n)) = (n - a) + 1
        /\ \A i \in 1..((n - a) + 1) : SubSeq(lower, a, n)[i] = lower[(a + i) - 1]
  <2> TAKE a \in 1..(n + 1)
  <2>1. \A i \in a..n : lower[i] \in Char
    BY <1>1, <1>7
  <2>2. /\ SubSeq(lower, a, n) \in Seq(Char)
        /\ Len(SubSeq(lower, a, n)) = IF a <= n THEN (n - a) + 1 ELSE 0
        /\ \A i \in 1..((n - a) + 1) : SubSeq(lower, a, n)[i] = lower[(a + i) - 1]
    BY <1>1, <2>1, SubSeqProperties
  <2>3. a <= n \/ (n - a) + 1 = 0
    BY <1>1
  <2> QED
    BY <2>2, <2>3
<1>9. ASSUME rest > 0, Ends PROVE Host /\ Max(ats) = rest + 1
  <2>1. rest + 1 \in 1..n /\ rest + 2 \in 1..(n + 1) /\ rest \in Nat
    BY <1>1, <1>2, <1>9
  <2>2. rest + 1 \in ats
    BY <1>1, <1>9, <2>1
  <2>3. ASSUME NEW i \in ats PROVE i <= rest + 1
    <3> SUFFICES ASSUME i > rest + 1 PROVE FALSE
      BY <1>1, <2>1
    <3>1. i \in 1..n /\ lower[i] = At
      BY <1>1
    <3>2. i - (rest + 1) \in 1..m /\ (rest + 1) + (i - (rest + 1)) = i
      BY <1>1, <1>2, <3>1
    <3>3. domain[i - (rest + 1)] = lower[(rest + 1) + (i - (rest + 1))]
      BY <1>9, <3>2
    <3> QED
      BY <1>2, <3>1, <3>2, <3>3
  <2>4. ats \subseteq 1..n /\ ats # {}
    BY <1>1, <2>2
  <2>5. Max(ats) \in ats /\ \A i \in ats : i <= Max(ats)
    <3> HIDE DEF ats
    <3> QED
      BY <1>1, <2>4, LastIndex
  <2>6. Max(ats) = rest + 1
    <3> HIDE DEF ats
    <3>1. Max(ats) \in 1..n
      BY <2>4, <2>5
    <3> QED
      BY <1>1, <2>1, <2>2, <2>3, <2>5, <3>1
  <2>7. SubSeq(lower, rest + 2, n) = domain
    <3>1. /\ SubSeq(lower, rest + 2, n) \in Seq(Char) /\ Len(SubSeq(lower, rest + 2, n)) = m
          /\ \A i \in 1..m : SubSeq(lower, rest + 2, n)[i] = lower[((rest + 2) + i) - 1]
      <4>1. (n - (rest + 2)) + 1 = m
        BY <1>1, <1>2
      <4> HIDE DEF rest
      <4> QED
        BY <1>8, <2>1, <4>1
    <3>2. \A i \in 1..m : SubSeq(lower, rest + 2, n)[i] = domain[i]
      BY <1>1, <1>2, <1>9, <3>1
    <3> QED
      BY <1>2, <3>1, <3>2, SeqEqual
  <2>8. Max(ats) + 1 = rest + 2 /\ Max(ats) > 1
    BY <1>9, <2>1, <2>6
  <2>9. Host
    BY <2>4, <2>7, <2>8
  <2> QED
    BY <2>6, <2>9
<1>10. ASSUME Host PROVE rest > 0 /\ Ends
  <2>1. ats \subseteq 1..n /\ ats # {}
    BY <1>1, <1>10
  <2>2. Max(ats) \in ats
    <3> HIDE DEF ats
    <3> QED
      BY <1>1, <2>1, LastIndex
  <2> DEFINE a == Max(ats)
  <2>3. a \in 1..n /\ lower[a] = At /\ a > 1 /\ SubSeq(lower, a + 1, n) = domain
    BY <1>10, <2>1, <2>2
  <2> HIDE DEF a
  <2>4. a + 1 \in 1..(n + 1)
    BY <1>1, <2>3
  <2>5. /\ Len(SubSeq(lower, a + 1, n)) = (n - (a + 1)) + 1
        /\ \A i \in 1..((n - (a + 1)) + 1) : SubSeq(lower, a + 1, n)[i] = lower[((a + 1) + i) - 1]
    BY <1>8, <2>4
  <2>6. m = n - a
    <3>1. Len(SubSeq(lower, a + 1, n)) = m
      BY <2>3
    <3> HIDE DEF n, m
    <3> QED
      BY <1>1, <2>3, <2>5, <3>1
  <2>7. rest = a - 1
    BY <1>1, <1>2, <2>3, <2>6
  <2>8. ASSUME NEW i \in 1..m PROVE domain[i] = lower[a + i]
    <3>1. i \in 1..((n - (a + 1)) + 1) /\ ((a + 1) + i) - 1 = a + i
      BY <1>1, <2>3, <2>6
    <3>2. SubSeq(lower, a + 1, n)[i] = lower[((a + 1) + i) - 1]
      BY <2>5, <3>1
    <3> QED
      BY <2>3, <3>1, <3>2
  <2>9. a > 1 /\ lower[a] = At /\ a = rest + 1
    <3> HIDE DEF rest
    <3> QED
      BY <1>1, <2>3, <2>7
  <2>10. rest > 0
    <3> HIDE DEF rest
    <3> QED
      BY <1>1, <2>3, <2>7
  <2> HIDE DEF rest
  <2> QED
    BY <2>8, <2>9, <2>10
<1>11. CASE Host
  <2>1. rest > 0 /\ Ends /\ Max(ats) = rest + 1
    BY <1>9, <1>10, <1>11
  <2>2. n - Len(suffix) = rest /\ Max(ats) - 1 = rest
    BY <1>1, <1>2, <1>3, <2>1
  <2> HIDE DEF rest, Host, Ends, ats
  <2> QED
    BY <1>4, <1>5, <1>6, <1>11, <2>1, <2>2
<1>12. CASE ~Host
  <2>1. n - Len(suffix) = rest
    BY <1>3
  <2> HIDE DEF rest, Host, Ends, ats
  <2> QED
    BY <1>4, <1>5, <1>6, <1>9, <1>12, <2>1
<1> QED
  BY <1>11, <1>12

-----------------------------------------------------------------------------
(* The environment.                                                        *)

\* What was typed is a text, and a process has read the text that is there.
Typed == text \in Seq(Char)
Read == \A p \in start : p.env \in Environment /\ p.config = Config(p.env, text)

LEMMA TypedStays == ASSUME Typed, [SNext]_<<text, start>> PROVE Typed'
<1>1. ASSUME NEW c \in Char, Type(c) PROVE Typed'
  <2>1. text' = Append(text, c)
    BY <1>1 DEF Type
  <2> QED
    BY <2>1, AppendProperties DEF Typed
<1>2. CASE UNCHANGED text
  BY <1>2 DEF Typed
<1> QED
  BY <1>1, <1>2 DEF SNext, Next, Start

LEMMA ReadStays == ASSUME Read, [SNext]_<<text, start>> PROVE Read'
<1>1. CASE start = {} /\ Next /\ UNCHANGED start
  BY <1>1 DEF Read
<1>2. CASE Start
  <2>1. PICK e \in Environment : start' = {[env |-> e, config |-> Config(e, text)]}
    BY <1>2 DEF Start
  <2>2. text' = text
    BY <1>2 DEF Start
  <2> SUFFICES ASSUME NEW p \in start'
               PROVE  p.env \in Environment /\ p.config = Config(p.env, text')
    BY DEF Read
  <2>3. p = [env |-> e, config |-> Config(e, text)]
    BY <2>1
  <2> QED
    BY <2>2, <2>3
<1>3. CASE UNCHANGED <<text, start>>
  BY <1>3 DEF Read
<1> QED
  BY <1>1, <1>2, <1>3 DEF SNext

LEMMA Texts == SSpec => [](Typed /\ Read)
<1>1. SInit => Typed /\ Read
  BY DEF SInit, Init, Typed, Read
<1>2. Typed /\ Read /\ [SNext]_<<text, start>> => (Typed /\ Read)'
  BY TypedStays, ReadStays
<1> QED
  BY <1>1, <1>2, PTL DEF SSpec

\* The list of a process has an entry, or is missing.
LEMMA ListIsMissing ==
  ASSUME NEW e, NEW raw
  PROVE  /\ Config(e, raw).domains = <<>> <=> "FORWARDS_DOMAINS" \in Config(e, raw).missing
         /\ Refused(Config(e, raw)) <=> Config(e, raw).missing # {}
BY DEF Config, Missing, Refused, Required

\* A refusal names all that is missing, and otherwise there is all that is needed.
LEMMA Usable == ASSUME Read PROVE UsableOrExplained
<1> SUFFICES ASSUME NEW p \in start
             PROVE  LET c == p.config
                        Mended(v) == IF v \in c.missing THEN "x" ELSE p.env[v]
                        list == IF "FORWARDS_DOMAINS" \in c.missing THEN ManagedDomain ELSE text
                    IN IF Refused(c)
                         THEN ~Refused(Config([v \in DOMAIN p.env |-> Mended(v)], list))
                         ELSE c.url \notin {"", " "} /\ c.domains # <<>> /\ c.timeout > 0
  BY DEF UsableOrExplained
<1> DEFINE e == p.env
           c == p.config
           Mended(v) == IF v \in c.missing THEN "x" ELSE e[v]
           list == IF "FORWARDS_DOMAINS" \in c.missing THEN ManagedDomain ELSE text
           f == [v \in DOMAIN e |-> Mended(v)]
<1>1. e \in Environment /\ c = Config(e, text)
  BY DEF Read
<1>2. /\ c.missing = Missing(e, text) /\ c.domains = ParseCSV(text)
      /\ c.url = EnvOr(e.NATS_URL, "default")
      /\ c.timeout = AuthServiceTimeout(DurationOr(e.AUTH_SERVICE_REQUEST_TIMEOUT, 5))
  BY <1>1 DEF Config
<1>3. ~Refused(Config(f, list))
  <2>1. Required \subseteq DOMAIN e
    BY <1>1 DEF Environment, Required
  <2>2. \A v \in Required : f[v] = IF v \in c.missing THEN "x" ELSE e[v]
    BY <2>1
  <2> HIDE DEF e, c, f
  <2>3. ASSUME NEW v \in Required PROVE f[v] # ""
    <3>1. CASE e[v] = ""
      <4>1. v \in c.missing
        BY <1>2, <3>1 DEF Missing
      <4> QED
        BY <2>2, <4>1
    <3>2. CASE e[v] # ""
      BY <2>2, <3>2
    <3> QED
      BY <3>1, <3>2
  <2>4. ParseCSV(list) # <<>>
    <3>1. CASE "FORWARDS_DOMAINS" \in c.missing
      BY <3>1, DomainIsListed
    <3>2. CASE "FORWARDS_DOMAINS" \notin c.missing
      BY <1>2, <3>2 DEF Missing
    <3> QED
      BY <3>1, <3>2
  <2> HIDE DEF list
  <2>5. Missing(f, list) = {}
    BY <2>3, <2>4 DEF Missing
  <2>6. Config(f, list).missing = {}
    BY <2>5 DEF Config
  <2> QED
    BY <2>6, ListIsMissing
<1>4. ASSUME ~Refused(c)
      PROVE  c.url \notin {"", " "} /\ c.domains # <<>> /\ c.timeout > 0
  <2>1. c.domains # <<>>
    BY <1>4 DEF Refused
  <2>2. c.url \notin {"", " "}
    BY <1>2 DEF EnvOr
  <2>3. c.timeout > 0
    <3>1. DurationOr(e.AUTH_SERVICE_REQUEST_TIMEOUT, 5) \in {0, 5, 10}
      BY DEF DurationOr
    <3> QED
      BY <1>2, <3>1 DEF AuthServiceTimeout
  <2> QED
    BY <2>1, <2>2, <2>3
<1> QED
  BY <1>3, <1>4

\* A value that cannot be used has the effect of none.
LEMMA Unset == ASSUME Typed, Read PROVE UnusableIsUnset
<1> SUFFICES ASSUME NEW p \in start
             PROVE  p.config =
                      Config([v \in DOMAIN p.env |->
                                IF Unusable(v, p.env[v]) THEN "" ELSE p.env[v]],
                             IF ToSet(text) \subseteq Blank \cup {Comma} THEN <<>> ELSE text)
  BY DEF UnusableIsUnset
<1> DEFINE e == p.env
           list == IF ToSet(text) \subseteq Blank \cup {Comma} THEN <<>> ELSE text
           f == [v \in DOMAIN e |-> IF Unusable(v, e[v]) THEN "" ELSE e[v]]
<1>1. e \in Environment /\ p.config = Config(e, text)
  BY DEF Read
<1> HIDE DEF e
<1>2. ParseCSV(list) = ParseCSV(text)
  <2>1. CASE ToSet(text) \subseteq Blank \cup {Comma}
    <3>1. \A i \in 1..Len(text) : text[i] \in Blank \cup {Comma}
      BY <2>1 DEF Typed, ToSet
    <3>2. text \in Seq(Blank \cup {Comma})
      BY <3>1 DEF Typed
    <3>3. <<>> \in Seq(Blank \cup {Comma})
      OBVIOUS
    <3>4. ParseCSV(text) = <<>> /\ ParseCSV(<<>>) = <<>>
      BY <3>2, <3>3, BlankList
    <3> QED
      BY <2>1, <3>4
  <2>2. CASE ~ (ToSet(text) \subseteq Blank \cup {Comma})
    BY <2>2
  <2> QED
    BY <2>1, <2>2
<1>3. \A v \in DOMAIN e : f[v] = IF Unusable(v, e[v]) THEN "" ELSE e[v]
  OBVIOUS
<1> HIDE DEF list, f
<1>4. Missing(f, list) = Missing(e, text)
  <2>1. \A v \in Required : v \in DOMAIN e /\ e[v] \in {"", "x"} /\ v # "OTEL_TRACES_SAMPLER_ARG"
    BY <1>1 DEF Environment, Required
  <2>2. \A v \in Required : f[v] = e[v]
    BY <1>3, <2>1 DEF Unusable
  <2> QED
    BY <1>2, <2>2 DEF Missing
<1>5. EnvOr(f.NATS_URL, "default") = EnvOr(e.NATS_URL, "default")
  <2>1. "NATS_URL" \in DOMAIN e /\ e.NATS_URL \in {"", " ", "x"}
    BY <1>1 DEF Environment
  <2>2. f.NATS_URL = IF e.NATS_URL = " " THEN "" ELSE e.NATS_URL
    BY <1>3, <2>1 DEF Unusable
  <2> QED
    BY <2>1, <2>2 DEF EnvOr
<1>6. AuthServiceTimeout(DurationOr(f.AUTH_SERVICE_REQUEST_TIMEOUT, 5))
        = AuthServiceTimeout(DurationOr(e.AUTH_SERVICE_REQUEST_TIMEOUT, 5))
  <2>1. /\ "AUTH_SERVICE_REQUEST_TIMEOUT" \in DOMAIN e
        /\ e.AUTH_SERVICE_REQUEST_TIMEOUT \in {"", " ", "?", "-1s", "0s", "10s"}
    BY <1>1 DEF Environment
  <2>2. f.AUTH_SERVICE_REQUEST_TIMEOUT
          = IF e.AUTH_SERVICE_REQUEST_TIMEOUT = "10s" THEN "10s" ELSE ""
    BY <1>3, <2>1 DEF Unusable
  <2> QED
    BY <2>1, <2>2 DEF DurationOr, AuthServiceTimeout
<1>7. Level(f.LOG_LEVEL) = Level(e.LOG_LEVEL)
  <2>1. "LOG_LEVEL" \in DOMAIN e /\ e.LOG_LEVEL \in {"", "?", "debug", "info", "warn", "error"}
    BY <1>1 DEF Environment
  <2>2. f.LOG_LEVEL = IF e.LOG_LEVEL = "?" THEN "" ELSE e.LOG_LEVEL
    BY <1>3, <2>1 DEF Unusable
  <2> QED
    BY <2>1, <2>2 DEF Level
<1>8. Sampler(f.OTEL_TRACES_SAMPLER, f.OTEL_TRACES_SAMPLER_ARG)
        = Sampler(e.OTEL_TRACES_SAMPLER, e.OTEL_TRACES_SAMPLER_ARG)
  <2>1. /\ "OTEL_TRACES_SAMPLER" \in DOMAIN e /\ "OTEL_TRACES_SAMPLER_ARG" \in DOMAIN e
        /\ e.OTEL_TRACES_SAMPLER \in
             {"", " ", "?", "always_on", "always_off", "traceidratio",
              "parentbased_always_on", "parentbased_always_off"}
        /\ e.OTEL_TRACES_SAMPLER_ARG \in {"", "?", "2", "0.5", "0"}
    BY <1>1 DEF Environment
  <2>2. f.OTEL_TRACES_SAMPLER
          = IF e.OTEL_TRACES_SAMPLER \in {" ", "?"} THEN "" ELSE e.OTEL_TRACES_SAMPLER
    BY <1>3, <2>1 DEF Unusable
  <2>3. /\ f.OTEL_TRACES_SAMPLER_ARG = "0" <=> e.OTEL_TRACES_SAMPLER_ARG = "0"
        /\ f.OTEL_TRACES_SAMPLER_ARG = "0.5" <=> e.OTEL_TRACES_SAMPLER_ARG = "0.5"
    BY <1>3, <2>1 DEF Unusable
  <2> QED
    BY <2>1, <2>2, <2>3 DEF Sampler
<1>9. Config(f, list) = Config(e, text)
  BY <1>2, <1>4, <1>5, <1>6, <1>7, <1>8 DEF Config
<1> QED
  BY <1>1, <1>9 DEF e, f, list

-----------------------------------------------------------------------------
(* The theorems.                                                           *)

\* An alias has one verdict: ValidateAlias trims and lowers it first, so that its
\* case and its blanks do not matter, and what it accepted and returned is accepted
\* when it is sent again.
THEOREM AliasesAreNormal == SSpec => []OneVerdictPerAlias
<1>1. Typed /\ Read => OneVerdictPerAlias
  BY OneVerdict DEF Typed
<1> QED
  BY <1>1, Texts, PTL

\* An acceptable alias is reserved by a list of extra names exactly when a name on it
\* differs from the alias in nothing but spelling and has no letter that EqualFold
\* does not equate with its lower case: no spelling gets around the list, and no
\* other name is refused for it.
THEOREM ListsReserve == SSpec => []ListedNamesAreRefused
<1>1. Typed /\ Read => ListedNamesAreRefused
  BY Refusals DEF Typed
<1> QED
  BY <1>1, Texts, PTL

\* A domain may be written in FORWARDS_DOMAINS with any spacing and any case: the
\* requests for it, spelled like that, find it.
THEOREM ListsServe == SSpec => []EveryEntryIsServed
<1>1. Typed /\ Read => EveryEntryIsServed
  BY Entries DEF Typed
<1> QED
  BY <1>1, Texts, PTL

\* GetAliasForDomain finds an address to lie on the domain exactly when the domain
\* is what follows its last "@", so that no alias that it returns contains one by
\* mistake and no other domain that ends alike is taken for it.
THEOREM AddressesHaveHosts == SSpec => []HostDecides
<1>1. Typed /\ Read => HostDecides
  BY Hosts DEF Typed
<1> QED
  BY <1>1, Texts, PTL

\* A process that goes on after AppConfigFromEnv has all that it needs, and one
\* that stops names all that is missing: with that added, the next one goes on.
THEOREM StartsAreUsable == SSpec => []UsableOrExplained
<1>1. Typed /\ Read => UsableOrExplained
  BY Usable
<1> QED
  BY <1>1, Texts, PTL

\* A value of the environment that cannot be used has the effect of none.
THEOREM UnusableValues == SSpec => []UnusableIsUnset
<1>1. Typed /\ Read => UnusableIsUnset
  BY Unset
<1> QED
  BY <1>1, Texts, PTL
=============================================================================
