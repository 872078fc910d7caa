------------------------- MODULE Attachments_proofs -------------------------
(***************************************************************************)
(* Proofs about the attachments: the list a caller fills (SmtpData) and    *)
(* how each goes onto the wire (Base64Stream), for lists and attachments   *)
(* of every length.                                                        *)
(*                                                                         *)
(* The list.  The number a loop takes, _index, is at most what was added   *)
(* since the vectors were freed, removed ones included (Counted): a loop   *)
(* that runs behind the vectors does so because some were removed.  Each   *)
(* round of a loop keeps that sum and the other type's attachments (Left); *)
(* induction over the rounds gives the whole loop.  For a removal by       *)
(* number the list is cut at the element that goes (Cut, Middle), and the  *)
(* matches before it are counted along the list (BeforeIs).                *)
(*                                                                         *)
(* The stream.  A full line and its line feed take 78 bytes, and the       *)
(* buffer holds exactly twelve of them, so the buffer is always at some    *)
(* number q of whole lines, at most eleven, and m groups of the next line. *)
(* The only filling that reaches the threshold of 932 bytes is the end of  *)
(* the twelfth line, where the buffer is full to the byte and starts       *)
(* again.                                                                  *)
(***************************************************************************)
EXTENDS SmtpData, Base64Stream, SequenceTheorems, FiniteSetTheorems, TLAPS

-----------------------------------------------------------------------------
\* Counting along a list.  The library's induction theorems take an operator as
\* a parameter; this is the same for sets of numbers.  Numbers below one that is
\* missing could be counted down: the step down maps the missing numbers
\* one to one into themselves, so it must reach the largest, and cannot.
LEMMA SetInduction ==
    ASSUME NEW S, 0 \in S, \A n \in Nat : n \in S => n + 1 \in S
    PROVE  Nat \subseteq S
<1> SUFFICES ASSUME NEW n \in Nat, n \notin S PROVE FALSE
  OBVIOUS
<1> DEFINE D == {k \in 0 .. n : k \notin S}
           down == [k \in D |-> k - 1]
<1>1. IsFiniteSet(D)
  <2>1. IsFiniteSet(0 .. n)
    BY FS_Interval
  <2>2. D \in SUBSET (0 .. n)
    OBVIOUS
  <2> QED
    BY <2>1, <2>2, FS_Subset
<1>2. \A k \in D : k \in Nat /\ k # 0 /\ k <= n /\ k - 1 \in D
  <2> SUFFICES ASSUME NEW k \in D PROVE k \in Nat /\ k # 0 /\ k <= n /\ k - 1 \in D
    OBVIOUS
  <2>1. k \in Nat /\ k # 0 /\ k <= n /\ k \notin S
    OBVIOUS
  <2>2. k - 1 \in Nat /\ (k - 1) + 1 = k
    BY <2>1
  <2> QED
    BY <2>1, <2>2
<1>3. n \in D
  OBVIOUS
<1> HIDE DEF D
<1>4. down \in Injection(D, D)
  BY <1>2 DEF Injection, IsInjective
<1>5. down \in Surjection(D, D)
  BY <1>1, <1>4, FS_Injection
<1>6. PICK k \in D : down[k] = n
  BY <1>3, <1>5 DEF Surjection
<1> QED
  BY <1>2, <1>6

\* ... up to a number.
LEMMA UpTo ==
    ASSUME NEW n \in Nat, NEW S, 0 \in S, \A k \in 1 .. n : k - 1 \in S => k \in S
    PROVE  \A k \in 0 .. n : k \in S
<1> DEFINE T == {k \in Nat : k <= n => k \in S}
<1>1. 0 \in T
  OBVIOUS
<1>2. \A k \in Nat : k \in T => k + 1 \in T
  <2> SUFFICES ASSUME NEW k \in Nat, k <= n => k \in S, k + 1 <= n PROVE k + 1 \in S
    OBVIOUS
  <2>1. k \in S /\ k + 1 \in 1 .. n /\ (k + 1) - 1 = k
    OBVIOUS
  <2> QED
    BY <2>1
<1> HIDE DEF T
<1>3. Nat \subseteq T
  BY <1>1, <1>2, SetInduction
<1> QED
  BY <1>3 DEF T

\* What is defined step by step exists.
Follows(f, base, step, n) ==
    f = [k \in 0 .. n |-> f[k]] /\ f[0] = base /\ \A k \in 1 .. n : f[k] = step[k][f[k - 1]]

LEMMA Recursion ==
    ASSUME NEW n \in Nat, NEW base, NEW step
    PROVE  \E f : Follows(f, base, step, n)
<1> DEFINE S == {m \in Nat : \E f : Follows(f, base, step, m)}
<1>1. 0 \in S
  <2> DEFINE f == [k \in 0 .. 0 |-> base]
  <2>1. f = [k \in 0 .. 0 |-> f[k]] /\ f[0] = base /\ 1 .. 0 = {}
    OBVIOUS
  <2> HIDE DEF f
  <2> QED
    BY <2>1 DEF Follows
<1>2. ASSUME NEW m \in Nat, m \in S PROVE m + 1 \in S
  <2>1. PICK f : Follows(f, base, step, m)
    BY <1>2
  <2> DEFINE v == step[m + 1][f[m]]
             g == [k \in 0 .. m + 1 |-> IF k = m + 1 THEN v ELSE f[k]]
  <2>2. /\ g = [k \in 0 .. m + 1 |-> g[k]]
        /\ g[m + 1] = v /\ \A k \in 0 .. m : g[k] = f[k]
    OBVIOUS
  <2> HIDE DEF g
  <2>3. ASSUME NEW k \in 1 .. m + 1 PROVE g[k] = step[k][g[k - 1]]
    <3>1. k - 1 \in 0 .. m /\ (k # m + 1 => k \in 1 .. m /\ k \in 0 .. m)
      OBVIOUS
    <3>2. g[k - 1] = f[k - 1]
      BY <2>2, <3>1
    <3>3. CASE k = m + 1
      BY <2>2, <3>2, <3>3
    <3>4. CASE k # m + 1
      BY <2>1, <2>2, <3>1, <3>2, <3>4 DEF Follows
    <3> QED
      BY <3>3, <3>4
  <2>4. g[0] = base
    <3>1. 0 \in 0 .. m /\ f[0] = base
      BY <2>1 DEF Follows
    <3>2. g[0] = f[0]
      BY <2>2, <3>1
    <3> QED
      BY <3>1, <3>2
  <2>5. Follows(g, base, step, m + 1)
    BY <2>2, <2>3, <2>4 DEF Follows
  <2> QED
    BY <2>5
<1> HIDE DEF S
<1>3. Nat \subseteq S
  BY <1>1, <1>2, SetInduction
<1> QED
  BY <1>3 DEF S

-----------------------------------------------------------------------------
\* The attachments of a type.

Selected(f, list, t) ==
    f = [n \in 0 .. Len(list) |->
           IF n = 0 THEN <<>>
           ELSE IF list[n].type = t THEN Append(f[n - 1], list[n]) ELSE f[n - 1]]
Selection(list, t) ==
    CHOOSE f : f = [n \in 0 .. Len(list) |->
                      IF n = 0 THEN <<>>
                      ELSE IF list[n].type = t THEN Append(f[n - 1], list[n]) ELSE f[n - 1]]

LEMMA OfTypeIs == \A list, t : OfType(list, t) = Selection(list, t)[Len(list)]
BY DEF OfType, Selection

LEMMA SelectedIs ==
    ASSUME NEW list \in Seq(Attachment), NEW t
    PROVE  LET f == Selection(list, t)
           IN  /\ f[0] = <<>> /\ \A n \in 0 .. Len(list) : f[n] \in Seq(Attachment)
               /\ \A n \in 1 .. Len(list) :
                     f[n] = IF list[n].type = t THEN Append(f[n - 1], list[n]) ELSE f[n - 1]
<1>n. PICK n \in Nat : n = Len(list)
  BY LenProperties
<1>1. \A k \in 1 .. n : list[k] \in Attachment
  BY <1>n, ElementOfSeq
<1> DEFINE V == Seq(Attachment)
           more(k, v) == IF list[k].type = t THEN Append(v, list[k]) ELSE v
           step == [k \in 1 .. n |-> [v \in V |-> more(k, v)]]
<1>2. \A k \in 1 .. n : \A v \in V : more(k, v) \in V
  BY <1>1, AppendProperties
<1>4. \A k \in 1 .. n : \A v \in V : step[k][v] = more(k, v)
  OBVIOUS
<1>5. <<>> \in V
  OBVIOUS
<1> HIDE DEF step, V, more
<1>6. PICK f : Follows(f, <<>>, step, n)
  BY Recursion
<1>7. \A k \in 0 .. n : f[k] \in V
  <2> DEFINE S == {k \in 0 .. n : f[k] \in V}
  <2>1. 0 \in S
    BY <1>5, <1>6 DEF Follows
  <2>2. ASSUME NEW k \in 1 .. n, k - 1 \in S PROVE k \in S
    <3>1. f[k - 1] \in V
      BY <2>2
    <3>2. f[k] = more(k, f[k - 1])
      BY <1>4, <1>6, <3>1 DEF Follows
    <3>3. f[k] \in V
      BY <1>2, <3>1, <3>2
    <3> QED
      BY <3>3
  <2> HIDE DEF S
  <2>3. \A k \in 0 .. n : k \in S
    BY <2>1, <2>2, UpTo
  <2> QED
    BY <2>3 DEF S
<1>8. ASSUME NEW k \in 1 .. n PROVE f[k] = more(k, f[k - 1])
  <2>1. k - 1 \in 0 .. n
    OBVIOUS
  <2>2. f[k - 1] \in V
    BY <1>7, <2>1
  <2> QED
    BY <1>4, <1>6, <2>2 DEF Follows
<1>9. Selected(f, list, t)
  <2> DEFINE e(k) == IF k = 0 THEN <<>> ELSE more(k, f[k - 1])
  <2>1. \A k \in 0 .. n : k = 0 \/ k \in 1 .. n
    OBVIOUS
  <2>2. \A k \in 0 .. n : f[k] = e(k)
    BY <1>6, <1>8, <2>1 DEF Follows
  <2> HIDE DEF e
  <2>3. f = [k \in 0 .. n |-> e(k)]
    <3>1. f = [k \in 0 .. n |-> f[k]]
      BY <1>6 DEF Follows
    <3> QED
      BY <2>2, <3>1
  <2> QED
    BY <1>n, <2>3 DEF Selected, e, more
<1>g. PICK g : g = Selection(list, t)
  OBVIOUS
<1>10. Selected(g, list, t)
  BY <1>9, <1>g DEF Selected, Selection
<1>11. DOMAIN g = 0 .. n /\ g[0] = <<>> /\ \A k \in 1 .. n : g[k] = more(k, g[k - 1])
  <2> DEFINE e(k) == IF k = 0 THEN <<>> ELSE more(k, g[k - 1])
  <2>1. g = [k \in 0 .. n |-> e(k)]
    BY <1>10, <1>n DEF Selected, more
  <2> HIDE DEF e
  <2>2. DOMAIN g = 0 .. n /\ \A k \in 0 .. n : g[k] = e(k)
    BY <2>1
  <2>3. 0 \in 0 .. n /\ \A k \in 1 .. n : k \in 0 .. n /\ k # 0
    OBVIOUS
  <2> QED
    BY <2>2, <2>3 DEF e
<1>12. \A k \in 0 .. n : f[k] = g[k]
  <2> DEFINE S == {k \in 0 .. n : f[k] = g[k]}
  <2>1. 0 \in S
    BY <1>6, <1>11 DEF Follows
  <2>2. ASSUME NEW k \in 1 .. n, k - 1 \in S PROVE k \in S
    <3>1. f[k - 1] = g[k - 1] /\ k \in 0 .. n
      BY <2>2
    <3>2. f[k] = g[k]
      BY <1>8, <1>11, <3>1
    <3> QED
      BY <3>1, <3>2
  <2> HIDE DEF S
  <2>3. \A k \in 0 .. n : k \in S
    BY <2>1, <2>2, UpTo
  <2> QED
    BY <2>3 DEF S
<1>13. \A k \in 0 .. n : g[k] \in V
  BY <1>7, <1>12
<1> QED
  BY <1>11, <1>13, <1>g, <1>n DEF V, more

LEMMA OfTypeMore ==
    ASSUME NEW t
    PROVE  /\ OfType(<<>>, t) = <<>>
           /\ \A list \in Seq(Attachment) :
                 /\ OfType(list, t) \in Seq(Attachment)
                 /\ \A x \in Attachment :
                       OfType(Append(list, x), t) =
                          IF x.type = t THEN Append(OfType(list, t), x) ELSE OfType(list, t)
<1>1. OfType(<<>>, t) = <<>>
  <2>0. <<>> \in Seq(Attachment)
    OBVIOUS
  <2>1. PICK none : none \in Seq(Attachment) /\ none = <<>>
    BY <2>0
  <2>2. Len(none) = 0
    BY <2>1, EmptySeq
  <2>3. Selection(none, t)[0] = <<>>
    BY <2>1, SelectedIs
  <2> QED
    BY <2>1, <2>2, <2>3, OfTypeIs
<1>2. ASSUME NEW list \in Seq(Attachment)
      PROVE  OfType(list, t) \in Seq(Attachment)
  <2>1. Len(list) \in 0 .. Len(list)
    BY LenProperties
  <2> QED
    BY <2>1, SelectedIs, OfTypeIs
<1>3. ASSUME NEW list \in Seq(Attachment), NEW x \in Attachment
      PROVE  OfType(Append(list, x), t) =
               IF x.type = t THEN Append(OfType(list, t), x) ELSE OfType(list, t)
  <2>n. PICK n \in Nat : n = Len(list)
    BY LenProperties
  <2>m. PICK more : more = Append(list, x)
    OBVIOUS
  <2>1. /\ more \in Seq(Attachment) /\ Len(more) = n + 1 /\ more[n + 1] = x
        /\ \A k \in 1 .. n : more[k] = list[k]
    BY <2>m, <2>n, AppendProperties
  <2>f. PICK f : f = Selection(list, t)
    OBVIOUS
  <2>g. PICK g : g = Selection(more, t)
    OBVIOUS
  <2>2. /\ f[0] = <<>>
        /\ \A k \in 1 .. n :
              f[k] = IF list[k].type = t THEN Append(f[k - 1], list[k]) ELSE f[k - 1]
    BY <2>n, <2>f, SelectedIs
  <2>3. /\ g[0] = <<>>
        /\ \A k \in 1 .. n + 1 :
              g[k] = IF more[k].type = t THEN Append(g[k - 1], more[k]) ELSE g[k - 1]
    BY <2>1, <2>g, SelectedIs
  <2>4. OfType(list, t) = f[n] /\ OfType(more, t) = g[n + 1]
    BY <2>1, <2>n, <2>f, <2>g, OfTypeIs
  <2>5. \A k \in 0 .. n : f[k] = g[k]
    <3> DEFINE S == {k \in 0 .. n : f[k] = g[k]}
    <3>1. ASSUME NEW k \in 1 .. n, k - 1 \in S PROVE k \in S
      <4>1. k \in 1 .. n + 1 /\ more[k] = list[k]
        BY <2>1
      <4>2. g[k] = IF more[k].type = t THEN Append(g[k - 1], more[k]) ELSE g[k - 1]
        BY <2>3, <4>1
      <4>3. f[k] = IF list[k].type = t THEN Append(f[k - 1], list[k]) ELSE f[k - 1]
        BY <2>2
      <4>4. f[k - 1] = g[k - 1] /\ k \in 0 .. n
        BY <3>1
      <4>5. f[k] = g[k]
        BY <4>1, <4>2, <4>3, <4>4
      <4> QED
        BY <4>4, <4>5
    <3>2. 0 \in S
      BY <2>2, <2>3
    <3> HIDE DEF S
    <3>3. \A k \in 0 .. n : k \in S
      BY <3>1, <3>2, UpTo
    <3> QED
      BY <3>3 DEF S
  <2>6. g[n] = f[n]
    BY <2>5
  <2>7. n + 1 \in 1 .. n + 1 /\ (n + 1) - 1 = n
    OBVIOUS
  <2>8. g[n + 1] = IF x.type = t THEN Append(g[n], x) ELSE g[n]
    BY <2>1, <2>3, <2>7
  <2> QED
    BY <2>4, <2>6, <2>8, <2>m
<1> QED
  BY <1>1, <1>2, <1>3

\* A list in two parts.
LEMMA OfTypeConcat ==
    ASSUME NEW t, NEW a \in Seq(Attachment), NEW b \in Seq(Attachment)
    PROVE  OfType(a \o b, t) = OfType(a, t) \o OfType(b, t)
<1>n. PICK n \in Nat : n = Len(b)
  BY LenProperties
<1> DEFINE First(k) == SubSeq(b, 1, k)
           S == {k \in 0 .. n : OfType(a \o First(k), t) = OfType(a, t) \o OfType(First(k), t)}
<1>1. \A k \in 0 .. n : First(k) \in Seq(Attachment)
  <2> SUFFICES ASSUME NEW k \in 0 .. n PROVE First(k) \in Seq(Attachment)
    OBVIOUS
  <2>1. \A i \in 1 .. k : b[i] \in Attachment
    <3>1. \A i \in 1 .. k : i \in 1 .. Len(b)
      BY <1>n
    <3> QED
      BY <3>1, ElementOfSeq
  <2>2. k \in Int /\ 1 \in Int
    OBVIOUS
  <2> QED
    BY <2>1, <2>2, SubSeqProperties
<1>2. 0 \in S
  <2>1. First(0) = <<>>
    BY SubSeqEmpty
  <2>2. a \o <<>> = a /\ OfType(a, t) \o <<>> = OfType(a, t)
    BY ConcatEmptySeq, OfTypeMore
  <2>3. OfType(a \o First(0), t) = OfType(a, t) \o OfType(First(0), t)
    BY <2>1, <2>2, OfTypeMore
  <2> HIDE DEF First
  <2> QED
    BY <2>3
<1>3. ASSUME NEW k \in 1 .. n, k - 1 \in S PROVE k \in S
  <2> DEFINE c == First(k - 1)
             x == b[k]
  <2>1. k - 1 \in 0 .. n /\ k \in 0 .. n
    OBVIOUS
  <2>2. c \in Seq(Attachment) /\ x \in Attachment
    BY <1>1, <1>n, <2>1, ElementOfSeq
  <2>3. First(k) = Append(c, x)
    <3>1. 1 \in 1 .. Len(b) /\ k \in 1 .. Len(b)
      BY <1>n
    <3>2. SubSeq(b, 1, k) = SubSeq(b, 1, k - 1) \o <<b[k]>>
      BY <3>1, SubSeqRecursiveSecond
    <3> QED
      BY <2>2, <3>2, AppendIsConcat
  <2>4. OfType(a \o c, t) = OfType(a, t) \o OfType(c, t)
    BY <1>3
  <2> HIDE DEF c, x, First
  <2>5. a \o c \in Seq(Attachment)
    BY <2>2, ConcatProperties
  <2>6. \A s1, s2 \in Seq(Attachment) : \A y \in Attachment :
           s1 \o Append(s2, y) = Append(s1 \o s2, y)
    <3> SUFFICES ASSUME NEW s1 \in Seq(Attachment), NEW s2 \in Seq(Attachment), NEW y \in Attachment
                 PROVE  s1 \o Append(s2, y) = Append(s1 \o s2, y)
      OBVIOUS
    <3>1. <<y>> \in Seq(Attachment) /\ s1 \o s2 \in Seq(Attachment)
      BY ConcatProperties
    <3>2. Append(s2, y) = s2 \o <<y>> /\ Append(s1 \o s2, y) = (s1 \o s2) \o <<y>>
      BY <3>1, AppendIsConcat
    <3> QED
      BY <3>1, <3>2, ConcatAssociative
  <2>7. OfType(a, t) \in Seq(Attachment) /\ OfType(c, t) \in Seq(Attachment)
    BY <2>2, OfTypeMore
  <2>8. ASSUME x.type = t
        PROVE  OfType(a \o First(k), t) = OfType(a, t) \o OfType(First(k), t)
    <3>1. OfType(Append(a \o c, x), t) = Append(OfType(a \o c, t), x)
      BY <2>2, <2>5, <2>8, OfTypeMore
    <3>2. OfType(Append(c, x), t) = Append(OfType(c, t), x)
      BY <2>2, <2>8, OfTypeMore
    <3>3. a \o Append(c, x) = Append(a \o c, x)
      BY <2>2, <2>6
    <3>4. OfType(a, t) \o Append(OfType(c, t), x) = Append(OfType(a, t) \o OfType(c, t), x)
      BY <2>2, <2>6, <2>7
    <3> QED
      BY <2>3, <2>4, <3>1, <3>2, <3>3, <3>4
  <2>9. ASSUME x.type # t
        PROVE  OfType(a \o First(k), t) = OfType(a, t) \o OfType(First(k), t)
    <3>1. OfType(Append(a \o c, x), t) = OfType(a \o c, t)
      BY <2>2, <2>5, <2>9, OfTypeMore
    <3>2. OfType(Append(c, x), t) = OfType(c, t)
      BY <2>2, <2>9, OfTypeMore
    <3>3. a \o Append(c, x) = Append(a \o c, x)
      BY <2>2, <2>6
    <3> QED
      BY <2>3, <2>4, <3>1, <3>2, <3>3
  <2>10. OfType(a \o First(k), t) = OfType(a, t) \o OfType(First(k), t)
    BY <2>8, <2>9
  <2> QED
    BY <2>1, <2>10
<1>4. n \in S
  <2> HIDE DEF S
  <2>1. \A k \in 0 .. n : k \in S
    BY <1>2, <1>3, UpTo
  <2> QED
    BY <2>1
<1>5. First(n) = b
  BY <1>n, SubSeqFull
<1> HIDE DEF First
<1> QED
  BY <1>4, <1>5

-----------------------------------------------------------------------------
\* A list cut at one of its elements.

LEMMA Cut ==
    ASSUME NEW E, NEW list \in Seq(E), NEW i \in Nat, i < Len(list)
    PROVE  LET x == list[i + 1]
               front == SubSeq(list, 1, i)
               back == SubSeq(list, i + 2, Len(list))
           IN  /\ x \in E /\ front \in Seq(E) /\ back \in Seq(E)
               /\ Len(front) = i
               /\ list = Append(front, x) \o back
               /\ RemoveAt(list, i + 1) = front \o back
               /\ RemoveAt(list, i + 1) \in Seq(E)
               /\ Len(RemoveAt(list, i + 1)) = Len(list) - 1
<1> DEFINE front == SubSeq(list, 1, i)
           back == SubSeq(list, i + 2, Len(list))
<1>n. PICK n \in Nat : n = Len(list)
  BY LenProperties
<1>1. \A k \in 1 .. n : list[k] \in E
  BY <1>n, ElementOfSeq
<1>2. list[i + 1] \in E
  BY <1>1, <1>n
<1>3. front \in Seq(E) /\ Len(front) = i
  <2>1. \A k \in 1 .. i : list[k] \in E
    BY <1>1, <1>n
  <2>2. 1 \in Int /\ i \in Int
    OBVIOUS
  <2> QED
    BY <2>1, <2>2, SubSeqProperties
<1>4. back \in Seq(E) /\ Len(back) = n - i - 1
  <2>1. \A k \in i + 2 .. n : list[k] \in E
    BY <1>1
  <2>2. i + 2 \in Int /\ n \in Int
    OBVIOUS
  <2>3. /\ SubSeq(list, i + 2, n) \in Seq(E)
        /\ Len(SubSeq(list, i + 2, n)) = IF i + 2 <= n THEN n - (i + 2) + 1 ELSE 0
    BY <2>1, <2>2, SubSeqProperties
  <2>4. (IF i + 2 <= n THEN n - (i + 2) + 1 ELSE 0) = n - i - 1
    BY <1>n
  <2> QED
    BY <1>n, <2>3, <2>4
<1>5. list = Append(front, list[i + 1]) \o back
  <2>1. i + 1 \in 1 .. Len(list) /\ 1 \in 1 .. Len(list)
    BY <1>n
  <2>2. SubSeq(list, 1, i + 1) = SubSeq(list, 1, (i + 1) - 1) \o <<list[i + 1]>>
    BY <2>1, SubSeqRecursiveSecond
  <2>3. (i + 1) - 1 = i /\ (i + 1) + 1 = i + 2
    OBVIOUS
  <2>4. SubSeq(list, 1, i + 1) = Append(front, list[i + 1])
    BY <1>2, <1>3, <2>2, <2>3, AppendIsConcat
  <2>5. 1 \in 1 .. Len(list) + 1 /\ i + 1 \in 1 - 1 .. Len(list) /\ Len(list) \in i + 1 .. Len(list)
    BY <1>n
  <2>6. SubSeq(list, 1, i + 1) \o SubSeq(list, (i + 1) + 1, Len(list)) = SubSeq(list, 1, Len(list))
    BY <2>5, ConcatAdjacentSubSeq
  <2>7. SubSeq(list, 1, Len(list)) = list
    BY SubSeqFull
  <2> QED
    BY <2>3, <2>4, <2>6, <2>7
<1>6. RemoveAt(list, i + 1) = front \o back
  <2>1. (i + 1) - 1 = i /\ (i + 1) + 1 = i + 2
    OBVIOUS
  <2> QED
    BY <2>1 DEF RemoveAt
<1> HIDE DEF front, back
<1>7. front \o back \in Seq(E) /\ Len(front \o back) = i + (n - i - 1)
  BY <1>3, <1>4, ConcatProperties
<1>8. i + (n - i - 1) = n - 1
  OBVIOUS
<1> QED
  BY <1>2, <1>3, <1>4, <1>5, <1>6, <1>7, <1>8, <1>n DEF front, back

LEMMA CutOfType ==
    ASSUME NEW list \in Seq(Attachment), NEW i \in Nat, i < Len(list), NEW t
    PROVE  LET x == list[i + 1]
               front == OfType(SubSeq(list, 1, i), t)
               back == OfType(SubSeq(list, i + 2, Len(list)), t)
           IN  /\ x \in Attachment /\ front \in Seq(Attachment) /\ back \in Seq(Attachment)
               /\ OfType(list, t) = IF x.type = t THEN Append(front, x) \o back ELSE front \o back
               /\ OfType(RemoveAt(list, i + 1), t) = front \o back
<1>x. PICK x : x = list[i + 1]
  OBVIOUS
<1>f. PICK front : front = SubSeq(list, 1, i)
  OBVIOUS
<1>b. PICK back : back = SubSeq(list, i + 2, Len(list))
  OBVIOUS
<1>1. /\ x \in Attachment /\ front \in Seq(Attachment) /\ back \in Seq(Attachment)
      /\ list = Append(front, x) \o back /\ RemoveAt(list, i + 1) = front \o back
  <2>1. /\ list[i + 1] \in Attachment /\ SubSeq(list, 1, i) \in Seq(Attachment)
        /\ SubSeq(list, i + 2, Len(list)) \in Seq(Attachment)
        /\ list = Append(SubSeq(list, 1, i), list[i + 1]) \o SubSeq(list, i + 2, Len(list))
        /\ RemoveAt(list, i + 1) = SubSeq(list, 1, i) \o SubSeq(list, i + 2, Len(list))
    BY Cut
  <2> QED
    BY <1>x, <1>f, <1>b, <2>1
<1>2. Append(front, x) \in Seq(Attachment)
  BY <1>1, AppendProperties
<1>3. OfType(list, t) = OfType(Append(front, x), t) \o OfType(back, t)
  <2>1. PICK more \in Seq(Attachment) : more = Append(front, x)
    BY <1>2
  <2>2. OfType(more \o back, t) = OfType(more, t) \o OfType(back, t)
    BY <1>1, OfTypeConcat
  <2> QED
    BY <1>1, <2>1, <2>2
<1>4. OfType(RemoveAt(list, i + 1), t) = OfType(front, t) \o OfType(back, t)
  <2>1. OfType(front \o back, t) = OfType(front, t) \o OfType(back, t)
    BY <1>1, OfTypeConcat
  <2> QED
    BY <1>1, <2>1
<1>5. /\ OfType(front, t) \in Seq(Attachment) /\ OfType(back, t) \in Seq(Attachment)
      /\ OfType(Append(front, x), t) =
           IF x.type = t THEN Append(OfType(front, t), x) ELSE OfType(front, t)
  BY <1>1, OfTypeMore
<1>6. OfType(list, t) = IF x.type = t THEN Append(OfType(front, t), x) \o OfType(back, t)
                        ELSE OfType(front, t) \o OfType(back, t)
  BY <1>3, <1>5
<1> QED
  BY <1>1, <1>4, <1>5, <1>6, <1>x, <1>f, <1>b

\* What is taken out of the middle.
LEMMA Middle ==
    ASSUME NEW front \in Seq(Attachment), NEW back \in Seq(Attachment), NEW x \in Attachment
    PROVE  LET all == Append(front, x) \o back
           IN  Len(front) < Len(all) /\ RemoveAt(all, Len(front) + 1) = front \o back
<1>a. PICK all : all = Append(front, x) \o back
  OBVIOUS
<1>n. PICK n \in Nat : n = Len(front)
  BY LenProperties
<1>m. PICK m \in Nat : m = Len(back)
  BY LenProperties
<1>1. /\ Append(front, x) \in Seq(Attachment) /\ Len(Append(front, x)) = n + 1
      /\ \A i \in 1 .. n : Append(front, x)[i] = front[i]
  BY <1>n, AppendProperties
<1>2. /\ all \in Seq(Attachment) /\ Len(all) = n + 1 + m
      /\ \A i \in 1 .. n + 1 + m :
            all[i] = IF i <= n + 1 THEN Append(front, x)[i] ELSE back[i - (n + 1)]
  <2>1. PICK s : s = Append(front, x)
    OBVIOUS
  <2>2. s \in Seq(Attachment) /\ Len(s) = n + 1 /\ Len(back) = m
    BY <1>1, <1>m, <2>1
  <2>3. /\ s \o back \in Seq(Attachment) /\ Len(s \o back) = Len(s) + Len(back)
        /\ \A i \in 1 .. Len(s) + Len(back) :
              (s \o back)[i] = IF i <= Len(s) THEN s[i] ELSE back[i - Len(s)]
    BY <2>2, ConcatProperties
  <2>4. \A i \in 1 .. n + 1 + m : all[i] = IF i <= n + 1 THEN s[i] ELSE back[i - (n + 1)]
    BY <1>a, <2>1, <2>2, <2>3
  <2> QED
    BY <1>a, <2>1, <2>2, <2>3, <2>4
<1>3. /\ \A i \in 1 .. n : all[i] = front[i]
      /\ \A i \in 1 .. m : all[n + 1 + i] = back[i]
  <2>1. ASSUME NEW i \in 1 .. n PROVE all[i] = front[i]
    BY <1>1, <1>2
  <2>2. ASSUME NEW i \in 1 .. m PROVE all[n + 1 + i] = back[i]
    <3>1. n + 1 + i \in 1 .. n + 1 + m /\ ~(n + 1 + i <= n + 1) /\ (n + 1 + i) - (n + 1) = i
      OBVIOUS
    <3> QED
      BY <1>2, <3>1
  <2> QED
    BY <2>1, <2>2
<1>4. SubSeq(all, 1, n) = front
  <2>1. \A i \in 1 .. n : all[i] \in Attachment
    BY <1>3, <1>n, ElementOfSeq
  <2>2. 1 \in Int /\ n \in Int /\ (n - 1) + 1 = n
    OBVIOUS
  <2>3. /\ SubSeq(all, 1, n) \in Seq(Attachment)
        /\ Len(SubSeq(all, 1, n)) = IF 1 <= n THEN n - 1 + 1 ELSE 0
        /\ \A i \in 1 .. n - 1 + 1 : SubSeq(all, 1, n)[i] = all[1 + i - 1]
    BY <2>1, <2>2, SubSeqProperties
  <2>4. Len(SubSeq(all, 1, n)) = Len(front)
    BY <2>3, <1>n
  <2>5. ASSUME NEW i \in 1 .. n PROVE SubSeq(all, 1, n)[i] = front[i]
    <3>1. i \in 1 .. n - 1 + 1 /\ 1 + i - 1 = i
      OBVIOUS
    <3> QED
      BY <1>3, <2>3, <3>1
  <2> QED
    BY <2>3, <2>4, <2>5, <1>n, SeqEqual
<1>5. SubSeq(all, n + 2, n + 1 + m) = back
  <2>1. ASSUME NEW i \in n + 2 .. n + 1 + m PROVE all[i] \in Attachment
    BY <1>2, ElementOfSeq
  <2>2. n + 2 \in Int /\ n + 1 + m \in Int
    OBVIOUS
  <2>3. /\ SubSeq(all, n + 2, n + 1 + m) \in Seq(Attachment)
        /\ Len(SubSeq(all, n + 2, n + 1 + m)) =
             IF n + 2 <= n + 1 + m THEN n + 1 + m - (n + 2) + 1 ELSE 0
        /\ \A i \in 1 .. n + 1 + m - (n + 2) + 1 :
              SubSeq(all, n + 2, n + 1 + m)[i] = all[n + 2 + i - 1]
    BY <2>1, <2>2, SubSeqProperties
  <2>4. Len(SubSeq(all, n + 2, n + 1 + m)) = Len(back)
    BY <2>3, <1>m
  <2>5. ASSUME NEW i \in 1 .. m PROVE SubSeq(all, n + 2, n + 1 + m)[i] = back[i]
    <3>1. i \in 1 .. n + 1 + m - (n + 2) + 1 /\ n + 2 + i - 1 = n + 1 + i
      OBVIOUS
    <3> QED
      BY <1>3, <2>3, <3>1
  <2> QED
    BY <2>3, <2>4, <2>5, <1>m, SeqEqual
<1>6. RemoveAt(all, n + 1) = front \o back
  <2>1. (n + 1) - 1 = n /\ (n + 1) + 1 = n + 2
    OBVIOUS
  <2> QED
    BY <1>2, <1>4, <1>5, <2>1 DEF RemoveAt
<1>7. n < n + 1 + m
  OBVIOUS
<1> QED
  BY <1>2, <1>6, <1>7, <1>a, <1>n

LEMMA OtherType ==
    ASSUME NEW list \in Seq(Attachment), NEW i \in Nat, i < Len(list), NEW t, list[i + 1].type # t
    PROVE  OfType(RemoveAt(list, i + 1), t) = OfType(list, t)
<1> DEFINE x == list[i + 1]
           front == OfType(SubSeq(list, 1, i), t)
           back == OfType(SubSeq(list, i + 2, Len(list)), t)
<1>1. /\ OfType(list, t) = IF x.type = t THEN Append(front, x) \o back ELSE front \o back
      /\ OfType(RemoveAt(list, i + 1), t) = front \o back
  BY CutOfType
<1> QED
  BY <1>1

-----------------------------------------------------------------------------
\* How many attachments of type t there are before a place.

Before(list, p, t) == Len(OfType(SubSeq(list, 1, p), t))
PlacesBefore(list, p, t) == {h \in 0 .. p - 1 : list[h + 1].type = t}

LEMMA BeforeSteps ==
    ASSUME NEW list \in Seq(Attachment), NEW t
    PROVE  /\ Before(list, 0, t) = 0
           /\ Before(list, Len(list), t) = Len(OfType(list, t))
           /\ \A p \in 0 .. Len(list) : Before(list, p, t) \in Nat
           /\ \A p \in 1 .. Len(list) :
                 Before(list, p, t) = Before(list, p - 1, t) + IF list[p].type = t THEN 1 ELSE 0
<1>n. PICK n \in Nat : n = Len(list)
  BY LenProperties
<1>1. Before(list, 0, t) = 0
  <2>1. SubSeq(list, 1, 0) = <<>>
    BY SubSeqEmpty
  <2>2. OfType(<<>>, t) = <<>>
    BY OfTypeMore
  <2> QED
    BY <2>1, <2>2, EmptySeq DEF Before
<1>2. Before(list, Len(list), t) = Len(OfType(list, t))
  BY SubSeqFull DEF Before
<1>3. ASSUME NEW p \in 0 .. n
      PROVE  SubSeq(list, 1, p) \in Seq(Attachment) /\ Before(list, p, t) \in Nat
  <2>1. ASSUME NEW i \in 1 .. p PROVE list[i] \in Attachment
    BY <1>n, ElementOfSeq
  <2>2. 1 \in Int /\ p \in Int
    OBVIOUS
  <2>3. SubSeq(list, 1, p) \in Seq(Attachment)
    BY <2>1, <2>2, SubSeqProperties
  <2>4. OfType(SubSeq(list, 1, p), t) \in Seq(Attachment)
    BY <2>3, OfTypeMore
  <2> QED
    BY <2>3, <2>4, LenProperties DEF Before
<1>4. ASSUME NEW p \in 1 .. n
      PROVE  Before(list, p, t) = Before(list, p - 1, t) + IF list[p].type = t THEN 1 ELSE 0
  <2>f. PICK front : front = SubSeq(list, 1, p - 1)
    OBVIOUS
  <2>1. front \in Seq(Attachment)
    <3>1. p - 1 \in 0 .. n
      OBVIOUS
    <3> QED
      BY <1>3, <2>f, <3>1
  <2>2. list[p] \in Attachment
    BY <1>n, ElementOfSeq
  <2>3. SubSeq(list, 1, p) = Append(front, list[p])
    <3>1. 1 \in 1 .. Len(list) /\ p \in 1 .. Len(list)
      BY <1>n
    <3>2. SubSeq(list, 1, p) = SubSeq(list, 1, p - 1) \o <<list[p]>>
      BY <3>1, SubSeqRecursiveSecond
    <3> QED
      BY <2>1, <2>2, <2>f, <3>2, AppendIsConcat
  <2>4. /\ OfType(front, t) \in Seq(Attachment)
        /\ OfType(Append(front, list[p]), t) =
             IF list[p].type = t THEN Append(OfType(front, t), list[p]) ELSE OfType(front, t)
    BY <2>1, <2>2, OfTypeMore
  <2>5. Len(Append(OfType(front, t), list[p])) = Len(OfType(front, t)) + 1
    BY <2>2, <2>4, AppendProperties
  <2>6. Len(OfType(front, t)) \in Nat
    BY <2>4, LenProperties
  <2>7. Len(OfType(Append(front, list[p]), t)) = Len(OfType(front, t)) + IF list[p].type = t THEN 1 ELSE 0
    BY <2>4, <2>5, <2>6
  <2> QED
    BY <2>3, <2>7, <2>f DEF Before
<1> QED
  BY <1>1, <1>2, <1>3, <1>4, <1>n

LEMMA BeforeIs ==
    ASSUME NEW list \in Seq(Attachment), NEW t, NEW p \in 0 .. Len(list)
    PROVE  Cardinality(PlacesBefore(list, p, t)) = Before(list, p, t)
<1>n. PICK n \in Nat : n = Len(list)
  BY LenProperties
<1> DEFINE At(k) == PlacesBefore(list, k, t)
           S == {k \in 0 .. n : IsFiniteSet(At(k)) /\ Cardinality(At(k)) = Before(list, k, t)}
<1>1. 0 \in S
  <2>1. At(0) = {}
    BY DEF PlacesBefore
  <2> HIDE DEF At
  <2>2. IsFiniteSet(At(0)) /\ Cardinality(At(0)) = 0
    BY <2>1, FS_EmptySet
  <2>3. Before(list, 0, t) = 0
    BY BeforeSteps
  <2> QED
    BY <2>2, <2>3
<1>2. ASSUME NEW k \in 1 .. n, k - 1 \in S PROVE k \in S
  <2>1. /\ IsFiniteSet(At(k - 1)) /\ Cardinality(At(k - 1)) = Before(list, k - 1, t)
    BY <1>2
  <2>2. Before(list, k, t) = Before(list, k - 1, t) + IF list[k].type = t THEN 1 ELSE 0
    BY <1>n, BeforeSteps
  <2>3. Before(list, k - 1, t) \in Nat
    <3>1. k - 1 \in 0 .. Len(list)
      BY <1>n
    <3> QED
      BY <3>1, BeforeSteps
  <2>4. (k - 1) - 1 = k - 2 /\ (k - 1) + 1 = k /\ k - 1 \notin 0 .. k - 2
        /\ 0 .. k - 1 = (0 .. k - 2) \cup {k - 1}
    OBVIOUS
  <2>5. CASE list[k].type = t
    <3>1. At(k) = At(k - 1) \cup {k - 1} /\ k - 1 \notin At(k - 1)
      BY <2>4, <2>5 DEF PlacesBefore
    <3> HIDE DEF At
    <3>2. IsFiniteSet(At(k)) /\ Cardinality(At(k)) = Cardinality(At(k - 1)) + 1
      BY <2>1, <3>1, FS_AddElement
    <3> QED
      BY <2>1, <2>2, <2>3, <2>5, <3>2
  <2>6. CASE list[k].type # t
    <3>1. At(k) = At(k - 1)
      BY <2>4, <2>6 DEF PlacesBefore
    <3> HIDE DEF At
    <3> QED
      BY <2>1, <2>2, <2>3, <2>6, <3>1
  <2> QED
    BY <2>5, <2>6
<1> HIDE DEF S, At
<1>3. \A k \in 0 .. n : k \in S
  BY <1>1, <1>2, UpTo
<1>4. p \in S
  BY <1>3, <1>n
<1> QED
  BY <1>4 DEF S, At

\* The attachment with k of its type before it exists.
LEMMA KthExists ==
    ASSUME NEW list \in Seq(Attachment), NEW t,
           NEW k \in Nat, k < Len(OfType(list, t))
    PROVE  \E h \in 0 .. Len(list) - 1 : list[h + 1].type = t /\ Before(list, h, t) = k
<1>n. PICK n \in Nat : n = Len(list)
  BY LenProperties
<1> DEFINE Found(p) == \E h \in 0 .. p - 1 : list[h + 1].type = t /\ Before(list, h, t) = k
           S == {p \in 0 .. n : k < Before(list, p, t) => Found(p)}
<1>1. 0 \in S
  <2>1. Before(list, 0, t) = 0
    BY BeforeSteps
  <2> QED
    BY <2>1
<1>2. ASSUME NEW p \in 1 .. n, p - 1 \in S PROVE p \in S
  <2>1. k < Before(list, p - 1, t) => Found(p - 1)
    BY <1>2
  <2>2. Before(list, p, t) = Before(list, p - 1, t) + IF list[p].type = t THEN 1 ELSE 0
    BY <1>n, BeforeSteps
  <2>3. Before(list, p - 1, t) \in Nat
    <3>1. p - 1 \in 0 .. Len(list)
      BY <1>n
    <3> QED
      BY <3>1, BeforeSteps
  <2>4. Found(p - 1) => Found(p)
    OBVIOUS
  <2>5. list[p].type = t /\ Before(list, p - 1, t) = k => Found(p)
    <3>1. p - 1 \in 0 .. p - 1 /\ (p - 1) + 1 = p
      OBVIOUS
    <3> QED
      BY <3>1
  <2> HIDE DEF Found
  <2>6. k < Before(list, p, t) => Found(p)
    BY <2>1, <2>2, <2>3, <2>4, <2>5
  <2> QED
    BY <2>6
<1> HIDE DEF S, Found
<1>3. \A p \in 0 .. n : p \in S
  BY <1>1, <1>2, UpTo
<1>4. n \in S
  BY <1>3
<1>5. k < Before(list, n, t)
  BY <1>n, BeforeSteps
<1> QED
  BY <1>4, <1>5, <1>n DEF S, Found

-----------------------------------------------------------------------------
\* The number a loop takes is never more than what was added, and is right as
\* long as fewer than 2^8 were and the vectors are what they should be.
Counted ==
    ~broken =>
      /\ index <= Len(att) + removed
      /\ Len(att) + removed < IndexMod => index = Len(att) + removed

IInv == TypeOK /\ Counted /\ SoundUntilRemoval

\* What a loop that removes attachments of type t makes of the vectors.
State == [list : Seq(Attachment), gone : Nat, ok : BOOLEAN]
Left(a, t) ==
    /\ a \in State
    /\ Len(a.list) + a.gone = Len(att) + removed
    /\ a.ok \/ a.gone > 0
    /\ a.ok => \A u \in Types \ {t} : OfType(a.list, u) = OfType(att, u)

LEMMA Wraps ==
    ASSUME NEW m \in Nat \ {0}, NEW x \in 0 .. m - 1
    PROVE  /\ (x + 1) % m \in 0 .. m - 1 /\ (x + 1) % m <= x + 1
           /\ x + 1 < m => (x + 1) % m = x + 1
OBVIOUS

LEMMA VectorsLeft == ASSUME TypeOK, NEW t PROVE Left(Vectors, t)
<1>1. Len(att) \in Nat
  BY LenProperties DEF TypeOK
<1> QED
  BY <1>1 DEF TypeOK, Left, State, Vectors

\* An element that looks like one of type t is erased, or there is none: then
\* some were erased before.
LEMMA EraseLeft ==
    ASSUME TypeOK, Counted, ~broken, NEW t, NEW a, Left(a, t), NEW i \in Slots,
           i < Len(a.list) => a.list[i + 1].type = t
    PROVE  Left(Erase(a, i), t)
<1>1. /\ a.list \in Seq(Attachment) /\ a.gone \in Nat /\ a.ok \in BOOLEAN
      /\ a = [list |-> a.list, gone |-> a.gone, ok |-> a.ok]
  BY DEF Left, State
<1>2. Len(a.list) \in Nat /\ Len(att) \in Nat
  BY <1>1, LenProperties DEF TypeOK
<1>3. i \in Nat /\ i < index /\ index \in Nat
  BY IndexAssumption DEF Slots, TypeOK
<1>4. CASE i < Len(a.list)
  <2> DEFINE b == RemoveAt(a.list, i + 1)
  <2>1. b \in Seq(Attachment) /\ Len(b) = Len(a.list) - 1
    BY <1>1, <1>3, <1>4, Cut
  <2>2. Erase(a, i) = [list |-> b, gone |-> a.gone + 1, ok |-> a.ok]
    BY <1>1, <1>4 DEF Erase
  <2>3. ASSUME a.ok, NEW u \in Types \ {t} PROVE OfType(b, u) = OfType(att, u)
    <3>1. a.list[i + 1].type # u
      BY <1>4
    <3>2. OfType(b, u) = OfType(a.list, u)
      <4>1. PICK list \in Seq(Attachment) : list = a.list
        BY <1>1
      <4>2. i < Len(list) /\ list[i + 1].type # u
        BY <1>4, <3>1, <4>1
      <4>3. OfType(RemoveAt(list, i + 1), u) = OfType(list, u)
        BY <1>3, <4>2, OtherType
      <4> QED
        BY <4>1, <4>3
    <3> QED
      BY <2>3, <3>2 DEF Left
  <2> HIDE DEF b
  <2>4. PICK r : r = Erase(a, i)
    OBVIOUS
  <2>5. r \in State /\ r.list = b /\ r.gone = a.gone + 1 /\ r.ok = a.ok
    BY <1>1, <2>1, <2>2, <2>4 DEF State
  <2>6. Len(r.list) + r.gone = Len(att) + removed
    <3>1. Len(a.list) + a.gone = Len(att) + removed
      BY DEF Left
    <3>2. Len(r.list) = Len(a.list) - 1 /\ r.gone = a.gone + 1
      BY <2>1, <2>5
    <3>3. a.gone \in Nat /\ Len(a.list) \in Nat
      BY <1>1, <1>2
    <3> QED
      BY <3>1, <3>2, <3>3
  <2>7. r.ok \/ r.gone > 0
    BY <1>1, <2>5
  <2> QED
    BY <2>3, <2>4, <2>5, <2>6, <2>7 DEF Left
<1>5. CASE ~(i < Len(a.list))
  <2>1. Erase(a, i) = [list |-> a.list, gone |-> a.gone, ok |-> FALSE]
    BY <1>1, <1>5 DEF Erase
  <2>2. a.gone > 0
    BY <1>1, <1>2, <1>3, <1>5 DEF Left, Counted
  <2> QED
    BY <1>1, <2>1, <2>2 DEF Left, State
<1> QED
  BY <1>4, <1>5

Round(a, n, t, ns, stale) ==
    IF a.ok /\ Looks(a.list, n - 1, t, ns, stale) THEN Erase(a, n - 1) ELSE a
Rounds(t, ns, stale) ==
    CHOOSE f : f = [n \in 0 .. index |->
                      IF n = 0 THEN Vectors
                      ELSE IF f[n - 1].ok /\ Looks(f[n - 1].list, n - 1, t, ns, stale)
                             THEN Erase(f[n - 1], n - 1) ELSE f[n - 1]]

LEMMA RemoveEachIs ==
    \A t, ns, stale : RemoveEach(t, ns, stale) = Rounds(t, ns, stale)[index]
BY DEF RemoveEach, Rounds

LEMMA RoundLeft ==
    ASSUME TypeOK, Counted, ~broken, NEW t, NEW ns, NEW stale, NEW a, Left(a, t), NEW n \in 1 .. index
    PROVE  Left(Round(a, n, t, ns, stale), t)
<1>1. n - 1 \in Slots /\ (n - 1) + 1 = n
  BY IndexAssumption DEF Slots, TypeOK
<1>2. Looks(a.list, n - 1, t, ns, stale) => Left(Erase(a, n - 1), t)
  BY <1>1, EraseLeft DEF Looks
<1> QED
  BY <1>2 DEF Round

LEMMA RemoveEachLeft ==
    ASSUME TypeOK, Counted, ~broken, NEW t, NEW ns, NEW stale
    PROVE  Left(RemoveEach(t, ns, stale), t)
<1>n. PICK n : n = index
  OBVIOUS
<1>0. n \in Nat
  BY <1>n, IndexAssumption DEF TypeOK
<1> DEFINE S == {a \in State : Left(a, t)}
           step == [k \in 1 .. n |-> [a \in S |-> Round(a, k, t, ns, stale)]]
<1>1. \A a : a \in S <=> Left(a, t)
  BY DEF Left
<1>2. ASSUME NEW k \in 1 .. n, NEW a \in S
      PROVE  step[k][a] = Round(a, k, t, ns, stale) /\ Round(a, k, t, ns, stale) \in S
  <2>1. step[k][a] = Round(a, k, t, ns, stale)
    OBVIOUS
  <2>2. Left(Round(a, k, t, ns, stale), t)
    BY <1>n, RoundLeft
  <2> QED
    BY <1>1, <2>1, <2>2
<1>3. Vectors \in S
  BY <1>1, VectorsLeft
<1> HIDE DEF S, step
<1>4. PICK f : Follows(f, Vectors, step, n)
  BY <1>0, Recursion
<1>5. \A k \in 0 .. n : f[k] \in S
  <2> DEFINE T == {k \in 0 .. n : f[k] \in S}
  <2>1. 0 \in T
    BY <1>0, <1>3, <1>4 DEF Follows
  <2>2. ASSUME NEW k \in 1 .. n, k - 1 \in T PROVE k \in T
    <3>1. f[k - 1] \in S
      BY <2>2
    <3>2. f[k] = step[k][f[k - 1]]
      BY <1>4 DEF Follows
    <3>3. f[k] \in S
      BY <1>2, <3>1, <3>2
    <3> QED
      BY <1>0, <3>3
  <2> HIDE DEF T
  <2>3. \A k \in 0 .. n : k \in T
    BY <1>0, <2>1, <2>2, UpTo
  <2> QED
    BY <2>3 DEF T
<1>6. ASSUME NEW k \in 1 .. n PROVE f[k] = Round(f[k - 1], k, t, ns, stale)
  <2>1. k - 1 \in 0 .. n
    BY <1>0
  <2>2. f[k - 1] \in S
    BY <1>5, <2>1
  <2> QED
    BY <1>2, <1>4, <2>2 DEF Follows
<1> DEFINE Rule(g, k) == IF k = 0 THEN Vectors ELSE Round(g[k - 1], k, t, ns, stale)
<1>7. f = [k \in 0 .. n |-> Rule(f, k)]
  <2>1. \A k \in 0 .. n : k = 0 \/ k \in 1 .. n
    BY <1>0
  <2>2. \A k \in 0 .. n : f[k] = Rule(f, k)
    BY <1>4, <1>6, <2>1 DEF Follows
  <2> HIDE DEF Rule
  <2>3. f = [k \in 0 .. n |-> f[k]]
    BY <1>4 DEF Follows
  <2> QED
    BY <2>2, <2>3
<1>g. PICK g : g = Rounds(t, ns, stale)
  OBVIOUS
<1>8. g = [k \in 0 .. n |-> Rule(g, k)]
  BY <1>7, <1>g, <1>n DEF Rounds, Round
<1>9. g[0] = Vectors /\ \A k \in 1 .. n : g[k] = Round(g[k - 1], k, t, ns, stale)
  <2>1. 0 \in 0 .. n /\ \A k \in 1 .. n : k \in 0 .. n /\ k # 0
    BY <1>0
  <2> HIDE DEF Rule
  <2>2. \A k \in 0 .. n : g[k] = Rule(g, k)
    BY <1>8
  <2> QED
    BY <2>1, <2>2 DEF Rule
<1>10. \A k \in 0 .. n : f[k] = g[k]
  <2> DEFINE T == {k \in 0 .. n : f[k] = g[k]}
  <2>1. 0 \in T
    BY <1>0, <1>4, <1>9 DEF Follows
  <2>2. ASSUME NEW k \in 1 .. n, k - 1 \in T PROVE k \in T
    <3>1. f[k - 1] = g[k - 1] /\ k \in 0 .. n
      BY <1>0, <2>2
    <3>2. f[k] = g[k]
      BY <1>6, <1>9, <3>1
    <3> QED
      BY <3>1, <3>2
  <2> HIDE DEF T
  <2>3. \A k \in 0 .. n : k \in T
    BY <1>0, <2>1, <2>2, UpTo
  <2> QED
    BY <2>3 DEF T
<1>11. n \in 0 .. n
  BY <1>0
<1>12. g[n] \in S
  BY <1>5, <1>10, <1>11
<1> QED
  BY <1>1, <1>12, <1>g, <1>n, RemoveEachIs

LEMMA EraseKthLeft ==
    ASSUME TypeOK, Counted, ~broken, NEW t, NEW stale, NEW k
    PROVE  Left(RemoveKth(t, k, stale), t)
<1> DEFINE hits == Hits(t, stale)
           kth == {i \in hits : Cardinality({h \in hits : h < i}) = k}
<1>1. RemoveKth(t, k, stale) = IF kth = {} THEN Vectors ELSE Erase(Vectors, CHOOSE i \in kth : TRUE)
  BY DEF RemoveKth, EraseKth
<1>2. Left(Vectors, t)
  BY VectorsLeft
<1>3. ASSUME NEW i \in kth PROVE Left(Erase(Vectors, i), t)
  <2>1. i \in Slots /\ Looks(att, i, t, Names, stale)
    BY DEF Hits
  <2>2. Vectors.list = att
    BY DEF Vectors
  <2>3. i < Len(Vectors.list) => Vectors.list[i + 1].type = t
    BY <2>1, <2>2 DEF Looks
  <2> QED
    BY <1>2, <2>1, <2>3, EraseLeft
<1> HIDE DEF kth
<1>4. kth # {} => (CHOOSE i \in kth : TRUE) \in kth
  OBVIOUS
<1> QED
  BY <1>1, <1>2, <1>3, <1>4

-----------------------------------------------------------------------------
\* The invariant.

LEMMA InitIInv == Init => IInv
<1> SUFFICES ASSUME Init PROVE IInv
  OBVIOUS
<1>1. 0 \in 0 .. IndexMod - 1
  BY IndexAssumption
<1>2. <<>> \in Seq(Names) /\ <<>> \in Seq(Attachment) /\ Len(<<>>) = 0
  OBVIOUS
<1>3. TypeOK
  BY <1>1, <1>2 DEF Init, TypeOK
<1>4. Len(att) + removed = 0 /\ index = 0
  BY <1>2 DEF Init
<1>5. Counted
  BY <1>4 DEF Counted
<1> QED
  BY <1>3, <1>5 DEF Init, IInv, SoundUntilRemoval

LEMMA Inside == TypeOK => index \in Nat /\ Len(att) \in Nat
BY IndexAssumption, LenProperties DEF TypeOK

\* The calls about addresses.
Addressing ==
    \/ \E n \in Names : AddRecipient(n) \/ RemoveRecipient(n)
    \/ \E i \in 0..(MaxStrings - 1) : RemoveRecipientAt(i)
    \/ ClearRecipient

\* The calls that remove attachments of type t.
Removing(t) ==
    ~broken /\ \E stale \in Garbage :
        \/ \E n \in Names : /\ Install(RemoveEach(t, {n}, stale))
                            /\ op' = [call |-> "removeByName", type |-> t, name |-> n]
        \/ \E k \in 0..(MaxAdds - 1) : /\ Install(RemoveKth(t, k, stale))
                                       /\ op' = [call |-> "removeByIndex", type |-> t, k |-> k]
        \/ /\ Install(RemoveEach(t, Names, stale))
           /\ op' = [call |-> "clear", type |-> t]

LEMMA Steps ==
    [Next]_vars =>
        \/ Addressing
        \/ \E n \in Names, t \in Types : Add(n, t)
        \/ \E t \in Types : Removing(t)
        \/ \E t \in Types : Count(t)
        \/ ClearAttachment \/ Empty \/ Send
        \/ UNCHANGED vars
<1>1. ASSUME NEW n \in Names, NEW t \in Types, RemoveByName(t, n) PROVE Removing(t)
  BY <1>1 DEF RemoveByName, Removing
<1>2. ASSUME NEW t \in Types, NEW k \in 0..(MaxAdds - 1), RemoveByIndex(t, k) PROVE Removing(t)
  BY <1>2 DEF RemoveByIndex, Removing
<1>3. ASSUME NEW t \in Types, ClearType(t) PROVE Removing(t)
  BY <1>3 DEF ClearType, Removing
<1> QED
  BY <1>1, <1>2, <1>3 DEF Next, Addressing

LEMMA AddressingStep ==
    ASSUME IInv, Addressing
    PROVE  recipient' \in Seq(Names) /\ UNCHANGED attVars
<1>1. recipient \in Seq(Names)
  BY DEF IInv, TypeOK
<1>2. ASSUME NEW n \in Names, AddRecipient(n) \/ RemoveRecipient(n)
      PROVE  recipient' \in Seq(Names) /\ UNCHANGED attVars
  BY <1>1, <1>2, AppendProperties DEF AddRecipient, RemoveRecipient
<1>3. ASSUME NEW i \in 0..(MaxStrings - 1), RemoveRecipientAt(i)
      PROVE  recipient' \in Seq(Names) /\ UNCHANGED attVars
  <2>1. i \in Nat /\ i < Len(recipient)
    BY <1>3, BoundAssumption DEF RemoveRecipientAt
  <2>2. RemoveAt(recipient, i + 1) \in Seq(Names)
    BY <1>1, <2>1, Cut
  <2> QED
    BY <1>3, <2>2 DEF RemoveRecipientAt
<1>4. CASE ClearRecipient
  BY <1>4 DEF ClearRecipient
<1> QED
  BY <1>2, <1>3, <1>4 DEF Addressing

\* What a removal of type t is about, and what it leaves.
LEMMA RemovingStep ==
    ASSUME IInv, NEW t, Removing(t)
    PROVE  /\ op'.type = t
           /\ ~broken' => \A u \in Types \ {t} : OfType(att', u) = OfType(att, u)
           /\ IInv'
<1>1. op'.type = t
  <2>1. CASE \E n \in Names : op' = [call |-> "removeByName", type |-> t, name |-> n]
    BY <2>1
  <2>2. CASE \E k \in 0..(MaxAdds - 1) : op' = [call |-> "removeByIndex", type |-> t, k |-> k]
    BY <2>2
  <2>3. CASE op' = [call |-> "clear", type |-> t]
    BY <2>3
  <2> QED
    BY <2>1, <2>2, <2>3 DEF Removing
<1>2. PICK a : Left(a, t) /\ Install(a)
  BY RemoveEachLeft, EraseKthLeft DEF Removing, IInv
<1>3. /\ a.ok => att' = a.list
      /\ removed' = a.gone /\ broken' = ~a.ok
      /\ recipient' = recipient /\ index' = index
  BY <1>2 DEF Install
<1>4. TypeOK'
  <2>1. a.list \in Seq(Attachment) /\ a.gone \in Nat /\ a.ok \in BOOLEAN
    BY <1>2 DEF Left, State
  <2>2. ~a.ok => att' \in Seq(Attachment)
    <3>1. ~a.ok => \E n \in Nat : att' \in [1..n -> Attachment]
      BY <1>2, <2>1, LenProperties DEF Install, Ruins, Attachment
    <3> QED
      BY <3>1, SeqDef
  <2> QED
    BY <1>3, <2>1, <2>2 DEF IInv, TypeOK
<1>5. a.ok => Len(att') + removed' = Len(att) + removed
  BY <1>2, <1>3 DEF Left
<1>6. Counted'
  BY <1>3, <1>5 DEF IInv, Counted, Removing
<1>7. SoundUntilRemoval'
  BY <1>2, <1>3 DEF Left, SoundUntilRemoval
<1> QED
  BY <1>1, <1>2, <1>3, <1>4, <1>6, <1>7 DEF Left, IInv

LEMMA AddStep ==
    ASSUME IInv, NEW n \in Names, NEW t \in Types, Add(n, t)
    PROVE  IInv'
<1>1. [name |-> n, type |-> t] \in Attachment
  BY DEF Attachment
<1>2. att' \in Seq(Attachment) /\ Len(att') = Len(att) + 1
  BY <1>1, AppendProperties DEF Add, IInv, TypeOK
<1>3. /\ index' \in 0 .. IndexMod - 1 /\ index' <= index + 1
      /\ index + 1 < IndexMod => index' = index + 1
  BY IndexAssumption, Wraps DEF Add, NextIndex, IInv, TypeOK
<1>4. UNCHANGED <<recipient, removed, broken>>
  BY DEF Add
<1>5. index \in Nat /\ Len(att) \in Nat /\ removed \in Nat /\ IndexMod \in Nat /\ index' \in Nat
  BY <1>3, Inside, IndexAssumption DEF IInv, TypeOK
<1>6. Counted'
  <2>1. ~broken
    BY DEF Add
  <2>2. Len(att') + removed' = Len(att) + removed + 1
    BY <1>2, <1>4, <1>5
  <2>3. /\ index <= Len(att) + removed
        /\ Len(att) + removed < IndexMod => index = Len(att) + removed
    BY <2>1 DEF IInv, Counted
  <2>4. /\ index' <= Len(att) + removed + 1
        /\ Len(att) + removed + 1 < IndexMod => index' = Len(att) + removed + 1
    BY <1>3, <1>5, <2>3
  <2> QED
    BY <2>2, <2>4 DEF Counted
<1> QED
  BY <1>2, <1>3, <1>4, <1>6 DEF IInv, TypeOK, SoundUntilRemoval

LEMMA FreeStep ==
    ASSUME IInv, ClearAttachment \/ Empty
    PROVE  IInv'
<1>1. <<>> \in Seq(Names) /\ <<>> \in Seq(Attachment) /\ Len(<<>>) = 0
  OBVIOUS
<1>2. /\ att' = <<>> /\ index' = 0 /\ removed' = 0 /\ broken' = FALSE
      /\ recipient' \in Seq(Names)
  BY <1>1 DEF ClearAttachment, Empty, Free, IInv, TypeOK
<1>3. 0 \in 0 .. IndexMod - 1
  BY IndexAssumption
<1>4. TypeOK'
  BY <1>1, <1>2, <1>3 DEF TypeOK
<1>5. Len(att') + removed' = 0
  BY <1>1, <1>2
<1>6. Counted'
  BY <1>2, <1>5 DEF Counted
<1> QED
  BY <1>2, <1>4, <1>6 DEF IInv, SoundUntilRemoval

LEMMA SendStep ==
    ASSUME IInv, Send
    PROVE  IInv' /\ (broken' => removed > 0)
<1>1. PICK stale \in Garbage : broken' \in {FALSE, \E i \in stale : i >= Len(att)}
  BY DEF Send
<1>2. ASSUME NEW i \in stale, i >= Len(att) PROVE removed > 0
  <2>1. i \in Nat /\ i < index
    BY <1>1, Inside DEF Garbage, Slots, IInv
  <2> QED
    BY <1>2, <2>1, Inside DEF IInv, TypeOK, Counted, Send
<1>3. broken' \in BOOLEAN /\ (broken' => removed > 0)
  BY <1>1, <1>2
<1>4. UNCHANGED <<recipient, att, index, removed>>
  BY DEF Send
<1> QED
  BY <1>3, <1>4 DEF IInv, TypeOK, Counted, SoundUntilRemoval, Send

LEMMA NextIInv == IInv /\ [Next]_vars => IInv'
<1> SUFFICES ASSUME IInv, [Next]_vars PROVE IInv'
  OBVIOUS
<1>1. CASE Addressing
  <2>1. recipient' \in Seq(Names) /\ UNCHANGED attVars
    BY <1>1, AddressingStep
  <2> QED
    BY <2>1 DEF attVars, IInv, TypeOK, Counted, SoundUntilRemoval
<1>2. CASE \E n \in Names, t \in Types : Add(n, t)
  BY <1>2, AddStep
<1>3. CASE \E t \in Types : Removing(t)
  BY <1>3, RemovingStep
<1>4. CASE (\E t \in Types : Count(t)) \/ UNCHANGED vars
  <2>1. recipient' = recipient /\ UNCHANGED attVars
    BY <1>4 DEF Count, vars, attVars
  <2> QED
    BY <2>1 DEF attVars, IInv, TypeOK, Counted, SoundUntilRemoval
<1>5. CASE ClearAttachment \/ Empty
  BY <1>5, FreeStep
<1>6. CASE Send
  BY <1>6, SendStep
<1> QED
  BY <1>1, <1>2, <1>3, <1>4, <1>5, <1>6, Steps

\* All of it is inductive.
THEOREM Inductive == Spec => []IInv
BY InitIInv, NextIInv, PTL DEF Spec

\* The vectors hold attachments, and the counters stay in their ranges.
THEOREM TypeCorrect == Spec => []TypeOK
<1>1. IInv => TypeOK
  BY DEF IInv
<1> QED
  BY <1>1, Inductive, PTL

\* A loop leaves the vectors only when something was removed since they were
\* last freed.
THEOREM LoopsStayInside == Spec => []SoundUntilRemoval
<1>1. IInv => SoundUntilRemoval
  BY DEF IInv
<1> QED
  BY <1>1, Inductive, PTL

-----------------------------------------------------------------------------
\* What the calls return and remove.

LEMMA NotRemoving ==
    ASSUME op'.call \in {"removeByName", "removeByIndex", "clear"}, [Next]_vars
    PROVE  (\E t \in Types : Removing(t)) \/ UNCHANGED vars
<1>1. ~Addressing
  <2>1. ASSUME NEW n \in Names, AddRecipient(n) PROVE FALSE
    BY <2>1 DEF AddRecipient
  <2>2. ASSUME NEW n \in Names, RemoveRecipient(n) PROVE FALSE
    BY <2>2 DEF RemoveRecipient
  <2>3. ASSUME NEW i \in 0..(MaxStrings - 1), RemoveRecipientAt(i) PROVE FALSE
    BY <2>3 DEF RemoveRecipientAt
  <2>4. ~ClearRecipient
    BY DEF ClearRecipient
  <2> QED
    BY <2>1, <2>2, <2>3, <2>4 DEF Addressing
<1>2. ASSUME NEW n \in Names, NEW t \in Types, Add(n, t) PROVE FALSE
  BY <1>2 DEF Add
<1>3. ASSUME NEW t \in Types, Count(t) PROVE FALSE
  BY <1>3 DEF Count
<1>4. ~ClearAttachment
  BY DEF ClearAttachment
<1>5. ~Empty
  BY DEF Empty
<1>6. ~Send
  <2>1. Send => \E from, exists, sent : op' = [call |-> "sendMail", from |-> from,
                                              exists |-> exists, sent |-> sent]
    BY DEF Send
  <2> QED
    BY <2>1
<1> QED
  BY <1>1, <1>2, <1>3, <1>4, <1>5, <1>6, Steps

LEMMA RemovingCalls ==
    ASSUME NEW t, Removing(t)
    PROVE  /\ op'.call \in {"removeByName", "removeByIndex", "clear"}
           /\ op'.call = "removeByIndex" =>
                \E k \in 0..(MaxAdds - 1), stale \in Garbage :
                    /\ Install(RemoveKth(t, k, stale))
                    /\ op'.type = t /\ op'.k = k
<1>1. PICK stale \in Garbage :
        \/ \E n \in Names : op' = [call |-> "removeByName", type |-> t, name |-> n]
        \/ \E k \in 0..(MaxAdds - 1) : /\ Install(RemoveKth(t, k, stale))
                                       /\ op' = [call |-> "removeByIndex", type |-> t, k |-> k]
        \/ op' = [call |-> "clear", type |-> t]
  BY DEF Removing
<1>2. CASE \E n \in Names : op' = [call |-> "removeByName", type |-> t, name |-> n]
  BY <1>2
<1>3. CASE op' = [call |-> "clear", type |-> t]
  BY <1>3
<1>4. CASE \E k \in 0..(MaxAdds - 1) : /\ Install(RemoveKth(t, k, stale))
                                      /\ op' = [call |-> "removeByIndex", type |-> t, k |-> k]
  <2>1. PICK k \in 0..(MaxAdds - 1) : /\ Install(RemoveKth(t, k, stale))
                                     /\ op' = [call |-> "removeByIndex", type |-> t, k |-> k]
    BY <1>4
  <2>2. op'.call = "removeByIndex" /\ op'.type = t /\ op'.k = k
    BY <2>1
  <2> QED
    BY <2>1, <2>2
<1> QED
  BY <1>1, <1>2, <1>3, <1>4

\* A removal leaves the attachments of the other type alone, whatever it finds
\* in the memory behind the vectors, as long as it erases nothing there.
THEOREM KeepsOtherType == Spec => OtherTypeKept
<1>1. IInv /\ [Next]_vars =>
        [op'.call \in {"removeByName", "removeByIndex", "clear"} /\ ~broken' =>
           \A t \in Types \ {op'.type} : OfType(att', t) = OfType(att, t)]_vars
  <2> SUFFICES ASSUME IInv, [Next]_vars, op'.call \in {"removeByName", "removeByIndex", "clear"},
                      ~broken', ~UNCHANGED vars
               PROVE  \A t \in Types \ {op'.type} : OfType(att', t) = OfType(att, t)
    OBVIOUS
  <2>1. PICK t \in Types : Removing(t)
    BY NotRemoving
  <2>2. op'.type = t /\ \A u \in Types \ {t} : OfType(att', u) = OfType(att, u)
    BY <2>1, RemovingStep
  <2> QED
    BY <2>2
<1> QED
  BY <1>1, Inductive, PTL DEF Spec, OtherTypeKept

\* When the number is right the slots that look like type t are the places of
\* that type, followed by slots behind the vectors.
LEMMA PlacesAreHits ==
    ASSUME IInv, NEW t, NEW stale, index = Len(att) + removed, NEW i \in 0 .. Len(att)
    PROVE  /\ Cardinality({h \in Hits(t, stale) : h < i}) = Before(att, i, t)
           /\ i < Len(att) => (i \in Hits(t, stale) <=> att[i + 1].type = t)
<1>1. Len(att) \in Nat /\ index \in Nat /\ removed \in Nat /\ i \in Nat
  BY Inside DEF IInv, TypeOK
<1>2. ASSUME NEW h \in Nat, h < Len(att)
      PROVE  h \in Hits(t, stale) <=> att[h + 1].type = t
  <2>1. h \in Slots
    BY <1>1, <1>2 DEF Slots
  <2>2. att[h + 1] \in Attachment
    <3>1. h + 1 \in 1 .. Len(att)
      BY <1>1, <1>2
    <3> QED
      BY <3>1, ElementOfSeq DEF IInv, TypeOK
  <2>3. att[h + 1].name \in Names
    BY <2>2 DEF Attachment
  <2> QED
    BY <1>2, <2>1, <2>3 DEF Hits, Looks
<1>3. \A h \in Hits(t, stale) : h \in Nat
  BY <1>1 DEF Hits, Slots
<1>4. {h \in Hits(t, stale) : h < i} = PlacesBefore(att, i, t)
  <2>1. ASSUME NEW h PROVE h \in Hits(t, stale) /\ h < i <=> h \in 0 .. i - 1 /\ att[h + 1].type = t
    <3>1. CASE h \in Nat
      BY <1>1, <1>2, <3>1
    <3>2. CASE h \notin Nat
      BY <1>1, <1>3, <3>2
    <3> QED
      BY <3>1, <3>2
  <2> QED
    BY <2>1 DEF PlacesBefore
<1>5. Cardinality(PlacesBefore(att, i, t)) = Before(att, i, t)
  BY BeforeIs DEF IInv, TypeOK
<1> QED
  BY <1>1, <1>2, <1>4, <1>5

\* What goes is missing from the attachments of its type at its rank there.
LEMMA TakenOut ==
    ASSUME NEW list \in Seq(Attachment), NEW i \in Nat, i < Len(list),
           NEW t, list[i + 1].type = t
    PROVE  /\ Before(list, i, t) < Len(OfType(list, t))
           /\ OfType(RemoveAt(list, i + 1), t) = RemoveAt(OfType(list, t), Before(list, i, t) + 1)
<1> DEFINE x == list[i + 1]
           front == OfType(SubSeq(list, 1, i), t)
           back == OfType(SubSeq(list, i + 2, Len(list)), t)
<1>1. /\ x \in Attachment /\ front \in Seq(Attachment) /\ back \in Seq(Attachment)
      /\ OfType(list, t) = IF x.type = t THEN Append(front, x) \o back ELSE front \o back
      /\ OfType(RemoveAt(list, i + 1), t) = front \o back
  BY CutOfType
<1>2. Before(list, i, t) = Len(front) /\ x.type = t
  BY DEF Before
<1> HIDE DEF x, front, back
<1>3. /\ Len(front) < Len(Append(front, x) \o back)
      /\ RemoveAt(Append(front, x) \o back, Len(front) + 1) = front \o back
  BY <1>1, Middle
<1> QED
  BY <1>1, <1>2, <1>3

\* The k-th of them, if it exists at all, is the k-th attachment of the type.
LEMMA KthIsReal ==
    ASSUME IInv, NEW t, NEW stale, index = Len(att) + removed,
           NEW i \in Hits(t, stale), i < Len(att), NEW k,
           Cardinality({h \in Hits(t, stale) : h < i}) = k
    PROVE  /\ k < Len(OfType(att, t))
           /\ OfType(RemoveAt(att, i + 1), t) = RemoveAt(OfType(att, t), k + 1)
<1>1. i \in Nat /\ att \in Seq(Attachment) /\ Len(att) \in Nat
  BY Inside DEF IInv, TypeOK, Hits, Slots
<1>2. i \in 0 .. Len(att)
  BY <1>1
<1>3. att[i + 1].type = t /\ k = Before(att, i, t)
  BY <1>2, PlacesAreHits
<1> QED
  BY <1>1, <1>3, TakenOut

LEMMA RemovesKth ==
    ASSUME IInv, NEW t, NEW k \in Nat, NEW stale, index = Len(att) + removed,
           Install(RemoveKth(t, k, stale)), ~broken'
    PROVE  OfType(att', t) = IF k < Len(OfType(att, t)) THEN RemoveAt(OfType(att, t), k + 1)
                             ELSE OfType(att, t)
<1> DEFINE hits == Hits(t, stale)
           kth == {i \in hits : Cardinality({h \in hits : h < i}) = k}
           r == RemoveKth(t, k, stale)
<1>1. r = IF kth = {} THEN Vectors ELSE Erase(Vectors, CHOOSE i \in kth : TRUE)
  BY DEF RemoveKth, EraseKth
<1>2. r.ok /\ att' = r.list
  BY DEF Install
<1>3. Vectors.list = att
  BY DEF Vectors
<1>4. CASE kth # {}
  <2>1. PICK i \in kth : r = Erase(Vectors, i)
    BY <1>1, <1>4
  <2>2. i < Len(att)
    BY <1>2, <1>3, <2>1 DEF Erase, Vectors
  <2>3. r.list = RemoveAt(att, i + 1)
    BY <1>3, <2>1, <2>2 DEF Erase, Vectors
  <2>4. /\ k < Len(OfType(att, t))
        /\ OfType(RemoveAt(att, i + 1), t) = RemoveAt(OfType(att, t), k + 1)
    BY <2>1, <2>2, KthIsReal
  <2> QED
    BY <1>2, <2>3, <2>4
<1>5. CASE kth = {}
  <2>1. att' = att
    BY <1>1, <1>2, <1>3, <1>5
  <2>2. ~(k < Len(OfType(att, t)))
    <3> SUFFICES ASSUME k < Len(OfType(att, t)) PROVE FALSE
      OBVIOUS
    <3>1. PICK h \in 0 .. Len(att) - 1 : att[h + 1].type = t /\ Before(att, h, t) = k
      BY KthExists DEF IInv, TypeOK
    <3>2. h \in 0 .. Len(att) /\ h < Len(att)
      BY <3>1, Inside DEF IInv
    <3>3. /\ Cardinality({g \in Hits(t, stale) : g < h}) = Before(att, h, t)
          /\ h < Len(att) => (h \in Hits(t, stale) <=> att[h + 1].type = t)
      BY <3>2, PlacesAreHits
    <3>4. h \in hits /\ Cardinality({g \in hits : g < h}) = k
      BY <3>1, <3>2, <3>3
    <3> QED
      BY <1>5, <3>4
  <2> QED
    BY <2>1, <2>2
<1> QED
  BY <1>4, <1>5

\* As long as the number is right, a removal by number takes the attachment
\* that the caller counted.
THEOREM TakesTheKth == Spec => RemovesTheKth
<1>1. IInv /\ [Next]_vars =>
        [op'.call = "removeByIndex" /\ index = Len(att) + removed /\ ~broken' =>
           LET mine == OfType(att, op'.type)
           IN OfType(att', op'.type) =
                  IF op'.k < Len(mine) THEN RemoveAt(mine, op'.k + 1) ELSE mine]_vars
  <2> SUFFICES ASSUME IInv, [Next]_vars, op'.call = "removeByIndex",
                      index = Len(att) + removed, ~broken', ~UNCHANGED vars
               PROVE  OfType(att', op'.type) =
                        IF op'.k < Len(OfType(att, op'.type))
                        THEN RemoveAt(OfType(att, op'.type), op'.k + 1)
                        ELSE OfType(att, op'.type)
    OBVIOUS
  <2>1. PICK t \in Types : Removing(t)
    BY NotRemoving
  <2>2. PICK k \in 0..(MaxAdds - 1), stale \in Garbage :
           Install(RemoveKth(t, k, stale)) /\ op'.type = t /\ op'.k = k
    BY <2>1, RemovingCalls
  <2>3. k \in Nat
    BY <2>2, BoundAssumption
  <2> QED
    BY <2>2, <2>3, RemovesKth
<1> QED
  BY <1>1, Inductive, PTL DEF Spec, RemovesTheKth

\* A mail carries every attachment but the files that are not to be had, when
\* nothing was removed and the number did not wrap around.
THEOREM CarriesAll == Spec => SendsAll
<1>1. IInv /\ [Next]_vars =>
        [op'.call = "sendMail" /\ removed = 0 /\ Len(att) < IndexMod =>
           /\ op'.sent = {i \in 0..(Len(att) - 1) :
                            \/ att[i + 1].type = "data"
                            \/ i >= op'.from /\ att[i + 1].name \in op'.exists}
           /\ ~broken']_vars
  <2> SUFFICES ASSUME IInv, [Next]_vars, op'.call = "sendMail", removed = 0,
                      Len(att) < IndexMod, ~UNCHANGED vars
               PROVE  /\ op'.sent = {i \in 0..(Len(att) - 1) :
                                        \/ att[i + 1].type = "data"
                                        \/ i >= op'.from /\ att[i + 1].name \in op'.exists}
                      /\ ~broken'
    OBVIOUS
  <2>1. Send
    <3>1. ~Addressing
      BY DEF Addressing, AddRecipient, RemoveRecipient, RemoveRecipientAt, ClearRecipient
    <3>2. ASSUME NEW n \in Names, NEW t \in Types, Add(n, t) PROVE FALSE
      BY <3>2 DEF Add
    <3>3. ASSUME NEW t \in Types, Removing(t) PROVE FALSE
      BY <3>3, RemovingCalls
    <3>4. ASSUME NEW t \in Types, Count(t) PROVE FALSE
      BY <3>4 DEF Count
    <3>5. ~ClearAttachment /\ ~Empty
      BY DEF ClearAttachment, Empty
    <3> QED
      BY <3>1, <3>2, <3>3, <3>4, <3>5, Steps
  <2>2. index = Len(att)
    <3>1. ~broken
      BY <2>1 DEF Send
    <3>2. Len(att) + removed < IndexMod => index = Len(att) + removed
      BY <3>1 DEF IInv, Counted
    <3>3. Len(att) \in Nat
      BY Inside DEF IInv
    <3> QED
      BY <3>2, <3>3
  <2>3. PICK from \in 0..index, exists \in SUBSET Names, stale \in Garbage :
           op' = [call |-> "sendMail", from |-> from, exists |-> exists,
                  sent |-> Carried(from, exists, stale)]
    BY <2>1 DEF Send
  <2>4. /\ op'.from = from /\ op'.exists = exists
        /\ op'.sent = Carried(from, exists, stale)
    BY <2>3
  <2>6. Slots = 0..(Len(att) - 1) /\ \A i \in Slots : i < Len(att)
    BY <2>2, Inside DEF IInv, Slots
  <2>7. op'.sent = {i \in 0..(Len(att) - 1) : InMail(i, from, exists)}
    BY <2>4, <2>6 DEF Carried
  <2>5. broken' => removed > 0
    BY <2>1, SendStep
  <2> QED
    BY <2>4, <2>5, <2>7 DEF InMail
<1> QED
  BY <1>1, Inductive, PTL DEF Spec, SendsAll

-----------------------------------------------------------------------------
\* The base64 streams.

\* The buffer holds q lines and m groups, the line in the buffer is the line
\* on the wire.
InStep ==
    /\ \E q \in 0..11, m \in 0..18 : byteAdd = 78 * q + 4 * m /\ dByte = 4 * m
    /\ col = dByte

\* What was encoded so far is in the buffer or written.  After k groups the
\* stream has 4k characters: some full lines and the current one.
Accounted ==
    \E k \in Nat :
        /\ size = left + 3 * k
        /\ written + byteAdd = 4 * k + 2 * lines
        /\ 4 * k = 76 * lines + dByte

StreamTyped ==
    /\ pc \in {"loop", "tail", "done"}
    /\ size \in Sizes /\ size \in Nat
    /\ left \in Nat /\ left <= size
    /\ byteAdd \in Nat /\ dByte \in Nat
    /\ written \in Nat /\ lines \in Nat /\ col \in Nat

Ended ==
    /\ pc = "tail" => /\ left \in 1..2 /\ byteAdd = 0
                      /\ dByte \in 0..72 /\ col = dByte /\ Accounted
    /\ pc = "done" => /\ byteAdd = 0 /\ dByte \in 0..72 /\ col <= 76 /\ left = 0
                      /\ \E k \in Nat : \E r \in 0..2 :
                          /\ size = 3 * k + r
                          /\ written = 4 * k + 2 * lines + (IF r = 0 THEN 0 ELSE 4)
                          /\ 4 * k = 76 * lines + dByte

StreamInv ==
    /\ StreamTyped
    /\ pc = "loop" => InStep /\ Accounted
    /\ Ended

-----------------------------------------------------------------------------
LEMMA StreamInvInit == StreamInit => StreamInv
<1> SUFFICES ASSUME StreamInit PROVE StreamInv
    OBVIOUS
<1>1. size \in Nat
    BY SizesAssumption DEF StreamInit
<1>2. InStep
    <2>1. 0 \in 0..11 /\ 0 \in 0..18 /\ byteAdd = 78 * 0 + 4 * 0 /\ dByte = 4 * 0
        BY DEF StreamInit
    <2> QED
        BY <2>1 DEF InStep, StreamInit
<1>3. Accounted
    <2>1. /\ size = left + 3 * 0 /\ written + byteAdd = 4 * 0 + 2 * lines
          /\ 4 * 0 = 76 * lines + dByte
        BY <1>1 DEF StreamInit
    <2> QED
        BY <2>1 DEF Accounted
<1> QED
    BY <1>1, <1>2, <1>3 DEF StreamInv, StreamTyped, Ended, StreamInit

\* What one group does to the buffer, case by case.
LEMMA GroupStep ==
    ASSUME StreamInv, Group
    PROVE  StreamInv'
<1>1. /\ pc = "loop" /\ left >= 3 /\ pc' = "loop" /\ left' = left - 3 /\ size' = size
    BY DEF Group
<1>2. PICK q \in 0..11, m \in 0..18 : byteAdd = 78 * q + 4 * m /\ dByte = 4 * m
    BY <1>1 DEF StreamInv, InStep
<1>3. PICK k \in Nat : /\ size = left + 3 * k
                       /\ written + byteAdd = 4 * k + 2 * lines
                       /\ 4 * k = 76 * lines + dByte
    BY <1>1 DEF StreamInv, Accounted
<1>4. col = dByte /\ StreamTyped
    BY <1>1 DEF StreamInv, InStep
<1>5. CASE m < 18
    <2>1. ~EndsLine(dByte + 4) /\ ~NearlyFull(byteAdd + 4)
        BY <1>2, <1>5 DEF EndsLine, NearlyFull, LineLen, ChunkSize
    <2>2. /\ dByte' = dByte + 4 /\ lines' = lines /\ col' = col + 4
          /\ byteAdd' = byteAdd + 4 /\ written' = written
        BY <2>1, <1>4 DEF Group, StreamTyped
    <2>3. m + 1 \in 0..18 /\ byteAdd' = 78 * q + 4 * (m + 1) /\ dByte' = 4 * (m + 1)
        BY <1>2, <1>5, <2>2
    <2>4. InStep'
        BY <1>4, <2>2, <2>3 DEF InStep
    <2>5. Accounted'
        <3>1. /\ k + 1 \in Nat /\ size' = left' + 3 * (k + 1)
              /\ written' + byteAdd' = 4 * (k + 1) + 2 * lines'
              /\ 4 * (k + 1) = 76 * lines' + dByte'
            BY <1>1, <1>3, <1>4, <2>2 DEF StreamTyped
        <3> QED
            BY <3>1 DEF Accounted
    <2> QED
        BY <1>1, <1>4, <2>2, <2>4, <2>5 DEF StreamInv, StreamTyped, Ended
<1>6. CASE m = 18 /\ q < 11
    <2>1. /\ EndsLine(dByte + 4) /\ HasRoom(byteAdd + 4) /\ ~NearlyFull(byteAdd + 6)
        BY <1>2, <1>6 DEF EndsLine, HasRoom, NearlyFull, LineLen, ChunkSize
    <2>2. byteAdd + 4 + 2 = byteAdd + 6
        BY <1>4 DEF StreamTyped
    <2>3. /\ dByte' = 0 /\ lines' = lines + 1 /\ col' = 0
          /\ byteAdd' = byteAdd + 6 /\ written' = written
        BY <2>1, <2>2 DEF Group
    <2>4. q + 1 \in 0..11 /\ byteAdd' = 78 * (q + 1) + 4 * 0 /\ dByte' = 4 * 0
        BY <1>2, <1>6, <2>3
    <2>5. InStep'
        BY <2>3, <2>4 DEF InStep
    <2>6. Accounted'
        <3>1. /\ k + 1 \in Nat /\ size' = left' + 3 * (k + 1)
              /\ written' + byteAdd' = 4 * (k + 1) + 2 * lines'
              /\ 4 * (k + 1) = 76 * lines' + dByte'
            BY <1>1, <1>2, <1>3, <1>4, <1>6, <2>3 DEF StreamTyped
        <3> QED
            BY <3>1 DEF Accounted
    <2> QED
        BY <1>1, <1>4, <2>3, <2>5, <2>6 DEF StreamInv, StreamTyped, Ended
<1>7. CASE m = 18 /\ q = 11
    <2>1. /\ EndsLine(dByte + 4) /\ HasRoom(byteAdd + 4) /\ NearlyFull(byteAdd + 6)
        BY <1>2, <1>7 DEF EndsLine, HasRoom, NearlyFull, LineLen, ChunkSize
    <2>2. byteAdd + 4 + 2 = byteAdd + 6
        BY <1>4 DEF StreamTyped
    <2>3. /\ dByte' = 0 /\ lines' = lines + 1 /\ col' = 0
          /\ byteAdd' = 0 /\ written' = written + (byteAdd + 6)
        BY <2>1, <2>2 DEF Group
    <2>4. 0 \in 0..11 /\ 0 \in 0..18 /\ byteAdd' = 78 * 0 + 4 * 0 /\ dByte' = 4 * 0
        BY <2>3
    <2>5. InStep'
        BY <2>3, <2>4 DEF InStep
    <2>6. Accounted'
        <3>1. /\ k + 1 \in Nat /\ size' = left' + 3 * (k + 1)
              /\ written' + byteAdd' = 4 * (k + 1) + 2 * lines'
              /\ 4 * (k + 1) = 76 * lines' + dByte'
            BY <1>1, <1>2, <1>3, <1>4, <1>7, <2>3 DEF StreamTyped
        <3> QED
            BY <3>1 DEF Accounted
    <2> QED
        BY <1>1, <1>4, <2>3, <2>5, <2>6 DEF StreamInv, StreamTyped, Ended
<1> QED
    BY <1>2, <1>5, <1>6, <1>7

LEMMA FlushStep ==
    ASSUME StreamInv, Flush
    PROVE  StreamInv'
<1>1. /\ pc = "loop" /\ left < 3 /\ byteAdd' = 0 /\ written' = written + byteAdd
      /\ pc' = IF left > 0 THEN "tail" ELSE "done"
      /\ UNCHANGED <<size, left, dByte, lines, col>>
    BY DEF Flush
<1>2. StreamTyped /\ col = dByte /\ dByte \in 0..72
    BY <1>1 DEF StreamInv, InStep
<1>3. PICK k \in Nat : /\ size = left + 3 * k
                       /\ written + byteAdd = 4 * k + 2 * lines
                       /\ 4 * k = 76 * lines + dByte
    BY <1>1 DEF StreamInv, Accounted
<1>4. StreamTyped'
    BY <1>1, <1>2 DEF StreamTyped
<1>5. Accounted'
    <2>1. /\ size' = left' + 3 * k
          /\ written' + byteAdd' = 4 * k + 2 * lines'
          /\ 4 * k = 76 * lines' + dByte'
        BY <1>1, <1>2, <1>3 DEF StreamTyped
    <2> QED
        BY <2>1 DEF Accounted
<1>6. Ended'
    <2>1. CASE left > 0
        BY <1>1, <1>2, <1>5, <2>1 DEF Ended, StreamTyped
    <2>2. CASE left = 0
        <3>1. /\ 0 \in 0..2 /\ size' = 3 * k + 0
              /\ written' = 4 * k + 2 * lines' + (IF 0 = 0 THEN 0 ELSE 4)
              /\ 4 * k = 76 * lines' + dByte'
            BY <1>1, <1>2, <1>3, <2>2 DEF StreamTyped
        <3> QED
            BY <1>1, <1>2, <2>2, <3>1 DEF Ended, StreamTyped
    <2> QED
        BY <1>2, <2>1, <2>2 DEF StreamTyped
<1> QED
    BY <1>1, <1>4, <1>6 DEF StreamInv

LEMMA PadStep ==
    ASSUME StreamInv, Pad
    PROVE  StreamInv'
<1>1. /\ pc = "tail" /\ pc' = "done" /\ left' = 0
      /\ written' = written + 4 /\ col' = col + 4
      /\ UNCHANGED <<size, byteAdd, dByte, lines>>
    BY DEF Pad
<1>2. /\ StreamTyped /\ left \in 1..2 /\ byteAdd = 0 /\ dByte \in 0..72 /\ col = dByte
    BY <1>1 DEF StreamInv, Ended
<1>3. PICK k \in Nat : /\ size = left + 3 * k
                       /\ written + byteAdd = 4 * k + 2 * lines
                       /\ 4 * k = 76 * lines + dByte
    BY <1>1 DEF StreamInv, Ended, Accounted
<1>4. StreamTyped'
    BY <1>1, <1>2 DEF StreamTyped
<1>5. /\ left \in 0..2 /\ size' = 3 * k + left
      /\ written' = 4 * k + 2 * lines' + (IF left = 0 THEN 0 ELSE 4)
      /\ 4 * k = 76 * lines' + dByte'
    BY <1>1, <1>2, <1>3 DEF StreamTyped
<1>6. Ended'
    BY <1>1, <1>2, <1>5 DEF Ended
<1> QED
    BY <1>1, <1>4, <1>6 DEF StreamInv

LEMMA StreamInvStep == StreamInv /\ [StreamNext]_streamVars => StreamInv'
<1> SUFFICES ASSUME StreamInv, [StreamNext]_streamVars PROVE StreamInv'
    OBVIOUS
<1>1. CASE UNCHANGED streamVars
    BY <1>1 DEF streamVars, StreamInv, StreamTyped, InStep, Accounted, Ended
<1> QED
    BY <1>1, GroupStep, FlushStep, PadStep DEF StreamNext

\* How far the buffer and the line are from their ends, in every state.
THEOREM StreamInductive == StreamSpec => []StreamInv
BY StreamInvInit, StreamInvStep, PTL DEF StreamSpec

\* Every counter stays in its range: in particular the buffer is never left
\* within four bytes of its end.
THEOREM StreamTypeCorrect == StreamSpec => []StreamTypeOK
<1>1. StreamInv => StreamTypeOK
    <2> SUFFICES ASSUME StreamInv PROVE StreamTypeOK
        OBVIOUS
    <2>1. byteAdd \in 0..(ChunkSize - 5) /\ dByte \in 0..LineLen
        BY DEF StreamInv, StreamTyped, InStep, Ended, ChunkSize, LineLen
    <2> QED
        BY <2>1 DEF StreamInv, StreamTyped, StreamTypeOK
<1> QED
    BY <1>1, StreamInductive, PTL

\* No group of characters is written past the end of the buffer.
THEOREM BufferSafe == StreamSpec => []GroupFits
<1>1. StreamInv => GroupFits
    BY DEF StreamInv, InStep, GroupFits, ChunkSize
<1> QED
    BY <1>1, StreamInductive, PTL

\* No line feed is dropped, so that no line is longer than 76 characters.
THEOREM LinesFit == StreamSpec => []LineFits
<1>1. StreamInv => LineFits
    BY DEF StreamInv, StreamTyped, InStep, Ended, LineFits, LineLen
<1> QED
    BY <1>1, StreamInductive, PTL

\* The whole attachment is written, with a line feed after every full line.
THEOREM WritesAll == StreamSpec => []AllWritten
<1>1. StreamInv => AllWritten
    <2> SUFFICES ASSUME StreamInv, pc = "done"
                 PROVE  /\ written = 4 * ((size + 2) \div 3) + 2 * lines
                        /\ lines = (4 * (size \div 3)) \div LineLen
        BY DEF AllWritten
    <2>1. PICK k \in Nat, r \in 0..2 :
              /\ size = 3 * k + r
              /\ written = 4 * k + 2 * lines + (IF r = 0 THEN 0 ELSE 4)
              /\ 4 * k = 76 * lines + dByte
        BY DEF StreamInv, Ended
    <2>2. dByte \in 0..72 /\ lines \in Nat
        BY DEF StreamInv, Ended, StreamTyped
    <2>3. size \div 3 = k
        BY <2>1
    <2>4. (size + 2) \div 3 = IF r = 0 THEN k ELSE k + 1
        BY <2>1
    <2>5. (4 * k) \div 76 = lines
        BY <2>1, <2>2
    <2> QED
        BY <2>1, <2>2, <2>3, <2>4, <2>5 DEF LineLen
<1> QED
    BY <1>1, StreamInductive, PTL
=============================================================================
