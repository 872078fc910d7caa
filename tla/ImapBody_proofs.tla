--------------------------- MODULE ImapBody_proofs ---------------------------
(***************************************************************************)
(* What is kept of one part, for parts of any number of lines and any      *)
(* length: a text in memory is the beginning of what is kept of its part - *)
(* all but the last two characters, when it is not base64 - and all of     *)
(* that when it fits, a file holds the bytes of its part, the size of an   *)
(* attachment whose progress is reported is that of its file, and a cut is *)
(* told.                                                                   *)
(***************************************************************************)
EXTENDS ImapBody, SequenceTheorems, FiniteSetTheorems, TLAPS

-----------------------------------------------------------------------------
\* The inductive invariant.

Count == Len(ask.lines)
CharEnds == Ends(CharsOf(ask))
ByteEnds == Ends(Widths(ask))

\* n lines of the reply were read; the others are to come, unless the
\* connection breaks.
ToCome(reply, n) ==
    /\ n + Len(inbox) + Len(owed) <= Len(reply)
    /\ \A k \in DOMAIN inbox : inbox[k] = reply[n + k]
    /\ \A k \in DOMAIN owed : owed[k] = reply[n + Len(inbox) + k]

\* Characters counted after n lines of a reply that brings the part.
Counted(n) ==
    CASE Payload(ask) = 0 \/ n <= 1 -> 0
      [] Payload(ask) # 0 /\ n > 1 /\ n <= Count -> CharEnds[n - 1]
      [] Payload(ask) # 0 /\ n > 1 /\ n = Count + 1 -> Payload(ask) + 3
      [] OTHER -> Payload(ask) + 3 + TagChars
Framed(n) ==
    /\ wait.lf = (IF n = 0 THEN 0 ELSE 1)
    /\ wait.payload = (IF n = 0 THEN 0 ELSE Payload(ask))
    /\ wait.chars = Counted(n)
    /\ wait.valid <=> n > 0
    /\ wait.complete <=> n = Count + 2 /\ Payload(ask) # 0

\* Nothing but positions of the part is kept of its lines.
InFile(s) == IF ask.save /\ ask.sdOk THEN s ELSE <<>>
PlainKept(c) ==
    /\ text = Span(1, Min({Min({c, Payload(ask) - 2}), MaxChar - 1}))
    /\ file = InFile(Span(1, Min({c, Payload(ask) - 2})))

\* The lines of a base64 text are kept up to the first that does not fit.
TagStored == IF Payload(ask) = 0 THEN 0 < MaxChar ELSE Payload(ask) + 3 + TagChars < MaxChar
Fit(q, k) ==
    /\ q = k \/ Counted(q + 2) >= MaxChar
    /\ q > 0 => Counted(q + 1) < MaxChar
DecodedText(k) == \E q \in 0 .. k : Fit(q, k) /\ text = Span(1, ByteEnds[q])
WithTag(s) == s \o NoByte(TagBytes)
Closing == IF ask.decoded \/ ask.lines[Count] = 0 THEN <<>> ELSE NoByte(1)
Closed == Body(ask) \o Closing
Taken(n) == IF n <= 1 THEN 0 ELSE IF n <= Count + 1 THEN n - 1 ELSE Count
SavedUpTo(n) == IF n <= Count THEN Span(1, ByteEnds[Taken(n)]) ELSE Closed
DecodedKept(n) ==
    IF n <= Count + 1
      THEN DecodedText(Taken(n)) /\ file = InFile(SavedUpTo(n))
      ELSE /\ IF TagStored THEN text = WithTag(Body(ask)) ELSE DecodedText(Count)
           /\ file = InFile(WithTag(Closed))

\* Lines of an attachment are written until the declared size is exceeded; a
\* blank line counts as the one before.
Whole(q, k) == ByteEnds[q] <= ask.declared /\ (q = k \/ ByteEnds[q + 1] > ask.declared)
Exceeded == total > ask.declared
Written(k) ==
    /\ k > 0 /\ ask.lines[k] # 0 => out = ask.lines[k]
    /\ \E q \in 0 .. k :
          /\ Whole(q, k) /\ file = Span(1, ByteEnds[q])
          /\ IF q # k THEN Exceeded
             ELSE \/ total = ByteEnds[k] /\ (k > 0 => ask.lines[k] # 0)
                  \/ k > 1 /\ ask.lines[k] = 0
                       /\ (Exceeded \/ total >= ByteEnds[k] + ask.lines[k - 1])
WholeLines == \E q \in 0 .. Count : Whole(q, Count) /\ file = Span(1, ByteEnds[q])
WrittenTag ==
    \/ WholeLines
    \/ /\ file = WithTag(Body(ask))
       /\ ask.declared >= Sum(ask.lines) + Twice(ask) + TagBytes
AttachmentKept(n) == IF n <= Count + 1 THEN Written(Taken(n)) ELSE WrittenTag

Kept(n) ==
    /\ ask.type = "TEXT" /\ ~ask.base64 => PlainKept(wait.chars)
    /\ ask.type = "TEXT" /\ ask.base64 => DecodedKept(n)
    /\ ask.type = "ATTACHMENT" =>
          /\ text = <<>>
          /\ IF ask.base64 THEN NoBlank(ask) => AttachmentKept(n) ELSE file = <<>>

Granted(n) == ToCome(Yes(ask), n) /\ Framed(n) /\ Kept(n)
Denied(n) ==
    /\ ToCome(No, n)
    /\ wait = [lf |-> n, chars |-> 0, payload |-> 0, valid |-> FALSE, complete |-> FALSE]
    /\ text = <<>> /\ file = <<>>
Reading == \/ \E n \in 0 .. Count + 2 : Granted(n)
           \/ \E n \in 0 .. 1 : Denied(n)

\* Nothing is marked before the wait ends.
Unmarked ==
    /\ ~record.mailError /\ (record.partError => ~ask.sdOk)
    /\ record.size = ask.declared

\* What is kept, whether the wait is over or not.
TextWhole ==
    ask.type = "TEXT" =>
       /\ IsPrefix(text, IF TagFits THEN WithTag(Wanted) ELSE Wanted)
       /\ wait.complete /\ Room => IsPrefix(Wanted, text)
FileWhole ==
    CASE ask.type = "TEXT" ->
           /\ IsPrefix(file, Wanted \o NoByte(IF ask.base64 THEN 1 + TagBytes ELSE 0))
           /\ wait.complete /\ ask.save /\ ask.sdOk => IsPrefix(Wanted, file)
      [] ask.type = "ATTACHMENT" /\ ask.base64 ->
           /\ ask.declared < Sum(ask.lines) + Twice(ask) + TagBytes
                /\ NoBlank(ask) => IsPrefix(file, Wanted)
           /\ wait.complete /\ NoBlank(ask) /\ ask.declared >= Sum(ask.lines) =>
                IsPrefix(Wanted, file)
      [] OTHER -> file = <<>>

Reported == counted = IF ask.report THEN Len(file) ELSE 0

Bounded == text = <<>> \/ Payload(ask) = 0 \/ Len(text) < MaxChar

Kinds == {"literal", "body", "last", "ok", "no"}
Lines == [kind : Kinds, chars : Nat, bytes : Seq(Nat)]
Waits == [lf : {0, 1}, chars : Nat, payload : {0, Payload(ask)},
          valid : BOOLEAN, complete : BOOLEAN]
Records == [size : Nat, opened : BOOLEAN, partError : BOOLEAN, mailError : BOOLEAN]
Headers == [wanted : BOOLEAN, saved : BOOLEAN]
Types ==
    /\ ask \in Asks /\ stage \in {"first", "lines", "done", "crashed"}
    /\ conn \in {"up", "down"} /\ inbox \in Seq(Lines) /\ owed \in Seq(Lines)
    /\ wait \in Waits /\ text \in Seq(Nat) /\ file \in Seq(Nat)
    /\ out \in Nat /\ total \in 0 .. ask.declared + 1 /\ counted \in Nat
    /\ record \in Records /\ header \in Headers

IInv ==
    /\ Types /\ Reported
    /\ stage = "first" => wait.lf = 0
    /\ stage # "done" => Reading /\ Unmarked
    /\ stage = "done" => TextWhole /\ FileWhole /\ Bounded /\ SizeIsFile /\ CutIsTold

-----------------------------------------------------------------------------
\* Induction, sequences, and the lesser of two numbers.

\* Numbers below one that is missing can be counted down for ever, unless
\* zero is missing or some number is the first to be missing: the step down
\* maps the missing numbers one-to-one into themselves and misses the largest.
LEMMA SetInduction ==
    ASSUME NEW S, 0 \in S, \A n \in Nat : n \in S => n + 1 \in S
    PROVE  Nat \subseteq S
<1> SUFFICES ASSUME NEW n \in Nat, n \notin S PROVE FALSE
  OBVIOUS
<1> DEFINE D == {k \in 0 .. n : k \notin S}
           down == [k \in D |-> k - 1]
<1>1. IsFiniteSet(D)
  <2>1. D \in SUBSET (0 .. n) /\ IsFiniteSet(0 .. n)
    BY FS_Interval
  <2> QED
    BY <2>1, FS_Subset
<1>2. \A k \in D : k \in Nat /\ k # 0 /\ k <= n /\ k - 1 \in D
  <2> SUFFICES ASSUME NEW k \in D PROVE k \in Nat /\ k # 0 /\ k <= n /\ k - 1 \in D
    OBVIOUS
  <2>1. k \in Nat /\ k # 0 /\ k <= n /\ k \notin S
    OBVIOUS
  <2>2. k - 1 \in Nat /\ (k - 1) + 1 = k
    BY <2>1
  <2> QED
    BY <2>1, <2>2
<1>3. n \in D
  OBVIOUS
<1> HIDE DEF D
<1>4. down \in Injection(D, D)
  BY <1>2 DEF Injection, IsInjective
<1>5. down \in Surjection(D, D)
  BY <1>1, <1>4, FS_Injection
<1>6. PICK k \in D : down[k] = n
  BY <1>3, <1>5 DEF Surjection
<1> QED
  BY <1>2, <1>6

\* One line read.
LEMMA OneRead ==
    ASSUME NEW S, NEW s \in Seq(S), s # <<>>
    PROVE  /\ Tail(s) \in Seq(S) /\ Head(s) = s[1] /\ Head(s) \in S
           /\ 1 \in DOMAIN s /\ Len(s) \in Nat /\ Len(s) >= 1
           /\ DOMAIN s = 1 .. Len(s) /\ Len(Tail(s)) = Len(s) - 1
           /\ \A k \in DOMAIN Tail(s) : k + 1 \in DOMAIN s /\ Tail(s)[k] = s[k + 1]
           /\ Len(s) = 1 => Tail(s) = <<>>
<1>1. /\ Len(s) \in Nat /\ DOMAIN s = 1 .. Len(s) /\ Len(s) >= 1
  BY LenProperties, EmptySeq
<1>2. /\ Head(s) \in S /\ Tail(s) \in Seq(S) /\ Len(Tail(s)) = Len(s) - 1
      /\ \A i \in 1 .. Len(Tail(s)) : Tail(s)[i] = s[i + 1]
  BY HeadTailProperties
<1>3. DOMAIN Tail(s) = 1 .. Len(Tail(s))
  BY <1>2, LenProperties
<1>4. ASSUME Len(s) = 1 PROVE Tail(s) = <<>>
  <2>1. Len(Tail(s)) = 0
    BY <1>2, <1>4
  <2>2. Tail(s) # <<>> => Len(Tail(s)) \in Nat \ {0}
    BY <1>2, EmptySeq
  <2> QED
    BY <2>1, <2>2
<1> QED
  BY <1>1, <1>2, <1>3, <1>4

\* One line more.
LEMMA OneMore ==
    ASSUME NEW S, NEW s \in Seq(S), NEW e \in S
    PROVE  /\ Append(s, e) \in Seq(S) /\ Len(Append(s, e)) = Len(s) + 1
           /\ Len(s) \in Nat /\ DOMAIN s = 1 .. Len(s)
           /\ DOMAIN Append(s, e) = 1 .. (Len(s) + 1)
           /\ \A k \in DOMAIN s : Append(s, e)[k] = s[k]
           /\ Append(s, e)[Len(s) + 1] = e
<1>1. Len(s) \in Nat /\ DOMAIN s = 1 .. Len(s)
  BY LenProperties
<1>2. /\ Append(s, e) \in Seq(S) /\ Len(Append(s, e)) = Len(s) + 1
      /\ \A i \in 1 .. Len(s) : Append(s, e)[i] = s[i]
      /\ Append(s, e)[Len(s) + 1] = e
  BY AppendProperties
<1>3. DOMAIN Append(s, e) = 1 .. Len(Append(s, e))
  BY <1>2, LenProperties
<1> QED
  BY <1>1, <1>2, <1>3

\* A function on an interval from 1 is a sequence.
LEMMA Filling ==
    ASSUME NEW S, NEW n \in Nat, NEW s \in [1 .. n -> S]
    PROVE  s \in Seq(S) /\ Len(s) = n /\ DOMAIN s = 1 .. n
<1>1. s \in Seq(S)
  BY SeqDef
<1>2. DOMAIN s = 1 .. n /\ DOMAIN s = 1 .. Len(s) /\ Len(s) \in Nat
  BY <1>1, LenProperties
<1> QED
  BY <1>1, <1>2

LEMMA NoLines ==
    (\A S : <<>> \in Seq(S)) /\ Len(<<>>) = 0 /\ DOMAIN <<>> = {} /\ <<>> = [i \in 1 .. 0 |-> 0]
OBVIOUS

\* The lesser of two numbers.
LEMMA MinTwo ==
    ASSUME NEW x \in Int, NEW y \in Int
    PROVE  Min({x, y}) = IF x <= y THEN x ELSE y
<1> DEFINE m == IF x <= y THEN x ELSE y
<1>1. m \in {x, y} /\ \A z \in {x, y} : m <= z
  OBVIOUS
<1>2. \A p \in {x, y} : (\A z \in {x, y} : p <= z) => p = m
  OBVIOUS
<1> HIDE DEF m
<1>3. Min({x, y}) = m
  BY <1>1, <1>2 DEF Min
<1> QED
  BY <1>3 DEF m

\* A sequence that agrees with a longer one is a beginning of it.
LEMMA Beginning ==
    ASSUME NEW S, NEW s \in Seq(S), NEW t \in Seq(S), Len(s) <= Len(t),
           \A i \in 1 .. Len(s) : s[i] = t[i]
    PROVE  IsPrefix(s, t)
<1>1. Len(s) \in Nat /\ Len(t) \in Nat
  BY LenProperties
<1>2. /\ SubSeq(s, 1, Len(s)) \in Seq(S) /\ Len(SubSeq(s, 1, Len(s))) = Len(s)
      /\ \A i \in 1 .. Len(s) : SubSeq(s, 1, Len(s))[i] = s[i]
  <2>1. s = SubSeq(s, 1, Len(s))
    BY SubSeqFull
  <2> QED
    BY <2>1
<1>3. SubSeq(t, 1, Len(s)) = [i \in 1 .. Len(s) |-> t[i]]
  <2>1. SubSeq(t, 1, Len(s)) = [i \in 1 .. (1 + Len(s) - 1) |-> t[i + 1 - 1]]
    BY <1>1
  <2> QED
    BY <1>1, <2>1
<1>4. s = [i \in 1 .. Len(s) |-> s[i]]
  BY <1>1, LenProperties
<1>5. SubSeq(s, 1, Len(s)) = SubSeq(t, 1, Len(s))
  BY <1>2, <1>3, <1>4, SubSeqFull
<1> QED
  BY <1>5 DEF IsPrefix

-----------------------------------------------------------------------------
\* Where the lines of a part end.

\* A function like the one that Ends names exists, by induction on its length.
LEMMA EndsExist ==
    ASSUME NEW w \in Seq(Nat)
    PROVE  \E f \in [0 .. Len(w) -> Nat] :
              f[0] = 0 /\ \A k \in 1 .. Len(w) : f[k] = f[k - 1] + w[k]
<1> DEFINE G(n) == {f \in [0 .. n -> Nat] :
                      f[0] = 0 /\ \A k \in 1 .. n : f[k] = f[k - 1] + w[k]}
           S == {n \in Nat : n <= Len(w) => G(n) # {}}
<1>0. Len(w) \in Nat /\ \A k \in 1 .. Len(w) : w[k] \in Nat
  BY LenProperties, ElementOfSeq
<1>1. G(0) # {}
  <2>1. [k \in 0 .. 0 |-> 0] \in G(0)
    OBVIOUS
  <2> QED
    BY <2>1
<1>2. ASSUME NEW n \in Nat, n + 1 <= Len(w), G(n) # {} PROVE G(n + 1) # {}
  <2>1. PICK f \in [0 .. n -> Nat] : f[0] = 0 /\ \A k \in 1 .. n : f[k] = f[k - 1] + w[k]
    BY <1>2
  <2>2. w[n + 1] \in Nat /\ f[n] \in Nat
    BY <1>0, <1>2
  <2> DEFINE g == [k \in 0 .. n + 1 |-> IF k = n + 1 THEN f[n] + w[n + 1] ELSE f[k]]
  <2>3. g \in [0 .. n + 1 -> Nat]
    BY <2>2
  <2>4. g[0] = 0
    BY <2>1
  <2>5. ASSUME NEW k \in 1 .. n + 1 PROVE g[k] = g[k - 1] + w[k]
    <3>1. CASE k = n + 1
      BY <3>1
    <3>2. CASE k \in 1 .. n
      BY <2>1, <3>2
    <3> QED
      BY <3>1, <3>2
  <2> QED
    BY <2>3, <2>4, <2>5
<1> HIDE DEF G
<1>3. 0 \in S /\ \A n \in Nat : n \in S => n + 1 \in S
  BY <1>0, <1>1, <1>2
<1> HIDE DEF S
<1>4. Len(w) \in S
  BY <1>0, <1>3, SetInduction
<1>5. G(Len(w)) # {}
  BY <1>0, <1>4 DEF S
<1> QED
  BY <1>5 DEF G

\* Ends gives the sums of the widths up to each line.
LEMMA EndsAre ==
    ASSUME NEW w \in Seq(Nat)
    PROVE  /\ Ends(w) \in [0 .. Len(w) -> Nat] /\ Ends(w)[0] = 0
           /\ \A k \in 1 .. Len(w) : /\ k - 1 \in 0 .. Len(w) /\ w[k] \in Nat
                                     /\ Ends(w)[k] = Ends(w)[k - 1] + w[k]
           /\ Len(w) \in Nat /\ Sum(w) \in Nat
<1>0. Len(w) \in Nat /\ \A k \in 1 .. Len(w) : w[k] \in Nat
  BY LenProperties, ElementOfSeq
<1>1. PICK f \in [0 .. Len(w) -> Nat] :
        f[0] = 0 /\ \A k \in 1 .. Len(w) : f[k] = f[k - 1] + w[k]
  BY EndsExist
<1>2. f = [k \in 0 .. Len(w) |-> IF k = 0 THEN 0 ELSE f[k - 1] + w[k]]
  <2>1. \A k \in 0 .. Len(w) : f[k] = IF k = 0 THEN 0 ELSE f[k - 1] + w[k]
    BY <1>0, <1>1
  <2> QED
    BY <2>1
<1>3. Ends(w) = [k \in 0 .. Len(w) |-> IF k = 0 THEN 0 ELSE Ends(w)[k - 1] + w[k]]
  BY <1>2 DEF Ends
<1> DEFINE e == Ends(w)
           S == {n \in Nat : n <= Len(w) => e[n] \in Nat}
<1>4. \A k \in 0 .. Len(w) : e[k] = IF k = 0 THEN 0 ELSE e[k - 1] + w[k]
  BY <1>3
<1>5. DOMAIN e = 0 .. Len(w) /\ e = [k \in 0 .. Len(w) |-> e[k]]
  BY <1>3
<1> HIDE DEF e
<1>6. e[0] = 0 /\ \A k \in 1 .. Len(w) : e[k] = e[k - 1] + w[k]
  BY <1>0, <1>4
<1>7. 0 \in S /\ \A n \in Nat : n \in S => n + 1 \in S
  <2> SUFFICES ASSUME NEW n \in Nat, n \in S, n + 1 <= Len(w) PROVE e[n + 1] \in Nat
    BY <1>6
  <2>1. e[n] \in Nat /\ e[n + 1] = e[n] + w[n + 1] /\ w[n + 1] \in Nat
    <3>1. n <= Len(w) /\ n + 1 \in 1 .. Len(w) /\ (n + 1) - 1 = n
      BY <1>0
    <3> QED
      BY <1>0, <1>6, <3>1
  <2> QED
    BY <2>1
<1>8. \A n \in 0 .. Len(w) : e[n] \in Nat
  <2> HIDE DEF S
  <2>1. Nat \subseteq S
    BY <1>7, SetInduction
  <2> QED
    BY <1>0, <2>1 DEF S
<1>9. e \in [0 .. Len(w) -> Nat]
  BY <1>5, <1>8
<1> QED
  BY <1>0, <1>6, <1>8, <1>9 DEF e, Sum

\* Ends grow.
LEMMA EndsGrow ==
    ASSUME NEW w \in Seq(Nat), NEW j \in 0 .. Len(w), NEW k \in 0 .. Len(w), j <= k
    PROVE  Ends(w)[j] <= Ends(w)[k]
<1> DEFINE e == Ends(w)
           S == {n \in Nat : j + n <= Len(w) => e[j] <= e[j + n]}
<1>0. /\ Len(w) \in Nat /\ \A n \in 0 .. Len(w) : e[n] \in Nat
      /\ \A n \in 1 .. Len(w) : e[n] = e[n - 1] + w[n] /\ w[n] \in Nat
  BY EndsAre
<1> HIDE DEF e
<1>1. 0 \in S
  BY <1>0
<1>2. \A n \in Nat : n \in S => n + 1 \in S
  <2> SUFFICES ASSUME NEW n \in Nat, n \in S, j + (n + 1) <= Len(w)
               PROVE  e[j] <= e[j + (n + 1)]
    OBVIOUS
  <2> DEFINE m == j + (n + 1)
  <2>1. j + n <= Len(w) /\ m \in 1 .. Len(w) /\ m - 1 = j + n
    BY <1>0
  <2>2. e[j] <= e[j + n] /\ e[m] = e[j + n] + w[m] /\ w[m] \in Nat
    BY <1>0, <2>1
  <2>3. e[j] \in Nat /\ e[j + n] \in Nat
    BY <1>0, <2>1
  <2> HIDE DEF m
  <2>4. e[j] <= e[m]
    BY <2>2, <2>3
  <2> QED
    BY <2>4 DEF m
<1> HIDE DEF S
<1>3. k - j \in S
  <2>1. k - j \in Nat
    BY <1>0
  <2> QED
    BY <1>1, <1>2, <2>1, SetInduction
<1>4. j + (k - j) = k
  BY <1>0
<1> QED
  BY <1>0, <1>3, <1>4 DEF S, e

-----------------------------------------------------------------------------
\* Positions of a part.

LEMMA SpanAfter ==
    ASSUME NEW x \in Nat, NEW y \in Nat, x <= y
    PROVE  /\ Span(x + 1, y) \in Seq(Nat) /\ Len(Span(x + 1, y)) = y - x
           /\ \A i \in 1 .. y - x : Span(x + 1, y)[i] = x + i
<1>1. Span(x + 1, y) = [i \in 1 .. y - x |-> x + i]
  <2>1. y - (x + 1) + 1 = y - x /\ \A i \in 1 .. y - x : (x + 1) + i - 1 = x + i
    OBVIOUS
  <2> QED
    BY <2>1 DEF Span
<1>2. y - x \in Nat /\ [i \in 1 .. y - x |-> x + i] \in [1 .. y - x -> Nat]
  OBVIOUS
<1> QED
  BY <1>1, <1>2, Filling

LEMMA SpanEmpty ==
    ASSUME NEW a \in Int, NEW b \in Int, b < a PROVE Span(a, b) = <<>>
<1>1. 1 .. b - a + 1 = {} /\ DOMAIN <<>> = {}
  OBVIOUS
<1> QED
  BY <1>1 DEF Span

LEMMA SpanFromOne ==
    ASSUME NEW b \in Int
    PROVE  /\ Span(1, b) \in Seq(Nat)
           /\ Len(Span(1, b)) = IF b > 0 THEN b ELSE 0
           /\ \A i \in 1 .. b : Span(1, b)[i] = i
<1>1. CASE b >= 0
  <2>1. b - 1 + 1 = b /\ \A i \in 1 .. b : 1 + i - 1 = i
    BY <1>1
  <2>2. Span(1, b) = [i \in 1 .. b |-> i]
    BY <2>1 DEF Span
  <2>3. b \in Nat /\ [i \in 1 .. b |-> i] \in [1 .. b -> Nat]
    BY <1>1
  <2>4. b = IF b > 0 THEN b ELSE 0
    BY <1>1
  <2> QED
    BY <2>2, <2>3, <2>4, Filling
<1>2. CASE b < 0
  <2>1. Span(1, b) = <<>>
    BY <1>2, SpanEmpty
  <2>2. 0 = (IF b > 0 THEN b ELSE 0) /\ \A i \in 1 .. b : FALSE
    BY <1>2
  <2>3. <<>> \in Seq(Nat) /\ Len(<<>>) = 0
    BY NoLines
  <2> QED
    BY <2>1, <2>2, <2>3
<1>3. b >= 0 \/ b < 0
  OBVIOUS
<1> QED
  BY <1>1, <1>2, <1>3

LEMMA SpanOfNat ==
    ASSUME NEW b \in Nat PROVE Span(1, b) \in Seq(Nat) /\ Len(Span(1, b)) = b
<1>1. b = IF b > 0 THEN b ELSE 0
  OBVIOUS
<1>2. Span(1, b) \in Seq(Nat) /\ Len(Span(1, b)) = IF b > 0 THEN b ELSE 0
  BY SpanFromOne
<1> QED
  BY <1>1, <1>2

LEMMA SpanJoin ==
    ASSUME NEW x \in Nat, NEW y \in Nat, x <= y
    PROVE  Span(1, x) \o Span(x + 1, y) = Span(1, y)
<1> DEFINE s == Span(1, x)
           t == Span(x + 1, y)
           u == Span(1, y)
<1>1. /\ s \in Seq(Nat) /\ Len(s) = x /\ \A i \in 1 .. x : s[i] = i
      /\ u \in Seq(Nat) /\ Len(u) = y /\ \A i \in 1 .. y : u[i] = i
  BY SpanFromOne
<1>2. t \in Seq(Nat) /\ Len(t) = y - x /\ \A i \in 1 .. y - x : t[i] = x + i
  BY SpanAfter
<1> HIDE DEF s, t, u
<1>3. /\ s \o t \in Seq(Nat) /\ Len(s \o t) = Len(s) + Len(t)
      /\ \A i \in 1 .. Len(s) + Len(t) :
            (s \o t)[i] = IF i <= Len(s) THEN s[i] ELSE t[i - Len(s)]
  <2>1. s \in Seq(Nat) /\ t \in Seq(Nat)
    BY <1>1, <1>2
  <2> QED
    BY <2>1, ConcatProperties, Zenon
<1>4. \A i \in 1 .. y : (s \o t)[i] = i
  <2> TAKE i \in 1 .. y
  <2>1. Len(s) + Len(t) = y
    BY <1>1, <1>2
  <2>2. CASE i <= x
    BY <1>1, <1>3, <2>1, <2>2
  <2>3. CASE i > x
    <3>1. (s \o t)[i] = t[i - x]
      BY <1>1, <1>3, <2>1, <2>3
    <3>2. i - x \in 1 .. y - x
      BY <2>3
    <3>3. t[i - x] = x + (i - x)
      BY <1>2, <3>2
    <3> QED
      BY <3>1, <3>3
  <2>4. i <= x \/ i > x
    OBVIOUS
  <2> QED
    BY <2>2, <2>3, <2>4
<1>5. Len(s \o t) = Len(u)
  BY <1>1, <1>2, <1>3
<1>6. s \o t = u
  BY <1>1, <1>3, <1>4, <1>5, SeqEqual
<1> QED
  BY <1>6 DEF s, t, u

\* More of a part, but not above b.
LEMMA SpanMore ==
    ASSUME NEW x \in Nat, NEW y \in Nat, x <= y, NEW b \in Int
    PROVE  Span(1, Min({x, b})) \o Span(x + 1, Min({y, b})) = Span(1, Min({y, b}))
<1> DEFINE p == Min({x, b})
           q == Min({y, b})
<1>1. p = (IF x <= b THEN x ELSE b) /\ q = IF y <= b THEN y ELSE b
  BY MinTwo
<1> HIDE DEF p, q
<1>2. CASE x <= b
  <2>1. p = x /\ q \in Nat /\ x <= q
    BY <1>1, <1>2
  <2>2. Span(1, x) \o Span(x + 1, q) = Span(1, q)
    BY <2>1, SpanJoin
  <2> QED
    BY <2>1, <2>2 DEF p, q
<1>3. CASE x > b
  <2>1. p = b /\ q = b
    BY <1>1, <1>3
  <2>2. Span(x + 1, q) = <<>> /\ Span(1, p) \in Seq(Nat)
    BY <1>3, <2>1, SpanEmpty, SpanFromOne
  <2>3. Span(1, p) \o <<>> = Span(1, p)
    BY <2>2, ConcatEmptySeq
  <2>4. Span(1, p) \o Span(x + 1, q) = Span(1, q)
    BY <2>1, <2>2, <2>3
  <2> QED
    BY <2>4 DEF p, q
<1>4. x <= b \/ x > b
  OBVIOUS
<1> QED
  BY <1>2, <1>3, <1>4

LEMMA NoByteIs ==
    ASSUME NEW n \in Nat
    PROVE  NoByte(n) \in Seq(Nat) /\ Len(NoByte(n)) = n
<1>1. NoByte(n) \in [1 .. n -> Nat]
  BY DEF NoByte
<1> QED
  BY <1>1, Filling

\* Beginnings of a part, and of a part with something after it.
LEMMA SpanBegins ==
    ASSUME NEW x \in Int, NEW y \in Int, x <= y, NEW t \in Seq(Nat)
    PROVE  IsPrefix(Span(1, x), Span(1, y)) /\ IsPrefix(Span(1, x), Span(1, y) \o t)
<1> DEFINE s == Span(1, x)
           u == Span(1, y)
<1>1. /\ s \in Seq(Nat) /\ Len(s) = (IF x > 0 THEN x ELSE 0) /\ \A i \in 1 .. x : s[i] = i
      /\ u \in Seq(Nat) /\ Len(u) = (IF y > 0 THEN y ELSE 0) /\ \A i \in 1 .. y : u[i] = i
  BY SpanFromOne
<1> HIDE DEF s, u
<1>2. Len(t) \in Nat /\ Len(s) \in Nat /\ Len(u) \in Nat
  BY <1>1, LenProperties
<1>3. Len(s) <= Len(u) /\ \A i \in 1 .. Len(s) : s[i] = u[i] /\ i <= Len(u)
  BY <1>1
<1>4. /\ u \o t \in Seq(Nat) /\ Len(u \o t) = Len(u) + Len(t)
      /\ \A i \in 1 .. Len(u) + Len(t) :
            (u \o t)[i] = IF i <= Len(u) THEN u[i] ELSE t[i - Len(u)]
  BY <1>1, ConcatProperties
<1>5. IsPrefix(s, u)
  BY <1>1, <1>3, Beginning
<1>6. Len(s) <= Len(u \o t) /\ \A i \in 1 .. Len(s) : s[i] = (u \o t)[i]
  BY <1>2, <1>3, <1>4
<1>7. IsPrefix(s, u \o t)
  BY <1>1, <1>4, <1>6, Beginning
<1> QED
  BY <1>5, <1>7 DEF s, u

LEMMA SelfBegins ==
    ASSUME NEW S, NEW s \in Seq(S), NEW t \in Seq(S)
    PROVE  /\ IsPrefix(s, s) /\ IsPrefix(s, s \o t) /\ IsPrefix(<<>>, s)
<1>1. /\ s \o t \in Seq(S) /\ Len(s \o t) = Len(s) + Len(t)
      /\ \A i \in 1 .. Len(s) + Len(t) :
            (s \o t)[i] = IF i <= Len(s) THEN s[i] ELSE t[i - Len(s)]
  BY ConcatProperties
<1>2. Len(s) \in Nat /\ Len(t) \in Nat
  BY LenProperties
<1>3. IsPrefix(s, s)
  BY <1>2, Beginning
<1>4. Len(s) <= Len(s \o t) /\ \A i \in 1 .. Len(s) : s[i] = (s \o t)[i]
  BY <1>1, <1>2
<1>5. IsPrefix(s, s \o t)
  BY <1>1, <1>4, Beginning
<1>6. <<>> \in Seq(S) /\ Len(<<>>) <= Len(s) /\ \A i \in 1 .. Len(<<>>) : <<>>[i] = s[i]
  BY <1>2, NoLines
<1>7. IsPrefix(<<>>, s)
  BY <1>6, Beginning
<1> QED
  BY <1>3, <1>5, <1>7

\* Bytes that are none of the part, behind it.
LEMMA NoBytesBegin ==
    ASSUME NEW s \in Seq(Nat), NEW a \in Nat, NEW b \in Nat, NEW c \in Nat, a + b <= c
    PROVE  /\ s \o NoByte(a) \in Seq(Nat) /\ (s \o NoByte(a)) \o NoByte(b) \in Seq(Nat)
           /\ s \o NoByte(c) \in Seq(Nat)
           /\ IsPrefix(s \o NoByte(a), s \o NoByte(c))
           /\ IsPrefix((s \o NoByte(a)) \o NoByte(b), s \o NoByte(c))
           /\ IsPrefix(s, s \o NoByte(a)) /\ IsPrefix(s, (s \o NoByte(a)) \o NoByte(b))
<1> DEFINE x == s \o NoByte(a)
           y == x \o NoByte(b)
           z == s \o NoByte(c)
           l == Len(s)
<1>1. \A n \in Nat : /\ NoByte(n) \in Seq(Nat) /\ Len(NoByte(n)) = n
                     /\ \A i \in 1 .. n : NoByte(n)[i] = 0
  BY NoByteIs DEF NoByte
<1>2. l \in Nat
  BY LenProperties
<1>0. \A p, q \in Seq(Nat) :
         /\ p \o q \in Seq(Nat) /\ Len(p \o q) = Len(p) + Len(q)
         /\ \A i \in 1 .. Len(p) + Len(q) :
               (p \o q)[i] = IF i <= Len(p) THEN p[i] ELSE q[i - Len(p)]
  BY ConcatProperties
<1>3. /\ x \in Seq(Nat) /\ Len(x) = l + a
      /\ \A i \in 1 .. l + a : x[i] = IF i <= l THEN s[i] ELSE NoByte(a)[i - l]
  <2>1. NoByte(a) \in Seq(Nat) /\ Len(NoByte(a)) = a
    BY <1>1
  <2> QED
    BY <1>0, <2>1
<1>4. /\ z \in Seq(Nat) /\ Len(z) = l + c
      /\ \A i \in 1 .. l + c : z[i] = IF i <= l THEN s[i] ELSE NoByte(c)[i - l]
  <2>1. NoByte(c) \in Seq(Nat) /\ Len(NoByte(c)) = c
    BY <1>1
  <2> QED
    BY <1>0, <2>1
<1> HIDE DEF x
<1>5. /\ y \in Seq(Nat) /\ Len(y) = (l + a) + b
      /\ \A i \in 1 .. (l + a) + b : y[i] = IF i <= l + a THEN x[i] ELSE NoByte(b)[i - (l + a)]
  <2>1. NoByte(b) \in Seq(Nat) /\ Len(NoByte(b)) = b
    BY <1>1
  <2> QED
    BY <1>0, <1>3, <2>1
<1> HIDE DEF y, z, l
<1>6. \A i \in 1 .. l + a : x[i] = IF i <= l THEN s[i] ELSE 0
  <2> SUFFICES ASSUME NEW i \in 1 .. l + a, ~(i <= l) PROVE NoByte(a)[i - l] = 0
    BY <1>3
  <2>1. i - l \in 1 .. a
    BY <1>2
  <2> QED
    BY <1>1, <2>1
<1>7. \A i \in 1 .. l + c : z[i] = IF i <= l THEN s[i] ELSE 0
  <2> SUFFICES ASSUME NEW i \in 1 .. l + c, ~(i <= l) PROVE NoByte(c)[i - l] = 0
    BY <1>4
  <2>1. i - l \in 1 .. c
    BY <1>2
  <2> QED
    BY <1>1, <2>1
<1>8. \A i \in 1 .. (l + a) + b : y[i] = IF i <= l THEN s[i] ELSE 0
  <2> SUFFICES ASSUME NEW i \in 1 .. (l + a) + b PROVE y[i] = IF i <= l THEN s[i] ELSE 0
    OBVIOUS
  <2>1. CASE i <= l + a
    <3>1. i \in 1 .. l + a
      BY <1>2, <2>1
    <3> QED
      BY <1>5, <1>6, <2>1, <3>1
  <2>2. CASE ~(i <= l + a)
    <3>1. i - (l + a) \in 1 .. b /\ ~(i <= l)
      BY <1>2, <2>2
    <3>2. NoByte(b)[i - (l + a)] = 0
      BY <1>1, <3>1
    <3> QED
      BY <1>5, <2>2, <3>1, <3>2
  <2> QED
    BY <2>1, <2>2
<1>9. IsPrefix(x, z)
  <2>1. Len(x) <= Len(z) /\ \A i \in 1 .. Len(x) : i \in 1 .. l + c
    BY <1>2, <1>3, <1>4
  <2>2. \A i \in 1 .. Len(x) : x[i] = z[i]
    BY <1>3, <1>6, <1>7, <2>1
  <2> QED
    BY <1>3, <1>4, <2>1, <2>2, Beginning
<1>10. IsPrefix(y, z)
  <2>1. Len(y) <= Len(z) /\ \A i \in 1 .. Len(y) : i \in 1 .. l + c
    BY <1>2, <1>5, <1>4
  <2>2. \A i \in 1 .. Len(y) : y[i] = z[i]
    BY <1>5, <1>7, <1>8, <2>1
  <2> QED
    BY <1>4, <1>5, <2>1, <2>2, Beginning
<1>11. IsPrefix(s, x)
  BY <1>1, SelfBegins DEF x
<1>12. IsPrefix(s, y)
  <2>1. Len(s) <= Len(y) /\ \A i \in 1 .. Len(s) : i \in 1 .. (l + a) + b /\ i <= l
    BY <1>2, <1>5 DEF l
  <2>2. \A i \in 1 .. Len(s) : s[i] = y[i]
    BY <1>8, <2>1
  <2> QED
    BY <1>5, <2>1, <2>2, Beginning
<1> QED
  BY <1>3, <1>4, <1>5, <1>9, <1>10, <1>11, <1>12 DEF x, y, z

-----------------------------------------------------------------------------
\* The parts, and the replies that bring them.

LEMMA NumbersAre ==
    /\ Sizes \subseteq Nat /\ Garbage \subseteq Nat /\ MaxChar \in Nat
    /\ TagChars \in Nat /\ TagChars > 0 /\ TagBytes \in Nat /\ TagBytes <= TagChars
BY NumbersAssumption

LEMMA AsksAre ==
    ASSUME NEW a \in Asks
    PROVE  /\ a.lines \in Seq(Nat) /\ a.base64 \in BOOLEAN /\ a.declared \in Nat
           /\ a.lines # <<>> /\ a.decoded \in BOOLEAN
           /\ a.save \in BOOLEAN /\ a.sdOk \in BOOLEAN
           /\ a.last \in BOOLEAN /\ a.report \in BOOLEAN
           /\ a.type \in {"TEXT", "ATTACHMENT"}
           /\ a.type = "TEXT" => a.declared = 0 /\ ~a.report
           /\ a.type = "ATTACHMENT" => a.save /\ a.decoded /\ a.sdOk /\ ~a.last
<1>1. CASE a \in [type : {"TEXT"}, base64 : BOOLEAN, lines : Bodies, declared : {0},
                  save : BOOLEAN, decoded : BOOLEAN, sdOk : BOOLEAN, last : BOOLEAN,
                  report : {FALSE}]
  <2>1. a.type = "TEXT" /\ a.lines \in Bodies /\ a.declared = 0
    BY <1>1
  <2>2. a.report = FALSE
    BY <1>1, Zenon
  <2>3. /\ a.base64 \in BOOLEAN /\ a.save \in BOOLEAN /\ a.decoded \in BOOLEAN
        /\ a.sdOk \in BOOLEAN /\ a.last \in BOOLEAN /\ a.report \in BOOLEAN
    BY <1>1
  <2>4. "TEXT" # "ATTACHMENT" /\ 0 \in Nat
    OBVIOUS
  <2> QED
    BY <2>1, <2>2, <2>3, <2>4, BodiesAssumption
<1>2. CASE a \in [type : {"ATTACHMENT"}, base64 : BOOLEAN, lines : Bodies,
                  declared : Sizes, save : {TRUE}, decoded : {TRUE}, sdOk : {TRUE},
                  last : {FALSE}, report : BOOLEAN]
  BY <1>2, BodiesAssumption, NumbersAre
<1> QED
  BY <1>1, <1>2 DEF Asks

LEMMA CharsAre ==
    ASSUME NEW base64 \in BOOLEAN, NEW b \in Nat
    PROVE  /\ Chars(base64, b) \in Nat /\ Chars(base64, b) >= b
           /\ ~base64 => Chars(base64, b) = b
<1>1. 4 * ((b + 2) \div 3) \in Nat /\ 4 * ((b + 2) \div 3) >= b
  OBVIOUS
<1>2. CASE base64
  BY <1>1, <1>2 DEF Chars
<1>3. CASE ~base64
  BY <1>3 DEF Chars
<1> QED
  BY <1>2, <1>3

\* The characters and the content of the lines of a part.
LEMMA PartIs ==
    ASSUME NEW a \in Asks
    PROVE  /\ Len(a.lines) \in Nat /\ Len(a.lines) >= 1
           /\ DOMAIN a.lines = 1 .. Len(a.lines)
           /\ CharsOf(a) \in Seq(Nat) /\ Len(CharsOf(a)) = Len(a.lines)
           /\ Widths(a) \in Seq(Nat) /\ Len(Widths(a)) = Len(a.lines)
           /\ \A k \in 1 .. Len(a.lines) :
                 /\ a.lines[k] \in Nat
                 /\ CharsOf(a)[k] \in Nat
                 /\ Widths(a)[k] \in Nat /\ Widths(a)[k] <= CharsOf(a)[k]
                 /\ a.base64 => Widths(a)[k] = a.lines[k]
           /\ a.base64 => Widths(a) = a.lines
           /\ ~a.base64 => Widths(a) = CharsOf(a)
<1>1. /\ Len(a.lines) \in Nat /\ DOMAIN a.lines = 1 .. Len(a.lines)
      /\ \A k \in 1 .. Len(a.lines) : a.lines[k] \in Nat
      /\ a.lines \in Seq(Nat) /\ a.base64 \in BOOLEAN /\ Len(a.lines) >= 1
  BY AsksAre, LenProperties, ElementOfSeq, EmptySeq
<1>2. \A k \in 1 .. Len(a.lines) :
         /\ Chars(a.base64, a.lines[k]) \in Nat
         /\ Chars(a.base64, a.lines[k]) >= a.lines[k]
  BY <1>1, CharsAre
<1> DEFINE last(k) == IF IsLast(a, k) THEN 0 ELSE 2
<1>3. /\ CharsOf(a) \in [1 .. Len(a.lines) -> Nat]
      /\ \A k \in 1 .. Len(a.lines) : CharsOf(a)[k] >= a.lines[k]
  <2>1. \A k \in 1 .. Len(a.lines) :
           Chars(a.base64, a.lines[k]) + last(k) \in Nat
           /\ Chars(a.base64, a.lines[k]) + last(k) >= a.lines[k]
    <3> TAKE k \in 1 .. Len(a.lines)
    <3>1. last(k) \in {0, 2}
      OBVIOUS
    <3> HIDE DEF last
    <3> QED
      BY <1>1, <1>2, <3>1
  <2>2. CharsOf(a) = [k \in 1 .. Len(a.lines) |-> Chars(a.base64, a.lines[k]) + last(k)]
    BY <1>1 DEF CharsOf
  <2> HIDE DEF last
  <2> QED
    BY <2>1, <2>2
<1>4. CharsOf(a) \in Seq(Nat) /\ Len(CharsOf(a)) = Len(a.lines)
  BY <1>1, <1>3, Filling
<1>5. /\ a.base64 => Widths(a) = a.lines
      /\ ~a.base64 => Widths(a) = CharsOf(a)
  BY DEF Widths
<1>6. \A k \in 1 .. Len(a.lines) :
         CharsOf(a)[k] \in Nat /\ a.lines[k] <= CharsOf(a)[k]
  <2> TAKE k \in 1 .. Len(a.lines)
  <2>1. CharsOf(a)[k] \in Nat /\ CharsOf(a)[k] >= a.lines[k] /\ a.lines[k] \in Nat
    BY <1>1, <1>3
  <2> QED
    BY <2>1
<1>7. CASE a.base64
  BY <1>1, <1>3, <1>4, <1>5, <1>6, <1>7
<1>8. CASE ~a.base64
  <2>1. Widths(a) = CharsOf(a)
    BY <1>5, <1>8
  <2>2. \A k \in 1 .. Len(a.lines) : CharsOf(a)[k] \in Nat => CharsOf(a)[k] <= CharsOf(a)[k]
    OBVIOUS
  <2> QED
    BY <1>1, <1>3, <1>4, <1>5, <1>6, <1>8, <2>1, <2>2
<1> QED
  BY <1>1, <1>7, <1>8

\* The bytes of a part never outnumber its characters, line by line.
LEMMA BytesBelow ==
    ASSUME NEW a \in Asks, NEW k \in 0 .. Len(a.lines)
    PROVE  Ends(Widths(a))[k] <= Ends(CharsOf(a))[k]
<1> DEFINE c == Ends(CharsOf(a))
           w == Ends(Widths(a))
           S == {n \in Nat : n <= Len(a.lines) => w[n] <= c[n]}
<1>1. /\ Len(a.lines) \in Nat /\ w[0] = 0 /\ c[0] = 0
      /\ \A n \in 0 .. Len(a.lines) : w[n] \in Nat /\ c[n] \in Nat
      /\ \A n \in 1 .. Len(a.lines) : /\ w[n] = w[n - 1] + Widths(a)[n]
                                      /\ c[n] = c[n - 1] + CharsOf(a)[n]
                                      /\ Widths(a)[n] \in Nat /\ CharsOf(a)[n] \in Nat
                                      /\ Widths(a)[n] <= CharsOf(a)[n]
  BY PartIs, EndsAre
<1> HIDE DEF c, w
<1>2. 0 \in S
  BY <1>1
<1>3. \A n \in Nat : n \in S => n + 1 \in S
  <2> SUFFICES ASSUME NEW n \in Nat, n \in S, n + 1 <= Len(a.lines)
               PROVE  w[n + 1] <= c[n + 1]
    OBVIOUS
  <2>1. n <= Len(a.lines) /\ n + 1 \in 1 .. Len(a.lines) /\ (n + 1) - 1 = n
    BY <1>1
  <2>2. w[n] <= c[n] /\ w[n] \in Nat /\ c[n] \in Nat
    BY <1>1, <2>1
  <2>3. /\ w[n + 1] = w[n] + Widths(a)[n + 1] /\ c[n + 1] = c[n] + CharsOf(a)[n + 1]
        /\ Widths(a)[n + 1] \in Nat /\ CharsOf(a)[n + 1] \in Nat
        /\ Widths(a)[n + 1] <= CharsOf(a)[n + 1]
    BY <1>1, <2>1
  <2> QED
    BY <2>2, <2>3
<1> HIDE DEF S
<1>4. k \in S
  BY <1>1, <1>2, <1>3, SetInduction
<1> QED
  BY <1>1, <1>4 DEF S, c, w

LEMMA PayloadIs ==
    ASSUME NEW a \in Asks
    PROVE  /\ Payload(a) \in Nat /\ Payload(a) = Ends(CharsOf(a))[Len(a.lines)]
           /\ Sum(Widths(a)) \in Nat /\ Sum(Widths(a)) = Ends(Widths(a))[Len(a.lines)]
           /\ Sum(Widths(a)) <= Payload(a)
           /\ a.base64 => Sum(Widths(a)) = Sum(a.lines)
           /\ ~a.base64 => Sum(Widths(a)) = Payload(a)
<1>1. /\ Len(a.lines) \in Nat /\ Widths(a) \in Seq(Nat) /\ Len(Widths(a)) = Len(a.lines)
      /\ CharsOf(a) \in Seq(Nat) /\ Len(CharsOf(a)) = Len(a.lines)
      /\ a.base64 => Widths(a) = a.lines
      /\ ~a.base64 => Widths(a) = CharsOf(a)
  BY PartIs
<1>2. /\ Payload(a) \in Nat /\ Payload(a) = Ends(CharsOf(a))[Len(a.lines)]
      /\ Sum(Widths(a)) \in Nat /\ Sum(Widths(a)) = Ends(Widths(a))[Len(a.lines)]
  BY <1>1, EndsAre DEF Payload, Sum
<1>3. Sum(Widths(a)) <= Payload(a)
  <2>1. Len(a.lines) \in 0 .. Len(a.lines)
    BY <1>1
  <2> QED
    BY <1>2, <2>1, BytesBelow
<1> QED
  BY <1>1, <1>2, <1>3 DEF Payload

LEMMA LineIs ==
    ASSUME NEW kind \in Kinds, NEW chars \in Nat, NEW bytes \in Seq(Nat)
    PROVE  /\ Line(kind, chars, bytes) \in Lines
           /\ Line(kind, chars, bytes).kind = kind /\ Line(kind, chars, bytes).chars = chars
           /\ Line(kind, chars, bytes).bytes = bytes
BY DEF Line, Lines

LEMMA TagIs ==
    ASSUME NEW kind \in Kinds
    PROVE  /\ Tag(kind) \in Lines /\ Tag(kind).kind = kind
           /\ Tag(kind).chars = TagChars /\ Tag(kind).bytes = NoByte(TagBytes)
BY NumbersAre, NoByteIs, LineIs DEF Tag

LEMMA ContentIs ==
    ASSUME NEW a \in Asks, NEW k \in 1 .. Len(a.lines)
    PROVE  /\ Content(a, k) \in Seq(Nat) /\ Len(Content(a, k)) = Widths(a)[k]
           /\ Widths(a)[k] \in Nat
           /\ Ends(Widths(a))[k] = Ends(Widths(a))[k - 1] + Widths(a)[k]
           /\ Ends(Widths(a))[k - 1] \in Nat /\ Ends(Widths(a))[k] \in Nat
           /\ Span(1, Ends(Widths(a))[k - 1]) \o Content(a, k) = Span(1, Ends(Widths(a))[k])
<1> DEFINE w == Ends(Widths(a))
<1>1. /\ w[k] = w[k - 1] + Widths(a)[k] /\ w[k] \in Nat /\ w[k - 1] \in Nat
      /\ Widths(a)[k] \in Nat
  <2>1. Widths(a) \in Seq(Nat) /\ Len(Widths(a)) = Len(a.lines) /\ Len(a.lines) \in Nat
    BY PartIs
  <2>2. k \in 0 .. Len(a.lines) /\ k - 1 \in 0 .. Len(a.lines)
    BY <2>1
  <2> QED
    BY <2>1, <2>2, EndsAre
<1>2. Content(a, k) = Span(w[k - 1] + 1, w[k])
  BY DEF Content
<1> HIDE DEF w
<1>3. w[k - 1] <= w[k] /\ w[k] - w[k - 1] = Widths(a)[k]
  BY <1>1
<1>4. Content(a, k) \in Seq(Nat) /\ Len(Content(a, k)) = Widths(a)[k]
  BY <1>1, <1>2, <1>3, SpanAfter
<1>5. Span(1, w[k - 1]) \o Content(a, k) = Span(1, w[k])
  BY <1>1, <1>2, <1>3, SpanJoin
<1> QED
  BY <1>1, <1>4, <1>5 DEF w

\* The lines of the literal: the parenthesis is on the last one.
PartLine(a, k) ==
    IF IsLast(a, k) THEN Line("last", CharsOf(a)[k] + 3, Content(a, k))
                    ELSE Line("body", CharsOf(a)[k], Content(a, k))
LEMMA PartLineIs ==
    ASSUME NEW a \in Asks, NEW k \in 1 .. Len(a.lines)
    PROVE  /\ PartLine(a, k) \in Lines
           /\ PartLine(a, k).kind = (IF k = Len(a.lines) THEN "last" ELSE "body")
           /\ PartLine(a, k).chars = CharsOf(a)[k] + (IF k = Len(a.lines) THEN 3 ELSE 0)
           /\ PartLine(a, k).bytes = Content(a, k)
<1>1. CharsOf(a)[k] \in Nat /\ CharsOf(a)[k] + 3 \in Nat
      /\ CharsOf(a)[k] + 0 = CharsOf(a)[k] /\ Content(a, k) \in Seq(Nat)
  <2>1. PICK x \in Nat : x = CharsOf(a)[k]
    BY PartIs
  <2>2. x + 3 \in Nat /\ x + 0 = x
    BY <2>1
  <2>3. Content(a, k) \in Seq(Nat)
    BY ContentIs
  <2> QED
    BY <2>1, <2>2, <2>3
<1>2. "last" \in Kinds /\ "body" \in Kinds
  BY DEF Kinds
<1>3. CASE k = Len(a.lines)
  BY <1>1, <1>2, <1>3, LineIs DEF PartLine, IsLast
<1>4. CASE k # Len(a.lines)
  BY <1>1, <1>2, <1>4, LineIs DEF PartLine, IsLast
<1> QED
  BY <1>3, <1>4

\* The lines of a reply that brings the part.
LEMMA YesIs ==
    ASSUME NEW a \in Asks
    PROVE  /\ Yes(a) \in Seq(Lines) /\ Len(Yes(a)) = Len(a.lines) + 2
           /\ Yes(a)[1] = Line("literal", Payload(a), <<>>)
           /\ \A k \in 1 .. Len(a.lines) : Yes(a)[k + 1] = PartLine(a, k)
           /\ Yes(a)[Len(a.lines) + 2] = Tag("ok")
<1> DEFINE n == Len(a.lines)
           first == Line("literal", Payload(a), <<>>)
           body == [k \in DOMAIN a.lines |-> PartLine(a, k)]
           p == <<first>> \o body
<1>1. n \in Nat /\ DOMAIN a.lines = 1 .. n
  BY PartIs
<1>2. first \in Lines /\ Tag("ok") \in Lines
  <2>1. "literal" \in Kinds /\ "ok" \in Kinds
    BY DEF Kinds
  <2>2. Payload(a) \in Nat /\ <<>> \in Seq(Nat)
    BY PayloadIs, NoLines
  <2> QED
    BY <2>1, <2>2, LineIs, TagIs
<1>3. body \in [1 .. n -> Lines] /\ \A k \in 1 .. n : body[k] = PartLine(a, k)
  <2>1. \A k \in 1 .. n : PartLine(a, k) \in Lines
    BY PartLineIs
  <2> QED
    BY <1>1, <2>1
<1>4. Yes(a) = p \o <<Tag("ok")>>
  BY DEF Yes, PartLine
<1> HIDE DEF first, body, p, n
<1>5. body \in Seq(Lines) /\ Len(body) = n
  BY <1>1, <1>3, Filling
<1>6. /\ <<first>> \in Seq(Lines) /\ Len(<<first>>) = 1 /\ <<first>>[1] = first
      /\ <<Tag("ok")>> \in Seq(Lines) /\ Len(<<Tag("ok")>>) = 1
      /\ <<Tag("ok")>>[1] = Tag("ok")
  BY <1>2
<1>7. /\ p \in Seq(Lines) /\ Len(p) = n + 1 /\ p[1] = first
      /\ \A k \in 1 .. n : p[k + 1] = body[k]
  <2>1. /\ p \in Seq(Lines) /\ Len(p) = 1 + n
        /\ \A i \in 1 .. 1 + n : p[i] = IF i <= 1 THEN <<first>>[i] ELSE body[i - 1]
    BY <1>5, <1>6, ConcatProperties DEF p
  <2>2. \A k \in 1 .. n : k + 1 \in 1 .. 1 + n /\ ~(k + 1 <= 1) /\ (k + 1) - 1 = k
    BY <1>1
  <2>3. 1 \in 1 .. 1 + n /\ 1 <= 1 /\ 1 + n = n + 1
    BY <1>1
  <2> QED
    BY <1>6, <2>1, <2>2, <2>3
<1>8. /\ Yes(a) \in Seq(Lines) /\ Len(Yes(a)) = n + 2
      /\ \A i \in 1 .. n + 1 : Yes(a)[i] = p[i]
      /\ Yes(a)[n + 2] = Tag("ok")
  <2>1. /\ Yes(a) \in Seq(Lines) /\ Len(Yes(a)) = (n + 1) + 1
        /\ \A i \in 1 .. (n + 1) + 1 :
              Yes(a)[i] = IF i <= n + 1 THEN p[i] ELSE <<Tag("ok")>>[i - (n + 1)]
    BY <1>4, <1>6, <1>7, ConcatProperties
  <2>2. /\ (n + 1) + 1 = n + 2 /\ n + 2 \in 1 .. n + 2
        /\ ~(n + 2 <= n + 1) /\ (n + 2) - (n + 1) = 1
        /\ \A i \in 1 .. n + 1 : i \in 1 .. n + 2 /\ i <= n + 1
    BY <1>1
  <2> QED
    BY <1>6, <2>1, <2>2
<1>9. 1 \in 1 .. n + 1 /\ \A k \in 1 .. n : k + 1 \in 1 .. n + 1
  BY <1>1
<1> QED
  BY <1>3, <1>7, <1>8, <1>9 DEF first, n

LEMMA NoIs == No \in Seq(Lines) /\ Len(No) = 1 /\ No[1] = Tag("no")
<1>1. "no" \in Kinds
  BY DEF Kinds
<1>2. Tag("no") \in Lines
  BY <1>1, TagIs
<1> QED
  BY <1>2 DEF No

-----------------------------------------------------------------------------
\* The framing of the reply.

\* What an unchanged request fixes.
LEMMA SameAsk ==
    ASSUME ask' = ask
    PROVE  /\ Count' = Count /\ CharEnds' = CharEnds /\ ByteEnds' = ByteEnds
           /\ Payload(ask)' = Payload(ask) /\ Yes(ask)' = Yes(ask) /\ Body(ask)' = Body(ask)
           /\ TagStored' = TagStored /\ Wanted' = Wanted
           /\ TagFits' = TagFits /\ NoBlank(ask)' = NoBlank(ask)
           /\ Sum(ask.lines)' = Sum(ask.lines) /\ Twice(ask)' = Twice(ask)
           /\ Room' = Room /\ Closed' = Closed
           /\ \A n : Counted(n)' = Counted(n) /\ SavedUpTo(n)' = SavedUpTo(n)
           /\ \A q, k : Fit(q, k)' = Fit(q, k) /\ Whole(q, k)' = Whole(q, k)
           /\ \A s : InFile(s)' = InFile(s)
BY DEF Count, CharEnds, ByteEnds, TagStored, Wanted, TagFits, Counted, Fit, Whole, InFile,
       Room, Closed, Closing, Taken, SavedUpTo

\* A line that is read is one of those that were to come.
LEMMA ToComeRead ==
    ASSUME NEW r, Len(r) \in Nat, NEW n \in Nat, ToCome(r, n),
           inbox \in Seq(Lines), owed \in Seq(Lines), inbox # <<>>,
           inbox' = Tail(inbox), owed' = owed
    PROVE  /\ Head(inbox) = r[n + 1] /\ n + 1 <= Len(r) /\ Head(inbox) \in Lines
           /\ inbox' \in Seq(Lines)
           /\ ToCome(r, n + 1)'
<1>1. /\ inbox' \in Seq(Lines) /\ Head(inbox) = inbox[1] /\ Head(inbox) \in Lines
      /\ 1 \in DOMAIN inbox /\ Len(inbox) \in Nat /\ Len(inbox) >= 1
      /\ Len(inbox') = Len(inbox) - 1
      /\ \A k \in DOMAIN inbox' : k + 1 \in DOMAIN inbox /\ inbox'[k] = inbox[k + 1]
  BY OneRead
<1>2. Len(owed) \in Nat /\ DOMAIN owed = 1 .. Len(owed) /\ DOMAIN inbox' = 1 .. Len(inbox')
  BY <1>1, LenProperties
<1>3. Head(inbox) = r[n + 1] /\ n + Len(inbox) + Len(owed) <= Len(r)
  BY <1>1 DEF ToCome
<1>4. n + 1 <= Len(r) /\ (n + 1) + Len(inbox') + Len(owed') <= Len(r)
  BY <1>1, <1>2, <1>3
<1>5. ASSUME NEW k \in DOMAIN inbox' PROVE inbox'[k] = r[(n + 1) + k]
  <2>1. inbox'[k] = r[n + (k + 1)]
    BY <1>1 DEF ToCome
  <2>2. n + (k + 1) = (n + 1) + k
    BY <1>2
  <2> QED
    BY <2>1, <2>2
<1>6. ASSUME NEW k \in DOMAIN owed' PROVE owed'[k] = r[(n + 1) + Len(inbox') + k]
  <2>1. owed'[k] = r[n + Len(inbox) + k]
    BY DEF ToCome
  <2>2. n + Len(inbox) + k = (n + 1) + Len(inbox') + k
    BY <1>1, <1>2
  <2> QED
    BY <2>1, <2>2
<1>7. ToCome(r, n + 1)'
  BY <1>4, <1>5, <1>6 DEF ToCome
<1> QED
  BY <1>1, <1>3, <1>4, <1>7

LEMMA ToComeDelivered ==
    ASSUME NEW r, Len(r) \in Nat, NEW n \in Nat, ToCome(r, n),
           inbox \in Seq(Lines), owed \in Seq(Lines), owed # <<>>,
           inbox' = Append(inbox, Head(owed)), owed' = Tail(owed)
    PROVE  ToCome(r, n)'
<1>1. /\ Head(owed) = owed[1] /\ Head(owed) \in Lines
      /\ 1 \in DOMAIN owed /\ Len(owed) \in Nat /\ Len(owed') = Len(owed) - 1
      /\ \A k \in DOMAIN owed' : k + 1 \in DOMAIN owed /\ owed'[k] = owed[k + 1]
      /\ owed' \in Seq(Lines)
  BY OneRead
<1>2. /\ Len(inbox') = Len(inbox) + 1 /\ DOMAIN inbox' = 1 .. (Len(inbox) + 1)
      /\ Len(inbox) \in Nat /\ DOMAIN inbox = 1 .. Len(inbox)
      /\ \A k \in DOMAIN inbox : inbox'[k] = inbox[k]
      /\ inbox'[Len(inbox) + 1] = owed[1]
  BY <1>1, OneMore
<1>3. n + Len(inbox') + Len(owed') <= Len(r)
  BY <1>1, <1>2 DEF ToCome
<1>4. ASSUME NEW k \in DOMAIN inbox' PROVE inbox'[k] = r[n + k]
  <2>1. CASE k \in DOMAIN inbox
    BY <1>2, <2>1 DEF ToCome
  <2>2. CASE k = Len(inbox) + 1
    <3>1. owed[1] = r[n + Len(inbox) + 1]
      BY <1>1 DEF ToCome
    <3>2. n + Len(inbox) + 1 = n + k
      BY <1>2, <2>2
    <3> QED
      BY <1>2, <2>2, <3>1, <3>2
  <2> QED
    BY <1>2, <2>1, <2>2
<1>5. ASSUME NEW k \in DOMAIN owed' PROVE owed'[k] = r[n + Len(inbox') + k]
  <2>1. k + 1 \in DOMAIN owed /\ owed'[k] = owed[k + 1]
    BY <1>1
  <2>2. owed[k + 1] = r[n + Len(inbox) + (k + 1)]
    BY <2>1 DEF ToCome
  <2>3. k \in Nat
    BY <1>1, LenProperties
  <2>4. n + Len(inbox) + (k + 1) = n + Len(inbox') + k
    BY <1>2, <2>3
  <2> QED
    BY <2>1, <2>2, <2>4
<1> QED
  BY <1>3, <1>4, <1>5 DEF ToCome

LEMMA ToComeCut ==
    ASSUME NEW r, Len(r) \in Nat, NEW n \in Nat, ToCome(r, n),
           inbox \in Seq(Lines), owed \in Seq(Lines), inbox' = inbox, owed' = <<>>
    PROVE  ToCome(r, n)'
<1>1. Len(inbox) \in Nat /\ Len(owed) \in Nat /\ Len(owed') = 0 /\ DOMAIN owed' = {}
  BY LenProperties, NoLines
<1> QED
  BY <1>1 DEF ToCome

LEMMA CountedIs ==
    ASSUME ask \in Asks, NEW j \in Nat
    PROVE  /\ Payload(ask) = 0 \/ j <= 1 => Counted(j) = 0
           /\ Payload(ask) # 0 /\ j > 1 /\ j <= Count => Counted(j) = CharEnds[j - 1]
           /\ Payload(ask) # 0 /\ j > 1 /\ j = Count + 1 => Counted(j) = Payload(ask) + 3
           /\ Payload(ask) # 0 /\ j > 1 /\ j = Count + 2 =>
                 Counted(j) = Payload(ask) + 3 + TagChars
<1>1. Count \in Nat
  BY PartIs DEF Count
<1> QED
  BY <1>1 DEF Counted

\* The characters of one line more.
LEMMA CountedNext ==
    ASSUME ask \in Asks, NEW n \in 0 .. Count + 1
    PROVE  /\ Counted(n) \in Nat
           /\ Counted(n + 1) = IF n > 0 /\ Payload(ask) > 0
                                 THEN Counted(n) + Yes(ask)[n + 1].chars ELSE Counted(n)
<1> DEFINE P == Payload(ask)
           c == CharEnds
           y == Yes(ask)[n + 1].chars
           m == Count
<1>1. /\ m \in Nat /\ m >= 1 /\ P \in Nat /\ P = c[m] /\ c[0] = 0
      /\ \A k \in 0 .. m : c[k] \in Nat
      /\ \A k \in 1 .. m : c[k] = c[k - 1] + CharsOf(ask)[k] /\ CharsOf(ask)[k] \in Nat
  <2>1. m = Len(ask.lines) /\ m \in Nat /\ m >= 1
        /\ CharsOf(ask) \in Seq(Nat) /\ Len(CharsOf(ask)) = m
    BY PartIs DEF Count
  <2>2. /\ c \in [0 .. m -> Nat] /\ c[0] = 0
        /\ \A k \in 1 .. m : c[k] = c[k - 1] + CharsOf(ask)[k] /\ CharsOf(ask)[k] \in Nat
    BY <2>1, EndsAre DEF CharEnds
  <2>3. P \in Nat /\ P = c[m]
    BY <2>1, PayloadIs DEF CharEnds
  <2> HIDE DEF c, P, m
  <2> QED
    BY <2>1, <2>2, <2>3
<1>2. TagChars \in Nat
  BY NumbersAre
<1>3. n \in Nat /\ n <= m + 1
  BY <1>1
<1>4. \A j \in Nat : /\ P = 0 \/ j <= 1 => Counted(j) = 0
                     /\ P # 0 /\ j > 1 /\ j <= m => Counted(j) = c[j - 1]
                     /\ P # 0 /\ j > 1 /\ j = m + 1 => Counted(j) = P + 3
                     /\ P # 0 /\ j > 1 /\ j = m + 2 => Counted(j) = P + 3 + TagChars
  BY CountedIs
<1>5. /\ n \in 1 .. m => y = CharsOf(ask)[n] + (IF n = m THEN 3 ELSE 0)
      /\ n = m + 1 => y = TagChars
  <2>1. ASSUME n \in 1 .. m PROVE y = CharsOf(ask)[n] + (IF n = m THEN 3 ELSE 0)
    <3>1. Yes(ask)[n + 1] = PartLine(ask, n)
      BY <2>1, YesIs DEF Count
    <3> QED
      BY <2>1, <3>1, PartLineIs DEF Count
  <2>2. ASSUME n = m + 1 PROVE y = TagChars
    <3>1. n + 1 = Len(ask.lines) + 2
      BY <1>1, <2>2 DEF Count
    <3>2. Yes(ask)[n + 1] = Tag("ok")
      BY <3>1, YesIs
    <3> QED
      BY <3>2 DEF Tag, Line
  <2> QED
    BY <2>1, <2>2
<1> HIDE DEF P, c, y, m
<1>6. CASE P = 0
  BY <1>1, <1>3, <1>4, <1>6 DEF P
<1>7. CASE P # 0 /\ n = 0
  BY <1>1, <1>3, <1>4, <1>7
<1>8. CASE P # 0 /\ n \in 1 .. m
  <2>1. Counted(n) = c[n - 1]
    <3>1. CASE n = 1
      BY <1>1, <1>4, <3>1
    <3>2. CASE n # 1
      BY <1>1, <1>4, <1>8, <3>2
    <3> QED
      BY <3>1, <3>2
  <2>2. Counted(n + 1) = c[n] + (IF n = m THEN 3 ELSE 0)
    <3>1. n + 1 > 1 /\ n + 1 <= m + 1 /\ (n + 1) - 1 = n /\ n + 1 \in Nat /\ c[n] \in Nat
      BY <1>1, <1>8
    <3>2. CASE n = m
      BY <1>1, <1>4, <1>8, <3>1, <3>2
    <3>3. CASE n # m
      <4>1. n + 1 <= m /\ c[n] + 0 = c[n]
        BY <1>1, <1>8, <3>1, <3>3
      <4> QED
        BY <1>4, <1>8, <3>1, <3>3, <4>1
    <3> QED
      BY <3>2, <3>3
  <2>3. c[n] = c[n - 1] + CharsOf(ask)[n] /\ c[n - 1] \in Nat /\ CharsOf(ask)[n] \in Nat
    BY <1>1, <1>8
  <2>4. n > 0 /\ P > 0
    BY <1>1, <1>8
  <2>5. y = CharsOf(ask)[n] + (IF n = m THEN 3 ELSE 0)
    BY <1>5, <1>8
  <2> QED
    BY <2>1, <2>2, <2>3, <2>4, <2>5 DEF P, y
<1>9. CASE P # 0 /\ n = m + 1
  <2>1. n > 1 /\ n + 1 > 1 /\ n + 1 = m + 2 /\ n + 1 \in Nat
    BY <1>1, <1>9
  <2>2. Counted(n) = P + 3 /\ Counted(n + 1) = P + 3 + TagChars /\ y = TagChars
    BY <1>3, <1>4, <1>5, <1>9, <2>1
  <2>3. n > 0 /\ P > 0
    BY <1>1, <1>9
  <2> QED
    BY <1>1, <1>2, <2>2, <2>3 DEF P, y
<1> QED
  BY <1>1, <1>3, <1>6, <1>7, <1>8, <1>9

\* So the count grows.
LEMMA CountedGrows ==
    ASSUME ask \in Asks, NEW n \in 0 .. Count + 1
    PROVE  Counted(n) \in Nat /\ Counted(n + 1) \in Nat /\ Counted(n) <= Counted(n + 1)
<1>1. /\ Counted(n) \in Nat
      /\ Counted(n + 1) = IF n > 0 /\ Payload(ask) > 0
                            THEN Counted(n) + Yes(ask)[n + 1].chars ELSE Counted(n)
  BY CountedNext
<1>2. Yes(ask)[n + 1].chars \in Nat
  <2>1. n + 1 \in 1 .. Len(Yes(ask)) /\ Yes(ask) \in Seq(Lines)
    BY YesIs, PartIs DEF Count
  <2>2. Yes(ask)[n + 1] \in Lines
    BY <2>1, ElementOfSeq
  <2> QED
    BY <2>2 DEF Lines
<1>3. PICK y \in Nat : y = Yes(ask)[n + 1].chars
  BY <1>2
<1>4. PICK x \in Nat : x = Counted(n)
  BY <1>1
<1> QED
  BY <1>1, <1>3, <1>4

LEMMA LineRead ==
    ASSUME ask \in Asks, NEW n \in 0 .. Count + 1, NEW line, line = Yes(ask)[n + 1]
    PROVE  /\ n = 0 => line.kind = "literal" /\ line.chars = Payload(ask) /\ line.bytes = <<>>
           /\ n \in 1 .. Count => /\ line.kind = (IF n = Count THEN "last" ELSE "body")
                                  /\ line.bytes = Content(ask, n)
           /\ n = Count + 1 => line.kind = "ok" /\ line.bytes = NoByte(TagBytes)
<1>1. Count \in Nat
  BY PartIs DEF Count
<1>2. ASSUME n = 0
      PROVE line.kind = "literal" /\ line.chars = Payload(ask) /\ line.bytes = <<>>
  <2>1. line = Line("literal", Payload(ask), <<>>)
    BY <1>2, YesIs
  <2> QED
    BY <2>1 DEF Line
<1>3. ASSUME n \in 1 .. Count
      PROVE  line.kind = (IF n = Count THEN "last" ELSE "body") /\ line.bytes = Content(ask, n)
  <2>1. line = PartLine(ask, n)
    BY <1>3, YesIs DEF Count
  <2> QED
    BY <1>3, <2>1, PartLineIs DEF Count
<1>4. ASSUME n = Count + 1 PROVE line.kind = "ok" /\ line.bytes = NoByte(TagBytes)
  <2>1. n + 1 = Len(ask.lines) + 2
    BY <1>1, <1>4 DEF Count
  <2>2. line = Tag("ok")
    BY <2>1, YesIs
  <2> QED
    BY <2>2 DEF Line, Tag
<1> QED
  BY <1>2, <1>3, <1>4

\* The wait after one line more of a reply that brings the part.
LEMMA FramedNext ==
    ASSUME ask \in Asks, ask' = ask, NEW n \in 0 .. Count + 1, Framed(n), wait \in Waits,
           NEW line, line = Yes(ask)[n + 1], wait' = WaitAfter(line)
    PROVE  /\ wait' \in Waits /\ Framed(n + 1)'
           /\ CharsAfter(line.chars) = Counted(n + 1) /\ Counted(n) \in Nat
           /\ wait'.valid /\ wait.chars = Counted(n)
           /\ wait.lf = (IF n = 0 THEN 0 ELSE 1)
           /\ n > 0 => wait.payload = Payload(ask)
<1>1. Count \in Nat /\ n \in Nat /\ n <= Count + 1 /\ Payload(ask) \in Nat
  BY PartIs, PayloadIs DEF Count
<1>2. /\ Counted(n) \in Nat
      /\ Counted(n + 1) = IF n > 0 /\ Payload(ask) > 0
                            THEN Counted(n) + line.chars ELSE Counted(n)
  BY CountedNext
<1>3. /\ wait.lf = (IF n = 0 THEN 0 ELSE 1)
      /\ wait.payload = (IF n = 0 THEN 0 ELSE Payload(ask))
      /\ wait.chars = Counted(n)
      /\ (wait.valid <=> n > 0)
      /\ ~wait.complete
  <2>1. n # Count + 2
    BY <1>1
  <2> QED
    BY <2>1 DEF Framed
<1>4. wait.payload > 0 <=> n > 0 /\ Payload(ask) > 0
  BY <1>1, <1>3
<1>5. CharsAfter(line.chars) = Counted(n + 1)
  BY <1>2, <1>3, <1>4 DEF CharsAfter
<1>6. Counted(n + 1) \in Nat
  <2>1. CASE n = 0
    BY <1>2, <2>1
  <2>2. CASE n > 0
    <3>1. line.chars \in Nat
      <4>1. n + 1 \in 1 .. Len(Yes(ask)) /\ Yes(ask) \in Seq(Lines)
        BY <1>1, YesIs DEF Count
      <4>2. line \in Lines
        BY <4>1, ElementOfSeq
      <4> QED
        BY <4>2 DEF Lines
    <3> QED
      BY <1>2, <3>1
  <2> QED
    BY <1>1, <2>1, <2>2
<1>7. /\ n = 0 => line.kind = "literal" /\ line.chars = Payload(ask)
      /\ (Tagged(line) <=> n = Count + 1) /\ (Tagged(line) => line.kind = "ok")
  <2>1. n = 0 \/ n \in 1 .. Count \/ n = Count + 1
    BY <1>1
  <2>2. /\ n = 0 => n # Count + 1
        /\ n \in 1 .. Count => n # Count + 1
    BY <1>1
  <2> QED
    BY <2>1, <2>2, LineRead DEF Tagged
<1>8. wait'.lf = 1 /\ wait'.chars = Counted(n + 1)
  BY <1>5 DEF WaitAfter
<1>9. wait'.payload = Payload(ask)
  <2>1. wait'.payload = IF wait.lf = 0 /\ line.kind = "literal"
                          THEN line.chars ELSE wait.payload
    BY DEF WaitAfter
  <2>2. CASE n = 0
    BY <1>3, <1>7, <2>1, <2>2
  <2>3. CASE n # 0
    BY <1>3, <2>1, <2>3
  <2> QED
    BY <2>2, <2>3
<1>10. wait'.valid
  <2>1. wait'.valid = IF Tagged(line) THEN line.kind = "ok" ELSE wait.valid \/ wait.lf = 0
    BY DEF WaitAfter
  <2>2. wait.valid \/ wait.lf = 0
    BY <1>1, <1>3
  <2> QED
    BY <1>7, <2>1, <2>2
<1>11. wait'.complete <=> n = Count + 1 /\ Payload(ask) # 0
  <2>1. wait'.complete <=> Tagged(line) /\ wait.payload > 0 /\ Counted(n + 1) >= wait.payload
    BY <1>3, <1>5 DEF WaitAfter
  <2>2. CASE n = Count + 1 /\ Payload(ask) # 0
    <3>1. wait.payload = Payload(ask) /\ wait.payload > 0
      BY <1>1, <1>3, <2>2
    <3>2. Counted(n + 1) >= Payload(ask)
      <4>1. n + 1 = Count + 2 /\ n + 1 > 1 /\ n + 1 # Count + 1 /\ ~(n + 1 <= Count)
        BY <1>1, <2>2, PartIs DEF Count
      <4>2. Counted(n + 1) = Payload(ask) + 3 + TagChars
        BY <2>2, <4>1 DEF Counted
      <4> QED
        BY <1>1, <4>2, NumbersAre
    <3> QED
      BY <1>7, <2>1, <2>2, <3>1, <3>2
  <2>3. CASE ~(n = Count + 1 /\ Payload(ask) # 0)
    <3>1. n = Count + 1 => ~(wait.payload > 0)
      BY <1>1, <1>3, <2>3
    <3> QED
      BY <1>7, <2>1, <2>3, <3>1
  <2> QED
    BY <2>2, <2>3
<1>12. wait' \in Waits
  <2>1. wait' = [lf |-> wait'.lf, chars |-> wait'.chars, payload |-> wait'.payload,
                 valid |-> wait'.valid, complete |-> wait'.complete]
    BY DEF WaitAfter
  <2>2. wait'.valid \in BOOLEAN /\ wait'.complete \in BOOLEAN
    <3>1. /\ wait'.valid = IF Tagged(line) THEN line.kind = "ok" ELSE wait.valid \/ wait.lf = 0
          /\ wait.valid \in BOOLEAN
      BY DEF WaitAfter, Waits
    <3>2. wait'.valid \in BOOLEAN
      BY <3>1
    <3>3. wait'.complete = (wait.complete \/ (Tagged(line) /\ wait.payload > 0
                              /\ CharsAfter(line.chars) >= wait.payload))
      BY DEF WaitAfter
    <3>4. wait'.complete \in BOOLEAN
      BY <3>3
    <3> QED
      BY <3>2, <3>4
  <2>3. wait'.lf \in {0, 1} /\ wait'.chars \in Nat /\ wait'.payload \in {0, Payload(ask)}
    BY <1>6, <1>8, <1>9
  <2> QED
    BY <2>1, <2>2, <2>3 DEF Waits
<1>13. Framed(n + 1)'
  <2>1. n + 1 # 0 /\ n + 1 > 0 /\ (n = Count + 1 <=> n + 1 = Count + 2)
    BY <1>1
  <2>2. Payload(ask)' = Payload(ask) /\ Counted(n + 1)' = Counted(n + 1) /\ Count' = Count
    BY SameAsk
  <2>3. wait'.lf = (IF n + 1 = 0 THEN 0 ELSE 1)
    BY <1>8, <2>1
  <2>4. wait'.payload = (IF n + 1 = 0 THEN 0 ELSE Payload(ask))
    BY <1>9, <2>1
  <2>5. wait'.valid <=> n + 1 > 0
    BY <1>10, <2>1
  <2>6. wait'.complete <=> n + 1 = Count + 2 /\ Payload(ask) # 0
    BY <1>11, <2>1
  <2> QED
    BY <1>8, <2>2, <2>3, <2>4, <2>5, <2>6 DEF Framed
<1>14. n > 0 => wait.payload = Payload(ask)
  BY <1>3
<1> QED
  BY <1>2, <1>3, <1>5, <1>10, <1>12, <1>13, <1>14

-----------------------------------------------------------------------------
\* What is kept of a text that is not base64.

Less(x, y) == Min({x, y})

LEMMA MinThree ==
    ASSUME NEW x \in Int, NEW p \in Int, NEW m \in Int
    PROVE  Less(Less(x, p), m) = Less(x, Less(p, m)) /\ Less(p, m) \in Int
<1>1. /\ Less(x, p) = (IF x <= p THEN x ELSE p) /\ Less(x, p) \in Int
      /\ Less(p, m) = (IF p <= m THEN p ELSE m) /\ Less(p, m) \in Int
  BY MinTwo DEF Less
<1>2. /\ Less(Less(x, p), m) = (IF Less(x, p) <= m THEN Less(x, p) ELSE m)
      /\ Less(x, Less(p, m)) = (IF x <= Less(p, m) THEN x ELSE Less(p, m))
  BY <1>1, MinTwo DEF Less
<1> QED
  BY <1>1, <1>2

LEMMA PlainMore ==
    ASSUME NEW x \in Nat, NEW y \in Nat, x <= y, NEW p \in Int, NEW m \in Int
    PROVE  Span(1, Less(Less(x, p), m)) \o Span(x + 1, Less(Less(y, p), m))
             = Span(1, Less(Less(y, p), m))
<1> DEFINE b == Less(p, m)
<1>2. /\ Less(Less(x, p), m) = Less(x, b) /\ Less(Less(y, p), m) = Less(y, b)
      /\ b \in Int
  <2>1. x \in Int /\ y \in Int
    OBVIOUS
  <2>2. Less(Less(x, p), m) = Less(x, Less(p, m)) /\ Less(p, m) \in Int
    BY <2>1, MinThree
  <2>3. Less(Less(y, p), m) = Less(y, Less(p, m))
    BY <2>1, MinThree
  <2> QED
    BY <2>2, <2>3
<1> HIDE DEF b
<1>3. Span(1, Less(x, b)) \o Span(x + 1, Less(y, b)) = Span(1, Less(y, b))
  BY <1>2, SpanMore DEF Less
<1> QED
  BY <1>2, <1>3

\* Characters up to number c are kept.
LEMMA PlainNext ==
    ASSUME ask \in Asks, ask' = ask, wait.chars \in Nat, NEW c \in Nat, wait.chars <= c,
           PlainKept(wait.chars),
           text' = text \o Span(wait.chars + 1, Less(Less(c, Payload(ask) - 2), MaxChar - 1)),
           file' = IF ask.save /\ ask.sdOk
                     THEN file \o Span(wait.chars + 1, Less(c, Payload(ask) - 2)) ELSE file
    PROVE  PlainKept(c)'
<1>1. Payload(ask) - 2 \in Int /\ MaxChar - 1 \in Int
  BY PayloadIs, NumbersAre
<1>2. PICK p \in Int : p = Payload(ask) - 2
  BY <1>1
<1>3. PICK m \in Int : m = MaxChar - 1
  BY <1>1
<1>4. PICK x \in Nat : x = wait.chars
  OBVIOUS
<1>5. /\ text = Span(1, Less(Less(x, p), m))
      /\ file = IF ask.save /\ ask.sdOk THEN Span(1, Less(x, p)) ELSE <<>>
      /\ text' = text \o Span(x + 1, Less(Less(c, p), m))
      /\ file' = IF ask.save /\ ask.sdOk THEN file \o Span(x + 1, Less(c, p)) ELSE file
  BY <1>2, <1>3, <1>4 DEF PlainKept, InFile, Less
<1>6. x <= c
  BY <1>4
<1>7. Span(1, Less(Less(x, p), m)) \o Span(x + 1, Less(Less(c, p), m))
        = Span(1, Less(Less(c, p), m))
  BY <1>6, PlainMore
<1>8. Span(1, Less(x, p)) \o Span(x + 1, Less(c, p)) = Span(1, Less(c, p))
  BY <1>6, SpanMore DEF Less
<1>9. /\ text' = Span(1, Less(Less(c, p), m))
      /\ file' = IF ask.save /\ ask.sdOk THEN Span(1, Less(c, p)) ELSE <<>>
  BY <1>5, <1>7, <1>8
<1> QED
  BY <1>2, <1>3, <1>9 DEF PlainKept, InFile, Less

LEMMA PlainStored ==
    ASSUME ask \in Asks, ask' = ask, ask.type = "TEXT", ~ask.base64,
           wait.chars \in Nat, NEW c \in Nat, wait.chars <= c,
           PlainKept(wait.chars), wait.payload = Payload(ask), StorePlain(c)
    PROVE  PlainKept(c)'
<1> DEFINE new == Span(wait.chars + 1, PlainEnd(c))
<1>1. /\ text' = text \o Span(wait.chars + 1, Min({PlainEnd(c), MaxChar - 1}))
      /\ IF ask.save /\ new # <<>>
           THEN Open /\ file' = IF ask.sdOk THEN file \o new ELSE file
           ELSE file' = file
  BY DEF StorePlain, stored
<1>2. PlainEnd(c) = Min({c, Payload(ask) - 2})
  BY DEF PlainEnd
<1>3. file \in Seq(Nat)
  <2>1. Min({wait.chars, Payload(ask) - 2}) \in Int
    <3>1. Payload(ask) - 2 \in Int /\ wait.chars \in Int
      BY PayloadIs
    <3> QED
      BY <3>1, MinTwo
  <2>2. Span(1, Min({wait.chars, Payload(ask) - 2})) \in Seq(Nat)
    BY <2>1, SpanFromOne
  <2> QED
    BY <2>2, NoLines DEF PlainKept, InFile
<1> HIDE DEF new
<1>4. file' = IF ask.save /\ ask.sdOk THEN file \o new ELSE file
  <2>1. CASE new = <<>>
    <3>1. file \o new = file
      BY <1>3, <2>1, ConcatEmptySeq
    <3> QED
      BY <1>1, <2>1, <3>1
  <2>2. CASE new # <<>>
    BY <1>1, <2>2
  <2> QED
    BY <2>1, <2>2
<1> QED
  BY <1>1, <1>2, <1>4, PlainNext DEF new, Less

-----------------------------------------------------------------------------
\* What is kept of a base64 text.

LEMMA EndsOfAsk ==
    ASSUME ask \in Asks
    PROVE  /\ Count \in Nat /\ CharEnds[0] = 0 /\ ByteEnds[0] = 0
           /\ \A k \in 0 .. Count : CharEnds[k] \in Nat /\ ByteEnds[k] \in Nat
                                    /\ ByteEnds[k] <= CharEnds[k]
           /\ \A j, k \in 0 .. Count : j <= k => /\ CharEnds[j] <= CharEnds[k]
                                                 /\ ByteEnds[j] <= ByteEnds[k]
           /\ \A k \in 1 .. Count : k \in 0 .. Count /\ k - 1 \in 0 .. Count
           /\ CharEnds[Count] = Payload(ask) /\ ByteEnds[Count] = Sum(Widths(ask))
           /\ Body(ask) = Span(1, ByteEnds[Count])
<1>1. /\ Len(ask.lines) \in Nat
      /\ CharsOf(ask) \in Seq(Nat) /\ Len(CharsOf(ask)) = Len(ask.lines)
      /\ Widths(ask) \in Seq(Nat) /\ Len(Widths(ask)) = Len(ask.lines)
  BY PartIs
<1>2. Ends(CharsOf(ask)) \in [0 .. Len(ask.lines) -> Nat] /\ Ends(CharsOf(ask))[0] = 0
  BY <1>1, EndsAre
<1>3. Ends(Widths(ask)) \in [0 .. Len(ask.lines) -> Nat] /\ Ends(Widths(ask))[0] = 0
  BY <1>1, EndsAre
<1>4. \A j, k \in 0 .. Len(ask.lines) : j <= k => /\ Ends(CharsOf(ask))[j] <= Ends(CharsOf(ask))[k]
                                                  /\ Ends(Widths(ask))[j] <= Ends(Widths(ask))[k]
  BY <1>1, EndsGrow
<1>5. /\ Ends(CharsOf(ask))[Len(ask.lines)] = Payload(ask)
      /\ Ends(Widths(ask))[Len(ask.lines)] = Sum(Widths(ask))
  BY PayloadIs
<1>6. \A k \in 0 .. Len(ask.lines) : Ends(Widths(ask))[k] <= Ends(CharsOf(ask))[k]
  BY BytesBelow
<1>7. \A k \in 1 .. Len(ask.lines) : k \in 0 .. Len(ask.lines) /\ k - 1 \in 0 .. Len(ask.lines)
  BY <1>1
<1>8. Body(ask) = Span(1, Ends(Widths(ask))[Len(ask.lines)])
  BY <1>5 DEF Body
<1> QED
  BY <1>1, <1>2, <1>3, <1>4, <1>5, <1>6, <1>7, <1>8 DEF Count, CharEnds, ByteEnds

\* The lines that fit, of k, and the text they make.
LEMMA CountsGrow ==
    ASSUME ask \in Asks, NEW i \in 0 .. Count + 2, NEW j \in 0 .. Count + 2, i <= j
    PROVE  Counted(i) \in Nat /\ Counted(j) \in Nat /\ Counted(i) <= Counted(j)
<1> DEFINE S == {n \in Nat : i + n <= Count + 2 => Counted(i) <= Counted(i + n)}
<1>1. Count \in Nat /\ i \in Nat /\ j \in Nat
  BY PartIs DEF Count
<1>2. \A n \in 0 .. Count + 2 : Counted(n) \in Nat
  <2> SUFFICES ASSUME NEW n \in 0 .. Count + 2 PROVE Counted(n) \in Nat
    OBVIOUS
  <2>1. CASE n = 0
    BY <1>1, <2>1, CountedIs
  <2>2. CASE n # 0
    <3>1. n - 1 \in 0 .. Count + 1 /\ (n - 1) + 1 = n
      BY <1>1, <2>2
    <3> QED
      BY <3>1, CountedGrows
  <2> QED
    BY <2>1, <2>2
<1>3. 0 \in S
  <2>1. i + 0 = i /\ Counted(i) \in Nat
    BY <1>1, <1>2
  <2> QED
    BY <2>1
<1>4. \A n \in Nat : n \in S => n + 1 \in S
  <2> SUFFICES ASSUME NEW n \in Nat, n \in S, i + (n + 1) <= Count + 2
               PROVE  Counted(i) <= Counted(i + (n + 1))
    OBVIOUS
  <2>1. PICK m \in Nat : m = i + n
    BY <1>1
  <2>2. m \in 0 .. Count + 1 /\ i + (n + 1) = m + 1 /\ m <= Count + 2 /\ m \in 0 .. Count + 2
    BY <1>1, <2>1
  <2>3. Counted(i) <= Counted(m) /\ Counted(m) <= Counted(m + 1) /\ Counted(m + 1) \in Nat
    BY <2>1, <2>2, CountedGrows
  <2>4. Counted(i) <= Counted(m + 1)
    BY <1>2, <2>2, <2>3
  <2> QED
    BY <2>2, <2>4
<1> HIDE DEF S
<1>5. j - i \in S
  BY <1>1, <1>3, <1>4, SetInduction
<1> QED
  BY <1>1, <1>2, <1>5 DEF S

LEMMA FitNext ==
    ASSUME ask \in Asks, NEW k \in 1 .. Count, NEW q \in 0 .. k - 1, Fit(q, k - 1)
    PROVE  \E r \in 0 .. k :
              /\ Fit(r, k)
              /\ Span(1, ByteEnds[r]) = IF Counted(k + 1) < MaxChar
                                          THEN Span(1, ByteEnds[q]) \o Content(ask, k)
                                          ELSE Span(1, ByteEnds[q])
<1> DEFINE t == Span(1, ByteEnds[q])
           u == IF Counted(k + 1) < MaxChar THEN t \o Content(ask, k) ELSE t
<1>1. Count \in Nat /\ MaxChar \in Nat
  BY EndsOfAsk, NumbersAre
<1>2. /\ k \in Nat /\ k <= Count /\ k >= 1 /\ q \in Nat /\ q <= k - 1
      /\ k + 1 \in 0 .. Count + 2 /\ q + 2 \in 0 .. Count + 2 /\ q + 2 <= k + 1
      /\ (q = k - 1 => q + 2 = k + 1)
  BY <1>1
<1>3. /\ q = k - 1 \/ Counted(q + 2) >= MaxChar
      /\ q > 0 => Counted(q + 1) < MaxChar
  BY DEF Fit
<1>0. /\ Counted(k + 1) \in Nat /\ Counted(q + 2) \in Nat
      /\ Counted(q + 2) <= Counted(k + 1)
  BY <1>2, CountsGrow
<1>4. CASE q = k - 1 /\ Counted(k + 1) < MaxChar
  <2>1. u = Span(1, ByteEnds[k])
    <3>1. Span(1, ByteEnds[k - 1]) \o Content(ask, k) = Span(1, ByteEnds[k])
      BY ContentIs DEF Count, ByteEnds
    <3> QED
      BY <1>4, <3>1
  <2>2. Fit(k, k)
    BY <1>4 DEF Fit
  <2>3. k \in 0 .. k
    BY <1>2
  <2> QED
    BY <2>1, <2>2, <2>3
<1>5. CASE Counted(k + 1) >= MaxChar
  <2>1. ~(Counted(k + 1) < MaxChar)
    BY <1>0, <1>1, <1>5
  <2>2. u = t
    BY <2>1
  <2>3. Fit(q, k)
    <3>1. Counted(q + 2) >= MaxChar
      <4>1. CASE q = k - 1
        BY <1>2, <1>5, <4>1
      <4>2. CASE q # k - 1
        BY <1>3, <4>2
      <4> QED
        BY <4>1, <4>2
    <3> QED
      BY <1>3, <3>1 DEF Fit
  <2>4. q \in 0 .. k
    BY <1>2
  <2> QED
    BY <2>2, <2>3, <2>4
<1>6. CASE q # k - 1 /\ Counted(k + 1) < MaxChar
  <2>1. Counted(q + 2) >= MaxChar
    BY <1>3, <1>6
  <2> QED
    BY <1>0, <1>1, <1>6, <2>1
<1>7. Counted(k + 1) < MaxChar \/ Counted(k + 1) >= MaxChar
  BY <1>0, <1>1
<1> QED
  BY <1>4, <1>5, <1>6, <1>7

\* All lines fit if the last one does.
LEMMA AllFit ==
    ASSUME ask \in Asks, NEW q \in 0 .. Count, Fit(q, Count), Counted(Count + 1) < MaxChar
    PROVE  q = Count
<1> SUFFICES ASSUME q # Count PROVE FALSE
  OBVIOUS
<1>1. /\ MaxChar \in Nat /\ Count \in Nat /\ q + 2 \in 0 .. Count + 2
      /\ Count + 1 \in 0 .. Count + 2 /\ q + 2 <= Count + 1
  BY PartIs, NumbersAre DEF Count
<1>2. /\ Counted(q + 2) \in Nat /\ Counted(Count + 1) \in Nat
      /\ Counted(q + 2) <= Counted(Count + 1)
  BY <1>1, CountsGrow
<1>3. Counted(q + 2) >= MaxChar
  BY DEF Fit
<1> QED
  BY <1>1, <1>2, <1>3

\* It does if there is room for the literal and what follows on its last line.
LEMMA LastFits ==
    ASSUME ask \in Asks,
           Payload(ask) + 3 < MaxChar \/ (Payload(ask) = 0 /\ 0 < MaxChar)
    PROVE  Counted(Count + 1) < MaxChar
<1>1. /\ Count \in Nat /\ Count >= 1 /\ Payload(ask) \in Nat /\ MaxChar \in Nat
      /\ Count + 1 \in Nat /\ Count + 1 > 1
  BY PartIs, PayloadIs, NumbersAre DEF Count
<1>2. CASE Payload(ask) = 0
  BY <1>1, <1>2, CountedIs
<1>3. CASE Payload(ask) # 0
  <2>1. Counted(Count + 1) = Payload(ask) + 3
    BY <1>1, <1>3, CountedIs
  <2> QED
    BY <1>3, <2>1
<1> QED
  BY <1>2, <1>3

LEMMA TakenIs ==
    ASSUME ask \in Asks, NEW n \in 0 .. Count + 1
    PROVE  /\ Taken(n) \in 0 .. Count
           /\ n = 0 => Taken(n) = 0 /\ Taken(n + 1) = 0
           /\ n \in 1 .. Count => Taken(n) = n - 1 /\ Taken(n + 1) = n
           /\ n = Count + 1 => Taken(n) = Count
<1>1. Count \in Nat /\ Count >= 1
  BY PartIs DEF Count
<1> QED
  BY <1>1 DEF Taken

LEMMA DecodedTextThen ==
    ASSUME ask' = ask, NEW k \in Nat, NEW q \in 0 .. k, Fit(q, k), text' = Span(1, ByteEnds[q])
    PROVE  DecodedText(k)'
<1>1. Fit(q, k)' /\ ByteEnds' = ByteEnds
  BY SameAsk
<1> QED
  BY <1>1 DEF DecodedText

\* What a line adds to a file: on the last line of the literal, if it is saved
\* as it came and not blank, the parenthesis.
Added(line) == IF line.bytes = <<>> THEN <<>> ELSE Saved(line)

LEMMA ClosedIs ==
    ASSUME ask \in Asks
    PROVE  /\ Body(ask) \in Seq(Nat) /\ Closing \in Seq(Nat) /\ Closed \in Seq(Nat)
           /\ NoByte(1) \in Seq(Nat) /\ NoByte(TagBytes) \in Seq(Nat)
<1>1. /\ NoByte(1) \in Seq(Nat) /\ NoByte(TagBytes) \in Seq(Nat) /\ <<>> \in Seq(Nat)
  BY NumbersAre, NoByteIs, NoLines
<1>2. Body(ask) \in Seq(Nat)
  <2>1. ByteEnds[Count] \in Int /\ Body(ask) = Span(1, ByteEnds[Count])
    <3>1. Count \in 0 .. Count /\ Count \in Nat
      BY EndsOfAsk
    <3> QED
      BY <3>1, EndsOfAsk
  <2> QED
    BY <2>1, SpanFromOne
<1>3. Closing \in Seq(Nat)
  BY <1>1 DEF Closing
<1> QED
  BY <1>1, <1>2, <1>3, ConcatProperties DEF Closed

LEMMA FileAdded ==
    ASSUME ask \in Asks, ask.base64, NEW n \in 1 .. Count,
           NEW line, line = Yes(ask)[n + 1]
    PROVE  SavedUpTo(n) \o Added(line) = SavedUpTo(n + 1)
<1>1. /\ Count \in Nat /\ Count >= 1 /\ n \in Nat /\ n >= 1 /\ n <= Count
      /\ n \in 0 .. Count + 1
  BY PartIs DEF Count
<1>2. /\ line.kind = (IF n = Count THEN "last" ELSE "body") /\ line.bytes = Content(ask, n)
  BY <1>1, LineRead
<1>3. SavedUpTo(n) = Span(1, ByteEnds[n - 1])
  BY <1>1, TakenIs DEF SavedUpTo
<1>4. /\ Span(1, ByteEnds[n - 1]) \o Content(ask, n) = Span(1, ByteEnds[n])
      /\ Content(ask, n) \in Seq(Nat) /\ Len(Content(ask, n)) = Widths(ask)[n]
      /\ Widths(ask)[n] = ask.lines[n]
      /\ Span(1, ByteEnds[n - 1]) \in Seq(Nat)
  <2>1. ByteEnds[n - 1] \in Int
    <3>1. Ends(Widths(ask))[n - 1] \in Nat
      BY ContentIs DEF Count
    <3> QED
      BY <3>1 DEF ByteEnds
  <2>2. Span(1, ByteEnds[n - 1]) \in Seq(Nat)
    BY <2>1, SpanFromOne
  <2> QED
    BY <2>2, ContentIs, PartIs DEF Count, ByteEnds
<1>5. CASE n # Count
  <2>1. n + 1 <= Count /\ Taken(n + 1) = n
    BY <1>1, <1>5, TakenIs
  <2>2. SavedUpTo(n + 1) = Span(1, ByteEnds[n])
    BY <2>1 DEF SavedUpTo
  <2>3. Added(line) = Content(ask, n)
    BY <1>2, <1>5 DEF Added, Saved
  <2> QED
    BY <1>3, <1>4, <2>2, <2>3
<1>6. CASE n = Count
  <2>1. SavedUpTo(n + 1) = Body(ask) \o Closing /\ Body(ask) = Span(1, ByteEnds[n])
    <3>1. ~(n + 1 <= Count)
      BY <1>1, <1>6
    <3> QED
      BY <1>6, <3>1, EndsOfAsk DEF SavedUpTo, Closed
  <2>2. CASE ask.lines[n] = 0
    <3>1. Content(ask, n) = <<>>
      BY <1>4, <2>2, EmptySeq
    <3>2. Closing = <<>> /\ Added(line) = Content(ask, n)
      BY <1>2, <1>6, <2>2, <3>1 DEF Closing, Added
    <3>3. Span(1, ByteEnds[n]) \in Seq(Nat) /\ Span(1, ByteEnds[n]) \o <<>> = Span(1, ByteEnds[n])
      BY <2>1, ClosedIs, ConcatEmptySeq
    <3> QED
      BY <1>3, <1>4, <2>1, <3>2, <3>3
  <2>3. CASE ask.lines[n] # 0
    <3>1. Content(ask, n) # <<>>
      BY <1>4, <2>3, EmptySeq
    <3>2. Added(line) = IF ask.decoded THEN Content(ask, n) ELSE Content(ask, n) \o NoByte(1)
      BY <1>2, <1>6, <3>1 DEF Added, Saved
    <3>3. Closing = IF ask.decoded THEN <<>> ELSE NoByte(1)
      BY <1>6, <2>3 DEF Closing
    <3>4. CASE ask.decoded
      <4>1. Span(1, ByteEnds[n]) \o <<>> = Span(1, ByteEnds[n])
        BY <2>1, ClosedIs, ConcatEmptySeq
      <4> QED
        BY <1>3, <1>4, <2>1, <3>2, <3>3, <3>4, <4>1
    <3>5. CASE ~ask.decoded
      <4>1. (Span(1, ByteEnds[n - 1]) \o Content(ask, n)) \o NoByte(1)
              = Span(1, ByteEnds[n - 1]) \o (Content(ask, n) \o NoByte(1))
        <5>1. PICK s \in Seq(Nat) : s = Span(1, ByteEnds[n - 1])
          BY <1>4
        <5>2. PICK t \in Seq(Nat) : t = Content(ask, n)
          BY <1>4
        <5>3. PICK u \in Seq(Nat) : u = NoByte(1)
          BY ClosedIs
        <5>4. (s \o t) \o u = s \o (t \o u)
          BY ConcatAssociative
        <5> QED
          BY <5>1, <5>2, <5>3, <5>4
      <4> QED
        BY <1>3, <1>4, <2>1, <3>2, <3>3, <3>5, <4>1
    <3> QED
      BY <3>4, <3>5
  <2> QED
    BY <2>2, <2>3
<1> QED
  BY <1>5, <1>6

\* A line more of a base64 text.
LEMMA DecodedStored ==
    ASSUME ask \in Asks, ask' = ask, ask.base64, NEW n \in 1 .. Count + 1, DecodedKept(n),
           text \in Seq(Nat), file \in Seq(Nat),
           NEW line, line = Yes(ask)[n + 1], line.bytes \in Seq(Nat),
           StoreDecoded(line, Counted(n + 1))
    PROVE  DecodedKept(n + 1)'
<1> DEFINE c == Counted(n + 1)
<1>1. /\ Count \in Nat /\ Count >= 1 /\ n \in Nat /\ n >= 1 /\ n <= Count + 1
      /\ n \in 0 .. Count + 1
  BY PartIs DEF Count
<1>2. /\ text' = (IF c < MaxChar THEN text \o line.bytes ELSE text)
      /\ file' = (IF ask.save /\ ask.sdOk THEN file \o Added(line) ELSE file)
  <2>1. CASE line.bytes = <<>>
    <3>1. text' = text /\ file' = file
      BY <2>1 DEF StoreDecoded, DecodesToNothing, stored
    <3>2. text \o line.bytes = text /\ file \o Added(line) = file
      BY <2>1, ConcatEmptySeq DEF Added
    <3> QED
      BY <3>1, <3>2
  <2>2. CASE line.bytes # <<>>
    <3>1. text' = IF InText(c) THEN text \o line.bytes ELSE text
      BY <2>2 DEF StoreDecoded, DecodesToNothing
    <3>2. file' = (IF ask.save /\ ask.sdOk THEN file \o Saved(line) ELSE file)
      <4>1. CASE ask.save
        BY <2>2, <4>1 DEF StoreDecoded, DecodesToNothing
      <4>2. CASE ~ask.save
        BY <2>2, <4>2 DEF StoreDecoded, DecodesToNothing
      <4> QED
        BY <4>1, <4>2
    <3> QED
      BY <2>2, <3>1, <3>2 DEF InText, Added
  <2> QED
    BY <2>1, <2>2
<1> HIDE DEF c
<1>0. n <= Count + 1 => DecodedText(Taken(n)) /\ file = InFile(SavedUpTo(n))
  BY DEF DecodedKept
<1>s. /\ Count' = Count /\ TagStored' = TagStored /\ Body(ask)' = Body(ask)
      /\ Closed' = Closed /\ \A m : SavedUpTo(m)' = SavedUpTo(m)
  BY SameAsk
<1>3. CASE n \in 1 .. Count
  <2>1. Taken(n) = n - 1 /\ Taken(n + 1) = n /\ n + 1 <= Count + 1
    BY <1>1, <1>3, TakenIs
  <2>2. PICK q \in 0 .. n - 1 : Fit(q, n - 1) /\ text = Span(1, ByteEnds[q])
    BY <1>0, <1>1, <2>1 DEF DecodedText
  <2>3. line.bytes = Content(ask, n)
    BY <1>1, <1>3, LineRead
  <2>4. PICK r \in 0 .. n : Fit(r, n) /\ text' = Span(1, ByteEnds[r])
    <3>1. text' = IF c < MaxChar THEN text \o Content(ask, n) ELSE text
      BY <1>2, <2>3
    <3>2. PICK r \in 0 .. n :
            /\ Fit(r, n)
            /\ Span(1, ByteEnds[r]) = IF c < MaxChar
                                        THEN Span(1, ByteEnds[q]) \o Content(ask, n)
                                        ELSE Span(1, ByteEnds[q])
      BY <1>3, <2>2, FitNext DEF c
    <3> QED
      BY <2>2, <3>1, <3>2
  <2>5. DecodedText(n)'
    BY <1>1, <2>4, DecodedTextThen
  <2>6. file' = InFile(SavedUpTo(n + 1))
    <3>1. SavedUpTo(n) \o Added(line) = SavedUpTo(n + 1)
      BY <1>3, FileAdded
    <3> QED
      BY <1>0, <1>1, <1>2, <3>1 DEF InFile
  <2>7. Taken(n + 1)' = n
    BY <1>s, <2>1 DEF Taken
  <2>8. (file = InFile(SavedUpTo(n + 1)))'
    <3>1. SavedUpTo(n + 1)' = SavedUpTo(n + 1)
      BY <1>s
    <3> QED
      BY <2>6, <3>1 DEF InFile
  <2>9. (n + 1 <= Count + 1)' /\ DecodedText(Taken(n + 1))'
    <3>1. DecodedText(Taken(n + 1))'
      BY <2>5, <2>7 DEF DecodedText
    <3> QED
      BY <1>s, <2>1, <3>1
  <2> QED
    BY <2>8, <2>9 DEF DecodedKept
<1>5. CASE n = Count + 1
  <2>1. Taken(n) = Count /\ ~(n + 1 <= Count + 1)
    BY <1>1, <1>5, TakenIs
  <2>2. DecodedText(Count) /\ file = InFile(Closed)
    <3>1. SavedUpTo(n) = Closed
      BY <1>1, <1>5 DEF SavedUpTo
    <3> QED
      BY <1>0, <1>1, <2>1, <3>1
  <2>3. line.bytes = NoByte(TagBytes) /\ Added(line) = NoByte(TagBytes)
    <3>1. line.bytes = NoByte(TagBytes) /\ line.kind = "ok"
      BY <1>1, <1>5, LineRead
    <3> QED
      BY <3>1 DEF Added, Saved
  <2>4. c = IF Payload(ask) = 0 THEN 0 ELSE Payload(ask) + 3 + TagChars
    <3>1. n + 1 > 1 /\ n + 1 = Count + 2 /\ n + 1 \in Nat
      BY <1>1, <1>5
    <3> QED
      BY <3>1, CountedIs DEF c
  <2>5. TagStored <=> c < MaxChar
    BY <2>4 DEF TagStored
  <2>6. Body(ask) = Span(1, ByteEnds[Count])
    BY EndsOfAsk
  <2>7. ASSUME TagStored PROVE text' = WithTag(Body(ask))
    <3>1. PICK q \in 0 .. Count : Fit(q, Count) /\ text = Span(1, ByteEnds[q])
      BY <2>2 DEF DecodedText
    <3>2. Counted(Count + 1) < MaxChar
      <4>1. Payload(ask) \in Nat /\ TagChars \in Nat /\ MaxChar \in Nat
        BY PayloadIs, NumbersAre
      <4>2. Payload(ask) + 3 < MaxChar \/ (Payload(ask) = 0 /\ 0 < MaxChar)
        BY <2>7, <4>1 DEF TagStored
      <4> QED
        BY <4>2, LastFits
    <3>3. q = Count
      BY <3>1, <3>2, AllFit
    <3> QED
      BY <1>2, <2>3, <2>5, <2>6, <2>7, <3>1, <3>3 DEF WithTag
  <2>8. ASSUME ~TagStored PROVE DecodedText(Count)'
    <3>1. text' = text
      BY <1>2, <2>5, <2>8
    <3>2. PICK q \in 0 .. Count : Fit(q, Count) /\ text = Span(1, ByteEnds[q])
      BY <2>2 DEF DecodedText
    <3>3. text' = Span(1, ByteEnds[q])
      BY <3>1, <3>2
    <3>4. Count' = Count /\ ByteEnds' = ByteEnds /\ Fit(q, Count)'
      <4>1. (\A x, y : Fit(x, y)' = Fit(x, y)) /\ Count' = Count /\ ByteEnds' = ByteEnds
        BY SameAsk
      <4> QED
        BY <3>2, <4>1, SameAsk DEF Fit, Counted, CharEnds
    <3> QED
      BY <3>3, <3>4 DEF DecodedText
  <2>9. file' = InFile(WithTag(Closed))
    BY <1>2, <2>2, <2>3 DEF InFile, WithTag
  <2>10. /\ WithTag(Body(ask))' = WithTag(Body(ask))
         /\ WithTag(Closed)' = WithTag(Closed)
         /\ InFile(WithTag(Closed))' = InFile(WithTag(Closed))
    BY <1>s DEF WithTag, InFile
  <2>11. (IF TagStored THEN text = WithTag(Body(ask)) ELSE DecodedText(Count))'
    BY <1>s, <2>7, <2>8, <2>10
  <2>12. (file = InFile(WithTag(Closed)))'
    BY <2>9, <2>10
  <2>13. ~(n + 1 <= Count + 1)'
    BY <1>s, <2>1
  <2> QED
    BY <2>11, <2>12, <2>13 DEF DecodedKept
<1>6. n \in 1 .. Count \/ n = Count + 1
  BY <1>1
<1> QED
  BY <1>3, <1>5, <1>6

-----------------------------------------------------------------------------
\* What is kept of a base64 attachment.

LEMMA WrittenThen ==
    ASSUME ask' = ask, NEW k \in Nat, k > 0 /\ ask.lines[k] # 0 => out' = ask.lines[k],
           NEW q \in 0 .. k, Whole(q, k), file' = Span(1, ByteEnds[q]),
           IF q # k THEN total' > ask.declared
           ELSE \/ total' = ByteEnds[k] /\ (k > 0 => ask.lines[k] # 0)
                \/ k > 1 /\ ask.lines[k] = 0
                     /\ (total' > ask.declared \/ total' >= ByteEnds[k] + ask.lines[k - 1])
    PROVE  Written(k)'
<1>1. Whole(q, k)' /\ (file = Span(1, ByteEnds[q]))'
  BY DEF Whole, ByteEnds
<1>2. (k > 0 /\ ask.lines[k] # 0 => out = ask.lines[k])'
  OBVIOUS
<1>3. (IF q # k THEN Exceeded
       ELSE \/ total = ByteEnds[k] /\ (k > 0 => ask.lines[k] # 0)
            \/ k > 1 /\ ask.lines[k] = 0
                 /\ (Exceeded \/ total >= ByteEnds[k] + ask.lines[k - 1]))'
  BY DEF Exceeded, ByteEnds
<1> QED
  BY <1>1, <1>2, <1>3 DEF Written

\* The numbers of an attachment.
LEMMA BytesAre ==
    ASSUME ask \in Asks, ask.base64
    PROVE  /\ Count \in Nat /\ ask.declared \in Nat
           /\ Sum(ask.lines) = ByteEnds[Count]
           /\ \A k \in 0 .. Count : ByteEnds[k] \in Nat
           /\ \A k \in 1 .. Count : /\ k - 1 \in 0 .. Count /\ ask.lines[k] \in Nat
                                    /\ ByteEnds[k] = ByteEnds[k - 1] + ask.lines[k]
                                    /\ Content(ask, k) \in Seq(Nat)
                                    /\ Len(Content(ask, k)) = ask.lines[k]
                                    /\ Content(ask, k) = <<>> <=> ask.lines[k] = 0
                                    /\ Span(1, ByteEnds[k - 1]) \o Content(ask, k)
                                         = Span(1, ByteEnds[k])
           /\ ByteEnds[0] = 0
           /\ \A j, k \in 0 .. Count : j <= k => ByteEnds[j] <= ByteEnds[k]
<1>1. /\ Count \in Nat /\ ask.declared \in Nat /\ ByteEnds[0] = 0
      /\ \A k \in 0 .. Count : ByteEnds[k] \in Nat
      /\ \A j, k \in 0 .. Count : j <= k => ByteEnds[j] <= ByteEnds[k]
  BY EndsOfAsk, AsksAre
<1>2. Sum(ask.lines) = ByteEnds[Count]
  BY PayloadIs DEF Count, ByteEnds
<1>3. ASSUME NEW k \in 1 .. Count
      PROVE  /\ k - 1 \in 0 .. Count /\ ask.lines[k] \in Nat
             /\ ByteEnds[k] = ByteEnds[k - 1] + ask.lines[k]
             /\ Content(ask, k) \in Seq(Nat) /\ Len(Content(ask, k)) = ask.lines[k]
             /\ (Content(ask, k) = <<>> <=> ask.lines[k] = 0)
             /\ Span(1, ByteEnds[k - 1]) \o Content(ask, k) = Span(1, ByteEnds[k])
  <2>1. k - 1 \in 0 .. Count
    BY <1>1
  <2>2. ask.lines[k] \in Nat /\ Widths(ask)[k] = ask.lines[k]
    BY PartIs DEF Count
  <2>3. /\ Content(ask, k) \in Seq(Nat) /\ Len(Content(ask, k)) = Widths(ask)[k]
        /\ ByteEnds[k] = ByteEnds[k - 1] + Widths(ask)[k]
        /\ Span(1, ByteEnds[k - 1]) \o Content(ask, k) = Span(1, ByteEnds[k])
    BY ContentIs DEF Count, ByteEnds
  <2>4. Content(ask, k) = <<>> <=> Len(Content(ask, k)) = 0
    BY <2>3, EmptySeq
  <2> QED
    BY <2>1, <2>2, <2>3, <2>4
<1> QED
  BY <1>1, <1>2, <1>3

\* What a line does to the file and to the bytes counted.
LEMMA AttachmentStep ==
    ASSUME ask \in Asks, record.size = ask.declared, file \in Seq(Nat), out \in Nat,
           total \in 0 .. ask.declared + 1, NEW line, line.bytes \in Seq(Nat),
           StoreAttachment(line)
    PROVE  \E n \in Nat :
              /\ n = IF line.bytes = <<>> THEN out ELSE Len(line.bytes)
              /\ out' = n
              /\ total' = IF total + n <= ask.declared THEN total + n ELSE ask.declared + 1
              /\ file' = IF total + n <= ask.declared THEN file \o line.bytes ELSE file
<1>1. PICK n : n = IF line.bytes = <<>> THEN out ELSE Len(line.bytes)
  OBVIOUS
<1>2. n \in Nat /\ ask.declared \in Nat /\ total \in Nat
  <2>1. Len(line.bytes) \in Nat
    BY LenProperties
  <2> QED
    BY <1>1, <2>1, AsksAre
<1>3. /\ out' = n /\ total' = Min({total + n, ask.declared + 1})
      /\ file' = IF total + n <= ask.declared /\ line.bytes # <<>>
                   THEN file \o line.bytes ELSE file
  BY <1>1 DEF StoreAttachment, Fits, DecodesToNothing
<1>4. total' = IF total + n <= ask.declared THEN total + n ELSE ask.declared + 1
  <2>1. total + n \in Int /\ ask.declared + 1 \in Int
    BY <1>2
  <2>2. Min({total + n, ask.declared + 1})
          = IF total + n <= ask.declared + 1 THEN total + n ELSE ask.declared + 1
    BY <2>1, MinTwo
  <2> QED
    BY <1>2, <1>3, <2>2
<1>5. line.bytes = <<>> => file \o line.bytes = file
  BY ConcatEmptySeq
<1>6. file' = IF total + n <= ask.declared THEN file \o line.bytes ELSE file
  BY <1>3, <1>5
<1> QED
  BY <1>1, <1>2, <1>3, <1>4, <1>6

\* A line of the attachment.
LEMMA WrittenNext ==
    ASSUME ask \in Asks, ask' = ask, ask.base64, NoBlank(ask), record.size = ask.declared,
           file \in Seq(Nat), out \in Nat, total \in 0 .. ask.declared + 1,
           NEW k \in 1 .. Count, Written(k - 1),
           NEW line, line.bytes = Content(ask, k), StoreAttachment(line)
    PROVE  Written(k)'
<1> DEFINE d == ask.declared
           m == ask.lines[k]
           w == ByteEnds
<1>1. /\ Count \in Nat /\ d \in Nat /\ k \in Nat /\ k - 1 \in Nat /\ k >= 1 /\ k <= Count
      /\ (k - 1) + 1 = k /\ 0 .. k - 1 \subseteq 0 .. k
      /\ m \in Nat /\ w[k] = w[k - 1] + m /\ w[k] \in Nat /\ w[k - 1] \in Nat
      /\ line.bytes \in Seq(Nat) /\ Len(line.bytes) = m
      /\ (line.bytes = <<>> <=> m = 0)
      /\ Span(1, w[k - 1]) \o line.bytes = Span(1, w[k])
  <2>1. Count \in Nat /\ d \in Nat /\ w[k] \in Nat
    BY BytesAre
  <2>2. k \in Nat /\ k - 1 \in Nat /\ k >= 1 /\ k <= Count
        /\ (k - 1) + 1 = k /\ 0 .. k - 1 \subseteq 0 .. k
    BY <2>1
  <2>3. k - 1 \in 0 .. Count
    BY <2>1
  <2> QED
    BY <2>1, <2>2, <2>3, BytesAre
<1>2. PICK n \in Nat :
        /\ n = IF line.bytes = <<>> THEN out ELSE Len(line.bytes)
        /\ out' = n
        /\ total' = IF total + n <= d THEN total + n ELSE d + 1
        /\ file' = IF total + n <= d THEN file \o line.bytes ELSE file
  BY <1>1, AttachmentStep
<1>3. PICK q \in 0 .. k - 1 :
        /\ Whole(q, k - 1) /\ file = Span(1, w[q])
        /\ IF q # k - 1 THEN total > d
           ELSE \/ total = w[k - 1] /\ (k - 1 > 0 => ask.lines[k - 1] # 0)
                \/ /\ k - 1 > 1 /\ ask.lines[k - 1] = 0
                   /\ total > d \/ total >= w[k - 1] + ask.lines[(k - 1) - 1]
  BY <1>1 DEF Written, Exceeded
<1>b. /\ m # 0 => k = 1 \/ ask.lines[k - 1] # 0
      /\ m = 0 => k > 1
      /\ k > 1 => ask.lines[k - 1] \in Nat
      /\ k > 2 => ask.lines[(k - 1) - 1] \in Nat
      /\ k - 1 > 0 /\ ask.lines[k - 1] # 0 => out = ask.lines[k - 1]
  <2>1. DOMAIN ask.lines = 1 .. Count
    BY PartIs DEF Count
  <2>2. ASSUME k # 1 PROVE k - 1 \in DOMAIN ask.lines /\ k \in k - 1 .. Count
    BY <1>1, <2>1, <2>2
  <2>3. \A j \in DOMAIN ask.lines :
           ask.lines[j] = 0 => j > 1 /\ \A i \in j .. Count : ask.lines[i] = 0
    BY DEF NoBlank, Count
  <2>4. m # 0 => k = 1 \/ ask.lines[k - 1] # 0
    BY <2>2, <2>3
  <2>5. m = 0 => k > 1
    BY <2>1, <2>3
  <2>6. \A j \in 1 .. Count : ask.lines[j] \in Nat
    BY BytesAre
  <2>7. k > 1 => ask.lines[k - 1] \in Nat
    BY <1>1, <2>6
  <2>8. k > 2 => ask.lines[(k - 1) - 1] \in Nat
    <3>1. k > 2 => (k - 1) - 1 \in 1 .. Count
      BY <1>1
    <3> QED
      BY <2>6, <3>1
  <2>9. k - 1 > 0 /\ ask.lines[k - 1] # 0 => out = ask.lines[k - 1]
    BY DEF Written
  <2> QED
    BY <2>4, <2>5, <2>7, <2>8, <2>9
<1>4. /\ w[q] <= d /\ (q = k - 1 \/ w[q + 1] > d)
      /\ q \in 0 .. k /\ q # k /\ total \in Nat /\ total <= d + 1
  BY <1>1, <1>3 DEF Whole
<1>5. k > 0 /\ m # 0 => out' = m
  BY <1>1, <1>2
<1>6. CASE q # k - 1
  <2>1. ~(total + n <= d)
    BY <1>1, <1>3, <1>4, <1>6
  <2>2. total' = d + 1 /\ file' = file
    BY <1>2, <2>1
  <2>3. Whole(q, k)
    BY <1>4, <1>6 DEF Whole
  <2>4. total' > d
    BY <1>1, <2>2
  <2> QED
    BY <1>1, <1>3, <1>4, <1>5, <2>2, <2>3, <2>4, WrittenThen
<1>7. CASE q = k - 1 /\ m # 0
  <2>1. n = m /\ total = w[k - 1] /\ total + n = w[k]
    <3>1. k = 1 \/ ask.lines[k - 1] # 0
      BY <1>b, <1>7
    <3>2. ~(k - 1 > 1 /\ ask.lines[k - 1] = 0)
      BY <1>1, <3>1
    <3>3. total = w[k - 1]
      BY <1>3, <1>7, <3>2
    <3> QED
      BY <1>1, <1>2, <1>7, <3>3
  <2>2. CASE w[k] <= d
    <3>1. total' = w[k] /\ file' = Span(1, w[k])
      BY <1>1, <1>2, <1>3, <1>7, <2>1, <2>2
    <3>2. Whole(k, k) /\ k \in 0 .. k
      BY <1>1, <2>2 DEF Whole
    <3>3. total' = w[k] /\ (k > 0 => ask.lines[k] # 0)
      BY <1>7, <3>1
    <3> QED
      BY <1>1, <1>5, <3>1, <3>2, <3>3, WrittenThen
  <2>3. CASE ~(w[k] <= d)
    <3>1. total' = d + 1 /\ file' = file /\ total' > d
      BY <1>1, <1>2, <2>1, <2>3
    <3>2. Whole(q, k)
      BY <1>1, <1>4, <1>7, <2>3 DEF Whole
    <3> QED
      BY <1>1, <1>3, <1>4, <1>5, <3>1, <3>2, WrittenThen
  <2> QED
    BY <2>2, <2>3
<1>8. CASE q = k - 1 /\ m = 0
  <2>1. k > 1 /\ w[k] = w[k - 1] /\ line.bytes = <<>> /\ n = out
    BY <1>1, <1>2, <1>b, <1>8
  <2>3. file' = Span(1, w[k])
    <3>1. file \o line.bytes = file
      BY <2>1, ConcatEmptySeq
    <3> QED
      BY <1>2, <1>3, <1>8, <2>1, <3>1
  <2>4. total' > d \/ total' >= w[k] + ask.lines[k - 1]
    <3>1. total > d \/ total + n >= w[k] + ask.lines[k - 1]
      <4>1. PICK p \in Nat : p = ask.lines[k - 1]
        BY <1>b, <2>1
      <4>2. CASE p # 0
        <5>1. n = p /\ total = w[k - 1]
          BY <1>1, <1>3, <1>b, <1>8, <2>1, <4>1, <4>2
        <5> QED
          BY <1>1, <2>1, <4>1, <5>1
      <4>3. CASE p = 0
        <5>1. k - 1 > 1 /\ (total > d \/ total >= w[k - 1] + ask.lines[(k - 1) - 1])
          BY <1>1, <1>3, <1>8, <2>1, <4>1, <4>3
        <5>2. PICK o \in Nat : o = ask.lines[(k - 1) - 1]
          <6>1. k > 2
            BY <1>1, <5>1
          <6>2. ask.lines[(k - 1) - 1] \in Nat
            BY <1>b, <6>1
          <6> QED
            BY <6>2
        <5>3. total > d \/ total >= w[k - 1] + o
          BY <5>1, <5>2
        <5>4. PICK x \in Nat : x = w[k - 1]
          BY <1>1
        <5>5. total > d \/ total + n >= x
          BY <1>1, <1>4, <5>3, <5>4
        <5> QED
          BY <2>1, <4>1, <4>3, <5>4, <5>5
      <4> QED
        BY <4>2, <4>3
    <3>2. CASE total + n <= d
      <4>0. total' = total + n
        BY <1>2, <3>2
      <4>1. ~(total > d)
        <5>1. PICK x \in Nat : x = total
          BY <1>4
        <5>2. PICK e \in Nat : e = d
          BY <1>1
        <5>3. x + n <= e
          BY <3>2, <5>1, <5>2
        <5>4. ~(x > e)
          BY <1>2, <5>1, <5>2, <5>3
        <5> QED
          BY <5>1, <5>2, <5>4
      <4> QED
        BY <3>1, <4>0, <4>1
    <3>3. CASE ~(total + n <= d)
      <4>1. total' = d + 1
        BY <1>2, <3>3
      <4> QED
        BY <1>1, <4>1
    <3> QED
      BY <3>2, <3>3
  <2>5. Whole(k, k) /\ k \in 0 .. k
    BY <1>1, <1>4, <1>8, <2>1 DEF Whole
  <2> QED
    BY <1>1, <1>5, <1>8, <2>1, <2>3, <2>4, <2>5, WrittenThen
<1> QED
  BY <1>6, <1>7, <1>8

LEMMA WholeLinesThen ==
    ASSUME ask' = ask, file' = file, WholeLines PROVE WholeLines'
BY DEF WholeLines, Whole, ByteEnds, Count

\* The tagged line, taken for one of the attachment.
LEMMA TwiceIs ==
    ASSUME ask \in Asks
    PROVE  /\ Twice(ask) \in Nat
           /\ Twice(ask) = (IF Count > 1 /\ ask.lines[Count] = 0
                              THEN ask.lines[Count - 1] ELSE 0)
<1>1. Count \in Nat /\ Count >= 1 /\ \A k \in 1 .. Count : ask.lines[k] \in Nat
  BY PartIs DEF Count
<1>2. Twice(ask) = IF Count > 1 /\ ask.lines[Count] = 0 THEN ask.lines[Count - 1] ELSE 0
  BY DEF Twice, Count
<1>3. Count > 1 => Count - 1 \in 1 .. Count
  BY <1>1
<1> QED
  BY <1>1, <1>2, <1>3

LEMMA WrittenTagged ==
    ASSUME ask \in Asks, ask' = ask, ask.base64, record.size = ask.declared,
           file \in Seq(Nat), out \in Nat, total \in 0 .. ask.declared + 1,
           Written(Count), NEW line, line.bytes = NoByte(TagBytes), StoreAttachment(line)
    PROVE  WrittenTag'
<1> DEFINE d == ask.declared
           w == ByteEnds
           t == Twice(ask)
<1>1. /\ Count \in Nat /\ Count >= 1 /\ d \in Nat /\ w[Count] \in Nat
      /\ Sum(ask.lines) = w[Count]
  BY BytesAre, PartIs DEF Count
<1>2. /\ line.bytes \in Seq(Nat) /\ Len(line.bytes) = TagBytes /\ TagBytes \in Nat
  BY NumbersAre, NoByteIs
<1>3. PICK n \in Nat :
        /\ n = IF line.bytes = <<>> THEN out ELSE TagBytes
        /\ file' = IF total + n <= d THEN file \o line.bytes ELSE file
  BY <1>2, AttachmentStep
<1>4. t \in Nat /\ t = (IF Count > 1 /\ ask.lines[Count] = 0 THEN ask.lines[Count - 1] ELSE 0)
  BY TwiceIs
<1> HIDE DEF t
<1>5. PICK q \in 0 .. Count :
        /\ Whole(q, Count) /\ file = Span(1, w[q])
        /\ IF q # Count THEN total > d ELSE total > d \/ total >= w[Count] + t
  <2>1. PICK q \in 0 .. Count :
          /\ Whole(q, Count) /\ file = Span(1, w[q])
          /\ IF q # Count THEN Exceeded
             ELSE \/ total = w[Count] /\ (Count > 0 => ask.lines[Count] # 0)
                  \/ Count > 1 /\ ask.lines[Count] = 0
                       /\ (Exceeded \/ total >= w[Count] + ask.lines[Count - 1])
    BY DEF Written
  <2>2. CASE q # Count
    BY <2>1, <2>2 DEF Exceeded
  <2>3. CASE q = Count /\ ask.lines[Count] # 0
    <3>1. total = w[Count] /\ t = 0
      BY <1>4, <2>1, <2>3
    <3> QED
      BY <1>1, <2>1, <2>3, <3>1
  <2>4. CASE q = Count /\ ask.lines[Count] = 0
    <3>1. Count > 0
      BY <1>1
    <3>2. Count > 1 /\ (total > d \/ total >= w[Count] + ask.lines[Count - 1])
      BY <2>1, <2>4, <3>1 DEF Exceeded
    <3>3. t = ask.lines[Count - 1]
      BY <1>4, <2>4, <3>2
    <3> QED
      BY <2>1, <2>4, <3>2, <3>3
  <2> QED
    BY <2>2, <2>3, <2>4
<1>6. CASE line.bytes = <<>> \/ ~(total + n <= d)
  <2>1. file' = file
    BY <1>3, <1>6, ConcatEmptySeq
  <2>2. WholeLines
    BY <1>5 DEF WholeLines
  <2> QED
    BY <2>1, <2>2, WholeLinesThen DEF WrittenTag
<1>7. CASE line.bytes # <<>> /\ total + n <= d
  <2>1. file' = file \o NoByte(TagBytes) /\ n = TagBytes
    BY <1>3, <1>7
  <2>2. total \in Nat /\ ~(total > d)
    BY <1>1, <1>7
  <2>3. q = Count /\ total >= w[Count] + t
    BY <1>5, <2>2
  <2>4. d >= w[Count] + t + TagBytes
    <3>1. PICK x \in Nat : x = w[Count]
      BY <1>1
    <3>2. PICK y \in Nat : y = total
      BY <2>2
    <3>3. PICK z \in Nat : z = TagBytes
      BY NumbersAre
    <3>4. PICK u \in Nat : u = t
      BY <1>4
    <3>5. PICK v \in Nat : v = d
      BY <1>1
    <3>6. y + z <= v /\ y >= x + u
      BY <1>7, <2>1, <2>3, <3>1, <3>2, <3>3, <3>4, <3>5
    <3>7. v >= x + u + z
      BY <3>1, <3>2, <3>3, <3>4, <3>5, <3>6
    <3> QED
      BY <3>1, <3>3, <3>4, <3>5, <3>7
  <2>7. file' = WithTag(Body(ask))
    <3>1. Body(ask) = Span(1, w[Count])
      BY EndsOfAsk
    <3> QED
      BY <1>5, <2>1, <2>3, <3>1 DEF WithTag
  <2>8. /\ (file = WithTag(Body(ask)))'
        /\ (ask.declared >= Sum(ask.lines) + Twice(ask) + TagBytes)'
    <3>1. WithTag(Body(ask))' = WithTag(Body(ask)) /\ Sum(ask.lines)' = w[Count]
          /\ Twice(ask)' = t /\ ask'.declared = d
      BY <1>1 DEF WithTag, t
    <3> QED
      BY <2>4, <2>7, <3>1
  <2> QED
    BY <2>8 DEF WrittenTag
<1> QED
  BY <1>6, <1>7

LEMMA AttachmentStored ==
    ASSUME ask \in Asks, ask' = ask, ask.base64, NoBlank(ask), record.size = ask.declared,
           file \in Seq(Nat), out \in Nat, total \in 0 .. ask.declared + 1,
           NEW n \in 1 .. Count + 1, AttachmentKept(n),
           NEW line, line = Yes(ask)[n + 1], StoreAttachment(line)
    PROVE  AttachmentKept(n + 1)'
<1>1. /\ Count \in Nat /\ n \in Nat /\ n >= 1 /\ n <= Count + 1 /\ n \in 0 .. Count + 1
      /\ Count' = Count
  BY PartIs DEF Count
<1>0. Written(Taken(n))
  BY <1>1 DEF AttachmentKept
<1>2. CASE n \in 1 .. Count
  <2>1. Taken(n) = n - 1 /\ Taken(n + 1) = n /\ n + 1 <= Count + 1
    BY <1>1, <1>2, TakenIs
  <2>2. Written(n - 1)
    BY <1>0, <2>1
  <2>3. line.bytes = Content(ask, n)
    BY <1>1, <1>2, LineRead
  <2>4. Written(n)'
    BY <1>2, <2>2, <2>3, WrittenNext
  <2>5. Taken(n + 1)' = n
    BY <2>1 DEF Taken, Count
  <2>7. Written(Taken(n + 1))'
    BY <2>4, <2>5 DEF Written
  <2> QED
    BY <1>1, <2>1, <2>7 DEF AttachmentKept
<1>4. CASE n = Count + 1
  <2>1. Written(Count)
    BY <1>0, <1>1, <1>4, TakenIs
  <2>2. line.bytes = NoByte(TagBytes)
    BY <1>1, <1>4, LineRead
  <2>3. WrittenTag'
    BY <2>1, <2>2, WrittenTagged
  <2>4. ~(n + 1 <= Count + 1)
    BY <1>1, <1>4
  <2> QED
    BY <1>1, <2>3, <2>4 DEF AttachmentKept
<1>5. n \in 1 .. Count \/ n = Count + 1
  BY <1>1
<1> QED
  BY <1>2, <1>4, <1>5

-----------------------------------------------------------------------------
\* What is done with a line.

LEMMA OpenIs ==
    ASSUME ask \in Asks, ask' = ask, record \in Records, header \in Headers, Unmarked, Open
    PROVE  record' \in Records /\ header' \in Headers /\ Unmarked'
<1>1. /\ record' = [record EXCEPT !.opened = TRUE,
                      !.partError = @ \/ (~record.opened /\ ~ask.sdOk /\ ask.last)]
      /\ header' = [header EXCEPT !.wanted =
                      @ \/ (~record.opened /\ ask.sdOk /\ ask.type = "TEXT" /\ ~header.saved)]
  BY DEF Open
<1>2. record' \in Records /\ header' \in Headers
  BY <1>1 DEF Records, Headers
<1>3. /\ record'.size = record.size /\ record'.mailError = record.mailError
      /\ record'.partError = (record.partError \/ (~record.opened /\ ~ask.sdOk /\ ask.last))
  BY <1>1 DEF Records
<1> QED
  BY <1>2, <1>3 DEF Unmarked

LEMMA SpanAny ==
    ASSUME NEW x \in Nat, NEW b \in Int PROVE Span(x + 1, b) \in Seq(Nat)
<1>1. CASE x <= b
  <2>1. b \in Nat
    BY <1>1
  <2> QED
    BY <1>1, <2>1, SpanAfter
<1>2. CASE b < x + 1
  <2>1. Span(x + 1, b) = <<>>
    BY <1>2, SpanEmpty
  <2> QED
    BY <2>1, NoLines
<1>3. x <= b \/ b < x + 1
  OBVIOUS
<1> QED
  BY <1>1, <1>2, <1>3

LEMMA LenJoined ==
    ASSUME NEW s \in Seq(Nat), NEW t \in Seq(Nat)
    PROVE  s \o t \in Seq(Nat) /\ Len(s \o t) = Len(s) + Len(t) /\ Len(s) \in Nat /\ Len(t) \in Nat
BY ConcatProperties, LenProperties

LEMMA PlainTypes ==
    ASSUME ask \in Asks, ask' = ask, ask.type = "TEXT", wait \in Waits,
           text \in Seq(Nat), file \in Seq(Nat), Reported,
           record \in Records, header \in Headers, Unmarked,
           NEW c \in Nat, StorePlain(c)
    PROVE  /\ text' \in Seq(Nat) /\ file' \in Seq(Nat) /\ Reported'
           /\ record' \in Records /\ header' \in Headers /\ Unmarked'
           /\ out' = out /\ total' = total
<1> DEFINE new == Span(wait.chars + 1, PlainEnd(c))
           end == Min({PlainEnd(c), MaxChar - 1})
<1>1. /\ text' = text \o Span(wait.chars + 1, end)
      /\ IF ask.save /\ new # <<>>
           THEN Open /\ file' = IF ask.sdOk THEN file \o new ELSE file
           ELSE UNCHANGED <<file, record, header>>
      /\ UNCHANGED <<out, total, counted>>
  BY DEF StorePlain
<1>2. wait.chars \in Nat /\ PlainEnd(c) \in Int /\ end \in Int
  <2>1. wait.chars \in Nat /\ wait.payload \in Int
    BY PayloadIs DEF Waits
  <2>2. wait.payload - 2 \in Int /\ c \in Int
    BY <2>1
  <2>3. PlainEnd(c) \in Int
    BY <2>2, MinTwo DEF PlainEnd
  <2>4. MaxChar - 1 \in Int
    BY NumbersAre
  <2>5. end \in Int
    BY <2>3, <2>4, MinTwo
  <2> QED
    BY <2>1, <2>3, <2>5
<1> HIDE DEF end, new
<1>3. Span(wait.chars + 1, end) \in Seq(Nat) /\ new \in Seq(Nat)
  BY <1>2, SpanAny DEF new
<1>4. text' \in Seq(Nat)
  BY <1>1, <1>3, LenJoined
<1>5. file' \in Seq(Nat)
  <2>1. file \o new \in Seq(Nat)
    BY <1>3, LenJoined
  <2> QED
    BY <1>1, <2>1
<1>6. Reported'
  BY <1>1, AsksAre DEF Reported
<1>7. record' \in Records /\ header' \in Headers /\ Unmarked'
  <2>1. CASE ask.save /\ new # <<>>
    BY <1>1, <2>1, OpenIs
  <2>2. CASE ~(ask.save /\ new # <<>>)
    BY <1>1, <2>2 DEF Unmarked
  <2> QED
    BY <2>1, <2>2
<1> QED
  BY <1>1, <1>4, <1>5, <1>6, <1>7

LEMMA DecodedTypes ==
    ASSUME ask \in Asks, ask' = ask, ask.type = "TEXT",
           text \in Seq(Nat), file \in Seq(Nat), out \in Nat, Reported,
           record \in Records, header \in Headers, Unmarked,
           NEW line \in Lines, NEW c, StoreDecoded(line, c)
    PROVE  /\ text' \in Seq(Nat) /\ file' \in Seq(Nat) /\ Reported'
           /\ record' \in Records /\ header' \in Headers /\ Unmarked'
           /\ out' \in Nat /\ total' = total
<1>0. line.bytes \in Seq(Nat) /\ Len(line.bytes) \in Nat
  BY LenProperties DEF Lines
<1>1. text \o line.bytes \in Seq(Nat) /\ file \o Saved(line) \in Seq(Nat)
  <2>1. line.bytes \o NoByte(1) \in Seq(Nat)
    BY <1>0, NoByteIs, LenJoined
  <2>2. Saved(line) \in Seq(Nat)
    BY <1>0, <2>1 DEF Saved
  <2> QED
    BY <1>0, <2>2, LenJoined
<1>2. CASE DecodesToNothing(line)
  BY <1>2 DEF StoreDecoded, stored, Reported, Unmarked
<1>3. CASE ~DecodesToNothing(line)
  <2>1. /\ text' = (IF InText(c) THEN text \o line.bytes ELSE text)
        /\ out' = Len(line.bytes)
        /\ IF ask.save
             THEN Open /\ file' = IF ask.sdOk THEN file \o Saved(line) ELSE file
             ELSE UNCHANGED <<file, record, header>>
        /\ UNCHANGED <<total, counted>>
    BY <1>3 DEF StoreDecoded
  <2>2. text' \in Seq(Nat) /\ file' \in Seq(Nat) /\ out' \in Nat
    BY <1>0, <1>1, <2>1
  <2>3. Reported'
    BY <2>1, AsksAre DEF Reported
  <2>4. record' \in Records /\ header' \in Headers /\ Unmarked'
    <3>1. CASE ask.save
      BY <2>1, <3>1, OpenIs
    <3>2. CASE ~ask.save
      BY <2>1, <3>2 DEF Unmarked
    <3> QED
      BY <3>1, <3>2
  <2> QED
    BY <2>1, <2>2, <2>3, <2>4
<1> QED
  BY <1>2, <1>3

LEMMA AttachmentTypes ==
    ASSUME ask \in Asks, ask' = ask, file \in Seq(Nat), out \in Nat,
           total \in 0 .. ask.declared + 1, Reported, counted \in Nat,
           record \in Records, header \in Headers, Unmarked,
           NEW line \in Lines, StoreAttachment(line)
    PROVE  /\ text' = text /\ file' \in Seq(Nat) /\ Reported'
           /\ record' \in Records /\ header' \in Headers /\ Unmarked'
           /\ out' \in Nat /\ total' \in 0 .. ask.declared + 1
<1>0. line.bytes \in Seq(Nat) /\ Len(line.bytes) \in Nat /\ record.size = ask.declared
      /\ ask.declared \in Nat
  BY LenProperties, AsksAre DEF Lines, Unmarked
<1>1. PICK n \in Nat :
        /\ n = IF line.bytes = <<>> THEN out ELSE Len(line.bytes)
        /\ out' = n
        /\ total' = IF total + n <= ask.declared THEN total + n ELSE ask.declared + 1
        /\ file' = IF total + n <= ask.declared THEN file \o line.bytes ELSE file
  BY <1>0, AttachmentStep
<1>2. /\ file \o line.bytes \in Seq(Nat)
      /\ Len(file \o line.bytes) = Len(file) + Len(line.bytes) /\ Len(file) \in Nat
  BY <1>0, LenJoined
<1>3. file' \in Seq(Nat) /\ out' \in Nat
  BY <1>1, <1>2
<1>4. total' \in 0 .. ask.declared + 1
  <2>1. ask.declared \in Nat /\ total \in Nat /\ n \in Nat
    BY <1>0
  <2>2. total' = IF total + n <= ask.declared THEN total + n ELSE ask.declared + 1
    BY <1>1
  <2>3. CASE total + n <= ask.declared
    <3>1. total' = total + n
      BY <2>2, <2>3
    <3> QED
      BY <2>1, <2>3, <3>1
  <2>4. CASE ~(total + n <= ask.declared)
    <3>1. total' = ask.declared + 1
      BY <2>2, <2>4
    <3> QED
      BY <2>1, <3>1
  <2> QED
    BY <2>3, <2>4
<1>5. Open /\ text' = text
  BY DEF StoreAttachment
<1>6. Reported'
  <2> DEFINE written == total + n <= ask.declared /\ line.bytes # <<>>
  <2>1. /\ counted' = (IF written THEN CountsOf(n) ELSE counted)
        /\ file' = (IF written THEN file \o line.bytes ELSE file)
    BY <1>0, <1>1 DEF StoreAttachment, Fits, DecodesToNothing
  <2>2. written => n = Len(line.bytes)
    BY <1>1
  <2> HIDE DEF written
  <2>3. CASE written /\ ask.report
    <3>1. counted = Len(file) /\ counted' = counted + n
      BY <2>1, <2>3 DEF Reported, CountsOf
    <3>2. counted' = Len(file')
      BY <1>2, <2>1, <2>2, <2>3, <3>1
    <3> QED
      BY <2>3, <3>2 DEF Reported
  <2>4. CASE written /\ ~ask.report
    BY <2>1, <2>4 DEF Reported, CountsOf
  <2>5. CASE ~written
    BY <2>1, <2>5 DEF Reported
  <2> QED
    BY <2>3, <2>4, <2>5
<1> QED
  BY <1>3, <1>4, <1>5, <1>6, OpenIs

\* What a line may be stored as.
LEMMA StoreIs ==
    ASSUME ask \in Asks, NEW line, Store(line)
    PROVE  IF wait.lf = 0 \/ ~WaitAfter(line).valid THEN UNCHANGED <<stored, record, header>>
           ELSE \/ /\ ask.type = "TEXT" /\ ~ask.base64
                   /\ StorePlain(CharsAfter(line.chars))
                \/ /\ ask.type = "TEXT" /\ ask.base64
                   /\ StoreDecoded(line, CharsAfter(line.chars))
                \/ ask.type = "ATTACHMENT" /\ ask.base64 /\ StoreAttachment(line)
                \/ /\ ask.type = "ATTACHMENT" /\ ~ask.base64
                   /\ UNCHANGED <<stored, record, header>>
<1>1. ask.type \in {"TEXT", "ATTACHMENT"} /\ ask.base64 \in BOOLEAN
  BY AsksAre
<1>2. CASE wait.lf = 0 \/ ~WaitAfter(line).valid
  BY <1>2 DEF Store
<1>3. CASE ~(wait.lf = 0 \/ ~WaitAfter(line).valid)
  <2>1. CASE ask.type = "TEXT" /\ ~ask.base64
    BY <1>3, <2>1, Zenon DEF Store
  <2>2. CASE ask.type = "TEXT" /\ ask.base64
    BY <1>3, <2>2, Zenon DEF Store
  <2>3. CASE ask.type = "ATTACHMENT" /\ ask.base64
    BY <1>3, <2>3, Zenon DEF Store
  <2>4. CASE ask.type = "ATTACHMENT" /\ ~ask.base64
    BY <1>3, <2>4, Zenon DEF Store
  <2> QED
    BY <1>1, <2>1, <2>2, <2>3, <2>4
<1> QED
  BY <1>2, <1>3

Storage ==
    /\ text \in Seq(Nat) /\ file \in Seq(Nat) /\ out \in Nat
    /\ total \in 0 .. ask.declared + 1 /\ counted \in Nat /\ Reported
    /\ record \in Records /\ header \in Headers /\ Unmarked

LEMMA StoreTypes ==
    ASSUME ask \in Asks, ask' = ask, wait \in Waits, Storage,
           NEW line \in Lines, Store(line), CharsAfter(line.chars) \in Nat
    PROVE  Storage'
<1>1. /\ text \in Seq(Nat) /\ file \in Seq(Nat) /\ out \in Nat
      /\ total \in 0 .. ask.declared + 1 /\ counted \in Nat /\ Reported
      /\ record \in Records /\ header \in Headers /\ Unmarked
  BY DEF Storage
<1>2. CASE UNCHANGED <<stored, record, header>>
  BY <1>1, <1>2 DEF Storage, stored, Reported, Unmarked
<1>3. CASE ask.type = "TEXT" /\ StorePlain(CharsAfter(line.chars))
  <2>1. /\ text' \in Seq(Nat) /\ file' \in Seq(Nat) /\ Reported'
        /\ record' \in Records /\ header' \in Headers /\ Unmarked'
        /\ out' = out /\ total' = total
    BY <1>1, <1>3, PlainTypes
  <2>2. counted' \in Nat
    BY <2>1, LenProperties DEF Reported
  <2> QED
    BY <1>1, <2>1, <2>2 DEF Storage
<1>4. CASE ask.type = "TEXT" /\ StoreDecoded(line, CharsAfter(line.chars))
  <2>1. /\ text' \in Seq(Nat) /\ file' \in Seq(Nat) /\ Reported'
        /\ record' \in Records /\ header' \in Headers /\ Unmarked'
        /\ out' \in Nat /\ total' = total
    BY <1>1, <1>4, DecodedTypes
  <2>2. counted' \in Nat
    BY <2>1, LenProperties DEF Reported
  <2> QED
    BY <1>1, <2>1, <2>2 DEF Storage
<1>5. CASE ask.type = "ATTACHMENT" /\ StoreAttachment(line)
  <2>1. /\ text' = text /\ file' \in Seq(Nat) /\ Reported'
        /\ record' \in Records /\ header' \in Headers /\ Unmarked'
        /\ out' \in Nat /\ total' \in 0 .. ask.declared + 1
    BY <1>1, <1>5, AttachmentTypes
  <2>2. counted' \in Nat
    BY <2>1, LenProperties DEF Reported
  <2> QED
    BY <1>1, <2>1, <2>2 DEF Storage
<1> QED
  BY <1>2, <1>3, <1>4, <1>5, StoreIs

\* One line more of a reply that brings the part.
LEMMA KeptNext ==
    ASSUME ask \in Asks, ask' = ask, wait \in Waits, Storage,
           NEW n \in 0 .. Count + 1, Framed(n), Kept(n),
           NEW line \in Lines, line = Yes(ask)[n + 1], wait' = WaitAfter(line), Store(line)
    PROVE  Kept(n + 1)'
<1>1. /\ Count \in Nat /\ n \in Nat /\ n <= Count + 1 /\ Count' = Count
  BY PartIs DEF Count
<1>2. /\ text \in Seq(Nat) /\ file \in Seq(Nat) /\ out \in Nat
      /\ total \in 0 .. ask.declared + 1 /\ record.size = ask.declared
  BY DEF Storage, Unmarked
<1>3. /\ CharsAfter(line.chars) = Counted(n + 1) /\ Counted(n) \in Nat
      /\ wait'.valid /\ wait.chars = Counted(n)
      /\ wait.lf = (IF n = 0 THEN 0 ELSE 1)
      /\ n > 0 => wait.payload = Payload(ask)
      /\ Framed(n + 1)' /\ wait' \in Waits
  BY FramedNext
<1>4. wait'.chars = Counted(n + 1) /\ line.bytes \in Seq(Nat) /\ line.chars \in Nat
  BY <1>3 DEF WaitAfter, Lines
<1>5. /\ Counted(n + 1) \in Nat /\ wait.chars <= Counted(n + 1)
      /\ n = 0 => Counted(n + 1) = Counted(n)
  <2>1. Counted(n + 1) = IF n > 0 /\ Payload(ask) > 0 THEN Counted(n) + line.chars
                         ELSE Counted(n)
    BY CountedNext
  <2> QED
    BY <1>3, <1>4, <2>1
<1>6. CASE n = 0
  <2>1. UNCHANGED <<stored, record, header>>
    BY <1>3, <1>6, StoreIs
  <2>2. /\ text' = text /\ file' = file /\ out' = out /\ total' = total
        /\ wait'.chars = wait.chars
    BY <1>3, <1>4, <1>5, <1>6, <2>1 DEF stored
  <2>3. Taken(0) = 0 /\ Taken(1) = 0 /\ Taken(1)' = 0
    BY DEF Taken
  <2>4. n + 1 = 1 /\ 0 <= Count + 1 /\ 1 <= Count + 1 /\ 0 <= Count /\ 1 <= Count
    BY <1>1, <1>6, PartIs DEF Count
  <2>5. ASSUME PlainKept(wait.chars) PROVE PlainKept(wait.chars)'
    BY <2>2, <2>5 DEF PlainKept, InFile
  <2>6. ASSUME DecodedKept(0) PROVE DecodedKept(1)'
    <3>1. SavedUpTo(0) = Span(1, ByteEnds[0]) /\ SavedUpTo(1) = Span(1, ByteEnds[0])
      BY <2>3, <2>4 DEF SavedUpTo
    <3>2. DecodedText(0) /\ file = InFile(SavedUpTo(1))
      BY <2>3, <2>4, <2>6, <3>1 DEF DecodedKept
    <3>3. PICK q \in 0 .. 0 : Fit(q, 0) /\ text = Span(1, ByteEnds[q])
      BY <3>2 DEF DecodedText
    <3>4. DecodedText(0)'
      BY <2>2, <3>3, DecodedTextThen
    <3>5. (file = InFile(SavedUpTo(1)))'
      <4>1. SavedUpTo(1)' = SavedUpTo(1)
        BY SameAsk
      <4> QED
        BY <2>2, <3>2, <4>1 DEF InFile
    <3>6. DecodedText(Taken(1))'
      BY <2>3, <3>4 DEF DecodedText
    <3>7. (1 <= Count + 1)'
      BY <1>1, <2>4
    <3> QED
      BY <3>5, <3>6, <3>7 DEF DecodedKept
  <2>7. ASSUME AttachmentKept(0) PROVE AttachmentKept(1)'
    <3>1. Written(0)
      BY <2>3, <2>4, <2>7 DEF AttachmentKept
    <3>2. Written(0)'
      BY <2>2, <3>1 DEF Written, Whole, ByteEnds, Exceeded, Count
    <3>3. Written(Taken(1))'
      BY <2>3, <3>2 DEF Written
    <3> QED
      BY <1>1, <2>4, <3>3 DEF AttachmentKept
  <2> QED
    BY <1>6, <2>2, <2>4, <2>5, <2>6, <2>7 DEF Kept, NoBlank
<1>7. CASE n # 0
  <2>0. wait.lf = 1 /\ WaitAfter(line).valid /\ wait.payload = Payload(ask)
        /\ n \in 1 .. Count + 1
    BY <1>1, <1>3, <1>7
  <2>1. CASE ask.type = "TEXT" /\ ~ask.base64 /\ StorePlain(CharsAfter(line.chars))
    <3>1. PICK c \in Nat : c = Counted(n + 1)
      BY <1>5
    <3>2. PlainKept(wait.chars) /\ StorePlain(c)
      BY <1>3, <2>1, <3>1 DEF Kept
    <3>3. PlainKept(c)'
      BY <1>3, <1>5, <2>0, <2>1, <3>1, <3>2, PlainStored
    <3>4. PlainKept(wait.chars)'
      BY <1>4, <3>1, <3>3 DEF PlainKept
    <3> QED
      BY <2>1, <3>4 DEF Kept
  <2>2. CASE ask.type = "TEXT" /\ ask.base64 /\ StoreDecoded(line, CharsAfter(line.chars))
    <3>1. DecodedKept(n + 1)'
      BY <1>2, <1>3, <1>4, <2>0, <2>2, DecodedStored DEF Kept
    <3> QED
      BY <2>2, <3>1 DEF Kept
  <2>3. CASE ask.type = "ATTACHMENT" /\ ask.base64 /\ StoreAttachment(line)
    <3>1. ASSUME NoBlank(ask) PROVE AttachmentKept(n + 1)'
      BY <1>2, <2>0, <2>3, <3>1, AttachmentStored DEF Kept
    <3>2. text' = <<>>
      BY <2>3 DEF StoreAttachment, Kept
    <3> QED
      BY <2>3, <3>1, <3>2 DEF Kept
  <2>4. CASE ask.type = "ATTACHMENT" /\ ~ask.base64 /\ UNCHANGED <<stored, record, header>>
    BY <2>4 DEF Kept, stored
  <2> QED
    BY <2>0, <2>1, <2>2, <2>3, <2>4, StoreIs
<1> QED
  BY <1>6, <1>7

-----------------------------------------------------------------------------
\* What is kept is the part's.

LEMMA PlainWhole ==
    ASSUME ask \in Asks, ~ask.base64, NEW c \in Nat
    PROVE  LET p == Payload(ask) - 2
               t == Span(1, Less(Less(c, p), MaxChar - 1))
               f == Span(1, Less(c, p))
           IN  /\ IsPrefix(t, Wanted) /\ (t = <<>> \/ Len(t) < MaxChar)
               /\ c >= Payload(ask) /\ Payload(ask) < MaxChar => IsPrefix(Wanted, t)
               /\ IsPrefix(f, Wanted \o NoByte(0)) /\ IsPrefix(<<>>, Wanted \o NoByte(0))
               /\ c >= Payload(ask) => IsPrefix(Wanted, f)
<1>1. PICK p \in Int : p = Payload(ask) - 2
  BY PayloadIs
<1>2. PICK m \in Int : m = MaxChar - 1
  BY NumbersAre
<1>3. PICK x \in Int : x = Less(c, p)
  BY MinTwo DEF Less
<1>4. PICK y \in Int : y = Less(x, m)
  BY MinTwo DEF Less
<1>5. /\ x = (IF c <= p THEN c ELSE p) /\ x <= p
      /\ y = (IF x <= m THEN x ELSE m) /\ y <= x /\ y <= m
  <2>1. x = (IF c <= p THEN c ELSE p)
    BY <1>3, MinTwo DEF Less
  <2>2. y = (IF x <= m THEN x ELSE m)
    BY <1>4, MinTwo DEF Less
  <2> QED
    BY <2>1, <2>2
<1>6. Wanted = Span(1, p)
  BY <1>1 DEF Wanted
<1>7. Span(1, p) \in Seq(Nat) /\ Span(1, x) \in Seq(Nat) /\ Span(1, y) \in Seq(Nat)
      /\ NoByte(0) \in Seq(Nat)
  BY SpanFromOne, NoByteIs
<1>8. IsPrefix(Span(1, y), Wanted)
  <2>1. y <= p
    BY <1>5
  <2> QED
    BY <1>6, <1>7, <2>1, SpanBegins
<1>9. Span(1, y) = <<>> \/ Len(Span(1, y)) < MaxChar
  <2>1. CASE y <= 0
    <3>1. y < 1
      BY <2>1
    <3> QED
      BY <3>1, SpanEmpty
  <2>2. CASE y > 0
    <3>1. Len(Span(1, y)) = y
      BY <2>2, SpanFromOne
    <3>2. y < MaxChar
      BY <1>2, <1>5, NumbersAre
    <3> QED
      BY <3>1, <3>2
  <2>3. y <= 0 \/ y > 0
    OBVIOUS
  <2> QED
    BY <2>1, <2>2, <2>3
<1>10. IsPrefix(Span(1, x), Wanted \o NoByte(0)) /\ IsPrefix(<<>>, Wanted \o NoByte(0))
  <2>1. IsPrefix(Span(1, x), Wanted \o NoByte(0))
    BY <1>5, <1>6, <1>7, SpanBegins
  <2>2. Wanted \o NoByte(0) \in Seq(Nat)
    BY <1>6, <1>7, LenJoined
  <2>3. IsPrefix(<<>>, Wanted \o NoByte(0))
    BY <2>2, SelfBegins
  <2> QED
    BY <2>1, <2>3
<1>11. ASSUME c >= Payload(ask) PROVE x = p
  BY <1>1, <1>5, <1>11, PayloadIs
<1>12. ASSUME c >= Payload(ask), Payload(ask) < MaxChar PROVE y = p
  BY <1>1, <1>2, <1>5, <1>11, <1>12, PayloadIs, NumbersAre
<1>13. IsPrefix(Wanted, Span(1, p))
  BY <1>6, <1>7, SelfBegins
<1>14. /\ c >= Payload(ask) => IsPrefix(Wanted, Span(1, x))
       /\ c >= Payload(ask) /\ Payload(ask) < MaxChar => IsPrefix(Wanted, Span(1, y))
  BY <1>11, <1>12, <1>13
<1> QED
  BY <1>1, <1>2, <1>3, <1>4, <1>8, <1>9, <1>10, <1>14

\* The characters counted once the reply is over.
LEMMA OverCounted ==
    ASSUME ask \in Asks, NEW n \in 0 .. Count + 2, Framed(n), wait.complete
    PROVE  /\ n = Count + 2 /\ Payload(ask) # 0
           /\ wait.chars = Payload(ask) + 3 + TagChars /\ wait.chars >= Payload(ask)
<1>1. n = Count + 2 /\ Payload(ask) # 0 /\ wait.chars = Counted(n)
  BY DEF Framed
<1>2. n \in Nat /\ n > 1
  BY <1>1, PartIs DEF Count
<1>3. wait.chars = Payload(ask) + 3 + TagChars
  BY <1>1, <1>2, CountedIs
<1> QED
  BY <1>1, <1>3, PayloadIs, NumbersAre

\* The file of a base64 text, but for the bytes behind the part.
LEMMA ClosedWhole ==
    ASSUME ask \in Asks
    PROVE  LET all == Body(ask) \o NoByte(1 + TagBytes) IN
           /\ IsPrefix(Closed, all) /\ IsPrefix(WithTag(Closed), all)
           /\ IsPrefix(Body(ask), Closed) /\ IsPrefix(Body(ask), WithTag(Closed))
           /\ IsPrefix(<<>>, all)
<1>1. PICK a \in 0 .. 1 : Closing = NoByte(a)
  <2>1. NoByte(0) = <<>>
    BY NoLines DEF NoByte
  <2> QED
    BY <2>1 DEF Closing
<1>2. PICK s \in Seq(Nat) : s = Body(ask)
  BY ClosedIs
<1>3. a \in Nat /\ TagBytes \in Nat /\ 1 + TagBytes \in Nat /\ a + TagBytes <= 1 + TagBytes
  BY <1>1, NumbersAre
<1>4. /\ s \o NoByte(1 + TagBytes) \in Seq(Nat)
      /\ IsPrefix(s \o NoByte(a), s \o NoByte(1 + TagBytes))
      /\ IsPrefix((s \o NoByte(a)) \o NoByte(TagBytes), s \o NoByte(1 + TagBytes))
      /\ IsPrefix(s, s \o NoByte(a)) /\ IsPrefix(s, (s \o NoByte(a)) \o NoByte(TagBytes))
  BY <1>3, NoBytesBegin
<1>5. IsPrefix(<<>>, s \o NoByte(1 + TagBytes))
  BY <1>4, SelfBegins
<1> QED
  BY <1>1, <1>2, <1>4, <1>5 DEF Closed, WithTag

LEMMA DecodedWhole ==
    ASSUME ask \in Asks, ask.base64, NEW n \in 0 .. Count + 2, DecodedKept(n)
    PROVE  /\ IsPrefix(text, IF TagFits THEN WithTag(Wanted) ELSE Wanted)
           /\ n = Count + 2 /\ Room => IsPrefix(Wanted, text)
           /\ IsPrefix(file, Wanted \o NoByte(1 + TagBytes))
           /\ n = Count + 2 /\ ask.save /\ ask.sdOk => IsPrefix(Wanted, file)
           /\ text = <<>> \/ Payload(ask) = 0 \/ Len(text) < MaxChar
<1> DEFINE w == ByteEnds
<1>1. /\ Count \in Nat /\ n \in Nat /\ n <= Count + 2 /\ w[0] = 0
      /\ \A k \in 0 .. Count : /\ w[k] \in Nat /\ CharEnds[k] \in Nat
                               /\ w[k] <= CharEnds[k] /\ w[k] <= w[Count]
      /\ Wanted = Span(1, w[Count]) /\ Body(ask) = Wanted
      /\ Payload(ask) \in Nat /\ w[Count] <= Payload(ask) /\ w[Count] \in Nat
  <2>1. /\ Count \in Nat /\ w[0] = 0
        /\ \A k \in 0 .. Count : w[k] \in Nat /\ CharEnds[k] \in Nat /\ w[k] <= CharEnds[k]
        /\ \A j, k \in 0 .. Count : j <= k => w[j] <= w[k]
        /\ Body(ask) = Span(1, w[Count]) /\ CharEnds[Count] = Payload(ask)
    BY EndsOfAsk
  <2>2. Count \in 0 .. Count /\ \A k \in 0 .. Count : k <= Count
    BY <2>1
  <2>3. Wanted = Body(ask)
    BY DEF Wanted
  <2>4. Payload(ask) \in Nat
    BY PayloadIs
  <2>5. w[Count] <= Payload(ask) /\ w[Count] \in Nat
    BY <2>1, <2>2
  <2>6. \A k \in 0 .. Count : w[k] <= w[Count]
    BY <2>1, <2>2
  <2> QED
    BY <2>1, <2>2, <2>3, <2>4, <2>5, <2>6
<1>2. NoByte(TagBytes) \in Seq(Nat) /\ Len(NoByte(TagBytes)) = TagBytes /\ TagBytes \in Nat
      /\ Wanted \in Seq(Nat) /\ WithTag(Wanted) \in Seq(Nat)
      /\ Len(Wanted) = w[Count] /\ Len(WithTag(Wanted)) = w[Count] + TagBytes
  <2>1. NoByte(TagBytes) \in Seq(Nat) /\ Len(NoByte(TagBytes)) = TagBytes /\ TagBytes \in Nat
    BY NumbersAre, NoByteIs
  <2>2. Wanted \in Seq(Nat) /\ Len(Wanted) = w[Count]
    BY <1>1, SpanOfNat
  <2> QED
    <3>1. WithTag(Wanted) = Wanted \o NoByte(TagBytes)
      BY DEF WithTag
    <3>2. /\ Wanted \o NoByte(TagBytes) \in Seq(Nat)
          /\ Len(Wanted \o NoByte(TagBytes)) = Len(Wanted) + Len(NoByte(TagBytes))
      BY <2>1, <2>2, LenJoined
    <3> QED
      BY <2>1, <2>2, <3>1, <3>2
<1> HIDE DEF w
<1> DEFINE all == Wanted \o NoByte(1 + TagBytes)
<1>3. ASSUME NEW k \in 0 .. Count
      PROVE  /\ IsPrefix(Span(1, w[k]), Wanted) /\ IsPrefix(Span(1, w[k]), WithTag(Wanted))
             /\ IsPrefix(Span(1, w[k]), all)
  <2>1. w[k] \in Int /\ w[Count] \in Int /\ w[k] <= w[Count]
    BY <1>1, <1>3
  <2>2. NoByte(1 + TagBytes) \in Seq(Nat)
    BY <1>2, NoByteIs
  <2> QED
    BY <1>1, <1>2, <2>1, <2>2, SpanBegins DEF WithTag
<1>c. /\ IsPrefix(Closed, all) /\ IsPrefix(WithTag(Closed), all) /\ IsPrefix(<<>>, all)
      /\ IsPrefix(Wanted, Closed) /\ IsPrefix(Wanted, WithTag(Closed))
  BY <1>1, ClosedWhole
<1> HIDE DEF all
<1>4. /\ IsPrefix(<<>>, WithTag(Wanted)) /\ IsPrefix(WithTag(Wanted), WithTag(Wanted))
      /\ IsPrefix(Wanted, Wanted) /\ IsPrefix(Wanted, WithTag(Wanted))
  BY <1>2, SelfBegins DEF WithTag
<1>5. ASSUME NEW k \in 0 .. Count, DecodedText(k)
      PROVE  /\ IsPrefix(text, IF TagFits THEN WithTag(Wanted) ELSE Wanted)
             /\ text = <<>> \/ Len(text) < MaxChar
  <2>1. PICK q \in 0 .. k : Fit(q, k) /\ text = Span(1, w[q])
    BY <1>5 DEF DecodedText, w
  <2>2. q \in 0 .. Count
    BY <1>1
  <2>3. text = <<>> \/ Len(text) < MaxChar
    <3>1. CASE q = 0
      <4>1. w[q] < 1 /\ w[q] \in Int
        BY <1>1, <3>1
      <4> QED
        BY <2>1, <4>1, SpanEmpty
    <3>2. CASE q # 0
      <4>0. Counted(q + 1) < MaxChar \/ Payload(ask) = 0
        BY <2>1, <3>2 DEF Fit
      <4>1. CASE Payload(ask) = 0
        <5>1. w[q] = 0
          BY <1>1, <2>2, <4>1
        <5> QED
          BY <2>1, <5>1, SpanEmpty
      <4>2. CASE Payload(ask) # 0
        <5>1. CharEnds[q] <= Counted(q + 1) /\ Counted(q + 1) \in Nat
          <6>1. q + 1 \in Nat /\ q + 1 > 1 /\ (q + 1) - 1 = q /\ q <= Count
                /\ CharEnds[q] \in Nat /\ CharEnds[Count] = Payload(ask)
            BY <1>1, <2>2, <3>2, EndsOfAsk
          <6>2. CASE q = Count
            <7>1. Counted(q + 1) = Payload(ask) + 3
              BY <4>2, <6>1, <6>2, CountedIs
            <7> QED
              BY <1>1, <6>1, <6>2, <7>1
          <6>3. CASE q # Count
            <7>1. q + 1 <= Count
              BY <1>1, <6>1, <6>3
            <7>2. Counted(q + 1) = CharEnds[q]
              BY <4>2, <6>1, <7>1, CountedIs
            <7> QED
              BY <6>1, <7>2
          <6> QED
            BY <6>2, <6>3
        <5>2. CharEnds[q] < MaxChar
          BY <1>1, <2>2, <4>0, <4>2, <5>1, NumbersAre
        <5>3. w[q] < MaxChar /\ w[q] \in Nat
          BY <1>1, <2>2, <5>2, NumbersAre
        <5>4. Len(text) = w[q]
          BY <2>1, <5>3, SpanOfNat
        <5> QED
          BY <5>3, <5>4
      <4> QED
        BY <4>1, <4>2
    <3> QED
      BY <3>1, <3>2
  <2> QED
    BY <1>3, <2>1, <2>2, <2>3
<1>6. CASE n <= Count + 1
  <2>1. Taken(n) \in 0 .. Count
    BY <1>1, <1>6, TakenIs
  <2>2. DecodedText(Taken(n)) /\ file = InFile(SavedUpTo(n))
    BY <1>6 DEF DecodedKept
  <2>3. IsPrefix(file, all)
    BY <1>3, <1>c, <2>1, <2>2 DEF InFile, SavedUpTo, w
  <2>4. n # Count + 2
    BY <1>1, <1>6
  <2> QED
    BY <1>5, <2>1, <2>2, <2>3, <2>4 DEF all
<1>7. CASE n = Count + 2
  <2>1. ~(n <= Count + 1)
    BY <1>1, <1>7
  <2>2. /\ IF TagStored THEN text = WithTag(Wanted) ELSE DecodedText(Count)
        /\ file = InFile(WithTag(Closed))
    BY <1>1, <2>1 DEF DecodedKept
  <2>3. IsPrefix(file, all) /\ (ask.save /\ ask.sdOk => IsPrefix(Wanted, file))
    BY <1>c, <2>2 DEF InFile
  <2>4. CASE TagStored
    <3>1. TagFits
      BY <2>4 DEF TagFits, TagStored
    <3>2. Payload(ask) = 0 \/ Len(text) < MaxChar
      <4>1. CASE Payload(ask) # 0
        <5>1. Payload(ask) + 3 + TagChars < MaxChar
          BY <2>4, <4>1 DEF TagStored
        <5>2. Len(text) = w[Count] + TagBytes
          BY <1>2, <2>2, <2>4
        <5> QED
          <6>1. /\ w[Count] \in Nat /\ Payload(ask) \in Nat /\ w[Count] <= Payload(ask)
                /\ TagBytes \in Nat /\ TagChars \in Nat /\ TagBytes <= TagChars
                /\ MaxChar \in Nat
            BY <1>1, NumbersAre
          <6>2. w[Count] + TagBytes < MaxChar
            BY <5>1, <6>1
          <6> QED
            BY <5>2, <6>2
      <4> QED
        BY <4>1
    <3> QED
      BY <1>4, <2>2, <2>3, <2>4, <3>1, <3>2 DEF all
  <2>5. CASE ~TagStored
    <3>1. DecodedText(Count) /\ Count \in 0 .. Count
      BY <1>1, <2>2, <2>5
    <3>2. ASSUME Room PROVE IsPrefix(Wanted, text)
      <4>1. PICK q \in 0 .. Count : Fit(q, Count) /\ text = Span(1, w[q])
        BY <3>1 DEF DecodedText, w
      <4>2. q = Count
        <5>1. Counted(Count + 1) < MaxChar
          BY <3>2, LastFits DEF Room
        <5> QED
          BY <4>1, <5>1, AllFit
      <4> QED
        BY <1>1, <1>4, <4>1, <4>2
    <3> QED
      BY <1>5, <2>3, <3>1, <3>2 DEF all
  <2> QED
    BY <2>4, <2>5
<1>8. n <= Count + 1 \/ n = Count + 2
  BY <1>1
<1> QED
  BY <1>6, <1>7, <1>8

LEMMA AttachmentWhole ==
    ASSUME ask \in Asks, ask.base64, NEW n \in 0 .. Count + 2, AttachmentKept(n)
    PROVE  /\ ask.declared < Sum(ask.lines) + Twice(ask) + TagBytes => IsPrefix(file, Wanted)
           /\ n = Count + 2 /\ ask.declared >= Sum(ask.lines) => IsPrefix(Wanted, file)
<1> DEFINE w == ByteEnds
<1>1. /\ Count \in Nat /\ n \in Nat /\ n <= Count + 2
      /\ Sum(ask.lines) = w[Count] /\ ask.declared \in Nat
      /\ \A k \in 0 .. Count : w[k] \in Nat
      /\ \A j, k \in 0 .. Count : j <= k => w[j] <= w[k]
  BY BytesAre
<1>2. Wanted = Span(1, w[Count]) /\ Body(ask) = Wanted /\ Wanted \in Seq(Nat)
      /\ NoByte(TagBytes) \in Seq(Nat) /\ Count \in 0 .. Count
  <2>1. Wanted = Body(ask) /\ Body(ask) = Span(1, w[Count])
    BY EndsOfAsk DEF Wanted
  <2>2. Count \in 0 .. Count
    BY <1>1
  <2>3. Span(1, w[Count]) \in Seq(Nat)
    BY <1>1, <2>2, SpanOfNat
  <2> QED
    BY <2>1, <2>2, <2>3, NumbersAre, NoByteIs
<1>3. ASSUME NEW q \in 0 .. Count PROVE IsPrefix(Span(1, w[q]), Wanted)
  <2>1. w[q] \in Int /\ w[Count] \in Int /\ w[q] <= w[Count]
    BY <1>1, <1>2
  <2>2. <<>> \in Seq(Nat)
    BY NoLines
  <2> QED
    BY <1>2, <2>1, <2>2, SpanBegins
<1>4. IsPrefix(Wanted, Wanted) /\ IsPrefix(Wanted, WithTag(Wanted))
  BY <1>2, SelfBegins DEF WithTag
<1> HIDE DEF w
<1>5. CASE n <= Count + 1
  <2>1. Written(Taken(n)) /\ Taken(n) \in 0 .. Count
    BY <1>1, <1>5, TakenIs DEF AttachmentKept
  <2>2. PICK q \in 0 .. Taken(n) : file = Span(1, w[q])
    BY <2>1 DEF Written, w
  <2>3. q \in 0 .. Count /\ n # Count + 2
    BY <1>1, <1>5, <2>1
  <2> QED
    BY <1>3, <2>2, <2>3
<1>7. CASE n = Count + 2
  <2>1. WrittenTag
    <3>1. ~(n <= Count + 1)
      BY <1>1, <1>7
    <3> QED
      BY <3>1 DEF AttachmentKept
  <2>2. CASE WholeLines
    <3>1. PICK q \in 0 .. Count : Whole(q, Count) /\ file = Span(1, w[q])
      BY <2>2 DEF WholeLines, w
    <3>2. ASSUME ask.declared >= Sum(ask.lines) PROVE q = Count
      <4> SUFFICES ASSUME q # Count PROVE FALSE
        OBVIOUS
      <4>1. q + 1 \in 0 .. Count /\ q + 1 <= Count
        BY <1>1
      <4>2. w[q + 1] > ask.declared
        BY <3>1 DEF Whole, w
      <4>3. w[q + 1] <= w[Count] /\ w[q + 1] \in Nat /\ w[Count] \in Nat
        BY <1>1, <1>2, <4>1
      <4> QED
        BY <1>1, <3>2, <4>2, <4>3
    <3>3. IsPrefix(file, Wanted)
      BY <1>3, <3>1
    <3>4. q = Count => file = Wanted
      BY <1>2, <3>1
    <3> QED
      BY <1>4, <3>2, <3>3, <3>4
  <2>3. CASE ~WholeLines
    <3>1. /\ file = WithTag(Wanted)
          /\ ask.declared >= Sum(ask.lines) + Twice(ask) + TagBytes
      BY <1>2, <2>1, <2>3 DEF WrittenTag
    <3>2. Sum(ask.lines) + Twice(ask) + TagBytes \in Int
      <4>1. Twice(ask) \in Nat
        BY TwiceIs
      <4>2. Sum(ask.lines) \in Nat
        BY <1>1, <1>2
      <4> QED
        BY <4>1, <4>2, NumbersAre
    <3>3. ~(ask.declared < Sum(ask.lines) + Twice(ask) + TagBytes)
      BY <1>1, <3>1, <3>2
    <3> QED
      BY <1>4, <3>1, <3>3
  <2> QED
    BY <2>2, <2>3
<1>8. n <= Count + 1 \/ n = Count + 2
  BY <1>1
<1> QED
  BY <1>5, <1>7, <1>8

LEMMA NothingBegins ==
    ASSUME ask \in Asks
    PROVE  /\ IsPrefix(<<>>, Wanted) /\ IsPrefix(<<>>, WithTag(Wanted))
           /\ IsPrefix(<<>>, Wanted \o NoByte(IF ask.base64 THEN 1 + TagBytes ELSE 0))
<1>1. Wanted \in Seq(Nat)
  <2>1. CASE ask.base64
    BY <2>1, PayloadIs, SpanOfNat DEF Wanted, Body
  <2>2. CASE ~ask.base64
    <3>1. Payload(ask) - 2 \in Int
      BY PayloadIs
    <3> QED
      BY <2>2, <3>1, SpanFromOne DEF Wanted
  <2> QED
    BY <2>1, <2>2
<1>2. \A n \in Nat : Wanted \o NoByte(n) \in Seq(Nat)
  BY <1>1, NoByteIs, LenJoined
<1>3. TagBytes \in Nat /\ (IF ask.base64 THEN 1 + TagBytes ELSE 0) \in Nat
  BY NumbersAre
<1> QED
  BY <1>1, <1>2, <1>3, SelfBegins DEF WithTag

\* While the lines are read, what is kept is the part's.
LEMMA ReadingWhole ==
    ASSUME ask \in Asks, wait \in Waits, Reading
    PROVE  TextWhole /\ FileWhole /\ Bounded
<1> USE DEF Bounded
<1>1. CASE \E n \in 0 .. 1 : Denied(n)
  <2>1. text = <<>> /\ file = <<>> /\ wait.complete = FALSE
    BY <1>1 DEF Denied
  <2>2. TextWhole
    BY <2>1, NothingBegins DEF TextWhole
  <2>3. FileWhole
    <3>1. CASE ask.type = "TEXT"
      BY <2>1, <3>1, NothingBegins DEF FileWhole
    <3>2. CASE ask.type = "ATTACHMENT" /\ ask.base64
      BY <2>1, <3>2, NothingBegins DEF FileWhole
    <3>3. CASE ask.type = "ATTACHMENT" /\ ~ask.base64
      BY <2>1, <3>3 DEF FileWhole
    <3> QED
      BY <3>1, <3>2, <3>3, AsksAre
  <2> QED
    BY <2>1, <2>2, <2>3
<1>2. CASE \E n \in 0 .. Count + 2 : Granted(n)
  <2>1. PICK n \in 0 .. Count + 2 : Framed(n) /\ Kept(n)
    BY <1>2 DEF Granted
  <2>2. wait.chars \in Nat /\ wait.complete \in BOOLEAN
    BY DEF Waits
  <2>3. wait.complete => n = Count + 2 /\ wait.chars >= Payload(ask)
    BY <2>1, OverCounted
  <2>4. CASE ask.type = "TEXT" /\ ~ask.base64
    <3>1. PICK c \in Nat : c = wait.chars
      BY <2>2
    <3>2. /\ text = Span(1, Less(Less(c, Payload(ask) - 2), MaxChar - 1))
          /\ file = InFile(Span(1, Less(c, Payload(ask) - 2)))
      BY <2>1, <2>4, <3>1 DEF Kept, PlainKept, Less
    <3>3. /\ IsPrefix(text, Wanted) /\ (text = <<>> \/ Len(text) < MaxChar)
          /\ c >= Payload(ask) /\ Payload(ask) < MaxChar => IsPrefix(Wanted, text)
      BY <2>4, <3>2, PlainWhole
    <3>4. /\ IsPrefix(file, Wanted \o NoByte(0))
          /\ c >= Payload(ask) /\ ask.save /\ ask.sdOk => IsPrefix(Wanted, file)
      BY <2>4, <3>2, PlainWhole DEF InFile
    <3>5. ~TagFits
      BY <2>4 DEF TagFits
    <3>6. TextWhole
      <4>1. Room => Payload(ask) < MaxChar
        BY <2>4, PayloadIs DEF Room
      <4> QED
        BY <2>3, <2>4, <3>1, <3>3, <3>5, <4>1 DEF TextWhole
    <3>7. FileWhole
      BY <2>3, <2>4, <3>1, <3>4 DEF FileWhole
    <3> QED
      BY <3>3, <3>6, <3>7
  <2>5. CASE ask.type = "TEXT" /\ ask.base64
    <3>1. DecodedKept(n)
      BY <2>1, <2>5 DEF Kept
    <3>2. /\ IsPrefix(text, IF TagFits THEN WithTag(Wanted) ELSE Wanted)
          /\ n = Count + 2 /\ Room => IsPrefix(Wanted, text)
          /\ IsPrefix(file, Wanted \o NoByte(1 + TagBytes))
          /\ n = Count + 2 /\ ask.save /\ ask.sdOk => IsPrefix(Wanted, file)
          /\ text = <<>> \/ Payload(ask) = 0 \/ Len(text) < MaxChar
      BY <2>5, <3>1, DecodedWhole
    <3>3. TextWhole
      BY <2>3, <2>5, <3>2 DEF TextWhole
    <3>4. FileWhole
      BY <2>3, <2>5, <3>2 DEF FileWhole
    <3> QED
      BY <3>2, <3>3, <3>4
  <2>6. CASE ask.type = "ATTACHMENT"
    <3>1. text = <<>> /\ IF ask.base64 THEN NoBlank(ask) => AttachmentKept(n) ELSE file = <<>>
      BY <2>1, <2>6 DEF Kept
    <3>2. TextWhole
      BY <2>6 DEF TextWhole
    <3>3. CASE ask.base64
      <4>1. ASSUME NoBlank(ask)
            PROVE  /\ ask.declared < Sum(ask.lines) + Twice(ask) + TagBytes
                        => IsPrefix(file, Wanted)
                   /\ n = Count + 2 /\ ask.declared >= Sum(ask.lines) => IsPrefix(Wanted, file)
        BY <3>1, <3>3, <4>1, AttachmentWhole
      <4>2. FileWhole
        BY <2>3, <2>6, <3>3, <4>1 DEF FileWhole
      <4> QED
        BY <3>1, <3>2, <4>2
    <3>4. CASE ~ask.base64
      <4>1. FileWhole
        BY <2>6, <3>1, <3>4 DEF FileWhole
      <4> QED
        BY <3>1, <3>2, <4>1
    <3> QED
      BY <3>3, <3>4
  <2> QED
    BY <2>4, <2>5, <2>6, AsksAre
<1> QED
  BY <1>1, <1>2 DEF Reading

-----------------------------------------------------------------------------
\* The beginning.

LEMMA NothingKept ==
    ASSUME ask \in Asks, wait.chars = 0, text = <<>>, file = <<>>, total = 0
    PROVE  Kept(0)
<1>1. Count \in Nat /\ CharEnds[0] = 0 /\ ByteEnds[0] = 0 /\ ask.declared \in Nat
  BY EndsOfAsk, AsksAre
<1>2. Span(1, 0) = <<>> /\ Taken(0) = 0 /\ 0 <= Count + 1 /\ 0 <= Count
  BY <1>1, SpanEmpty DEF Taken
<1>3. PlainKept(0)
  <2>1. PICK p \in Int : p = Payload(ask) - 2
    BY PayloadIs
  <2>2. PICK m \in Int : m = MaxChar - 1
    BY NumbersAre
  <2>3. Less(0, p) \in Int /\ Less(0, p) < 1
    BY MinTwo DEF Less
  <2>4. Less(Less(0, p), m) \in Int /\ Less(Less(0, p), m) < 1
    BY <2>3, MinTwo DEF Less
  <2>5. Span(1, Less(0, p)) = <<>> /\ Span(1, Less(Less(0, p), m)) = <<>>
    BY <2>3, <2>4, SpanEmpty
  <2> QED
    BY <2>1, <2>2, <2>5 DEF PlainKept, InFile, Less
<1>4. DecodedKept(0)
  <2>1. Fit(0, 0)
    BY DEF Fit
  <2>2. DecodedText(0)
    BY <1>1, <1>2, <2>1 DEF DecodedText
  <2>3. file = InFile(SavedUpTo(0))
    BY <1>1, <1>2 DEF InFile, SavedUpTo
  <2> QED
    BY <1>2, <2>2, <2>3 DEF DecodedKept
<1>5. AttachmentKept(0)
  <2>1. Whole(0, 0)
    BY <1>1 DEF Whole
  <2>2. Written(0)
    BY <1>1, <1>2, <2>1 DEF Written
  <2> QED
    BY <1>2, <2>2 DEF AttachmentKept
<1> QED
  BY <1>3, <1>4, <1>5 DEF Kept

LEMMA InitIInv == ASSUME Init PROVE IInv
<1>1. /\ ask \in Asks /\ stage = "first" /\ conn = "up" /\ inbox = <<>>
      /\ wait = [lf |-> 0, chars |-> 0, payload |-> 0, valid |-> FALSE, complete |-> FALSE]
      /\ text = <<>> /\ file = <<>> /\ total = 0 /\ counted = 0 /\ out \in Garbage
      /\ record = [size |-> ask.declared, opened |-> FALSE,
                   partError |-> FALSE, mailError |-> FALSE]
      /\ header \in [wanted : {FALSE}, saved : BOOLEAN]
      /\ owed = Yes(ask) \/ owed = No
  BY DEF Init
<1>2. Count \in Nat /\ Payload(ask) \in Nat /\ ask.declared \in Nat
  BY <1>1, PartIs, PayloadIs, AsksAre DEF Count
<1>3. owed \in Seq(Lines) /\ inbox \in Seq(Lines) /\ Len(inbox) = 0 /\ DOMAIN inbox = {}
  BY <1>1, YesIs, NoIs, NoLines
<1>4. wait \in Waits
  <2>1. FALSE \in BOOLEAN /\ 0 \in Nat
    OBVIOUS
  <2> QED
    BY <1>1, <2>1 DEF Waits
<1>5. record \in Records /\ header \in Headers
  <2>1. record \in Records
    BY <1>1, <1>2 DEF Records
  <2>2. header \in Headers
    BY <1>1 DEF Headers
  <2> QED
    BY <2>1, <2>2
<1>6. Types
  <2>1. out \in Nat /\ total \in 0 .. ask.declared + 1 /\ counted \in Nat
    BY <1>1, <1>2, NumbersAre
  <2>2. text \in Seq(Nat) /\ file \in Seq(Nat)
    BY <1>1, NoLines
  <2> QED
    BY <1>1, <1>3, <1>4, <1>5, <2>1, <2>2 DEF Types
<1>7. Reported /\ Unmarked
  <2>1. Reported
    BY <1>1, NoLines DEF Reported
  <2>2. Unmarked
    BY <1>1 DEF Unmarked
  <2> QED
    BY <2>1, <2>2
<1>8. ASSUME owed = Yes(ask) PROVE Granted(0)
  <2>1. ToCome(Yes(ask), 0)
    <3>1. Len(owed) = Count + 2 /\ DOMAIN owed = 1 .. Count + 2
      BY <1>1, <1>3, <1>8, YesIs, LenProperties DEF Count
    <3>2. 0 + Len(inbox) + Len(owed) <= Len(Yes(ask))
      BY <1>2, <1>3, <1>8, <3>1
    <3>3. \A k \in DOMAIN owed : owed[k] = Yes(ask)[0 + Len(inbox) + k]
      <4>1. \A k \in DOMAIN owed : 0 + Len(inbox) + k = k
        BY <1>2, <1>3, <3>1
      <4> QED
        BY <1>8, <4>1
    <3> QED
      BY <1>3, <3>2, <3>3 DEF ToCome
  <2>2. Framed(0)
    <3>1. Counted(0) = 0 /\ 0 # Count + 2
      BY <1>1, <1>2, CountedIs
    <3> QED
      BY <1>1, <3>1 DEF Framed
  <2>3. Kept(0)
    BY <1>1, NothingKept
  <2> QED
    BY <2>1, <2>2, <2>3 DEF Granted
<1>9. ASSUME owed = No PROVE Denied(0)
  <2>1. ToCome(No, 0)
    <3>1. Len(owed) = 1 /\ DOMAIN owed = 1 .. 1
      BY <1>3, <1>9, NoIs, LenProperties
    <3>2. 0 + Len(inbox) + Len(owed) <= Len(No)
      BY <1>3, <1>9, <3>1
    <3>3. \A k \in DOMAIN owed : owed[k] = No[0 + Len(inbox) + k]
      <4>1. \A k \in DOMAIN owed : 0 + Len(inbox) + k = k
        BY <1>3, <3>1
      <4> QED
        BY <1>9, <4>1
    <3> QED
      BY <1>3, <3>2, <3>3 DEF ToCome
  <2> QED
    BY <1>1, <2>1 DEF Denied
<1>10. Reading
  <2>1. 0 \in 0 .. Count + 2 /\ 0 \in 0 .. 1
    BY <1>2
  <2> QED
    BY <1>1, <1>8, <1>9, <2>1 DEF Reading
<1> QED
  BY <1>1, <1>6, <1>7, <1>10 DEF IInv

-----------------------------------------------------------------------------
\* Each step keeps the invariant.

LEMMA IInvIs ==
    ASSUME IInv
    PROVE  /\ Types /\ Reported /\ ask \in Asks /\ wait \in Waits
           /\ inbox \in Seq(Lines) /\ owed \in Seq(Lines)
           /\ stage = "first" => wait.lf = 0
           /\ stage # "done" => Reading /\ Unmarked /\ Storage
           /\ Count \in Nat
BY PartIs DEF IInv, Types, Storage, Count

LEMMA ReadLineKeeps == ASSUME IInv, ReadLine PROVE IInv'
<1> DEFINE line == Head(inbox)
<1>1. /\ stage = "lines" /\ inbox # <<>> /\ Store(line) /\ wait' = WaitAfter(line)
      /\ inbox' = Tail(inbox)
      /\ ask' = ask /\ stage' = stage /\ conn' = conn /\ owed' = owed
  BY DEF ReadLine
<1>2. /\ Types /\ ask \in Asks /\ wait \in Waits /\ inbox \in Seq(Lines)
      /\ owed \in Seq(Lines) /\ Reading /\ Unmarked /\ Storage /\ Count \in Nat
  BY <1>1, IInvIs
<1>3. line \in Lines /\ inbox' \in Seq(Lines)
  BY <1>1, <1>2, OneRead
<1>4. Count' = Count
  BY <1>1 DEF Count
<1>5. CASE \E n \in 0 .. Count + 2 : Granted(n)
  <2>1. PICK n \in 0 .. Count + 2 : ToCome(Yes(ask), n) /\ Framed(n) /\ Kept(n)
    BY <1>5 DEF Granted
  <2>2. PICK r : r = Yes(ask)
    OBVIOUS
  <2>3. Len(r) = Count + 2 /\ n \in Nat /\ Len(r) \in Nat
    BY <1>2, <2>2, YesIs DEF Count
  <2>4. line = r[n + 1] /\ n + 1 <= Len(r) /\ ToCome(r, n + 1)'
    BY <1>1, <1>2, <2>1, <2>2, <2>3, ToComeRead
  <2>5. n \in 0 .. Count + 1 /\ n + 1 \in 0 .. Count + 2
    BY <1>2, <2>3, <2>4
  <2> HIDE DEF line
  <2>6. wait' \in Waits /\ Framed(n + 1)' /\ CharsAfter(line.chars) \in Nat
    <3>1. wait' \in Waits /\ Framed(n + 1)' /\ CharsAfter(line.chars) = Counted(n + 1)
      BY <1>1, <1>2, <2>1, <2>2, <2>4, <2>5, FramedNext
    <3>2. wait'.chars = CharsAfter(line.chars)
      BY <1>1 DEF WaitAfter
    <3> QED
      BY <3>1, <3>2 DEF Waits
  <2>7. Storage'
    BY <1>1, <1>2, <1>3, <2>6, StoreTypes
  <2>8. Kept(n + 1)'
    BY <1>1, <1>2, <1>3, <2>1, <2>2, <2>4, <2>5, KeptNext
  <2>9. ToCome(Yes(ask), n + 1)'
    BY <1>1, <2>2, <2>4 DEF ToCome
  <2>10. Reading'
    BY <1>4, <2>5, <2>6, <2>8, <2>9 DEF Reading, Granted
  <2>11. wait' \in Waits'
    BY <1>1, <2>6 DEF Waits
  <2> QED
    BY <1>1, <1>2, <1>3, <2>7, <2>10, <2>11 DEF IInv, Types, Storage
<1>6. CASE \E n \in 0 .. 1 : Denied(n)
  <2>1. PICK n \in 0 .. 1 : Denied(n)
    BY <1>6
  <2>2. line = No[n + 1] /\ n + 1 <= Len(No) /\ ToCome(No, n + 1)'
    <3>1. Len(No) \in Nat /\ n \in Nat /\ ToCome(No, n)
      BY <2>1, NoIs DEF Denied
    <3> QED
      BY <1>1, <1>2, <3>1, ToComeRead
  <2>3. n = 0 /\ n + 1 = 1
    BY <2>2, NoIs
  <2>4. line.kind = "no"
    <3>1. line = Tag("no")
      BY <2>2, <2>3, NoIs
    <3> QED
      BY <3>1 DEF Tag, Line
  <2>5. wait = [lf |-> 0, chars |-> 0, payload |-> 0, valid |-> FALSE, complete |-> FALSE]
        /\ text = <<>> /\ file = <<>>
    BY <2>1, <2>3 DEF Denied
  <2> HIDE DEF line
  <2>6. UNCHANGED <<stored, record, header>>
    BY <1>1, <1>2, <2>5, StoreIs
  <2>7. wait' = [lf |-> 1, chars |-> 0, payload |-> 0, valid |-> FALSE, complete |-> FALSE]
    <3>1. CharsAfter(line.chars) = 0
      BY <2>5 DEF CharsAfter
    <3>2. /\ (IF wait.lf = 0 /\ line.kind = "literal" THEN line.chars ELSE wait.payload) = 0
          /\ (IF Tagged(line) THEN line.kind = "ok" ELSE wait.valid \/ wait.lf = 0) = FALSE
          /\ (wait.complete \/ (Tagged(line) /\ wait.payload > 0
                                  /\ CharsAfter(line.chars) >= wait.payload)) = FALSE
      BY <2>4, <2>5 DEF Tagged
    <3> QED
      BY <1>1, <3>1, <3>2 DEF WaitAfter
  <2>8. Denied(1)'
    BY <2>2, <2>3, <2>5, <2>6, <2>7 DEF Denied, stored
  <2>9. wait' \in Waits'
    <3>1. FALSE \in BOOLEAN /\ 0 \in Nat
      OBVIOUS
    <3> QED
      BY <2>7, <3>1 DEF Waits
  <2>10. Reading'
    BY <2>8 DEF Reading
  <2>11. Storage'
    BY <1>1, <1>2, <2>6 DEF Storage, stored, Reported, Unmarked
  <2> QED
    BY <1>1, <1>2, <1>3, <2>9, <2>10, <2>11 DEF IInv, Types, Storage
<1> QED
  BY <1>2, <1>5, <1>6 DEF Reading


\* What is kept does not depend on the link.
LEMMA SameKept ==
    ASSUME ask' = ask, wait' = wait, UNCHANGED stored, NEW n
    PROVE  /\ Kept(n)' <=> Kept(n)
           /\ Framed(n)' <=> Framed(n)
<1>1. text' = text /\ file' = file /\ out' = out /\ total' = total
  BY DEF stored
<1>2. \A c : PlainKept(c)' <=> PlainKept(c)
  BY <1>1, SameAsk DEF PlainKept
<1>3. \A k : DecodedText(k)' <=> DecodedText(k)
  BY <1>1, SameAsk DEF DecodedText
<1>4. DecodedKept(n)' <=> DecodedKept(n)
  <2>1. /\ Count' = Count /\ ByteEnds' = ByteEnds /\ TagStored' = TagStored
        /\ Body(ask)' = Body(ask) /\ SavedUpTo(n)' = SavedUpTo(n) /\ Closed' = Closed
        /\ \A s : InFile(s)' = InFile(s)
    BY SameAsk
  <2>2. Taken(n)' = Taken(n)
    BY <2>1 DEF Taken
  <2> QED
    BY <1>1, <1>3, <2>1, <2>2 DEF DecodedKept, WithTag
<1>5. AttachmentKept(n)' <=> AttachmentKept(n)
  <2>1. /\ Count' = Count /\ ByteEnds' = ByteEnds /\ Body(ask)' = Body(ask)
        /\ Sum(ask.lines)' = Sum(ask.lines) /\ Twice(ask)' = Twice(ask)
        /\ \A q, k : Whole(q, k)' <=> Whole(q, k)
    BY SameAsk
  <2>2. Exceeded' <=> Exceeded
    BY <1>1 DEF Exceeded
  <2>3. \A k : Written(k)' <=> Written(k)
    BY <1>1, <2>1, <2>2 DEF Written
  <2>4. WholeLines' <=> WholeLines
    BY <1>1, <2>1 DEF WholeLines
  <2>6. WrittenTag' <=> WrittenTag
    BY <1>1, <2>1, <2>4 DEF WrittenTag, WithTag
  <2>7. Taken(n)' = Taken(n)
    BY <2>1 DEF Taken
  <2> QED
    BY <2>1, <2>3, <2>6, <2>7 DEF AttachmentKept
<1>6. Kept(n)' <=> Kept(n)
  BY <1>1, <1>2, <1>4, <1>5, SameAsk DEF Kept
<1>7. Framed(n)' <=> Framed(n)
  <2>1. Count' = Count /\ Payload(ask)' = Payload(ask) /\ Counted(n)' = Counted(n)
    BY SameAsk
  <2> QED
    BY <2>1 DEF Framed
<1> QED
  BY <1>6, <1>7

\* A step of the link or of the loop that stores nothing.
LEMMA ReadingKept ==
    ASSUME Reading, ask \in Asks, ask' = ask, wait' = wait, UNCHANGED stored,
           \A r, n : Len(r) \in Nat /\ n \in Nat /\ ToCome(r, n) => ToCome(r, n)'
    PROVE  Reading'
<1>1. Count' = Count /\ Yes(ask)' = Yes(ask) /\ Count \in Nat
  BY SameAsk, PartIs DEF Count
<1>2. ASSUME NEW n \in 0 .. Count + 2, Granted(n) PROVE Granted(n)'
  <2>1. PICK r : r = Yes(ask)
    OBVIOUS
  <2>2. Len(r) \in Nat /\ n \in Nat /\ ToCome(r, n)
    BY <1>1, <1>2, <2>1, YesIs DEF Granted, Count
  <2>3. ToCome(r, n)'
    BY <2>2
  <2>4. ToCome(Yes(ask), n)'
    BY <1>1, <2>1, <2>3 DEF ToCome
  <2>5. Framed(n)' /\ Kept(n)'
    BY <1>2, SameKept DEF Granted
  <2> QED
    BY <2>4, <2>5 DEF Granted
<1>3. ASSUME NEW n \in 0 .. 1, Denied(n) PROVE Denied(n)'
  <2>1. ToCome(No, n)'
    <3>1. Len(No) \in Nat /\ n \in Nat /\ ToCome(No, n)
      BY <1>3, NoIs DEF Denied
    <3> QED
      BY <3>1
  <2> QED
    BY <1>3, <2>1 DEF Denied, stored
<1> QED
  BY <1>1, <1>2, <1>3 DEF Reading

\* Types that a step keeps which leaves everything but the link alone.
LEMMA RestKept ==
    ASSUME IInv, ask' = ask, wait' = wait, UNCHANGED <<stored, record, header>>
    PROVE  /\ ask' \in Asks' /\ wait' \in Waits' /\ text' \in Seq(Nat) /\ file' \in Seq(Nat)
           /\ out' \in Nat /\ total' \in 0 .. ask'.declared + 1 /\ counted' \in Nat
           /\ record' \in Records /\ header' \in Headers /\ Reported'
           /\ Unmarked' <=> Unmarked
<1>1. /\ ask \in Asks /\ wait \in Waits /\ text \in Seq(Nat) /\ file \in Seq(Nat)
      /\ out \in Nat /\ total \in 0 .. ask.declared + 1 /\ counted \in Nat
      /\ record \in Records /\ header \in Headers /\ Reported
  BY DEF IInv, Types
<1>2. text' = text /\ file' = file /\ out' = out /\ total' = total /\ counted' = counted
      /\ record' = record /\ header' = header
  BY DEF stored
<1>3. Asks' = Asks /\ Waits' = Waits
  BY DEF Asks, Waits
<1>4. Reported' /\ (Unmarked' <=> Unmarked)
  BY <1>1, <1>2 DEF Reported, Unmarked
<1> QED
  BY <1>1, <1>2, <1>3, <1>4

\* What the promises say depends on the text, the file and the end of the wait.
LEMMA FinishedKept ==
    ASSUME ask' = ask, wait'.complete = wait.complete, text' = text, file' = file
    PROVE  /\ TextWhole' <=> TextWhole
           /\ FileWhole' <=> FileWhole
           /\ Bounded' <=> Bounded
<1>1. Wanted' = Wanted /\ TagFits' = TagFits /\ Payload(ask)' = Payload(ask)
      /\ NoBlank(ask)' = NoBlank(ask) /\ Sum(ask.lines)' = Sum(ask.lines)
      /\ Twice(ask)' = Twice(ask) /\ Room' = Room
  BY SameAsk
<1> QED
  BY <1>1 DEF TextWhole, FileWhole, Bounded, WithTag

\* The steps of the link.
LEMMA LinkKeeps ==
    ASSUME IInv, ask' = ask, stage' = stage, wait' = wait, UNCHANGED <<stored, record, header>>,
           conn' \in {"up", "down"}, inbox' \in Seq(Lines), owed' \in Seq(Lines),
           \A r, n : Len(r) \in Nat /\ n \in Nat /\ ToCome(r, n) => ToCome(r, n)'
    PROVE  IInv'
<1>1. Types'
  <2>1. stage' \in {"first", "lines", "done", "crashed"}
    BY DEF IInv, Types
  <2> QED
    BY <2>1, RestKept DEF Types
<1>2. (stage' = "first" => wait'.lf = 0) /\ Reported'
  BY RestKept DEF IInv
<1>3. stage' # "done" => Reading' /\ Unmarked'
  <2> SUFFICES ASSUME stage # "done" PROVE Reading' /\ Unmarked'
    OBVIOUS
  <2>1. Reading /\ Unmarked /\ ask \in Asks
    BY DEF IInv, Types
  <2>2. Reading'
    BY <2>1, ReadingKept
  <2> QED
    BY <2>1, <2>2, RestKept
<1>4. stage' = "done" => TextWhole' /\ FileWhole' /\ Bounded' /\ SizeIsFile' /\ CutIsTold'
  <2> SUFFICES ASSUME stage = "done"
               PROVE  TextWhole' /\ FileWhole' /\ Bounded' /\ SizeIsFile' /\ CutIsTold'
    OBVIOUS
  <2>1. TextWhole /\ FileWhole /\ Bounded /\ SizeIsFile /\ CutIsTold
    BY DEF IInv
  <2>2. TextWhole' /\ FileWhole' /\ Bounded'
    BY <2>1, FinishedKept DEF stored
  <2>3. record' = record /\ file' = file
    BY DEF stored
  <2>4. SizeIsFile'
    BY <2>1, <2>3 DEF SizeIsFile, Over
  <2>5. CutIsTold'
    BY <2>1, <2>3 DEF CutIsTold, Cut, Over
  <2> QED
    BY <2>2, <2>4, <2>5
<1> QED
  BY <1>1, <1>2, <1>3, <1>4 DEF IInv

LEMMA DeliverKeeps == ASSUME IInv, Deliver PROVE IInv'
<1>1. /\ conn = "up" /\ owed # <<>>
      /\ inbox' = Append(inbox, Head(owed)) /\ owed' = Tail(owed)
      /\ ask' = ask /\ stage' = stage /\ conn' = conn /\ wait' = wait
      /\ UNCHANGED <<stored, record, header>>
  BY DEF Deliver
<1>2. inbox \in Seq(Lines) /\ owed \in Seq(Lines)
  BY IInvIs
<1>3. inbox' \in Seq(Lines) /\ owed' \in Seq(Lines)
  <2>1. Head(owed) \in Lines /\ Tail(owed) \in Seq(Lines)
    BY <1>1, <1>2, OneRead
  <2> QED
    BY <1>1, <1>2, <2>1, OneMore
<1>4. \A r, n : Len(r) \in Nat /\ n \in Nat /\ ToCome(r, n) => ToCome(r, n)'
  BY <1>1, <1>2, ToComeDelivered
<1> QED
  BY <1>1, <1>3, <1>4, LinkKeeps

LEMMA DisconnectKeeps == ASSUME IInv, Disconnect PROVE IInv'
<1>1. /\ conn' = "down" /\ owed' = <<>> /\ inbox' = inbox
      /\ ask' = ask /\ stage' = stage /\ wait' = wait
      /\ UNCHANGED <<stored, record, header>>
  BY DEF Disconnect
<1>2. inbox \in Seq(Lines) /\ owed \in Seq(Lines)
  BY IInvIs
<1>3. inbox' \in Seq(Lines) /\ owed' \in Seq(Lines)
  BY <1>1, <1>2, NoLines
<1>4. \A r, n : Len(r) \in Nat /\ n \in Nat /\ ToCome(r, n) => ToCome(r, n)'
  BY <1>1, <1>2, ToComeCut
<1> QED
  BY <1>1, <1>3, <1>4, LinkKeeps

LEMMA StutterKeeps == ASSUME IInv, UNCHANGED vars PROVE IInv'
<1>1. /\ ask' = ask /\ stage' = stage /\ wait' = wait /\ UNCHANGED <<stored, record, header>>
      /\ conn' = conn /\ inbox' = inbox /\ owed' = owed
  BY DEF vars
<1>2. conn \in {"up", "down"} /\ inbox \in Seq(Lines) /\ owed \in Seq(Lines)
  BY DEF IInv, Types
<1>3. \A r, n : Len(r) \in Nat /\ n \in Nat /\ ToCome(r, n) => ToCome(r, n)'
  BY <1>1 DEF ToCome
<1> QED
  BY <1>1, <1>2, <1>3, LinkKeeps

\* The steps of the loop that store nothing, and go on.
LEMMA WaitedKeeps ==
    ASSUME IInv, stage # "done", stage' \in {"lines", "crashed"},
           UNCHANGED <<ask, conn, owed, inbox, wait, stored, record, header>>
    PROVE  IInv'
<1>1. /\ ask' = ask /\ conn' = conn /\ owed' = owed /\ inbox' = inbox /\ wait' = wait
      /\ UNCHANGED <<stored, record, header>>
  OBVIOUS
<1>2. Reading /\ Unmarked /\ ask \in Asks
  BY DEF IInv, Types
<1>3. Types'
  <2>1. /\ stage' \in {"first", "lines", "done", "crashed"} /\ conn' \in {"up", "down"}
        /\ inbox' \in Seq(Lines) /\ owed' \in Seq(Lines)
    BY <1>1 DEF IInv, Types
  <2> QED
    BY <1>1, <2>1, RestKept DEF Types
<1>4. Reading'
  <2>1. \A r, n : Len(r) \in Nat /\ n \in Nat /\ ToCome(r, n) => ToCome(r, n)'
    BY <1>1 DEF ToCome
  <2> QED
    BY <1>1, <1>2, <2>1, ReadingKept
<1>5. Reported' /\ Unmarked' /\ stage' # "first" /\ stage' # "done"
  BY <1>1, <1>2, RestKept
<1> QED
  BY <1>3, <1>4, <1>5 DEF IInv

LEMMA FirstByteKeeps == ASSUME IInv, FirstByte PROVE IInv'
BY WaitedKeeps DEF FirstByte

LEMMA NullStreamKeeps == ASSUME IInv, NullStream PROVE IInv'
BY WaitedKeeps DEF NullStream

\* A wait that ends before anything came.
LEMMA TimeOutKeeps == ASSUME IInv, TimeOut PROVE IInv'
<1>1. /\ stage = "first" /\ stage' = "done"
      /\ ask' = ask /\ conn' = conn /\ owed' = owed /\ inbox' = inbox /\ wait' = wait
      /\ UNCHANGED <<stored, record, header>>
  BY DEF TimeOut
<1>2. Reading /\ Unmarked /\ ask \in Asks /\ wait \in Waits /\ wait.lf = 0
  BY <1>1 DEF IInv, Types
<1>3. Types'
  <2>1. /\ stage' \in {"first", "lines", "done", "crashed"} /\ conn' \in {"up", "down"}
        /\ inbox' \in Seq(Lines) /\ owed' \in Seq(Lines)
    BY <1>1 DEF IInv, Types
  <2> QED
    BY <1>1, <2>1, RestKept DEF Types
<1>4. TextWhole' /\ FileWhole' /\ Bounded'
  BY <1>1, <1>2, ReadingWhole, FinishedKept DEF stored
<1>5. ~wait.valid /\ ~wait.complete
  <2>1. CASE \E n \in 0 .. Count + 2 : Granted(n)
    <3>1. PICK n \in 0 .. Count + 2 : Framed(n)
      BY <2>1 DEF Granted
    <3>2. n = 0
      BY <1>2, <3>1 DEF Framed
    <3>3. Count \in Nat
      BY IInvIs
    <3>4. 0 # Count + 2
      BY <3>3
    <3> QED
      BY <3>1, <3>2, <3>4 DEF Framed
  <2>2. CASE \E n \in 0 .. 1 : Denied(n)
    BY <2>2 DEF Denied
  <2> QED
    BY <1>2, <2>1, <2>2 DEF Reading
<1>6. SizeIsFile' /\ CutIsTold'
  BY <1>1, <1>5 DEF SizeIsFile, CutIsTold, Cut, Over
<1>7. Reported' /\ stage' # "first"
  BY <1>1, RestKept
<1> QED
  BY <1>1, <1>3, <1>4, <1>6, <1>7 DEF IInv

\* A wait that ends with the whole part.
LEMMA EndWaitKeeps == ASSUME IInv, EndWait PROVE IInv'
<1>1. /\ stage = "lines" /\ wait.complete /\ stage' = "done"
      /\ record' = [record EXCEPT !.size = SizeAfter] /\ header' = HeaderAfter(header)
      /\ ask' = ask /\ conn' = conn /\ owed' = owed /\ inbox' = inbox /\ wait' = wait
      /\ text' = text /\ file' = file /\ out' = out /\ total' = total /\ counted' = counted
  BY DEF EndWait, stored
<1>2. /\ Reading /\ Unmarked /\ Reported /\ ask \in Asks /\ wait \in Waits
      /\ record \in Records /\ header \in Headers /\ counted \in Nat
  BY <1>1 DEF IInv, Types
<1>3. wait.valid
  <2>1. CASE \E n \in 0 .. Count + 2 : Granted(n)
    <3>1. PICK n \in 0 .. Count + 2 : Framed(n)
      BY <2>1 DEF Granted
    <3>2. Count \in Nat
      BY IInvIs
    <3>3. n = Count + 2
      BY <1>1, <1>2, <3>1, OverCounted
    <3>4. n > 0
      BY <3>2, <3>3
    <3> QED
      BY <3>1, <3>4 DEF Framed
  <2>2. CASE \E n \in 0 .. 1 : Denied(n)
    BY <1>1, <2>2 DEF Denied
  <2> QED
    BY <1>2, <2>1, <2>2 DEF Reading
<1>4. /\ record'.size = SizeAfter /\ record'.opened = record.opened
      /\ record'.partError = record.partError /\ record'.mailError = record.mailError
      /\ record' \in Records /\ SizeAfter \in Nat
  <2>1. SizeAfter \in Nat
    BY <1>2 DEF SizeAfter, Records
  <2> QED
    BY <1>1, <1>2, <2>1 DEF Records
<1>5. header' \in Headers
  BY <1>1, <1>2 DEF HeaderAfter, Headers
<1>6. Types'
  <2>1. /\ stage' \in {"first", "lines", "done", "crashed"} /\ conn' \in {"up", "down"}
        /\ inbox' \in Seq(Lines) /\ owed' \in Seq(Lines) /\ ask' \in Asks'
        /\ text' \in Seq(Nat) /\ file' \in Seq(Nat)
        /\ out' \in Nat /\ total' \in 0 .. ask'.declared + 1 /\ counted' \in Nat
    BY <1>1 DEF IInv, Types
  <2>2. wait' \in Waits'
    BY <1>1, <1>2 DEF Waits
  <2> QED
    BY <1>4, <1>5, <2>1, <2>2 DEF Types
<1>7. Reported'
  BY <1>1, <1>2 DEF Reported
<1>8. TextWhole' /\ FileWhole' /\ Bounded'
  <2>1. TextWhole /\ FileWhole /\ Bounded
    BY <1>2, ReadingWhole
  <2> QED
    BY <1>1, <2>1, FinishedKept
<1>9. SizeIsFile'
  <2>1. ask.type = "ATTACHMENT" => record'.size = counted
    BY <1>3, <1>4 DEF SizeAfter
  <2> QED
    BY <1>1, <1>2, <2>1 DEF SizeIsFile, Reported
<1>10. CutIsTold'
  BY <1>1, <1>2, <1>4 DEF CutIsTold, Cut, Over, Unmarked
<1> QED
  BY <1>1, <1>6, <1>7, <1>8, <1>9, <1>10 DEF IInv

\* A text that comes too slowly: the wait ends within a line of it.
LEMMA SlowTextKeeps == ASSUME IInv, SlowText PROVE IInv'
<1>1. /\ stage = "lines" /\ inbox # <<>>
      /\ ask.type = "TEXT" /\ wait.valid /\ wait.lf > 0
      /\ stage' = "done" /\ inbox' = <<>>
      /\ ask' = ask /\ conn' = conn /\ owed' = owed
      /\ out' = out /\ total' = total /\ counted' = counted
  BY DEF SlowText
<1>2. PICK k \in 1 .. Head(inbox).chars :
        LET c == CharsAfter(k)
            new == Span(wait.chars + 1, PlainEnd(c))
            plain == ~ask.base64 /\ wait.payload > 0
            opened == record.opened \/ (plain /\ ask.save /\ new # <<>>)
            first == opened /\ ~record.opened
        IN  /\ wait' = [wait EXCEPT !.chars = c]
            /\ text' = IF plain
                         THEN text \o Span(wait.chars + 1, Min({PlainEnd(c), MaxChar - 1}))
                         ELSE text
            /\ file' = IF plain /\ ask.save /\ ask.sdOk THEN file \o new ELSE file
            /\ record' = [Errors(opened) EXCEPT !.opened = opened,
                            !.partError = @ \/ (first /\ ~ask.sdOk /\ ask.last)]
            /\ header' = HeaderAfter([header EXCEPT !.wanted =
                            @ \/ (first /\ ask.sdOk /\ ~header.saved)])
  BY DEF SlowText
<1>3. /\ Reading /\ Unmarked /\ Reported /\ ask \in Asks /\ wait \in Waits
      /\ inbox \in Seq(Lines) /\ owed \in Seq(Lines) /\ text \in Seq(Nat) /\ file \in Seq(Nat)
      /\ record \in Records /\ header \in Headers /\ Count \in Nat
  BY <1>1, IInvIs DEF IInv, Types
<1>4. Head(inbox).chars \in Nat /\ k \in Nat
  <2>1. Head(inbox) \in Lines
    BY <1>1, <1>3, OneRead
  <2> QED
    BY <2>1 DEF Lines
<1>5. ~(\E n \in 0 .. 1 : Denied(n))
  BY <1>1 DEF Denied
<1>6. PICK n \in 0 .. Count + 2 : ToCome(Yes(ask), n) /\ Framed(n) /\ Kept(n)
  BY <1>3, <1>5 DEF Reading, Granted
<1>7. n \in 0 .. Count + 1 /\ n > 0
  <2>1. Len(inbox) \in Nat /\ Len(inbox) >= 1 /\ Len(owed) \in Nat
    BY <1>1, <1>3, OneRead, LenProperties
  <2>2. n + Len(inbox) + Len(owed) <= Count + 2
    BY <1>3, <1>6, YesIs DEF ToCome, Count
  <2>3. n # 0
    BY <1>1, <1>6 DEF Framed
  <2> QED
    BY <1>3, <2>1, <2>2, <2>3
<1>8. wait.payload = Payload(ask) /\ ~wait.complete
  <2>1. n # 0 /\ n # Count + 2
    BY <1>3, <1>7
  <2> QED
    BY <1>6, <2>1 DEF Framed
<1>9. PICK c \in Nat : c = CharsAfter(k) /\ wait.chars <= c
  <2>1. wait.chars \in Nat
    BY <1>3 DEF Waits
  <2>2. CharsAfter(k) = wait.chars + k \/ CharsAfter(k) = wait.chars
    BY DEF CharsAfter
  <2> QED
    BY <1>4, <2>1, <2>2
<1> DEFINE new == Span(wait.chars + 1, PlainEnd(c))
           plain == ~ask.base64 /\ wait.payload > 0
           opened == record.opened \/ (plain /\ ask.save /\ new # <<>>)
           first == opened /\ ~record.opened
           late == Errors(opened)
<1>10. /\ wait' = [wait EXCEPT !.chars = c]
       /\ text' = IF plain
                    THEN text \o Span(wait.chars + 1, Min({PlainEnd(c), MaxChar - 1}))
                    ELSE text
       /\ file' = IF plain /\ ask.save /\ ask.sdOk THEN file \o new ELSE file
       /\ record' = [late EXCEPT !.opened = opened,
                       !.partError = @ \/ (first /\ ~ask.sdOk /\ ask.last)]
       /\ header' = HeaderAfter([header EXCEPT !.wanted =
                       @ \/ (first /\ ask.sdOk /\ ~header.saved)])
  BY <1>2, <1>9
<1>11. opened \in BOOLEAN /\ first \in BOOLEAN
  BY <1>3 DEF Records
<1>12. /\ late \in Records
       /\ IF opened /\ ask.sdOk THEN ask.last => late.partError ELSE late.mailError
  <2>1. CASE opened /\ ask.sdOk
    <3>1. late = [record EXCEPT !.partError = @ \/ ask.last]
      BY <2>1 DEF Errors
    <3> HIDE DEF late, opened
    <3> QED
      BY <1>3, <2>1, <3>1, AsksAre DEF Records
  <2>2. CASE ~(opened /\ ask.sdOk)
    <3>1. late = [record EXCEPT !.mailError = TRUE]
      BY <2>2 DEF Errors
    <3> HIDE DEF late, opened
    <3> QED
      BY <1>3, <2>2, <3>1 DEF Records
  <2> QED
    BY <2>1, <2>2
<1>13. /\ wait' \in Waits' /\ wait'.complete = wait.complete /\ wait'.valid = wait.valid
  BY <1>1, <1>3, <1>9, <1>10 DEF Waits
<1> HIDE DEF late, opened, first
<1>14. /\ record' \in Records /\ record'.opened = opened
       /\ record'.mailError = late.mailError
       /\ late.partError => record'.partError
  <2>1. /\ record'.size = late.size /\ record'.opened = opened
        /\ record'.mailError = late.mailError
        /\ record'.partError = (late.partError \/ (first /\ ~ask.sdOk /\ ask.last))
    BY <1>10, <1>12 DEF Records
  <2>2. (late.partError \/ (first /\ ~ask.sdOk /\ ask.last)) \in BOOLEAN
    BY <1>11, <1>12 DEF Records
  <2>3. record' = [size |-> record'.size, opened |-> record'.opened,
                   partError |-> record'.partError, mailError |-> record'.mailError]
    BY <1>10, <1>12 DEF Records
  <2> QED
    BY <1>11, <1>12, <2>1, <2>2, <2>3 DEF Records
<1>15. header' \in Headers
  BY <1>3, <1>10 DEF HeaderAfter, Headers
<1>16. /\ text' \in Seq(Nat) /\ file' \in Seq(Nat)
       /\ TextWhole' /\ FileWhole' /\ Bounded'
  <2>1. CASE plain
    <3>1. PICK p \in Int : p = Payload(ask) - 2
      BY <1>3, PayloadIs
    <3>2. PICK m \in Int : m = MaxChar - 1
      BY NumbersAre
    <3>3. PICK x \in Nat : x = wait.chars
      BY <1>3 DEF Waits
    <3>4. /\ text' = text \o Span(x + 1, Less(Less(c, p), m))
          /\ file' = IF ask.save /\ ask.sdOk THEN file \o Span(x + 1, Less(c, p)) ELSE file
      BY <1>8, <1>10, <2>1, <3>1, <3>2, <3>3 DEF PlainEnd, Less
    <3>5. /\ text = Span(1, Less(Less(x, p), m))
          /\ file = InFile(Span(1, Less(x, p)))
      BY <1>1, <1>6, <2>1, <3>1, <3>2, <3>3 DEF Kept, PlainKept, Less
    <3>6. text' = Span(1, Less(Less(c, p), m))
      <4>1. Span(1, Less(Less(x, p), m)) \o Span(x + 1, Less(Less(c, p), m))
              = Span(1, Less(Less(c, p), m))
        <5>1. x <= c
          BY <1>9, <3>3
        <5> QED
          BY <5>1, PlainMore
      <4> QED
        BY <3>4, <3>5, <4>1
    <3>7. file' = IF ask.save /\ ask.sdOk THEN Span(1, Less(c, p)) ELSE <<>>
      <4>1. Span(1, Less(x, p)) \o Span(x + 1, Less(c, p)) = Span(1, Less(c, p))
        BY <1>9, <3>3, SpanMore DEF Less
      <4> QED
        BY <3>4, <3>5, <4>1 DEF InFile
    <3>8. /\ IsPrefix(text', Wanted) /\ (text' = <<>> \/ Len(text') < MaxChar)
          /\ IsPrefix(file', Wanted \o NoByte(0))
      BY <1>3, <2>1, <3>1, <3>2, <3>6, <3>7, PlainWhole
    <3>9. Less(c, p) \in Int /\ Less(Less(c, p), m) \in Int
      BY MinTwo DEF Less
    <3>10. text' \in Seq(Nat) /\ file' \in Seq(Nat)
      BY <3>6, <3>7, <3>9, SpanFromOne, NoLines
    <3>11. Wanted' = Wanted /\ TagFits' = TagFits /\ ~TagFits /\ ~wait'.complete
      BY <1>1, <1>8, <1>13, <2>1, SameAsk DEF TagFits
    <3>12. TextWhole'
      BY <1>1, <3>8, <3>11 DEF TextWhole
    <3>13. FileWhole'
      BY <1>1, <2>1, <3>8, <3>11 DEF FileWhole
    <3>14. Bounded'
      BY <3>8 DEF Bounded
    <3> QED
      BY <3>10, <3>12, <3>13, <3>14
  <2>2. CASE ~plain
    <3>1. text' = text /\ file' = file
      BY <1>10, <2>2
    <3> QED
      BY <1>1, <1>3, <1>13, <3>1, ReadingWhole, FinishedKept
  <2> QED
    BY <2>1, <2>2
<1>17. Types'
  <2>1. /\ stage' \in {"first", "lines", "done", "crashed"} /\ conn' \in {"up", "down"}
        /\ owed' \in Seq(Lines) /\ inbox' \in Seq(Lines) /\ ask' \in Asks'
        /\ out' \in Nat /\ total' \in 0 .. ask'.declared + 1 /\ counted' \in Nat
    BY <1>1, NoLines DEF IInv, Types
  <2> QED
    BY <1>13, <1>14, <1>15, <1>16, <2>1 DEF Types
<1>18. Reported'
  <2>1. ~ask.report
    BY <1>1, <1>3, AsksAre
  <2> QED
    BY <1>1, <1>3, <2>1 DEF Reported
<1>19. SizeIsFile' /\ CutIsTold'
  <2>1. SizeIsFile'
    BY <1>1 DEF SizeIsFile
  <2>2. CutIsTold'
    BY <1>1, <1>8, <1>12, <1>13, <1>14 DEF CutIsTold, Cut, Over
  <2> QED
    BY <2>1, <2>2
<1> QED
  BY <1>1, <1>16, <1>17, <1>18, <1>19 DEF IInv

-----------------------------------------------------------------------------
\* The theorems.

LEMMA NextKeeps == ASSUME IInv, [Next]_vars PROVE IInv'
BY ReadLineKeeps, DeliverKeeps, DisconnectKeeps, StutterKeeps, FirstByteKeeps,
   NullStreamKeeps, TimeOutKeeps, EndWaitKeeps, SlowTextKeeps DEF Next, Client

\* What is kept is right at every moment, not only when the wait is over.
LEMMA AlwaysWhole ==
    ASSUME IInv
    PROVE  TextWhole /\ FileWhole /\ Bounded
<1>1. ask \in Asks /\ wait \in Waits
  BY DEF IInv, Types
<1> QED
  BY <1>1, ReadingWhole DEF IInv

LEMMA IInvTypes == IInv => TypeOK
<1> SUFFICES ASSUME IInv PROVE TypeOK
  OBVIOUS
<1>1. Types /\ Reported /\ Bounded
  BY AlwaysWhole DEF IInv
<1>2. counted \in 0 .. Len(file)
  <2>1. Len(file) \in Nat
    BY <1>1, LenProperties DEF Types
  <2> QED
    BY <1>1, <2>1 DEF Reported
<1> QED
  BY <1>1, <1>2 DEF TypeOK, Types, Waits, Records, Headers, Bounded

LEMMA IInvText == IInv => TextIsOwn
BY AlwaysWhole DEF TextWhole, TextIsOwn, Over, WithTag

LEMMA IInvFile == IInv => FileIsPart
<1> SUFFICES ASSUME IInv PROVE FileIsPart
  OBVIOUS
<1>1. FileWhole
  BY AlwaysWhole
<1>2. CASE ask.type = "TEXT"
  BY <1>1, <1>2 DEF FileWhole, FileIsPart, Over
<1>3. CASE ask.type # "TEXT" /\ ask.type = "ATTACHMENT" /\ ask.base64
  BY <1>1, <1>3 DEF FileWhole, FileIsPart, Over
<1>4. CASE ask.type # "TEXT" /\ ~(ask.type = "ATTACHMENT" /\ ask.base64)
  BY <1>1, <1>4 DEF FileWhole, FileIsPart
<1> QED
  BY <1>2, <1>3, <1>4

LEMMA IInvSize == IInv => SizeIsFile
BY DEF IInv, SizeIsFile, Over

LEMMA IInvCut == IInv => CutIsTold
BY DEF IInv, CutIsTold, Cut, Over

\* The inductive invariant holds of every fetch of a part, whatever the part,
\* the server and the link.
THEOREM Inductive == Spec => []IInv
<1>1. Init => IInv
  BY InitIInv
<1>2. IInv /\ [Next]_vars => IInv'
  BY NextKeeps
<1> QED
  BY <1>1, <1>2, PTL DEF Spec

\* _text stays within _message_buffer_size, unless its part is empty and it
\* takes in the tagged line, and the progress report never counts more than the
\* file has, for lines of any number and length.
THEOREM TypeCorrect == Spec => []TypeOK
BY Inductive, IInvTypes, PTL

\* A text in memory is the beginning of what is kept of its part - all of it, but
\* for the last two characters of a text that is not base64 -, and all of that
\* once the part came and there is room, with what the tagged line decodes to
\* after a base64 text that leaves it room and nothing else, however the wait
\* ends and whether the literal ends with a line end or not.
THEOREM TextIsItsOwn == Spec => []TextIsOwn
BY Inductive, IInvText, PTL

\* A file holds the bytes of its part: a text all that is kept of it, however
\* long, and behind a base64 text nothing but the parenthesis, if it is saved as
\* it came, and the tagged line; an attachment as far as its declared size lets
\* it be written, without the tagged line unless that still fits.
THEOREM FileIsItsPart == Spec => []FileIsPart
BY Inductive, IInvFile, PTL

\* The size an attachment is given after a download whose progress is reported
\* is the length of its file.
THEOREM SizeIsOfFile == Spec => []SizeIsFile
BY Inductive, IInvSize, PTL

\* A text that came too slowly and was cut is told as an error, of the mail or,
\* if it goes to a file and is the last of its mail, of the part, and a text that
\* came whole is not called one.
THEOREM CutsAreTold == Spec => []CutIsTold
BY Inductive, IInvCut, PTL
=============================================================================
