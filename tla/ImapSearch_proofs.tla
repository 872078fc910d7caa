------------------------- MODULE ImapSearch_proofs -------------------------
(***************************************************************************)
(* Proofs about ImapSearch, for every search limit and every reply.        *)
(*                                                                         *)
(* The window kept by waitIMAPResponse is an invariant of the words read   *)
(* so far: with h numbers read, _msgNum holds the last Lesser(limit, h) of *)
(* them, or the first ones, and _searchCount has counted what was pushed.  *)
(* The sort at the end of the line keeps the elements and their number.    *)
(***************************************************************************)
EXTENDS ImapSearch, SequenceTheorems, TLAPS

\* The i-th number of a search line, and how many there are among its first
\* n words.
NumberAt(line, i) == line[2 + i].value
HitsAmong(n) == IF n <= 2 THEN 0 ELSE n - 2

\* s is the last, or the first, of h numbers of the line, up to the limit.
IsLast(s, line, h) ==
    /\ Len(s) = Lesser(limit, h)
    /\ \A k \in 1 .. Len(s) : s[k] = NumberAt(line, (h - Len(s)) + k)

IsFirst(s, line, h) ==
    /\ Len(s) = Lesser(limit, h)
    /\ \A k \in 1 .. Len(s) : s[k] = NumberAt(line, k)

\* What is known of _msgNum and _searchCount after h numbers of the line.
Kept(s, c, line, h) ==
    /\ recent => IsLast(s, line, h) /\ c = h
    /\ ~recent /\ limit > 0 => IsFirst(s, line, h)

\* The same once the line is read and sorted.
Sorted(s, c, line, h) ==
    /\ recent =>
         /\ Len(s) = Lesser(limit, h)
         /\ Descending(s)
         /\ {s[k] : k \in DOMAIN s}
              = {NumberAt(line, i) : i \in (h - Len(s) + 1) .. h}
         /\ c = h
    /\ ~recent /\ limit > 0 => IsFirst(s, line, h)

Busy == phase \in {"reading", "found"}

Window ==
    /\ phase = "sent" => lf = 0 /\ at = 0 /\ msgNum = <<>> /\ count = 0
    /\ phase = "found" => lf >= 1
    /\ phase = "reading" /\ lf = 0 => at < Len(reply[1])
    /\ Busy /\ ~recent => count = Len(msgNum)
    /\ Busy /\ lf = 0 /\ SearchLine(reply[1]) =>
          Kept(msgNum, count, reply[1], HitsAmong(at))
    /\ Busy /\ lf >= 1 /\ SearchLine(reply[1]) =>
          Sorted(msgNum, count, reply[1], Hits(reply[1]))

IInv == TypeOK /\ WithinLimit /\ Window

-----------------------------------------------------------------------------
\* A sequence after push_back.
LEMMA Pushed ==
    ASSUME NEW s \in Seq(Nat), NEW v \in Nat
    PROVE  /\ Append(s, v) \in Seq(Nat) /\ Append(s, v) # <<>>
           /\ Len(Append(s, v)) = Len(s) + 1
           /\ \A i \in 1 .. Len(s) : Append(s, v)[i] = s[i]
           /\ Append(s, v)[Len(s) + 1] = v
  OBVIOUS

\* A sequence after erase(begin()).
LEMMA Dropped ==
    ASSUME NEW s \in Seq(Nat), s # <<>>
    PROVE  /\ Tail(s) \in Seq(Nat) /\ Len(Tail(s)) = Len(s) - 1
           /\ \A i \in 1 .. Len(Tail(s)) : Tail(s)[i] = s[i + 1]
  OBVIOUS

\* After both, the number pushed is the last one.
LEMMA Slid ==
    ASSUME NEW s \in Seq(Nat), NEW v \in Nat
    PROVE  /\ Tail(Append(s, v)) \in Seq(Nat) /\ Len(Tail(Append(s, v))) = Len(s)
           /\ \A i \in 1 .. (Len(s) - 1) : Tail(Append(s, v))[i] = s[i + 1]
           /\ Len(s) > 0 => Tail(Append(s, v))[Len(s)] = v
<1> DEFINE a == Append(s, v)
<1>1. /\ a \in Seq(Nat) /\ a # <<>> /\ Len(a) = Len(s) + 1
      /\ \A i \in 1 .. Len(s) : a[i] = s[i]
      /\ a[Len(s) + 1] = v
  BY Pushed
<1>2. Len(s) \in Nat
  OBVIOUS
<1> HIDE DEF a
<1>3. /\ Tail(a) \in Seq(Nat) /\ Len(Tail(a)) = Len(s)
      /\ \A i \in 1 .. Len(s) : Tail(a)[i] = a[i + 1]
  BY <1>1, <1>2, Dropped
<1>4. \A i \in 1 .. (Len(s) - 1) : Tail(a)[i] = s[i + 1]
  BY <1>1, <1>2, <1>3
<1>5. Len(s) > 0 => Tail(a)[Len(s)] = v
  BY <1>1, <1>2, <1>3
<1> QED
  BY <1>3, <1>4, <1>5 DEF a

\* Sorting keeps the elements and their number.
LEMMA SortKeeps ==
    ASSUME NEW s \in Seq(Nat), NEW t, Arranges(t, s)
    PROVE  /\ t \in Seq(Nat) /\ Len(t) = Len(s)
           /\ {t[k] : k \in DOMAIN t} = {s[k] : k \in DOMAIN s}
<1>1. PICK p \in [DOMAIN s -> DOMAIN s] :
        /\ \A j \in DOMAIN s : \E i \in DOMAIN s : p[i] = j
        /\ t = [i \in DOMAIN s |-> s[p[i]]]
  BY DEF Arranges
<1>2. DOMAIN s = 1 .. Len(s)
  OBVIOUS
<1>0. s \in [1 .. Len(s) -> Nat] /\ Len(s) \in Nat
  BY LenProperties
<1>3. t \in [1 .. Len(s) -> Nat]
  BY <1>0, <1>1, <1>2
<1>4. t \in Seq(Nat) /\ Len(t) = Len(s) /\ DOMAIN t = DOMAIN s
  <2>1. t \in Seq(Nat)
    BY <1>0, <1>3
  <2>2. DOMAIN t = 1 .. Len(s)
    BY <1>3
  <2>3. Len(t) = Len(s)
    BY <1>0, <2>1, <2>2
  <2> QED
    BY <1>2, <2>1, <2>2, <2>3
<1>5. \A k \in DOMAIN t : \E i \in DOMAIN s : t[k] = s[i]
  BY <1>1, <1>4
<1>6. \A i \in DOMAIN s : \E k \in DOMAIN t : t[k] = s[i]
  BY <1>1, <1>4
<1> QED
  BY <1>4, <1>5, <1>6

-----------------------------------------------------------------------------
\* The number h + 1 of the line, pushed on the last of h numbers.
LEMMA WindowSlides ==
    ASSUME limit \in Nat, NEW s \in Seq(Nat), NEW h \in Nat, NEW line,
           NumberAt(line, h + 1) \in Nat, IsLast(s, line, h),
           NEW t,
           Len(s) + 1 > limit => t = Tail(Append(s, NumberAt(line, h + 1))),
           ~(Len(s) + 1 > limit) => t = Append(s, NumberAt(line, h + 1))
    PROVE  IsLast(t, line, h + 1)
<1> DEFINE v == NumberAt(line, h + 1)
<1>0. Len(s) \in Nat /\ Len(s) <= h /\ v \in Nat
  BY DEF Lesser, IsLast
<1>s. \A k \in 1 .. Len(s) : s[k] = NumberAt(line, (h - Len(s)) + k)
  BY DEF IsLast
<1>1. CASE Len(s) + 1 > limit
  <2>1. Len(s) = limit
    BY <1>0, <1>1 DEF Lesser, IsLast
  <2>2. t = Tail(Append(s, v))
    BY <1>1
  <2>3. /\ t \in Seq(Nat) /\ Len(t) = Len(s)
        /\ \A i \in 1 .. (Len(s) - 1) : t[i] = s[i + 1]
        /\ Len(s) > 0 => t[Len(s)] = v
    BY <1>0, <2>2, Slid
  <2>4. Lesser(limit, h + 1) = limit
    BY <1>0, <2>1 DEF Lesser
  <2>5. ASSUME NEW k \in 1 .. Len(t)
        PROVE  t[k] = NumberAt(line, (h + 1 - Len(t)) + k)
    <3>1. CASE k = Len(s)
      <4>1. (h + 1 - Len(t)) + k = h + 1
        BY <3>1, <2>3, <1>0
      <4> QED
        BY <3>1, <4>1, <2>3, <1>0
    <3>2. CASE k # Len(s)
      <4>0. k \in 1 .. Len(s)
        BY <2>3
      <4>a. k \in 1 .. (Len(s) - 1)
        BY <3>2, <4>0, <1>0
      <4>1. k \in 1 .. (Len(s) - 1) /\ k + 1 \in 1 .. Len(s)
        BY <4>a, <1>0
      <4>2. t[k] = s[k + 1] /\ s[k + 1] = NumberAt(line, (h - Len(s)) + (k + 1))
        BY <1>s, <4>1, <2>3
      <4>3. (h - Len(s)) + (k + 1) = (h + 1 - Len(t)) + k
        BY <4>1, <2>3, <1>0
      <4> QED
        BY <4>2, <4>3
    <3> QED
      BY <3>1, <3>2
  <2> QED
    BY <2>1, <2>3, <2>4, <2>5 DEF IsLast
<1>2. CASE ~(Len(s) + 1 > limit)
  <2>1. Len(s) = h /\ h + 1 <= limit
    BY <1>0, <1>2 DEF Lesser, IsLast
  <2>2. t = Append(s, v)
    BY <1>2
  <2>3. /\ t \in Seq(Nat) /\ Len(t) = Len(s) + 1
        /\ \A i \in 1 .. Len(s) : t[i] = s[i]
        /\ t[Len(s) + 1] = v
    BY <1>0, <2>2, Pushed
  <2>4. Lesser(limit, h + 1) = h + 1
    BY <2>1 DEF Lesser
  <2>5. ASSUME NEW k \in 1 .. Len(t)
        PROVE  t[k] = NumberAt(line, (h + 1 - Len(t)) + k)
    <3>1. (h + 1 - Len(t)) + k = k
      BY <2>1, <2>3
    <3>2. CASE k = Len(s) + 1
      <4>1. t[k] = v
        BY <3>2, <2>3
      <4>2. k = h + 1
        BY <3>2, <2>1
      <4> QED
        BY <3>1, <4>1, <4>2
    <3>3. CASE k \in 1 .. Len(s)
      <4>1. (h - Len(s)) + k = k
        BY <2>1, <3>3
      <4> QED
        BY <1>s, <3>1, <3>3, <4>1, <2>3
    <3> QED
      BY <3>2, <3>3, <2>3, <1>0
  <2> QED
    BY <2>1, <2>3, <2>4, <2>5 DEF IsLast
<1> QED
  BY <1>1, <1>2

\* The same for the first numbers: pushed while there is room, else left.
LEMMA WindowFills ==
    ASSUME limit \in Nat, NEW s \in Seq(Nat), NEW h \in Nat, NEW line,
           NumberAt(line, h + 1) \in Nat, IsFirst(s, line, h),
           NEW t,
           Len(s) < limit => t = Append(s, NumberAt(line, h + 1)),
           ~(Len(s) < limit) => t = s
    PROVE  IsFirst(t, line, h + 1)
<1> DEFINE v == NumberAt(line, h + 1)
<1>0. Len(s) \in Nat /\ Len(s) <= h /\ Len(s) <= limit
  BY DEF Lesser, IsFirst
<1>1. CASE Len(s) < limit
  <2>1. Len(s) = h /\ Lesser(limit, h + 1) = h + 1
    BY <1>0, <1>1 DEF Lesser, IsFirst
  <2>2. t = Append(s, v)
    BY <1>1
  <2>3. /\ t \in Seq(Nat) /\ Len(t) = Len(s) + 1
        /\ \A i \in 1 .. Len(s) : t[i] = s[i]
        /\ t[Len(s) + 1] = v
    BY <1>0, <2>2, Pushed
  <2>4. ASSUME NEW k \in 1 .. Len(t)
        PROVE  t[k] = NumberAt(line, k)
    <3>1. CASE k = Len(s) + 1
      BY <3>1, <2>1, <2>3
    <3>2. CASE k \in 1 .. Len(s)
      BY <3>2, <2>3 DEF IsFirst
    <3> QED
      BY <3>1, <3>2, <2>3, <1>0
  <2> QED
    BY <2>1, <2>3, <2>4 DEF IsFirst
<1>2. CASE ~(Len(s) < limit)
  <2>1. Len(s) = limit /\ Lesser(limit, h + 1) = limit
    BY <1>0, <1>2 DEF Lesser, IsFirst
  <2>2. t = s
    BY <1>2
  <2> QED
    BY <2>1, <2>2 DEF IsFirst
<1> QED
  BY <1>1, <1>2

\* What Collected makes of the window, by cases.
LEMMA CollectedCases ==
    ASSUME msgNum \in Seq(Nat), limit \in Nat, recent \in BOOLEAN,
           (recent \/ limit > 0) => Len(msgNum) <= limit,
           NEW word \in Words
    PROVE  /\ ~IsNumber(word) => Collected(word) = msgNum /\ Counted(word) = count
           /\ IsNumber(word) /\ recent => Counted(word) = count + 1
           /\ IsNumber(word) /\ recent /\ Len(msgNum) + 1 > limit =>
                 Collected(word) = Tail(Append(msgNum, word.value))
           /\ IsNumber(word) /\ recent /\ ~(Len(msgNum) + 1 > limit) =>
                 Collected(word) = Append(msgNum, word.value)
           /\ IsNumber(word) /\ ~recent /\ limit > 0 /\ Len(msgNum) < limit =>
                 /\ Collected(word) = Append(msgNum, word.value)
                 /\ Counted(word) = count + 1
           /\ IsNumber(word) /\ ~recent /\ limit > 0 /\ ~(Len(msgNum) < limit) =>
                 Collected(word) = msgNum /\ Counted(word) = count
           /\ IsNumber(word) /\ ~recent /\ limit = 0 =>
                 \/ /\ Collected(word) = Append(msgNum, word.value)
                    /\ Counted(word) = count + 1
                 \/ Collected(word) = msgNum /\ Counted(word) = count
<1>0. Len(msgNum) \in Nat
  OBVIOUS
<1>1. ~IsNumber(word) => Collected(word) = msgNum /\ Counted(word) = count
  BY DEF Collected, Counted
<1>2. recent => Len(msgNum) <= Top
  BY <1>0 DEF Top
<1>3. ~recent /\ limit > 0 => (Len(msgNum) <= Top <=> Len(msgNum) < limit)
  BY <1>0 DEF Top
<1>4. ASSUME IsNumber(word), Len(msgNum) <= Top
      PROVE  /\ Collected(word) = Keep(word.value)
             /\ Counted(word) = count + 1
  BY <1>4 DEF Collected, Counted
<1>5. ASSUME IsNumber(word), ~(Len(msgNum) <= Top)
      PROVE  Collected(word) = msgNum /\ Counted(word) = count
  BY <1>5 DEF Collected, Counted
<1>6. recent /\ Len(msgNum) + 1 > limit =>
        Keep(word.value) = Tail(Append(msgNum, word.value))
  BY DEF Keep
<1>7. ~recent \/ ~(Len(msgNum) + 1 > limit) =>
        Keep(word.value) = Append(msgNum, word.value)
  BY DEF Keep
<1>8. CASE recent
  BY <1>1, <1>2, <1>4, <1>6, <1>7, <1>8
<1>9. CASE ~recent
  <2>1. CASE limit > 0
    BY <1>1, <1>3, <1>4, <1>5, <1>7, <1>9, <2>1
  <2>2. CASE limit = 0
    BY <1>1, <1>4, <1>5, <1>7, <1>9, <2>2
  <2> QED
    BY <2>1, <2>2
<1> QED
  BY <1>8, <1>9

\* One word keeps the types, the limit and, without the recent sort, the
\* count equal to the length.
LEMMA Collects ==
    ASSUME msgNum \in Seq(Nat), count \in Nat, limit \in Nat, recent \in BOOLEAN,
           (recent \/ limit > 0) => Len(msgNum) <= limit,
           NEW word \in Words
    PROVE  /\ Collected(word) \in Seq(Nat) /\ Counted(word) \in Nat
           /\ (recent \/ limit > 0) => Len(Collected(word)) <= limit
           /\ ~recent /\ count = Len(msgNum) =>
                 Counted(word) = Len(Collected(word))
<1> DEFINE v == word.value
           p == Append(msgNum, v)
<1>0. Len(msgNum) \in Nat /\ v \in Nat
  BY DEF Words
<1>1. p \in Seq(Nat) /\ Len(p) = Len(msgNum) + 1
  BY <1>0, Pushed
<1>2. Tail(p) \in Seq(Nat) /\ Len(Tail(p)) = Len(msgNum)
  BY <1>0, Slid
<1>3. CASE ~IsNumber(word)
  BY <1>3, CollectedCases
<1>4. CASE IsNumber(word) /\ recent
  <2>0. Counted(word) = count + 1
    BY <1>4, CollectedCases
  <2>1. CASE Len(msgNum) + 1 > limit
    <3>1. Collected(word) = Tail(p)
      BY <1>4, <2>1, CollectedCases
    <3> QED
      BY <1>4, <2>0, <3>1, <1>2
  <2>2. CASE ~(Len(msgNum) + 1 > limit)
    <3>1. Collected(word) = p
      BY <1>4, <2>2, CollectedCases
    <3> QED
      BY <1>0, <1>4, <2>0, <2>2, <3>1, <1>1
  <2> QED
    BY <2>1, <2>2
<1>5. CASE IsNumber(word) /\ ~recent
  <2>1. \/ /\ Collected(word) = p /\ Counted(word) = count + 1
           /\ limit > 0 => Len(msgNum) < limit
        \/ Collected(word) = msgNum /\ Counted(word) = count
    BY <1>5, <1>0, CollectedCases
  <2>2. CASE /\ Collected(word) = p /\ Counted(word) = count + 1
             /\ limit > 0 => Len(msgNum) < limit
    BY <1>0, <1>1, <1>5, <2>2
  <2>3. CASE Collected(word) = msgNum /\ Counted(word) = count
    BY <1>5, <2>3
  <2> QED
    BY <2>1, <2>2, <2>3
<1> QED
  BY <1>3, <1>4, <1>5

\* A number of the line takes Kept from h to h + 1.
LEMMA KeptGrows ==
    ASSUME msgNum \in Seq(Nat), count \in Nat, limit \in Nat, recent \in BOOLEAN,
           (recent \/ limit > 0) => Len(msgNum) <= limit,
           NEW line, NEW h \in Nat, NEW word \in Words,
           IsNumber(word), word.value = NumberAt(line, h + 1),
           Kept(msgNum, count, line, h)
    PROVE  Kept(Collected(word), Counted(word), line, h + 1)
<1>c. PICK c : c = Collected(word)
  OBVIOUS
<1>0. NumberAt(line, h + 1) \in Nat /\ Len(msgNum) \in Nat
  BY DEF Words
<1>1. ASSUME recent
      PROVE  IsLast(c, line, h + 1) /\ Counted(word) = h + 1
  <2>1. IsLast(msgNum, line, h) /\ count = h
    BY <1>1 DEF Kept
  <2>2. /\ Len(msgNum) + 1 > limit => c = Tail(Append(msgNum, NumberAt(line, h + 1)))
        /\ ~(Len(msgNum) + 1 > limit) => c = Append(msgNum, NumberAt(line, h + 1))
        /\ Counted(word) = count + 1
    BY <1>1, <1>c, CollectedCases
  <2>3. IsLast(c, line, h + 1)
    BY <1>0, <2>1, <2>2, WindowSlides
  <2> QED
    BY <2>1, <2>2, <2>3
<1>2. ASSUME ~recent, limit > 0
      PROVE  IsFirst(c, line, h + 1)
  <2>1. IsFirst(msgNum, line, h)
    BY <1>2 DEF Kept
  <2>2. /\ Len(msgNum) < limit => c = Append(msgNum, NumberAt(line, h + 1))
        /\ ~(Len(msgNum) < limit) => c = msgNum
    BY <1>2, <1>c, CollectedCases
  <2> QED
    BY <1>0, <2>1, <2>2, WindowFills
<1> QED
  BY <1>c, <1>1, <1>2 DEF Kept

\* Where the numbers of a search line are.
LEMMA SearchWords ==
    ASSUME NEW line \in Seq(Words), SearchLine(line),
           NEW n \in Nat, n + 1 <= Len(line)
    PROVE  /\ n < 2 => /\ ~IsNumber(line[n + 1]) /\ line[n + 1].kind # "empty"
                       /\ HitsAmong(n) = 0 /\ HitsAmong(n + 1) = 0
           /\ n >= 2 /\ line[n + 1].kind # "empty" =>
                 /\ IsNumber(line[n + 1])
                 /\ line[n + 1].value = NumberAt(line, HitsAmong(n) + 1)
                 /\ HitsAmong(n + 1) = HitsAmong(n) + 1
           /\ line[n + 1].kind # "bad"
           /\ n + 1 < Len(line) => line[n + 1].kind # "empty"
           /\ n + 1 = Len(line) =>
                 Hits(line) = IF line[n + 1].kind = "empty" THEN HitsAmong(n)
                                                           ELSE HitsAmong(n + 1)
<1>0. Len(line) \in Nat /\ Len(line) >= 2
  BY DEF SearchLine
<1>1. n = 0 \/ n = 1 \/ n >= 2
  OBVIOUS
<1>2. CASE n = 0 \/ n = 1
  <2>1. line[n + 1].kind = "star" \/ line[n + 1].kind = "search"
    <3>1. line[1].kind = "star" /\ line[2].kind = "search"
      BY DEF SearchLine
    <3>2. n + 1 = 1 \/ n + 1 = 2
      BY <1>2
    <3> QED
      BY <3>1, <3>2
  <2>2. /\ ~IsNumber(line[n + 1])
        /\ line[n + 1].kind # "empty" /\ line[n + 1].kind # "bad"
    BY <2>1 DEF IsNumber
  <2>3. HitsAmong(n) = 0 /\ HitsAmong(n + 1) = 0 /\ n < 2
    BY <1>2 DEF HitsAmong
  <2>4. n + 1 = Len(line) => Hits(line) = 0
    BY <1>0, <1>2, <2>2 DEF Hits
  <2> QED
    BY <2>2, <2>3, <2>4
<1>3. CASE n >= 2
  <2>1. n + 1 \in 3 .. Len(line)
    BY <1>0, <1>3
  <2>2. line[n + 1].kind = "number" \/ (line[n + 1].kind = "empty" /\ n + 1 = Len(line))
    BY <2>1 DEF SearchLine
  <2>3. HitsAmong(n) = n - 2 /\ HitsAmong(n + 1) = n - 1
    BY <1>3 DEF HitsAmong
  <2>4. 2 + (HitsAmong(n) + 1) = n + 1
    BY <2>3
  <2>5. line[n + 1].value = NumberAt(line, HitsAmong(n) + 1)
    BY <2>4 DEF NumberAt
  <2>6. n + 1 = Len(line) =>
          Hits(line) = IF line[n + 1].kind = "empty" THEN HitsAmong(n)
                                                    ELSE HitsAmong(n + 1)
    BY <2>3 DEF Hits
  <2>7. /\ line[n + 1].kind # "bad"
        /\ line[n + 1].kind # "empty" => IsNumber(line[n + 1])
        /\ n + 1 < Len(line) => line[n + 1].kind # "empty"
    BY <2>2, <1>0 DEF IsNumber
  <2>8. HitsAmong(n + 1) = HitsAmong(n) + 1 /\ ~(n < 2)
    BY <1>3, <2>3
  <2> QED
    BY <2>5, <2>6, <2>7, <2>8
<1> QED
  BY <1>1, <1>2, <1>3

\* Kept holds from one word of a search line to the next.
LEMMA KeptAfterWord ==
    ASSUME msgNum \in Seq(Nat), count \in Nat, limit \in Nat, recent \in BOOLEAN,
           (recent \/ limit > 0) => Len(msgNum) <= limit,
           NEW line \in Seq(Words), SearchLine(line),
           NEW n \in Nat, n + 1 <= Len(line), line[n + 1].kind # "empty",
           Kept(msgNum, count, line, HitsAmong(n))
    PROVE  Kept(Collected(line[n + 1]), Counted(line[n + 1]), line, HitsAmong(n + 1))
<1>0. line[n + 1] \in Words /\ HitsAmong(n) \in Nat
  BY DEF HitsAmong
<1>1. CASE n < 2
  <2>1. ~IsNumber(line[n + 1]) /\ HitsAmong(n) = HitsAmong(n + 1)
    BY <1>1, SearchWords
  <2>2. /\ Collected(line[n + 1]) = msgNum
        /\ Counted(line[n + 1]) = count
    BY <1>0, <2>1, CollectedCases
  <2> QED
    BY <2>1, <2>2
<1>2. CASE n >= 2
  <2>1. /\ IsNumber(line[n + 1])
        /\ line[n + 1].value = NumberAt(line, HitsAmong(n) + 1)
        /\ HitsAmong(n + 1) = HitsAmong(n) + 1
    BY <1>2, SearchWords
  <2> QED
    BY <1>0, <2>1, KeptGrows
<1> QED
  BY <1>1, <1>2

\* The sort at the end of the line takes Kept to Sorted.
LEMMA SortedAfterLine ==
    ASSUME limit \in Nat, recent \in BOOLEAN,
           NEW s \in Seq(Nat), NEW c, NEW line, NEW h \in Nat,
           Kept(s, c, line, h), NEW t, InOrder(t, s)
    PROVE  /\ t \in Seq(Nat) /\ Len(t) = Len(s)
           /\ Sorted(t, c, line, h)
<1>0. Len(s) \in Nat /\ DOMAIN s = 1 .. Len(s)
  OBVIOUS
<1>1. CASE recent
  <2>1. Arranges(t, s) /\ Descending(t)
    BY <1>1 DEF InOrder
  <2>2. /\ t \in Seq(Nat) /\ Len(t) = Len(s)
        /\ {t[k] : k \in DOMAIN t} = {s[k] : k \in DOMAIN s}
    BY <2>1, SortKeeps
  <2>3. /\ Len(s) = Lesser(limit, h) /\ c = h
        /\ \A k \in 1 .. Len(s) : s[k] = NumberAt(line, (h - Len(s)) + k)
    BY <1>1 DEF Kept, IsLast
  <2>4. Len(s) <= h
    BY <2>3 DEF Lesser
  <2>5. {s[k] : k \in DOMAIN s} = {NumberAt(line, i) : i \in (h - Len(s) + 1) .. h}
    <3>1. ASSUME NEW k \in DOMAIN s
          PROVE  \E i \in (h - Len(s) + 1) .. h : s[k] = NumberAt(line, i)
      <4>1. (h - Len(s)) + k \in (h - Len(s) + 1) .. h
        BY <1>0, <2>4
      <4> QED
        BY <4>1, <1>0, <2>3
    <3>2. ASSUME NEW i \in (h - Len(s) + 1) .. h
          PROVE  \E k \in DOMAIN s : s[k] = NumberAt(line, i)
      <4>1. i - (h - Len(s)) \in 1 .. Len(s) /\ (h - Len(s)) + (i - (h - Len(s))) = i
        BY <1>0, <2>4
      <4>2. s[i - (h - Len(s))] = NumberAt(line, (h - Len(s)) + (i - (h - Len(s))))
        BY <4>1, <2>3
      <4>3. s[i - (h - Len(s))] = NumberAt(line, i)
        BY <4>1, <4>2
      <4> QED
        BY <4>1, <4>3, <1>0
    <3> QED
      BY <3>1, <3>2
  <2> QED
    BY <1>1, <2>1, <2>2, <2>3, <2>5 DEF Sorted
<1>2. CASE ~recent
  BY <1>2 DEF InOrder, Sorted, Kept
<1> QED
  BY <1>1, <1>2

\* What an answer looks like.
LEMMA ReplyShape ==
    ASSUME NEW r \in Replies
    PROVE  /\ Len(r) \in Nat /\ Len(r) >= 1
           /\ r[1] \in Seq(Words) /\ Len(r[1]) \in Nat /\ Len(r[1]) >= 1
<1>1. r \in Seq(Seq(Words) \ {<<>>}) /\ r # <<>>
  BY ReplyAssumption
<1>2. Len(r) \in Nat /\ Len(r) >= 1
  BY <1>1
<1>3. r[1] \in Seq(Words) \ {<<>>}
  BY <1>1, <1>2
<1>4. r[1] \in Seq(Words) /\ r[1] # <<>>
  BY <1>3
<1> QED
  BY <1>2, <1>4

-----------------------------------------------------------------------------
LEMMA InvInit == Init => IInv
<1> SUFFICES ASSUME Init PROVE IInv
  OBVIOUS
<1>1. limit \in 0 .. LimitMax
  BY LimitAssumption DEF Init
<1>2. TypeOK
  BY <1>1 DEF Init, TypeOK, Phases
<1> QED
  BY <1>2 DEF Init, IInv, WithinLimit, Window, Busy

\* The types and the window in the middle of a line.
LEMMA InvReadWord ==
    ASSUME IInv, ReadWord PROVE IInv'
<1> DEFINE line == reply[1]
           word == line[at + 1]
<1>1. /\ phase = "reading" /\ lf = 0 /\ at + 1 < Len(line)
      /\ UNCHANGED <<limit, recent, reply, lf>>
  BY DEF ReadWord, Line, settings
<1>2. /\ msgNum \in Seq(Nat) /\ count \in Nat /\ recent \in BOOLEAN /\ at \in Nat
      /\ limit \in Nat /\ limit \in 0 .. LimitMax /\ reply \in Replies
      /\ (recent \/ limit > 0) => Len(msgNum) <= limit
  BY <1>1, LimitAssumption DEF IInv, TypeOK, WithinLimit
<1>3. /\ line \in Seq(Words) /\ Len(line) \in Nat /\ Len(reply) \in Nat
  BY <1>2, ReplyShape
<1>4. word \in Words
  BY <1>1, <1>2, <1>3
<1>5. CASE word.kind = "bad"
  <2>1. phase' = "failed" /\ UNCHANGED <<at, msgNum, count>>
    BY <1>1, <1>5 DEF ReadWord, Line
  <2> QED
    BY <1>1, <2>1 DEF IInv, TypeOK, WithinLimit, Window, Busy, Phases
<1>6. CASE word.kind # "bad"
  <2>1. /\ msgNum' = Collected(word) /\ count' = Counted(word)
        /\ at' = at + 1 /\ phase' = "reading"
    BY <1>1, <1>6 DEF ReadWord, Line
  <2> HIDE DEF word
  <2>2. /\ msgNum' \in Seq(Nat) /\ count' \in Nat
        /\ (recent \/ limit > 0) => Len(msgNum') <= limit
        /\ ~recent /\ count = Len(msgNum) => count' = Len(msgNum')
    BY <1>2, <1>4, <2>1, Collects
  <2>3. TypeOK'
    BY <1>1, <1>2, <1>3, <2>1, <2>2 DEF IInv, TypeOK, Phases
  <2>4. WithinLimit'
    BY <1>1, <2>2 DEF WithinLimit
  <2>5. ASSUME SearchLine(line)
        PROVE  Kept(msgNum', count', line, HitsAmong(at + 1))
    <3>1. Kept(msgNum, count, line, HitsAmong(at))
      BY <1>1, <2>5 DEF IInv, Window, Busy
    <3> HIDE DEF line
    <3>a. at \in Nat /\ line \in Seq(Words) /\ at + 1 <= Len(line) /\ at + 1 < Len(line)
      BY <1>1, <1>2, <1>3
    <3>2. line[at + 1].kind # "empty"
      BY <2>5, <3>a, SearchWords
    <3>3. Kept(Collected(line[at + 1]), Counted(line[at + 1]), line, HitsAmong(at + 1))
      BY <1>2, <2>5, <3>a, <3>1, <3>2, KeptAfterWord
    <3> QED
      BY <2>1, <3>3 DEF word
  <2>6. Window'
    <3>1. Busy /\ (~recent => count = Len(msgNum))
      BY <1>1 DEF IInv, Window, Busy
    <3>2. SearchLine(line) => Kept(msgNum, count, line, HitsAmong(at))'
      BY <1>1, <2>1, <2>5 DEF Kept, IsLast, IsFirst
    <3> QED
      BY <1>1, <1>2, <1>3, <2>1, <2>2, <3>1, <3>2 DEF Window, Busy
  <2> QED
    BY <2>3, <2>4, <2>6 DEF IInv
<1> QED
  BY <1>5, <1>6

\* The last word of the line and the sort.
LEMMA InvEndFirstLine ==
    ASSUME IInv, EndFirstLine PROVE IInv'
<1> DEFINE line == reply[1]
           word == line[at + 1]
<1>1. /\ phase = "reading" /\ lf = 0 /\ at + 1 = Len(line)
      /\ UNCHANGED <<limit, recent, reply, phase>> /\ lf' = 1 /\ at' = 0
  BY DEF EndFirstLine, Line, settings
<1>2. /\ msgNum \in Seq(Nat) /\ count \in Nat /\ recent \in BOOLEAN /\ at \in Nat
      /\ limit \in Nat /\ limit \in 0 .. LimitMax /\ reply \in Replies
      /\ (recent \/ limit > 0) => Len(msgNum) <= limit
      /\ ~recent => count = Len(msgNum)
  BY <1>1, LimitAssumption DEF IInv, TypeOK, WithinLimit, Window, Busy
<1>3. /\ line \in Seq(Words) /\ Len(line) \in Nat
      /\ Len(reply) \in Nat /\ Len(reply) >= 1
  BY <1>2, ReplyShape
<1>4. word \in Words
  BY <1>1, <1>2, <1>3
<1>5. PICK kept, counted :
        /\ word.kind = "empty" => kept = msgNum /\ counted = count
        /\ word.kind # "empty" => kept = Collected(word) /\ counted = Counted(word)
        /\ count' = counted /\ InOrder(msgNum', kept)
  BY <1>1 DEF EndFirstLine, Line
<1>6. /\ kept \in Seq(Nat) /\ counted \in Nat
      /\ (recent \/ limit > 0) => Len(kept) <= limit
      /\ ~recent => counted = Len(kept)
  <2> HIDE DEF word
  <2> QED
    BY <1>2, <1>4, <1>5, Collects
<1>7. ASSUME SearchLine(line)
      PROVE  Kept(kept, counted, line, Hits(line))
  <2> HIDE DEF line
  <2>1. at \in Nat /\ line \in Seq(Words) /\ at + 1 <= Len(line) /\ at + 1 = Len(line)
    BY <1>1, <1>2, <1>3
  <2>2. Hits(line) = IF line[at + 1].kind = "empty" THEN HitsAmong(at)
                                                   ELSE HitsAmong(at + 1)
    BY <1>7, <2>1, SearchWords
  <2>3. Kept(msgNum, count, line, HitsAmong(at))
    BY <1>1, <1>7 DEF IInv, Window, Busy, line
  <2>4. CASE word.kind = "empty"
    BY <1>5, <2>2, <2>3, <2>4
  <2>5. CASE word.kind # "empty"
    <3>1. Kept(Collected(line[at + 1]), Counted(line[at + 1]), line, HitsAmong(at + 1))
      BY <1>2, <1>7, <2>1, <2>3, <2>5, KeptAfterWord
    <3> QED
      BY <1>5, <2>2, <2>5, <3>1
  <2> QED
    BY <2>4, <2>5
<1>8. msgNum' \in Seq(Nat) /\ Len(msgNum') = Len(kept)
  <2>1. CASE recent
    BY <1>5, <1>6, <2>1, SortKeeps DEF InOrder
  <2>2. CASE ~recent
    BY <1>5, <1>6, <2>2 DEF InOrder
  <2> QED
    BY <2>1, <2>2
<1>9. SearchLine(line) => Sorted(msgNum', counted, line, Hits(line))
  <2> HIDE DEF line
  <2>1. SearchLine(line) => Hits(line) \in Nat
    <3>1. ASSUME SearchLine(line) PROVE Hits(line) \in Nat
      <4>1. Len(line) >= 2 /\ line[2].kind = "search"
        BY <3>1 DEF SearchLine
      <4>2. Len(line) = 2 => line[Len(line)].kind # "empty"
        BY <4>1
      <4> QED
        BY <1>3, <4>1, <4>2 DEF Hits
    <3> QED
      BY <3>1
  <2> QED
    BY <1>2, <1>5, <1>6, <1>7, <2>1, SortedAfterLine
<1>10. TypeOK'
  BY <1>1, <1>2, <1>3, <1>5, <1>6, <1>8 DEF TypeOK, Phases
<1>11. WithinLimit'
  BY <1>1, <1>6, <1>8 DEF WithinLimit
<1>12. Window'
  <2>1. SearchLine(line) => Sorted(msgNum, count, line, Hits(line))'
    BY <1>1, <1>5, <1>9 DEF Sorted, IsFirst
  <2> QED
    BY <1>1, <1>5, <1>6, <1>8, <2>1 DEF Window, Busy
<1> QED
  BY <1>10, <1>11, <1>12 DEF IInv

\* The second line changes the phase only.
LEMMA InvComplete ==
    ASSUME IInv, Complete PROVE IInv'
<1>1. /\ phase = "reading" /\ lf = 1 /\ Len(reply) > 1
      /\ phase' = "found" /\ lf' = Len(reply)
      /\ UNCHANGED <<limit, recent, reply, at, msgNum, count>>
  BY DEF Complete, settings
<1>2. reply \in Replies /\ Len(reply) \in Nat
  BY <1>1, ReplyShape DEF IInv, TypeOK
<1>3. TypeOK'
  BY <1>1, <1>2 DEF IInv, TypeOK, Phases
<1>4. WithinLimit'
  BY <1>1 DEF IInv, WithinLimit
<1>5. SearchLine(reply[1]) => Sorted(msgNum, count, reply[1], Hits(reply[1]))
  BY <1>1 DEF IInv, Window, Busy
<1>6. (SearchLine(reply[1]) => Sorted(msgNum, count, reply[1], Hits(reply[1])))'
  BY <1>1, <1>5 DEF Sorted, IsFirst
<1>7. Window'
  BY <1>1, <1>2, <1>6 DEF IInv, Window, Busy
<1> QED
  BY <1>3, <1>4, <1>7 DEF IInv

\* What the other actions do to the reply: it is cleared, or it arrives.
LEMMA InvOthers ==
    ASSUME IInv,
           \/ \E n \in Limits : SetSearchLimit(n)
           \/ \E on \in BOOLEAN : SetRecentSort(on)
           \/ Search
           \/ \E r \in Replies : Answer(r)
           \/ TimeOut \/ LinkCloses \/ Return
    PROVE  IInv'
<1>1. ASSUME NEW n \in Limits, SetSearchLimit(n) PROVE IInv'
  <2>1. n \in Nat /\ LimitMax \in Nat
    BY LimitAssumption
  <2> QED
    BY <1>1, <2>1 DEF SetSearchLimit, reading, IInv, TypeOK, WithinLimit, Window, Busy
<1>2. ASSUME NEW on \in BOOLEAN, SetRecentSort(on) PROVE IInv'
  BY <1>2 DEF SetRecentSort, reading, IInv, TypeOK, WithinLimit, Window, Busy
<1>3. CASE Search
  BY <1>3 DEF Search, settings, IInv, TypeOK, WithinLimit, Window, Busy, Phases
<1>4. ASSUME NEW r \in Replies, Answer(r) PROVE IInv'
  <2>1. /\ phase = "sent" /\ phase' = "reading" /\ reply' = r
        /\ lf = 0 /\ at = 0 /\ msgNum = <<>> /\ count = 0
        /\ UNCHANGED <<limit, recent, lf, at, msgNum, count>>
    BY <1>4 DEF Answer, settings, IInv, Window
  <2>2. Len(r) \in Nat /\ Len(r[1]) \in Nat /\ Len(r[1]) >= 1
    BY ReplyShape
  <2>3. TypeOK'
    BY <2>1, <2>2 DEF IInv, TypeOK, Phases
  <2>4. limit \in Nat
    BY LimitAssumption DEF IInv, TypeOK
  <2>5. WithinLimit'
    BY <2>1, <2>4 DEF WithinLimit
  <2>6. Kept(msgNum, count, reply[1], HitsAmong(at))'
    BY <2>1, <2>4 DEF Kept, IsLast, IsFirst, HitsAmong, Lesser
  <2>7. Window'
    BY <2>1, <2>2, <2>6 DEF Window, Busy
  <2> QED
    BY <2>3, <2>5, <2>7 DEF IInv
<1>5. CASE TimeOut
  BY <1>5 DEF TimeOut, settings, reading, IInv, TypeOK, WithinLimit, Window, Busy, Phases
<1>6. CASE LinkCloses
  BY <1>6 DEF LinkCloses, settings, reading, IInv, TypeOK, WithinLimit, Window, Busy, Phases
<1>7. CASE Return
  BY <1>7 DEF Return, settings, reading, IInv, TypeOK, WithinLimit, Window, Busy, Phases
<1> QED
  BY <1>1, <1>2, <1>3, <1>4, <1>5, <1>6, <1>7

\* The window is an invariant of every step.
LEMMA InvNext == IInv /\ [Next]_vars => IInv'
<1> SUFFICES ASSUME IInv, [Next]_vars PROVE IInv'
  OBVIOUS
<1>1. CASE Next
  BY <1>1, InvReadWord, InvEndFirstLine, InvComplete, InvOthers DEF Next, Read
<1>2. CASE UNCHANGED vars
  <2>1. UNCHANGED <<limit, recent, phase, reply, lf, at, msgNum, count>>
    BY <1>2 DEF vars, settings, reading
  <2>2. TypeOK' /\ WithinLimit'
    BY <2>1 DEF IInv, TypeOK, WithinLimit
  <2>3. Kept(msgNum, count, reply[1], HitsAmong(at)) =>
          Kept(msgNum, count, reply[1], HitsAmong(at))'
    BY <2>1 DEF Kept, IsLast, IsFirst
  <2>4. Sorted(msgNum, count, reply[1], Hits(reply[1])) =>
          Sorted(msgNum, count, reply[1], Hits(reply[1]))'
    <3> SUFFICES ASSUME Sorted(msgNum, count, reply[1], Hits(reply[1]))
                 PROVE  Sorted(msgNum, count, reply[1], Hits(reply[1]))'
      OBVIOUS
    <3>1. recent /\ recent' =>
            /\ Len(msgNum') = Lesser(limit', Hits(reply'[1]))
            /\ Descending(msgNum')
            /\ {msgNum'[k] : k \in DOMAIN msgNum'}
                 = {NumberAt(reply'[1], i) : i \in Hits(reply'[1]) - Len(msgNum') + 1 .. Hits(reply'[1])}
            /\ count' = Hits(reply'[1])
      BY <2>1 DEF Sorted
    <3>2. ~recent /\ limit > 0 =>
            /\ Len(msgNum') = Lesser(limit', Hits(reply'[1]))
            /\ \A k \in 1 .. Len(msgNum') : msgNum'[k] = NumberAt(reply'[1], k)
      BY <2>1 DEF Sorted, IsFirst
    <3>3. (~recent /\ limit > 0)' => IsFirst(msgNum, reply[1], Hits(reply[1]))'
      BY <2>1, <3>2 DEF IsFirst
    <3> QED
      BY <2>1, <3>1, <3>3 DEF Sorted
  <2>5. Window'
    BY <2>1, <2>3, <2>4 DEF IInv, Window, Busy
  <2> QED
    BY <2>2, <2>5 DEF IInv
<1> QED
  BY <1>1, <1>2

-----------------------------------------------------------------------------
\* The invariant holds in every reachable state.
THEOREM Inductive == Spec => []IInv
  BY InvInit, InvNext, PTL DEF Spec

\* Every variable keeps its type.
THEOREM TypeCorrect == Spec => []TypeOK
<1>1. IInv => TypeOK
  BY DEF IInv
<1> QED
  BY <1>1, Inductive, PTL

\* _msgNum never outgrows the search limit while waitIMAPResponse fills it.
THEOREM Bounded == Spec => []WithinLimit
<1>1. IInv => WithinLimit
  BY DEF IInv
<1> QED
  BY <1>1, Inductive, PTL

\* With the recent sort, the messages fetched are the last ones of the
\* reply, the highest number first.
THEOREM MostRecentFirst == Spec => []LatestFirst
<1>1. IInv => LatestFirst
  <2> SUFFICES ASSUME IInv, Answered, recent PROVE LatestFirst
    BY DEF LatestFirst
  <2>1. Sorted(msgNum, count, reply[1], Hits(reply[1]))
    BY DEF IInv, Window, Busy, Answered
  <2> QED
    BY <2>1 DEF Sorted, LatestFirst, NumberAt
<1> QED
  BY <1>1, Inductive, PTL

\* Without it they are the first ones of the reply.
THEOREM FirstInOrder == Spec => []ServerOrder
<1>1. IInv => ServerOrder
  <2> SUFFICES ASSUME IInv, Answered, ~recent, limit > 0 PROVE ServerOrder
    BY DEF ServerOrder
  <2>1. IsFirst(msgNum, reply[1], Hits(reply[1]))
    BY DEF IInv, Window, Busy, Answered, Sorted
  <2>2. DOMAIN msgNum = 1 .. Len(msgNum)
    BY DEF IInv, TypeOK
  <2> QED
    BY <2>1, <2>2 DEF IsFirst, ServerOrder, NumberAt
<1> QED
  BY <1>1, Inductive, PTL

\* searchCount covers the messages available.
THEOREM CountIsEnough == Spec => []CountCovers
<1>1. IInv => CountCovers
  <2> SUFFICES ASSUME IInv, Answered PROVE CountCovers
    BY DEF CountCovers
  <2>1. Sorted(msgNum, count, reply[1], Hits(reply[1]))
    BY DEF IInv, Window, Busy, Answered
  <2>2. ~recent => count = Len(msgNum)
    BY DEF IInv, Window, Busy, Answered
  <2>3. Len(msgNum) \in Nat /\ limit \in Nat /\ count \in Nat
    BY LimitAssumption DEF IInv, TypeOK
  <2>4. recent => Len(msgNum) = Lesser(limit, count) /\ count = Hits(reply[1])
    BY <2>1 DEF Sorted
  <2> QED
    BY <2>2, <2>3, <2>4 DEF CountCovers, Lesser
<1> QED
  BY <1>1, Inductive, PTL
=============================================================================
