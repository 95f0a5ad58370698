------------------------------ MODULE ErrorsProofs ------------------------------
(***************************************************************************)
(* A complaint of the command line about a page that came to harm names    *)
(* the first line that is not as it was written: a proof for any runs,     *)
(* pages and harms, on what EngineProofs says of the forms and of the      *)
(* files.                                                                  *)
(***************************************************************************)
EXTENDS EngineProofs

--------------------------------------------------------------------------------
(* What a text that came to harm is like. *)

\* The first line that is not as it was written.
FirstUnlike(text, written, d) ==
    /\ d \in 1 .. Len(written) + 1
    /\ \A j \in 1 .. d - 1 : j \in DOMAIN text /\ j \in DOMAIN written /\ text[j] = written[j]
    /\ ~ (d \in DOMAIN text /\ d \in DOMAIN written /\ text[d] = written[d])

\* That line alone is spelt otherwise.
Misspelt(text, written, d) ==
    /\ Len(text) = Len(written) /\ d \in DOMAIN written /\ Len(text[d]) = Len(written[d])
    /\ \A j \in DOMAIN text : j # d => text[j] = written[j]

\* The text ends before that line does.
CutShort(text, written, d) ==
    /\ Len(text) <= d /\ d \in DOMAIN written
    /\ d \in DOMAIN text =>
          /\ Len(text[d]) < Len(written[d])
          /\ \A m \in DOMAIN text[d] : text[d][m] = written[d][m]

\* The line beside it stands there, and no line before it after that.
Displaced(text, written, d) ==
    /\ d \in DOMAIN text => \E k \in DOMAIN written : k \in {d - 1, d + 1} /\ text[d] = written[k]
    /\ \A j \in DOMAIN text : j > d => \E k \in DOMAIN written : k >= d /\ text[j] = written[k]

MarredAt(text, written, d) ==
    /\ FirstUnlike(text, written, d)
    /\ Misspelt(text, written, d) \/ CutShort(text, written, d) \/ Displaced(text, written, d)

Marred(text, written) == \E d : MarredAt(text, written, d)

LEMMA UnlikeSomewhere ==
    ASSUME NEW L, NEW text \in Seq(L), NEW written \in Seq(L)
    PROVE  \E d : FirstUnlike(text, written, d)
<1> DEFINE D == {i \in Nat \ {0} : ~ (i \in DOMAIN text /\ i \in DOMAIN written /\ text[i] = written[i])}
           d == Min(D)
<1>1. /\ Len(text) \in Nat /\ Len(written) \in Nat
      /\ DOMAIN text = 1 .. Len(text) /\ DOMAIN written = 1 .. Len(written)
  BY LenProperties
<1>2. Len(written) + 1 \in D
  BY <1>1
<1>3. d \in D /\ \A m \in D : d <= m
  <2>1. D \in SUBSET Nat /\ D # {}
    BY <1>2
  <2> HIDE DEF D
  <2> QED
    BY <2>1, LeastFacts
<1>4. d \in Nat \ {0} /\ ~ (d \in DOMAIN text /\ d \in DOMAIN written /\ text[d] = written[d])
  BY <1>3
<1>5. d \in 1 .. Len(written) + 1
  BY <1>1, <1>2, <1>3, <1>4
<1>6. ASSUME NEW j \in 1 .. d - 1
      PROVE  j \in DOMAIN text /\ j \in DOMAIN written /\ text[j] = written[j]
  <2>1. j \in Nat \ {0} /\ ~ d <= j
    <3> HIDE DEF d
    <3> QED
      BY <1>4
  <2>2. j \notin D
    BY <1>3, <2>1
  <2> HIDE DEF d
  <2> QED
    BY <2>1, <2>2
<1> HIDE DEF d
<1> QED
  BY <1>4, <1>5, <1>6 DEF FirstUnlike

LEMMA FirstDifferenceIs ==
    ASSUME NEW L, NEW text \in Seq(L), NEW M, NEW written \in Seq(M), NEW d,
           FirstUnlike(text, written, d)
    PROVE  /\ FirstDifference(text, written) = d
           /\ d \in Nat \ {0} /\ d <= Len(text) + 1 /\ d <= Len(written) + 1
<1> DEFINE D == {i \in 1 .. Len(text) + Len(written) + 1 :
                   \/ i \notin DOMAIN text \/ i \notin DOMAIN written
                   \/ text[i] # written[i]}
<1>1. /\ Len(text) \in Nat /\ Len(written) \in Nat
      /\ DOMAIN text = 1 .. Len(text) /\ DOMAIN written = 1 .. Len(written)
  BY LenProperties
<1>2. /\ d \in 1 .. Len(written) + 1
      /\ \A j \in 1 .. d - 1 : j \in DOMAIN text /\ j \in DOMAIN written /\ text[j] = written[j]
      /\ ~ (d \in DOMAIN text /\ d \in DOMAIN written /\ text[d] = written[d])
  BY DEF FirstUnlike
<1>3. d \in Nat \ {0} /\ d <= Len(text) + 1 /\ d <= Len(written) + 1
  <2>1. d \in Nat \ {0} /\ d <= Len(written) + 1
    BY <1>1, <1>2
  <2>2. d - 1 \in 1 .. d - 1 \/ d = 1
    BY <2>1
  <2>3. d - 1 \in DOMAIN text \/ d = 1
    BY <1>2, <2>2
  <2> QED
    BY <1>1, <2>1, <2>3
<1>4. d \in D
  BY <1>1, <1>2, <1>3
<1>5. ASSUME NEW i \in D PROVE d <= i
  <2>1. i \in Nat \ {0}
    BY <1>1
  <2>2. i \notin 1 .. d - 1
    BY <1>2, <1>5
  <2> QED
    BY <1>3, <2>1, <2>2
<1>6. D \in SUBSET Nat
  BY <1>1
<1>7. Min(D) = d
  <2> HIDE DEF D
  <2> QED
    BY <1>4, <1>5, <1>6, SmallestIs
<1> QED
  BY <1>3, <1>7 DEF FirstDifference

\* A text that breaks off.
LEMMA BeginningsAreMarred ==
    ASSUME NEW S, NEW written \in Seq(Seq(S)), NEW text \in Beginnings(written)
    PROVE  Marred(text, written)
<1>1. Len(written) \in Nat /\ DOMAIN written = 1 .. Len(written)
  BY LenProperties
<1>2. ASSUME NEW n \in 0 .. Len(written) - 1, text = SubSeq(written, 1, n)
      PROVE  Marred(text, written)
  <2>1. n \in Nat /\ n <= Len(written)
    BY <1>1
  <2>2. text \in Seq(Seq(S)) /\ Len(text) = n /\ \A i \in 1 .. n : text[i] = written[i]
    BY <1>2, <2>1, Rejoined
  <2>3. DOMAIN text = 1 .. n
    BY <2>2, LenProperties
  <2> DEFINE d == n + 1
  <2>4. FirstUnlike(text, written, d)
    BY <1>1, <1>2, <2>1, <2>2, <2>3 DEF FirstUnlike
  <2>5. CutShort(text, written, d)
    BY <1>1, <1>2, <2>1, <2>2, <2>3 DEF CutShort
  <2> QED
    BY <2>4, <2>5 DEF MarredAt, Marred
<1>3. ASSUME NEW p \in {q \in (1 .. Len(written)) \X (1 .. 12) : q[2] < Len(written[q[1]])},
             text = Append(SubSeq(written, 1, p[1] - 1), SubSeq(written[p[1]], 1, p[2]))
      PROVE  Marred(text, written)
  <2> DEFINE d == p[1]
             line == written[d]
             part == SubSeq(line, 1, p[2])
             start == SubSeq(written, 1, d - 1)
  <2>1. d \in 1 .. Len(written) /\ p[2] \in Nat /\ p[2] < Len(line)
    OBVIOUS
  <2>2. line \in Seq(S) /\ Len(line) \in Nat
    BY <1>1, <2>1, ElementOfSeq, LenProperties
  <2>3. /\ part \in Seq(S) /\ Len(part) = p[2] /\ \A i \in 1 .. p[2] : part[i] = line[i]
        /\ DOMAIN part = 1 .. p[2]
    <3>1. p[2] <= Len(line)
      BY <2>1, <2>2
    <3> HIDE DEF line
    <3>2. part \in Seq(S) /\ Len(part) = p[2] /\ \A i \in 1 .. p[2] : part[i] = line[i]
      BY <2>1, <2>2, <3>1, Rejoined
    <3> QED
      BY <3>2, LenProperties
  <2>4. d \in Nat /\ d - 1 \in Nat /\ d - 1 <= Len(written)
    BY <1>1, <2>1
  <2> HIDE DEF d, part
  <2>5. /\ start \in Seq(Seq(S)) /\ Len(start) = d - 1
        /\ \A i \in 1 .. d - 1 : start[i] = written[i]
    BY <2>4, Rejoined
  <2> HIDE DEF start
  <2>6. text = Append(start, part)
    BY <1>3 DEF d, part, start
  <2>7. /\ text \in Seq(Seq(S)) /\ Len(text) = Len(start) + 1
        /\ \A i \in 1 .. Len(start) : text[i] = start[i]
        /\ text[Len(start) + 1] = part
    BY <2>3, <2>5, <2>6, AppendProperties
  <2>8. Len(text) = d /\ DOMAIN text = 1 .. d /\ text[d] = part
        /\ \A i \in 1 .. d - 1 : text[i] = written[i]
    <3>1. Len(text) = d
      BY <2>4, <2>5, <2>7
    <3>2. d - 1 + 1 = d
      BY <2>4
    <3> QED
      BY <2>5, <2>7, <3>1, <3>2, LenProperties
  <2>9. part # line
    BY <2>1, <2>2, <2>3 DEF part
  <2>10. FirstUnlike(text, written, d)
    <3>1. d \in 1 .. Len(written) + 1
      BY <1>1, <2>1
    <3>2. \A j \in 1 .. d - 1 : j \in 1 .. d /\ j \in 1 .. Len(written)
      BY <1>1, <2>1, <2>4
    <3> QED
      BY <1>1, <2>8, <2>9, <3>1, <3>2 DEF FirstUnlike
  <2>11. CutShort(text, written, d)
    <3>1. Len(text) <= d
      BY <2>4, <2>8
    <3> QED
      BY <1>1, <2>1, <2>3, <2>8, <3>1 DEF CutShort
  <2> QED
    BY <2>10, <2>11 DEF MarredAt, Marred
<1> QED
  BY <1>2, <1>3 DEF Beginnings

\* A line that is lost, or written twice.
LEMMA LostAndTwice ==
    ASSUME NEW L, NEW written \in Seq(L), NEW i \in DOMAIN written
    PROVE  LET lost == RemoveAt(written, i)
               twice == InsertAt(written, i, written[i])
               len == Len(written)
           IN /\ lost \in Seq(L) /\ Len(lost) = len - 1
              /\ \A j \in 1 .. len - 1 : lost[j] = written[IF j < i THEN j ELSE j + 1]
              /\ twice \in Seq(L) /\ Len(twice) = len + 1
              /\ \A j \in 1 .. len + 1 : twice[j] = written[IF j <= i THEN j ELSE j - 1]
<1> DEFINE len == Len(written)
           before == SubSeq(written, 1, i - 1)
           from == After(written, i - 1)
           after == After(written, i)
           lost == before \o after
           only == <<written[i]>>
           more == before \o only
           twice == more \o from
<1>1. len \in Nat /\ i \in 1 .. len /\ i - 1 \in Nat /\ i - 1 <= len /\ i \in Nat /\ i <= len
  <2>1. len \in Nat /\ i \in 1 .. len
    BY LenProperties
  <2> HIDE DEF len
  <2> QED
    BY <2>1
<1>2. /\ before \in Seq(L) /\ Len(before) = i - 1 /\ \A j \in 1 .. i - 1 : before[j] = written[j]
      /\ from \in Seq(L) /\ Len(from) = len - (i - 1)
      /\ \A j \in 1 .. len - (i - 1) : from[j] = written[i - 1 + j]
  <2> DEFINE m == i - 1
  <2>1. m \in Nat /\ m <= Len(written)
    BY <1>1
  <2> HIDE DEF m
  <2>2. /\ SubSeq(written, 1, m) \in Seq(L) /\ Len(SubSeq(written, 1, m)) = m
        /\ \A j \in 1 .. m : SubSeq(written, 1, m)[j] = written[j]
        /\ After(written, m) \in Seq(L) /\ Len(After(written, m)) = Len(written) - m
        /\ \A j \in 1 .. Len(written) - m : After(written, m)[j] = written[m + j]
    BY <2>1, Rejoined
  <2> QED
    BY <2>2 DEF m
<1>3. /\ after \in Seq(L) /\ Len(after) = len - i
      /\ \A j \in 1 .. len - i : after[j] = written[i + j]
  BY <1>1, Rejoined
<1>4. only \in Seq(L) /\ Len(only) = 1 /\ only[1] = written[i]
  BY <1>1, ElementOfSeq
<1>5. RemoveAt(written, i) = lost
  BY DEF RemoveAt, After
<1>6. InsertAt(written, i, written[i]) = twice
  <2>1. i - 1 + 1 = i
    BY <1>1
  <2> QED
    BY <2>1 DEF InsertAt, After
<1> HIDE DEF before, from, after, only, len
<1>7. lost \in Seq(L) /\ Len(lost) = len - 1
      /\ \A j \in 1 .. len - 1 : lost[j] = written[IF j < i THEN j ELSE j + 1]
  <2>1. /\ lost \in Seq(L) /\ Len(lost) = Len(before) + Len(after)
        /\ \A j \in 1 .. Len(before) + Len(after) :
              lost[j] = IF j <= Len(before) THEN before[j] ELSE after[j - Len(before)]
    BY <1>2, <1>3, ConcatProperties
  <2> HIDE DEF lost
  <2>2. Len(before) + Len(after) = len - 1
    BY <1>1, <1>2, <1>3
  <2>3. ASSUME NEW j \in 1 .. len - 1 PROVE lost[j] = written[IF j < i THEN j ELSE j + 1]
    <3>1. CASE j < i
      BY <1>1, <1>2, <2>1, <2>2, <3>1
    <3>2. CASE ~ j < i
      <4>1. ~ j <= i - 1 /\ j - (i - 1) \in 1 .. len - i /\ i + (j - (i - 1)) = j + 1
        BY <1>1, <3>2
      <4>2. lost[j] = after[j - (i - 1)]
        BY <1>2, <2>1, <2>2, <4>1
      <4>3. after[j - (i - 1)] = written[i + (j - (i - 1))]
        BY <1>3, <4>1
      <4> QED
        BY <3>2, <4>1, <4>2, <4>3
    <3> QED
      BY <3>1, <3>2
  <2> QED
    BY <2>1, <2>2, <2>3
<1>8. more \in Seq(L) /\ Len(more) = i /\ \A j \in 1 .. i : more[j] = written[j]
  <2>0. /\ more \in Seq(L) /\ Len(more) = Len(before) + Len(only)
        /\ \A j \in 1 .. Len(before) + Len(only) :
              more[j] = IF j <= Len(before) THEN before[j] ELSE only[j - Len(before)]
    BY <1>2, <1>4, ConcatProperties
  <2>1. /\ more \in Seq(L) /\ Len(more) = Len(before) + 1
        /\ \A j \in 1 .. Len(before) + 1 :
              more[j] = IF j <= Len(before) THEN before[j] ELSE only[j - Len(before)]
    BY <1>4, <2>0
  <2> HIDE DEF more
  <2>2. Len(before) + 1 = i
    BY <1>1, <1>2
  <2>3. ASSUME NEW j \in 1 .. i PROVE more[j] = written[j]
    <3>1. CASE j <= i - 1
      BY <1>1, <1>2, <2>1, <2>2, <3>1
    <3>2. CASE ~ j <= i - 1
      <4>1. j = i /\ j - (i - 1) = 1
        BY <1>1, <3>2
      <4> QED
        BY <1>2, <1>4, <2>1, <2>2, <3>2, <4>1
    <3> QED
      BY <3>1, <3>2
  <2> QED
    BY <2>1, <2>2, <2>3
<1> HIDE DEF more
<1>9. twice \in Seq(L) /\ Len(twice) = len + 1
      /\ \A j \in 1 .. len + 1 : twice[j] = written[IF j <= i THEN j ELSE j - 1]
  <2>1. /\ twice \in Seq(L) /\ Len(twice) = Len(more) + Len(from)
        /\ \A j \in 1 .. Len(more) + Len(from) :
              twice[j] = IF j <= Len(more) THEN more[j] ELSE from[j - Len(more)]
    BY <1>2, <1>8, ConcatProperties
  <2> HIDE DEF twice
  <2>2. Len(more) + Len(from) = len + 1
    <3>1. Len(more) = i /\ Len(from) = len - (i - 1) /\ i \in Nat /\ len \in Nat
      BY <1>1, <1>2, <1>8
    <3> QED
      BY <3>1
  <2>3. ASSUME NEW j \in 1 .. len + 1 PROVE twice[j] = written[IF j <= i THEN j ELSE j - 1]
    <3>1. CASE j <= i
      BY <1>1, <1>8, <2>1, <2>2, <3>1
    <3>2. CASE ~ j <= i
      <4>1. j - i \in 1 .. len - (i - 1) /\ i - 1 + (j - i) = j - 1
        BY <1>1, <3>2
      <4>2. twice[j] = from[j - i]
        BY <1>8, <2>1, <2>2, <3>2
      <4>3. from[j - i] = written[i - 1 + (j - i)]
        BY <1>2, <4>1
      <4> QED
        BY <3>2, <4>1, <4>2, <4>3
    <3> QED
      BY <3>1, <3>2
  <2> QED
    BY <2>1, <2>2, <2>3
<1> QED
  BY <1>5, <1>6, <1>7, <1>9 DEF len

LEMMA LostIsMarred ==
    ASSUME NEW L, NEW written \in Seq(L), NEW i \in DOMAIN written
    PROVE  Marred(RemoveAt(written, i), written)
<1> DEFINE text == RemoveAt(written, i)
           len == Len(written)
<1>1. len \in Nat /\ DOMAIN written = 1 .. len /\ i \in 1 .. len
  BY LenProperties
<1>2. text \in Seq(L) /\ Len(text) = len - 1
      /\ \A j \in 1 .. len - 1 : text[j] = written[IF j < i THEN j ELSE j + 1]
  BY LostAndTwice
<1>3. DOMAIN text = 1 .. len - 1
  BY <1>2, LenProperties
<1> HIDE DEF text, len
<1>4. PICK d : FirstUnlike(text, written, d)
  BY <1>2, UnlikeSomewhere
<1>5. d \in Nat \ {0} /\ d <= len
  <2>1. d \in Nat \ {0} /\ d <= Len(text) + 1
    BY <1>2, <1>4, FirstDifferenceIs
  <2> QED
    BY <1>1, <1>2, <2>1
<1>6. i <= d
  <2>1. ASSUME d < i PROVE FALSE
    <3>1. d \in 1 .. len - 1 /\ d \in 1 .. len
      BY <1>1, <1>5, <2>1
    <3>2. text[d] = written[d]
      BY <1>2, <2>1, <3>1
    <3> QED
      BY <1>1, <1>3, <1>4, <3>1, <3>2 DEF FirstUnlike
  <2> QED
    BY <1>1, <1>5, <2>1
<1>7. \A j \in 1 .. len - 1 : j >= d => text[j] = written[j + 1] /\ j + 1 \in 1 .. len
  BY <1>1, <1>2, <1>5, <1>6
<1>8. Displaced(text, written, d)
  <2>1. ASSUME d \in DOMAIN text
        PROVE  \E k \in DOMAIN written : k \in {d - 1, d + 1} /\ text[d] = written[k]
    BY <1>1, <1>3, <1>5, <1>7, <2>1
  <2>2. ASSUME NEW j \in DOMAIN text, j > d
        PROVE  \E k \in DOMAIN written : k >= d /\ text[j] = written[k]
    <3>1. j >= d /\ j + 1 >= d
      BY <1>1, <1>3, <1>5, <2>2
    <3> QED
      BY <1>1, <1>3, <1>7, <2>2, <3>1
  <2> QED
    BY <2>1, <2>2 DEF Displaced
<1>9. Marred(text, written)
  BY <1>4, <1>8 DEF Marred, MarredAt
<1> QED
  BY <1>9 DEF text

LEMMA TwiceIsMarred ==
    ASSUME NEW L, NEW written \in Seq(L), NEW i \in DOMAIN written
    PROVE  Marred(InsertAt(written, i, written[i]), written)
<1> DEFINE text == InsertAt(written, i, written[i])
           len == Len(written)
<1>1. len \in Nat /\ DOMAIN written = 1 .. len /\ i \in 1 .. len
  BY LenProperties
<1>2. text \in Seq(L) /\ Len(text) = len + 1
      /\ \A j \in 1 .. len + 1 : text[j] = written[IF j <= i THEN j ELSE j - 1]
  BY LostAndTwice
<1>3. DOMAIN text = 1 .. len + 1
  BY <1>2, LenProperties
<1> HIDE DEF text, len
<1>4. PICK d : FirstUnlike(text, written, d)
  BY <1>2, UnlikeSomewhere
<1>5. d \in Nat \ {0} /\ d <= len + 1
  <2>1. d \in Nat \ {0} /\ d <= Len(written) + 1
    BY <1>2, <1>4, FirstDifferenceIs
  <2> QED
    BY <2>1 DEF len
<1>6. i < d
  <2>1. ASSUME d <= i PROVE FALSE
    <3>1. d \in 1 .. len + 1 /\ d \in 1 .. len
      BY <1>1, <1>5, <2>1
    <3>2. text[d] = written[d]
      BY <1>2, <2>1, <3>1
    <3> QED
      BY <1>1, <1>3, <1>4, <3>1, <3>2 DEF FirstUnlike
  <2> QED
    BY <1>1, <1>5, <2>1
<1>7. \A j \in 1 .. len + 1 : j >= d => text[j] = written[j - 1] /\ j - 1 \in 1 .. len
  BY <1>1, <1>2, <1>5, <1>6
<1>8. Displaced(text, written, d)
  <2>1. ASSUME d \in DOMAIN text
        PROVE  \E k \in DOMAIN written : k \in {d - 1, d + 1} /\ text[d] = written[k]
    BY <1>1, <1>3, <1>5, <1>7, <2>1
  <2>2. ASSUME NEW j \in DOMAIN text, j > d
        PROVE  \E k \in DOMAIN written : k >= d /\ text[j] = written[k]
    <3>1. j >= d /\ j - 1 >= d
      BY <1>1, <1>3, <1>5, <2>2
    <3> QED
      BY <1>1, <1>3, <1>7, <2>2, <3>1
  <2> QED
    BY <2>1, <2>2 DEF Displaced
<1>9. Marred(text, written)
  BY <1>4, <1>8 DEF Marred, MarredAt
<1> QED
  BY <1>9 DEF text

\* Two lines that changed places.
LEMMA SwappedIsMarred ==
    ASSUME NEW L, NEW written \in Seq(L), NEW i \in 1 .. Len(written) - 1, NEW text,
           text = [written EXCEPT ![i] = written[i + 1], ![i + 1] = written[i]], text # written
    PROVE  Marred(text, written)
<1> DEFINE len == Len(written)
<1>1. /\ len \in Nat /\ DOMAIN written = 1 .. len /\ i \in 1 .. len /\ i + 1 \in 1 .. len
      /\ i \in Nat /\ i # i + 1
  <2>1. len \in Nat /\ DOMAIN written = 1 .. len /\ i \in 1 .. len - 1
    BY LenProperties
  <2> HIDE DEF len
  <2> QED
    BY <2>1
<1> HIDE DEF len
<1>2. /\ DOMAIN text = 1 .. len /\ text[i] = written[i + 1] /\ text[i + 1] = written[i]
      /\ \A j \in 1 .. len : j # i /\ j # i + 1 => text[j] = written[j]
  BY <1>1
<1>3. written[i] # written[i + 1]
  <2> SUFFICES ASSUME written[i] = written[i + 1] PROVE text = written
    OBVIOUS
  <2> QED
    BY <1>1
<1>4. FirstUnlike(text, written, i)
  <2>1. i \in 1 .. Len(written) + 1
    BY <1>1 DEF len
  <2>2. \A j \in 1 .. i - 1 : j \in 1 .. len /\ j # i /\ j # i + 1
    BY <1>1
  <2> QED
    BY <1>1, <1>2, <1>3, <2>1, <2>2 DEF FirstUnlike
<1>5. Displaced(text, written, i)
  <2>1. \E k \in DOMAIN written : k \in {i - 1, i + 1} /\ text[i] = written[k]
    BY <1>1, <1>2
  <2>2. ASSUME NEW j \in DOMAIN text, j > i
        PROVE  \E k \in DOMAIN written : k >= i /\ text[j] = written[k]
    <3>1. CASE j = i + 1
      BY <1>1, <1>2, <3>1
    <3>2. CASE j # i + 1
      <4>1. j \in 1 .. len /\ j # i /\ j >= i
        BY <1>1, <1>2, <2>2
      <4> QED
        BY <1>1, <1>2, <3>2, <4>1
    <3> QED
      BY <3>1, <3>2
  <2> QED
    BY <2>1, <2>2 DEF Displaced
<1> QED
  BY <1>4, <1>5 DEF Marred, MarredAt

\* A token that is not the one it was.
LEMMA MisspeltIsMarred ==
    ASSUME NEW S, NEW written \in Seq(Seq(S)), NEW i \in 1 .. Len(written),
           NEW m \in 1 .. Len(written[i]), NEW token, NEW text,
           text = [written EXCEPT ![i] = [written[i] EXCEPT ![m] = token]], text # written
    PROVE  Marred(text, written)
<1> DEFINE len == Len(written)
           line == written[i]
           harmed == [line EXCEPT ![m] = token]
<1>1. /\ len \in Nat /\ DOMAIN written = 1 .. len /\ i \in 1 .. len /\ i \in Nat
      /\ written = [j \in 1 .. len |-> written[j]]
  <2>1. len \in Nat /\ DOMAIN written = 1 .. len
    BY LenProperties
  <2> HIDE DEF len
  <2> QED
    BY <2>1 DEF len
<1>2. line \in Seq(S) /\ Len(line) \in Nat /\ DOMAIN line = 1 .. Len(line)
  BY <1>1, ElementOfSeq, LenProperties
<1>3. DOMAIN harmed = 1 .. Len(line) /\ Len(harmed) = Len(line)
  <2>1. harmed \in Seq(S \cup {token}) /\ Len(harmed) = Len(line)
    <3>1. line \in Seq(S \cup {token})
      BY <1>2, SeqMonotonic
    <3>2. token \in S \cup {token} /\ m \in 1 .. Len(line)
      OBVIOUS
    <3> HIDE DEF line
    <3> QED
      BY <3>1, <3>2, ExceptSeq
  <2> HIDE DEF harmed, line
  <2> QED
    BY <1>2, <2>1, LenProperties
<1> HIDE DEF line, harmed, len
<1>4. text = [written EXCEPT ![i] = harmed]
  BY DEF harmed, line
<1>5. /\ DOMAIN text = 1 .. len /\ text[i] = harmed
      /\ \A j \in 1 .. len : j # i => text[j] = written[j]
  BY <1>1, <1>4
<1>6. harmed # line
  <2> SUFFICES ASSUME harmed = line PROVE text = written
    OBVIOUS
  <2>1. text = [j \in 1 .. len |-> IF j = i THEN harmed ELSE written[j]]
    BY <1>1, <1>4
  <2>2. \A j \in 1 .. len : (IF j = i THEN harmed ELSE written[j]) = written[j]
    BY DEF line
  <2> QED
    BY <1>1, <2>1, <2>2
<1>7. Len(text) = len
  <2>1. text = [j \in 1 .. len |-> text[j]]
    BY <1>4, <1>5
  <2>2. \A j \in 1 .. len : text[j] \in {text[k] : k \in 1 .. len}
    OBVIOUS
  <2> QED
    BY <1>1, <2>1, <2>2, ListOf
<1>8. FirstUnlike(text, written, i)
  <2>1. i \in 1 .. Len(written) + 1
    BY <1>1 DEF len
  <2>2. \A j \in 1 .. i - 1 : j \in 1 .. len /\ j # i
    BY <1>1
  <2>3. text[i] # written[i]
    BY <1>5, <1>6 DEF line
  <2> QED
    BY <1>1, <1>5, <2>1, <2>2, <2>3 DEF FirstUnlike
<1>9. Misspelt(text, written, i)
  <2>1. Len(text[i]) = Len(written[i])
    BY <1>3, <1>5 DEF line
  <2>2. Len(text) = Len(written)
    BY <1>7 DEF len
  <2> QED
    BY <1>1, <1>5, <2>1, <2>2 DEF Misspelt
<1> QED
  BY <1>8, <1>9 DEF Marred, MarredAt

LEMMA HarmedAreMarred ==
    ASSUME NEW S, NEW written \in Seq(Seq(S)), NEW text \in Harmed(written), text # written
    PROVE  Marred(text, written)
<1>1. ASSUME NEW i \in DOMAIN written,
             text = RemoveAt(written, i) \/ text = InsertAt(written, i, written[i])
      PROVE  Marred(text, written)
  BY <1>1, LostIsMarred, TwiceIsMarred
<1>2. ASSUME NEW i \in 1 .. Len(written) - 1,
             text = [written EXCEPT ![i] = written[i + 1], ![i + 1] = written[i]]
      PROVE  Marred(text, written)
  BY <1>2, SwappedIsMarred
<1>3. ASSUME NEW p \in {q \in (1 .. Len(written)) \X (1 .. 12) : q[2] <= Len(written[q[1]])},
             NEW token \in Garble, text = [written EXCEPT ![p[1]][p[2]] = token]
      PROVE  Marred(text, written)
  <2> DEFINE i == p[1]
             m == p[2]
  <2>1. i \in 1 .. Len(written) /\ m \in 1 .. 12 /\ m <= Len(written[i])
    OBVIOUS
  <2>2. Len(written[i]) \in Nat
    BY <2>1, ElementOfSeq, LenProperties
  <2>3. text = [written EXCEPT ![i] = [written[i] EXCEPT ![m] = token]]
    BY <1>3
  <2> HIDE DEF i, m
  <2>4. m \in 1 .. Len(written[i])
    BY <2>1, <2>2
  <2> QED
    BY <2>1, <2>3, <2>4, MisspeltIsMarred
<1>4. \/ \E i \in DOMAIN written :
            text = RemoveAt(written, i) \/ text = InsertAt(written, i, written[i])
      \/ \E i \in 1 .. Len(written) - 1 :
            text = [written EXCEPT ![i] = written[i + 1], ![i + 1] = written[i]]
      \/ \E p \in {q \in (1 .. Len(written)) \X (1 .. 12) : q[2] <= Len(written[q[1]])},
            token \in Garble : text = [written EXCEPT ![p[1]][p[2]] = token]
  <2> DEFINE P == {q \in (1 .. Len(written)) \X (1 .. 12) : q[2] <= Len(written[q[1]])}
             lost == {RemoveAt(written, i) : i \in DOMAIN written}
             twice == {InsertAt(written, i, written[i]) : i \in DOMAIN written}
             swapped == {[written EXCEPT ![i] = written[i + 1], ![i + 1] = written[i]] :
                           i \in 1 .. Len(written) - 1}
             spelt(p, token) == [written EXCEPT ![p[1]][p[2]] = token]
             misspelt == {spelt(p, token) : p \in P, token \in Garble}
  <2>1. Harmed(written) = lost \cup twice \cup swapped \cup misspelt
    BY DEF Harmed
  <2>2. text \in lost \cup twice => \E i \in DOMAIN written :
            text = RemoveAt(written, i) \/ text = InsertAt(written, i, written[i])
    OBVIOUS
  <2>3. text \in swapped => \E i \in 1 .. Len(written) - 1 :
            text = [written EXCEPT ![i] = written[i + 1], ![i + 1] = written[i]]
    OBVIOUS
  <2>4. text \in misspelt => \E p \in P, token \in Garble : text = spelt(p, token)
    <3> HIDE DEF P, spelt
    <3> QED
      OBVIOUS
  <2> HIDE DEF lost, twice, swapped, misspelt
  <2>5. text \in lost \cup twice \/ text \in swapped \/ text \in misspelt
    BY <2>1
  <2> QED
    BY <2>2, <2>3, <2>4, <2>5
<1> QED
  BY <1>1, <1>2, <1>3, <1>4

--------------------------------------------------------------------------------
(* Where a complaint points. *)

\* Of the results of the lines it is the first that is wrong that is complained about.
LEMMA FirstWrong ==
    ASSUME NEW results, NEW n \in Nat, DOMAIN results = 1 .. n, NEW first,
           ~ IsRead(Collect(results, first))
    PROVE  \E i \in 1 .. n :
              /\ Collect(results, first) = Wrong(results[i].why, i - 1 + first)
              /\ ~ IsRead(results[i])
              /\ \A j \in 1 .. i - 1 : IsRead(results[j])
<1> DEFINE wrong == {i \in DOMAIN results : ~ IsRead(results[i])}
           i == Min(wrong)
<1>1. Collect(results, first) =
        IF wrong = {} THEN Read([j \in DOMAIN results |-> results[j].value])
        ELSE Wrong(results[i].why, i - 1 + first)
  BY DEF Collect
<1>2. wrong # {}
  BY <1>1, ReadOrWrong
<1>3. i \in wrong /\ \A j \in wrong : i <= j
  <2>1. wrong \in SUBSET Nat
    OBVIOUS
  <2> HIDE DEF wrong
  <2> QED
    BY <1>2, <2>1, LeastFacts
<1>4. i \in 1 .. n /\ ~ IsRead(results[i])
  BY <1>3
<1>5. ASSUME NEW j \in 1 .. i - 1 PROVE IsRead(results[j])
  <2>1. j \in 1 .. n /\ ~ i <= j
    <3> HIDE DEF i
    <3> QED
      BY <1>4
  <2>2. j \notin wrong
    BY <1>3, <2>1
  <2> QED
    BY <2>1, <2>2
<1> HIDE DEF i
<1> QED
  BY <1>1, <1>2, <1>4, <1>5

\* A divergence with a line to it is the first of the records both have that differs.
LEMMA FirstParted ==
    ASSUME NEW recorded, NEW n \in Nat, DOMAIN recorded = 1 .. n, NEW replayed, NEW first,
           NEW c \in FirstDivergence(recorded, replayed, first), c.line > 0
    PROVE  \E i \in 1 .. n :
              /\ c = Diverged(i - 1 + first) /\ i \in DOMAIN replayed
              /\ recorded[i] # replayed[i]
              /\ \A j \in 1 .. i - 1 : j \in DOMAIN replayed => recorded[j] = replayed[j]
<1> DEFINE parted == {i \in DOMAIN recorded \cap DOMAIN replayed : recorded[i] # replayed[i]}
           i == Min(parted)
<1>1. FirstDivergence(recorded, replayed, first) =
        IF parted # {} THEN {Diverged(i - 1 + first)}
        ELSE IF Len(recorded) # Len(replayed) THEN {DivergedLength} ELSE {}
  BY DEF FirstDivergence
<1>2. ~ DivergedLength.line > 0
  BY DEF DivergedLength, Bad
<1>3. parted # {} /\ c = Diverged(i - 1 + first)
  BY <1>1, <1>2
<1>4. i \in parted /\ \A j \in parted : i <= j
  <2>1. parted \in SUBSET Nat
    OBVIOUS
  <2> HIDE DEF parted
  <2> QED
    BY <1>3, <2>1, LeastFacts
<1>5. i \in 1 .. n /\ i \in DOMAIN replayed /\ recorded[i] # replayed[i]
  BY <1>4
<1>6. ASSUME NEW j \in 1 .. i - 1, j \in DOMAIN replayed PROVE recorded[j] = replayed[j]
  <2>1. j \in 1 .. n /\ ~ i <= j
    <3> HIDE DEF i
    <3> QED
      BY <1>5
  <2>2. j \notin parted
    BY <1>4, <2>1
  <2> QED
    BY <1>6, <2>1, <2>2
<1> HIDE DEF i
<1> QED
  BY <1>3, <1>5, <1>6

LEMMA LinesOfWords ==
    /\ \A why, line : Wrong(why, line).line = line /\ Wrong(why, line).why = why
    /\ \A why, line : Bad(why, line).line = line
    /\ \A line : Diverged(line).line = line
BY DEF Wrong, Bad, Diverged

\* Every line but the one that is wrong is some line that was written there, and in its place
\* unless lines were lost or moved.
LEMMA OtherLines ==
    ASSUME NEW L, NEW text \in Seq(L), NEW M, NEW written \in Seq(M), NEW d,
           MarredAt(text, written, d), NEW first \in Nat \ {0},
           Displaced(text, written, d) => d >= first,
           NEW i \in DOMAIN text, i >= first, i # d
    PROVE  \E k \in DOMAIN written :
              /\ k >= first /\ text[i] = written[k]
              /\ i < d \/ ~ Displaced(text, written, d) => k = i
<1>1. /\ Len(text) \in Nat /\ DOMAIN text = 1 .. Len(text)
      /\ Len(written) \in Nat /\ DOMAIN written = 1 .. Len(written)
  BY LenProperties
<1>2. /\ FirstUnlike(text, written, d)
      /\ Misspelt(text, written, d) \/ CutShort(text, written, d) \/ Displaced(text, written, d)
  BY DEF MarredAt
<1>3. d \in Nat \ {0} /\ i \in Nat \ {0}
  BY <1>1, <1>2, FirstDifferenceIs
<1>4. CASE i < d
  <2>1. i \in 1 .. d - 1
    BY <1>3, <1>4
  <2>2. i \in DOMAIN written /\ text[i] = written[i]
    BY <1>2, <2>1 DEF FirstUnlike
  <2> QED
    BY <2>2
<1>5. CASE i > d /\ Displaced(text, written, d)
  <2>1. PICK k \in DOMAIN written : k >= d /\ text[i] = written[k]
    BY <1>5 DEF Displaced
  <2>2. k >= first
    BY <1>1, <1>3, <1>5, <2>1
  <2>3. ~ i < d
    BY <1>3, <1>5
  <2> QED
    BY <1>5, <2>1, <2>2, <2>3
<1>6. CASE i > d /\ Misspelt(text, written, d)
  BY <1>1, <1>6 DEF Misspelt
<1>7. CASE i > d /\ CutShort(text, written, d)
  BY <1>1, <1>3, <1>7 DEF CutShort
<1>8. i < d \/ i > d
  BY <1>3
<1> QED
  BY <1>2, <1>4, <1>5, <1>6, <1>7, <1>8

\* Lines that were moved are not the first line of a text that can be told by its first line.
LEMMA DisplacedNext ==
    ASSUME NEW text, NEW L, NEW written \in Seq(L), NEW d \in Nat \ {0},
           Displaced(text, written, d), d \in DOMAIN text
    PROVE  \/ d + 1 \in DOMAIN written /\ text[d] = written[d + 1]
           \/ d >= 2 /\ d - 1 \in DOMAIN written /\ text[d] = written[d - 1]
<1>1. PICK k \in DOMAIN written : k \in {d - 1, d + 1} /\ text[d] = written[k]
  BY DEF Displaced
<1>2. DOMAIN written = 1 .. Len(written) /\ Len(written) \in Nat
  BY LenProperties
<1>3. k = d - 1 => d >= 2
  BY <1>1, <1>2
<1> QED
  BY <1>1, <1>3

LEMMA InstantIsNoWord ==
    ASSUME NEW at \in Instant
    PROVE  WriteInstant(at) \notin Words
<1>1. ReadInstant(<<WriteInstant(at)>>) = Read(at)
  BY InstantReadsBack
<1>2. \E c \in Clocked : <<WriteInstant(at)>> = <<c.text>>
  BY <1>1, ReadOrWrong DEF ReadInstant
<1>3. \A c \in Clocked : c.text \notin Words
  BY DEF Clocked, Words
<1>4. \A c \in Clocked : <<WriteInstant(at)>> = <<c.text>> => WriteInstant(at) = c.text
  OBVIOUS
<1> QED
  BY <1>2, <1>3, <1>4

\* A header is told by its first word.
LEMMA HeaderOpens ==
    ASSUME NEW S, NEW line \in Seq(S), NEW kind, Numbered(line, Header(kind)) # {}
    PROVE  line[1] = "chronoloop" /\ Len(line) > 0
<1>1. Opens(line, Header(kind))
  BY DEF Numbered
<1>2. Header(kind) \in Seq({"chronoloop", kind, "seed"}) /\ Len(Header(kind)) = 3
      /\ Header(kind)[1] = "chronoloop"
  BY DEF Header
<1>3. Len(Header(kind)) <= Len(line) /\ \A i \in 1 .. Len(Header(kind)) : line[i] = Header(kind)[i]
  BY <1>1, <1>2, Opened
<1> QED
  BY <1>2, <1>3, LenProperties

--------------------------------------------------------------------------------
(* Recordings that came to harm. *)

LEMMA RecordingLines ==
    ASSUME NEW r \in Recording
    PROVE  LET written == WriteRecording(r)
           IN /\ written \in Seq(Line) /\ Len(written) = 1 + Len(r.entries)
              /\ r.seed \in Number /\ r.entries \in Seq(Entry)
              /\ written[1] = Append(Header("history"), Written(r.seed))
              /\ Numbered(written[1], Header("history")) = {r.seed}
              /\ \A i \in 1 .. Len(r.entries) :
                    /\ written[i + 1] = WriteEntry(r.entries[i]) /\ r.entries[i] \in Entry
                    /\ ReadEntry(written[i + 1]) = Read(r.entries[i])
                    /\ written[i + 1][1] \notin Words
<1> DEFINE head == Append(Header("history"), Written(r.seed))
           lines == [i \in DOMAIN r.entries |-> WriteEntry(r.entries[i])]
           text == <<head>> \o lines
<1>1. r.seed \in Number /\ r.entries \in Seq(Entry)
  BY DEF Recording
<1>2. "history" \in Words
  BY DEF Words
<1>3. Numbered(head, Header("history")) = {r.seed} /\ head \in Line
  BY <1>1, <1>2, HeaderReadsBack, HeadersAreLines
<1>4. /\ lines \in Seq(Line) /\ Len(lines) = Len(r.entries)
      /\ \A i \in 1 .. Len(r.entries) : lines[i] = WriteEntry(r.entries[i]) /\ r.entries[i] \in Entry
  <2>1. \A i \in DOMAIN r.entries : r.entries[i] \in Entry
    BY <1>1
  <2>2. \A i \in DOMAIN r.entries : WriteEntry(r.entries[i]) \in Line
    BY <2>1, EntryReadsBack
  <2> QED
    BY <1>1, <2>1, <2>2
<1> HIDE DEF lines, head
<1>5. /\ text \in Seq(Line) /\ text[1] = head /\ Len(text) = 1 + Len(lines)
      /\ \A i \in 1 .. Len(lines) : text[i + 1] = lines[i]
  BY <1>3, <1>4, Headed
<1> HIDE DEF text
<1>6. ASSUME NEW e \in Entry PROVE WriteEntry(e)[1] \notin Words
  <2>1. e.at \in Instant /\ e.message \in Message
    BY <1>6 DEF Entry
  <2> DEFINE w == WriteInstant(e.at)
             m == e.message
  <2>2. w \in Token /\ w \notin Words
    BY <2>1, InstantReadsBack, InstantIsNoWord
  <2>3. m \in Seq(Token)
    BY <2>1, MessageFacts DEF Line
  <2> HIDE DEF w, m
  <2>4. (<<w>> \o m)[1] = w
    BY <2>2, <2>3, Headed
  <2> QED
    BY <2>2, <2>4 DEF WriteEntry, w, m
<1>7. ASSUME NEW i \in 1 .. Len(r.entries)
      PROVE  /\ text[i + 1] = WriteEntry(r.entries[i]) /\ r.entries[i] \in Entry
             /\ ReadEntry(text[i + 1]) = Read(r.entries[i])
             /\ text[i + 1][1] \notin Words
  BY <1>4, <1>5, <1>6, EntryReadsBack
<1>8. WriteRecording(r) = text
  BY DEF WriteRecording, text, lines, head
<1> QED
  BY <1>1, <1>3, <1>4, <1>5, <1>7, <1>8 DEF head

\* A recording that came to harm is complained about at its first wrong line, whether it
\* cannot be read there or is not what the run recorded.
LEMMA RecordingBlamed ==
    ASSUME NEW r \in Recording, NEW S, NEW text \in Seq(Seq(S)), NEW d,
           MarredAt(text, WriteRecording(r), d)
    PROVE  LET page == ReadRecording(text)
           IN /\ ~ IsRead(page) => page.line = d
              /\ IsRead(page) => \A c \in FirstDivergence(page.value.entries, r.entries, 2) :
                                    c.line > 0 => c.line = d
<1> DEFINE written == WriteRecording(r)
           page == ReadRecording(text)
           head == Numbered(text[1], Header("history"))
           n == Len(text) - 1
           results == [i \in 1 .. n |-> ReadEntry(text[i + 1])]
           entries == Collect(results, 2)
           len == Len(r.entries)
<1>1. /\ written \in Seq(Line) /\ Len(written) = 1 + len
      /\ r.entries \in Seq(Entry)
      /\ Numbered(written[1], Header("history")) = {r.seed}
      /\ \A i \in 1 .. len :
            /\ written[i + 1] = WriteEntry(r.entries[i]) /\ r.entries[i] \in Entry
            /\ ReadEntry(written[i + 1]) = Read(r.entries[i])
            /\ written[i + 1][1] \notin Words
  BY RecordingLines
<1>2. /\ len \in Nat /\ DOMAIN r.entries = 1 .. len /\ DOMAIN written = 1 .. 1 + len
      /\ Len(text) \in Nat /\ DOMAIN text = 1 .. Len(text)
  BY <1>1, LenProperties
<1>3. page = IF text = <<>> THEN Wrong("MissingHeader", 1)
             ELSE IF head = {} THEN Wrong("BadHeader", 1)
             ELSE IF IsRead(entries)
                  THEN Read([seed |-> Max(head), entries |-> entries.value])
                  ELSE entries
  BY DEF ReadRecording
<1> HIDE DEF written, head, len, page
<1>4. FirstUnlike(text, written, d) /\ MarredAt(text, written, d)
  BY DEF MarredAt, written
<1>5. d \in Nat \ {0} /\ d <= Len(text) + 1
  BY <1>1, <1>4, FirstDifferenceIs
<1>6. CASE text = <<>>
  <2>1. Len(text) = 0
    BY <1>6
  <2>2. d = 1
    BY <1>5, <2>1
  <2>3. page = Wrong("MissingHeader", 1)
    BY <1>3, <1>6
  <2> QED
    BY <2>2, <2>3, ReadOrWrong, LinesOfWords DEF page
<1>7. CASE text # <<>> /\ head = {}
  <2>1. d = 1
    <3> SUFFICES ASSUME d # 1 PROVE FALSE
      OBVIOUS
    <3>1. 1 \in 1 .. d - 1
      BY <1>5
    <3>2. text[1] = written[1]
      BY <1>4, <3>1 DEF FirstUnlike
    <3> QED
      BY <1>1, <1>7, <3>2 DEF head
  <2>2. page = Wrong("BadHeader", 1)
    BY <1>3, <1>7
  <2> QED
    BY <2>1, <2>2, ReadOrWrong, LinesOfWords DEF page
<1>8. CASE text # <<>> /\ head # {}
  <2>1. Len(text) # 0 /\ n \in Nat /\ 1 \in DOMAIN text
    <3>1. Len(text) # 0
      BY <1>8, EmptySeq
    <3> QED
      BY <1>2, <3>1
  <2>2. text[1][1] = "chronoloop"
    <3>1. text[1] \in Seq(S)
      BY <1>2, <2>1, ElementOfSeq
    <3> QED
      BY <1>8, <3>1, HeaderOpens DEF head
  <2>3. Displaced(text, written, d) => d >= 2
    <3> SUFFICES ASSUME Displaced(text, written, d), d = 1 PROVE FALSE
      BY <1>5
    <3>1. 2 \in DOMAIN written /\ text[1] = written[2]
      BY <1>1, <2>1, DisplacedNext
    <3>2. 1 \in 1 .. len /\ 1 + 1 = 2
      BY <1>2, <3>1
    <3>3. written[2][1] \notin Words
      BY <1>1, <3>2
    <3> QED
      BY <2>2, <3>1, <3>3 DEF Words
  \* Every other line is an entry that was written.
  <2>4. ASSUME NEW i \in 1 .. n, i + 1 # d
        PROVE  \E k \in 1 .. len :
                  /\ ReadEntry(text[i + 1]) = Read(r.entries[k])
                  /\ i + 1 < d \/ ~ Displaced(text, written, d) => k = i
    <3> DEFINE next == i + 1
    <3>1. next \in DOMAIN text /\ next >= 2 /\ next # d
      BY <1>2, <2>1, <2>4
    <3> HIDE DEF next
    <3>0. \E k \in DOMAIN written :
            /\ k >= 2 /\ text[next] = written[k]
            /\ next < d \/ ~ Displaced(text, written, d) => k = next
      <4>1. PICK two : two = 2 /\ two \in Nat \ {0}
        OBVIOUS
      <4>2. MarredAt(text, written, d) /\ written \in Seq(Line)
        BY <1>1, <1>4
      <4>3. (Displaced(text, written, d) => d >= two) /\ next >= two
        BY <2>3, <3>1, <4>1
      <4>4. \E k \in DOMAIN written :
              /\ k >= two /\ text[next] = written[k]
              /\ next < d \/ ~ Displaced(text, written, d) => k = next
        BY <3>1, <4>1, <4>2, <4>3, OtherLines
      <4> QED
        BY <4>1, <4>4
    <3>2. PICK k \in DOMAIN written :
            /\ k >= 2 /\ text[i + 1] = written[k]
            /\ i + 1 < d \/ ~ Displaced(text, written, d) => k = i + 1
      BY <3>0 DEF next
    <3>3. k - 1 \in 1 .. len /\ k - 1 + 1 = k
      BY <1>2, <3>2
    <3>4. ReadEntry(written[k]) = Read(r.entries[k - 1])
      BY <1>1, <3>3
    <3>5. k = i + 1 => k - 1 = i
      BY <3>2
    <3> QED
      BY <3>2, <3>3, <3>4, <3>5
  <2>5. DOMAIN results = 1 .. n /\ \A i \in 1 .. n : results[i] = ReadEntry(text[i + 1])
    OBVIOUS
  <2> HIDE DEF results, n
  <2>6. CASE ~ IsRead(entries)
    <3>1. PICK i \in 1 .. n :
            entries = Wrong(results[i].why, i - 1 + 2) /\ ~ IsRead(results[i])
      BY <2>1, <2>5, <2>6, FirstWrong
    <3>2. i + 1 = d
      BY <2>4, <2>5, <3>1, ReadOrWrong
    <3>3. page = entries /\ entries.line = d
      <4>1. i - 1 + 2 = i + 1
        OBVIOUS
      <4> QED
        BY <1>3, <1>8, <2>6, <3>1, <3>2, <4>1, LinesOfWords
    <3> QED
      BY <2>6, <3>3 DEF page
  <2>7. CASE IsRead(entries)
    <3> DEFINE recorded == [i \in 1 .. n |-> results[i].value]
    <3>1. (\A i \in 1 .. n : IsRead(results[i])) /\ entries.value = recorded
      <4>1. /\ \A i \in DOMAIN results : IsRead(results[i])
            /\ entries.value = [i \in DOMAIN results |-> results[i].value]
        BY <2>7, Collected
      <4> HIDE DEF entries
      <4> QED
        BY <2>5, <4>1
    <3>2. IsRead(page) /\ page.value.entries = recorded
      BY <1>3, <1>8, <2>7, <3>1, ReadOrWrong
    <3>3. ASSUME NEW c \in FirstDivergence(recorded, r.entries, 2), c.line > 0
          PROVE  c.line = d
      <4>1. DOMAIN recorded = 1 .. n /\ \A i \in 1 .. n : recorded[i] = results[i].value
        OBVIOUS
      <4> HIDE DEF recorded
      <4>2. PICK i \in 1 .. n :
              /\ c = Diverged(i - 1 + 2) /\ i \in DOMAIN r.entries
              /\ recorded[i] # r.entries[i]
              /\ \A j \in 1 .. i - 1 : j \in DOMAIN r.entries => recorded[j] = r.entries[j]
        <5>1. PICK two : two = 2
          OBVIOUS
        <5>2. c \in FirstDivergence(recorded, r.entries, two)
          BY <3>3, <5>1
        <5>3. \E i \in 1 .. n :
                /\ c = Diverged(i - 1 + two) /\ i \in DOMAIN r.entries
                /\ recorded[i] # r.entries[i]
                /\ \A j \in 1 .. i - 1 : j \in DOMAIN r.entries => recorded[j] = r.entries[j]
          <6> DEFINE replayed == r.entries
          <6>1. n \in Nat /\ DOMAIN recorded = 1 .. n
            BY <2>1, <4>1
          <6>2. c \in FirstDivergence(recorded, replayed, two) /\ c.line > 0
            BY <3>3, <5>2
          <6> HIDE DEF replayed
          <6>3. \E i \in 1 .. n :
                  /\ c = Diverged(i - 1 + two) /\ i \in DOMAIN replayed
                  /\ recorded[i] # replayed[i]
                  /\ \A j \in 1 .. i - 1 : j \in DOMAIN replayed => recorded[j] = replayed[j]
            BY <6>1, <6>2, FirstParted
          <6> QED
            BY <6>3 DEF replayed
        <5> QED
          BY <5>1, <5>3
      <4>3. ASSUME i + 1 # d PROVE FALSE
        <5>1. PICK k \in 1 .. len :
                /\ ReadEntry(text[i + 1]) = Read(r.entries[k])
                /\ i + 1 < d \/ ~ Displaced(text, written, d) => k = i
          BY <2>4, <4>3
        <5>2. recorded[i] = r.entries[k]
          BY <2>5, <4>1, <5>1, ReadOrWrong
        <5>3. k # i
          BY <4>2, <5>2
        <5>4. i + 1 > d /\ Displaced(text, written, d) /\ d >= 2
          BY <1>5, <2>3, <4>3, <5>1, <5>3
        <5> DEFINE j == d - 1
        <5>5. j \in 1 .. i - 1 /\ j \in 1 .. n /\ j \in 1 .. len /\ j + 1 = d
          <6>1. i \in 1 .. len /\ i \in 1 .. n /\ n \in Nat
            BY <1>2, <2>1, <4>2
          <6> QED
            BY <1>2, <1>5, <5>4, <6>1
        <5> HIDE DEF j
        <5>6. recorded[j] = r.entries[j]
          BY <1>2, <4>2, <5>5
        <5>7. IsRead(ReadEntry(text[d])) /\ ReadEntry(text[d]).value = r.entries[j]
          BY <2>5, <3>1, <4>1, <5>5, <5>6
        <5>8. d \in DOMAIN text /\ d \in DOMAIN written
          BY <1>2, <2>1, <5>5 DEF n
        <5>9. text[d] = WriteEntry(r.entries[j])
          <6>1. text[d] \in Seq(S)
            BY <1>2, <5>8, ElementOfSeq
          <6> QED
            BY <5>7, <6>1, EntrySpelt
        <5>10. written[d] = WriteEntry(r.entries[j])
          BY <1>1, <5>5
        <5> QED
          BY <1>4, <5>8, <5>9, <5>10 DEF FirstUnlike
      <4>4. c.line = i - 1 + 2 /\ i - 1 + 2 = i + 1
        BY <4>2, LinesOfWords
      <4> QED
        BY <4>3, <4>4
    <3> QED
      BY <3>2, <3>3 DEF page
  <2> QED
    BY <2>6, <2>7
<1> QED
  BY <1>6, <1>7, <1>8

--------------------------------------------------------------------------------
(* Traces that came to harm. *)

LEMMA SameNumber ==
    ASSUME NEW m \in Number, NEW n \in Number, NEW token,
           SpellsToken(token, Written(m)), SpellsToken(token, Written(n))
    PROVE  m = n
<1>1. \A k \in Number : Written(k) # "01"
  <2> SUFFICES ASSUME NEW k \in Number PROVE Written(k) # "01"
    OBVIOUS
  <2>1. k \in {0, 1, 2, 3, 4, 5}
    BY DEF Number
  <2>2. Written(k) \in {"0", "1", "2", "3", "4", "5"}
    BY <2>1 DEF Written, Numerals
  <2> QED
    BY <2>2
<1>2. Written(m) = Written(n)
  BY <1>1 DEF SpellsToken
<1>3. Digits(<<Written(m)>>) = {m} /\ Digits(<<Written(n)>>) = {n}
  BY NumberReadsBack
<1>4. {m} = {n}
  BY <1>2, <1>3
<1> QED
  BY <1>4

LEMMA InstantIsNoNumber ==
    ASSUME NEW at \in Instant
    PROVE  WriteInstant(at) # "1"
<1>1. ReadInstant(<<WriteInstant(at)>>) = Read(at)
  BY InstantReadsBack
<1>2. \E c \in Clocked : <<WriteInstant(at)>> = <<c.text>>
  BY <1>1, ReadOrWrong DEF ReadInstant
<1>3. \A c \in Clocked : c.text # "1"
  BY DEF Clocked
<1>4. \A c \in Clocked : <<WriteInstant(at)>> = <<c.text>> => WriteInstant(at) = c.text
  OBVIOUS
<1> QED
  BY <1>2, <1>3, <1>4

LEMMA SameInstant ==
    ASSUME NEW a \in Instant, NEW b \in Instant, NEW token,
           SpellsToken(token, WriteInstant(a)), SpellsToken(token, WriteInstant(b))
    PROVE  a = b
<1>1. WriteInstant(a) = WriteInstant(b)
  BY InstantIsNoNumber DEF SpellsToken
<1>2. Read(a) = Read(b)
  BY <1>1, InstantReadsBack
<1> QED
  BY <1>2, ReadOrWrong

LEMMA SpeltToken ==
    ASSUME NEW line, NEW written, SpellsLine(line, written), NEW j \in DOMAIN written
    PROVE  SpellsToken(line[j], written[j])
BY DEF SpellsLine, SpellsToken

\* Headers that spell the same number are of the same number.
LEMMA SameHeader ==
    ASSUME NEW S, NEW line \in Seq(S), NEW kind \in Words, NEW s \in Number,
           Numbered(line, Header(kind)) # {},
           SpellsLine(line, Append(Header(kind), Written(s)))
    PROVE  Max(Numbered(line, Header(kind))) = s
<1> DEFINE m == Max(Numbered(line, Header(kind)))
<1>1. m \in Number
  BY NumberRead DEF Numbered
<1>2. SpellsLine(line, Append(Header(kind), Written(m)))
  BY HeaderSpelt
<1> HIDE DEF m
<1>3. ASSUME NEW n \in Number
      PROVE  LET h == Append(Header(kind), Written(n)) IN 4 \in DOMAIN h /\ h[4] = Written(n)
  <2>1. Header(kind) \in Line /\ Len(Header(kind)) = 3 /\ Written(n) \in Token
    BY HeadersAreLines, NumberReadsBack
  <2> DEFINE w == Written(n)
             h == Header(kind)
             g == Append(h, w)
  <2> HIDE DEF w, h
  <2>2. g \in Seq(Token) /\ Len(g) = Len(h) + 1 /\ g[Len(h) + 1] = w
    BY <2>1, AppendProperties DEF w, h, Line
  <2>3. Len(h) = 3
    BY <2>1 DEF h
  <2> HIDE DEF g
  <2>4. Len(g) = 4 /\ g[4] = w /\ DOMAIN g = 1 .. 4
    BY <2>2, <2>3, LenProperties
  <2> QED
    BY <2>4 DEF g, h, w
<1>4. SpellsToken(line[4], Written(m)) /\ SpellsToken(line[4], Written(s))
  BY <1>1, <1>2, <1>3, SpeltToken
<1> QED
  BY <1>1, <1>4, SameNumber DEF m

LEMMA SameFork ==
    ASSUME NEW S, NEW line \in Seq(S), IsForkLine(line), IsRead(ReadFork(line)),
           NEW fork \in [at : Instant, seed : Number], SpellsLine(line, WriteFork(fork))
    PROVE  ReadFork(line).value = fork
<1> DEFINE f == ReadFork(line).value
<1>1. f \in [at : Instant, seed : Number] /\ SpellsLine(line, WriteFork(f))
  BY ForkSpelt
<1> HIDE DEF f
<1>2. ASSUME NEW g \in [at : Instant, seed : Number], SpellsLine(line, WriteFork(g))
      PROVE  SpellsToken(line[3], WriteInstant(g.at)) /\ SpellsToken(line[6], Written(g.seed))
  <2> DEFINE w == WriteInstant(g.at)
             n == Written(g.seed)
             written == <<"forked", "at", w, "to", "seed", n>>
  <2>1. WriteFork(g) = written
    BY DEF WriteFork
  <2> HIDE DEF w, n
  <2>2. DOMAIN written = 1 .. 6 /\ written[3] = w /\ written[6] = n
    OBVIOUS
  <2> HIDE DEF written
  <2>3. SpellsToken(line[3], written[3]) /\ SpellsToken(line[6], written[6])
    BY <1>2, <2>1, <2>2, SpeltToken
  <2> QED
    BY <2>2, <2>3 DEF w, n
<1>3. f.at = fork.at
  BY <1>1, <1>2, SameInstant
<1>4. f.seed = fork.seed
  BY <1>1, <1>2, SameNumber
<1> QED
  BY <1>1, <1>3, <1>4 DEF f

\* The lines that say what to run are the first, and the second if it is of a fork.
LEMMA HeadingIs ==
    ASSUME NEW L, NEW text \in Seq(L), text # <<>>
    PROVE  LET k == IF Len(text) > 1 /\ IsForkLine(text[2]) THEN 2 ELSE 1
           IN /\ Len(Heading(text)) = k /\ DOMAIN Heading(text) = 1 .. k
              /\ \A i \in 1 .. k : Heading(text)[i] = text[i]
<1> DEFINE forks == Len(text) > 1 /\ IsForkLine(text[2])
           k == IF forks THEN 2 ELSE 1
<1>1. Len(text) \in Nat /\ Len(text) >= 1
  BY EmptySeq, LenProperties
<1>2. Min({1, Len(text)}) = 1
  <2>1. {1, Len(text)} \in SUBSET Nat /\ 1 \in {1, Len(text)}
        /\ \A m \in {1, Len(text)} : 1 <= m
    BY <1>1
  <2> QED
    BY <2>1, SmallestIs
<1>3. Heading(text) = SubSeq(text, 1, k)
  BY <1>2 DEF Heading
<1>4. k \in Nat /\ k <= Len(text)
  BY <1>1
<1> HIDE DEF k
<1>5. SubSeq(text, 1, k) \in Seq(L) /\ Len(SubSeq(text, 1, k)) = k
      /\ \A i \in 1 .. k : SubSeq(text, 1, k)[i] = text[i]
  BY <1>4, Rejoined
<1>6. DOMAIN SubSeq(text, 1, k) = 1 .. k
  BY <1>5, LenProperties
<1> QED
  BY <1>3, <1>5, <1>6 DEF k

\* What does not open with the word, or counts otherwise, is no step that is due.
LEMMA NoStep ==
    ASSUME NEW S, NEW line \in Seq(S), NEW n, line[1] # "step"
    PROVE  ~ IsRead(ReadNumbered(line, n))
<1>1. ~ Opens(line, <<"step">>)
  <2> SUFFICES ASSUME Opens(line, <<"step">>) PROVE FALSE
    OBVIOUS
  <2>1. <<"step">> \in Seq({"step"}) /\ Len(<<"step">>) = 1 /\ <<"step">>[1] = "step"
    OBVIOUS
  <2>2. \A i \in 1 .. Len(<<"step">>) : line[i] = <<"step">>[i]
    BY <2>1, Opened
  <2> QED
    BY <2>1, <2>2
<1> QED
  BY <1>1, ReadOrWrong DEF ReadNumbered

LEMMA StepLine ==
    ASSUME NEW step \in TraceStep, NEW n \in Number
    PROVE  LET line == <<"step", Written(n)>> \o WriteStep(step)
           IN /\ line \in Line /\ line[1] = "step"
              /\ ReadNumbered(line, n) = Read(step)
              /\ \A m : m # n => ~ IsRead(ReadNumbered(line, m))
<1> DEFINE rest == WriteStep(step)
           w == Written(n)
           two == <<"step", w>>
           line == two \o rest
<1>1. ReadNumbered(line, n) = Read(step) /\ line \in Line
  BY NumberedReadsBack
<1>2. rest \in Seq(Token) /\ w \in Token /\ "step" \in Token /\ Digits(<<w>>) = {n}
  BY StepReadsBack, NumberReadsBack, WordsAreTokens DEF Words, Line
<1> HIDE DEF rest, w
<1>3. two \in Seq(Token) /\ Len(two) = 2 /\ two[1] = "step" /\ two[2] = w
  BY <1>2
<1> HIDE DEF two
<1>4. /\ line \in Seq(Token) /\ Len(line) = 2 + Len(rest)
      /\ \A i \in 1 .. 2 + Len(rest) : line[i] = IF i <= 2 THEN two[i] ELSE rest[i - 2]
  <2>1. /\ line \in Seq(Token) /\ Len(line) = Len(two) + Len(rest)
        /\ \A i \in 1 .. Len(two) + Len(rest) :
              line[i] = IF i <= Len(two) THEN two[i] ELSE rest[i - Len(two)]
    BY <1>2, <1>3, ConcatProperties
  <2> HIDE DEF line
  <2> QED
    BY <1>3, <2>1
<1>5. Len(rest) \in Nat
  BY <1>2, LenProperties
<1> HIDE DEF line
<1>6. line[1] = "step" /\ line[2] = w /\ 2 \in 1 .. Len(line)
  BY <1>3, <1>4, <1>5
<1>7. SubSeq(line, 2, 2) = <<w>>
  BY <1>4, <1>6, OneOf
<1>8. ASSUME NEW m, m # n PROVE ~ IsRead(ReadNumbered(line, m))
  <2>1. Digits(SubSeq(line, 2, 2)) # {m}
    BY <1>2, <1>7, <1>8
  <2> QED
    BY <2>1, ReadOrWrong DEF ReadNumbered
<1> QED
  BY <1>1, <1>6, <1>8 DEF line, two, w, rest

\* A trace as it is written: its heading, and a line for each step.
LEMMA TraceLines ==
    ASSUME NEW t \in Trace
    PROVE  LET written == WriteTrace(t)
               h == 1 + Len(t.fork)
           IN /\ written \in Seq(Line) /\ h \in {1, 2} /\ Len(written) = h + Len(t.steps)
              /\ t.seed \in Number /\ t.steps \in Seq(TraceStep)
              /\ written[1] = Append(Header("trace"), Written(t.seed))
              /\ Numbered(written[1], Header("trace")) = {t.seed}
              /\ h = 1 => t.fork = <<>>
              /\ h = 2 => /\ t.fork = <<t.fork[1]>> /\ t.fork[1] \in [at : Instant, seed : Number]
                          /\ written[2] = WriteFork(t.fork[1])
              /\ \A i \in 1 .. Len(t.steps) :
                    /\ written[h + i] = <<"step", Written(i - 1)>> \o WriteStep(t.steps[i])
                    /\ t.steps[i] \in TraceStep /\ i - 1 \in Number
<1> DEFINE head == Append(Header("trace"), Written(t.seed))
           forks == [i \in DOMAIN t.fork |-> WriteFork(t.fork[i])]
           lines == StepLines(t.steps)
           start == <<head>> \o forks
           text == start \o lines
           k == Len(t.fork)
           len == Len(t.steps)
           Forks == [at : Instant, seed : Number]
<1>1. /\ t.seed \in Number /\ t.fork \in Seq(Forks)
      /\ t.steps \in Seq(TraceStep) /\ k < 2 /\ len <= 6
  BY NumbersAreSix DEF Trace, Steps
<1>2. "trace" \in Words
  BY DEF Words
<1>3. Numbered(head, Header("trace")) = {t.seed} /\ head \in Line
  BY <1>1, <1>2, HeaderReadsBack, HeadersAreLines
<1>4. /\ k \in Nat /\ DOMAIN t.fork = 1 .. k /\ len \in Nat /\ DOMAIN t.steps = 1 .. len
      /\ \A i \in 1 .. k : t.fork[i] \in Forks
  BY <1>1, LenProperties, ElementOfSeq
<1>5. /\ lines \in Seq(Line) /\ Len(lines) = len
      /\ \A i \in 1 .. len :
            /\ lines[i] = <<"step", Written(i - 1)>> \o WriteStep(t.steps[i])
            /\ t.steps[i] \in TraceStep /\ i - 1 \in Number
  <2>1. lines \in Seq(Line)
    BY <1>1, StepsReadBack
  <2>2. DOMAIN lines = 1 .. len
        /\ \A i \in 1 .. len : lines[i] = <<"step", Written(i - 1)>> \o WriteStep(t.steps[i])
    BY <1>4 DEF StepLines
  <2> HIDE DEF lines
  <2>3. Len(lines) = len
    BY <1>4, <2>1, <2>2, LenProperties
  <2>4. \A i \in 1 .. len : t.steps[i] \in TraceStep /\ i - 1 \in Number
    <3>1. \A i \in 1 .. len : i - 1 \in 0 .. 5
      BY <1>1, <1>4
    <3> QED
      BY <1>1, <1>4, <3>1, ElementOfSeq DEF Number
  <2> QED
    BY <2>1, <2>2, <2>3, <2>4
<1>6. /\ forks \in Seq(Line) /\ Len(forks) = k
      /\ \A i \in 1 .. k : forks[i] = WriteFork(t.fork[i])
  <2>1. \A i \in 1 .. k : WriteFork(t.fork[i]) \in Line
    <3> SUFFICES ASSUME NEW i \in 1 .. k PROVE WriteFork(t.fork[i]) \in Line
      OBVIOUS
    <3> DEFINE f == t.fork[i]
    <3>1. f.at \in Instant /\ f.seed \in Number /\ f = [at |-> f.at, seed |-> f.seed]
      BY <1>4
    <3> HIDE DEF f
    <3>2. WriteFork(f) \in Line
      BY <3>1, ForkReadsBack
    <3> QED
      BY <3>2 DEF f
  <2> HIDE DEF k
  <2> QED
    BY <1>4, <2>1
<1>7. k = 0 \/ k = 1
  <2> HIDE DEF k
  <2> QED
    BY <1>1, <1>4
<1>8. /\ k = 0 => t.fork = <<>>
      /\ k = 1 => t.fork = <<t.fork[1]>> /\ t.fork[1] \in Forks
  <2>1. k = 0 => t.fork = <<>>
    BY <1>1, EmptySeq
  <2>2. k = 1 => t.fork = <<t.fork[1]>> /\ t.fork[1] \in Forks
    <3> SUFFICES ASSUME k = 1 PROVE t.fork = <<t.fork[1]>> /\ t.fork[1] \in Forks
      OBVIOUS
    <3>1. t.fork[1] \in Forks
      BY <1>4
    <3> QED
      BY <1>1, <3>1
  <2> QED
    BY <2>1, <2>2
<1> HIDE DEF head, forks, lines, k, len
<1>9. /\ start \in Seq(Line) /\ Len(start) = 1 + k /\ start[1] = head
      /\ k = 1 => start[2] = WriteFork(t.fork[1])
  <2>1. /\ start \in Seq(Line) /\ Len(start) = 1 + Len(forks) /\ start[1] = head
        /\ \A i \in 1 .. Len(forks) : start[i + 1] = forks[i]
    BY <1>3, <1>6, Headed
  <2> HIDE DEF start
  <2>2. k = 1 => start[2] = forks[1]
    BY <1>6, <2>1
  <2> QED
    BY <1>6, <2>1, <2>2
<1> HIDE DEF start
<1>10. /\ text \in Seq(Line) /\ Len(text) = 1 + k + len
       /\ \A i \in 1 .. 1 + k + len : text[i] = IF i <= 1 + k THEN start[i] ELSE lines[i - (1 + k)]
  <2>1. /\ text \in Seq(Line) /\ Len(text) = Len(start) + Len(lines)
        /\ \A i \in 1 .. Len(start) + Len(lines) :
              text[i] = IF i <= Len(start) THEN start[i] ELSE lines[i - Len(start)]
    BY <1>5, <1>9, ConcatProperties
  <2> HIDE DEF text
  <2> QED
    BY <1>5, <1>9, <2>1
<1> HIDE DEF text
<1>11. text[1] = head /\ (k = 1 => text[2] = WriteFork(t.fork[1]))
  BY <1>4, <1>7, <1>9, <1>10
<1>12. \A i \in 1 .. len : text[1 + k + i] = lines[i]
  <2> SUFFICES ASSUME NEW i \in 1 .. len PROVE text[1 + k + i] = lines[i]
    OBVIOUS
  <2> DEFINE m == 1 + k + i
             before == 1 + k
  <2>1. m \in 1 .. before + len /\ ~ m <= before /\ m - before = i
    BY <1>4
  <2>2. \A j \in 1 .. before + len :
          text[j] = IF j <= before THEN start[j] ELSE lines[j - before]
    BY <1>10
  <2> HIDE DEF m, before
  <2>3. text[m] = lines[i]
    BY <2>1, <2>2
  <2> QED
    BY <2>3 DEF m
<1>13. WriteTrace(t) = text
  BY DEF WriteTrace, StepLines, text, start, lines, forks, head
<1>14. 1 + k \in {1, 2} /\ (1 + k = 1 => k = 0) /\ (1 + k = 2 => k = 1)
  BY <1>7
<1> DEFINE h == 1 + k
<1>15. /\ text \in Seq(Line) /\ h \in {1, 2} /\ Len(text) = h + len
       /\ h = 1 => t.fork = <<>>
       /\ h = 2 => /\ t.fork = <<t.fork[1]>> /\ t.fork[1] \in Forks
                   /\ text[2] = WriteFork(t.fork[1])
       /\ \A i \in 1 .. len :
             /\ text[h + i] = <<"step", Written(i - 1)>> \o WriteStep(t.steps[i])
             /\ t.steps[i] \in TraceStep /\ i - 1 \in Number
  BY <1>5, <1>8, <1>10, <1>11, <1>12, <1>14
<1> QED
  BY <1>1, <1>3, <1>11, <1>13, <1>15 DEF head, h, k, len

\* What reading a trace comes to once its header is read.
LEMMA TraceParsed ==
    ASSUME NEW L, NEW text \in Seq(L), text # <<>>, Numbered(text[1], Header("trace")) # {}
    PROVE  LET page == ReadTrace(text)
               forks == Len(text) > 1 /\ IsForkLine(text[2])
               h == IF forks THEN 2 ELSE 1
               n == Len(text) - h
               result(i) == ReadNumbered(text[h + i], i - 1)
               late == forks => IsRead(ReadFork(text[2]))
           IN /\ n \in Nat
              /\ ~ late => ~ IsRead(page) /\ page.line = 2
              /\ late /\ ~ IsRead(page) =>
                    \E i \in 1 .. n : /\ page.line = h + i /\ ~ IsRead(result(i))
                                      /\ \A j \in 1 .. i - 1 : IsRead(result(j))
              /\ IsRead(page) =>
                    /\ late
                    /\ page.value.seed = Max(Numbered(text[1], Header("trace")))
                    /\ page.value.fork = IF forks THEN <<ReadFork(text[2]).value>> ELSE <<>>
                    /\ \A i \in 1 .. n : IsRead(result(i))
                    /\ page.value.steps = [i \in 1 .. n |-> result(i).value]
                    /\ FirstLine(page.value) = h + 1
<1> DEFINE page == ReadTrace(text)
           head == Numbered(text[1], Header("trace"))
           forks == Len(text) > 1 /\ IsForkLine(text[2])
           fork == IF forks THEN ReadFork(text[2]) ELSE Read(<<>>)
           h == IF forks THEN 2 ELSE 1
           first == IF forks THEN 3 ELSE 2
           records == After(text, first - 1)
           steps == ReadSteps(records, first)
           n == Len(text) - h
           results == [i \in DOMAIN records |-> ReadNumbered(records[i], i - 1)]
           traced == [seed |-> Max(head), fork |-> IF forks THEN <<fork.value>> ELSE <<>>,
                      steps |-> steps.value]
<1>1. page = IF ~ IsRead(fork) THEN fork ELSE IF ~ IsRead(steps) THEN steps ELSE Read(traced)
  BY DEF ReadTrace
<1>2. n \in Nat /\ h \in Nat /\ h <= Len(text) /\ first = h + 1 /\ first - 1 = h /\ h \in {1, 2}
  <2>1. Len(text) \in Nat /\ Len(text) >= 1
    BY EmptySeq, LenProperties
  <2> QED
    BY <2>1
<1>3. DOMAIN records = 1 .. n /\ \A i \in 1 .. n : records[i] = text[h + i]
  <2>1. records = After(text, h)
    BY <1>2
  <2> HIDE DEF h, records
  <2>2. h \in Nat /\ h <= Len(text)
    BY <1>2
  <2>3. /\ After(text, h) \in Seq(L) /\ Len(After(text, h)) = Len(text) - h
        /\ \A i \in 1 .. Len(text) - h : After(text, h)[i] = text[h + i]
    BY <2>2, Rejoined
  <2> QED
    BY <2>1, <2>3, LenProperties
<1>4. steps = Collect(results, first)
  BY DEF ReadSteps
<1>5. DOMAIN results = 1 .. n /\ \A i \in 1 .. n : results[i] = ReadNumbered(text[h + i], i - 1)
  <2> HIDE DEF records, n, h
  <2> QED
    BY <1>3
<1>6. ~ IsRead(fork) <=> forks /\ ~ IsRead(ReadFork(text[2]))
  BY ReadOrWrong
<1>7. ~ IsRead(ReadFork(text[2])) => ReadFork(text[2]).line = 2
  <2>1. \/ \E value : ReadFork(text[2]) = Read(value)
        \/ ReadFork(text[2]) = Wrong("BadFork", 2)
    BY DEF ReadFork
  <2> QED
    BY <2>1, ReadOrWrong, LinesOfWords
<1>8. forks \in BOOLEAN /\ (forks => fork = ReadFork(text[2]))
  OBVIOUS
<1>9. /\ traced.seed = Max(head) /\ traced.steps = steps.value
      /\ traced.fork = IF forks THEN <<fork.value>> ELSE <<>>
  OBVIOUS
<1>10. FirstLine(traced) = h + 1
  <2>1. \A a : <<a>> # <<>>
    OBVIOUS
  <2>2. traced.fork = <<>> <=> ~ forks
    BY <1>9, <2>1
  <2> HIDE DEF traced
  <2> QED
    BY <2>2 DEF FirstLine
<1> HIDE DEF page, head, fork, h, first, records, steps, n, results, traced
<1>11. ASSUME forks, ~ IsRead(ReadFork(text[2])) PROVE ~ IsRead(page) /\ page.line = 2
  BY <1>1, <1>6, <1>7, <1>8, <1>11
<1>12. ASSUME IsRead(fork), ~ IsRead(page)
       PROVE  \E i \in 1 .. n :
                 /\ page.line = h + i /\ ~ IsRead(ReadNumbered(text[h + i], i - 1))
                 /\ \A j \in 1 .. i - 1 : IsRead(ReadNumbered(text[h + j], j - 1))
  <2>1. ~ IsRead(steps) /\ page = steps
    BY <1>1, <1>12, ReadOrWrong
  <2>2. PICK i \in 1 .. n :
          /\ steps = Wrong(results[i].why, i - 1 + first)
          /\ ~ IsRead(results[i])
          /\ \A j \in 1 .. i - 1 : IsRead(results[j])
    BY <1>2, <1>4, <1>5, <2>1, FirstWrong
  <2>3. page.line = h + i
    <3>1. i - 1 + first = h + i
      BY <1>2
    <3> QED
      BY <2>1, <2>2, <3>1, LinesOfWords
  <2>4. \A j \in 1 .. i - 1 : j \in 1 .. n
    BY <1>2
  <2> QED
    BY <1>5, <2>2, <2>3, <2>4
<1>13. ASSUME IsRead(page)
       PROVE  /\ IsRead(fork) /\ page.value = traced
              /\ \A i \in 1 .. n : IsRead(ReadNumbered(text[h + i], i - 1))
              /\ steps.value = [i \in 1 .. n |-> ReadNumbered(text[h + i], i - 1).value]
  <2>1. IsRead(fork) /\ IsRead(steps) /\ page = Read(traced)
    BY <1>1, <1>13
  <2>2. /\ \A i \in DOMAIN results : IsRead(results[i])
        /\ steps.value = [i \in DOMAIN results |-> results[i].value]
    BY <1>4, <2>1, Collected
  <2>3. steps.value = [i \in 1 .. n |-> ReadNumbered(text[h + i], i - 1).value]
    BY <1>5, <2>2
  <2> QED
    BY <1>5, <2>1, <2>2, <2>3, ReadOrWrong
<1>14. IsRead(page) => page.value.fork = IF forks THEN <<ReadFork(text[2]).value>> ELSE <<>>
  BY <1>8, <1>9, <1>13
<1> QED
  BY <1>2, <1>6, <1>9, <1>10, <1>11, <1>12, <1>13, <1>14 DEF page, head, h, n

\* The lines of a trace begin as nothing else does.
LEMMA TraceOpenings ==
    ASSUME NEW t \in Trace
    PROVE  LET written == WriteTrace(t)
               h == 1 + Len(t.fork)
           IN /\ written[1][1] = "chronoloop"
              /\ h = 2 => /\ written[2][1] = "forked" /\ IsForkLine(written[2])
                          /\ ReadFork(written[2]) = Read(t.fork[1])
              /\ \A i \in 1 .. Len(t.steps) :
                    /\ written[h + i][1] = "step"
                    /\ ReadNumbered(written[h + i], i - 1) = Read(t.steps[i])
                    /\ \A m : m # i - 1 => ~ IsRead(ReadNumbered(written[h + i], m))
<1> DEFINE written == WriteTrace(t)
           h == 1 + Len(t.fork)
           len == Len(t.steps)
<1>1. /\ written \in Seq(Line) /\ h \in {1, 2} /\ Len(written) = h + len
      /\ t.steps \in Seq(TraceStep) /\ t.seed \in Number
      /\ Numbered(written[1], Header("trace")) = {t.seed}
      /\ h = 2 => /\ t.fork[1] \in [at : Instant, seed : Number]
                  /\ written[2] = WriteFork(t.fork[1])
      /\ \A i \in 1 .. len :
            /\ written[h + i] = <<"step", Written(i - 1)>> \o WriteStep(t.steps[i])
            /\ t.steps[i] \in TraceStep /\ i - 1 \in Number
  BY TraceLines
<1> HIDE DEF written, h, len
<1>2. written[1][1] = "chronoloop"
  <2>1. len \in Nat
    BY <1>1, LenProperties DEF len
  <2>2. 1 \in 1 .. Len(written)
    BY <1>1, <2>1
  <2>3. written[1] \in Seq(Token)
    BY <1>1, <2>2, ElementOfSeq DEF Line
  <2>4. Numbered(written[1], Header("trace")) # {}
    BY <1>1
  <2> QED
    BY <2>3, <2>4, HeaderOpens
<1>3. ASSUME h = 2
      PROVE  /\ written[2][1] = "forked" /\ IsForkLine(written[2])
             /\ ReadFork(written[2]) = Read(t.fork[1])
  <2> DEFINE f == t.fork[1]
  <2>1. f.at \in Instant /\ f.seed \in Number /\ f = [at |-> f.at, seed |-> f.seed]
    BY <1>1, <1>3
  <2>2. written[2] = WriteFork(f)
    BY <1>1, <1>3
  <2> HIDE DEF f
  <2>3. IsForkLine(WriteFork(f)) /\ ReadFork(WriteFork(f)) = Read(f)
    BY <2>1, ForkReadsBack
  <2>4. WriteFork(f)[1] = "forked"
    BY DEF WriteFork
  <2> QED
    BY <2>2, <2>3, <2>4 DEF f
<1>4. ASSUME NEW i \in 1 .. len
      PROVE  /\ written[h + i][1] = "step"
             /\ ReadNumbered(written[h + i], i - 1) = Read(t.steps[i])
             /\ \A m : m # i - 1 => ~ IsRead(ReadNumbered(written[h + i], m))
  <2> DEFINE s == t.steps[i]
             n == i - 1
  <2>1. s \in TraceStep /\ n \in Number /\ written[h + i] = <<"step", Written(n)>> \o WriteStep(s)
    BY <1>1
  <2> HIDE DEF s, n
  <2>2. /\ (<<"step", Written(n)>> \o WriteStep(s))[1] = "step"
        /\ ReadNumbered(<<"step", Written(n)>> \o WriteStep(s), n) = Read(s)
        /\ \A m : m # n => ~ IsRead(ReadNumbered(<<"step", Written(n)>> \o WriteStep(s), m))
    BY <2>1, StepLine
  <2> QED
    BY <2>1, <2>2 DEF s, n
<1> QED
  BY <1>2, <1>3, <1>4 DEF written, h, len

LEMMA ForkOpens ==
    ASSUME NEW S, NEW line \in Seq(S), IsForkLine(line)
    PROVE  line[1] = "forked"
<1> DEFINE opening == <<"forked", "at">>
           one == opening[1]
<1>1. IsStrictPrefix(opening, line)
  BY DEF IsForkLine, Opens
<1>2. /\ Len(opening) <= Len(line) /\ opening = SubSeq(line, 1, Len(opening))
  BY <1>1 DEF IsStrictPrefix, IsPrefix
<1>3. Len(opening) = 2 /\ one = "forked"
  OBVIOUS
<1> HIDE DEF opening
<1>4. line[1] = opening[1]
  BY <1>2, <1>3
<1> QED
  BY <1>3, <1>4

\* The heading of a trace.
LEMMA TraceHeading ==
    ASSUME NEW t \in Trace
    PROVE  LET written == WriteTrace(t)
               h == 1 + Len(t.fork)
           IN /\ Len(Heading(written)) = h /\ DOMAIN Heading(written) = 1 .. h
              /\ \A i \in 1 .. h : Heading(written)[i] = written[i]
<1> DEFINE written == WriteTrace(t)
           h == 1 + Len(t.fork)
           k == IF Len(written) > 1 /\ IsForkLine(written[2]) THEN 2 ELSE 1
           len == Len(t.steps)
<1>1. written \in Seq(Line) /\ h \in {1, 2} /\ Len(written) = h + len /\ t.steps \in Seq(TraceStep)
  BY TraceLines
<1>2. /\ h = 2 => IsForkLine(written[2])
      /\ \A i \in 1 .. len : written[h + i][1] = "step"
  BY TraceOpenings
<1>3. len \in Nat
  BY <1>1, LenProperties
<1> HIDE DEF written, h, len
<1>4. written # <<>>
  <2>1. Len(written) # 0
    BY <1>1, <1>3
  <2> QED
    BY <1>1, <2>1, EmptySeq
<1>5. k = h
  <2>1. h = 2 => k = 2
    BY <1>1, <1>2, <1>3
  <2>2. ASSUME h = 1, Len(written) > 1, IsForkLine(written[2]) PROVE FALSE
    <3>1. 1 \in 1 .. len /\ h + 1 = 2
      BY <1>1, <1>3, <2>2
    <3>2. written[2][1] = "step"
      BY <1>2, <3>1
    <3>3. 2 \in 1 .. Len(written)
      BY <1>1, <1>3, <2>2
    <3>4. written[2] \in Seq(Token)
      BY <1>1, <3>3, ElementOfSeq DEF Line
    <3> QED
      BY <2>2, <3>2, <3>4, ForkOpens
  <2> QED
    BY <1>1, <2>1, <2>2
<1>6. /\ Len(Heading(written)) = k /\ DOMAIN Heading(written) = 1 .. k
      /\ \A i \in 1 .. k : Heading(written)[i] = written[i]
  BY <1>1, <1>4, HeadingIs
<1> HIDE DEF k
<1> QED
  BY <1>5, <1>6 DEF written, h

\* The first lines of a trace that came to harm: a header that cannot be read is the first line
\* that is not as it was written, and so is a line that is not the fork that was there.
LEMMA TraceTopBlamed ==
    ASSUME NEW t \in Trace, NEW S, NEW text \in Seq(Seq(S)), NEW d,
           MarredAt(text, WriteTrace(t), d)
    PROVE  LET written == WriteTrace(t)
               head == Numbered(text[1], Header("trace"))
           IN /\ text = <<>> \/ head = {} => d = 1
              /\ text # <<>> /\ head # {} =>
                    /\ Displaced(text, written, d) => d >= 2
                    /\ Len(t.fork) = 1 /\ Len(text) > 1 =>
                          d = 2 \/ (IsForkLine(text[2]) /\ IsRead(ReadFork(text[2])))
<1> DEFINE written == WriteTrace(t)
           head == Numbered(text[1], Header("trace"))
           h == 1 + Len(t.fork)
           len == Len(t.steps)
<1>1. /\ written \in Seq(Line) /\ h \in {1, 2} /\ Len(written) = h + len
      /\ t.steps \in Seq(TraceStep) /\ t.seed \in Number
      /\ Numbered(written[1], Header("trace")) = {t.seed}
  BY TraceLines
<1>2. /\ h = 2 => /\ written[2][1] = "forked" /\ IsForkLine(written[2])
                  /\ ReadFork(written[2]) = Read(t.fork[1])
      /\ \A i \in 1 .. len : written[h + i][1] = "step"
  BY TraceOpenings
<1>3. Len(t.fork) = 1 => h = 2
  OBVIOUS
<1> HIDE DEF written, head, len, h
<1>4. /\ len \in Nat /\ DOMAIN written = 1 .. h + len
      /\ Len(text) \in Nat /\ DOMAIN text = 1 .. Len(text)
  <2>1. len \in Nat
    BY <1>1, LenProperties DEF len
  <2>2. DOMAIN written = 1 .. Len(written) /\ Len(text) \in Nat /\ DOMAIN text = 1 .. Len(text)
    BY <1>1, LenProperties
  <2> QED
    BY <1>1, <2>1, <2>2
<1>5. FirstUnlike(text, written, d) /\ MarredAt(text, written, d)
  BY DEF MarredAt, written
<1>6. d \in Nat \ {0} /\ d <= Len(text) + 1
  BY <1>1, <1>5, FirstDifferenceIs
<1>7. ASSUME text = <<>> \/ head = {} PROVE d = 1
  <2>1. CASE text = <<>>
    <3>1. Len(text) = 0
      BY <2>1
    <3> QED
      BY <1>6, <3>1
  <2>2. CASE head = {}
    <3> SUFFICES ASSUME d # 1 PROVE FALSE
      OBVIOUS
    <3>1. 1 \in 1 .. d - 1
      BY <1>6
    <3>2. text[1] = written[1]
      BY <1>5, <3>1 DEF FirstUnlike
    <3> QED
      BY <1>1, <2>2, <3>2 DEF head
  <2> QED
    BY <1>7, <2>1, <2>2
<1>8. ASSUME text # <<>>, head # {}
      PROVE  Displaced(text, written, d) => d >= 2
  <2> SUFFICES ASSUME Displaced(text, written, d), d = 1 PROVE FALSE
    BY <1>6
  <2>1. Len(text) # 0
    BY <1>8, EmptySeq
  <2>2. 1 \in DOMAIN text
    BY <1>4, <2>1
  <2>3. text[1][1] = "chronoloop"
    <3>1. text[1] \in Seq(S)
      BY <1>4, <2>2, ElementOfSeq
    <3> QED
      BY <1>8, <3>1, HeaderOpens DEF head
  <2>4. 2 \in DOMAIN written /\ text[1] = written[2]
    BY <1>1, <2>2, DisplacedNext
  <2>5. written[2][1] \in {"forked", "step"}
    <3>1. CASE h = 2
      BY <1>2, <3>1
    <3>2. CASE h = 1
      <4>1. 1 \in 1 .. len /\ h + 1 = 2
        BY <1>4, <2>4, <3>2
      <4> QED
        BY <1>2, <4>1
    <3> QED
      BY <1>1, <3>1, <3>2
  <2> QED
    BY <2>3, <2>4, <2>5
<1>9. ASSUME text # <<>>, head # {}, h = 2, Len(text) > 1, d # 2
      PROVE  IsForkLine(text[2]) /\ IsRead(ReadFork(text[2]))
  <2>1. PICK two : two = 2 /\ two \in Nat \ {0}
    OBVIOUS
  <2>8. PICK next : next = two
    OBVIOUS
  <2>2. /\ next \in DOMAIN text /\ next >= two /\ next # d
        /\ Displaced(text, written, d) => d >= two
    BY <1>4, <1>8, <1>9, <2>1, <2>8
  <2>3. MarredAt(text, written, d) /\ written \in Seq(Line)
    BY <1>1, <1>5
  <2>4. PICK k \in DOMAIN written :
          /\ k >= two /\ text[next] = written[k]
          /\ next < d \/ ~ Displaced(text, written, d) => k = next
    BY <2>1, <2>2, <2>3, OtherLines
  <2>5. next < d \/ ~ Displaced(text, written, d)
    BY <1>6, <2>1, <2>2, <2>8
  <2>6. text[2] = written[2]
    BY <2>1, <2>4, <2>5, <2>8
  <2> QED
    BY <1>2, <1>9, <2>6, ReadOrWrong
<1> QED
  BY <1>3, <1>7, <1>8, <1>9 DEF written, head

\* How many lines of a trace say what to run.
Top(t) == 1 + Len(t.fork)

\* What a line of it reads as where the step after the heading is due.
StepRead(text, top, i) == ReadNumbered(text[top + i], i - 1)

\* The steps of a trace that came to harm, under a heading that stayed what it was.
LEMMA TraceStepsBlamed ==
    ASSUME NEW t \in Trace, NEW S, NEW text \in Seq(Seq(S)), NEW d,
           MarredAt(text, WriteTrace(t), d), text # <<>>,
           Numbered(text[1], Header("trace")) # {},
           Len(text) >= Top(t), Top(t) = 2 => IsForkLine(text[2]),
           NEW i \in 1 .. Len(text) - Top(t)
    PROVE  (\A j \in 1 .. i - 1 : IsRead(StepRead(text, Top(t), j)))
           => \/ Top(t) + i = d
              \/ i \in 1 .. Len(t.steps) /\ StepRead(text, Top(t), i) = Read(t.steps[i])
<1> DEFINE written == WriteTrace(t)
           len == Len(t.steps)
           h == Top(t)
<1>11. h = 1 + Len(t.fork)
  BY DEF Top
<1>1. /\ written \in Seq(Line) /\ h \in {1, 2} /\ Len(written) = h + len
      /\ t.steps \in Seq(TraceStep)
  BY <1>11, TraceLines
<1>2. /\ written[1][1] = "chronoloop"
      /\ h = 2 => written[2][1] = "forked"
      /\ \A k \in 1 .. len :
            /\ written[h + k][1] = "step"
            /\ ReadNumbered(written[h + k], k - 1) = Read(t.steps[k])
            /\ \A m : m # k - 1 => ~ IsRead(ReadNumbered(written[h + k], m))
  BY <1>11, TraceOpenings
<1>3. Displaced(text, written, d) => d >= 2
  BY TraceTopBlamed
<1>12. (h = 2 => IsForkLine(text[2])) /\ i \in 1 .. Len(text) - h /\ Len(text) >= h
  OBVIOUS
<1> HIDE DEF written, len, h
<1>4. /\ len \in Nat /\ DOMAIN written = 1 .. h + len
      /\ Len(text) \in Nat /\ DOMAIN text = 1 .. Len(text)
  <2>1. len \in Nat
    BY <1>1, LenProperties DEF len
  <2>2. DOMAIN written = 1 .. Len(written) /\ Len(text) \in Nat /\ DOMAIN text = 1 .. Len(text)
    BY <1>1, LenProperties
  <2> QED
    BY <1>1, <2>1, <2>2
<1>5. FirstUnlike(text, written, d) /\ MarredAt(text, written, d)
  BY DEF MarredAt, written
<1>6. d \in Nat \ {0} /\ d <= Len(text) + 1
  BY <1>1, <1>5, FirstDifferenceIs
<1>15. written \in Seq(Line)
  BY <1>1
<1>0. h \in {1, 2}
  BY <1>1
<1>7. \A k \in 1 .. h + len : k > h => k - h \in 1 .. len /\ h + (k - h) = k
  BY <1>0, <1>4
\* Nothing that stood among the steps has come to stand in the heading.
<1>8. Displaced(text, written, d) => d >= h + 1
  <2> SUFFICES ASSUME Displaced(text, written, d), h = 2, d = 2 PROVE FALSE
    BY <1>1, <1>3, <1>6
  <2>1. d \in DOMAIN text
    BY <1>4, <1>12
  <2>2. text[2][1] = "forked"
    <3>1. text[2] \in Seq(S)
      BY <1>4, <2>1, ElementOfSeq
    <3> QED
      BY <1>12, <3>1, ForkOpens
  <2>3. \/ 3 \in DOMAIN written /\ text[2] = written[3]
        \/ text[2] = written[1]
    <3>1. \/ d + 1 \in DOMAIN written /\ text[d] = written[d + 1]
          \/ d >= 2 /\ d - 1 \in DOMAIN written /\ text[d] = written[d - 1]
      BY <1>6, <1>15, <2>1, DisplacedNext
    <3> QED
      BY <3>1
  <2>4. 3 \in DOMAIN written => written[3][1] = "step"
    <3> SUFFICES ASSUME 3 \in DOMAIN written PROVE written[3][1] = "step"
      OBVIOUS
    <3>1. 1 \in 1 .. len /\ h + 1 = 3
      BY <1>4
    <3> QED
      BY <1>2, <3>1
  <2> QED
    BY <1>2, <2>2, <2>3, <2>4
\* A line that moved is not numbered for the place it moved to.
<1>9. ASSUME Displaced(text, written, d), NEW j \in 1 .. Len(text) - h, d = h + j
      PROVE  ~ IsRead(ReadNumbered(text[h + j], j - 1))
  <2>1. d \in DOMAIN text
    BY <1>6, <1>9, <1>4, <1>1
  <2>2. PICK k \in DOMAIN written : text[d] = written[k] /\ k # d /\ k >= h
    <3>1. \/ d + 1 \in DOMAIN written /\ text[d] = written[d + 1]
          \/ d >= 2 /\ d - 1 \in DOMAIN written /\ text[d] = written[d - 1]
      <4>1. Displaced(text, written, d)
        BY <1>9
      <4> QED
        BY <1>6, <1>15, <2>1, <4>1, DisplacedNext
    <3>2. d + 1 # d /\ d + 1 >= h /\ d - 1 # d /\ d - 1 >= h
      BY <1>0, <1>6, <1>8, <1>9
    <3> QED
      BY <3>1, <3>2
  <2>3. CASE k > h
    <3> DEFINE m == k - h
    <3>1. m \in 1 .. len /\ h + m = k /\ j - 1 # m - 1
      <4>1. k \in 1 .. h + len /\ k # d
        BY <1>4, <2>2
      <4>2. m \in 1 .. len /\ h + m = k
        BY <1>7, <2>3, <4>1
      <4>3. j \in Nat /\ d = h + j /\ len \in Nat
        BY <1>4, <1>9
      <4> HIDE DEF m
      <4>4. m # j
        BY <4>1, <4>2, <4>3
      <4> QED
        BY <4>2, <4>3, <4>4
    <3> HIDE DEF m
    <3> QED
      BY <1>2, <1>9, <2>2, <3>1
  <2>4. CASE k = h
    <3>1. written[h][1] # "step"
      BY <1>1, <1>2
    <3>2. text[h + j] = written[h]
      BY <1>9, <2>2, <2>4
    <3>3. text[h + j] \in Seq(S)
      BY <1>4, <1>9, <2>1, ElementOfSeq
    <3> QED
      BY <3>1, <3>2, <3>3, NoStep
  <2> QED
    BY <1>1, <1>4, <2>2, <2>3, <2>4
<1>10. ASSUME h + i # d, \A j \in 1 .. i - 1 : IsRead(ReadNumbered(text[h + j], j - 1))
       PROVE  i \in 1 .. len /\ ReadNumbered(text[h + i], i - 1) = Read(t.steps[i])
  <2> DEFINE next == h + i
             first == h + 1
  <2>1. next \in DOMAIN text /\ next >= first /\ next # d /\ first \in Nat \ {0}
    BY <1>1, <1>4, <1>10, <1>12
  <2>2. Displaced(text, written, d) => d >= first
    BY <1>8
  <2>3. next < d \/ ~ Displaced(text, written, d)
    <3> SUFFICES ASSUME ~ next < d, Displaced(text, written, d) PROVE FALSE
      OBVIOUS
    <3> DEFINE j == d - h
    <3>1. j \in 1 .. i - 1 /\ j \in 1 .. Len(text) - h /\ d = h + j
      <4>1. h + i \in Nat /\ i \in Nat /\ i <= Len(text) - h /\ Len(text) \in Nat /\ h + i # d
        BY <1>0, <1>4, <1>10, <1>12
      <4>2. ~ h + i < d /\ d >= h + 1 /\ d \in Nat
        BY <1>6, <2>2
      <4> QED
        BY <1>0, <4>1, <4>2
    <3> HIDE DEF j
    <3> QED
      BY <1>9, <1>10, <3>1
  <2> HIDE DEF next, first
  <2>4. PICK k \in DOMAIN written :
          /\ k >= first /\ text[next] = written[k]
          /\ next < d \/ ~ Displaced(text, written, d) => k = next
    BY <1>5, <1>15, <2>1, <2>2, OtherLines
  <2>5. next \in DOMAIN written /\ text[next] = written[next]
    BY <2>3, <2>4
  <2>6. i \in 1 .. len
    BY <1>1, <1>4, <1>12, <2>5 DEF next
  <2> QED
    BY <1>2, <2>5, <2>6 DEF next
<1>13. \A j \in 1 .. i - 1 : StepRead(text, h, j) = ReadNumbered(text[h + j], j - 1)
  BY DEF StepRead
<1>14. ASSUME h + i # d, \A j \in 1 .. i - 1 : IsRead(StepRead(text, h, j))
       PROVE  i \in 1 .. len /\ StepRead(text, h, i) = Read(t.steps[i])
  <2>1. i \in 1 .. len /\ ReadNumbered(text[h + i], i - 1) = Read(t.steps[i])
    BY <1>10, <1>13, <1>14
  <2> QED
    BY <2>1 DEF StepRead
<1> QED
  BY <1>14 DEF len, h

\* What a heading that is spelt as it was says of the run.
LEMMA TraceHeadingSpelt ==
    ASSUME NEW t \in Trace, NEW S, NEW text \in Seq(Seq(S)), text # <<>>,
           Numbered(text[1], Header("trace")) # {},
           Spells(Heading(text), Heading(WriteTrace(t)))
    PROVE  LET forks == Len(text) > 1 /\ IsForkLine(text[2])
           IN /\ forks <=> Len(t.fork) = 1
              /\ Max(Numbered(text[1], Header("trace"))) = t.seed
              /\ forks /\ IsRead(ReadFork(text[2])) => ReadFork(text[2]).value = t.fork[1]
<1> DEFINE written == WriteTrace(t)
           forks == Len(text) > 1 /\ IsForkLine(text[2])
           k == IF forks THEN 2 ELSE 1
           h == 1 + Len(t.fork)
           one == Heading(text)
           another == Heading(written)
<1>1. /\ h \in {1, 2} /\ t.seed \in Number
      /\ written[1] = Append(Header("trace"), Written(t.seed))
      /\ h = 2 => /\ t.fork[1] \in [at : Instant, seed : Number]
                  /\ written[2] = WriteFork(t.fork[1])
  BY TraceLines
<1>2. Len(one) = k /\ \A i \in 1 .. k : one[i] = text[i]
  BY HeadingIs
<1>3. Len(another) = h /\ DOMAIN another = 1 .. h /\ \A i \in 1 .. h : another[i] = written[i]
  BY TraceHeading
<1>4. Len(one) = Len(another) /\ \A i \in DOMAIN another : SpellsLine(one[i], another[i])
  BY DEF Spells
<1>5. Len(text) \in Nat /\ DOMAIN text = 1 .. Len(text) /\ 1 \in DOMAIN text /\ text[1] \in Seq(S)
  <2>1. Len(text) \in Nat /\ DOMAIN text = 1 .. Len(text) /\ Len(text) # 0
    BY LenProperties, EmptySeq
  <2>2. 1 \in 1 .. Len(text)
    BY <2>1
  <2> QED
    BY <2>1, <2>2, ElementOfSeq
<1>6. (h = 2 <=> Len(t.fork) = 1) /\ (k = 2 <=> forks)
  <2>1. Len(t.fork) \in Nat
    BY LenProperties DEF Trace
  <2> DEFINE count == Len(t.fork)
  <2>4. count \in Nat /\ h = 1 + count
    BY <2>1
  <2> HIDE DEF k, h, count
  <2>5. h = 2 <=> count = 1
    BY <2>4
  <2>2. h = 2 <=> Len(t.fork) = 1
    BY <2>5 DEF count
  <2>3. k = 2 <=> forks
    BY DEF k
  <2> QED
    BY <2>2, <2>3
<1> HIDE DEF written, h, one, another, k
<1>7. k = h /\ \A i \in 1 .. h : SpellsLine(text[i], written[i])
  BY <1>2, <1>3, <1>4
<1>8. Max(Numbered(text[1], Header("trace"))) = t.seed
  <2>1. SpellsLine(text[1], Append(Header("trace"), Written(t.seed)))
    <3>1. 1 \in 1 .. h
      BY <1>1
    <3>2. SpellsLine(text[1], written[1])
      BY <1>7, <3>1
    <3> QED
      BY <1>1, <3>2
  <2>2. "trace" \in Words
    BY DEF Words
  <2> QED
    BY <1>1, <1>5, <2>1, <2>2, SameHeader
<1>9. ASSUME forks, IsRead(ReadFork(text[2])) PROVE ReadFork(text[2]).value = t.fork[1]
  <2>1. h = 2
    BY <1>6, <1>7, <1>9
  <2>2. SpellsLine(text[2], WriteFork(t.fork[1])) /\ t.fork[1] \in [at : Instant, seed : Number]
    BY <1>1, <1>7, <2>1
  <2>3. text[2] \in Seq(S)
    <3>1. 2 \in 1 .. Len(text)
      BY <1>5, <1>9
    <3> QED
      BY <1>5, <3>1, ElementOfSeq
  <2> QED
    BY <1>9, <2>2, <2>3, SameFork
<1> QED
  BY <1>6, <1>7, <1>8, <1>9

\* A step that differs is on no line of a heading that long but this one.
TopRight(traced, t, d) ==
    \A replayed :
       \A c \in FirstDivergence(traced.steps, replayed, FirstLine(traced)) :
          c.line > 0 /\ c.line <= 1 + Len(t.fork) => c.line = d

\* What is run again is what was run, and the first step that differs is on this line.
StepsRight(traced, t, d) ==
    /\ traced.seed = t.seed /\ traced.fork = t.fork
    /\ \A c \in FirstDivergence(traced.steps, t.steps, FirstLine(traced)) :
          c.line > 0 => c.line = d

\* A trace that came to harm is blamed for the first line that is not as it was written, by the
\* reader or by the run that is made again, unless its heading says another run.
LEMMA TraceBlamed ==
    ASSUME NEW t \in Trace, NEW S, NEW text \in Seq(Seq(S)), NEW d,
           MarredAt(text, WriteTrace(t), d)
    PROVE  LET page == ReadTrace(text)
               spelt == Spells(Heading(text), Heading(WriteTrace(t)))
           IN /\ ~ IsRead(page) /\ (spelt \/ page.line <= 1 + Len(t.fork)) => page.line = d
              /\ IsRead(page) => TopRight(page.value, t, d)
              /\ IsRead(page) /\ spelt => StepsRight(page.value, t, d)
<1> DEFINE written == WriteTrace(t)
           page == ReadTrace(text)
           spelt == Spells(Heading(text), Heading(written))
           head == Numbered(text[1], Header("trace"))
           forks == Len(text) > 1 /\ IsForkLine(text[2])
           late == forks => IsRead(ReadFork(text[2]))
           k == IF forks THEN 2 ELSE 1
           h == 1 + Len(t.fork)
           n == Len(text) - k
           result(i) == ReadNumbered(text[k + i], i - 1)
<1>1. /\ text = <<>> \/ head = {} => d = 1
      /\ text # <<>> /\ head # {} /\ Len(t.fork) = 1 /\ Len(text) > 1 =>
            d = 2 \/ (IsForkLine(text[2]) /\ IsRead(ReadFork(text[2])))
  <2>1. /\ text = <<>> \/ head = {} => d = 1
        /\ text # <<>> /\ head # {} =>
              /\ Displaced(text, written, d) => d >= 2
              /\ Len(t.fork) = 1 /\ Len(text) > 1 =>
                    d = 2 \/ (IsForkLine(text[2]) /\ IsRead(ReadFork(text[2])))
    BY TraceTopBlamed
  <2> HIDE DEF head
  <2> QED
    BY <2>1
<1>2. CASE text = <<>> \/ head = {}
  <2>1. page = Wrong("MissingHeader", 1) \/ page = Wrong("BadHeader", 1)
    BY <1>2 DEF ReadTrace
  <2>2. ~ IsRead(page) /\ page.line = d
    BY <1>1, <1>2, <2>1, ReadOrWrong, LinesOfWords
  <2> QED
    BY <2>2
<1>3. CASE text # <<>> /\ head # {}
  <2>1. /\ n \in Nat
        /\ ~ late => ~ IsRead(page) /\ page.line = 2
        /\ late /\ ~ IsRead(page) =>
              \E i \in 1 .. n : /\ page.line = k + i /\ ~ IsRead(result(i))
                                /\ \A j \in 1 .. i - 1 : IsRead(result(j))
        /\ IsRead(page) =>
              /\ late
              /\ page.value.seed = Max(head)
              /\ page.value.fork = IF forks THEN <<ReadFork(text[2]).value>> ELSE <<>>
              /\ \A i \in 1 .. n : IsRead(result(i))
              /\ page.value.steps = [i \in 1 .. n |-> result(i).value]
              /\ FirstLine(page.value) = k + 1
    BY <1>3, TraceParsed
  <2>2. k \in {1, 2} /\ (k = 2 <=> forks) /\ forks \in BOOLEAN
    OBVIOUS
  <2>3. /\ h \in {1, 2} /\ (h = 2 <=> Len(t.fork) = 1) /\ (h = 1 => t.fork = <<>>)
        /\ h = 2 => t.fork = <<t.fork[1]>>
    <3>1. h \in {1, 2} /\ (h = 1 => t.fork = <<>>) /\ (h = 2 => t.fork = <<t.fork[1]>>)
      BY TraceLines
    <3>2. Len(t.fork) \in Nat
      BY LenProperties DEF Trace
    <3> QED
      BY <3>1, <3>2
  <2>4. spelt => /\ forks <=> Len(t.fork) = 1
                 /\ Max(head) = t.seed
                 /\ forks /\ IsRead(ReadFork(text[2])) => ReadFork(text[2]).value = t.fork[1]
    BY <1>3, TraceHeadingSpelt
  <2>5. spelt => k = h
    BY <2>2, <2>3, <2>4
  <2>6. Len(text) \in Nat /\ Len(text) = k + n
    <3>1. Len(text) \in Nat
      BY LenProperties
    <3> QED
      BY <3>1
  <2>7. n > 0 \/ forks => Len(text) > 1
    BY <2>1, <2>2, <2>6
  <2>8. ASSUME h = 2, Len(text) > 1, ~ (forks /\ late) PROVE d = 2
    BY <1>1, <1>3, <2>3, <2>8
  <2>9. ASSUME spelt, late, NEW i \in 1 .. n, \A j \in 1 .. i - 1 : IsRead(result(j))
        PROVE  \/ k + i = d
               \/ i \in 1 .. Len(t.steps) /\ result(i) = Read(t.steps[i])
    <3>1. k = 1 + Len(t.fork) /\ (k = 2 => IsForkLine(text[2])) /\ Len(text) >= k
      BY <2>1, <2>5, <2>6, <2>9
    <3>2. \A j \in 1 .. i - 1 : IsRead(ReadNumbered(text[k + j], j - 1))
      BY <2>9
    <3>3. i \in 1 .. Len(text) - k
      BY <2>9
    <3>4. Numbered(text[1], Header("trace")) # {} /\ text # <<>>
      BY <1>3
    <3> HIDE DEF k, n
    <3>5. k = Top(t)
      BY <3>1 DEF Top
    <3>6. /\ Len(text) >= Top(t) /\ (Top(t) = 2 => IsForkLine(text[2]))
          /\ i \in 1 .. Len(text) - Top(t)
      BY <3>1, <3>3, <3>5
    <3>7. \A j \in 1 .. i : StepRead(text, k, j) = ReadNumbered(text[k + j], j - 1)
      BY DEF StepRead
    <3>8. \A j \in 1 .. i - 1 : IsRead(StepRead(text, k, j))
      BY <3>2, <3>3, <3>7
    <3>9. \/ Top(t) + i = d
          \/ i \in 1 .. Len(t.steps) /\ StepRead(text, Top(t), i) = Read(t.steps[i])
      BY <3>4, <3>5, <3>6, <3>8, TraceStepsBlamed
    <3>10. StepRead(text, k, i) = ReadNumbered(text[k + i], i - 1)
      BY DEF StepRead
    <3> QED
      BY <3>5, <3>9, <3>10
  <2> HIDE DEF n, k, h, forks, late, spelt, page, head, result
  <2>10. ASSUME ~ IsRead(page), spelt \/ page.line <= h
         PROVE  page.line = d
    <3>1. CASE ~ late
      <4>1. page.line = 2 /\ forks
        BY <2>1, <3>1 DEF late
      <4>2. h = 2
        BY <1>3, <2>2, <2>3, <2>5, <2>10, <4>1
      <4> QED
        BY <2>7, <2>8, <3>1, <4>1, <4>2
    <3>2. CASE late
      <4>1. PICK i \in 1 .. n : /\ page.line = k + i /\ ~ IsRead(result(i))
                                /\ \A j \in 1 .. i - 1 : IsRead(result(j))
        BY <2>1, <2>10, <3>2
      <4>2. CASE spelt
        <5>1. \A s : IsRead(Read(s))
          BY ReadOrWrong
        <5> QED
          BY <2>9, <3>2, <4>1, <4>2, <5>1
      <4>3. CASE page.line <= h
        <5>1. h = 2 /\ k = 1 /\ page.line = 2 /\ n > 0
          BY <2>1, <2>2, <2>3, <4>1, <4>3
        <5> QED
          BY <2>2, <2>7, <2>8, <5>1
      <4> QED
        BY <2>10, <4>2, <4>3
    <3> QED
      BY <3>1, <3>2
  <2>11. ASSUME IsRead(page), NEW replayed,
                NEW c \in FirstDivergence(page.value.steps, replayed, FirstLine(page.value)),
                c.line > 0
         PROVE  \E i \in 1 .. n :
                   /\ c.line = k + i /\ i \in DOMAIN replayed
                   /\ result(i).value # replayed[i]
    <3> DEFINE steps == page.value.steps
               first == k + 1
    <3>1. DOMAIN steps = 1 .. n /\ \A i \in 1 .. n : steps[i] = result(i).value
      BY <2>1, <2>11
    <3>2. c \in FirstDivergence(steps, replayed, first)
      BY <2>1, <2>11
    <3>5. \A i \in 1 .. n : i - 1 + first = k + i
      BY <2>1, <2>2
    <3> HIDE DEF steps, first
    <3>3. PICK i \in 1 .. n :
            /\ c = Diverged(i - 1 + first) /\ i \in DOMAIN replayed
            /\ steps[i] # replayed[i]
      BY <2>1, <2>11, <3>1, <3>2, FirstParted
    <3>4. c.line = k + i
      BY <3>3, <3>5, LinesOfWords
    <3> QED
      BY <3>1, <3>3, <3>4
  <2>12. ASSUME IsRead(page), NEW replayed,
                NEW c \in FirstDivergence(page.value.steps, replayed, FirstLine(page.value)),
                c.line > 0, c.line <= h
         PROVE  c.line = d
    <3>1. PICK i \in 1 .. n : c.line = k + i
      BY <2>11, <2>12
    <3>2. h = 2 /\ k = 1 /\ c.line = 2 /\ n > 0
      BY <2>1, <2>2, <2>3, <2>12, <3>1
    <3> QED
      BY <2>2, <2>7, <2>8, <3>2
  <2>13. ASSUME IsRead(page), spelt
         PROVE  page.value.seed = t.seed /\ page.value.fork = t.fork
    <3>1. page.value.seed = t.seed
      BY <2>1, <2>4, <2>13
    <3>2. CASE forks
      <4>1. IsRead(ReadFork(text[2]))
        BY <2>1, <2>13, <3>2 DEF late
      <4>2. ReadFork(text[2]).value = t.fork[1] /\ t.fork = <<t.fork[1]>>
        BY <2>3, <2>4, <2>13, <3>2, <4>1
      <4> QED
        BY <2>1, <2>13, <3>1, <3>2, <4>2
    <3>3. CASE ~ forks
      <4>1. t.fork = <<>>
        BY <2>2, <2>3, <2>5, <2>13, <3>3
      <4> QED
        BY <2>1, <2>13, <3>1, <3>3, <4>1
    <3> QED
      BY <3>2, <3>3
  <2>14. ASSUME IsRead(page), spelt,
                NEW c \in FirstDivergence(page.value.steps, t.steps, FirstLine(page.value)),
                c.line > 0
         PROVE  c.line = d
    <3>1. PICK i \in 1 .. n :
            c.line = k + i /\ i \in DOMAIN t.steps /\ result(i).value # t.steps[i]
      BY <2>11, <2>14
    <3>2. late /\ \A j \in 1 .. n : IsRead(result(j))
      BY <2>1, <2>14
    <3>3. \A j \in 1 .. i - 1 : IsRead(result(j))
      BY <2>1, <3>2
    <3>4. result(i) # Read(t.steps[i])
      BY <3>1, ReadOrWrong
    <3> QED
      BY <2>9, <2>14, <3>1, <3>2, <3>3, <3>4
  <2>15. IsRead(page) => TopRight(page.value, t, d)
    BY <2>12 DEF TopRight, h
  <2>16. IsRead(page) /\ spelt => StepsRight(page.value, t, d)
    BY <2>13, <2>14 DEF StepsRight
  <2> QED
    BY <2>10, <2>15, <2>16 DEF h, page, spelt
<1> QED
  BY <1>2, <1>3

--------------------------------------------------------------------------------
(* Schedules and repros that came to harm. *)

HeaderWrongs == {"MissingHeader", "BadHeader"}

LEMMA InstantWrong ==
    ASSUME NEW tokens, ~ IsRead(ReadInstant(tokens))
    PROVE  ReadInstant(tokens).why \notin HeaderWrongs
<1>1. \A seconds, nanos : ~ IsRead(Timed(seconds, nanos)) =>
        Timed(seconds, nanos).why \notin HeaderWrongs
  <2> SUFFICES ASSUME NEW seconds, NEW nanos, ~ IsRead(Timed(seconds, nanos))
               PROVE  Timed(seconds, nanos).why \notin HeaderWrongs
    OBVIOUS
  <2>1. \E why \in {"FractionWidth", "Malformed", "Overflow"} : Timed(seconds, nanos) = Amiss(why)
    BY ReadOrWrong DEF Timed
  <2> QED
    BY <2>1 DEF Amiss, Wrong, HeaderWrongs
<1>2. \/ ReadInstant(tokens) = Amiss("Malformed")
      \/ \E seconds, nanos : ReadInstant(tokens) = Timed(seconds, nanos)
  BY DEF ReadInstant
<1> QED
  BY <1>1, <1>2 DEF Amiss, Wrong, HeaderWrongs

LEMMA WindowWrong ==
    ASSUME NEW tokens, ~ IsRead(ReadWindow(tokens))
    PROVE  ReadWindow(tokens).why \notin HeaderWrongs
<1> DEFINE parts == SplitOnce(tokens, <<"until">>)
           start == ReadInstant(parts[1])
           end == IF parts[2] = <<"forever">> THEN Read(MaxTime) ELSE ReadInstant(parts[2])
<1>1. ReadWindow(tokens) =
        IF Splits(tokens, <<"until">>) = {} THEN Amiss("Malformed")
        ELSE IF ~ IsRead(start) THEN start
        ELSE IF ~ IsRead(end) THEN end
        ELSE IF end.value < start.value THEN Amiss("Backwards")
        ELSE Read([start |-> start.value, end |-> end.value])
  BY DEF ReadWindow
<1>2. ~ IsRead(start) => start.why \notin HeaderWrongs
  BY InstantWrong
<1>3. ~ IsRead(end) => end.why \notin HeaderWrongs
  <2>1. end = Read(MaxTime) \/ end = ReadInstant(parts[2])
    OBVIOUS
  <2> QED
    BY <2>1, InstantWrong, ReadOrWrong
<1> HIDE DEF start, end, parts
<1>4. \/ \E why \in {"Malformed", "Backwards"} : ReadWindow(tokens) = Amiss(why)
      \/ ~ IsRead(start) /\ ReadWindow(tokens) = start
      \/ ~ IsRead(end) /\ ReadWindow(tokens) = end
  BY <1>1, ReadOrWrong
<1> QED
  BY <1>2, <1>3, <1>4 DEF Amiss, Wrong, HeaderWrongs

\* What is wrong with a fault is never said of a header.
LEMMA FaultWrong ==
    ASSUME NEW tokens, ~ IsRead(ReadFault(tokens))
    PROVE  ReadFault(tokens).why \notin HeaderWrongs
<1> DEFINE named == SplitOnce(tokens, <<"on">>)
           placed == SplitOnce(named[2], <<"from">>)
           ends == SplitOnce(placed[1], <<"->">>)
           during == ReadWindow(placed[2])
           loses == Opens(named[1], <<"loss">>)
           odds == IF loses THEN ReadOdds(After(named[1], 1)) ELSE Read(NoOdds)
           unsplit == \/ Splits(tokens, <<"on">>) = {}
                      \/ Splits(named[2], <<"from">>) = {}
                      \/ Splits(placed[1], <<"->">>) = {}
                      \/ ReadNode(ends[1]) = {} \/ ReadNode(ends[2]) = {}
           fault == [kind |-> IF loses THEN "loss" ELSE "partition",
                     from |-> Max(ReadNode(ends[1])), to |-> Max(ReadNode(ends[2])),
                     during |-> during.value, odds |-> odds.value]
<1>1. ReadFault(tokens) =
        IF unsplit THEN Amiss("Malformed")
        ELSE IF ~ IsRead(during) THEN during
        ELSE IF named[1] # <<"partition">> /\ ~ loses THEN Amiss("Malformed")
        ELSE IF ~ IsRead(odds) THEN odds
        ELSE Read(fault)
  BY DEF ReadFault
<1>2. ~ IsRead(during) => during.why \notin HeaderWrongs
  BY WindowWrong
<1>3. ~ IsRead(odds) => odds.why \notin HeaderWrongs
  <2>1. \A line : ~ IsRead(ReadOdds(line)) =>
          \E why \in {"Malformed", "NoTrials", "TooLikely"} : ReadOdds(line) = Amiss(why)
    BY ReadOrWrong DEF ReadOdds
  <2>2. odds = Read(NoOdds) \/ odds = ReadOdds(After(named[1], 1))
    OBVIOUS
  <2> QED
    BY <2>1, <2>2, ReadOrWrong DEF Amiss, Wrong, HeaderWrongs
<1> HIDE DEF unsplit, during, loses, odds, fault, named, placed, ends
<1>4. \/ ReadFault(tokens) = Amiss("Malformed")
      \/ ~ IsRead(during) /\ ReadFault(tokens) = during
      \/ ~ IsRead(odds) /\ ReadFault(tokens) = odds
  BY <1>1, ReadOrWrong
<1> QED
  BY <1>2, <1>3, <1>4 DEF Amiss, Wrong, HeaderWrongs

\* A schedule as it is written: its header, and a line for each fault.
LEMMA ScheduleLines ==
    ASSUME NEW schedule \in Seq(WritableFault)
    PROVE  LET written == WriteSchedule(schedule)
           IN /\ written \in Seq(Line) /\ Len(written) = 1 + Len(schedule)
              /\ written[1] = FaultsHeader
              /\ \A i \in 1 .. Len(schedule) :
                    /\ ReadFault(written[i + 1]) = Read(schedule[i])
                    /\ written[i + 1] # FaultsHeader
<1> DEFINE lines == [i \in DOMAIN schedule |-> WriteFault(schedule[i])]
           text == <<FaultsHeader>> \o lines
<1>1. FaultsHeader \in Line
  <2>1. "chronoloop" \in Token /\ "faults" \in Token
    BY WordsAreTokens DEF Words
  <2> QED
    BY <2>1 DEF FaultsHeader, Line
<1>2. /\ lines \in Seq(Line) /\ Len(lines) = Len(schedule)
      /\ \A i \in 1 .. Len(schedule) : lines[i] = WriteFault(schedule[i]) /\ schedule[i] \in WritableFault
  <2>1. \A i \in DOMAIN schedule : schedule[i] \in WritableFault
    OBVIOUS
  <2>2. \A i \in DOMAIN schedule : WriteFault(schedule[i]) \in Line
    BY <2>1, FaultReadsBack
  <2> QED
    BY <2>1, <2>2
<1> HIDE DEF lines
<1>3. /\ text \in Seq(Line) /\ text[1] = FaultsHeader /\ Len(text) = 1 + Len(lines)
      /\ \A i \in 1 .. Len(lines) : text[i + 1] = lines[i]
  BY <1>1, <1>2, Headed
<1> HIDE DEF text
<1>4. ~ IsRead(ReadFault(FaultsHeader))
  <2>1. Splits(FaultsHeader, <<"on">>) = {}
    <3>1. Len(FaultsHeader) - Len(<<"on">>) = 1
      BY DEF FaultsHeader
    <3> DEFINE top == Len(FaultsHeader) - Len(<<"on">>)
               range == 2 .. top
    <3>3. range = {}
      <4>1. top = 1
        BY <3>1
      <4> HIDE DEF top
      <4> QED
        BY <4>1
    <3>4. Splits(FaultsHeader, <<"on">>) =
            {i \in range : SubSeq(FaultsHeader, i, i + Len(<<"on">>) - 1) = <<"on">>}
      BY DEF Splits
    <3> HIDE DEF range
    <3> QED
      BY <3>3, <3>4
  <2>2. ReadFault(FaultsHeader) = Amiss("Malformed")
    BY <2>1 DEF ReadFault
  <2> QED
    BY <2>2, ReadOrWrong
<1>5. ASSUME NEW i \in 1 .. Len(schedule)
      PROVE  ReadFault(text[i + 1]) = Read(schedule[i]) /\ text[i + 1] # FaultsHeader
  <2>1. ReadFault(text[i + 1]) = Read(schedule[i])
    BY <1>2, <1>3, FaultReadsBack
  <2> QED
    BY <1>4, <2>1, ReadOrWrong
<1>6. WriteSchedule(schedule) = text
  BY DEF WriteSchedule, text, lines
<1> QED
  BY <1>2, <1>3, <1>5, <1>6

\* What reading a schedule comes to.
LEMMA ScheduleParsed ==
    ASSUME NEW L, NEW text \in Seq(L), ~ IsRead(ReadSchedule(text))
    PROVE  LET page == ReadSchedule(text)
           IN \/ /\ text = <<>> \/ text[1] # FaultsHeader
                 /\ page.line = 1 /\ page.why \in HeaderWrongs
              \/ /\ text # <<>> /\ text[1] = FaultsHeader
                 /\ page.why \notin HeaderWrongs
                 /\ \E i \in 1 .. Len(text) - 1 :
                       page.line = i + 1 /\ ~ IsRead(ReadFault(text[i + 1]))
<1> DEFINE n == Len(text) - 1
           results == [i \in 1 .. n |-> ReadFault(text[i + 1])]
           page == ReadSchedule(text)
<1>1. page = IF text = <<>> THEN Wrong("MissingHeader", 1)
             ELSE IF text[1] # FaultsHeader THEN Wrong("BadHeader", 1)
             ELSE Collect(results, 2)
  BY DEF ReadSchedule
<1>2. CASE text = <<>> \/ text[1] # FaultsHeader
  <2>1. \E why \in HeaderWrongs : page = Wrong(why, 1)
    BY <1>1, <1>2 DEF HeaderWrongs
  <2> QED
    BY <1>2, <2>1, LinesOfWords
<1>3. CASE text # <<>> /\ text[1] = FaultsHeader
  <2>1. n \in Nat
    <3>1. Len(text) \in Nat /\ Len(text) # 0
      BY <1>3, EmptySeq, LenProperties
    <3> QED
      BY <3>1
  <2>2. DOMAIN results = 1 .. n /\ \A i \in 1 .. n : results[i] = ReadFault(text[i + 1])
    OBVIOUS
  <2>3. page = Collect(results, 2)
    BY <1>1, <1>3
  <2>4. ~ IsRead(page)
    OBVIOUS
  <2>5. \A i \in 1 .. n : i - 1 + 2 = i + 1
    OBVIOUS
  <2> HIDE DEF results, n, page
  <2>6. PICK i \in 1 .. n : page = Wrong(results[i].why, i - 1 + 2) /\ ~ IsRead(results[i])
    BY <2>1, <2>2, <2>3, <2>4, FirstWrong
  <2>7. ~ IsRead(ReadFault(text[i + 1])) /\ page = Wrong(ReadFault(text[i + 1]).why, i + 1)
    BY <2>2, <2>5, <2>6
  <2>8. page.line = i + 1 /\ page.why = ReadFault(text[i + 1]).why
    BY <2>7, LinesOfWords
  <2>9. page.why \notin HeaderWrongs
    BY <2>7, <2>8, FaultWrong
  <2> QED
    BY <1>3, <2>7, <2>8, <2>9 DEF n, page
<1> QED
  BY <1>2, <1>3

\* A schedule that came to harm is complained about at its first wrong line.
LEMMA ScheduleBlamed ==
    ASSUME NEW schedule \in Seq(WritableFault), NEW S, NEW text \in Seq(S), NEW d,
           MarredAt(text, WriteSchedule(schedule), d), ~ IsRead(ReadSchedule(text))
    PROVE  ReadSchedule(text).line = d
<1> DEFINE written == WriteSchedule(schedule)
           page == ReadSchedule(text)
           len == Len(schedule)
<1>1. /\ written \in Seq(Line) /\ Len(written) = 1 + len /\ written[1] = FaultsHeader
      /\ \A i \in 1 .. len : /\ ReadFault(written[i + 1]) = Read(schedule[i])
                             /\ written[i + 1] # FaultsHeader
  BY ScheduleLines
<1>2. \/ /\ text = <<>> \/ text[1] # FaultsHeader
         /\ page.line = 1
      \/ /\ text # <<>> /\ text[1] = FaultsHeader
         /\ \E i \in 1 .. Len(text) - 1 :
               page.line = i + 1 /\ ~ IsRead(ReadFault(text[i + 1]))
  BY ScheduleParsed
<1>3. FirstUnlike(text, written, d) /\ MarredAt(text, written, d)
  BY DEF MarredAt, written
<1>10. written \in Seq(Line)
  BY <1>1
<1> HIDE DEF written, len, page
<1>4. /\ len \in Nat /\ DOMAIN written = 1 .. 1 + len
      /\ Len(text) \in Nat /\ DOMAIN text = 1 .. Len(text)
  <2>1. len \in Nat
    BY LenProperties DEF len
  <2> QED
    BY <1>1, <2>1, LenProperties
<1>5. d \in Nat \ {0} /\ d <= Len(text) + 1
  BY <1>3, <1>10, FirstDifferenceIs
<1>6. CASE text = <<>>
  <2>1. Len(text) = 0
    BY <1>6
  <2> QED
    BY <1>2, <1>5, <1>6, <2>1 DEF page
<1>7. CASE text # <<>> /\ text[1] # FaultsHeader
  <2> SUFFICES ASSUME d # 1 PROVE FALSE
    BY <1>2, <1>7 DEF page
  <2>1. 1 \in 1 .. d - 1
    BY <1>5
  <2>2. text[1] = written[1]
    BY <1>3, <2>1 DEF FirstUnlike
  <2> QED
    BY <1>1, <1>7, <2>2
<1>8. CASE text # <<>> /\ text[1] = FaultsHeader
  <2>1. Len(text) # 0 /\ 1 \in DOMAIN text
    <3>1. Len(text) # 0
      BY <1>8, EmptySeq
    <3> QED
      BY <1>4, <3>1
  <2>2. Displaced(text, written, d) => d >= 2
    <3> SUFFICES ASSUME Displaced(text, written, d), d = 1 PROVE FALSE
      BY <1>5
    <3>1. 2 \in DOMAIN written /\ text[1] = written[2]
      BY <1>10, <2>1, DisplacedNext
    <3>2. 1 \in 1 .. len /\ 1 + 1 = 2
      BY <1>4, <3>1
    <3> QED
      BY <1>1, <1>8, <3>1, <3>2
  <2>3. PICK i \in 1 .. Len(text) - 1 : page.line = i + 1 /\ ~ IsRead(ReadFault(text[i + 1]))
    BY <1>2, <1>8
  <2> DEFINE next == i + 1
  <2>4. next \in DOMAIN text /\ next >= 2
    BY <1>4
  <2>5. page.line = next /\ ~ IsRead(ReadFault(text[next]))
    BY <2>3
  <2> HIDE DEF next
  <2>6. PICK two : two = 2 /\ two \in Nat \ {0}
    OBVIOUS
  <2>7. (Displaced(text, written, d) => d >= two) /\ next >= two
    BY <2>2, <2>4, <2>6
  <2>8. ASSUME next # d PROVE FALSE
    <3>1. PICK k \in DOMAIN written : k >= two /\ text[next] = written[k]
      BY <1>3, <1>10, <2>4, <2>6, <2>7, <2>8, OtherLines
    <3>2. k - 1 \in 1 .. len /\ k - 1 + 1 = k
      BY <1>4, <2>6, <3>1
    <3>3. ReadFault(written[k]) = Read(schedule[k - 1])
      BY <1>1, <3>2
    <3> QED
      BY <2>5, <3>1, <3>3, ReadOrWrong
  <2> QED
    BY <2>5, <2>8 DEF page
<1> QED
  BY <1>6, <1>7, <1>8

\* A line that is read as an outcome says that the run passed, or where it failed.
LEMMA OutcomeOpens ==
    ASSUME NEW S, NEW line \in Seq(S), IsRead(ReadOutcome(line))
    PROVE  \/ line = <<"passed">> /\ ReadOutcome(line).value = Pass
           \/ line[1] = "failed" /\ Len(line) >= 3 /\ ReadOutcome(line).value # Pass
<1>1. CASE line = <<"passed">>
  <2>1. ReadOutcome(line) = Read(Pass)
    BY <1>1 DEF ReadOutcome
  <2> QED
    BY <1>1, <2>1, ReadOrWrong
<1>2. CASE line # <<"passed">>
  <2>1. Opens(line, FailedAt) /\ \E reason, step : ReadOutcome(line) = Read(Fail(reason, step))
    BY <1>2, ReadOrWrong DEF ReadOutcome
  <2>2. ReadOutcome(line).value # Pass
    <3>1. \A reason, step : Fail(reason, step).verdict = "fail"
      BY DEF Fail
    <3>2. Pass.verdict = "pass"
      BY DEF Pass
    <3>3. \A reason, step : Fail(reason, step) # Pass
      BY <3>1, <3>2
    <3> QED
      BY <2>1, <3>3, ReadOrWrong
  <2>3. FailedAt \in Seq({"failed", "at", "step"}) /\ Len(FailedAt) = 3 /\ FailedAt[1] = "failed"
    BY DEF FailedAt
  <2>4. Len(FailedAt) <= Len(line) /\ \A i \in 1 .. Len(FailedAt) : line[i] = FailedAt[i]
    BY <2>1, <2>3, Opened
  <2>5. line[1] = FailedAt[1]
    BY <2>3, <2>4
  <2>6. Len(line) \in Nat
    BY LenProperties
  <2> QED
    BY <2>2, <2>3, <2>4, <2>5, <2>6
<1> QED
  BY <1>1, <1>2

\* The line that says what system to run, and from which seed.
SaysWhat(line) ==
    LET named == SplitOnce(After(line, 2), <<"seed">>)
    IN /\ Opens(line, <<"chronoloop", "repro">>)
       /\ Splits(After(line, 2), <<"seed">>) # {}
       /\ \E system \in Systems : named[1] = <<system>>
       /\ Digits(named[2]) # {}

LEMMA WhatOpens ==
    ASSUME NEW S, NEW line \in Seq(S), SaysWhat(line)
    PROVE  line[1] = "chronoloop" /\ Len(line) >= 5
<1> DEFINE opening == <<"chronoloop", "repro">>
           rest == After(line, 2)
           top == Len(rest) - Len(<<"seed">>)
<1>1. opening \in Seq({"chronoloop", "repro"}) /\ Len(opening) = 2 /\ opening[1] = "chronoloop"
  OBVIOUS
<1>2. Opens(line, opening) /\ Splits(rest, <<"seed">>) # {}
  BY DEF SaysWhat
<1> HIDE DEF opening
<1>3. Len(opening) <= Len(line) /\ \A i \in 1 .. Len(opening) : line[i] = opening[i]
  BY <1>1, <1>2, Opened
<1>4. line[1] = "chronoloop" /\ Len(line) \in Nat /\ 2 <= Len(line)
  <2>1. line[1] = opening[1]
    BY <1>1, <1>3
  <2> QED
    BY <1>1, <1>3, <2>1, LenProperties
<1>5. Len(rest) = Len(line) - 2
  BY <1>4, Rejoined
<1>6. \E i : i \in 2 .. top
  BY <1>2 DEF Splits
<1>7. top = Len(rest) - 1
  OBVIOUS
<1> HIDE DEF rest, top
<1> QED
  BY <1>4, <1>5, <1>6, <1>7

\* What reading a repro comes to.
LEMMA ReproParsed ==
    ASSUME NEW L, NEW text \in Seq(L), ~ IsRead(ReadRepro(text))
    PROVE  LET page == ReadRepro(text)
               expected == ReadOutcome(text[2])
               listed == ReadSchedule(After(text, 2))
           IN \/ (text = <<>> \/ ~ SaysWhat(text[1])) /\ page.line = 1
              \/ /\ text # <<>> /\ SaysWhat(text[1])
                 /\ \/ Len(text) < 2 /\ page.line = 2
                    \/ Len(text) >= 2 /\ ~ IsRead(expected) /\ page.line = 2
                    \/ /\ Len(text) >= 2 /\ IsRead(expected) /\ expected.value = Pass
                       /\ page.line = 2
                    \/ /\ Len(text) >= 2 /\ IsRead(expected) /\ expected.value # Pass
                       /\ ~ IsRead(listed) /\ page = Nested(listed)
<1> DEFINE page == ReadRepro(text)
           named == SplitOnce(After(text[1], 2), <<"seed">>)
           expected == ReadOutcome(text[2])
           listed == ReadSchedule(After(text, 2))
           repro == [system |-> named[1][1], seed |-> Max(Digits(named[2])),
                     faults |-> listed.value, expected |-> expected.value]
<1>1. page = IF text = <<>> THEN Wrong("MissingHeader", 1)
             ELSE IF ~ SaysWhat(text[1]) THEN Wrong("BadHeader", 1)
             ELSE IF Len(text) < 2 THEN Wrong("Malformed", 2)
             ELSE IF ~ IsRead(expected) THEN Wrong(expected.why, 2)
             ELSE IF expected.value = Pass THEN Wrong("HeldUp", 2)
             ELSE IF ~ IsRead(listed) THEN Nested(listed)
             ELSE Read(repro)
  <2>1. SaysWhat(text[1]) <=>
          ~ \/ ~ Opens(text[1], <<"chronoloop", "repro">>)
            \/ Splits(After(text[1], 2), <<"seed">>) = {}
            \/ \A system \in Systems : named[1] # <<system>>
            \/ Digits(named[2]) = {}
    BY DEF SaysWhat
  <2> QED
    BY <2>1 DEF ReadRepro, Reproducible
<1>2. ~ IsRead(page)
  OBVIOUS
<1>3. Len(text) \in Nat
  BY LenProperties
<1> HIDE DEF page, expected, listed, repro
<1> QED
  BY <1>1, <1>2, <1>3, ReadOrWrong, LinesOfWords DEF page, expected, listed

\* A repro as it is written: what to run, what to expect, and the schedule of faults.
LEMMA ReproLines ==
    ASSUME NEW repro \in Repro
    PROVE  LET written == WriteRepro(repro)
               schedule == WriteSchedule(repro.faults)
           IN /\ written \in Seq(Line) /\ Len(written) = 2 + Len(schedule)
              /\ repro.faults \in Seq(WritableFault) /\ repro.expected # Pass
              /\ schedule \in Seq(Line) /\ Len(schedule) >= 1 /\ schedule[1] = FaultsHeader
              /\ ReadSchedule(schedule) = Read(repro.faults)
              /\ SaysWhat(written[1]) /\ Len(written[1]) = 5 /\ written[1][1] = "chronoloop"
              /\ ReadOutcome(written[2]) = Read(repro.expected)
              /\ written[2][1] = "failed" /\ Len(written[2]) >= 3
              /\ \A i \in 1 .. Len(schedule) : written[2 + i] = schedule[i]
<1> DEFINE head == <<"chronoloop", "repro", repro.system, "seed", Written(repro.seed)>>
           outcome == WriteOutcome(repro.expected)
           two == <<head, outcome>>
           schedule == WriteSchedule(repro.faults)
           text == two \o schedule
<1>1. /\ repro.system \in Systems /\ repro.seed \in Number
      /\ repro.faults \in Seq(WritableFault) /\ repro.expected \in Failure
  BY DEF Repro
<1>2. head \in Line /\ Len(head) = 5 /\ head[1] = "chronoloop"
  <2> DEFINE n == Written(repro.seed)
  <2>1. n \in Token
    BY <1>1, NumberReadsBack
  <2>2. repro.system \in Token /\ {"chronoloop", "repro", "seed"} \subseteq Token
    BY <1>1, WordsAreTokens DEF Words
  <2> DEFINE s == repro.system
             line == <<"chronoloop", "repro", s, "seed", n>>
  <2>3. s \in Token /\ "chronoloop" \in Token /\ "repro" \in Token /\ "seed" \in Token
    BY <2>2
  <2> HIDE DEF n, s
  <2>4. line \in Seq(Token) /\ Len(line) = 5 /\ line[1] = "chronoloop"
    BY <2>1, <2>3
  <2> QED
    BY <2>4 DEF Line, n, s
<1>3. outcome \in Line /\ ReadOutcome(outcome) = Read(repro.expected) /\ repro.expected # Pass
  BY <1>1, OutcomeReadsBack, FailureFacts
<1>4. /\ schedule \in Seq(Line) /\ ReadSchedule(schedule) = Read(repro.faults)
      /\ Len(schedule) \in Nat /\ Len(schedule) >= 1 /\ schedule[1] = FaultsHeader
  <2>1. ReadSchedule(schedule) = Read(repro.faults)
    BY <1>1, ScheduleReadsBack
  <2>2. /\ schedule \in Seq(Line) /\ Len(schedule) = 1 + Len(repro.faults)
        /\ schedule[1] = FaultsHeader
    BY <1>1, ScheduleLines
  <2>3. Len(repro.faults) \in Nat
    BY <1>1, LenProperties
  <2> HIDE DEF schedule
  <2> QED
    BY <2>1, <2>2, <2>3
<1>5. WriteRepro(repro) = text
  BY DEF WriteRepro
<1>6. ReadRepro(text) = Read(repro)
  BY <1>5, ReproReadsBack
<1> HIDE DEF head, outcome, schedule
<1>7. two \in Seq(Line) /\ Len(two) = 2 /\ two[1] = head /\ two[2] = outcome
  BY <1>2, <1>3
<1> HIDE DEF two
<1>8. /\ text \in Seq(Line) /\ Len(text) = Len(two) + Len(schedule)
      /\ \A i \in 1 .. Len(two) + Len(schedule) :
            text[i] = IF i <= Len(two) THEN two[i] ELSE schedule[i - Len(two)]
  BY <1>4, <1>7, ConcatProperties
<1> HIDE DEF text
<1>9. /\ Len(text) = 2 + Len(schedule)
      /\ \A i \in 1 .. 2 + Len(schedule) : text[i] = IF i <= 2 THEN two[i] ELSE schedule[i - 2]
  BY <1>7, <1>8
<1>10. text[1] = head /\ text[2] = outcome
  BY <1>4, <1>7, <1>9
<1>11. \A i \in 1 .. Len(schedule) : text[2 + i] = schedule[i]
  <2> SUFFICES ASSUME NEW i \in 1 .. Len(schedule) PROVE text[2 + i] = schedule[i]
    OBVIOUS
  <2> DEFINE m == 2 + i
  <2>1. m \in 1 .. 2 + Len(schedule) /\ ~ m <= 2 /\ m - 2 = i
    BY <1>4
  <2> HIDE DEF m
  <2>2. text[m] = schedule[i]
    BY <1>9, <2>1
  <2> QED
    BY <2>2 DEF m
<1>12. SaysWhat(text[1])
  <2> SUFFICES ASSUME ~ SaysWhat(text[1]) PROVE FALSE
    OBVIOUS
  <2>1. text # <<>>
    BY <1>4, <1>8, <1>9, EmptySeq
  <2>2. ReadRepro(text) = Wrong("BadHeader", 1)
    BY <2>1 DEF ReadRepro, SaysWhat
  <2> QED
    BY <1>6, <2>2, ReadOrWrong
<1>13. outcome[1] = "failed" /\ Len(outcome) >= 3
  <2>1. outcome \in Seq(Token) /\ IsRead(ReadOutcome(outcome)) /\ ReadOutcome(outcome).value # Pass
    BY <1>3, ReadOrWrong DEF Line
  <2> QED
    BY <2>1, OutcomeOpens
<1> QED
  BY <1>1, <1>2, <1>3, <1>4, <1>5, <1>8, <1>9, <1>10, <1>11, <1>12, <1>13 DEF schedule

\* Harm below the first lines is harm to what stands below them, unless the line above moved there.
LEMMA MarredBelow ==
    ASSUME NEW L, NEW text \in Seq(L), NEW M, NEW written \in Seq(M), NEW d,
           MarredAt(text, written, d), NEW n \in Nat, n <= Len(text), n <= Len(written), d > n,
           d = n + 1 => ~ (d \in DOMAIN text /\ text[d] = written[n])
    PROVE  MarredAt(After(text, n), After(written, n), d - n)
<1> DEFINE u == After(text, n)
           v == After(written, n)
           e == d - n
<1>1. /\ Len(text) \in Nat /\ DOMAIN text = 1 .. Len(text)
      /\ Len(written) \in Nat /\ DOMAIN written = 1 .. Len(written)
  BY LenProperties
<1>2. /\ Len(u) = Len(text) - n /\ \A i \in 1 .. Len(text) - n : u[i] = text[n + i]
      /\ Len(v) = Len(written) - n /\ \A i \in 1 .. Len(written) - n : v[i] = written[n + i]
      /\ DOMAIN u = 1 .. Len(text) - n /\ DOMAIN v = 1 .. Len(written) - n
  <2>1. u \in Seq(L) /\ Len(u) = Len(text) - n /\ \A i \in 1 .. Len(text) - n : u[i] = text[n + i]
    BY Rejoined
  <2>2. v \in Seq(M) /\ Len(v) = Len(written) - n
        /\ \A i \in 1 .. Len(written) - n : v[i] = written[n + i]
    BY Rejoined
  <2> HIDE DEF u, v
  <2> QED
    BY <2>1, <2>2, LenProperties
<1>3. /\ FirstUnlike(text, written, d)
      /\ Misspelt(text, written, d) \/ CutShort(text, written, d) \/ Displaced(text, written, d)
  BY DEF MarredAt
<1>4. d \in Nat \ {0} /\ d <= Len(text) + 1 /\ d <= Len(written) + 1
  BY <1>3, FirstDifferenceIs
<1>5. e \in Nat \ {0} /\ d = n + e
  BY <1>4
<1> HIDE DEF u, v, e
<1>6. /\ \A i \in 1 .. Len(text) - n : n + i \in 1 .. Len(text)
      /\ \A i \in 1 .. Len(written) - n : n + i \in 1 .. Len(written)
      /\ e \in DOMAIN u <=> d \in DOMAIN text
      /\ e \in DOMAIN v <=> d \in DOMAIN written
  BY <1>1, <1>2, <1>5
<1>7. FirstUnlike(u, v, e)
  <2>1. e \in 1 .. Len(v) + 1
    BY <1>1, <1>2, <1>4, <1>5
  <2>2. \A j \in 1 .. e - 1 : j \in DOMAIN u /\ j \in DOMAIN v /\ u[j] = v[j]
    <3> SUFFICES ASSUME NEW j \in 1 .. e - 1 PROVE j \in DOMAIN u /\ j \in DOMAIN v /\ u[j] = v[j]
      OBVIOUS
    <3>1. n + j \in 1 .. d - 1 /\ j \in 1 .. Len(text) - n /\ j \in 1 .. Len(written) - n
      BY <1>1, <1>4, <1>5
    <3>2. text[n + j] = written[n + j]
      BY <1>3, <3>1 DEF FirstUnlike
    <3> QED
      BY <1>2, <3>1, <3>2
  <2>3. ~ (e \in DOMAIN u /\ e \in DOMAIN v /\ u[e] = v[e])
    BY <1>2, <1>3, <1>5, <1>6 DEF FirstUnlike
  <2> QED
    BY <2>1, <2>2, <2>3 DEF FirstUnlike
<1>8. CASE Misspelt(text, written, d)
  <2>1. Len(u) = Len(v) /\ e \in DOMAIN v /\ Len(u[e]) = Len(v[e])
    BY <1>1, <1>2, <1>5, <1>6, <1>8 DEF Misspelt
  <2>2. \A j \in DOMAIN u : j # e => u[j] = v[j]
    <3> SUFFICES ASSUME NEW j \in 1 .. Len(text) - n, j # e PROVE u[j] = v[j]
      BY <1>2
    <3> DEFINE m == n + j
    <3>1. m \in DOMAIN text /\ m # d /\ j \in 1 .. Len(written) - n
      BY <1>1, <1>5, <1>8 DEF Misspelt
    <3>2. u[j] = text[m] /\ v[j] = written[m]
      BY <1>2, <3>1
    <3> HIDE DEF m
    <3> QED
      BY <1>8, <3>1, <3>2 DEF Misspelt
  <2> QED
    <3>1. Misspelt(u, v, e)
      BY <2>1, <2>2 DEF Misspelt
    <3>9. MarredAt(u, v, e)
      BY <1>7, <3>1 DEF MarredAt
    <3> QED
      BY <3>9 DEF u, v, e
<1>9. CASE CutShort(text, written, d)
  <2>1. Len(u) <= e /\ e \in DOMAIN v
    BY <1>1, <1>2, <1>5, <1>6, <1>9 DEF CutShort
  <2>2. e \in DOMAIN u => u[e] = text[d] /\ v[e] = written[d]
    BY <1>2, <1>5, <2>1
  <2> QED
    <3>1. e \in DOMAIN u => /\ Len(text[d]) < Len(written[d])
                            /\ \A m \in DOMAIN text[d] : text[d][m] = written[d][m]
      BY <1>6, <1>9 DEF CutShort
    <3>2. CutShort(u, v, e)
      BY <2>1, <2>2, <3>1 DEF CutShort
    <3>9. MarredAt(u, v, e)
      BY <1>7, <3>2 DEF MarredAt
    <3> QED
      BY <3>9 DEF u, v, e
<1>10. CASE Displaced(text, written, d)
  <2>1. ASSUME e \in DOMAIN u PROVE \E k \in DOMAIN v : k \in {e - 1, e + 1} /\ u[e] = v[k]
    <3>1. d \in DOMAIN text /\ u[e] = text[d]
      BY <1>2, <1>5, <1>6, <2>1
    <3>2. PICK k \in DOMAIN written : k \in {d - 1, d + 1} /\ text[d] = written[k]
      BY <1>10, <3>1 DEF Displaced
    <3>3. k # n
      BY <1>4, <3>1, <3>2
    <3>4. k - n \in 1 .. Len(written) - n /\ k - n \in {e - 1, e + 1} /\ n + (k - n) = k
      BY <1>1, <1>4, <1>5, <3>2, <3>3
    <3> DEFINE m == k - n
    <3>5. v[m] = written[k]
      <4>1. m \in 1 .. Len(written) - n /\ n + m = k
        BY <3>4
      <4> HIDE DEF m
      <4> QED
        BY <1>2, <4>1
    <3> QED
      BY <1>2, <3>1, <3>2, <3>4, <3>5
  <2>2. ASSUME NEW j \in DOMAIN u, j > e
        PROVE  \E k \in DOMAIN v : k >= e /\ u[j] = v[k]
    <3> DEFINE p == n + j
    <3>1. p \in DOMAIN text /\ p > d /\ u[j] = text[p]
      BY <1>1, <1>2, <1>5, <2>2
    <3> HIDE DEF p
    <3>2. PICK k \in DOMAIN written : k >= d /\ text[p] = written[k]
      BY <1>10, <3>1 DEF Displaced
    <3> DEFINE m == k - n
    <3>3. m \in 1 .. Len(written) - n /\ m >= e /\ n + m = k
      BY <1>1, <1>4, <1>5, <3>2
    <3> HIDE DEF m
    <3> QED
      BY <1>2, <3>1, <3>2, <3>3
  <2> QED
    <3>1. Displaced(u, v, e)
      BY <2>1, <2>2 DEF Displaced
    <3>9. MarredAt(u, v, e)
      BY <1>7, <3>1 DEF MarredAt
    <3> QED
      BY <3>9 DEF u, v, e
<1> QED
  BY <1>3, <1>8, <1>9, <1>10 DEF u, v, e

\* Lists of the same lines are the same.
LEMMA SameList ==
    ASSUME NEW S, NEW s \in Seq(S), NEW T, NEW t \in Seq(T), DOMAIN s = DOMAIN t,
           \A i \in DOMAIN s : s[i] = t[i]
    PROVE  s = t
OBVIOUS

\* A repro that came to harm is complained about at its first wrong line, in the lines of the
\* repro; an expectation that has become another one is none.
LEMMA ReproBlamed ==
    ASSUME NEW repro \in Repro, NEW S, NEW text \in Seq(Seq(S)), NEW d,
           MarredAt(text, WriteRepro(repro), d), ~ IsRead(ReadRepro(text))
    PROVE  LET written == WriteRepro(repro)
               expects == Unexpected("reproduce", text, written)
           IN \E L : expects \in Seq(L) /\ FirstUnlike(expects, written, ReadRepro(text).line)
<1> DEFINE written == WriteRepro(repro)
           expects == Unexpected("reproduce", text, written)
           page == ReadRepro(text)
           schedule == WriteSchedule(repro.faults)
           expected == ReadOutcome(text[2])
           below == After(text, 2)
           listed == ReadSchedule(below)
           len == Len(schedule)
           L == Seq(S) \cup Line
           amid == Len(text) > 1 /\ IsRead(expected)
<1>1. /\ written \in Seq(Line) /\ Len(written) = 2 + len
      /\ repro.faults \in Seq(WritableFault) /\ repro.expected # Pass
      /\ schedule \in Seq(Line) /\ len >= 1 /\ schedule[1] = FaultsHeader
      /\ ReadSchedule(schedule) = Read(repro.faults)
      /\ SaysWhat(written[1]) /\ Len(written[1]) = 5 /\ written[1][1] = "chronoloop"
      /\ ReadOutcome(written[2]) = Read(repro.expected)
      /\ written[2][1] = "failed" /\ Len(written[2]) >= 3
      /\ \A i \in 1 .. len : written[2 + i] = schedule[i]
  BY ReproLines
<1>2. \/ (text = <<>> \/ ~ SaysWhat(text[1])) /\ page.line = 1
      \/ /\ text # <<>> /\ SaysWhat(text[1])
         /\ \/ Len(text) < 2 /\ page.line = 2
            \/ Len(text) >= 2 /\ ~ IsRead(expected) /\ page.line = 2
            \/ Len(text) >= 2 /\ IsRead(expected) /\ expected.value = Pass /\ page.line = 2
            \/ /\ Len(text) >= 2 /\ IsRead(expected) /\ expected.value # Pass
               /\ ~ IsRead(listed) /\ page = Nested(listed)
  BY ReproParsed
<1>3. /\ FirstUnlike(text, written, d) /\ MarredAt(text, written, d)
      /\ Misspelt(text, written, d) \/ CutShort(text, written, d) \/ Displaced(text, written, d)
  BY DEF MarredAt, written
<1>4. expects = IF amid THEN [text EXCEPT ![2] = written[2]] ELSE text
  BY DEF Unexpected
<1>5. written \in Seq(Line)
  BY <1>1
<1>6. ReadOutcome(written[2]).value # Pass /\ IsRead(ReadOutcome(written[2]))
  BY <1>1, ReadOrWrong
<1> HIDE DEF written, expects, page, schedule, expected, listed, len, amid, below
<1>7. /\ len \in Nat /\ DOMAIN written = 1 .. 2 + len
      /\ Len(text) \in Nat /\ DOMAIN text = 1 .. Len(text)
  <2>1. len \in Nat
    BY <1>1, LenProperties DEF len
  <2> QED
    BY <1>1, <2>1, LenProperties
<1>8. d \in Nat \ {0} /\ d <= Len(text) + 1 /\ d <= Len(written) + 1
  BY <1>3, <1>5, FirstDifferenceIs
<1>9. 1 \in DOMAIN written /\ 2 \in DOMAIN written /\ 3 \in DOMAIN written
  BY <1>1, <1>7
<1>10. written[3] = FaultsHeader /\ written[3][1] = "chronoloop"
  <2>1. 1 \in 1 .. len /\ 2 + 1 = 3
    BY <1>1, <1>7
  <2>2. written[3] = FaultsHeader
    BY <1>1, <2>1
  <2> QED
    BY <2>2 DEF FaultsHeader
<1>11. \A i \in DOMAIN text : text[i] \in Seq(S)
  BY <1>7, ElementOfSeq
<1>12. text \in Seq(L)
  BY <1>5, <1>11
\* Where a text may be unlike, for each of the things that are said of it.
<1>13. ASSUME NEW i \in 1 .. d - 1 PROVE i \in DOMAIN text /\ text[i] = written[i]
  BY <1>3 DEF FirstUnlike
<1>14. ASSUME text # <<>>, SaysWhat(text[1])
       PROVE  /\ 1 \in DOMAIN text /\ text[1][1] = "chronoloop" /\ Len(text[1]) >= 5
              /\ d = 1 => Misspelt(text, written, 1)
  <2>1. Len(text) # 0
    BY <1>14, EmptySeq
  <2>2. 1 \in DOMAIN text
    BY <1>7, <2>1
  <2>3. text[1][1] = "chronoloop" /\ Len(text[1]) >= 5
    BY <1>11, <1>14, <2>2, WhatOpens
  <2>4. ASSUME d = 1 PROVE Misspelt(text, written, 1)
    <3>1. ~ CutShort(text, written, 1)
      <4>1. Len(text[1]) \in Nat
        BY <1>11, <2>2, LenProperties
      <4> QED
        BY <1>1, <2>2, <2>3, <4>1 DEF CutShort
    <3>2. ~ Displaced(text, written, 1)
      <4> SUFFICES ASSUME Displaced(text, written, 1) PROVE FALSE
        OBVIOUS
      <4>1. \E k \in DOMAIN written : k \in {1 - 1, 1 + 1} /\ text[1] = written[k]
        BY <2>2 DEF Displaced
      <4>2. text[1] = written[2]
        BY <1>7, <4>1
      <4> QED
        BY <1>1, <2>3, <4>2
    <3> QED
      BY <1>3, <2>4, <3>1, <3>2
  <2> QED
    BY <2>2, <2>3, <2>4
<1>16. expects \in Seq(L)
  <2>1. CASE ~ amid
    BY <1>4, <1>12, <2>1
  <2>2. CASE amid
    <3>1. written[2] \in L /\ 2 \in 1 .. Len(text)
      <4>1. written[2] \in Line
        BY <1>5, <1>7, <1>9, ElementOfSeq
      <4> QED
        BY <1>7, <2>2, <4>1 DEF amid
    <3> DEFINE line == written[2]
               Lines == L
    <3>2. line \in Lines /\ text \in Seq(Lines)
      BY <1>12, <3>1
    <3> HIDE DEF line, Lines
    <3>3. [text EXCEPT ![2] = line] \in Seq(Lines)
      BY <3>1, <3>2, ExceptSeq
    <3> QED
      BY <1>4, <2>2, <3>3 DEF line, Lines
  <2> QED
    BY <2>1, <2>2
<1>17. ASSUME FirstUnlike(expects, written, page.line)
       PROVE  \E lines : /\ Unexpected("reproduce", text, WriteRepro(repro)) \in Seq(lines)
                         /\ FirstUnlike(Unexpected("reproduce", text, WriteRepro(repro)),
                                        WriteRepro(repro), ReadRepro(text).line)
  BY <1>16, <1>17 DEF expects, written, page
\* The first line.
<1>15. CASE (text = <<>> \/ ~ SaysWhat(text[1])) /\ page.line = 1
  <2>1. d = 1
    <3> SUFFICES ASSUME d # 1 PROVE FALSE
      OBVIOUS
    <3>1. 1 \in 1 .. d - 1
      BY <1>8
    <3>2. text[1] = written[1] /\ 1 \in DOMAIN text
      BY <1>13, <3>1
    <3>3. text # <<>>
      BY <1>7, <3>2
    <3> QED
      BY <1>1, <1>15, <3>2, <3>3
  <2>2. ~ (1 \in DOMAIN text /\ text[1] = written[1])
    BY <1>3, <1>9, <2>1 DEF FirstUnlike
  <2>3. 1 \in DOMAIN expects <=> 1 \in DOMAIN text
    BY <1>4
  <2>4. 1 \in DOMAIN text => expects[1] = text[1]
    BY <1>4
  <2>5. FirstUnlike(expects, written, 1)
    BY <1>1, <1>7, <2>2, <2>3, <2>4 DEF FirstUnlike
  <2> QED
    BY <1>15, <1>17, <2>5
<1>25. \A e : Misspelt(text, written, e) =>
         /\ Len(text) = Len(written) /\ Len(text[e]) = Len(written[e])
         /\ \A j \in DOMAIN text : j # e => text[j] = written[j]
  BY DEF Misspelt
<1>31. /\ Len(written) = 2 + len /\ len >= 1 /\ len \in Nat /\ Len(text) \in Nat
       /\ Len(written[2]) >= 3
  BY <1>1, <1>7
<1>29. ~ Len(text) < 2 \/ ~ Len(text) = Len(written)
  BY <1>31
<1>30. ASSUME NEW e \in {1, 2}, Misspelt(text, written, e)
       PROVE  \A j \in DOMAIN text : j > 2 => text[j] = written[j]
  <2> SUFFICES ASSUME NEW j \in DOMAIN text, j > 2 PROVE text[j] = written[j]
    OBVIOUS
  <2>1. j # e
    BY <1>7, <1>30
  <2> QED
    BY <1>30, <2>1 DEF Misspelt
<1>26. PICK two : two = 2 /\ two \in Nat
  OBVIOUS
\* The second line.
<1>18. ASSUME text # <<>>, SaysWhat(text[1]), Len(text) >= 2,
              ~ IsRead(expected) \/ expected.value = Pass
       PROVE  d = 2
  <2>1. text[2] # written[2]
    BY <1>6, <1>18 DEF expected
  <2>2. 2 \in DOMAIN text
    BY <1>7, <1>18
  <2>3. d # 1
    <3> SUFFICES ASSUME d = 1 PROVE FALSE
      OBVIOUS
    <3>1. Misspelt(text, written, 1)
      BY <1>14, <1>18
    <3> QED
      BY <1>25, <2>1, <2>2, <3>1
  <2>4. ~ 2 \in 1 .. d - 1
    BY <1>13, <2>1
  <2> QED
    BY <1>8, <2>3, <2>4
<1>19. ASSUME 2 \in DOMAIN text, Displaced(text, written, 2)
       PROVE  text[2][1] = "chronoloop"
  <2>1. \E k \in DOMAIN written : k \in {2 - 1, 2 + 1} /\ text[2] = written[k]
    BY <1>19 DEF Displaced
  <2>2. text[2] = written[1] \/ text[2] = written[3]
    BY <2>1
  <2> QED
    BY <1>1, <1>10, <2>2
<1>20. CASE text # <<>> /\ SaysWhat(text[1]) /\ Len(text) < 2 /\ page.line = 2
  <2>1. d # 1
    <3> SUFFICES ASSUME d = 1 PROVE FALSE
      OBVIOUS
    <3>1. Misspelt(text, written, 1)
      BY <1>14, <1>20
    <3>2. Len(text) = Len(written)
      BY <3>1 DEF Misspelt
    <3> QED
      BY <1>20, <1>29, <3>2
  <2>2. d = 2
    BY <1>7, <1>8, <1>20, <2>1
  <2>3. expects = text
    BY <1>4, <1>7, <1>20 DEF amid
  <2> QED
    BY <1>3, <1>17, <1>20, <2>2, <2>3
<1>21. CASE text # <<>> /\ SaysWhat(text[1]) /\ Len(text) >= 2 /\ ~ IsRead(expected) /\ page.line = 2
  <2>1. d = 2
    BY <1>18, <1>21
  <2>2. expects = text
    BY <1>4, <1>21 DEF amid
  <2> QED
    BY <1>3, <1>17, <1>21, <2>1, <2>2
<1>22. CASE text # <<>> /\ SaysWhat(text[1]) /\ Len(text) >= 2
            /\ IsRead(expected) /\ expected.value = Pass
  <2>1. d = 2
    BY <1>18, <1>22
  <2>2. 2 \in DOMAIN text
    BY <1>7, <1>22
  <2>3. text[2] = <<"passed">>
    BY <1>11, <1>22, <2>2, OutcomeOpens DEF expected
  <2>4. Len(text[2]) = 1 /\ text[2][1] = "passed" /\ 1 \in DOMAIN text[2]
    BY <2>3
  <2>5. ~ Misspelt(text, written, 2)
    <3> SUFFICES ASSUME Misspelt(text, written, 2) PROVE FALSE
      OBVIOUS
    <3>1. Len(text[2]) = Len(written[2])
      BY DEF Misspelt
    <3> DEFINE k == Len(written[2])
    <3>2. k = 1
      BY <2>4, <3>1
    <3>3. k >= 3
      BY <1>31
    <3> HIDE DEF k
    <3> QED
      BY <3>2, <3>3
  <2>6. ~ CutShort(text, written, 2)
    BY <1>1, <2>2, <2>4 DEF CutShort
  <2>7. ~ Displaced(text, written, 2)
    BY <1>19, <2>2, <2>4
  <2> QED
    BY <1>3, <2>1, <2>5, <2>6, <2>7
\* The schedule below.
<1>23. ASSUME Len(text) >= 2
       PROVE  /\ below \in Seq(Seq(S)) /\ Len(below) = Len(text) - 2
              /\ \A i \in 1 .. Len(text) - 2 : below[i] = text[2 + i]
  <2>1. two <= Len(text) /\ below = After(text, two)
    BY <1>23, <1>26 DEF below
  <2>2. /\ After(text, two) \in Seq(Seq(S)) /\ Len(After(text, two)) = Len(text) - two
        /\ \A i \in 1 .. Len(text) - two : After(text, two)[i] = text[two + i]
    BY <1>26, <2>1, Rejoined
  <2> QED
    BY <1>26, <2>1, <2>2
<1>24. After(written, 2) = schedule
  <2>1. /\ After(written, 2) \in Seq(Line) /\ Len(After(written, 2)) = Len(written) - 2
        /\ \A i \in 1 .. Len(written) - 2 : After(written, 2)[i] = written[2 + i]
    <3>1. two <= Len(written)
      BY <1>1, <1>7, <1>26
    <3>2. /\ After(written, two) \in Seq(Line) /\ Len(After(written, two)) = Len(written) - two
          /\ \A i \in 1 .. Len(written) - two : After(written, two)[i] = written[two + i]
      BY <1>5, <1>26, <3>1, Rejoined
    <3> QED
      BY <1>26, <3>2
  <2>2. Len(written) - 2 = len
    BY <1>1, <1>7
  <2> DEFINE rest == After(written, 2)
  <2>3. rest \in Seq(Line) /\ Len(rest) = len /\ \A i \in 1 .. len : rest[i] = schedule[i]
    BY <1>1, <2>1, <2>2
  <2> HIDE DEF rest
  <2>4. rest = schedule
    <3>1. DOMAIN rest = 1 .. len /\ DOMAIN schedule = 1 .. len
      BY <1>1, <2>3, LenProperties DEF len
    <3> QED
      BY <1>1, <2>3, <3>1, SameList
  <2> QED
    BY <2>4 DEF rest
<1>27. ASSUME Len(text) >= 2, ~ IsRead(listed)
       PROVE  ~ (Len(text) = Len(written) /\ \A j \in DOMAIN text : j > 2 => text[j] = written[j])
  <2> SUFFICES ASSUME Len(text) = Len(written), \A j \in DOMAIN text : j > 2 => text[j] = written[j]
               PROVE  FALSE
    OBVIOUS
  <2>1. Len(below) = len
    BY <1>1, <1>7, <1>23, <1>27
  <2>2. ASSUME NEW i \in 1 .. len PROVE below[i] = schedule[i]
    <3> DEFINE m == 2 + i
    <3>1. m \in DOMAIN text /\ m > 2 /\ i \in 1 .. Len(text) - 2
      BY <1>1, <1>7
    <3>2. below[i] = text[m] /\ schedule[i] = written[m]
      BY <1>1, <1>23, <1>27, <3>1
    <3> HIDE DEF m
    <3> QED
      BY <3>1, <3>2
  <2>3. below = schedule
    <3>1. below \in Seq(Seq(S)) /\ schedule \in Seq(Line)
      BY <1>1, <1>23, <1>27
    <3>2. DOMAIN below = 1 .. len /\ DOMAIN schedule = 1 .. len
      BY <2>1, <3>1, LenProperties DEF len
    <3> QED
      BY <2>2, <3>1, <3>2, SameList
  <2> QED
    BY <1>1, <1>27, <2>3, ReadOrWrong DEF listed
<1>28. CASE /\ text # <<>> /\ SaysWhat(text[1]) /\ Len(text) >= 2
            /\ IsRead(expected) /\ expected.value # Pass
            /\ ~ IsRead(listed) /\ page = Nested(listed)
  <2>1. text[2][1] = "failed" /\ 2 \in DOMAIN text /\ 1 \in DOMAIN text /\ text[2] \in Seq(S)
    <3>1. 2 \in DOMAIN text /\ 1 \in DOMAIN text
      BY <1>7, <1>28
    <3> QED
      BY <1>11, <1>28, <3>1, OutcomeOpens DEF expected
  <2>2. \A e : e \in {1, 2} => ~ Misspelt(text, written, e)
    <3> SUFFICES ASSUME NEW e \in {1, 2}, Misspelt(text, written, e) PROVE FALSE
      OBVIOUS
    <3>1. \A j \in DOMAIN text : j > 2 => text[j] = written[j]
      BY <1>30
    <3> QED
      BY <1>25, <1>27, <1>28, <3>1
  <2>3. d # 1
    BY <1>14, <1>28, <2>2
  <2>4. expects = [text EXCEPT ![2] = written[2]]
    BY <1>4, <1>28 DEF amid
  <2>5. ReadSchedule(below) = listed /\ below \in Seq(Seq(S))
    BY <1>23, <1>28 DEF listed
  <2>6. \/ /\ below = <<>> \/ below[1] # FaultsHeader
           /\ listed.line = 1 /\ listed.why \in HeaderWrongs
        \/ /\ below # <<>> /\ below[1] = FaultsHeader
           /\ listed.why \notin HeaderWrongs
           /\ \E i \in 1 .. Len(below) - 1 : listed.line = i + 1
    BY <1>28, <2>5, ScheduleParsed
  <2>7. page.line = IF listed.why \in HeaderWrongs THEN 3 ELSE listed.line + 3 - 1
    BY <1>28, LinesOfWords DEF Nested, HeaderWrongs, SCHEDULE_AT
  <2>8. CASE d = 2
    <3>1. CutShort(text, written, 2)
      <4>1. ~ Displaced(text, written, 2)
        BY <1>19, <2>1
      <4> QED
        BY <1>3, <2>2, <2>8, <4>1
    <3>2. Len(text) = 2
      BY <1>7, <1>28, <3>1 DEF CutShort
    <3>3. Len(below) = 0
      BY <1>23, <1>28, <3>2
    <3>4. below = <<>>
      BY <2>5, <3>3, EmptySeq
    <3>5. page.line = 3
      BY <2>6, <2>7, <3>4
    <3>6. FirstUnlike(expects, written, 3)
      <4>1. DOMAIN expects = 1 .. 2 /\ expects[2] = written[2] /\ expects[1] = text[1]
        BY <1>7, <2>1, <2>4, <3>2
      <4>2. text[1] = written[1]
        <5>1. 1 \in 1 .. d - 1
          BY <2>8
        <5> QED
          BY <1>13, <5>1
      <4>3. \A j \in 1 .. 3 - 1 : j = 1 \/ j = 2
        OBVIOUS
      <4>4. 3 \in 1 .. Len(written) + 1
        BY <1>1, <1>7
      <4> QED
        BY <1>9, <4>1, <4>2, <4>3, <4>4 DEF FirstUnlike
    <3> QED
      BY <1>17, <3>5, <3>6
  <2>9. CASE d >= 3
    <3>1. expects = text
      <4>1. 2 \in 1 .. d - 1
        BY <1>8, <2>9
      <4>2. text[2] = written[2]
        BY <1>13, <4>1
      <4> QED
        BY <1>12, <2>4, <4>2
    <3>2. page.line = d
      <4>1. CASE d = 3 /\ d \in DOMAIN text /\ text[d] = written[2]
        <5>1. below # <<>> /\ below[1] = written[2]
          <6>1. Len(text) >= 3
            BY <1>7, <4>1
          <6>2. 1 \in 1 .. Len(text) - 2 /\ 2 + 1 = 3
            BY <1>7, <6>1
          <6>3. below[1] = text[3] /\ Len(below) # 0
            BY <1>7, <1>23, <1>28, <6>1, <6>2
          <6> QED
            BY <4>1, <6>3, EmptySeq
        <5>2. written[2] # FaultsHeader
          BY <1>1 DEF FaultsHeader
        <5> QED
          BY <2>6, <2>7, <4>1, <5>1, <5>2
      <4>2. CASE ~ (d = 3 /\ d \in DOMAIN text /\ text[d] = written[2])
        <5>1. /\ two <= Len(text) /\ two <= Len(written) /\ d > two
              /\ d = two + 1 => ~ (d \in DOMAIN text /\ text[d] = written[two])
          BY <1>1, <1>7, <1>8, <1>26, <1>28, <2>9, <4>2
        <5>2. MarredAt(After(text, two), After(written, two), d - two)
          BY <1>3, <1>5, <1>26, <5>1, MarredBelow
        <5> DEFINE e == d - 2
        <5>3. MarredAt(below, schedule, e)
          BY <1>24, <1>26, <5>2 DEF below
        <5> HIDE DEF e
        <5>4. listed.line = e
          BY <1>1, <1>28, <2>5, <5>3, ScheduleBlamed DEF schedule
        <5> QED
          BY <1>8, <2>6, <2>7, <5>4 DEF e
      <4> QED
        BY <4>1, <4>2
    <3> QED
      BY <1>3, <1>17, <3>1, <3>2
  <2> QED
    BY <1>8, <2>3, <2>8, <2>9
<1> QED
  BY <1>2, <1>15, <1>20, <1>21, <1>22, <1>28

--------------------------------------------------------------------------------
(* What befell the pages. *)

\* A page is as it was written, or was marred since, once.
Befallen ==
    \A path \in Path :
       meant[path] # Nobody =>
          LET written == WriteForm(meant[path].form, meant[path].value)
          IN files[path] = written \/ Marred(files[path], written)

LEMMA StaysBefallen == ASSUME Befallen, UNCHANGED <<files, meant>> PROVE Befallen'
BY DEF Befallen

LEMMA WritesBefall ==
    ASSUME Befallen, Kept, Kept', NEW command, NEW path, NEW result, NEW form, NEW value,
           NEW to \in Pages, Writes(command, path, result, form, value, to)
    PROVE  Befallen'
<1> DEFINE written == WriteForm(form, value)
<1>1. to \in Path /\ files \in [Path -> Texts] /\ DOMAIN meant = Path
  BY PagesArePaths DEF Kept
<1>2. ASSUME NEW other \in Path, other # to
      PROVE  files'[other] = files[other] /\ meant'[other] = meant[other]
  <2>1. files' = files \/ \E text : files' = [files EXCEPT ![to] = text]
    BY DEF Writes
  <2>2. meant' = meant \/ \E page : meant' = [meant EXCEPT ![to] = page]
    BY DEF Writes
  <2> QED
    BY <1>1, <1>2, <2>1, <2>2
<1>3. ASSUME meant'[to] # Nobody
      PROVE  /\ meant'[to].form = form /\ meant'[to].value = value
             /\ files'[to] = written \/ Marred(files'[to], written)
  <2>1. meant[to] = Nobody
    BY DEF Writes
  <2>2. CASE result.is = "bad"
    <3>1. meant' = [meant EXCEPT ![to] = Nobody]
      BY <2>2 DEF Writes
    <3> QED
      BY <1>1, <1>3, <3>1
  <2>3. CASE result.is = "good"
    <3>1. PICK out \in Outlet :
            /\ \/ out = "open" /\ files' = [files EXCEPT ![to] = WriteForm(form, value)]
               \/ /\ out = "full"
                  /\ \E text \in Beginnings(WriteForm(form, value)) :
                        files' = [files EXCEPT ![to] = text]
               \/ out = "gone" /\ UNCHANGED files
            /\ meant' = IF out = "gone" THEN meant
                        ELSE [meant EXCEPT ![to] = Meant(form, value)]
      BY <2>3 DEF Writes
    <3>2. out # "gone"
      BY <1>3, <2>1, <3>1
    <3>3. meant'[to] = Meant(form, value)
      BY <1>1, <3>1, <3>2
    <3>4. meant'[to].form = form /\ meant'[to].value = value
      BY <3>3 DEF Meant
    <3>5. OfItsForm(meant'[to])
      BY <1>1, <1>3 DEF Kept
    <3>6. written \in Seq(Line)
      BY <3>4, <3>5, FormReadsBack
    <3>7. \A text \in Beginnings(written) : Marred(text, written)
      <4> HIDE DEF written
      <4> QED
        BY <3>6, BeginningsAreMarred DEF Line
    <3>8. files'[to] = written \/ Marred(files'[to], written)
      BY <1>1, <3>1, <3>2, <3>7
    <3> QED
      BY <3>4, <3>8
  <2> QED
    BY <2>2, <2>3 DEF Writes
<1> QED
  BY <1>2, <1>3 DEF Befallen

\* Once harmed, twice not.
LEMMA HarmBefalls ==
    ASSUME Befallen, Kept, NEW path \in Path, Harm(path)
    PROVE  Befallen'
<1> DEFINE written == WriteForm(meant[path].form, meant[path].value)
<1>1. /\ meant[path] # Nobody /\ files[path] = written /\ meant' = meant
      /\ \E text \in Harmed(files[path]) \ {files[path]} : files' = [files EXCEPT ![path] = text]
  BY DEF Harm, Intact
<1>2. files \in [Path -> Texts] /\ OfItsForm(meant[path])
  BY <1>1 DEF Kept
<1>3. written \in Seq(Line)
  BY <1>2, FormReadsBack
<1>4. PICK text \in Harmed(written) \ {written} : files' = [files EXCEPT ![path] = text]
  BY <1>1
<1>5. Marred(text, written)
  <2> HIDE DEF written
  <2> QED
    BY <1>3, <1>4, HarmedAreMarred DEF Line
<1>6. files'[path] = text /\ \A other \in Path : other # path => files'[other] = files[other]
  BY <1>2, <1>4
<1> QED
  BY <1>1, <1>5, <1>6 DEF Befallen

LEMMA BefallenAtFirst == CommandInit => Befallen
<1> SUFFICES ASSUME CommandInit PROVE Befallen
  OBVIOUS
<1>1. PICK schedule \in Asked :
        /\ meant = [path \in Path |->
                      IF path = "faults" THEN [form |-> "faults", value |-> schedule, build |-> 0]
                      ELSE Nobody]
        /\ files = [path \in Path |-> IF path = "faults" THEN WriteSchedule(schedule) ELSE <<>>]
  BY DEF CommandInit
<1>2. ASSUME NEW path \in Path, meant[path] # Nobody
      PROVE  files[path] = WriteForm(meant[path].form, meant[path].value)
  <2>1. path = "faults" /\ meant[path].form = "faults" /\ meant[path].value = schedule
    BY <1>1, <1>2
  <2> QED
    BY <1>1, <2>1 DEF WriteForm
<1> QED
  BY <1>2 DEF Befallen

LEMMA BefallenStep ==
    Befallen /\ Kept /\ Kept' /\ [CommandNext]_allVars => Befallen'
<1> SUFFICES ASSUME Befallen, Kept, Kept', [CommandNext]_allVars PROVE Befallen'
  OBVIOUS
<1>1. "page" \in Pages /\ "other" \in Pages /\ Pages \subseteq Path /\ "faults" \in Path
  BY PagesArePaths DEF Pages
<1>2. ASSUME NEW command, NEW path, NEW result, Tells(command, path, result) PROVE Befallen'
  BY <1>2, StaysBefallen DEF Tells
<1>3. ASSUME NEW command, NEW path, Crashes(command, path) PROVE Befallen'
  BY <1>3, StaysBefallen DEF Crashes
<1>4. ASSUME NEW command, NEW path, NEW system, NEW s, NEW schedule, NEW to \in Pages,
             Reduced(command, path, system, s, schedule, to)
      PROVE  Befallen'
  <2>1. \/ Crashes(command, path)
        \/ \E result, form, value : Writes(command, path, result, form, value, to)
    BY <1>4 DEF Reduced
  <2> QED
    BY <1>3, <2>1, WritesBefall
<1>5. ASSUME NEW s,
             RunSeed(s, "page") \/ TraceSeed(s, "page") \/ ShrinkFaults(s, "faults", "page")
               \/ Corner(s, "page")
      PROVE  Befallen'
  <2>1. CASE RunSeed(s, "page")
    <3>1. \E result, form, value : Writes("run", "page", result, form, value, "page")
      BY <2>1 DEF RunSeed
    <3> QED
      BY <1>1, <3>1, WritesBefall
  <2>2. CASE TraceSeed(s, "page")
    <3>1. \E result, form, value : Writes("trace", "page", result, form, value, "page")
      BY <2>2 DEF TraceSeed
    <3> QED
      BY <1>1, <3>1, WritesBefall
  <2>3. CASE ShrinkFaults(s, "faults", "page")
    <3>1. \/ \E schedule : Reduced("shrink", "faults", "quorum", s, schedule, "page")
          \/ \E result, form, value : Writes("shrink", "faults", result, form, value, "page")
      BY <2>3 DEF ShrinkFaults
    <3> QED
      BY <1>1, <1>4, <3>1, WritesBefall
  <2>4. CASE Corner(s, "page")
    <3>1. Reduced("corner", "page", "reconciler", s, DrawnFor(s), "page")
      BY <2>4 DEF Corner
    <3> QED
      BY <1>1, <1>4, <3>1
  <2> QED
    BY <1>5, <2>1, <2>2, <2>3, <2>4
<1>6. ASSUME NEW command, NEW path, NEW outcome, NEW wanted, NEW otherwise,
             Verdict(command, path, outcome, wanted, otherwise)
      PROVE  Befallen'
  <2>1. Crashes(command, path) \/ \E result : Tells(command, path, result)
    BY <1>6 DEF Verdict
  <2> QED
    BY <1>2, <1>3, <2>1
<1>7. ASSUME NEW s, NEW path, Check(s, path) \/ Reproduce(path) \/ Replay(path)
      PROVE  Befallen'
  <2>1. \/ \E command, result : Tells(command, path, result)
        \/ \E command, outcome, wanted, otherwise :
              Verdict(command, path, outcome, wanted, otherwise)
    BY <1>7 DEF Check, Reproduce, Replay
  <2> QED
    BY <1>2, <1>6, <2>1
<1>8. ASSUME NEW path, NEW n,
             \/ Inspect(path, n) \/ (\E m : Diff(path, n, m)) \/ \E s : Fork(path, n, s, "other")
      PROVE  Befallen'
  <2>1. CASE Inspect(path, n) \/ \E m : Diff(path, n, m)
    <3>1. \E command, result : Tells(command, path, result)
      BY <2>1 DEF Inspect, Diff
    <3> QED
      BY <1>2, <3>1
  <2>2. CASE \E s : Fork(path, n, s, "other")
    <3>1. PICK s : Fork(path, n, s, "other")
      BY <2>2
    <3>2. \E result, form, value : Writes("fork", path, result, form, value, "other")
      BY <3>1 DEF Fork
    <3> QED
      BY <1>1, <3>2, WritesBefall
  <2> QED
    BY <1>8, <2>1, <2>2
<1>9. CASE SweepSeeds \/ HuntSeeds \/ WhileSweeping \/ (\E text : Mistype(text)) \/ Rebuild
             \/ UNCHANGED allVars
  <2>1. UNCHANGED <<files, meant>>
    BY <1>9 DEF SweepSeeds, HuntSeeds, BeginSweep, WhileSweeping, Mistype, Rebuild, commandVars,
                allVars
  <2> QED
    BY <2>1, StaysBefallen
<1>10. CASE SweepEnds
  <2>1. UNCHANGED <<files, meant>>
    BY <1>10 DEF SweepEnds, Crashes, Tells
  <2> QED
    BY <2>1, StaysBefallen
<1>11. CASE Harm("faults") \/ Harm("page") \/ Harm("other")
  BY <1>1, <1>11, HarmBefalls
<1>12. CASE CommandNext
  BY <1>5, <1>7, <1>8, <1>9, <1>10, <1>11, <1>12 DEF CommandNext
<1> QED
  BY <1>9, <1>12

--------------------------------------------------------------------------------
(* What a complaint about a page points at. *)

\* What was written there.
AsWritten(path) == WriteForm(meant[path].form, meant[path].value)

\* The page says still what to run, or the line is one of those that say it.
Points(path, line) ==
    \/ Spells(Heading(files[path]), Heading(AsWritten(path)))
    \/ line <= Len(Heading(AsWritten(path)))

\* The first line that is not as it was written.
Pointed(command, path) ==
    FirstDifference(Unexpected(command, files[path], AsWritten(path)), AsWritten(path))

\* A complaint with a line has the right one.
PointsRight(command, path, result) ==
    /\ result.is = "bad" /\ result.line > 0
    /\ Fits(command, meant[path]) /\ meant[path].build = build
    /\ Points(path, result.line)
    => result.line = Pointed(command, path)

LEMMA RightIsTheFirst ==
    ASSUME NEW command, NEW path, NEW result, PointsRight(command, path, result),
           said'.command = command, said'.on = path, said'.result = result,
           files'[path] = files[path], meant'[path] = meant[path], build' = build
    PROVE  ErrorsNameTheFirstWrongLine'
BY DEF PointsRight, Points, Pointed, AsWritten, ErrorsNameTheFirstWrongLine, Fits

LEMMA TellsPoints ==
    ASSUME NEW command, NEW path, NEW result, Tells(command, path, result), UNCHANGED build,
           PointsRight(command, path, result)
    PROVE  ErrorsNameTheFirstWrongLine'
<1>1. /\ files' = files /\ meant' = meant /\ build' = build
      /\ said'.command = command /\ said'.on = path /\ said'.result = result
  BY DEF Tells
<1> QED
  BY <1>1, RightIsTheFirst

LEMMA WritesPoint ==
    ASSUME Kept, NEW command, NEW path \in Path, NEW result, NEW form, NEW value, NEW to,
           to # path, Writes(command, path, result, form, value, to), UNCHANGED build,
           PointsRight(command, path, result)
    PROVE  ErrorsNameTheFirstWrongLine'
<1>1. /\ build' = build
      /\ said'.command = command /\ said'.on = path /\ said'.result = result
  BY DEF Writes
<1>2. files'[path] = files[path] /\ meant'[path] = meant[path]
  <2>1. files' = files \/ \E text : files' = [files EXCEPT ![to] = text]
    BY DEF Writes
  <2>2. meant' = meant \/ \E page : meant' = [meant EXCEPT ![to] = page]
    BY DEF Writes
  <2> QED
    BY <2>1, <2>2 DEF Kept
<1> QED
  BY <1>1, <1>2, RightIsTheFirst

LEMMA OthersPoint ==
    ASSUME said'.command \notin Readers \/ said'.exit \in {"none", "panic"}
    PROVE  ErrorsNameTheFirstWrongLine'
BY DEF ErrorsNameTheFirstWrongLine, Answered

\* Most complaints are about no line.
LEMMA NoLinePoints ==
    ASSUME NEW result, result.is = "good" \/ (result.line \in Int /\ ~ result.line > 0)
    PROVE  \A command, path : PointsRight(command, path, result)
<1>1. result.is = "good" => ~ result.is = "bad"
  OBVIOUS
<1> QED
  BY <1>1 DEF PointsRight

LEMMA ComplaintIs ==
    \A page : /\ Complaint(page).is = "bad" /\ Complaint(page).line = page.line
BY GoodAndBad, LinesOfWords DEF Complaint

\* A page is as it was written or marred at one line.
LEMMA PageIs ==
    ASSUME Kept, Befallen, NEW path \in Path,
           meant[path].form \in {"history", "trace", "repro", "faults"}
    PROVE  /\ files[path] \in Seq(Seq(Token \cup Garble)) /\ AsWritten(path) \in Seq(Line)
           /\ OfItsForm(meant[path])
           /\ meant[path].build = build => Told(known, meant[path])
           /\ \/ Intact(path)
              \/ \E d : MarredAt(files[path], AsWritten(path), d)
<1>1. meant[path] # Nobody
  <2>1. Nobody.form = "none"
    BY DEF Nobody
  <2> QED
    BY <2>1
<1>2. /\ OfItsForm(meant[path]) /\ files[path] \in Texts
      /\ meant[path].build = build => Told(known, meant[path])
  BY <1>1 DEF Kept
<1>3. AsWritten(path) \in Seq(Line)
  BY <1>2, FormReadsBack DEF AsWritten
<1>4. Intact(path) \/ Marred(files[path], AsWritten(path))
  BY <1>1 DEF Befallen, Intact, AsWritten
<1> QED
  BY <1>2, <1>3, <1>4 DEF Marred, Texts

\* Where the page differs first, for the commands that look at it as it is.
LEMMA PointedIs ==
    ASSUME NEW path, files[path] \in Seq(Seq(Token \cup Garble)), AsWritten(path) \in Seq(Line),
           NEW d, MarredAt(files[path], AsWritten(path), d), NEW command, command # "reproduce"
    PROVE  Pointed(command, path) = d
<1> DEFINE text == files[path]
           written == AsWritten(path)
<1>1. Unexpected(command, text, written) = text
  BY DEF Unexpected
<1>2. FirstUnlike(text, written, d)
  BY DEF MarredAt
<1> HIDE DEF text, written
<1>3. text \in Seq(Seq(Token \cup Garble)) /\ written \in Seq(Line)
  BY DEF text, written
<1>4. FirstDifference(text, written) = d
  BY <1>2, <1>3, FirstDifferenceIs
<1> QED
  BY <1>1, <1>4 DEF Pointed, text, written

--------------------------------------------------------------------------------
(* What is said of a recording. *)

LEMMA ReplayPoints ==
    ASSUME Kept, Befallen, NEW path \in Path, Replay(path)
    PROVE  ErrorsNameTheFirstWrongLine'
<1> DEFINE text == files[path]
           page == ReadRecording(text)
           run == ExchangeOf(page.value.seed)
           r == meant[path].value
<1>1. build' = build
  BY AloneBuilds DEF Replay
<1>2. ASSUME Fits("replay", meant[path]), meant[path].build = build
      PROVE  /\ text \in Seq(Seq(Token \cup Garble)) /\ AsWritten(path) = WriteRecording(r)
             /\ r \in Recording /\ AsWritten(path) \in Seq(Line)
             /\ ExchangeOf(r.seed) \in DOMAIN known /\ known[ExchangeOf(r.seed)] = r.entries
             /\ \/ page = Read(r)
                \/ \E d : MarredAt(text, WriteRecording(r), d) /\ Pointed("replay", path) = d
  <2>1. meant[path].form = "history"
    BY <1>2 DEF Fits, TraceReaders
  <2>2. /\ text \in Seq(Seq(Token \cup Garble)) /\ AsWritten(path) \in Seq(Line)
        /\ OfItsForm(meant[path]) /\ Told(known, meant[path])
        /\ Intact(path) \/ \E d : MarredAt(text, AsWritten(path), d)
    BY <1>2, <2>1, PageIs
  <2>3. AsWritten(path) = WriteRecording(r)
    BY <2>1 DEF AsWritten, WriteForm
  <2>4. /\ r \in Recording /\ ExchangeOf(r.seed) \in DOMAIN known
        /\ known[ExchangeOf(r.seed)] = r.entries
    BY <2>1, <2>2, FormReadsBack DEF Told
  <2>5. Intact(path) => page = Read(r)
    BY <2>1, IntactIsRead
  <2>6. \A d : MarredAt(text, AsWritten(path), d) => Pointed("replay", path) = d
    BY <2>2, PointedIs
  <2> QED
    BY <2>2, <2>3, <2>4, <2>5, <2>6
<1>3. CASE ~ IsRead(page)
  <2>1. Tells("replay", path, Complaint(page))
    BY <1>3 DEF Replay
  <2>2. ASSUME Fits("replay", meant[path]), meant[path].build = build
        PROVE  page.line = Pointed("replay", path)
    <3>1. page # Read(r)
      BY <1>3, ReadOrWrong
    <3>2. PICK d : MarredAt(text, WriteRecording(r), d) /\ Pointed("replay", path) = d
      BY <1>2, <2>2, <3>1
    <3>3. page.line = d
      BY <1>2, <1>3, <2>2, <3>2, RecordingBlamed
    <3> QED
      BY <3>2, <3>3
  <2>3. PointsRight("replay", path, Complaint(page))
    <3> HIDE DEF page
    <3> QED
      BY <2>2, ComplaintIs DEF PointsRight
  <2> QED
    BY <1>1, <2>1, <2>3, TellsPoints
<1>4. CASE IsRead(page)
  <2>1. PICK entries \in Comes(known, run) :
          LET parted == FirstDivergence(page.value.entries, entries, 2) IN
          /\ known' = Knowing(known, run, entries)
          /\ \E result \in IF parted = {} THEN {Good(<<>>)} ELSE parted :
                Tells("replay", path, result)
    BY <1>4 DEF Replay
  <2> DEFINE parted == FirstDivergence(page.value.entries, entries, 2)
  <2>2. PICK result \in IF parted = {} THEN {Good(<<>>)} ELSE parted :
          Tells("replay", path, result)
    BY <2>1
  <2>3. ASSUME result.is = "bad", result.line > 0,
               Fits("replay", meant[path]), meant[path].build = build, Points(path, result.line)
        PROVE  result.line = Pointed("replay", path)
    <3>1. result \in parted
      BY <2>2, <2>3, GoodAndBad
    <3>2. text \in Seq(Seq(Token \cup Garble)) /\ r \in Recording
      BY <1>2, <2>3
    <3> DEFINE head == Numbered(text[1], Header("history"))
    <3>3. text # <<>> /\ head # {} /\ page.value.seed = Max(head)
      <4> DEFINE collected == Collect([i \in 1 .. Len(text) - 1 |-> ReadEntry(text[i + 1])], 2)
                 read == [seed |-> Max(head), entries |-> collected.value]
      <4>1. page = IF text = <<>> THEN Wrong("MissingHeader", 1)
                   ELSE IF head = {} THEN Wrong("BadHeader", 1)
                   ELSE IF IsRead(collected) THEN Read(read) ELSE collected
        BY DEF ReadRecording
      <4>2. read.seed = Max(head)
        OBVIOUS
      <4> HIDE DEF page, collected, head, read
      <4>3. text # <<>> /\ head # {}
        BY <1>4, <4>1, ReadOrWrong
      <4>4. page = Read(read)
        BY <1>4, <4>1, <4>3
      <4> QED
        BY <4>2, <4>3, <4>4, ReadOrWrong
    <3>4. \E n \in Nat : \E e : page.value.entries = [i \in 1 .. n |-> e[i]]
      BY <1>4, <3>2, RecordingSpelt
    <3>5. \E i \in Nat \ {0} : result = Diverged(i - 1 + 2)
      <4> DEFINE recorded == page.value.entries
      <4>1. PICK n \in Nat : \E e : recorded = [i \in 1 .. n |-> e[i]]
        BY <3>4
      <4>2. DOMAIN recorded = 1 .. n
        BY <4>1
      <4>3. result \in FirstDivergence(recorded, entries, 2)
        BY <3>1
      <4> HIDE DEF recorded
      <4>4. \E i \in 1 .. n : result = Diverged(i - 1 + 2)
        BY <2>3, <4>2, <4>3, FirstParted
      <4> QED
        BY <4>4
    <3>6. result.line \in Nat /\ result.line >= 2
      BY <3>5, LinesOfWords
    <3>7. /\ Len(Heading(WriteRecording(r))) = 1 /\ Heading(WriteRecording(r))[1] = WriteRecording(r)[1]
          /\ DOMAIN Heading(WriteRecording(r)) = {1}
          /\ WriteRecording(r)[1] = Append(Header("history"), Written(r.seed)) /\ r.seed \in Number
      <4> DEFINE written == WriteRecording(r)
      <4>1. /\ written \in Seq(Line) /\ Len(written) = 1 + Len(r.entries)
            /\ r.seed \in Number /\ r.entries \in Seq(Entry)
            /\ written[1] = Append(Header("history"), Written(r.seed))
            /\ \A i \in 1 .. Len(r.entries) : written[i + 1][1] \notin Words
        BY <3>2, RecordingLines
      <4> HIDE DEF written
      <4>2. Len(r.entries) \in Nat
        BY <4>1, LenProperties
      <4>3. ~ (Len(written) > 1 /\ IsForkLine(written[2]))
        <5> SUFFICES ASSUME Len(written) > 1, IsForkLine(written[2]) PROVE FALSE
          OBVIOUS
        <5>1. 1 \in 1 .. Len(r.entries)
          BY <4>1, <4>2
        <5>2. written[1 + 1][1] \notin Words
          BY <4>1, <5>1
        <5>3. 2 \in 1 .. Len(written)
          BY <4>1, <4>2
        <5>4. written[2] \in Seq(Token)
          BY <4>1, <5>3, ElementOfSeq DEF Line
        <5>5. written[2][1] = "forked"
          BY <5>4, ForkOpens
        <5> QED
          BY <5>2, <5>5 DEF Words
      <4>4. written # <<>>
        BY <4>1, <4>2, EmptySeq
      <4>5. /\ Len(Heading(written)) = 1 /\ DOMAIN Heading(written) = 1 .. 1
            /\ \A i \in 1 .. 1 : Heading(written)[i] = written[i]
        BY <4>1, <4>3, <4>4, HeadingIs
      <4> QED
        BY <4>1, <4>5 DEF written
    <3>8. Spells(Heading(text), Heading(WriteRecording(r)))
      <4>1. AsWritten(path) = WriteRecording(r)
        BY <1>2, <2>3
      <4>2. ~ result.line <= Len(Heading(WriteRecording(r)))
        BY <3>6, <3>7
      <4> QED
        BY <2>3, <4>1, <4>2 DEF Points
    <3>9. SpellsLine(text[1], Append(Header("history"), Written(r.seed)))
      <4>1. SpellsLine(Heading(text)[1], Heading(WriteRecording(r))[1])
        BY <3>7, <3>8 DEF Spells
      <4>2. Heading(text)[1] = text[1]
        BY <3>2, <3>3, HeadingIs
      <4> QED
        BY <3>7, <4>1, <4>2
    <3>10. page.value.seed = r.seed
      <4>1. text[1] \in Seq(Token \cup Garble)
        BY <3>2, <3>3, EmptySeq, LenProperties, ElementOfSeq
      <4>2. "history" \in Words
        BY DEF Words
      <4> QED
        BY <3>3, <3>7, <3>9, <4>1, <4>2, SameHeader
    <3>11. entries = r.entries
      BY <1>2, <2>1, <2>3, <3>10 DEF Comes
    <3>12. page # Read(r)
      <4>1. page = Read(r) => page.value = r
        BY ReadOrWrong
      <4>2. page.value = r => parted = {}
        BY <3>11, NoDivergence
      <4> QED
        BY <3>1, <4>1, <4>2
    <3>13. PICK d : MarredAt(text, WriteRecording(r), d) /\ Pointed("replay", path) = d
      BY <1>2, <2>3, <3>12
    <3>14. \A c \in FirstDivergence(page.value.entries, r.entries, 2) : c.line > 0 => c.line = d
      BY <1>4, <3>2, <3>13, RecordingBlamed
    <3> QED
      BY <2>3, <3>1, <3>11, <3>13, <3>14
  <2>4. PointsRight("replay", path, result)
    BY <2>3 DEF PointsRight
  <2> QED
    BY <1>1, <2>2, <2>4, TellsPoints
<1> QED
  BY <1>3, <1>4

--------------------------------------------------------------------------------
(* What is said of a trace. *)

LEMMA LoadPoints ==
    ASSUME Kept, Befallen, NEW path \in Path, NEW loaded \in Load(path), NEW c \in loaded.wrong,
           NEW command \in TraceReaders
    PROVE  PointsRight(command, path, c)
<1> DEFINE text == files[path]
           page == ReadTrace(text)
           traced == page.value
           t == meant[path].value
           spelt == Spells(Heading(text), Heading(WriteTrace(t)))
<1> SUFFICES ASSUME c.is = "bad", c.line > 0, Fits(command, meant[path]),
                    meant[path].build = build, Points(path, c.line)
             PROVE  c.line = Pointed(command, path)
  BY DEF PointsRight
<1>1. meant[path].form = "trace" /\ command # "reproduce"
  BY DEF Fits, TraceReaders
<1>2. /\ text \in Seq(Seq(Token \cup Garble)) /\ AsWritten(path) \in Seq(Line)
      /\ OfItsForm(meant[path]) /\ Told(known, meant[path])
      /\ Intact(path) \/ \E d : MarredAt(text, AsWritten(path), d)
  BY <1>1, PageIs
<1>3. AsWritten(path) = WriteTrace(t)
  BY <1>1 DEF AsWritten, WriteForm
<1>4. /\ t \in Trace /\ RingOf(t.seed, t.fork) \in DOMAIN known
      /\ known[RingOf(t.seed, t.fork)] = t.steps
  BY <1>1, <1>2, FormReadsBack DEF Told
<1>5. Intact(path) => page = Read(t)
  BY <1>1, IntactIsRead
<1>6. \A d : MarredAt(text, WriteTrace(t), d) => Pointed(command, path) = d
  BY <1>1, <1>2, <1>3, PointedIs
<1>7. spelt \/ c.line <= 1 + Len(t.fork)
  <2>1. Len(Heading(WriteTrace(t))) = 1 + Len(t.fork)
    BY <1>4, TraceHeading
  <2> QED
    BY <1>3, <2>1 DEF Points
<1>8. CASE ~ IsRead(page)
  <2>1. loaded = [trace |-> <<>>, wrong |-> {Complaint(page)}, known |-> known]
    BY <1>8 DEF Load
  <2>2. c = Complaint(page)
    BY <2>1
  <2>3. c.line = page.line
    BY <2>2, ComplaintIs
  <2>4. page # Read(t)
    BY <1>8, ReadOrWrong
  <2>5. PICK d : MarredAt(text, WriteTrace(t), d)
    BY <1>2, <1>3, <1>5, <2>4
  <2>6. page.line = d
    <3>1. page.line <= 1 + Len(t.fork) \/ spelt
      BY <1>7, <2>3
    <3> QED
      BY <1>2, <1>4, <1>8, <2>5, <3>1, TraceBlamed
  <2> QED
    BY <1>6, <2>3, <2>5, <2>6
<1>9. CASE IsRead(page)
  <2>7. ASSUME NEW d, MarredAt(text, WriteTrace(t), d)
        PROVE  TopRight(traced, t, d) /\ (spelt => StepsRight(traced, t, d))
    <3>1. text \in Seq(Seq(Token \cup Garble)) /\ t \in Trace
      BY <1>2, <1>4
    <3> QED
      BY <1>9, <2>7, <3>1, TraceBlamed
  <2>0. PICK plain \in Comes(known, RingOf(traced.seed, <<>>)) :
          \E steps \in Comes(Knowing(known, RingOf(traced.seed, <<>>), plain), Reran(traced)) :
             loaded = [trace |-> traced,
                       wrong |-> FirstDivergence(traced.steps, steps, FirstLine(traced)),
                       known |-> Knowing(Knowing(known, RingOf(traced.seed, <<>>), plain),
                                         Reran(traced), steps)]
    BY <1>9 DEF Load
  <2>1. PICK steps \in Comes(Knowing(known, RingOf(traced.seed, <<>>), plain), Reran(traced)) :
          loaded = [trace |-> traced,
                    wrong |-> FirstDivergence(traced.steps, steps, FirstLine(traced)),
                    known |-> Knowing(Knowing(known, RingOf(traced.seed, <<>>), plain),
                                      Reran(traced), steps)]
    BY <2>0
  <2> HIDE DEF page
  <2>2. c \in FirstDivergence(traced.steps, steps, FirstLine(traced))
    BY <2>1
  <2>3. Reran(traced) \in DOMAIN known => steps = known[Reran(traced)]
    BY RunsOfTraces DEF Reran, Kept
  <2>4. traced.seed = t.seed /\ traced.fork = t.fork => steps = t.steps
    BY <1>4, <2>3 DEF Reran
  <2>5. page # Read(t)
    <3>1. page = Read(t) => traced = t
      BY ReadOrWrong
    <3>2. traced = t => FirstDivergence(traced.steps, steps, FirstLine(traced)) = {}
      BY <2>4, NoDivergence
    <3> QED
      BY <2>2, <3>1, <3>2
  <2>6. PICK d : MarredAt(text, WriteTrace(t), d)
    BY <1>2, <1>3, <1>5, <2>5
  <2>8. TopRight(traced, t, d) /\ (spelt => StepsRight(traced, t, d))
    BY <2>6, <2>7
  <2> HIDE DEF traced, spelt
  <2>9. c.line = d
    <3>1. CASE spelt
      <4>1. c \in FirstDivergence(traced.steps, t.steps, FirstLine(traced))
        BY <2>2, <2>4, <2>8, <3>1 DEF StepsRight
      <4> QED
        BY <2>8, <3>1, <4>1 DEF StepsRight
    <3>2. CASE ~ spelt
      BY <1>7, <2>2, <2>8, <3>2 DEF TopRight
    <3> QED
      BY <3>1, <3>2
  <2> QED
    BY <1>6, <2>6, <2>9
<1> QED
  BY <1>8, <1>9

\* A trace that is what it should be, of which something is asked that is not there.
LEMMA AskedTooFar ==
    ASSUME NEW traced, NEW n
    PROVE  /\ \A e \in Unreached(traced, n) : e.line = 0
           /\ \A e \in Missing(traced, n) : e.line = 0
BY LinesOfWords DEF Unreached, Missing

LEMMA InspectPoints ==
    ASSUME Kept, Befallen, NEW path \in Path, NEW n, Inspect(path, n)
    PROVE  ErrorsNameTheFirstWrongLine'
<1>1. build' = build
  BY AloneBuilds DEF Inspect
<1>2. PICK loaded \in Load(path) :
        Tells("inspect", path,
              IF loaded.wrong # {} THEN Answer(<<loaded.wrong>>, <<>>)
              ELSE IF Unreached(loaded.trace, n) # {}
              THEN Answer(<<Unreached(loaded.trace, n)>>, <<>>)
              ELSE Answer(<<Missing(loaded.trace, n)>>,
                          <<<<"step", Written(n)>> \o WriteStep(loaded.trace.steps[n + 1])>>))
  BY DEF Inspect
<1> DEFINE far == Unreached(loaded.trace, n)
           gone == Missing(loaded.trace, n)
           news == <<<<"step", Written(n)>> \o WriteStep(loaded.trace.steps[n + 1])>>
           result == IF loaded.wrong # {} THEN Answer(<<loaded.wrong>>, <<>>)
                     ELSE IF far # {} THEN Answer(<<far>>, <<>>) ELSE Answer(<<gone>>, news)
<1>3. Tells("inspect", path, result)
  BY <1>2
<1>4. "inspect" \in TraceReaders /\ \A e \in far \cup gone : e.line = 0
  BY AskedTooFar DEF TraceReaders
<1> HIDE DEF far, gone, news
<1>5. PointsRight("inspect", path, result)
  <2>1. CASE loaded.wrong # {}
    <3>1. result \in loaded.wrong
      BY <2>1, AnswerComplains
    <3> HIDE DEF result
    <3> QED
      BY <1>4, <3>1, LoadPoints
  <2>2. CASE loaded.wrong = {} /\ far # {}
    <3>1. result \in far
      BY <2>2, AnswerComplains
    <3> HIDE DEF result
    <3> QED
      BY <1>4, <3>1, NoLinePoints
  <2>3. CASE loaded.wrong = {} /\ far = {} /\ gone # {}
    <3>1. result \in gone
      BY <2>3, AnswerComplains
    <3> HIDE DEF result
    <3> QED
      BY <1>4, <3>1, NoLinePoints
  <2>4. CASE loaded.wrong = {} /\ far = {} /\ gone = {}
    <3>1. result.is = "good"
      BY <2>4, OneComplaint, GoodAndBad
    <3> HIDE DEF result
    <3> QED
      BY <3>1, NoLinePoints
  <2> QED
    BY <2>1, <2>2, <2>3, <2>4
<1> HIDE DEF result
<1> QED
  BY <1>1, <1>3, <1>5, TellsPoints

\* Of two lists of complaints, one that is made is in either.
LEMMA OneOfTwo ==
    ASSUME NEW c, NEW d, ~ (c = {} /\ d = {}), NEW news
    PROVE  Answer(<<c, d>>, news) \in c \cup d
<1> DEFINE complaints == <<c, d>>
           due == {i \in DOMAIN complaints : complaints[i] # {}}
<1>1. DOMAIN complaints = 1 .. 2 /\ complaints[1] = c /\ complaints[2] = d
  OBVIOUS
<1> HIDE DEF complaints
<1>2. due \in SUBSET Nat /\ due # {} /\ ~ \A i \in DOMAIN complaints : complaints[i] = {}
  BY <1>1
<1>3. Answer(complaints, news) = CHOOSE e \in complaints[Min(due)] : TRUE
  BY <1>2 DEF Answer
<1>4. Min(due) \in due
  <2> HIDE DEF due
  <2> QED
    BY <1>2, LeastFacts
<1>5. \A i \in due : complaints[i] # {} /\ complaints[i] \subseteq c \cup d
  BY <1>1
<1> HIDE DEF due
<1>6. complaints[Min(due)] # {} /\ complaints[Min(due)] \subseteq c \cup d
  BY <1>4, <1>5
<1>7. Answer(complaints, news) \in c \cup d
  BY <1>3, <1>6
<1> QED
  BY <1>7 DEF complaints

LEMMA DiffPoints ==
    ASSUME Kept, Befallen, NEW path \in Path, NEW n, NEW m, Diff(path, n, m)
    PROVE  ErrorsNameTheFirstWrongLine'
<1>1. build' = build
  BY AloneBuilds DEF Diff
<1>2. PICK loaded \in Load(path) :
        LET steps == loaded.trace.steps
            outside == Unreached(loaded.trace, n) \cup Unreached(loaded.trace, m)
        IN  Tells("diff", path,
                  IF loaded.wrong # {} THEN Answer(<<loaded.wrong>>, <<>>)
                  ELSE IF outside # {} THEN Answer(<<outside>>, <<>>)
                  ELSE Answer(<<Missing(loaded.trace, n), Missing(loaded.trace, m)>>,
                              IF steps[n + 1].state = steps[m + 1].state
                              THEN <<<<"nothing", "changed">>>>
                              ELSE <<<<WriteHash(steps[n + 1].state),
                                       WriteHash(steps[m + 1].state)>>>>))
  BY DEF Diff
<1> DEFINE steps == loaded.trace.steps
           far == Unreached(loaded.trace, n) \cup Unreached(loaded.trace, m)
           gone == Missing(loaded.trace, n)
           lost == Missing(loaded.trace, m)
           news == IF steps[n + 1].state = steps[m + 1].state
                   THEN <<<<"nothing", "changed">>>>
                   ELSE <<<<WriteHash(steps[n + 1].state), WriteHash(steps[m + 1].state)>>>>
           result == IF loaded.wrong # {} THEN Answer(<<loaded.wrong>>, <<>>)
                     ELSE IF far # {} THEN Answer(<<far>>, <<>>)
                     ELSE Answer(<<gone, lost>>, news)
<1>3. Tells("diff", path, result)
  BY <1>2
<1>4. "diff" \in TraceReaders /\ \A e \in far \cup gone \cup lost : e.line = 0
  BY AskedTooFar DEF TraceReaders
<1> HIDE DEF far, gone, lost, news
<1>5. PointsRight("diff", path, result)
  <2>1. CASE loaded.wrong # {}
    <3>1. result \in loaded.wrong
      BY <2>1, AnswerComplains
    <3> HIDE DEF result
    <3> QED
      BY <1>4, <3>1, LoadPoints
  <2>2. CASE loaded.wrong = {} /\ far # {}
    <3>1. result \in far
      BY <2>2, AnswerComplains
    <3> HIDE DEF result
    <3> QED
      BY <1>4, <3>1, NoLinePoints
  <2>3. CASE loaded.wrong = {} /\ far = {} /\ ~ (gone = {} /\ lost = {})
    <3>1. result = Answer(<<gone, lost>>, news)
      BY <2>3
    <3>2. result \in gone \cup lost
      BY <2>3, <3>1, OneOfTwo
    <3> HIDE DEF result
    <3> QED
      BY <1>4, <3>2, NoLinePoints
  <2>4. CASE loaded.wrong = {} /\ far = {} /\ gone = {} /\ lost = {}
    <3>1. result = Good(news)
      BY <2>4, OneComplaint
    <3> HIDE DEF result
    <3> QED
      BY <3>1, GoodAndBad, NoLinePoints
  <2> QED
    BY <2>1, <2>2, <2>3, <2>4
<1> HIDE DEF result
<1> QED
  BY <1>1, <1>3, <1>5, TellsPoints

LEMMA ForkPoints ==
    ASSUME Kept, Befallen, NEW path \in Path, NEW n, NEW s, NEW to, Fork(path, n, s, to)
    PROVE  ErrorsNameTheFirstWrongLine'
<1>1. build' = build /\ to # path
  BY AloneBuilds DEF Fork
<1>2. "fork" \in TraceReaders
  BY DEF TraceReaders
<1>3. PICK loaded \in Load(path) :
        \/ Writes("fork", path,
                  IF loaded.wrong # {} THEN Answer(<<loaded.wrong>>, <<>>)
                  ELSE IF Len(loaded.trace.fork) > 0 THEN Bad("AlreadyForked", 0)
                  ELSE Bad("Unreached", 0), "trace", <<>>, to)
        \/ \E value : Writes("fork", path, Good(<<>>), "trace", value, to)
  BY DEF Fork
<1> DEFINE result == IF loaded.wrong # {} THEN Answer(<<loaded.wrong>>, <<>>)
                     ELSE IF Len(loaded.trace.fork) > 0 THEN Bad("AlreadyForked", 0)
                     ELSE Bad("Unreached", 0)
<1>4. CASE Writes("fork", path, result, "trace", <<>>, to)
  <2>1. CASE loaded.wrong # {}
    <3>1. result \in loaded.wrong
      BY <2>1, AnswerComplains
    <3> HIDE DEF result
    <3> QED
      BY <1>1, <1>2, <1>4, <3>1, LoadPoints, WritesPoint
  <2>2. CASE loaded.wrong = {}
    <3>1. result.line = 0
      BY <2>2, LinesOfWords
    <3> HIDE DEF result
    <3>2. PointsRight("fork", path, result)
      BY <3>1, NoLinePoints
    <3> QED
      BY <1>1, <1>4, <3>2, WritesPoint
  <2> QED
    BY <2>1, <2>2
<1>5. CASE \E value : Writes("fork", path, Good(<<>>), "trace", value, to)
  <2> DEFINE told == Good(<<>>)
  <2>1. PICK value : Writes("fork", path, told, "trace", value, to)
    BY <1>5
  <2>2. told.is = "good"
    BY GoodAndBad
  <2> HIDE DEF told
  <2>3. PointsRight("fork", path, told)
    BY <2>2, NoLinePoints
  <2> QED
    BY <1>1, <2>1, <2>3, WritesPoint
<1> QED
  BY <1>3, <1>4, <1>5

--------------------------------------------------------------------------------
(* What is said of faults and of repros, and any run of commands. *)

LEMMA CrashesPoint ==
    ASSUME NEW command, NEW path, Crashes(command, path)
    PROVE  ErrorsNameTheFirstWrongLine'
<1>1. said'.exit = "panic"
  BY DEF Crashes
<1> QED
  BY <1>1, OthersPoint

LEMMA VerdictPoints ==
    ASSUME UNCHANGED build, NEW command, NEW path, NEW outcome, NEW wanted, NEW otherwise,
           Verdict(command, path, outcome, wanted, otherwise)
    PROVE  ErrorsNameTheFirstWrongLine'
<1> DEFINE result == IF outcome = Unrun THEN Bad("Run", 0)
                     ELSE IF wanted THEN Good(<<>>) ELSE Bad(otherwise, 0)
<1>1. Crashes(command, path) \/ Tells(command, path, result)
  BY DEF Verdict
<1>2. result.line = 0 \/ result.is = "good"
  BY LinesOfWords, GoodAndBad
<1> HIDE DEF result
<1>3. PointsRight(command, path, result)
  BY <1>2, NoLinePoints
<1> QED
  BY <1>1, <1>3, CrashesPoint, TellsPoints

LEMMA ReducedPoints ==
    ASSUME Kept, UNCHANGED build, NEW command, NEW path \in Path, NEW system, NEW s, NEW schedule,
           NEW to, to # path, Reduced(command, path, system, s, schedule, to)
    PROVE  ErrorsNameTheFirstWrongLine'
<1>1. \/ Crashes(command, path)
      \/ \E why, value : Writes(command, path, Bad(why, 0), "repro", value, to)
      \/ \E news, value : Writes(command, path, Good(news), "repro", value, to)
  BY DEF Reduced
<1>2. ASSUME NEW result, NEW value, result.line = 0 \/ result.is = "good",
             Writes(command, path, result, "repro", value, to)
      PROVE  ErrorsNameTheFirstWrongLine'
  <2>1. PointsRight(command, path, result)
    BY <1>2, NoLinePoints
  <2> QED
    BY <1>2, <2>1, WritesPoint
<1>3. \A why, news : Bad(why, 0).line = 0 /\ Good(news).is = "good"
  BY LinesOfWords, GoodAndBad
<1> QED
  BY <1>1, <1>2, <1>3, CrashesPoint

\* What cannot be read as faults.
LEMMA FaultsPoint ==
    ASSUME Kept, Befallen, NEW path \in Path, ~ IsRead(ReadSchedule(files[path])),
           NEW command \in {"check", "shrink"}
    PROVE  PointsRight(command, path, Complaint(ReadSchedule(files[path])))
<1> DEFINE text == files[path]
           page == ReadSchedule(text)
           schedule == meant[path].value
<1>1. ASSUME Fits(command, meant[path]), meant[path].build = build
      PROVE  page.line = Pointed(command, path)
  <2>1. meant[path].form = "faults" /\ command # "reproduce"
    BY <1>1 DEF Fits, TraceReaders
  <2>2. /\ text \in Seq(Seq(Token \cup Garble)) /\ AsWritten(path) \in Seq(Line)
        /\ OfItsForm(meant[path])
        /\ Intact(path) \/ \E d : MarredAt(text, AsWritten(path), d)
    BY <2>1, PageIs
  <2>3. AsWritten(path) = WriteSchedule(schedule) /\ schedule \in Seq(WritableFault)
    BY <2>1, <2>2, FormReadsBack DEF AsWritten, WriteForm
  <2>4. ~ Intact(path)
    BY <2>1, IntactIsRead, ReadOrWrong
  <2>5. PICK d : MarredAt(text, AsWritten(path), d)
    BY <2>2, <2>4
  <2>6. Pointed(command, path) = d
    BY <2>1, <2>2, <2>5, PointedIs
  <2>7. page.line = d
    BY <2>2, <2>3, <2>5, ScheduleBlamed
  <2> QED
    BY <2>6, <2>7
<1> HIDE DEF page
<1>2. PointsRight(command, path, Complaint(page))
  BY <1>1, ComplaintIs DEF PointsRight
<1> QED
  BY <1>2 DEF page

LEMMA ShrinkPoints ==
    ASSUME Kept, Befallen, NEW s, NEW path \in Path, NEW to, ShrinkFaults(s, path, to)
    PROVE  ErrorsNameTheFirstWrongLine'
<1> DEFINE page == ReadSchedule(files[path])
<1>1. build' = build /\ to # path
  BY AloneBuilds DEF ShrinkFaults
<1>2. CASE IsRead(page)
  <2>1. Reduced("shrink", path, "quorum", s, page.value, to)
    BY <1>2 DEF ShrinkFaults
  <2> QED
    BY <1>1, <2>1, ReducedPoints
<1>3. CASE ~ IsRead(page)
  <2>1. Writes("shrink", path, Complaint(page), "repro", <<>>, to)
    BY <1>3 DEF ShrinkFaults
  <2>2. PointsRight("shrink", path, Complaint(page))
    BY <1>3, FaultsPoint
  <2> QED
    BY <1>1, <2>1, <2>2, WritesPoint
<1> QED
  BY <1>2, <1>3

LEMMA CheckPoints ==
    ASSUME Kept, Befallen, NEW s, NEW path \in Path, Check(s, path)
    PROVE  ErrorsNameTheFirstWrongLine'
<1> DEFINE page == ReadSchedule(files[path])
<1>1. build' = build
  BY AloneBuilds DEF Check
<1>2. CASE ~ IsRead(page)
  <2>1. Tells("check", path, Complaint(page))
    BY <1>2 DEF Check
  <2>2. PointsRight("check", path, Complaint(page))
    BY <1>2, FaultsPoint
  <2> QED
    BY <1>1, <2>1, <2>2, TellsPoints
<1>3. CASE IsRead(page)
  <2>1. \E outcome, wanted, otherwise : Verdict("check", path, outcome, wanted, otherwise)
    BY <1>3 DEF Check
  <2> QED
    BY <1>1, <2>1, VerdictPoints
<1> QED
  BY <1>2, <1>3

LEMMA ReproducePoints ==
    ASSUME Kept, Befallen, NEW path \in Path, Reproduce(path)
    PROVE  ErrorsNameTheFirstWrongLine'
<1> DEFINE text == files[path]
           page == ReadRepro(text)
           repro == meant[path].value
<1>1. build' = build
  BY AloneBuilds DEF Reproduce
<1>2. CASE ~ IsRead(page)
  <2>1. Tells("reproduce", path, Complaint(page))
    BY <1>2 DEF Reproduce
  <2>2. ASSUME Fits("reproduce", meant[path]), meant[path].build = build
        PROVE  page.line = Pointed("reproduce", path)
    <3>1. meant[path].form = "repro"
      BY <2>2 DEF Fits, TraceReaders
    <3>2. /\ text \in Seq(Seq(Token \cup Garble)) /\ AsWritten(path) \in Seq(Line)
          /\ OfItsForm(meant[path])
          /\ Intact(path) \/ \E d : MarredAt(text, AsWritten(path), d)
      BY <3>1, PageIs
    <3>3. AsWritten(path) = WriteRepro(repro) /\ repro \in Repro
      BY <3>1, <3>2, FormReadsBack DEF AsWritten, WriteForm
    <3>4. ~ Intact(path)
      BY <1>2, <3>1, IntactIsRead, ReadOrWrong
    <3>5. PICK d : MarredAt(text, AsWritten(path), d)
      BY <3>2, <3>4
    <3> DEFINE written == AsWritten(path)
               expects == Unexpected("reproduce", text, written)
    <3>6. \E L : expects \in Seq(L) /\ FirstUnlike(expects, written, page.line)
      BY <1>2, <3>2, <3>3, <3>5, ReproBlamed
    <3> HIDE DEF page, written, expects
    <3>7. PICK L : expects \in Seq(L) /\ FirstUnlike(expects, written, page.line)
      BY <3>6
    <3>8. written \in Seq(Line)
      BY <3>2 DEF written
    <3>9. FirstDifference(expects, written) = page.line
      BY <3>7, <3>8, FirstDifferenceIs
    <3> QED
      BY <3>9 DEF Pointed, written, expects
  <2> HIDE DEF page
  <2>3. PointsRight("reproduce", path, Complaint(page))
    BY <2>2, ComplaintIs DEF PointsRight
  <2> QED
    BY <1>1, <2>1, <2>3, TellsPoints
<1>3. CASE IsRead(page)
  <2>1. \E outcome, wanted, otherwise : Verdict("reproduce", path, outcome, wanted, otherwise)
    BY <1>3 DEF Reproduce
  <2> QED
    BY <1>1, <2>1, VerdictPoints
<1> QED
  BY <1>2, <1>3

LEMMA MakersPoint ==
    ASSUME NEW s, RunSeed(s, "page") \/ TraceSeed(s, "page") \/ Corner(s, "page")
    PROVE  ErrorsNameTheFirstWrongLine'
<1>1. CASE RunSeed(s, "page")
  <2>1. \E result, form, value : Writes("run", "page", result, form, value, "page")
    BY <1>1 DEF RunSeed
  <2> QED
    BY <2>1, SaysItsName, OthersPoint DEF Readers, TraceReaders
<1>2. CASE TraceSeed(s, "page")
  <2>1. \E result, form, value : Writes("trace", "page", result, form, value, "page")
    BY <1>2 DEF TraceSeed
  <2> QED
    BY <2>1, SaysItsName, OthersPoint DEF Readers, TraceReaders
<1>3. CASE Corner(s, "page")
  <2>1. Reduced("corner", "page", "reconciler", s, DrawnFor(s), "page")
    BY <1>3 DEF Corner
  <2> QED
    BY <2>1, ReducedSays, OthersPoint DEF Readers, TraceReaders
<1> QED
  BY <1>1, <1>2, <1>3

LEMMA SweepsPoint ==
    ASSUME Commanding,
           SweepSeeds \/ HuntSeeds \/ SweepEnds \/ (\E text : Mistype(text)) \/ Rebuild
             \/ \E path \in Path : Harm(path)
    PROVE  ErrorsNameTheFirstWrongLine'
<1>1. said'.command \in {"sweep", "hunt", "refused", "none"}
  <2>1. CASE SweepSeeds \/ HuntSeeds
    BY <2>1 DEF SweepSeeds, HuntSeeds, BeginSweep
  <2>2. CASE SweepEnds
    BY <2>2, SweepEndsWell DEF Sweeps
  <2>3. CASE \E text : Mistype(text)
    BY <2>3 DEF Mistype
  <2>4. CASE Rebuild \/ \E path \in Path : Harm(path)
    BY <2>4 DEF Rebuild, Harm, Quiet
  <2> QED
    BY <2>1, <2>2, <2>3, <2>4
<1> QED
  BY <1>1, OthersPoint DEF Readers, TraceReaders

LEMMA LineStays ==
    ASSUME ErrorsNameTheFirstWrongLine, UNCHANGED <<files, meant, build, said>>
    PROVE  ErrorsNameTheFirstWrongLine'
BY DEF ErrorsNameTheFirstWrongLine, Answered, Fits

LEMMA CommandStepPoints ==
    Commanding /\ Kept /\ Befallen /\ ErrorsNameTheFirstWrongLine /\ [CommandNext]_allVars
      => ErrorsNameTheFirstWrongLine'
<1> SUFFICES ASSUME Commanding, Kept, Befallen, ErrorsNameTheFirstWrongLine, [CommandNext]_allVars
             PROVE  ErrorsNameTheFirstWrongLine'
  OBVIOUS
<1>1. Pages \subseteq Path /\ "faults" \in Path /\ "page" \in Path /\ "other" \in Path
  BY PagesArePaths DEF Pages
<1>2. CASE WhileSweeping \/ UNCHANGED allVars
  <2>1. files' = files /\ meant' = meant /\ build' = build /\ said' = said
    BY <1>2 DEF WhileSweeping, commandVars, allVars
  <2> QED
    BY <2>1, LineStays
<1>3. ASSUME NEW path \in Pages, NEW n,
             \/ Inspect(path, n)
             \/ \E m \in TypedNumbers : Diff(path, n, m)
             \/ \E s \in SeedsTyped : Fork(path, n, s, "other")
      PROVE  ErrorsNameTheFirstWrongLine'
  <2>1. path \in Path
    BY <1>1
  <2> QED
    BY <1>3, <2>1, InspectPoints, DiffPoints, ForkPoints
<1>4. ASSUME NEW path \in Pages, Replay(path) \/ Reproduce(path)
      PROVE  ErrorsNameTheFirstWrongLine'
  <2>1. path \in Path
    BY <1>1
  <2> QED
    BY <1>4, <2>1, ReplayPoints, ReproducePoints
<1>5. CASE SweepSeeds \/ HuntSeeds \/ SweepEnds \/ (\E text \in Typable : Mistype(text)) \/ Rebuild
             \/ Harm("faults") \/ Harm("page") \/ Harm("other")
  BY <1>1, <1>5, SweepsPoint
<1>6. ASSUME NEW s, RunSeed(s, "page") \/ TraceSeed(s, "page") \/ Corner(s, "page")
      PROVE  ErrorsNameTheFirstWrongLine'
  BY <1>6, MakersPoint
<1>7. ASSUME NEW s, ShrinkFaults(s, "faults", "page") \/ Check(s, "faults")
      PROVE  ErrorsNameTheFirstWrongLine'
  BY <1>1, <1>7, ShrinkPoints, CheckPoints
<1>8. CASE CommandNext
  BY <1>2, <1>3, <1>4, <1>5, <1>6, <1>7, <1>8 DEF CommandNext
<1> QED
  BY <1>2, <1>8

\* A complaint about a page that came to harm once names the first line that is not as it was
\* written, whether it cannot be read there or is not what the run does there, and whatever
\* the page holds (`first_divergence`, `Loaded::parse`, and the `parse` of each form).
THEOREM ErrorsPointRight == CommandSpec => []ErrorsNameTheFirstWrongLine
<1>1. CLInv => Commanding
  BY DEF CLInv
<1>2. CommandInit => ErrorsNameTheFirstWrongLine
  BY DEF CommandInit, ErrorsNameTheFirstWrongLine, Answered, Quiet, Readers, TraceReaders
<1>3. CLInv /\ Kept /\ ReadsBackWhatWasWritten /\ Befallen /\ ErrorsNameTheFirstWrongLine
        /\ [CommandNext]_allVars
        => Kept' /\ ReadsBackWhatWasWritten' /\ Befallen' /\ ErrorsNameTheFirstWrongLine'
  BY <1>1, CommandStepReads, BefallenStep, CommandStepPoints
<1> QED
  BY <1>2, <1>3, CommandsKeep, KeptAtFirst, BefallenAtFirst, PTL DEF CommandSpec

================================================================================
