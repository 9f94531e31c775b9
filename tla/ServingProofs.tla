----------------------------- MODULE ServingProofs -----------------------------
(***************************************************************************)
(* What holds of the server for any number of jobs, any tokens and any     *)
(* stop sequences: closing the queue reaches every job there is, nothing   *)
(* that was sent is taken back, and a stream says what the reply says; and *)
(* of the calls in a reply, whatever the model writes: merging the deltas  *)
(* gives the calls that are reported.                                      *)
(***************************************************************************)
EXTENDS Serving, ToolCalls, Collections

-----------------------------------------------------------------------------
(* Text. *)

Token == Plain \cup {First, Second}
Char == Plain \cup {Joined, Bad}
Text == Seq(Char)

\* What one of the tokens comes to, among those around it.
Piece(ids, i) ==
  CASE ids[i] \in Plain -> <<ids[i]>>
    [] ids[i] = First /\ i < Len(ids) /\ ids[i + 1] = Second -> <<Joined>>
    [] ids[i] = Second /\ i > 1 /\ ids[i - 1] = First -> << >>
    [] OTHER -> <<Bad>>
Pieces(ids) == [i \in DOMAIN ids |-> Piece(ids, i)]

\* The text of some tokens has become that of more: all but at most a Bad at its end is still there.
Grows(old, new) ==
  \E k \in 0..Len(old) :
    k <= Len(new) /\ Alike(old, new, k) /\ (k < Len(old) => k = Len(old) - 1 /\ old[Len(old)] = Bad)

\* A token comes to a text of its own.
LEMMA PieceType == ASSUME NEW ids \in Seq(Token), NEW i \in 1..Len(ids) PROVE Piece(ids, i) \in Text
<1>1. ids[i] \in Token BY ElementOfSeq
<1>2. CASE ids[i] \in Plain
  <2>1. ids[i] # First /\ ids[i] # Second BY <1>2, ServingAssumption DEF ServingAssumption
  <2>2. Piece(ids, i) = <<ids[i]>> BY <1>2, <2>1 DEF Piece
  <2> QED BY <1>2, <2>2 DEF Text, Char
<1>3. CASE ids[i] \notin Plain
  <2>1. ids[i] = First \/ ids[i] = Second BY <1>1, <1>3 DEF Token
  <2>2. Piece(ids, i) \in {<<Joined>>, << >>, <<Bad>>}
    BY <1>3, <2>1, ServingAssumption DEF Piece, ServingAssumption
  <2>3. <<Joined>> \in Text /\ << >> \in Text /\ <<Bad>> \in Text BY DEF Text, Char
  <2> QED BY <2>2, <2>3
<1> QED BY <1>2, <1>3

LEMMA PiecesType ==
  ASSUME NEW ids \in Seq(Token)
  PROVE  Pieces(ids) \in Seq(Text) /\ Len(Pieces(ids)) = Len(ids)
<1>1. Len(ids) \in Nat /\ DOMAIN ids = 1..Len(ids) BY LenProperties
<1>2. \A i \in 1..Len(ids) : Piece(ids, i) \in Text BY PieceType
<1>3. Pieces(ids) \in [1..Len(ids) -> Text] BY <1>1, <1>2 DEF Pieces
<1> HIDE DEF Text
<1> QED BY <1>1, <1>3

LEMMA DecodeIs == ASSUME NEW ids PROVE Decode(ids) = FlattenSeq(Pieces(ids))
BY DEF Decode, Pieces, Piece

LEMMA DecodeType == ASSUME NEW ids \in Seq(Token) PROVE Decode(ids) \in Text
BY PiecesType, FlattenType, DecodeIs DEF Text

\* A token's text depends on nothing to the right of its neighbour: more tokens change the last piece
\* at most, and that from half a codepoint.
LEMMA PiecesMore ==
  ASSUME NEW ids \in Seq(Token), NEW more \in Seq(Token)
  PROVE  /\ \A i \in 1..(Len(ids) - 1) : Pieces(ids \o more)[i] = Pieces(ids)[i]
         /\ ids # << >> => \/ Pieces(ids \o more)[Len(ids)] = Pieces(ids)[Len(ids)]
                           \/ Pieces(ids)[Len(ids)] = <<Bad>>
<1>1. PICK all \in Seq(Token) : all = ids \o more BY ConcatProperties
<1>2. PICK n \in Nat : n = Len(ids) BY LenProperties
<1>3. Len(all) \in Nat /\ Len(all) >= n /\ \A i \in 1..n : all[i] = ids[i]
  BY <1>1, <1>2, ConcatProperties, LenProperties
<1>4. DOMAIN ids = 1..n /\ DOMAIN all = 1..Len(all) BY <1>2, LenProperties
<1>5. \A i \in 1..n : Pieces(all)[i] = Piece(all, i) /\ Pieces(ids)[i] = Piece(ids, i)
  BY <1>3, <1>4 DEF Pieces
<1>6. ASSUME NEW i \in 1..(n - 1) PROVE Piece(all, i) = Piece(ids, i)
  <2>1. i \in 1..n /\ i + 1 \in 1..n /\ i < n /\ i < Len(all) /\ (i > 1 => i - 1 \in 1..n)
    BY <1>3
  <2>2. all[i] = ids[i] /\ all[i + 1] = ids[i + 1] /\ (i > 1 => all[i - 1] = ids[i - 1])
    BY <1>3, <2>1
  <2> QED BY <1>2, <2>1, <2>2 DEF Piece
<1>7. ASSUME n # 0 PROVE Piece(all, n) = Piece(ids, n) \/ Piece(ids, n) = <<Bad>>
  <2>1. n \in 1..n /\ ~(n < n) /\ (n > 1 => n - 1 \in 1..n) BY <1>7
  <2>2. all[n] = ids[n] /\ (n > 1 => all[n - 1] = ids[n - 1]) BY <1>3, <2>1
  <2>3. CASE ids[n] = First
    <3>1. ids[n] \notin Plain /\ ids[n] # Second
      BY <2>3, ServingAssumption DEF ServingAssumption
    <3> QED BY <1>2, <2>1, <3>1 DEF Piece
  <2>4. CASE ids[n] # First BY <1>2, <2>1, <2>2, <2>4 DEF Piece
  <2> QED BY <2>3, <2>4
<1> QED BY <1>1, <1>2, <1>3, <1>5, <1>6, <1>7

\* Text that begins with the same parts, but for the last of them, has grown.
LEMMA PartsGrow ==
  ASSUME NEW a \in Text, NEW b \in Text, NEW c \in Text, NEW d \in Text, b = c \/ b = <<Bad>>
  PROVE  Grows(a \o b, (a \o c) \o d)
<1> DEFINE T == Char
<1>1. PICK old \in Seq(T) : old = a \o b BY ConcatProperties DEF Text
<1>2. PICK mid \in Seq(T) : mid = a \o c BY ConcatProperties DEF Text
<1>3. PICK new \in Seq(T) : new = mid \o d BY ConcatProperties DEF Text
<1>4. a \in Seq(T) /\ b \in Seq(T) /\ c \in Seq(T) /\ d \in Seq(T) BY DEF Text
<1> HIDE DEF T
<1>5. Len(a) \in Nat /\ Len(b) \in Nat /\ Len(c) \in Nat /\ Len(d) \in Nat BY <1>4, LenProperties
<1>6. Len(old) = Len(a) + Len(b) /\ Len(mid) = Len(a) + Len(c) /\ Len(new) = Len(mid) + Len(d)
  BY <1>1, <1>2, <1>3, <1>4, ConcatProperties
<1>7. \A i \in 1..Len(old) : old[i] = IF i <= Len(a) THEN a[i] ELSE b[i - Len(a)]
  BY <1>1, <1>4, <1>6, ConcatProperties
<1>8. \A i \in 1..Len(mid) : mid[i] = IF i <= Len(a) THEN a[i] ELSE c[i - Len(a)]
  BY <1>2, <1>4, <1>6, ConcatProperties
<1>9. \A i \in 1..Len(mid) : new[i] = mid[i]
  BY <1>3, <1>4, <1>5, <1>6, ConcatProperties
<1>10. CASE b = c
  <2>1. old = mid BY <1>1, <1>2, <1>10
  <2>2. Len(old) \in 0..Len(old) /\ Len(old) <= Len(new) BY <1>5, <1>6, <2>1
  <2>3. Alike(old, new, Len(old)) BY <1>9, <2>1 DEF Alike
  <2>4. Grows(old, new) BY <1>5, <1>6, <2>2, <2>3 DEF Grows
  <2> QED BY <1>1, <1>2, <1>3, <2>4
<1>11. CASE b = <<Bad>>
  <2>1. Len(b) = 1 /\ b[1] = Bad BY <1>11
  <2>2. Len(a) \in 0..Len(old) /\ Len(a) <= Len(new) /\ Len(a) = Len(old) - 1
    BY <1>5, <1>6, <2>1
  <2>3. Alike(old, new, Len(a))
    <3>1. SUFFICES ASSUME NEW i \in 1..Len(a) PROVE old[i] = new[i] BY DEF Alike
    <3>2. i \in 1..Len(old) /\ i \in 1..Len(mid) /\ i <= Len(a) BY <1>5, <1>6
    <3> QED BY <1>7, <1>8, <1>9, <3>2
  <2>4. old[Len(old)] = Bad
    <3>1. Len(old) \in 1..Len(old) /\ ~(Len(old) <= Len(a)) /\ Len(old) - Len(a) = 1
      BY <1>5, <1>6, <2>1
    <3> QED BY <1>7, <2>1, <3>1
  <2>5. Grows(old, new) BY <2>2, <2>3, <2>4 DEF Grows
  <2> QED BY <1>1, <1>2, <1>3, <2>5
<1> QED BY <1>10, <1>11

\* The text of more tokens begins as the text so far.
LEMMA DecodeGrows ==
  ASSUME NEW ids \in Seq(Token), NEW more \in Seq(Token)
  PROVE  Grows(Decode(ids), Decode(ids \o more))
<1>1. PICK all \in Seq(Token) : all = ids \o more BY ConcatProperties
<1>2. PICK n \in Nat : n = Len(ids) BY LenProperties
<1>3. Len(all) \in Nat /\ Len(all) >= n BY <1>1, <1>2, ConcatProperties, LenProperties
<1>4. PICK P : P = Pieces(ids) OBVIOUS
<1>5. PICK Q : Q = Pieces(all) OBVIOUS
<1>6. P \in Seq(Text) /\ Len(P) = n /\ Q \in Seq(Text) /\ Len(Q) = Len(all)
  BY <1>2, <1>4, <1>5, PiecesType
<1>7. Decode(ids) = FlattenSeq(P) /\ Decode(ids \o more) = FlattenSeq(Q)
  BY <1>1, <1>4, <1>5, DecodeIs
<1>8. CASE n = 0
  <2>1. P = << >> BY <1>6, <1>8, EmptySeq
  <2>2. Decode(ids) = << >> BY <1>7, <2>1, FlattenNone
  <2>3. Len(FlattenSeq(Q)) \in Nat BY <1>6, FlattenType, LenProperties DEF Text
  <2>4. Grows(<< >>, FlattenSeq(Q)) BY <2>3 DEF Grows, Alike
  <2> QED BY <1>7, <2>2, <2>4
<1>9. CASE n # 0
  <2>1. n - 1 \in 0..(Len(P) - 1) /\ n - 1 \in 0..(Len(Q) - 1) /\ (n - 1) + 1 = n
    BY <1>3, <1>6, <1>9
  <2>2. PICK f : f = SubSeq(P, 1, n - 1) OBVIOUS
  <2>3. PICK r : r = SubSeq(Q, n + 1, Len(Q)) OBVIOUS
  <2>4. f \in Seq(Text) /\ P[n] \in Text /\ SubSeq(P, 1, n) = Append(f, P[n])
    BY <1>6, <2>1, <2>2, LongerPrefix
  <2>5. P = Append(f, P[n])
    <3>1. SubSeq(P, 1, Len(P)) = P BY <1>6, SubSeqFull
    <3> QED BY <1>6, <2>4, <3>1
  <2>6. SubSeq(Q, 1, n - 1) \in Seq(Text) /\ Q[n] \in Text
        /\ SubSeq(Q, 1, n) = Append(SubSeq(Q, 1, n - 1), Q[n])
    BY <1>6, <2>1, LongerPrefix
  <2>7. \A i \in 1..(n - 1) : Q[i] = P[i] BY <1>1, <1>2, <1>4, <1>5, PiecesMore
  <2>8. Q[n] = P[n] \/ P[n] = <<Bad>> BY <1>1, <1>2, <1>4, <1>5, <1>9, PiecesMore, EmptySeq
  <2>9. SubSeq(Q, 1, n - 1) = f
    <3>1. Len(f) = n - 1 /\ \A i \in 1..(n - 1) : f[i] = P[i]
      BY <1>6, <2>1, <2>2 DEF Text
    <3>2. PICK e \in Seq(Text) : e = SubSeq(Q, 1, n - 1) BY <2>6
    <3>3. Len(e) = n - 1 /\ \A i \in 1..(n - 1) : e[i] = Q[i]
      BY <1>6, <2>1, <3>2 DEF Text
    <3>4. Len(e) = Len(f) /\ \A i \in 1..Len(e) : e[i] = f[i] BY <2>7, <3>1, <3>3
    <3>5. e = f BY ONLY <2>4, <3>4, SeqEqual
    <3> QED BY <3>2, <3>5
  <2>10. r \in Seq(Text) /\ SubSeq(Q, 1, n) \o r = Q
    <3>1. n \in 0..Len(Q) BY <1>3, <1>6
    <3> QED BY <1>6, <2>3, <3>1, CutInTwo
  <2>11. FlattenSeq(P) = FlattenSeq(f) \o P[n] BY <2>4, <2>5, FlattenAppend DEF Text
  <2>12. PICK g : g = Append(f, Q[n]) OBVIOUS
  <2>13. g \in Seq(Text) BY <2>4, <2>6, <2>12, AppendProperties
  <2>14. Q = g \o r BY <2>6, <2>9, <2>10, <2>12
  <2>15. FlattenSeq(g) = FlattenSeq(f) \o Q[n] BY <2>4, <2>6, <2>12, FlattenAppend DEF Text
  <2>16. FlattenSeq(Q) = FlattenSeq(g) \o FlattenSeq(r)
    BY <2>10, <2>13, <2>14, FlattenConcat DEF Text
  <2>17. FlattenSeq(f) \in Text /\ FlattenSeq(r) \in Text BY <2>4, <2>10, FlattenType DEF Text
  <2>18. Grows(FlattenSeq(f) \o P[n], (FlattenSeq(f) \o Q[n]) \o FlattenSeq(r))
    BY <2>4, <2>6, <2>8, <2>17, PartsGrow
  <2> QED BY <1>7, <2>11, <2>15, <2>16, <2>18
<1> QED BY <1>8, <1>9

\* What Stable leaves out is Bad, and what it comes to is not, unless it is where it started.
LEMMA StableIs ==
  ASSUME NEW text \in Text, NEW from \in 0..Len(text)
  PROVE  /\ Stable(text, from) \in from..Len(text)
         /\ Stable(text, from) = from \/ text[Stable(text, from)] # Bad
         /\ \A n \in (Stable(text, from) + 1)..Len(text) : text[n] = Bad
<1> DEFINE S == {n \in from..Len(text) : n = from \/ text[n] # Bad}
<1>1. Len(text) \in Nat BY LenProperties DEF Text
<1>2. S \in SUBSET Int /\ IsFiniteSet(S)
  <2>1. IsFiniteSet(from..Len(text)) BY <1>1, FS_Interval
  <2> QED BY <1>1, <2>1, FS_Subset
<1>3. from \in S BY <1>1
<1>4. \A n \in from..Len(text) : n \in S <=> (n = from \/ text[n] # Bad) OBVIOUS
<1>5. S \subseteq from..Len(text) OBVIOUS
<1>6. Stable(text, from) = Max(S) BY DEF Stable
<1> HIDE DEF S
<1>7. \E m \in S : \A x \in S : m >= x BY <1>2, <1>3, HasGreatest
<1>8. Max(S) \in S /\ \A x \in S : Max(S) >= x BY <1>7 DEF Max
<1>9. PICK m \in from..Len(text) : m = Stable(text, from) BY <1>5, <1>6, <1>8
<1>10. m \in S /\ \A x \in S : m >= x BY <1>6, <1>8, <1>9
<1>11. ASSUME NEW n \in (m + 1)..Len(text) PROVE text[n] = Bad
  <2>1. n \in from..Len(text) /\ n > m /\ n # from BY <1>1
  <2> QED BY <1>1, <1>4, <1>10, <2>1
<1>12. m = from \/ text[m] # Bad BY <1>4, <1>10
<1> QED BY <1>9, <1>11, <1>12

\* From a place before the last character that stands, Stable is where that is.
LEMMA StableFrom ==
  ASSUME NEW text \in Text, NEW from \in 0..Len(text)
  PROVE  Stable(text, from) = IF from <= Stable(text, 0) THEN Stable(text, 0) ELSE from
<1>1. Len(text) \in Nat /\ 0 \in 0..Len(text) BY LenProperties DEF Text
<1>2. PICK m \in from..Len(text) : m = Stable(text, from) BY StableIs
<1>3. PICK u \in 0..Len(text) : u = Stable(text, 0) BY <1>1, StableIs
<1>4. m = from \/ text[m] # Bad BY <1>2, StableIs
<1>5. \A n \in (m + 1)..Len(text) : text[n] = Bad BY <1>2, StableIs
<1>6. u = 0 \/ text[u] # Bad BY <1>1, <1>3, StableIs
<1>7. \A n \in (u + 1)..Len(text) : text[n] = Bad BY <1>1, <1>3, StableIs
<1>8. CASE from <= u
  <2>1. ~(m > u)
    <3>1. SUFFICES ASSUME m > u PROVE FALSE OBVIOUS
    <3>2. m \in (u + 1)..Len(text) /\ m # from BY <1>1, <1>8, <3>1
    <3> QED BY <1>4, <1>7, <3>2
  <2>2. ~(m < u)
    <3>1. SUFFICES ASSUME m < u PROVE FALSE OBVIOUS
    <3>2. u \in (m + 1)..Len(text) /\ u # 0 BY <1>1, <3>1
    <3> QED BY <1>5, <1>6, <3>2
  <2>3. m = u BY <1>1, <2>1, <2>2
  <2> QED BY <1>2, <1>3, <1>8, <2>3
<1>9. CASE from > u
  <2>1. ~(m > from)
    <3>1. SUFFICES ASSUME m > from PROVE FALSE OBVIOUS
    <3>2. m \in (u + 1)..Len(text) /\ m # from BY <1>1, <1>9, <3>1
    <3> QED BY <1>4, <1>7, <3>2
  <2>2. m = from BY <1>1, <2>1
  <2>3. ~(from <= u) BY <1>1, <1>9
  <2> QED BY <1>2, <1>3, <2>2, <2>3
<1> QED BY <1>1, <1>8, <1>9

\* When text grows, what stood before still stands, character by character.
LEMMA StableGrows ==
  ASSUME NEW old \in Text, NEW new \in Text, Grows(old, new)
  PROVE  Stable(old, 0) <= Stable(new, 0) /\ Alike(old, new, Stable(old, 0))
<1>1. Len(old) \in Nat /\ Len(new) \in Nat /\ 0 \in 0..Len(old) /\ 0 \in 0..Len(new)
  BY LenProperties DEF Text
<1>2. PICK u \in 0..Len(old) : u = Stable(old, 0) BY <1>1, StableIs
<1>3. PICK v \in 0..Len(new) : v = Stable(new, 0) BY <1>1, StableIs
<1>4. u = 0 \/ old[u] # Bad BY <1>1, <1>2, StableIs
<1>5. \A n \in (v + 1)..Len(new) : new[n] = Bad BY <1>1, <1>3, StableIs
<1>6. PICK k \in 0..Len(old) :
        k <= Len(new) /\ Alike(old, new, k) /\ (k < Len(old) => k = Len(old) - 1 /\ old[Len(old)] = Bad)
  BY DEF Grows
<1>7. u <= k
  <2>1. SUFFICES ASSUME u > k PROVE FALSE BY <1>1
  <2>2. u = Len(old) /\ u # 0 BY <1>1, <1>6, <2>1
  <2> QED BY <1>1, <1>4, <1>6, <2>1, <2>2
<1>8. \A n \in 1..u : old[n] = new[n] BY <1>1, <1>6, <1>7 DEF Alike
<1>9. u <= v
  <2>1. SUFFICES ASSUME u > v PROVE FALSE BY <1>1
  <2>2. u \in 1..u /\ u \in (v + 1)..Len(new) /\ u # 0 BY <1>1, <1>6, <1>7, <2>1
  <2> QED BY <1>4, <1>5, <1>8, <2>2
<1> QED BY <1>2, <1>3, <1>8, <1>9 DEF Alike

\* Texts are joined in any order.
LEMMA TextsJoin == \A a, b, c \in Text : (a \o b) \o c = a \o (b \o c)
<1> SUFFICES ASSUME NEW a, NEW b, NEW c, a \in Seq(Char), b \in Seq(Char), c \in Seq(Char)
             PROVE  (a \o b) \o c = a \o (b \o c)
  BY DEF Text
<1> QED BY JoinedThrice

\* A stop sequence begins at a place of the text.
Stopping(text, at) ==
  \E stop \in Stops : at + Len(stop) <= Len(text) /\ SubSeq(text, at + 1, at + Len(stop)) = stop

\* StopAt is the first place where one begins.
LEMMA StopAtIs ==
  ASSUME NEW text \in Text
  PROVE  /\ StopAt(text) \in 0..Len(text)
         /\ StopAt(text) < Len(text) => Stopping(text, StopAt(text))
         /\ \A at \in 0..Len(text) : Stopping(text, at) => StopAt(text) <= at
<1> DEFINE S == {at \in 0..Len(text) : Stopping(text, at)}
           A == {Len(text)} \cup S
<1>1. Len(text) \in Nat BY LenProperties DEF Text
<1>2. A \in SUBSET Int /\ IsFiniteSet(A) /\ A # {}
  <2>1. IsFiniteSet(0..Len(text)) BY <1>1, FS_Interval
  <2>2. A \in SUBSET (0..Len(text)) BY <1>1
  <2> QED BY <1>1, <2>1, <2>2, FS_Subset
<1>3. StopAt(text) = Min(A) BY DEF StopAt, Stopping
<1>4. \A at \in 0..Len(text) : Stopping(text, at) => at \in A OBVIOUS
<1>5. \A at \in A : at \in 0..Len(text) /\ (at # Len(text) => Stopping(text, at)) BY <1>1
<1> HIDE DEF A
<1>6. \E m \in A : \A x \in A : m <= x BY <1>2, HasLeast
<1>7. Min(A) \in A /\ \A x \in A : Min(A) <= x BY <1>6 DEF Min
<1>8. PICK m \in A : m = StopAt(text) /\ \A x \in A : m <= x BY <1>3, <1>7
<1>9. m \in 0..Len(text) /\ (m # Len(text) => Stopping(text, m)) BY <1>5
<1> QED BY <1>1, <1>4, <1>8, <1>9

\* The hold-back is as long as any stop sequence.
LEMMA HoldBackIs == HoldBack \in Nat /\ \A stop \in Stops : Len(stop) <= HoldBack
<1> DEFINE lengths == {Len(stop) : stop \in Stops}
           A == {0} \cup lengths
<1>1. \A stop \in Stops : Len(stop) \in Nat BY ServingAssumption, LenProperties DEF ServingAssumption
<1>2. IsFiniteSet(A)
  <2>1. IsFiniteSet(Stops) BY ServingAssumption DEF ServingAssumption
  <2>2. IsFiniteSet(lengths)
    <3> DEFINE length == [stop \in Stops |-> Len(stop)]
    <3>1. length \in Surjection(Stops, lengths) BY DEF Surjection
    <3> HIDE DEF length, lengths
    <3> QED BY <2>1, <3>1, FS_Surjection
  <2>3. IsFiniteSet({0}) BY FS_Singleton
  <2> QED BY <2>2, <2>3, FS_Union
<1>3. A \in SUBSET Int /\ 0 \in A /\ \A stop \in Stops : Len(stop) \in A BY <1>1
<1>4. \A a \in A : a \in Nat BY <1>1
<1>5. HoldBack = Max(A) BY DEF HoldBack
<1> HIDE DEF A
<1>6. \E m \in A : \A x \in A : m >= x BY <1>2, <1>3, HasGreatest
<1>7. Max(A) \in A /\ \A x \in A : Max(A) >= x BY <1>6 DEF Max
<1>8. PICK m \in A : m = HoldBack /\ \A x \in A : m >= x BY <1>5, <1>7
<1> QED BY <1>1, <1>3, <1>4, <1>8

\* A stop sequence that text comes to contain begins after what has been sent of it.
LEMMA StopComesLater ==
  ASSUME NEW old \in Text, NEW new \in Text, Grows(old, new), StopAt(old) = Len(old),
         NEW emitted \in Nat, emitted = 0 \/ emitted + HoldBack <= Stable(old, 0)
  PROVE  emitted <= StopAt(new)
<1>1. Len(old) \in Nat /\ Len(new) \in Nat /\ 0 \in 0..Len(old) /\ 0 \in 0..Len(new)
  BY LenProperties DEF Text
<1>2. PICK u \in 0..Len(old) : u = Stable(old, 0) BY <1>1, StableIs
<1>3. PICK v \in 0..Len(new) : v = Stable(new, 0) BY <1>1, StableIs
<1>4. u <= v /\ \A n \in 1..u : old[n] = new[n] BY <1>2, <1>3, StableGrows DEF Alike
<1>5. PICK h \in Nat : h = HoldBack BY HoldBackIs
<1>6. PICK at \in 0..Len(new) : at = StopAt(new) BY StopAtIs
<1>7. CASE emitted = 0 BY <1>6, <1>7
<1>8. CASE emitted # 0
  <2>1. emitted + h <= u BY <1>2, <1>5, <1>8
  <2>2. SUFFICES ASSUME at < emitted PROVE FALSE BY <1>6
  <2>3. at < Len(new) BY <1>1, <1>4, <1>5, <2>1, <2>2
  <2>4. PICK stop \in Stops : at + Len(stop) <= Len(new) /\ SubSeq(new, at + 1, at + Len(stop)) = stop
    BY <1>6, <2>3, StopAtIs DEF Stopping
  <2>5. stop \in Seq(Plain \cup {Joined}) /\ stop # << >> BY ServingAssumption DEF ServingAssumption
  <2>6. PICK l \in Nat \ {0} : l = Len(stop) BY <2>5, EmptySeq
  <2>7. l <= h BY <1>5, <2>6, HoldBackIs
  <2>8. at + l <= u BY <1>1, <1>5, <2>1, <2>2, <2>6, <2>7
  <2>9. SubSeq(old, at + 1, at + l) = SubSeq(new, at + 1, at + l)
    <3>1. \A n \in (at + 1)..(at + l) : n \in 1..u BY <1>1, <2>8
    <3>2. \A n \in (at + 1)..(at + l) : old[n] = new[n] BY <1>4, <3>1
    <3>3. \A n \in (at + 1)..(at + l) : n \in 1..Len(old) BY <1>1, <3>1
    <3>4. \A n \in (at + 1)..(at + l) : old[n] \in Char BY <3>3, ElementOfSeq DEF Text
    <3>5. \A n \in (at + 1)..(at + l) : new[n] \in Char BY <3>2, <3>4
    <3>6. SubSeq(old, at + 1, at + l) \in Text BY <1>1, <2>6, <3>4, SubSeqProperties DEF Text
    <3>7. SubSeq(new, at + 1, at + l) \in Text BY <1>1, <2>6, <3>5, SubSeqProperties DEF Text
    <3>8. PICK a \in Text : a = SubSeq(old, at + 1, at + l) BY <3>6
    <3>9. PICK b \in Text : b = SubSeq(new, at + 1, at + l) BY <3>7
    <3>10. at + 1 <= at + l /\ (at + l) - (at + 1) + 1 = l /\ at + 1 \in Int /\ at + l \in Int
      BY <1>1, <2>6
    <3>11. Len(a) = l /\ \A i \in 1..l : a[i] = old[(at + 1) + i - 1]
      BY <3>4, <3>8, <3>10, SubSeqProperties
    <3>12. Len(b) = l /\ \A i \in 1..l : b[i] = new[(at + 1) + i - 1]
      BY <3>5, <3>9, <3>10, SubSeqProperties
    <3>13. ASSUME NEW i \in 1..l PROVE a[i] = b[i]
      <4>1. (at + 1) + i - 1 \in (at + 1)..(at + l) BY <1>1, <2>6
      <4> QED BY <3>2, <3>11, <3>12, <4>1
    <3>14. a = b BY <3>11, <3>12, <3>13, SeqEqual DEF Text
    <3> QED BY <3>8, <3>9, <3>14
  <2>10. Stopping(old, at)
    <3>1. at + Len(stop) <= Len(old) BY <1>1, <2>6, <2>8
    <3>2. SubSeq(old, at + 1, at + Len(stop)) = stop BY <2>4, <2>6, <2>9
    <3> QED BY <3>1, <3>2 DEF Stopping
  <2>11. at \in 0..Len(old) BY <1>1, <2>6, <2>8
  <2>12. StopAt(old) <= at BY <2>10, <2>11, StopAtIs
  <2> QED BY <1>1, <2>6, <2>8, <2>12
<1> QED BY <1>7, <1>8

\* What was sent is how the text begins; and what is missing of it is halves of codepoints.
Begins(sent, text) == Len(sent) <= Len(text) /\ Alike(sent, text, Len(sent))
Tells(sent, text) == Begins(sent, text) /\ \A n \in (Len(sent) + 1)..Len(text) : text[n] = Bad

LEMMA BeginsIsPrefix ==
  ASSUME NEW sent \in Text, NEW text \in Text, Begins(sent, text)
  PROVE  IsPrefix(sent, text)
<1>1. Len(sent) \in Nat /\ Len(text) \in Nat /\ Len(sent) <= Len(text)
  BY LenProperties DEF Text, Begins
<1>2. \A i \in 1..Len(sent) : sent[i] = text[i] BY DEF Begins, Alike
<1>3. Len(sent) \in 0..Len(text) /\ Len(sent) \in 0..Len(sent) BY <1>1
<1>4. PICK a \in Text : a = SubSeq(sent, 1, Len(sent)) BY <1>3, CutInTwo DEF Text
<1>5. PICK b \in Text : b = SubSeq(text, 1, Len(sent)) BY <1>3, CutInTwo DEF Text
<1>6. \A i \in 1..Len(sent) : sent[i] \in Char /\ text[i] \in Char BY <1>1, ElementOfSeq DEF Text
<1>7. Len(a) = Len(sent) /\ \A i \in 1..Len(sent) : a[i] = sent[i]
  BY <1>1, <1>4, <1>6, SubSeqProperties DEF Text
<1>8. Len(b) = Len(sent) /\ \A i \in 1..Len(sent) : b[i] = text[i]
  BY <1>1, <1>5, <1>6, SubSeqProperties DEF Text
<1>9. a = b BY <1>2, <1>7, <1>8, SeqEqual DEF Text
<1> QED BY <1>1, <1>4, <1>5, <1>9 DEF IsPrefix

\* The next stretch of a text after what was sent of it.
LEMMA SentFurther ==
  ASSUME NEW sent \in Text, NEW text \in Text, Begins(sent, text),
         NEW limit \in Len(sent)..Len(text)
  PROVE  /\ SubSeq(text, Len(sent) + 1, limit) \in Text
         /\ sent \o SubSeq(text, Len(sent) + 1, limit) \in Text
         /\ Len(sent \o SubSeq(text, Len(sent) + 1, limit)) = limit
         /\ Begins(sent \o SubSeq(text, Len(sent) + 1, limit), text)
<1> DEFINE n == Len(sent)
<1>1. n \in Nat /\ Len(text) \in Nat /\ n <= Len(text) BY LenProperties DEF Text, Begins
<1>2. limit \in Nat /\ n <= limit /\ limit <= Len(text) BY <1>1
<1>3. \A i \in 1..n : sent[i] = text[i] BY DEF Begins, Alike
<1>4. \A i \in (n + 1)..limit : text[i] \in Char BY <1>1, <1>2, ElementOfSeq DEF Text
<1>5. SubSeq(text, n + 1, limit) \in Text BY <1>1, <1>2, <1>4, SubSeqProperties DEF Text
<1>6. PICK c \in Text : c = SubSeq(text, n + 1, limit) BY <1>5
<1>7. Len(c) = limit - n /\ \A i \in 1..(limit - n) : c[i] = text[n + i]
  <2>1. Len(c) = (IF n + 1 <= limit THEN limit - (n + 1) + 1 ELSE 0)
        /\ \A i \in 1..(limit - (n + 1) + 1) : c[i] = text[(n + 1) + i - 1]
    BY <1>1, <1>2, <1>4, <1>6, SubSeqProperties
  <2> QED BY <1>1, <1>2, <2>1
<1>8. PICK d \in Text : d = sent \o c BY ConcatProperties DEF Text
<1>9. Len(d) = Len(sent) + Len(c)
      /\ \A i \in 1..(Len(sent) + Len(c)) : d[i] = IF i <= Len(sent) THEN sent[i] ELSE c[i - Len(sent)]
  BY <1>8, ConcatProperties DEF Text
<1>10. Len(d) = limit BY <1>1, <1>2, <1>7, <1>9
<1>11. ASSUME NEW i \in 1..limit PROVE d[i] = text[i]
  <2>1. i \in 1..(Len(sent) + Len(c)) BY <1>9, <1>10
  <2>2. CASE i <= n
    <3>1. i \in 1..n BY <1>1, <1>2, <2>2
    <3>2. d[i] = sent[i] BY <1>9, <2>1, <2>2
    <3> QED BY <1>3, <3>1, <3>2
  <2>3. CASE i > n
    <3>1. i - n \in 1..(limit - n) /\ n + (i - n) = i /\ ~(i <= n) BY <1>1, <1>2, <2>3
    <3>2. d[i] = c[i - n] BY <1>9, <2>1, <3>1
    <3> QED BY <1>7, <3>1, <3>2
  <2> QED BY <1>1, <1>2, <2>2, <2>3
<1>12. Begins(d, text) BY <1>2, <1>10, <1>11 DEF Begins, Alike
<1> QED BY <1>5, <1>6, <1>8, <1>10, <1>12

-----------------------------------------------------------------------------
(* Events. *)

Event == [kind : {"delta", "completed", "failed", "end"}, text : Text]

\* What the deltas among some events say.
Said(event) == IF event.kind = "delta" THEN event.text ELSE << >>
AllSaid(es) == [i \in DOMAIN es |-> IF es[i].kind = "delta" THEN es[i].text ELSE << >>]
Spoken(es) == FlattenSeq(AllSaid(es))

LEMMA AllSaidType ==
  ASSUME NEW es \in Seq(Event)
  PROVE  AllSaid(es) \in Seq(Text) /\ Len(AllSaid(es)) = Len(es)
         /\ \A i \in 1..Len(es) : AllSaid(es)[i] = Said(es[i]) /\ Said(es[i]) \in Text
<1>1. Len(es) \in Nat /\ DOMAIN es = 1..Len(es) BY LenProperties
<1>2. << >> \in Text BY DEF Text
<1>3. \A i \in 1..Len(es) : Said(es[i]) \in Text
  <2>1. SUFFICES ASSUME NEW i \in 1..Len(es) PROVE Said(es[i]) \in Text OBVIOUS
  <2>2. es[i] \in Event BY ElementOfSeq
  <2>3. es[i].text \in Text BY <2>2 DEF Event
  <2> QED BY <1>2, <2>3 DEF Said
<1>4. AllSaid(es) = [i \in 1..Len(es) |-> Said(es[i])] BY <1>1 DEF AllSaid, Said
<1>5. AllSaid(es) \in [1..Len(es) -> Text] BY <1>3, <1>4
<1> HIDE DEF Text
<1> QED BY <1>1, <1>3, <1>4, <1>5

LEMMA SpokenType == ASSUME NEW es \in Seq(Event) PROVE Spoken(es) \in Text
BY AllSaidType, FlattenType DEF Spoken, Text

LEMMA SpokenNone == Spoken(<< >>) = << >>
<1>1. AllSaid(<< >>) = << >> BY DEF AllSaid
<1> QED BY <1>1, FlattenNone DEF Spoken

LEMMA SpokenOne == ASSUME NEW e \in Event PROVE Spoken(<<e>>) = Said(e)
<1>0. <<e>> \in Seq(Event) OBVIOUS
<1>1. PICK es \in Seq(Event) : es = <<e>> /\ Len(es) = 1 /\ es[1] = e BY <1>0
<1>2. PICK s \in Seq(Text) : s = AllSaid(es) BY AllSaidType
<1>3. Len(s) = Len(es) /\ \A i \in 1..Len(es) : s[i] = Said(es[i]) /\ Said(es[i]) \in Text
  BY <1>2, AllSaidType
<1>4. Len(s) = 1 /\ s[1] = Said(e) /\ Said(e) \in Text BY <1>1, <1>3
<1>5. s = <<Said(e)>> BY <1>4 DEF Text
<1>6. FlattenSeq(<<Said(e)>>) = Said(e) BY <1>4, FlattenOne DEF Text
<1> QED BY <1>1, <1>2, <1>5, <1>6 DEF Spoken

LEMMA SpokenConcat ==
  ASSUME NEW es \in Seq(Event), NEW fs \in Seq(Event)
  PROVE  Spoken(es \o fs) = Spoken(es) \o Spoken(fs)
<1>1. PICK gs \in Seq(Event) : gs = es \o fs BY ConcatProperties
<1>2. Len(gs) = Len(es) + Len(fs)
      /\ \A i \in 1..(Len(es) + Len(fs)) : gs[i] = IF i <= Len(es) THEN es[i] ELSE fs[i - Len(es)]
  BY <1>1, ConcatProperties
<1>3. Len(es) \in Nat /\ Len(fs) \in Nat BY LenProperties
<1>4. PICK a \in Seq(Text) : a = AllSaid(es) BY AllSaidType
<1>5. PICK b \in Seq(Text) : b = AllSaid(fs) BY AllSaidType
<1>6. PICK c \in Seq(Text) : c = AllSaid(gs) BY AllSaidType
<1>7. Len(a) = Len(es) /\ \A i \in 1..Len(es) : a[i] = Said(es[i]) BY <1>4, AllSaidType
<1>8. Len(b) = Len(fs) /\ \A i \in 1..Len(fs) : b[i] = Said(fs[i]) BY <1>5, AllSaidType
<1>9. Len(c) = Len(gs) /\ \A i \in 1..Len(gs) : c[i] = Said(gs[i]) BY <1>6, AllSaidType
<1>10. PICK d \in Seq(Text) : d = a \o b BY ConcatProperties
<1>11. Len(d) = Len(a) + Len(b)
       /\ \A i \in 1..(Len(a) + Len(b)) : d[i] = IF i <= Len(a) THEN a[i] ELSE b[i - Len(a)]
  BY <1>10, ConcatProperties
<1>12. ASSUME NEW i \in 1..Len(c) PROVE c[i] = d[i]
  <2>1. i \in 1..(Len(es) + Len(fs)) /\ i \in 1..(Len(a) + Len(b)) BY <1>2, <1>7, <1>8, <1>9
  <2>2. c[i] = Said(gs[i]) BY <1>9
  <2>3. CASE i <= Len(es)
    <3>1. gs[i] = es[i] /\ d[i] = a[i] /\ i \in 1..Len(es) BY <1>2, <1>3, <1>7, <1>11, <2>1, <2>3
    <3> QED BY <1>7, <2>2, <3>1
  <2>4. CASE i > Len(es)
    <3>1. ~(i <= Len(es)) /\ i - Len(es) \in 1..Len(fs) BY <1>3, <2>1, <2>4
    <3>2. gs[i] = fs[i - Len(es)] BY <1>2, <2>1, <3>1
    <3>3. d[i] = b[i - Len(es)] BY <1>7, <1>11, <2>1, <3>1
    <3> QED BY <1>8, <2>2, <3>1, <3>2, <3>3
  <2> QED BY <1>3, <2>1, <2>3, <2>4
<1>13. c = d
  <2>1. Len(c) = Len(d) BY <1>2, <1>7, <1>8, <1>9, <1>11
  <2> HIDE DEF Text
  <2> QED BY <1>12, <2>1, SeqEqual
<1>14. FlattenSeq(a \o b) = FlattenSeq(a) \o FlattenSeq(b) BY <1>4, FlattenConcat DEF Text
<1> QED BY <1>1, <1>4, <1>5, <1>6, <1>10, <1>13, <1>14 DEF Spoken

-----------------------------------------------------------------------------
(* The queue. *)

\* What the queue, the worker and the cancel events are.
Typed ==
  /\ pending \in Seq(Jobs) /\ current \in Jobs \cup {Nobody}
  /\ cancel \in [Jobs -> BOOLEAN]
  /\ outcome \in [Jobs -> {"none", "cancelled", "failed", "completed"}]

\* A job counts from the moment it is taken, and its outcome is there before it is retired.
Taken == worker \in {"taken", "generating", "generated"} => current \in Jobs

IInv == Typed /\ Taken /\ ClosedIsCancelled

\* What the worker takes was queued, and what it leaves was queued too.
LEMMA HeadAndTail ==
  ASSUME Typed, pending # << >>
  PROVE  /\ Head(pending) \in Jobs /\ Tail(pending) \in Seq(Jobs)
         /\ Head(pending) \in ToSet(pending)
         /\ ToSet(Tail(pending)) \subseteq ToSet(pending)
<1>1. pending \in Seq(Jobs) /\ Len(pending) \in Nat /\ Len(pending) > 0 BY DEF Typed
<1>2. Head(pending) = pending[1] /\ 1 \in DOMAIN pending BY <1>1
<1>3. Tail(pending) \in Seq(Jobs) /\ DOMAIN Tail(pending) = 1..(Len(pending) - 1) BY <1>1
<1>4. \A i \in DOMAIN Tail(pending) : Tail(pending)[i] = pending[i + 1] /\ i + 1 \in DOMAIN pending
  BY <1>1, <1>3
<1> QED BY <1>1, <1>2, <1>3, <1>4 DEF ToSet

\* An event the loop cannot take cancels its job; no event takes a cancellation back.
LEMMA EmitKeeps ==
  ASSUME Typed, NEW j \in Jobs, NEW new, Emit(j, new)
  PROVE  cancel' \in [Jobs -> BOOLEAN] /\ \A k \in Jobs : cancel[k] => cancel'[k]
BY DEF Typed, Emit

\* Whatever ends a job leaves the queue alone and gives the job an outcome.
LEMMA ConcludeKeeps ==
  ASSUME IInv, current \in Jobs, NEW last,
         NEW how \in {"cancelled", "failed", "completed"}, Conclude(how, last)
  PROVE  IInv'
<1>1. cancel' \in [Jobs -> BOOLEAN] /\ \A k \in Jobs : cancel[k] => cancel'[k]
  BY EmitKeeps DEF Conclude, IInv
<1>2. /\ outcome' = [outcome EXCEPT ![current] = how] /\ worker' = "done"
      /\ UNCHANGED <<pending, current, closed>>
  BY DEF Conclude, queueVars
<1>3. Typed' BY <1>1, <1>2 DEF IInv, Typed
<1>4. Taken' BY <1>2 DEF Taken
<1>5. ClosedIsCancelled' BY <1>1, <1>2 DEF IInv, Typed, ClosedIsCancelled
<1> QED BY <1>3, <1>4, <1>5 DEF IInv

\* Steps that leave the queue and the outcomes alone, and cancel jobs at most.
LEMMA OthersKeep ==
  ASSUME IInv, UNCHANGED <<pending, current, closed, outcome>>,
         worker' \in {"taken", "generating", "generated"} =>
           worker \in {"taken", "generating", "generated"},
         cancel' \in [Jobs -> BOOLEAN], \A k \in Jobs : cancel[k] => cancel'[k]
  PROVE  IInv'
BY DEF IInv, Typed, Taken, ClosedIsCancelled

\* The worker's steps.
LEMMA AdvanceKeeps == ASSUME IInv, Advance PROVE IInv'
<1>1. CASE TakeJob
  <2>1. Head(pending) \in Jobs /\ Tail(pending) \in Seq(Jobs) /\ Head(pending) \in ToSet(pending)
        /\ ToSet(Tail(pending)) \subseteq ToSet(pending)
    BY <1>1, HeadAndTail DEF TakeJob, IInv
  <2>2. /\ current' = Head(pending) /\ pending' = Tail(pending)
        /\ UNCHANGED <<closed, cancel, outcome>>
    BY <1>1 DEF TakeJob
  <2>3. Typed' /\ Taken' BY <2>1, <2>2 DEF IInv, Typed, Taken
  <2>4. ClosedIsCancelled' BY <2>1, <2>2 DEF IInv, ClosedIsCancelled
  <2> QED BY <2>3, <2>4 DEF IInv
<1>2. CASE Leave \/ Prepare
  BY <1>2, OthersKeep DEF Leave, Prepare, queueVars, IInv, Typed
<1>3. CASE Abandoned \/ Refused \/ PutCancelled \/ GenerationFails \/ Finished
  <2>1. worker \in {"taken", "generating", "generated"}
    BY <1>3 DEF Abandoned, Refused, PutCancelled, GenerationFails, Finished, Generating
  <2>2. current \in Jobs BY <2>1 DEF IInv, Taken
  <2>3. \E how \in {"cancelled", "failed", "completed"} : \E last : Conclude(how, last)
    BY <1>3 DEF Abandoned, Refused, PutCancelled, GenerationFails, Finished
  <2> QED BY <2>2, <2>3, ConcludeKeeps
<1>4. CASE PutTokens \/ EndGeneration
  <2>1. worker = "generating" /\ worker' \in {"generating", "generated"}
        /\ UNCHANGED <<pending, current, closed, outcome>> /\ \E new : Emit(current, new)
    BY <1>4 DEF PutTokens, EndGeneration, Generating, Show, CutShort, queueVars
  <2>2. current \in Jobs BY <2>1 DEF IInv, Taken
  <2>3. cancel' \in [Jobs -> BOOLEAN] /\ \A k \in Jobs : cancel[k] => cancel'[k]
    BY <2>1, <2>2, EmitKeeps DEF IInv
  <2> QED BY <2>1, <2>3, OthersKeep
<1>5. CASE Retire
  <2>1. current' = Nobody /\ worker' = "waiting" /\ UNCHANGED <<pending, closed, cancel, outcome>>
    BY <1>5 DEF Retire
  <2>2. Typed' /\ Taken' BY <2>1 DEF IInv, Typed, Taken
  <2>3. ClosedIsCancelled' BY <2>1, ServingAssumption DEF IInv, ClosedIsCancelled, ServingAssumption
  <2> QED BY <2>2, <2>3 DEF IInv
<1> QED BY <1>1, <1>2, <1>3, <1>4, <1>5 DEF Advance

\* A request that comes after the queue is closed is not queued.
LEMMA SubmitKeeps == ASSUME IInv, NEW j \in Jobs, Submit(j) PROVE IInv'
<1>1. UNCHANGED <<current, closed, worker, cancel, outcome>> BY DEF Submit
<1>2. CASE closed /\ UNCHANGED pending
  BY <1>1, <1>2, OthersKeep DEF IInv, Typed
<1>3. CASE ~closed /\ pending' = Append(pending, j)
  BY <1>1, <1>3 DEF IInv, Typed, Taken, ClosedIsCancelled
<1> QED BY <1>2, <1>3 DEF Submit

\* Closing sets the event of what is queued and of what runs.
LEMMA CloseKeeps == ASSUME IInv, Close PROVE IInv'
BY DEF Close, IInv, Typed, Taken, ClosedIsCancelled

\* Every step keeps the invariant.
LEMMA Step == IInv /\ [Next]_vars => IInv'
<1> SUFFICES ASSUME IInv, [Next]_vars PROVE IInv'
  OBVIOUS
<1>1. CASE UNCHANGED vars
  BY <1>1 DEF vars, queueVars, IInv, Typed, Taken, ClosedIsCancelled
<1>2. CASE Advance BY <1>2, AdvanceKeeps
<1>3. CASE Close BY <1>3, CloseKeeps
<1>4. CASE StopServer BY <1>4, OthersKeep DEF StopServer, queueVars, IInv, Typed
<1>5. ASSUME NEW j \in Jobs, Submit(j) PROVE IInv' BY <1>5, SubmitKeeps
<1>6. ASSUME NEW j \in Jobs, HangUp(j) \/ Drop(j) \/ StartStream(j) PROVE IInv'
  BY <1>6, OthersKeep DEF HangUp, Drop, StartStream, queueVars, IInv, Typed
<1>7. ASSUME NEW j \in Jobs, Watch(j) \/ Deliver(j) PROVE IInv'
  <2>1. UNCHANGED <<pending, current, closed, worker, outcome>>
    BY <1>7 DEF Watch, Deliver, queueVars
  <2>2. cancel' \in [Jobs -> BOOLEAN] /\ \A k \in Jobs : cancel[k] => cancel'[k]
    BY <1>7 DEF Watch, Deliver, IInv, Typed
  <2> QED BY <2>1, <2>2, OthersKeep
<1> QED BY <1>1, <1>2, <1>3, <1>4, <1>5, <1>6, <1>7 DEF Next, Loop

\* Once the queue is closed no job that is queued or running goes on unaware of it: close() and the
\* steps of submit and of the worker around it exclude one another (server/app.py:400-456).
THEOREM ClosingReachesAll == Spec => []ClosedIsCancelled
<1>1. Init => IInv BY DEF Init, IInv, Typed, Taken, ClosedIsCancelled
<1>2. IInv => ClosedIsCancelled BY DEF IInv
<1> QED BY <1>1, <1>2, Step, PTL DEF Spec
-----------------------------------------------------------------------------
(* The invariant of the text. *)

Places == {"absent", "new", "refused", "submitted", "collecting", "streaming", "dropped", "answered"}
Working == {"taken", "generating", "generated"}
Showing == worker \in {"generating", "generated"}

\* A job is queued once, taken once and concluded once.
Queued ==
  /\ worker \in Working \cup {"waiting", "done", "gone"} /\ endpoint \in [Jobs -> Places]
  /\ IsInjective(pending) /\ current \notin ToSet(pending)
  /\ current = Nobody <=> worker \in {"waiting", "gone"}
  /\ \A j \in ToSet(pending) : outcome[j] = "none" /\ endpoint[j] # "new"
  /\ worker \in Working => outcome[current] = "none"
  /\ worker = "done" => outcome[current] # "none"
  /\ \A j \in Jobs : endpoint[j] = "new" => j # current /\ outcome[j] = "none"

\* The jobs that are over are the ones counted.
Over == {j \in Jobs : outcome[j] # "none" /\ j # current}
Counted == IsFiniteSet(Over) /\ counts.completed = Cardinality(Over)

\* The events of a job: deltas while it runs; then at most a Completed that the deltas agree with, and
\* the end after everything.
Stream(j) ==
  /\ outcome[j] = "none" =>
       /\ answer[j] = NoText /\ endpoint[j] # "answered"
       /\ \A i \in DOMAIN events[j] : events[j][i].kind = "delta"
  /\ outcome[j] = "none" /\ ~(j = current /\ Showing) => events[j] = << >> /\ got[j] = << >>
  /\ \A i \in DOMAIN events[j] :
       /\ events[j][i].kind = "end" => i = Len(events[j])
       /\ events[j][i].kind = "completed" =>
            outcome[j] = "completed" /\ Tells(Sent(j), events[j][i].text)
  /\ answer[j] # NoText => outcome[j] = "completed" /\ Tells(Sent(j), answer[j])
  /\ endpoint[j] = "answered" => events[j] = << >>

Streams ==
  /\ events \in [Jobs -> Seq(Event)] /\ got \in [Jobs -> Text]
  /\ answer \in [Jobs -> Text \cup {NoText}]
  /\ \A j \in Jobs : Stream(j)

\* What runs: its text has no stop sequence, and of what stands of it all but the hold-back is sent;
\* or it has come to its end, and all that stands is sent.
Running ==
  /\ gen \in [ids : Seq(Token), text : Text, emitted : Nat] /\ gen.emitted <= Len(gen.text)
  /\ ~Showing => gen = NoGen
  /\ Showing => Len(gen.ids) <= Budget[current] /\ Begins(Sent(current), gen.text)
  /\ worker = "generating" =>
       /\ gen.text = Decode(gen.ids) /\ StopAt(gen.text) = Len(gen.text)
       /\ gen.emitted = 0 \/ gen.emitted + HoldBack <= Stable(gen.text, 0)
       /\ Len(Sent(current)) <= gen.emitted
       /\ server # "stopped" => Len(Sent(current)) = gen.emitted
  /\ worker = "generated" /\ server # "stopped" => Tells(Sent(current), gen.text)

TextInv == Queued /\ Counted /\ Streams /\ Running

\* What the worker takes was queued once.
LEMMA TakenOnce ==
  ASSUME Typed, pending # << >>, IsInjective(pending)
  PROVE  IsInjective(Tail(pending)) /\ Head(pending) \notin ToSet(Tail(pending))
<1>1. Len(pending) \in Nat /\ Len(pending) > 0 BY DEF Typed
<1>2. Head(pending) = pending[1] /\ DOMAIN pending = 1..Len(pending) BY <1>1 DEF Typed
<1>3. DOMAIN Tail(pending) = 1..(Len(pending) - 1)
      /\ \A i \in 1..(Len(pending) - 1) : Tail(pending)[i] = pending[i + 1]
  BY <1>1 DEF Typed
<1>4. \A a, b \in 1..Len(pending) : pending[a] = pending[b] => a = b BY <1>2 DEF IsInjective
<1>5. ASSUME NEW a \in 1..(Len(pending) - 1), NEW b \in 1..(Len(pending) - 1),
             Tail(pending)[a] = Tail(pending)[b]
      PROVE  a = b
  <2>1. a + 1 \in 1..Len(pending) /\ b + 1 \in 1..Len(pending) BY <1>1
  <2>2. a + 1 = b + 1 BY <1>3, <1>4, <1>5, <2>1
  <2> QED BY <1>1, <2>2
<1>6. ASSUME NEW a \in 1..(Len(pending) - 1), Tail(pending)[a] = Head(pending) PROVE FALSE
  <2>1. a + 1 \in 1..Len(pending) /\ 1 \in 1..Len(pending) BY <1>1
  <2>2. a + 1 = 1 BY <1>2, <1>3, <1>4, <1>6, <2>1
  <2> QED BY <1>1, <2>2
<1> QED BY <1>3, <1>5, <1>6 DEF IsInjective, ToSet

\* What is queued was not.
LEMMA QueuedOnce ==
  ASSUME NEW s \in Seq(Jobs), IsInjective(s), NEW j \in Jobs, j \notin ToSet(s)
  PROVE  IsInjective(Append(s, j)) /\ ToSet(Append(s, j)) = ToSet(s) \cup {j}
<1> DEFINE n == Len(s)
           t == Append(s, j)
<1>1. n \in Nat /\ DOMAIN s = 1..n /\ DOMAIN t = 1..(n + 1) OBVIOUS
<1>2. t[n + 1] = j /\ \A i \in 1..n : t[i] = s[i] OBVIOUS
<1> HIDE DEF n, t
<1>3. \A i \in 1..n : s[i] # j BY <1>1 DEF ToSet
<1>4. \A i \in 1..(n + 1) : i \in 1..n \/ i = n + 1 BY <1>1
<1>5. \A a, b \in 1..n : s[a] = s[b] => a = b BY <1>1 DEF IsInjective
<1>6. \A a, b \in 1..(n + 1) : t[a] = t[b] => a = b BY <1>2, <1>3, <1>4, <1>5
<1>7. ToSet(t) = ToSet(s) \cup {j}
  <2>1. \A i \in 1..n : i \in 1..(n + 1) BY <1>1
  <2>2. n + 1 \in 1..(n + 1) BY <1>1
  <2>3. ToSet(t) = {t[i] : i \in 1..(n + 1)} BY <1>1 DEF ToSet
  <2>4. ToSet(s) = {s[i] : i \in 1..n} BY <1>1 DEF ToSet
  <2> QED BY <1>2, <1>4, <2>1, <2>2, <2>3, <2>4
<1> QED BY <1>1, <1>6, <1>7 DEF IsInjective, t

\* Steps that leave the queue, the worker and the outcomes alone, and new requests new.
LEMMA QueuedStays ==
  ASSUME Queued, UNCHANGED <<pending, current, outcome>>,
         \/ worker' = worker
         \/ worker \in {"taken", "generating"} /\ worker' \in {"generating", "generated"}
         \/ worker = "waiting" /\ worker' = "gone",
         endpoint' \in [Jobs -> Places], \A j \in Jobs : endpoint'[j] = "new" => endpoint[j] = "new",
         ToSet(pending) \subseteq Jobs
  PROVE  Queued'
<1>1. worker' \in Working \cup {"waiting", "done", "gone"} BY DEF Queued, Working
<1>2. (current = Nobody <=> worker \in {"waiting", "gone"})' BY DEF Queued
<1>3. worker' \in Working => worker \in Working BY DEF Working
<1>4. worker' = "done" => worker = "done" OBVIOUS
<1> QED BY <1>1, <1>2, <1>3, <1>4 DEF Queued

\* The end of a job.
LEMMA QueuedConcludes ==
  ASSUME Typed, Queued, worker \in Working, current \in Jobs,
         NEW how \in {"cancelled", "failed", "completed"}, NEW last, Conclude(how, last)
  PROVE  Queued'
<1>1. /\ outcome' = [outcome EXCEPT ![current] = how] /\ worker' = "done"
      /\ UNCHANGED <<pending, current, endpoint>>
  BY DEF Conclude, queueVars, loopVars
<1>2. current # Nobody BY ServingAssumption DEF ServingAssumption
<1>3. outcome'[current] = how /\ \A j \in Jobs : j # current => outcome'[j] = outcome[j]
  BY <1>1 DEF Typed
<1>4. \A j \in ToSet(pending) : j \in Jobs /\ j # current BY DEF Typed, Queued, ToSet
<1>5. \A j \in Jobs : endpoint[j] = "new" => j # current BY DEF Queued
<1> QED BY <1>1, <1>2, <1>3, <1>4, <1>5 DEF Queued, Working

\* A job is queued, taken and concluded once, step by step.
LEMMA QueuedStep == ASSUME IInv, Queued, [Next]_vars PROVE Queued'
<1>1. Typed /\ Taken BY DEF IInv
<1>2. ToSet(pending) \subseteq Jobs BY <1>1 DEF Typed, ToSet
<1>3. endpoint \in [Jobs -> Places] BY DEF Queued
<1>4. CASE TakeJob
  <2>1. Head(pending) \in Jobs /\ Head(pending) \in ToSet(pending)
        /\ ToSet(Tail(pending)) \subseteq ToSet(pending)
    BY <1>1, <1>4, HeadAndTail DEF TakeJob
  <2>2. IsInjective(Tail(pending)) /\ Head(pending) \notin ToSet(Tail(pending))
    BY <1>1, <1>4, TakenOnce DEF TakeJob, Queued
  <2>3. /\ current' = Head(pending) /\ pending' = Tail(pending) /\ worker' = "taken"
        /\ UNCHANGED <<outcome, endpoint>>
    BY <1>4 DEF TakeJob, loopVars
  <2>4. Head(pending) # Nobody BY <2>1, ServingAssumption DEF ServingAssumption
  <2>5. outcome[Head(pending)] = "none" /\ endpoint[Head(pending)] # "new" BY <2>1 DEF Queued
  <2> QED BY <2>1, <2>2, <2>3, <2>4, <2>5 DEF Queued, Working
<1>5. CASE Leave \/ Prepare
  <2>1. UNCHANGED <<pending, current, outcome, endpoint>> BY <1>5 DEF Leave, Prepare, queueVars, loopVars
  <2>2. \/ worker = "waiting" /\ worker' = "gone"
        \/ worker = "taken" /\ worker' = "generating"
    BY <1>5 DEF Leave, Prepare
  <2> QED BY <1>2, <1>3, <2>1, <2>2, QueuedStays
<1>6. CASE Abandoned \/ Refused \/ PutCancelled \/ GenerationFails \/ Finished
  <2>1. worker \in Working
    BY <1>6 DEF Abandoned, Refused, PutCancelled, GenerationFails, Finished, Generating, Working
  <2>2. current \in Jobs BY <1>1, <2>1 DEF Taken, Working
  <2>3. \E how \in {"cancelled", "failed", "completed"} : \E last : Conclude(how, last)
    BY <1>6 DEF Abandoned, Refused, PutCancelled, GenerationFails, Finished
  <2> QED BY <1>1, <2>1, <2>2, <2>3, QueuedConcludes
<1>7. CASE PutTokens \/ EndGeneration
  <2>1. worker = "generating" /\ worker' \in {"generating", "generated"}
        /\ UNCHANGED <<pending, current, outcome, endpoint>>
    BY <1>7 DEF PutTokens, EndGeneration, Generating, Show, CutShort, queueVars, loopVars
  <2> QED BY <1>2, <1>3, <2>1, QueuedStays
<1>8. CASE Retire
  <2>1. current' = Nobody /\ worker' = "waiting" /\ UNCHANGED <<pending, outcome, endpoint>>
    BY <1>8 DEF Retire, loopVars
  <2>2. Nobody \notin Jobs BY ServingAssumption DEF ServingAssumption
  <2> QED BY <1>2, <2>1, <2>2 DEF Queued, Working
<1>9. ASSUME NEW j \in Jobs, Submit(j) PROVE Queued'
  <2>1. endpoint[j] = "new" /\ UNCHANGED <<current, worker, outcome>> BY <1>9 DEF Submit
  <2>2. CASE closed /\ endpoint' = [endpoint EXCEPT ![j] = "refused"] /\ UNCHANGED pending
    <3>1. endpoint' \in [Jobs -> Places] /\ \A k \in Jobs : endpoint'[k] = "new" => endpoint[k] = "new"
      BY <1>3, <2>2 DEF Places
    <3> QED BY <1>2, <2>1, <2>2, <3>1, QueuedStays
  <2>3. CASE /\ pending' = Append(pending, j)
             /\ \E place \in {"collecting", "submitted"} : endpoint' = [endpoint EXCEPT ![j] = place]
    <3>1. PICK place \in {"collecting", "submitted"} : endpoint' = [endpoint EXCEPT ![j] = place]
      BY <2>3
    <3>2. endpoint' \in [Jobs -> Places] /\ endpoint'[j] # "new"
          /\ \A k \in Jobs : endpoint'[k] = "new" => endpoint[k] = "new"
      BY <1>3, <3>1 DEF Places
    <3>3. j \notin ToSet(pending) /\ j # current /\ outcome[j] = "none" BY <2>1 DEF Queued
    <3>4. IsInjective(pending') /\ ToSet(pending') = ToSet(pending) \cup {j}
      BY <1>1, <2>3, <3>3, QueuedOnce DEF Typed, Queued
    <3>5. \A k \in ToSet(pending) : k \in Jobs /\ endpoint'[k] # "new" BY <1>2, <3>2 DEF Queued
    <3> QED BY <2>1, <3>2, <3>3, <3>4, <3>5 DEF Queued
  <2> QED BY <1>9, <2>2, <2>3 DEF Submit
<1>10. ASSUME NEW j \in Jobs, HangUp(j) \/ Drop(j) \/ Loop(j) PROVE Queued'
  <2>1. UNCHANGED <<pending, current, outcome, worker>>
    BY <1>10 DEF HangUp, Drop, Loop, StartStream, Watch, Deliver, queueVars, loopVars
  <2>2. \E place \in Places \ {"new"} : endpoint' = [endpoint EXCEPT ![j] = place] \/ endpoint' = endpoint
    <3>1. CASE HangUp(j) \/ Watch(j) BY <3>1 DEF HangUp, Watch, loopVars, Places
    <3>2. CASE Drop(j) \/ StartStream(j) BY <3>2 DEF Drop, StartStream, Places
    <3>3. CASE Deliver(j)
      <4>1. endpoint' = [endpoint EXCEPT ![j] = IF Head(events[j]).kind = "end" THEN "answered" ELSE @]
        BY <3>3 DEF Deliver
      <4>2. CASE Head(events[j]).kind = "end" BY <4>1, <4>2 DEF Places
      <4>3. CASE Head(events[j]).kind # "end"
        <5>1. endpoint' = endpoint BY <1>3, <4>1, <4>3
        <5> QED BY <5>1 DEF Places
      <4> QED BY <4>2, <4>3
    <3> QED BY <1>10, <3>1, <3>2, <3>3 DEF Loop
  <2>3. endpoint' \in [Jobs -> Places] /\ \A k \in Jobs : endpoint'[k] = "new" => endpoint[k] = "new"
    BY <1>3, <2>2
  <2> QED BY <1>2, <2>1, <2>3, QueuedStays
<1>11. CASE Close \/ StopServer \/ UNCHANGED vars
  <2>1. UNCHANGED <<pending, current, outcome, worker, endpoint>>
    BY <1>11 DEF Close, StopServer, vars, queueVars, loopVars
  <2> QED BY <1>2, <1>3, <2>1, QueuedStays
<1> QED BY <1>4, <1>5, <1>6, <1>7, <1>8, <1>9, <1>10, <1>11 DEF Next, Advance

\* A job that is over is counted when it is retired, and not before or again.
LEMMA CountedStep == ASSUME IInv, Queued, Counted, [Next]_vars PROVE Counted'
<1>1. Typed /\ Taken BY DEF IInv
<1>2. ASSUME Over' = Over, counts' = counts PROVE Counted' BY <1>2 DEF Counted
<1>3. CASE TakeJob
  <2>1. current' = Head(pending) /\ UNCHANGED <<outcome, counts>> BY <1>3 DEF TakeJob
  <2>2. Head(pending) \in ToSet(pending) BY <1>1, <1>3, HeadAndTail DEF TakeJob
  <2>3. outcome[Head(pending)] = "none" BY <2>2 DEF Queued
  <2>4. current = Nobody /\ Nobody \notin Jobs
    BY <1>3, ServingAssumption DEF TakeJob, Queued, ServingAssumption
  <2>5. Over' = Over BY <2>1, <2>3, <2>4 DEF Over
  <2> QED BY <1>2, <2>1, <2>5
<1>4. CASE Abandoned \/ Refused \/ PutCancelled \/ GenerationFails \/ Finished
  <2>1. \E how, last : Conclude(how, last)
    BY <1>4 DEF Abandoned, Refused, PutCancelled, GenerationFails, Finished
  <2>2. \E how : outcome' = [outcome EXCEPT ![current] = how] /\ UNCHANGED <<current, counts>>
    BY <2>1 DEF Conclude, queueVars
  <2>3. Over' = Over BY <1>1, <2>2 DEF Over, Typed
  <2> QED BY <1>2, <2>2, <2>3
<1>5. CASE Retire
  <2>1. current' = Nobody /\ outcome' = outcome /\ counts'.completed = counts.completed + 1
    BY <1>5 DEF Retire
  <2>2. worker = "done" /\ outcome[current] # "none" BY <1>5 DEF Retire, Queued
  <2>3. current \in Jobs /\ Nobody \notin Jobs
    BY <1>1, <2>2, ServingAssumption DEF Queued, Typed, ServingAssumption
  <2>4. current \notin Over /\ Over' = Over \cup {current} BY <2>1, <2>2, <2>3 DEF Over
  <2>5. IsFiniteSet(Over) /\ counts.completed = Cardinality(Over) BY DEF Counted
  <2>6. IsFiniteSet(Over \cup {current}) /\ Cardinality(Over \cup {current}) = Cardinality(Over) + 1
    BY <2>4, <2>5, FS_AddElement
  <2> QED BY <2>1, <2>4, <2>5, <2>6 DEF Counted
<1>6. CASE Leave \/ Prepare \/ PutTokens \/ EndGeneration
  <2>1. UNCHANGED <<current, outcome, counts>>
    BY <1>6 DEF Leave, Prepare, PutTokens, EndGeneration, queueVars
  <2> QED BY <1>2, <2>1 DEF Over
<1>7. CASE Close \/ StopServer \/ UNCHANGED vars
  <2>1. UNCHANGED <<current, outcome, counts>> BY <1>7 DEF Close, StopServer, vars, queueVars
  <2> QED BY <1>2, <2>1 DEF Over
<1>8. ASSUME NEW j \in Jobs, Submit(j) \/ HangUp(j) \/ Drop(j) \/ Loop(j) PROVE Counted'
  <2>1. UNCHANGED <<current, outcome, counts>>
    BY <1>8 DEF Submit, HangUp, Drop, Loop, StartStream, Watch, Deliver, queueVars
  <2> QED BY <1>2, <2>1 DEF Over
<1> QED BY <1>3, <1>4, <1>5, <1>6, <1>7, <1>8 DEF Next, Advance

\* What the loop has of a job's deltas, before a step and after it.
LEMMA SentIs ==
  ASSUME NEW j \in Jobs
  PROVE  Sent(j) = got[j] \o Spoken(events[j]) /\ Sent(j)' = got'[j] \o Spoken(events'[j])
BY DEF Sent, Spoken, AllSaid

LEMMA SentType ==
  ASSUME Streams, NEW j \in Jobs
  PROVE  Sent(j) \in Text /\ events[j] \in Seq(Event) /\ got[j] \in Text
<1>1. events[j] \in Seq(Event) /\ got[j] \in Text BY DEF Streams
<1>2. Spoken(events[j]) \in Text BY <1>1, SpokenType
<1>3. got[j] \o Spoken(events[j]) \in Text BY <1>1, <1>2, ConcatProperties DEF Text
<1> QED BY <1>1, <1>3, SentIs

\* What emit() does: the loop takes the events, or it is closed and takes none.
LEMMA EmitSays ==
  ASSUME Streams, NEW j \in Jobs, NEW new \in Seq(Event), Emit(j, new), got' = got
  PROVE  /\ events' \in [Jobs -> Seq(Event)]
         /\ \A k \in Jobs : k # j => events'[k] = events[k]
         /\ \/ server = "stopped" /\ events'[j] = events[j] /\ Sent(j)' = Sent(j)
            \/ /\ server # "stopped" /\ events'[j] = events[j] \o new
               /\ Sent(j)' = Sent(j) \o Spoken(new)
<1>1. events \in [Jobs -> Seq(Event)] BY DEF Streams
<1>2. PICK es \in Seq(Event) : es = events[j] BY <1>1
<1>3. PICK g \in Text : g = got[j] BY SentType
<1>4. Sent(j) = g \o Spoken(es) /\ Sent(j)' = g \o Spoken(events'[j]) BY <1>2, <1>3, SentIs
<1>5. CASE server = "stopped" /\ new # << >>
  <2>1. events' = events BY <1>5 DEF Emit
  <2> QED BY <1>1, <1>2, <1>4, <1>5, <2>1
<1>6. CASE ~(server = "stopped" /\ new # << >>)
  <2>1. events' = [events EXCEPT ![j] = es \o new] BY <1>2, <1>6 DEF Emit
  <2>2. es \o new \in Seq(Event) BY ConcatProperties
  <2>3. events' \in [Jobs -> Seq(Event)] /\ events'[j] = es \o new
        /\ \A k \in Jobs : k # j => events'[k] = events[k]
    BY <1>1, <2>1, <2>2
  <2>4. CASE server = "stopped"
    <3>1. es \o new = es BY <1>6, <2>4, ConcatEmptySeq
    <3> QED BY <1>2, <1>4, <2>3, <2>4, <3>1
  <2>5. CASE server # "stopped"
    <3>1. Spoken(es \o new) = Spoken(es) \o Spoken(new) BY SpokenConcat
    <3>2. Spoken(es) \in Text /\ Spoken(new) \in Text BY SpokenType
    <3>3. (g \o Spoken(es)) \o Spoken(new) = g \o (Spoken(es) \o Spoken(new))
      <4>1. g \in Text OBVIOUS
      <4> QED BY ONLY <3>2, <4>1, TextsJoin
    <3> QED BY <1>2, <1>4, <2>3, <2>5, <3>1, <3>3
  <2> QED BY <2>4, <2>5
<1> QED BY <1>5, <1>6

\* A job that a step does not touch.
LEMMA StreamStays ==
  ASSUME NEW k \in Jobs, Stream(k), outcome'[k] = outcome[k], answer'[k] = answer[k],
         events'[k] = events[k], got'[k] = got[k],
         endpoint'[k] = "answered" => endpoint[k] = "answered",
         k = current /\ Showing => outcome[k] # "none" \/ (k = current' /\ Showing')
  PROVE  Stream(k)'
<1>1. Sent(k)' = Sent(k) BY SentIs
<1> QED BY <1>1 DEF Stream, Tells, Begins, Alike

\* Steps that say nothing.
LEMMA QuietStep ==
  ASSUME Streams, Running, UNCHANGED <<events, got, answer, outcome, gen>>,
         Showing => Showing' /\ current' = current,
         Showing' => worker' = worker /\ current' = current,
         server' # "stopped" => server # "stopped",
         \A k \in Jobs : endpoint'[k] = "answered" => endpoint[k] = "answered",
         current \in Jobs \cup {Nobody}, Showing => current \in Jobs
  PROVE  Streams' /\ Running'
<1>1. ASSUME NEW k \in Jobs PROVE Stream(k)'
  <2>1. Stream(k) BY DEF Streams
  <2>2. k = current /\ Showing => k = current' /\ Showing' OBVIOUS
  <2> QED BY <2>1, <2>2, StreamStays
<1>2. Streams' BY <1>1 DEF Streams
<1>3. CASE ~Showing'
  <2>1. ~Showing BY <1>3
  <2> QED BY <1>2, <1>3 DEF Running, Showing
<1>4. CASE Showing'
  <2>1. worker' = worker /\ current' = current /\ Showing BY <1>4 DEF Showing
  <2>2. Sent(current)' = Sent(current) BY <2>1, SentIs
  <2>3. Running' BY <2>1, <2>2 DEF Running, Showing, Tells, Begins, Alike
  <2> QED BY <1>2, <2>3
<1> QED BY <1>3, <1>4

\* Every step of the loop but Deliver, and of the worker where it shows nothing.
LEMMA QuietSteps ==
  ASSUME IInv, Queued, Streams, Running,
         \/ TakeJob \/ Leave \/ Retire \/ Close \/ StopServer \/ UNCHANGED vars
         \/ \E j \in Jobs : Submit(j) \/ HangUp(j) \/ Drop(j) \/ StartStream(j) \/ Watch(j)
  PROVE  Streams' /\ Running'
<1>1. UNCHANGED <<events, got, answer, outcome, gen>>
  BY DEF TakeJob, Leave, Retire, Close, StopServer, vars, queueVars, loopVars, Submit, HangUp, Drop,
         StartStream, Watch
<1>2. \/ worker' = worker /\ current' = current
      \/ ~Showing /\ ~Showing'
  BY DEF TakeJob, Leave, Retire, Close, StopServer, vars, queueVars, loopVars, Submit, HangUp, Drop,
         StartStream, Watch, Showing
<1>3. server' # "stopped" => server # "stopped"
  BY DEF TakeJob, Leave, Retire, Close, StopServer, vars, queueVars, loopVars, Submit, HangUp, Drop,
         StartStream, Watch
<1>4. ASSUME NEW k \in Jobs, endpoint'[k] = "answered" PROVE endpoint[k] = "answered"
  <2>1. endpoint \in [Jobs -> Places] BY DEF Queued
  <2>2. endpoint' = endpoint
        \/ \E j \in Jobs : \E place \in Places \ {"answered"} : endpoint' = [endpoint EXCEPT ![j] = place]
    BY DEF TakeJob, Leave, Retire, Close, StopServer, vars, queueVars, loopVars, Submit, HangUp, Drop,
           StartStream, Watch, Places
  <2> QED BY <1>4, <2>1, <2>2
<1>5. current \in Jobs \cup {Nobody} /\ (Showing => current \in Jobs) BY DEF IInv, Typed, Taken, Showing
<1>6. (Showing => Showing' /\ current' = current) /\ (Showing' => worker' = worker /\ current' = current)
  BY <1>2 DEF Showing
<1> QED BY <1>1, <1>3, <1>4, <1>5, <1>6, QuietStep

\* The empty text.
LEMMA NothingYet == Decode(<< >>) = << >> /\ StopAt(<< >>) = 0
<1>1. Pieces(<< >>) = << >> BY DEF Pieces
<1>2. Decode(<< >>) = << >> BY <1>1, DecodeIs, FlattenNone
<1>3. << >> \in Text BY DEF Text
<1>4. StopAt(<< >>) \in 0..Len(<< >>) BY <1>3, StopAtIs
<1> QED BY <1>2, <1>4

\* A generation begins with nothing shown.
LEMMA PrepareStep ==
  ASSUME IInv, Queued, Streams, Running, Prepare PROVE Streams' /\ Running'
<1>1. worker = "taken" /\ worker' = "generating"
      /\ UNCHANGED <<events, got, answer, outcome, gen, endpoint, current, server>>
  BY DEF Prepare, queueVars, loopVars
<1>2. current \in Jobs /\ outcome[current] = "none" BY <1>1 DEF IInv, Taken, Queued, Working
<1>3. ~Showing /\ Showing' BY <1>1 DEF Showing
<1>4. ASSUME NEW k \in Jobs PROVE Stream(k)'
  <2>1. Stream(k) BY DEF Streams
  <2> QED BY <1>1, <1>3, <2>1, StreamStays
<1>5. Streams' BY <1>1, <1>4 DEF Streams
<1>6. events[current] = << >> /\ got[current] = << >> BY <1>2, <1>3 DEF Streams, Stream
<1>7. Sent(current) = << >>
  <2>1. Sent(current) = << >> \o Spoken(<< >>) BY <1>2, <1>6, SentIs
  <2> QED BY <2>1, SpokenNone
<1>8. Sent(current)' = << >> BY <1>1, <1>2, <1>7, SentIs
<1>9. gen = NoGen BY <1>3 DEF Running
<1>10. gen' = [ids |-> << >>, text |-> << >>, emitted |-> 0] BY <1>1, <1>9 DEF NoGen
<1>11. Budget[current] \in Nat BY <1>2, ServingAssumption DEF ServingAssumption
<1>12. Begins(<< >>, << >>) BY DEF Begins, Alike
<1>13. << >> \in Seq(Token) /\ << >> \in Text BY DEF Text
<1>14. current' = current BY <1>1
<1>15. (gen'.ids = << >> /\ gen'.text = << >> /\ gen'.emitted = 0) BY <1>10
<1> QED
  <2>1. (gen \in [ids : Seq(Token), text : Text, emitted : Nat] /\ gen.emitted <= Len(gen.text))'
    BY <1>10, <1>13
  <2>2. (Len(gen.ids) <= Budget[current] /\ Begins(Sent(current), gen.text))'
    BY <1>8, <1>11, <1>12, <1>14, <1>15
  <2>3. (gen.text = Decode(gen.ids) /\ StopAt(gen.text) = Len(gen.text))'
    BY <1>15, NothingYet
  <2>4. (Len(Sent(current)) = gen.emitted)' BY <1>8, <1>15
  <2> QED BY <1>1, <1>3, <1>5, <1>15, <2>1, <2>2, <2>3, <2>4 DEF Running

\* The last events of a job: what it came to, if anything, and the end.
Lasts == {<< >>, <<Failed>>} \cup {<<Completed(text)>> : text \in Text}

LEMMA LastEvents ==
  ASSUME NEW last \in Lasts
  PROVE  /\ Append(last, End) \in Seq(Event) /\ Spoken(Append(last, End)) = << >>
         /\ Len(Append(last, End)) = Len(last) + 1
         /\ Len(last) \in Nat /\ Append(last, End)[Len(last) + 1] = End
         /\ \A i \in 1..Len(last) : i = 1 /\ Append(last, End)[i] = last[1] /\ last = <<last[1]>>
<1>1. End \in Event /\ Failed \in Event /\ << >> \in Text BY DEF End, Failed, Event, Text
<1>2. \A text \in Text : Completed(text) \in Event BY DEF Completed, Event
<1>3. CASE last = << >>
  <2>1. Append(last, End) = <<End>> BY <1>3
  <2>2. Spoken(<<End>>) = Said(End) BY <1>1, SpokenOne
  <2>3. Said(End) = << >> BY DEF Said, End
  <2> QED BY <1>1, <1>3, <2>1, <2>2, <2>3
<1>4. CASE last # << >>
  <2>1. PICK e \in Event : last = <<e>> /\ Said(e) = << >>
    <3>1. Said(Failed) = << >> BY DEF Said, Failed
    <3>2. \A text \in Text : Said(Completed(text)) = << >> BY DEF Said, Completed
    <3> QED BY <1>1, <1>2, <1>4, <3>1, <3>2 DEF Lasts
  <2>2. <<e>> \in Seq(Event) OBVIOUS
  <2>3. <<End>> \in Seq(Event) BY <1>1
  <2>4. PICK a \in Seq(Event) : a = last /\ a = <<e>> BY <2>1, <2>2
  <2>5. PICK b \in Seq(Event) : b = <<End>> BY <2>3
  <2>6. Len(a) = 1 /\ a[1] = e BY <2>4
  <2>7. Append(a, End) = a \o b BY <1>1, <2>5, AppendIsConcat
  <2>8. Spoken(a \o b) = Spoken(a) \o Spoken(b) BY SpokenConcat
  <2>9. Spoken(a) = << >> BY <2>1, <2>4, SpokenOne
  <2>10. Spoken(b) = << >>
    <3>1. Said(End) = << >> BY DEF Said, End
    <3> QED BY <1>1, <2>5, <3>1, SpokenOne
  <2>11. << >> \o << >> = << >> BY ConcatEmptySeq
  <2>12. Spoken(Append(a, End)) = << >> BY <2>7, <2>8, <2>9, <2>10, <2>11
  <2>13. /\ Append(a, End) \in Seq(Event) /\ Len(Append(a, End)) = 2
         /\ Append(a, End)[1] = e /\ Append(a, End)[2] = End
    <3>1. End \in Event BY <1>1
    <3>2. /\ Append(a, End) \in Seq(Event) /\ Len(Append(a, End)) = Len(a) + 1
          /\ \A i \in 1..Len(a) : Append(a, End)[i] = a[i]
          /\ Append(a, End)[Len(a) + 1] = End
      BY <3>1, AppendProperties
    <3>3. 1 \in 1..1 /\ 1 + 1 = 2 OBVIOUS
    <3> QED BY <2>6, <3>2, <3>3
  <2>14. a = <<a[1]>> BY <2>4, <2>6
  <2>15. \A i \in 1..1 : i = 1 OBVIOUS
  <2>16. Append(last, End)[1 + 1] = End /\ 1 + 1 = 2 BY <2>4, <2>13
  <2> QED BY <2>4, <2>6, <2>12, <2>13, <2>14, <2>15, <2>16
<1> QED BY <1>3, <1>4

\* The end of a job, and what it came to: the deltas agree with it.
LEMMA ConcludeStep ==
  ASSUME IInv, Queued, Streams, Running, worker \in Working, current \in Jobs,
         NEW how \in {"cancelled", "failed", "completed"}, NEW last \in Lasts, Conclude(how, last),
         \/ last \in {<< >>, <<Failed>>}
         \/ last = <<Completed(gen.text)>> /\ how = "completed" /\ worker = "generated"
  PROVE  Streams' /\ Running'
<1> DEFINE j == current
           new == Append(last, End)
<1>1. /\ outcome' = [outcome EXCEPT ![j] = how] /\ worker' = "done" /\ gen' = NoGen
      /\ Emit(j, new) /\ UNCHANGED <<got, answer, endpoint, current, server>>
  BY DEF Conclude, queueVars, loopVars
<1>2. outcome'[j] = how /\ \A k \in Jobs : k # j => outcome'[k] = outcome[k] BY <1>1 DEF IInv, Typed
<1>3. outcome[j] = "none" BY DEF Queued
<1>4. new \in Seq(Event) /\ Spoken(new) = << >> BY LastEvents
<1>5. Len(new) = Len(last) + 1 /\ Len(last) \in Nat /\ new[Len(last) + 1] = End
      /\ \A i \in 1..Len(last) : i = 1 /\ new[i] = last[1] /\ last = <<last[1]>>
  BY LastEvents
<1>6. Stream(j) BY DEF Streams
<1>7. answer[j] = NoText /\ endpoint[j] # "answered" /\ \A i \in DOMAIN events[j] : events[j][i].kind = "delta"
  BY <1>3, <1>6 DEF Stream
<1>8. PICK sent \in Text : sent = Sent(j) BY SentType
<1>9. PICK es \in Seq(Event) : es = events[j] BY SentType
<1> HIDE DEF new
<1>10. events' \in [Jobs -> Seq(Event)] /\ \A k \in Jobs : k # j => events'[k] = events[k]
  BY <1>1, <1>4, EmitSays
<1>11. \/ server = "stopped" /\ events'[j] = events[j] /\ Sent(j)' = Sent(j)
       \/ /\ server # "stopped" /\ events'[j] = events[j] \o new
          /\ Sent(j)' = Sent(j) \o Spoken(new)
  BY <1>1, <1>4, EmitSays
<1>12. sent \o << >> = sent BY ConcatEmptySeq DEF Text
<1>13. Sent(j)' = sent BY <1>4, <1>8, <1>11, <1>12
<1>14. ASSUME NEW i \in DOMAIN events'[j]
       PROVE  /\ events'[j][i].kind = "end" => i = Len(events'[j])
              /\ events'[j][i].kind = "completed" =>
                   how = "completed" /\ Tells(sent, events'[j][i].text)
  <2>1. CASE events'[j] = es BY <1>7, <1>9, <1>14, <2>1
  <2>2. CASE events'[j] = es \o new /\ server # "stopped"
    <3>1. PICK fs \in Seq(Event) : fs = es \o new BY <1>4, ConcatProperties
    <3>2. Len(fs) = Len(es) + Len(new)
          /\ \A n \in 1..(Len(es) + Len(new)) : fs[n] = IF n <= Len(es) THEN es[n] ELSE new[n - Len(es)]
      BY <1>4, <3>1, ConcatProperties
    <3>3. Len(es) \in Nat /\ Len(new) \in Nat /\ DOMAIN es = 1..Len(es) BY <1>4, LenProperties
    <3>4. i \in 1..(Len(es) + Len(new)) BY <1>14, <2>2, <3>1, <3>2, LenProperties
    <3>5. CASE i <= Len(es)
      <4>1. i \in DOMAIN es /\ fs[i] = es[i] BY <3>2, <3>3, <3>4, <3>5
      <4> QED BY <1>7, <1>9, <2>2, <3>1, <4>1
    <3>6. CASE i = Len(es) + Len(new)
      <4>1. fs[i] = new[Len(last) + 1] BY <1>5, <3>2, <3>3, <3>4, <3>6
      <4>2. fs[i].kind = "end" BY <1>5, <4>1 DEF End
      <4> QED BY <2>2, <3>1, <3>2, <3>6, <4>2
    <3>7. CASE i > Len(es) /\ i < Len(es) + Len(new)
      <4>1. i - Len(es) \in 1..Len(last) /\ ~(i <= Len(es)) BY <1>5, <3>3, <3>4, <3>7
      <4>2. fs[i] = new[i - Len(es)] BY <3>2, <3>4, <4>1
      <4>3. fs[i] = last[1] /\ last = <<last[1]>> BY <1>5, <4>1, <4>2
      <4>4. CASE last \in {<< >>, <<Failed>>}
        <5>1. last[1] = Failed
          <6>1. CASE last = << >>
            <7>1. Len(last) = 0 BY <6>1
            <7> QED BY <1>5, <4>1, <7>1
          <6>2. CASE last = <<Failed>> BY <6>2
          <6> QED BY <4>4, <6>1, <6>2
        <5>2. fs[i].kind = "failed" BY <4>3, <5>1 DEF Failed
        <5> QED BY <2>2, <3>1, <5>2
      <4>5. CASE last = <<Completed(gen.text)>> /\ how = "completed" /\ worker = "generated"
        <5>1. fs[i] = Completed(gen.text) BY <4>3, <4>5
        <5>2. fs[i].kind = "completed" /\ fs[i].text = gen.text BY <5>1 DEF Completed
        <5>3. Tells(sent, gen.text) BY <1>8, <2>2, <4>5 DEF Running
        <5> QED BY <2>2, <3>1, <4>5, <5>2, <5>3
      <4> QED BY <4>4, <4>5
    <3>8. i <= Len(es) \/ i = Len(es) + Len(new) \/ (i > Len(es) /\ i < Len(es) + Len(new))
      BY <3>3, <3>4
    <3> QED BY <3>5, <3>6, <3>7, <3>8
  <2> QED BY <1>9, <1>11, <2>1, <2>2
<1>15. Stream(j)'
  <2>1. (/\ outcome[j] # "none" /\ answer[j] = NoText /\ endpoint[j] # "answered")'
    BY <1>1, <1>2, <1>7
  <2>2. \A i \in DOMAIN events'[j] : events'[j][i].kind = "completed" =>
          outcome'[j] = "completed" /\ Tells(Sent(j)', events'[j][i].text)
    BY <1>2, <1>13, <1>14
  <2>3. \A i \in DOMAIN events'[j] : events'[j][i].kind = "end" => i = Len(events'[j]) BY <1>14
  <2> QED BY <1>1, <2>1, <2>2, <2>3 DEF Stream, Tells, Begins, Alike
<1>16. ASSUME NEW k \in Jobs, k # j PROVE Stream(k)'
  <2>1. Stream(k) BY DEF Streams
  <2> QED BY <1>1, <1>2, <1>10, <1>16, <2>1, StreamStays
<1>17. Streams' BY <1>1, <1>10, <1>15, <1>16 DEF Streams
<1>18. Running'
  <2>1. << >> \in Seq(Token) /\ << >> \in Text BY DEF Text
  <2> QED BY <1>1, <2>1 DEF Running, NoGen, Showing
<1> QED BY <1>17, <1>18

\* However a job ends.
LEMMA ConcludeSteps ==
  ASSUME IInv, Queued, Streams, Running,
         Abandoned \/ Refused \/ PutCancelled \/ GenerationFails \/ Finished
  PROVE  Streams' /\ Running'
<1>1. worker \in Working
  BY DEF Abandoned, Refused, PutCancelled, GenerationFails, Finished, Generating, Working
<1>2. current \in Jobs BY <1>1 DEF IInv, Taken, Working
<1>3. << >> \in Lasts /\ <<Failed>> \in Lasts /\ <<Completed(gen.text)>> \in Lasts
  BY DEF Lasts, Running
<1>4. \/ Conclude("cancelled", << >>) \/ Conclude("failed", <<Failed>>)
      \/ Conclude("completed", <<Completed(gen.text)>>) /\ worker = "generated"
  BY DEF Abandoned, Refused, PutCancelled, GenerationFails, Finished
<1> QED BY <1>1, <1>2, <1>3, <1>4, ConcludeStep

\* A delta that says something, or none.
LEMMA DeltaSays ==
  ASSUME NEW chunk \in Text
  PROVE  /\ Delta(chunk) \in Seq(Event) /\ Spoken(Delta(chunk)) = chunk
         /\ \A i \in 1..Len(Delta(chunk)) : Delta(chunk)[i].kind = "delta"
<1>1. CASE chunk = << >>
  <2>1. Delta(chunk) = << >> BY <1>1 DEF Delta
  <2>2. << >> \in Seq(Event) /\ Len(<< >>) = 0 /\ \A i \in 1..0 : FALSE OBVIOUS
  <2> QED BY <1>1, <2>1, <2>2, SpokenNone
<1>2. CASE chunk # << >>
  <2>1. PICK e : e = [kind |-> "delta", text |-> chunk] OBVIOUS
  <2>2. e \in Event /\ e.kind = "delta" /\ e.text = chunk BY <2>1 DEF Event
  <2>3. Delta(chunk) = <<e>> BY <1>2, <2>1 DEF Delta
  <2>4. Spoken(<<e>>) = chunk BY <2>2, SpokenOne DEF Said
  <2>5. <<e>> \in Seq(Event) /\ Len(<<e>>) = 1 BY <2>2
  <2>6. \A i \in 1..1 : <<e>>[i] = e OBVIOUS
  <2> QED BY <2>2, <2>3, <2>4, <2>5, <2>6
<1> QED BY <1>1, <1>2

\* What the worker says while it shows a generation.
LEMMA DeltaStep ==
  ASSUME IInv, Queued, Streams, Showing, Showing', NEW chunk \in Text, Emit(current, Delta(chunk)),
         UNCHANGED <<outcome, got, answer, endpoint, current>>
  PROVE  /\ Streams'
         /\ \/ server = "stopped" /\ Sent(current)' = Sent(current)
            \/ server # "stopped" /\ Sent(current)' = Sent(current) \o chunk
<1> DEFINE j == current
           new == Delta(chunk)
<1>1. j \in Jobs /\ outcome[j] = "none" BY DEF IInv, Taken, Queued, Showing, Working
<1>2. new \in Seq(Event) /\ Spoken(new) = chunk /\ \A i \in 1..Len(new) : new[i].kind = "delta"
  BY DeltaSays
<1>3. Stream(j) BY <1>1 DEF Streams
<1>4. answer[j] = NoText /\ endpoint[j] # "answered" /\ \A i \in DOMAIN events[j] : events[j][i].kind = "delta"
  BY <1>1, <1>3 DEF Stream
<1>5. PICK es \in Seq(Event) : es = events[j] BY <1>1, SentType
<1> HIDE DEF new
<1>6. Emit(j, new) /\ got' = got BY DEF new
<1>7. events' \in [Jobs -> Seq(Event)] /\ \A k \in Jobs : k # j => events'[k] = events[k]
  BY <1>1, <1>2, <1>6, EmitSays
<1>8. \/ server = "stopped" /\ events'[j] = events[j] /\ Sent(j)' = Sent(j)
      \/ /\ server # "stopped" /\ events'[j] = events[j] \o new
         /\ Sent(j)' = Sent(j) \o Spoken(new)
  BY <1>1, <1>2, <1>6, EmitSays
<1>9. ASSUME NEW i \in DOMAIN events'[j] PROVE events'[j][i].kind = "delta"
  <2>1. CASE events'[j] = es BY <1>4, <1>5, <1>9, <2>1
  <2>2. CASE events'[j] = es \o new
    <3>1. PICK fs \in Seq(Event) : fs = es \o new BY <1>2, ConcatProperties
    <3>2. Len(fs) = Len(es) + Len(new)
          /\ \A n \in 1..(Len(es) + Len(new)) : fs[n] = IF n <= Len(es) THEN es[n] ELSE new[n - Len(es)]
      BY <1>2, <3>1, ConcatProperties
    <3>3. Len(es) \in Nat /\ Len(new) \in Nat /\ DOMAIN es = 1..Len(es) BY <1>2, LenProperties
    <3>4. i \in 1..(Len(es) + Len(new)) BY <1>9, <2>2, <3>1, <3>2, LenProperties
    <3>5. CASE i <= Len(es)
      <4>1. i \in DOMAIN es /\ fs[i] = es[i] BY <3>2, <3>3, <3>4, <3>5
      <4> QED BY <1>4, <1>5, <2>2, <3>1, <4>1
    <3>6. CASE i > Len(es)
      <4>1. i - Len(es) \in 1..Len(new) /\ ~(i <= Len(es)) BY <3>3, <3>4, <3>6
      <4>2. fs[i] = new[i - Len(es)] BY <3>2, <3>4, <4>1
      <4> QED BY <1>2, <2>2, <3>1, <4>1, <4>2
    <3> QED BY <3>3, <3>4, <3>5, <3>6
  <2> QED BY <1>5, <1>8, <2>1, <2>2
<1>10. Stream(j)'
  <2>1. outcome'[j] = "none" /\ answer'[j] = NoText /\ endpoint'[j] # "answered" BY <1>1, <1>4
  <2>2. \A i \in DOMAIN events'[j] : events'[j][i].kind # "end" /\ events'[j][i].kind # "completed"
    BY <1>9
  <2>3. (j = current /\ Showing)' OBVIOUS
  <2> QED BY <1>9, <2>1, <2>2, <2>3 DEF Stream
<1>11. ASSUME NEW k \in Jobs, k # j PROVE Stream(k)'
  <2>1. Stream(k) BY DEF Streams
  <2> QED BY <1>7, <1>11, <2>1, StreamStays
<1>12. Streams' BY <1>7, <1>10, <1>11 DEF Streams
<1> QED BY <1>2, <1>8, <1>12

\* The tokens of a pass are tokens, and no more than the budget leaves.
LEMMA Burst ==
  ASSUME Running, Generating, current \in Jobs, NEW n \in Bursts,
         NEW ids \in [1..Min({n, Budget[current] - Len(gen.ids)}) -> Yields[current]]
  PROVE  /\ ids \in Seq(Token) /\ gen.ids \o ids \in Seq(Token)
         /\ Len(gen.ids \o ids) <= Budget[current]
<1>1. n \in Nat /\ Budget[current] \in Nat /\ Yields[current] \subseteq Token
  BY ServingAssumption DEF ServingAssumption, Token
<1>2. PICK is \in Seq(Token) : is = gen.ids BY DEF Running
<1>3. Len(is) \in Nat /\ Len(is) < Budget[current] BY <1>2 DEF Generating
<1>4. PICK left \in Nat : left = Budget[current] - Len(is) BY <1>1, <1>3
<1>5. PICK m \in {n, left} : m = Min({n, left}) /\ m <= left
  <2>1. n <= left \/ left <= n BY <1>1
  <2>2. \E m \in {n, left} : \A x \in {n, left} : m <= x BY <1>1, <2>1
  <2>3. Min({n, left}) \in {n, left} /\ \A x \in {n, left} : Min({n, left}) <= x BY <2>2 DEF Min
  <2> QED BY <2>3
<1>6. m \in Nat /\ ids \in [1..m -> Token] BY <1>1, <1>2, <1>4, <1>5
<1>7. PICK more \in Seq(Token) : more = ids /\ Len(more) = m BY <1>6
<1>8. is \o more \in Seq(Token) /\ Len(is \o more) = Len(is) + Len(more) BY ConcatProperties
<1>9. Len(is \o more) <= Budget[current] BY <1>1, <1>3, <1>4, <1>5, <1>6, <1>7, <1>8
<1> QED BY <1>2, <1>7, <1>8, <1>9

\* A stretch of a text.
LEMMA StretchType ==
  ASSUME NEW text \in Text, NEW a \in Nat, NEW b \in 0..Len(text)
  PROVE  SubSeq(text, a + 1, b) \in Text
<1>1. Len(text) \in Nat BY LenProperties DEF Text
<1>2. \A i \in (a + 1)..b : text[i] \in Char BY <1>1, ElementOfSeq DEF Text
<1>3. a + 1 \in Int /\ b \in Int BY <1>1
<1> QED BY <1>2, <1>3, SubSeqProperties DEF Text

\* How far a text may be sent: what has been sent or what stands, but for the hold-back.
LEMMA LimitIs ==
  ASSUME NEW text \in Text, NEW emitted \in 0..Stable(text, 0),
         emitted = 0 \/ emitted + HoldBack <= Stable(text, 0)
  PROVE  /\ Limit(text, emitted) \in emitted..Len(text)
         /\ Limit(text, emitted) = 0 \/ Limit(text, emitted) + HoldBack <= Stable(text, 0)
<1>1. Len(text) \in Nat /\ 0 \in 0..Len(text) BY LenProperties DEF Text
<1>2. PICK v \in 0..Len(text) : v = Stable(text, 0) BY <1>1, StableIs
<1>3. PICK h \in Nat : h = HoldBack BY HoldBackIs
<1>4. emitted \in 0..Len(text) /\ emitted <= v BY <1>1, <1>2
<1>5. Stable(text, emitted) = v BY <1>2, <1>4, StableFrom
<1>6. Limit(text, emitted) = Max({emitted, v - h}) BY <1>3, <1>5 DEF Limit
<1>7. \E m \in {emitted, v - h} : \A x \in {emitted, v - h} : m >= x
  <2>1. emitted <= v - h \/ v - h <= emitted BY <1>1, <1>2, <1>3, <1>4
  <2> QED BY <1>1, <1>2, <1>3, <1>4, <2>1
<1>8. PICK m \in {emitted, v - h} : m = Limit(text, emitted) /\ \A x \in {emitted, v - h} : m >= x
  BY <1>6, <1>7 DEF Max
<1>9. m >= emitted /\ m <= Len(text) /\ m \in Int BY <1>1, <1>2, <1>3, <1>4, <1>8
<1>10. m = 0 \/ m + h <= v BY <1>1, <1>2, <1>3, <1>4, <1>8
<1> QED BY <1>2, <1>3, <1>4, <1>8, <1>9, <1>10

\* What has been sent still is how the text begins when the text has grown.
LEMMA StillBegins ==
  ASSUME NEW sent \in Text, NEW old \in Text, NEW new \in Text, Begins(sent, old), Grows(old, new),
         NEW emitted \in Nat, Len(sent) <= emitted, emitted = 0 \/ emitted + HoldBack <= Stable(old, 0)
  PROVE  /\ Begins(sent, new) /\ emitted \in 0..Stable(new, 0)
         /\ emitted = 0 \/ emitted + HoldBack <= Stable(new, 0)
<1>1. Len(old) \in Nat /\ Len(new) \in Nat /\ 0 \in 0..Len(old) /\ 0 \in 0..Len(new) /\ Len(sent) \in Nat
  BY LenProperties DEF Text
<1>2. PICK u \in 0..Len(old) : u = Stable(old, 0) BY <1>1, StableIs
<1>3. PICK v \in 0..Len(new) : v = Stable(new, 0) BY <1>1, StableIs
<1>4. u <= v /\ \A n \in 1..u : old[n] = new[n] BY <1>2, <1>3, StableGrows DEF Alike
<1>5. PICK h \in Nat : h = HoldBack BY HoldBackIs
<1>6. emitted <= u BY <1>1, <1>2, <1>5
<1>7. \A n \in 1..Len(sent) : sent[n] = old[n] BY DEF Begins, Alike
<1>8. Len(sent) <= Len(new) BY <1>1, <1>2, <1>3, <1>4, <1>6
<1>9. \A n \in 1..Len(sent) : n \in 1..u BY <1>1, <1>2, <1>6
<1>10. Begins(sent, new) BY <1>4, <1>7, <1>8, <1>9 DEF Begins, Alike
<1>11. emitted \in 0..v /\ (emitted = 0 \/ emitted + h <= v) BY <1>2, <1>3, <1>4, <1>5, <1>6
<1> QED BY <1>3, <1>5, <1>10, <1>11

\* All that stands of a text has been sent.
LEMMA RestTells ==
  ASSUME NEW sent \in Text, NEW text \in Text, Begins(sent, text)
  PROVE  /\ SubSeq(text, Len(sent) + 1, Stable(text, Len(sent))) \in Text
         /\ Begins(sent \o SubSeq(text, Len(sent) + 1, Stable(text, Len(sent))), text)
         /\ Tells(sent \o SubSeq(text, Len(sent) + 1, Stable(text, Len(sent))), text)
<1>1. Len(sent) \in 0..Len(text) BY LenProperties DEF Text, Begins
<1>2. PICK limit \in Len(sent)..Len(text) : limit = Stable(text, Len(sent)) BY <1>1, StableIs
<1>3. \A n \in (limit + 1)..Len(text) : text[n] = Bad BY <1>1, <1>2, StableIs
<1> QED BY <1>2, <1>3, SentFurther DEF Tells

\* More text, and no stop sequence in it.
LEMMA ShowStep ==
  ASSUME IInv, Queued, Streams, Running, Generating, NEW ids \in Seq(Token),
         gen.ids \o ids \in Seq(Token), Len(gen.ids \o ids) <= Budget[current], Show(ids),
         UNCHANGED <<queueVars, outcome, loopVars, server>>
  PROVE  Streams' /\ Running'
<1>1. worker = "generating" /\ Showing BY DEF Generating, Showing
<1>2. current \in Jobs BY <1>1 DEF IInv, Taken
<1>3. PICK is \in Seq(Token) : is = gen.ids BY DEF Running
<1>4. PICK all \in Seq(Token) : all = gen.ids \o ids /\ Len(all) <= Budget[current] OBVIOUS
<1>5. PICK old \in Text : old = gen.text BY DEF Running
<1>6. PICK new \in Text : new = Decode(all) BY DecodeType
<1>7. old = Decode(is) BY <1>1, <1>3, <1>5 DEF Running
<1>8. Grows(old, new) BY <1>3, <1>4, <1>6, <1>7, DecodeGrows
<1>9. PICK emitted \in Nat : emitted = gen.emitted BY DEF Running
<1>10. PICK sent \in Text : sent = Sent(current) BY <1>2, SentType
<1>11. /\ Begins(sent, old) /\ Len(sent) <= emitted
       /\ emitted = 0 \/ emitted + HoldBack <= Stable(old, 0)
       /\ server # "stopped" => Len(sent) = emitted
  BY <1>1, <1>5, <1>9, <1>10 DEF Running
<1>12. /\ Begins(sent, new) /\ emitted \in 0..Stable(new, 0)
       /\ emitted = 0 \/ emitted + HoldBack <= Stable(new, 0)
  BY <1>8, <1>11, StillBegins
<1>13. PICK limit \in emitted..Len(new) : limit = Limit(new, emitted) BY <1>12, LimitIs
<1>14. limit = 0 \/ limit + HoldBack <= Stable(new, 0) BY <1>12, <1>13, LimitIs
<1>15. Len(new) \in Nat /\ Len(sent) \in Nat BY LenProperties DEF Text
<1>16. limit \in 0..Len(new) /\ limit \in Nat BY <1>15
<1>17. PICK chunk \in Text : chunk = SubSeq(new, emitted + 1, limit) BY <1>16, StretchType
<1>18. /\ StopAt(new) = Len(new) /\ worker' = worker
       /\ gen' = [gen EXCEPT !.ids = @ \o ids, !.text = new, !.emitted = limit]
       /\ Emit(current, Delta(chunk))
  BY <1>4, <1>5, <1>6, <1>9, <1>13, <1>17 DEF Show
<1>19. gen \in [ids : Seq(Token), text : Text, emitted : Nat] BY DEF Running
<1>20. gen'.ids = all /\ gen'.text = new /\ gen'.emitted = limit
       /\ gen' \in [ids : Seq(Token), text : Text, emitted : Nat]
  BY <1>4, <1>16, <1>18, <1>19
<1>21. Showing' /\ UNCHANGED <<outcome, got, answer, endpoint, current, server>>
  BY <1>1, <1>18 DEF Showing, queueVars, loopVars
<1>22. Streams' /\ \/ server = "stopped" /\ Sent(current)' = Sent(current)
                   \/ server # "stopped" /\ Sent(current)' = Sent(current) \o chunk
  BY <1>1, <1>18, <1>21, DeltaStep
<1>23. Begins(Sent(current)', new) /\ Len(Sent(current)') <= limit
       /\ (server # "stopped" => Len(Sent(current)') = limit)
  <2>1. CASE server = "stopped" /\ Sent(current)' = sent BY <1>11, <1>12, <1>15, <2>1
  <2>2. CASE server # "stopped" /\ Sent(current)' = sent \o chunk
    <3>1. emitted = Len(sent) /\ limit \in Len(sent)..Len(new) BY <1>11, <2>2
    <3>2. Len(sent \o chunk) = limit /\ Begins(sent \o chunk, new)
      BY <1>12, <1>17, <3>1, SentFurther
    <3> QED BY <1>16, <2>2, <3>2
  <2> QED BY <1>10, <1>22, <2>1, <2>2
<1>24. PICK said : said = Sent(current)' OBVIOUS
<1>25. (Sent(current))' = said /\ current' = current BY <1>21, <1>24
<1> QED
  <2>1. (gen.emitted <= Len(gen.text))' BY <1>15, <1>20
  <2>2. (Len(gen.ids) <= Budget[current] /\ Begins(Sent(current), gen.text))'
    BY <1>4, <1>20, <1>23, <1>25
  <2>3. (gen.text = Decode(gen.ids) /\ StopAt(gen.text) = Len(gen.text))' BY <1>6, <1>18, <1>20
  <2>4. (gen.emitted = 0 \/ gen.emitted + HoldBack <= Stable(gen.text, 0))' BY <1>14, <1>20
  <2>5. (Len(Sent(current)) <= gen.emitted /\ (server # "stopped" => Len(Sent(current)) = gen.emitted))'
    BY <1>20, <1>21, <1>23, <1>25
  <2>6. worker' = "generating" BY <1>1, <1>18
  <2> QED BY <1>20, <1>21, <1>22, <2>1, <2>2, <2>3, <2>4, <2>5, <2>6 DEF Running

\* The last of a text: all that stands of it is sent, unless the loop is closed.
LEMMA LastStep ==
  ASSUME IInv, Queued, Streams, Running, worker = "generating", worker' = "generated",
         NEW text \in Text, NEW emitted \in Nat, Begins(Sent(current), text), emitted <= Len(text),
         server # "stopped" => Len(Sent(current)) = emitted,
         Emit(current, Rest(text, emitted)),
         gen'.text = text, gen'.emitted = Len(text), gen' \in [ids : Seq(Token), text : Text, emitted : Nat],
         Len(gen'.ids) <= Budget[current],
         UNCHANGED <<outcome, got, answer, endpoint, current, server>>
  PROVE  Streams' /\ Running'
<1>1. Showing /\ Showing' BY DEF Showing
<1>2. current \in Jobs BY DEF IInv, Taken
<1>3. PICK sent \in Text : sent = Sent(current) BY <1>2, SentType
<1>4. Len(text) \in Nat /\ emitted \in 0..Len(text) BY LenProperties DEF Text
<1>5. Stable(text, emitted) \in 0..Len(text)
  <2>1. PICK s \in emitted..Len(text) : s = Stable(text, emitted) BY <1>4, StableIs
  <2> QED BY <1>4, <2>1
<1>6. PICK chunk \in Text : chunk = SubSeq(text, emitted + 1, Stable(text, emitted))
  BY <1>5, StretchType
<1>7. Emit(current, Delta(chunk)) BY <1>6 DEF Rest
<1>8. Streams' /\ \/ server = "stopped" /\ Sent(current)' = Sent(current)
                  \/ server # "stopped" /\ Sent(current)' = Sent(current) \o chunk
  BY <1>1, <1>7, DeltaStep
<1>9. Begins(Sent(current)', text) /\ (server # "stopped" => Tells(Sent(current)', text))
  <2>1. CASE server = "stopped" /\ Sent(current)' = sent BY <1>3, <2>1
  <2>2. CASE server # "stopped" /\ Sent(current)' = sent \o chunk
    <3>1. emitted = Len(sent) /\ Begins(sent, text) BY <1>3, <2>2
    <3>2. Begins(sent \o chunk, text) /\ Tells(sent \o chunk, text) BY <1>6, <3>1, RestTells
    <3> QED BY <2>2, <3>2
  <2> QED BY <1>3, <1>8, <2>1, <2>2
<1> QED BY <1>1, <1>4, <1>8, <1>9 DEF Running, Tells, Begins, Alike

\* The text is cut where a stop sequence begins, after all that was sent.
LEMMA CutStep ==
  ASSUME IInv, Queued, Streams, Running, Generating, NEW ids \in Seq(Token),
         gen.ids \o ids \in Seq(Token), Len(gen.ids \o ids) <= Budget[current], CutShort(ids),
         UNCHANGED <<queueVars, outcome, loopVars, server>>
  PROVE  Streams' /\ Running'
<1>1. worker = "generating" /\ Showing BY DEF Generating, Showing
<1>2. current \in Jobs BY <1>1 DEF IInv, Taken
<1>3. PICK is \in Seq(Token) : is = gen.ids BY DEF Running
<1>4. PICK all \in Seq(Token) : all = gen.ids \o ids /\ Len(all) <= Budget[current] OBVIOUS
<1>5. PICK old \in Text : old = gen.text BY DEF Running
<1>6. PICK new \in Text : new = Decode(all) BY DecodeType
<1>7. old = Decode(is) /\ StopAt(old) = Len(old) BY <1>1, <1>3, <1>5 DEF Running
<1>8. Grows(old, new) BY <1>3, <1>4, <1>6, <1>7, DecodeGrows
<1>9. PICK emitted \in Nat : emitted = gen.emitted BY DEF Running
<1>10. PICK sent \in Text : sent = Sent(current) BY <1>2, SentType
<1>11. /\ Begins(sent, old) /\ Len(sent) <= emitted
       /\ emitted = 0 \/ emitted + HoldBack <= Stable(old, 0)
       /\ server # "stopped" => Len(sent) = emitted
  BY <1>1, <1>5, <1>9, <1>10 DEF Running
<1>12. Begins(sent, new) BY <1>8, <1>11, StillBegins
<1>13. PICK at \in 0..Len(new) : at = StopAt(new) BY StopAtIs
<1>14. emitted <= at BY <1>7, <1>8, <1>11, <1>13, StopComesLater
<1>15. Len(new) \in Nat /\ Len(sent) \in Nat BY LenProperties DEF Text
<1>16. PICK cut \in Text : cut = SubSeq(new, 1, at) BY CutInTwo DEF Text
<1>17. Len(cut) = at /\ \A i \in 1..at : cut[i] = new[i]
  <2>1. \A i \in 1..at : new[i] \in Char BY <1>15, ElementOfSeq DEF Text
  <2>2. Len(cut) = (IF 1 <= at THEN at - 1 + 1 ELSE 0) /\ \A i \in 1..(at - 1 + 1) : cut[i] = new[1 + i - 1]
    BY <1>13, <1>16, <2>1, SubSeqProperties
  <2> QED BY <1>13, <1>15, <2>2
<1>18. Begins(sent, cut)
  <2>1. Len(sent) <= at /\ \A i \in 1..Len(sent) : i \in 1..at /\ sent[i] = new[i]
    BY <1>11, <1>12, <1>13, <1>14, <1>15 DEF Begins, Alike
  <2> QED BY <1>17, <2>1 DEF Begins, Alike
<1>19. Min({emitted, at}) = emitted
  <2>1. \E m \in {emitted, at} : \A x \in {emitted, at} : m <= x BY <1>13, <1>14, <1>15
  <2>2. Min({emitted, at}) \in {emitted, at} /\ \A x \in {emitted, at} : Min({emitted, at}) <= x
    BY <2>1 DEF Min
  <2> QED BY <1>13, <1>14, <1>15, <2>2
<1>20. /\ gen' = [gen EXCEPT !.ids = @ \o ids, !.text = cut, !.emitted = Len(cut)]
       /\ Emit(current, Rest(cut, emitted)) /\ worker' = "generated"
  BY <1>4, <1>6, <1>9, <1>13, <1>16, <1>19 DEF CutShort
<1>21. gen \in [ids : Seq(Token), text : Text, emitted : Nat] BY DEF Running
<1>22. Len(cut) \in Nat BY <1>13, <1>15, <1>17
<1>23. gen'.ids = all /\ gen'.text = cut /\ gen'.emitted = Len(cut)
       /\ gen' \in [ids : Seq(Token), text : Text, emitted : Nat]
  BY <1>4, <1>20, <1>21, <1>22
<1>24. UNCHANGED <<outcome, got, answer, endpoint, current, server>> BY DEF queueVars, loopVars
<1> QED BY <1>1, <1>4, <1>10, <1>11, <1>14, <1>17, <1>18, <1>20, <1>23, <1>24, LastStep

\* The steps of a generation.
LEMMA GenerationSteps ==
  ASSUME IInv, Queued, Streams, Running, PutTokens \/ EndGeneration
  PROVE  Streams' /\ Running'
<1>1. worker = "generating" /\ Showing BY DEF PutTokens, EndGeneration, Generating, Showing
<1>2. current \in Jobs BY <1>1 DEF IInv, Taken
<1>3. CASE PutTokens
  <2>1. Generating /\ UNCHANGED <<queueVars, outcome, loopVars, server>> BY <1>3 DEF PutTokens
  <2>2. PICK n \in Bursts : \E ids \in [1..Min({n, Budget[current] - Len(gen.ids)}) -> Yields[current]] :
          Show(ids) \/ CutShort(ids)
    BY <1>3 DEF PutTokens
  <2>3. PICK ids \in [1..Min({n, Budget[current] - Len(gen.ids)}) -> Yields[current]] :
          Show(ids) \/ CutShort(ids)
    BY <2>2
  <2>4. ids \in Seq(Token) /\ gen.ids \o ids \in Seq(Token) /\ Len(gen.ids \o ids) <= Budget[current]
    BY <1>2, <2>1, Burst
  <2> QED BY <2>1, <2>3, <2>4, ShowStep, CutStep
<1>4. CASE EndGeneration
  <2>1. /\ gen' = [gen EXCEPT !.emitted = Len(gen.text)] /\ Emit(current, Rest(gen.text, gen.emitted))
        /\ worker' = "generated" /\ UNCHANGED <<outcome, got, answer, endpoint, current, server>>
    BY <1>4 DEF EndGeneration, queueVars, loopVars
  <2>2. gen \in [ids : Seq(Token), text : Text, emitted : Nat] /\ gen.emitted <= Len(gen.text)
    BY DEF Running
  <2>3. gen.text \in Text /\ gen.emitted \in Nat /\ Len(gen.text) \in Nat
    BY <2>2, LenProperties DEF Text
  <2>4. gen'.ids = gen.ids /\ gen'.text = gen.text /\ gen'.emitted = Len(gen.text)
        /\ gen' \in [ids : Seq(Token), text : Text, emitted : Nat]
    BY <2>1, <2>2, <2>3
  <2>5. /\ Begins(Sent(current), gen.text) /\ Len(gen.ids) <= Budget[current]
        /\ server # "stopped" => Len(Sent(current)) = gen.emitted
    BY <1>1 DEF Running
  <2> QED BY <1>1, <2>1, <2>2, <2>3, <2>4, <2>5, LastStep
<1> QED BY <1>3, <1>4

\* The first of some events, and the rest.
LEMMA FirstEvent ==
  ASSUME NEW es \in Seq(Event), es # << >>
  PROVE  /\ Head(es) \in Event /\ Head(es) = es[1] /\ 1 \in DOMAIN es
         /\ Tail(es) \in Seq(Event) /\ Len(Tail(es)) = Len(es) - 1
         /\ \A i \in DOMAIN Tail(es) : Tail(es)[i] = es[i + 1] /\ i + 1 \in DOMAIN es
         /\ Spoken(es) = Said(Head(es)) \o Spoken(Tail(es))
<1>1. Len(es) \in Nat /\ Len(es) >= 1 /\ DOMAIN es = 1..Len(es) BY LenProperties, EmptySeq
<1>2. Head(es) = es[1] /\ 1 \in DOMAIN es /\ es[1] \in Event BY <1>1, ElementOfSeq
<1>3. PICK rest \in Seq(Event) : rest = Tail(es) BY HeadTailProperties
<1>4. Len(rest) = Len(es) - 1 /\ DOMAIN rest = 1..(Len(es) - 1)
      /\ \A i \in 1..(Len(es) - 1) : rest[i] = es[i + 1]
  BY <1>1, <1>3, HeadTailProperties, LenProperties
<1>5. \A i \in 1..(Len(es) - 1) : i + 1 \in DOMAIN es BY <1>1
<1>6. <<es[1]>> \in Seq(Event) BY <1>2
<1>7. PICK one \in Seq(Event) : one = <<es[1]>> /\ Len(one) = 1 /\ one[1] = es[1] BY <1>6
<1>8. PICK both \in Seq(Event) : both = one \o rest BY ConcatProperties
<1>9. Len(both) = Len(one) + Len(rest)
      /\ \A i \in 1..(Len(one) + Len(rest)) : both[i] = IF i <= Len(one) THEN one[i] ELSE rest[i - Len(one)]
  BY <1>8, ConcatProperties
<1>10. Len(both) = Len(es) BY <1>1, <1>4, <1>7, <1>9
<1>11. ASSUME NEW i \in 1..Len(es) PROVE both[i] = es[i]
  <2>1. i \in 1..(Len(one) + Len(rest)) BY <1>9, <1>10
  <2>2. CASE i = 1 BY <1>7, <1>9, <2>1, <2>2
  <2>3. CASE i # 1
    <3>1. ~(i <= 1) /\ i - 1 \in 1..(Len(es) - 1) /\ (i - 1) + 1 = i BY <1>1, <2>3
    <3> QED BY <1>4, <1>7, <1>9, <2>1, <3>1
  <2> QED BY <2>2, <2>3
<1>12. both = es BY <1>10, <1>11, SeqEqual
<1>13. Spoken(one \o rest) = Spoken(one) \o Spoken(rest) BY SpokenConcat
<1>14. Spoken(<<es[1]>>) = Said(es[1]) BY <1>2, SpokenOne
<1> QED BY <1>2, <1>3, <1>4, <1>5, <1>7, <1>8, <1>12, <1>13, <1>14

\* A delivery moves a piece of text from the events to what is got.
LEMMA DeliverStep ==
  ASSUME IInv, Queued, Streams, Running, NEW j \in Jobs, Deliver(j) PROVE Streams' /\ Running'
<1>1. PICK es \in Seq(Event) : es = events[j] /\ es # << >> BY SentType DEF Deliver
<1>2. PICK e \in Event : e = Head(es) /\ e = es[1] BY <1>1, FirstEvent
<1>3. PICK rest \in Seq(Event) : rest = Tail(es) BY <1>1, FirstEvent
<1>4. /\ 1 \in DOMAIN es /\ Len(rest) = Len(es) - 1
      /\ \A i \in DOMAIN rest : rest[i] = es[i + 1] /\ i + 1 \in DOMAIN es
      /\ Spoken(es) = Said(e) \o Spoken(rest)
  BY <1>1, <1>2, <1>3, FirstEvent
<1>5. PICK g \in Text : g = got[j] BY SentType
<1>6. /\ got' = [got EXCEPT ![j] = IF e.kind = "delta" THEN @ \o e.text ELSE @]
      /\ answer' = [answer EXCEPT ![j] = IF e.kind = "completed" THEN e.text ELSE @]
      /\ endpoint' = [endpoint EXCEPT ![j] = IF e.kind = "end" THEN "answered" ELSE @]
      /\ events' = [events EXCEPT ![j] = rest]
      /\ endpoint[j] # "answered"
      /\ UNCHANGED <<worker, gen, outcome, current, server>>
  BY <1>1, <1>2, <1>3 DEF Deliver, queueVars
<1>7. events \in [Jobs -> Seq(Event)] /\ got \in [Jobs -> Text] /\ answer \in [Jobs -> Text \cup {NoText}]
      /\ endpoint \in [Jobs -> Places]
  BY DEF Streams, Queued
<1>8. e.text \in Text /\ << >> \in Text BY DEF Event, Text
<1>9. PICK said \in Text : said = Said(e) BY <1>8 DEF Said
<1>10. g \o said \in Text /\ got'[j] = g \o said
  <2>1. g \o said \in Text BY ConcatProperties DEF Text
  <2>2. CASE e.kind = "delta" BY <1>5, <1>6, <1>7, <1>9, <2>1, <2>2 DEF Said
  <2>3. CASE e.kind # "delta"
    <3>1. said = << >> BY <1>9, <2>3 DEF Said
    <3>2. g \o << >> = g BY ConcatEmptySeq DEF Text
    <3>3. got'[j] = g BY <1>5, <1>6, <1>7, <2>3
    <3> QED BY <2>1, <3>1, <3>2, <3>3
  <2> QED BY <2>2, <2>3
<1>11. events'[j] = rest /\ events' \in [Jobs -> Seq(Event)] BY <1>6, <1>7
<1>12. got' \in [Jobs -> Text]
  <2>1. got' = [got EXCEPT ![j] = g \o said] BY <1>6, <1>7, <1>10
  <2> QED BY <1>7, <1>10, <2>1
<1>13. answer' \in [Jobs -> Text \cup {NoText}]
       /\ answer'[j] = (IF e.kind = "completed" THEN e.text ELSE answer[j])
       /\ endpoint'[j] = (IF e.kind = "end" THEN "answered" ELSE endpoint[j])
  BY <1>6, <1>7, <1>8
<1>14. \A k \in Jobs : k # j => /\ events'[k] = events[k] /\ got'[k] = got[k]
                                /\ answer'[k] = answer[k] /\ endpoint'[k] = endpoint[k]
  BY <1>6, <1>7
<1>15. Sent(j)' = Sent(j)
  <2>1. PICK tail \in Text : tail = Spoken(rest) BY SpokenType
  <2>2. Sent(j) = g \o (said \o tail) BY <1>1, <1>4, <1>5, <1>9, <2>1, SentIs
  <2>3. Sent(j)' = (g \o said) \o tail BY <1>10, <1>11, <2>1, SentIs
  <2>4. (g \o said) \o tail = g \o (said \o tail)
    <3>1. g \in Text /\ said \in Text /\ tail \in Text OBVIOUS
    <3> QED BY ONLY <3>1, TextsJoin
  <2> QED BY <2>2, <2>3, <2>4
<1>16. PICK sent : sent = Sent(j) OBVIOUS
<1>17. Stream(j) BY DEF Streams
<1>18. \A i \in DOMAIN es :
         /\ es[i].kind = "end" => i = Len(es)
         /\ es[i].kind = "completed" => outcome[j] = "completed" /\ Tells(sent, es[i].text)
  BY <1>1, <1>16, <1>17 DEF Stream
<1>19. Len(es) \in Nat /\ DOMAIN es = 1..Len(es) /\ Len(rest) \in Nat /\ DOMAIN rest = 1..Len(rest)
  BY LenProperties
<1>20. outcome[j] = "none" => /\ answer[j] = NoText
                              /\ \A i \in DOMAIN es : es[i].kind = "delta"
  BY <1>1, <1>17 DEF Stream
<1>21. Stream(j)'
  <2>1. ASSUME outcome[j] = "none"
        PROVE  /\ answer'[j] = NoText /\ endpoint'[j] # "answered"
               /\ \A i \in DOMAIN rest : rest[i].kind = "delta"
               /\ j = current /\ Showing
    <3>1. e.kind = "delta" BY <1>2, <1>4, <1>20, <2>1
    <3>2. j = current /\ Showing BY <1>1, <1>17, <2>1 DEF Stream
    <3> QED BY <1>4, <1>6, <1>13, <1>20, <2>1, <3>1, <3>2
  <2>2. ASSUME NEW i \in DOMAIN rest
        PROVE  /\ rest[i].kind = "end" => i = Len(rest)
               /\ rest[i].kind = "completed" => outcome[j] = "completed" /\ Tells(sent, rest[i].text)
    <3>1. rest[i] = es[i + 1] /\ i + 1 \in DOMAIN es BY <1>4
    <3>2. rest[i].kind = "end" => i + 1 = Len(es) BY <1>18, <3>1
    <3>3. i + 1 = Len(es) => i = Len(rest) BY <1>4, <1>19
    <3> QED BY <1>18, <3>1, <3>2, <3>3
  <2>3. answer'[j] # NoText => outcome[j] = "completed" /\ Tells(sent, answer'[j])
    <3>1. CASE e.kind = "completed" BY <1>2, <1>4, <1>13, <1>18, <3>1
    <3>2. CASE e.kind # "completed" BY <1>13, <1>16, <1>17, <3>2 DEF Stream
    <3> QED BY <3>1, <3>2
  <2>4. endpoint'[j] = "answered" => rest = << >>
    <3>1. SUFFICES ASSUME endpoint'[j] = "answered" PROVE rest = << >> OBVIOUS
    <3>2. e.kind = "end" BY <1>6, <1>13, <3>1
    <3>3. Len(es) = 1 BY <1>2, <1>4, <1>18, <3>2
    <3>4. Len(rest) = 0 BY <1>4, <3>3
    <3> QED BY <3>4, EmptySeq
  <2>5. (Sent(j))' = sent /\ outcome' = outcome /\ events'[j] = rest BY <1>6, <1>11, <1>15, <1>16
  <2>6. (j = current /\ Showing) => (j = current /\ Showing)' BY <1>6 DEF Showing
  <2>7. (outcome[j] = "none" =>
            /\ answer[j] = NoText /\ endpoint[j] # "answered"
            /\ \A i \in DOMAIN events[j] : events[j][i].kind = "delta")'
    BY <2>1, <2>5
  <2>8. ~(outcome[j] = "none" /\ ~(j = current /\ Showing))' BY <2>1, <2>5, <2>6
  <2>9. (\A i \in DOMAIN events[j] :
           /\ events[j][i].kind = "end" => i = Len(events[j])
           /\ events[j][i].kind = "completed" =>
                outcome[j] = "completed" /\ Tells(Sent(j), events[j][i].text))'
    BY <2>2, <2>5 DEF Tells, Begins, Alike
  <2>10. (answer[j] # NoText => outcome[j] = "completed" /\ Tells(Sent(j), answer[j]))'
    BY <2>3, <2>5 DEF Tells, Begins, Alike
  <2>11. (endpoint[j] = "answered" => events[j] = << >>)' BY <2>4, <2>5
  <2> QED BY <2>7, <2>8, <2>9, <2>10, <2>11 DEF Stream
<1>22. ASSUME NEW k \in Jobs, k # j PROVE Stream(k)'
  <2>1. Stream(k) BY DEF Streams
  <2>2. k = current /\ Showing => k = current' /\ Showing' BY <1>6 DEF Showing
  <2> QED BY <1>6, <1>14, <1>22, <2>1, <2>2, StreamStays
<1>23. Streams' BY <1>11, <1>12, <1>13, <1>21, <1>22 DEF Streams
<1>24. Running'
  <2>1. current \in Jobs => Sent(current)' = Sent(current)
    <3>1. \A k \in Jobs : Sent(k)' = Sent(k)
      <4>1. SUFFICES ASSUME NEW k \in Jobs, k # j PROVE Sent(k)' = Sent(k) BY <1>15
      <4> QED BY <1>14, <4>1, SentIs
    <3>2. PICK c : c = current /\ c = current' BY <1>6
    <3>3. Sent(current)' = Sent(c)' BY <3>2 DEF Sent
    <3> QED BY <3>1, <3>2, <3>3
  <2>2. Showing => Sent(current)' = Sent(current) BY <2>1 DEF IInv, Taken, Showing
  <2>3. (Sent(current))' = Sent(current)' OBVIOUS
  <2> QED BY <1>6, <2>2 DEF Running, Showing, Tells, Begins, Alike
<1> QED BY <1>23, <1>24

\* The server starts with nothing queued, shown or said.
LEMMA TextInit == Init => IInv /\ TextInv
<1> SUFFICES ASSUME Init PROVE IInv /\ TextInv
  OBVIOUS
<1>1. Nobody \notin Jobs BY ServingAssumption DEF ServingAssumption
<1>2. IInv BY DEF Init, IInv, Typed, Taken, ClosedIsCancelled
<1>3. pending = << >> /\ current = Nobody /\ worker = "waiting" /\ gen = NoGen
      /\ outcome = [j \in Jobs |-> "none"] /\ counts.completed = 0
  BY DEF Init
<1>4. endpoint \in [Jobs -> {"new", "absent"}]
  <2>1. PICK come \in Arrivals : endpoint = [j \in Jobs |-> IF j \in come THEN "new" ELSE "absent"]
    BY DEF Init
  <2> QED BY <2>1
<1>5. Queued
  <2>1. DOMAIN pending = {} /\ ToSet(pending) = {} BY <1>3 DEF ToSet
  <2> QED BY <1>1, <1>3, <1>4, <2>1 DEF Queued, Places, Working, IsInjective
<1>6. Counted
  <2>1. Over = {} BY <1>3 DEF Over
  <2> QED BY <1>3, <2>1, FS_EmptySet DEF Counted
<1>7. Streams
  <2>1. << >> \in Seq(Event) /\ << >> \in Text /\ \A i \in DOMAIN << >> : FALSE BY DEF Text
  <2>2. events = [j \in Jobs |-> << >>] /\ got = [j \in Jobs |-> << >>] /\ answer = [j \in Jobs |-> NoText]
    BY DEF Init
  <2>3. ASSUME NEW j \in Jobs PROVE Stream(j) BY <1>3, <1>4, <2>1, <2>2 DEF Stream
  <2> QED BY <2>1, <2>2, <2>3 DEF Streams
<1>8. Running
  <2>1. << >> \in Seq(Token) /\ << >> \in Text BY DEF Text
  <2> QED BY <1>3, <2>1 DEF Running, NoGen, Showing
<1> QED BY <1>2, <1>5, <1>6, <1>7, <1>8 DEF TextInv

\* Every step keeps the invariant of the text.
LEMMA TextStep == ASSUME IInv, TextInv, [Next]_vars PROVE TextInv'
<1>1. Queued /\ Counted /\ Streams /\ Running BY DEF TextInv
<1>2. Queued' BY <1>1, QueuedStep
<1>3. Counted' BY <1>1, CountedStep
<1>4. Streams' /\ Running'
  <2>1. CASE \/ TakeJob \/ Leave \/ Retire \/ Close \/ StopServer \/ UNCHANGED vars
             \/ \E j \in Jobs : Submit(j) \/ HangUp(j) \/ Drop(j) \/ StartStream(j) \/ Watch(j)
    BY <1>1, <2>1, QuietSteps
  <2>2. CASE Prepare BY <1>1, <2>2, PrepareStep
  <2>3. CASE Abandoned \/ Refused \/ PutCancelled \/ GenerationFails \/ Finished
    BY <1>1, <2>3, ConcludeSteps
  <2>4. CASE PutTokens \/ EndGeneration BY <1>1, <2>4, GenerationSteps
  <2>5. ASSUME NEW j \in Jobs, Deliver(j) PROVE Streams' /\ Running' BY <1>1, <2>5, DeliverStep
  <2> QED BY <2>1, <2>2, <2>3, <2>4, <2>5 DEF Next, Advance, Loop
<1> QED BY <1>2, <1>3, <1>4 DEF TextInv

LEMMA TextAlways == Spec => [](IInv /\ TextInv)
<1>1. Init => IInv /\ TextInv BY TextInit
<1>2. IInv /\ TextInv /\ [Next]_vars => (IInv /\ TextInv)' BY Step, TextStep
<1> QED BY <1>1, <1>2, PTL DEF Spec

\* Nothing that has been sent is taken back (server/app.py:201-206): neither a token that makes a
\* character of two halves nor a stop sequence, begun in one pass and complete in another, changes what
\* the client of the running job has.
THEOREM SentStays == Spec => []NothingTakenBack
<1>1. IInv /\ TextInv => NothingTakenBack
  <2> SUFFICES ASSUME IInv, TextInv, Showing PROVE IsPrefix(Sent(current), gen.text)
    BY DEF NothingTakenBack, Showing
  <2>1. current \in Jobs /\ Streams BY DEF IInv, Taken, Showing, TextInv
  <2>2. gen.text \in Text /\ Begins(Sent(current), gen.text) BY DEF TextInv, Running
  <2> QED BY <2>1, <2>2, SentType, BeginsIsPrefix
<1> QED BY <1>1, TextAlways, PTL

\* A client that reads the stream and one that reads the reply are told the same, whatever is cut,
\* held back or flushed at the end (server/app.py:122-285).
THEOREM StreamsAgree == Spec => []StreamIsAnswer
<1>1. IInv /\ TextInv => StreamIsAnswer
  <2> SUFFICES ASSUME IInv, TextInv, NEW j \in Jobs, endpoint[j] = "answered", answer[j] # NoText
               PROVE  /\ outcome[j] = "completed" /\ IsPrefix(got[j], answer[j])
                      /\ \A n \in (Len(got[j]) + 1)..Len(answer[j]) : answer[j][n] = Bad
    BY DEF StreamIsAnswer
  <2>1. Streams /\ Stream(j) BY DEF TextInv, Streams
  <2>2. outcome[j] = "completed" /\ Tells(Sent(j), answer[j]) /\ events[j] = << >> BY <2>1 DEF Stream
  <2>3. PICK g \in Text : g = got[j] BY <2>1, SentType
  <2>4. answer[j] \in Text BY <2>1 DEF Streams
  <2>5. Sent(j) = g
    <3>1. Sent(j) = g \o << >> BY <2>2, <2>3, SentIs, SpokenNone
    <3> QED BY <3>1, ConcatEmptySeq DEF Text
  <2>6. Begins(g, answer[j]) /\ \A n \in (Len(g) + 1)..Len(answer[j]) : answer[j][n] = Bad
    BY <2>2, <2>5 DEF Tells
  <2> QED BY <2>2, <2>3, <2>4, <2>6, BeginsIsPrefix
<1> QED BY <1>1, TextAlways, PTL

\* A job is queued once, ends once and is counted once, and its generation stays within its budget
\* (server/app.py:400-432).
THEOREM JobsEndOnce == Spec => []TypeOK
<1>1. IInv /\ TextInv => TypeOK
  <2> SUFFICES ASSUME IInv, TextInv PROVE TypeOK
    OBVIOUS
  <2>1. Typed /\ Queued /\ Counted /\ Running BY DEF IInv, TextInv
  <2>2. gen.emitted \in Nat /\ gen.text \in Text /\ gen.emitted <= Len(gen.text) BY <2>1 DEF Running
  <2>3. gen.emitted \in 0..Len(gen.text) BY <2>2, LenProperties DEF Text
  <2>4. ASSUME current # Nobody PROVE Len(gen.ids) <= Budget[current]
    <3>1. CASE Showing BY <2>1, <3>1 DEF Running
    <3>2. CASE ~Showing
      <4>1. current \in Jobs BY <2>1, <2>4 DEF Typed
      <4>2. Budget[current] \in Nat BY <4>1, ServingAssumption DEF ServingAssumption
      <4>3. gen.ids = << >> BY <2>1, <3>2 DEF Running, NoGen
      <4> QED BY <4>2, <4>3
    <3> QED BY <3>1, <3>2
  <2>5. \A j \in Jobs : outcome[j] \in {"none", "cancelled", "failed", "completed"} BY <2>1 DEF Typed
  <2>6. counts.completed = Cardinality({j \in Jobs : outcome[j] # "none" /\ j # current})
    BY <2>1 DEF Counted, Over
  <2> QED BY <2>1, <2>3, <2>4, <2>5, <2>6 DEF TypeOK, Queued
<1> QED BY <1>1, TextAlways, PTL

-----------------------------------------------------------------------------
(* The calls in a reply: where the parser finds things.                    *)

\* A symbol is a string; that these two are is not known to the prover.
Symbol == STRING \cup {"{", "}"}
Symbols == Seq(Symbol)

LEMMA OneIn == ASSUME NEW S, NEW x \in S PROVE <<x>> \in Seq(S) /\ <<>> \in Seq(S)
OBVIOUS

LEMMA TwoIn == ASSUME NEW S, NEW x \in S, NEW y \in S PROVE <<x, y>> \in Seq(S)
OBVIOUS

LEMMA WrittenType == ASSUME NEW s \in Seq(STRING) PROVE s \in Symbols
<1>1. Len(s) \in Nat /\ s = [i \in 1..Len(s) |-> s[i]] /\ \A i \in 1..Len(s) : s[i] \in STRING OBVIOUS
<1>2. \A i \in 1..Len(s) : s[i] \in Symbol BY <1>1 DEF Symbol
<1>3. s \in [1..Len(s) -> Symbol] BY <1>1, <1>2
<1> QED BY <1>1, <1>3 DEF Symbols

\* The least of a set of places is one of them, and none is before it.
LEMMA EarliestIs ==
  ASSUME NEW S \in SUBSET Nat, IsFiniteSet(S)
  PROVE  /\ Earliest(S) \in Nat
         /\ S = {} => Earliest(S) = None
         /\ S # {} => Earliest(S) \in S /\ \A x \in S : Earliest(S) <= x
<1>1. CASE S = {} BY <1>1 DEF Earliest, None
<1>2. CASE S # {}
  <2>1. \E m \in S : \A x \in S : m <= x BY <1>2, HasLeast
  <2>2. Min(S) \in S /\ \A x \in S : Min(S) <= x BY <2>1 DEF Min
  <2> QED BY <1>2, <2>2 DEF Earliest
<1> QED BY <1>1, <1>2

LEMMA LeastIs ==
  ASSUME NEW S \in SUBSET Int, IsFiniteSet(S), S # {}
  PROVE  Min(S) \in S /\ \A x \in S : Min(S) <= x
<1>1. \E m \in S : \A x \in S : m <= x BY HasLeast
<1> QED BY <1>1 DEF Min

LEMMA GreatestIs ==
  ASSUME NEW S \in SUBSET Int, IsFiniteSet(S), S # {}
  PROVE  Max(S) \in S /\ \A x \in S : Max(S) >= x
<1>1. \E m \in S : \A x \in S : m >= x BY HasGreatest
<1> QED BY <1>1 DEF Max

\* Places of a text.
LEMMA PlacesFinite ==
  ASSUME NEW a \in Nat, NEW b \in Int, NEW S, \A x \in S : x \in Int /\ a <= x /\ x <= b
  PROVE  IsFiniteSet(S) /\ S \in SUBSET Nat
<1>1. IsFiniteSet(a..b) /\ S \subseteq a..b BY FS_Interval
<1>2. IsFiniteSet(S) BY <1>1, FS_Subset
<1> QED BY <1>2

LEMMA PairFinite == ASSUME NEW a, NEW b PROVE IsFiniteSet({a, b})
<1>1. IsFiniteSet({a}) BY FS_Singleton
<1>2. IsFiniteSet({a} \cup {b}) BY <1>1, FS_AddElement
<1>3. {a, b} = {a} \cup {b} OBVIOUS
<1> QED BY <1>2, <1>3

LEMMA OneOfTwo ==
  ASSUME NEW a \in Int, NEW b \in Int
  PROVE  /\ Max({a, b}) \in {a, b} /\ Max({a, b}) >= a /\ Max({a, b}) >= b
         /\ Min({a, b}) \in {a, b} /\ Min({a, b}) <= a /\ Min({a, b}) <= b
<1>1. IsFiniteSet({a, b}) BY PairFinite
<1>2. {a, b} \in SUBSET Int /\ {a, b} # {} OBVIOUS
<1>3. Max({a, b}) \in {a, b} /\ \A x \in {a, b} : Max({a, b}) >= x BY <1>1, <1>2, GreatestIs
<1>4. Min({a, b}) \in {a, b} /\ \A x \in {a, b} : Min({a, b}) <= x BY <1>1, <1>2, LeastIs
<1> QED BY <1>3, <1>4

\* Where a word is found: at or after the place one looks from, and within the text.
LEMMA FindType ==
  ASSUME NEW t \in Symbols, NEW w, NEW from \in Nat
  PROVE  Find(t, w, from) \in Nat /\ (Find(t, w, from) # None => from <= Find(t, w, from) /\ Find(t, w, from) <= Len(t))
<1> DEFINE S == {i \in from..Len(t) : IsAt(t, w, i)}
<1>1. Len(t) \in Nat BY LenProperties DEF Symbols
<1>2. \A x \in S : x \in Int /\ from <= x /\ x <= Len(t) BY <1>1
<1>3. IsFiniteSet(S) /\ S \in SUBSET Nat
  <2> HIDE DEF S
  <2> QED BY <1>1, <1>2, PlacesFinite
<1>4. Find(t, w, from) = Earliest(S) BY DEF Find
<1> HIDE DEF S
<1> QED BY <1>1, <1>2, <1>3, <1>4, EarliestIs

\* What is found is there.
LEMMA FindOne ==
  ASSUME NEW t \in Symbols, NEW c, NEW from \in Nat, Find(t, <<c>>, from) # None
  PROVE  t[Find(t, <<c>>, from)] = c
<1> DEFINE S == {i \in from..Len(t) : IsAt(t, <<c>>, i)}
<1>1. Len(t) \in Nat BY LenProperties DEF Symbols
<1>2. \A x \in S : x \in Int /\ from <= x /\ x <= Len(t) BY <1>1
<1>3. Find(t, <<c>>, from) = Earliest(S) BY DEF Find
<1>4. \A x \in S : t[x] = c
  <2>1. SUFFICES ASSUME NEW x \in S PROVE t[x] = c OBVIOUS
  <2>2. x \in Int BY <1>1
  <2>3. 1 \in DOMAIN <<c>> /\ <<c>>[1] = c /\ x + 1 - 1 = x BY <2>2
  <2> QED BY <2>3 DEF IsAt
<1> HIDE DEF S
<1>5. IsFiniteSet(S) /\ S \in SUBSET Nat BY <1>1, <1>2, PlacesFinite
<1>6. Earliest(S) \in S BY <1>3, <1>5, EarliestIs
<1> QED BY <1>3, <1>4, <1>6

LEMMA SkipType ==
  ASSUME NEW t \in Symbols, NEW from \in Nat \ {0}, NEW chars
  PROVE  Skip(t, from, chars) \in Nat \ {0} /\ Skip(t, from, chars) >= from
<1> DEFINE S == {i \in from..Len(t) : t[i] \notin chars}
           beyond == IF from > Len(t) THEN from ELSE Len(t) + 1
<1>1. Len(t) \in Nat BY LenProperties DEF Symbols
<1>2. \A x \in S : x \in Int /\ from <= x /\ x <= Len(t) BY <1>1
<1>3. IsFiniteSet(S) /\ S \in SUBSET Nat
  <2> HIDE DEF S
  <2> QED BY <1>1, <1>2, PlacesFinite
<1>4. beyond \in Nat \ {0} /\ beyond >= from BY <1>1
<1>5. Skip(t, from, chars) = Min(S \cup {beyond}) BY DEF Skip
<1> HIDE DEF S, beyond
<1>6. IsFiniteSet(S \cup {beyond}) BY <1>3, FS_AddElement
<1>7. S \cup {beyond} \in SUBSET Int /\ S \cup {beyond} # {} BY <1>3, <1>4
<1>8. Min(S \cup {beyond}) \in S \cup {beyond} BY <1>6, <1>7, LeastIs
<1>9. PICK m : m = Skip(t, from, chars) OBVIOUS
<1>10. m \in S \/ m = beyond BY <1>5, <1>8, <1>9
<1>11. m \in Nat \ {0} /\ m >= from BY <1>1, <1>2, <1>4, <1>10
<1> QED BY <1>9, <1>11

\* A part of a text is a text.
LEMMA FromToType ==
  ASSUME NEW t \in Symbols, NEW a \in Nat \ {0}, NEW b \in Nat
  PROVE  /\ FromTo(t, a, b) \in Symbols
         /\ b <= Len(t) + 1 /\ a <= b => /\ Len(FromTo(t, a, b)) = b - a
                                         /\ \A i \in 1..(b - a) : FromTo(t, a, b)[i] = t[a + i - 1]
<1> DEFINE S == {b - 1, Len(t)}
<1>1. Len(t) \in Nat BY LenProperties DEF Symbols
<1>2. S \in SUBSET Int /\ S # {} BY <1>1
<1>3. IsFiniteSet(S) BY PairFinite
<1> HIDE DEF S
<1>4. PICK c : c = Min(S) OBVIOUS
<1>5. c \in S /\ \A x \in S : c <= x BY <1>2, <1>3, <1>4, LeastIs
<1>6. c \in Int /\ c <= Len(t) /\ (b <= Len(t) + 1 => c = b - 1) BY <1>1, <1>5 DEF S
<1>7. FromTo(t, a, b) = SubSeq(t, a, c) BY <1>4 DEF FromTo, S
<1>8. \A i \in a..c : t[i] \in Symbol BY <1>1, <1>6, ElementOfSeq DEF Symbols
<1>9. SubSeq(t, a, c) \in Seq(Symbol) BY <1>6, <1>8, SubSeqProperties
<1>10. ASSUME b <= Len(t) + 1, a <= b
       PROVE  /\ Len(SubSeq(t, a, c)) = b - a
              /\ \A i \in 1..(b - a) : SubSeq(t, a, c)[i] = t[a + i - 1]
  <2>1. c = b - 1 BY <1>6, <1>10
  <2> QED BY <1>8, <1>10, <2>1, SubSeqProperties
<1> QED BY <1>7, <1>9, <1>10 DEF Symbols

-----------------------------------------------------------------------------
(* Where a value ends.  What has been read of a text does not change when   *)
(* more of it comes.                                                        *)

Opened(t, start) == Brackets(t, start, Quotes(t, start), Opening)
Closed(t, start) == Brackets(t, start, Quotes(t, start), Closing)
Commas(t, start) == Brackets(t, start, Quotes(t, start), {","})
DepthOf(t, start, i) == DepthAt(Opened(t, start), Closed(t, start), i)
LastOf(t, start) ==
  {i \in Closed(t, start) : DepthOf(t, start, i) = 1}
  \cup {i \in Quotes(t, start) : InString(Quotes(t, start), i) /\ DepthOf(t, start, i) = 0}
BeyondOf(t, start) == {i \in Closed(t, start) \cup Commas(t, start) : DepthOf(t, start, i) = 0}
EndOf(t, start) == Earliest(LastOf(t, start) \cup BeyondOf(t, start))

LEMMA SpanIs ==
  ASSUME NEW t, NEW start
  PROVE  SpanEnd(t, start) =
           IF EndOf(t, start) = None THEN None
           ELSE IF EndOf(t, start) \in BeyondOf(t, start) THEN EndOf(t, start) ELSE EndOf(t, start) + 1
BY DEF SpanEnd, EndOf, LastOf, BeyondOf, DepthOf, Opened, Closed, Commas

\* Everything a span is found by is a place from its start on.
LEMMA SpanPlaces ==
  ASSUME NEW t, NEW start
  PROVE  \A i \in LastOf(t, start) \cup BeyondOf(t, start) :
           i \in start..Len(t) /\ (t[i] = "q" \/ t[i] \in Closing \/ t[i] \in {","})
BY DEF LastOf, BeyondOf, Closed, Commas, Brackets, Quotes

LEMMA EndType ==
  ASSUME NEW t \in Symbols, NEW start \in Nat \ {0}
  PROVE  LET S == LastOf(t, start) \cup BeyondOf(t, start)
         IN  /\ EndOf(t, start) \in Nat
             /\ S = {} => EndOf(t, start) = None
             /\ S # {} => EndOf(t, start) \in S /\ \A x \in S : EndOf(t, start) <= x
<1> DEFINE S == LastOf(t, start) \cup BeyondOf(t, start)
<1>1. Len(t) \in Nat BY LenProperties DEF Symbols
<1>2. \A x \in S : x \in start..Len(t) BY SpanPlaces
<1>3. EndOf(t, start) = Earliest(S) BY DEF EndOf
<1> HIDE DEF S
<1>6. \A x \in S : x \in Int /\ start <= x /\ x <= Len(t) BY <1>1, <1>2
<1>4. IsFiniteSet(S) /\ S \in SUBSET Nat BY <1>1, <1>6, PlacesFinite
<1>5. /\ EndOf(t, start) \in Nat
      /\ S = {} => EndOf(t, start) = None
      /\ S # {} => EndOf(t, start) \in S /\ \A x \in S : EndOf(t, start) <= x
  BY <1>3, <1>4, EarliestIs
<1> QED BY <1>5 DEF S

LEMMA SpanType ==
  ASSUME NEW t \in Symbols, NEW start \in Nat \ {0}
  PROVE  /\ SpanEnd(t, start) \in Nat
         /\ SpanEnd(t, start) # None => start <= SpanEnd(t, start) /\ SpanEnd(t, start) <= Len(t) + 1
         /\ SpanEnd(t, start) # None /\ t[start] = "{" => start < SpanEnd(t, start)
<1> DEFINE S == LastOf(t, start) \cup BeyondOf(t, start)
           e == EndOf(t, start)
<1>1. Len(t) \in Nat BY LenProperties DEF Symbols
<1>2. e \in Nat /\ (S = {} => e = None) /\ (S # {} => e \in S) BY EndType
<1>3. ASSUME e # None
      PROVE  e \in start..Len(t) /\ (t[e] = "q" \/ t[e] \in Closing \/ t[e] \in {","})
  BY <1>2, <1>3, SpanPlaces
<1>4. ASSUME e # None, t[start] = "{" PROVE start # e BY <1>3, <1>4 DEF Closing
<1>5. SpanEnd(t, start) = IF e = None THEN None ELSE IF e \in BeyondOf(t, start) THEN e ELSE e + 1
  BY SpanIs
<1> HIDE DEF e, S
<1>6. CASE e = None BY <1>5, <1>6 DEF None
<1>7. CASE e # None
  <2>1. PICK s : s = SpanEnd(t, start) OBVIOUS
  <2>2. s \in {e, e + 1} BY <1>5, <1>7, <2>1
  <2>3. start <= e /\ e <= Len(t)
    <3>1. e \in start..Len(t) BY <1>3, <1>7
    <3> QED BY <1>1, <3>1
  <2>4. s \in Nat /\ start <= s /\ s <= Len(t) + 1 BY <1>1, <1>2, <2>2, <2>3
  <2>5. ASSUME t[start] = "{" PROVE start < s
    <3>1. start # e BY <1>4, <1>7, <2>5
    <3> QED BY <1>2, <2>2, <2>3, <3>1
  <2> QED BY <2>1, <2>4, <2>5
<1> QED BY <1>6, <1>7

\* A text, and more of it.
Grown(t, u) == Len(t) <= Len(u) /\ Alike(t, u, Len(t))

LEMMA EscapedStays ==
  ASSUME NEW t \in Symbols, NEW u \in Symbols, Grown(t, u), NEW start \in Nat \ {0}, NEW i \in start..Len(t)
  PROVE  Escaped(t, i, start) = Escaped(u, i, start)
<1>1. Len(t) \in Nat BY LenProperties DEF Symbols
<1>2. \A j \in start..(i - 1) : t[j] = u[j] BY <1>1 DEF Grown, Alike
<1>3. {j \in start..(i - 1) : t[j] # "bs"} = {j \in start..(i - 1) : u[j] # "bs"} BY <1>2
<1> QED BY <1>3 DEF Escaped

\* Those of some places that come before another.
Before(S, i) == {j \in S : j < i}

LEMMA QuotesStay ==
  ASSUME NEW t \in Symbols, NEW u \in Symbols, Grown(t, u), NEW start \in Nat \ {0}, NEW i \in start..Len(t)
  PROVE  /\ i \in Quotes(t, start) <=> i \in Quotes(u, start)
         /\ Before(Quotes(t, start), i) = Before(Quotes(u, start), i)
         /\ InString(Quotes(t, start), i) = InString(Quotes(u, start), i)
<1>1. Len(t) \in Nat /\ Len(u) \in Nat /\ Len(t) <= Len(u) BY LenProperties DEF Symbols, Grown
<1>2. ASSUME NEW j \in start..Len(t) PROVE j \in Quotes(t, start) <=> j \in Quotes(u, start)
  <2>1. t[j] = u[j] /\ j \in start..Len(u) BY <1>1 DEF Grown, Alike
  <2>2. Escaped(t, j, start) = Escaped(u, j, start) BY EscapedStays
  <2> QED BY <2>1, <2>2 DEF Quotes
<1>3. Before(Quotes(t, start), i) = Before(Quotes(u, start), i)
  <2>1. Quotes(t, start) \subseteq start..Len(t) /\ Quotes(u, start) \subseteq start..Len(u) BY DEF Quotes
  <2>2. \A j \in Quotes(u, start) : j < i => j \in start..Len(t) BY <1>1, <2>1
  <2> QED BY <1>2, <2>1, <2>2 DEF Before
<1>4. InString(Quotes(t, start), i) = InString(Quotes(u, start), i) BY <1>3 DEF InString, Before
<1> QED BY <1>2, <1>3, <1>4

LEMMA BracketsStay ==
  ASSUME NEW t \in Symbols, NEW u \in Symbols, Grown(t, u), NEW start \in Nat \ {0}, NEW i \in start..Len(t), NEW kind
  PROVE  /\ i \in Brackets(t, start, Quotes(t, start), kind) <=> i \in Brackets(u, start, Quotes(u, start), kind)
         /\ Before(Brackets(t, start, Quotes(t, start), kind), i) = Before(Brackets(u, start, Quotes(u, start), kind), i)
<1> DEFINE T == Brackets(t, start, Quotes(t, start), kind)
           U == Brackets(u, start, Quotes(u, start), kind)
<1>1. Len(t) \in Nat /\ Len(u) \in Nat /\ Len(t) <= Len(u) BY LenProperties DEF Symbols, Grown
<1>2. ASSUME NEW j \in start..Len(t) PROVE j \in T <=> j \in U
  <2>1. t[j] = u[j] /\ j \in start..Len(u) BY <1>1 DEF Grown, Alike
  <2>2. InString(Quotes(t, start), j) = InString(Quotes(u, start), j) BY QuotesStay
  <2> QED BY <2>1, <2>2 DEF Brackets
<1>3. T \subseteq start..Len(t) /\ U \subseteq start..Len(u) BY DEF Brackets
<1> HIDE DEF T, U
<1>4. \A j \in U : j < i => j \in start..Len(t) BY <1>1, <1>3
<1>5. Before(T, i) = Before(U, i) BY <1>2, <1>3, <1>4 DEF Before
<1> QED BY <1>2, <1>5 DEF T, U

LEMMA EndStays ==
  ASSUME NEW t \in Symbols, NEW u \in Symbols, Grown(t, u), NEW start \in Nat \ {0}, NEW i \in start..Len(t)
  PROVE  /\ i \in LastOf(t, start) <=> i \in LastOf(u, start)
         /\ i \in BeyondOf(t, start) <=> i \in BeyondOf(u, start)
<1>1. i \in Closed(t, start) <=> i \in Closed(u, start) BY BracketsStay DEF Closed
<1>2. i \in Commas(t, start) <=> i \in Commas(u, start) BY BracketsStay DEF Commas
<1>3. i \in Quotes(t, start) <=> i \in Quotes(u, start) BY QuotesStay
<1>4. InString(Quotes(t, start), i) = InString(Quotes(u, start), i) BY QuotesStay
<1>5. DepthOf(t, start, i) = DepthOf(u, start, i)
  <2>1. Before(Opened(t, start), i) = Before(Opened(u, start), i) BY BracketsStay DEF Opened
  <2>2. Before(Closed(t, start), i) = Before(Closed(u, start), i) BY BracketsStay DEF Closed
  <2> QED BY <2>1, <2>2 DEF DepthOf, DepthAt, Before
<1> QED BY <1>1, <1>2, <1>3, <1>4, <1>5 DEF LastOf, BeyondOf

\* The end that was found stays; one that was not is found after what there was.
LEMMA SpanStays ==
  ASSUME NEW t \in Symbols, NEW u \in Symbols, Grown(t, u), NEW start \in Nat \ {0}
  PROVE  IF SpanEnd(t, start) # None THEN SpanEnd(u, start) = SpanEnd(t, start)
         ELSE SpanEnd(u, start) # None => SpanEnd(u, start) > Len(t)
<1> DEFINE T == LastOf(t, start) \cup BeyondOf(t, start)
           U == LastOf(u, start) \cup BeyondOf(u, start)
           d == EndOf(t, start)
           e == EndOf(u, start)
<1>1. Len(t) \in Nat /\ Len(u) \in Nat /\ Len(t) <= Len(u) BY LenProperties DEF Symbols, Grown
<1>2. T \subseteq start..Len(t) /\ U \subseteq start..Len(u) BY SpanPlaces
<1>3. d \in Nat /\ (T = {} => d = None) /\ (T # {} => d \in T /\ \A x \in T : d <= x) BY EndType
<1>4. e \in Nat /\ (U = {} => e = None) /\ (U # {} => e \in U /\ \A x \in U : e <= x) BY EndType
<1>5. \A i \in start..Len(t) : (i \in T <=> i \in U) /\ (i \in BeyondOf(t, start) <=> i \in BeyondOf(u, start))
  BY EndStays
<1>6. SpanEnd(t, start) = IF d = None THEN None ELSE IF d \in BeyondOf(t, start) THEN d ELSE d + 1 BY SpanIs
<1>7. SpanEnd(u, start) = IF e = None THEN None ELSE IF e \in BeyondOf(u, start) THEN e ELSE e + 1 BY SpanIs
<1> HIDE DEF T, U, d, e
<1>8. CASE d # None
  <2>1. d \in T /\ d \in start..Len(t) /\ d \in U BY <1>2, <1>3, <1>5, <1>8
  <2>2. e \in U /\ e <= d /\ e \in start..Len(t) BY <1>1, <1>2, <1>3, <1>4, <2>1
  <2>3. e \in T /\ d <= e BY <1>3, <1>5, <2>2
  <2>4. e = d BY <1>3, <1>4, <2>2, <2>3
  <2>5. SpanEnd(u, start) = SpanEnd(t, start) BY <1>5, <1>6, <1>7, <2>1, <2>4
  <2>6. SpanEnd(t, start) # None BY <1>3, <1>6, <1>8 DEF None
  <2> QED BY <2>5, <2>6
<1>9. CASE d = None
  <2>1. T = {} BY <1>2, <1>3, <1>9 DEF None
  <2>2. ASSUME SpanEnd(u, start) # None PROVE SpanEnd(u, start) > Len(t)
    <3>1. e # None BY <1>7, <2>2
    <3>2. e \in U BY <1>4, <3>1
    <3>3. e > Len(t) BY <1>1, <1>2, <1>5, <2>1, <3>2
    <3>4. SpanEnd(u, start) \in {e, e + 1} BY <1>7, <3>1
    <3> QED BY <1>1, <1>4, <3>3, <3>4
  <2>3. SpanEnd(t, start) = None BY <1>6, <1>9
  <2> QED BY <2>2, <2>3
<1> QED BY <1>8, <1>9

-----------------------------------------------------------------------------
(* What has come of a value, which only grows.                              *)

Shown(t, from) == FromTo(t, from, IF SpanEnd(t, from) = None THEN Len(t) + 1 ELSE SpanEnd(t, from))

LEMMA ShownIs ==
  ASSUME NEW t \in Symbols, NEW from \in 1..Len(t)
  PROVE  LET to == IF SpanEnd(t, from) = None THEN Len(t) + 1 ELSE SpanEnd(t, from)
         IN  /\ to \in from..(Len(t) + 1) /\ Shown(t, from) \in Symbols /\ Len(Shown(t, from)) = to - from
             /\ \A i \in 1..(to - from) : Shown(t, from)[i] = t[from + i - 1]
<1> DEFINE to == IF SpanEnd(t, from) = None THEN Len(t) + 1 ELSE SpanEnd(t, from)
<1>1. Len(t) \in Nat BY LenProperties DEF Symbols
<1>2. from \in Nat \ {0} /\ from <= Len(t) BY <1>1
<1>3. SpanEnd(t, from) \in Nat
      /\ (SpanEnd(t, from) # None => from <= SpanEnd(t, from) /\ SpanEnd(t, from) <= Len(t) + 1)
  BY <1>2, SpanType
<1>4. to \in Nat /\ from <= to /\ to <= Len(t) + 1 BY <1>1, <1>2, <1>3
<1>5. Shown(t, from) = FromTo(t, from, to) BY DEF Shown
<1> HIDE DEF to
<1>6. /\ Shown(t, from) \in Symbols /\ Len(Shown(t, from)) = to - from
      /\ \A i \in 1..(to - from) : Shown(t, from)[i] = t[from + i - 1]
  BY <1>2, <1>4, <1>5, FromToType
<1>7. to \in from..(Len(t) + 1) BY <1>1, <1>2, <1>4
<1> QED BY <1>6, <1>7 DEF to

LEMMA ShownGrows ==
  ASSUME NEW t \in Symbols, NEW u \in Symbols, Grown(t, u), NEW from \in 1..Len(t)
  PROVE  Grown(Shown(t, from), Shown(u, from))
<1> DEFINE to == IF SpanEnd(t, from) = None THEN Len(t) + 1 ELSE SpanEnd(t, from)
           end == IF SpanEnd(u, from) = None THEN Len(u) + 1 ELSE SpanEnd(u, from)
<1>1. Len(t) \in Nat /\ Len(u) \in Nat /\ Len(t) <= Len(u) BY LenProperties DEF Symbols, Grown
<1>2. from \in 1..Len(u) /\ from \in Nat \ {0} /\ from \in Int BY <1>1
<1>3. to \in from..(Len(t) + 1) /\ Len(Shown(t, from)) = to - from
      /\ \A i \in 1..(to - from) : Shown(t, from)[i] = t[from + i - 1]
  BY ShownIs
<1>4. end \in from..(Len(u) + 1) /\ Len(Shown(u, from)) = end - from
      /\ \A i \in 1..(end - from) : Shown(u, from)[i] = u[from + i - 1]
  BY <1>2, ShownIs
<1>5. SpanEnd(t, from) \in Nat /\ SpanEnd(u, from) \in Nat BY <1>2, SpanType
<1>6. to <= end
  <2>1. CASE SpanEnd(t, from) # None
    <3>1. SpanEnd(u, from) = SpanEnd(t, from) BY <1>2, <2>1, SpanStays
    <3> QED BY <1>5, <2>1, <3>1
  <2>2. CASE SpanEnd(t, from) = None
    <3>1. SpanEnd(u, from) # None => SpanEnd(u, from) > Len(t) BY <1>2, <2>2, SpanStays
    <3> QED BY <1>1, <1>5, <2>2, <3>1
  <2> QED BY <2>1, <2>2
<1> HIDE DEF to, end
<1>7. \A i \in 1..Len(t) : t[i] = u[i] BY DEF Grown, Alike
<1>8. to \in Int /\ from <= to /\ to <= Len(t) + 1 /\ end \in Int BY <1>1, <1>2, <1>3, <1>4
<1>9. ASSUME NEW i \in 1..(to - from) PROVE Shown(t, from)[i] = Shown(u, from)[i]
  <2>1. i \in 1..(end - from) /\ from + i - 1 \in 1..Len(t) BY <1>1, <1>2, <1>6, <1>8
  <2> QED BY <1>3, <1>4, <1>7, <2>1
<1>10. to - from <= end - from BY <1>2, <1>6, <1>8
<1> QED BY <1>3, <1>4, <1>9, <1>10 DEF Grown, Alike

\* Texts that begin alike have the same beginnings.
LEMMA SameBeginning ==
  ASSUME NEW t \in Symbols, NEW u \in Symbols, Grown(t, u), NEW n \in 0..Len(t)
  PROVE  SubSeq(t, 1, n) = SubSeq(u, 1, n)
<1>1. Len(t) \in Nat /\ Len(u) \in Nat /\ Len(t) <= Len(u) BY LenProperties DEF Symbols, Grown
<1>2. n \in Nat /\ n <= Len(t) /\ n \in Int BY <1>1
<1>3. \A i \in 1..n : t[i] = u[i] BY <1>1, <1>2 DEF Grown, Alike
<1>4. \A i \in 1..n : t[i] \in Symbol BY <1>1, <1>2, ElementOfSeq DEF Symbols
<1>5. \A i \in 1..n : u[i] \in Symbol BY <1>3, <1>4
<1> DEFINE a == SubSeq(t, 1, n)
           b == SubSeq(u, 1, n)
<1>6. a \in Seq(Symbol) /\ Len(a) = n /\ \A i \in 1..n : a[i] = t[i] BY <1>2, <1>4, SubSeqProperties
<1>7. b \in Seq(Symbol) /\ Len(b) = n /\ \A i \in 1..n : b[i] = u[i] BY <1>2, <1>5, SubSeqProperties
<1> HIDE DEF a, b
<1>8. a = b BY <1>3, <1>6, <1>7, SeqEqual
<1> QED BY <1>8 DEF a, b

-----------------------------------------------------------------------------
(* The name of a function, and what is looked for in a text.                *)

Names == Seq(Symbols)
Answers(t) ==
  {r \in [is : {"nothing", "pending", "found"}, content : Nat, json : Nat, name : Names] :
     r.is = "found" => r.json \in 1..Len(t)}

LEMMA NameAtType ==
  ASSUME NEW t \in Symbols, NEW from \in Nat \ {0}, NEW limit \in Nat
  PROVE  NameAt(t, from, limit) \in Names
<1> DEFINE close(v) == Earliest({j \in (v + 1)..(limit - 1) : t[j] = "q" /\ t[j - 1] # "bs"})
           named == {i \in from..(limit - 1) : /\ KeyAt(t, {"name"}, i, limit)
                                               /\ ValueOf(t, i) < limit /\ t[ValueOf(t, i)] = "q"
                                               /\ close(ValueOf(t, i)) # None}
           v == ValueOf(t, Min(named))
<1>1. NameAt(t, from, limit) = IF named = {} THEN <<>> ELSE <<FromTo(t, v + 1, close(v))>> BY DEF NameAt
<1>2. ASSUME NEW w \in Nat PROVE close(w) \in Nat
  <2> DEFINE S == {j \in (w + 1)..(limit - 1) : t[j] = "q" /\ t[j - 1] # "bs"}
  <2>1. \A x \in S : x \in Int /\ w + 1 <= x /\ x <= limit - 1 OBVIOUS
  <2>2. w + 1 \in Nat /\ limit - 1 \in Int OBVIOUS
  <2> HIDE DEF S
  <2>3. IsFiniteSet(S) /\ S \in SUBSET Nat BY <2>1, <2>2, PlacesFinite
  <2>4. Earliest(S) \in Nat BY <2>3, EarliestIs
  <2> QED BY <2>4 DEF S
<1>3. \A x \in named : x \in Int /\ from <= x /\ x <= limit - 1 OBVIOUS
<1> HIDE DEF close, named
<1>4. IsFiniteSet(named) /\ named \in SUBSET Nat BY <1>3, PlacesFinite
<1>5. ASSUME named # {} PROVE FromTo(t, v + 1, close(v)) \in Symbols
  <2>1. named \in SUBSET Int BY <1>4
  <2>2. Min(named) \in named BY <1>4, <1>5, <2>1, LeastIs
  <2>3. Min(named) \in Nat \ {0} BY <1>3, <2>2
  <2>4. Min(named) + 3 \in Nat \ {0} BY <2>3
  <2>5. Skip(t, Min(named) + 3, Blank) \in Nat \ {0} BY <2>4, SkipType
  <2>6. Skip(t, Min(named) + 3, Blank) + 1 \in Nat \ {0} BY <2>5
  <2>7. v \in Nat \ {0} BY <2>6, SkipType DEF ValueOf
  <2> HIDE DEF v
  <2>8. v + 1 \in Nat \ {0} /\ v \in Nat BY <2>7
  <2> QED BY <1>2, <2>8, FromToType
<1> HIDE DEF v
<1>6. CASE named = {} BY <1>1, <1>6 DEF Names
<1>7. CASE named # {} BY <1>1, <1>5, <1>7 DEF Names
<1> QED BY <1>6, <1>7

LEMMA ArgumentsAtType ==
  ASSUME NEW t \in Symbols, NEW from \in Nat \ {0}, NEW limit \in Nat
  PROVE  ArgumentsAt(t, from, limit) \in Nat
<1> DEFINE S == {i \in from..(limit - 1) : KeyAt(t, {"arguments", "parameters"}, i, limit)}
           at == Earliest(S)
<1>1. ArgumentsAt(t, from, limit) = IF at = None THEN None ELSE Min({ValueOf(t, at), limit}) BY DEF ArgumentsAt
<1>2. \A x \in S : x \in Int /\ from <= x /\ x <= limit - 1 OBVIOUS
<1> HIDE DEF S
<1>3. IsFiniteSet(S) /\ S \in SUBSET Nat BY <1>2, PlacesFinite
<1>4. at \in Nat /\ (S = {} => at = None) /\ (S # {} => at \in S) BY <1>3, EarliestIs
<1> HIDE DEF at
<1>5. CASE at = None BY <1>1, <1>5 DEF None
<1>6. CASE at # None
  <2>1. at \in Nat \ {0} BY <1>4, <1>6 DEF None
  <2>2. at + 3 \in Nat \ {0} BY <2>1
  <2>3. Skip(t, at + 3, Blank) \in Nat \ {0} BY <2>2, SkipType
  <2>4. Skip(t, at + 3, Blank) + 1 \in Nat \ {0} BY <2>3
  <2>5. ValueOf(t, at) \in Nat BY <2>4, SkipType DEF ValueOf
  <2>7. ValueOf(t, at) \in Int /\ limit \in Int BY <2>5
  <2>6. Min({ValueOf(t, at), limit}) \in {ValueOf(t, at), limit} BY <2>7, OneOfTwo
  <2> QED BY <1>1, <1>6, <2>5, <2>6
<1> QED BY <1>5, <1>6

-----------------------------------------------------------------------------
(* What a parser answers.                                                   *)

LEMMA AnAnswer ==
  ASSUME NEW t, NEW is \in {"nothing", "pending", "found"}, NEW c \in Nat, NEW j \in Nat, NEW n \in Names,
         is = "found" => j \in 1..Len(t)
  PROVE  Answer(is, c, j, n) \in Answers(t)
<1> DEFINE r == [is |-> is, content |-> c, json |-> j, name |-> n]
<1>1. r \in [is : {"nothing", "pending", "found"}, content : Nat, json : Nat, name : Names] OBVIOUS
<1>2. r.is = is /\ r.json = j /\ Answer(is, c, j, n) = r BY DEF Answer
<1> HIDE DEF r
<1>3. r.is = "found" => r.json \in 1..Len(t) BY <1>2
<1>4. r \in Answers(t) BY <1>1, <1>3 DEF Answers
<1> QED BY <1>2, <1>4

LEMMA PendingIs ==
  ASSUME NEW t, NEW c \in Nat
  PROVE  Nothing \in Answers(t) /\ Pending(c) \in Answers(t)
<1>1. << >> \in Names /\ None \in Nat BY DEF Names, None
<1>2. PICK is : is = "nothing" OBVIOUS
<1>3. PICK waits : waits = "pending" OBVIOUS
<1>4. Answer(is, None, None, << >>) \in Answers(t) BY <1>1, <1>2, AnAnswer
<1>5. Answer(waits, c, None, << >>) \in Answers(t) BY <1>1, <1>3, AnAnswer
<1> QED BY <1>2, <1>3, <1>4, <1>5 DEF Nothing, Pending

LEMMA FoundIs ==
  ASSUME NEW t, NEW c \in Nat, NEW j \in 1..Len(t)
  PROVE  Found(c, j) \in Answers(t)
<1>1. << >> \in Names /\ j \in Nat BY DEF Names
<1>2. PICK is : is = "found" OBVIOUS
<1>3. Answer(is, c, j, << >>) \in Answers(t) BY <1>1, <1>2, AnAnswer
<1> QED BY <1>2, <1>3 DEF Found

LEMMA FenceStartType ==
  ASSUME NEW t, NEW floor \in Nat, NEW brace \in Nat, floor <= brace
  PROVE  FenceStart(t, brace, floor) \in Nat
<1> DEFINE S == {i \in floor..brace : i = floor \/ t[i - 1] \notin Blank}
           text == Max(S)
           json == Append(Fence, "json")
<1>1. Len(json) = 4 /\ Len(Fence) = 3 BY DEF Fence
<1>2. floor \in S OBVIOUS
<1>3. \A x \in S : x \in Int /\ floor <= x /\ x <= brace OBVIOUS
<1>4. FenceStart(t, brace, floor) =
        IF text - Len(json) >= floor /\ IsAt(t, json, text - Len(json)) THEN text - 4
        ELSE IF text - Len(Fence) >= floor /\ IsAt(t, Fence, text - Len(Fence)) THEN text - 3 ELSE brace
  BY DEF FenceStart
<1> HIDE DEF S
<1>5. IsFiniteSet(S) /\ S \in SUBSET Nat BY <1>3, PlacesFinite
<1>6. S \in SUBSET Int /\ S # {} BY <1>2, <1>5
<1>7. Max(S) \in S BY <1>5, <1>6, GreatestIs
<1>8. text \in Nat BY <1>5, <1>7
<1> HIDE DEF text, json
<1> QED BY <1>1, <1>4, <1>8

\* A search for a call with no marker, and the places it goes on to.
LEMMA NakedObjectType ==
  ASSUME NEW t \in Symbols, NEW first \in Nat \ {0}, NEW tag
  PROVE  NakedObject(t, first, tag) \in Answers(t)
<1> DEFINE brace(s) == Find(t, <<"{">>, s)
           fence(s) == Find(t, Fence, s)
           fenced(s) == fence(s) # None /\ (brace(s) = None \/ fence(s) < brace(s))
           verdict(s) == Verdict(t, brace(s))
           closing(s) == Find(t, Fence, fence(s) + 3)
           opens(s) == {i \in s..Len(t) : IsAt(t, Fence, i)}
           last(s) == IF opens(s) = {} THEN None ELSE Max(opens(s))
           untagged(s) == fenced(s) /\ FenceTag(t, fence(s)) = NoTag
           code(s) == fenced(s) /\ FenceTag(t, fence(s)) \notin PlainTags \cup {NoTag}
           passes(s) == IF SpanEnd(t, brace(s)) = None THEN brace(s) + 1 ELSE SpanEnd(t, brace(s))
           rest(s) == IF last(s) = None \/ Len(t) + 1 - last(s) > Patience THEN Nothing ELSE Pending(last(s))
           called(s) == Found(FenceStart(t, brace(s), first), brace(s))
           waits(s) == Pending(FenceStart(t, brace(s), first))
           body(g, s) ==
             CASE untagged(s) -> Pending(fence(s))
               [] code(s) -> IF closing(s) = None THEN Nothing ELSE g[closing(s) + 3]
               [] OTHER -> IF brace(s) = None THEN rest(s)
                           ELSE CASE verdict(s) = "wait" -> waits(s)
                                  [] verdict(s) = "call" -> called(s)
                                  [] OTHER -> g[passes(s)]
           look == CHOOSE g : g = [s \in Nat |-> body(g, s)]
           stop == {s \in Nat : \/ untagged(s)
                                \/ ~untagged(s) /\ code(s) /\ closing(s) = None
                                \/ ~untagged(s) /\ ~code(s) /\ (brace(s) = None \/ verdict(s) = "wait" \/ verdict(s) = "call")}
           jump == [s \in Nat |-> IF code(s) THEN closing(s) + 3 ELSE passes(s)]
           reads == [s \in Nat |-> IF untagged(s) THEN Pending(fence(s)) ELSE IF code(s) THEN Nothing
                                    ELSE IF brace(s) = None THEN rest(s) ELSE IF verdict(s) = "wait" THEN waits(s) ELSE called(s)]
<1>1. NakedObject(t, first, tag) = IF tag \notin PlainTags \cup {NoTag} THEN Nothing ELSE look[first]
  BY DEF NakedObject
<1>2. Len(t) \in Nat BY LenProperties DEF Symbols
<1>3. ASSUME NEW s \in Nat
      PROVE  /\ brace(s) \in Nat /\ (brace(s) # None => s <= brace(s) /\ brace(s) <= Len(t))
             /\ fence(s) \in Nat /\ (fence(s) # None => s <= fence(s) /\ fence(s) <= Len(t))
             /\ closing(s) \in Nat /\ (closing(s) # None => fence(s) + 3 <= closing(s))
  <2>1. fence(s) \in Nat /\ (fence(s) # None => s <= fence(s) /\ fence(s) <= Len(t)) BY FindType
  <2>2. brace(s) \in Nat /\ (brace(s) # None => s <= brace(s) /\ brace(s) <= Len(t)) BY FindType
  <2>3. fence(s) + 3 \in Nat BY <2>1
  <2>4. closing(s) \in Nat /\ (closing(s) # None => fence(s) + 3 <= closing(s)) BY <2>3, FindType
  <2> QED BY <2>1, <2>2, <2>4
<1>4. ASSUME NEW s \in Nat, s \notin stop
      PROVE  jump[s] \in Nat /\ jump[s] > s /\ s < Len(t) + 1
  <2>1. CASE code(s)
    <3>1. ~untagged(s) BY <2>1
    <3>2. closing(s) # None /\ fence(s) # None BY <1>4, <2>1, <3>1
    <3>3. jump[s] = closing(s) + 3 BY <2>1
    <3>4. s <= fence(s) /\ fence(s) <= Len(t) /\ fence(s) + 3 <= closing(s) /\ fence(s) \in Nat /\ closing(s) \in Nat
      BY <1>3, <3>2
    <3> HIDE DEF jump, fence, closing
    <3> QED BY <1>2, <3>3, <3>4
  <2>2. CASE ~code(s)
    <3>1. brace(s) # None BY <1>4, <2>2
    <3>2. jump[s] = passes(s) BY <2>2
    <3>3. brace(s) \in Nat /\ s <= brace(s) /\ brace(s) <= Len(t) BY <1>3, <3>1
    <3>4. brace(s) \in Nat \ {0} BY <3>1, <3>3 DEF None
    <3>5. t[brace(s)] = "{"
      <4>1. PICK b : b = brace(s) OBVIOUS
      <4>2. b # None BY <3>1, <4>1
      <4>3. t[b] = "{" BY <4>1, <4>2, FindOne
      <4> QED BY <4>1, <4>3
    <3>6. SpanEnd(t, brace(s)) # None => brace(s) < SpanEnd(t, brace(s)) BY <3>4, <3>5, SpanType
    <3>7. SpanEnd(t, brace(s)) \in Nat BY <3>4, SpanType
    <3>8. passes(s) \in Nat /\ passes(s) > brace(s)
      <4>1. PICK b : b = brace(s) OBVIOUS
      <4>2. passes(s) = IF SpanEnd(t, b) = None THEN b + 1 ELSE SpanEnd(t, b) BY <4>1
      <4>3. b \in Nat /\ SpanEnd(t, b) \in Nat /\ (SpanEnd(t, b) # None => b < SpanEnd(t, b))
        BY <3>3, <3>6, <3>7, <4>1
      <4> HIDE DEF brace, passes
      <4> QED BY <4>1, <4>2, <4>3
    <3> HIDE DEF jump, brace, passes
    <3> QED BY <1>2, <3>2, <3>3, <3>8
  <2> QED BY <2>1, <2>2
<1>5. ASSUME NEW s \in Nat, s >= first, s \in stop PROVE reads[s] \in Answers(t)
  <2>1. CASE untagged(s)
    <3>1. fence(s) \in Nat BY <1>3
    <3>2. reads[s] = Pending(fence(s)) BY <2>1
    <3> QED BY <3>1, <3>2, PendingIs
  <2>2. CASE ~untagged(s) /\ code(s)
    <3>1. reads[s] = Nothing BY <2>2
    <3>2. 0 \in Nat OBVIOUS
    <3> QED BY <3>1, <3>2, PendingIs
  <2>3. CASE ~untagged(s) /\ ~code(s) /\ brace(s) = None
    <3>1. reads[s] = rest(s) BY <2>3
    <3>2. last(s) \in Nat
      <4>1. CASE opens(s) = {} BY <4>1 DEF None
      <4>2. CASE opens(s) # {}
        <5>1. \A x \in opens(s) : x \in Int /\ s <= x /\ x <= Len(t) BY <1>2
        <5> HIDE DEF opens
        <5>2. IsFiniteSet(opens(s)) /\ opens(s) \in SUBSET Nat BY <1>2, <5>1, PlacesFinite
        <5>3. opens(s) \in SUBSET Int BY <5>2
        <5>4. Max(opens(s)) \in opens(s) BY <4>2, <5>2, <5>3, GreatestIs
        <5> QED BY <4>2, <5>2, <5>4
      <4> QED BY <4>1, <4>2
    <3> HIDE DEF last
    <3>3. Nothing \in Answers(t) /\ Pending(last(s)) \in Answers(t) BY <3>2, PendingIs
    <3> QED BY <3>1, <3>3
  <2>4. CASE ~untagged(s) /\ ~code(s) /\ brace(s) # None
    <3>1. brace(s) \in Nat /\ s <= brace(s) /\ brace(s) <= Len(t) /\ brace(s) # 0 BY <1>3, <2>4 DEF None
    <3>2. brace(s) \in 1..Len(t) /\ first <= brace(s) /\ first \in Nat
      <4> HIDE DEF brace
      <4>1. PICK b : b = brace(s) OBVIOUS
      <4>2. b \in Nat /\ b # 0 /\ b <= Len(t) /\ first <= b BY <1>5, <3>1, <4>1
      <4>3. b \in 1..Len(t) BY <1>2, <4>2
      <4> QED BY <4>1, <4>2, <4>3
    <3>3. FenceStart(t, brace(s), first) \in Nat BY <3>1, <3>2, FenceStartType
    <3>4. waits(s) \in Answers(t) /\ called(s) \in Answers(t) BY <3>2, <3>3, PendingIs, FoundIs
    <3>5. reads[s] = waits(s) \/ reads[s] = called(s) BY <2>4
    <3> QED BY <3>4, <3>5
  <2> QED BY <2>1, <2>2, <2>3, <2>4
<1>6. ASSUME NEW g, NEW s \in Nat PROVE body(g, s) = IF s \in stop THEN reads[s] ELSE g[jump[s]]
  <2>1. CASE untagged(s)
    <3>1. s \in stop /\ reads[s] = Pending(fence(s)) BY <2>1
    <3>2. ~code(s) BY <2>1
    <3>3. body(g, s) = Pending(fence(s)) BY <2>1, <3>2
    <3> QED BY <3>1, <3>3
  <2>2. CASE ~untagged(s) /\ code(s)
    <3>1. body(g, s) = IF closing(s) = None THEN Nothing ELSE g[closing(s) + 3] BY <2>2
    <3>2. reads[s] = Nothing /\ jump[s] = closing(s) + 3 /\ (s \in stop <=> closing(s) = None) BY <2>2
    <3> QED BY <3>1, <3>2
  <2>3. CASE ~untagged(s) /\ ~code(s)
    <3> HIDE DEF untagged, code, rest, waits, called, passes, verdict, brace
    <3>1. jump[s] = passes(s) BY <2>3
    <3>2. s \in stop <=> brace(s) = None \/ verdict(s) = "wait" \/ verdict(s) = "call" BY <2>3
    <3>3. reads[s] = IF brace(s) = None THEN rest(s) ELSE IF verdict(s) = "wait" THEN waits(s) ELSE called(s) BY <2>3
    <3>4. body(g, s) = IF brace(s) = None THEN rest(s)
                       ELSE CASE verdict(s) = "wait" -> waits(s)
                              [] verdict(s) = "call" -> called(s)
                              [] OTHER -> g[passes(s)]
      BY <2>3
    <3>5. CASE brace(s) = None BY <3>2, <3>3, <3>4, <3>5
    <3>6. CASE brace(s) # None /\ verdict(s) = "wait"
      <4>1. body(g, s) = waits(s) BY <3>4, <3>6
      <4> QED BY <3>2, <3>3, <3>6, <4>1
    <3>7. CASE brace(s) # None /\ verdict(s) = "call"
      <4>1. body(g, s) = called(s) BY <3>4, <3>7
      <4> QED BY <3>2, <3>3, <3>7, <4>1
    <3>8. CASE brace(s) # None /\ verdict(s) # "wait" /\ verdict(s) # "call"
      <4>1. body(g, s) = g[passes(s)] BY <3>4, <3>8
      <4> QED BY <3>1, <3>2, <3>8, <4>1
    <3> QED BY <3>5, <3>6, <3>7, <3>8
  <2> QED BY <2>1, <2>2, <2>3
<1> HIDE DEF stop, jump, reads, body, look
<1>7. \A g : [s \in Nat |-> body(g, s)] = [s \in Nat |-> IF s \in stop THEN reads[s] ELSE g[jump[s]]] BY <1>6
<1>8. Climbs(Len(t) + 1, stop, jump) BY <1>4 DEF Climbs
<1>9. Len(t) + 1 \in Nat BY <1>2
<1>10. \E g : Leaps(g, stop, jump, reads) BY <1>8, <1>9, LeapsExist
<1>11. \E g : g = [s \in Nat |-> body(g, s)] BY <1>7, <1>10 DEF Leaps
<1>12. look = [s \in Nat |-> body(look, s)] BY <1>11 DEF look
<1>13. Leaps(look, stop, jump, reads) BY <1>7, <1>12 DEF Leaps
<1>14. AnswersIn(Answers(t), first, stop, reads) BY <1>5 DEF AnswersIn
<1>15. first \in Nat OBVIOUS
<1>16. look[first] \in Answers(t) BY <1>8, <1>9, <1>13, <1>14, <1>15, LeapsType
<1>17. Nothing \in Answers(t) BY <1>15, PendingIs
<1> QED BY <1>1, <1>16, <1>17

-----------------------------------------------------------------------------
(* The families.                                                            *)

Kinds == {"hermes", "mistral", "deepseek", "llama", "generic"}

LEMMA SelectParserType == ASSUME NEW template PROVE SelectParser(template) \in Kinds
<1> DEFINE S == {i \in DOMAIN Families : Families[i] \in template \cup {"generic"}}
<1>1. DOMAIN Families = 1..5 /\ Families[5] = "generic" /\ \A i \in 1..5 : Families[i] \in Kinds BY DEF Families, Kinds
<1>2. 5 \in S BY <1>1
<1>3. \A x \in S : x \in Int /\ 1 <= x /\ x <= 5 BY <1>1
<1>4. S \subseteq 1..5 BY <1>1
<1>5. SelectParser(template) = Families[Min(S)] BY DEF SelectParser
<1> HIDE DEF S
<1>6. IsFiniteSet(S) /\ S \in SUBSET Nat BY <1>3, PlacesFinite
<1>7. S \in SUBSET Int /\ S # {} BY <1>2, <1>6
<1>8. Min(S) \in S BY <1>6, <1>7, LeastIs
<1> QED BY <1>1, <1>4, <1>5, <1>8

LEMMA FoundOrPendingType ==
  ASSUME NEW t, NEW c \in Nat, NEW j \in Nat, j # None => j \in 1..Len(t)
  PROVE  FoundOrPending(c, j) \in Answers(t)
BY PendingIs, FoundIs DEF FoundOrPending

\* A place that was found is one of the text's.
LEMMA FoundWithin ==
  ASSUME NEW t \in Symbols, NEW w, NEW from \in Nat
  PROVE  Find(t, w, from) \in Nat /\ (Find(t, w, from) # None => Find(t, w, from) \in 1..Len(t))
<1>1. Len(t) \in Nat BY LenProperties DEF Symbols
<1>2. Find(t, w, from) \in Nat /\ (Find(t, w, from) # None => Find(t, w, from) <= Len(t)) BY FindType
<1> QED BY <1>1, <1>2 DEF None

LEMMA DeepSeekCallType ==
  ASSUME NEW t \in Symbols, NEW first \in Nat
  PROVE  DeepSeekCall(t, first) \in Answers(t)
<1> DEFINE at == Find(t, Start, first)
           wrapper == Find(t, Wrapper, first)
           says == IF wrapper # None /\ wrapper <= at THEN wrapper ELSE at
           separator == Find(t, Separator, at)
           line == Find(t, <<"nl">>, separator)
           brace == Find(t, <<"{">>, line)
           name == FromTo(t, separator + 1, line)
           named == IF name = <<>> THEN <<>> ELSE <<name>>
<1>1. at \in Nat /\ wrapper \in Nat BY FindType
<1>2. separator \in Nat BY <1>1, FindType
<1>3. line \in Nat BY <1>2, FindType
<1>4. brace \in Nat /\ (brace # None => brace \in 1..Len(t)) BY <1>3, FoundWithin
<1>5. says \in Nat BY <1>1
<1>6. separator + 1 \in Nat \ {0} BY <1>2
<1>7. name \in Symbols BY <1>3, <1>6, FromToType
<1>8. DeepSeekCall(t, first) =
        CASE at = None -> IF wrapper = None THEN Nothing ELSE Pending(wrapper)
          [] at # None /\ (separator = None \/ line = None \/ brace = None) -> Pending(says)
          [] OTHER -> Answer("found", says, brace, named)
  BY DEF DeepSeekCall
<1> HIDE DEF at, wrapper, says, separator, line, brace, name
<1>9. named \in Names BY <1>7 DEF Names
<1> HIDE DEF named
<1>10. CASE at = None
  <2>1. DeepSeekCall(t, first) = IF wrapper = None THEN Nothing ELSE Pending(wrapper) BY <1>8, <1>10
  <2> QED BY <1>1, <2>1, PendingIs
<1>11. CASE at # None /\ (separator = None \/ line = None \/ brace = None)
  <2>1. DeepSeekCall(t, first) = Pending(says) BY <1>8, <1>11
  <2> QED BY <1>5, <2>1, PendingIs
<1>12. CASE at # None /\ ~(separator = None \/ line = None \/ brace = None)
  <2>1. PICK is : is = "found" OBVIOUS
  <2>2. DeepSeekCall(t, first) = Answer(is, says, brace, named) BY <1>8, <1>12, <2>1
  <2>3. Answer(is, says, brace, named) \in Answers(t) BY <1>4, <1>5, <1>9, <1>12, <2>1, AnAnswer
  <2> QED BY <2>2, <2>3
<1> QED BY <1>10, <1>11, <1>12

LEMMA FindCallType ==
  ASSUME NEW family \in Kinds, NEW t \in Symbols, NEW first \in Nat \ {0}, NEW tag
  PROVE  FindCall(family, t, first, tag) \in Answers(t)
<1> DEFINE at == Find(t, Start, first)
           marked == IF at = None THEN Nothing ELSE FoundOrPending(at, Find(t, <<"{">>, at))
           either == IF at = None THEN NakedObject(t, first, tag) ELSE FoundOrPending(at, Find(t, <<"{">>, at))
<1>1. at \in Nat BY FindType
<1>2. Find(t, <<"{">>, at) \in Nat /\ (Find(t, <<"{">>, at) # None => Find(t, <<"{">>, at) \in 1..Len(t))
  BY <1>1, FoundWithin
<1>3. FoundOrPending(at, Find(t, <<"{">>, at)) \in Answers(t) BY <1>1, <1>2, FoundOrPendingType
<1>4. Nothing \in Answers(t) BY <1>1, PendingIs
<1>5. NakedObject(t, first, tag) \in Answers(t) BY NakedObjectType
<1>6. DeepSeekCall(t, first) \in Answers(t) BY DeepSeekCallType
<1>7. FindCall(family, t, first, tag) =
        CASE family \in {"hermes", "mistral"} -> marked
          [] family = "llama" -> either
          [] family = "deepseek" -> DeepSeekCall(t, first)
          [] family = "generic" -> NakedObject(t, first, tag)
  BY DEF FindCall
<1>8. marked \in Answers(t) /\ either \in Answers(t) BY <1>3, <1>4, <1>5
<1> HIDE DEF marked, either
<1> QED BY <1>5, <1>6, <1>7, <1>8 DEF Kinds

LEMMA AfterCallType ==
  ASSUME NEW family \in Kinds, NEW t \in Symbols, NEW place \in Nat \ {0}, NEW final
  PROVE  AfterCall(family, t, place, final) \in Nat
<1> DEFINE at == Find(t, Finish, place)
           next == Skip(t, (IF at = None THEN place ELSE at + Len(Finish)), Blank)
           tail == Skip(t, place, Blank)
<1>1. at \in Nat /\ Len(Finish) = 2 /\ Len(WrapperEnd) = 2 BY FindType DEF Finish, WrapperEnd
<1>2. (IF at = None THEN place ELSE at + Len(Finish)) \in Nat \ {0} BY <1>1
<1>3. next \in Nat /\ tail \in Nat BY <1>2, SkipType
<1>4. AfterCall(family, t, place, final) =
        CASE family \in {"mistral", "llama"} -> place
          [] family = "hermes" -> IF at # None THEN at + Len(Finish) ELSE IF final THEN place ELSE None
          [] family = "deepseek" ->
                IF at = None THEN IF final THEN place ELSE None
                ELSE IF IsAt(t, WrapperEnd, next) THEN next + Len(WrapperEnd)
                ELSE IF ~final /\ StartsWith(WrapperEnd, t, next) THEN None ELSE next
          [] family = "generic" ->
                IF IsAt(t, Fence, tail) THEN tail + 3
                ELSE IF ~final /\ StartsWith(Fence, t, tail) THEN None ELSE place
  BY DEF AfterCall
<1> HIDE DEF at, next, tail
<1>5. None \in Nat /\ place \in Nat BY DEF None
<1>6. at + Len(Finish) \in Nat /\ next + Len(WrapperEnd) \in Nat /\ tail + 3 \in Nat BY <1>1, <1>3
<1>7. CASE family \in {"mistral", "llama"} BY <1>4, <1>5, <1>7
<1>8. CASE family = "hermes" BY <1>4, <1>5, <1>6, <1>8
<1>9. CASE family = "deepseek" BY <1>3, <1>4, <1>5, <1>6, <1>9
<1>10. CASE family = "generic" BY <1>4, <1>5, <1>6, <1>10
<1> QED BY <1>7, <1>8, <1>9, <1>10 DEF Kinds

LEMMA NextInRegionType ==
  ASSUME NEW family \in Kinds, NEW t \in Symbols, NEW place \in Nat \ {0}
  PROVE  NextInRegion(family, t, place) \in Answers(t)
<1> DEFINE comma == Skip(t, place, Blank \cup {","})
           semicolon == Skip(t, place, Blank)
           next == Skip(t, semicolon + 1, Blank)
           list == IF comma > Len(t) THEN Pending(place)
                   ELSE IF t[comma] = "{" THEN Found(place, comma) ELSE Nothing
           chain == IF semicolon > Len(t) THEN Pending(place)
                    ELSE IF t[semicolon] # ";" THEN Nothing
                    ELSE IF next > Len(t) THEN Pending(place)
                    ELSE IF t[next] = "{" THEN Found(place, next) ELSE Nothing
<1>1. Len(t) \in Nat BY LenProperties DEF Symbols
<1>2. comma \in Nat \ {0} /\ semicolon \in Nat \ {0} BY SkipType
<1>3. semicolon + 1 \in Nat \ {0}
  <2>1. PICK s : s = semicolon OBVIOUS
  <2>2. s \in Nat \ {0} BY <1>2, <2>1
  <2>3. s + 1 \in Nat \ {0} BY <2>2
  <2> QED BY <2>1, <2>3
<1>4. next \in Nat \ {0} BY <1>3, SkipType
<1>5. NextInRegion(family, t, place) =
        CASE family = "mistral" -> list [] family = "llama" -> chain [] OTHER -> Nothing
  BY DEF NextInRegion
<1> HIDE DEF comma, semicolon, next
<1>6. ASSUME NEW j \in Nat \ {0}, ~(j > Len(t)) PROVE Found(place, j) \in Answers(t)
  <2>1. j \in 1..Len(t) BY <1>1, <1>6
  <2> QED BY <2>1, FoundIs
<1>7. Nothing \in Answers(t) /\ Pending(place) \in Answers(t) BY PendingIs
<1>8. list \in Answers(t) BY <1>2, <1>6, <1>7
<1>9. chain \in Answers(t) BY <1>4, <1>6, <1>7
<1> HIDE DEF list, chain
<1> QED BY <1>5, <1>7, <1>8, <1>9

LEMMA AfterRegionType ==
  ASSUME NEW family, NEW t \in Symbols, NEW place \in Nat \ {0}
  PROVE  AfterRegion(family, t, place) \in Nat
<1>1. PICK at : at = Skip(t, place, Blank \cup {","}) OBVIOUS
<1>2. at \in Nat BY <1>1, SkipType
<1>3. AfterRegion(family, t, place) = IF family = "mistral" /\ At(t, at) = "]" THEN at + 1 ELSE place
  BY <1>1 DEF AfterRegion
<1> QED BY <1>2, <1>3

-----------------------------------------------------------------------------
(* What a client has of a call.                                             *)

CallRecord == [index : Nat, name : Names, arguments : Symbols]

LEMMA MergeNone == ASSUME NEW c PROVE MergeAll(c, <<>>) = c
<1> DEFINE is(g) == g = [k \in 0..0 |-> IF k = 0 THEN c ELSE Merge(g[k - 1], <<>>[k])]
           merged == CHOOSE g : is(g)
           h == [k \in 0..0 |-> c]
<1>1. MergeAll(c, <<>>) = merged[0]
  <2>1. Len(<<>>) = 0 OBVIOUS
  <2> QED BY <2>1 DEF MergeAll
<1>2. is(h) OBVIOUS
<1> HIDE DEF h
<1>3. is(merged) BY <1>2
<1> HIDE DEF merged
<1>4. merged[0] = c BY <1>3
<1> QED BY <1>1, <1>4

LEMMA MergeOne == ASSUME NEW c, NEW d PROVE MergeAll(c, <<d>>) = Merge(c, d)
<1> DEFINE is(g) == g = [k \in 0..1 |-> IF k = 0 THEN c ELSE Merge(g[k - 1], <<d>>[k])]
           merged == CHOOSE g : is(g)
           x == Merge(c, d)
           h == [k \in 0..1 |-> IF k = 0 THEN c ELSE x]
<1>1. MergeAll(c, <<d>>) = merged[1]
  <2>1. Len(<<d>>) = 1 OBVIOUS
  <2> QED BY <2>1 DEF MergeAll
<1>2. is(h)
  <2>1. h[0] = c /\ <<d>>[1] = d OBVIOUS
  <2>2. ASSUME NEW k \in 0..1 PROVE h[k] = IF k = 0 THEN c ELSE Merge(h[k - 1], <<d>>[k])
    <3>1. CASE k = 0 BY <3>1
    <3>2. CASE k = 1
      <4>1. k - 1 = 0 /\ h[k] = x BY <3>2
      <4> HIDE DEF h
      <4> QED BY <2>1, <3>2, <4>1
    <3> QED BY <3>1, <3>2
  <2>3. h = [k \in 0..1 |-> h[k]] OBVIOUS
  <2> HIDE DEF h
  <2> QED BY <2>2, <2>3
<1> HIDE DEF h
<1>3. is(merged) BY <1>2
<1> HIDE DEF merged
<1>4. merged[0] = c BY <1>3
<1>5. merged[1] = Merge(merged[0], <<d>>[1]) BY <1>3
<1> QED BY <1>1, <1>4, <1>5

LEMMA MergeTwo == ASSUME NEW c, NEW d, NEW e PROVE MergeAll(c, <<d, e>>) = Merge(Merge(c, d), e)
<1> DEFINE is(g) == g = [k \in 0..2 |-> IF k = 0 THEN c ELSE Merge(g[k - 1], <<d, e>>[k])]
           merged == CHOOSE g : is(g)
           x == Merge(c, d)
           y == Merge(x, e)
           h == [k \in 0..2 |-> IF k = 0 THEN c ELSE IF k = 1 THEN x ELSE y]
<1>1. MergeAll(c, <<d, e>>) = merged[2]
  <2>1. Len(<<d, e>>) = 2 OBVIOUS
  <2> QED BY <2>1 DEF MergeAll
<1>2. is(h)
  <2>1. h[0] = c /\ h[1] = x /\ <<d, e>>[1] = d /\ <<d, e>>[2] = e OBVIOUS
  <2>2. ASSUME NEW k \in 0..2 PROVE h[k] = IF k = 0 THEN c ELSE Merge(h[k - 1], <<d, e>>[k])
    <3>1. CASE k = 0 BY <3>1
    <3>2. CASE k = 1
      <4>1. k - 1 = 0 /\ h[k] = x BY <3>2
      <4> HIDE DEF h
      <4> QED BY <2>1, <3>2, <4>1
    <3>3. CASE k = 2
      <4>1. k - 1 = 1 /\ h[k] = y BY <3>3
      <4> HIDE DEF h
      <4> QED BY <2>1, <3>3, <4>1
    <3> QED BY <3>1, <3>2, <3>3
  <2>3. h = [k \in 0..2 |-> h[k]] OBVIOUS
  <2> HIDE DEF h
  <2> QED BY <2>2, <2>3
<1> HIDE DEF h
<1>3. is(merged) BY <1>2
<1> HIDE DEF merged
<1>4. merged[0] = c BY <1>3
<1>5. merged[1] = Merge(merged[0], <<d, e>>[1]) BY <1>3
<1>6. merged[2] = Merge(merged[1], <<d, e>>[2]) BY <1>3
<1> QED BY <1>1, <1>4, <1>5, <1>6

\* The calls are numbered in the order they come in.
Numbered(c) == \A k \in 1..Len(c) : c[k].index = k

LEMMA CallWith ==
  ASSUME NEW i, NEW n, NEW a, NEW b
  PROVE  [Call(i, n, a) EXCEPT !.arguments = @ \o b] = Call(i, n, a \o b)
<1>1. \A x : [Call(i, n, a) EXCEPT !.arguments = x] = Call(i, n, x) BY DEF Call
<1>2. Call(i, n, a).arguments = a BY DEF Call
<1>3. [Call(i, n, a) EXCEPT !.arguments = @ \o b] = Call(i, n, Call(i, n, a).arguments \o b) BY <1>1
<1> QED BY <1>2, <1>3

\* A delta of a new call, and one of the call that is the last.
LEMMA MergeNew ==
  ASSUME NEW c \in Seq(CallRecord), Numbered(c), NEW name \in Names, NEW arguments \in Symbols
  PROVE  Merge(c, Call(Len(c) + 1, name, arguments)) = Append(c, Call(Len(c) + 1, name, arguments))
<1> DEFINE d == Call(Len(c) + 1, name, arguments)
<1>1. Len(c) \in Nat /\ DOMAIN c = 1..Len(c) BY LenProperties
<1>2. d.index = Len(c) + 1 BY DEF Call
<1>3. \A k \in DOMAIN c : c[k].index # d.index BY <1>1, <1>2 DEF Numbered
<1> HIDE DEF d
<1>4. Merge(c, d) = Append(c, d) BY <1>3 DEF Merge
<1> QED BY <1>4 DEF d

\* A client with one call more, or with more of it.
Comes(d, c, n, last) == d \in Seq(CallRecord) /\ Len(d) = n + 1 /\ d[n + 1] = last /\ \A k \in 1..n : d[k] = c[k]

LEMMA MergeMore ==
  ASSUME NEW c \in Seq(CallRecord), Numbered(c), NEW n \in Nat, Len(c) = n + 1,
         NEW name \in Names, NEW before \in Symbols, c[n + 1] = Call(n + 1, name, before),
         NEW other, NEW more \in Symbols
  PROVE  Comes(Merge(c, Call(n + 1, other, more)), c, n, Call(n + 1, name, before \o more))
<1> DEFINE x == Call(n + 1, other, more)
           d == Merge(c, x)
<1>1. DOMAIN c = 1..(n + 1) /\ \A k \in 1..(n + 1) : c[k] \in CallRecord BY LenProperties, ElementOfSeq
<1>2. x.index = n + 1 /\ x.arguments = more BY DEF Call
<1>3. \A k \in 1..(n + 1) : c[k].index = k BY DEF Numbered
<1>4. n + 1 \in DOMAIN c /\ c[n + 1].index = x.index BY <1>1, <1>2, <1>3
<1> HIDE DEF x
<1>5. d = [k \in DOMAIN c |-> IF c[k].index # x.index THEN c[k] ELSE [c[k] EXCEPT !.arguments = @ \o x.arguments]]
  BY <1>4 DEF Merge
<1> HIDE DEF d
<1>6. \A k \in 1..n : d[k] = c[k] BY <1>1, <1>2, <1>3, <1>5
<1>7. d[n + 1] = Call(n + 1, name, before \o more)
  <2>1. d[n + 1] = [c[n + 1] EXCEPT !.arguments = @ \o more] BY <1>2, <1>4, <1>5
  <2>2. c[n + 1] = Call(n + 1, name, before) OBVIOUS
  <2>3. PICK i : i = n + 1 OBVIOUS
  <2>4. d[n + 1] = [Call(i, name, before) EXCEPT !.arguments = @ \o more] BY <2>1, <2>2, <2>3
  <2>5. d[n + 1] = Call(i, name, before \o more) BY <2>4, CallWith
  <2> QED BY <2>3, <2>5
<1>8. Call(n + 1, name, before \o more) \in CallRecord
  <2>1. before \o more \in Symbols BY ConcatProperties DEF Symbols
  <2> QED BY <2>1 DEF Call, CallRecord
<1>9. \A k \in 1..(n + 1) : d[k] \in CallRecord
  <2>1. SUFFICES ASSUME NEW k \in 1..(n + 1) PROVE d[k] \in CallRecord OBVIOUS
  <2>2. CASE k = n + 1 BY <1>7, <1>8, <2>2
  <2>3. CASE k # n + 1
    <3>1. k \in 1..n BY <2>3
    <3> QED BY <1>1, <1>6, <3>1
  <2> QED BY <2>2, <2>3
<1>10. DOMAIN d = 1..(n + 1) BY <1>1, <1>5
<1>11. d \in [1..(n + 1) -> CallRecord]
  <2>1. d = [k \in 1..(n + 1) |-> d[k]] BY <1>1, <1>5
  <2> QED BY <1>9, <2>1
<1>12. d \in Seq(CallRecord) /\ Len(d) = n + 1 BY <1>11
<1> QED BY <1>6, <1>7, <1>12 DEF d, x, Comes

OpenRecord ==
  [index : Nat, json : Nat \ {0}, name : Names, sentOpen : BOOLEAN, sent : Nat, arguments : Nat, quoted : BOOLEAN]

\* A client that has the first `given` of some arguments, or nothing of the call.
Has(c, n, call, arguments) ==
  /\ call.index = n + 1 /\ call.sent <= Len(arguments)
  /\ Len(c) = n + (IF call.sentOpen THEN 1 ELSE 0)
  /\ IF call.sentOpen
     THEN call.name # <<>> /\ c[n + 1] = Call(n + 1, call.name, SubSeq(arguments, 1, call.sent))
     ELSE call.sent = 0

LEMMA WholeOf == ASSUME NEW s \in Symbols PROVE SubSeq(s, 1, Len(s)) = s
<1>1. Len(s) \in 0..Len(s)
  <2>1. Len(s) \in Nat BY LenProperties DEF Symbols
  <2> QED BY <2>1
<1>2. Len(s) \in Nat BY LenProperties DEF Symbols
<1>3. \A i \in 1..Len(s) : s[i] \in Symbol BY ElementOfSeq DEF Symbols
<1> DEFINE t == SubSeq(s, 1, Len(s))
<1>4. t \in Seq(Symbol) /\ Len(t) = Len(s) /\ \A i \in 1..Len(s) : t[i] = s[i] BY <1>2, <1>3, SubSeqProperties
<1> HIDE DEF t
<1>5. t = s BY <1>4, SeqEqual DEF Symbols
<1> QED BY <1>5 DEF t

LEMMA EmptyText == ASSUME NEW s \in Symbols, Len(s) <= 0 PROVE s = <<>>
<1>1. Len(s) = 0
  <2>1. Len(s) \in Nat BY LenProperties DEF Symbols
  <2> QED BY <2>1
<1> QED BY <1>1, EmptySeq DEF Symbols

LEMMA TwoInOne == ASSUME NEW x, NEW y PROVE <<x>> \o <<y>> = <<x, y>>
<1> DEFINE S == {x, y}
           s == <<x>> \o <<y>>
           t == <<x, y>>
<1>1. <<x>> \in Seq(S) /\ <<y>> \in Seq(S) /\ t \in Seq(S) OBVIOUS
<1>2. Len(<<x>>) = 1 /\ Len(<<y>>) = 1 /\ <<x>>[1] = x /\ <<y>>[1] = y OBVIOUS
<1>3. Len(t) = 2 /\ t[1] = x /\ t[2] = y OBVIOUS
<1>4. s \in Seq(S) /\ Len(s) = 2 BY <1>1, <1>2, ConcatProperties
<1>5. s[1] = x /\ s[2] = y
  <2>1. \A i \in 1..2 : s[i] = IF i <= 1 THEN <<x>>[i] ELSE <<y>>[i - 1] BY <1>1, <1>2, ConcatProperties
  <2>2. s[1] = <<x>>[1] /\ s[2] = <<y>>[2 - 1] BY <2>1
  <2> QED BY <1>2, <2>2
<1> HIDE DEF s, t, S
<1>6. \A i \in 1..Len(s) : s[i] = t[i] BY <1>3, <1>4, <1>5
<1>7. s = t BY <1>1, <1>3, <1>4, <1>6, SeqEqual
<1> QED BY <1>7 DEF s, t

\* What the deltas of a step bring the client to: all of the arguments.
LEMMA SendIs ==
  ASSUME NEW c \in Seq(CallRecord), Numbered(c), NEW n \in Nat, NEW call \in OpenRecord, NEW arguments \in Symbols,
         Has(c, n, call, arguments), call.name # <<>>
  PROVE  Comes(MergeAll(c, Announced(call) \o Fragment(call, arguments)), c, n, Call(n + 1, call.name, arguments))
<1> DEFINE d == MergeAll(c, Announced(call) \o Fragment(call, arguments))
           sent == call.sent
           given == SubSeq(arguments, 1, sent)
           more == SubSeq(arguments, sent + 1, Len(arguments))
           header == Call(n + 1, call.name, <<>>)
           part == Call(n + 1, <<>>, more)
           x == Call(n + 1, call.name, arguments)
<1>1. Len(arguments) \in Nat /\ sent \in Nat /\ call.name \in Names /\ <<>> \in Symbols
  BY LenProperties DEF Symbols, OpenRecord
<1>2. sent <= Len(arguments) /\ call.index = n + 1 BY DEF Has
<1>3. sent \in 0..Len(arguments) BY <1>1, <1>2
<1>4. given \in Symbols /\ more \in Symbols /\ given \o more = arguments BY <1>3, CutInTwo DEF Symbols
<1>5. Announced(call) = IF call.sentOpen THEN <<>> ELSE <<header>> BY <1>2 DEF Announced
<1>6. Fragment(call, arguments) = IF Len(arguments) > sent THEN <<part>> ELSE <<>> BY <1>2 DEF Fragment
<1>7. header \in CallRecord BY <1>1 DEF Call, CallRecord
<1> HIDE DEF sent, given, more, header, part
<1>8. CASE call.sentOpen
  <2>1. Len(c) = n + 1 /\ c[n + 1] = Call(n + 1, call.name, given) BY <1>8 DEF Has, given, sent
  <2>2. Announced(call) = <<>> BY <1>5, <1>8
  <2>3. CASE Len(arguments) > sent
    <3>1. Announced(call) \o Fragment(call, arguments) = <<part>> BY <1>6, <2>2, <2>3
    <3>2. d = Merge(c, part) BY <3>1, MergeOne
    <3>3. PICK none : none = <<>> OBVIOUS
    <3>4. Comes(Merge(c, Call(n + 1, none, more)), c, n, Call(n + 1, call.name, given \o more))
      BY <1>1, <1>4, <2>1, MergeMore
    <3> QED BY <1>4, <3>2, <3>3, <3>4 DEF part
  <2>4. CASE ~(Len(arguments) > sent)
    <3>1. Announced(call) \o Fragment(call, arguments) = <<>> BY <1>6, <2>2, <2>4
    <3>2. d = c BY <3>1, MergeNone
    <3>3. sent = Len(arguments) BY <1>1, <1>2, <2>4
    <3>4. given = arguments BY <3>3, WholeOf DEF given
    <3>5. \A k \in 1..n : c[k] = c[k] OBVIOUS
    <3>6. Comes(c, c, n, x) BY <2>1, <3>4, <3>5 DEF Comes
    <3> QED BY <3>2, <3>6
  <2> QED BY <2>3, <2>4
<1>9. CASE ~call.sentOpen
  <2>1. Len(c) = n /\ sent = 0 BY <1>9 DEF Has, sent
  <2>2. Announced(call) = <<header>> BY <1>5, <1>9
  <2> DEFINE e == Append(c, header)
  <2>3. Merge(c, header) = e
    <3>1. Merge(c, Call(Len(c) + 1, call.name, <<>>)) = Append(c, Call(Len(c) + 1, call.name, <<>>)) BY <1>1, MergeNew
    <3> QED BY <2>1, <3>1 DEF header
  <2>4. e \in Seq(CallRecord) /\ Len(e) = n + 1 /\ e[n + 1] = header /\ \A k \in 1..n : e[k] = c[k]
    BY <1>7, <2>1, AppendProperties
  <2> HIDE DEF e
  <2>5. CASE Len(arguments) > sent
    <3>1. Announced(call) \o Fragment(call, arguments) = <<header, part>>
      <4>1. <<header>> \o <<part>> = <<header, part>> BY TwoInOne
      <4> QED BY <1>6, <2>2, <2>5, <4>1
    <3>2. d = Merge(e, part) BY <2>3, <3>1, MergeTwo
    <3>3. Numbered(e)
      <4>1. \A k \in 1..n : e[k].index = k BY <2>1, <2>4 DEF Numbered
      <4>2. e[n + 1].index = n + 1 BY <2>4 DEF header, Call
      <4> QED BY <2>4, <4>1, <4>2 DEF Numbered
    <3>4. e[n + 1] = Call(n + 1, call.name, <<>>) BY <2>4 DEF header
    <3>7. PICK none : none = <<>> OBVIOUS
    <3>8. e[n + 1] = Call(n + 1, call.name, none) /\ none \in Symbols BY <1>1, <3>4, <3>7
    <3>5. Comes(Merge(e, Call(n + 1, none, more)), e, n, Call(n + 1, call.name, none \o more))
      BY <1>1, <1>4, <2>4, <3>3, <3>8, MergeMore
    <3>6. <<>> \o more = arguments
      <4>1. more = SubSeq(arguments, 1, Len(arguments)) BY <2>1 DEF more
      <4>2. more = arguments BY <4>1, WholeOf
      <4> QED BY <1>4, <4>2, ConcatEmptySeq DEF Symbols
    <3>9. Comes(Merge(e, part), e, n, x) BY <3>5, <3>6, <3>7 DEF part, x
    <3>10. Comes(Merge(e, part), c, n, x) BY <2>4, <3>9 DEF Comes
    <3> QED BY <3>2, <3>10
  <2>6. CASE ~(Len(arguments) > sent)
    <3>1. Announced(call) \o Fragment(call, arguments) = <<header>> BY <1>6, <2>2, <2>6
    <3>2. d = e BY <2>3, <3>1, MergeOne
    <3>3. arguments = <<>> BY <1>1, <2>1, <2>6, EmptyText
    <3>4. header = x BY <3>3 DEF header
    <3>5. Comes(e, c, n, x) BY <2>4, <3>4 DEF Comes
    <3> QED BY <3>2, <3>5
  <2> QED BY <2>5, <2>6
<1> QED BY <1>8, <1>9

\* A call that has no name yet has nothing to send.
LEMMA SendNothing ==
  ASSUME NEW c, NEW call \in OpenRecord, call.name = <<>>
  PROVE  MergeAll(c, Announced(call) \o Fragment(call, <<>>)) = c
<1>1. Announced(call) = <<>> BY DEF Announced
<1>2. call.sent \in Nat /\ Len(<<>>) = 0 BY DEF OpenRecord
<1>3. Fragment(call, <<>>) = <<>> BY <1>2 DEF Fragment
<1>4. Announced(call) \o Fragment(call, <<>>) = <<>> BY <1>1, <1>3
<1> QED BY <1>4, MergeNone

-----------------------------------------------------------------------------
(* A call that is open, and how far the client has come with it.            *)

Given(t, call) == IF call.arguments = None THEN <<>> ELSE Shown(t, call.arguments)
Underway(call, t, n, c) ==
  /\ call \in OpenRecord /\ call.arguments <= Len(t)
  /\ call.sent > 0 => call.arguments # None /\ ~call.quoted
  /\ Has(c, n, call, Given(t, call))

LEMMA NoneOfIt == ASSUME NEW s PROVE SubSeq(s, 1, 0) = <<>>
BY SubSeqEmpty

LEMMA GivenType ==
  ASSUME NEW t \in Symbols, NEW call \in OpenRecord, call.arguments <= Len(t)
  PROVE  Given(t, call) \in Symbols /\ Len(Given(t, call)) \in Nat
<1>1. Given(t, call) \in Symbols
  <2>1. CASE call.arguments = None BY <2>1 DEF Given, Symbols
  <2>2. CASE call.arguments # None
    <3>1. call.arguments \in Nat /\ Len(t) \in Nat BY LenProperties DEF OpenRecord, Symbols
    <3>2. PICK a : a = call.arguments OBVIOUS
    <3>3. a \in 1..Len(t) BY <2>2, <3>1, <3>2 DEF None
    <3>4. Shown(t, a) \in Symbols BY <3>3, ShownIs
    <3> QED BY <2>2, <3>2, <3>4 DEF Given
  <2> QED BY <2>1, <2>2
<1> QED BY <1>1, LenProperties DEF Symbols

LEMMA UnderwayIsCall == ASSUME NEW call, NEW t, NEW n \in Nat, NEW c, Underway(call, t, n, c) PROVE call # NoCall
<1>1. call.index = n + 1 BY DEF Underway, Has
<1>2. NoCall.index = 0 BY DEF NoCall, None
<1> QED BY <1>1, <1>2

\* More text changes nothing of what was sent.
LEMMA UnderwayGrows ==
  ASSUME NEW t \in Symbols, NEW u \in Symbols, Grown(t, u), NEW call, NEW n, NEW c, Underway(call, t, n, c)
  PROVE  Underway(call, u, n, c)
<1> DEFINE s == Given(t, call)
           v == Given(u, call)
<1>1. Len(t) \in Nat /\ Len(u) \in Nat /\ Len(t) <= Len(u) BY LenProperties DEF Symbols, Grown
<1>2. call \in OpenRecord /\ call.arguments \in Nat /\ call.sent \in Nat /\ call.arguments <= Len(t) BY DEF Underway, OpenRecord
<1>3. call.arguments <= Len(u) BY <1>1, <1>2
<1>4. s \in Symbols /\ v \in Symbols /\ Len(s) \in Nat /\ Len(v) \in Nat BY <1>2, <1>3, GivenType
<1>5. Grown(s, v)
  <2>1. CASE call.arguments = None
    <3>1. s = v BY <2>1 DEF Given
    <3> HIDE DEF s, v
    <3> QED BY <1>4, <3>1 DEF Grown, Alike
  <2>2. CASE call.arguments # None
    <3>1. PICK a : a = call.arguments OBVIOUS
    <3>2. a \in 1..Len(t) BY <1>1, <1>2, <2>2, <3>1 DEF None
    <3>3. Grown(Shown(t, a), Shown(u, a)) BY <3>2, ShownGrows
    <3> QED BY <2>2, <3>1, <3>3 DEF Given
  <2> QED BY <2>1, <2>2
<1>6. Has(c, n, call, s) BY DEF Underway
<1> HIDE DEF s, v
<1>7. call.sent <= Len(s) /\ call.sent <= Len(v) BY <1>2, <1>4, <1>5, <1>6 DEF Has, Grown
<1>8. call.sent \in 0..Len(s) BY <1>2, <1>4, <1>7
<1>9. SubSeq(s, 1, call.sent) = SubSeq(v, 1, call.sent) BY <1>4, <1>5, <1>8, SameBeginning
<1>10. Has(c, n, call, v) BY <1>6, <1>7, <1>9 DEF Has
<1> QED BY <1>2, <1>3, <1>10 DEF Underway, v

\* What reading on may do to a call: give it a name, and the place of its arguments.
Carries(call, s) ==
  /\ s \in OpenRecord
  /\ s.index = call.index /\ s.json = call.json /\ s.sentOpen = call.sentOpen /\ s.sent = call.sent
  /\ call.name # <<>> => s.name = call.name
  /\ call.arguments # None => s.arguments = call.arguments /\ s.quoted = call.quoted

LEMMA UnderwayCarried ==
  ASSUME NEW t \in Symbols, NEW call, NEW s, NEW n, NEW c, Underway(call, t, n, c), Carries(call, s),
         s.arguments <= Len(t)
  PROVE  Underway(s, t, n, c)
<1>1. call \in OpenRecord /\ s \in OpenRecord /\ call.sent \in Nat BY DEF Underway, Carries, OpenRecord
<1>2. Given(t, s) \in Symbols /\ Len(Given(t, s)) \in Nat BY <1>1, GivenType
<1>3. Has(c, n, call, Given(t, call)) /\ (call.sent > 0 => call.arguments # None /\ ~call.quoted) BY DEF Underway
<1>4. s.index = call.index /\ s.sentOpen = call.sentOpen /\ s.sent = call.sent
      /\ (call.name # <<>> => s.name = call.name)
      /\ (call.arguments # None => s.arguments = call.arguments /\ s.quoted = call.quoted)
  BY DEF Carries
<1>5. s.sent <= Len(Given(t, s)) /\ SubSeq(Given(t, s), 1, s.sent) = SubSeq(Given(t, call), 1, call.sent)
  <2>1. CASE call.arguments # None
    <3>1. Given(t, s) = Given(t, call) BY <1>4, <2>1 DEF Given
    <3> QED BY <1>3, <1>4, <3>1 DEF Has
  <2>2. CASE call.arguments = None
    <3>1. call.sent = 0 BY <1>1, <1>3, <2>2
    <3> QED BY <1>2, <1>4, <3>1, NoneOfIt
  <2> QED BY <2>1, <2>2
<1>6. s.sent > 0 => s.arguments # None /\ ~s.quoted BY <1>3, <1>4
<1>7. Has(c, n, s, Given(t, s)) BY <1>3, <1>4, <1>5 DEF Has
<1> QED BY <1>1, <1>6, <1>7 DEF Underway

LEMMA HasOther ==
  ASSUME NEW c, NEW n, NEW call, NEW x, NEW y, Has(c, n, call, x),
         call.sent <= Len(y), SubSeq(x, 1, call.sent) = SubSeq(y, 1, call.sent)
  PROVE  Has(c, n, call, y)
BY DEF Has

LEMMA HasNow ==
  ASSUME NEW d, NEW c, NEW n \in Nat, NEW name, NEW part, Comes(d, c, n, Call(n + 1, name, part)), name # <<>>,
         NEW call, call.index = n + 1, call.sentOpen, call.name = name,
         NEW x, call.sent <= Len(x), SubSeq(x, 1, call.sent) = part
  PROVE  Has(d, n, call, x)
BY DEF Has, Comes

\* What a step sends while the object is open, and what is kept of it.
ReadyOf(t, s) == IF CanStream(s) THEN Given(t, s) ELSE <<>>
SentOf(s, ready) == [s EXCEPT !.sentOpen = s.name # <<>>, !.sent = Max({@, Len(ready)})]

LEMMA ReadySound ==
  ASSUME NEW t \in Symbols, NEW s, NEW n \in Nat, NEW c \in Seq(CallRecord), Numbered(c), Underway(s, t, n, c),
         NEW ready, ready = ReadyOf(t, s),
         NEW d, d = MergeAll(c, Announced(s) \o Fragment(s, ready)),
         NEW o, o = SentOf(s, ready)
  PROVE  Underway(o, t, n, d) /\ d \in Seq(CallRecord) /\ \A k \in 1..n : d[k] = c[k]
<1> USE DEF ReadyOf, SentOf
<1>1. s \in OpenRecord /\ s.sent \in Nat /\ s.arguments <= Len(t) /\ s.index = n + 1 /\ s.sentOpen \in BOOLEAN
  BY DEF Underway, OpenRecord, Has
<1>2. Given(t, s) \in Symbols /\ Len(Given(t, s)) \in Nat BY <1>1, GivenType
<1>3. Has(c, n, s, Given(t, s)) /\ (s.sent > 0 => s.arguments # None /\ ~s.quoted) BY DEF Underway
<1>4. Len(<<>>) = 0 /\ <<>> \in Symbols BY DEF Symbols
<1>5. Len(ready) \in Nat BY <1>2, <1>4
<1>6. PICK m : m = Max({s.sent, Len(ready)}) OBVIOUS
<1>7. m \in {s.sent, Len(ready)} /\ m >= s.sent /\ m >= Len(ready) /\ m \in Nat
  <2>1. PICK a \in Nat : a = s.sent BY <1>1
  <2>2. PICK b \in Nat : b = Len(ready) BY <1>5
  <2>3. a \in Int /\ b \in Int OBVIOUS
  <2>4. m = Max({a, b}) BY <1>6, <2>1, <2>2
  <2>5. m \in {a, b} /\ m >= a /\ m >= b BY <2>3, <2>4, OneOfTwo
  <2>6. m \in Nat BY <2>5
  <2> QED BY <2>1, <2>2, <2>5, <2>6
<1>8. /\ o \in OpenRecord /\ o.sent = m /\ (o.sentOpen <=> s.name # <<>>) /\ o.name = s.name /\ o.index = s.index
      /\ o.arguments = s.arguments /\ o.quoted = s.quoted
  <2>1. s \in OpenRecord /\ m \in Nat BY <1>1, <1>7
  <2>2. o = [s EXCEPT !.sentOpen = s.name # <<>>, !.sent = m] BY <1>6
  <2>3. PICK b \in BOOLEAN : b <=> s.name # <<>>
    <3>1. CASE s.name # <<>> BY <3>1
    <3>2. CASE s.name = <<>> BY <3>2
    <3> QED BY <3>1, <3>2
  <2>4. b = (s.name # <<>>) BY <2>3
  <2>5. o = [s EXCEPT !.sentOpen = b, !.sent = m] BY <2>2, <2>4
  <2> QED BY <2>1, <2>3, <2>5 DEF OpenRecord
<1>9. Given(t, o) = Given(t, s) BY <1>8 DEF Given
<1>10. CASE s.name = <<>>
  <2>1. ready = <<>> /\ ~s.sentOpen /\ s.sent = 0 BY <1>3, <1>10 DEF CanStream, Has
  <2>2. d = c BY <1>1, <1>10, <2>1, SendNothing
  <2>3. m = 0 /\ ~o.sentOpen BY <1>4, <1>7, <1>8, <1>10, <2>1
  <2>4. Has(c, n, o, Given(t, o)) BY <1>2, <1>3, <1>8, <1>9, <2>1, <2>3 DEF Has
  <2>5. Underway(o, t, n, c) BY <1>1, <1>8, <2>3, <2>4 DEF Underway
  <2> QED BY <2>2, <2>5
<1>11. CASE s.name # <<>> /\ CanStream(s)
  <2>1. ready = Given(t, s) BY <1>11
  <2>2. Has(c, n, s, ready) /\ ready \in Symbols BY <1>2, <1>3, <2>1
  <2>3. Comes(d, c, n, Call(n + 1, s.name, ready)) BY <1>1, <1>11, <2>2, SendIs
  <2>4. s.sent <= Len(ready) BY <2>2 DEF Has
  <2>5. m = Len(ready) BY <1>1, <1>5, <1>7, <2>4
  <2>6. SubSeq(ready, 1, m) = ready BY <2>2, <2>5, WholeOf
  <2>7. Has(d, n, o, ready) 
    <3>1. o.sentOpen /\ o.index = n + 1 /\ o.name = s.name BY <1>1, <1>8, <1>11
    <3>2. o.sent <= Len(ready) /\ SubSeq(ready, 1, o.sent) = ready BY <1>5, <1>8, <2>5, <2>6
    <3> QED BY <1>11, <2>3, <3>1, <3>2, HasNow
  <2>8. o.arguments # None /\ ~o.quoted BY <1>8, <1>11 DEF CanStream
  <2>9. Underway(o, t, n, d) BY <1>1, <1>8, <1>9, <2>1, <2>7, <2>8 DEF Underway
  <2> QED BY <2>3, <2>9 DEF Comes
<1>12. CASE s.name # <<>> /\ ~CanStream(s)
  <2>1. ready = <<>> BY <1>12
  <2>2. s.sent = 0 BY <1>1, <1>3, <1>12 DEF CanStream
  <2>3. SubSeq(Given(t, s), 1, s.sent) = <<>> /\ SubSeq(ready, 1, s.sent) = <<>> BY <2>2, NoneOfIt
  <2>4. Has(c, n, s, ready) BY <1>3, <1>4, <2>1, <2>2, <2>3, HasOther
  <2>5. Comes(d, c, n, Call(n + 1, s.name, ready)) BY <1>1, <1>4, <1>12, <2>1, <2>4, SendIs
  <2>6. m = 0 BY <1>4, <1>7, <2>1, <2>2
  <2>7. SubSeq(Given(t, s), 1, m) = ready BY <2>1, <2>6, NoneOfIt
  <2>8. Has(d, n, o, Given(t, s)) 
    <3>1. o.sentOpen /\ o.index = n + 1 /\ o.name = s.name BY <1>1, <1>8, <1>12
    <3>2. o.sent = 0 BY <1>8, <2>6
    <3>3. o.sent <= Len(Given(t, s)) BY <1>2, <3>2
    <3>4. SubSeq(Given(t, s), 1, o.sent) = ready BY <2>6, <2>7, <3>2
    <3> QED BY <1>12, <2>5, <3>1, <3>3, <3>4, HasNow
  <2>9. Underway(o, t, n, d) BY <1>1, <1>8, <1>9, <2>6, <2>8 DEF Underway
  <2> QED BY <2>5, <2>9 DEF Comes
<1> QED BY <1>10, <1>11, <1>12

\* What is sent when it closes.
LEMMA CloseSound ==
  ASSUME NEW t \in Symbols, NEW s, NEW n \in Nat, NEW c \in Seq(CallRecord), Numbered(c), Underway(s, t, n, c),
         s.name # <<>>, NEW arguments \in Symbols, ~s.quoted => arguments = Given(t, s)
  PROVE  Comes(MergeAll(c, Announced(s) \o Fragment(s, arguments)), c, n, Call(n + 1, s.name, arguments))
<1>1. s \in OpenRecord /\ s.sent \in Nat BY DEF Underway, OpenRecord
<1>2. Has(c, n, s, Given(t, s)) /\ (s.sent > 0 => ~s.quoted) BY DEF Underway
<1>3. Len(arguments) \in Nat BY LenProperties DEF Symbols
<1>4. Has(c, n, s, arguments)
  <2>1. CASE s.quoted
    <3>1. s.sent = 0 BY <1>1, <1>2, <2>1
    <3>2. SubSeq(Given(t, s), 1, s.sent) = <<>> /\ SubSeq(arguments, 1, s.sent) = <<>> BY <3>1, NoneOfIt
    <3> QED BY <1>2, <1>3, <3>1, <3>2, HasOther
  <2>2. CASE ~s.quoted BY <1>2, <2>2
  <2> QED BY <2>1, <2>2
<1> QED BY <1>1, <1>4, SendIs

(***************************************************************************)
(* The stream.                                                             *)
(***************************************************************************)
\* The calls of a client and those that are reported.
Agreed(r, c) ==
  \A k \in 1..Len(r) :
    /\ c[k].index = k /\ r[k].index = k /\ c[k].name = r[k].name
    /\ c[k].arguments = r[k].arguments \/ (c[k].arguments = <<>> /\ r[k].arguments = Braces)

\* Every call that is reported is the client's, and of the one that is open the client has
\* the beginning of what it will be.
ToolInvariant ==
  /\ reply \in Replies /\ fed \in 0..Whole
  /\ calls \in Seq(CallRecord) /\ client \in Seq(CallRecord) /\ Numbered(client) /\ Agreed(calls, client)
  /\ cursor \in Nat \ {0} /\ trailing \in Nat
  /\ nextIndex = Len(calls) + (IF open = NoCall THEN 0 ELSE 1)
  /\ IF open = NoCall THEN Len(client) = Len(calls)
     ELSE pc # "done" /\ Underway(open, Arrived, Len(calls), client)

\* What has arrived grows.
LEMMA PrefixIs ==
  ASSUME NEW t \in Symbols, NEW a \in 0..Len(t)
  PROVE  SubSeq(t, 1, a) \in Symbols /\ Len(SubSeq(t, 1, a)) = a /\ \A i \in 1..a : SubSeq(t, 1, a)[i] = t[i]
BY DEF Symbols

LEMMA PrefixGrows ==
  ASSUME NEW t \in Symbols, NEW a \in 0..Len(t), NEW b \in a..Len(t)
  PROVE  Grown(SubSeq(t, 1, a), SubSeq(t, 1, b))
<1>1. b \in 0..Len(t) /\ a <= b /\ a \in Nat /\ b \in Nat OBVIOUS
<1>2. PICK x : x = SubSeq(t, 1, a) OBVIOUS
<1>3. PICK y : y = SubSeq(t, 1, b) OBVIOUS
<1>4. Len(x) = a /\ \A i \in 1..a : x[i] = t[i] BY <1>2, PrefixIs
<1>5. Len(y) = b /\ \A i \in 1..b : y[i] = t[i] BY <1>1, <1>3, PrefixIs
<1>6. Grown(x, y) BY <1>1, <1>4, <1>5 DEF Grown, Alike
<1> QED BY <1>2, <1>3, <1>6

LEMMA ArrivedIs ==
  ASSUME ToolInvariant
  PROVE  reply.text \in Symbols /\ Whole \in Nat /\ Arrived \in Symbols /\ Len(Arrived) = fed
<1>1. reply.text \in Symbols BY RepliesAssumption, WrittenType DEF ToolInvariant
<1>2. Len(reply.text) \in Nat BY <1>1 DEF Symbols
<1>3. fed \in 0..Len(reply.text) BY DEF ToolInvariant, Whole
<1> QED BY <1>1, <1>2, <1>3, PrefixIs DEF Whole, Arrived

LEMMA FamilyIs == Family \in Kinds
BY SelectParserType DEF Family

(***************************************************************************)
(* What a step makes of the object that is open.                           *)
(***************************************************************************)
LEMMA LocatedIs ==
  ASSUME Arrived \in Symbols, open \in OpenRecord, open.arguments <= Len(Arrived), NEW at \in Nat
  PROVE  Carries(open, Located(at)) /\ Located(at).arguments <= Len(Arrived)
<1>1. PICK s \in OpenRecord : s = open OBVIOUS
<1>2. CASE s.arguments # None \/ at = None \/ at > Len(Arrived)
  <2>1. Located(at) = s BY <1>1, <1>2 DEF Located
  <2> QED BY <1>1, <2>1 DEF Carries
<1>3. CASE ~(s.arguments # None \/ at = None \/ at > Len(Arrived))
  <2>1. PICK b \in BOOLEAN : b <=> Arrived[at] = "q"
    <3>1. CASE Arrived[at] = "q" BY <3>1
    <3>2. CASE Arrived[at] # "q" BY <3>2
    <3> QED BY <3>1, <3>2
  <2>2. b = (Arrived[at] = "q") BY <2>1
  <2>3. Located(at) = [s EXCEPT !.arguments = at, !.quoted = b] BY <1>1, <1>3, <2>2 DEF Located
  <2>4. PICK o : o = [s EXCEPT !.arguments = at, !.quoted = b] OBVIOUS
  <2>5. /\ o \in OpenRecord /\ o.arguments = at /\ o.index = s.index /\ o.json = s.json /\ o.name = s.name
        /\ o.sentOpen = s.sentOpen /\ o.sent = s.sent
    BY <2>4 DEF OpenRecord
  <2>6. Len(Arrived) \in Nat BY LenProperties DEF Symbols
  <2>7. at <= Len(Arrived) BY <1>3, <2>6
  <2>8. Carries(s, o) BY <1>3, <2>5 DEF Carries
  <2> QED BY <1>1, <2>3, <2>4, <2>5, <2>7, <2>8
<1> QED BY <1>2, <1>3

LEMMA ObjectLimitType ==
  ASSUME Arrived \in Symbols, open.json \in Nat \ {0}
  PROVE  ObjectEnd \in Nat /\ ObjectLimit \in Nat \ {0}
<1>1. ObjectEnd \in Nat BY SpanType DEF ObjectEnd
<1>2. Len(Arrived) \in Nat BY LenProperties DEF Symbols
<1> QED BY <1>1, <1>2 DEF ObjectLimit, None

LEMMA NameOfType ==
  ASSUME Arrived \in Symbols, open.json \in Nat \ {0}, NEW call \in OpenRecord
  PROVE  NameOf(call) \in Names
<1>1. ObjectLimit \in Nat BY ObjectLimitType
<1>2. call.arguments \in Nat /\ call.json \in Nat \ {0} BY DEF OpenRecord
<1>3. NameAt(Arrived, call.json, IF call.arguments = None THEN ObjectLimit ELSE call.arguments) \in Names
  BY <1>1, <1>2, NameAtType
<1>4. PICK before \in Names : before = NameAt(Arrived, call.json, IF call.arguments = None THEN ObjectLimit ELSE call.arguments)
  BY <1>3
<1>5. CASE before # <<>> \/ call.arguments = None BY <1>4, <1>5 DEF NameOf, NameAround
<1>6. CASE ~(before # <<>> \/ call.arguments = None)
  <2>1. call.arguments \in Nat \ {0} BY <1>2, <1>6 DEF None
  <2>2. PICK to \in Nat : to = SpanEnd(Arrived, call.arguments) BY <2>1, SpanType
  <2>3. NameOf(call) = NameAfter(to) BY <1>4, <1>6, <2>2 DEF NameOf, NameAround
  <2>4. CASE to = None
    <3>1. NameAfter(to) = <<>> BY <2>4 DEF NameAfter
    <3>2. <<>> \in Names BY DEF Names
    <3> QED BY <2>3, <3>1, <3>2
  <2>5. CASE to # None
    <3>1. NameAfter(to) = NameAt(Arrived, to, ObjectLimit) BY <2>5 DEF NameAfter
    <3>2. to \in Nat \ {0} BY <2>5 DEF None
    <3> QED BY <1>1, <2>3, <3>1, <3>2, NameAtType
  <2> QED BY <2>4, <2>5
<1> QED BY <1>5, <1>6

LEMMA WithNameIs ==
  ASSUME Arrived \in Symbols, open.json \in Nat \ {0}, NEW call, NEW s \in OpenRecord, Carries(call, s)
  PROVE  Carries(call, WithName(s)) /\ WithName(s).arguments = s.arguments
<1>1. CASE s.name # <<>> BY <1>1 DEF WithName
<1>2. CASE s.name = <<>>
  <2>1. PICK name \in Names : name = NameOf(s) BY NameOfType
  <2>2. WithName(s) = [s EXCEPT !.name = name] BY <1>2, <2>1 DEF WithName
  <2>3. PICK o : o = [s EXCEPT !.name = name] OBVIOUS
  <2>4. /\ o \in OpenRecord /\ o.arguments = s.arguments /\ o.index = s.index /\ o.json = s.json
        /\ o.quoted = s.quoted /\ o.sentOpen = s.sentOpen /\ o.sent = s.sent
    BY <2>3 DEF OpenRecord
  <2>5. call.name = <<>> BY <1>2 DEF Carries
  <2>6. Carries(call, o) BY <2>4, <2>5 DEF Carries
  <2> QED BY <2>2, <2>3, <2>4, <2>6
<1> QED BY <1>1, <1>2

LEMMA SteppedIs ==
  ASSUME ToolInvariant, open # NoCall
  PROVE  Underway(Stepped, Arrived, Len(calls), client)
<1>1. Arrived \in Symbols BY ArrivedIs
<1>2. Underway(open, Arrived, Len(calls), client) BY DEF ToolInvariant
<1>3. open \in OpenRecord /\ open.arguments <= Len(Arrived) BY <1>2 DEF Underway
<1>4. open.json \in Nat \ {0} BY <1>3 DEF OpenRecord
<1>5. ObjectLimit \in Nat BY <1>1, <1>4, ObjectLimitType
<1>6. PICK at \in Nat : at = ArgumentsAt(Arrived, open.json, ObjectLimit) BY <1>1, <1>4, <1>5, ArgumentsAtType
<1>7. PICK l : l = Located(at) OBVIOUS
<1>8. Carries(open, l) /\ l.arguments <= Len(Arrived) BY <1>1, <1>3, <1>7, LocatedIs
<1>9. l \in OpenRecord BY <1>8 DEF Carries
<1>10. Carries(open, WithName(l)) /\ WithName(l).arguments = l.arguments BY <1>1, <1>4, <1>8, <1>9, WithNameIs
<1>11. Stepped = WithName(l) BY <1>6, <1>7 DEF Stepped
<1>12. Stepped.arguments <= Len(Arrived) BY <1>8, <1>10, <1>11
<1> QED BY <1>1, <1>2, <1>10, <1>11, <1>12, UnderwayCarried

(***************************************************************************)
(* What is reported.                                                       *)
(***************************************************************************)
LEMMA UnescapedType == ASSUME NEW raw \in Symbols PROVE Unescaped(raw) \in Symbols
<1>1. Len(raw) \in Nat /\ DOMAIN raw = 1..Len(raw) /\ \A k \in 1..Len(raw) : raw[k] \in Symbol BY DEF Symbols
<1>2. PICK f : f = [k \in DOMAIN raw |-> IF raw[k] = "bs" THEN <<>> ELSE <<raw[k]>>] OBVIOUS
<1>3. \A k \in 1..Len(raw) : (IF raw[k] = "bs" THEN <<>> ELSE <<raw[k]>>) \in Seq(Symbol)
  <2>1. <<>> \in Seq(Symbol) OBVIOUS
  <2>2. TAKE k \in 1..Len(raw)
  <2>3. <<raw[k]>> \in Seq(Symbol) BY <1>1, OneIn
  <2> QED BY <2>1, <2>3
<1>4. f \in [1..Len(raw) -> Seq(Symbol)] BY <1>1, <1>2, <1>3
<1>5. f \in Seq(Seq(Symbol)) BY <1>1, <1>4
<1>6. FlattenSeq(f) \in Seq(Symbol) BY <1>5, FlattenType
<1> QED BY <1>2, <1>6 DEF Unescaped, Symbols

LEMMA UnquotedType == ASSUME NEW raw \in Symbols PROVE Unquoted(raw) \in Symbols
<1>1. CASE Len(raw) >= 2 /\ raw[Len(raw)] = "q"
  <2>1. Len(raw) \in Nat /\ DOMAIN raw = 1..Len(raw) BY DEF Symbols
  <2>2. \A k \in 2..(Len(raw) - 1) : raw[k] \in Symbol BY <2>1 DEF Symbols
  <2>3. SubSeq(raw, 2, Len(raw) - 1) \in Symbols BY <1>1, <2>1, <2>2 DEF Symbols
  <2>4. Unquoted(raw) = Unescaped(SubSeq(raw, 2, Len(raw) - 1)) BY <1>1 DEF Unquoted
  <2> QED BY <2>3, <2>4, UnescapedType
<1>2. CASE ~(Len(raw) >= 2 /\ raw[Len(raw)] = "q") BY <1>2 DEF Unquoted
<1> QED BY <1>1, <1>2

LEMMA AvailableIs == ASSUME NEW call PROVE Available(call) = Given(Arrived, call)
BY DEF Available, Given, Shown, UpTo

LEMMA CompleteIs ==
  ASSUME Arrived \in Symbols, NEW call \in OpenRecord, call.arguments <= Len(Arrived)
  PROVE  Complete(call) \in Symbols /\ (~call.quoted => Complete(call) = Given(Arrived, call))
<1>1. PICK raw \in Symbols : raw = Given(Arrived, call) BY GivenType
<1>2. Available(call) = raw BY <1>1, AvailableIs
<1>3. CASE call.quoted
  <2>1. Complete(call) = Unquoted(raw) BY <1>2, <1>3 DEF Complete
  <2> QED BY <1>3, <2>1, UnquotedType
<1>4. CASE ~call.quoted
  <2>1. Complete(call) = raw BY <1>2, <1>4 DEF Complete
  <2> QED BY <1>1, <2>1
<1> QED BY <1>3, <1>4

(***************************************************************************)
(* The client's list and the reported one.                                 *)
(***************************************************************************)
LEMMA NumberedMore ==
  ASSUME NEW c, NEW n \in Nat, Numbered(c), Len(c) \in Nat, n <= Len(c),
         NEW name, NEW part, NEW d, Comes(d, c, n, Call(n + 1, name, part))
  PROVE  Numbered(d)
<1>1. Call(n + 1, name, part).index = n + 1 BY DEF Call
<1>2. \A k \in 1..n : d[k].index = k
  <2>1. \A k \in 1..n : d[k] = c[k] BY DEF Comes
  <2>2. \A k \in 1..n : c[k].index = k BY DEF Numbered
  <2> QED BY <2>1, <2>2
<1>3. d[n + 1].index = n + 1 BY <1>1 DEF Comes
<1>4. \A k \in 1..(n + 1) : k \in 1..n \/ k = n + 1 OBVIOUS
<1> QED BY <1>2, <1>3, <1>4 DEF Comes, Numbered

LEMMA AgreedSame ==
  ASSUME NEW r, NEW c, NEW d, Agreed(r, c), \A k \in 1..Len(r) : d[k] = c[k]
  PROVE  Agreed(r, d)
BY DEF Agreed

OrBraces(arguments) == IF arguments = <<>> THEN Braces ELSE arguments
Longer(r, name, arguments) == Append(r, Call(Len(r) + 1, name, OrBraces(arguments)))

\* A client's list d takes the call that is reported next.
Follows(d, r, c, name, arguments) ==
  /\ r \in Seq(CallRecord) /\ Agreed(r, c) /\ name \in Names /\ arguments \in Symbols
  /\ Comes(d, c, Len(r), Call(Len(r) + 1, name, arguments))

LEMMA AgreedMore ==
  ASSUME NEW r, NEW c, NEW name, NEW arguments, NEW d, Follows(d, r, c, name, arguments),
         NEW n, n = Len(r)
  PROVE  LET q == Longer(r, name, arguments) IN q \in Seq(CallRecord) /\ Len(q) = n + 1 /\ Agreed(q, d)
<1>1. /\ r \in Seq(CallRecord) /\ Agreed(r, c) /\ name \in Names /\ arguments \in Symbols
      /\ Comes(d, c, n, Call(n + 1, name, arguments))
  BY DEF Follows
<1>2. PICK q : q = Longer(r, name, arguments) OBVIOUS
<1>3. n \in Nat BY <1>1
<1>4. Braces \in Symbols
  <2>1. PICK x : x = "{" OBVIOUS
  <2>2. PICK y : y = "}" OBVIOUS
  <2>3. x \in Symbol /\ y \in Symbol BY <2>1, <2>2 DEF Symbol
  <2>4. <<x, y>> \in Seq(Symbol) BY <2>3, TwoIn
  <2> QED BY <2>1, <2>2, <2>4 DEF Braces, Symbols
<1>5. PICK a \in Symbols : a = OrBraces(arguments) BY <1>1, <1>4 DEF OrBraces
<1>6. PICK x : x = Call(n + 1, name, a) OBVIOUS
<1>7. x \in CallRecord /\ x.index = n + 1 /\ x.name = name /\ x.arguments = a BY <1>1, <1>3, <1>6 DEF Call, CallRecord
<1>8. q = Append(r, x) BY <1>2, <1>5, <1>6 DEF Longer
<1>9. q \in Seq(CallRecord) /\ Len(q) = n + 1 /\ q[n + 1] = x /\ \A k \in 1..n : q[k] = r[k] BY <1>1, <1>7, <1>8
<1>10. d[n + 1].index = n + 1 /\ d[n + 1].name = name /\ d[n + 1].arguments = arguments BY <1>1 DEF Comes, Call
<1>11. \A k \in 1..n : d[k] = c[k] BY <1>1 DEF Comes
<1>12. \A k \in 1..n : /\ d[k].index = k /\ q[k].index = k /\ d[k].name = q[k].name
                       /\ d[k].arguments = q[k].arguments \/ (d[k].arguments = <<>> /\ q[k].arguments = Braces)
  BY <1>1, <1>9, <1>11 DEF Agreed
<1>13. a = arguments \/ (arguments = <<>> /\ a = Braces) BY <1>5 DEF OrBraces
<1>14. \A k \in 1..(n + 1) : k \in 1..n \/ k = n + 1 BY <1>3
<1>15. \A k \in 1..(n + 1) : /\ d[k].index = k /\ q[k].index = k /\ d[k].name = q[k].name
                             /\ d[k].arguments = q[k].arguments \/ (d[k].arguments = <<>> /\ q[k].arguments = Braces)
  BY <1>7, <1>9, <1>10, <1>12, <1>13, <1>14
<1> QED BY <1>2, <1>9, <1>15 DEF Agreed

(***************************************************************************)
(* Each action keeps the invariant.                                        *)
(***************************************************************************)
LEMMA ToolInitHolds == ToolInit => ToolInvariant
<1> SUFFICES ASSUME ToolInit PROVE ToolInvariant OBVIOUS
<1>1. reply \in Replies /\ fed = 0 /\ open = NoCall /\ nextIndex = 0 /\ calls = <<>> /\ client = <<>>
      /\ cursor = 1 /\ trailing = 0
  BY DEF ToolInit, None
<1>2. Len(reply.text) \in Nat BY <1>1, RepliesAssumption
<1>3. fed \in 0..Whole BY <1>1, <1>2 DEF Whole
<1>4. calls \in Seq(CallRecord) /\ client \in Seq(CallRecord) /\ Len(calls) = 0 /\ Len(client) = 0 BY <1>1
<1>5. Numbered(client) /\ Agreed(calls, client) BY <1>4 DEF Numbered, Agreed
<1> QED BY <1>1, <1>3, <1>4, <1>5 DEF ToolInvariant

LEMMA PutKeeps == ASSUME ToolInvariant, NEW n \in reply.chunks, Put(n) PROVE ToolInvariant'
<1>1. reply' = reply /\ calls' = calls /\ client' = client /\ cursor' = cursor /\ open' = open
      /\ trailing' = trailing /\ nextIndex' = nextIndex /\ pc' # "done"
  BY DEF Put, parser
<1>2. reply.text \in Symbols /\ Whole \in Nat BY ArrivedIs
<1>3. n \in Nat /\ fed \in 0..Whole BY RepliesAssumption DEF ToolInvariant
<1>4. PICK b : b = Min({fed + n, Whole}) OBVIOUS
<1>5. b \in fed..Whole
  <2>1. PICK x \in Nat : x = fed + n BY <1>3
  <2>2. PICK w \in Nat : w = Whole BY <1>2
  <2>3. x \in Int /\ w \in Int OBVIOUS
  <2>4. Min({x, w}) \in {x, w} /\ Min({x, w}) <= w BY <2>3, OneOfTwo
  <2> QED BY <1>3, <1>4, <2>1, <2>2, <2>4
<1>6. fed' = b BY <1>4 DEF Put
<1>7. Whole' = Whole /\ fed' \in 0..Whole' BY <1>1, <1>3, <1>5, <1>6 DEF Whole
<1>8. Arrived' = SubSeq(reply.text, 1, b) BY <1>1, <1>6 DEF Arrived
<1>9. Grown(Arrived, Arrived')
  <2>1. fed \in 0..Len(reply.text) /\ b \in fed..Len(reply.text) BY <1>3, <1>5 DEF Whole
  <2>2. Grown(SubSeq(reply.text, 1, fed), SubSeq(reply.text, 1, b)) BY <1>2, <2>1, PrefixGrows
  <2> QED BY <1>8, <2>2 DEF Arrived
<1>10. CASE open = NoCall BY <1>1, <1>7, <1>10 DEF ToolInvariant
<1>11. CASE open # NoCall
  <2>1. PICK t \in Symbols : t = Arrived BY ArrivedIs
  <2>2. PICK u : u = Arrived' OBVIOUS
  <2>3. u \in Symbols
    <3>1. b \in 0..Len(reply.text) BY <1>3, <1>5 DEF Whole
    <3> QED BY <1>2, <1>8, <2>2, <3>1, PrefixIs
  <2>4. PICK o : o = open OBVIOUS
  <2>5. Underway(o, t, Len(calls), client) BY <1>11, <2>1, <2>4 DEF ToolInvariant
  <2>6. Grown(t, u) BY <1>9, <2>1, <2>2
  <2>7. Underway(o, u, Len(calls), client) BY <2>3, <2>5, <2>6, UnderwayGrows
  <2>8. Underway(open', Arrived', Len(calls'), client') BY <1>1, <2>2, <2>4, <2>7
  <2> QED BY <1>1, <1>7, <1>11, <2>8 DEF ToolInvariant
<1> QED BY <1>10, <1>11

LEMMA FinishReplyKeeps == ASSUME ToolInvariant, FinishReply PROVE ToolInvariant'
<1>1. reply' = reply /\ fed' = fed /\ calls' = calls /\ client' = client /\ cursor' = cursor /\ open' = open
      /\ trailing' = trailing /\ nextIndex' = nextIndex /\ pc' # "done"
  BY DEF FinishReply, parser
<1>2. Whole' = Whole /\ Arrived' = Arrived BY <1>1 DEF Whole, Arrived
<1> QED BY <1>1, <1>2 DEF ToolInvariant

LEMMA WaitForEndKeeps == ASSUME ToolInvariant, WaitForEnd PROVE ToolInvariant'
<1>1. reply' = reply /\ fed' = fed /\ calls' = calls /\ client' = client /\ cursor' = cursor /\ open' = open
      /\ trailing' = trailing /\ nextIndex' = nextIndex /\ open = NoCall
  BY DEF WaitForEnd, parser
<1>2. Whole' = Whole BY <1>1 DEF Whole
<1> QED BY <1>1, <1>2 DEF ToolInvariant

LEMMA StepOpenKeeps == ASSUME ToolInvariant, StepOpen PROVE ToolInvariant'
<1>1. /\ reply' = reply /\ fed' = fed /\ calls' = calls /\ cursor' = cursor /\ trailing' = trailing
      /\ nextIndex' = nextIndex /\ open # NoCall /\ pc = "pushing"
  BY DEF StepOpen
<1>2. pc' # "done" BY <1>1 DEF StepOpen, Return, Final
<1>3. Whole' = Whole /\ Arrived' = Arrived BY <1>1 DEF Whole, Arrived
<1>4. PICK t \in Symbols : t = Arrived BY ArrivedIs
<1>5. PICK n \in Nat : n = Len(calls) BY DEF ToolInvariant
<1>6. PICK c \in Seq(CallRecord) : c = client BY DEF ToolInvariant
<1>7. PICK s : s = Stepped OBVIOUS
<1>8. Underway(s, t, n, c) /\ Numbered(c) BY <1>1, <1>4, <1>5, <1>6, <1>7, SteppedIs DEF ToolInvariant
<1>9. PICK ready : ready = ReadyOf(t, s) OBVIOUS
<1>10. Available(s) = Given(t, s) BY <1>4, AvailableIs
<1>11. SendReady(s, ready) BY <1>7, <1>9, <1>10 DEF StepOpen, Ready, ReadyOf
<1>12. PICK d : d = MergeAll(c, Announced(s) \o Fragment(s, ready)) OBVIOUS
<1>13. PICK o : o = SentOf(s, ready) OBVIOUS
<1>14. client' = d /\ open' = o BY <1>6, <1>11, <1>12, <1>13 DEF SendReady, Send, SentOf
<1>15. Underway(o, t, n, d) /\ d \in Seq(CallRecord) /\ \A k \in 1..n : d[k] = c[k]
  BY <1>8, <1>9, <1>12, <1>13, ReadySound
<1>16. Numbered(d)
  <2>1. Has(d, n, o, Given(t, o)) /\ o \in OpenRecord BY <1>15 DEF Underway
  <2>2. Has(c, n, s, Given(t, s)) /\ s \in OpenRecord BY <1>8 DEF Underway
  <2>3. Len(c) \in Nat /\ Len(d) \in Nat BY <1>15
  <2>4. n <= Len(c) BY <2>2, <2>3 DEF Has
  <2>5. \A k \in 1..n : c[k].index = k BY <1>8, <2>3, <2>4 DEF Numbered
  <2>6. \A k \in 1..n : d[k].index = k BY <1>15, <2>5
  <2>7. CASE o.sentOpen
    <3>1. Len(d) = n + 1 /\ d[n + 1] = Call(n + 1, o.name, SubSeq(Given(t, o), 1, o.sent)) BY <2>1, <2>7 DEF Has
    <3>2. d[n + 1].index = n + 1 BY <3>1 DEF Call
    <3>3. \A k \in 1..(n + 1) : k \in 1..n \/ k = n + 1 OBVIOUS
    <3> QED BY <2>6, <3>1, <3>2, <3>3 DEF Numbered
  <2>8. CASE ~o.sentOpen
    <3>1. Len(d) = n BY <2>1, <2>8 DEF Has
    <3> QED BY <2>6, <3>1 DEF Numbered
  <2> QED BY <2>7, <2>8
<1>17. Agreed(calls, d)
  <2>1. Agreed(calls, c) BY <1>6 DEF ToolInvariant
  <2> QED BY <1>5, <1>15, <2>1, AgreedSame
<1>18. o # NoCall BY <1>15, UnderwayIsCall
<1>19. Underway(open', Arrived', Len(calls'), client') BY <1>1, <1>3, <1>4, <1>5, <1>14, <1>15
<1>20. nextIndex' = Len(calls') + 1 BY <1>1 DEF ToolInvariant
<1> QED BY <1>1, <1>2, <1>3, <1>14, <1>15, <1>16, <1>17, <1>18, <1>19, <1>20 DEF ToolInvariant

LEMMA PlacesAfter ==
  ASSUME NEW a \in Nat \ {0}, NEW b \in Int
  PROVE  Max({a, b}) \in Nat \ {0}
<1>1. a \in Int OBVIOUS
<1>2. Max({a, b}) \in {a, b} /\ Max({a, b}) >= a BY <1>1, OneOfTwo
<1> QED BY <1>2

LEMMA CloseCallKeeps == ASSUME ToolInvariant, CloseCall PROVE ToolInvariant'
<1>1. /\ reply' = reply /\ fed' = fed /\ cursor' = Max({cursor, ObjectLimit}) /\ trailing' = ObjectLimit
      /\ nextIndex' = nextIndex /\ open # NoCall /\ open' = NoCall
  BY DEF CloseCall
<1>2. Whole' = Whole BY <1>1 DEF Whole
<1>3. PICK t \in Symbols : t = Arrived BY ArrivedIs
<1>4. PICK n \in Nat : n = Len(calls) BY DEF ToolInvariant
<1>5. PICK c \in Seq(CallRecord) : c = client BY DEF ToolInvariant
<1>6. PICK s : s = Stepped OBVIOUS
<1>7. Underway(s, t, n, c) /\ Numbered(c) BY <1>1, <1>3, <1>4, <1>5, <1>6, SteppedIs DEF ToolInvariant
<1>8. s \in OpenRecord /\ s.arguments <= Len(t) /\ s.index = n + 1 BY <1>7 DEF Underway, Has
<1>9. PICK a \in Symbols : a = Complete(s) /\ (~s.quoted => a = Given(t, s)) BY <1>3, <1>8, CompleteIs
<1>10. Report(s, a) BY <1>6, <1>9 DEF CloseCall, Reported
<1>11. s.name # <<>> BY <1>10 DEF Report
<1>12. PICK d : d = MergeAll(c, Announced(s) \o Fragment(s, a)) OBVIOUS
<1>13. client' = d BY <1>5, <1>10, <1>12 DEF Report, Send
<1>14. Comes(d, c, n, Call(n + 1, s.name, a)) BY <1>7, <1>9, <1>11, <1>12, CloseSound
<1>15. PICK r \in Seq(CallRecord) : r = calls BY DEF ToolInvariant
<1>16. PICK q : q = Append(r, Call(n + 1, s.name, OrBraces(a))) OBVIOUS
<1>17. calls' = q BY <1>8, <1>10, <1>15, <1>16 DEF Report, OrBraces
<1>18. s.name \in Names BY <1>8 DEF OpenRecord
<1>19. Agreed(r, c) /\ n = Len(r) BY <1>4, <1>5, <1>15 DEF ToolInvariant
<1>20. q \in Seq(CallRecord) /\ Len(q) = n + 1 /\ Agreed(q, d)
  <2>1. PICK name \in Names : name = s.name BY <1>18
  <2>2. Comes(d, c, n, Call(n + 1, name, a)) BY <1>14, <2>1
  <2>3. q = Longer(r, name, a) BY <1>16, <1>19, <2>1 DEF Longer
  <2>4. Agreed(r, c) /\ n = Len(r) BY <1>19
  <2>5. PICK l : l = Longer(r, name, a) OBVIOUS
  <2>6. Follows(d, r, c, name, a) BY <2>2, <2>4 DEF Follows
  <2>7. l \in Seq(CallRecord) /\ Len(l) = n + 1 /\ Agreed(l, d) BY <2>4, <2>5, <2>6, AgreedMore
  <2> QED BY <2>3, <2>5, <2>7
<1>21. Numbered(d)
  <2>1. Len(c) \in Nat /\ n <= Len(c) BY <1>7 DEF Underway, Has
  <2> QED BY <1>7, <1>14, <2>1, NumberedMore
<1>22. d \in Seq(CallRecord) /\ Len(d) = n + 1 BY <1>14 DEF Comes
<1>23. ObjectLimit \in Nat \ {0}
  <2>1. open \in OpenRecord BY <1>1 DEF ToolInvariant, Underway
  <2>2. open.json \in Nat \ {0} BY <2>1 DEF OpenRecord
  <2> QED BY <1>3, <2>2, ObjectLimitType
<1>24. Max({cursor, ObjectLimit}) \in Nat \ {0}
  <2>1. PICK x \in Nat \ {0} : x = cursor BY DEF ToolInvariant
  <2>2. PICK y \in Int : y = ObjectLimit BY <1>23
  <2> QED BY <2>1, <2>2, PlacesAfter
<1>25. nextIndex' = Len(calls') BY <1>1, <1>4, <1>17, <1>20 DEF ToolInvariant
<1>26. cursor' \in Nat \ {0} /\ trailing' \in Nat BY <1>1, <1>23, <1>24
<1>27. reply' \in Replies /\ fed' \in 0..Whole' BY <1>1, <1>2 DEF ToolInvariant
<1>28. Len(client') = Len(calls') BY <1>13, <1>17, <1>20, <1>22
<1>29. calls' \in Seq(CallRecord) /\ client' \in Seq(CallRecord) BY <1>13, <1>17, <1>20, <1>22
<1>30. Numbered(client') /\ Agreed(calls', client') BY <1>13, <1>17, <1>20, <1>21
<1>31. nextIndex' = Len(calls') + 0 BY <1>25, <1>29
<1> QED BY <1>1, <1>26, <1>27, <1>28, <1>29, <1>30, <1>31 DEF ToolInvariant

LEMMA CloseNamelessKeeps == ASSUME ToolInvariant, CloseNameless PROVE ToolInvariant'
<1>1. /\ reply' = reply /\ fed' = fed /\ calls' = calls /\ client' = client /\ cursor' = Max({cursor, ObjectLimit})
      /\ trailing' = trailing /\ open # NoCall /\ open' = NoCall /\ nextIndex' = nextIndex - 1
  BY DEF CloseNameless, GivesIndexBack
<1>2. Whole' = Whole BY <1>1 DEF Whole
<1>3. Underway(Stepped, Arrived, Len(calls), client) /\ Stepped.name = <<>> BY <1>1, SteppedIs DEF CloseNameless
<1>4. Len(calls) \in Nat BY DEF ToolInvariant
<1>5. Len(client) = Len(calls) BY <1>3, <1>4 DEF Underway, Has
<1>6. Max({cursor, ObjectLimit}) \in Nat \ {0}
  <2>1. Arrived \in Symbols BY ArrivedIs
  <2>2. open \in OpenRecord BY <1>1 DEF ToolInvariant, Underway
  <2>3. open.json \in Nat \ {0} BY <2>2 DEF OpenRecord
  <2>4. ObjectLimit \in Nat \ {0} BY <2>1, <2>3, ObjectLimitType
  <2>5. PICK x \in Nat \ {0} : x = cursor BY DEF ToolInvariant
  <2>6. PICK y \in Int : y = ObjectLimit BY <2>4
  <2> QED BY <2>5, <2>6, PlacesAfter
<1>7. nextIndex' = Len(calls) + 0 BY <1>1, <1>4 DEF ToolInvariant
<1>8. cursor' \in Nat \ {0} BY <1>1, <1>6
<1> QED BY <1>1, <1>2, <1>5, <1>7, <1>8 DEF ToolInvariant

(***************************************************************************)
(* A turn with no call open.                                               *)
(***************************************************************************)
LEMMA OpenCallIs ==
  ASSUME NEW t, t = Arrived, t \in Symbols, NEW n \in Nat, NEW c, Len(c) = n,
         NEW found \in Answers(t), found.is = "found"
  PROVE  Underway(OpenCall(n + 1, found), t, n, c)
<1>1. found.json \in 1..Len(t) /\ found.name \in Names BY DEF Answers
<1>2. Len(t) \in Nat BY LenProperties DEF Symbols
<1>3. PICK j \in 1..Len(t) : j = found.json BY <1>1
<1>4. PICK a : a = IF PayloadIsArguments(Family) THEN j ELSE None OBVIOUS
<1>5. a \in Nat /\ a <= Len(t) BY <1>2, <1>3, <1>4 DEF None
<1>6. PICK o : o = OpenCall(n + 1, found) OBVIOUS
<1>7. /\ o \in OpenRecord /\ o.arguments = a /\ o.sent = 0 /\ o.sentOpen = FALSE /\ o.quoted = FALSE /\ o.index = n + 1
  <2>1. o = [index |-> n + 1, json |-> j, name |-> found.name, sentOpen |-> FALSE, sent |-> 0,
             arguments |-> a, quoted |-> FALSE]
    BY <1>3, <1>4, <1>6 DEF OpenCall
  <2>2. j \in Nat \ {0} BY <1>2, <1>3
  <2> QED BY <1>1, <1>5, <2>1, <2>2 DEF OpenRecord
<1>8. 0 <= Len(Given(t, o)) BY <1>5, <1>7, GivenType
<1>9. Has(c, n, o, Given(t, o)) BY <1>7, <1>8 DEF Has
<1> QED BY <1>5, <1>6, <1>7, <1>9 DEF Underway

LEMMA ActKeeps ==
  ASSUME ToolInvariant, open = NoCall, pc # "done", NEW at \in Nat \ {0}, NEW same, NEW tracked,
         NEW found \in Answers(Arrived), NEW end \in Int, Act(at, same, tracked, found, end),
         UNCHANGED <<reply, fed, calls, client>>
  PROVE  ToolInvariant'
<1>1. reply' = reply /\ fed' = fed /\ calls' = calls /\ client' = client OBVIOUS
<1>2. Whole' = Whole /\ Arrived' = Arrived BY <1>1 DEF Whole, Arrived
<1>3. trailing' = 0 BY DEF Act, None
<1>4. Len(client) = Len(calls) /\ nextIndex = Len(calls) /\ Len(calls) \in Nat BY DEF ToolInvariant
<1>5. CASE found.is = "found" /\ open' = OpenCall(nextIndex + 1, found) /\ nextIndex' = nextIndex + 1 /\ cursor' = found.json
           /\ pc' = pc
  <2>1. PICK t : t = Arrived /\ t \in Symbols BY ArrivedIs
  <2>2. PICK n \in Nat : n = Len(calls) BY <1>4
  <2>3. PICK o : o = OpenCall(n + 1, found) OBVIOUS
  <2>4. open' = o BY <1>4, <1>5, <2>2, <2>3
  <2>5. Underway(o, t, n, client) BY <1>4, <1>5, <2>1, <2>2, <2>3, OpenCallIs
  <2>6. o # NoCall BY <2>5, UnderwayIsCall
  <2>7. Underway(open', Arrived', Len(calls'), client') BY <1>1, <1>2, <2>1, <2>2, <2>4, <2>5
  <2>8. cursor' \in Nat \ {0}
    <3>1. found.json \in 1..Len(t) BY <1>5, <2>1 DEF Answers
    <3>2. Len(t) \in Nat BY <2>1, LenProperties DEF Symbols
    <3> QED BY <1>5, <3>1, <3>2
  <2> QED BY <1>1, <1>2, <1>3, <1>4, <1>5, <2>4, <2>6, <2>7, <2>8 DEF ToolInvariant
<1>6. CASE cursor' = Max({at, end}) /\ open' = open /\ nextIndex' = nextIndex
  <2>1. cursor' \in Nat \ {0} BY <1>6, PlacesAfter
  <2> QED BY <1>1, <1>2, <1>3, <1>6, <2>1 DEF ToolInvariant
<1> QED BY <1>5, <1>6 DEF Act

LEMMA SafeEndType ==
  ASSUME Arrived \in Symbols, NEW from \in Nat
  PROVE  SafeEnd(from) \in Int
<1>1. Len(Arrived) \in Nat BY LenProperties DEF Symbols
<1>2. HeldBack(Family) \in Nat
  <2>1. HeldBack(Family) \in {Len(Start), Len(Fence) + 1} BY FamilyIs DEF HeldBack, Kinds
  <2>2. Len(Start) \in Nat /\ Len(Fence) \in Nat BY DEF Start, Fence
  <2> QED BY <2>1, <2>2
<1>3. PICK x \in Int : x = Len(Arrived) + 1 - HeldBack(Family) BY <1>1, <1>2
<1>4. from \in Int OBVIOUS
<1>5. Max({from, x}) \in {from, x} BY <1>4, OneOfTwo
<1>6. Max({from, x}) \in Int BY <1>5
<1> QED BY <1>1, <1>3, <1>6 DEF SafeEnd

LEMMA HeedKeeps ==
  ASSUME ToolInvariant, open = NoCall, pc # "done", NEW at \in Nat \ {0}, NEW same, NEW tracked,
         NEW found \in Answers(Arrived), Heed(at, same, tracked, found),
         UNCHANGED <<reply, fed, calls, client>>
  PROVE  ToolInvariant'
<1>1. Arrived \in Symbols BY ArrivedIs
<1>2. Len(Arrived) \in Nat BY <1>1, LenProperties DEF Symbols
<1>3. SafeEnd(at) \in Int BY <1>1, SafeEndType
<1>4. found.content \in Int BY DEF Answers
<1>5. PICK end : end = CASE found.is = "nothing" -> SafeEnd(at)
                         [] found.is = "pending" /\ Final -> Len(Arrived) + 1
                         [] OTHER -> found.content
  OBVIOUS
<1>6. end \in Int
  <2>1. CASE found.is = "nothing" BY <1>3, <1>5, <2>1
  <2>2. CASE found.is = "pending" /\ Final
    <3>1. end = Len(Arrived) + 1 BY <1>5, <2>2
    <3> QED BY <1>2, <3>1
  <2>3. CASE ~(found.is = "nothing") /\ ~(found.is = "pending" /\ Final) BY <1>4, <1>5, <2>3
  <2> QED BY <2>1, <2>2, <2>3
<1>7. Act(at, same, tracked, found, end) BY <1>5 DEF Heed
<1> QED BY <1>6, <1>7, ActKeeps

LEMMA FindNextKeeps ==
  ASSUME ToolInvariant, open = NoCall, pc # "done", NEW at \in Nat \ {0}, FindNext(at),
         UNCHANGED <<reply, fed, calls, client>>
  PROVE  ToolInvariant'
<1>1. PICK tracked : FindFrom(at, tracked) BY DEF FindNext
<1>2. PICK found : found = FindCall(Family, Arrived, at, tracked.tag) OBVIOUS
<1>3. found \in Answers(Arrived)
  <2>1. PICK t \in Symbols : t = Arrived BY ArrivedIs
  <2>2. PICK family \in Kinds : family = Family BY FamilyIs
  <2>3. PICK tag : tag = tracked.tag OBVIOUS
  <2>4. FindCall(family, t, at, tag) \in Answers(t) BY FindCallType
  <2> QED BY <1>2, <2>1, <2>2, <2>3, <2>4
<1>4. Heed(at, FALSE, tracked, found) BY <1>1, <1>2 DEF FindFrom
<1> QED BY <1>3, <1>4, HeedKeeps

LEMMA InterpretKeeps == ASSUME ToolInvariant, Interpret PROVE ToolInvariant'
<1>1. /\ open = NoCall /\ pc # "done" /\ UNCHANGED <<reply, fed, calls, client>>
      /\ TurnFrom(Max({cursor, Resumed}))
  BY DEF Interpret
<1>2. PICK t \in Symbols : t = Arrived BY ArrivedIs
<1>3. PICK family \in Kinds : family = Family BY FamilyIs
<1>4. Resumed \in Nat
  <2>1. CASE trailing = None BY <2>1 DEF Resumed, None
  <2>2. CASE trailing # None
    <3>1. PICK p \in Nat \ {0} : p = trailing BY <2>2 DEF ToolInvariant, None
    <3>2. AfterCall(family, t, p, Final) \in Nat BY AfterCallType
    <3> QED BY <1>2, <1>3, <2>2, <3>1, <3>2 DEF Resumed
  <2> QED BY <2>1, <2>2
<1>5. PICK from \in Nat \ {0} : from = Max({cursor, Resumed})
  <2>1. PICK x \in Nat \ {0} : x = cursor BY DEF ToolInvariant
  <2>2. PICK y \in Int : y = Resumed BY <1>4
  <2> QED BY <2>1, <2>2, PlacesAfter
<1>6. PICK next \in Answers(t) : next = NextInRegion(family, t, from) BY NextInRegionType
<1>7. PICK region1 : Turn(from, region1, next) BY <1>1, <1>2, <1>3, <1>5, <1>6 DEF TurnFrom
<1>8. CASE Heed(from, TRUE, fences, next) BY <1>1, <1>2, <1>8, HeedKeeps
<1>9. CASE FindNext(IF region1 THEN Max({from, AfterRegion(Family, Arrived, from)}) ELSE from)
  <2>1. PICK after \in Int : after = AfterRegion(family, t, from)
    <3>1. AfterRegion(family, t, from) \in Nat BY AfterRegionType
    <3> QED BY <3>1
  <2>2. Max({from, after}) \in Nat \ {0} BY PlacesAfter
  <2>3. PICK at \in Nat \ {0} : at = IF region1 THEN Max({from, after}) ELSE from BY <2>2
  <2>4. FindNext(at) BY <1>2, <1>3, <1>9, <2>1, <2>3
  <2> QED BY <1>1, <2>4, FindNextKeeps
<1> QED BY <1>7, <1>8, <1>9 DEF Turn

LEMMA ToolStepHolds == ToolInvariant /\ [ToolNext]_toolVars => ToolInvariant'
<1> SUFFICES ASSUME ToolInvariant, [ToolNext]_toolVars PROVE ToolInvariant' OBVIOUS
<1>1. CASE \E n \in reply.chunks : Put(n) BY <1>1, PutKeeps
<1>2. CASE FinishReply BY <1>2, FinishReplyKeeps
<1>3. CASE StepOpen BY <1>3, StepOpenKeeps
<1>4. CASE CloseCall BY <1>4, CloseCallKeeps
<1>5. CASE CloseNameless BY <1>5, CloseNamelessKeeps
<1>6. CASE WaitForEnd BY <1>6, WaitForEndKeeps
<1>7. CASE Interpret BY <1>7, InterpretKeeps
<1>8. CASE UNCHANGED toolVars
  <2>1. reply' = reply /\ fed' = fed /\ calls' = calls /\ client' = client /\ cursor' = cursor /\ open' = open
        /\ trailing' = trailing /\ nextIndex' = nextIndex /\ pc' = pc
    BY <1>8 DEF toolVars, parser
  <2>2. Whole' = Whole /\ Arrived' = Arrived BY <2>1 DEF Whole, Arrived
  <2> QED BY <2>1, <2>2 DEF ToolInvariant
<1> QED BY <1>1, <1>2, <1>3, <1>4, <1>5, <1>6, <1>7, <1>8 DEF ToolNext, Done

LEMMA ToolsAgree == ToolInvariant => ModesAgree
<1> SUFFICES ASSUME ToolInvariant, pc = "done" PROVE ModesAgree BY DEF ModesAgree
<1>1. open = NoCall BY DEF ToolInvariant
<1>2. Len(client) = Len(calls) /\ DOMAIN calls = 1..Len(calls) BY <1>1 DEF ToolInvariant
<1>3. Agreed(calls, client) BY DEF ToolInvariant
<1> QED BY <1>2, <1>3 DEF Agreed, ModesAgree

\* Whatever the model writes, however it is cut into pieces and wherever the budget of tokens ends
\* it, the deltas of a stream merge to the calls that are reported (toolcalls.py:12-16).
THEOREM StreamAgrees == ToolSpec => []ModesAgree
<1>1. ToolSpec => []ToolInvariant BY ToolInitHolds, ToolStepHolds, PTL DEF ToolSpec
<1> QED BY <1>1, ToolsAgree, PTL
================================================================================
