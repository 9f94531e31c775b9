---------------------------- MODULE SplittingProofs ----------------------------
(***************************************************************************)
(* The split of a checkpoint, proved for every checkpoint it is written    *)
(* for (Orderly), every list of names and of shards, and every kill and    *)
(* restart.  First the names: the modules of a resolved plan are apart     *)
(* from each other and cover the checkpoint, and the list the splitter     *)
(* works through is those that store anything.  Then the walk: what memory *)
(* holds and what is marked, one lemma per action.                         *)
(***************************************************************************)
EXTENDS Splitting, Collections, TLAPS

Path == Seq(STRING)

\* A path begins with another if it has the segments of it.
LEMMA PrefixIs ==
  ASSUME NEW s \in Path, NEW t \in Path
  PROVE  IsPrefix(s, t) <=> Len(s) <= Len(t) /\ \A i \in 1..Len(s) : s[i] = t[i]
<1>1. Len(s) \in Nat /\ Len(t) \in Nat BY LenProperties DEF Path
<1>2. CASE Len(s) <= Len(t)
  <2>1. SubSeq(s, 1, Len(s)) = s BY SubSeqFull DEF Path
  <2>2. \A i \in 1..Len(s) : t[i] \in STRING BY <1>1, <1>2, ElementOfSeq DEF Path
  <2>3. /\ SubSeq(t, 1, Len(s)) \in Path /\ Len(SubSeq(t, 1, Len(s))) = Len(s)
        /\ \A i \in 1..Len(s) : SubSeq(t, 1, Len(s))[i] = t[i]
    BY <1>1, <2>2, SubSeqProperties DEF Path
  <2>4. SubSeq(t, 1, Len(s)) = s <=> \A i \in 1..Len(s) : SubSeq(t, 1, Len(s))[i] = s[i]
    BY <2>3, SeqEqual DEF Path
  <2> QED BY <1>2, <2>1, <2>3, <2>4 DEF IsPrefix
<1> QED BY <1>2 DEF IsPrefix

\* Of two paths that a name begins with, one begins with the other.
LEMMA PrefixesNest ==
  ASSUME NEW p \in Path, NEW q \in Path, NEW n \in Path, IsPrefix(p, n), IsPrefix(q, n)
  PROVE  IsPrefix(p, q) \/ IsPrefix(q, p)
<1>1. Len(p) \in Nat /\ Len(q) \in Nat BY LenProperties DEF Path
<1> QED BY <1>1, PrefixIs

\* What begins with a path that begins with another begins with that.
LEMMA PrefixOf ==
  ASSUME NEW p \in Path, NEW q \in Path, NEW n \in Path, IsPrefix(p, q), IsPrefix(q, n)
  PROVE  IsPrefix(p, n)
<1>1. Len(p) \in Nat /\ Len(q) \in Nat /\ Len(n) \in Nat BY LenProperties DEF Path
<1> QED BY <1>1, PrefixIs

Unnested(p, q) == ~ IsPrefix(p, q) /\ ~ IsPrefix(q, p)

-----------------------------------------------------------------------------
(***************************************************************************)
(* The modules outside the streamed ones.                                  *)
(***************************************************************************)
Cuts(n) == {c \in 1 .. Len(n) - 1 : Clear(SubSeq(n, 1, c))}
Left == {n \in Names : ~ \E s \in Streamed(Plan) : AtOrUnder(s, n)}
Group(n) == SubSeq(n, 1, Min(Cuts(n)))
Groups == {Group(n) : n \in {m \in Left : Cuts(m) # {}}}

\* The shallowest cut of a name that is clear of what is streamed.
LEMMA LeastCut ==
  ASSUME NEW n \in Path, Cuts(n) # {}
  PROVE  Min(Cuts(n)) \in Cuts(n) /\ \A c \in Cuts(n) : Min(Cuts(n)) <= c
<1>1. Len(n) \in Nat BY LenProperties DEF Path
<1>2. Cuts(n) \in SUBSET Int /\ IsFiniteSet(Cuts(n))
  <2>1. Cuts(n) \subseteq 1 .. Len(n) - 1 BY DEF Cuts
  <2>2. IsFiniteSet(1 .. Len(n) - 1) BY <1>1, FS_Interval
  <2>3. IsFiniteSet(Cuts(n)) BY <2>1, <2>2, FS_Subset
  <2> QED BY <1>1, <2>1, <2>3
<1> HIDE DEF Cuts
<1>3. \E m \in Cuts(n) : \A x \in Cuts(n) : m <= x BY <1>2, HasLeast
<1> QED BY <1>3 DEF Min

\* A cut of a name is a path the name is under.
LEMMA CutIs ==
  ASSUME NEW n \in Path, NEW c \in 1 .. Len(n) - 1
  PROVE  LET p == SubSeq(n, 1, c)
         IN  p \in Path /\ Len(p) = c /\ Under(p, n) /\ \A i \in 1 .. c : p[i] = n[i]
<1>1. Len(n) \in Nat BY LenProperties DEF Path
<1>2. \A i \in 1 .. c : n[i] \in STRING BY <1>1, ElementOfSeq DEF Path
<1>3. /\ SubSeq(n, 1, c) \in Path /\ Len(SubSeq(n, 1, c)) = c
      /\ \A i \in 1 .. c : SubSeq(n, 1, c)[i] = n[i]
  BY <1>1, <1>2, SubSeqProperties DEF Path
<1>4. PICK p \in Path : p = SubSeq(n, 1, c) BY <1>3
<1>5. IsPrefix(p, n)
  <2>1. Len(p) = c /\ \A i \in 1 .. c : p[i] = n[i] BY <1>3, <1>4
  <2>2. Len(p) <= Len(n) /\ \A i \in 1 .. Len(p) : p[i] = n[i] BY <1>1, <2>1
  <2> QED BY <2>2, PrefixIs
<1>6. p # n BY <1>1, <1>3, <1>4
<1> QED BY <1>3, <1>4, <1>5, <1>6 DEF Under

\* They are found from the names that nothing streamed is a prefix of.
LEMMA GroupsAre == ResidentGroups(Names, Streamed(Plan)) = Groups
BY DEF ResidentGroups, Groups, Group, Left, Cuts, Clear

\* Each has names under it and is neither around nor inside anything streamed.
LEMMA GroupClear ==
  ASSUME Numbered, NEW g \in Groups, Streamed(Plan) \subseteq Path
  PROVE  g \in Path /\ \A s \in Streamed(Plan) : Unnested(g, s)
<1>1. PICK n \in Left : Cuts(n) # {} /\ g = Group(n) BY DEF Groups
<1>2. n \in Path BY DEF Left, Numbered, Path
<1> DEFINE c == Min(Cuts(n))
<1>3. c \in Cuts(n) BY <1>1, <1>2, LeastCut
<1>4. c \in 1 .. Len(n) - 1 /\ Clear(g) BY <1>1, <1>3 DEF Cuts, Group
<1>5. g \in Path /\ IsPrefix(g, n) BY <1>1, <1>2, <1>4, CutIs DEF Group, Under
<1>6. ASSUME NEW s \in Streamed(Plan), IsPrefix(s, g) PROVE FALSE
  <2>1. IsPrefix(s, n) BY <1>2, <1>5, <1>6, PrefixOf
  <2> QED BY <2>1 DEF Left, AtOrUnder
<1> QED BY <1>4, <1>5, <1>6 DEF Clear, AtOrUnder, Unnested

\* None is inside another: the name of the inner one has a clear cut at the outer one.
LEMMA GroupsApart ==
  ASSUME Numbered, NEW g \in Groups, NEW h \in Groups, Streamed(Plan) \subseteq Path, IsPrefix(g, h)
  PROVE  g = h
<1>1. PICK n \in Left : Cuts(n) # {} /\ g = Group(n) BY DEF Groups
<1>2. PICK m \in Left : Cuts(m) # {} /\ h = Group(m) BY DEF Groups
<1>3. n \in Path /\ m \in Path BY DEF Left, Numbered, Path
<1> DEFINE c == Min(Cuts(n))
           d == Min(Cuts(m))
<1>4. c \in Cuts(n) /\ d \in Cuts(m) /\ \A e \in Cuts(m) : d <= e BY <1>1, <1>2, <1>3, LeastCut
<1>5. c \in 1 .. Len(n) - 1 /\ d \in 1 .. Len(m) - 1 /\ Clear(g) BY <1>1, <1>4 DEF Cuts, Group
<1>6. g \in Path /\ Len(g) = c BY <1>1, <1>3, <1>5, CutIs DEF Group
<1>7. h \in Path /\ Len(h) = d /\ \A i \in 1 .. d : h[i] = m[i] BY <1>2, <1>3, <1>5, CutIs DEF Group
<1> HIDE DEF c, d
<1>8. c <= d /\ \A i \in 1 .. c : g[i] = h[i] BY <1>6, <1>7, PrefixIs
<1>9. Len(m) \in Nat /\ Len(n) \in Nat BY <1>3, LenProperties DEF Path
<1>10. c \in 1 .. Len(m) - 1 BY <1>5, <1>8, <1>9
<1>11. SubSeq(m, 1, c) \in Path /\ Len(SubSeq(m, 1, c)) = c /\ \A i \in 1 .. c : SubSeq(m, 1, c)[i] = m[i]
  BY <1>3, <1>10, CutIs
<1>12. SubSeq(m, 1, c) = g
  <2>1. \A i \in 1 .. c : SubSeq(m, 1, c)[i] = g[i] BY <1>5, <1>7, <1>8, <1>9, <1>11
  <2> QED BY <1>6, <1>11, <2>1, SeqEqual DEF Path
<1>13. c \in Cuts(m) BY <1>5, <1>10, <1>12 DEF Cuts
<1>14. c = d BY <1>4, <1>5, <1>8, <1>9, <1>13
<1> QED BY <1>6, <1>7, <1>8, <1>14, SeqEqual DEF Path

\* A name that nothing streamed is a prefix of, and that can be told from it, is under one of them.
LEMMA GroupsCover ==
  ASSUME Numbered, NEW n \in Left, Cuts(n) # {}
  PROVE  \E g \in Groups : Under(g, n)
<1>1. n \in Path BY DEF Left, Numbered, Path
<1>2. Min(Cuts(n)) \in 1 .. Len(n) - 1 BY <1>1, LeastCut DEF Cuts
<1>3. Under(Group(n), n) BY <1>1, <1>2, CutIs DEF Group
<1> QED BY <1>3 DEF Groups

\* There are no more than there are names.
LEMMA GroupsFinite == ASSUME Numbered PROVE IsFiniteSet(Groups)
<1> DEFINE M == {m \in Left : Cuts(m) # {}}
           f == [n \in M |-> Group(n)]
<1>1. IsFiniteSet(M)
  <2>1. M \subseteq Names BY DEF Left
  <2> QED BY <2>1, FS_Subset DEF Numbered
<1>2. IsFiniteSet({f[n] : n \in M})
  <2> HIDE DEF f, M
  <2> QED BY <1>1, ImageFinite
<1>3. {f[n] : n \in M} = Groups BY DEF Groups
<1> QED BY <1>2, <1>3

\* The plan a checkpoint is split by keeps these resident, and those its class declares.
LEMMA ResidentsAre == ASSUME NamesFit PROVE Plan.resident = ckpt.declared.resident \cup Groups
<1> DEFINE D == ckpt.declared
           found == DecoderPrefix(Names)
           R == Renamed(Names, D, found)
<1>1. DOMAIN D = Roles \cup {"resident"} /\ Stored(Names, Plan.layer_prefix) # {} BY DEF NamesFit, Stores
<1>2. ASSUME NEW q, DOMAIN q = Roles \cup {"resident"}, Plan = WithResidents(Names, q)
      PROVE  Plan.resident = q.resident \cup Groups
  <2>1. Streamed(Plan) = Streamed(q) BY <1>2 DEF WithResidents, Streamed, Roles
  <2>2. Plan.resident = q.resident \cup ResidentGroups(Names, Streamed(q)) BY <1>2 DEF WithResidents, Roles
  <2> QED BY <2>1, <2>2, GroupsAre
<1>3. CASE Stored(Names, D.layer_prefix) # {}
  <2>1. Plan = WithResidents(Names, D) BY <1>3 DEF Plan, Resolve
  <2> QED BY <1>1, <1>2, <2>1
<1>4. CASE Stored(Names, D.layer_prefix) = {} /\ found = None
  <2>1. Plan = D BY <1>4 DEF Plan, Resolve
  <2> QED BY <1>1, <1>4, <2>1
<1>5. CASE Stored(Names, D.layer_prefix) = {} /\ found # None
  <2>1. Plan = WithResidents(Names, R) BY <1>5 DEF Plan, Resolve
  <2>2. DOMAIN R = Roles \cup {"resident"} /\ R.resident = D.resident BY <1>1 DEF Renamed, Roles
  <2> QED BY <1>2, <2>1, <2>2
<1> QED BY <1>3, <1>4, <1>5

-----------------------------------------------------------------------------
(***************************************************************************)
(* The modules a checkpoint is split into.                                 *)
(***************************************************************************)
All == Modules(Names, Plan)
Apart(s) == \A i, j \in DOMAIN s : i # j /\ Stores(s[i]) /\ Stores(s[j]) => ~ IsPrefix(s[i], s[j])
Listed(s) == {s[i] : i \in DOMAIN s}
Aside(P, Q) == \A p \in P, q \in Q : Stores(p) /\ Stores(q) => Unnested(p, q)

\* Lists that are apart, and apart from each other, are apart when joined.
LEMMA ApartJoined ==
  ASSUME NEW s \in Seq(Path), NEW t \in Seq(Path), Apart(s), Apart(t), Aside(Listed(s), Listed(t))
  PROVE  s \o t \in Seq(Path) /\ Apart(s \o t) /\ Listed(s \o t) = Listed(s) \cup Listed(t)
<1> DEFINE u == s \o t
<1>1. Len(s) \in Nat /\ Len(t) \in Nat /\ DOMAIN s = 1..Len(s) /\ DOMAIN t = 1..Len(t) BY LenProperties
<1>2. /\ u \in Seq(Path) /\ DOMAIN u = 1..(Len(s) + Len(t))
      /\ \A i \in 1..(Len(s) + Len(t)) : u[i] = IF i <= Len(s) THEN s[i] ELSE t[i - Len(s)]
  BY ConcatProperties, LenProperties
<1>5. (\A i \in DOMAIN s : s[i] \in Listed(s)) /\ (\A j \in DOMAIN t : t[j] \in Listed(t)) BY DEF Listed
<1> HIDE DEF u
<1>3. ASSUME NEW i \in DOMAIN u, NEW j \in DOMAIN u, i # j, Stores(u[i]), Stores(u[j])
      PROVE  ~ IsPrefix(u[i], u[j])
  <2>1. CASE i <= Len(s) /\ j <= Len(s)
    <3>1. i \in DOMAIN s /\ j \in DOMAIN s /\ u[i] = s[i] /\ u[j] = s[j] BY <1>1, <1>2, <2>1
    <3> QED BY <1>3, <3>1 DEF Apart
  <2>2. CASE i <= Len(s) /\ ~(j <= Len(s))
    <3>1. i \in DOMAIN s /\ j - Len(s) \in DOMAIN t /\ u[i] = s[i] /\ u[j] = t[j - Len(s)] BY <1>1, <1>2, <2>2
    <3> QED BY <1>3, <1>5, <3>1 DEF Aside, Unnested
  <2>3. CASE ~(i <= Len(s)) /\ j <= Len(s)
    <3>1. j \in DOMAIN s /\ i - Len(s) \in DOMAIN t /\ u[j] = s[j] /\ u[i] = t[i - Len(s)] BY <1>1, <1>2, <2>3
    <3> QED BY <1>3, <1>5, <3>1 DEF Aside, Unnested
  <2>4. CASE ~(i <= Len(s)) /\ ~(j <= Len(s))
    <3>1. /\ i - Len(s) \in DOMAIN t /\ j - Len(s) \in DOMAIN t /\ i - Len(s) # j - Len(s)
          /\ u[i] = t[i - Len(s)] /\ u[j] = t[j - Len(s)]
      BY <1>1, <1>2, <1>3, <2>4
    <3> QED BY <1>3, <3>1 DEF Apart
  <2> QED BY <2>1, <2>2, <2>3, <2>4
<1>4. Listed(u) = Listed(s) \cup Listed(t)
  <2>1. ASSUME NEW x \in Listed(u) PROVE x \in Listed(s) \cup Listed(t)
    <3>1. PICK i \in DOMAIN u : x = u[i] BY DEF Listed
    <3>2. CASE i <= Len(s)
      <4>1. i \in DOMAIN s /\ x = s[i] BY <1>1, <1>2, <3>1, <3>2
      <4> QED BY <4>1 DEF Listed
    <3>3. CASE ~(i <= Len(s))
      <4>1. i - Len(s) \in DOMAIN t /\ x = t[i - Len(s)] BY <1>1, <1>2, <3>1, <3>3
      <4> QED BY <4>1 DEF Listed
    <3> QED BY <3>2, <3>3
  <2>2. ASSUME NEW x \in Listed(s) PROVE x \in Listed(u)
    <3>1. PICK i \in DOMAIN s : x = s[i] BY DEF Listed
    <3>2. i \in DOMAIN u /\ x = u[i] BY <1>1, <1>2, <3>1
    <3> QED BY <3>2 DEF Listed
  <2>3. ASSUME NEW x \in Listed(t) PROVE x \in Listed(u)
    <3>1. PICK i \in DOMAIN t : x = t[i] BY DEF Listed
    <3>2. i + Len(s) \in DOMAIN u /\ x = u[i + Len(s)] BY <1>1, <1>2, <3>1
    <3> QED BY <3>2 DEF Listed
  <2> QED BY <2>1, <2>2, <2>3
<1> QED BY <1>2, <1>3, <1>4 DEF u, Apart

Prefix == Plan.layer_prefix
Count == Cardinality(Blocks(Names, Prefix))
Leading == IF Plan.rotary = None THEN <<Plan.embed>> ELSE <<Plan.rotary, Plan.embed>>
Repeated == [i \in 1 .. Count |-> Layer(i)]
Closing == <<Plan.norm, Plan.lm_head>>
Resident == SetToSeq(Plan.resident)

LEMMA AllIs == All = Leading \o Repeated \o Closing \o Resident
BY DEF All, Modules, Leading, Repeated, Closing, Resident, Count, Prefix, Layer

\* The paths that are streamed.
LEMMA RolesAre ==
  ASSUME NamesFit
  PROVE  /\ Streamed(Plan) \subseteq Path
         /\ \A p \in {"embed", "layer_prefix", "norm", "lm_head"} : Plan[p] \in Streamed(Plan)
         /\ Plan.rotary # None => Plan.rotary \in Streamed(Plan)
BY DEF NamesFit, Streamed, Roles, Path

\* There are no more layers than there are numbers.
LEMMA CountIs == ASSUME DigitsAssumption PROVE Count \in 0 .. Len(Digits)
<1> DEFINE f == [i \in 1..Len(Digits) |-> Digits[i]]
<1>1. Len(Digits) \in Nat /\ DOMAIN Digits = 1..Len(Digits) BY LenProperties DEF DigitsAssumption
<1>2. f \in Surjection(1..Len(Digits), Digit) BY <1>1 DEF Surjection, Digit, ToSet
<1>3. IsFiniteSet(1..Len(Digits)) /\ Cardinality(1..Len(Digits)) = Len(Digits) BY <1>1, FS_Interval
<1>4. IsFiniteSet(Digit) /\ Cardinality(Digit) <= Len(Digits) BY <1>2, <1>3, FS_Surjection
<1>5. Blocks(Names, Prefix) \subseteq Digit BY DEF Blocks
<1>6. IsFiniteSet(Blocks(Names, Prefix)) /\ Count <= Cardinality(Digit) BY <1>4, <1>5, FS_Subset DEF Count
<1>7. Count \in Nat /\ Cardinality(Digit) \in Nat BY <1>4, <1>6, FS_CardinalityType DEF Count
<1> QED BY <1>1, <1>4, <1>6, <1>7

\* A numbered layer is the prefix and its number.
LEMMA LayerIs ==
  ASSUME DigitsAssumption, NamesFit, NEW i \in 1 .. Count
  PROVE  /\ Layer(i) \in Path /\ IsPrefix(Prefix, Layer(i)) /\ Len(Layer(i)) = Len(Prefix) + 1
         /\ Layer(i)[Len(Prefix) + 1] = Digits[i]
<1>1. Prefix \in Path BY RolesAre DEF Prefix
<1>2. Count \in 0 .. Len(Digits) /\ Len(Digits) \in Nat BY CountIs, LenProperties DEF DigitsAssumption
<1>3. Digits[i] \in STRING BY <1>2, ElementOfSeq DEF DigitsAssumption
<1>4. Len(Prefix) \in Nat BY <1>1, LenProperties DEF Path
<1>5. Layer(i) = Append(Prefix, Digits[i]) BY DEF Layer, Prefix
<1>6. PICK p \in Path : p = Prefix BY <1>1
<1>7. PICK q \in Path : q = Append(p, Digits[i]) BY <1>3, AppendProperties DEF Path
<1>8. Len(q) = Len(p) + 1 /\ q[Len(p) + 1] = Digits[i] /\ \A j \in 1..Len(p) : q[j] = p[j]
  BY <1>3, <1>7, AppendProperties DEF Path
<1>9. IsPrefix(p, q) BY <1>4, <1>6, <1>8, PrefixIs
<1> QED BY <1>5, <1>6, <1>7, <1>8, <1>9

\* What is not nested with the prefix is not nested with a layer.
LEMMA LayerUnnested ==
  ASSUME DigitsAssumption, NamesFit, NEW i \in 1 .. Count, NEW p \in Path, Unnested(p, Prefix)
  PROVE  Unnested(p, Layer(i))
<1>1. Prefix \in Path BY RolesAre DEF Prefix
<1>2. Layer(i) \in Path /\ IsPrefix(Prefix, Layer(i)) BY LayerIs
<1>3. ASSUME IsPrefix(p, Layer(i)) PROVE FALSE BY <1>1, <1>2, <1>3, PrefixesNest DEF Unnested
<1>4. ASSUME IsPrefix(Layer(i), p) PROVE FALSE BY <1>1, <1>2, <1>4, PrefixOf DEF Unnested
<1> QED BY <1>3, <1>4 DEF Unnested

\* What is kept resident is apart from what is streamed and from the layers.
LEMMA ResidentAside ==
  ASSUME Numbered, NamesFit, NEW r \in Plan.resident, Stores(r)
  PROVE  r \in Groups /\ r \in Path /\ \A s \in Streamed(Plan) : Unnested(r, s)
<1>1. r \in Groups BY ResidentsAre, GroupsAre DEF NamesFit
<1>2. Streamed(Plan) \subseteq Path BY RolesAre
<1> QED BY <1>1, <1>2, GroupClear

\* A finite set in some order.
LEMMA ListOfSet ==
  ASSUME NEW S, IsFiniteSet(S)
  PROVE  SetToSeq(S) \in Seq(S) /\ IsInjective(SetToSeq(S)) /\ Listed(SetToSeq(S)) = S
<1>1. Cardinality(S) \in Nat /\ ExistsBijection(1..Cardinality(S), S) BY FS_CardinalityType
<1>2. PICK g \in Bijection(1..Cardinality(S), S) : TRUE BY <1>1 DEF ExistsBijection
<1>3. g \in [1..Cardinality(S) -> S] /\ IsInjective(g)
  BY <1>2 DEF Bijection, Injection, IsInjective
<1>4. SetToSeq(S) \in [1..Cardinality(S) -> S] /\ IsInjective(SetToSeq(S)) BY <1>3 DEF SetToSeq
<1> DEFINE f == SetToSeq(S)
<1> HIDE DEF f
<1>5. f \in Injection(1..Cardinality(S), S) BY <1>4 DEF f, Injection
<1>6. IsFiniteSet(1..Cardinality(S)) /\ Cardinality(1..Cardinality(S)) = Cardinality(S) BY <1>1, FS_Interval
<1>7. f \in Surjection(1..Cardinality(S), S) BY <1>5, <1>6, FS_Injection
<1>8. Listed(f) = S BY <1>4, <1>7 DEF Listed, Surjection, f
<1>9. f \in Seq(S) BY <1>1, <1>4, SeqDef DEF f
<1> QED BY <1>4, <1>8, <1>9 DEF f

\* The four stretches of the list, each apart.
LEMMA LeadingApart ==
  ASSUME NamesFit
  PROVE  /\ Leading \in Seq(Path) /\ Apart(Leading)
         /\ Listed(Leading) = {Plan.embed} \cup (IF Plan.rotary = None THEN {} ELSE {Plan.rotary})
<1>1. Plan.embed \in Path /\ (Plan.rotary # None => Plan.rotary \in Path) BY RolesAre
<1>2. /\ Stores(Plan.embed) /\ Stores(Plan.rotary) => ~ IsPrefix(Plan.embed, Plan.rotary)
      /\ Stores(Plan.embed) /\ Stores(Plan.rotary) => ~ IsPrefix(Plan.rotary, Plan.embed)
  BY DEF NamesFit, Roles, AtOrUnder
<1>3. CASE Plan.rotary = None
  <2>1. Leading = <<Plan.embed>> BY <1>3 DEF Leading
  <2>2. Leading \in Seq(Path) BY <1>1, <2>1
  <2>3. Apart(Leading) BY <2>1 DEF Apart
  <2>4. Listed(Leading) = {Plan.embed} BY <2>1 DEF Listed
  <2> QED BY <1>3, <2>2, <2>3, <2>4
<1>4. CASE Plan.rotary # None
  <2>1. Leading = <<Plan.rotary, Plan.embed>> BY <1>4 DEF Leading
  <2>2. Leading \in Seq(Path) BY <1>1, <1>4, <2>1
  <2>3. Apart(Leading)
    <3>1. DOMAIN Leading = {1, 2} /\ Leading[1] = Plan.rotary /\ Leading[2] = Plan.embed BY <2>1
    <3> QED BY <1>2, <3>1 DEF Apart
  <2>4. Listed(Leading) = {Plan.embed, Plan.rotary}
    <3>1. DOMAIN Leading = {1, 2} /\ Leading[1] = Plan.rotary /\ Leading[2] = Plan.embed BY <2>1
    <3> QED BY <3>1 DEF Listed
  <2> QED BY <1>4, <2>2, <2>3, <2>4
<1> QED BY <1>3, <1>4

LEMMA ClosingApart ==
  ASSUME NamesFit
  PROVE  Closing \in Seq(Path) /\ Apart(Closing) /\ Listed(Closing) = {Plan.norm, Plan.lm_head}
<1>1. Plan.norm \in Path /\ Plan.lm_head \in Path BY RolesAre
<1>2. /\ Stores(Plan.norm) /\ Stores(Plan.lm_head) => ~ IsPrefix(Plan.norm, Plan.lm_head)
      /\ Stores(Plan.norm) /\ Stores(Plan.lm_head) => ~ IsPrefix(Plan.lm_head, Plan.norm)
  BY DEF NamesFit, Roles, AtOrUnder
<1>3. DOMAIN Closing = {1, 2} /\ Closing[1] = Plan.norm /\ Closing[2] = Plan.lm_head BY DEF Closing
<1>4. Closing \in Seq(Path) BY <1>1 DEF Closing
<1> QED BY <1>2, <1>3, <1>4 DEF Apart, Listed

LEMMA RepeatedApart ==
  ASSUME DigitsAssumption, NamesFit
  PROVE  Repeated \in Seq(Path) /\ Apart(Repeated) /\ Listed(Repeated) = {Layer(i) : i \in 1 .. Count}
<1>1. Count \in Nat /\ Count <= Len(Digits) /\ Len(Digits) \in Nat BY CountIs, LenProperties DEF DigitsAssumption
<1>2. DOMAIN Repeated = 1 .. Count /\ \A i \in 1 .. Count : Repeated[i] = Layer(i) BY DEF Repeated
<1>3. Repeated \in [1 .. Count -> Path] BY LayerIs DEF Repeated
<1>4. Repeated \in Seq(Path) BY <1>1, <1>3, SeqDef
<1>5. ASSUME NEW i \in 1 .. Count, NEW j \in 1 .. Count, i # j, IsPrefix(Layer(i), Layer(j)) PROVE FALSE
  <2>1. Prefix \in Path /\ Len(Prefix) \in Nat BY RolesAre, LenProperties DEF Prefix, Path
  <2>2. Layer(i) \in Path /\ Len(Layer(i)) = Len(Prefix) + 1 /\ Layer(i)[Len(Prefix) + 1] = Digits[i] BY LayerIs
  <2>3. Layer(j) \in Path /\ Layer(j)[Len(Prefix) + 1] = Digits[j] BY LayerIs
  <2>4. \A k \in 1 .. Len(Layer(i)) : Layer(i)[k] = Layer(j)[k] BY <1>5, <2>2, <2>3, PrefixIs
  <2>5. Layer(i)[Len(Prefix) + 1] = Layer(j)[Len(Prefix) + 1] BY <2>1, <2>2, <2>4
  <2>6. Digits[i] = Digits[j] BY <2>2, <2>3, <2>5
  <2>7. i \in DOMAIN Digits /\ j \in DOMAIN Digits BY <1>1, LenProperties DEF DigitsAssumption
  <2> QED BY <1>5, <2>6, <2>7 DEF DigitsAssumption, IsInjective
<1>6. Apart(Repeated) BY <1>2, <1>5 DEF Apart
<1>7. Listed(Repeated) = {Layer(i) : i \in 1 .. Count} BY <1>2 DEF Listed
<1> QED BY <1>4, <1>6, <1>7

LEMMA ResidentApart ==
  ASSUME Numbered, NamesFit
  PROVE  Resident \in Seq(Path) /\ Apart(Resident) /\ Listed(Resident) = Plan.resident
<1>1. Plan.resident = ckpt.declared.resident \cup Groups BY ResidentsAre
<1>2. IsFiniteSet(Plan.resident)
  <2>1. IsFiniteSet(ckpt.declared.resident) /\ IsFiniteSet(Groups) BY GroupsFinite DEF NamesFit
  <2> QED BY <1>1, <2>1, FS_Union
<1>3. Plan.resident \subseteq Path
  <2>1. Streamed(Plan) \subseteq Path BY RolesAre
  <2>2. Groups \subseteq Path BY <2>1, GroupClear
  <2> QED BY <1>1, <2>2 DEF NamesFit, Path
<1>4. Resident \in Seq(Plan.resident) /\ IsInjective(Resident) /\ Listed(Resident) = Plan.resident
  BY <1>2, ListOfSet DEF Resident
<1>5. Resident \in Seq(Path) BY <1>3, <1>4, SeqMonotonic
<1>6. ASSUME NEW i \in DOMAIN Resident, NEW j \in DOMAIN Resident, i # j, Stores(Resident[i]),
             Stores(Resident[j]), IsPrefix(Resident[i], Resident[j])
      PROVE  FALSE
  <2>1. Resident[i] \in Plan.resident /\ Resident[j] \in Plan.resident BY <1>4 DEF Listed
  <2>2. Resident[i] \in Groups /\ Resident[j] \in Groups BY <1>6, <2>1, ResidentAside
  <2>3. Resident[i] = Resident[j] BY <1>6, <2>2, GroupsApart, RolesAre
  <2> QED BY <1>4, <1>6, <2>3 DEF IsInjective
<1> QED BY <1>4, <1>5, <1>6 DEF Apart

\* The list as a whole.
LEMMA AllApart ==
  ASSUME DigitsAssumption, Numbered, NamesFit
  PROVE  /\ All \in Seq(Path) /\ Apart(All)
         /\ Listed(All) = Listed(Leading) \cup Listed(Repeated) \cup Listed(Closing) \cup Listed(Resident)
<1>1. /\ Leading \in Seq(Path) /\ Apart(Leading)
      /\ Listed(Leading) = {Plan.embed} \cup (IF Plan.rotary = None THEN {} ELSE {Plan.rotary})
  BY LeadingApart
<1>2. Closing \in Seq(Path) /\ Apart(Closing) /\ Listed(Closing) = {Plan.norm, Plan.lm_head} BY ClosingApart
<1>3. Repeated \in Seq(Path) /\ Apart(Repeated) /\ Listed(Repeated) = {Layer(i) : i \in 1 .. Count} BY RepeatedApart
<1>4. Resident \in Seq(Path) /\ Apart(Resident) /\ Listed(Resident) = Plan.resident BY ResidentApart
<1>5. \A p \in Listed(Leading), q \in {Plan.norm, Plan.lm_head, Prefix} : Stores(p) /\ Stores(q) => Unnested(p, q)
  BY <1>1 DEF NamesFit, Roles, Unnested, AtOrUnder, Prefix
<1>6. \A p \in {Plan.norm, Plan.lm_head} : Stores(p) => Unnested(p, Prefix)
  BY DEF NamesFit, Roles, Unnested, AtOrUnder, Prefix
<1>7. Prefix \in Streamed(Plan) /\ Stores(Prefix) BY RolesAre DEF NamesFit, Prefix
<1>8. Listed(Leading) \subseteq Streamed(Plan) /\ Listed(Closing) \subseteq Streamed(Plan)
  BY <1>1, <1>2, RolesAre
<1>9. Aside(Listed(Leading), Listed(Repeated))
  <2> SUFFICES ASSUME NEW p \in Listed(Leading), NEW i \in 1 .. Count, Stores(p) PROVE Unnested(p, Layer(i))
    BY <1>3 DEF Aside
  <2>1. p \in Path /\ Unnested(p, Prefix) BY <1>5, <1>7, <1>8, RolesAre
  <2> QED BY <2>1, LayerUnnested
<1>10. Aside(Listed(Leading), Listed(Closing)) BY <1>2, <1>5 DEF Aside
<1>11. Aside(Listed(Repeated), Listed(Closing))
  <2> SUFFICES ASSUME NEW p \in Listed(Closing), NEW i \in 1 .. Count, Stores(p) PROVE Unnested(p, Layer(i))
    BY <1>3 DEF Aside, Unnested
  <2>1. p \in Path /\ Unnested(p, Prefix) BY <1>2, <1>6, <1>8, RolesAre
  <2> QED BY <2>1, LayerUnnested
<1>12. ASSUME NEW P, P \subseteq Streamed(Plan) PROVE Aside(P, Listed(Resident))
  BY <1>4, <1>12, ResidentAside DEF Aside, Unnested
<1>13. Aside(Listed(Repeated), Listed(Resident))
  <2> SUFFICES ASSUME NEW r \in Plan.resident, NEW i \in 1 .. Count, Stores(r) PROVE Unnested(r, Layer(i))
    BY <1>3, <1>4 DEF Aside, Unnested
  <2>1. r \in Path /\ Unnested(r, Prefix) BY <1>7, ResidentAside
  <2> QED BY <2>1, LayerUnnested
<1> DEFINE u == Leading \o Repeated
           v == u \o Closing
<1>14. u \in Seq(Path) /\ Apart(u) /\ Listed(u) = Listed(Leading) \cup Listed(Repeated)
  BY <1>1, <1>3, <1>9, ApartJoined
<1> HIDE DEF u
<1>15. Aside(Listed(u), Listed(Closing)) BY <1>10, <1>11, <1>14 DEF Aside
<1>16. v \in Seq(Path) /\ Apart(v) /\ Listed(v) = Listed(u) \cup Listed(Closing)
  BY <1>2, <1>14, <1>15, ApartJoined
<1> HIDE DEF v
<1>17. Aside(Listed(v), Listed(Resident))
  <2>1. Aside(Listed(Leading), Listed(Resident)) /\ Aside(Listed(Closing), Listed(Resident)) BY <1>8, <1>12
  <2> QED BY <1>13, <1>14, <1>16, <2>1 DEF Aside
<1>18. v \o Resident \in Seq(Path) /\ Apart(v \o Resident) /\ Listed(v \o Resident) = Listed(v) \cup Listed(Resident)
  BY <1>4, <1>16, <1>17, ApartJoined
<1>19. All = v \o Resident BY AllIs DEF u, v
<1> QED BY <1>14, <1>16, <1>18, <1>19

\* Every name is under one of them.
LEMMA AllCover ==
  ASSUME DigitsAssumption, Numbered, NamesFit, NEW n \in Names
  PROVE  \E p \in Listed(All) : Under(p, n)
<1>1. /\ {Plan.embed, Plan.norm, Plan.lm_head} \subseteq Listed(All)
      /\ Plan.rotary # None => Plan.rotary \in Listed(All)
      /\ {Layer(i) : i \in 1 .. Count} \subseteq Listed(All)
      /\ Groups \subseteq Listed(All)
  BY AllApart, LeadingApart, ClosingApart, RepeatedApart, ResidentApart, ResidentsAre
<1>2. CASE \E s \in Streamed(Plan) : AtOrUnder(s, n)
  <2>1. PICK s \in Streamed(Plan) : IsPrefix(s, n) BY <1>2 DEF AtOrUnder
  <2>2. Under(s, n) BY <2>1 DEF Under, NamesFit
  <2>3. CASE s = Prefix
    <3>1. n \in Stored(Names, Prefix) BY <2>2, <2>3 DEF Stored
    <3>2. PICK i \in 1 .. Count : Under(Layer(i), n) BY <3>1 DEF NamesFit, Count, Prefix
    <3> QED BY <1>1, <3>2
  <2>4. CASE s # Prefix
    <3>1. s \in {Plan.embed, Plan.norm, Plan.lm_head} \/ (Plan.rotary # None /\ s = Plan.rotary)
      BY <2>1, <2>4 DEF Streamed, Prefix
    <3> QED BY <1>1, <2>2, <3>1
  <2> QED BY <2>3, <2>4
<1>3. CASE ~ \E s \in Streamed(Plan) : AtOrUnder(s, n)
  <2>1. n \in Left BY <1>3 DEF Left
  <2>2. Cuts(n) # {} BY <1>3 DEF NamesFit, Cuts
  <2>3. PICK g \in Groups : Under(g, n) BY <2>1, <2>2, GroupsCover
  <2> QED BY <1>1, <2>3
<1> QED BY <1>2, <1>3

\* The greatest of some shards.
LEMMA MaxIs ==
  ASSUME NEW S \in SUBSET Nat, IsFiniteSet(S), S # {}
  PROVE  Max(S) \in S /\ Max(S) \in Nat /\ \A x \in S : x <= Max(S)
<1>1. S \in SUBSET Int OBVIOUS
<1>2. \E m \in S : \A x \in S : m >= x BY <1>1, HasGreatest
<1>3. Max(S) \in S /\ \A x \in S : Max(S) >= x BY <1>2 DEF Max
<1> QED BY <1>3

\* The shards of the names under a path.
LEMMA ShardsOf ==
  ASSUME Numbered, NEW u
  PROVE  IsFiniteSet(Shards(u)) /\ Shards(u) \in SUBSET Nat
<1> DEFINE N == Stored(Names, u)
           f == ckpt.files
<1>1. N \subseteq Names BY DEF Stored
<1>2. IsFiniteSet(N) BY <1>1, FS_Subset DEF Numbered
<1>3. IsFiniteSet({f[n] : n \in N})
  <2> HIDE DEF f, N
  <2> QED BY <1>2, ImageFinite
<1>4. Shards(u) = {f[n] : n \in N} BY DEF Shards, Shard
<1> QED BY <1>1, <1>3, <1>4 DEF Numbered, Shards

\* The layers are those modules of the list that store anything, each at one place.
Chosen == {i \in DOMAIN All : Stored(Names, All[i]) # {}}
Arranged(at, k) ==
    /\ k \in Nat /\ at \in [1 .. k -> Chosen] /\ layers = [i \in 1 .. k |-> All[at[i]]]
    /\ \A i, j \in 1 .. k : at[i] = at[j] => i = j
    /\ \A c \in Chosen : \E i \in 1 .. k : at[i] = c

LEMMA LayersAre ==
  ASSUME Numbered, All \in Seq(Path), layers = Order(ckpt)
  PROVE  \E at, k : Arranged(at, k)
<1> DEFINE found == Chosen
           last == [i \in found |-> Max({ckpt.files[n] : n \in Stored(Names, All[i])})]
           earlier(i) == {j \in found : last[j] < last[i] \/ (last[j] = last[i] /\ j < i)}
           N == Cardinality(found)
           below == [i \in found |-> earlier(i)]
           at == [k \in 1 .. N |-> CHOOSE i \in found : Cardinality(earlier(i)) = k - 1]
<1>1. layers = [k \in 1 .. N |-> All[CHOOSE i \in found : Cardinality(earlier(i)) = k - 1]]
  BY DEF Order, All, Plan, Names, Chosen
<1>2. found \subseteq Nat /\ IsFiniteSet(found)
  <2>1. Len(All) \in Nat /\ DOMAIN All = 1 .. Len(All) BY LenProperties
  <2>2. IsFiniteSet(1 .. Len(All)) BY <2>1, FS_Interval
  <2> QED BY <2>1, <2>2, FS_Subset DEF Chosen
<1>3. \A i \in found : last[i] \in Nat
  <2>1. ASSUME NEW i \in found PROVE last[i] \in Nat
    <3>1. Shards(All[i]) # {} BY DEF Shards, Chosen
    <3>2. Max(Shards(All[i])) \in Nat BY <3>1, ShardsOf, MaxIs
    <3>3. last[i] = Max(Shards(All[i])) BY DEF Shards, Shard
    <3> QED BY <3>2, <3>3
  <2> QED BY <2>1
<1> HIDE DEF last
<1>4. below \in [found -> SUBSET found] OBVIOUS
<1>5. \A i \in found : i \notin below[i] BY <1>2, <1>3
<1>6. \A i, j \in found : i # j => i \in below[j] \/ j \in below[i] BY <1>2, <1>3
<1>7. \A i, j \in found : i \in below[j] => below[i] \subseteq below[j]
  <2> SUFFICES ASSUME NEW i \in found, NEW j \in found, i \in earlier(j), NEW m \in earlier(i) PROVE m \in earlier(j)
    OBVIOUS
  <2> QED BY <1>2, <1>3
<1>8. \A i \in found : below[i] = earlier(i) OBVIOUS
<1> HIDE DEF below, earlier, found
<1>9. Ranks(below, found)
  <2>1. Orders(below, found) BY <1>4, <1>5, <1>6, <1>7 DEF Orders
  <2> QED BY <1>2, <2>1, RanksAre
<1>10. /\ N \in Nat
       /\ \A i \in found : Cardinality(earlier(i)) \in 0 .. (N - 1)
       /\ \A i, j \in found : Cardinality(earlier(i)) = Cardinality(earlier(j)) => i = j
       /\ \A k \in 1 .. N : \E i \in found : Cardinality(earlier(i)) = k - 1
  BY <1>8, <1>9 DEF Ranks
<1> HIDE DEF N
<1>11. \A k \in 1 .. N : at[k] \in found /\ Cardinality(earlier(at[k])) = k - 1 BY <1>10
<1>12. at \in [1 .. N -> found] BY <1>11
<1>13. layers = [k \in 1 .. N |-> All[at[k]]] BY <1>1
<1> HIDE DEF at
<1>15. ASSUME NEW k \in 1 .. N, NEW m \in 1 .. N, at[k] = at[m] PROVE k = m
  <2>1. k - 1 = m - 1 BY <1>11, <1>15
  <2> QED BY <1>10, <2>1
<1>16. ASSUME NEW i \in found PROVE \E k \in 1 .. N : at[k] = i
  <2>1. PICK k \in 1 .. N : k - 1 = Cardinality(earlier(i))
    <3>1. Cardinality(earlier(i)) \in 0 .. (N - 1) BY <1>10
    <3>2. Cardinality(earlier(i)) + 1 \in 1 .. N BY <1>10, <3>1
    <3>3. (Cardinality(earlier(i)) + 1) - 1 = Cardinality(earlier(i)) BY <3>1
    <3> QED BY <3>2, <3>3
  <2>2. Cardinality(earlier(at[k])) = Cardinality(earlier(i)) /\ at[k] \in found BY <1>11, <2>1
  <2> QED BY <1>10, <2>2
<1>17. Arranged(at, N)
  <2>1. N \in Nat /\ found = Chosen BY <1>10 DEF found
  <2> QED BY <1>12, <1>13, <1>15, <1>16, <2>1 DEF Arranged
<1> QED BY <1>17

\* What the splitter is to write: units none of which is inside another, each of which stores
\* something, and which store all there is.
LayersFit ==
    /\ layers \in Seq(Path) /\ Len(layers) \in Nat /\ DOMAIN layers = 1 .. Len(layers)
    /\ \A i \in DOMAIN layers : Stored(Names, layers[i]) # {}
    /\ \A i, j \in DOMAIN layers : i # j => ~ IsPrefix(layers[i], layers[j])
    /\ \A n \in Names : \E i \in DOMAIN layers : Under(layers[i], n)

LEMMA LayersDoFit ==
  ASSUME DigitsAssumption, Numbered, NamesFit, layers = Order(ckpt)
  PROVE  LayersFit
<1>1. All \in Seq(Path) /\ Apart(All) BY AllApart
<1>2. PICK at, k : Arranged(at, k) BY <1>1, LayersAre
<1>3. /\ k \in Nat /\ at \in [1 .. k -> Chosen]
      /\ DOMAIN layers = 1 .. k /\ \A i \in 1 .. k : layers[i] = All[at[i]]
      /\ \A i, j \in 1 .. k : at[i] = at[j] => i = j
      /\ \A c \in Chosen : \E i \in 1 .. k : at[i] = c
  BY <1>2 DEF Arranged
<1>4. \A i \in DOMAIN All : All[i] \in Path BY <1>1, ElementOfSeq, LenProperties
<1>5. layers = [i \in 1 .. k |-> All[at[i]]] BY <1>2 DEF Arranged
<1>6. \A i \in 1 .. k : at[i] \in Chosen /\ at[i] \in DOMAIN All /\ layers[i] \in Path BY <1>3, <1>4 DEF Chosen
<1>7. layers \in Seq(Path)
  <2>1. layers \in [1 .. k -> Path] BY <1>3, <1>5, <1>6
  <2> QED BY <1>3, <2>1, SeqDef
<1>8. \A i \in 1 .. k : Stores(layers[i])
  <2>1. ASSUME NEW i \in 1 .. k PROVE Stores(layers[i])
    <3>1. Stored(Names, layers[i]) # {} BY <1>3, <1>6 DEF Chosen
    <3>2. layers[i] # None BY <1>6 DEF DigitsAssumption, Path
    <3> QED BY <3>1, <3>2 DEF Stores
  <2> QED BY <2>1
<1>9. ASSUME NEW i \in 1 .. k, NEW j \in 1 .. k, i # j PROVE ~ IsPrefix(layers[i], layers[j])
  <2>1. at[i] # at[j] /\ layers[i] = All[at[i]] /\ layers[j] = All[at[j]] BY <1>3, <1>9
  <2>2. Stores(All[at[i]]) /\ Stores(All[at[j]]) BY <1>8, <2>1
  <2> QED BY <1>1, <1>6, <2>1, <2>2 DEF Apart
<1>10. ASSUME NEW n \in Names PROVE \E i \in 1 .. k : Under(layers[i], n)
  <2>1. PICK p \in Listed(All) : Under(p, n) BY AllCover
  <2>2. PICK c \in DOMAIN All : p = All[c] BY DEF Listed
  <2>3. c \in Chosen BY <2>1, <2>2 DEF Stored, Chosen
  <2>4. PICK i \in 1 .. k : at[i] = c BY <1>3, <2>3
  <2> QED BY <1>3, <2>1, <2>2, <2>4
<1> QED BY <1>3, <1>7, <1>8, <1>9, <1>10, LenProperties DEF LayersFit, Stores

-----------------------------------------------------------------------------
(***************************************************************************)
(* The split.  Where it is in the list; the shards it has opened have left *)
(* in memory what the layers to come need of them (Loaded), no processed   *)
(* layer is ahead of the cursor (Passed).                                  *)
(***************************************************************************)
Fit == Numbered /\ LayersFit /\ LinksInOrder
At == Len(layers) - Len(todo)
Loaded(at, file, held) ==
    \A j \in at + 1 .. Len(layers), n \in Names :
        ~Passthrough(layers[j]) /\ Under(layers[j], n) /\ 0 < Shard(n) /\ Shard(n) < file => n \in held
Passed(at, file) == \A h \in 1 .. at : LastShard(layers[h]) <= file

\* A tensor is in one unit.
LEMMA OneUnit ==
  ASSUME Fit, NEW i \in DOMAIN layers, NEW j \in DOMAIN layers, NEW n \in Names,
         Under(layers[i], n), Under(layers[j], n)
  PROVE  i = j
<1>1. layers[i] \in Path /\ layers[j] \in Path BY ElementOfSeq DEF Fit, LayersFit
<1>2. n \in Path BY DEF Fit, Numbered, Path
<1>3. IsPrefix(layers[i], layers[j]) \/ IsPrefix(layers[j], layers[i]) BY <1>1, <1>2, PrefixesNest DEF Under
<1> QED BY <1>3 DEF Fit, LayersFit

\* A unit is at one place.
LEMMA OnePlace ==
  ASSUME Fit, NEW i \in DOMAIN layers, NEW j \in DOMAIN layers, layers[i] = layers[j]
  PROVE  i = j
<1>1. PICK n \in Stored(Names, layers[i]) : TRUE BY DEF Fit, LayersFit
<1>2. n \in Names /\ Under(layers[i], n) /\ Under(layers[j], n) BY DEF Stored
<1> QED BY <1>2, OneUnit

\* The last shard a layer touches.
LEMMA LastIs ==
  ASSUME Fit, NEW i \in DOMAIN layers
  PROVE  LET u == layers[i]
         IN  /\ LastShard(u) \in Nat /\ LastShard(u) \in Shards(u)
             /\ \A n \in Names : Under(u, n) => Shard(n) \in Nat /\ Shard(n) \in Shards(u) /\ Shard(n) <= LastShard(u)
<1>1. IsFiniteSet(Shards(layers[i])) /\ Shards(layers[i]) \in SUBSET Nat BY ShardsOf DEF Fit
<1>2. Shards(layers[i]) # {} BY DEF Shards, Fit, LayersFit
<1>3. /\ LastShard(layers[i]) \in Shards(layers[i]) /\ LastShard(layers[i]) \in Nat
      /\ \A x \in Shards(layers[i]) : x <= LastShard(layers[i])
  BY <1>1, <1>2, MaxIs DEF LastShard
<1>4. ASSUME NEW n \in Names, Under(layers[i], n) PROVE Shard(n) \in Shards(layers[i])
  BY <1>4 DEF Shards, Stored
<1> QED BY <1>1, <1>3, <1>4

\* A linked unit is its shard.
LEMMA LinkIsWhole ==
  ASSUME Fit, NEW i \in DOMAIN layers, Passthrough(layers[i])
  PROVE  Kept(LastShard(layers[i])) = Stored(Names, layers[i])
<1>1. IsFiniteSet(Shards(layers[i])) BY ShardsOf DEF Fit
<1>2. \A a, b \in Shards(layers[i]) : a = b
  <2>1. Cardinality(Shards(layers[i])) = 1 BY DEF Passthrough
  <2> QED BY <1>1, <2>1, FS_Singleton
<1>3. ASSUME NEW n \in Stored(Names, layers[i]) PROVE n \in Kept(LastShard(layers[i]))
  <2>1. n \in Names /\ Under(layers[i], n) BY DEF Stored
  <2>2. Shard(n) = LastShard(layers[i]) BY <1>2, <2>1, LastIs
  <2> QED BY <2>1, <2>2 DEF Kept
<1> QED BY <1>3 DEF Passthrough

\* One more shard is read.
LEMMA LoadedMore ==
  ASSUME Fit, NEW at \in Nat, NEW file \in Nat, NEW held, Loaded(at, file, held)
  PROVE  Loaded(at, file + 1, held \cup Kept(file))
<1> SUFFICES ASSUME NEW j \in at + 1 .. Len(layers), NEW n \in Names, ~Passthrough(layers[j]),
                    Under(layers[j], n), 0 < Shard(n), Shard(n) < file + 1
             PROVE  n \in held \cup Kept(file)
  BY DEF Loaded
<1>1. Shard(n) \in Nat BY DEF Fit, Numbered
<1>2. CASE Shard(n) = file BY <1>2 DEF Kept
<1>3. CASE Shard(n) < file BY <1>3 DEF Loaded
<1> QED BY <1>1, <1>2, <1>3

\* A layer is saved, and what memory held of it is dropped.
LEMMA LoadedDrop ==
  ASSUME Fit, NEW at \in Nat, at + 1 <= Len(layers), NEW file \in Nat, NEW held, Loaded(at, file, held)
  PROVE  Loaded(at + 1, file, held \ {n \in held : Under(layers[at + 1], n)})
<1> SUFFICES ASSUME NEW j \in (at + 1) + 1 .. Len(layers), NEW n \in Names, ~Passthrough(layers[j]),
                    Under(layers[j], n), 0 < Shard(n), Shard(n) < file
             PROVE  n \in held /\ ~ Under(layers[at + 1], n)
  BY DEF Loaded
<1>1. Len(layers) \in Nat /\ DOMAIN layers = 1 .. Len(layers) BY DEF Fit, LayersFit
<1>2. j \in at + 1 .. Len(layers) /\ j \in DOMAIN layers /\ at + 1 \in DOMAIN layers /\ j # at + 1 BY <1>1
<1>3. n \in held BY <1>2 DEF Loaded
<1>4. ~ Under(layers[at + 1], n) BY <1>2, OneUnit
<1> QED BY <1>3, <1>4

\* A layer is linked, and the cursor goes past its shard.
LEMMA LoadedSkip ==
  ASSUME Fit, NEW at \in Nat, at + 1 <= Len(layers), NEW file \in Nat, NEW held, Loaded(at, file + 1, held),
         Passed(at, file), Passthrough(layers[at + 1])
  PROVE  LET next == IF LastShard(layers[at + 1]) > file THEN LastShard(layers[at + 1]) ELSE file
         IN  next \in Nat /\ Loaded(at + 1, next + 1, held) /\ Passed(at + 1, next)
<1> DEFINE last == LastShard(layers[at + 1])
           next == IF last > file THEN last ELSE file
<1>1. Len(layers) \in Nat /\ DOMAIN layers = 1 .. Len(layers) BY DEF Fit, LayersFit
<1>2. at + 1 \in DOMAIN layers /\ last \in Nat BY <1>1, LastIs
<1>3. \A h \in 1 .. at : LastShard(layers[h]) \in Nat BY <1>1, LastIs
<1>4. Passed(at + 1, next)
  <2> SUFFICES ASSUME NEW h \in 1 .. at + 1 PROVE LastShard(layers[h]) <= next BY DEF Passed
  <2>1. CASE h = at + 1 BY <1>2, <2>1
  <2>2. CASE h \in 1 .. at
    <3>1. LastShard(layers[h]) <= file BY <2>2 DEF Passed
    <3> HIDE DEF last
    <3> QED BY <1>2, <1>3, <2>2, <3>1
  <2> QED BY <2>1, <2>2
<1>5. ASSUME NEW j \in (at + 1) + 1 .. Len(layers), NEW n \in Names, ~Passthrough(layers[j]),
             Under(layers[j], n), 0 < Shard(n), Shard(n) < next + 1
      PROVE  n \in held
  <2>1. j \in at + 1 .. Len(layers) /\ j \in DOMAIN layers /\ at + 1 < j BY <1>1, <1>5
  <2>2. Shard(n) \in Nat /\ Shard(n) \in Shards(layers[j]) BY <1>5, <2>1, LastIs
  <2>3. Shard(n) # last
    <3> SUFFICES ASSUME Shard(n) = last PROVE FALSE OBVIOUS
    <3>1. n \in Kept(last) BY DEF Kept
    <3>2. Under(layers[at + 1], n) BY <1>2, <3>1, LinkIsWhole DEF Stored
    <3> QED BY <1>2, <1>5, <2>1, <3>2, OneUnit
  <2>4. ~(file < Shard(n))
    <3> SUFFICES ASSUME file < Shard(n) PROVE FALSE OBVIOUS
    <3> HIDE DEF last
    <3>1. Shard(n) < last BY <1>2, <1>5, <2>2, <2>3
    <3>2. PICK h \in 1 .. (at + 1) - 1 : Shard(n) <= LastShard(layers[h])
      BY <1>2, <1>5, <2>1, <2>2, <3>1 DEF Fit, LinksInOrder, last
    <3>3. h \in 1 .. at /\ LastShard(layers[h]) <= file BY <3>2 DEF Passed
    <3> QED BY <1>3, <2>2, <3>2, <3>3
  <2>5. Shard(n) < file + 1 BY <2>2, <2>4
  <2> QED BY <1>5, <2>1, <2>5 DEF Loaded
<1>6. Loaded(at + 1, next + 1, held)
  <2> HIDE DEF next
  <2> QED BY <1>5 DEF Loaded
<1> QED BY <1>2, <1>4, <1>6

-----------------------------------------------------------------------------
(***************************************************************************)
(* The inductive invariant.  A marked unit is whole (Whole); a link stands *)
(* for a unit that is its shard, and while links hold, for one that is     *)
(* there (Kinds); what is done to the unit at the head of the list         *)
(* (AtUnit); and how far the split has come: the layers behind are marked, *)
(* and memory holds what was read for those ahead (Walk).                  *)
(***************************************************************************)
Typed == cursor \in Nat /\ ram \subseteq Names
Whole == \A v \in marks : v \in DOMAIN units /\ units[v].holds = Stored(Names, v)
Kinds ==
    \A v \in DOMAIN units : units[v].kind = "symlink" =>
        ckpt.link = "symlink" /\ Passthrough(v) /\ (LinksHold => LastShard(v) \in originals)
AtUnit(u) ==
    /\ pc \in {"copy", "link"} => Passthrough(u)
    /\ pc \in {"load", "write", "mark", "save"} => ~Passthrough(u)
    /\ pc \in {"copy", "write"} => u \notin marks
    /\ pc \in {"link", "mark"} => u \in DOMAIN units /\ units[u].holds = Stored(Names, u)
    /\ pc = "write" => Stored(Names, u) \subseteq ram
    /\ pc \in {"write", "mark"} => LastShard(u) <= cursor
    /\ pc = "save" => 0 \in Shards(u) /\ Kept(0) \subseteq ram
AtWork ==
    pc \notin {"off", "done", "next"} =>
        todo # <<>> /\ \A u \in Path : u = Unit => AtUnit(u)
Rest ==
    /\ todo \in Seq(Path) /\ Len(todo) <= Len(layers)
    /\ \A i \in 1 .. Len(todo) : todo[i] = layers[At + i]
Seen == IF pc = "load" THEN cursor ELSE cursor + 1
Marked == \A h \in 1 .. At : layers[h] \in marks
Walk ==
    \E at, file, now \in Nat, held \in SUBSET Names :
        /\ at = At /\ file = Seen /\ now = cursor /\ held = ram
        /\ Loaded(at, file, held) /\ Passed(at, now)
Complete == \A i \in DOMAIN layers : layers[i] \in marks
Inv ==
    /\ Fit /\ Typed /\ Whole /\ Kinds /\ AtWork
    /\ Running => Rest /\ Marked /\ Walk
    /\ pc = "done" => Complete

\* The checkpoint and the list do not change.
LEMMA Stays ==
  ASSUME UNCHANGED plan
  PROVE  /\ Names' = Names /\ layers' = layers /\ ckpt' = ckpt /\ (Fit' <=> Fit) /\ (LinksHold' <=> LinksHold)
         /\ \A u : Shards(u)' = Shards(u) /\ LastShard(u)' = LastShard(u) /\ (Passthrough(u)' <=> Passthrough(u))
         /\ \A file : Kept(file)' = Kept(file)
         /\ \A at, file, held : Loaded(at, file, held)' <=> Loaded(at, file, held)
         /\ \A at, file : Passed(at, file)' <=> Passed(at, file)
<1>1. ckpt' = ckpt /\ layers' = layers BY DEF plan
<1>2. Names' = Names BY <1>1 DEF Names
<1>3. \A u : Shards(u)' = Shards(u) BY <1>1, <1>2 DEF Shards, Shard
<1>4. \A u : LastShard(u)' = LastShard(u) BY <1>3 DEF LastShard
<1>5. \A file : Kept(file)' = Kept(file) BY <1>1, <1>2 DEF Kept, Shard
<1>6. \A u : Passthrough(u)' <=> Passthrough(u) BY <1>1, <1>2, <1>3, <1>4, <1>5 DEF Passthrough
<1>7. \A at, file, held : Loaded(at, file, held)' <=> Loaded(at, file, held)
  BY <1>1, <1>2, <1>6 DEF Loaded, Shard
<1>8. \A at, file : Passed(at, file)' <=> Passed(at, file) BY <1>1, <1>4 DEF Passed
<1>9. Numbered' <=> Numbered BY <1>1, <1>2 DEF Numbered, Files, Shard
<1>10. LayersFit' <=> LayersFit BY <1>1, <1>2 DEF LayersFit
<1>11. LinksInOrder' <=> LinksInOrder BY <1>1, <1>3, <1>4, <1>6 DEF LinksInOrder
<1> QED BY <1>1, <1>2, <1>3, <1>4, <1>5, <1>6, <1>7, <1>8, <1>9, <1>10, <1>11 DEF Fit, LinksHold

\* The unit at the head of the list.
LEMMA Here ==
  ASSUME Fit, Rest, todo # <<>>
  PROVE  /\ At \in Nat /\ At + 1 \in DOMAIN layers /\ At + 1 <= Len(layers)
         /\ Unit = layers[At + 1] /\ Unit \in Path
<1>1. Len(layers) \in Nat /\ DOMAIN layers = 1 .. Len(layers) BY DEF Fit, LayersFit
<1>2. todo \in Seq(Path) /\ Len(todo) \in Nat /\ Len(todo) <= Len(layers) BY LenProperties DEF Rest
<1>3. Len(todo) # 0 BY <1>2, EmptySeq
<1>4. Unit = todo[1] BY <1>2 DEF Unit
<1>5. 1 \in 1 .. Len(todo) BY <1>2, <1>3
<1>6. todo[1] = layers[At + 1] /\ todo[1] \in Path BY <1>2, <1>5, ElementOfSeq DEF Rest
<1> QED BY <1>1, <1>2, <1>3, <1>4, <1>6 DEF At

\* The list is left as it is.
LEMMA Keeps ==
  ASSUME Rest, Marked, UNCHANGED plan, todo' = todo, marks \subseteq marks'
  PROVE  Rest' /\ Marked' /\ At' = At
<1>1. layers' = layers BY DEF plan
<1>2. At' = At BY <1>1 DEF At
<1>3. Rest' BY <1>1, <1>2 DEF Rest
<1>4. Marked' BY <1>1, <1>2 DEF Marked
<1> QED BY <1>2, <1>3, <1>4

\* The head of the list is done.
LEMMA Advances ==
  ASSUME Fit, Rest, Marked, todo # <<>>, UNCHANGED plan, todo' = Tail(todo), marks \subseteq marks', Unit \in marks'
  PROVE  Rest' /\ Marked' /\ At' = At + 1
<1>1. layers' = layers BY DEF plan
<1>2. Len(layers) \in Nat BY DEF Fit, LayersFit
<1>3. todo \in Seq(Path) /\ Len(todo) \in Nat /\ Len(todo) <= Len(layers) BY LenProperties DEF Rest
<1>4. /\ todo' \in Seq(Path) /\ Len(todo') = Len(todo) - 1
      /\ \A i \in 1 .. Len(todo') : todo'[i] = todo[i + 1]
  BY <1>3, HeadTailProperties
<1>5. Len(todo) # 0 BY <1>3, EmptySeq
<1>6. At' = At + 1 BY <1>1, <1>2, <1>3, <1>4 DEF At
<1>7. At \in Nat BY <1>2, <1>3 DEF At
<1>8. Rest'
  <2>1. ASSUME NEW i \in 1 .. Len(todo') PROVE todo'[i] = layers'[At' + i]
    <3>1. i + 1 \in 1 .. Len(todo) BY <1>3, <1>4
    <3>2. todo[i + 1] = layers[At + (i + 1)] BY <3>1 DEF Rest
    <3>3. At' + i = At + (i + 1) BY <1>6, <1>7
    <3> QED BY <1>1, <1>4, <3>2, <3>3
  <2>2. Len(todo') <= Len(layers') BY <1>1, <1>2, <1>3, <1>4
  <2> QED BY <1>4, <2>1, <2>2 DEF Rest
<1>9. Marked'
  <2>1. ASSUME NEW h \in 1 .. At + 1 PROVE layers[h] \in marks'
    <3>1. CASE h = At + 1 BY <3>1, Here
    <3>2. CASE h \in 1 .. At BY <3>2 DEF Marked
    <3> QED BY <1>7, <3>1, <3>2
  <2> QED BY <1>1, <1>6, <2>1 DEF Marked
<1> QED BY <1>6, <1>8, <1>9

\* How far the split has come after a step.
LEMMA StepIsWalk ==
  ASSUME UNCHANGED plan, NEW a \in Nat, NEW f \in Nat, NEW c \in Nat, NEW h, h \subseteq Names,
         At' = a, Seen' = f, cursor' = c, ram' = h, Loaded(a, f, h), Passed(a, c)
  PROVE  Walk'
<1>1. Names' = Names /\ Loaded(a, f, h)' /\ Passed(a, c)' BY Stays
<1> QED BY <1>1 DEF Walk

\* No unit is written, and no original is removed but by a split that deletes them.
LEMMA KindsKept ==
  ASSUME Kinds, UNCHANGED plan, units' = units, originals \subseteq originals' \/ ckpt.deleting
  PROVE  Kinds'
<1> SUFFICES ASSUME NEW v \in DOMAIN units, units[v].kind = "symlink"
             PROVE  /\ ckpt.link = "symlink" /\ Passthrough(v)
                    /\ LinksHold => LastShard(v) \in originals'
  BY Stays DEF Kinds
<1>1. /\ ckpt.link = "symlink" /\ Passthrough(v)
      /\ LinksHold => LastShard(v) \in originals
  BY DEF Kinds
<1> QED BY <1>1 DEF LinksHold

\* A unit is written.
LEMMA WroteIs ==
  ASSUME NEW u, NEW kind, NEW holds, Wrote(u, kind, holds)
  PROVE  /\ DOMAIN units' = DOMAIN units \cup {u} /\ units'[u].kind = kind /\ units'[u].holds = holds
         /\ \A v \in DOMAIN units : v # u => units'[v] = units[v]
BY DEF Wrote, File

LEMMA KindsWrote ==
  ASSUME Kinds, UNCHANGED plan, originals' = originals, NEW u, NEW kind, NEW holds, Wrote(u, kind, holds),
         kind = "symlink" => ckpt.link = "symlink" /\ Passthrough(u) /\ LastShard(u) \in originals
  PROVE  Kinds'
<1> SUFFICES ASSUME NEW v \in DOMAIN units', units'[v].kind = "symlink"
             PROVE  /\ ckpt.link = "symlink" /\ Passthrough(v)
                    /\ LinksHold => LastShard(v) \in originals
  BY Stays DEF Kinds
<1>1. /\ DOMAIN units' = DOMAIN units \cup {u} /\ units'[u].kind = kind
      /\ \A w \in DOMAIN units : w # u => units'[w] = units[w]
  BY WroteIs
<1>2. CASE v = u BY <1>1, <1>2
<1>3. CASE v # u
  <2>1. v \in DOMAIN units BY <1>1, <1>3
  <2>2. units'[v] = units[v] BY <1>1, <1>3, <2>1
  <2> QED BY <2>1, <2>2 DEF Kinds
<1> QED BY <1>2, <1>3

LEMMA WholeWrote ==
  ASSUME Whole, UNCHANGED plan, marks' = marks, NEW u, NEW kind, NEW holds, Wrote(u, kind, holds),
         u \notin marks \/ holds = Stored(Names, u)
  PROVE  Whole'
<1> SUFFICES ASSUME NEW v \in marks PROVE v \in DOMAIN units' /\ units'[v].holds = Stored(Names, v)
  BY Stays DEF Whole
<1>1. v \in DOMAIN units /\ units[v].holds = Stored(Names, v) BY DEF Whole
<1> QED BY <1>1, WroteIs

LEMMA WholeMarked ==
  ASSUME Whole, UNCHANGED plan, units' = units, NEW u \in DOMAIN units, units[u].holds = Stored(Names, u),
         marks' \subseteq marks \cup {u}
  PROVE  Whole'
BY Stays DEF Whole

\* The place in the list stays, and what memory holds does not shrink.
LEMMA WalkKept ==
  ASSUME Fit, Rest, Walk, UNCHANGED plan, At' = At, Seen' = Seen, cursor' \in Nat, cursor <= cursor',
         ram \subseteq ram', ram' \subseteq Names
  PROVE  Walk'
<1>1. PICK at \in Nat, file \in Nat, now \in Nat, held \in SUBSET Names :
           /\ at = At /\ file = Seen /\ now = cursor /\ held = ram
           /\ Loaded(at, file, held) /\ Passed(at, now)
  BY DEF Walk
<1>2. PICK c \in Nat : c = cursor' OBVIOUS
<1>3. PICK h \in SUBSET Names : h = ram' OBVIOUS
<1>4. Loaded(at, file, h) BY <1>1, <1>3 DEF Loaded
<1>5. Passed(at, c)
  <2> SUFFICES ASSUME NEW i \in 1 .. at PROVE LastShard(layers[i]) <= c BY DEF Passed
  <2>1. LastShard(layers[i]) <= now /\ now <= c BY <1>1, <1>2 DEF Passed
  <2>2. i \in DOMAIN layers
    <3>1. Len(layers) \in Nat /\ DOMAIN layers = 1 .. Len(layers) BY DEF Fit, LayersFit
    <3>2. Len(todo) \in Nat BY LenProperties DEF Rest
    <3> QED BY <1>1, <3>1, <3>2 DEF At
  <2>3. LastShard(layers[i]) \in Nat BY <2>2, LastIs
  <2> QED BY <2>1, <2>3
<1> QED BY <1>1, <1>2, <1>3, <1>4, <1>5, StepIsWalk

\* The layer at the head of the list is linked.
LEMMA WalkLinks ==
  ASSUME Fit, Rest, Walk, todo # <<>>, UNCHANGED plan, At' = At + 1, Passthrough(Unit), Skip(Unit),
         ram' = ram, Seen = cursor + 1, Seen' = cursor' + 1
  PROVE  Walk' /\ cursor' \in Nat
<1>1. PICK at \in Nat, file \in Nat, now \in Nat, held \in SUBSET Names :
           /\ at = At /\ file = Seen /\ now = cursor /\ held = ram
           /\ Loaded(at, file, held) /\ Passed(at, now)
  BY DEF Walk
<1>2. at + 1 <= Len(layers) /\ Unit = layers[at + 1] BY <1>1, Here
<1>3. PICK c : c = IF LastShard(layers[at + 1]) > now THEN LastShard(layers[at + 1]) ELSE now OBVIOUS
<1>4. file = now + 1 BY <1>1
<1>5. c \in Nat /\ Loaded(at + 1, c + 1, held) /\ Passed(at + 1, c)
  BY <1>1, <1>2, <1>3, <1>4, LoadedSkip
<1>6. cursor' = c BY <1>1, <1>2, <1>3 DEF Skip
<1>7. at + 1 \in Nat /\ c + 1 \in Nat BY <1>5
<1>8. At' = at + 1 /\ Seen' = c + 1 /\ ram' = held /\ held \subseteq Names BY <1>1, <1>6
<1> QED BY <1>5, <1>6, <1>7, <1>8, StepIsWalk

\* The layer at the head of the list is saved.
LEMMA WalkSaves ==
  ASSUME Fit, Rest, Walk, todo # <<>>, UNCHANGED plan, At' = At + 1, LastShard(Unit) <= cursor,
         cursor' = cursor, ram' = ram \ Held, Seen = cursor + 1, Seen' = cursor' + 1
  PROVE  Walk'
<1>1. PICK at \in Nat, file \in Nat, now \in Nat, held \in SUBSET Names :
           /\ at = At /\ file = Seen /\ now = cursor /\ held = ram
           /\ Loaded(at, file, held) /\ Passed(at, now)
  BY DEF Walk
<1>2. at + 1 <= Len(layers) /\ Unit = layers[at + 1] BY <1>1, Here
<1>3. PICK h : h = held \ {n \in held : Under(layers[at + 1], n)} OBVIOUS
<1>4. Loaded(at + 1, file, h) BY <1>1, <1>2, <1>3, LoadedDrop
<1>5. Passed(at + 1, now)
  <2>1. ASSUME NEW i \in 1 .. at + 1 PROVE LastShard(layers[i]) <= now
    <3>1. CASE i = at + 1 BY <1>1, <1>2, <3>1
    <3>2. CASE i \in 1 .. at BY <1>1, <3>2 DEF Passed
    <3> QED BY <3>1, <3>2
  <2> QED BY <2>1 DEF Passed
<1>6. ram' = h BY <1>1, <1>2, <1>3 DEF Held
<1>7. at + 1 \in Nat /\ h \subseteq Names /\ cursor' = now /\ At' = at + 1 /\ Seen' = file BY <1>1, <1>3
<1> QED BY <1>1, <1>4, <1>5, <1>6, <1>7, StepIsWalk

\* A unit that is marked and not there is a link.
LEMMA MarkedAway ==
  ASSUME Whole, Kinds, NEW u \in marks, ~ Persisted(u)
  PROVE  ckpt.link = "symlink" /\ Passthrough(u)
<1>1. u \in DOMAIN units BY DEF Whole
<1>2. units[u].kind = "symlink" BY <1>1 DEF Persisted, Exists
<1> QED BY <1>1, <1>2 DEF Kinds

\* The process stops.
LEMMA StopStep ==
  ASSUME Inv, Stopped
  PROVE  Inv'
<1>1. UNCHANGED plan /\ marks' = marks /\ units' = units /\ originals' = originals BY DEF Stopped, disk
<1>2. pc' = "off" /\ ram' = {} /\ cursor' = cursor BY DEF Stopped
<1>3. Fit' BY <1>1, Stays DEF Inv
<1>4. Typed' BY <1>2 DEF Inv, Typed
<1>5. Whole' BY <1>1, Stays DEF Inv, Whole
<1>6. Kinds' BY <1>1, KindsKept DEF Inv
<1>7. AtWork' BY <1>2 DEF AtWork
<1> QED BY <1>2, <1>3, <1>4, <1>5, <1>6, <1>7 DEF Inv, Running

LEMMA StartStep ==
  ASSUME Inv, Start
  PROVE  Inv'
<1>1. /\ UNCHANGED plan /\ marks' = marks /\ units' = units /\ originals \subseteq originals'
      /\ ram' = {} /\ cursor' = 0
  BY DEF Start
<1>2. Fit' BY <1>1, Stays DEF Inv
<1>3. Typed' BY <1>1 DEF Typed
<1>4. Whole' BY <1>1, Stays DEF Inv, Whole
<1>5. Kinds' BY <1>1, KindsKept DEF Inv
<1>6. Len(layers) \in Nat /\ DOMAIN layers = 1 .. Len(layers) /\ layers \in Seq(Path) BY DEF Inv, Fit, LayersFit
<1>7. CASE \A u \in AllUnits : Persisted(u)
  <2>1. pc' = "done" BY <1>7 DEF Start
  <2>2. Complete
    <3>1. ASSUME NEW i \in DOMAIN layers PROVE layers[i] \in marks
      <4>1. layers[i] \in AllUnits BY <1>6 DEF AllUnits, ToSet
      <4> QED BY <1>7, <4>1 DEF Persisted
    <3> QED BY <3>1 DEF Complete
  <2>3. Complete' BY <1>1, <2>2, Stays DEF Complete
  <2>4. AtWork' BY <2>1 DEF AtWork
  <2> QED BY <1>2, <1>3, <1>4, <1>5, <2>1, <2>3, <2>4 DEF Inv, Running
<1>8. CASE ~ \A u \in AllUnits : Persisted(u)
  <2>1. pc' = "next" /\ todo' = layers BY <1>8 DEF Start
  <2>2. layers' = layers BY <1>1, Stays
  <2>3. At' = 0 BY <1>6, <2>1, <2>2 DEF At
  <2>4. Rest' BY <1>6, <2>1, <2>2, <2>3 DEF Rest
  <2>5. Marked' BY <2>3 DEF Marked
  <2>6. Seen' = 1 BY <1>1, <2>1 DEF Seen
  <2>7. Loaded(0, 1, {})
    <3> SUFFICES ASSUME NEW n \in Names, 0 < Shard(n), Shard(n) < 1 PROVE FALSE BY DEF Loaded
    <3>1. Shard(n) \in Nat BY DEF Inv, Fit, Numbered
    <3> QED BY <3>1
  <2>8. Passed(0, 0) BY DEF Passed
  <2>9. Walk' BY <1>1, <2>3, <2>6, <2>7, <2>8, StepIsWalk
  <2>10. AtWork' BY <2>1 DEF AtWork
  <2> QED BY <1>2, <1>3, <1>4, <1>5, <2>1, <2>4, <2>5, <2>9, <2>10 DEF Inv
<1> QED BY <1>7, <1>8

LEMMA FetchStep ==
  ASSUME Inv, Fetch
  PROVE  Inv'
<1>1. /\ UNCHANGED plan /\ marks' = marks /\ units' = units /\ originals \subseteq originals'
      /\ ram' = ram /\ cursor' = cursor /\ pc' = pc /\ todo' = todo
  BY DEF Fetch, process
<1>2. Fit' /\ layers' = layers BY <1>1, Stays DEF Inv
<1>3. Typed' BY <1>1, Stays DEF Inv, Typed
<1>4. Whole' BY <1>1, Stays DEF Inv, Whole
<1>5. Kinds' BY <1>1, KindsKept DEF Inv
<1>6. AtWork' BY <1>1, Stays DEF Inv, AtWork, AtUnit, Unit
<1>7. pc' = "done" => Complete' BY <1>1, <1>2 DEF Inv, Complete
<1>8. ASSUME Running' PROVE Rest' /\ Marked' /\ Walk'
  <2>1. Running BY <1>1, <1>8 DEF Running
  <2>2. Fit /\ Typed /\ Rest /\ Marked /\ Walk BY <2>1 DEF Inv
  <2>3. Rest' /\ Marked' /\ At' = At BY <1>1, <2>2, Keeps
  <2>4. Seen' = Seen BY <1>1 DEF Seen
  <2>5. Walk' BY <1>1, <2>2, <2>3, <2>4, WalkKept DEF Typed
  <2> QED BY <2>3, <2>5
<1> QED BY <1>2, <1>3, <1>4, <1>5, <1>6, <1>7, <1>8 DEF Inv

\* A link or a copy is made of the layer's only shard, or the layer is skipped.
LEMMA LinkOriginalStep ==
  ASSUME Inv, LinkOriginal
  PROVE  Inv'
<1>1. /\ UNCHANGED plan /\ originals' = originals /\ marks' = marks /\ ram' = ram
      /\ pc = "next" /\ todo # <<>> /\ Passthrough(Unit)
  BY DEF LinkOriginal
<1>2. Fit' /\ layers' = layers /\ Names' = Names BY <1>1, Stays DEF Inv
<1>3. Fit /\ Typed /\ Whole /\ Kinds /\ Rest /\ Marked /\ Walk BY <1>1 DEF Inv, Running
<1>4. PICK u \in Path : u = Unit /\ u = layers[At + 1] /\ At + 1 \in DOMAIN layers BY <1>1, <1>3, Here
<1>5. Seen = cursor + 1 BY <1>1 DEF Seen
<1>6. CASE Persisted(Unit)
  <2>1. Skip(Unit) /\ units' = units BY <1>6 DEF LinkOriginal
  <2>2. pc' = "next" /\ todo' = Tail(todo) BY <2>1 DEF Skip, Advance
  <2>3. Unit \in marks' BY <1>1, <1>6 DEF Persisted
  <2>4. Rest' /\ Marked' /\ At' = At + 1 BY <1>1, <1>3, <2>2, <2>3, Advances
  <2>5. Seen' = cursor' + 1 BY <2>2 DEF Seen
  <2>6. Walk' /\ cursor' \in Nat BY <1>1, <1>3, <1>5, <2>1, <2>4, <2>5, WalkLinks
  <2>7. Typed' BY <1>1, <1>2, <1>3, <2>6 DEF Typed
  <2>8. Whole' BY <1>1, <1>2, <1>3, <2>1 DEF Whole
  <2>9. Kinds' BY <1>1, <1>3, <2>1, KindsKept
  <2>10. AtWork' BY <2>2 DEF AtWork
  <2> QED BY <1>2, <2>2, <2>4, <2>6, <2>7, <2>8, <2>9, <2>10 DEF Inv
<1>7. CASE ~ Persisted(Unit)
  <2>1. /\ pc' = IF ckpt.link = "copy" THEN "copy" ELSE "link"
        /\ todo' = todo /\ cursor' = cursor
        /\ IF ckpt.link = "copy" THEN Wrote(u, "partial", {}) ELSE Wrote(u, ckpt.link, Kept(LastShard(u)))
    BY <1>4, <1>7 DEF LinkOriginal
  <2>2. Rest' /\ Marked' /\ At' = At BY <1>1, <1>3, <2>1, Keeps
  <2>3. Seen' = Seen BY <1>5, <2>1 DEF Seen
  <2>4. Walk' BY <1>1, <1>3, <2>1, <2>2, <2>3, WalkKept DEF Typed
  <2>5. Typed' BY <1>1, <1>2, <1>3, <2>1 DEF Typed
  <2>6. u = Unit' BY <1>4, <2>1 DEF Unit
  <2>7. Passthrough(u)' BY <1>1, <1>4, Stays
  <2>8. pc' \in {"copy", "link"} BY <2>1
  <2>9. CASE ckpt.link = "copy"
    <3>1. pc' = "copy" /\ Wrote(u, "partial", {}) BY <2>1, <2>9
    <3>2. u \notin marks BY <1>3, <1>4, <1>7, <2>9, MarkedAway
    <3>3. Whole' BY <1>1, <1>3, <3>1, <3>2, WholeWrote
    <3>4. Kinds' BY <1>1, <1>3, <3>1, KindsWrote
    <3>5. AtUnit(u)' BY <1>1, <2>7, <3>1, <3>2 DEF AtUnit
    <3>6. AtWork' BY <1>1, <2>1, <2>6, <3>5 DEF AtWork
    <3> QED BY <1>2, <2>2, <2>4, <2>5, <3>1, <3>3, <3>4, <3>6 DEF Inv
  <2>10. CASE ckpt.link # "copy"
    <3>1. pc' = "link" /\ Wrote(u, ckpt.link, Kept(LastShard(u))) BY <2>1, <2>10
    <3>2. Kept(LastShard(u)) = Stored(Names, u) BY <1>1, <1>3, <1>4, LinkIsWhole
    <3>3. LastShard(u) \in originals
      <4>1. Wanted = {LastShard(u)} BY <1>1, <1>4 DEF Wanted
      <4> QED BY <4>1 DEF LinkOriginal
    <3>4. Whole' BY <1>1, <1>3, <3>1, <3>2, WholeWrote
    <3>5. Kinds' BY <1>1, <1>3, <1>4, <3>1, <3>3, KindsWrote
    <3>6. u \in DOMAIN units' /\ units'[u].holds = Stored(Names, u) BY <3>1, <3>2, WroteIs
    <3>7. AtUnit(u)' BY <1>2, <2>7, <3>1, <3>6 DEF AtUnit
    <3>8. AtWork' BY <1>1, <2>1, <2>6, <3>7 DEF AtWork
    <3> QED BY <1>2, <2>2, <2>4, <2>5, <3>1, <3>4, <3>5, <3>8 DEF Inv
  <2> QED BY <2>9, <2>10
<1> QED BY <1>6, <1>7

\* What a step at a unit starts from.
LEMMA AtItsUnit ==
  ASSUME Inv, pc \notin {"off", "done", "next"}
  PROVE  /\ todo # <<>> /\ Fit /\ Typed /\ Whole /\ Kinds /\ Rest /\ Marked /\ Walk
         /\ \E u \in Path : u = Unit /\ AtUnit(u) /\ u = layers[At + 1] /\ At + 1 \in DOMAIN layers
<1>1. todo # <<>> /\ Fit /\ Typed /\ Whole /\ Kinds /\ Rest /\ Marked /\ Walk BY DEF Inv, AtWork, Running
<1>2. PICK u \in Path : u = Unit /\ u = layers[At + 1] /\ At + 1 \in DOMAIN layers BY <1>1, Here
<1>3. AtUnit(u) BY <1>2 DEF Inv, AtWork
<1> QED BY <1>1, <1>2, <1>3

LEMMA CopiedStep ==
  ASSUME Inv, Copied
  PROVE  Inv'
<1>1. /\ UNCHANGED plan /\ originals' = originals /\ marks' = marks /\ todo' = todo /\ ram' = ram
      /\ cursor' = cursor /\ pc = "copy" /\ pc' = "link"
  BY DEF Copied
<1>2. todo # <<>> /\ Fit /\ Typed /\ Whole /\ Kinds /\ Rest /\ Marked /\ Walk BY <1>1, AtItsUnit
<1>3. PICK u \in Path : u = Unit /\ AtUnit(u) /\ u = layers[At + 1] /\ At + 1 \in DOMAIN layers BY <1>1, AtItsUnit
<1>4. Fit' /\ Names' = Names BY <1>1, <1>2, Stays
<1>5. Passthrough(u) /\ Kept(LastShard(u)) = Stored(Names, u) BY <1>1, <1>2, <1>3, LinkIsWhole DEF AtUnit
<1>6. Wrote(u, "saved", Stored(Names, u)) BY <1>3, <1>5 DEF Copied
<1>7. Typed' BY <1>1, <1>2, <1>4 DEF Typed
<1>8. Whole' BY <1>1, <1>2, <1>6, WholeWrote
<1>9. Kinds' BY <1>1, <1>2, <1>6, KindsWrote
<1>10. AtWork'
  <2>1. u \in DOMAIN units' /\ units'[u].holds = Stored(Names, u) BY <1>6, WroteIs
  <2>2. Passthrough(u)' BY <1>1, <1>5, Stays
  <2>3. AtUnit(u)' BY <1>1, <1>4, <2>1, <2>2 DEF AtUnit
  <2>4. u = Unit' BY <1>1, <1>3 DEF Unit
  <2> QED BY <1>1, <1>2, <2>3, <2>4 DEF AtWork
<1>11. Rest' /\ Marked' /\ At' = At BY <1>1, <1>2, Keeps
<1>12. Seen' = Seen BY <1>1 DEF Seen
<1>13. Walk' BY <1>1, <1>2, <1>11, <1>12, WalkKept DEF Typed
<1> QED BY <1>1, <1>4, <1>7, <1>8, <1>9, <1>10, <1>11, <1>13 DEF Inv

LEMMA MarkLinkedStep ==
  ASSUME Inv, MarkLinked
  PROVE  Inv'
<1>1. /\ UNCHANGED plan /\ originals' = originals /\ units' = units /\ ram' = ram
      /\ pc = "link" /\ marks' = marks \cup {Unit} /\ Skip(Unit) /\ pc' = "next" /\ todo' = Tail(todo)
  BY DEF MarkLinked, Skip, Advance
<1>2. todo # <<>> /\ Fit /\ Typed /\ Whole /\ Kinds /\ Rest /\ Marked /\ Walk BY <1>1, AtItsUnit
<1>3. PICK u \in Path : u = Unit /\ AtUnit(u) BY <1>1, AtItsUnit
<1>4. Passthrough(u) /\ u \in DOMAIN units /\ units[u].holds = Stored(Names, u) BY <1>1, <1>3 DEF AtUnit
<1>5. Fit' /\ Names' = Names BY <1>1, <1>2, Stays
<1>6. Rest' /\ Marked' /\ At' = At + 1 BY <1>1, <1>2, Advances
<1>7. Seen = cursor + 1 /\ Seen' = cursor' + 1 BY <1>1 DEF Seen
<1>8. Walk' /\ cursor' \in Nat BY <1>1, <1>2, <1>3, <1>4, <1>6, <1>7, WalkLinks
<1>9. Typed' BY <1>1, <1>2, <1>5, <1>8 DEF Typed
<1>10. Whole' BY <1>1, <1>2, <1>3, <1>4, WholeMarked
<1>11. Kinds' BY <1>1, <1>2, KindsKept
<1>12. AtWork' BY <1>1 DEF AtWork
<1> QED BY <1>1, <1>5, <1>6, <1>8, <1>9, <1>10, <1>11, <1>12 DEF Inv

\* The cursor moves on, or the removal of the shard behind it raises.
LEMMA NextShardStep ==
  ASSUME Inv, NextShard
  PROVE  Inv'
<1>1. /\ UNCHANGED plan /\ units' = units /\ marks' = marks /\ todo' = todo /\ ram' = ram
      /\ pc = "next" /\ todo # <<>> /\ ~Passthrough(Unit)
      /\ originals' = originals \/ ckpt.deleting
      /\ \/ pc' = "load" /\ cursor' = cursor + 1
         \/ pc' = "off" /\ cursor' = cursor
  BY DEF NextShard, NeedsShard
<1>2. Fit /\ Typed /\ Whole /\ Kinds /\ Rest /\ Marked /\ Walk BY <1>1 DEF Inv, Running
<1>3. Fit' /\ Names' = Names /\ layers' = layers BY <1>1, <1>2, Stays
<1>4. cursor' \in Nat /\ cursor <= cursor' BY <1>1, <1>2 DEF Typed
<1>5. Typed' BY <1>1, <1>2, <1>3, <1>4 DEF Typed
<1>6. Whole' BY <1>1, <1>2, <1>3 DEF Whole
<1>7. Kinds' BY <1>1, <1>2, KindsKept
<1>8. CASE pc' = "off" BY <1>3, <1>5, <1>6, <1>7, <1>8 DEF Inv, AtWork, Running
<1>9. CASE pc' = "load" /\ cursor' = cursor + 1
  <2>1. Rest' /\ Marked' /\ At' = At BY <1>1, <1>2, Keeps
  <2>2. Seen' = Seen BY <1>1, <1>9 DEF Seen
  <2>3. Walk' BY <1>1, <1>2, <1>4, <2>1, <2>2, WalkKept DEF Typed
  <2>4. AtWork'
    <3>1. PICK u \in Path : u = Unit BY <1>1, <1>2, Here
    <3>2. ~Passthrough(u)' BY <1>1, <3>1, Stays
    <3>3. AtUnit(u)' BY <1>9, <3>2 DEF AtUnit
    <3>4. u = Unit' BY <1>1, <3>1 DEF Unit
    <3> QED BY <1>1, <3>3, <3>4 DEF AtWork
  <2> QED BY <1>3, <1>5, <1>6, <1>7, <1>9, <2>1, <2>3, <2>4 DEF Inv
<1> QED BY <1>1, <1>8, <1>9

\* The shard under the cursor is read.
LEMMA LoadShardStep ==
  ASSUME Inv, LoadShard
  PROVE  Inv'
<1>1. /\ UNCHANGED plan /\ units' = units /\ marks' = marks /\ originals' = originals /\ todo' = todo
      /\ cursor' = cursor /\ pc = "load" /\ pc' = "next" /\ ram' = ram \cup Kept(cursor)
  BY DEF LoadShard, disk
<1>2. Fit /\ Typed /\ Whole /\ Kinds /\ Rest /\ Marked /\ Walk BY <1>1, AtItsUnit
<1>3. Fit' /\ Names' = Names BY <1>1, <1>2, Stays
<1>4. Typed' BY <1>1, <1>2, <1>3 DEF Typed, Kept
<1>5. Whole' BY <1>1, <1>2, <1>3 DEF Whole
<1>6. Kinds' BY <1>1, <1>2, KindsKept
<1>7. AtWork' BY <1>1 DEF AtWork
<1>8. Rest' /\ Marked' /\ At' = At BY <1>1, <1>2, Keeps
<1>9. Walk'
  <2>1. PICK at \in Nat, file \in Nat, now \in Nat, held \in SUBSET Names :
             /\ at = At /\ file = Seen /\ now = cursor /\ held = ram
             /\ Loaded(at, file, held) /\ Passed(at, now)
    BY <1>2 DEF Walk
  <2>2. file = now /\ Seen' = file + 1 BY <1>1, <2>1 DEF Seen
  <2>3. PICK h : h = held \cup Kept(file) OBVIOUS
  <2>4. Loaded(at, file + 1, h) BY <1>2, <2>1, <2>3, LoadedMore
  <2>5. h \subseteq Names BY <2>1, <2>3 DEF Kept
  <2>6. ram' = h /\ At' = at /\ cursor' = now /\ file + 1 \in Nat BY <1>1, <1>8, <2>1, <2>2, <2>3
  <2> QED BY <1>1, <2>1, <2>2, <2>4, <2>5, <2>6, StepIsWalk
<1> QED BY <1>1, <1>3, <1>4, <1>5, <1>6, <1>7, <1>8, <1>9 DEF Inv

\* The only file is read.
LEMMA ReadSingleStep ==
  ASSUME Inv, ReadSingle
  PROVE  Inv'
<1>1. /\ UNCHANGED plan /\ units' = units /\ marks' = marks /\ originals' = originals /\ todo' = todo
      /\ cursor' = cursor /\ pc = "next" /\ pc' = "save" /\ ram' = ram \cup Kept(0)
      /\ todo # <<>> /\ ~Passthrough(Unit) /\ Shards(Unit) = {0}
  BY DEF ReadSingle, disk
<1>2. Fit /\ Typed /\ Whole /\ Kinds /\ Rest /\ Marked /\ Walk BY <1>1 DEF Inv, Running
<1>3. Fit' /\ Names' = Names BY <1>1, <1>2, Stays
<1>4. Typed' BY <1>1, <1>2, <1>3 DEF Typed, Kept
<1>5. Whole' BY <1>1, <1>2, <1>3 DEF Whole
<1>6. Kinds' BY <1>1, <1>2, KindsKept
<1>7. AtWork'
  <2>1. PICK u \in Path : u = Unit BY <1>1, <1>2, Here
  <2>2. ~Passthrough(u)' /\ 0 \in Shards(u)' /\ Kept(0)' \subseteq ram' BY <1>1, <2>1, Stays
  <2>3. AtUnit(u)' BY <1>1, <2>2 DEF AtUnit
  <2>4. u = Unit' BY <1>1, <2>1 DEF Unit
  <2> QED BY <1>1, <2>3, <2>4 DEF AtWork
<1>8. Rest' /\ Marked' /\ At' = At BY <1>1, <1>2, Keeps
<1>9. Seen' = Seen BY <1>1 DEF Seen
<1>10. Walk' BY <1>1, <1>2, <1>4, <1>3, <1>8, <1>9, WalkKept DEF Typed
<1> QED BY <1>1, <1>3, <1>4, <1>5, <1>6, <1>7, <1>8, <1>10 DEF Inv

\* When a layer is saved, memory holds all of it.
LEMMA AllIsHeld ==
  ASSUME Inv, Saveable
  PROVE  Stored(Names, Unit) \subseteq ram /\ LastShard(Unit) <= cursor
<1>1. todo # <<>> /\ ~Passthrough(Unit) /\ pc \in {"next", "save"} BY DEF Saveable
<1>2. Fit /\ Typed /\ Rest /\ Walk BY <1>1 DEF Inv, Running
<1>3. PICK u \in Path : u = Unit /\ u = layers[At + 1] /\ At + 1 \in DOMAIN layers BY <1>1, <1>2, Here
<1>4. /\ LastShard(u) \in Nat /\ LastShard(u) \in Shards(u)
      /\ \A n \in Names : Under(u, n) => Shard(n) \in Nat /\ Shard(n) \in Shards(u) /\ Shard(n) <= LastShard(u)
  BY <1>2, <1>3, LastIs
<1>5. CASE 0 \in Shards(u)
  <2>1. pc = "save" BY <1>3, <1>5 DEF Saveable
  <2>2. Kept(0) \subseteq ram BY <1>3, <2>1 DEF Inv, AtWork, AtUnit
  <2>3. 0 \in Files BY <1>5 DEF Shards, Stored, Files
  <2>4. \A n \in Names : Shard(n) = 0 BY <1>2, <2>3 DEF Fit, Numbered, Files
  <2>5. Stored(Names, u) \subseteq ram BY <2>2, <2>4 DEF Stored, Kept
  <2>6. LastShard(u) = 0
    <3>1. PICK n \in Names : Shard(n) = LastShard(u) BY <1>4 DEF Shards, Stored
    <3> QED BY <2>4, <3>1
  <2> QED BY <1>2, <1>3, <2>5, <2>6 DEF Typed
<1>6. CASE 0 \notin Shards(u)
  <2>1. pc = "next" /\ ~ (LastShard(u) > cursor) BY <1>1, <1>3, <1>6 DEF Saveable, NeedsShard
  <2>2. LastShard(u) <= cursor BY <1>2, <1>4, <2>1 DEF Typed
  <2>3. PICK at \in Nat, file \in Nat, now \in Nat, held \in SUBSET Names :
             /\ at = At /\ file = Seen /\ now = cursor /\ held = ram
             /\ Loaded(at, file, held) /\ Passed(at, now)
    BY <1>2 DEF Walk
  <2>4. file = now + 1 BY <2>1, <2>3 DEF Seen
  <2>5. at + 1 \in at + 1 .. Len(layers) /\ u = layers[at + 1]
    <3>1. Len(layers) \in Nat /\ DOMAIN layers = 1 .. Len(layers) BY <1>2 DEF Fit, LayersFit
    <3> QED BY <1>3, <2>3, <3>1
  <2>6. ASSUME NEW n \in Names, Under(u, n) PROVE n \in ram
    <3>1. Shard(n) \in Nat /\ Shard(n) # 0 /\ Shard(n) <= LastShard(u) BY <1>4, <1>6, <2>6
    <3>2. 0 < Shard(n) /\ Shard(n) < file BY <1>4, <2>2, <2>3, <2>4, <3>1
    <3>3. ~Passthrough(layers[at + 1]) /\ Under(layers[at + 1], n) BY <1>1, <1>3, <2>5, <2>6
    <3>4. n \in held BY <2>3, <2>5, <3>2, <3>3 DEF Loaded
    <3> QED BY <2>3, <3>4
  <2> QED BY <1>3, <2>2, <2>6 DEF Stored
<1> QED BY <1>5, <1>6

\* The file of the layer is opened, or the layer, which is there, is skipped.
LEMMA PersistStep ==
  ASSUME Inv, Persist
  PROVE  Inv'
<1>1. /\ UNCHANGED plan /\ originals' = originals /\ marks' = marks /\ cursor' = cursor
      /\ todo # <<>> /\ ~Passthrough(Unit) /\ pc \in {"next", "save"}
  BY DEF Persist, Saveable
<1>2. Fit /\ Typed /\ Whole /\ Kinds /\ Rest /\ Marked /\ Walk BY <1>1 DEF Inv, Running
<1>3. PICK u \in Path : u = Unit BY <1>1, <1>2, Here
<1>4. Stored(Names, Unit) \subseteq ram /\ LastShard(Unit) <= cursor BY AllIsHeld DEF Persist
<1>5. Fit' /\ Names' = Names BY <1>1, <1>2, Stays
<1>6. Seen = cursor + 1 BY <1>1 DEF Seen
<1>7. CASE Persisted(Unit)
  <2>1. ram' = ram \ Held /\ todo' = Tail(todo) /\ pc' = "next" /\ units' = units
    BY <1>7 DEF Persist, Advance
  <2>2. Unit \in marks' BY <1>1, <1>7 DEF Persisted
  <2>3. Rest' /\ Marked' /\ At' = At + 1 BY <1>1, <1>2, <2>1, <2>2, Advances
  <2>4. Seen' = cursor' + 1 BY <2>1 DEF Seen
  <2>5. Walk' BY <1>1, <1>2, <1>4, <1>6, <2>1, <2>3, <2>4, WalkSaves
  <2>6. Typed' BY <1>1, <1>2, <1>5, <2>1 DEF Typed
  <2>7. Whole' BY <1>1, <1>2, <1>5, <2>1 DEF Whole
  <2>8. Kinds' BY <1>1, <1>2, <2>1, KindsKept
  <2>9. AtWork' BY <2>1 DEF AtWork
  <2> QED BY <1>5, <2>1, <2>3, <2>5, <2>6, <2>7, <2>8, <2>9 DEF Inv
<1>8. CASE ~ Persisted(Unit)
  <2>1. Wrote(u, "partial", {}) /\ pc' = "write" /\ ram' = ram /\ todo' = todo
    BY <1>3, <1>8 DEF Persist
  <2>2. u \notin marks BY <1>1, <1>2, <1>3, <1>8, MarkedAway
  <2>3. Rest' /\ Marked' /\ At' = At BY <1>1, <1>2, <2>1, Keeps
  <2>4. Seen' = Seen BY <1>1, <1>6, <2>1 DEF Seen
  <2>5. Walk' BY <1>1, <1>2, <2>1, <2>3, <2>4, WalkKept DEF Typed
  <2>6. Typed' BY <1>1, <1>2, <1>5, <2>1 DEF Typed
  <2>7. Whole' BY <1>1, <1>2, <2>1, <2>2, WholeWrote
  <2>8. Kinds' BY <1>1, <1>2, <2>1, KindsWrote
  <2>9. AtWork'
    <3>1. ~Passthrough(u)' /\ LastShard(u)' <= cursor' BY <1>1, <1>3, <1>4, Stays
    <3>2. Stored(Names, u)' \subseteq ram' BY <1>3, <1>4, <1>5, <2>1
    <3>3. AtUnit(u)' BY <1>1, <2>1, <2>2, <3>1, <3>2 DEF AtUnit
    <3>4. u = Unit' BY <1>3, <2>1 DEF Unit
    <3> QED BY <1>1, <2>1, <3>3, <3>4 DEF AtWork
  <2> QED BY <1>5, <2>1, <2>3, <2>5, <2>6, <2>7, <2>8, <2>9 DEF Inv
<1> QED BY <1>7, <1>8

LEMMA WrittenStep ==
  ASSUME Inv, Written
  PROVE  Inv'
<1>1. /\ UNCHANGED plan /\ originals' = originals /\ marks' = marks /\ todo' = todo /\ ram' = ram
      /\ cursor' = cursor /\ pc = "write" /\ pc' = "mark"
  BY DEF Written
<1>2. todo # <<>> /\ Fit /\ Typed /\ Whole /\ Kinds /\ Rest /\ Marked /\ Walk BY <1>1, AtItsUnit
<1>3. PICK u \in Path : u = Unit /\ AtUnit(u) BY <1>1, AtItsUnit
<1>4. ~Passthrough(u) /\ u \notin marks /\ Stored(Names, u) \subseteq ram /\ LastShard(u) <= cursor
  BY <1>1, <1>3 DEF AtUnit
<1>5. Held = Stored(Names, u) BY <1>2, <1>3, <1>4 DEF Held, Stored, Typed
<1>6. Wrote(u, "saved", Stored(Names, u)) BY <1>3, <1>5 DEF Written
<1>7. Fit' /\ Names' = Names BY <1>1, <1>2, Stays
<1>8. Typed' BY <1>1, <1>2, <1>7 DEF Typed
<1>9. Whole' BY <1>1, <1>2, <1>6, WholeWrote
<1>10. Kinds' BY <1>1, <1>2, <1>6, KindsWrote
<1>11. AtWork'
  <2>1. u \in DOMAIN units' /\ units'[u].holds = Stored(Names, u) BY <1>6, WroteIs
  <2>2. ~Passthrough(u)' /\ LastShard(u)' <= cursor' BY <1>1, <1>4, Stays
  <2>3. AtUnit(u)' BY <1>1, <1>7, <2>1, <2>2 DEF AtUnit
  <2>4. u = Unit' BY <1>1, <1>3 DEF Unit
  <2> QED BY <1>1, <1>2, <2>3, <2>4 DEF AtWork
<1>12. Rest' /\ Marked' /\ At' = At BY <1>1, <1>2, Keeps
<1>13. Seen' = Seen BY <1>1 DEF Seen
<1>14. Walk' BY <1>1, <1>2, <1>12, <1>13, WalkKept DEF Typed
<1> QED BY <1>1, <1>7, <1>8, <1>9, <1>10, <1>11, <1>12, <1>14 DEF Inv

LEMMA MarkStep ==
  ASSUME Inv, Mark
  PROVE  Inv'
<1>1. /\ UNCHANGED plan /\ originals' = originals /\ units' = units /\ cursor' = cursor
      /\ pc = "mark" /\ marks' = marks \cup {Unit} /\ ram' = ram \ Held /\ pc' = "next" /\ todo' = Tail(todo)
  BY DEF Mark, Advance
<1>2. todo # <<>> /\ Fit /\ Typed /\ Whole /\ Kinds /\ Rest /\ Marked /\ Walk BY <1>1, AtItsUnit
<1>3. PICK u \in Path : u = Unit /\ AtUnit(u) BY <1>1, AtItsUnit
<1>4. u \in DOMAIN units /\ units[u].holds = Stored(Names, u) /\ LastShard(u) <= cursor BY <1>1, <1>3 DEF AtUnit
<1>5. Fit' /\ Names' = Names BY <1>1, <1>2, Stays
<1>6. Rest' /\ Marked' /\ At' = At + 1 BY <1>1, <1>2, Advances
<1>7. Seen = cursor + 1 /\ Seen' = cursor' + 1 BY <1>1 DEF Seen
<1>8. Walk' BY <1>1, <1>2, <1>3, <1>4, <1>6, <1>7, WalkSaves
<1>9. Typed' BY <1>1, <1>2, <1>5 DEF Typed
<1>10. Whole' BY <1>1, <1>2, <1>3, <1>4, WholeMarked
<1>11. Kinds' BY <1>1, <1>2, KindsKept
<1>12. AtWork' BY <1>1 DEF AtWork
<1> QED BY <1>1, <1>5, <1>6, <1>8, <1>9, <1>10, <1>11, <1>12 DEF Inv

LEMMA FinishStep ==
  ASSUME Inv, Finish
  PROVE  Inv'
<1>1. /\ UNCHANGED plan /\ units' = units /\ marks' = marks /\ todo' = todo /\ ram' = ram /\ cursor' = cursor
      /\ pc = "next" /\ todo = <<>> /\ pc' \in {"done", "off"}
      /\ originals' = originals \/ ckpt.deleting
  BY DEF Finish
<1>2. Fit /\ Typed /\ Whole /\ Kinds /\ Rest /\ Marked BY <1>1 DEF Inv, Running
<1>3. Fit' /\ Names' = Names /\ layers' = layers BY <1>1, <1>2, Stays
<1>4. Typed' BY <1>1, <1>2, <1>3 DEF Typed
<1>5. Whole' BY <1>1, <1>2, <1>3 DEF Whole
<1>6. Kinds' BY <1>1, <1>2, KindsKept
<1>7. Complete'
  <2>1. Len(layers) \in Nat /\ DOMAIN layers = 1 .. Len(layers) BY <1>2 DEF Fit, LayersFit
  <2>2. At = Len(layers) BY <1>1, <2>1, EmptySeq DEF At
  <2>3. Complete BY <1>2, <2>1, <2>2 DEF Marked, Complete
  <2> QED BY <1>1, <1>3, <2>3 DEF Complete
<1>8. AtWork' BY <1>1 DEF AtWork
<1> QED BY <1>1, <1>3, <1>4, <1>5, <1>6, <1>7, <1>8 DEF Inv, Running

LEMMA Idles ==
  ASSUME Inv, UNCHANGED vars
  PROVE  Inv'
<1>1. /\ UNCHANGED plan /\ originals' = originals /\ units' = units /\ marks' = marks
      /\ todo' = todo /\ ram' = ram /\ cursor' = cursor /\ pc' = pc
  BY DEF vars, disk, process
<1>2. Fit' /\ layers' = layers BY <1>1, Stays DEF Inv
<1>3. Typed' BY <1>1, Stays DEF Inv, Typed
<1>4. Whole' BY <1>1, Stays DEF Inv, Whole
<1>5. Kinds' BY <1>1, KindsKept DEF Inv
<1>6. AtWork' BY <1>1, Stays DEF Inv, AtWork, AtUnit, Unit
<1>7. pc' = "done" => Complete' BY <1>1, <1>2 DEF Inv, Complete
<1>8. ASSUME Running' PROVE Rest' /\ Marked' /\ Walk'
  <2>1. Running BY <1>1, <1>8 DEF Running
  <2>2. Fit /\ Typed /\ Rest /\ Marked /\ Walk BY <2>1 DEF Inv
  <2>3. Rest' /\ Marked' /\ At' = At BY <1>1, <2>2, Keeps
  <2>4. Seen' = Seen BY <1>1 DEF Seen
  <2>5. Walk' BY <1>1, <2>2, <2>3, <2>4, WalkKept DEF Typed
  <2> QED BY <2>3, <2>5
<1> QED BY <1>2, <1>3, <1>4, <1>5, <1>6, <1>7, <1>8 DEF Inv

-----------------------------------------------------------------------------
LEMMA Begins ==
  ASSUME DigitsAssumption, Init, Orderly
  PROVE  Inv
<1>1. /\ ckpt \in Checkpoints /\ layers = OrderOf[ckpt] /\ units = <<>> /\ marks = {}
      /\ ram = {} /\ cursor = 0 /\ pc = "off"
  BY DEF Init
<1>2. layers = Order(ckpt) BY <1>1 DEF OrderOf
<1>3. Fit BY <1>2, LayersDoFit DEF Fit, Orderly
<1>4. Typed BY <1>1 DEF Typed
<1>5. Whole BY <1>1 DEF Whole
<1>6. Kinds
  <2>1. DOMAIN units = {} BY <1>1
  <2> QED BY <2>1 DEF Kinds
<1> QED BY <1>1, <1>3, <1>4, <1>5, <1>6 DEF Inv, AtWork, Running

LEMMA Continues ==
  ASSUME Inv, [Next]_vars
  PROVE  Inv'
<1>1. CASE Work
  <2>1. CASE Start BY <2>1, StartStep
  <2>2. CASE Fetch BY <2>2, FetchStep
  <2>3. CASE LinkOriginal BY <2>3, LinkOriginalStep
  <2>4. CASE Copied BY <2>4, CopiedStep
  <2>5. CASE MarkLinked BY <2>5, MarkLinkedStep
  <2>6. CASE NextShard BY <2>6, NextShardStep
  <2>7. CASE LoadShard BY <2>7, LoadShardStep
  <2>8. CASE ReadSingle BY <2>8, ReadSingleStep
  <2>9. CASE Persist BY <2>9, PersistStep
  <2>10. CASE Written BY <2>10, WrittenStep
  <2>11. CASE Mark BY <2>11, MarkStep
  <2>12. CASE Finish BY <2>12, FinishStep
  <2> QED
    BY <1>1, <2>1, <2>2, <2>3, <2>4, <2>5, <2>6, <2>7, <2>8, <2>9, <2>10, <2>11, <2>12 DEF Work
<1>2. CASE Die \/ Reopen BY <1>2, StopStep DEF Die, Reopen
<1>3. CASE UNCHANGED vars BY <1>3, Idles
<1> QED BY <1>1, <1>2, <1>3 DEF Next

\* The checkpoint stays the one the split started on.
LEMMA Lasts ==
  ASSUME [Next]_vars
  PROVE  LinksHold' <=> LinksHold
<1>1. UNCHANGED plan
  BY DEF Next, vars, Work, Start, Fetch, LinkOriginal, Copied, MarkLinked, NextShard, LoadShard, ReadSingle,
         Persist, Written, Mark, Finish, Die, Reopen, Stopped
<1> QED BY <1>1, Stays

\* The invariant, along every behaviour that starts from such a checkpoint.
THEOREM SplitInvariant == OrderlySpec => []Inv
<1>1. Init /\ Orderly => Inv BY DigitsAssumption, Begins
<1>2. Inv /\ [Next]_vars => Inv' BY Continues
<1> QED BY <1>1, <1>2, PTL DEF OrderlySpec, OrderlyInit

\* DoneIsWhole: what a later run takes for a finished unit holds all of the unit's tensors, at
\* whatever file operation an earlier run was killed, and however often.
THEOREM UnitsWhole == OrderlySpec => []DoneIsWhole
<1>1. Inv => DoneIsWhole
  <2> SUFFICES ASSUME Inv, NEW u \in AllUnits, Persisted(u) PROVE Content(u) = Stored(Names, u)
    BY DEF DoneIsWhole
  <2> QED BY DEF Inv, Whole, Persisted, Content
<1> QED BY <1>1, SplitInvariant, PTL

\* SplitCovers: when the splitter returns, every tensor is in the file of exactly one module,
\* provided no link is left to a file that the split has deleted.
THEOREM SplitIsComplete == OrderlySpec /\ LinksHold => []SplitCovers
<1>1. Inv /\ LinksHold => SplitCovers
  <2> SUFFICES ASSUME Inv, LinksHold, pc = "done", NEW n \in Names
               PROVE  Cardinality({u \in AllUnits : n \in Content(u)}) = 1
    BY DEF SplitCovers
  <2>1. /\ LayersFit /\ Fit /\ Complete BY DEF Inv, Fit
  <2>2. PICK i \in DOMAIN layers : Under(layers[i], n) BY <2>1 DEF LayersFit
  <2>3. AllUnits = {layers[j] : j \in DOMAIN layers} BY <2>1 DEF AllUnits, ToSet
  <2>4. ASSUME NEW j \in DOMAIN layers PROVE Content(layers[j]) = Stored(Names, layers[j])
    <3>1. layers[j] \in marks BY <2>1 DEF Complete
    <3>2. layers[j] \in DOMAIN units /\ units[layers[j]].holds = Stored(Names, layers[j]) BY <3>1 DEF Inv, Whole
    <3>3. Exists(layers[j]) BY <3>2 DEF Inv, Kinds, Exists
    <3> QED BY <3>2, <3>3 DEF Content
  <2>5. \A j \in DOMAIN layers : n \in Content(layers[j]) <=> j = i
    <3>1. ASSUME NEW j \in DOMAIN layers, n \in Content(layers[j]) PROVE j = i
      <4>1. Under(layers[j], n) BY <2>4, <3>1 DEF Stored
      <4> QED BY <2>1, <2>2, <4>1, OneUnit
    <3>2. n \in Content(layers[i]) BY <2>2, <2>4 DEF Stored
    <3> QED BY <3>1, <3>2
  <2>6. {u \in AllUnits : n \in Content(u)} = {layers[i]} BY <2>3, <2>5
  <2> QED BY <2>6, FS_Singleton
<1>2. LinksHold /\ [Next]_vars => LinksHold' BY Lasts
<1> QED BY <1>1, <1>2, SplitInvariant, PTL DEF OrderlySpec, OrderlyInit

===============================================================================
