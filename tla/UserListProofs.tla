--------------------------- MODULE UserListProofs ---------------------------
(***************************************************************************)
(* Proofs about UserList, for any number of users, any statuses, any pages *)
(* and sizes and any width of the page arithmetic.                         *)
(***************************************************************************)
EXTENDS UserList, FiniteSetTheorems, WellFoundedInduction, TLAPS

-----------------------------------------------------------------------------
\* Sets of ids, and the ranks in them.

\* A set of naturals has a least element ...
LEMMA HasLeast ==
    ASSUME NEW S, S \subseteq Nat, S # {}
    PROVE  \E i \in S : \A j \in S : i <= j
<1>1. PICK i \in S : \A j \in S : ~(<<j, i>> \in OpToRel(<, Nat))
  BY NatLessThanWellFounded, WFMin
<1>2. \A j \in S : ~(j < i)
  BY <1>1 DEF OpToRel
<1> QED BY <1>2

\* ... and a set of ids a greatest one.
LEMMA HasGreatest ==
    ASSUME NEW S, S \subseteq Ids, S # {}
    PROVE  \E i \in S : \A j \in S : j <= i
<1> DEFINE T == {MaxId - i : i \in S}
<1>1. T \subseteq Nat /\ T # {}
  BY ListAssumption DEF Ids
<1>2. PICK m \in T : \A n \in T : m <= n
  BY <1>1, HasLeast
<1>3. PICK i \in S : m = MaxId - i
  BY <1>2
<1>4. ASSUME NEW j \in S PROVE j <= i
  <2>1. MaxId - i <= MaxId - j
    BY <1>2, <1>3
  <2> QED BY <2>1, ListAssumption DEF Ids
<1> QED BY <1>4

\* The rows at i and above, and how many they are.
Above(S, i) == {j \in S : j >= i}

\* Ids are numbers.
LEMMA IdsAreNat == Ids \subseteq Nat \ {0}
BY ListAssumption DEF Ids

\* Every set of ids is finite.
LEMMA IdsFinite ==
    ASSUME NEW S, S \subseteq Ids
    PROVE  IsFiniteSet(S) /\ Cardinality(S) \in Nat
<1>1. IsFiniteSet(Ids)
  BY ListAssumption, FS_Interval DEF Ids
<1>2. IsFiniteSet(S)
  BY <1>1, FS_Subset
<1> QED BY <1>2, FS_CardinalityType

\* A rank is a natural number,
LEMMA RankType == ASSUME NEW S, S \subseteq Ids, NEW i PROVE Rank(S, i) \in Nat
<1>1. Above(S, i) \subseteq Ids
  BY DEF Above
<1> QED BY <1>1, IdsFinite DEF Rank, Above

\* goes up when rows come in,
LEMMA RankMonotone ==
    ASSUME NEW S, NEW T, S \subseteq T, T \subseteq Ids, NEW i
    PROVE  Rank(S, i) <= Rank(T, i)
<1>1. Above(S, i) \subseteq Above(T, i) /\ Above(T, i) \subseteq Ids
  BY DEF Above
<1>2. IsFiniteSet(Above(T, i))
  BY <1>1, IdsFinite
<1>3. Cardinality(Above(S, i)) <= Cardinality(Above(T, i))
  BY <1>1, <1>2, FS_Subset
<1> QED BY <1>3 DEF Rank, Above

\* and is smaller for a later user.
LEMMA RankDescends ==
    ASSUME NEW S, S \subseteq Ids, NEW i \in S, NEW j \in S, j <= i
    PROVE  Rank(S, i) <= Rank(S, j)
<1>0. S \subseteq Nat
  BY IdsAreNat
<1>1. /\ Above(S, i) \subseteq Above(S, j)
      /\ Above(S, j) \subseteq Ids
  <2>1. ASSUME NEW k \in Above(S, i) PROVE k \in Above(S, j)
    BY <1>0, <2>1 DEF Above
  <2> QED BY <2>1 DEF Above
<1>2. IsFiniteSet(Above(S, j))
  BY <1>1, IdsFinite
<1>3. Cardinality(Above(S, i)) <= Cardinality(Above(S, j))
  BY <1>1, <1>2, FS_Subset
<1> QED BY <1>3 DEF Rank, Above

\* Ranks have no gaps: if some row is past the offset, one is right behind it.
LEMMA NoGap ==
    ASSUME NEW S, S \subseteq Ids, NEW off \in Nat, NEW k \in S, Rank(S, k) > off
    PROVE  \E i \in S : off < Rank(S, i) /\ Rank(S, i) <= off + 1
<1>0. S \subseteq Nat /\ \A j \in S : Rank(S, j) \in Nat
  BY IdsAreNat, RankType
<1> DEFINE past == {i \in S : Rank(S, i) > off}
<1>1. PICK i \in past : \A j \in past : j <= i
  BY HasGreatest
<1> DEFINE above == Above(S, i) \ {i}
<1>2. IsFiniteSet(above) /\ Cardinality(above) \in Nat /\ above \subseteq S
  <2>1. above \subseteq S
    BY DEF Above
  <2> QED BY <2>1, IdsFinite
<1>3. Rank(S, i) = Cardinality(above) + 1
  <2>1. Above(S, i) = above \cup {i} /\ i \notin above
    BY <1>0 DEF Above
  <2>2. Cardinality(above \cup {i}) = Cardinality(above) + 1
    BY <1>2, <2>1, FS_AddElement
  <2> QED BY <2>1, <2>2 DEF Rank, Above
<1>4. Cardinality(above) <= off
  <2>1. CASE above = {}
    BY <2>1, FS_EmptySet
  <2>2. CASE above # {}
    <3>1. PICK j \in above : \A l \in above : j <= l
      BY <2>2, <1>0, <1>2, HasLeast
    <3>2. j \in S /\ j > i
      BY <3>1, <1>0 DEF Above
    <3>3. j \notin past
      BY <1>0, <1>1, <3>2
    <3>4. Rank(S, j) <= off
      BY <1>0, <3>2, <3>3
    <3>5. above = Above(S, j)
      <4>1. ASSUME NEW l \in S PROVE l \in above <=> l >= j
        <5>1. l \in Nat /\ j \in Nat /\ i \in Nat
          BY <1>0, <3>2
        <5>2. l \in above <=> l > i
          BY <5>1 DEF Above
        <5> QED BY <3>1, <3>2, <5>1, <5>2
      <4> QED BY <1>2, <4>1 DEF Above
    <3>6. Cardinality(above) = Rank(S, j)
      BY <3>5 DEF Rank, Above
    <3> QED BY <3>4, <3>6
  <2> QED BY <2>1, <2>2
<1> QED BY <1>0, <1>1, <1>2, <1>3, <1>4

-----------------------------------------------------------------------------
\* The inductive invariant.

List == Matching(filter)

\* How many rows the pages so far have passed, if nothing has wrapped.
Passed == (page - 1) * size

\* A walk by the last id: the users it was given are those from after on, and
\* so those it still has to be given come below.  (This is so as long as the
\* ids fit an int32.)
DescWalk ==
    MaxId < Half /\ at \in {"desc", "descDone"} =>
        /\ ~twice
        /\ after = 0 => seen = {}
        /\ after # 0 => \A i \in seen : after <= i
        /\ \A i \in kept \ seen : after # 0 => i < after
        /\ at = "descDone" => kept \subseteq seen

\* A walk by page number, as long as the list has only grown, only shrunk, and
\* stayed as it is.
Growing   == ~removed => \A i \in kept : Rank(List, i) <= Passed => i \in seen
Shrinking == ~added => ~twice /\ \A i \in seen \cap List : Rank(List, i) <= Passed
Quiet ==
    ~added /\ ~removed =>
        /\ seen \subseteq kept
        /\ \A i \in List : Rank(List, i) > Passed => i \in kept
        /\ at \in {"page", "pageDone"} => total = int32(Cardinality(List))

PageWalk ==
    InRange =>
        /\ at \in {"count", "page"} => Growing /\ Shrinking /\ Quiet
        /\ at = "pageDone" =>
              /\ ~removed => kept \subseteq seen
              /\ ~added => ~twice
              /\ Quiet

Inv == TypeOK /\ kept \subseteq List /\ DescWalk /\ PageWalk

-----------------------------------------------------------------------------
\* The page arithmetic.

\* int32 gives an int32, and leaves one that is not negative alone.
LEMMA int32OK ==
    ASSUME NEW n \in Int
    PROVE  int32(n) \in Int32 /\ (0 <= n /\ n < Half => int32(n) = n)
<1>1. 2 * Half \in Nat \ {0} /\ Half \in Nat
  BY ListAssumption
<1>2. n % (2 * Half) \in 0..(2 * Half - 1)
  BY <1>1
<1>3. 0 <= n /\ n < Half => n % (2 * Half) = n
  BY <1>1
<1> QED BY <1>1, <1>2, <1>3 DEF int32, Int32

\* What reaches CachedDB is a page number and a size.
LEMMA PageOK ==
    /\ \A p \in Int32 : pageOrFirst(p) \in 1..(Half - 1)
    /\ \A n \in Int32 : sizeOrDefault(n) \in 1..(Half - 1)
BY ListAssumption DEF Int32, pageOrFirst, sizeOrDefault

\* The rows that are passed are a natural number, and a page more of them
\* after each page; if that has not wrapped, nothing did before.
LEMMA PassedOK ==
    ASSUME NEW p \in 1..(Half - 1), NEW n \in 1..(Half - 1)
    PROVE  /\ (p - 1) * n \in Nat
           /\ ((p + 1) - 1) * n = (p - 1) * n + n
BY ListAssumption

\* In range, the offset of the statement is the number of rows passed.
LEMMA OffsetOK == ASSUME TypeOK, InRange PROVE Offset(page, size) = Passed /\ Passed \in Nat
<1>1. Passed \in Nat
  BY PassedOK DEF TypeOK, Passed
<1> QED BY <1>1, int32OK, ListAssumption DEF InRange, Offset, Passed

\* The rows of the list are ids.
LEMMA ListOK == List \subseteq Ids /\ \A f : Matching(f) \subseteq Ids
BY DEF List, Matching

-----------------------------------------------------------------------------
\* The caller's steps.

\* A walk begins with nothing seen and with everything from its page on kept.
LEMMA BeginOK ==
    ASSUME Inv, NEW l \in {"count", "desc"}, NEW f \in Statuses \cup {AnyStatus},
           NEW p \in Int32, NEW n \in Int32, Begin(l, f, p, n)
    PROVE  Inv'
<1>1. page' \in 1..(Half - 1) /\ size' \in 1..(Half - 1)
  BY PageOK DEF Begin
<1>2. List' = Matching(f) /\ List' \subseteq Ids
  BY DEF Begin, table, List, Matching
<1>3. Passed' = (page' - 1) * size' /\ Passed' \in Nat
  BY <1>1, PassedOK DEF Passed
<1>4. kept' = {i \in List' : Rank(List', i) > Passed'}
  BY <1>2, <1>3 DEF Begin
<1>5. TypeOK'
  <2>1. 0 \in Int32
    BY ListAssumption DEF Int32
  <2>2. {twice', added', removed'} \subseteq BOOLEAN
    BY DEF Begin
  <2> QED BY <1>1, <1>2, <1>4, <2>1, <2>2 DEF Begin, Inv, TypeOK, table
<1>6. DescWalk'
  BY DEF Begin, DescWalk
<1>7. PageWalk'
  <2>1. \A i \in List' : Rank(List', i) \in Nat
    BY <1>2, RankType
  <2>2. Growing'
    <3>1. ASSUME NEW i \in kept' PROVE ~(Rank(List', i) <= Passed')
      BY <1>3, <1>4, <2>1
    <3> QED BY <3>1 DEF Growing
  <2>3. Shrinking'
    BY DEF Begin, Shrinking
  <2>4. Quiet'
    BY <1>4 DEF Begin, Quiet
  <2> QED BY <2>2, <2>3, <2>4 DEF Begin, PageWalk
<1> QED BY <1>4, <1>5, <1>6, <1>7 DEF Inv

\* The count is that of the list.
LEMMA FindCountOK == ASSUME Inv, FindCount PROVE Inv'
<1>1. List' = List /\ Passed' = Passed /\ InRange' = InRange
  BY DEF FindCount, table, query, List, Matching, Passed, InRange
<1>2. TypeOK'
  <2>1. Cardinality(List) \in Int
    BY ListOK, IdsFinite
  <2>2. total' \in Int32
    BY <2>1, int32OK DEF FindCount, List
  <2> QED BY <2>2 DEF FindCount, Inv, TypeOK, table, query
<1>3. DescWalk'
  BY DEF FindCount, DescWalk
<1>4. PageWalk'
  BY <1>1 DEF FindCount, Inv, PageWalk, Growing, Shrinking, Quiet, List
<1> QED BY <1>1, <1>2, <1>3, <1>4 DEF Inv, FindCount

\* A caller that gives up has no walk to be right about.
LEMMA FindFailsOK == ASSUME Inv, FindFails PROVE Inv'
<1>1. List' = List
  BY DEF FindFails, table, query, List, Matching
<1>2. TypeOK'
  BY DEF FindFails, Inv, TypeOK, table, query
<1> QED BY <1>1, <1>2 DEF FindFails, Inv, DescWalk, PageWalk

\* A page that the arithmetic gets right has the rows right behind those
\* passed, and is empty only when there are no more.
LEMMA PageRows ==
    ASSUME TypeOK, InRange, NEW rows, rows = FindPageListByPage(List, page, size)
    PROVE  /\ rows = {i \in List : Passed < Rank(List, i) /\ Rank(List, i) <= Passed + size}
           /\ rows = {} => \A i \in List : Rank(List, i) <= Passed
<1>1. Offset(page, size) = Passed /\ Passed \in Nat /\ size \in Nat /\ size >= 1
  BY OffsetOK, ListAssumption DEF TypeOK
<1>2. (IF Offset(page, size) > 0 THEN Offset(page, size) ELSE 0) = Passed
  BY <1>1
<1>3. rows = {i \in List : Passed < Rank(List, i) /\ Rank(List, i) <= Passed + size}
  BY <1>2 DEF FindPageListByPage
<1>4. ASSUME rows = {}, NEW i \in List PROVE Rank(List, i) <= Passed
  <2>1. \A k \in List : Rank(List, k) \in Nat
    BY ListOK, RankType
  <2>2. CASE Rank(List, i) > Passed
    <3>1. PICK k \in List : Passed < Rank(List, k) /\ Rank(List, k) <= Passed + 1
      BY <1>1, <2>2, ListOK, NoGap
    <3>2. k \in rows
      BY <1>1, <1>3, <2>1, <3>1
    <3> QED BY <1>4, <3>2
  <2> QED BY <1>1, <2>1, <2>2
<1> QED BY <1>3, <1>4

\* A page keeps what a walk by page number promises.
LEMMA GetPageOK == ASSUME Inv, GetPage PROVE Inv'
<1> DEFINE rows == FindPageListByPage(List, page, size)
<1>1. /\ at = "page" /\ seen' = seen \cup rows
      /\ twice' = (twice \/ rows \cap seen # {})
      /\ at' = IF rows = {} THEN "pageDone" ELSE IF page < Half - 1 THEN "count" ELSE "idle"
      /\ page' = IF page < Half - 1 THEN page + 1 ELSE page
      /\ UNCHANGED <<table, filter, size, kept, added, removed, after, total>>
  BY DEF GetPage, Receive, List
<1>2. List' = List /\ rows \subseteq List /\ List \subseteq Ids
  BY <1>1, ListOK DEF table, List, Matching, FindPageListByPage
<1> HIDE DEF rows
<1>3. TypeOK'
  <2>1. page' \in 1..(Half - 1)
    BY <1>1, ListAssumption DEF Inv, TypeOK
  <2>2. {twice', added', removed'} \subseteq BOOLEAN
    BY <1>1 DEF Inv, TypeOK
  <2>3. seen' \subseteq Ids
    BY <1>1, <1>2 DEF Inv, TypeOK
  <2> QED BY <1>1, <2>1, <2>2, <2>3 DEF Inv, TypeOK, table
<1>4. DescWalk'
  BY <1>1 DEF DescWalk
<1>5. ASSUME InRange' PROVE InRange /\ Passed \in Nat /\ Passed' \in Nat /\ Passed <= Passed'
                            /\ (at' = "count" => Passed' = Passed + size)
  <2>1. page \in 1..(Half - 1) /\ size \in 1..(Half - 1) /\ size' = size /\ size \in Nat
    BY <1>1, ListAssumption DEF Inv, TypeOK
  <2>2. Passed \in Nat /\ ((page + 1) - 1) * size = Passed + size
    BY <2>1, PassedOK DEF Passed
  <2>3. Passed' = Passed + size \/ (Passed' = Passed /\ at' # "count")
    BY <1>1, <2>1, <2>2 DEF Passed
  <2> QED BY <1>5, <2>1, <2>2, <2>3, ListAssumption DEF InRange, Passed
<1>6. PageWalk'
  <2>0. at' # "page"
    BY <1>1
  <2> SUFFICES ASSUME InRange'
               PROVE  /\ at' = "count" => Growing' /\ Shrinking' /\ Quiet'
                      /\ at' = "pageDone" =>
                            /\ ~removed' => kept' \subseteq seen'
                            /\ ~added' => ~twice'
                            /\ Quiet'
    BY <2>0 DEF PageWalk
  <2>1. /\ InRange /\ Passed \in Nat /\ Passed' \in Nat /\ Passed <= Passed'
        /\ at' = "count" => Passed' = Passed + size
    BY <1>5
  <2>2. Growing /\ Shrinking /\ Quiet /\ kept \subseteq List
    BY <1>1, <2>1 DEF Inv, PageWalk
  <2>3. /\ rows = {i \in List : Passed < Rank(List, i) /\ Rank(List, i) <= Passed + size}
        /\ rows = {} => \A i \in List : Rank(List, i) <= Passed
    BY <2>1, PageRows DEF Inv, rows
  <2>4. \A i \in List : Rank(List, i) \in Nat
    BY <1>2, RankType
  <2>5. ~added => rows \cap seen = {}
    <3>1. ASSUME ~added, NEW i \in rows PROVE i \notin seen
      BY <2>1, <2>2, <2>3, <2>4, <3>1 DEF Shrinking
    <3> QED BY <3>1
  <2>6. ~added' => ~twice'
    BY <1>1, <2>2, <2>5 DEF Shrinking
  <2>7. Quiet'
    <3> SUFFICES ASSUME ~added, ~removed
                 PROVE  /\ seen' \subseteq kept'
                        /\ \A i \in List' : Rank(List', i) > Passed' => i \in kept'
                        /\ at' = "pageDone" => total' = int32(Cardinality(List'))
      BY <1>1 DEF Quiet
    <3>1. seen' \subseteq kept'
      BY <1>1, <1>2, <2>2, <2>3 DEF Quiet
    <3>2. ASSUME NEW i \in List', Rank(List', i) > Passed' PROVE i \in kept'
      BY <1>1, <1>2, <2>1, <2>2, <2>4, <3>2 DEF Quiet
    <3>3. total' = int32(Cardinality(List'))
      BY <1>1, <1>2, <2>2 DEF Quiet
    <3> QED BY <3>1, <3>2, <3>3
  <2>8. ASSUME at' = "count" PROVE Growing' /\ Shrinking'
    <3>1. size \in Nat
      BY ListAssumption DEF Inv, TypeOK
    <3>2. ASSUME ~removed, NEW i \in kept, Rank(List, i) <= Passed' PROVE i \in seen'
      BY <1>1, <2>1, <2>2, <2>3, <2>4, <2>8, <3>1, <3>2 DEF Growing
    <3>3. Growing'
      BY <1>1, <1>2, <3>2 DEF Growing
    <3>4. ASSUME ~added, NEW i \in seen' \cap List PROVE Rank(List, i) <= Passed'
      <4>1. CASE i \in seen
        BY <2>1, <2>2, <2>4, <3>4, <4>1 DEF Shrinking
      <4>2. CASE i \in rows
        BY <2>1, <2>3, <2>8, <4>2
      <4> QED BY <1>1, <3>4, <4>1, <4>2
    <3>5. Shrinking'
      BY <1>1, <1>2, <2>6, <3>4 DEF Shrinking
    <3> QED BY <3>3, <3>5
  <2>9. ASSUME at' = "pageDone", ~removed' PROVE kept' \subseteq seen'
    <3>1. rows = {}
      BY <1>1, <2>9
    <3>2. ASSUME NEW i \in kept PROVE i \in seen
      BY <1>1, <2>2, <2>3, <2>9, <3>1 DEF Growing
    <3> QED BY <1>1, <3>2
  <2> QED BY <2>6, <2>7, <2>8, <2>9
<1> QED BY <1>1, <1>2, <1>3, <1>4, <1>6 DEF Inv

\* A page by the last id has the greatest ids below it, and is empty only when
\* there are none.
LEMMA DescRows ==
    ASSUME NEW S, S \subseteq Ids, NEW last \in Nat, NEW n \in Nat, n >= 1,
           NEW rows, rows = FindPageListByIdDesc(S, last, n)
    PROVE  /\ rows \subseteq S /\ \A i \in rows : last # 0 => i < last
           /\ \A i \in S \ rows, k \in rows : (last # 0 => i < last) => i < k
           /\ rows = {} => \A i \in S : last # 0 /\ last <= i
<1> DEFINE rest == {i \in S : last > 0 => i < last}
<1>1. rows = {i \in rest : Rank(rest, i) <= n}
  BY DEF FindPageListByIdDesc
<1>2. S \subseteq Nat /\ rest \subseteq Ids /\ \A i \in rest : Rank(rest, i) \in Nat
  BY IdsAreNat, RankType
<1>3. ASSUME NEW i \in S \ rows, NEW k \in rows, last # 0 => i < last PROVE i < k
  <2>1. i \in rest /\ ~(Rank(rest, i) <= n) /\ k \in rest /\ Rank(rest, k) <= n
    BY <1>1, <1>3
  <2>2. CASE k <= i
    <3>1. Rank(rest, i) <= Rank(rest, k)
      BY <1>2, <2>1, <2>2, RankDescends
    <3> QED BY <1>2, <2>1, <3>1
  <2> QED BY <1>2, <1>3, <2>1, <2>2
<1>4. ASSUME rest # {} PROVE rows # {}
  <2>1. PICK i \in rest : Rank(rest, i) <= 0 + 1
    <3>1. PICK k \in rest : TRUE
      BY <1>4
    <3>2. Rank(rest, k) > 0
      <4>1. k \in Above(rest, k) /\ IsFiniteSet(Above(rest, k))
        <5>1. Above(rest, k) \subseteq Ids /\ k \in Nat
          BY <1>2, <3>1 DEF Above
        <5> QED BY <3>1, <5>1, IdsFinite DEF Above
      <4>2. Cardinality(Above(rest, k)) # 0
        BY <4>1, FS_EmptySet
      <4> QED BY <1>2, <3>1, <4>2 DEF Rank, Above
    <3> QED BY <1>2, <3>1, <3>2, NoGap
  <2> QED BY <1>1, <1>2, <2>1
<1>5. rows \subseteq S /\ \A i \in rows : last # 0 => i < last
  BY <1>1, <1>2
<1>6. ASSUME rows = {}, NEW i \in S PROVE last # 0 /\ last <= i
  <2>1. i \notin rest /\ i \in Nat
    BY <1>2, <1>4, <1>6
  <2> QED BY <2>1
<1> QED BY <1>3, <1>5, <1>6

\* The next page of a walk by the last id is new to the caller, and what is
\* still to come is below it.
LEMMA GetDescOK == ASSUME Inv, GetDesc PROVE Inv'
<1> DEFINE rows == FindPageListByIdDesc(List, int32(after), size)
<1>1. /\ at = "desc" /\ seen' = seen \cup rows
      /\ twice' = (twice \/ rows \cap seen # {})
      /\ at' = IF rows = {} THEN "descDone" ELSE "desc"
      /\ after' = IF rows = {} THEN after ELSE CHOOSE i \in rows : \A k \in rows : i <= k
      /\ UNCHANGED <<table, filter, size, kept, added, removed, page, total>>
  BY DEF GetDesc, Receive, List
<1>2. List' = List /\ List \subseteq Ids /\ kept \subseteq List
  BY <1>1, ListOK DEF table, List, Matching, Inv
<1>3. after \in Nat /\ size \in Nat /\ size >= 1
  BY IdsAreNat, ListAssumption DEF Inv, TypeOK
<1>0. rows \subseteq List
  BY DEF FindPageListByIdDesc
<1>4. MaxId < Half =>
      /\ rows \subseteq List /\ \A i \in rows : after # 0 => i < after
      /\ \A i \in List \ rows, k \in rows : (after # 0 => i < after) => i < k
      /\ rows = {} => \A i \in List : after # 0 /\ after <= i
  <2> SUFFICES ASSUME MaxId < Half
               PROVE  /\ rows \subseteq List /\ \A i \in rows : after # 0 => i < after
                      /\ \A i \in List \ rows, k \in rows : (after # 0 => i < after) => i < k
                      /\ rows = {} => \A i \in List : after # 0 /\ after <= i
    OBVIOUS
  <2>1. after \in {0} \cup Ids
    BY DEF Inv, TypeOK
  <2>2. 0 <= after /\ after < Half
    BY <2>1, ListAssumption DEF Ids
  <2>3. int32(after) = after
    BY <1>3, <2>2, int32OK
  <2> QED BY <1>2, <1>3, <2>3, DescRows
<1> HIDE DEF rows
<1>5. rows # {} => after' \in rows /\ \A k \in rows : after' <= k
  <2>1. rows \subseteq Nat
    BY <1>0, <1>2, IdsAreNat
  <2>2. rows # {} => \E i \in rows : \A k \in rows : i <= k
    BY <2>1, HasLeast
  <2> QED BY <1>1, <2>2
<1>6. List \subseteq Nat \ {0} /\ seen \subseteq Nat
  BY <1>2, IdsAreNat DEF Inv, TypeOK
<1>7. TypeOK'
  <2>1. after' \in {0} \cup Ids
    BY <1>0, <1>1, <1>2, <1>5 DEF Inv, TypeOK
  <2>2. {twice', added', removed'} \subseteq BOOLEAN
    BY <1>1 DEF Inv, TypeOK
  <2>3. seen' \subseteq Ids
    BY <1>0, <1>1, <1>2 DEF Inv, TypeOK
  <2> QED BY <1>1, <2>1, <2>2, <2>3 DEF Inv, TypeOK, table
<1>8. MaxId < Half =>
      /\ ~twice
      /\ after = 0 => seen = {}
      /\ after # 0 => \A i \in seen : after <= i
      /\ \A i \in kept \ seen : after # 0 => i < after
  BY <1>1 DEF Inv, DescWalk
<1>9. DescWalk'
  <2> SUFFICES ASSUME MaxId < Half PROVE DescWalk'
    BY DEF DescWalk
  <2>1. ASSUME NEW i \in rows PROVE i \notin seen
    <3>1. after # 0 => i < after
      BY <1>4
    <3>2. i \in seen => after # 0 /\ after <= i
      BY <1>8
    <3>3. i \in Nat
      BY <1>0, <1>6
    <3> QED BY <1>3, <3>1, <3>2, <3>3
  <2>2. ~twice'
    BY <1>1, <1>8, <2>1
  <2>3. after' = 0 => seen' = {}
    BY <1>1, <1>4, <1>5, <1>6, <1>8
  <2>4. ASSUME after' # 0, NEW i \in seen' PROVE after' <= i
    <3>1. CASE rows = {}
      BY <1>1, <1>8, <2>4, <3>1
    <3>2. CASE rows # {} /\ i \in rows
      BY <1>5, <3>2
    <3>3. CASE rows # {} /\ i \in seen
      <4>1. after # 0 /\ after <= i
        BY <1>8, <3>3
      <4>2. after' \in Nat /\ after' < after
        BY <1>4, <1>5, <1>6, <3>3, <4>1
      <4> QED BY <1>3, <1>6, <3>3, <4>1, <4>2
    <3> QED BY <1>1, <2>4, <3>1, <3>2, <3>3
  <2>5. ASSUME NEW i \in kept' \ seen', after' # 0 PROVE i < after'
    <3>1. i \in List \ rows /\ (after # 0 => i < after)
      BY <1>1, <1>2, <1>8, <2>5
    <3>2. CASE rows = {}
      BY <1>1, <2>5, <3>1, <3>2
    <3>3. CASE rows # {}
      BY <1>4, <1>5, <3>1, <3>3
    <3> QED BY <3>2, <3>3
  <2>6. ASSUME at' = "descDone" PROVE kept' \subseteq seen'
    <3>1. rows = {}
      BY <1>1, <2>6
    <3>2. ASSUME NEW i \in kept, i \notin seen PROVE FALSE
      BY <1>2, <1>3, <1>4, <1>6, <1>8, <3>1, <3>2
    <3> QED BY <1>1, <3>2
  <2> QED BY <2>2, <2>3, <2>4, <2>5, <2>6 DEF DescWalk
<1>10. PageWalk'
  BY <1>1 DEF PageWalk
<1> QED BY <1>1, <1>2, <1>7, <1>9, <1>10 DEF Inv

-----------------------------------------------------------------------------
\* The others' steps.

\* A write, whatever it writes: rows that come into the list push others to
\* later pages, rows that leave it pull them to earlier ones, and by the last
\* id nothing moves.
LEMMA WrittenOK ==
    ASSUME Inv, Written, lastId' \in 0..MaxId, users' \in [Ids -> Statuses \cup {Gone}]
    PROVE  Inv'
<1>1. /\ UNCHANGED <<filter, page, size, after, at, total, seen, twice>>
      /\ kept' = kept \cap List'
      /\ added' = (added \/ List' \ List # {})
      /\ removed' = (removed \/ List \ List' # {})
  BY DEF Written, query, List
<1>2. List' \subseteq Ids /\ List \subseteq Ids
  BY DEF List, Matching
<1>3. TypeOK'
  <2>1. {twice', added', removed'} \subseteq BOOLEAN
    BY <1>1 DEF Inv, TypeOK
  <2> QED BY <1>1, <2>1 DEF Inv, TypeOK
<1>4. DescWalk'
  BY <1>1 DEF Inv, DescWalk
<1>5. Passed' = Passed /\ InRange' = InRange /\ Passed \in Nat
  BY <1>1, PassedOK DEF Passed, InRange, Inv, TypeOK
<1>6. \A i : Rank(List, i) \in Nat /\ Rank(List', i) \in Nat
  BY <1>2, RankType
<1>7. /\ ~removed' => ~removed /\ \A i : Rank(List, i) <= Rank(List', i)
      /\ ~added' => ~added /\ List' \subseteq List /\ \A i : Rank(List', i) <= Rank(List, i)
      /\ ~added' /\ ~removed' => List' = List /\ kept' = kept
  <2>1. ~removed' => ~removed /\ List \subseteq List'
    BY <1>1
  <2>2. ~added' => ~added /\ List' \subseteq List
    BY <1>1
  <2>3. kept \subseteq List
    BY DEF Inv
  <2>4. List \subseteq List' => \A i : Rank(List, i) <= Rank(List', i)
    BY <1>2, RankMonotone
  <2>5. List' \subseteq List => \A i : Rank(List', i) <= Rank(List, i)
    BY <1>2, RankMonotone
  <2> QED BY <1>1, <2>1, <2>2, <2>3, <2>4, <2>5
<1>8. Growing => Growing'
  <2> SUFFICES ASSUME Growing, ~removed', NEW i \in kept', Rank(List', i) <= Passed
               PROVE  i \in seen'
    BY <1>5 DEF Growing
  <2>1. ~removed /\ i \in kept /\ Rank(List, i) <= Passed
    BY <1>1, <1>5, <1>6, <1>7
  <2> QED BY <1>1, <2>1 DEF Growing
<1>9. Shrinking => Shrinking'
  <2> SUFFICES ASSUME Shrinking, ~added'
               PROVE  ~twice' /\ \A i \in seen' \cap List' : Rank(List', i) <= Passed
    BY <1>5 DEF Shrinking
  <2>1. ~twice /\ \A i \in seen \cap List : Rank(List, i) <= Passed
    BY <1>7 DEF Shrinking
  <2> QED BY <1>1, <1>5, <1>6, <1>7, <2>1
<1>10. Quiet => Quiet'
  <2> SUFFICES ASSUME Quiet, ~added', ~removed'
               PROVE  /\ seen' \subseteq kept'
                      /\ \A i \in List' : Rank(List', i) > Passed' => i \in kept'
                      /\ at' \in {"page", "pageDone"} => total' = int32(Cardinality(List'))
    BY DEF Quiet
  <2>1. ~added /\ ~removed /\ List' = List /\ kept' = kept
    BY <1>7
  <2> QED BY <1>1, <1>5, <2>1 DEF Quiet
<1>11. PageWalk'
  BY <1>1, <1>5, <1>7, <1>8, <1>9, <1>10 DEF Inv, PageWalk
<1> QED BY <1>1, <1>3, <1>4, <1>11 DEF Inv

\* A registration hands out the next id.
LEMMA CreateUserOK == ASSUME Inv, NEW st \in Statuses, CreateUser(st) PROVE Inv'
<1>1. lastId' \in 0..MaxId /\ users' \in [Ids -> Statuses \cup {Gone}]
  BY ListAssumption DEF CreateUser, Inv, TypeOK, Ids
<1> QED BY <1>1, WrittenOK DEF CreateUser

\* An update or a deletion is of a user that is there.
LEMMA UpdateStatusOK ==
    ASSUME Inv, NEW i \in Ids, NEW st \in Statuses \cup {Gone}, UpdateStatus(i, st)
    PROVE  Inv'
<1>1. lastId' \in 0..MaxId /\ users' \in [Ids -> Statuses \cup {Gone}]
  BY DEF UpdateStatus, Inv, TypeOK
<1> QED BY <1>1, WrittenOK DEF UpdateStatus

-----------------------------------------------------------------------------
\* At first nobody walks.
LEMMA InitOK == ASSUME Init PROVE Inv
<1>1. TypeOK
  <2>1. {twice, added, removed} \subseteq BOOLEAN
    BY DEF Init
  <2>2. 0 \in Int32 /\ 1 \in 1..(Half - 1)
    BY ListAssumption DEF Int32
  <2> QED BY <2>1, <2>2, ListAssumption DEF Init, TypeOK
<1> QED BY <1>1 DEF Init, Inv, DescWalk, PageWalk

\* Every step keeps the invariant.
LEMMA NextOK == ASSUME Inv, [Next]_vars PROVE Inv'
<1>1. ASSUME NEW n \in Sizes, ListUsersByIdDesc(n) PROVE Inv'
  <2>1. n \in Int32 /\ 1 \in Int32
    BY ListAssumption DEF Int32
  <2> QED BY <1>1, <2>1, BeginOK DEF ListUsersByIdDesc
<1>2. ASSUME NEW n \in Sizes, NEW p \in Pages, ListUsers(p, n) PROVE Inv'
  BY <1>2, BeginOK, ListAssumption DEF ListUsers
<1>3. ASSUME NEW n \in Sizes, NEW p \in Pages, NEW st \in Statuses, ListUsersByStatus(st, p, n)
      PROVE  Inv'
  BY <1>3, BeginOK, ListAssumption DEF ListUsersByStatus
<1>4. CASE FindCount \/ GetPage \/ GetDesc \/ FindFails
  BY <1>4, FindCountOK, GetPageOK, GetDescOK, FindFailsOK
<1>5. ASSUME NEW st \in Statuses, CreateUser(st) PROVE Inv'
  BY <1>5, CreateUserOK
<1>6. ASSUME NEW i \in Ids, NEW st \in Statuses \cup {Gone}, UpdateStatus(i, st) PROVE Inv'
  BY <1>6, UpdateStatusOK
<1>7. CASE UNCHANGED vars
  <2>1. List' = List /\ Passed' = Passed /\ InRange' = InRange
    BY <1>7 DEF vars, table, query, List, Matching, Passed, InRange
  <2>2. TypeOK'
    BY <1>7 DEF vars, table, query, Inv, TypeOK
  <2>3. DescWalk' /\ PageWalk'
    BY <1>7, <2>1 DEF vars, table, query, Inv, DescWalk, PageWalk, Growing, Shrinking, Quiet
  <2> QED BY <1>7, <2>1, <2>2, <2>3 DEF vars, Inv
<1> QED BY <1>1, <1>2, <1>3, <1>4, <1>5, <1>6, <1>7 DEF Next

\* The inductive invariant holds throughout.
LEMMA Invariant == Spec => []Inv
<1>1. Init => Inv
  BY InitOK
<1>2. Inv /\ [Next]_vars => Inv'
  BY NextOK
<1> QED BY <1>1, <1>2, PTL DEF Spec

\* Whatever page and size a caller asks for, the numbers that reach CachedDB
\* are positive and fit an int32.
THEOREM TypeCorrect == Spec => []TypeOK
<1>1. Inv => TypeOK
  BY DEF Inv
<1> QED BY <1>1, Invariant, PTL

\* ListUsersByIdDesc shows nobody twice and misses nobody who was there all the
\* time, for any page size, any writes meanwhile and as many users as an int32
\* has ids for.
THEOREM DescWalkSeesAllAlways == ASSUME MaxId < Half PROVE Spec => []DescWalkSeesAll
<1>1. Inv => DescWalkSeesAll
  BY DEF Inv, DescWalk, DescWalkSeesAll
<1> QED BY <1>1, Invariant, PTL

\* ListUsers and ListUsersByStatus miss a user who was there all the time only
\* if a row left the list meanwhile, and show one twice only if a row came in.
THEOREM PageWalkSlipsAlways == Spec => []PageWalkSlips
<1>1. Inv => PageWalkSlips
  BY DEF Inv, PageWalk, Shrinking, PageWalkSlips
<1> QED BY <1>1, Invariant, PTL

\* While nobody writes to the list its pages are exactly the users from the
\* first page on and the total counts the list, provided that there are
\* fewer ids than an int32 can count.
THEOREM QuietWalkIsExactAlways == ASSUME MaxId < Half PROVE Spec => []QuietWalkIsExact
<1>1. Cardinality(List) \in Nat /\ Cardinality(List) <= MaxId
  <2>1. List \subseteq Ids /\ IsFiniteSet(Ids)
    BY ListOK, IdsFinite
  <2>2. Cardinality(Ids) = MaxId
    BY ListAssumption, FS_Interval DEF Ids
  <2> QED BY <2>1, <2>2, FS_Subset, IdsFinite
<1>2. int32(Cardinality(List)) = Cardinality(List)
  BY <1>1, int32OK, ListAssumption
<1>3. Inv => QuietWalkIsExact
  BY <1>2 DEF Inv, PageWalk, Quiet, QuietWalkIsExact, List
<1> QED BY <1>3, Invariant, PTL
=============================================================================
