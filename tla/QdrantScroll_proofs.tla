------------------------ MODULE QdrantScroll_proofs ------------------------
(***************************************************************************)
(* The inventory read holds what it promises for every collection, every   *)
(* page size and any number of writes between the pages.                   *)
(*                                                                         *)
(* The inductive invariant is the loop invariant of _scroll: every point   *)
(* read lies before the offset, and every point before the offset that     *)
(* stayed is read.  Writes cannot disturb it, as they change neither what  *)
(* is read nor where the next page begins.                                 *)
(***************************************************************************)
EXTENDS QdrantScroll, FiniteSetTheorems, WellFoundedInduction, TLAPS

\* A finite set has an element that is last in a transitive and irreflexive order.
LEMMA LastExists ==
  ASSUME NEW S, IsFiniteSet(S), S # {}, NEW R,
         \A x \in S : <<x, x>> \notin R,
         \A x, y, z \in S : <<x, y>> \in R /\ <<y, z>> \in R => <<x, z>> \in R
  PROVE  \E x \in S : \A y \in S : <<x, y>> \notin R
<1> DEFINE After(x) == {y \in S : <<x, y>> \in R}
           T == {After(x) : x \in S}
<1>1. IsWellFoundedOn(StrictSubsetOrdering(S), FiniteSubsetsOf(S))
  BY FS_StrictSubsetOrderingWellFounded
<1>2. T \subseteq FiniteSubsetsOf(S) /\ T # {}
  <2>1. ASSUME NEW x \in S PROVE After(x) \in FiniteSubsetsOf(S)
    <3>1. After(x) \in SUBSET S
      OBVIOUS
    <3>2. IsFiniteSet(After(x))
      BY <3>1, FS_Subset
    <3> QED
      BY <3>1, <3>2 DEF FiniteSubsetsOf
  <2> HIDE DEF After
  <2> QED
    BY <2>1
<1>3. PICK a \in T : \A b \in T : <<b, a>> \notin StrictSubsetOrdering(S)
  <2> HIDE DEF T
  <2> QED
    BY <1>1, <1>2, WFMin
<1>4. PICK x \in S : a = After(x)
  BY <1>3
<1>5. ASSUME NEW y \in S, <<x, y>> \in R PROVE FALSE
  <2>1. After(y) \subseteq After(x) /\ y \in After(x) /\ y \notin After(y)
    BY <1>5
  <2>2. <<After(y), After(x)>> \in StrictSubsetOrdering(S)
    BY <2>1 DEF StrictSubsetOrdering
  <2> QED
    BY <1>3, <1>4, <2>2
<1> QED
  BY <1>5

\* The least of finitely many point ids is one of them.
LEMMA MinProperty ==
  ASSUME NEW S, S \subseteq PointIds, S # {}
  PROVE  Min(S) \in S /\ \A x \in S : Min(S) <= x
<1> DEFINE R == {ss \in S \X S : ss[1] > ss[2]}
<1>1. IsFiniteSet(S) /\ S \subseteq Int
  BY FS_Subset, PointIdsAssumption
<1>2. \A x \in S : <<x, x>> \notin R
  BY <1>1
<1>3. \A x, y, z \in S : <<x, y>> \in R /\ <<y, z>> \in R => <<x, z>> \in R
  BY <1>1
<1>4. \E x \in S : \A y \in S : <<x, y>> \notin R
  <2> HIDE DEF R
  <2> QED
    BY <1>1, <1>2, <1>3, LastExists
<1>5. \E x \in S : \A y \in S : x <= y
  <2>1. PICK x \in S : \A y \in S : <<x, y>> \notin R
    BY <1>4
  <2>2. ASSUME NEW y \in S, ~(x <= y) PROVE FALSE
    <3>1. x > y
      BY <1>1, <2>2
    <3> QED
      BY <2>1, <3>1
  <2> QED
    BY <2>2
<1> QED
  BY <1>5 DEF Min

----------------------------------------------------------------------------
(* The invariant *)

\* The points that the loop will not look at again.
Passed(i) ==
  pc \in {"chunks", "returned"} \/ (pc = "scroll" /\ offset # None /\ i < offset)

LoopInv ==
  /\ pc = "scroll" /\ offset = None => payloads = {} /\ calls = 0
  /\ pc = "scroll" /\ offset # None => \A r \in payloads : r.point < offset
  /\ IsFiniteSet(payloads)
  /\ \A r \in payloads : r.call < calls /\ <<r.point, r.payload>> \in been
  /\ ReadOnce
  /\ \A h \in kept : Passed(h[1]) => \E r \in payloads : r.point = h[1] /\ r.payload = h[2]

\* Every page but the last is full, and the last of a quiet collection has a point.
PagesInv ==
  /\ pc = "scroll" => Cardinality(payloads) = calls * ScrollPage
  /\ writes = 0 => kept = Held(points) /\ been = Held(points)
  /\ pc = "scroll" /\ writes = 0 /\ offset # None => offset \in DOMAIN points
  /\ pc \in {"chunks", "returned"} /\ writes = 0 =>
       (calls - 1) * ScrollPage < Cardinality(payloads) \/ calls = 1

IInv == TypeOK /\ LoopInv /\ PagesInv /\ InventoryIsTrue

LEMMA InitIInv == Init => IInv
<1> SUFFICES ASSUME Init PROVE IInv
  OBVIOUS
<1>1. IsCollection(points)
  BY CollectionsAssumption DEF Init
<1>2. Held(points) \subseteq PointIds \X Payload
  BY <1>1 DEF Held, IsCollection
<1>3. TypeOK
  BY <1>1, <1>2, MaxWritesAssumption DEF Init, TypeOK
<1>4. LoopInv
  BY FS_EmptySet DEF Init, LoopInv, ReadOnce, Passed
<1>5. PagesInv
  BY FS_EmptySet, ScrollPageAssumption DEF Init, PagesInv
<1> QED
  BY <1>3, <1>4, <1>5 DEF IInv, InventoryIsTrue, Init

\* A write moves neither what is read nor the offset, and nothing into `kept`.
LEMMA WritePreserves ==
  ASSUME IInv, NEW ps, IsCollection(ps), Write(ps)
  PROVE  IInv'
<1>1. Held(ps) \subseteq PointIds \X Payload
  BY DEF Held, IsCollection
<1>2. TypeOK'
  <2>1. writes' \in 0..MaxWrites
    BY MaxWritesAssumption DEF IInv, TypeOK, Write
  <2>2. kept' \subseteq Held(points)' /\ Held(points)' \subseteq been' /\ been' \subseteq PointIds \X Payload
    BY <1>1 DEF IInv, TypeOK, Write, Held
  <2> QED
    BY <2>1, <2>2 DEF IInv, TypeOK, Write, readVars, IsCollection
<1>3. LoopInv'
  BY DEF IInv, LoopInv, Write, readVars, ReadOnce, Passed
<1>4. PagesInv'
  BY MaxWritesAssumption DEF IInv, TypeOK, PagesInv, Write, readVars
<1>5. InventoryIsTrue'
  BY DEF Write, readVars, InventoryIsTrue
<1> QED
  BY <1>2, <1>3, <1>4, <1>5 DEF IInv

LEMMA UpsertIsCollection ==
  ASSUME TypeOK, NEW i \in PointIds, NEW p \in Payloads
  PROVE  IsCollection([j \in DOMAIN points \cup {i} |-> IF j = i THEN p ELSE points[j]])
BY PayloadsAssumption DEF TypeOK, IsCollection

LEMMA DeleteIsCollection ==
  ASSUME TypeOK, NEW i \in PointIds
  PROVE  IsCollection(Restrict(points, DOMAIN points \ {i}))
BY DEF TypeOK, IsCollection, Restrict

----------------------------------------------------------------------------
(* Scroll *)

\* The payloads of a page are finitely many, as many as its points.
LEMMA PageCardinality ==
  ASSUME NEW page, IsFiniteSet(page), NEW n
  PROVE  LET new == {[call |-> n, point |-> i, payload |-> points[i]] : i \in page}
         IN  IsFiniteSet(new) /\ Cardinality(new) = Cardinality(page)
<1> DEFINE r(i) == [call |-> n, point |-> i, payload |-> points[i]]
           new == {r(i) : i \in page}
           f == [i \in page |-> r(i)]
<1>1. \A i, j \in page : r(i) = r(j) => i = j
  OBVIOUS
<1>2. f \in Bijection(page, new)
  <2> HIDE DEF r
  <2> QED
    BY <1>1 DEF Bijection, Injection, Surjection, IsInjective
<1>3. ExistsBijection(page, new)
  BY <1>2 DEF ExistsBijection
<1> QED
  BY <1>3, FS_Bijection

\* Where the next request starts: after the page, and no point that is left lies before it.
LEMMA NextOffsetProperty ==
  ASSUME TypeOK, NEW page, page \subseteq Ahead, IsPage(page)
  PROVE  /\ NextOffset(page) = None <=> page = Ahead
         /\ page # Ahead =>
              /\ NextOffset(page) \in Ahead \ page
              /\ \A i \in page : i < NextOffset(page)
              /\ \A i \in Ahead : i < NextOffset(page) => i \in page
              /\ offset # None => offset <= NextOffset(page)
<1>1. Ahead \subseteq PointIds /\ PointIds \subseteq Int /\ None \notin PointIds
  BY PointIdsAssumption DEF Ahead, TypeOK, IsCollection
<1>2. CASE page = Ahead
  BY <1>2 DEF NextOffset
<1>3. CASE page # Ahead
  <2>1. Min(Ahead \ page) \in Ahead \ page /\ \A x \in Ahead \ page : Min(Ahead \ page) <= x
    <3>1. Ahead \ page \subseteq PointIds /\ Ahead \ page # {}
      BY <1>1, <1>3
    <3> QED
      BY <3>1, MinProperty
  <2>2. NextOffset(page) = Min(Ahead \ page)
    BY <1>3 DEF NextOffset
  <2>3. \A i \in page : i < NextOffset(page)
    BY <2>1, <2>2 DEF IsPage
  <2>4. ASSUME NEW i \in Ahead, i < NextOffset(page), i \notin page PROVE FALSE
    <3>1. i \in Int /\ NextOffset(page) \in Int /\ NextOffset(page) <= i
      BY <1>1, <2>1, <2>2, <2>4
    <3> QED
      BY <2>4, <3>1
  <2>5. offset # None => offset <= NextOffset(page)
    BY <1>1, <2>1, <2>2 DEF Ahead, TypeOK
  <2> QED
    BY <1>1, <1>3, <2>1, <2>2, <2>3, <2>4, <2>5
<1> QED
  BY <1>2, <1>3

\* One request: what is read lies before the next offset, and all before it is read.
LEMMA ScrollPreserves ==
  ASSUME IInv, Scroll
  PROVE  IInv'
<1> DEFINE r(i) == [call |-> calls, point |-> i, payload |-> points[i]]
<1>1. PICK page \in SUBSET Ahead :
        /\ IsPage(page)
        /\ payloads' = payloads \cup {r(i) : i \in page}
        /\ offset' = NextOffset(page)
  BY DEF Scroll
<1> DEFINE new == {r(i) : i \in page}
<1>2. /\ pc = "scroll" /\ calls' = calls + 1
      /\ pc' = IF offset' = None THEN "chunks" ELSE "scroll"
      /\ UNCHANGED <<points, writes, kept, been, inventory>>
  BY DEF Scroll, collectionVars
<1>3. /\ TypeOK /\ LoopInv /\ PagesInv
      /\ calls \in Nat /\ PointIds \subseteq Int /\ None \notin PointIds
      /\ ScrollPage \in Nat \ {0}
  BY PointIdsAssumption, ScrollPageAssumption DEF IInv, TypeOK
<1>4. /\ offset' = None <=> page = Ahead
      /\ offset' # None =>
           /\ offset' \in Ahead \ page
           /\ \A i \in page : i < offset'
           /\ \A i \in Ahead : i < offset' => i \in page
           /\ offset # None => offset <= offset'
  BY <1>1, <1>3, NextOffsetProperty
<1>5. /\ page \subseteq DOMAIN points /\ DOMAIN points \subseteq PointIds
      /\ \A i \in page : points[i] \in Payload /\ <<i, points[i]>> \in Held(points)
      /\ \A i \in page : offset # None => offset <= i
  BY <1>1, <1>3 DEF Ahead, TypeOK, IsCollection, Held
<1>6. IsFiniteSet(page) /\ IsFiniteSet(new) /\ Cardinality(new) = Cardinality(page)
  <2>1. IsFiniteSet(page)
    BY <1>5, PointIdsAssumption, FS_Subset
  <2> QED
    BY <2>1, PageCardinality
<1>7. payloads \cap new = {}
  <2> SUFFICES ASSUME NEW x \in payloads, NEW i \in page, x = r(i) PROVE FALSE
    OBVIOUS
  <2>1. x.point = i
    OBVIOUS
  <2>2. offset # None
    BY <1>2, <1>3 DEF LoopInv
  <2>3. x.point < offset
    BY <1>2, <1>3, <2>2 DEF LoopInv
  <2> QED
    BY <1>3, <1>5, <2>1, <2>2, <2>3 DEF TypeOK
<1>8. TypeOK'
  <2>1. payloads' \subseteq Read
    <3>1. ASSUME NEW i \in page PROVE r(i) \in Read
      BY <1>3, <1>5 DEF Read
    <3> HIDE DEF r
    <3> QED
      BY <1>1, <1>3, <3>1 DEF TypeOK
  <2>2. offset' \in PointIds \cup {None}
    BY <1>4, <1>5 DEF Ahead
  <2> QED
    BY <1>2, <1>3, <2>1, <2>2 DEF TypeOK, Held, IsCollection
<1>9. LoopInv'
  <2>1. (pc = "scroll" /\ offset = None => payloads = {} /\ calls = 0)'
    BY <1>2
  <2>2. (pc = "scroll" /\ offset # None => \A x \in payloads : x.point < offset)'
    <3> SUFFICES ASSUME offset' # None, NEW x \in payloads' PROVE x.point < offset'
      BY <1>2
    <3>1. CASE x \in new
      BY <1>4, <3>1
    <3>2. CASE x \in payloads
      <4>1. offset # None /\ x.point < offset
        BY <1>2, <1>3, <3>2 DEF LoopInv
      <4>2. x.point \in Int /\ offset \in Int /\ offset' \in Int /\ offset <= offset'
        BY <1>3, <1>4, <1>5, <3>2, <4>1 DEF TypeOK, Read, Ahead
      <4> QED
        BY <4>1, <4>2
    <3> QED
      BY <1>1, <3>1, <3>2
  <2>3. IsFiniteSet(payloads')
    BY <1>1, <1>3, <1>6, FS_Union DEF LoopInv
  <2>4. (\A x \in payloads : x.call < calls /\ <<x.point, x.payload>> \in been)'
    <3> SUFFICES ASSUME NEW x \in payloads'
                 PROVE  x.call < calls + 1 /\ <<x.point, x.payload>> \in been
      BY <1>2
    <3>1. CASE x \in new
      BY <1>3, <1>5, <3>1 DEF TypeOK
    <3>2. CASE x \in payloads
      BY <1>3, <3>2 DEF LoopInv, TypeOK, Read
    <3> QED
      BY <1>1, <3>1, <3>2
  <2>5. ReadOnce'
    <3> SUFFICES ASSUME NEW x \in payloads', NEW y \in payloads', x.point = y.point PROVE x = y
      BY DEF ReadOnce
    <3>1. CASE x \in new /\ y \in new
      BY <3>1
    <3>2. CASE x \in payloads /\ y \in payloads
      BY <1>3, <3>2 DEF LoopInv, ReadOnce
    <3>3. ASSUME NEW v \in payloads, NEW i \in page, v.point = i PROVE FALSE
      <4>1. offset # None /\ v.point < offset
        BY <1>2, <1>3 DEF LoopInv
      <4> QED
        BY <1>3, <1>5, <3>3, <4>1 DEF TypeOK
    <3> QED
      BY <1>1, <3>1, <3>2, <3>3
  <2>6. (\A h \in kept : Passed(h[1]) => \E x \in payloads : x.point = h[1] /\ x.payload = h[2])'
    <3> SUFFICES ASSUME NEW h \in kept, Passed(h[1])'
                 PROVE  \E x \in payloads' : x.point = h[1] /\ x.payload = h[2]
      BY <1>2
    <3>1. PICK i \in DOMAIN points : h = <<i, points[i]>>
      BY <1>3 DEF TypeOK, Held
    <3>2. CASE i \in Ahead
      <4>1. i \in page
        BY <1>2, <1>4, <3>1, <3>2 DEF Passed
      <4>2. r(i) \in payloads' /\ r(i).point = h[1] /\ r(i).payload = h[2]
        BY <1>1, <3>1, <4>1
      <4> QED
        BY <4>2
    <3>3. CASE i \notin Ahead
      <4>1. offset # None /\ i < offset
        BY <1>3, <1>5, <3>3 DEF Ahead, TypeOK
      <4>2. Passed(h[1])
        BY <1>2, <3>1, <4>1 DEF Passed
      <4> QED
        BY <1>1, <1>3, <4>2 DEF LoopInv
    <3> QED
      BY <3>2, <3>3
  <2> QED
    BY <2>1, <2>2, <2>3, <2>4, <2>5, <2>6 DEF LoopInv
<1>10. PagesInv'
  <2>1. Cardinality(payloads') = calls * ScrollPage + Cardinality(page)
    <3>1. Cardinality(payloads') = Cardinality(payloads) + Cardinality(new)
      <4>1. Cardinality(payloads \cap new) = 0
        BY <1>7, FS_EmptySet
      <4>2. Cardinality(payloads) \in Nat /\ Cardinality(new) \in Nat
        BY <1>3, <1>6, FS_CardinalityType DEF LoopInv
      <4>3. Cardinality(payloads \cup new) =
              Cardinality(payloads) + Cardinality(new) - Cardinality(payloads \cap new)
        BY <1>3, <1>6, FS_Union DEF LoopInv
      <4> HIDE DEF new
      <4> QED
        BY <1>1, <4>1, <4>2, <4>3 DEF new
    <3> QED
      BY <1>2, <1>3, <1>6, <3>1 DEF PagesInv
  <2>2. (writes = 0 => kept = Held(points) /\ been = Held(points))'
    BY <1>2, <1>3 DEF PagesInv, Held
  <2>3. CASE page # Ahead
    <3>1. pc' = "scroll" /\ offset' \in DOMAIN points'
      BY <1>2, <1>4, <2>3 DEF Ahead
    <3>2. Cardinality(page) = ScrollPage
      BY <1>1, <2>3 DEF IsPage
    <3>3. calls * ScrollPage + ScrollPage = (calls + 1) * ScrollPage
      BY <1>3
    <3> QED
      BY <1>2, <2>1, <2>2, <3>1, <3>2, <3>3 DEF PagesInv
  <2>4. CASE page = Ahead
    <3>1. pc' = "chunks"
      BY <1>2, <1>4, <2>4
    <3>2. (writes = 0 => (calls - 1) * ScrollPage < Cardinality(payloads) \/ calls = 1)'
      <4> SUFFICES ASSUME writes = 0, calls' # 1
                   PROVE  (calls' - 1) * ScrollPage < Cardinality(payloads')
        BY <1>2
      <4>1. offset # None
        BY <1>2, <1>3 DEF LoopInv
      <4>2. offset \in page
        BY <1>2, <1>3, <2>4, <4>1 DEF PagesInv, Ahead, TypeOK
      <4>3. Cardinality(page) \in Nat \ {0}
        BY <1>6, <4>2, FS_CardinalityType, FS_EmptySet
      <4>4. (calls' - 1) * ScrollPage = calls * ScrollPage /\ calls * ScrollPage \in Nat
        BY <1>2, <1>3
      <4> QED
        BY <2>1, <4>3, <4>4
    <3> QED
      BY <2>2, <3>1, <3>2 DEF PagesInv
  <2> QED
    BY <2>3, <2>4
<1>11. InventoryIsTrue'
  BY <1>2 DEF InventoryIsTrue
<1> QED
  BY <1>8, <1>9, <1>10, <1>11 DEF IInv

----------------------------------------------------------------------------
(* Chunks and failures *)

\* Of the payloads of one chunk there is a last one, since no point is read twice.
LEMMA LastReadProperty ==
  ASSUME TypeOK, LoopInv, NEW c \in {r.payload.chunk_id : r \in payloads}
  PROVE  /\ LastRead(c) \in payloads /\ LastRead(c).payload.chunk_id = c
         /\ \A s \in payloads : s.payload.chunk_id = c => s = LastRead(c) \/ Before(s, LastRead(c))
<1> DEFINE S == {r \in payloads : r.payload.chunk_id = c}
           R == {rs \in S \X S : Before(rs[1], rs[2])}
<1>1. \A r \in S : r.call \in Int /\ r.point \in Int
  BY PointIdsAssumption DEF TypeOK, Read
<1>2. IsFiniteSet(S) /\ S # {}
  BY FS_Subset DEF LoopInv
<1>3. \A x \in S : <<x, x>> \notin R
  BY <1>1 DEF Before
<1>4. \A x, y, z \in S : <<x, y>> \in R /\ <<y, z>> \in R => <<x, z>> \in R
  BY <1>1 DEF Before
<1>5. PICK x \in S : \A y \in S : <<x, y>> \notin R
  <2> HIDE DEF R, S
  <2> QED
    BY <1>2, <1>3, <1>4, LastExists
<1>6. ASSUME NEW s \in payloads, s.payload.chunk_id = c PROVE s = x \/ Before(s, x)
  <2>1. s \in S /\ <<x, s>> \notin R
    BY <1>5, <1>6
  <2>2. ~Before(x, s)
    BY <2>1
  <2>3. s.point = x.point => s = x
    BY <2>1 DEF LoopInv, ReadOnce
  <2> QED
    BY <1>1, <2>1, <2>2, <2>3 DEF Before
<1> QED
  BY <1>6 DEF LastRead

\* The dict is made of what was read: the tag of a chunk is that of its last point.
LEMMA ChunksPreserves ==
  ASSUME IInv, Chunks
  PROVE  IInv'
<1>1. /\ pc = "chunks" /\ pc' = "returned"
      /\ \A r \in payloads : MakesChunk(r.payload)
      /\ inventory' = [c \in {r.payload.chunk_id : r \in payloads} |-> LastRead(c).payload.tag]
      /\ UNCHANGED <<points, writes, kept, been, offset, payloads, calls>>
  BY DEF Chunks, collectionVars
<1>2. TypeOK /\ LoopInv /\ PagesInv
  BY DEF IInv
<1>3. \A r \in payloads : r.payload.chunk_id \in ChunkIds /\ r.payload.tag \in Tags
  BY <1>1, <1>2 DEF TypeOK, Read, Payload, MakesChunk
<1>4. ASSUME NEW c \in DOMAIN inventory'
      PROVE  /\ c \in {r.payload.chunk_id : r \in payloads}
             /\ inventory'[c] = LastRead(c).payload.tag
             /\ LastRead(c) \in payloads /\ LastRead(c).payload.chunk_id = c
             /\ \A s \in payloads : s.payload.chunk_id = c => s = LastRead(c) \/ Before(s, LastRead(c))
  BY <1>1, <1>2, LastReadProperty
<1>5. TypeOK'
  <2>1. DOMAIN inventory' \subseteq ChunkIds
    BY <1>3, <1>4
  <2>2. \A c \in DOMAIN inventory' : inventory'[c] \in Tags
    BY <1>3, <1>4
  <2>3. inventory' \in [DOMAIN inventory' -> Tags]
    BY <1>1, <2>2
  <2> QED
    BY <1>1, <1>2, <2>1, <2>3 DEF TypeOK, Held, IsCollection
<1>6. LoopInv'
  BY <1>1, <1>2 DEF LoopInv, ReadOnce, Passed
<1>7. PagesInv'
  BY <1>1, <1>2 DEF PagesInv, Held
<1>8. InventoryIsTrue'
  <2>1. ASSUME NEW c \in DOMAIN inventory'
        PROVE  \E h \in been : h[2] = [chunk_id |-> c, tag |-> inventory'[c]]
    <3> DEFINE r == LastRead(c)
    <3>1. r \in payloads /\ r.payload.chunk_id = c /\ r.payload.tag = inventory'[c]
      BY <1>4
    <3>2. r.payload = [chunk_id |-> c, tag |-> inventory'[c]]
      BY <1>2, <3>1 DEF TypeOK, Read, Payload
    <3>3. <<r.point, r.payload>> \in been
      BY <1>2, <3>1 DEF LoopInv
    <3> QED
      BY <3>2, <3>3
  <2>2. ASSUME NEW h \in kept,
               \A g \in been : g[1] # h[1] => g[2].chunk_id # h[2].chunk_id
        PROVE  h[2].chunk_id \in DOMAIN inventory' /\ inventory'[h[2].chunk_id] = h[2].tag
    <3>1. PICK r \in payloads : r.point = h[1] /\ r.payload = h[2]
      BY <1>1, <1>2 DEF LoopInv, Passed
    <3>2. h[2].chunk_id \in DOMAIN inventory'
      BY <1>1, <3>1
    <3> DEFINE s == LastRead(h[2].chunk_id)
    <3>3. s \in payloads /\ s.payload.chunk_id = h[2].chunk_id
          /\ inventory'[h[2].chunk_id] = s.payload.tag
      BY <1>4, <3>2
    <3>4. <<s.point, s.payload>> \in been
      BY <1>2, <3>3 DEF LoopInv
    <3>5. s.point = h[1]
      BY <2>2, <3>3, <3>4
    <3>6. s = r
      BY <1>2, <3>1, <3>3, <3>5 DEF LoopInv, ReadOnce
    <3> QED
      BY <3>1, <3>2, <3>3, <3>6
  <2> QED
    BY <1>1, <2>1, <2>2 DEF InventoryIsTrue
<1> QED
  BY <1>5, <1>6, <1>7, <1>8 DEF IInv

\* An exception leaves everything as it is, and no inventory behind.
LEMMA FailurePreserves ==
  ASSUME IInv, FailOnRequest \/ FailOnPayload
  PROVE  IInv'
<1>1. /\ pc' = "raised" /\ UNCHANGED <<points, writes, kept, been, offset, payloads, calls, inventory>>
  BY DEF FailOnRequest, FailOnPayload, collectionVars
<1> QED
  BY <1>1 DEF IInv, TypeOK, LoopInv, PagesInv, InventoryIsTrue, ReadOnce, Passed, Held, IsCollection

LEMMA StutterPreserves == IInv /\ UNCHANGED vars => IInv'
BY DEF IInv, TypeOK, LoopInv, PagesInv, InventoryIsTrue, ReadOnce, Passed, Held, IsCollection,
       vars, collectionVars, readVars

LEMMA NextPreserves == IInv /\ [Next]_vars => IInv'
<1> SUFFICES ASSUME IInv, [Next]_vars PROVE IInv'
  OBVIOUS
<1>1. ASSUME NEW i \in PointIds, NEW p \in Payloads, Upsert(i, p) PROVE IInv'
  BY <1>1, UpsertIsCollection, WritePreserves DEF Upsert, IInv
<1>2. ASSUME NEW i \in PointIds, Delete(i) PROVE IInv'
  BY <1>2, DeleteIsCollection, WritePreserves DEF Delete, IInv
<1>3. CASE Scroll
  BY <1>3, ScrollPreserves
<1>4. CASE Chunks
  BY <1>4, ChunksPreserves
<1>5. CASE FailOnRequest \/ FailOnPayload
  BY <1>5, FailurePreserves
<1>6. CASE UNCHANGED vars
  BY <1>6, StutterPreserves
<1> QED
  BY <1>1, <1>2, <1>3, <1>4, <1>5, <1>6 DEF Next, Reading

\* The invariant of the read, from which the theorems below follow.
THEOREM Inductive == Spec => []IInv
BY InitIInv, NextPreserves, PTL DEF Spec

----------------------------------------------------------------------------

\* What is read and made of it has its types, for every collection and page size.
THEOREM TypeCorrect == Spec => []TypeOK
<1>1. IInv => TypeOK
  BY DEF IInv
<1> QED
  BY <1>1, Inductive, PTL

\* However the collection is written between the pages, a point that stays is read as it is
\* (the docstring of _scroll, of a collection that changes).
THEOREM ScrollCorrect == Spec => []ScrollIsComplete
<1>1. IInv => ScrollIsComplete
  BY DEF IInv, LoopInv, ScrollIsComplete, Passed
<1> QED
  BY <1>1, Inductive, PTL

\* The scroll never reads a point twice, though upserts move points to pages to come.
THEOREM ReadOnceCorrect == Spec => []ReadOnce
<1>1. IInv => ReadOnce
  BY DEF IInv, LoopInv
<1> QED
  BY <1>1, Inductive, PTL

\* The dict `scan` makes of the inventory says nothing that the collection did not hold, and
\* what it held throughout for a chunk of one point.
THEOREM InventoryCorrect == Spec => []InventoryIsTrue
<1>1. IInv => InventoryIsTrue
  BY DEF IInv
<1> QED
  BY <1>1, Inductive, PTL

\* A collection at rest is read whole, and in no request too many.
THEOREM QuietReadCorrect == Spec => []QuietReadIsExact
<1>1. ASSUME IInv PROVE QuietReadIsExact
  <2> SUFFICES ASSUME pc = "returned", writes = 0
               PROVE  /\ {<<r.point, r.payload>> : r \in payloads} = Held(points)
                      /\ (calls - 1) * ScrollPage < Cardinality(payloads) \/ calls = 1
    BY DEF QuietReadIsExact
  <2>1. kept = Held(points) /\ been = Held(points)
    BY <1>1 DEF IInv, PagesInv
  <2>2. {<<r.point, r.payload>> : r \in payloads} \subseteq Held(points)
    BY <1>1, <2>1 DEF IInv, LoopInv
  <2>3. ASSUME NEW h \in Held(points) PROVE h \in {<<r.point, r.payload>> : r \in payloads}
    <3>1. PICK r \in payloads : r.point = h[1] /\ r.payload = h[2]
      BY <1>1, <2>1 DEF IInv, LoopInv, Passed
    <3>2. h = <<h[1], h[2]>>
      BY DEF Held
    <3> QED
      BY <3>1, <3>2
  <2>4. (calls - 1) * ScrollPage < Cardinality(payloads) \/ calls = 1
    BY <1>1 DEF IInv, PagesInv
  <2> QED
    BY <2>2, <2>3, <2>4
<1> QED
  BY <1>1, Inductive, PTL
----------------------------------------------------------------------------
(* The read comes to an end, whatever is written meanwhile.                *)

\* As many payloads as points, and these are among those the collection has held.
LEMMA ReadWithinBeen ==
  ASSUME IInv
  PROVE  /\ IsFiniteSet({h[1] : h \in been}) /\ {h[1] : h \in been} \subseteq PointIds
         /\ Cardinality(payloads) <= Cardinality({h[1] : h \in been})
<1> DEFINE ids == {h[1] : h \in been}
           f == [r \in payloads |-> r.point]
<1>1. ids \subseteq PointIds
  BY DEF IInv, TypeOK
<1>2. IsFiniteSet(ids)
  BY <1>1, PointIdsAssumption, FS_Subset
<1>3. f \in Injection(payloads, ids)
  <2>1. ASSUME NEW r \in payloads PROVE r.point \in ids
    <3>1. <<r.point, r.payload>> \in been
      BY DEF IInv, LoopInv
    <3> QED
      BY <3>1
  <2>2. \A r, s \in payloads : r.point = s.point => r = s
    BY DEF IInv, LoopInv, ReadOnce
  <2> HIDE DEF ids
  <2> QED
    BY <2>1, <2>2 DEF Injection, IsInjective
<1>4. Cardinality(payloads) <= Cardinality(ids)
  <2> HIDE DEF ids, f
  <2> QED
    BY <1>2, <1>3, FS_Injection
<1> QED
  BY <1>1, <1>2, <1>4

\* No request is wasted: every one but the last brings a full page of points that were not
\* read before, so their number is bounded by what the collection has held, not by how often
\* it was written.
RequestsBounded ==
  /\ Cardinality(payloads) <= Cardinality({h[1] : h \in been})
  /\ calls # 0 => (calls - 1) * ScrollPage <= Cardinality(payloads)

FullPages == calls # 0 => (calls - 1) * ScrollPage <= Cardinality(payloads)

LEMMA FullPagesKept ==
  ASSUME IInv, IInv', FullPages, [Next]_vars
  PROVE  FullPages'
<1>1. calls \in Nat /\ ScrollPage \in Nat \ {0} /\ Cardinality(payloads) \in Nat
  BY ScrollPageAssumption, FS_CardinalityType DEF IInv, TypeOK, LoopInv
<1>2. CASE UNCHANGED <<calls, payloads>>
  BY <1>2 DEF FullPages
<1>3. CASE Scroll
  <2>1. calls' = calls + 1 /\ pc = "scroll" /\ payloads \subseteq payloads'
    BY <1>3 DEF Scroll
  <2>2. Cardinality(payloads) = calls * ScrollPage
    BY <2>1 DEF IInv, PagesInv
  <2>3. Cardinality(payloads) <= Cardinality(payloads')
    BY <2>1, FS_Subset DEF IInv, LoopInv
  <2>4. calls' - 1 = calls
    BY <1>1, <2>1
  <2> QED
    BY <2>2, <2>3, <2>4 DEF FullPages
<1> QED
  BY <1>2, <1>3 DEF Next, Reading, Upsert, Delete, Write, readVars, FailOnRequest, Chunks,
     FailOnPayload, vars

\* However the collection is written between them, no more requests than its points fill pages,
\* and one that may bring less.
THEOREM RequestsBoundedCorrect == Spec => []RequestsBounded
<1>1. Init => FullPages
  BY DEF Init, FullPages
<1>2. IInv /\ IInv' /\ FullPages /\ [Next]_vars => FullPages'
  BY FullPagesKept
<1>3. IInv /\ FullPages => RequestsBounded
  BY ReadWithinBeen DEF FullPages, RequestsBounded
<1> QED
  BY <1>1, <1>2, <1>3, Inductive, PTL DEF Spec

\* What is left of the read: points, then the making of chunks.
ReadLeft ==
  IF pc = "scroll" THEN 2 + Cardinality(PointIds) - Cardinality(payloads)
  ELSE IF pc = "chunks" THEN 1
  ELSE 0

\* Each step of the read leaves less of it, and none of another client leaves more.
ReadsDown == [][(Reading /\ ReadLeft' < ReadLeft) \/ (~Reading /\ UNCHANGED ReadLeft)]_vars

LEMMA ReadLeftNatural ==
  ASSUME IInv
  PROVE  /\ ReadLeft \in Nat /\ Cardinality(payloads) \in Nat /\ Cardinality(PointIds) \in Nat
         /\ Cardinality(payloads) <= Cardinality(PointIds)
<1> DEFINE ids == {h[1] : h \in been}
<1>1. Cardinality(payloads) \in Nat /\ Cardinality(PointIds) \in Nat
  BY PointIdsAssumption, FS_CardinalityType DEF IInv, LoopInv
<1>2. IsFiniteSet(ids) /\ ids \subseteq PointIds /\ Cardinality(payloads) <= Cardinality(ids)
  BY ReadWithinBeen
<1> HIDE DEF ids
<1>3. Cardinality(ids) <= Cardinality(PointIds) /\ Cardinality(ids) \in Nat
  BY <1>2, PointIdsAssumption, FS_Subset, FS_CardinalityType
<1> QED
  BY <1>1, <1>2, <1>3 DEF ReadLeft

LEMMA ReadingGoesOn ==
  ASSUME IInv, IInv', Reading
  PROVE  ReadLeft' < ReadLeft
<1>1. /\ Cardinality(payloads) \in Nat /\ Cardinality(PointIds) \in Nat
      /\ Cardinality(payloads) <= Cardinality(PointIds)
  BY ReadLeftNatural
<1>2. CASE Scroll /\ pc' = "scroll"
  <2>1. pc = "scroll" /\ calls' = calls + 1 /\ calls \in Nat
    BY <1>2 DEF Scroll, IInv, TypeOK
  <2>2. /\ Cardinality(payloads) = calls * ScrollPage
        /\ Cardinality(payloads)' = (calls + 1) * ScrollPage
    BY <1>2, <2>1 DEF IInv, PagesInv
  <2>3. Cardinality(payloads)' = Cardinality(payloads) + ScrollPage
    BY <2>1, <2>2, ScrollPageAssumption
  <2> QED
    BY <1>1, <1>2, <2>1, <2>3, ScrollPageAssumption DEF ReadLeft
<1>3. CASE Scroll /\ pc' # "scroll"
  <2>1. pc = "scroll" /\ pc' = "chunks"
    BY <1>3 DEF Scroll
  <2> QED
    BY <1>1, <2>1 DEF ReadLeft
<1>4. CASE FailOnRequest
  <2>1. pc = "scroll" /\ pc' = "raised"
    BY <1>4 DEF FailOnRequest
  <2> QED
    BY <1>1, <2>1 DEF ReadLeft
<1>5. CASE Chunks \/ FailOnPayload
  <2>1. pc = "chunks" /\ pc' \in {"returned", "raised"}
    BY <1>5 DEF Chunks, FailOnPayload
  <2> QED
    BY <2>1 DEF ReadLeft
<1> QED
  BY <1>2, <1>3, <1>4, <1>5 DEF Reading

\* The read goes down to its end, one natural number after the other, and the writes of others
\* do not throw it back: there is no livelock with a collection that keeps changing.
THEOREM ReadsDownCorrect == Spec => [](ReadLeft \in Nat) /\ ReadsDown
<1>1. IInv => ReadLeft \in Nat
  BY ReadLeftNatural
<1>2. IInv /\ IInv' /\ [Next]_vars
        => [(Reading /\ ReadLeft' < ReadLeft) \/ (~Reading /\ UNCHANGED ReadLeft)]_vars
  <2> SUFFICES ASSUME IInv, IInv', Next
               PROVE  (Reading /\ ReadLeft' < ReadLeft) \/ (~Reading /\ UNCHANGED ReadLeft)
    OBVIOUS
  <2>1. CASE Reading
    BY <2>1, ReadingGoesOn
  <2>2. CASE ~Reading
    <3>1. UNCHANGED <<pc, payloads>>
      BY <2>2 DEF Next, Upsert, Delete, Write, readVars
    <3> QED
      BY <2>2, <3>1 DEF ReadLeft
  <2> QED
    BY <2>1, <2>2
<1> QED
  BY <1>1, <1>2, Inductive, PTL DEF Spec, ReadsDown

\* Of finitely many points any number of the first can be told from the rest.
LEMMA FirstPoints ==
  ASSUME NEW S, S \subseteq PointIds, NEW n \in Nat, n <= Cardinality(S)
  PROVE  \E page \in SUBSET S : (\A i \in page, j \in S \ page : i < j) /\ Cardinality(page) = n
<1> DEFINE First(page, k) == (\A i \in page, j \in S \ page : i < j) /\ Cardinality(page) = k
           Bad == {k \in 0..n : ~\E page \in SUBSET S : First(page, k)}
<1>1. IsFiniteSet(S) /\ S \subseteq Int /\ Cardinality(S) \in Nat
  BY PointIdsAssumption, FS_Subset, FS_CardinalityType
<1> SUFFICES ASSUME Bad # {} PROVE FALSE
  OBVIOUS
<1>2. PICK k \in Bad : \A m \in Bad : ~(m < k)
  <2>1. Bad \subseteq Nat
    OBVIOUS
  <2> HIDE DEF Bad
  <2>2. PICK k \in Bad : \A m \in Bad : <<m, k>> \notin OpToRel(<, Nat)
    <3> QED
      BY <2>1, NatLessThanWellFounded, WFMin
  <2> QED
    BY <2>1, <2>2 DEF OpToRel
<1>3. k \in 0..n /\ \A page \in SUBSET S : ~First(page, k)
  OBVIOUS
<1>4. k # 0
  <2>1. First({}, 0)
    BY FS_EmptySet
  <2> QED
    BY <1>3, <2>1
<1>5. PICK page \in SUBSET S : First(page, k - 1)
  <2>1. k - 1 \in 0..n /\ k - 1 < k
    BY <1>3, <1>4
  <2>2. k - 1 \notin Bad
    <3> HIDE DEF Bad
    <3> QED
      BY <1>2, <2>1
  <2> QED
    BY <2>1, <2>2
<1> HIDE DEF Bad
<1>6. IsFiniteSet(page) /\ S \ page # {} /\ S \ page \subseteq PointIds
  <2>1. Cardinality(page) # Cardinality(S)
    <3>1. Cardinality(page) = k - 1
      BY <1>5
    <3> QED
      BY <1>1, <1>3, <3>1
  <2>2. IsFiniteSet(page)
    BY <1>1, FS_Subset
  <2>3. page # S
    BY <2>1
  <2> QED
    BY <2>2, <2>3
<1>7. /\ Min(S \ page) \in S \ page
      /\ \A x \in S \ page : Min(S \ page) <= x
  BY <1>6, MinProperty
<1> DEFINE m == Min(S \ page)
           more == page \cup {m}
<1>8. Cardinality(more) = k
  <2>1. m \notin page
    BY <1>7
  <2>2. Cardinality(more) = Cardinality(page) + 1
    <3> HIDE DEF m
    <3> QED
      BY <1>6, <2>1, FS_AddElement
  <2>3. Cardinality(page) = k - 1
    BY <1>5
  <2> QED
    BY <1>3, <2>2, <2>3
<1>9. \A i \in more, j \in S \ more : i < j
  <2> SUFFICES ASSUME NEW i \in more, NEW j \in S \ more PROVE i < j
    OBVIOUS
  <2>1. CASE i \in page
    BY <1>5, <2>1
  <2>2. CASE i = m
    <3>1. m <= j /\ m # j /\ m \in Int /\ j \in Int
      BY <1>1, <1>7
    <3> QED
      BY <2>2, <3>1
  <2> QED
    BY <2>1, <2>2
<1> QED
  <2>1. more \in SUBSET S
    BY <1>7
  <2>2. First(more, k)
    BY <1>8, <1>9
  <2> QED
    BY <1>3, <2>1, <2>2

\* Whatever the collection holds and wherever the next request starts, there is a page that
\* answers it, so the loop is never without a next step; and what it has read either makes
\* chunks or does not.
AnswerExists == pc = "scroll" => \E page \in SUBSET Ahead : IsPage(page)

THEOREM AnswerExistsCorrect == Spec => []AnswerExists
<1>1. TypeOK => AnswerExists
  <2> SUFFICES ASSUME TypeOK
               PROVE  \E page \in SUBSET Ahead : IsPage(page)
    BY DEF AnswerExists
  <2>1. Ahead \subseteq PointIds
    BY DEF Ahead, TypeOK, IsCollection
  <2>2. Cardinality(Ahead) \in Nat /\ ScrollPage \in Nat
    BY <2>1, PointIdsAssumption, ScrollPageAssumption, FS_Subset, FS_CardinalityType
  <2>3. CASE Cardinality(Ahead) <= ScrollPage
    BY <2>3 DEF IsPage
  <2>4. CASE ScrollPage <= Cardinality(Ahead)
    <3>1. PICK page \in SUBSET Ahead :
            /\ \A i \in page, j \in Ahead \ page : i < j
            /\ Cardinality(page) = ScrollPage
      BY <2>1, <2>2, <2>4, FirstPoints
    <3> QED
      BY <2>2, <3>1 DEF IsPage
  <2> QED
    BY <2>2, <2>3, <2>4
<1> QED
  BY <1>1, TypeCorrect, PTL
=============================================================================
