---------------------------- MODULE QdrantScroll ----------------------------
(***************************************************************************)
(* The inventory read of a Qdrant collection: `QdrantBackend._scroll`      *)
(* follows next_page_offset page by page, `chunks` makes chunks of the     *)
(* payloads, and `scan` keeps them in a dict by chunk id.  Other clients   *)
(* of the collection go on writing between the requests.                   *)
(*                                                                         *)
(* The collection and its scroll endpoint are outside this code: a page is *)
(* the first points, by point id, from the offset on, and next_page_offset *)
(* is the id of the first point after it.                                  *)
(***************************************************************************)
EXTENDS FiniteSets, FiniteSetsExt, Functions, Integers

CONSTANTS
  PointIds,    (* ids of points, which the collection orders               *)
  ChunkIds,    (* what a payload can name as its chunk_id                  *)
  Tags,        (* what its other fields can say                            *)
  Collections, (* what the collection may hold when the read begins        *)
  Payloads,    (* what the other clients may write                         *)
  ScrollPage,  (* SCROLL_PAGE: how many points a request asks for          *)
  MaxWrites,   (* bound on the writes of the other clients                 *)
  None         (* Python's None, and a field that is missing or no good    *)

ASSUME PointIdsAssumption ==
  PointIds \subseteq Int /\ IsFiniteSet(PointIds) /\ None \notin PointIds
ASSUME NoFieldAssumption == None \notin ChunkIds \cup Tags
ASSUME ScrollPageAssumption == ScrollPage \in Nat \ {0}
ASSUME MaxWritesAssumption == MaxWrites \in Nat

VARIABLES
  points,     (* the collection: payloads by point id                      *)
  writes,     (* how often it was written since the scroll began           *)
  kept,       (* what it has held, unchanged, since then                   *)
  been,       (* what it has held at some time since then                  *)
  offset,     (* where the next request starts, None for the first point   *)
  payloads,   (* what was read: each payload with the request and the      *)
              (* point it came by, which tell its place in the list        *)
  calls,      (* how many requests were answered                           *)
  pc,         (* where the read is                                         *)
  inventory   (* the dict of chunks, once there is one                     *)

collectionVars == <<points, writes, kept, been>>
readVars == <<offset, payloads, calls, pc, inventory>>
vars == <<collectionVars, readVars>>

\* A payload as far as `chunks` reads it.  Without a chunk_id, with no EntitlementState or a
\* time that is no ISO time, it makes no chunk.
Payload == [chunk_id: ChunkIds \cup {None}, tag: Tags \cup {None}]
MakesChunk(p) == p.chunk_id # None /\ p.tag # None

IsCollection(ps) == DOMAIN ps \subseteq PointIds /\ ps \in [DOMAIN ps -> Payload]

ASSUME CollectionsAssumption == \A ps \in Collections : IsCollection(ps)
ASSUME PayloadsAssumption == Payloads \subseteq Payload

Read == [call: Nat, point: PointIds, payload: Payload]
Held(ps) == {<<i, ps[i]>> : i \in DOMAIN ps}

TypeOK ==
  /\ IsCollection(points)
  /\ writes \in 0..MaxWrites
  /\ kept \subseteq Held(points) /\ Held(points) \subseteq been
  /\ been \subseteq PointIds \X Payload
  /\ offset \in PointIds \cup {None}
  /\ payloads \subseteq Read
  /\ calls \in Nat
  /\ pc \in {"scroll", "chunks", "returned", "raised"}
  /\ DOMAIN inventory \subseteq ChunkIds /\ inventory \in [DOMAIN inventory -> Tags]

Init ==
  /\ points \in Collections
  /\ writes = 0
  /\ kept = Held(points)
  /\ been = Held(points)
  /\ offset = None
  /\ payloads = {}
  /\ calls = 0
  /\ pc = "scroll"
  /\ inventory = <<>>

----------------------------------------------------------------------------
(* The other clients *)

Write(ps) ==
  /\ pc = "scroll" /\ writes < MaxWrites
  /\ points' = ps
  /\ writes' = writes + 1
  /\ kept' = kept \cap Held(ps)
  /\ been' = been \cup Held(ps)
  /\ UNCHANGED readVars

Upsert(i, p) == Write([j \in DOMAIN points \cup {i} |-> IF j = i THEN p ELSE points[j]])

Delete(i) == i \in DOMAIN points /\ Write(Restrict(points, DOMAIN points \ {i}))

----------------------------------------------------------------------------
(* _scroll *)

Ahead == {i \in DOMAIN points : offset # None => i >= offset}

\* The first ScrollPage points from the offset on, or all that are left.
IsPage(page) ==
  /\ \A i \in page, j \in Ahead \ page : i < j
  /\ Cardinality(page) <= ScrollPage
  /\ page = Ahead \/ Cardinality(page) = ScrollPage

\* A wrong offset: the last point read instead of the first not read.
LastReadOffset(page) == IF page = Ahead THEN None ELSE Max(page)

\* A wrong offset: past the first point not read.
PastNextOffset(page) ==
  IF page = Ahead \/ {i \in PointIds : \A j \in Ahead \ page : i > j} = {}
  THEN None
  ELSE Min({i \in PointIds : i > Min(Ahead \ page)})

NextOffset(page) == IF page = Ahead THEN None ELSE Min(Ahead \ page)

\* The read before 2026-09-10: one page, and no more.
ScrollOnce ==
  /\ pc = "scroll"
  /\ \E page \in SUBSET Ahead :
       /\ IsPage(page)
       /\ payloads' = {[call |-> calls, point |-> i, payload |-> points[i]] : i \in page}
  /\ calls' = calls + 1
  /\ pc' = "chunks"
  /\ UNCHANGED <<collectionVars, offset, inventory>>

Scroll ==
  /\ pc = "scroll"
  /\ \E page \in SUBSET Ahead :
       /\ IsPage(page)
       /\ payloads' = payloads \cup
            {[call |-> calls, point |-> i, payload |-> points[i]] : i \in page}
       /\ offset' = NextOffset(page)
  /\ calls' = calls + 1
  /\ pc' = IF offset' = None THEN "chunks" ELSE "scroll"
  /\ UNCHANGED <<collectionVars, inventory>>

\* No answer within the 15 seconds, an HTTP error, an answer of another shape.
FailOnRequest ==
  /\ pc = "scroll"
  /\ pc' = "raised"
  /\ UNCHANGED <<collectionVars, offset, payloads, calls, inventory>>

----------------------------------------------------------------------------
(* chunks, and the dict that `scan` makes of them *)

Before(r, s) == r.call < s.call \/ (r.call = s.call /\ r.point < s.point)

\* What the dict keeps of several chunks of one id: sorting by id is stable, so the last read.
LastRead(c) ==
  CHOOSE r \in payloads :
    /\ r.payload.chunk_id = c
    /\ \A s \in payloads : s.payload.chunk_id = c => s = r \/ Before(s, r)

\* A wrong reading that makes a chunk of whatever it finds.
ChunksUnchecked ==
  /\ pc = "chunks"
  /\ inventory' = [c \in {r.payload.chunk_id : r \in payloads} |-> LastRead(c).payload.tag]
  /\ pc' = "returned"
  /\ UNCHANGED <<collectionVars, offset, payloads, calls>>

\* A wrong dict that confuses the chunks: the tag of the last payload for all of them.
ChunksAllAlike ==
  /\ pc = "chunks"
  /\ \A r \in payloads : MakesChunk(r.payload)
  /\ LET last == CHOOSE r \in payloads : \A s \in payloads : s = r \/ Before(s, r)
     IN  inventory' = [c \in {r.payload.chunk_id : r \in payloads} |-> last.payload.tag]
  /\ pc' = "returned"
  /\ UNCHANGED <<collectionVars, offset, payloads, calls>>

Chunks ==
  /\ pc = "chunks"
  /\ \A r \in payloads : MakesChunk(r.payload)
  /\ inventory' = [c \in {r.payload.chunk_id : r \in payloads} |-> LastRead(c).payload.tag]
  /\ pc' = "returned"
  /\ UNCHANGED <<collectionVars, offset, payloads, calls>>

\* A wrong check that looks at the first page only.
FailOnFirstPage ==
  /\ pc = "chunks"
  /\ \E r \in payloads : r.call = 0 /\ ~MakesChunk(r.payload)
  /\ pc' = "raised"
  /\ UNCHANGED <<collectionVars, offset, payloads, calls, inventory>>

\* A KeyError or a ValueError on one payload loses them all.
FailOnPayload ==
  /\ pc = "chunks"
  /\ \E r \in payloads : ~MakesChunk(r.payload)
  /\ pc' = "raised"
  /\ UNCHANGED <<collectionVars, offset, payloads, calls, inventory>>

Reading == Scroll \/ FailOnRequest \/ Chunks \/ FailOnPayload

Next ==
  \/ \E i \in PointIds, p \in Payloads : Upsert(i, p)
  \/ \E i \in PointIds : Delete(i)
  \/ Reading

Spec == Init /\ [][Next]_vars

\* The reader is one sequential loop; a request is answered or given up after 15 seconds.
FairSpec == Spec /\ WF_vars(Reading)

----------------------------------------------------------------------------
(* Properties *)

\* Nothing that stays is missed: whatever is inserted, changed or deleted between the pages,
\* a point that is there throughout is read with the payload it has throughout
\* ("Every point's payload, following `next_page_offset` until the store returns none").
ScrollIsComplete ==
  pc \in {"chunks", "returned"} =>
    \A h \in kept : \E r \in payloads : r.point = h[1] /\ r.payload = h[2]

\* No point is read twice, not even one that changes between the pages: the number of chunks
\* examined never exceeds that of the points.
ReadOnce == \A r, s \in payloads : r.point = s.point => r = s

\* The inventory tells the truth: all it holds was in the collection while it was read, and
\* the chunk of a point that stayed is in it with the tag of that point, unless another point
\* bore the same chunk id meanwhile.
InventoryIsTrue ==
  pc = "returned" =>
    /\ \A c \in DOMAIN inventory : \E h \in been : h[2] = [chunk_id |-> c, tag |-> inventory[c]]
    /\ \A h \in kept :
         (\A g \in been : g[1] # h[1] => g[2].chunk_id # h[2].chunk_id) =>
           h[2].chunk_id \in DOMAIN inventory /\ inventory[h[2].chunk_id] = h[2].tag

\* A collection nobody writes is read whole, in no more requests than its points fill pages,
\* and one for an empty page.
QuietReadIsExact ==
  pc = "returned" /\ writes = 0 =>
    /\ {<<r.point, r.payload>> : r \in payloads} = Held(points)
    /\ (calls - 1) * ScrollPage < Cardinality(payloads) \/ calls = 1

\* The read ends although the collection keeps changing, as the writes do.
EventuallyReturns == <>(pc \in {"returned", "raised"})
=============================================================================
