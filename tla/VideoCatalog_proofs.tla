------------------------- MODULE VideoCatalog_proofs -------------------------
(***************************************************************************)
(* Proofs about VideoCatalog, for any videos, page sizes and number of     *)
(* pages: what a list read page by page may miss, and what it may repeat.  *)
(***************************************************************************)
EXTENDS VideoCatalog, Integers, FiniteSetTheorems, SequenceTheorems, TLAPS

\* Where the client's page begins.
Start == (walk.page - 1) * walk.size

\* The rows ORDER BY puts before v; those among them that came, or came or
\* went, during the walk.
Before(v) == {u \in Rows : Earlier(u, v)}
Pushed(v) == \E u \in seen.added : Earlier(u, v)
Shifted(v) == \E u \in seen.added \cup seen.removed : Earlier(u, v)

Types ==
  /\ order \in Seq(Videos) /\ IsInjective(order)
  /\ committed \subseteq ToSet(order) \ deleted
  /\ deleted \subseteq ToSet(order) /\ ready \subseteq committed
  /\ walk \in [at : {"new", "idle", "counted", "over"}, page : 0..(MaxPage + 1),
               size : 0..MaxSize, total : 0..Len(order)]
  /\ seen \in [there : SUBSET Videos, listed : SUBSET Videos, twice : SUBSET Videos,
               added : SUBSET Videos, removed : SUBSET Videos]
  /\ viewer \in [at : {"idle", "video", "found", "empty", "error"},
                 video : Videos \cup {NoVideo}]

\* The walk: a page that is asked for has a number and a size, and what the
\* history knows are the user's rows, deleted or not.
Walked ==
  /\ Walking => walk.page > 0 /\ walk.size > 0
  /\ walk.at = "counted" => walk.page <= MaxPage
  /\ walk.at = "new" => seen.there = {} /\ seen.listed = {} /\ seen.twice = {}
  /\ seen.there \cup seen.listed \subseteq (committed \cup deleted) \ Others
  /\ seen.twice \subseteq seen.listed

\* Until the end, whatever was listed is before the page to come, unless
\* earlier rows pushed it back, ...
ListedBehind ==
  Walking => \A v \in seen.listed \cap committed : Rank(v) < Start \/ Pushed(v)

\* ... and what has been there all the time and was not listed is yet to come,
\* within the count if there is one, unless earlier rows came or went.
OthersAhead ==
  Walking =>
    \A v \in (seen.there \cap committed) \ seen.listed :
      \/ Start <= Rank(v) /\ (walk.at = "counted" => Rank(v) < walk.total)
      \/ Shifted(v)

IInv ==
  /\ Types /\ Walked /\ ListedBehind /\ OthersAhead
  /\ MissedOnlyByShift /\ RepeatedOnlyByShift

-----------------------------------------------------------------------------
(* Rows and ranks                                                          *)

\* There are no more rows than places, and no row comes before itself.
LEMMA PlacesAre ==
  ASSUME NEW o \in Seq(Videos), IsInjective(o)
  PROVE  /\ Len(o) \in Nat /\ ToSet(o) = {o[i] : i \in 1..Len(o)}
         /\ ToSet(o) \subseteq Videos
         /\ IsFiniteSet(ToSet(o)) /\ Cardinality(ToSet(o)) <= Len(o)
         /\ \A i, k \in 1..Len(o) : o[i] = o[k] => i = k
<1>1. Len(o) \in Nat /\ DOMAIN o = 1..Len(o) /\ o \in [1..Len(o) -> Videos]
  BY LenProperties
<1>2. ToSet(o) = {o[i] : i \in 1..Len(o)}
  BY <1>1 DEF ToSet
<1>3. IsFiniteSet(1..Len(o)) /\ Cardinality(1..Len(o)) = Len(o)
  BY <1>1, FS_Interval
<1>4. o \in Surjection(1..Len(o), ToSet(o))
  BY <1>1, <1>2 DEF Surjection
<1>5. IsFiniteSet(ToSet(o)) /\ Cardinality(ToSet(o)) <= Cardinality(1..Len(o))
  BY <1>3, <1>4, FS_Surjection
<1>6. \A i, k \in 1..Len(o) : o[i] = o[k] => i = k
  BY <1>1 DEF IsInjective
<1>7. QED
  BY <1>1, <1>2, <1>3, <1>5, <1>6

LEMMA RowsAre ==
  ASSUME Types
  PROVE  /\ Len(order) \in Nat /\ ToSet(order) = {order[i] : i \in 1..Len(order)}
         /\ ToSet(order) \subseteq Videos
         /\ Rows \subseteq ToSet(order) /\ IsFiniteSet(Rows)
         /\ Cardinality(Rows) \in 0..Len(order)
         /\ \A v : ~Earlier(v, v)
<1>1. /\ Len(order) \in Nat /\ ToSet(order) = {order[i] : i \in 1..Len(order)}
      /\ ToSet(order) \subseteq Videos
      /\ IsFiniteSet(ToSet(order)) /\ Cardinality(ToSet(order)) <= Len(order)
      /\ \A i, k \in 1..Len(order) : order[i] = order[k] => i = k
  BY PlacesAre DEF Types
<1>2. Rows \in SUBSET ToSet(order)
  BY DEF Types, Rows
<1>3. IsFiniteSet(Rows) /\ Cardinality(Rows) <= Cardinality(ToSet(order))
  BY <1>1, <1>2, FS_Subset
<1>4. Cardinality(Rows) \in Nat /\ Cardinality(ToSet(order)) \in Nat
  BY <1>1, <1>3, FS_CardinalityType
<1>5. \A v : ~Earlier(v, v)
  BY <1>1 DEF Earlier
<1>6. QED
  BY <1>1, <1>2, <1>3, <1>4, <1>5

LEMMA RankIs ==
  ASSUME Types, NEW v
  PROVE  /\ Rank(v) = Cardinality(Before(v)) /\ IsFiniteSet(Before(v)) /\ Rank(v) \in Nat
         /\ v \in Rows => Rank(v) < Cardinality(Rows)
<1>1. IsFiniteSet(Rows) /\ Cardinality(Rows) \in Nat /\ ~Earlier(v, v)
  BY RowsAre
<1>2. Rank(v) = Cardinality(Before(v))
  BY DEF Rank, Before
<1>3. Before(v) \in SUBSET (Rows \ {v})
  BY <1>1 DEF Before
<1>4. /\ IsFiniteSet(Rows \ {v})
      /\ v \in Rows => Cardinality(Rows \ {v}) = Cardinality(Rows) - 1
  BY <1>1, FS_RemoveElement
<1>5. IsFiniteSet(Before(v)) /\ Cardinality(Before(v)) <= Cardinality(Rows \ {v})
  BY <1>3, <1>4, FS_Subset
<1>6. Cardinality(Before(v)) \in Nat
  BY <1>5, FS_CardinalityType
<1>7. QED
  BY <1>1, <1>2, <1>4, <1>5, <1>6

\* A list without repetitions that a new element is appended to.
LEMMA AppendIs ==
  ASSUME NEW o \in Seq(Videos), IsInjective(o), NEW w \in Videos,
         w \notin ToSet(o), NEW p, p = Append(o, w)
  PROVE  /\ p \in Seq(Videos) /\ IsInjective(p) /\ Len(p) = Len(o) + 1 /\ Len(o) \in Nat
         /\ p[Len(o) + 1] = w /\ \A i \in 1..Len(o) : p[i] = o[i]
         /\ ToSet(p) = ToSet(o) \cup {w}
<1>1. /\ Len(o) \in Nat /\ ToSet(o) = {o[i] : i \in 1..Len(o)}
      /\ \A i, k \in 1..Len(o) : o[i] = o[k] => i = k
  BY PlacesAre
<1>2. /\ p \in Seq(Videos) /\ Len(p) = Len(o) + 1
      /\ p[Len(o) + 1] = w /\ \A i \in 1..Len(o) : p[i] = o[i]
  BY AppendProperties
<1>3. DOMAIN p = 1..Len(p) /\ Len(p) \in Nat
  BY <1>2, LenProperties
<1>4. \A i \in 1..Len(p) : i \in 1..Len(o) \/ i = Len(o) + 1
  BY <1>1, <1>2
<1>5. \A i, k \in 1..Len(p) : p[i] = p[k] => i = k
  BY <1>1, <1>2, <1>4
<1>6. IsInjective(p)
  BY <1>3, <1>5 DEF IsInjective
<1>7. ToSet(p) = {p[i] : i \in 1..Len(p)}
  BY <1>3 DEF ToSet
<1>8. ToSet(p) = ToSet(o) \cup {w}
  <2>1. \A i \in 1..Len(o) : i \in 1..Len(p)
    BY <1>1, <1>2
  <2>2. Len(o) + 1 \in 1..Len(p)
    BY <1>1, <1>2
  <2>3. QED
    BY <1>1, <1>2, <1>4, <1>7, <2>1, <2>2
<1>9. QED
  BY <1>1, <1>2, <1>6, <1>8

-----------------------------------------------------------------------------
(* Pages                                                                   *)

LEMMA PagesAre ==
  ASSUME NEW page \in Nat \ {0}, NEW size \in Nat
  PROVE  /\ GetOffset(page, size) = (page - 1) * size
         /\ (page - 1) * size \in Nat /\ page * size \in Nat
         /\ (page - 1) * size + size = page * size
<1>1. PICK p \in Nat : page = p + 1
  <2>1. page - 1 \in Nat /\ page = (page - 1) + 1
    OBVIOUS
  <2>2. QED
    BY <2>1
<1>2. page - 1 = p
  BY <1>1
<1>3. p * size \in Nat /\ (p + 1) * size = p * size + size
  BY SMT
<1>4. QED
  BY <1>1, <1>2, <1>3 DEF GetOffset

LEMMA NormIs ==
  /\ NormPage(0) = 1
  /\ \A p \in Nat \ {0} : NormPage(p) = p
  /\ \A n \in Nat : NormSize(n) \in 1..MaxSize
  /\ \A n \in 1..MaxSize : NormSize(n) = n
BY CatalogAssumption DEF NormPage, NormSize

-----------------------------------------------------------------------------
(* Steps that leave the list alone, and steps that change rows             *)

LEMMA SameRows ==
  ASSUME UNCHANGED <<order, committed>>
  PROVE  /\ Rows' = Rows
         /\ \A u, v : Earlier(u, v)' <=> Earlier(u, v)
         /\ \A v : Rank(v)' = Rank(v)
<1>1. Rows' = Rows
  BY DEF Rows
<1>2. \A u, v : Earlier(u, v)' <=> Earlier(u, v)
  BY DEF Earlier
<1>3. \A v : {u \in Rows : Earlier(u, v)}' = {u \in Rows : Earlier(u, v)}
  BY <1>1, <1>2
<1>4. \A v : Rank(v)' = Rank(v)
  BY <1>3 DEF Rank
<1>5. QED
  BY <1>1, <1>2, <1>4

\* Only the playback rows and the viewer change.
LEMMA ListKept ==
  ASSUME IInv, UNCHANGED <<order, committed, deleted, list>>, ready' \subseteq committed,
         viewer' \in [at : {"idle", "video", "found", "empty", "error"},
                      video : Videos \cup {NoVideo}]
  PROVE  IInv'
<1>1. UNCHANGED <<order, committed, deleted, walk, seen>>
  BY DEF list
<1>2. Types'
  BY <1>1 DEF IInv, Types
<1>3. Walked'
  BY <1>1 DEF IInv, Walked, Walking
<1>4. (\A u, v : Earlier(u, v)' <=> Earlier(u, v)) /\ \A v : Rank(v)' = Rank(v)
  BY <1>1, SameRows
<1>5. \A v : (Pushed(v)' <=> Pushed(v)) /\ (Shifted(v)' <=> Shifted(v))
  BY <1>1, <1>4 DEF Pushed, Shifted
<1>6. ListedBehind' /\ OthersAhead'
  BY <1>1, <1>4, <1>5 DEF IInv, ListedBehind, OthersAhead, Walking, Start
<1>7. MissedOnlyByShift' /\ RepeatedOnlyByShift'
  BY <1>1, <1>4 DEF IInv, MissedOnlyByShift, RepeatedOnlyByShift
<1>8. QED
  BY <1>2, <1>3, <1>6, <1>7 DEF IInv

\* Rows come and go; the history has noted what moves the rows that stay.
LEMMA RowsMoved ==
  ASSUME IInv, Types', walk' = walk,
         /\ seen'.there = seen.there /\ seen'.listed = seen.listed
         /\ seen'.twice = seen.twice
         /\ seen.added \subseteq seen'.added /\ seen.removed \subseteq seen'.removed
         /\ ~Walking => seen' = seen,
         committed \cup deleted \subseteq committed' \cup deleted',
         \A v \in committed' \cap (committed \cup deleted) : v \in committed,
         \A u : \A v \in ToSet(order) : Earlier(u, v) <=> Earlier(u, v)',
         Walking =>
           \A v \in Rows \cap Rows' :
             \/ Rank(v)' = Rank(v)
             \/ Pushed(v)'
             \/ Shifted(v)' /\ Rank(v)' \in Nat /\ Rank(v)' <= Rank(v)
  PROVE  IInv'
<1>1. /\ Types /\ Walked /\ committed \cup deleted \subseteq ToSet(order)
      /\ walk.page \in Nat /\ walk.size \in Nat /\ walk.total \in Nat
  BY CatalogAssumption DEF IInv, Types
<1>2. seen.there \cup seen.listed \subseteq (committed \cup deleted) \ Others
  BY <1>1 DEF Walked
<1>3. Walked'
  BY <1>1, <1>2 DEF Walked, Walking
<1>4. \A v \in ToSet(order) : /\ Pushed(v) => Pushed(v)'
                              /\ Shifted(v) => Shifted(v)'
                              /\ Pushed(v)' => Shifted(v)'
  BY DEF Pushed, Shifted
<1>5. ASSUME NEW v \in (seen.there \cup seen.listed) \cap committed'
      PROVE  v \in Rows \cap Rows' /\ v \in committed /\ v \in ToSet(order)
  BY <1>1, <1>2, <1>5 DEF Rows
<1>6. (Walking <=> Walking') /\ Start' = Start /\ (Walking => Start \in Int)
  <2>1. (Walking <=> Walking') /\ Start' = Start
    BY DEF Walking, Start
  <2>2. ASSUME Walking PROVE Start \in Int
    BY <1>1, <2>2, PagesAre DEF Walked, Start
  <2>3. QED
    BY <2>1, <2>2
<1>7. ListedBehind'
  <2> SUFFICES ASSUME Walking, NEW v \in seen.listed \cap committed'
               PROVE  Rank(v)' < Start \/ Pushed(v)'
    BY <1>6 DEF ListedBehind
  <2>1. v \in Rows \cap Rows' /\ v \in committed /\ v \in ToSet(order)
    BY <1>5
  <2>2. Rank(v) < Start \/ Pushed(v)
    BY <2>1 DEF IInv, ListedBehind
  <2>3. Rank(v) \in Nat
    BY <1>1, RankIs
  <2>4. QED
    BY <1>4, <1>6, <2>1, <2>2, <2>3
<1>8. OthersAhead'
  <2> SUFFICES ASSUME Walking, NEW v \in (seen.there \cap committed') \ seen.listed
               PROVE  \/ Start <= Rank(v)' /\ (walk.at = "counted" => Rank(v)' < walk.total)
                      \/ Shifted(v)'
    BY <1>6 DEF OthersAhead
  <2>1. v \in Rows \cap Rows' /\ v \in committed /\ v \in ToSet(order)
    BY <1>5
  <2>2. \/ Start <= Rank(v) /\ (walk.at = "counted" => Rank(v) < walk.total)
        \/ Shifted(v)
    BY <2>1 DEF IInv, OthersAhead
  <2>3. Rank(v)' = Rank(v) \/ Shifted(v)'
    BY <1>4, <2>1
  <2>4. QED
    BY <1>4, <2>1, <2>2, <2>3
<1>9. MissedOnlyByShift'
  <2> SUFFICES ASSUME walk.at = "over", NEW v \in (seen.there \cap committed') \ seen.listed
               PROVE  \E u \in (seen.added \cup seen.removed) : Earlier(u, v)'
    BY DEF MissedOnlyByShift, Walking
  <2>1. v \in committed /\ v \in ToSet(order)
    BY <1>5
  <2>2. \E u \in (seen.added \cup seen.removed) : Earlier(u, v)
    BY <2>1 DEF IInv, MissedOnlyByShift
  <2>3. QED
    BY <2>1, <2>2
<1>10. RepeatedOnlyByShift'
  <2> SUFFICES ASSUME NEW v \in seen.twice
               PROVE  \E u \in seen'.added : Earlier(u, v)'
    BY DEF RepeatedOnlyByShift
  <2>1. v \in ToSet(order)
    BY <1>1, <1>2 DEF Walked
  <2>2. \E u \in seen.added : Earlier(u, v)
    BY DEF IInv, RepeatedOnlyByShift
  <2>3. QED
    BY <2>1, <2>2
<1>11. QED
  BY <1>3, <1>7, <1>8, <1>9, <1>10 DEF IInv

LEMMA BeginInsertStep ==
  ASSUME IInv, NEW w \in Videos, BeginInsert(w)
  PROVE  IInv'
<1>1. /\ Types /\ order' = Append(order, w) /\ \A i \in 1..Len(order) : order[i] # w
      /\ UNCHANGED <<committed, deleted, ready, walk, seen, viewer>>
  BY DEF IInv, BeginInsert, list
<1>2. order \in Seq(Videos) /\ IsInjective(order)
  BY <1>1 DEF Types
<1>3. /\ order' \in Seq(Videos) /\ IsInjective(order')
      /\ Len(order') = Len(order) + 1 /\ Len(order) \in Nat
      /\ order'[Len(order) + 1] = w /\ \A i \in 1..Len(order) : order'[i] = order[i]
      /\ ToSet(order') = ToSet(order) \cup {w} /\ w \notin ToSet(order)
  <2>1. w \notin ToSet(order)
    BY <1>1, RowsAre
  <2>2. order' = Append(order, w) /\ w \in Videos
    BY <1>1
  <2>3. order' \in Seq(Videos)
    BY <1>2, <2>1, <2>2, AppendIs
  <2>4. IsInjective(order')
    BY <1>2, <2>1, <2>2, AppendIs
  <2>5. ToSet(order') = ToSet(order) \cup {w}
    BY <1>2, <2>1, <2>2, AppendIs
  <2>6. Len(order') = Len(order) + 1 /\ Len(order) \in Nat
    BY <1>2, <2>1, <2>2, AppendIs
  <2>7. order'[Len(order) + 1] = w /\ \A i \in 1..Len(order) : order'[i] = order[i]
    BY <1>2, <2>1, <2>2, AppendIs
  <2>8. QED
    BY <2>1, <2>3, <2>4, <2>5, <2>6, <2>7
<1>4. Types'
  <2>1. walk.total \in 0..Len(order')
    BY <1>1, <1>3 DEF Types
  <2>2. QED
    BY <1>1, <1>3, <2>1 DEF Types
<1>5. ASSUME NEW u, NEW v \in ToSet(order) PROVE Earlier(u, v) <=> Earlier(u, v)'
  <2>1. \A i \in 1..Len(order') : i \in 1..Len(order) \/ i = Len(order) + 1
    BY <1>3
  <2>2. \A i \in 1..Len(order) : i \in 1..Len(order')
    BY <1>3
  <2>3. v # w
    BY <1>3
  <2>4. ASSUME Earlier(u, v) PROVE Earlier(u, v)'
    BY <1>3, <2>2, <2>4 DEF Earlier
  <2>5. ASSUME Earlier(u, v)' PROVE Earlier(u, v)
    <3>1. PICK i, k \in 1..Len(order') : order'[i] = u /\ order'[k] = v /\ i < k
      BY <2>5 DEF Earlier
    <3>2. k \in 1..Len(order)
      BY <1>3, <2>1, <2>3, <3>1
    <3>3. i \in 1..Len(order)
      BY <1>3, <2>1, <3>1, <3>2
    <3>4. QED
      BY <1>3, <3>1, <3>2, <3>3 DEF Earlier
  <2>6. QED
    BY <2>4, <2>5
<1>6. Rows' = Rows /\ Rows \subseteq ToSet(order)
  BY <1>1, RowsAre DEF Rows
<1>7. ASSUME NEW v \in Rows \cap Rows' PROVE Rank(v)' = Rank(v)
  <2>1. {u \in Rows : Earlier(u, v)}' = {u \in Rows : Earlier(u, v)}
    BY <1>5, <1>6
  <2>2. QED
    BY <2>1 DEF Rank
<1>8. QED
  BY <1>1, <1>4, <1>5, <1>7, RowsMoved

\* What the history notes of a change.
LEMMA NotedIs ==
  ASSUME Types, NEW change \in {"added", "removed"}, NEW w \in Videos, Noted(change, w)
  PROVE  /\ seen'.there = seen.there /\ seen'.listed = seen.listed
         /\ seen'.twice = seen.twice
         /\ seen.added \subseteq seen'.added /\ seen.removed \subseteq seen'.removed
         /\ ~Walking => seen' = seen
         /\ Walking => w \in seen'[change]
         /\ seen' \in [there : SUBSET Videos, listed : SUBSET Videos, twice : SUBSET Videos,
                       added : SUBSET Videos, removed : SUBSET Videos]
<1>1. CASE ~Walking
  BY <1>1 DEF Noted, Types
<1>2. CASE Walking /\ change = "added"
  BY <1>2 DEF Noted, Types
<1>3. CASE Walking /\ change = "removed"
  BY <1>3 DEF Noted, Types
<1>4. QED
  BY <1>1, <1>2, <1>3

LEMMA CommitInsertStep ==
  ASSUME IInv, NEW w \in Videos, CommitInsert(w)
  PROVE  IInv'
<1>1. /\ Types /\ w \in ToSet(order) /\ w \notin committed \cup deleted
      /\ committed' = committed \cup {w} /\ Noted("added", w)
      /\ UNCHANGED <<order, deleted, ready, walk, viewer>>
  BY RowsAre DEF IInv, CommitInsert
<1>2. /\ seen'.there = seen.there /\ seen'.listed = seen.listed
      /\ seen'.twice = seen.twice
      /\ seen.added \subseteq seen'.added /\ seen.removed \subseteq seen'.removed
      /\ ~Walking => seen' = seen
      /\ Walking => w \in seen'.added
      /\ seen' \in [there : SUBSET Videos, listed : SUBSET Videos, twice : SUBSET Videos,
                    added : SUBSET Videos, removed : SUBSET Videos]
  BY <1>1, NotedIs
<1>3. Types'
  BY <1>1, <1>2 DEF Types
<1>4. \A u, v : Earlier(u, v) <=> Earlier(u, v)'
  BY <1>1 DEF Earlier
<1>5. ASSUME Walking, NEW v \in Rows \cap Rows' PROVE Rank(v)' = Rank(v) \/ Pushed(v)'
  <2>1. CASE Earlier(w, v)
    BY <1>2, <1>4, <1>5, <2>1 DEF Pushed
  <2>2. CASE ~Earlier(w, v)
    <3>1. {u \in Rows : Earlier(u, v)}' = {u \in Rows : Earlier(u, v)}
      BY <1>1, <1>4, <2>2 DEF Rows
    <3>2. QED
      BY <3>1 DEF Rank
  <2>3. QED
    BY <2>1, <2>2
<1>6. QED
  BY <1>1, <1>2, <1>3, <1>4, <1>5, RowsMoved

LEMMA DeleteVideoStep ==
  ASSUME IInv, NEW w \in Videos, DeleteVideo(w)
  PROVE  IInv'
<1>1. /\ Types /\ w \in committed /\ Noted("removed", w)
      /\ committed' = committed \ {w} /\ deleted' = deleted \cup {w} /\ ready' = ready \ {w}
      /\ UNCHANGED <<order, walk, viewer>>
  BY DEF IInv, DeleteVideo, DeleteRow
<1>2. /\ seen'.there = seen.there /\ seen'.listed = seen.listed
      /\ seen'.twice = seen.twice
      /\ seen.added \subseteq seen'.added /\ seen.removed \subseteq seen'.removed
      /\ ~Walking => seen' = seen
      /\ Walking => w \in seen'.removed
      /\ seen' \in [there : SUBSET Videos, listed : SUBSET Videos, twice : SUBSET Videos,
                    added : SUBSET Videos, removed : SUBSET Videos]
  BY <1>1, NotedIs
<1>3. Types'
  BY <1>1, <1>2 DEF Types
<1>4. \A u, v : Earlier(u, v) <=> Earlier(u, v)'
  BY <1>1 DEF Earlier
<1>5. ASSUME Walking, NEW v \in Rows \cap Rows'
      PROVE  \/ Rank(v)' = Rank(v)
             \/ Shifted(v)' /\ Rank(v)' \in Nat /\ Rank(v)' <= Rank(v)
  <2>1. CASE Earlier(w, v)
    <3>1. Shifted(v)'
      BY <1>2, <1>4, <1>5, <2>1 DEF Shifted
    <3>2. Before(v)' \in SUBSET Before(v) /\ Rank(v)' = Cardinality(Before(v)')
      BY <1>1, <1>4 DEF Before, Rows, Rank
    <3>3. IsFiniteSet(Before(v)) /\ Rank(v) = Cardinality(Before(v))
      BY <1>1, RankIs
    <3>4. /\ IsFiniteSet(Before(v)')
          /\ Cardinality(Before(v)') <= Cardinality(Before(v))
      BY <3>2, <3>3, FS_Subset
    <3>5. Cardinality(Before(v)') \in Nat
      BY <3>4, FS_CardinalityType
    <3>6. QED
      BY <3>1, <3>2, <3>3, <3>4, <3>5
  <2>2. CASE ~Earlier(w, v)
    <3>1. {u \in Rows : Earlier(u, v)}' = {u \in Rows : Earlier(u, v)}
      BY <1>1, <1>4, <2>2 DEF Rows
    <3>2. QED
      BY <3>1 DEF Rank
  <2>3. QED
    BY <2>1, <2>2
<1>6. QED
  BY <1>1, <1>2, <1>3, <1>4, <1>5, RowsMoved

-----------------------------------------------------------------------------
(* Reading the list                                                        *)

\* A request for a page that was asked for with a legal number and size.
LEMMA AskIs ==
  ASSUME Types, NEW page \in 0..MaxPage, NEW n \in Nat, Ask(page, n)
  PROVE  /\ walk' \in [at : {"over", "counted"}, page : 1..MaxPage, size : 1..MaxSize,
                       total : 0..Len(order)]
         /\ walk'.at = "over" <=> Rows = {}
         /\ walk'.page = NormPage(page) /\ walk'.size = NormSize(n)
         /\ walk'.total = Cardinality(Rows)
<1>1. NormPage(page) \in 1..MaxPage /\ NormSize(n) \in 1..MaxSize
  <2>1. NormPage(page) \in 1..MaxPage
    BY CatalogAssumption DEF NormPage
  <2>2. QED
    BY <2>1, NormIs
<1>2. Cardinality(Rows) \in 0..Len(order)
  BY RowsAre
<1>3. walk' = [at |-> IF Rows = {} THEN "over" ELSE "counted", page |-> NormPage(page),
               size |-> NormSize(n), total |-> Cardinality(Rows)]
  BY DEF Ask
<1>4. QED
  BY <1>1, <1>2, <1>3

\* The rows there, if any, are within the count.
LEMMA FirstRequestStep ==
  ASSUME IInv, FirstRequest
  PROVE  IInv'
<1>1. PICK n \in AskedSizes : Ask(0, n)
  BY DEF FirstRequest
<1>2. /\ Types /\ Walked /\ walk.at = "new" /\ seen.listed = {} /\ seen.twice = {}
      /\ seen' = [seen EXCEPT !.there = Rows]
      /\ UNCHANGED <<order, committed, deleted, ready, viewer>>
  BY DEF IInv, Walked, FirstRequest, rows
<1>3. /\ walk' \in [at : {"over", "counted"}, page : 1..MaxPage, size : 1..MaxSize,
                    total : 0..Len(order)]
      /\ walk'.at = "over" <=> Rows = {}
      /\ walk'.page = 1 /\ walk'.total = Cardinality(Rows)
  <2>1. 0 \in 0..MaxPage /\ n \in Nat
    BY CatalogAssumption
  <2>2. QED
    BY <1>1, <1>2, <2>1, AskIs, NormIs
<1>4. /\ seen'.there = Rows /\ seen'.listed = {} /\ seen'.twice = {}
      /\ Rows \subseteq Videos /\ Rows \subseteq committed \ Others
      /\ seen' \in [there : SUBSET Videos, listed : SUBSET Videos, twice : SUBSET Videos,
                    added : SUBSET Videos, removed : SUBSET Videos]
  <2>1. Rows \subseteq Videos /\ Rows \subseteq committed \ Others
    BY <1>2, RowsAre DEF Rows
  <2>2. QED
    BY <1>2, <2>1 DEF Types
<1>5. Types'
  <2>1. walk' \in [at : {"new", "idle", "counted", "over"}, page : 0..(MaxPage + 1),
                   size : 0..MaxSize, total : 0..Len(order)]
    BY <1>3, CatalogAssumption
  <2>2. QED
    BY <1>2, <1>4, <2>1 DEF Types
<1>6. Walked'
  BY <1>2, <1>3, <1>4 DEF Walked, Walking
<1>7. ListedBehind' /\ RepeatedOnlyByShift'
  BY <1>4 DEF ListedBehind, RepeatedOnlyByShift
<1>8. OthersAhead'
  <2> SUFFICES ASSUME NEW v \in Rows
               PROVE  Start' <= Rank(v)' /\ Rank(v)' < walk'.total
    BY <1>4 DEF OthersAhead
  <2>1. Rank(v) \in Nat /\ Rank(v) < Cardinality(Rows) /\ Rank(v)' = Rank(v)
    BY <1>2, RankIs, SameRows
  <2>2. Start' = 0
    BY <1>3 DEF Start
  <2>3. QED
    BY <1>3, <2>1, <2>2
<1>9. MissedOnlyByShift'
  BY <1>3, <1>4 DEF MissedOnlyByShift
<1>10. QED
  BY <1>5, <1>6, <1>7, <1>8, <1>9 DEF IInv

\* The same page again: nothing was listed meanwhile, and there is a new count.
LEMMA NextRequestStep ==
  ASSUME IInv, NextRequest
  PROVE  IInv'
<1>1. /\ Types /\ Walked /\ Walking /\ Ask(walk.page, walk.size)
      /\ walk.page \in 1..MaxPage /\ walk.size \in 1..MaxSize
      /\ UNCHANGED <<order, committed, deleted, ready, viewer, seen>>
  BY CatalogAssumption DEF IInv, Types, Walked, Walking, NextRequest, rows
<1>2. /\ walk' \in [at : {"over", "counted"}, page : 1..MaxPage, size : 1..MaxSize,
                    total : 0..Len(order)]
      /\ walk'.at = "over" <=> Rows = {}
      /\ walk'.page = walk.page /\ walk'.size = walk.size
      /\ walk'.total = Cardinality(Rows)
  <2>1. walk.page \in 0..MaxPage /\ walk.page \in Nat \ {0} /\ walk.size \in Nat
    BY <1>1, CatalogAssumption
  <2>2. NormPage(walk.page) = walk.page /\ NormSize(walk.size) = walk.size
    BY <1>1, <2>1, NormIs
  <2>3. QED
    BY <1>1, <2>1, <2>2, AskIs
<1>3. Types'
  <2>1. walk' \in [at : {"new", "idle", "counted", "over"}, page : 0..(MaxPage + 1),
                   size : 0..MaxSize, total : 0..Len(order)]
    BY <1>2, CatalogAssumption
  <2>2. QED
    BY <1>1, <2>1 DEF Types
<1>4. Walked'
  BY <1>1, <1>2 DEF Walked, Walking
<1>5. (\A u, v : Earlier(u, v)' <=> Earlier(u, v)) /\ \A v : Rank(v)' = Rank(v)
  BY <1>1, SameRows
<1>6. /\ \A v : (Pushed(v)' <=> Pushed(v)) /\ (Shifted(v)' <=> Shifted(v))
      /\ Start' = Start
  BY <1>1, <1>2, <1>5 DEF Pushed, Shifted, Start
<1>7. ListedBehind'
  BY <1>1, <1>5, <1>6 DEF IInv, ListedBehind
<1>8. \A v \in seen.there \cap committed : v \in Rows
  BY <1>1 DEF Types, Walked, Rows
<1>9. OthersAhead'
  <2> SUFFICES ASSUME NEW v \in (seen.there \cap committed) \ seen.listed
               PROVE  (Start <= Rank(v) /\ Rank(v) < Cardinality(Rows)) \/ Shifted(v)
    BY <1>1, <1>2, <1>5, <1>6 DEF OthersAhead
  <2>1. Rank(v) < Cardinality(Rows)
    BY <1>1, <1>8, RankIs
  <2>2. QED
    BY <1>1, <2>1 DEF IInv, OthersAhead
<1>10. MissedOnlyByShift'
  BY <1>1, <1>2, <1>8 DEF MissedOnlyByShift
<1>11. RepeatedOnlyByShift'
  BY <1>1, <1>5 DEF IInv, RepeatedOnlyByShift
<1>12. QED
  BY <1>3, <1>4, <1>7, <1>9, <1>10, <1>11 DEF IInv

\* What is on the page is before the next one, what is left out is after it;
\* if the count says that there is no next page, nothing is.
LEMMA SelectPageStep ==
  ASSUME IInv, SelectPage
  PROVE  IInv'
<1> DEFINE page == Page(walk.page, walk.size)
           next == walk.page * walk.size
<1>1. /\ Types /\ Walked /\ Walking /\ walk.at = "counted"
      /\ walk.page \in 1..MaxPage /\ walk.size \in 1..MaxSize
      /\ walk.page \in Nat \ {0} /\ walk.size \in Nat /\ walk.total \in Nat
      /\ UNCHANGED <<order, committed, deleted, ready, viewer>>
  <2>1. Len(order) \in Nat
    BY RowsAre DEF IInv
  <2>2. QED
    BY <2>1, CatalogAssumption DEF IInv, Types, Walked, Walking, SelectPage, rows
<1>2. /\ seen' = [seen EXCEPT !.listed = @ \cup page,
                              !.twice = @ \cup (page \cap seen.listed)]
      /\ \/ /\ next < walk.total
            /\ walk' = [walk EXCEPT !.at = "idle", !.page = @ + 1]
         \/ /\ ~(next < walk.total)
            /\ walk' = [walk EXCEPT !.at = "over"]
  BY DEF SelectPage, GetHasMore
<1>3. /\ Start \in Nat /\ next \in Nat
      /\ \A v \in Rows : v \in page <=> Start <= Rank(v) /\ Rank(v) < next
      /\ page \subseteq Rows
      /\ walk'.at = "idle" => Start' = next
  <2>1. /\ GetOffset(walk.page, walk.size) = Start /\ Start \in Nat /\ next \in Nat
        /\ Start + walk.size = next
    BY <1>1, PagesAre DEF Start
  <2>2. page = {v \in Rows : Start <= Rank(v) /\ Rank(v) < next}
    BY <2>1 DEF Page
  <2>3. walk'.at = "idle" => walk'.page = walk.page + 1 /\ walk'.size = walk.size
    BY <1>1, <1>2 DEF Types
  <2>4. ASSUME walk'.at = "idle" PROVE Start' = next
    <3>1. Start' = (walk'.page - 1) * walk'.size
      BY DEF Start
    <3>2. walk'.page = walk.page + 1 /\ walk'.size = walk.size
      BY <2>3, <2>4
    <3>3. walk'.page - 1 = walk.page
      BY <1>1, <3>2
    <3>4. QED
      BY <3>1, <3>2, <3>3, Zenon DEF next
  <2> HIDE DEF page, next
  <2>5. QED
    BY <2>1, <2>2, <2>4
<1> HIDE DEF page, next
<1>4. /\ seen'.there = seen.there /\ seen'.added = seen.added /\ seen'.removed = seen.removed
      /\ seen'.listed = seen.listed \cup page
      /\ seen'.twice = seen.twice \cup (page \cap seen.listed)
      /\ page \subseteq Videos /\ page \subseteq committed \ Others
      /\ seen' \in [there : SUBSET Videos, listed : SUBSET Videos, twice : SUBSET Videos,
                    added : SUBSET Videos, removed : SUBSET Videos]
  <2>1. page \subseteq Videos /\ page \subseteq committed \ Others
    BY <1>1, <1>3, RowsAre DEF Rows
  <2>2. QED
    BY <1>1, <1>2, <2>1 DEF Types
<1>5. /\ walk' \in [at : {"idle", "over"}, page : 1..(MaxPage + 1), size : 1..MaxSize,
                    total : 0..Len(order)]
      /\ walk'.at = "over" => walk.total <= next
  <2>1. walk.page + 1 \in 1..(MaxPage + 1) /\ walk.page \in 1..(MaxPage + 1)
    BY <1>1, CatalogAssumption
  <2>2. walk \in [at : {"counted"}, page : 1..(MaxPage + 1), size : 1..MaxSize,
                  total : 0..Len(order)]
    BY <1>1, <2>1 DEF Types
  <2>3. CASE next < walk.total /\ walk' = [walk EXCEPT !.at = "idle", !.page = @ + 1]
    BY <1>1, <2>1, <2>2, <2>3
  <2>4. CASE ~(next < walk.total) /\ walk' = [walk EXCEPT !.at = "over"]
    <3>1. walk.total <= next
      BY <1>1, <1>3, <2>4
    <3>2. QED
      BY <1>1, <2>1, <2>2, <2>4, <3>1
  <2>5. QED
    BY <1>2, <2>3, <2>4
<1>6. Types'
  <2>1. walk' \in [at : {"new", "idle", "counted", "over"}, page : 0..(MaxPage + 1),
                   size : 0..MaxSize, total : 0..Len(order)]
    BY <1>5, CatalogAssumption
  <2>2. QED
    BY <1>1, <1>4, <2>1 DEF Types
<1>7. Walked'
  <2>1. walk'.page > 0 /\ walk'.size > 0 /\ walk'.at \in {"idle", "over"}
    BY <1>5
  <2>2. /\ seen'.there \cup seen'.listed \subseteq (committed \cup deleted) \ Others
        /\ seen'.twice \subseteq seen'.listed
    BY <1>1, <1>4 DEF Walked
  <2>3. QED
    BY <1>1, <2>1, <2>2 DEF Walked
<1>8. (\A u, v : Earlier(u, v)' <=> Earlier(u, v)) /\ \A v : Rank(v)' = Rank(v)
  BY <1>1, SameRows
<1>9. \A v : (Pushed(v)' <=> Pushed(v)) /\ (Shifted(v)' <=> Shifted(v))
  BY <1>4, <1>8 DEF Pushed, Shifted
<1>10. \A v \in (seen.there \cup seen.listed) \cap committed : v \in Rows /\ Rank(v) \in Nat
  BY <1>1, RankIs DEF Walked, Types, Rows
<1>11. ASSUME NEW v \in seen.listed \cap committed PROVE Rank(v) < Start \/ Pushed(v)
  BY <1>1, <1>11 DEF IInv, ListedBehind
<1>12. ASSUME NEW v \in (seen.there \cap committed) \ (seen.listed \cup page)
       PROVE  (next <= Rank(v) /\ Rank(v) < walk.total) \/ Shifted(v)
  <2>1. (Start <= Rank(v) /\ Rank(v) < walk.total) \/ Shifted(v)
    BY <1>1, <1>12 DEF IInv, OthersAhead
  <2>2. QED
    BY <1>3, <1>10, <1>12, <2>1
<1>13. ListedBehind'
  <2> SUFFICES ASSUME walk'.at = "idle", NEW v \in (seen.listed \cup page) \cap committed
               PROVE  Rank(v) < next \/ Pushed(v)
    BY <1>1, <1>3, <1>4, <1>5, <1>8, <1>9 DEF ListedBehind, Walking
  <2>1. CASE v \in page
    BY <1>3, <2>1
  <2>2. CASE v \in seen.listed
    <3>1. Start <= next
      BY <1>1, PagesAre DEF Start, next
    <3>2. QED
      BY <1>3, <1>10, <1>11, <2>2, <3>1
  <2>3. QED
    BY <2>1, <2>2
<1>14. OthersAhead'
  BY <1>1, <1>3, <1>4, <1>5, <1>8, <1>9, <1>12 DEF OthersAhead, Walking
<1>15. MissedOnlyByShift'
  <2> SUFFICES ASSUME walk'.at = "over",
                      NEW v \in (seen.there \cap committed) \ (seen.listed \cup page)
               PROVE  Shifted(v)
    BY <1>1, <1>4, <1>8 DEF MissedOnlyByShift, Shifted
  <2>1. (next <= Rank(v) /\ Rank(v) < walk.total) \/ Shifted(v)
    BY <1>12
  <2>2. QED
    BY <1>1, <1>3, <1>5, <1>10, <2>1
<1>16. RepeatedOnlyByShift'
  <2> SUFFICES ASSUME NEW v \in seen.twice \cup (page \cap seen.listed)
               PROVE  Pushed(v)
    BY <1>4, <1>8 DEF RepeatedOnlyByShift, Pushed
  <2>1. CASE v \in seen.twice
    BY <2>1 DEF IInv, RepeatedOnlyByShift, Pushed
  <2>2. CASE v \in page /\ v \in seen.listed
    BY <1>3, <1>4, <1>10, <1>11, <2>2
  <2>3. QED
    BY <2>1, <2>2
<1>17. QED
  BY <1>6, <1>7, <1>13, <1>14, <1>15, <1>16 DEF IInv

LEMMA SelectFailsStep ==
  ASSUME IInv, SelectFails
  PROVE  IInv'
<1>1. /\ Types /\ Walked /\ Walking /\ walk.at = "counted"
      /\ walk' = [walk EXCEPT !.at = "idle"]
      /\ UNCHANGED <<order, committed, deleted, ready, viewer, seen>>
  BY DEF IInv, Walking, SelectFails, rows
<1>2. /\ walk'.at = "idle" /\ walk'.page = walk.page /\ walk'.size = walk.size
      /\ Types'
  BY <1>1 DEF Types
<1>3. Walked'
  BY <1>1, <1>2 DEF Walked, Walking
<1>4. (\A u, v : Earlier(u, v)' <=> Earlier(u, v)) /\ \A v : Rank(v)' = Rank(v)
  BY <1>1, SameRows
<1>5. /\ \A v : (Pushed(v)' <=> Pushed(v)) /\ (Shifted(v)' <=> Shifted(v))
      /\ Start' = Start
  BY <1>1, <1>2, <1>4 DEF Pushed, Shifted, Start
<1>6. ListedBehind' /\ OthersAhead'
  BY <1>1, <1>2, <1>4, <1>5 DEF IInv, ListedBehind, OthersAhead
<1>7. MissedOnlyByShift' /\ RepeatedOnlyByShift'
  BY <1>1, <1>2, <1>4 DEF IInv, MissedOnlyByShift, RepeatedOnlyByShift
<1>8. QED
  BY <1>2, <1>3, <1>6, <1>7 DEF IInv

-----------------------------------------------------------------------------
(* The invariant is inductive                                              *)

LEMMA InitInv == Init => IInv
<1> SUFFICES ASSUME Init PROVE IInv
  OBVIOUS
<1>1. /\ order = <<>> /\ committed = {} /\ deleted = {} /\ ready = {}
      /\ walk = [at |-> "new", page |-> 0, size |-> 0, total |-> 0]
      /\ seen = [there |-> {}, listed |-> {}, twice |-> {}, added |-> {}, removed |-> {}]
      /\ viewer = [at |-> "idle", video |-> NoVideo]
  BY DEF Init
<1>2. Types
  <2>1. order \in Seq(Videos) /\ Len(order) = 0 /\ DOMAIN order = {}
    BY <1>1, EmptySeq
  <2>2. IsInjective(order)
    BY <2>1 DEF IsInjective
  <2>3. walk \in [at : {"new", "idle", "counted", "over"}, page : 0..(MaxPage + 1),
                  size : 0..MaxSize, total : 0..Len(order)]
    BY <1>1, <2>1, CatalogAssumption
  <2>4. QED
    BY <1>1, <2>1, <2>2, <2>3 DEF Types
<1>3. Walked /\ ListedBehind /\ OthersAhead
  BY <1>1 DEF Walked, ListedBehind, OthersAhead, Walking
<1>4. MissedOnlyByShift /\ RepeatedOnlyByShift
  BY <1>1 DEF MissedOnlyByShift, RepeatedOnlyByShift
<1>5. QED
  BY <1>2, <1>3, <1>4 DEF IInv

LEMMA NextInv == IInv /\ [Next]_vars => IInv'
<1> SUFFICES ASSUME IInv, [Next]_vars PROVE IInv'
  OBVIOUS
<1>1. Types
  BY DEF IInv
<1>2. ASSUME NEW v \in Videos, BeginInsert(v) \/ CommitInsert(v) \/ DeleteVideo(v) PROVE IInv'
  BY <1>2, BeginInsertStep, CommitInsertStep, DeleteVideoStep
<1>3. ASSUME NEW v \in Videos, PlaybackWritten(v) PROVE IInv'
  <2>1. ready' \subseteq committed /\ UNCHANGED <<order, committed, deleted, list, viewer>>
    BY <1>1, <1>3 DEF Types, PlaybackWritten
  <2>2. QED
    BY <1>1, <2>1, ListKept DEF Types
<1>4. ASSUME \/ \E v \in Videos : GetVideo(v) \/ FindVideo(v)
             \/ SearchVideos \/ UpdateVideo \/ ReadPlayback \/ Answered
      PROVE  IInv'
  <2>1. UNCHANGED <<rows, list>>
    BY <1>4 DEF GetVideo, FindVideo, SearchVideos, UpdateVideo, ReadPlayback, Answered
  <2>2. UNCHANGED <<order, committed, deleted, list>> /\ ready' \subseteq committed
    BY <1>1, <2>1 DEF rows, Types
  <2>3. /\ viewer.video \in Videos \cup {NoVideo}
        /\ \A to \in {"video", "empty", "error"} :
             [viewer EXCEPT !.at = to] \in
               [at : {"idle", "video", "found", "empty", "error"},
                video : Videos \cup {NoVideo}]
    BY <1>1 DEF Types
  <2>4. CASE \E v \in Videos : GetVideo(v)
    BY <2>2, <2>3, <2>4, ListKept DEF GetVideo
  <2>5. CASE \E v \in Videos : FindVideo(v)
    BY <2>2, <2>3, <2>5, ListKept DEF FindVideo
  <2>6. CASE SearchVideos \/ UpdateVideo
    BY <2>2, <2>3, <2>6, ListKept DEF SearchVideos, UpdateVideo, GetVideosByQuery
  <2>7. CASE ReadPlayback
    BY <2>2, <2>3, <2>7, ListKept DEF ReadPlayback
  <2>8. CASE Answered
    BY <2>2, <2>8, ListKept DEF Answered
  <2>9. QED
    BY <1>4, <2>4, <2>5, <2>6, <2>7, <2>8
<1>5. CASE Listing
  BY <1>5, FirstRequestStep, NextRequestStep, SelectPageStep, SelectFailsStep DEF Listing
<1>6. CASE UNCHANGED vars
  <2>1. UNCHANGED <<order, committed, deleted, ready, list, viewer>>
    BY <1>6 DEF vars, rows
  <2>2. QED
    BY <1>1, <2>1, ListKept DEF Types
<1>7. QED
  BY <1>2, <1>3, <1>4, <1>5, <1>6 DEF Next

\* The inductive invariant: where the walk stands, and on which side of it the
\* rows are that it has listed and that it has not.
THEOREM CatalogInvariant == Spec => []IInv
BY InitInv, NextInv, PTL DEF Spec

-----------------------------------------------------------------------------
(* The safety properties                                                   *)

\* Type correctness: no row has two places, nothing deleted is visible, no
\* playback row is without its video, pages and sizes have been normalised.
THEOREM TypeCorrect == Spec => []TypeOK
<1>1. ASSUME IInv PROVE TypeOK
  <2>1. Types /\ Walked
    BY <1>1 DEF IInv
  <2>2. walk.at = "counted" => walk.size \in 1..MaxSize /\ walk.page > 0
    BY <2>1, CatalogAssumption DEF Types, Walked, Walking
  <2>3. deleted \subseteq Videos
    BY <2>1, RowsAre DEF Types
  <2>4. QED
    BY <2>1, <2>2, <2>3 DEF Types, TypeOK
<1>2. QED
  BY <1>1, CatalogInvariant, PTL

\* ListVideos, followed by HasMore to the end, misses none of the client's
\* videos that were there all the time, unless an earlier row came or went
\* meanwhile: although count and page are two statements, whatever fails and
\* is asked for again, and for every page size.
THEOREM NothingElseMissed == Spec => []MissedOnlyByShift
<1>1. IInv => MissedOnlyByShift
  BY DEF IInv
<1>2. QED
  BY <1>1, CatalogInvariant, PTL

\* It repeats one only if an earlier row was committed during the walk.
THEOREM NothingElseRepeated == Spec => []RepeatedOnlyByShift
<1>1. IInv => RepeatedOnlyByShift
  BY DEF IInv
<1>2. QED
  BY <1>1, CatalogInvariant, PTL

-----------------------------------------------------------------------------
(* Pages are not empty                                                     *)

\* No two rows have the same rank: the one that is later has one row more
\* before it.
LEMMA RanksDiffer ==
  ASSUME Types, NEW u \in Rows, NEW v \in Rows, Earlier(u, v)
  PROVE  Rank(u) < Rank(v)
<1>1. \A i, k \in 1..Len(order) : order[i] = order[k] => i = k
  BY PlacesAre DEF Types
<1>2. ~Earlier(u, u) /\ Len(order) \in Nat
  BY RowsAre
<1>3. Before(u) \in SUBSET (Before(v) \ {u})
  <2>1. ASSUME NEW x \in Before(u) PROVE x \in Before(v) /\ x # u
    <3>1. PICK a, b \in 1..Len(order) : order[a] = x /\ order[b] = u /\ a < b
      BY DEF Before, Earlier
    <3>2. PICK c, d \in 1..Len(order) : order[c] = u /\ order[d] = v /\ c < d
      BY DEF Earlier
    <3>3. b = c /\ a < d
      BY <1>1, <1>2, <3>1, <3>2
    <3>4. Earlier(x, v)
      BY <3>1, <3>2, <3>3 DEF Earlier
    <3>5. QED
      BY <1>2, <3>4 DEF Before
  <2>2. QED
    BY <2>1
<1>4. u \in Before(v) /\ IsFiniteSet(Before(v)) /\ IsFiniteSet(Before(u))
      /\ Rank(u) = Cardinality(Before(u)) /\ Rank(v) = Cardinality(Before(v))
      /\ Rank(u) \in Nat /\ Rank(v) \in Nat
  BY RankIs DEF Before
<1>5. IsFiniteSet(Before(v) \ {u}) /\ Cardinality(Before(v) \ {u}) = Cardinality(Before(v)) - 1
  BY <1>4, FS_RemoveElement
<1>6. Cardinality(Before(u)) <= Cardinality(Before(v) \ {u})
  BY <1>3, <1>5, FS_Subset
<1>7. QED
  BY <1>4, <1>5, <1>6

\* So every rank below the number of rows is that of a row.
LEMMA RanksFilled ==
  ASSUME Types, NEW skip \in Nat, skip < Cardinality(Rows)
  PROVE  \E v \in Rows : Rank(v) = skip
<1> DEFINE n == Cardinality(Rows)
           places == 0..(n - 1)
           f == [v \in Rows |-> Rank(v)]
<1>1. IsFiniteSet(Rows) /\ n \in Nat /\ Len(order) \in Nat
  BY RowsAre
<1>2. IsFiniteSet(places) /\ Cardinality(places) = n
  <2>1. 0 \in Int /\ n - 1 \in Int
    BY <1>1
  <2>2. IsFiniteSet(places) /\ Cardinality(places) = (IF 0 > n - 1 THEN 0 ELSE (n - 1) - 0 + 1)
    BY <2>1, FS_Interval
  <2>3. QED
    BY <1>1, <2>2
<1>3. \A v \in Rows : Rank(v) \in places
  BY <1>1, RankIs
<1>4. \A u, v \in Rows : u # v => Rank(u) # Rank(v)
  <2>1. ASSUME NEW u \in Rows, NEW v \in Rows, u # v PROVE Earlier(u, v) \/ Earlier(v, u)
    <3>1. u \in ToSet(order) /\ v \in ToSet(order)
      BY RowsAre
    <3>2. PICK i \in 1..Len(order) : order[i] = u
      BY <3>1, RowsAre
    <3>3. PICK k \in 1..Len(order) : order[k] = v
      BY <3>1, RowsAre
    <3>4. i < k \/ k < i
      BY <1>1, <2>1, <3>2, <3>3
    <3>5. QED
      BY <3>2, <3>3, <3>4 DEF Earlier
  <2>2. \A v \in Rows : Rank(v) \in Nat
    BY RankIs
  <2>3. \A u, v \in Rows : Earlier(u, v) => Rank(u) < Rank(v)
    BY RanksDiffer
  <2>4. QED
    BY <2>1, <2>2, <2>3
<1> HIDE DEF n, places
<1>5. f \in Injection(Rows, places)
  BY <1>3, <1>4 DEF Injection, IsInjective
<1>6. f \in Surjection(Rows, places)
  <2>1. Cardinality(Rows) = Cardinality(places)
    BY <1>2 DEF n
  <2>2. QED
    BY <1>2, <1>5, <2>1, FS_Injection
<1>7. skip \in places
  BY <1>1 DEF n, places
<1>8. PICK v \in Rows : f[v] = skip
  BY <1>6, <1>7 DEF Surjection
<1>9. QED
  BY <1>8

\* While nothing of the user's is removed, the page to come has a first row,
\* and there are the rows that were counted.
Unremoved == seen.removed \ Others = {}
Standing ==
  Walking /\ Unremoved =>
    /\ Start < Cardinality(Rows)
    /\ walk.at = "counted" => walk.total <= Cardinality(Rows)

LEMMA StandingStep == IInv /\ Standing /\ [Next]_vars => Standing'
<1> SUFFICES ASSUME IInv, Standing, [Next]_vars, Walking', Unremoved'
             PROVE  /\ Start' < Cardinality(Rows')
                    /\ walk'.at = "counted" => walk'.total <= Cardinality(Rows')
  BY DEF Standing
<1>0. IInv' /\ Types /\ Types' /\ Walked
  BY NextInv DEF IInv
<1>1. /\ IsFiniteSet(Rows) /\ Cardinality(Rows) \in Nat
      /\ IsFiniteSet(Rows') /\ Cardinality(Rows') \in Nat
  <2>1. IsFiniteSet(Rows) /\ IsFiniteSet(Rows')
    <3>1. IsFiniteSet(Rows)
      BY <1>0, RowsAre
    <3>2. IsFiniteSet(Rows')
      <4>1. order' \in Seq(Videos) /\ IsInjective(order') /\ Rows' \in SUBSET ToSet(order')
        BY <1>0 DEF Types, Rows
      <4>2. IsFiniteSet(ToSet(order'))
        BY <4>1, PlacesAre
      <4>3. QED
        BY <4>1, <4>2, FS_Subset
    <3>3. QED
      BY <3>1, <3>2
  <2>2. QED
    BY <2>1, FS_CardinalityType
<1>2. ASSUME walk' = walk, Rows \subseteq Rows', Unremoved
      PROVE  /\ Start' < Cardinality(Rows')
             /\ walk'.at = "counted" => walk'.total <= Cardinality(Rows')
  <2>1. Walking /\ Start' = Start
    BY <1>2 DEF Walking, Start
  <2>2. Start < Cardinality(Rows) /\ (walk.at = "counted" => walk.total <= Cardinality(Rows))
    BY <1>2, <2>1 DEF Standing
  <2>3. Cardinality(Rows) <= Cardinality(Rows')
    BY <1>1, <1>2, FS_Subset
  <2>4. walk.page \in Nat \ {0} /\ walk.size \in Nat /\ walk.total \in Nat
    BY <1>0, <2>1, CatalogAssumption DEF Types, Walked
  <2>5. Start \in Nat
    BY <2>4, PagesAre DEF Start
  <2>6. QED
    BY <1>1, <1>2, <2>1, <2>2, <2>3, <2>4, <2>5
<1>3. ASSUME NEW w \in Videos, BeginInsert(w) \/ PlaybackWritten(w) \/ GetVideo(w) \/ FindVideo(w)
      PROVE  walk' = walk /\ Rows \subseteq Rows' /\ Unremoved
  BY <1>3 DEF BeginInsert, PlaybackWritten, GetVideo, FindVideo, rows, list, Rows, Unremoved
<1>4. ASSUME NEW w \in Videos, CommitInsert(w)
      PROVE  walk' = walk /\ Rows \subseteq Rows' /\ Unremoved
  <2>1. walk' = walk /\ Rows \subseteq Rows' /\ Noted("added", w)
    BY <1>4 DEF CommitInsert, Rows
  <2>2. seen.removed \subseteq seen'.removed
    BY <1>0, <2>1, NotedIs
  <2>3. QED
    BY <2>1, <2>2 DEF Unremoved
<1>5. ASSUME NEW w \in Videos, DeleteVideo(w)
      PROVE  walk' = walk /\ Rows \subseteq Rows' /\ Unremoved
  <2>1. walk' = walk /\ committed' = committed \ {w} /\ Noted("removed", w)
    BY <1>5 DEF DeleteVideo, DeleteRow
  <2>2. Walking
    BY <2>1 DEF Walking
  <2>3. seen.removed \subseteq seen'.removed /\ w \in seen'.removed
    BY <1>0, <2>1, <2>2, NotedIs
  <2>4. w \in Others
    BY <2>3 DEF Unremoved
  <2>5. QED
    BY <2>1, <2>3, <2>4 DEF Unremoved, Rows
<1>6. CASE FirstRequest
  <2>1. PICK n \in AskedSizes : Ask(0, n)
    BY <1>6 DEF FirstRequest
  <2>2. 0 \in 0..MaxPage /\ n \in Nat
    BY CatalogAssumption
  <2>3. /\ walk'.at = "over" <=> Rows = {}
        /\ walk'.page = NormPage(0) /\ walk'.size \in 1..MaxSize
        /\ walk'.total = Cardinality(Rows)
    BY <1>0, <2>1, <2>2, AskIs
  <2>4. Rows' = Rows /\ Rows # {}
    BY <1>6, <2>3 DEF FirstRequest, rows, Rows, Walking
  <2>5. Start' = 0
    BY <2>3, NormIs, CatalogAssumption DEF Start
  <2>6. Cardinality(Rows) # 0
    BY <1>1, <2>4, FS_EmptySet
  <2>7. QED
    BY <1>1, <2>3, <2>4, <2>5, <2>6
<1>7. CASE NextRequest
  <2>1. Walking /\ Ask(walk.page, walk.size) /\ Rows' = Rows /\ Unremoved
        /\ walk.page \in 0..MaxPage /\ walk.page \in Nat \ {0}
        /\ walk.size \in Nat /\ walk.size \in 1..MaxSize
    BY <1>0, <1>7, CatalogAssumption DEF NextRequest, rows, Rows, Walking, Unremoved, Types, Walked
  <2>2. walk'.page = walk.page /\ walk'.size = walk.size /\ walk'.total = Cardinality(Rows)
    BY <1>0, <2>1, AskIs, NormIs
  <2>3. Start' = Start /\ Start < Cardinality(Rows)
    BY <2>1, <2>2 DEF Start, Standing
  <2>4. QED
    BY <1>1, <2>1, <2>2, <2>3
<1>8. CASE SelectPage
  <2>1. Walking /\ walk.at = "counted" /\ Rows' = Rows /\ Unremoved
    <3>1. seen'.removed = seen.removed
      BY <1>0, <1>8 DEF SelectPage, Types
    <3>2. QED
      BY <1>8, <3>1 DEF SelectPage, rows, Rows, Walking, Unremoved
  <2>2. walk.page \in Nat \ {0} /\ walk.size \in Nat /\ walk.total \in Nat
    BY <1>0, <2>1, CatalogAssumption DEF Types, Walked
  <2>3. walk.page * walk.size < walk.total /\ walk'.at = "idle"
        /\ walk'.page = walk.page + 1 /\ walk'.size = walk.size
    BY <1>0, <1>8 DEF SelectPage, GetHasMore, Walking, Types
  <2>4. Start' = walk.page * walk.size
    <3>1. walk'.page - 1 = walk.page
      BY <2>2, <2>3
    <3>2. QED
      BY <2>3, <3>1 DEF Start
  <2>5. walk.total <= Cardinality(Rows)
    BY <2>1 DEF Standing
  <2>6. walk.page * walk.size \in Nat
    BY <2>2, PagesAre
  <2>7. QED
    BY <1>1, <2>1, <2>2, <2>3, <2>4, <2>5, <2>6
<1>9. CASE SelectFails
  <2>1. Walking /\ Rows' = Rows /\ Unremoved
        /\ walk'.at = "idle" /\ walk'.page = walk.page /\ walk'.size = walk.size
    BY <1>0, <1>9 DEF SelectFails, rows, Rows, Walking, Unremoved, Types
  <2>2. QED
    BY <2>1 DEF Start, Standing
<1>10. ASSUME SearchVideos \/ UpdateVideo \/ ReadPlayback \/ Answered \/ UNCHANGED vars
       PROVE  walk' = walk /\ Rows \subseteq Rows' /\ Unremoved
  BY <1>10 DEF SearchVideos, UpdateVideo, ReadPlayback, Answered, vars, rows, list, Rows, Unremoved
<1>11. QED
  BY <1>2, <1>3, <1>4, <1>5, <1>6, <1>7, <1>8, <1>9, <1>10 DEF Next, Listing

\* A page that is not the first, or that was asked for again, is empty only if
\* a video of the user was deleted while the list was read: uploads meanwhile
\* and failed requests never make HasMore promise a page that is not there.
THEOREM NoPageBlank == Spec => BlankOnlyByDeletion
<1>1. Init => Standing
  BY DEF Init, Standing, Walking
<1>2. Spec => []Standing
  BY <1>1, CatalogInvariant, StandingStep, PTL DEF Spec
<1>3. IInv /\ Standing => [Shown => Page(walk.page, walk.size) # {} \/ seen.removed \ Others # {}]_vars
  <2> SUFFICES ASSUME IInv, Standing, Walking, Unremoved PROVE Page(walk.page, walk.size) # {}
    BY DEF Shown, Unremoved
  <2>1. Types /\ Start < Cardinality(Rows)
    BY DEF IInv, Standing
  <2>2. walk.page \in Nat \ {0} /\ walk.size \in Nat \ {0}
    BY CatalogAssumption DEF IInv, Types, Walked
  <2>3. GetOffset(walk.page, walk.size) = Start /\ Start \in Nat
    BY <2>2, PagesAre DEF Start
  <2>4. PICK v \in Rows : Rank(v) = Start
    BY <2>1, <2>3, RanksFilled
  <2>5. v \in Page(walk.page, walk.size)
    BY <2>2, <2>3, <2>4 DEF Page
  <2>6. QED
    BY <2>5
<1>4. QED
  BY <1>2, <1>3, CatalogInvariant, PTL DEF BlankOnlyByDeletion

=============================================================================
