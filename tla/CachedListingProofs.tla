------------------------- MODULE CachedListingProofs -----------------------
(***************************************************************************)
(* Proofs about CachedListing, for every page size and every history of    *)
(* the list: what the cache answers, and what a walk over the pages finds. *)
(***************************************************************************)
EXTENDS CachedListing, SequenceTheorems, TLAPS

Items == [id : Nat \ {0}, version : Nat]

TypeInv ==
  /\ order \in {"appended", "updated"}
  /\ items \in Seq(Items) /\ added \in Nat /\ changes \in Nat
  /\ cache = None \/ cache \in [etag : Seq(Items), body : Seq(Items)]
  /\ pc \in {"idle", "walk"} /\ page \in Nat \ {0}
  /\ got \in Seq(Items) /\ whole \in Seq(Items) /\ result \in Seq(Items)
  /\ source \in {"none", "cache", "pages"}

(* Nothing in a list is ahead of the counters.                             *)
Known(list) ==
  \A i \in 1..Len(list) : list[i].id <= added /\ list[i].version <= changes

InOrder(list) == \A i \in 1..Len(list) : list[i].id = i

Held(item, list) == \E i \in 1..Len(list) : list[i] = item

(* The list on the server: each item once, and a list that grows at its    *)
(* end holds every item that was ever added.                               *)
ListInv ==
  /\ Known(items)
  /\ \A i, j \in 1..Len(items) : items[i].id = items[j].id => i = j
  /\ order = "appended" => InOrder(items) /\ Len(items) = added

(* What the cache remembers was the whole list, on one page.  In a list    *)
(* that is sorted by update, whatever is new since stands in front of what *)
(* is left of it.                                                          *)
CacheInv ==
  cache # None =>
    /\ cache.etag = cache.body /\ Len(cache.body) <= PageSize
    /\ Known(cache.body)
    /\ order = "updated" =>
         \A i, j \in 1..Len(items) :
           i < j /\ Held(items[i], cache.body) => Held(items[j], cache.body)

(* How far a walk over a growing list has got.                             *)
WalkInv ==
  pc = "walk" =>
    /\ source = "none"
    /\ order = "appended" =>
         /\ InOrder(got) /\ Len(got) = (page - 1) * PageSize
         /\ Len(got) <= Len(items) /\ Len(whole) <= Len(items)

ResultInv ==
  /\ StaleOnlyWhenFull
  /\ source = "pages" /\ order = "appended" =>
       /\ Len(result) >= Len(whole)
       /\ InOrder(result) /\ Len(result) <= Len(items)

Inv == TypeInv /\ ListInv /\ CacheInv /\ WalkInv /\ ResultInv

-----------------------------------------------------------------------------
(***************************************************************************)
(* Pages and lists.                                                        *)
(***************************************************************************)
LEMMA SubSeqIs ==
  ASSUME NEW S, NEW list \in Seq(S), NEW m \in Nat, NEW n \in Nat,
         m <= n, n <= Len(list)
  PROVE  /\ SubSeq(list, m + 1, n) \in Seq(S)
         /\ Len(SubSeq(list, m + 1, n)) = n - m
         /\ \A i \in 1..(n - m) : SubSeq(list, m + 1, n)[i] = list[m + i]
OBVIOUS

LEMMA NoneIsNoPage == ASSUME TypeInv PROVE cache.etag = Page(1) => cache # None
<1> SUFFICES ASSUME cache = None, cache.etag = Page(1) PROVE FALSE
  OBVIOUS
<1>1. Len(Page(1)) = 1 /\ Page(1)[1].id = 0
  BY DEF None
<1>2. PageSize \in Nat \ {0} /\ Len(items) \in Nat
  BY NumbersAssumption DEF TypeInv
<1>3. Page(1)[1] = items[1] /\ Len(items) > 0
  BY <1>1, <1>2 DEF Page, TypeInv
<1>4. items[1] \in Items
  BY <1>2, <1>3 DEF TypeInv
<1> QED BY <1>1, <1>3, <1>4 DEF Items

LEMMA SliceIs ==
  ASSUME NEW list \in Seq(Items), NEW m \in Nat, m <= Len(list),
         NEW size \in Nat, NEW slice,
         slice = SubSeq(list, m + 1, IF m + size < Len(list) THEN m + size
                                     ELSE Len(list))
  PROVE  /\ slice \in Seq(Items)
         /\ Len(slice) = IF m + size < Len(list) THEN size ELSE Len(list) - m
         /\ \A i \in 1..Len(slice) : slice[i] = list[m + i]
<1>1. Len(list) \in Nat
  OBVIOUS
<1>2. CASE m + size < Len(list)
  <2>1. m + size \in Nat /\ m <= m + size /\ m + size <= Len(list)
    BY <1>1, <1>2
  <2>2. slice = SubSeq(list, m + 1, m + size)
    BY <1>2
  <2>3. (m + size) - m = size
    OBVIOUS
  <2> QED BY <1>2, <2>1, <2>2, <2>3, SubSeqIs
<1>3. CASE ~(m + size < Len(list))
  <2>1. slice = SubSeq(list, m + 1, Len(list))
    BY <1>3
  <2> QED BY <1>1, <1>3, <2>1, SubSeqIs
<1> QED BY <1>2, <1>3

(* Page k begins after (k - 1) * PageSize items and holds PageSize of them *)
(* or what is left.                                                        *)
LEMMA PageIs ==
  ASSUME TypeInv, NEW k \in Nat \ {0}, (k - 1) * PageSize <= Len(items)
  PROVE  /\ (k - 1) * PageSize \in Nat
         /\ Page(k) \in Seq(Items)
         /\ HasNext(k) <=> Len(items) > (k - 1) * PageSize + PageSize
         /\ Len(Page(k)) = IF HasNext(k) THEN PageSize
                           ELSE Len(items) - (k - 1) * PageSize
         /\ \A i \in 1..Len(Page(k)) : Page(k)[i] = items[(k - 1) * PageSize + i]
<1> DEFINE before == (k - 1) * PageSize
<1>1. PageSize \in Nat \ {0} /\ Len(items) \in Nat /\ items \in Seq(Items)
  BY NumbersAssumption DEF TypeInv
<1>2. before \in Nat /\ k * PageSize = before + PageSize /\ before <= Len(items)
  BY <1>1
<1>3. Page(k) = SubSeq(items, before + 1, IF before + PageSize < Len(items)
                       THEN before + PageSize ELSE Len(items))
  BY <1>2 DEF Page
<1>4. HasNext(k) <=> Len(items) > before + PageSize
  BY <1>2 DEF HasNext
<1> HIDE DEF before
<1>5. /\ Page(k) \in Seq(Items)
      /\ Len(Page(k)) = IF before + PageSize < Len(items) THEN PageSize
                        ELSE Len(items) - before
      /\ \A i \in 1..Len(Page(k)) : Page(k)[i] = items[before + i]
  BY <1>1, <1>2, <1>3, SliceIs
<1>6. Len(Page(k)) = IF HasNext(k) THEN PageSize ELSE Len(items) - before
  BY <1>1, <1>2, <1>4, <1>5
<1> QED BY <1>2, <1>4, <1>5, <1>6 DEF before

LEMMA FirstPageIs ==
  ASSUME TypeInv
  PROVE  /\ Page(1) \in Seq(Items)
         /\ HasNext(1) <=> Len(items) > PageSize
         /\ Len(Page(1)) = IF HasNext(1) THEN PageSize ELSE Len(items)
         /\ \A i \in 1..Len(Page(1)) : Page(1)[i] = items[i]
         /\ ~HasNext(1) => Page(1) = items
<1>1. PageSize \in Nat \ {0} /\ Len(items) \in Nat /\ items \in Seq(Items)
  BY NumbersAssumption DEF TypeInv
<1>2. (1 - 1) * PageSize = 0
  BY <1>1
<1>3. /\ Page(1) \in Seq(Items)
      /\ HasNext(1) <=> Len(items) > 0 + PageSize
      /\ Len(Page(1)) = IF HasNext(1) THEN PageSize ELSE Len(items) - 0
      /\ \A i \in 1..Len(Page(1)) : Page(1)[i] = items[0 + i]
  BY <1>1, <1>2, PageIs
<1>4. \A i \in 1..Len(Page(1)) : Page(1)[i] = items[i]
  BY <1>3
<1>5. ~HasNext(1) => Page(1) = items
  BY <1>1, <1>3, <1>4
<1> QED BY <1>1, <1>3, <1>4, <1>5

LEMMA RemoveAtIs ==
  ASSUME NEW list \in Seq(Items), NEW i \in 1..Len(list)
  PROVE  /\ RemoveAt(list, i) \in Seq(Items)
         /\ Len(RemoveAt(list, i)) = Len(list) - 1
         /\ \A j \in 1..(Len(list) - 1) :
              RemoveAt(list, i)[j] = IF j < i THEN list[j] ELSE list[j + 1]
<1> DEFINE front == SubSeq(list, 1, i - 1)
           back  == SubSeq(list, i + 1, Len(list))
<1>1. /\ front \in Seq(Items) /\ Len(front) = i - 1
      /\ \A j \in 1..(i - 1) : front[j] = list[j]
  OBVIOUS
<1>2. /\ back \in Seq(Items) /\ Len(back) = Len(list) - i
      /\ \A j \in 1..(Len(list) - i) : back[j] = list[i + j]
  OBVIOUS
<1>3. RemoveAt(list, i) = front \o back
  BY DEF RemoveAt
<1> HIDE DEF front, back
<1>4. /\ front \o back \in Seq(Items)
      /\ Len(front \o back) = Len(front) + Len(back)
      /\ \A j \in 1..(Len(front) + Len(back)) :
           (front \o back)[j] = IF j <= Len(front) THEN front[j]
                                ELSE back[j - Len(front)]
  BY <1>1, <1>2, ConcatProperties
<1>5. ASSUME NEW j \in 1..(Len(list) - 1)
      PROVE  (front \o back)[j] = IF j < i THEN list[j] ELSE list[j + 1]
  <2>0. Len(list) \in Nat /\ j \in 1..(Len(front) + Len(back))
    BY <1>1, <1>2
  <2>1. CASE j < i
    <3>1. j \in 1..(i - 1)
      BY <2>0, <2>1
    <3> QED BY <1>1, <1>4, <2>0, <2>1, <3>1
  <2>2. CASE ~(j < i)
    <3>1. j - (i - 1) \in 1..(Len(list) - i) /\ i + (j - (i - 1)) = j + 1
      BY <2>0, <2>2
    <3>2. (front \o back)[j] = back[j - (i - 1)]
      BY <1>1, <1>4, <2>0, <2>2
    <3> QED BY <1>2, <2>2, <3>1, <3>2
  <2> QED BY <2>1, <2>2
<1> QED BY <1>1, <1>2, <1>3, <1>4, <1>5

(* An item in front of a list, as both servers of changes put it.          *)
LEMMA InFrontIs ==
  ASSUME NEW list \in Seq(Items), NEW item \in Items
  PROVE  /\ <<item>> \o list \in Seq(Items)
         /\ Len(<<item>> \o list) = Len(list) + 1
         /\ (<<item>> \o list)[1] = item
         /\ \A j \in 2..(Len(list) + 1) : (<<item>> \o list)[j] = list[j - 1]
OBVIOUS

-----------------------------------------------------------------------------
(***************************************************************************)
(* The server: what was in the list stays in its order, behind what is     *)
(* new.                                                                    *)
(***************************************************************************)
StaysSorted ==
  \A i, j \in 1..Len(items') :
    i < j /\ Held(items'[i], cache.body) => Held(items'[j], cache.body)

LEMMA ServerKeeps ==
  ASSUME Inv, UNCHANGED <<order, clientVars>>,
         items' \in Seq(Items), added' \in Nat, changes' \in Nat,
         added <= added', changes <= changes', ListInv',
         order = "appended" => Len(items) <= Len(items'),
         cache # None /\ order = "updated" => StaysSorted
  PROVE  Inv'
<1>1. UNCHANGED <<order, cache, pc, page, got, whole, result, source>>
  BY DEF clientVars
<1>2. Len(items) \in Nat /\ Len(items') \in Nat
  BY DEF Inv, TypeInv
<1>3. TypeInv'
  BY <1>1 DEF Inv, TypeInv
<1>4. CacheInv'
  <2> SUFFICES ASSUME cache # None PROVE CacheInv'
    BY <1>1 DEF CacheInv
  <2>1. cache.body \in Seq(Items)
    BY DEF Inv, TypeInv
  <2>2. ASSUME NEW i \in 1..Len(cache.body)
        PROVE  cache.body[i].id <= added' /\ cache.body[i].version <= changes'
    <3>1. cache.body[i] \in Items
      BY <2>1
    <3>2. cache.body[i].id <= added /\ cache.body[i].version <= changes
      BY DEF Inv, CacheInv, Known
    <3> QED BY <3>1, <3>2, SMTT(30) DEF Items, Inv, TypeInv
  <2>3. Known(cache.body)'
    BY <1>1, <2>2 DEF Known
  <2> QED BY <1>1, <2>3 DEF Inv, CacheInv, StaysSorted, Held
<1>5. WalkInv'
  <2>1. Len(got) \in Nat /\ Len(whole) \in Nat
    BY DEF Inv, TypeInv
  <2> QED BY <1>1, <1>2, <2>1 DEF Inv, WalkInv, InOrder
<1>6. ResultInv'
  <2>1. Len(result) \in Nat
    BY DEF Inv, TypeInv
  <2> QED BY <1>1, <1>2, <2>1 DEF Inv, ResultInv, InOrder, StaleOnlyWhenFull
<1> QED BY <1>3, <1>4, <1>5, <1>6 DEF Inv

LEMMA EnterKeeps == ASSUME Inv, Enter PROVE Inv'
<1> DEFINE item == [id |-> added + 1, version |-> changes]
<1>0. /\ items \in Seq(Items) /\ Len(items) \in Nat
      /\ added \in Nat /\ changes \in Nat /\ item \in Items
  BY DEF Inv, TypeInv, Items
<1>1. /\ added' = added + 1 /\ UNCHANGED <<order, changes, clientVars>>
      /\ items' = IF order = "appended" THEN Append(items, item)
                                        ELSE <<item>> \o items
  BY DEF Enter
<1>2. UNCHANGED cache
  BY <1>1 DEF clientVars
<1>3. item.id = added + 1 /\ item.version = changes
  OBVIOUS
<1> HIDE DEF item
<1>4. ASSUME NEW i \in 1..Len(items)
      PROVE  /\ items[i] \in Items /\ items[i].id \in Nat
             /\ items[i].id < added + 1 /\ items[i].version <= changes
  <2>1. items[i] \in Items
    BY <1>0
  <2>2. items[i].id <= added /\ items[i].version <= changes
    BY DEF Inv, ListInv, Known
  <2> QED BY <1>0, <2>1, <2>2 DEF Items
<1>5. CASE order = "appended"
  <2>1. /\ items' \in Seq(Items) /\ Len(items') = Len(items) + 1
        /\ items'[Len(items) + 1] = item
        /\ \A i \in 1..Len(items) : items'[i] = items[i]
    BY <1>0, <1>1, <1>5
  <2>2. /\ InOrder(items) /\ Len(items) = added
        /\ \A i, j \in 1..Len(items) : items[i].id = items[j].id => i = j
    BY <1>5 DEF Inv, ListInv
  <2>3. InOrder(items)' /\ Len(items') = added'
    BY <1>0, <1>1, <1>3, <2>1, <2>2 DEF InOrder
  <2>4. \A i, j \in 1..Len(items') : items'[i].id = items'[j].id => i = j
    BY <2>3 DEF InOrder
  <2>5. Known(items)'
    BY <1>0, <1>1, <1>3, <1>4, <2>1 DEF Known
  <2>6. ListInv'
    BY <1>1, <2>3, <2>4, <2>5 DEF ListInv
  <2> QED BY <1>0, <1>1, <1>5, <2>1, <2>6, ServerKeeps
<1>6. CASE order # "appended"
  <2>1. /\ items' \in Seq(Items) /\ Len(items') = Len(items) + 1
        /\ items'[1] = item
        /\ \A i \in 2..(Len(items) + 1) : items'[i] = items[i - 1]
    BY <1>0, <1>1, <1>6, InFrontIs
  <2>2. \A i \in 2..Len(items') :
          i - 1 \in 1..Len(items) /\ items'[i] = items[i - 1]
    BY <1>0, <2>1
  <2>3. \A i, j \in 1..Len(items) : items[i].id = items[j].id => i = j
    BY DEF Inv, ListInv
  <2>4. Known(items)'
    BY <1>0, <1>1, <1>3, <1>4, <2>1, <2>2 DEF Known
  <2>5. ASSUME NEW i \in 1..Len(items'), NEW j \in 1..Len(items'),
               items'[i].id = items'[j].id
        PROVE  i = j
    <3>1. ASSUME NEW k \in 2..Len(items')
          PROVE  items'[k].id # item.id
      BY <1>0, <1>3, <1>4, <2>2
    <3>2. i = 1 \/ i \in 2..Len(items')
      BY <1>0, <2>1
    <3>3. j = 1 \/ j \in 2..Len(items')
      BY <1>0, <2>1
    <3>4. CASE i = 1 \/ j = 1
      BY <2>1, <2>5, <3>1, <3>2, <3>3, <3>4
    <3>5. CASE i \in 2..Len(items') /\ j \in 2..Len(items')
      <4>1. i - 1 = j - 1
        BY <2>2, <2>3, <2>5, <3>5
      <4> QED BY <4>1
    <3> QED BY <3>2, <3>3, <3>4, <3>5
  <2>6. ListInv'
    BY <1>1, <1>6, <2>4, <2>5 DEF ListInv
  <2>7. ASSUME cache # None, order = "updated" PROVE StaysSorted
    <3>1. cache.body \in Seq(Items) /\ Known(cache.body)
      BY <2>7 DEF Inv, TypeInv, CacheInv
    <3>2. ~Held(item, cache.body)
      BY <1>0, <1>3, <3>1 DEF Held, Known
    <3>3. \A i, j \in 1..Len(items) :
            i < j /\ Held(items[i], cache.body) => Held(items[j], cache.body)
      BY <2>7 DEF Inv, CacheInv
    <3>4. ASSUME NEW i \in 1..Len(items'), NEW j \in 1..Len(items'), i < j,
                 Held(items'[i], cache.body)
          PROVE  Held(items'[j], cache.body)
      <4>1. i # 1
        BY <2>1, <3>2, <3>4
      <4>2. i \in 2..Len(items') /\ j \in 2..Len(items') /\ i - 1 < j - 1
        BY <1>0, <2>1, <3>4, <4>1
      <4> QED BY <2>2, <3>3, <3>4, <4>2
    <3> QED BY <3>4 DEF StaysSorted
  <2> QED BY <1>0, <1>1, <1>6, <2>1, <2>6, <2>7, ServerKeeps
<1> QED BY <1>5, <1>6

(* A list without one of its items.                                        *)
LEMMA RestIs ==
  ASSUME Inv, NEW i \in 1..Len(items), NEW rest, rest = RemoveAt(items, i)
  PROVE  /\ rest \in Seq(Items) /\ Len(rest) \in Nat /\ Len(rest) + 1 = Len(items)
         /\ Known(rest)
         /\ \A j \in 1..Len(rest) : rest[j].id # items[i].id
         /\ \A j, k \in 1..Len(rest) : rest[j].id = rest[k].id => j = k
         /\ cache # None /\ order = "updated" =>
              \A j, k \in 1..Len(rest) :
                j < k /\ Held(rest[j], cache.body) => Held(rest[k], cache.body)
<1> DEFINE at(j) == IF j < i THEN j ELSE j + 1
<1>0. items \in Seq(Items) /\ Len(items) \in Nat
  BY DEF Inv, TypeInv
<1>1. /\ rest \in Seq(Items) /\ Len(rest) = Len(items) - 1
      /\ \A j \in 1..Len(rest) : rest[j] = items[at(j)]
  BY <1>0, RemoveAtIs
<1>2. \A j \in 1..Len(rest) : at(j) \in 1..Len(items) /\ at(j) # i
  BY <1>0, <1>1
<1>3. \A j, k \in 1..Len(rest) :
        (at(j) = at(k) => j = k) /\ (j < k => at(j) < at(k))
  BY <1>0, <1>1
<1> HIDE DEF at
<1>4. /\ Known(items)
      /\ \A j, k \in 1..Len(items) : items[j].id = items[k].id => j = k
  BY DEF Inv, ListInv
<1>5. Known(rest)
  BY <1>1, <1>2, <1>4 DEF Known
<1>6. \A j \in 1..Len(rest) : rest[j].id # items[i].id
  BY <1>1, <1>2, <1>4
<1>7. \A j, k \in 1..Len(rest) : rest[j].id = rest[k].id => j = k
  BY <1>1, <1>2, <1>3, <1>4
<1>8. ASSUME cache # None, order = "updated"
      PROVE  \A j, k \in 1..Len(rest) :
               j < k /\ Held(rest[j], cache.body) => Held(rest[k], cache.body)
  <2>1. \A j, k \in 1..Len(items) :
          j < k /\ Held(items[j], cache.body) => Held(items[k], cache.body)
    BY <1>8 DEF Inv, CacheInv
  <2> QED BY <1>1, <1>2, <1>3, <2>1
<1> QED BY <1>0, <1>1, <1>5, <1>6, <1>7, <1>8

LEMMA LeaveKeeps == ASSUME Inv, NEW i \in 1..Len(items), Leave(i) PROVE Inv'
<1>0. changes \in Nat /\ added \in Nat
  BY DEF Inv, TypeInv
<1>1. /\ order = "updated" /\ changes' = changes + 1
      /\ items' = RemoveAt(items, i)
      /\ UNCHANGED <<order, added, clientVars>>
  BY DEF Leave
<1>2. /\ items' \in Seq(Items) /\ Len(items') \in Nat /\ Known(items')
      /\ \A j, k \in 1..Len(items') : items'[j].id = items'[k].id => j = k
      /\ cache # None => StaysSorted
  BY <1>1, RestIs DEF StaysSorted
<1>3. ASSUME NEW j \in 1..Len(items')
      PROVE  items'[j].id <= added' /\ items'[j].version <= changes'
  <2>1. items'[j] \in Items
    BY <1>2
  <2>2. items'[j].id <= added /\ items'[j].version <= changes
    BY <1>2 DEF Known
  <2> QED BY <1>0, <1>1, <2>1, <2>2 DEF Items
<1>4. ListInv'
  BY <1>1, <1>2, <1>3 DEF ListInv, Known
<1> QED BY <1>0, <1>1, <1>2, <1>4, ServerKeeps

LEMMA ChangeKeeps == ASSUME Inv, NEW i \in 1..Len(items), Change(i) PROVE Inv'
<1> DEFINE item == [items[i] EXCEPT !.version = changes + 1]
<1>0. /\ items \in Seq(Items) /\ Len(items) \in Nat
      /\ added \in Nat /\ changes \in Nat
  BY DEF Inv, TypeInv
<1>1. /\ changes' = changes + 1 /\ UNCHANGED <<order, added, clientVars>>
      /\ items' = IF order = "appended" THEN [items EXCEPT ![i] = item]
                                        ELSE <<item>> \o RemoveAt(items, i)
  BY DEF Change
<1>2. UNCHANGED cache
  BY <1>1 DEF clientVars
<1>3. items[i] \in Items
  BY <1>0
<1>4. item \in Items /\ item.id = items[i].id /\ item.version = changes + 1
  <2> DEFINE old == items[i]
  <2>1. /\ old \in [id : Nat \ {0}, version : Nat]
        /\ item = [old EXCEPT !.version = changes + 1]
    BY <1>3 DEF Items
  <2> HIDE DEF old, item
  <2>2. /\ old.id \in Nat \ {0} /\ changes + 1 \in Nat
        /\ item = [id |-> old.id, version |-> changes + 1]
    BY <1>0, <2>1
  <2>3. item \in Items /\ item.id = old.id /\ item.version = changes + 1
    BY <2>2 DEF Items
  <2> QED BY <2>3 DEF old
<1> HIDE DEF item
<1>5. ASSUME NEW list \in Seq(Items), Known(list), NEW j \in 1..Len(list)
      PROVE  list[j].id <= added' /\ list[j].version <= changes'
  <2>1. list[j] \in Items
    BY <1>5
  <2>2. list[j].id <= added /\ list[j].version <= changes
    BY <1>5 DEF Known
  <2> QED BY <1>0, <1>1, <2>1, <2>2, SMTT(30) DEF Items
<1>6. Known(items) /\ \A j, k \in 1..Len(items) : items[j].id = items[k].id => j = k
  BY DEF Inv, ListInv
<1>7. item.id <= added' /\ item.version <= changes'
  BY <1>0, <1>1, <1>4, <1>6 DEF Known
<1>8. CASE order = "appended"
  <2>1. /\ items' \in Seq(Items) /\ Len(items') = Len(items)
        /\ \A j \in 1..Len(items) : items'[j] = IF j = i THEN item ELSE items[j]
    BY <1>0, <1>1, <1>4, <1>8
  <2>2. \A j \in 1..Len(items) : items'[j].id = items[j].id
    BY <1>4, <2>1
  <2>3. Known(items)'
    BY <1>0, <1>5, <1>6, <1>7, <2>1 DEF Known
  <2>4. ListInv'
    BY <1>1, <2>1, <2>2, <2>3 DEF Inv, ListInv, InOrder
  <2> QED BY <1>0, <1>1, <1>8, <2>1, <2>4, ServerKeeps
<1>9. CASE order # "appended"
  <2> DEFINE rest == RemoveAt(items, i)
  <2>0. /\ rest \in Seq(Items) /\ Len(rest) \in Nat /\ Known(rest)
        /\ \A j \in 1..Len(rest) : rest[j].id # items[i].id
        /\ \A j, k \in 1..Len(rest) : rest[j].id = rest[k].id => j = k
        /\ cache # None /\ order = "updated" =>
             \A j, k \in 1..Len(rest) :
               j < k /\ Held(rest[j], cache.body) => Held(rest[k], cache.body)
    BY RestIs
  <2>1. items' = <<item>> \o rest
    BY <1>1, <1>9
  <2> HIDE DEF rest
  <2>2. /\ items' \in Seq(Items) /\ Len(items') = Len(rest) + 1
        /\ items'[1] = item
        /\ \A j \in 2..(Len(rest) + 1) : items'[j] = rest[j - 1]
    BY <1>4, <2>0, <2>1, InFrontIs
  <2>3. \A j \in 2..Len(items') :
          j - 1 \in 1..Len(rest) /\ items'[j] = rest[j - 1]
    BY <2>0, <2>2, SMTT(30)
  <2>4. \A j \in 1..Len(items') : j = 1 \/ j \in 2..Len(items')
    BY <2>0, <2>2
  <2>5. Known(items)'
    BY <1>5, <1>7, <2>0, <2>2, <2>3, <2>4 DEF Known
  <2>6. ASSUME NEW j \in 1..Len(items'), NEW k \in 1..Len(items'),
               items'[j].id = items'[k].id
        PROVE  j = k
    <3>0. \A n \in 2..Len(items') : items'[n].id # item.id
      BY <1>4, <2>0, <2>3
    <3>1. CASE j = 1 \/ k = 1
      BY <2>2, <2>4, <2>6, <3>0, <3>1
    <3>2. CASE j \in 2..Len(items') /\ k \in 2..Len(items')
      <4>1. rest[j - 1].id = rest[k - 1].id
        BY <2>3, <2>6, <3>2
      <4>2. j - 1 = k - 1
        BY <2>0, <2>3, <3>2, <4>1
      <4> QED BY <3>2, <4>2
    <3> QED BY <2>4, <3>1, <3>2
  <2>7. ListInv'
    BY <1>1, <1>9, <2>5, <2>6 DEF ListInv
  <2>8. ASSUME cache # None, order = "updated" PROVE StaysSorted
    <3>1. cache.body \in Seq(Items) /\ Known(cache.body)
      BY <2>8 DEF Inv, TypeInv, CacheInv
    <3>2. ~Held(item, cache.body)
      BY <1>0, <1>4, <3>1 DEF Held, Known
    <3>3. ASSUME NEW j \in 1..Len(items'), NEW k \in 1..Len(items'), j < k,
                 Held(items'[j], cache.body)
          PROVE  Held(items'[k], cache.body)
      <4>1. j # 1
        BY <2>2, <3>2, <3>3
      <4>2. j \in 2..Len(items') /\ k \in 2..Len(items') /\ j - 1 < k - 1
        BY <2>0, <2>2, <3>3, <4>1
      <4> QED BY <2>0, <2>3, <2>8, <3>3, <4>2
    <3> QED BY <3>3 DEF StaysSorted
  <2> QED BY <1>0, <1>1, <1>9, <2>2, <2>7, <2>8, ServerKeeps
<1> QED BY <1>8, <1>9

-----------------------------------------------------------------------------
(***************************************************************************)
(* The client.                                                             *)
(***************************************************************************)
(* A cached page that is still the first page of the list is the list,     *)
(* unless it is full and the list grows behind it.                         *)
LEMMA FreshPageIsList ==
  ASSUME Inv, cache.etag = Page(1), order = "updated" \/ Len(cache.body) # PageSize
  PROVE  cache.body = items
<1>1. cache # None /\ cache.body = Page(1) /\ cache.body \in Seq(Items)
  BY NoneIsNoPage DEF Inv, CacheInv, TypeInv
<1>2. PageSize \in Nat \ {0} /\ Len(items) \in Nat /\ items \in Seq(Items)
  BY NumbersAssumption DEF Inv, TypeInv
<1>3. /\ HasNext(1) <=> Len(items) > PageSize
      /\ Len(Page(1)) = IF HasNext(1) THEN PageSize ELSE Len(items)
      /\ \A i \in 1..Len(Page(1)) : Page(1)[i] = items[i]
      /\ ~HasNext(1) => Page(1) = items
  BY FirstPageIs DEF Inv
<1>4. CASE ~HasNext(1)
  BY <1>1, <1>3, <1>4
<1>5. CASE HasNext(1)
  <2>1. /\ order = "updated" /\ Len(cache.body) = PageSize
        /\ PageSize + 1 \in 1..Len(items) /\ 1 \in 1..Len(items)
        /\ \A i \in 1..PageSize : cache.body[i] = items[i]
    BY <1>1, <1>2, <1>3, <1>5
  <2>2. Held(items[1], cache.body)
    BY <1>2, <2>1 DEF Held
  <2>3. Held(items[PageSize + 1], cache.body)
    BY <1>1, <1>2, <2>1, <2>2 DEF Inv, CacheInv
  <2>4. PICK i \in 1..PageSize : items[i] = items[PageSize + 1]
    BY <2>1, <2>3 DEF Held
  <2>5. i \in 1..Len(items) /\ i # PageSize + 1
    BY <1>2, <2>1
  <2> QED BY <2>1, <2>4, <2>5 DEF Inv, ListInv
<1> QED BY <1>4, <1>5

LEMMA NotModifiedKeeps == ASSUME Inv, NotModified PROVE Inv'
<1>1. /\ cache.etag = Page(1) /\ result' = cache.body /\ source' = "cache"
      /\ pc' = "idle" /\ page' = 1 /\ got' = <<>> /\ whole' = items
      /\ UNCHANGED <<order, items, added, changes, cache>>
  BY DEF NotModified, Return, listVars
<1>2. TypeInv'
  BY <1>1, NoneIsNoPage DEF Inv, TypeInv
<1>3. ListInv' /\ CacheInv' /\ WalkInv'
  BY <1>1 DEF Inv, ListInv, CacheInv, WalkInv, Known, InOrder, Held
<1>4. ResultInv'
  BY <1>1, FreshPageIsList DEF ResultInv, StaleOnlyWhenFull
<1> QED BY <1>2, <1>3, <1>4 DEF Inv

LEMMA OnlyPageKeeps == ASSUME Inv, OnlyPage PROVE Inv'
<1>1. /\ ~HasNext(1) /\ cache' = [etag |-> Page(1), body |-> Page(1)]
      /\ result' = Page(1) /\ source' = "pages"
      /\ pc' = "idle" /\ page' = 1 /\ got' = <<>> /\ whole' = items
      /\ UNCHANGED <<order, items, added, changes>>
  BY DEF OnlyPage, Return, listVars
<1>2. Page(1) = items /\ Len(items) <= PageSize /\ Len(items) \in Nat
  BY <1>1, FirstPageIs, NumbersAssumption DEF Inv, TypeInv
<1>3. TypeInv'
  BY <1>1, <1>2 DEF Inv, TypeInv
<1>4. ListInv' /\ WalkInv'
  BY <1>1 DEF Inv, ListInv, WalkInv, Known, InOrder
<1>5. CacheInv'
  BY <1>1, <1>2 DEF Inv, ListInv, CacheInv, Known, Held
<1>6. ResultInv'
  BY <1>1, <1>2 DEF Inv, ListInv, ResultInv, StaleOnlyWhenFull, InOrder
<1> QED BY <1>3, <1>4, <1>5, <1>6 DEF Inv

LEMMA FirstPageKeeps == ASSUME Inv, FirstPage PROVE Inv'
<1>1. /\ HasNext(1) /\ got' = Page(1) /\ page' = 2 /\ pc' = "walk"
      /\ whole' = items /\ source' = "none"
      /\ UNCHANGED <<order, items, added, changes, cache, result>>
  BY DEF FirstPage, listVars
<1>2. /\ Page(1) \in Seq(Items) /\ Len(Page(1)) = PageSize /\ Len(items) > PageSize
      /\ \A i \in 1..PageSize : Page(1)[i] = items[i]
      /\ PageSize \in Nat \ {0} /\ Len(items) \in Nat
  <2>1. PageSize \in Nat \ {0} /\ Len(items) \in Nat
    BY NumbersAssumption DEF Inv, TypeInv
  <2>2. TypeInv
    BY DEF Inv
  <2> QED BY <1>1, <2>1, <2>2, FirstPageIs
<1>3. TypeInv'
  BY <1>1, <1>2 DEF Inv, TypeInv
<1>4. ListInv' /\ CacheInv'
  BY <1>1 DEF Inv, ListInv, CacheInv, Known, InOrder, Held
<1>5. WalkInv'
  <2>1. (2 - 1) * PageSize = PageSize
    BY <1>2
  <2>2. order = "appended" => InOrder(Page(1))
    BY <1>2 DEF Inv, ListInv, InOrder
  <2> QED BY <1>1, <1>2, <2>1, <2>2 DEF WalkInv, InOrder
<1>6. ResultInv'
  BY <1>1 DEF ResultInv, StaleOnlyWhenFull
<1> QED BY <1>3, <1>4, <1>5, <1>6 DEF Inv

(* What a walk over a growing list has after one page more.                *)
LEMMA OnePageMore ==
  ASSUME Inv, pc = "walk"
  PROVE  /\ got \o Page(page) \in Seq(Items)
         /\ order = "appended" =>
              /\ InOrder(got \o Page(page))
              /\ Len(got \o Page(page)) =
                   IF HasNext(page) THEN page * PageSize ELSE Len(items)
              /\ Len(got \o Page(page)) <= Len(items)
<1>0. /\ PageSize \in Nat \ {0} /\ page \in Nat \ {0}
      /\ items \in Seq(Items) /\ got \in Seq(Items)
      /\ Len(items) \in Nat /\ Len(got) \in Nat
  BY NumbersAssumption DEF Inv, TypeInv
<1>1. Page(page) \in Seq(Items)
  <2> DEFINE m == (page - 1) * PageSize + 1
             n == IF page * PageSize < Len(items) THEN page * PageSize ELSE Len(items)
  <2>1. m \in Nat \ {0} /\ n \in Int /\ n <= Len(items)
    BY <1>0
  <2>2. Page(page) = SubSeq(items, m, n)
    BY DEF Page
  <2> HIDE DEF m, n
  <2>3. \A i \in m..n : items[i] \in Items
    BY <1>0, <2>1
  <2> QED BY <2>1, <2>2, <2>3, SubSeqProperties
<1>2. ASSUME order = "appended"
      PROVE  /\ InOrder(got \o Page(page))
             /\ Len(got \o Page(page)) =
                  IF HasNext(page) THEN page * PageSize ELSE Len(items)
             /\ Len(got \o Page(page)) <= Len(items)
  <2> DEFINE before == (page - 1) * PageSize
  <2>1. /\ InOrder(got) /\ Len(got) = before /\ before <= Len(items)
        /\ InOrder(items) /\ page * PageSize = before + PageSize
    BY <1>0, <1>2 DEF Inv, WalkInv, ListInv
  <2>2. /\ HasNext(page) <=> Len(items) > before + PageSize
        /\ Len(Page(page)) = IF HasNext(page) THEN PageSize ELSE Len(items) - before
        /\ \A i \in 1..Len(Page(page)) : Page(page)[i] = items[before + i]
    BY <1>0, <2>1, PageIs DEF Inv
  <2> HIDE DEF before
  <2>3. Len(got \o Page(page)) = before + Len(Page(page))
    BY <1>0, <1>1, <2>1
  <2>4. Len(got \o Page(page)) = IF HasNext(page) THEN page * PageSize ELSE Len(items)
    BY <1>0, <2>1, <2>2, <2>3
  <2>5. ASSUME NEW i \in 1..Len(got \o Page(page))
        PROVE  (got \o Page(page))[i].id = i
    <3>1. CASE i <= before
      <4>1. (got \o Page(page))[i] = got[i] /\ i \in 1..Len(got)
        BY <1>0, <1>1, <2>1, <2>3, <3>1
      <4> QED BY <2>1, <4>1 DEF InOrder
    <3>2. CASE ~(i <= before)
      <4>1. /\ i - before \in 1..Len(Page(page)) /\ before + (i - before) = i
            /\ (got \o Page(page))[i] = Page(page)[i - before]
        BY <1>0, <1>1, <2>1, <2>3, <3>2
      <4>2. i \in 1..Len(items)
        BY <1>0, <2>1, <2>2, <2>3
      <4> QED BY <2>1, <2>2, <4>1, <4>2 DEF InOrder
    <3> QED BY <3>1, <3>2
  <2> QED BY <1>0, <2>1, <2>2, <2>4, <2>5 DEF InOrder
<1> QED BY <1>0, <1>1, <1>2

LEMMA LaterPageKeeps == ASSUME Inv, LaterPage PROVE Inv'
<1>1. /\ pc = "walk" /\ HasNext(page) /\ got' = got \o Page(page)
      /\ page' = page + 1
      /\ UNCHANGED <<order, items, added, changes, cache, pc, whole, result, source>>
  BY DEF LaterPage, listVars
<1>2. TypeInv'
  BY <1>1, OnePageMore DEF Inv, TypeInv
<1>3. ListInv' /\ CacheInv' /\ ResultInv'
  BY <1>1 DEF Inv, ListInv, CacheInv, ResultInv, StaleOnlyWhenFull, Known,
              InOrder, Held
<1>4. WalkInv'
  <2>1. (page + 1) - 1 = page
    BY DEF Inv, TypeInv
  <2> QED BY <1>1, <2>1, OnePageMore DEF Inv, WalkInv, InOrder
<1> QED BY <1>2, <1>3, <1>4 DEF Inv

LEMMA LastPageKeeps == ASSUME Inv, LastPage PROVE Inv'
<1>1. /\ pc = "walk" /\ ~HasNext(page) /\ cache' = None
      /\ result' = got \o Page(page) /\ source' = "pages"
      /\ pc' = "idle" /\ page' = 1 /\ got' = <<>>
      /\ UNCHANGED <<order, items, added, changes, whole>>
  BY DEF LastPage, Return, listVars
<1>2. TypeInv'
  BY <1>1, OnePageMore DEF Inv, TypeInv
<1>3. ListInv' /\ CacheInv' /\ WalkInv'
  BY <1>1 DEF Inv, ListInv, CacheInv, WalkInv, Known, InOrder
<1>4. ResultInv'
  <2>1. Len(items) \in Nat /\ Len(whole) \in Nat
    BY DEF Inv, TypeInv
  <2> QED BY <1>1, <2>1, OnePageMore
          DEF Inv, WalkInv, ResultInv, StaleOnlyWhenFull, InOrder
<1> QED BY <1>2, <1>3, <1>4 DEF Inv

LEMMA FailKeeps == ASSUME Inv, Fail PROVE Inv'
<1>1. /\ pc' = "idle" /\ page' = 1 /\ got' = <<>>
      /\ UNCHANGED <<order, items, added, changes, cache, whole, result, source>>
  BY DEF Fail, listVars
<1> QED BY <1>1 DEF Inv, TypeInv, ListInv, CacheInv, WalkInv, ResultInv,
                    StaleOnlyWhenFull, Known, InOrder, Held

-----------------------------------------------------------------------------
LEMMA InvInit == Init => Inv
BY OrdersAssumption
DEF Init, Inv, TypeInv, ListInv, CacheInv, WalkInv, ResultInv,
    StaleOnlyWhenFull, Known, InOrder

LEMMA InvStep == Inv /\ [Next]_vars => Inv'
<1> SUFFICES ASSUME Inv, [Next]_vars PROVE Inv'
  OBVIOUS
<1>1. CASE UNCHANGED vars
  BY <1>1, SMTT(30)
  DEF vars, listVars, clientVars, Inv, TypeInv, ListInv, CacheInv, WalkInv, ResultInv,
      StaleOnlyWhenFull, Known, InOrder, Held
<1> QED
  BY <1>1, EnterKeeps, ChangeKeeps, LeaveKeeps, NotModifiedKeeps, OnlyPageKeeps,
     FirstPageKeeps, LaterPageKeeps, LastPageKeeps, FailKeeps
  DEF Next, Walk, Server

LEMMA InvAlways == Spec => []Inv
BY InvInit, InvStep, PTL DEF Spec

(* For every page size and every history of the list: an answer from the   *)
(* cache is the list as it is, unless the cache holds one full page of a   *)
(* list that grows behind it (github_client.cpp:556-579).                  *)
THEOREM StaleTheorem == Spec => []StaleOnlyWhenFull
<1>1. Inv => StaleOnlyWhenFull
  BY DEF Inv, ResultInv
<1> QED BY <1>1, InvAlways, PTL

(* A walk over the pages of a growing list returns everything that was in  *)
(* it when the walk began, once and in order (github_client.cpp:520-554).  *)
THEOREM WalkTheorem == Spec => []WalkIsComplete
<1>1. Inv => WalkIsComplete
  <2> SUFFICES ASSUME Inv, source = "pages", order = "appended"
               PROVE  /\ Len(result) >= Len(whole)
                      /\ \A i \in 1..Len(result) : result[i].id = items[i].id
    BY DEF WalkIsComplete
  <2>1. InOrder(result) /\ InOrder(items) /\ Len(result) <= Len(items)
        /\ Len(result) >= Len(whole) /\ Len(result) \in Nat /\ Len(items) \in Nat
    BY DEF Inv, TypeInv, ResultInv, ListInv
  <2> QED BY <2>1 DEF InOrder
<1> QED BY <1>1, InvAlways, PTL
=============================================================================
