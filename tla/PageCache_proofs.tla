--------------------------- MODULE PageCache_proofs ---------------------------
(***************************************************************************)
(* Proofs about PageCache, for every number of pages, slots, threads,      *)
(* blocks and tiles, as long as no two pages share an address.             *)
(***************************************************************************)
EXTENDS PageCache, FiniteSetTheorems, TLAPS

(* Where a thread has a slot to itself, where it has marked the page it    *)
(* means to evict, where the slot is its own to fill, and where it loads.  *)
Locking(t)  == pc[t] \in {"examine", "mark", "unmark", "clear"}
Evicting(t) == pc[t] \in {"unmark", "clear"}
Filling(t)  == pc[t] \in {"read", "publish", "enable"}
Loading(t)  == pc[t] = "find" \/ Locking(t) \/ Filling(t)

(* A thread keeps a page busy that it loads, or that it evicts.            *)
Keeps(t, p) == (Loading(t) /\ page[t] = p) \/ (Evicting(t) /\ Previous(t) = p)

InSlot(p, s) == s \in Slots /\ lock[s] # "free" /\ owner[s] = p

Places == {"request", "inspect", "reload", "find", "examine", "mark", "unmark",
           "clear", "read", "publish", "enable", "held", "copied", "tiled"}

Bits == [valid : BOOLEAN, busy : BOOLEAN]

TypeOK ==
  /\ count \in [Pages -> Nat] /\ valid \in [Pages -> BOOLEAN]
  /\ busy \in [Pages -> BOOLEAN] /\ offset \in [Pages -> Slots]
  /\ lock \in [Slots -> {"free", "unlocked", "locked"}]
  /\ owner \in [Slots -> Pages] /\ content \in [Slots -> Pages \cup {NoPage}]
  /\ ticket \in Slots
  /\ pc \in [Threads -> Places] /\ page \in [Threads -> Pages \cup {NoPage}]
  /\ word \in [Threads -> Bits] /\ slot \in [Threads -> Slots \cup {NoSlot}]

(* A thread has a page from its pin to its release.                        *)
PageOfPlace ==
  \A t \in Threads :
    /\ pc[t] \in {"request", "tiled"} => page[t] = NoPage
    /\ pc[t] \in {"inspect", "reload"} \/ Loading(t) => page[t] \in Pages

CountIsPins == \A p \in Pages : count[p] = Cardinality({t \in Threads : page[t] = p})

(* At most one thread at a time looks at what a slot has, and at most one  *)
(* keeps a page busy.                                                      *)
LocksExclude ==
  \A t \in Threads : Locking(t) =>
    /\ slot[t] \in Slots /\ lock[slot[t]] = "locked"
    /\ \A u \in Threads : Locking(u) /\ slot[u] = slot[t] => u = t

KeepersExclude ==
  \A t \in Threads, p \in Pages : Keeps(t, p) =>
    busy[p] /\ \A u \in Threads : Keeps(u, p) => u = t

EvictsAnother == \A t \in Threads : Evicting(t) => Previous(t) # page[t]

(* What a thread may count on that fills a slot, and one that holds a page.*)
FilledSlot ==
  \A t \in Threads : Filling(t) =>
    /\ InSlot(page[t], slot[t])
    /\ pc[t] # "read" => content[slot[t]] = page[t]
    /\ pc[t] = "enable" => offset[page[t]] = slot[t]

HeldSlot ==
  \A t \in Threads : Holds(t) => InSlot(page[t], slot[t]) /\ content[slot[t]] = page[t]

(* The slot at the offset of a page has it while the page is valid, and as *)
(* long as a thread has a pin from when it was.                            *)
Cached(p) == InSlot(p, offset[p]) /\ content[offset[p]] = p

ValidCached == \A p \in Pages : valid[p] => Cached(p)

SeenCached ==
  \A t \in Threads :
    pc[t] = "inspect" /\ word[t].valid /\ ~word[t].busy => Cached(page[t])

(* Whoever has pinned a page since a thread decided to evict it has seen   *)
(* it busy.                                                                *)
ClearsUnused ==
  \A t, u \in Threads :
    pc[t] = "clear" /\ page[u] = Previous(t) =>
      pc[u] = "reload" \/ (pc[u] = "inspect" /\ word[u].busy)

CacheInvariant ==
  /\ TypeOK /\ PageOfPlace /\ CountIsPins /\ LocksExclude /\ KeepersExclude /\ EvictsAnother
  /\ FilledSlot /\ HeldSlot /\ ValidCached /\ SeenCached /\ ClearsUnused
-----------------------------------------------------------------------------
(* Pages have addresses of their own, and no page is none.                 *)
LEMMA OwnAddress ==
  ASSUME PageCount <= AddressSpan, NEW p \in Pages
  PROVE  Address(p) = p
BY CacheAssumption DEF Address, Pages

LEMMA NoPageIsNone == NoPage \notin Pages
BY CacheAssumption DEF NoPage, Pages

(* The ticket goes round.                                                  *)
LEMMA TicketType ==
  ASSUME ticket \in Slots
  PROVE  (ticket + 1) % SlotCount \in Slots
BY CacheAssumption DEF Slots

(* No thread has a page whose count is zero, and to pin or release a page  *)
(* moves its count by one.                                                 *)
Pins(p) == {t \in Threads : page[t] = p}

LEMMA PinsFinite ==
  ASSUME NEW p
  PROVE  IsFiniteSet(Pins(p)) /\ Cardinality(Pins(p)) \in Nat
BY CacheAssumption, FS_Subset, FS_CardinalityType DEF Pins

LEMMA UnpinnedPage ==
  ASSUME NEW p, Cardinality(Pins(p)) = 0, NEW t \in Threads
  PROVE  page[t] # p
BY PinsFinite, FS_EmptySet DEF Pins

LEMMA PinAdds ==
  ASSUME TypeOK, NEW t \in Threads, NEW p, page[t] # p, page' = [page EXCEPT ![t] = p]
  PROVE  Cardinality({u \in Threads : page'[u] = p}) = Cardinality(Pins(p)) + 1
<1>1. {u \in Threads : page'[u] = p} = Pins(p) \cup {t} /\ t \notin Pins(p)
  BY DEF TypeOK, Pins
<1>2. Cardinality(Pins(p) \cup {t}) = Cardinality(Pins(p)) + 1
  BY <1>1, PinsFinite, FS_AddElement, Zenon
<1> QED
  BY <1>1, <1>2

LEMMA ReleaseRemoves ==
  ASSUME TypeOK, NEW t \in Threads, NEW p, page[t] = p, p # NoPage,
         page' = [page EXCEPT ![t] = NoPage]
  PROVE  /\ Cardinality(Pins(p)) \in Nat \ {0}
         /\ Cardinality({u \in Threads : page'[u] = p}) = Cardinality(Pins(p)) - 1
<1>1. {u \in Threads : page'[u] = p} = Pins(p) \ {t} /\ t \in Pins(p)
  BY DEF TypeOK, Pins
<1>2. Cardinality(Pins(p)) \in Nat \ {0}
  BY PinsFinite, UnpinnedPage
<1>3. Cardinality(Pins(p) \ {t}) = Cardinality(Pins(p)) - 1
  BY <1>1, PinsFinite, FS_RemoveElement, Zenon
<1> QED
  BY <1>1, <1>2, <1>3

(* What the invariant says of a thread that loads.                         *)
LEMMA LoaderFacts ==
  ASSUME CacheInvariant, NEW t \in Threads
  PROVE  /\ Locking(t) => slot[t] \in Slots /\ Previous(t) \in Pages
         /\ Loading(t) => page[t] \in Pages /\ busy[page[t]]
         /\ Evicting(t) => busy[Previous(t)] /\ Locking(t)
         /\ Filling(t) => slot[t] \in Slots
<1>1. Locking(t) => slot[t] \in Slots /\ Previous(t) \in Pages
  BY DEF CacheInvariant, TypeOK, LocksExclude, Previous
<1>2. Loading(t) => page[t] \in Pages /\ busy[page[t]]
  BY DEF CacheInvariant, PageOfPlace, KeepersExclude, Keeps
<1>3. Evicting(t) => Locking(t)
  BY DEF Evicting, Locking
<1>4. Evicting(t) => busy[Previous(t)]
  BY <1>1, <1>3 DEF CacheInvariant, KeepersExclude, Keeps
<1>5. Filling(t) => slot[t] \in Slots
  BY DEF CacheInvariant, FilledSlot, InSlot
<1> QED
  BY <1>1, <1>2, <1>3, <1>4, <1>5

LEMMA KeptPin ==
  ASSUME PageCount <= AddressSpan, CacheInvariant, NEW t \in Threads, Pin(t)
  PROVE  CacheInvariant'
<1> USE DEF CacheInvariant
<1>1. PICK p \in Pages : /\ page' = [page EXCEPT ![t] = p]
                       /\ word' = [word EXCEPT ![t] = WordOf(p)]
                       /\ count' = [count EXCEPT ![p] = @ + 1]
  BY DEF Pin
<1>2. page[t] = NoPage /\ page[t] \notin Pages
  BY <1>1, NoPageIsNone DEF Pin, PageOfPlace
<1>3. \A u \in Threads : pc[u] = "clear" => busy[Previous(u)] /\ Previous(u) \in Pages
  BY LoaderFacts DEF Locking, Evicting
<1>4. TypeOK'
  BY <1>1, <1>2, <1>3 DEF TypeOK, Places, Bits, Pin, Goto, WordOf, state, cache
<1>5. PageOfPlace'
  BY <1>1, <1>2, <1>3 DEF TypeOK, Places, Bits, PageOfPlace, Loading, Locking,
      Filling, Pin, Goto, WordOf, state, cache
<1>6. CountIsPins'
  <2> SUFFICES ASSUME NEW q \in Pages
               PROVE  count'[q] = Cardinality({u \in Threads : page'[u] = q})
    BY DEF CountIsPins
  <2>1. CASE q = p
    <3>1. Cardinality({u \in Threads : page'[u] = p}) = Cardinality(Pins(p)) + 1
      BY <1>1, <1>2, PinAdds
    <3>2. count[p] = Cardinality(Pins(p))
      BY DEF CountIsPins, Pins
    <3> QED
      BY <2>1, <3>1, <3>2, <1>1 DEF TypeOK
  <2>2. CASE q # p
    <3>1. {u \in Threads : page'[u] = q} = {u \in Threads : page[u] = q}
      BY <2>2, <1>1, <1>2 DEF TypeOK
    <3> QED
      BY <2>2, <3>1, <1>1 DEF TypeOK, CountIsPins
  <2> QED
    BY <2>1, <2>2
<1>7. LocksExclude'
  BY <1>1, <1>2, <1>3 DEF TypeOK, Places, Bits, LocksExclude, Locking, Pin, Goto,
      WordOf, state, cache
<1>8. KeepersExclude'
  BY <1>1, <1>2, <1>3 DEF TypeOK, Places, Bits, KeepersExclude, Keeps, Loading,
      Locking, Evicting, Filling, Previous, Pin, Goto, WordOf, state, cache
<1>9. EvictsAnother'
  BY <1>1, <1>2, <1>3 DEF TypeOK, Places, Bits, EvictsAnother, Evicting,
      Previous, Pin, Goto, WordOf, state, cache
<1>10. FilledSlot'
  BY <1>1, <1>2, <1>3 DEF TypeOK, Places, Bits, FilledSlot, Filling, InSlot, Pin,
      Goto, WordOf, state, cache
<1>11. HeldSlot'
  BY <1>1, <1>2, <1>3 DEF TypeOK, Places, Bits, HeldSlot, Holds, InSlot, Pin,
      Goto, WordOf, state, cache
<1>12. SeenCached'
  BY <1>1, <1>2, <1>3 DEF TypeOK, Places, Bits, SeenCached, Cached, InSlot, Pin,
      Goto, WordOf, state, cache, ValidCached
<1>13. ClearsUnused'
  BY <1>1, <1>2, <1>3 DEF TypeOK, Places, Bits, ClearsUnused, Previous, Pin,
      Goto, WordOf, state, cache
<1>14. ValidCached'
  BY <1>1, <1>2, <1>3 DEF ValidCached, Cached, InSlot, Pin, Goto, WordOf, state,
      cache
<1> QED
  BY <1>4, <1>5, <1>6, <1>7, <1>8, <1>9, <1>10, <1>11, <1>12, <1>13, <1>14

LEMMA KeptNoRequest ==
  ASSUME PageCount <= AddressSpan, CacheInvariant, NEW t \in Threads, NoRequest(t)
  PROVE  CacheInvariant'
<1> USE DEF CacheInvariant
<1>1. page' = page
  BY DEF NoRequest, PageOfPlace, TypeOK
<1>2. TypeOK'
  BY <1>1 DEF TypeOK, Places, Bits, NoRequest, Goto, state, cache
<1>3. PageOfPlace'
  BY <1>1 DEF TypeOK, Places, Bits, PageOfPlace, Loading, Locking, Filling,
      NoRequest, Goto, state, cache
<1>4. CountIsPins'
  BY <1>1 DEF TypeOK, Places, Bits, CountIsPins, NoRequest, Goto, state, cache
<1>5. LocksExclude'
  BY <1>1 DEF TypeOK, Places, Bits, LocksExclude, Locking, NoRequest, Goto,
      state, cache
<1>6. KeepersExclude'
  BY <1>1 DEF TypeOK, Places, Bits, KeepersExclude, Keeps, Loading, Locking,
      Evicting, Filling, Previous, NoRequest, Goto, state, cache
<1>7. EvictsAnother'
  BY <1>1 DEF TypeOK, Places, Bits, EvictsAnother, Evicting, Previous, NoRequest,
      Goto, state, cache
<1>8. FilledSlot'
  BY <1>1 DEF TypeOK, Places, Bits, FilledSlot, Filling, InSlot, NoRequest, Goto,
      state, cache
<1>9. HeldSlot'
  BY <1>1 DEF TypeOK, Places, Bits, HeldSlot, Holds, InSlot, NoRequest, Goto,
      state, cache
<1>10. SeenCached'
  BY <1>1 DEF TypeOK, Places, Bits, SeenCached, Cached, InSlot, NoRequest, Goto,
      state, cache
<1>11. ClearsUnused'
  BY <1>1, NoPageIsNone, LoaderFacts DEF TypeOK, Places, Bits, ClearsUnused,
      Previous, NoRequest, Goto, state, cache, PageOfPlace, Locking
<1>12. ValidCached'
  BY <1>1 DEF ValidCached, Cached, InSlot, NoRequest, Goto, state, cache
<1> QED
  BY <1>2, <1>3, <1>4, <1>5, <1>6, <1>7, <1>8, <1>9, <1>10, <1>11, <1>12

LEMMA KeptTryLoad ==
  ASSUME PageCount <= AddressSpan, CacheInvariant, NEW t \in Threads, TryLoad(t)
  PROVE  CacheInvariant'
<1> USE DEF CacheInvariant
<1>1. TypeOK'
  BY DEF TypeOK, Places, Bits, TryLoad, Goto, state, cache
<1>2. PageOfPlace'
  BY DEF TypeOK, Places, Bits, PageOfPlace, Loading, Locking, Filling, TryLoad,
      Goto, state, cache
<1>3. LocksExclude'
  BY DEF TypeOK, Places, Bits, LocksExclude, Locking, TryLoad, Goto, state, cache
<1>4. KeepersExclude'
  BY DEF TypeOK, Places, Bits, KeepersExclude, Keeps, Loading, Locking, Evicting,
      Filling, Previous, TryLoad, Goto, state, cache
<1>5. EvictsAnother'
  BY DEF TypeOK, Places, Bits, EvictsAnother, Evicting, Previous, TryLoad, Goto,
      state, cache
<1>6. FilledSlot'
  BY DEF TypeOK, Places, Bits, FilledSlot, Filling, InSlot, TryLoad, Goto, state,
      cache
<1>7. HeldSlot'
  BY DEF TypeOK, Places, Bits, HeldSlot, Holds, InSlot, TryLoad, Goto, state, cache
<1>8. SeenCached'
  BY DEF TypeOK, Places, Bits, SeenCached, Cached, InSlot, TryLoad, Goto, state,
      cache
<1>9. ClearsUnused'
  BY DEF TypeOK, Places, Bits, ClearsUnused, Previous, TryLoad, Goto, state, cache
<1>10. CountIsPins' /\ ValidCached'
  BY DEF CountIsPins, ValidCached, Cached, InSlot, TryLoad, Goto, state, cache
<1> QED
  BY <1>1, <1>2, <1>3, <1>4, <1>5, <1>6, <1>7, <1>8, <1>9, <1>10

LEMMA KeptHit ==
  ASSUME PageCount <= AddressSpan, CacheInvariant, NEW t \in Threads, Hit(t)
  PROVE  CacheInvariant'
<1> USE DEF CacheInvariant
<1>1. page[t] \in Pages /\ Cached(page[t])
  BY DEF Hit, PageOfPlace, SeenCached
<1>2. TypeOK'
  BY <1>1 DEF TypeOK, Places, Bits, Hit, Goto, state, cache
<1>3. PageOfPlace'
  BY <1>1 DEF TypeOK, Places, Bits, PageOfPlace, Loading, Locking, Filling, Hit,
      Goto, state, cache
<1>4. LocksExclude'
  BY <1>1 DEF TypeOK, Places, Bits, LocksExclude, Locking, Hit, Goto, state, cache
<1>5. KeepersExclude'
  BY <1>1 DEF TypeOK, Places, Bits, KeepersExclude, Keeps, Loading, Locking,
      Evicting, Filling, Previous, Hit, Goto, state, cache
<1>6. EvictsAnother'
  BY <1>1 DEF TypeOK, Places, Bits, EvictsAnother, Evicting, Previous, Hit, Goto,
      state, cache
<1>7. FilledSlot'
  BY <1>1 DEF TypeOK, Places, Bits, FilledSlot, Filling, InSlot, Hit, Goto,
      state, cache
<1>8. HeldSlot'
  BY <1>1 DEF TypeOK, Places, Bits, HeldSlot, Holds, InSlot, Hit, Goto, state,
      cache, Cached
<1>9. SeenCached'
  BY <1>1 DEF TypeOK, Places, Bits, SeenCached, Cached, InSlot, Hit, Goto, state,
      cache
<1>10. ClearsUnused'
  BY <1>1 DEF TypeOK, Places, Bits, ClearsUnused, Previous, Hit, Goto, state, cache
<1>11. CountIsPins' /\ ValidCached'
  BY <1>1 DEF CountIsPins, ValidCached, Cached, InSlot, Hit, Goto, state, cache
<1> QED
  BY <1>2, <1>3, <1>4, <1>5, <1>6, <1>7, <1>8, <1>9, <1>10, <1>11

LEMMA KeptSeeBusy ==
  ASSUME PageCount <= AddressSpan, CacheInvariant, NEW t \in Threads, SeeBusy(t)
  PROVE  CacheInvariant'
<1> USE DEF CacheInvariant
<1>1. TypeOK'
  BY DEF TypeOK, Places, Bits, SeeBusy, Goto, state, cache
<1>2. PageOfPlace'
  BY DEF TypeOK, Places, Bits, PageOfPlace, Loading, Locking, Filling, SeeBusy,
      Goto, state, cache
<1>3. LocksExclude'
  BY DEF TypeOK, Places, Bits, LocksExclude, Locking, SeeBusy, Goto, state, cache
<1>4. KeepersExclude'
  BY DEF TypeOK, Places, Bits, KeepersExclude, Keeps, Loading, Locking, Evicting,
      Filling, Previous, SeeBusy, Goto, state, cache
<1>5. EvictsAnother'
  BY DEF TypeOK, Places, Bits, EvictsAnother, Evicting, Previous, SeeBusy, Goto,
      state, cache
<1>6. FilledSlot'
  BY DEF TypeOK, Places, Bits, FilledSlot, Filling, InSlot, SeeBusy, Goto, state,
      cache
<1>7. HeldSlot'
  BY DEF TypeOK, Places, Bits, HeldSlot, Holds, InSlot, SeeBusy, Goto, state, cache
<1>8. SeenCached'
  BY DEF TypeOK, Places, Bits, SeenCached, Cached, InSlot, SeeBusy, Goto, state,
      cache
<1>9. ClearsUnused'
  BY DEF TypeOK, Places, Bits, ClearsUnused, Previous, SeeBusy, Goto, state, cache
<1>10. CountIsPins' /\ ValidCached'
  BY DEF CountIsPins, ValidCached, Cached, InSlot, SeeBusy, Goto, state, cache
<1> QED
  BY <1>1, <1>2, <1>3, <1>4, <1>5, <1>6, <1>7, <1>8, <1>9, <1>10

LEMMA KeptReload ==
  ASSUME PageCount <= AddressSpan, CacheInvariant, NEW t \in Threads, Reload(t)
  PROVE  CacheInvariant'
<1> USE DEF CacheInvariant
<1>1. page[t] \in Pages
  BY DEF Reload, PageOfPlace
<1>2. \A u \in Threads : pc[u] = "clear" => busy[Previous(u)] /\ Previous(u) \in Pages
  BY LoaderFacts DEF Locking, Evicting
<1>3. TypeOK'
  BY <1>1, <1>2 DEF TypeOK, Places, Bits, Reload, Goto, WordOf, state, cache
<1>4. PageOfPlace'
  BY <1>1, <1>2 DEF TypeOK, Places, Bits, PageOfPlace, Loading, Locking, Filling,
      Reload, Goto, WordOf, state, cache
<1>5. LocksExclude'
  BY <1>1, <1>2 DEF TypeOK, Places, Bits, LocksExclude, Locking, Reload, Goto,
      WordOf, state, cache
<1>6. KeepersExclude'
  BY <1>1, <1>2 DEF TypeOK, Places, Bits, KeepersExclude, Keeps, Loading,
      Locking, Evicting, Filling, Previous, Reload, Goto, WordOf, state, cache
<1>7. EvictsAnother'
  BY <1>1, <1>2 DEF TypeOK, Places, Bits, EvictsAnother, Evicting, Previous,
      Reload, Goto, WordOf, state, cache
<1>8. FilledSlot'
  BY <1>1, <1>2 DEF TypeOK, Places, Bits, FilledSlot, Filling, InSlot, Reload,
      Goto, WordOf, state, cache
<1>9. HeldSlot'
  BY <1>1, <1>2 DEF TypeOK, Places, Bits, HeldSlot, Holds, InSlot, Reload, Goto,
      WordOf, state, cache
<1>10. SeenCached'
  BY <1>1, <1>2 DEF TypeOK, Places, Bits, SeenCached, Cached, InSlot, Reload,
      Goto, WordOf, state, cache, ValidCached
<1>11. ClearsUnused'
  BY <1>1, <1>2 DEF TypeOK, Places, Bits, ClearsUnused, Previous, Reload, Goto,
      WordOf, state, cache
<1>12. CountIsPins' /\ ValidCached'
  BY <1>1, <1>2 DEF CountIsPins, ValidCached, Cached, InSlot, Reload, Goto,
      WordOf, state, cache
<1> QED
  BY <1>3, <1>4, <1>5, <1>6, <1>7, <1>8, <1>9, <1>10, <1>11, <1>12

LEMMA KeptSkipSlot ==
  ASSUME PageCount <= AddressSpan, CacheInvariant, NEW t \in Threads, SkipSlot(t)
  PROVE  CacheInvariant'
<1> USE DEF CacheInvariant
<1>1. TypeOK'
  BY TicketType DEF TypeOK, Places, Bits, SkipSlot, NextTicket, state, cache, thread
<1>2. PageOfPlace' /\ CountIsPins' /\ LocksExclude' /\ KeepersExclude' /\ EvictsAnother' /\ FilledSlot' /\ HeldSlot' /\ ValidCached' /\ SeenCached' /\ ClearsUnused'
  BY DEF PageOfPlace, Loading, Locking, Filling, CountIsPins, LocksExclude,
      KeepersExclude, Keeps, Evicting, Previous, EvictsAnother, FilledSlot,
      InSlot, HeldSlot, Holds, ValidCached, Cached, SeenCached, ClearsUnused,
      SkipSlot, NextTicket, state, cache, thread
<1> QED
  BY <1>1, <1>2

LEMMA KeptClaimFree ==
  ASSUME PageCount <= AddressSpan, CacheInvariant, NEW t \in Threads, ClaimFree(t)
  PROVE  CacheInvariant'
<1> USE DEF CacheInvariant
<1>1. ticket \in Slots /\ page[t] \in Pages /\ Address(page[t]) = page[t]
  BY OwnAddress DEF ClaimFree, PageOfPlace, Loading, TypeOK
<1>2. owner' = [owner EXCEPT ![ticket] = page[t]] /\ lock' = [lock EXCEPT ![ticket] = "unlocked"]
  BY <1>1 DEF ClaimFree
<1>3. \A u \in Threads : Locking(u) => slot[u] \in Slots /\ slot[u] # ticket /\ u # t
  BY DEF ClaimFree, LocksExclude, Locking
<1>4. TypeOK'
  BY <1>1, <1>2, <1>3, TicketType DEF TypeOK, Places, Bits, ClaimFree, Goto,
      TakeTicket, NextTicket, state, cache
<1>5. PageOfPlace'
  BY <1>1, <1>2, <1>3 DEF TypeOK, Places, Bits, PageOfPlace, Loading, Locking,
      Filling, ClaimFree, Goto, TakeTicket, NextTicket, state, cache
<1>6. LocksExclude'
  BY <1>1, <1>2, <1>3 DEF TypeOK, Places, Bits, LocksExclude, Locking, ClaimFree,
      Goto, TakeTicket, NextTicket, state, cache
<1>7. KeepersExclude'
  BY <1>1, <1>2, <1>3 DEF TypeOK, Places, Bits, KeepersExclude, Keeps, Loading,
      Locking, Evicting, Filling, Previous, ClaimFree, Goto, TakeTicket,
      NextTicket, state, cache
<1>8. EvictsAnother'
  BY <1>1, <1>2, <1>3 DEF TypeOK, Places, Bits, EvictsAnother, Evicting,
      Previous, ClaimFree, Goto, TakeTicket, NextTicket, state, cache, Locking
<1>9. FilledSlot'
  BY <1>1, <1>2, <1>3 DEF TypeOK, Places, Bits, FilledSlot, Filling, InSlot,
      ClaimFree, Goto, TakeTicket, NextTicket, state, cache
<1>10. HeldSlot'
  BY <1>1, <1>2, <1>3 DEF TypeOK, Places, Bits, HeldSlot, Holds, InSlot,
      ClaimFree, Goto, TakeTicket, NextTicket, state, cache
<1>11. ValidCached'
  BY <1>1, <1>2, <1>3 DEF TypeOK, Places, Bits, ValidCached, Cached, InSlot,
      ClaimFree, Goto, TakeTicket, NextTicket, state, cache
<1>12. SeenCached'
  BY <1>1, <1>2, <1>3 DEF TypeOK, Places, Bits, SeenCached, Cached, InSlot,
      ClaimFree, Goto, TakeTicket, NextTicket, state, cache
<1>13. ClearsUnused'
  BY <1>1, <1>2, <1>3 DEF TypeOK, Places, Bits, ClearsUnused, Previous,
      ClaimFree, Goto, TakeTicket, NextTicket, state, cache, Locking
<1>14. CountIsPins'
  BY <1>1, <1>2, <1>3 DEF CountIsPins, ClaimFree, Goto, TakeTicket, NextTicket,
      state, cache
<1> QED
  BY <1>4, <1>5, <1>6, <1>7, <1>8, <1>9, <1>10, <1>11, <1>12, <1>13, <1>14

LEMMA KeptLockSlot ==
  ASSUME PageCount <= AddressSpan, CacheInvariant, NEW t \in Threads, LockSlot(t)
  PROVE  CacheInvariant'
<1> USE DEF CacheInvariant
<1>1. TypeOK'
  BY TicketType DEF TypeOK, Places, Bits, LockSlot, Goto, TakeTicket, NextTicket,
      state, cache
<1>2. PageOfPlace'
  BY DEF TypeOK, Places, Bits, PageOfPlace, Loading, Locking, Filling, LockSlot,
      Goto, TakeTicket, NextTicket, state, cache
<1>3. LocksExclude'
  BY DEF TypeOK, Places, Bits, LocksExclude, Locking, LockSlot, Goto, TakeTicket,
      NextTicket, state, cache
<1>4. KeepersExclude'
  BY DEF TypeOK, Places, Bits, KeepersExclude, Keeps, Loading, Locking, Evicting,
      Filling, Previous, LockSlot, Goto, TakeTicket, NextTicket, state, cache
<1>5. EvictsAnother'
  BY DEF TypeOK, Places, Bits, EvictsAnother, Evicting, Previous, LockSlot, Goto,
      TakeTicket, NextTicket, state, cache
<1>6. FilledSlot'
  BY DEF TypeOK, Places, Bits, FilledSlot, Filling, InSlot, LockSlot, Goto,
      TakeTicket, NextTicket, state, cache
<1>7. HeldSlot'
  BY DEF TypeOK, Places, Bits, HeldSlot, Holds, InSlot, LockSlot, Goto,
      TakeTicket, NextTicket, state, cache
<1>8. ValidCached'
  BY DEF TypeOK, Places, Bits, ValidCached, Cached, InSlot, LockSlot, Goto,
      TakeTicket, NextTicket, state, cache
<1>9. SeenCached'
  BY DEF TypeOK, Places, Bits, SeenCached, Cached, InSlot, LockSlot, Goto,
      TakeTicket, NextTicket, state, cache
<1>10. ClearsUnused'
  BY DEF TypeOK, Places, Bits, ClearsUnused, Previous, LockSlot, Goto,
      TakeTicket, NextTicket, state, cache
<1>11. CountIsPins'
  BY DEF CountIsPins, LockSlot, Goto, TakeTicket, NextTicket, state, cache
<1> QED
  BY <1>1, <1>2, <1>3, <1>4, <1>5, <1>6, <1>7, <1>8, <1>9, <1>10, <1>11

LEMMA KeptExamine ==
  ASSUME PageCount <= AddressSpan, CacheInvariant, NEW t \in Threads, Examine(t)
  PROVE  CacheInvariant'
<1> USE DEF CacheInvariant
<1>1. TypeOK'
  BY DEF TypeOK, Places, Bits, Examine, Goto, Previous, Unlock, state, cache
<1>2. PageOfPlace'
  BY DEF TypeOK, Places, Bits, PageOfPlace, Loading, Locking, Filling, Examine,
      Goto, Previous, Unlock, state, cache
<1>3. LocksExclude'
  BY DEF TypeOK, Places, Bits, LocksExclude, Locking, Examine, Goto, Previous,
      Unlock, state, cache
<1>4. KeepersExclude'
  BY DEF TypeOK, Places, Bits, KeepersExclude, Keeps, Loading, Locking, Evicting,
      Filling, Previous, Examine, Goto, Previous, Unlock, state, cache
<1>5. EvictsAnother'
  BY DEF TypeOK, Places, Bits, EvictsAnother, Evicting, Previous, Examine, Goto,
      Previous, Unlock, state, cache
<1>6. FilledSlot'
  BY DEF TypeOK, Places, Bits, FilledSlot, Filling, InSlot, Examine, Goto,
      Previous, Unlock, state, cache
<1>7. HeldSlot'
  BY DEF TypeOK, Places, Bits, HeldSlot, Holds, InSlot, Examine, Goto, Previous,
      Unlock, state, cache
<1>8. ValidCached'
  BY DEF TypeOK, Places, Bits, ValidCached, Cached, InSlot, Examine, Goto,
      Previous, Unlock, state, cache
<1>9. SeenCached'
  BY DEF TypeOK, Places, Bits, SeenCached, Cached, InSlot, Examine, Goto,
      Previous, Unlock, state, cache
<1>10. ClearsUnused'
  BY DEF TypeOK, Places, Bits, ClearsUnused, Previous, Examine, Goto, Previous,
      Unlock, state, cache
<1>11. CountIsPins'
  BY DEF CountIsPins, Examine, Goto, Previous, Unlock, state, cache
<1> QED
  BY <1>1, <1>2, <1>3, <1>4, <1>5, <1>6, <1>7, <1>8, <1>9, <1>10, <1>11

LEMMA KeptMark ==
  ASSUME PageCount <= AddressSpan, CacheInvariant, NEW t \in Threads, Mark(t)
  PROVE  CacheInvariant'
<1> USE DEF CacheInvariant
<1>1. slot[t] \in Slots /\ Previous(t) \in Pages /\ page[t] \in Pages
  BY LoaderFacts DEF Mark, Locking, Loading
<1>2. busy[page[t]]
  BY LoaderFacts DEF Mark, Locking, Loading
<1>3. ~Pinned(Previous(t)) => \A u \in Threads : page[u] # Previous(t)
  BY <1>1, UnpinnedPage DEF Pinned, CountIsPins, Pins
<1>4. TypeOK'
  BY <1>1, <1>2, <1>3 DEF TypeOK, Places, Bits, Mark, Goto, Previous, Unlock,
      Pinned, state, cache
<1>5. PageOfPlace'
  BY <1>1, <1>2, <1>3 DEF TypeOK, Places, Bits, PageOfPlace, Loading, Locking,
      Filling, Mark, Goto, Previous, Unlock, Pinned, state, cache
<1>6. LocksExclude'
  BY <1>1, <1>2, <1>3 DEF TypeOK, Places, Bits, LocksExclude, Locking, Mark,
      Goto, Previous, Unlock, Pinned, state, cache
<1>7. KeepersExclude'
  BY <1>1, <1>2, <1>3 DEF TypeOK, Places, Bits, KeepersExclude, Keeps, Loading,
      Locking, Evicting, Filling, Previous, Mark, Goto, Previous, Unlock, Pinned,
      state, cache
<1>8. EvictsAnother'
  BY <1>1, <1>2, <1>3 DEF TypeOK, Places, Bits, EvictsAnother, Evicting,
      Previous, Mark, Goto, Previous, Unlock, Pinned, state, cache
<1>9. FilledSlot'
  BY <1>1, <1>2, <1>3 DEF TypeOK, Places, Bits, FilledSlot, Filling, InSlot,
      Mark, Goto, Previous, Unlock, Pinned, state, cache
<1>10. HeldSlot'
  BY <1>1, <1>2, <1>3 DEF TypeOK, Places, Bits, HeldSlot, Holds, InSlot, Mark,
      Goto, Previous, Unlock, Pinned, state, cache
<1>11. ValidCached'
  BY <1>1, <1>2, <1>3 DEF TypeOK, Places, Bits, ValidCached, Cached, InSlot,
      Mark, Goto, Previous, Unlock, Pinned, state, cache
<1>12. SeenCached'
  BY <1>1, <1>2, <1>3 DEF TypeOK, Places, Bits, SeenCached, Cached, InSlot, Mark,
      Goto, Previous, Unlock, Pinned, state, cache
<1>13. ClearsUnused'
  BY <1>1, <1>2, <1>3 DEF TypeOK, Places, Bits, ClearsUnused, Previous, Mark,
      Goto, Previous, Unlock, Pinned, state, cache
<1>14. CountIsPins'
  BY <1>1, <1>2, <1>3 DEF CountIsPins, Mark, Goto, Previous, Unlock, Pinned,
      state, cache
<1> QED
  BY <1>4, <1>5, <1>6, <1>7, <1>8, <1>9, <1>10, <1>11, <1>12, <1>13, <1>14

LEMMA KeptUnmark ==
  ASSUME PageCount <= AddressSpan, CacheInvariant, NEW t \in Threads, Unmark(t)
  PROVE  CacheInvariant'
<1> USE DEF CacheInvariant
<1>1. slot[t] \in Slots /\ Previous(t) \in Pages /\ page[t] \in Pages
  BY LoaderFacts DEF Unmark, Locking, Loading
<1>2. Previous(t) # page[t]
  BY DEF Unmark, EvictsAnother, Evicting
<1>3. \A u \in Threads : Keeps(u, Previous(t)) => u = t
  BY <1>1 DEF Unmark, KeepersExclude, Keeps, Evicting
<1>4. TypeOK'
  BY <1>1, <1>2, <1>3 DEF TypeOK, Places, Bits, Unmark, Goto, Previous, Unlock,
      state, cache
<1>5. PageOfPlace'
  BY <1>1, <1>2, <1>3 DEF TypeOK, Places, Bits, PageOfPlace, Loading, Locking,
      Filling, Unmark, Goto, Previous, Unlock, state, cache
<1>6. LocksExclude'
  BY <1>1, <1>2, <1>3 DEF TypeOK, Places, Bits, LocksExclude, Locking, Unmark,
      Goto, Previous, Unlock, state, cache
<1>7. KeepersExclude'
  BY <1>1, <1>2, <1>3 DEF TypeOK, Places, Bits, KeepersExclude, Keeps, Loading,
      Locking, Evicting, Filling, Previous, Unmark, Goto, Previous, Unlock,
      state, cache
<1>8. EvictsAnother'
  BY <1>1, <1>2, <1>3 DEF TypeOK, Places, Bits, EvictsAnother, Evicting,
      Previous, Unmark, Goto, Previous, Unlock, state, cache
<1>9. FilledSlot'
  BY <1>1, <1>2, <1>3 DEF TypeOK, Places, Bits, FilledSlot, Filling, InSlot,
      Unmark, Goto, Previous, Unlock, state, cache
<1>10. HeldSlot'
  BY <1>1, <1>2, <1>3 DEF TypeOK, Places, Bits, HeldSlot, Holds, InSlot, Unmark,
      Goto, Previous, Unlock, state, cache
<1>11. ValidCached'
  BY <1>1, <1>2, <1>3 DEF TypeOK, Places, Bits, ValidCached, Cached, InSlot,
      Unmark, Goto, Previous, Unlock, state, cache
<1>12. SeenCached'
  BY <1>1, <1>2, <1>3 DEF TypeOK, Places, Bits, SeenCached, Cached, InSlot,
      Unmark, Goto, Previous, Unlock, state, cache
<1>13. ClearsUnused'
  BY <1>1, <1>2, <1>3 DEF TypeOK, Places, Bits, ClearsUnused, Previous, Unmark,
      Goto, Previous, Unlock, state, cache
<1>14. CountIsPins'
  BY <1>1, <1>2, <1>3 DEF CountIsPins, Unmark, Goto, Previous, Unlock, state, cache
<1> QED
  BY <1>4, <1>5, <1>6, <1>7, <1>8, <1>9, <1>10, <1>11, <1>12, <1>13, <1>14

LEMMA KeptClear ==
  ASSUME PageCount <= AddressSpan, CacheInvariant, NEW t \in Threads, Clear(t)
  PROVE  CacheInvariant'
<1> USE DEF CacheInvariant
<1>1. slot[t] \in Slots /\ Previous(t) \in Pages /\ page[t] \in Pages /\ Address(page[t]) = page[t]
  BY LoaderFacts, OwnAddress DEF Clear, Locking, Loading
<1>2. Previous(t) # page[t]
  BY DEF Clear, EvictsAnother, Evicting
<1>3. owner' = [owner EXCEPT ![slot[t]] = page[t]] /\ slot' = slot /\ page' = page
  BY <1>1 DEF Clear
<1>4. \A u \in Threads : Locking(u) /\ u # t => slot[u] \in Slots /\ slot[u] # slot[t]
  BY DEF Clear, LocksExclude, Locking
<1>5. \A u \in Threads : Keeps(u, Previous(t)) => u = t
  BY <1>1 DEF Clear, KeepersExclude, Keeps, Evicting
<1>6. \A u \in Threads : page[u] = Previous(t) => pc[u] = "reload" \/ (pc[u] = "inspect" /\ word[u].busy)
  BY DEF Clear, ClearsUnused
<1>7. TypeOK'
  BY <1>1, <1>2, <1>3, <1>4, <1>5, <1>6 DEF TypeOK, Places, Bits, Clear, Goto,
      Previous, Unlock, state, cache
<1>8. PageOfPlace'
  BY <1>1, <1>2, <1>3, <1>4, <1>5, <1>6 DEF TypeOK, Places, Bits, PageOfPlace,
      Loading, Locking, Filling, Clear, Goto, Previous, Unlock, state, cache
<1>9. LocksExclude'
  BY <1>1, <1>2, <1>3, <1>4, <1>5, <1>6 DEF TypeOK, Places, Bits, LocksExclude,
      Locking, Clear, Goto, Previous, Unlock, state, cache
<1>10. KeepersExclude'
  BY <1>1, <1>2, <1>3, <1>4, <1>5, <1>6 DEF TypeOK, Places, Bits, KeepersExclude,
      Keeps, Loading, Locking, Evicting, Filling, Previous, Clear, Goto,
      Previous, Unlock, state, cache
<1>11. EvictsAnother'
  BY <1>1, <1>2, <1>3, <1>4, <1>5, <1>6 DEF TypeOK, Places, Bits, EvictsAnother,
      Evicting, Previous, Clear, Goto, Unlock, state, cache, Locking
<1>12. FilledSlot'
  BY <1>1, <1>2, <1>3, <1>4, <1>5, <1>6 DEF TypeOK, Places, Bits, FilledSlot,
      Filling, InSlot, Clear, Goto, Previous, Unlock, state, cache
<1>13. HeldSlot'
  BY <1>1, <1>2, <1>3, <1>4, <1>5, <1>6 DEF TypeOK, Places, Bits, HeldSlot,
      Holds, InSlot, Clear, Goto, Previous, Unlock, state, cache
<1>14. ValidCached'
  BY <1>1, <1>2, <1>3, <1>4, <1>5, <1>6 DEF TypeOK, Places, Bits, ValidCached,
      Cached, InSlot, Clear, Goto, Previous, Unlock, state, cache
<1>15. SeenCached'
  BY <1>1, <1>2, <1>3, <1>4, <1>5, <1>6 DEF TypeOK, Places, Bits, SeenCached,
      Cached, InSlot, Clear, Goto, Previous, Unlock, state, cache
<1>16. ClearsUnused'
  BY <1>1, <1>2, <1>3, <1>4, <1>5, <1>6 DEF TypeOK, Places, Bits, ClearsUnused,
      Previous, Clear, Goto, Unlock, state, cache, Locking
<1>17. CountIsPins'
  BY <1>1, <1>2, <1>3, <1>4, <1>5, <1>6 DEF CountIsPins, Clear, Goto, Previous,
      Unlock, state, cache
<1> QED
  BY <1>7, <1>8, <1>9, <1>10, <1>11, <1>12, <1>13, <1>14, <1>15, <1>16, <1>17

LEMMA KeptRead ==
  ASSUME PageCount <= AddressSpan, CacheInvariant, NEW t \in Threads, Read(t)
  PROVE  CacheInvariant'
<1> USE DEF CacheInvariant
<1>1. InSlot(page[t], slot[t]) /\ page[t] \in Pages
  BY LoaderFacts DEF Read, FilledSlot, Filling, Loading
<1>2. \A p, s : InSlot(p, s)' <=> InSlot(p, s)
  BY DEF Read, InSlot
<1>3. \A p : InSlot(p, slot[t]) => p = page[t]
  BY <1>1 DEF InSlot
<1>4. \A s \in Slots : content'[s] = IF s = slot[t] THEN page[t] ELSE content[s]
  BY <1>1 DEF Read, TypeOK
<1>5. TypeOK'
  BY <1>1, <1>2, <1>3, <1>4 DEF TypeOK, Places, Bits, Read, Goto, state, cache
<1>6. PageOfPlace'
  BY <1>1, <1>2, <1>3, <1>4 DEF TypeOK, Places, Bits, PageOfPlace, Loading,
      Locking, Filling, Read, Goto, state, cache
<1>7. LocksExclude'
  BY <1>1, <1>2, <1>3, <1>4 DEF TypeOK, Places, Bits, LocksExclude, Locking,
      Read, Goto, state, cache
<1>8. KeepersExclude'
  BY <1>1, <1>2, <1>3, <1>4 DEF TypeOK, Places, Bits, KeepersExclude, Keeps,
      Loading, Locking, Evicting, Filling, Previous, Read, Goto, state, cache
<1>9. EvictsAnother'
  BY <1>1, <1>2, <1>3, <1>4 DEF TypeOK, Places, Bits, EvictsAnother, Evicting,
      Previous, Read, Goto, state, cache
<1>10. FilledSlot'
  BY <1>1, <1>2, <1>3, <1>4 DEF TypeOK, Places, Bits, FilledSlot, Filling,
      InSlot, Read, Goto, state, cache
<1>11. HeldSlot'
  BY <1>1, <1>2, <1>3, <1>4 DEF TypeOK, Places, Bits, HeldSlot, Holds, InSlot,
      Read, Goto, state, cache
<1>12. ValidCached'
  BY <1>1, <1>2, <1>3, <1>4 DEF TypeOK, Places, Bits, ValidCached, Cached,
      InSlot, Read, Goto, state, cache
<1>13. SeenCached'
  BY <1>1, <1>2, <1>3, <1>4 DEF TypeOK, Places, Bits, SeenCached, Cached, InSlot,
      Read, Goto, state, cache
<1>14. ClearsUnused'
  BY <1>1, <1>2, <1>3, <1>4 DEF TypeOK, Places, Bits, ClearsUnused, Previous,
      Read, Goto, state, cache
<1>15. CountIsPins'
  BY <1>1, <1>2, <1>3, <1>4 DEF CountIsPins, Read, Goto, state, cache
<1> QED
  BY <1>5, <1>6, <1>7, <1>8, <1>9, <1>10, <1>11, <1>12, <1>13, <1>14, <1>15

LEMMA KeptPublish ==
  ASSUME PageCount <= AddressSpan, CacheInvariant, NEW t \in Threads, Publish(t)
  PROVE  CacheInvariant'
<1> USE DEF CacheInvariant
<1>1. InSlot(page[t], slot[t]) /\ content[slot[t]] = page[t] /\ page[t] \in Pages
  BY LoaderFacts DEF Publish, FilledSlot, Filling, Loading
<1>2. \A u \in Threads : Filling(u) /\ page[u] = page[t] => u = t
  BY <1>1 DEF Publish, KeepersExclude, Keeps, Loading, Filling
<1>3. \A p \in Pages : offset'[p] = IF p = page[t] THEN slot[t] ELSE offset[p]
  BY <1>1 DEF Publish, TypeOK
<1>4. TypeOK'
  BY <1>1, <1>2, <1>3 DEF TypeOK, Places, Bits, Publish, Goto, state, cache, InSlot
<1>5. PageOfPlace'
  BY <1>1, <1>2, <1>3 DEF TypeOK, Places, Bits, PageOfPlace, Loading, Locking,
      Filling, Publish, Goto, state, cache
<1>6. LocksExclude'
  BY <1>1, <1>2, <1>3 DEF TypeOK, Places, Bits, LocksExclude, Locking, Publish,
      Goto, state, cache
<1>7. KeepersExclude'
  BY <1>1, <1>2, <1>3 DEF TypeOK, Places, Bits, KeepersExclude, Keeps, Loading,
      Locking, Evicting, Filling, Previous, Publish, Goto, state, cache
<1>8. EvictsAnother'
  BY <1>1, <1>2, <1>3 DEF TypeOK, Places, Bits, EvictsAnother, Evicting,
      Previous, Publish, Goto, state, cache
<1>9. FilledSlot'
  BY <1>1, <1>2, <1>3 DEF TypeOK, Places, Bits, FilledSlot, Filling, InSlot,
      Publish, Goto, state, cache
<1>10. HeldSlot'
  BY <1>1, <1>2, <1>3 DEF TypeOK, Places, Bits, HeldSlot, Holds, InSlot, Publish,
      Goto, state, cache
<1>11. ValidCached'
  BY <1>1, <1>2, <1>3 DEF TypeOK, Places, Bits, ValidCached, Cached, InSlot,
      Publish, Goto, state, cache
<1>12. SeenCached'
  BY <1>1, <1>2, <1>3 DEF TypeOK, Places, Bits, SeenCached, Cached, InSlot,
      Publish, Goto, state, cache
<1>13. ClearsUnused'
  BY <1>1, <1>2, <1>3 DEF TypeOK, Places, Bits, ClearsUnused, Previous, Publish,
      Goto, state, cache
<1>14. CountIsPins'
  BY <1>1, <1>2, <1>3 DEF CountIsPins, Publish, Goto, state, cache
<1> QED
  BY <1>4, <1>5, <1>6, <1>7, <1>8, <1>9, <1>10, <1>11, <1>12, <1>13, <1>14

LEMMA KeptEnable ==
  ASSUME PageCount <= AddressSpan, CacheInvariant, NEW t \in Threads, Enable(t)
  PROVE  CacheInvariant'
<1> USE DEF CacheInvariant
<1>1. InSlot(page[t], slot[t]) /\ content[slot[t]] = page[t] /\ offset[page[t]] = slot[t]
  BY DEF Enable, FilledSlot, Filling
<1>2. page[t] \in Pages /\ busy[page[t]]
  BY LoaderFacts DEF Enable, Filling, Loading
<1>3. TypeOK'
  BY <1>1, <1>2 DEF TypeOK, Places, Bits, Enable, Goto, state, cache
<1>4. PageOfPlace'
  BY <1>1, <1>2 DEF TypeOK, Places, Bits, PageOfPlace, Loading, Locking, Filling,
      Enable, Goto, state, cache
<1>5. LocksExclude'
  BY <1>1, <1>2 DEF TypeOK, Places, Bits, LocksExclude, Locking, Enable, Goto,
      state, cache
<1>6. KeepersExclude'
  BY <1>1, <1>2 DEF TypeOK, Places, Bits, KeepersExclude, Keeps, Loading,
      Locking, Evicting, Filling, Previous, Enable, Goto, state, cache
<1>7. EvictsAnother'
  BY <1>1, <1>2 DEF TypeOK, Places, Bits, EvictsAnother, Evicting, Previous,
      Enable, Goto, state, cache
<1>8. FilledSlot'
  BY <1>1, <1>2 DEF TypeOK, Places, Bits, FilledSlot, Filling, InSlot, Enable,
      Goto, state, cache
<1>9. HeldSlot'
  BY <1>1, <1>2 DEF TypeOK, Places, Bits, HeldSlot, Holds, InSlot, Enable, Goto,
      state, cache
<1>10. ValidCached'
  BY <1>1, <1>2 DEF TypeOK, Places, Bits, ValidCached, Cached, InSlot, Enable,
      Goto, state, cache
<1>11. SeenCached'
  BY <1>1, <1>2 DEF TypeOK, Places, Bits, SeenCached, Cached, InSlot, Enable,
      Goto, state, cache
<1>12. ClearsUnused'
  BY <1>1, <1>2 DEF TypeOK, Places, Bits, ClearsUnused, Previous, Enable, Goto,
      state, cache
<1>13. CountIsPins'
  BY <1>1, <1>2 DEF CountIsPins, Enable, Goto, state, cache
<1> QED
  BY <1>3, <1>4, <1>5, <1>6, <1>7, <1>8, <1>9, <1>10, <1>11, <1>12, <1>13

LEMMA KeptRelease ==
  ASSUME PageCount <= AddressSpan, CacheInvariant, NEW t \in Threads, Release(t)
  PROVE  CacheInvariant'
<1> USE DEF CacheInvariant
<1>1. page' = [page EXCEPT ![t] = NoPage] /\ NoPage \notin Pages
  BY NoPageIsNone DEF Release
<1>2. page[t] # NoPage => page[t] \in Pages /\ count[page[t]] = Cardinality(Pins(page[t]))
  BY DEF TypeOK, CountIsPins, Pins
<1>3. page[t] # NoPage => Cardinality(Pins(page[t])) \in Nat \ {0}
  BY <1>1, ReleaseRemoves
<1>4. count' = IF page[t] = NoPage THEN count ELSE [count EXCEPT ![page[t]] = @ - 1]
  BY DEF Release
<1>5. count' \in [Pages -> Nat]
  <2>1. CASE page[t] = NoPage
    BY <2>1, <1>4 DEF TypeOK
  <2>2. CASE page[t] # NoPage
    <3>1. count[page[t]] - 1 \in Nat
      BY <2>2, <1>2, <1>3
    <3> QED
      BY <2>2, <3>1, <1>4 DEF TypeOK
  <2> QED
    BY <2>1, <2>2
<1>6. TypeOK'
  BY <1>1, <1>2, <1>3, <1>4, <1>5 DEF TypeOK, Places, Bits, Release, Goto, state,
      cache
<1>7. PageOfPlace'
  BY <1>1, <1>2, <1>3, <1>4, <1>5 DEF TypeOK, Places, Bits, PageOfPlace, Loading,
      Locking, Filling, Release, Goto, state, cache
<1>8. CountIsPins'
  <2> SUFFICES ASSUME NEW q \in Pages
               PROVE  count'[q] = Cardinality({u \in Threads : page'[u] = q})
    BY DEF CountIsPins
  <2>1. CASE q = page[t]
    <3>1. Cardinality({u \in Threads : page'[u] = q}) = Cardinality(Pins(q)) - 1
      BY <2>1, <1>1, ReleaseRemoves
    <3> QED
      BY <2>1, <3>1, <1>1, <1>2, <1>4 DEF TypeOK
  <2>2. CASE q # page[t]
    <3>1. {u \in Threads : page'[u] = q} = {u \in Threads : page[u] = q}
      BY <2>2, <1>1 DEF TypeOK
    <3> QED
      BY <2>2, <3>1, <1>2, <1>4 DEF TypeOK, CountIsPins
  <2> QED
    BY <2>1, <2>2
<1>9. LocksExclude'
  BY <1>1, <1>2, <1>3, <1>4, <1>5 DEF TypeOK, Places, Bits, LocksExclude,
      Locking, Release, Goto, state, cache
<1>10. KeepersExclude'
  BY <1>1, <1>2, <1>3, <1>4, <1>5 DEF TypeOK, Places, Bits, KeepersExclude,
      Keeps, Loading, Locking, Evicting, Filling, Previous, Release, Goto, state,
      cache
<1>11. EvictsAnother'
  BY <1>1, <1>2, <1>3, <1>4, <1>5 DEF TypeOK, Places, Bits, EvictsAnother,
      Evicting, Previous, Release, Goto, state, cache
<1>12. FilledSlot'
  BY <1>1, <1>2, <1>3, <1>4, <1>5 DEF TypeOK, Places, Bits, FilledSlot, Filling,
      InSlot, Release, Goto, state, cache
<1>13. HeldSlot'
  BY <1>1, <1>2, <1>3, <1>4, <1>5 DEF TypeOK, Places, Bits, HeldSlot, Holds,
      InSlot, Release, Goto, state, cache
<1>14. SeenCached'
  BY <1>1, <1>2, <1>3, <1>4, <1>5 DEF TypeOK, Places, Bits, SeenCached, Cached,
      InSlot, Release, Goto, state, cache
<1>15. ClearsUnused'
  BY <1>1, <1>2, <1>3, <1>4, <1>5, LoaderFacts DEF TypeOK, Places, Bits,
      ClearsUnused, Previous, Release, Goto, state, cache, Locking
<1>16. ValidCached'
  BY <1>1, <1>2, <1>3, <1>4, <1>5 DEF ValidCached, Cached, InSlot, Release, Goto,
      state, cache
<1> QED
  BY <1>6, <1>7, <1>8, <1>9, <1>10, <1>11, <1>12, <1>13, <1>14, <1>15, <1>16

LEMMA KeptCopyRecords ==
  ASSUME PageCount <= AddressSpan, CacheInvariant, NEW b \in Blocks, CopyRecords(b)
  PROVE  CacheInvariant'
<1> USE DEF CacheInvariant
<1>1. TypeOK'
  BY DEF TypeOK, Places, Bits, CopyRecords, AllAt, MembersOf, state, cache
<1>2. PageOfPlace'
  BY DEF TypeOK, Places, Bits, PageOfPlace, Loading, Locking, Filling,
      CopyRecords, AllAt, MembersOf, state, cache
<1>3. LocksExclude'
  BY DEF TypeOK, Places, Bits, LocksExclude, Locking, CopyRecords, AllAt,
      MembersOf, state, cache
<1>4. KeepersExclude'
  BY DEF TypeOK, Places, Bits, KeepersExclude, Keeps, Loading, Locking, Evicting,
      Filling, Previous, CopyRecords, AllAt, MembersOf, state, cache
<1>5. EvictsAnother'
  BY DEF TypeOK, Places, Bits, EvictsAnother, Evicting, Previous, CopyRecords,
      AllAt, MembersOf, state, cache
<1>6. FilledSlot'
  BY DEF TypeOK, Places, Bits, FilledSlot, Filling, InSlot, CopyRecords, AllAt,
      MembersOf, state, cache
<1>7. HeldSlot'
  BY DEF TypeOK, Places, Bits, HeldSlot, Holds, InSlot, CopyRecords, AllAt,
      MembersOf, state, cache
<1>8. SeenCached'
  BY DEF TypeOK, Places, Bits, SeenCached, Cached, InSlot, CopyRecords, AllAt,
      MembersOf, state, cache
<1>9. ClearsUnused'
  BY DEF TypeOK, Places, Bits, ClearsUnused, Previous, CopyRecords, AllAt,
      MembersOf, state, cache
<1>10. CountIsPins' /\ ValidCached'
  BY DEF CountIsPins, ValidCached, Cached, InSlot, CopyRecords, AllAt, MembersOf,
      state, cache
<1> QED
  BY <1>1, <1>2, <1>3, <1>4, <1>5, <1>6, <1>7, <1>8, <1>9, <1>10

LEMMA KeptNextTile ==
  ASSUME PageCount <= AddressSpan, CacheInvariant, NEW b \in Blocks, NextTile(b)
  PROVE  CacheInvariant'
<1> USE DEF CacheInvariant
<1>1. TypeOK'
  BY DEF TypeOK, Places, Bits, NextTile, AllAt, MembersOf, state, cache
<1>2. PageOfPlace'
  BY DEF TypeOK, Places, Bits, PageOfPlace, Loading, Locking, Filling, NextTile,
      AllAt, MembersOf, state, cache
<1>3. LocksExclude'
  BY DEF TypeOK, Places, Bits, LocksExclude, Locking, NextTile, AllAt, MembersOf,
      state, cache
<1>4. KeepersExclude'
  BY DEF TypeOK, Places, Bits, KeepersExclude, Keeps, Loading, Locking, Evicting,
      Filling, Previous, NextTile, AllAt, MembersOf, state, cache
<1>5. EvictsAnother'
  BY DEF TypeOK, Places, Bits, EvictsAnother, Evicting, Previous, NextTile,
      AllAt, MembersOf, state, cache
<1>6. FilledSlot'
  BY DEF TypeOK, Places, Bits, FilledSlot, Filling, InSlot, NextTile, AllAt,
      MembersOf, state, cache
<1>7. HeldSlot'
  BY DEF TypeOK, Places, Bits, HeldSlot, Holds, InSlot, NextTile, AllAt,
      MembersOf, state, cache
<1>8. SeenCached'
  BY DEF TypeOK, Places, Bits, SeenCached, Cached, InSlot, NextTile, AllAt,
      MembersOf, state, cache
<1>9. ClearsUnused'
  BY DEF TypeOK, Places, Bits, ClearsUnused, Previous, NextTile, AllAt,
      MembersOf, state, cache
<1>10. CountIsPins' /\ ValidCached'
  BY DEF CountIsPins, ValidCached, Cached, InSlot, NextTile, AllAt, MembersOf,
      state, cache
<1> QED
  BY <1>1, <1>2, <1>3, <1>4, <1>5, <1>6, <1>7, <1>8, <1>9, <1>10

-----------------------------------------------------------------------------
LEMMA InitInvariant == Init => CacheInvariant
<1> SUFFICES ASSUME Init PROVE CacheInvariant
  OBVIOUS
<1>1. TypeOK
  BY CacheAssumption DEF Init, TypeOK, Places, Bits, Pages, Slots, NoPage, NoSlot
<1>2. \A p \in Pages : {t \in Threads : page[t] = p} = {}
  BY NoPageIsNone DEF Init
<1>3. CountIsPins
  BY <1>2, FS_EmptySet DEF Init, CountIsPins
<1>4. PageOfPlace /\ LocksExclude /\ KeepersExclude /\ EvictsAnother /\ FilledSlot /\ HeldSlot
  BY DEF Init, PageOfPlace, LocksExclude, KeepersExclude, EvictsAnother,
      FilledSlot, HeldSlot,
     Keeps, Loading, Locking, Evicting, Filling, Holds
<1>5. ValidCached /\ SeenCached /\ ClearsUnused
  BY DEF Init, ValidCached, SeenCached, ClearsUnused
<1> QED
  BY <1>1, <1>3, <1>4, <1>5 DEF CacheInvariant

LEMMA InvariantKept ==
  ASSUME PageCount <= AddressSpan, CacheInvariant, [Next]_vars
  PROVE  CacheInvariant'
<1>1. CASE UNCHANGED vars
  BY <1>1 DEF vars, state, cache, thread, CacheInvariant, TypeOK, PageOfPlace,
      CountIsPins,
     LocksExclude, KeepersExclude, EvictsAnother, FilledSlot, HeldSlot, ValidCached, SeenCached,
     ClearsUnused, Keeps, Loading, Locking, Evicting, Filling, Holds, Cached, InSlot, Previous
<1>2. ASSUME NEW t \in Threads, AcquireStep(t)
      PROVE  CacheInvariant'
  BY <1>2, KeptPin, KeptNoRequest, KeptTryLoad, KeptHit, KeptSeeBusy,
      KeptReload DEF AcquireStep
<1>3. ASSUME NEW t \in Threads, FindSlotStep(t)
      PROVE  CacheInvariant'
  BY <1>3, KeptSkipSlot, KeptClaimFree, KeptLockSlot, KeptExamine, KeptMark,
      KeptUnmark, KeptClear
     DEF FindSlotStep
<1>4. ASSUME NEW t \in Threads, LoadStep(t) \/ Release(t)
      PROVE  CacheInvariant'
  BY <1>4, KeptRead, KeptPublish, KeptEnable, KeptRelease DEF LoadStep
<1>5. ASSUME NEW b \in Blocks, BlockStep(b)
      PROVE  CacheInvariant'
  BY <1>5, KeptCopyRecords, KeptNextTile DEF BlockStep
<1> QED
  BY <1>1, <1>2, <1>3, <1>4, <1>5 DEF Next, ThreadStep

(* No two threads keep one page busy or hold one slot locked, and the      *)
(* other parts of the invariant, at any time.                              *)
THEOREM CacheInvariantHolds ==
  ASSUME PageCount <= AddressSpan
  PROVE  Spec => []CacheInvariant
<1>1. CacheInvariant /\ [Next]_vars => CacheInvariant'
  BY InvariantKept
<1> QED
  BY InitInvariant, <1>1, PTL DEF Spec

(* Pins, bits, slots and places of the cache never leave their types.      *)
THEOREM CacheTypes ==
  ASSUME PageCount <= AddressSpan
  PROVE  Spec => []TypeOK
<1>1. CacheInvariant => TypeOK
  BY DEF CacheInvariant
<1> QED
  BY CacheInvariantHolds, <1>1, PTL

(* The memory a thread reads between its two barriers has the page it      *)
(* asked for, whatever the other threads load, evict or load twice.        *)
THEOREM PinnedStaysInSlot ==
  ASSUME PageCount <= AddressSpan
  PROVE  Spec => []PinnedPageStable
<1>1. CacheInvariant => PinnedPageStable
  BY DEF CacheInvariant, HeldSlot, PinnedPageStable
<1> QED
  BY CacheInvariantHolds, <1>1, PTL

(* A page that is VALID is in the slot at its offset: a hit never returns  *)
(* another page.                                                           *)
THEOREM ValidStaysCached ==
  ASSUME PageCount <= AddressSpan
  PROVE  Spec => []ValidIsCached
<1>1. CacheInvariant => ValidIsCached
  BY OwnAddress DEF CacheInvariant, ValidCached, Cached, InSlot, ValidIsCached
<1> QED
  BY CacheInvariantHolds, <1>1, PTL
=============================================================================
