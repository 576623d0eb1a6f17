------------------------------ MODULE PageCache ------------------------------
(***************************************************************************)
(* The page cache of the GPU-initiated reads (third_party/bam, page_cache.h *)
(* as topology_microbatch_io and the fused kernels use it): every thread   *)
(* of a block pins the page of its request, the block meets at a barrier,  *)
(* uses the pages, meets again and unpins them.  The cache is only read:   *)
(* no page is ever dirty.                                                  *)
(*                                                                         *)
(* The state word of a page has a count of pins and the bits VALID and     *)
(* BUSY; a step of a thread is one atomic operation on such a word, or the *)
(* plain accesses that follow it.  A thread stands for the lanes of a warp *)
(* that ask for the same page: coalesce_page makes one of them act for all.*)
(***************************************************************************)
EXTENDS Naturals, FiniteSets

CONSTANTS
  PageCount,    \* pages of the range
  SlotCount,    \* n_pages of the cache
  AddressSpan,  \* page numbers a 32-bit global address tells apart
  Threads,
  Block,        \* block of each thread
  Tiles         \* tiles each block goes through

Blocks == {Block[t] : t \in Threads}

ASSUME CacheAssumption ==
  /\ PageCount \in Nat \ {0} /\ SlotCount \in Nat \ {0}
  /\ AddressSpan \in Nat \ {0} /\ Tiles \in [Blocks -> Nat]
  /\ IsFiniteSet(Threads)

Pages   == 0 .. PageCount - 1
Slots   == 0 .. SlotCount - 1
NoPage  == PageCount
NoSlot  == SlotCount
MembersOf(b) == {t \in Threads : Block[t] = b}

VARIABLES
  count,    \* per page: the pins in its state word
  valid,    \* per page: VALID
  busy,     \* per page: BUSY
  offset,   \* per page: the slot that holds it
  lock,     \* per slot: page_take_lock
  owner,    \* per slot: page_translation
  content,  \* per slot: the page that was read into its memory
  ticket,   \* page_ticket, modulo n_pages
  pc,       \* per thread: where it is
  page,     \* per thread: the page of its request
  word,     \* per thread: VALID and BUSY in read_state
  slot,     \* per thread: the slot it got, or looks at in find_slot
  tile      \* per block: tiles done

state  == <<count, valid, busy, offset>>
cache  == <<lock, owner, content, ticket>>
thread == <<pc, page, word, slot>>
vars   == <<state, cache, thread, tile>>

WordOf(p) == [valid |-> valid[p], busy |-> busy[p]]

Goto(t, place) == pc' = [pc EXCEPT ![t] = place]
-----------------------------------------------------------------------------
(* acquire_page.                                                           *)
Pin(t) ==
  /\ pc[t] = "request" /\ tile[Block[t]] < Tiles[Block[t]]
  /\ \E p \in Pages :
       /\ page' = [page EXCEPT ![t] = p]
       /\ word' = [word EXCEPT ![t] = WordOf(p)]
       /\ count' = [count EXCEPT ![p] = @ + 1]
  /\ Goto(t, "inspect")
  /\ UNCHANGED <<valid, busy, offset, cache, slot, tile>>

NoRequest(t) ==
  /\ pc[t] = "request" /\ tile[Block[t]] < Tiles[Block[t]]
  /\ page' = [page EXCEPT ![t] = NoPage]
  /\ Goto(t, "held")
  /\ UNCHANGED <<state, cache, word, slot, tile>>

(* NV_NB: set BUSY; whoever finds it clear loads the page, whatever has    *)
(* happened to the page since read_state was read.                         *)
TryLoad(t) ==
  /\ pc[t] = "inspect" /\ ~word[t].valid /\ ~word[t].busy
  /\ busy' = [busy EXCEPT ![page[t]] = TRUE]
  /\ Goto(t, IF busy[page[t]] THEN "reload" ELSE "find")
  /\ UNCHANGED <<count, valid, offset, cache, page, word, slot, tile>>

(* V_NB: the page is in the slot at its offset.                            *)
Hit(t) ==
  /\ pc[t] = "inspect" /\ word[t].valid /\ ~word[t].busy
  /\ slot' = [slot EXCEPT ![t] = offset[page[t]]]
  /\ Goto(t, "held")
  /\ UNCHANGED <<state, cache, page, word, tile>>

SeeBusy(t) ==
  /\ pc[t] = "inspect" /\ word[t].busy
  /\ Goto(t, "reload")
  /\ UNCHANGED <<state, cache, page, word, slot, tile>>

RetryWithoutReload(t) ==
  /\ pc[t] = "reload"
  /\ Goto(t, "inspect")
  /\ UNCHANGED <<state, cache, page, word, slot, tile>>

Reload(t) ==
  /\ pc[t] = "reload"
  /\ word' = [word EXCEPT ![t] = WordOf(page[t])]
  /\ Goto(t, "inspect")
  /\ UNCHANGED <<state, cache, page, slot, tile>>
-----------------------------------------------------------------------------
(* find_slot.  The page of a slot is known by its address, which is cut to *)
(* 32 bits.                                                                *)
Address(p) == p % AddressSpan

TakeTicket(t) == slot' = [slot EXCEPT ![t] = ticket]

NextTicket == ticket' = (ticket + 1) % SlotCount

(* The page in the taken slot is looked up with a plain load first.        *)
SkipSlot(t) ==
  /\ pc[t] = "find" /\ lock[ticket] = "locked"
  /\ NextTicket
  /\ UNCHANGED <<state, lock, owner, content, thread, tile>>

ClaimFree(t) ==
  /\ pc[t] = "find" /\ lock[ticket] = "free"
  /\ TakeTicket(t) /\ NextTicket
  /\ owner' = [owner EXCEPT ![ticket] = Address(page[t])]
  /\ lock' = [lock EXCEPT ![ticket] = "unlocked"]
  /\ Goto(t, "read")
  /\ UNCHANGED <<state, content, page, word, tile>>

LockSlot(t) ==
  /\ pc[t] = "find" /\ lock[ticket] = "unlocked"
  /\ TakeTicket(t) /\ NextTicket
  /\ lock' = [lock EXCEPT ![ticket] = "locked"]
  /\ Goto(t, "examine")
  /\ UNCHANGED <<state, owner, content, page, word, tile>>

Previous(t) == owner[slot[t]]

Unlock(t) == lock' = [lock EXCEPT ![slot[t]] = "unlocked"]

Examine(t) ==
  /\ pc[t] = "examine"
  /\ IF count[Previous(t)] = 0 /\ ~busy[Previous(t)]
     THEN Goto(t, "mark") /\ UNCHANGED lock
     ELSE Goto(t, "find") /\ Unlock(t)
  /\ UNCHANGED <<state, owner, content, ticket, page, word, slot, tile>>

PinnedUnchecked(p) == FALSE
Pinned(p) == count[p] # 0

Mark(t) ==
  /\ pc[t] = "mark"
  /\ busy' = [busy EXCEPT ![Previous(t)] = TRUE]
  /\ IF busy[Previous(t)]
     THEN Goto(t, "find") /\ Unlock(t)
     ELSE Goto(t, IF Pinned(Previous(t)) THEN "unmark" ELSE "clear") /\ UNCHANGED lock
  /\ UNCHANGED <<count, valid, offset, owner, content, ticket, page, word, slot, tile>>

Unmark(t) ==
  /\ pc[t] = "unmark"
  /\ busy' = [busy EXCEPT ![Previous(t)] = FALSE]
  /\ Unlock(t)
  /\ Goto(t, "find")
  /\ UNCHANGED <<count, valid, offset, owner, content, ticket, page, word, slot, tile>>

ClearKeepingValid(t) ==
  /\ pc[t] = "clear"
  /\ busy' = [busy EXCEPT ![Previous(t)] = FALSE]
  /\ owner' = [owner EXCEPT ![slot[t]] = Address(page[t])]
  /\ Unlock(t)
  /\ Goto(t, "read")
  /\ UNCHANGED <<count, valid, offset, content, ticket, page, word, slot, tile>>

Clear(t) ==
  /\ pc[t] = "clear"
  /\ valid' = [valid EXCEPT ![Previous(t)] = FALSE]
  /\ busy' = [busy EXCEPT ![Previous(t)] = FALSE]
  /\ owner' = [owner EXCEPT ![slot[t]] = Address(page[t])]
  /\ Unlock(t)
  /\ Goto(t, "read")
  /\ UNCHANGED <<count, offset, content, ticket, page, word, slot, tile>>
-----------------------------------------------------------------------------
(* read_data, the offset, and the exchange of BUSY for VALID, which is an  *)
(* exclusive or.                                                           *)
Read(t) ==
  /\ pc[t] = "read"
  /\ content' = [content EXCEPT ![slot[t]] = page[t]]
  /\ Goto(t, "publish")
  /\ UNCHANGED <<state, lock, owner, ticket, page, word, slot, tile>>

Publish(t) ==
  /\ pc[t] = "publish"
  /\ offset' = [offset EXCEPT ![page[t]] = slot[t]]
  /\ Goto(t, "enable")
  /\ UNCHANGED <<count, valid, busy, cache, page, word, slot, tile>>

Enable(t) ==
  /\ pc[t] = "enable"
  /\ valid' = [valid EXCEPT ![page[t]] = ~@]
  /\ busy' = [busy EXCEPT ![page[t]] = ~@]
  /\ Goto(t, "held")
  /\ UNCHANGED <<count, offset, cache, page, word, slot, tile>>

(* The two barriers of a tile, and release_page between them.              *)
AllAt(b, place) == \A t \in MembersOf(b) : pc[t] = place

CopyRecords(b) ==
  /\ AllAt(b, "held")
  /\ pc' = [t \in Threads |-> IF Block[t] = b THEN "copied" ELSE pc[t]]
  /\ UNCHANGED <<state, cache, page, word, slot, tile>>

Release(t) ==
  /\ pc[t] = "copied"
  /\ count' = IF page[t] = NoPage THEN count ELSE [count EXCEPT ![page[t]] = @ - 1]
  /\ page' = [page EXCEPT ![t] = NoPage]
  /\ slot' = [slot EXCEPT ![t] = NoSlot]
  /\ word' = [word EXCEPT ![t] = [valid |-> FALSE, busy |-> FALSE]]
  /\ Goto(t, "tiled")
  /\ UNCHANGED <<valid, busy, offset, cache, tile>>

NextTile(b) ==
  /\ AllAt(b, "tiled")
  /\ pc' = [t \in Threads |-> IF Block[t] = b THEN "request" ELSE pc[t]]
  /\ tile' = [tile EXCEPT ![b] = @ + 1]
  /\ UNCHANGED <<state, cache, page, word, slot>>
-----------------------------------------------------------------------------
Init ==
  /\ count = [p \in Pages |-> 0]
  /\ valid = [p \in Pages |-> FALSE] /\ busy = [p \in Pages |-> FALSE]
  /\ offset = [p \in Pages |-> 0]
  /\ lock = [s \in Slots |-> "free"]
  /\ owner = [s \in Slots |-> 0]
  /\ content = [s \in Slots |-> NoPage]
  /\ ticket = 0
  /\ pc = [t \in Threads |-> "request"]
  /\ page = [t \in Threads |-> NoPage]
  /\ word = [t \in Threads |-> [valid |-> FALSE, busy |-> FALSE]]
  /\ slot = [t \in Threads |-> NoSlot]
  /\ tile = [b \in Blocks |-> 0]

AcquireStep(t) ==
  \/ Pin(t) \/ NoRequest(t) \/ TryLoad(t) \/ Hit(t) \/ SeeBusy(t) \/ Reload(t)

FindSlotStep(t) ==
  \/ SkipSlot(t) \/ ClaimFree(t) \/ LockSlot(t) \/ Examine(t)
  \/ Mark(t) \/ Unmark(t) \/ Clear(t)

LoadStep(t) == Read(t) \/ Publish(t) \/ Enable(t)

ThreadStep(t) == AcquireStep(t) \/ FindSlotStep(t) \/ LoadStep(t) \/ Release(t)

BlockStep(b) == CopyRecords(b) \/ NextTile(b)

Next == (\E t \in Threads : ThreadStep(t)) \/ (\E b \in Blocks : BlockStep(b))

(* Threads of a launched block are scheduled independently and fairly.     *)
Fairness ==
  /\ \A t \in Threads : WF_vars(ThreadStep(t))
  /\ \A b \in Blocks : WF_vars(BlockStep(b))

Spec == Init /\ [][Next]_vars /\ Fairness
-----------------------------------------------------------------------------
(* A thread that holds a page has pinned it, and the slot it was given     *)
(* keeps the page until it releases it, whatever other threads load, evict *)
(* or load for a second time.                                              *)
Holds(t) == pc[t] \in {"held", "copied"} /\ page[t] # NoPage

PinnedPageStable == \A t \in Threads : Holds(t) => content[slot[t]] = page[t]

(* A page that is VALID is in the slot at its offset, and the slot knows   *)
(* it: a hit never returns another page.                                   *)
ValidIsCached ==
  \A p \in Pages : valid[p] =>
    offset[p] \in Slots /\ content[offset[p]] = p /\ owner[offset[p]] = Address(p)

(* The exclusive or that ends a load leaves the page valid and not busy,   *)
(* as the name of its operand, DISABLE_BUSY_ENABLE_VALID, says.            *)
LoadEnablesPage ==
  [][ \A t \in Threads : pc[t] = "enable" /\ pc'[t] = "held" =>
        valid'[page[t]] /\ ~busy'[page[t]] ]_vars

(* Every block gets through its tiles unless every slot of the cache keeps  *)
(* a pinned page for ever: a thread that looks for a slot is not passed by  *)
(* the others, nor left waiting for a load that has ended, while one slot   *)
(* can be had.  The pins last for ever when the threads of one block need   *)
(* more slots than there are, since a block releases nothing before all its *)
(* threads hold their pages, or when the page of a pin has been loaded twice*)
(* and the copies fill the slots.                                           *)
Exhausted == \A s \in Slots : lock[s] # "free" /\ Pinned(owner[s])

EveryTileServed == \A b \in Blocks : <>(tile[b] = Tiles[b]) \/ <>[]Exhausted
=============================================================================
