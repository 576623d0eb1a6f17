----------------------------- MODULE SharedCache -----------------------------
(***************************************************************************)
(* One page cache that several files of the device are read through in     *)
(* turn.                                                                   *)
(*                                                                         *)
(* The pages of the SSD hold the payloads of the index files, put there by *)
(* the tools topoanns_bam_write_vectors, _topology and _combined_nodes,    *)
(* each by one call of WriteFilePayloadToBam                               *)
(* (src/io/bam_vector_provider.cu).  The payload goes out in chunks as     *)
(* long as the page cache, whose pages are all written every time: behind  *)
(* the end of the payload the last chunk leaves zeros, on pages that may   *)
(* be another file's.                                                      *)
(*                                                                         *)
(* BamVectorPageProvider as an owner without a range of its own, the       *)
(* providers it makes for a file, and the range table of third_party/bam   *)
(* (page_cache.h): a provider has an array of page states on the GPU; the  *)
(* table maps a range number to that array; a slot of the cache knows the  *)
(* page in it as a range number and a page.  PageCache has the steps of    *)
(* one access; here an access is one step, and the question is what the    *)
(* numbers mean once other files took them over.                           *)
(***************************************************************************)
EXTENDS Naturals, Sequences

CONSTANTS
  Files,         \* files whose payloads are on the device
  FilePages,     \* pages of a payload
  DeviceStart,   \* device_offset_bytes of a file, in pages
  DevicePages,   \* pages of the device
  ChunkPages,    \* page_cache_bytes of the write tools, in pages
  Zeros          \* a page of zeros

ASSUME DeviceImageAssumption ==
  /\ FilePages \in [Files -> Nat \ {0}] /\ DeviceStart \in [Files -> Nat]
  /\ DevicePages \in Nat /\ ChunkPages \in Nat \ {0} /\ Zeros \notin Files \X Nat

VARIABLES
  image,     \* per page: a page of a file, or zeros
  unwritten, \* the files the tools are still to be run for, in order
  written    \* written_bytes of the first of them, in pages

imagevars == <<image, unwritten, written>>

Device == 0 .. DevicePages - 1

InitImage(order) ==
  /\ image = [d \in Device |-> Zeros]
  /\ unwritten = order /\ written = 0

(* What the cache holds at i when the chunk is written.                    *)
Payload(f, i) == IF written + i < FilePages[f] THEN <<f, written + i>> ELSE Zeros

ChunkOf(f) ==
  LET first == DeviceStart[f] + written
  IN  [d \in {e \in Device : e >= first /\ e < first + ChunkPages} |-> Payload(f, d - first)]

WriteChunk ==
  /\ unwritten # <<>>
  /\ LET f == Head(unwritten)
         chunk == ChunkOf(f)
         end == written + ChunkPages >= FilePages[f]
     IN  /\ image' = [d \in Device |-> IF d \in DOMAIN chunk THEN chunk[d] ELSE image[d]]
         /\ unwritten' = IF end THEN Tail(unwritten) ELSE unwritten
         /\ written' = IF end THEN 0 ELSE written + ChunkPages

(* A tool that fails leaves the chunks before; it is run again.            *)
WriteFails ==
  /\ unwritten # <<>> /\ written' = 0
  /\ UNCHANGED <<image, unwritten>>
-----------------------------------------------------------------------------
CONSTANTS
  MaxRanges,          \* max_ranges
  SlotCount,          \* n_pages of the cache
  FreshTranslations   \* what new cache_page_t[np] may hold in page_translation

ASSUME SharedCacheAssumption ==
  /\ MaxRanges \in Nat \ {0} /\ SlotCount \in Nat \ {0}
  /\ FreshTranslations # {}

Ranges    == 0 .. MaxRanges - 1
Slots     == 0 .. SlotCount - 1
NoBuffer  == 0     \* nullptr in the range table
NotCached == SlotCount
Freed     == <<>>  \* page states that were given back

VARIABLES
  buffers,   \* the arrays of page states made so far: per page, its slot if VALID
  ranges,    \* the range table: which array a range number means
  n_ranges,  \* pdt.n_ranges
  slots,     \* per slot: taken, page_translation, and the device page in its memory
  ticket     \* page_ticket, modulo n_pages

cache == <<buffers, ranges, n_ranges, slots, ticket>>

InitCache ==
  /\ buffers = <<>>
  /\ ranges = [r \in Ranges |-> NoBuffer]
  /\ n_ranges = 0
  /\ slots \in [Slots -> {[taken |-> FALSE, range |-> x[1], page |-> x[2], device |-> 0] :
                          x \in FreshTranslations}]
  /\ ticket = 0
-----------------------------------------------------------------------------
(* CreateFileRangeProvider: a range_t with fresh page states, which        *)
(* add_range enters at the next number; i counts the providers of a step.  *)
(* Nothing compares the number with max_ranges: beyond it the write is not *)
(* to the table.                                                           *)
Provider(file, i) ==
  [file |-> file, range |-> n_ranges + i - 1, buffer |-> Len(buffers) + i]

AddRanges(files) ==
  LET fresh(i) == [p \in 0 .. FilePages[files[i]] - 1 |-> NotCached]
  IN  /\ buffers' = buffers \o [i \in DOMAIN files |-> fresh(i)]
      /\ ranges' = [r \in Ranges |->
                      IF r >= n_ranges /\ r < n_ranges + Len(files)
                      THEN Len(buffers) + 1 + r - n_ranges ELSE ranges[r]]
      /\ n_ranges' = n_ranges + Len(files)
      /\ UNCHANGED <<slots, ticket>>

(* The providers that went away take their page states with them.          *)
ReleaseAllBut(held) ==
  /\ buffers' = [b \in DOMAIN buffers |-> IF b \in held THEN buffers[b] ELSE Freed]
  /\ UNCHANGED <<ranges, n_ranges, slots, ticket>>
-----------------------------------------------------------------------------
(* An access of a page: a hit, or a slot by ticket, the eviction of the    *)
(* page its translation names, and a read of the device.                   *)
Cached(provider, p) == buffers[provider.buffer][p] # NotCached

Delivered(provider, p) ==
  IF Cached(provider, p) THEN slots[buffers[provider.buffer][p]].device
  ELSE DeviceStart[provider.file] + p

Alive(slot) ==
  LET b == ranges[slot.range] IN b # NoBuffer /\ slot.page \in DOMAIN buffers[b]

Evicted ==
  LET old == slots[ticket]
  IN  IF old.taken /\ Alive(old)
      THEN [buffers EXCEPT ![ranges[old.range]][old.page] = NotCached] ELSE buffers

Access(provider, p) ==
  IF Cached(provider, p) THEN UNCHANGED cache
  ELSE /\ buffers' = [Evicted EXCEPT ![provider.buffer][p] = ticket]
       /\ slots' = [slots EXCEPT ![ticket] =
                      [taken |-> TRUE, range |-> provider.range, page |-> p,
                       device |-> DeviceStart[provider.file] + p]]
       /\ ticket' = (ticket + 1) % SlotCount
       /\ UNCHANGED <<ranges, n_ranges>>
-----------------------------------------------------------------------------
(* ResetDevicePageCacheRanges.                                             *)
EmptySlot == [taken |-> FALSE, range |-> 0, page |-> 0, device |-> 0]

ResetKeepingSlots ==
  /\ ranges' = [r \in Ranges |-> NoBuffer]
  /\ n_ranges' = 0
  /\ ticket' = 0
  /\ UNCHANGED <<buffers, slots>>

ResetRanges ==
  /\ slots' = [s \in Slots |-> [EmptySlot EXCEPT !.device = slots[s].device]]
  /\ ticket' = 0
  /\ ranges' = [r \in Ranges |-> NoBuffer]
  /\ n_ranges' = 0
  /\ UNCHANGED buffers
=============================================================================
