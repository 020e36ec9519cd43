# Verification of the TuyaOS adapter of the T2 board

The repository ports TuyaOS to the T2, a module with a Beken chip. `src/beken_os` and `src/tools` are
the chip vendor's SDK and build; the repository's own logic is the adapter,
`src/tuyaos/tuyaos_adapter`: the `tkl_*` interface that TuyaOS calls
(`src/tkl_*.c`, `src/net.c`) and the utilities it is shipped with
(`include/utilities/src/tuya_*.c`). This directory holds TLA+ models of the
parts of the adapter that keep state, TLC runs that check them on small
instances, and TLAPS proofs for every size.

Paths below are relative to `src/tuyaos/tuyaos_adapter`, utilities to
`include/utilities/src`.

## 1. Inventory

| Component | State | Operations | What is hard | What makes it correct |
|---|---|---|---|---|
| Ring buffer, `tuya_ringbuf.c` | `in`, `out`, the bytes | create, reset, write, read, peek, used/free size | no lock: an interrupt may run in the middle of the other side's call; a wrapped index is stored in two steps | bytes come out once, in order; unread ones are never overwritten |
| Heap, `tuya_mem_heap.c` | up to `MEM_HEAP_LIST_NUM` heaps, free lists, tags, counters | create, delete, malloc, free, realloc (with and without a handle, plain and debug), diagnose | any order of calls; realloc is several critical sections; the diagnosis leaves its critical section while it walks | blocks tile the heap, free ones are merged, nothing is handed out twice |
| Queue, `tuya_queue.c` | list, `queue_free`, mutex | create, input, instant, output, peek, traverse, clear, get/delete batch, counts, release | threads; a batch takes the mutex once per item; counts are read without it | places and items add up; the queue is a bounded deque |
| Hash map, `tuya_hashmap.c` and `tuya_hlist.h` | buckets of linked elements, `size` | new, put, get, traverse, remove, length, free | collisions, several elements of one key, changes during a traversal | it is a multimap; its length is exact; a traversal shows everything once |
| Smart pointer, `tuya_smartpointer.c` | `rfc`, mutex, data | create, get, put, del | count under the lock, release outside it | released once, by the last |
| List, tools | lists, none | link, unlink; conversions | - | - |
| OTA upgrade, `src/tkl_ota.c` | `ug_proc`, the first block in RAM, the OTA area of the flash | start, data, end | power fails anywhere; packs of any length; damaged data | the header is on the flash only over a whole image |
| Flash, `src/tkl_flash.c` | the chip's write protection, mutex | read, write, erase, set_protect | the protection is switched without the mutex; the chip ignores commands silently | no command of the upgrade is ignored |
| Wi-Fi scan, `src/tkl_wifi.c:84-453`, with `src/tkl_semaphore.c` | `scanHandle`, its semaphore | scan_ap, scan_cb | threads, the callback of the supplicant, a timeout racing a late completion | scans exclude each other, return, and answer for their own scan |
| Wi-Fi station, `src/tkl_wifi.c`, and below it `wlan_ui.c`, `rw_msg_rx.c`, `ctrl_iface.c`, `main_supplicant.c`, `hostapd_intf.c` of the SDK | work mode, two statuses, the status last reported, the supplicant's state, `wpah_queue`, a pending signal | connect, fast connect, set mode, stop AP; the supplicant's commands; the firmware's indications | four threads set and report the status; signals overtake messages; a call may come at any moment of a join or a loss | a station that is connected has an interface that is configured, and the application was told |
| Network interfaces, `src/net.c`, `src/tkl_lwip.c` | `sta_ip_start_flag`, the interface, its callback, DHCP | `sta_ip_start`, `sta_ip_down`, configure, add, remove | called by two threads with a flag and no lock, over a third (tcpip) | flag, interface and connection agree once all is quiet |
| Soft AP, sniffer, low power, rest of `src/tkl_wifi.c` | callbacks, flags | one call each | - | - |
| ADC, `src/tkl_adc.c` over `saradc.c` and `drv_model.c` | one static descriptor and buffer, `use_cnt` of the device | init, read a channel, read all | an interrupt fills the buffer; threads share the descriptor; the size in it is changed for the time of a median | a read gets its own samples, and ends |
| Threads, mutexes, semaphores, queues, timers | handles of FreeRTOS | one call each | - | wrappers; `tkl_mutex_trylock` (`src/tkl_mutex.c:88`) answers success and locks nothing |
| Other peripherals, sleep, watchdog, HCI, init tables | registers, flags | one call each | - | - |

Interactions. The upgrade writes through `tkl_flash_write` and
`tkl_flash_erase` and switches the protection itself with
`tkl_flash_set_protect`; `TklFlash` has the upgrade as one of its threads,
`TklOta` has the flash as cells that commands erase and program. A scan meets
the supplicant's task at a FreeRTOS semaphore. The station is four threads: the
application's, which sends commands to the supplicant's and waits; the
supplicant's, which calls into `net.c`, hence into tcpip; the receiver of the
firmware's messages, which posts messages and signals to the supplicant; tcpip,
whose callback sets the status. `Station` composes them. The utilities are called by
TuyaOS and rest on the `tkl_*` mutexes and `enter_critical`.

The hazards (`PROJECT.json`, "hazards") list, by line, what of this a test
would hardly reach; the properties are chosen for them.

## 2. Plan

1. (done) The data structures shared between threads and interrupts, and the
   upgrade: `RingBuf`, `MemHeap` + `MemHeapDiag`, `TklOta`, `TklFlash`,
   `TuyaQueue`, `HashMap`, `WifiScan`, with the abstract specifications
   `ByteFifo`, `Allocator`, `BoundedDeque`, `MultiMap`.
2. (done) The Wi-Fi station with its network interface: `StationStatus`,
   `NetSta`, and `Station`, which composes them with the supplicant's thread and
   the firmware. The smart pointer: `SmartPointer`. The converter: `TklAdc`.
3. (done) Proofs of every safety property that a passing run checks, and that
   ring, heap, queue and hash map implement their abstract specifications
   (section 5).
4. Static addresses and the soft AP's interface, if the adapter comes to use
   them; monitor mode beside the station.

The four abstract specifications say what a component promises; a `PROPERTY`
of the component's run, and a theorem, says it implements them.
Where a module is to be proved about, it has no RECURSIVE operator.

## 3. The modules

### RingBuf (implements ByteFifo)
`in`, `out` and `buff` are the fields of the ring; a writer and a reader step
through `tuya_ring_buff_write` and `_read` one store at a time (`WriteCopy`,
`WriteAdvance`, `WriteCopyRest`, `WriteAdvanceRest`, `WriteWrap`, the same for
the reader), so that the index equal to `len` between two stores is visible.
`Preempts` says which side may run in the middle of the other's call: neither
(callers that lock), the writer (a UART interrupt and a reading task), the
reader, or both. The k-th byte ever written has value k. Reset is the reader's.
The run and the theorems are for a writer that interrupts: there the interesting
states are those with `out` one past the end, and the window of a reset. A reader
that interrupts sees `in` one past the end, and stale bytes with it (section 4,
"What is not true").

### MemHeap (implements Allocator) and MemHeapDiag
One action is one critical section. A heap is a function from the addresses of
its free blocks to their sizes; `used` are the blocks in use, `dog` the tag byte
at the end of each block. Allocation walks the first `FitDepth` fitting blocks
(`MEM_Allocate`), splits, and moves the tag; a free merges with both neighbours
(`MEM_Deallocate`). A realloc is three sections: allocate, copy, free. Sizes and
addresses wrap at `WordMod`. `MemHeapDiag` adds a thread that walks a heap
(`MEM_HeapStatus`) and leaves the critical section each time it logs a block.
The callers free what they own, once; a misuse outside that is not modelled.

### TklOta
A cell of the flash is what one program command writes. Each call computes the
erase and program commands it issues (`pend`); they happen one at a time and the
power may fail between any two, after which the RAM state is gone. The caller
feeds one image after the other in packs of any length, damaged or not, and may
end or restart an upgrade at any time. The checksum tells a damaged image from
an intact one. An image shorter than a block is among them: the subtraction at
line 189 wraps, every pack of it counts as too short (`BeforeLastBlock`,
`TooShort`), and the upgrade waits for the rest until it is started anew or ended.

### TklFlash
The threads that call `tkl_flash_write` and `tkl_flash_erase`, and the upgrade
that also calls `tkl_flash_set_protect` outside the mutex. A call is: lock, read
the protection, unprotect, commands, (erase) read it again and protect, unlock.

### TuyaQueue (implements BoundedDeque)
Each operation takes the mutex, changes the list, changes `queue_free`, and
releases the mutex, one action each. `tuya_queue_delete_batch` takes the mutex
once per item, `tuya_queue_get_free_num` never. The queue is released only when
no thread is inside a call.

### HashMap (implements MultiMap)
The pointers of the buckets are kept: `first`, `next`, and `pprev`, which names
the bucket or the element whose pointer points here. The hash of each key is any
number, chosen at the start; the bucket is its remainder. `iter` is a traversal
and `due` what it still has to show. Calls do not overlap (the map has no lock),
and nobody removes the element an iterator is at: the next step would read its
freed memory. `RemovesAnything` is FALSE for callers that remove only what is in
the map, or whose bucket is empty.

### WifiScan
The steps of `tkl_wifi_scan_ap` (those of `tkl_wifi_all_ap_scan` are the same,
but for the driver call): test, create the semaphore, register and start, wait,
release, clear, fetch. Each step reads the static `scanHandle` anew, as the code
does. `Complete` is scan_cb's test and `Post` its post, of the handle it read or
of what the static holds by then, since the compiler may read it twice. The
supplicant serves every request it has accepted with one completion, may drop a
scan without a word, and in monitor mode accepts without scanning. Where two
calls overlap, a handle may be released twice or waited on after its release;
the model keeps going, and the properties are about what came before.
`tkl_semaphore_post` takes its argument for a pointer to a handle; that works
because the first word of a FreeRTOS semaphore points to itself, and the model
has a post reach the semaphore it is given.

### SmartPointer
A process is a reference. `get` and `put` are lock, load, store and unlock of the
count; the last `put`, and `del`, release the mutex, the data and the block, a
step each, outside the lock. The creation of the mutex may fail, which nothing in
the code notices: every lock then fails at once and the steps interleave freely.
`malk` is the field, which stays 0, and `inside` whether the data really lies in
the pointer's own block. The callers keep to the interface (a call is made with a
reference that has not been put; `del` when no other call is under way).

### TklAdc
`desc` is `adc_desc`, `use_cnt` and `sampling` are the driver's. A call sets the
channel, clears the buffer, opens the device in a section without interrupts,
waits for the count, closes, and for a size of one finds the median with the
heap of `MinHeapInsert` and `MinHeapReplace` and averages what is near it
(`NearTotal`). The interrupt stores one sample per step. `overlap` records that two calls were under
way at once: what then happens is in the model (a wait without end, a division by
zero, a loop that does not end), and the properties are about the calls before.
`Refused` is what a `tkl_adc_init` with an unknown mode leaves: no channels and no
samples. The test of `len` in `tkl_adc_read_data` is not a step: the call goes on,
and the result of a read overwrites the error.

### StationStatus, NetSta and Station
A thread is the sequence of steps it still has to take (`todo`); an action takes
the first step of one thread, and a test puts the steps it leads to in its place.
`StationStatus` is `rw_msg_rx.c`: the transient and the abnormal status, stored
without interrupts and reported after them, and `connect_status`, which the
adapter's callback keeps of it. `NetSta` is `net.c` for the station: the flag, the
interface, its callback and DHCP; the calls of netifapi run in tcpip while their
caller waits. `Station` adds the application's calls, the commands of
`ctrl_iface.c` in the supplicant's thread (`DISCONNECT`, `ENABLE`, `DISABLE`,
`CONNECT` for SELECT_NETWORK), its scans and joins, the signal that the receiver
sets, which `eloop_run` handles before the message it has popped, and the
firmware's indications. Of the supplicant's own state machine, third-party code,
`wpa` keeps whether it is off, disconnected, scanning, associating, associated (and
waiting for its keys) or completed, and `disconnected` whether it may look for a
network. It takes the indication of a connection in whatever state it is
(`wpa_supplicant_event_assoc`): one that comes when it has given its network up may
find the old network ("associated", or "completed" if that has no keys), none
("astray") or an unknown one (it deauthenticates). `AuthTimeout` is the timer of an
association or a handshake that does not come to an end.

Of the firmware the model assumes that it serves requests in the order they are
made, and that what it says of them goes through the receiver's queue in the order
it happens: the end of a link that it was told to leave comes behind what it said of
the link before, and the end of a scan behind the end of the link that was left
before the scan. A link is lost, a join fails, and a scan finds something or not as it likes.

## 4. The runs

| Run | Checks | Shows |
|---|---|---|
| ringbuf | ReadsInOrder, RoomExact, ImplementsFifo | a writer in an interrupt never loses, repeats or overwrites a byte, and uses all the room there is, also between the two stores of a wrapping read |
| memheap | GrantFits, Tiling, FullyCoalesced, TagsAgree, CountsAgree, LostBehindGap, ImplementsAllocator, QuietWalkSound | the heaps stay whole under every order of calls, with heaps created and deleted and calls without a handle; a block is lost to its owner only behind a deleted heap; a diagnosis that no thread disturbs while it logs finds a sound heap sound |
| ota | HeaderMeansWhole, ProgramsErased, OkMeansInstalled, UndamagedVerifies, ReceptionEnds | whatever is sent and wherever power fails, the boot loader never finds the header of a partial image, but when the last write of an end was cut short; an image of a block or more that is fed to the end is received |
| ota_empty | OkMeansImage (violated) | an end without any image reports success |
| flash | UpgradeNeverIgnored, IgnoredOnlyInRace | commands of the upgrade always take effect; those of others are lost only when the upgrade protects the chip during their call |
| queue | PlacesAddUp, NeverOverfull, FreeNumNearlyRight, DeletedWereRead, ImplementsDeque | the queue is a bounded deque to all its threads |
| hashmap | WellLinked, TraversalExact, ImplementsMultiMap | with careful callers the map is a multimap, and its length is exact |
| hashmap_remove | RemovesWhatIsAsked (violated) | a remove of what is not there takes another element |
| wifi_scan | OneScanOneSemaphore, OkMeansScanned, OverlapOnlyBeforeCreate, EveryCallReturns | scans are serial but for one window, answer for themselves, and return |
| smartptr | NoUseAfterRelease, NoLeak, FreesOnce | with a mutex, the last reference and no other releases the pointer, once |
| adc | ReadsOwnSamples, SizeRestored, ReadReturns | a read that none overlaps gets its own samples or their median's average, restores the size, and ends |
| station | ConnectedMeansConfigured, AddressIsReported, FlagMeansConnected, LossNoticed; no deadlock | whatever overlapped, once the threads are quiet a connected station has a configured interface; one with an address has a link, and was reported |

### Bounds, and why they are enough
- ringbuf: 4 cells, requests up to 4, 12 bytes written: every position of both
  indices, full and empty rings, requests longer than the room, and three turns.
- memheap: two slots, and an area of up to four blocks or, in its place, two areas
  that nearly touch, one of them misaligned; another is too small. The large one
  splits into 32, 12, 12 and 12 bytes, so that a free block meets a free neighbour
  before, behind, on both sides and on none, splits do and do not leave a block,
  and a debug block can vanish into its neighbour while it is logged, so that the
  walk goes on from an address that is no block's. Deletion of the first of the
  two small heaps leaves a gap before a live one.
- ota: images shorter than a block, of one, of whole blocks, with a tail, and too
  large; packs
  of up to 5 cells against blocks of 2 and sectors of 4.
- flash: two threads and the upgrade, calls of one and two commands.
- queue: two threads that call everything, lengths 1 and 2, three items.
- hashmap: two keys with equal and different buckets, three elements: one in
  front of, one behind and one at the iterator. A table of size 0 is refused.
- wifi_scan: two threads and two semaphores. The theorems have any number.
- smartptr: three references: one that gets, one that puts and one that is given
  away in between.
- adc: two threads, two channels, three values of which two are near each other
  and one is not near either of the others' median; the sizes are scaled down
  (a median of 5, a signed char of up to 5, a byte of 16 values), with
  configurations of 0, 2 and 6 samples and of 17, which is 1 in a byte. After an
  overlap the converter measures one value (`Measurable`).
- station: any number of calls, scans, joins, losses and leases, since nothing
  counts them; only the queue to the supplicant is bounded, by 2 (64 in the
  code). The application waits for each command and there is one indication per
  join, of which one at most is under way (`Indicating` in `StationProofs`), so that
  the queue never has to hold more than two; the run has 911,996 states.

`CHECK_DEADLOCK FALSE` is set for the ring, where the bound on the bytes written
ends a behaviour, and for the heaps, whose callers may have nothing left to ask.
It is checked everywhere else: for the station it says that the application, the
supplicant and tcpip never all wait for each other.

### Fairness
`ReceptionEnds` assumes that the commands of a call are executed and that the
caller goes on to feed full packs: an upgrade that nobody feeds stays where it
is, and the code has no timer of its own. `EveryCallReturns` assumes that
FreeRTOS runs a thread that can run, that a started callback finishes, and that
a scan ends, well or not; nothing is assumed of a scan that is never announced,
where the wait of 5000 ms ends the call. With `SlowScans` FALSE the wait is
longer than any scan. With TRUE `OkMeansScanned` fails: the completion of a scan
that timed out wakes the next call. `ScansOwnOneSemaphore` and
`ScansOverlapOnlyBeforeCreate` hold in both cases, `OkMeansOwnScan` is for scans
that end in time.
`ReadReturns` assumes that FreeRTOS runs a thread that can run (the wait is a busy
loop, so of a lower priority than nobody who starves it) and that an enabled
converter converts. The station has safety properties only: nothing in the code
promises that a join succeeds.

### Findings
1. `tuya_hashmap.c:345`: the loop over a bucket leaves `tmp_element` at the last
   element, so that the test for NULL never fails a remove of a key or of data
   that is not there; the last element of the bucket is freed instead, though
   line 321 promises "delete the node match key and data".
2. `tkl_ota.c:329`: `ota_empty`, as in the table; `PROJECT.json` quotes the lines
   it contradicts.

### What is not true
TLC refutes the following statements, which no doc of the repository makes but a
reader might expect:
- Ring: a reader that interrupts a wrapping write sees `in` one past the end. When
  it empties the ring there, `out` wraps to 0 before `in` does, and the used size
  (`tuya_ringbuf.c:124`) is the whole buffer: a second read gets old bytes once
  more. The room of the writer (`RoomExact`) and the order of the bytes are claimed
  for a reader that does not interrupt the writer.
- Upgrade: an image shorter than a block is never received: `bin_len -
  RT_IMG_WR_UNIT` wraps (`tkl_ota.c:189`, `:244`), the pack is refused as too short
  and the tail is never taken. `ReceptionEnds` is about the others.
- Heap: a diagnosis may report "MEM MNG DAMAGED" of a sound heap when a block
  changes hands while it logs (`tuya_mem_heap.c:483`); `QuietWalkSound` is what
  remains true.
- Smart pointer: a pointer whose mutex could not be created (`:55`) may be
  released twice or never; the release of a copy frees an address inside the
  pointer's own block, since `malk` is never stored (`:109`).
- ADC: a second call during a first may leave the first waiting for ever
  (`tkl_adc.c:277`), divide by zero (`:331`), or put back the wrong size (`:293`);
  a size beyond 127 never ends the loop at `:336`.
- Station: `connect_status` may stay GOT_IP after the station was stopped, when
  the link is lost while tcpip's report is under way (reports are made outside
  the lock, `rw_msg_rx.c:433`) or when a connected station is asked to connect
  anew and is stopped before its scan starts (`DISCONNECT` sets no status and
  IDLE is ignored, `tkl_wifi.c:312`). A lost DHCP lease is not reported
  (`net.c:270`). PASSWORD_WRONG and NO_AP_FOUND stay the abnormal status for ever
  (`rw_msg_rx.c:388`) and are reported again at every requested reconnect. A
  `sta_ip_down` in the middle of the supplicant's `sta_ip_start` leaves the
  interface up with the flag 0 until the next connection. The indication of a
  connection that its own end has overtaken (`eloop.c:682`) makes a station of a
  network without keys connected, with an interface that asks for an address in
  vain, until the application disconnects it: `CONNECT` does nothing for it. One
  that waits for keys gives up after ten seconds.

## 5. The proofs

- `InterruptProofs`, the ring: for every length of the buffer, every length of call and a
  reader that does not interrupt the writer. The invariant adds to the wanted
  properties where the two indices are (`CursorInv`), how far apart (`SpanInv`),
  that what a writer is about to copy is free (`RoomInv`) and what a call has
  copied so far (`CopyInv`): none of the properties is inductive alone, since the
  order of the stores of a wrapping call is what keeps the bytes. From it follow
  `RingIsLossless`, `RingRoomIsExact` and, step by step, `RingImplementsFifo`.
- `InterruptProofs`, the converter: for any threads, channels, configurations and
  measured values, and a median of any odd number of samples. `AdcIInv` says that
  the device is open for one waiting call at a time and samples only then
  (`Device`), and, unless calls overlapped, that one call at most is under way
  (`Alone`), which size the shared descriptor has at each point of a call
  (`Sizes`) and that the buffer has the samples of the read so far (`Samples`).
  `SizeIsRestored` follows. `SingleIInv` goes on with the single sample: by
  `InsertHolds` and `ReplaceHolds` the heap stays ordered and neither loses a
  sample nor has one twice, so that its root ends as the median
  (`MedianOfIsMedian`); `MeanIsNear` says that the loop of the average counts one
  sample at least, and that the quotient lies between two that are near. From the
  two follow `ReadsStoreOwnSamples` and that a call is lost only in the loop whose
  index is too small, never in the division (`LostInLongLoop`).
- `TuyaQueueProofs`: for any threads, items and lengths. `IInv` is `TypeOK`,
  `Calls` (what an operation under way relies on) and `Balance` (how far list and
  count differ at each point of the holder's operation). From it follow
  `PlacesAlwaysAddUp`, `QueueNeverOverfull` and `FreeNumIsNearlyRight`.
  `QueueImplementsDeque` maps every step to one operation of the deque: an
  operation takes effect when it changes the list, but a clear when it gets the
  mutex, since it takes items away one at a time and nobody sees those in between.
  `DeletedItemsWereRead` needs an invariant of its own, `Batches`: what a thread
  has read is in front in each state of the other threads' calls, and one item
  shorter between the two steps of a deletion.
- `WifiScanProofs`: for any number of threads and semaphores. `IInv` adds to
  `OneScanOneSemaphore` that `scanHandle` is NULL when no call is busy, and not
  NULL until a call clears it: that is what makes the test a lock, all but the
  window before the creation. From it follow `ScansOwnOneSemaphore` and
  `ScansOverlapOnlyBeforeCreate`. `OkMeansOwnScan` has the hypothesis `~SlowScans`
  (see Fairness: without it the statement is false) and the invariant `Honest`:
  a post, made or under way, belongs to the scan of the call that waits for it.
- `SmartPointerProofs`: for any finite set of references that fits the count. The
  invariant, for a pointer that has its mutex, is that `rfc` is the number of
  references there are, more or less the change that the holder of the mutex has
  loaded and not stored (`Shared`), and that a get makes a reference nobody else
  has (`GetsMake`). Counting is by the theorems on finite cardinalities.
- `MemHeapProofs`: for any areas, alignments, sizes and number of heaps. The
  invariant is that a heap's blocks cover it from its first byte to its limit with
  none overlapping, that heaps lie apart and free lists hold blocks of their own
  heap (`Heaps`), `FullyCoalesced`, `TagsAgree`, and that a realloc between its
  sections has a block that is in use and is no other realloc's (`Moves`). Tiling
  is not inductive alone: a free merges by the tag of the block before it, and
  would merge two blocks that it should not if tags lied. `GrantsAreLargeEnough`
  has as hypotheses `Fit32`: words of 4 bytes, a leak record of whole words, and
  requests whose block size does not wrap. The last is needed because of the
  untested size in a realloc (`:637`), the first because `MEM_Allocate` reserves
  no less than 4 bytes (`:283`), which leaves no room for the two header words
  and the tag of a free block where a word has 8 (the T2's has 4).
  `CountersAreExact`: the counter is a sum over the free blocks; a step adds or
  takes away at most two of them and changes the size of one (`TotalSplits`).
  `DamageMeansChange` follows a walk of the diagnosis (`Walks`): while no block
  has changed hands since it logged, it stands on a block of its heap and the next
  free block is ahead of it (`OnTrack`).
- `HashMapProofs`: for any keys, data, elements, table sizes and hashes. `IInv`
  gives for each bucket the list of its elements as a sequence w: each element
  points to the next, and back to the pointer that points to it, and the list has
  all elements of the bucket, each once (`List`); a traversal stands at a place of
  its list, and what it has still to show is behind it (`Shows`). A put is w with
  an element in front, a remove w without one. From it follow `ListsAreWellLinked`
  and `TraversalsAreExact`, for all callers. `MapIsAMultiMap` and
  `RemovesAreAsked` have the hypothesis `~RemovesAnything`: with a remove of what
  is not there they are false (finding 1). For them the content of a key, the
  sequence of its data that the code's walk would meet, is followed through each
  insertion and removal.
- `TklOtaProofs`: for any images, blocks, sectors and packs. `HeaderMeansWhole`
  says nothing of what a half-erased or half-written area holds, so it is not
  inductive; `IInv` says in which stage flash, RAM and pending commands are
  (`Phases`): the sectors of the image are erased in order (`Erasing`), its cells
  are programmed up to those that are counted, the first block being left erased
  and kept in RAM (`Programming`), the first sector is erased once more and gets
  that block (`LastWriting`), or no upgrade is under way (`Booted`, which is the
  wanted property). What the RAM's counters say of the caller is `Counted`.
  Its second part is about `TklFlash`, for any number of threads. The invariant
  says that a thread that has unprotected the chip finds it protected again only
  when it was raced, and that the upgrade, which protects it, is never in its own
  way.
- `StationProofs`: for any modes, failures, losses and length of the queue.
  `Wants` is the application's side: at which point of its programs it is, that at
  most one command is under way and only while it waits, and what the supplicant's
  state is between the commands of `bk_wlan_start_sta`. `Does` is the supplicant's:
  which steps of `net_configure_address` are left, and that the flag is reset in
  the step after a connection is given up at the latest. `Hears` is about the order
  in which a link reaches the supplicant: there is a link only for a supplicant that
  waits for it or has it, or is about to leave it (`Linked`); one indication at most
  is under way, and a supplicant that does not wait for it has given its network up
  (`Indicating`); the end of a link is told behind its indication and before the
  next one, so that a station that got an address over its link and lost it has a
  signal pending or about to be (`Signalling`). Neither of the last two is inductive
  alone: that no old indication makes up for a lost link rests on the queues of the
  two threads. `Says` relates the interface and the statuses to those:
  `Configured` (which of flag, callback, interface and DHCP are set with k steps to
  go), `Told` and `Reported` (GOT_IP is reported, or tcpip is about to report it,
  unless the application is on its way to disconnect). The four properties are
  what this says of states where all is quiet.

The assumptions are the named ASSUMEs of the modules: positive sizes, areas that
do not wrap, an upgrade area that holds the largest image, finitely many elements,
an odd number of samples that fits the index, and model values that differ. The
proofs of the ring need in addition `ReaderWaits`, `OkMeansOwnScan` `~SlowScans`,
`GrantsAreLargeEnough` `Fit32`, `MapIsAMultiMap` and `RemovesAreAsked`
`~RemovesAnything`; the passing runs of those properties satisfy them.
`RemovesAreAsked` is the counterpart of the run hashmap_remove, which has
`RemovesAnything` TRUE and violates `RemovesWhatIsAsked`.

What is computed along a list, a heap or a set (the chains of the hash map, the
loops of the median, the sums of the counters) is defined by recursive functions,
not RECURSIVE operators. The provers cannot use the induction theorems of the
library, which have operators as parameters; the proofs use the least
counterexample in their place (`Smallest`), and show first, in the same way, that
a function with the recursive equation exists, without which its CHOOSE says
nothing.

Only model-checked, and why: all liveness (`ReceptionEnds`, `EveryCallReturns`,
`ReadReturns`) and freedom from deadlock, since ENABLED and fairness are beyond
the prover. The proofs are about the models as the runs are: that a model has the
steps of the code is for a reader to compare, with the lines in `PROJECT.json`.

## 6. Not modelled

- The contents of heap blocks, the caller's data, text and log output.
- Which access points a scan returns (the strongest of the ssid, at most 64).
- Double frees and other uses outside the interfaces' contracts.
- Of the station: a full `wpah_queue`, whose command is dropped and whose result
  the callers ignore; a scan that finds only other networks; power save and
  monitor mode; an application that has not registered its event callback; the
  inner states and timers of the supplicant. Of `net.c`: static addresses (the
  adapter asks for DHCP only; with a static one the interface is set up before
  its callback is registered, lines 571-576) and the soft AP's interface.
- The soft AP, sniffer and low-power calls, the wrappers of FreeRTOS, the other
  peripherals, HCI and the init tables: they hand a call to the vendor's SDK and
  keep next to no state.
- The vendor's SDK, a million lines of drivers, protocol stacks and cryptography,
  except for the parts under the station and the converter, and for what the
  adapter sees of it: the flash chip, the supplicant's scans, FreeRTOS mutexes
  and semaphores.
