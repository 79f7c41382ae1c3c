# A TLA+ model of the ESP8266 RTOS SDK

The ESP8266 RTOS SDK is an operating environment for a Wi-Fi micro-controller:
a FreeRTOS kernel with libraries around it, a second-stage bootloader, and the
components applications are built from. This project models the parts whose
correctness depends on orders of events nobody can test exhaustively: memory
shared between tasks and interrupts, flash contents that must survive a reset at
any point, threads that end while others wait for them, and network services
driven by several tasks at once.

## 1. Inventory

`PROJECT.json` lists every component with its status. The ones that carry the
SDK's own logic:

| Component | State | Operations | Meets | Hard parts |
|---|---|---|---|---|
| `esp_ringbuf` | write, read and free pointers, full flag, item headers in the storage, two binary semaphores | send, receive, split receive, return, the same from interrupts, free-size queries | tasks, interrupt handlers | blocking with timeouts, items returned in any order, wrap-around, one flag that tells full from empty |
| `app_update` | open OTA handles, the two `otadata` sectors | begin, write, end, set boot partition, queries | flash, bootloader | reset between and during flash operations |
| `bootloader`, `bootloader_support` | none of their own; read and format `otadata` | select, search for an image, copy ota_1 to ota_0, factory reset and test pins | shares flash formats with `app_update` | two implementations that must agree, fallback order, interrupted copy |
| `spi_flash` | flash sectors | erase, write, safe write | all of the above | torn sectors, write errors |
| `esp_https_ota` | one update call | connect, read and write, end, set boot | network, `app_update` | lost connection, failed allocation, retry after reset |
| `nvs_flash` | pages of entries, page states, the page list | set, get, erase, garbage collection, recovery at init | flash | reset between any two writes, inside a write, and during the recovery itself |
| `pthread` | thread list, mutexes, condition variables | create, join, detach, exit, lock, wait, signal, broadcast | FreeRTOS tasks | exit racing join, time-out racing signal |
| `esp8266` events, `tcpip_adapter` | an event queue of 32; interface, DHCP client status, addresses, two timers | default handlers, DHCP start and stop, polling, IP lost timer | Wi-Fi driver, timer task, lwIP's thread | three tasks share the tables without a lock |
| `esp_http_server` | session table, LRU counter, control socket | accept, serve, close, LRU purge, stop | lwIP, other tasks | closings that arrive late or not at all, deletion while iterating |
| `esp8266` timers | timer periods | start, stop, delete | timer task | restart in a callback, full command queue |
| `mqtt` | outbox of unacknowledged messages | publish, acknowledge, expire | transport | the outbox is shared without a lock |
| `mdns`, `protocomm`, `vfs`, `heap`, drivers | tables | | lwIP, hardware | callbacks in other tasks |

Vendored code (lwIP, mbedTLS and wolfSSL, cJSON, libcoap, the AWS SDK,
libsodium, protobuf-c, the FreeRTOS kernel itself) and binary Wi-Fi libraries
are left aside. What makes the modelled components correct:

* ring buffer: what is received is what was sent, in order; what the
  application holds is not overwritten; the space comes back; nobody waits for
  ever for what is there;
* OTA and boot: at any moment a reset leads to an image that boots; changing the
  boot partition is atomic; application and bootloader agree; an interrupted
  update is repeated until the new image runs, and never boots half an image;
* key-value storage: a power failure leaves each key with its old or its new
  value, stored once, and a library that starts again;
* threads: a descriptor stays as long as a task relies on it and no longer;
  whoever waits for a thread that ends, for a mutex that is unlocked or for a
  signal goes on;
* station: the application learns that its address is gone, and learns it once;
* HTTP server: each readable session is served once a round, no socket is lost
  between connection, session and close, and nobody who connects waits for ever.

## 2. Modules

| Module | Models | Source |
|---|---|---|
| `ByteBuf` | byte buffers: each critical section one action | `esp_ringbuf/ringbuf.c` |
| `LendingQueue` | what a byte buffer promises: a bounded FIFO that lends its first bytes | abstract |
| `RingbufTasks` | tasks and interrupts calling a `ByteBuf`, with both semaphores | `ringbuf.c` |
| `ItemBuf` | no-split and allow-split buffers with headers in the storage | `ringbuf.c` |
| `OtaData` | the two `otadata` sectors and both readers of them | `esp_ota_ops.c`, `bootloader_utility.c` |
| `OtaUpdate` | handles, app partitions, bootloader; extends `OtaData` | `esp_ota_ops.c`, `bootloader_start.c`, `bootloader_utility.c`, `port.c` |
| `HttpsOta` | the update call and its retries; extends `OtaUpdate` | `esp_https_ota.c` |
| `NvsMap` | what the storage library promises: a map whose operations are atomic under power failures | abstract |
| `NvsStorage` | entries, pages, page manager and storage | `nvs_page.cpp`, `nvs_pagemanager.cpp`, `nvs_storage.cpp` |
| `Pthread` | threads and their descriptors | `pthread.c` |
| `PthreadCond` | a condition variable and its static mutex | `pthread_cond_var.c`, `pthread.c` |
| `Station` | the station's interface and address | `tcpip_adapter_lwip.c`, `event_loop.c`, `event_default_handlers.c` |
| `HttpdSess` | the server's task and its sessions | `httpd_main.c`, `httpd_sess.c` |
| `RingbufTasksProofs`, `ItemBufProofs`, `OtaDataProofs`, `OtaUpdateProofs`, `PthreadProofs`, `PthreadCondProofs`, `StationProofs`, `HttpdSessProofs` | the theorems about the module each is named for; `RingbufTasksProofs` is about `ByteBuf` too, `OtaUpdateProofs` about `HttpsOta` | |
| `MCRingbufTasks`, `MCItemBuf`, `MCOtaSlots`, `MCOtaUpdate`, `MCNvsStorage`, `MCServices`, `MCStation` | instances for TLC | |

`MCOtaSlots` and `MCServices` check several instances in one run: a variable that
never changes (`setup`, `part`) says which of them a behaviour is about, and the
others keep still.

### Ring buffers

`ByteBuf` has the fields of `Ringbuffer_t` as variables: the three pointers as
offsets, the full flag and `xItemsWaiting`. A byte's value is its number in the
stream, so a byte lost, repeated or out of place is seen. `Send`, `Receive` and
`Return` are the critical sections of the code. `RingbufTasks` cuts a call where
it can be preempted (take a semaphore, critical section, give each semaphore);
the local `xReturnSemaphore` is part of the program counter's label. A FromISR
function is one step. `xTicksToWait` is "forever" or "finite", and a finite wait
may run out whenever the task waits.

`ItemBuf` works in 32-bit words, the alignment of the code; the header is two
words that live in the same memory as the data, so that a pointer that goes
wrong reads data as a header. The flag `rbALLOW_SPLIT_FLAG` is chosen at creation.
`use` says how the application works: one part held at a time ("one"), several
held and returned in any order but nothing sent meanwhile ("batch"), or anything
("any"). Sizes are compared the way the C code does: a negative `xFreeSize`
counts as larger than every `size_t`.

### OTA and boot

A sector of `otadata` is its sequence number, `Erased`, or `Torn` (interrupted, so
that the CRC fails). `esp_rewrite_ota_data` is cut at its flash operations,
`RewriteErase` and `RewriteProgram`; formatting goes sector by sector. `PowerFail`
leaves the sector in operation as it was, or torn. `oldBoot` and `newBoot` are
ghosts: what was configured when the call began and what it is to configure.

In `OtaUpdate` a partition is a sequence of sectors, each blank, junk or a sector
of an image; programming a sector that is not blank gives junk. `esp_ota_begin`
erases sector by sector; `esp_ota_write` takes one sector at a time.
`bootloader_utility_load_boot_image` is the search the bootloader makes. `Boot`,
`FactoryReset`, `BootTestApp` and `CopyStart` are the ways out of `select_image`; the
first, with `BootFormat`, is code for the ESP32 target (`bootloader/Kconfig.projbuild:91`).
`Reset` loses the RAM and may tear the sector in operation. `confirmed` is a ghost:
the partition the last `esp_ota_set_boot_partition` returned `ESP_OK` for.

`HttpsOta` adds the program counter of one call, run by an application that calls
it while it does not run the server's image and restarts on success, as the
`simple_ota` example does.

Abstractions: writes to OTA handles are whole sectors; an image verifies when all
its sectors are in place (header, segment and checksum tests of
`esp_image_format.c`); the link-address test of `esp_ota_verify_binary`, flash
encryption and failures of the erase operation are left out; one task makes OTA
calls, because the handle list and `s_ota_select` have no lock. A boot-time copy
that fails to erase, read or verify a sector starts no app until the next reset: for
safety that is a `Reset` there, and liveness is claimed without such failures. A test app kept in ota_1 (`CONFIG_BOOTLOADER_APP_TEST_IN_OTA_1`) is left out. The boot-time copy
is modelled for the partition table it is meant for (two slots, no factory app),
and with an application that restarts after `esp_ota_set_boot_partition`
(`RestartsAfterSet`): without that, a second update could erase the partition
the copy is to come from.

### Storage of keys

`NvsStorage` keeps for each page in flash its state, its sequence number, the
state of each entry (the table) and what each entry holds. Operations of the
library run under its lock, so each is one action; what makes the model more
than a map is the set of flash images that goes with it. Each operator, from
`PageWriteItem` up to `writeItem` and `load`, takes a *run* `s` of the program and
returns it further on; `s.cut` collects every image of the flash the power may
leave behind, one for each write not begun, and for each write half done: an
entry is then torn, and part of a group of entry states may be
missing. `Ends` is the operation that comes to its end, `Fails` the one that leaves one of
those images and loses the RAM; `nvs_flash_init` runs the recovery, which may be
cut as well. The recovery keeps the order of the code: the page loads that
repair tables (`SkipHalfWritten`), `DropFormer` (the value a cut set left
twice), `ResumeFreeing` (a move of entries to a fresh page).

`PowerSafe` is the refinement of `NvsMap`: `map` is what reads return, or what they
would return after the next start. A read is part of it, so data entries that
are missing or overwritten are seen as a value that changed.

A value is looked up as the code does it: an item's hash covers namespace and name,
not the type (`Named`), and the first item of that name on a page is the one looked
at; when it has another type the page counts as one without the key (`Found`). The
duplicate search of a start erases an earlier item of the name whatever its type
(`CheckItem`). So the library keeps its promises only to an application that uses
each name with one type, and `nvs_storage` is about such a one (`OneType`);
`nvs_two_types` shows what becomes of another (`TwoTypes`).

Left out: the namespace table (`NsOf` is fixed), handles and commit, flash
errors without a reset, bit rot, two names with one 24-bit hash, and what is a
function of the entries (used and erased counts, first entry, the list of hashes).
Checksums are not computed: a torn entry never passes one.

### Threads

`Pthread` has for each thread its task (`pc`), its descriptor (in
`s_threads_list` or freed), who joins it, whether it is detached or marked as
ended. A call's critical section under `s_threads_mux` is one step; a call that
waits is cut there. `notified` is FreeRTOS' one notification per task, used both to
start a thread and to end a join. The application is any program that
names threads it knows and, as POSIX asks, does not join a detached thread nor detach
one that is being joined.

`PthreadCond` is the condition variable's list with the protocol it exists for:
waiters wait for a flag under the mutex; a notifier sets it, then broadcasts and
destroys the variable, or signals, and each waiter that saw the flag signals on. Waits
may time out at any moment. The mutex starts as `PTHREAD_MUTEX_INITIALIZER`, so
that its first users race to create its semaphore.

### Station

`Station` composes four actors: the driver, which posts events in every order
its states allow; the event task with the queue and the default handlers,
cut where a handler calls into lwIP and waits; the timer task, which polls the
DHCP client (`tcpip_adapter_dhcpc_done` and its callback, cut at each access to
what the tasks share); and lwIP's thread with its client and the IP lost
timeout. `told` is a ghost: the last address event the application was sent.
`raced` marks an address that goes while the timer task holds an older view of
it; section 5 says what happens then.

### HTTP server

`HttpdSess` has the session table as the code does, slot by slot, with the LRU
counters. The server's task is cut at `select`, at the control message, at each
session of the iteration and at the accept. Other tasks and the server itself
reach it through the control socket's mailbox, which may be full; the message
names a slot. Peers connect, send and close at any time.

Left out: an `accept` that fails, a `recv` of the control socket that fails or falls
short, work items of applications, bytes a session has read ahead
(`httpd_sess_pending`), and descriptors that are used again, so that no session is
refused as already there. A peer that closes before its request was read counts as
gone, though the code may serve the request first. In `PthreadCond` a wait whose time
has passed when it begins, which returns at once with the mutex still held, is not a
case of its own.

## 3. Runs

| Run | Instance | Shows |
|---|---|---|
| `ringbuf_shared` | 3 bytes, two senders, two receivers, interrupts both ways, 5 bytes sent | under every interleaving pointers, count and flag agree, one caller holds the chunk lent and it is not overwritten, no byte is lost, the free size is exact, and the buffer implements `LendingQueue` |
| `items` | no-split and allow-split buffers of 9 words, used with one part held or in batches of up to 3, 6 items | parts held and unread stay intact and in order; free sizes right; space comes back |
| `ringbuf_consumer` | 3 bytes, two senders, one receiver, an interrupt that sends | liveness: sends end and every byte is handed out |
| `ota_slots` | two slots with a factory app and its reset pin; without them, two handles; with the boot-time copy; 2 or 3 faults | otadata protocol under resets; a bootable image is always found; the running one is untouched; confirmed partitions boot |
| `nvs_storage` | three pages of four entries, an integer under one name and blobs under another, one namespace, any number of power failures | implements `NvsMap`; no key stored twice; the library starts and has a free page; space of old values is used again |
| `services` | three threads and `app_main`; three waiters and a notifier; a station with two leases or a static address; an HTTP server with two slots and three connections, with and without purge; updates over HTTPS with the copy option, images of 2 and 3 sectors, 3 faults | threads and waiters go on, descriptors live as long as needed; address losses are reported once; sessions are served, accounted for and closed; only whole images boot, update handles come back and the newest image runs in the end |

Runs that show a disagreement between the code and what it says of itself
(`findings` quotes the lines):

| Run | Shows |
|---|---|
| `allowsplit_split_held` | a full buffer counts as empty once one of two held parts is returned; the next send overwrites the other part |
| `nosplit_free_size` | with less than a header free, the free size reported is the maximum item size: a signed size is compared as unsigned |
| `ringbuf_two_readers` | a second reader of a byte buffer sleeps although bytes wait |
| `ota_test_app` | choosing the test app returns `ESP_OK` and boots ota_0 |
| `station_lease_lost` | a DHCP lease that ends is reported to nobody |
| `nvs_two_types` | a name set to a blob and twice to an integer is stored twice with one type, where `Storage::debugCheck` asserts |

Bounds. The 5 bytes sent take the pointers of the byte buffer past the end of
its storage, and items of one byte and of the whole storage wrap at every place;
the item buffers wrap several times, in every alignment of items and tail. For more
laps and other sizes there are the theorems. Partitions of two or three sectors have
a first, a middle and a last sector; with two or three faults a fault can hit the
recovery from another one.
`MaxSeq` (5 and 4, and 12 for the updates of `services`) goes twice around the slots. In
`NvsStorage` three pages are one in use, one filled before and the spare one; four
entries, two to a word of the table, let an item lie in one word or across two,
and force a move of entries; a blob's data is one entry at most, the
limit `BLOB_MAX_SIZE` sets for pages of that size (`ValsAssumption`), and takes the
path of whole entries in one value and that of the rest in the other; `MaxSeq = 3` allows one move to a fresh page after the
first two pages are full, and one more by recovery. Power failures are not
bounded. `call` only labels steps and is left out of the `VIEW`: no guard reads it, and
`PowerSafe` is checked on every step.

In `services`, three threads are a creator, a joiner and a third that joins the
joiner, named in the order of their creation (`InOrder`: nothing tells their names apart); three waiters are one before and one behind the one that times out.
`MaxDriverEvents = 5` reaches start, connect, lose, connect again and lose again;
`QueueLen = 3` lets the queue overflow; `MaxPolls = 1` lets polling give up. `MaxConns = 3`
on two slots makes a purge needed; a mailbox of one place (`MailboxLen`) loses
messages; one call of another task (`MaxPosts`) and two requests (`MaxRequests`)
meet each other and the purge. Where threads end or bounds run out a system may
stop, so deadlock is not checked there; it is checked in `nvs_storage`.

Fairness. `CallsProgress`: a task that can run inside a call is scheduled
eventually, no more. `ConsumersLoop`: the consumer's loop goes on; an
application that stops receiving serves nobody. `HttpsSpec` is weakly fair to the
update task and the bootloader and demands no fault; faults are bounded (`MCSpec` asks
the same within that part). `PFair`
and `CFair` schedule each task that can run, as FreeRTOS does for
tasks of one priority; no thread need end, no wait need time out, and a mutex goes to a
waiter in the end. `HFair` schedules the server's task: its
sockets have receive and send timeouts, so its calls return. The station's
properties are about safety and need none.

## 4. Proofs

Each theorem holds for every value of the constants that the assumptions of its
module allow. These ask that sizes and counts are natural numbers (sizes positive),
flags Booleans, that names of tasks differ from each other (`TaskAssumption`,
`NotifierAssumption`, `TasksAssumption`), that callers ask for sizes the buffer has
(`TasksAssumption`; larger ones are refused at once), that an address is not 0
(`StationAssumption`), and that the tables and images are of the kind the code is
built for (`PartAssumption`, `CopyAssumption`). A run checks each on its own values.

| Module | Theorems | Inductive invariant |
|---|---|---|
| `RingbufTasksProofs` | of one caller (`Spec`) `TypeOK`, of both `Accounting`, `StreamIntact`, `LoanIntact`, `FreeSizeExact`, implements `LendingQueue`; of many (`TSpec`) `OneHolder` | `IInv` and `TInv` |
| `ItemBufProofs` | `HeldIntact`, `UnreadIntact`, `FreeSizeSoundWithRoom`, `SpaceReclaimed` | `IInv` |
| `OtaDataProofs` | `OldBootKept`, `BootViewsAgree`, `SwitchesAtomically`, `SeqMonotone` | `DataInv` |
| `OtaUpdateProofs` | `RunningIntact`, `SurvivesReset`, `ConfirmedBoots`; of a call: `BootsOnlyWholeImage`, `HandlesReturned` | `UpdateInv`, with `CopySound`, `Confirmation`, `CallInv` |
| `PthreadProofs` | `PTypeOK`, `DescriptorsKept`, `NoMutualJoin`, `FreedAfterEnd` | `PInv` |
| `PthreadCondProofs` | `MutexExclusion`, `WaiterListSound` | `CInv` |
| `StationProofs` | `LossReported`, `LostOnce` | `SInv` |
| `HttpdSessProofs` | `SocketsAccounted`, `ServedOncePerRound` | `HInv` |

### Ring buffers

The invariant of the byte buffer is types, `Accounting` and `StreamIntact`. Accounting
is needed because the pointers alone do not tell a full buffer from an empty one; it
says that the loan, the waiting bytes and the free space lie one behind the other
around the ring, and that the flag is set exactly when no space is left. The
stream property then follows cell by cell. The loan and the free size follow
from the invariant without induction. `ByteBufRefines` maps the cells between the
pointers to a queue and shows that a send appends to it, a receive lends its first
bytes (all of them, or those up to the end of the storage) and a return removes them.

The second part of `RingbufTasksProofs` is about any number of senders, receivers and
interrupts. What a critical section does is what the lemmas about `ByteBuf` say; what is new is who may
enter it. `OneHolder` and the store need each other: a receiver that is let in finds
nothing on loan because of what the pointers say, and a return is of a chunk on loan
because only its holder returns it. `TasksRefine` is the refinement of
`LendingQueue` under semaphores, time-outs and interrupts.

`ItemBufProofs` is about no-split and allow-split buffers of any size, for items of any
length. The code finds its headers by walking from one to the next through the
memory; the invariant (`Chain`) says which they are: a chain of nodes `c[b]`, ..., `c[n]`,
in the order they were written, with the free pointer at number `a`, the read
pointer at `r` and the write pointer at `n + 1`.

* `Layout`: where nodes lie. They do not overlap, each begins where the one before ends,
  and from number `w` on they are in front of the others; only the last before the tail
  may be a dummy or the first part of a split item.
* `Contents`: the memory holds the header and the data of each, and those before `r` that
  the application does not hold are marked as returned.
* `InOrder`: the nodes are the items sent, whole or split, one behind the other.
* `Pointers`: the count is that of the nodes from `r` on less the dummy, and the full flag is
  set exactly when the write pointer has caught up with a free pointer that has
  something before it.

A send adds one node or two (`SendWhole`, `SendWrapped`), a receive moves `r` along the chain
(`ReadOne`), a return drops the nodes the loop passes over (`ReturnStep`). The walk of that
loop and the scan of `Unread` are recursive functions; what they return is
shown by looking at the least number of steps after which it would be wrong
(`LeastNat`). One state is unlike the others: when the application has
read a full buffer to its end, all three pointers are together, so the loop of the first
return stops where it starts, and the code takes the buffer for
empty although the other parts are still held. `Chain` allows it (`b` before `a = n + 1`), while
nothing is sent: this is why the theorems assume `SendsBetweenBatches`, an application that
holds one part at a time or sends nothing between the first and the last return of a
batch. `allowsplit_split_held` is what happens to one that does send then. `HeldIntact` and
`UnreadIntact` read the chain off, `FreeSizeSoundWithRoom` follows from `Layout`, and
`SpaceReclaimed` from `Bounds`: with nothing held `a = r`, with nothing waiting `r = n + 1`.

### OTA and boot

`OtaDataProofs` is about `DataSpec`, whose slots are the OTA slots; setting the test
app as boot partition is outside its theorems (and is wrong, see `ota_test_app`), but
`DataInv` allows for it, since `OtaUpdate` takes that step. `DataInv` adds
`RewriteInv` to the types: the sector in operation is the one that can be spared, and
the number to be written selects the wanted slot and is not below the one in
force. Below it lie lemmas on the arithmetic of `NextSeq` (`NextSeqBound`,
`NextSeqSlot`) and on what losing a sector does (`TargetIsExpendable`).

`OtaUpdateProofs` goes on to partitions and the bootloader. `Apart` says that the
application and the bootloader take turns, one flash operation at a time, and that
no open handle is of the executing partition; with it `ExecutingNeverTouched` follows.

* `LoadFinds` says what the bootloader's search returns: a partition that boots if
  there is one, and the one it starts from if that one boots. The search is written
  with the greatest and the least index that qualify, and `Extremes` shows that they
  exist.
* `NeverBricked` assumes `SafeSetup`: some app was flashed, and with the boot-time
  copy the application restarts after `esp_ota_set_boot_partition` and no pin erases
  `otadata`. Without these a second update may erase ota_1 and be followed by a copy
  of it over ota_0. `CopySound` is what the copy needs: ota_1 boots whenever it is
  configured, about to be, or being copied.
* `ConfirmationKept` needs `Confirmation`, which says what a partly made copy has put
  in ota_0, and which needs no `SafeSetup`.
* `CallInv` follows one `esp_https_ota`: which sectors are erased or hold which sector
  of the image at each point of the call, and that handles are numbered in order.

`ota_slots` checks `RunningIntact`, `SurvivesReset` and `ConfirmedBoots` of three
devices as `ExecutingIntact`, `AlwaysBootable` and `ConfirmationsHold`.
`CallNeverBricks` states the first two of `HttpsSpec`.

### Threads

`PInv` adds to the types and to both parts of `DescriptorsKept` who relies on whom:
a thread under creation belongs to one task, which alone will start it
(`CreationOwned`); one that was told to start is in the list (`StartedRegistered`);
and the task a live thread will notify waits for that thread (`JoinerWaits`).
Without the last, a notification could reach a task in another wait and end it early,
and `JoinTargetKept` is not preserved when a thread ends. The other two theorems
follow step by step from `PInv`.

`CInv` adds to the two properties that the static mutex gets one semaphore, which
whoever is past the lock has taken (`MutexHeld`), and that the notifier goes on only
with the flag set, which keeps new waiters out of a list that is about to be freed
(`FlagBeforeFree`).

### Station

`LossIsReported` assumes that no lease runs out: run `station_lease_lost` shows
the loss that is missed then. Its property exempts behaviours in which a driver event
was dropped or an address went while the timer task held an older view of it, so
`SInv` says nothing of them but the types. In the others it needs the
order of the queue (`QueueOrder`: behind an event that takes the station up there is
the one that takes it down before the next, `StartOrder`), what the status of the DHCP
client says of the interface and of the timer task (`StatusSound`, `StoredSound`), and
that an address being told of is there (`TellingSound`). `LossIsToldOnce` holds with
leases that run out and events that are dropped, and exempts only the address that
goes unseen.

### HTTP server

`HInv` says that what waits in the backlog is not yet in a slot (`BacklogApart`), that
what `select` found is still there when the server comes to it (`FoundWaits`), and
that of the sessions left those served are the readable ones up to `fd`
(`WalkSound`). The walk is told where it is by a descriptor, and one that is in no
slot starts it again; `WalkSound` holds because deleting a session gives the walk
the one before it.

### Only model-checked

* Liveness: `SendsComplete`, `BytesDelivered`, `DeviceUpdated`, `JoinReturns`,
  `WaitersProceed`, `ServerProceeds`. Fairness and ENABLED are outside what the prover
  supports.
* `ItemBuf` used in any way (`Uses = {"any"}`): its invariants fail there.
* `AlwaysBootable`, `ExecutingIntact` and `ConfirmationsHold` of `ota_slots` as such, which
  speak of three given devices; what they say of each is proved of all.
* `NvsStorage`: `NoDuplicates`, `StartsWithFreePage`, `SpaceIsReused` and the
  refinement `PowerSafe`. Its operations fold over pages and entries and collect every
  flash image on the way; what a fold computes for every page size takes induction
  over an operator, which none of the provers can instantiate.

## 5. Observations without a run

* `esp_ota_begin` erases `image_size / SPI_FLASH_SEC_SIZE + 1` sectors, one too
  many for a multiple of the sector size; an image as large as its partition is
  refused with `ESP_ERR_INVALID_SIZE`. `EraseSectors` models it.
* `esp_ota_get_next_update_partition` returns its argument when the table has
  one OTA slot, which its header says it never does.
* A send that times out after taking `xFreeSpaceSemaphore` does not give it back,
  unlike the comment on the field says; another sender whose smaller item fits
  then waits for the next return.
* `esp_https_ota` returns without `esp_ota_end` when its buffer cannot be allocated,
  so the entry of that handle stays in the list until the next reset (`AllocFails`;
  `HandlesReturned` says no other handle is left open).
* The allow-split free size subtracts two headers even when an item fits
  unsplit before the tail, so larger items than reported are accepted.

Threads:

* `uxPortCompareSet` (`pthread.c:90-96`) compares nothing and always reports success,
  so `pthread_once` (408-432) runs the routine in every call.
* Detaching a thread that has ended never frees its descriptor. Detaching one that
  is being joined, or joining a detached one, blocks the joiner for ever;
  POSIX leaves both undefined, and the model's application does neither. A cycle of three joins is
  not detected.
* `pthread_cond_signal` gives the first waiter's semaphore and leaves it in the
  list, so two signals before it runs wake one waiter; a waiter that times out may
  swallow a signal. In the protocol modelled each waiter that sees the flag signals on.

Storage:

* A value hidden by one of another type on its page (`nvs_two_types`) cannot be read,
  and with both on the page that is written to the next start erases the earlier one
  (`nvs_page.cpp:561`), without any power failure. No set returns
  `ESP_ERR_NVS_TYPE_MISMATCH`, and no get does: both end as "not found".
* `nvs_page.cpp:561` compares 24-bit hashes and not names: two names with one hash
  would count as duplicates too.
* `Page::load` reads a page without a header in blocks of eight words and tests only
  the first four of each for being erased (`nvs_page.cpp:60`).

Station:

* A disconnect between the timer task's copy of the address and its record, or
  before its event is sent, leaves the application with `GOT_IP` and no timer
  (`raced`). Between the test of the interface and `release_dhcp` the timer task may
  release the client of a new connection.
* `tcpip_adapter_dhcpc_done` reads the client's data without a test for null
  (`LookAtNetif`, "fault").
* Polling gives up after `CONFIG_IP_LOST_TIMER_INTERVAL`; an address that comes
  later is not reported. The queued stop of the poll timer may stop one the event
  task has just started.
* Dropped driver events change the interface silently (`dropped`).

HTTP server:

* A queued closing names a slot; when it is processed the slot may hold another
  session, which is then closed instead.
* A session that was never used has counter 0, so the purge closes the newest
  unused session rather than the least recently used one (`httpd_main.c:31`).
* When `open_fn` refuses a session its socket is closed but stays in the table until
  `select` fails (`SelectFails`).
* `httpd_stop` ignores the result of its message and waits for ever if it is lost; the
  second part of `ServerProceeds` starts where the message has arrived.

## 6. Plan

1. Ring buffer core: byte buffer, tasks, items; proof of the byte buffer. Done.
2. OTA, boot and HTTPS update; proof of the otadata protocol. Done.
3. `NvsStorage` against `NvsMap`. Done; the namespace table and flash errors
   without a reset are left.
4. `Pthread`, its proof, and `PthreadCond`. Done; thread-local storage,
   `pthread_once` and recursive mutexes are left.
5. `Station`: event loop and address. Done for the station; the soft-AP is left.
6. `HttpdSess`. Done; request parsing and `httpd_queue_work` in general are left.
7. `EspTimer`: restart in a callback, delete during a callback, a full command
   queue; the MQTT outbox with its two tasks; the receive and transmit paths of
   `uart.c`; then mDNS probing and protocomm.
8. Proofs: byte buffer and its tasks with both refinements, item buffers, otadata,
   update, boot and the update call, threads, condition variable, station, HTTP server.
   Done. Left: `NoDuplicates` of one `NvsStorage` operation from an invariant on the page
   list.

## 7. Not modelled

* Third-party code (lwIP but for what `Station` sees of its DHCP client, TLS
  stacks, FreeRTOS but for the primitives used, file systems, the vendored
  libraries of `PROJECT.json`): another project's
  logic, and most of the lines of the repository.
* Drivers and start-up code: register access, with no order of steps that depends on another task,
  except `uart.c` (plan).
* Clients and thin layers (`esp_http_client`, `tcp_transport`, `esp-tls`, `vfs`,
  `protocomm`, `wifi_provisioning`, `console`, `log`, `newlib`): sequential code around blocking calls,
  tables or formatting; tests reach what can go wrong there.
* `esp_timer.c`: what its race does depends on the order in which FreeRTOS' timer task
  takes commands; it needs that task's queue modelled first.
* `mqtt`: read. The outbox keeps and expires messages and never sends them again,
  so there is no retransmission to check; its unlocked sharing is on the plan.
