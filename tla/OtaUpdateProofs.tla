-------------------------- MODULE OtaUpdateProofs --------------------------
(***************************************************************************)
(* Proofs about firmware update and boot (modules OtaUpdate and HttpsOta)  *)
(* for every partition table, every number of sectors, every set of images *)
(* and any number of resets, torn sectors and lost connections.            *)
(***************************************************************************)
EXTENDS HttpsOta, OtaDataProofs, WellFoundedInduction, TLAPS

\* Contents of a partition.
Cells == [PartCells -> Images \cup {Blank, Junk}]

\* Type correctness of the flash, the handles and the operation in progress.
OTypeOK ==
    /\ flash \in [Parts -> Cells]
    /\ running \in Parts \cup {Booting, Dead}
    /\ entries \subseteq [handle : Nat, part : Slots, wrote_size : 0 .. PartSectors]
    /\ s_ota_ops_last_handle \in Nat
    /\ work \in {NoWork} \cup [op : {"erase", "copy", "copied"}, part : Slots,
                               at : PartCells, last : PartCells]
    /\ confirmed \in Parts \cup {None}

\* Application and bootloader take turns, one flash operation at a time, and what
\* the application writes is not the partition it runs from.
Apart ==
    /\ work.op = "erase" => running \in Parts /\ work.part # running /\ step = "idle"
    /\ work.op \in {"copy", "copied"} => /\ running = Booting /\ BootCopyApp
                                         /\ work.part = 0 /\ work.last = PartSectors
    /\ work.op = "copy" => step = "idle"
    /\ work.op = "copied" => step \in {"idle", "format"}
    /\ \A it \in entries : it.part # running
    /\ running \notin Parts => entries = {}
    /\ step \in {"erase", "program"} => running \in Parts /\ newBoot \in Parts
    /\ running = Dead => step = "idle" /\ work = NoWork

\* Formatting erases sector 0, then sector 1.
Formatting ==
    /\ step = "format" => /\ newBoot = find_default_boot_partition
                          /\ wsec = 1 => otadata[0] = Erased
    /\ work.op = "copied" /\ step = "idle" => otadata[0] = Erased /\ otadata[1] = Erased

\* The inductive invariant of update and boot, whatever the configuration.
UpdateInv == DataInv /\ OTypeOK /\ Apart /\ Formatting /\ RunningIntact

\* What the steps change but for the count of faults, and the steps.
deviceVars == <<dataVars, flash, running, entries, s_ota_ops_last_handle, work, confirmed>>
DeviceNext == BootNext \/ AppNext \/ LoseRam \/ CopyWriteFails

----------------------------------------------------------------------------
(* Partitions and images. *)

\* The numbers the partitions go by.
LEMMA PartNumbers ==
  /\ Slots \subseteq Nat /\ 0 \in Slots /\ Slots \subseteq Parts /\ Parts \subseteq Int
  /\ FACTORY_INDEX \in Parts <=> HasFactory
  /\ TEST_APP_INDEX \in Parts <=> HasTest
  /\ FACTORY_INDEX \notin Slots /\ TEST_APP_INDEX \notin Slots
  /\ Parts \subseteq Slots \cup {FACTORY_INDEX, TEST_APP_INDEX}
  /\ Booting \notin Parts /\ Dead \notin Parts /\ None \notin Parts
  /\ find_default_boot_partition \in Parts \ {TEST_APP_INDEX}
<1>1. Slots \subseteq Nat /\ 0 \in Slots
  BY CountAssumption DEF Slots
<1>2. FACTORY_INDEX \notin Slots /\ TEST_APP_INDEX \notin Slots /\ FACTORY_INDEX # TEST_APP_INDEX
  BY <1>1 DEF FACTORY_INDEX, TEST_APP_INDEX
<1>3. Parts \subseteq Slots \cup {FACTORY_INDEX, TEST_APP_INDEX} /\ Slots \subseteq Parts
  BY DEF Parts
<1>4. FACTORY_INDEX \in Parts <=> HasFactory
  BY <1>2 DEF Parts
<1>5. TEST_APP_INDEX \in Parts <=> HasTest
  BY <1>2 DEF Parts
<1>6. Parts \subseteq Int /\ Booting \notin Parts /\ Dead \notin Parts /\ None \notin Parts
  BY <1>1, <1>3 DEF FACTORY_INDEX, TEST_APP_INDEX, Booting, Dead, None
<1>7. find_default_boot_partition \in Parts \ {TEST_APP_INDEX}
  BY <1>1, <1>2, <1>3, <1>4 DEF find_default_boot_partition
<1> QED BY <1>1, <1>2, <1>3, <1>4, <1>5, <1>6, <1>7

\* With the copy option the table has two OTA slots and nothing else.
LEMMA CopyTable ==
  BootCopyApp => Slots = {0, 1} /\ Parts = {0, 1} /\ ~HasFactory /\ ~HasTest
BY CopyAssumption DEF Slots, Parts

\* An image is numbered from 1 and fits a partition.
LEMMA ImageNumbers ==
  ASSUME NEW v \in Images
  PROVE  v \in Nat \ {0} /\ ImageSectors[v] \in 1 .. PartSectors /\ 1 \in PartCells
BY PartAssumption DEF PartCells

\* The configured partition is one of the table, and not the test app.
LEMMA ConfiguredPart ==
  ASSUME DataInv
  PROVE  Configured \in Parts \ {TEST_APP_INDEX}
<1>1. otadata \in Contents
  BY DEF DataInv, DataTypes
<1>2. SomeValid(otadata) => SlotOf(CurrentSeq(otadata)) \in Slots
  BY <1>1, ConfiguredType, SlotInRange, SeqAssumption
<1> QED
  BY <1>2, PartNumbers
  DEF Configured, esp_ota_get_boot_partition, SomeValid

\* The bootloader starts from the configured partition, or from the factory app
\* where there is none and the configured partition is ota_0.
LEMMA SelectedPart ==
  ASSUME DataInv
  PROVE  /\ Selected \in Slots \cup {FACTORY_INDEX}
         /\ \/ Selected = Configured
            \/ Selected = FACTORY_INDEX /\ ~HasFactory /\ Configured = 0
<1>1. otadata \in Contents
  BY DEF DataInv, DataTypes
<1>2. SomeValid(otadata) => SlotOf(CurrentSeq(otadata)) \in Slots
  BY <1>1, ConfiguredType, SlotInRange, SeqAssumption
<1> QED
  BY <1>2, PartNumbers
  DEF Selected, bootloader_utility_get_selected_boot_partition, Configured,
      esp_ota_get_boot_partition, SomeValid, find_default_boot_partition

----------------------------------------------------------------------------
(* bootloader_utility_load_boot_image. *)

\* A set of numbers with a bound has a greatest and a least element: where the
\* loops over the partitions stop.
LEMMA Extremes ==
  ASSUME NEW T, T \subseteq Int, T # {}, NEW a \in Int, NEW b \in Int,
         \A x \in T : a <= x /\ x <= b
  PROVE  /\ \E x \in T : \A y \in T : x <= y
         /\ \E x \in T : \A y \in T : y <= x
<1> DEFINE R == {ss \in Nat \X Nat : ss[1] < ss[2]}
<1>1. \A U : U \subseteq Nat /\ U # {} => \E x \in U : \A y \in U : x <= y
  <2> SUFFICES ASSUME NEW U, U \subseteq Nat, U # {}
               PROVE  \E x \in U : \A y \in U : x <= y
    OBVIOUS
  <2>1. IsWellFoundedOn(R, Nat)
    BY NatLessThanWellFounded DEF OpToRel
  <2>2. \A x, y \in Nat : <<y, x>> \notin R => x <= y
    OBVIOUS
  <2> HIDE DEF R
  <2>3. \E x \in U : \A y \in U : <<y, x>> \notin R
    BY <2>1, WFMin, Zenon
  <2> QED BY <2>2, <2>3, Zenon
<1> DEFINE Up   == {x - a : x \in T}
           Down == {b - x : x \in T}
<1>2. Up \subseteq Nat /\ Up # {} /\ Down \subseteq Nat /\ Down # {}
  <2>1. \A x \in T : x - a \in Nat /\ b - x \in Nat
    OBVIOUS
  <2> QED BY <2>1
<1>3. PICK u \in Up : \A y \in Up : u <= y
  BY <1>1, <1>2
<1>4. PICK d \in Down : \A y \in Down : d <= y
  BY <1>1, <1>2
<1>5. \E x \in T : \A y \in T : x <= y
  <2>1. PICK x \in T : u = x - a
    BY <1>3
  <2>2. \A y \in T : x - a <= y - a
    BY <1>3, <2>1
  <2> QED BY <2>2
<1>6. \E x \in T : \A y \in T : y <= x
  <2>1. PICK x \in T : d = b - x
    BY <1>4
  <2>2. \A y \in T : b - x <= b - y
    BY <1>4, <2>1
  <2> QED BY <2>2
<1> QED BY <1>5, <1>6

\* Some partition holds an image that boots.
SomeBootable == \E p \in Parts : Bootable(flash[p])

\* The search returns a partition that boots if there is one, and the one it starts
\* from, or ota_0 where the factory app it starts from does not exist, if that one
\* boots (bootloader_utility.c:755).
LEMMA LoadFinds ==
  ASSUME NEW start \in Slots \cup {FACTORY_INDEX}
  PROVE  LET l == bootloader_utility_load_boot_image(start)
         IN  /\ l \in Parts \cup {Dead}
             /\ l \in Parts => Bootable(flash[l])
             /\ SomeBootable => l \in Parts
             /\ start \in Parts /\ Bootable(flash[start]) => l = start
             /\ start \notin Parts /\ Bootable(flash[0]) => l = 0
<1> DEFINE l    == bootloader_utility_load_boot_image(start)
           down == SearchDown(start)
           up   == SearchUp(start)
<1>1. start \in Int /\ start # TEST_APP_INDEX /\ start >= FACTORY_INDEX
  BY PartNumbers DEF FACTORY_INDEX, TEST_APP_INDEX
<1>2. \A p \in down : p \in Parts /\ p \in Int /\ FACTORY_INDEX <= p /\ p <= start /\ Bootable(flash[p])
  BY PartNumbers DEF SearchDown
<1>3. \A p \in up : p \in Parts /\ p \in Int /\ 0 <= p /\ p <= ota_app_count /\ p > start /\ Bootable(flash[p])
  BY PartNumbers, CountAssumption DEF SearchUp, Slots
<1>4. ASSUME down # {}
      PROVE  l \in down /\ \A q \in down : q <= l
  <2>1. \E p \in down : \A q \in down : q <= p
    BY <1>1, <1>2, <1>4, Extremes, FACTORY_INDEX \in Int DEF FACTORY_INDEX
  <2>2. l = CHOOSE p \in down : \A q \in down : q <= p
    BY <1>1, <1>4 DEF bootloader_utility_load_boot_image
  <2> HIDE DEF down, l
  <2> QED BY <2>1, <2>2
<1>5. ASSUME down = {}, up # {}
      PROVE  l \in up /\ \A q \in up : l <= q
  <2>1. \E p \in up : \A q \in up : p <= q
    <3>1. up \subseteq Int /\ 0 \in Int /\ ota_app_count \in Int
      BY <1>3, CountAssumption
    <3> HIDE DEF up
    <3> QED BY <1>3, <1>5, <3>1, Extremes
  <2>2. l = CHOOSE p \in up : \A q \in up : p <= q
    BY <1>1, <1>5 DEF bootloader_utility_load_boot_image
  <2> HIDE DEF up, l
  <2> QED BY <2>1, <2>2
<1>6. ASSUME down = {}, up = {}
      PROVE  l = IF HasTest /\ Bootable(flash[TEST_APP_INDEX]) THEN TEST_APP_INDEX ELSE Dead
  BY <1>1, <1>6 DEF bootloader_utility_load_boot_image
<1>7. /\ l \in Parts \cup {Dead}
      /\ l \in Parts => Bootable(flash[l])
  BY <1>2, <1>3, <1>4, <1>5, <1>6, PartNumbers
<1>8. SomeBootable => l \in Parts
  <2> SUFFICES ASSUME NEW p \in Parts, Bootable(flash[p]) PROVE l \in Parts
    BY DEF SomeBootable
  <2>1. p # TEST_APP_INDEX => p \in down \/ p \in up
    BY <1>1, PartNumbers DEF SearchDown, SearchUp, FACTORY_INDEX, TEST_APP_INDEX
  <2> QED BY <2>1, <1>2, <1>3, <1>4, <1>5, <1>6, PartNumbers
<1>9. start \in Parts /\ Bootable(flash[start]) => l = start
  <2> SUFFICES ASSUME start \in Parts, Bootable(flash[start]) PROVE l = start
    OBVIOUS
  <2>1. start \in down
    BY <1>1 DEF SearchDown
  <2> QED BY <1>1, <1>2, <1>4, <2>1
<1>10. start \notin Parts /\ Bootable(flash[0]) => l = 0
  <2> SUFFICES ASSUME start \notin Parts, Bootable(flash[0]) PROVE l = 0
    OBVIOUS
  <2>1. start = FACTORY_INDEX
    BY PartNumbers
  <2>2. down = {}
    BY <1>2, <2>1 DEF FACTORY_INDEX
  <2>3. 0 \in up
    BY <2>1, PartNumbers DEF SearchUp, FACTORY_INDEX
  <2> QED BY <1>3, <1>5, <2>2, <2>3
<1> QED BY <1>7, <1>8, <1>9, <1>10

----------------------------------------------------------------------------
(* Every step preserves the invariant. *)

\* Steps that leave otadata alone keep what is known about it.
LEMMA DataStutter ==
  ASSUME DataInv, UNCHANGED dataVars
  PROVE  DataInv' /\ Configured' = Configured
BY DEF dataVars, DataInv, DataTypes, OldBootKept, RewriteInv, Configured

\* The device leaves the factory with erased otadata and the images flashed.
LEMMA UpdateInitInv == SysInit => UpdateInv
<1> SUFFICES ASSUME SysInit PROVE UpdateInv OBVIOUS
<1>1. DataInv
  BY InitInv DEF SysInit, IInv
<1>2. flash \in [Parts -> Cells]
  <2>1. \A p \in Parts : InitialParts[p] \in Images \cup {0}
    BY PartAssumption
  <2>2. \A p \in Parts : [i \in PartCells |->
            IF InitialParts[p] # 0 /\ i <= ImageSectors[InitialParts[p]]
            THEN InitialParts[p] ELSE Blank] \in Cells
    BY <2>1 DEF Cells
  <2> QED BY <2>2 DEF SysInit
<1>3. OTypeOK
  BY <1>2 DEF SysInit, OTypeOK
<1>4. Apart /\ Formatting /\ RunningIntact
  BY PartNumbers DEF SysInit, DataInit, Apart, Formatting, RunningIntact, NoWork, Booting, Dead
<1> QED BY <1>1, <1>3, <1>4 DEF UpdateInv

\* esp_ota_begin refuses the running partition (esp_ota_ops.c:117).
LEMMA BeginInv ==
  ASSUME UpdateInv, NEW p \in Parts, NEW image_size \in 0 .. (PartSectors * SecSize),
         esp_ota_begin(p, image_size)
  PROVE  UpdateInv'
<1>1. DataInv' /\ AppIdle
  BY DataStutter DEF esp_ota_begin, UpdateInv
<1>2. p \in Slots /\ p # running /\ ~(EraseSectors(image_size) > PartSectors)
  BY DEF esp_ota_begin, BeginResult
<1>3. EraseSectors(image_size) \in PartCells /\ 1 \in PartCells
  <2>1. image_size \in Nat /\ SecSize \in Nat \ {0} /\ PartSectors \in Nat \ {0}
    BY PartAssumption
  <2>2. image_size \div SecSize \in Nat
    BY <2>1
  <2>3. EraseSectors(image_size) \in Nat \ {0}
    BY <2>1, <2>2 DEF EraseSectors
  <2> QED BY <1>2, <2>1, <2>3 DEF PartCells
<1>4. work' = [op |-> "erase", part |-> p, at |-> 1, last |-> EraseSectors(image_size)]
  BY DEF esp_ota_begin
<1>5. OTypeOK'
  BY <1>2, <1>3, <1>4 DEF esp_ota_begin, UpdateInv, OTypeOK
<1>6. Apart'
  BY <1>1, <1>2, <1>4, PartNumbers
  DEF esp_ota_begin, AppIdle, UpdateInv, Apart, dataVars
<1>7. Formatting' /\ RunningIntact'
  BY <1>1, <1>4 DEF esp_ota_begin, AppIdle, UpdateInv, Formatting, RunningIntact, dataVars
<1> QED BY <1>1, <1>5, <1>6, <1>7 DEF UpdateInv

\* What a step writes to one sector leaves the other partitions as they are.
LEMMA WriteOneSector ==
  ASSUME NEW f \in [Parts -> Cells], NEW p \in Slots, NEW i \in PartCells,
         NEW x \in Images \cup {Blank, Junk}
  PROVE  LET g == [f EXCEPT ![p][i] = x]
         IN  /\ g \in [Parts -> Cells]
             /\ \A q \in Parts : q # p => g[q] = f[q]
             /\ g[p][i] = x
             /\ \A j \in PartCells : j # i => g[p][j] = f[p][j]
<1> DEFINE g == [f EXCEPT ![p][i] = x]
<1>1. p \in Parts /\ f[p] \in Cells
  BY PartNumbers
<1>2. g = [f EXCEPT ![p] = [f[p] EXCEPT ![i] = x]]
  OBVIOUS
<1>3. [f[p] EXCEPT ![i] = x] \in Cells
  BY <1>1 DEF Cells
<1> HIDE DEF g
<1>4. g[p] = [f[p] EXCEPT ![i] = x]
  BY <1>1, <1>2
<1>5. g \in [Parts -> Cells] /\ \A q \in Parts : q # p => g[q] = f[q]
  BY <1>1, <1>2, <1>3
<1>6. g[p][i] = x /\ \A j \in PartCells : j # i => g[p][j] = f[p][j]
  BY <1>1, <1>4 DEF Cells
<1> USE DEF g
<1> QED BY <1>5, <1>6

\* The erasing goes through the partition asked for (esp_ota_ops.c:125).
LEMMA BeginEraseInv ==
  ASSUME UpdateInv, BeginErase
  PROVE  UpdateInv'
<1>1. DataInv' /\ UNCHANGED dataVars
  BY DataStutter DEF BeginErase, UpdateInv
<1>2. /\ work.op = "erase" /\ running \in Parts /\ work.part # running /\ step = "idle"
      /\ work.part \in Slots /\ work.at \in PartCells /\ work.last \in PartCells
      /\ work \in [op : {"erase", "copy", "copied"}, part : Slots, at : PartCells, last : PartCells]
  BY DEF BeginErase, UpdateInv, OTypeOK, Apart, NoWork
<1>3. /\ flash' \in [Parts -> Cells]
      /\ \A q \in Parts : q # work.part => flash'[q] = flash[q]
  <2>1. flash \in [Parts -> Cells] /\ Blank \in Images \cup {Blank, Junk}
    BY DEF UpdateInv, OTypeOK
  <2>2. flash' = [flash EXCEPT ![work.part][work.at] = Blank]
    BY DEF BeginErase
  <2>3. /\ flash' \in [Parts -> Cells]
        /\ \A q \in Parts : q # work.part => flash'[q] = flash[q]
        /\ flash'[work.part][work.at] = Blank
        /\ \A j \in PartCells : j # work.at => flash'[work.part][j] = flash[work.part][j]
    BY <1>2, <2>1, <2>2, WriteOneSector
  <2> QED BY <2>3
<1>4. CASE work.at < work.last
  <2>1. /\ work' = [work EXCEPT !.at = @ + 1]
        /\ UNCHANGED <<entries, s_ota_ops_last_handle, running, confirmed>>
    BY <1>4 DEF BeginErase
  <2>2. work.at + 1 \in PartCells
    BY <1>2, <1>4, PartAssumption DEF PartCells
  <2>3. OTypeOK'
    BY <1>2, <1>3, <2>1, <2>2 DEF UpdateInv, OTypeOK
  <2>4. work'.op = "erase" /\ work'.part = work.part
    BY <1>2, <2>1
  <2>5. Apart' /\ Formatting' /\ RunningIntact'
    BY <1>1, <1>2, <1>3, <2>1, <2>4, PartNumbers
    DEF UpdateInv, Apart, Formatting, RunningIntact, dataVars
  <2> QED BY <1>1, <2>3, <2>5 DEF UpdateInv
<1>5. CASE ~(work.at < work.last)
  <2> DEFINE new == [handle |-> s_ota_ops_last_handle', part |-> work.part, wrote_size |-> 0]
  <2>1. /\ work' = NoWork /\ s_ota_ops_last_handle' = s_ota_ops_last_handle + 1
        /\ entries' = entries \cup {new}
        /\ UNCHANGED <<running, confirmed>>
    BY <1>5 DEF BeginErase
  <2>2. s_ota_ops_last_handle' \in Nat
    BY <2>1 DEF UpdateInv, OTypeOK
  <2>3. new \in [handle : Nat, part : Slots, wrote_size : 0 .. PartSectors]
    BY <1>2, <2>2, PartAssumption
  <2>4. OTypeOK'
    BY <1>2, <1>3, <2>1, <2>2, <2>3 DEF UpdateInv, OTypeOK
  <2>5. Apart'
    BY <1>1, <1>2, <2>1, PartNumbers DEF UpdateInv, Apart, dataVars, NoWork
  <2>6. Formatting' /\ RunningIntact'
    BY <1>1, <1>2, <1>3, <2>1 DEF UpdateInv, Formatting, RunningIntact, dataVars, NoWork
  <2> QED BY <1>1, <2>4, <2>5, <2>6 DEF UpdateInv
<1> QED BY <1>4, <1>5

\* Programming leaves an image's sector, or none.
LEMMA ProgramType ==
  ASSUME NEW old \in Images \cup {Blank, Junk}, NEW new \in Images \cup {Junk}
  PROVE  Program(old, new) \in Images \cup {Blank, Junk}
BY DEF Program

\* esp_ota_write goes to the partition of the handle (esp_ota_ops.c:155).
LEMMA WriteInv ==
  ASSUME UpdateInv, NEW it \in entries, NEW data \in Images \cup {Junk}, esp_ota_write(it, data)
  PROVE  UpdateInv'
<1>1. DataInv' /\ UNCHANGED dataVars /\ AppIdle
  BY DataStutter DEF esp_ota_write, UpdateInv
<1>2. /\ it \in [handle : Nat, part : Slots, wrote_size : 0 .. PartSectors]
      /\ it.part # running /\ running \in Parts /\ step = "idle" /\ work = NoWork
  BY <1>1 DEF AppIdle, UpdateInv, OTypeOK, Apart
<1>3. it.part \in Slots /\ it.wrote_size + 1 \in PartCells /\ it.wrote_size + 1 \in 0 .. PartSectors
  BY <1>2, PartAssumption DEF esp_ota_write, PartCells
<1>4. Program(flash[it.part][it.wrote_size + 1], data) \in Images \cup {Blank, Junk}
  <2>1. flash[it.part] \in Cells
    BY <1>3, PartNumbers DEF UpdateInv, OTypeOK
  <2>2. flash[it.part][it.wrote_size + 1] \in Images \cup {Blank, Junk}
    BY <1>3, <2>1 DEF Cells
  <2> QED BY <2>2, ProgramType
<1>5. /\ flash' \in [Parts -> Cells]
      /\ \A q \in Parts : q # it.part => flash'[q] = flash[q]
  BY <1>3, <1>4, WriteOneSector DEF esp_ota_write, UpdateInv, OTypeOK
<1> DEFINE new == [it EXCEPT !.wrote_size = @ + 1]
<1>6. /\ entries' = (entries \ {it}) \cup {new}
      /\ UNCHANGED <<running, s_ota_ops_last_handle, work, confirmed>>
  BY DEF esp_ota_write
<1>7. new \in [handle : Nat, part : Slots, wrote_size : 0 .. PartSectors] /\ new.part = it.part
  BY <1>2, <1>3
<1> HIDE DEF new
<1>8. OTypeOK'
  BY <1>5, <1>6, <1>7 DEF UpdateInv, OTypeOK
<1>9. Apart'
  BY <1>1, <1>2, <1>6, <1>7 DEF UpdateInv, Apart, dataVars, NoWork
<1>10. Formatting' /\ RunningIntact'
  BY <1>1, <1>2, <1>5, <1>6 DEF UpdateInv, Formatting, RunningIntact, dataVars, NoWork
<1> QED BY <1>1, <1>8, <1>9, <1>10 DEF UpdateInv

\* esp_ota_end only frees the entry.
LEMMA EndInv ==
  ASSUME UpdateInv, NEW it \in entries, esp_ota_end(it)
  PROVE  UpdateInv'
<1>1. DataInv' /\ UNCHANGED dataVars
  BY DataStutter DEF esp_ota_end, UpdateInv
<1>2. entries' \subseteq entries /\ UNCHANGED <<flash, running, s_ota_ops_last_handle, work, confirmed>>
  BY DEF esp_ota_end
<1> QED BY <1>1, <1>2 DEF UpdateInv, OTypeOK, Apart, Formatting, RunningIntact, dataVars

\* esp_ota_set_boot_partition starts rewriting or formatting otadata.
LEMMA SetBootInv ==
  ASSUME UpdateInv, NEW p \in Parts, esp_ota_set_boot_partition(p)
  PROVE  UpdateInv'
<1>1. /\ step = "idle" /\ work = NoWork /\ running \in Parts
      /\ UNCHANGED <<flash, running, entries, s_ota_ops_last_handle, work>> /\ confirmed' = None
  BY DEF esp_ota_set_boot_partition, AppIdle
<1>2. OTypeOK' /\ RunningIntact'
  BY <1>1 DEF UpdateInv, OTypeOK, RunningIntact
<1>3. ASSUME step' = "format" \/ newBoot' \in Parts
      PROVE  Apart'
  BY <1>1, <1>3, PartNumbers DEF UpdateInv, Apart, NoWork
<1>4. CASE p = FACTORY_INDEX
  <2>1. FormatStart
    BY <1>4 DEF esp_ota_set_boot_partition
  <2> QED BY <1>1, <1>2, <1>3, <2>1, FormatStartInv DEF UpdateInv, Formatting, FormatStart, NoWork
<1>5. CASE p # FACTORY_INDEX
  <2>1. esp_rewrite_ota_data(p) /\ p \in Slots \cup {TEST_APP_INDEX}
    BY <1>5, PartNumbers DEF esp_ota_set_boot_partition
  <2>2. DataInv' /\ step' = "erase" /\ newBoot' \in Parts
    BY <2>1, RewriteStartInv DEF UpdateInv, esp_rewrite_ota_data
  <2> QED BY <1>1, <1>2, <1>3, <2>2 DEF UpdateInv, Formatting, NoWork
<1> QED BY <1>4, <1>5

\* Formatting goes from sector 0 to sector 1.
LEMMA FormatSectorOrder ==
  ASSUME DataInv, Formatting, FormatSector
  PROVE  /\ step' \in {"format", "idle"}
         /\ step' = "format" => newBoot' = find_default_boot_partition /\ otadata'[0] = Erased
         /\ step' = "idle" => /\ otadata'[0] = Erased /\ otadata'[1] = Erased
                              /\ Configured' = newBoot
<1>1. otadata \in Contents /\ wsec \in Sectors
  BY DEF DataInv, DataTypes
<1>2. /\ otadata'[wsec] = Erased /\ step = "format" /\ newBoot' = newBoot
      /\ wsec = 1 => otadata'[0] = otadata[0]
  BY <1>1 DEF FormatSector, Contents, Sectors
<1>3. CASE wsec = 1
  <2>1. step' = "idle" /\ otadata'[0] = Erased /\ otadata'[1] = Erased
    BY <1>2, <1>3 DEF FormatSector, Formatting
  <2> QED BY <1>2, <2>1 DEF Formatting, Configured, esp_ota_get_boot_partition
<1>4. CASE wsec = 0
  BY <1>2, <1>4 DEF FormatSector, Formatting
<1> QED BY <1>1, <1>3, <1>4 DEF Sectors

\* The flash operations of esp_ota_set_boot_partition.
LEMMA SetBootFlashInv ==
  ASSUME UpdateInv, SetBootFlash
  PROVE  UpdateInv'
<1>1. /\ running \in Parts /\ UNCHANGED <<flash, running, entries, s_ota_ops_last_handle, work>>
      /\ confirmed' \in {newBoot, confirmed}
  BY DEF SetBootFlash
<1>2. /\ step \in {"erase", "program", "format"} /\ work.op # "erase"
      /\ step' \in {"idle", "program", "format"} /\ (step' = "program" => step = "erase")
      /\ (step' = "format" => step = "format") /\ newBoot' = newBoot
  BY DEF SetBootFlash, RewriteErase, RewriteProgram, FormatSector, UpdateInv, Apart
<1>3. DataInv'
  BY RewriteEraseInv, RewriteProgramInv, FormatSectorInv DEF SetBootFlash, UpdateInv
<1>4. work.op \notin {"copy", "copied"}
  BY <1>1, PartNumbers DEF UpdateInv, Apart
<1>5. step' = "format" => FormatSector
  BY <1>2 DEF SetBootFlash, RewriteErase, RewriteProgram
<1>6. newBoot \in Parts
  BY <1>2, PartNumbers DEF UpdateInv, Apart, Formatting
<1>7. OTypeOK' /\ RunningIntact'
  BY <1>1, <1>6 DEF UpdateInv, OTypeOK, RunningIntact
<1>8. Apart'
  BY <1>1, <1>2, <1>4, <1>6, PartNumbers DEF UpdateInv, Apart
<1>9. Formatting'
  BY <1>1, <1>2, <1>4, <1>5, FormatSectorOrder DEF UpdateInv, Formatting
<1> QED BY <1>3, <1>7, <1>8, <1>9 DEF UpdateInv

\* A reset leaves flash that a running operation was writing in its old state, or
\* torn: where, and when it can change anything.
LEMMA ResetLeaves ==
  ASSUME OTypeOK, Apart, LoseRam
  PROVE  /\ flash' \in [Parts -> Cells]
         /\ \/ flash' = flash
            \/ \E it \in entries : /\ AppIdle
                                   /\ \A q \in Parts : q # it.part => flash'[q] = flash[q]
            \/ /\ work.op = "erase"
               /\ \A q \in Parts : q # work.part => flash'[q] = flash[q]
            \/ /\ work.op = "copy"
               /\ \A q \in Parts : q # 0 => flash'[q] = flash[q]
               /\ \A i \in PartCells : i # work.at => flash'[0][i] = flash[0][i]
               /\ flash'[0][work.at] \in {Blank, Junk}
<1>1. CASE flash' = flash
  BY <1>1 DEF OTypeOK
<1>2. ASSUME NEW it \in entries, AppIdle, it.wrote_size < PartSectors,
             flash' = [flash EXCEPT ![it.part][it.wrote_size + 1] = Junk]
      PROVE  flash' \in [Parts -> Cells] /\ \A q \in Parts : q # it.part => flash'[q] = flash[q]
  <2>1. it.part \in Slots /\ it.wrote_size + 1 \in PartCells
    BY <1>2, PartAssumption DEF OTypeOK, PartCells
  <2> QED BY <1>2, <2>1, WriteOneSector DEF OTypeOK
<1>3. ASSUME work.op \in {"erase", "copy"}, NEW x \in {Blank, Junk},
             flash' = [flash EXCEPT ![work.part][work.at] = x]
      PROVE  /\ flash' \in [Parts -> Cells] /\ \A q \in Parts : q # work.part => flash'[q] = flash[q]
             /\ \A i \in PartCells : i # work.at => flash'[work.part][i] = flash[work.part][i]
             /\ flash'[work.part][work.at] = x
  <2>1. work.part \in Slots /\ work.at \in PartCells
    BY <1>3 DEF OTypeOK, NoWork
  <2>2. x \in Images \cup {Blank, Junk} /\ flash \in [Parts -> Cells]
    BY DEF OTypeOK
  <2>3. /\ flash' \in [Parts -> Cells]
        /\ \A q \in Parts : q # work.part => flash'[q] = flash[q]
        /\ flash'[work.part][work.at] = x
        /\ \A i \in PartCells : i # work.at => flash'[work.part][i] = flash[work.part][i]
    BY <1>3, <2>1, <2>2, WriteOneSector
  <2> QED BY <2>3
<1>4. \/ flash' = flash
      \/ \E it \in entries : /\ AppIdle /\ it.wrote_size < PartSectors
                             /\ flash' = [flash EXCEPT ![it.part][it.wrote_size + 1] = Junk]
      \/ \E x \in {Blank, Junk} : /\ work.op \in {"erase", "copy"}
                                  /\ flash' = [flash EXCEPT ![work.part][work.at] = x]
  BY DEF LoseRam, TornCells
<1>5. work.op = "copy" => work.part = 0
  BY DEF Apart
<1> QED BY <1>1, <1>2, <1>3, <1>4, <1>5

\* A reset at any point.
LEMMA ResetInv ==
  ASSUME UpdateInv, LoseRam
  PROVE  UpdateInv'
<1>1. DataInv' /\ step' = "idle"
  BY PowerFailInv DEF LoseRam, PowerFail, UpdateInv
<1>2. flash' \in [Parts -> Cells]
  BY ResetLeaves DEF UpdateInv
<1>3. running' = Booting /\ entries' = {} /\ s_ota_ops_last_handle' = 0 /\ work' = NoWork
      /\ UNCHANGED confirmed
  BY DEF LoseRam
<1>4. OTypeOK'
  BY <1>2, <1>3 DEF UpdateInv, OTypeOK
<1>5. Apart' /\ Formatting' /\ RunningIntact'
  BY <1>1, <1>3, PartNumbers DEF Apart, Formatting, RunningIntact, NoWork, Booting, Dead
<1> QED BY <1>1, <1>4, <1>5 DEF UpdateInv

\* What the bootloader starts is an image that boots.
LEMMA BootInv ==
  ASSUME UpdateInv, Boot \/ BootTestApp
  PROVE  UpdateInv'
<1>1. DataInv' /\ UNCHANGED dataVars
  BY DataStutter DEF Boot, BootTestApp, UpdateInv
<1>2. /\ running = Booting /\ step = "idle" /\ work = NoWork
      /\ UNCHANGED <<flash, entries, s_ota_ops_last_handle, work, confirmed>>
  BY DEF Boot, BootTestApp, BootIdle
<1>3. running' \in Parts \cup {Dead} /\ (running' \in Parts => Bootable(flash[running']))
  <2>1. CASE Boot
    BY <2>1, SelectedPart, LoadFinds DEF Boot, UpdateInv
  <2>2. CASE BootTestApp
    BY <2>2, PartNumbers DEF BootTestApp, bootloader_utility_load_boot_image
  <2> QED BY <2>1, <2>2
<1>4. entries = {}
  BY <1>2, PartNumbers DEF UpdateInv, Apart
<1>5. OTypeOK' /\ RunningIntact'
  BY <1>2, <1>3 DEF UpdateInv, OTypeOK, RunningIntact
<1>6. Apart' /\ Formatting'
  BY <1>1, <1>2, <1>3, <1>4, PartNumbers DEF UpdateInv, Apart, Formatting, dataVars, NoWork
<1> QED BY <1>1, <1>5, <1>6 DEF UpdateInv

\* The factory reset pin and the erasing it leads to.
LEMMA BootFormatInv ==
  ASSUME UpdateInv, FactoryReset \/ BootFormat
  PROVE  UpdateInv'
<1>1. running = Booting /\ UNCHANGED <<flash, running, entries, s_ota_ops_last_handle, work>>
      /\ confirmed' \in {None, confirmed}
  BY DEF FactoryReset, BootFormat, BootIdle, sysVars
<1>2. OTypeOK' /\ RunningIntact'
  BY <1>1 DEF UpdateInv, OTypeOK, RunningIntact
<1>3. running # Dead
  BY <1>1 DEF Booting, Dead
<1>4. CASE FactoryReset
  <2>1. FormatStart /\ work = NoWork
    BY <1>4 DEF FactoryReset, BootIdle
  <2>2. DataInv'
    BY <2>1, FormatStartInv DEF UpdateInv
  <2>3. Apart' /\ Formatting'
    BY <1>1, <1>3, <2>1 DEF UpdateInv, Apart, Formatting, FormatStart, NoWork
  <2> QED BY <1>2, <2>2, <2>3 DEF UpdateInv
<1>5. CASE BootFormat
  <2>1. FormatSector /\ step = "format"
    BY <1>5 DEF BootFormat
  <2>2. DataInv'
    BY <2>1, FormatSectorInv DEF UpdateInv
  <2>3. Apart' /\ Formatting'
    BY <1>1, <1>3, <2>1, FormatSectorOrder DEF UpdateInv, Apart, Formatting
  <2> QED BY <1>2, <2>2, <2>3 DEF UpdateInv
<1> QED BY <1>4, <1>5

\* The copy to ota_0 begins, with the whole partition to do.
LEMMA CopyStartInv ==
  ASSUME UpdateInv, CopyStart
  PROVE  UpdateInv'
<1>1. DataInv' /\ UNCHANGED dataVars
  BY DataStutter DEF CopyStart, UpdateInv
<1>2. /\ running = Booting /\ step = "idle" /\ BootCopyApp
      /\ work' = [op |-> "copy", part |-> 0, at |-> 1, last |-> PartSectors]
      /\ UNCHANGED <<flash, running, entries, s_ota_ops_last_handle, confirmed>>
  BY DEF CopyStart, BootIdle
<1>3. OTypeOK'
  BY <1>2, PartNumbers, PartAssumption DEF UpdateInv, OTypeOK, PartCells
<1>4. Apart' /\ Formatting' /\ RunningIntact'
  BY <1>1, <1>2, PartNumbers
  DEF UpdateInv, Apart, Formatting, RunningIntact, dataVars, Booting, Dead
<1> QED BY <1>1, <1>3, <1>4 DEF UpdateInv

\* What one round of the copying does, whether or not the program operation fails
\* (port.c:282).
LEMMA CopyStep ==
  ASSUME UpdateInv, CopySector \/ CopyWriteFails
  PROVE  /\ running = Booting /\ BootCopyApp /\ step = "idle" /\ work.at \in PartCells
         /\ work.op = "copy" /\ work.last = PartSectors
         /\ UNCHANGED <<running, entries, s_ota_ops_last_handle>>
         /\ flash' \in [Parts -> Cells]
         /\ flash'[1] = flash[1] /\ flash'[0][work.at] \in {flash[1][work.at], Junk}
         /\ \A i \in PartCells : i # work.at => flash'[0][i] = flash[0][i]
         /\ \/ /\ work.at < PartSectors /\ work' = [work EXCEPT !.at = @ + 1]
               /\ UNCHANGED <<dataVars, confirmed>>
            \/ /\ work.at = PartSectors /\ work' = [work EXCEPT !.op = "copied"]
               /\ FormatStart /\ confirmed' = 0
<1>1. work.op = "copy" /\ step = "idle"
  BY DEF CopySector, CopyWriteFails
<1>2. running = Booting /\ BootCopyApp /\ work.last = PartSectors /\ work.at \in PartCells
  BY <1>1 DEF UpdateInv, Apart, OTypeOK, NoWork
<1>3. 0 \in Slots /\ 1 \in Slots /\ 1 \in Parts /\ flash[1] \in Cells
  BY <1>2, CopyTable DEF UpdateInv, OTypeOK
<1>4. flash[1][work.at] \in Images \cup {Blank, Junk}
  BY <1>2, <1>3 DEF Cells
<1>5. PICK x \in {flash[1][work.at], Junk} : flash' = [flash EXCEPT ![0][work.at] = x]
  BY DEF CopySector, CopyWriteFails
<1>6. x \in Images \cup {Blank, Junk}
  BY <1>4
<1>7. /\ flash' \in [Parts -> Cells]
      /\ flash'[1] = flash[1] /\ flash'[0][work.at] = x
      /\ \A i \in PartCells : i # work.at => flash'[0][i] = flash[0][i]
  <2>1. /\ flash' \in [Parts -> Cells]
        /\ \A q \in Parts : q # 0 => flash'[q] = flash[q]
        /\ flash'[0][work.at] = x
        /\ \A i \in PartCells : i # work.at => flash'[0][i] = flash[0][i]
    BY <1>2, <1>3, <1>5, <1>6, WriteOneSector DEF UpdateInv, OTypeOK
  <2> QED BY <1>3, <2>1
<1>8. work.at < PartSectors \/ work.at = PartSectors
  BY <1>2, PartAssumption DEF PartCells
<1> QED BY <1>1, <1>2, <1>5, <1>7, <1>8 DEF CopySector, CopyWriteFails

\* A round of the copying, and the start of the erasing of otadata after the last.
LEMMA CopySectorInv ==
  ASSUME UpdateInv, CopySector \/ CopyWriteFails
  PROVE  UpdateInv'
<1>1. /\ running = Booting /\ BootCopyApp /\ step = "idle" /\ work.at \in PartCells
      /\ work.op = "copy" /\ work.last = PartSectors
      /\ UNCHANGED <<running, entries, s_ota_ops_last_handle>> /\ flash' \in [Parts -> Cells]
  BY CopyStep
<1>2. work \in [op : {"erase", "copy", "copied"}, part : Slots, at : PartCells, last : PartCells]
  BY <1>1 DEF UpdateInv, OTypeOK, NoWork
<1>3. RunningIntact' /\ running # Dead
  BY <1>1, PartNumbers DEF RunningIntact, Booting, Dead
<1>4. CASE /\ work.at < PartSectors /\ work' = [work EXCEPT !.at = @ + 1]
           /\ UNCHANGED <<dataVars, confirmed>>
  <2>1. DataInv' /\ UNCHANGED dataVars
    BY <1>4, DataStutter DEF UpdateInv
  <2>2. work.at + 1 \in PartCells
    BY <1>1, <1>4, PartAssumption DEF PartCells
  <2>3. OTypeOK'
    BY <1>1, <1>2, <1>4, <2>2 DEF UpdateInv, OTypeOK
  <2>4. work'.op = "copy" /\ work'.part = work.part /\ work'.last = work.last
    BY <1>1, <1>2, <1>4
  <2>5. Apart' /\ Formatting'
    BY <1>1, <1>3, <2>1, <2>4 DEF UpdateInv, Apart, Formatting, dataVars
  <2> QED BY <1>3, <2>1, <2>3, <2>5 DEF UpdateInv
<1>5. CASE /\ work.at = PartSectors /\ work' = [work EXCEPT !.op = "copied"]
           /\ FormatStart /\ confirmed' = 0
  <2>1. DataInv'
    BY <1>5, FormatStartInv DEF UpdateInv
  <2>2. work'.op = "copied" /\ work'.part = work.part /\ work'.last = work.last
    BY <1>2, <1>5
  <2>3. OTypeOK'
    BY <1>1, <1>2, <1>5, PartNumbers DEF UpdateInv, OTypeOK
  <2>4. Apart' /\ Formatting'
    BY <1>1, <1>3, <1>5, <2>2 DEF UpdateInv, Apart, Formatting, FormatStart
  <2> QED BY <1>3, <2>1, <2>3, <2>4 DEF UpdateInv
<1> QED BY <1>4, <1>5, CopyStep

\* The bootloader goes on to ota_0.
LEMMA CopyBootInv ==
  ASSUME UpdateInv, CopyBoot
  PROVE  UpdateInv'
<1>1. DataInv' /\ UNCHANGED dataVars
  BY DataStutter DEF CopyBoot, UpdateInv
<1>2. /\ running = Booting /\ step = "idle" /\ work' = NoWork /\ confirmed' = None
      /\ UNCHANGED <<flash, entries, s_ota_ops_last_handle>>
  BY DEF CopyBoot, UpdateInv, Apart
<1>3. running' \in Parts \cup {Dead} /\ (running' \in Parts => Bootable(flash[running']))
  BY LoadFinds, PartNumbers DEF CopyBoot
<1>4. entries = {}
  BY <1>2, PartNumbers DEF UpdateInv, Apart
<1>5. OTypeOK' /\ RunningIntact'
  BY <1>2, <1>3 DEF UpdateInv, OTypeOK, RunningIntact
<1>6. Apart' /\ Formatting'
  BY <1>1, <1>2, <1>3, <1>4, PartNumbers DEF UpdateInv, Apart, Formatting, dataVars, NoWork
<1> QED BY <1>1, <1>5, <1>6 DEF UpdateInv

\* Every step of application and bootloader, and every reset.
LEMMA UpdateStepInv ==
  ASSUME UpdateInv, [DeviceNext]_deviceVars
  PROVE  UpdateInv'
<1>1. CASE UNCHANGED deviceVars
  <2>1. DataInv' /\ UNCHANGED dataVars
    BY <1>1, DataStutter DEF deviceVars, UpdateInv
  <2> QED BY <1>1, <2>1
          DEF deviceVars, dataVars, UpdateInv, OTypeOK, Apart, Formatting, RunningIntact
<1>2. CASE BootNext
  BY <1>2, BootInv, BootFormatInv, CopyStartInv, CopySectorInv, CopyBootInv DEF BootNext
<1>3. CASE AppNext
  BY <1>3, BeginInv, BeginEraseInv, WriteInv, EndInv, SetBootInv, SetBootFlashInv DEF AppNext
<1> QED BY <1>1, <1>2, <1>3, ResetInv, CopySectorInv DEF DeviceNext

\* The steps of SysSpec are among them.
LEMMA SysSteps == [SysNext]_otaVars => [DeviceNext]_deviceVars
BY DEF SysNext, DeviceNext, Reset, otaVars, sysVars, deviceVars

\* Updating never touches the partition that is executing.
THEOREM ExecutingNeverTouched == SysSpec => [](OTypeOK /\ RunningIntact)
<1>1. UpdateInv /\ [SysNext]_otaVars => UpdateInv'
  BY SysSteps, UpdateStepInv
<1>2. UpdateInv => OTypeOK /\ RunningIntact
  BY DEF UpdateInv
<1> QED BY UpdateInitInv, <1>1, <1>2, PTL DEF SysSpec

----------------------------------------------------------------------------
(* A reset at any point leaves the device with an image that boots.          *)

\* The configurations it holds in: some app was flashed, and where the bootloader
\* copies ota_1 over ota_0, the application restarts once it has selected ota_1 and
\* no pin erases otadata.
SafeSetup ==
    /\ \E p \in Parts : InitialParts[p] # 0
    /\ BootCopyApp => RestartsAfterSet /\ ~FactoryResetPin

\* With the copy option ota_1 boots whenever it is configured, about to be, or being
\* copied; and an application in ota_0 that has configured it does nothing more.
CopySound ==
    BootCopyApp =>
        /\ Configured = 1 \/ work.op \in {"copy", "copied"} => Bootable(flash[1])
        /\ step \in {"erase", "program"} /\ newBoot = 1 => Bootable(flash[1])
        /\ Configured = 1 /\ running = 0 => confirmed = 1 /\ step = "idle" /\ work = NoWork
        /\ step = "format" => work.op = "copied"

\* Selecting ota_1 and configuring it are the same.
LEMMA SelectsConfigured ==
  ASSUME DataInv
  PROVE  Selected = 1 <=> Configured = 1
<1>1. FACTORY_INDEX # 1
  BY DEF FACTORY_INDEX
<1> QED BY <1>1, SelectedPart

\* A partition that boots stays somewhere: the one running, ota_1 while it is copied,
\* and any other while the bootloader only reads.
LEMMA SomeBootableKept ==
  ASSUME UpdateInv, CopySound, SomeBootable, [DeviceNext]_deviceVars
  PROVE  SomeBootable'
<1>1. UpdateInv'
  BY UpdateStepInv
<1>2. CASE flash' = flash
  BY <1>2 DEF SomeBootable
<1>3. CASE running \in Parts /\ AppNext
  <2>1. running' = running
    BY <1>3 DEF AppNext, esp_ota_begin, BeginErase, esp_ota_write, esp_ota_end,
                esp_ota_set_boot_partition, SetBootFlash
  <2> QED BY <1>1, <1>3, <2>1 DEF UpdateInv, RunningIntact, SomeBootable
<1>4. CASE CopySector \/ CopyWriteFails
  <2>1. BootCopyApp /\ work.op = "copy" /\ flash'[1] = flash[1]
    BY <1>4, CopyStep
  <2> QED BY <2>1, CopyTable DEF CopySound, SomeBootable
<1>5. CASE LoseRam
  <2>1. CASE running \in Parts
    <3>1. flash'[running] = flash[running]
      BY <1>5, <2>1, ResetLeaves, PartNumbers DEF UpdateInv, Apart
    <3> QED BY <2>1, <3>1 DEF UpdateInv, RunningIntact, SomeBootable
  <2>2. CASE running \notin Parts /\ flash' # flash
    <3>1. work.op = "copy" /\ BootCopyApp
      BY <1>5, <2>2, ResetLeaves DEF UpdateInv, Apart
    <3>2. 1 \in Parts /\ flash'[1] = flash[1]
      BY <1>5, <2>2, <3>1, ResetLeaves, CopyTable DEF UpdateInv, Apart
    <3> QED BY <3>1, <3>2 DEF CopySound, SomeBootable
  <2> QED BY <1>2, <2>1, <2>2
<1>6. CASE BootNext \/ UNCHANGED deviceVars
  BY <1>2, <1>4, <1>6
  DEF BootNext, Boot, FactoryReset, BootFormat, BootTestApp, CopyStart, CopyBoot, sysVars, deviceVars
<1>7. AppNext => running \in Parts
  BY DEF AppNext, esp_ota_begin, BeginErase, esp_ota_write, esp_ota_end,
         esp_ota_set_boot_partition, SetBootFlash, AppIdle
<1> QED BY <1>3, <1>4, <1>5, <1>6, <1>7 DEF DeviceNext

\* What the application does keeps a configured ota_1 whole.
LEMMA CopySoundApp ==
  ASSUME UpdateInv, CopySound, SafeSetup, AppNext
  PROVE  CopySound'
<1> SUFFICES ASSUME BootCopyApp PROVE CopySound'
  BY DEF CopySound
<1>1. Slots = {0, 1} /\ Parts = {0, 1} /\ RestartsAfterSet /\ 1 # None /\ 1 # FACTORY_INDEX
      /\ 0 # FACTORY_INDEX
  BY CopyTable DEF SafeSetup, None, FACTORY_INDEX
<1>2. running \in Parts /\ UNCHANGED running
  BY DEF AppNext, esp_ota_begin, BeginErase, esp_ota_write, esp_ota_end,
         esp_ota_set_boot_partition, SetBootFlash, AppIdle
<1>3. work.op \notin {"copy", "copied"} /\ step # "format"
  BY <1>2, PartNumbers DEF UpdateInv, Apart, CopySound
<1>4. AppIdle => ~(Configured = 1 /\ running = 0)
  BY <1>1 DEF AppIdle, CopySound
<1>5. ASSUME NEW p \in Parts, NEW image_size \in 0 .. (PartSectors * SecSize),
             esp_ota_begin(p, image_size)
      PROVE  CopySound'
  <2>1. AppIdle /\ UNCHANGED <<dataVars, flash, confirmed>> /\ work'.op = "erase"
    BY <1>5 DEF esp_ota_begin
  <2> QED BY <1>1, <1>2, <1>4, <2>1 DEF CopySound, Configured, dataVars, AppIdle
<1>6. ASSUME BeginErase
      PROVE  CopySound'
  <2>1. /\ work.op = "erase" /\ work.part \in {0, 1} /\ work.part # running /\ step = "idle"
        /\ work.at \in PartCells
        /\ UNCHANGED dataVars /\ work'.op \in {"erase", "none"}
    <3>1. work.op = "erase"
      BY <1>6 DEF BeginErase
    <3>2. work \in [op : {"erase", "copy", "copied"}, part : Slots, at : PartCells, last : PartCells]
      BY <3>1 DEF UpdateInv, OTypeOK, NoWork
    <3> QED BY <1>1, <1>6, <3>1, <3>2 DEF BeginErase, UpdateInv, Apart, NoWork
  <2>2. ~(Configured = 1 /\ running = 0)
    BY <2>1 DEF CopySound, NoWork
  <2>3. work.part = 0 => flash'[1] = flash[1]
    <3>1. flash \in [Parts -> Cells] /\ Blank \in Images \cup {Blank, Junk}
      BY DEF UpdateInv, OTypeOK
    <3> QED BY <1>1, <1>6, <2>1, <3>1, WriteOneSector DEF BeginErase
  <2> QED BY <1>1, <1>2, <2>1, <2>2, <2>3 DEF CopySound, Configured, dataVars
<1>7. ASSUME NEW it \in entries, NEW data \in Images \cup {Junk}, esp_ota_write(it, data)
      PROVE  CopySound'
  <2>1. /\ AppIdle /\ UNCHANGED <<dataVars, work>> /\ it.part # running /\ it.part \in {0, 1}
    BY <1>1, <1>7 DEF esp_ota_write, UpdateInv, Apart, OTypeOK
  <2>2. it.part = 0 => flash'[1] = flash[1]
    <3>1. flash \in [Parts -> Cells] /\ flash[it.part] \in Cells
          /\ it.wrote_size \in 0 .. PartSectors /\ it.wrote_size < PartSectors
      BY <1>1, <1>7, <2>1 DEF UpdateInv, OTypeOK, esp_ota_write
    <3>2. it.wrote_size + 1 \in PartCells
      BY <3>1, PartAssumption DEF PartCells
    <3>3. flash[it.part][it.wrote_size + 1] \in Images \cup {Blank, Junk}
      BY <3>1, <3>2 DEF Cells
    <3>4. Program(flash[it.part][it.wrote_size + 1], data) \in Images \cup {Blank, Junk}
      BY <3>3, ProgramType
    <3> QED BY <1>1, <1>7, <3>1, <3>2, <3>4, WriteOneSector DEF esp_ota_write
  <2> QED BY <1>1, <1>2, <1>3, <1>4, <2>1, <2>2 DEF CopySound, Configured, dataVars, AppIdle
<1>8. ASSUME NEW it \in entries, esp_ota_end(it)
      PROVE  CopySound'
  BY <1>8 DEF esp_ota_end, CopySound, Configured, dataVars
<1>9. ASSUME NEW p \in Parts, esp_ota_set_boot_partition(p)
      PROVE  CopySound'
  <2>1. /\ AppIdle /\ Bootable(flash[p]) /\ UNCHANGED <<flash, work>>
        /\ esp_rewrite_ota_data(p)
    BY <1>1, <1>9 DEF esp_ota_set_boot_partition
  <2>2. step' = "erase" /\ newBoot' = p /\ UNCHANGED otadata
    BY <2>1 DEF esp_rewrite_ota_data
  <2> QED BY <1>1, <1>2, <1>3, <1>4, <2>1, <2>2 DEF CopySound, Configured
<1>10. ASSUME SetBootFlash
       PROVE  CopySound'
  <2>1. UNCHANGED <<flash, work>>
    BY <1>10 DEF SetBootFlash
  <2>2. CASE RewriteErase
    <3>1. Configured' = Configured /\ step = "erase" /\ step' = "program" /\ newBoot' = newBoot
      BY <2>2, RewriteEraseInv DEF UpdateInv, RewriteErase
    <3> QED BY <1>2, <1>3, <2>1, <3>1 DEF CopySound
  <2>3. CASE RewriteProgram
    <3>1. newBoot \in Parts /\ step = "program" /\ step' = "idle" /\ confirmed' = newBoot
          /\ work.op # "erase"
      BY <1>10, <2>3 DEF SetBootFlash, RewriteProgram, UpdateInv, Apart
    <3>2. Configured' = newBoot
      BY <1>1, <2>3, <3>1, RewriteProgramInv DEF UpdateInv, SUB_TYPE_ID, TEST_APP_INDEX
    <3>3. work = NoWork
      BY <1>3, <3>1 DEF UpdateInv, OTypeOK
    <3> QED BY <1>3, <2>1, <3>1, <3>2, <3>3 DEF CopySound
  <2>4. ~FormatSector
    BY <1>3 DEF FormatSector
  <2> QED BY <1>10, <2>2, <2>3, <2>4 DEF SetBootFlash
<1> QED BY <1>5, <1>6, <1>7, <1>8, <1>9, <1>10 DEF AppNext

\* And so do the bootloader and a reset.
LEMMA CopySoundBoot ==
  ASSUME UpdateInv, CopySound, SafeSetup, BootNext \/ LoseRam \/ CopyWriteFails
  PROVE  CopySound'
<1> SUFFICES ASSUME BootCopyApp PROVE CopySound'
  BY DEF CopySound
<1>1. /\ Slots = {0, 1} /\ Parts = {0, 1} /\ RestartsAfterSet /\ 1 # None /\ Booting # 0
      /\ ~FactoryResetPin /\ ~HasTest /\ ~HasFactory
  BY CopyTable DEF SafeSetup, None, Booting
<1>2. CASE LoseRam
  <2>1. step' = "idle" /\ work' = NoWork /\ running' = Booting
    BY <1>2 DEF LoseRam, PowerFail
  <2>2. ASSUME Configured' = 1
        PROVE  Bootable(flash[1]) /\ ~(running = 0 /\ (AppIdle \/ work.op = "erase"))
    <3>1. CASE step = "format"
      BY <3>1 DEF CopySound, UpdateInv, Apart, AppIdle
    <3>2. CASE step # "format"
      <4>1. Configured = 1
        BY <1>2, <2>2, <3>2, PowerFailInv DEF LoseRam, UpdateInv
      <4> QED BY <1>1, <4>1 DEF CopySound, AppIdle, NoWork
    <3> QED BY <3>1, <3>2
  <2>3. ASSUME ~(running = 0 /\ (AppIdle \/ work.op = "erase"))
        PROVE  flash'[1] = flash[1]
    <3>1. \A it \in entries : it.part \in {0, 1} /\ it.part # running
      BY <1>1 DEF UpdateInv, OTypeOK, Apart
    <3>2. work.op = "erase" => work.part \in {0, 1} /\ work.part # running /\ running \in Parts
      BY <1>1 DEF UpdateInv, OTypeOK, Apart, NoWork
    <3>3. AppIdle => running \in Parts
      BY DEF AppIdle
    <3> QED BY <1>1, <1>2, <2>3, <3>1, <3>2, <3>3, ResetLeaves DEF UpdateInv
  <2> QED BY <1>1, <2>1, <2>2, <2>3 DEF CopySound, NoWork
<1>3. CASE Boot
  <2>1. Configured # 1 /\ step = "idle" /\ work = NoWork /\ UNCHANGED <<dataVars, flash, work>>
    BY <1>3, SelectsConfigured DEF Boot, BootIdle, UpdateInv
  <2> QED BY <2>1 DEF CopySound, Configured, dataVars, NoWork
<1>4. CASE BootFormat
  <2>1. /\ running = Booting /\ step = "format" /\ FormatSector
        /\ UNCHANGED <<flash, running, work>>
    BY <1>4 DEF BootFormat, sysVars
  <2>2. step' \in {"format", "idle"}
    BY <2>1 DEF FormatSector
  <2> QED BY <1>1, <2>1, <2>2 DEF CopySound
<1>5. CASE CopyStart
  <2>1. Configured = 1 /\ step = "idle" /\ running = Booting
        /\ UNCHANGED <<dataVars, flash, running>>
    BY <1>5, SelectsConfigured DEF CopyStart, BootIdle, UpdateInv
  <2> QED BY <1>1, <2>1 DEF CopySound, Configured, dataVars
<1>6. CASE CopySector \/ CopyWriteFails
  <2>1. /\ running = Booting /\ step = "idle" /\ work.op = "copy" /\ running' = running
        /\ flash'[1] = flash[1]
        /\ \/ step' = "idle"
           \/ step' = "format" /\ work' = [work EXCEPT !.op = "copied"]
    BY <1>6, CopyStep DEF FormatStart, dataVars
  <2>2. step' = "format" => work'.op = "copied"
    <3>1. work \in [op : {"erase", "copy", "copied"}, part : Slots, at : PartCells, last : PartCells]
      BY <2>1 DEF UpdateInv, OTypeOK, NoWork
    <3> QED BY <2>1, <3>1
  <2> QED BY <1>1, <2>1, <2>2 DEF CopySound
<1>7. CASE CopyBoot
  <2>1. Configured = 0
    BY <1>1, <1>7 DEF CopyBoot, UpdateInv, Formatting, Configured, esp_ota_get_boot_partition,
                      find_default_boot_partition
  <2>2. step = "idle" /\ UNCHANGED <<dataVars, flash>> /\ work' = NoWork
    BY <1>7 DEF CopyBoot
  <2> QED BY <2>1, <2>2 DEF CopySound, Configured, dataVars, NoWork
<1>8. ~FactoryReset /\ ~BootTestApp
  BY <1>1 DEF FactoryReset, BootTestApp
<1> QED BY <1>2, <1>3, <1>4, <1>5, <1>6, <1>7, <1>8 DEF BootNext

\* The next boot finds an image.
LEMMA NextBootFinds ==
  ASSUME UpdateInv, CopySound, SomeBootable
  PROVE  SurvivesReset
<1>1. DataInv /\ Dead \notin Parts /\ Dead # 1
  BY PartNumbers DEF UpdateInv, Dead
<1>2. CASE BootCopyApp /\ Selected = 1
  BY <1>1, <1>2, SelectsConfigured DEF CopySound, SurvivesReset, NextBoot
<1>3. CASE ~(BootCopyApp /\ Selected = 1)
  <2>1. bootloader_utility_load_boot_image(Selected) \in Parts
    BY <1>1, SelectedPart, LoadFinds
  <2> QED BY <1>1, <1>3, <2>1 DEF SurvivesReset, NextBoot
<1> QED BY <1>2, <1>3

\* The invariant of the boot path.
BootPathInv == UpdateInv /\ SomeBootable /\ CopySound

\* It holds when the device leaves the factory.
LEMMA BootPathInit ==
  ASSUME SysInit, SafeSetup
  PROVE  BootPathInv
<1>1. UpdateInv
  BY UpdateInitInv
<1>2. SomeBootable
  <2>1. PICK p \in Parts : InitialParts[p] # 0
    BY DEF SafeSetup
  <2>2. InitialParts[p] \in Images
    BY <2>1, PartAssumption
  <2>3. \A i \in 1 .. ImageSectors[InitialParts[p]] : i \in PartCells
    BY <2>2, PartAssumption DEF PartCells
  <2>4. Holds(flash[p], InitialParts[p])
    BY <2>1, <2>2, <2>3 DEF SysInit, Holds
  <2> QED BY <2>2, <2>4 DEF SomeBootable, Bootable
<1>3. CopySound
  <2>1. BootCopyApp => Configured = 0
    BY CopyTable DEF SysInit, DataInit, Configured, esp_ota_get_boot_partition,
                     find_default_boot_partition, Sectors
  <2> QED BY <2>1 DEF SysInit, DataInit, CopySound, NoWork
<1> QED BY <1>1, <1>2, <1>3 DEF BootPathInv

\* And every step keeps it.
LEMMA BootPathStep ==
  ASSUME BootPathInv, SafeSetup, [DeviceNext]_deviceVars
  PROVE  BootPathInv'
<1>1. UpdateInv' /\ SomeBootable'
  BY UpdateStepInv, SomeBootableKept DEF BootPathInv
<1>2. CASE UNCHANGED deviceVars
  BY <1>1, <1>2 DEF deviceVars, dataVars, BootPathInv, CopySound, Configured
<1> QED BY <1>1, <1>2, CopySoundApp, CopySoundBoot DEF DeviceNext, BootPathInv

\* However an update, a change of boot partition or a boot-time copy is interrupted,
\* the bootloader finds an image that boots.
THEOREM NeverBricked == SafeSetup /\ SysSpec => []SurvivesReset
<1>1. SafeSetup /\ BootPathInv /\ [SysNext]_otaVars => BootPathInv'
  BY SysSteps, BootPathStep
<1>2. SafeSetup /\ SysInit => BootPathInv
  BY BootPathInit
<1>3. BootPathInv => SurvivesReset
  BY NextBootFinds DEF BootPathInv
<1>4. SafeSetup => SafeSetup'
  BY DEF SafeSetup
<1> QED BY <1>1, <1>2, <1>3, <1>4, PTL DEF SysSpec

----------------------------------------------------------------------------
(* What esp_ota_set_boot_partition confirmed is what boots.                   *)

\* The first n sectors of ota_0 are a copy of those of ota_1, or failed to be.
CopiedUpTo(n) == \A i \in 1 .. n : flash[0][i] \in {flash[1][i], Blank, Junk}

\* A confirmation is withdrawn when otadata is about to change; otherwise the
\* confirmed partition is the configured one, or ota_0 after an interrupted copy of
\* the configured ota_1 to it.
Confirmation ==
    /\ step \in {"erase", "program"} => confirmed = None
    /\ step = "format" => confirmed = None \/ work.op = "copied"
    /\ work.op = "copy" => CopiedUpTo(work.at - 1)
    /\ work.op = "copied" => confirmed = 0 /\ CopiedUpTo(PartSectors)
    /\ confirmed \in Slots \cup {FACTORY_INDEX} /\ step = "idle" =>
         \/ Configured = confirmed
         \/ BootCopyApp /\ confirmed = 0 /\ running = Booting /\ CopiedUpTo(PartSectors)

\* No confirmation counts as none of an OTA slot or the factory app.
LEMMA NoneConfirmed == None \notin Slots \cup {FACTORY_INDEX}
BY PartNumbers DEF None, FACTORY_INDEX

\* The application's calls.
LEMMA ConfirmationApp ==
  ASSUME UpdateInv, Confirmation, AppNext
  PROVE  Confirmation'
<1>1. running \in Parts /\ running # Booting
  BY PartNumbers
  DEF AppNext, esp_ota_begin, BeginErase, esp_ota_write, esp_ota_end,
      esp_ota_set_boot_partition, SetBootFlash, AppIdle
<1>2. work.op \notin {"copy", "copied"}
  BY <1>1 DEF UpdateInv, Apart
<1>3. ASSUME UNCHANGED <<dataVars, running, confirmed>>, work'.op \notin {"copy", "copied"}
      PROVE  Confirmation'
  BY <1>1, <1>2, <1>3 DEF Confirmation, dataVars, Configured
<1>4. ASSUME NEW p \in Parts, NEW image_size \in 0 .. (PartSectors * SecSize),
             esp_ota_begin(p, image_size)
      PROVE  Confirmation'
  BY <1>3, <1>4 DEF esp_ota_begin
<1>5. ASSUME BeginErase
      PROVE  Confirmation'
  <2>1. work.op = "erase"
    BY <1>5 DEF BeginErase
  <2>2. work \in [op : {"erase", "copy", "copied"}, part : Slots, at : PartCells, last : PartCells]
    BY <2>1 DEF UpdateInv, OTypeOK, NoWork
  <2>3. work'.op \in {"erase", "none"}
    BY <1>5, <2>1, <2>2 DEF BeginErase, NoWork
  <2> QED BY <1>3, <1>5, <2>3 DEF BeginErase
<1>6. ASSUME NEW it \in entries, NEW data \in Images \cup {Junk},
             esp_ota_write(it, data) \/ esp_ota_end(it)
      PROVE  Confirmation'
  BY <1>2, <1>3, <1>6 DEF esp_ota_write, esp_ota_end
<1>7. ASSUME NEW p \in Parts, esp_ota_set_boot_partition(p)
      PROVE  Confirmation'
  <2>1. confirmed' = None /\ work' = work
    BY <1>7 DEF esp_ota_set_boot_partition
  <2> QED BY <1>2, <2>1, NoneConfirmed DEF Confirmation
<1>8. ASSUME SetBootFlash
      PROVE  Confirmation'
  <2>1. work' = work
    BY <1>8 DEF SetBootFlash
  <2>2. CASE RewriteErase
    <3>1. step' = "program" /\ step = "erase" /\ confirmed' = confirmed
      BY <1>8, <2>2 DEF SetBootFlash, RewriteErase
    <3> QED BY <1>2, <2>1, <3>1 DEF Confirmation
  <2>3. CASE RewriteProgram
    <3>1. step' = "idle" /\ confirmed' = newBoot /\ Configured' = SUB_TYPE_ID(newBoot)
      BY <1>8, <2>3, RewriteProgramInv DEF SetBootFlash, RewriteProgram, UpdateInv
    <3>2. confirmed' \in Slots \cup {FACTORY_INDEX} => Configured' = confirmed'
      BY <3>1, PartNumbers DEF SUB_TYPE_ID, FACTORY_INDEX, TEST_APP_INDEX
    <3> QED BY <1>2, <2>1, <3>1, <3>2 DEF Confirmation
  <2>4. CASE FormatSector
    <3>1. step = "format" /\ confirmed = None
      BY <1>2, <2>4 DEF FormatSector, Confirmation
    <3>2. step' \in {"format", "idle"} /\ (step' = "idle" => Configured' = newBoot)
      BY <2>4, FormatSectorOrder DEF UpdateInv
    <3>3. confirmed' = IF step' = "idle" THEN newBoot ELSE None
      BY <1>8, <3>1 DEF SetBootFlash
    <3> QED BY <1>2, <2>1, <3>2, <3>3, NoneConfirmed DEF Confirmation
  <2> QED BY <1>8, <2>2, <2>3, <2>4 DEF SetBootFlash
<1> QED BY <1>4, <1>5, <1>6, <1>7, <1>8 DEF AppNext

\* A reset: the copy to ota_0 keeps the sectors it has done.
LEMMA ConfirmationReset ==
  ASSUME UpdateInv, Confirmation, LoseRam
  PROVE  Confirmation'
<1>1. step' = "idle" /\ work' = NoWork /\ running' = Booting /\ confirmed' = confirmed
  BY DEF LoseRam, PowerFail
<1>2. SUFFICES ASSUME confirmed \in Slots \cup {FACTORY_INDEX}
               PROVE  \/ Configured' = confirmed
                      \/ BootCopyApp /\ confirmed = 0 /\ CopiedUpTo(PartSectors)'
  BY <1>1 DEF Confirmation, NoWork
<1>3. step \in {"idle", "format"}
  BY <1>2, NoneConfirmed DEF Confirmation, UpdateInv, DataInv, DataTypes, Steps
<1>4. CASE step = "format"
  <2>1. work.op = "copied" /\ BootCopyApp /\ running = Booting
    BY <1>2, <1>4, NoneConfirmed DEF Confirmation, UpdateInv, Apart
  <2>2. flash' = flash
    BY <1>4, <2>1, ResetLeaves DEF UpdateInv, AppIdle
  <2> QED BY <2>1, <2>2 DEF Confirmation, CopiedUpTo
<1>5. CASE step = "idle" /\ Configured = confirmed
  BY <1>5, PowerFailInv DEF LoseRam, UpdateInv, Configured
<1>6. CASE step = "idle" /\ BootCopyApp /\ confirmed = 0 /\ running = Booting /\ CopiedUpTo(PartSectors)
  <2>1. running \notin Parts /\ entries = {} /\ 1 \in Parts
    BY <1>6, PartNumbers, CopyTable DEF UpdateInv, Apart
  <2>2. flash' = flash \/ /\ flash'[1] = flash[1]
                          /\ \A i \in PartCells : i # work.at => flash'[0][i] = flash[0][i]
                          /\ flash'[0][work.at] \in {Blank, Junk}
    BY <2>1, ResetLeaves DEF UpdateInv, Apart
  <2>3. CopiedUpTo(PartSectors)'
    BY <1>6, <2>2 DEF CopiedUpTo, PartCells
  <2> QED BY <1>6, <2>3
<1> QED BY <1>2, <1>3, <1>4, <1>5, <1>6 DEF Confirmation

\* The bootloader.
LEMMA ConfirmationBoot ==
  ASSUME UpdateInv, Confirmation, BootNext \/ CopyWriteFails
  PROVE  Confirmation'
<1>1. CASE Boot \/ BootTestApp
  <2>1. /\ step = "idle" /\ work = NoWork /\ UNCHANGED <<dataVars, flash, work, confirmed>>
        /\ BootCopyApp => Configured # 1
    BY <1>1, SelectsConfigured, CopyTable DEF Boot, BootTestApp, BootIdle, UpdateInv
  <2>2. BootCopyApp => Configured = 0
    BY <2>1, ConfiguredPart, CopyTable DEF UpdateInv
  <2> QED BY <2>1, <2>2 DEF Confirmation, Configured, dataVars, NoWork
<1>2. CASE FactoryReset
  <2>1. step' = "format" /\ confirmed' = None /\ work' = NoWork
    BY <1>2 DEF FactoryReset, BootIdle, FormatStart
  <2> QED BY <2>1 DEF Confirmation, NoWork
<1>3. CASE BootFormat
  <2>1. /\ step = "format" /\ FormatSector /\ UNCHANGED <<flash, running, work, confirmed>>
        /\ step' \in {"format", "idle"} /\ running = Booting
    BY <1>3 DEF BootFormat, FormatSector, sysVars
  <2>2. CASE work.op = "copied"
    <3>1. BootCopyApp /\ confirmed = 0 /\ CopiedUpTo(PartSectors)
      BY <2>2 DEF UpdateInv, Apart, Confirmation
    <3>2. CopiedUpTo(PartSectors)'
      BY <2>1, <3>1 DEF CopiedUpTo
    <3> QED BY <2>1, <2>2, <3>1, <3>2 DEF Confirmation
  <2>3. CASE work.op # "copied"
    <3>1. confirmed' = None /\ work'.op \notin {"copy", "copied"}
      BY <2>1, <2>3 DEF Confirmation, UpdateInv, Apart
    <3> QED BY <2>1, <3>1, NoneConfirmed DEF Confirmation
  <2> QED BY <2>2, <2>3
<1>4. CASE CopyStart
  <2>1. /\ UNCHANGED <<dataVars, flash, running, confirmed>> /\ step = "idle"
        /\ work'.op = "copy" /\ work'.at = 1
    BY <1>4 DEF CopyStart, BootIdle
  <2> QED BY <2>1 DEF Confirmation, CopiedUpTo, Configured, dataVars
<1>5. CASE CopySector \/ CopyWriteFails
  <2>1. /\ running = Booting /\ BootCopyApp /\ step = "idle" /\ work.at \in PartCells
        /\ work.op = "copy" /\ running' = running
        /\ flash'[1] = flash[1] /\ flash'[0][work.at] \in {flash[1][work.at], Junk}
        /\ \A i \in PartCells : i # work.at => flash'[0][i] = flash[0][i]
    BY <1>5, CopyStep
  <2>2. CopiedUpTo(work.at - 1) /\ work.at \in 1 .. PartSectors
    BY <2>1 DEF Confirmation, PartCells
  <2>3. \A i \in 1 .. work.at : flash'[0][i] \in {flash'[1][i], Blank, Junk}
    BY <2>1, <2>2, PartAssumption DEF CopiedUpTo, PartCells
  <2>4. work \in [op : {"erase", "copy", "copied"}, part : Slots, at : PartCells, last : PartCells]
    BY <2>1 DEF UpdateInv, OTypeOK, NoWork
  <2>5. CASE /\ work.at < PartSectors /\ work' = [work EXCEPT !.at = @ + 1]
             /\ UNCHANGED <<dataVars, confirmed>>
    <3>1. work'.op = "copy" /\ work'.at - 1 = work.at
      BY <2>1, <2>2, <2>4, <2>5
    <3>2. CopiedUpTo(PartSectors) => CopiedUpTo(PartSectors)'
      BY <2>1 DEF CopiedUpTo, PartCells
    <3>3. CopiedUpTo(work.at - 1)'
      BY <2>3, <3>1 DEF CopiedUpTo
    <3> QED BY <2>1, <2>5, <3>1, <3>2, <3>3 DEF Confirmation, Configured, dataVars
  <2>6. CASE /\ work.at = PartSectors /\ work' = [work EXCEPT !.op = "copied"]
             /\ FormatStart /\ confirmed' = 0
    <3>1. work'.op = "copied" /\ step' = "format"
      BY <2>4, <2>6 DEF FormatStart
    <3>2. CopiedUpTo(PartSectors)'
      BY <2>3, <2>6 DEF CopiedUpTo
    <3> QED BY <2>6, <3>1, <3>2 DEF Confirmation
  <2> QED BY <1>5, <2>5, <2>6, CopyStep
<1>6. CASE CopyBoot
  <2>1. step = "idle" /\ step' = step /\ work' = NoWork /\ confirmed' = None
    BY <1>6 DEF CopyBoot, dataVars
  <2> QED BY <2>1, NoneConfirmed DEF Confirmation, NoWork
<1> QED BY <1>1, <1>2, <1>3, <1>4, <1>5, <1>6 DEF BootNext

\* The image a partition holds is the one its first sector belongs to.
LEMMA ImageOfFirst ==
  ASSUME NEW cells, NEW v \in Images, Holds(cells, v)
  PROVE  ImageIn(cells) = v
<1>1. \A w \in Images : Holds(cells, w) => w = cells[1]
  BY ImageNumbers, PartAssumption DEF Holds
<1> QED BY <1>1 DEF ImageIn

\* What is configured and verifies is what boots, as itself or as a copy.
LEMMA ConfirmedIsNext ==
  ASSUME UpdateInv, Confirmation
  PROVE  ConfirmedBoots
<1> SUFFICES ASSUME confirmed \in Slots \cup {FACTORY_INDEX}, step = "idle", Bootable(flash[confirmed])
             PROVE  RestartRuns(confirmed)
  BY DEF ConfirmedBoots
<1>1. DataInv
  BY DEF UpdateInv
<1>2. CASE Configured = confirmed
  <2>1. confirmed \in Parts
    BY <1>1, <1>2, ConfiguredPart
  <2>2. CASE BootCopyApp /\ Selected = 1
    BY <1>1, <1>2, <2>2, SelectsConfigured DEF RestartRuns, NextBoot
  <2>3. CASE ~(BootCopyApp /\ Selected = 1)
    <3>1. bootloader_utility_load_boot_image(Selected) = confirmed
      BY <1>1, <1>2, <2>1, SelectedPart, LoadFinds, PartNumbers
    <3> QED BY <2>3, <3>1 DEF RestartRuns, NextBoot
  <2> QED BY <2>2, <2>3
<1>3. CASE BootCopyApp /\ confirmed = 0 /\ CopiedUpTo(PartSectors) /\ Configured # confirmed
  <2>1. Selected = 1
    BY <1>1, <1>3, ConfiguredPart, CopyTable, SelectsConfigured
  <2>2. PICK v \in Images : Holds(flash[0], v)
    BY <1>3 DEF Bootable
  <2>3. Holds(flash[1], v)
    <3>1. v \in Nat \ {0} /\ ImageSectors[v] \in 1 .. PartSectors /\ PartSectors \in Nat
      BY ImageNumbers, PartAssumption
    <3>2. \A i \in 1 .. ImageSectors[v] : i \in 1 .. PartSectors
      BY <3>1
    <3> QED BY <1>3, <2>2, <3>1, <3>2 DEF Holds, CopiedUpTo, Blank, Junk
  <2>4. NextBoot = 1 /\ ImageIn(flash[1]) = v /\ ImageIn(flash[0]) = v
    BY <1>3, <2>1, <2>2, <2>3, ImageOfFirst DEF NextBoot, Bootable
  <2> QED BY <1>3, <2>4 DEF RestartRuns, Dead
<1> QED BY <1>2, <1>3 DEF Confirmation

\* Once esp_ota_set_boot_partition returned ESP_OK for an OTA or factory partition,
\* a restart boots it for as long as it verifies.
THEOREM ConfirmationKept == SysSpec => []ConfirmedBoots
<1>1. SysInit => UpdateInv /\ Confirmation
  <2> SUFFICES ASSUME SysInit PROVE Confirmation
    BY UpdateInitInv
  <2> QED BY NoneConfirmed DEF SysInit, DataInit, Confirmation, NoWork
<1>2. UpdateInv /\ Confirmation /\ [SysNext]_otaVars => (UpdateInv /\ Confirmation)'
  <2> SUFFICES ASSUME UpdateInv, Confirmation, [SysNext]_otaVars
               PROVE  UpdateInv' /\ Confirmation'
    OBVIOUS
  <2>1. UpdateInv' /\ [DeviceNext]_deviceVars
    BY SysSteps, UpdateStepInv
  <2>2. CASE UNCHANGED deviceVars
    <3>1. UNCHANGED <<otadata, step, work, flash, running, confirmed>>
      BY <2>2 DEF deviceVars, dataVars
    <3>2. Configured' = Configured /\ CopiedUpTo(PartSectors)' = CopiedUpTo(PartSectors)
          /\ CopiedUpTo(work.at - 1)' = CopiedUpTo(work.at - 1)
      BY <3>1 DEF Configured, CopiedUpTo
    <3> QED BY <2>1, <3>1, <3>2 DEF Confirmation
  <2> QED BY <2>1, <2>2, ConfirmationApp, ConfirmationReset, ConfirmationBoot DEF DeviceNext
<1>3. UpdateInv /\ Confirmation => ConfirmedBoots
  BY ConfirmedIsNext
<1> QED BY <1>1, <1>2, <1>3, PTL DEF SysSpec

----------------------------------------------------------------------------
(* esp_https_ota.                                                             *)

\* The partition the running call of esp_https_ota updates.
UpdatePart == esp_ota_get_next_update_partition(running)

\* `it' is this call's handle, and the partition holds as much of the server's image
\* as it says, and nothing else.
Received(it) ==
    /\ it.handle = s_ota_ops_last_handle
    /\ it.part = UpdatePart
    /\ it.wrote_size <= ImageSectors[Latest]
    /\ \A i \in PartCells :
         flash[UpdatePart][i] = IF i <= it.wrote_size THEN Latest ELSE Blank

\* Handles are numbered in the order they are issued.
HandleInv ==
    /\ \A it \in entries : it.handle <= s_ota_ops_last_handle
    /\ \A a, b \in entries : a.handle = b.handle => a = b

\* Where the call stands, and what it has done to the partition.
JobInv ==
    /\ job \in {"idle", "begin", "read", "end", "set", "setting", "restart"}
    /\ job # "idle" => running \in Parts
    /\ job # "begin" => work.op # "erase"
    /\ job = "begin" => \/ /\ work.op = "erase" /\ work.part = UpdatePart
                           /\ work.last = PartSectors
                           /\ \A i \in 1 .. (work.at - 1) : flash[UpdatePart][i] = Blank
                        \/ /\ work = NoWork
                           /\ \E it \in entries : Received(it) /\ it.wrote_size = 0
    /\ job \in {"read", "end"} => \E it \in entries : Received(it)
    /\ \A it \in entries : \/ it.wrote_size = 0
                           \/ job \in {"read", "end"} /\ it.handle = s_ota_ops_last_handle
    /\ BootsOnlyWholeImage

CallInv == UpdateInv /\ HandleInv /\ JobInv

\* The partition to update is an OTA slot.
LEMMA UpdatesASlot == UpdatePart \in Slots
BY PartNumbers DEF UpdatePart, esp_ota_get_next_update_partition

\* What Received and the properties of the call read.
LEMMA ReceivedKept ==
  ASSUME UNCHANGED <<flash, running, s_ota_ops_last_handle>>
  PROVE  /\ UpdatePart' = UpdatePart
         /\ \A it : Received(it) => Received(it)'
BY DEF Received, UpdatePart, esp_ota_get_next_update_partition

\* The handle of the call is found again by its number.
LEMMA HandleFound ==
  ASSUME CallInv, job \in {"read", "end"}
  PROVE  update_handle \in entries /\ Received(update_handle)
<1>1. PICK it \in entries : Received(it)
  BY DEF CallInv, JobInv
<1>2. \A x \in entries : x.handle = s_ota_ops_last_handle => x = it
  BY <1>1 DEF CallInv, HandleInv, Received
<1>3. update_handle = it
  BY <1>1, <1>2 DEF update_handle, Received
<1> QED BY <1>1, <1>3

\* The steps of esp_https_ota are steps of the device.
LEMMA HttpsSteps ==
  ASSUME CallInv, [HttpsNext]_httpsVars
  PROVE  [DeviceNext]_deviceVars
<1> USE DEF DeviceNext, deviceVars
<1>1. UpdatePart \in Parts /\ 0 \in 0 .. (PartSectors * SecSize)
  BY UpdatesASlot, PartNumbers, PartAssumption
<1>2. StartUpdate => AppNext
  BY <1>1 DEF StartUpdate, AppNext, UpdatePart
<1>3. SetBoot => AppNext \/ UNCHANGED deviceVars
  BY <1>1 DEF SetBoot, AppNext, UpdatePart, otaVars, sysVars
<1>4. EraseForUpdate \/ SettingBoot => AppNext
  BY DEF EraseForUpdate, SettingBoot, AppNext
<1>5. AllocBuffer \/ AllRead \/ AllocFails \/ ConnectionLost => UNCHANGED deviceVars
  BY DEF AllocBuffer, AllRead, AllocFails, ConnectionLost, otaVars, sysVars
<1>6. Restart \/ ResetHttps => LoseRam
  BY DEF Restart, ResetHttps, Reset
<1>7. ReadAndWrite \/ EndUpdate => AppNext
  BY HandleFound, LatestAssumption DEF ReadAndWrite, EndUpdate, AppNext
<1>8. UNCHANGED httpsVars => UNCHANGED deviceVars
  BY DEF httpsVars, otaVars, sysVars
<1> QED BY <1>2, <1>3, <1>4, <1>5, <1>6, <1>7, <1>8 DEF HttpsNext, Progress

\* StartUpdate and EraseForUpdate: esp_ota_begin erases the whole partition, whose
\* size it was not told, and issues the handle.
LEMMA CallBegins ==
  ASSUME CallInv, StartUpdate \/ EraseForUpdate
  PROVE  HandleInv' /\ JobInv'
<1>1. CASE StartUpdate
  <2>1. /\ job = "idle" /\ running \in Parts /\ job' = "begin"
        /\ UNCHANGED <<flash, running, entries, s_ota_ops_last_handle>>
        /\ work' = [op |-> "erase", part |-> UpdatePart, at |-> 1, last |-> EraseSectors(0)]
    BY <1>1 DEF StartUpdate, esp_ota_begin, UpdatePart
  <2>2. EraseSectors(0) = PartSectors
    BY DEF EraseSectors
  <2>3. \A it \in entries : it.wrote_size = 0
    BY <2>1 DEF CallInv, JobInv
  <2>4. UpdatePart' = UpdatePart /\ work'.op = "erase" /\ work'.part = UpdatePart
        /\ work'.last = PartSectors /\ 1 .. (work'.at - 1) = {}
    BY <2>1, <2>2, ReceivedKept
  <2>5. HandleInv'
    BY <2>1 DEF CallInv, HandleInv
  <2>6. JobInv'
    BY <2>1, <2>3, <2>4 DEF JobInv, BootsOnlyWholeImage
  <2> QED BY <2>5, <2>6
<1>2. CASE EraseForUpdate
  <2>1. job = "begin" /\ job' = "begin" /\ BeginErase
    BY <1>2 DEF EraseForUpdate
  <2>2. /\ work.op = "erase" /\ work.part = UpdatePart /\ work.last = PartSectors
        /\ \A i \in 1 .. (work.at - 1) : flash[UpdatePart][i] = Blank
        /\ running \in Parts /\ \A it \in entries : it.wrote_size = 0
    BY <2>1 DEF BeginErase, CallInv, JobInv, NoWork
  <2>3. work \in [op : {"erase", "copy", "copied"}, part : Slots, at : PartCells, last : PartCells]
    BY <2>2 DEF CallInv, UpdateInv, OTypeOK, NoWork
  <2>4. work.at \in 1 .. PartSectors /\ PartSectors \in Nat /\ running' = running
        /\ UpdatePart' = UpdatePart
    BY <2>1, <2>3, PartAssumption
    DEF PartCells, BeginErase, UpdatePart, esp_ota_get_next_update_partition
  <2>5. \A i \in 1 .. work.at : flash'[UpdatePart][i] = Blank
    <3>1. flash \in [Parts -> Cells] /\ Blank \in Images \cup {Blank, Junk}
      BY DEF CallInv, UpdateInv, OTypeOK
    <3>2. PICK u \in Slots : u = UpdatePart
      BY UpdatesASlot
    <3>3. flash' = [flash EXCEPT ![u][work.at] = Blank]
      BY <2>1, <2>2, <3>2 DEF BeginErase
    <3>4. /\ flash' \in [Parts -> Cells]
          /\ \A q \in Parts : q # u => flash'[q] = flash[q]
          /\ flash'[u][work.at] = Blank
          /\ \A j \in PartCells : j # work.at => flash'[u][j] = flash[u][j]
      BY <2>3, <3>1, <3>3, WriteOneSector
    <3> QED BY <2>2, <2>4, <3>2, <3>4 DEF PartCells
  <2>6. CASE work.at < work.last
    <3>1. work' = [work EXCEPT !.at = @ + 1] /\ UNCHANGED <<entries, s_ota_ops_last_handle>>
      BY <2>1, <2>6 DEF BeginErase
    <3>2. work'.op = "erase" /\ work'.part = UpdatePart /\ work'.last = PartSectors
          /\ work'.at - 1 = work.at
      BY <2>2, <2>3, <2>4, <3>1
    <3>3. HandleInv'
      BY <3>1 DEF CallInv, HandleInv
    <3>4. JobInv'
      BY <2>1, <2>2, <2>4, <2>5, <3>1, <3>2 DEF JobInv, BootsOnlyWholeImage
    <3> QED BY <3>3, <3>4
  <2>7. CASE ~(work.at < work.last)
    <3>1. PICK new : new = [handle |-> s_ota_ops_last_handle', part |-> work.part, wrote_size |-> 0]
      OBVIOUS
    <3>2. /\ work' = NoWork /\ s_ota_ops_last_handle' = s_ota_ops_last_handle + 1
          /\ entries' = entries \cup {new} /\ s_ota_ops_last_handle \in Nat
      BY <2>1, <2>7, <3>1 DEF BeginErase, CallInv, UpdateInv, OTypeOK
    <3>3. \A it \in entries : it.handle \in Nat /\ it.handle <= s_ota_ops_last_handle
      BY DEF CallInv, UpdateInv, OTypeOK, HandleInv
    <3>4. new.handle = s_ota_ops_last_handle + 1 /\ new.wrote_size = 0 /\ new.part = UpdatePart
      BY <2>2, <3>1, <3>2
    <3>5. HandleInv'
      BY <3>2, <3>3, <3>4 DEF CallInv, HandleInv
    <3>6. \A i \in PartCells : flash'[UpdatePart][i] = Blank
      BY <2>2, <2>4, <2>5, <2>7 DEF PartCells
    <3>7. Received(new)'
      <4>1. 0 <= ImageSectors[Latest] /\ \A i \in PartCells : ~(i <= 0)
        BY ImageNumbers, LatestAssumption, PartAssumption DEF PartCells
      <4> QED BY <2>4, <3>2, <3>4, <3>6, <4>1 DEF Received
    <3>8. JobInv'
      BY <2>1, <2>2, <2>4, <3>2, <3>4, <3>7 DEF JobInv, BootsOnlyWholeImage, NoWork
    <3> QED BY <3>5, <3>8
  <2> QED BY <2>6, <2>7
<1> QED BY <1>1, <1>2

\* The read loop writes the image from its first sector on, and stops for want of a
\* connection or of data.
LEMMA CallReads ==
  ASSUME CallInv, AllocBuffer \/ AllocFails \/ AllRead \/ ConnectionLost \/ ReadAndWrite
  PROVE  HandleInv' /\ JobInv'
<1>1. CASE AllocBuffer \/ AllocFails \/ AllRead \/ ConnectionLost
  <2>1. UNCHANGED <<flash, running, entries, s_ota_ops_last_handle, work>>
    BY <1>1 DEF AllocBuffer, AllocFails, AllRead, ConnectionLost, otaVars, sysVars
  <2>2. HandleInv'
    BY <2>1 DEF CallInv, HandleInv
  <2>3. CASE AllocBuffer
    <3>1. job = "begin" /\ job' = "read" /\ work = NoWork /\ running \in Parts
      BY <2>3 DEF AllocBuffer, CallInv, JobInv
    <3>2. (\E it \in entries : Received(it)) /\ \A it \in entries : it.wrote_size = 0
      BY <3>1 DEF CallInv, JobInv, NoWork
    <3>3. \E it \in entries' : Received(it)'
      BY <2>1, <3>2, ReceivedKept
    <3> QED BY <2>1, <2>2, <3>1, <3>2, <3>3 DEF JobInv, BootsOnlyWholeImage, NoWork
  <2>4. CASE AllocFails
    <3>1. job = "begin" /\ job' = "idle" /\ work = NoWork
      BY <2>4 DEF AllocFails
    <3>2. \A it \in entries : it.wrote_size = 0
      BY <3>1 DEF CallInv, JobInv
    <3> QED BY <2>1, <2>2, <3>1, <3>2 DEF JobInv, BootsOnlyWholeImage, NoWork
  <2>5. CASE AllRead \/ ConnectionLost
    <3>1. job = "read" /\ job' = "end"
      BY <2>5 DEF AllRead, ConnectionLost
    <3>2. \E it \in entries' : Received(it)'
      BY <2>1, <3>1, ReceivedKept DEF CallInv, JobInv
    <3> QED BY <2>1, <2>2, <3>1, <3>2 DEF CallInv, JobInv, BootsOnlyWholeImage
  <2> QED BY <1>1, <2>3, <2>4, <2>5
<1>2. CASE ReadAndWrite
  <2>1. PICK it : it = update_handle
    OBVIOUS
  <2>2. /\ job = "read" /\ job' = "read" /\ it.wrote_size < ImageSectors[Latest]
        /\ esp_ota_write(it, Latest)
    BY <1>2, <2>1 DEF ReadAndWrite
  <2>3. it \in entries /\ Received(it) /\ running \in Parts
    BY <2>1, <2>2, HandleFound DEF CallInv, JobInv
  <2>4. it \in [handle : Nat, part : Slots, wrote_size : 0 .. PartSectors]
    BY <2>3 DEF CallInv, UpdateInv, OTypeOK
  <2>5. PICK new : new = [it EXCEPT !.wrote_size = @ + 1]
    OBVIOUS
  <2>6. new.handle = it.handle /\ new.part = it.part /\ new.wrote_size = it.wrote_size + 1
    BY <2>4, <2>5
  <2>7. /\ entries' = (entries \ {it}) \cup {new} /\ work' = work
        /\ running' = running /\ s_ota_ops_last_handle' = s_ota_ops_last_handle
        /\ flash' = [flash EXCEPT ![it.part][it.wrote_size + 1] = Program(@, Latest)]
    BY <2>2, <2>5 DEF esp_ota_write
  <2>8. /\ ImageSectors[Latest] \in 1 .. PartSectors /\ PartSectors \in Nat
        /\ it.wrote_size \in Nat /\ it.wrote_size + 1 \in PartCells
        /\ it.part = UpdatePart /\ UpdatePart' = UpdatePart
    BY <2>2, <2>3, <2>4, <2>7, ImageNumbers, LatestAssumption, PartAssumption
    DEF PartCells, Received, UpdatePart, esp_ota_get_next_update_partition
  <2>9. Program(flash[it.part][it.wrote_size + 1], Latest) = Latest
    <3>1. flash[UpdatePart][it.wrote_size + 1] = Blank
      BY <2>3, <2>8 DEF Received
    <3> QED BY <2>8, <3>1 DEF Program
  <2>10. \A i \in PartCells :
          flash'[UpdatePart][i] = IF i <= it.wrote_size + 1 THEN Latest ELSE Blank
    <3>1. flash \in [Parts -> Cells] /\ Latest \in Images \cup {Blank, Junk}
      BY LatestAssumption DEF CallInv, UpdateInv, OTypeOK
    <3>2. flash' = [flash EXCEPT ![UpdatePart][it.wrote_size + 1] = Latest]
      BY <2>7, <2>8, <2>9
    <3>3. PICK u \in Slots, k \in PartCells : u = UpdatePart /\ k = it.wrote_size + 1
      BY <2>8, UpdatesASlot
    <3>4. flash' = [flash EXCEPT ![u][k] = Latest]
      BY <3>2, <3>3
    <3>5. /\ flash' \in [Parts -> Cells]
          /\ \A q \in Parts : q # u => flash'[q] = flash[q]
          /\ flash'[u][k] = Latest
          /\ \A j \in PartCells : j # k => flash'[u][j] = flash[u][j]
      BY <3>1, <3>4, WriteOneSector
    <3>6. \A j \in PartCells : flash[UpdatePart][j] = IF j <= it.wrote_size THEN Latest ELSE Blank
      BY <2>3 DEF Received
    <3> QED BY <2>8, <3>3, <3>5, <3>6 DEF PartCells
  <2>11. Received(new)'
    BY <2>2, <2>3, <2>7, <2>6, <2>8, <2>10 DEF Received
  <2>12. \A x \in entries : x # it => x.handle # it.handle /\ x.wrote_size = 0
    BY <2>3 DEF CallInv, HandleInv, JobInv, Received
  <2>13. HandleInv'
    BY <2>3, <2>6, <2>7, <2>12 DEF CallInv, HandleInv
  <2>14. JobInv'
    <3>1. new.handle = s_ota_ops_last_handle'
      BY <2>11 DEF Received
    <3>2. \A x \in entries' : x.wrote_size = 0 \/ x.handle = s_ota_ops_last_handle'
      BY <2>7, <2>12, <3>1
    <3>3. work.op # "erase"
      BY <2>2 DEF CallInv, JobInv
    <3> QED BY <2>2, <2>3, <2>7, <2>11, <3>2, <3>3 DEF JobInv, BootsOnlyWholeImage
  <2> QED BY <2>13, <2>14
<1> QED BY <1>1, <1>2

\* esp_ota_end frees the handle, and lets the call go on only if the image verifies.
LEMMA CallEnds ==
  ASSUME CallInv, EndUpdate
  PROVE  HandleInv' /\ JobInv'
<1> DEFINE it == update_handle
<1>1. /\ job = "end" /\ job' = IF EndResult(it) = "ESP_OK" THEN "set" ELSE "idle"
      /\ entries' = entries \ {it}
      /\ UNCHANGED <<flash, running, s_ota_ops_last_handle, work>>
  BY DEF EndUpdate, esp_ota_end
<1>2. it \in entries /\ Received(it) /\ running \in Parts
  BY <1>1, HandleFound DEF CallInv, JobInv
<1>3. it.wrote_size \in 0 .. PartSectors /\ PartSectors \in Nat \ {0}
  BY <1>2, PartAssumption DEF CallInv, UpdateInv, OTypeOK
<1> HIDE DEF it
<1>4. \A x \in entries' : x.wrote_size = 0
  BY <1>1, <1>2 DEF CallInv, HandleInv, JobInv, Received
<1>5. EndResult(it) = "ESP_OK" => Holds(flash[UpdatePart], Latest)
  <2> SUFFICES ASSUME it.wrote_size # 0, Bootable(flash[UpdatePart])
               PROVE  Holds(flash[UpdatePart], Latest)
    BY <1>2 DEF EndResult, Received
  <2>1. PICK v \in Images : Holds(flash[UpdatePart], v)
    BY DEF Bootable
  <2>2. flash[UpdatePart][1] = v
    BY <2>1, ImageNumbers, PartAssumption DEF Holds
  <2>3. flash[UpdatePart][1] = Latest
    BY <1>2, <1>3 DEF Received, PartCells
  <2> QED BY <2>1, <2>2, <2>3
<1>6. UpdatePart' = UpdatePart
  BY <1>1, ReceivedKept
<1>7. BootsOnlyWholeImage'
  BY <1>1, <1>5, <1>6 DEF BootsOnlyWholeImage, UpdatePart
<1>8. JobInv'
  BY <1>1, <1>2, <1>4, <1>7 DEF CallInv, JobInv
<1> QED BY <1>1, <1>8 DEF CallInv, HandleInv

\* Setting the boot partition touches neither the image nor the handles.
LEMMA CallSets ==
  ASSUME CallInv, SetBoot \/ SettingBoot
  PROVE  HandleInv' /\ JobInv'
<1>1. /\ job \in {"set", "setting"} /\ job' \in {"setting", "restart", "idle"}
      /\ UNCHANGED <<flash, running, entries, s_ota_ops_last_handle, work>>
  BY DEF SetBoot, SettingBoot, SetBootFlash, esp_ota_set_boot_partition, otaVars, sysVars
<1>2. BootsOnlyWholeImage'
  BY <1>1 DEF CallInv, JobInv, BootsOnlyWholeImage, esp_ota_get_next_update_partition
<1> QED BY <1>1, <1>2 DEF CallInv, HandleInv, JobInv

\* A restart or reset ends the call; the bootloader only runs between calls.
LEMMA CallCut ==
  ASSUME CallInv, Restart \/ ResetHttps \/ (BootNext /\ UNCHANGED job)
                  \/ (CopyWriteFails /\ UNCHANGED job)
  PROVE  HandleInv' /\ JobInv'
<1>1. CASE Restart \/ ResetHttps
  <2>1. job' = "idle" /\ entries' = {} /\ work' = NoWork
    BY <1>1 DEF Restart, ResetHttps, Reset, LoseRam
  <2> QED BY <2>1 DEF HandleInv, JobInv, BootsOnlyWholeImage, NoWork
<1>2. CASE (BootNext \/ CopyWriteFails) /\ UNCHANGED job
  <2>1. running = Booting
    BY <1>2 DEF BootNext, Boot, FactoryReset, BootFormat, BootTestApp, BootIdle, CopyStart,
                CopySector, CopyWriteFails, CopyBoot, CallInv, UpdateInv, Apart
  <2>2. entries = {} /\ job = "idle"
    BY <2>1, PartNumbers DEF CallInv, UpdateInv, Apart, JobInv
  <2>3. entries' = entries
    BY <1>2 DEF BootNext, Boot, FactoryReset, BootFormat, BootTestApp, CopyStart,
                CopySector, CopyWriteFails, CopyBoot, sysVars
  <2>4. work'.op # "erase"
    <3>1. UpdateInv'
      BY <1>2, UpdateStepInv DEF CallInv, DeviceNext
    <3>2. work'.op = "erase" => running' \in Parts
      BY <3>1 DEF UpdateInv, Apart
    <3>3. CASE Boot \/ BootTestApp \/ FactoryReset \/ BootFormat
      BY <2>2, <3>3 DEF Boot, BootTestApp, FactoryReset, BootFormat, sysVars, CallInv, JobInv
    <3>4. CASE CopyStart \/ CopyBoot
      BY <3>4 DEF CopyStart, CopyBoot, NoWork
    <3>5. CASE CopySector \/ CopyWriteFails
      BY <2>1, <3>2, <3>5, PartNumbers DEF CopySector, CopyWriteFails
    <3> QED BY <1>2, <3>3, <3>4, <3>5 DEF BootNext
  <2> QED BY <1>2, <2>2, <2>3, <2>4 DEF HandleInv, JobInv, BootsOnlyWholeImage
<1> QED BY <1>1, <1>2

\* Every step of esp_https_ota and of the device under it.
LEMMA CallStep ==
  ASSUME CallInv, [HttpsNext]_httpsVars
  PROVE  CallInv'
<1>1. UpdateInv'
  BY HttpsSteps, UpdateStepInv DEF CallInv
<1>2. CASE UNCHANGED httpsVars
  <2>1. UNCHANGED <<flash, running, entries, s_ota_ops_last_handle, work, job>>
    BY <1>2 DEF httpsVars, otaVars, sysVars
  <2>2. \A it \in entries : Received(it) => Received(it)'
    BY <2>1, ReceivedKept
  <2>3. UpdatePart' = UpdatePart /\ BootsOnlyWholeImage'
    BY <2>1 DEF UpdatePart, CallInv, JobInv, BootsOnlyWholeImage, esp_ota_get_next_update_partition
  <2>4. JobInv'
    BY <2>1, <2>2, <2>3 DEF CallInv, JobInv
  <2> QED BY <1>1, <2>1, <2>4 DEF CallInv, HandleInv
<1> QED BY <1>1, <1>2, CallBegins, CallReads, CallEnds, CallSets, CallCut
        DEF HttpsNext, Progress, CallInv

\* The call begins with nothing open.
LEMMA CallInit == HttpsInit => CallInv
BY UpdateInitInv
DEF HttpsInit, SysInit, CallInv, HandleInv, JobInv, BootsOnlyWholeImage, NoWork

\* esp_https_ota has the partition booted only with the server's image in place from
\* end to end, whatever cut the connection and whatever the partition held before.
THEOREM WholeImageBooted == HttpsSpec => []BootsOnlyWholeImage
<1>1. CallInv => BootsOnlyWholeImage
  BY DEF CallInv, JobInv
<1> QED BY CallInit, CallStep, <1>1, PTL DEF HttpsSpec

\* It returns its handle on every path but the one for want of memory, where nothing
\* was written.
THEOREM HandlesGivenBack == HttpsSpec => []HandlesReturned
<1>1. CallInv => HandlesReturned
  BY DEF CallInv, JobInv, HandlesReturned
<1> QED BY CallInit, CallStep, <1>1, PTL DEF HttpsSpec

\* Nor does a call of esp_https_ota, cut short anywhere, touch the partition that is
\* executing or leave the device without an image that boots.
THEOREM CallNeverBricks == SafeSetup /\ HttpsSpec => [](RunningIntact /\ SurvivesReset)
<1>1. SafeSetup /\ HttpsInit => BootPathInv
  BY BootPathInit DEF HttpsInit
<1>2. SafeSetup /\ CallInv /\ BootPathInv /\ [HttpsNext]_httpsVars => BootPathInv'
  BY HttpsSteps, BootPathStep
<1>3. BootPathInv => RunningIntact /\ SurvivesReset
  BY NextBootFinds DEF BootPathInv, UpdateInv
<1>4. SafeSetup => SafeSetup'
  BY DEF SafeSetup
<1> QED BY CallInit, CallStep, <1>1, <1>2, <1>3, <1>4, PTL DEF HttpsSpec
=============================================================================
