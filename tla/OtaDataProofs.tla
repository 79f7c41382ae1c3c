--------------------------- MODULE OtaDataProofs ---------------------------
(***************************************************************************)
(* Proofs about the otadata protocol for every number of OTA slots, with   *)
(* and without a factory partition, and for power failures at any point.   *)
(***************************************************************************)
EXTENDS OtaData, TLAPS

\* Contents an otadata partition can have.
Contents == [Sectors -> Torn .. MaxSeq]

\* Type correctness, when the test app partition may be asked for too.
DataTypes ==
    /\ otadata \in Contents
    /\ step \in Steps
    /\ wseq \in 0 .. MaxSeq
    /\ wsec \in Sectors
    /\ oldBoot \in Slots \cup {FACTORY_INDEX}
    /\ newBoot \in Slots \cup {FACTORY_INDEX, TEST_APP_INDEX}

\* What a rewrite in progress relies on: the sector it works on is the one whose
\* loss does not matter, and the number it writes outranks the other sector.
RewriteInv ==
    /\ step = "erase" => wsec = TargetSector(otadata)
    /\ step = "program" => otadata[wsec] = Erased
    /\ step \in {"erase", "program"} =>
         /\ wseq >= 1
         /\ SomeValid(otadata) => wseq >= CurrentSeq(otadata)
         /\ SlotOf(wseq) = SUB_TYPE_ID(newBoot)

\* The inductive invariant of the protocol, and that of DataSpec, in which the test
\* app partition is not asked for.
DataInv == DataTypes /\ OldBootKept /\ RewriteInv
IInv == TypeOK /\ DataInv

----------------------------------------------------------------------------
(* Arithmetic of sequence numbers. *)

\* A sequence number names one of the slots.
LEMMA SlotInRange ==
  ASSUME NEW s \in Int
  PROVE  SlotOf(s) \in Slots
BY CountAssumption DEF SlotOf, Slots

\* Adding a multiple of the slot count leaves the remainder.
LEMMA ModAddMultiple ==
  ASSUME NEW x \in Slots, NEW q \in Int
  PROVE  (x + q * ota_app_count) % ota_app_count = x
BY CountAssumption DEF Slots

\* The number esp_rewrite_ota_data computes is not below the current one.
LEMMA NextSeqBound ==
  ASSUME NEW id \in Slots, NEW s \in Nat \ {0}
  PROVE  NextSeq(id, s) \in Nat /\ NextSeq(id, s) >= s
<1> DEFINE n    == ota_app_count
           base == (id + 1) % n
           x    == (s - base) + (n - 1)
<1>1. n \in Nat \ {0} /\ id \in Int /\ base \in 0 .. (n - 1)
  BY CountAssumption DEF Slots
<1>2. CASE s <= base
  BY <1>1, <1>2 DEF NextSeq
<1>3. CASE ~(s <= base)
  <2>1. x \in Nat
    BY <1>1, <1>3
  <2>2. x = n * (x \div n) + (x % n) /\ x % n \in 0 .. (n - 1) /\ x \div n \in Nat
    BY <1>1, <2>1
  <2>3. n * (x \div n) >= s - base
    BY <1>1, <2>1, <2>2
  <2>4. NextSeq(id, s) = base + (x \div n) * n
    BY <1>3 DEF NextSeq
  <2> QED
    BY <1>1, <2>2, <2>3, <2>4
<1> QED BY <1>2, <1>3

\* It names the slot it was computed for.
LEMMA NextSeqSlot ==
  ASSUME NEW id \in Slots, NEW s \in Nat \ {0}
  PROVE  SlotOf(NextSeq(id, s)) = id
<1> DEFINE n    == ota_app_count
           base == (id + 1) % n
           i    == IF s <= base THEN 0 ELSE ((s - base) + (n - 1)) \div n
<1>1. n \in Nat \ {0} /\ id \in 0 .. (n - 1) /\ base \in 0 .. (n - 1)
  BY CountAssumption DEF Slots
<1>2. i \in Int
  BY <1>1
<1>3. NextSeq(id, s) = base + i * n
  BY DEF NextSeq
<1>4. CASE id + 1 < n
  <2>1. base = id + 1
    BY <1>1, <1>4
  <2>2. (id + i * n) % n = id
    BY <1>2, ModAddMultiple
  <2> QED BY <1>1, <1>2, <1>3, <2>1, <2>2 DEF SlotOf
<1>5. CASE id + 1 = n
  <2>1. base = 0
    BY <1>1, <1>5
  <2> HIDE DEF i
  <2>2. (id + (i - 1) * n) % n = id
    BY <1>2, i - 1 \in Int, ModAddMultiple
  <2>3. (base + i * n) - 1 = id + (i - 1) * n
    BY <1>1, <1>2, <1>5, <2>1
  <2> QED BY <1>3, <2>2, <2>3 DEF SlotOf
<1> QED BY <1>1, <1>4, <1>5

\* The same for the first number written to a partition without a valid entry.
LEMMA FirstSeqSlot ==
  ASSUME NEW id \in Slots
  PROVE  SlotOf(id + 1) = id
BY CountAssumption DEF SlotOf, Slots

----------------------------------------------------------------------------
(* Reading otadata. *)

\* Erasing or tearing the sector a rewrite targets changes neither the configured
\* partition nor the sequence number in force.
LEMMA TargetIsExpendable ==
  ASSUME NEW d \in Contents, NEW x \in {Erased, Torn},
         NEW k, k = TargetSector(d)
  PROVE  LET e == [d EXCEPT ![k] = x]
         IN  /\ esp_ota_get_boot_partition(e) = esp_ota_get_boot_partition(d)
             /\ SomeValid(e) = SomeValid(d)
             /\ SomeValid(d) => CurrentSeq(e) = CurrentSeq(d)
             /\ e \in Contents
<1> DEFINE e == [d EXCEPT ![k] = x]
<1>1. d[0] \in Torn .. MaxSeq /\ d[1] \in Torn .. MaxSeq /\ k \in Sectors
  BY DEF Contents, Sectors, TargetSector
<1>2. e \in Contents /\ e[k] = x /\ (k = 0 => e[1] = d[1]) /\ (k = 1 => e[0] = d[0])
  BY <1>1, SeqAssumption DEF Contents, Sectors, Torn, Erased
<1>3. SomeValid(e) = SomeValid(d)
  BY <1>1, <1>2 DEF SomeValid, ota_select_valid, TargetSector, Erased, Torn, Sectors
<1>4. SomeValid(d) => CurrentSeq(e) = CurrentSeq(d)
  BY <1>1, <1>2, SeqAssumption
  DEF SomeValid, ota_select_valid, TargetSector, CurrentSeq, Larger, Erased, Torn, Sectors
<1>5. esp_ota_get_boot_partition(e) = esp_ota_get_boot_partition(d)
  <2>1. ASSUME NEW c \in Contents
        PROVE  esp_ota_get_boot_partition(c) =
                 IF SomeValid(c) THEN SlotOf(CurrentSeq(c)) ELSE find_default_boot_partition
    BY DEF esp_ota_get_boot_partition, SomeValid, ota_select_valid
  <2> QED BY <1>2, <1>3, <1>4, <2>1
<1> QED BY <1>2, <1>3, <1>4, <1>5

\* The configured partition is an OTA slot or the default one.
LEMMA ConfiguredType ==
  ASSUME NEW d \in Contents
  PROVE  /\ esp_ota_get_boot_partition(d) \in Slots \cup {FACTORY_INDEX}
         /\ SomeValid(d) => CurrentSeq(d) \in 1 .. MaxSeq
<1>1. d[0] \in Torn .. MaxSeq /\ d[1] \in Torn .. MaxSeq
  BY DEF Contents, Sectors
<1>2. SomeValid(d) => CurrentSeq(d) \in 1 .. MaxSeq
  BY <1>1, SeqAssumption DEF SomeValid, ota_select_valid, CurrentSeq, Larger, Erased, Torn
<1>3. find_default_boot_partition \in Slots \cup {FACTORY_INDEX}
  BY CountAssumption DEF find_default_boot_partition, Slots, FACTORY_INDEX
<1>4. SomeValid(d) => SlotOf(CurrentSeq(d)) \in Slots
  BY <1>2, SlotInRange, SeqAssumption
<1> QED BY <1>2, <1>3, <1>4 DEF esp_ota_get_boot_partition, SomeValid

----------------------------------------------------------------------------
(* The invariant. *)

\* esp_rewrite_ota_data picks a number that outranks the one in force and names
\* the slot asked for.
LEMMA TargetSeqGood ==
  ASSUME NEW d \in Contents, NEW id \in Slots
  PROVE  /\ TargetSeq(d, id) \in Nat \ {0}
         /\ SomeValid(d) => TargetSeq(d, id) >= CurrentSeq(d)
         /\ SlotOf(TargetSeq(d, id)) = id
<1>1. CASE SomeValid(d)
  <2>1. CurrentSeq(d) \in Nat \ {0}
    BY <1>1, ConfiguredType, SeqAssumption
  <2>2. TargetSeq(d, id) = NextSeq(id, CurrentSeq(d))
    BY <1>1 DEF TargetSeq
  <2> QED BY <2>1, <2>2, NextSeqBound, NextSeqSlot
<1>2. CASE ~SomeValid(d)
  BY <1>2, FirstSeqSlot, CountAssumption DEF TargetSeq, Slots
<1> QED BY <1>1, <1>2

\* Writing the new number over the erased sector puts it in force.
LEMMA ProgramSwitches ==
  ASSUME NEW d \in Contents, NEW k \in Sectors, d[k] = Erased,
         NEW w \in 1 .. MaxSeq, SomeValid(d) => w >= CurrentSeq(d)
  PROVE  LET e == [d EXCEPT ![k] = w]
         IN  e \in Contents /\ SomeValid(e) /\ CurrentSeq(e) = w
<1> DEFINE e == [d EXCEPT ![k] = w]
<1>1. d[0] \in Torn .. MaxSeq /\ d[1] \in Torn .. MaxSeq
  BY DEF Contents, Sectors
<1>2. e \in Contents /\ e[k] = w /\ (k = 0 => e[1] = d[1]) /\ (k = 1 => e[0] = d[0])
  BY SeqAssumption DEF Contents, Sectors, Torn
<1> QED
  BY <1>1, <1>2, SeqAssumption
  DEF SomeValid, ota_select_valid, CurrentSeq, Larger, Erased, Torn, Sectors

\* The protocol starts in a state satisfying the invariant.
LEMMA InitInv == DataInit => IInv
<1> SUFFICES ASSUME DataInit PROVE IInv OBVIOUS
<1>1. TypeOK
  <2>1. find_default_boot_partition \in Slots \cup {FACTORY_INDEX}
    BY CountAssumption DEF find_default_boot_partition, Slots, FACTORY_INDEX
  <2> QED BY <2>1, SeqAssumption DEF DataInit, TypeOK, Sectors, Steps, Erased, Torn
<1>2. OldBootKept /\ RewriteInv
  BY DEF DataInit, OldBootKept, RewriteInv
<1> QED BY <1>1, <1>2 DEF IInv, DataInv, DataTypes, TypeOK, Contents

\* A power failure leaves contents that configure the same partition, unless the
\* partition was being formatted.
LEMMA PowerFailInv ==
  ASSUME DataInv, PowerFail
  PROVE  /\ DataInv'
         /\ step # "format" => /\ Configured' = Configured
                               /\ SomeValid(otadata') = SomeValid(otadata)
                               /\ SomeValid(otadata) => CurrentSeq(otadata') = CurrentSeq(otadata)
         /\ step = "idle" => otadata' = otadata
<1>1. otadata \in Contents /\ wsec \in Sectors /\ step \in Steps
  BY DEF DataInv, DataTypes
<1>2. PICK x \in Leftovers : otadata' = [otadata EXCEPT ![wsec] = x]
  BY DEF PowerFail
<1>3. x \in Torn .. MaxSeq
  BY <1>1, <1>2, SeqAssumption DEF Leftovers, Contents, Torn, Erased
<1>4. otadata' \in Contents
  BY <1>1, <1>2, <1>3 DEF Contents
<1>5. DataInv'
  BY <1>4 DEF DataInv, DataTypes, OldBootKept, RewriteInv, PowerFail, Steps
<1>6. CASE step = "idle" \/ (step = "erase" /\ x = otadata[wsec]) \/ (step = "program" /\ x = Erased)
  <2>1. otadata' = otadata
    BY <1>1, <1>2, <1>6 DEF Leftovers, Contents, DataInv, RewriteInv
  <2> QED BY <1>5, <2>1 DEF Configured
<1>7. CASE step = "erase" /\ x = Torn
  BY <1>1, <1>2, <1>5, <1>7, TargetIsExpendable DEF DataInv, RewriteInv, Configured
<1>8. CASE step = "program" /\ x = Torn
  <2>1. otadata[wsec] = Erased
    BY <1>8 DEF DataInv, RewriteInv
  <2>2. (wsec = 0 => otadata'[1] = otadata[1]) /\ (wsec = 1 => otadata'[0] = otadata[0]) /\ otadata'[wsec] = Torn
    BY <1>1, <1>2, <1>8 DEF Contents, Sectors
  <2>3. SomeValid(otadata') = SomeValid(otadata)
    BY <1>1, <2>1, <2>2 DEF SomeValid, ota_select_valid, Sectors, Erased, Torn
  <2>4. SomeValid(otadata) => CurrentSeq(otadata') = CurrentSeq(otadata)
    BY <1>1, <2>1, <2>2 DEF SomeValid, ota_select_valid, CurrentSeq, Larger, Sectors, Erased, Torn
  <2> QED BY <1>5, <1>8, <2>3, <2>4 DEF Configured, esp_ota_get_boot_partition, SomeValid, ota_select_valid
<1> QED
  BY <1>1, <1>2, <1>5, <1>6, <1>7, <1>8 DEF Steps, Leftovers

\* A rewrite begins with a number that outranks the others, for an OTA slot or the
\* test app partition (esp_ota_ops.c:327).
LEMMA RewriteStartInv ==
  ASSUME DataInv, NEW p \in Slots \cup {TEST_APP_INDEX}, esp_rewrite_ota_data(p)
  PROVE  DataInv'
<1>1. otadata \in Contents
  BY DEF DataInv, DataTypes
<1>2. SUB_TYPE_ID(p) \in Slots
  BY CountAssumption DEF SUB_TYPE_ID, Slots, TEST_APP_INDEX
<1>3. wseq' = TargetSeq(otadata, SUB_TYPE_ID(p)) /\ wseq' <= MaxSeq
  BY DEF esp_rewrite_ota_data
<1>4. /\ wseq' \in Nat \ {0}
      /\ SomeValid(otadata) => wseq' >= CurrentSeq(otadata)
      /\ SlotOf(wseq') = SUB_TYPE_ID(p)
  BY <1>1, <1>2, <1>3, TargetSeqGood
<1>5. Configured \in Slots \cup {FACTORY_INDEX}
  BY <1>1, ConfiguredType DEF Configured
<1>6. DataTypes'
  BY <1>1, <1>3, <1>4, <1>5, SeqAssumption
  DEF esp_rewrite_ota_data, DataTypes, DataInv, Steps, TargetSector, Sectors
<1>7. OldBootKept'
  BY DEF esp_rewrite_ota_data, OldBootKept, Configured
<1>8. RewriteInv'
  BY <1>3, <1>4 DEF esp_rewrite_ota_data, RewriteInv
<1> QED BY <1>6, <1>7, <1>8 DEF DataInv

\* Erasing the target sector changes nothing that counts (esp_ota_ops.c:306).
LEMMA RewriteEraseInv ==
  ASSUME DataInv, RewriteErase
  PROVE  /\ DataInv' /\ Configured' = Configured
         /\ SomeValid(otadata') = SomeValid(otadata)
         /\ SomeValid(otadata) => CurrentSeq(otadata') = CurrentSeq(otadata)
<1>1. otadata \in Contents /\ wsec \in Sectors /\ wsec = TargetSector(otadata)
  BY DEF RewriteErase, DataInv, DataTypes, RewriteInv
<1>2. /\ otadata' \in Contents
      /\ Configured' = Configured
      /\ SomeValid(otadata') = SomeValid(otadata)
      /\ SomeValid(otadata) => CurrentSeq(otadata') = CurrentSeq(otadata)
  BY <1>1, TargetIsExpendable DEF RewriteErase, Configured
<1>3. DataTypes' /\ OldBootKept'
  BY <1>2 DEF RewriteErase, DataInv, DataTypes, OldBootKept, Steps
<1>4. otadata'[wsec] = Erased
  BY <1>1 DEF RewriteErase, Contents
<1>5. RewriteInv'
  BY <1>2, <1>4 DEF RewriteErase, DataInv, RewriteInv
<1> QED BY <1>2, <1>3, <1>5 DEF DataInv

\* Programming it configures the partition asked for (esp_ota_ops.c:310).
LEMMA RewriteProgramInv ==
  ASSUME DataInv, RewriteProgram
  PROVE  /\ DataInv'
         /\ SomeValid(otadata') /\ CurrentSeq(otadata') = wseq
         /\ Configured' = SUB_TYPE_ID(newBoot)
<1>1. otadata \in Contents /\ wsec \in Sectors /\ wseq \in 0 .. MaxSeq
  BY DEF DataInv, DataTypes
<1>2. /\ otadata[wsec] = Erased /\ wseq \in 1 .. MaxSeq
      /\ SomeValid(otadata) => wseq >= CurrentSeq(otadata)
      /\ SlotOf(wseq) = SUB_TYPE_ID(newBoot)
  BY <1>1 DEF RewriteProgram, DataInv, RewriteInv
<1>3. otadata' \in Contents /\ SomeValid(otadata') /\ CurrentSeq(otadata') = wseq
  BY <1>1, <1>2, ProgramSwitches DEF RewriteProgram
<1>4. DataInv'
  BY <1>3 DEF RewriteProgram, DataInv, DataTypes, OldBootKept, RewriteInv, Steps
<1> QED BY <1>2, <1>3, <1>4
        DEF Configured, esp_ota_get_boot_partition, SomeValid, ota_select_valid

\* Formatting begins without a change (esp_ota_ops.c:445).
LEMMA FormatStartInv ==
  ASSUME DataInv, FormatStart
  PROVE  DataInv' /\ newBoot' \in Slots \cup {FACTORY_INDEX}
<1>1. Configured \in Slots \cup {FACTORY_INDEX} /\ find_default_boot_partition \in Slots \cup {FACTORY_INDEX}
  BY ConfiguredType, CountAssumption
  DEF DataInv, DataTypes, Configured, find_default_boot_partition, Slots, FACTORY_INDEX
<1> QED BY <1>1 DEF FormatStart, DataInv, DataTypes, OldBootKept, RewriteInv, Steps, Sectors

\* And erases a sector at a time.
LEMMA FormatSectorInv ==
  ASSUME DataInv, FormatSector
  PROVE  DataInv'
<1>1. otadata' \in Contents
  BY SeqAssumption DEF DataInv, DataTypes, FormatSector, Contents, Torn, Erased
<1> QED BY <1>1 DEF FormatSector, DataInv, DataTypes, OldBootKept, RewriteInv, Steps, Sectors

\* Every step preserves the invariant.
LEMMA StepInv == IInv /\ [DataNext]_dataVars => IInv'
<1> SUFFICES ASSUME IInv, [DataNext]_dataVars PROVE IInv' OBVIOUS
<1>1. DataInv'
  <2>1. CASE UNCHANGED dataVars
    BY <2>1 DEF dataVars, IInv, DataInv, DataTypes, OldBootKept, RewriteInv, Configured
  <2> QED BY <2>1, PowerFailInv, RewriteStartInv, RewriteEraseInv, RewriteProgramInv,
             FormatStartInv, FormatSectorInv DEF DataNext, IInv
<1>2. newBoot' \in Slots \cup {FACTORY_INDEX}
  BY FormatStartInv DEF IInv, TypeOK, DataNext, dataVars, esp_rewrite_ota_data, RewriteErase,
     RewriteProgram, FormatSector, PowerFail
<1> QED BY <1>1, <1>2 DEF IInv, DataInv, DataTypes, TypeOK, Contents

\* The inductive invariant holds throughout.
THEOREM Invariance == DataSpec => []IInv
BY InitInv, StepInv, PTL DEF DataSpec

----------------------------------------------------------------------------
(* The properties. *)

\* The sectors and the operation in progress stay within their types.
THEOREM TypeCorrect == DataSpec => []TypeOK
BY Invariance, PTL DEF IInv

\* However far esp_rewrite_ota_data has got, a reset boots the partition that
\* was configured before the call.
THEOREM OldBootCorrect == DataSpec => []OldBootKept
BY Invariance, PTL DEF IInv, DataInv

\* The application's and the bootloader's reading of otadata agree.
THEOREM BootViewsCorrect == DataSpec => []BootViewsAgree
<1>1. IInv => BootViewsAgree
  <2> SUFFICES ASSUME IInv PROVE BootViewsAgree OBVIOUS
  <2>1. otadata \in Contents
    BY DEF IInv, TypeOK, Contents
  <2>2. SomeValid(otadata) => SlotOf(CurrentSeq(otadata)) \in Slots
    BY <2>1, ConfiguredType, SlotInRange, SeqAssumption
  <2>3. SomeValid(otadata) => SlotOf(CurrentSeq(otadata)) # FACTORY_INDEX
    BY <2>2, CountAssumption DEF Slots, FACTORY_INDEX
  <2> QED
    BY <2>3 DEF BootViewsAgree, Configured, esp_ota_get_boot_partition, FACTORY_INDEX,
                bootloader_utility_get_selected_boot_partition, find_default_boot_partition
<1> QED BY <1>1, Invariance, PTL

\* The configured partition switches in one step, to the one asked for.
THEOREM SwitchCorrect == DataSpec => SwitchesAtomically
<1> DEFINE Done    == RewriteProgram => esp_ota_get_boot_partition(otadata') = newBoot
           Changes == esp_ota_get_boot_partition(otadata') # esp_ota_get_boot_partition(otadata)
           Allowed == RewriteProgram \/ step = "format"
<1>1. IInv => Done
  <2> SUFFICES ASSUME IInv, RewriteProgram
               PROVE  esp_ota_get_boot_partition(otadata') = newBoot
    OBVIOUS
  <2>1. newBoot # TEST_APP_INDEX
    BY DEF IInv, TypeOK, Slots, FACTORY_INDEX, TEST_APP_INDEX
  <2> QED BY <2>1, RewriteProgramInv DEF IInv, Configured, SUB_TYPE_ID
<1>2. IInv /\ DataNext => (Changes => Allowed)
  <2> SUFFICES ASSUME IInv, DataNext, Changes PROVE Allowed
    OBVIOUS
  <2>1. otadata \in Contents
    BY DEF IInv, TypeOK, Contents
  <2>2. CASE RewriteErase
    BY <2>2, RewriteEraseInv DEF IInv, Configured
  <2>3. CASE PowerFail
    BY <2>3, PowerFailInv DEF IInv, Configured
  <2> QED
    BY <2>2, <2>3
    DEF DataNext, esp_rewrite_ota_data, FormatStart, FormatSector
<1>3. IInv /\ [DataNext]_dataVars => [SwitchStep]_dataVars
  BY <1>1, <1>2 DEF SwitchStep
<1> QED BY <1>3, Invariance, PTL DEF DataSpec, SwitchesAtomically

\* The sequence number in force never goes back while otadata is not formatted.
THEOREM SeqCorrect == DataSpec => SeqMonotone
<1>1. IInv /\ [DataNext]_dataVars => [SeqStep]_dataVars
  <2> SUFFICES ASSUME IInv, DataNext, step # "format", SomeValid(otadata)
               PROVE  SomeValid(otadata') /\ CurrentSeq(otadata') >= CurrentSeq(otadata)
    BY DEF SeqStep
  <2>1. otadata \in Contents /\ wsec \in Sectors /\ wseq \in 0 .. MaxSeq
    BY DEF IInv, TypeOK, Contents
  <2>2. CurrentSeq(otadata) \in Int
    BY <2>1, ConfiguredType
  <2>3. CASE RewriteErase
    <3>1. SomeValid(otadata')
      BY <2>3, RewriteEraseInv DEF IInv
    <3> QED BY <2>2, <2>3, <3>1, RewriteEraseInv DEF IInv
  <2>4. CASE RewriteProgram
    <3>1. wseq >= CurrentSeq(otadata)
      BY <2>4 DEF RewriteProgram, IInv, DataInv, RewriteInv
    <3> QED BY <2>4, <3>1, RewriteProgramInv DEF IInv
  <2>5. CASE PowerFail
    BY <2>2, <2>5, PowerFailInv DEF IInv
  <2>6. CASE otadata' = otadata
    BY <2>2, <2>6
  <2> QED
    BY <2>3, <2>4, <2>5, <2>6
    DEF DataNext, esp_rewrite_ota_data, FormatStart, FormatSector
<1> QED BY <1>1, Invariance, PTL DEF DataSpec, SeqMonotone
=============================================================================
