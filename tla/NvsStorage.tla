----------------------------- MODULE NvsStorage -----------------------------
(* The non-volatile storage library (src/components/nvs_flash): a log of   *)
(* key-value entries over flash pages, each page a header, a table of      *)
(* entry states and the entries.                                           *)
(*                                                                         *)
(* Operations run one at a time under the library's lock, so each is one   *)
(* action; the flash writes it makes are kept in order in what the         *)
(* operators below return, and the power may fail after any of them, or    *)
(* inside one: the next start then finds the flash as it was left.  As in  *)
(* the repository's own flash emulator a write takes place word by word, a *)
(* word and a sector erase are atomic, and a bit is only cleared.          *)
EXTENDS Naturals, Sequences, FiniteSets, SequencesExt

CONSTANTS
    Names,          \* the names of keys
    NsOf,           \* the namespace of each name
    ValsOf,         \* the values the application sets each name to, see "entries"
    PageCount,      \* flash pages of the partition
    ENTRY_COUNT,    \* entries of a page
    WordEntries,    \* entries whose states share a word of the entry table
    MaxSeq          \* bound: sequence numbers below it are used, by recovery one more

VARIABLES
    flash,          \* the pages as they are in flash
    ram,            \* the PageManager and what the Page objects cache
    up,             \* the library is initialized
    map,            \* auxiliary: what reads of the keys return, after the next
                    \* start while the library is off
    call            \* auxiliary: the last operation and how it ended

nvsVars == <<flash, ram, up, map, call>>
nvsView == <<flash, ram, up, map>>

Vals == UNION {ValsOf[n] : n \in Names}
Keys == UNION {{<<n, v.type>> : v \in ValsOf[n]} : n \in Names}
Pages == 0 .. PageCount - 1
Entries == 0 .. ENTRY_COUNT - 1

\* ------------------------------------------------------------ entries ----
\* An entry holds the header of an item, one entry's worth of its data, or what
\* a write that was cut left. Values of "blob" types have v.whole entries of data
\* written together and v.tail (0 or 1) more; v.ff says that they start with
\* 0xffffffff, as an unwritten word does.
Blank == [kind |-> "blank"]
Torn == [kind |-> "torn"]
TornBlank == [kind |-> "tornblank"]     \* its first word still reads 0xffffffff
ItemHead(n, v) == [kind |-> "item", name |-> n, val |-> v]
Data(v, j) == [kind |-> "data", val |-> v, part |-> j]

HeadBlank(c) == \/ c.kind \in {"blank", "tornblank"}
                \/ c.kind = "data" /\ c.val.ff
Half(c) == IF HeadBlank(c) THEN TornBlank ELSE Torn
Over(old, new) == IF old = Blank THEN new ELSE Torn
\* Of an erased entry only the first word is looked at again.
Spent(c) == IF c = Blank THEN Blank ELSE Half(c)

Span(v) == 1 + v.whole + v.tail
IsVar(v) == v.type = "blob"
\* A value's data take at most half of a page less an entry, Page::BLOB_MAX_SIZE.
ASSUME ValsAssumption == \A v \in Vals : v.whole + v.tail <= ENTRY_COUNT \div 2 - 1
KeyAt(c) == <<c.name, c.val.type>>

\* -------------------------------------------------------------- pages ----
BlankPage == [st |-> "UNINITIALIZED", seq |-> 0,
              ent |-> [i \in Entries |-> "EMPTY"],
              dat |-> [i \in Entries |-> Blank]]

Each(Op(_, _), s, seq) ==
    LET f[i \in 0 .. Len(seq)] == IF i = 0 THEN s ELSE Op(f[i - 1], seq[i]) IN f[Len(seq)]

\* A run s of the program: the flash, every image of it the power may leave
\* behind, the page list, the free list, each page's sequence number and first
\* free entry, the next sequence number, and the error returned.
Run(fl) == [flash |-> fl, cut |-> {fl}, list |-> <<>>, free |-> <<>>,
            seq |-> [p \in Pages |-> 0], next |-> [p \in Pages |-> ENTRY_COUNT],
            nextSeq |-> 0, err |-> "OK"]

Tear(s, p, img) == [s EXCEPT !.cut = @ \cup {[s.flash EXCEPT ![p] = img]}]
Put(s, p, img) == [Tear(s, p, img) EXCEPT !.flash[p] = img]

State(s, p) == s.flash[p].st
Written(s, p) == {i \in Entries : s.flash[p].ent[i] = "WRITTEN"}
getUsedEntryCount(s, p) == Cardinality(Written(s, p))
Items(s, p) == {i \in Written(s, p) : s.flash[p].dat[i].kind = "item"}
MinOf(S) == CHOOSE x \in S : \A y \in S : x <= y
MaxOf(S) == CHOOSE x \in S : \A y \in S : x >= y

WithEntries(img, I, st) ==
    [img EXCEPT !.ent = [i \in Entries |-> IF i \in I THEN st ELSE @[i]],
                !.dat = [i \in Entries |-> IF i \in I /\ st = "ERASED"
                                           THEN Spent(@[i]) ELSE @[i]]]

alterEntryState(s, p, i, st) == Put(s, p, WithEntries(s.flash[p], {i}, st))

\* The words of the table are written from the last to the first.
WordsDown(b, e) == [k \in 1 .. (e - 1) \div WordEntries - b \div WordEntries + 1 |->
                       (e - 1) \div WordEntries - k + 1]
alterEntryRangeState(s, p, b, e, st) ==
    Each(LAMBDA t, w : Put(t, p, WithEntries(t.flash[p],
                                 {i \in b .. e - 1 : i \div WordEntries = w}, st)),
             s, WordsDown(b, e))

alterPageState(s, p, st) == Put(s, p, [s.flash[p] EXCEPT !.st = st])

\* A header that is written partly fails its checksum: the page is CORRUPT.
initialize(s, p) ==
    LET img == s.flash[p]
    IN [Put(Tear(s, p, [img EXCEPT !.st = "CORRUPT"]),
            p, [img EXCEPT !.st = "ACTIVE", !.seq = s.seq[p]])
          EXCEPT !.next[p] = 0]

erase(s, p) == [Put(s, p, BlankPage) EXCEPT !.next[p] = ENTRY_COUNT, !.seq[p] = 0]

writeEntry(s, p, c) ==
    LET i == s.next[p]
        img == s.flash[p]
        d == Put(Tear(s, p, [img EXCEPT !.dat[i] = Over(@, Half(c))]),
                 p, [img EXCEPT !.dat[i] = Over(@, c)])
    IN [alterEntryState(d, p, i, "WRITTEN") EXCEPT !.next[p] = i + 1]

\* v.whole entries in one flash write, which may stop inside any of them.
writeEntryData(s, p, v) ==
    LET i == s.next[p]
        img == s.flash[p]
        Upto(m, torn) ==
            [img EXCEPT !.dat = [j \in Entries |->
                CASE j \in i .. i + m - 1 -> Over(@[j], Data(v, j - i + 1))
                  [] j = i + m /\ torn -> Over(@[j], Half(Data(v, m + 1)))
                  [] OTHER -> @[j]]]
        t == Each(LAMBDA u, m : Tear(Tear(u, p, Upto(m - 1, TRUE)), p, Upto(m, FALSE)),
                      s, [m \in 1 .. v.whole |-> m])
        d == Put(t, p, Upto(v.whole, FALSE))
    IN IF v.whole = 0 THEN s
       ELSE [alterEntryRangeState(d, p, i, i + v.whole, "WRITTEN")
               EXCEPT !.next[p] = i + v.whole]

Initialized(s, p) == IF State(s, p) = "UNINITIALIZED" THEN initialize(s, p) ELSE s

\* The rest of a value's data, less than an entry.
WriteTail(s, p, v) ==
    IF v.tail > 0 THEN writeEntry(s, p, Data(v, Span(v) - 1)) ELSE s
WriteIfRoom(s, p, n, v) ==
    IF State(s, p) = "FULL" \/ s.next[p] + Span(v) > ENTRY_COUNT
    THEN [s EXCEPT !.err = "PAGE_FULL"]
    ELSE WriteTail(writeEntryData(writeEntry(s, p, ItemHead(n, v)), p, v), p, v)
PageWriteItem(s, p, n, v) == WriteIfRoom(Initialized(s, p), p, n, v)

\* An item's hash covers its name, not its type.
Named(s, p, n) == {i \in Items(s, p) : s.flash[p].dat[i].name = n}
\* The hash list gives the page's first item of that name; another type there is
\* a TYPE_MISMATCH, which the callers take for not found. At most one item.
Found(s, p, k) ==
    {i \in Named(s, p, k[1]) : /\ KeyAt(s.flash[p].dat[i]) = k
                               /\ \A j \in Named(s, p, k[1]) : i <= j}

eraseEntryAndSpan(s, p, i) ==
    LET span == IF i \in Items(s, p) THEN Span(s.flash[p].dat[i].val) ELSE 1
        t == alterEntryRangeState(s, p, i, i + span, "ERASED")
    IN [t EXCEPT !.next[p] = IF i + span > @ THEN i + span ELSE @]

\* ------------------------------------------------------- loading a page ----
Indices == [i \in 1 .. ENTRY_COUNT |-> i - 1]
SpanAt(s, p, i) == IF i \in Items(s, p) THEN Span(s.flash[p].dat[i].val) ELSE 1
Whole(s, p, i) == \A j \in i .. i + SpanAt(s, p, i) - 1 : j \in Written(s, p)

\* Mutant: the entry table is trusted.
TrustTable(s, p) == s
\* An entry that was written, partly at least, before its state was.
SkipHalfWritten(s, p) ==
    Each(LAMBDA t, i :
                IF t.next[p] = i /\ ~HeadBlank(t.flash[p].dat[i])
                THEN [alterEntryState(t, p, i, "ERASED") EXCEPT !.next[p] = i + 1]
                ELSE t, s, Indices)

\* One step of the loop over the items: i is where the loop stands. An earlier item
\* of the same name counts as a duplicate, whatever its type.
CheckItem(s, p, i) ==
    LET dup == MinOf(Named(s, p, s.flash[p].dat[i].name))
    IN IF i \notin Items(s, p) \/ (IsVar(s.flash[p].dat[i].val) /\ ~Whole(s, p, i))
       THEN eraseEntryAndSpan(s, p, i)
       ELSE IF State(s, p) = "ACTIVE" /\ dup < i THEN eraseEntryAndSpan(s, p, dup) ELSE s

CheckItems(s, p) ==
    Each(LAMBDA a, i :
                IF i # a.at \/ i >= s.next[p] THEN a
                ELSE IF i \notin Written(a.run, p) THEN [a EXCEPT !.at = i + 1]
                ELSE [run |-> CheckItem(a.run, p, i), at |-> i + SpanAt(a.run, p, i)],
             [run |-> s, at |-> 0], Indices).run

\* Only the page that is written to has a first free entry before its end.
FirstFree(s, p) ==
    LET empty == {i \in Entries : s.flash[p].ent[i] = "EMPTY"}
    IN [s EXCEPT !.next[p] = IF empty = {} THEN ENTRY_COUNT ELSE MinOf(empty)]
mLoadEntryTable(s, p) ==
    CheckItems(IF State(s, p) = "ACTIVE" THEN SkipHalfWritten(FirstFree(s, p), p) ELSE s, p)

PageLoad(s, p) ==
    IF State(s, p) \in {"ACTIVE", "FULL", "FREEING"}
    THEN mLoadEntryTable([s EXCEPT !.seq[p] = s.flash[p].seq], p) ELSE s

\* --------------------------------------------------------- PageManager ----
activatePage(s) ==
    IF s.free = <<>> THEN [s EXCEPT !.err = "NOT_ENOUGH_SPACE"]
    ELSE LET p == Head(s.free)
             t == IF State(s, p) = "CORRUPT" THEN erase(s, p) ELSE s
         IN [t EXCEPT !.free = Tail(@), !.list = Append(@, p),
                      !.seq[p] = s.nextSeq, !.nextSeq = @ + 1]

\* Every used entry of f goes to t; the entries of an item follow its header.
copyItems(s, f, t) ==
    LET Copy(a, i) ==
            CASE i < a.upto -> [a EXCEPT !.run = writeEntry(@, t, s.flash[f].dat[i])]
              [] i >= a.upto /\ i \in Written(s, f) ->
                    [run |-> writeEntry(a.run, t, s.flash[f].dat[i]),
                     upto |-> i + SpanAt(s, f, i)]
              [] OTHER -> a
    IN IF Written(s, f) = {} THEN s
       ELSE Each(Copy, [run |-> Initialized(s, t), upto |-> 0], Indices).run

\* The page goes back to the free list once its entries are elsewhere.
Release(s, f) == [erase(s, f) EXCEPT !.list = SelectSeq(@, LAMBDA q : q # f),
                                     !.free = Append(@, f)]

\* The first page with the most unused entries.
Unused(s, p) == ENTRY_COUNT - getUsedEntryCount(s, p)
\* Mutant: the oldest page.
OldestPage(s) == Head(s.list)
maxUnusedItemsPage(s) ==
    s.list[CHOOSE i \in DOMAIN s.list : \A j \in DOMAIN s.list :
              /\ Unused(s, s.list[i]) >= Unused(s, s.list[j])
              /\ Unused(s, s.list[i]) = Unused(s, s.list[j]) => i <= j]

\* The entries of f go to the page activated last, and f becomes a free page.
FreePage(a, f) ==
    IF a.err # "OK" THEN a ELSE Release(copyItems(a, f, Last(a.list)), f)

requestNewPage(s) ==
    LET f == maxUnusedItemsPage(s)
    IN CASE s.free = <<>> -> [s EXCEPT !.err = "INVALID_STATE"]
         [] Len(s.free) >= 2 -> activatePage(s)
         [] Len(s.free) = 1 /\ Unused(s, f) = 0 -> [s EXCEPT !.err = "NOT_ENOUGH_SPACE"]
         [] Len(s.free) = 1 /\ Unused(s, f) > 0 ->
                FreePage(alterPageState(activatePage(s), f, "FREEING"), f)

\* If the power failed between writing a value and erasing the former one.
\* Mutant: the former value stays.
KeepFormer(s) == s
DropFormer(s) ==
    LET p == Last(s.list)
        k == KeyAt(s.flash[p].dat[MaxOf(Items(s, p))])
        older == {i \in 1 .. Len(s.list) - 1 :
                    State(s, s.list[i]) # "FREEING" /\ Found(s, s.list[i], k) # {}}
        q == s.list[MinOf(older)]
    IN IF Items(s, p) = {} \/ older = {} THEN s
       ELSE eraseEntryAndSpan(s, q, MinOf(Found(s, q, k)))

\* Mutant: the copy that was begun stays in use.
KeepCopy(s) == s
DropCopy(s) == IF State(s, Last(s.list)) = "ACTIVE" THEN Release(s, Last(s.list)) ELSE s
\* If it failed while a page was being freed: the copy starts again.
ResumeFreeing(s) ==
    LET freeing == {i \in DOMAIN s.list : State(s, s.list[i]) = "FREEING"}
    IN IF freeing = {} THEN s
       ELSE FreePage(activatePage(DropCopy(s)), s.list[MinOf(freeing)])

BySeqNumber(s, used) ==
    SetToSortSeq(used, LAMBDA p, q : s.seq[p] < s.seq[q]
                                     \/ (s.seq[p] = s.seq[q] /\ p < q))

\* The page list is made from what the pages hold.
MakeList(s) ==
    LET used == {p \in Pages : State(s, p) \in {"ACTIVE", "FULL", "FREEING"}}
    IN [s EXCEPT !.list = BySeqNumber(s, used), !.free = SetToSortSeq(Pages \ used, <)]
Recover(s) ==
    ResumeFreeing(DropFormer([s EXCEPT !.nextSeq = s.seq[Last(s.list)] + 1]))
NeedsFreePage(s) ==
    IF s.err = "OK" /\ s.free = <<>> THEN [s EXCEPT !.err = "NO_FREE_PAGES"] ELSE s
StartFrom(s) == IF s.list = <<>> THEN activatePage(s) ELSE NeedsFreePage(Recover(s))

load(fl) == StartFrom(MakeList(Each(PageLoad, Run(fl), [p \in 1 .. PageCount |-> p - 1])))

\* ------------------------------------------------------------- Storage ----
PagesWith(s, k) == {i \in DOMAIN s.list : Found(s, s.list[i], k) # {}}

eraseKey(s, k) == LET p == s.list[MinOf(PagesWith(s, k))]
                  IN eraseEntryAndSpan(s, p, MinOf(Found(s, p, k)))

\* The page that was written to is full: it is marked, and the value goes to a new one.
MarkFull(s, p) == [IF State(s, p) # "FULL" THEN alterPageState(s, p, "FULL") ELSE s
                     EXCEPT !.err = "OK"]
WriteToLast(s, n, v) == IF s.err = "OK" THEN PageWriteItem(s, Last(s.list), n, v) ELSE s
WriteElsewhere(s, n, v) ==
    IF s.err = "OK" THEN s
    ELSE WriteToLast(requestNewPage(MarkFull(s, Last(s.list))), n, v)

\* What is left of the operation after the write: s is the run, findPage the page
\* that had the key.
EraseFormer(s, k, findPage) ==
    IF State(s, findPage) = "UNINITIALIZED" THEN eraseKey(s, k)
    ELSE eraseEntryAndSpan(s, findPage, MinOf(Found(s, findPage, k)))
AfterWrite(s, k, before) ==
    CASE s.err = "PAGE_FULL" -> [s EXCEPT !.err = "NOT_ENOUGH_SPACE"]
      [] s.err = "OK" /\ PagesWith(before, k) # {} ->
            EraseFormer(s, k, before.list[MinOf(PagesWith(before, k))])
      [] OTHER -> s

writeItem(s, n, v) ==
    AfterWrite(WriteElsewhere(WriteToLast(s, n, v), n, v), <<n, v.type>>, s)

\* Without a type the first item of that name is erased, in page order.
eraseName(s, n) ==
    LET at == {i \in DOMAIN s.list : Named(s, s.list[i], n) # {}}
        p == s.list[MinOf(at)]
    IN IF at = {} THEN [s EXCEPT !.err = "NOT_FOUND"]
       ELSE eraseEntryAndSpan(s, p, MinOf(Named(s, p, n)))

eraseNamespace(s, ns) ==
    LET InPage(u, p) ==
            Each(LAMBDA t, i : IF i \in Items(t, p) /\ NsOf[t.flash[p].dat[i].name] = ns
                                   THEN eraseEntryAndSpan(t, p, i) ELSE t, u, Indices)
    IN Each(InPage, s, s.list)

\* What a read of the key returns in run s.
NoVal == [type |-> "none"]
readItem(s, k) ==
    LET p == s.list[MinOf(PagesWith(s, k))]
        i == MinOf(Found(s, p, k))
        v == s.flash[p].dat[i].val
    IN CASE PagesWith(s, k) = {} -> NoVal
         [] PagesWith(s, k) # {} /\ \A j \in 1 .. Span(v) - 1 :
                s.flash[p].ent[i + j] = "WRITTEN" /\ s.flash[p].dat[i + j] = Data(v, j) -> v
         [] OTHER -> [type |-> "damaged"]

\* ------------------------------------------------------------- actions ----
Off == [list |-> <<>>]
Cached(s) == [list |-> s.list, free |-> s.free, seq |-> s.seq, next |-> s.next,
              nextSeq |-> s.nextSeq]
Now == [flash |-> flash, cut |-> {flash}, err |-> "OK", list |-> ram.list,
        free |-> ram.free, seq |-> ram.seq, next |-> ram.next, nextSeq |-> ram.nextSeq]

Contents(s) == [k \in Keys |-> readItem(s, k)]

NvsInit == /\ flash = [p \in Pages |-> BlankPage]
           /\ ram = Off
           /\ up = FALSE
           /\ map = [k \in Keys |-> NoVal]
           /\ call = <<<<"none">>, "OK">>

\* Operation op, run as s, ends, or the power fails at one of its writes.
Ends(op, s) == /\ flash' = s.flash
               /\ ram' = Cached(s)
               /\ up' = TRUE
               /\ map' = Contents(s)
               /\ call' = <<op, IF s.err = "OK" THEN "OK" ELSE "error">>
Fails(op, s) == \E left \in s.cut :
                   /\ flash' = left
                   /\ ram' = Off
                   /\ up' = FALSE
                   /\ map' = Contents(load(left))
                   /\ call' = <<op, "cut">>

Starts(s) == \/ s.err = "OK" /\ Ends(<<"init">>, s)
             \/ Fails(<<"init">>, s) /\ \A p \in Pages : flash'[p].seq <= MaxSeq
nvs_flash_init == ~up /\ Starts(load(flash))

Operate(op, s) == s.nextSeq <= MaxSeq /\ (Ends(op, s) \/ Fails(op, s))

nvs_set(n, v) == up /\ Operate(<<"set", n, v>>, writeItem(Now, n, v))
nvs_erase_key(n) == up /\ Operate(<<"erase", n>>, eraseName(Now, n))
nvs_erase_all(ns) == up /\ Operate(<<"erase_all", ns>>, eraseNamespace(Now, ns))
nvs_flash_deinit == up /\ Fails(<<"deinit">>, Now)

NvsNext == \/ nvs_flash_init
           \/ \E n \in Names : \E v \in ValsOf[n] : nvs_set(n, v)
           \/ \E n \in Names : nvs_erase_key(n)
           \/ \E ns \in {NsOf[n] : n \in Names} : nvs_erase_all(ns)
           \/ nvs_flash_deinit

NvsSpec == NvsInit /\ [][NvsNext]_nvsVars

\* ---------------------------------------------------------- properties ----
\* nvs_flash/README.rst:70: power off at any point loses nothing but the pair that
\* is being written. Every operation is atomic under power failures, in the middle
\* of moving entries to a fresh page and of recovering from an earlier failure too.
\* This needs an application that uses each name with one type.
Map == INSTANCE NvsMap
PowerSafe == Map!Spec

\* Storage::debugCheck (nvs_storage.cpp:268): no name is stored twice with one type,
\* and the items account for every used entry of their page.
Stored(s, k) == {h \in Range(s.list) \X Entries :
                    h[2] \in Items(s, h[1]) /\ KeyAt(s.flash[h[1]].dat[h[2]]) = k}
NoDuplicates ==
    up => /\ \A k \in Keys : Cardinality(Stored(Now, k)) <= 1
          /\ \A p \in Range(ram.list) :
                /\ \A i \in Items(Now, p) : Whole(Now, p, i)
                /\ getUsedEntryCount(Now, p) =
                      MapThenSumSet(LAMBDA i : SpanAt(Now, p, i), Items(Now, p))

\* PageManager::load (nvs_pagemanager.cpp:113) and requestNewPage need a free page:
\* whatever was cut, and however often, the library starts and has one.
StartsWithFreePage ==
    LET s == IF up THEN Now ELSE load(flash)
    IN s.err = "OK" /\ s.free # <<>>

\* PageManager::requestNewPage (nvs_pagemanager.cpp:121): a value is refused for want
\* of space only when no page has that many entries unused, after any number of
\* erasures, rewrites and power failures.
SpaceIsReused ==
    up => \A n \in Names : \A v \in ValsOf[n] :
            (\E p \in Range(ram.list) :
                ENTRY_COUNT - getUsedEntryCount(Now, p) >= Span(v))
            => writeItem(Now, n, v).err = "OK"
=============================================================================
