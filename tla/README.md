# callbook-rs in TLA+

TLA+ models of callbook-rs, a reader for the HamCall callsign database, with
TLC configurations that check them on small instances and TLAPS proofs for every
value of the constants. Files are named relative to `crates/callbook/src/`
unless they start with another directory of the repository.

## Inventory: the system and its parts

A `CallBook` is opened once over a directory tree and never written. It is
`Sync`: any number of threads may read through it. What varies at run time is
small: the caches of the lazily opened sidecars, the scratch of a batch lookup,
the position of an iterator, the handles of the C interface. Most of the logic is in how several
redundant, partly damaged indexes are combined into one answer.

| component | state | operations | interacts with |
|---|---|---|---|
| open (`db.rs` `open_path`, `open_v2`, `open_*`) | the opened parts | open a tree: locate `ham0`, map `hamcall.{idx,dat}`, open each optional part | file system; every parser |
| lazy sidecars (`db.rs`, struct `CallBook`) | six `Mutex<Option<Arc<_>>>` | accessors `lookup_counts`, `photo_catalog`, four map layers | file system; profile, map, statistics, C interface, command line |
| lookup (`db.rs` `lookup_report_with_scratch` and below, `v2_record.rs`, `modern.rs`) | one report; the scratch of `BatchLookup` | lookup, batch lookup, merge | US catalog, IDX, HCI, DAT |
| text IDX (`idx_text.rs`) | sorted entries, sparse directory | exact, first-at-least, all-of-callsign, next-after, iterate | lookup, entries, statistics |
| HCI (`hci.rs`) | key index sorted by hash, publication years | postings of a key, statistics | lookup, trace |
| DAT codec (`v2_dat.rs`, `decode_dat_byte`, sidecar and HCI byte decoders) | none | decode a slice, one byte | lookup, scans, counts |
| entry iteration (`db.rs` `EntryIter`) | phase, seen set, two iterators | next, run | IDX, US catalog, lookup |
| DAT scans (`db.rs` `InterestSearchScan`, `InterestScan`, `TagScan`) | record in progress, accumulators | scan, finish | DAT, interest table |
| lookup counts (`sidecar.rs`) | mapped file | binary search, iterate | profile, C interface |
| boundaries and state vectors (`sidecar.rs`) | parsed segments | parse, bounds, vector conversion | map |
| profile, assets, map (`db.rs`) | none, but for the cached photo manifest | choose photos, biography, flag, map; diagnostics; render SVG | lookup, sidecars, country, file system |
| country tables (`country.rs`, `CountryCatalog`) | sorted prefix rules, first-byte index | lookup, linear lookup, labels | lookup, profile |
| interest table (`interest.rs`), US catalog (`us_csv.rs`), callsign (`callsign.rs`) | parsed tables | parse, get | lookup, scans, entries |
| C interface (`ffi.rs`) | boxed handles owned by the caller | open/close, get/free, sized buffers | all of the above |
| Python package (`python/src/callbook_rs`) | wrappers with an address, suspended generators | methods, close, generators, copies | C interface |
| command line (`bin/callbook.rs`) | none | one command per run, exit code | all of the above |

Hard behaviours: threads racing for a lazily opened sidecar whose file comes
and goes; error paths out of a held mutex; a scratch that survives from one
lookup to the next; records reached through several indexes that disagree;
windows of a file that begin and end inside records; order-dependent merging;
retries with larger windows; binary searches over tables with blank slots; files
that change while a database is opened or a profile is put together; addresses of
boxed objects that threads free, reuse and keep in suspended generators; texts whose
length is asked for in one call and that are written by the next.

What makes each part correct, in one line each:

- lazy sidecars: one load, one `Arc`, no error remembered, every call returns;
- lookup: only records of the callsign, every indexed record of it, one entry
  per vintage, the catalog wins, the same answer in a batch as alone;
- IDX and HCI: a search finds exactly the entries a linear scan finds;
- DAT codec: all decoders agree on the key stream at every offset;
- entries: each callsign once for each way it is spelled, none lost;
- scans: they see the records a lookup sees, and those whose keys a lookup does not take;
- counts: a search finds every key of the sorted table;
- opening: the tables opened are those that the directory held at one moment;
- countries: the index of first bytes leads to the rule a walk would find, and
  both ways to a callsign's country agree;
- assets: a profile shows what the manifest's diagnostics count, in an order
  that does not depend on the file system's;
- C interface and Python package: every object has exactly one owner, and what is
  shown of it is what the library answered.

## Modules

| module | models | extends |
|---|---|---|
| `OnceCells` | abstract: cells that are filled once and handed out | |
| `LazySidecar` | the accessors, threads, mutexes and the file system; implements `OnceCells` | |
| `SidecarClients` | the operations that go through the accessors, as plans | `LazySidecar` |
| `LazySidecarProofs` | proofs about `LazySidecar` | `LazySidecar` |
| `Records` | cells of the decoded file, segments, snapshots, merging | |
| `HamCallData` | an open database and what its indexes answer | `Records` |
| `LookupAnswers` | the report of a callsign as a function of the database | `HamCallData` |
| `Lookup` | the state machine of a batch of lookups | `LookupAnswers` |
| `LookupService` | abstract: answers without scratch; `Lookup` implements it | |
| `LookupProofs` | proofs about `Lookup` | `Lookup` |
| `EntryIter` | the walk over all entries, each a lookup | `LookupAnswers` |
| `EntryIterProofs` | proofs about `EntryIter` | `EntryIter` |
| `DatScan` | the three byte-by-byte scans of `hamcall.dat` | `HamCallData` |
| `TextIdx` | opening `hamcall.idx`, searching and verifying it | |
| `TextIdxProofs` | proofs about `TextIdx` | `TextIdx` |
| `HciIndex` | opening the HCI, searching it, counting over it | |
| `HciIndexProofs` | proofs about `HciIndex` | `HciIndex` |
| `CountTable` | binary search and listing of the lookup counts | |
| `CountTableProofs` | proofs about `CountTable` | `CountTable` |
| `DatCodec` | the keys of slices and of single bytes of `hamcall.dat` | |
| `CountryTable` | the country-prefix rules, their index and lookups | `SequencesExt` |
| `OpenDb` | opening a database while its files change | |
| `Assets` | the asset directories and the photo manifest | `CountryTable` |
| `Station` | an opened database that is asked for countries, assets, profiles, maps | `OpenDb`, `Assets` |
| `DatabaseProofs` | proofs about `Station` and what it is made of, `DatCodec`, `DatScan` | `Station`, `DatCodec`, `DatScan` |
| `Catalogs` | the US catalog and the interest table as they are parsed | |
| `CApi` | the functions of the C interface over a heap of boxed objects | |
| `PyClient` | threads with the Python package, and a C program, over them | `CApi` |
| `PyClientProofs` | proofs about `PyClient` | `PyClient` |

`MCSidecar`, `MCLookup`, `MCEntryIter`, `MCDatScan` (with `DatCodec`), `MCTextIdx`,
`MCHciIndex`, `MCCountTable`, `MCStation` and `MCPyClient` (with `Catalogs`) give the constants
values for TLC. A definition commented `Deviation:` belongs to no specification: it is a
plausible mistake in the definition that follows it, and the mutants listed in `PROJECT.json`
put it in that definition's place to see the property fail.

## State and actions, against the code

### Lazy sidecars (`LazySidecar`, `SidecarClients`)

Each of the six accessors of `CallBook` (`db.rs`, `lookup_counts` and its
siblings) does the same: `is_file()` without a lock (`CheckAbsent`,
`CheckPresent`), `lock()` (`Lock`), serve the cached `Arc` (`ServeCached`), or
open the file (`OpenFile`, `OpenFails`), parse it (`ReadFails`) and store the
`Arc` (`Publish`). Between any two of these other threads run, and
`ChangeFile` lets the file appear, vanish or become unreadable. `pc[t]` is the
point a thread is at, `owner[s]` the holder of the mutex, `cache[s]` the
identity of the `Arc`. A client operation is a sequence of accessor calls, each
of which passes an error on (`?`) or treats it as absence (`.ok().flatten()`);
`SidecarClients` translates the operations of the library, the C interface and
the command line into such plans. `disturbed` is a history variable.

Abstracted: the contents of a sidecar (an identity stands for the `Arc`), and the poisoning of a
mutex by a panicking parser (every later accessor call of that sidecar panics in its turn,
through `.expect`; no parser is modelled as panicking). The lookup-count sidecar is mapped
rather than read, so that `ReadFails` stands for a failing map or a length that is not a
multiple of the record size.

### Lookup (`Records`, `HamCallData`, `LookupAnswers`, `Lookup`, `LookupService`)

The decoded `hamcall.dat` is a sequence of cells: a record mark (0xb5), one
character of a callsign, a `:YYYY`, or a tag with its value. Windows begin and
end at any cell, so records and callsigns are cut by them; years and values are
not. `Lookup` takes one step for each IDX entry of the callsign (`VisitEntry`,
`SkipEntry`), each segment of a window (`ParseSegment`), each larger window
(`Widen`), each merged snapshot (`MergeNext`), each posting (`VisitPosting`,
`SkipPosting`) and each publication year (`NextYear`). What `BatchLookup` keeps
between lookups (`seen`, `found`, `queue`, `window`) keeps its value from one
lookup to the next, as the code's scratch does until it is cleared.
`MergeMissing` is `merge_missing_from` with its two exceptions: raw tags are
extended, and a last name follows the split name it comes with.

`LookupAnswers` says the same without steps: `merge_snapshot` over everything the
indexes lead to, window by window and posting by posting. What joins and merges the
parts are recursive functions, of which the proofs can speak. `LookupService` is the
specification in which an answer is that function of the open database and the
callsign (`AllReports`), and `ImplementsLookupService` says that the batch implements
it. The walk over the entries takes its lookups from the same function.

Keys go through three tests, which the models keep apart. `Callsign::parse` takes texts of up
to 26 characters in either case and normalizes them (`callsign.rs`:23). `looks_like_key` wants
up to 12, in upper case (`v2_record.rs`:273): `LooksLikeKey`, with `MaxKeyCall` and
`KeyCharacters`. `split_key` wants a year and nothing else behind the colon (`SplitFails`).

Abstracted: the callsigns that are looked up are normalized, as `lookup_report` does first, and
so are the catalog's rows, which are folded to upper case when they are read. The IDX is
searched for the normalized callsign and its keys are taken as they are: an entry whose
key is in small letters is found by no lookup. The IDX and the HCI are what their searches answer
(`EntriesOf`, `PostingsUnder`), the byte lengths of the windows are cells. Blanks inside a key,
before its colon, are not modelled: `Callsign::parse` trims them, `looks_like_key` refuses them.

### Entries (`EntryIter`)

`phase`, `position` and `seen` are the fields of `EntryIter` (`db.rs`);
`candidate` is the result of `next_callsign`. `TakeKey`/`PassKey` read a line of
the IDX as it is spelled there, `TakeRow` a row of the sorted catalog, `Repeated`, `Fail`, `Suppress` and
`Return` are the four ways through the body of `next`. `consumer` says whether
the items are taken one by one or by `Entries::run`, which gives up at the first
error. Each lookup is `LookupReport`, as `Lookup` implements it, of what `Callsign::parse` makes
of the text (`Normal`), or the error that it gives (`Refused`). `Selected` is
`stat_key_parts`: no sentinel, a text that parses, and behind a colon a year from 1900 to
2099; the key keeps its spelling, so that `seen` tells `w1aw` from `W1AW`.

### Scans (`DatScan`)

One step for a mark, a tag with its value, a byte of the key, a byte before the
first record, and the end. The three scans of `db.rs` read the same bytes, so
that one step advances all three: `MatchRecord` is
`InterestSearchScan::finish_record`, `CountRecord` that of `InterestScan`,
`CountValue` is `TagScan::finish_value`. The scans take a key that `Callsign::parse` accepts
(`IsCallsign`, with `MaxCall` and `CallCharacters`) and report it as it is spelled, the segment
parser one that `LooksLikeKey`.

### Text IDX (`TextIdx`)

A file is a sequence of lines, each an entry with a key and an offset, one that
does not parse, or a rest without CR LF. `IndexLine` and `Opened` are
`build_index` (`idx_text.rs`), `entries` and `directory` its results with lines for
byte positions. `Ask` begins `find_exact` ("exact"), `find_first_key_at_least`
("first"), `next_entry_after_key` ("after") or `find_callsign_all` ("bare",
then "years" for its second pass); `Probe` is one step of `partition_point`, which
may look at any undecided entry; `PointDone`, `ExactDone`, `BareDone`, `YearsBegin`,
`Collect` and `YearsDone` end the searches. `Verify`, `VerifyLine` and `Verified` are
`verify` over `TextIdxIter`. Nothing checks the order of a file when it is opened,
and none is assumed: what holds for sorted files only says so.

Abstracted: bytes that are not printable (`verify` counts them), keys longer
than 65 535 bytes (an entry to the iteration, but not to the table), files beyond 4 GiB
(refused), a stride of zero (refused).

### HCI (`HciIndex`)

`hciindex.dat` is `hci.table`, whose offsets may be unordered, past the end or in the middle of
a record; `hci.dat` is a sequence of whole headers, postings and closing bytes. Where a record
ends at a wrong place, the code reads on five bytes at a time; the postings that it takes those
for are whatever the file says (`Misfits`, `misread`). `PassRecord`, `IndexRecord` and `Opened`
are `build_key_index`, `Ask`, `Visit`, `Collision` and `Answered` are `visit_postings_for_key`
with `visit_records_for_key`, `Count` and `CountRecord` are `callsign_posting_statistics`, with
the postings and the unique offsets of each year. `visit_callsign_postings`, which passes over
the same records, keeps no state and does not look at the years, is not modelled. `Hash` is any
function: TLC runs one that collides, the proofs hold for all.

### Lookup counts (`CountTable`)

Slots with a key (numbered in byte order, 0 for a blank one) and a count that may
not parse. `Ask`, `GoLeft`, `GoRight`, `Hit` and `Miss` are the loop of
`LookupCountFile::lookup`, `ListNext` is `LookupCountIter::next`. Any table may be
there: nothing in the code checks the order.

### Opening, countries and assets (`OpenDb`, `CountryTable`, `Assets`, `Station`)

`OpenDb` takes a step for every `is_file()` (`CheckPresent`, `CheckAbsent`) and for
every file that is opened and parsed (`Read`) in `open_v2` and the functions it
calls (`db.rs`); `ChangeFile` comes between any two. `Alternatives` says which files a
table takes and that `gcmcountrys` stands in for `countrys`; `disks` is a history
variable, the directory as it was since opening began.

`CountryTable` has the operators of `country.rs` over sequences of bytes: `parse_with_source`
with the stable sort of the rules (as an insertion of each), `build_first_byte_index`,
`prefix_range_matches`, `lookup_info` through the index and `lookup_linear` past it. The tags of
a rule that no decision depends on (zones, continent, number) are left out, and so is the
trimming of the callsign. Prefixes and callsigns are ASCII (`AsciiText`): with other characters
the code panics, where it indexes its 128 entries with a first byte (`country.rs`:219) or cuts a
head inside a character (`country.rs`:236). `Assets` has the walks through the directories: a
listing gives the files of a root in the order in which `read_dir` answers, a file is its path
(names of bytes) and whether it is a link or behind one. A filter is `Kept` and a stable sort is
`Sorted`, given by places: what stands at the chosen places, each behind those that are ahead of
it. `Station` composes them: once `OpenDb` is done the client asks (`AskAssets`, `AskProfile`,
`AskMap`, `AskDiagnostics`, `AskCountries`), each time with any listing, in one step: the
directories change between two questions, not while a profile is put together; `catalog` is the
cached manifest, which stays when the file changes (`ChangeTree`, `ChangeManifest`). A lookup's
report and the lookup counts are inputs here, as `Lookup` and `CountTable` model them.

### C interface and Python package (`CApi`, `PyClient`, `Catalogs`)

`CApi` has one operator for each function of `ffi.rs`, of the same name. `heap[a]` is the object
boxed at an address; a pointer is `NULL`, an address, or an address with the way to a part of
the object, so that a borrowed pointer dies with its owner. Conversions keep the tables: 35
field numbers, five enumerations, and -1 or the empty text for what is missing. `PyClient` is
`_api.py`: `objects[o]` a wrapper with its `_pointer`, `jobs[t]` the method a thread is in,
`gens[g]` a generator. `CallMethod` is the call of the library and `Wrap` or `Copy`,
`FreeTemporary` what follows it; `CloseBegin` and `CloseEnd` are the two halves of `close`;
`Generate`, `FirstNext`, `Fetch`, `Yield`, `LaterNext` and `Exit` are a generator's life;
`AskLength` and `Fill` the two calls of `map_svg`, which raises the error of the second one.
`ctypes` gives up the interpreter's lock for every call, so that threads interleave between any
two steps. The contract of `ffi.rs`:59 (no close while a call uses the handle) is assumed of the
programs, and the package does not enforce it: a call of the library is one step, and no thread
uses or closes a wrapper that another one is closing (`Usable`), that is between the call that
frees and `_pointer = 0` (`_api.py`:478). Of programs that break it nothing is shown: the call
between would meet a freed object. The `Meant...` operators say the same without numbers: they
are the reference for what a wrapper shows.

`Catalogs` parses the US catalog and the interest table; `MCPyClient` takes the rows that
generators yield from it.

### Keys of `hamcall.dat` (`DatCodec`)

A byte is decoded by two exclusive ors with constants and a key that depends on
its place, so that the model has the keys only: `decode_phase_into` cuts a slice
into chunks that end with a cycle of 101 keys, `decode_dat_byte` takes the position.

## What the runs check

| run | distinct states | shows |
|---|---|---|
| `sidecar_profile` | 203 434 | two threads, profiles and catalog diagnostics over two sidecars whose files change at any time: the mutex given up on every way out, no failure is remembered, every call returns, an operation ends exactly at the first error it does not tolerate, and the caches behave as `OnceCells`: one load and one `Arc` for each |
| `sidecar_walk` | 281 948 | the long plans over five sidecars, one thread, any pattern of failures |
| `lookup` | 7 218 | batches of two lookups over eighteen databases: own callsign only, one entry per vintage, nothing that the file does not hold, nothing that an index leads to left out, the catalog wins, every lookup returns, and the batch answers as `LookupService` |
| `entries` | 234 240 | walks over 1536 databases with and without history, by both consumers: each callsign once for each spelling that the IDX and the catalog have of it (`EachOnce`), none lost, `run` ends at the first error, and every walk ends |
| `scans` | 121 136 | 10 056 files: the search finds what the segment parser reads and, besides, only records whose keys are callsigns that the parser refuses; the statistics agree with the searches, no value is missed; slices are decoded with the keys of their bytes |
| `text_idx` | 59 460 | 198 files of up to seven lines, with strides of one and two, in and out of order: in a sorted file a search returns what a scan returns, and what `verify` calls clean is what the searches rely on |
| `hci_index` | 164 447 | 4096 offset tables, ordered and damaged, over one file, and 260 undamaged files: a search is a scan, the years are complete, the statistics of an undamaged file are those of its postings |
| `count_table` | 299 731 | every table of up to four slots, framed tables of seven, ordered ones of eight: no foreign record, no key of an ordered table missed, listings complete |
| `station` | 54 392 | opening while one file changes, for 4 paths and 25 directories, and asking over 20 asset trees: the tables are those of one moment (`OpenedAsAtOneMoment`), a callsign has one country (`OneCountry`), profiles show the same assets whatever order directories are listed in (`AssetsInOneOrder`) and show what the diagnostics count (`FoundPhotosAreShown`) |
| `py_client` | 572 586 | eight programs of two threads and a generator over three addresses: one owner for every object (`OneOwner`, `NothingLeaks`), attributes that say what the library answered (`ReadsOwnAnswer`), complete generators, and a buffer that is too small only when `wc.dat` changed between the two calls (`TooSmallMeansChanged`) |

Two more runs show where the program does not do what its comments or its
README say:

- `sidecar_lock_free`: the repository's README.md:419 and `ffi.rs`:59 promise lock-free reads; a
  thread waits in an accessor while another one parses the file under the
  mutex.
- `lookup_cut`: `v2_record.rs`:37 says that only logical records whose key
  matches are parsed; the last window, of 8192 bytes, accepts a record that its
  end cuts, and a neighbour `KAD` cut after two letters is returned as `KA`.
  `BackedUnlessCut` is what holds instead.

Further differences met while modelling, which no run is kept for: the module
comment of `idx_text.rs`:28 has lookups go through the sparse directory, which only
`directory_size` reads, and the one at line 48 has the directory end with the last line,
which it does only by chance; the comment
on `render_svg` (`db.rs`:1115) promises boundary layers that its default options leave
out; without history the walk over entries passes over keys of the form
`CALL:YYYY` altogether (`db.rs`:371), so a callsign that has only such keys and no
catalog row never comes up, although a lookup may know a current record of
it; the interest search does not report records that continue a callsign
with a bare `:YYYY` key, and a blank second value clears the first
(`db.rs`:2861); the tag inventory counts the tags of such continuation records
as current (`db.rs`:3108); `modern.rs`:220 says that merging preserves existing
data, and raw tags are overwritten (`modern.rs`:279); `db.rs`:522 says that the
occurrences of an unknown interest code count snapshots, and a snapshot that
lists the code twice counts twice (`db.rs`:3010); `resolve_v2_dir` is documented
as case-insensitive and tries only `ham0` and `HAM0` for a directory inside the
path (`db.rs`:3660); a callsign is said to match the most specific country rule
(`country.rs`:164), and among rules of one length the first in byte order is
taken, while a callsign shorter than a range is compared with the range cut to its length,
so that `K` matches `KA` to `KZ` and the empty text any range; a callsign of more than 12
and up to 26 characters is parsed (`callsign.rs`:29) and looked up, and no key of `hamcall.dat`
is recognised as its own (`v2_record.rs`:275), while the interest search reports records under
such keys, and under keys in small letters (`db.rs`:3140); the walk over the entries
tells keys apart by their spelling (`db.rs`:2770), so that a callsign whose IDX key is in small
letters as well comes up twice.

### Bounds, and why they are enough

- `MaxCalls` (operations per thread) is 2 where a remembered failure could show in
  the next operation and 1 where only the order within one operation matters. Two
  sidecars show the independence of their mutexes, two threads the races for one; the
  proofs cover any number of threads.
- `MaxLookups` is 2: the scratch of one lookup can only disturb the next. The
  databases have clean, coarse and damaged IDX files, clean, loose and no HCI
  postings, and the catalog with and without the callsign. Callsigns are
  prefixes of each other and share a suffix, which is what leads the code to foreign
  records. The windows of 4, 5, 6 and 12 cells end before, inside and behind
  the neighbours.
- The walks have keys and rows that repeat, are archived, in small letters, sentinels, of a
  year that is none, or refused. The catalog is taken in any order, more than the code's
  sorted one.
- Scanned files have two to four records: what leaks from one record to the next
  shows in two; three examples need four. A key has up to two characters for the parser and up
  to three for `Callsign::parse` (`MaxKeyCall`, `MaxCall`: 12 and 26 in the code), so that there
  are keys between the two limits and beyond both.
- IDX files have all sequences of up to three out of five keys that are prefixes of each
  other, longer sorted ones with repeated keys, and offsets that repeat or fall.
- Damaged HCI tables have four offsets over the starts, the middles and the
  end of the records, undamaged ones up to three records in any row, with postings that
  repeat; three keys collide.
- Tables of four slots are the least that can have a prologue; eight give three
  halvings.
- While a database is opened one file changes once: with two changes a rename
  of `gcmcountrys` to `countrys` between the two checks opens a database without
  countries, which the code does not prevent. The directories have every file absent or
  broken in turn, and both country tables. Country rules are a single letter,
  ranges within a letter, over several and written backwards, of two tables that overlap;
  the trees have two photos of one name, photos by prefix, links to files and directories,
  and manifests with repeated, foreign, unsafe and nameless lines.
- Three addresses for two wrappers, two threads and a generator are handed out
  lowest first, so that they are reused at once. Each program has one or two
  methods, and between them all; the library answers with a value, with nothing and with an
  error to each. `wc.dat` changes `MaxWorldChanges` times.
- Slices begin around the places where the cycle of the keys and the cycle of the
  phase begin again, and are 205 bytes long: three chunks.

Deadlock is checked in the sidecar, HCI, count and client runs, whose systems never stop. It is
not in `station` (a database that was refused stays so), `lookup*` (a batch ends after
`MaxLookups`), `entries` (a walk ends), `scans` (a scan ends at the end of the file) and
`text_idx` (a file without a line is refused).

### Fairness

`LazySidecar!FairSpec` asks for weak fairness of each thread's `Progress`: the operating system
runs a thread that can run. A mutex is held only by a thread that can go on, so that weak
fairness is enough in the runs, with at most two operations per thread; without that bound a
thread could be overtaken for ever, as `std::sync::Mutex` is not fair. Nothing is assumed of
files, nor that an operation is begun. `Lookup!FairSpec` and `EntryIter!FairSpec` ask for weak
fairness of the steps of a call in progress, that is that its thread keeps running, and
(`EntryIter`) that the consumer takes the next item.

## What is proved

TLAPS checks the theorems for every value of the constants that satisfies the
named assumptions of the modules. They are listed in `PROJECT.json`; the
arguments are these.

- `LazySidecarProofs` (any threads, sidecars, plans): `TypeOK`, then
  `MutexDiscipline`, which is inductive over the types. `SharingInv` adds to
  `OneArcPerSidecar` and `LoadedOnce` that a thread loads only into an empty
  cache (`LoaderIsFirst`): without it a second load could not be excluded.
  `DisturbInv` adds to `NoStickyFailure` that a file that is not readable now is
  noted as disturbed by every operation in progress. `PlanInv` relates what a
  thread has been answered to the part of its plan that is behind it, and needs
  that no plan asks one sidecar twice (`DistinctAssumption`); from it follows
  `PlanOutcome`. The refinement of `OnceCells` goes action by action: an
  accessor step hands, withholds, fills or stutters. `PublishedStays` is a theorem
  only; the runs check it as part of the refinement.
- `LookupProofs` (any database that has the types of `IsDatabase`): the types with
  the bounds of the parser's cursor, `OwnCallOnly` with the queue and the
  snapshots found while they are parsed, `OneEntryPerVintage` with the order that
  sorting by distinct vintages gives. The lemmas on `Absorb` and `MergeMissing`
  say what merging keeps. `CatalogInv` follows the catalog's row from the first merge to
  the answer and gives `CatalogWins`. `Complete` gives
  `IndexedRecordsReported`: a record of the callsign that a visited entry or posting leads
  to is in the report, in the queue or among the snapshots found, or still ahead of
  the parser's cursor; one that is in none of them has its entry or posting still to be
  visited. It assumes that callsigns pass for keys of `hamcall.dat` (`KeyCalls`) and
  that the IDX has equal keys together in order of offset (`EntriesInOrder`):
  of such entries only the first is visited, and its slice has those of
  the others. Both hold in the databases of `MCLookup`. `SourcedInv` gives the
  converse, `BackedUnlessCut`: while no record was cut, whatever is in the report, the
  queue or among the snapshots found has its source (`Sourced`), and the cursor is
  where the window or a record begins (`WindowFits`). It assumes that no index points
  into a key, where the rest of another callsign could be taken for one, and that a
  record without a callsign of its own in the slice of an entry continues that entry's
  callsign (`IndexesFit`); the runs hold it also for databases with postings inside a key.
- `LookupProofs`, the refinement (any database that has the types of `IsDatabase`,
  nothing else): `AnswersLikeService`. `Answering` relates each state of a lookup to the
  report that it will return: what is found is what the segments of the window before
  the cursor give (`FoundSoFar`); what is queued is what the entries up to `at`
  give, or the postings visited, each offset at its first posting and with no smaller
  window of the present one having given anything; and once the queue is merged,
  what was merged and what is still queued are together what the indexes give
  (`MergedSoFar`). `JoiningSkips` is what lets the walk pass over positions that are no
  entries and the parser over cells that are no marks, `FromPostingsAppend` what lets
  it pass over an offset that is in `seen`. In the last step, entries of distinct
  vintages have one sorted arrangement (`SortUnique`), so that the history that is
  returned is the one `LookupReport` chooses.
- `CountTableProofs` (any set of tables): in an ordered table the slots given up
  to the left have smaller keys and those to the right greater ones
  (`Bracketed`); `MissMeansAbsent` follows when nothing is left between. `ListedSoFar`
  says that the listing holds the records before the slot it has reached, and
  gives `ListingComplete`.
- `EntryIterProofs` (any database): `Shape` says what an item can be, `Told` that
  items and `seen` tell the same story, `Witnessed` that every item comes from a text of
  its own among those seen, which gives `EachOnce`, `Covered` that all selected keys
  and rows before the position are seen or the candidate, `Stops` that `run`
  stops with the first error.
- `TextIdxProofs` (any file, stride and keys): that the byte order is total and
  transitive, and that what lies between a prefix and a key with that prefix has it
  too (`Between`). `Table` says that the table holds the entries of the lines read,
  in their order; `Cut` that outside the undecided part of a bisection the
  predicate is known, which needs that it is monotone in a sorted table
  (`ComesMonotone`), and nothing about which entries are probed; `Collected` that
  the years collected are those before the cursor. `Walked` says that what `verify` has
  counted of the first entries is zero exactly when they are in order. `OwnEntriesOnly`, that a
  search shows nothing but what it was asked for in a file of any order, is a theorem only: no
  run checks it.
- `HciIndexProofs` (any file, any hash function): `Indexed` says that the list
  holds the records read so far with the hashes of their headers, `Ordered` that
  it is sorted once open, and `Searching` that the records visited are those of
  the key before the cursor. No record of the key lies before the first
  partition point, as its hash is not smaller, nor behind the second. From
  these follow `SearchIsScan` and `YearsComplete`. In an undamaged file the records lie end to end
  and no header is inside one (`EndToEnd`), so that a record is read as it was written
  (`ReadAsWritten`) and has the postings between its header and the next (`OwnPostings`);
  the statistics grow by those with every record (`PostingsGrow`, `CountingKept`), which gives
  `StatisticsComplete`.
- `DatabaseProofs`, the keys of `hamcall.dat` (any offset and length).
  `SliceBeginsWithByteKey` is arithmetic modulo 101, and `ChunksKeepByteKeys` the step of
  the loop: a chunk has its bytes' keys, and the next one begins with key 0 where its
  first byte has it. `SlicesDecoded` goes from there to whole slices: the function that
  satisfies the recursion of `decode_phase_into` is given in closed form, so that the
  one that is chosen satisfies it too, and a least slice it decodes otherwise
  would have a tail that it decodes otherwise. `SliceKeysAreByteKeysHolds` follows.
- `DatabaseProofs`, the country tables (any table, any callsign):
  `MatchingRuleOffered` goes by the first bytes: a head between two texts begins
  with a byte between theirs. From it `IndexedLookupIsLinear`, the part of
  `OneCountry` about the index. Inserting a rule keeps a table in the order of its prefixes'
  lengths (`ParsedInOrder`), so that the first match has the longest
  (`LongestPrefixWins`); with what the catalog keeps of the tables, `OneCountryHolds`.
- `DatabaseProofs`, the scans. `StatisticsAgreeWithSearchHolds` needs nothing of the
  files: `Samples` says that the accumulator of an unknown code keeps matches of that code
  only, no two the same, and all of them while there are fewer than three.
  `SearchAsParsedHolds` and `InventoryCompleteHolds` relate a scan to the cells it has
  passed: `Within` says that its key, its last tag and its last interest value are those of
  the cells since the mark of the record it is in. `SearchInv` adds that the matches of a
  code are the finished records that have it and a key that is a callsign, of which the segment
  parser reads those whose key looks like one, and
  `InventoryInv` that the inventory has counted the values before the one that is still
  to be counted. Neither assumes anything of the files: a key with something
  behind its year is none to the scans and to the parser alike.
- `DatabaseProofs`, opening (any directories): `OpenInv` says that some directory since
  opening began agrees with everything that has been looked at until now (`Found`), that all
  those directories differ in one file at most (`OneChange`), and that no file is looked at
  twice. An answer about the changed file is the one of the directory before or after; until
  then both agree. `OpenedAsAtOneMomentHolds` assumes that the directory changes at most once
  (`changes` in `Beginnings`), without which it is false, as said under Bounds.
- `DatabaseProofs`, the assets (any directories, any manifest, any listing of them).
  `Arranged` takes every chosen place once and in order (`ArrangedIs`), since the places
  ahead of two places are not equally many. So filters and sorts keep what they should
  (`KeptIs`, `SortedIs`), and there is one arrangement of things in a strict order
  (`OneOrder`). The order of paths is strict (`PathsAreOrdered`), hence the order of assets and,
  for photos of one callsign, that by rank and path; the lookups in two listings collect the
  same assets (`CollectedAgree`), with the photos that an entry of the manifest stands for
  (`MeantBy`). `Pictures` says that a profile that is looked at was taken of the
  directories as they are and of the manifest that is kept; `AssetsInOneOrderHolds` and
  `FoundPhotosAreShownHolds` follow. They assume `TreesAssumption`: the directories have
  finitely many files, each under a name, and a line of the manifest gives at most one path.
- `PyClientProofs` (any threads, wrappers, generators and addresses, any
  allocator, any library): `Ownership` says that what is kept is typed, that at most one thread
  is closing a wrapper (`OneCloser`), and that every occupied cell of the heap has exactly
  one holder, of its kind, and every holder an occupied cell. It is stated once for any
  cells and holders (`Owned`), and every action is one of four moves that keep it:
  an object is taken, dropped, handed from one holder to another, or changed
  in place. `OneOwner` and `NothingLeaks` are two readings of it. A holder also knows which
  question its object answers, so that the invariant says of the contents that
  they are an answer of the library to that question; the lemmas about each copy say that
  reading such an object field by field gives what the `Meant...` operators make of the answer,
  and `ReadsOwnAnswerHolds`, `GeneratorsYieldRowsHolds` and `TooSmallMeansChangedHolds` follow.
  The proofs assume that the library's answers have their types (`LibraryAssumption`: numbers are
  not negative, texts that are there are not empty, enumerations have their members, and as long as
  `wc.dat` stays as it is all maps of a station are alike) and that the programs
  ask what the library can be asked (`ArgumentAssumption`).

The library's induction theorems cannot be used with the installed provers, but its
well-founded order of the naturals can: `LeastNumber` gives least counterexamples, and
`FiniteSetTheorems` counts.

Only model-checked: liveness (`EveryCallReturns`, `EveryLookupReturns`,
`WalkEnds`), which is out of the prover's reach. Every safety invariant
and action property of a passing run is a theorem.

## Left to do

- `RecordStatistics` and the traces: one pass each over tables that are modelled.
- `Boundaries`: bounding boxes and the conversion of state vectors, which are
  floating-point arithmetic over parsed numbers.

## Not modelled

Text layout and formatting (SVG, JSON, the command line's output, traces),
unzipping and CSV quoting, the ranking of candidate phases, benchmarks, the build and the
packaging. Exceptions that CPython delivers asynchronously: one between the
call that frees and `_pointer = 0` has the object freed twice. Two changes of the
directory while it is opened. File systems that do not tell the case of names apart,
where the walk and the manifest may give a photo two paths. Photos are found by
prefix, as the code has it: those of `K1AB` are photos of `K1A` as well.
`PROJECT.json` lists each component with its state.
