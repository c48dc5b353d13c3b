------------------------------- MODULE RomFs -------------------------------
(***************************************************************************)
(* The layered romfs of rnx_mitm's fs (fsmitm_romfs.cpp and                *)
(* fsmitm_layered_romfs_storage.cpp): the files of a program come from the *)
(* SD card, from a romfs file and from the program's own storage, in that  *)
(* order of preference.  Builder merges the three trees, gives every file  *)
(* its place in a virtual image and writes the tables that describe it;    *)
(* LayeredRomfsStorage::Read serves the image from its sources.            *)
(*                                                                         *)
(* A name is a sequence of characters, a path a sequence of names, and an  *)
(* entry of a table a run of cells.  Sizes are scaled down.  The romfs of  *)
(* the program keeps its files in the order of their paths, aligned.       *)
(***************************************************************************)
EXTENDS Integers, Sequences, FiniteSetsExt, SequencesExt, Functions, Bitwise

CONSTANTS
    MaxCachedSize,       \* of a table, in cells
    DirectoryEntrySize, FileEntrySize,
    NameAlign,           \* cells a name is padded to: sizeof(u32)
    FileAlign,           \* of the data of a file: 0x10
    HashEntrySize,       \* sizeof(u32)
    HeaderSize, FilePartitionOffset

Slash == 3      \* some characters are less: '.' and '-'

Root  == <<>>
Empty == -1     \* EmptyEntry

AlignUp(n, a) == ((n + a - 1) \div a) * a

---------------------------------------------------------------------------
(* Builder: what is in the merged romfs.                                   *)

(* Comparator: full paths with their slashes, as bytes.                    *)
PathString(path) == FlattenSeq([n \in DOMAIN path |-> <<Slash>> \o path[n]])

Precedes(p, q) ==
    LET a == PathString(p)
        b == PathString(q)
    IN  \E n \in 0..Len(a) :
            /\ n <= Len(b) /\ SubSeq(a, 1, n) = SubSeq(b, 1, n)
            /\ n < Len(b)
            /\ n = Len(a) \/ a[n + 1] < b[n + 1]

Sorted(paths) == SetToSortSeq(paths, Precedes)

Parent(path) == SubSeq(path, 1, Len(path) - 1)
Name(path)   == IF path = Root THEN <<>> ELSE path[Len(path)]

(* A source: its directories and, of each file, the size and the offset.   *)
NoSource == [dirs |-> {Root}, files |-> [p \in {} |-> 0]]

(* Mutant: the file that is added last is kept.                            *)
LastAdded(old, new) == [p \in DOMAIN old \cup DOMAIN new |-> IF p \in DOMAIN new THEN new[p] ELSE old[p]]

(* AddFile: "Check if the file already exists".                            *)
FirstAdded(old, new) == [p \in DOMAIN old \cup DOMAIN new |-> IF p \in DOMAIN old THEN old[p] ELSE new[p]]

(* AddSdFiles, AddStorageFiles: VisitDirectory adds all of a source.       *)
AddSource(built, source, type) ==
    [dirs  |-> built.dirs \cup source.dirs,
     files |-> FirstAdded(built.files,
                          [p \in DOMAIN source.files |->
                              [size |-> source.files[p].size, orig |-> source.files[p].offset,
                               type |-> type]])]

(* LayeredRomfsStorage::InitializeImpl.  What is not there is NoSource.    *)
Merged(sd, file_romfs, storage_romfs) ==
    AddSource(AddSource(AddSource(NoSource, sd, "sd"), file_romfs, "file"), storage_romfs, "storage")

---------------------------------------------------------------------------
(* Builder::Build.                                                         *)

IsOriginal(type) == type \in {"storage", "file"}

(* "Process Files": the offsets in the file partition.  Between two files  *)
(* of the same original the padding of the original is kept.               *)
Placed(files) ==
    FoldLeft(LAMBDA st, p :
                LET f == files[p]
                    aligned == AlignUp(st.size, FileAlign)
                    expected == aligned - st.offsets[st.prev] + files[st.prev].orig
                    keeps == st.prev # Root /\ files[st.prev].type = f.type /\ IsOriginal(f.type)
                    at == IF keeps /\ expected # f.orig THEN aligned + f.orig - expected ELSE aligned
                IN  [st EXCEPT !.offsets = [q \in DOMAIN @ \cup {p} |-> IF q = p THEN at ELSE @[q]],
                               !.size = at + f.size, !.prev = p,
                               !.aborted = @ \/ (keeps /\ expected > f.orig)],
             [offsets |-> [q \in {} |-> 0], size |-> 0, prev |-> Root, aborted |-> FALSE],
             Sorted(DOMAIN files))

EntrySize(path, header) == header + AlignUp(Len(Name(path)), NameAlign)

(* entry_offset of every path of a table.                                  *)
EntryOffsets(paths, header) ==
    LET sorted == Sorted(paths)
    IN  [p \in paths |-> MapThenSumSet(LAMBDA n : EntrySize(sorted[n], header),
                            {n \in DOMAIN sorted : Precedes(sorted[n], p)})]

(* "Assign deferred parent/sibling ownership": from the last path to the   *)
(* first, each becomes the head of its parent's list.                      *)
Lists(paths) ==
    FoldRight(LAMBDA p, st : [head |-> [st.head EXCEPT ![Parent(p)] = p],
                              sibling |-> [st.sibling EXCEPT ![p] = st.head[Parent(p)]]],
              Sorted(paths \ {Root}),
              [head |-> [d \in {Parent(p) : p \in paths \ {Root}} |-> Root],
               sibling |-> [p \in paths |-> Root]])

(* The rest of Build computes the entries.                                 *)
HeadOf(lists, d) == IF d \in DOMAIN lists.head THEN lists.head[d] ELSE Root
OffsetOf(offsets, p) == IF p = Root THEN Empty ELSE offsets[p]

DirectoryEntries(built) ==
    LET dirs  == EntryOffsets(built.dirs, DirectoryEntrySize)
        files == EntryOffsets(DOMAIN built.files, FileEntrySize)
        dir_lists  == Lists(built.dirs)
        file_lists == Lists(DOMAIN built.files)
    IN  [d \in built.dirs |->
            [parent  |-> IF d = Root THEN 0 ELSE dirs[Parent(d)],
             sibling |-> OffsetOf(dirs, dir_lists.sibling[d]),
             child   |-> OffsetOf(dirs, HeadOf(dir_lists, d)),
             file    |-> OffsetOf(files, HeadOf(file_lists, d)),
             name    |-> Name(d), offset |-> dirs[d]]]

FileEntries(built) ==
    LET dirs  == EntryOffsets(built.dirs, DirectoryEntrySize)
        files == EntryOffsets(DOMAIN built.files, FileEntrySize)
        lists == Lists(DOMAIN built.files)
        placed == Placed(built.files)
    IN  [p \in DOMAIN built.files |->
            [parent |-> dirs[Parent(p)], sibling |-> OffsetOf(files, lists.sibling[p]),
             data |-> placed.offsets[p], size |-> built.files[p].size,
             name |-> Name(p), offset |-> files[p]]]

GetHashTableSize(n) ==
    IF n < 3 THEN 3
    ELSE IF n < 19 THEN (IF n % 2 = 0 THEN n + 1 ELSE n)
    ELSE CHOOSE c \in n..(2 * n) :
            /\ \A q \in {2, 3, 5, 7, 11, 13, 17} : c % q # 0
            /\ \A d \in n..(c - 1) : \E q \in {2, 3, 5, 7, 11, 13, 17} : d % q = 0

(* A u32 by its halves; parents and characters are less than 2^16.         *)
Half == 65536
RotatedBy5(h) == [hi |-> (h.hi \div 32) + (h.lo % 32) * 2048,
                  lo |-> (h.lo \div 32) + (h.hi % 32) * 2048]
XorLow(h, n)  == [h EXCEPT !.lo = @ ^^ n]
Modulo(h, n)  == ((h.hi % n) * (Half % n) + h.lo) % n

CalculatePathHash(parent, name) ==
    FoldLeft(LAMBDA h, c : XorLow(RotatedBy5(h), c),
             XorLow([hi |-> 123456789 \div Half, lo |-> 123456789 % Half], parent), name)

(* "Insert into hash table": the chains of a table, newest entry first.    *)
HashTable(entries) ==
    LET size == GetHashTableSize(Cardinality(DOMAIN entries))
        index == [p \in DOMAIN entries |->
                     Modulo(CalculatePathHash(entries[p].parent, entries[p].name), size)]
    IN  FoldLeft(LAMBDA st, p :
                    [table |-> [st.table EXCEPT ![index[p]] = entries[p].offset],
                     next  |-> [st.next EXCEPT ![p] = st.table[index[p]]]],
                 [table |-> [i \in 0..(size - 1) |-> Empty], next |-> [p \in DOMAIN entries |-> Empty]],
                 Sorted(DOMAIN entries))

---------------------------------------------------------------------------
(* TableWriter: entries are written through a cache of one chunk of the    *)
(* file; one that crosses the end of a chunk through a second, small cache.*)

Chunk(offset) == offset \div MaxCachedSize

Cells(path, size, from) == [c \in from..(from + size - 1) |-> <<path, c - from>>]

Flushed(w) ==
    [w EXCEPT !.file = IF w.fallback_dirty THEN w.fallback @@ w.file
                       ELSE IF w.dirty THEN w.cache @@ w.file ELSE w.file,
              !.dirty = FALSE, !.fallback_dirty = FALSE,
              !.aborted = @ \/ (w.dirty /\ w.fallback_dirty)]

NeedsRefresh(w, offset) == Chunk(offset) # w.idx \/ w.fallback_dirty

RefreshCache(w, offset) ==
    IF NeedsRefresh(w, offset)
    THEN LET f == Flushed(w)
         IN  [f EXCEPT !.idx = Chunk(offset),
                       !.cache = [c \in {x \in DOMAIN f.file : Chunk(x) = Chunk(offset)} |-> f.file[c]]]
    ELSE w

(* GetEntry, and the caller that fills the entry.                          *)
WriteEntry(w, path, offset, size) ==
    LET r == RefreshCache(w, offset)
    IN  IF (offset % MaxCachedSize) + size > MaxCachedSize
        THEN [Flushed(r) EXCEPT !.fallback = Cells(path, size, offset), !.fallback_dirty = TRUE]
        ELSE [r EXCEPT !.cache = [c \in DOMAIN @ |->
                                     IF c \in offset..(offset + size - 1)
                                     THEN <<path, c - offset>> ELSE @[c]],
                       !.dirty = TRUE]

TableSize(paths, header) == MapThenSumSet(LAMBDA p : EntrySize(p, header), paths)

WriteTable(entries, header) ==
    LET size == TableSize(DOMAIN entries, header)
        zero == [c \in 0..(size - 1) |-> <<>>]
    IN  Flushed(FoldLeft(LAMBDA w, p : WriteEntry(w, p, entries[p].offset, EntrySize(p, header)),
                         [file |-> zero, idx |-> 0, cache |-> Restrict(zero, {c \in DOMAIN zero : Chunk(c) = 0}),
                          fallback |-> [c \in {} |-> 0], dirty |-> FALSE, fallback_dirty |-> FALSE,
                          aborted |-> FALSE],
                         Sorted(DOMAIN entries)))

---------------------------------------------------------------------------
(* TableReader.  A pointer GetEntry returned shows what its cache holds    *)
(* when it is used: the chunk of the last GetEntry, or the last entry that *)
(* crossed a chunk.                                                        *)

NewReader == [idx |-> 0, fallback |-> 0]

Crosses(offset, size) == Chunk(offset) # Chunk(offset + size + NameAlign)

(* The size of an entry with its unpadded name.                            *)
SizeAt(file, offset, header) == header + Len(Name(file[offset][1]))

GetEntry(rd, file, offset, header) ==
    [rd EXCEPT !.idx = Chunk(offset),
               !.fallback = IF Crosses(offset, SizeAt(file, offset, header)) THEN offset ELSE @]

Pointer(file, offset, header) ==
    IF Crosses(offset, SizeAt(file, offset, header)) THEN [in |-> "fallback", at |-> 0]
    ELSE [in |-> "cache", at |-> offset % MaxCachedSize]

(* The entry a pointer shows, or <<>> when it is not the start of one or   *)
(* not all of it is there.                                                 *)
Deref(rd, file, ptr) ==
    LET offset == IF ptr.in = "fallback" THEN rd.fallback ELSE rd.idx * MaxCachedSize + ptr.at
        cells == {c \in DOMAIN file : c >= offset /\ (ptr.in = "fallback" \/ Chunk(c) = rd.idx)}
    IN  IF offset \in cells /\ file[offset] # <<>> /\ file[offset][2] = 0
        THEN file[offset][1] ELSE <<"not an entry">>

(* Mutant: the sibling is read after the child was visited.                *)
SiblingAfter(before, after) == after

SiblingSeen(before, after) == before

(* VisitDirectory of a romfs: the files of a directory, then its children. *)
(* st has what was added and the two readers; t the tables.                *)
RECURSIVE VisitFiles(_, _, _, _), VisitChildren(_, _, _, _), VisitDirectory(_, _, _, _)
VisitFiles(st, t, path, offset) ==
    IF offset = Empty THEN st
    ELSE LET rd == GetEntry(st.files_rd, t.file_cells, offset, FileEntrySize)
             p  == Deref(rd, t.file_cells, Pointer(t.file_cells, offset, FileEntrySize))
             added == [size |-> t.files[p].size, orig |-> t.files[p].data, type |-> "file"]
         IN  VisitFiles([st EXCEPT !.files = FirstAdded(@, Append(path, Name(p)) :> added),
                                   !.files_rd = rd],
                        t, path, t.files[p].sibling)
VisitChildren(st, t, path, offset) ==
    IF offset = Empty THEN st
    ELSE LET rd == GetEntry(st.dirs_rd, t.dir_cells, offset, DirectoryEntrySize)
             ptr == Pointer(t.dir_cells, offset, DirectoryEntrySize)
             d  == Deref(rd, t.dir_cells, ptr)
             child == Append(path, Name(d))
             visited == VisitDirectory([st EXCEPT !.dirs = @ \cup {child}, !.dirs_rd = rd], t, child, offset)
             shown == Deref(visited.dirs_rd, t.dir_cells, ptr)
         IN  VisitChildren(visited, t, path,
                SiblingSeen(t.dirs[d].sibling,
                            IF shown \in DOMAIN t.dirs THEN t.dirs[shown].sibling ELSE Empty))
VisitDirectory(st, t, path, offset) ==
    LET rd == GetEntry(st.dirs_rd, t.dir_cells, offset, DirectoryEntrySize)
        ptr == Pointer(t.dir_cells, offset, DirectoryEntrySize)
        visited == VisitFiles([st EXCEPT !.dirs_rd = rd], t, path, t.dirs[Deref(rd, t.dir_cells, ptr)].file)
    IN  VisitChildren(visited, t, path, t.dirs[Deref(visited.dirs_rd, t.dir_cells, ptr)].child)

Tables(built) ==
    LET dirs == DirectoryEntries(built)
        files == FileEntries(built)
    IN  [dirs |-> dirs, files |-> files,
         dir_cells |-> WriteTable(dirs, DirectoryEntrySize).file,
         file_cells |-> WriteTable(files, FileEntrySize).file,
         aborted |-> \/ WriteTable(dirs, DirectoryEntrySize).aborted
                     \/ WriteTable(files, FileEntrySize).aborted]

(* AddStorageFiles, from a source with these tables.  The constructor of a *)
(* reader loads its first chunk, and aborts when there is none.            *)
Aborted == [aborted |-> TRUE]

AddStorageFiles(t) ==
    IF DOMAIN t.dir_cells = {} \/ DOMAIN t.file_cells = {} THEN Aborted
    ELSE LET added == VisitDirectory([dirs |-> {Root}, files |-> [p \in {} |-> 0],
                                      dirs_rd |-> NewReader, files_rd |-> NewReader], t, Root, 0)
         IN  [aborted |-> FALSE, dirs |-> added.dirs, files |-> added.files]

---------------------------------------------------------------------------
(* The image: its sources, and Read.                                       *)

Info(offset, size, type, at) ==
    [virtual_offset |-> offset, size |-> size, type |-> type, at |-> at]

(* "Emplace a source": consecutive files of one original become one source.*)
MetadataSize(built) ==
    HashEntrySize * (GetHashTableSize(Cardinality(built.dirs))
                        + GetHashTableSize(Cardinality(DOMAIN built.files)))
      + TableSize(built.dirs, DirectoryEntrySize) + TableSize(DOMAIN built.files, FileEntrySize)

SourceInfos(built, placed) ==
    LET files == built.files
        metadata == AlignUp(FilePartitionOffset + placed.size, NameAlign)
    IN  Append(FoldLeft(LAMBDA infos, p :
                LET f == files[p]
                    at == placed.offsets[p] + FilePartitionOffset
                    back == infos[Len(infos)]
                IN  CASE IsOriginal(f.type) /\ back.type = f.type ->
                            [infos EXCEPT ![Len(infos)].size = at + f.size - back.virtual_offset]
                      [] IsOriginal(f.type) /\ back.type # f.type ->
                            Append(infos, Info(at, f.size, f.type, f.orig + FilePartitionOffset))
                      [] OTHER -> Append(infos, Info(at, f.size, f.type, p)),
             <<Info(0, HeaderSize, "memory", 0)>>, Sorted(DOMAIN files)),
           Info(metadata, MetadataSize(built), "metadata", 0))

(* A byte of a source.                                                     *)
Byte(info, n) == IF info.type = "sd" THEN <<"sd", info.at, n>> ELSE <<info.type, info.at + n>>

(* "Our operator < compares against start of info instead of end."         *)
StartsBefore(infos, offset) == {n \in DOMAIN infos : infos[n].virtual_offset <= offset}

(* The loop of Read.  Padding is filled up to the next source, even when   *)
(* fewer bytes were asked for.                                             *)
RECURSIVE ReadFrom(_, _, _, _, _)
ReadFrom(infos, it, offset, size, done) ==
    IF Len(done) >= size THEN done
    ELSE LET s == infos[it]
             within == offset - s.virtual_offset
             count == Min({size - Len(done), s.size - within})
             padding == infos[it + 1].virtual_offset - offset
         IN  IF offset < s.virtual_offset + s.size
             THEN ReadFrom(infos, it, offset + count, size,
                           done \o [n \in 1..count |-> Byte(s, within + n - 1)])
             ELSE ReadFrom(infos, it + 1, offset + padding, size,
                           done \o [n \in 1..padding |-> <<"padding">>])

GetSize(infos) == infos[Len(infos)].virtual_offset + infos[Len(infos)].size

ReadImage(infos, offset, size) ==
    IF size = 0 THEN [result |-> "success", buffer |-> <<>>]
    ELSE IF offset < 0 \/ offset >= GetSize(infos) THEN [result |-> "InvalidOffset", buffer |-> <<>>]
    ELSE [result |-> "success",
          buffer |-> ReadFrom(infos, Max(StartsBefore(infos, offset)), offset,
                              Min({size, GetSize(infos) - offset}), <<>>)]

---------------------------------------------------------------------------
(* Properties, of three sources.                                           *)

(* Read returns, of every file, the bytes of the source that is preferred, *)
(* through sources of no bytes, kept padding and joined sources; and every *)
(* byte asked for is written.                                              *)
ReadsPreferredFiles(sd, file_romfs, storage_romfs, sizes) ==
    LET built == Merged(sd, file_romfs, storage_romfs)
        placed == Placed(built.files)
        infos == SourceInfos(built, placed)
        expected(p, n) ==
            CASE p \in DOMAIN sd.files -> <<"sd", p, n>>
              [] p \notin DOMAIN sd.files /\ p \in DOMAIN file_romfs.files ->
                    <<"file", file_romfs.files[p].offset + FilePartitionOffset + n>>
              [] OTHER -> <<"storage", storage_romfs.files[p].offset + FilePartitionOffset + n>>
    IN  /\ ~placed.aborted
        /\ \A p \in DOMAIN built.files, size \in sizes :
               LET f == built.files[p]
                   at == placed.offsets[p] + FilePartitionOffset
               IN  \A n \in 0..(f.size - 1) :
                      LET got == ReadImage(infos, at + n, size)
                      IN  /\ got.result = "success"
                          /\ \A m \in 1..Min({size, f.size - n}) :
                                got.buffer[m] = expected(p, n + m - 1)

(* Every cell of an entry is in the file that was written.                 *)
Complete(entries, cells, header) ==
    \A p \in DOMAIN entries : \A c \in 0..(EntrySize(p, header) - 1) :
        cells[entries[p].offset + c] = <<p, c>>

(* The chain of a hash, followed over at most all of the entries.          *)
Chain(entries, hashed, hash) ==
    LET places == {Empty} \cup {entries[q].offset : q \in DOMAIN entries}
        chain[k \in 0..Cardinality(DOMAIN entries), o \in places] ==
            IF o = Empty \/ k = 0 THEN {}
            ELSE {o} \cup chain[k - 1, hashed.next[CHOOSE p \in DOMAIN entries : entries[p].offset = o]]
    IN  chain[Cardinality(DOMAIN entries), hashed.table[Modulo(hash, GetHashTableSize(Cardinality(DOMAIN entries)))]]

Reaches(entries, hashed) ==
    \A p \in DOMAIN entries :
        entries[p].offset \in
            Chain(entries, hashed, CalculatePathHash(entries[p].parent, entries[p].name))

Describes(t, read, built) ==
    /\ ~t.aborted
    /\ Complete(t.dirs, t.dir_cells, DirectoryEntrySize)
    /\ Complete(t.files, t.file_cells, FileEntrySize)
    /\ read.aborted <=> DOMAIN built.files = {}
    /\ ~read.aborted =>
          /\ read.dirs = built.dirs
          /\ read.files = [p \in DOMAIN built.files |->
                [size |-> built.files[p].size, orig |-> t.files[p].data, type |-> "file"]]
    /\ Reaches(t.dirs, HashTable(t.dirs))
    /\ DOMAIN t.files # {} => Reaches(t.files, HashTable(t.files))

(* The tables describe the merged tree: they survive the writer's cache,   *)
(* reading them back finds the same directories and files although the     *)
(* reader's cache moves under the pointers in use, with their places and   *)
(* sizes, and every file and directory is on the hash chain of its parent  *)
(* and name.  Only what has files can be read back.                        *)
TablesRight(built, t) == Describes(t, AddStorageFiles(t), built)
MergedTables(built) == TablesRight(built, Tables(built))
TablesDescribeTree(sd, file_romfs, storage_romfs) ==
    MergedTables(Merged(sd, file_romfs, storage_romfs))
=============================================================================
