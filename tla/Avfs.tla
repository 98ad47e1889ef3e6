-------------------------------- MODULE Avfs --------------------------------
(***************************************************************************)
(* AVFS, the RAM file system (src/src/Avfs/Avfs.c): one table of entries,   *)
(* in which a file or directory names its parent by index; a bitmap of      *)
(* blocks, a file being one run of consecutive blocks; and the data those   *)
(* blocks hold.  rm -r (src/src/commands/rm.c) is modelled with it, one      *)
(* directory entry per step, because its recursion keeps its listing in a   *)
(* static array.  Calls run to completion on one processor, so every other  *)
(* call waits while rm walks.                                               *)
(*                                                                         *)
(* A name is a string, a path a sequence of names; a name longer than       *)
(* AVFS_FILENAME_MAX and a path longer than AVFS_PATH_MAX are not modelled. *)
(* A call that the code refuses changes nothing and is a stuttering step.   *)
(***************************************************************************)
EXTENDS Integers, Sequences, FiniteSets, SequencesExt

CONSTANTS AVFS_NUM_BLOCKS, AVFS_BLOCK_SIZE, AVFS_MAX_FILES,
          FilePaths,   \* the arguments of the file calls: [abs, parts]
          DirPaths,    \* the arguments of mkdir and rm -d
          ChdirPaths,  \* the arguments of cd
          RmPaths,     \* the directories rm -r is asked to remove
          Buffers,     \* the buffers programs write
          Sizes,       \* the sizes passed to create and truncate
          LISTING_MAX, \* rm.c: entries[128]
          NoFile       \* what a path names when it names no file

ASSUME AvfsConstants ==
  /\ AVFS_NUM_BLOCKS \in Nat \ {0}
  /\ AVFS_BLOCK_SIZE \in Nat \ {0}
  /\ AVFS_MAX_FILES \in Nat \ {0}
  /\ Sizes \subseteq Nat
  /\ FilePaths \cup DirPaths \cup ChdirPaths \cup RmPaths
       \subseteq [abs : BOOLEAN, parts : Seq(STRING)]
  /\ Buffers \subseteq Seq(Nat) /\ NoFile \notin Seq(Nat)

VARIABLES files,         \* avfs.files
          block_bitmap,  \* avfs.block_bitmap
          data,          \* avfs.data
          current_dir,   \* avfs.current_dir, as the names after the slash
          call,          \* the last call that succeeded (for the properties)
          rm,            \* the frames of rm's remove_directory_recursive
          entries        \* rm.c's static listing, shared by those frames

vars == <<files, block_bitmap, data, current_dir, call, rm, entries>>

Indices == 0..(AVFS_MAX_FILES - 1)
Blocks  == 0..(AVFS_NUM_BLOCKS - 1)
Cells   == 0..(AVFS_NUM_BLOCKS * AVFS_BLOCK_SIZE - 1)

\* What memset leaves of an entry.
Zeroed == [used |-> FALSE, type |-> "file", name |-> "", parent |-> 0,
           size |-> 0, start |-> 0]

Root == [Zeroed EXCEPT !.used = TRUE, !.type = "dir", !.name = "/", !.parent = -1]

AvfsInit ==
  /\ files = [i \in Indices |-> IF i = 0 THEN Root ELSE Zeroed]
  /\ block_bitmap = [b \in Blocks |-> FALSE]
  /\ data = [c \in Cells |-> 0]
  /\ current_dir = <<>>
  /\ call = [op |-> "none"]
  /\ rm = <<>>
  /\ entries = <<>>

-----------------------------------------------------------------------------
(* Paths *)

Walked(at, part) ==
  CASE part = "."  -> at
    [] part = ".." -> IF at = <<>> THEN at ELSE Front(at)
    [] OTHER       -> Append(at, part)

normalize_path(path) ==
  LET after[k \in 0..Len(path.parts)] ==
        IF k = 0 THEN IF path.abs THEN <<>> ELSE current_dir
        ELSE Walked(after[k - 1], path.parts[k])
  IN  after[Len(path.parts)]

\* Mutant: the parent is not compared.
Child_any(parent, name) ==
  LET found == {j \in Indices : files[j].used /\ files[j].name = name}
  IN  IF parent = -1 \/ found = {} THEN -1 ELSE Min(found)

\* The first used entry of that name under that parent.
Child(parent, name) ==
  LET found == {j \in Indices : files[j].used /\ files[j].parent = parent
                                              /\ files[j].name = name}
  IN  IF parent = -1 \/ found = {} THEN -1 ELSE Min(found)

\* after[k] holds the one entry reached by the first k names.  The root is
\* entry 0 whether or not entry 0 is used.
avfs_find_entry(path) ==
  LET after[k \in 0..Len(path)] ==
        IF k = 0 THEN {0} ELSE {Child(i, path[k]) : i \in after[k - 1]}
  IN  CHOOSE i \in after[Len(path)] : TRUE

Exists(path) == avfs_find_entry(path) # -1

IsDir(i) == i # -1 /\ files[i].type = "dir"

\* get_parent_path
ParentOf(path) == avfs_find_entry(Front(path))

FreeEntries == {i \in Indices : ~files[i].used}

-----------------------------------------------------------------------------
(* Storage *)

BlocksFor(size) ==
  LET n == (size + AVFS_BLOCK_SIZE - 1) \div AVFS_BLOCK_SIZE
  IN  IF n = 0 THEN 1 ELSE n

RunAt(start, count) == start..(start + count - 1)

RunOf(f) == RunAt(f.start, BlocksFor(f.size))

Marked(bitmap, run, used) == [b \in Blocks |-> IF b \in run THEN used ELSE bitmap[b]]

\* Mutant: a run may end beyond the storage.
avfs_find_free_blocks_past(bitmap, count) ==
  LET starts == {s \in Blocks : \A b \in RunAt(s, count) : b \in Blocks => ~bitmap[b]}
  IN  IF starts = {} THEN -1 ELSE Min(starts)

\* First fit over runs of free blocks, -1 when there is none.
avfs_find_free_blocks(bitmap, count) ==
  LET starts == {s \in Blocks : /\ s + count <= AVFS_NUM_BLOCKS
                                /\ \A b \in RunAt(s, count) : ~bitmap[b]}
  IN  IF starts = {} THEN -1 ELSE Min(starts)

AddressOf(f) == f.start * AVFS_BLOCK_SIZE

Stored(d, at, buf) ==
  [c \in Cells |-> IF c - at + 1 \in 1..Len(buf) THEN buf[c - at + 1] ELSE d[c]]

Bytes(f) == [i \in 1..f.size |-> data[AddressOf(f) + i - 1]]

\* memcpy between two places of avfs.data.  The loop runs upwards: a byte
\* whose source lies in what was already written is read after the write.
Moved(to, from, n) ==
  LET source[c \in Cells] ==
        IF c - to \notin 0..(n - 1) THEN c
        ELSE IF from < to /\ c - to + from >= to THEN source[c - to + from]
        ELSE c - to + from
  IN  [c \in Cells |-> data[source[c]]]

-----------------------------------------------------------------------------
(* The calls on files *)

Idle == rm = <<>> /\ UNCHANGED <<rm, entries>>

NewFile(path, size) ==
  [used |-> TRUE, type |-> "file", name |-> Last(path), parent |-> ParentOf(path),
   size |-> size, start |-> avfs_find_free_blocks(block_bitmap, BlocksFor(size))]

CanCreate(path, size) ==
  /\ ~Exists(path)
  /\ avfs_find_free_blocks(block_bitmap, BlocksFor(size)) # -1
  /\ ParentOf(path) # -1
  /\ FreeEntries # {}

Enter(f) ==
  /\ files' = [files EXCEPT ![Min(FreeEntries)] = f]
  /\ block_bitmap' = IF f.type = "dir" THEN block_bitmap
                     ELSE Marked(block_bitmap, RunOf(f), TRUE)

\* The parent has to exist; that it is a directory is not asked.
avfs_create_file(p, size) ==
  LET path == normalize_path(p)
  IN  /\ Idle
      /\ CanCreate(path, size)
      /\ Enter(NewFile(path, size))
      /\ call' = [op |-> "create", path |-> path, size |-> size]
      /\ UNCHANGED <<data, current_dir>>

\* avfs_save_file of a new path: create, then write.
save_new(p, buf) ==
  LET path == normalize_path(p)
  IN  /\ Idle
      /\ CanCreate(path, Len(buf))
      /\ IsDir(ParentOf(path))
      /\ Enter(NewFile(path, Len(buf)))
      /\ data' = Stored(data, AddressOf(NewFile(path, Len(buf))), buf)
      /\ call' = [op |-> "save", path |-> path, buf |-> buf]
      /\ UNCHANGED current_dir

\* avfs_save_file over an existing file: the new run is taken before the old
\* one is given back.
save_over(p, buf) ==
  LET path  == normalize_path(p)
      i     == avfs_find_entry(path)
      start == avfs_find_free_blocks(block_bitmap, BlocksFor(Len(buf)))
      f     == [files[i] EXCEPT !.start = start, !.size = Len(buf)]
  IN  /\ Idle
      /\ i # -1 /\ files[i].type = "file"
      /\ start # -1
      /\ data' = Stored(data, AddressOf(f), buf)
      /\ block_bitmap' = Marked(Marked(block_bitmap, RunOf(f), TRUE), RunOf(files[i]), FALSE)
      /\ files' = [files EXCEPT ![i] = f]
      /\ call' = [op |-> "save", path |-> path, buf |-> buf]
      /\ UNCHANGED current_dir

avfs_write_file(p, buf, offset) ==
  LET path == normalize_path(p)
      i    == avfs_find_entry(path)
  IN  /\ Idle
      /\ i # -1 /\ files[i].type = "file"
      /\ offset + Len(buf) <= files[i].size
      /\ data' = Stored(data, AddressOf(files[i]) + offset, buf)
      /\ call' = [op |-> "write", path |-> path, buf |-> buf, offset |-> offset]
      /\ UNCHANGED <<files, block_bitmap, current_dir>>

\* Where a file of the new size goes when its run is given up first; -1 when
\* no run is long enough, and then nothing changes.
Relocated(f, size) ==
  avfs_find_free_blocks(Marked(block_bitmap, RunOf(f), FALSE), BlocksFor(size))

\* The file moved to that run, its old bytes copied.
RelocatedBitmap(f, size) ==
  Marked(Marked(block_bitmap, RunOf(f), FALSE),
         RunAt(Relocated(f, size), BlocksFor(size)), TRUE)

\* Mutant: the run changes, the bytes are not copied.
RelocatedData_uncopied(f, size) == data

RelocatedData(f, size) ==
  Moved(Relocated(f, size) * AVFS_BLOCK_SIZE, AddressOf(f), f.size)

avfs_append_file(p, buf) ==
  LET path  == normalize_path(p)
      i     == avfs_find_entry(path)
      f     == files[i]
      size  == f.size + Len(buf)
      grows == BlocksFor(size) > BlocksFor(f.size)
      start == IF grows THEN Relocated(f, size) ELSE f.start
  IN  /\ Idle
      /\ i # -1 /\ f.type = "file"
      /\ start # -1
      /\ block_bitmap' = IF grows THEN RelocatedBitmap(f, size) ELSE block_bitmap
      /\ data' = Stored(IF grows THEN RelocatedData(f, size) ELSE data,
                        start * AVFS_BLOCK_SIZE + f.size, buf)
      /\ files' = [files EXCEPT ![i].start = start, ![i].size = size]
      /\ call' = [op |-> "append", path |-> path, buf |-> buf]
      /\ UNCHANGED current_dir

Zeros(n) == [j \in 1..n |-> 0]

\* Mutant: off by one.
Extension_short(f, size) == RunAt(f.start, BlocksFor(size) - 1) \ RunOf(f)

\* The blocks a longer file needs after its own.
Extension(f, size) == RunAt(f.start, BlocksFor(size)) \ RunOf(f)

ExtendsInPlace(f, size) ==
  \A b \in Extension(f, size) : b \in Blocks /\ ~block_bitmap[b]

\* avfs_truncate to no more blocks: the trailing blocks are freed, no byte is
\* touched.
truncate_within(p, size) ==
  LET path == normalize_path(p)
      i    == avfs_find_entry(path)
      f    == files[i]
  IN  /\ Idle
      /\ i # -1 /\ f.type = "file"
      /\ size # f.size
      /\ BlocksFor(size) <= BlocksFor(f.size)
      /\ block_bitmap' = Marked(block_bitmap, RunOf(f) \ RunAt(f.start, BlocksFor(size)), FALSE)
      /\ files' = [files EXCEPT ![i].size = size]
      /\ call' = [op |-> "truncate", path |-> path, size |-> size]
      /\ UNCHANGED <<data, current_dir>>

\* avfs_truncate to more blocks: in place when the next blocks are free, and
\* relocated otherwise; then the new bytes are zeroed.
truncate_grows(p, size) ==
  LET path  == normalize_path(p)
      i     == avfs_find_entry(path)
      f     == files[i]
      stays == ExtendsInPlace(f, size)
      start == IF stays THEN f.start ELSE Relocated(f, size)
  IN  /\ Idle
      /\ i # -1 /\ f.type = "file"
      /\ BlocksFor(size) > BlocksFor(f.size)
      /\ start # -1
      /\ block_bitmap' = IF stays THEN Marked(block_bitmap, Extension(f, size), TRUE)
                         ELSE RelocatedBitmap(f, size)
      /\ data' = Stored(IF stays THEN data ELSE RelocatedData(f, size),
                        start * AVFS_BLOCK_SIZE + f.size, Zeros(size - f.size))
      /\ files' = [files EXCEPT ![i].start = start, ![i].size = size]
      /\ call' = [op |-> "truncate", path |-> path, size |-> size]
      /\ UNCHANGED current_dir

-----------------------------------------------------------------------------
(* Removal and directories *)

\* Mutant: subdirectories are not counted.
Empty_of_files(i) ==
  \A j \in Indices : files[j].used /\ files[j].type = "file" => files[j].parent # i

Empty(i) == \A j \in Indices : files[j].used => files[j].parent # i

Removable(i) == i # -1 /\ (files[i].type = "dir" => Empty(i))

\* The entry is zeroed, and a file gives its run back.
Removed(i, path) ==
  /\ files' = [files EXCEPT ![i] = Zeroed]
  /\ block_bitmap' = IF files[i].type = "dir" THEN block_bitmap
                     ELSE Marked(block_bitmap, RunOf(files[i]), FALSE)
  /\ call' = IF files[i].type = "dir" THEN [op |-> "dir"]
             ELSE [op |-> "remove", path |-> path]
  /\ UNCHANGED <<data, current_dir>>

\* rm of a file and rm -d of an empty directory: rm asks about "/" only when
\* it recurses.
avfs_remove_file(p) ==
  LET path == normalize_path(p)
      i    == avfs_find_entry(path)
  IN  Idle /\ Removable(i) /\ Removed(i, path)

avfs_create_dir(p) ==
  LET path == normalize_path(p)
  IN  /\ Idle
      /\ ~Exists(path)
      /\ IsDir(ParentOf(path))
      /\ FreeEntries # {}
      /\ Enter([Zeroed EXCEPT !.used = TRUE, !.type = "dir", !.name = Last(path),
                              !.parent = ParentOf(path)])
      /\ call' = [op |-> "dir"]
      /\ UNCHANGED <<data, current_dir>>

avfs_chdir(p) ==
  LET path == normalize_path(p)
  IN  /\ Idle
      /\ IsDir(avfs_find_entry(path))
      /\ current_dir' = path
      /\ call' = [op |-> "dir"]
      /\ UNCHANGED <<files, block_bitmap, data>>

-----------------------------------------------------------------------------
(* rm -r: remove_directory_recursive, one directory entry per step *)

Dots(i) ==
  IF i = 0 THEN <<".">> ELSE <<".", "..">>

Children(i) == {j \in Indices : files[j].used /\ files[j].parent = i}

\* avfs_list_directory: the dots, then the children in the order of the table.
avfs_list_directory(i) ==
  LET dots  == [k \in 1..Len(Dots(i)) |-> [name |-> Dots(i)[k], dir |-> TRUE]]
      names == SetToSortSeq(Children(i), LAMBDA a, b : a < b)
      all   == dots \o [k \in 1..Len(names) |->
                          [name |-> files[names[k]].name,
                           dir  |-> files[names[k]].type = "dir"]]
  IN  SubSeq(all, 1, IF Len(all) < LISTING_MAX THEN Len(all) ELSE LISTING_MAX)

\* The listing goes over the first places of the one static array: what an
\* earlier, longer listing left behind it stays.
Overlaid(listing) == listing \o SubSeq(entries, Len(listing) + 1, Len(entries))

\* A call of remove_directory_recursive: it lists its directory first.
Called(path, force, below) ==
  LET listing == avfs_list_directory(avfs_find_entry(path))
  IN  /\ rm' = <<[path |-> path, next |-> 1, count |-> Len(listing), force |-> force]>> \o below
      /\ entries' = Overlaid(listing)
      /\ UNCHANGED <<files, block_bitmap, data, current_dir, call>>

\* rm -r names a directory.  With --preserve-root, the default, the argument
\* may not be the string "/"; what it resolves to is not asked.
rm_starts(p, force) ==
  /\ rm = <<>>
  /\ ~(p.abs /\ p.parts = <<>>)
  /\ IsDir(avfs_find_entry(normalize_path(p)))
  /\ Called(normalize_path(p), force, <<>>)

Frame == Head(rm)
Entry == entries[Frame.next]
AtEntry == rm # <<>> /\ Frame.next <= Frame.count
\* Mutant: the name is looked up one level too high.
RmPath_above(frame, name) == Append(Front(frame.path), name)

RmPath(frame, name) == Append(frame.path, name)

Advanced == <<[Frame EXCEPT !.next = @ + 1]>> \o Tail(rm)

rm_skips ==
  /\ AtEntry
  /\ Entry.name \in {".", ".."}
  /\ rm' = Advanced
  /\ UNCHANGED <<files, block_bitmap, data, current_dir, call, entries>>

rm_descends ==
  /\ AtEntry
  /\ Entry.name \notin {".", ".."} /\ Entry.dir
  /\ IsDir(avfs_find_entry(RmPath(Frame, Entry.name)))
  /\ Called(RmPath(Frame, Entry.name), Frame.force, Advanced)

\* A file is removed; with -f a file that cannot be is passed over.
rm_removes ==
  LET path == RmPath(Frame, Entry.name)
      i    == avfs_find_entry(path)
  IN  /\ AtEntry
      /\ Entry.name \notin {".", ".."} /\ ~Entry.dir
      /\ \/ Removable(i) /\ Removed(i, path)
         \/ /\ ~Removable(i) /\ Frame.force
            /\ UNCHANGED <<files, block_bitmap, data, current_dir, call>>
      /\ rm' = Advanced
      /\ UNCHANGED entries

\* The end of a frame's listing: the directory itself goes.  (The static
\* array is read only where a frame of the same command wrote it, so what the
\* last frame leaves in it is forgotten.)
rm_finishes ==
  LET i == avfs_find_entry(Frame.path)
  IN  /\ rm # <<>> /\ Frame.next > Frame.count
      /\ Removable(i)
      /\ Removed(i, Frame.path)
      /\ rm' = Tail(rm)
      /\ entries' = IF Tail(rm) = <<>> THEN <<>> ELSE entries

\* A failure anywhere is returned through every frame: a subdirectory that
\* cannot be listed, a file that cannot be removed, a directory not empty.
rm_gives_up ==
  /\ \/ /\ AtEntry /\ Entry.name \notin {".", ".."}
        /\ IF Entry.dir THEN ~IsDir(avfs_find_entry(RmPath(Frame, Entry.name)))
           ELSE ~Frame.force /\ ~Removable(avfs_find_entry(RmPath(Frame, Entry.name)))
     \/ rm # <<>> /\ Frame.next > Frame.count /\ ~Removable(avfs_find_entry(Frame.path))
  /\ rm' = <<>> /\ entries' = <<>>
  /\ UNCHANGED <<files, block_bitmap, data, current_dir, call>>

-----------------------------------------------------------------------------
FileCall ==
  \E p \in FilePaths :
    \/ \E size \in Sizes : avfs_create_file(p, size)
    \/ \E size \in Sizes : truncate_within(p, size)
    \/ \E size \in Sizes : truncate_grows(p, size)
    \/ \E buf \in Buffers : save_new(p, buf)
    \/ \E buf \in Buffers : save_over(p, buf)
    \/ \E buf \in Buffers, offset \in Sizes : avfs_write_file(p, buf, offset)
    \/ \E buf \in Buffers : avfs_append_file(p, buf)
    \/ avfs_remove_file(p)

DirCall ==
  \/ \E p \in DirPaths : avfs_create_dir(p) \/ avfs_remove_file(p)
  \/ \E p \in ChdirPaths : avfs_chdir(p)

Rm ==
  \/ \E p \in RmPaths, force \in BOOLEAN : rm_starts(p, force)
  \/ rm_skips \/ rm_descends \/ rm_removes \/ rm_finishes \/ rm_gives_up

AvfsNext == FileCall \/ DirCall \/ Rm

AvfsSpec == AvfsInit /\ [][AvfsNext]_vars

-----------------------------------------------------------------------------
(* Properties *)

UsedFiles == {i \in Indices : files[i].used /\ files[i].type = "file"}

\* The table, the bitmap and the storage have their types; every file's run
\* lies within the storage.
AvfsTypeOK ==
  /\ \A i \in Indices :
       /\ files[i].used \in BOOLEAN /\ files[i].type \in {"file", "dir"}
       /\ files[i].parent \in Indices \cup {-1}
       /\ files[i].size \in Nat
  /\ block_bitmap \in [Blocks -> BOOLEAN]
  /\ data \in [Cells -> {0} \cup UNION {Range(buf) : buf \in Buffers}]
  /\ \A i \in UsedFiles : RunOf(files[i]) \subseteq Blocks

\* The bitmap marks exactly the runs of the files, and no two files share a
\* block: a run forgotten on some path is storage lost until the next boot, a
\* run freed twice is two files in one place.
BitmapExact ==
  /\ {b \in Blocks : block_bitmap[b]} = UNION {RunOf(files[i]) : i \in UsedFiles}
  /\ \A i, j \in UsedFiles : i # j => RunOf(files[i]) \cap RunOf(files[j]) = {}

\* Every call changes the bytes of the file it names as the call says, moves
\* and overlapping copies included, and those of no other file.
Keys == {p.parts : p \in {q \in FilePaths : q.abs}}
FileAt(path) ==
  LET i == avfs_find_entry(path)
  IN  IF i # -1 /\ files[i].type = "file" THEN Bytes(files[i]) ELSE NoFile
Store == INSTANCE FileStore WITH
           store <- [k \in Keys |-> FileAt(k)]
FileStoreSpec == Store!StoreSpec

\* No two entries with one parent index have one name: what a path finds does
\* not depend on the order of the table, also after entry 0 or a parent has
\* gone and its index is taken again (avfs_create_file, avfs_create_dir).
NamesUnique ==
  \A i, j \in Indices :
    i # j /\ files[i].used /\ files[j].used
      => <<files[i].parent, files[i].name>> # <<files[j].parent, files[j].name>>

\* The tree the parent indices draw: every entry but the root hangs below a
\* directory in use (so no entry is out of every path's reach, and no new
\* entry inherits the children of the one whose slot it takes), and no two
\* entries of a directory have one name.
TreeSound ==
  /\ \A i \in Indices \ {0} : files[i].used =>
       /\ files[i].parent \in Indices
       /\ files[files[i].parent].used /\ files[files[i].parent].type = "dir"
  /\ NamesUnique

\* rm -r removes nothing outside the directory it was given, although the
\* listing it walks may have been overwritten by a deeper one.
RmTarget == Last(rm).path
RmStaysInside ==
  [][rm # <<>> => \A k \in Keys : ~IsPrefix(RmTarget, k) => FileAt(k)' = FileAt(k)]_vars

\* "Remove directories and their contents recursively" (rm.c, usage): when
\* rm -r ends, the directory it was given is gone.
RmRemovesTree ==
  [][\A p \in RmPaths : rm # <<>> /\ rm' = <<>> /\ RmTarget = p.parts => ~Exists(p.parts)']_vars

\* rm.c, usage: "--preserve-root   Do not remove '/' (default)".
RootStays == files[0].used /\ files[0].type = "dir"

\* avfs_truncate: "Zero-fill the newly grown region".  The bytes a longer
\* file ends in are zero.
GrownRegionIsZero ==
  [][\A k \in Keys : call' # call /\ call'.op = "truncate" /\ call'.path = k =>
       \A i \in 1..Len(FileAt(k)') : i > Len(FileAt(k)) => FileAt(k)'[i] = 0]_vars

\* What ls collects for a directory: it asks for entry 0, 1, 2... and stops at
\* the first index that is not in use.
ls_collect(dir) ==
  {i \in Children(avfs_find_entry(dir)) : \A j \in 0..i : files[j].used}

\* ls shows every entry of the directory it lists.
LsShowsEveryEntry ==
  \A dir \in {<<>>} \cup {p.parts : p \in DirPaths} :
    IsDir(avfs_find_entry(dir)) => ls_collect(dir) = Children(avfs_find_entry(dir))
=============================================================================
