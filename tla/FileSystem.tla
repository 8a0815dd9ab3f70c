----------------------------- MODULE FileSystem -----------------------------
(***************************************************************************)
(* The flat file system of TeamLastPicked_p6 (myfilesys.c) on its virtual  *)
(* disk (disk.c).  Every file is one contiguous range of bytes; the ranges *)
(* follow each other in the order of the file table, from DATA_START on.   *)
(* The table is kept in memory and written to block 0 by unmount_fs only.  *)
(*                                                                         *)
(* One action is one call.  A call that writes several blocks is a         *)
(* sequence of disk images: the call ends with the last of them, and a     *)
(* process that is killed leaves any of them behind.  Calls that return an *)
(* error change nothing and are steps that stutter.                        *)
(*                                                                         *)
(* The client is one thread that calls fs_ functions while the file system *)
(* is mounted only, through descriptors it has opened and with offsets     *)
(* that are not negative; names are not empty and have at most 15          *)
(* characters (longer ones are refused).                                   *)
(***************************************************************************)
EXTENDS Integers, FiniteSets, SequencesExt, TLC

CONSTANTS NFILES,       \* 64 entries of the file table
          NFDS,         \* 32 descriptors
          SCAN,         \* 32: entries fs_create compares with a new name
          BS,           \* BLOCK_SIZE
          DISK_BLOCKS,
          Names, NoName, \* file names; the empty string of a free entry
          Bytes, Zero,
          MaxSize,      \* bound: the size of a file
          MaxWrite,     \* bound: the bytes of one call of fs_write
          MaxMounts,    \* bound: successful calls of mount_fs
          MaxChanges,   \* bound: calls of fs_create, fs_delete, fs_write and fs_truncate
          Struck        \* the descriptor whose file_num may lie where
                        \* files[NFILES].size would be

ASSUME FileSystemAssumption ==
  /\ NFILES \in Nat \ {0} /\ NFDS \in Nat \ {0} /\ SCAN \in 0..NFILES
  /\ BS \in Nat \ {0} /\ DISK_BLOCKS \in Nat \ {0, 1}
  /\ NoName \notin Names /\ Zero \in Bytes
  /\ MaxSize \in Nat /\ MaxWrite \in Nat /\ MaxMounts \in Nat /\ MaxChanges \in Nat
  /\ Struck \in 0..(NFDS - 1)

VARIABLES active,       \* disk.c: the virtual disk is open
          mounted,      \* mount_fs has returned 0, and no unmount since
          files,        \* the file table in memory
          open_files,   \* the descriptors
          table,        \* block 0 of the disk
          blocks,       \* the data blocks of the disk
          made,         \* how many of its blocks make_disk has written
          unread,       \* mount_fs has returned 0 with a table it has not read
          mounts, changes \* bounds: calls so far

vars == <<active, mounted, files, open_files, table, blocks, made, unread, mounts, changes>>

DATA_START == DISK_BLOCKS \div 2
Entries == 0..(NFILES - 1)
Descriptors == 0..(NFDS - 1)
Buffer == [0..(BS - 1) -> Bytes]

ZeroEntry == [name |-> NoName, block |-> 0, offset |-> 0, size |-> 0]
FreeEntry == [ZeroEntry EXCEPT !.size = -1]
ZeroTable == [i \in Entries |-> ZeroEntry]
FreeTable == [i \in Entries |-> FreeEntry]
ZeroBlocks == [b \in DATA_START..(DISK_BLOCKS - 1) |-> [k \in 0..(BS - 1) |-> Zero]]

\* The offset of a closed descriptor is never read: it is kept at 0.
Closed == [file_num |-> -1, offset |-> 0]
AllClosed == [d \in Descriptors |-> Closed]
IsOpen(d) == open_files[d].file_num # -1
FileOf(d) == files[open_files[d].file_num]

-----------------------------------------------------------------------------
(* The disk: block_read leaves the buffer as it is and block_write does    *)
(* nothing when the block is out of bounds; no caller looks at the result. *)

BlockWrite(disk, b, buf) == IF b \in DOMAIN disk THEN [disk EXCEPT ![b] = buf] ELSE disk
BlockRead(disk, b, buf) == IF b \in DOMAIN disk THEN disk[b] ELSE buf

\* A call in progress: the images the disk has gone through.
Written(images, b, buf) == Append(images, BlockWrite(Last(images), b, buf))

\* Two forms of the loop that carries whole blocks over: while (pos > BS),
\* which leaves pos = BS alone, and while (pos >= BS).
Carry(b, pos) == LET n == IF pos > BS THEN (pos - 1) \div BS ELSE 0
                 IN  [block |-> b + n, offset |-> pos - n * BS]
CarryFull(b, pos) == LET n == IF pos >= BS THEN pos \div BS ELSE 0
                     IN  [block |-> b + n, offset |-> pos - n * BS]

-----------------------------------------------------------------------------
(* shiftBlocks moves what lies numShift bytes behind a place down to it,   *)
(* through two buffers, and fills the rest of the disk with zeros.         *)

\* memcpy(buffer1 + offset1, buffer2 + offset2, n); buffer2[-1] is stray.
MemCopy(s, n, stray) ==
  [k \in 0..(BS - 1) |->
     IF k \in s.offset1..(s.offset1 + n - 1)
     THEN IF s.offset2 + k - s.offset1 = -1 THEN stray ELSE s.buffer2[s.offset2 + k - s.offset1]
     ELSE s.buffer1[k]]

AdvanceFirst(s) ==
  IF s.offset1 # BS THEN s
  ELSE LET done == Written(s.images, s.block1, s.buffer1)
       IN  [s EXCEPT !.images = done, !.block1 = @ + 1, !.offset1 = 0,
                     !.buffer1 = BlockRead(Last(done), s.block1 + 1, @)]

\* Mutant: goes on with the block it has.
AdvanceSecondNoRead(s) ==
  IF s.offset2 # BS THEN s
  ELSE [s EXCEPT !.images = Written(@, s.block2, s.buffer2), !.block2 = @ + 1, !.offset2 = 0]

AdvanceSecond(s) ==
  IF s.offset2 # BS THEN s
  ELSE LET done == Written(s.images, s.block2, s.buffer2)
       IN  [s EXCEPT !.images = done, !.block2 = @ + 1, !.offset2 = 0,
                     !.buffer2 = BlockRead(Last(done), s.block2 + 1, @)]

ShiftChunk(s, stray) ==
  LET n == BS - (IF s.offset1 > s.offset2 THEN s.offset1 ELSE s.offset2)
  IN  AdvanceSecond(AdvanceFirst([s EXCEPT !.buffer1 = MemCopy(s, n, stray),
                                           !.offset1 = @ + n, !.offset2 = @ + n]))

\* Every round of the loop finishes a block on at least one side.
ShiftLoop(s, stray) ==
  FoldLeft(LAMBDA t, round : IF t.block2 < DISK_BLOCKS THEN ShiftChunk(t, stray) ELSE t,
           s, [round \in 1..(2 * DISK_BLOCKS) |-> round])

ZeroRest(s) ==
  LET rest == [k \in 0..(BS - 1) |-> IF k < s.offset1 THEN s.buffer1[k] ELSE Zero]
  IN  FoldLeft(LAMBDA images, b : Written(images, b, [k \in 0..(BS - 1) |-> Zero]),
               Written(s.images, s.block1, rest),
               [k \in 1..(DISK_BLOCKS - s.block1 - 1) |-> s.block1 + k])

ShiftBlocks(startBlock, startOffset, numShift, stray) ==
  IF numShift = 0 THEN <<blocks>>
  ELSE LET from == CarryFull(startBlock, startOffset + numShift)
           blank == [k \in 0..(BS - 1) |-> Zero]
       IN  ZeroRest(ShiftLoop(
             [images |-> <<blocks>>,
              block1 |-> startBlock, offset1 |-> startOffset,
              buffer1 |-> BlockRead(blocks, startBlock, blank),
              block2 |-> from.block, offset2 |-> from.offset,
              buffer2 |-> BlockRead(blocks, from.block, blank)], stray))

-----------------------------------------------------------------------------
(* The file table.                                                         *)

\* Mutant: leaves an offset behind the end of its block.
FillWithoutCarry(t, i) ==
  LET before == IF i = 0 THEN [ZeroEntry EXCEPT !.block = DATA_START] ELSE t[i-1]
  IN  [t EXCEPT ![i].block = before.block,
                ![i].offset = before.offset + (IF before.size = -1 THEN 0 ELSE before.size)]

FillBlockAndOffset(t, i) ==
  LET place == IF i = 0 THEN [block |-> DATA_START, offset |-> 0]
               ELSE Carry(t[i-1].block, t[i-1].offset + (IF t[i-1].size = -1 THEN 0 ELSE t[i-1].size))
  IN  [t EXCEPT ![i].block = place.block, ![i].offset = place.offset]

FillFrom(t, first, last) ==
  FoldLeft(FillBlockAndOffset, t, [k \in 1..(last - first + 1) |-> first + k - 1])

\* The entry with this name, and the first free one; NFILES if there is none.
Find(t, name) ==
  CHOOSE i \in 0..NFILES : /\ i \in Entries => t[i].name = name
                           /\ \A j \in 0..(i-1) : t[j].name # name
FirstFree(t) ==
  CHOOSE i \in 0..NFILES : /\ i \in Entries => t[i].size = -1
                           /\ \A j \in 0..(i-1) : t[j].size # -1

-----------------------------------------------------------------------------
(* Making, mounting and unmounting.                                        *)

\* The disk file is there, as make_disk leaves it.
Init == /\ active = FALSE /\ mounted = FALSE
        /\ files = ZeroTable
        /\ open_files = [d \in Descriptors |-> [file_num |-> 0, offset |-> 0]]
        /\ table = ZeroTable /\ blocks = ZeroBlocks
        /\ made = DISK_BLOCKS /\ unread = FALSE
        /\ mounts = 0 /\ changes = 0

\* The process is killed, or ends without unmount_fs, with the disk in the
\* given state; another one starts with its memory zeroed.
Killed(disk) ==
  /\ active' = FALSE /\ mounted' = FALSE /\ unread' = FALSE
  /\ files' = ZeroTable
  /\ open_files' = [d \in Descriptors |-> [file_num |-> 0, offset |-> 0]]
  /\ blocks' = disk
  /\ UNCHANGED <<mounts, changes>>

Crash == Killed(blocks) /\ UNCHANGED <<table, made>>

\* make_disk empties the disk whatever is mounted.  The mount that follows
\* may fail (mounted already), the unmount may not get its memory; neither
\* result is looked at.
MakeFs(heap) ==
  /\ blocks' = ZeroBlocks /\ made' = DISK_BLOCKS
  /\ mounted' = FALSE /\ unread' = FALSE
  /\ IF heap
     THEN /\ active' = FALSE /\ table' = FreeTable
          /\ files' = ZeroTable /\ open_files' = AllClosed
     ELSE /\ active' = TRUE /\ table' = ZeroTable
          /\ files' = FreeTable
          /\ open_files' \in (IF active THEN {open_files} ELSE {open_files, AllClosed})
  /\ UNCHANGED <<mounts, changes>>

\* make_disk empties the file and then writes it block by block: killed in
\* between, it leaves the first blocks only, or none.  Where the blocks are
\* missing the model keeps zeros, which nothing reads: a table of zeros has no
\* free entry, so no file is created on such a disk.
MakeFsKilled ==
  /\ Killed(ZeroBlocks) /\ table' = ZeroTable
  /\ made' \in 0..DISK_BLOCKS

\* Without memory mount_fs leaves the disk open, and every later call fails.
\* From an empty disk block_read gets no byte and no error: mount_fs returns 0
\* and the table is what malloc returned.  What the client does with such a
\* table, but for make_fs, is not followed.
MountFs(heap) ==
  /\ ~active
  /\ mounts < MaxMounts
  /\ active' = TRUE
  /\ mounted' = (heap /\ made # 0) /\ unread' = (heap /\ made = 0)
  /\ files' = IF heap /\ made # 0 THEN table ELSE files
  /\ open_files' = IF heap THEN AllClosed ELSE open_files
  /\ mounts' = mounts + 1
  /\ UNCHANGED <<table, blocks, made, changes>>

UnmountFs ==
  /\ mounted
  /\ table' = files
  /\ open_files' = AllClosed /\ files' = ZeroTable
  /\ active' = FALSE /\ mounted' = FALSE
  /\ UNCHANGED <<blocks, made, unread, mounts, changes>>

\* unmount_fs killed after it has written block 0.
UnmountFsKilled == mounted /\ table' = files /\ Killed(blocks) /\ UNCHANGED made

-----------------------------------------------------------------------------
(* Names and descriptors.                                                  *)

FsOpen(name) ==
  /\ mounted
  /\ Find(files, name) # NFILES
  /\ \E d \in Descriptors :
       /\ ~IsOpen(d) /\ \A e \in 0..(d-1) : IsOpen(e)
       /\ open_files' = [open_files EXCEPT ![d] = [file_num |-> Find(files, name), offset |-> 0]]
  /\ UNCHANGED <<active, mounted, files, table, blocks, made, unread, mounts, changes>>

FsClose(d) ==
  /\ mounted /\ IsOpen(d)
  /\ open_files' = [open_files EXCEPT ![d] = Closed]
  /\ UNCHANGED <<active, mounted, files, table, blocks, made, unread, mounts, changes>>

FsLseek(d, offset) ==
  /\ mounted /\ IsOpen(d)
  /\ offset <= FileOf(d).size
  /\ open_files' = [open_files EXCEPT ![d].offset = offset]
  /\ UNCHANGED <<active, mounted, files, table, blocks, made, unread, mounts, changes>>

\* files[i + 1].size = -1 is behind the table when i is the last entry: it
\* hits nothing of the file system, or closes a descriptor.
FsCreate(name) ==
  LET i == FirstFree(files)
      filled == FillBlockAndOffset(files, i)
      created == [filled EXCEPT ![i].size = 0, ![i].name = name]
  IN  /\ mounted /\ changes < MaxChanges
      /\ \A j \in 0..(SCAN - 1) : files[j].name # name
      /\ i # NFILES
      /\ IF i + 1 \in Entries
         THEN files' = [created EXCEPT ![i + 1].size = -1] /\ UNCHANGED open_files
         ELSE /\ files' = created
              /\ open_files' \in {open_files, [open_files EXCEPT ![Struck] = Closed]}
      /\ changes' = changes + 1
      /\ UNCHANGED <<active, mounted, table, blocks, made, unread, mounts>>

Deletable(name) == LET i == Find(files, name)
                   IN  i # NFILES /\ \A d \in Descriptors : open_files[d].file_num # i

DeleteImages(name, stray) ==
  LET gone == files[Find(files, name)]
  IN  ShiftBlocks(gone.block, gone.offset, gone.size, stray)

\* Without memory shiftBlocks moves nothing.
DeleteDisk(name, heap) == IF heap THEN Last(DeleteImages(name, Zero)) ELSE blocks

\* Mutant: descriptors keep their numbers.
RenumberNone(i) == open_files

Renumber(i) == [d \in Descriptors |-> IF open_files[d].file_num > i
                                      THEN [open_files[d] EXCEPT !.file_num = @ - 1]
                                      ELSE open_files[d]]

ShiftEntries(t, i) ==
  [j \in Entries |-> IF j < i THEN t[j]
                     ELSE IF j < NFILES - 1 THEN t[j + 1]
                     ELSE [t[j] EXCEPT !.name = NoName, !.size = -1]]

DeleteTable(name) ==
  LET i == Find(files, name) IN FillFrom(ShiftEntries(files, i), i, NFILES - 1)

\* fs_delete does not learn whether shiftBlocks has moved anything.
FsDelete(name, heap) ==
  /\ mounted /\ changes < MaxChanges
  /\ Deletable(name)
  /\ blocks' = DeleteDisk(name, heap)
  /\ open_files' = Renumber(Find(files, name))
  /\ files' = DeleteTable(name)
  /\ changes' = changes + 1
  /\ UNCHANGED <<active, mounted, table, made, unread, mounts>>

FsDeleteKilled(name) ==
  /\ mounted /\ Deletable(name)
  /\ \E disk \in ToSet(DeleteImages(name, Zero)) : Killed(disk)
  /\ UNCHANGED <<table, made>>

-----------------------------------------------------------------------------
(* Data.                                                                   *)

\* fs_read: nbyte is cut to what is left of the file unless the offset is
\* behind its end, when the unsigned difference is huge.
ReadCount(d, nbyte) ==
  LET left == FileOf(d).size - open_files[d].offset
  IN  IF left >= 0 /\ nbyte > left THEN left ELSE nbyte

\* Mutant: the next block is not read.
ReadByteSameBlock(s, k) ==
  LET t == IF s.pos = BS THEN [s EXCEPT !.pos = 0, !.block = @ + 1] ELSE s
  IN  [t EXCEPT !.data = Append(@, t.buffer[t.pos]), !.pos = @ + 1]

ReadByte(s, k) ==
  LET t == IF s.pos = BS
           THEN [s EXCEPT !.pos = 0, !.block = @ + 1, !.buffer = BlockRead(blocks, s.block + 1, @)]
           ELSE s
  IN  [t EXCEPT !.data = Append(@, t.buffer[t.pos]), !.pos = @ + 1]

ReadData(d, nbyte, garbage) ==
  LET at == Carry(FileOf(d).block, FileOf(d).offset + open_files[d].offset)
  IN  FoldLeft(ReadByte,
               [block |-> at.block, pos |-> at.offset, data |-> << >>,
                buffer |-> BlockRead(blocks, at.block, garbage)],
               [k \in 1..ReadCount(d, nbyte) |-> k]).data

FsRead(d, nbyte) ==
  /\ mounted /\ IsOpen(d)
  /\ open_files[d].offset + ReadCount(d, nbyte) <= MaxSize
  /\ open_files' = [open_files EXCEPT ![d].offset = @ + ReadCount(d, nbyte)]
  /\ UNCHANGED <<active, mounted, files, table, blocks, made, unread, mounts, changes>>

\* Mutant: a file may grow over the next one.
WritableAlways(d, n) == mounted

\* fs_write: beyond the end of the file only if the next entry is free; what
\* is behind the last entry can be anything.
Writable(d, n) ==
  \/ FileOf(d).size = -1
  \/ open_files[d].offset + n <= FileOf(d).size
  \/ open_files[d].file_num + 1 \in Entries => files[open_files[d].file_num + 1].size = -1

WriteByte(s, byte) ==
  LET t == IF s.pos # BS THEN s
           ELSE LET done == Written(s.images, s.block, s.buffer)
                IN  [s EXCEPT !.images = done, !.pos = 0, !.block = @ + 1,
                              !.buffer = BlockRead(Last(done), s.block + 1, @)]
  IN  [t EXCEPT !.buffer[t.pos] = byte, !.pos = @ + 1]

\* The first block is not read: the buffer starts with what malloc returned.
WriteImages(d, data, garbage) ==
  LET at == CarryFull(FileOf(d).block, FileOf(d).offset + open_files[d].offset)
      end == FoldLeft(WriteByte, [images |-> <<blocks>>, block |-> at.block,
                                  pos |-> at.offset, buffer |-> garbage], data)
  IN  Written(end.images, end.block, end.buffer)

Writes(d, data) == {WriteImages(d, data, garbage) : garbage \in Buffer}

FsWrite(d, data) ==
  /\ mounted /\ IsOpen(d) /\ changes < MaxChanges
  /\ open_files[d].offset + Len(data) <= MaxSize
  /\ Writable(d, Len(data))
  /\ \E images \in Writes(d, data) : blocks' = Last(images)
  /\ LET end == open_files[d].offset + Len(data)
     IN  /\ open_files' = [open_files EXCEPT ![d].offset = end]
         /\ files' = IF FileOf(d).size < end
                     THEN [files EXCEPT ![open_files[d].file_num].size = end] ELSE files
  /\ changes' = changes + 1
  /\ UNCHANGED <<active, mounted, table, made, unread, mounts>>

FsWriteKilled(d, data) ==
  /\ mounted /\ IsOpen(d)
  /\ open_files[d].offset + Len(data) <= MaxSize
  /\ Writable(d, Len(data))
  /\ \E disk \in UNION {ToSet(images) : images \in Writes(d, data)} : Killed(disk)
  /\ UNCHANGED <<table, made>>

\* fs_truncate shifts by length - 1, whatever the size was.
TruncateImages(d, length, stray) ==
  LET start == Carry(FileOf(d).block, FileOf(d).offset + length)
  IN  ShiftBlocks(start.block, start.offset, length - 1, stray)

TruncateDisks(d, length, heap) ==
  IF heap THEN {Last(TruncateImages(d, length, stray)) : stray \in Bytes} ELSE {blocks}

\* The places are filled in from entry d on: the descriptor, not its file.
TruncateTable(d, length) ==
  FillFrom([files EXCEPT ![open_files[d].file_num].size = length], d, NFILES - 2)

FsTruncate(d, length, heap) ==
  /\ mounted /\ IsOpen(d) /\ changes < MaxChanges
  /\ length <= FileOf(d).size
  /\ blocks' \in TruncateDisks(d, length, heap)
  /\ files' = TruncateTable(d, length)
  /\ open_files' = IF open_files[d].offset > length
                   THEN [open_files EXCEPT ![d].offset = length] ELSE open_files
  /\ changes' = changes + 1
  /\ UNCHANGED <<active, mounted, table, made, unread, mounts>>

FsTruncateKilled(d, length) ==
  /\ mounted /\ IsOpen(d) /\ length <= FileOf(d).size
  /\ \E stray \in Bytes : \E disk \in ToSet(TruncateImages(d, length, stray)) : Killed(disk)
  /\ UNCHANGED <<table, made>>

\* Bound: what is written does not start with Zero, to tell it from an empty disk.
Data == {data \in UNION {[1..n -> Bytes] : n \in 0..MaxWrite} : data = << >> \/ data[1] # Zero}

Next ==
  \/ Crash \/ MakeFsKilled \/ UnmountFs \/ UnmountFsKilled
  \/ \E heap \in BOOLEAN : MakeFs(heap) \/ MountFs(heap)
  \/ \E name \in Names :
       \/ FsOpen(name) \/ FsCreate(name) \/ FsDeleteKilled(name)
       \/ \E heap \in BOOLEAN : FsDelete(name, heap)
  \/ \E d \in Descriptors :
       \/ FsClose(d)
       \/ \E n \in 0..MaxSize :
            \/ FsLseek(d, n) \/ FsRead(d, n) \/ FsTruncateKilled(d, n)
            \/ \E heap \in BOOLEAN : FsTruncate(d, n, heap)
       \/ \E data \in Data : FsWrite(d, data) \/ FsWriteKilled(d, data)

Spec == Init /\ [][Next]_vars

-----------------------------------------------------------------------------
(* Properties.                                                             *)

Place(e) == e.block * BS + e.offset
Used(t) == {i \in Entries : t[i].size >= 0}

\* Each variable has its type; an open descriptor names an entry.
TypeOK ==
  /\ active \in BOOLEAN /\ mounted \in BOOLEAN /\ (mounted => active)
  /\ made \in 0..DISK_BLOCKS /\ unread \in BOOLEAN
  /\ \A t \in {files, table} : \A i \in Entries :
       /\ t[i].name \in Names \cup {NoName}
       /\ t[i].block \in Nat /\ t[i].offset \in 0..BS
       /\ t[i].size \in -1..MaxSize
  /\ open_files \in [Descriptors -> [file_num : -1..(NFILES - 1), offset : 0..MaxSize]]
  /\ blocks \in [DATA_START..(DISK_BLOCKS - 1) -> Buffer]

\* The used entries come first and are the ones with a name, and their
\* ranges of bytes follow each other without sharing one.
NoOverlap(t) ==
  /\ \A i \in Entries : (t[i].name # NoName) <=> (t[i].size >= 0)
  /\ \A i, j \in Entries : i < j /\ t[j].size >= 0 => t[i].size >= 0
  /\ \A i, j \in Used(t) : i < j => Place(t[i]) + t[i].size <= Place(t[j])
  /\ \A i \in Used(t) : Place(t[i]) >= DATA_START * BS

\* Whatever is created, grown, truncated and deleted in whatever order, with
\* calls cut off between any two writes to the disk, no two files share a byte,
\* neither in a table that mount_fs has read nor in the one it will find; and
\* there are files only on a disk of which make_disk has written every block.
NoSharedBytes ==
  /\ table = ZeroTable \/ (NoOverlap(table) /\ made = DISK_BLOCKS)
  /\ mounted => files = ZeroTable \/ (NoOverlap(files) /\ made = DISK_BLOCKS)

\* A descriptor that stays open keeps its file while other files are created
\* and deleted, and with them the entries move (fs_delete, 253-271).
DescriptorsKeepFile ==
  [][\A d \in Descriptors :
       mounted /\ mounted' /\ IsOpen(d) /\ IsOpen(d)' =>
         /\ FileOf(d)'.name = FileOf(d).name
         /\ Used(files)' # Used(files) => /\ FileOf(d)'.size = FileOf(d).size
                                          /\ open_files'[d].offset = open_files[d].offset]_vars

\* The bytes of entry i that lie on the disk.
OnDisk(p) == p < DISK_BLOCKS * BS
ByteAt(disk, p) == disk[p \div BS][p % BS]
Content(t, disk, i) ==
  [k \in {n \in 0..(t[i].size - 1) : OnDisk(Place(t[i]) + n)} |-> ByteAt(disk, Place(t[i]) + k)]

Tight(t) ==
  \A i \in Used(t) : Place(t[i]) = IF i = 0 THEN DATA_START * BS
                                   ELSE Place(t[i - 1]) + t[i - 1].size

DeleteKeepsOthers(name, heap) ==
  LET gone == Find(files, name)
      disk == DeleteDisk(name, heap)
  IN  \A i \in Used(files) \ {gone} :
        LET moved == Content(DeleteTable(name), disk, IF i > gone THEN i - 1 ELSE i)
            kept == Content(files, blocks, i)
        IN  Restrict(moved, DOMAIN kept) = kept

TruncateKeepsFront(d, length, disk) ==
  \A i \in 0..open_files[d].file_num :
    LET rest == Content(TruncateTable(d, length), disk, i)
    IN  rest = Restrict(Content(files, blocks, i), DOMAIN rest)

\* The rest of the block in which the write starts may be lost.
WriteStaysInside(d, data, disk) ==
  LET first == Place(FileOf(d)) + open_files[d].offset
      block == (first \div BS) * BS
  IN  \A p \in (DATA_START * BS)..(DISK_BLOCKS * BS - 1) :
        IF p \in first..(first + Len(data) - 1)
        THEN ByteAt(disk, p) = data[p - first + 1]
        ELSE p \in block..(block + BS - 1) \/ ByteAt(disk, p) = ByteAt(blocks, p)

\* Whatever call comes next: as long as the files follow each other without a
\* gap, fs_delete, if shiftBlocks gets its memory, moves the bytes of the files
\* behind to exactly where its table says they are, and fs_truncate, with or
\* without that memory, leaves the files before its own and the front of its
\* own alone.  fs_write puts its bytes in their place and changes no others but
\* those of the block it starts in.
ContentsKept ==
  mounted =>
    /\ Tight(files) =>
         /\ \A name \in Names : Deletable(name) => DeleteKeepsOthers(name, TRUE)
         /\ \A d \in Descriptors : IsOpen(d) =>
              \A n \in 0..FileOf(d).size, heap \in BOOLEAN :
                \A disk \in TruncateDisks(d, n, heap) : TruncateKeepsFront(d, n, disk)
    /\ \A d \in Descriptors, data \in Data :
         IsOpen(d) /\ open_files[d].offset + Len(data) <= MaxSize /\ Writable(d, Len(data)) =>
           \A images \in Writes(d, data) : WriteStaysInside(d, data, Last(images))

\* What the comments of fs_delete promise (250, 272): it shifts the actual data,
\* and all data blocks conform to the right sizes; so the other files keep their
\* bytes.  When shiftBlocks gets no memory it only prints (527-531), and
\* fs_delete moves the table alone and returns 0.
DeletesMoveData ==
  mounted /\ Tight(files) =>
    \A name \in Names, heap \in BOOLEAN : Deletable(name) => DeleteKeepsOthers(name, heap)

\* fs_read, which goes through the disk block by block from an offset that may
\* be the end of a block, returns the bytes of its own file in order.
ReadsOwnBytes ==
  mounted => \A d \in Descriptors : IsOpen(d) =>
    LET own == Content(files, blocks, open_files[d].file_num)
        data == ReadData(d, MaxSize, [k \in 0..(BS - 1) |-> Zero])
    IN  \A k \in 1..Len(data) : open_files[d].offset + k - 1 \in DOMAIN own =>
          data[k] = own[open_files[d].offset + k - 1]

NameSymmetry == Permutations(Names)
=============================================================================
