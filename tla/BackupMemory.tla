---------------------------- MODULE BackupMemory ----------------------------
(***************************************************************************)
(* A backup memory (sys/backup_ram.cpp): a card of blocks in which a file  *)
(* is a chain that begins at a flagged block, and the list of files and    *)
(* the bitmap of used blocks that are built from it.                       *)
(*                                                                         *)
(* A block is a flag and some words; a word is a header (name and size of  *)
(* a file), the number of a block, or a word of data.  The program's own   *)
(* saves, by the BIOS, write the card in the same format; a call here is   *)
(* not interrupted by them.  What a block holds when it is no longer part  *)
(* of a file is never read again; only its flag is kept.                   *)
(***************************************************************************)
EXTENDS Integers, Sequences, FiniteSets

CONSTANTS
    Names,          \* names of files
    Contents,       \* what files may hold: sequences of words
    TotalBlocks,    \* of which 0 and 1 hold no files
    BlockWords,     \* words of a block after its flag; the header is one word
    Cards           \* files of the other memories that are copied from

Zero == <<>>

IsList(list) == Len(list) \in Nat /\ list = [i \in 1 .. Len(list) |-> list[i]]

ASSUME BackupAssumption ==
    /\ TotalBlocks \in Nat /\ TotalBlocks > 2
    /\ BlockWords \in Nat /\ BlockWords > 1
    /\ \A content \in Contents : IsList(content)
    /\ \A files \in Cards :
        /\ IsList(files)
        /\ \A i \in DOMAIN files : files[i].name \in Names /\ files[i].content \in Contents
        /\ \A i, j \in DOMAIN files : files[i].name = files[j].name => i = j

VARIABLES
    memory,         \* card: the blocks, each a flag and its words;
                    \* files, bitmap: m_fileParams, m_blockBitmap (the used blocks);
                    \* dirty: the card has been written since these were built
    result,         \* of the last import
    held            \* history: the files that it is to give back

backupVars == <<memory, result, held>>

FileBlocks == 2 .. TotalBlocks - 1
Reserved == {0, 1}

Header(name, size) == <<"header", name, size>>
Entry(block) == <<block>>

NoWords == [i \in 0 .. BlockWords - 1 |-> Zero]

\* The number of blocks for a content, each with its entry in the list.
BlocksNeeded(content) ==
    CHOOSE n \in 1 .. Len(content) + 2 :
        /\ 1 + n + Len(content) <= n * BlockWords
        /\ \A m \in 1 .. n - 1 : 1 + m + Len(content) > m * BlockWords

\* The blocks that files take, each numbered within its file.
Demand(files) ==
    UNION {{files[i].name} \X (1 .. BlocksNeeded(files[i].content)) : i \in DOMAIN files}

\* Another memory is copied from only if it is not larger.  Then it has no more
\* blocks than this one, nor larger ones (kSizes, kBlockSizes).
ASSUME CardsAssumption ==
    \A files \in Cards : Cardinality(Demand(files)) <= TotalBlocks - 2

-----------------------------------------------------------------------------
(* Reading the card. *)

\* The word at a place, from 0, of the file in the blocks given.
WordAt(card, blocks, place) ==
    card[blocks[(place \div BlockWords) + 1]].words[place % BlockWords]

\* The list is read along the blocks that it names; it ends with a zero.
ReadBlockList(card, block) ==
    LET list[place \in 0 .. TotalBlocks] ==
            IF place = 0 THEN <<block>>
            ELSE LET known == list[place - 1] IN
                 IF Len(known) < place THEN known
                 ELSE LET entry == WordAt(card, known, place) IN
                      IF entry = Zero THEN known ELSE Append(known, entry[1])
    IN  list[TotalBlocks]

FileAt(card, block) ==
    [name |-> card[block].words[0][2], size |-> card[block].words[0][3],
     blocks |-> ReadBlockList(card, block)]

FilesOn(card) == {FileAt(card, block) : block \in {b \in FileBlocks : card[b].flag}}

InList(blocks) == {blocks[i] : i \in DOMAIN blocks}

BlocksOf(files) == Reserved \cup UNION {InList(file.blocks) : file \in files}

\* Faulty: blocks given up behind the list stay used.
RebuildFileListGrown(m) ==
    LET files == FilesOn(m.card) IN
    IF m.dirty
    THEN [card |-> m.card, files |-> files, bitmap |-> m.bitmap \cup BlocksOf(files), dirty |-> FALSE]
    ELSE m

RebuildFileList(m) ==
    LET files == FilesOn(m.card) IN
    IF m.dirty
    THEN [card |-> m.card, files |-> files, bitmap |-> BlocksOf(files), dirty |-> FALSE]
    ELSE m

BuildFile(card, file) ==
    [i \in 1 .. file.size |-> WordAt(card, file.blocks, Len(file.blocks) + i)]

\* The files found under a name: none, or the first in the order of the blocks.
FindFile(files, name) ==
    {file \in files :
        /\ file.name = name
        /\ \A other \in files : other.name = name => file.blocks[1] <= other.blocks[1]}

-----------------------------------------------------------------------------
(* Writing it. *)

\* The n-th lowest of the blocks.
Lowest(blocks, n) ==
    CHOOSE block \in blocks : Cardinality({b \in blocks : b < block}) = n - 1

\* Blocks of its own first, then the lowest of those that are free.
Taking(own, free, count) ==
    LET found == Len(own) + Cardinality(free) IN
    [i \in 1 .. IF count <= found THEN count ELSE found |->
        IF i <= Len(own) THEN own[i] ELSE Lowest(free, i - Len(own))]

\* Faulty: the bitmap is not looked at.
AllocateBlocksUsed(own, used, count) == Taking(own, FileBlocks \ InList(own), count)

\* Faulty: the blocks of the file to be replaced are not taken.
AllocateBlocksFresh(own, used, count) == Taking(<<>>, FileBlocks \ used, count)

AllocateBlocks(own, used, count) == Taking(own, FileBlocks \ used, count)

\* The header, the list without its first entry, a zero and the data; the rest
\* of the last block is cleared.
FileWord(name, content, blocks, place) ==
    IF place = 0 THEN Header(name, Len(content))
    ELSE IF place < Len(blocks) THEN Entry(blocks[place + 1])
    ELSE IF place - Len(blocks) \in 1 .. Len(content) THEN content[place - Len(blocks)]
    ELSE Zero

\* Flags of blocks after the first stay what they are.
WriteFile(card, name, content, blocks) ==
    [block \in FileBlocks |->
        IF block \in InList(blocks)
        THEN LET n == CHOOSE i \in DOMAIN blocks : blocks[i] = block IN
             [flag |-> n = 1 \/ card[block].flag,
              words |-> [i \in 0 .. BlockWords - 1 |->
                            FileWord(name, content, blocks, (n - 1) * BlockWords + i)]]
        ELSE card[block]]

\* Drops the words of the blocks that are in no file.
Tidy(card) ==
    LET used == BlocksOf(FilesOn(card)) IN
    [block \in FileBlocks |->
        IF block \in used THEN card[block] ELSE [card[block] EXCEPT !.words = NoWords]]

\* The result of an import into a memory, and the memory after it.
ImportInto(before, name, content, overwrite) ==
    LET m == RebuildFileList(before)
        old == FindFile(m.files, name)
        own == IF old = {} THEN <<>> ELSE (CHOOSE file \in old : TRUE).blocks
        blocks == AllocateBlocks(own, m.bitmap, BlocksNeeded(content))
        file == [name |-> name, size |-> Len(content), blocks |-> blocks]
        written == [card |-> Tidy(WriteFile(m.card, name, content, blocks)),
                    files |-> (m.files \ old) \cup {file},
                    bitmap |-> (m.bitmap \ InList(own)) \cup InList(blocks),
                    dirty |-> TRUE]
    IN  IF old # {} /\ ~overwrite THEN [memory |-> m, result |-> "FileExists"]
        ELSE IF Len(blocks) < BlocksNeeded(content) THEN [memory |-> m, result |-> "NoSpace"]
        ELSE [memory |-> written, result |-> IF old = {} THEN "Imported" ELSE "Overwritten"]

Without(files, name) == [other \in DOMAIN files \ {name} |-> files[other]]

With(files, name, content) ==
    [other \in DOMAIN files \cup {name} |-> IF other = name THEN content ELSE files[other]]

\* The files to give back after an import with this result.
Kept(files, name, content, outcome) ==
    IF outcome \in {"Imported", "Overwritten"} THEN With(files, name, content) ELSE files

Import(name, content, overwrite) ==
    LET import == ImportInto(memory, name, content, overwrite) IN
    /\ memory' = import.memory
    /\ result' = import.result
    /\ held' = Kept(held, name, content, import.result)

\* Only the flag of the first block is cleared.
Unflag(card, file) == Tidy([card EXCEPT ![file.blocks[1]].flag = FALSE])

Delete(name) ==
    LET m == RebuildFileList(memory)
        old == FindFile(m.files, name)
    IN
    /\ \/ old = {} /\ memory' = m
       \/ \E file \in old :
            memory' = [card |-> Unflag(m.card, file), files |-> m.files \ old,
                       bitmap |-> m.bitmap \ InList(file.blocks), dirty |-> TRUE]
    /\ result' = "none"
    /\ held' = Without(held, name)

Formatted ==
    [card |-> [block \in FileBlocks |-> [flag |-> FALSE, words |-> NoWords]],
     files |-> {}, bitmap |-> Reserved, dirty |-> FALSE]

Format ==
    /\ memory' = Formatted
    /\ result' = "none"
    /\ held' = <<>>

\* The other memory's files are imported one by one, whatever comes of each.
\* (A larger memory is refused, which changes nothing.)
CopyFrom(files) ==
    LET copied[n \in 0 .. Len(files)] ==
            IF n = 0 THEN [memory |-> Formatted, held |-> <<>>]
            ELSE LET before == copied[n - 1]
                     file == files[n]
                     import == ImportInto(before.memory, file.name, file.content, TRUE)
                 IN  [memory |-> import.memory,
                      held |-> Kept(before.held, file.name, file.content, import.result)]
    IN
    /\ memory' = copied[Len(files)].memory
    /\ result' = "Copied"
    /\ held' = copied[Len(files)].held

\* List, GetInfo, Export and GetUsedBlocks.
Look ==
    /\ memory' = RebuildFileList(memory)
    /\ result' = "none"
    /\ UNCHANGED held

-----------------------------------------------------------------------------
(* The program, by the BIOS: it writes the card behind the list. *)

WriteCard(card) == memory' = [memory EXCEPT !.card = card, !.dirty = TRUE]

GameDeletes(name) ==
    /\ \E file \in FindFile(FilesOn(memory.card), name) : WriteCard(Unflag(memory.card, file))
    /\ result' = "none"
    /\ held' = Without(held, name)

GameSaves(name, content) ==
    LET free == FileBlocks \ BlocksOf(FilesOn(memory.card)) IN
    /\ name \notin DOMAIN held
    /\ \E blocks \in [1 .. BlocksNeeded(content) -> free] :
        /\ \A i, j \in DOMAIN blocks : blocks[i] = blocks[j] => i = j
        /\ WriteCard(WriteFile(memory.card, name, content, blocks))
    /\ result' = "none"
    /\ held' = With(held, name, content)

BackupInit ==
    /\ memory = Formatted
    /\ result = "none"
    /\ held = <<>>

BackupNext ==
    \/ \E name \in Names, content \in Contents, overwrite \in BOOLEAN :
           Import(name, content, overwrite)
    \/ \E name \in Names : Delete(name)
    \/ Format
    \/ \E files \in Cards : CopyFrom(files)
    \/ Look
    \/ \E name \in Names, content \in Contents : GameSaves(name, content)
    \/ \E name \in Names : GameDeletes(name)

BackupSpec == BackupInit /\ [][BackupNext]_backupVars

-----------------------------------------------------------------------------
Cost == [content \in Contents |-> BlocksNeeded(content)]

Store == INSTANCE BackupStore WITH Capacity <- TotalBlocks - 2, stored <- held

\* An import is refused only for want of room or for an existing file, and one
\* that is refused leaves all files what they were (backup_ram_defs.hpp 113-121);
\* a copy of another memory has all of its files (64-69).
ImportsThatFit == Store!StoreSpec

\* However files are imported, overwritten, deleted and saved by the program, in
\* whatever blocks, the memory gives back each as it was stored, and no other
\* (backup_ram.cpp 332, 635, 668).
GivesBackFiles ==
    LET files == FilesOn(memory.card) IN
    /\ {file.name : file \in files} = DOMAIN held
    /\ \A file \in files : BuildFile(memory.card, file) = held[file.name]

\* No block belongs to two files, and the list and the bitmap kept between calls
\* are those of the card unless they are to be built anew.
BlocksAccounted ==
    LET files == FilesOn(memory.card) IN
    /\ \A one, other \in files :
           one # other => InList(one.blocks) \cap InList(other.blocks) = {}
    /\ ~memory.dirty => memory.bitmap = BlocksOf(files) /\ memory.files = files
=============================================================================
