---------------------------- MODULE BackupProofs ----------------------------
(***************************************************************************)
(* The backup memory keeps every file in a chain of blocks of its own: it  *)
(* gives back what was stored, its list and bitmap are those of the card,  *)
(* and it has room for a file exactly when the store that it implements    *)
(* has.  For all names, contents, numbers and sizes of blocks.             *)
(***************************************************************************)
EXTENDS BackupMemory, NaturalLemmas, FiniteSetTheorems, SequenceTheorems, TLAPS

-----------------------------------------------------------------------------
(***************************************************************************)
(* Places, lists and numbers of blocks.                                    *)
(***************************************************************************)
LEMMA PlaceInBlocks ==
  ASSUME NEW w \in Nat \ {0}, NEW n \in Nat, NEW place \in Nat, place < n * w
  PROVE  /\ place \div w \in 0 .. n - 1
         /\ place % w \in 0 .. w - 1
         /\ (place \div w) * w + (place % w) = place
<1>1. /\ place \div w \in Nat /\ place % w \in 0 .. w - 1
      /\ (place \div w) * w + (place % w) = place
  BY SMTT(30)
<1>2. ASSUME place \div w >= n PROVE FALSE
  <2>1. (place \div w) * w >= n * w
    BY <1>1, <1>2, SMTT(30)
  <2>2. QED
    BY <1>1, <2>1, SMTT(30)
<1>3. QED
  BY <1>1, <1>2

LEMMA PlaceBelow ==
  ASSUME NEW w \in Nat, w > 1, NEW place \in Nat \ {0}
  PROVE  /\ place \div w \in 0 .. place - 1
         /\ place % w \in 0 .. w - 1
BY SMTT(30)

LEMMA ListOf ==
  ASSUME NEW n \in Nat, NEW S, NEW list \in [1 .. n -> S]
  PROVE  Len(list) = n /\ DOMAIN list = 1 .. n /\ list \in Seq(S)
OBVIOUS

LEMMA LongerByOne ==
  ASSUME NEW n \in Nat, NEW S, NEW list \in [1 .. n -> S], NEW e \in S
  PROVE  Append(list, e) = [i \in 1 .. n + 1 |-> IF i = n + 1 THEN e ELSE list[i]]
<1>1. Len(list) = n /\ list \in Seq(S)
  BY ListOf
<1>2. /\ Append(list, e) \in Seq(S) /\ Len(Append(list, e)) = n + 1
      /\ \A i \in 1 .. n + 1 : Append(list, e)[i] = IF i = n + 1 THEN e ELSE list[i]
  BY <1>1, AppendProperties
<1>3. DOMAIN Append(list, e) = 1 .. n + 1 /\ Append(list, e) \in [1 .. n + 1 -> S]
  BY <1>2, LenProperties
<1>4. QED
  BY <1>2, <1>3

LEMMA EnoughBlocks ==
  ASSUME NEW content \in Contents
  PROVE  /\ BlocksNeeded(content) \in Nat \ {0}
         /\ 1 + BlocksNeeded(content) + Len(content) <= BlocksNeeded(content) * BlockWords
         /\ Len(content) \in Nat
<1> DEFINE L == Len(content)
           Fit(n) == 1 + n + L <= n * BlockWords
           S == {n \in 1 .. L + 2 : Fit(n)}
<1>1. L \in Nat
  BY BackupAssumption DEF IsList
<1>2. L + 1 \in S
  <2>1. (L + 1) * BlockWords >= (L + 1) * 2
    BY <1>1, BackupAssumption, SMTT(30)
  <2>2. QED
    BY <1>1, <2>1, BackupAssumption
<1>3. PICK n \in S : \A m \in S : n <= m
  <2>1. S # {} /\ S \in SUBSET Nat
    BY <1>1, <1>2
  <2> HIDE DEF S
  <2>2. QED
    BY <2>1, LowestNatural
<1>4. \A m \in 1 .. n - 1 : 1 + m + L > m * BlockWords
  <2>1. ASSUME NEW m \in 1 .. n - 1, ~(1 + m + L > m * BlockWords) PROVE FALSE
    <3>1. m * BlockWords \in Nat
      BY BackupAssumption
    <3>2. m \in S
      BY <1>1, <2>1, <3>1
    <3>3. QED
      BY <1>3, <3>2
  <2>2. QED
    BY <2>1
<1>5. \E k \in 1 .. L + 2 :
        /\ 1 + k + L <= k * BlockWords
        /\ \A m \in 1 .. k - 1 : 1 + m + L > m * BlockWords
  BY <1>3, <1>4
<1>6. /\ BlocksNeeded(content) \in 1 .. L + 2
      /\ 1 + BlocksNeeded(content) + L <= BlocksNeeded(content) * BlockWords
  BY <1>5 DEF BlocksNeeded
<1>7. QED
  BY <1>1, <1>6

-----------------------------------------------------------------------------
(***************************************************************************)
(* Reading a file back: what its chain of blocks holds is what the list of *)
(* its blocks and its data are read from.                                  *)
(***************************************************************************)

\* As many blocks, each once.
Distinct(n, blocks) ==
    /\ blocks \in [1 .. n -> FileBlocks]
    /\ \A i, j \in 1 .. n : blocks[i] = blocks[j] => i = j

\* Blocks for a content.
IsChain(content, blocks) == Distinct(BlocksNeeded(content), blocks)

\* The card has the words of the file in these blocks.
Holds(card, name, content, blocks) ==
    \A i \in 1 .. BlocksNeeded(content), k \in 0 .. BlockWords - 1 :
        card[blocks[i]].words[k] = FileWord(name, content, blocks, (i - 1) * BlockWords + k)

LEMMA ChainList ==
  ASSUME NEW content \in Contents, NEW blocks, IsChain(content, blocks)
  PROVE  /\ Len(blocks) = BlocksNeeded(content)
         /\ DOMAIN blocks = 1 .. BlocksNeeded(content)
         /\ BlocksNeeded(content) \in Nat \ {0}
         /\ \A i \in 1 .. BlocksNeeded(content) : blocks[i] \in FileBlocks
         /\ blocks[1] \in FileBlocks
<1>1. BlocksNeeded(content) \in Nat \ {0}
  BY EnoughBlocks
<1>2. blocks \in [1 .. BlocksNeeded(content) -> FileBlocks]
  BY DEF IsChain, Distinct
<1>3. 1 \in 1 .. BlocksNeeded(content)
  BY <1>1
<1>4. QED
  BY <1>1, <1>2, <1>3, ListOf

LEMMA FileBlocksFinite ==
  /\ IsFiniteSet(FileBlocks) /\ Cardinality(FileBlocks) = TotalBlocks - 2
  /\ FileBlocks \subseteq Nat /\ FileBlocks \cap Reserved = {}
<1>1. 2 \in Int /\ TotalBlocks - 1 \in Int /\ ~(2 > TotalBlocks - 1) /\ (TotalBlocks - 1) - 2 + 1 = TotalBlocks - 2
  BY BackupAssumption
<1>2. FileBlocks \subseteq Nat /\ FileBlocks \cap Reserved = {}
  BY BackupAssumption DEF FileBlocks, Reserved
<1>3. QED
  BY <1>1, <1>2, FS_Interval DEF FileBlocks

LEMMA ChainFits ==
  ASSUME NEW content \in Contents, NEW blocks, IsChain(content, blocks)
  PROVE  BlocksNeeded(content) <= TotalBlocks - 2
<1> DEFINE n == BlocksNeeded(content)
<1>1. n \in Nat
  BY EnoughBlocks
<1>2. IsFiniteSet(1 .. n) /\ Cardinality(1 .. n) = n
  BY <1>1, FS_Interval
<1>3. IsFiniteSet(FileBlocks) /\ Cardinality(FileBlocks) = TotalBlocks - 2
  BY FileBlocksFinite
<1>4. blocks \in Injection(1 .. n, FileBlocks)
  BY DEF IsChain, Distinct, Injection, IsInjective
<1>5. QED
  BY <1>2, <1>3, <1>4, FS_Injection

LEMMA WordRead ==
  ASSUME NEW content \in Contents, NEW blocks, IsChain(content, blocks),
         NEW card, NEW name, Holds(card, name, content, blocks),
         NEW place \in Nat, place < BlocksNeeded(content) * BlockWords
  PROVE  WordAt(card, blocks, place) = FileWord(name, content, blocks, place)
<1> DEFINE n == BlocksNeeded(content)
           q == place \div BlockWords
           r == place % BlockWords
<1>1. n \in Nat /\ BlockWords \in Nat \ {0}
  BY EnoughBlocks, BackupAssumption
<1>2. q \in 0 .. n - 1 /\ r \in 0 .. BlockWords - 1 /\ q * BlockWords + r = place
  BY <1>1, PlaceInBlocks
<1>3. q + 1 \in 1 .. n /\ (q + 1) - 1 = q
  BY <1>1, <1>2
<1>4. card[blocks[q + 1]].words[r] = FileWord(name, content, blocks, ((q + 1) - 1) * BlockWords + r)
  BY <1>2, <1>3 DEF Holds
<1>5. QED
  BY <1>2, <1>3, <1>4 DEF WordAt

LEMMA ListRead ==
  ASSUME NEW content \in Contents, NEW blocks, IsChain(content, blocks),
         NEW card, NEW name, Holds(card, name, content, blocks)
  PROVE  ReadBlockList(card, blocks[1]) = blocks
<1> DEFINE n == BlocksNeeded(content)
           Read(p) == IF p + 1 <= n THEN p + 1 ELSE n
           Prefix(p) == [i \in 1 .. Read(p) |-> blocks[i]]
           Longer(known, p) ==
             IF Len(known) < p THEN known
             ELSE LET entry == WordAt(card, known, p) IN
                  IF entry = Zero THEN known ELSE Append(known, entry[1])
           Body(f, p) == IF p = 0 THEN <<blocks[1]>> ELSE Longer(f[p - 1], p)
           Is(f) == f = [p \in 0 .. TotalBlocks |-> Body(f, p)]
           g == [p \in 0 .. TotalBlocks |-> Prefix(p)]
<1>1. /\ n \in Nat \ {0} /\ Len(blocks) = n /\ DOMAIN blocks = 1 .. n
      /\ \A i \in 1 .. n : blocks[i] \in FileBlocks
      /\ blocks = [i \in 1 .. n |-> blocks[i]]
  <2>1. blocks \in [1 .. n -> FileBlocks]
    BY DEF IsChain, Distinct
  <2>2. QED
    BY <2>1, ChainList
<1>2. n <= TotalBlocks - 2 /\ TotalBlocks \in Nat
  BY ChainFits, BackupAssumption
<1>3. \A p \in Nat : Len(Prefix(p)) = Read(p) /\ Prefix(p) \in Seq(FileBlocks)
  <2>1. TAKE p \in Nat
  <2>2. Read(p) \in Nat /\ Read(p) <= n
    BY <1>1
  <2>3. Prefix(p) \in [1 .. Read(p) -> FileBlocks]
    BY <1>1, <2>2
  <2> HIDE DEF Prefix, Read
  <2>4. QED
    BY <2>2, <2>3, ListOf
<1>4. ASSUME NEW f, NEW p \in 1 .. TotalBlocks, f[p - 1] = Prefix(p - 1)
      PROVE  Body(f, p) = Prefix(p)
  <2> DEFINE known == Prefix(p - 1)
  <2>1. Body(f, p) = Longer(known, p)
    <3> HIDE DEF Longer, Prefix
    <3>1. QED
      BY <1>4
  <2>2. p - 1 \in Nat /\ p \in Nat /\ Len(known) = IF p <= n THEN p ELSE n
    BY <1>1, <1>3
  <2>3. CASE p > n
    <3>1. Len(known) < p /\ known = Prefix(p)
      BY <1>1, <2>2, <2>3
    <3>2. QED
      BY <2>1, <3>1
  <2>4. CASE p <= n
    <3>1. WordAt(card, known, p) = WordAt(card, blocks, p)
      <4>1. p \div BlockWords \in 0 .. p - 1
        BY <2>2, BackupAssumption, PlaceBelow
      <4>2. (p \div BlockWords) + 1 \in 1 .. p
        BY <4>1, <2>2
      <4>3. known[(p \div BlockWords) + 1] = blocks[(p \div BlockWords) + 1]
        BY <4>2, <2>2, <2>4, <1>1
      <4>4. QED
        BY <4>3 DEF WordAt
    <3>2. p < n * BlockWords
      <4>1. 1 + n + Len(content) <= n * BlockWords /\ Len(content) \in Nat
        BY EnoughBlocks
      <4>2. n * BlockWords \in Nat
        BY <1>1, BackupAssumption
      <4>3. QED
        BY <4>1, <4>2, <2>2, <2>4, <1>1
    <3>3. WordAt(card, blocks, p) = FileWord(name, content, blocks, p)
      BY <3>2, <2>2, WordRead
    <3>4. ~(Len(known) < p) /\ Len(known) = p
      BY <2>2, <2>4, <1>1
    <3>5. CASE p = n
      <4>1. FileWord(name, content, blocks, p) = Zero
        BY <3>5, <1>1, <2>2 DEF FileWord
      <4>2. known = Prefix(p)
        BY <3>5, <1>1, <2>2
      <4>3. QED
        BY <2>1, <3>1, <3>3, <3>4, <4>1, <4>2
    <3>6. CASE p < n
      <4>1. FileWord(name, content, blocks, p) = Entry(blocks[p + 1])
        BY <3>6, <1>1, <2>2 DEF FileWord
      <4>2. Entry(blocks[p + 1]) # Zero /\ Entry(blocks[p + 1])[1] = blocks[p + 1]
        BY DEF Entry, Zero
      <4>3. Append(known, blocks[p + 1]) = Prefix(p)
        <5>1. known = [i \in 1 .. p |-> blocks[i]] /\ Prefix(p) = [i \in 1 .. p + 1 |-> blocks[i]]
          BY <3>6, <1>1, <2>2
        <5>2. known \in [1 .. p -> FileBlocks]
          BY <5>1, <3>6, <1>1, <2>2
        <5>6. blocks[p + 1] \in FileBlocks
          BY <3>6, <1>1, <2>2
        <5> HIDE DEF Prefix, known
        <5>3. Append(known, blocks[p + 1]) = [i \in 1 .. p + 1 |-> IF i = p + 1 THEN blocks[p + 1] ELSE known[i]]
          BY <5>2, <5>6, <2>2, LongerByOne
        <5>4. \A i \in 1 .. p + 1 : (IF i = p + 1 THEN blocks[p + 1] ELSE known[i]) = blocks[i]
          BY <5>1, <2>2
        <5>5. QED
          BY <5>1, <5>3, <5>4
      <4>4. WordAt(card, known, p) = Entry(blocks[p + 1])
        BY <3>1, <3>3, <4>1
      <4> HIDE DEF Prefix, known
      <4>5. Longer(known, p) = Append(known, blocks[p + 1])
        BY <3>4, <4>2, <4>4
      <4>6. QED
        BY <2>1, <4>3, <4>5
    <3>7. QED
      BY <3>5, <3>6, <2>4, <2>2, <1>1
  <2>5. QED
    BY <2>3, <2>4, <2>2, <1>1
<1>5. Prefix(0) = <<blocks[1]>>
  BY <1>1
<1>6. Is(g)
  <2>1. ASSUME NEW p \in 0 .. TotalBlocks PROVE Prefix(p) = Body(g, p)
    <3>1. CASE p = 0
      BY <1>5, <3>1
    <3>2. CASE p # 0
      <4>1. p \in 1 .. TotalBlocks /\ p - 1 \in 0 .. TotalBlocks
        BY <3>2, <1>2
      <4>2. g[p - 1] = Prefix(p - 1)
        BY <4>1
      <4> HIDE DEF g, Body, Prefix
      <4>3. QED
        BY <1>4, <4>1, <4>2
    <3>3. QED
      BY <3>1, <3>2
  <2> HIDE DEF Body, Prefix
  <2>2. QED
    BY <2>1
<1>7. PICK h : h = CHOOSE f : Is(f)
  OBVIOUS
<1>8. Is(h)
  <2> HIDE DEF Is
  <2>1. QED
    BY <1>6, <1>7
<1>9. \A p \in 0 .. TotalBlocks : h[p] = Body(h, p)
  <2> HIDE DEF Body
  <2>1. QED
    BY <1>8
<1>14. ReadBlockList(card, blocks[1]) = h[TotalBlocks]
  BY <1>7 DEF ReadBlockList
<1>10. 0 .. TotalBlocks \subseteq {p \in 0 .. TotalBlocks : h[p] = Prefix(p)}
  <2> DEFINE S == {p \in 0 .. TotalBlocks : h[p] = Prefix(p)}
  <2>1. 0 \in S
    <3>1. h[0] = <<blocks[1]>>
      BY <1>9, <1>2
    <3>2. QED
      BY <3>1, <1>5, <1>2
  <2>2. ASSUME NEW p \in 0 .. (TotalBlocks - 1), p \in S PROVE p + 1 \in S
    <3>1. p + 1 \in 1 .. TotalBlocks /\ (p + 1) - 1 = p
      BY <1>2
    <3>2. h[(p + 1) - 1] = Prefix((p + 1) - 1)
      BY <2>2, <3>1
    <3>3. h[p + 1] = Body(h, p + 1)
      <4>1. p + 1 \in 0 .. TotalBlocks
        BY <3>1, <1>2
      <4> HIDE DEF Body
      <4>2. QED
        BY <1>9, <4>1
    <3>4. Body(h, p + 1) = Prefix(p + 1)
      <4> HIDE DEF Body, Prefix
      <4>1. QED
        BY <1>4, <3>1, <3>2
    <3>5. p + 1 \in 0 .. TotalBlocks
      BY <3>1, <1>2
    <3> HIDE DEF Body, Prefix
    <3>6. QED
      BY <3>3, <3>4, <3>5
  <2> HIDE DEF S
  <2>3. QED
    BY <2>1, <2>2, <1>2, SetInduction DEF S
<1>11. h[TotalBlocks] = Prefix(TotalBlocks)
  BY <1>10, <1>2
<1>12. Prefix(TotalBlocks) = blocks
  BY <1>1, <1>2
<1>13. QED
  BY <1>14, <1>11, <1>12

\* What the list of files has of a file.
Recorded(name, content, blocks) == [name |-> name, size |-> Len(content), blocks |-> blocks]

LEMMA FileRead ==
  ASSUME NEW content \in Contents, NEW blocks, IsChain(content, blocks),
         NEW card, NEW name, Holds(card, name, content, blocks)
  PROVE  /\ FileAt(card, blocks[1]) = Recorded(name, content, blocks)
         /\ BuildFile(card, Recorded(name, content, blocks)) = content
<1> DEFINE n == BlocksNeeded(content)
           L == Len(content)
<1>1. /\ n \in Nat \ {0} /\ L \in Nat /\ 1 + n + L <= n * BlockWords
      /\ BlockWords \in Nat /\ BlockWords > 1 /\ Len(blocks) = n
  BY EnoughBlocks, ChainList, BackupAssumption
<1>2. card[blocks[1]].words[0] = Header(name, L)
  <2>1. 1 \in 1 .. n /\ 0 \in 0 .. BlockWords - 1 /\ (1 - 1) * BlockWords + 0 = 0
    BY <1>1
  <2>2. card[blocks[1]].words[0] = FileWord(name, content, blocks, 0)
    BY <2>1 DEF Holds
  <2>3. QED
    BY <2>2 DEF FileWord
<1>3. FileAt(card, blocks[1]) = Recorded(name, content, blocks)
  <2>1. Header(name, L)[2] = name /\ Header(name, L)[3] = L
    BY DEF Header
  <2>2. ReadBlockList(card, blocks[1]) = blocks
    BY ListRead
  <2>3. QED
    BY <1>2, <2>1, <2>2 DEF FileAt, Recorded
<1>4. ASSUME NEW i \in 1 .. L PROVE WordAt(card, blocks, n + i) = content[i]
  <2>1. n + i \in Nat /\ n + i < n * BlockWords
    <3>1. n * BlockWords \in Nat
      BY <1>1
    <3>2. QED
      BY <1>1, <3>1
  <2>2. WordAt(card, blocks, n + i) = FileWord(name, content, blocks, n + i)
    BY <2>1, WordRead
  <2>3. n + i # 0 /\ ~(n + i < n) /\ (n + i) - n = i
    BY <1>1
  <2>4. FileWord(name, content, blocks, n + i) = content[i]
    BY <1>1, <2>3 DEF FileWord
  <2>5. QED
    BY <2>2, <2>4
<1>5. content = [i \in 1 .. L |-> content[i]]
  BY BackupAssumption DEF IsList
<1>6. BuildFile(card, Recorded(name, content, blocks)) = [i \in 1 .. L |-> WordAt(card, blocks, n + i)]
  BY <1>1 DEF BuildFile, Recorded
<1>7. QED
  BY <1>3, <1>4, <1>5, <1>6

-----------------------------------------------------------------------------
(***************************************************************************)
(* A card on which each file has a chain of its own.                       *)
(***************************************************************************)
IsCard(card) ==
    /\ card = [block \in FileBlocks |-> [flag |-> card[block].flag, words |-> card[block].words]]
    /\ \A block \in FileBlocks : card[block].flag \in BOOLEAN

\* The chains of different files have no block in common.
Apart(files, chains) ==
    \A one, other \in DOMAIN files :
        one # other => InList(chains[one]) \cap InList(chains[other]) = {}

\* A block is flagged if it is the first of a chain.
Flagged(card, files, chains) ==
    \A block \in FileBlocks :
        card[block].flag <=> \E name \in DOMAIN files : block = chains[name][1]

Stored(files) ==
    /\ DOMAIN files \subseteq Names
    /\ files = [name \in DOMAIN files |-> files[name]]
    /\ \A name \in DOMAIN files : files[name] \in Contents

Layout(card, files, chains) ==
    /\ IsCard(card)
    /\ Stored(files)
    /\ \A name \in DOMAIN files :
        /\ IsChain(files[name], chains[name])
        /\ Holds(card, name, files[name], chains[name])
    /\ Apart(files, chains)
    /\ Flagged(card, files, chains)

RecordOf(files, chains, name) == Recorded(name, files[name], chains[name])

LEMMA FilesRead ==
  ASSUME NEW card, NEW files, NEW chains, Layout(card, files, chains)
  PROVE  /\ FilesOn(card) = {RecordOf(files, chains, name) : name \in DOMAIN files}
         /\ \A name \in DOMAIN files : BuildFile(card, RecordOf(files, chains, name)) = files[name]
<1>1. ASSUME NEW name \in DOMAIN files
      PROVE  /\ FileAt(card, chains[name][1]) = RecordOf(files, chains, name)
             /\ BuildFile(card, RecordOf(files, chains, name)) = files[name]
             /\ chains[name][1] \in FileBlocks
  <2>1. files[name] \in Contents /\ IsChain(files[name], chains[name])
    BY DEF Layout, Stored
  <2>2. Holds(card, name, files[name], chains[name])
    BY DEF Layout
  <2>3. QED
    BY <2>1, <2>2, FileRead, ChainList DEF RecordOf
<1>2. {block \in FileBlocks : card[block].flag} = {chains[name][1] : name \in DOMAIN files}
  BY <1>1 DEF Layout, Flagged
<1>3. FilesOn(card) = {FileAt(card, chains[name][1]) : name \in DOMAIN files}
  BY <1>2 DEF FilesOn
<1>4. QED
  BY <1>1, <1>3

LEMMA BlocksRead ==
  ASSUME NEW card, NEW files, NEW chains, Layout(card, files, chains)
  PROVE  BlocksOf(FilesOn(card)) = Reserved \cup UNION {InList(chains[name]) : name \in DOMAIN files}
<1>1. FilesOn(card) = {RecordOf(files, chains, name) : name \in DOMAIN files}
  BY FilesRead
<1>2. \A name \in DOMAIN files : RecordOf(files, chains, name).blocks = chains[name]
  BY DEF RecordOf, Recorded
<1>3. {InList(file.blocks) : file \in FilesOn(card)} = {InList(chains[name]) : name \in DOMAIN files}
  BY <1>1, <1>2
<1>4. QED
  BY <1>3 DEF BlocksOf

LEMMA FileFound ==
  ASSUME NEW card, NEW files, NEW chains, Layout(card, files, chains), NEW name
  PROVE  FindFile(FilesOn(card), name) =
           IF name \in DOMAIN files THEN {RecordOf(files, chains, name)} ELSE {}
<1>1. FilesOn(card) = {RecordOf(files, chains, other) : other \in DOMAIN files}
  BY FilesRead
<1>2. \A other \in DOMAIN files :
        RecordOf(files, chains, other).name = other /\ RecordOf(files, chains, other).blocks = chains[other]
  BY DEF RecordOf, Recorded
<1>3. ASSUME name \in DOMAIN files PROVE chains[name][1] <= chains[name][1]
  <2>1. chains[name][1] \in FileBlocks
    BY <1>3, ChainList DEF Layout, Stored
  <2>2. QED
    BY <2>1, BackupAssumption DEF FileBlocks
<1>4. QED
  BY <1>1, <1>2, <1>3 DEF FindFile

LEMMA ChainBlocks ==
  ASSUME NEW card, NEW files, NEW chains, Layout(card, files, chains), NEW name \in DOMAIN files
  PROVE  /\ IsChain(files[name], chains[name])
         /\ files[name] \in Contents
         /\ InList(chains[name]) \subseteq FileBlocks
         /\ chains[name][1] \in InList(chains[name])
<1>1. files[name] \in Contents /\ IsChain(files[name], chains[name])
  BY DEF Layout, Stored
<1>2. /\ DOMAIN chains[name] = 1 .. BlocksNeeded(files[name])
      /\ BlocksNeeded(files[name]) \in Nat \ {0}
      /\ \A i \in 1 .. BlocksNeeded(files[name]) : chains[name][i] \in FileBlocks
  BY <1>1, ChainList
<1>3. 1 \in DOMAIN chains[name]
  BY <1>2
<1>4. QED
  BY <1>1, <1>2, <1>3 DEF InList

LEMMA BlockFields ==
  ASSUME NEW block, NEW flag, NEW words, block = [flag |-> flag, words |-> words]
  PROVE  /\ block.flag = flag /\ block.words = words
         /\ block = [flag |-> block.flag, words |-> block.words]
         /\ \A other : [block EXCEPT !.words = other] = [flag |-> flag, words |-> other]
         /\ [block EXCEPT !.flag = FALSE] = [flag |-> FALSE, words |-> words]
<1>1. \A other : [block EXCEPT !.flag = other] = [flag |-> other, words |-> words]
  OBVIOUS
<1>2. [block EXCEPT !.flag = FALSE] = [flag |-> FALSE, words |-> words]
  BY <1>1, Zenon
<1>3. QED
  BY <1>2

\* Dropping words of blocks that belong to no file changes no file.
LEMMA TidyKeeps ==
  ASSUME NEW card, NEW files, NEW chains, Layout(card, files, chains)
  PROVE  Layout(Tidy(card), files, chains)
<1> DEFINE used == BlocksOf(FilesOn(card))
           after == Tidy(card)
<1>1. after = [block \in FileBlocks |->
                 IF block \in used THEN card[block] ELSE [card[block] EXCEPT !.words = NoWords]]
  BY DEF Tidy
<1>2. \A block \in FileBlocks : card[block] = [flag |-> card[block].flag, words |-> card[block].words]
  BY DEF Layout, IsCard
<1>3. \A block \in FileBlocks :
        /\ after[block] = [flag |-> after[block].flag, words |-> after[block].words]
        /\ after[block].flag = card[block].flag
        /\ block \in used => after[block].words = card[block].words
  <2> HIDE DEF used, after
  <2>1. TAKE block \in FileBlocks
  <2>2. PICK flag, words : card[block] = [flag |-> flag, words |-> words]
    BY <1>2
  <2>3. [card[block] EXCEPT !.words = NoWords] = [flag |-> flag, words |-> NoWords]
    BY <2>2, BlockFields
  <2>4. PICK kept : after[block] = [flag |-> flag, words |-> kept] /\ (block \in used => kept = words)
    BY <1>1, <2>2, <2>3
  <2>5. card[block].flag = flag /\ card[block].words = words
    BY <2>2, BlockFields
  <2>6. /\ after[block].flag = flag /\ after[block].words = kept
        /\ after[block] = [flag |-> after[block].flag, words |-> after[block].words]
    BY <2>4, BlockFields
  <2>7. QED
    BY <2>4, <2>5, <2>6
<1>4. IsCard(after)
  <2>1. \A block \in FileBlocks : card[block].flag \in BOOLEAN
    BY DEF Layout, IsCard
  <2>2. after = [block \in FileBlocks |-> after[block]]
    BY <1>1
  <2> HIDE DEF after
  <2>3. QED
    BY <1>3, <2>1, <2>2 DEF IsCard
<1>5. ASSUME NEW name \in DOMAIN files PROVE Holds(after, name, files[name], chains[name])
  <2>1. DOMAIN chains[name] = 1 .. BlocksNeeded(files[name]) /\ InList(chains[name]) \subseteq FileBlocks
    BY ChainBlocks, ChainList
  <2>2. InList(chains[name]) \subseteq used
    BY BlocksRead
  <2>3. \A i \in 1 .. BlocksNeeded(files[name]) : after[chains[name][i]].words = card[chains[name][i]].words
    <3>1. TAKE i \in 1 .. BlocksNeeded(files[name])
    <3>2. chains[name][i] \in InList(chains[name])
      BY <2>1 DEF InList
    <3> HIDE DEF used, after
    <3>3. QED
      BY <3>2, <2>1, <2>2, <1>3
  <2>4. Holds(card, name, files[name], chains[name])
    BY DEF Layout
  <2> HIDE DEF after
  <2>5. QED
    BY <2>3, <2>4 DEF Holds
<1>6. Flagged(after, files, chains)
  <2>1. \A block \in FileBlocks : card[block].flag <=> \E name \in DOMAIN files : block = chains[name][1]
    BY DEF Layout, Flagged
  <2> HIDE DEF after
  <2>2. QED
    BY <1>3, <2>1 DEF Flagged
<1>7. QED
  BY <1>4, <1>5, <1>6 DEF Layout

\* The chains when a file has been written into these blocks.
Rechained(files, chains, name, blocks) ==
    [other \in DOMAIN files \cup {name} |-> IF other = name THEN blocks ELSE chains[other]]

LEMMA FileWritten ==
  ASSUME NEW card, NEW files, NEW chains, Layout(card, files, chains),
         NEW name \in Names, NEW content \in Contents, NEW blocks, IsChain(content, blocks),
         \A other \in DOMAIN files \ {name} : InList(blocks) \cap InList(chains[other]) = {},
         name \in DOMAIN files => blocks[1] = chains[name][1]
  PROVE  Layout(WriteFile(card, name, content, blocks), With(files, name, content),
                Rechained(files, chains, name, blocks))
<1> DEFINE after == WriteFile(card, name, content, blocks)
           now == With(files, name, content)
           links == Rechained(files, chains, name, blocks)
           n == BlocksNeeded(content)
           Place(block) == CHOOSE i \in DOMAIN blocks : blocks[i] = block
<1>1. /\ DOMAIN blocks = 1 .. n /\ n \in Nat \ {0} /\ blocks[1] \in FileBlocks
      /\ \A i \in 1 .. n : blocks[i] \in FileBlocks
  BY ChainList
<1>2. /\ after = [block \in FileBlocks |-> after[block]]
      /\ \A block \in FileBlocks : block \notin InList(blocks) => after[block] = card[block]
      /\ \A block \in FileBlocks : block \in InList(blocks) =>
            /\ after[block] = [flag |-> after[block].flag, words |-> after[block].words]
            /\ after[block].flag = (Place(block) = 1 \/ card[block].flag)
            /\ after[block].words = [i \in 0 .. BlockWords - 1 |->
                  FileWord(name, content, blocks, (Place(block) - 1) * BlockWords + i)]
  <2>1. after = [block \in FileBlocks |->
                   IF block \in InList(blocks)
                   THEN [flag |-> Place(block) = 1 \/ card[block].flag,
                         words |-> [i \in 0 .. BlockWords - 1 |->
                            FileWord(name, content, blocks, (Place(block) - 1) * BlockWords + i)]]
                   ELSE card[block]]
    BY DEF WriteFile
  <2>2. ASSUME NEW block \in FileBlocks, block \in InList(blocks)
        PROVE  after[block] = [flag |-> Place(block) = 1 \/ card[block].flag,
                               words |-> [i \in 0 .. BlockWords - 1 |->
                                  FileWord(name, content, blocks, (Place(block) - 1) * BlockWords + i)]]
    <3> HIDE DEF after, Place
    <3>1. QED
      BY <2>1, <2>2
  <2> HIDE DEF after, Place
  <2>3. QED
    BY <2>1, <2>2, BlockFields
<1>3. \A i \in 1 .. n : blocks[i] \in InList(blocks) /\ Place(blocks[i]) = i
  <2>1. TAKE i \in 1 .. n
  <2>2. \A j \in 1 .. n : blocks[j] = blocks[i] => j = i
    BY DEF IsChain, Distinct
  <2>3. QED
    BY <1>1, <2>2 DEF InList
<1>4. /\ DOMAIN now = DOMAIN files \cup {name} /\ DOMAIN links = DOMAIN now
      /\ now = [other \in DOMAIN now |-> now[other]]
      /\ now[name] = content /\ links[name] = blocks
      /\ \A other \in DOMAIN files \ {name} : now[other] = files[other] /\ links[other] = chains[other]
  BY DEF With, Rechained
<1> HIDE DEF after, now, links, Place
<1>5. IsCard(after)
  <2>1. ASSUME NEW block \in FileBlocks
        PROVE  /\ after[block] = [flag |-> after[block].flag, words |-> after[block].words]
               /\ after[block].flag \in BOOLEAN
    <3>1. /\ card[block] = [flag |-> card[block].flag, words |-> card[block].words]
          /\ card[block].flag \in BOOLEAN
      BY BlockFields DEF Layout, IsCard
    <3>2. CASE block \in InList(blocks)
      BY <1>2, <3>1, <3>2
    <3>3. CASE block \notin InList(blocks)
      BY <1>2, <3>1, <3>3
    <3>4. QED
      BY <3>2, <3>3
  <2>2. QED
    BY <1>2, <2>1 DEF IsCard
<1>6. Stored(now)
  BY <1>4 DEF Layout, Stored
<1>7. IsChain(now[name], links[name]) /\ Holds(after, name, now[name], links[name])
  <2>1. ASSUME NEW i \in 1 .. n, NEW k \in 0 .. BlockWords - 1
        PROVE  after[blocks[i]].words[k] = FileWord(name, content, blocks, (i - 1) * BlockWords + k)
    <3>1. blocks[i] \in FileBlocks /\ blocks[i] \in InList(blocks) /\ Place(blocks[i]) = i
      BY <1>1, <1>3
    <3>2. after[blocks[i]].words =
            [j \in 0 .. BlockWords - 1 |-> FileWord(name, content, blocks, (Place(blocks[i]) - 1) * BlockWords + j)]
      BY <3>1, <1>2
    <3>3. QED
      BY <3>1, <3>2
  <2>2. QED
    BY <1>4, <2>1 DEF Holds
<1>8. ASSUME NEW other \in DOMAIN files \ {name}
      PROVE  IsChain(now[other], links[other]) /\ Holds(after, other, now[other], links[other])
  <2>1. IsChain(files[other], chains[other]) /\ Holds(card, other, files[other], chains[other])
    BY DEF Layout
  <2>2. DOMAIN chains[other] = 1 .. BlocksNeeded(files[other]) /\ InList(chains[other]) \subseteq FileBlocks
    BY ChainBlocks, ChainList
  <2>3. \A i \in 1 .. BlocksNeeded(files[other]) : after[chains[other][i]] = card[chains[other][i]]
    <3>1. TAKE i \in 1 .. BlocksNeeded(files[other])
    <3>2. chains[other][i] \in InList(chains[other])
      BY <2>2 DEF InList
    <3>3. chains[other][i] \notin InList(blocks) /\ chains[other][i] \in FileBlocks
      BY <3>2, <2>2
    <3>4. QED
      BY <3>3, <1>2
  <2>4. Holds(after, other, files[other], chains[other])
    BY <2>1, <2>3 DEF Holds
  <2>5. QED
    BY <2>1, <2>4, <1>4
<1>9. Apart(now, links)
  <2>1. ASSUME NEW one \in DOMAIN now, NEW other \in DOMAIN now, one # other
        PROVE  InList(links[one]) \cap InList(links[other]) = {}
    <3>1. CASE one = name
      BY <3>1, <2>1, <1>4
    <3>2. CASE other = name
      BY <3>2, <2>1, <1>4
    <3>3. CASE one # name /\ other # name
      BY <3>3, <2>1, <1>4 DEF Layout, Apart
    <3>4. QED
      BY <3>1, <3>2, <3>3
  <2>2. QED
    BY <2>1 DEF Apart
<1>10. Flagged(after, now, links)
  <2>1. ASSUME NEW block \in FileBlocks
        PROVE  after[block].flag <=> \E one \in DOMAIN now : block = links[one][1]
    <3>1. card[block].flag <=> \E one \in DOMAIN files : block = chains[one][1]
      BY DEF Layout, Flagged
    <3>2. \A other \in DOMAIN files : chains[other][1] \in InList(chains[other])
      BY ChainBlocks
    <3>3. blocks[1] \in InList(blocks) /\ Place(blocks[1]) = 1
      BY <1>1, <1>3
    <3>4. CASE block = blocks[1]
      <4>1. after[block].flag
        BY <3>3, <3>4, <1>2
      <4>2. QED
        BY <4>1, <3>4, <1>4
    <3>5. CASE block # blocks[1]
      <4>1. after[block].flag <=> card[block].flag
        <5>1. CASE block \in InList(blocks)
          <6>1. PICK i \in 1 .. n : block = blocks[i]
            BY <5>1, <1>1 DEF InList
          <6>2. Place(block) = i /\ i # 1
            BY <6>1, <3>5, <1>3
          <6>3. QED
            BY <5>1, <6>2, <1>2
        <5>2. CASE block \notin InList(blocks)
          BY <5>2, <1>2
        <5>3. QED
          BY <5>1, <5>2
      <4>2. \A other \in DOMAIN files \ {name} : links[other][1] = chains[other][1]
        BY <1>4
      <4>3. name \in DOMAIN files => block # chains[name][1]
        BY <3>5
      <4>4. QED
        BY <4>1, <4>2, <4>3, <3>1, <3>5, <1>4
    <3>6. QED
      BY <3>4, <3>5
  <2>2. QED
    BY <2>1 DEF Flagged
<1>11. QED
  BY <1>4, <1>5, <1>6, <1>7, <1>8, <1>9, <1>10 DEF Layout, after, now, links

LEMMA FileRemoved ==
  ASSUME NEW card, NEW files, NEW chains, Layout(card, files, chains), NEW name \in DOMAIN files
  PROVE  Layout([card EXCEPT ![chains[name][1]].flag = FALSE], Without(files, name), chains)
<1> DEFINE first == chains[name][1]
           after == [card EXCEPT ![first].flag = FALSE]
           left == Without(files, name)
<1>1. first \in FileBlocks
  BY ChainBlocks
<1>2. \A block \in FileBlocks : card[block] = [flag |-> card[block].flag, words |-> card[block].words]
  BY DEF Layout, IsCard
<1>3. /\ after = [block \in FileBlocks |-> after[block]]
      /\ \A block \in FileBlocks :
            /\ after[block] = [flag |-> after[block].flag, words |-> after[block].words]
            /\ after[block].flag = IF block = first THEN FALSE ELSE card[block].flag
            /\ after[block].words = card[block].words
  <2>1. card = [block \in FileBlocks |-> card[block]]
    BY DEF Layout, IsCard
  <2>2. after = [block \in FileBlocks |->
                   IF block = first THEN [card[block] EXCEPT !.flag = FALSE] ELSE card[block]]
    BY <2>1
  <2>3. PICK flag, words : card[first] = [flag |-> flag, words |-> words]
    BY <1>1, <1>2
  <2> HIDE DEF after, first
  <2>4. after[first] = [flag |-> FALSE, words |-> words] /\ card[first].words = words
    <3>1. /\ [card[first] EXCEPT !.flag = FALSE] = [flag |-> FALSE, words |-> words]
          /\ card[first].words = words
      BY <2>3, BlockFields
    <3>2. after[first] = [card[first] EXCEPT !.flag = FALSE]
      BY <2>2, <1>1
    <3>3. QED
      BY <3>1, <3>2
  <2>5. after[first].flag = FALSE /\ after[first].words = words
    BY <2>4, BlockFields
  <2>6. \A block \in FileBlocks : block # first => after[block] = card[block]
    BY <2>2
  <2>7. QED
    BY <1>2, <2>2, <2>4, <2>5, <2>6
<1>4. /\ DOMAIN left = DOMAIN files \ {name} /\ left = [other \in DOMAIN left |-> left[other]]
      /\ \A other \in DOMAIN left : left[other] = files[other]
  BY DEF Without
<1> HIDE DEF first, after, left
<1>5. IsCard(after)
  <2>1. \A block \in FileBlocks : card[block].flag \in BOOLEAN
    BY DEF Layout, IsCard
  <2>2. \A block \in FileBlocks : after[block].flag \in BOOLEAN
    BY <1>3, <2>1
  <2>3. QED
    BY <1>3, <2>2 DEF IsCard
<1>6. Stored(left)
  BY <1>4 DEF Layout, Stored
<1>7. ASSUME NEW other \in DOMAIN left
      PROVE  IsChain(left[other], chains[other]) /\ Holds(after, other, left[other], chains[other])
  <2>1. IsChain(files[other], chains[other]) /\ Holds(card, other, files[other], chains[other])
    BY <1>4 DEF Layout
  <2>2. \A i \in 1 .. BlocksNeeded(files[other]) : chains[other][i] \in FileBlocks
    BY <1>4, ChainBlocks, ChainList
  <2>3. Holds(after, other, files[other], chains[other])
    BY <2>1, <2>2, <1>3 DEF Holds
  <2>4. QED
    BY <2>1, <2>3, <1>4
<1>8. Apart(left, chains)
  BY <1>4 DEF Layout, Apart
<1>9. Flagged(after, left, chains)
  <2>1. \A other \in DOMAIN left : chains[other][1] # first
    <3>1. TAKE other \in DOMAIN left
    <3>2. chains[other][1] \in InList(chains[other]) /\ chains[name][1] \in InList(chains[name])
      BY <1>4, ChainBlocks
    <3>3. InList(chains[other]) \cap InList(chains[name]) = {}
      BY <1>4 DEF Layout, Apart
    <3>4. QED
      BY <3>2, <3>3 DEF first
  <2>2. \A block \in FileBlocks : after[block].flag = IF block = first THEN FALSE ELSE card[block].flag
    BY <1>3
  <2>3. \A block \in FileBlocks : card[block].flag <=> \E one \in DOMAIN files : block = chains[one][1]
    BY DEF Layout, Flagged
  <2>4. ASSUME NEW block \in FileBlocks
        PROVE  after[block].flag <=> \E other \in DOMAIN left : block = chains[other][1]
    <3>1. CASE block = first
      BY <3>1, <2>1, <2>2
    <3>2. CASE block # first
      <4>1. after[block].flag <=> card[block].flag
        BY <3>2, <2>2
      <4>2. QED
        BY <4>1, <2>3, <3>2, <1>4 DEF first
    <3>3. QED
      BY <3>1, <3>2
  <2>5. QED
    BY <2>4 DEF Flagged
<1>10. QED
  BY <1>5, <1>6, <1>7, <1>8, <1>9 DEF Layout, after, left, first

-----------------------------------------------------------------------------
(***************************************************************************)
(* Allocation: the blocks that are taken are different ones, and there are *)
(* as many as can be had.                                                  *)
(***************************************************************************)
LEMMA LowestIs ==
  ASSUME NEW free \in SUBSET Nat, IsFiniteSet(free), NEW n \in 1 .. Cardinality(free)
  PROVE  /\ Lowest(free, n) \in free
         /\ Cardinality({b \in free : b < Lowest(free, n)}) = n - 1
<1> DEFINE Below(block) == {b \in free : b < block}
           N == Cardinality(free)
           rank == [block \in free |-> Cardinality(Below(block))]
<1>1. N \in Nat
  BY FS_CardinalityType
<1>2. ASSUME NEW block \in free
      PROVE  IsFiniteSet(Below(block)) /\ Cardinality(Below(block)) \in 0 .. N - 1
  <2>1. IsFiniteSet(free \ {block}) /\ Cardinality(free \ {block}) = N - 1
    BY FS_RemoveElement
  <2>2. Below(block) \in SUBSET (free \ {block})
    OBVIOUS
  <2>3. IsFiniteSet(Below(block)) /\ Cardinality(Below(block)) <= N - 1
    BY <2>1, <2>2, FS_Subset
  <2>4. Cardinality(Below(block)) \in Nat
    BY <2>3, FS_CardinalityType
  <2>5. QED
    BY <2>3, <2>4, <1>1
<1>3. ASSUME NEW a \in free, NEW b \in free, a < b PROVE rank[a] # rank[b]
  <2>1. Below(a) \in SUBSET Below(b) /\ a \in Below(b) /\ a \notin Below(a)
    <3>1. a \in Nat /\ b \in Nat /\ \A c \in free : c \in Nat
      OBVIOUS
    <3>2. \A c \in free : c < a => c < b
      BY <3>1, <1>3
    <3>3. ~(a < a)
      BY <3>1
    <3>4. QED
      BY <3>2, <3>3, <1>3
  <2>2. Below(a) # Below(b)
    BY <2>1
  <2>3. Cardinality(Below(a)) # Cardinality(Below(b))
    BY <2>1, <2>2, <1>2, FS_Subset
  <2>4. QED
    BY <2>3
<1>4. rank \in Injection(free, 0 .. N - 1)
  <2>1. rank \in [free -> 0 .. N - 1]
    BY <1>2
  <2>2. \A a, b \in free : rank[a] = rank[b] => a = b
    <3>1. TAKE a \in free, b \in free
    <3>2. a \in Nat /\ b \in Nat
      OBVIOUS
    <3>3. a < b \/ b < a \/ a = b
      BY <3>2
    <3> HIDE DEF rank
    <3>4. QED
      BY <3>3, <1>3
  <2> HIDE DEF rank
  <2>3. QED
    BY <2>1, <2>2 DEF Injection, IsInjective
<1>5. IsFiniteSet(0 .. N - 1) /\ Cardinality(0 .. N - 1) = N
  <2>1. 0 \in Int /\ N - 1 \in Int /\ (IF 0 > N - 1 THEN 0 ELSE (N - 1) - 0 + 1) = N
    BY <1>1
  <2>2. QED
    BY <2>1, FS_Interval
<1>6. rank \in Surjection(free, 0 .. N - 1)
  <2> HIDE DEF rank, N
  <2>1. QED
    BY <1>4, <1>5, FS_Injection DEF N
<1>7. n - 1 \in 0 .. N - 1
  BY <1>1
<1>8. \E block \in free : Cardinality(Below(block)) = n - 1
  <2>1. \E block \in free : rank[block] = n - 1
    <3> HIDE DEF rank
    <3>1. QED
      BY <1>6, <1>7 DEF Surjection
  <2>2. QED
    BY <2>1
<1>9. QED
  BY <1>8 DEF Lowest

\* How many can be had of the number asked for.
CanTake(k, free, count) == IF count <= k + Cardinality(free) THEN count ELSE k + Cardinality(free)

\* These blocks are those taken: a number n of them, the own ones first.
IsTaking(k, own, free, count, taken, n) ==
    /\ n \in Nat /\ n <= count /\ Cardinality(free) \in Nat
    /\ Distinct(n, taken) /\ Len(taken) = n
    /\ \A i \in 1 .. n : taken[i] \in InList(own) \cup free
    /\ k > 0 /\ count > 0 => taken[1] = own[1]

LEMMA TakingIs ==
  ASSUME NEW k \in Nat, NEW own, Distinct(k, own),
         NEW free \in SUBSET FileBlocks, free \cap InList(own) = {},
         NEW count \in Nat,
         NEW taken, taken = Taking(own, free, count), NEW m, m = CanTake(k, free, count)
  PROVE  IsTaking(k, own, free, count, taken, m)
<1> DEFINE F == Cardinality(free)
<1>1. /\ free \in SUBSET Nat /\ IsFiniteSet(free) /\ F \in Nat
      /\ Len(own) = k /\ DOMAIN own = 1 .. k /\ own \in [1 .. k -> FileBlocks]
      /\ \A i, j \in 1 .. k : own[i] = own[j] => i = j
  <2>1. IsFiniteSet(FileBlocks) /\ FileBlocks \subseteq Nat
    BY FileBlocksFinite
  <2>2. QED
    BY <2>1, FS_Subset, FS_CardinalityType, ListOf DEF Distinct
<1>2. m \in Nat /\ m <= count /\ m <= k + F
  BY <1>1 DEF CanTake
<1>3. taken = [i \in 1 .. m |-> IF i <= k THEN own[i] ELSE Lowest(free, i - k)]
  BY <1>1 DEF Taking, CanTake
<1>4. ASSUME NEW i \in 1 .. m, i <= k
      PROVE  taken[i] = own[i] /\ i \in 1 .. k /\ taken[i] \in InList(own)
  <2>1. i \in 1 .. k /\ taken[i] = own[i]
    BY <1>2, <1>3, <1>4
  <2>2. QED
    BY <2>1, <1>1 DEF InList
<1>5. ASSUME NEW i \in 1 .. m, ~(i <= k)
      PROVE  /\ i - k \in 1 .. F /\ taken[i] = Lowest(free, i - k) /\ taken[i] \in free
             /\ Cardinality({b \in free : b < taken[i]}) = (i - k) - 1
  <2>1. i - k \in 1 .. F /\ taken[i] = Lowest(free, i - k)
    BY <1>1, <1>2, <1>3, <1>5
  <2>2. PICK low : low = Lowest(free, i - k)
    OBVIOUS
  <2>3. low \in free /\ Cardinality({b \in free : b < low}) = (i - k) - 1
    BY <2>1, <2>2, <1>1, LowestIs
  <2>4. QED
    BY <2>1, <2>2, <2>3
<1> HIDE DEF F
<1>6. \A i \in 1 .. m : taken[i] \in InList(own) \cup free /\ taken[i] \in FileBlocks
  <2>1. TAKE i \in 1 .. m
  <2>2. CASE i <= k
    BY <2>2, <1>1, <1>4
  <2>3. CASE ~(i <= k)
    BY <2>3, <1>5
  <2>4. QED
    BY <2>2, <2>3
<1>7. \A i, j \in 1 .. m : taken[i] = taken[j] => i = j
  <2>1. SUFFICES ASSUME NEW i \in 1 .. m, NEW j \in 1 .. m, taken[i] = taken[j] PROVE i = j
    OBVIOUS
  <2>2. CASE i <= k /\ j <= k
    BY <2>1, <2>2, <1>1, <1>4
  <2>3. CASE i <= k /\ ~(j <= k)
    BY <2>1, <2>3, <1>4, <1>5
  <2>4. CASE ~(i <= k) /\ j <= k
    BY <2>1, <2>4, <1>4, <1>5
  <2>5. CASE ~(i <= k) /\ ~(j <= k)
    <3>1. (i - k) - 1 = (j - k) - 1
      BY <2>1, <2>5, <1>5
    <3>2. QED
      BY <3>1, <1>2
  <2>6. QED
    BY <2>2, <2>3, <2>4, <2>5
<1>8. taken \in [1 .. m -> FileBlocks]
  BY <1>3, <1>6
<1>9. Len(taken) = m
  BY <1>2, <1>8, ListOf
<1>10. ASSUME k > 0, count > 0 PROVE taken[1] = own[1]
  <2>1. 1 \in 1 .. m /\ 1 <= k
    BY <1>1, <1>10, <1>2 DEF CanTake, F
  <2>2. QED
    BY <2>1, <1>4
<1>11. QED
  BY <1>1, <1>2, <1>6, <1>7, <1>8, <1>9, <1>10 DEF F, Distinct, IsTaking

-----------------------------------------------------------------------------
(***************************************************************************)
(* Room: the blocks that are in no chain are as many as the store has left.*)
(***************************************************************************)
Chained(files, chains) ==
    /\ Stored(files)
    /\ \A name \in DOMAIN files : IsChain(files[name], chains[name])
    /\ Apart(files, chains)

ChainsOf(files, chains) == UNION {InList(chains[name]) : name \in DOMAIN files}

LEMMA SameCount == ASSUME NEW S PROVE Store!Cardinality(S) = Cardinality(S)
BY DEF Store!Cardinality, Cardinality

LEMMA RoomIs ==
  ASSUME NEW files, NEW chains, Chained(files, chains)
  PROVE  /\ ChainsOf(files, chains) \subseteq FileBlocks
         /\ IsFiniteSet(FileBlocks \ ChainsOf(files, chains))
         /\ Cardinality(FileBlocks \ ChainsOf(files, chains)) = Store!Room(files)
         /\ Store!Room(files) \in Nat
         /\ IsFiniteSet(Store!Taken(files))
<1> DEFINE used == ChainsOf(files, chains)
           taken == Store!Taken(files)
           f == [place \in taken |-> chains[place[1]][place[2]]]
<1>1. ASSUME NEW name \in DOMAIN files
      PROVE  /\ Cost[files[name]] = BlocksNeeded(files[name])
             /\ DOMAIN chains[name] = 1 .. BlocksNeeded(files[name])
             /\ \A i \in 1 .. BlocksNeeded(files[name]) : chains[name][i] \in FileBlocks
             /\ \A i, j \in 1 .. BlocksNeeded(files[name]) : chains[name][i] = chains[name][j] => i = j
  <2>1. files[name] \in Contents /\ IsChain(files[name], chains[name])
    BY DEF Chained, Stored
  <2>2. QED
    BY <2>1, ChainList DEF Cost, IsChain, Distinct
<1>2. used \subseteq FileBlocks
  <2>1. ASSUME NEW name \in DOMAIN files, NEW block \in InList(chains[name]) PROVE block \in FileBlocks
    <3>1. PICK i \in DOMAIN chains[name] : block = chains[name][i]
      BY DEF InList
    <3>2. QED
      BY <3>1, <1>1
  <2>2. QED
    BY <2>1 DEF ChainsOf
<1>3. taken = UNION {{name} \X (1 .. BlocksNeeded(files[name])) : name \in DOMAIN files}
  BY <1>1 DEF Store!Taken
<1>4. IsFiniteSet(FileBlocks) /\ Cardinality(FileBlocks) = TotalBlocks - 2
  BY FileBlocksFinite
<1>5. IsFiniteSet(used)
  BY <1>2, <1>4, FS_Subset
<1>6. f \in [taken -> used]
  <2>1. ASSUME NEW place \in taken PROVE chains[place[1]][place[2]] \in used
    <3>1. PICK name \in DOMAIN files : place \in {name} \X (1 .. BlocksNeeded(files[name]))
      BY <1>3
    <3>2. place[1] = name /\ place[2] \in DOMAIN chains[name]
      BY <3>1, <1>1
    <3>3. QED
      BY <3>2 DEF ChainsOf, InList
  <2>2. QED
    BY <2>1
<1>7. \A a, b \in taken : f[a] = f[b] => a = b
  <2>1. SUFFICES ASSUME NEW a \in taken, NEW b \in taken, f[a] = f[b] PROVE a = b
    OBVIOUS
  <2>2. PICK one \in DOMAIN files : \E i \in 1 .. BlocksNeeded(files[one]) : a = <<one, i>>
    BY <1>3
  <2>3. PICK other \in DOMAIN files : \E j \in 1 .. BlocksNeeded(files[other]) : b = <<other, j>>
    BY <1>3
  <2>8. PICK i \in 1 .. BlocksNeeded(files[one]) : a = <<one, i>>
    BY <2>2
  <2>9. PICK j \in 1 .. BlocksNeeded(files[other]) : b = <<other, j>>
    BY <2>3
  <2>4. f[a] = chains[one][i] /\ f[b] = chains[other][j]
    BY <2>8, <2>9
  <2>5. chains[one][i] \in InList(chains[one]) /\ chains[other][j] \in InList(chains[other])
    BY <1>1 DEF InList
  <2>6. one = other
    BY <2>1, <2>4, <2>5 DEF Chained, Apart
  <2>7. QED
    BY <2>1, <2>8, <2>9, <2>4, <2>6, <1>1
<1>8. \A block \in used : \E place \in taken : f[place] = block
  <2>1. TAKE block \in used
  <2>2. PICK name \in DOMAIN files : block \in InList(chains[name])
    BY DEF ChainsOf
  <2>3. PICK i \in 1 .. BlocksNeeded(files[name]) : block = chains[name][i]
    BY <2>2, <1>1 DEF InList
  <2>4. <<name, i>> \in taken
    BY <1>3
  <2>5. f[<<name, i>>] = block
    BY <2>3, <2>4
  <2>6. QED
    BY <2>4, <2>5
<1> HIDE DEF f, taken, used
<1>9. f \in Injection(taken, used) /\ f \in Surjection(taken, used)
  BY <1>6, <1>7, <1>8 DEF Injection, IsInjective, Surjection
<1>10. Cardinality(taken) = Cardinality(used) /\ IsFiniteSet(taken)
  BY <1>5, <1>9, FS_Injection
<1>11. /\ IsFiniteSet(FileBlocks \ used) /\ Cardinality(FileBlocks \ used) \in Nat
       /\ Cardinality(FileBlocks \ used) = Cardinality(FileBlocks) - Cardinality(FileBlocks \cap used)
  BY <1>4, FS_Difference, FS_CardinalityType
<1>12. FileBlocks \cap used = used
  BY <1>2
<1>13. Store!Room(files) = (TotalBlocks - 2) - Cardinality(taken)
  BY SameCount DEF Store!Room, taken
<1>14. QED
  BY <1>2, <1>4, <1>10, <1>11, <1>12, <1>13 DEF used, taken

LEMMA LayoutChained ==
  ASSUME NEW card, NEW files, NEW chains, Layout(card, files, chains)
  PROVE  Chained(files, chains)
BY DEF Layout, Chained

LEMMA WithoutChained ==
  ASSUME NEW files, NEW chains, Chained(files, chains), NEW name
  PROVE  Chained(Without(files, name), chains)
<1>1. /\ DOMAIN Without(files, name) = DOMAIN files \ {name}
      /\ \A other \in DOMAIN files \ {name} : Without(files, name)[other] = files[other]
      /\ Without(files, name) = [other \in DOMAIN Without(files, name) |-> Without(files, name)[other]]
  BY DEF Without
<1>2. QED
  BY <1>1 DEF Chained, Stored, Apart

\* The blocks of a chain are as many as the chain is long.
LEMMA ChainSize ==
  ASSUME NEW n \in Nat, NEW blocks, Distinct(n, blocks)
  PROVE  /\ IsFiniteSet(InList(blocks)) /\ Cardinality(InList(blocks)) = n
         /\ InList(blocks) \subseteq FileBlocks
<1>1. DOMAIN blocks = 1 .. n /\ blocks \in [1 .. n -> FileBlocks]
  BY ListOf DEF Distinct
<1>2. InList(blocks) \subseteq FileBlocks
  BY <1>1 DEF InList
<1>3. IsFiniteSet(InList(blocks))
  BY <1>2, FileBlocksFinite, FS_Subset
<1>4. blocks \in [1 .. n -> InList(blocks)] /\ \A b \in InList(blocks) : \E i \in 1 .. n : blocks[i] = b
  BY <1>1 DEF InList
<1>5. blocks \in Injection(1 .. n, InList(blocks)) /\ blocks \in Surjection(1 .. n, InList(blocks))
  BY <1>4 DEF Distinct, Injection, IsInjective, Surjection
<1>6. Cardinality(1 .. n) = n
  BY FS_Interval
<1>7. QED
  BY <1>2, <1>3, <1>5, <1>6, FS_Injection

-----------------------------------------------------------------------------
(***************************************************************************)
(* The invariant: each file to give back has a chain of its own, and the   *)
(* list and the bitmap are those of the card unless they are to be built   *)
(* anew.                                                                   *)
(***************************************************************************)
Listed(m) ==
    /\ m = [card |-> m.card, files |-> m.files, bitmap |-> m.bitmap, dirty |-> m.dirty]
    /\ m.dirty \in BOOLEAN
    /\ ~m.dirty => m.files = FilesOn(m.card) /\ m.bitmap = BlocksOf(m.files)

LaidOut(card, files) == \E chains : Layout(card, files, chains)

MemoryInv(m, files) == Listed(m) /\ LaidOut(m.card, files)

BackupInv == MemoryInv(memory, held)

LEMMA Rebuilt ==
  ASSUME NEW m, Listed(m)
  PROVE  /\ RebuildFileList(m).card = m.card
         /\ RebuildFileList(m).files = FilesOn(m.card)
         /\ RebuildFileList(m).bitmap = BlocksOf(FilesOn(m.card))
         /\ Listed(RebuildFileList(m))
<1>1. CASE m.dirty
  <2>1. RebuildFileList(m) = [card |-> m.card, files |-> FilesOn(m.card),
                              bitmap |-> BlocksOf(FilesOn(m.card)), dirty |-> FALSE]
    BY <1>1 DEF RebuildFileList
  <2>2. QED
    BY <2>1 DEF Listed
<1>2. CASE ~m.dirty
  BY <1>2 DEF RebuildFileList, Listed
<1>3. QED
  BY <1>1, <1>2

\* An import: what comes of it, and that the memory holds the files it should.
LEMMA ImportIs ==
  ASSUME NEW m, NEW files, MemoryInv(m, files),
         NEW name \in Names, NEW content \in Contents, NEW overwrite \in BOOLEAN
  PROVE  LET import == ImportInto(m, name, content, overwrite)
             room == Store!Room(Without(files, name))
         IN  /\ MemoryInv(import.memory, Kept(files, name, content, import.result))
             /\ \/ /\ name \in DOMAIN files /\ ~overwrite
                   /\ import.result = "FileExists"
                \/ /\ name \in DOMAIN files => overwrite
                   /\ ~(BlocksNeeded(content) <= room)
                   /\ import.result = "NoSpace"
                \/ /\ name \in DOMAIN files => overwrite
                   /\ BlocksNeeded(content) <= room
                   /\ import.result = IF name \in DOMAIN files THEN "Overwritten" ELSE "Imported"
<1> DEFINE import == ImportInto(m, name, content, overwrite)
           room == Store!Room(Without(files, name))
           r == RebuildFileList(m)
           old == FindFile(r.files, name)
           own == IF old = {} THEN <<>> ELSE (CHOOSE file \in old : TRUE).blocks
           count == BlocksNeeded(content)
           blocks == AllocateBlocks(own, r.bitmap, count)
           file == [name |-> name, size |-> Len(content), blocks |-> blocks]
           written == [card |-> Tidy(WriteFile(r.card, name, content, blocks)),
                       files |-> (r.files \ old) \cup {file},
                       bitmap |-> (r.bitmap \ InList(own)) \cup InList(blocks),
                       dirty |-> TRUE]
<1>1. PICK chains : Layout(m.card, files, chains)
  BY DEF MemoryInv, LaidOut
<1>2. /\ r.card = m.card /\ r.files = FilesOn(m.card)
      /\ r.bitmap = BlocksOf(FilesOn(m.card)) /\ Listed(r)
  BY Rebuilt DEF MemoryInv
<1>3. import = IF old # {} /\ ~overwrite THEN [memory |-> r, result |-> "FileExists"]
               ELSE IF Len(blocks) < count THEN [memory |-> r, result |-> "NoSpace"]
               ELSE [memory |-> written, result |-> IF old = {} THEN "Imported" ELSE "Overwritten"]
  BY DEF ImportInto
<1> DEFINE k == IF name \in DOMAIN files THEN BlocksNeeded(files[name]) ELSE 0
           free == FileBlocks \ r.bitmap
           m1 == CanTake(k, free, count)
<1>4. /\ old = {} <=> name \notin DOMAIN files
      /\ name \in DOMAIN files => own = chains[name]
      /\ name \notin DOMAIN files => own = <<>>
  <2>1. old = IF name \in DOMAIN files THEN {RecordOf(files, chains, name)} ELSE {}
    BY <1>1, <1>2, FileFound
  <2>2. RecordOf(files, chains, name).blocks = chains[name]
    BY DEF RecordOf, Recorded
  <2> HIDE DEF old
  <2>3. QED
    BY <2>1, <2>2
<1>5. free = FileBlocks \ ChainsOf(files, chains)
  <2>1. r.bitmap = Reserved \cup ChainsOf(files, chains)
    BY <1>1, <1>2, BlocksRead DEF ChainsOf
  <2>2. QED
    BY <2>1, FileBlocksFinite
<1> HIDE DEF import, room, r, old, own, count, blocks, file, written, k, free, m1
<1>6. /\ k \in Nat /\ Distinct(k, own)
      /\ (name \in DOMAIN files) => k > 0
  <2>1. CASE name \in DOMAIN files
    <3>1. IsChain(files[name], chains[name]) /\ files[name] \in Contents
      BY <1>1, <2>1, ChainBlocks
    <3>2. k = BlocksNeeded(files[name]) /\ own = chains[name]
      BY <1>4, <2>1 DEF k
    <3>3. QED
      BY <3>1, <3>2, <2>1, EnoughBlocks DEF IsChain
  <2>2. CASE name \notin DOMAIN files
    <3>1. k = 0 /\ own = <<>>
      BY <1>4, <2>2 DEF k
    <3>2. QED
      BY <3>1, <2>2 DEF Distinct
  <2>3. QED
    BY <2>1, <2>2
<1>7. count \in Nat \ {0}
  BY EnoughBlocks DEF count
<1>8. name \in DOMAIN files => InList(own) \subseteq ChainsOf(files, chains)
  BY <1>4 DEF ChainsOf
<1>9. name \notin DOMAIN files => InList(own) = {}
  <2>1. SUFFICES ASSUME name \notin DOMAIN files PROVE InList(own) = {}
    OBVIOUS
  <2>2. own = <<>> /\ DOMAIN <<>> = {}
    BY <1>4, <2>1
  <2>3. QED
    BY <2>2 DEF InList
<1>10. free \subseteq FileBlocks /\ free \cap InList(own) = {}
  BY <1>5, <1>8, <1>9
<1>11. blocks = Taking(own, free, count)
  BY DEF blocks, AllocateBlocks, free
<1>12. /\ m1 \in Nat /\ m1 <= count /\ Cardinality(free) \in Nat
       /\ Distinct(m1, blocks) /\ Len(blocks) = m1
       /\ \A i \in 1 .. m1 : blocks[i] \in InList(own) \cup free
       /\ k > 0 => blocks[1] = own[1]
  <2>1. count \in Nat /\ count > 0
    BY <1>7
  <2>2. m1 = CanTake(k, free, count) /\ free \in SUBSET FileBlocks
    BY <1>10 DEF m1
  <2>3. k \in Nat /\ Distinct(k, own) /\ count \in Nat /\ free \cap InList(own) = {}
    BY <1>6, <1>10, <2>1
  <2>4. IsTaking(k, own, free, count, blocks, m1)
    BY <2>2, <2>3, <1>11, TakingIs
  <2>5. QED
    BY <2>1, <2>4 DEF IsTaking
<1>13. k + Cardinality(free) = room
  <2>1. Chained(Without(files, name), chains)
    BY <1>1, LayoutChained, WithoutChained
  <2>2. Cardinality(FileBlocks \ ChainsOf(Without(files, name), chains)) = room
    BY <2>1, RoomIs DEF room
  <2>3. FileBlocks \ ChainsOf(Without(files, name), chains) = free \cup InList(own)
    <3>1. DOMAIN Without(files, name) = DOMAIN files \ {name}
      BY DEF Without
    <3>2. InList(own) \subseteq FileBlocks
      BY <1>6, ChainSize
    <3>3. CASE name \in DOMAIN files
      <4>1. ChainsOf(files, chains) = ChainsOf(Without(files, name), chains) \cup InList(own)
        BY <1>4, <3>1, <3>3 DEF ChainsOf
      <4>2. ChainsOf(Without(files, name), chains) \cap InList(own) = {}
        BY <1>1, <1>4, <3>1, <3>3 DEF ChainsOf, Layout, Apart
      <4>3. QED
        BY <4>1, <4>2, <3>2, <1>5
    <3>4. CASE name \notin DOMAIN files
      <4>1. ChainsOf(Without(files, name), chains) = ChainsOf(files, chains)
        BY <3>1, <3>4 DEF ChainsOf
      <4>2. QED
        BY <4>1, <3>4, <1>5, <1>9
    <3>5. QED
      BY <3>3, <3>4
  <2>4. IsFiniteSet(free) /\ IsFiniteSet(InList(own)) /\ Cardinality(InList(own)) = k
    BY <1>6, <1>10, ChainSize, FileBlocksFinite, FS_Subset
  <2>5. Cardinality(free \cup InList(own)) = Cardinality(free) + k - Cardinality({})
    BY <2>4, <1>10, FS_Union
  <2>6. Cardinality({}) = 0
    BY FS_EmptySet
  <2>7. Cardinality(free \cup InList(own)) = room
    BY <2>2, <2>3
  <2>8. QED
    BY <2>5, <2>6, <2>7, <1>6, <1>12
<1>14. Len(blocks) < count <=> ~(count <= room)
  BY <1>6, <1>7, <1>12, <1>13 DEF m1, CanTake
<1>15. MemoryInv(r, files)
  BY <1>1, <1>2 DEF MemoryInv, LaidOut
<1>16. CASE name \in DOMAIN files /\ ~overwrite
  <2>1. import = [memory |-> r, result |-> "FileExists"]
    BY <1>3, <1>4, <1>16
  <2>2. Kept(files, name, content, import.result) = files
    BY <2>1 DEF Kept
  <2>3. QED
    BY <2>1, <2>2, <1>15, <1>16 DEF import
<1>17. CASE (name \in DOMAIN files => overwrite) /\ ~(count <= room)
  <2>1. import = [memory |-> r, result |-> "NoSpace"]
    BY <1>3, <1>4, <1>14, <1>17
  <2>2. Kept(files, name, content, import.result) = files
    BY <2>1 DEF Kept
  <2>3. QED
    BY <2>1, <2>2, <1>15, <1>17 DEF import, count, room
<1>18. CASE (name \in DOMAIN files => overwrite) /\ count <= room
  <2>1. import = [memory |-> written, result |-> IF name \in DOMAIN files THEN "Overwritten" ELSE "Imported"]
    BY <1>3, <1>4, <1>14, <1>18
  <2>2. m1 = count
    BY <1>6, <1>7, <1>12, <1>13, <1>18 DEF m1, CanTake
  <2>3. IsChain(content, blocks)
    BY <2>2, <1>12 DEF IsChain, count
  <2>4. \A other \in DOMAIN files \ {name} : InList(blocks) \cap InList(chains[other]) = {}
    <3>1. TAKE other \in DOMAIN files \ {name}
    <3>2. InList(blocks) \subseteq InList(own) \cup free
      BY <1>12 DEF InList
    <3>3. free \cap InList(chains[other]) = {}
      BY <1>5 DEF ChainsOf
    <3>4. InList(own) \cap InList(chains[other]) = {}
      BY <1>1, <1>4, <1>9 DEF Layout, Apart
    <3>5. QED
      BY <3>2, <3>3, <3>4
  <2>5. name \in DOMAIN files => blocks[1] = chains[name][1]
    BY <1>4, <1>6, <1>12
  <2>6. Layout(WriteFile(r.card, name, content, blocks), With(files, name, content),
               Rechained(files, chains, name, blocks))
    BY <1>1, <1>2, <2>3, <2>4, <2>5, FileWritten
  <2>7. Layout(Tidy(WriteFile(r.card, name, content, blocks)), With(files, name, content),
               Rechained(files, chains, name, blocks))
    BY <2>6, TidyKeeps
  <2>8. MemoryInv(written, With(files, name, content))
    BY <2>7 DEF MemoryInv, Listed, LaidOut, written
  <2>9. Kept(files, name, content, import.result) = With(files, name, content)
    BY <2>1 DEF Kept
  <2>10. QED
    BY <2>1, <2>8, <2>9, <1>18 DEF import, count, room
<1>19. QED
  BY <1>16, <1>17, <1>18 DEF import, count, room

-----------------------------------------------------------------------------
(***************************************************************************)
(* The operations, one by one: each keeps the invariant and is what the    *)
(* store does in its place.                                                *)
(***************************************************************************)
LEMMA FormattedIs == MemoryInv(Formatted, <<>>)
<1> DEFINE card == Formatted.card
           none == <<>>
<1>1. card = [block \in FileBlocks |-> [flag |-> FALSE, words |-> NoWords]]
  BY DEF Formatted
<1>2. DOMAIN none = {} /\ none = [name \in {} |-> none[name]]
  OBVIOUS
<1> HIDE DEF card, none
<1>3. \A block \in FileBlocks : card[block] = [flag |-> FALSE, words |-> NoWords]
  BY <1>1
<1>4. \A block \in FileBlocks :
        /\ card[block].flag = FALSE
        /\ card[block] = [flag |-> card[block].flag, words |-> card[block].words]
  BY <1>3, BlockFields
<1>5. IsCard(card)
  <2>1. card = [block \in FileBlocks |-> card[block]]
    BY <1>1
  <2>2. QED
    BY <2>1, <1>4 DEF IsCard
<1>6. Stored(none)
  BY <1>2 DEF Stored
<1>7. Layout(card, none, none)
  BY <1>2, <1>4, <1>5, <1>6 DEF Layout, Apart, Flagged
<1>8. FilesOn(card) = {}
  BY <1>2, <1>7, FilesRead
<1>9. BlocksOf({}) = Reserved
  BY DEF BlocksOf
<1>10. Listed(Formatted)
  BY <1>8, <1>9 DEF Listed, Formatted, card
<1>11. QED
  BY <1>7, <1>10 DEF MemoryInv, LaidOut, card, none

\* A file whose flag is cleared is gone; the others are what they were.
LEMMA Removed ==
  ASSUME NEW card, NEW files, LaidOut(card, files), NEW name
  PROVE  /\ FindFile(FilesOn(card), name) = {} => Without(files, name) = files
         /\ \A file \in FindFile(FilesOn(card), name) : LaidOut(Unflag(card, file), Without(files, name))
<1>1. PICK chains : Layout(card, files, chains)
  BY DEF LaidOut
<1>2. FindFile(FilesOn(card), name) = IF name \in DOMAIN files THEN {RecordOf(files, chains, name)} ELSE {}
  BY <1>1, FileFound
<1>3. CASE name \in DOMAIN files
  <2>1. RecordOf(files, chains, name).blocks = chains[name]
    BY DEF RecordOf, Recorded
  <2>2. Layout([card EXCEPT ![chains[name][1]].flag = FALSE], Without(files, name), chains)
    BY <1>1, <1>3, FileRemoved
  <2>3. Layout(Tidy([card EXCEPT ![chains[name][1]].flag = FALSE]), Without(files, name), chains)
    BY <2>2, TidyKeeps
  <2>4. LaidOut(Unflag(card, RecordOf(files, chains, name)), Without(files, name))
    BY <2>1, <2>3 DEF LaidOut, Unflag
  <2>5. QED
    BY <1>2, <1>3, <2>4
<1>4. CASE name \notin DOMAIN files
  <2>1. files = [other \in DOMAIN files |-> files[other]]
    BY <1>1 DEF Layout, Stored
  <2>2. DOMAIN files \ {name} = DOMAIN files
    BY <1>4
  <2>3. Without(files, name) = files
    BY <2>1, <2>2 DEF Without
  <2>4. QED
    BY <1>2, <1>4, <2>3
<1>5. QED
  BY <1>3, <1>4

LEMMA SameStore ==
  ASSUME NEW files, NEW name, NEW content
  PROVE  /\ Store!Without(files, name) = Without(files, name)
         /\ Store!With(files, name, content) = With(files, name, content)
BY DEF Store!Without, Without, Store!With, With

LEMMA FitsIs ==
  ASSUME NEW name, NEW content \in Contents
  PROVE  Store!Fits(name, content) <=> BlocksNeeded(content) <= Store!Room(Without(held, name))
<1>1. Cost[content] = BlocksNeeded(content)
  BY DEF Cost
<1>2. Store!Without(held, name) = Without(held, name)
  BY SameStore
<1>3. QED
  BY <1>1, <1>2 DEF Store!Fits

LEMMA ImportKeeps ==
  ASSUME BackupInv, NEW name \in Names, NEW content \in Contents, NEW overwrite \in BOOLEAN,
         Import(name, content, overwrite)
  PROVE  BackupInv' /\ Store!StoreFile(name, content, overwrite)
<1> DEFINE import == ImportInto(memory, name, content, overwrite)
           room == Store!Room(Without(held, name))
<1>1. memory' = import.memory /\ result' = import.result /\ held' = Kept(held, name, content, import.result)
  BY DEF Import
<1>2. /\ MemoryInv(import.memory, Kept(held, name, content, import.result))
      /\ \/ /\ name \in DOMAIN held /\ ~overwrite
            /\ import.result = "FileExists"
         \/ /\ name \in DOMAIN held => overwrite
            /\ ~(BlocksNeeded(content) <= room)
            /\ import.result = "NoSpace"
         \/ /\ name \in DOMAIN held => overwrite
            /\ BlocksNeeded(content) <= room
            /\ import.result = IF name \in DOMAIN held THEN "Overwritten" ELSE "Imported"
  BY ImportIs DEF BackupInv
<1> HIDE DEF import, room
<1>3. BackupInv'
  BY <1>1, <1>2 DEF BackupInv
<1>4. Store!Fits(name, content) <=> BlocksNeeded(content) <= room
  BY FitsIs DEF room
<1>5. Store!With(held, name, content) = With(held, name, content)
  BY SameStore
<1>6. CASE import.result \in {"FileExists", "NoSpace"}
  <2>1. held' = held
    BY <1>1, <1>6 DEF Kept
  <2>2. QED
    BY <1>1, <1>2, <1>3, <1>4, <1>6, <2>1 DEF Store!StoreFile
<1>7. CASE import.result \in {"Overwritten", "Imported"}
  <2>1. held' = With(held, name, content)
    BY <1>1, <1>7 DEF Kept
  <2>2. QED
    BY <1>1, <1>2, <1>3, <1>4, <1>5, <1>7, <2>1 DEF Store!StoreFile
<1>8. QED
  BY <1>2, <1>6, <1>7

LEMMA DeleteKeeps ==
  ASSUME BackupInv, NEW name \in Names, Delete(name)
  PROVE  BackupInv' /\ Store!Change
<1> DEFINE m == RebuildFileList(memory)
           old == FindFile(m.files, name)
<1>1. /\ m.card = memory.card /\ m.files = FilesOn(memory.card) /\ Listed(m)
      /\ LaidOut(memory.card, held)
  BY Rebuilt DEF BackupInv, MemoryInv
<1>2. /\ old = {} => Without(held, name) = held
      /\ \A file \in old : LaidOut(Unflag(memory.card, file), Without(held, name))
  BY <1>1, Removed
<1>3. held' = Without(held, name) /\ result' = "none"
  BY DEF Delete
<1>4. CASE old = {} /\ memory' = m
  <2>1. MemoryInv(memory', held')
    BY <1>1, <1>2, <1>3, <1>4 DEF MemoryInv
  <2>2. QED
    BY <2>1, <1>2, <1>3, <1>4 DEF BackupInv, Store!Change
<1>5. ASSUME NEW file \in old,
             memory' = [card |-> Unflag(m.card, file), files |-> m.files \ old,
                        bitmap |-> m.bitmap \ InList(file.blocks), dirty |-> TRUE]
      PROVE  BackupInv' /\ Store!Change
  <2> HIDE DEF m, old
  <2>1. Listed(memory') /\ memory'.card = Unflag(m.card, file)
    BY <1>5 DEF Listed
  <2>2. LaidOut(memory'.card, held')
    BY <1>1, <1>2, <1>3, <1>5, <2>1
  <2>3. held' = Store!Without(held, name)
    BY <1>3, SameStore
  <2>4. QED
    BY <2>1, <2>2, <2>3, <1>3 DEF BackupInv, MemoryInv, Store!Change
<1>6. QED
  BY <1>4, <1>5 DEF Delete

LEMMA FormatKeeps ==
  ASSUME Format
  PROVE  BackupInv' /\ Store!Change
BY FormattedIs DEF Format, BackupInv, Store!Change

LEMMA LookKeeps ==
  ASSUME BackupInv, Look
  PROVE  BackupInv' /\ Store!Change
<1>1. LaidOut(memory.card, held) /\ Listed(memory)
  BY DEF BackupInv, MemoryInv
<1>2. RebuildFileList(memory).card = memory.card /\ Listed(RebuildFileList(memory))
  BY <1>1, Rebuilt
<1>3. memory' = RebuildFileList(memory) /\ held' = held /\ result' = "none"
  BY DEF Look
<1>4. QED
  BY <1>1, <1>2, <1>3 DEF BackupInv, MemoryInv, Store!Change

LEMMA RoomLeft ==
  ASSUME NEW card, NEW files, LaidOut(card, files)
  PROVE  Store!Room(files) \in Nat
BY LayoutChained, RoomIs DEF LaidOut

LEMMA WriteCardIs ==
  ASSUME Listed(memory), NEW card, WriteCard(card)
  PROVE  Listed(memory') /\ memory'.card = card
<1>1. memory = [card |-> memory.card, files |-> memory.files, bitmap |-> memory.bitmap, dirty |-> memory.dirty]
  BY DEF Listed
<1>2. memory' = [card |-> card, files |-> memory.files, bitmap |-> memory.bitmap, dirty |-> TRUE]
  BY <1>1 DEF WriteCard
<1>3. QED
  BY <1>2 DEF Listed

LEMMA GameDeletesKeeps ==
  ASSUME BackupInv, NEW name \in Names, GameDeletes(name)
  PROVE  BackupInv' /\ Store!Change
<1>1. LaidOut(memory.card, held) /\ Listed(memory)
  BY DEF BackupInv, MemoryInv
<1>2. PICK file \in FindFile(FilesOn(memory.card), name) : WriteCard(Unflag(memory.card, file))
  BY DEF GameDeletes
<1>3. Listed(memory') /\ memory'.card = Unflag(memory.card, file)
  BY <1>1, <1>2, WriteCardIs
<1>4. LaidOut(Unflag(memory.card, file), Without(held, name))
  BY <1>1, Removed
<1>5. held' = Without(held, name) /\ result' = "none"
  BY DEF GameDeletes
<1>6. Store!Without(held, name) = Without(held, name)
  BY SameStore
<1>7. QED
  BY <1>3, <1>4, <1>5, <1>6 DEF BackupInv, MemoryInv, Store!Change

LEMMA GameSavesKeeps ==
  ASSUME BackupInv, NEW name \in Names, NEW content \in Contents, GameSaves(name, content)
  PROVE  BackupInv' /\ Store!Change
<1> DEFINE n == BlocksNeeded(content)
           free == FileBlocks \ BlocksOf(FilesOn(memory.card))
<1>1. LaidOut(memory.card, held) /\ Listed(memory)
  BY DEF BackupInv, MemoryInv
<1>2. PICK chains : Layout(memory.card, held, chains)
  BY <1>1 DEF LaidOut
<1>3. PICK blocks \in [1 .. n -> free] :
        /\ \A i, j \in DOMAIN blocks : blocks[i] = blocks[j] => i = j
        /\ WriteCard(WriteFile(memory.card, name, content, blocks))
  BY DEF GameSaves
<1>4. name \notin DOMAIN held /\ held' = With(held, name, content) /\ result' = "none"
  BY DEF GameSaves
<1>5. free = FileBlocks \ ChainsOf(held, chains)
  <2>1. BlocksOf(FilesOn(memory.card)) = Reserved \cup ChainsOf(held, chains)
    BY <1>2, BlocksRead DEF ChainsOf
  <2>2. QED
    BY <2>1, FileBlocksFinite
<1> HIDE DEF free
<1>6. /\ \A i \in 1 .. n : blocks[i] \in free
      /\ \A i, j \in 1 .. n : blocks[i] = blocks[j] => i = j
      /\ DOMAIN blocks = 1 .. n
  BY <1>3
<1>7. IsChain(content, blocks)
  BY <1>3, <1>5, <1>6 DEF IsChain, Distinct
<1>8. \A other \in DOMAIN held \ {name} : InList(blocks) \cap InList(chains[other]) = {}
  <2>1. InList(blocks) \subseteq free
    BY <1>6 DEF InList
  <2>2. \A other \in DOMAIN held : InList(chains[other]) \cap free = {}
    BY <1>5 DEF ChainsOf
  <2>3. QED
    BY <2>1, <2>2
<1>9. LaidOut(WriteFile(memory.card, name, content, blocks), With(held, name, content))
  <2>1. Layout(WriteFile(memory.card, name, content, blocks), With(held, name, content),
               Rechained(held, chains, name, blocks))
    BY <1>2, <1>4, <1>7, <1>8, FileWritten
  <2>2. QED
    BY <2>1 DEF LaidOut
<1>10. Listed(memory') /\ memory'.card = WriteFile(memory.card, name, content, blocks)
  BY <1>1, <1>3, WriteCardIs
<1>11. BackupInv'
  BY <1>4, <1>9, <1>10 DEF BackupInv, MemoryInv
<1>12. n <= Store!Room(held)
  <2>1. Chained(held, chains)
    BY <1>2, LayoutChained
  <2>2. IsFiniteSet(free) /\ Cardinality(free) = Store!Room(held)
    BY <2>1, <1>5, RoomIs
  <2>3. n \in Nat
    BY EnoughBlocks
  <2>4. IsFiniteSet(1 .. n) /\ Cardinality(1 .. n) = n
    BY <2>3, FS_Interval
  <2>5. blocks \in Injection(1 .. n, free)
    BY <1>3, <1>6 DEF Injection, IsInjective
  <2> HIDE DEF n
  <2>6. QED
    BY <2>2, <2>4, <2>5, FS_Injection
<1>13. Without(held, name) = held
  <2>1. held = [other \in DOMAIN held |-> held[other]] /\ DOMAIN held \ {name} = DOMAIN held
    BY <1>2, <1>4 DEF Layout, Stored
  <2>2. QED
    BY <2>1 DEF Without
<1>14. Store!Fits(name, content)
  BY <1>12, <1>13, FitsIs
<1>15. Store!With(held, name, content) = With(held, name, content)
  BY SameStore
<1>16. QED
  BY <1>4, <1>11, <1>14, <1>15 DEF Store!Change

LEMMA More == ASSUME NEW a \in Nat, NEW b \in Nat, ~(a <= b) PROVE a > b
OBVIOUS

LEMMA StillMore == ASSUME NEW a \in Nat, NEW b \in Nat, a > b, NEW c \in Nat, c <= b PROVE a > c
OBVIOUS

\* A file more leaves no more room.
LEMMA RoomShrinks ==
  ASSUME NEW files, NEW name, name \notin DOMAIN files, NEW content,
         IsFiniteSet(Store!Taken(With(files, name, content)))
  PROVE  Store!Room(With(files, name, content)) <= Store!Room(files)
<1> DEFINE now == With(files, name, content)
<1>1. DOMAIN now = DOMAIN files \cup {name} /\ \A other \in DOMAIN files : now[other] = files[other]
  BY DEF With
<1> HIDE DEF now
<1>2. Store!Taken(files) \subseteq Store!Taken(now)
  BY <1>1 DEF Store!Taken
<1>3. /\ Cardinality(Store!Taken(files)) \in Nat /\ Cardinality(Store!Taken(now)) \in Nat
      /\ Cardinality(Store!Taken(files)) <= Cardinality(Store!Taken(now))
  BY <1>2, FS_Subset, FS_CardinalityType DEF now
<1>4. /\ Store!Room(files) = (TotalBlocks - 2) - Cardinality(Store!Taken(files))
      /\ Store!Room(now) = (TotalBlocks - 2) - Cardinality(Store!Taken(now))
  BY SameCount DEF Store!Room
<1>5. QED
  BY <1>3, <1>4, BackupAssumption DEF now

\* Of the first n files these are kept, and each of the others has no room.
KeptOf(files, n, kept) ==
    /\ \A name \in DOMAIN kept :
           \E i \in 1 .. n : files[i].name = name /\ files[i].content = kept[name]
    /\ \A i \in 1 .. n :
           files[i].name \in DOMAIN kept \/ BlocksNeeded(files[i].content) > Store!Room(kept)

LEMMA KeptMore ==
  ASSUME NEW files \in Cards, NEW n \in Nat, n + 1 \in DOMAIN files,
         NEW m, NEW kept, MemoryInv(m, kept), KeptOf(files, n, kept),
         NEW import, import = ImportInto(m, files[n + 1].name, files[n + 1].content, TRUE),
         NEW after, after = Kept(kept, files[n + 1].name, files[n + 1].content, import.result)
  PROVE  MemoryInv(import.memory, after) /\ KeptOf(files, n + 1, after)
<1> DEFINE name == files[n + 1].name
           content == files[n + 1].content
<1>1. /\ name \in Names /\ content \in Contents /\ DOMAIN files = 1 .. Len(files) /\ Len(files) \in Nat
      /\ \A i \in 1 .. n : files[i].name # name /\ files[i].content \in Contents
  <2>1. /\ IsList(files)
        /\ \A i \in DOMAIN files : files[i].name \in Names /\ files[i].content \in Contents
        /\ \A i, j \in DOMAIN files : files[i].name = files[j].name => i = j
    BY BackupAssumption
  <2>2. DOMAIN files = 1 .. Len(files) /\ Len(files) \in Nat
    BY <2>1 DEF IsList
  <2>3. \A i \in 1 .. n : i \in DOMAIN files /\ i # n + 1
    BY <2>2
  <2>4. QED
    BY <2>1, <2>2, <2>3
<1> HIDE DEF name, content
<1>2. name \notin DOMAIN kept
  BY <1>1 DEF KeptOf
<1>3. Without(kept, name) = kept
  <2>1. kept = [other \in DOMAIN kept |-> kept[other]] /\ DOMAIN kept \ {name} = DOMAIN kept
    BY <1>2 DEF MemoryInv, LaidOut, Layout, Stored
  <2>2. QED
    BY <2>1 DEF Without
<1>4. /\ MemoryInv(import.memory, after)
      /\ \/ ~(BlocksNeeded(content) <= Store!Room(kept)) /\ import.result = "NoSpace"
         \/ import.result = "Imported"
  <2>1. TRUE \in BOOLEAN
    OBVIOUS
  <2> DEFINE done == ImportInto(m, name, content, TRUE)
  <2>2. import = done /\ after = Kept(kept, name, content, done.result)
    BY DEF name, content
  <2>3. /\ MemoryInv(done.memory, Kept(kept, name, content, done.result))
        /\ \/ /\ name \in DOMAIN kept /\ ~TRUE
              /\ done.result = "FileExists"
           \/ /\ name \in DOMAIN kept => TRUE
              /\ ~(BlocksNeeded(content) <= Store!Room(Without(kept, name)))
              /\ done.result = "NoSpace"
           \/ /\ name \in DOMAIN kept => TRUE
              /\ BlocksNeeded(content) <= Store!Room(Without(kept, name))
              /\ done.result = IF name \in DOMAIN kept THEN "Overwritten" ELSE "Imported"
    BY <1>1, <2>1, ImportIs
  <2> HIDE DEF done
  <2>4. QED
    BY <2>2, <2>3, <1>2, <1>3
<1>5. \A i \in 1 .. n + 1 : i \in 1 .. n \/ i = n + 1
  OBVIOUS
<1>6. 1 .. n \subseteq 1 .. n + 1 /\ n + 1 \in 1 .. n + 1
  OBVIOUS
<1>7. CASE import.result = "NoSpace"
  <2>1. after = kept
    BY <1>7 DEF Kept
  <2>2. BlocksNeeded(content) > Store!Room(kept)
    <3>1. Store!Room(kept) \in Nat /\ BlocksNeeded(content) \in Nat
      BY <1>1, RoomLeft, EnoughBlocks DEF MemoryInv
    <3>2. ~(BlocksNeeded(content) <= Store!Room(kept))
      BY <1>4, <1>7
    <3>3. QED
      BY <3>1, <3>2, More
  <2>3. QED
    BY <2>1, <2>2, <1>4, <1>5, <1>6 DEF KeptOf, name, content
<1>8. CASE import.result = "Imported"
  <2>1. after = With(kept, name, content)
    BY <1>8 DEF Kept, name, content
  <2>2. /\ DOMAIN after = DOMAIN kept \cup {name} /\ after[name] = content
        /\ \A other \in DOMAIN kept : after[other] = kept[other]
    BY <2>1, <1>2 DEF With
  <2>3. Store!Room(after) <= Store!Room(kept) /\ Store!Room(after) \in Nat /\ Store!Room(kept) \in Nat
    <3>1. LaidOut(import.memory.card, after) /\ LaidOut(m.card, kept)
      BY <1>4 DEF MemoryInv
    <3>2. IsFiniteSet(Store!Taken(after)) /\ Store!Room(after) \in Nat /\ Store!Room(kept) \in Nat
      BY <3>1, LayoutChained, RoomIs DEF LaidOut
    <3>3. QED
      BY <3>2, <2>1, <1>2, RoomShrinks
  <2>4. \A i \in 1 .. n : BlocksNeeded(files[i].content) \in Nat
    BY <1>1, EnoughBlocks
  <2>5. \A i \in 1 .. n + 1 :
           files[i].name \in DOMAIN after \/ BlocksNeeded(files[i].content) > Store!Room(after)
    <3>1. TAKE i \in 1 .. n + 1
    <3>2. CASE i = n + 1
      BY <3>2, <2>2 DEF name
    <3>3. CASE i \in 1 .. n
      <4>1. files[i].name \in DOMAIN kept \/ BlocksNeeded(files[i].content) > Store!Room(kept)
        BY <3>3 DEF KeptOf
      <4>2. CASE files[i].name \in DOMAIN kept
        BY <4>2, <2>2
      <4>3. CASE BlocksNeeded(files[i].content) > Store!Room(kept)
        <5>1. BlocksNeeded(files[i].content) > Store!Room(after)
          BY <4>3, <3>3, <2>3, <2>4, StillMore
        <5>2. QED
          BY <5>1
      <4>4. QED
        BY <4>1, <4>2, <4>3
    <3>4. QED
      BY <3>2, <3>3, <1>5
  <2>6. \A other \in DOMAIN after :
           \E i \in 1 .. n + 1 : files[i].name = other /\ files[i].content = after[other]
    <3>1. TAKE other \in DOMAIN after
    <3>2. CASE other = name
      BY <3>2, <2>2, <1>6 DEF name, content
    <3>3. CASE other \in DOMAIN kept
      BY <3>3, <2>2, <1>6 DEF KeptOf
    <3>4. QED
      BY <3>2, <3>3, <2>2
  <2>7. QED
    BY <2>5, <2>6, <1>4 DEF KeptOf
<1>9. QED
  BY <1>4, <1>7, <1>8

LEMMA CardIs ==
  ASSUME NEW files \in Cards
  PROVE  /\ Len(files) \in Nat /\ DOMAIN files = 1 .. Len(files)
         /\ \A i \in DOMAIN files :
               files[i].content \in Contents /\ BlocksNeeded(files[i].content) \in Nat
         /\ \A i, j \in DOMAIN files : files[i].name = files[j].name => i = j
<1>1. /\ IsList(files)
      /\ \A i \in DOMAIN files : files[i].content \in Contents
      /\ \A i, j \in DOMAIN files : files[i].name = files[j].name => i = j
  BY BackupAssumption
<1>2. Len(files) \in Nat /\ DOMAIN files = 1 .. Len(files)
  BY <1>1 DEF IsList
<1>3. QED
  BY <1>1, <1>2, EnoughBlocks

LEMMA DemandIs ==
  ASSUME NEW files \in Cards
  PROVE  IsFiniteSet(Demand(files)) /\ Cardinality(Demand(files)) <= TotalBlocks - 2
<1> DEFINE Of(i) == {files[i].name} \X (1 .. BlocksNeeded(files[i].content))
           parts == {Of(i) : i \in DOMAIN files}
           f == [i \in DOMAIN files |-> Of(i)]
<1>1. IsFiniteSet(DOMAIN files)
  BY CardIs, FS_Interval
<1>2. ASSUME NEW i \in DOMAIN files PROVE IsFiniteSet(Of(i))
  <2>1. IsFiniteSet(1 .. BlocksNeeded(files[i].content))
    BY CardIs, FS_Interval
  <2>2. IsFiniteSet({files[i].name})
    BY FS_Singleton
  <2>3. QED
    BY <2>1, <2>2, FS_Product
<1>3. f \in Surjection(DOMAIN files, parts)
  BY DEF Surjection
<1>4. IsFiniteSet(parts)
  BY <1>1, <1>3, FS_Surjection
<1>5. \A part \in parts : IsFiniteSet(part)
  BY <1>2
<1>6. Demand(files) = UNION parts
  BY DEF Demand
<1> HIDE DEF parts
<1>7. QED
  BY <1>4, <1>5, <1>6, FS_UNION, CardsAssumption

\* As the files have room together, none of them is left out.
LEMMA AllKept ==
  ASSUME NEW files \in Cards, NEW kept, Stored(kept), IsFiniteSet(Store!Taken(kept)),
         KeptOf(files, Len(files), kept)
  PROVE  /\ DOMAIN kept = {files[i].name : i \in DOMAIN files}
         /\ \A i \in DOMAIN files : kept[files[i].name] = files[i].content
<1>1. \A name \in DOMAIN kept :
        \E i \in DOMAIN files : files[i].name = name /\ files[i].content = kept[name]
  BY CardIs DEF KeptOf
<1>2. Store!Taken(kept) \subseteq Demand(files)
  <2>1. ASSUME NEW name \in DOMAIN kept
        PROVE  {name} \X (1 .. Cost[kept[name]]) \subseteq Demand(files)
    <3>1. PICK i \in DOMAIN files : files[i].name = name /\ files[i].content = kept[name]
      BY <1>1
    <3>2. Cost[kept[name]] = BlocksNeeded(files[i].content)
      BY <3>1 DEF Cost, Stored
    <3>3. QED
      BY <3>1, <3>2 DEF Demand
  <2>2. QED
    BY <2>1 DEF Store!Taken
<1>3. ASSUME NEW i \in DOMAIN files, files[i].name \notin DOMAIN kept PROVE FALSE
  <2> DEFINE name == files[i].name
             c == BlocksNeeded(files[i].content)
             own == {name} \X (1 .. c)
             taken == Store!Taken(kept)
  <2>1. c \in Nat
    BY CardIs
  <2>2. own \subseteq Demand(files)
    BY DEF Demand
  <2>3. taken \cap own = {}
    BY <1>3 DEF Store!Taken
  <2> HIDE DEF c
  <2>4. IsFiniteSet(own) /\ Cardinality(own) = c
    <3>1. IsFiniteSet(1 .. c) /\ Cardinality(1 .. c) = c
      BY <2>1, FS_Interval
    <3>2. IsFiniteSet({name}) /\ Cardinality({name}) = 1
      BY FS_Singleton
    <3>3. /\ IsFiniteSet({name} \X (1 .. c))
          /\ Cardinality({name} \X (1 .. c)) = Cardinality({name}) * Cardinality(1 .. c)
      <4>1. IsFiniteSet({name}) /\ IsFiniteSet(1 .. c)
        BY <3>1, <3>2
      <4>2. QED
        BY <4>1, FS_Product, Zenon
    <3>4. 1 * c = c
      BY <2>1
    <3>5. IsFiniteSet(own) /\ Cardinality(own) = Cardinality({name}) * Cardinality(1 .. c)
      BY <3>3
    <3> HIDE DEF own
    <3>6. QED
      BY <3>1, <3>2, <3>4, <3>5
  <2> HIDE DEF own, taken
  <2>5. Cardinality(taken \cup own) = Cardinality(taken) + c - Cardinality({})
    BY <2>3, <2>4, FS_Union DEF taken
  <2>6. Cardinality({}) = 0 /\ Cardinality(taken) \in Nat
    BY FS_EmptySet, FS_CardinalityType DEF taken
  <2>7. taken \cup own \subseteq Demand(files)
    BY <1>2, <2>2 DEF taken
  <2>8. Cardinality(taken \cup own) <= Cardinality(Demand(files)) /\ Cardinality(Demand(files)) \in Nat
    BY <2>7, DemandIs, FS_Subset, FS_CardinalityType
  <2>9. Cardinality(taken) + c <= TotalBlocks - 2
    BY <2>1, <2>5, <2>6, <2>8, DemandIs, BackupAssumption
  <2>10. Store!Room(kept) = (TotalBlocks - 2) - Cardinality(taken)
    BY SameCount DEF Store!Room, taken
  <2>11. c > Store!Room(kept)
    BY <1>3, CardIs DEF KeptOf, c
  <2>12. QED
    BY <2>1, <2>6, <2>9, <2>10, <2>11, BackupAssumption
<1>4. DOMAIN kept = {files[i].name : i \in DOMAIN files}
  BY <1>1, <1>3
<1>5. ASSUME NEW i \in DOMAIN files PROVE kept[files[i].name] = files[i].content
  <2>1. PICK j \in DOMAIN files : files[j].name = files[i].name /\ files[j].content = kept[files[i].name]
    BY <1>1, <1>4
  <2>2. j = i
    BY <2>1, CardIs
  <2>3. QED
    BY <2>1, <2>2
<1>6. QED
  BY <1>4, <1>5

\* The copies are imported one after the other into a memory that keeps the invariant.
LEMMA CopyFromKeeps ==
  ASSUME NEW files \in Cards, CopyFrom(files)
  PROVE  BackupInv' /\ Store!Replace
<1> DEFINE L == Len(files)
           Base == [memory |-> Formatted, held |-> <<>>]
           Step(before, n) ==
             LET file == files[n]
                 import == ImportInto(before.memory, file.name, file.content, TRUE)
             IN  [memory |-> import.memory,
                  held |-> Kept(before.held, file.name, file.content, import.result)]
           Body(f, n) == IF n = 0 THEN Base ELSE Step(f[n - 1], n)
           Is(f) == f = [n \in 0 .. L |-> Body(f, n)]
<1>1. /\ L \in Nat /\ DOMAIN files = 1 .. L
      /\ \A n \in 1 .. L : files[n].name \in Names /\ files[n].content \in Contents
  BY BackupAssumption DEF IsList
<1>2. PICK h : h = CHOOSE f : Is(f)
  OBVIOUS
<1>3. memory' = h[L].memory /\ held' = h[L].held /\ result' = "Copied"
  BY <1>2 DEF CopyFrom
<1> HIDE DEF L, Base, Step
<1>4. \E f : Is(f)
  <2> DEFINE Upto(m) == \E f : f = [n \in 0 .. m |-> Body(f, n)]
             S == {m \in 0 .. L : Upto(m)}
  <2>1. 0 \in S
    <3> DEFINE f == [n \in 0 .. 0 |-> Base]
    <3>1. \A n \in 0 .. 0 : f[n] = Body(f, n)
      OBVIOUS
    <3>2. f = [n \in 0 .. 0 |-> f[n]] /\ 0 \in 0 .. L
      BY <1>1
    <3> HIDE DEF f, Body
    <3>3. f = [n \in 0 .. 0 |-> Body(f, n)]
      BY <3>1, <3>2
    <3>4. QED
      BY <3>2, <3>3
  <2>2. ASSUME NEW m \in 0 .. (L - 1), m \in S PROVE m + 1 \in S
    <3>1. PICK f : f = [n \in 0 .. m |-> Body(f, n)]
      BY <2>2
    <3> DEFINE g == [n \in 0 .. m + 1 |-> IF n <= m THEN f[n] ELSE Step(f[m], m + 1)]
    <3>2. ASSUME NEW n \in 0 .. m + 1 PROVE g[n] = Body(g, n)
      <4>1. CASE n = 0
        <5>1. 0 \in 0 .. m /\ 0 \in 0 .. m + 1 /\ 0 <= m
          BY <2>2
        <5>2. g[0] = f[0]
          BY <5>1
        <5>3. f[0] = Base
          BY <3>1, <5>1
        <5> HIDE DEF g
        <5>4. QED
          BY <4>1, <5>2, <5>3
      <4>2. CASE n # 0 /\ n <= m
        <5>1. n \in 0 .. m /\ n - 1 \in 0 .. m + 1 /\ n - 1 <= m
          BY <4>2, <2>2
        <5>2. g[n] = f[n] /\ g[n - 1] = f[n - 1]
          BY <4>2, <5>1
        <5>3. f[n] = Step(f[n - 1], n)
          BY <3>1, <4>2, <5>1
        <5> HIDE DEF g
        <5>4. QED
          BY <4>2, <5>2, <5>3
      <4>3. CASE n = m + 1
        <5>1. m \in 0 .. m + 1 /\ m <= m /\ ~(n <= m) /\ n - 1 = m /\ n # 0
          BY <4>3, <2>2
        <5>2. g[m] = f[m] /\ g[n] = Step(f[m], m + 1)
          BY <4>3, <5>1
        <5> HIDE DEF g
        <5>3. QED
          BY <4>3, <5>1, <5>2
      <4>4. QED
        BY <4>1, <4>2, <4>3, <2>2
    <3>3. g = [n \in 0 .. m + 1 |-> g[n]]
      OBVIOUS
    <3> HIDE DEF g, Body
    <3>4. g = [n \in 0 .. m + 1 |-> Body(g, n)]
      BY <3>2, <3>3
    <3>5. m + 1 \in 0 .. L
      BY <1>1, <2>2
    <3>6. QED
      BY <3>4, <3>5
  <2> HIDE DEF S
  <2>3. 0 .. L \subseteq S
    BY <1>1, <2>1, <2>2, SetInduction
  <2>4. L \in S
    BY <1>1, <2>3
  <2>5. QED
    BY <2>4 DEF S
<1>5. Is(h)
  <2> HIDE DEF Is
  <2>1. QED
    BY <1>2, <1>4
<1>6. \A n \in 0 .. L : h[n] = Body(h, n)
  <2> HIDE DEF Body
  <2>1. QED
    BY <1>5
<1>7. MemoryInv(h[L].memory, h[L].held) /\ KeptOf(files, L, h[L].held)
  <2> DEFINE S == {n \in 0 .. L : MemoryInv(h[n].memory, h[n].held) /\ KeptOf(files, n, h[n].held)}
  <2>1. 0 \in S
    <3>1. h[0] = Base /\ 0 \in 0 .. L
      BY <1>1, <1>6
    <3>2. h[0].memory = Formatted /\ h[0].held = <<>>
      BY <3>1 DEF Base
    <3>3. KeptOf(files, 0, <<>>)
      BY DEF KeptOf
    <3>4. QED
      BY <3>1, <3>2, <3>3, FormattedIs
  <2>2. ASSUME NEW n \in 0 .. (L - 1), n \in S PROVE n + 1 \in S
    <3>1. n + 1 \in 0 .. L /\ n + 1 # 0 /\ (n + 1) - 1 = n /\ n + 1 \in 1 .. L
      BY <1>1
    <3>2. h[n + 1] = Step(h[n], n + 1)
      BY <1>6, <3>1
    <3> DEFINE file == files[n + 1]
               import == ImportInto(h[n].memory, file.name, file.content, TRUE)
    <3>3. h[n + 1].memory = import.memory /\ h[n + 1].held = Kept(h[n].held, file.name, file.content, import.result)
      BY <3>2 DEF Step
    <3>4. MemoryInv(h[n].memory, h[n].held) /\ KeptOf(files, n, h[n].held) /\ n \in Nat /\ n + 1 \in DOMAIN files
      BY <1>1, <2>2, <3>1
    <3>5. MemoryInv(import.memory, h[n + 1].held) /\ KeptOf(files, n + 1, h[n + 1].held)
      BY <3>3, <3>4, KeptMore
    <3>6. QED
      BY <3>1, <3>3, <3>5
  <2> HIDE DEF S
  <2>3. 0 .. L \subseteq S
    BY <1>1, <2>1, <2>2, SetInduction
  <2>4. L \in S
    BY <1>1, <2>3
  <2>5. QED
    BY <2>4 DEF S
<1>8. MemoryInv(memory', held') /\ KeptOf(files, L, held')
  BY <1>3, <1>7
<1>9. Stored(held') /\ IsFiniteSet(Store!Taken(held'))
  <2>1. PICK chains : Layout(memory'.card, held', chains)
    BY <1>8 DEF MemoryInv, LaidOut
  <2>2. QED
    BY <2>1, LayoutChained, RoomIs DEF Chained
<1>10. /\ DOMAIN held' = {files[i].name : i \in DOMAIN files}
       /\ \A i \in DOMAIN files : held'[files[i].name] = files[i].content
  BY <1>8, <1>9, AllKept DEF L
<1>11. held' = [name \in DOMAIN held' |-> held'[name]]
  BY <1>9 DEF Stored
<1>12. Store!Replace
  BY <1>3, <1>10, <1>11 DEF Store!Replace
<1>13. QED
  BY <1>8, <1>12 DEF BackupInv

-----------------------------------------------------------------------------
LEMMA StepKeeps ==
  ASSUME BackupInv, BackupNext
  PROVE  BackupInv' /\ Store!StoreNext
<1>1. ASSUME NEW name \in Names, NEW content \in Contents, NEW overwrite \in BOOLEAN,
             Import(name, content, overwrite)
      PROVE  BackupInv' /\ Store!StoreNext
  BY <1>1, ImportKeeps DEF Store!StoreNext
<1>2. ASSUME NEW name \in Names, Delete(name) PROVE BackupInv' /\ Store!StoreNext
  BY <1>2, DeleteKeeps DEF Store!StoreNext
<1>3. ASSUME Format PROVE BackupInv' /\ Store!StoreNext
  BY <1>3, FormatKeeps DEF Store!StoreNext
<1>4. ASSUME NEW files \in Cards, CopyFrom(files) PROVE BackupInv' /\ Store!StoreNext
  BY <1>4, CopyFromKeeps DEF Store!StoreNext
<1>5. ASSUME Look PROVE BackupInv' /\ Store!StoreNext
  BY <1>5, LookKeeps DEF Store!StoreNext
<1>6. ASSUME NEW name \in Names, NEW content \in Contents, GameSaves(name, content)
      PROVE  BackupInv' /\ Store!StoreNext
  BY <1>6, GameSavesKeeps DEF Store!StoreNext
<1>7. ASSUME NEW name \in Names, GameDeletes(name) PROVE BackupInv' /\ Store!StoreNext
  BY <1>7, GameDeletesKeeps DEF Store!StoreNext
<1>8. QED
  BY <1>1, <1>2, <1>3, <1>4, <1>5, <1>6, <1>7 DEF BackupNext

LEMMA InvGivesBack == BackupInv => GivesBackFiles
<1>1. SUFFICES ASSUME BackupInv PROVE GivesBackFiles
  OBVIOUS
<1>2. PICK chains : Layout(memory.card, held, chains)
  BY <1>1 DEF BackupInv, MemoryInv, LaidOut
<1>3. /\ FilesOn(memory.card) = {RecordOf(held, chains, name) : name \in DOMAIN held}
      /\ \A name \in DOMAIN held : BuildFile(memory.card, RecordOf(held, chains, name)) = held[name]
  BY <1>2, FilesRead
<1>4. \A name \in DOMAIN held : RecordOf(held, chains, name).name = name
  BY DEF RecordOf, Recorded
<1>5. QED
  BY <1>3, <1>4 DEF GivesBackFiles

LEMMA InvAccounted == BackupInv => BlocksAccounted
<1>1. SUFFICES ASSUME BackupInv PROVE BlocksAccounted
  OBVIOUS
<1>2. PICK chains : Layout(memory.card, held, chains)
  BY <1>1 DEF BackupInv, MemoryInv, LaidOut
<1>3. FilesOn(memory.card) = {RecordOf(held, chains, name) : name \in DOMAIN held}
  BY <1>2, FilesRead
<1>4. \A name \in DOMAIN held : RecordOf(held, chains, name).blocks = chains[name]
  BY DEF RecordOf, Recorded
<1>5. ASSUME NEW one \in FilesOn(memory.card), NEW other \in FilesOn(memory.card), one # other
      PROVE  InList(one.blocks) \cap InList(other.blocks) = {}
  <2>1. PICK a \in DOMAIN held : one = RecordOf(held, chains, a)
    BY <1>3
  <2>2. PICK b \in DOMAIN held : other = RecordOf(held, chains, b)
    BY <1>3
  <2>3. a # b
    BY <1>5, <2>1, <2>2
  <2>4. InList(chains[a]) \cap InList(chains[b]) = {}
    BY <1>2, <2>3 DEF Layout, Apart
  <2>5. QED
    BY <2>1, <2>2, <2>4, <1>4
<1>6. ~memory.dirty => memory.files = FilesOn(memory.card) /\ memory.bitmap = BlocksOf(FilesOn(memory.card))
  BY <1>1 DEF BackupInv, MemoryInv, Listed
<1>7. QED
  BY <1>5, <1>6 DEF BlocksAccounted

LEMMA InitIs == BackupInit => BackupInv /\ Store!StoreInit
BY FormattedIs DEF BackupInit, BackupInv, Store!StoreInit

\* Each file to give back lies in a chain of blocks of its own, whose words are
\* its header, the list of its blocks and its data; the blocks flagged are those
\* that chains begin at; and the list and the bitmap are those of the card or are
\* to be built anew (backup_ram.cpp 298-483, 540-618).
THEOREM BackupInvariant == BackupSpec => []BackupInv
<1>1. BackupInit => BackupInv
  BY InitIs
<1>2. BackupInv /\ [BackupNext]_backupVars => BackupInv'
  <2>1. SUFFICES ASSUME BackupInv, [BackupNext]_backupVars PROVE BackupInv'
    OBVIOUS
  <2>2. CASE BackupNext
    BY <2>1, <2>2, StepKeeps
  <2>3. CASE UNCHANGED backupVars
    BY <2>1, <2>3 DEF backupVars, BackupInv
  <2>4. QED
    BY <2>1, <2>2, <2>3
<1>3. QED
  BY <1>1, <1>2, PTL DEF BackupSpec

\* However files are imported, overwritten, deleted, copied and saved by the
\* program, whatever blocks it saves them in, the memory gives back each as it was
\* stored, and no other (backup_ram.cpp 332, 635, 668).
THEOREM BackupGivesBack == BackupSpec => []GivesBackFiles
<1>1. QED
  BY BackupInvariant, InvGivesBack, PTL

\* No block is in two files, and a list and a bitmap that are not to be built anew
\* are those of the card (backup_ram.cpp 350-374, 540-605).
THEOREM BackupAccounts == BackupSpec => []BlocksAccounted
<1>1. QED
  BY BackupInvariant, InvAccounted, PTL

\* A card is a store of files by name: an import succeeds exactly when the blocks
\* that no other file has are enough, is refused for want of room or because the
\* file exists, and then changes no file; only a deletion, a format or a copy of
\* another memory takes a file away, and the copy has all files of the other
\* (backup_ram_defs.hpp 64-69, 113-127).
THEOREM BackupImportsThatFit == BackupSpec => ImportsThatFit
<1>1. BackupInit => Store!StoreInit
  BY InitIs
<1>2. BackupInv /\ [BackupNext]_backupVars => [Store!StoreNext]_(Store!storeVars)
  <2>1. SUFFICES ASSUME BackupInv, [BackupNext]_backupVars PROVE [Store!StoreNext]_(Store!storeVars)
    OBVIOUS
  <2>2. CASE BackupNext
    BY <2>1, <2>2, StepKeeps
  <2>3. CASE UNCHANGED backupVars
    BY <2>3 DEF backupVars, Store!storeVars
  <2>4. QED
    BY <2>1, <2>2, <2>3
<1>3. QED
  BY <1>1, <1>2, BackupInvariant, PTL DEF BackupSpec, ImportsThatFit, Store!StoreSpec
=============================================================================
