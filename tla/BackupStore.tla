---------------------------- MODULE BackupStore ----------------------------
(***************************************************************************)
(* What a backup memory promises (IBackupMemory in backup_ram_defs.hpp): a *)
(* store of files by name with room for a number of blocks.                *)
(***************************************************************************)
EXTENDS Integers, FiniteSets

CONSTANTS
    Names,          \* names of files
    Contents,       \* what a file may hold
    Capacity,       \* blocks
    Cost,           \* the blocks that each content takes
    Cards           \* lists of files of other memories

VARIABLES
    stored,         \* the files: content by name
    result          \* of the last import; "Copied" after CopyFrom; "none" otherwise

storeVars == <<stored, result>>

Without(files, name) == [other \in DOMAIN files \ {name} |-> files[other]]
With(files, name, content) ==
    [other \in DOMAIN files \cup {name} |-> IF other = name THEN content ELSE files[other]]

\* The blocks that files take, each numbered within its file.
Taken(files) == UNION {{name} \X (1 .. Cost[files[name]]) : name \in DOMAIN files}

Room(files) == Capacity - Cardinality(Taken(files))
Fits(name, content) == Cost[content] <= Room(Without(stored, name))

StoreFile(name, content, overwrite) ==
    \/ /\ name \in DOMAIN stored => overwrite
       /\ Fits(name, content)
       /\ stored' = With(stored, name, content)
       /\ result' = IF name \in DOMAIN stored THEN "Overwritten" ELSE "Imported"
    \/ /\ name \in DOMAIN stored /\ ~overwrite
       /\ result' = "FileExists"
       /\ UNCHANGED stored
    \/ /\ name \in DOMAIN stored => overwrite
       /\ ~Fits(name, content)
       /\ result' = "NoSpace"
       /\ UNCHANGED stored

\* By the program that uses the memory, by Delete, or by Format; or none at all.
Change ==
    /\ result' = "none"
    /\ \/ UNCHANGED stored
       \/ stored' = <<>>
       \/ \E name \in Names : stored' = Without(stored, name)
       \/ \E name \in Names, content \in Contents :
              Fits(name, content) /\ stored' = With(stored, name, content)

\* Filled with the files of another memory, all of them.
Replace ==
    /\ \E files \in Cards :
        /\ DOMAIN stored' = {files[i].name : i \in DOMAIN files}
        /\ stored' = [name \in DOMAIN stored' |-> stored'[name]]
        /\ \A i \in DOMAIN files : stored'[files[i].name] = files[i].content
    /\ result' = "Copied"

StoreInit == stored = <<>> /\ result = "none"

StoreNext ==
    \/ Change
    \/ \E name \in Names, content \in Contents, overwrite \in BOOLEAN :
           StoreFile(name, content, overwrite)
    \/ Replace

StoreSpec == StoreInit /\ [][StoreNext]_storeVars
=============================================================================
