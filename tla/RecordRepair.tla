---------------------------- MODULE RecordRepair ----------------------------
(***************************************************************************)
(* The startup repair of archive records whose file is gone                 *)
(* (repair_zombie_archives, lanrurugi-server/src/main.rs), over the library  *)
(* directory, the records and the filemap of the module that uses it.        *)
(***************************************************************************)
EXTENDS FiniteSets

CONSTANTS Names,     \* file names in the library directory
          Contents,  \* contents of files, hence archive ids
          Nothing    \* no file, no record, no filemap entry

VARIABLES disk,      \* the library directory: name -> content
          record,    \* the archive records: id -> [file, name]
          filemap    \* LRR_FILEMAP: name -> id

Exists(i) == record[i] # Nothing
OnDisk(n) == disk[n] # Nothing

Zombies == {i \in Contents : Exists(i) /\ (record[i].file = Nothing \/ ~OnDisk(record[i].file))}

\* The candidate is the record's name in the library directory.
Repairable == {i \in Zombies : record[i].name \in Names /\ OnDisk(record[i].name)}

Filed == {i \in Contents : Exists(i) /\ record[i].file # Nothing}
LibraryMissing == Filed # {} /\ Filed \subseteq Zombies

Doomed == {i \in Zombies \ Repairable : ~(LibraryMissing /\ record[i].file # Nothing)}

\* The records in `dropped' are deleted, the files of those in `unmapped' leave
\* the filemap, the records in `repaired' get the candidate as their file.
RepairStore(dropped, unmapped, repaired) ==
  LET moved == {i \in repaired : record[i].file # Nothing}
      gone  == {record[i].file : i \in unmapped \union moved} \ {Nothing}
  IN /\ record' = [i \in Contents |->
                     IF i \in dropped THEN Nothing
                     ELSE IF i \in repaired THEN [record[i] EXCEPT !.file = record[i].name]
                     ELSE record[i]]
     /\ filemap' = [n \in Names |->
                      IF \E i \in moved : record[i].name = n
                      THEN CHOOSE i \in moved : record[i].name = n
                      ELSE IF n \in gone THEN Nothing ELSE filemap[n]]
=============================================================================
