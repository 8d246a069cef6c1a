-------------------------------- MODULE OpenDb --------------------------------
(***************************************************************************)
(* Opening a database: open_path, open_v2 and the functions of the optional *)
(* tables (db.rs).  Every is_file() and every open of a file is a step of  *)
(* its own, and the files may change between any two of them.              *)
(*                                                                          *)
(* A table comes from one of its choices; a choice is the sequence of the  *)
(* files that it takes.                                                     *)
(***************************************************************************)
EXTENDS Naturals, Sequences

CONSTANTS
    Beginnings, \* what may be supplied, the files then, and how often one changes (a bound)
    OtherFiles  \* files of the directory that are not opened here

VARIABLES
    supplied,   \* the path that is opened
    disk,       \* the files of the directory: absent, intact or broken
    opening,    \* where open_v2 stands
    opened,     \* the choice that each table came from, NoTable for none
    left,       \* number of changes of a file that are still to come
    disks       \* history: what the directory was since it is being opened

openVars == <<supplied, disk, opening, opened, left, disks>>

NoTable == 0

Tables == <<"records", "hci", "us_csv", "countries", "pc_countries", "country_names",
            "interests">>

\* open_countries tries `countrys' and then `gcmcountrys'.
Alternatives ==
    [records |-> <<<<"hamcall.idx", "hamcall.dat">>>>, hci |-> <<<<"hci.idx", "hci.dat">>>>,
     us_csv |-> <<<<"usa.csv.zip">>>>, countries |-> <<<<"countrys">>, <<"gcmcountrys">>>>,
     pc_countries |-> <<<<"COUNTRYS.PC">>>>, country_names |-> <<<<"countrys.nam">>>>,
     interests |-> <<<<"interest">>>>]

TableName == DOMAIN Alternatives
FilesOf(t, c) == {Alternatives[t][c][i] : i \in DOMAIN Alternatives[t][c]}
OpenedFiles == UNION {UNION {FilesOf(t, c) : c \in DOMAIN Alternatives[t]} : t \in TableName}
File == OpenedFiles \cup OtherFiles
FileState == {"absent", "intact", "broken"}
Disk == [File -> FileState]

ASSUME BeginningsAssumption ==
    \A b \in Beginnings : b.disk \in Disk /\ b.changes \in Nat

-----------------------------------------------------------------------------
\* A path: whether it is a directory, whether its own name is ham0 in any case,
\* and the names of the directories in it that are ham0 in some case.
PathType == [is_dir : BOOLEAN, named : BOOLEAN, children : SUBSET {"ham0", "Ham0", "HAM0"}]

resolve_v2_dir(path) == path.named \/ path.children \cap {"ham0", "HAM0"} # {}

Step(at, table, choice, file) ==
    [at |-> at, table |-> table, choice |-> choice, file |-> file, error |-> "none"]
Failed(error) == [Step("done", 1, 1, 1) EXCEPT !.error = error]

\* The next table, if there is one.
After(table) ==
    IF table = Len(Tables) THEN Step("done", 1, 1, 1) ELSE Step("checking", table + 1, 1, 1)

ThisChoice == Alternatives[Tables[opening.table]][opening.choice]
ThisFile == ThisChoice[opening.file]

\* open_path and the beginning of open_v2.
OpenPath ==
    /\ opening.at = "start"
    /\ opening' = IF ~supplied.is_dir THEN Failed("DataPathNotFound")
                  ELSE IF ~resolve_v2_dir(supplied) THEN Failed("NoDataFiles")
                  ELSE Step("checking", 1, 1, 1)
    /\ disks' = {disk}
    /\ UNCHANGED <<supplied, disk, opened, left>>

\* is_file() of a file that is there: the choice is taken when all its files are there.
CheckPresent ==
    /\ opening.at = "checking" /\ disk[ThisFile] # "absent"
    /\ opening' = IF opening.file < Len(ThisChoice)
                  THEN [opening EXCEPT !.file = @ + 1]
                  ELSE [opening EXCEPT !.at = "reading", !.file = 1]
    /\ UNCHANGED <<supplied, disk, opened, left, disks>>

\* is_file() of a file that is not: the next choice, or no table.
CheckAbsent ==
    /\ opening.at = "checking" /\ disk[ThisFile] = "absent"
    /\ opening' = IF opening.choice < Len(Alternatives[Tables[opening.table]])
                  THEN Step("checking", opening.table, opening.choice + 1, 1)
                  ELSE IF Tables[opening.table] = "records" THEN Failed("NoDataFiles")
                  ELSE After(opening.table)
    /\ UNCHANGED <<supplied, disk, opened, left, disks>>

\* Deviation: a choice whose file has gone since it was checked is no table.
ReadOrSkip ==
    /\ opening.at = "reading"
    /\ IF disk[ThisFile] = "broken"
       THEN opening' = Failed("Io") /\ UNCHANGED opened
       ELSE IF opening.file < Len(ThisChoice)
       THEN opening' = [opening EXCEPT !.file = @ + 1] /\ UNCHANGED opened
       ELSE /\ opening' = After(opening.table)
            /\ opened' = [opened EXCEPT ![Tables[opening.table]] =
                              IF disk[ThisFile] = "intact" THEN opening.choice ELSE NoTable]
    /\ UNCHANGED <<supplied, disk, left, disks>>

\* Opening and parsing a file: `?' gives up the whole database.
Read ==
    /\ opening.at = "reading"
    /\ IF disk[ThisFile] # "intact"
       THEN opening' = Failed("Io") /\ UNCHANGED opened
       ELSE IF opening.file < Len(ThisChoice)
       THEN opening' = [opening EXCEPT !.file = @ + 1] /\ UNCHANGED opened
       ELSE /\ opening' = After(opening.table)
            /\ opened' = [opened EXCEPT ![Tables[opening.table]] = opening.choice]
    /\ UNCHANGED <<supplied, disk, left, disks>>

\* Somebody creates, breaks, replaces or removes a file meanwhile.
ChangeFile ==
    /\ opening.at \in {"checking", "reading"}
    /\ left > 0 /\ left' = left - 1
    /\ \E f \in OpenedFiles, now \in FileState :
          now # disk[f] /\ disk' = [disk EXCEPT ![f] = now]
    /\ disks' = disks \cup {disk'}
    /\ UNCHANGED <<supplied, opening, opened>>

OpenInit(b) ==
    /\ supplied = b.supplied /\ disk = b.disk /\ left = b.changes
    /\ opening = Step("start", 1, 1, 1)
    /\ opened = [t \in TableName |-> NoTable]
    /\ disks = {disk}

OpenNext == OpenPath \/ CheckPresent \/ CheckAbsent \/ Read \/ ChangeFile

-----------------------------------------------------------------------------
IsOpen == opening.at = "done" /\ opening.error = "none"

\* The tables that a directory holds: of each the first choice that is there.
Held(d) ==
    [t \in TableName |->
        LET there == {c \in DOMAIN Alternatives[t] : \A f \in FilesOf(t, c) : d[f] # "absent"}
        IN IF there = {} THEN NoTable ELSE CHOOSE c \in there : \A e \in there : c <= e]
Whole(d) ==
    \A t \in TableName : Held(d)[t] # NoTable =>
        \A f \in FilesOf(t, Held(d)[t]) : d[f] = "intact"

\* What opening a directory that stays as it is amounts to: any broken file that belongs to
\* a table fails the open, except that without the records nothing else matters.
OpensTo(d, error, tables) ==
    CASE ~supplied.is_dir -> error = "DataPathNotFound"
      [] supplied.is_dir /\ (~resolve_v2_dir(supplied) \/ Held(d)["records"] = NoTable)
            -> error = "NoDataFiles"
      [] OTHER -> IF Whole(d) THEN error = "none" /\ tables = Held(d) ELSE error = "Io"

\* A file that was there when it was looked for is gone when it is opened.
Vanished ==
    \E f \in OpenedFiles, before, after \in disks : before[f] # "absent" /\ after[f] = "absent"

\* Although every file is looked for and opened at another moment, a database is opened as
\* if from the directory at one moment, when no more than one file changes meanwhile: it has
\* all the tables of the directory and no other, or it is refused for what was wrong with
\* the directory then; only a file that goes away may fail the open without such a moment.
OpenedAsAtOneMoment ==
    opening.at = "done" =>
        \/ \E d \in disks : OpensTo(d, opening.error, opened)
        \/ opening.error = "Io" /\ Vanished
=============================================================================
