---------------------------- MODULE EmFileImport ----------------------------
(***************************************************************************)
(* Installing files (EmFileImport.cpp) from a list of them, by             *)
(* LoadPalmFileList or by the dialog with the progress bar and its Cancel  *)
(* button (PrvDatabaseImport in EmDlg.cpp).  A file becomes a database on  *)
(* the device through ROM calls of the Database Manager, each of which may *)
(* fail; the Exchange Manager is not used (PrvCanUseExgMgr).               *)
(*                                                                         *)
(* A step of IncrementalInstall is one action: Continue returns after any  *)
(* of them, when its 100 ms are over.                                      *)
(***************************************************************************)
EXTENDS Naturals, Sequences

CONSTANTS
  Names,       \* names of databases
  MaxFiles,    \* bound on the files of a list
  MaxEntries,  \* bound on the resources or records of a file
  Faults       \* of {"delete", "create", "open", "entry", "end", "stream"}: the ROM calls that may
               \* fail, and the opening of a file of the list

ASSUME ImportAssumption == MaxFiles \in Nat /\ MaxEntries \in Nat

Files == [name : Names, entries : 0 .. MaxEntries, valid : BOOLEAN]
Absent == [of |-> 0, entries |-> 0, open |-> FALSE]
\* A database that was there before, which an application may have open.
Earlier(open) == [of |-> MaxFiles + 1, entries |-> 0, open |-> open]
NoImporter == [fState |-> "none", fError |-> FALSE, fDBID |-> FALSE, fOpenID |-> FALSE, fCurrentEntry |-> 0]
NewImporter == [NoImporter EXCEPT !.fState = "kInstallStart"]

VARIABLES
  by,          \* who installs: nobody, LoadPalmFileList or the dialog
  fFiles, fCurrentFile,
  fImporter,   \* whether it failed, has a database and has it open, and its place in the file
  dbs,         \* on the device: the file a database was made from (0: there is none), how much of it
  succeeded    \* the files whose installation ended without an error

importVars == <<by, fFiles, fCurrentFile, fImporter, dbs, succeeded>>

Current == fFiles[fCurrentFile]

ImportTypeOK ==
  /\ by \in {"nobody", "list", "dialog"}
  /\ fFiles \in UNION {[1 .. n -> Files] : n \in 0 .. MaxFiles}
  /\ fCurrentFile \in 0 .. MaxFiles + 1
  /\ fImporter.fState \in {"none", "kInstallStart", "kInstallMiddle", "kInstallEnd", "kInstallDone"}
  /\ fImporter.fCurrentEntry \in 0 .. MaxEntries
  /\ dbs \in [Names -> [of : 0 .. MaxFiles + 1, entries : 0 .. MaxEntries, open : BOOLEAN]]
  /\ succeeded \subseteq DOMAIN fFiles

ImportInit ==
  /\ by = "nobody" /\ fFiles = << >> /\ fCurrentFile = 0
  /\ fImporter = NoImporter
  /\ dbs \in [Names -> {Absent, Earlier(FALSE), Earlier(TRUE)}] /\ succeeded = {}

-----------------------------------------------------------------------------
\* DmDeleteDatabase; an open database cannot be deleted.
Deleted(d, n) == IF d[n].open THEN d ELSE [d EXCEPT ![n] = Absent]

DeleteOpenDatabase(d, imp) ==      \* mutant: it is not closed first
  IF imp.fDBID THEN Deleted(d, Current.name) ELSE d

DeleteCurrentDatabase(d, imp) ==
  LET closed == IF imp.fOpenID THEN [d EXCEPT ![Current.name].open = FALSE] ELSE d
  IN IF imp.fDBID THEN Deleted(closed, Current.name) ELSE closed

\* The exits of a step that fails, and Continue: an error is the end.
Failed == fImporter' = [fImporter EXCEPT !.fState = "kInstallDone", !.fError = TRUE,
                                         !.fDBID = FALSE, !.fOpenID = FALSE]

May(fault) == fault \in Faults

\* ValidateStream, the old database deleted, the new one created and opened, its appInfo block.
HomeBrewInstallStart ==
  /\ fImporter.fState = "kInstallStart"
  /\ LET old     == dbs[Current.name]
         without == Deleted(dbs, Current.name)
         created == [dbs EXCEPT ![Current.name] = [of |-> fCurrentFile, entries |-> 0, open |-> FALSE]]
         opened  == [created EXCEPT ![Current.name].open = TRUE]
     IN \/ ~Current.valid /\ Failed /\ UNCHANGED dbs
        \/ /\ Current.valid /\ old.of # 0 /\ (old.open \/ May("delete"))
           /\ Failed /\ UNCHANGED dbs
        \/ /\ Current.valid /\ ~old.open
           /\ \/ May("create") /\ Failed /\ dbs' = without
              \/ /\ May("open") /\ Failed
                 /\ \/ dbs' = DeleteCurrentDatabase(created, [fDBID |-> TRUE, fOpenID |-> FALSE])
                    \/ dbs' = DeleteCurrentDatabase(opened, [fDBID |-> TRUE, fOpenID |-> TRUE])
              \/ /\ fImporter' = [fImporter EXCEPT
                       !.fState = IF Current.entries > 0 THEN "kInstallMiddle" ELSE "kInstallEnd",
                       !.fDBID = TRUE, !.fOpenID = TRUE]
                 /\ dbs' = opened
  /\ UNCHANGED <<by, fFiles, fCurrentFile, succeeded>>

\* One resource or record.
HomeBrewInstallMiddle ==
  /\ fImporter.fState = "kInstallMiddle"
  /\ \/ /\ May("entry") /\ Failed
        /\ dbs' = DeleteCurrentDatabase(dbs, fImporter)
     \/ /\ fImporter' = [fImporter EXCEPT
              !.fCurrentEntry = @ + 1,
              !.fState = IF fImporter.fCurrentEntry + 1 >= Current.entries THEN "kInstallEnd" ELSE @]
        /\ dbs' = [dbs EXCEPT ![Current.name].entries = @ + 1]
  /\ UNCHANGED <<by, fFiles, fCurrentFile, succeeded>>

\* When the last ROM call fails, the database is neither closed nor deleted.
HomeBrewInstallEnd ==
  /\ fImporter.fState = "kInstallEnd"
  /\ \/ May("end") /\ fImporter' = [fImporter EXCEPT !.fState = "kInstallDone", !.fError = TRUE] /\ UNCHANGED dbs
     \/ /\ fImporter' = [fImporter EXCEPT !.fState = "kInstallDone", !.fOpenID = FALSE]
        /\ dbs' = [dbs EXCEPT ![Current.name].open = FALSE]
  /\ UNCHANGED <<by, fFiles, fCurrentFile, succeeded>>

-----------------------------------------------------------------------------
\* LoadPalmFileList or the dialog, with the CPU thread stopped at a system call.
Import(caller) ==
  /\ by = "nobody" /\ fFiles = << >> /\ by' = caller
  /\ \E n \in 1 .. MaxFiles : fFiles' \in [1 .. n -> Files]
  /\ fCurrentFile' = 1 /\ fImporter' = NewImporter
  /\ UNCHANGED <<dbs, succeeded>>

\* On to the next file.  After an error LoadPalmFileList makes importers for the other files and
\* never continues them; the dialog reports the error and goes on.  A file that cannot be opened
\* ends either, in silence.
NextFile ==
  /\ fImporter.fState = "kInstallDone"
  /\ succeeded' = IF fImporter.fError THEN succeeded ELSE succeeded \union {fCurrentFile}
  /\ IF fCurrentFile = Len(fFiles) \/ (by = "list" /\ fImporter.fError)
     THEN fImporter' = NoImporter /\ by' = "nobody" /\ UNCHANGED fCurrentFile
     ELSE /\ fCurrentFile' = fCurrentFile + 1
          /\ \/ fImporter' = NewImporter /\ UNCHANGED by
             \/ May("stream") /\ fImporter' = NoImporter /\ by' = "nobody"
  /\ UNCHANGED <<fFiles, dbs>>

\* The Cancel button, between two calls of Continue.
Cancel ==
  /\ by = "dialog" /\ fImporter.fState \in {"kInstallStart", "kInstallMiddle", "kInstallEnd"}
  /\ dbs' = DeleteCurrentDatabase(dbs, fImporter)
  /\ fImporter' = NoImporter /\ by' = "nobody"
  /\ UNCHANGED <<fFiles, fCurrentFile, succeeded>>

ImportNext ==
  \/ \E caller \in {"list", "dialog"} : Import(caller)
  \/ HomeBrewInstallStart \/ HomeBrewInstallMiddle \/ HomeBrewInstallEnd
  \/ NextFile \/ Cancel

ImportSpec == ImportInit /\ [][ImportNext]_importVars

-----------------------------------------------------------------------------
\* "Clean up any partially installed file": however an installation ends, by an error, by Cancel or
\* by itself, no database holds a part of a file; one that is still open was never reported as
\* installed (the last ROM call failed); and each file that was reported is there, unless a later
\* one of the list had its name.
WholeOrNothing ==
  by = "nobody" =>
    /\ \A n \in Names : dbs[n].of \in DOMAIN fFiles =>
         /\ dbs[n].entries = fFiles[dbs[n].of].entries
         /\ dbs[n].open => dbs[n].of \notin succeeded
    /\ \A i \in succeeded : \/ dbs[fFiles[i].name].of = i
                            \/ \E j \in (i + 1) .. fCurrentFile : fFiles[j].name = fFiles[i].name
=============================================================================
