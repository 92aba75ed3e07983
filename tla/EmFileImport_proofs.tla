------------------------- MODULE EmFileImport_proofs -------------------------
(***************************************************************************)
(* What is proved of EmFileImport: for any lists of files, with any names  *)
(* and lengths, whichever ROM calls fail and whenever the user cancels, no *)
(* part of a file is left on the device.                                   *)
(***************************************************************************)
EXTENDS EmFileImport, SequenceTheorems, TLAPS

Dbs == [of : 0 .. MaxFiles + 1, entries : 0 .. MaxEntries, open : BOOLEAN]
Importers == [fState : {"none", "kInstallStart", "kInstallMiddle", "kInstallEnd", "kInstallDone"},
              fError : BOOLEAN, fDBID : BOOLEAN, fOpenID : BOOLEAN, fCurrentEntry : 0 .. MaxEntries]

Types ==
  /\ by \in {"nobody", "list", "dialog"}
  /\ fFiles \in Seq(Files) /\ Len(fFiles) <= MaxFiles
  /\ fCurrentFile \in 0 .. Len(fFiles)
  /\ fImporter \in Importers
  /\ dbs \in [Names -> Dbs]

\* The file of the importer is being written.
Writing == fImporter.fState \in {"kInstallMiddle", "kInstallEnd"}

\* What the importer knows of the database agrees with the device.
ImporterTracks ==
  /\ by = "nobody" <=> fImporter.fState = "none"
  /\ by # "nobody" => fCurrentFile > 0
  /\ fImporter.fState = "kInstallStart" => fImporter = NewImporter
  /\ Writing =>
       /\ fImporter.fDBID /\ fImporter.fOpenID /\ ~fImporter.fError
       /\ dbs[Current.name] = [of |-> fCurrentFile, entries |-> fImporter.fCurrentEntry, open |-> TRUE]
  /\ fImporter.fState = "kInstallMiddle" => fImporter.fCurrentEntry < Current.entries
  /\ fImporter.fState = "kInstallEnd" => fImporter.fCurrentEntry = Current.entries
  /\ fImporter.fState = "kInstallDone" /\ ~fImporter.fError =>
       dbs[Current.name].of = fCurrentFile /\ ~dbs[Current.name].open

\* A database made from a file of the list is the whole of it, but for the one being written.
WholeAt(n) ==
  dbs[n].of \in 1 .. Len(fFiles) =>
    /\ dbs[n].of <= fCurrentFile
    /\ fFiles[dbs[n].of].name = n
    /\ dbs[n].of = fCurrentFile => fImporter.fState # "kInstallStart"
    /\ dbs[n].entries = fFiles[dbs[n].of].entries \/ (Writing /\ n = Current.name)
    /\ dbs[n].open => dbs[n].of \notin succeeded

\* What was reported is there, unless it was replaced by a later file of its name.
Kept(i) ==
  \/ dbs[fFiles[i].name].of = i
  \/ \E j \in (i + 1) .. fCurrentFile : fFiles[j].name = fFiles[i].name

Reported ==
  \A i \in succeeded : /\ i \in 1 .. fCurrentFile /\ (i = fCurrentFile => by = "nobody")
                       /\ Kept(i)

\* Until a list is given, the device holds none of its files.
NoneYet == fFiles = << >> => \A n \in Names : dbs[n].of \in {0, MaxFiles + 1}

IInv ==
  /\ Types
  /\ ImporterTracks
  /\ \A n \in Names : WholeAt(n)
  /\ Reported
  /\ NoneYet

-----------------------------------------------------------------------------
LEMMA ListType ==
  ASSUME NEW n \in 0 .. MaxFiles, NEW s \in [1 .. n -> Files]
  PROVE  s \in Seq(Files) /\ Len(s) = n /\ DOMAIN s = 1 .. Len(s)
<1>1. n \in Nat
  BY ImportAssumption
<1> QED
  BY <1>1

LEMMA CurrentType ==
  ASSUME Types, fCurrentFile > 0
  PROVE  /\ fCurrentFile \in 1 .. Len(fFiles) /\ fCurrentFile \in 1 .. MaxFiles
         /\ Len(fFiles) \in Nat
         /\ Current \in Files /\ Current.name \in Names
         /\ Current.entries \in 0 .. MaxEntries
<1>1. Len(fFiles) \in Nat /\ fFiles \in Seq(Files)
  BY LenProperties DEF Types
<1>2. fCurrentFile \in 1 .. Len(fFiles) /\ fCurrentFile \in 1 .. MaxFiles
  BY <1>1, ImportAssumption DEF Types
<1>3. Current \in Files
  BY <1>1, <1>2, ElementOfSeq DEF Current
<1> QED
  BY <1>1, <1>2, <1>3 DEF Files

LEMMA AbsentType ==
  ASSUME NEW d \in [Names -> Dbs], NEW n \in Names
  PROVE  [d EXCEPT ![n] = Absent] \in [Names -> Dbs]
BY ImportAssumption DEF Absent, Dbs

LEMMA SameDb ==
  ASSUME NEW r \in Dbs, NEW s \in Dbs, r.of = s.of, r.entries = s.entries, r.open = s.open
  PROVE  r = s
BY DEF Dbs

LEMMA DbUpdates ==
  ASSUME NEW r \in Dbs
  PROVE  /\ r.entries + 1 \in 0 .. MaxEntries =>
              LET s == [r EXCEPT !.entries = @ + 1]
              IN  s \in Dbs /\ s.of = r.of /\ s.entries = r.entries + 1 /\ s.open = r.open
         /\ LET s == [r EXCEPT !.open = FALSE]
            IN  s \in Dbs /\ s.of = r.of /\ s.entries = r.entries /\ s.open = FALSE
BY DEF Dbs

LEMMA ImporterTypes ==
  /\ NoImporter \in Importers /\ NoImporter.fState = "none"
  /\ NewImporter \in Importers /\ NewImporter.fState = "kInstallStart"
<1>1. NoImporter \in Importers /\ NoImporter.fState = "none"
  BY ImportAssumption DEF NoImporter, Importers
<1>2. ASSUME NEW r \in Importers
      PROVE  LET s == [r EXCEPT !.fState = "kInstallStart"]
             IN  s \in Importers /\ s.fState = "kInstallStart"
  BY DEF Importers
<1> QED
  BY <1>1, <1>2 DEF NewImporter

\* DeleteCurrentDatabase takes the database away, closing it first.
LEMMA DeleteCurrent ==
  ASSUME NEW d \in [Names -> Dbs], NEW imp, Current.name \in Names,
         imp.fDBID = TRUE, imp.fOpenID = d[Current.name].open
  PROVE  DeleteCurrentDatabase(d, imp) = [d EXCEPT ![Current.name] = Absent]
<1> DEFINE n == Current.name
           closed == IF imp.fOpenID THEN [d EXCEPT ![n].open = FALSE] ELSE d
<1>1. DeleteCurrentDatabase(d, imp) = Deleted(closed, n)
  BY DEF DeleteCurrentDatabase
<1>2. d[n] \in Dbs
  OBVIOUS
<1>3. closed[n].open = FALSE
  <2>1. CASE imp.fOpenID
    <3>1. closed = [d EXCEPT ![n] = [d[n] EXCEPT !.open = FALSE]]
      BY <2>1
    <3> QED
      BY <1>2, <3>1 DEF Dbs
  <2>2. CASE ~imp.fOpenID
    BY <1>2, <2>2 DEF Dbs
  <2> QED
    BY <2>1, <2>2
<1>4. Deleted(closed, n) = [closed EXCEPT ![n] = Absent]
  BY <1>3 DEF Deleted
<1>5. [closed EXCEPT ![n] = Absent] = [d EXCEPT ![n] = Absent]
  OBVIOUS
<1> QED
  BY <1>1, <1>4, <1>5

\* The installer works on the database of the current file only: the others stay whole, and what
\* was reported stays or is replaced.
LEMMA OthersKept ==
  ASSUME IInv, by # "nobody", UNCHANGED <<fFiles, fCurrentFile, succeeded>>,
         \A n \in Names : n # Current.name => dbs'[n] = dbs[n],
         WholeAt(Current.name)'
  PROVE  (\A n \in Names : WholeAt(n)') /\ Reported'
<1>0. fCurrentFile > 0
  BY DEF IInv, ImporterTracks
<1>1. /\ fCurrentFile \in 1 .. Len(fFiles) /\ Len(fFiles) \in Nat
      /\ Current.name \in Names /\ Current' = Current
  BY <1>0, CurrentType DEF IInv, Current
<1>2. ASSUME NEW n \in Names, n # Current.name PROVE WholeAt(n)'
  <2>1. WholeAt(n) /\ dbs'[n] = dbs[n]
    BY <1>2 DEF IInv
  <2>2. dbs[n].of \in 1 .. Len(fFiles) => dbs[n].of # fCurrentFile
    BY <1>2, <2>1 DEF WholeAt, Current
  <2> QED
    BY <1>1, <1>2, <2>1, <2>2 DEF WholeAt
<1>3. ASSUME NEW n \in Names, n = Current.name PROVE WholeAt(n)'
  BY <1>1, <1>3 DEF WholeAt
<1>4. Reported'
  <2> SUFFICES ASSUME NEW i \in succeeded
               PROVE  /\ i \in 1 .. fCurrentFile /\ (i = fCurrentFile => by' = "nobody")
                      /\ Kept(i)'
    BY DEF Reported
  <2>1. i \in 1 .. fCurrentFile /\ i # fCurrentFile /\ Kept(i)
    BY DEF IInv, Reported
  <2>2. fFiles[i] \in Files
    BY <1>1, <2>1, ElementOfSeq DEF IInv, Types
  <2>3. Kept(i)'
    <3>1. CASE fFiles[i].name = Current.name
      <4>1. fCurrentFile \in (i + 1) .. fCurrentFile
        BY <1>1, <2>1
      <4> QED
        BY <3>1, <4>1 DEF Kept, Current
    <3>2. CASE fFiles[i].name # Current.name
      <4>1. dbs'[fFiles[i].name] = dbs[fFiles[i].name]
        BY <2>2, <3>2 DEF Files
      <4> QED
        BY <2>1, <4>1 DEF Kept
    <3> QED
      BY <3>1, <3>2
  <2> QED
    BY <2>1, <2>3
<1> QED
  BY <1>2, <1>3, <1>4

LEMMA ListGiven ==
  ASSUME IInv, by # "nobody", UNCHANGED fFiles
  PROVE  NoneYet'
<1>1. fCurrentFile \in 1 .. Len(fFiles) /\ Len(fFiles) \in Nat
  BY CurrentType DEF IInv, ImporterTracks
<1> QED
  BY <1>1, EmptySeq DEF NoneYet

-----------------------------------------------------------------------------
LEMMA StartStep ==
  ASSUME IInv, HomeBrewInstallStart
  PROVE  IInv'
<1> DEFINE n == Current.name
           created == [dbs EXCEPT ![n] = [of |-> fCurrentFile, entries |-> 0, open |-> FALSE]]
           opened  == [created EXCEPT ![n].open = TRUE]
<1>0. /\ fImporter = NewImporter /\ fImporter.fState = "kInstallStart"
      /\ by # "nobody" /\ fCurrentFile > 0
      /\ UNCHANGED <<by, fFiles, fCurrentFile, succeeded>>
  BY DEF HomeBrewInstallStart, IInv, ImporterTracks
<1>1. /\ fCurrentFile \in 1 .. Len(fFiles) /\ fCurrentFile \in 1 .. MaxFiles
      /\ Len(fFiles) \in Nat
      /\ n \in Names /\ Current \in Files /\ Current' = Current
      /\ dbs \in [Names -> Dbs]
      /\ WholeAt(n) /\ fCurrentFile \notin succeeded
  BY <1>0, CurrentType DEF IInv, Types, Current, Reported
<1>2. dbs[n].of # fCurrentFile
  BY <1>0, <1>1 DEF WholeAt
<1>3. created \in [Names -> Dbs] /\ created[n].open = FALSE
  BY <1>1, ImportAssumption DEF Dbs
<1>4. /\ opened \in [Names -> Dbs]
      /\ opened[n] = [of |-> fCurrentFile, entries |-> 0, open |-> TRUE]
      /\ \A m \in Names : m # n => opened[m] = dbs[m]
  <2>1. opened = [dbs EXCEPT ![n] = [of |-> fCurrentFile, entries |-> 0, open |-> TRUE]]
    BY <1>1
  <2> QED
    BY <1>1, <2>1, ImportAssumption DEF Dbs
<1>5. /\ DeleteCurrentDatabase(created, [fDBID |-> TRUE, fOpenID |-> FALSE]) = [dbs EXCEPT ![n] = Absent]
      /\ DeleteCurrentDatabase(opened, [fDBID |-> TRUE, fOpenID |-> TRUE]) = [dbs EXCEPT ![n] = Absent]
  <2> DEFINE i1 == [fDBID |-> TRUE, fOpenID |-> FALSE]
             i2 == [fDBID |-> TRUE, fOpenID |-> TRUE]
  <2>1. DeleteCurrentDatabase(created, i1) = [created EXCEPT ![n] = Absent]
    <3> HIDE DEF created
    <3> QED
      BY <1>1, <1>3, DeleteCurrent
  <2>2. DeleteCurrentDatabase(opened, i2) = [opened EXCEPT ![n] = Absent]
    <3>1. i2.fDBID = TRUE /\ i2.fOpenID = TRUE /\ opened[n].open = TRUE
      <4> HIDE DEF opened
      <4> QED
        BY <1>4
    <3> HIDE DEF opened, i2
    <3> QED
      BY <1>1, <1>4, <3>1, DeleteCurrent
  <2>3. [created EXCEPT ![n] = Absent] = [dbs EXCEPT ![n] = Absent]
    OBVIOUS
  <2>4. [opened EXCEPT ![n] = Absent] = [dbs EXCEPT ![n] = Absent]
    OBVIOUS
  <2> QED
    BY <2>1, <2>2, <2>3, <2>4
<1>6. \/ Failed /\ (UNCHANGED dbs \/ dbs' = [dbs EXCEPT ![n] = Absent])
      \/ /\ fImporter' = [fImporter EXCEPT
                !.fState = IF Current.entries > 0 THEN "kInstallMiddle" ELSE "kInstallEnd",
                !.fDBID = TRUE, !.fOpenID = TRUE]
         /\ dbs' = opened
  <2>1. ~dbs[n].open => Deleted(dbs, n) = [dbs EXCEPT ![n] = Absent]
    BY DEF Deleted
  <2> QED
    BY <1>5, <2>1 DEF HomeBrewInstallStart
<1> HIDE DEF created, opened
<1>7. CASE Failed /\ (UNCHANGED dbs \/ dbs' = [dbs EXCEPT ![n] = Absent])
  <2>1. /\ fImporter' \in Importers
        /\ fImporter'.fState = "kInstallDone" /\ fImporter'.fError
    BY <1>0, <1>7 DEF Failed, IInv, Types, Importers
  <2>2. dbs' \in [Names -> Dbs]
    BY <1>1, <1>7, AbsentType
  <2>3. \A m \in Names : m # n => dbs'[m] = dbs[m]
    BY <1>1, <1>7
  <2>4. WholeAt(n)'
    <3>1. dbs'[n] = dbs[n] \/ dbs'[n].of = 0
      BY <1>1, <1>7 DEF Absent
    <3> QED
      BY <1>0, <1>1, <2>1, <3>1 DEF WholeAt, Writing
  <2>5. (\A m \in Names : WholeAt(m)') /\ Reported'
    BY <1>0, <2>3, <2>4, OthersKept
  <2>6. Types' /\ ImporterTracks'
    BY <1>0, <2>1, <2>2 DEF IInv, Types, ImporterTracks, Writing
  <2> QED
    BY <1>0, <2>5, <2>6, ListGiven DEF IInv
<1>8. CASE /\ fImporter' = [fImporter EXCEPT
                !.fState = IF Current.entries > 0 THEN "kInstallMiddle" ELSE "kInstallEnd",
                !.fDBID = TRUE, !.fOpenID = TRUE]
           /\ dbs' = opened
  <2>1. /\ fImporter' \in Importers
        /\ fImporter'.fState = IF Current.entries > 0 THEN "kInstallMiddle" ELSE "kInstallEnd"
        /\ fImporter'.fDBID /\ fImporter'.fOpenID /\ ~fImporter'.fError
        /\ fImporter'.fCurrentEntry = 0
    BY <1>0, <1>8 DEF IInv, Types, Importers, NewImporter, NoImporter
  <2>2. Writing'
    BY <2>1 DEF Writing
  <2>3. WholeAt(n)'
    BY <1>0, <1>1, <1>4, <1>8, <2>1, <2>2 DEF WholeAt, Current
  <2>4. (\A m \in Names : WholeAt(m)') /\ Reported'
    BY <1>0, <1>4, <1>8, <2>3, OthersKept
  <2>5. Types' /\ ImporterTracks'
    BY <1>0, <1>1, <1>4, <1>8, <2>1 DEF IInv, Types, ImporterTracks, Files
  <2> QED
    BY <1>0, <2>4, <2>5, ListGiven DEF IInv
<1> QED
  BY <1>6, <1>7, <1>8

\* What the steps that find the file under way have in common.
LEMMA UnderWay ==
  ASSUME IInv, Writing
  PROVE  /\ by # "nobody" /\ fCurrentFile > 0
         /\ fCurrentFile \in 1 .. Len(fFiles) /\ fCurrentFile \in 1 .. MaxFiles
         /\ Len(fFiles) \in Nat
         /\ Current.name \in Names /\ Current \in Files
         /\ Current.entries \in 0 .. MaxEntries
         /\ dbs \in [Names -> Dbs] /\ fImporter \in Importers
         /\ fImporter.fDBID /\ fImporter.fOpenID /\ ~fImporter.fError
         /\ dbs[Current.name] = [of |-> fCurrentFile, entries |-> fImporter.fCurrentEntry, open |-> TRUE]
         /\ fCurrentFile \notin succeeded
         /\ DeleteCurrentDatabase(dbs, fImporter) = [dbs EXCEPT ![Current.name] = Absent]
<1>1. by # "nobody" /\ fCurrentFile > 0
  BY DEF IInv, ImporterTracks, Writing
<1>2. /\ fCurrentFile \in 1 .. Len(fFiles) /\ fCurrentFile \in 1 .. MaxFiles
      /\ Len(fFiles) \in Nat
      /\ Current.name \in Names /\ Current \in Files
      /\ Current.entries \in 0 .. MaxEntries
  BY <1>1, CurrentType DEF IInv
<1>3. /\ dbs \in [Names -> Dbs] /\ fImporter \in Importers
      /\ fImporter.fDBID /\ fImporter.fOpenID /\ ~fImporter.fError
      /\ dbs[Current.name] = [of |-> fCurrentFile, entries |-> fImporter.fCurrentEntry, open |-> TRUE]
      /\ fCurrentFile \notin succeeded
  BY <1>1 DEF IInv, Types, ImporterTracks, Reported
<1>4. fImporter.fDBID = TRUE /\ fImporter.fOpenID = dbs[Current.name].open
  BY <1>3 DEF Importers
<1> QED
  BY <1>1, <1>2, <1>3, <1>4, DeleteCurrent

\* The database goes away, whatever becomes of the importer.
LEMMA TakenAway ==
  ASSUME IInv, by # "nobody", UNCHANGED <<fFiles, fCurrentFile, succeeded>>,
         dbs' = [dbs EXCEPT ![Current.name] = Absent]
  PROVE  /\ \A n \in Names : WholeAt(n)'
         /\ Reported'
         /\ dbs' \in [Names -> Dbs]
<1>1. fCurrentFile > 0 /\ dbs \in [Names -> Dbs]
  BY DEF IInv, Types, ImporterTracks
<1>2. Current.name \in Names
  BY <1>1, CurrentType DEF IInv
<1>3. dbs' \in [Names -> Dbs]
  BY <1>1, <1>2, AbsentType
<1>4. dbs'[Current.name].of = 0
  BY <1>1, <1>2 DEF Absent
<1>5. WholeAt(Current.name)'
  <2>1. \A m : dbs'[m].of = 0 => WholeAt(m)'
    BY DEF WholeAt
  <2> QED
    BY <1>4, <2>1 DEF Current
<1>6. \A n \in Names : n # Current.name => dbs'[n] = dbs[n]
  BY <1>1
<1> QED
  BY <1>3, <1>5, <1>6, OthersKept

LEMMA MiddleStep ==
  ASSUME IInv, HomeBrewInstallMiddle
  PROVE  IInv'
<1> DEFINE n == Current.name
           e == fImporter.fCurrentEntry
<1>0. Writing /\ fImporter.fState = "kInstallMiddle" /\ e < Current.entries
  BY DEF HomeBrewInstallMiddle, Writing, IInv, ImporterTracks
<1>1. /\ by # "nobody" /\ fCurrentFile \in 1 .. Len(fFiles) /\ Len(fFiles) \in Nat
      /\ n \in Names /\ Current.entries \in 0 .. MaxEntries
      /\ dbs \in [Names -> Dbs] /\ fImporter \in Importers
      /\ fImporter.fDBID /\ fImporter.fOpenID /\ ~fImporter.fError
      /\ dbs[n] = [of |-> fCurrentFile, entries |-> e, open |-> TRUE]
      /\ fCurrentFile \notin succeeded
      /\ DeleteCurrentDatabase(dbs, fImporter) = [dbs EXCEPT ![n] = Absent]
  BY <1>0, UnderWay
<1>2. UNCHANGED <<by, fFiles, fCurrentFile, succeeded>> /\ Current' = Current
  BY DEF HomeBrewInstallMiddle, Current
<1>3. CASE Failed /\ dbs' = DeleteCurrentDatabase(dbs, fImporter)
  <2>1. (\A m \in Names : WholeAt(m)') /\ Reported' /\ dbs' \in [Names -> Dbs]
    BY <1>1, <1>2, <1>3, TakenAway
  <2>2. /\ fImporter' \in Importers
        /\ fImporter'.fState = "kInstallDone" /\ fImporter'.fError
    BY <1>1, <1>3 DEF Failed, Importers
  <2>3. Types' /\ ImporterTracks'
    BY <1>1, <1>2, <2>1, <2>2 DEF IInv, Types, ImporterTracks, Writing
  <2> QED
    BY <1>1, <1>2, <2>1, <2>3, ListGiven DEF IInv
<1>4. CASE /\ fImporter' = [fImporter EXCEPT
                !.fCurrentEntry = @ + 1,
                !.fState = IF e + 1 >= Current.entries THEN "kInstallEnd" ELSE @]
           /\ dbs' = [dbs EXCEPT ![n].entries = @ + 1]
  <2>0. e \in Nat /\ e + 1 \in 0 .. MaxEntries /\ e + 1 <= Current.entries
    BY <1>0, <1>1, ImportAssumption DEF Importers
  <2>1. /\ fImporter' \in Importers
        /\ fImporter'.fState = IF e + 1 >= Current.entries THEN "kInstallEnd" ELSE "kInstallMiddle"
        /\ fImporter'.fDBID /\ fImporter'.fOpenID /\ ~fImporter'.fError
        /\ fImporter'.fCurrentEntry = e + 1
    BY <1>0, <1>1, <1>4, <2>0 DEF Importers
  <2>2. Writing'
    BY <2>1 DEF Writing
  <2>3. [of |-> fCurrentFile, entries |-> e + 1, open |-> TRUE] \in Dbs
    BY <1>0, <2>0, UnderWay DEF Dbs
  <2>4. dbs' = [dbs EXCEPT ![n] = [of |-> fCurrentFile, entries |-> e + 1, open |-> TRUE]]
    <3> DEFINE r == dbs[n]
               s == [r EXCEPT !.entries = @ + 1]
               w == [of |-> fCurrentFile, entries |-> e + 1, open |-> TRUE]
    <3>1. r \in Dbs /\ r.of = fCurrentFile /\ r.entries = e /\ r.open = TRUE
      BY <1>1
    <3>2. s \in Dbs /\ s.of = fCurrentFile /\ s.entries = e + 1 /\ s.open = TRUE
      <4>1. r.entries + 1 \in 0 .. MaxEntries /\ r.entries + 1 = e + 1
        BY <2>0, <3>1
      <4> HIDE DEF r
      <4>2. s \in Dbs /\ s.of = r.of /\ s.entries = r.entries + 1 /\ s.open = r.open
        BY <3>1, <4>1, DbUpdates
      <4> HIDE DEF s
      <4> QED
        BY <3>1, <4>1, <4>2, Zenon
    <3>3. w \in Dbs /\ w.of = fCurrentFile /\ w.entries = e + 1 /\ w.open = TRUE
      BY <2>3
    <3>4. s = w
      <4> HIDE DEF s, w
      <4> QED
        BY <3>2, <3>3, SameDb
    <3> QED
      BY <1>4, <3>4, Zenon
  <2>5. /\ dbs' \in [Names -> Dbs]
        /\ dbs'[n] = [of |-> fCurrentFile, entries |-> e + 1, open |-> TRUE]
        /\ \A m \in Names : m # n => dbs'[m] = dbs[m]
    BY <1>1, <2>3, <2>4
  <2>6. WholeAt(n)'
    BY <1>1, <1>2, <2>1, <2>2, <2>5 DEF WholeAt, Current
  <2>7. (\A m \in Names : WholeAt(m)') /\ Reported'
    BY <1>1, <1>2, <2>5, <2>6, OthersKept
  <2>8. Types'
    BY <1>1, <1>2, <2>1, <2>5 DEF IInv, Types
  <2>9. ImporterTracks'
    <3>1. fImporter'.fState = "kInstallMiddle" => e + 1 < Current.entries
      BY <1>1, <2>0, <2>1
    <3>2. fImporter'.fState = "kInstallEnd" => e + 1 = Current.entries
      BY <1>1, <2>0, <2>1
    <3>3. by' # "nobody" /\ fCurrentFile' > 0 /\ fImporter'.fState \in {"kInstallMiddle", "kInstallEnd"}
      BY <1>1, <1>2, <2>1
    <3> QED
      BY <1>2, <2>1, <2>5, <3>1, <3>2, <3>3 DEF ImporterTracks
  <2> QED
    BY <1>1, <1>2, <2>7, <2>8, <2>9, ListGiven DEF IInv
<1> QED
  BY <1>3, <1>4 DEF HomeBrewInstallMiddle

LEMMA EndStep ==
  ASSUME IInv, HomeBrewInstallEnd
  PROVE  IInv'
<1> DEFINE n == Current.name
<1>0. Writing /\ fImporter.fCurrentEntry = Current.entries
  BY DEF HomeBrewInstallEnd, Writing, IInv, ImporterTracks
<1>1. /\ by # "nobody" /\ fCurrentFile \in 1 .. Len(fFiles) /\ Len(fFiles) \in Nat
      /\ n \in Names
      /\ dbs \in [Names -> Dbs] /\ fImporter \in Importers
      /\ ~fImporter.fError
      /\ dbs[n] = [of |-> fCurrentFile, entries |-> Current.entries, open |-> TRUE]
      /\ fCurrentFile \notin succeeded
  BY <1>0, UnderWay
<1>2. UNCHANGED <<by, fFiles, fCurrentFile, succeeded>> /\ Current' = Current
  BY DEF HomeBrewInstallEnd, Current
<1>3. /\ fImporter' \in Importers /\ fImporter'.fState = "kInstallDone"
      /\ \/ fImporter'.fError /\ dbs' = dbs
         \/ ~fImporter'.fError /\ dbs' = [dbs EXCEPT ![n].open = FALSE]
  BY <1>1 DEF HomeBrewInstallEnd, Importers
<1>4. \E o \in BOOLEAN :
        /\ dbs' = [dbs EXCEPT ![n] = [of |-> fCurrentFile, entries |-> Current.entries, open |-> o]]
        /\ ~fImporter'.fError => o = FALSE
  <2>1. CASE fImporter'.fError /\ dbs' = dbs
    <3>1. dbs' = [dbs EXCEPT ![n] = [of |-> fCurrentFile, entries |-> Current.entries, open |-> TRUE]]
      BY <1>1, <2>1
    <3> QED
      BY <2>1, <3>1
  <2>2. CASE ~fImporter'.fError /\ dbs' = [dbs EXCEPT ![n].open = FALSE]
    <3> DEFINE r == dbs[n]
               s == [r EXCEPT !.open = FALSE]
               w == [of |-> fCurrentFile, entries |-> Current.entries, open |-> FALSE]
    <3>1. r \in Dbs /\ r.of = fCurrentFile /\ r.entries = Current.entries
      BY <1>1
    <3>2. s \in Dbs /\ s.of = fCurrentFile /\ s.entries = Current.entries /\ s.open = FALSE
      <4> HIDE DEF r
      <4> QED
        BY <3>1, DbUpdates
    <3>3. w \in Dbs /\ w.of = fCurrentFile /\ w.entries = Current.entries /\ w.open = FALSE
      BY <1>0, UnderWay DEF Dbs
    <3>4. s = w
      <4> HIDE DEF s, w
      <4> QED
        BY <3>2, <3>3, SameDb
    <3>5. dbs' = [dbs EXCEPT ![n] = [of |-> fCurrentFile, entries |-> Current.entries, open |-> FALSE]]
      BY <2>2, <3>4, Zenon
    <3> QED
      BY <3>5
  <2> QED
    BY <1>3, <2>1, <2>2
<1>5. PICK o \in BOOLEAN :
        /\ dbs' = [dbs EXCEPT ![n] = [of |-> fCurrentFile, entries |-> Current.entries, open |-> o]]
        /\ ~fImporter'.fError => o = FALSE
  BY <1>4
<1>6. [of |-> fCurrentFile, entries |-> Current.entries, open |-> o] \in Dbs
  BY <1>0, UnderWay DEF Dbs
<1>7. /\ dbs' \in [Names -> Dbs]
      /\ dbs'[n] = [of |-> fCurrentFile, entries |-> Current.entries, open |-> o]
      /\ \A m \in Names : m # n => dbs'[m] = dbs[m]
  BY <1>1, <1>5, <1>6
<1>8. WholeAt(n)'
  BY <1>1, <1>2, <1>3, <1>7 DEF WholeAt, Current
<1>9. (\A m \in Names : WholeAt(m)') /\ Reported'
  BY <1>1, <1>2, <1>7, <1>8, OthersKept
<1>10. Types' /\ ImporterTracks'
  BY <1>1, <1>2, <1>3, <1>5, <1>7 DEF IInv, Types, ImporterTracks, Writing
<1> QED
  BY <1>1, <1>2, <1>9, <1>10, ListGiven DEF IInv

LEMMA NextFileStep ==
  ASSUME IInv, NextFile
  PROVE  IInv'
<1>0. /\ fImporter.fState = "kInstallDone" /\ by # "nobody" /\ fCurrentFile > 0
      /\ UNCHANGED <<fFiles, dbs>>
      /\ ~Writing
  BY DEF NextFile, IInv, ImporterTracks, Writing
<1>1. /\ fCurrentFile \in 1 .. Len(fFiles) /\ Len(fFiles) \in Nat /\ Current.name \in Names
  BY <1>0, CurrentType DEF IInv
<1>2. /\ \/ succeeded' = succeeded
         \/ ~fImporter.fError /\ succeeded' = succeeded \union {fCurrentFile}
      /\ \/ fImporter' = NoImporter /\ by' = "nobody" /\ fCurrentFile' = fCurrentFile
         \/ /\ fCurrentFile' = fCurrentFile + 1 /\ fCurrentFile # Len(fFiles)
            /\ \/ fImporter' = NewImporter /\ by' = by
               \/ fImporter' = NoImporter /\ by' = "nobody"
  BY DEF NextFile
<1>3. fCurrentFile' \in fCurrentFile .. Len(fFiles)
  BY <1>1, <1>2
<1>4. /\ NoImporter \in Importers /\ NewImporter \in Importers
      /\ NoImporter.fState = "none" /\ NewImporter.fState = "kInstallStart"
  BY ImporterTypes
<1>5. Types'
  BY <1>0, <1>1, <1>2, <1>3, <1>4 DEF IInv, Types
<1>6. ImporterTracks'
  BY <1>0, <1>1, <1>2, <1>4 DEF ImporterTracks, Writing
<1>7. ASSUME NEW n \in Names PROVE WholeAt(n)'
  <2> SUFFICES ASSUME dbs[n].of \in 1 .. Len(fFiles)
               PROVE  /\ dbs[n].of <= fCurrentFile'
                      /\ fFiles[dbs[n].of].name = n
                      /\ dbs[n].of = fCurrentFile' => fImporter'.fState # "kInstallStart"
                      /\ dbs[n].entries = fFiles[dbs[n].of].entries
                      /\ dbs[n].open => dbs[n].of \notin succeeded'
    BY <1>0 DEF WholeAt
  <2>1. /\ dbs[n].of <= fCurrentFile
        /\ fFiles[dbs[n].of].name = n
        /\ dbs[n].entries = fFiles[dbs[n].of].entries
        /\ dbs[n].open => dbs[n].of \notin succeeded
    BY <1>0 DEF IInv, WholeAt
  <2>2. dbs[n].open => dbs[n].of \notin succeeded'
    <3>1. dbs[n].of = fCurrentFile => n = Current.name
      BY <2>1 DEF Current
    <3>2. ~fImporter.fError => ~dbs[Current.name].open
      BY <1>0 DEF IInv, ImporterTracks
    <3> QED
      BY <1>2, <2>1, <3>1, <3>2
  <2>3. dbs[n].of = fCurrentFile' => fImporter'.fState # "kInstallStart"
    BY <1>1, <1>2, <1>4, <2>1
  <2> QED
    BY <1>1, <1>3, <2>1, <2>2, <2>3
<1>8. Reported'
  <2> SUFFICES ASSUME NEW i \in succeeded'
               PROVE  /\ i \in 1 .. fCurrentFile' /\ (i = fCurrentFile' => by' = "nobody")
                      /\ Kept(i)'
    BY DEF Reported
  <2>1. CASE i \in succeeded
    <3>1. i \in 1 .. fCurrentFile /\ i # fCurrentFile /\ Kept(i)
      BY <1>0, <2>1 DEF IInv, Reported
    <3>2. (i + 1) .. fCurrentFile \subseteq (i + 1) .. fCurrentFile'
      BY <1>1, <1>3, <3>1
    <3> QED
      BY <1>0, <1>1, <1>3, <3>1, <3>2 DEF Kept
  <2>2. CASE i \notin succeeded
    <3>1. i = fCurrentFile /\ ~fImporter.fError
      BY <1>2, <2>2
    <3>2. dbs[fFiles[i].name].of = i
      BY <1>0, <3>1 DEF IInv, ImporterTracks, Current
    <3> QED
      BY <1>0, <1>1, <1>2, <1>3, <3>1, <3>2 DEF Kept
  <2> QED
    BY <2>1, <2>2
<1> QED
  BY <1>0, <1>5, <1>6, <1>7, <1>8, ListGiven DEF IInv

LEMMA CancelStep ==
  ASSUME IInv, Cancel
  PROVE  IInv'
<1>0. /\ by # "nobody" /\ fCurrentFile > 0
      /\ UNCHANGED <<fFiles, fCurrentFile, succeeded>>
      /\ fImporter' = NoImporter /\ by' = "nobody"
      /\ dbs' = DeleteCurrentDatabase(dbs, fImporter)
  BY DEF Cancel, IInv, ImporterTracks
<1>1. /\ NoImporter \in Importers /\ NoImporter.fState = "none"
  BY ImporterTypes
<1>2. (\A m \in Names : WholeAt(m)') /\ Reported' /\ dbs' \in [Names -> Dbs]
  <2>1. CASE Writing
    BY <1>0, <2>1, UnderWay, TakenAway
  <2>2. CASE ~Writing
    <3>1. fImporter = NewImporter
      BY <2>2 DEF Cancel, Writing, IInv, ImporterTracks
    <3>2. dbs' = dbs
      BY <1>0, <3>1 DEF DeleteCurrentDatabase, NewImporter, NoImporter
    <3>3. WholeAt(Current.name)'
      <4>1. Current.name \in Names
        BY <1>0, CurrentType DEF IInv
      <4>2. WholeAt(Current.name) /\ Current' = Current
        BY <1>0, <4>1 DEF IInv, Current
      <4> QED
        BY <1>0, <1>1, <2>2, <3>2, <4>2 DEF WholeAt
    <3> QED
      BY <1>0, <3>2, <3>3, OthersKept DEF IInv, Types
  <2> QED
    BY <2>1, <2>2
<1>3. Types' /\ ImporterTracks'
  BY <1>0, <1>1, <1>2 DEF IInv, Types, ImporterTracks, Writing
<1> QED
  BY <1>0, <1>2, <1>3, ListGiven DEF IInv

LEMMA ImportStep ==
  ASSUME IInv, NEW caller \in {"list", "dialog"}, Import(caller)
  PROVE  IInv'
<1>1. /\ fFiles = << >> /\ fCurrentFile' = 1 /\ fImporter' = NewImporter /\ by' = caller
      /\ UNCHANGED <<dbs, succeeded>>
  BY DEF Import
<1>2. fCurrentFile = 0 /\ succeeded = {} /\ \A m \in Names : dbs[m].of \in {0, MaxFiles + 1}
  BY <1>1, EmptySeq DEF IInv, Types, Reported, NoneYet
<1>3. PICK n \in 1 .. MaxFiles : fFiles' \in [1 .. n -> Files]
  BY DEF Import
<1>4. /\ fFiles' \in Seq(Files) /\ Len(fFiles') = n /\ Len(fFiles') <= MaxFiles
      /\ 1 \in 1 .. Len(fFiles') /\ fFiles' # << >>
  <2>1. n \in 0 .. MaxFiles /\ n >= 1
    BY ImportAssumption
  <2>2. fFiles' \in Seq(Files) /\ Len(fFiles') = n
    BY <1>3, <2>1, ListType
  <2> QED
    BY <2>1, <2>2, EmptySeq
<1>5. NewImporter \in Importers /\ NewImporter.fState = "kInstallStart"
  BY ImporterTypes
<1>6. Types'
  BY <1>1, <1>4, <1>5 DEF IInv, Types
<1>7. ImporterTracks'
  BY <1>1, <1>5 DEF ImporterTracks, Writing
<1>8. ASSUME NEW m \in Names PROVE WholeAt(m)'
  <2>1. dbs'[m].of \notin 1 .. Len(fFiles')
    BY <1>1, <1>2, <1>4, ImportAssumption
  <2> QED
    BY <2>1 DEF WholeAt
<1>9. Reported' /\ NoneYet'
  BY <1>1, <1>2, <1>4 DEF Reported, NoneYet
<1> QED
  BY <1>6, <1>7, <1>8, <1>9 DEF IInv

-----------------------------------------------------------------------------
LEMMA InitHolds == ImportInit => IInv
<1> SUFFICES ASSUME ImportInit PROVE IInv
  OBVIOUS
<1>1. \A n \in Names : dbs[n] \in Dbs /\ dbs[n].of \in {0, MaxFiles + 1}
  <2> DEFINE Start == {Absent, Earlier(FALSE), Earlier(TRUE)}
  <2>1. Absent \in Dbs /\ Absent.of = 0
    BY ImportAssumption DEF Absent, Dbs
  <2>2. Earlier(FALSE) \in Dbs /\ Earlier(FALSE).of = MaxFiles + 1
    BY ImportAssumption DEF Earlier, Dbs
  <2>3. Earlier(TRUE) \in Dbs /\ Earlier(TRUE).of = MaxFiles + 1
    BY ImportAssumption DEF Earlier, Dbs
  <2>4. \A r \in Start : r \in Dbs /\ r.of \in {0, MaxFiles + 1}
    BY <2>1, <2>2, <2>3
  <2>5. \A n \in Names : dbs[n] \in Start
    BY DEF ImportInit
  <2> QED
    BY <2>4, <2>5
<1>2. dbs \in [Names -> Dbs]
  BY <1>1 DEF ImportInit
<1>3. Len(fFiles) = 0 /\ fFiles \in Seq(Files) /\ fImporter = NoImporter /\ fCurrentFile = 0
  BY EmptySeq DEF ImportInit
<1>4. NoImporter \in Importers /\ NoImporter.fState = "none"
  BY ImporterTypes
<1>5. Types
  BY <1>2, <1>3, <1>4, ImportAssumption DEF ImportInit, Types
<1>6. ImporterTracks
  BY <1>3, <1>4 DEF ImportInit, ImporterTracks, Writing
<1>7. \A n \in Names : WholeAt(n)
  BY <1>1, <1>3 DEF WholeAt
<1> QED
  BY <1>1, <1>5, <1>6, <1>7 DEF ImportInit, IInv, Reported, NoneYet

LEMMA StepKeeps == IInv /\ [ImportNext]_importVars => IInv'
<1> SUFFICES ASSUME IInv, [ImportNext]_importVars PROVE IInv'
  OBVIOUS
<1>1. CASE \E caller \in {"list", "dialog"} : Import(caller)
  BY <1>1, ImportStep
<1>2. CASE HomeBrewInstallStart
  BY <1>2, StartStep
<1>3. CASE HomeBrewInstallMiddle
  BY <1>3, MiddleStep
<1>4. CASE HomeBrewInstallEnd
  BY <1>4, EndStep
<1>5. CASE NextFile
  BY <1>5, NextFileStep
<1>6. CASE Cancel
  BY <1>6, CancelStep
<1>7. CASE UNCHANGED importVars
  BY <1>7 DEF importVars, IInv, Types, ImporterTracks, Writing, Current, WholeAt, Reported, Kept, NoneYet
<1> QED
  BY <1>1, <1>2, <1>3, <1>4, <1>5, <1>6, <1>7 DEF ImportNext

LEMMA Invariant == ImportSpec => []IInv
BY InitHolds, StepKeeps, PTL DEF ImportSpec

\* The importer and the databases keep their types, for lists of any length of files of any length:
\* the place in the file never passes its end, nor the place in the list the end of the list.
THEOREM ImportTypes == ImportSpec => []ImportTypeOK
<1>1. IInv => ImportTypeOK
  <2> SUFFICES ASSUME IInv PROVE ImportTypeOK
    OBVIOUS
  <2>1. Len(fFiles) \in 0 .. MaxFiles /\ fFiles \in [1 .. Len(fFiles) -> Files]
    BY LenProperties, ImportAssumption DEF IInv, Types
  <2>2. fFiles \in UNION {[1 .. n -> Files] : n \in 0 .. MaxFiles}
    BY <2>1
  <2>3. fCurrentFile \in 0 .. MaxFiles + 1 /\ 1 .. fCurrentFile \subseteq DOMAIN fFiles
    BY <2>1, ImportAssumption DEF IInv, Types
  <2>4. succeeded \subseteq DOMAIN fFiles
    BY <2>3 DEF IInv, Reported
  <2>5. /\ fImporter.fState \in {"none", "kInstallStart", "kInstallMiddle", "kInstallEnd", "kInstallDone"}
        /\ fImporter.fCurrentEntry \in 0 .. MaxEntries
    BY DEF IInv, Types, Importers
  <2> QED
    BY <2>2, <2>3, <2>4, <2>5 DEF IInv, Types, Dbs, ImportTypeOK
<1> QED
  BY <1>1, Invariant, PTL

\* "Clean up any partially installed file", proved for any list of files, whichever ROM calls fail
\* and whenever the user cancels: no installation leaves a part of a file on the device, one that
\* is left open was never reported, and each file reported is there or was replaced by a later one
\* of its name.
THEOREM NoPartLeft == ImportSpec => []WholeOrNothing
<1>1. IInv => WholeOrNothing
  <2> SUFFICES ASSUME IInv, by = "nobody" PROVE WholeOrNothing
    BY DEF WholeOrNothing
  <2>1. DOMAIN fFiles = 1 .. Len(fFiles)
    BY LenProperties DEF IInv, Types
  <2>2. ~Writing
    BY DEF IInv, ImporterTracks, Writing
  <2> QED
    BY <2>1, <2>2 DEF IInv, WholeAt, Reported, Kept, WholeOrNothing
<1> QED
  BY <1>1, Invariant, PTL

=============================================================================
