------------------------ MODULE BackupVolumesProofs ------------------------
(***************************************************************************)
(* VolumesInv is an invariant of BackupVolumes, for all file systems and   *)
(* volumes and any number of backups and streams; with it, the properties  *)
(* of the backups that it consists of.                                     *)
(***************************************************************************)
EXTENDS BackupVolumes, SeqLemmas

\* A job is idle, or has the fields that its handler's step uses.
LEMMA JobKinds ==
    ASSUME job \in Jobs
    PROVE  /\ job.pc \in {"idle", "list", "host", "find", "mount", "copy"}
           /\ job.pc = "idle" <=> job = Idle
           /\ job # Idle => job.fs \in FileSystems
           /\ job.pc \in {"host", "find"} =>
                 job \in [pc : {"host", "find"}, fs : FileSystems, list : Seq(Lines)]
           /\ job.pc \in {"mount", "copy"} =>
                 job \in [pc : {"mount", "copy"}, fs : FileSystems, vol : Volumes]
BY DEF Jobs, Idle

LEMMA NumberFacts ==
    /\ MaxBackups \in Nat /\ MaxStreams \in Nat /\ MaxStreams > 0
    /\ 0 \in Contents /\ -1 \in Contents /\ 0..MaxBackups \subseteq Contents
BY BackupVolumesAssumption DEF Contents

\* A line names a volume and a file system.
LEMMA LineFacts ==
    ASSUME FileTypes
    PROVE  \A i \in DOMAIN file : file[i].vol \in Volumes /\ file[i].fs \in FileSystems
<1>1. file \in Seq(Lines)
  BY DEF FileTypes
<1>2. \A i \in DOMAIN file : file[i] \in Lines
  BY <1>1
<1> QED
  BY <1>2 DEF Lines

\* find() misses no file system of the file, which has none twice.
LEMMA FirstMatch ==
    ASSUME FileTypes, ListUsable, NEW fs, Matches(file, fs) # {}
    PROVE  Found(file, fs) # {}
<1>1. PICK i \in Matches(file, fs) : TRUE
  OBVIOUS
<1>2. \A j \in Matches(file, fs) : i = j
  BY DEF Matches, ListUsable
<1>3. i \in Int
  BY DEF FileTypes, Matches
<1> QED
  BY <1>1, <1>2, <1>3 DEF Found

LEMMA InitInv == Init => VolumesInv
<1> SUFFICES ASSUME Init PROVE VolumesInv
  OBVIOUS
<1> USE NumberFacts DEF Init
<1>1. TypeOK
  <2>1. FileTypes /\ MountTypes
    BY EmptySeq DEF FileTypes, MountTypes
  <2>2. StoreTypes
    BY DEF StoreTypes, Nothing
  <2>3. RecordTypes /\ CounterTypes
    BY DEF RecordTypes, CounterTypes
  <2>4. FlagTypes
    BY DEF FlagTypes
  <2>5. job \in Jobs /\ answer \in Answers
    BY DEF Jobs, Answers
  <2> QED
    BY <2>1, <2>2, <2>3, <2>4, <2>5 DEF TypeOK
<1>2. JobConsistent /\ StreamsCounted /\ CopiesOntoVolume
  BY DEF JobConsistent, StreamsCounted, CopiesOntoVolume, Idle
<1>3. ListUsable /\ RecordedFirst /\ DiesOfBackupsOnly
  BY DEF ListUsable, RecordedFirst, DiesOfBackupsOnly
<1>4. LatestKept
  BY DEF LatestKept, Nothing
<1>5. RecoversLatest
  BY DEF RecoversLatest, NoAnswer
<1> QED
  BY <1>1, <1>2, <1>3, <1>4, <1>5 DEF VolumesInv
-----------------------------------------------------------------------------
(* What a step that leaves the file, the directories or the answer alone       *)
(* preserves.                                                                  *)

LEMMA FileFrame ==
    ASSUME ListUsable, UNCHANGED fileVars
    PROVE  ListUsable'
BY DEF ListUsable, fileVars

LEMMA RecordedFrame ==
    ASSUME RecordedFirst, UNCHANGED <<file, store>>
    PROVE  RecordedFirst'
BY DEF RecordedFirst, store

\* Nothing is copied, and no handler begins.
LEMMA KeptFrame ==
    ASSUME LatestKept, UNCHANGED <<mounts, store, record, rebooted>>,
           job # Idle \/ job' = Idle
    PROVE  LatestKept'
BY DEF LatestKept, mounts, store, record

\* Only an answer to RECOVER gives files back.
LEMMA SilentFrame ==
    ASSUME answer'.op # "recover"
    PROVE  RecoversLatest'
BY DEF RecoversLatest

LEMMA NoAnswerSilent == NoAnswer \in Answers /\ NoAnswer.op # "recover"
BY DEF Answers, NoAnswer

LEMMA BackupAnswerSilent ==
    ASSUME NEW fs \in FileSystems, NEW ok \in BOOLEAN
    PROVE  /\ [op |-> "backup", fs |-> fs, ok |-> ok] \in Answers
           /\ [op |-> "backup", fs |-> fs, ok |-> ok].op # "recover"
<1>1. [op |-> "backup", fs |-> fs, ok |-> ok] \in [op : {"backup"}, fs : FileSystems, ok : BOOLEAN]
  OBVIOUS
<1> QED
  BY <1>1 DEF Answers

LEMMA DeathFrame ==
    ASSUME DiesOfBackupsOnly, exhausted' => exhausted, served \in Nat, MaxStreams \in Nat,
           served' = served \/ served' = served + 1
    PROVE  DiesOfBackupsOnly'
BY DEF DiesOfBackupsOnly

\* mount(8) shows volumes that nothing was shown of, and it is known if it fails.
LEMMA MountKeeps ==
    ASSUME LatestKept, MountTypes, NEW tries \in SUBSET Volumes, NEW got \in SUBSET tries,
           Mount(tries, got), UNCHANGED <<store, record, rebooted>>,
           job # Idle \/ job' = Idle
    PROVE  /\ MountTypes' /\ LatestKept'
           /\ tries \subseteq mounted' \cup failed'
           /\ mounted \cup failed \subseteq mounted' \cup failed'
<1>1. MountTypes'
  BY DEF MountTypes, Mount
<1>2. /\ tries \subseteq mounted' \cup failed'
      /\ mounted \cup failed \subseteq mounted' \cup failed'
      /\ mounted \subseteq mounted'
      /\ ~mountFailed' => ~mountFailed /\ failed' = failed
  BY DEF Mount, MountTypes
<1>3. LatestKept'
  BY <1>2 DEF LatestKept, store, record
<1> QED
  BY <1>1, <1>2, <1>3
-----------------------------------------------------------------------------
(* START_BACKUP, up to the copy.                                               *)

LEMMA BeginBackupInv ==
    ASSUME VolumesInv, NEW fs \in FileSystems, BeginBackup(fs)
    PROVE  VolumesInv'
<1> USE NumberFacts
<1>1. /\ job = Idle /\ job' = [pc |-> "list", fs |-> fs] /\ answer' = NoAnswer
      /\ served <= backups /\ backups < MaxBackups /\ leaked <= served
      /\ served' = served + 1 /\ backups' = backups + 1
      /\ UNCHANGED <<leaked, fileVars, mounts, store, tried, good, rebooted, exhausted>>
      /\ up' = up /\ up
  BY DEF BeginBackup, VolumesInv, StreamsCounted
<1>2. TypeOK'
  <2>1. FileTypes' /\ MountTypes' /\ StoreTypes'
    BY <1>1 DEF VolumesInv, TypeOK, FileTypes, MountTypes, StoreTypes, fileVars, mounts, store
  <2>2. RecordTypes' /\ CounterTypes'
    BY <1>1 DEF VolumesInv, TypeOK, RecordTypes, CounterTypes
  <2>3. FlagTypes'
    BY <1>1 DEF VolumesInv, TypeOK, FlagTypes
  <2>4. job' \in Jobs /\ answer' \in Answers
    BY <1>1, NoAnswerSilent DEF Jobs
  <2> QED
    BY <2>1, <2>2, <2>3, <2>4 DEF TypeOK
<1>3. JobConsistent' /\ CopiesOntoVolume'
  BY <1>1 DEF JobConsistent, CopiesOntoVolume
<1>4. StreamsCounted'
  BY <1>1 DEF VolumesInv, TypeOK, CounterTypes, RecordTypes, StreamsCounted, Idle
<1>5. ListUsable' /\ RecordedFirst'
  BY <1>1, FileFrame, RecordedFrame DEF VolumesInv, fileVars
<1>6. LatestKept'
  <2>1. \A f \in FileSystems : good'[f] <= backups' /\ good'[f] < backups'
    BY <1>1 DEF VolumesInv, TypeOK, RecordTypes, LatestKept
  <2> QED
    BY <1>1, <2>1 DEF VolumesInv, LatestKept, mounts, store
<1>7. RecoversLatest'
  BY <1>1, NoAnswerSilent, SilentFrame
<1>8. DiesOfBackupsOnly'
  BY <1>1, DeathFrame DEF VolumesInv, TypeOK, CounterTypes
<1> QED
  BY <1>2, <1>3, <1>4, <1>5, <1>6, <1>7, <1>8 DEF VolumesInv

LEMMA ReadVolumeListInv ==
    ASSUME VolumesInv, ReadVolumeList
    PROVE  VolumesInv'
<1> USE NumberFacts
<1>1. PICK got \in SUBSET Listed(file) : Mount(Listed(file), got)
  BY DEF ReadVolumeList
<1>2. /\ job.pc = "list" /\ job # Idle /\ job.fs \in FileSystems
      /\ up /\ answer = NoAnswer
  BY JobKinds DEF ReadVolumeList, Idle, VolumesInv, TypeOK, JobConsistent
<1>3. /\ job' = [pc |-> "host", fs |-> job.fs, list |-> file]
      /\ leaked < MaxStreams /\ leaked' = leaked + 1
      /\ UNCHANGED <<up, fileVars, store, answer, record, rebooted, served, exhausted>>
  BY DEF ReadVolumeList
<1>4. Listed(file) \in SUBSET Volumes
  BY LineFacts DEF VolumesInv, TypeOK, Listed
<1>5. MountTypes' /\ LatestKept' /\ Listed(file) \subseteq mounted' \cup failed'
  BY <1>1, <1>2, <1>3, <1>4, MountKeeps DEF VolumesInv, TypeOK
<1>6. TypeOK'
  <2>1. FileTypes' /\ StoreTypes' /\ RecordTypes'
    BY <1>3 DEF VolumesInv, TypeOK, FileTypes, StoreTypes, RecordTypes, fileVars, store, record
  <2>2. CounterTypes'
    BY <1>3 DEF VolumesInv, TypeOK, CounterTypes
  <2>3. FlagTypes'
    BY <1>3 DEF VolumesInv, TypeOK, FlagTypes
  <2>4. job' \in Jobs /\ answer' \in Answers
    BY <1>2, <1>3 DEF VolumesInv, TypeOK, FileTypes, Jobs
  <2> QED
    BY <1>5, <2>1, <2>2, <2>3, <2>4 DEF TypeOK
<1>7. JobConsistent' /\ CopiesOntoVolume'
  BY <1>2, <1>3, <1>5 DEF JobConsistent, CopiesOntoVolume, Listed, fileVars
<1>8. StreamsCounted'
  BY <1>2, <1>3 DEF VolumesInv, TypeOK, CounterTypes, StreamsCounted, record
<1>9. ListUsable' /\ RecordedFirst'
  BY <1>3, FileFrame, RecordedFrame DEF VolumesInv, fileVars
<1>10. RecoversLatest'
  BY <1>2, <1>3, NoAnswerSilent, SilentFrame
<1>11. DiesOfBackupsOnly'
  BY <1>3, DeathFrame DEF VolumesInv, TypeOK, CounterTypes
<1> QED
  BY <1>5, <1>6, <1>7, <1>8, <1>9, <1>10, <1>11 DEF VolumesInv

\* The first line is there before any other.
LEMMA SetHostConfigInv ==
    ASSUME VolumesInv, SetHostConfig
    PROVE  VolumesInv'
<1> USE NumberFacts
<1>1. /\ job.pc = "host" /\ job # Idle /\ up /\ answer = NoAnswer
      /\ job \in [pc : {"host", "find"}, fs : FileSystems, list : Seq(Lines)]
      /\ job.list = file /\ Listed(file) \subseteq mounted \cup failed
      /\ leaked < MaxStreams
  BY JobKinds DEF SetHostConfig, Idle, VolumesInv, TypeOK, JobConsistent
<1>2. /\ header' = TRUE /\ job' = [job EXCEPT !.pc = "find"]
      /\ UNCHANGED <<up, leaked, file, mounts, store, answer, record, rebooted,
                     served, exhausted>>
  BY DEF SetHostConfig
<1>3. /\ job' \in [pc : {"host", "find"}, fs : FileSystems, list : Seq(Lines)]
      /\ job'.pc = "find" /\ job'.list = file
  BY <1>1, <1>2
<1>4. TypeOK'
  <2>1. FileTypes' /\ StoreTypes' /\ RecordTypes' /\ MountTypes'
    BY <1>2 DEF VolumesInv, TypeOK, FileTypes, StoreTypes, RecordTypes, MountTypes,
                store, record, mounts
  <2>2. CounterTypes' /\ FlagTypes'
    BY <1>2 DEF VolumesInv, TypeOK, CounterTypes, FlagTypes
  <2>3. job' \in Jobs /\ answer' \in Answers
    BY <1>1, <1>2, <1>3, NoAnswerSilent DEF Jobs
  <2> QED
    BY <2>1, <2>2, <2>3 DEF TypeOK
<1>5. JobConsistent' /\ CopiesOntoVolume'
  BY <1>1, <1>2, <1>3 DEF JobConsistent, CopiesOntoVolume, Listed, mounts
<1>6. StreamsCounted'
  BY <1>1, <1>2, <1>3 DEF VolumesInv, StreamsCounted, record
<1>7. ListUsable' /\ RecordedFirst'
  BY <1>2, RecordedFrame DEF VolumesInv, ListUsable
<1>8. LatestKept'
  BY <1>1, <1>2, KeptFrame DEF VolumesInv
<1>9. RecoversLatest' /\ DiesOfBackupsOnly'
  BY <1>1, <1>2, NoAnswerSilent, SilentFrame, DeathFrame DEF VolumesInv, TypeOK, CounterTypes
<1> QED
  BY <1>4, <1>5, <1>6, <1>7, <1>8, <1>9 DEF VolumesInv

\* The list is still the file, so that the volume is that of a line.
LEMMA UseRecordedInv ==
    ASSUME VolumesInv, UseRecorded
    PROVE  VolumesInv'
<1> USE NumberFacts
<1>1. /\ job.pc = "find" /\ job # Idle /\ up /\ answer = NoAnswer /\ header
      /\ job.fs \in FileSystems
      /\ job.list = file /\ Listed(file) \subseteq mounted \cup failed
  BY JobKinds DEF UseRecorded, Idle, VolumesInv, TypeOK, JobConsistent
<1>2. PICK i \in Found(job.list, job.fs) :
          job' = [pc |-> "copy", fs |-> job.fs, vol |-> job.list[i].vol]
  BY DEF UseRecorded
<1>3. UNCHANGED <<up, leaked, fileVars, mounts, store, answer, record, rebooted,
                  served, exhausted>>
  BY DEF UseRecorded
<1>4. /\ i \in DOMAIN file /\ file[i] \in Lines
      /\ file[i].fs = job.fs /\ file[i].vol \in Listed(file)
  BY <1>1, <1>2 DEF Found, Matches, Listed, VolumesInv, TypeOK, FileTypes
<1>5. file[i] = [vol |-> job'.vol, fs |-> job'.fs] /\ job'.vol \in Volumes
  BY <1>1, <1>2, <1>4 DEF Lines
<1>6. TypeOK'
  <2>1. FileTypes' /\ StoreTypes' /\ RecordTypes' /\ MountTypes'
    BY <1>3 DEF VolumesInv, TypeOK, FileTypes, StoreTypes, RecordTypes, MountTypes,
                store, record, mounts, fileVars
  <2>2. CounterTypes' /\ FlagTypes'
    BY <1>3 DEF VolumesInv, TypeOK, CounterTypes, FlagTypes
  <2>3. job' \in Jobs /\ answer' \in Answers
    BY <1>1, <1>2, <1>3, <1>5, NoAnswerSilent DEF Jobs
  <2> QED
    BY <2>1, <2>2, <2>3 DEF TypeOK
<1>7. CopiesOntoVolume'
  BY <1>1, <1>2, <1>3, <1>4 DEF CopiesOntoVolume, mounts
<1>8. JobConsistent'
  BY <1>1, <1>2, <1>3, <1>4, <1>5 DEF JobConsistent, fileVars
<1>9. StreamsCounted'
  BY <1>1, <1>2, <1>3 DEF VolumesInv, StreamsCounted, record
<1>10. ListUsable' /\ RecordedFirst'
  BY <1>3, FileFrame, RecordedFrame DEF VolumesInv, fileVars
<1>11. LatestKept'
  BY <1>1, <1>3, KeptFrame DEF VolumesInv
<1>12. RecoversLatest' /\ DiesOfBackupsOnly'
  BY <1>1, <1>3, NoAnswerSilent, SilentFrame, DeathFrame DEF VolumesInv, TypeOK, CounterTypes
<1> QED
  BY <1>6, <1>7, <1>8, <1>9, <1>10, <1>11, <1>12 DEF VolumesInv

\* The new line is the only one of its file system.
LEMMA RecordNewInv ==
    ASSUME VolumesInv, RecordNew
    PROVE  VolumesInv'
<1> USE NumberFacts
<1>1. /\ job.pc = "find" /\ job # Idle /\ up /\ answer = NoAnswer /\ header
      /\ job.fs \in FileSystems /\ job.list = file
  BY JobKinds DEF RecordNew, Idle, VolumesInv, TypeOK, JobConsistent
<1>2. PICK v \in Volumes :
          /\ file' = Append(file, [vol |-> v, fs |-> job.fs])
          /\ job' = [pc |-> "mount", fs |-> job.fs, vol |-> v]
  BY DEF RecordNew
<1>3. UNCHANGED <<up, leaked, header, mounts, store, answer, record, rebooted,
                  served, exhausted>>
  BY DEF RecordNew
<1>4. \A j \in DOMAIN file : file[j].fs # job.fs
  <2>1. Found(file, job.fs) = {}
    BY <1>1 DEF RecordNew
  <2>2. Matches(file, job.fs) = {}
    BY <2>1, FirstMatch DEF VolumesInv, TypeOK
  <2> QED
    BY <2>2 DEF Matches
<1>5. [vol |-> v, fs |-> job.fs] \in Lines /\ file \in Seq(Lines)
  BY <1>1 DEF Lines, VolumesInv, TypeOK, FileTypes
<1>6. /\ file' \in Seq(Lines)
      /\ Len(file') = Len(file) + 1
      /\ \A j \in DOMAIN file : j \in DOMAIN file' /\ file'[j] = file[j]
      /\ \A j \in DOMAIN file' : j \in DOMAIN file \/ j = Len(file')
      /\ Len(file') \in DOMAIN file'
      /\ file'[Len(file')] = [vol |-> v, fs |-> job.fs]
  BY <1>2, <1>5
<1>7. TypeOK'
  <2>1. FileTypes' /\ StoreTypes' /\ RecordTypes' /\ MountTypes'
    BY <1>3, <1>6 DEF VolumesInv, TypeOK, FileTypes, StoreTypes, RecordTypes, MountTypes,
                store, record, mounts
  <2>2. CounterTypes' /\ FlagTypes'
    BY <1>3 DEF VolumesInv, TypeOK, CounterTypes, FlagTypes
  <2>3. job' \in Jobs /\ answer' \in Answers
    BY <1>1, <1>2, <1>3, NoAnswerSilent DEF Jobs
  <2> QED
    BY <2>1, <2>2, <2>3 DEF TypeOK
<1>8. JobConsistent' /\ CopiesOntoVolume'
  BY <1>1, <1>2, <1>3, <1>6 DEF JobConsistent, CopiesOntoVolume
<1>9. StreamsCounted'
  BY <1>1, <1>2, <1>3 DEF VolumesInv, StreamsCounted, record
<1>10. ListUsable'
  <2>1. header'
    BY <1>1, <1>3
  <2>2. ASSUME NEW j \in DOMAIN file', NEW k \in DOMAIN file', file'[j].fs = file'[k].fs
        PROVE  j = k
    BY <1>4, <1>6, <2>2 DEF VolumesInv, ListUsable
  <2> QED
    BY <2>1, <2>2 DEF ListUsable
<1>11. RecordedFirst'
  BY <1>3, <1>6 DEF VolumesInv, RecordedFirst, store
<1>12. LatestKept'
  BY <1>1, <1>3, KeptFrame DEF VolumesInv
<1>13. RecoversLatest' /\ DiesOfBackupsOnly'
  BY <1>1, <1>3, NoAnswerSilent, SilentFrame, DeathFrame DEF VolumesInv, TypeOK, CounterTypes
<1> QED
  BY <1>7, <1>8, <1>9, <1>10, <1>11, <1>12, <1>13 DEF VolumesInv

\* The new volume is mounted, or known to be one that cannot be.
LEMMA MountNewInv ==
    ASSUME VolumesInv, MountNew
    PROVE  VolumesInv'
<1> USE NumberFacts
<1>1. /\ job.pc = "mount" /\ job # Idle /\ up /\ answer = NoAnswer /\ header
      /\ job \in [pc : {"mount", "copy"}, fs : FileSystems, vol : Volumes]
      /\ \E i \in DOMAIN file : file[i] = [vol |-> job.vol, fs |-> job.fs]
  BY JobKinds DEF MountNew, Idle, VolumesInv, TypeOK, JobConsistent
<1>2. UNCHANGED <<up, leaked, fileVars, store, record, rebooted, served, exhausted>>
  BY DEF MountNew
<1>3. \/ /\ job' = [job EXCEPT !.pc = "copy"] /\ answer' = NoAnswer
         /\ Mount({job.vol}, {job.vol})
      \/ /\ job' = Idle /\ answer' = [op |-> "backup", fs |-> job.fs, ok |-> FALSE]
         /\ Mount({job.vol}, {})
  BY <1>1 DEF MountNew, Answer
<1>4. MountTypes' /\ LatestKept' /\ job.vol \in mounted' \cup failed'
  BY <1>1, <1>2, <1>3, MountKeeps DEF VolumesInv, TypeOK
<1>5. \/ job' = Idle
      \/ /\ job' \in [pc : {"mount", "copy"}, fs : FileSystems, vol : Volumes]
         /\ job'.pc = "copy" /\ job'.vol = job.vol /\ job'.fs = job.fs
         /\ answer' = NoAnswer
  BY <1>1, <1>3
<1>6. answer' \in Answers /\ answer'.op # "recover"
  BY <1>1, <1>3, NoAnswerSilent, BackupAnswerSilent
<1>7. TypeOK'
  <2>1. FileTypes' /\ StoreTypes' /\ RecordTypes'
    BY <1>2 DEF VolumesInv, TypeOK, FileTypes, StoreTypes, RecordTypes, store, record, fileVars
  <2>2. CounterTypes' /\ FlagTypes'
    BY <1>2 DEF VolumesInv, TypeOK, CounterTypes, FlagTypes
  <2>3. job' \in Jobs
    BY <1>5 DEF Jobs
  <2> QED
    BY <1>4, <1>6, <2>1, <2>2, <2>3 DEF TypeOK
<1>8. JobConsistent' /\ CopiesOntoVolume'
  BY <1>1, <1>2, <1>4, <1>5 DEF JobConsistent, CopiesOntoVolume, Idle, fileVars
<1>9. StreamsCounted'
  BY <1>1, <1>2, <1>5 DEF VolumesInv, StreamsCounted, record, Idle
<1>10. ListUsable' /\ RecordedFirst'
  BY <1>2, FileFrame, RecordedFrame DEF VolumesInv, fileVars
<1>11. RecoversLatest' /\ DiesOfBackupsOnly'
  BY <1>2, <1>6, SilentFrame, DeathFrame DEF VolumesInv, TypeOK, CounterTypes
<1> QED
  BY <1>4, <1>7, <1>8, <1>9, <1>10, <1>11 DEF VolumesInv

-----------------------------------------------------------------------------
(* The copy, whole, in part or cut short by the end of the process.            *)

\* What is written goes to one directory, of the volume that the file has.
LEMMA StoreFacts ==
    ASSUME VolumesInv, job.pc = "copy", NEW files \in Contents,
           Store(job.vol, job.fs, files)
    PROVE  /\ job.fs \in FileSystems /\ job.vol \in Volumes
           /\ StoreTypes'
           /\ \A v \in Volumes, fs \in FileSystems : v # job.vol \/ fs # job.fs =>
                 onVolume'[v][fs] = onVolume[v][fs] /\ bare'[v][fs] = bare[v][fs]
           /\ job.vol \in mounted => onVolume'[job.vol][job.fs] = files /\ bare' = bare
           /\ job.vol \notin mounted => bare'[job.vol][job.fs] = files /\ onVolume' = onVolume
<1>1. job.fs \in FileSystems /\ job.vol \in Volumes
  BY JobKinds DEF VolumesInv, TypeOK
<1>2. StoreTypes
  BY DEF VolumesInv, TypeOK
<1>3. CASE job.vol \in mounted
  <2>1. onVolume' = [onVolume EXCEPT ![job.vol][job.fs] = files] /\ bare' = bare
    BY <1>3 DEF Store
  <2> QED
    BY <1>1, <1>2, <1>3, <2>1 DEF StoreTypes
<1>4. CASE job.vol \notin mounted
  <2>1. bare' = [bare EXCEPT ![job.vol][job.fs] = files] /\ onVolume' = onVolume
    BY <1>4 DEF Store
  <2> QED
    BY <1>1, <1>2, <1>4, <2>1 DEF StoreTypes
<1> QED
  BY <1>3, <1>4

\* No other volume has a copy of the file system.
LEMMA OtherVolumesEmpty ==
    ASSUME VolumesInv, job.pc = "copy", NEW v \in Volumes, v # job.vol
    PROVE  onVolume[v][job.fs] = Nothing /\ bare[v][job.fs] = Nothing
<1>1. job.fs \in FileSystems
  BY JobKinds DEF VolumesInv, TypeOK, Idle
<1>2. PICK i \in DOMAIN file : file[i] = [vol |-> job.vol, fs |-> job.fs]
  BY DEF VolumesInv, JobConsistent
<1>3. \A j \in DOMAIN file : file[j] # [vol |-> v, fs |-> job.fs]
  BY <1>2 DEF VolumesInv, ListUsable
<1> QED
  BY <1>1, <1>3 DEF VolumesInv, RecordedFirst

\* A copy that is answered NDMP_NO_ERR is the whole of the last backup; after
\* any other the last backup tried is not a good one.
LEMMA CopyKeeps ==
    ASSUME VolumesInv, job.pc = "copy", NEW files \in Contents,
           Store(job.vol, job.fs, files),
           UNCHANGED <<fileVars, mounts, backups, rebooted>>, job' = Idle,
           tried' = [tried EXCEPT ![job.fs] = backups],
           \/ good' = [good EXCEPT ![job.fs] = backups] /\ files = backups
           \/ good' = good
    PROVE  StoreTypes' /\ RecordTypes' /\ RecordedFirst' /\ LatestKept'
<1> USE NumberFacts
<1> DEFINE v0 == job.vol  fs0 == job.fs
<1>1. /\ fs0 \in FileSystems /\ v0 \in Volumes /\ job # Idle
      /\ StoreTypes'
      /\ \A v \in Volumes, fs \in FileSystems : v # v0 \/ fs # fs0 =>
            onVolume'[v][fs] = onVolume[v][fs] /\ bare'[v][fs] = bare[v][fs]
      /\ v0 \in mounted => onVolume'[v0][fs0] = files /\ bare' = bare
      /\ v0 \notin mounted => bare'[v0][fs0] = files /\ onVolume' = onVolume
  BY StoreFacts DEF Idle
<1>2. RecordTypes /\ RecordTypes'
  BY <1>1 DEF VolumesInv, TypeOK, RecordTypes
<1>3. v0 \in mounted \cup failed
  BY DEF VolumesInv, CopiesOntoVolume
<1>4. /\ \A fs \in FileSystems : good[fs] <= backups /\ good[fs] < backups
      /\ ~rebooted => \A v \in Volumes \ mounted, fs \in FileSystems : onVolume[v][fs] = Nothing
      /\ ~mountFailed => /\ failed = {}
                         /\ \A v \in Volumes, fs \in FileSystems : bare[v][fs] = Nothing
      /\ ~(mountFailed /\ rebooted) =>
            \A v \in Volumes, fs \in FileSystems : tried[fs] = good[fs] =>
                /\ onVolume[v][fs] \in {Nothing, good[fs]}
                /\ v \notin mounted => bare[v][fs] \in {Nothing, good[fs]}
  BY <1>1 DEF VolumesInv, LatestKept
<1>5. UNCHANGED <<mounted, failed, mountFailed, backups, rebooted, file>>
  BY DEF mounts, fileVars
<1>6. RecordedFirst'
  <2>1. \E i \in DOMAIN file : file[i] = [vol |-> v0, fs |-> fs0]
    BY DEF VolumesInv, JobConsistent
  <2> QED
    BY <1>1, <1>5, <2>1 DEF VolumesInv, RecordedFirst
<1>7. \A fs \in FileSystems : good'[fs] <= backups'
  BY <1>1, <1>2, <1>4, <1>5 DEF RecordTypes
<1>8. ~rebooted' => \A v \in Volumes \ mounted', fs \in FileSystems : onVolume'[v][fs] = Nothing
  BY <1>1, <1>4, <1>5
<1>9. ~mountFailed' => /\ failed' = {}
                       /\ \A v \in Volumes, fs \in FileSystems : bare'[v][fs] = Nothing
  BY <1>1, <1>3, <1>4, <1>5
<1>10. ASSUME ~(mountFailed' /\ rebooted'), NEW v \in Volumes, NEW fs \in FileSystems,
              tried'[fs] = good'[fs]
       PROVE  /\ onVolume'[v][fs] \in {Nothing, good'[fs]}
              /\ v \notin mounted' => bare'[v][fs] \in {Nothing, good'[fs]}
  <2>1. CASE fs # fs0
    <3>1. tried[fs] = good[fs] /\ good'[fs] = good[fs]
      BY <1>1, <1>2, <1>10, <2>1 DEF RecordTypes
    <3> QED
      BY <1>1, <1>4, <1>5, <1>10, <2>1, <3>1
  <2>2. CASE fs = fs0
    <3>1. good'[fs] = backups /\ files = backups
      BY <1>1, <1>2, <1>4, <1>10, <2>2 DEF RecordTypes
    <3>2. CASE v # v0
      BY <1>1, <2>2, <3>2, OtherVolumesEmpty
    <3>3. CASE v = v0 /\ v0 \in mounted
      BY <1>1, <1>5, <2>2, <3>1, <3>3
    <3>4. CASE v = v0 /\ v0 \notin mounted
      BY <1>1, <1>3, <1>4, <1>5, <1>10, <2>2, <3>1, <3>4
    <3> QED
      BY <3>2, <3>3, <3>4
  <2> QED
    BY <2>1, <2>2
<1>11. LatestKept'
  BY <1>7, <1>8, <1>9, <1>10 DEF LatestKept
<1> QED
  BY <1>1, <1>2, <1>6, <1>11

\* After a copy the handler is done, and nothing else has changed.
LEMMA CopyEnds ==
    ASSUME VolumesInv, StoreTypes', RecordTypes', RecordedFirst', LatestKept',
           job' = Idle, answer' \in Answers, answer'.op # "recover",
           UNCHANGED <<leaked, fileVars, mounts, backups, rebooted, served, exhausted>>,
           up' \in BOOLEAN, up' => up /\ job.pc = "copy"
    PROVE  VolumesInv'
<1> USE NumberFacts
<1>1. TypeOK'
  <2>1. FileTypes' /\ MountTypes'
    BY DEF VolumesInv, TypeOK, FileTypes, MountTypes, mounts, fileVars
  <2>2. CounterTypes'
    BY DEF VolumesInv, TypeOK, CounterTypes
  <2>3. FlagTypes'
    BY DEF VolumesInv, TypeOK, FlagTypes
  <2>4. job' \in Jobs
    BY DEF Jobs
  <2> QED
    BY <2>1, <2>2, <2>3, <2>4 DEF TypeOK
<1>2. JobConsistent' /\ CopiesOntoVolume'
  BY DEF JobConsistent, CopiesOntoVolume, Idle
<1>3. StreamsCounted'
  BY DEF VolumesInv, StreamsCounted, Idle
<1>4. ListUsable'
  BY FileFrame DEF VolumesInv
<1>5. RecoversLatest' /\ DiesOfBackupsOnly'
  BY SilentFrame, DeathFrame DEF VolumesInv, TypeOK, CounterTypes
<1> QED
  BY <1>1, <1>2, <1>3, <1>4, <1>5 DEF VolumesInv

\* What a path shows is a content.
LEMMA ShownType ==
    ASSUME StoreTypes, NEW v \in Volumes, NEW fs \in FileSystems
    PROVE  Shown(v, fs) \in Contents
BY DEF StoreTypes, Shown

LEMMA CopySucceedsInv ==
    ASSUME VolumesInv, CopySucceeds
    PROVE  VolumesInv'
<1>1. backups \in Contents /\ job.fs \in FileSystems
  BY NumberFacts, JobKinds DEF CopySucceeds, VolumesInv, TypeOK, RecordTypes, Idle
<1>2. StoreTypes' /\ RecordTypes' /\ RecordedFirst' /\ LatestKept'
  BY <1>1, CopyKeeps DEF CopySucceeds, Answer
<1>3. answer' \in Answers /\ answer'.op # "recover"
  BY <1>1, BackupAnswerSilent DEF CopySucceeds, Answer
<1> QED
  BY <1>2, <1>3, CopyEnds DEF CopySucceeds, Answer, VolumesInv, TypeOK, FlagTypes

LEMMA CopyFailsInv ==
    ASSUME VolumesInv, CopyFails
    PROVE  VolumesInv'
<1>1. job.fs \in FileSystems /\ job.vol \in Volumes
  BY JobKinds DEF CopyFails, VolumesInv, TypeOK
<1>2. PICK files \in {Shown(job.vol, job.fs), Mixed} : Store(job.vol, job.fs, files)
  BY DEF CopyFails
<1>3. files \in Contents
  BY <1>1, NumberFacts, ShownType DEF Mixed, VolumesInv, TypeOK
<1>4. StoreTypes' /\ RecordTypes' /\ RecordedFirst' /\ LatestKept'
  BY <1>2, <1>3, CopyKeeps DEF CopyFails, Answer
<1>5. answer' \in Answers /\ answer'.op # "recover"
  BY <1>1, BackupAnswerSilent DEF CopyFails, Answer
<1> QED
  BY <1>4, <1>5, CopyEnds DEF CopyFails, Answer, VolumesInv, TypeOK, FlagTypes

-----------------------------------------------------------------------------
(* The end of a process, the start of another, and the host.                   *)

\* Every stream that is leaked is one of a backup.
LEMMA FopenFailsInv ==
    ASSUME VolumesInv, up, FopenFails
    PROVE  VolumesInv'
<1> USE NumberFacts
<1>1. /\ leaked = MaxStreams /\ up' = FALSE /\ job' = Idle /\ answer' = NoAnswer
      /\ UNCHANGED <<leaked, fileVars, mounts, store, record, rebooted, served>>
  BY DEF FopenFails
<1>2. TypeOK'
  <2>1. FileTypes' /\ StoreTypes' /\ RecordTypes' /\ MountTypes'
    BY <1>1 DEF VolumesInv, TypeOK, FileTypes, StoreTypes, RecordTypes, MountTypes,
                store, record, mounts, fileVars
  <2>2. CounterTypes'
    BY <1>1 DEF VolumesInv, TypeOK, CounterTypes
  <2>3. FlagTypes'
    BY DEF FopenFails, VolumesInv, TypeOK, FlagTypes
  <2>4. job' \in Jobs /\ answer' \in Answers
    BY <1>1, NoAnswerSilent DEF Jobs
  <2> QED
    BY <2>1, <2>2, <2>3, <2>4 DEF TypeOK
<1>3. JobConsistent' /\ CopiesOntoVolume'
  BY <1>1 DEF JobConsistent, CopiesOntoVolume, Idle
<1>4. StreamsCounted'
  BY <1>1 DEF VolumesInv, StreamsCounted, Idle, record
<1>5. ListUsable' /\ RecordedFirst'
  BY <1>1, FileFrame, RecordedFrame DEF VolumesInv, fileVars
<1>6. LatestKept'
  BY <1>1, KeptFrame DEF VolumesInv
<1>7. RecoversLatest'
  BY <1>1, NoAnswerSilent, SilentFrame
<1>8. served' >= MaxStreams
  BY <1>1 DEF VolumesInv, StreamsCounted
<1> QED
  BY <1>2, <1>3, <1>4, <1>5, <1>6, <1>7, <1>8 DEF VolumesInv, DiesOfBackupsOnly

LEMMA CrashInv ==
    ASSUME VolumesInv, Crash
    PROVE  VolumesInv'
<1>1. /\ up' = FALSE /\ job' = Idle /\ answer' = NoAnswer
      /\ UNCHANGED <<leaked, fileVars, mounts, backups, good, rebooted, served, exhausted>>
  BY DEF Crash
<1>2. StoreTypes' /\ RecordTypes' /\ RecordedFirst' /\ LatestKept'
  <2>1. CASE job.pc = "copy"
    <3>1. job.fs \in FileSystems /\ job.vol \in Volumes
      BY <2>1, JobKinds DEF VolumesInv, TypeOK
    <3>2. PICK files \in {Shown(job.vol, job.fs), Mixed, backups} : Store(job.vol, job.fs, files)
      BY <2>1 DEF Crash
    <3>3. files \in Contents
      BY <3>1, NumberFacts, ShownType DEF Mixed, VolumesInv, TypeOK, RecordTypes
    <3>4. tried' = [tried EXCEPT ![job.fs] = backups]
      BY <2>1 DEF Crash
    <3> QED
      BY <1>1, <2>1, <3>2, <3>3, <3>4, CopyKeeps
  <2>2. CASE job.pc # "copy"
    <3>1. UNCHANGED <<store, tried>>
      BY <2>2 DEF Crash
    <3>2. StoreTypes' /\ RecordTypes'
      BY <1>1, <3>1 DEF VolumesInv, TypeOK, StoreTypes, RecordTypes, store
    <3>3. RecordedFirst' /\ LatestKept'
      BY <1>1, <3>1, RecordedFrame, KeptFrame DEF VolumesInv, fileVars, record
    <3> QED
      BY <3>2, <3>3
  <2> QED
    BY <2>1, <2>2
<1> QED
  BY <1>1, <1>2, CopyEnds, NoAnswerSilent

\* A new process knows what the file says and has no stream open.
LEMMA RestartInv ==
    ASSUME VolumesInv, Restart
    PROVE  VolumesInv'
<1> USE NumberFacts
<1>1. /\ leaked' = 0 /\ served' = 0
      /\ UNCHANGED <<fileVars, mounts, store, job, answer, record, rebooted>>
  BY DEF Restart
<1>2. job = Idle
  BY DEF Restart, VolumesInv, JobConsistent
<1>3. TypeOK'
  <2>1. FileTypes' /\ StoreTypes' /\ RecordTypes' /\ MountTypes'
    BY <1>1 DEF VolumesInv, TypeOK, FileTypes, StoreTypes, RecordTypes, MountTypes,
                store, record, mounts, fileVars
  <2>2. CounterTypes'
    BY <1>1 DEF CounterTypes
  <2>3. FlagTypes'
    BY DEF Restart, VolumesInv, TypeOK, FlagTypes
  <2>4. job' \in Jobs /\ answer' \in Answers
    BY <1>1 DEF VolumesInv, TypeOK
  <2> QED
    BY <2>1, <2>2, <2>3, <2>4 DEF TypeOK
<1>4. JobConsistent' /\ CopiesOntoVolume'
  BY <1>1, <1>2 DEF JobConsistent, CopiesOntoVolume, Idle
<1>5. StreamsCounted'
  BY <1>1, <1>2 DEF VolumesInv, TypeOK, RecordTypes, StreamsCounted, Idle, record
<1>6. ListUsable' /\ RecordedFirst'
  BY <1>1, FileFrame, RecordedFrame DEF VolumesInv, fileVars
<1>7. LatestKept'
  BY <1>1, <1>2, KeptFrame DEF VolumesInv
<1>8. RecoversLatest'
  BY <1>1 DEF VolumesInv, RecoversLatest, record, mounts
<1>9. DiesOfBackupsOnly'
  BY DEF Restart, DiesOfBackupsOnly
<1> QED
  BY <1>3, <1>4, <1>5, <1>6, <1>7, <1>8, <1>9 DEF VolumesInv

\* A reboot hides what is on the volumes; if no mount has failed, that is all
\* there is.
LEMMA RebootInv ==
    ASSUME VolumesInv, Reboot
    PROVE  VolumesInv'
<1> USE NumberFacts
<1>1. /\ mounted' = {} /\ failed' = {} /\ rebooted' = TRUE
      /\ UNCHANGED <<up, leaked, fileVars, mountFailed, store, job, answer, record,
                     served, exhausted>>
  BY DEF Reboot
<1>2. job = Idle
  BY DEF Reboot, VolumesInv, JobConsistent
<1>3. TypeOK'
  <2>1. FileTypes' /\ StoreTypes' /\ RecordTypes' /\ MountTypes'
    BY <1>1 DEF VolumesInv, TypeOK, FileTypes, StoreTypes, RecordTypes, MountTypes,
                store, record, fileVars
  <2>2. CounterTypes'
    BY <1>1 DEF VolumesInv, TypeOK, CounterTypes
  <2>3. FlagTypes'
    BY <1>1 DEF VolumesInv, TypeOK, FlagTypes
  <2>4. job' \in Jobs /\ answer' \in Answers
    BY <1>1 DEF VolumesInv, TypeOK
  <2> QED
    BY <2>1, <2>2, <2>3, <2>4 DEF TypeOK
<1>4. JobConsistent' /\ CopiesOntoVolume'
  BY <1>1, <1>2 DEF JobConsistent, CopiesOntoVolume, Idle
<1>5. StreamsCounted'
  BY <1>1, <1>2 DEF VolumesInv, StreamsCounted, Idle, record
<1>6. ListUsable' /\ RecordedFirst'
  BY <1>1, FileFrame, RecordedFrame DEF VolumesInv, fileVars
<1>7. LatestKept'
  <2>1. UNCHANGED <<onVolume, bare, tried, good, backups, mountFailed, job>>
    BY <1>1 DEF store, record
  <2> QED
    BY <1>1, <1>2, <2>1 DEF VolumesInv, LatestKept
<1>8. RecoversLatest'
  BY <1>1 DEF VolumesInv, RecoversLatest, record
<1>9. DiesOfBackupsOnly'
  BY <1>1 DEF VolumesInv, DiesOfBackupsOnly
<1> QED
  BY <1>3, <1>4, <1>5, <1>6, <1>7, <1>8, <1>9 DEF VolumesInv

-----------------------------------------------------------------------------
(* START_RECOVER.                                                              *)

\* A recovery changes the answer only.
LEMMA RecoverEnds ==
    ASSUME VolumesInv, answer' \in Answers, RecoversLatest', job = Idle, job' = Idle,
           UNCHANGED <<up, leaked, fileVars, mounts, store, record, rebooted, served, exhausted>>
    PROVE  VolumesInv'
<1>1. TypeOK'
  <2>1. FileTypes' /\ StoreTypes' /\ RecordTypes' /\ MountTypes'
    BY DEF VolumesInv, TypeOK, FileTypes, StoreTypes, RecordTypes, MountTypes,
           store, record, mounts, fileVars
  <2>2. CounterTypes' /\ FlagTypes'
    BY DEF VolumesInv, TypeOK, CounterTypes, FlagTypes
  <2>3. job' \in Jobs
    BY DEF Jobs
  <2> QED
    BY <2>1, <2>2, <2>3 DEF TypeOK
<1>2. JobConsistent' /\ CopiesOntoVolume'
  BY DEF JobConsistent, CopiesOntoVolume, Idle
<1>3. StreamsCounted' /\ DiesOfBackupsOnly'
  BY DEF VolumesInv, StreamsCounted, DiesOfBackupsOnly, Idle, record
<1>4. ListUsable' /\ RecordedFirst' /\ LatestKept'
  BY FileFrame, RecordedFrame, KeptFrame DEF VolumesInv, fileVars
<1> QED
  BY <1>1, <1>2, <1>3, <1>4 DEF VolumesInv

\* A successful recovery finds files, which are only where the file says, and
\* there they are those of the last backup.
LEMMA RecoverInv ==
    ASSUME VolumesInv, NEW fs \in FileSystems, Recover(fs)
    PROVE  VolumesInv'
<1> USE NumberFacts
<1>1. /\ job = Idle /\ job' = Idle
      /\ UNCHANGED <<up, leaked, fileVars, mounts, store, record, rebooted, served, exhausted>>
  BY DEF Recover, Answer
<1>2. CASE answer' = [op |-> "recover", fs |-> fs, ok |-> FALSE]
  <2>1. answer' \in [op : {"recover"}, fs : FileSystems, ok : {FALSE}]
    BY <1>2
  <2>2. answer' \in Answers
    BY <2>1 DEF Answers
  <2>3. RecoversLatest'
    BY <1>2 DEF RecoversLatest
  <2> QED
    BY <1>1, <2>2, <2>3, RecoverEnds
<1>3. CASE answer' # [op |-> "recover", fs |-> fs, ok |-> FALSE]
  <2>1. PICK v \in IF Matches(file, fs) = {} THEN Volumes
                   ELSE {file[i].vol : i \in FoundLast(file, fs)} :
           /\ Shown(v, fs) # Nothing
           /\ answer' = [op |-> "recover", fs |-> fs, ok |-> TRUE, files |-> Shown(v, fs)]
    BY <1>3 DEF Recover, Answer
  <2>2. v \in Volumes
    BY <2>1, LineFacts DEF FoundLast, Matches, VolumesInv, TypeOK
  <2>3. Shown(v, fs) \in Contents
    BY <2>2, ShownType DEF VolumesInv, TypeOK
  <2>4. answer' \in [op : {"recover"}, fs : FileSystems, ok : {TRUE}, files : Contents]
    BY <2>1, <2>3
  <2>5. answer' \in Answers
    BY <2>4 DEF Answers
  <2>6. ASSUME tried[fs] = good[fs], ~(mountFailed /\ rebooted)
        PROVE  Shown(v, fs) = good[fs]
    <3>1. /\ onVolume[v][fs] \in {Nothing, good[fs]}
          /\ v \notin mounted => bare[v][fs] \in {Nothing, good[fs]}
      BY <2>2, <2>6 DEF VolumesInv, LatestKept
    <3> QED
      BY <2>1, <3>1 DEF Shown
  <2>7. RecoversLatest'
    BY <1>1, <2>1, <2>6 DEF RecoversLatest, mounts, record
  <2> QED
    BY <1>1, <2>5, <2>7, RecoverEnds
<1> QED
  BY <1>2, <1>3

-----------------------------------------------------------------------------
LEMMA StutterInv ==
    ASSUME VolumesInv, UNCHANGED vars
    PROVE  VolumesInv'
BY DEF VolumesInv, TypeOK, FileTypes, MountTypes, StoreTypes, RecordTypes, CounterTypes,
       FlagTypes, JobConsistent, StreamsCounted, ListUsable, RecordedFirst,
       CopiesOntoVolume, LatestKept, RecoversLatest, DiesOfBackupsOnly,
       vars, fileVars, mounts, store, record

LEMMA NextInv == VolumesInv /\ [Next]_vars => VolumesInv'
<1> SUFFICES ASSUME VolumesInv, [Next]_vars PROVE VolumesInv'
  OBVIOUS
<1>1. CASE \E fs \in FileSystems : BeginBackup(fs)
  BY <1>1, BeginBackupInv
<1>2. CASE \E fs \in FileSystems : Recover(fs)
  BY <1>2, RecoverInv
<1>3. CASE ReadVolumeList
  BY <1>3, ReadVolumeListInv
<1>4. CASE SetHostConfig
  BY <1>4, SetHostConfigInv
<1>5. CASE UseRecorded
  BY <1>5, UseRecordedInv
<1>6. CASE RecordNew
  BY <1>6, RecordNewInv
<1>7. CASE MountNew
  BY <1>7, MountNewInv
<1>8. CASE CopySucceeds
  BY <1>8, CopySucceedsInv
<1>9. CASE CopyFails
  BY <1>9, CopyFailsInv
<1>10. CASE BackupDies
  BY <1>10, FopenFailsInv DEF BackupDies, VolumesInv, JobConsistent, Idle
<1>11. CASE Crash
  BY <1>11, CrashInv
<1>12. CASE Restart
  BY <1>12, RestartInv
<1>13. CASE Reboot
  BY <1>13, RebootInv
<1>14. CASE UNCHANGED vars
  BY <1>14, StutterInv
<1> QED
  BY <1>1, <1>2, <1>3, <1>4, <1>5, <1>6, <1>7, <1>8, <1>9, <1>10, <1>11, <1>12,
     <1>13, <1>14 DEF Next

\* In every reachable state, through failed mounts and copies, deaths of the
\* process and reboots of the host: the file, the mounts, the directories and
\* the running handler fit together.
THEOREM VolumesInvariant == Spec => []VolumesInv
<1>1. Init => VolumesInv
  BY InitInv
<1>2. VolumesInv /\ [Next]_vars => VolumesInv'
  BY NextInv
<1> QED
  BY <1>1, <1>2, PTL DEF Spec

\* The file has its first line before any other, and no file system twice.
THEOREM ListStaysUsable == Spec => []ListUsable
<1>1. VolumesInv => ListUsable
  BY DEF VolumesInv
<1> QED
  BY <1>1, VolumesInvariant, PTL

\* Files are only where the file says.
THEOREM AlwaysRecordedFirst == Spec => []RecordedFirst
<1>1. VolumesInv => RecordedFirst
  BY DEF VolumesInv
<1> QED
  BY <1>1, VolumesInvariant, PTL

\* rsync copies onto a mounted volume, or onto one that a mount has failed for.
THEOREM AlwaysOntoVolume == Spec => []CopiesOntoVolume
<1>1. VolumesInv => CopiesOntoVolume
  BY DEF VolumesInv
<1> QED
  BY <1>1, VolumesInvariant, PTL

\* What is recovered is the last backup, if that was a good one, unless a mount
\* has failed and the host was rebooted.
THEOREM AlwaysRecoversLatest == Spec => []RecoversLatest
<1>1. VolumesInv => RecoversLatest
  BY DEF VolumesInv
<1> QED
  BY <1>1, VolumesInvariant, PTL

\* A process that runs out of streams has begun as many backups.
THEOREM OnlyBackupsExhaust == Spec => []DiesOfBackupsOnly
<1>1. VolumesInv => DiesOfBackupsOnly
  BY DEF VolumesInv
<1> QED
  BY <1>1, VolumesInvariant, PTL
=============================================================================
