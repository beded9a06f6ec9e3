--------------------------- MODULE BackupVolumes ---------------------------
(***************************************************************************)
(* Where backups go: utils/src/vol_info.c, and the parts of                *)
(* ndmp_data_start_backup and ndmp_data_start_recover                      *)
(* (ndmp/src/ndmp_data.c) that choose a volume, mount it and call rsync.   *)
(*                                                                         *)
(* The file gluster_vol_usage has a first line with the address of the     *)
(* host and the directory of its mount points, and then a line per file    *)
(* system with the volume that its backups go to.  A backup reads the file *)
(* and mounts what it lists, asks the operator on the console for what is  *)
(* missing, and copies the client's files below the mount point of the     *)
(* volume.  Files copied there while the volume is not mounted land in the *)
(* directory under the mount point.                                        *)
(*                                                                         *)
(* The only thread of the pool (comm/src/worker.h:21) runs these handlers, *)
(* so there is one at a time.  Requests are legal ones: DataServer models  *)
(* the data states.  A file system stands for the concatenation of the     *)
(* client's address and path, and names fit the buffers of the code.  The  *)
(* rsync of a process that dies ends before the next process starts.       *)
(***************************************************************************)
EXTENDS Integers, Sequences

CONSTANTS FileSystems,  \* what clients back up, "IP/FILESYSTEM"
          Volumes,      \* the gluster volumes that the operator can name
          MaxBackups,   \* bound: backups that clients ask for
          MaxStreams    \* streams the process can open besides its sockets

ASSUME BackupVolumesAssumption ==
    /\ MaxBackups \in Nat
    /\ MaxStreams \in Nat \ {0}

(***************************************************************************)
(* What a directory holds of a file system: the copy of some backup, no    *)
(* copy at all, or what an rsync that failed or was cut short left there.  *)
(***************************************************************************)
Nothing == 0
Mixed == -1
Contents == -1 .. MaxBackups

VARIABLES
    up,          \* the server process runs
    leaked,      \* streams of the process that are never closed
    header,      \* the file has its first line
    file,        \* the other lines of the file
    mounted,     \* the volumes that are mounted, by any process since the boot
    onVolume,    \* onVolume[v][fs]: what volume v holds of file system fs
    bare,        \* bare[v][fs]: what the directory under the mount point holds
    job,         \* the handler that the worker runs
    answer,      \* the reply to the last request
    backups,     \* number of backups asked for
    tried,       \* history: the last backup of each file system that ran rsync
    good,        \* history: the last one that was answered NDMP_NO_ERR
    failed,      \* history: volumes that a mount since the boot has failed for
    rebooted,    \* history: the host was rebooted
    mountFailed, \* history: a mount has failed
    served,      \* history: backups that this process has begun
    exhausted    \* history: this process has died at fopen

fileVars == <<header, file>>
store    == <<onVolume, bare>>
mounts   == <<mounted, failed, mountFailed>>
record   == <<backups, tried, good>>
vars == <<up, leaked, fileVars, mounts, store, job, answer, record, rebooted,
          served, exhausted>>

Lines == [vol : Volumes, fs : FileSystems]

Idle == [pc |-> "idle"]
Jobs == {Idle}
   \cup [pc : {"list"}, fs : FileSystems]
   \cup [pc : {"host", "find"}, fs : FileSystems, list : Seq(Lines)]
   \cup [pc : {"mount", "copy"}, fs : FileSystems, vol : Volumes]

NoAnswer == [op |-> "none"]
Answers == {NoAnswer}
      \cup [op : {"backup"}, fs : FileSystems, ok : BOOLEAN]
      \cup [op : {"recover"}, fs : FileSystems, ok : {FALSE}]
      \cup [op : {"recover"}, fs : FileSystems, ok : {TRUE}, files : Contents]

FileTypes == header \in BOOLEAN /\ file \in Seq(Lines)
MountTypes == mounted \subseteq Volumes /\ failed \subseteq Volumes /\ mountFailed \in BOOLEAN
StoreTypes == {onVolume, bare} \subseteq [Volumes -> [FileSystems -> Contents]]
RecordTypes == backups \in 0..MaxBackups /\ {tried, good} \subseteq [FileSystems -> 0..MaxBackups]
CounterTypes == leaked \in 0..MaxStreams /\ served \in 0..MaxBackups
FlagTypes == {up, exhausted, rebooted} \subseteq BOOLEAN

TypeOK ==
    /\ FileTypes
    /\ MountTypes
    /\ StoreTypes
    /\ RecordTypes
    /\ CounterTypes
    /\ FlagTypes
    /\ job \in Jobs
    /\ answer \in Answers

Init ==
    /\ up = TRUE
    /\ leaked = 0
    /\ header = FALSE
    /\ file = <<>>
    /\ mounted = {}
    /\ onVolume = [v \in Volumes |-> [fs \in FileSystems |-> Nothing]]
    /\ bare = [v \in Volumes |-> [fs \in FileSystems |-> Nothing]]
    /\ job = Idle
    /\ answer = NoAnswer
    /\ backups = 0
    /\ tried = [fs \in FileSystems |-> 0]
    /\ good = [fs \in FileSystems |-> 0]
    /\ failed = {}
    /\ rebooted = FALSE
    /\ mountFailed = FALSE
    /\ served = 0
    /\ exhausted = FALSE

-----------------------------------------------------------------------------
(***************************************************************************)
(* The file, and the directory of a file system on a volume.               *)
(***************************************************************************)

Listed(list) == {list[i].vol : i \in DOMAIN list}

\* The places in a list of lines where file system fs stands.
Matches(list, fs) == {i \in DOMAIN list : list[i].fs = fs}

\* Seeded bug: only the head of the list is compared.
Found_Head(list, fs) == {i \in Matches(list, fs) : i = 1}

\* find() of vol_info.c returns the first node of the file system, or NULL.
Found(list, fs) == {i \in Matches(list, fs) : \A j \in Matches(list, fs) : i <= j}

\* start_recover goes on to the last line of the file system.
FoundLast(list, fs) == {i \in Matches(list, fs) : \A j \in Matches(list, fs) : i >= j}

\* What a path below the mount point of volume v shows of fs.
Shown(v, fs) == IF v \in mounted THEN onVolume[v][fs] ELSE bare[v][fs]

\* The directory of fs that is shown for v holds `files' from now on.
Store(v, fs, files) ==
    IF v \in mounted
    THEN onVolume' = [onVolume EXCEPT ![v][fs] = files] /\ UNCHANGED bare
    ELSE bare' = [bare EXCEPT ![v][fs] = files] /\ UNCHANGED onVolume

\* fopen() returns NULL, which the next fscanf() dereferences.
FopenFails ==
    /\ leaked = MaxStreams
    /\ up' = FALSE
    /\ job' = Idle
    /\ answer' = NoAnswer
    /\ exhausted' = TRUE
    /\ UNCHANGED <<leaked, fileVars, mounts, store, record, rebooted, served>>

\* mount(8) is called for the volumes `tries' and succeeds for `got'.  For a
\* volume that is mounted already it may report either.
Mount(tries, got) ==
    /\ mounted' = mounted \cup got
    /\ failed' = failed \cup (tries \ (mounted \cup got))
    /\ mountFailed' = (mountFailed \/ ~(tries \subseteq mounted \cup got))

Answer(reply) == job' = Idle /\ answer' = reply

-----------------------------------------------------------------------------
(***************************************************************************)
(* NDMP_DATA_START_BACKUP, from the call of init_vol_fs_list on.           *)
(***************************************************************************)

BeginBackup(fs) ==
    /\ up
    /\ job = Idle
    /\ backups < MaxBackups
    /\ backups' = backups + 1
    /\ served' = served + 1
    /\ job' = [pc |-> "list", fs |-> fs]
    /\ answer' = NoAnswer
    /\ UNCHANGED <<up, leaked, fileVars, mounts, store, tried, good, rebooted, exhausted>>

\* Seeded bug: the volumes of the file are not mounted.
ReadVolumeList_NoMount ==
    /\ job.pc = "list"
    /\ leaked < MaxStreams
    /\ leaked' = leaked + 1
    /\ job' = [pc |-> "host", fs |-> job.fs, list |-> file]
    /\ UNCHANGED <<up, fileVars, store, answer, record, mounts, rebooted, served, exhausted>>

\* init_vol_fs_list reads the lines and mounts the volume of each, every time,
\* because mount_done is set after the return.  So is the fclose().
ReadVolumeList ==
    /\ job.pc = "list"
    /\ leaked < MaxStreams
    /\ leaked' = leaked + 1
    /\ \E got \in SUBSET Listed(file) : Mount(Listed(file), got)
    /\ job' = [pc |-> "host", fs |-> job.fs, list |-> file]
    /\ UNCHANGED <<up, fileVars, store, answer, record, rebooted, served, exhausted>>

\* set_host_config: the operator enters the first line if there is none.
SetHostConfig ==
    /\ job.pc = "host"
    /\ leaked < MaxStreams
    /\ header' = TRUE
    /\ job' = [job EXCEPT !.pc = "find"]
    /\ UNCHANGED <<up, leaked, file, mounts, store, answer, record, rebooted, served, exhausted>>

\* Seeded bug: vol_name is not copied from the node that was found.
UseRecorded_Uninitialised ==
    /\ job.pc = "find"
    /\ Found(job.list, job.fs) # {}
    /\ job' = [pc |-> "copy", fs |-> job.fs, vol |-> "uninitialised"]
    /\ UNCHANGED <<up, leaked, fileVars, mounts, store, answer, record, rebooted,
                   served, exhausted>>

\* The list that was read before the questions to the operator has the file
\* system: its volume is used, and taken for mounted.
UseRecorded ==
    /\ job.pc = "find"
    /\ \E i \in Found(job.list, job.fs) :
          job' = [pc |-> "copy", fs |-> job.fs, vol |-> job.list[i].vol]
    /\ UNCHANGED <<up, leaked, fileVars, mounts, store, answer, record, rebooted,
                   served, exhausted>>

\* Seeded bug: the line stays in the buffer of a stream that is not closed.
RecordNew_Unflushed ==
    /\ job.pc = "find"
    /\ Found(job.list, job.fs) = {}
    /\ \E v \in Volumes : job' = [pc |-> "mount", fs |-> job.fs, vol |-> v]
    /\ UNCHANGED <<up, leaked, header, file, mounts, store, answer, record, rebooted,
                   served, exhausted>>

\* The list does not have it: the operator names a volume, which is written to
\* the file before anything is mounted.
RecordNew ==
    /\ job.pc = "find"
    /\ Found(job.list, job.fs) = {}
    /\ \E v \in Volumes :
          /\ file' = Append(file, [vol |-> v, fs |-> job.fs])
          /\ job' = [pc |-> "mount", fs |-> job.fs, vol |-> v]
    /\ UNCHANGED <<up, leaked, header, mounts, store, answer, record, rebooted,
                   served, exhausted>>

\* The new volume is mounted; the backup is refused when mount(8) reports a
\* failure.  The line of the file stays.
MountNew ==
    /\ job.pc = "mount"
    /\ \/ /\ Mount({job.vol}, {job.vol})
          /\ job' = [job EXCEPT !.pc = "copy"]
          /\ UNCHANGED answer
       \/ /\ Mount({job.vol}, {})
          /\ Answer([op |-> "backup", fs |-> job.fs, ok |-> FALSE])
    /\ UNCHANGED <<up, leaked, fileVars, store, record, rebooted, served, exhausted>>

\* mkdir and rsync succeed.
CopySucceeds ==
    /\ job.pc = "copy"
    /\ Store(job.vol, job.fs, backups)
    /\ tried' = [tried EXCEPT ![job.fs] = backups]
    /\ good' = [good EXCEPT ![job.fs] = backups]
    /\ Answer([op |-> "backup", fs |-> job.fs, ok |-> TRUE])
    /\ UNCHANGED <<up, leaked, fileVars, mounts, backups, rebooted, served, exhausted>>

\* Seeded bug: the status of rsync is not looked at.
CopyFails_Unnoticed ==
    /\ job.pc = "copy"
    /\ Store(job.vol, job.fs, Mixed)
    /\ tried' = [tried EXCEPT ![job.fs] = backups]
    /\ good' = [good EXCEPT ![job.fs] = backups]
    /\ Answer([op |-> "backup", fs |-> job.fs, ok |-> TRUE])
    /\ UNCHANGED <<up, leaked, fileVars, mounts, backups, rebooted, served, exhausted>>

\* One of them fails, having copied nothing, or some of the files.
CopyFails ==
    /\ job.pc = "copy"
    /\ \E files \in {Shown(job.vol, job.fs), Mixed} : Store(job.vol, job.fs, files)
    /\ tried' = [tried EXCEPT ![job.fs] = backups]
    /\ Answer([op |-> "backup", fs |-> job.fs, ok |-> FALSE])
    /\ UNCHANGED <<up, leaked, fileVars, mounts, backups, good, rebooted, served, exhausted>>

\* One of the two functions of vol_info.c cannot open the file.
BackupDies == job.pc \in {"list", "host"} /\ FopenFails

-----------------------------------------------------------------------------
(***************************************************************************)
(* NDMP_DATA_START_RECOVER, from its fopen() on.                           *)
(***************************************************************************)

\* Seeded bug: the stream is not closed.
Recover_Leaks(fs) ==
    /\ up
    /\ job = Idle
    /\ leaked < MaxStreams
    /\ leaked' = leaked + 1
    /\ Answer([op |-> "recover", fs |-> fs, ok |-> FALSE])
    /\ UNCHANGED <<up, fileVars, mounts, store, record, rebooted, served, exhausted>>

\* The files are taken from the volume of the last line of the file system,
\* mounted or not; without a line vol_name is uninitialised, and is the name of
\* any volume or of none.  rsync fails if the directory is not there.  fopen()
\* succeeds, for a backup that leaves no stream dies itself (StreamsCounted).
Recover(fs) ==
    /\ up
    /\ job = Idle
    /\ leaked < MaxStreams
    /\ \/ \E v \in IF Matches(file, fs) = {} THEN Volumes
                   ELSE {file[i].vol : i \in FoundLast(file, fs)} :
             /\ Shown(v, fs) # Nothing
             /\ Answer([op |-> "recover", fs |-> fs, ok |-> TRUE, files |-> Shown(v, fs)])
       \/ Answer([op |-> "recover", fs |-> fs, ok |-> FALSE])
    /\ UNCHANGED <<up, leaked, fileVars, mounts, store, record, rebooted, served, exhausted>>

-----------------------------------------------------------------------------
(***************************************************************************)
(* The process and the host.                                               *)
(***************************************************************************)

\* The process dies, at any point.  What it was copying is not there, there
\* in part, or there.
Crash ==
    /\ up
    /\ up' = FALSE
    /\ job' = Idle
    /\ answer' = NoAnswer
    /\ IF job.pc = "copy"
       THEN /\ \E files \in {Shown(job.vol, job.fs), Mixed, backups} :
                  Store(job.vol, job.fs, files)
            /\ tried' = [tried EXCEPT ![job.fs] = backups]
       ELSE UNCHANGED <<store, tried>>
    /\ UNCHANGED <<leaked, fileVars, mounts, backups, good, rebooted, served, exhausted>>

\* A new process; what was mounted still is.
Restart ==
    /\ ~up
    /\ up' = TRUE
    /\ leaked' = 0
    /\ served' = 0
    /\ exhausted' = FALSE
    /\ UNCHANGED <<fileVars, mounts, store, job, answer, record, rebooted>>

\* The host goes down and comes up, and nothing is mounted.
Reboot ==
    /\ ~up
    /\ mounted' = {}
    /\ failed' = {}
    /\ rebooted' = TRUE
    /\ UNCHANGED <<up, leaked, fileVars, mountFailed, store, job, answer, record,
                   served, exhausted>>

Next ==
    \/ \E fs \in FileSystems : BeginBackup(fs) \/ Recover(fs)
    \/ ReadVolumeList
    \/ SetHostConfig
    \/ UseRecorded
    \/ RecordNew
    \/ MountNew
    \/ CopySucceeds
    \/ CopyFails
    \/ BackupDies
    \/ Crash
    \/ Restart
    \/ Reboot

Spec == Init /\ [][Next]_vars

-----------------------------------------------------------------------------
(***************************************************************************)
(* Properties.                                                             *)
(***************************************************************************)

\* The filesystem "uniquely identifies a node in a list" (vol_info.h:15), on
\* which it rests that backups, which go to the first line of a file system,
\* and recoveries, which read the last one, use the same volume; no crash
\* between the questions to the operator leaves a file without its first line,
\* whose lines would be read as something else.
ListUsable ==
    /\ file # <<>> => header
    /\ \A i, j \in DOMAIN file : file[i].fs = file[j].fs => i = j

\* Files are nowhere but on the volume that the file has for their file system,
\* so that after any crash a later process finds them (ndmp_data.c:381-386).
RecordedFirst == \A v \in Volumes, fs \in FileSystems :
    onVolume[v][fs] # Nothing \/ bare[v][fs] # Nothing =>
        \E i \in DOMAIN file : file[i] = [vol |-> v, fs |-> fs]

\* rsync runs on a volume that is mounted, after a reboot too, unless a mount
\* of that volume has failed since the boot.
CopiesOntoVolume == job.pc = "copy" => job.vol \in mounted \cup failed

\* What NDMP_NO_ERR gives back to the client is its last backup, if that was
\* answered NDMP_NO_ERR, whatever crashed in between; unless a mount has failed
\* and the host was rebooted, so that there are two places with old files.
RecoversLatest ==
    answer.op = "recover" /\ answer.ok /\ tried[answer.fs] = good[answer.fs] =>
        answer.files = good[answer.fs] \/ (mountFailed /\ rebooted)

\* Only backups use up the streams of a process, one each: the process survives
\* any number of recoveries, and dies at fopen in no backup before the one that
\* opens the last stream (vol_info.c:131-133).
DiesOfBackupsOnly == exhausted => served >= MaxStreams

-----------------------------------------------------------------------------
(***************************************************************************)
(* The invariant these follow from.                                        *)
(***************************************************************************)

\* What a handler knows at each of its steps: the list it has read is still the
\* file, and what it is about to copy is in it.
JobConsistent ==
    /\ job # Idle => up /\ answer = NoAnswer
    /\ job.pc \in {"host", "find"} =>
          job.list = file /\ Listed(file) \subseteq mounted \cup failed
    /\ job.pc \in {"find", "mount", "copy"} => header
    /\ job.pc \in {"mount", "copy"} =>
          \E i \in DOMAIN file : file[i] = [vol |-> job.vol, fs |-> job.fs]

StreamsCounted ==
    /\ leaked <= served
    /\ served <= backups
    /\ job.pc = "list" => leaked < served
    /\ up /\ job.pc # "host" => leaked < MaxStreams

\* Where copies can be, if no mount has failed or the host was not rebooted; and
\* that it is the last one, if that was good.
LatestKept ==
    /\ \A fs \in FileSystems :
          good[fs] <= backups /\ (job # Idle => good[fs] < backups)
    /\ ~rebooted => \A v \in Volumes \ mounted, fs \in FileSystems : onVolume[v][fs] = Nothing
    /\ ~mountFailed => /\ failed = {}
                       /\ \A v \in Volumes, fs \in FileSystems : bare[v][fs] = Nothing
    /\ ~(mountFailed /\ rebooted) =>
          \A v \in Volumes, fs \in FileSystems : tried[fs] = good[fs] =>
              /\ onVolume[v][fs] \in {Nothing, good[fs]}
              /\ v \notin mounted => bare[v][fs] \in {Nothing, good[fs]}

VolumesInv ==
    /\ TypeOK
    /\ JobConsistent
    /\ StreamsCounted
    /\ ListUsable
    /\ RecordedFirst
    /\ CopiesOntoVolume
    /\ LatestKept
    /\ RecoversLatest
    /\ DiesOfBackupsOnly
=============================================================================
