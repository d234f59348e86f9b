----------------------------- MODULE PhotoStore -----------------------------
(***************************************************************************)
(* Saved photos on disk (media_storage.py, photo_files.py) and their       *)
(* library (photo_library.py, photo_api.py): private atomic writes, undoing *)
(* a write nobody wants any more, confirmed deletions, daily retention.    *)
(*                                                                         *)
(* Writing and deleting run in executor threads that exclude each other    *)
(* with MEDIA_DISK_LOCK; discard does not take that lock.  Everything else *)
(* is the event loop.  One folder stands for the day folders.  The names   *)
(* in it are the collision suffixes of one stem per kind of capture: the   *)
(* second in a stem is left out, so that names are taken and used again    *)
(* more often than on disk.  An inode number is the signature of a file.   *)
(***************************************************************************)
EXTENDS Integers, FiniteSets

CONSTANTS
  MaxNames,     \* bound: candidate names of each stem (range(10000) in the code)
  MaxInodes,    \* bound: files ever written
  MaxTime,      \* bound: half-days that pass
  RetentionDays \* the retention_days option, 0 when switched off

ASSUME StoreAssumption ==
  MaxNames \in Nat \ {0} /\ MaxInodes \in Nat \ {0} /\ MaxTime \in Nat /\ RetentionDays \in Nat

Captures == {"ring", "manual"}   \* RingImageCapture and ManualSnapshotCapture
Jobs == {"confirmed", "retention"}
Names == 1..2 * MaxNames
NamesOf(c) == IF c = "ring" THEN 1..MaxNames ELSE MaxNames + 1..2 * MaxNames
Inodes == 1..MaxInodes

VARIABLES
  disk,      \* the inode each name of the day folder points to, 0 for none
  folder,    \* the day folder exists
  stray,     \* a temporary file a crash left in the folder
  temporary, \* captures whose .welcomeeye-*.tmp is on disk
  diskLock,  \* holder of MEDIA_DISK_LOCK
  inode,     \* files written so far
  taken,     \* when each file was written, in half-days
  save,      \* where the save of each capture is
  saved,     \* the name it linked, 0 for none
  cancelled, \* its threading.Event
  link,      \* media_content_id of each capture, 0 for None
  token,     \* a confirmation token waits to be used
  plan,      \* the photos it would delete
  job,       \* where the deletions of the library are
  todo,      \* photos a deletion has still to look at
  gone,      \* names it deleted or found missing
  libLock,   \* holder of PhotoLibrary._lock
  libClosed, \* PhotoLibrary._closed, with its _cancelled event
  lastRun,   \* diagnostics['last_cleanup_run'], -1 for never
  stored,    \* the same in the Store file
  now,       \* the clock
  \* what happened; no action tests these
  published, \* files some capture was published with
  approved,  \* files an administrator confirmed or that retention selected
  leftover   \* files left behind by a discard that failed or by a crash

diskVars == <<disk, folder, temporary, diskLock, inode, taken>>
saveVars == <<save, saved, cancelled>>
libVars  == <<token, plan, job, todo, gone, libLock, libClosed, lastRun>>
storeVars == <<diskVars, saveVars, link, libVars, stored, now, published, approved, leftover, stray>>

-----------------------------------------------------------------------------
Photo == [name : Names, inode : Inodes]
Files == {p \in Photo : disk[p.name] = p.inode}
None == "none"
Day(t) == t \div 2
OldPhoto == 1   \* a file of an earlier version, whose name tells no time

StoreTypeOK ==
  /\ disk \in [Names -> 0..MaxInodes] /\ folder \in BOOLEAN /\ stray \in BOOLEAN
  /\ temporary \subseteq Captures /\ diskLock \in Captures \cup Jobs \cup {None}
  /\ inode \in 0..MaxInodes /\ taken \in [Inodes -> 0..MaxTime]
  /\ save \in [Captures -> {"idle", "queued", "temp", "linked", "done", "error", "discard"}]
  /\ saved \in [Captures -> 0..2 * MaxNames] /\ cancelled \in [Captures -> BOOLEAN]
  /\ link \in [Captures -> 0..2 * MaxNames]
  /\ token \in BOOLEAN /\ plan \subseteq Photo
  /\ job \in [Jobs -> {"idle", "lock", "exec", "unlink", "reconcile"}]
  /\ todo \in [Jobs -> SUBSET Photo] /\ gone \in [Jobs -> SUBSET Names]
  /\ libLock \in Jobs \cup {None} /\ libClosed \in BOOLEAN
  /\ lastRun \in -1..MaxTime /\ stored \in -1..MaxTime /\ now \in 0..MaxTime
  /\ published \subseteq Inodes /\ approved \subseteq Inodes /\ leftover \subseteq Inodes

StoreInit ==
  /\ disk \in {[n \in Names |-> 0], [n \in Names |-> IF n = 1 THEN OldPhoto ELSE 0]}
  /\ inode = OldPhoto /\ folder = (disk[1] = OldPhoto)
  /\ published = {disk[1]} \ {0}
  /\ taken = [i \in Inodes |-> 0]
  /\ temporary = {} /\ stray = FALSE /\ diskLock = None
  /\ save = [c \in Captures |-> "idle"] /\ saved = [c \in Captures |-> 0]
  /\ cancelled = [c \in Captures |-> FALSE] /\ link = [c \in Captures |-> 0]
  /\ token = FALSE /\ plan = {} /\ job = [j \in Jobs |-> "idle"]
  /\ todo = [j \in Jobs |-> {}] /\ gone = [j \in Jobs |-> {}]
  /\ libLock = None /\ libClosed = FALSE
  /\ lastRun = -1 /\ stored = -1 /\ now = 0
  /\ approved = {} /\ leftover = {}

-----------------------------------------------------------------------------
(* CaptureMediaStorage._write, in an executor thread                       *)

\* save_capture hands the JPEG to the executor; part of an action of the caller.
StartSave(c) ==
  /\ save' = [save EXCEPT ![c] = "queued"]
  /\ saved' = [saved EXCEPT ![c] = 0]
  /\ cancelled' = [cancelled EXCEPT ![c] = FALSE]

\* The tail of every way out: the temporary file goes, the lock is released.
WriteEnds(c, how) ==
  /\ save' = [save EXCEPT ![c] = how]
  /\ temporary' = temporary \ {c}
  /\ diskLock' = None

WriteBegins(c) ==
  /\ save[c] = "queued" /\ diskLock = None
  /\ \/ /\ cancelled[c]
        /\ WriteEnds(c, "done")
        /\ UNCHANGED folder
     \/ /\ ~cancelled[c]
        /\ folder' = TRUE
        /\ temporary' = temporary \cup {c}
        /\ diskLock' = c
        /\ save' = [save EXCEPT ![c] = "temp"]
  /\ UNCHANGED <<disk, inode, taken, saved, cancelled, link, libVars, stored, now, published, approved, leftover, stray>>

\* The disk is full, no media directory, links unsupported, bad JPEG, ...; with
\* the file linked, a temporary file that cannot be removed loses the result.
WriteFails(c) ==
  /\ \/ /\ save[c] = "temp" \/ (save[c] = "queued" /\ diskLock = None)
        /\ UNCHANGED <<saved, leftover>>
     \/ /\ save[c] = "linked"
        /\ leftover' = leftover \cup {disk[saved[c]]}
        /\ saved' = [saved EXCEPT ![c] = 0]
  /\ WriteEnds(c, "error")
  /\ UNCHANGED <<disk, folder, inode, taken, cancelled, link, libVars, stored, now, published, approved, stray>>

\* Mutant of FirstFree: the file is renamed into place, which overwrites.
FirstName(c, n) == \A m \in NamesOf(c) : n <= m

\* os.link never overwrites: the first free name of the stem is taken.
FirstFree(c, n) == disk[n] = 0 /\ \A m \in NamesOf(c) : m < n => disk[m] # 0

WriteLinks(c) ==
  /\ save[c] = "temp"
  /\ \/ /\ cancelled[c]
        /\ WriteEnds(c, "done")
        /\ UNCHANGED <<disk, inode, taken, saved>>
     \/ /\ ~cancelled[c] /\ inode < MaxInodes
        /\ \E n \in NamesOf(c) :
             /\ FirstFree(c, n)
             /\ disk' = [disk EXCEPT ![n] = inode + 1]
             /\ saved' = [saved EXCEPT ![c] = n]
        /\ inode' = inode + 1
        /\ taken' = [taken EXCEPT ![inode + 1] = now]
        /\ save' = [save EXCEPT ![c] = "linked"]
        /\ UNCHANGED <<temporary, diskLock>>
  /\ UNCHANGED <<folder, cancelled, link, libVars, stored, now, published, approved, leftover, stray>>

WriteChecksAgain(c) ==
  /\ save[c] = "linked"
  /\ WriteEnds(c, "done")
  /\ \/ /\ cancelled[c]
        /\ disk' = [disk EXCEPT ![saved[c]] = 0]
        /\ saved' = [saved EXCEPT ![c] = 0]
     \/ /\ ~cancelled[c]
        /\ UNCHANGED <<disk, saved>>
  /\ UNCHANGED <<folder, inode, taken, cancelled, link, libVars, stored, now, published, approved, leftover, stray>>

\* discard, in the executor without the lock: the file goes, or the unlink fails.
Discard(c) ==
  /\ save[c] = "discard"
  /\ save' = [save EXCEPT ![c] = "idle"]
  /\ saved' = [saved EXCEPT ![c] = 0]
  /\ \/ /\ saved[c] # 0
        /\ disk' = [disk EXCEPT ![saved[c]] = 0]
        /\ UNCHANGED leftover
     \/ /\ saved[c] # 0
        /\ leftover' = leftover \cup ({disk[saved[c]]} \ {0})
        /\ UNCHANGED disk
     \/ /\ saved[c] = 0
        /\ UNCHANGED <<disk, leftover>>
  /\ UNCHANGED <<folder, temporary, diskLock, inode, taken, cancelled, link, libVars, stored, now, published, approved, stray>>

-----------------------------------------------------------------------------
(* PhotoManager and PhotoLibrary                                           *)

\* prepare: an inventory under the disk lock; the plan lists exactly that.  The
\* scopes are a selection, a day or device (all), or empty folders only ({}).
Prepare ==
  /\ ~libClosed /\ diskLock = None /\ ~token
  /\ token' = TRUE
  /\ \E chosen \in SUBSET Files : plan' = chosen
  /\ UNCHANGED <<diskVars, saveVars, link, job, todo, gone, libLock, libClosed, lastRun, stored, now, published, approved, leftover, stray>>

\* cancel, or 120 s (CONFIRMATION_TTL)
PlanEnds ==
  /\ token
  /\ token' = FALSE /\ plan' = {}
  /\ UNCHANGED <<diskVars, saveVars, link, job, todo, gone, libLock, libClosed, lastRun, stored, now, published, approved, leftover, stray>>

InodesOf(photos) == {p.inode : p \in photos}

\* confirm: the token is used up before anything else; then delete up to its lock
Confirm ==
  /\ token /\ ~libClosed /\ job["confirmed"] = "idle"
  /\ token' = FALSE /\ plan' = {}
  /\ job' = [job EXCEPT !["confirmed"] = "lock"]
  /\ todo' = [todo EXCEPT !["confirmed"] = plan]
  /\ approved' = approved \cup InodesOf(plan)
  /\ UNCHANGED <<diskVars, saveVars, link, gone, libLock, libClosed, lastRun, stored, now, published, leftover, stray>>

\* cleanup up to `delete`: at most one attempt in 24 h, the attempt stored before
\* anything is deleted; when it cannot be stored nothing is.
CleanupAllowed == lastRun = -1 \/ now - lastRun >= 2

Cleanup ==
  /\ RetentionDays > 0 /\ ~libClosed
  /\ job["retention"] = "idle" /\ libLock = None
  /\ CleanupAllowed
  /\ stored' = now /\ lastRun' = now
  /\ job' = [job EXCEPT !["retention"] = "exec"]
  /\ UNCHANGED <<diskVars, saveVars, link, token, plan, todo, gone, libLock, libClosed, now, published, approved, leftover, stray>>

\* expired_photo: the day of the folder decides, on the boundary day the time in
\* the name, if it tells one.
Cutoff == now - 2 * RetentionDays
Expired(p) ==
  /\ Cutoff >= 0
  /\ \/ Day(taken[p.inode]) < Day(Cutoff)
     \/ Day(taken[p.inode]) = Day(Cutoff) /\ p.inode # OldPhoto /\ taken[p.inode] < Cutoff

\* list() without the library's lock, then delete() of what is too old
CleanupSelects ==
  /\ job["retention"] = "exec" /\ diskLock = None
  /\ IF libClosed
       THEN job' = [job EXCEPT !["retention"] = "idle"] /\ UNCHANGED <<todo, approved>>
       ELSE LET old == {p \in Files : Expired(p)} IN
            /\ todo' = [todo EXCEPT !["retention"] = old]
            /\ approved' = approved \cup InodesOf(old)
            /\ job' = [job EXCEPT !["retention"] = "lock"]
  /\ UNCHANGED <<diskVars, saveVars, link, token, plan, gone, libLock, libClosed, lastRun, stored, now, published, leftover, stray>>

\* work() of delete: closed while it waited for the lock, or on to the executor
DeleteBegins(j) ==
  /\ job[j] = "lock" /\ libLock = None
  /\ \/ /\ libClosed
        /\ job' = [job EXCEPT ![j] = "idle"]
        /\ todo' = [todo EXCEPT ![j] = {}]
        /\ UNCHANGED <<libLock, diskLock>>
     \/ /\ ~libClosed /\ diskLock = None
        /\ job' = [job EXCEPT ![j] = "unlink"]
        /\ libLock' = j /\ diskLock' = j
        /\ UNCHANGED todo
  /\ UNCHANGED <<disk, folder, temporary, inode, taken, saveVars, link, token, plan, gone, libClosed, lastRun, stored, now, published, approved, leftover, stray>>

\* delete_snapshot, one photo: _unlink refuses a file whose signature changed
Unchanged(p) == disk[p.name] = p.inode

DeleteOne(j) ==
  /\ job[j] = "unlink" /\ ~libClosed
  /\ \E p \in todo[j] :
       /\ todo' = [todo EXCEPT ![j] = @ \ {p}]
       /\ \/ /\ Unchanged(p)
             /\ disk' = [disk EXCEPT ![p.name] = 0]
             /\ gone' = [gone EXCEPT ![j] = @ \cup {p.name}]
          \/ /\ disk[p.name] = 0
             /\ gone' = [gone EXCEPT ![j] = @ \cup {p.name}]
             /\ UNCHANGED disk
          \/ /\ disk[p.name] # 0        \* photo_changed, or a file error
             /\ UNCHANGED <<disk, gone>>
  /\ UNCHANGED <<folder, temporary, diskLock, inode, taken, saveVars, link, token, plan, job, libLock, libClosed, lastRun, stored, now, published, approved, leftover, stray>>

\* Nothing is in it, a temporary file neither: rmdir would refuse
FolderEmpty == Files = {} /\ temporary = {} /\ ~stray

\* The rest of it: what a closing library leaves, then the folder if it is empty.
DeleteEnds(j) ==
  /\ job[j] = "unlink" /\ (todo[j] = {} \/ libClosed)
  /\ todo' = [todo EXCEPT ![j] = {}]
  /\ \/ /\ ~libClosed /\ FolderEmpty
        /\ folder' = FALSE
     \/ UNCHANGED folder
  /\ diskLock' = None
  /\ job' = [job EXCEPT ![j] = "reconcile"]
  /\ UNCHANGED <<disk, temporary, inode, taken, saveVars, link, token, plan, gone, libLock, libClosed, lastRun, stored, now, published, approved, leftover, stray>>

\* _reconcile: captures forget the address of a file that is gone
Reconcile(j) ==
  /\ job[j] = "reconcile"
  /\ link' = [c \in Captures |-> IF link[c] \in gone[j] THEN 0 ELSE link[c]]
  /\ gone' = [gone EXCEPT ![j] = {}]
  /\ job' = [job EXCEPT ![j] = "idle"]
  /\ libLock' = None
  /\ UNCHANGED <<diskVars, saveVars, token, plan, todo, libClosed, lastRun, stored, now, published, approved, leftover, stray>>

\* Mutant of LibraryStarts: the last attempt is not loaded.
LibraryForgets == lastRun' = -1

\* PhotoLibrary.start after a load: what the Store file says
LibraryStarts == lastRun' = stored

TimePasses ==
  /\ now' \in now + 1..MaxTime
  /\ UNCHANGED <<diskVars, saveVars, link, libVars, stored, published, approved, leftover, stray>>

JobsDrained == \A j \in Jobs : job[j] = "idle"
SavesIdle == \A c \in Captures : save[c] = "idle"

StoreNext ==
  \/ \E c \in Captures :
       WriteBegins(c) \/ WriteFails(c) \/ WriteLinks(c) \/ WriteChecksAgain(c) \/ Discard(c)
  \/ CleanupSelects
  \/ \E j \in Jobs : DeleteBegins(j) \/ DeleteOne(j) \/ DeleteEnds(j) \/ Reconcile(j)
=============================================================================
