-------------------------- MODULE Doorbell_proofs --------------------------
(***************************************************************************)
(* Proofs about the doorbell and its photos, for any set of presses and    *)
(* any bounds: types, whose file is whose, what an unload drains, which    *)
(* ring a photo shows, how far apart retention runs.                       *)
(***************************************************************************)
EXTENDS Doorbell, TLAPS

\* The parts of TypeOK outside the store
Posted == {TRUE, FALSE} \X {"state"} \cup Presses \X {"ring"}

LisTypeOK ==
  /\ pressed \subseteq Presses /\ seen \subseteq Presses
  /\ listener \in {"off", "connecting", "listening", "backoff", "dead"}
  /\ lisClosed \in BOOLEAN /\ calls \in Seq(Posted)
HubTypeOK ==
  /\ stimuli \in 0..MaxStimuli /\ connected \in BOOLEAN /\ rings \in Nat
  /\ unload \in {"loaded", "detach", "stopping", "ring", "manual", "unloaded"}
PhotoTypeOK ==
  /\ enabled \in BOOLEAN /\ stale \in BOOLEAN
  /\ pending \in Nat /\ sequence \in Nat /\ current \in Nat
  /\ photo \in [ring : Nat, taken : Nat] /\ foreign \subseteq Nat
StepTypeOK ==
  /\ step \in [Captures -> {"idle", "delay", "lease", "image", "release", "validate", "valid",
                            "invalid", "save", "discard"}]
  /\ fresh \in [Captures -> BOOLEAN] /\ image \in [Captures -> Nat]
  /\ toMedia \in BOOLEAN /\ dropped \in BOOLEAN
LoopTypeOK == LisTypeOK /\ HubTypeOK /\ PhotoTypeOK /\ StepTypeOK

\* A capture writes exactly while its step says so, and it knows the file it
\* linked, under a name of its own, until that is published or undone.
SaveOf(c) ==
  /\ step[c] = "save" <=> save[c] \in {"queued", "temp", "linked", "done", "error"}
  /\ save[c] = "discard" => step[c] = "discard"
  /\ saved[c] # 0 => save[c] \in {"linked", "done", "discard"} /\ saved[c] \in NamesOf(c)
  /\ save[c] = "linked" => saved[c] # 0 /\ disk[saved[c]] # 0

\* Who holds the locks, and with them a temporary file
DiskLocks ==
  /\ \A c \in Captures :
       (diskLock = c <=> save[c] \in {"temp", "linked"}) /\ (c \in temporary <=> diskLock = c)
  /\ \A j \in Jobs : diskLock = j <=> job[j] = "unlink"

Saves == (\A c \in Captures : SaveOf(c)) /\ DiskLocks

\* What is closed, and stays drained, at which point of the unload
Closing ==
  /\ \A j \in Jobs : libLock = j <=> job[j] \in {"unlink", "reconcile"}
  /\ libClosed <=> unload # "loaded"
  /\ lisClosed <=> unload \notin {"loaded", "detach"}
  /\ unload \notin {"loaded", "detach"} => JobsDrained
  /\ RingClosed => pending = 0
  /\ ManualClosed => step["ring"] = "idle"
  /\ unload = "unloaded" => step["manual"] = "idle"

\* No two names point to one file, and a file that may still be undone has not
\* been published.
KeptFiles ==
  /\ \A n \in Names : disk[n] <= inode
  /\ \A m, n \in Names : disk[m] = disk[n] /\ disk[m] # 0 => m = n
  /\ published \subseteq 1..inode
  /\ \A c \in Captures : saved[c] # 0 => disk[saved[c]] \notin published

\* A deletion holds nothing that was not approved.
KeptTodo == \A j \in Jobs : InodesOf(todo[j]) \subseteq approved

Kept == KeptFiles /\ KeptTodo

\* The ring that waits for its photo, or has it taken, is the newest, and a main
\* panel's, unless it is stale; then so is the picture.
Newest ==
  /\ \A s \in foreign : s <= rings
  /\ pending # 0 => enabled /\ pending = rings /\ pending \notin foreign
  /\ step["ring"] # "idle" /\ ~stale =>
       /\ enabled /\ current = rings /\ current \notin foreign
       /\ step["ring"] \in {"image", "valid", "save"} \/ (step["ring"] = "lease" /\ fresh["ring"])
            => image["ring"] = rings

Remembered == lastRun = stored

IInv == TypeOK /\ Saves /\ Closing /\ Kept /\ NoOrphans /\ PublishedPhotosKept /\ Newest /\ Remembered

\* The library, alone or with a stimulus, leaves the doorbell as it is.
Elsewhere == UNCHANGED <<lisVars, hubVars, photoVars, stepVars>>
Alone == UNCHANGED stimuli /\ Elsewhere

Saving == [Captures -> {"idle", "queued", "temp", "linked", "done", "error", "discard"}]
Naming == [Captures -> 0..2 * MaxNames]
Working == [Jobs -> {"idle", "lock", "exec", "unlink", "reconcile"}]

USE StoreAssumption, DoorbellAssumption
USE DEF lisVars, hubVars, photoVars, stepVars, storeVars, diskVars, saveVars, libVars, vars,
        Captures, Jobs, Names, NamesOf, Inodes, None, Stopped, RingClosed, ManualClosed, Saving, Naming, Working

-----------------------------------------------------------------------------
(* What families of actions leave alone                                    *)

ListenerStep ==
  \/ \E p \in Presses : Press(p) \/ Accept(p)
  \/ ListenerOpens \/ ListenerConnected \/ ListenerRefused \/ ListenerFails \/ ListenerEnds

LEMMA ListenerEffect ==
  ASSUME ListenerStep
  PROVE  UNCHANGED <<lisClosed, hubVars, photoVars, stepVars, storeVars>>
PROOF
<1> QED BY DEF ListenerStep, Press, Accept, ListenerOpens, ListenerConnected, ListenerRefused, ListenerFails, ListenerEnds

\* The store but for what is cancelled
FilesKept ==
  UNCHANGED <<diskVars, save, saved, link, libVars, stray, stored, now, published, approved, leftover>>

LoopStep ==
  \/ ListenerStep \/ LoopRuns \/ Toggle \/ Picture
  \/ \E c \in Captures : CaptureEnds(c) \/ Validate(c) \/ Discarded(c)
  \/ RingNext \/ RingDelayOver \/ ManualBegins \/ ManualDropped
  \/ Stop \/ CloseRing \/ CloseManual \/ Unloaded

LEMMA LoopEffect ==
  ASSUME TypeOK, LoopStep
  PROVE  FilesKept /\ cancelled' \in [Captures -> BOOLEAN]
PROOF
<1> USE DEF FilesKept, TypeOK, StoreTypeOK
<1>1. ASSUME ListenerStep PROVE FilesKept /\ cancelled' \in [Captures -> BOOLEAN]
  BY <1>1, ListenerEffect
<1>2. ASSUME LoopRuns PROVE FilesKept /\ cancelled' \in [Captures -> BOOLEAN]
  <2>1. FilesKept BY <1>2 DEF LoopRuns
  <2>2. cancelled' = cancelled \/ cancelled' = [cancelled EXCEPT !["ring"] = @ \/ step["ring"] = "save"]
    <3> HIDE DEF TypeOK, StoreTypeOK, FilesKept
    <3>1. CASE lisClosed \/ Stopped BY <1>2, <3>1 DEF LoopRuns
    <3>2. CASE ~(lisClosed \/ Stopped) BY <1>2, <3>2 DEF LoopRuns, Ring, Request, Reject, Invalidate
    <3> QED BY <3>1, <3>2
  <2>3. cancelled \in [Captures -> BOOLEAN] OBVIOUS
  <2>4. cancelled' \in [Captures -> BOOLEAN]
    <3> HIDE DEF TypeOK, StoreTypeOK
    <3> QED BY <2>2, <2>3
  <2> QED BY <2>1, <2>4
<1>3. ASSUME Toggle PROVE FilesKept /\ cancelled' \in [Captures -> BOOLEAN]
  BY <1>3 DEF Toggle, Invalidate, Stimulus
<1>4. ASSUME Picture PROVE FilesKept /\ cancelled' \in [Captures -> BOOLEAN]
  BY <1>4 DEF Picture, Unmoved
<1>5. ASSUME NEW c \in Captures, CaptureEnds(c) PROVE FilesKept /\ cancelled' \in [Captures -> BOOLEAN]
  BY <1>5 DEF CaptureEnds, StepTo, Unmoved
<1>6. ASSUME NEW c \in Captures, Validate(c) PROVE FilesKept /\ cancelled' \in [Captures -> BOOLEAN]
  BY <1>6 DEF Validate, StepTo, Unmoved
<1>7. ASSUME NEW c \in Captures, Discarded(c) PROVE FilesKept /\ cancelled' \in [Captures -> BOOLEAN]
  BY <1>7 DEF Discarded, StepTo, Unmoved
<1>8. ASSUME RingNext PROVE FilesKept /\ cancelled' \in [Captures -> BOOLEAN]
  BY <1>8 DEF RingNext, StepTo, Unmoved
<1>9. ASSUME RingDelayOver PROVE FilesKept /\ cancelled' \in [Captures -> BOOLEAN]
  BY <1>9 DEF RingDelayOver, AskImage, StepTo, Unmoved
<1>10. ASSUME ManualBegins PROVE FilesKept /\ cancelled' \in [Captures -> BOOLEAN]
  BY <1>10 DEF ManualBegins, AskImage, StepTo, Stimulus
<1>11. ASSUME ManualDropped PROVE FilesKept /\ cancelled' \in [Captures -> BOOLEAN]
  BY <1>11 DEF ManualDropped, Stimulus
<1>12. ASSUME Stop PROVE FilesKept /\ cancelled' \in [Captures -> BOOLEAN]
  BY <1>12 DEF Stop
<1>13. ASSUME CloseRing PROVE FilesKept /\ cancelled' \in [Captures -> BOOLEAN]
  BY <1>13 DEF CloseRing, Invalidate
<1>14. ASSUME CloseManual PROVE FilesKept /\ cancelled' \in [Captures -> BOOLEAN]
  BY <1>14 DEF CloseManual
<1>15. ASSUME Unloaded PROVE FilesKept /\ cancelled' \in [Captures -> BOOLEAN]
  BY <1>15 DEF Unloaded
<1> QED BY <1>1, <1>2, <1>3, <1>4, <1>5, <1>6, <1>7, <1>8, <1>9, <1>10, <1>11, <1>12, <1>13,
     <1>14, <1>15 DEF LoopStep

LEMMA PostedFacts ==
  /\ \A b \in {TRUE, FALSE} : <<b, "state">> \in Posted
  /\ \A p \in Presses : <<p, "ring">> \in Posted
  /\ \A x \in Posted : x[2] = "state" => x[1] \in BOOLEAN
PROOF
<1>1. \A b \in {TRUE, FALSE} : <<b, "state">> \in Posted BY DEF Posted
<1>2. \A p \in Presses : <<p, "ring">> \in Posted BY DEF Posted
<1>3. \A x \in Presses \X {"ring"} : x[2] = "ring" OBVIOUS
<1>4. \A x \in {TRUE, FALSE} \X {"state"} : x[1] \in BOOLEAN OBVIOUS
<1> QED BY <1>1, <1>2, <1>3, <1>4 DEF Posted

\* A call the listener posted: news of the connection, or a ring of either panel
LEMMA CallEffect ==
  ASSUME LoopRuns
  PROVE  /\ calls # <<>> /\ calls' = Tail(calls)
         /\ UNCHANGED <<stimuli, pressed, listener, lisClosed, seen, unload, enabled, current, photo, stepVars>>
         /\ UNCHANGED connected \/ (Head(calls)[2] = "state" /\ connected' = Head(calls)[1])
         /\ \/ UNCHANGED <<rings, foreign, stale, sequence, pending>>
            \/ /\ ~lisClosed /\ ~Stopped /\ rings' = rings + 1
               /\ foreign' \in {foreign, foreign \cup {rings + 1}}
               /\ \/ /\ enabled /\ stale' = TRUE /\ sequence' = rings + 1
                     /\ \/ pending' = rings + 1 /\ foreign' = foreign
                        \/ pending' = 0
                  \/ ~enabled /\ UNCHANGED <<stale, sequence, pending>>
PROOF
<1>1. CASE lisClosed \/ Stopped BY <1>1 DEF LoopRuns
<1>2. CASE ~(lisClosed \/ Stopped)
  <2>1. CASE Head(calls)[2] = "ring" /\ Ring(Head(calls)[1]) /\ UNCHANGED connected
    <3>1. CASE Head(calls)[1] \in SecondPanel
      BY <1>2, <2>1, <3>1 DEF LoopRuns, Ring, Reject, Invalidate
    <3>2. CASE Head(calls)[1] \notin SecondPanel
      BY <1>2, <2>1, <3>2 DEF LoopRuns, Ring, Request, Invalidate
    <3> QED BY <3>1, <3>2
  <2>2. CASE /\ Head(calls)[2] = "state" /\ connected' = Head(calls)[1]
             /\ UNCHANGED <<rings, foreign, stale, cancelled, sequence, pending>>
    BY <1>2, <2>2 DEF LoopRuns
  <2> QED BY <1>2, <2>1, <2>2 DEF LoopRuns
<1> QED BY <1>1, <1>2

\* What only waits, selects and decides
LibraryStep ==
  \/ Prepare \/ TimePasses \/ PlanEnds \/ Confirm \/ Cleanup \/ CleanupSelects
  \/ \E j \in Jobs : DeleteBegins(j) \/ DeleteEnds(j) \/ Reconcile(j)

LEMMA LibraryEffect ==
  ASSUME LibraryStep
  PROVE  /\ UNCHANGED <<disk, temporary, inode, taken, saveVars, stray, published, leftover>>
         /\ approved \subseteq approved'
PROOF
<1> QED BY DEF LibraryStep, Prepare, TimePasses, PlanEnds, Confirm, Cleanup, CleanupSelects, DeleteBegins, DeleteEnds, Reconcile

-----------------------------------------------------------------------------
(* The steps                                                               *)

LEMMA NamesFacts == \A c \in Captures : \A n \in NamesOf(c) : n \in Names /\ n # 0
PROOF
<1> QED OBVIOUS

LEMMA PhotosOf ==
  ASSUME NEW S \in SUBSET Photo
  PROVE  InodesOf(S) \subseteq Inodes
PROOF
<1> QED BY DEF InodesOf, Photo

LEMMA SavedFile ==
  ASSUME TypeOK, Saves
  PROVE  \A c \in Captures : saved[c] # 0 =>
           /\ saved[c] \in Names /\ disk[saved[c]] \in 0..MaxInodes
           /\ \A d \in Captures : d # c => saved[d] # saved[c]
PROOF
<1> SUFFICES ASSUME NEW c \in Captures, saved[c] # 0
             PROVE  /\ saved[c] \in Names /\ disk[saved[c]] \in 0..MaxInodes
                    /\ \A d \in Captures : d # c => saved[d] # saved[c]
  OBVIOUS
<1>1. \A d \in Captures : saved[d] \in 0..2 * MaxNames BY DEF TypeOK, StoreTypeOK
<1>2. saved[c] \in Names BY <1>1
<1>3. disk[saved[c]] \in 0..MaxInodes BY <1>2 DEF TypeOK, StoreTypeOK
<1>4. \A d \in Captures : saved[d] # 0 => saved[d] \in NamesOf(d) BY DEF Saves, SaveOf
<1>5. \A d \in Captures : d # c => saved[d] # saved[c] BY <1>1, <1>4
<1> QED BY <1>2, <1>3, <1>5

\* Both captures hand their picture to the executor, or do not.
SaveBegins(c) ==
  /\ \/ save' = [save EXCEPT ![c] = "queued"] /\ saved' = [saved EXCEPT ![c] = 0]
     \/ save' = [save EXCEPT ![c] = "done"] /\ UNCHANGED saved
  /\ step[c] \in {"valid", "invalid"} /\ step' = [step EXCEPT ![c] = "save"]

\* One value of a function changes.
LEMMA ExceptType ==
  ASSUME NEW S, NEW T, NEW f \in [S -> T], NEW x, NEW v \in T
  PROVE  [f EXCEPT ![x] = v] \in [S -> T]
PROOF
<1> QED OBVIOUS

LEMMA BeginEffect ==
  ASSUME TypeOK, RingSaves \/ ManualSaves
  PROVE  /\ UNCHANGED <<diskVars, libVars, stray, link, stored, now, published, approved, leftover>>
         /\ cancelled' \in [Captures -> BOOLEAN]
         /\ \E c \in Captures :
              \/ SaveBegins(c)
              \/ /\ step[c] \in {"valid", "invalid"} /\ step' = [step EXCEPT ![c] = "idle"]
                 /\ UNCHANGED <<save, saved>>
PROOF
<1> DEFINE Starts(c) ==
             \/ SaveBegins(c)
             \/ /\ step[c] \in {"valid", "invalid"} /\ step' = [step EXCEPT ![c] = "idle"]
                /\ UNCHANGED <<save, saved>>
<1>1. UNCHANGED <<diskVars, libVars, stray, link, stored, now, published, approved, leftover>>
  BY DEF RingSaves, ManualSaves
<1>2. cancelled' \in [Captures -> BOOLEAN]
  <2>1. cancelled' = cancelled \/ \E c \in Captures : cancelled' = [cancelled EXCEPT ![c] = FALSE]
    BY DEF RingSaves, ManualSaves, StartSave
  <2>2. cancelled \in [Captures -> BOOLEAN] BY DEF TypeOK, StoreTypeOK
  <2> QED BY <2>1, <2>2, Zenon
<1>3. CASE RingSaves
  <2>1. Starts("ring") BY <1>3 DEF RingSaves, SaveBegins, StartSave, StepTo
  <2> QED BY <1>1, <1>2, <2>1
<1>4. CASE ManualSaves
  <2>1. Starts("manual") BY <1>4 DEF ManualSaves, SaveBegins, StartSave, StepTo
  <2> QED BY <1>1, <1>2, <2>1
<1> QED BY <1>3, <1>4

LEMMA PublishEffect ==
  ASSUME TypeOK, Saves, NEW c \in Captures, Publish(c)
  PROVE  /\ published' \subseteq Inodes
         /\ saved[c] = 0 => published' = published
         /\ saved[c] # 0 => published' = published \cup ({disk[saved[c]]} \ {0})
         /\ \A d \in Captures : saved'[d] = IF d = c THEN 0 ELSE saved[d]
PROOF
<1>1. saved[c] = 0 => published' = published BY DEF Publish
<1>2. saved[c] # 0 => published' = published \cup ({disk[saved[c]]} \ {0}) BY DEF Publish
<1>3. published' \subseteq Inodes
  <2>1. published \subseteq Inodes BY DEF TypeOK, StoreTypeOK
  <2>2. CASE saved[c] # 0
    <3>1. disk[saved[c]] \in 0..MaxInodes BY <2>2, SavedFile
    <3>2. {disk[saved[c]]} \ {0} \subseteq Inodes BY <3>1
    <3> QED BY <1>2, <2>1, <2>2, <3>2, Zenon
  <2> QED BY <1>1, <2>1, <2>2
<1>4. \A d \in Captures : saved'[d] = IF d = c THEN 0 ELSE saved[d] BY DEF Publish, TypeOK, StoreTypeOK
<1> QED BY <1>1, <1>2, <1>3, <1>4

\* What the writing thread of a capture does to the folder and to what it knows
LEMMA WriteEffect ==
  ASSUME TypeOK, Saves, NEW c \in Captures,
         WriteBegins(c) \/ WriteFails(c) \/ WriteLinks(c) \/ WriteChecksAgain(c) \/ Discard(c)
  PROVE  /\ UNCHANGED <<link, libVars, stored, now, published, approved, stray, cancelled>>
         /\ \/ UNCHANGED <<disk, inode, taken, saved, leftover>>
            \/ /\ saved[c] # 0 /\ saved' = [saved EXCEPT ![c] = 0]
               /\ disk' = [disk EXCEPT ![saved[c]] = 0] /\ UNCHANGED <<inode, taken, leftover>>
            \/ /\ saved[c] # 0 /\ saved' = [saved EXCEPT ![c] = 0]
               /\ leftover' = leftover \cup ({disk[saved[c]]} \ {0}) /\ UNCHANGED <<disk, inode, taken>>
            \/ /\ saved[c] = 0 /\ saved' = [saved EXCEPT ![c] = 0]
               /\ UNCHANGED <<disk, inode, taken, leftover>>
            \/ /\ \E n \in NamesOf(c) : /\ disk[n] = 0 /\ disk' = [disk EXCEPT ![n] = inode + 1]
                                        /\ saved' = [saved EXCEPT ![c] = n]
               /\ inode < MaxInodes /\ inode' = inode + 1 /\ taken' = [taken EXCEPT ![inode + 1] = now]
               /\ saved[c] = 0 /\ UNCHANGED leftover
PROOF
<1>1. CASE WriteBegins(c) BY <1>1 DEF WriteBegins, WriteEnds
<1>2. CASE WriteFails(c)
  <2>1. CASE UNCHANGED <<saved, leftover>> BY <1>2, <2>1 DEF WriteFails
  <2>2. CASE save[c] = "linked" BY <1>2, <2>2 DEF WriteFails, Saves, SaveOf
  <2> QED BY <1>2, <2>1, <2>2 DEF WriteFails
<1>3. CASE WriteLinks(c) BY <1>3 DEF WriteLinks, WriteEnds, FirstFree, Saves, SaveOf
<1>4. CASE WriteChecksAgain(c) BY <1>4 DEF WriteChecksAgain, Saves, SaveOf
<1>5. CASE Discard(c) BY <1>5 DEF Discard
<1> QED BY <1>1, <1>2, <1>3, <1>4, <1>5

\* A deletion removes a file it holds and that is still the one it was.
LEMMA DeleteEffect ==
  ASSUME TypeOK, NEW j \in Jobs, DeleteOne(j)
  PROVE  \E p \in todo[j] :
           /\ p \in Photo /\ p.name \in Names /\ p.inode \in Inodes
           /\ todo' = [todo EXCEPT ![j] = @ \ {p}]
           /\ \/ disk[p.name] = p.inode /\ disk' = [disk EXCEPT ![p.name] = 0]
              \/ UNCHANGED disk
           /\ \/ gone' = [gone EXCEPT ![j] = @ \cup {p.name}]
              \/ UNCHANGED gone
PROOF
<1>1. \A p \in todo[j] : p \in Photo BY DEF TypeOK, StoreTypeOK
<1>2. \A p \in Photo : p.name \in Names /\ p.inode \in Inodes BY DEF Photo
<1> QED BY <1>1, <1>2 DEF DeleteOne, Unchanged

\* The file system part of TypeOK over the steps of a writing thread
LEMMA WriteTypes ==
  ASSUME TypeOK, Saves, NEW c \in Captures,
         WriteBegins(c) \/ WriteFails(c) \/ WriteLinks(c) \/ WriteChecksAgain(c) \/ Discard(c)
  PROVE  /\ disk' \in [Names -> 0..MaxInodes] /\ leftover' \subseteq Inodes /\ saved' \in Naming
         /\ inode' \in 0..MaxInodes /\ taken' \in [Inodes -> 0..MaxTime]
PROOF
<1> DEFINE Forgets == saved' = [saved EXCEPT ![c] = 0]
<1>1. /\ disk \in [Names -> 0..MaxInodes] /\ leftover \subseteq Inodes /\ saved \in Naming
      /\ inode \in 0..MaxInodes /\ taken \in [Inodes -> 0..MaxTime] /\ now \in 0..MaxTime
  BY DEF TypeOK, StoreTypeOK
<1>2. Forgets => saved' \in Naming BY <1>1
<1> HIDE DEF Forgets
<1>3. CASE UNCHANGED <<disk, inode, taken, saved, leftover>> BY <1>1, <1>3
<1>4. CASE Forgets /\ disk' = [disk EXCEPT ![saved[c]] = 0] /\ UNCHANGED <<inode, taken, leftover>>
  <2>0. 0 \in 0..MaxInodes OBVIOUS
  <2>1. disk' \in [Names -> 0..MaxInodes] BY <1>1, <1>4, <2>0, ExceptType, Zenon
  <2> QED BY <1>1, <1>2, <1>4, <2>1
<1>5. CASE /\ saved[c] # 0 /\ Forgets
           /\ leftover' = leftover \cup ({disk[saved[c]]} \ {0}) /\ UNCHANGED <<disk, inode, taken>>
  <2>1. disk[saved[c]] \in 0..MaxInodes BY <1>5, SavedFile
  <2>2. {disk[saved[c]]} \ {0} \subseteq Inodes BY <2>1
  <2>3. leftover' \subseteq Inodes BY <1>1, <1>5, <2>2, Zenon
  <2> QED BY <1>1, <1>2, <1>5, <2>3
<1>6. CASE Forgets /\ UNCHANGED <<disk, inode, taken, leftover>> BY <1>1, <1>2, <1>6
<1>7. CASE /\ \E n \in NamesOf(c) : /\ disk[n] = 0 /\ disk' = [disk EXCEPT ![n] = inode + 1]
                                   /\ saved' = [saved EXCEPT ![c] = n]
           /\ inode < MaxInodes /\ inode' = inode + 1 /\ taken' = [taken EXCEPT ![inode + 1] = now]
           /\ UNCHANGED leftover
  <2>1. PICK n \in NamesOf(c) : disk' = [disk EXCEPT ![n] = inode + 1] /\ saved' = [saved EXCEPT ![c] = n]
    BY <1>7
  <2>2. n \in 0..2 * MaxNames OBVIOUS
  <2>3. inode + 1 \in 0..MaxInodes BY <1>1, <1>7
  <2>4. disk' \in [Names -> 0..MaxInodes] BY <1>1, <2>1, <2>3, ExceptType
  <2>5. saved' \in Naming BY <1>1, <2>1, <2>2, ExceptType
  <2>6. taken' \in [Inodes -> 0..MaxTime] BY <1>1, <1>7, ExceptType
  <2> QED BY <1>1, <1>7, <2>3, <2>4, <2>5, <2>6
<1> QED BY <1>3, <1>4, <1>5, <1>6, <1>7, WriteEffect DEF Forgets

LEMMA StoreTypeStep ==
  ASSUME TypeOK, Saves, [Next]_vars
  PROVE  StoreTypeOK'
PROOF
<1> USE DEF TypeOK, StoreTypeOK
<1>1. ASSUME LoopStep PROVE StoreTypeOK'
  <2>1. FilesKept /\ cancelled' \in [Captures -> BOOLEAN] BY <1>1, LoopEffect
  <2> QED BY <2>1 DEF FilesKept
<1>2. ASSUME RingSaves \/ ManualSaves PROVE StoreTypeOK'
  <2>1. PICK c \in Captures : SaveBegins(c) \/ UNCHANGED <<save, saved>> BY <1>2, BeginEffect
  <2>2. save' \in Saving /\ saved' \in Naming
    <3>1. save \in Saving /\ saved \in Naming /\ 0 \in 0..2 * MaxNames OBVIOUS
    <3>2. save' = save \/ \E s \in {"queued", "done"} : save' = [save EXCEPT ![c] = s] BY <2>1 DEF SaveBegins
    <3>3. saved' = saved \/ saved' = [saved EXCEPT ![c] = 0] BY <2>1 DEF SaveBegins
    <3> HIDE DEF TypeOK, StoreTypeOK
    <3> QED BY <3>1, <3>2, <3>3
  <2>3. /\ UNCHANGED <<diskVars, libVars, stray, link, stored, now, published, approved, leftover>>
        /\ cancelled' \in [Captures -> BOOLEAN]
    BY <1>2, BeginEffect
  <2> QED BY <2>2, <2>3
<1>3. ASSUME NEW c \in Captures, Publish(c),
             UNCHANGED <<diskVars, libVars, cancelled, stray, stored, now, approved, leftover>>
      PROVE  StoreTypeOK'
  <2>1. link' \in Naming /\ save' \in Saving /\ saved' \in Naming BY <1>3 DEF Publish
  <2> QED BY <1>3, <2>1, PublishEffect
<1>4. ASSUME RingPublishes \/ ManualPublishes PROVE StoreTypeOK'
  BY <1>3, <1>4 DEF RingPublishes, ManualPublishes
<1>5. ASSUME RingDiscards \/ ManualDiscards PROVE StoreTypeOK'
  <2>1. \E c \in Captures : save' = [save EXCEPT ![c] = "discard"] BY <1>5 DEF RingDiscards, ManualDiscards
  <2>2. UNCHANGED <<diskVars, libVars, stray, saved, cancelled, link, stored, now, published, approved, leftover>>
    BY <1>5 DEF RingDiscards, ManualDiscards
  <2>3. save' \in Saving BY <2>1
  <2> QED BY <2>2, <2>3
<1>6. ASSUME Detach PROVE StoreTypeOK'
  <2>1. token' \in BOOLEAN /\ libClosed' \in BOOLEAN /\ plan' \subseteq Photo BY <1>6 DEF Detach
  <2>2. UNCHANGED <<diskVars, saveVars, stray, link, job, todo, gone, libLock, lastRun, stored, now, published, approved, leftover>> BY <1>6 DEF Detach
  <2> QED BY <2>1, <2>2
<1>7. ASSUME Reload PROVE StoreTypeOK'
  <2>1. save' \in Saving /\ saved' \in Naming /\ cancelled' \in [Captures -> BOOLEAN] /\ link' \in Naming
    BY <1>7 DEF Reload, NewObjects
  <2>2. token' \in BOOLEAN /\ plan' \subseteq Photo /\ job' \in Working /\ todo' \in [Jobs -> SUBSET Photo] /\ gone' \in [Jobs -> SUBSET Names]
    BY <1>7 DEF Reload, NewObjects
  <2>3. libLock' \in Jobs \cup {None} /\ libClosed' \in BOOLEAN /\ lastRun' \in -1..MaxTime
    BY <1>7 DEF Reload, NewObjects, LibraryStarts
  <2>4. UNCHANGED <<diskVars, stray, stored, now, published, approved, leftover>> BY <1>7 DEF Reload, NewObjects
  <2> QED BY <2>1, <2>2, <2>3, <2>4
<1>8. ASSUME Crash PROVE StoreTypeOK'
  <2>1. leftover' \subseteq Inodes
    <3>0. \A c \in Captures : saved[c] # 0 => disk[saved[c]] \in 0..MaxInodes BY SavedFile
    <3>1. ASSUME NEW i \in {disk[saved[c]] : c \in {d \in Captures : saved[d] # 0}} PROVE i \in 0..MaxInodes
      <4>1. PICK c \in {d \in Captures : saved[d] # 0} : i = disk[saved[c]] BY <3>1
      <4> QED BY <3>0, <4>1
    <3>2. {disk[saved[c]] : c \in {d \in Captures : saved[d] # 0}} \ {0} \subseteq Inodes
      <4> HIDE DEF TypeOK, StoreTypeOK
      <4>1. \A i \in 0..MaxInodes : i # 0 => i \in Inodes OBVIOUS
      <4> QED BY <3>1, <4>1, Zenon
    <3>3. leftover \subseteq Inodes OBVIOUS
    <3>4. leftover' = leftover \cup ({disk[saved[c]] : c \in {d \in Captures : saved[d] # 0}} \ {0}) BY <1>8 DEF Crash
    <3> QED BY <3>2, <3>3, <3>4, Zenon
  <2>2. temporary' \subseteq Captures /\ diskLock' \in Captures \cup Jobs \cup {None} /\ stray' \in BOOLEAN
    BY <1>8 DEF Crash
  <2>3. save' \in Saving /\ saved' \in Naming /\ cancelled' \in [Captures -> BOOLEAN] /\ link' \in Naming
    BY <1>8 DEF Crash, NewObjects
  <2>4. token' \in BOOLEAN /\ plan' \subseteq Photo /\ job' \in Working /\ todo' \in [Jobs -> SUBSET Photo] /\ gone' \in [Jobs -> SUBSET Names]
    BY <1>8 DEF Crash, NewObjects
  <2>5. libLock' \in Jobs \cup {None} /\ libClosed' \in BOOLEAN /\ lastRun' \in -1..MaxTime
    BY <1>8 DEF Crash, NewObjects, LibraryStarts
  <2>6. UNCHANGED <<disk, folder, inode, taken, stored, now, published, approved>> BY <1>8 DEF Crash, NewObjects
  <2> QED BY <2>1, <2>2, <2>3, <2>4, <2>5, <2>6
<1>9. ASSUME Prepare, Stimulus, Elsewhere PROVE StoreTypeOK'
  <2>1. token' \in BOOLEAN /\ plan' \subseteq Photo BY <1>9 DEF Prepare, Files
  <2>2. UNCHANGED <<diskVars, saveVars, stray, link, job, todo, gone, libLock, libClosed, lastRun, stored, now, published, approved, leftover>> BY <1>9 DEF Prepare
  <2> QED BY <2>1, <2>2
<1>10. ASSUME TimePasses, Stimulus, Elsewhere PROVE StoreTypeOK'
  <2>1. now' \in 0..MaxTime BY <1>10 DEF TimePasses
  <2>2. UNCHANGED <<diskVars, saveVars, libVars, stray, link, stored, published, approved, leftover>> BY <1>10 DEF TimePasses
  <2> QED BY <2>1, <2>2
<1>11. ASSUME PlanEnds, Alone PROVE StoreTypeOK'
  <2>1. token' \in BOOLEAN /\ plan' \subseteq Photo BY <1>11 DEF PlanEnds
  <2>2. UNCHANGED <<diskVars, saveVars, stray, link, job, todo, gone, libLock, libClosed, lastRun, stored, now, published, approved, leftover>> BY <1>11 DEF PlanEnds
  <2> QED BY <2>1, <2>2
<1>12. ASSUME Confirm, Alone PROVE StoreTypeOK'
  <2>1. approved' \subseteq Inodes BY <1>12, PhotosOf DEF Confirm
  <2>2. token' \in BOOLEAN /\ plan' \subseteq Photo /\ job' \in Working /\ todo' \in [Jobs -> SUBSET Photo]
    BY <1>12 DEF Confirm
  <2>3. UNCHANGED <<diskVars, saveVars, stray, link, gone, libLock, libClosed, lastRun, stored, now, published, leftover>> BY <1>12 DEF Confirm
  <2> QED BY <2>1, <2>2, <2>3
<1>13. ASSUME Cleanup, Alone PROVE StoreTypeOK'
  <2>1. stored' \in -1..MaxTime /\ lastRun' \in -1..MaxTime /\ job' \in Working
    BY <1>13 DEF Cleanup
  <2>2. UNCHANGED <<diskVars, saveVars, stray, link, token, plan, todo, gone, libLock, libClosed, now, published, approved, leftover>> BY <1>13 DEF Cleanup
  <2> QED BY <2>1, <2>2
<1>14. ASSUME NEW c \in Captures, WriteBegins(c) \/ WriteFails(c) \/ WriteLinks(c) \/ WriteChecksAgain(c) \/ Discard(c)
       PROVE  StoreTypeOK'
  <2>1. /\ \E s \in {"temp", "linked", "done", "error", "idle"} : save' = [save EXCEPT ![c] = s]
        /\ temporary' \in {temporary, temporary \ {c}, temporary \cup {c}}
        /\ diskLock' \in {diskLock, None, c}
        /\ UNCHANGED folder \/ folder' = TRUE
    <3>1. CASE WriteBegins(c) BY <3>1 DEF WriteBegins, WriteEnds
    <3>2. CASE WriteFails(c) BY <3>2 DEF WriteFails, WriteEnds
    <3>3. CASE WriteLinks(c) BY <3>3 DEF WriteLinks, WriteEnds
    <3>4. CASE WriteChecksAgain(c) BY <3>4 DEF WriteChecksAgain, WriteEnds
    <3>5. CASE Discard(c) BY <3>5 DEF Discard
    <3> QED BY <1>14, <3>1, <3>2, <3>3, <3>4, <3>5
  <2>2. save' \in Saving /\ temporary' \subseteq Captures /\ diskLock' \in Captures \cup Jobs \cup {None}
    <3>1. save' \in Saving BY <2>1
    <3>2. temporary' \subseteq Captures BY <2>1
    <3>3. diskLock' \in Captures \cup Jobs \cup {None} BY <2>1
    <3> QED BY <3>1, <3>2, <3>3
  <2>3. folder' \in BOOLEAN BY <2>1, Zenon
  <2>4. /\ disk' \in [Names -> 0..MaxInodes] /\ leftover' \subseteq Inodes /\ saved' \in Naming
        /\ inode' \in 0..MaxInodes /\ taken' \in [Inodes -> 0..MaxTime]
    BY <1>14, WriteTypes
  <2>5. UNCHANGED <<link, libVars, stored, now, published, approved, stray, cancelled>> BY <1>14, WriteEffect
  <2> QED BY <2>1, <2>2, <2>3, <2>4, <2>5
<1>15. ASSUME CleanupSelects, Alone PROVE StoreTypeOK'
  <2>1. todo' \in [Jobs -> SUBSET Photo]
    <3> DEFINE old == {p \in Files : Expired(p)}
    <3>1. todo' = todo \/ todo' = [todo EXCEPT !["retention"] = old] BY <1>15 DEF CleanupSelects
    <3>2. old \in SUBSET Photo BY DEF Files
    <3>3. todo \in [Jobs -> SUBSET Photo] OBVIOUS
    <3>4. [todo EXCEPT !["retention"] = old] \in [Jobs -> SUBSET Photo] BY <3>2, <3>3, ExceptType, Zenon
    <3> HIDE DEF old
    <3> QED BY <3>1, <3>3, <3>4
  <2>2. approved' \subseteq Inodes BY <1>15, PhotosOf DEF CleanupSelects, Files
  <2>3. job' \in Working BY <1>15 DEF CleanupSelects
  <2>4. UNCHANGED <<diskVars, saveVars, stray, link, token, plan, gone, libLock, libClosed, lastRun, stored, now, published, leftover>> BY <1>15 DEF CleanupSelects
  <2> QED BY <2>1, <2>2, <2>3, <2>4
<1>16. ASSUME NEW j \in Jobs, DeleteBegins(j), Alone PROVE StoreTypeOK'
  <2>1. job' \in Working /\ todo' \in [Jobs -> SUBSET Photo]
    BY <1>16 DEF DeleteBegins
  <2>2. libLock' \in Jobs \cup {None} /\ diskLock' \in Captures \cup Jobs \cup {None}
    BY <1>16 DEF DeleteBegins
  <2>3. UNCHANGED <<saveVars, disk, folder, stray, temporary, inode, taken, link, token, plan, gone, libClosed, lastRun, stored, now, published, approved, leftover>> BY <1>16 DEF DeleteBegins
  <2> QED BY <2>1, <2>2, <2>3
<1>17. ASSUME NEW j \in Jobs, DeleteOne(j), Alone PROVE StoreTypeOK'
  <2>0. PICK p \in todo[j] :
           /\ p \in Photo /\ p.name \in Names /\ p.inode \in Inodes
           /\ todo' = [todo EXCEPT ![j] = @ \ {p}]
           /\ disk' = [disk EXCEPT ![p.name] = 0] \/ UNCHANGED disk
           /\ gone' = [gone EXCEPT ![j] = @ \cup {p.name}] \/ UNCHANGED gone
    BY <1>17, DeleteEffect
  <2>1. todo' \in [Jobs -> SUBSET Photo] /\ disk' \in [Names -> 0..MaxInodes]
    <3>1. todo[j] \ {p} \in SUBSET Photo OBVIOUS
    <3>2. todo' \in [Jobs -> SUBSET Photo] BY <2>0, <3>1
    <3>3. 0 \in 0..MaxInodes /\ disk \in [Names -> 0..MaxInodes] OBVIOUS
    <3>4. [disk EXCEPT ![p.name] = 0] \in [Names -> 0..MaxInodes] BY <3>3, ExceptType, Zenon
    <3>5. disk' \in [Names -> 0..MaxInodes] BY <2>0, <3>3, <3>4, Zenon
    <3> QED BY <3>2, <3>5
  <2>2. gone' \in [Jobs -> SUBSET Names]
    <3>1. gone[j] \cup {p.name} \in SUBSET Names BY <2>0
    <3>2. [gone EXCEPT ![j] = gone[j] \cup {p.name}] \in [Jobs -> SUBSET Names] BY <3>1
    <3>3. gone' = gone \/ gone' = [gone EXCEPT ![j] = gone[j] \cup {p.name}] BY <2>0
    <3> QED BY <3>2, <3>3
  <2>3. UNCHANGED <<saveVars, folder, stray, temporary, diskLock, inode, taken, link, token, plan, job, libLock, libClosed, lastRun, stored, now, published, approved, leftover>> BY <1>17 DEF DeleteOne
  <2> QED BY <2>1, <2>2, <2>3
<1>18. ASSUME NEW j \in Jobs, DeleteEnds(j), Alone PROVE StoreTypeOK'
  <2>1. todo' \in [Jobs -> SUBSET Photo] /\ job' \in Working
    BY <1>18 DEF DeleteEnds
  <2>2. folder' \in BOOLEAN /\ diskLock' \in Captures \cup Jobs \cup {None} BY <1>18 DEF DeleteEnds
  <2>3. UNCHANGED <<saveVars, disk, stray, temporary, inode, taken, link, token, plan, gone, libLock, libClosed, lastRun, stored, now, published, approved, leftover>> BY <1>18 DEF DeleteEnds
  <2> QED BY <2>1, <2>2, <2>3
<1>19. ASSUME NEW j \in Jobs, Reconcile(j), Alone PROVE StoreTypeOK'
  <2>1. job' \in Working /\ gone' \in [Jobs -> SUBSET Names]
    BY <1>19 DEF Reconcile
  <2>2. link' \in Naming
    <3>1. link' = [c \in Captures |-> IF link[c] \in gone[j] THEN 0 ELSE link[c]] BY <1>19 DEF Reconcile
    <3>2. link \in Naming OBVIOUS
    <3> HIDE DEF TypeOK, StoreTypeOK
    <3> QED BY <3>1, <3>2
  <2>3. libLock' \in Jobs \cup {None} BY <1>19 DEF Reconcile
  <2>4. UNCHANGED <<diskVars, saveVars, stray, token, plan, todo, libClosed, lastRun, stored, now, published, approved, leftover>> BY <1>19 DEF Reconcile
  <2> QED BY <2>1, <2>2, <2>3, <2>4
<1>20. ASSUME UNCHANGED vars PROVE StoreTypeOK'
  BY <1>20
<1> QED BY <1>1, <1>2, <1>4, <1>5, <1>6, <1>7, <1>8, <1>9, <1>10, <1>11, <1>12, <1>13, <1>14,
     <1>15, <1>16, <1>17, <1>18, <1>19, <1>20
     DEF Next, Library, StoreNext, Alone, Elsewhere, ListenerStep, LoopStep

LEMMA TypeParts == TypeOK <=> StoreTypeOK /\ LoopTypeOK
PROOF
<1> QED BY DEF TypeOK, LoopTypeOK, LisTypeOK, HubTypeOK, PhotoTypeOK, StepTypeOK, Posted

LEMMA LisTypeStep ==
  ASSUME LisTypeOK, [Next]_vars
  PROVE  LisTypeOK'
PROOF
<1>1. CASE UNCHANGED lisVars BY <1>1 DEF LisTypeOK
<1>2. CASE ListenerStep
  <2>1. pressed' \subseteq Presses /\ seen' \subseteq Presses
    BY <1>2 DEF LisTypeOK, ListenerStep, Press, Accept, ListenerOpens, ListenerConnected, ListenerRefused,
                ListenerFails, ListenerEnds, Observed
  <2>2. listener' \in {"off", "connecting", "listening", "backoff", "dead"}
    BY <1>2 DEF LisTypeOK, ListenerStep, Press, Accept, ListenerOpens, ListenerConnected, ListenerRefused,
                ListenerFails, ListenerEnds
  <2>3. calls' = calls \/ \E x \in Posted : calls' = Append(calls, x)
    BY <1>2, PostedFacts DEF ListenerStep, Press, Accept, ListenerOpens, ListenerConnected, ListenerRefused,
                             ListenerFails, ListenerEnds, Post
  <2>4. calls' \in Seq(Posted) BY <2>3 DEF LisTypeOK
  <2>5. lisClosed' \in BOOLEAN BY <1>2, ListenerEffect DEF LisTypeOK
  <2> QED BY <2>1, <2>2, <2>4, <2>5 DEF LisTypeOK
<1>3. CASE LoopRuns
  <2>1. calls' \in Seq(Posted) BY <1>3, CallEffect DEF LisTypeOK
  <2>2. UNCHANGED <<pressed, listener, lisClosed, seen>> BY <1>3, CallEffect
  <2> QED BY <2>1, <2>2 DEF LisTypeOK
<1>4. CASE Stop
  <2>1. lisClosed' = TRUE /\ UNCHANGED <<pressed, listener, seen, calls>> BY <1>4 DEF Stop
  <2>2. lisClosed' \in BOOLEAN BY <2>1, Zenon
  <2> QED BY <2>1, <2>2 DEF LisTypeOK
<1>5. CASE Reload \/ Crash
  <2>1. /\ listener' = "off" /\ lisClosed' = FALSE /\ seen' = {} /\ calls' = <<>>
        /\ UNCHANGED pressed
    BY <1>5 DEF Reload, Crash, NewObjects
  <2>2. lisClosed' \in BOOLEAN BY <2>1, Zenon
  <2> QED BY <2>1, <2>2 DEF LisTypeOK
<1>6. CASE Toggle \/ Picture \/ \E c \in Captures : CaptureEnds(c) \/ Validate(c) \/ Discarded(c)
  BY <1>1, <1>6 DEF Toggle, Picture, CaptureEnds, Validate, Discarded, Unmoved
<1>7. CASE RingNext \/ RingDelayOver \/ RingSaves \/ RingPublishes \/ RingDiscards
  BY <1>1, <1>7 DEF RingNext, RingDelayOver, RingSaves, RingPublishes, RingDiscards, Unmoved
<1>8. CASE ManualBegins \/ ManualDropped \/ ManualSaves \/ ManualPublishes \/ ManualDiscards
  BY <1>1, <1>8 DEF ManualBegins, ManualDropped, ManualSaves, ManualPublishes, ManualDiscards, Unmoved
<1>9. CASE Detach \/ CloseRing \/ CloseManual \/ Unloaded
  BY <1>1, <1>9 DEF Detach, CloseRing, CloseManual, Unloaded
<1>10. CASE Library BY <1>1, <1>10 DEF Library
<1> QED BY <1>1, <1>2, <1>3, <1>4, <1>5, <1>6, <1>7, <1>8, <1>9, <1>10 DEF Next, ListenerStep

LEMMA HubTypeStep ==
  ASSUME LisTypeOK, HubTypeOK, [Next]_vars
  PROVE  HubTypeOK'
PROOF
<1>0. ASSUME Stimulus PROVE stimuli' \in 0..MaxStimuli BY <1>0 DEF Stimulus, HubTypeOK
<1>1. CASE UNCHANGED <<stimuli, hubVars>> BY <1>1 DEF HubTypeOK
<1>2. CASE Stimulus /\ UNCHANGED hubVars BY <1>0, <1>2 DEF HubTypeOK
<1>3. CASE ListenerStep
  <2>1. UNCHANGED hubVars BY <1>3, ListenerEffect
  <2>2. UNCHANGED stimuli \/ Stimulus
    BY <1>3 DEF ListenerStep, Press, Accept, ListenerOpens, ListenerConnected, ListenerRefused, ListenerFails,
                ListenerEnds
  <2> QED BY <1>1, <1>2, <2>1, <2>2
<1>4. CASE LoopRuns
  <2>1. connected' \in BOOLEAN
    <3>1. Head(calls) \in Posted BY <1>4, CallEffect DEF LisTypeOK
    <3> QED BY <1>4, <3>1, CallEffect, PostedFacts DEF HubTypeOK
  <2>2. rings' \in Nat
    <3>1. rings' = rings \/ rings' = rings + 1 BY <1>4, CallEffect
    <3> QED BY <3>1 DEF HubTypeOK
  <2>3. UNCHANGED <<stimuli, unload>> BY <1>4, CallEffect
  <2> QED BY <2>1, <2>2, <2>3 DEF HubTypeOK
<1>5. CASE Toggle \/ Picture \/ \E c \in Captures : CaptureEnds(c) \/ Validate(c) \/ Discarded(c)
  BY <1>1, <1>2, <1>5 DEF Toggle, Picture, CaptureEnds, Validate, Discarded, Unmoved
<1>6. CASE RingNext \/ RingDelayOver \/ RingSaves \/ RingPublishes \/ RingDiscards
  BY <1>1, <1>6 DEF RingNext, RingDelayOver, RingSaves, RingPublishes, RingDiscards, Unmoved
<1>7. CASE ManualBegins \/ ManualDropped \/ ManualSaves \/ ManualPublishes \/ ManualDiscards
  BY <1>1, <1>2, <1>7 DEF ManualBegins, ManualDropped, ManualSaves, ManualPublishes, ManualDiscards, Unmoved
<1>8. CASE Detach
  <2>1. Stimulus /\ unload' = "detach" /\ UNCHANGED <<connected, rings>> BY <1>8 DEF Detach
  <2> QED BY <1>0, <2>1 DEF HubTypeOK
<1>9. CASE Stop
  <2>1. unload' = "stopping" /\ connected' = FALSE /\ UNCHANGED <<stimuli, rings>> BY <1>9 DEF Stop
  <2>2. connected' \in BOOLEAN BY <2>1, Zenon
  <2> QED BY <2>1, <2>2 DEF HubTypeOK
<1>10. CASE CloseRing \/ CloseManual \/ Unloaded
  BY <1>10 DEF CloseRing, CloseManual, Unloaded, HubTypeOK
<1>11. CASE Reload \/ Crash
  <2>1. connected' = FALSE /\ rings' = 0 /\ unload' = "loaded" BY <1>11 DEF Reload, Crash, NewObjects
  <2>2. UNCHANGED stimuli \/ Stimulus BY <1>11 DEF Reload, Crash
  <2>3. connected' \in BOOLEAN BY <2>1, Zenon
  <2>4. stimuli' \in 0..MaxStimuli BY <1>0, <2>2 DEF HubTypeOK
  <2> QED BY <2>1, <2>3, <2>4 DEF HubTypeOK
<1>12. CASE Library BY <1>1, <1>2, <1>12 DEF Library
<1> QED BY <1>1, <1>3, <1>4, <1>5, <1>6, <1>7, <1>8, <1>9, <1>10, <1>11, <1>12 DEF Next, ListenerStep

LEMMA PhotoTypeStep ==
  ASSUME HubTypeOK, PhotoTypeOK, StepTypeOK, [Next]_vars
  PROVE  PhotoTypeOK'
PROOF
<1>1. CASE UNCHANGED photoVars BY <1>1 DEF PhotoTypeOK
<1>2. CASE ListenerStep BY <1>1, <1>2, ListenerEffect
<1>3. CASE LoopRuns
  <2>1. foreign' \subseteq Nat /\ sequence' \in Nat /\ pending' \in Nat
    <3>1. /\ foreign' = foreign \/ foreign' = foreign \cup {rings + 1}
          /\ sequence' = sequence \/ sequence' = rings + 1
          /\ pending' = pending \/ pending' = 0 \/ pending' = rings + 1
      BY <1>3, CallEffect
    <3>2. rings + 1 \in Nat BY DEF HubTypeOK
    <3>3. foreign' \subseteq Nat BY <3>1, <3>2, Zenon DEF PhotoTypeOK
    <3>4. sequence' \in Nat /\ pending' \in Nat BY <3>1, <3>2 DEF PhotoTypeOK
    <3> QED BY <3>3, <3>4
  <2>2. UNCHANGED stale \/ stale' = TRUE BY <1>3, CallEffect
  <2>3. stale' \in BOOLEAN BY <2>2, Zenon DEF PhotoTypeOK
  <2>4. UNCHANGED <<enabled, current, photo>> BY <1>3, CallEffect
  <2> QED BY <2>1, <2>3, <2>4 DEF PhotoTypeOK
<1>4. CASE Toggle \/ CloseRing
  <2>1. /\ stale' = TRUE /\ pending' = 0 /\ enabled' \in {enabled, ~enabled}
        /\ UNCHANGED <<sequence, current, photo, foreign>>
    BY <1>4 DEF Toggle, CloseRing, Invalidate
  <2>2. stale' \in BOOLEAN /\ enabled' \in BOOLEAN BY <2>1, Zenon DEF PhotoTypeOK
  <2> QED BY <2>1, <2>2 DEF PhotoTypeOK
<1>5. CASE RingNext
  <2>1. /\ current' = pending /\ pending' = 0 /\ stale' = FALSE
        /\ UNCHANGED <<enabled, sequence, photo, foreign>>
    BY <1>5 DEF RingNext, Unmoved
  <2>2. stale' \in BOOLEAN BY <2>1, Zenon
  <2> QED BY <2>1, <2>2 DEF PhotoTypeOK
<1>6. CASE RingPublishes
  <2>1. /\ photo' = [ring |-> current, taken |-> image["ring"]]
        /\ UNCHANGED <<enabled, pending, sequence, current, stale, foreign>>
    BY <1>6 DEF RingPublishes, Unmoved
  <2>2. image["ring"] \in Nat BY DEF StepTypeOK
  <2> QED BY <2>1, <2>2 DEF PhotoTypeOK
<1>7. CASE Reload \/ Crash
  <2>1. /\ pending' = 0 /\ sequence' = 0 /\ current' = 0 /\ stale' = FALSE
        /\ photo' = NoPhoto /\ foreign' = {} /\ UNCHANGED enabled
    BY <1>7 DEF Reload, Crash, NewObjects
  <2>2. stale' \in BOOLEAN BY <2>1, Zenon
  <2> QED BY <2>1, <2>2 DEF PhotoTypeOK, NoPhoto
<1>8. CASE Picture \/ \E c \in Captures : CaptureEnds(c) \/ Validate(c) \/ Discarded(c)
  BY <1>1, <1>8 DEF Picture, CaptureEnds, Validate, Discarded, Unmoved
<1>9. CASE RingDelayOver \/ RingSaves \/ RingDiscards
  BY <1>1, <1>9 DEF RingDelayOver, RingSaves, RingDiscards, Unmoved
<1>10. CASE ManualBegins \/ ManualDropped \/ ManualSaves \/ ManualPublishes \/ ManualDiscards
  BY <1>1, <1>10 DEF ManualBegins, ManualDropped, ManualSaves, ManualPublishes, ManualDiscards, Unmoved
<1>11. CASE Detach \/ Stop \/ CloseManual \/ Unloaded
  BY <1>1, <1>11 DEF Detach, Stop, CloseManual, Unloaded
<1>12. CASE Library BY <1>1, <1>12 DEF Library
<1> QED BY <1>1, <1>2, <1>3, <1>4, <1>5, <1>6, <1>7, <1>8, <1>9, <1>10, <1>11, <1>12 DEF Next, ListenerStep

LEMMA StepTypeStep ==
  ASSUME HubTypeOK, StepTypeOK, [Next]_vars
  PROVE  StepTypeOK'
PROOF
<1> USE DEF StepTypeOK, StepTo
<1>1. CASE UNCHANGED stepVars BY <1>1
<1>2. CASE ListenerStep BY <1>1, <1>2, ListenerEffect
<1>3. CASE LoopRuns BY <1>1, <1>3, CallEffect
<1>4. CASE Picture
  <2>1. /\ image' = [c \in Captures |-> IF step[c] = "lease" THEN rings ELSE image[c]]
        /\ fresh' = [c \in Captures |-> TRUE] /\ UNCHANGED <<step, toMedia, dropped>>
    BY <1>4 DEF Picture
  <2>2. fresh' \in [Captures -> BOOLEAN] BY <2>1, Zenon
  <2>3. image' \in [Captures -> Nat] BY <2>1 DEF HubTypeOK
  <2> QED BY <2>1, <2>2, <2>3
<1>5. ASSUME NEW c \in Captures, CaptureEnds(c) \/ Validate(c) \/ Discarded(c) PROVE StepTypeOK'
  <2>1. /\ \E s \in {"idle", "image", "release", "valid", "invalid"} : step' = [step EXCEPT ![c] = s]
        /\ UNCHANGED <<fresh, image, toMedia, dropped>>
    BY <1>5 DEF CaptureEnds, Validate, Discarded
  <2> QED BY <2>1
<1>6. ASSUME NEW c \in Captures, AskImage(c), UNCHANGED image, toMedia' \in BOOLEAN, dropped' \in BOOLEAN
      PROVE  StepTypeOK'
  <2>1. FALSE \in BOOLEAN OBVIOUS
  <2>2. fresh' \in [Captures -> BOOLEAN] BY <1>6, <2>1, ExceptType, Zenon DEF AskImage
  <2>3. step' = [step EXCEPT ![c] = "lease"] BY <1>6 DEF AskImage
  <2> QED BY <1>6, <2>2, <2>3
<1>7. CASE RingDelayOver
  <2>1. UNCHANGED <<image, toMedia, dropped>> BY <1>7 DEF RingDelayOver
  <2>2. CASE AskImage("ring") BY <1>6, <2>1, <2>2
  <2>3. CASE ~AskImage("ring")
    <3>1. step' = [step EXCEPT !["ring"] = "idle"] /\ UNCHANGED fresh BY <1>7, <2>3 DEF RingDelayOver
    <3> QED BY <2>1, <3>1
  <2> QED BY <2>2, <2>3
<1>8. CASE ManualBegins
  <2>1. AskImage("manual") /\ toMedia' \in BOOLEAN /\ dropped' = FALSE /\ UNCHANGED image BY <1>8 DEF ManualBegins
  <2>2. dropped' \in BOOLEAN BY <2>1, Zenon
  <2> QED BY <1>6, <2>1, <2>2
<1>9. CASE ManualDropped
  <2>1. dropped' = TRUE /\ UNCHANGED <<fresh, image, toMedia>> BY <1>9 DEF ManualDropped
  <2>2. dropped' \in BOOLEAN BY <2>1, Zenon
  <2>3. step' = [step EXCEPT !["manual"] = IF @ = "lease" THEN "release" ELSE @] BY <1>9 DEF ManualDropped
  <2> QED BY <2>1, <2>2, <2>3
<1>10. CASE RingNext \/ RingSaves \/ RingPublishes \/ RingDiscards
  <2>1. UNCHANGED <<fresh, image, toMedia, dropped>>
    BY <1>10 DEF RingNext, RingSaves, RingPublishes, RingDiscards
  <2>2. \E s \in {"delay", "save", "idle", "discard"} : step' = [step EXCEPT !["ring"] = s]
    BY <1>10 DEF RingNext, RingSaves, RingPublishes, RingDiscards
  <2> QED BY <2>1, <2>2
<1>11. CASE ManualSaves \/ ManualPublishes \/ ManualDiscards
  <2>1. UNCHANGED <<fresh, image, toMedia, dropped>> BY <1>11 DEF ManualSaves, ManualPublishes, ManualDiscards
  <2>2. \E s \in {"save", "idle", "discard"} : step' = [step EXCEPT !["manual"] = s]
    BY <1>11 DEF ManualSaves, ManualPublishes, ManualDiscards
  <2> QED BY <2>1, <2>2
<1>12. CASE Reload \/ Crash
  <2>1. /\ step' = [c \in Captures |-> "idle"] /\ fresh' = [c \in Captures |-> FALSE]
        /\ image' = [c \in Captures |-> 0] /\ toMedia' = FALSE /\ dropped' = FALSE
    BY <1>12 DEF Reload, Crash, NewObjects
  <2>2. fresh' \in [Captures -> BOOLEAN] /\ toMedia' \in BOOLEAN /\ dropped' \in BOOLEAN BY <2>1, Zenon
  <2> QED BY <2>1, <2>2
<1>13. CASE Toggle \/ Detach \/ Stop \/ CloseRing \/ CloseManual \/ Unloaded
  BY <1>1, <1>13 DEF Toggle, Detach, Stop, CloseRing, CloseManual, Unloaded
<1>14. CASE Library BY <1>1, <1>14 DEF Library
<1> QED BY <1>1, <1>2, <1>3, <1>4, <1>5, <1>7, <1>8, <1>9, <1>10, <1>11, <1>12, <1>13, <1>14 DEF Next, ListenerStep

\* The loop moves at most one capture, and into or out of a save none.
LEMMA StepEffect ==
  ASSUME TypeOK, LoopStep
  PROVE  \E c \in Captures : \E s \in {"idle", "delay", "lease", "image", "release", "valid", "invalid", step[c]} :
           /\ \A d \in Captures : step'[d] = IF d = c THEN s ELSE step[d]
           /\ \/ s = step[c]
              \/ step[c] # "save" /\ (step[c] = "discard" => save[c] = "idle")
PROOF
<1> USE DEF TypeOK, StoreTypeOK, StepTo
<1>1. CASE UNCHANGED step BY <1>1
<1>2. CASE ListenerStep BY <1>2, ListenerEffect
<1>3. ASSUME NEW c \in Captures, CaptureEnds(c) \/ Validate(c) \/ Discarded(c)
      PROVE  \E s \in {"idle", "image", "release", "valid", "invalid"} :
               /\ step' = [step EXCEPT ![c] = s]
               /\ step[c] # "save" /\ (step[c] = "discard" => save[c] = "idle")
  BY <1>3 DEF CaptureEnds, Validate, Discarded
<1>4. CASE RingNext \/ RingDelayOver BY <1>4 DEF RingNext, RingDelayOver, AskImage
<1>5. CASE ManualBegins BY <1>5 DEF ManualBegins, AskImage
<1>6. CASE ManualDropped BY <1>6 DEF ManualDropped
<1>7. LoopRuns \/ Toggle \/ Picture \/ Stop \/ CloseRing \/ CloseManual \/ Unloaded => UNCHANGED step
  BY DEF LoopRuns, Toggle, Picture, Stop, CloseRing, CloseManual, Unloaded
<1>8. CASE \E c \in Captures : CaptureEnds(c) \/ Validate(c) \/ Discarded(c)
  BY <1>3, <1>8
<1> QED BY <1>1, <1>2, <1>4, <1>5, <1>6, <1>7, <1>8 DEF LoopStep

LEMMA SavesStep ==
  ASSUME TypeOK, Saves, Closing, [Next]_vars
  PROVE  Saves'
PROOF
<1> USE DEF Saves, SaveOf, DiskLocks, TypeOK, StoreTypeOK
<1>1. ASSUME LoopStep PROVE Saves'
  <2>1. UNCHANGED <<disk, diskLock, temporary, save, saved, job>> BY <1>1, LoopEffect DEF FilesKept
  <2>2. PICK c \in Captures :
           \E s \in {"idle", "delay", "lease", "image", "release", "valid", "invalid", step[c]} :
             /\ \A d \in Captures : step'[d] = IF d = c THEN s ELSE step[d]
             /\ s = step[c] \/ (step[c] # "save" /\ (step[c] = "discard" => save[c] = "idle"))
    BY <1>1, StepEffect
  <2>3. ASSUME NEW d \in Captures PROVE SaveOf(d)'
    <3>1. CASE step'[d] = step[d] BY <2>1, <3>1
    <3>2. CASE step'[d] # step[d]
      <4>1. /\ step'[d] \in {"idle", "delay", "lease", "image", "release", "valid", "invalid"}
            /\ step[d] # "save" /\ (step[d] = "discard" => save[d] = "idle")
        BY <2>2, <3>2
      <4> QED BY <2>1, <4>1
    <3> QED BY <3>1, <3>2
  <2>4. DiskLocks' BY <2>1
  <2> QED BY <2>3, <2>4
<1>2. ASSUME RingSaves \/ ManualSaves PROVE Saves'
  <2>1. PICK c \in Captures :
           \/ SaveBegins(c)
           \/ /\ step[c] \in {"valid", "invalid"} /\ step' = [step EXCEPT ![c] = "idle"]
              /\ UNCHANGED <<save, saved>>
    BY <1>2, BeginEffect
  <2>2. UNCHANGED <<disk, diskLock, temporary, job>> BY <1>2, BeginEffect
  <2>3. saved[c] = 0 /\ diskLock # c /\ save[c] = "idle" BY <2>1 DEF SaveBegins
  <2>4. \A d \in Captures : d # c => step'[d] = step[d] /\ save'[d] = save[d] /\ saved'[d] = saved[d]
    BY <2>1 DEF SaveBegins
  <2>5. /\ saved'[c] = 0
        /\ \/ save'[c] \in {"queued", "done"} /\ step'[c] = "save"
           \/ save'[c] = save[c] /\ step'[c] = "idle"
    BY <2>1, <2>3 DEF SaveBegins
  <2>6. ASSUME NEW d \in Captures PROVE SaveOf(d)'
    <3>1. CASE d = c BY <2>3, <2>5, <3>1
    <3>2. CASE d # c BY <2>2, <2>4, <3>2
    <3> QED BY <3>1, <3>2
  <2>7. DiskLocks'
    <3>1. \A d \in Captures : save'[d] \in {"temp", "linked"} <=> save[d] \in {"temp", "linked"}
      BY <2>3, <2>4, <2>5
    <3> QED BY <2>2, <3>1
  <2> QED BY <2>6, <2>7
<1>3. ASSUME RingPublishes PROVE Saves'
  BY <1>3 DEF RingPublishes, Publish, StepTo
<1>4. ASSUME ManualPublishes PROVE Saves'
  BY <1>4 DEF ManualPublishes, Publish, StepTo
<1>5. ASSUME RingDiscards PROVE Saves'
  BY <1>5 DEF RingDiscards, StepTo
<1>6. ASSUME ManualDiscards PROVE Saves'
  BY <1>6 DEF ManualDiscards, StepTo
<1>7. ASSUME Detach PROVE Saves'
  BY <1>7 DEF Detach
<1>8. ASSUME Reload PROVE Saves'
  BY <1>8 DEF Reload, NewObjects, Closing, JobsDrained
<1>9. ASSUME Crash PROVE Saves'
  BY <1>9 DEF Crash, NewObjects
<1>10. ASSUME NEW c \in Captures, WriteBegins(c), Elsewhere PROVE Saves'
  <2>1. save[c] = "queued" /\ diskLock = None /\ UNCHANGED <<disk, saved, step, job>>
    BY <1>10 DEF WriteBegins, Elsewhere
  <2>2. \/ save' = [save EXCEPT ![c] = "done"] /\ temporary' = temporary \ {c} /\ diskLock' = None
        \/ save' = [save EXCEPT ![c] = "temp"] /\ temporary' = temporary \cup {c} /\ diskLock' = c
    BY <1>10 DEF WriteBegins, WriteEnds
  <2>3. \A d \in Captures : d # c => save'[d] = save[d] BY <2>2
  <2>4. ASSUME NEW d \in Captures PROVE SaveOf(d)'
    <3>1. CASE d = c
      <4>1. save'[c] \in {"done", "temp"} BY <2>2
      <4> QED BY <2>1, <3>1, <4>1
    <3>2. CASE d # c BY <2>1, <2>3, <3>2
    <3> QED BY <3>1, <3>2
  <2>5. DiskLocks'
    <3>1. \A d \in Captures : save[d] \notin {"temp", "linked"} /\ d \notin temporary BY <2>1
    <3>2. CASE save' = [save EXCEPT ![c] = "done"] /\ temporary' = temporary \ {c} /\ diskLock' = None
      BY <2>1, <2>3, <3>1, <3>2
    <3>3. CASE save' = [save EXCEPT ![c] = "temp"] /\ temporary' = temporary \cup {c} /\ diskLock' = c
      BY <2>1, <2>3, <3>1, <3>3
    <3> QED BY <2>2, <3>2, <3>3
  <2> QED BY <2>4, <2>5
<1>11. ASSUME NEW c \in Captures, WriteFails(c), Elsewhere PROVE Saves'
  <2>1. save[c] \in {"queued", "temp", "linked"} /\ (save[c] = "queued" => diskLock = None)
    BY <1>11 DEF WriteFails
  <2>2. (\A d \in Captures : d # c => saved'[d] = saved[d]) /\ saved'[c] = 0
    BY <1>11, <2>1 DEF WriteFails
  <2>3. save' = [save EXCEPT ![c] = "error"] /\ temporary' = temporary \ {c} /\ diskLock' = None
    BY <1>11 DEF WriteFails, WriteEnds
  <2>4. UNCHANGED <<disk, step, job>> BY <1>11 DEF WriteFails, Elsewhere
  <2>5. save'[c] = "error" /\ \A d \in Captures : d # c => save'[d] = save[d] BY <2>3
  <2>6. ASSUME NEW d \in Captures PROVE SaveOf(d)'
    <3>1. CASE d = c BY <2>1, <2>2, <2>4, <2>5, <3>1
    <3>2. CASE d # c BY <2>2, <2>4, <2>5, <3>2
    <3> QED BY <3>1, <3>2
  <2>7. DiskLocks'
    <3>1. \A d \in Captures : d # c => save[d] \notin {"temp", "linked"} /\ d \notin temporary BY <2>1
    <3>2. \A d \in Captures : save'[d] \notin {"temp", "linked"} /\ d \notin temporary' BY <2>3, <2>5, <3>1
    <3>3. \A j \in Jobs : job[j] # "unlink" BY <2>1
    <3> QED BY <2>3, <2>4, <3>2, <3>3
  <2> QED BY <2>6, <2>7
<1>12. ASSUME NEW c \in Captures, WriteLinks(c), Elsewhere PROVE Saves'
  <2>1. CASE cancelled[c]
    <3>1. /\ save[c] = "temp" /\ save' = [save EXCEPT ![c] = "done"] /\ temporary' = temporary \ {c}
          /\ diskLock' = None /\ UNCHANGED <<disk, saved, step, job>>
      BY <1>12, <2>1 DEF WriteLinks, WriteEnds, Elsewhere
    <3>2. save'[c] = "done" /\ \A d \in Captures : d # c => save'[d] = save[d] BY <3>1
    <3>3. ASSUME NEW d \in Captures PROVE SaveOf(d)'
      <4>1. CASE d = c BY <3>1, <3>2, <4>1
      <4>2. CASE d # c BY <3>1, <3>2, <4>2
      <4> QED BY <4>1, <4>2
    <3>4. DiskLocks' BY <3>1, <3>2
    <3> QED BY <3>3, <3>4
  <2>2. CASE ~cancelled[c]
    <3>1. PICK n \in NamesOf(c) : disk' = [disk EXCEPT ![n] = inode + 1] /\ saved' = [saved EXCEPT ![c] = n]
      BY <1>12, <2>2 DEF WriteLinks
    <3>2. save[c] = "temp" /\ save' = [save EXCEPT ![c] = "linked"] /\ UNCHANGED <<temporary, diskLock, step, job>>
      BY <1>12, <2>2 DEF WriteLinks, Elsewhere
    <3>3. n \in Names /\ n # 0 /\ disk'[n] # 0 /\ step[c] = "save"
      <4>1. n \in Names /\ n # 0 BY <3>1, NamesFacts, Zenon
      <4>2. disk'[n] = inode + 1 BY <3>1, <4>1
      <4>3. step[c] = "save" BY <3>2
      <4> QED BY <4>1, <4>2, <4>3
    <3>4. \A d \in Captures : d # c => save[d] # "linked" BY <3>2
    <3>5. \A d \in Captures : d # c => save'[d] = save[d] /\ saved'[d] = saved[d] BY <3>1, <3>2
    <3>6. save'[c] = "linked" /\ saved'[c] = n /\ step'[c] = "save" BY <3>1, <3>2, <3>3
    <3>7. ASSUME NEW d \in Captures PROVE SaveOf(d)'
      <4>1. CASE d = c BY <3>1, <3>3, <3>6, <4>1
      <4>2. CASE d # c BY <3>2, <3>4, <3>5, <4>2
      <4> QED BY <4>1, <4>2
    <3>8. DiskLocks'
      <4>1. \A d \in Captures : save'[d] \in {"temp", "linked"} <=> save[d] \in {"temp", "linked"}
        BY <3>2, <3>5, <3>6
      <4> QED BY <3>2, <4>1
    <3> QED BY <3>7, <3>8
  <2> QED BY <2>1, <2>2
<1>13. ASSUME NEW c \in Captures, WriteChecksAgain(c), Elsewhere PROVE Saves'
  <2>1. save[c] = "linked" /\ save' = [save EXCEPT ![c] = "done"] /\ temporary' = temporary \ {c}
        /\ diskLock' = None /\ UNCHANGED <<step, job>>
    BY <1>13 DEF WriteChecksAgain, WriteEnds, Elsewhere
  <2>2. \A d \in Captures : saved'[d] = saved[d] \/ (d = c /\ saved'[d] = 0)
    BY <1>13 DEF WriteChecksAgain
  <2>3. \A d \in Captures : save'[d] # "linked" BY <2>1
  <2> QED BY <2>1, <2>2, <2>3
<1>14. ASSUME NEW c \in Captures, Discard(c), Elsewhere PROVE Saves'
  <2>1. save[c] = "discard" /\ save' = [save EXCEPT ![c] = "idle"] /\ saved' = [saved EXCEPT ![c] = 0]
        /\ UNCHANGED <<step, job, temporary, diskLock>>
    BY <1>14 DEF Discard, Elsewhere
  <2>2. \A d \in Captures : saved[d] # 0 /\ d # c => disk'[saved[d]] = disk[saved[d]]
    <3>1. disk' = disk \/ (saved[c] # 0 /\ disk' = [disk EXCEPT ![saved[c]] = 0]) BY <1>14 DEF Discard
    <3>2. \A d \in Captures : saved[d] # 0 /\ d # c => saved[d] \in Names /\ saved[d] # saved[c] BY SavedFile
    <3> QED BY <3>1, <3>2
  <2>3. \A d \in Captures : d # c => save'[d] = save[d] /\ saved'[d] = saved[d] BY <2>1
  <2>4. ASSUME NEW d \in Captures PROVE SaveOf(d)'
    <3>1. CASE d = c
      <4>1. save'[c] = "idle" /\ saved'[c] = 0 BY <2>1
      <4> QED BY <2>1, <3>1, <4>1
    <3>2. CASE d # c BY <2>1, <2>2, <2>3, <3>2
    <3> QED BY <3>1, <3>2
  <2>5. DiskLocks'
    <3>1. \A d \in Captures : save'[d] \in {"temp", "linked"} <=> save[d] \in {"temp", "linked"}
      BY <2>1, <2>3
    <3> QED BY <2>1, <3>1
  <2> QED BY <2>4, <2>5
<1>15. ASSUME NEW j \in Jobs, DeleteBegins(j), Elsewhere PROVE Saves'
  <2>1. job[j] = "lock" /\ UNCHANGED <<disk, save, saved, step, temporary>> BY <1>15 DEF DeleteBegins, Elsewhere
  <2>2. \A c \in Captures : SaveOf(c)' BY <2>1
  <2>3. \/ job' = [job EXCEPT ![j] = "idle"] /\ UNCHANGED diskLock
        \/ job' = [job EXCEPT ![j] = "unlink"] /\ diskLock = None /\ diskLock' = j
    BY <1>15 DEF DeleteBegins
  <2>4. \A k \in Jobs : k # j => job'[k] = job[k] BY <2>3
  <2>5. \/ job'[j] = "idle" /\ UNCHANGED diskLock
        \/ job'[j] = "unlink" /\ diskLock = None /\ diskLock' = j
    BY <2>3
  <2>6. DiskLocks' BY <2>1, <2>4, <2>5
  <2> QED BY <2>2, <2>6
<1>16. ASSUME NEW j \in Jobs, DeleteOne(j), Elsewhere PROVE Saves'
  <2>1. diskLock = j /\ UNCHANGED <<step, job, save, saved, temporary, diskLock>>
    BY <1>16 DEF DeleteOne, Elsewhere
  <2>2. \A d \in Captures : save[d] # "linked" BY <2>1
  <2> QED BY <2>1, <2>2
<1>17. ASSUME NEW j \in Jobs, DeleteEnds(j), Elsewhere PROVE Saves'
  BY <1>17 DEF DeleteEnds, Elsewhere
<1>18. ASSUME NEW j \in Jobs, Reconcile(j), Elsewhere PROVE Saves'
  BY <1>18 DEF Reconcile, Elsewhere
<1>19. ASSUME Confirm \/ Cleanup \/ CleanupSelects \/ Prepare \/ TimePasses \/ PlanEnds, Elsewhere PROVE Saves'
  <2>1. UNCHANGED <<disk, diskLock, temporary, save, saved, step>>
    BY <1>19 DEF Confirm, Cleanup, CleanupSelects, Prepare, TimePasses, PlanEnds, Elsewhere
  <2>2. \A j \in Jobs : job'[j] = "unlink" <=> job[j] = "unlink"
    <3>1. CASE Confirm BY <3>1 DEF Confirm
    <3>2. CASE Cleanup BY <3>2 DEF Cleanup
    <3>3. CASE CleanupSelects
      <4>1. \E s \in {"idle", "lock"} : job' = [job EXCEPT !["retention"] = s] BY <3>3 DEF CleanupSelects
      <4>2. job["retention"] = "exec" BY <3>3 DEF CleanupSelects
      <4> QED BY <4>1, <4>2
    <3>4. CASE Prepare \/ TimePasses \/ PlanEnds BY <3>4 DEF Prepare, TimePasses, PlanEnds
    <3> QED BY <1>19, <3>1, <3>2, <3>3, <3>4
  <2> QED BY <2>1, <2>2
<1>20. ASSUME UNCHANGED vars PROVE Saves'
  BY <1>20
<1> QED BY <1>1, <1>2, <1>3, <1>4, <1>5, <1>6, <1>7, <1>8, <1>9, <1>10, <1>11, <1>12, <1>13,
     <1>14, <1>15, <1>16, <1>17, <1>18, <1>19, <1>20
     DEF Next, Library, StoreNext, Elsewhere, LoopStep, ListenerStep

LEMMA ClosingStep ==
  ASSUME TypeOK, Closing, [Next]_vars
  PROVE  Closing'
PROOF
<1> USE DEF Closing, JobsDrained, TypeOK, StoreTypeOK, StepTo, Unmoved
<1>1. ASSUME ListenerStep PROVE Closing'
  BY <1>1, ListenerEffect
<1>2. ASSUME LoopRuns PROVE Closing'
  <2>1. UNCHANGED libVars BY <1>2 DEF LoopRuns
  <2>2. UNCHANGED <<unload, lisClosed, step>> BY <1>2, CallEffect
  <2>3. RingClosed => pending' = pending BY <1>2, CallEffect
  <2> QED BY <2>1, <2>2, <2>3
<1>3. ASSUME Toggle PROVE Closing'
  BY <1>3 DEF Toggle
<1>4. ASSUME Picture \/ \E c \in Captures : CaptureEnds(c) \/ Validate(c) \/ Discarded(c) PROVE Closing'
  <2>1. UNCHANGED <<libVars, lisVars, hubVars, pending>> BY <1>4 DEF Picture, CaptureEnds, Validate, Discarded
  <2>2. \A c \in Captures : step[c] = "idle" => step'[c] = "idle"
    <3>1. CASE Picture BY <3>1 DEF Picture
    <3>2. ASSUME NEW c \in Captures, CaptureEnds(c) \/ Validate(c) \/ Discarded(c)
          PROVE  step[c] # "idle" /\ \A d \in Captures : d # c => step'[d] = step[d]
      BY <3>2 DEF CaptureEnds, Validate, Discarded
    <3> QED BY <1>4, <3>1, <3>2
  <2> QED BY <2>1, <2>2
<1>5. ASSUME RingNext PROVE Closing'
  BY <1>5 DEF RingNext
<1>6. ASSUME RingDelayOver \/ RingSaves \/ RingPublishes \/ RingDiscards PROVE Closing'
  <2>1. UNCHANGED <<libVars, lisVars, hubVars, pending>> /\ step["ring"] # "idle"
    BY <1>6 DEF RingDelayOver, RingSaves, RingPublishes, RingDiscards
  <2>2. step'["manual"] = step["manual"]
    BY <1>6 DEF RingDelayOver, RingSaves, RingPublishes, RingDiscards, AskImage
  <2> QED BY <2>1, <2>2
<1>7. ASSUME ManualBegins PROVE Closing'
  BY <1>7 DEF ManualBegins, AskImage
<1>8. ASSUME ManualDropped \/ ManualSaves \/ ManualPublishes \/ ManualDiscards PROVE Closing'
  <2>1. UNCHANGED <<libVars, lisVars, hubVars, pending>> /\ step["manual"] # "idle"
    BY <1>8 DEF ManualDropped, ManualSaves, ManualPublishes, ManualDiscards
  <2>2. step'["ring"] = step["ring"]
    <3>1. CASE ManualDropped BY <3>1 DEF ManualDropped
    <3>2. CASE ManualSaves BY <3>2 DEF ManualSaves
    <3>3. CASE ManualPublishes \/ ManualDiscards BY <3>3 DEF ManualPublishes, ManualDiscards
    <3> QED BY <1>8, <3>1, <3>2, <3>3
  <2> QED BY <2>1, <2>2
<1>9. ASSUME Detach PROVE Closing'
  BY <1>9 DEF Detach
<1>10. ASSUME Stop PROVE Closing'
  BY <1>10 DEF Stop
<1>11. ASSUME CloseRing PROVE Closing'
  BY <1>11 DEF CloseRing
<1>12. ASSUME CloseManual PROVE Closing'
  BY <1>12 DEF CloseManual
<1>13. ASSUME Unloaded PROVE Closing'
  BY <1>13 DEF Unloaded
<1>14. ASSUME Reload PROVE Closing'
  BY <1>14 DEF Reload, NewObjects
<1>15. ASSUME Crash PROVE Closing'
  BY <1>15 DEF Crash, NewObjects
<1>16. ASSUME Prepare \/ TimePasses \/ PlanEnds, Elsewhere PROVE Closing'
  <2>1. UNCHANGED <<job, libLock, libClosed, lisClosed, unload, pending, step>>
    BY <1>16 DEF Prepare, TimePasses, PlanEnds, Elsewhere
  <2> QED BY <2>1
<1>17. ASSUME Confirm \/ Cleanup \/ CleanupSelects, Elsewhere PROVE Closing'
  <2>1. UNCHANGED <<libLock, libClosed, lisClosed, unload, pending, step>>
    BY <1>17 DEF Confirm, Cleanup, CleanupSelects, Elsewhere
  <2>2. PICK j \in Jobs, s \in {"lock", "exec", "idle"} :
          /\ job' = [job EXCEPT ![j] = s] /\ job[j] \in {"idle", "exec"}
          /\ job[j] = "idle" => ~libClosed
    BY <1>17 DEF Confirm, Cleanup, CleanupSelects
  <2>3. \A k \in Jobs : job'[k] = IF k = j THEN s ELSE job[k] BY <2>2
  <2>4. unload \in {"loaded", "detach"} BY <2>2
  <2> QED BY <2>1, <2>2, <2>3, <2>4
<1>18. ASSUME NEW c \in Captures, Elsewhere,
              WriteBegins(c) \/ WriteFails(c) \/ WriteLinks(c) \/ WriteChecksAgain(c) \/ Discard(c)
       PROVE  Closing'
  <2>1. UNCHANGED <<libVars, lisVars, hubVars, pending, step>>
    BY <1>18 DEF WriteBegins, WriteFails, WriteLinks, WriteChecksAgain, Discard, Elsewhere
  <2> QED BY <2>1
<1>19. ASSUME NEW j \in Jobs, DeleteBegins(j), Elsewhere PROVE Closing'
  BY <1>19 DEF DeleteBegins, Elsewhere
<1>20. ASSUME NEW j \in Jobs, DeleteOne(j) \/ DeleteEnds(j) \/ Reconcile(j), Elsewhere PROVE Closing'
  <2>1. UNCHANGED <<libClosed, lisClosed, unload, pending, step>>
    BY <1>20 DEF DeleteOne, DeleteEnds, Reconcile, Elsewhere
  <2>2. job[j] \in {"unlink", "reconcile"} /\ libLock = j
    BY <1>20 DEF DeleteOne, DeleteEnds, Reconcile
  <2>3. \/ UNCHANGED <<job, libLock>>
        \/ job' = [job EXCEPT ![j] = "reconcile"] /\ UNCHANGED libLock
        \/ job' = [job EXCEPT ![j] = "idle"] /\ libLock' = None
    BY <1>20 DEF DeleteOne, DeleteEnds, Reconcile
  <2>4. \A k \in Jobs : k # j => job'[k] = job[k] /\ job[k] \notin {"unlink", "reconcile"} BY <2>2, <2>3
  <2>5. \/ job'[j] \in {"unlink", "reconcile"} /\ libLock' = j
        \/ job'[j] = "idle" /\ libLock' = None
    BY <2>2, <2>3
  <2>6. unload \in {"loaded", "detach"} BY <2>2
  <2> QED BY <2>1, <2>4, <2>5, <2>6
<1>21. ASSUME UNCHANGED vars PROVE Closing'
  BY <1>21
<1> QED BY <1>1, <1>2, <1>3, <1>4, <1>5, <1>6, <1>7, <1>8, <1>9, <1>10, <1>11, <1>12, <1>13,
     <1>14, <1>15, <1>16, <1>17, <1>18, <1>19, <1>20, <1>21
     DEF Next, Library, StoreNext, Elsewhere, ListenerStep

\* The steps of the loop that hand files over, or forget them
HandOver ==
  RingSaves \/ ManualSaves \/ RingPublishes \/ ManualPublishes \/ RingDiscards \/ ManualDiscards \/ Detach

LEMMA HandOverEffect ==
  ASSUME TypeOK, Saves, HandOver
  PROVE  /\ UNCHANGED <<disk, inode, todo, approved, leftover, lastRun, stored>>
         /\ \/ published' = published /\ \A d \in Captures : saved'[d] = saved[d]
            \/ \E c \in Captures : saved[c] = 0 /\ published' = published /\ \A d \in Captures : saved'[d] = saved[d]
            \/ \E c \in Captures :
                 /\ saved[c] # 0 /\ published' = published \cup ({disk[saved[c]]} \ {0})
                 /\ \A d \in Captures : saved'[d] = IF d = c THEN 0 ELSE saved[d]
PROOF
<1>1. CASE RingSaves \/ ManualSaves
  <2>1. \A c \in Captures : step[c] \in {"valid", "invalid"} => saved[c] = 0
    BY DEF TypeOK, StoreTypeOK, Saves, SaveOf
  <2>2. \A d \in Captures : saved'[d] = saved[d]
    BY <1>1, <2>1, BeginEffect DEF SaveBegins, TypeOK, StoreTypeOK
  <2> QED BY <1>1, <2>2, BeginEffect
<1>2. CASE RingPublishes \/ ManualPublishes
  <2>1. PICK c \in Captures : Publish(c) BY <1>2 DEF RingPublishes, ManualPublishes
  <2>2. UNCHANGED <<disk, inode, todo, approved, leftover, lastRun, stored>>
    BY <1>2 DEF RingPublishes, ManualPublishes
  <2>3. CASE saved[c] = 0 BY <2>1, <2>2, <2>3, PublishEffect
  <2>4. CASE saved[c] # 0 BY <2>1, <2>2, <2>4, PublishEffect
  <2> QED BY <2>3, <2>4
<1>3. CASE RingDiscards \/ ManualDiscards \/ Detach BY <1>3 DEF RingDiscards, ManualDiscards, Detach
<1> QED BY <1>1, <1>2, <1>3 DEF HandOver

WriteStep(c) ==
  WriteBegins(c) \/ WriteFails(c) \/ WriteLinks(c) \/ WriteChecksAgain(c) \/ Discard(c)

\* A new load remembers no file: they are all done with, or left behind.
LEMMA ReloadEffect ==
  ASSUME TypeOK, Saves, Closing, Reload \/ Crash
  PROVE  /\ UNCHANGED <<disk, inode, published, approved, stored>> /\ lastRun' = stored
         /\ \A c \in Captures : saved'[c] = 0
         /\ \A j \in Jobs : todo'[j] = {}
         /\ leftover \subseteq leftover'
         /\ \A c \in Captures : saved[c] # 0 /\ disk[saved[c]] # 0 => disk[saved[c]] \in leftover'
PROOF
<1>1. CASE Reload
  <2>1. \A c \in Captures : step[c] = "idle" BY <1>1 DEF Reload, Closing
  <2>2. \A c \in Captures : saved[c] = 0 BY <2>1 DEF Saves, SaveOf, TypeOK, StoreTypeOK
  <2> QED BY <1>1, <2>2 DEF Reload, NewObjects, LibraryStarts
<1>2. CASE Crash BY <1>2 DEF Crash, NewObjects, LibraryStarts
<1> QED BY <1>1, <1>2

LEMMA FilesStep ==
  ASSUME TypeOK, Saves, Closing, KeptFiles, [Next]_vars
  PROVE  KeptFiles'
PROOF
<1> USE DEF KeptFiles
<1>0. /\ disk \in [Names -> 0..MaxInodes] /\ inode \in 0..MaxInodes /\ published \subseteq 1..inode
      /\ saved \in Naming
  BY DEF TypeOK, StoreTypeOK
<1>1. CASE UNCHANGED <<disk, inode, published, saved>> BY <1>1
<1>2. CASE LoopStep BY <1>1, <1>2, LoopEffect DEF FilesKept
<1>3. CASE HandOver
  <2>1. UNCHANGED <<disk, inode>> BY <1>3, HandOverEffect
  <2>2. CASE published' = published /\ \A d \in Captures : saved'[d] = saved[d] BY <2>1, <2>2
  <2>3. CASE \E c \in Captures :
               /\ saved[c] # 0 /\ published' = published \cup ({disk[saved[c]]} \ {0})
               /\ \A d \in Captures : saved'[d] = IF d = c THEN 0 ELSE saved[d]
    <3>1. PICK c \in Captures :
            /\ saved[c] # 0 /\ published' = published \cup ({disk[saved[c]]} \ {0})
            /\ \A d \in Captures : saved'[d] = IF d = c THEN 0 ELSE saved[d]
      BY <2>3
    <3>2. saved[c] \in Names /\ disk[saved[c]] \in 0..inode BY <1>0, <3>1, SavedFile
    <3>3. {disk[saved[c]]} \ {0} \subseteq 1..inode BY <3>2
    <3>4. published' \subseteq 1..inode' BY <1>0, <2>1, <3>1, <3>3
    <3>5. ASSUME NEW d \in Captures, saved'[d] # 0 PROVE disk'[saved'[d]] \notin published'
      <4>1. d # c /\ saved'[d] = saved[d] BY <3>1, <3>5
      <4>2. saved[d] \in Names /\ saved[d] # saved[c] BY <3>5, <4>1, SavedFile
      <4>3. disk[saved[d]] \notin published BY <3>5, <4>1
      <4>4. disk[saved[d]] \notin {disk[saved[c]]} \ {0} BY <3>2, <4>2
      <4> QED BY <2>1, <3>1, <4>1, <4>3, <4>4, Zenon
    <3> QED BY <2>1, <3>4, <3>5
  <2> QED BY <1>3, <2>2, <2>3, HandOverEffect
<1>4. CASE Reload \/ Crash BY <1>4, ReloadEffect
<1>5. ASSUME NEW c \in Captures, WriteStep(c) PROVE KeptFiles'
  <2>1. UNCHANGED published BY <1>5, WriteEffect DEF WriteStep
  <2>2. CASE UNCHANGED <<disk, inode, saved>> BY <2>1, <2>2
  <2>3. CASE /\ saved[c] # 0 /\ saved' = [saved EXCEPT ![c] = 0]
             /\ disk' = [disk EXCEPT ![saved[c]] = 0] /\ UNCHANGED inode
    <3>1. saved[c] \in Names BY <2>3, SavedFile
    <3>2. \A n \in Names : disk'[n] = IF n = saved[c] THEN 0 ELSE disk[n] BY <1>0, <2>3
    <3>3. \A d \in Captures : saved'[d] = IF d = c THEN 0 ELSE saved[d] BY <1>0, <2>3
    <3>4. \A d \in Captures : saved'[d] # 0 => saved'[d] \in Names /\ disk'[saved'[d]] = disk[saved[d]]
      BY <3>2, <3>3, SavedFile
    <3>5. \A d \in Captures : saved'[d] # 0 => disk'[saved'[d]] \notin published'
      BY <2>1, <3>3, <3>4
    <3>6. \A n \in Names : disk'[n] <= inode' BY <1>0, <2>3, <3>2
    <3>7. \A m, n \in Names : disk'[m] = disk'[n] /\ disk'[m] # 0 => m = n BY <3>2
    <3> QED BY <2>1, <2>3, <3>5, <3>6, <3>7
  <2>4. CASE saved' = [saved EXCEPT ![c] = 0] /\ UNCHANGED <<disk, inode>>
    <3>1. \A d \in Captures : saved'[d] = IF d = c THEN 0 ELSE saved[d] BY <1>0, <2>4
    <3> QED BY <2>1, <2>4, <3>1
  <2>5. CASE /\ \E n \in NamesOf(c) : /\ disk[n] = 0 /\ disk' = [disk EXCEPT ![n] = inode + 1]
                                      /\ saved' = [saved EXCEPT ![c] = n]
             /\ inode' = inode + 1 /\ saved[c] = 0
    <3>1. PICK n \in NamesOf(c) : /\ disk[n] = 0 /\ disk' = [disk EXCEPT ![n] = inode + 1]
                                  /\ saved' = [saved EXCEPT ![c] = n]
      BY <2>5
    <3>2. n \in Names BY <3>1
    <3>3. \A m \in Names : disk'[m] = IF m = n THEN inode + 1 ELSE disk[m] BY <1>0, <3>1, <3>2
    <3>4. ASSUME NEW d \in Captures, saved'[d] # 0 PROVE disk'[saved'[d]] \notin published'
      <4>1. CASE d = c
        <5>1. saved'[d] = n /\ disk'[n] = inode + 1 BY <1>0, <3>1, <3>2, <3>3, <4>1
        <5> QED BY <1>0, <2>1, <5>1
      <4>2. CASE d # c
        <5>1. saved'[d] = saved[d] BY <1>0, <3>1, <4>2
        <5>2. saved[d] \in NamesOf(d) /\ saved[d] \in Names BY <3>4, <5>1, SavedFile DEF Saves, SaveOf
        <5>3. saved[d] # n BY <3>1, <4>2, <5>2
        <5>4. disk'[saved[d]] = disk[saved[d]] BY <3>3, <5>2, <5>3
        <5> QED BY <2>1, <3>4, <5>1, <5>4
      <4> QED BY <4>1, <4>2
    <3>5. \A m \in Names : disk[m] \in 0..inode BY <1>0
    <3>6. \A m, k \in Names : disk'[m] = disk'[k] /\ disk'[m] # 0 => m = k
      <4> SUFFICES ASSUME NEW m \in Names, NEW k \in Names, disk'[m] = disk'[k], disk'[m] # 0 PROVE m = k
        OBVIOUS
      <4>1. CASE m = n \/ k = n BY <1>0, <3>3, <3>5, <4>1
      <4>2. CASE m # n /\ k # n BY <3>3, <4>2
      <4> QED BY <4>1, <4>2
    <3>7. \A m \in Names : disk'[m] <= inode' BY <1>0, <2>5, <3>3, <3>5
    <3>8. published' \subseteq 1..inode' BY <1>0, <2>1, <2>5
    <3> QED BY <3>4, <3>6, <3>7, <3>8
  <2> QED BY <1>5, <2>2, <2>3, <2>4, <2>5, WriteEffect DEF WriteStep
<1>6. ASSUME NEW j \in Jobs, DeleteOne(j) PROVE KeptFiles'
  <2>1. UNCHANGED <<inode, published, saved>> BY <1>6 DEF DeleteOne
  <2>2. \A m \in Names : disk'[m] = disk[m] \/ disk'[m] = 0 BY <1>0, <1>6, DeleteEffect
  <2>3. ASSUME NEW c \in Captures, saved[c] # 0 PROVE disk'[saved[c]] \notin published
    <3>1. saved[c] \in Names BY <2>3, SavedFile
    <3>2. disk'[saved[c]] = disk[saved[c]] \/ disk'[saved[c]] = 0 BY <2>2, <3>1
    <3> QED BY <1>0, <2>3, <3>2
  <2>4. \A m \in Names : disk'[m] <= inode BY <1>0, <2>2
  <2>5. \A m, n \in Names : disk'[m] = disk'[n] /\ disk'[m] # 0 => m = n BY <2>2
  <2> QED BY <2>1, <2>3, <2>4, <2>5
<1>7. CASE LibraryStep BY <1>1, <1>7, LibraryEffect
<1> QED BY <1>1, <1>2, <1>3, <1>4, <1>5, <1>6, <1>7
     DEF Next, Library, StoreNext, ListenerStep, LoopStep, LibraryStep, HandOver, WriteStep

LEMMA TodoStep ==
  ASSUME TypeOK, Saves, Closing, KeptTodo, [Next]_vars
  PROVE  KeptTodo'
PROOF
<1> USE DEF KeptTodo
<1>0. todo \in [Jobs -> SUBSET Photo] BY DEF TypeOK, StoreTypeOK
<1>1. CASE UNCHANGED <<todo, approved>> BY <1>1
<1>2. CASE LoopStep BY <1>1, <1>2, LoopEffect DEF FilesKept
<1>3. CASE HandOver BY <1>1, <1>3, HandOverEffect
<1>4. CASE Reload \/ Crash
  <2>1. /\ \A j \in Jobs : todo'[j] = {}
        /\ UNCHANGED approved
    BY <1>4 DEF Reload, Crash, NewObjects
  <2> QED BY <2>1 DEF InodesOf
<1>5. ASSUME NEW c \in Captures, WriteStep(c) PROVE KeptTodo'
  BY <1>1, <1>5, WriteEffect DEF WriteStep
<1>6. ASSUME NEW j \in Jobs, NEW S \in SUBSET Photo, todo' = [todo EXCEPT ![j] = S],
             approved \subseteq approved', InodesOf(S) \subseteq approved'
      PROVE  KeptTodo'
  <2>1. todo'[j] = S /\ \A k \in Jobs : k # j => todo'[k] = todo[k] BY <1>0, <1>6
  <2> QED BY <1>6, <2>1
<1>7. ASSUME NEW j \in Jobs, DeleteOne(j) PROVE KeptTodo'
  <2>1. UNCHANGED approved BY <1>7 DEF DeleteOne
  <2>2. PICK p \in todo[j] : todo' = [todo EXCEPT ![j] = todo[j] \ {p}] BY <1>7, DeleteEffect
  <2>3. InodesOf(todo[j] \ {p}) \subseteq InodesOf(todo[j]) BY DEF InodesOf
  <2>4. todo[j] \ {p} \in SUBSET Photo BY <1>0
  <2>5. InodesOf(todo[j] \ {p}) \subseteq approved' BY <2>1, <2>3
  <2> QED BY <1>6, <2>1, <2>2, <2>4, <2>5
<1>8. InodesOf({}) = {} BY DEF InodesOf
<1>9. CASE LibraryStep
  <2>1. CASE Prepare \/ TimePasses \/ PlanEnds \/ Cleanup \/ \E j \in Jobs : Reconcile(j)
    BY <1>1, <2>1 DEF Prepare, TimePasses, PlanEnds, Cleanup, Reconcile
  <2>2. CASE Confirm
    <3>1. plan \subseteq Photo BY DEF TypeOK, StoreTypeOK
    <3>2. todo' = [todo EXCEPT !["confirmed"] = plan] /\ approved' = approved \cup InodesOf(plan)
      BY <2>2 DEF Confirm
    <3> QED BY <1>6, <3>1, <3>2
  <2>3. CASE CleanupSelects
    <3>1. CASE UNCHANGED <<todo, approved>> BY <1>1, <3>1
    <3>2. CASE ~UNCHANGED <<todo, approved>>
      <4> DEFINE old == {p \in Files : Expired(p)}
      <4>1. old \in SUBSET Photo BY DEF Files
      <4>2. todo' = [todo EXCEPT !["retention"] = old] /\ approved' = approved \cup InodesOf(old)
        BY <2>3, <3>2 DEF CleanupSelects
      <4> QED BY <1>6, <4>1, <4>2
    <3> QED BY <3>1, <3>2
  <2>4. ASSUME NEW j \in Jobs, DeleteBegins(j) \/ DeleteEnds(j) PROVE KeptTodo'
    <3>1. UNCHANGED approved /\ (UNCHANGED todo \/ todo' = [todo EXCEPT ![j] = {}])
      BY <2>4 DEF DeleteBegins, DeleteEnds
    <3> QED BY <1>1, <1>6, <1>8, <3>1
  <2> QED BY <1>9, <2>1, <2>2, <2>3, <2>4 DEF LibraryStep
<1> QED BY <1>1, <1>2, <1>3, <1>4, <1>5, <1>7, <1>9
     DEF Next, Library, StoreNext, ListenerStep, LoopStep, LibraryStep, HandOver, WriteStep

LEMMA OrphansStep ==
  ASSUME TypeOK, Saves, Closing, NoOrphans, [Next]_vars
  PROVE  NoOrphans'
PROOF
<1> USE DEF NoOrphans
<1>0. disk \in [Names -> 0..MaxInodes] /\ saved \in Naming BY DEF TypeOK, StoreTypeOK
<1>1. CASE UNCHANGED <<disk, published, leftover, saved>> BY <1>1
<1>2. CASE LoopStep BY <1>1, <1>2, LoopEffect DEF FilesKept
<1>3. CASE HandOver
  <2>1. UNCHANGED <<disk, leftover>> BY <1>3, HandOverEffect
  <2>2. CASE published' = published /\ \A d \in Captures : saved'[d] = saved[d] BY <2>1, <2>2
  <2>3. CASE \E c \in Captures :
               /\ saved[c] # 0 /\ published' = published \cup ({disk[saved[c]]} \ {0})
               /\ \A d \in Captures : saved'[d] = IF d = c THEN 0 ELSE saved[d]
    <3>1. PICK c \in Captures :
            /\ published' = published \cup ({disk[saved[c]]} \ {0})
            /\ \A d \in Captures : saved'[d] = IF d = c THEN 0 ELSE saved[d]
      BY <2>3
    <3>2. ASSUME NEW n \in Names, disk[n] # 0
          PROVE  disk[n] \in published' \cup leftover \/ \E d \in Captures : saved'[d] = n
      <4>1. CASE disk[n] \in published \cup leftover BY <3>1, <4>1
      <4>2. CASE saved[c] = n BY <3>1, <3>2, <4>2
      <4>3. CASE \E d \in Captures : d # c /\ saved[d] = n BY <3>1, <4>3
      <4> QED BY <3>2, <4>1, <4>2, <4>3
    <3> QED BY <2>1, <3>2
  <2> QED BY <1>3, <2>2, <2>3, HandOverEffect
<1>4. CASE Reload \/ Crash BY <1>4, ReloadEffect
<1>5. ASSUME NEW c \in Captures, WriteStep(c) PROVE NoOrphans'
  <2>1. UNCHANGED published BY <1>5, WriteEffect DEF WriteStep
  <2>2. CASE UNCHANGED <<disk, saved, leftover>> BY <2>1, <2>2
  <2>3. ASSUME NEW m, \A d \in Captures : saved'[d] = IF d = c THEN m ELSE saved[d],
               saved[c] # 0 => disk'[saved[c]] = 0 \/ disk'[saved[c]] \in leftover',
               \A n \in Names : n # m => disk'[n] = disk[n] \/ disk'[n] = 0,
               leftover \subseteq leftover'
        PROVE  NoOrphans'
    <3> SUFFICES ASSUME NEW n \in Names, disk'[n] # 0
                 PROVE  disk'[n] \in published' \cup leftover' \/ \E d \in Captures : saved'[d] = n
      OBVIOUS
    <3>1. CASE n = m BY <2>3, <3>1
    <3>2. CASE n # m
      <4>1. disk'[n] = disk[n] /\ disk[n] # 0 BY <2>3, <3>2
      <4>2. CASE disk[n] \in published \cup leftover BY <2>1, <2>3, <4>1, <4>2
      <4>3. CASE saved[c] = n
        <5>1. n # 0 OBVIOUS
        <5> QED BY <2>3, <4>1, <4>3, <5>1
      <4>4. CASE \E d \in Captures : d # c /\ saved[d] = n BY <2>3, <4>4
      <4> QED BY <4>1, <4>2, <4>3, <4>4
    <3> QED BY <3>1, <3>2
  <2>4. CASE /\ saved[c] # 0 /\ saved' = [saved EXCEPT ![c] = 0]
             /\ disk' = [disk EXCEPT ![saved[c]] = 0] /\ UNCHANGED leftover
    <3>1. \A d \in Captures : saved'[d] = IF d = c THEN 0 ELSE saved[d] BY <1>0, <2>4
    <3>2. saved[c] \in Names BY <2>4, SavedFile
    <3>3. \A n \in Names : disk'[n] = IF n = saved[c] THEN 0 ELSE disk[n] BY <1>0, <2>4
    <3> QED BY <2>3, <2>4, <3>1, <3>2, <3>3
  <2>5. CASE /\ saved[c] # 0 /\ saved' = [saved EXCEPT ![c] = 0]
             /\ leftover' = leftover \cup ({disk[saved[c]]} \ {0}) /\ UNCHANGED disk
    <3>1. \A d \in Captures : saved'[d] = IF d = c THEN 0 ELSE saved[d] BY <1>0, <2>5
    <3>2. disk'[saved[c]] = 0 \/ disk'[saved[c]] \in leftover' BY <2>5
    <3> QED BY <2>3, <2>5, <3>1, <3>2
  <2>6. CASE saved[c] = 0 /\ saved' = [saved EXCEPT ![c] = 0] /\ UNCHANGED <<disk, leftover>>
    <3>1. \A d \in Captures : saved'[d] = IF d = c THEN 0 ELSE saved[d] BY <1>0, <2>6
    <3> QED BY <2>3, <2>6, <3>1
  <2>7. CASE /\ \E n \in NamesOf(c) : /\ disk[n] = 0 /\ disk' = [disk EXCEPT ![n] = inode + 1]
                                      /\ saved' = [saved EXCEPT ![c] = n]
             /\ saved[c] = 0 /\ UNCHANGED leftover
    <3>1. PICK n \in NamesOf(c) : disk' = [disk EXCEPT ![n] = inode + 1] /\ saved' = [saved EXCEPT ![c] = n]
      BY <2>7
    <3>2. \A d \in Captures : saved'[d] = IF d = c THEN n ELSE saved[d] BY <1>0, <3>1
    <3>3. \A m \in Names : m # n => disk'[m] = disk[m] BY <1>0, <3>1
    <3> QED BY <2>3, <2>7, <3>2, <3>3
  <2> QED BY <1>5, <2>2, <2>4, <2>5, <2>6, <2>7, WriteEffect DEF WriteStep
<1>6. ASSUME NEW j \in Jobs, DeleteOne(j) PROVE NoOrphans'
  <2>1. UNCHANGED <<published, saved, leftover>> BY <1>6 DEF DeleteOne
  <2>2. \A m \in Names : disk'[m] = disk[m] \/ disk'[m] = 0 BY <1>0, <1>6, DeleteEffect
  <2> QED BY <2>1, <2>2
<1>7. CASE LibraryStep BY <1>1, <1>7, LibraryEffect
<1> QED BY <1>1, <1>2, <1>3, <1>4, <1>5, <1>6, <1>7
     DEF Next, Library, StoreNext, ListenerStep, LoopStep, LibraryStep, HandOver, WriteStep

LEMMA PublishedStep ==
  ASSUME TypeOK, Saves, Closing, Kept, PublishedPhotosKept, [Next]_vars
  PROVE  PublishedPhotosKept'
PROOF
<1> USE DEF PublishedPhotosKept
<1>0. /\ disk \in [Names -> 0..MaxInodes] /\ saved \in Naming
      /\ published \subseteq 1..inode /\ inode \in 0..MaxInodes
  BY DEF TypeOK, StoreTypeOK, Kept, KeptFiles
<1>1. ASSUME published' = published, approved \subseteq approved',
             \A n \in Names : disk[n] \in published => disk'[n] = disk[n] \/ disk[n] \in approved
      PROVE  PublishedPhotosKept'
  <2> SUFFICES ASSUME NEW i \in published, i \notin approved PROVE \E n \in Names : disk'[n] = i
    BY <1>1
  <2>1. PICK n \in Names : disk[n] = i OBVIOUS
  <2> QED BY <1>1, <2>1
<1>2. CASE UNCHANGED <<disk, published, approved>> BY <1>1, <1>2
<1>3. CASE LoopStep BY <1>2, <1>3, LoopEffect DEF FilesKept
<1>4. CASE HandOver
  <2>1. UNCHANGED <<disk, approved>> BY <1>4, HandOverEffect
  <2>2. CASE published' = published BY <1>2, <2>1, <2>2
  <2>3. CASE \E c \in Captures : saved[c] # 0 /\ published' = published \cup ({disk[saved[c]]} \ {0})
    <3>1. PICK c \in Captures : saved[c] # 0 /\ published' = published \cup ({disk[saved[c]]} \ {0}) BY <2>3
    <3>2. saved[c] \in Names BY <3>1, SavedFile
    <3>3. disk[saved[c]] \in {disk[n] : n \in Names} BY <3>2
    <3> QED BY <2>1, <3>1, <3>3
  <2> QED BY <1>4, <2>2, <2>3, HandOverEffect
<1>5. CASE Reload \/ Crash BY <1>2, <1>5, ReloadEffect
<1>6. ASSUME NEW c \in Captures, WriteStep(c) PROVE PublishedPhotosKept'
  <2>1. UNCHANGED <<published, approved>> BY <1>6, WriteEffect DEF WriteStep
  <2>2. CASE UNCHANGED disk BY <1>2, <2>1, <2>2
  <2>3. CASE saved[c] # 0 /\ disk' = [disk EXCEPT ![saved[c]] = 0]
    <3>1. saved[c] \in Names /\ disk[saved[c]] \notin published BY <2>3, SavedFile DEF Kept, KeptFiles
    <3>2. \A n \in Names : n # saved[c] => disk'[n] = disk[n] BY <1>0, <2>3
    <3>3. \A n \in Names : disk[n] \in published => disk'[n] = disk[n] BY <3>1, <3>2
    <3> QED BY <1>1, <2>1, <3>3
  <2>4. CASE \E n \in NamesOf(c) : disk[n] = 0 /\ disk' = [disk EXCEPT ![n] = inode + 1]
    <3>1. PICK n \in NamesOf(c) : disk[n] = 0 /\ disk' = [disk EXCEPT ![n] = inode + 1] BY <2>4
    <3>2. disk[n] \notin published BY <1>0, <3>1
    <3>3. \A m \in Names : m # n => disk'[m] = disk[m] BY <1>0, <3>1
    <3>4. \A m \in Names : disk[m] \in published => disk'[m] = disk[m] BY <3>2, <3>3
    <3> QED BY <1>1, <2>1, <3>4
  <2> QED BY <1>6, <2>2, <2>3, <2>4, WriteEffect DEF WriteStep
<1>7. ASSUME NEW j \in Jobs, DeleteOne(j) PROVE PublishedPhotosKept'
  <2>1. UNCHANGED <<published, approved>> BY <1>7 DEF DeleteOne
  <2>2. PICK p \in todo[j] :
          /\ p.name \in Names
          /\ disk' = disk \/ (disk[p.name] = p.inode /\ disk' = [disk EXCEPT ![p.name] = 0])
    BY <1>7, DeleteEffect
  <2>3. p.inode \in InodesOf(todo[j]) BY DEF InodesOf
  <2>4. p.inode \in approved BY <2>3 DEF Kept, KeptTodo
  <2>5. \A n \in Names : disk'[n] = disk[n] \/ disk[n] \in approved BY <1>0, <2>2, <2>4
  <2> QED BY <1>1, <2>1, <2>5
<1>8. CASE LibraryStep
  <2>1. UNCHANGED <<disk, published>> /\ approved \subseteq approved' BY <1>8, LibraryEffect
  <2> QED BY <1>1, <2>1
<1> QED BY <1>2, <1>3, <1>4, <1>5, <1>6, <1>7, <1>8
     DEF Next, Library, StoreNext, ListenerStep, LoopStep, LibraryStep, HandOver, WriteStep

LEMMA NewestStep ==
  ASSUME TypeOK, Newest, [Next]_vars
  PROVE  Newest'
PROOF
<1> USE DEF Newest
<1>0. /\ DOMAIN step = Captures /\ DOMAIN fresh = Captures /\ DOMAIN image = Captures
      /\ rings \in Nat /\ pending \in Nat /\ foreign \subseteq Nat
  BY DEF TypeOK
<1>1. ASSUME UNCHANGED <<foreign, rings, pending, enabled, stale, current>>,
             step'["ring"] = step["ring"], fresh'["ring"] = fresh["ring"], image'["ring"] = image["ring"]
      PROVE  Newest'
  BY <1>1
<1>2. CASE ListenerStep BY <1>1, <1>2, ListenerEffect
<1>3. CASE LoopRuns
  <2>1. UNCHANGED <<enabled, current, step, fresh, image>> BY <1>3, CallEffect
  <2>2. CASE UNCHANGED <<rings, foreign, stale, sequence, pending>> BY <1>1, <2>1, <2>2
  <2>3. CASE /\ rings' = rings + 1 /\ foreign' \in {foreign, foreign \cup {rings + 1}}
             /\ enabled /\ stale' = TRUE
             /\ \/ pending' = rings + 1 /\ foreign' = foreign
                \/ pending' = 0
    <3>1. \A s \in foreign' : s <= rings' BY <1>0, <2>3
    <3>2. rings + 1 \notin foreign BY <1>0
    <3>3. pending' # 0 => enabled' /\ pending' = rings' /\ pending' \notin foreign' BY <2>1, <2>3, <3>2
    <3> QED BY <2>3, <3>1, <3>3
  <2>4. CASE /\ rings' = rings + 1 /\ foreign' \in {foreign, foreign \cup {rings + 1}}
             /\ ~enabled /\ UNCHANGED <<stale, sequence, pending>>
    <3>1. \A s \in foreign' : s <= rings' BY <1>0, <2>4
    <3> QED BY <2>1, <2>4, <3>1
  <2> QED BY <1>3, <2>2, <2>3, <2>4, CallEffect
<1>4. CASE Toggle \/ CloseRing
  <2>1. UNCHANGED <<foreign, rings>> /\ pending' = 0 /\ stale' = TRUE BY <1>4 DEF Toggle, CloseRing, Invalidate
  <2> QED BY <2>1
<1>5. CASE Picture
  <2>1. UNCHANGED <<foreign, rings, pending, enabled, stale, current, step>> BY <1>5 DEF Picture, Unmoved
  <2>2. image'["ring"] = (IF step["ring"] = "lease" THEN rings ELSE image["ring"]) BY <1>5 DEF Picture
  <2> QED BY <2>1, <2>2
<1>6. ASSUME NEW c \in Captures, CaptureEnds(c) \/ Validate(c) \/ Discarded(c) PROVE Newest'
  <2>1. UNCHANGED <<foreign, rings, pending, enabled, stale, current, fresh, image>>
    BY <1>6 DEF CaptureEnds, Validate, Discarded, Unmoved
  <2>2. CASE c # "ring"
    <3>1. step'["ring"] = step["ring"] BY <1>0, <1>6, <2>2 DEF CaptureEnds, Validate, Discarded, StepTo
    <3> QED BY <1>1, <2>1, <3>1
  <2>3. CASE c = "ring"
    <3>1. /\ step["ring"] # "idle"
          /\ \/ step'["ring"] \in {"idle", "release", "invalid"}
             \/ step["ring"] = "image" \/ (step["ring"] = "lease" /\ fresh["ring"])
      BY <1>0, <1>6, <2>3 DEF CaptureEnds, ImageNewer, Validate, Discarded, StepTo
    <3> QED BY <2>1, <3>1
  <2> QED BY <2>2, <2>3
<1>7. CASE RingNext
  <2>1. /\ UNCHANGED <<foreign, rings, enabled>> /\ pending # 0
        /\ current' = pending /\ pending' = 0 /\ step'["ring"] = "delay"
    BY <1>0, <1>7 DEF RingNext, Unmoved, StepTo
  <2> QED BY <2>1
<1>8. CASE RingDelayOver
  <2>1. UNCHANGED <<foreign, rings, pending, enabled, stale, current>> BY <1>8 DEF RingDelayOver, Unmoved
  <2>2. /\ step["ring"] # "idle"
        /\ step'["ring"] = "idle" \/ (step'["ring"] = "lease" /\ ~fresh'["ring"])
    BY <1>0, <1>8 DEF RingDelayOver, AskImage, StepTo
  <2> QED BY <2>1, <2>2
<1>9. CASE RingSaves
  <2>1. UNCHANGED <<foreign, rings, pending, enabled, stale, current, fresh, image>> BY <1>9 DEF RingSaves, Unmoved
  <2>2. /\ step["ring"] # "idle"
        /\ step'["ring"] = "idle" \/ (step["ring"] = "valid" /\ step'["ring"] = "save")
    BY <1>0, <1>9 DEF RingSaves, StepTo
  <2> QED BY <2>1, <2>2
<1>10. CASE RingPublishes \/ RingDiscards
  <2>1. UNCHANGED <<foreign, rings, pending, enabled, stale, current>>
    BY <1>10 DEF RingPublishes, RingDiscards, Unmoved
  <2>2. step["ring"] # "idle" /\ step'["ring"] \in {"idle", "discard"}
    BY <1>0, <1>10 DEF RingPublishes, RingDiscards, StepTo
  <2> QED BY <2>1, <2>2
<1>11. CASE ManualBegins
  <2>1. UNCHANGED <<foreign, rings, pending, enabled, stale, current, image>> BY <1>11 DEF ManualBegins
  <2>2. step'["ring"] = step["ring"] /\ fresh'["ring"] = fresh["ring"]
    BY <1>0, <1>11 DEF ManualBegins, AskImage, StepTo
  <2> QED BY <1>1, <2>1, <2>2
<1>12. CASE ManualDropped \/ ManualSaves \/ ManualPublishes \/ ManualDiscards
  <2>1. UNCHANGED <<foreign, rings, pending, enabled, stale, current, fresh, image>>
    BY <1>12 DEF ManualDropped, ManualSaves, ManualPublishes, ManualDiscards, Unmoved
  <2>2. step'["ring"] = step["ring"]
    BY <1>0, <1>12 DEF ManualDropped, ManualSaves, ManualPublishes, ManualDiscards, StepTo
  <2> QED BY <1>1, <2>1, <2>2
<1>13. CASE Detach \/ Stop \/ CloseManual \/ Unloaded
  <2>1. UNCHANGED <<foreign, rings, pending, enabled, stale, current, step, fresh, image>>
    BY <1>13 DEF Detach, Stop, CloseManual, Unloaded
  <2> QED BY <1>1, <2>1
<1>14. CASE Reload \/ Crash
  <2>1. foreign' = {} /\ pending' = 0 /\ step'["ring"] = "idle" BY <1>14 DEF Reload, Crash, NewObjects
  <2> QED BY <2>1
<1>15. CASE Library BY <1>1, <1>15 DEF Library
<1> QED BY <1>1, <1>2, <1>3, <1>4, <1>5, <1>6, <1>7, <1>8, <1>9, <1>10, <1>11, <1>12, <1>13, <1>14, <1>15
     DEF Next, ListenerStep

LEMMA RememberedStep ==
  ASSUME TypeOK, Saves, Closing, Remembered, [Next]_vars
  PROVE  Remembered'
PROOF
<1> USE DEF Remembered
<1>1. ASSUME LoopStep PROVE Remembered'
  BY <1>1, LoopEffect DEF FilesKept
<1>2. ASSUME HandOver PROVE Remembered'
  BY <1>2, HandOverEffect
<1>3. ASSUME Reload \/ Crash PROVE Remembered'
  BY <1>3, ReloadEffect
<1>4. ASSUME NEW c \in Captures, WriteStep(c) PROVE Remembered'
  BY <1>4, WriteEffect DEF WriteStep
<1>5. ASSUME NEW j \in Jobs, DeleteOne(j) PROVE Remembered'
  BY <1>5 DEF DeleteOne
<1>6. ASSUME LibraryStep PROVE Remembered'
  BY <1>6 DEF LibraryStep, Prepare, TimePasses, PlanEnds, Confirm, Cleanup, CleanupSelects, DeleteBegins,
              DeleteEnds, Reconcile
<1>7. ASSUME UNCHANGED vars PROVE Remembered'
  BY <1>7
<1> QED BY <1>1, <1>2, <1>3, <1>4, <1>5, <1>6, <1>7
     DEF Next, Library, StoreNext, ListenerStep, LoopStep, LibraryStep, HandOver, WriteStep

LEMMA InitHolds == Init => IInv
PROOF
<1> SUFFICES ASSUME Init PROVE IInv OBVIOUS
<1> USE DEF Init, DoorbellInit, StoreInit, OldPhoto
<1>1. StoreTypeOK
  <2> USE DEF StoreTypeOK
  <2>1. FALSE \in BOOLEAN /\ 0 \in 0..MaxInodes /\ 1 \in 0..MaxInodes /\ 0 \in 0..MaxTime OBVIOUS
  <2>2. disk \in [Names -> 0..MaxInodes]
    <3>1. disk = [n \in Names |-> 0] \/ disk = [n \in Names |-> IF n = 1 THEN 1 ELSE 0] OBVIOUS
    <3> QED BY <2>1, <3>1
  <2>3. folder \in BOOLEAN /\ stray \in BOOLEAN /\ token \in BOOLEAN /\ libClosed \in BOOLEAN
    <3>1. folder = (disk[1] = 1) /\ stray = FALSE /\ token = FALSE /\ libClosed = FALSE OBVIOUS
    <3>2. folder = TRUE \/ folder = FALSE BY <3>1, Zenon
    <3> QED BY <3>1, <3>2, Zenon
  <2>4. published \subseteq Inodes
    <3>1. published = {disk[1]} \ {0} /\ disk[1] \in 0..MaxInodes BY <2>2
    <3> QED BY <3>1
  <2>5. /\ temporary \subseteq Captures /\ diskLock \in Captures \cup Jobs \cup {None}
        /\ inode \in 0..MaxInodes /\ taken \in [Inodes -> 0..MaxTime]
    OBVIOUS
  <2>6. save \in Saving /\ saved \in Naming /\ link \in Naming /\ job \in Working OBVIOUS
  <2>7. cancelled \in [Captures -> BOOLEAN]
    <3>1. cancelled = [c \in Captures |-> FALSE] OBVIOUS
    <3> QED BY <2>1, <3>1, Zenon
  <2>8. /\ plan \subseteq Photo /\ todo \in [Jobs -> SUBSET Photo] /\ gone \in [Jobs -> SUBSET Names]
        /\ libLock \in Jobs \cup {None}
    OBVIOUS
  <2>9. /\ lastRun \in -1..MaxTime /\ stored \in -1..MaxTime /\ now \in 0..MaxTime
        /\ approved \subseteq Inodes /\ leftover \subseteq Inodes
    OBVIOUS
  <2> HIDE DEF Init, DoorbellInit, StoreInit
  <2> QED BY <2>2, <2>3, <2>4, <2>5, <2>6, <2>7, <2>8, <2>9
<1>2. LoopTypeOK
  <2>1. LisTypeOK
    <3>1. lisClosed \in BOOLEAN
      <4>1. lisClosed = FALSE OBVIOUS
      <4> QED BY <4>1, Zenon
    <3> QED BY <3>1 DEF LisTypeOK
  <2>2. HubTypeOK
    <3>1. connected \in BOOLEAN
      <4>1. connected = FALSE OBVIOUS
      <4> QED BY <4>1, Zenon
    <3> QED BY <3>1 DEF HubTypeOK
  <2>3. PhotoTypeOK
    <3>1. enabled \in BOOLEAN /\ stale \in BOOLEAN
      <4>1. enabled = TRUE /\ stale = FALSE OBVIOUS
      <4> QED BY <4>1, Zenon
    <3> QED BY <3>1 DEF PhotoTypeOK, NoPhoto
  <2>4. StepTypeOK
    <3>1. fresh \in [Captures -> BOOLEAN] /\ toMedia \in BOOLEAN /\ dropped \in BOOLEAN
      <4>1. fresh = [c \in Captures |-> FALSE] /\ toMedia = FALSE /\ dropped = FALSE OBVIOUS
      <4> QED BY <4>1, Zenon
    <3> QED BY <3>1 DEF StepTypeOK
  <2> QED BY <2>1, <2>2, <2>3, <2>4 DEF LoopTypeOK
<1>3. Saves BY DEF Saves, SaveOf, DiskLocks
<1>4. Closing BY DEF Closing, JobsDrained
<1>5. Kept BY DEF Kept, KeptFiles, KeptTodo, InodesOf
<1>6. NoOrphans BY DEF NoOrphans
<1>7. PublishedPhotosKept BY DEF PublishedPhotosKept
<1>8. Newest /\ Remembered BY DEF Newest, Remembered
<1> QED BY <1>1, <1>2, <1>3, <1>4, <1>5, <1>6, <1>7, <1>8, TypeParts DEF IInv

-----------------------------------------------------------------------------
(* The theorems                                                            *)

\* The inductive invariant holds in every reachable state.
THEOREM IInvInvariant == Spec => []IInv
PROOF
<1>1. Init => IInv BY InitHolds
<1>2. IInv /\ [Next]_vars => IInv'
  <2> SUFFICES ASSUME IInv, [Next]_vars PROVE IInv' OBVIOUS
  <2>1. /\ TypeOK /\ Saves /\ Closing /\ Kept /\ NoOrphans /\ PublishedPhotosKept /\ Newest /\ Remembered
    BY DEF IInv
  <2>2. TypeOK'
    <3>1. LisTypeOK /\ HubTypeOK /\ PhotoTypeOK /\ StepTypeOK BY <2>1, TypeParts DEF LoopTypeOK
    <3>2. StoreTypeOK' BY <2>1, StoreTypeStep
    <3>3. LisTypeOK' /\ HubTypeOK' /\ PhotoTypeOK' /\ StepTypeOK'
      BY <3>1, LisTypeStep, HubTypeStep, PhotoTypeStep, StepTypeStep
    <3>4. (TypeOK <=> StoreTypeOK /\ LoopTypeOK)' BY TypeParts, PTL
    <3> QED BY <3>2, <3>3, <3>4 DEF LoopTypeOK
  <2>3. Saves' /\ Closing' BY <2>1, SavesStep, ClosingStep
  <2>4. Kept' BY <2>1, FilesStep, TodoStep DEF Kept
  <2>5. NoOrphans' /\ PublishedPhotosKept' BY <2>1, OrphansStep, PublishedStep
  <2>6. Newest' /\ Remembered' BY <2>1, NewestStep, RememberedStep
  <2> QED BY <2>2, <2>3, <2>4, <2>5, <2>6 DEF IInv
<1> QED BY <1>1, <1>2, PTL DEF Spec

\* Every variable of the doorbell, its captures and its store keeps its type.
THEOREM TypeCorrect == Spec => []TypeOK
PROOF
<1>1. IInv => TypeOK BY DEF IInv
<1> QED BY <1>1, IInvInvariant, PTL

\* The file of a published photo stays until its deletion is confirmed or due, for
\* any number of names, files and presses: saving, undoing a save and deleting
\* from an older plan never hit it.
THEOREM PublishedTheorem == Spec => []PublishedPhotosKept
PROOF
<1>1. IInv => PublishedPhotosKept BY DEF IInv
<1> QED BY <1>1, IInvInvariant, PTL

\* No file stays that nobody was told of, but for failed discards and crashes.
THEOREM OrphansTheorem == Spec => []NoOrphans
PROOF
<1>1. IInv => NoOrphans BY DEF IInv
<1> QED BY <1>1, IInvInvariant, PTL

\* When the entry is unloaded no capture, write or deletion of it still runs.
THEOREM DrainedTheorem == Spec => []UnloadDrained
PROOF
<1>1. IInv => UnloadDrained
  <2> SUFFICES ASSUME IInv, unload = "unloaded"
               PROVE  /\ \A c \in Captures : step[c] = "idle" /\ save[c] = "idle" /\ saved[c] = 0
                      /\ JobsDrained /\ libLock = None /\ diskLock = None /\ temporary = {}
                      /\ lisClosed /\ pending = 0
    BY DEF UnloadDrained
  <2>0. /\ save \in Saving /\ temporary \subseteq Captures
        /\ libLock \in Jobs \cup {None} /\ diskLock \in Captures \cup Jobs \cup {None}
    BY DEF IInv, TypeOK, StoreTypeOK
  <2>1. Closing /\ (\A c \in Captures : SaveOf(c)) /\ DiskLocks BY DEF IInv, Saves
  <2>2. \A c \in Captures : step[c] = "idle" BY <2>1 DEF Closing
  <2>3. \A c \in Captures : save[c] = "idle" BY <2>0, <2>1, <2>2 DEF SaveOf
  <2>4. \A c \in Captures : saved[c] = 0 BY <2>1, <2>3 DEF SaveOf
  <2>5. JobsDrained /\ lisClosed /\ pending = 0 BY <2>1 DEF Closing
  <2>6. diskLock = None /\ temporary = {} BY <2>0, <2>1, <2>3, <2>5 DEF DiskLocks, JobsDrained
  <2>7. libLock = None BY <2>0, <2>1, <2>5 DEF Closing, JobsDrained
  <2> QED BY <2>2, <2>3, <2>4, <2>5, <2>6, <2>7
<1> QED BY <1>1, IInvInvariant, PTL

\* A photo that is published is that of the newest ring, taken after it and before
\* any other, and the ring was one of the main panel.
THEOREM LatestRingTheorem == Spec => PhotoOfLatestRing
PROOF
<1>1. IInv /\ [Next]_vars =>
        [photo' # photo /\ photo' # NoPhoto =>
           photo' = [ring |-> rings', taken |-> rings'] /\ photo'.ring \notin foreign']_vars
  <2> SUFFICES ASSUME IInv, Next, photo' # photo, photo' # NoPhoto
               PROVE  photo' = [ring |-> rings', taken |-> rings'] /\ photo'.ring \notin foreign'
    OBVIOUS
  <2>1. CASE ListenerStep BY <2>1, ListenerEffect
  <2>2. CASE LoopRuns BY <2>2, CallEffect
  <2>3. CASE RingPublishes
    BY <2>3 DEF RingPublishes, Unmoved, Current, IInv, Newest
  <2>4. CASE Reload \/ Crash BY <2>4 DEF Reload, Crash, NewObjects
  <2>5. CASE \E c \in Captures : CaptureEnds(c) \/ Validate(c) \/ Discarded(c)
    BY <2>5 DEF CaptureEnds, Validate, Discarded
  <2>6. CASE Toggle \/ Picture \/ RingNext \/ RingDelayOver \/ RingSaves \/ RingDiscards
    BY <2>6 DEF Toggle, Picture, RingNext, RingDelayOver, RingSaves, RingDiscards
  <2>7. CASE ManualBegins \/ ManualDropped \/ ManualSaves \/ ManualPublishes \/ ManualDiscards
    BY <2>7 DEF ManualBegins, ManualDropped, ManualSaves, ManualPublishes, ManualDiscards
  <2>8. CASE Detach \/ Stop \/ CloseRing \/ CloseManual \/ Unloaded
    BY <2>8 DEF Detach, Stop, CloseRing, CloseManual, Unloaded
  <2>9. CASE Library BY <2>9 DEF Library
  <2> QED BY <2>1, <2>2, <2>3, <2>4, <2>5, <2>6, <2>7, <2>8, <2>9 DEF Next, ListenerStep
<1> QED BY <1>1, IInvInvariant, PTL DEF Spec, PhotoOfLatestRing

\* Two attempts of the retention are at least 24 hours apart, whatever is
\* reloaded or killed between them.
THEOREM RetentionTheorem == Spec => RetentionSpaced
PROOF
<1>1. IInv /\ [Next]_vars => [stored' # stored /\ stored # -1 => stored' - stored >= 2]_vars
  <2> SUFFICES ASSUME IInv, Next, stored' # stored, stored # -1 PROVE stored' - stored >= 2
    OBVIOUS
  <2>0. TypeOK /\ Saves /\ Closing /\ Remembered BY DEF IInv
  <2>1. CASE LoopStep BY <2>0, <2>1, LoopEffect DEF FilesKept
  <2>2. CASE HandOver BY <2>0, <2>2, HandOverEffect
  <2>3. CASE Reload \/ Crash BY <2>0, <2>3, ReloadEffect
  <2>4. ASSUME NEW c \in Captures, WriteStep(c) PROVE stored' = stored
    BY <2>0, <2>4, WriteEffect DEF WriteStep
  <2>5. ASSUME NEW j \in Jobs, DeleteOne(j) PROVE stored' = stored BY <2>5 DEF DeleteOne
  <2>6. CASE Cleanup BY <2>0, <2>6 DEF Cleanup, CleanupAllowed, Remembered
  <2>7. CASE LibraryStep /\ ~Cleanup
    BY <2>7 DEF LibraryStep, Prepare, TimePasses, PlanEnds, Confirm, CleanupSelects, DeleteBegins,
                DeleteEnds, Reconcile
  <2> QED BY <2>1, <2>2, <2>3, <2>4, <2>5, <2>6, <2>7
       DEF Next, Library, StoreNext, ListenerStep, LoopStep, LibraryStep, HandOver, WriteStep
<1> QED BY <1>1, IInvInvariant, PTL DEF Spec, RetentionSpaced
=============================================================================
