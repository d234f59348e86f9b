----------------------------- MODULE CloudEntry -----------------------------
(***************************************************************************)
(* The life of an entry with a cloud doorbell: set up, reconfigured and    *)
(* reloaded, removed, or ended by a crash of Home Assistant (__init__.py,  *)
(* hub.py and connect3/hub.py), over the doorbell of V1Cloud or of QvCloud.*)
(* A behaviour is of one entry, of one of the two kinds.                   *)
(***************************************************************************)
EXTENDS V1Cloud, QvCloud

vars == <<stimuli, vendor, entryVars, cloudVars, diskVars, mem, runVars, obsVars, v1Vars, qvVars>>

TypeOK == FcmTypeOK /\ V1TypeOK /\ QvTypeOK

\* Nothing yet, or for QV what a version with Web Push credentials left subscribed
Init ==
  /\ stimuli = 0 /\ vendor \in {"v1", "qv"}
  /\ entry = "setup" /\ after = "setup" /\ option = TRUE /\ config = 0 /\ channels = {1, 2}
  /\ disk \in {Blank} \cup (IF vendor = "v1" THEN {}
       ELSE {[made |-> TRUE, token |-> 1, web |-> TRUE, intents |-> {1}, seen |-> {}]})
  /\ issued = disk.token /\ target = disk.token /\ remote = disk.intents
  /\ pressed = {} /\ queued = [p \in Calls |-> 0]
  /\ save = NoSave /\ mem = Blank
  /\ closed = TRUE /\ mine = 0 /\ run = "off" /\ cancelled = FALSE /\ clean = FALSE /\ tries = 0
  /\ subscribed = FALSE /\ heard = {} /\ earlier = {}
  /\ rang = [p \in Calls |-> 0] /\ lossy = FALSE
  /\ V1Init /\ QvInit

\* async_setup_entry: a new doorbell; disabled, it only removes what it left subscribed
Setup ==
  /\ entry = "setup" /\ entry' = "loaded"
  /\ mine' = config /\ cancelled' = FALSE /\ tries' = 0 /\ subscribed' = FALSE /\ heard' = {}
  /\ mem' = Blank
  /\ IF vendor = "v1" THEN V1Start(~option) ELSE IF option THEN QvStart ELSE QvClean
  /\ UNCHANGED <<stimuli, vendor, after, option, config, channels, cloudVars, diskVars, obsVars, v1Vars, qvVars>>

\* A flow changes the entry at once and schedules its reload.
Reconfigure(o, c, account) ==
  /\ Stimulus /\ entry = "loaded"
  /\ option' = o /\ channels' = c /\ config' = (IF account THEN config + 1 ELSE config)
  /\ entry' = "reload" /\ after' = "setup"
  /\ UNCHANGED <<vendor, cloudVars, diskVars, mem, runVars, obsVars, v1Vars, qvVars>>

Remove ==
  /\ Stimulus /\ entry = "loaded"
  /\ entry' = "reload" /\ after' = "remove"
  /\ UNCHANGED <<vendor, option, config, channels, cloudVars, diskVars, mem, runVars, obsVars, v1Vars, qvVars>>

\* hub.stop(): the hub is stopped; what it closes first may take a while
Unload ==
  /\ entry = "reload" /\ entry' = "stopping"
  /\ UNCHANGED <<stimuli, vendor, after, option, config, channels, cloudVars, diskVars, mem,
       runVars, obsVars, v1Vars, qvVars>>

\* Then its doorbell is closed, before anything of it is awaited
CloudCloses ==
  /\ HubStopped /\ ~closed /\ closed' = TRUE
  /\ UNCHANGED <<stimuli, vendor, entry, after, option, config, channels, cloudVars, diskVars, mem, mine,
       run, cancelled, clean, tries, subscribed, heard, earlier, obsVars, v1Vars, qvVars>>

\* The stop has drained what it owned: V1 after its last save, whatever becomes of it;
\* the removal of a QV entry goes on to disable its subscriptions (async_remove_entry).
Stopped(ok) ==
  /\ IF vendor = "v1"
       THEN entry = "last" /\ save.by = (IF mem.made THEN "last" ELSE "none")
       ELSE Stopping /\ run = "off"
  /\ IF save.by = "last" THEN SaveEnds(ok) /\ Counted(ok) ELSE ok /\ UNCHANGED <<diskVars, stimuli>>
  /\ lossy' = (lossy \/ ~ok)
  /\ IF after = "setup"
       THEN entry' = "setup" /\ UNCHANGED <<run, clean, mine>>
       ELSE IF vendor = "v1"
         THEN entry' = "removed" /\ UNCHANGED <<run, clean, mine>>
         ELSE entry' = "removing" /\ run' = "load" /\ clean' = TRUE /\ mine' = config
  /\ UNCHANGED <<vendor, after, option, config, channels, cloudVars, mem, closed, cancelled, tries,
       subscribed, heard, earlier, rang, v1Vars, qvVars>>

Removed ==
  /\ entry = "removing" /\ run = "off" /\ entry' = "removed"
  /\ UNCHANGED <<stimuli, vendor, after, option, config, channels, cloudVars, diskVars, mem, runVars, obsVars, v1Vars, qvVars>>

\* Home Assistant ends and starts again: the record is whole, old or new.
Crash ==
  /\ Stimulus /\ entry # "removed"
  /\ entry' \in (IF entry = "removing" THEN {"setup", "removed"} ELSE {"setup"})
  /\ disk' \in {disk} \cup (IF save.by = "none" THEN {} ELSE {save.data})
  /\ save' = NoSave /\ mem' = Blank /\ closed' = TRUE /\ run' = "off" /\ cancelled' = FALSE
  /\ clean' = FALSE /\ tries' = 0 /\ subscribed' = FALSE /\ heard' = {} /\ earlier' = {}
  /\ lossy' = TRUE /\ saver' = "idle" /\ call' = {}
  /\ UNCHANGED <<vendor, after, option, config, channels, cloudVars, mine, rang, scope, allowed, goal>>

Life ==
  \/ Setup \/ Remove \/ Unload \/ CloudCloses \/ Removed \/ Crash
  \/ \E o \in BOOLEAN, c \in {{1}, {1, 2}}, a \in BOOLEAN : Reconfigure(o, c, a)
  \/ \E b \in BOOLEAN : Stopped(b)
  \/ \E p \in Calls : Press(p) /\ UNCHANGED <<v1Vars, qvVars>>

Next ==
  \/ Life
  \/ vendor = "v1" /\ V1Step /\ UNCHANGED qvVars
  \/ vendor = "qv" /\ QvStep /\ UNCHANGED v1Vars

Spec == Init /\ [][Next]_vars

-----------------------------------------------------------------------------
(* Properties                                                              *)

\* Whatever this installation has subscribed at the vendor is in the saved record,
\* with a token to disable it by, through lost replies, failed saves and crashes:
\* a phone subscription that nobody can remove is never left behind.
RemoteIsRemembered ==
  /\ remote \subseteq disk.intents
  /\ remote # {} => disk.token # 0

\* A call rings once, however often Google delivers it.  A QV call also survives a
\* crash and a failed save; a V1 call rings again only after one of those.
RungOnce == \A p \in Calls : rang[p] > 1 => vendor = "v1" /\ lossy

\* A call rings only while its doorbell is open, enabled and subscribed for its
\* channel, although the options change and the unload begins during the save.
RingWanted ==
  [][\A p \in Calls : rang'[p] # rang[p] =>
       ~HubStopped /\ ~closed /\ Eligible /\ subscribed /\ (vendor = "qv" => ChannelOf(p) \in channels)]_vars

\* The doorbell of CloudBell: what of this one is open, can be removed, is still
\* delivered, and may have been forgotten
Opened == ~HubStopped /\ ~closed /\ Eligible
Removable == IF disk.token = 0 THEN {} ELSE disk.intents
Due == {p \in Calls : queued[p] # 0}
Careless == vendor = "v1" /\ lossy

Bell == INSTANCE CloudBell WITH
  subscribed <- remote, remembered <- Removable, open <- Opened,
  due <- Due, rings <- rang, careless <- Careless

\* Whatever the tasks, the files and Google do, nothing is subscribed that the record could
\* not remove, at any moment, and a call rings once, while the doorbell is open, if this
\* installation was subscribed when the button was pressed.
ImplementsBell == Bell!Spec

\* The next load finds nothing of the one before: no task and no write of the record.
StoppedIsQuiet ==
  entry \in {"setup", "removed"} => run = "off" /\ save.by = "none" /\ saver = "idle"

=============================================================================
