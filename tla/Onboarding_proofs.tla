------------------------ MODULE Onboarding_proofs ------------------------
(***************************************************************************)
(* Proofs about the configuration flows, for any number of dialogs,        *)
(* entries, hosts, certificates and cloud devices: types, what an entry    *)
(* was agreed to, who may replace its data, and its cloud device.          *)
(***************************************************************************)
EXTENDS Onboarding, TLAPS

Open(f) == flow[f].pc # "off"

\* The certificate a dialog would pin was approved in it, is the pin already, or is a
\* first one that needs no approval; in discovery mode it is what its owner entered.
Agreed(x) ==
  \/ x.entry \in Discovery
  \/ x.seen \in x.confirmed \cup {x.previous.pin, None}
  \/ x.previous.pin = None /\ x.seen \in (Trusted \cup {x.form.pin}) \ Special

\* A dialog that creates an entry has it for itself.
Alone(f, e) == \A g \in Flows \ {f} : Open(g) => flow[g].entry # e
NoIntruder(f, e) == \A g \in Flows \ {f} : Open(g) /\ flow[g].base.host = None => flow[g].entry # e

\* What holds of a dialog by itself
Shape(x) ==
  /\ x \in Dialog
  /\ x.previous = x.base
  /\ x.entry \in Legacy => x.pc \in {"trials", "reauth", "validate", "plain", "validateplain"}
  /\ x.pc \in {"reauth", "validate", "plain", "validateplain"} => x.entry \in Legacy
  /\ x.pc = "reauth" => x.base.host # None
  /\ x.pc \in {"confirm", "reinspect"} => x.seen \in Certs
  /\ x.pc = "reinspect" => x.seen \in x.confirmed
  /\ x.pc \in {"access", "trials", "alarm", "account", "login", "device"} => Agreed(x)
  /\ x.pc \in {"alarm", "account", "login", "device"} /\ NeedsTrial(x) => "trial" \in x.granted

Sole(f, x) ==
  /\ x.base.host = None => x.base = Absent /\ entries[x.entry] = Absent /\ Alone(f, x.entry)
  /\ x.base.host # None => entries[x.entry].host # None

DialogOK(f, x) == Shape(x) /\ Sole(f, x)

\* What an entry that does not exist, and a legacy entry, never hold
EntriesOK ==
  \A e \in Entries :
    /\ entries[e].host = None => entries[e] = Absent
    /\ e \in Legacy => ~entries[e].alarm

Stored ==
  /\ entries \in [Entries -> Data]
  /\ flow \in [Flows -> Dialog \cup {Closed}]
  /\ trialOf \in [Entries -> Targets] /\ alarmOf \in [Entries -> Targets]

Core ==
  /\ Stored /\ EntriesOK /\ ConsentIsFresh /\ OneEntryPerCloudDevice
  /\ \A f \in Flows : Open(f) => DialogOK(f, flow[f])

IInv == stimuli \in 0..MaxStimuli /\ cert \in [Hosts -> Certs] /\ Core

-----------------------------------------------------------------------------
(* Types of what a dialog would commit                                     *)

LEMMA AbsentType == Absent \in Data
  BY DEF Absent, Data

LEMMA SecretType ==
  ASSUME NEW x \in Dialog PROVE Secret(x) \in 0..2
  BY DEF Secret, Dialog, Form, Data

LEMMA MergedType ==
  ASSUME NEW x \in Dialog
  PROVE  /\ Merged(x) \in Data /\ Merged(x).host = x.form.host /\ Merged(x).pin = x.seen
         /\ Merged(x).uid = x.previous.uid /\ Merged(x).alarm = x.previous.alarm
         /\ Merged(x).tcp = x.form.tcp /\ Merged(x).secret = Secret(x)
         /\ Merged(x).trial <=> Wanted(x) /\ Secret(x) # 0
         /\ Merged(x).cloud => x.previous.cloud
<1> DEFINE s == Secret(x)
           trial == Wanted(x) /\ s # 0
           cloud == IF x.form.action = "disable" THEN FALSE ELSE x.previous.cloud
<1>1. x.previous \in Data /\ x.form \in Form /\ x.seen \in Certs \cup {None}
  BY DEF Dialog
<1>2. trial \in BOOLEAN /\ cloud \in BOOLEAN /\ s \in 0..2
  BY <1>1, SecretType DEF Form, Data, Wanted
<1>3. x.form.host \in Hosts /\ x.form.tcp \in BOOLEAN /\ (cloud => x.previous.cloud)
  BY <1>1 DEF Form
<1>4. Merged(x) = [x.previous EXCEPT !.host = x.form.host, !.pin = x.seen,
                     !.tcp = x.form.tcp, !.secret = s, !.trial = trial, !.cloud = cloud]
  BY DEF Merged
<1> HIDE DEF trial, cloud, s
<1>5. Merged(x) \in Data
  BY <1>1, <1>2, <1>3, <1>4 DEF Data
<1>6. /\ Merged(x).host = x.form.host /\ Merged(x).pin = x.seen
      /\ Merged(x).uid = x.previous.uid /\ Merged(x).alarm = x.previous.alarm
      /\ Merged(x).tcp = x.form.tcp /\ Merged(x).secret = s
      /\ Merged(x).trial = trial /\ Merged(x).cloud = cloud
  BY <1>1, <1>2, <1>3, <1>4, <1>5 DEF Data
<1> QED
  BY <1>3, <1>5, <1>6 DEF trial, s

LEMMA ResultType ==
  ASSUME NEW x \in Dialog
  PROVE  /\ Result(x) \in Data /\ Result(x).host = x.form.host /\ Result(x).pin = x.seen
         /\ Result(x).uid = x.previous.uid /\ Result(x).trial = Merged(x).trial
         /\ Result(x).tcp = Merged(x).tcp /\ Target(Result(x)) = Target(Merged(x))
         /\ Result(x).cloud => x.previous.cloud
         /\ Result(x).alarm =>
              AlarmEligible(x) /\ ("alarm" \in x.granted \/ (Inherited(x) /\ x.form.alarm))
<1>1. Merged(x) \in Data
  BY MergedType
<1>2. (AlarmEligible(x) /\ ("alarm" \in x.granted \/ (Inherited(x) /\ x.form.alarm))) \in BOOLEAN
  BY DEF AlarmEligible
<1>3. Result(x) \in Data
  BY <1>1, <1>2 DEF Result, Data
<1>4. /\ Result(x).host = Merged(x).host /\ Result(x).pin = Merged(x).pin
      /\ Result(x).uid = Merged(x).uid /\ Result(x).trial = Merged(x).trial
      /\ Result(x).tcp = Merged(x).tcp /\ Result(x).cloud = Merged(x).cloud
      /\ Result(x).secret = Merged(x).secret
  BY <1>1, <1>2 DEF Result, Data
<1>5. Result(x).alarm =>
        AlarmEligible(x) /\ ("alarm" \in x.granted \/ (Inherited(x) /\ x.form.alarm))
  BY <1>1, <1>2 DEF Result, Data
<1> QED
  BY <1>3, <1>4, <1>5, MergedType DEF Target

LEMMA TargetType ==
  ASSUME NEW e \in Entries, NEW d \in Data PROVE TargetOf(e, d) \in Targets
  BY DEF TargetOf, Target, Targets, Data

-----------------------------------------------------------------------------
(* The three ways a step of a dialog ends                                  *)

LEMMA AbortsKeeps ==
  ASSUME Core, NEW f \in Flows, Aborts(f) PROVE Core'
<1>1. Stored'
  BY DEF Core, Stored, Aborts, Closed
<1>2. EntriesOK' /\ ConsentIsFresh' /\ OneEntryPerCloudDevice'
  BY DEF Core, EntriesOK, ConsentIsFresh, OneEntryPerCloudDevice, Aborts
<1>3. ASSUME NEW g \in Flows, Open(g)' PROVE DialogOK(g, flow[g])'
  <2>1. g # f /\ flow'[g] = flow[g] /\ Open(g)
    BY <1>3 DEF Core, Stored, Aborts, Closed, Open
  <2>2. \A h \in Flows : Open(h)' => Open(h) /\ flow'[h] = flow[h]
    BY DEF Core, Stored, Aborts, Closed, Open
  <2> QED
    BY <2>1, <2>2 DEF Core, DialogOK, Sole, Alone, Aborts
<1> QED
  BY <1>1, <1>2, <1>3 DEF Core

LEMMA ShowKeeps ==
  ASSUME Core, NEW f \in Flows, NEW x, NEW pc, Show(f, x, pc),
         DialogOK(f, [x EXCEPT !.pc = pc]), NoIntruder(f, x.entry), x \in Dialog
  PROVE  Core'
<1> DEFINE y == [x EXCEPT !.pc = pc]
<1>0. y \in Dialog /\ y.entry = x.entry
  <2>1. y \in Dialog
    BY DEF DialogOK, Shape
  <2> QED
    BY <2>1 DEF Dialog
<1>1. Stored'
  BY <1>0 DEF Core, Stored, Show
<1>2. EntriesOK' /\ ConsentIsFresh' /\ OneEntryPerCloudDevice'
  BY DEF Core, EntriesOK, ConsentIsFresh, OneEntryPerCloudDevice, Show
<1>3. ASSUME NEW g \in Flows, Open(g)' PROVE DialogOK(g, flow[g])'
  <2>0. flow'[f] = y /\ \A h \in Flows \ {f} : flow'[h] = flow[h]
    BY DEF Core, Stored, Show
  <2>1. CASE g = f
    <3>1. Shape(flow'[g])
      BY <2>0, <2>1 DEF DialogOK
    <3>2. Sole(f, y)
      BY DEF DialogOK
    <3> HIDE DEF y
    <3>3. Sole(g, flow[g])'
      BY <2>0, <2>1, <3>2 DEF Sole, Alone, Open, Show
    <3> QED
      BY <3>1, <3>3 DEF DialogOK
  <2>2. CASE g # f
    <3>1. DialogOK(g, flow[g]) /\ flow'[g] = flow[g] /\ Open(g)
      BY <1>3, <2>2, <2>0 DEF Core, Open
    <3>2. Alone(g, flow[g].entry) /\ flow[g].base.host = None => Alone(g, flow[g].entry)'
      BY <1>0, <2>2, <2>0, <3>1 DEF Alone, NoIntruder, Open
    <3> HIDE DEF y
    <3>3. Sole(g, flow[g])'
      BY <3>1, <3>2 DEF DialogOK, Sole, Show
    <3> QED
      BY <3>1, <3>3 DEF DialogOK
  <2> QED
    BY <2>1, <2>2
<1> QED
  BY <1>1, <1>2, <1>3 DEF Core

\* An entry gets new data as its dialog closes.
LEMMA EntryKeeps ==
  ASSUME Core, NEW f \in Flows, NEW e \in Entries, NEW d \in Data, d.host # None,
         entries' = [entries EXCEPT ![e] = d], flow' = [flow EXCEPT ![f] = Closed],
         NoIntruder(f, e),
         trialOf' \in [Entries -> Targets], alarmOf' \in [Entries -> Targets],
         \A o \in Entries \ {e} : trialOf'[o] = trialOf[o] /\ alarmOf'[o] = alarmOf[o],
         d.trial => trialOf'[e] = TargetOf(e, d),
         d.alarm => alarmOf'[e] = TargetOf(e, d) /\ d.tcp /\ e \notin Legacy,
         d.cloud => \A o \in Entries \ {e} : entries[o].cloud => entries[o].uid # d.uid
  PROVE  Core'
<1>1. Stored' /\ entries'[e] = d /\ \A o \in Entries \ {e} : entries'[o] = entries[o]
  BY DEF Core, Stored, Closed
<1>2. EntriesOK'
  BY <1>1 DEF Core, EntriesOK
<1>3. ConsentIsFresh'
  <2>1. ASSUME NEW o \in Entries, o # e
        PROVE  /\ entries'[o].trial => trialOf'[o] = TargetOf(o, entries'[o])
               /\ entries'[o].alarm => alarmOf'[o] = TargetOf(o, entries'[o]) /\ entries'[o].tcp
    BY <1>1, <2>1 DEF Core, ConsentIsFresh
  <2> QED
    BY <1>1, <2>1 DEF ConsentIsFresh
<1>4. OneEntryPerCloudDevice'
  BY <1>1 DEF Core, OneEntryPerCloudDevice
<1>5. ASSUME NEW g \in Flows, Open(g)' PROVE DialogOK(g, flow[g])'
  <2>1. g # f /\ flow'[g] = flow[g] /\ Open(g)
    BY <1>5 DEF Core, Stored, Closed, Open
  <2>2. \A h \in Flows : Open(h)' => Open(h) /\ flow'[h] = flow[h]
    BY DEF Core, Stored, Closed, Open
  <2>3. DialogOK(g, flow[g]) /\ flow[g].entry \in Entries
    BY <2>1 DEF Core, DialogOK, Shape, Dialog
  <2>4. Sole(g, flow[g])'
    BY <1>1, <2>1, <2>2, <2>3 DEF DialogOK, Sole, Alone, NoIntruder
  <2> QED
    BY <2>1, <2>3, <2>4 DEF DialogOK
<1> QED
  BY <1>1, <1>2, <1>3, <1>4, <1>5 DEF Core

LEMMA CommitKeeps ==
  ASSUME Core, NEW f \in Flows, NEW x, x.entry \in Entries, NEW d \in Data, d.host # None,
         Commit(f, x, d), NoIntruder(f, x.entry),
         d.trial => "trial" \in x.granted \/ trialOf[x.entry] = TargetOf(x.entry, d),
         d.alarm => /\ d.tcp /\ x.entry \notin Legacy
                    /\ "alarm" \in x.granted \/ alarmOf[x.entry] = TargetOf(x.entry, d),
         d.cloud => \A o \in Entries \ {x.entry} : entries[o].cloud => entries[o].uid # d.uid
  PROVE  Core'
<1> DEFINE t == TargetOf(x.entry, d)
<1>1. t \in Targets
  BY TargetType
<1> HIDE DEF t
<1>2. /\ trialOf' \in [Entries -> Targets]
      /\ \A o \in Entries \ {x.entry} : trialOf'[o] = trialOf[o]
      /\ d.trial => trialOf'[x.entry] = t
  <2>1. trialOf' = IF "trial" \in x.granted THEN [trialOf EXCEPT ![x.entry] = t] ELSE trialOf
    BY DEF Commit, t
  <2>2. d.trial => "trial" \in x.granted \/ trialOf[x.entry] = t
    BY DEF t
  <2> QED
    BY <1>1, <2>1, <2>2 DEF Core, Stored
<1>3. /\ alarmOf' \in [Entries -> Targets]
      /\ \A o \in Entries \ {x.entry} : alarmOf'[o] = alarmOf[o]
      /\ d.alarm => alarmOf'[x.entry] = t
  <2>1. alarmOf' = IF "alarm" \in x.granted THEN [alarmOf EXCEPT ![x.entry] = t] ELSE alarmOf
    BY DEF Commit, t
  <2>2. d.alarm => "alarm" \in x.granted \/ alarmOf[x.entry] = t
    BY DEF t
  <2> QED
    BY <1>1, <2>1, <2>2 DEF Core, Stored
<1>4. d.trial => trialOf'[x.entry] = TargetOf(x.entry, d)
  BY <1>2 DEF t
<1>5. d.alarm => alarmOf'[x.entry] = TargetOf(x.entry, d) /\ d.tcp /\ x.entry \notin Legacy
  BY <1>3 DEF t
<1>6. entries' = [entries EXCEPT ![x.entry] = d] /\ flow' = [flow EXCEPT ![f] = Closed]
  BY DEF Commit
<1> QED
  BY <1>2, <1>3, <1>4, <1>5, <1>6, EntryKeeps

-----------------------------------------------------------------------------
(* The consents of what a dialog commits                                   *)

LEMMA UnchangedTarget ==
  ASSUME NEW e \in Entries, NEW c \in Data, NEW d \in Data, Target(c) = Target(d)
  PROVE  TargetOf(e, c) = TargetOf(e, d)
  BY DEF Target, TargetOf

LEMMA FreshTrial ==
  ASSUME Core, NEW x \in Dialog, entries[x.entry] = x.previous, Merged(x).trial, ~NeedsTrial(x)
  PROVE  trialOf[x.entry] = TargetOf(x.entry, Merged(x))
<1>1. x.previous \in Data /\ x.entry \in Entries /\ Merged(x) \in Data
  BY MergedType DEF Dialog
<1>2. x.previous.trial /\ Target(Merged(x)) = Target(x.previous)
  BY DEF NeedsTrial, ChangedTarget
<1>3. trialOf[x.entry] = TargetOf(x.entry, x.previous)
  BY <1>1, <1>2 DEF Core, ConsentIsFresh
<1> QED
  BY <1>1, <1>2, <1>3, UnchangedTarget

LEMMA FreshAlarm ==
  ASSUME Core, NEW x \in Dialog, entries[x.entry] = x.previous, Result(x).alarm
  PROVE  /\ Result(x).tcp
         /\ "alarm" \in x.granted \/ alarmOf[x.entry] = TargetOf(x.entry, Result(x))
<1>1. x.previous \in Data /\ x.entry \in Entries /\ Result(x) \in Data
  BY ResultType DEF Dialog
<1>2. Result(x).tcp
  BY ResultType DEF AlarmEligible
<1>3. CASE "alarm" \notin x.granted
  <2>1. x.previous.alarm /\ Target(Result(x)) = Target(x.previous)
    BY <1>3, ResultType DEF Inherited, ChangedTarget
  <2>2. alarmOf[x.entry] = TargetOf(x.entry, x.previous)
    BY <1>1, <2>1 DEF Core, ConsentIsFresh
  <2> QED
    BY <1>1, <1>2, <2>1, <2>2, UnchangedTarget
<1> QED
  BY <1>2, <1>3

-----------------------------------------------------------------------------
(* What a dialog goes on with                                              *)

\* The data of one entry at most changes, from what its dialog started with, and its pin
\* becomes the certificate of the dialog.
Effect(f, x) ==
  /\ \A g \in Flows \ {f} : flow'[g] = flow[g]
  /\ \A o \in Entries : entries'[o] # entries[o] =>
       o = x.entry /\ entries[o] = x.base /\ entries'[o].pin = x.seen

\* Where a dialog is does not change what it would commit.
LEMMA PcFree ==
  ASSUME NEW x \in Dialog, NEW pc \in Stages \ {"off"}, NEW y, y = [x EXCEPT !.pc = pc]
  PROVE  /\ y \in Dialog /\ y.pc = pc /\ y.entry = x.entry /\ y.base = x.base
         /\ y.previous = x.previous /\ y.granted = x.granted
         /\ y.seen = x.seen /\ y.confirmed = x.confirmed /\ y.form = x.form
         /\ (NeedsTrial(y) <=> NeedsTrial(x)) /\ (Agreed(y) <=> Agreed(x))
<1>1. y \in Dialog
  BY DEF Dialog
<1>2. /\ y.pc = pc /\ y.entry = x.entry /\ y.base = x.base
      /\ y.previous = x.previous /\ y.granted = x.granted
      /\ y.seen = x.seen /\ y.confirmed = x.confirmed /\ y.form = x.form
  BY <1>1 DEF Dialog
<1>3. Secret(y) = Secret(x)
  BY <1>2 DEF Secret
<1>4. Target(Merged(y)) = Target(Merged(x)) /\ (Merged(y).trial <=> Merged(x).trial)
  <2>1. /\ Merged(x).host = x.form.host /\ Merged(x).pin = x.seen
        /\ Merged(x).tcp = x.form.tcp /\ Merged(x).secret = Secret(x)
        /\ Merged(x).trial <=> Wanted(x) /\ Secret(x) # 0
    BY MergedType
  <2>2. /\ Merged(y).host = y.form.host /\ Merged(y).pin = y.seen
        /\ Merged(y).tcp = y.form.tcp /\ Merged(y).secret = Secret(y)
        /\ Merged(y).trial <=> Wanted(y) /\ Secret(y) # 0
    BY <1>1, MergedType
  <2>3. Target(Merged(y)) = Target(Merged(x))
    BY <1>2, <1>3, <2>1, <2>2 DEF Target
  <2>4. Merged(y).trial <=> Merged(x).trial
    BY <1>2, <1>3, <2>1, <2>2 DEF Wanted
  <2> QED
    BY <2>3, <2>4
<1>5. NeedsTrial(y) <=> NeedsTrial(x)
  BY <1>2, <1>4 DEF NeedsTrial, ChangedTarget
<1>6. Agreed(y) <=> Agreed(x)
  BY <1>2 DEF Agreed
<1> QED
  BY <1>1, <1>2, <1>5, <1>6

LEMMA ShowEffect ==
  ASSUME Core, NEW f \in Flows, NEW x, NEW pc, Show(f, x, pc) PROVE Effect(f, x)
  BY DEF Core, Stored, Show, Effect

LEMMA AbortsEffect ==
  ASSUME Core, NEW f \in Flows, NEW x, Aborts(f) PROVE Effect(f, x)
  BY DEF Core, Stored, Aborts, Effect

LEMMA CommitEffect ==
  ASSUME Core, NEW f \in Flows, NEW x, NEW d, x.entry \in Entries, Commit(f, x, d),
         entries[x.entry] = x.base, d.pin = x.seen
  PROVE  Effect(f, x)
  BY DEF Core, Stored, Commit, Effect

\* A dialog shown at a stage that only asks whether certificate and relays were agreed to
LEMMA AskShape ==
  ASSUME NEW x \in Dialog, x.entry \notin Legacy, x.previous = x.base, Agreed(x),
         NeedsTrial(x) => "trial" \in x.granted, NEW pc \in {"alarm", "account", "login", "device"}
  PROVE  Shape([x EXCEPT !.pc = pc])
<1> DEFINE y == [x EXCEPT !.pc = pc]
<1>1. /\ y \in Dialog /\ y.pc = pc /\ y.entry = x.entry /\ y.base = x.base
      /\ y.previous = x.previous /\ y.granted = x.granted
      /\ (NeedsTrial(y) <=> NeedsTrial(x)) /\ (Agreed(y) <=> Agreed(x))
  BY PcFree DEF Stages
<1> HIDE DEF y
<1>2. Shape(y)
  BY <1>1 DEF Shape
<1> QED
  BY <1>2 DEF y

LEMMA SoleShown ==
  ASSUME NEW f \in Flows, NEW x \in Dialog, Sole(f, x), NEW pc \in Stages \ {"off"}
  PROVE  Sole(f, [x EXCEPT !.pc = pc])
<1> DEFINE y == [x EXCEPT !.pc = pc]
<1>1. y.entry = x.entry /\ y.base = x.base
  BY PcFree
<1> HIDE DEF y
<1>2. Sole(f, y)
  BY <1>1 DEF Sole
<1> QED
  BY <1>2 DEF y

LEMMA AskKeeps ==
  ASSUME Core, NEW f \in Flows, NEW x \in Dialog, x.entry \notin Legacy,
         x.previous = x.base, Agreed(x), NeedsTrial(x) => "trial" \in x.granted, Sole(f, x),
         NoIntruder(f, x.entry),
         NEW pc \in {"alarm", "account", "login", "device"}, Show(f, x, pc)
  PROVE  Core' /\ Effect(f, x)
<1>1. Shape([x EXCEPT !.pc = pc])
  BY AskShape
<1>2. Sole(f, [x EXCEPT !.pc = pc])
  BY SoleShown DEF Stages
<1>3. DialogOK(f, [x EXCEPT !.pc = pc])
  BY <1>1, <1>2 DEF DialogOK
<1>4. Core'
  BY <1>3, ShowKeeps
<1> QED
  BY <1>4, ShowEffect

\* What a dialog knows when it may commit
Ready(f, x) ==
  /\ x \in Dialog /\ x.previous = x.base /\ entries[x.entry] = x.previous
  /\ Agreed(x) /\ Sole(f, x) /\ NoIntruder(f, x.entry)

LEMMA NoneHost == None \notin Hosts
  BY OnboardingAssumption

LEMMA ResultCommitKeeps ==
  ASSUME Core, NEW f \in Flows, NEW x, Ready(f, x), x.entry \notin Legacy,
         NeedsTrial(x) => "trial" \in x.granted,
         NEW d \in Data, d.host = x.form.host, d.pin = x.seen, Target(d) = Target(Result(x)),
         d.trial = Result(x).trial, d.alarm = Result(x).alarm, d.tcp = Result(x).tcp,
         d.cloud => \A o \in Entries \ {x.entry} : entries[o].cloud => entries[o].uid # d.uid,
         Commit(f, x, d)
  PROVE  Core' /\ Effect(f, x)
<1>1. /\ x \in Dialog /\ x.entry \in Entries /\ x.form.host \in Hosts /\ entries[x.entry] = x.previous
      /\ NoIntruder(f, x.entry)
  BY DEF Ready, Dialog, Form
<1>2. Result(x) \in Data /\ Merged(x) \in Data /\ Target(Result(x)) = Target(Merged(x))
  BY <1>1, ResultType, MergedType
<1>3. d.trial => "trial" \in x.granted \/ trialOf[x.entry] = TargetOf(x.entry, d)
  <2>1. ASSUME d.trial, "trial" \notin x.granted PROVE trialOf[x.entry] = TargetOf(x.entry, d)
    <3>1. Merged(x).trial /\ ~NeedsTrial(x)
      BY <1>1, <2>1, ResultType
    <3>2. trialOf[x.entry] = TargetOf(x.entry, Merged(x))
      BY <1>1, <3>1, FreshTrial
    <3> QED
      BY <1>1, <1>2, <3>2, UnchangedTarget
  <2> QED
    BY <2>1
<1>4. d.alarm => /\ d.tcp /\ x.entry \notin Legacy
                 /\ "alarm" \in x.granted \/ alarmOf[x.entry] = TargetOf(x.entry, d)
  <2>1. ASSUME d.alarm
        PROVE  d.tcp /\ ("alarm" \in x.granted \/ alarmOf[x.entry] = TargetOf(x.entry, d))
    <3>1. /\ Result(x).tcp
          /\ "alarm" \in x.granted \/ alarmOf[x.entry] = TargetOf(x.entry, Result(x))
      BY <1>1, <2>1, FreshAlarm
    <3>2. TargetOf(x.entry, d) = TargetOf(x.entry, Result(x))
      BY <1>1, <1>2, UnchangedTarget
    <3> QED
      BY <3>1, <3>2
  <2> QED
    BY <2>1
<1>5. d.host # None
  BY <1>1, NoneHost
<1>6. Core'
  BY <1>1, <1>3, <1>4, <1>5, CommitKeeps
<1>7. entries[x.entry] = x.base
  BY DEF Ready
<1> QED
  BY <1>1, <1>6, <1>7, CommitEffect

LEMMA OwnDevice ==
  ASSUME Core, NEW x \in Dialog, entries[x.entry] = x.previous, NEW d,
         d.cloud => x.previous.cloud, d.uid = x.previous.uid
  PROVE  d.cloud => \A o \in Entries \ {x.entry} : entries[o].cloud => entries[o].uid # d.uid
<1>1. x.entry \in Entries
  BY DEF Dialog
<1> QED
  BY <1>1 DEF Core, OneEntryPerCloudDevice

LEMMA SavesKeeps ==
  ASSUME Core, NEW f \in Flows, NEW x, Ready(f, x), x.entry \notin Legacy,
         NeedsTrial(x) => "trial" \in x.granted, Saves(f, x)
  PROVE  Core' /\ Effect(f, x)
<1>0. /\ x \in Dialog /\ x.previous = x.base /\ entries[x.entry] = x.previous
      /\ Agreed(x) /\ Sole(f, x) /\ NoIntruder(f, x.entry)
  BY DEF Ready
<1>1. CASE Show(f, x, "account")
  BY <1>0, <1>1, AskKeeps
<1>2. CASE Commit(f, x, Result(x))
  <2>1. /\ Result(x) \in Data /\ Result(x).host = x.form.host /\ Result(x).pin = x.seen
        /\ Result(x).uid = x.previous.uid /\ (Result(x).cloud => x.previous.cloud)
    BY <1>0, ResultType
  <2>2. Result(x).cloud =>
          \A o \in Entries \ {x.entry} : entries[o].cloud => entries[o].uid # Result(x).uid
    BY <1>0, <2>1, OwnDevice
  <2> QED
    BY <1>2, <2>1, <2>2, ResultCommitKeeps
<1> QED
  BY <1>1, <1>2 DEF Saves

LEMMA PersistKeeps ==
  ASSUME Core, NEW f \in Flows, NEW x, Ready(f, x), x.entry \notin Legacy,
         NeedsTrial(x) => "trial" \in x.granted, Persist(f, x)
  PROVE  Core' /\ Effect(f, x)
<1>1. CASE Show(f, x, "alarm")
  BY <1>1, AskKeeps DEF Ready
<1>2. CASE Aborts(f)
  BY <1>2, AbortsKeeps, AbortsEffect
<1>3. CASE Saves(f, x)
  BY <1>3, SavesKeeps
<1> QED
  BY <1>1, <1>2, <1>3 DEF Persist

LEMMA LegacyCommitKeeps ==
  ASSUME Core, NEW f \in Flows, NEW x, Ready(f, x), x.entry \in Legacy,
         NeedsTrial(x) => "trial" \in x.granted, Commit(f, x, Merged(x))
  PROVE  Core' /\ Effect(f, x)
<1>1. /\ x \in Dialog /\ x.entry \in Entries /\ x.form.host \in Hosts
      /\ entries[x.entry] = x.previous /\ x.previous = x.base /\ NoIntruder(f, x.entry)
  BY DEF Ready, Dialog, Form
<1>2. /\ Merged(x) \in Data /\ Merged(x).host = x.form.host /\ Merged(x).pin = x.seen
      /\ Merged(x).uid = x.previous.uid /\ Merged(x).alarm = x.previous.alarm
      /\ (Merged(x).cloud => x.previous.cloud)
  BY <1>1, MergedType
<1>3. ~Merged(x).alarm
  BY <1>1, <1>2 DEF Core, EntriesOK
<1>4. Merged(x).trial => "trial" \in x.granted \/ trialOf[x.entry] = TargetOf(x.entry, Merged(x))
  BY <1>1, FreshTrial
<1>5. Merged(x).cloud =>
        \A o \in Entries \ {x.entry} : entries[o].cloud => entries[o].uid # Merged(x).uid
  BY <1>1, <1>2, OwnDevice
<1>6. Merged(x).host # None
  BY <1>1, <1>2, NoneHost
<1>7. Core'
  BY <1>1, <1>2, <1>3, <1>4, <1>5, <1>6, CommitKeeps
<1> QED
  BY <1>1, <1>2, <1>7, CommitEffect

LEMMA StoresKeeps ==
  ASSUME Core, NEW f \in Flows, NEW x, Ready(f, x),
         NeedsTrial(x) => "trial" \in x.granted, Stores(f, x)
  PROVE  Core' /\ Effect(f, x)
<1>1. CASE x.entry \in Legacy /\ Commit(f, x, Merged(x))
  BY <1>1, LegacyCommitKeeps
<1>2. CASE x.entry \notin Legacy /\ Saves(f, x)
  BY <1>2, SavesKeeps
<1>3. CASE x.entry \notin Legacy /\ Persist(f, x)
  BY <1>3, PersistKeeps
<1>4. \/ x.entry \in Legacy /\ Commit(f, x, Merged(x))
      \/ x.entry \notin Legacy /\ (Saves(f, x) \/ Persist(f, x))
  <2>1. CASE x.entry \in Legacy
    BY <2>1, OnboardingAssumption DEF Stores
  <2>2. CASE x.entry \notin Legacy
    BY <2>2 DEF Stores
  <2> QED
    BY <2>1, <2>2
<1> QED
  BY <1>1, <1>2, <1>3, <1>4

LEMMA FinishKeeps ==
  ASSUME Core, NEW f \in Flows, NEW x, Ready(f, x), Finish(f, x)
  PROVE  Core' /\ Effect(f, x)
<1>0. /\ x \in Dialog /\ x.previous = x.base /\ entries[x.entry] = x.previous
      /\ Agreed(x) /\ Sole(f, x) /\ NoIntruder(f, x.entry)
  BY DEF Ready
<1>1. [x EXCEPT !.previous = entries[x.entry]] = x
  BY <1>0 DEF Dialog
<1>2. IF NeedsTrial(x) THEN Show(f, x, "trials") ELSE Stores(f, x)
  BY <1>1 DEF Finish
<1>3. CASE NeedsTrial(x)
  <2> DEFINE y == [x EXCEPT !.pc = "trials"]
  <2>1. /\ y \in Dialog /\ y.pc = "trials" /\ y.entry = x.entry /\ y.base = x.base
        /\ y.previous = x.previous /\ (Agreed(y) <=> Agreed(x))
    BY <1>0, PcFree DEF Stages
  <2>2. Sole(f, y)
    BY <1>0, SoleShown DEF Stages
  <2> HIDE DEF y
  <2>3. DialogOK(f, y)
    BY <1>0, <2>1, <2>2 DEF DialogOK, Shape
  <2>4. Core'
    BY <1>0, <1>2, <1>3, <2>3, ShowKeeps DEF y
  <2> QED
    BY <1>2, <1>3, <2>4, ShowEffect
<1>4. CASE ~NeedsTrial(x)
  BY <1>2, <1>4, StoresKeeps
<1> QED
  BY <1>3, <1>4

LEMMA AcceptKeeps ==
  ASSUME Core, NEW f \in Flows, NEW x \in Dialog, x.entry \notin Legacy, x.previous = x.base,
         Agreed(x), Sole(f, x), NoIntruder(f, x.entry), Accept(f, x)
  PROVE  Core' /\ Effect(f, x)
<1>1. CASE Aborts(f)
  BY <1>1, AbortsKeeps, AbortsEffect
<1>2. CASE Unclobbered(x) /\ Finish(f, x)
  <2>1. entries[x.entry] = x.previous
    BY <1>2 DEF Unclobbered, Valid, Sole
  <2>2. Ready(f, x)
    BY <2>1 DEF Ready
  <2> QED
    BY <1>2, <2>2, FinishKeeps
<1>3. CASE Show(f, x, "access")
  <2> DEFINE y == [x EXCEPT !.pc = "access"]
  <2>1. /\ y \in Dialog /\ y.pc = "access" /\ y.entry = x.entry /\ y.base = x.base
        /\ y.previous = x.previous /\ (Agreed(y) <=> Agreed(x))
    BY PcFree DEF Stages
  <2>2. Sole(f, y)
    BY SoleShown DEF Stages
  <2> HIDE DEF y
  <2>3. DialogOK(f, y)
    BY <2>1, <2>2 DEF DialogOK, Shape
  <2>4. Core'
    BY <1>3, <2>3, ShowKeeps DEF y
  <2> QED
    BY <1>3, <2>4, ShowEffect
<1> QED
  BY <1>1, <1>2, <1>3 DEF Accept

-----------------------------------------------------------------------------
(* The steps                                                               *)

\* What a step may do to an entry: see NothingClobbered and ApprovedIsPinned.
NoClobber ==
  \A f \in Flows :
    flow[f].pc \notin {"off", "reauth", "validate", "validateplain"} /\ flow'[f].pc = "off" =>
      LET e == flow[f].entry IN entries'[e] # entries[e] => entries[e] = flow[f].base

PinsApproved ==
  \A e \in Entries \ Discovery : entries'[e].pin \notin {entries[e].pin, None} =>
    \E f \in Flows :
      /\ flow[f].pc # "off" /\ flow[f].entry = e
      /\ \/ entries'[e].pin \in flow[f].confirmed
         \/ entries[e].pin = None /\ entries'[e].pin \in (Trusted \cup {flow[f].form.pin}) \ Special

LEMMA OpenFacts ==
  ASSUME Core, NEW f \in Flows, Open(f)
  PROVE  /\ Shape(flow[f]) /\ Sole(f, flow[f]) /\ NoIntruder(f, flow[f].entry)
         /\ flow[f] \in Dialog /\ flow[f].entry \in Entries
<1>1. DialogOK(f, flow[f]) /\ flow[f] \in Dialog
  BY DEF Core, DialogOK, Shape
<1>2. NoIntruder(f, flow[f].entry)
  BY DEF Core, DialogOK, Sole, Alone, NoIntruder
<1> QED
  BY <1>1, <1>2 DEF DialogOK, Dialog

\* A step of an open dialog, that goes on as x
LEMMA OpenSafe ==
  ASSUME Core, NEW f \in Flows, Open(f), NEW x, Effect(f, x), x.entry = flow[f].entry,
         x.base = flow[f].base,
         \A e \in Entries : entries'[e] # entries[e] =>
           \/ x.entry \in Discovery
           \/ x.seen \in flow[f].confirmed \cup {x.base.pin, None}
           \/ x.base.pin = None /\ x.seen \in (Trusted \cup {flow[f].form.pin}) \ Special
  PROVE  NoClobber /\ PinsApproved
<1>0. flow[f].entry \in Entries
  BY OpenFacts
<1>1. NoClobber
  BY <1>0 DEF NoClobber, Effect
<1>2. PinsApproved
  BY DEF PinsApproved, Effect, Open
<1> QED
  BY <1>1, <1>2

\* The first step of a dialog
LEMMA FirstSafe ==
  ASSUME NEW f \in Flows, ~Open(f), NEW x, Effect(f, x),
         x.entry \in Discovery \/ x.seen \in {x.base.pin, None}
  PROVE  NoClobber /\ PinsApproved
  BY DEF NoClobber, PinsApproved, Effect, Open

LEMMA AgreedSafe ==
  ASSUME Core, NEW f \in Flows, Open(f), NEW x, Effect(f, x), x.entry = flow[f].entry,
         x.base = flow[f].base, x.previous = x.base, Agreed(x), x.confirmed = flow[f].confirmed,
         x.form.pin = flow[f].form.pin
  PROVE  NoClobber /\ PinsApproved
  BY OpenSafe DEF Agreed

\* A dialog that goes on with what it has
LEMMA SameSafe ==
  ASSUME Core, NEW f \in Flows, Open(f), NEW x, Effect(f, x), x.entry = flow[f].entry,
         x.base = flow[f].base, entries' = entries
  PROVE  NoClobber /\ PinsApproved
  BY OpenSafe

LEMMA AbortsSafe ==
  ASSUME Core, NEW f \in Flows, Open(f), Aborts(f)
  PROVE  Core' /\ NoClobber /\ PinsApproved
<1>1. Core' /\ Effect(f, flow[f])
  BY AbortsKeeps, AbortsEffect
<1> QED
  BY <1>1, SameSafe DEF Aborts

\* An open dialog is shown again, or waits, at a stage where nothing new is known of it
LEMMA StageSafe ==
  ASSUME Core, NEW f \in Flows, Open(f), NEW x \in Dialog, x.entry = flow[f].entry,
         x.base = flow[f].base, x.previous = flow[f].previous,
         NEW pc \in Stages \ {"off"}, Shape([x EXCEPT !.pc = pc]), Show(f, x, pc)
  PROVE  Core' /\ NoClobber /\ PinsApproved
<1>1. Sole(f, flow[f]) /\ NoIntruder(f, flow[f].entry)
  BY OpenFacts
<1>2. Sole(f, x)
  BY <1>1 DEF Sole
<1>3. Sole(f, [x EXCEPT !.pc = pc])
  BY <1>2, SoleShown
<1>4. DialogOK(f, [x EXCEPT !.pc = pc])
  BY <1>3 DEF DialogOK
<1>5. NoIntruder(f, x.entry)
  BY <1>1
<1>6. Core'
  BY <1>4, <1>5, ShowKeeps
<1>7. Effect(f, x) /\ entries' = entries
  BY ShowEffect DEF Show
<1> QED
  BY <1>6, <1>7, SameSafe

\* A stage that needs nothing but its dialog
LEMMA PlainShape ==
  ASSUME NEW x \in Dialog, x.previous = x.base, NEW pc \in {"inspect", "confirm"},
         x.entry \notin Legacy, pc = "confirm" => x.seen \in Certs
  PROVE  Shape([x EXCEPT !.pc = pc])
<1> DEFINE y == [x EXCEPT !.pc = pc]
<1>1. /\ y \in Dialog /\ y.pc = pc /\ y.entry = x.entry /\ y.base = x.base
      /\ y.previous = x.previous /\ y.seen = x.seen
  BY PcFree DEF Stages
<1> HIDE DEF y
<1>2. Shape(y)
  BY <1>1 DEF Shape
<1> QED
  BY <1>2 DEF y

LEMMA LegacyShape ==
  ASSUME NEW x \in Dialog, x.previous = x.base, x.entry \in Legacy,
         NEW pc \in {"reauth", "validate", "plain", "validateplain"},
         pc = "reauth" => x.base.host # None
  PROVE  Shape([x EXCEPT !.pc = pc])
<1> DEFINE y == [x EXCEPT !.pc = pc]
<1>1. /\ y \in Dialog /\ y.pc = pc /\ y.entry = x.entry /\ y.base = x.base
      /\ y.previous = x.previous
  BY PcFree DEF Stages
<1> HIDE DEF y
<1>2. Shape(y)
  BY <1>1 DEF Shape
<1> QED
  BY <1>2 DEF y

\* The certificate that was just inspected
LEMMA SeenType ==
  ASSUME NEW x \in Dialog, NEW c \in Certs, NEW y, y = [x EXCEPT !.seen = c]
  PROVE  /\ y \in Dialog /\ y.seen = c /\ y.entry = x.entry /\ y.base = x.base
         /\ y.previous = x.previous /\ y.confirmed = x.confirmed /\ y.form = x.form /\ y.pc = x.pc
         /\ y.granted = x.granted
<1>1. y \in Dialog
  BY DEF Dialog
<1> QED
  BY <1>1 DEF Dialog

LEMMA DetectedType ==
  ASSUME NEW x \in Dialog
  PROVE  /\ Detected(x) \in Dialog /\ Detected(x).seen = x.seen /\ Detected(x).entry = x.entry
         /\ Detected(x).base = x.base /\ Detected(x).previous = x.previous
         /\ Detected(x).confirmed = x.confirmed /\ Detected(x).pc = x.pc
         /\ Detected(x).form.pin = x.form.pin /\ Detected(x).form.host = x.form.host
<1>1. [x.form EXCEPT !.tcp = TRUE] \in Form
  BY DEF Dialog, Form
<1>2. Detected(x) = [x EXCEPT !.form = [x.form EXCEPT !.tcp = TRUE]]
  BY DEF Detected, Dialog
<1>3. Detected(x) \in Dialog
  BY <1>1, <1>2 DEF Dialog
<1>4. [x.form EXCEPT !.tcp = TRUE].pin = x.form.pin /\ [x.form EXCEPT !.tcp = TRUE].host = x.form.host
  BY DEF Dialog, Form
<1> QED
  BY <1>2, <1>3, <1>4 DEF Dialog

LEMMA InspectedSafe ==
  ASSUME IInv, NEW f \in Flows, NEW ok \in BOOLEAN, NEW refused \in BOOLEAN,
         Inspected(f, ok, refused)
  PROVE  Core' /\ NoClobber /\ PinsApproved
<1> DEFINE s == [flow[f] EXCEPT !.seen = Presented(flow[f])]
           x == IF refused THEN Detected(s) ELSE s
<1>0. Core /\ Open(f) /\ flow[f].pc = "inspect"
  BY DEF IInv, Inspected, Open
<1>1. /\ Shape(flow[f]) /\ Sole(f, flow[f]) /\ NoIntruder(f, flow[f].entry)
      /\ flow[f] \in Dialog /\ flow[f].entry \notin Legacy
  BY <1>0, OpenFacts DEF Shape
<1>2. Presented(flow[f]) \in Certs
  BY <1>1 DEF Presented, IInv, Dialog, Form
<1>3. /\ s \in Dialog /\ s.entry = flow[f].entry /\ s.base = flow[f].base
      /\ s.previous = flow[f].previous /\ s.confirmed = flow[f].confirmed /\ s.form = flow[f].form
      /\ s.seen \in Certs
  BY <1>1, <1>2, SeenType
<1> HIDE DEF s
<1>4. /\ x \in Dialog /\ x.entry = flow[f].entry /\ x.base = flow[f].base
      /\ x.previous = flow[f].previous /\ x.confirmed = flow[f].confirmed
      /\ x.form.pin = flow[f].form.pin /\ x.seen \in Certs
  BY <1>3, DetectedType
<1>5. IF ~ok THEN Aborts(f)
      ELSE IF NeedsApproval(x, x.seen) \/ Changed(x) \/ NeedsTcp(x) THEN Show(f, x, "confirm")
      ELSE Accept(f, x)
  BY DEF Inspected, s
<1> HIDE DEF x
<1>6. x.previous = x.base /\ Sole(f, x)
  BY <1>1, <1>4 DEF Shape, Sole
<1>7. CASE Aborts(f)
  BY <1>0, <1>7, AbortsSafe
<1>8. CASE Show(f, x, "confirm")
  <2>1. Shape([x EXCEPT !.pc = "confirm"])
    BY <1>1, <1>4, <1>6, PlainShape
  <2> QED
    BY <1>0, <1>4, <1>8, <2>1, StageSafe DEF Stages
<1>9. CASE ~NeedsApproval(x, x.seen) /\ ~Changed(x) /\ Accept(f, x)
  <2>1. x.base.host = None => x.base.pin = None
    BY <1>6, AbsentType DEF Sole, Absent
  <2>2. Agreed(x)
    BY <1>6, <1>9, <2>1 DEF NeedsApproval, Changed, Exempt, Pin, Agreed
  <2>3. Core' /\ Effect(f, x)
    BY <1>0, <1>1, <1>4, <1>6, <1>9, <2>2, AcceptKeeps
  <2> QED
    BY <1>0, <1>4, <1>6, <2>2, <2>3, AgreedSafe
<1> QED
  BY <1>5, <1>7, <1>8, <1>9

LEMMA ConfirmSafe ==
  ASSUME Core, NEW f \in Flows, Confirm(f) PROVE Core' /\ NoClobber /\ PinsApproved
<1> DEFINE x == [flow[f] EXCEPT !.confirmed = flow[f].confirmed \cup {flow[f].seen}]
           y == [x EXCEPT !.pc = "reinspect"]
<1>0. Open(f) /\ flow[f].pc = "confirm"
  BY DEF Confirm, Open
<1>1. /\ flow[f] \in Dialog /\ flow[f].entry \notin Legacy
      /\ flow[f].previous = flow[f].base /\ flow[f].seen \in Certs
  BY <1>0, OpenFacts DEF Shape
<1>2. x \in Dialog
  BY <1>1 DEF Dialog
<1>3. /\ x.entry = flow[f].entry /\ x.base = flow[f].base
      /\ x.previous = flow[f].previous /\ x.seen = flow[f].seen /\ x.seen \in x.confirmed
  BY <1>1, <1>2 DEF Dialog
<1>4. Show(f, x, "reinspect")
  BY DEF Confirm
<1> HIDE DEF x
<1>5. /\ y \in Dialog /\ y.pc = "reinspect" /\ y.entry = x.entry /\ y.base = x.base
      /\ y.previous = x.previous /\ y.seen = x.seen /\ y.confirmed = x.confirmed
  BY <1>2, PcFree DEF Stages
<1> HIDE DEF y
<1>6. Shape(y)
  BY <1>1, <1>3, <1>5 DEF Shape
<1> QED
  BY <1>0, <1>2, <1>3, <1>4, <1>6, StageSafe DEF y, Stages

LEMMA ReinspectedSafe ==
  ASSUME IInv, NEW f \in Flows, NEW ok \in BOOLEAN, Reinspected(f, ok)
  PROVE  Core' /\ NoClobber /\ PinsApproved
<1> DEFINE x == [flow[f] EXCEPT !.seen = Presented(flow[f])]
<1>0. Core /\ Open(f) /\ flow[f].pc = "reinspect"
  BY DEF IInv, Reinspected, Open
<1>1. /\ Sole(f, flow[f]) /\ NoIntruder(f, flow[f].entry)
      /\ flow[f] \in Dialog /\ flow[f].entry \notin Legacy
      /\ flow[f].previous = flow[f].base /\ flow[f].seen \in Certs
      /\ flow[f].seen \in flow[f].confirmed
  BY <1>0, OpenFacts DEF Shape
<1>2. Presented(flow[f]) \in Certs
  BY <1>1 DEF Presented, IInv, Dialog, Form
<1>3. /\ x \in Dialog /\ x.entry = flow[f].entry /\ x.base = flow[f].base /\ x.seen \in Certs
      /\ x.previous = flow[f].previous /\ x.confirmed = flow[f].confirmed /\ x.form = flow[f].form
  BY <1>1, <1>2, SeenType
<1>4. IF ~ok THEN Show(f, flow[f], "confirm")
      ELSE IF x.seen = flow[f].seen THEN Accept(f, x)
      ELSE Show(f, x, "confirm")
  BY DEF Reinspected
<1> HIDE DEF x
<1>5. CASE Show(f, flow[f], "confirm")
  <2>1. Shape([flow[f] EXCEPT !.pc = "confirm"])
    BY <1>1, PlainShape
  <2> QED
    BY <1>0, <1>1, <1>5, <2>1, StageSafe DEF Stages
<1>6. CASE Show(f, x, "confirm")
  <2>1. Shape([x EXCEPT !.pc = "confirm"])
    BY <1>1, <1>3, PlainShape
  <2> QED
    BY <1>0, <1>3, <1>6, <2>1, StageSafe DEF Stages
<1>7. CASE x.seen = flow[f].seen /\ Accept(f, x)
  <2>1. Agreed(x) /\ Sole(f, x) /\ x.previous = x.base
    BY <1>1, <1>3, <1>7 DEF Agreed, Sole
  <2>2. Core' /\ Effect(f, x)
    BY <1>0, <1>1, <1>3, <1>7, <2>1, AcceptKeeps
  <2> QED
    BY <1>0, <1>3, <2>1, <2>2, AgreedSafe
<1> QED
  BY <1>4, <1>5, <1>6, <1>7

\* A dialog that may commit what it has
LEMMA ReadySafe ==
  ASSUME Core, NEW f \in Flows, Open(f), NEW x, Ready(f, x), x.entry = flow[f].entry,
         x.base = flow[f].base, x.confirmed = flow[f].confirmed,
         x.form.pin = flow[f].form.pin, Core' /\ Effect(f, x)
  PROVE  Core' /\ NoClobber /\ PinsApproved
  BY AgreedSafe DEF Ready

LEMMA AccessedSafe ==
  ASSUME Core, NEW f \in Flows, NEW ok \in BOOLEAN, Accessed(f, ok)
  PROVE  Core' /\ NoClobber /\ PinsApproved
<1>0. Open(f) /\ flow[f].pc = "access"
  BY DEF Accessed, Open
<1>1. /\ Sole(f, flow[f]) /\ NoIntruder(f, flow[f].entry) /\ flow[f] \in Dialog
      /\ flow[f].previous = flow[f].base /\ Agreed(flow[f])
  BY <1>0, OpenFacts DEF Shape
<1>2. CASE Aborts(f)
  BY <1>0, <1>2, AbortsSafe
<1>3. CASE Unclobbered(flow[f]) /\ Finish(f, flow[f])
  <2>1. Ready(f, flow[f])
    BY <1>1, <1>3 DEF Ready, Unclobbered, Valid, Sole
  <2> QED
    BY <1>0, <1>3, <2>1, FinishKeeps, ReadySafe
<1> QED
  BY <1>2, <1>3 DEF Accessed

\* Consent to something is noted.
LEMMA GrantType ==
  ASSUME NEW x \in Dialog, NEW g \in {"trial", "alarm"}, NEW y,
         y = [x EXCEPT !.granted = x.granted \cup {g}]
  PROVE  /\ y \in Dialog /\ y.seen = x.seen /\ y.entry = x.entry /\ y.base = x.base
         /\ y.previous = x.previous /\ y.confirmed = x.confirmed /\ y.form = x.form
         /\ y.granted = x.granted \cup {g} /\ (Agreed(y) <=> Agreed(x))
         /\ (NeedsTrial(y) <=> NeedsTrial(x))
<1>1. y \in Dialog
  BY DEF Dialog
<1>2. /\ y.seen = x.seen /\ y.entry = x.entry /\ y.base = x.base
      /\ y.previous = x.previous /\ y.confirmed = x.confirmed /\ y.form = x.form
      /\ y.granted = x.granted \cup {g}
  BY <1>1 DEF Dialog
<1>3. Agreed(y) <=> Agreed(x)
  BY <1>2 DEF Agreed
<1>4. /\ Merged(x).host = x.form.host /\ Merged(x).pin = x.seen
      /\ Merged(x).tcp = x.form.tcp /\ Merged(x).secret = Secret(x)
      /\ Merged(x).trial <=> Wanted(x) /\ Secret(x) # 0
  BY MergedType
<1>5. /\ Merged(y).host = y.form.host /\ Merged(y).pin = y.seen
      /\ Merged(y).tcp = y.form.tcp /\ Merged(y).secret = Secret(y)
      /\ Merged(y).trial <=> Wanted(y) /\ Secret(y) # 0
  BY <1>1, MergedType
<1>6. Target(Merged(y)) = Target(Merged(x))
  BY <1>2, <1>4, <1>5 DEF Target, Secret
<1>7. NeedsTrial(y) <=> NeedsTrial(x)
  BY <1>2, <1>4, <1>5, <1>6 DEF NeedsTrial, ChangedTarget, Wanted, Secret
<1> QED
  BY <1>1, <1>2, <1>3, <1>7

LEMMA TrialsSafe ==
  ASSUME Core, NEW f \in Flows, Trials(f) PROVE Core' /\ NoClobber /\ PinsApproved
<1> DEFINE x == [flow[f] EXCEPT !.granted = flow[f].granted \cup {"trial"}]
<1>0. Open(f) /\ flow[f].pc = "trials"
  BY DEF Trials, Open
<1>1. /\ Sole(f, flow[f]) /\ NoIntruder(f, flow[f].entry) /\ flow[f] \in Dialog
      /\ flow[f].previous = flow[f].base /\ Agreed(flow[f])
  BY <1>0, OpenFacts DEF Shape
<1>2. /\ x \in Dialog /\ x.seen = flow[f].seen /\ x.entry = flow[f].entry /\ x.base = flow[f].base
      /\ x.previous = flow[f].previous /\ x.confirmed = flow[f].confirmed
      /\ x.form = flow[f].form /\ "trial" \in x.granted /\ Agreed(x)
  BY <1>1, GrantType
<1>3. IF ~Unclobbered(flow[f]) THEN Aborts(f)
      ELSE Stores(f, x)
  BY DEF Trials
<1> HIDE DEF x
<1>4. CASE Aborts(f)
  BY <1>0, <1>4, AbortsSafe
<1>5. CASE Unclobbered(flow[f])
  <2>1. Ready(f, x)
    BY <1>1, <1>2, <1>5 DEF Ready, Unclobbered, Valid, Sole
  <2>2. Core' /\ Effect(f, x)
    BY <1>2, <1>3, <1>5, <2>1, StoresKeeps
  <2> QED
    BY <1>0, <1>2, <2>1, <2>2, ReadySafe
<1> QED
  BY <1>3, <1>4, <1>5

LEMMA AlarmSafe ==
  ASSUME Core, NEW f \in Flows, Alarm(f) PROVE Core' /\ NoClobber /\ PinsApproved
<1> DEFINE x == [flow[f] EXCEPT !.granted = flow[f].granted \cup {"alarm"}]
<1>0. Open(f) /\ flow[f].pc = "alarm"
  BY DEF Alarm, Open
<1>1. /\ Sole(f, flow[f]) /\ NoIntruder(f, flow[f].entry) /\ flow[f] \in Dialog
      /\ flow[f].previous = flow[f].base /\ Agreed(flow[f]) /\ flow[f].entry \notin Legacy
      /\ NeedsTrial(flow[f]) => "trial" \in flow[f].granted
  BY <1>0, OpenFacts DEF Shape
<1>2. /\ x \in Dialog /\ x.seen = flow[f].seen /\ x.entry = flow[f].entry /\ x.base = flow[f].base
      /\ x.previous = flow[f].previous /\ x.confirmed = flow[f].confirmed
      /\ x.form = flow[f].form /\ Agreed(x) /\ (NeedsTrial(x) => "trial" \in x.granted)
  BY <1>1, GrantType
<1>3. IF ~Valid(flow[f]) THEN Aborts(f) ELSE Persist(f, x)
  BY DEF Alarm
<1> HIDE DEF x
<1>4. CASE Aborts(f)
  BY <1>0, <1>4, AbortsSafe
<1>5. CASE Valid(flow[f]) /\ Persist(f, x)
  <2>1. Ready(f, x)
    BY <1>1, <1>2, <1>5 DEF Ready, Valid, Sole
  <2> QED
    BY <1>0, <1>1, <1>2, <1>5, <2>1, PersistKeeps, ReadySafe
<1> QED
  BY <1>3, <1>4, <1>5

LEMMA CloudSafe ==
  ASSUME Core, NEW f \in Flows, NEW ok \in BOOLEAN, Account(f) \/ LoggedIn(f, ok)
  PROVE  Core' /\ NoClobber /\ PinsApproved
<1>0. Open(f) /\ flow[f].pc \in {"account", "login"}
  BY DEF Account, LoggedIn, Open
<1>1. /\ flow[f] \in Dialog /\ flow[f].previous = flow[f].base /\ Agreed(flow[f])
      /\ flow[f].entry \notin Legacy /\ (NeedsTrial(flow[f]) => "trial" \in flow[f].granted)
  BY <1>0, OpenFacts DEF Shape
<1>2. ASSUME NEW pc \in {"account", "login", "device"}, Show(f, flow[f], pc)
      PROVE  Core' /\ NoClobber /\ PinsApproved
  <2>1. Shape([flow[f] EXCEPT !.pc = pc])
    BY <1>1, AskShape
  <2> QED
    BY <1>0, <1>1, <1>2, <2>1, StageSafe DEF Stages
<1>3. CASE Aborts(f)
  BY <1>0, <1>3, AbortsSafe
<1> QED
  BY <1>2, <1>3 DEF Account, LoggedIn

LEMMA BoundType ==
  ASSUME NEW x \in Dialog, NEW dev \in Devices
  PROVE  /\ Bound(x, dev) \in Data /\ Bound(x, dev).host = x.form.host
         /\ Bound(x, dev).pin = x.seen /\ Target(Bound(x, dev)) = Target(Result(x))
         /\ Bound(x, dev).trial = Result(x).trial /\ Bound(x, dev).alarm = Result(x).alarm
         /\ Bound(x, dev).tcp = Result(x).tcp /\ Bound(x, dev).uid = dev
<1>1. /\ Result(x) \in Data /\ Result(x).host = x.form.host /\ Result(x).pin = x.seen
  BY ResultType
<1>2. Bound(x, dev) \in Data
  BY <1>1 DEF Bound, Data
<1>3. /\ Bound(x, dev).host = Result(x).host /\ Bound(x, dev).pin = Result(x).pin
      /\ Bound(x, dev).tcp = Result(x).tcp /\ Bound(x, dev).secret = Result(x).secret
      /\ Bound(x, dev).trial = Result(x).trial /\ Bound(x, dev).alarm = Result(x).alarm
      /\ Bound(x, dev).uid = dev
  BY <1>1, <1>2 DEF Bound, Data
<1> QED
  BY <1>1, <1>2, <1>3 DEF Target

LEMMA DeviceSafe ==
  ASSUME Core, NEW f \in Flows, NEW dev \in Devices, Device(f, dev)
  PROVE  Core' /\ NoClobber /\ PinsApproved
<1> DEFINE x == flow[f]
<1>0. Open(f) /\ flow[f].pc = "device"
  BY DEF Device, Open
<1>1. /\ Sole(f, x) /\ NoIntruder(f, x.entry) /\ x \in Dialog /\ x.entry \notin Legacy
      /\ x.previous = x.base /\ Agreed(x) /\ (NeedsTrial(x) => "trial" \in x.granted)
  BY <1>0, OpenFacts DEF Shape
<1>2. CASE Aborts(f)
  BY <1>0, <1>2, AbortsSafe
<1>3. CASE /\ Valid(x) /\ ~BoundElsewhere(x.entry, dev)
           /\ Commit(f, x, Bound(x, dev))
  <2>1. Ready(f, x)
    BY <1>1, <1>3 DEF Ready, Valid
  <2>2. \A o \in Entries \ {x.entry} : entries[o].cloud => entries[o].uid # Bound(x, dev).uid
    BY <1>1, <1>3, BoundType DEF BoundElsewhere
  <2> HIDE DEF x
  <2>3. Core' /\ Effect(f, x)
    BY <1>1, <1>3, <2>1, <2>2, BoundType, ResultCommitKeeps
  <2> QED
    BY <1>0, <2>1, <2>3, ReadySafe DEF x
<1> QED
  BY <1>2, <1>3 DEF Device

LEMMA PlainSafe ==
  ASSUME Core, NEW f \in Flows, Plain(f) PROVE Core' /\ NoClobber /\ PinsApproved
<1>0. Open(f) /\ flow[f].pc = "plain"
  BY DEF Plain, Open
<1>1. flow[f] \in Dialog /\ flow[f].previous = flow[f].base /\ flow[f].entry \in Legacy
  BY <1>0, OpenFacts DEF Shape
<1>2. Shape([flow[f] EXCEPT !.pc = "validateplain"])
  BY <1>1, LegacyShape
<1> QED
  BY <1>0, <1>1, <1>2, StageSafe DEF Plain, Stages

LEMMA CloseSafe ==
  ASSUME Core, NEW f \in Flows, Close(f) PROVE Core' /\ NoClobber /\ PinsApproved
  BY AbortsSafe DEF Close, Open

-----------------------------------------------------------------------------
(* A dialog opens                                                          *)

LEMMA FormTypes ==
  /\ \A form \in Forms : form \in Form
  /\ \A form \in Forms, e \in Entries : Core /\ Exists(e) => LegacyForm(e, form) \in Form
  /\ \A h \in Hosts, n \in 0..1 : Credentials(h, n) \in Form
<1>1. \A form \in Forms : form \in Form
  BY OnboardingAssumption
<1>2. ASSUME NEW form \in Forms, NEW e \in Entries, Core, Exists(e)
      PROVE  LegacyForm(e, form) \in Form
  <2>1. entries[e].host \in Hosts
    BY <1>2 DEF Core, Stored, Exists, Data
  <2>2. Credentials(entries[e].host, 0) \in Form /\ form \in Form
    BY <1>1, <2>1 DEF Credentials, Form
  <2>3. form.panel \in BOOLEAN /\ form.trial \in BOOLEAN
    BY <2>2 DEF Form
  <2> QED
    BY <2>2, <2>3 DEF LegacyForm, Form
<1>3. \A h \in Hosts, n \in 0..1 : Credentials(h, n) \in Form
  BY DEF Credentials, Form
<1> QED
  BY <1>1, <1>2, <1>3

LEMMA OpenedType ==
  ASSUME Core, NEW f \in Flows, NEW e \in Entries, NEW form \in Form, Free(f, e)
  PROVE  LET x == Opened(e, form) IN
         /\ x \in Dialog /\ x.entry = e /\ x.previous = x.base /\ x.base = entries[e]
         /\ x.seen = x.base.pin /\ x.form = form /\ x.confirmed = {} /\ x.granted = {}
         /\ Sole(f, x) /\ NoIntruder(f, e) /\ Agreed(x) /\ ~Open(f)
<1> DEFINE x == Opened(e, form)
<1>1. entries[e] \in Data /\ entries[e].pin \in Certs \cup {None}
  BY DEF Core, Stored, Data
<1>2. x \in Dialog
  BY <1>1 DEF Opened, Dialog, Stages
<1>3. /\ x.entry = e /\ x.previous = x.base /\ x.base = entries[e]
      /\ x.seen = x.base.pin /\ x.form = form /\ x.confirmed = {} /\ x.granted = {}
  BY DEF Opened
<1> HIDE DEF x
<1>4. Sole(f, x)
  BY <1>3 DEF Sole, Core, EntriesOK, Free, Exists, Alone, Open
<1>5. NoIntruder(f, e)
  <2>1. ASSUME NEW g \in Flows \ {f}, Open(g), flow[g].base.host = None, flow[g].entry = e
        PROVE  FALSE
    <3>1. entries[e] = Absent
      BY <2>1, OpenFacts DEF Sole
    <3>2. ~Exists(e)
      BY <3>1 DEF Exists, Absent
    <3> QED
      BY <2>1, <3>2 DEF Free, Open
  <2> QED
    BY <2>1 DEF NoIntruder
<1>6. Agreed(x)
  BY <1>3 DEF Agreed
<1>7. ~Open(f)
  BY DEF Free, Open
<1> QED
  BY <1>2, <1>3, <1>4, <1>5, <1>6, <1>7 DEF x

LEMMA FirstStageSafe ==
  ASSUME Core, NEW f \in Flows, NEW e \in Entries, NEW form \in Form, Free(f, e),
         NEW pc \in Stages \ {"off"}, Shape([Opened(e, form) EXCEPT !.pc = pc]),
         Show(f, Opened(e, form), pc)
  PROVE  Core' /\ NoClobber /\ PinsApproved
<1> DEFINE x == Opened(e, form)
<1>1. /\ x \in Dialog /\ x.entry = e /\ x.seen = x.base.pin
      /\ Sole(f, x) /\ NoIntruder(f, e) /\ ~Open(f)
  BY OpenedType
<1>2. Shape([x EXCEPT !.pc = pc]) /\ Show(f, x, pc)
  OBVIOUS
<1> HIDE DEF x
<1>3. DialogOK(f, [x EXCEPT !.pc = pc])
  BY <1>1, <1>2, SoleShown DEF DialogOK
<1>4. Core'
  BY <1>1, <1>2, <1>3, ShowKeeps
<1>5. Effect(f, x)
  BY <1>2, ShowEffect
<1> QED
  BY <1>1, <1>4, <1>5, FirstSafe

LEMMA SubmitSafe ==
  ASSUME Core, NEW f \in Flows, NEW e \in Entries, NEW form \in Forms, Submit(f, e, form)
  PROVE  Core' /\ NoClobber /\ PinsApproved
<1> DEFINE x == Opened(e, form)
           y == [x EXCEPT !.seen = None]
<1>0. form \in Form /\ Free(f, e) /\ e \notin Legacy
  BY FormTypes DEF Submit, Connect3
<1>1. /\ x \in Dialog /\ x.entry = e /\ x.previous = x.base /\ x.base = entries[e]
      /\ x.seen = x.base.pin /\ Sole(f, x) /\ NoIntruder(f, e) /\ Agreed(x) /\ ~Open(f)
  BY <1>0, OpenedType
<1>2. Finish(f, y) \/ Finish(f, x) \/ Show(f, x, "inspect")
  <2>1. CASE form.clear
    BY <2>1 DEF Submit
  <2>2. CASE ~form.clear /\ Presentation(e, form)
    BY <2>2 DEF Submit
  <2>3. CASE ~form.clear /\ ~Presentation(e, form)
    BY <2>3 DEF Submit
  <2> QED
    BY <2>1, <2>2, <2>3
<1> HIDE DEF x
<1>3. CASE Finish(f, y)
  <2>1. /\ y \in Dialog
    BY <1>1 DEF Dialog
  <2>2. y.entry = e /\ y.previous = x.previous /\ y.base = x.base /\ y.seen = None
    BY <1>1 DEF Dialog
  <2> HIDE DEF y
  <2>3. Ready(f, y)
    BY <1>1, <2>1, <2>2 DEF Ready, Agreed, Sole
  <2>4. Core' /\ Effect(f, y)
    BY <1>3, <2>3, FinishKeeps
  <2> QED
    BY <1>1, <2>2, <2>4, FirstSafe
<1>4. CASE Finish(f, x)
  <2>1. Ready(f, x)
    BY <1>1 DEF Ready
  <2>2. Core' /\ Effect(f, x)
    BY <1>4, <2>1, FinishKeeps
  <2> QED
    BY <1>1, <2>2, FirstSafe
<1>5. CASE Show(f, x, "inspect")
  <2>1. Shape([x EXCEPT !.pc = "inspect"])
    BY <1>0, <1>1, PlainShape
  <2> QED
    BY <1>0, <1>5, <2>1, FirstStageSafe DEF x, Stages
<1> QED
  BY <1>2, <1>3, <1>4, <1>5

LEMMA DiscoverySafe ==
  ASSUME Core, NEW f \in Flows, NEW e \in Entries, NEW form \in Forms, DiscoverySubmit(f, e, form)
  PROVE  Core' /\ NoClobber /\ PinsApproved
<1> DEFINE mine == DiscoveryForm(e, form)
           x == Opened(e, mine)
           pin == IF x.form.clear THEN None ELSE Pin(x)
           y == [x EXCEPT !.seen = pin]
<1>0. form \in Form /\ Free(f, e) /\ e \in Discovery
  BY FormTypes DEF DiscoverySubmit
<1>1. mine \in Form
  <2>1. entries[e].tcp \in BOOLEAN
    BY DEF Core, Stored, Data
  <2> QED
    BY <1>0, <2>1 DEF DiscoveryForm, Form
<1>2. Finish(f, y)
  BY DEF DiscoverySubmit
<1> HIDE DEF mine
<1>3. /\ x \in Dialog /\ x.entry = e /\ x.previous = x.base /\ x.base = entries[e]
      /\ Sole(f, x) /\ NoIntruder(f, e) /\ ~Open(f)
  BY <1>0, <1>1, OpenedType
<1> HIDE DEF x
<1>4. pin \in Certs \cup {None}
  BY <1>3 DEF Pin, Dialog, Form, Data
<1> HIDE DEF pin
<1>5. y \in Dialog
  BY <1>3, <1>4 DEF Dialog
<1>6. y.entry = e /\ y.previous = x.previous /\ y.base = x.base
  BY <1>3, <1>5 DEF Dialog
<1> HIDE DEF y
<1>7. Ready(f, y)
  BY <1>0, <1>3, <1>5, <1>6 DEF Ready, Agreed, Sole
<1>8. Core' /\ Effect(f, y)
  BY <1>2, <1>7, FinishKeeps
<1> QED
  BY <1>0, <1>3, <1>6, <1>8, FirstSafe

LEMMA LegacyOpensSafe ==
  ASSUME Core, NEW f \in Flows, NEW e \in Entries,
         \/ \E form \in Forms : LegacySubmit(f, e, form)
         \/ \E h \in Hosts : LegacyAdd(f, e, h)
         \/ \E n \in 0..1 : Reauth(f, e, n)
  PROVE  Core' /\ NoClobber /\ PinsApproved
<1>1. ASSUME NEW form \in Forms, LegacySubmit(f, e, form)
      PROVE  Core' /\ NoClobber /\ PinsApproved
  <2> DEFINE x == Opened(e, LegacyForm(e, form))
  <2>1. LegacyForm(e, form) \in Form /\ Free(f, e)
    BY <1>1, FormTypes DEF LegacySubmit
  <2>2. /\ x \in Dialog /\ x.entry = e /\ x.previous = x.base /\ x.base = entries[e]
        /\ x.seen = x.base.pin /\ Sole(f, x) /\ NoIntruder(f, e) /\ Agreed(x) /\ ~Open(f)
    BY <2>1, OpenedType
  <2>3. Finish(f, x)
    BY <1>1 DEF LegacySubmit
  <2> HIDE DEF x
  <2>4. Core' /\ Effect(f, x)
    BY <2>2, <2>3, FinishKeeps DEF Ready
  <2> QED
    BY <2>2, <2>4, FirstSafe
<1>2. ASSUME NEW h \in Hosts, NEW n \in 0..1, NEW pc \in {"validate", "reauth"}, e \in Legacy,
             Free(f, e), pc = "reauth" => Exists(e), Show(f, Opened(e, Credentials(h, n)), pc)
      PROVE  Core' /\ NoClobber /\ PinsApproved
  <2>1. Credentials(h, n) \in Form
    BY FormTypes
  <2>2. LET x == Opened(e, Credentials(h, n)) IN
        x \in Dialog /\ x.entry = e /\ x.previous = x.base /\ x.base = entries[e]
    BY <1>2, <2>1, OpenedType
  <2>3. Shape([Opened(e, Credentials(h, n)) EXCEPT !.pc = pc])
    BY <1>2, <2>2, LegacyShape DEF Exists
  <2> QED
    BY <1>2, <2>1, <2>3, FirstStageSafe DEF Stages
<1>3. ASSUME NEW h \in Hosts, LegacyAdd(f, e, h) PROVE Core' /\ NoClobber /\ PinsApproved
  BY <1>2, <1>3 DEF LegacyAdd
<1>4. ASSUME NEW n \in 0..1, Reauth(f, e, n) PROVE Core' /\ NoClobber /\ PinsApproved
  <2>1. entries[e].host \in Hosts
    BY <1>4 DEF Reauth, Core, Stored, Exists, Data
  <2> QED
    BY <1>2, <1>4, <2>1 DEF Reauth
<1> QED
  BY <1>1, <1>3, <1>4

-----------------------------------------------------------------------------
(* A legacy device answers                                                 *)

\* Steps that close a dialog about a password or a first device, and keep every pin
LEMMA AnswerSafe ==
  ASSUME NEW f \in Flows, flow[f].pc \in {"reauth", "validate", "validateplain"},
         \A g \in Flows \ {f} : flow'[g] = flow[g],
         \A e \in Entries : entries'[e].pin \in {entries[e].pin, None}
  PROVE  NoClobber /\ PinsApproved
  BY DEF NoClobber, PinsApproved

LEMMA FirstType ==
  ASSUME NEW p \in Data, NEW h \in Hosts
  PROVE  [p EXCEPT !.host = h, !.secret = 1] \in Data
<1>1. \A s \in 0..2 : [p EXCEPT !.host = h, !.secret = s] \in Data
  BY DEF Data
<1>2. 1 \in 0..2
  OBVIOUS
<1> QED
  BY <1>1, <1>2

LEMMA NewSafe ==
  ASSUME Core, NEW f \in Flows, flow[f].pc \in {"validate", "validateplain"},
         Commit(f, flow[f], New(flow[f]))
  PROVE  Core' /\ NoClobber /\ PinsApproved
<1>0. Open(f)
  BY DEF Open
<1>1. /\ flow[f] \in Dialog /\ flow[f].entry \in Entries /\ NoIntruder(f, flow[f].entry)
      /\ flow[f].form.host \in Hosts
  BY <1>0, OpenFacts DEF Dialog, Form
<1>2. /\ New(flow[f]) \in Data /\ New(flow[f]).host = flow[f].form.host /\ New(flow[f]).pin = None
      /\ ~New(flow[f]).trial /\ ~New(flow[f]).alarm /\ ~New(flow[f]).cloud
  <2>1. New(flow[f]) \in Data
    BY <1>1, AbsentType, FirstType DEF New
  <2> QED
    BY <1>1, <2>1 DEF New, Absent, Data
<1>3. Core'
  BY <1>1, <1>2, NoneHost, CommitKeeps
<1>4. \A g \in Flows \ {f} : flow'[g] = flow[g]
  BY DEF Commit, Core, Stored
<1>5. \A e \in Entries : entries'[e].pin \in {entries[e].pin, None}
  BY <1>1, <1>2 DEF Commit, Core, Stored
<1> QED
  BY <1>3, <1>4, <1>5, AnswerSafe

\* The entry of a legacy device changes while its dialog closes, and its pin stays.
LEMMA LegacyEntrySafe ==
  ASSUME Core, NEW f \in Flows, flow[f].pc \in {"validate", "reauth"}, NEW d \in Data,
         LET e == flow[f].entry IN
         /\ d.host # None /\ d.pin = entries[e].pin /\ d.uid = entries[e].uid
         /\ d.alarm = entries[e].alarm /\ d.cloud = entries[e].cloud
         /\ d.trial => entries[e].trial /\ TargetOf(e, d) = TargetOf(e, entries[e])
         /\ entries' = [entries EXCEPT ![e] = d],
         flow' = [flow EXCEPT ![f] = Closed], UNCHANGED <<trialOf, alarmOf>>
  PROVE  Core' /\ NoClobber /\ PinsApproved
<1> DEFINE e == flow[f].entry
<1>0. Open(f)
  BY DEF Open
<1>1. flow[f] \in Dialog /\ e \in Entries /\ e \in Legacy /\ NoIntruder(f, e)
  BY <1>0, OpenFacts DEF Shape
<1>2. ~d.alarm
  BY <1>1 DEF Core, EntriesOK
<1>3. d.trial => trialOf'[e] = TargetOf(e, d)
  BY <1>1 DEF Core, ConsentIsFresh
<1>4. d.cloud => \A o \in Entries \ {e} : entries[o].cloud => entries[o].uid # d.uid
  BY <1>1 DEF Core, OneEntryPerCloudDevice
<1>5. trialOf' \in [Entries -> Targets] /\ alarmOf' \in [Entries -> Targets]
  BY DEF Core, Stored
<1>6. Core'
  BY <1>1, <1>2, <1>3, <1>4, <1>5, EntryKeeps
<1>7. \A g \in Flows \ {f} : flow'[g] = flow[g]
  BY DEF Core, Stored
<1>8. \A o \in Entries : entries'[o].pin = entries[o].pin
  BY <1>1 DEF Core, Stored
<1> QED
  BY <1>6, <1>7, <1>8, AnswerSafe

LEMMA ValidatedSafe ==
  ASSUME Core, NEW f \in Flows, NEW outcome \in {"ok", "failed", "plain"}, Validated(f, outcome)
  PROVE  Core' /\ NoClobber /\ PinsApproved
<1> DEFINE e == flow[f].entry
<1>0. Open(f) /\ flow[f].pc = "validate"
  BY DEF Validated, Open
<1>1. /\ flow[f] \in Dialog /\ flow[f].previous = flow[f].base /\ e \in Legacy /\ e \in Entries
      /\ flow[f].form.host \in Hosts
  BY <1>0, OpenFacts DEF Shape, Dialog, Form
<1>2. CASE outcome = "failed"
  BY <1>0, <1>2, AbortsSafe DEF Validated
<1>3. CASE outcome = "plain"
  <2>1. Shape([flow[f] EXCEPT !.pc = "plain"])
    BY <1>1, LegacyShape
  <2>2. Show(f, flow[f], "plain")
    BY <1>3 DEF Validated
  <2> QED
    BY <1>0, <1>1, <2>1, <2>2, StageSafe DEF Stages
<1>4. CASE outcome = "ok" /\ ~Exists(e)
  BY <1>0, <1>4, NewSafe DEF Validated
<1>5. CASE outcome = "ok" /\ Exists(e)
  <2> DEFINE d == [entries[e] EXCEPT !.host = flow[f].form.host]
  <2>1. entries[e] \in Data
    BY <1>1 DEF Core, Stored
  <2>2. d \in Data
    BY <1>1, <2>1 DEF Data
  <2>3. /\ d.host = flow[f].form.host /\ d.pin = entries[e].pin /\ d.uid = entries[e].uid
        /\ d.alarm = entries[e].alarm /\ d.cloud = entries[e].cloud /\ d.trial = entries[e].trial
        /\ d.tcp = entries[e].tcp /\ d.secret = entries[e].secret
    BY <2>1, <2>2 DEF Data
  <2>4. TargetOf(e, d) = TargetOf(e, entries[e])
    BY <1>1, <2>3 DEF TargetOf
  <2>5. /\ entries' = [entries EXCEPT ![e] = d] /\ flow' = [flow EXCEPT ![f] = Closed]
        /\ UNCHANGED <<trialOf, alarmOf>>
    BY <1>5, <2>1 DEF Validated, Core, Stored
  <2>6. d.host # None
    BY <1>1, <2>3, NoneHost
  <2> HIDE DEF d
  <2> QED
    BY <1>0, <2>2, <2>3, <2>4, <2>5, <2>6, LegacyEntrySafe
<1> QED
  BY <1>2, <1>3, <1>4, <1>5

LEMMA PlainValidatedSafe ==
  ASSUME Core, NEW f \in Flows, NEW ok \in BOOLEAN, PlainValidated(f, ok)
  PROVE  Core' /\ NoClobber /\ PinsApproved
<1>1. Open(f) /\ flow[f].pc = "validateplain"
  BY DEF PlainValidated, Open
<1> QED
  BY <1>1, NewSafe, AbortsSafe DEF PlainValidated

LEMMA ReauthenticatedSafe ==
  ASSUME Core, NEW f \in Flows, NEW ok \in BOOLEAN, Reauthenticated(f, ok)
  PROVE  Core' /\ NoClobber /\ PinsApproved
<1> DEFINE e == flow[f].entry
           new == flow[f].form.secret + 1
           same == entries[e].trial /\ entries[e].secret = new
           d == [entries[e] EXCEPT !.secret = new, !.trial = same]
<1>0. Open(f) /\ flow[f].pc = "reauth"
  BY DEF Reauthenticated, Open
<1>1. flow[f] \in Dialog /\ e \in Legacy /\ e \in Entries
  BY <1>0, OpenFacts DEF Shape
<1>2. CASE ~ok
  BY <1>0, <1>2, AbortsSafe DEF Reauthenticated
<1>3. CASE ok
  <2>1. entries[e] \in Data /\ new \in 0..2 /\ same \in BOOLEAN
    BY <1>1 DEF Core, Stored, Dialog, Form
  <2>2. /\ entries' = [entries EXCEPT ![e] = d] /\ flow' = [flow EXCEPT ![f] = Closed]
        /\ UNCHANGED <<trialOf, alarmOf>>
    BY <1>3, <2>1 DEF Reauthenticated, Core, Stored, Data
  <2>3. same => entries[e].trial /\ entries[e].secret = new
    OBVIOUS
  <2> HIDE DEF new, same
  <2>4. d \in Data
    BY <2>1 DEF Data
  <2>5. /\ d.host = entries[e].host /\ d.pin = entries[e].pin /\ d.uid = entries[e].uid
        /\ d.alarm = entries[e].alarm /\ d.cloud = entries[e].cloud /\ d.trial = same
        /\ d.tcp = entries[e].tcp /\ d.secret = new
    BY <2>1, <2>4 DEF Data
  <2>6. d.trial => entries[e].trial /\ TargetOf(e, d) = TargetOf(e, entries[e])
    BY <1>1, <2>3, <2>5 DEF TargetOf
  <2>7. d.host # None
    BY <1>0, <1>1, <2>5, OpenFacts DEF Shape, Sole
  <2> HIDE DEF d
  <2> QED
    BY <1>0, <2>2, <2>4, <2>5, <2>6, <2>7, LegacyEntrySafe
<1> QED
  BY <1>2, <1>3

-----------------------------------------------------------------------------
(* The specification                                                       *)

LEMMA KnownType ==
  ASSUME cert \in [Hosts -> Certs], NEW e \in Entries, NEW h \in Hosts \cup {None}
  PROVE  /\ Known(e, h) \in Data /\ Known(e, h).host = h /\ (h = None => Known(e, h) = Absent)
         /\ ~Known(e, h).trial /\ ~Known(e, h).alarm /\ ~Known(e, h).cloud
<1>1. CASE h = None
  BY <1>1, AbsentType DEF Known, Absent
<1>2. CASE h # None
  <2> DEFINE c == IF e \in Legacy THEN None ELSE cert[h]
  <2>1. h \in Hosts /\ c \in Certs \cup {None}
    BY <1>2
  <2>2. Known(e, h) = [Absent EXCEPT !.host = h, !.pin = c, !.secret = 1]
    BY <1>2 DEF Known
  <2> HIDE DEF c
  <2>3. \A s \in 0..2 : [Absent EXCEPT !.host = h, !.pin = c, !.secret = s] \in Data
    BY <2>1, AbsentType DEF Data
  <2>4. 1 \in 0..2
    OBVIOUS
  <2>5. Known(e, h) \in Data
    BY <2>2, <2>3, <2>4
  <2> QED
    BY <1>2, <2>2, <2>5 DEF Absent, Data
<1> QED
  BY <1>1, <1>2

LEMMA InitIInv == Init => IInv
<1> SUFFICES ASSUME Init PROVE IInv
  OBVIOUS
<1>1. stimuli \in 0..MaxStimuli /\ cert \in [Hosts -> Certs]
  BY OnboardingAssumption DEF Init
<1>2. PICK host \in [Entries -> Hosts \cup {None}] : entries = [e \in Entries |-> Known(e, host[e])]
  BY DEF Init
<1>3. \A e \in Entries : entries[e] = Known(e, host[e]) /\ host[e] \in Hosts \cup {None}
  BY <1>2
<1>4. entries \in [Entries -> Data]
  BY <1>1, <1>2, <1>3, KnownType
<1>5. \A e \in Entries : /\ entries[e].host = None => entries[e] = Absent
                         /\ ~entries[e].trial /\ ~entries[e].alarm /\ ~entries[e].cloud
  BY <1>1, <1>3, KnownType
<1>6. NoTarget \in Targets
  <2>1. \A s \in 0..2 : <<None, None, FALSE, s>> \in Targets
    BY DEF Targets
  <2>2. 0 \in 0..2
    OBVIOUS
  <2> QED
    BY <2>1, <2>2 DEF NoTarget
<1>7. Stored
  BY <1>4, <1>6 DEF Init, Stored
<1>8. EntriesOK /\ ConsentIsFresh /\ OneEntryPerCloudDevice
  BY <1>5 DEF EntriesOK, ConsentIsFresh, OneEntryPerCloudDevice
<1>9. \A f \in Flows : ~Open(f)
  BY DEF Init, Open, Closed
<1> QED
  BY <1>1, <1>7, <1>8, <1>9 DEF IInv, Core

LEMMA UnchangedSafe ==
  ASSUME Core, UNCHANGED <<entries, flow, trialOf, alarmOf>>
  PROVE  Core' /\ NoClobber /\ PinsApproved
<1>1. Stored' /\ EntriesOK' /\ ConsentIsFresh' /\ OneEntryPerCloudDevice'
  BY DEF Core, Stored, EntriesOK, ConsentIsFresh, OneEntryPerCloudDevice
<1>2. \A f \in Flows : Open(f)' => DialogOK(f, flow[f])'
  BY DEF Core, Open, DialogOK, Sole, Alone
<1> QED
  BY <1>1, <1>2 DEF Core, NoClobber, PinsApproved

LEMMA StepSafe == IInv /\ [Next]_vars => IInv' /\ NoClobber /\ PinsApproved
<1> SUFFICES ASSUME IInv, [Next]_vars PROVE IInv' /\ NoClobber /\ PinsApproved
  OBVIOUS
<1>0. Core
  BY DEF IInv
<1> SUFFICES stimuli' \in 0..MaxStimuli /\ cert' \in [Hosts -> Certs]
             /\ Core' /\ NoClobber /\ PinsApproved
  BY DEF IInv
<1>1. ASSUME NEW h \in Hosts, NEW c \in Certs, Replace(h, c)
      PROVE  /\ stimuli' \in 0..MaxStimuli /\ cert' \in [Hosts -> Certs]
             /\ Core' /\ NoClobber /\ PinsApproved
  <2>1. stimuli' \in 0..MaxStimuli /\ cert' \in [Hosts -> Certs]
    BY <1>1, OnboardingAssumption DEF Replace, Stimulus, IInv
  <2>2. UNCHANGED <<entries, flow, trialOf, alarmOf>>
    BY <1>1 DEF Replace
  <2> QED
    BY <1>0, <2>1, <2>2, UnchangedSafe
<1>2. CASE UNCHANGED vars
  <2>1. UNCHANGED <<stimuli, cert, entries, flow, trialOf, alarmOf>>
    BY <1>2 DEF vars
  <2> QED
    BY <1>0, <2>1, UnchangedSafe DEF IInv
<1>3. ASSUME NEW f \in Flows, UNCHANGED <<stimuli, cert>>, Core' /\ NoClobber /\ PinsApproved
      PROVE  /\ stimuli' \in 0..MaxStimuli /\ cert' \in [Hosts -> Certs]
             /\ Core' /\ NoClobber /\ PinsApproved
  BY <1>3 DEF IInv
<1>4. ASSUME NEW f \in Flows, Confirm(f) \/ Trials(f) \/ Alarm(f) \/ Plain(f) \/ Close(f)
      PROVE  UNCHANGED <<stimuli, cert>> /\ Core' /\ NoClobber /\ PinsApproved
  <2>1. UNCHANGED <<stimuli, cert>>
    BY <1>4 DEF Confirm, Trials, Alarm, Plain, Close
  <2> QED
    BY <1>0, <1>4, <2>1, ConfirmSafe, TrialsSafe, AlarmSafe, PlainSafe, CloseSafe
<1>5. ASSUME NEW f \in Flows, NEW dev \in Devices, Device(f, dev)
      PROVE  UNCHANGED <<stimuli, cert>> /\ Core' /\ NoClobber /\ PinsApproved
  BY <1>0, <1>5, DeviceSafe DEF Device
<1>6. ASSUME NEW f \in Flows, NEW ok \in BOOLEAN, Account(f) \/ LoggedIn(f, ok) \/ Accessed(f, ok)
      PROVE  UNCHANGED <<stimuli, cert>> /\ Core' /\ NoClobber /\ PinsApproved
  <2>1. UNCHANGED <<stimuli, cert>>
    BY <1>6 DEF Account, LoggedIn, Accessed
  <2> QED
    BY <1>0, <1>6, <2>1, CloudSafe, AccessedSafe
<1>7. ASSUME NEW f \in Flows, NEW ok \in BOOLEAN,
             Reinspected(f, ok) \/ \E refused \in BOOLEAN : Inspected(f, ok, refused)
      PROVE  UNCHANGED <<stimuli, cert>> /\ Core' /\ NoClobber /\ PinsApproved
  <2>1. UNCHANGED <<stimuli, cert>>
    BY <1>7 DEF Reinspected, Inspected
  <2> QED
    BY <1>7, <2>1, ReinspectedSafe, InspectedSafe
<1>8. ASSUME NEW f \in Flows, NEW ok \in BOOLEAN, PlainValidated(f, ok) \/ Reauthenticated(f, ok)
      PROVE  UNCHANGED <<stimuli, cert>> /\ Core' /\ NoClobber /\ PinsApproved
  <2>1. UNCHANGED <<stimuli, cert>>
    BY <1>8 DEF PlainValidated, Reauthenticated
  <2> QED
    BY <1>0, <1>8, <2>1, PlainValidatedSafe, ReauthenticatedSafe
<1>9. ASSUME NEW f \in Flows, NEW o \in {"ok", "failed", "plain"}, Validated(f, o)
      PROVE  UNCHANGED <<stimuli, cert>> /\ Core' /\ NoClobber /\ PinsApproved
  <2>1. UNCHANGED <<stimuli, cert>>
    BY <1>9 DEF Validated
  <2> QED
    BY <1>0, <1>9, <2>1, ValidatedSafe
<1>10. ASSUME NEW f \in Flows, NEW e \in Entries,
              \/ \E form \in Forms :
                   Submit(f, e, form) \/ DiscoverySubmit(f, e, form) \/ LegacySubmit(f, e, form)
              \/ \E h \in Hosts : LegacyAdd(f, e, h)
              \/ \E n \in 0..1 : Reauth(f, e, n)
       PROVE  /\ stimuli' \in 0..MaxStimuli /\ cert' \in [Hosts -> Certs]
              /\ Core' /\ NoClobber /\ PinsApproved
  <2>1. stimuli < MaxStimuli /\ stimuli' = stimuli + 1 /\ cert' = cert
    BY <1>10 DEF Submit, DiscoverySubmit, LegacySubmit, LegacyAdd, Reauth, Stimulus
  <2>2. stimuli' \in 0..MaxStimuli /\ cert' \in [Hosts -> Certs]
    BY <2>1, OnboardingAssumption DEF IInv
  <2> QED
    BY <1>0, <1>10, <2>2, SubmitSafe, DiscoverySafe, LegacyOpensSafe
<1>11. CASE Next
  BY <1>1, <1>3, <1>4, <1>5, <1>6, <1>7, <1>8, <1>9, <1>10, <1>11 DEF Next
<1> QED
  BY <1>2, <1>11

LEMMA Invariance == Spec => []IInv
<1>1. IInv /\ [Next]_vars => IInv'
  BY StepSafe
<1> QED
  BY <1>1, InitIInv, PTL DEF Spec

\* The types of all variables, for any number of dialogs, entries and hosts.
THEOREM OnboardingTypes == Spec => []TypeOK
<1>1. IInv => TypeOK
  BY DEF IInv, Core, Stored, TypeOK
<1> QED
  BY <1>1, Invariance, PTL

\* What an entry does without asking was agreed to for the target it has now
\* (config_flow.py, _finish_connect3 and _persist_connect3).
THEOREM ConsentIsFreshHolds == Spec => []ConsentIsFresh
<1>1. IInv => ConsentIsFresh
  BY DEF IInv, Core
<1> QED
  BY <1>1, Invariance, PTL

\* One cloud device rings one entry (qv_cloud_flow.py, async_step_qv_cloud_device).
THEOREM OneEntryPerCloudDeviceHolds == Spec => []OneEntryPerCloudDevice
<1>1. IInv => OneEntryPerCloudDevice
  BY DEF IInv, Core
<1> QED
  BY <1>1, Invariance, PTL

\* No dialog overwrites what another one committed after it was opened.
THEOREM NothingClobberedHolds == Spec => NothingClobbered
<1>1. IInv /\ [Next]_vars => NoClobber
  BY StepSafe
<1> QED
  BY <1>1, Invariance, PTL DEF Spec, NothingClobbered, NoClobber

\* A certificate that replaces a pin was approved by the owner of the entry
\* (config_flow.py, async_step_connect3_tls_confirm).
THEOREM ApprovedIsPinnedHolds == Spec => ApprovedIsPinned
<1>1. IInv /\ [Next]_vars => PinsApproved
  BY StepSafe
<1> QED
  BY <1>1, Invariance, PTL DEF Spec, ApprovedIsPinned, PinsApproved

=============================================================================
