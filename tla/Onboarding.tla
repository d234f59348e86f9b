----------------------------- MODULE Onboarding -----------------------------
(***************************************************************************)
(* The configuration flows (config_flow.py, qv_cloud_flow.py) and the      *)
(* certificates they inspect (connect3/trust.py).  Several dialogs are     *)
(* open at once, on the same entry or on others; each waits for its owner, *)
(* for the device or for the cloud account, and commits what it shows by   *)
(* replacing the data of its entry.                                        *)
(*                                                                         *)
(* A Connect 3 or manual R002 entry is asked about its certificate, its    *)
(* local password, the relays of the second panel, the alarm diagnostic    *)
(* over TCP and its cloud device; an R002 entry that discovers its device  *)
(* about the relays and the cloud device, its pin being what its owner     *)
(* enters; a legacy entry only about the relays.                           *)
(* The CGI and the media endpoint of a host present one certificate.       *)
(***************************************************************************)
EXTENDS Naturals, FiniteSets

CONSTANTS
  Flows, Entries,
  Legacy,      \* entries of the V1 or R001 family; their identity is the UID of the device
  Discovery,   \* R002 entries in discovery mode
  Hosts, Certs,
  Trusted,     \* certificates the system trusts
  Special,     \* those of zero duration or with an RSA 1024 key: approved one by one
  Unfit,       \* expired, malformed or with a weak key: never accepted
  Devices,     \* devices of the cloud account
  Forms,       \* what an owner submits
  None,
  MaxStimuli   \* bound: submits of a first form and certificates replaced

VARIABLES
  stimuli,
  cert,        \* certificate that each host presents
  entries,     \* data of each entry; its host is None while it does not exist
  flow,        \* the open dialogs
  trialOf,     \* target for which the relays of an entry were agreed to
  alarmOf      \* target for which its alarm diagnostic was agreed to

vars == <<stimuli, cert, entries, flow, trialOf, alarmOf>>

Form == [host : Hosts, tcp : BOOLEAN, pin : Certs \cup {None}, secret : 0..1, panel : BOOLEAN,
         auto : BOOLEAN, trial : BOOLEAN, alarm : BOOLEAN, clear : BOOLEAN, qr : BOOLEAN,
         action : {"keep", "configure", "disable"}]

ASSUME OnboardingAssumption ==
  /\ Forms \subseteq Form
  /\ Legacy \subseteq Entries /\ Discovery \subseteq Entries \ Legacy /\ Trusted \subseteq Certs /\ Special \subseteq Certs
  /\ Unfit \subseteq Certs
  /\ None \notin Hosts \cup Certs \cup Devices /\ MaxStimuli \in Nat

Data == [host : Hosts \cup {None}, pin : Certs \cup {None}, tcp : BOOLEAN, secret : 0..2,
         trial : BOOLEAN, alarm : BOOLEAN, uid : Devices \cup {None}, cloud : BOOLEAN]
Absent == [host |-> None, pin |-> None, tcp |-> FALSE, secret |-> 0, trial |-> FALSE,
           alarm |-> FALSE, uid |-> None, cloud |-> FALSE]
Exists(e) == entries[e].host # None

\* The device, and how it is reached and authenticated
Target(d) == <<d.host, d.pin, d.tcp, d.secret>>
\* A legacy device is the one of its entry, wherever it is.
TargetOf(e, d) == IF e \in Legacy THEN <<None, d.pin, d.tcp, d.secret>> ELSE Target(d)
NoTarget == <<None, None, FALSE, 0>>
Targets == (Hosts \cup {None}) \X (Certs \cup {None}) \X BOOLEAN \X (0..2)

Stages == {"off", "inspect", "confirm", "reinspect", "access", "trials", "alarm",
           "account", "login", "device", "reauth", "validate", "plain", "validateplain"}
Dialog == [pc : Stages \ {"off"}, entry : Entries, form : Form, previous : Data, base : Data,
           seen : Certs \cup {None}, confirmed : SUBSET Certs, granted : SUBSET {"trial", "alarm"}]
Closed == [pc |-> "off"]

TypeOK ==
  /\ stimuli \in 0..MaxStimuli /\ cert \in [Hosts -> Certs] /\ entries \in [Entries -> Data]
  /\ flow \in [Flows -> Dialog \cup {Closed}]
  /\ trialOf \in [Entries -> Targets] /\ alarmOf \in [Entries -> Targets]

Stimulus == stimuli < MaxStimuli /\ stimuli' = stimuli + 1

-----------------------------------------------------------------------------
(* The data a dialog would commit, x being the dialog                      *)

Secret(x) == IF x.form.clear THEN 0 ELSE IF x.form.secret # 0 THEN 2 ELSE x.previous.secret

\* An opening command of the second panel asks for the consent of its relay.
Wanted(x) == x.form.trial /\ x.form.panel

\* Without the alarm consent, which _persist_connect3 decides; no relay
\* without an opening code
Merged(x) ==
  [x.previous EXCEPT !.host = x.form.host, !.pin = x.seen, !.tcp = x.form.tcp, !.secret = Secret(x),
     !.trial = Wanted(x) /\ Secret(x) # 0,
     !.cloud = IF x.form.action = "disable" THEN FALSE ELSE x.previous.cloud]

\* Mutant of ChangedTarget: a certificate that was replaced is the same target.
ChangedHost(x) ==
  LET d == Merged(x) IN d.host # x.previous.host \/ d.tcp # x.previous.tcp \/ d.secret # x.previous.secret

\* The endpoint, its certificate or a credential changes: consents are asked again.
ChangedTarget(x) == Target(Merged(x)) # Target(x.previous)

AlarmEligible(x) == x.previous.host # None /\ Merged(x).tcp /\ Merged(x).secret # 0
Inherited(x) == AlarmEligible(x) /\ x.previous.alarm /\ ~ChangedTarget(x)
Result(x) ==
  [Merged(x) EXCEPT !.alarm =
     AlarmEligible(x) /\ ("alarm" \in x.granted \/ (Inherited(x) /\ x.form.alarm))]

\* A request for a relay that has no agreement for this very target
NeedsTrial(x) == Merged(x).trial /\ (~x.previous.trial \/ ChangedTarget(x))
NeedsAlarm(x) ==
  AlarmEligible(x) /\ x.form.alarm /\ ~x.form.clear /\ ~Inherited(x) /\ "alarm" \notin x.granted

HostTaken(e, h) == \E other \in Entries \ {e} : entries[other].host = h

\* Every dialog compares the entry with what it had when it was last looked at.
Valid(x) == entries[x.entry] = x.previous
\* There is nothing to compare for an entry that does not exist yet.
Unclobbered(x) == x.previous.host = None \/ Valid(x)

-----------------------------------------------------------------------------
(* Steps of a dialog                                                       *)

Show(f, x, pc) ==
  flow' = [flow EXCEPT ![f] = [x EXCEPT !.pc = pc]] /\ UNCHANGED <<entries, trialOf, alarmOf>>
Aborts(f) == flow' = [flow EXCEPT ![f] = Closed] /\ UNCHANGED <<entries, trialOf, alarmOf>>

\* async_update_reload_and_abort or async_create_entry
Commit(f, x, d) ==
  /\ entries' = [entries EXCEPT ![x.entry] = d]
  /\ trialOf' = (IF "trial" \in x.granted THEN [trialOf EXCEPT ![x.entry] = TargetOf(x.entry, d)] ELSE trialOf)
  /\ alarmOf' = (IF "alarm" \in x.granted THEN [alarmOf EXCEPT ![x.entry] = TargetOf(x.entry, d)] ELSE alarmOf)
  /\ flow' = [flow EXCEPT ![f] = Closed]

\* _save_reconfiguration: the cloud account is asked for last.
Saves(f, x) ==
  IF x.form.action = "configure" /\ Exists(x.entry) THEN Show(f, x, "account")
  ELSE Commit(f, x, Result(x))

\* _persist_connect3: the alarm diagnostic is agreed to apart, and the host
\* belongs to one entry.
Persist(f, x) ==
  IF NeedsAlarm(x) THEN Show(f, x, "alarm")
  ELSE IF HostTaken(x.entry, x.form.host) THEN Aborts(f)
  ELSE Saves(f, x)

Stores(f, x) ==
  CASE x.entry \in Legacy -> Commit(f, x, Merged(x))
    [] x.entry \in Discovery -> Saves(f, x)
    [] OTHER -> Persist(f, x)

\* _finish_connect3 and _finish_secondary_outputs: a relay is agreed to by name.
Finish(f, x) ==
  LET y == [x EXCEPT !.previous = entries[x.entry]] IN
  IF NeedsTrial(y) THEN Show(f, y, "trials") ELSE Stores(f, y)

\* _accept_connect3_tls: the inspected certificate becomes the pin; then the local
\* password is tried, unless it came with a QR code.
Accept(f, x) ==
  IF ~Unclobbered(x) THEN Aborts(f)
  ELSE IF x.form.qr THEN Finish(f, x)
  ELSE Show(f, x, "access")

\* The first form: a dialog for an entry, or for one that it will create
Opened(e, form) ==
  [pc |-> "inspect", entry |-> e, form |-> form, previous |-> entries[e], base |-> entries[e],
   seen |-> entries[e].pin, confirmed |-> {}, granted |-> {}]
Free(f, e) ==
  /\ flow[f].pc = "off"
  /\ ~Exists(e) => \A g \in Flows \ {f} : flow[g].pc # "off" => flow[g].entry # e

\* Only choices that leave the endpoint and every secret alone
Presentation(e, form) ==
  /\ Exists(e) /\ form.host = entries[e].host /\ form.tcp = entries[e].tcp
  /\ form.secret = 0 /\ form.pin = None /\ ~form.qr /\ ~form.auto
  /\ form.trial # entries[e].trial \/ form.alarm # entries[e].alarm

\* Entries of the Connect 3 family, or in manual mode
Connect3(e) == e \notin Legacy \cup Discovery

\* _connect3_form
Submit(f, e, form) ==
  /\ Stimulus /\ Free(f, e) /\ Connect3(e) /\ ~HostTaken(e, form.host)
  /\ Exists(e) \/ (form.secret # 0 /\ ~form.clear /\ form.action = "keep")
  /\ LET x == Opened(e, form) IN
     CASE form.clear -> Finish(f, [x EXCEPT !.seen = None])
       [] ~form.clear /\ Presentation(e, form) -> Finish(f, x)
       [] OTHER -> Show(f, x, "inspect")
  /\ UNCHANGED cert

\* What the handshake with the host shows
Presented(x) == cert[x.form.host]
\* _properties: its structure, its dates and its key are acceptable at all.
Usable(c) == c \notin Unfit
\* inspect_trust: it fails for a certificate that no approval can make acceptable.
Inspects(x, ok) == ok => Usable(Presented(x))

\* The exceptions of an entry name its pin.
Exempt(x, c) == c \notin Special \/ c = x.previous.pin
Pin(x) == IF x.form.pin # None THEN x.form.pin ELSE x.previous.pin
\* trust_endpoint_matches: without an approval, only TLS may be
TrustMatches(d) == d.pin # None \/ ~d.tcp
Changed(x) ==
  /\ x.previous.host # None
  /\ \/ x.form.host # x.previous.host \/ x.form.tcp # x.previous.tcp \/ Pin(x) # x.previous.pin
     \/ ~TrustMatches(x.previous)

\* inspect_trust: a pin keeps precedence over the authorities of the system
NeedsApproval(x, c) ==
  \/ Pin(x) # None /\ Pin(x) # c
  \/ ~Exempt(x, c)
  \/ Pin(x) = None /\ c \notin Trusted
\* TCP is confirmed whenever it is new or its endpoint is.
NeedsTcp(x) == x.form.tcp /\ ~x.previous.tcp

\* A refused TLS socket makes an automatic setup try TCP, once (probe_tcp_setup).
Detected(x) == [x EXCEPT !.form.tcp = TRUE]

Inspected(f, ok, refused) ==
  /\ flow[f].pc = "inspect"
  /\ refused => ok /\ flow[f].form.auto
  /\ Inspects(flow[f], ok)
  /\ LET s == [flow[f] EXCEPT !.seen = Presented(flow[f])] IN
     LET x == IF refused THEN Detected(s) ELSE s IN
     IF ~ok THEN Aborts(f)
     ELSE IF NeedsApproval(x, x.seen) \/ Changed(x) \/ NeedsTcp(x) THEN Show(f, x, "confirm")
     ELSE Accept(f, x)
  /\ UNCHANGED <<stimuli, cert>>

\* async_step_connect3_tls_confirm: the owner approves the certificate shown, with every
\* exception it needs.
Confirm(f) ==
  /\ flow[f].pc = "confirm"
  /\ Show(f, [flow[f] EXCEPT !.confirmed = @ \cup {flow[f].seen}], "reinspect")
  /\ UNCHANGED <<stimuli, cert>>

\* Mutant of Reinspected: the certificate of the second inspection is taken when trusted.
ReinspectedAnew(f, ok) ==
  /\ flow[f].pc = "reinspect"
  /\ Inspects(flow[f], ok)
  /\ LET x == [flow[f] EXCEPT !.seen = Presented(flow[f])] IN
     IF ~ok THEN Show(f, flow[f], "confirm")
     ELSE IF x.seen \in flow[f].confirmed \cup Trusted THEN Accept(f, x)
     ELSE Show(f, x, "confirm")
  /\ UNCHANGED <<stimuli, cert>>

\* A certificate replaced while the dialog was open is shown in its turn.
Reinspected(f, ok) ==
  /\ flow[f].pc = "reinspect"
  /\ Inspects(flow[f], ok)
  /\ LET x == [flow[f] EXCEPT !.seen = Presented(flow[f])] IN
     IF ~ok THEN Show(f, flow[f], "confirm")
     ELSE IF x.seen = flow[f].seen THEN Accept(f, x)
     ELSE Show(f, x, "confirm")
  /\ UNCHANGED <<stimuli, cert>>

\* read_device, on a connection that must present the pin
Accessed(f, ok) ==
  /\ flow[f].pc = "access"
  /\ ok => cert[flow[f].form.host] = flow[f].seen
  /\ IF ok /\ Unclobbered(flow[f]) THEN Finish(f, flow[f]) ELSE Aborts(f)
  /\ UNCHANGED <<stimuli, cert>>

\* async_step_connect3_output_trials, async_step_secondary_output_trials
Trials(f) ==
  /\ flow[f].pc = "trials"
  /\ IF ~Unclobbered(flow[f]) THEN Aborts(f)
     ELSE LET x == [flow[f] EXCEPT !.granted = @ \cup {"trial"}] IN
          Stores(f, x)
  /\ UNCHANGED <<stimuli, cert>>

\* async_step_connect3_legacy_alarm_tcp_confirm
Alarm(f) ==
  /\ flow[f].pc = "alarm"
  /\ IF ~Valid(flow[f]) THEN Aborts(f)
     ELSE Persist(f, [flow[f] EXCEPT !.granted = @ \cup {"alarm"}])
  /\ UNCHANGED <<stimuli, cert>>

-----------------------------------------------------------------------------
(* The cloud account                                                       *)

\* async_step_qv_cloud_account: the login and the device list are awaited.
Account(f) ==
  /\ flow[f].pc = "account"
  /\ IF Valid(flow[f]) THEN Show(f, flow[f], "login") ELSE Aborts(f)
  /\ UNCHANGED <<stimuli, cert>>

LoggedIn(f, ok) ==
  /\ flow[f].pc = "login"
  /\ IF ~ok THEN Show(f, flow[f], "account")
     ELSE IF Valid(flow[f]) THEN Show(f, flow[f], "device") ELSE Aborts(f)
  /\ UNCHANGED <<stimuli, cert>>

BoundElsewhere(e, d) == \E other \in Entries \ {e} : entries[other].cloud /\ entries[other].uid = d
WrongDevice(x, d) == x.previous.uid \notin {None, d}
Bound(x, d) == [Result(x) EXCEPT !.uid = d, !.cloud = TRUE]

\* Mutant of Device: what was true before the login is not looked at again.
DeviceBlind(f, d) ==
  /\ flow[f].pc = "device"
  /\ ~WrongDevice(flow[f], d) /\ ~BoundElsewhere(flow[f].entry, d)
  /\ Commit(f, flow[f], Bound(flow[f], d))
  /\ UNCHANGED <<stimuli, cert>>

\* Mutant of Device: another entry may have the device.
DeviceShared(f, d) ==
  /\ flow[f].pc = "device"
  /\ IF ~Valid(flow[f]) THEN Aborts(f)
     ELSE /\ ~WrongDevice(flow[f], d)
          /\ Commit(f, flow[f], Bound(flow[f], d))
  /\ UNCHANGED <<stimuli, cert>>

\* async_step_qv_cloud_device: one cloud device never rings two entries.
Device(f, d) ==
  /\ flow[f].pc = "device"
  /\ IF ~Valid(flow[f]) THEN Aborts(f)
     ELSE /\ ~WrongDevice(flow[f], d) /\ ~BoundElsewhere(flow[f].entry, d)
          /\ Commit(f, flow[f], Bound(flow[f], d))
  /\ UNCHANGED <<stimuli, cert>>

-----------------------------------------------------------------------------
(* An R002 in discovery mode                                               *)

\* Nothing but its host, pin, codes, relays and account is asked for.
DiscoveryForm(e, form) ==
  [form EXCEPT !.tcp = entries[e].tcp, !.auto = FALSE, !.alarm = FALSE, !.qr = FALSE]

\* async_step_reconfigure: the pin entered is not compared with the device.
DiscoverySubmit(f, e, form) ==
  /\ Stimulus /\ Free(f, e) /\ e \in Discovery /\ Exists(e) /\ ~HostTaken(e, form.host)
  /\ LET x == Opened(e, DiscoveryForm(e, form)) IN
     Finish(f, [x EXCEPT !.seen = IF x.form.clear THEN None ELSE Pin(x)])
  /\ UNCHANGED cert

-----------------------------------------------------------------------------
(* Legacy devices                                                          *)

Credentials(h, secret) ==
  [host |-> h, tcp |-> FALSE, pin |-> None, secret |-> secret, panel |-> FALSE, auto |-> FALSE,
   trial |-> FALSE, alarm |-> FALSE, clear |-> FALSE, qr |-> FALSE, action |-> "keep"]

\* async_step_v1_cloud_reconfigure: only the panel and its relays are asked for.
LegacyForm(e, form) ==
  [Credentials(entries[e].host, 0) EXCEPT !.panel = form.panel, !.trial = form.trial]

\* async_step_legacy_reconfigure
LegacySubmit(f, e, form) ==
  /\ Stimulus /\ Free(f, e) /\ e \in Legacy /\ Exists(e)
  /\ Finish(f, Opened(e, LegacyForm(e, form)))
  /\ UNCHANGED cert

\* async_step_legacy: the device is asked for its UID, perhaps of a known entry.
LegacyAdd(f, e, h) ==
  /\ Stimulus /\ Free(f, e) /\ e \in Legacy
  /\ \A other \in Entries : entries[other].host # h
  /\ Show(f, Opened(e, Credentials(h, 1)), "validate")
  /\ UNCHANGED cert

New(x) == [Absent EXCEPT !.host = x.form.host, !.secret = 1]

\* A known device only gets its new host; one that speaks in the clear is asked about.
Validated(f, outcome) ==
  /\ flow[f].pc = "validate"
  /\ LET e == flow[f].entry IN
     CASE outcome = "failed" -> Aborts(f)
       [] outcome = "plain" -> Show(f, flow[f], "plain")
       [] outcome = "ok" /\ ~Exists(e) -> Commit(f, flow[f], New(flow[f]))
       [] outcome = "ok" /\ Exists(e) ->
            /\ entries' = [entries EXCEPT ![e].host = flow[f].form.host]
            /\ flow' = [flow EXCEPT ![f] = Closed] /\ UNCHANGED <<trialOf, alarmOf>>
  /\ UNCHANGED <<stimuli, cert>>

\* async_step_legacy_unprotected: one attempt
Plain(f) ==
  /\ flow[f].pc = "plain"
  /\ Show(f, flow[f], "validateplain")
  /\ UNCHANGED <<stimuli, cert>>

PlainValidated(f, ok) ==
  /\ flow[f].pc = "validateplain"
  /\ IF ok /\ ~Exists(flow[f].entry) THEN Commit(f, flow[f], New(flow[f])) ELSE Aborts(f)
  /\ UNCHANGED <<stimuli, cert>>

\* async_step_reauth_confirm: a new password revokes what was agreed to with the old one.
Reauth(f, e, secret) ==
  /\ Stimulus /\ Free(f, e) /\ e \in Legacy /\ Exists(e)
  /\ Show(f, Opened(e, Credentials(entries[e].host, secret)), "reauth")
  /\ UNCHANGED cert

Reauthenticated(f, ok) ==
  /\ flow[f].pc = "reauth"
  /\ IF ~ok THEN Aborts(f)
     ELSE LET e == flow[f].entry IN
          LET new == flow[f].form.secret + 1 IN
          /\ entries' = [entries EXCEPT ![e] =
               [entries[e] EXCEPT !.secret = new, !.trial = entries[e].trial /\ entries[e].secret = new]]
          /\ flow' = [flow EXCEPT ![f] = Closed] /\ UNCHANGED <<trialOf, alarmOf>>
  /\ UNCHANGED <<stimuli, cert>>

-----------------------------------------------------------------------------
\* The owner declines, or closes the dialog.
Close(f) ==
  /\ flow[f].pc \in {"confirm", "trials", "alarm", "account", "device", "plain"}
  /\ Aborts(f)
  /\ UNCHANGED <<stimuli, cert>>

\* A certificate is renewed or another device answers.
Replace(h, c) ==
  /\ Stimulus /\ cert[h] # c /\ cert' = [cert EXCEPT ![h] = c]
  /\ UNCHANGED <<entries, flow, trialOf, alarmOf>>

\* Some entries exist already.
Known(e, h) ==
  IF h = None THEN Absent
  ELSE [Absent EXCEPT !.host = h, !.pin = IF e \in Legacy THEN None ELSE cert[h], !.secret = 1]

Init ==
  /\ stimuli = 0 /\ cert \in [Hosts -> Certs]
  /\ \E host \in [Entries -> Hosts \cup {None}] :
       /\ \A e, o \in Entries : e # o => host[e] = None \/ host[e] # host[o]
       /\ entries = [e \in Entries |-> Known(e, host[e])]
  /\ flow = [f \in Flows |-> Closed]
  /\ trialOf = [e \in Entries |-> NoTarget] /\ alarmOf = [e \in Entries |-> NoTarget]

Next ==
  \/ \E h \in Hosts, c \in Certs : Replace(h, c)
  \/ \E f \in Flows :
       \/ Confirm(f) \/ Trials(f) \/ Alarm(f) \/ Account(f) \/ Plain(f) \/ Close(f)
       \/ \E d \in Devices : Device(f, d)
       \/ \E ok \in BOOLEAN :
            \/ \E refused \in BOOLEAN : Inspected(f, ok, refused)
            \/ Reinspected(f, ok) \/ Accessed(f, ok) \/ LoggedIn(f, ok)
            \/ PlainValidated(f, ok) \/ Reauthenticated(f, ok)
       \/ \E o \in {"ok", "failed", "plain"} : Validated(f, o)
       \/ \E e \in Entries, form \in Forms :
            Submit(f, e, form) \/ DiscoverySubmit(f, e, form) \/ LegacySubmit(f, e, form)
       \/ \E e \in Entries, h \in Hosts : LegacyAdd(f, e, h)
       \/ \E e \in Entries, secret \in 0..1 : Reauth(f, e, secret)

Spec == Init /\ [][Next]_vars

-----------------------------------------------------------------------------
(* Properties                                                              *)

\* A reconfiguration commits only over the data its owner started from: another one
\* completed while the dialog was open, or during a login, is never overwritten.
NothingClobbered ==
  [][\A f \in Flows :
       flow[f].pc \notin {"off", "reauth", "validate", "validateplain"} /\ flow'[f].pc = "off" =>
         LET e == flow[f].entry IN entries'[e] # entries[e] => entries[e] = flow[f].base]_vars

\* An enabled relay of the second panel, or an alarm diagnostic over TCP, was agreed to
\* for the target the entry has now: changing the host, the certificate, the transport
\* or a password by any dialog revokes it or asks again.
ConsentIsFresh ==
  \A e \in Entries :
    /\ entries[e].trial => trialOf[e] = TargetOf(e, entries[e])
    /\ entries[e].alarm => alarmOf[e] = TargetOf(e, entries[e]) /\ entries[e].tcp

\* A pin is replaced only by a certificate that its owner was shown and approved, although
\* the device presents another one while the dialog is open; a first pin may also be
\* the one that was entered, or one the system trusts. (In discovery mode a pin is what
\* its owner enters.)
ApprovedIsPinned ==
  [][\A e \in Entries \ Discovery : entries'[e].pin \notin {entries[e].pin, None} =>
       \E f \in Flows :
         /\ flow[f].pc # "off" /\ flow[f].entry = e
         /\ \/ entries'[e].pin \in flow[f].confirmed
            \/ entries[e].pin = None /\ entries'[e].pin \in (Trusted \cup {flow[f].form.pin}) \ Special]_vars

\* One cloud device never rings two entries, although two accounts log in at once.
OneEntryPerCloudDevice ==
  \A e, o \in Entries :
    e # o /\ entries[e].cloud /\ entries[o].cloud => entries[e].uid # entries[o].uid

=============================================================================
