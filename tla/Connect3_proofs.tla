--------------------------- MODULE Connect3_proofs ---------------------------
(***************************************************************************)
(* Proofs about a Connect 3 entry, for any number of viewers and stimuli:  *)
(* its one reader, its leases, what rides on a session, and the bounds of  *)
(* an output that is written.                                              *)
(***************************************************************************)
EXTENDS Connect3, TLAPS, FiniteSetTheorems

\* The lock of a channel has one holder: the last lease that halts, or stop().
Locks ==
  /\ \A o \in Owners : at[o] = "halting" => lock[on[o]] /\ stopper[on[o]] # "halting"
  /\ \A o, p \in Owners : at[o] = "halting" /\ at[p] = "halting" /\ on[o] = on[p] => o = p
  /\ \A c \in Channels : stopper[c] = "halting" => lock[c]
  /\ \A c \in Channels : lock[c] => consumers[c] = {} /\ run[c] \notin Running

\* A stop of a channel comes from a trust failure or from the unload, which are for good.
Loose == ~blocked /\ unload = "loaded"

Leases ==
  /\ Loose => \A c \in Channels : stopper[c] = "none"
  /\ Loose => \A o \in Owners : at[o] \in {"wait", "held", "leaving"} => o \in consumers[on[o]]

\* Reads and the diagnostic have the device for themselves.
Jobs ==
  /\ read \/ diag # "off" => claim = 0
  /\ ~(read /\ diag # "off")

\* A session has its number from its start to its end; who rides on it knows that number.
Riders ==
  /\ \A c \in Channels : run[c] \in {"session", "accepted"} => sid[c] # 0
  /\ \A c \in Channels : run[c] \in {"off", "prepare", "key"} => sid[c] = 0
  /\ \A c \in Channels : run[c] = "cleanup" /\ sid[c] # 0 => watch # sid[c]

\* What is on the wire of a session: nothing, or one code, and then at most its reply.
\* It is this action's and waited for, or the session is uncertain.
Line(c) ==
  /\ replies[c] = <<>> \/ \E a \in Nat : replies[c] = <<a>> /\ unanswered[c] = {a}
  /\ \A a, b \in unanswered[c] : a = b
  /\ sid[c] # 0 /\ unanswered[c] # {} /\ ~uncertain[c] =>
       phase = "waiting" /\ on["action"] = c /\ outSid = sid[c] /\ future <= 0

Wire == \A c \in Channels : Line(c)

Output ==
  /\ phase \in {"busy", "sending"} => ~attempted
  /\ phase = "waiting" => attempted
  /\ phase \in {"sending", "waiting"} => at["action"] = "held"
  /\ phase = "sending" /\ outSid # 0 /\ sid[on["action"]] = outSid => ~uncertain[on["action"]]

Held == ClaimIsLease /\ Locks /\ Leases
Riding == Jobs /\ NothingOutlivesVideo /\ Riders
Written == Wire /\ Output

IInv == TypeOK /\ Held /\ Riding /\ Written

USE Connect3Assumption
USE DEF IInv, TypeOK, Held, Riding, Written, ClaimIsLease, Locks, Loose, Leases, Jobs, NothingOutlivesVideo,
        Riders, hubVars, liveVars, leaseVars, outVars, wireVars, talkVars, jobVars,
        Channels, Owners, None, Running, Stimulus, Stopped, Open, Busy, Move

-----------------------------------------------------------------------------
(* What the actions do to the state, with their cases told apart            *)

\* A trust failure closes what runs, for good.
Closes ==
  /\ blocked' \in BOOLEAN /\ (blocked => blocked')
  /\ connected' \in [Channels -> BOOLEAN]
  /\ stopper' \in [Channels -> {"none", "asked", "halting", "listeners"}]
  /\ \A c \in Channels : stopper'[c] = stopper[c] \/ (stopper[c] = "none" /\ stopper'[c] = "asked" /\ blocked')

LEMMA BlockCloses == ASSUME TypeOK, NEW self, Block(self) PROVE Closes
<1> DEFINE A == {c \in Channels \ self : run[c] # "off"}
<1>1. blocked' = TRUE /\ connected' = [c \in Channels |-> connected[c] /\ c \notin A]
      /\ stopper' = [c \in Channels |-> IF c \in A /\ stopper[c] = "none" THEN "asked" ELSE stopper[c]]
  BY DEF Block
<1> HIDE DEF A
<1>2. connected' \in [Channels -> BOOLEAN] BY <1>1, Zenon
<1>3. \A c \in Channels : stopper'[c] = (IF c \in A /\ stopper[c] = "none" THEN "asked" ELSE stopper[c])
  BY <1>1
<1>4. stopper' \in [Channels -> {"none", "asked", "halting", "listeners"}]
  BY <1>1
<1> QED BY <1>1, <1>2, <1>3, <1>4 DEF Closes

LEMMA StayCloses == ASSUME TypeOK, UNCHANGED <<blocked, connected, stopper>> PROVE Closes
BY DEF Closes

LEMMA ReportsCloses == ASSUME TypeOK, NEW self, NEW b, Reports(self, b) PROVE Closes
BY BlockCloses, StayCloses DEF Reports

LEMMA EnterEffect ==
  ASSUME TypeOK, NEW o \in Owners, Enter(o)
  PROVE  LET c == on[o] IN
         /\ at[o] = "lock" /\ c \in Channels /\ ~lock[c]
         /\ UNCHANGED <<stimuli, hubVars, lock, stopper, sid, connected, sessions, on, outVars, wireVars, talkVars, jobVars>>
         /\ \/ at' = [at EXCEPT ![o] = "idle"] /\ UNCHANGED <<claim, consumers, run, ready>>
            \/ /\ \E s \in {"wait", "held", "leaving"} : at' = [at EXCEPT ![o] = s]
               /\ ~read /\ diag = "off" /\ claim \in {0, c}
               /\ claim' = c /\ consumers' = [consumers EXCEPT ![c] = @ \cup {o}]
               /\ \/ /\ run[c] = "off" /\ run' = [run EXCEPT ![c] = "prepare"]
                     /\ ready' = [ready EXCEPT ![c] = "pending"]
                  \/ run[c] # "off" /\ UNCHANGED <<run, ready>>
<1>1. on[o] \in Channels /\ ready[on[o]] \in {"pending", "ok", "failed"} OBVIOUS
<1> HIDE DEF TypeOK
<1>2. CASE Refused(o, on[o]) BY <1>1, <1>2 DEF Enter
<1>3. CASE ~Refused(o, on[o])
  <2>1. ~read /\ diag = "off" /\ claim \in {0, on[o]} BY <1>3 DEF Refused
  <2>2. \E s \in {"wait", "held", "leaving"} : at' = [at EXCEPT ![o] = s]
    <3>1. CASE run[on[o]] = "off" BY <1>3, <3>1 DEF Enter
    <3>2. CASE run[on[o]] # "off" /\ ready[on[o]] = "pending" BY <1>3, <3>2 DEF Enter
    <3>3. CASE run[on[o]] # "off" /\ ready[on[o]] = "ok" BY <1>3, <3>3 DEF Enter
    <3>4. CASE run[on[o]] # "off" /\ ready[on[o]] = "failed" BY <1>3, <3>4 DEF Enter
    <3> QED BY <1>1, <3>1, <3>2, <3>3, <3>4
  <2> QED BY <1>1, <1>3, <2>1, <2>2 DEF Enter
<1> QED BY <1>2, <1>3

LEMMA AskEffect ==
  ASSUME TypeOK, NEW o \in Owners, NEW c \in Channels, Ask(o, c)
  PROVE  /\ at[o] = "idle" /\ on' = [on EXCEPT ![o] = c] /\ Closes
         /\ at' = at \/ at' = [at EXCEPT ![o] = "lock"]
         /\ UNCHANGED <<unload, trusted, config, granted, claim, consumers, lock, run, sid, ready, sessions>>
<1>1. Trusting => Closes BY StayCloses DEF Trusting
<1>2. Block({}) => Closes BY BlockCloses
<1> QED BY <1>1, <1>2 DEF Ask

\* What a session that is closed does to an output that waits for its reply
LEMMA HaltEffect ==
  ASSUME TypeOK, NEW c \in Channels, Halt(c)
  PROVE  /\ run' = (IF run[c] \in Running THEN [run EXCEPT ![c] = "closing"] ELSE run)
         /\ future' \in {future, -1}
<1>1. run' = (IF run[c] \in Running THEN [run EXCEPT ![c] = "closing"] ELSE run)
  BY DEF Halt
<1>2. future' \in {future, -1} BY DEF Halt, FailOutput
<1> QED BY <1>1, <1>2

LEMMA UnloadPhases ==
  ASSUME NEW i \in 1..9
  PROVE  Phases[i] # "loaded" /\ Phases[i] # "done"
BY DEF Phases

LEMMA ReadEffect ==
  ASSUME TypeOK, NEW c \in Channels, ReplyRead(c)
  PROVE  LET r == Head(replies[c]) IN
         /\ run[c] = "accepted" /\ replies[c] # <<>> /\ r \in Nat
         /\ replies' = [replies EXCEPT ![c] = Tail(@)] /\ replies' \in [Channels -> Seq(Nat)]
         /\ unanswered' = [unanswered EXCEPT ![c] = @ \ {r}]
         /\ \/ UNCHANGED <<future, uncertain>>
            \/ /\ phase = "waiting" /\ on["action"] = c /\ sid[c] = outSid
               /\ \/ future' = r /\ UNCHANGED uncertain
                  \/ future' = -1 /\ uncertain' = [uncertain EXCEPT ![c] = TRUE]
         /\ UNCHANGED <<stimuli, hubVars, liveVars, leaseVars, phase, cancelled, action, outSid, outConfig, attempted, talkVars, jobVars>>
<1>1. replies[c] \in Seq(Nat) /\ replies[c] # <<>> BY DEF ReplyRead
<1>2. Head(replies[c]) \in Nat /\ Tail(replies[c]) \in Seq(Nat) BY <1>1
<1> QED BY <1>1, <1>2 DEF ReplyRead

\* Tasks go on, from the lock to nothing, or with their lease.
Moves(o) ==
  \/ at'[o] = at[o]
  \/ at[o] = "lock" /\ at'[o] = "idle"
  \/ at[o] \in {"wait", "held"} /\ at'[o] \in {"held", "leaving"}

LEMMA MovesHold ==
  ASSUME TypeOK, Held, UNCHANGED <<claim, consumers, lock, stopper, run, on, blocked, unload>>,
         \A o \in Owners : Moves(o)
  PROVE  Held'
<1>1. \A c \in Channels : consumers[c] \subseteq Owners OBVIOUS
<1> HIDE DEF TypeOK
<1>2. ClaimIsLease' BY <1>1 DEF Moves
<1>3. Locks' BY DEF Moves
<1>4. Leases' BY DEF Moves
<1> QED BY <1>2, <1>3, <1>4

\* The line of a channel is as it was, and so is the action that waits, unless none does.
SameLine(c) ==
  /\ replies'[c] = replies[c] /\ unanswered'[c] = unanswered[c]
  /\ sid'[c] \in {sid[c], 0} /\ (uncertain[c] => uncertain'[c])

LEMMA LineUntouched ==
  ASSUME NEW c, Line(c), SameLine(c),
         \/ phase # "waiting"
         \/ UNCHANGED <<phase, outSid>> /\ on'["action"] = on["action"] /\ future' \in {future, -1}
  PROVE  Line(c)'
BY DEF Line, SameLine

LEMMA WireUntouched ==
  ASSUME Wire, \A c \in Channels : SameLine(c),
         \/ phase # "waiting"
         \/ UNCHANGED <<phase, outSid>> /\ on'["action"] = on["action"] /\ future' \in {future, -1}
  PROVE  Wire'
BY LineUntouched DEF Wire

\* A line that is open and not uncertain is clear, unless its code is waited for.
LEMMA LineClear ==
  ASSUME NEW c, Line(c), unanswered[c] = {} \/ (phase # "waiting" /\ sid[c] # 0 /\ ~uncertain[c])
  PROVE  unanswered[c] = {} /\ replies[c] = <<>>
<1>1. unanswered[c] = {} BY DEF Line
<1> QED BY <1>1 DEF Line

\* The device can answer what is unanswered once.
LEMMA LineReply ==
  ASSUME NEW c, Line(c), NEW a \in unanswered[c], a \in Nat,
         \A i \in 1..Len(replies[c]) : replies[c][i] # a
  PROVE  replies[c] = <<>> /\ unanswered[c] = {a} /\ Append(replies[c], a) = <<a>>
<1>1. ASSUME NEW b \in Nat, replies[c] = <<b>>, unanswered[c] = {b} PROVE FALSE
  <2>1. Len(replies[c]) = 1 /\ replies[c][1] = b BY <1>1
  <2> QED BY <1>1, <2>1
<1>2. replies[c] = <<>> BY <1>1 DEF Line
<1>3. unanswered[c] = {a} BY DEF Line
<1> QED BY <1>2, <1>3

\* What is read is all there was.
LEMMA LineRead ==
  ASSUME NEW c, Line(c), replies[c] # <<>>
  PROVE  /\ Tail(replies[c]) = <<>> /\ Head(replies[c]) \in Nat
         /\ unanswered[c] \ {Head(replies[c])} = {}
<1>1. PICK a \in Nat : replies[c] = <<a>> /\ unanswered[c] = {a} BY DEF Line
<1> QED BY <1>1

\* Who asks for a lease has none.
LEMMA AskHolds ==
  ASSUME TypeOK, Held, NEW o \in Owners, NEW c \in Channels, Ask(o, c)
  PROVE  Held'
<1> HIDE DEF TypeOK, Held, ClaimIsLease, Locks, Leases, Owners
<1>1. /\ UNCHANGED <<claim, consumers, lock, run, unload>> /\ Closes
      /\ at[o] = "idle" /\ on' = [on EXCEPT ![o] = c]
      /\ at' = at \/ at' = [at EXCEPT ![o] = "lock"]
  BY AskEffect
<1>2. DOMAIN at = Owners /\ DOMAIN on = Owners BY DEF TypeOK
<1>3. \A p \in Owners : /\ p # o => at'[p] = at[p] /\ on'[p] = on[p]
                        /\ p = o => at[p] = "idle" /\ at'[p] \in {"idle", "lock"}
  BY <1>1, <1>2
<1>4. \A d \in Channels : /\ stopper'[d] = stopper[d] \/ (stopper[d] = "none" /\ stopper'[d] = "asked" /\ blocked')
                          /\ consumers[d] \subseteq Owners
  BY <1>1 DEF Closes, TypeOK
<1>5. blocked => blocked' BY <1>1 DEF Closes
<1>6. ClaimIsLease' BY <1>1, <1>3, <1>4 DEF Held, ClaimIsLease
<1>7. Locks'
  <2>1. \A p \in Owners : at'[p] = "halting" => p # o /\ at[p] = "halting" /\ on'[p] = on[p]
    BY <1>3
  <2>2. \A p \in Owners : on[p] \in Channels BY DEF TypeOK
  <2>3. \A d \in Channels : stopper'[d] = "halting" => stopper[d] = "halting" BY <1>4
  <2> QED BY <1>1, <2>1, <2>2, <2>3 DEF Held, Locks
<1>8. Leases' BY <1>1, <1>3, <1>4, <1>5 DEF Held, Leases
<1> QED BY <1>6, <1>7, <1>8 DEF Held

-----------------------------------------------------------------------------
(* Types                                                                   *)

LEMMA TypeOKKept == ASSUME TypeOK, Next PROVE TypeOK'
<1>1. ASSUME NEW v \in Viewers, NEW c \in Channels, Watch(v, c) PROVE TypeOK'
  <2>1. TypeOK /\ v \in Owners /\ Ask(v, c) BY <1>1 DEF Watch
  <2>2. CASE Trusting /\ at' = [at EXCEPT ![v] = "lock"]
    BY <1>1, <2>1, <2>2 DEF Trusting, Ask, Watch
  <2>3. CASE Block({}) /\ UNCHANGED at
    <3>1. Closes BY <2>3, BlockCloses
    <3> QED BY <1>1, <2>1, <2>3, <3>1 DEF Ask, Watch, Closes
  <2> QED BY <2>1, <2>2, <2>3 DEF Ask
<1>2. ASSUME NEW c \in Channels, Unlock(c) PROVE TypeOK'
  <2>4. cancelled' \in BOOLEAN /\ attempted' \in BOOLEAN BY <1>2, Zenon DEF Unlock
  <2>1. TypeOK /\ "action" \in Owners /\ Ask("action", c) BY <1>2 DEF Unlock
  <2>2. CASE Trusting /\ at' = [at EXCEPT !["action"] = "lock"]
    BY <1>2, <2>1, <2>4, <2>2 DEF Trusting, Ask, Unlock, TargetEnabled
  <2>3. CASE Block({}) /\ UNCHANGED at
    <3>1. Closes BY <2>3, BlockCloses
    <3> QED BY <1>2, <2>1, <2>4, <2>3, <3>1 DEF Ask, Unlock, Closes, TargetEnabled
  <2> QED BY <2>1, <2>2, <2>3 DEF Ask
<1>3. ASSUME NEW c \in Channels, RingPhoto(c) PROVE TypeOK'
  <2>1. TypeOK /\ "photo" \in Owners /\ Ask("photo", c) BY <1>3 DEF RingPhoto
  <2>2. CASE Trusting /\ at' = [at EXCEPT !["photo"] = "lock"]
    BY <1>3, <2>1, <2>2 DEF Trusting, Ask, RingPhoto
  <2>3. CASE Block({}) /\ UNCHANGED at
    <3>1. Closes BY <2>3, BlockCloses
    <3> QED BY <1>3, <2>1, <2>3, <3>1 DEF Ask, RingPhoto, Closes
  <2> QED BY <2>1, <2>2, <2>3 DEF Ask
<1>4. ASSUME NEW c \in Channels, Observe(c) PROVE TypeOK'
  BY <1>4 DEF Observe
<1>5. ASSUME NEW v \in Viewers, TalkStart(v) PROVE TypeOK'
  <2>1. CASE Distrusted
    <3>1. Closes BY <1>5, <2>1, BlockCloses DEF TalkStart
    <3>2. UNCHANGED talkVars BY <1>5, <2>1 DEF TalkStart
    <3> QED BY <1>5, <3>1, <3>2 DEF TalkStart, TalkRest, Closes
  <2>2. CASE ~Distrusted
    <3>1. PICK c \in Channels :
            /\ talk' = [talk EXCEPT ![c] = "starting"] /\ speaker' = [speaker EXCEPT ![c] = v]
            /\ talkSid' = [talkSid EXCEPT ![c] = sid[c]] /\ wanted' = [wanted EXCEPT ![c] = TRUE]
            /\ UNCHANGED <<blocked, connected, stopper>>
      BY <1>5, <2>2 DEF TalkStart, Talking
    <3>2. stimuli' \in 0..MaxStimuli
          /\ UNCHANGED <<unload, trusted, config, granted, claim, consumers, lock, run, sid, ready, sessions, TalkRest>>
      BY <1>5 DEF TalkStart
    <3> QED BY <3>1, <3>2 DEF TalkRest
  <2> QED BY <2>1, <2>2
<1>6. ASSUME CancelOutput PROVE TypeOK'
  <2>1. cancelled' \in BOOLEAN BY <1>6, Zenon DEF CancelOutput
  <2>2. PICK s \in {"idle", "lock", "wait", "held", "leaving", "halting"} : at' = [at EXCEPT !["action"] = s]
    BY <1>6 DEF CancelOutput
  <2>3. stimuli' \in 0..MaxStimuli
    <3>1. stimuli \in 0..MaxStimuli OBVIOUS
    <3>2. UNCHANGED stimuli \/ Stimulus BY <1>6 DEF CancelOutput
    <3> HIDE DEF TypeOK
    <3> QED BY <3>1, <3>2
  <2>4. UNCHANGED <<hubVars, liveVars, on, phase, action, outSid, outConfig, future,
                    attempted, uncertain, wireVars, talkVars, jobVars>>
    <3> HIDE DEF TypeOK
    <3> QED BY <1>6 DEF CancelOutput
  <2> QED BY <2>1, <2>2, <2>3, <2>4
<1>7. ASSUME Read PROVE TypeOK'
  <2>1. read' \in BOOLEAN
    <3>1. CASE read' = TRUE BY <3>1, Zenon
    <3> QED BY <1>7, <3>1 DEF Read
  <2>2. Closes BY <1>7, BlockCloses, StayCloses DEF Read, Trusting
  <2>3. stimuli' \in 0..MaxStimuli
        /\ UNCHANGED <<unload, trusted, config, granted, JobRest, diag, diagConfig, watch>>
    BY <1>7 DEF Read
  <2> QED BY <2>1, <2>2, <2>3 DEF Closes, JobRest
<1>8. ASSUME Listen PROVE TypeOK'
  <2>1. CASE Trusting BY <1>8, <2>1 DEF Listen, Trusting, JobRest
  <2>2. CASE Block({})
    <3>1. Closes BY <2>2, BlockCloses
    <3> QED BY <1>8, <3>1 DEF Listen, JobRest, Closes
  <2> QED BY <1>8, <2>1, <2>2 DEF Listen
<1>9. ASSUME Reconfigure PROVE TypeOK'
  BY <1>9 DEF Reconfigure
<1>10. ASSUME TrustLost PROVE TypeOK'
  <2>1. trusted' \in BOOLEAN BY <1>10, Zenon DEF TrustLost
  <2> QED BY <1>10, <2>1 DEF TrustLost
<1>11. ASSUME Unload PROVE TypeOK'
  <2>1. unload' \in {Phases[i] : i \in 1..9} BY <1>11 DEF Unload, Phases
  <2> QED BY <1>11, <2>1 DEF Unload
<1>12. ASSUME NEW v \in Viewers, Leave(v) PROVE TypeOK'
  BY <1>12 DEF Leave
<1>13. ASSUME NEW c \in Channels, TalkEnds(c) PROVE TypeOK'
  BY <1>13 DEF TalkEnds, Talking, TalkOnly, TalkRest
<1>14. ASSUME NEW c \in Channels, NEW b \in BOOLEAN, RunFails(c, b) PROVE TypeOK'
  <2>1. Closes BY <1>14, ReportsCloses DEF RunFails
  <2> QED BY <1>14, <2>1 DEF RunFails, Closes, ReadBreaks, Connecting, FailOutput, Resolve
<1>15. ASSUME NEW c \in Channels, NEW b \in BOOLEAN, TalkBreaks(c, b) PROVE TypeOK'
  <2>1. Closes BY <1>15, ReportsCloses DEF TalkBreaks
  <2> QED BY <1>15, <2>1 DEF TalkBreaks, Closes, Talking, TalkRest
<1>16. ASSUME NEW b \in BOOLEAN, ReadEnds(b) PROVE TypeOK'
  <2>1. Closes BY <1>16, ReportsCloses DEF ReadEnds
  <2>2. read' \in BOOLEAN BY <1>16, Zenon DEF ReadEnds
  <2> QED BY <1>16, <2>1, <2>2 DEF ReadEnds, Closes, JobRest
<1>17. ASSUME NEW b \in BOOLEAN, DiagEnds(b) PROVE TypeOK'
  <2>1. Closes BY <1>17, ReportsCloses DEF DiagEnds
  <2> QED BY <1>17, <2>1 DEF DiagEnds, Closes, JobRest
<1>18. ASSUME NEW c \in Channels, DeviceReplies(c) PROVE TypeOK'
  BY <1>18 DEF DeviceReplies
<1>19. ASSUME NEW o \in Owners, Enter(o) PROVE TypeOK'
  <2>0. UNCHANGED <<stimuli, hubVars, lock, stopper, sid, connected, sessions, on, outVars, wireVars, talkVars, jobVars>>
    <3> HIDE DEF TypeOK
    <3> QED BY <1>19 DEF Enter
  <2>1. CASE at' = [at EXCEPT ![o] = "idle"] /\ UNCHANGED <<claim, consumers, run, ready>>
    BY <2>0, <2>1
  <2>2. CASE /\ \E s \in {"wait", "held", "leaving"} : at' = [at EXCEPT ![o] = s]
             /\ claim' = on[o] /\ consumers' = [consumers EXCEPT ![on[o]] = @ \cup {o}]
             /\ \/ run' = [run EXCEPT ![on[o]] = "prepare"] /\ ready' = [ready EXCEPT ![on[o]] = "pending"]
                \/ UNCHANGED <<run, ready>>
    <3>1. PICK s \in {"wait", "held", "leaving"} : at' = [at EXCEPT ![o] = s] BY <2>2
    <3>2. /\ consumers' \in [Channels -> SUBSET Owners] /\ claim' \in Channels
          /\ run' \in [Channels -> Running \cup {"off", "closing", "cleanup"}]
          /\ ready' \in [Channels -> {"pending", "ok", "failed"}]
      BY <2>2
    <3> QED BY <2>0, <3>1, <3>2
  <2> QED BY <1>19, <2>1, <2>2, EnterEffect
<1>20. ASSUME NEW o \in Owners, GiveUp(o) PROVE TypeOK'
  BY <1>20 DEF GiveUp
<1>21. ASSUME NEW o \in Owners, Release(o) PROVE TypeOK'
  <2>2. CASE at' = [at EXCEPT ![o] = "idle"] /\ UNCHANGED <<lock, run, future>>
    BY <1>21, <2>2 DEF Release
  <2>3. CASE at' = [at EXCEPT ![o] = "halting"] /\ lock' = [lock EXCEPT ![on[o]] = TRUE] /\ Halt(on[o])
    <3>1. /\ run' = (IF run[on[o]] \in Running THEN [run EXCEPT ![on[o]] = "closing"] ELSE run)
          /\ future' \in {future, -1}
      BY <2>3, HaltEffect
    <3> QED BY <1>21, <2>3, <3>1 DEF Release
  <2> QED BY <1>21, <2>2, <2>3 DEF Release
<1>22. ASSUME NEW o \in Owners, Released(o) PROVE TypeOK'
  BY <1>22 DEF Released, FreeClaim
<1>23. ASSUME NEW c \in Channels, StopBegins(c) PROVE TypeOK'
  BY <1>23, HaltEffect DEF StopBegins
<1>24. ASSUME NEW c \in Channels, StopEnds(c) PROVE TypeOK'
  <2>1. PICK s \in {"listeners", "none"} : stopper' = [stopper EXCEPT ![c] = s]
    BY <1>24 DEF StopEnds
  <2>2. CASE lock' = [lock EXCEPT ![c] = FALSE] BY <1>24, <2>1, <2>2 DEF StopEnds, FreeClaim
  <2>3. CASE UNCHANGED <<claim, lock>> BY <1>24, <2>1, <2>3 DEF StopEnds
  <2> QED BY <1>24, <2>2, <2>3 DEF StopEnds
<1>25. ASSUME NEW c \in Channels, Prepare(c) PROVE TypeOK'
  BY <1>25 DEF Prepare
<1>26. ASSUME NEW c \in Channels, SessionStarts(c) PROVE TypeOK'
  BY <1>26 DEF SessionStarts
<1>27. ASSUME NEW c \in Channels, PlayAccepted(c) PROVE TypeOK'
  BY <1>27 DEF PlayAccepted, Connecting
<1>28. ASSUME NEW c \in Channels, Frame(c) PROVE TypeOK'
  BY <1>28 DEF Frame, Resolve
<1>29. ASSUME NEW c \in Channels, CloseTalk(c) PROVE TypeOK'
  BY <1>29 DEF CloseTalk
<1>30. ASSUME NEW c \in Channels, RunEnds(c) PROVE TypeOK'
  BY <1>30 DEF RunEnds, Resolve
<1>31. ASSUME NEW c \in Channels, ReplyRead(c) PROVE TypeOK'
  <2>1. PICK r \in Nat :
          /\ replies' \in [Channels -> Seq(Nat)]
          /\ unanswered' = [unanswered EXCEPT ![c] = @ \ {r}]
          /\ \/ UNCHANGED <<future, uncertain>>
             \/ future' = r /\ UNCHANGED uncertain
             \/ future' = -1 /\ uncertain' = [uncertain EXCEPT ![c] = TRUE]
    BY <1>31, ReadEffect
  <2>2. UNCHANGED <<stimuli, hubVars, liveVars, leaseVars, phase, cancelled, action, outSid, outConfig, attempted, talkVars, jobVars>>
    BY <1>31 DEF ReplyRead
  <2>3. CASE UNCHANGED <<future, uncertain>> BY <2>1, <2>2, <2>3
  <2>4. CASE future' = r /\ UNCHANGED uncertain BY <2>1, <2>2, <2>4
  <2>5. CASE future' = -1 /\ uncertain' = [uncertain EXCEPT ![c] = TRUE] BY <2>1, <2>2, <2>5
  <2> QED BY <2>1, <2>3, <2>4, <2>5
<1>32. ASSUME NEW c \in Channels, TalkOpens(c) PROVE TypeOK'
  BY <1>32 DEF TalkOpens, Talking, TalkOnly, TalkRest
<1>33. ASSUME NEW c \in Channels, TalkRequests(c) PROVE TypeOK'
  BY <1>33 DEF TalkRequests, Talking, TalkOnly, TalkRest
<1>34. ASSUME NEW c \in Channels, TalkClosed(c) PROVE TypeOK'
  BY <1>34 DEF TalkClosed, Talking, TalkOnly, TalkRest
<1>35. ASSUME OutputBegins PROVE TypeOK'
  BY <1>35 DEF OutputBegins, OutRest
<1>36. ASSUME OutputWrites PROVE TypeOK'
  BY <1>36 DEF OutputWrites, Authorized, OutRest
<1>37. ASSUME OutputRefused PROVE TypeOK'
  BY <1>37 DEF OutputRefused, OutputFails, OutRest
<1>38. ASSUME OutputAnswered PROVE TypeOK'
  BY <1>38 DEF OutputAnswered, OutRest
<1>39. ASSUME OutputUnanswered PROVE TypeOK'
  BY <1>39 DEF OutputUnanswered, OutputFails, OutRest
<1>40. ASSUME OutputEnds PROVE TypeOK'
  BY <1>40 DEF OutputEnds, OutRest
<1>41. ASSUME PhotoTaken PROVE TypeOK'
  BY <1>41 DEF PhotoTaken
<1>42. ASSUME DiagReconnects PROVE TypeOK'
  BY <1>42 DEF DiagReconnects
<1>43. ASSUME DiagLogsIn PROVE TypeOK'
  BY <1>43 DEF DiagLogsIn
<1>44. ASSUME DiagClosed PROVE TypeOK'
  BY <1>44 DEF DiagClosed
<1>45. ASSUME ObserveEnds PROVE TypeOK'
  BY <1>45 DEF ObserveEnds
<1>46. ASSUME UnloadProceeds PROVE TypeOK'
  <2>1. PICK i \in 1..9 : unload = Phases[i] /\ unload' = (IF i = 9 THEN "done" ELSE Phases[i + 1])
    BY <1>46 DEF UnloadProceeds
  <2>2. unload' \in {"loaded", "done"} \cup {Phases[j] : j \in 1..9}
    <3>1. CASE i = 9 BY <2>1, <3>1
    <3>2. CASE i # 9
      <4>1. i + 1 \in 1..9 BY <3>2
      <4> HIDE DEF TypeOK
      <4> QED BY <2>1, <3>2, <4>1
    <3> QED BY <3>1, <3>2
  <2>3. stopper' \in [Channels -> {"none", "asked", "halting", "listeners"}] BY <1>46 DEF UnloadProceeds
  <2>4. watch' \in Nat BY <1>46 DEF UnloadProceeds
  <2>5. UNCHANGED <<stimuli, blocked, trusted, config, granted, claim, consumers, lock, run, sid, connected, ready, sessions, leaseVars, outVars, wireVars, talkVars, read, diag, diagConfig>>
    BY <1>46 DEF UnloadProceeds
  <2> QED BY <2>2, <2>3, <2>4, <2>5
<1>47. ASSUME Investigate PROVE TypeOK'
  <2>1. read' \in BOOLEAN BY <1>47, Zenon DEF Investigate
  <2> QED BY <1>47, <2>1 DEF Investigate
<1> HIDE DEF TypeOK
<1> QED BY <1>1, <1>2, <1>3, <1>4, <1>5, <1>6, <1>7, <1>8, <1>9, <1>10, <1>11, <1>12, <1>13,
     <1>14, <1>15, <1>16, <1>17, <1>18, <1>19, <1>20, <1>21, <1>22, <1>23, <1>24, <1>25, <1>26,
     <1>27, <1>28, <1>29, <1>30, <1>31, <1>32, <1>33, <1>34, <1>35, <1>36, <1>37, <1>38, <1>39,
     <1>40, <1>41, <1>42, <1>43, <1>44, <1>45, <1>46, <1>47
     DEF Next, Outside, Perhaps, Onwards

-----------------------------------------------------------------------------
(* Leases, claims and locks                                                *)

LEMMA HeldKept == ASSUME TypeOK, Held, Output, Next PROVE Held'
<1>1. ASSUME NEW v \in Viewers, NEW c \in Channels, Watch(v, c) PROVE Held'
  <2> HIDE DEF TypeOK, Held
  <2> QED BY <1>1, AskHolds DEF Watch
<1>2. ASSUME NEW c \in Channels, Unlock(c) PROVE Held'
  <2> HIDE DEF TypeOK, Held
  <2> QED BY <1>2, AskHolds DEF Unlock
<1>3. ASSUME NEW c \in Channels, RingPhoto(c) PROVE Held'
  <2> HIDE DEF TypeOK, Held
  <2> QED BY <1>3, AskHolds DEF RingPhoto
<1>4. ASSUME NEW c \in Channels, Observe(c) PROVE Held'
  BY <1>4 DEF Observe
<1>5. ASSUME NEW v \in Viewers, TalkStart(v) PROVE Held'
  BY <1>5, BlockCloses, StayCloses DEF TalkStart, Closes, Talking, TalkRest, TalkMaterial
<1>6. ASSUME CancelOutput PROVE Held'
  <2>1. UNCHANGED <<claim, consumers, lock, stopper, run, on, blocked, unload>> BY <1>6 DEF CancelOutput
  <2>2. at' = [at EXCEPT !["action"] = CASE @ = "lock" -> "idle" [] @ = "wait" -> "leaving" [] OTHER -> @]
    BY <1>6 DEF CancelOutput
  <2>3. DOMAIN at = Owners OBVIOUS
  <2> HIDE DEF TypeOK, Held
  <2>4. \A o \in Owners : Moves(o)
    <3>1. CASE at["action"] = "lock" BY <2>2, <2>3, <3>1 DEF Moves
    <3>2. CASE at["action"] = "wait" BY <2>2, <2>3, <3>2 DEF Moves
    <3>3. CASE at["action"] \notin {"lock", "wait"} BY <2>2, <2>3, <3>3 DEF Moves
    <3> QED BY <3>1, <3>2, <3>3
  <2> QED BY <2>1, <2>4, MovesHold, Zenon
<1>7. ASSUME Read PROVE Held'
  BY <1>7, BlockCloses, StayCloses DEF Read, JobRest, Trusting, Closes
<1>8. ASSUME Listen PROVE Held'
  BY <1>8, BlockCloses, StayCloses DEF Listen, DiagBusy, JobRest, Trusting, Closes
<1>9. ASSUME Reconfigure PROVE Held'
  BY <1>9 DEF Reconfigure
<1>10. ASSUME TrustLost PROVE Held'
  BY <1>10 DEF TrustLost
<1>11. ASSUME Unload PROVE Held'
  BY <1>11 DEF Unload
<1>12. ASSUME NEW v \in Viewers, Leave(v) PROVE Held'
  BY <1>12 DEF Leave
<1>13. ASSUME NEW c \in Channels, TalkEnds(c) PROVE Held'
  BY <1>13 DEF TalkEnds, Talking, TalkOnly, TalkRest
<1>14. ASSUME NEW c \in Channels, NEW b \in BOOLEAN, RunFails(c, b) PROVE Held'
  BY <1>14, ReportsCloses DEF RunFails, Closes, ReadBreaks, Connecting, FailOutput, Resolve
<1>15. ASSUME NEW c \in Channels, NEW b \in BOOLEAN, TalkBreaks(c, b) PROVE Held'
  BY <1>15, ReportsCloses DEF TalkBreaks, Closes, Talking, TalkRest
<1>16. ASSUME NEW b \in BOOLEAN, ReadEnds(b) PROVE Held'
  BY <1>16, ReportsCloses DEF ReadEnds, JobRest, Closes
<1>17. ASSUME NEW b \in BOOLEAN, DiagEnds(b) PROVE Held'
  BY <1>17, ReportsCloses DEF DiagEnds, JobRest, Closes
<1>18. ASSUME NEW c \in Channels, DeviceReplies(c) PROVE Held'
  BY <1>18 DEF DeviceReplies
<1>19. ASSUME NEW o \in Owners, Enter(o) PROVE Held'
  <2> DEFINE c == on[o]
  <2>1. /\ at[o] = "lock" /\ c \in Channels /\ ~lock[c]
        /\ UNCHANGED <<stopper, lock, on, blocked, unload>>
    BY <1>19, EnterEffect
  <2>2. CASE at' = [at EXCEPT ![o] = "idle"] /\ UNCHANGED <<claim, consumers, run>> BY <2>1, <2>2
  <2>3. CASE /\ \E s \in {"wait", "held", "leaving"} : at' = [at EXCEPT ![o] = s]
             /\ claim \in {0, c} /\ claim' = c /\ consumers' = [consumers EXCEPT ![c] = @ \cup {o}]
             /\ UNCHANGED run \/ (run[c] = "off" /\ run' = [run EXCEPT ![c] = "prepare"])
    <3>1. /\ \A p \in Owners \ {o} : at'[p] = at[p]
          /\ at'[o] \in {"wait", "held", "leaving"}
          /\ consumers'[c] = consumers[c] \cup {o} /\ o \in consumers'[c]
          /\ \A d \in Channels \ {c} : consumers'[d] = consumers[d] /\ run'[d] = run[d]
          /\ run'[c] = run[c] \/ (run[c] = "off" /\ run'[c] = "prepare")
          /\ \A d \in Channels : consumers[d] \subseteq Owners
      BY <2>3
    <3>2. claim \in {0, c} /\ claim' = c BY <2>3
    <3> HIDE DEF TypeOK
    <3>3. ClaimIsLease' BY <2>1, <3>1, <3>2
    <3>4. Locks' BY <2>1, <3>1
    <3>5. Leases'
      <4>1. \A p \in Owners : p # o /\ at'[p] \in {"wait", "held", "leaving"} /\ Loose =>
              p \in consumers[on[p]]
        BY <3>1
      <4>2. \A d \in Channels : consumers[d] \subseteq consumers'[d] BY <3>1
      <4>3. \A p \in Owners : on[p] \in Channels BY DEF TypeOK
      <4> QED BY <2>1, <3>1, <4>1, <4>2, <4>3
    <3> QED BY <3>3, <3>4, <3>5
  <2>4. \/ at' = [at EXCEPT ![o] = "idle"] /\ UNCHANGED <<claim, consumers, run>>
        \/ /\ \E s \in {"wait", "held", "leaving"} : at' = [at EXCEPT ![o] = s]
           /\ claim \in {0, c} /\ claim' = c /\ consumers' = [consumers EXCEPT ![c] = @ \cup {o}]
           /\ UNCHANGED run \/ (run[c] = "off" /\ run' = [run EXCEPT ![c] = "prepare"])
    <3> HIDE DEF TypeOK, Held
    <3> QED BY <1>19, EnterEffect
  <2> QED BY <2>2, <2>3, <2>4
<1>20. ASSUME NEW o \in Owners, GiveUp(o) PROVE Held'
  BY <1>20 DEF GiveUp
<1>21. ASSUME NEW o \in Owners, Release(o) PROVE Held'
  BY <1>21, HaltEffect DEF Release
<1>22. ASSUME NEW o \in Owners, Released(o) PROVE Held'
  BY <1>22 DEF Released, FreeClaim
<1>23. ASSUME NEW c \in Channels, StopBegins(c) PROVE Held'
  BY <1>23, HaltEffect DEF StopBegins
<1>24. ASSUME NEW c \in Channels, StopEnds(c) PROVE Held'
  BY <1>24 DEF StopEnds, FreeClaim
<1>25. ASSUME NEW c \in Channels, Prepare(c) PROVE Held'
  BY <1>25 DEF Prepare
<1>26. ASSUME NEW c \in Channels, SessionStarts(c) PROVE Held'
  BY <1>26 DEF SessionStarts
<1>27. ASSUME NEW c \in Channels, PlayAccepted(c) PROVE Held'
  BY <1>27 DEF PlayAccepted, Connecting
<1>28. ASSUME NEW c \in Channels, Frame(c) PROVE Held'
  <2>1. UNCHANGED <<claim, consumers, lock, stopper, run, on, blocked, unload>> BY <1>28 DEF Frame
  <2>2. \A o \in Owners : Moves(o) BY <1>28 DEF Frame, Resolve, Moves
  <2> HIDE DEF TypeOK, Held
  <2> QED BY <2>1, <2>2, MovesHold, Zenon
<1>29. ASSUME NEW c \in Channels, CloseTalk(c) PROVE Held'
  BY <1>29 DEF CloseTalk
<1>30. ASSUME NEW c \in Channels, RunEnds(c) PROVE Held'
  <2>1. /\ run[c] = "cleanup" /\ run' = [run EXCEPT ![c] = "off"]
        /\ UNCHANGED <<claim, consumers, lock, stopper, on, blocked, unload>>
        /\ \A o \in Owners : at'[o] = at[o] \/ (at[o] = "wait" /\ at'[o] = "leaving")
    BY <1>30 DEF RunEnds, Resolve
  <2>2. ClaimIsLease' BY <2>1
  <2>3. \A d \in Channels : run'[d] \in {run[d], "off"} BY <2>1
  <2> HIDE DEF TypeOK
  <2>4. Locks' BY <2>1, <2>3
  <2>5. Leases' BY <2>1
  <2> QED BY <2>2, <2>4, <2>5
<1>31. ASSUME NEW c \in Channels, ReplyRead(c) PROVE Held'
  BY <1>31 DEF ReplyRead
<1>32. ASSUME NEW c \in Channels, TalkOpens(c) PROVE Held'
  BY <1>32 DEF TalkOpens, Talking, TalkOnly, TalkRest
<1>33. ASSUME NEW c \in Channels, TalkRequests(c) PROVE Held'
  BY <1>33 DEF TalkRequests, Talking, TalkOnly, TalkRest
<1>34. ASSUME NEW c \in Channels, TalkClosed(c) PROVE Held'
  BY <1>34 DEF TalkClosed, Talking, TalkOnly, TalkRest
<1>35. ASSUME OutputBegins PROVE Held'
  BY <1>35 DEF OutputBegins, OutRest
<1>36. ASSUME OutputWrites PROVE Held'
  BY <1>36 DEF OutputWrites, Authorized, OutRest
<1>37. ASSUME OutputRefused PROVE Held'
  <2>1. at["action"] = "held" BY <1>37 DEF OutputRefused, Output
  <2>2. at' = [at EXCEPT !["action"] = "leaving"] /\ UNCHANGED <<hubVars, liveVars, on>>
    BY <1>37 DEF OutputRefused, OutputFails, OutRest
  <2> QED BY <2>1, <2>2
<1>38. ASSUME OutputAnswered PROVE Held'
  <2>1. at["action"] = "held" BY <1>38 DEF OutputAnswered, Output
  <2>2. at' = [at EXCEPT !["action"] = "leaving"] /\ UNCHANGED <<hubVars, liveVars, on>>
    BY <1>38 DEF OutputAnswered, OutputFails, OutRest
  <2> QED BY <2>1, <2>2
<1>39. ASSUME OutputUnanswered PROVE Held'
  <2>1. at["action"] = "held" BY <1>39 DEF OutputUnanswered, Output
  <2>2. at' = [at EXCEPT !["action"] = "leaving"] /\ UNCHANGED <<hubVars, liveVars, on>>
    BY <1>39 DEF OutputUnanswered, OutputFails, OutRest
  <2> QED BY <2>1, <2>2
<1>40. ASSUME OutputEnds PROVE Held'
  BY <1>40 DEF OutputEnds, OutRest
<1>41. ASSUME PhotoTaken PROVE Held'
  BY <1>41 DEF PhotoTaken
<1>42. ASSUME DiagReconnects PROVE Held'
  BY <1>42 DEF DiagReconnects
<1>43. ASSUME DiagLogsIn PROVE Held'
  BY <1>43 DEF DiagLogsIn
<1>44. ASSUME DiagClosed PROVE Held'
  BY <1>44 DEF DiagClosed
<1>45. ASSUME ObserveEnds PROVE Held'
  BY <1>45 DEF ObserveEnds
<1>46. ASSUME UnloadProceeds PROVE Held'
  <2>1. ~Loose
    <3>1. PICK i \in 1..9 : unload = Phases[i] BY <1>46 DEF UnloadProceeds
    <3> HIDE DEF TypeOK, Held
    <3> QED BY <3>1, UnloadPhases
  <2>2. unload' # "loaded"
    <3>1. PICK i \in 1..9 : unload' = (IF i = 9 THEN "done" ELSE Phases[i + 1]) BY <1>46 DEF UnloadProceeds
    <3>2. i # 9 => i + 1 \in 1..9 OBVIOUS
    <3> HIDE DEF TypeOK, Held
    <3> QED BY <3>1, <3>2, UnloadPhases
  <2>3. UNCHANGED <<claim, consumers, lock, run, leaseVars>>
        /\ \A c \in Channels : stopper'[c] = stopper[c] \/ stopper'[c] = "asked"
    BY <1>46 DEF UnloadProceeds
  <2> QED BY <2>1, <2>2, <2>3
<1>47. ASSUME Investigate PROVE Held'
  BY <1>47 DEF Investigate
<1> HIDE DEF TypeOK, Held, Output
<1> QED BY <1>1, <1>2, <1>3, <1>4, <1>5, <1>6, <1>7, <1>8, <1>9, <1>10, <1>11, <1>12, <1>13,
     <1>14, <1>15, <1>16, <1>17, <1>18, <1>19, <1>20, <1>21, <1>22, <1>23, <1>24, <1>25, <1>26,
     <1>27, <1>28, <1>29, <1>30, <1>31, <1>32, <1>33, <1>34, <1>35, <1>36, <1>37, <1>38, <1>39,
     <1>40, <1>41, <1>42, <1>43, <1>44, <1>45, <1>46, <1>47
     DEF Next, Outside, Perhaps, Onwards

-----------------------------------------------------------------------------
(* What rides on a session                                                 *)

LEMMA RidingKept == ASSUME TypeOK, Held, Riding, Next PROVE Riding'
<1>1. ASSUME NEW v \in Viewers, NEW c \in Channels, Watch(v, c) PROVE Riding'
  BY <1>1, AskEffect DEF Watch, Closes
<1>2. ASSUME NEW c \in Channels, Unlock(c) PROVE Riding'
  <2>1. Ask("action", c) /\ UNCHANGED <<talkVars, jobVars>> BY <1>2 DEF Unlock
  <2> QED BY <2>1 DEF Ask
<1>3. ASSUME NEW c \in Channels, RingPhoto(c) PROVE Riding'
  <2>1. Ask("photo", c) /\ UNCHANGED <<talkVars, jobVars>> BY <1>3 DEF RingPhoto
  <2> QED BY <2>1 DEF Ask
<1>4. ASSUME NEW c \in Channels, Observe(c) PROVE Riding'
  BY <1>4 DEF Observe
<1>5. ASSUME NEW v \in Viewers, TalkStart(v) PROVE Riding'
  BY <1>5, BlockCloses, StayCloses DEF TalkStart, Closes, Talking, TalkRest, TalkMaterial
<1>6. ASSUME CancelOutput PROVE Riding'
  BY <1>6 DEF CancelOutput
<1>7. ASSUME Read PROVE Riding'
  BY <1>7, BlockCloses, StayCloses DEF Read, JobRest, Trusting, Closes
<1>8. ASSUME Listen PROVE Riding'
  BY <1>8, BlockCloses, StayCloses DEF Listen, DiagBusy, JobRest, Trusting, Closes
<1>9. ASSUME Reconfigure PROVE Riding'
  BY <1>9 DEF Reconfigure
<1>10. ASSUME TrustLost PROVE Riding'
  BY <1>10 DEF TrustLost
<1>11. ASSUME Unload PROVE Riding'
  BY <1>11 DEF Unload
<1>12. ASSUME NEW v \in Viewers, Leave(v) PROVE Riding'
  BY <1>12 DEF Leave
<1>13. ASSUME NEW c \in Channels, TalkEnds(c) PROVE Riding'
  BY <1>13 DEF TalkEnds, Talking, TalkOnly, TalkRest
<1>14. ASSUME NEW c \in Channels, NEW b \in BOOLEAN, RunFails(c, b) PROVE Riding'
  BY <1>14, ReportsCloses DEF RunFails, Closes, ReadBreaks, Connecting, FailOutput, Resolve
<1>15. ASSUME NEW c \in Channels, NEW b \in BOOLEAN, TalkBreaks(c, b) PROVE Riding'
  BY <1>15, ReportsCloses DEF TalkBreaks, Closes, Talking, TalkRest
<1>16. ASSUME NEW b \in BOOLEAN, ReadEnds(b) PROVE Riding'
  BY <1>16, ReportsCloses DEF ReadEnds, JobRest, Closes
<1>17. ASSUME NEW b \in BOOLEAN, DiagEnds(b) PROVE Riding'
  BY <1>17, ReportsCloses DEF DiagEnds, JobRest, Closes
<1>18. ASSUME NEW c \in Channels, DeviceReplies(c) PROVE Riding'
  BY <1>18 DEF DeviceReplies
<1>19. ASSUME NEW o \in Owners, Enter(o) PROVE Riding'
  <2>1. UNCHANGED <<sid, talkVars, jobVars, on>> /\ on[o] \in Channels BY <1>19, EnterEffect
  <2>2. CASE UNCHANGED <<claim, run>> BY <2>1, <2>2
  <2>3. CASE ~read /\ diag = "off" /\ UNCHANGED run BY <2>1, <2>3
  <2>4. CASE ~read /\ diag = "off" /\ run[on[o]] = "off" /\ run' = [run EXCEPT ![on[o]] = "prepare"]
    BY <2>1, <2>4
  <2> QED BY <1>19, <2>2, <2>3, <2>4, EnterEffect
<1>20. ASSUME NEW o \in Owners, GiveUp(o) PROVE Riding'
  BY <1>20 DEF GiveUp
<1>21. ASSUME NEW o \in Owners, Release(o) PROVE Riding'
  BY <1>21, HaltEffect DEF Release
<1>22. ASSUME NEW o \in Owners, Released(o) PROVE Riding'
  BY <1>22 DEF Released, FreeClaim
<1>23. ASSUME NEW c \in Channels, StopBegins(c) PROVE Riding'
  BY <1>23, HaltEffect DEF StopBegins
<1>24. ASSUME NEW c \in Channels, StopEnds(c) PROVE Riding'
  BY <1>24 DEF StopEnds, FreeClaim
<1>25. ASSUME NEW c \in Channels, Prepare(c) PROVE Riding'
  BY <1>25 DEF Prepare
<1>26. ASSUME NEW c \in Channels, SessionStarts(c) PROVE Riding'
  BY <1>26 DEF SessionStarts
<1>27. ASSUME NEW c \in Channels, PlayAccepted(c) PROVE Riding'
  BY <1>27 DEF PlayAccepted, Connecting
<1>28. ASSUME NEW c \in Channels, Frame(c) PROVE Riding'
  BY <1>28 DEF Frame, Resolve
<1>29. ASSUME NEW c \in Channels, CloseTalk(c) PROVE Riding'
  BY <1>29 DEF CloseTalk
<1>30. ASSUME NEW c \in Channels, RunEnds(c) PROVE Riding'
  BY <1>30 DEF RunEnds, Resolve
<1>31. ASSUME NEW c \in Channels, ReplyRead(c) PROVE Riding'
  BY <1>31 DEF ReplyRead
<1>32. ASSUME NEW c \in Channels, TalkOpens(c) PROVE Riding'
  BY <1>32 DEF TalkOpens, Talking, TalkOnly, TalkRest
<1>33. ASSUME NEW c \in Channels, TalkRequests(c) PROVE Riding'
  BY <1>33 DEF TalkRequests, Talking, TalkOnly, TalkRest
<1>34. ASSUME NEW c \in Channels, TalkClosed(c) PROVE Riding'
  BY <1>34 DEF TalkClosed, Talking, TalkOnly, TalkRest
<1>35. ASSUME OutputBegins PROVE Riding'
  BY <1>35 DEF OutputBegins, OutRest
<1>36. ASSUME OutputWrites PROVE Riding'
  BY <1>36 DEF OutputWrites, Authorized, OutRest
<1>37. ASSUME OutputRefused PROVE Riding'
  BY <1>37 DEF OutputRefused, OutputFails, OutRest
<1>38. ASSUME OutputAnswered PROVE Riding'
  BY <1>38 DEF OutputAnswered, OutRest
<1>39. ASSUME OutputUnanswered PROVE Riding'
  BY <1>39 DEF OutputUnanswered, OutputFails, OutRest
<1>40. ASSUME OutputEnds PROVE Riding'
  BY <1>40 DEF OutputEnds, OutRest
<1>41. ASSUME PhotoTaken PROVE Riding'
  BY <1>41 DEF PhotoTaken
<1>42. ASSUME DiagReconnects PROVE Riding'
  BY <1>42 DEF DiagReconnects
<1>43. ASSUME DiagLogsIn PROVE Riding'
  BY <1>43 DEF DiagLogsIn
<1>44. ASSUME DiagClosed PROVE Riding'
  BY <1>44 DEF DiagClosed
<1>45. ASSUME ObserveEnds PROVE Riding'
  BY <1>45 DEF ObserveEnds
<1>46. ASSUME UnloadProceeds PROVE Riding'
  BY <1>46, UnloadPhases DEF UnloadProceeds
<1>47. ASSUME Investigate PROVE Riding'
  BY <1>47 DEF Investigate, R002Busy
<1> HIDE DEF TypeOK, Held, Riding
<1> QED BY <1>1, <1>2, <1>3, <1>4, <1>5, <1>6, <1>7, <1>8, <1>9, <1>10, <1>11, <1>12, <1>13,
     <1>14, <1>15, <1>16, <1>17, <1>18, <1>19, <1>20, <1>21, <1>22, <1>23, <1>24, <1>25, <1>26,
     <1>27, <1>28, <1>29, <1>30, <1>31, <1>32, <1>33, <1>34, <1>35, <1>36, <1>37, <1>38, <1>39,
     <1>40, <1>41, <1>42, <1>43, <1>44, <1>45, <1>46, <1>47
     DEF Next, Outside, Perhaps, Onwards

-----------------------------------------------------------------------------
(* An output in progress                                                   *)

LEMMA OutputKept == ASSUME TypeOK, Held, Wire, Output, Next PROVE Output'
<1> USE DEF Output
<1>1. ASSUME NEW v \in Viewers, NEW c \in Channels, Watch(v, c) PROVE Output'
  <2>1. Ask(v, c) /\ v \in Owners /\ v # "action" /\ UNCHANGED <<outVars>> BY <1>1 DEF Watch
  <2>2. at'["action"] = at["action"] /\ on'["action"] = on["action"] /\ UNCHANGED sid
    <3>1. DOMAIN at = Owners /\ DOMAIN on = Owners OBVIOUS
    <3> HIDE DEF TypeOK, Held, Output
    <3> QED BY <2>1, <3>1 DEF Ask
  <2> QED BY <2>1, <2>2
<1>2. ASSUME NEW c \in Channels, Unlock(c) PROVE Output'
  BY <1>2, AskEffect DEF Unlock, Closes, TargetEnabled
<1>3. ASSUME NEW c \in Channels, RingPhoto(c) PROVE Output'
  <2>1. Ask("photo", c) /\ UNCHANGED <<outVars>> BY <1>3 DEF RingPhoto
  <2>2. at'["action"] = at["action"] /\ on'["action"] = on["action"] /\ UNCHANGED sid
    <3>1. DOMAIN at = Owners /\ DOMAIN on = Owners OBVIOUS
    <3> HIDE DEF TypeOK, Held, Output
    <3> QED BY <2>1, <3>1 DEF Ask
  <2> QED BY <2>1, <2>2
<1>4. ASSUME NEW c \in Channels, Observe(c) PROVE Output'
  BY <1>4 DEF Observe
<1>5. ASSUME NEW v \in Viewers, TalkStart(v) PROVE Output'
  BY <1>5, BlockCloses, StayCloses DEF TalkStart, Closes, Talking, TalkRest, TalkMaterial
<1>6. ASSUME CancelOutput PROVE Output'
  BY <1>6 DEF CancelOutput
<1>7. ASSUME Read PROVE Output'
  BY <1>7, BlockCloses, StayCloses DEF Read, JobRest, Trusting, Closes
<1>8. ASSUME Listen PROVE Output'
  BY <1>8, BlockCloses, StayCloses DEF Listen, DiagBusy, JobRest, Trusting, Closes
<1>9. ASSUME Reconfigure PROVE Output'
  BY <1>9 DEF Reconfigure
<1>10. ASSUME TrustLost PROVE Output'
  BY <1>10 DEF TrustLost
<1>11. ASSUME Unload PROVE Output'
  BY <1>11 DEF Unload
<1>12. ASSUME NEW v \in Viewers, Leave(v) PROVE Output'
  BY <1>12 DEF Leave
<1>13. ASSUME NEW c \in Channels, TalkEnds(c) PROVE Output'
  BY <1>13 DEF TalkEnds, Talking, TalkOnly, TalkRest
<1>14. ASSUME NEW c \in Channels, NEW b \in BOOLEAN, RunFails(c, b) PROVE Output'
  BY <1>14, ReportsCloses DEF RunFails, Closes, ReadBreaks, Connecting, FailOutput, Resolve
<1>15. ASSUME NEW c \in Channels, NEW b \in BOOLEAN, TalkBreaks(c, b) PROVE Output'
  BY <1>15, ReportsCloses DEF TalkBreaks, Closes, Talking, TalkRest
<1>16. ASSUME NEW b \in BOOLEAN, ReadEnds(b) PROVE Output'
  BY <1>16, ReportsCloses DEF ReadEnds, JobRest, Closes
<1>17. ASSUME NEW b \in BOOLEAN, DiagEnds(b) PROVE Output'
  BY <1>17, ReportsCloses DEF DiagEnds, JobRest, Closes
<1>18. ASSUME NEW c \in Channels, DeviceReplies(c) PROVE Output'
  BY <1>18 DEF DeviceReplies
<1>19. ASSUME NEW o \in Owners, Enter(o) PROVE Output'
  <2>1. /\ UNCHANGED <<outVars, sid, on>> /\ at[o] = "lock"
        /\ \A p \in Owners : p # o => at'[p] = at[p]
    <3>1. DOMAIN at = Owners OBVIOUS
    <3> HIDE DEF TypeOK, Held, Output
    <3> QED BY <1>19, <3>1, EnterEffect
  <2> QED BY <2>1
<1>20. ASSUME NEW o \in Owners, GiveUp(o) PROVE Output'
  BY <1>20 DEF GiveUp
<1>21. ASSUME NEW o \in Owners, Release(o) PROVE Output'
  BY <1>21, HaltEffect DEF Release
<1>22. ASSUME NEW o \in Owners, Released(o) PROVE Output'
  BY <1>22 DEF Released, FreeClaim
<1>23. ASSUME NEW c \in Channels, StopBegins(c) PROVE Output'
  BY <1>23, HaltEffect DEF StopBegins
<1>24. ASSUME NEW c \in Channels, StopEnds(c) PROVE Output'
  BY <1>24 DEF StopEnds, FreeClaim
<1>25. ASSUME NEW c \in Channels, Prepare(c) PROVE Output'
  BY <1>25 DEF Prepare
<1>26. ASSUME NEW c \in Channels, SessionStarts(c) PROVE Output'
  BY <1>26 DEF SessionStarts
<1>27. ASSUME NEW c \in Channels, PlayAccepted(c) PROVE Output'
  BY <1>27 DEF PlayAccepted, Connecting
<1>28. ASSUME NEW c \in Channels, Frame(c) PROVE Output'
  BY <1>28 DEF Frame, Resolve
<1>29. ASSUME NEW c \in Channels, CloseTalk(c) PROVE Output'
  BY <1>29 DEF CloseTalk
<1>30. ASSUME NEW c \in Channels, RunEnds(c) PROVE Output'
  BY <1>30 DEF RunEnds, Resolve
<1>31. ASSUME NEW c \in Channels, ReplyRead(c) PROVE Output'
  <2>1. /\ UNCHANGED <<at, on, sid, phase, outSid, attempted>>
        /\ phase = "waiting" \/ UNCHANGED uncertain
    BY <1>31, ReadEffect
  <2> QED BY <2>1
<1>32. ASSUME NEW c \in Channels, TalkOpens(c) PROVE Output'
  BY <1>32 DEF TalkOpens, Talking, TalkOnly, TalkRest
<1>33. ASSUME NEW c \in Channels, TalkRequests(c) PROVE Output'
  BY <1>33 DEF TalkRequests, Talking, TalkOnly, TalkRest
<1>34. ASSUME NEW c \in Channels, TalkClosed(c) PROVE Output'
  BY <1>34 DEF TalkClosed, Talking, TalkOnly, TalkRest
<1>35. ASSUME OutputBegins PROVE Output'
  BY <1>35 DEF OutputBegins, OutRest
<1>36. ASSUME OutputWrites PROVE Output'
  BY <1>36 DEF OutputWrites, Authorized, OutRest
<1>37. ASSUME OutputRefused PROVE Output'
  BY <1>37 DEF OutputRefused, OutputFails, OutRest
<1>38. ASSUME OutputAnswered PROVE Output'
  BY <1>38 DEF OutputAnswered, OutRest
<1>39. ASSUME OutputUnanswered PROVE Output'
  BY <1>39 DEF OutputUnanswered, OutputFails, OutRest
<1>40. ASSUME OutputEnds PROVE Output'
  BY <1>40 DEF OutputEnds, OutRest
<1>41. ASSUME PhotoTaken PROVE Output'
  BY <1>41 DEF PhotoTaken
<1>42. ASSUME DiagReconnects PROVE Output'
  BY <1>42 DEF DiagReconnects
<1>43. ASSUME DiagLogsIn PROVE Output'
  BY <1>43 DEF DiagLogsIn
<1>44. ASSUME DiagClosed PROVE Output'
  BY <1>44 DEF DiagClosed
<1>45. ASSUME ObserveEnds PROVE Output'
  BY <1>45 DEF ObserveEnds
<1>46. ASSUME UnloadProceeds PROVE Output'
  BY <1>46, UnloadPhases DEF UnloadProceeds
<1>47. ASSUME Investigate PROVE Output'
  BY <1>47 DEF Investigate
<1> HIDE DEF TypeOK, Held, Wire, Output
<1> QED BY <1>1, <1>2, <1>3, <1>4, <1>5, <1>6, <1>7, <1>8, <1>9, <1>10, <1>11, <1>12, <1>13,
     <1>14, <1>15, <1>16, <1>17, <1>18, <1>19, <1>20, <1>21, <1>22, <1>23, <1>24, <1>25, <1>26,
     <1>27, <1>28, <1>29, <1>30, <1>31, <1>32, <1>33, <1>34, <1>35, <1>36, <1>37, <1>38, <1>39,
     <1>40, <1>41, <1>42, <1>43, <1>44, <1>45, <1>46, <1>47
     DEF Next, Outside, Perhaps, Onwards

-----------------------------------------------------------------------------
(* What is on the wire                                                     *)

LEMMA WireKept == ASSUME TypeOK, Held, Wire, Output, Next PROVE Wire'
<1> USE DEF Output
<1>1. ASSUME NEW v \in Viewers, NEW c \in Channels, Watch(v, c) PROVE Wire'
  BY <1>1, AskEffect, WireUntouched DEF Watch, Closes, SameLine
<1>2. ASSUME NEW c \in Channels, Unlock(c) PROVE Wire'
  <2>1. Ask("action", c) /\ phase = "idle" /\ UNCHANGED <<uncertain, wireVars>> BY <1>2 DEF Unlock
  <2>2. UNCHANGED sid BY <2>1 DEF Ask
  <2> QED BY <2>1, <2>2, WireUntouched DEF SameLine
<1>3. ASSUME NEW c \in Channels, RingPhoto(c) PROVE Wire'
  BY <1>3, AskEffect, WireUntouched DEF RingPhoto, Closes, SameLine
<1>4. ASSUME NEW c \in Channels, Observe(c) PROVE Wire'
  BY <1>4, WireUntouched DEF Observe, SameLine
<1>5. ASSUME NEW v \in Viewers, TalkStart(v) PROVE Wire'
  BY <1>5, BlockCloses, StayCloses, WireUntouched
    DEF TalkStart, Closes, Talking, TalkRest, TalkMaterial, SameLine
<1>6. ASSUME CancelOutput PROVE Wire'
  BY <1>6, WireUntouched DEF CancelOutput, SameLine
<1>7. ASSUME Read PROVE Wire'
  BY <1>7, BlockCloses, StayCloses, WireUntouched DEF Read, JobRest, Trusting, Closes, SameLine
<1>8. ASSUME Listen PROVE Wire'
  BY <1>8, BlockCloses, StayCloses, WireUntouched DEF Listen, DiagBusy, JobRest, Trusting, Closes, SameLine
<1>9. ASSUME Reconfigure PROVE Wire'
  BY <1>9, WireUntouched DEF Reconfigure, SameLine
<1>10. ASSUME TrustLost PROVE Wire'
  BY <1>10, WireUntouched DEF TrustLost, SameLine
<1>11. ASSUME Unload PROVE Wire'
  BY <1>11, WireUntouched DEF Unload, SameLine
<1>12. ASSUME NEW v \in Viewers, Leave(v) PROVE Wire'
  BY <1>12, WireUntouched DEF Leave, SameLine
<1>13. ASSUME NEW c \in Channels, TalkEnds(c) PROVE Wire'
  BY <1>13, WireUntouched DEF TalkEnds, Talking, TalkOnly, TalkRest, SameLine
<1>14. ASSUME NEW c \in Channels, NEW b \in BOOLEAN, RunFails(c, b) PROVE Wire'
  BY <1>14, ReportsCloses, WireUntouched
    DEF RunFails, Closes, ReadBreaks, Connecting, FailOutput, Resolve, SameLine
<1>15. ASSUME NEW c \in Channels, NEW b \in BOOLEAN, TalkBreaks(c, b) PROVE Wire'
  BY <1>15, ReportsCloses, WireUntouched DEF TalkBreaks, Closes, Talking, TalkRest, SameLine
<1>16. ASSUME NEW b \in BOOLEAN, ReadEnds(b) PROVE Wire'
  BY <1>16, ReportsCloses, WireUntouched DEF ReadEnds, JobRest, Closes, SameLine
<1>17. ASSUME NEW b \in BOOLEAN, DiagEnds(b) PROVE Wire'
  BY <1>17, ReportsCloses, WireUntouched DEF DiagEnds, JobRest, Closes, SameLine
<1>18. ASSUME NEW c \in Channels, DeviceReplies(c) PROVE Wire'
  <2>1. PICK a \in unanswered[c] :
          /\ \A i \in 1..Len(replies[c]) : replies[c][i] # a
          /\ replies' = [replies EXCEPT ![c] = Append(replies[c], a)]
    BY <1>18 DEF DeviceReplies
  <2>2. UNCHANGED <<unanswered, sid, uncertain, phase, on, outSid, future>> BY <1>18 DEF DeviceReplies
  <2>3. Line(c) /\ a \in Nat /\ DOMAIN replies = Channels BY <2>1 DEF Wire
  <2> HIDE DEF TypeOK, Held, Output
  <2>4. replies[c] = <<>> /\ Append(replies[c], a) = <<a>> /\ unanswered[c] = {a} BY <2>1, <2>3, LineReply
  <2>5. replies'[c] = <<a>> /\ \A d \in Channels \ {c} : replies'[d] = replies[d] BY <2>1, <2>3, <2>4
  <2>6. Line(c)' BY <2>2, <2>3, <2>4, <2>5 DEF Line
  <2>7. ASSUME NEW d \in Channels \ {c} PROVE Line(d)'
    BY <2>2, <2>5, LineUntouched DEF Wire, SameLine
  <2> QED BY <2>6, <2>7 DEF Wire
<1>19. ASSUME NEW o \in Owners, Enter(o) PROVE Wire'
  <2>1. UNCHANGED <<outVars, wireVars, sid, on>> BY <1>19 DEF Enter
  <2> QED BY <2>1, WireUntouched DEF SameLine
<1>20. ASSUME NEW o \in Owners, GiveUp(o) PROVE Wire'
  BY <1>20, WireUntouched DEF GiveUp, SameLine
<1>21. ASSUME NEW o \in Owners, Release(o) PROVE Wire'
  BY <1>21, HaltEffect, WireUntouched DEF Release, SameLine
<1>22. ASSUME NEW o \in Owners, Released(o) PROVE Wire'
  BY <1>22, WireUntouched DEF Released, FreeClaim, SameLine
<1>23. ASSUME NEW c \in Channels, StopBegins(c) PROVE Wire'
  BY <1>23, HaltEffect, WireUntouched DEF StopBegins, SameLine
<1>24. ASSUME NEW c \in Channels, StopEnds(c) PROVE Wire'
  BY <1>24, WireUntouched DEF StopEnds, FreeClaim, SameLine
<1>25. ASSUME NEW c \in Channels, Prepare(c) PROVE Wire'
  BY <1>25, WireUntouched DEF Prepare, SameLine
<1>26. ASSUME NEW c \in Channels, SessionStarts(c) PROVE Wire'
  <2>1. /\ replies' = [replies EXCEPT ![c] = <<>>] /\ unanswered' = [unanswered EXCEPT ![c] = {}]
        /\ sid' = [sid EXCEPT ![c] = sessions + 1] /\ uncertain' = [uncertain EXCEPT ![c] = FALSE]
        /\ UNCHANGED <<phase, on, outSid, future>>
    BY <1>26 DEF SessionStarts
  <2>2. replies'[c] = <<>> /\ unanswered'[c] = {} BY <2>1
  <2>3. \A d \in Channels \ {c} : SameLine(d) BY <2>1 DEF SameLine
  <2>4. Line(c)' BY <2>2 DEF Line
  <2>5. ASSUME NEW d \in Channels \ {c} PROVE Line(d)'
    BY <2>1, <2>3, LineUntouched DEF Wire
  <2> QED BY <2>4, <2>5 DEF Wire
<1>27. ASSUME NEW c \in Channels, PlayAccepted(c) PROVE Wire'
  BY <1>27, WireUntouched DEF PlayAccepted, Connecting, SameLine
<1>28. ASSUME NEW c \in Channels, Frame(c) PROVE Wire'
  BY <1>28, WireUntouched DEF Frame, Resolve, SameLine
<1>29. ASSUME NEW c \in Channels, CloseTalk(c) PROVE Wire'
  BY <1>29, WireUntouched DEF CloseTalk, SameLine
<1>30. ASSUME NEW c \in Channels, RunEnds(c) PROVE Wire'
  BY <1>30, WireUntouched DEF RunEnds, Resolve, SameLine
<1>31. ASSUME NEW c \in Channels, ReplyRead(c) PROVE Wire'
  <2>1. /\ Line(c) /\ replies[c] # <<>>
        /\ replies' = [replies EXCEPT ![c] = Tail(@)]
        /\ unanswered' = [unanswered EXCEPT ![c] = @ \ {Head(replies[c])}]
        /\ UNCHANGED <<sid, phase, on, outSid>>
    BY <1>31 DEF ReplyRead, Wire
  <2>2. \A d \in Channels \ {c} : uncertain[d] => uncertain'[d] BY <1>31 DEF ReplyRead
  <2>3. UNCHANGED future \/ on["action"] = c BY <1>31 DEF ReplyRead
  <2>4. DOMAIN replies = Channels /\ DOMAIN unanswered = Channels OBVIOUS
  <2> HIDE DEF TypeOK, Held, Output
  <2>5. replies'[c] = <<>> /\ unanswered'[c] = {} BY <2>1, <2>4, LineRead
  <2>6. ASSUME NEW d \in Channels \ {c} PROVE SameLine(d) BY <2>1, <2>2, <2>4 DEF SameLine
  <2>7. Line(c)' BY <2>5 DEF Line
  <2>8. ASSUME NEW d \in Channels \ {c} PROVE Line(d)'
    <3>1. Line(d) /\ SameLine(d) BY <2>6 DEF Wire
    <3>2. CASE UNCHANGED future BY <2>1, <3>1, <3>2 DEF Line, SameLine
    <3>3. CASE on["action"] = c BY <2>1, <3>1, <3>3 DEF Line, SameLine
    <3> QED BY <2>3, <3>2, <3>3
  <2> QED BY <2>7, <2>8 DEF Wire
<1>32. ASSUME NEW c \in Channels, TalkOpens(c) PROVE Wire'
  BY <1>32, WireUntouched DEF TalkOpens, Talking, TalkOnly, TalkRest, SameLine
<1>33. ASSUME NEW c \in Channels, TalkRequests(c) PROVE Wire'
  BY <1>33, WireUntouched DEF TalkRequests, Talking, TalkOnly, TalkRest, SameLine
<1>34. ASSUME NEW c \in Channels, TalkClosed(c) PROVE Wire'
  BY <1>34, WireUntouched DEF TalkClosed, Talking, TalkOnly, TalkRest, SameLine
<1>35. ASSUME OutputBegins PROVE Wire'
  BY <1>35, WireUntouched DEF OutputBegins, OutRest, SameLine
<1>36. ASSUME OutputWrites PROVE Wire'
  <2>0. PICK c \in Channels : c = on["action"] OBVIOUS
  <2>1. /\ phase = "sending" /\ phase' = "waiting" /\ sid[c] = outSid /\ outSid # 0 /\ future = 0
        /\ unanswered' = [unanswered EXCEPT ![c] = @ \cup {action}]
        /\ UNCHANGED <<replies, sid, uncertain, on, outSid, future>>
    BY <1>36, <2>0 DEF OutputWrites, Authorized, OutRest
  <2>2. Line(c) /\ ~uncertain[c] BY <2>0, <2>1 DEF Wire
  <2>3. DOMAIN unanswered = Channels OBVIOUS
  <2> HIDE DEF TypeOK, Held, Output
  <2>4. unanswered[c] = {} /\ replies[c] = <<>> BY <2>1, <2>2, LineClear
  <2>5. unanswered'[c] = {action} /\ \A d \in Channels \ {c} : unanswered'[d] = unanswered[d]
    BY <2>1, <2>2, <2>3, <2>4
  <2>6. Line(c)' BY <2>0, <2>1, <2>4, <2>5 DEF Line
  <2>7. ASSUME NEW d \in Channels \ {c} PROVE Line(d)'
    <3>1. Line(d) BY DEF Wire
    <3> QED BY <2>0, <2>1, <2>5, <3>1 DEF Line
  <2> QED BY <2>6, <2>7 DEF Wire
<1>37. ASSUME OutputRefused PROVE Wire'
  BY <1>37, WireUntouched DEF OutputRefused, OutputFails, OutRest, SameLine
<1>38. ASSUME OutputAnswered PROVE Wire'
  <2>1. phase = "waiting" /\ ~(future <= 0) /\ UNCHANGED <<wireVars, sid, uncertain>>
    BY <1>38 DEF OutputAnswered, OutRest
  <2> HIDE DEF TypeOK, Held, Output
  <2>2. ASSUME NEW c \in Channels PROVE Line(c)' BY <2>1 DEF Wire, Line
  <2> QED BY <2>2 DEF Wire
<1>39. ASSUME OutputUnanswered PROVE Wire'
  <2>1. /\ phase = "waiting" /\ attempted /\ UNCHANGED <<wireVars, sid>>
        /\ uncertain' = [uncertain EXCEPT ![on["action"]] = @ \/ (attempted /\ sid[on["action"]] = outSid)]
    BY <1>39 DEF OutputUnanswered, OutputFails, OutRest
  <2>2. DOMAIN uncertain = Channels OBVIOUS
  <2> HIDE DEF TypeOK, Held, Output
  <2>3. ASSUME NEW c \in Channels PROVE Line(c)'
    <3>1. (uncertain[c] => uncertain'[c]) /\ (on["action"] = c /\ sid[c] = outSid => uncertain'[c])
      BY <2>1, <2>2
    <3>2. Line(c) BY DEF Wire
    <3> QED BY <2>1, <3>1, <3>2 DEF Line
  <2> QED BY <2>3 DEF Wire
<1>40. ASSUME OutputEnds PROVE Wire'
  BY <1>40, WireUntouched DEF OutputEnds, OutRest, SameLine
<1>41. ASSUME PhotoTaken PROVE Wire'
  BY <1>41, WireUntouched DEF PhotoTaken, SameLine
<1>42. ASSUME DiagReconnects PROVE Wire'
  BY <1>42, WireUntouched DEF DiagReconnects, SameLine
<1>43. ASSUME DiagLogsIn PROVE Wire'
  BY <1>43, WireUntouched DEF DiagLogsIn, SameLine
<1>44. ASSUME DiagClosed PROVE Wire'
  BY <1>44, WireUntouched DEF DiagClosed, SameLine
<1>45. ASSUME ObserveEnds PROVE Wire'
  BY <1>45, WireUntouched DEF ObserveEnds, SameLine
<1>46. ASSUME UnloadProceeds PROVE Wire'
  BY <1>46, UnloadPhases, WireUntouched DEF UnloadProceeds, SameLine
<1>47. ASSUME Investigate PROVE Wire'
  BY <1>47, WireUntouched DEF Investigate, SameLine
<1> HIDE DEF TypeOK, Held, Wire, Output
<1> QED BY <1>1, <1>2, <1>3, <1>4, <1>5, <1>6, <1>7, <1>8, <1>9, <1>10, <1>11, <1>12, <1>13,
     <1>14, <1>15, <1>16, <1>17, <1>18, <1>19, <1>20, <1>21, <1>22, <1>23, <1>24, <1>25, <1>26,
     <1>27, <1>28, <1>29, <1>30, <1>31, <1>32, <1>33, <1>34, <1>35, <1>36, <1>37, <1>38, <1>39,
     <1>40, <1>41, <1>42, <1>43, <1>44, <1>45, <1>46, <1>47
     DEF Next, Outside, Perhaps, Onwards

-----------------------------------------------------------------------------
(* The theorems                                                            *)

HIDE DEF TypeOK, Held, Riding, Written, Wire, Output

LEMMA InitHolds == ASSUME Init PROVE IInv
<1>1. TypeOK
  <2>1. /\ blocked \in BOOLEAN /\ trusted \in BOOLEAN /\ granted \in BOOLEAN
        /\ cancelled \in BOOLEAN /\ attempted \in BOOLEAN /\ read \in BOOLEAN
    BY Zenon DEF Init
  <2>2. /\ lock \in [Channels -> BOOLEAN] /\ connected \in [Channels -> BOOLEAN]
        /\ uncertain \in [Channels -> BOOLEAN] /\ wanted \in [Channels -> BOOLEAN]
    BY Zenon DEF Init
  <2>3. /\ replies = [c \in Channels |-> <<>>] /\ replies \in [Channels -> Seq(Nat)]
        /\ unanswered \in [Channels -> SUBSET Nat] /\ consumers \in [Channels -> SUBSET Owners]
    BY DEF Init
  <2> QED BY <2>1, <2>2, <2>3 DEF Init, TypeOK
<1>2. Held BY DEF Init, Held
<1>3. Riding BY DEF Init, Riding
<1>4. Written BY DEF Init, Written, Wire, Line, Output
<1> QED BY <1>1, <1>2, <1>3, <1>4

LEMMA StutterKeeps == ASSUME IInv, UNCHANGED vars PROVE IInv'
<1>1. TypeOK' BY DEF vars, TypeOK
<1>2. Held' BY DEF vars, Held
<1>3. Riding' BY DEF vars, Riding
<1>4. Output' BY DEF vars, Written, Output
<1>5. Wire' BY DEF vars, Written, Wire, Line
<1> QED BY <1>1, <1>2, <1>3, <1>4, <1>5 DEF Written

\* The inductive invariant: one lock holder per channel, no lease without a task that gives
\* it back, numbers of sessions told only to who ends before them, and a wire that is clear
\* unless its code is waited for.
THEOREM IInvInvariant == Spec => []IInv
<1>1. ASSUME IInv, [Next]_vars PROVE IInv'
  <2>1. CASE Next BY <1>1, <2>1, TypeOKKept, HeldKept, RidingKept, OutputKept, WireKept DEF Written
  <2> QED BY <1>1, <2>1, StutterKeeps
<1> QED BY <1>1, InitHolds, PTL DEF Spec

\* Every reachable state of a Connect 3 entry has its type.
THEOREM TypeCorrect == Spec => []TypeOK
BY IInvInvariant, PTL DEF IInv

\* A claim is somebody's lease or halt, a lease has an owner, a session a claim
\* (LiveMedia.acquire, _release, stop; _claim_media, _release_media).
THEOREM ClaimIsLeaseHolds == Spec => []ClaimIsLease
<1>1. IInv => ClaimIsLease BY DEF Held
<1> QED BY <1>1, IInvInvariant, PTL

\* A microphone and an observation end before the session they ride on (live._run, its cleanup).
THEOREM NothingOutlivesVideoHolds == Spec => []NothingOutlivesVideo
<1>1. IInv => NothingOutlivesVideo BY DEF Riding
<1> QED BY <1>1, IInvInvariant, PTL

\* The device never has two readers: sessions of two channels, a CGI read, the diagnostic.
THEOREM OneReaderHolds == Spec => []OneReader
<1>1. ASSUME IInv PROVE OneReader
  <2> DEFINE R == {c \in Channels : run[c] # "off"}
             S == {claim} \cap Channels
  <2>1. R \subseteq S BY <1>1 DEF Held
    <2>2. IsFiniteSet({claim}) /\ Cardinality({claim}) = 1 BY FS_Singleton
  <2>3. IsFiniteSet(R) /\ Cardinality(R) <= 1 /\ Cardinality(R) \in Nat
    <3>1. R \subseteq {claim} BY <2>1
    <3> HIDE DEF R
    <3> QED BY <2>2, <3>1, FS_Subset, FS_CardinalityType
  <2>4. CASE read \/ diag # "off"
    <3>1. claim = 0 /\ ~(read /\ diag # "off") BY <1>1, <2>4 DEF Riding
    <3>2. R = {} BY <2>1, <3>1
    <3>3. Cardinality(R) = 0 BY <3>2, FS_EmptySet
    <3> HIDE DEF R
    <3>4. Cardinality(R) + (IF read THEN 1 ELSE 0) + (IF diag # "off" THEN 1 ELSE 0) <= 1 BY <3>1, <3>3
    <3> QED BY <3>4 DEF OneReader, R
  <2>5. CASE ~read /\ diag = "off"
    <3> HIDE DEF R
    <3>1. Cardinality(R) + (IF read THEN 1 ELSE 0) + (IF diag # "off" THEN 1 ELSE 0) <= 1 BY <2>3, <2>5
    <3> QED BY <3>1 DEF OneReader, R
  <2> QED BY <2>4, <2>5
<1> QED BY <1>1, IInvInvariant, PTL

\* A code is written to a line only by OutputWrites.
LEMMA OnlyOutputWrites ==
  ASSUME IInv, Next, NEW c \in Channels, ~(unanswered'[c] \subseteq unanswered[c])
  PROVE  OutputWrites
<1> SUFFICES ASSUME ~OutputWrites PROVE unanswered'[c] \subseteq unanswered[c] OBVIOUS
<1>1. ASSUME NEW d \in Channels, SessionStarts(d) PROVE unanswered'[c] \subseteq unanswered[c]
  BY <1>1 DEF SessionStarts, TypeOK
<1>2. ASSUME NEW d \in Channels, ReplyRead(d) PROVE unanswered'[c] \subseteq unanswered[c]
  BY <1>2 DEF ReplyRead, TypeOK
<1>3. ASSUME UNCHANGED unanswered PROVE unanswered'[c] \subseteq unanswered[c] BY <1>3
<1>4. Outside => UNCHANGED unanswered
  BY DEF Outside, Unlock, RingPhoto, Observe, Watch, TalkStart, CancelOutput, Read, Investigate, Listen, Reconfigure,
         TrustLost, Unload, TalkRest, JobRest
<1> HIDE DEF IInv
<1>5. Perhaps => UNCHANGED unanswered
  BY DEF Perhaps, Leave, TalkEnds, RunFails, TalkBreaks, ReadEnds, DiagEnds, DeviceReplies,
         TalkRest, TalkOnly, JobRest
<1>6. ASSUME NEW o \in Owners, Enter(o) \/ GiveUp(o) \/ Release(o) \/ Released(o) PROVE UNCHANGED unanswered
  BY <1>6 DEF Enter, GiveUp, Release, Released
<1>7. ASSUME NEW d \in Channels,
             \/ StopBegins(d) \/ StopEnds(d) \/ Prepare(d) \/ PlayAccepted(d) \/ Frame(d) \/ CloseTalk(d) \/ RunEnds(d)
             \/ TalkOpens(d) \/ TalkRequests(d) \/ TalkClosed(d) \/ TalkEnds(d) \/ RunFails(d, TRUE)
      PROVE  UNCHANGED unanswered
  BY <1>7 DEF StopBegins, StopEnds, Prepare, PlayAccepted, Frame, CloseTalk, RunEnds, TalkOpens, TalkRequests,
              TalkClosed, TalkEnds, RunFails, TalkRest, TalkOnly
<1>8. ASSUME OutputBegins \/ OutputRefused \/ OutputAnswered \/ OutputUnanswered \/ OutputEnds \/ CancelOutput
      PROVE  UNCHANGED unanswered
  BY <1>8 DEF OutputBegins, OutputRefused, OutputFails, OutputAnswered, OutputUnanswered, OutputEnds, CancelOutput
<1>9. ASSUME \/ PhotoTaken \/ DiagReconnects \/ DiagLogsIn \/ DiagClosed \/ ObserveEnds \/ UnloadProceeds
             \/ ReadEnds(FALSE) \/ \E v \in Viewers : Leave(v)
      PROVE  UNCHANGED unanswered
  BY <1>9 DEF PhotoTaken, DiagReconnects, DiagLogsIn, DiagClosed, ObserveEnds, UnloadProceeds, ReadEnds, Leave, JobRest
<1>10. Onwards => unanswered'[c] \subseteq unanswered[c]
  <2> HIDE DEF Channels, Owners
  <2> QED BY <1>1, <1>2, <1>3, <1>6, <1>7, <1>8, <1>9 DEF Onwards
<1> QED BY <1>3, <1>4, <1>5, <1>10 DEF Next

\* A code goes out once per action, to the session it has leased, under the trust, options
\* and configuration it was asked with, onto a line that is clear (_send, authorize_output).
THEOREM WriteBoundHolds == Spec => WriteBound
<1> DEFINE Bounded(c) ==
       /\ unanswered[c] = {} /\ replies[c] = <<>>
       /\ claim = c /\ "action" \in consumers[c] /\ sid[c] = outSid
       /\ run[c] = "accepted" /\ unload = "loaded" /\ ~blocked
       /\ ~attempted /\ outConfig = config /\ granted
<1>1. ASSUME IInv, OutputWrites, NEW c \in Channels, ~(unanswered'[c] \subseteq unanswered[c])
      PROVE  Bounded(c)
  <2>1. /\ phase = "sending" /\ run[on["action"]] = "accepted" /\ unload = "loaded" /\ ~blocked
        /\ sid[on["action"]] = outSid /\ outSid # 0 /\ outConfig = config /\ granted
        /\ unanswered' = [unanswered EXCEPT ![on["action"]] = @ \cup {action}]
    BY <1>1 DEF OutputWrites, Authorized, TargetEnabled
  <2>2. c = on["action"] BY <1>1, <2>1 DEF TypeOK
  <2>3. at["action"] = "held" /\ ~attempted /\ ~uncertain[c] BY <1>1, <2>1, <2>2 DEF Written, Output
  <2>4. "action" \in consumers[c] BY <1>1, <2>1, <2>2, <2>3 DEF Held
  <2>5. claim = c BY <1>1, <2>4 DEF Held
  <2>6. unanswered[c] = {} /\ replies[c] = <<>>
    <3>1. Line(c) BY <1>1 DEF Written, Wire
    <3> QED BY <2>1, <2>2, <2>3, <3>1, LineClear
  <2> QED BY <2>1, <2>2, <2>3, <2>4, <2>5, <2>6
<1>2. ASSUME IInv, [Next]_vars, NEW c \in Channels, ~(unanswered'[c] \subseteq unanswered[c])
      PROVE  Bounded(c)
  <2>1. CASE Next BY <1>1, <1>2, <2>1, OnlyOutputWrites
  <2>2. CASE UNCHANGED vars BY <1>2, <2>2 DEF vars
  <2> QED BY <1>2, <2>1, <2>2
<1>3. IInv /\ [Next]_vars => \A c \in Channels : ~(unanswered'[c] \subseteq unanswered[c]) => Bounded(c)
  BY <1>2
<1> HIDE DEF IInv
<1> QED BY <1>3, IInvInvariant, PTL DEF Spec, WriteBound

-----------------------------------------------------------------------------
(* Both channels implement one lease service: every step is a step of       *)
(* MediaLease under the mapping of Lease, or a stutter.                     *)

\* All leases are those of the channel that has the claim, and so is the session.
LEMMA LeasesOfClaim ==
  ASSUME TypeOK, ClaimIsLease, NEW c \in Channels, claim \in {0, c}
  PROVE  /\ consumers[1] \cup consumers[2] = consumers[c]
         /\ Device = IF run[c] = "off" THEN "free" ELSE IF consumers[c] = {} THEN "closing" ELSE "open"
<1>1. ASSUME NEW d \in Channels, d # c PROVE consumers[d] = {} /\ run[d] = "off"
  BY <1>1
<1>2. consumers[1] \cup consumers[2] = consumers[c]
  BY <1>1
<1>3. \A d \in Channels : d # c => consumers[d] = {} /\ run[d] = "off"
  BY <1>1
<1> QED BY <1>2, <1>3 DEF Device

\* A step that changes neither leases, nor what runs, nor unloads, is a stutter.
LEMMA StutterRefines ==
  ASSUME TypeOK, consumers' = consumers, (unload' = "loaded") = (unload = "loaded"),
         \/ run' = run
         \/ \E c \in Channels : run[c] # "off" /\ \E s \in Running \cup {"closing", "cleanup"} :
              run' = [run EXCEPT ![c] = s]
  PROVE  UNCHANGED Lease!vars
<1>1. \A c \in Channels : (run'[c] = "off") = (run[c] = "off")
  <2>1. CASE run' = run
    BY <2>1
  <2>2. CASE run' # run
    <3>1. PICK d \in Channels, s \in Running \cup {"closing", "cleanup"} :
            run[d] # "off" /\ run' = [run EXCEPT ![d] = s]
      BY <2>2
    <3>2. s # "off"
      BY <3>1
    <3> QED BY <3>1, <3>2
  <2> QED BY <2>1, <2>2
<1>2. Device' = Device
  BY <1>1 DEF Device
<1> QED BY <1>2 DEF Lease!vars

\* A lease that is granted is Take: the claim of the other channel, or the lock
\* of a session that halts, would have kept it out.
LEMMA EnterRefines ==
  ASSUME TypeOK, ClaimIsLease, NEW o \in Owners, Enter(o)
  PROVE  Lease!Take(o) \/ UNCHANGED Lease!vars
<1> DEFINE c == on[o]
<1>1. CASE Refused(o, c)
  BY <1>1, StutterRefines DEF Enter
<1>2. CASE ~Refused(o, c)
  <2>0. /\ consumers \in [Channels -> SUBSET Owners] /\ on[o] \in Channels
        /\ run \in [Channels -> Running \cup {"off", "closing", "cleanup"}]
        /\ \A d \in Channels : run[d] # "off" => consumers[d] # {} \/ lock[d]
        /\ \A d \in Channels : consumers[d] # {} => claim = d
    <3>1. /\ consumers \in [Channels -> SUBSET Owners] /\ on[o] \in Channels
          /\ run \in [Channels -> Running \cup {"off", "closing", "cleanup"}]
      BY DEF TypeOK
    <3> QED BY <3>1
  <2> HIDE DEF ClaimIsLease
  <2>1. c \in Channels /\ claim \in {0, c} /\ unload = "loaded"
    BY <1>2, <2>0 DEF Refused
  <2>2. /\ claim' = c /\ unload' = unload /\ ~lock[c]
        /\ consumers' = [consumers EXCEPT ![c] = @ \cup {o}]
        /\ run' = IF run[c] = "off" THEN [run EXCEPT ![c] = "prepare"] ELSE run
    BY <1>2 DEF Enter
  <2> HIDE DEF c
  <2>3. /\ consumers[1] \cup consumers[2] = consumers[c]
        /\ Device = IF run[c] = "off" THEN "free" ELSE IF consumers[c] = {} THEN "closing" ELSE "open"
    BY <2>1, LeasesOfClaim
  <2>4. consumers'[c] = consumers[c] \cup {o} /\ run'[c] # "off"
    BY <2>0, <2>1, <2>2
  <2>5. consumers'[1] \cup consumers'[2] = consumers[c] \cup {o}
    <3>1. \A d \in Channels : d # c => consumers'[d] = {}
      BY <2>0, <2>1, <2>2
    <3> QED BY <2>1, <2>4, <3>1
  <2>6. Device' = "open"
    BY <2>1, <2>4 DEF Device
  <2>7. Device # "closing"
    <3>1. run[c] # "off" => consumers[c] # {} \/ lock[c]
      BY <2>0, <2>1
    <3> QED BY <2>2, <2>3, <3>1
  <2> QED BY <2>1, <2>2, <2>3, <2>5, <2>6, <2>7 DEF Lease!Take
<1> QED BY <1>1, <1>2

\* What happens to the device when the leases of a channel become fewer.
LEMMA FewerRefine ==
  ASSUME TypeOK, ClaimIsLease, NEW c \in Channels, NEW left \in SUBSET consumers[c],
         consumers[c] # {} \/ claim = c,
         consumers' = [consumers EXCEPT ![c] = left],
         run' = IF run[c] \in Running /\ left = {} THEN [run EXCEPT ![c] = "closing"] ELSE run
  PROVE  /\ consumers[1] \cup consumers[2] = consumers[c]
         /\ consumers'[1] \cup consumers'[2] = left
         /\ Device' = IF left = {} /\ Device = "open" THEN "closing" ELSE Device
<1>0. /\ consumers \in [Channels -> SUBSET Owners]
      /\ run \in [Channels -> Running \cup {"off", "closing", "cleanup"}] /\ claim = c
  <2>1. /\ consumers \in [Channels -> SUBSET Owners]
        /\ run \in [Channels -> Running \cup {"off", "closing", "cleanup"}]
    BY DEF TypeOK
  <2>2. consumers[c] # {} => claim = c
    OBVIOUS
  <2> QED BY <2>1, <2>2
<1>1. \A d \in Channels : d # c => consumers[d] = {} /\ run[d] = "off"
  BY <1>0
<1> HIDE DEF ClaimIsLease
<1>2. consumers'[c] = left /\ \A d \in Channels : d # c => consumers'[d] = {}
  BY <1>0, <1>1
<1>3. \A d \in Channels : (run'[d] = "off") = (run[d] = "off")
  BY <1>0
<1>4. /\ consumers[1] \cup consumers[2] = consumers[c]
      /\ consumers'[1] \cup consumers'[2] = left
  <2>1. CASE c = 1
    BY <1>1, <1>2, <2>1
  <2>2. CASE c = 2
    BY <1>1, <1>2, <2>2
  <2> QED BY <2>1, <2>2
<1>5. Device = IF run[c] = "off" THEN "free" ELSE IF consumers[c] = {} THEN "closing" ELSE "open"
  BY <1>1 DEF Device
<1>6. Device' = IF run[c] = "off" THEN "free" ELSE IF left = {} THEN "closing" ELSE "open"
  BY <1>1, <1>2, <1>3 DEF Device
<1>7. consumers[c] = {} => left = {}
  OBVIOUS
<1> QED BY <1>4, <1>5, <1>6, <1>7

\* A lease that is given back is Drop, unless it was taken away before.
LEMMA ReleaseRefines ==
  ASSUME TypeOK, ClaimIsLease, NEW o \in Owners, Release(o)
  PROVE  Lease!Drop(o) \/ UNCHANGED Lease!vars
<1> DEFINE c == on[o]
           left == consumers[c] \ {o}
<1>0. /\ consumers \in [Channels -> SUBSET Owners] /\ c \in Channels
      /\ run \in [Channels -> Running \cup {"off", "closing", "cleanup"}]
  BY DEF TypeOK
<1>1. /\ consumers' = [consumers EXCEPT ![c] = left] /\ unload' = unload
      /\ \/ run' = run
         \/ left = {} /\ Halt(c)
  BY DEF Release
<1>2. Halt(c) => run' = IF run[c] \in Running THEN [run EXCEPT ![c] = "closing"] ELSE run
  BY <1>0, HaltEffect
<1> HIDE DEF c
<1>3. CASE o \in consumers[c]
  <2>1. left \in SUBSET consumers[c] /\ consumers[c] # {}
    BY <1>3
  <2>2. run' = IF run[c] \in Running /\ left = {} THEN [run EXCEPT ![c] = "closing"] ELSE run
    <3>1. left # {} \/ Halt(c)
      BY <1>3 DEF Release, c
    <3> QED BY <1>1, <1>2, <3>1
  <2> HIDE DEF left
  <2>3. /\ consumers[1] \cup consumers[2] = consumers[c]
        /\ consumers'[1] \cup consumers'[2] = left
        /\ Device' = IF left = {} /\ Device = "open" THEN "closing" ELSE Device
    BY <1>0, <1>1, <2>1, <2>2, FewerRefine
  <2> QED BY <1>1, <1>3, <2>3 DEF Lease!Drop, left
<1>4. CASE o \notin consumers[c]
  <2>1. consumers' = consumers
    BY <1>0, <1>1, <1>4
  <2> QED BY <1>0, <1>1, <1>2, <2>1, StutterRefines
<1> QED BY <1>3, <1>4

\* stop() takes the leases of its channel away, which are all, or none.
LEMMA StopRefines ==
  ASSUME TypeOK, ClaimIsLease, NEW c \in Channels, StopBegins(c)
  PROVE  Lease!Withdraw \/ UNCHANGED Lease!vars
<1>0. /\ consumers \in [Channels -> SUBSET Owners]
      /\ run \in [Channels -> Running \cup {"off", "closing", "cleanup"}]
  BY DEF TypeOK
<1>1. consumers' = [consumers EXCEPT ![c] = {}] /\ unload' = unload /\ Halt(c)
  BY DEF StopBegins
<1>2. run' = IF run[c] \in Running THEN [run EXCEPT ![c] = "closing"] ELSE run
  BY <1>1, HaltEffect
<1>3. CASE consumers[c] # {} \/ claim = c
  <2>1. {} \in SUBSET consumers[c]
    OBVIOUS
  <2>2. /\ consumers'[1] \cup consumers'[2] = {}
        /\ Device' = IF {} = {} /\ Device = "open" THEN "closing" ELSE Device
    BY <1>1, <1>2, <1>3, <2>1, FewerRefine
  <2> QED BY <1>1, <2>2 DEF Lease!Withdraw, Lease!Revoke
<1>4. CASE consumers[c] = {} /\ claim # c
  <2>1. consumers' = consumers
    BY <1>0, <1>1, <1>4
  <2> QED BY <1>0, <1>1, <1>2, <2>1, StutterRefines
<1> QED BY <1>3, <1>4

\* The end of a session frees the device, whoever still has a lease.
LEMMA EndRefines ==
  ASSUME TypeOK, ClaimIsLease, NEW c \in Channels, RunEnds(c)
  PROVE  Lease!Free
<1>0. run \in [Channels -> Running \cup {"off", "closing", "cleanup"}]
  BY DEF TypeOK
<1>1. run[c] = "cleanup" /\ run' = [run EXCEPT ![c] = "off"] /\ UNCHANGED <<consumers, unload>>
  BY DEF RunEnds
<1>2. \A d \in Channels : run[d] # "off" => claim = d
  OBVIOUS
<1> HIDE DEF ClaimIsLease
<1>3. \A d \in Channels : run'[d] = "off"
  BY <1>0, <1>1, <1>2
<1>4. Device # "free" /\ Device' = "free"
  BY <1>1, <1>3 DEF Device
<1> QED BY <1>1, <1>4 DEF Lease!Free

\* A session goes on, or begins to close; its leases remain.
LEMMA RunRefines ==
  ASSUME TypeOK, NEW c \in Channels,
         \/ Prepare(c) \/ SessionStarts(c) \/ PlayAccepted(c) \/ CloseTalk(c)
         \/ \E b \in BOOLEAN : RunFails(c, b)
  PROVE  UNCHANGED Lease!vars
<1>1. /\ run[c] # "off" /\ consumers' = consumers /\ unload' = unload
      /\ \E s \in Running \cup {"closing", "cleanup"} : run' = [run EXCEPT ![c] = s]
  <2>1. CASE Prepare(c)
    BY <2>1 DEF Prepare
  <2>2. CASE SessionStarts(c)
    BY <2>2 DEF SessionStarts
  <2>3. CASE PlayAccepted(c)
    BY <2>3 DEF PlayAccepted, Connecting
  <2>4. CASE CloseTalk(c)
    BY <2>4 DEF CloseTalk
  <2>5. CASE \E b \in BOOLEAN : RunFails(c, b)
    BY <2>5 DEF RunFails, ReadBreaks, Connecting
  <2> QED BY <2>1, <2>2, <2>3, <2>4, <2>5
<1> QED BY <1>1, StutterRefines

\* The unload begins by refusing every further lease.
LEMMA UnloadRefines ==
  ASSUME Unload
  PROVE  Lease!Refuse
<1>1. unload = "loaded" /\ unload' # "loaded" /\ UNCHANGED <<run, consumers>>
  BY DEF Unload
<1>2. Device' = Device
  BY <1>1 DEF Device
<1> QED BY <1>1, <1>2 DEF Lease!Refuse

\* Nothing else touches a lease or a session.
LEMMA OthersRefine ==
  ASSUME TypeOK,
         \/ Outside /\ ~Unload
         \/ \E v \in Viewers : Leave(v)
         \/ \E c \in Channels : TalkEnds(c) \/ DeviceReplies(c) \/ \E b \in BOOLEAN : TalkBreaks(c, b)
         \/ \E b \in BOOLEAN : ReadEnds(b) \/ DiagEnds(b)
         \/ \E o \in Owners : GiveUp(o) \/ Released(o)
         \/ \E c \in Channels : StopEnds(c) \/ Frame(c) \/ ReplyRead(c)
                                 \/ TalkOpens(c) \/ TalkRequests(c) \/ TalkClosed(c)
         \/ OutputBegins \/ OutputWrites \/ OutputRefused \/ OutputAnswered \/ OutputUnanswered \/ OutputEnds
         \/ CancelOutput
         \/ PhotoTaken \/ DiagReconnects \/ DiagLogsIn \/ DiagClosed \/ ObserveEnds \/ UnloadProceeds
  PROVE  UNCHANGED Lease!vars
<1>1. UNCHANGED <<run, consumers>> /\ (unload' = "loaded") = (unload = "loaded")
  <2>1. CASE Outside /\ ~Unload
    BY <2>1 DEF Outside, Unlock, RingPhoto, Observe, Watch, Ask, TalkStart, CancelOutput, Read, Investigate, Listen,
               Reconfigure, TrustLost, TalkRest, JobRest
  <2>2. ASSUME NEW v \in Viewers, Leave(v) PROVE UNCHANGED <<run, consumers, unload>>
    BY <2>2 DEF Leave
  <2>3. ASSUME NEW c \in Channels, NEW b \in BOOLEAN, TalkEnds(c) \/ DeviceReplies(c) \/ TalkBreaks(c, b)
        PROVE  UNCHANGED <<run, consumers, unload>>
    BY <2>3 DEF TalkEnds, DeviceReplies, TalkBreaks, TalkOnly, TalkRest
  <2>4. ASSUME NEW b \in BOOLEAN, ReadEnds(b) \/ DiagEnds(b) PROVE UNCHANGED <<run, consumers, unload>>
    BY <2>4 DEF ReadEnds, DiagEnds, JobRest
  <2>5. ASSUME NEW o \in Owners, GiveUp(o) \/ Released(o) PROVE UNCHANGED <<run, consumers, unload>>
    BY <2>5 DEF GiveUp, Released
  <2>6. ASSUME NEW c \in Channels, \/ StopEnds(c) \/ Frame(c) \/ ReplyRead(c)
                                   \/ TalkOpens(c) \/ TalkRequests(c) \/ TalkClosed(c)
        PROVE  UNCHANGED <<run, consumers, unload>>
    BY <2>6 DEF StopEnds, Frame, ReplyRead, TalkOpens, TalkRequests, TalkClosed, TalkOnly, TalkRest
  <2>7. CASE OutputBegins \/ OutputWrites \/ OutputRefused \/ OutputAnswered \/ OutputUnanswered \/ OutputEnds \/ CancelOutput
    BY <2>7 DEF OutputBegins, OutputWrites, OutputRefused, OutputAnswered, OutputUnanswered, OutputEnds, OutputFails,
               CancelOutput, OutRest
  <2>8. CASE PhotoTaken \/ DiagReconnects \/ DiagLogsIn \/ DiagClosed \/ ObserveEnds
    BY <2>8 DEF PhotoTaken, DiagReconnects, DiagLogsIn, DiagClosed, ObserveEnds
  <2>9. CASE UnloadProceeds
    <3>1. PICK i \in 1..9 : /\ unload = Phases[i] /\ UNCHANGED <<run, consumers>>
                            /\ unload' = IF i = 9 THEN "done" ELSE Phases[i + 1]
      BY <2>9 DEF UnloadProceeds
    <3>2. i # 9 => i + 1 \in 1..9
      OBVIOUS
    <3>3. unload # "loaded" /\ unload' # "loaded"
      BY <3>1, <3>2, UnloadPhases
    <3> QED BY <3>1, <3>3
  <2> QED BY <2>1, <2>2, <2>3, <2>4, <2>5, <2>6, <2>7, <2>8, <2>9
<1> QED BY <1>1, StutterRefines

\* Two channels with their claim, locks and stops are a lease service of one session:
\* it opens for a lease, is shared, closes with the last lease or because all are taken
\* away, and is never handed out while it closes or after the unload began (hub.py
\* _claim_media, live.py acquire, _release, _stop, channel2.py acquire, stop).
THEOREM Connect3ImplementsLease == Spec => ImplementsLease
<1>1. Init => Lease!Init
  BY DEF Init, Lease!Init, Device
<1>2. IInv /\ [Next]_vars => [Lease!Next]_(Lease!vars)
  <2> SUFFICES ASSUME TypeOK, ClaimIsLease, [Next]_vars PROVE Lease!Next \/ UNCHANGED Lease!vars
    BY DEF Held
  <2> HIDE DEF ClaimIsLease
  <2>1. CASE UNCHANGED vars
    BY <2>1, StutterRefines DEF vars
  <2>2. ASSUME NEW o \in Owners, Enter(o) \/ Release(o) PROVE Lease!Next \/ UNCHANGED Lease!vars
    BY <2>2, EnterRefines, ReleaseRefines DEF Lease!Next
  <2>3. ASSUME NEW c \in Channels, StopBegins(c) \/ RunEnds(c) PROVE Lease!Next \/ UNCHANGED Lease!vars
    BY <2>3, StopRefines, EndRefines DEF Lease!Next
  <2>4. CASE Unload
    BY <2>4, UnloadRefines DEF Lease!Next
  <2>5. ASSUME NEW c \in Channels,
               \/ Prepare(c) \/ SessionStarts(c) \/ PlayAccepted(c) \/ CloseTalk(c)
               \/ \E b \in BOOLEAN : RunFails(c, b)
        PROVE  UNCHANGED Lease!vars
    BY <2>5, RunRefines
  <2> HIDE DEF Channels, Owners
  <2>6. CASE Outside
    BY <2>4, <2>6, OthersRefine
  <2>7. CASE Perhaps
    BY <2>5, <2>7, OthersRefine DEF Perhaps
  <2>8. CASE Onwards
    BY <2>2, <2>3, <2>5, <2>8, OthersRefine DEF Onwards
  <2> QED BY <2>1, <2>6, <2>7, <2>8 DEF Next
<1> QED BY <1>1, <1>2, IInvInvariant, PTL DEF Spec, ImplementsLease, Lease!Spec

=============================================================================
